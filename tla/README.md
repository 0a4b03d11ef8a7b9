# Codex Usage Bar: a TLA+ model

Codex Usage Bar shows the Codex usage of an account in the macOS menu bar
(Swift, `src/Sources`) and in the Linux system tray (Rust, `src/linux`).  Both
programs start `codex app-server`, ask it for the usage over JSON-RPC, decode the
answer and present it.  These modules model the Linux application: the parts in
which threads, processes, timers and failures meet, the handlers of its window and
its chart, and the computation that takes an answer to the figures on the screen.
TLC checks them on small instances, and TLAPS proves the main safety properties for
instances of any size.

## The system and its parts

### Linux

**Tray mailbox** (`linux/src/tray.rs`).  State: one coalesced slot each for the
timeframe and the autostart setting, a refresh flag, a queue of at most two
window commands, a quit flag.  Operations: the tray thread *sends* a command (a
window command is merged into the queue by `coalesce_window_command`), the UI
thread *takes* at most 32 every 80 ms.  Hard: merging must not change what the
clicks add up to, although a poll may take only a part of the queue and later
clicks are merged into the rest.  Correct when the window ends up where the
unmerged clicks would have put it, the queue is bounded, and Quit wins.

**UI controller** (`linux/src/ui.rs`, `ui/presentation.rs`).  State: timeframe and
saved preference, history page, refreshing flag, last snapshot and last error,
whether and where the window is shown, a status note.  Operations: the timers
(five minutes, 30 seconds, the 80 ms poll), the window's buttons, tabs and pager,
the tray's commands, a second launch.  It interacts with the tray thread in both
directions (commands through the mailbox, `handle.update` back) and with fetch
threads through a channel.  Hard: the tray changes its own menu before it sends the
command, the controller publishes its fields to the tray in calls that wait for the
tray thread, and every trigger may start a fetch.  Correct when menu, controller
and disk agree once things have settled, one fetch runs at a time, the icon tells
the truth, data that was shown stays, and the application cannot get lost.

**App-server session** (`linux/src/app_server.rs`).  State: the exchange's phase,
the answers so far, the deadlines, the reader thread, a channel of eight messages,
the child process with its group and its pipe.  Operations: each turn of the
exchange loop, each line read, the outcomes of the server, the teardown (SIGTERM,
grace, SIGKILL, reap, join).  Hard: everything races with everything: the end of
the output with the exit status, a deadline with a late answer, a flood with the
reader, descendants that keep the pipe open.  Correct when the call returns one
honest outcome in bounded time and leaves neither a process of the group nor a
thread behind.

**Settings files** (`linux/src/config.rs`, `linux/src/autostart.rs`).  State: a file,
its directory, temporary files.  Operations: `atomic_write`, the removal of the
autostart entry; the bounded reads, which are not modelled.  Hard: crashes between any
two calls, and calls that fail after the file has changed.

**Popover window** (`ui.rs`).  State: the content, the keyboard focus, a generation
counter, idle callbacks; on Sway, a place on a screen.  Operations: every render
replaces all widgets, and an idle callback gives the focus back later.  Hard: the
user, GTK and other renders act before the callback runs.  Correct when the focus
ends where the last decision put it, and when the window opens on the output that
was clicked, for any numbers Sway may answer.

**Chart** (`chart.rs`, `chart/preparation.rs`, `range.rs`).  State: the hovered and
the pinned day, whether the keyboard has suppressed hovering, what the screen reader
was told.  Operations: pointer, click, keys, Escape, redraw, and the preparation of
the points: a sparse series that is halved when it is full and thinned to the width.
Correct when mark, selection and announcement are one day, Escape always gets out,
and no point that is drawn is false.

**Decoding and ranges** (`model.rs`, `range.rs`, `ui/presentation.rs`, the Waybar
line in `main.rs`): pure computation on one answer, with saturating sums, partial
histories and summaries that may lag behind.  The usage answer is decoded strictly,
the optional rate limits field by field.  Correct when a figure is exact or withheld,
the figures shown together can all be true, and whatever was dropped is said to be.

**Command line and launch** (`main.rs`): a grammar, and three launch modes that
belong to two application ids, of which a running process may already have one.

**Executable lookup, diagnostics, text safety**: sequential text handling.

### macOS

**App-server client** (`CodexAppServerClient.swift`): the same protocol as on Linux,
but with a polled collector fed by dispatch queues, sticky errors and a teardown of
its own.  **View model and delegate** (`UsageViewModel.swift`, `AppDelegate.swift`):
one refresh task, the five-minute timer, the menu, the executable chooser.
**Launch at login**, **preferences**, **health check**: small controllers over
system services.  **Models, decoding, ranges, windows, chart mathematics**: pure.
**Views**: declarative output.

`PROJECT.json` lists every component with its status and every hazard with the line
where it bites and the properties that would show it going wrong.

## The modules

| module | models | state and actions |
| --- | --- | --- |
| `WindowIntent` | what the user of the tray asks for, with no queue, no bound and no merging | `window`, and `plan`: where all the clicks not carried out yet, in order, will leave it; a click extends the plan, the program carries out a first part of it. `latest` records each click, so that none passes for another or for none |
| `TrayCommands` | `TrayCommand`, the mailbox and its operators: `Coalesced` is `coalesce_window_command`, `Sent` is `send`, `Taken` and `Remaining` are `take_pending` | no variables; shared by the two modules below |
| `TrayMailbox` | the mailbox between tray and UI thread | `mailbox`, `window`, `running` and the observation `latest`; `Send`, `Poll`, `Dismiss`; implements `WindowIntent` |
| `UiController` | every handler of the controller, the tray callbacks, the fetch thread, the clock | `ui` holds the controller's fields; one action per handler, and `Publish` for each `handle.update` |
| `UsageFetch` | what a fetch promises: one outcome made of what the server said | the two answers, the exit status, the outcome, and whether every response heard was awaited; hear an answer, succeed, fail |
| `AppServerSession` | one fetch of the Linux application | client, reader, channel, stop flag, server processes, deadlines, and the observation `orderly`; implements `UsageFetch` |
| `SettingsFile` | `atomic_write`, `set_enabled(false)`, crashes | the file as processes see it and as the disk has it, the temporary file, the call in progress |
| `UsageNumbers` | how a count is read: JSON numbers and strings of digits (`exact_nonnegative_i64`, `value_to_i64`) | no variables; `Written` says what the lexeme means |
| `UsageRange` | merging, windows of days, totals, the reconciliation of all-time figures, popover and Waybar line | the account's true use, and the answer as the server's reports of it; use, a report that catches up, midnight, `SetTimeframe` |
| `ChartSeries` | the points of the all-time chart, from the buckets to the curve, and the top of the axis | the buckets so far and the series; `TakeBucket`, `Finish` |
| `UsageChart` | the chart widget: selection, announcement, redraw | one action per handler |
| `RateLimits` | the optional answer: decoding, choice of the limit, its rows, the words of `--check` | the answer, which grows value by value |
| `Popover` | focus restoration and the place on Sway's outputs | `p` is the window with its idle callbacks and two history fields; one action per handler, `RunIdle` for the callback |
| `CommandLine` | the parser and what a launch starts or reaches | the line being typed and the process of each application id |
| `MC*` | the instances TLC checks | constants in the `.cfg` files |
| `*Proofs` | the proofs | |

How they compose: `TrayMailbox` and `UiController` share `TrayCommands`, so the
mailbox the controller polls is the one whose refinement is proved.
`UiController!FetchEnds` is what `AppServerSession` delivers: it returns
(`Returns`) and returns one outcome (`Promise`).  `UiController!DoSetAutostart`
takes any outcome that `SettingsFile` allows, success, failure with the old entry
and failure with the new one.  `UsageRange` extends `UsageNumbers`, so that its
buckets hold what the decoder makes of the server's lexemes beside what the server
meant.  `Popover` looks at the window of `UiController` more closely and leaves its
threads aside; `UsageChart` shows what `ChartSeries` prepares.

### From code to model

*Handlers.*  Handlers of the GTK main loop do not overlap.  Each ends in calls of
`handle.update`, which wait for the tray service, so tray callbacks run between a
handler's changes and the tray's copy of them.  A handler is therefore one step
that leaves its updates in `ui.publish`, each update is a step (`Publish`), and no
handler starts before they are done.  The poll is `Poll`, one `ReceiveEvent` per
worker event, `TakePending`, and one `HandleCommand` per command.

*Session.*  One action per turn of a loop or call of the client: `Start`, `Attend`
(the top of the exchange loop, with the deadlines it arms and checks), `Receive`,
`Expire` and `Disconnect` (the three results of `recv_timeout`), `AwaitExit`, and the
five steps of the teardown.  The reader thread is `ReadLine`, `StopReading`,
`CloseChannel`.  A line is a kind, by what the client makes of it.  `orderly` falls
when a response is heard that nobody awaits then (`Awaited`: an unknown id, one that
was answered before, or one whose request comes later); no guard reads it.  The server
is any program: it writes any kind of line at any time, exits with any status,
crashes, forks, and lets descendants escape.  A deadline is a flag that may rise at
any moment while it is armed.

*Settings file.*  One action per system call of `atomic_write`, each with its failure.
The file system keeps names and contents in memory until they are synced and may
write them back earlier (`Writeback`).  `PowerLoss` leaves the disk's names, with
whole contents where they were synced and torn ones where they were not.

*Figures.*  A date is the number of a day.  A count is a lexeme: sign, digits, length
of the fraction, exponent, quoted or not; its digits are read as the code reads them,
and `Written` is its value by the rules of arithmetic.  The account's true use is kept
beside the answer, which lacks some of it, so that a figure can be held against the
truth.  The widths of integers are constants.

*Rate limits.*  An answer is a tree of paths; a value is good, null or "bad", and a
text or a time also has the cases that display nothing.

*Window and chart.*  A widget is its name.  An idle callback keeps the generation of
its render; the model keeps whether that is still the latest.  Pixels of the chart are
half-days; pixels of Sway are integers of the code's width.

*Command line.*  An argument is a word; sets say what the parser can tell of it.

## Runs

| run | instance | question |
| --- | --- | --- |
| `TrayMailbox` | three anchors, two timeframes, polls of 0, 1, 2, 3 or 32 | does the bounded mailbox do what the clicks ask? |
| `UiSettings` | two timeframes, settings changed in window and tray, failures included | do menu, controller and disk agree again? |
| `UiRefresh` | one timeframe, all three launch modes, with and without a tray, snapshots of one or two history pages | fetching, presenting, paging, quitting |
| `SessionLines` | all 15 kinds of lines, no descendants, capacities of 1 | bounds, naming of errors, honesty of success, the abstract fetch |
| `SessionProcesses` | three kinds of lines, descendants in the group and escaped | does everything end? |
| `SettingsFile` | two contents, two attempts for a name, three names | what a crash leaves |
| `UsageRange` | three days, three uses, a width of 12, windows of one, two and three days, lexemes of up to three digits | are the figures true, and do popover and Waybar line agree? |
| `ChartSeries` | series of eight points made of up to fifteen, curves of up to six, six widths | does the chart show the days as they were? |
| `UsageChart` | no data, one day, days in a row, days far apart | do pointer, keys, mark and screen reader mean the same day? |
| `RateLimits` | two entries and the general limit, answers of up to five values | is what is dropped reported and what is there shown? |
| `Popover` | two tabs, two pages, three idle callbacks, four anchors, four screens | where is the focus, and where does the window open? |
| `CommandLine` | sixteen words, lines of up to six | does a line do what the usage text says? |

Bounds and why they are enough.

- *Anchors.*  Merging compares an anchor with the last one at most; three let a
  toggle, a show and a later toggle all differ.  The queue never holds more than the
  reduced forms `TrayCommands!Reduction` lists, the longest of which are as long as
  its bound of two, which is the code's.
- *Polls.*  32 is the code's bound; 0 to 3 make polls that leave something behind,
  which the code's own numbers would only reach with a longer history.
- *Capacities of 1* (channel 8, blank lines 64 and the kernel's pipe buffer in the
  code): the rules only test for "full", and with 1 that is met at every point.
- *Two pages, two contents, two timeframes*: the least with a difference.
- *One timeframe in `UiRefresh`*: changes of timeframe are the subject of
  `UiSettings`, where paging is not.
- *Names.*  `MaxNames` bounds the names a process tries in its life; three are two
  crashes' leftovers and one more.
- *A width of 12, three uses.*  Counts of 0, 6 and 12 and one that is too large: two
  halves just fit, a third does not, within a day and across days.  The third day is
  the one the server is ahead by, or the one a window leaves behind.
- *Eight points.*  Buckets up to three days apart make two or three points each, so
  that a series is halved up to twice; the code's 20,000 only says
  when that happens.
- *Five values* of a rate-limit answer: two limits that compete, each with a field,
  and the one value that makes the difference.
- *Three callbacks*: two that are out of date and the latest.
- *Six words*: a render with its path, two options with values; a line that is
  refused already stops at three (`MaxRefused`).

`UiController` and `AppServerSession` may end and stutter then (`Ended`).  Deadlock is
checked in every run but `RateLimits` and `ChartSeries`, whose only actions build an
answer or a series of bounded size, after which there is nothing left to do.

### What the properties say

*Mailbox.*  `EveryClickCounts`: the mailbox implements `WindowIntent`.  `ReducedQueue`:
what waits is in reduced form at all times.  `QuitStops`: a Quit ends the loop,
whatever is sent around it and however little a poll takes.

*Controller.*  `TimeframeAgrees` and `AutostartAgrees`: tray and controller (or the
file) agree whenever neither has anything under way.  `OneFetch`: a fetch or its
result is under way exactly while the refreshing flag is up.  `HistoryPageExists`.
`IconTellsTruth`.  `NeverStranded`: a process not started in the background is
reachable by tray or window.  `DataSurvives`: no failure takes data away.
`RefreshEnds`, `StaleIsRefreshed`, `QuitEnds`: a refresh ends, data that has become
stale, or that the clock was set back behind, is fetched again, and Quit stops the
application, under the fairness below.

*Session.*  `Unhurried`: success waits out a grace or a clean end of output.
`FloodNamed`, about the step that gives the outcome: too many messages are only
blamed on a server that was cut off; what such a server may be told instead is a
write that failed, a timeout, the failure in a message from before, or, out of time
with the usage answer in hand, what its child makes of it: a snapshot, or "stopped".  `Promise`: the session implements `UsageFetch`; in
particular a response that nobody awaited is heard by no step but a failure.
`Returns`, `GroupEnds`, `ReaderEnds`: call, processes and reader end.

*Settings file.*  `OldOrNew`, `SavedSurvives`, `NamesSuffice`.

*Figures.*  `CountsAreExact`: the decoder neither changes a count nor refuses one that
fits.  `TotalIsExact`: a rolling total is the sum without a bound, or it is missing and
that is said.  `AllTimeIsHonest`: the all-time total lies between all that was reported
and the truth, and a sum known to lack days is marked as partial.  `FiguresCohere`:
total, peak, average, active days, chart and history can all be true together.
`BarAgrees`: popover and Waybar line decide alike.

*Chart.*  `SeriesIsSample` and `CurveIsSample`: no point that is kept, halved or
thinned is false, and first, last and highest day stay.  `IdleDaysAtZero`: a line
between points is right on idle days as long as nothing was halved.
`AnnouncedIsDrawn`, `SecondEscapePasses`, `PointedIsNearest`.

*Rate limits.*  `NothingDropped`: what is left out is what is reported, path by path.
`DataIsShown`: three functions that each decide whether there is anything to show
agree, and `--check` says the same.

*Window and command line.*  `FocusIsKept`, `OpensOnOutput`, `DoesWhatItSays`.

Each property has a mutant in `PROJECT.json`: a plausible slip in one mapped
definition with which TLC finds the property violated.

### Fairness

- *Main loop* (`UiController`): GLib dispatches every source that stays ready, so the
  poll and the 30-second timer fire although other handlers run in between; both are
  disabled while a handler publishes, hence strong fairness.  What a handler has
  begun it finishes: weak fairness on `Publish`, `ReceiveEvent`, `TakePending` and
  `HandleCommand`.  `FetchEnds` is weakly fair because the session returns.
- *Mailbox*: the poll is a GLib timer, hence fair.
- *Session*: both threads run, time passes, SIGKILL works.  Nothing is assumed of
  the server: it may be silent or talk for ever.
- *Settings file* and the modules of figures, chart, window and command line: none;
  they have safety properties only.

## Proofs

Proved for every value of the constants that meets the modules' named assumptions.

**Mailbox** (`TrayCommandsProofs`, `TrayMailboxProofs`).  Lemmas about the operators:
a poll that takes enough empties the mailbox, merging keeps the queue reduced, merging
a command has the effect of carrying it out last, and a poll takes a Quit alone or
else every setting that was sent, with its last value (`SettingsTaken`).  The
invariant `Inv` adds to the types that the queue is in one of its reduced forms;
without it the bound of two is not inductive, and merging two commands would not be
known to have the effect of both.  From it: `TypeCorrect`, `StaysReduced`, and
`Refinement`, in which every step maps to one of `WindowIntent` or to a stutter.

**Session** (`AppServerSessionProofs`).  The invariant `Inv` adds two facts to the
types.  `OutcomeOpen`: as long as the exchange lasts there is no outcome, and only a
client in the exchange waits for messages.  `StreamOver`: a client that waits for the
child's exit has the usage answer and has read all the reader let through, and the
reader is gone and can flood no more.  `NeverRushed` needs the second, and so does
`FloodIsNamed` for the outcome after that wait, because the flood flag, the closing of
the channel and the reading of both belong to two threads; the other steps that give
an outcome are gone through one by one.  `SessionKeepsPromise` maps each step to one
of `UsageFetch` or to a stutter; it needs that an answer given twice fails before it
is counted, that a timeout is only ever an outcome while the usage answer is missing,
and that each message is awaited, is a notification, or ends the exchange
(`ResponseIs`, `HandleSeen`).

**Settings file** (`StartupProofs`).  The invariant `IInv`: whatever has a name
was synced before it got it; the draft is as far as the call's phase says; a success
leaves disk and memory with the same name; the names tried in vain are all taken.
`SavedIsDurable`, `NothingElseIsFound` and `NamesAreEnough` follow.

**Command line** (`StartupProofs`).  `Meaning` says of a line as a whole what
`parse_cli` finds out word by word; `ParseIsMeaning` shows, for a line of any length
and any words, that the two agree.  The induction is over the words read: `Good` says
of the first k words that nothing is wrong with them yet, with the option that may
stand open at their end, and `Tells` what the parser's reading of them must then be.
`ValueTells` and `WordTells` are its two steps, a word that is the value of the option
before it and a word that is not: either both go on to k + 1 or the reading has failed,
and `GoodGrows` says when the words stay good.  At the end `Good` and the last
conditions (no option left open, none without a picture) are what the grammar accepts
(`AcceptedIs`), where "no more than one" is a matter of cardinality (`AtMostOne`).
`LaunchInv` says that the process of an application id has a tray, or tried to have
one, exactly if the id is that of the modes with a tray; `HandledIs` what a launch
makes of such a process, or of none.  `LaunchesDoWhatTheySay` puts the two together.
Assumed is that a dimension is text, and, of the model's encoding, that the value for
"nothing yet" is no mode, option or process.

**Controller** (`UiControllerProofs`).  The invariant `IInv`: the types, the mailbox's
reduced form (from `TrayCommandsProofs`), `OneFetch`, `HistoryPageExists` and
`NeverStranded`.  The controller's methods call one another, so a lemma says of each
method what it keeps and `MethodsCompose` puts them together; a handler then needs
only its own changes.  `OneFetchAtATime`, `PageExists`, `AlwaysReachable`, and
`DataIsKept`, which is about steps.

That tray and controller agree is a second invariant, `AInv`, on top of the first.
`TimeframeAgrees` is not inductive: it says nothing of the time in which commands and
updates are on their way.  `Agreement` does: the tray's value is the controller's, or
it is in the mailbox, or in the batch being handled, or an update that will overwrite
it waits to be published, or a Quit does; an update never tells anything but the
controller's present field or the file's present content (`Truthful`); and the last
face among the updates, or else the tray's, is that of the controller
(`FaceSettles`).  Each method is shown to announce what it changes (`Announces`), the
batch and the mailbox to lose no setting (`SettingsTaken`).  `IconIsTrue`,
`TimeframesAgree` and `AutostartsAgree` follow.  The one assumption, that a face is
not the value for "no update", is one of the model's encoding.

**Chart** (`UsageChart`, in `ChartProofs`).  `SecondEscapePasses` is not inductive: a
pointer that moves after Escape may not hover again, which holds because hovering is
suppressed until it leaves (`ClearedStaysClear`), while nothing is hovered under
suppression (`QuietWhenSuppressed`) and only with the pointer in the plot
(`HoverIsInPlot`).  Together they are `IInv`.  `PointedAreNearest` needs the binary
search (`nearest_index_in_valid_positions`): `SearchBrackets` shows, for every
ascending sequence of positions, that the search ends at two neighbours on either side
of the position, and `NearestIsNearest` that the nearer of them is nearest of all,
ties and ends included.  It is used for the pointer, where what is hovered was found
for the pointer's place (`HoverIsFound`), and for the ticks of the axis.

**The chart's series** (`ChartSeries`, in `ChartProofs`).  The three properties speak
of sequences that are thinned as they grow, and follow from what thinning does to any
sequence.  `AtIs` says what taking some places of a sequence yields, by counting how
many of them lie below a place.  The bins cover all places between the two ends
(`CutsCover`), so a thinned sequence has a point as high as any it had (`Reaches`), its
points are points of the old one in their order (`Sampled`), its ends are the old ends,
and it has at most twice as many points as bins, and the ends (`KeptAreFew`,
`ThinnedIs`, `BoundedIs`); both relations are transitive, so it does not matter how
often it happens.  The invariant `SInv`: the days of the source ascend; each point of
the series is a bucket or a zero on a day without use (`Genuine`); the series reaches
as high as the source and ends with it; and as long as no more points were offered than
fit, all are there and no line between two neighbours bridges a day it should not
(`Holds`).  The last needs that the points offered for a gap are just its ends
(`GapEndsAre`, `TrailingEndsAre`).  `SeriesIsTrue` and `IdleIsZero` follow.
`CurveIsTrue` adds what is done for one picture: `PlottedIs` for the thinning to the
width, and `AxisIs` for the top of the axis, which the code finds with a loop over
powers of ten.  Assumed is, as the code has it, that `MaxPoints` is a multiple of four
and at least eight, and `MaxDrawPoints` at least four.

**Figures** (`UsageNumbers` and `UsageRange`, in `UsageRangeProofs`).  In four layers.

- *Sums.*  The code adds up with loops, the model with folds and with
  `SumFunctionOnSet`.  `SumStep`, `SumAgrees`, `SumUnion` and `SumAtMost` are the
  laws of such sums, `GreatestIs` says what a maximum is.  `DayIsCapped` and
  `TotalIsCapped`: a saturating sum with its mark is the sum without a bound, capped,
  and marked exactly when it exceeds the bound, in whatever order the buckets come.
  `RangeIsExact` puts this together for `UsageRange::at_date`: without a mark, the
  total is what the buckets of the timeframe's days add up to.
- *Decoder.*  `ExactIs` and `ParsedTextIs`: for a text with any number of digits, a
  fraction and an exponent, the checked multiplications, the zeros appended and the
  trailing zeros cut off yield what the text means by arithmetic, or nothing when that
  is negative, a fraction, or too large.  `DigitsSplit` is the step from digits to
  numbers: the last digits are all zero exactly when a power of ten divides the number.
- *Account.*  `RInv`: every count is as it was written (from the decoder), and the
  summary lags behind, it never says more than was used (`SummaryLags`).  The last is
  why an all-time total taken from a larger lifetime figure is no more than the truth.
- *Screen.*  `CountsExact`, `TotalsAreExact`, `AllTimeHonest` and `FiguresFit` follow
  from `RInv` and the first layer.  `BarAlwaysAgrees` needs no invariant: the two
  decisions are compared case by case.  `ReconciledIsCredible` is about the operator
  alone.

Assumed is, of the widths, that a number has at most `MaxDigits` digits (10^19 exceeds
the largest `i64`), and of a text that its length and `MaxDigits` together are no more
than the largest number.  The second lets the decoder's shift be computed without an
overflow; a message has at most 2 MiB (`linux/src/app_server.rs`), the largest number
is 2^63 - 1.

An induction over data is stated about a set, as the provers cannot instantiate a
property: `NumberInduction` says that a set which holds 0 and the successors of its
members holds all natural numbers, `SubsetInduction` likewise for the subsets of a
finite set, and `SameRecursion` that two functions following one recursion are equal.
The first two are proved from a least counterexample.  A recursive function or a fold is
then given by a function built from finite approximations, which satisfies the
recursion and therefore is the one that is meant.

**Window** (`PopoverProofs`).  `FocusNeverStrays` rests on `FocusInv`: a decision stands
(`DecisionStands`); a focus without one was given back from what the render took
(`GivenBack`); a callback that is still current restores just that (`OneRestore`); and
what was not given back yet has such a callback waiting (`StillToGive`).  Each method,
`Rendered` first, is shown to keep these four.  `OpensWhereClicked` needs one lemma of
arithmetic, `InOutputIsOn`, about saturating and clamping, for every width of integers
and every layout.

**Rate limits** (`RateLimits`, in `PopoverProofs`).  `AnswerInv`: each value of an
answer is good or malformed for its place, and is in an object that is in the answer.
`PathKinds` derives from it the five kinds of places a value can have.  What is
reported is then compared with what is malformed from the leaves up: a field
(`FieldIs`), an object and its own fields (`ObjectsAre`, `OwnIs`), the fields of an
inner object (`InnerIs`), a limit (`SnapshotIs`, `LimitIssuesAre`), the entries of the
map (`EntriesAre`), the whole answer (`IssuesAre`); at each level the issues are the
paths of that level's malformed values, no more and no fewer, which is
`NothingIsDropped`.  `DataAreShown` is about three functions that decide apart from one
another whether there is anything to show: `CreditsAreShown`, `IndividualIsShown` and
`LimitsAreShown` prove for each part that it is called meaningful exactly if it makes a
row, and `PreferredIs` that a limit is chosen whenever one of Codex's limits has
something to show, be it found by its key, by its name or as the general one, and that
the chosen one has rows.  Assumed is that the value for "absent" is none of the
answer's, which is the model's encoding.

Only model-checked: the liveness properties `QuitStops`, `RefreshEnds`,
`StaleIsRefreshed`, `QuitEnds`, `Returns`, `GroupEnds` and `ReaderEnds` (liveness under
fairness is beyond the prover).  Every other property of the runs is stated by a
theorem.

## Abstractions and limits

- A snapshot is its age (fetched ahead of the clock, fresh, old) and how many history
  pages it has per timeframe.
  That a history's length changes at midnight, and that the icon also warns when a
  range has no total, are not told apart.
- The stderr reader, which only collects text for messages, and an I/O error of
  `waitpid` are left out of the session.  Signals reach the processes they name: the
  reuse of process numbers is not modelled.
- Out of time with the usage answer in hand, a fetch whose child has failed ends with
  "stopped before returning usage" (`app_server.rs:308`), although the usage had been
  returned and even if the server was cut off for writing too much.  `FloodNamed` says
  so by its second part.
- When writing the rate-limit request fails, its answer is still taken if it comes: the
  request may have got through.
- `SavedSurvives` is about directories that are durable.  A directory that the first
  save creates is not synced into its parent, so that save can still be lost; and
  switching autostart off when no entry is found syncs nothing.
- A background launch whose tray does not start has no window either; the code
  accepts that, and `NeverStranded` says so.
- `FaceUpdate` and the window each read the clock: around midnight the tray's title
  and an open window may describe different windows of days until the next timer
  (`ui.rs:850`); no property denies it.
- Two renders before an idle callback lose the focus the first one took; `FocusIsKept`
  is about the last render.  The threads that ask Sway for two presentations may
  finish in either order; a presentation is one step here.
- The strict decoder refuses an answer with a bad bucket, so `rejected_bucket_count`
  is always zero behind it, and `UsageRange` has no rejected buckets.
- A series that was full and halved may bridge idle days with a line; the property
  `IdleDaysAtZero` says so by its condition.
- Of a text, `RateLimits` knows whether it displays anything, not where it is cut.
- Dismissing a window without a tray quits: that is the code's rule, also in
  `CommandLine`.

### Not modelled

Executable lookup, redaction of diagnostics and text safety; the bounded reads of the
settings files and what is made of their content; the quoting and parsing of the
desktop entry; fixture data; widget layout, scrolling, palette, wording, relative
dates; the smoothed curve, the trend line and the drawing of the chart; the calendar
check of dates and the decimal fractions of rate limits; style, packaging, build
scripts and test programs.  These are sequential functions on text and numbers or
output, where tests do well.  Of macOS nothing is modelled yet: its figures follow the
same rules as `range.rs`, its session is the first point of the plan.

## Plan

In this order:

1. *macOS fetch*: collector, drainers and teardown of `CodexAppServerClient.swift` as
   a second implementation of `UsageFetch`, with the differences (sticky errors,
   polling, two teardowns, a deadline that is checked last).
2. *macOS application*: `UsageViewModel` with `AppDelegate` (refresh task, timer,
   menu, executable chooser), `LaunchAtLoginController`, the health check's wait.
3. *Autostart entry*: parsing and quoting of the `Exec` line.
4. *Proofs*: the safety of the macOS session against `UsageFetch`.
