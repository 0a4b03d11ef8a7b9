----------------------------- MODULE UsageRange -----------------------------
(***************************************************************************)
(* From daily buckets and summary values to the figures of the popover and *)
(* of the Waybar line (linux/src/range.rs, ui/presentation.rs, ui.rs,      *)
(* main.rs), while the account is used, its reports lag behind, days pass  *)
(* and the timeframe changes.                                              *)
(*                                                                         *)
(* A date is the number of a day, a count one that UsageNumbers decodes.   *)
(* Decoding refuses buckets with a bad date or a bad count together with   *)
(* the whole answer, so that the buckets here are the ones it accepts and  *)
(* none is rejected later.                                                 *)
(***************************************************************************)
EXTENDS UsageNumbers

CONSTANTS WindowDays,   \* days of each rolling timeframe
          Days,         \* bound: the dates
          MaxUses       \* bound: how often the account is used

ASSUME UsageRangeAssumption ==
    /\ WindowDays \in [DOMAIN WindowDays -> Nat \ {0}] /\ "all" \notin DOMAIN WindowDays
    /\ Days \subseteq Nat /\ MaxUses \in Nat

VARIABLES today,
          timeframe,    \* the preference that the popover and the Waybar line share
          withheld,     \* the answer has no daily history at all
          buckets,      \* the answer's daily history
          unseen,       \* uses that the daily history lacks
          lifetime,     \* the answer's summary: total and peak as of some earlier moment
          reportedPeak

vars == <<today, timeframe, withheld, buckets, unseen, lifetime, reportedPeak>>

Timeframes == DOMAIN WindowDays \cup {"all"}

Greatest(values) == IF values \subseteq {None} THEN None ELSE Max(values \ {None})

-----------------------------------------------------------------------------
(* Ranges. *)

\* Mutant of Added: the addition wraps around.
AddedWrapping(sum, tokens) == [sum EXCEPT !.tokens = (@ + tokens) % (MaxTokens + 1)]

\* checked_add, or the largest number and a mark.
Added(sum, tokens) ==
    IF sum.tokens + tokens > MaxTokens
    THEN [tokens |-> MaxTokens, overflow |-> TRUE]
    ELSE [sum EXCEPT !.tokens = @ + tokens]

Zero == [tokens |-> 0, overflow |-> FALSE]

\* merge_buckets_reporting_overflow: one sum for each date.
Merged(source) ==
    [day \in {source[i].day : i \in DOMAIN source} |->
        FoldLeft(LAMBDA sum, bucket : IF bucket.day = day THEN Added(sum, bucket.tokens) ELSE sum,
                 Zero, source)]

\* Mutant of Window: the day before the window is the first one.
WindowOneMore(frame, day) == day - WindowDays[frame] .. day

\* The days of a rolling timeframe.
Window(frame, day) == day - WindowDays[frame] + 1 .. day

\* From the first bucket to the last one or today.
CalendarDays(daily, day) ==
    IF DOMAIN daily = {} THEN 0 ELSE Max(DOMAIN daily \cup {day}) - Min(DOMAIN daily) + 1

\* UsageRange::at_date
AtDate(frame, source, day) ==
    LET merged == Merged(source)
        daily == IF frame = "all" THEN merged
                 ELSE [d \in Window(frame, day) |-> IF d \in DOMAIN merged THEN merged[d] ELSE Zero]
        total == FoldFunction(LAMBDA d, sum : Added(sum, d.tokens), Zero, daily)
    IN  [tokens |-> [d \in DOMAIN daily |-> daily[d].tokens],
         days |-> IF frame = "all" THEN CalendarDays(daily, day) ELSE WindowDays[frame],
         total |-> total.tokens,
         totalOverflow |-> total.overflow,
         mergeOverflow |-> \E d \in DOMAIN daily : daily[d].overflow]

Peak(range) == Max({range.tokens[d] : d \in DOMAIN range.tokens} \cup {0})
Average(range) == IF range.days = 0 THEN 0 ELSE range.total \div range.days
History(range) == {d \in DOMAIN range.tokens : range.tokens[d] > 0}
Overflowed(range) == range.mergeOverflow \/ range.totalOverflow

-----------------------------------------------------------------------------
(* All-time totals: the daily history and the summary may contradict each  *)
(* other, since they are made at different moments.                        *)

Exceeds(value, daily) == value # None /\ value > (IF daily = None THEN 0 ELSE daily)

\* What the summary proves about the visible daily history.
ProvenPartial(available, dailyTotal, dailyPeak, total, peak) ==
    /\ available
    /\ IF dailyTotal = None THEN dailyPeak # None /\ Exceeds(peak, dailyPeak)
       ELSE Exceeds(total, dailyTotal) \/ Exceeds(peak, dailyPeak)

\* Mutant of Candidates: a lifetime total equal to an incomplete sum is taken.
CandidatesNotStrict(available, dailyTotal, partial, total) ==
    IF available /\ dailyTotal = None THEN {}
    ELSE IF partial THEN {t \in {total} : t # None /\ t >= dailyTotal}
    ELSE {total, dailyTotal}

\* The values that can be the all-time total.
Candidates(available, dailyTotal, partial, total) ==
    IF available /\ dailyTotal = None THEN {}
    ELSE IF partial THEN {t \in {total} : Exceeds(t, dailyTotal)}
    ELSE {total, dailyTotal}

\* Mutant of Credible: a total below the peak is shown.
CredibleAnyway(total, peak) == total # None

Credible(total, peak) == total # None /\ (peak # None => total >= peak)

\* reconcile_all_time_summary
Reconciled(available, dailyTotal, dailyPeak, total, peak) ==
    LET partial == ProvenPartial(available, dailyTotal, dailyPeak, total, peak)
        candidate == Greatest(Candidates(available, dailyTotal, partial, total))
        highest == Greatest({peak, dailyPeak})
        chosen == IF Credible(candidate, highest) THEN candidate ELSE None
    IN  [total |-> chosen, peak |-> highest, partial |-> partial,
         unreconciled |-> chosen = None /\ (available \/ total # None \/ peak # None)]

-----------------------------------------------------------------------------
(* The popover and the Waybar line. *)

If(condition, value) == IF condition THEN value ELSE None

\* UsagePresentation::new
Presentation(frame, range) ==
    LET available == ~withheld
        dailyTotal == If(available /\ ~Overflowed(range), range.total)
        dailyPeak == If(available /\ ~range.mergeOverflow, Peak(range))
        allTime == Reconciled(available, dailyTotal, dailyPeak, lifetime, reportedPeak)
        partial == available /\ (Overflowed(range) \/ (frame = "all" /\ allTime.partial))
        complete == available /\ ~partial
    IN  [total |-> IF frame = "all" THEN allTime.total ELSE dailyTotal,
         peak |-> IF frame = "all" THEN If(~range.mergeOverflow, allTime.peak) ELSE dailyPeak,
         average |-> If(complete, Average(range)),
         activeDays |-> If(complete, Cardinality(History(range))),
         available |-> available,
         partial |-> partial,
         unreconciled |-> frame = "all" /\ ~Overflowed(range) /\ allTime.unreconciled]

Source == IF withheld THEN <<>> ELSE buckets
ShownRange == AtDate(timeframe, Source, today)
Shown == Presentation(timeframe, ShownRange)

\* render_stats: the line on the daily history, and the warning under the figures.
HistoryStatus == IF ~Shown.available THEN "Unavailable"
                 ELSE IF Shown.partial THEN "Partial" ELSE "Available"

Warning == IF Overflowed(ShownRange) THEN "overflow"
           ELSE IF Shown.unreconciled THEN "unreconciled"
           ELSE IF Shown.partial THEN "partial" ELSE None

\* render_chart: the peak beside the title; the chart is empty without one.
ChartPeak == LET visible == If(Shown.available /\ ~ShownRange.mergeOverflow, Peak(ShownRange))
             IN  If(visible \notin {None, 0}, visible)

\* render_history, as render_snapshot calls it: the days it lists.
ListedDays == IF Shown.available /\ ~ShownRange.mergeOverflow THEN History(ShownRange) ELSE {}

\* Mutant of Waybar: a day that overflowed goes unnoticed.
WaybarTrusting(frame, range) ==
    LET allTime == Reconciled(TRUE, range.total, Peak(range), lifetime, reportedPeak)
        nothing == [total |-> None, quality |-> None]
    IN  IF withheld \/ range.totalOverflow THEN nothing
        ELSE IF frame # "all" THEN [total |-> range.total, quality |-> "Available"]
        ELSE [total |-> allTime.total,
              quality |-> If(allTime.total # None,
                             IF allTime.partial THEN "Partial" ELSE "Available")]

\* selected_waybar_total, and the class and note that print_waybar_status makes of it.
Waybar(frame, range) ==
    LET daily == Reconciled(TRUE, range.total, Peak(range), lifetime, reportedPeak)
        summary == Reconciled(FALSE, None, None, lifetime, reportedPeak)
        Line(total, quality) == [total |-> total, quality |-> If(total # None, quality)]
    IN  IF withheld THEN Line(If(frame = "all", summary.total), "Unavailable")
        ELSE IF Overflowed(range) THEN Line(None, None)
        ELSE IF frame # "all" THEN Line(range.total, "Available")
        ELSE Line(daily.total, IF daily.partial THEN "Partial" ELSE "Available")

-----------------------------------------------------------------------------
(* The account and what the server says of it. *)

Used == buckets \o unseen

\* What the buckets of a history say of some days, as the server has written it.
Total(source, days) == SumFunctionOnSet([i \in DOMAIN source |-> source[i].written],
                                        {i \in DOMAIN source : source[i].day \in days})

Spent(day) == Total(buckets, {day}) + Total(unseen, {day})
TrueTotal == Total(buckets, Days) + Total(unseen, Days)
TruePeak == Max({Spent(day) : day \in Days})

Init == /\ today \in Days /\ today + 1 \in Days
        /\ timeframe \in Timeframes /\ withheld \in BOOLEAN
        /\ buckets = <<>> /\ unseen = <<>>
        /\ lifetime \in {None, 0} /\ reportedPeak \in {None, 0}

\* The account is used: today, on an earlier day that is reported late, or,
\* seen from a server to the east, tomorrow.  The daily history has it or not.
Use == /\ Len(Used) < MaxUses
       /\ \E day \in Days, count \in Counts :
             /\ day <= today + 1
             /\ LET bucket == [day |-> day, tokens |-> count.tokens, written |-> count.written]
                IN  \/ buckets' = Append(buckets, bucket) /\ UNCHANGED unseen
                    \/ unseen' = Append(unseen, bucket) /\ UNCHANGED buckets
       /\ UNCHANGED <<today, timeframe, withheld, lifetime, reportedPeak>>

\* One of the summary's values catches up; a count that is too large is refused.
Summarize == /\ \/ /\ TrueTotal <= MaxTokens /\ lifetime' = TrueTotal
                   /\ UNCHANGED reportedPeak
                \/ /\ TruePeak <= MaxTokens /\ reportedPeak' = TruePeak
                   /\ UNCHANGED lifetime
             /\ UNCHANGED <<today, timeframe, withheld, buckets, unseen>>

DayPasses == /\ today + 1 \in Days /\ today + 2 \in Days
             /\ today' = today + 1
             /\ UNCHANGED <<timeframe, withheld, buckets, unseen, lifetime, reportedPeak>>

\* set_timeframe
SetTimeframe == /\ timeframe' \in Timeframes
                /\ UNCHANGED <<today, withheld, buckets, unseen, lifetime, reportedPeak>>

Next == Use \/ Summarize \/ DayPasses \/ SetTimeframe

Spec == Init /\ [][Next]_vars

-----------------------------------------------------------------------------
(* Properties. *)

VisibleTotal(days) == Total(Source, days)
Visible(day) == VisibleTotal({day})

\* Every count of the history is what the server has written, however it has
\* written it; only fractions, negative numbers, numbers that are too large and
\* strings that are more than digits are refused (value_to_i64,
\* exact_nonnegative_i64, parse_json_exponent).
CountsAreExact == /\ \A i \in DOMAIN Used : Used[i].tokens = Used[i].written
                  /\ WronglyRefused = {}

\* A rolling timeframe's total is what its days add up to, without a bound,
\* and it is missing only when that does not fit or there is no history;
\* then the status or a warning says so (merge_buckets_reporting_overflow,
\* at_date, UsagePresentation::new, render_stats).
TotalIsExact ==
    timeframe # "all" =>
        LET exact == VisibleTotal(today - WindowDays[timeframe] + 1 .. today)
        IN  /\ Shown.total = If(~withheld /\ exact <= MaxTokens, exact)
            /\ Shown.total = None => HistoryStatus # "Available"
            /\ Shown.total = None /\ ~withheld => Warning = "overflow"

\* The all-time total never exceeds what was used, nor falls below anything
\* that was reported; it is right whenever the daily history is whole or the
\* lifetime total is current; and the visible sum is not passed off as the
\* total when the reported peak shows that days are missing
\* (reconcile_all_time_summary).
AllTimeIsHonest ==
    timeframe = "all" /\ Shown.total # None =>
        /\ Shown.total <= TrueTotal
        /\ ~withheld => Shown.total >= VisibleTotal(Days)
        /\ lifetime # None => Shown.total >= lifetime
        /\ (lifetime = TrueTotal \/ (unseen = <<>> /\ ~withheld)) => Shown.total = TrueTotal
        /\ ~withheld /\ (\A day \in Days : Exceeds(reportedPeak, Visible(day)))
              => Shown.total > VisibleTotal(Days) /\ HistoryStatus = "Partial"

\* The figures shown together can all be true: the peak is part of the total,
\* the active days reach it at the peak's height, the average makes it over
\* the days of the timeframe, and the chart's peak and the history's days are
\* the peak and the active days (render_stats, render_chart, render_history).
FiguresCohere ==
    /\ Shown.total # None /\ Shown.peak # None => Shown.peak <= Shown.total
    /\ Shown.average # None =>
          /\ Shown.total # None /\ Shown.peak # None
          /\ Shown.total <= Shown.peak * Shown.activeDays
          /\ Shown.average * ShownRange.days <= Shown.total
          /\ Shown.total < (Shown.average + 1) * Max({ShownRange.days, 1})
          /\ Shown.activeDays <= ShownRange.days
          /\ Cardinality(ListedDays) = Shown.activeDays
          /\ ChartPeak = If(Shown.peak # 0, Shown.peak)

\* The Waybar line shows the popover's total with the popover's status, and
\* nothing when the popover shows none (selected_waybar_total against
\* UsagePresentation::new, two separate decisions over the same answer).
BarAgrees ==
    LET bar == Waybar(timeframe, ShownRange)
    IN  /\ bar.total = Shown.total
        /\ bar.total # None => bar.quality = HistoryStatus
=============================================================================
