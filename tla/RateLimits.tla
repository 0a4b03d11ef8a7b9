----------------------------- MODULE RateLimits -----------------------------
(***************************************************************************)
(* The optional rate-limit answer: field by field decoding that leaves out *)
(* what is malformed and remembers where it was (linux/src/model.rs), the  *)
(* choice of the limit to show, its rows in the popover (linux/src/ui.rs,  *)
(* ui/presentation.rs) and the words of --check (linux/src/main.rs).       *)
(*                                                                         *)
(* An answer is a tree: a path of keys leads to what is there.  A text is  *)
(* blank when it has nothing to display, a time is far when no date can be *)
(* made of it, and "bad" is any value of a wrong type or out of range.     *)
(***************************************************************************)
EXTENDS Naturals, SequencesExt

CONSTANTS Keys,        \* the keys of rateLimitsByLimitId in their order, "codex" included
          Fields,      \* bound: the fields of each snapshot, by its path
          MaxFields,   \* bound: values in one answer
          Absent       \* a value or an object that is not there

CreditFields == {"hasCredits", "unlimited", "balance", "remaining", "total", "used"}
IndividualFields == {"limit", "used", "remainingPercent", "usedPercent", "resetsAt"}
LeafFields == {"limitId", "limitName", "primary", "secondary", "planType", "rateLimitReachedType"}
SnapshotFields == LeafFields \cup {"credits", "individualLimit"}

\* Where the map of the limits is, and where a limit can be.
ById == <<"rateLimitsByLimitId">>
Snapshots == {<<"rateLimits">>} \cup {Append(ById, key) : key \in ToSet(Keys)}

\* A path is made of names.
Names == SnapshotFields \cup CreditFields \cup IndividualFields \cup ToSet(Keys)
         \cup {"rateLimits", "rateLimitsByLimitId", "rateLimitResetCredits"}

\* What is decoded: some values, and where the malformed ones were.
Contents == {"object", "codex", "other", "true", "false", "text", "blank", "low", "high",
             "soon", "far", "ok"}
Values(fields) == [fields -> Contents \cup {Absent}]
Leaves(fields) == [value : Values(fields), issues : SUBSET Seq(Names)]
Decoded == [value : Values(LeafFields), credits : Leaves(CreditFields) \cup {Absent},
            individual : Leaves(IndividualFields) \cup {Absent}, issues : SUBSET Seq(Names)]

\* The texts of rows, as far as they are told apart.
CreditsTexts == {"Unlimited", "None", "balance", "Available", "remaining of total", "remaining",
                 "used of total", "used"}

ASSUME RateLimitsAssumption ==
    /\ MaxFields \in Nat /\ Keys \in Seq(STRING)
    /\ Fields \in [Snapshots -> SUBSET SnapshotFields]
    /\ Absent \notin Contents \cup CreditsTexts \cup {"No data"} /\ Absent \notin Decoded
    /\ Absent \notin Leaves(CreditFields) /\ Absent \notin Leaves(IndividualFields)

VARIABLES outcome,   \* of the optional request
          raw        \* what its result holds, when it is an object

answer == <<outcome, raw>>

\* What a field may hold besides null and a bad value.
Good(path) ==
    LET field == Last(path)
    IN  IF path = ById \/ path \in Snapshots \/ field \in {"credits", "individualLimit"} THEN {"object"}
        ELSE IF field = "limitId" THEN {"codex", "other"}
        ELSE IF field \in {"hasCredits", "unlimited"} THEN {"true", "false"}
        ELSE IF \/ field \in {"planType", "rateLimitReachedType", "balance", "limit"}
                \/ field = "used" /\ path[Len(path) - 1] = "individualLimit" THEN {"text", "blank"}
        ELSE IF field \in {"remaining", "total", "used"} THEN {"low", "high"}
        ELSE IF field = "resetsAt" THEN {"soon", "far"} ELSE {"ok"}

\* The fields of an object.
Children(path) ==
    IF path = <<>> THEN {<<"rateLimits">>, ById, <<"rateLimitResetCredits">>}
    ELSE IF path = ById THEN {Append(ById, key) : key \in ToSet(Keys)}
    ELSE {Append(path, field) : field \in IF path \in Snapshots THEN Fields[path]
                                           ELSE IF Last(path) = "credits" THEN CreditFields
                                           ELSE IF Last(path) = "individualLimit" THEN IndividualFields
                                           ELSE {}}

-----------------------------------------------------------------------------
(* Decoding. *)

Given(path) == path \in DOMAIN raw /\ raw[path] # "null"

\* decode_lossy_field and its variants: the value, or nothing.
Field(path) == IF Given(path) /\ raw[path] # "bad" THEN raw[path] ELSE Absent

\* The issues of an object's own fields, and those of an object inside it.
OwnIssues(at, fields) == {<<field>> : field \in {f \in fields : Given(Append(at, f))
                                                                /\ raw[Append(at, f)] = "bad"}}
Within(prefix, object) == IF object = Absent THEN {} ELSE {prefix \o issue : issue \in object.issues}

Credits(at) ==
    IF Field(at) = Absent THEN Absent
    ELSE [value |-> [field \in CreditFields |-> Field(Append(at, field))],
          issues |-> OwnIssues(at, CreditFields)]

Individual(at) ==
    IF Field(at) = Absent THEN Absent
    ELSE LET value == [field \in IndividualFields |-> Field(Append(at, field))]
         IN  [value |-> [value EXCEPT !["usedPercent"] =
                            IF value["remainingPercent"] # Absent THEN "ok" ELSE @],
              issues |-> OwnIssues(at, IndividualFields)]

\* Mutant of Snapshot: what is malformed inside the credits is not reported.
SnapshotSilent(at) ==
    LET credits == Credits(Append(at, "credits"))
        individual == Individual(Append(at, "individualLimit"))
    IN  [value |-> [field \in LeafFields |-> Field(Append(at, field))],
         credits |-> credits, individual |-> individual,
         issues |-> OwnIssues(at, SnapshotFields)
                    \cup Within(<<"individualLimit">>, individual)]

\* RateLimitSnapshot::deserialize, of an object.
Snapshot(at) ==
    LET credits == Credits(Append(at, "credits"))
        individual == Individual(Append(at, "individualLimit"))
    IN  [value |-> [field \in LeafFields |-> Field(Append(at, field))],
         credits |-> credits, individual |-> individual,
         issues |-> OwnIssues(at, SnapshotFields)
                    \cup Within(<<"credits">>, credits)
                    \cup Within(<<"individualLimit">>, individual)]

\* decode_lossy_rate_limit_map_field: an entry has to be an object.
Entries == IF Field(ById) = Absent THEN {}
           ELSE {key \in ToSet(Keys) : Append(ById, key) \in DOMAIN raw}
Refused(key) == raw[Append(ById, key)] # "object"
Limits == [key \in {k \in Entries : ~Refused(k)} |-> Snapshot(Append(ById, key))]

General == IF Field(<<"rateLimits">>) = Absent THEN Absent ELSE Snapshot(<<"rateLimits">>)
ResetCredits == IF outcome = "object" THEN Field(<<"rateLimitResetCredits">>) ELSE Absent

\* AccountRateLimitsResponse::deserialize, and the two answers made without it.
Issues ==
    CASE outcome = "missing" -> {}
      [] outcome \in {"failed", "malformed"} -> {<<"response">>}
      [] outcome = "object" ->
            OwnIssues(<<>>, {"rateLimits", "rateLimitsByLimitId", "rateLimitResetCredits"})
            \cup {Append(ById, key) : key \in {k \in Entries : Refused(k)}}
            \cup Within(<<"rateLimits">>, General)
            \cup UNION {Within(Append(ById, key), Limits[key]) : key \in DOMAIN Limits}

-----------------------------------------------------------------------------
(* The limit to show. *)

\* rate_limit_snapshot_has_meaningful_data
MeaningfulCredits(credits) ==
    credits # Absent /\ LET c == credits.value
                      IN  \/ c["hasCredits"] # Absent \/ c["unlimited"] = "true"
                          \/ c["balance"] = "text"
                          \/ c["remaining"] # Absent \/ c["used"] # Absent

MeaningfulIndividual(individual) ==
    individual # Absent /\ LET i == individual.value
                         IN  \/ "text" \in {i["limit"], i["used"]}
                             \/ i["remainingPercent"] # Absent \/ i["usedPercent"] # Absent
                             \/ i["resetsAt"] = "soon"

Meaningful(limit) ==
    \/ limit.value["primary"] # Absent \/ limit.value["secondary"] # Absent
    \/ MeaningfulCredits(limit.credits) \/ MeaningfulIndividual(limit.individual)
    \/ limit.value["planType"] = "text" \/ limit.value["rateLimitReachedType"] = "text"

\* Where in the map an entry says that it is Codex's.
NamedCodex == {i \in DOMAIN Keys : /\ Keys[i] \in DOMAIN Limits
                                   /\ Limits[Keys[i]].value["limitId"] = "codex"
                                   /\ Meaningful(Limits[Keys[i]])}

\* Mutant of Preferred: an entry under the right key is taken, whatever it holds.
PreferredByKey ==
    IF outcome # "object" THEN Absent
    ELSE IF "codex" \in DOMAIN Limits THEN Limits["codex"]
    ELSE IF NamedCodex # {} THEN Limits[Keys[Min(NamedCodex)]]
    ELSE IF General # Absent /\ Meaningful(General) THEN General ELSE Absent

\* preferred_codex_limit
Preferred ==
    IF outcome # "object" THEN Absent
    ELSE IF "codex" \in DOMAIN Limits /\ Meaningful(Limits["codex"]) THEN Limits["codex"]
    ELSE IF NamedCodex # {} THEN Limits[Keys[Min(NamedCodex)]]
    ELSE IF General # Absent /\ Meaningful(General) THEN General ELSE Absent

\* check_rate_limit_status
CheckStatus ==
    LET meaningful == ResetCredits # Absent \/ (Preferred # Absent /\ Meaningful(Preferred))
    IN  IF meaningful THEN IF Issues # {} THEN "partially available" ELSE "available"
        ELSE IF Issues # {} THEN "unavailable (data quality issues)" ELSE "unavailable"

-----------------------------------------------------------------------------
(* The rows of the popover: which of them say something. *)

AtMost(a, b) == ~(a = "high" /\ b = "low")

\* format_credits
CreditsRow(credits) ==
    LET c == credits.value
    IN  IF c["unlimited"] = "true" THEN "Unlimited"
        ELSE IF c["hasCredits"] = "false" THEN "None"
        ELSE IF c["balance"] = "text" THEN "balance"
        ELSE IF c["hasCredits"] = "true" THEN "Available"
        ELSE IF Absent \notin {c["remaining"], c["total"]} /\ AtMost(c["remaining"], c["total"])
             THEN "remaining of total"
        ELSE IF c["remaining"] # Absent /\ c["total"] = Absent THEN "remaining"
        ELSE IF Absent \notin {c["used"], c["total"]} /\ AtMost(c["used"], c["total"])
             THEN "used of total"
        ELSE IF c["used"] # Absent THEN "used"
        ELSE IF c["remaining"] # Absent THEN "remaining" ELSE Absent

\* individual_limit_window: the percentage, the two values, the reset.
IndividualRows(individual) ==
    LET i == individual.value
    IN  {row \in {"usedPercent", "limit", "used", "resetsAt"} : i[row] \in {"ok", "text", "soon"}}

\* render_rate_limits.  A reached type without text is shown as "Reported",
\* which is no datum of its own.
Rows(limit) ==
    {row \in {"primary", "secondary"} : limit.value[row] # Absent}
    \cup (IF limit.individual = Absent THEN {} ELSE IndividualRows(limit.individual))
    \cup {row \in {"planType", "rateLimitReachedType"} : limit.value[row] = "text"}
    \cup (IF limit.credits = Absent \/ CreditsRow(limit.credits) = Absent THEN {} ELSE {"credits"})

\* The row for the window, if there is one: no limit, or none with a window.
WindowRow ==
    IF Preferred # Absent
    THEN IF \/ Preferred.value["primary"] # Absent \/ Preferred.value["secondary"] # Absent
            \/ Preferred.individual # Absent
         THEN Absent
         ELSE IF Issues # {} THEN "Some data unavailable" ELSE "No active limit"
    ELSE IF Issues # {} THEN "Some data unavailable" ELSE "No data"

ShownRows == (IF Preferred = Absent THEN {} ELSE Rows(Preferred))
             \cup (IF ResetCredits = Absent THEN {} ELSE {"resetCredits"})
QualityRow == Issues # {}

-----------------------------------------------------------------------------
(* The answer: one value more at a time. *)

InitAnswer ==
    /\ outcome \in {"missing", "failed", "malformed", "object"}
    /\ raw = <<>>

AddField ==
    /\ outcome = "object" /\ Cardinality(DOMAIN raw) < MaxFields
    /\ \E parent \in {<<>>} \cup {p \in DOMAIN raw : raw[p] = "object"} :
          \E path \in Children(parent) \ DOMAIN raw :
             \E value \in Good(path) \cup {"bad", "null"} :
                raw' = [p \in DOMAIN raw \cup {path} |-> IF p = path THEN value ELSE raw[p]]
    /\ UNCHANGED outcome

NextAnswer == AddField

SpecAnswer == InitAnswer /\ [][NextAnswer]_answer

-----------------------------------------------------------------------------
(* Properties. *)

\* What is left out is what is reported: every malformed value at its own
\* path, however deep, and nothing that was accepted or merely absent
\* (decode_lossy_field, and the prefixes that each level puts in front).
NothingDropped ==
    /\ outcome = "object" =>
          Issues = {path \in DOMAIN raw : \/ raw[path] = "bad"
                                          \/ raw[path] = "null" /\ Front(path) = ById}
    /\ outcome \in {"failed", "malformed"} => Issues # {}

\* When one of the limits that count as Codex's has anything to show, a limit
\* is chosen whose rows do show something; "No data" and "unavailable" are
\* said only when nothing is there, and --check says of the same answer what
\* the popover shows (preferred_codex_limit, rate_limit_snapshot_has_meaningful_data
\* and format_credits decide this apart from each other).
DataIsShown ==
    LET candidates == {Limits[key] : key \in {k \in DOMAIN Limits :
                          k = "codex" \/ Limits[k].value["limitId"] = "codex"}}
                      \cup ({General} \ {Absent})
    IN  /\ Preferred # Absent => Preferred \in candidates /\ Rows(Preferred) # {}
        /\ Preferred = Absent /\ outcome = "object" => \A limit \in candidates : Rows(limit) = {}
        /\ WindowRow = "No data" => Preferred = Absent /\ ~QualityRow
        /\ CheckStatus = IF ShownRows = {}
                         THEN IF QualityRow THEN "unavailable (data quality issues)" ELSE "unavailable"
                         ELSE IF QualityRow THEN "partially available" ELSE "available"
=============================================================================
