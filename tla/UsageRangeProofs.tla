-------------------------- MODULE UsageRangeProofs --------------------------
(***************************************************************************)
(* Proofs about module UsageRange, for every width of the integers, every  *)
(* window and every history: counts are read as they were written, totals  *)
(* are exact or withheld, the all-time total stays between what was        *)
(* reported and what is true, the figures fit together, and the popover    *)
(* and the Waybar line agree.                                              *)
(***************************************************************************)
EXTENDS UsageRange, TLAPS, WellFoundedInduction, FiniteSetTheorems

-----------------------------------------------------------------------------
(* The popover and the Waybar line. *)

Status(shown) == IF ~shown.available THEN "Unavailable"
                 ELSE IF shown.partial THEN "Partial" ELSE "Available"

Agree(bar, shown) == /\ bar.total = shown.total
                     /\ bar.total # None => bar.quality = Status(shown)

LEMMA NothingGreatest == Greatest({}) = None
  BY DEF Greatest

\* An inexact daily sum gives no all-time total.
LEMMA InexactHasNoTotal ==
  ASSUME NEW peak
  PROVE  Reconciled(TRUE, None, peak, lifetime, reportedPeak).total = None
<1>1. ASSUME NEW partial PROVE Candidates(TRUE, None, partial, lifetime) = {}
  BY DEF Candidates
<1>2. ASSUME NEW highest PROVE ~Credible(None, highest)
  BY DEF Credible
<1> QED BY <1>1, <1>2, NothingGreatest DEF Reconciled

LEMMA AgreeOverflowed ==
  ASSUME NEW frame, NEW range, withheld = FALSE, Overflowed(range)
  PROVE  Agree(Waybar(frame, range), Presentation(frame, range))
<1>1. Waybar(frame, range).total = None
  BY DEF Waybar, If
<1>2. CASE frame = "all"
  BY <1>1, <1>2, InexactHasNoTotal DEF Presentation, If, Agree
<1>3. CASE frame # "all"
  BY <1>1, <1>3 DEF Presentation, If, Agree
<1> QED BY <1>2, <1>3

LEMMA AgreeExact ==
  ASSUME NEW frame, NEW range, withheld = FALSE, ~Overflowed(range)
  PROVE  Agree(Waybar(frame, range), Presentation(frame, range))
<1>1. ~range.mergeOverflow
  BY DEF Overflowed
<1>2. CASE frame # "all"
  BY <1>1, <1>2 DEF Waybar, Presentation, If, Agree, Status
<1>3. CASE frame = "all"
  <2>1. Presentation(frame, range).total
          = Reconciled(TRUE, range.total, Peak(range), lifetime, reportedPeak).total
    BY <1>1, <1>3 DEF Presentation, If
  <2>2. Presentation(frame, range).partial
          = Reconciled(TRUE, range.total, Peak(range), lifetime, reportedPeak).partial
    BY <1>1, <1>3 DEF Presentation, If, Reconciled, ProvenPartial
  <2>3. Presentation(frame, range).available
    BY DEF Presentation
  <2> QED BY <1>3, <2>1, <2>2, <2>3 DEF Waybar, If, Agree, Status
<1> QED BY <1>2, <1>3

LEMMA AgreeWithheld ==
  ASSUME NEW frame, NEW range, withheld = TRUE
  PROVE  Agree(Waybar(frame, range), Presentation(frame, range))
<1>1. ~Presentation(frame, range).available
  BY DEF Presentation
<1>2. CASE frame = "all"
  BY <1>1, <1>2 DEF Waybar, Presentation, If, Agree, Status
<1>3. CASE frame # "all"
  BY <1>1, <1>3 DEF Waybar, Presentation, If, Agree, Status
<1> QED BY <1>2, <1>3

\* The Waybar line shows the popover's total with the popover's status, for
\* whatever history and summary there may be (selected_waybar_total against
\* UsagePresentation::new).
THEOREM BarAlwaysAgrees == Spec => []BarAgrees
<1> DEFINE Type == withheld \in BOOLEAN
<1>1. Init => Type
  BY DEF Init
<1>2. Type /\ [Next]_vars => Type'
  BY DEF Next, Use, Summarize, DayPasses, SetTimeframe, vars
<1>3. Type => BarAgrees
  <2> SUFFICES ASSUME Type PROVE Agree(Waybar(timeframe, ShownRange), Presentation(timeframe, ShownRange))
    BY DEF BarAgrees, Agree, Status, Shown, HistoryStatus
  <2> QED BY AgreeOverflowed, AgreeExact, AgreeWithheld
<1> QED BY <1>1, <1>2, <1>3, PTL DEF Spec
-----------------------------------------------------------------------------
(* The reconciliation of the all-time figures. *)

Reported == Nat \cup {None}

LEMMA NoneIsNoNumber == None \notin Int
  BY UsageNumbersAssumption

LEMMA GreatestOfTwo ==
  ASSUME NEW a \in Reported, NEW b \in Reported
  PROVE  /\ Greatest({a, b}) \in {a, b}
         /\ Greatest({a, b}) = None => a = None /\ b = None
         /\ a # None => Greatest({a, b}) >= a
         /\ b # None => Greatest({a, b}) >= b
<1> USE NoneIsNoNumber DEF Reported
<1>1. CASE a = None /\ b = None
  BY <1>1 DEF Greatest
<1>2. CASE ~(a = None /\ b = None)
  <2> DEFINE S == {a, b} \ {None}
  <2>1. Greatest({a, b}) = Max(S)
    BY <1>2 DEF Greatest
  <2>2. PICK m \in S : \A y \in S : m >= y
    <3>1. CASE a = None
      BY <1>2, <3>1
    <3>2. CASE b = None
      BY <1>2, <3>2
    <3>3. CASE a # None /\ b # None /\ a >= b
      BY <3>3
    <3>4. CASE a # None /\ b # None /\ ~(a >= b)
      BY <3>4
    <3> QED BY <3>1, <3>2, <3>3, <3>4
  <2>3. Max(S) \in S /\ \A y \in S : Max(S) >= y
    BY <2>2 DEF Max
  <2> QED BY <2>1, <2>3
<1> QED BY <1>1, <1>2

LEMMA GreatestOfOne ==
  ASSUME NEW a \in Nat
  PROVE  Greatest({a}) = a
<1> USE NoneIsNoNumber
<1>1. Greatest({a}) = Max({a})
  BY DEF Greatest
<1>2. Max({a}) = a
  BY DEF Max
<1> QED BY <1>1, <1>2

\* Whatever the summary and the daily history say, and however they contradict
\* each other, an all-time total that is shown is no smaller than any of them,
\* and beside a history that is known to be partial it is the lifetime total,
\* which exceeds what the history adds up to (reconcile_all_time_summary).
THEOREM ReconciledIsCredible ==
  ASSUME NEW available \in BOOLEAN, NEW dailyTotal \in Reported, NEW dailyPeak \in Reported,
         NEW total \in Reported, NEW peak \in Reported,
         Reconciled(available, dailyTotal, dailyPeak, total, peak).total # None
  PROVE  LET r == Reconciled(available, dailyTotal, dailyPeak, total, peak)
         IN  /\ \A value \in {dailyTotal, dailyPeak, total, peak} \ {None} : r.total >= value
             /\ r.peak # None => r.peak <= r.total
             /\ r.partial => r.total = total /\ total > dailyTotal
<1> USE NoneIsNoNumber
<1> DEFINE partial == ProvenPartial(available, dailyTotal, dailyPeak, total, peak)
           candidates == Candidates(available, dailyTotal, partial, total)
           candidate == Greatest(candidates)
           highest == Greatest({peak, dailyPeak})
           r == Reconciled(available, dailyTotal, dailyPeak, total, peak)
<1>1. r.total = candidate /\ Credible(candidate, highest) /\ candidate # None
      /\ r.peak = highest /\ (r.partial <=> partial)
  BY DEF Reconciled, Credible
<1>2. ~(available /\ dailyTotal = None)
  BY <1>1, NothingGreatest DEF Candidates
<1>3. ASSUME partial
      PROVE  candidate = total /\ total \in Nat /\ dailyTotal \in Nat /\ total > dailyTotal
  <2>1. available /\ dailyTotal \in Nat
    BY <1>2, <1>3 DEF ProvenPartial, Reported
  <2>2. candidates = {t \in {total} : Exceeds(t, dailyTotal)}
    BY <1>2, <1>3 DEF Candidates
  <2>3. candidates # {}
    BY <1>1, NothingGreatest
  <2>4. Exceeds(total, dailyTotal)
    <3> HIDE DEF candidates
    <3> QED BY <2>2, <2>3
  <2>5. dailyTotal # None
    BY <2>1
  <2>6. total # None /\ total > dailyTotal
    BY <2>4, <2>5 DEF Exceeds
  <2>7. candidates = {total}
    <3> HIDE DEF candidates
    <3> QED BY <2>2, <2>4
  <2>8. total \in Nat
    BY <2>6 DEF Reported
  <2>9. Greatest({total}) = total
    BY <2>8, GreatestOfOne
  <2> QED BY <2>1, <2>6, <2>7, <2>8, <2>9
<1>4. ASSUME ~partial
      PROVE  candidate \in Nat /\ (total # None => candidate >= total)
                               /\ (dailyTotal # None => candidate >= dailyTotal)
  <2>1. candidates = {total, dailyTotal}
    BY <1>2, <1>4 DEF Candidates
  <2>2. /\ Greatest({total, dailyTotal}) \in {total, dailyTotal}
        /\ total # None => Greatest({total, dailyTotal}) >= total
        /\ dailyTotal # None => Greatest({total, dailyTotal}) >= dailyTotal
    BY GreatestOfTwo
  <2>3. candidate = Greatest({total, dailyTotal})
    BY <2>1
  <2>4. candidate # None
    BY <1>1
  <2> HIDE DEF candidate, candidates
  <2> QED BY <2>2, <2>3, <2>4 DEF Reported
<1>5. candidate \in Nat /\ (total # None => candidate >= total)
                        /\ (dailyTotal # None => candidate >= dailyTotal)
  BY <1>3, <1>4
<1>6. /\ highest \in Reported
      /\ peak # None => highest # None /\ highest >= peak
      /\ dailyPeak # None => highest # None /\ highest >= dailyPeak
  BY GreatestOfTwo DEF Reported
<1>7. highest # None => candidate >= highest
  BY <1>1 DEF Credible
<1>8. /\ peak # None => candidate >= peak
      /\ dailyPeak # None => candidate >= dailyPeak
  <2> HIDE DEF candidate, highest
  <2> QED BY <1>5, <1>6, <1>7 DEF Reported
<1>9. \A value \in {dailyTotal, dailyPeak, total, peak} \ {None} : candidate >= value
  BY <1>5, <1>8
<1> HIDE DEF candidate, highest, partial, r
<1>10. r.peak # None => r.peak <= r.total
  BY <1>1, <1>5, <1>6, <1>7 DEF Reported
<1>11. r.partial => r.total = total /\ total > dailyTotal
  BY <1>1, <1>3
<1> QED BY <1>1, <1>9, <1>10, <1>11 DEF r

-----------------------------------------------------------------------------
(* Sums.  The inductions are about a set: the numbers, or the subsets of a *)
(* finite set, of which something is true.                                 *)

LEMMA NumberInduction ==
  ASSUME NEW P, 0 \in P, \A n \in Nat : n \in P => n + 1 \in P
  PROVE  Nat \subseteq P
<1> DEFINE T == Nat \ P
<1> SUFFICES ASSUME T # {} PROVE FALSE
  OBVIOUS
<1>1. IsWellFoundedOn(OpToRel(<, Nat), Nat)
  BY NatLessThanWellFounded, Zenon
<1>2. PICK m \in T : \A k \in T : <<k, m>> \notin OpToRel(<, Nat)
  BY <1>1, WFMin, Zenon
<1>3. \A k \in T : ~(k < m)
  BY <1>2 DEF OpToRel
<1>4. m \in Nat /\ m # 0
  OBVIOUS
<1>5. m - 1 \in Nat /\ m - 1 \notin T
  BY <1>3, <1>4
<1>6. m - 1 + 1 \in P
  BY <1>5
<1> QED BY <1>4, <1>6

LEMMA SubsetInduction ==
  ASSUME NEW S, IsFiniteSet(S), NEW P, {} \in P,
         \A s \in SUBSET S : s # {} => \E x \in s : s \ {x} \in P => s \in P
  PROVE  SUBSET S \subseteq P
<1> DEFINE N == {n \in Nat : \A s \in SUBSET S : Cardinality(s) = n => s \in P}
<1>1. ASSUME NEW s \in SUBSET S PROVE IsFiniteSet(s) /\ Cardinality(s) \in Nat
  <2>1. IsFiniteSet(s)
    BY FS_Subset
  <2> QED BY <2>1, FS_CardinalityType
<1>2. 0 \in N
  BY <1>1, FS_EmptySet
<1>3. ASSUME NEW n \in Nat, n \in N PROVE n + 1 \in N
  <2> SUFFICES ASSUME NEW s \in SUBSET S, Cardinality(s) = n + 1 PROVE s \in P
    OBVIOUS
  <2>1. s # {}
    <3>1. Cardinality({}) = 0
      BY FS_EmptySet, Zenon
    <3>2. Cardinality(s) # 0
      OBVIOUS
    <3> QED BY <3>1, <3>2, Zenon
  <2>2. PICK x \in s : s \ {x} \in P => s \in P
    BY <2>1
  <2>3. Cardinality(s \ {x}) = n
    <3>1. Cardinality(s \ {x}) = IF x \in s THEN Cardinality(s) - 1 ELSE Cardinality(s)
      BY <1>1, FS_RemoveElement
    <3> QED BY <2>1, <2>2, <3>1
  <2>4. s \ {x} \in P
    BY <1>3, <2>3
  <2> QED BY <2>2, <2>4
<1>4. Nat \subseteq N
  BY <1>2, <1>3, NumberInduction
<1> QED BY <1>1, <1>4

SumOn(f, s) == SumFunctionOnSet(f, s)

\* A function that adds up f over the subsets of S.
Adds(total, f, S) ==
  /\ total \in [SUBSET S -> Nat] /\ total[{}] = 0
  /\ \A s \in SUBSET S : \A x \in s : total[s] = f[x] + total[s \ {x}]

LEMMA AddsExists ==
  ASSUME NEW S, IsFiniteSet(S), NEW f, \A x \in S : f[x] \in Nat
  PROVE  \E total : Adds(total, f, S)
<1> DEFINE P == {s \in SUBSET S : \E total : Adds(total, f, s)}
<1>1. {} \in P
  <2>1. Adds([s \in {{}} |-> 0], f, {})
    BY DEF Adds
  <2> QED BY <2>1, Zenon
<1>2. ASSUME NEW s \in SUBSET S, NEW x \in s, s \ {x} \in P PROVE s \in P
  <2>1. PICK t : Adds(t, f, s \ {x})
    BY <1>2
  <2> DEFINE u == [r \in SUBSET s |-> IF x \in r THEN f[x] + t[r \ {x}] ELSE t[r]]
  <2>2. f[x] \in Nat /\ \A r \in SUBSET (s \ {x}) : t[r] \in Nat
    BY <2>1 DEF Adds
  <2>3. u \in [SUBSET s -> Nat] /\ u[{}] = 0
    <3>1. \A r \in SUBSET s : r \ {x} \in SUBSET (s \ {x}) /\ (x \notin r => r \in SUBSET (s \ {x}))
      OBVIOUS
    <3>2. t[{}] = 0
      BY <2>1 DEF Adds
    <3> QED BY <2>2, <3>1, <3>2
  <2>4. ASSUME NEW r \in SUBSET s, NEW y \in r PROVE u[r] = f[y] + u[r \ {y}]
    <3>0. f[y] \in Nat
      BY <2>4
    <3>1. CASE y = x
      BY <3>1
    <3>2. CASE y # x /\ x \in r
      <4>1. t[r \ {x}] = f[y] + t[(r \ {x}) \ {y}]
        BY <2>1, <2>4, <3>2 DEF Adds
      <4>2. u[r] = f[x] + t[r \ {x}] /\ u[r \ {y}] = f[x] + t[(r \ {y}) \ {x}]
        BY <2>4, <3>2
      <4>3. (r \ {x}) \ {y} = (r \ {y}) \ {x}
        OBVIOUS
      <4> DEFINE rest == t[(r \ {x}) \ {y}]
      <4>4. rest \in Nat
        BY <2>2, <2>4
      <4>5. t[(r \ {y}) \ {x}] = rest
        BY <4>3
      <4>6. t[r \ {x}] = f[y] + rest
        BY <4>1
      <4> HIDE DEF rest, u
      <4> QED BY <2>2, <3>0, <4>2, <4>4, <4>5, <4>6
    <3>3. CASE x \notin r
      <4>1. r \in SUBSET (s \ {x})
        BY <2>4, <3>3
      <4> QED BY <2>1, <2>4, <3>3, <4>1 DEF Adds
    <3> QED BY <3>1, <3>2, <3>3
  <2>5. Adds(u, f, s)
    BY <2>3, <2>4, Zenon DEF Adds
  <2> QED BY <2>5
<1> HIDE DEF P
<1>3. SUBSET S \subseteq P
  <2>1. \A s \in SUBSET S : s # {} => \E x \in s : s \ {x} \in P => s \in P
    BY <1>2
  <2> QED BY <1>1, <2>1, SubsetInduction
<1>4. S \in P
  BY <1>3
<1> QED BY <1>4 DEF P

\* Two functions of subsets that follow the same recursion are the same.
LEMMA SameRecursion ==
  ASSUME NEW S, IsFiniteSet(S), NEW g, NEW h, g[{}] = h[{}],
         \A s \in SUBSET S : s # {} => \E x \in s : g[s \ {x}] = h[s \ {x}] => g[s] = h[s]
  PROVE  g[S] = h[S]
<1> DEFINE P == {s \in SUBSET S : g[s] = h[s]}
<1>1. {} \in P /\ \A s \in SUBSET S : s # {} => \E x \in s : s \ {x} \in P => s \in P
  OBVIOUS
<1> HIDE DEF P
<1>2. SUBSET S \subseteq P
  BY <1>1, SubsetInduction
<1> QED BY <1>2 DEF P

\* The library's sum is one of them, whatever order it takes.
LEMMA SumAdds ==
  ASSUME NEW S, IsFiniteSet(S), NEW f, \A x \in S : f[x] \in Nat
  PROVE  \A total : Adds(total, f, S) => SumOn(f, S) = total[S]
<1> SUFFICES ASSUME NEW total, Adds(total, f, S) PROVE SumOn(f, S) = total[S]
  OBVIOUS
<1> DEFINE some(s) == CHOOSE x \in s : TRUE
           Is(h) == h = [s \in SUBSET S |-> IF s = {} THEN 0 ELSE f[some(s)] + h[s \ {some(s)}]]
<1>1. Is(total)
  <2>1. \A s \in SUBSET S : s # {} => some(s) \in s
    BY Zenon
  <2>2. \A s \in SUBSET S : total[s] = IF s = {} THEN 0 ELSE f[some(s)] + total[s \ {some(s)}]
    BY <2>1, Zenon DEF Adds
  <2>3. total = [s \in SUBSET S |-> total[s]]
    BY DEF Adds
  <2> HIDE DEF some
  <2>4. [s \in SUBSET S |-> total[s]]
         = [s \in SUBSET S |-> IF s = {} THEN 0 ELSE f[some(s)] + total[s \ {some(s)}]]
    BY <2>2
  <2> QED BY <2>3, <2>4, Zenon
<1>2. SumOn(f, S) = (CHOOSE h : Is(h))[S]
  BY Zenon DEF SumOn, SumFunctionOnSet, FoldFunctionOnSet, MapThenFoldSet
<1> DEFINE h == CHOOSE h : Is(h)
<1>3. Is(h)
  BY <1>1, Zenon
<1> HIDE DEF h
<1>4. \A s \in SUBSET S : h[s] = IF s = {} THEN 0 ELSE f[some(s)] + h[s \ {some(s)}]
  <2> DEFINE body(g, s) == IF s = {} THEN 0 ELSE f[some(s)] + g[s \ {some(s)}]
  <2>1. h = [s \in SUBSET S |-> body(h, s)]
    BY <1>3
  <2> HIDE DEF body
  <2>2. \A s \in SUBSET S : h[s] = body(h, s)
    BY <2>1
  <2> QED BY <2>2 DEF body
<1>5. h[{}] = total[{}]
  BY <1>4 DEF Adds
<1>6. ASSUME NEW s \in SUBSET S, s # {} PROVE \E x \in s : h[s \ {x}] = total[s \ {x}] => h[s] = total[s]
  <2>1. some(s) \in s
    BY <1>6, Zenon
  <2> HIDE DEF some
  <2>2. total[s] = f[some(s)] + total[s \ {some(s)}]
    BY <2>1 DEF Adds
  <2> QED BY <1>4, <1>6, <2>1, <2>2
<1>7. h[S] = total[S]
  BY <1>5, <1>6, SameRecursion
<1> QED BY <1>2, <1>7 DEF h

LEMMA SumEmpty == \A f : SumOn(f, {}) = 0
<1> TAKE f
<1>1. IsFiniteSet({})
  BY FS_EmptySet, Zenon
<1>2. \A x \in {} : f[x] \in Nat
  OBVIOUS
<1>3. PICK total : Adds(total, f, {})
  BY <1>1, <1>2, AddsExists
<1>4. SumOn(f, {}) = total[{}]
  BY <1>1, <1>2, <1>3, SumAdds
<1> QED BY <1>3, <1>4 DEF Adds

LEMMA SumStep ==
  ASSUME NEW S, IsFiniteSet(S), NEW f, \A x \in S : f[x] \in Nat
  PROVE  /\ SumOn(f, S) \in Nat
         /\ \A x \in S : SumOn(f, S) = f[x] + SumOn(f, S \ {x})
<1>1. PICK total : Adds(total, f, S)
  BY AddsExists
<1>2. SumOn(f, S) = total[S]
  BY <1>1, SumAdds
<1>3. SumOn(f, S) \in Nat
  BY <1>1, <1>2 DEF Adds
<1>4. ASSUME NEW x \in S PROVE SumOn(f, S) = f[x] + SumOn(f, S \ {x})
  <2> DEFINE R == S \ {x}
             part == [s \in SUBSET R |-> total[s]]
  <2>1. Adds(part, f, R)
    <3>1. part \in [SUBSET R -> Nat] /\ part[{}] = 0
      BY <1>1 DEF Adds
    <3>2. ASSUME NEW s \in SUBSET R, NEW y \in s PROVE part[s] = f[y] + part[s \ {y}]
      <4>1. total[s] = f[y] + total[s \ {y}]
        BY <1>1, <3>2 DEF Adds
      <4> QED BY <4>1
    <3> QED BY <3>1, <3>2, Zenon DEF Adds
  <2>2. IsFiniteSet(R) /\ \A y \in R : f[y] \in Nat
    BY FS_RemoveElement
  <2> HIDE DEF R
  <2>3. SumOn(f, R) = part[R]
    BY <2>1, <2>2, SumAdds
  <2>4. part[R] = total[R]
    OBVIOUS
  <2>5. total[S] = f[x] + total[R]
    BY <1>1, <1>4 DEF Adds, R
  <2> QED BY <1>2, <2>3, <2>4, <2>5 DEF R
<1> QED BY <1>3, <1>4

LEMMA SumAgrees ==
  ASSUME NEW S, IsFiniteSet(S), NEW f, NEW g, \A x \in S : f[x] \in Nat /\ g[x] = f[x]
  PROVE  SumOn(g, S) = SumOn(f, S)
<1> DEFINE P == {s \in SUBSET S : SumOn(g, s) = SumOn(f, s)}
<1>1. {} \in P
  BY SumEmpty
<1>2. ASSUME NEW s \in SUBSET S, s # {}, NEW x \in s, s \ {x} \in P PROVE s \in P
  <2>1. IsFiniteSet(s)
    BY FS_Subset
  <2>2. (\A y \in s : f[y] \in Nat) /\ \A y \in s : g[y] \in Nat
    OBVIOUS
  <2>3. SumOn(f, s) = f[x] + SumOn(f, s \ {x})
    BY <2>1, <2>2, SumStep
  <2>4. SumOn(g, s) = g[x] + SumOn(g, s \ {x})
    BY <2>1, <2>2, SumStep
  <2> QED BY <1>2, <2>3, <2>4
<1> HIDE DEF P
<1>3. \A s \in SUBSET S : s # {} => \E x \in s : s \ {x} \in P => s \in P
  BY <1>2
<1>4. SUBSET S \subseteq P
  BY <1>1, <1>3, SubsetInduction
<1> QED BY <1>4 DEF P

LEMMA SumUnion ==
  ASSUME NEW S, IsFiniteSet(S), NEW f, \A x \in S : f[x] \in Nat, NEW A \in SUBSET S
  PROVE  SumOn(f, S) = SumOn(f, A) + SumOn(f, S \ A)
<1> DEFINE P == {s \in SUBSET (S \ A) : SumOn(f, A \cup s) = SumOn(f, A) + SumOn(f, s)}
<1>0. IsFiniteSet(A) /\ \A x \in A : f[x] \in Nat
  BY FS_Subset
<1>1. {} \in P
  <2>1. SumOn(f, A) \in Nat
    BY <1>0, SumStep
  <2>2. A \cup {} = A
    OBVIOUS
  <2> QED BY <2>1, <2>2, SumEmpty
<1>2. ASSUME NEW s \in SUBSET (S \ A), s # {}, NEW x \in s, s \ {x} \in P PROVE s \in P
  <2>1. IsFiniteSet(A \cup s) /\ \A y \in A \cup s : f[y] \in Nat
    <3>1. A \cup s \in SUBSET S
      OBVIOUS
    <3> QED BY <3>1, FS_Subset
  <2>2. IsFiniteSet(s) /\ IsFiniteSet(s \ {x}) /\ (\A y \in s : f[y] \in Nat) /\ (\A y \in s \ {x} : f[y] \in Nat)
    <3>1. s \in SUBSET S /\ s \ {x} \in SUBSET S
      OBVIOUS
    <3> QED BY <3>1, FS_Subset
  <2>3. SumOn(f, A \cup s) = f[x] + SumOn(f, (A \cup s) \ {x})
    <3>1. x \in A \cup s
      OBVIOUS
    <3> QED BY <2>1, <3>1, SumStep
  <2>4. (A \cup s) \ {x} = A \cup (s \ {x})
    BY <1>2
  <2>5. SumOn(f, A \cup (s \ {x})) = SumOn(f, A) + SumOn(f, s \ {x})
    BY <1>2
  <2>6. SumOn(f, s) = f[x] + SumOn(f, s \ {x})
    BY <2>2, SumStep
  <2>7. SumOn(f, A) \in Nat /\ SumOn(f, s \ {x}) \in Nat /\ f[x] \in Nat
    BY <1>0, <2>2, SumStep
  <2>8. SumOn(f, A \cup s) = f[x] + (SumOn(f, A) + SumOn(f, s \ {x}))
    BY <2>3, <2>4, <2>5
  <2> QED BY <2>6, <2>7, <2>8
<1> HIDE DEF P
<1>3. \A s \in SUBSET (S \ A) : s # {} => \E x \in s : s \ {x} \in P => s \in P
  BY <1>2
<1>4. IsFiniteSet(S \ A)
  <2>1. S \ A \in SUBSET S
    OBVIOUS
  <2> QED BY <2>1, FS_Subset
<1>5. SUBSET (S \ A) \subseteq P
  <2> DEFINE R == S \ A
  <2>1. IsFiniteSet(R) /\ \A s \in SUBSET R : s # {} => \E x \in s : s \ {x} \in P => s \in P
    BY <1>3, <1>4
  <2> HIDE DEF R
  <2>2. SUBSET R \subseteq P
    BY <1>1, <2>1, SubsetInduction
  <2> QED BY <2>2 DEF R
<1>6. A \cup (S \ A) = S /\ S \ A \in P
  BY <1>5
<1> QED BY <1>6 DEF P

LEMMA SumOfPart ==
  ASSUME NEW S, IsFiniteSet(S), NEW f, \A x \in S : f[x] \in Nat, NEW A \in SUBSET S
  PROVE  /\ SumOn(f, A) <= SumOn(f, S)
         /\ \A x \in S : f[x] <= SumOn(f, S)
<1>1. SumOn(f, A) \in Nat /\ SumOn(f, S \ A) \in Nat
  <2>1. IsFiniteSet(A) /\ IsFiniteSet(S \ A)
    <3>1. S \ A \in SUBSET S
      OBVIOUS
    <3> QED BY <3>1, FS_Subset
  <2>2. (\A x \in A : f[x] \in Nat) /\ \A x \in S \ A : f[x] \in Nat
    OBVIOUS
  <2> QED BY <2>1, <2>2, SumStep
<1>2. SumOn(f, S) = SumOn(f, A) + SumOn(f, S \ A)
  BY SumUnion
<1>3. ASSUME NEW x \in S PROVE f[x] <= SumOn(f, S)
  <2>1. SumOn(f, S) = f[x] + SumOn(f, S \ {x})
    BY SumStep
  <2>2. IsFiniteSet(S \ {x}) /\ \A y \in S \ {x} : f[y] \in Nat
    BY FS_RemoveElement
  <2>3. SumOn(f, S \ {x}) \in Nat
    BY <2>2, SumStep
  <2> QED BY <2>1, <2>3
<1> QED BY <1>1, <1>2, <1>3

\* A sum is at most its greatest value times the number of those that count.
LEMMA SumAtMost ==
  ASSUME NEW S, IsFiniteSet(S), NEW f, NEW m \in Nat, \A x \in S : f[x] \in 0..m
  PROVE  SumOn(f, S) <= m * Cardinality({x \in S : f[x] > 0})
<1> DEFINE Some(s) == {x \in s : f[x] > 0}
           P == {s \in SUBSET S : SumOn(f, s) <= m * Cardinality(Some(s))}
<1>1. {} \in P
  <2>1. Some({}) = {} /\ Cardinality({}) = 0
    BY FS_EmptySet, Zenon
  <2> HIDE DEF Some
  <2> QED BY <2>1, SumEmpty
<1>2. ASSUME NEW s \in SUBSET S, s # {}, NEW x \in s, s \ {x} \in P PROVE s \in P
  <2>1. IsFiniteSet(s) /\ IsFiniteSet(s \ {x}) /\ IsFiniteSet(Some(s))
    <3>1. s \ {x} \in SUBSET S /\ Some(s) \in SUBSET S
      OBVIOUS
    <3> QED BY <3>1, FS_Subset
  <2>2. (\A y \in s : f[y] \in Nat) /\ \A y \in s \ {x} : f[y] \in Nat
    OBVIOUS
  <2>3. SumOn(f, s) = f[x] + SumOn(f, s \ {x}) /\ SumOn(f, s \ {x}) \in Nat
    BY <2>1, <2>2, SumStep
  <2>4. Some(s \ {x}) = Some(s) \ {x}
    OBVIOUS
  <2>5. Cardinality(Some(s)) \in Nat
    BY <2>1, FS_CardinalityType
  <2>6. Cardinality(Some(s) \ {x}) = IF x \in Some(s) THEN Cardinality(Some(s)) - 1 ELSE Cardinality(Some(s))
    <3> HIDE DEF Some
    <3> QED BY <2>1, FS_RemoveElement
  <2>7. SumOn(f, s \ {x}) <= m * Cardinality(Some(s) \ {x})
    BY <1>2, <2>4
  <2>8. f[x] \in 0..m /\ (x \notin Some(s) => f[x] = 0)
    OBVIOUS
  <2> DEFINE c == Cardinality(Some(s))
  <2>9. SUFFICES SumOn(f, s) <= m * c
    OBVIOUS
  <2>10. CASE x \in Some(s)
    <3>1. SumOn(f, s \ {x}) <= m * (c - 1) /\ c \in Nat
      BY <2>5, <2>6, <2>7, <2>10
    <3> HIDE DEF c, Some
    <3>2. m * (c - 1) = m * c - m /\ m * c \in Int
      BY <3>1
    <3> QED BY <2>3, <2>8, <3>1, <3>2
  <2>11. CASE x \notin Some(s)
    <3>1. SumOn(f, s \ {x}) <= m * c
      BY <2>6, <2>7, <2>11
    <3> HIDE DEF c, Some
    <3> QED BY <2>3, <2>8, <2>11, <3>1
  <2> QED BY <2>10, <2>11
<1> HIDE DEF P
<1>3. \A s \in SUBSET S : s # {} => \E x \in s : s \ {x} \in P => s \in P
  BY <1>2
<1>4. SUBSET S \subseteq P
  BY <1>1, <1>3, SubsetInduction
<1> QED BY <1>4 DEF P

LEMMA GreatestIs ==
  ASSUME NEW S, IsFiniteSet(S), S # {}, S \subseteq Int
  PROVE  Max(S) \in S /\ \A y \in S : Max(S) >= y
<1> DEFINE P == {s \in SUBSET S : s # {} => \E m \in s : \A y \in s : m >= y}
<1>1. {} \in P
  OBVIOUS
<1>2. ASSUME NEW s \in SUBSET S, s # {}, NEW x \in s, s \ {x} \in P PROVE s \in P
  <2>1. CASE s \ {x} = {}
    <3>1. \A y \in s : x >= y
      BY <2>1
    <3> QED BY <3>1
  <2>2. CASE s \ {x} # {}
    <3>1. PICK m \in s \ {x} : \A y \in s \ {x} : m >= y
      BY <1>2, <2>2
    <3>2. CASE m >= x
      BY <3>1, <3>2
    <3>3. CASE ~(m >= x)
      <4>1. \A y \in s : x >= y
        BY <3>1, <3>3
      <4> QED BY <4>1
    <3> QED BY <3>2, <3>3
  <2> QED BY <2>1, <2>2
<1> HIDE DEF P
<1>3. \A s \in SUBSET S : s # {} => \E x \in s : s \ {x} \in P => s \in P
  BY <1>2
<1>4. SUBSET S \subseteq P
  BY <1>1, <1>3, SubsetInduction
<1>5. PICK m \in S : \A y \in S : m >= y
  BY <1>4 DEF P
<1> QED BY <1>5 DEF Max

-----------------------------------------------------------------------------
(* What the range adds up. *)

Bucket == [day : Days, tokens : 0..MaxTokens, written : 0..MaxTokens]

\* A sum as checked_add leaves it.
Capped(n) == IF n > MaxTokens THEN [tokens |-> MaxTokens, overflow |-> TRUE]
             ELSE [tokens |-> n, overflow |-> FALSE]

\* The days' tokens as they were read.
Tokens(source, days) == SumOn([i \in DOMAIN source |-> source[i].tokens],
                            {i \in DOMAIN source : source[i].day \in days})

LEMMA MaxIsNat == MaxTokens \in Nat
  BY UsageNumbersAssumption

LEMMA AddedCapped ==
  ASSUME NEW n \in Nat, NEW t \in Nat
  PROVE  Added(Capped(n), t) = Capped(n + t)
<1> USE MaxIsNat
<1>1. ASSUME NEW a, NEW b, NEW c
      PROVE  [[tokens |-> a, overflow |-> b] EXCEPT !.tokens = c] = [tokens |-> c, overflow |-> b]
  OBVIOUS
<1>2. CASE n > MaxTokens
  <2>1. Capped(n) = [tokens |-> MaxTokens, overflow |-> TRUE] /\ Capped(n + t) = Capped(n)
    BY <1>2 DEF Capped
  <2>2. CASE t = 0
    <3>1. Added(Capped(n), t) = [Capped(n) EXCEPT !.tokens = Capped(n).tokens + t] /\ Capped(n).tokens + t = MaxTokens
      BY <2>1, <2>2 DEF Added
    <3> QED BY <1>1, <2>1, <3>1
  <2>3. CASE t > 0
    BY <2>1, <2>3 DEF Added
  <2> QED BY <2>2, <2>3
<1>3. CASE ~(n > MaxTokens)
  <2>1. Capped(n) = [tokens |-> n, overflow |-> FALSE]
    BY <1>3 DEF Capped
  <2>2. CASE n + t > MaxTokens
    BY <2>1, <2>2 DEF Added, Capped
  <2>3. CASE ~(n + t > MaxTokens)
    <3>1. Added(Capped(n), t) = [Capped(n) EXCEPT !.tokens = Capped(n).tokens + t] /\ Capped(n).tokens + t = n + t
      BY <2>1, <2>3 DEF Added
    <3>2. Capped(n + t) = [tokens |-> n + t, overflow |-> FALSE]
      BY <2>3 DEF Capped
    <3>3. [[tokens |-> n, overflow |-> FALSE] EXCEPT !.tokens = n + t] = [tokens |-> n + t, overflow |-> FALSE]
      BY <1>1, Zenon
    <3> QED BY <2>1, <3>1, <3>2, <3>3, Zenon
  <2> QED BY <2>2, <2>3
<1> QED BY <1>2, <1>3

LEMMA ZeroIsCapped == Zero = Capped(0)
<1>1. ~(0 > MaxTokens)
  BY MaxIsNat
<1> QED BY <1>1 DEF Zero, Capped

LEMMA SourceIs ==
  ASSUME NEW source \in Seq(Bucket)
  PROVE  /\ IsFiniteSet(DOMAIN source) /\ DOMAIN source \subseteq Int
         /\ \A i \in DOMAIN source : /\ source[i].day \in Days
                                     /\ source[i].tokens \in 0..MaxTokens
                                     /\ source[i].written \in 0..MaxTokens
<1>1. Len(source) \in Nat /\ DOMAIN source = 1..Len(source)
  OBVIOUS
<1>2. IsFiniteSet(1..Len(source))
  BY <1>1, FS_Interval
<1>3. \A i \in DOMAIN source : source[i] \in Bucket
  OBVIOUS
<1> QED BY <1>1, <1>2, <1>3 DEF Bucket

\* merge_buckets_reporting_overflow: each day has what its buckets add up to.
LEMMA DayIsCapped ==
  ASSUME NEW source \in Seq(Bucket), NEW day \in {source[i].day : i \in DOMAIN source}
  PROVE  Merged(source)[day] = Capped(Tokens(source, {day}))
<1> DEFINE S == DOMAIN source
           f == [i \in S |-> source[i].tokens]
           at(s) == {i \in s : source[i].day = day}
           w == [s \in SUBSET S |-> Capped(SumOn(f, at(s)))]
           step(g, s) == IF source[Max(s)].day = day THEN Added(g[s \ {Max(s)}], source[Max(s)].tokens)
                         ELSE g[s \ {Max(s)}]
           Is(h) == h = [s \in SUBSET S |-> IF s = {} THEN Zero ELSE step(h, s)]
<1>0. IsFiniteSet(S) /\ S \subseteq Int /\ \A i \in S : f[i] \in Nat
  <2>1. \A i \in S : f[i] = source[i].tokens
    OBVIOUS
  <2>2. \A i \in S : source[i].tokens \in Nat
    BY SourceIs, MaxIsNat
  <2> HIDE DEF f
  <2> QED BY <2>1, <2>2, SourceIs
<1>1. Merged(source)[day] = (CHOOSE h : Is(h))[S]
  <2>1. Merged(source)[day] = FoldLeft(LAMBDA sum, bucket : IF bucket.day = day THEN Added(sum, bucket.tokens) ELSE sum,
                 Zero, source)
    BY Zenon DEF Merged
  <2> QED BY <2>1, Zenon DEF FoldLeft, MapThenFoldSet
<1>2. \A s \in SUBSET S : IsFiniteSet(s) /\ (\A i \in s : f[i] \in Nat) /\ (s # {} => Max(s) \in s)
  <2> SUFFICES ASSUME NEW s \in SUBSET S PROVE IsFiniteSet(s) /\ (s # {} => Max(s) \in s)
    BY <1>0
  <2>1. IsFiniteSet(s)
    BY <1>0, FS_Subset
  <2> QED BY <1>0, <2>1, GreatestIs
<1>3. ASSUME NEW s \in SUBSET S, s # {}, NEW x \in s
      PROVE  Capped(SumOn(f, at(s))) = IF source[x].day = day THEN Added(Capped(SumOn(f, at(s \ {x}))), source[x].tokens)
                                     ELSE Capped(SumOn(f, at(s \ {x})))
  <2>1. CASE source[x].day = day
    <3>1. x \in at(s) /\ at(s) \ {x} = at(s \ {x}) /\ at(s) \in SUBSET S /\ at(s \ {x}) \in SUBSET S
      BY <2>1
    <3> HIDE DEF at
    <3>2. SumOn(f, at(s)) = f[x] + SumOn(f, at(s \ {x})) /\ SumOn(f, at(s \ {x})) \in Nat
      <4> DEFINE A == at(s)
      <4>1. IsFiniteSet(A) /\ IsFiniteSet(A \ {x}) /\ x \in A /\ (\A i \in A : f[i] \in Nat)
            /\ (\A i \in A \ {x} : f[i] \in Nat)
        BY <1>2, <3>1
      <4> HIDE DEF A, f
      <4>2. SumOn(f, A) = f[x] + SumOn(f, A \ {x}) /\ SumOn(f, A \ {x}) \in Nat
        BY <4>1, SumStep
      <4> QED BY <3>1, <4>2 DEF A
    <3>3. f[x] = source[x].tokens /\ f[x] \in Nat
      BY <1>0
    <3> HIDE DEF f
    <3>4. Added(Capped(SumOn(f, at(s \ {x}))), f[x]) = Capped(SumOn(f, at(s \ {x})) + f[x])
      BY <3>2, <3>3, AddedCapped
    <3>5. SumOn(f, at(s)) = SumOn(f, at(s \ {x})) + f[x]
      BY <3>2, <3>3
    <3> QED BY <2>1, <3>3, <3>4, <3>5
  <2>2. CASE source[x].day # day
    <3>1. at(s) = at(s \ {x})
      BY <2>2
    <3> HIDE DEF at, f
    <3> QED BY <2>2, <3>1
  <2> QED BY <2>1, <2>2
<1>4. w[{}] = Zero
  <2>1. at({}) = {}
    OBVIOUS
  <2> HIDE DEF at, f
  <2> QED BY <2>1, SumEmpty, ZeroIsCapped
<1> HIDE DEF at, f
<1>5. \A s \in SUBSET S : s # {} => w[s] = step(w, s)
  <2> SUFFICES ASSUME NEW s \in SUBSET S, s # {} PROVE w[s] = step(w, s)
    OBVIOUS
  <2>1. Max(s) \in s
    BY <1>2
  <2> QED BY <1>3, <2>1
<1>6. Is(w)
  <2>1. \A s \in SUBSET S : w[s] = IF s = {} THEN Zero ELSE step(w, s)
    BY <1>4, <1>5
  <2>2. w = [s \in SUBSET S |-> w[s]]
    OBVIOUS
  <2> HIDE DEF step, w
  <2>3. [s \in SUBSET S |-> w[s]] = [s \in SUBSET S |-> IF s = {} THEN Zero ELSE step(w, s)]
    BY <2>1
  <2> QED BY <2>2, <2>3, Zenon
<1> DEFINE h == CHOOSE h : Is(h)
<1>7. Is(h)
  BY <1>6, Zenon
<1> HIDE DEF h
<1>8. \A s \in SUBSET S : h[s] = IF s = {} THEN Zero ELSE step(h, s)
  <2> DEFINE body(g, s) == IF s = {} THEN Zero ELSE step(g, s)
  <2>1. h = [s \in SUBSET S |-> body(h, s)]
    BY <1>7
  <2> HIDE DEF body
  <2>2. \A s \in SUBSET S : h[s] = body(h, s)
    BY <2>1
  <2> QED BY <2>2 DEF body
<1>9. h[{}] = w[{}]
  BY <1>4, <1>8
<1>10. ASSUME NEW s \in SUBSET S, s # {} PROVE \E x \in s : h[s \ {x}] = w[s \ {x}] => h[s] = w[s]
  <2>1. Max(s) \in s /\ w[s] = step(w, s) /\ h[s] = step(h, s)
    BY <1>2, <1>5, <1>8, <1>10
  <2> HIDE DEF w
  <2> QED BY <2>1
<1>11. h[S] = w[S]
  <2> HIDE DEF S, w, step
  <2> QED BY <1>0, <1>9, <1>10, SameRecursion
<1>12. at(S) = {i \in S : source[i].day \in {day}}
  BY DEF at
<1> HIDE DEF S
<1>13. w[S] = Capped(Tokens(source, {day}))
  BY <1>12 DEF Tokens, f, S
<1> QED BY <1>1, <1>11, <1>13 DEF h

\* saturating_total: the days' tokens added up.
LEMMA TotalIsCapped ==
  ASSUME NEW daily, IsFiniteSet(DOMAIN daily), \A d \in DOMAIN daily : daily[d].tokens \in Nat
  PROVE  FoldFunction(LAMBDA d, sum : Added(sum, d.tokens), Zero, daily)
           = Capped(SumOn([d \in DOMAIN daily |-> daily[d].tokens], DOMAIN daily))
<1> DEFINE S == DOMAIN daily
           f == [d \in S |-> daily[d].tokens]
           w == [s \in SUBSET S |-> Capped(SumOn(f, s))]
           some(s) == CHOOSE x \in s : TRUE
           step(g, s) == Added(g[s \ {some(s)}], daily[some(s)].tokens)
           Is(h) == h = [s \in SUBSET S |-> IF s = {} THEN Zero ELSE step(h, s)]
<1>0. \A d \in S : f[d] = daily[d].tokens /\ f[d] \in Nat
  OBVIOUS
<1>1. FoldFunction(LAMBDA d, sum : Added(sum, d.tokens), Zero, daily) = (CHOOSE h : Is(h))[S]
  BY Zenon DEF FoldFunction, FoldFunctionOnSet, MapThenFoldSet
<1>2. \A s : s # {} => some(s) \in s
  BY Zenon
<1> HIDE DEF f, some
<1>3. w[{}] = Zero
  BY SumEmpty, ZeroIsCapped
<1>4. ASSUME NEW s \in SUBSET S, s # {} PROVE w[s] = step(w, s)
  <2> DEFINE x == some(s)
  <2>1. x \in s
    BY <1>2, <1>4
  <2> HIDE DEF x
  <2>2. IsFiniteSet(s) /\ IsFiniteSet(s \ {x}) /\ (\A y \in s : f[y] \in Nat) /\ (\A y \in s \ {x} : f[y] \in Nat)
    <3>1. s \ {x} \in SUBSET S
      OBVIOUS
    <3> QED BY <1>0, <3>1, FS_Subset
  <2>3. SumOn(f, s) = f[x] + SumOn(f, s \ {x}) /\ SumOn(f, s \ {x}) \in Nat
    BY <2>1, <2>2, SumStep
  <2>4. f[x] = daily[x].tokens /\ f[x] \in Nat
    BY <1>0, <2>1
  <2>5. SumOn(f, s) = SumOn(f, s \ {x}) + f[x]
    BY <2>3, <2>4
  <2>6. Added(Capped(SumOn(f, s \ {x})), f[x]) = Capped(SumOn(f, s \ {x}) + f[x])
    BY <2>3, <2>4, AddedCapped
  <2> QED BY <2>4, <2>5, <2>6 DEF x
<1>5. Is(w)
  <2>1. \A s \in SUBSET S : w[s] = IF s = {} THEN Zero ELSE step(w, s)
    BY <1>3, <1>4
  <2>2. w = [s \in SUBSET S |-> w[s]]
    OBVIOUS
  <2> HIDE DEF step, w
  <2>3. [s \in SUBSET S |-> w[s]] = [s \in SUBSET S |-> IF s = {} THEN Zero ELSE step(w, s)]
    BY <2>1
  <2> QED BY <2>2, <2>3, Zenon
<1> DEFINE h == CHOOSE h : Is(h)
<1>6. Is(h)
  BY <1>5, Zenon
<1> HIDE DEF h
<1>7. \A s \in SUBSET S : h[s] = IF s = {} THEN Zero ELSE step(h, s)
  <2> DEFINE body(g, s) == IF s = {} THEN Zero ELSE step(g, s)
  <2>1. h = [s \in SUBSET S |-> body(h, s)]
    BY <1>6
  <2> HIDE DEF body
  <2>2. \A s \in SUBSET S : h[s] = body(h, s)
    BY <2>1
  <2> QED BY <2>2 DEF body
<1>8. h[{}] = w[{}]
  BY <1>3, <1>7
<1>9. ASSUME NEW s \in SUBSET S, s # {} PROVE \E x \in s : h[s \ {x}] = w[s \ {x}] => h[s] = w[s]
  <2>1. some(s) \in s /\ w[s] = step(w, s) /\ h[s] = step(h, s)
    BY <1>2, <1>4, <1>7, <1>9
  <2> HIDE DEF w
  <2> QED BY <2>1
<1>10. h[S] = w[S]
  <2> HIDE DEF S, w, step
  <2>1. IsFiniteSet(S)
    BY DEF S
  <2> QED BY <1>8, <1>9, <2>1, SameRecursion
<1> QED BY <1>1, <1>10 DEF h, f

LEMMA TokensAreNat ==
  ASSUME NEW source \in Seq(Bucket), NEW days
  PROVE  /\ Tokens(source, days) \in Nat
         /\ \A d \in days : Tokens(source, {d}) <= Tokens(source, days)
<1> DEFINE f == [i \in DOMAIN source |-> source[i].tokens]
           at(D) == {i \in DOMAIN source : source[i].day \in D}
<1>1. IsFiniteSet(DOMAIN source) /\ \A i \in DOMAIN source : f[i] = source[i].tokens /\ source[i].tokens \in Nat
  BY SourceIs, MaxIsNat
<1> HIDE DEF f
<1>2. \A D : at(D) \in SUBSET DOMAIN source
  OBVIOUS
<1>3. \A D : \A i \in at(D) : f[i] \in Nat
  BY <1>1
<1> HIDE DEF at
<1>4. \A D : IsFiniteSet(at(D))
  BY <1>1, <1>2, FS_Subset
<1>5. \A D : SumOn(f, at(D)) \in Nat
  BY <1>3, <1>4, SumStep
<1>6. ASSUME NEW d \in days PROVE SumOn(f, at({d})) <= SumOn(f, at(days))
  <2>1. at({d}) \in SUBSET at(days)
    BY DEF at
  <2> QED BY <1>3, <1>4, <2>1, SumOfPart
<1> QED BY <1>5, <1>6 DEF Tokens, at, f

LEMMA CappedIs ==
  ASSUME NEW n \in Nat
  PROVE  /\ Capped(n).tokens \in 0..MaxTokens /\ Capped(n).tokens <= n
         /\ Capped(n).overflow <=> n > MaxTokens
         /\ ~(n > MaxTokens) => Capped(n).tokens = n
  BY MaxIsNat DEF Capped

\* Adding up day by day is adding up all.
LEMMA DaysAddUp ==
  ASSUME NEW source \in Seq(Bucket), NEW days, IsFiniteSet(days)
  PROVE  SumOn([d \in days |-> Tokens(source, {d})], days) = Tokens(source, days)
<1> DEFINE f == [i \in DOMAIN source |-> source[i].tokens]
           at(D) == {i \in DOMAIN source : source[i].day \in D}
           g == [d \in days |-> Tokens(source, {d})]
           w == [D \in SUBSET days |-> SumOn(g, D)]
           v == [D \in SUBSET days |-> Tokens(source, D)]
<1>1. \A d \in days : g[d] = Tokens(source, {d}) /\ g[d] \in Nat
  BY TokensAreNat
<1>2. \A D : Tokens(source, D) = SumOn(f, at(D))
  BY DEF Tokens
<1>3. IsFiniteSet(DOMAIN source) /\ \A i \in DOMAIN source : f[i] \in Nat
  <2>1. \A i \in DOMAIN source : f[i] = source[i].tokens
    OBVIOUS
  <2> HIDE DEF f
  <2> QED BY <2>1, SourceIs, MaxIsNat
<1> HIDE DEF g, f
<1>4. w[{}] = 0 /\ v[{}] = 0
  <2>1. at({}) = {}
    OBVIOUS
  <2> HIDE DEF at
  <2> QED BY <1>2, <2>1, SumEmpty
<1>5. ASSUME NEW D \in SUBSET days, D # {} PROVE \E x \in D : w[D \ {x}] = v[D \ {x}] => w[D] = v[D]
  <2>1. PICK x \in D : TRUE
    BY <1>5
  <2>2. SumOn(g, D) = g[x] + SumOn(g, D \ {x})
    <3>1. IsFiniteSet(D) /\ \A d \in D : g[d] \in Nat
      BY <1>1, FS_Subset
    <3> QED BY <2>1, <3>1, SumStep
  <2>3. SumOn(f, at(D)) = SumOn(f, at({x})) + SumOn(f, at(D \ {x}))
    <3> DEFINE S == at(D)
               A == at({x})
    <3>1. A \in SUBSET S /\ S \ A = at(D \ {x}) /\ S \in SUBSET DOMAIN source
      BY <2>1
    <3> HIDE DEF S, A, at
    <3>2. IsFiniteSet(S) /\ \A i \in S : f[i] \in Nat
      BY <1>3, <3>1, FS_Subset
    <3>3. SumOn(f, S) = SumOn(f, A) + SumOn(f, S \ A)
      BY <3>1, <3>2, SumUnion
    <3> QED BY <3>1, <3>3 DEF S, A
  <2>4. SumOn(f, at({x})) = g[x]
    BY <1>1, <1>2
  <2> HIDE DEF at
  <2>5. w[D] = SumOn(g, D) /\ w[D \ {x}] = SumOn(g, D \ {x})
        /\ v[D] = SumOn(f, at(D)) /\ v[D \ {x}] = SumOn(f, at(D \ {x}))
    BY <1>2
  <2> HIDE DEF w, v
  <2> QED BY <2>1, <2>2, <2>3, <2>4, <2>5
<1>6. w[days] = v[days]
  <2>1. \A D \in SUBSET days : D # {} => \E x \in D : w[D \ {x}] = v[D \ {x}] => w[D] = v[D]
    BY <1>5
  <2> HIDE DEF w, v
  <2>2. w[{}] = v[{}]
    BY <1>4
  <2> QED BY <2>1, <2>2, SameRecursion, Zenon
<1> QED BY <1>6 DEF g

\* The days that a range is about.
RangeDays(frame, source, day) ==
    IF frame = "all" THEN {source[i].day : i \in DOMAIN source} ELSE Window(frame, day)

Daily(frame, source, day) == [d \in RangeDays(frame, source, day) |-> Capped(Tokens(source, {d}))]

LEMMA RangeDaysAre ==
  ASSUME NEW source \in Seq(Bucket), NEW frame \in Timeframes, NEW day \in Int
  PROVE  /\ IsFiniteSet(RangeDays(frame, source, day))
         /\ RangeDays(frame, source, day) \subseteq Int
         /\ frame # "all" => Cardinality(RangeDays(frame, source, day)) = WindowDays[frame]
<1>1. CASE frame = "all"
  <2> DEFINE S == DOMAIN source
             date == [i \in S |-> source[i].day]
  <2>1. IsFiniteSet(S) /\ \A i \in S : source[i].day \in Days
    BY SourceIs
  <2>2. date \in Surjection(S, {source[i].day : i \in S})
    BY DEF Surjection
  <2> HIDE DEF date
  <2>3. IsFiniteSet({source[i].day : i \in S})
    BY <2>1, <2>2, FS_Surjection
  <2> QED BY <1>1, <2>1, <2>3, UsageRangeAssumption DEF RangeDays
<1>2. CASE frame # "all"
  <2>1. WindowDays[frame] \in Nat \ {0}
    BY <1>2, UsageRangeAssumption DEF Timeframes
  <2> DEFINE a == day - WindowDays[frame] + 1
  <2>2. a \in Int /\ a <= day /\ day - a + 1 = WindowDays[frame]
    BY <2>1
  <2> HIDE DEF a
  <2>3. IsFiniteSet(a..day) /\ Cardinality(a..day) = day - a + 1
    BY <2>2, FS_Interval
  <2> QED BY <1>2, <2>2, <2>3 DEF RangeDays, Window, a
<1> QED BY <1>1, <1>2

LEMMA NoBucketNoTokens ==
  ASSUME NEW source \in Seq(Bucket), NEW d, d \notin {source[i].day : i \in DOMAIN source}
  PROVE  Tokens(source, {d}) = 0
<1>1. {i \in DOMAIN source : source[i].day \in {d}} = {}
  OBVIOUS
<1> QED BY <1>1, SumEmpty DEF Tokens

\* UsageRange::at_date: each day of the range with what its buckets add up to.
LEMMA RangeIs ==
  ASSUME NEW source \in Seq(Bucket), NEW frame \in Timeframes, NEW day \in Int
  PROVE  LET D == RangeDays(frame, source, day)
             daily == Daily(frame, source, day)
             range == AtDate(frame, source, day)
             tokens == [d \in D |-> daily[d].tokens]
         IN  /\ range.tokens = tokens
             /\ range.days = IF frame = "all" THEN CalendarDays(daily, day) ELSE WindowDays[frame]
             /\ range.total = Capped(SumOn(tokens, D)).tokens
             /\ range.totalOverflow = Capped(SumOn(tokens, D)).overflow
             /\ range.mergeOverflow = \E d \in D : daily[d].overflow
<1> DEFINE D == RangeDays(frame, source, day)
           daily == Daily(frame, source, day)
           merged == Merged(source)
           made == IF frame = "all" THEN merged
                   ELSE [d \in Window(frame, day) |-> IF d \in DOMAIN merged THEN merged[d] ELSE Zero]
           total == FoldFunction(LAMBDA d, sum : Added(sum, d.tokens), Zero, daily)
           tokens == [d \in D |-> daily[d].tokens]
<1>1. DOMAIN merged = {source[i].day : i \in DOMAIN source}
  BY DEF Merged
<1>2. \A d \in DOMAIN merged : merged[d] = Capped(Tokens(source, {d}))
  BY <1>1, DayIsCapped
<1>3. merged = [d \in {source[i].day : i \in DOMAIN source} |-> merged[d]]
  BY Zenon DEF Merged
<1> HIDE DEF merged
<1>4. made = daily
  <2>1. CASE frame = "all"
    <3>1. [d \in {source[i].day : i \in DOMAIN source} |-> merged[d]]
            = [d \in {source[i].day : i \in DOMAIN source} |-> Capped(Tokens(source, {d}))]
      BY <1>1, <1>2
    <3> QED BY <1>3, <2>1, <3>1, Zenon DEF Daily, RangeDays
  <2>2. CASE frame # "all"
    <3>1. \A d : d \notin DOMAIN merged => Zero = Capped(Tokens(source, {d}))
      BY <1>1, NoBucketNoTokens, ZeroIsCapped
    <3>2. \A d \in Window(frame, day) : (IF d \in DOMAIN merged THEN merged[d] ELSE Zero) = Capped(Tokens(source, {d}))
      BY <1>2, <3>1
    <3> QED BY <2>2, <3>2 DEF Daily, RangeDays
  <2> QED BY <2>1, <2>2
<1>5. DOMAIN daily = D /\ \A d \in D : daily[d] = Capped(Tokens(source, {d}))
  BY DEF Daily
<1>6. \A d \in D : daily[d].tokens \in Nat
  <2>1. \A d : Tokens(source, {d}) \in Nat
    BY TokensAreNat
  <2>2. \A d : Capped(Tokens(source, {d})).tokens \in Nat
    BY <2>1, CappedIs, MaxIsNat
  <2> QED BY <1>5, <2>2
<1> HIDE DEF D, daily
<1>7. total = Capped(SumOn(tokens, D))
  <2>1. IsFiniteSet(D)
    BY RangeDaysAre DEF D
  <2> QED BY <1>5, <1>6, <2>1, TotalIsCapped
<1>8. AtDate(frame, source, day)
        = [tokens |-> [d \in DOMAIN made |-> made[d].tokens],
           days |-> IF frame = "all" THEN CalendarDays(made, day) ELSE WindowDays[frame],
           total |-> FoldFunction(LAMBDA d, sum : Added(sum, d.tokens), Zero, made).tokens,
           totalOverflow |-> FoldFunction(LAMBDA d, sum : Added(sum, d.tokens), Zero, made).overflow,
           mergeOverflow |-> \E d \in DOMAIN made : made[d].overflow]
  BY Zenon DEF AtDate, merged
<1> HIDE DEF made
<1>9. AtDate(frame, source, day)
        = [tokens |-> tokens,
           days |-> IF frame = "all" THEN CalendarDays(daily, day) ELSE WindowDays[frame],
           total |-> Capped(SumOn(tokens, D)).tokens,
           totalOverflow |-> Capped(SumOn(tokens, D)).overflow,
           mergeOverflow |-> \E d \in D : daily[d].overflow]
  BY <1>4, <1>5, <1>7, <1>8, Zenon
<1> HIDE DEF tokens
<1>10. LET range == AtDate(frame, source, day)
       IN  /\ range.tokens = tokens
           /\ range.days = IF frame = "all" THEN CalendarDays(daily, day) ELSE WindowDays[frame]
           /\ range.total = Capped(SumOn(tokens, D)).tokens
           /\ range.totalOverflow = Capped(SumOn(tokens, D)).overflow
           /\ range.mergeOverflow = \E d \in D : daily[d].overflow
  BY <1>9
<1> QED BY <1>10, Zenon DEF D, daily, tokens

\* A range overflows exactly when what it covers adds up to more than fits,
\* and otherwise shows what its days and all of them add up to.
LEMMA RangeIsExact ==
  ASSUME NEW source \in Seq(Bucket), NEW frame \in Timeframes, NEW day \in Int
  PROVE  LET D == RangeDays(frame, source, day)
             range == AtDate(frame, source, day)
         IN  /\ DOMAIN range.tokens = D /\ \A d \in D : range.tokens[d] \in 0..MaxTokens
             /\ range.total \in 0..MaxTokens
             /\ Overflowed(range) <=> Tokens(source, D) > MaxTokens
             /\ ~range.mergeOverflow => \A d \in D : range.tokens[d] = Tokens(source, {d})
             /\ ~Overflowed(range) => range.total = Tokens(source, D)
             /\ ~Overflowed(range) => range.total = SumOn(range.tokens, D)
<1> DEFINE D == RangeDays(frame, source, day)
           daily == Daily(frame, source, day)
           range == AtDate(frame, source, day)
           tokens == [d \in D |-> daily[d].tokens]
           sum == SumOn(tokens, D)
<1>1. /\ range.tokens = tokens /\ range.total = Capped(sum).tokens
      /\ range.totalOverflow = Capped(sum).overflow
      /\ range.mergeOverflow = \E d \in D : daily[d].overflow
  BY RangeIs
<1>2. IsFiniteSet(D)
  BY RangeDaysAre
<1>3. \A d \in D : Tokens(source, {d}) \in Nat /\ Tokens(source, {d}) <= Tokens(source, D)
  BY TokensAreNat
<1>4. Tokens(source, D) \in Nat
  BY TokensAreNat
<1>5. ASSUME NEW d \in D
      PROVE  /\ tokens[d] \in 0..MaxTokens /\ tokens[d] = daily[d].tokens
             /\ daily[d].overflow <=> Tokens(source, {d}) > MaxTokens
             /\ ~daily[d].overflow => tokens[d] = Tokens(source, {d})
  <2>1. daily[d] = Capped(Tokens(source, {d})) /\ tokens[d] = daily[d].tokens
    BY DEF Daily
  <2>2. Tokens(source, {d}) \in Nat
    BY <1>3
  <2> HIDE DEF D, daily, tokens
  <2> QED BY <2>1, <2>2, CappedIs
<1>6. DOMAIN tokens = D
  OBVIOUS
<1>7. sum \in Nat
  <2> HIDE DEF D, daily, tokens
  <2>1. ASSUME NEW d \in D PROVE tokens[d] \in Nat
    <3>1. tokens[d] \in 0..MaxTokens
      BY <1>5
    <3> QED BY <3>1, MaxIsNat
  <2> QED BY <1>2, <2>1, SumStep
<1> DEFINE days == [d \in D |-> Tokens(source, {d})]
<1>8. SumOn(days, D) = Tokens(source, D)
  BY <1>2, DaysAddUp
<1>9. ~range.mergeOverflow => tokens = days
  <2>1. tokens = [d \in D |-> tokens[d]]
    OBVIOUS
  <2> HIDE DEF D, daily, tokens, range
  <2> SUFFICES ASSUME ~range.mergeOverflow PROVE tokens = days
    OBVIOUS
  <2>2. \A d \in D : tokens[d] = Tokens(source, {d})
    BY <1>1, <1>5
  <2>3. [d \in D |-> tokens[d]] = days
    BY <2>2
  <2> QED BY <2>1, <2>3
<1>10. \A d \in D : days[d] = Tokens(source, {d})
  OBVIOUS
<1> HIDE DEF D, daily, tokens, range, days
<1>11. range.mergeOverflow => Tokens(source, D) > MaxTokens
  <2> SUFFICES ASSUME range.mergeOverflow PROVE Tokens(source, D) > MaxTokens
    OBVIOUS
  <2>1. PICK d \in D : daily[d].overflow
    BY <1>1
  <2>2. Tokens(source, {d}) > MaxTokens
    BY <1>5, <2>1
  <2> QED BY <1>3, <1>4, <2>2, MaxIsNat
<1>12. ~range.mergeOverflow => sum = Tokens(source, D)
  BY <1>8, <1>9
<1> HIDE DEF sum
<1>13. /\ Capped(sum).tokens \in 0..MaxTokens /\ (Capped(sum).overflow <=> sum > MaxTokens)
       /\ (~(sum > MaxTokens) => Capped(sum).tokens = sum)
  BY <1>7, CappedIs
<1>14. Overflowed(range) <=> Tokens(source, D) > MaxTokens
  BY <1>1, <1>11, <1>12, <1>13 DEF Overflowed
<1>15. ~Overflowed(range) => range.total = sum /\ sum = Tokens(source, D)
  BY <1>1, <1>12, <1>13 DEF Overflowed
<1>16. /\ DOMAIN range.tokens = D /\ \A d \in D : range.tokens[d] \in 0..MaxTokens
       /\ range.total \in 0..MaxTokens
       /\ Overflowed(range) <=> Tokens(source, D) > MaxTokens
       /\ ~range.mergeOverflow => \A d \in D : range.tokens[d] = Tokens(source, {d})
       /\ ~Overflowed(range) => range.total = Tokens(source, D)
       /\ ~Overflowed(range) => range.total = SumOn(range.tokens, D)
  <2>1. ~Overflowed(range) => range.total = SumOn(range.tokens, D)
    BY <1>1, <1>15 DEF sum
  <2>2. ~range.mergeOverflow => \A d \in D : range.tokens[d] = Tokens(source, {d})
    BY <1>1, <1>9, <1>10
  <2>3. DOMAIN range.tokens = D /\ (\A d \in D : range.tokens[d] \in 0..MaxTokens) /\ range.total \in 0..MaxTokens
    BY <1>1, <1>5, <1>6, <1>13
  <2> QED BY <1>14, <1>15, <2>1, <2>2, <2>3
<1> QED BY <1>16, Zenon DEF D, range

LEMMA PeakIs ==
  ASSUME NEW range, IsFiniteSet(DOMAIN range.tokens), \A d \in DOMAIN range.tokens : range.tokens[d] \in Nat
  PROVE  /\ Peak(range) \in Nat
         /\ \A d \in DOMAIN range.tokens : range.tokens[d] <= Peak(range)
         /\ Peak(range) = 0 \/ \E d \in DOMAIN range.tokens : Peak(range) = range.tokens[d]
<1> DEFINE D == DOMAIN range.tokens
           values == {range.tokens[d] : d \in D}
           S == values \cup {0}
           at == [d \in D |-> range.tokens[d]]
<1>1. at \in Surjection(D, values)
  BY DEF Surjection
<1> HIDE DEF at
<1>2. IsFiniteSet(values)
  BY <1>1, FS_Surjection
<1>3. S \subseteq Int /\ S # {} /\ 0 \in S /\ \A d \in D : range.tokens[d] \in S
  OBVIOUS
<1>4. IsFiniteSet(S)
  <2> HIDE DEF values
  <2> QED BY <1>2, FS_AddElement
<1>5. Peak(range) = Max(S)
  BY DEF Peak
<1>6. \A v \in S : v = 0 \/ \E d \in D : v = range.tokens[d]
  OBVIOUS
<1>7. \A v \in S : v \in Nat
  OBVIOUS
<1> HIDE DEF S
<1>8. Max(S) \in S /\ \A v \in S : Max(S) >= v
  BY <1>3, <1>4, GreatestIs
<1> QED BY <1>3, <1>5, <1>6, <1>7, <1>8

-----------------------------------------------------------------------------
(* The decoder. *)

\* The powers of ten up to n.
Powers(p, n) == p \in [0..n -> Nat \ {0}] /\ p[0] = 1 /\ \A i \in 1..n : p[i] = 10 * p[i - 1]

LEMMA PowersExist == \A n \in Nat : \E p : Powers(p, n)
<1> DEFINE P == {n \in Nat : \E p : Powers(p, n)}
<1>1. 0 \in P
  <2>1. Powers([i \in 0..0 |-> 1], 0)
    BY DEF Powers
  <2> QED BY <2>1
<1>2. ASSUME NEW n \in Nat, n \in P PROVE n + 1 \in P
  <2>1. PICK p : Powers(p, n)
    BY <1>2
  <2> DEFINE q == [i \in 0..(n + 1) |-> IF i = n + 1 THEN 10 * p[n] ELSE p[i]]
  <2>2. p \in [0..n -> Nat \ {0}] /\ p[0] = 1 /\ \A i \in 1..n : p[i] = 10 * p[i - 1]
    BY <2>1 DEF Powers
  <2>3. q \in [0..(n + 1) -> Nat \ {0}] /\ q[0] = 1
    BY <2>2
  <2>4. ASSUME NEW i \in 1..(n + 1) PROVE q[i] = 10 * q[i - 1]
    BY <2>2
  <2>5. Powers(q, n + 1)
    BY <2>3, <2>4 DEF Powers
  <2> QED BY <2>5
<1> HIDE DEF P
<1>3. Nat \subseteq P
  BY <1>1, <1>2, NumberInduction
<1> QED BY <1>3 DEF P

LEMMA PowersAgree ==
  ASSUME NEW n \in Nat, NEW m \in Nat, n <= m, NEW p, NEW q, Powers(p, n), Powers(q, m)
  PROVE  \A i \in 0..n : p[i] = q[i]
<1> DEFINE P == {i \in Nat : i <= n => p[i] = q[i]}
<1>1. 0 \in P
  BY DEF Powers
<1>2. ASSUME NEW i \in Nat, i \in P PROVE i + 1 \in P
  <2> SUFFICES ASSUME i + 1 <= n PROVE p[i + 1] = q[i + 1]
    OBVIOUS
  <2>1. i + 1 \in 1..n /\ i + 1 \in 1..m /\ i + 1 - 1 = i /\ p[i] = q[i]
    BY <1>2
  <2>2. p[i + 1] = 10 * p[i] /\ q[i + 1] = 10 * q[i]
    BY <2>1 DEF Powers
  <2> QED BY <2>1, <2>2
<1> HIDE DEF P
<1>3. Nat \subseteq P
  BY <1>1, <1>2, NumberInduction
<1> QED BY <1>3 DEF P

LEMMA TenToIs ==
  /\ TenTo[0] = 1
  /\ \A n \in Nat : TenTo[n] \in Nat \ {0} /\ TenTo[n + 1] = 10 * TenTo[n]
<1> DEFINE some(n) == CHOOSE p : Powers(p, n)
           w == [n \in Nat |-> some(n)[n]]
           Is(h) == h = [n \in Nat |-> IF n = 0 THEN 1 ELSE 10 * h[n - 1]]
<1>1. \A n \in Nat : Powers(some(n), n)
  BY PowersExist, Zenon
<1> HIDE DEF some
<1>2. w[0] = 1 /\ \A n \in Nat : w[n] \in Nat \ {0}
  BY <1>1 DEF Powers
<1>3. ASSUME NEW n \in Nat PROVE w[n + 1] = 10 * w[n]
  <2>1. Powers(some(n), n) /\ Powers(some(n + 1), n + 1)
    BY <1>1
  <2>2. some(n)[n] = some(n + 1)[n]
    BY <2>1, PowersAgree
  <2>3. some(n + 1)[n + 1] = 10 * some(n + 1)[n]
    <3>1. n + 1 \in 1..(n + 1) /\ n + 1 - 1 = n
      OBVIOUS
    <3> QED BY <2>1, <3>1 DEF Powers
  <2> QED BY <2>2, <2>3
<1>4. Is(w)
  <2>1. \A n \in Nat : w[n] = IF n = 0 THEN 1 ELSE 10 * w[n - 1]
    <3> HIDE DEF w
    <3> TAKE n \in Nat
    <3>1. CASE n = 0
      BY <1>2, <3>1
    <3>2. CASE n # 0
      <4>1. n - 1 \in Nat /\ n - 1 + 1 = n
        BY <3>2
      <4> QED BY <1>3, <3>2, <4>1
    <3> QED BY <3>1, <3>2
  <2>2. w = [n \in Nat |-> w[n]]
    OBVIOUS
  <2> HIDE DEF w
  <2>3. [n \in Nat |-> w[n]] = [n \in Nat |-> IF n = 0 THEN 1 ELSE 10 * w[n - 1]]
    BY <2>1
  <2> QED BY <2>2, <2>3, Zenon
<1>5. TenTo = CHOOSE h : Is(h)
  BY Zenon DEF TenTo
<1>6. Is(TenTo)
  BY <1>4, <1>5, Zenon
<1>7. \A n \in Nat : TenTo[n] = IF n = 0 THEN 1 ELSE 10 * TenTo[n - 1]
  <2> DEFINE g == TenTo
             body(n) == IF n = 0 THEN 1 ELSE 10 * g[n - 1]
  <2>1. g = [n \in Nat |-> body(n)]
    BY <1>6
  <2> HIDE DEF body, g
  <2>2. \A n \in Nat : g[n] = body(n)
    BY <2>1
  <2> QED BY <2>2 DEF body, g
<1> DEFINE g == TenTo
           P == {n \in Nat : g[n] \in Nat \ {0} /\ g[n + 1] = 10 * g[n]}
<1> HIDE DEF g
<1>8. g[0] = 1 /\ \A n \in Nat : g[n + 1] = 10 * g[n]
  BY <1>7 DEF g
<1>9. 0 \in P
  BY <1>8
<1>10. ASSUME NEW n \in Nat, n \in P PROVE n + 1 \in P
  BY <1>8, <1>10
<1> HIDE DEF P
<1>11. Nat \subseteq P
  BY <1>9, <1>10, NumberInduction
<1> QED BY <1>8, <1>11 DEF P, g

\* Reading digits one after the other.
Reads(num, digits) ==
  /\ num \in [0..Len(digits) -> Nat] /\ num[0] = 0
  /\ \A i \in 1..Len(digits) : num[i] = 10 * num[i - 1] + digits[i]

LEMMA ReadsExist ==
  ASSUME NEW digits \in Seq(0..9)
  PROVE  \E num : Reads(num, digits)
<1> DEFINE L == Len(digits)
           Upto(num, n) == /\ num \in [0..n -> Nat] /\ num[0] = 0
                           /\ \A i \in 1..n : num[i] = 10 * num[i - 1] + digits[i]
           P == {n \in Nat : n <= L => \E num : Upto(num, n)}
<1>0. L \in Nat /\ \A i \in 1..L : digits[i] \in 0..9
  OBVIOUS
<1>1. 0 \in P
  <2>1. Upto([i \in 0..0 |-> 0], 0)
    OBVIOUS
  <2> QED BY <2>1
<1>2. ASSUME NEW n \in Nat, n \in P PROVE n + 1 \in P
  <2> SUFFICES ASSUME n + 1 <= L PROVE \E num : Upto(num, n + 1)
    OBVIOUS
  <2>0. n <= L
    BY <1>0
  <2>1. PICK p : Upto(p, n)
    <3> HIDE DEF Upto, L
    <3> QED BY <1>2, <2>0
  <2> DEFINE v == 10 * p[n] + digits[n + 1]
             q == [i \in 0..(n + 1) |-> IF i = n + 1 THEN v ELSE p[i]]
  <2>2. p \in [0..n -> Nat] /\ p[0] = 0 /\ \A i \in 1..n : p[i] = 10 * p[i - 1] + digits[i]
    BY <2>1
  <2>3. v \in Nat
    <3>1. n + 1 \in 1..L
      BY <1>0
    <3>2. digits[n + 1] \in 0..9
      BY <1>0, <3>1
    <3>3. p[n] \in Nat
      BY <2>2
    <3> QED BY <3>2, <3>3
  <2>4. q \in [0..(n + 1) -> Nat] /\ q[0] = 0
    <3> HIDE DEF v
    <3> QED BY <2>2, <2>3
  <2>5. ASSUME NEW i \in 1..(n + 1) PROVE q[i] = 10 * q[i - 1] + digits[i]
    <3>1. CASE i = n + 1
      BY <3>1
    <3>2. CASE i # n + 1
      BY <2>2, <3>2
    <3> QED BY <3>1, <3>2
  <2>6. Upto(q, n + 1)
    BY <2>4, <2>5
  <2> QED BY <2>6
<1> HIDE DEF P
<1>3. Nat \subseteq P
  BY <1>1, <1>2, NumberInduction
<1>4. \E num : Upto(num, L)
  <2> HIDE DEF Upto, L
  <2> QED BY <1>0, <1>3 DEF P
<1> QED BY <1>4 DEF Reads

LEMMA ReadsAgree ==
  ASSUME NEW d \in Seq(0..9), NEW e \in Seq(0..9), NEW a, NEW b, Reads(a, d), Reads(b, e),
         NEW n \in Nat, n <= Len(d), n <= Len(e), \A i \in 1..n : d[i] = e[i]
  PROVE  \A i \in 0..n : a[i] = b[i]
<1> DEFINE P == {i \in Nat : i <= n => a[i] = b[i]}
<1>1. 0 \in P
  BY DEF Reads
<1>2. ASSUME NEW i \in Nat, i \in P PROVE i + 1 \in P
  <2> SUFFICES ASSUME i + 1 <= n PROVE a[i + 1] = b[i + 1]
    OBVIOUS
  <2>1. Len(d) \in Nat /\ Len(e) \in Nat
    OBVIOUS
  <2>2. i + 1 \in 1..Len(d) /\ i + 1 \in 1..Len(e) /\ i + 1 \in 1..n /\ i + 1 - 1 = i /\ a[i] = b[i]
    BY <1>2, <2>1
  <2>3. a[i + 1] = 10 * a[i] + d[i + 1] /\ b[i + 1] = 10 * b[i] + e[i + 1]
    BY <2>2 DEF Reads
  <2> QED BY <2>2, <2>3
<1> HIDE DEF P
<1>3. Nat \subseteq P
  BY <1>1, <1>2, NumberInduction
<1> QED BY <1>3 DEF P

\* What a fold makes of the digits at some of the places.
Value(h, digits) ==
  /\ h \in [SUBSET DOMAIN digits -> Nat] /\ h[{}] = 0
  /\ \A s \in SUBSET DOMAIN digits : s # {} => h[s] = 10 * h[s \ {Max(s)}] + digits[Max(s)]

LEMMA PlacesAre ==
  ASSUME NEW digits \in Seq(0..9)
  PROVE  /\ IsFiniteSet(DOMAIN digits) /\ DOMAIN digits = 1..Len(digits) /\ Len(digits) \in Nat
         /\ \A i \in DOMAIN digits : digits[i] \in 0..9
         /\ \A s \in SUBSET DOMAIN digits : s # {} => Max(s) \in s /\ \A i \in s : Max(s) >= i
<1>1. DOMAIN digits = 1..Len(digits) /\ Len(digits) \in Nat /\ \A i \in DOMAIN digits : digits[i] \in 0..9
  OBVIOUS
<1>2. IsFiniteSet(DOMAIN digits)
  BY <1>1, FS_Interval
<1>3. ASSUME NEW s \in SUBSET DOMAIN digits, s # {} PROVE Max(s) \in s /\ \A i \in s : Max(s) >= i
  <2>1. IsFiniteSet(s)
    BY <1>2, FS_Subset
  <2>2. s \subseteq Int
    BY <1>1
  <2> QED BY <1>3, <2>1, <2>2, GreatestIs
<1> QED BY <1>1, <1>2, <1>3

LEMMA ValueExists ==
  ASSUME NEW digits \in Seq(0..9)
  PROVE  \E h : Value(h, digits)
<1> DEFINE L == Len(digits)
           Upto(h, n) == /\ h \in [SUBSET (1..n) -> Nat] /\ h[{}] = 0
                         /\ \A s \in SUBSET (1..n) : s # {} => h[s] = 10 * h[s \ {Max(s)}] + digits[Max(s)]
           P == {n \in Nat : n <= L => \E h : Upto(h, n)}
<1>0. /\ L \in Nat /\ DOMAIN digits = 1..L /\ \A i \in 1..L : digits[i] \in 0..9
      /\ \A s \in SUBSET (1..L) : s # {} => Max(s) \in s /\ \A i \in s : Max(s) >= i
  <2>1. DOMAIN digits = 1..L
    BY PlacesAre
  <2> QED BY <2>1, PlacesAre
<1> HIDE DEF L
<1>1. 0 \in P
  <2>1. Upto([s \in SUBSET (1..0) |-> 0], 0)
    <3>1. 1..0 = {}
      OBVIOUS
    <3> QED BY <3>1
  <2> QED BY <2>1
<1>2. ASSUME NEW n \in Nat, n \in P PROVE n + 1 \in P
  <2> SUFFICES ASSUME n + 1 <= L PROVE \E h : Upto(h, n + 1)
    <3> HIDE DEF Upto
    <3> QED OBVIOUS
  <2>0. n <= L
    BY <1>0
  <2>1. PICK h : Upto(h, n)
    <3> HIDE DEF Upto
    <3> QED BY <1>2, <2>0
  <2> DEFINE k == n + 1
             q == [s \in SUBSET (1..k) |-> IF k \in s THEN 10 * h[s \ {k}] + digits[k] ELSE h[s]]
  <2>2. /\ h \in [SUBSET (1..n) -> Nat] /\ h[{}] = 0
        /\ \A s \in SUBSET (1..n) : s # {} => h[s] = 10 * h[s \ {Max(s)}] + digits[Max(s)]
    BY <2>1
  <2>3. digits[k] \in 0..9 /\ 1..k \subseteq 1..L
    <3>1. 1..k \subseteq 1..L /\ k \in 1..L
      BY <1>0
    <3> QED BY <1>0, <3>1
  <2>4. \A s \in SUBSET (1..k) : s \ {k} \in SUBSET (1..n) /\ (k \notin s => s \in SUBSET (1..n))
    OBVIOUS
  <2> HIDE DEF k
  <2>5. q \in [SUBSET (1..k) -> Nat] /\ q[{}] = 0
    <3>1. \A s \in SUBSET (1..k) : (k \in s => h[s \ {k}] \in Nat) /\ (k \notin s => h[s] \in Nat)
      BY <2>2, <2>4
    <3>2. \A s \in SUBSET (1..k) : k \in s => 10 * h[s \ {k}] + digits[k] \in Nat
      <4>1. ASSUME NEW a \in Nat, NEW b \in 0..9 PROVE 10 * a + b \in Nat
        OBVIOUS
      <4> QED BY <2>3, <3>1, <4>1
    <3> QED BY <2>2, <3>1, <3>2
  <2>6. ASSUME NEW s \in SUBSET (1..k), s # {} PROVE q[s] = 10 * q[s \ {Max(s)}] + digits[Max(s)]
    <3>1. s \in SUBSET (1..L)
      BY <2>3
    <3>2. Max(s) \in s /\ \A i \in s : Max(s) >= i
      BY <1>0, <2>6, <3>1
    <3>3. CASE k \in s
      <4>1. Max(s) = k
        <5>1. Max(s) \in 1..k /\ Max(s) >= k
          BY <3>2, <3>3
        <5> QED BY <5>1 DEF k
      <4>2. q[s \ {k}] = h[s \ {k}]
        OBVIOUS
      <4> QED BY <3>3, <4>1, <4>2
    <3>4. CASE k \notin s
      <4>1. q[s] = h[s] /\ q[s \ {Max(s)}] = h[s \ {Max(s)}]
        BY <3>4
      <4> HIDE DEF q
      <4> QED BY <2>2, <2>4, <2>6, <3>4, <4>1
    <3> QED BY <3>3, <3>4
  <2> HIDE DEF q
  <2>7. Upto(q, k)
    BY <2>5, <2>6
  <2> QED BY <2>7 DEF k
<1> HIDE DEF P
<1>3. Nat \subseteq P
  BY <1>1, <1>2, NumberInduction
<1>4. \E h : Upto(h, L)
  <2> HIDE DEF Upto
  <2> QED BY <1>0, <1>3 DEF P
<1> QED BY <1>0, <1>4 DEF Value

\* A number that may be too large.
Checked(n) == IF n > MaxTokens THEN None ELSE n

LEMMA NumberIsValue ==
  ASSUME NEW digits \in Seq(0..9), NEW v, Value(v, digits)
  PROVE  Number(digits) = v[DOMAIN digits]
<1> DEFINE S == DOMAIN digits
           step(g, s) == 10 * g[s \ {Max(s)}] + digits[Max(s)]
           Is(h) == h = [s \in SUBSET S |-> IF s = {} THEN 0 ELSE step(h, s)]
<1>1. Number(digits) = (CHOOSE h : Is(h))[S]
  BY Zenon DEF Number, FoldLeft, MapThenFoldSet
<1>2. \A s \in SUBSET S : s # {} => Max(s) \in s
  BY PlacesAre
<1>3. Is(v)
  <2>1. \A s \in SUBSET S : v[s] = IF s = {} THEN 0 ELSE step(v, s)
    BY DEF Value
  <2>2. v = [s \in SUBSET S |-> v[s]]
    BY DEF Value
  <2> HIDE DEF step, S
  <2>3. [s \in SUBSET S |-> v[s]] = [s \in SUBSET S |-> IF s = {} THEN 0 ELSE step(v, s)]
    BY <2>1
  <2> QED BY <2>2, <2>3, Zenon
<1> DEFINE h == CHOOSE h : Is(h)
<1>4. Is(h)
  BY <1>3, Zenon
<1> HIDE DEF h
<1>5. \A s \in SUBSET S : h[s] = IF s = {} THEN 0 ELSE step(h, s)
  <2> DEFINE body(g, s) == IF s = {} THEN 0 ELSE step(g, s)
  <2>1. h = [s \in SUBSET S |-> body(h, s)]
    BY <1>4
  <2> HIDE DEF body
  <2>2. \A s \in SUBSET S : h[s] = body(h, s)
    BY <2>1
  <2> QED BY <2>2 DEF body
<1>6. h[{}] = v[{}]
  BY <1>5 DEF Value
<1>7. ASSUME NEW s \in SUBSET S, s # {} PROVE \E x \in s : h[s \ {x}] = v[s \ {x}] => h[s] = v[s]
  <2>1. Max(s) \in s /\ v[s] = step(v, s) /\ h[s] = step(h, s)
    BY <1>2, <1>5, <1>7 DEF Value
  <2> QED BY <2>1
<1>8. h[S] = v[S]
  <2>1. IsFiniteSet(S)
    BY PlacesAre
  <2> HIDE DEF S
  <2> QED BY <1>6, <1>7, <2>1, SameRecursion
<1> QED BY <1>1, <1>8 DEF h

\* The checked multiplications and additions fail exactly when the number is
\* too large, whatever digits come after.
LEMMA ParsedIsValue ==
  ASSUME NEW digits \in Seq(0..9), NEW v, Value(v, digits)
  PROVE  Parsed(digits) = Checked(v[DOMAIN digits])
<1> DEFINE S == DOMAIN digits
           next(n, d) == IF n = None THEN None ELSE IF 10 * n + d > MaxTokens THEN None ELSE 10 * n + d
           w == [s \in SUBSET S |-> Checked(v[s])]
           step(g, s) == next(g[s \ {Max(s)}], digits[Max(s)])
           Is(h) == h = [s \in SUBSET S |-> IF s = {} THEN 0 ELSE step(h, s)]
<1>1. Parsed(digits) = (CHOOSE h : Is(h))[S]
  BY Zenon DEF Parsed, FoldLeft, MapThenFoldSet
<1>2. \A s \in SUBSET S : s # {} => Max(s) \in s
  BY PlacesAre
<1>3. ASSUME NEW n \in Nat, NEW d \in 0..9 PROVE next(Checked(n), d) = Checked(10 * n + d)
  <2>1. CASE n > MaxTokens
    BY <2>1, MaxIsNat DEF Checked
  <2>2. CASE ~(n > MaxTokens)
    BY <2>2, MaxIsNat, NoneIsNoNumber DEF Checked
  <2> QED BY <2>1, <2>2
<1> HIDE DEF next
<1>4. w[{}] = 0
  BY MaxIsNat DEF Value, Checked
<1>5. ASSUME NEW s \in SUBSET S, s # {} PROVE w[s] = step(w, s)
  <2> DEFINE x == Max(s)
  <2>1. x \in s /\ digits[x] \in 0..9
    BY <1>2, <1>5, PlacesAre
  <2>2. v[s] = 10 * v[s \ {x}] + digits[x]
    BY <1>5 DEF Value
  <2>3. v[s \ {x}] \in Nat
    BY DEF Value
  <2>4. w[s] = Checked(v[s]) /\ w[s \ {x}] = Checked(v[s \ {x}])
    OBVIOUS
  <2> HIDE DEF w, x
  <2>5. next(Checked(v[s \ {x}]), digits[x]) = Checked(10 * v[s \ {x}] + digits[x])
    BY <1>3, <2>1, <2>3
  <2> QED BY <2>2, <2>4, <2>5 DEF x
<1>6. Is(w)
  <2>1. \A s \in SUBSET S : w[s] = IF s = {} THEN 0 ELSE step(w, s)
    BY <1>4, <1>5
  <2>2. w = [s \in SUBSET S |-> w[s]]
    OBVIOUS
  <2> HIDE DEF step, S, w
  <2>3. [s \in SUBSET S |-> w[s]] = [s \in SUBSET S |-> IF s = {} THEN 0 ELSE step(w, s)]
    BY <2>1
  <2> QED BY <2>2, <2>3, Zenon
<1> DEFINE h == CHOOSE h : Is(h)
<1>7. Is(h)
  BY <1>6, Zenon
<1> HIDE DEF h
<1>8. \A s \in SUBSET S : h[s] = IF s = {} THEN 0 ELSE step(h, s)
  <2> DEFINE body(g, s) == IF s = {} THEN 0 ELSE step(g, s)
  <2>1. h = [s \in SUBSET S |-> body(h, s)]
    BY <1>7
  <2> HIDE DEF body
  <2>2. \A s \in SUBSET S : h[s] = body(h, s)
    BY <2>1
  <2> QED BY <2>2 DEF body
<1>9. h[{}] = w[{}]
  BY <1>4, <1>8
<1>10. ASSUME NEW s \in SUBSET S, s # {} PROVE \E x \in s : h[s \ {x}] = w[s \ {x}] => h[s] = w[s]
  <2>1. Max(s) \in s /\ w[s] = step(w, s) /\ h[s] = step(h, s)
    BY <1>2, <1>5, <1>8, <1>10
  <2> HIDE DEF w
  <2> QED BY <2>1
<1>11. h[S] = w[S]
  <2>1. IsFiniteSet(S)
    BY PlacesAre
  <2> HIDE DEF S, w, step
  <2> QED BY <1>9, <1>10, <2>1, SameRecursion
<1> QED BY <1>1, <1>11 DEF h

\* The number is what reading its digits one after the other yields.
LEMMA DigitsRead ==
  ASSUME NEW digits \in Seq(0..9), NEW num, Reads(num, digits)
  PROVE  Number(digits) = num[Len(digits)] /\ Parsed(digits) = Checked(num[Len(digits)])
<1> DEFINE L == Len(digits)
<1>1. PICK v : Value(v, digits)
  BY ValueExists
<1>2. L \in Nat /\ DOMAIN digits = 1..L
  BY PlacesAre
<1> DEFINE P == {n \in Nat : n <= L => num[n] = v[1..n]}
<1>3. 0 \in P
  <2>1. 1..0 = {}
    OBVIOUS
  <2> QED BY <1>1, <2>1 DEF Value, Reads
<1>4. ASSUME NEW n \in Nat, n \in P PROVE n + 1 \in P
  <2> SUFFICES ASSUME n + 1 <= L PROVE num[n + 1] = v[1..(n + 1)]
    OBVIOUS
  <2> DEFINE s == 1..(n + 1)
  <2>1. s \in SUBSET DOMAIN digits /\ s # {} /\ n + 1 \in s /\ s \ {n + 1} = 1..n
    <3> HIDE DEF L
    <3>1. n + 1 \in s /\ s \subseteq 1..L
      BY <1>2
    <3>2. s \ {n + 1} = 1..n
      OBVIOUS
    <3> QED BY <1>2, <3>1, <3>2
  <2>2. Max(s) = n + 1
    <3>1. Max(s) \in s /\ Max(s) >= n + 1
      <4> HIDE DEF s
      <4> QED BY <2>1, PlacesAre
    <3> QED BY <3>1
  <2>3. n + 1 \in 1..L /\ n + 1 - 1 = n /\ n <= L
    BY <1>2
  <2>4. num[n + 1] = 10 * num[n] + digits[n + 1]
    BY <2>3 DEF Reads
  <2> HIDE DEF s
  <2>5. v[s] = 10 * v[1..n] + digits[n + 1]
    BY <1>1, <2>1, <2>2 DEF Value
  <2> QED BY <1>4, <2>3, <2>4, <2>5 DEF s
<1> HIDE DEF P
<1>5. Nat \subseteq P
  BY <1>3, <1>4, NumberInduction
<1>6. num[L] = v[DOMAIN digits]
  BY <1>2, <1>5 DEF P
<1> QED BY <1>1, <1>6, NumberIsValue, ParsedIsValue

\* Zeros at the end multiply by a power of ten.
LEMMA ZerosAppended ==
  ASSUME NEW digits \in Seq(0..9), NEW k \in Nat
  PROVE  /\ digits \o [i \in 1..k |-> 0] \in Seq(0..9)
         /\ Number(digits) * TenTo[k] \in Nat
         /\ Parsed(digits \o [i \in 1..k |-> 0]) = Checked(Number(digits) * TenTo[k])
<1> DEFINE L == Len(digits)
           zeros == [i \in 1..k |-> 0]
           longer == digits \o zeros
<1>1. zeros \in Seq(0..9) /\ Len(zeros) = k
  OBVIOUS
<1>2. /\ longer \in Seq(0..9) /\ Len(longer) = L + k /\ L \in Nat
      /\ \A i \in 1..L : longer[i] = digits[i]
      /\ \A i \in 1..k : longer[L + i] = 0
  BY <1>1
<1> HIDE DEF zeros, longer, L
<1>3. PICK num : Reads(num, digits)
  BY ReadsExist
<1>4. PICK all : Reads(all, longer)
  BY <1>2, ReadsExist
<1>5. Number(digits) = num[L]
  BY <1>3, DigitsRead DEF L
<1>6. num[L] \in Nat
  BY <1>2, <1>3 DEF Reads, L
<1>7. all[L] = num[L]
  BY <1>2, <1>3, <1>4, ReadsAgree DEF L
<1> DEFINE P == {n \in Nat : n <= k => all[L + n] = num[L] * TenTo[n]}
<1>8. 0 \in P
  <2>1. L + 0 = L /\ num[L] * 1 = num[L]
    BY <1>2, <1>6
  <2>2. TenTo[0] = 1
    BY TenToIs
  <2> QED BY <1>7, <2>1, <2>2
<1>9. ASSUME NEW n \in Nat, n \in P PROVE n + 1 \in P
  <2> SUFFICES ASSUME n + 1 <= k PROVE all[L + (n + 1)] = num[L] * TenTo[n + 1]
    OBVIOUS
  <2> DEFINE m == L + (n + 1)
  <2>1. m \in 1..Len(longer) /\ m - 1 = L + n
    BY <1>2
  <2>2. longer[m] = 0
    <3>1. n + 1 \in 1..k
      OBVIOUS
    <3> QED BY <1>2, <3>1
  <2>3. all[m] = 10 * all[L + n] + 0
    BY <1>4, <2>1, <2>2 DEF Reads
  <2>4. all[L + n] = num[L] * TenTo[n]
    BY <1>9
  <2>5. TenTo[n] \in Nat /\ TenTo[n + 1] = 10 * TenTo[n]
    BY TenToIs
  <2> DEFINE a == num[L]
             t == TenTo[n]
  <2>6. a \in Nat /\ t \in Nat
    BY <1>6, <2>5
  <2> HIDE DEF a, t
  <2>7. 10 * (a * t) + 0 = a * (10 * t)
    BY <2>6
  <2> QED BY <2>3, <2>4, <2>5, <2>7 DEF a, t
<1> HIDE DEF P
<1>10. Nat \subseteq P
  BY <1>8, <1>9, NumberInduction
<1>11. all[L + k] = num[L] * TenTo[k]
  BY <1>10 DEF P
<1>12. num[L] * TenTo[k] \in Nat
  <2>1. TenTo[k] \in Nat
    BY TenToIs
  <2> QED BY <1>6, <2>1
<1>13. Parsed(longer) = Checked(all[L + k])
  BY <1>2, <1>4, DigitsRead
<1> QED BY <1>2, <1>5, <1>11, <1>12, <1>13 DEF longer, zeros

\* The last k digits are what remains of a division by the power of ten.
Ends(digits, k) == \A i \in (Len(digits) - k + 1)..Len(digits) : digits[i] = 0

LEMMA DigitsSplit ==
  ASSUME NEW digits \in Seq(0..9), NEW num, Reads(num, digits)
  PROVE  \A k \in 0..Len(digits) : \E r \in 0..(TenTo[k] - 1) :
            num[Len(digits)] = num[Len(digits) - k] * TenTo[k] + r /\ (r = 0 <=> Ends(digits, k))
<1> DEFINE L == Len(digits)
           Splits(k) == \E r \in 0..(TenTo[k] - 1) :
                           num[L] = num[L - k] * TenTo[k] + r /\ (r = 0 <=> Ends(digits, k))
           P == {k \in Nat : k <= L => Splits(k)}
<1>0. /\ L \in Nat /\ (\A i \in 1..L : digits[i] \in 0..9) /\ (\A i \in 0..L : num[i] \in Nat)
      /\ \A i \in 1..L : num[i] = 10 * num[i - 1] + digits[i]
  BY DEF Reads
<1>1. 0 \in P
  <2>1. TenTo[0] = 1 /\ num[L] \in Nat /\ L - 0 = L /\ Ends(digits, 0)
    <3>1. (L - 0 + 1)..L = {} /\ L - 0 = L
      BY <1>0
    <3>2. Ends(digits, 0)
      BY <3>1 DEF Ends
    <3> QED BY <1>0, <3>1, <3>2, TenToIs
  <2>2. 0 \in 0..(TenTo[0] - 1) /\ num[L] = num[L - 0] * TenTo[0] + 0
    BY <2>1
  <2>3. Splits(0)
    BY <2>1, <2>2
  <2> QED BY <2>3
<1>2. ASSUME NEW k \in Nat, k \in P PROVE k + 1 \in P
  <2> SUFFICES ASSUME k + 1 <= L PROVE Splits(k + 1)
    <3> HIDE DEF Splits
    <3> QED OBVIOUS
  <2>0. k <= L
    BY <1>0
  <2>1. Splits(k)
    <3> HIDE DEF Splits
    <3> QED BY <1>2, <2>0
  <2>2. PICK r \in 0..(TenTo[k] - 1) : num[L] = num[L - k] * TenTo[k] + r /\ (r = 0 <=> Ends(digits, k))
    BY <2>1
  <2> DEFINE j == L - k
             d == digits[j]
             a == num[j - 1]
             t == TenTo[k]
  <2>3. j \in 1..L /\ j - 1 = L - (k + 1)
    BY <1>0
  <2>4. d \in 0..9 /\ a \in Nat /\ num[j] = 10 * a + d
    <3> HIDE DEF j
    <3>1. j - 1 \in 0..L
      BY <1>0, <2>3
    <3> QED BY <1>0, <2>3, <3>1
  <2>5. t \in Nat \ {0} /\ TenTo[k + 1] = 10 * t
    BY TenToIs
  <2>6. Ends(digits, k + 1) <=> d = 0 /\ Ends(digits, k)
    <3>1. (L - (k + 1) + 1)..L = {j} \cup ((L - k + 1)..L)
      BY <1>0
    <3>2. \A i \in {j} \cup ((L - k + 1)..L) : i = j \/ i \in (L - k + 1)..L
      OBVIOUS
    <3> QED BY <3>1, <3>2 DEF Ends
  <2> DEFINE q == d * t + r
  <2>7. r \in 0..(t - 1) /\ num[L] = (10 * a + d) * t + r
    BY <2>2, <2>4
  <2> HIDE DEF j, d, a, t
  <2>8. d * t \in Nat /\ d * t <= 9 * t /\ (d * t = 0 <=> d = 0)
    BY <2>4, <2>5
  <2>9. q \in 0..(10 * t - 1) /\ (q = 0 <=> d = 0 /\ r = 0)
    BY <2>4, <2>5, <2>7, <2>8
  <2>10. (10 * a + d) * t = a * (10 * t) + d * t
    BY <2>4, <2>5
  <2>11. num[L] = a * (10 * t) + q
    <3>1. a * (10 * t) \in Nat
      BY <2>4, <2>5
    <3> QED BY <2>7, <2>8, <2>10, <3>1
  <2>12. q \in 0..(TenTo[k + 1] - 1) /\ num[L] = num[L - (k + 1)] * TenTo[k + 1] + q
    BY <2>3, <2>5, <2>9, <2>11 DEF a
  <2>13. q = 0 <=> Ends(digits, k + 1)
    BY <2>2, <2>6, <2>9
  <2> HIDE DEF q
  <2> QED BY <2>12, <2>13
<1> HIDE DEF P
<1>3. Nat \subseteq P
  BY <1>1, <1>2, NumberInduction
<1>4. \A k \in 0..L : Splits(k)
  <2> HIDE DEF Splits
  <2> QED BY <1>0, <1>3 DEF P
<1> QED BY <1>4

LEMMA TrailingZerosAre ==
  ASSUME NEW digits \in Seq(0..9), NEW k \in Nat
  PROVE  /\ TrailingZeros(digits) \in Nat
         /\ k <= TrailingZeros(digits) <=> k <= Len(digits) /\ Ends(digits, k)
<1> DEFINE L == Len(digits)
           Z == {i \in DOMAIN digits : \A j \in i..L : digits[j] = 0}
<1>0. L \in Nat /\ DOMAIN digits = 1..L
  OBVIOUS
<1>1. TrailingZeros(digits) = Cardinality(Z)
  BY DEF TrailingZeros
<1>2. IsFiniteSet(Z) /\ Z \subseteq 1..L
  <2>1. IsFiniteSet(1..L)
    BY <1>0, FS_Interval
  <2>2. Z \in SUBSET (1..L)
    BY <1>0
  <2> QED BY <2>1, <2>2, FS_Subset
<1>3. Cardinality(Z) \in Nat
  <2> HIDE DEF Z
  <2> QED BY <1>2, FS_CardinalityType
<1>4. ASSUME k <= L, Ends(digits, k) PROVE k <= Cardinality(Z)
  <2> DEFINE a == L - k + 1
  <2>0. a \in Int
    BY <1>0
  <2>1. a \in Int /\ IsFiniteSet(a..L) /\ Cardinality(a..L) = IF a > L THEN 0 ELSE L - a + 1
    <3> HIDE DEF a
    <3> QED BY <1>0, <2>0, FS_Interval
  <2>2. a..L \in SUBSET Z
    <3> SUFFICES ASSUME NEW i \in a..L PROVE i \in Z
      OBVIOUS
    <3>1. i \in 1..L
      BY <1>0, <1>4
    <3>2. \A j \in i..L : j \in a..L
      BY <1>0
    <3>3. \A j \in i..L : digits[j] = 0
      BY <1>4, <3>2 DEF Ends
    <3> QED BY <1>0, <3>1, <3>3
  <2>3. Cardinality(a..L) <= Cardinality(Z)
    <3> HIDE DEF Z, a
    <3> QED BY <1>2, <2>2, FS_Subset
  <2> QED BY <1>0, <1>3, <1>4, <2>1, <2>3
<1>5. ASSUME k <= L, ~Ends(digits, k) PROVE ~(k <= Cardinality(Z))
  <2>1. PICK j \in (L - k + 1)..L : digits[j] # 0
    BY <1>5 DEF Ends
  <2> DEFINE b == j + 1
  <2>0. j \in Int
    BY <1>0
  <2>2. b \in Int /\ IsFiniteSet(b..L) /\ Cardinality(b..L) = IF b > L THEN 0 ELSE L - b + 1
    <3>1. b \in Int /\ L \in Int
      BY <1>0, <2>0
    <3> HIDE DEF b, L
    <3> QED BY <3>1, FS_Interval
  <2>3. Z \in SUBSET (b..L)
    <3> SUFFICES ASSUME NEW i \in Z PROVE i \in b..L
      OBVIOUS
    <3>1. i \in 1..L /\ \A m \in i..L : digits[m] = 0
      BY <1>0
    <3>2. j \notin i..L
      BY <2>1, <3>1
    <3> QED BY <1>0, <2>1, <3>1, <3>2
  <2>4. Cardinality(Z) <= Cardinality(b..L)
    <3> HIDE DEF Z, b
    <3> QED BY <2>2, <2>3, FS_Subset
  <2> QED BY <1>0, <1>3, <1>5, <2>0, <2>1, <2>2, <2>4
<1>6. Cardinality(Z) <= L
  <2>1. IsFiniteSet(1..L) /\ Cardinality(1..L) = L
    BY <1>0, FS_Interval
  <2>2. Z \in SUBSET (1..L)
    BY <1>2
  <2> HIDE DEF Z
  <2>3. Cardinality(Z) <= Cardinality(1..L)
    BY <2>1, <2>2, FS_Subset
  <2> QED BY <2>1, <2>3
<1> HIDE DEF Z
<1> QED BY <1>0, <1>1, <1>3, <1>4, <1>5, <1>6

LEMMA DivisionWithRest ==
  ASSUME NEW t \in Nat \ {0}, NEW q \in Nat, NEW r \in 0..(t - 1)
  PROVE  (q * t + r) \div t = q /\ (q * t + r) % t = r
OBVIOUS

\* Without its last k digits a number is divided by a power of ten.
LEMMA DigitsDropped ==
  ASSUME NEW digits \in Seq(0..9), NEW k \in 0..Len(digits)
  PROVE  /\ Number(digits) \div TenTo[k] \in Nat
         /\ Number(digits) % TenTo[k] = 0 <=> Ends(digits, k)
         /\ Parsed(SubSeq(digits, 1, Len(digits) - k)) = Checked(Number(digits) \div TenTo[k])
<1> DEFINE L == Len(digits)
           t == TenTo[k]
           shorter == SubSeq(digits, 1, L - k)
<1>1. L \in Nat /\ k \in Nat /\ L - k \in 0..L
  OBVIOUS
<1>2. shorter \in Seq(0..9) /\ Len(shorter) = L - k /\ \A i \in 1..(L - k) : digits[i] = shorter[i]
  BY <1>1
<1> HIDE DEF shorter
<1>3. PICK num : Reads(num, digits)
  BY ReadsExist
<1>4. PICK less : Reads(less, shorter)
  BY <1>2, ReadsExist
<1>5. Number(digits) = num[L]
  BY <1>3, DigitsRead
<1>6. PICK r \in 0..(t - 1) : num[L] = num[L - k] * t + r /\ (r = 0 <=> Ends(digits, k))
  BY <1>3, DigitsSplit
<1>7. t \in Nat \ {0}
  BY <1>1, TenToIs
<1>8. num[L - k] \in Nat
  <2> HIDE DEF L
  <2> QED BY <1>1, <1>3 DEF Reads, L
<1> DEFINE q == num[L - k]
<1>9. q \in Nat /\ (q * t + r) \div t = q /\ (q * t + r) % t = r
  <2>1. q \in Nat /\ t \in Nat \ {0} /\ r \in 0..(t - 1)
    BY <1>6, <1>7, <1>8
  <2> HIDE DEF q, t
  <2> QED BY <2>1, DivisionWithRest
<1>10. less[L - k] = q
  <2> DEFINE n == L - k
  <2>1. n \in Nat /\ n <= Len(digits) /\ n <= Len(shorter) /\ \A i \in 1..n : digits[i] = shorter[i]
    BY <1>1, <1>2
  <2> HIDE DEF n
  <2>2. \A i \in 0..n : num[i] = less[i]
    BY <1>2, <1>3, <1>4, <2>1, ReadsAgree
  <2>3. num[n] = less[n]
    BY <2>1, <2>2
  <2> QED BY <2>3 DEF n
<1>11. Parsed(shorter) = Checked(less[L - k])
  BY <1>2, <1>4, DigitsRead
<1> QED BY <1>5, <1>6, <1>9, <1>10, <1>11 DEF shorter

LEMMA NumberIs ==
  ASSUME NEW digits \in Seq(0..9)
  PROVE  /\ Number(digits) \in Nat
         /\ Number(digits) = 0 <=> \A i \in DOMAIN digits : digits[i] = 0
         /\ Parsed(digits) = Checked(Number(digits))
<1> DEFINE L == Len(digits)
<1>1. L \in Nat /\ DOMAIN digits = 1..L /\ L - L = 0
  OBVIOUS
<1>2. PICK num : Reads(num, digits)
  BY ReadsExist
<1>3. Number(digits) = num[L] /\ Parsed(digits) = Checked(num[L])
  BY <1>2, DigitsRead
<1>4. num[L] \in Nat /\ num[0] = 0
  BY <1>1, <1>2 DEF Reads
<1>5. L \in 0..L
  BY <1>1
<1>6. PICK r \in 0..(TenTo[L] - 1) : num[L] = num[0] * TenTo[L] + r /\ (r = 0 <=> Ends(digits, L))
  <2>1. \E r \in 0..(TenTo[L] - 1) : num[L] = num[L - L] * TenTo[L] + r /\ (r = 0 <=> Ends(digits, L))
    BY <1>2, <1>5, DigitsSplit
  <2> QED BY <1>1, <2>1
<1>7. TenTo[L] \in Nat
  BY <1>1, TenToIs
<1>8. num[L] = r
  BY <1>4, <1>6, <1>7
<1>9. Ends(digits, L) <=> \A i \in DOMAIN digits : digits[i] = 0
  <2>1. (L - L + 1)..L = 1..L
    BY <1>1
  <2> QED BY <1>1, <2>1 DEF Ends
<1> QED BY <1>3, <1>4, <1>6, <1>8, <1>9

LEMMA LexemeIs ==
  ASSUME NEW lexeme \in Lexemes
  PROVE  /\ lexeme.digits \in Seq(0..9) /\ Len(lexeme.digits) \in Nat
         /\ Len(lexeme.digits) + MaxDigits <= MaxTokens
         /\ lexeme.fraction \in 0..(Len(lexeme.digits) - 1) /\ lexeme.fraction \in Nat
         /\ Exponent(lexeme) \in Int
         /\ MaxDigits \in Nat /\ MaxTokens \in Nat /\ MaxTokens < TenTo[MaxDigits]
         /\ None \notin Int
<1>1. lexeme.digits \in Seq(0..9)
  BY UsageNumbersAssumption
<1>2. Len(lexeme.digits) \in Nat
  BY <1>1
<1>3. lexeme.fraction \in 0..(Len(lexeme.digits) - 1)
  BY UsageNumbersAssumption
<1>4. lexeme.fraction \in Nat
  BY <1>2, <1>3
<1>5. lexeme.exponent \in Int \cup {None}
  BY UsageNumbersAssumption
<1>6. Exponent(lexeme) \in Int
  BY <1>5 DEF Exponent
<1> QED BY <1>1, <1>2, <1>3, <1>4, <1>6, UsageNumbersAssumption

\* A JSON number is read as what was written, whatever its digits, its point
\* and its exponent are, and only what does not fit is refused.
LEMMA ExactIs ==
  ASSUME NEW lexeme \in Lexemes
  PROVE  Exact(lexeme) = IF Written(lexeme) \in 0..MaxTokens THEN Written(lexeme) ELSE None
<1> DEFINE digits == lexeme.digits
           L == Len(digits)
           N == Number(digits)
           e == Exponent(lexeme)
           f == lexeme.fraction
           s == e - f
           Bounded(n) == IF n > MaxTokens THEN MaxTokens + 1 ELSE n
           Read == Parsed(IF s < 0 THEN SubSeq(digits, 1, L + s) ELSE digits \o [i \in 1..s |-> 0])
<1>1. /\ digits \in Seq(0..9) /\ L \in Nat /\ L + MaxDigits <= MaxTokens
      /\ f \in 0..(L - 1) /\ f \in Nat /\ e \in Int
      /\ MaxDigits \in Nat /\ MaxTokens \in Nat /\ MaxTokens < TenTo[MaxDigits] /\ None \notin Int
  BY LexemeIs
<1>2. N \in Nat /\ (N = 0 <=> IsZero(lexeme))
  BY <1>1, NumberIs DEF IsZero
<1>3. Exact(lexeme) = IF N = 0 THEN 0
                      ELSE IF lexeme.sign = "-" \/ e \notin Int64 \/ s \notin Int64 THEN None
                      ELSE IF s > MaxDigits \/ -s > TrailingZeros(digits) THEN None ELSE Read
  BY <1>2 DEF Exact
<1>4. Written(lexeme) = IF N = 0 THEN 0
                        ELSE IF lexeme.sign = "-" \/ s < -L THEN None
                        ELSE IF s >= MaxDigits THEN MaxTokens + 1
                        ELSE IF s >= 0 THEN Bounded(N * TenTo[s])
                        ELSE IF N % TenTo[-s] = 0 THEN Bounded(N \div TenTo[-s]) ELSE None
  BY DEF Written
<1>5. TrailingZeros(digits) \in Nat
  BY <1>1, TrailingZerosAre
<1>6. s \in Int
  BY <1>1
<1>7. ASSUME NEW n \in Nat
      PROVE  Checked(n) = IF Bounded(n) \in 0..MaxTokens THEN Bounded(n) ELSE None
  BY <1>1 DEF Checked
<1>8. s \in -L..MaxDigits => e \in Int64 /\ s \in Int64
  <2> HIDE DEF L
  <2> QED BY <1>1 DEF Int64
<1> HIDE DEF L, N, Bounded, Read
<1>9. CASE N = 0
  BY <1>1, <1>3, <1>4, <1>9
<1>10. CASE N # 0 /\ (lexeme.sign = "-" \/ s < -L)
  <2>1. Written(lexeme) = None
    BY <1>4, <1>10
  <2>2. CASE lexeme.sign = "-"
    BY <1>1, <1>3, <1>10, <2>1, <2>2
  <2>3. CASE s < -L
    <3>1. -s \in Nat /\ ~(-s <= L)
      BY <1>1, <1>6, <2>3
    <3>2. ~(-s <= TrailingZeros(digits))
      <4> HIDE DEF s, digits
      <4> QED BY <1>1, <3>1, TrailingZerosAre DEF L
    <3>3. -s > TrailingZeros(digits)
      BY <1>5, <1>6, <3>2
    <3> QED BY <1>1, <1>3, <1>10, <2>1, <3>3
  <2> QED BY <1>10, <2>2, <2>3
<1>11. CASE N # 0 /\ lexeme.sign # "-" /\ s >= MaxDigits
  <2>1. s >= 0 /\ ~(s < -L)
    BY <1>1, <1>6, <1>11 DEF L
  <2>2. Written(lexeme) = MaxTokens + 1
    BY <1>4, <1>11, <2>1
  <2>3. CASE s = MaxDigits
    <3>1. Read = Parsed(digits \o [i \in 1..s |-> 0])
      BY <2>1, <1>6 DEF Read, L
    <3>2. Read = Checked(N * TenTo[s])
      <4> HIDE DEF digits, s
      <4> QED BY <1>1, <2>3, <3>1, ZerosAppended DEF N
    <3>3. TenTo[s] \in Nat /\ TenTo[s] > MaxTokens
      BY <1>1, <2>3, TenToIs
    <3> DEFINE t == TenTo[s]
    <3>4. N * t > MaxTokens
      <4>1. t \in Nat /\ t > MaxTokens
        BY <3>3
      <4> HIDE DEF t
      <4> QED BY <1>1, <1>2, <1>11, <4>1
    <3>5. Read = None
      BY <3>2, <3>4 DEF Checked
    <3> QED BY <1>1, <1>3, <1>11, <2>2, <3>5
  <2>4. CASE s # MaxDigits
    <3>1. s > MaxDigits
      BY <1>1, <1>6, <1>11, <2>4
    <3> QED BY <1>1, <1>3, <1>11, <2>2, <3>1
  <2> QED BY <2>3, <2>4
<1>12. CASE N # 0 /\ lexeme.sign # "-" /\ s >= 0 /\ s < MaxDigits
  <2>1. s \in Nat /\ ~(s < -L) /\ ~(s >= MaxDigits) /\ ~(s > MaxDigits) /\ ~(-s > TrailingZeros(digits))
    BY <1>1, <1>5, <1>6, <1>12 DEF L
  <2>2. e \in Int64 /\ s \in Int64
    BY <1>1, <1>6, <1>8, <1>12, <2>1 DEF L
  <2>3. Read = Parsed(digits \o [i \in 1..s |-> 0])
    BY <1>6, <1>12 DEF Read, L
  <2>4. N * TenTo[s] \in Nat /\ Read = Checked(N * TenTo[s])
    <3> HIDE DEF digits, s
    <3> QED BY <1>1, <2>1, <2>3, ZerosAppended DEF N
  <2>5. Written(lexeme) = Bounded(N * TenTo[s])
    BY <1>4, <1>12, <2>1
  <2>6. Exact(lexeme) = Read
    BY <1>3, <1>12, <2>1, <2>2
  <2> HIDE DEF s
  <2> QED BY <1>7, <2>4, <2>5, <2>6
<1>13. CASE N # 0 /\ lexeme.sign # "-" /\ s < 0 /\ ~(s < -L)
  <2> DEFINE k == -s
  <2>1. k \in 0..L /\ k \in Nat /\ L + s = L - k /\ ~(s >= MaxDigits) /\ ~(s >= 0) /\ ~(s > MaxDigits)
    <3> HIDE DEF s, digits, f, e
    <3> QED BY <1>1, <1>6, <1>13
  <2>2. e \in Int64 /\ s \in Int64
    <3>1. s \in -L..MaxDigits
      <4> HIDE DEF s, digits, f, e
      <4> QED BY <1>1, <1>6, <1>13
    <3> QED BY <1>8, <3>1
  <2>3. Read = Parsed(SubSeq(digits, 1, L - k))
    BY <1>13, <2>1 DEF Read, L
  <2> HIDE DEF digits, s, k, e
  <2>4. /\ N \div TenTo[k] \in Nat
        /\ N % TenTo[k] = 0 <=> Ends(digits, k)
        /\ Read = Checked(N \div TenTo[k])
    BY <1>1, <2>1, <2>3, DigitsDropped DEF N, L
  <2>5. k <= TrailingZeros(digits) <=> Ends(digits, k)
    <3>1. k <= Len(digits)
      BY <1>1, <2>1 DEF L
    <3> QED BY <1>1, <2>1, <3>1, TrailingZerosAre
  <2>6. k > TrailingZeros(digits) <=> ~Ends(digits, k)
    BY <1>5, <2>1, <2>5
  <2>7. Exact(lexeme) = IF Ends(digits, k) THEN Read ELSE None
    BY <1>3, <1>13, <2>1, <2>2, <2>6 DEF k
  <2>8. Written(lexeme) = IF Ends(digits, k) THEN Bounded(N \div TenTo[k]) ELSE None
    BY <1>4, <1>13, <2>1, <2>4 DEF k
  <2>9. Checked(N \div TenTo[k]) = IF Bounded(N \div TenTo[k]) \in 0..MaxTokens
                                   THEN Bounded(N \div TenTo[k]) ELSE None
    BY <1>7, <2>4
  <2>10. None \notin 0..MaxTokens
    BY <1>1
  <2> QED BY <2>4, <2>7, <2>8, <2>9, <2>10, Zenon
<1>14. s >= MaxDigits \/ s < 0 \/ (s >= 0 /\ s < MaxDigits)
  BY <1>1, <1>6
<1> QED BY <1>9, <1>10, <1>11, <1>12, <1>13, <1>14, Zenon

\* A string of digits is read as what was written.
LEMMA ParsedTextIs ==
  ASSUME NEW lexeme \in Lexemes
  PROVE  ParsedText(lexeme) = IF Plain(lexeme) /\ Written(lexeme) \in 0..MaxTokens
                              THEN Written(lexeme) ELSE None
<1> DEFINE N == Number(lexeme.digits)
<1>1. /\ lexeme.digits \in Seq(0..9) /\ Len(lexeme.digits) \in Nat
      /\ MaxDigits \in Nat /\ MaxTokens \in Nat /\ MaxTokens < TenTo[MaxDigits] /\ None \notin Int
  BY LexemeIs
<1>2. N \in Nat /\ (N = 0 <=> IsZero(lexeme)) /\ Parsed(lexeme.digits) = Checked(N)
  BY <1>1, NumberIs DEF IsZero
<1>3. CASE ~Plain(lexeme)
  BY <1>3 DEF ParsedText
<1>4. CASE Plain(lexeme)
  <2>1. Exponent(lexeme) - lexeme.fraction = 0
    BY <1>4 DEF Plain, Exponent
  <2>2. ParsedText(lexeme) = IF lexeme.sign = "-" /\ N # 0 THEN None ELSE Checked(N)
    BY <1>2, <1>4 DEF ParsedText
  <2>3. TenTo[0] = 1
    BY TenToIs
  <2>4. Written(lexeme) = IF N = 0 THEN 0
                          ELSE IF lexeme.sign = "-" THEN None
                          ELSE IF 0 >= MaxDigits THEN MaxTokens + 1
                          ELSE IF N * 1 > MaxTokens THEN MaxTokens + 1 ELSE N * 1
    BY <1>1, <2>1, <2>3 DEF Written
  <2>5. 0 >= MaxDigits => MaxTokens = 0
    BY <1>1, <2>3
  <2> HIDE DEF N
  <2> QED BY <1>1, <1>2, <1>4, <2>2, <2>4, <2>5 DEF Checked
<1> QED BY <1>3, <1>4

LEMMA DecodedIs ==
  ASSUME NEW lexeme \in Lexemes
  PROVE  Decoded(lexeme) = IF Fits(lexeme) THEN Written(lexeme) ELSE None
BY ExactIs, ParsedTextIs DEF Decoded, Fits

\* A count that is accepted is the one that was written.
LEMMA CountIsExact ==
  \A count \in Counts : count.tokens \in 0..MaxTokens /\ count.written = count.tokens
<1> SUFFICES ASSUME NEW count \in Counts
             PROVE  count.tokens \in 0..MaxTokens /\ count.written = count.tokens
  OBVIOUS
<1>1. PICK lexeme \in Lexemes : /\ Decoded(lexeme) # None
                                /\ count = [tokens |-> Decoded(lexeme), written |-> Written(lexeme)]
  BY DEF Counts
<1>2. Fits(lexeme) /\ Decoded(lexeme) = Written(lexeme)
  BY <1>1, DecodedIs
<1> QED BY <1>1, <1>2 DEF Fits

\* No count that fits is refused.
LEMMA NothingRefused == WronglyRefused = {}
<1>1. ASSUME NEW lexeme \in Lexemes, Fits(lexeme) PROVE Decoded(lexeme) # None
  <2>1. Written(lexeme) \in Nat /\ Decoded(lexeme) = Written(lexeme)
    BY <1>1, DecodedIs, MaxIsNat DEF Fits
  <2> QED BY <2>1, NoneIsNoNumber
<1> QED BY <1>1 DEF WronglyRefused

-----------------------------------------------------------------------------
(* The account and what is said of it. *)

Exactly(source) == \A i \in DOMAIN source : source[i].tokens = source[i].written

\* The summary may lag behind, but it never says more than what was used.
SummaryLags ==
    /\ lifetime # None => lifetime <= TrueTotal
    /\ reportedPeak # None => \E day \in Days : reportedPeak <= Spent(day)

RInv == /\ today \in Days /\ timeframe \in Timeframes /\ withheld \in BOOLEAN
        /\ buckets \in Seq(Bucket) /\ unseen \in Seq(Bucket)
        /\ Exactly(buckets) /\ Exactly(unseen)
        /\ lifetime \in Reported /\ reportedPeak \in Reported
        /\ SummaryLags

LEMMA TotalIsTokens ==
  ASSUME NEW source \in Seq(Bucket), Exactly(source), NEW days
  PROVE  Total(source, days) = Tokens(source, days)
<1>1. [i \in DOMAIN source |-> source[i].written] = [i \in DOMAIN source |-> source[i].tokens]
  BY DEF Exactly
<1> QED BY <1>1, Zenon DEF Total, Tokens, SumOn

LEMMA NothingYet == \A days : Total(<<>>, days) = 0
<1> TAKE days
<1>1. <<>> \in Seq(Bucket) /\ Exactly(<<>>)
  BY DEF Exactly
<1>2. Total(<<>>, days) = Tokens(<<>>, days)
  BY <1>1, TotalIsTokens
<1>3. {i \in DOMAIN <<>> : <<>>[i].day \in days} = {}
  OBVIOUS
<1> QED BY <1>2, <1>3, SumEmpty DEF Tokens

LEMMA TotalGrows ==
  ASSUME NEW source \in Seq(Bucket), Exactly(source), NEW bucket \in Bucket, bucket.tokens = bucket.written, NEW days
  PROVE  /\ Append(source, bucket) \in Seq(Bucket) /\ Exactly(Append(source, bucket))
         /\ Total(source, days) \in Nat /\ Total(Append(source, bucket), days) \in Nat
         /\ Total(source, days) <= Total(Append(source, bucket), days)
<1> DEFINE longer == Append(source, bucket)
           f == [i \in DOMAIN source |-> source[i].tokens]
           g == [i \in DOMAIN longer |-> longer[i].tokens]
           A == {i \in DOMAIN source : source[i].day \in days}
           B == {i \in DOMAIN longer : longer[i].day \in days}
<1>1. longer \in Seq(Bucket) /\ DOMAIN source \subseteq DOMAIN longer /\ \A i \in DOMAIN source : longer[i] = source[i]
  OBVIOUS
<1>2. Exactly(longer)
  BY DEF Exactly
<1> HIDE DEF longer
<1>3. A \in SUBSET B /\ \A i \in A : f[i] = source[i].tokens /\ g[i] = f[i]
  BY <1>1
<1>4. \A i \in B : g[i] \in Nat
  <2>1. \A i \in DOMAIN longer : longer[i].tokens \in Nat
    BY <1>1, SourceIs, MaxIsNat
  <2> QED BY <2>1
<1>5. IsFiniteSet(B)
  <2>1. IsFiniteSet(DOMAIN longer)
    BY <1>1, SourceIs
  <2>2. B \in SUBSET DOMAIN longer
    OBVIOUS
  <2> QED BY <2>1, <2>2, FS_Subset
<1>6. Total(source, days) = SumOn(f, A) /\ Total(longer, days) = SumOn(g, B)
  BY <1>1, <1>2, TotalIsTokens DEF Tokens
<1> HIDE DEF A, B, f, g
<1>7. IsFiniteSet(A) /\ \A i \in A : g[i] \in Nat /\ f[i] = g[i]
  BY <1>3, <1>4, <1>5, FS_Subset
<1>8. SumOn(f, A) = SumOn(g, A) /\ SumOn(g, A) \in Nat /\ SumOn(g, B) \in Nat
  BY <1>4, <1>5, <1>7, SumAgrees, SumStep
<1>9. SumOn(g, A) <= SumOn(g, B)
  BY <1>3, <1>4, <1>5, SumOfPart
<1> QED BY <1>1, <1>2, <1>6, <1>8, <1>9 DEF longer

LEMMA AmountsAreNat ==
  ASSUME RInv
  PROVE  /\ \A days : Total(buckets, days) \in Nat /\ Total(unseen, days) \in Nat
         /\ TrueTotal \in Nat /\ \A day : Spent(day) \in Nat
<1>1. \A days : Total(buckets, days) = Tokens(buckets, days) /\ Total(unseen, days) = Tokens(unseen, days)
  BY TotalIsTokens DEF RInv
<1>2. \A days : Tokens(buckets, days) \in Nat /\ Tokens(unseen, days) \in Nat
  BY TokensAreNat DEF RInv
<1> QED BY <1>1, <1>2 DEF TrueTotal, Spent

LEMMA InitLags == Init => RInv
<1> SUFFICES ASSUME Init PROVE RInv
  OBVIOUS
<1>1. TrueTotal = 0 /\ \A day : Spent(day) = 0
  BY NothingYet DEF Init, TrueTotal, Spent
<1>2. <<>> \in Seq(Bucket) /\ Exactly(<<>>)
  BY DEF Exactly
<1>3. SummaryLags
  BY <1>1 DEF Init, SummaryLags
<1> QED BY <1>2, <1>3 DEF Init, RInv, Reported

LEMMA UseLags == RInv /\ Use => RInv'
<1> SUFFICES ASSUME RInv, Use PROVE RInv'
  OBVIOUS
<1>1. PICK day \in Days, count \in Counts :
        LET bucket == [day |-> day, tokens |-> count.tokens, written |-> count.written]
        IN  \/ buckets' = Append(buckets, bucket) /\ unseen' = unseen
            \/ unseen' = Append(unseen, bucket) /\ buckets' = buckets
  BY DEF Use
<1> DEFINE bucket == [day |-> day, tokens |-> count.tokens, written |-> count.written]
<1>2. bucket \in Bucket /\ bucket.tokens = bucket.written
  BY CountIsExact DEF Bucket
<1> HIDE DEF bucket
<1>3. \/ buckets' = Append(buckets, bucket) /\ unseen' = unseen
      \/ unseen' = Append(unseen, bucket) /\ buckets' = buckets
  BY <1>1 DEF bucket
<1>4. /\ buckets \in Seq(Bucket) /\ unseen \in Seq(Bucket) /\ Exactly(buckets) /\ Exactly(unseen)
      /\ \A days : Total(buckets, days) \in Nat /\ Total(unseen, days) \in Nat
  BY AmountsAreNat DEF RInv
<1> DEFINE Grown(s, t) == /\ t \in Seq(Bucket) /\ Exactly(t)
                          /\ \A days : /\ Total(t, days) \in Nat /\ Total(s, days) \in Nat
                                       /\ Total(s, days) <= Total(t, days)
<1>5. Grown(buckets, buckets') /\ Grown(unseen, unseen')
  <2>1. Grown(buckets, buckets) /\ Grown(unseen, unseen)
    BY <1>4
  <2>2. Grown(buckets, Append(buckets, bucket)) /\ Grown(unseen, Append(unseen, bucket))
    BY <1>2, <1>4, TotalGrows
  <2> HIDE DEF Grown
  <2> QED BY <1>3, <2>1, <2>2
<1>6. TrueTotal \in Nat /\ TrueTotal' \in Nat /\ TrueTotal <= TrueTotal'
  <2>1. TrueTotal' = Total(buckets', Days) + Total(unseen', Days)
    BY DEF TrueTotal
  <2> QED BY <1>5, <2>1 DEF TrueTotal
<1>7. \A d : Spent(d) \in Nat /\ Spent(d)' \in Nat /\ Spent(d) <= Spent(d)'
  <2>1. \A d : Spent(d)' = Total(buckets', {d}) + Total(unseen', {d})
    BY DEF Spent
  <2> QED BY <1>5, <2>1 DEF Spent
<1>8. UNCHANGED <<today, timeframe, withheld, lifetime, reportedPeak>>
  BY DEF Use
<1>9. SummaryLags'
  <2>1. lifetime' # None => lifetime' <= TrueTotal'
    BY <1>6, <1>7, <1>8 DEF RInv, SummaryLags, Reported
  <2>2. reportedPeak' # None => \E d \in Days : reportedPeak' <= Spent(d)'
    BY <1>6, <1>7, <1>8 DEF RInv, SummaryLags, Reported
  <2> QED BY <2>1, <2>2 DEF SummaryLags
<1> QED BY <1>5, <1>8, <1>9 DEF RInv, Exactly

LEMMA SummarizeLags == RInv /\ Summarize => RInv'
<1> SUFFICES ASSUME RInv, Summarize PROVE RInv'
  OBVIOUS
<1>1. UNCHANGED <<today, timeframe, withheld, buckets, unseen>>
  BY DEF Summarize
<1>2. TrueTotal' = TrueTotal /\ \A d : Spent(d)' = Spent(d)
  BY <1>1 DEF TrueTotal, Spent
<1>3. TrueTotal \in Nat /\ \A d : Spent(d) \in Nat
  BY AmountsAreNat
<1>4. lifetime' \in Reported /\ (lifetime' # None => lifetime' <= TrueTotal)
  BY <1>3 DEF Summarize, RInv, SummaryLags, Reported
<1>5. reportedPeak' \in Reported /\ (reportedPeak' # None => \E d \in Days : reportedPeak' <= Spent(d))
  <2>1. CASE reportedPeak' = reportedPeak
    BY <2>1 DEF RInv, SummaryLags
  <2>2. CASE reportedPeak' = TruePeak /\ TruePeak <= MaxTokens
    <3> DEFINE S == {Spent(d) : d \in Days}
    <3>1. S \subseteq 0..TrueTotal
      <4>1. \A days : Total(buckets, days) \in Nat /\ Total(unseen, days) \in Nat
        BY AmountsAreNat
      <4>2. ASSUME NEW d \in Days PROVE Spent(d) <= TrueTotal
        <5>1. Total(buckets, {d}) <= Total(buckets, Days) /\ Total(unseen, {d}) <= Total(unseen, Days)
          BY <4>2, TotalIsTokens, TokensAreNat DEF RInv
        <5> QED BY <4>1, <5>1 DEF Spent, TrueTotal
      <4> QED BY <1>3, <4>2
    <3>2. S # {}
      BY DEF RInv
    <3>3. IsFiniteSet(S) /\ S \subseteq Int
      <4>1. IsFiniteSet(0..TrueTotal)
        BY <1>3, FS_Interval
      <4> HIDE DEF S
      <4>2. IsFiniteSet(S)
        BY <3>1, <4>1, FS_Subset
      <4>3. 0..TrueTotal \subseteq Int
        BY <1>3
      <4> QED BY <3>1, <4>2, <4>3
    <3>4. Max(S) \in S
      <4> HIDE DEF S
      <4> QED BY <3>2, <3>3, GreatestIs
    <3>5. PICK d \in Days : TruePeak = Spent(d)
      BY <3>4 DEF TruePeak
    <3> QED BY <1>3, <2>2, <3>5 DEF Reported
  <2> QED BY <2>1, <2>2 DEF Summarize
<1>6. SummaryLags'
  BY <1>2, <1>4, <1>5 DEF SummaryLags
<1> QED BY <1>1, <1>4, <1>5, <1>6 DEF RInv, Exactly

LEMMA NextLags == RInv /\ [Next]_vars => RInv'
<1> SUFFICES ASSUME RInv, [Next]_vars PROVE RInv'
  OBVIOUS
<1>1. ASSUME UNCHANGED <<withheld, buckets, unseen, lifetime, reportedPeak>>, today' \in Days, timeframe' \in Timeframes
      PROVE  RInv'
  <2>1. TrueTotal' = TrueTotal /\ \A d : Spent(d)' = Spent(d)
    BY <1>1 DEF TrueTotal, Spent
  <2> QED BY <1>1, <2>1 DEF RInv, Exactly, SummaryLags
<1>2. CASE DayPasses
  BY <1>1, <1>2 DEF DayPasses, RInv
<1>3. CASE SetTimeframe
  BY <1>1, <1>3 DEF SetTimeframe, RInv
<1>4. CASE UNCHANGED vars
  BY <1>1, <1>4 DEF vars, RInv
<1> QED BY <1>2, <1>3, <1>4, UseLags, SummarizeLags DEF Next

LEMMA SpecLags == Spec => []RInv
  BY InitLags, NextLags, PTL DEF Spec

\* Every count is what the server has written, in whatever way it has written
\* it, and what does not fit is all that is refused (value_to_i64,
\* exact_nonnegative_i64, parse_json_exponent).
THEOREM CountsExact == Spec => []CountsAreExact
<1>1. RInv => CountsAreExact
  <2> SUFFICES ASSUME RInv, NEW i \in DOMAIN Used
               PROVE  Used[i].tokens = Used[i].written
    BY NothingRefused DEF CountsAreExact
  <2>1. buckets \in Seq(Bucket) /\ unseen \in Seq(Bucket) /\ Exactly(buckets) /\ Exactly(unseen)
    BY DEF RInv
  <2>2. \/ i \in DOMAIN buckets /\ Used[i] = buckets[i]
        \/ \E j \in DOMAIN unseen : Used[i] = unseen[j]
    BY <2>1 DEF Used
  <2> QED BY <2>1, <2>2, Zenon DEF Exactly
<1> QED BY <1>1, SpecLags, PTL

-----------------------------------------------------------------------------
(* The figures that are shown. *)

\* What the popover's figures are made of.
LEMMA SourceShown ==
  ASSUME RInv
  PROVE  /\ Source \in Seq(Bucket) /\ today \in Int
         /\ \A days : VisibleTotal(days) = Tokens(Source, days) /\ VisibleTotal(days) \in Nat
         /\ ~withheld => Source = buckets
<1>1. Source \in Seq(Bucket) /\ Exactly(Source)
  BY DEF RInv, Source, Exactly
<1>2. \A days : VisibleTotal(days) = Tokens(Source, days) /\ VisibleTotal(days) \in Nat
  BY <1>1, TotalIsTokens, TokensAreNat DEF VisibleTotal
<1> QED BY <1>1, <1>2, UsageRangeAssumption DEF Source, RInv

LEMMA RangeShown ==
  ASSUME RInv
  PROVE  LET D == RangeDays(timeframe, Source, today)
             range == ShownRange
         IN  /\ IsFiniteSet(D) /\ DOMAIN range.tokens = D /\ \A d \in D : range.tokens[d] \in 0..MaxTokens
             /\ range.total \in 0..MaxTokens
             /\ Overflowed(range) <=> VisibleTotal(D) > MaxTokens
             /\ ~range.mergeOverflow => \A d \in D : range.tokens[d] = Visible(d)
             /\ ~Overflowed(range) => range.total = VisibleTotal(D) /\ range.total = SumOn(range.tokens, D)
<1>1. Source \in Seq(Bucket) /\ today \in Int /\ timeframe \in Timeframes
  BY SourceShown DEF RInv
<1>2. \A days : VisibleTotal(days) = Tokens(Source, days)
  BY SourceShown
<1>3. \A d : Visible(d) = Tokens(Source, {d})
  BY <1>2 DEF Visible
<1> DEFINE D == RangeDays(timeframe, Source, today)
           range == AtDate(timeframe, Source, today)
<1>4. /\ DOMAIN range.tokens = D /\ \A d \in D : range.tokens[d] \in 0..MaxTokens
      /\ range.total \in 0..MaxTokens
      /\ Overflowed(range) <=> Tokens(Source, D) > MaxTokens
      /\ ~range.mergeOverflow => \A d \in D : range.tokens[d] = Tokens(Source, {d})
      /\ ~Overflowed(range) => range.total = Tokens(Source, D)
      /\ ~Overflowed(range) => range.total = SumOn(range.tokens, D)
  BY <1>1, RangeIsExact
<1>5. IsFiniteSet(D)
  BY <1>1, RangeDaysAre
<1> HIDE DEF D, range
<1>6. /\ IsFiniteSet(D) /\ DOMAIN range.tokens = D /\ \A d \in D : range.tokens[d] \in 0..MaxTokens
      /\ range.total \in 0..MaxTokens
      /\ Overflowed(range) <=> VisibleTotal(D) > MaxTokens
      /\ ~range.mergeOverflow => \A d \in D : range.tokens[d] = Visible(d)
      /\ ~Overflowed(range) => range.total = VisibleTotal(D) /\ range.total = SumOn(range.tokens, D)
  BY <1>2, <1>3, <1>4, <1>5
<1> QED BY <1>6, Zenon DEF D, range, ShownRange

\* A rolling timeframe's total is what its days add up to, without a bound, or
\* it is missing and that is said (merge_buckets_reporting_overflow, at_date,
\* UsagePresentation::new, render_stats).
THEOREM TotalsAreExact == Spec => []TotalIsExact
<1>1. RInv => TotalIsExact
  <2> SUFFICES ASSUME RInv, timeframe # "all"
               PROVE  LET exact == VisibleTotal(today - WindowDays[timeframe] + 1 .. today)
                      IN  /\ Shown.total = If(~withheld /\ exact <= MaxTokens, exact)
                          /\ Shown.total = None => HistoryStatus # "Available"
                          /\ Shown.total = None /\ ~withheld => Warning = "overflow"
    BY DEF TotalIsExact
  <2> DEFINE range == ShownRange
             exact == VisibleTotal(today - WindowDays[timeframe] + 1 .. today)
  <2>1. RangeDays(timeframe, Source, today) = today - WindowDays[timeframe] + 1 .. today
    BY DEF RangeDays, Window
  <2>2. /\ range.total \in 0..MaxTokens /\ (Overflowed(range) <=> exact > MaxTokens)
        /\ ~Overflowed(range) => range.total = exact
    BY <2>1, RangeShown
  <2>3. exact \in Nat /\ withheld \in BOOLEAN
    BY SourceShown DEF RInv
  <2> HIDE DEF range, exact
  <2>4. /\ Shown.total = If(~withheld /\ ~Overflowed(range), range.total)
        /\ Shown.available = ~withheld
        /\ Shown.partial = (~withheld /\ (Overflowed(range) \/ FALSE))
    BY DEF Shown, Presentation, range
  <2>5. If(~withheld /\ ~Overflowed(range), range.total) = If(~withheld /\ exact <= MaxTokens, exact)
    BY <2>2, <2>3, MaxIsNat DEF If
  <2>6. Shown.total = None => withheld \/ Overflowed(range)
    BY <2>2, <2>4, MaxIsNat, NoneIsNoNumber DEF If
  <2>7. Shown.total = None => HistoryStatus # "Available"
    BY <2>4, <2>6 DEF HistoryStatus
  <2>8. Shown.total = None /\ ~withheld => Warning = "overflow"
    BY <2>6 DEF Warning, range
  <2> QED BY <2>4, <2>5, <2>7, <2>8 DEF exact
<1> QED BY <1>1, SpecLags, PTL

LEMMA AllIsAll ==
  ASSUME RInv, timeframe = "all"
  PROVE  VisibleTotal(RangeDays(timeframe, Source, today)) = VisibleTotal(Days)
<1> DEFINE D == RangeDays(timeframe, Source, today)
<1>1. \A i \in DOMAIN Source : Source[i].day \in Days /\ Source[i].day \in D
  BY SourceShown, SourceIs DEF RangeDays
<1> HIDE DEF D
<1>2. {i \in DOMAIN Source : Source[i].day \in D} = {i \in DOMAIN Source : Source[i].day \in Days}
  BY <1>1
<1> QED BY <1>2, Zenon DEF VisibleTotal, Total, D

\* The values that an all-time total can have.
LEMMA ReconciledIsOne ==
  ASSUME NEW available \in BOOLEAN, NEW dailyTotal \in Reported, NEW dailyPeak \in Reported,
         NEW total \in Reported, NEW peak \in Reported
  PROVE  LET r == Reconciled(available, dailyTotal, dailyPeak, total, peak)
         IN  r.total \in {total, dailyTotal, None}
<1> DEFINE partial == ProvenPartial(available, dailyTotal, dailyPeak, total, peak)
           candidates == Candidates(available, dailyTotal, partial, total)
           r == Reconciled(available, dailyTotal, dailyPeak, total, peak)
<1>1. candidates \in {{}, {total, dailyTotal}} \/ (candidates = {total} /\ total \in Nat)
  BY DEF Candidates, Exceeds, Reported
<1>2. r.total \in {Greatest(candidates), None}
  BY DEF Reconciled
<1> HIDE DEF candidates, r
<1>3. Greatest(candidates) \in {total, dailyTotal, None}
  <2>1. CASE candidates = {}
    BY <2>1, NothingGreatest
  <2>2. CASE candidates = {total, dailyTotal}
    BY <2>2, GreatestOfTwo
  <2>3. CASE candidates = {total} /\ total \in Nat
    BY <2>3, GreatestOfOne
  <2> QED BY <1>1, <2>1, <2>2, <2>3
<1> QED BY <1>2, <1>3 DEF r

\* The all-time total lies between all that was reported and what was used, it
\* is right when either source is complete, and a sum that the reported peak
\* proves to lack days is not passed off as the total
\* (reconcile_all_time_summary).
THEOREM AllTimeHonest == Spec => []AllTimeIsHonest
<1>1. RInv => AllTimeIsHonest
  <2> SUFFICES ASSUME RInv, timeframe = "all", Shown.total # None
               PROVE  /\ Shown.total <= TrueTotal
                      /\ ~withheld => Shown.total >= VisibleTotal(Days)
                      /\ lifetime # None => Shown.total >= lifetime
                      /\ (lifetime = TrueTotal \/ (unseen = <<>> /\ ~withheld)) => Shown.total = TrueTotal
                      /\ ~withheld /\ (\A day \in Days : Exceeds(reportedPeak, Visible(day)))
                            => Shown.total > VisibleTotal(Days) /\ HistoryStatus = "Partial"
    BY DEF AllTimeIsHonest
  <2> DEFINE range == ShownRange
             available == ~withheld
             dailyTotal == If(available /\ ~Overflowed(range), range.total)
             dailyPeak == If(available /\ ~range.mergeOverflow, Peak(range))
             allTime == Reconciled(available, dailyTotal, dailyPeak, lifetime, reportedPeak)
  <2>1. /\ Shown.total = allTime.total
        /\ Shown.available = available
        /\ Shown.partial = (available /\ (Overflowed(range) \/ allTime.partial))
    BY DEF Shown, Presentation
  <2>2. /\ range.total \in Nat /\ (~Overflowed(range) => range.total = VisibleTotal(Days))
        /\ IsFiniteSet(DOMAIN range.tokens) /\ DOMAIN range.tokens \subseteq Days
        /\ \A d \in DOMAIN range.tokens : range.tokens[d] \in Nat
        /\ ~range.mergeOverflow => \A d \in DOMAIN range.tokens : range.tokens[d] = Visible(d)
    <3>1. RangeDays(timeframe, Source, today) \subseteq Days
      BY SourceShown, SourceIs DEF RangeDays
    <3> QED BY <3>1, RangeShown, AllIsAll, MaxIsNat
  <2>3. Peak(range) \in Nat /\ (Peak(range) = 0 \/ \E d \in DOMAIN range.tokens : Peak(range) = range.tokens[d])
    BY <2>2, PeakIs
  <2>4. /\ available \in BOOLEAN /\ dailyTotal \in Reported /\ dailyPeak \in Reported
        /\ lifetime \in Reported /\ reportedPeak \in Reported
    BY <2>2, <2>3 DEF If, Reported, RInv
  <2> HIDE DEF range, dailyTotal, dailyPeak, allTime
  <2>5. ~withheld => dailyTotal # None /\ dailyTotal = VisibleTotal(Days) /\ ~Overflowed(range)
    <3> SUFFICES ASSUME withheld = FALSE PROVE dailyTotal # None /\ dailyTotal = VisibleTotal(Days) /\ ~Overflowed(range)
      BY DEF RInv
    <3>1. ~Overflowed(range)
      <4> SUFFICES ASSUME Overflowed(range) PROVE FALSE
        OBVIOUS
      <4>1. allTime = Reconciled(TRUE, None, dailyPeak, lifetime, reportedPeak)
        BY DEF allTime, dailyTotal, If
      <4> QED BY <2>1, <4>1, InexactHasNoTotal
    <3> QED BY <2>2, <3>1, NoneIsNoNumber DEF dailyTotal, If
  <2>6. withheld => dailyTotal = None
    BY DEF dailyTotal, If
  <2>7. allTime.total \in {lifetime, dailyTotal}
    <3>1. allTime.total \in {lifetime, dailyTotal, None}
      <4> HIDE DEF available
      <4> QED BY <2>4, ReconciledIsOne, Zenon DEF allTime
    <3> QED BY <2>1, <3>1
  <2>8. \A value \in {dailyTotal, dailyPeak, lifetime, reportedPeak} \ {None} : allTime.total >= value
    BY <2>1, <2>4, ReconciledIsCredible DEF allTime
  <2>9. allTime.partial => allTime.total > dailyTotal
    BY <2>1, <2>4, ReconciledIsCredible DEF allTime
  <2>10. /\ ~withheld => VisibleTotal(Days) = Total(buckets, Days)
         /\ VisibleTotal(Days) \in Nat /\ Total(buckets, Days) \in Nat /\ Total(unseen, Days) \in Nat
         /\ TrueTotal = Total(buckets, Days) + Total(unseen, Days)
    BY SourceShown, AmountsAreNat DEF VisibleTotal, TrueTotal
  <2>11. Shown.total \in Nat
    BY <2>1, <2>4, <2>7 DEF Reported
  <2>12. Shown.total <= TrueTotal
    <3>1. CASE allTime.total = lifetime
      BY <2>1, <3>1 DEF RInv, SummaryLags
    <3>2. CASE allTime.total = dailyTotal
      BY <2>1, <2>5, <2>6, <2>10, <3>2
    <3> QED BY <2>7, <3>1, <3>2
  <2>13. ~withheld => Shown.total >= VisibleTotal(Days)
    BY <2>1, <2>5, <2>8
  <2>14. lifetime # None => Shown.total >= lifetime
    BY <2>1, <2>8
  <2>15. (lifetime = TrueTotal \/ (unseen = <<>> /\ ~withheld)) => Shown.total = TrueTotal
    <3>1. CASE lifetime = TrueTotal
      BY <2>10, <2>11, <2>12, <2>14, <3>1, NoneIsNoNumber
    <3>2. CASE unseen = <<>> /\ ~withheld
      <4>1. Total(unseen, Days) = 0
        BY <3>2, NothingYet
      <4> QED BY <2>10, <2>11, <2>12, <2>13, <3>2, <4>1
    <3> QED BY <3>1, <3>2
  <2>16. ASSUME ~withheld, \A day \in Days : Exceeds(reportedPeak, Visible(day))
         PROVE  Shown.total > VisibleTotal(Days) /\ HistoryStatus = "Partial"
    <3>1. ~range.mergeOverflow
      BY <2>5, <2>16 DEF Overflowed
    <3>2. dailyPeak = Peak(range) /\ dailyPeak # None
      BY <2>3, <2>16, <3>1, NoneIsNoNumber DEF dailyPeak, If
    <3>3. \A d \in Days : Visible(d) \in Nat
      BY SourceShown DEF Visible
    <3>4. \A d \in Days : reportedPeak # None /\ reportedPeak > Visible(d)
      BY <2>16, <3>3, NoneIsNoNumber DEF Exceeds
    <3>5. today \in Days
      BY DEF RInv
    <3>6. reportedPeak # None /\ reportedPeak > Peak(range)
      <4>1. CASE Peak(range) = 0
        BY <2>4, <3>3, <3>4, <3>5, <4>1 DEF Reported
      <4>2. CASE \E d \in DOMAIN range.tokens : Peak(range) = range.tokens[d]
        BY <2>2, <3>1, <3>4, <4>2
      <4> QED BY <2>3, <3>5, <3>4, <4>1, <4>2
    <3>7. Exceeds(reportedPeak, dailyPeak)
      BY <3>2, <3>6 DEF Exceeds
    <3>8. allTime.partial
      BY <2>5, <2>16, <3>7 DEF allTime, Reconciled, ProvenPartial
    <3> QED BY <2>1, <2>5, <2>9, <2>16, <3>8 DEF HistoryStatus
  <2> QED BY <2>12, <2>13, <2>14, <2>15, <2>16
<1> QED BY <1>1, SpecLags, PTL

LEMMA LeastIs ==
  ASSUME NEW S, IsFiniteSet(S), S # {}, S \subseteq Int
  PROVE  Min(S) \in S /\ \A y \in S : Min(S) <= y
<1> DEFINE P == {s \in SUBSET S : s # {} => \E m \in s : \A y \in s : m <= y}
<1>1. {} \in P
  OBVIOUS
<1>2. ASSUME NEW s \in SUBSET S, s # {}, NEW x \in s, s \ {x} \in P PROVE s \in P
  <2>1. CASE s \ {x} = {}
    <3>1. \A y \in s : x <= y
      BY <2>1
    <3> QED BY <3>1
  <2>2. CASE s \ {x} # {}
    <3>1. PICK m \in s \ {x} : \A y \in s \ {x} : m <= y
      BY <1>2, <2>2
    <3>2. CASE m <= x
      BY <3>1, <3>2
    <3>3. CASE ~(m <= x)
      <4>1. \A y \in s : x <= y
        BY <3>1, <3>3
      <4> QED BY <4>1
    <3> QED BY <3>2, <3>3
  <2> QED BY <2>1, <2>2
<1> HIDE DEF P
<1>3. \A s \in SUBSET S : s # {} => \E x \in s : s \ {x} \in P => s \in P
  BY <1>2
<1>4. SUBSET S \subseteq P
  BY <1>1, <1>3, SubsetInduction
<1>5. PICK m \in S : \A y \in S : m <= y
  BY <1>4 DEF P
<1> QED BY <1>5 DEF Min

\* all_time_calendar_day_count: no fewer days than have a bucket.
LEMMA CalendarCovers ==
  ASSUME NEW daily, IsFiniteSet(DOMAIN daily), DOMAIN daily \subseteq Int, NEW day \in Int
  PROVE  CalendarDays(daily, day) \in Nat /\ Cardinality(DOMAIN daily) <= CalendarDays(daily, day)
<1> DEFINE D == DOMAIN daily
           last == Max(D \cup {day})
           first == Min(D)
<1>1. CASE D = {}
  <2>1. Cardinality(D) = 0
    BY <1>1, FS_EmptySet, Zenon
  <2> QED BY <1>1, <2>1 DEF CalendarDays
<1>2. CASE D # {}
  <2>1. IsFiniteSet(D \cup {day}) /\ D \cup {day} # {} /\ D \cup {day} \subseteq Int
    <3>1. IsFiniteSet(D \cup {day})
      BY FS_AddElement
    <3> QED BY <3>1
  <2>2. last \in D \cup {day} /\ \A d \in D \cup {day} : last >= d
    <3> DEFINE E == D \cup {day}
    <3> HIDE DEF E
    <3>1. Max(E) \in E /\ \A d \in E : Max(E) >= d
      BY <2>1, GreatestIs DEF E
    <3> QED BY <3>1 DEF E
  <2>3. first \in D /\ \A d \in D : first <= d
    BY <1>2, LeastIs
  <2>4. CalendarDays(daily, day) = last - first + 1
    BY <1>2 DEF CalendarDays
  <2> HIDE DEF last, first
  <2>5. last \in Int /\ first \in Int /\ first <= last /\ D \subseteq first..last
    BY <2>2, <2>3
  <2>6. IsFiniteSet(first..last) /\ Cardinality(first..last) = last - first + 1
    BY <2>5, FS_Interval
  <2>7. Cardinality(D) <= Cardinality(first..last)
    BY <2>5, <2>6, FS_Subset
  <2> QED BY <2>4, <2>5, <2>6, <2>7
<1> QED BY <1>1, <1>2

LEMMA Division ==
  ASSUME NEW t \in Nat, NEW n \in Nat \ {0}
  PROVE  t \div n \in Nat /\ (t \div n) * n <= t /\ t < (t \div n + 1) * n
  OBVIOUS

\* Beside a daily history that the summary does not contradict, it is the
\* history's figures that are shown.
LEMMA CompleteIsDaily ==
  ASSUME NEW dailyTotal \in Nat, NEW dailyPeak \in Nat, dailyPeak <= dailyTotal,
         lifetime \in Reported, reportedPeak \in Reported,
         ~Reconciled(TRUE, dailyTotal, dailyPeak, lifetime, reportedPeak).partial
  PROVE  /\ Reconciled(TRUE, dailyTotal, dailyPeak, lifetime, reportedPeak).total = dailyTotal
         /\ Reconciled(TRUE, dailyTotal, dailyPeak, lifetime, reportedPeak).peak = dailyPeak
<1> USE NoneIsNoNumber
<1> DEFINE partial == ProvenPartial(TRUE, dailyTotal, dailyPeak, lifetime, reportedPeak)
           highest == Greatest({reportedPeak, dailyPeak})
           candidate == Greatest(Candidates(TRUE, dailyTotal, partial, lifetime))
           r == Reconciled(TRUE, dailyTotal, dailyPeak, lifetime, reportedPeak)
<1>1. ~partial
  BY DEF Reconciled
<1>2. ~Exceeds(lifetime, dailyTotal) /\ ~Exceeds(reportedPeak, dailyPeak)
  BY <1>1 DEF ProvenPartial
<1>3. (lifetime # None => lifetime <= dailyTotal) /\ (reportedPeak # None => reportedPeak <= dailyPeak)
  BY <1>2 DEF Exceeds, Reported
<1>4. dailyTotal \in Reported /\ dailyPeak \in Reported
  BY DEF Reported
<1>5. highest = dailyPeak
  BY <1>3, <1>4, GreatestOfTwo DEF Reported
<1>6. candidate = dailyTotal
  <2>1. Candidates(TRUE, dailyTotal, partial, lifetime) = {lifetime, dailyTotal}
    BY <1>1 DEF Candidates
  <2>2. Greatest({lifetime, dailyTotal}) = dailyTotal
    BY <1>3, <1>4, GreatestOfTwo DEF Reported
  <2> QED BY <2>1, <2>2
<1>7. r.peak = highest /\ r.total = IF Credible(candidate, highest) THEN candidate ELSE None
  BY DEF Reconciled
<1> QED BY <1>5, <1>6, <1>7 DEF Credible

\* The peak of a range is part of its total, and all its days together reach
\* it only at the peak's height.
LEMMA RangeCoheres ==
  ASSUME RInv, ~Overflowed(ShownRange)
  PROVE  LET range == ShownRange
         IN  /\ Peak(range) <= range.total
             /\ range.total <= Peak(range) * Cardinality(History(range))
             /\ range.days \in Nat
             /\ Cardinality(History(range)) \in Nat /\ Cardinality(History(range)) <= range.days
             /\ range.days = 0 => range.total = 0
<1> DEFINE D == RangeDays(timeframe, Source, today)
           range == ShownRange
<1>1. /\ IsFiniteSet(D) /\ DOMAIN range.tokens = D /\ \A d \in D : range.tokens[d] \in Nat
      /\ range.total = SumOn(range.tokens, D)
  BY RangeShown, MaxIsNat
<1>2. /\ Source \in Seq(Bucket) /\ timeframe \in Timeframes /\ today \in Int
  BY SourceShown DEF RInv
<1>3. range.days \in Nat /\ Cardinality(D) <= range.days
  <2> DEFINE daily == Daily(timeframe, Source, today)
  <2>1. range.days = IF timeframe = "all" THEN CalendarDays(daily, today) ELSE WindowDays[timeframe]
    BY <1>2, RangeIs DEF ShownRange
  <2>2. DOMAIN daily = D
    BY DEF Daily
  <2>3. D \subseteq Int /\ (timeframe # "all" => Cardinality(D) = WindowDays[timeframe])
    BY <1>2, RangeDaysAre
  <2>4. timeframe # "all" => WindowDays[timeframe] \in Nat
    BY <1>2, UsageRangeAssumption DEF Timeframes
  <2> HIDE DEF D, daily, range
  <2>5. CalendarDays(daily, today) \in Nat /\ Cardinality(D) <= CalendarDays(daily, today)
    BY <1>1, <1>2, <2>2, <2>3, CalendarCovers
  <2> QED BY <2>1, <2>3, <2>4, <2>5
<1> HIDE DEF D, range
<1>4. /\ Peak(range) \in Nat /\ \A d \in D : range.tokens[d] <= Peak(range)
      /\ Peak(range) = 0 \/ \E d \in D : Peak(range) = range.tokens[d]
  BY <1>1, PeakIs
<1>5. SumOn(range.tokens, D) \in Nat /\ \A d \in D : range.tokens[d] <= SumOn(range.tokens, D)
  <2>1. D \in SUBSET D
    OBVIOUS
  <2> QED BY <1>1, <2>1, SumStep, SumOfPart
<1>6. Peak(range) <= range.total
  BY <1>1, <1>4, <1>5
<1>7. History(range) = {d \in D : range.tokens[d] > 0}
  BY <1>1 DEF History
<1>8. range.total <= Peak(range) * Cardinality(History(range))
  <2>1. \A d \in D : range.tokens[d] \in 0..Peak(range)
    BY <1>1, <1>4
  <2>2. SumOn(range.tokens, D) <= Peak(range) * Cardinality({d \in D : range.tokens[d] > 0})
    BY <1>1, <1>4, <2>1, SumAtMost
  <2> QED BY <1>1, <1>7, <2>2
<1>9. Cardinality(History(range)) \in Nat /\ Cardinality(History(range)) <= Cardinality(D)
  <2>1. History(range) \in SUBSET D
    BY <1>7
  <2>2. IsFiniteSet(History(range)) /\ Cardinality(History(range)) <= Cardinality(D)
    BY <1>1, <2>1, FS_Subset
  <2> QED BY <2>2, FS_CardinalityType
<1>10. Cardinality(D) \in Nat
  BY <1>1, FS_CardinalityType
<1>11. range.days = 0 => range.total = 0
  <2> SUFFICES ASSUME range.days = 0 PROVE range.total = 0
    OBVIOUS
  <2>1. Cardinality(History(range)) = 0
    BY <1>3, <1>9, <1>10
  <2> QED BY <1>1, <1>4, <1>5, <1>8, <2>1
<1> QED BY <1>3, <1>6, <1>8, <1>9, <1>10, <1>11 DEF range

LEMMA AverageIs ==
  ASSUME NEW total \in Nat, NEW days \in Nat, days = 0 => total = 0
  PROVE  LET average == IF days = 0 THEN 0 ELSE total \div days
         IN  average * days <= total /\ total < (average + 1) * Max({days, 1})
<1> DEFINE average == IF days = 0 THEN 0 ELSE total \div days
           S == {days, 1}
<1>1. Max(S) \in S /\ \A y \in S : Max(S) >= y
  <2>1. IsFiniteSet(S)
    <3>1. IsFiniteSet({1})
      BY FS_Singleton, Zenon
    <3>2. IsFiniteSet({1} \cup {days})
      BY <3>1, FS_AddElement
    <3>3. S = {1} \cup {days}
      OBVIOUS
    <3> QED BY <3>2, <3>3
  <2>2. S # {} /\ S \subseteq Int
    OBVIOUS
  <2> HIDE DEF S
  <2> QED BY <2>1, <2>2, GreatestIs
<1>2. CASE days = 0
  <2>1. Max(S) = 1
    BY <1>1, <1>2
  <2> QED BY <1>2, <2>1
<1>3. CASE days # 0
  <2>1. Max(S) = days
    BY <1>1, <1>3
  <2>2. average = total \div days
    BY <1>3
  <2>3. (total \div days) * days <= total /\ total < (total \div days + 1) * days
    BY <1>3, Division
  <2> QED BY <2>1, <2>2, <2>3
<1> QED BY <1>2, <1>3

\* The figures shown together can all be true: peak, total, active days and
\* average fit together, and the chart's peak and the history's days are the
\* ones that are shown (render_stats, render_chart, render_history).
THEOREM FiguresFit == Spec => []FiguresCohere
<1>1. RInv => FiguresCohere
  <2> SUFFICES ASSUME RInv PROVE FiguresCohere
    OBVIOUS
  <2> USE NoneIsNoNumber
  <2> DEFINE range == ShownRange
             available == ~withheld
             dailyTotal == If(available /\ ~Overflowed(range), range.total)
             dailyPeak == If(available /\ ~range.mergeOverflow, Peak(range))
             allTime == Reconciled(available, dailyTotal, dailyPeak, lifetime, reportedPeak)
             complete == available /\ ~Shown.partial
             active == Cardinality(History(range))
  <2>1. /\ Shown.total = IF timeframe = "all" THEN allTime.total ELSE dailyTotal
        /\ Shown.peak = IF timeframe = "all" THEN If(~range.mergeOverflow, allTime.peak) ELSE dailyPeak
        /\ Shown.average = If(complete, Average(range))
        /\ Shown.activeDays = If(complete, active)
        /\ Shown.available = available
        /\ Shown.partial = (available /\ (Overflowed(range) \/ (timeframe = "all" /\ allTime.partial)))
    BY DEF Shown, Presentation
  <2>2. range.total \in Nat /\ Peak(range) \in Nat
    <3>1. /\ range.total \in 0..MaxTokens /\ IsFiniteSet(DOMAIN range.tokens)
          /\ \A d \in DOMAIN range.tokens : range.tokens[d] \in 0..MaxTokens
      BY RangeShown
    <3>2. \A d \in DOMAIN range.tokens : range.tokens[d] \in Nat
      BY <3>1, MaxIsNat
    <3> QED BY <3>1, <3>2, PeakIs, MaxIsNat
  <2>3. /\ available \in BOOLEAN /\ dailyTotal \in Reported /\ dailyPeak \in Reported
        /\ lifetime \in Reported /\ reportedPeak \in Reported
    BY <2>2 DEF If, Reported, RInv
  <2>4. ~Overflowed(range) =>
           /\ Peak(range) <= range.total /\ range.total <= Peak(range) * active
           /\ range.days \in Nat /\ active \in Nat /\ active <= range.days
           /\ range.days = 0 => range.total = 0
    BY RangeCoheres
  <2> HIDE DEF range, dailyTotal, dailyPeak, allTime, active
  <2>5. ASSUME Shown.total # None, Shown.peak # None PROVE Shown.peak <= Shown.total
    <3>1. CASE timeframe = "all"
      <4>1. allTime.total # None /\ Shown.total = allTime.total /\ Shown.peak = allTime.peak /\ allTime.peak # None
        BY <2>1, <2>5, <3>1 DEF If
      <4>2. allTime.peak # None => allTime.peak <= allTime.total
        BY <2>3, <4>1, ReconciledIsCredible DEF allTime
      <4> QED BY <4>1, <4>2
    <3>2. CASE timeframe # "all"
      <4>1. dailyTotal # None /\ dailyPeak # None /\ Shown.total = dailyTotal /\ Shown.peak = dailyPeak
        BY <2>1, <2>5, <3>2
      <4>2. ~Overflowed(range) /\ dailyTotal = range.total /\ dailyPeak = Peak(range)
        BY <4>1 DEF dailyTotal, dailyPeak, If
      <4> QED BY <2>4, <4>1, <4>2
    <3> QED BY <3>1, <3>2
  <2>6. ASSUME Shown.average # None
        PROVE  /\ Shown.total # None /\ Shown.peak # None
               /\ Shown.total <= Shown.peak * Shown.activeDays
               /\ Shown.average * range.days <= Shown.total
               /\ Shown.total < (Shown.average + 1) * Max({range.days, 1})
               /\ Shown.activeDays <= range.days
               /\ Cardinality(ListedDays) = Shown.activeDays
               /\ ChartPeak = If(Shown.peak # 0, Shown.peak)
    <3>1. available /\ ~Overflowed(range) /\ ~range.mergeOverflow /\ complete
          /\ (timeframe = "all" => ~allTime.partial)
      BY <2>1, <2>6 DEF If, Overflowed
    <3>2. dailyTotal = range.total /\ dailyPeak = Peak(range)
      BY <3>1 DEF dailyTotal, dailyPeak, If
    <3>3. Shown.total = range.total /\ Shown.peak = Peak(range)
      <4>1. CASE timeframe = "all"
        <5>1. allTime = Reconciled(TRUE, range.total, Peak(range), lifetime, reportedPeak) /\ ~allTime.partial
          BY <3>1, <3>2, <4>1 DEF allTime
        <5>2. allTime.total = range.total /\ allTime.peak = Peak(range)
          BY <2>2, <2>3, <2>4, <3>1, <5>1, CompleteIsDaily
        <5> QED BY <2>1, <3>1, <4>1, <5>2 DEF If
      <4>2. CASE timeframe # "all"
        BY <2>1, <3>2, <4>2
      <4> QED BY <4>1, <4>2
    <3>4. Shown.average = Average(range) /\ Shown.activeDays = active
      BY <2>1, <3>1 DEF If
    <3>5. Average(range) * range.days <= range.total
          /\ range.total < (Average(range) + 1) * Max({range.days, 1})
      BY <2>2, <2>4, <3>1, AverageIs DEF Average
    <3>6. ListedDays = History(range)
      BY <2>1, <3>1 DEF ListedDays, range
    <3>7. ChartPeak = If(Peak(range) \notin {None, 0}, Peak(range))
      BY <2>1, <3>1 DEF ChartPeak, If, range
    <3>8. Peak(range) # None
      BY <2>2
    <3>9. ChartPeak = If(Shown.peak # 0, Shown.peak)
      BY <3>3, <3>7, <3>8 DEF If
    <3>10. Cardinality(ListedDays) = Shown.activeDays
      BY <3>4, <3>6 DEF active
    <3> QED BY <2>2, <2>4, <3>1, <3>3, <3>4, <3>5, <3>9, <3>10
  <2> QED BY <2>5, <2>6 DEF FiguresCohere, range
<1> QED BY <1>1, SpecLags, PTL
=============================================================================
