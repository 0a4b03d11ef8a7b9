---------------------------- MODULE ChartProofs ----------------------------
(***************************************************************************)
(* What holds of the chart, for every set of charts and every series of    *)
(* buckets.  Of a chart's selection: what the screen reader has been told, *)
(* the mark on the screen, the second Escape, and the hovered day and the  *)
(* ticks, which are nearest to their places because the binary search for  *)
(* them is right.  Of the series that is charted and of what is drawn of   *)
(* it: that both are samples of the days as they were, however often they  *)
(* were thinned, with the highest day among them and below the axis' top.  *)
(***************************************************************************)
EXTENDS UsageChart, ChartSeries, TLAPS, WellFoundedInduction, FiniteSetTheorems

-----------------------------------------------------------------------------
(* The binary search. *)

Ascending(p) == p \in Seq(Int) /\ \A i, j \in DOMAIN p : i < j => p[i] < p[j]

\* What is true of some number is true of a least one: all inductions here
\* look for the least counterexample.
LEMMA LeastNatural ==
    ASSUME NEW T, T \subseteq Nat, T # {}
    PROVE  \E m \in T : \A k \in T : m <= k
<1>1. IsWellFoundedOn(OpToRel(<, Nat), Nat)
  BY NatLessThanWellFounded, Zenon
<1>2. PICK m \in T : \A k \in T : <<k, m>> \notin OpToRel(<, Nat)
  BY <1>1, WFMin, Zenon
<1>3. \A k \in T : ~(k < m)
  BY <1>2 DEF OpToRel
<1> QED BY <1>3

LEMMA StepsAscend ==
    ASSUME NEW p \in Seq(Int), \A i \in DOMAIN p : i > 1 => p[i - 1] < p[i]
    PROVE  Ascending(p)
<1> DEFINE n == Len(p)
<1>0. n \in Nat /\ DOMAIN p = 1..n /\ \A i \in 1..n : p[i] \in Int
  OBVIOUS
<1> HIDE DEF n
<1>1. SUFFICES ASSUME NEW i \in 1..n, \E j \in 1..n : i < j /\ ~(p[i] < p[j]) PROVE FALSE
  BY <1>0 DEF Ascending
<1> DEFINE T == {j \in 1..n : i < j /\ ~(p[i] < p[j])}
<1>2. T \subseteq Nat /\ T # {}
  BY <1>0, <1>1
<1>3. PICK j \in T : \A k \in T : j <= k
  BY <1>2, LeastNatural, Zenon
<1>4. j \in 1..n /\ i < j /\ ~(p[i] < p[j])
  BY <1>3
<1>5. j > 1 /\ j - 1 \in 1..n /\ i <= j - 1
  BY <1>0, <1>1, <1>4
<1>6. p[i] \in Int /\ p[j] \in Int /\ p[j - 1] \in Int /\ p[j - 1] < p[j]
  BY <1>0, <1>1, <1>4, <1>5
<1>7. j - 1 \notin T
  BY <1>3, <1>4, <1>5
<1>8. j - 1 = i \/ p[i] < p[j - 1]
  BY <1>1, <1>5, <1>7
<1> QED BY <1>4, <1>6, <1>8

\* How many positions lie left of x.
LEMMA CutExists ==
    ASSUME NEW p, Ascending(p), NEW x \in Int
    PROVE  \E c \in 0..Len(p) : \A i \in DOMAIN p : p[i] < x <=> i <= c
<1> DEFINE n == Len(p)
<1>0. n \in Nat /\ DOMAIN p = 1..n /\ (\A i \in 1..n : p[i] \in Int)
      /\ \A i, j \in 1..n : i < j => p[i] < p[j]
  BY DEF Ascending
<1> HIDE DEF n
<1> DEFINE T == {i \in 1..(n + 1) : i = n + 1 \/ ~(p[i] < x)}
<1>1. T \subseteq Nat /\ n + 1 \in T
  BY <1>0
<1>2. PICK m \in T : \A k \in T : m <= k
  BY <1>1, LeastNatural, Zenon
<1>3. m - 1 \in 0..n
  BY <1>0, <1>2
<1>4. ASSUME NEW i \in 1..n PROVE p[i] < x <=> i <= m - 1
  <2>1. CASE i <= m - 1
    BY <1>0, <1>2, <2>1
  <2>2. CASE i > m - 1
    <3>1. m \in 1..n /\ ~(p[m] < x)
      BY <1>0, <1>2, <2>2
    <3>2. i = m \/ p[m] < p[i]
      BY <1>0, <1>2, <2>2, <3>1
    <3> QED BY <1>0, <3>1, <3>2, <2>2, <1>3
  <2> QED BY <2>1, <2>2, <1>0, <1>3
<1> QED BY <1>0, <1>3, <1>4 DEF n

\* One step of the recursion of Neighbours, and a function that makes it.
SearchStep(search, position, positions, range) ==
    LET lower == range[1]
        upper == range[2]
        middle == (lower + upper) \div 2
    IN  IF upper - lower <= 1 THEN range
        ELSE IF positions[middle] < position THEN search[<<middle, upper>>]
        ELSE search[<<lower, middle>>]

Searches(search, position, positions) ==
    search = [range \in (DOMAIN positions) \X (DOMAIN positions) |->
                 SearchStep(search, position, positions, range)]

\* It is found, as halving a range that brackets the cut brackets it again.
LEMMA SearchExists ==
    ASSUME NEW p, Ascending(p), NEW x \in Int
    PROVE  \E search : Searches(search, x, p)
<1> DEFINE n == Len(p)
           D == DOMAIN p
<1>0. n \in Nat /\ D = 1..n
  BY DEF Ascending
<1>1. PICK c \in 0..n : \A i \in D : p[i] < x <=> i <= c
  BY CutExists
<1> HIDE DEF D, n
<1> DEFINE Within(l, u) == IF c < l THEN l ELSE IF c >= u THEN u - 1 ELSE c
           found == [range \in D \X D |->
                       IF range[2] - range[1] <= 1 THEN range
                       ELSE <<Within(range[1], range[2]), Within(range[1], range[2]) + 1>>]
<1>2. ASSUME NEW l \in D, NEW u \in D, u - l > 1, NEW m, m = (l + u) \div 2
      PROVE  /\ m \in D
             /\ found[<<l, u>>] = IF p[m] < x THEN found[<<m, u>>] ELSE found[<<l, m>>]
  <2>1. /\ l \in Int /\ u \in Int /\ c \in Int /\ m \in D /\ l < m /\ m < u
        /\ m \in Int
    BY <1>0, <1>1, <1>2
  <2>2. found[<<l, u>>] = <<Within(l, u), Within(l, u) + 1>>
    BY <1>2, <2>1
  <2>3. CASE p[m] < x
    <3>1. m <= c
      BY <1>1, <2>1, <2>3
    <3>2. CASE u - m <= 1
      <4>1. found[<<m, u>>] = <<m, u>>
        BY <2>1, <3>2
      <4>2. u = m + 1 /\ Within(l, u) = m
        BY <2>1, <3>1, <3>2
      <4> QED BY <2>1, <2>2, <2>3, <4>1, <4>2
    <3>3. CASE ~(u - m <= 1)
      <4>1. found[<<m, u>>] = <<Within(m, u), Within(m, u) + 1>>
        BY <2>1, <3>3
      <4>2. Within(m, u) = Within(l, u)
        BY <2>1, <3>1
      <4> QED BY <2>1, <2>2, <2>3, <4>1, <4>2
    <3> QED BY <3>2, <3>3
  <2>4. CASE ~(p[m] < x)
    <3>1. c < m
      BY <1>1, <2>1, <2>4
    <3>2. CASE m - l <= 1
      <4>1. found[<<l, m>>] = <<l, m>>
        BY <2>1, <3>2
      <4>2. m = l + 1 /\ Within(l, u) = l
        BY <2>1, <3>1, <3>2
      <4> QED BY <2>1, <2>2, <2>4, <4>1, <4>2
    <3>3. CASE ~(m - l <= 1)
      <4>1. found[<<l, m>>] = <<Within(l, m), Within(l, m) + 1>>
        BY <2>1, <3>3
      <4>2. Within(l, m) = Within(l, u)
        BY <2>1, <3>1
      <4> QED BY <2>1, <2>2, <2>4, <4>1, <4>2
    <3> QED BY <3>2, <3>3
  <2> QED BY <2>1, <2>3, <2>4
<1>3. ASSUME NEW range \in D \X D
      PROVE  found[range] = SearchStep(found, x, p, range)
  <2>1. PICK l \in D, u \in D : range = <<l, u>>
    BY <1>3
  <2>2. CASE u - l <= 1
    BY <2>1, <2>2 DEF SearchStep
  <2>3. CASE ~(u - l <= 1)
    <3>1. u - l > 1
      BY <1>0, <2>3
    <3> DEFINE m == (l + u) \div 2
    <3> HIDE DEF found
    <3>2. found[<<l, u>>] = IF p[m] < x THEN found[<<m, u>>] ELSE found[<<l, m>>]
      BY <1>2, <3>1
    <3> QED BY <2>1, <2>3, <3>2 DEF SearchStep
  <2> QED BY <2>2, <2>3
<1>4. found = [range \in D \X D |-> found[range]]
  OBVIOUS
<1> HIDE DEF found
<1>5. found = [range \in D \X D |-> SearchStep(found, x, p, range)]
  BY <1>3, <1>4
<1>6. D = DOMAIN p
  BY DEF D
<1>7. Searches(found, x, p)
  BY <1>5, <1>6, Zenon DEF Searches
<1> QED BY <1>7

LEMMA NeighboursSearches ==
    ASSUME NEW p, Ascending(p), NEW x \in Int
    PROVE  \E search : Searches(search, x, p) /\ Neighbours(x, p) = search[<<1, Len(p)>>]
<1> DEFINE search == CHOOSE s : Searches(s, x, p)
<1>1. Searches(search, x, p)
  BY SearchExists, Zenon
<1>2. Neighbours(x, p) = search[<<1, Len(p)>>]
  BY Zenon DEF Neighbours, Searches, SearchStep
<1> HIDE DEF search
<1> QED BY <1>1, <1>2

\* It ends at the two neighbours.
LEMMA SearchBrackets ==
    ASSUME NEW p, Ascending(p), NEW x \in Int, NEW search, Searches(search, x, p),
           NEW l \in DOMAIN p, NEW u \in DOMAIN p, l < u, p[l] < x, x <= p[u]
    PROVE  \E k \in DOMAIN p : /\ search[<<l, u>>] = <<k, k + 1>> /\ k + 1 \in DOMAIN p
                               /\ p[k] < x /\ x <= p[k + 1]
<1> DEFINE D == DOMAIN p
           Found(a, b) == \E k \in D : /\ search[<<a, b>>] = <<k, k + 1>> /\ k + 1 \in D
                                       /\ p[k] < x /\ x <= p[k + 1]
           Bad(a, b) == a < b /\ p[a] < x /\ x <= p[b] /\ ~Found(a, b)
           T == {w \in Nat : \E a, b \in D : w = b - a /\ Bad(a, b)}
<1>0. D = 1..Len(p) /\ Len(p) \in Nat /\ \A i \in D : p[i] \in Int
  BY DEF Ascending
<1>1. SUFFICES ASSUME T # {} PROVE FALSE
  <2>1. l - 0 \in Int /\ u - l \in Nat
    BY <1>0
  <2>2. ~Found(l, u) => u - l \in T
    BY <2>1
  <2> QED BY <2>2
<1>2. PICK w \in T : \A v \in T : w <= v
  BY <1>1, LeastNatural, Zenon
<1>3. PICK a \in D, b \in D : w = b - a /\ Bad(a, b)
  BY <1>2
<1> DEFINE m == (a + b) \div 2
<1>4. search[<<a, b>>] = SearchStep(search, x, p, <<a, b>>)
  <2>1. <<a, b>> \in (DOMAIN p) \X (DOMAIN p)
    OBVIOUS
  <2> QED BY <2>1 DEF Searches
<1> HIDE DEF D, Found, T
<1>5. CASE b - a <= 1
  <2>1. b = a + 1 /\ search[<<a, b>>] = <<a, b>>
    BY <1>0, <1>3, <1>4, <1>5 DEF SearchStep
  <2> QED BY <1>3, <2>1 DEF Found
<1>6. CASE ~(b - a <= 1)
  <2>1. a \in Int /\ b \in Int /\ m \in D /\ a < m /\ m < b /\ p[m] \in Int
    BY <1>0, <1>6
  <2>2. \A c, d \in D : d - c < b - a /\ c < d /\ p[c] < x /\ x <= p[d] => Found(c, d)
    <3> SUFFICES ASSUME NEW c \in D, NEW d \in D, d - c < b - a, c < d, p[c] < x, x <= p[d], ~Found(c, d)
                 PROVE  FALSE
      OBVIOUS
    <3>1. d - c \in Nat
      BY <1>0
    <3>2. d - c \in T
      BY <3>1 DEF T
    <3> QED BY <1>0, <1>2, <1>3, <3>1, <3>2
  <2>3. CASE p[m] < x
    <3>1. search[<<a, b>>] = search[<<m, b>>]
      BY <1>4, <1>6, <2>3 DEF SearchStep
    <3>2. b - m < b - a
      BY <2>1
    <3>3. Found(m, b)
      BY <1>3, <2>1, <2>2, <2>3, <3>2
    <3> QED BY <1>3, <3>1, <3>3 DEF Found
  <2>4. CASE ~(p[m] < x)
    <3>1. search[<<a, b>>] = search[<<a, m>>]
      BY <1>4, <1>6, <2>4 DEF SearchStep
    <3>2. m - a < b - a /\ x <= p[m]
      BY <2>1, <2>4
    <3>3. Found(a, m)
      BY <1>3, <2>1, <2>2, <3>2
    <3> QED BY <1>3, <3>1, <3>3 DEF Found
  <2> QED BY <2>3, <2>4
<1> QED BY <1>5, <1>6

\* The nearest position is found whatever the positions are, as long as they ascend.
LEMMA NearestIsNearest ==
    ASSUME NEW p, Ascending(p), p # <<>>, NEW x \in Int
    PROVE  /\ Nearest(x, p) \in DOMAIN p
           /\ \A i \in DOMAIN p : Distance(p[Nearest(x, p)], x) <= Distance(p[i], x)
<1> DEFINE n == Len(p)
<1>0. /\ n \in Nat /\ DOMAIN p = 1..n /\ n >= 1
      /\ \A i \in 1..n : p[i] \in Int
      /\ \A i, j \in 1..n : i < j => p[i] < p[j]
  BY DEF Ascending
<1>1. ASSUME NEW i \in 1..n, NEW j \in 1..n, i <= j PROVE p[i] <= p[j]
  BY <1>0, <1>1
<1> HIDE DEF n
<1>2. CASE n = 1 \/ x <= p[1]
  <2>1. Nearest(x, p) = 1
    BY <1>2 DEF Nearest, n
  <2>2. ASSUME NEW i \in 1..n PROVE Distance(p[1], x) <= Distance(p[i], x)
    <3>1. CASE n = 1
      <4>1. i = 1 /\ p[1] \in Int
        BY <1>0, <3>1
      <4> QED BY <4>1 DEF Distance
    <3>2. CASE x <= p[1]
      <4>1. p[1] <= p[i] /\ p[1] \in Int /\ p[i] \in Int
        BY <1>0, <1>1
      <4> QED BY <3>2, <4>1 DEF Distance
    <3> QED BY <1>2, <3>1, <3>2
  <2> QED BY <1>0, <2>1, <2>2
<1>3. CASE ~(n = 1 \/ x <= p[1]) /\ x >= p[n]
  <2>1. Nearest(x, p) = n
    BY <1>3 DEF Nearest, n
  <2>2. ASSUME NEW i \in 1..n PROVE Distance(p[n], x) <= Distance(p[i], x)
    <3>1. p[i] <= p[n] /\ p[n] \in Int /\ p[i] \in Int
      BY <1>0, <1>1
    <3> QED BY <1>3, <3>1 DEF Distance
  <2> QED BY <1>0, <2>1, <2>2
<1>4. CASE ~(n = 1 \/ x <= p[1]) /\ ~(x >= p[n])
  <2>1. PICK search : Searches(search, x, p) /\ Neighbours(x, p) = search[<<1, n>>]
    BY NeighboursSearches DEF n
  <2>2. 1 \in DOMAIN p /\ n \in DOMAIN p /\ 1 < n /\ p[1] < x /\ x <= p[n]
    BY <1>0, <1>4
  <2>3. PICK k \in DOMAIN p : /\ search[<<1, n>>] = <<k, k + 1>> /\ k + 1 \in DOMAIN p
                              /\ p[k] < x /\ x <= p[k + 1]
    BY <2>1, <2>2, SearchBrackets
  <2>4. Neighbours(x, p)[1] = k /\ Neighbours(x, p)[2] = k + 1
    BY <2>1, <2>3
  <2>5. Nearest(x, p) = IF x - p[k] < p[k + 1] - x THEN k ELSE k + 1
    BY <1>4, <2>4 DEF Nearest, n
  <2>6. p[k] \in Int /\ p[k + 1] \in Int /\ k \in 1..n /\ k + 1 \in 1..n
    BY <1>0, <2>3
  <2>7. ASSUME NEW i \in 1..n PROVE Distance(p[Nearest(x, p)], x) <= Distance(p[i], x)
    <3>1. p[i] <= p[k] \/ p[k + 1] <= p[i]
      BY <1>1, <2>6
    <3>2. p[i] \in Int
      BY <1>0
    <3> QED BY <2>3, <2>5, <2>6, <3>1, <3>2 DEF Distance
  <2> QED BY <1>0, <2>5, <2>6, <2>7
<1> QED BY <1>2, <1>3, <1>4

-----------------------------------------------------------------------------
(* Positions and ticks. *)

LEMMA ChartAscends ==
    ASSUME NEW c \in Charts, c # <<>>
    PROVE  Ascending(c) /\ c[1] = 0 /\ Len(c) \in Nat \ {0} /\ \A i \in DOMAIN c : c[i] \in Nat
<1>1. /\ c \in Seq(Nat)
      /\ \A i \in DOMAIN c : c[1] = 0 /\ (i > 1 => c[i - 1] < c[i])
  BY UsageChartAssumption
<1>2. c \in Seq(Int) /\ DOMAIN c = 1..Len(c) /\ Len(c) \in Nat \ {0}
  BY <1>1
<1>3. Ascending(c)
  BY <1>1, <1>2, StepsAscend
<1> QED BY <1>1, <1>2, <1>3

LEMMA ScaledAscend ==
    ASSUME chart \in Charts, chart # <<>>, NEW k \in Nat \ {0}
    PROVE  LET scaled == [i \in DOMAIN chart |-> Positions[i] * k]
           IN  /\ Ascending(scaled) /\ Len(scaled) = Len(chart) /\ DOMAIN scaled = DOMAIN chart
               /\ Len(chart) > 1 => scaled[1] = 0 /\ scaled[Len(chart)] = RightEnd * k
               /\ RightEnd \in Nat /\ Positions \in Seq(Nat) /\ DOMAIN Positions = DOMAIN chart
               /\ Len(chart) \in Nat \ {0}
<1> DEFINE n == Len(chart)
           scaled == [i \in DOMAIN chart |-> Positions[i] * k]
<1>1. /\ n \in Nat \ {0} /\ DOMAIN chart = 1..n
      /\ chart[1] = 0 /\ \A i \in 1..n : chart[i] \in Nat
      /\ \A i, j \in 1..n : i < j => chart[i] < chart[j]
  BY ChartAscends DEF Ascending
<1>2. /\ Positions = IF n = 1 THEN <<1>> ELSE [i \in 1..n |-> 2 * chart[i]]
      /\ RightEnd = IF n = 1 THEN 2 ELSE 2 * chart[n]
  BY <1>1 DEF Positions, RightEnd
<1> HIDE DEF n
<1>3. /\ Positions \in Seq(Nat) /\ DOMAIN Positions = 1..n
      /\ \A i \in 1..n : Positions[i] \in Nat
      /\ \A i, j \in 1..n : i < j => Positions[i] < Positions[j]
  <2>1. CASE n = 1
    <3>1. Positions = <<1>>
      BY <1>2, <2>1
    <3> QED BY <2>1, <3>1
  <2>2. CASE n # 1
    <3>1. Positions = [i \in 1..n |-> 2 * chart[i]]
      BY <1>2, <2>2
    <3> QED BY <1>1, <3>1
  <2> QED BY <2>1, <2>2
<1>4. /\ scaled = [i \in 1..n |-> Positions[i] * k] /\ scaled \in Seq(Int)
      /\ DOMAIN scaled = 1..n /\ Len(scaled) = n
  BY <1>1, <1>3
<1>5. ASSUME NEW i \in 1..n, NEW j \in 1..n, i < j PROVE scaled[i] < scaled[j]
  <2>1. Positions[i] \in Nat /\ Positions[j] \in Nat /\ Positions[i] < Positions[j]
    BY <1>3, <1>5
  <2>2. \A a, b \in Nat : a < b => a * k < b * k
    OBVIOUS
  <2>3. Positions[i] * k < Positions[j] * k
    BY <2>1, <2>2
  <2> QED BY <1>4, <2>3
<1>6. n > 1 => scaled[1] = 0 /\ scaled[n] = RightEnd * k
  BY <1>1, <1>2, <1>4
<1>7. RightEnd \in Nat
  BY <1>1, <1>2
<1> HIDE DEF scaled
<1>8. Ascending(scaled)
  BY <1>4, <1>5 DEF Ascending
<1> QED BY <1>1, <1>3, <1>4, <1>6, <1>7, <1>8 DEF scaled, n

\* Ticks are days nearest to the places where ticks should be, the two ends
\* among them, and so no more than there are places.
LEMMA TicksAreRight ==
    ASSUME chart \in Charts, chart # <<>>, NEW maximum \in MaxTicks
    PROVE  TicksAreNearest(maximum)
<1> DEFINE n == Len(chart)
           k == maximum - 1
           scaled == [i \in DOMAIN chart |-> Positions[i] * k]
<1>1. maximum \in Nat /\ maximum >= 2 /\ k \in Nat \ {0}
  BY UsageChartAssumption
<1>2. /\ Ascending(scaled) /\ Len(scaled) = n /\ DOMAIN scaled = DOMAIN chart
      /\ n > 1 => scaled[1] = 0 /\ scaled[n] = RightEnd * k
      /\ RightEnd \in Nat /\ n \in Nat \ {0} /\ DOMAIN chart = 1..n
  <2>1. chart \in Seq(Nat)
    BY UsageChartAssumption
  <2>2. DOMAIN chart = 1..n
    BY <2>1
  <2>3. /\ Ascending(scaled) /\ Len(scaled) = n /\ DOMAIN scaled = DOMAIN chart
        /\ n > 1 => scaled[1] = 0 /\ scaled[n] = RightEnd * k
        /\ RightEnd \in Nat /\ n \in Nat \ {0}
    BY <1>1, ScaledAscend, Zenon
  <2> QED BY <2>2, <2>3
<1>3. scaled # <<>>
  BY <1>2
<1>4. \A i \in DOMAIN chart : scaled[i] = Positions[i] * k
  OBVIOUS
<1>5. Ticks(maximum) = IF n <= maximum THEN DOMAIN chart
                       ELSE {Nearest(tick * RightEnd, scaled) : tick \in 0..k}
  BY DEF Ticks
<1> HIDE DEF scaled, n
<1>6. ASSUME NEW tick \in 0..k
      PROVE  /\ tick * RightEnd \in Int
             /\ Nearest(tick * RightEnd, scaled) \in DOMAIN chart
             /\ \A j \in DOMAIN chart : Nearer(Nearest(tick * RightEnd, scaled), j, tick * RightEnd, k)
  <2> DEFINE x == tick * RightEnd
             i == Nearest(x, scaled)
  <2>1. x \in Int
    BY <1>1, <1>2
  <2> HIDE DEF x
  <2>2. /\ i \in DOMAIN chart
        /\ \A j \in DOMAIN chart : Distance(scaled[i], x) <= Distance(scaled[j], x)
    BY <1>2, <1>3, <2>1, NearestIsNearest
  <2> HIDE DEF i
  <2>3. \A j \in DOMAIN chart : Nearer(i, j, x, k)
    BY <1>4, <2>2 DEF Nearer
  <2> QED BY <2>1, <2>2, <2>3 DEF i, x
<1>7. CASE n <= maximum
  <2>1. Ticks(maximum) = 1..n
    BY <1>2, <1>5, <1>7
  <2>2. Cardinality(1..n) = n
    BY <1>2, FS_Interval
  <2> QED BY <1>2, <1>6, <1>7, <2>1, <2>2 DEF TicksAreNearest, n
<1>8. CASE ~(n <= maximum)
  <2> DEFINE place == [tick \in 0..k |-> Nearest(tick * RightEnd, scaled)]
             T == Ticks(maximum)
  <2>1. T = {place[tick] : tick \in 0..k}
    BY <1>5, <1>8
  <2>2. n > 1
    BY <1>1, <1>2, <1>8
  <2>3. 0 \in 0..k /\ k \in 0..k
    BY <1>1
  <2>4. place[0] = 1
    <3>1. 0 * RightEnd = 0 /\ 0 <= scaled[1]
      BY <1>2, <2>2
    <3>2. Nearest(0 * RightEnd, scaled) = 1
      BY <3>1 DEF Nearest
    <3> QED BY <2>3, <3>2
  <2>5. place[k] = n
    <3>1. k * RightEnd = scaled[n] /\ scaled[1] < scaled[n]
          /\ scaled[1] \in Int /\ scaled[n] \in Int
      BY <1>1, <1>2, <2>2 DEF Ascending
    <3>2. ~(k * RightEnd <= scaled[1]) /\ k * RightEnd >= scaled[n] /\ Len(scaled) # 1
      BY <1>2, <2>2, <3>1
    <3>3. Nearest(k * RightEnd, scaled) = n
      BY <1>2, <3>2 DEF Nearest
    <3> QED BY <2>3, <3>3
  <2> HIDE DEF T
  <2>6. {1, n} \subseteq T
    BY <2>1, <2>3, <2>4, <2>5
  <2>7. Cardinality(T) <= maximum
    <3>1. place \in Surjection(0..k, T)
      <4>1. place \in [0..k -> T]
        BY <2>1
      <4> HIDE DEF place
      <4> QED BY <2>1, <4>1 DEF Surjection
    <3>2. IsFiniteSet(0..k) /\ Cardinality(0..k) = maximum
      BY <1>1, FS_Interval
    <3>3. Cardinality(T) <= Cardinality(0..k)
      BY <3>1, <3>2, FS_Surjection
    <3> QED BY <3>2, <3>3
  <2>8. ASSUME NEW tick \in 0..k
        PROVE  \E i \in T : \A j \in DOMAIN chart : Nearer(i, j, tick * RightEnd, k)
    <3>1. place[tick] \in T /\ place[tick] = Nearest(tick * RightEnd, scaled)
      BY <2>1
    <3> QED BY <1>6, <3>1
  <2> QED BY <2>6, <2>7, <2>8 DEF TicksAreNearest, T, n
<1> QED BY <1>7, <1>8

\* Where the day nearest to the pointer is hovered, no day is nearer.
LEMMA HoveredIsNearest ==
    ASSUME chart \in Charts, NEW x \in Int
    PROVE  \A i \in DOMAIN chart : Nearer(Nearest(x, Positions), i, x, 1)
<1> SUFFICES ASSUME chart # <<>> PROVE \A i \in DOMAIN chart : Nearer(Nearest(x, Positions), i, x, 1)
  OBVIOUS
<1> DEFINE scaled == [i \in DOMAIN chart |-> Positions[i] * 1]
<1>1. /\ Ascending(scaled) /\ Len(scaled) = Len(chart) /\ DOMAIN scaled = DOMAIN chart
      /\ Positions \in Seq(Nat) /\ DOMAIN Positions = DOMAIN chart /\ Len(chart) \in Nat \ {0}
  BY ScaledAscend
<1>2. scaled = Positions
  BY <1>1
<1>3. \A i \in DOMAIN chart : Positions[i] * 1 = Positions[i]
  BY <1>1
<1> HIDE DEF scaled
<1>4. Positions # <<>>
  BY <1>1, <1>2
<1>5. /\ Nearest(x, Positions) \in DOMAIN chart
      /\ \A i \in DOMAIN chart :
            Distance(Positions[Nearest(x, Positions)], x) <= Distance(Positions[i], x)
  BY <1>1, <1>2, <1>4, NearestIsNearest
<1> QED BY <1>3, <1>5 DEF Nearer

-----------------------------------------------------------------------------
(* The selection. *)

\* After a keyboard command the pointer no longer hovers, until it enters
\* again or clicks; this is what keeps a cleared selection clear.
QuietWhenSuppressed == suppressed = TRUE => hovered = None

\* Why the second Escape passes: the first left nothing, and the pointer
\* cannot choose while it is suppressed.
ClearedStaysClear == escaped = "cleared" => hovered = None /\ pinned = None /\ suppressed = TRUE

\* A hovered day has a pointer, which is in the plot and nearest to it.
HoverIsInPlot == hovered # None => pointer # None /\ InPlot(pointer)

Known == chart \in Charts /\ pointer \in [x : Int, inRows : BOOLEAN] \cup {None}

HoverIsFound == hovered # None => hovered = Nearest(pointer.x, Positions)

IInv == AnnouncedIsDrawn /\ QuietWhenSuppressed /\ ClearedStaysClear /\ HoverIsInPlot

CInv == IInv /\ Known /\ HoverIsFound

LEMMA NotAString == None # "cleared"
BY UsageChartAssumption

LEMMA InitIInv == Init => IInv
BY NotAString DEF Init, IInv, AnnouncedIsDrawn, Active, Chosen, QuietWhenSuppressed, ClearedStaysClear, HoverIsInPlot

\* A handler that tells the reader only of a change tells it all it has to.
LEMMA TellIfChangedTells ==
    ASSUME AnnouncedIsDrawn, TellIfChanged, UNCHANGED <<pinned, drawn>>
    PROVE  AnnouncedIsDrawn'
BY DEF AnnouncedIsDrawn, TellIfChanged, Tell, Active, Chosen

LEMMA NextIInv == IInv /\ [Next]_vars => IInv'
<1> SUFFICES ASSUME IInv, [Next]_vars PROVE IInv'
  OBVIOUS
<1> USE DEF IInv
<1>1. CASE Enter
  <2>1. AnnouncedIsDrawn'
    BY <1>1 DEF Enter, AnnouncedIsDrawn, Active, Chosen
  <2>2. QuietWhenSuppressed' /\ ClearedStaysClear'
    BY <1>1, NotAString DEF Enter, QuietWhenSuppressed, ClearedStaysClear
  <2>3. HoverIsInPlot'
    \* Nothing is hovered while the pointer is outside.
    BY <1>1 DEF Enter, HoverIsInPlot
  <2> QED BY <2>1, <2>2, <2>3
<1>2. CASE Move
  <2>1. AnnouncedIsDrawn'
    BY <1>2, TellIfChangedTells DEF Move
  <2>2. QuietWhenSuppressed' /\ ClearedStaysClear'
    BY <1>2 DEF Move, QuietWhenSuppressed, ClearedStaysClear
  <2>3. HoverIsInPlot'
    <3>1. CASE suppressed = TRUE
      BY <1>2, <3>1 DEF Move, QuietWhenSuppressed, HoverIsInPlot
    <3>2. CASE suppressed # TRUE
      <4>1. pointer' \in Places /\ (hovered' # None => InPlot(pointer'))
        BY <1>2, <3>2 DEF Move
      <4>2. chart' = chart
        BY <1>2 DEF Move
      <4>3. InPlot(pointer') => InPlot(pointer)'
        BY <4>2 DEF InPlot, RightEnd
      <4>4. CASE hovered' = None
        BY <4>4 DEF HoverIsInPlot
      <4>5. CASE hovered' # None
        <5>1. pointer' \in [x : Int, inRows : BOOLEAN]
          BY <4>1 DEF Places
        <5>2. pointer' # None
          BY <5>1, UsageChartAssumption
        <5> QED BY <5>2, <4>1, <4>3, <4>5 DEF HoverIsInPlot
      <4> QED BY <4>4, <4>5
    <3> QED BY <3>1, <3>2
  <2> QED BY <2>1, <2>2, <2>3
<1>3. CASE Leave
  <2>1. AnnouncedIsDrawn'
    BY <1>3, TellIfChangedTells DEF Leave
  <2>2. QuietWhenSuppressed' /\ ClearedStaysClear' /\ HoverIsInPlot'
    BY <1>3 DEF Leave, QuietWhenSuppressed, ClearedStaysClear, HoverIsInPlot
  <2> QED BY <2>1, <2>2
<1>4. CASE Click
  <2>1. AnnouncedIsDrawn'
    BY <1>4 DEF Click, Tell, AnnouncedIsDrawn, Active, Chosen
  <2>2. QuietWhenSuppressed' /\ ClearedStaysClear'
    BY <1>4, NotAString DEF Click, QuietWhenSuppressed, ClearedStaysClear
  <2>3. HoverIsInPlot'
    BY <1>4 DEF Click, HoverIsInPlot, InPlot, RightEnd
  <2> QED BY <2>1, <2>2, <2>3
<1>5. CASE Press
  <2>1. AnnouncedIsDrawn'
    BY <1>5 DEF Press, Tell, AnnouncedIsDrawn, Active, Chosen
  <2>2. QuietWhenSuppressed' /\ ClearedStaysClear' /\ HoverIsInPlot'
    BY <1>5, NotAString DEF Press, QuietWhenSuppressed, ClearedStaysClear, HoverIsInPlot
  <2> QED BY <2>1, <2>2
<1>6. CASE Escape
  <2>1. CASE Active # None
    <3>1. AnnouncedIsDrawn'
      BY <1>6, <2>1 DEF Escape, Tell, AnnouncedIsDrawn, Active, Chosen
    <3>2. QuietWhenSuppressed' /\ ClearedStaysClear' /\ HoverIsInPlot'
      BY <1>6, <2>1 DEF Escape, QuietWhenSuppressed, ClearedStaysClear, HoverIsInPlot
    <3> QED BY <3>1, <3>2
  <2>2. CASE Active = None
    <3>1. UNCHANGED <<chart, selection, pointer, announced, drawn, queued>> /\ escaped' = "passed"
      BY <1>6, <2>2 DEF Escape
    <3>2. AnnouncedIsDrawn'
      BY <3>1 DEF selection, AnnouncedIsDrawn, Active, Chosen
    <3>3. QuietWhenSuppressed' /\ ClearedStaysClear' /\ HoverIsInPlot'
      BY <3>1 DEF selection, QuietWhenSuppressed, ClearedStaysClear, HoverIsInPlot, InPlot, RightEnd
    <3> QED BY <3>2, <3>3
  <2> QED BY <2>1, <2>2
<1>7. CASE Draw
  <2>1. AnnouncedIsDrawn'
    BY <1>7 DEF Draw, selection, AnnouncedIsDrawn, Active, Chosen
  <2>2. QuietWhenSuppressed' /\ ClearedStaysClear' /\ HoverIsInPlot'
    BY <1>7 DEF Draw, selection, QuietWhenSuppressed, ClearedStaysClear, HoverIsInPlot, InPlot, RightEnd
  <2> QED BY <2>1, <2>2
<1>8. CASE Rerender
  BY <1>8, NotAString DEF Rerender, AnnouncedIsDrawn, Active, Chosen,
              QuietWhenSuppressed, ClearedStaysClear, HoverIsInPlot
<1>9. CASE UNCHANGED vars
  <2>1. AnnouncedIsDrawn'
    BY <1>9 DEF vars, selection, AnnouncedIsDrawn, Active, Chosen
  <2>2. QuietWhenSuppressed' /\ ClearedStaysClear' /\ HoverIsInPlot'
    BY <1>9 DEF vars, selection, QuietWhenSuppressed, ClearedStaysClear, HoverIsInPlot, InPlot, RightEnd
  <2> QED BY <2>1, <2>2
<1> QED BY <1>1, <1>2, <1>3, <1>4, <1>5, <1>6, <1>7, <1>8, <1>9 DEF Next

LEMMA SpecIInv == Spec => []IInv
<1>1. Init => IInv
  BY InitIInv
<1>2. IInv /\ [Next]_vars => IInv'
  BY NextIInv
<1> QED BY <1>1, <1>2, PTL DEF Spec

LEMMA NextKnown == CInv /\ [Next]_vars => Known' /\ HoverIsFound'
<1> SUFFICES ASSUME CInv, [Next]_vars PROVE Known' /\ HoverIsFound'
  OBVIOUS
<1>1. Places \subseteq [x : Int, inRows : BOOLEAN]
  BY DEF Places
<1> USE DEF CInv, Known, HoverIsFound
<1>2. CASE Enter
  <2>1. hovered = None
    BY <1>2 DEF Enter, IInv, HoverIsInPlot
  <2> QED BY <1>1, <1>2, <2>1 DEF Enter
<1>3. CASE Move
  <2>1. pointer' \in Places /\ UNCHANGED chart
    BY <1>3 DEF Move
  <2>2. hovered' = None \/ hovered' = Nearest(pointer'.x, Positions)
    BY <1>3 DEF Move, IInv, QuietWhenSuppressed
  <2>3. Positions' = Positions
    BY <2>1 DEF Positions
  <2>4. Known'
    BY <1>1, <2>1
  <2>5. HoverIsFound'
    BY <2>2, <2>3
  <2> QED BY <2>4, <2>5
<1>4. CASE Leave
  BY <1>4 DEF Leave
<1>5. CASE Click
  <2>1. UNCHANGED <<chart, pointer>> /\ hovered' = Nearest(pointer.x, Positions)
    BY <1>5 DEF Click
  <2>2. Positions' = Positions
    BY <2>1 DEF Positions
  <2> QED BY <2>1, <2>2
<1>6. CASE Press
  BY <1>6 DEF Press
<1>7. CASE Escape \/ Draw \/ UNCHANGED vars
  <2>1. UNCHANGED <<chart, pointer>> /\ hovered' \in {hovered, None}
    BY <1>7 DEF Escape, Draw, vars, selection
  <2>2. Positions' = Positions
    BY <2>1 DEF Positions
  <2> QED BY <2>1, <2>2
<1>8. CASE Rerender
  BY <1>8 DEF Rerender
<1> QED BY <1>2, <1>3, <1>4, <1>5, <1>6, <1>7, <1>8 DEF Next

LEMMA SpecCInv == Spec => []CInv
<1>1. Init => CInv
  BY InitIInv DEF Init, CInv, Known, HoverIsFound
<1>2. CInv /\ [Next]_vars => CInv'
  BY NextIInv, NextKnown DEF CInv
<1> QED BY <1>1, <1>2, PTL DEF Spec

\* Whatever the charts, the screen reader and the mark agree with the
\* selection after every event, although two handlers return early
\* (motion and leave in linux/src/chart.rs).
THEOREM ToldAndDrawn == Spec => []AnnouncedIsDrawn
<1>1. IInv => AnnouncedIsDrawn
  BY DEF IInv
<1> QED BY <1>1, SpecIInv, PTL

\* An Escape that cleared a selection is followed by one that dismisses the
\* window, however the pointer moves over the chart (clear_for_escape).
THEOREM EscapeTwiceDismisses == Spec => []SecondEscapePasses
<1>1. IInv => SecondEscapePasses
  BY DEF IInv, ClearedStaysClear, SecondEscapePasses, Active, Chosen
<1> QED BY <1>1, SpecIInv, PTL

\* Nothing is hovered without a pointer in the plot, and nothing at all
\* after a keyboard command until the pointer enters or clicks
\* (Selection in linux/src/chart.rs).
THEOREM HoverNeedsPointer == Spec => [](HoverIsInPlot /\ QuietWhenSuppressed)
<1>1. IInv => HoverIsInPlot /\ QuietWhenSuppressed
  BY DEF IInv
<1> QED BY <1>1, SpecIInv, PTL

\* Whatever the days of a chart, the hovered one is the nearest to the pointer,
\* and the ticks of an axis are the days nearest to where they should be, the
\* first and the last day among them (nearest_index_in_valid_positions,
\* tick_indices_in_valid_positions).
THEOREM PointedAreNearest == Spec => []PointedIsNearest
<1>1. ASSUME CInv PROVE PointedIsNearest
  <2>1. HoverIsNearest
    <3>1. SUFFICES ASSUME hovered # None
                   PROVE  /\ pointer # None /\ InPlot(pointer)
                          /\ \A i \in DOMAIN chart : Nearer(hovered, i, pointer.x, 1)
      BY DEF HoverIsNearest
    <3>2. pointer # None /\ InPlot(pointer) /\ hovered = Nearest(pointer.x, Positions)
      BY <1>1, <3>1 DEF CInv, IInv, HoverIsInPlot, HoverIsFound
    <3>3. chart \in Charts /\ pointer.x \in Int
      BY <1>1, <3>2 DEF CInv, Known
    <3> QED BY <3>2, <3>3, HoveredIsNearest
  <2>2. chart # <<>> => \A maximum \in MaxTicks : TicksAreNearest(maximum)
    BY <1>1, TicksAreRight DEF CInv, Known
  <2> QED BY <2>1, <2>2 DEF PointedIsNearest
<1> QED BY <1>1, SpecCInv, PTL

-----------------------------------------------------------------------------
(* The points that a thinning keeps. *)

Pt == [day : Nat, tokens : 0..MaxTokens]

LEMMA SeriesConstants ==
    /\ MaxPoints \in Nat /\ MaxPoints >= 8 /\ MaxPoints % 4 = 0
    /\ MaxDrawPoints \in Nat /\ MaxDrawPoints >= 4 /\ MaxTokens \in Nat
    /\ Gaps \subseteq Nat \ {0} /\ Tokens \subseteq 0..MaxTokens /\ Widths \subseteq Nat
BY ChartSeriesAssumption

\* o counts the members of I off in their order.
CountsOff(o, I) ==
    /\ o \in [1..Cardinality(I) -> I]
    /\ \A k, l \in 1..Cardinality(I) : k < l => o[k] < o[l]
    /\ \A i \in I : \E k \in 1..Cardinality(I) : o[k] = i

\* The indices are counted off in their order.
LEMMA AtIs ==
    ASSUME NEW points, NEW n \in Nat, NEW I \in SUBSET (1..n)
    PROVE  /\ Cardinality(I) \in Nat
           /\ \E o : /\ CountsOff(o, I)
                    /\ At(points, I) = [k \in 1..Cardinality(I) |-> points[o[k]]]
<1> DEFINE c == Cardinality(I)
           Upto(i) == {j \in I : j <= i}
           rank == [i \in I |-> Cardinality(Upto(i))]
<1>1. IsFiniteSet(I) /\ c \in Nat
  <2>1. IsFiniteSet(1..n)
    BY FS_Interval
  <2> QED BY <2>1, FS_Subset, FS_CardinalityType
<1>2. ASSUME NEW i \in I
      PROVE  IsFiniteSet(Upto(i)) /\ Cardinality(Upto(i)) \in 1..c
  <2>1. Upto(i) \in SUBSET I /\ i \in Upto(i)
    OBVIOUS
  <2> HIDE DEF Upto
  <2>2. IsFiniteSet(Upto(i)) /\ Cardinality(Upto(i)) <= c
    BY <1>1, <2>1, FS_Subset
  <2>3. Cardinality(Upto(i)) \in Nat
    BY <2>2, FS_CardinalityType
  <2>4. Cardinality(Upto(i)) # 0
    BY <2>1, <2>2, FS_EmptySet
  <2> QED BY <1>1, <2>2, <2>3, <2>4
<1>0. \A i \in I : i \in Int
  OBVIOUS
<1>3. ASSUME NEW i \in I, NEW j \in I, i < j
      PROVE  rank[i] < rank[j]
  <2>1. Upto(i) \in SUBSET Upto(j) /\ j \in Upto(j) /\ j \notin Upto(i)
    <3>1. \A x \in I : x <= i => x <= j
      BY <1>0, <1>3
    <3>2. i \in Int /\ j \in Int /\ ~(j <= i) /\ j <= j
      BY <1>0, <1>3
    <3> QED BY <3>1, <3>2
  <2>2. IsFiniteSet(Upto(j)) /\ Cardinality(Upto(i)) \in Nat /\ Cardinality(Upto(j)) \in Nat
    <3> HIDE DEF Upto, c, rank
    <3>1. IsFiniteSet(Upto(j)) /\ Cardinality(Upto(i)) \in 1..c /\ Cardinality(Upto(j)) \in 1..c
      BY <1>2
    <3> QED BY <1>1, <3>1
  <2>3. rank[i] = Cardinality(Upto(i)) /\ rank[j] = Cardinality(Upto(j))
    OBVIOUS
  <2> HIDE DEF Upto, rank
  <2>4. /\ Cardinality(Upto(i)) <= Cardinality(Upto(j))
        /\ Cardinality(Upto(j)) = Cardinality(Upto(i)) => Upto(j) = Upto(i)
    BY <2>1, <2>2, FS_Subset, Zenon
  <2>5. Cardinality(Upto(i)) # Cardinality(Upto(j))
    BY <2>1, <2>4
  <2> QED BY <2>2, <2>3, <2>4, <2>5
<1>4. rank \in [I -> 1..c]
  <2> HIDE DEF Upto, c
  <2> QED BY <1>2
<1> HIDE DEF rank
<1>5. ASSUME NEW i \in I, NEW j \in I, rank[i] = rank[j] PROVE i = j
  <2>1. rank[i] \in Int /\ rank[j] \in Int
    BY <1>1, <1>4
  <2> QED BY <1>3, <1>5, <2>1
<1>6. \A k \in 1..c : \E i \in I : rank[i] = k
  <2>1. rank \in Injection(I, 1..c)
    BY <1>4, <1>5 DEF Injection, IsInjective
  <2>2. IsFiniteSet(1..c) /\ Cardinality(1..c) = c
    <3>1. 1 \in Int /\ c \in Int
      BY <1>1
    <3> HIDE DEF c
    <3> QED BY <1>1, <3>1, FS_Interval
  <2> HIDE DEF c
  <2>3. Cardinality(I) = Cardinality(1..c)
    BY <2>2 DEF c
  <2>4. rank \in Surjection(I, 1..c)
    BY <2>1, <2>2, <2>3, FS_Injection
  <2> QED BY <2>4 DEF Surjection
<1> DEFINE pick(k) == CHOOSE i \in I : Cardinality({j \in I : j <= i}) = k
           o == [k \in 1..c |-> pick(k)]
<1>7. ASSUME NEW k \in 1..c PROVE pick(k) \in I /\ rank[pick(k)] = k
  <2>1. \A i \in I : rank[i] = Cardinality({j \in I : j <= i})
    BY DEF rank
  <2>2. \E i \in I : Cardinality({j \in I : j <= i}) = k
    BY <1>6, <2>1
  <2>3. pick(k) \in I /\ Cardinality({j \in I : j <= pick(k)}) = k
    BY <2>2
  <2> QED BY <2>1, <2>3
<1>8. At(points, I) = [k \in 1..c |-> points[o[k]]]
  BY DEF At
<1>9. o \in [1..c -> I] /\ \A k \in 1..c : rank[o[k]] = k
  <2> HIDE DEF c, pick
  <2> QED BY <1>7
<1> HIDE DEF o
<1>10. ASSUME NEW k \in 1..c, NEW l \in 1..c, k < l PROVE o[k] < o[l]
  <2>1. o[k] \in I /\ o[l] \in I /\ rank[o[k]] = k /\ rank[o[l]] = l
    BY <1>9
  <2>2. o[k] \in Int /\ o[l] \in Int /\ k \in Int /\ l \in Int
    <3>1. \A m \in 1..c : m \in Int
      BY <1>1
    <3> QED BY <1>0, <2>1, <3>1, Zenon
  <2>3. o[l] < o[k] => rank[o[l]] < rank[o[k]]
    BY <1>3, <2>1
  <2>4. rank[o[k]] = k /\ rank[o[l]] = l /\ o[l] # o[k]
    BY <1>10, <2>1, <2>2
  <2> HIDE DEF c
  <2> QED BY <1>10, <2>2, <2>3, <2>4
<1>11. ASSUME NEW i \in I PROVE \E k \in 1..c : o[k] = i
  <2>1. rank[i] \in 1..c
    BY <1>4
  <2>2. o[rank[i]] = i
    BY <1>5, <1>9, <2>1
  <2> QED BY <2>1, <2>2
<1>12. CountsOff(o, I)
  BY <1>9, <1>10, <1>11 DEF CountsOff
<1> QED BY <1>1, <1>8, <1>12

\* q is made of points of p in their order, the first and the last among them.
Sampled(q, p) ==
    /\ q \in Seq(Pt) /\ Len(q) >= 1
    /\ \E o \in [1..Len(q) -> 1..Len(p)] :
          /\ \A k, l \in 1..Len(q) : k < l => o[k] < o[l]
          /\ o[1] = 1 /\ o[Len(q)] = Len(p)
          /\ \A k \in 1..Len(q) : q[k] = p[o[k]]

\* No point of p is higher than all of q.
Reaches(q, p) == \A i \in DOMAIN p : \E j \in DOMAIN q : q[j].tokens >= p[i].tokens

LEMMA AtSamples ==
    ASSUME NEW points \in Seq(Pt), NEW I \in SUBSET (1..Len(points)), 1 \in I, Len(points) \in I
    PROVE  /\ Cardinality(I) \in Nat /\ Len(At(points, I)) = Cardinality(I)
           /\ Sampled(At(points, I), points)
           /\ (\A i \in DOMAIN points : \E j \in I : points[j].tokens >= points[i].tokens)
                 => Reaches(At(points, I), points)
<1> DEFINE n == Len(points)
           c == Cardinality(I)
           q == At(points, I)
<1>1. n \in Nat /\ DOMAIN points = 1..n /\ \A i \in 1..n : points[i] \in Pt
  OBVIOUS
<1>2. c \in Nat
  BY <1>1, AtIs
<1>3. PICK o \in [1..c -> I] : /\ \A k, l \in 1..c : k < l => o[k] < o[l]
                               /\ \A i \in I : \E k \in 1..c : o[k] = i
                               /\ q = [k \in 1..c |-> points[o[k]]]
  <2>1. n \in Nat /\ I \in SUBSET (1..n)
    BY <1>1
  <2>2. \E o : CountsOff(o, I) /\ At(points, I) = [k \in 1..Cardinality(I) |-> points[o[k]]]
    <3> HIDE DEF n, c, q
    <3> QED BY <2>1, AtIs, Zenon
  <2> QED BY <2>2 DEF CountsOff
<1> HIDE DEF n, c, q
<1>4. \A k \in 1..c : o[k] \in 1..n /\ o[k] \in I
  BY <1>3 DEF n
<1>5. q \in Seq(Pt) /\ Len(q) = c /\ DOMAIN q = 1..c
  BY <1>1, <1>2, <1>3, <1>4
<1>6. PICK a \in 1..c : o[a] = 1
  BY <1>3
<1>7. PICK z \in 1..c : o[z] = n
  BY <1>3 DEF n
<1>8. o[1] = 1
  <2>1. 1 \in 1..c /\ (1 < a \/ a = 1)
    BY <1>2, <1>6
  <2>2. o[1] \in 1..n
    BY <1>4, <2>1
  <2> QED BY <1>1, <1>3, <1>6, <2>1, <2>2
<1>9. o[c] = n /\ c >= 1
  <2>1. c \in 1..c /\ (z < c \/ z = c)
    BY <1>2, <1>7
  <2>2. o[c] \in 1..n
    BY <1>4, <2>1
  <2> QED BY <1>1, <1>2, <1>3, <1>7, <2>1, <2>2
<1>10. o \in [1..c -> 1..n] /\ \A k \in 1..c : q[k] = points[o[k]]
  BY <1>3, <1>4
<1>11. Sampled(q, points)
  BY <1>3, <1>5, <1>8, <1>9, <1>10 DEF Sampled, n
<1>12. ASSUME \A i \in DOMAIN points : \E j \in I : points[j].tokens >= points[i].tokens
       PROVE  Reaches(q, points)
  <2> SUFFICES ASSUME NEW i \in DOMAIN points PROVE \E k \in DOMAIN q : q[k].tokens >= points[i].tokens
    BY DEF Reaches
  <2>1. PICK j \in I : points[j].tokens >= points[i].tokens
    BY <1>12
  <2>2. PICK k \in 1..c : o[k] = j
    BY <1>3
  <2> QED BY <1>5, <1>10, <2>1, <2>2
<1> QED BY <1>2, <1>5, <1>11, <1>12 DEF q, c

LEMMA MaxOfTwo ==
    ASSUME NEW a \in Int, NEW b \in Int
    PROVE  Max({a, b}) = IF a >= b THEN a ELSE b
<1> DEFINE m == IF a >= b THEN a ELSE b
<1>1. m \in {a, b} /\ \A y \in {a, b} : m >= y
  OBVIOUS
<1>2. \A x \in {a, b} : (\A y \in {a, b} : x >= y) => x = m
  OBVIOUS
<1> HIDE DEF m
<1>3. Max({a, b}) \in {a, b} /\ \A y \in {a, b} : Max({a, b}) >= y
  BY <1>1 DEF Max
<1> QED BY <1>2, <1>3 DEF m

LEMMA MinOfTwo ==
    ASSUME NEW a \in Int, NEW b \in Int
    PROVE  Min({a, b}) = IF a <= b THEN a ELSE b
<1> DEFINE m == IF a <= b THEN a ELSE b
<1>1. m \in {a, b} /\ \A y \in {a, b} : m <= y
  OBVIOUS
<1>2. \A x \in {a, b} : (\A y \in {a, b} : x <= y) => x = m
  OBVIOUS
<1> HIDE DEF m
<1>3. Min({a, b}) \in {a, b} /\ \A y \in {a, b} : Min({a, b}) <= y
  BY <1>1 DEF Min
<1> QED BY <1>2, <1>3 DEF m

\* Where the bins of a length begin.
Cut(b, bins, length) == (b * length) \div bins

LEMMA DivisionIs ==
    ASSUME NEW x \in Nat, NEW y \in Nat \ {0}
    PROVE  x \div y \in Nat /\ (x \div y) * y <= x /\ x < (x \div y) * y + y
OBVIOUS

LEMMA CutsAre ==
    ASSUME NEW length \in Nat, NEW bins \in Nat \ {0}
    PROVE  /\ Cut(0, bins, length) = 0 /\ Cut(bins, bins, length) = length
           /\ \A b \in 0..bins : Cut(b, bins, length) \in 0..length
<1>1. ASSUME NEW q \in Nat, NEW r \in Nat, q * bins <= r, r <= bins * length PROVE q <= length
  BY <1>1
<1>2. ASSUME NEW b \in 0..bins PROVE Cut(b, bins, length) \in 0..length
  <2> DEFINE r == b * length
             q == r \div bins
  <2>1. r \in Nat /\ r <= bins * length
    OBVIOUS
  <2> HIDE DEF r
  <2>2. q \in Nat /\ q * bins <= r
    BY <2>1, DivisionIs
  <2> HIDE DEF q
  <2>3. q <= length
    BY <1>1, <2>1, <2>2
  <2> QED BY <2>2, <2>3 DEF Cut, q, r
<1>3. (0 * length) \div bins = 0
  OBVIOUS
<1>4. (bins * length) \div bins = length
  <2> DEFINE r == bins * length
             q == r \div bins
  <2>1. r \in Nat
    OBVIOUS
  <2>2. q \in Nat /\ q * bins <= r /\ r < q * bins + bins
    <3> HIDE DEF r
    <3> QED BY <2>1, DivisionIs
  <2> HIDE DEF q
  <2>3. q * bins <= length * bins /\ length * bins < (q + 1) * bins
    BY <2>2
  <2>4. q <= length /\ length < q + 1
    BY <2>2, <2>3
  <2> QED BY <2>2, <2>4 DEF q
<1> QED BY <1>2, <1>3, <1>4 DEF Cut

LEMMA CutsCover ==
    ASSUME NEW length \in Nat, NEW bins \in Nat \ {0}, NEW x \in 0..(length - 1)
    PROVE  \E b \in 0..(bins - 1) : Cut(b, bins, length) <= x /\ x < Cut(b + 1, bins, length)
<1> DEFINE T == {b \in 0..bins : x < Cut(b, bins, length)}
<1>1. T \subseteq Nat /\ bins \in T /\ 0 \notin T
  BY CutsAre
<1>2. PICK m \in T : \A k \in T : m <= k
  BY <1>1, LeastNatural, Zenon
<1>3. m \in 1..bins /\ m - 1 \in 0..(bins - 1) /\ m - 1 + 1 = m /\ m - 1 \in 0..bins
  BY <1>1, <1>2
<1>4. m - 1 \notin T
  BY <1>2, <1>3
<1>5. Cut(m - 1, bins, length) \in 0..length
  BY <1>3, CutsAre
<1>6. Cut(m - 1, bins, length) <= x
  BY <1>3, <1>4, <1>5
<1>7. x < Cut(m, bins, length)
  BY <1>2
<1> QED BY <1>3, <1>6, <1>7

LEMMA BinIs ==
    ASSUME NEW n \in Nat, n >= 3, NEW bins \in Nat \ {0}
    PROVE  /\ \A b \in 0..(bins - 1) : Bin(b, bins, n) \in SUBSET (2..(n - 1))
           /\ \A i \in 2..(n - 1) : \E b \in 0..(bins - 1) : i \in Bin(b, bins, n)
<1> DEFINE L == n - 2
<1>1. L \in Nat
  OBVIOUS
<1>2. \A b : Bin(b, bins, n) = 2 + Cut(b, bins, L) .. 1 + Cut(b + 1, bins, L)
  BY DEF Bin, Cut
<1>3. ASSUME NEW b \in 0..(bins - 1)
      PROVE  Bin(b, bins, n) \in SUBSET (2..(n - 1))
  <2>1. b \in 0..bins /\ b + 1 \in 0..bins
    OBVIOUS
  <2>2. Cut(b, bins, L) \in 0..L /\ Cut(b + 1, bins, L) \in 0..L
    <3> HIDE DEF L
    <3> QED BY <1>1, <2>1, CutsAre
  <2> QED BY <1>2, <2>2
<1>4. ASSUME NEW i \in 2..(n - 1)
      PROVE  \E b \in 0..(bins - 1) : i \in Bin(b, bins, n)
  <2> DEFINE x == i - 2
  <2>1. x \in 0..(L - 1)
    OBVIOUS
  <2>2. PICK b \in 0..(bins - 1) : Cut(b, bins, L) <= x /\ x < Cut(b + 1, bins, L)
    <3> HIDE DEF L, x
    <3> QED BY <1>1, <2>1, CutsCover
  <2>3. b \in 0..bins /\ b + 1 \in 0..bins
    OBVIOUS
  <2>4. Cut(b, bins, L) \in 0..L /\ Cut(b + 1, bins, L) \in 0..L
    <3> HIDE DEF L
    <3> QED BY <1>1, <2>3, CutsAre
  <2>5. i \in 2 + Cut(b, bins, L) .. 1 + Cut(b + 1, bins, L)
    BY <2>2, <2>4
  <2> QED BY <1>2, <2>5
<1> QED BY <1>3, <1>4

\* The first of the lowest and the first of the highest points of a bin.
Lowest(points, bin, i) ==
    \A j \in bin : \/ points[i].tokens < points[j].tokens
                   \/ points[i].tokens = points[j].tokens /\ i <= j
Highest(points, bin, i) ==
    \A j \in bin : \/ points[i].tokens > points[j].tokens
                   \/ points[i].tokens = points[j].tokens /\ i <= j

LEMMA ExtremesAre ==
    ASSUME NEW points \in Seq(Pt), NEW bin \in SUBSET (1..Len(points))
    PROVE  /\ Extremes(points, bin) = {i \in bin : Lowest(points, bin, i)}
                                      \cup {i \in bin : Highest(points, bin, i)}
           /\ \A i, j \in bin : Lowest(points, bin, i) /\ Lowest(points, bin, j) => i = j
           /\ \A i, j \in bin : Highest(points, bin, i) /\ Highest(points, bin, j) => i = j
           /\ \A i \in bin : \E j \in Extremes(points, bin) : points[j].tokens >= points[i].tokens
<1> DEFINE n == Len(points)
<1>1. n \in Nat /\ \A i \in bin : i \in 1..n /\ i \in Nat /\ points[i].tokens \in 0..MaxTokens
  <2>1. \A i \in 1..n : points[i] \in Pt
    OBVIOUS
  <2>2. \A i \in bin : i \in 1..n /\ points[i] \in Pt
    BY <2>1
  <2> QED BY <2>2 DEF Pt
<1>2. MaxTokens \in Nat
  BY SeriesConstants
<1> HIDE DEF n
<1>3. \A i \in bin : points[i].tokens \in Int
  BY <1>1, <1>2
<1>4. Extremes(points, bin) = {i \in bin : Lowest(points, bin, i)}
                              \cup {i \in bin : Highest(points, bin, i)}
  BY Zenon DEF Extremes, Lowest, Highest
<1>5. \A i, j \in bin : Lowest(points, bin, i) /\ Lowest(points, bin, j) => i = j
  BY <1>1, <1>3 DEF Lowest
<1>6. \A i, j \in bin : Highest(points, bin, i) /\ Highest(points, bin, j) => i = j
  BY <1>1, <1>3 DEF Highest
<1>7. ASSUME NEW i \in bin
      PROVE  \E j \in Extremes(points, bin) : points[j].tokens >= points[i].tokens
  <2> DEFINE T == {MaxTokens - points[j].tokens : j \in bin}
  <2>1. T \subseteq Nat /\ T # {}
    BY <1>1, <1>2
  <2>2. PICK m \in T : \A k \in T : m <= k
    BY <2>1, LeastNatural, Zenon
  <2>3. PICK h \in bin : m = MaxTokens - points[h].tokens
    BY <2>2
  <2>4. ASSUME NEW j \in bin PROVE points[h].tokens >= points[j].tokens
    <3>1. m <= MaxTokens - points[j].tokens
      BY <2>2
    <3> QED BY <1>1, <1>2, <1>3, <2>3, <3>1
  <2> DEFINE U == {j \in bin : points[j].tokens = points[h].tokens}
  <2>5. U \subseteq Nat /\ U # {}
    BY <1>1
  <2>6. PICK f \in U : \A k \in U : f <= k
    BY <2>5, LeastNatural, Zenon
  <2>7. f \in bin /\ points[f].tokens = points[h].tokens
    BY <2>6
  <2>8. ASSUME NEW j \in bin
        PROVE  \/ points[f].tokens > points[j].tokens
               \/ points[f].tokens = points[j].tokens /\ f <= j
    <3>1. CASE points[j].tokens = points[h].tokens
      BY <2>6, <2>7, <3>1
    <3>2. CASE points[j].tokens # points[h].tokens
      BY <1>3, <2>4, <2>7, <3>2
    <3> QED BY <3>1, <3>2
  <2>9. Highest(points, bin, f)
    BY <2>8 DEF Highest
  <2>10. f \in Extremes(points, bin)
    BY <1>4, <2>7, <2>9
  <2> QED BY <2>4, <2>7, <2>10
<1> QED BY <1>4, <1>5, <1>6, <1>7

\* What is among the values of a function on 0 .. bins - 1 has at most bins members.
LEMMA AtMostOneEach ==
    ASSUME NEW bins \in Nat \ {0}, NEW f, DOMAIN f = 0..(bins - 1),
           NEW A, \A a \in A : \E b \in 0..(bins - 1) : f[b] = a
    PROVE  IsFiniteSet(A) /\ Cardinality(A) \in Nat /\ Cardinality(A) <= bins
<1> DEFINE B == 0..(bins - 1)
           T == {f[b] : b \in B}
           g == [b \in B |-> f[b]]
<1>1. IsFiniteSet(B) /\ Cardinality(B) = bins
  <2>1. 0 \in Int /\ bins - 1 \in Int /\ ~(0 > bins - 1) /\ (bins - 1) - 0 + 1 = bins
    OBVIOUS
  <2> QED BY <2>1, FS_Interval
<1> HIDE DEF B
<1>2. g \in Surjection(B, T)
  BY DEF Surjection
<1>3. IsFiniteSet(T) /\ Cardinality(T) <= bins
  <2> HIDE DEF g, T
  <2> QED BY <1>1, <1>2, FS_Surjection
<1>4. A \in SUBSET T
  BY DEF B
<1> HIDE DEF T
<1>5. IsFiniteSet(A) /\ Cardinality(A) <= Cardinality(T)
  BY <1>3, <1>4, FS_Subset
<1>6. Cardinality(A) \in Nat /\ Cardinality(T) \in Nat
  BY <1>3, <1>5, FS_CardinalityType
<1> QED BY <1>3, <1>5, <1>6

LEMMA UnionAtMost ==
    ASSUME NEW A, NEW B, IsFiniteSet(A), IsFiniteSet(B), NEW a \in Nat, NEW b \in Nat,
           Cardinality(A) <= a, Cardinality(B) <= b
    PROVE  IsFiniteSet(A \cup B) /\ Cardinality(A \cup B) \in Nat /\ Cardinality(A \cup B) <= a + b
<1>1. /\ IsFiniteSet(A \cup B)
      /\ Cardinality(A \cup B) = Cardinality(A) + Cardinality(B) - Cardinality(A \cap B)
  BY FS_Union
<1>2. IsFiniteSet(A \cap B)
  BY FS_Intersection
<1>3. /\ Cardinality(A) \in Nat /\ Cardinality(B) \in Nat /\ Cardinality(A \cap B) \in Nat
      /\ Cardinality(A \cup B) \in Nat
  BY <1>1, <1>2, FS_CardinalityType
<1> QED BY <1>1, <1>3

\* The two ends of a series, and a bin's extremes for each bin.
Kept(points, bins) ==
    {1, Len(points)} \cup UNION {Extremes(points, Bin(b, bins, Len(points))) : b \in 0 .. bins - 1}

LEMMA KeptAreFew ==
    ASSUME NEW points \in Seq(Pt), Len(points) >= 3, NEW bins \in Nat \ {0}
    PROVE  Cardinality(Kept(points, bins)) \in Nat /\ Cardinality(Kept(points, bins)) <= 2 * bins + 2
<1> DEFINE n == Len(points)
           B == 0..(bins - 1)
           bin(b) == Bin(b, bins, n)
           low(b, i) == i \in bin(b) /\ Lowest(points, bin(b), i)
           high(b, i) == i \in bin(b) /\ Highest(points, bin(b), i)
           f == [b \in B |-> CHOOSE i : low(b, i)]
           g == [b \in B |-> CHOOSE i : high(b, i)]
           X == {i \in 1..n : \E b \in B : low(b, i)}
           Y == {i \in 1..n : \E b \in B : high(b, i)}
           E == {1, n}
<1>1. n \in Nat /\ n >= 3
  OBVIOUS
<1>2. \A b \in B : bin(b) \in SUBSET (2..(n - 1))
  <2> HIDE DEF n
  <2> QED BY <1>1, BinIs
<1>3. \A b \in B : bin(b) \in SUBSET (1..n)
  <2>1. 2..(n - 1) \subseteq 1..n
    BY <1>1
  <2> HIDE DEF n, bin, B
  <2> QED BY <1>2, <2>1
<1>4. ASSUME NEW b \in B
      PROVE  /\ Extremes(points, bin(b)) = {i \in bin(b) : Lowest(points, bin(b), i)}
                                           \cup {i \in bin(b) : Highest(points, bin(b), i)}
             /\ \A i, j : low(b, i) /\ low(b, j) => i = j
             /\ \A i, j : high(b, i) /\ high(b, j) => i = j
  <2> DEFINE c == bin(b)
  <2>1. c \in SUBSET (1..n)
    BY <1>3
  <2> HIDE DEF c, bin
  <2>2. /\ Extremes(points, c) = {i \in c : Lowest(points, c, i)} \cup {i \in c : Highest(points, c, i)}
        /\ \A i, j \in c : Lowest(points, c, i) /\ Lowest(points, c, j) => i = j
        /\ \A i, j \in c : Highest(points, c, i) /\ Highest(points, c, j) => i = j
    BY <2>1, ExtremesAre
  <2> QED BY <2>2, Zenon DEF c
<1>5. ASSUME NEW x \in X PROVE \E b \in B : f[b] = x
  <2>1. PICK b \in B : low(b, x)
    OBVIOUS
  <2>2. f[b] = CHOOSE i : low(b, i)
    BY Zenon
  <2> HIDE DEF low, f, B
  <2>3. low(b, f[b])
    BY <2>1, <2>2, Zenon
  <2> QED BY <1>4, <2>1, <2>3, Zenon
<1>6. ASSUME NEW x \in Y PROVE \E b \in B : g[b] = x
  <2>1. PICK b \in B : high(b, x)
    OBVIOUS
  <2>2. g[b] = CHOOSE i : high(b, i)
    BY Zenon
  <2> HIDE DEF high, g, B
  <2>3. high(b, g[b])
    BY <2>1, <2>2, Zenon
  <2> QED BY <1>4, <2>1, <2>3, Zenon
<1>7. DOMAIN f = 0..(bins - 1) /\ DOMAIN g = 0..(bins - 1)
  OBVIOUS
<1>8. Kept(points, bins) = E \cup (X \cup Y)
  <2>1. ASSUME NEW i PROVE i \in Kept(points, bins) <=> i \in E \cup (X \cup Y)
    <3>1. i \in Kept(points, bins) <=> i \in E \/ \E b \in B : i \in Extremes(points, bin(b))
      BY Zenon DEF Kept
    <3>2. \A b \in B : i \in Extremes(points, bin(b)) <=> low(b, i) \/ high(b, i)
      <4> HIDE DEF B, bin
      <4> QED BY <1>4, Zenon
    <3>3. i \in X \cup Y <=> \E b \in B : low(b, i) \/ high(b, i)
      <4>1. \A b \in B : low(b, i) \/ high(b, i) => i \in 1..n
        <5> HIDE DEF B, n
        <5> QED BY <1>3, Zenon
      <4> HIDE DEF low, high, B, n
      <4> QED BY <4>1, Zenon
    <3> HIDE DEF X, Y, E, B, bin, low, high
    <3> QED BY <3>1, <3>2, <3>3, Zenon
  <2> HIDE DEF X, Y, E
  <2> QED BY <2>1, Zenon
<1> HIDE DEF X, Y, f, g, B, bin, low, high
<1>9. IsFiniteSet(X) /\ Cardinality(X) <= bins /\ IsFiniteSet(Y) /\ Cardinality(Y) <= bins
  <2>1. (\A x \in X : \E b \in 0..(bins - 1) : f[b] = x) /\ (\A x \in Y : \E b \in 0..(bins - 1) : g[b] = x)
    BY <1>5, <1>6 DEF B
  <2>2. IsFiniteSet(X) /\ Cardinality(X) <= bins
    BY <1>7, <2>1, AtMostOneEach
  <2>3. IsFiniteSet(Y) /\ Cardinality(Y) <= bins
    BY <1>7, <2>1, AtMostOneEach
  <2> QED BY <2>2, <2>3
<1>10. IsFiniteSet(E) /\ Cardinality(E) <= 2
  <2>1. /\ IsFiniteSet({1} \cup {n})
        /\ Cardinality({1} \cup {n}) = IF n \in {1} THEN Cardinality({1}) ELSE Cardinality({1}) + 1
    BY FS_Singleton, FS_AddElement, Zenon
  <2>2. Cardinality({1}) = 1
    BY FS_Singleton
  <2>3. E = {1} \cup {n}
    BY Zenon
  <2>4. Cardinality({1} \cup {n}) <= 2
    <3> DEFINE d == Cardinality({1} \cup {n})
    <3>1. d = 1 \/ d = 1 + 1
      BY <2>1, <2>2, Zenon
    <3> HIDE DEF d
    <3>2. d <= 2
      BY <3>1
    <3> QED BY <3>2 DEF d
  <2> HIDE DEF E, n
  <2> QED BY <2>1, <2>3, <2>4, Zenon
<1> HIDE DEF E
<1>11. bins \in Nat /\ 2 \in Nat /\ bins + bins \in Nat
  OBVIOUS
<1>12. IsFiniteSet(X \cup Y) /\ Cardinality(X \cup Y) <= bins + bins
  BY <1>9, <1>11, UnionAtMost
<1>13. Cardinality(E \cup (X \cup Y)) \in Nat /\ Cardinality(E \cup (X \cup Y)) <= 2 + (bins + bins)
  BY <1>10, <1>11, <1>12, UnionAtMost
<1> QED BY <1>8, <1>13

\* A thinned series is made of points of the series, reaches as high, and has
\* two points for a bin, and the ends.
LEMMA ThinnedIs ==
    ASSUME NEW points \in Seq(Pt), Len(points) >= 3, NEW bins \in Nat \ {0}
    PROVE  /\ Sampled(Thinned(points, bins), points) /\ Reaches(Thinned(points, bins), points)
           /\ Len(Thinned(points, bins)) <= 2 * bins + 2
<1> DEFINE n == Len(points)
           I == Kept(points, bins)
<1>1. n \in Nat /\ n >= 3 /\ DOMAIN points = 1..n
  OBVIOUS
<1>2. Thinned(points, bins) = At(points, I)
  BY Zenon DEF Thinned, Kept
<1>3. /\ \A b \in 0..(bins - 1) : Bin(b, bins, n) \in SUBSET (2..(n - 1))
      /\ \A i \in 2..(n - 1) : \E b \in 0..(bins - 1) : i \in Bin(b, bins, n)
  <2> HIDE DEF n
  <2> QED BY <1>1, BinIs
<1>4. \A b \in 0..(bins - 1) : Bin(b, bins, n) \in SUBSET (1..n)
  <2>1. 2..(n - 1) \subseteq 1..n
    BY <1>1
  <2> HIDE DEF n
  <2> QED BY <1>3, <2>1
<1>5. ASSUME NEW b \in 0..(bins - 1)
      PROVE  /\ Extremes(points, Bin(b, bins, n)) \subseteq 1..n
             /\ \A i \in Bin(b, bins, n) : \E j \in Extremes(points, Bin(b, bins, n)) :
                   points[j].tokens >= points[i].tokens
  <2> DEFINE c == Bin(b, bins, n)
  <2>1. c \in SUBSET (1..n)
    BY <1>4
  <2> HIDE DEF c
  <2>2. /\ Extremes(points, c) = {i \in c : Lowest(points, c, i)} \cup {i \in c : Highest(points, c, i)}
        /\ \A i \in c : \E j \in Extremes(points, c) : points[j].tokens >= points[i].tokens
    BY <2>1, ExtremesAre
  <2>3. Extremes(points, c) \subseteq 1..n
    BY <2>1, <2>2
  <2> QED BY <2>2, <2>3 DEF c
<1>6. I = {1, n} \cup UNION {Extremes(points, Bin(b, bins, n)) : b \in 0 .. bins - 1}
  BY DEF Kept
<1>7. I \in SUBSET (1..n) /\ 1 \in I /\ n \in I
  <2>1. 1 \in 1..n /\ n \in 1..n
    BY <1>1
  <2> HIDE DEF I, n
  <2>2. \A i \in I : i \in 1..n
    BY <1>5, <1>6, <2>1, Zenon
  <2> QED BY <1>6, <2>2
<1>8. ASSUME NEW i \in 1..n PROVE \E j \in I : points[j].tokens >= points[i].tokens
  <2>1. points[i].tokens \in Int
    <3>1. points[i] \in Pt
      OBVIOUS
    <3> QED BY <3>1, SeriesConstants DEF Pt
  <2>2. CASE i \in {1, n}
    <3>1. i \in I
      BY <1>7, <2>2
    <3> QED BY <2>1, <3>1
  <2>3. CASE i \notin {1, n}
    <3>1. i \in 2..(n - 1)
      <4>1. i # 1 /\ i # n
        BY <2>3
      <4> HIDE DEF n
      <4> QED BY <1>1, <4>1
    <3>2. PICK b \in 0..(bins - 1) : i \in Bin(b, bins, n)
      BY <1>3, <3>1
    <3>3. PICK j \in Extremes(points, Bin(b, bins, n)) : points[j].tokens >= points[i].tokens
      BY <1>5, <3>2
    <3>4. j \in I
      <4> HIDE DEF I, n
      <4> QED BY <1>6, <3>3, Zenon
    <3> QED BY <3>3, <3>4
  <2> QED BY <2>2, <2>3
<1>9. Cardinality(I) <= 2 * bins + 2
  BY KeptAreFew
<1> HIDE DEF I
<1>10. I \in SUBSET (1..Len(points)) /\ 1 \in I /\ Len(points) \in I
  BY <1>7 DEF n
<1>11. /\ Len(At(points, I)) = Cardinality(I) /\ Sampled(At(points, I), points)
       /\ (\A i \in DOMAIN points : \E j \in I : points[j].tokens >= points[i].tokens)
             => Reaches(At(points, I), points)
  BY <1>10, AtSamples
<1> QED BY <1>1, <1>2, <1>8, <1>9, <1>11

Rises(p) == \A i, j \in DOMAIN p : i < j => p[i].day < p[j].day

LEMMA PointIs ==
    ASSUME NEW p \in Seq(Pt), NEW i \in DOMAIN p
    PROVE  p[i] \in Pt /\ p[i].day \in Nat /\ p[i].tokens \in 0..MaxTokens /\ p[i].tokens \in Nat
<1>1. p[i] \in Pt
  OBVIOUS
<1>2. p[i].day \in Nat /\ p[i].tokens \in 0..MaxTokens
  BY <1>1 DEF Pt
<1> QED BY <1>1, <1>2, SeriesConstants

LEMMA SampledSelf ==
    ASSUME NEW p \in Seq(Pt), Len(p) >= 1
    PROVE  Sampled(p, p) /\ Reaches(p, p)
<1> DEFINE n == Len(p)
           o == [k \in 1..n |-> k]
<1>1. n \in Nat /\ n >= 1 /\ DOMAIN p = 1..n
  OBVIOUS
<1>2. o \in [1..n -> 1..n] /\ (\A k, l \in 1..n : k < l => o[k] < o[l])
      /\ o[1] = 1 /\ o[n] = n /\ \A k \in 1..n : p[k] = p[o[k]]
  BY <1>1
<1>3. Sampled(p, p)
  BY <1>1, <1>2 DEF Sampled
<1>4. ASSUME NEW i \in DOMAIN p PROVE p[i].tokens >= p[i].tokens
  BY PointIs
<1> QED BY <1>3, <1>4 DEF Reaches

LEMMA SampledTrans ==
    ASSUME NEW p, NEW q, NEW r, Sampled(r, q), Sampled(q, p)
    PROVE  Sampled(r, p)
<1> DEFINE lr == Len(r)
           lq == Len(q)
           lp == Len(p)
<1>1. r \in Seq(Pt) /\ lr \in Nat /\ lr >= 1 /\ lq \in Nat /\ lq >= 1
  BY DEF Sampled
<1>2. PICK o \in [1..lr -> 1..lq] :
         /\ \A k, l \in 1..lr : k < l => o[k] < o[l]
         /\ o[1] = 1 /\ o[lr] = lq
         /\ \A k \in 1..lr : r[k] = q[o[k]]
  BY DEF Sampled
<1>3. PICK u \in [1..lq -> 1..lp] :
         /\ \A k, l \in 1..lq : k < l => u[k] < u[l]
         /\ u[1] = 1 /\ u[lq] = lp
         /\ \A k \in 1..lq : q[k] = p[u[k]]
  BY DEF Sampled
<1> HIDE DEF lr, lq, lp
<1> DEFINE w == [k \in 1..lr |-> u[o[k]]]
<1>4. w \in [1..lr -> 1..lp]
  BY <1>2, <1>3
<1>5. (\A k, l \in 1..lr : k < l => w[k] < w[l]) /\ \A k \in 1..lr : r[k] = p[w[k]]
  BY <1>2, <1>3
<1>6. w[1] = 1 /\ w[lr] = lp
  BY <1>1, <1>2, <1>3
<1> HIDE DEF w
<1> QED BY <1>1, <1>4, <1>5, <1>6 DEF Sampled, lr, lp

LEMMA ReachesTrans ==
    ASSUME NEW p \in Seq(Pt), NEW q \in Seq(Pt), NEW r \in Seq(Pt), Reaches(r, q), Reaches(q, p)
    PROVE  Reaches(r, p)
<1> SUFFICES ASSUME NEW i \in DOMAIN p PROVE \E k \in DOMAIN r : r[k].tokens >= p[i].tokens
  BY DEF Reaches
<1>1. PICK j \in DOMAIN q : q[j].tokens >= p[i].tokens
  BY DEF Reaches
<1>2. PICK k \in DOMAIN r : r[k].tokens >= q[j].tokens
  BY DEF Reaches
<1>3. p[i].tokens \in Nat /\ q[j].tokens \in Nat /\ r[k].tokens \in Nat
  <2>1. p[i].tokens \in Nat
    BY PointIs
  <2>2. q[j].tokens \in Nat
    BY PointIs
  <2>3. r[k].tokens \in Nat
    BY PointIs
  <2> QED BY <2>1, <2>2, <2>3
<1> QED BY <1>1, <1>2, <1>3

\* What a sample has of the whole.
LEMMA SampledKeeps ==
    ASSUME NEW p \in Seq(Pt), NEW q, Sampled(q, p)
    PROVE  /\ q \in Seq(Pt) /\ Len(q) >= 1 /\ Len(p) >= 1
           /\ q[1] = p[1] /\ q[Len(q)] = p[Len(p)]
           /\ \A k \in DOMAIN q : \E i \in DOMAIN p : q[k] = p[i]
           /\ Rises(p) => Rises(q)
<1> DEFINE lq == Len(q)
           lp == Len(p)
<1>1. q \in Seq(Pt) /\ lq \in Nat /\ lq >= 1 /\ lp \in Nat /\ DOMAIN p = 1..lp /\ DOMAIN q = 1..lq
  BY DEF Sampled
<1>2. PICK o \in [1..lq -> 1..lp] :
         /\ \A k, l \in 1..lq : k < l => o[k] < o[l]
         /\ o[1] = 1 /\ o[lq] = lp
         /\ \A k \in 1..lq : q[k] = p[o[k]]
  BY DEF Sampled
<1> HIDE DEF lq, lp
<1>3. 1 \in 1..lq /\ lq \in 1..lq
  BY <1>1
<1>4. q[1] = p[1] /\ q[lq] = p[lp]
  BY <1>2, <1>3
<1>5. lp >= 1
  <2>1. o[1] \in 1..lp
    BY <1>2, <1>3
  <2> QED BY <1>1, <1>2, <2>1
<1>6. \A k \in 1..lq : o[k] \in 1..lp /\ q[k] = p[o[k]]
  BY <1>2
<1>7. Rises(p) => Rises(q)
  BY <1>1, <1>2, <1>6 DEF Rises
<1> QED BY <1>1, <1>4, <1>5, <1>6, <1>7 DEF lq, lp

LEMMA BinsAre ==
    ASSUME NEW limit \in Nat, limit >= 4
    PROVE  Bins(limit) \in Nat \ {0} /\ 2 * Bins(limit) + 2 <= limit
<1> DEFINE h == (limit - 2) \div 2
<1>1. h \in Int /\ h >= 1 /\ 2 * h + 2 <= limit
  OBVIOUS
<1> HIDE DEF h
<1>2. Max({h, 1}) = h
  BY <1>1, MaxOfTwo
<1> QED BY <1>1, <1>2 DEF Bins, h

\* A bounded series is short enough, a sample, and as high.
LEMMA BoundedIs ==
    ASSUME NEW points \in Seq(Pt), Len(points) >= 1, NEW limit \in Nat, limit >= 4
    PROVE  /\ Sampled(Bounded(points, limit), points) /\ Reaches(Bounded(points, limit), points)
           /\ Len(Bounded(points, limit)) <= limit
           /\ Len(points) <= limit => Bounded(points, limit) = points
<1>1. CASE Len(points) <= limit
  BY <1>1, SampledSelf DEF Bounded
<1>2. CASE ~(Len(points) <= limit)
  <2> DEFINE b == Bins(limit)
             t == Thinned(points, b)
  <2>1. b \in Nat \ {0} /\ 2 * b + 2 <= limit
    BY BinsAre
  <2>2. Len(points) >= 3
    BY <1>2
  <2>3. Bounded(points, limit) = t
    BY <1>2 DEF Bounded
  <2> HIDE DEF b
  <2>4. Sampled(t, points) /\ Reaches(t, points) /\ Len(t) <= 2 * b + 2
    BY <2>1, <2>2, ThinnedIs
  <2>5. Len(t) \in Nat
    BY <2>4 DEF Sampled
  <2> HIDE DEF t
  <2>6. Len(t) <= limit
    BY <2>1, <2>4, <2>5
  <2> QED BY <1>2, <2>3, <2>4, <2>6
<1> QED BY <1>1, <1>2

\* So is what is drawn of a series, but of two points none need be the highest.
LEMMA PlottedIs ==
    ASSUME NEW points \in Seq(Pt), Len(points) >= 1, NEW maximum \in Nat, maximum >= 2
    PROVE  /\ Sampled(Plotted(points, maximum), points)
           /\ maximum >= 3 => Reaches(Plotted(points, maximum), points)
           /\ Len(Plotted(points, maximum)) <= maximum
<1> DEFINE n == Len(points)
           pl == Plotted(points, maximum)
           best(i) == \A j \in 2..(n - 1) : \/ points[i].tokens > points[j].tokens
                                            \/ points[i].tokens = points[j].tokens /\ i >= j
           H == {i \in 2..(n - 1) : best(i)}
           K == {1, n} \cup H
<1>1. pl = IF n <= maximum \/ n <= 2 THEN points
           ELSE IF maximum <= 2 THEN <<points[1], points[n]>>
           ELSE IF maximum = 3 THEN At(points, K)
           ELSE Thinned(points, Bins(maximum))
  BY Zenon DEF Plotted
<1>2. n \in Nat /\ n >= 1 /\ DOMAIN points = 1..n
  OBVIOUS
<1> HIDE DEF pl
<1>3. CASE n <= maximum \/ n <= 2
  <2>1. pl = points
    <3> HIDE DEF K, n
    <3> QED BY <1>1, <1>3
  <2>2. n <= maximum
    BY <1>2, <1>3
  <2> QED BY <2>1, <2>2, SampledSelf DEF pl
<1>4. CASE ~(n <= maximum \/ n <= 2) /\ maximum <= 2
  <2>1. pl = <<points[1], points[n]>>
    <3> HIDE DEF K, n
    <3> QED BY <1>1, <1>4
  <2>2. points[1] \in Pt /\ points[n] \in Pt
    BY <1>2, PointIs
  <2> DEFINE o == [k \in 1..2 |-> IF k = 1 THEN 1 ELSE n]
  <2>3. pl \in Seq(Pt) /\ Len(pl) = 2 /\ pl[1] = points[1] /\ pl[2] = points[n]
    BY <2>1, <2>2
  <2>4. /\ o \in [1..2 -> 1..n] /\ o[1] = 1 /\ o[2] = n
        /\ \A k, l \in 1..2 : k < l => o[k] < o[l]
    BY <1>2, <1>4
  <2>5. \A k \in 1..2 : pl[k] = points[o[k]]
    BY <2>3, <2>4
  <2> HIDE DEF o
  <2>6. Sampled(pl, points)
    BY <2>3, <2>4, <2>5 DEF Sampled
  <2> QED BY <1>4, <2>3, <2>6 DEF pl
<1>5. CASE ~(n <= maximum \/ n <= 2) /\ maximum = 3
  <2>1. pl = At(points, K)
    <3> HIDE DEF K, n
    <3> QED BY <1>1, <1>5
  <2>2. n >= 3
    BY <1>2, <1>5
  <2>3. K \in SUBSET (1..n) /\ 1 \in K /\ n \in K
    <3>1. 1 \in 1..n /\ n \in 1..n /\ 2..(n - 1) \subseteq 1..n
      <4> HIDE DEF n
      <4> QED BY <1>2, <2>2
    <3> HIDE DEF n, best
    <3> QED BY <3>1
  <2>4. PICK h : H = {h} /\ \A i \in 2..(n - 1) : points[h].tokens >= points[i].tokens
    <3> DEFINE D == 2..(n - 1)
               T == {MaxTokens - points[j].tokens : j \in D}
    <3>1. D # {} /\ \A j \in D : j \in 1..n /\ j \in Nat /\ n - j \in Nat
      <4>1. n - 1 \in D
        <5> HIDE DEF n
        <5> QED BY <1>2, <2>2
      <4>2. ASSUME NEW j \in D PROVE j \in 1..n /\ j \in Nat /\ n - j \in Nat
        <5> HIDE DEF n
        <5> QED BY <1>2
      <4> HIDE DEF D
      <4> QED BY <4>1, <4>2
    <3>2. \A j \in D : points[j].tokens \in 0..MaxTokens /\ points[j].tokens \in Nat
      <4> HIDE DEF D, n
      <4> QED BY <1>2, <3>1, PointIs
    <3> HIDE DEF D
    <3>3. MaxTokens \in Nat
      BY SeriesConstants
    <3>4. T \subseteq Nat /\ T # {}
      BY <3>1, <3>2, <3>3
    <3>5. PICK m \in T : \A k \in T : m <= k
      BY <3>4, LeastNatural, Zenon
    <3>6. PICK g \in D : m = MaxTokens - points[g].tokens
      BY <3>5
    <3>7. ASSUME NEW j \in D PROVE points[g].tokens >= points[j].tokens
      <4>1. m <= MaxTokens - points[j].tokens
        BY <3>5
      <4>2. points[g].tokens \in Nat /\ points[j].tokens \in Nat
        BY <3>2
      <4> QED BY <3>3, <3>6, <4>1, <4>2
    <3> DEFINE U == {n - j : j \in {k \in D : points[k].tokens = points[g].tokens}}
    <3>8. U \subseteq Nat /\ U # {}
      BY <3>1
    <3>9. PICK f \in U : \A k \in U : f <= k
      BY <3>8, LeastNatural, Zenon
    <3>10. PICK h \in D : points[h].tokens = points[g].tokens /\ f = n - h
      BY <3>9
    <3>11. ASSUME NEW j \in D
           PROVE  \/ points[h].tokens > points[j].tokens
                  \/ points[h].tokens = points[j].tokens /\ h >= j
      <4>1. CASE points[j].tokens = points[g].tokens
        <5>1. f <= n - j
          BY <3>9, <4>1
        <5>2. h \in Nat /\ j \in Nat /\ n \in Nat
          BY <1>2, <3>1
        <5> HIDE DEF n
        <5> QED BY <3>10, <4>1, <5>1, <5>2
      <4>2. CASE points[j].tokens # points[g].tokens
        <5>1. points[g].tokens \in Nat /\ points[j].tokens \in Nat
          BY <3>2
        <5>2. points[g].tokens >= points[j].tokens
          BY <3>7
        <5>3. points[g].tokens > points[j].tokens
          BY <4>2, <5>1, <5>2
        <5> QED BY <3>10, <5>3
      <4> QED BY <4>1, <4>2
    <3>12. h \in H
      BY <3>11 DEF D
    <3>13. ASSUME NEW i \in H PROVE i = h
      <4>1. i \in D /\ h \in D /\ best(i) /\ best(h)
        BY <3>12 DEF D
      <4>2. /\ \/ points[i].tokens > points[h].tokens
               \/ points[i].tokens = points[h].tokens /\ i >= h
            /\ \/ points[h].tokens > points[i].tokens
               \/ points[h].tokens = points[i].tokens /\ h >= i
        BY <4>1, Zenon DEF D
      <4>3. i \in Nat /\ h \in Nat /\ points[i].tokens \in Nat /\ points[h].tokens \in Nat
        BY <3>1, <3>2, <4>1
      <4> QED BY <4>2, <4>3
    <3>14. \A i \in D : points[h].tokens >= points[i].tokens
      BY <3>7, <3>10
    <3>15. H = {h}
      <4> HIDE DEF H
      <4> QED BY <3>12, <3>13, Zenon
    <3> QED BY <3>14, <3>15, Zenon DEF D
  <2>5. ASSUME NEW i \in 1..n PROVE \E j \in K : points[j].tokens >= points[i].tokens
    <3>1. points[i].tokens >= points[i].tokens
      <4>1. i \in DOMAIN points
        BY <1>2
      <4>2. points[i].tokens \in Nat
        BY <4>1, PointIs
      <4> QED BY <4>2
    <3>2. i = 1 \/ i = n \/ i \in 2..(n - 1)
      <4> HIDE DEF n
      <4> QED BY <1>2
    <3>3. h \in K
      BY <2>4
    <3> HIDE DEF K, n
    <3> QED BY <2>3, <2>4, <3>1, <3>2, <3>3
  <2>6. Cardinality(K) <= 3
    <3>1. K = {1} \cup {n} \cup {h}
      BY <2>4, Zenon
    <3>2. IsFiniteSet({1}) /\ Cardinality({1}) = 1 /\ IsFiniteSet({n}) /\ Cardinality({n}) = 1
          /\ IsFiniteSet({h}) /\ Cardinality({h}) = 1
      BY FS_Singleton, Zenon
    <3> DEFINE A == {1}
               B == {n}
               C == {h}
    <3>3. IsFiniteSet(A) /\ IsFiniteSet(B) /\ IsFiniteSet(C)
          /\ Cardinality(A) <= 1 /\ Cardinality(B) <= 1 /\ Cardinality(C) <= 1
      BY <3>2
    <3> HIDE DEF A, B, C
    <3>4. IsFiniteSet(A \cup B) /\ Cardinality(A \cup B) <= 1 + 1
      BY <3>3, UnionAtMost
    <3>5. Cardinality((A \cup B) \cup C) <= 2 + 1
      <4> DEFINE S == A \cup B
      <4>1. IsFiniteSet(S) /\ Cardinality(S) <= 2
        BY <3>4
      <4> HIDE DEF S
      <4>2. Cardinality(S \cup C) <= 2 + 1
        BY <3>3, <4>1, UnionAtMost
      <4> QED BY <4>2 DEF S
    <3>6. Cardinality((A \cup B) \cup C) <= 3
      BY <3>5
    <3> HIDE DEF K
    <3> QED BY <3>1, <3>6 DEF A, B, C
  <2> HIDE DEF K
  <2>7. K \in SUBSET (1..Len(points)) /\ 1 \in K /\ Len(points) \in K
    BY <2>3
  <2>8. /\ Len(At(points, K)) = Cardinality(K) /\ Sampled(At(points, K), points)
        /\ (\A i \in DOMAIN points : \E j \in K : points[j].tokens >= points[i].tokens)
              => Reaches(At(points, K), points)
    BY <2>7, AtSamples
  <2> QED BY <1>2, <1>5, <2>1, <2>5, <2>6, <2>8 DEF pl
<1>6. CASE ~(n <= maximum \/ n <= 2) /\ ~(maximum <= 2) /\ maximum # 3
  <2>1. pl = Thinned(points, Bins(maximum))
    <3> HIDE DEF K, n
    <3> QED BY <1>1, <1>6
  <2>2. ~(n <= maximum) /\ maximum >= 4
    BY <1>2, <1>6
  <2>3. Bounded(points, maximum) = pl
    BY <2>1, <2>2 DEF Bounded
  <2> QED BY <2>2, <2>3, BoundedIs DEF pl
<1> QED BY <1>3, <1>4, <1>5, <1>6

-----------------------------------------------------------------------------
(* A point more. *)

\* q begins with the point a, is in order, short enough, and as the days were used.
Genuine(q, a, use) ==
    /\ q \in Seq(Pt) /\ Len(q) \in 1..MaxPoints /\ Rises(q)
    /\ q[1] = a
    /\ \A i \in DOMAIN q : q[i].tokens = use[q[i].day]

\* Between two points that are days apart nothing was used, nor on their days.
Bridges(x, y, use) ==
    y.day - x.day > 1 => /\ x.tokens = 0 /\ y.tokens = 0
                         /\ \A day \in x.day + 1 .. y.day - 1 : use[day] = 0

BridgesNoUse(q, use) == \A i \in 1..(Len(q) - 1) : Bridges(q[i], q[i + 1], use)

\* A genuine series to which c points were offered.
Holds(q, a, use, c) ==
    /\ Genuine(q, a, use) /\ c \in Nat
    /\ c <= MaxPoints => Len(q) = c /\ BridgesNoUse(q, use)

\* The series that a point is appended to.
LEMMA OfferIs ==
    ASSUME NEW q \in Seq(Pt), Len(q) \in 1..MaxPoints, NEW p \in Pt, q[Len(q)].day < p.day
    PROVE  \E b : /\ Offer(q, p) = Append(b, p)
                  /\ Sampled(b, q) /\ Reaches(b, q) /\ Len(b) < MaxPoints
                  /\ Len(q) < MaxPoints => b = q
<1> DEFINE half == MaxPoints \div 2
<1>1. half \in Nat /\ half >= 4 /\ half < MaxPoints
  BY SeriesConstants
<1>2. Len(q) \in Nat /\ Len(q) >= 1
  OBVIOUS
<1>3. q[Len(q)].day \in Nat /\ p.day \in Nat
  <2>1. Len(q) \in DOMAIN q
    BY <1>2
  <2> QED BY <2>1, PointIs DEF Pt
<1>4. ~(q # <<>> /\ Last(q).day = p.day)
  BY <1>3 DEF Last
<1>5. CASE Len(q) >= MaxPoints
  <2> DEFINE b == Bounded(q, half)
  <2>1. Offer(q, p) = Append(b, p)
    BY <1>4, <1>5 DEF Offer
  <2> HIDE DEF half
  <2>2. Sampled(b, q) /\ Reaches(b, q) /\ Len(b) <= half
    BY <1>1, <1>2, BoundedIs
  <2>3. Len(b) \in Nat
    BY <2>2 DEF Sampled
  <2> HIDE DEF b
  <2>4. Len(b) < MaxPoints /\ ~(Len(q) < MaxPoints)
    BY <1>1, <1>2, <1>5, <2>2, <2>3, SeriesConstants
  <2> QED BY <2>1, <2>2, <2>4
<1>6. CASE ~(Len(q) >= MaxPoints)
  <2>1. Offer(q, p) = Append(q, p)
    BY <1>4, <1>6 DEF Offer
  <2>2. Len(q) < MaxPoints
    BY <1>2, <1>6, SeriesConstants
  <2> QED BY <1>2, <2>1, <2>2, SampledSelf
<1> QED BY <1>5, <1>6

LEMMA AppendRises ==
    ASSUME NEW b \in Seq(Pt), Rises(b), Len(b) >= 1, NEW p \in Pt, b[Len(b)].day < p.day
    PROVE  Rises(Append(b, p))
<1> DEFINE n == Len(b)
           t == Append(b, p)
<1>1. n \in Nat /\ n >= 1 /\ DOMAIN b = 1..n /\ DOMAIN t = 1..(n + 1) /\ t[n + 1] = p
      /\ \A i \in 1..n : t[i] = b[i]
  OBVIOUS
<1>2. \A i \in 1..n : b[i].day \in Nat
  BY <1>1, PointIs
<1>3. p.day \in Nat /\ b[n].day < p.day
  BY DEF Pt
<1> HIDE DEF n, t
<1>4. \A i \in 1..n : b[i].day < p.day
  <2> TAKE i \in 1..n
  <2>1. n \in 1..n /\ (i < n \/ i = n)
    BY <1>1
  <2>2. i < n => b[i].day < b[n].day
    BY <1>1, <2>1 DEF Rises
  <2> QED BY <1>2, <1>3, <2>1, <2>2
<1>5. ASSUME NEW i \in 1..(n + 1), NEW j \in 1..(n + 1), i < j PROVE t[i].day < t[j].day
  <2>1. i \in 1..n /\ (j \in 1..n \/ j = n + 1)
    BY <1>1, <1>5
  <2>2. CASE j \in 1..n
    BY <1>1, <1>5, <2>1, <2>2 DEF Rises
  <2>3. CASE j = n + 1
    BY <1>1, <1>4, <2>1, <2>3
  <2> QED BY <2>1, <2>2, <2>3
<1> QED BY <1>1, <1>5 DEF Rises, t

\* A point that is offered is the last one of a series that is still genuine.
LEMMA Grows ==
    ASSUME NEW q, NEW a, NEW use, NEW c, Holds(q, a, use, c),
           NEW p \in Pt, q[Len(q)].day < p.day, use[p.day] = p.tokens,
           Bridges(q[Len(q)], p, use)
    PROVE  LET r == Offer(q, p)
           IN  Holds(r, a, use, c + 1) /\ r[Len(r)] = p /\ Reaches(r, q)
<1> DEFINE r == Offer(q, p)
<1>1. /\ q \in Seq(Pt) /\ Len(q) \in 1..MaxPoints /\ Rises(q) /\ q[1] = a /\ c \in Nat
      /\ \A i \in DOMAIN q : q[i].tokens = use[q[i].day]
      /\ c <= MaxPoints => Len(q) = c /\ BridgesNoUse(q, use)
  BY DEF Holds, Genuine
<1>2. PICK b : /\ Offer(q, p) = Append(b, p)
               /\ Sampled(b, q) /\ Reaches(b, q) /\ Len(b) < MaxPoints
               /\ Len(q) < MaxPoints => b = q
  BY <1>1, OfferIs
<1>3. /\ b \in Seq(Pt) /\ Len(b) >= 1 /\ b[1] = q[1] /\ b[Len(b)] = q[Len(q)] /\ Rises(b)
      /\ \A k \in DOMAIN b : \E i \in DOMAIN q : b[k] = q[i]
  BY <1>1, <1>2, SampledKeeps
<1> DEFINE n == Len(b)
<1>4. n \in Nat /\ n >= 1 /\ n < MaxPoints /\ DOMAIN b = 1..n
  BY <1>2, <1>3
<1>5. r \in Seq(Pt) /\ Len(r) = n + 1 /\ DOMAIN r = 1..(n + 1) /\ r[n + 1] = p
      /\ \A i \in 1..n : r[i] = b[i]
  BY <1>2, <1>3
<1>6. Rises(r)
  <2>1. b[Len(b)].day < p.day
    BY <1>3
  <2> QED BY <1>2, <1>3, <2>1, AppendRises
<1> HIDE DEF r, n
<1>7. r[1] = a
  <2>1. 1 \in 1..n
    BY <1>4
  <2> QED BY <1>1, <1>3, <1>5, <2>1
<1>8. ASSUME NEW i \in 1..(n + 1) PROVE r[i].tokens = use[r[i].day]
  <2>1. CASE i \in 1..n
    <3>1. PICK k \in DOMAIN q : b[i] = q[k]
      BY <1>3, <1>4, <2>1
    <3> QED BY <1>1, <1>5, <2>1, <3>1
  <2>2. CASE i \notin 1..n
    <3>1. i = n + 1
      BY <1>4, <2>2
    <3> QED BY <1>5, <3>1
  <2> QED BY <2>1, <2>2
<1>9. Len(r) \in 1..MaxPoints
  BY <1>4, <1>5, SeriesConstants
<1>10. Genuine(r, a, use)
  BY <1>5, <1>6, <1>7, <1>8, <1>9 DEF Genuine
<1>11. ASSUME c + 1 <= MaxPoints PROVE Len(r) = c + 1 /\ BridgesNoUse(r, use)
  <2>1. c <= MaxPoints /\ Len(q) = c /\ BridgesNoUse(q, use) /\ Len(q) < MaxPoints
    BY <1>1, <1>11, SeriesConstants
  <2>2. b = q /\ n = c
    BY <1>2, <2>1 DEF n
  <2>3. ASSUME NEW i \in 1..(Len(r) - 1) PROVE Bridges(r[i], r[i + 1], use)
    <3>1. i \in 1..n
      BY <1>4, <1>5, <2>3
    <3>2. CASE i = n
      <4>1. r[i] = q[Len(q)] /\ r[i + 1] = p
        BY <1>5, <2>2, <3>1, <3>2 DEF n
      <4> QED BY <4>1
    <3>3. CASE i # n
      <4>1. i \in 1..(n - 1) /\ i + 1 \in 1..n
        BY <1>4, <3>1, <3>3
      <4>2. r[i] = q[i] /\ r[i + 1] = q[i + 1]
        BY <1>5, <2>2, <3>1, <4>1
      <4>3. Bridges(q[i], q[i + 1], use)
        BY <2>1, <2>2, <4>1 DEF BridgesNoUse
      <4> QED BY <4>2, <4>3
    <3> QED BY <3>2, <3>3
  <2>4. Len(r) = c + 1
    BY <1>5, <2>2
  <2> QED BY <2>3, <2>4 DEF BridgesNoUse
<1>12. Holds(r, a, use, c + 1)
  BY <1>1, <1>10, <1>11 DEF Holds
<1>13. Reaches(r, q)
  <2> SUFFICES ASSUME NEW i \in DOMAIN q PROVE \E j \in DOMAIN r : r[j].tokens >= q[i].tokens
    BY DEF Reaches
  <2>1. PICK k \in 1..n : b[k].tokens >= q[i].tokens
    BY <1>2, <1>4 DEF Reaches
  <2>2. k \in DOMAIN r
    BY <1>4, <1>5
  <2> QED BY <1>5, <2>1, <2>2
<1> QED BY <1>5, <1>12, <1>13 DEF r

\* The source's use of each day.
UseOf(s) ==
    [day \in Nat |-> IF day \in {s[i].day : i \in DOMAIN s}
                     THEN (CHOOSE bucket \in {s[i] : i \in DOMAIN s} : bucket.day = day).tokens
                     ELSE 0]

LEMMA UseIs ==
    ASSUME NEW s \in Seq(Pt), Rises(s)
    PROVE  /\ \A i \in DOMAIN s : UseOf(s)[s[i].day] = s[i].tokens
           /\ \A day \in Nat : (\A i \in DOMAIN s : s[i].day # day) => UseOf(s)[day] = 0
<1> DEFINE n == Len(s)
<1>1. n \in Nat /\ DOMAIN s = 1..n
  OBVIOUS
<1> HIDE DEF n
<1>2. ASSUME NEW i \in 1..n PROVE UseOf(s)[s[i].day] = s[i].tokens
  <2> DEFINE chosen == CHOOSE bucket \in {s[j] : j \in DOMAIN s} : bucket.day = s[i].day
  <2>1. s[i].day \in Nat
    BY <1>1, PointIs
  <2>2. s[i] \in {s[j] : j \in DOMAIN s} /\ s[i].day \in {s[j].day : j \in DOMAIN s}
    BY <1>1
  <2>3. chosen \in {s[j] : j \in DOMAIN s} /\ chosen.day = s[i].day
    BY <2>2
  <2>4. UseOf(s)[s[i].day] = chosen.tokens
    <3> DEFINE x == s[i].day
    <3>1. \A day \in Nat : UseOf(s)[day] =
             IF day \in {s[j].day : j \in DOMAIN s}
             THEN (CHOOSE bucket \in {s[j] : j \in DOMAIN s} : bucket.day = day).tokens ELSE 0
      BY Zenon DEF UseOf
    <3>2. x \in Nat /\ x \in {s[j].day : j \in DOMAIN s}
      BY <2>1, <2>2
    <3>3. chosen = CHOOSE bucket \in {s[j] : j \in DOMAIN s} : bucket.day = x
      BY Zenon
    <3> HIDE DEF x, chosen
    <3>4. UseOf(s)[x] = chosen.tokens
      BY <3>1, <3>2, <3>3, Zenon
    <3> QED BY <3>4 DEF x
  <2> HIDE DEF chosen
  <2>5. PICK j \in 1..n : chosen = s[j]
    BY <1>1, <2>3
  <2>6. s[j].day \in Nat
    BY <1>1, PointIs
  <2>7. (i < j => s[i].day < s[j].day) /\ (j < i => s[j].day < s[i].day)
    BY <1>1 DEF Rises
  <2>8. i = j
    BY <1>1, <2>1, <2>3, <2>5, <2>6, <2>7
  <2> QED BY <2>4, <2>5, <2>8
<1>3. ASSUME NEW day \in Nat, \A i \in DOMAIN s : s[i].day # day PROVE UseOf(s)[day] = 0
  BY <1>3 DEF UseOf
<1> QED BY <1>1, <1>2, <1>3

\* A bucket more leaves the days before as they were, and those between unused.
LEMMA UseGrows ==
    ASSUME NEW s \in Seq(Pt), Len(s) >= 1, Rises(s), NEW p \in Pt, s[Len(s)].day < p.day
    PROVE  LET t == Append(s, p)
               d == s[Len(s)].day
           IN  /\ t \in Seq(Pt) /\ Rises(t)
               /\ UseOf(t)[p.day] = p.tokens
               /\ \A day \in Nat : day <= d => UseOf(t)[day] = UseOf(s)[day]
               /\ \A day \in Nat : d < day /\ day < p.day => UseOf(t)[day] = 0
               /\ \A day \in Nat : d < day => UseOf(s)[day] = 0
<1> DEFINE t == Append(s, p)
           n == Len(s)
           d == s[n].day
<1>1. /\ n \in Nat /\ n >= 1 /\ DOMAIN s = 1..n /\ DOMAIN t = 1..(n + 1) /\ t[n + 1] = p
      /\ t \in Seq(Pt) /\ \A i \in 1..n : t[i] = s[i]
  OBVIOUS
<1>2. Rises(t)
  <2>1. s[Len(s)].day < p.day /\ Len(s) >= 1
    OBVIOUS
  <2>2. Rises(Append(s, p))
    <3> HIDE DEF t, n, d
    <3> QED BY <2>1, AppendRises
  <2> QED BY <2>2
<1>3. \A i \in 1..n : s[i].day \in Nat /\ s[i].day <= d
  <2> SUFFICES ASSUME NEW i \in 1..n PROVE s[i].day \in Nat /\ s[i].day <= d
    OBVIOUS
  <2>1. n \in 1..n /\ (i = n \/ i < n)
    <3> HIDE DEF n
    <3> QED BY <1>1
  <2>2. s[i].day \in Nat /\ d \in Nat
    BY <1>1, <2>1, PointIs
  <2>3. i < n => s[i].day < d
    BY <1>1, <2>1 DEF Rises
  <2> QED BY <2>1, <2>2, <2>3
<1>4. d \in Nat /\ p.day \in Nat /\ d < p.day
  <2>1. n \in 1..n
    BY <1>1
  <2> QED BY <1>3, <2>1 DEF Pt
<1>5. /\ \A i \in 1..(n + 1) : UseOf(t)[t[i].day] = t[i].tokens
      /\ \A day \in Nat : (\A i \in 1..(n + 1) : t[i].day # day) => UseOf(t)[day] = 0
  BY <1>1, <1>2, UseIs
<1>6. /\ \A i \in 1..n : UseOf(s)[s[i].day] = s[i].tokens
      /\ \A day \in Nat : (\A i \in 1..n : s[i].day # day) => UseOf(s)[day] = 0
  BY <1>1, UseIs
<1> HIDE DEF t, n, d
<1>7. n + 1 \in 1..(n + 1) /\ (\A i \in 1..n : i \in 1..(n + 1))
      /\ (\A i \in 1..(n + 1) : i \in 1..n \/ i = n + 1)
  BY <1>1
<1>8. UseOf(t)[p.day] = p.tokens
  BY <1>1, <1>5, <1>7
<1>9. ASSUME NEW day \in Nat, day <= d PROVE UseOf(t)[day] = UseOf(s)[day]
  <2>1. CASE \E i \in 1..n : s[i].day = day
    BY <1>1, <1>5, <1>6, <1>7, <2>1
  <2>2. CASE ~\E i \in 1..n : s[i].day = day
    <3>1. p.day # day
      BY <1>4, <1>9
    <3>2. \A i \in 1..(n + 1) : t[i].day # day
      BY <1>1, <1>7, <2>2, <3>1
    <3> QED BY <1>5, <1>6, <2>2, <3>2
  <2> QED BY <2>1, <2>2
<1>10. ASSUME NEW day \in Nat, d < day PROVE \A i \in 1..n : s[i].day # day
  BY <1>3, <1>4, <1>10
<1>11. ASSUME NEW day \in Nat, d < day, day < p.day PROVE UseOf(t)[day] = 0
  <2>1. p.day # day
    BY <1>4, <1>11
  <2>2. \A i \in 1..(n + 1) : t[i].day # day
    BY <1>1, <1>7, <1>10, <1>11, <2>1
  <2> QED BY <1>5, <2>2
<1>12. ASSUME NEW day \in Nat, d < day PROVE UseOf(s)[day] = 0
  BY <1>6, <1>10, <1>12
<1> QED BY <1>1, <1>2, <1>8, <1>9, <1>11, <1>12 DEF t, n, d

LEMMA HoldsFor ==
    ASSUME NEW q, NEW a, NEW use, NEW other, NEW c, Holds(q, a, use, c),
           \A day \in Nat : day <= q[Len(q)].day => other[day] = use[day]
    PROVE  Holds(q, a, other, c)
<1> DEFINE n == Len(q)
           d == q[n].day
<1>1. /\ q \in Seq(Pt) /\ n \in 1..MaxPoints /\ Rises(q) /\ q[1] = a /\ c \in Nat
      /\ \A i \in DOMAIN q : q[i].tokens = use[q[i].day]
      /\ c <= MaxPoints => n = c /\ BridgesNoUse(q, use)
  BY DEF Holds, Genuine
<1>2. n \in Nat /\ n >= 1 /\ DOMAIN q = 1..n
  BY <1>1
<1>3. \A i \in 1..n : q[i].day \in Nat
  BY <1>1, <1>2, PointIs
<1>4. \A day \in Nat : day <= d => other[day] = use[day]
  OBVIOUS
<1> HIDE DEF n
<1>5. n \in 1..n /\ d \in Nat
  <2>1. n \in 1..n
    BY <1>2
  <2> QED BY <1>3, <2>1
<1>6. ASSUME NEW i \in 1..n PROVE q[i].day <= d
  <2>1. i = n \/ i < n
    BY <1>2
  <2>2. i < n => q[i].day < q[n].day
    BY <1>1, <1>2, <1>5 DEF Rises
  <2> QED BY <1>3, <1>5, <2>1, <2>2
<1> HIDE DEF d
<1>7. \A i \in DOMAIN q : q[i].tokens = other[q[i].day]
  BY <1>1, <1>2, <1>3, <1>4, <1>6
<1>8. ASSUME NEW i \in 1..(n - 1), Bridges(q[i], q[i + 1], use) PROVE Bridges(q[i], q[i + 1], other)
  <2>1. i \in 1..n /\ i + 1 \in 1..n
    BY <1>2
  <2>2. q[i].day \in Nat /\ q[i + 1].day \in Nat /\ q[i + 1].day <= d
    BY <1>3, <1>6, <2>1
  <2>3. \A day \in q[i].day + 1 .. q[i + 1].day - 1 : other[day] = use[day]
    BY <1>4, <1>5, <2>2
  <2> QED BY <1>8, <2>3 DEF Bridges
<1>9. BridgesNoUse(q, use) => BridgesNoUse(q, other)
  BY <1>8 DEF BridgesNoUse, n
<1> QED BY <1>1, <1>7, <1>9 DEF Holds, Genuine, n

LEMMA LastIs ==
    ASSUME NEW q, NEW a, NEW use, NEW c, Holds(q, a, use, c)
    PROVE  /\ q \in Seq(Pt) /\ Len(q) \in Nat /\ Len(q) >= 1 /\ q[Len(q)] \in Pt
           /\ q[Len(q)].day \in Nat /\ Last(q) = q[Len(q)] /\ c \in Nat
<1>1. q \in Seq(Pt) /\ Len(q) \in 1..MaxPoints /\ c \in Nat
  BY DEF Holds, Genuine
<1>2. Len(q) \in DOMAIN q
  BY <1>1
<1> QED BY <1>1, <1>2, PointIs DEF Last

\* A day without use is added, unless the line to it would pass over use.
LEMMA GrowsIdle ==
    ASSUME NEW q, NEW a, NEW use, NEW c, Holds(q, a, use, c),
           NEW e \in Nat, q[Len(q)].day < e,
           e = q[Len(q)].day + 1 \/ q[Len(q)].tokens = 0,
           \A day \in Nat : q[Len(q)].day < day /\ day <= e => use[day] = 0
    PROVE  LET r == Offer(q, Point(e, 0))
           IN  Holds(r, a, use, c + 1) /\ r[Len(r)] = Point(e, 0) /\ Reaches(r, q)
<1> DEFINE z == q[Len(q)]
           p == Point(e, 0)
<1>1. p \in Pt /\ p.day = e /\ p.tokens = 0
  BY SeriesConstants DEF Point, Pt
<1>2. z.day \in Nat
  BY LastIs
<1> HIDE DEF p
<1>3. use[p.day] = p.tokens
  BY <1>1
<1>4. Bridges(z, p, use)
  <2>1. z.day < e /\ (e = z.day + 1 \/ z.tokens = 0)
        /\ \A day \in Nat : z.day < day /\ day <= e => use[day] = 0
    OBVIOUS
  <2> HIDE DEF z
  <2>2. \A day \in z.day + 1 .. e - 1 : use[day] = 0
    BY <1>2, <2>1
  <2> QED BY <1>1, <1>2, <2>1, <2>2 DEF Bridges
<1>5. q[Len(q)].day < p.day
  BY <1>1
<1>6. LET r == Offer(q, p) IN Holds(r, a, use, c + 1) /\ r[Len(r)] = p /\ Reaches(r, q)
  BY <1>1, <1>3, <1>4, <1>5, Grows
<1> QED BY <1>6 DEF p

\* The ends of a gap are there before the bucket that ends it.
LEMMA GapEndsAre ==
    ASSUME NEW q, NEW a, NEW use, NEW c, Holds(q, a, use, c), NEW gap \in Nat \ {0},
           \A day \in Nat : q[Len(q)].day < day /\ day < q[Len(q)].day + gap => use[day] = 0
    PROVE  LET d == q[Len(q)].day
               r == GapEnds(q, d, gap)
           IN  /\ \E k \in Nat : Holds(r, a, use, c + k) /\ k + 1 = Offers(gap, 3)
               /\ r[Len(r)].day = d + gap - 1 /\ Reaches(r, q)
<1> DEFINE d == q[Len(q)].day
           one == Offer(q, Point(d + 1, 0))
           two == Offer(one, Point(d + gap - 1, 0))
           r == GapEnds(q, d, gap)
<1>1. /\ d \in Nat /\ c \in Nat /\ q \in Seq(Pt) /\ Len(q) >= 1
      /\ \A day \in Nat : d < day /\ day < d + gap => use[day] = 0
  BY LastIs
<1>2. CASE gap = 1
  <2>1. r = q
    BY <1>2 DEF GapEnds, OfferIf
  <2>2. c + 0 = c /\ 0 + 1 = Offers(gap, 3) /\ d + gap - 1 = d
    BY <1>1, <1>2 DEF Offers
  <2>3. Reaches(r, q)
    BY <1>1, <2>1, SampledSelf
  <2> HIDE DEF r
  <2> QED BY <2>1, <2>2, <2>3 DEF r
<1>3. ASSUME gap > 1
      PROVE  Holds(one, a, use, c + 1) /\ one[Len(one)] = Point(d + 1, 0) /\ Reaches(one, q)
  <2> DEFINE e == d + 1
  <2>1. e \in Nat /\ d < e /\ \A day \in Nat : d < day /\ day <= e => use[day] = 0
    BY <1>1, <1>3
  <2>2. /\ q[Len(q)].day < e /\ e = q[Len(q)].day + 1
        /\ \A day \in Nat : q[Len(q)].day < day /\ day <= e => use[day] = 0
    BY <2>1
  <2> HIDE DEF e
  <2>3. LET r0 == Offer(q, Point(e, 0))
        IN  Holds(r0, a, use, c + 1) /\ r0[Len(r0)] = Point(e, 0) /\ Reaches(r0, q)
    BY <2>1, <2>2, GrowsIdle
  <2> QED BY <2>3 DEF e
<1>4. CASE gap = 2
  <2>1. r = one
    BY <1>4 DEF GapEnds, OfferIf
  <2>2. 1 \in Nat /\ 1 + 1 = Offers(gap, 3) /\ d + gap - 1 = d + 1 /\ gap > 1
    BY <1>1, <1>4 DEF Offers
  <2>3. one[Len(one)].day = d + 1
    BY <1>3, <2>2 DEF Point
  <2> HIDE DEF r, one
  <2> QED BY <1>3, <2>1, <2>2, <2>3 DEF r
<1>5. CASE gap > 2
  <2>1. r = two
    BY <1>5 DEF GapEnds, OfferIf
  <2> DEFINE e == d + gap - 1
  <2>2. e \in Nat /\ d + 1 < e /\ gap > 1 /\ \A day \in Nat : d + 1 < day /\ day <= e => use[day] = 0
    BY <1>1, <1>5
  <2>3. two = Offer(one, Point(e, 0))
    OBVIOUS
  <2> HIDE DEF e, one, two, r, d
  <2>4. Holds(one, a, use, c + 1) /\ one[Len(one)] = Point(d + 1, 0) /\ Reaches(one, q)
    BY <1>3, <2>2
  <2>5. one[Len(one)].day = d + 1 /\ one[Len(one)].tokens = 0
    BY <2>4 DEF Point
  <2>6. Holds(two, a, use, c + 1 + 1) /\ two[Len(two)] = Point(e, 0) /\ Reaches(two, one)
    <3>1. /\ one[Len(one)].day < e
          /\ \A day \in Nat : one[Len(one)].day < day /\ day <= e => use[day] = 0
      BY <2>2, <2>5
    <3> QED BY <2>2, <2>3, <2>4, <2>5, <3>1, GrowsIdle
  <2>7. two \in Seq(Pt) /\ one \in Seq(Pt)
    BY <2>4, <2>6, LastIs
  <2>8. Reaches(two, q)
    BY <1>1, <2>4, <2>6, <2>7, ReachesTrans
  <2>9. 2 \in Nat /\ c + 1 + 1 = c + 2 /\ 2 + 1 = Offers(gap, 3)
    BY <1>1, <1>5 DEF Offers
  <2>10. two[Len(two)].day = e
    BY <2>6 DEF Point
  <2>11. Holds(two, a, use, c + 2)
    BY <2>6, <2>9
  <2> QED BY <2>1, <2>8, <2>9, <2>10, <2>11 DEF e, d, r
<1>6. gap = 1 \/ gap = 2 \/ gap > 2
  OBVIOUS
<1> QED BY <1>2, <1>4, <1>5, <1>6

\* The days up to today.
LEMMA TrailingEndsAre ==
    ASSUME NEW q, NEW a, NEW use, NEW c, Holds(q, a, use, c), NEW gap \in Int,
           \A day \in Nat : q[Len(q)].day < day => use[day] = 0
    PROVE  LET d == q[Len(q)].day
               r == TrailingEnds(q, d, gap)
           IN  /\ Holds(r, a, use, c + Offers(gap, 2))
               /\ r[Len(r)].day >= d /\ Reaches(r, q)
<1> DEFINE d == q[Len(q)].day
           one == Offer(q, Point(d + 1, 0))
           two == Offer(one, Point(d + gap, 0))
           r == TrailingEnds(q, d, gap)
<1>1. /\ d \in Nat /\ c \in Nat /\ q \in Seq(Pt) /\ Len(q) >= 1
      /\ \A day \in Nat : d < day => use[day] = 0
  BY LastIs
<1>2. CASE gap <= 0
  <2>1. r = q
    BY <1>2 DEF TrailingEnds, OfferIf
  <2>2. c + Offers(gap, 2) = c /\ d >= d
    BY <1>1, <1>2 DEF Offers
  <2>3. Reaches(r, q)
    BY <1>1, <2>1, SampledSelf
  <2> HIDE DEF r
  <2> QED BY <2>1, <2>2, <2>3 DEF r
<1>3. Holds(one, a, use, c + 1) /\ one[Len(one)] = Point(d + 1, 0) /\ Reaches(one, q)
  <2> DEFINE e == d + 1
  <2>1. e \in Nat /\ d < e
    BY <1>1
  <2>2. /\ q[Len(q)].day < e /\ e = q[Len(q)].day + 1
        /\ \A day \in Nat : q[Len(q)].day < day /\ day <= e => use[day] = 0
    BY <2>1
  <2> HIDE DEF e
  <2>3. LET r0 == Offer(q, Point(e, 0))
        IN  Holds(r0, a, use, c + 1) /\ r0[Len(r0)] = Point(e, 0) /\ Reaches(r0, q)
    BY <2>1, <2>2, GrowsIdle
  <2> QED BY <2>3 DEF e
<1>4. one[Len(one)].day = d + 1 /\ one[Len(one)].tokens = 0
  <2> HIDE DEF one
  <2> QED BY <1>3 DEF Point
<1>5. CASE gap = 1
  <2>1. r = one
    BY <1>5 DEF TrailingEnds, OfferIf
  <2>2. c + Offers(gap, 2) = c + 1 /\ d + 1 >= d
    BY <1>1, <1>5 DEF Offers
  <2> HIDE DEF r, one
  <2> QED BY <1>3, <1>4, <2>1, <2>2 DEF r
<1>6. CASE gap > 1
  <2>1. r = two
    BY <1>6 DEF TrailingEnds, OfferIf
  <2> DEFINE e == d + gap
  <2>2. e \in Nat /\ d + 1 < e /\ e >= d /\ \A day \in Nat : d + 1 < day => use[day] = 0
    BY <1>1, <1>6
  <2>3. two = Offer(one, Point(e, 0))
    OBVIOUS
  <2> HIDE DEF e, one, two, r, d
  <2>4. /\ one[Len(one)].day < e
        /\ \A day \in Nat : one[Len(one)].day < day /\ day <= e => use[day] = 0
    BY <1>4, <2>2
  <2>5. Holds(two, a, use, c + 1 + 1) /\ two[Len(two)] = Point(e, 0) /\ Reaches(two, one)
    BY <1>3, <1>4, <2>2, <2>3, <2>4, GrowsIdle
  <2>6. two \in Seq(Pt) /\ one \in Seq(Pt)
    BY <1>3, <2>5, LastIs
  <2>7. Reaches(two, q)
    BY <1>1, <1>3, <2>5, <2>6, ReachesTrans
  <2>8. c + 1 + 1 = c + Offers(gap, 2)
    BY <1>1, <1>6 DEF Offers
  <2>9. two[Len(two)].day >= d
    BY <2>2, <2>5 DEF Point
  <2>10. Holds(two, a, use, c + Offers(gap, 2))
    BY <2>5, <2>8
  <2> QED BY <2>1, <2>7, <2>9, <2>10 DEF r, d
<1>7. gap <= 0 \/ gap = 1 \/ gap > 1
  OBVIOUS
<1> QED BY <1>2, <1>5, <1>6, <1>7

-----------------------------------------------------------------------------
(* The series. *)

\* At every step the series is genuine, reaches as high as the buckets, and
\* ends with the last bucket, or, when it is finished, not before it.
SInv ==
    /\ source \in Seq(Pt) /\ Len(source) >= 1 /\ Rises(source)
    /\ Holds(series, source[1], UseOf(source), offered)
    /\ Reaches(series, source)
    /\ series[Len(series)].day >= source[Len(source)].day
    /\ ~finished => series[Len(series)] = source[Len(source)]

LEMMA InitSInv == InitSeries => SInv
<1> SUFFICES ASSUME InitSeries PROVE SInv
  OBVIOUS
<1>1. PICK tokens \in Tokens : source = <<Point(1, tokens)>>
  BY DEF InitSeries
<1> DEFINE p == Point(1, tokens)
<1>2. p \in Pt /\ p.day = 1 /\ p.tokens = tokens
  BY SeriesConstants DEF Pt, Point
<1>3. source = <<p>> /\ series = Offer(<<>>, source[1]) /\ offered = 1
  BY <1>1 DEF InitSeries
<1> HIDE DEF p
<1>4. source \in Seq(Pt) /\ Len(source) = 1 /\ source[1] = p /\ DOMAIN source = 1..1
  BY <1>2, <1>3
<1>5. series = <<p>>
  <2>1. Offer(<<>>, p) = Append(<<>>, p)
    BY SeriesConstants DEF Offer
  <2> QED BY <1>3, <1>4, <2>1
<1>6. Rises(source)
  BY <1>4 DEF Rises
<1>7. UseOf(source)[p.day] = p.tokens
  <2>1. \A i \in DOMAIN source : UseOf(source)[source[i].day] = source[i].tokens
    BY <1>4, <1>6, UseIs
  <2> QED BY <1>4, <2>1
<1>8. Reaches(series, source)
  <2>1. series = source
    BY <1>3, <1>5
  <2>2. Len(source) >= 1
    BY <1>4
  <2>3. Reaches(source, source)
    BY <1>4, <2>2, SampledSelf
  <2> QED BY <2>1, <2>3
<1>9. Holds(series, source[1], UseOf(source), offered)
  <2>1. series \in Seq(Pt) /\ Len(series) = 1 /\ DOMAIN series = 1..1 /\ series[1] = p
    BY <1>2, <1>5
  <2>2. Rises(series)
    BY <2>1 DEF Rises
  <2>3. Genuine(series, source[1], UseOf(source))
    BY <1>4, <1>7, <2>1, <2>2, SeriesConstants DEF Genuine
  <2>4. BridgesNoUse(series, UseOf(source))
    BY <2>1 DEF BridgesNoUse
  <2> QED BY <1>3, <2>1, <2>3, <2>4 DEF Holds
<1>10. series[Len(series)] = source[Len(source)] /\ p.day >= p.day /\ source[Len(source)] = p
  <2>1. Len(series) = 1 /\ series[1] = p
    BY <1>5
  <2>2. p.day \in Nat
    BY <1>2
  <2>3. p.day >= p.day
    BY <2>2
  <2> QED BY <1>4, <2>1, <2>3
<1> QED BY <1>4, <1>6, <1>8, <1>9, <1>10 DEF SInv

LEMMA TakeBucketSInv == SInv /\ TakeBucket => SInv'
<1> SUFFICES ASSUME SInv, TakeBucket PROVE SInv'
  OBVIOUS
<1>1. PICK gap \in Gaps, tokens \in Tokens :
         LET bucket == Point(Last(source).day + gap, tokens)
         IN  /\ source' = Append(source, bucket)
             /\ series' = Offer(GapEnds(series, Last(source).day, gap), bucket)
             /\ offered' = offered + Offers(gap, 3)
  BY DEF TakeBucket
<1> DEFINE n == Len(source)
           d == source[n].day
           p == Point(d + gap, tokens)
           a == source[1]
           use == UseOf(source)
           use2 == UseOf(source')
<1>2. /\ source \in Seq(Pt) /\ n \in Nat /\ n >= 1 /\ Rises(source) /\ DOMAIN source = 1..n
      /\ Holds(series, a, use, offered) /\ Reaches(series, source)
      /\ series[Len(series)] = source[n]
  BY DEF SInv, TakeBucket
<1>3. d \in Nat /\ gap \in Nat \ {0} /\ tokens \in 0..MaxTokens
  <2>1. gap \in Nat \ {0} /\ tokens \in 0..MaxTokens
    BY SeriesConstants
  <2>2. n \in DOMAIN source
    BY <1>2
  <2>3. d \in Nat
    BY <1>2, <2>2, PointIs
  <2> QED BY <2>1, <2>3
<1>4. Last(source) = source[n]
  BY DEF Last
<1>5. p \in Pt /\ p.day = d + gap /\ p.tokens = tokens /\ d < p.day
  BY <1>3 DEF Pt, Point
<1> DEFINE q == GapEnds(series, d, gap)
<1>6. source' = Append(source, p) /\ series' = Offer(q, p) /\ offered' = offered + Offers(gap, 3)
  <2> HIDE DEF d, n
  <2> QED BY <1>1, <1>4 DEF d
<1> HIDE DEF p
<1>7. /\ source' \in Seq(Pt) /\ Rises(source') /\ use2[p.day] = p.tokens
      /\ \A day \in Nat : day <= d => use2[day] = use[day]
      /\ \A day \in Nat : d < day /\ day < p.day => use2[day] = 0
  <2>1. source[Len(source)].day < p.day
    BY <1>5
  <2>2. LET t == Append(source, p)
            e == source[Len(source)].day
        IN  /\ t \in Seq(Pt) /\ Rises(t)
            /\ UseOf(t)[p.day] = p.tokens
            /\ \A day \in Nat : day <= e => UseOf(t)[day] = UseOf(source)[day]
            /\ \A day \in Nat : e < day /\ day < p.day => UseOf(t)[day] = 0
            /\ \A day \in Nat : e < day => UseOf(source)[day] = 0
    <3> HIDE DEF n, d, a, use, use2, q
    <3> QED BY <1>2, <1>5, <2>1, UseGrows DEF n
  <2> QED BY <1>6, <2>2
<1>8. /\ Len(source') = n + 1 /\ source'[n + 1] = p /\ source'[1] = a
      /\ DOMAIN source' = 1..(n + 1) /\ \A i \in 1..n : source'[i] = source[i]
  BY <1>2, <1>5, <1>6
<1> HIDE DEF n, d, use, use2, a, q
<1>9. Holds(series, a, use2, offered)
  <2>1. \A day \in Nat : day <= series[Len(series)].day => use2[day] = use[day]
    BY <1>2, <1>7 DEF d
  <2> QED BY <1>2, <2>1, HoldsFor
<1>10. series[Len(series)].day = d
  BY <1>2 DEF d
<1>11. /\ \E k \in Nat : Holds(q, a, use2, offered + k) /\ k + 1 = Offers(gap, 3)
       /\ q[Len(q)].day = d + gap - 1 /\ Reaches(q, series)
  <2>1. \A day \in Nat : series[Len(series)].day < day /\ day < series[Len(series)].day + gap
           => use2[day] = 0
    BY <1>5, <1>7, <1>10
  <2>2. LET e == series[Len(series)].day
            r == GapEnds(series, e, gap)
        IN  /\ \E k \in Nat : Holds(r, a, use2, offered + k) /\ k + 1 = Offers(gap, 3)
            /\ r[Len(r)].day = e + gap - 1 /\ Reaches(r, series)
    BY <1>3, <1>9, <2>1, GapEndsAre
  <2> QED BY <1>10, <2>2 DEF q
<1>12. PICK k \in Nat : Holds(q, a, use2, offered + k) /\ k + 1 = Offers(gap, 3)
  BY <1>11
<1>13. Bridges(q[Len(q)], p, use2) /\ q[Len(q)].day < p.day
  BY <1>3, <1>5, <1>11 DEF Bridges
<1>14. Holds(series', a, use2, offered + k + 1) /\ series'[Len(series')] = p /\ Reaches(series', q)
  <2>1. LET r == Offer(q, p) IN Holds(r, a, use2, offered + k + 1) /\ r[Len(r)] = p /\ Reaches(r, q)
    BY <1>5, <1>7, <1>12, <1>13, Grows
  <2> QED BY <1>6, <2>1
<1>15. offered + k + 1 = offered'
  <2>1. offered \in Nat
    BY <1>9 DEF Holds
  <2> QED BY <1>6, <1>12, <2>1
<1>16. Reaches(series', source)
  <2>1. series \in Seq(Pt) /\ q \in Seq(Pt) /\ series' \in Seq(Pt)
    BY <1>9, <1>12, <1>14, LastIs
  <2>2. Reaches(series', series)
    BY <1>11, <1>14, <2>1, ReachesTrans
  <2> QED BY <1>2, <2>1, <2>2, ReachesTrans
<1>17. Reaches(series', source')
  <2> SUFFICES ASSUME NEW i \in DOMAIN source'
               PROVE  \E j \in DOMAIN series' : series'[j].tokens >= source'[i].tokens
    BY DEF Reaches
  <2>1. i \in 1..n \/ i = n + 1
    BY <1>2, <1>8
  <2>2. CASE i \in 1..n
    <3>1. \E j \in DOMAIN series' : series'[j].tokens >= source[i].tokens
      BY <1>2, <1>16, <2>2 DEF Reaches
    <3>2. source'[i] = source[i]
      BY <1>8, <2>2
    <3> QED BY <3>1, <3>2
  <2>3. CASE i = n + 1
    <3>1. series' \in Seq(Pt) /\ Len(series') \in Nat /\ Len(series') >= 1
      BY <1>14, LastIs
    <3>2. Len(series') \in DOMAIN series'
      BY <3>1
    <3>3. p.tokens >= p.tokens
      BY <1>3, <1>5
    <3> QED BY <1>8, <1>14, <2>3, <3>2, <3>3
  <2> QED BY <2>1, <2>2, <2>3
<1>18. p.day >= p.day
  BY <1>3, <1>5
<1>19. Len(source') >= 1
  BY <1>2, <1>8
<1> QED BY <1>7, <1>8, <1>14, <1>15, <1>17, <1>18, <1>19 DEF SInv, use2

LEMMA FinishSInv == SInv /\ Finish => SInv'
<1> SUFFICES ASSUME SInv, Finish PROVE SInv'
  OBVIOUS
<1>1. PICK gap \in {-1, 0} \cup Gaps :
         /\ series' = Bounded(TrailingEnds(series, Last(source).day, gap), MaxPoints)
         /\ offered' = offered + Offers(gap, 2)
  BY DEF Finish
<1> DEFINE n == Len(source)
           d == series[Len(series)].day
           a == source[1]
           use == UseOf(source)
           q == TrailingEnds(series, d, gap)
<1>2. /\ source \in Seq(Pt) /\ n \in Nat /\ n >= 1 /\ Rises(source) /\ DOMAIN source = 1..n
      /\ Holds(series, a, use, offered) /\ Reaches(series, source)
      /\ series[Len(series)] = source[n]
  BY DEF SInv, Finish
<1>3. gap \in Int
  BY SeriesConstants
<1>4. source' = source /\ finished' = TRUE
  BY DEF Finish
<1>5. Last(source).day = d
  BY <1>2 DEF Last
<1>6. \A day \in Nat : d < day => use[day] = 0
  <2> SUFFICES ASSUME NEW day \in Nat, d < day PROVE use[day] = 0
    OBVIOUS
  <2>1. ASSUME NEW i \in 1..n PROVE source[i].day # day
    <3>1. source[i].day \in Nat /\ source[n].day \in Nat
      BY <1>2, PointIs
    <3>2. i < n => source[i].day < source[n].day
      BY <1>2 DEF Rises
    <3>3. i = n \/ i < n
      <4> HIDE DEF n
      <4> QED BY <1>2
    <3>4. source[n].day < day
      BY <1>2
    <3> HIDE DEF n, d
    <3> QED BY <3>1, <3>2, <3>3, <3>4
  <2> QED BY <1>2, <2>1, UseIs
<1>7. Holds(q, a, use, offered + Offers(gap, 2)) /\ q[Len(q)].day >= d /\ Reaches(q, series)
  <2> HIDE DEF a, use
  <2> QED BY <1>2, <1>3, <1>6, TrailingEndsAre
<1> HIDE DEF n, a, use, q
<1>8. series' = q
  <2>1. q \in Seq(Pt) /\ Len(q) >= 1 /\ Len(q) <= MaxPoints
    BY <1>7 DEF Holds, Genuine
  <2>2. MaxPoints \in Nat /\ MaxPoints >= 4
    BY SeriesConstants
  <2>3. Bounded(q, MaxPoints) = q
    BY <2>1, <2>2, BoundedIs
  <2> QED BY <1>1, <1>5, <2>3 DEF q
<1>9. Reaches(series', source)
  <2>1. series \in Seq(Pt) /\ q \in Seq(Pt)
    BY <1>2, <1>7, LastIs
  <2> QED BY <1>2, <1>7, <1>8, <2>1, ReachesTrans
<1>10. series'[Len(series')].day >= source'[Len(source')].day
  BY <1>2, <1>4, <1>7, <1>8 DEF n
<1> QED BY <1>1, <1>2, <1>4, <1>7, <1>8, <1>9, <1>10 DEF SInv, n, a, use

LEMMA SpecSInv == SpecSeries => []SInv
<1>1. InitSeries => SInv
  BY InitSInv
<1>2. SInv /\ [NextSeries]_seriesVars => SInv'
  <2> SUFFICES ASSUME SInv, [NextSeries]_seriesVars PROVE SInv'
    OBVIOUS
  <2>1. CASE TakeBucket
    BY <2>1, TakeBucketSInv
  <2>2. CASE Finish
    BY <2>2, FinishSInv
  <2>3. CASE UNCHANGED seriesVars
    BY <2>3 DEF SInv, seriesVars
  <2> QED BY <2>1, <2>2, <2>3 DEF NextSeries
<1> QED BY <1>1, <1>2, PTL DEF SpecSeries

-----------------------------------------------------------------------------
(* The axis. *)

LEMMA TenTimes ==
    ASSUME NEW value \in Nat, NEW m \in Nat \ {0}
    PROVE  /\ value \div m >= 10 => 10 * m <= value
           /\ ~(value \div m >= 10) => value < 10 * m
<1> DEFINE q == value \div m
<1>1. q \in Nat /\ q * m <= value /\ value < q * m + m
  BY DivisionIs
<1> HIDE DEF q
<1>2. q >= 10 => q * m >= 10 * m
  BY <1>1
<1>3. ~(q >= 10) => (q + 1) * m <= 10 * m
  BY <1>1
<1>4. (q + 1) * m = q * m + m
  BY <1>1
<1>5. q * m \in Nat /\ 10 * m \in Nat
  BY <1>1
<1>6. q >= 10 => 10 * m <= value
  BY <1>1, <1>2, <1>5
<1>7. ~(q >= 10) => value < 10 * m
  BY <1>1, <1>3, <1>4, <1>5
<1> QED BY <1>6, <1>7 DEF q

\* One turn of the loop that looks for the power of ten.
GrowthStep(grown, value, magnitude) ==
    IF value \div magnitude >= 10 /\ magnitude <= MaxTokens \div 10
    THEN grown[10 * magnitude] ELSE magnitude

Grown(grown, value) ==
    grown = [magnitude \in Nat \ {0} |-> GrowthStep(grown, value, magnitude)]

\* The loop ends, as it never goes past the value.
LEMMA GrowthExists ==
    ASSUME NEW value \in Nat
    PROVE  \E grown : Grown(grown, value)
<1> DEFINE D(n) == {m \in Nat \ {0} : m + n > value}
           Part(f, n) == /\ DOMAIN f = D(n)
                         /\ \A m \in D(n) : f[m] = GrowthStep(f, value, m)
           T == {n \in Nat : ~\E f : Part(f, n)}
<1>1. \E f : Part(f, 0)
  <2> DEFINE f == [m \in D(0) |-> m]
  <2>1. ASSUME NEW m \in D(0) PROVE f[m] = GrowthStep(f, value, m)
    <3>1. m \in Nat \ {0} /\ m > value
      OBVIOUS
    <3>2. ~(10 * m <= value)
      BY <3>1
    <3>3. ~(value \div m >= 10)
      BY <3>1, <3>2, TenTimes
    <3>4. GrowthStep(f, value, m) = m
      BY <3>3, Zenon DEF GrowthStep
    <3> QED BY <3>4
  <2>2. DOMAIN f = D(0)
    OBVIOUS
  <2> HIDE DEF f, D
  <2> QED BY <2>1, <2>2
<1>2. ASSUME NEW n \in Nat, NEW f, Part(f, n) PROVE \E g : Part(g, n + 1)
  <2> DEFINE m0 == value - n
             g == [m \in D(n + 1) |-> IF m \in D(n) THEN f[m] ELSE GrowthStep(f, value, m)]
  <2>1. ASSUME NEW m \in D(n + 1) PROVE g[m] = GrowthStep(f, value, m)
    <3>1. m \in D(n) => f[m] = GrowthStep(f, value, m)
      BY <1>2
    <3> HIDE DEF D
    <3> QED BY <3>1
  <2>2. ASSUME NEW m \in D(n + 1) PROVE 10 * m \in D(n) /\ 10 * m \in D(n + 1)
    <3>1. m \in Nat \ {0} /\ m + (n + 1) > value
      OBVIOUS
    <3>2. 10 * m \in Nat \ {0} /\ 10 * m + n > value /\ 10 * m + (n + 1) > value
      BY <3>1
    <3> QED BY <3>2
  <2>3. ASSUME NEW m \in D(n + 1) PROVE g[10 * m] = f[10 * m]
    <3> HIDE DEF D
    <3> QED BY <2>2
  <2>4. ASSUME NEW m \in D(n + 1) PROVE g[m] = GrowthStep(g, value, m)
    <3>1. GrowthStep(g, value, m) = GrowthStep(f, value, m)
      BY <2>3, Zenon DEF GrowthStep
    <3> QED BY <2>1, <3>1
  <2>5. DOMAIN g = D(n + 1)
    OBVIOUS
  <2> HIDE DEF g, D
  <2> QED BY <2>4, <2>5
<1>3. ASSUME NEW n \in Nat PROVE \E f : Part(f, n)
  <2> SUFFICES ASSUME ~\E f : Part(f, n) PROVE FALSE
    OBVIOUS
  <2> HIDE DEF Part
  <2>1. T \subseteq Nat /\ T # {}
    OBVIOUS
  <2>2. PICK m \in T : \A k \in T : m <= k
    BY <2>1, LeastNatural, Zenon
  <2>3. m # 0 /\ m \in Nat
    BY <1>1, <2>2
  <2>4. m - 1 \in Nat /\ m - 1 + 1 = m /\ ~(m <= m - 1)
    BY <2>3
  <2>5. m - 1 \notin T
    BY <2>2, <2>4, Zenon
  <2>6. PICK f : Part(f, m - 1)
    BY <2>4, <2>5
  <2>7. \E g : Part(g, m)
    BY <1>2, <2>4, <2>6
  <2> QED BY <2>2, <2>7
<1>4. PICK f : Part(f, value)
  BY <1>3
<1>5. D(value) = Nat \ {0}
  OBVIOUS
<1> DEFINE w == [m \in Nat \ {0} |-> f[m]]
<1>6. ASSUME NEW m \in Nat \ {0} PROVE w[m] = GrowthStep(w, value, m)
  <2>1. f[m] = GrowthStep(f, value, m)
    <3> HIDE DEF D
    <3> QED BY <1>4, <1>5
  <2>2. w[m] = f[m] /\ w[10 * m] = f[10 * m]
    <3>1. 10 * m \in Nat \ {0}
      OBVIOUS
    <3> QED BY <3>1
  <2>3. GrowthStep(w, value, m) = GrowthStep(f, value, m)
    BY <2>2, Zenon DEF GrowthStep
  <2> QED BY <2>1, <2>2, <2>3
<1>7. w = [m \in Nat \ {0} |-> w[m]]
  OBVIOUS
<1> HIDE DEF w
<1>8. w = [m \in Nat \ {0} |-> GrowthStep(w, value, m)]
  BY <1>6, <1>7
<1>9. Grown(w, value)
  BY <1>8, Zenon DEF Grown
<1> QED BY <1>9

\* The power of ten is the one below the value.
LEMMA GrowthIs ==
    ASSUME NEW value \in 1..MaxTokens, NEW grown, Grown(grown, value)
    PROVE  grown[1] \in Nat \ {0} /\ grown[1] <= value /\ value < 10 * grown[1]
<1> DEFINE Right(m) == grown[m] \in Nat \ {0} /\ grown[m] <= value /\ value < 10 * grown[m]
           T == {k \in Nat : \E m \in 1..value : k = value - m /\ ~Right(m)}
<1>0. value \in Nat /\ value >= 1 /\ MaxTokens \in Nat /\ value <= MaxTokens
  BY SeriesConstants
<1>1. SUFFICES ASSUME ~Right(1) PROVE FALSE
  OBVIOUS
<1> HIDE DEF Right
<1>2. T \subseteq Nat /\ T # {}
  <2>1. 1 \in 1..value /\ value - 1 \in Nat
    BY <1>0
  <2> QED BY <1>1, <2>1
<1>3. PICK k \in T : \A j \in T : k <= j
  BY <1>2, LeastNatural, Zenon
<1>4. PICK m \in 1..value : k = value - m /\ ~Right(m)
  BY <1>3
<1>5. m \in Nat \ {0} /\ m <= value
  BY <1>0
<1>6. \A x \in Nat \ {0} : grown[x] = GrowthStep(grown, value, x)
  <2> DEFINE body(x) == GrowthStep(grown, value, x)
  <2>1. grown = [x \in Nat \ {0} |-> body(x)]
    BY Zenon DEF Grown
  <2> HIDE DEF body
  <2>2. \A x \in Nat \ {0} : grown[x] = body(x)
    BY <2>1
  <2> QED BY <2>2 DEF body
<1>7. grown[m] = GrowthStep(grown, value, m)
  BY <1>5, <1>6
<1>8. CASE value \div m >= 10 /\ m <= MaxTokens \div 10
  <2>1. grown[m] = grown[10 * m]
    BY <1>7, <1>8, Zenon DEF GrowthStep
  <2>2. 10 * m <= value
    BY <1>0, <1>5, <1>8, TenTimes
  <2>3. 10 * m \in 1..value /\ value - 10 * m \in Nat /\ value - 10 * m < value - m
    BY <1>0, <1>5, <2>2
  <2>4. Right(10 * m)
    <3>1. ~(k <= value - 10 * m)
      BY <1>0, <1>4, <1>5, <2>3
    <3> QED BY <1>3, <2>3, <3>1
  <2> QED BY <1>4, <2>1, <2>4 DEF Right
<1>9. CASE ~(value \div m >= 10 /\ m <= MaxTokens \div 10)
  <2>1. grown[m] = m
    BY <1>7, <1>9, Zenon DEF GrowthStep
  <2>2. value < 10 * m
    <3>1. CASE ~(value \div m >= 10)
      BY <1>0, <1>5, <3>1, TenTimes
    <3>2. CASE ~(m <= MaxTokens \div 10)
      BY <1>0, <1>5, <3>2
    <3> QED BY <1>9, <3>1, <3>2
  <2> QED BY <1>4, <1>5, <2>1, <2>2 DEF Right
<1> QED BY <1>8, <1>9

\* The top of the axis is not below the value, and not above three times it.
LEMMA AxisIs ==
    ASSUME NEW value \in 0..MaxTokens
    PROVE  value <= AxisMaximum(value) /\ AxisMaximum(value) <= 3 * value
<1>0. value \in Nat /\ MaxTokens \in Nat /\ value <= MaxTokens
  BY SeriesConstants
<1>1. CASE value = 0
  <2>1. AxisMaximum(value) = 0
    BY <1>1 DEF AxisMaximum
  <2> QED BY <1>1, <2>1
<1>2. CASE value # 0
  <2> DEFINE grown == CHOOSE g : Grown(g, value)
             g == grown[1]
             steps == {s \in {g * k : k \in {1, 2, 5, 10}} : value <= s /\ s <= MaxTokens}
  <2>1. Grown(grown, value)
    BY <1>0, GrowthExists, Zenon
  <2>2. AxisMaximum(value) = IF value <= 0 THEN 0 ELSE IF steps = {} THEN MaxTokens ELSE Min(steps)
    BY Zenon DEF AxisMaximum, Grown, GrowthStep
  <2> HIDE DEF grown
  <2>3. value \in 1..MaxTokens
    BY <1>0, <1>2
  <2>4. g \in Nat \ {0} /\ g <= value /\ value < 10 * g
    BY <2>1, <2>3, GrowthIs
  <2> HIDE DEF g
  <2>5. steps = {s \in {g, 2 * g, 5 * g, 10 * g} : value <= s /\ s <= MaxTokens}
    <3>1. {g * k : k \in {1, 2, 5, 10}} = {g, 2 * g, 5 * g, 10 * g}
      <4>1. g * 1 = g /\ g * 2 = 2 * g /\ g * 5 = 5 * g /\ g * 10 = 10 * g
        BY <2>4
      <4>2. {g * k : k \in {1, 2, 5, 10}} = {g * 1, g * 2, g * 5, g * 10}
        OBVIOUS
      <4> QED BY <4>1, <4>2
    <3> QED BY <3>1
  <2>6. CASE steps = {}
    <3>1. AxisMaximum(value) = MaxTokens
      <4>1. ~(value <= 0)
        BY <2>3
      <4> HIDE DEF steps
      <4> QED BY <2>2, <2>6, <4>1
    <3>2. \A s \in {g, 2 * g, 5 * g, 10 * g} : ~(value <= s /\ s <= MaxTokens)
      BY <2>5, <2>6
    <3>3. MaxTokens <= 3 * value
      BY <1>0, <2>4, <3>2
    <3> QED BY <1>0, <3>1, <3>3
  <2>7. CASE steps # {}
    <3>1. AxisMaximum(value) = Min(steps)
      <4>1. ~(value <= 0)
        BY <2>3
      <4> HIDE DEF steps
      <4> QED BY <2>2, <2>7, <4>1
    <3>2. steps \subseteq Nat
      BY <2>4, <2>5
    <3> HIDE DEF steps
    <3>3. \E m \in steps : \A k \in steps : m <= k
      BY <2>7, <3>2, LeastNatural, Zenon
    <3> DEFINE m == Min(steps)
    <3>4. m \in steps /\ \A k \in steps : m <= k
      BY <3>3 DEF Min
    <3> HIDE DEF m
    <3>5. m \in {g, 2 * g, 5 * g, 10 * g} /\ value <= m /\ m <= MaxTokens
      BY <2>5, <3>4
    <3>6. \A s \in {g, 2 * g, 5 * g, 10 * g} : value <= s /\ s <= MaxTokens => m <= s
      BY <2>5, <3>4
    <3>7. m <= 3 * value
      BY <1>0, <2>4, <3>5, <3>6
    <3> QED BY <3>1, <3>5, <3>7 DEF m
  <2> QED BY <2>6, <2>7
<1> QED BY <1>1, <1>2

LEMMA PeakIs ==
    ASSUME NEW p \in Seq(Pt)
    PROVE  /\ PeakOf(p) \in 0..MaxTokens
           /\ \A i \in DOMAIN p : p[i].tokens <= PeakOf(p)
           /\ PeakOf(p) = 0 \/ \E i \in DOMAIN p : PeakOf(p) = p[i].tokens
<1> DEFINE S == {p[i].tokens : i \in DOMAIN p} \cup {0}
           T == {MaxTokens - s : s \in S}
<1>1. S \subseteq 0..MaxTokens /\ S # {} /\ MaxTokens \in Nat
  BY PointIs, SeriesConstants
<1> HIDE DEF S
<1>2. T \subseteq Nat /\ T # {}
  <2>1. ASSUME NEW s \in S PROVE MaxTokens - s \in Nat
    <3>1. s \in 0..MaxTokens
      BY <1>1
    <3> QED BY <1>1, <3>1
  <2> QED BY <1>1, <2>1
<1>3. PICK m \in T : \A k \in T : m <= k
  BY <1>2, LeastNatural, Zenon
<1>4. PICK s \in S : m = MaxTokens - s
  BY <1>3
<1>5. ASSUME NEW x \in S PROVE s >= x
  <2>1. m <= MaxTokens - x
    BY <1>3
  <2> QED BY <1>1, <1>4, <2>1
<1> DEFINE h == Max(S)
<1>6. h \in S /\ \A x \in S : h >= x
  BY <1>5 DEF Max
<1>7. PeakOf(p) = h
  BY DEF PeakOf, S
<1> HIDE DEF h
<1>8. \A i \in DOMAIN p : p[i].tokens \in S
  BY DEF S
<1>9. \A x \in S : x <= h
  BY <1>1, <1>6
<1>10. h = 0 \/ \E i \in DOMAIN p : h = p[i].tokens
  BY <1>6 DEF S
<1> QED BY <1>1, <1>6, <1>7, <1>8, <1>9, <1>10

\* Two series that each reach as high as the other have the same peak.
LEMMA SamePeak ==
    ASSUME NEW p \in Seq(Pt), NEW q \in Seq(Pt), Reaches(q, p),
           \A k \in DOMAIN q : q[k].tokens = 0 \/ \E i \in DOMAIN p : p[i].tokens = q[k].tokens
    PROVE  PeakOf(q) = PeakOf(p)
<1>1. /\ PeakOf(p) \in 0..MaxTokens
      /\ \A i \in DOMAIN p : p[i].tokens <= PeakOf(p)
      /\ PeakOf(p) = 0 \/ \E i \in DOMAIN p : PeakOf(p) = p[i].tokens
  BY PeakIs
<1>2. /\ PeakOf(q) \in 0..MaxTokens
      /\ \A i \in DOMAIN q : q[i].tokens <= PeakOf(q)
      /\ PeakOf(q) = 0 \/ \E i \in DOMAIN q : PeakOf(q) = q[i].tokens
  BY PeakIs
<1>3. PeakOf(p) \in Nat /\ PeakOf(q) \in Nat
  BY <1>1, <1>2, SeriesConstants
<1>4. PeakOf(q) <= PeakOf(p)
  BY <1>1, <1>2, <1>3
<1>5. PeakOf(p) <= PeakOf(q)
  <2>1. CASE PeakOf(p) = 0
    BY <1>3, <2>1
  <2>2. CASE \E i \in DOMAIN p : PeakOf(p) = p[i].tokens
    <3>1. PICK i \in DOMAIN p : PeakOf(p) = p[i].tokens
      BY <2>2
    <3>2. PICK j \in DOMAIN q : q[j].tokens >= p[i].tokens
      BY DEF Reaches
    <3>3. q[j].tokens \in Nat /\ q[j].tokens <= PeakOf(q)
      BY <1>2, PointIs
    <3> QED BY <1>3, <3>1, <3>2, <3>3
  <2> QED BY <1>1, <2>1, <2>2
<1> QED BY <1>3, <1>4, <1>5

LEMMA UsedIs == \A day \in Nat : UsedOn(day) = UseOf(source)[day]
<1> SUFFICES ASSUME NEW day \in Nat PROVE UsedOn(day) = UseOf(source)[day]
  OBVIOUS
<1> DEFINE used(d) == IF d \in {source[i].day : i \in DOMAIN source}
                      THEN (CHOOSE bucket \in {source[i] : i \in DOMAIN source} : bucket.day = d).tokens
                      ELSE 0
<1>1. UseOf(source) = [d \in Nat |-> used(d)]
  BY Zenon DEF UseOf
<1>2. UsedOn(day) = used(day)
  BY Zenon DEF UsedOn, SourceDays
<1> HIDE DEF used
<1> QED BY <1>1, <1>2

\* A series in order, with the days as they were used, is a sample of them.
LEMMA SampleIs ==
    ASSUME NEW q \in Seq(Pt), Len(q) >= 1, NEW whole, Rises(q), q[1] = whole[1],
           q[Len(q)] = whole[Len(whole)],
           \A i \in DOMAIN q : q[i].tokens = UseOf(source)[q[i].day]
    PROVE  Sample(q, whole)
<1>1. \A i \in DOMAIN q : q[i].tokens = UsedOn(q[i].day)
  BY UsedIs, PointIs
<1>2. \A i \in 1..(Len(q) - 1) : q[i].day < q[i + 1].day
  BY DEF Rises
<1> QED BY <1>1, <1>2 DEF Sample, Last

LEMMA SInvFacts ==
    ASSUME SInv
    PROVE  /\ source \in Seq(Pt) /\ Len(source) >= 1 /\ Rises(source)
           /\ series \in Seq(Pt) /\ Len(series) \in Nat /\ Len(series) >= 1 /\ Len(series) <= MaxPoints
           /\ Rises(series) /\ series[1] = source[1]
           /\ \A i \in DOMAIN series : series[i].tokens = UseOf(source)[series[i].day]
           /\ PeakOf(series) = PeakOf(source)
<1>1. /\ source \in Seq(Pt) /\ Len(source) >= 1 /\ Rises(source) /\ Reaches(series, source)
      /\ Holds(series, source[1], UseOf(source), offered)
  BY DEF SInv
<1>2. /\ series \in Seq(Pt) /\ Len(series) \in 1..MaxPoints /\ Rises(series) /\ series[1] = source[1]
      /\ \A i \in DOMAIN series : series[i].tokens = UseOf(source)[series[i].day]
  BY <1>1 DEF Holds, Genuine
<1>3. Len(series) \in Nat /\ Len(series) >= 1 /\ Len(series) <= MaxPoints
  BY <1>2, SeriesConstants
<1>4. ASSUME NEW k \in DOMAIN series
      PROVE  series[k].tokens = 0 \/ \E i \in DOMAIN source : source[i].tokens = series[k].tokens
  <2> DEFINE day == series[k].day
  <2>1. day \in Nat
    BY <1>2, PointIs
  <2>2. /\ \A i \in DOMAIN source : UseOf(source)[source[i].day] = source[i].tokens
        /\ (\A i \in DOMAIN source : source[i].day # day) => UseOf(source)[day] = 0
    <3> HIDE DEF day
    <3> QED BY <1>1, <2>1, UseIs
  <2>3. series[k].tokens = UseOf(source)[day]
    BY <1>2
  <2> HIDE DEF day
  <2> QED BY <2>2, <2>3
<1>5. PeakOf(series) = PeakOf(source)
  BY <1>1, <1>2, <1>4, SamePeak
<1> QED BY <1>1, <1>2, <1>3, <1>5

LEMMA SInvSample == SInv => SeriesIsSample
<1> SUFFICES ASSUME SInv PROVE SeriesIsSample
  OBVIOUS
<1>1. /\ series \in Seq(Pt) /\ Len(series) >= 1 /\ Len(series) <= MaxPoints
      /\ Rises(series) /\ series[1] = source[1]
      /\ \A i \in DOMAIN series : series[i].tokens = UseOf(source)[series[i].day]
      /\ PeakOf(series) = PeakOf(source)
  BY SInvFacts
<1>2. Sample(series, series)
  BY <1>1, SampleIs
<1>3. Last(series).day >= Last(source).day
  BY DEF SInv, Last
<1> QED BY <1>1, <1>2, <1>3 DEF SeriesIsSample

LEMMA SInvIdle == SInv => IdleDaysAtZero
<1> SUFFICES ASSUME SInv, offered <= MaxPoints, NEW i \in 1..(Len(series) - 1),
                    series[i + 1].day - series[i].day > 1
             PROVE  /\ series[i].tokens = 0 /\ series[i + 1].tokens = 0
                    /\ \A day \in series[i].day + 1 .. series[i + 1].day - 1 : UsedOn(day) = 0
  BY DEF IdleDaysAtZero
<1>1. series \in Seq(Pt) /\ Len(series) \in Nat
  BY SInvFacts
<1>2. BridgesNoUse(series, UseOf(source))
  BY DEF SInv, Holds
<1>3. /\ series[i].tokens = 0 /\ series[i + 1].tokens = 0
      /\ \A day \in series[i].day + 1 .. series[i + 1].day - 1 : UseOf(source)[day] = 0
  BY <1>2 DEF BridgesNoUse, Bridges
<1>4. series[i].day \in Nat /\ series[i + 1].day \in Nat
  <2>1. i \in DOMAIN series /\ i + 1 \in DOMAIN series
    BY <1>1
  <2> QED BY <1>1, <2>1, PointIs
<1>5. \A day \in series[i].day + 1 .. series[i + 1].day - 1 : day \in Nat
  BY <1>4
<1> QED BY <1>3, <1>5, UsedIs

LEMMA CurveIs ==
    ASSUME SInv, NEW width \in Nat
    PROVE  /\ Sampled(Curve(width), series)
           /\ width >= 3 => Reaches(Curve(width), series)
           /\ Len(Curve(width)) <= Max({width, 2}) /\ Len(Curve(width)) <= MaxDrawPoints
<1> DEFINE m == Min({width, MaxDrawPoints})
           n == Max({2, m})
           p == Plotted(series, MaxDrawPoints)
           c == Plotted(p, n)
<1>0. MaxDrawPoints \in Nat /\ MaxDrawPoints >= 4
  BY SeriesConstants
<1>1. m = IF width <= MaxDrawPoints THEN width ELSE MaxDrawPoints
  BY <1>0, MinOfTwo
<1> HIDE DEF m
<1>2. m \in Nat
  BY <1>0, <1>1
<1>3. n = IF 2 >= m THEN 2 ELSE m
  BY <1>2, MaxOfTwo
<1> HIDE DEF n
<1>4. Max({width, 2}) = IF width >= 2 THEN width ELSE 2
  BY MaxOfTwo
<1>5. n \in Nat /\ n >= 2 /\ n <= MaxDrawPoints /\ n <= Max({width, 2}) /\ (width >= 3 => n >= 3)
  BY <1>0, <1>1, <1>2, <1>3, <1>4
<1>6. series \in Seq(Pt) /\ Len(series) >= 1
  BY SInvFacts
<1>7. Sampled(p, series) /\ Reaches(p, series)
  <2>1. MaxDrawPoints >= 2 /\ MaxDrawPoints >= 3
    BY <1>0
  <2> QED BY <1>0, <1>6, <2>1, PlottedIs
<1>8. p \in Seq(Pt) /\ Len(p) >= 1
  BY <1>7 DEF Sampled
<1> HIDE DEF p
<1>9. Sampled(c, p) /\ (n >= 3 => Reaches(c, p)) /\ Len(c) <= n
  BY <1>5, <1>8, PlottedIs
<1> HIDE DEF c
<1>10. c \in Seq(Pt) /\ Len(c) \in Nat
  BY <1>9 DEF Sampled
<1>11. Sampled(c, series)
  BY <1>7, <1>9, SampledTrans
<1>12. width >= 3 => Reaches(c, series)
  BY <1>5, <1>6, <1>7, <1>8, <1>9, <1>10, ReachesTrans
<1>13. Len(c) <= Max({width, 2}) /\ Len(c) <= MaxDrawPoints
  BY <1>0, <1>4, <1>5, <1>9, <1>10
<1>14. Curve(width) = c
  BY DEF Curve, c, p, n, m
<1> QED BY <1>11, <1>12, <1>13, <1>14

LEMMA SInvCurve == SInv => CurveIsSample
<1> SUFFICES ASSUME SInv, NEW width \in Widths
             PROVE  LET curve == Curve(width)
                    IN  /\ Len(curve) <= Max({width, 2}) /\ Len(curve) <= MaxDrawPoints
                        /\ Sample(curve, series)
                        /\ width >= 3 => /\ PeakOf(curve) = PeakOf(source)
                                         /\ PeakOf(curve) <= AxisMaximum(PeakOf(source))
                                         /\ AxisMaximum(PeakOf(source)) <= 3 * PeakOf(curve)
  BY DEF CurveIsSample
<1> DEFINE c == Curve(width)
<1>1. width \in Nat
  BY SeriesConstants
<1>2. /\ series \in Seq(Pt) /\ Rises(series) /\ source \in Seq(Pt)
      /\ \A i \in DOMAIN series : series[i].tokens = UseOf(source)[series[i].day]
      /\ PeakOf(series) = PeakOf(source)
  BY SInvFacts
<1>3. /\ Sampled(c, series) /\ (width >= 3 => Reaches(c, series))
      /\ Len(c) <= Max({width, 2}) /\ Len(c) <= MaxDrawPoints
  BY <1>1, CurveIs
<1> HIDE DEF c
<1>4. /\ c \in Seq(Pt) /\ Len(c) >= 1 /\ c[1] = series[1] /\ c[Len(c)] = series[Len(series)]
      /\ \A k \in DOMAIN c : \E i \in DOMAIN series : c[k] = series[i]
      /\ Rises(c)
  BY <1>2, <1>3, SampledKeeps
<1>5. \A k \in DOMAIN c : c[k].tokens = UseOf(source)[c[k].day]
  BY <1>2, <1>4
<1>6. Sample(c, series)
  BY <1>4, <1>5, SampleIs
<1>7. ASSUME width >= 3
      PROVE  /\ PeakOf(c) = PeakOf(source) /\ PeakOf(c) <= AxisMaximum(PeakOf(source))
             /\ AxisMaximum(PeakOf(source)) <= 3 * PeakOf(c)
  <2>1. \A k \in DOMAIN c : c[k].tokens = 0 \/ \E i \in DOMAIN series : series[i].tokens = c[k].tokens
    BY <1>4
  <2>2. PeakOf(c) = PeakOf(series)
    BY <1>2, <1>3, <1>4, <1>7, <2>1, SamePeak
  <2>3. PeakOf(source) \in 0..MaxTokens
    BY <1>2, PeakIs
  <2>4. /\ PeakOf(source) <= AxisMaximum(PeakOf(source))
        /\ AxisMaximum(PeakOf(source)) <= 3 * PeakOf(source)
    BY <2>3, AxisIs
  <2> QED BY <1>2, <2>2, <2>4
<1> QED BY <1>3, <1>6, <1>7 DEF c

-----------------------------------------------------------------------------
(* The theorems about the series. *)

\* The all-time series is a sample of the days as they were, in order, from
\* the first bucket to the last one or today, with the highest day among
\* them and never longer than MaxPoints, for any number of buckets and any
\* gaps between them (sparse_calendar_series, append_bounded_chart_bucket,
\* bounded_chart_series).
THEOREM SeriesIsTrue == SpecSeries => []SeriesIsSample
<1>1. SInv => SeriesIsSample
  BY SInvSample
<1> QED BY <1>1, SpecSInv, PTL

\* While no more points were offered than the series takes, a line through
\* its points is at zero on every day that the server left out, and on no
\* other day it skips (UsageRange::chart_buckets, sparse_calendar_series).
THEOREM IdleIsZero == SpecSeries => []IdleDaysAtZero
<1>1. SInv => IdleDaysAtZero
  BY SInvIdle
<1> QED BY <1>1, SpecSInv, PTL

\* What is drawn at any width is a sample of the series no longer than asked
\* for; from three points on it has the highest day, which lies below the
\* top of the axis and above a third of it (bounded_plot_series,
\* PreparedChart::new, draw_prepared_chart, nice_axis_maximum).
THEOREM CurveIsTrue == SpecSeries => []CurveIsSample
<1>1. SInv => CurveIsSample
  BY SInvCurve
<1> QED BY <1>1, SpecSInv, PTL
=============================================================================
