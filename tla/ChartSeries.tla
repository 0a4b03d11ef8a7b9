----------------------------- MODULE ChartSeries -----------------------------
(***************************************************************************)
(* The points of the all-time chart (linux/src/range.rs) and the ones that *)
(* are drawn (linux/src/chart.rs, chart/preparation.rs).  The server may   *)
(* leave out days without use; the series puts a zero at both ends of such *)
(* a gap, and halves itself whenever it is full.  The buckets are taken    *)
(* one at a time, in the order of their dates.                             *)
(***************************************************************************)
EXTENDS Integers, SequencesExt

CONSTANTS MaxPoints,      \* MAXIMUM_SPARSE_CHART_POINT_COUNT
          MaxDrawPoints,  \* MAXIMUM_DRAW_POINTS
          MaxTokens,      \* i64::MAX
          Gaps,           \* bound: days from one bucket to the next
          Tokens,         \* bound: tokens of a bucket
          MaxBuckets,     \* bound: buckets
          Widths          \* bound: points that fit the width of the drawing

ASSUME ChartSeriesAssumption ==
    /\ MaxPoints \in Nat /\ MaxPoints >= 8 /\ MaxPoints % 4 = 0
    /\ MaxDrawPoints \in Nat /\ MaxDrawPoints >= 4
    /\ Gaps \subseteq Nat \ {0} /\ Tokens \subseteq 0..MaxTokens
    /\ MaxTokens \in Nat /\ MaxBuckets \in Nat \ {0} /\ Widths \subseteq Nat

VARIABLES source,     \* the buckets taken so far
          series,     \* result of sparse_calendar_series
          offered,    \* points offered to the series
          finished

seriesVars == <<source, series, offered, finished>>

Point(day, tokens) == [day |-> day, tokens |-> tokens]

-----------------------------------------------------------------------------
(* Thinning: the first point, the last, and the extremes of each bin between. *)

Bin(b, bins, length) ==
    2 + (b * (length - 2)) \div bins .. 1 + ((b + 1) * (length - 2)) \div bins

\* Mutant of Extremes: only the lowest point of a bin is kept.
ExtremesLowOnly(points, bin) ==
    {i \in bin : \A j \in bin : points[i].tokens <= points[j].tokens}

\* The first of the lowest points of a bin, and the first of the highest.
Extremes(points, bin) ==
    {i \in bin : \A j \in bin : \/ points[i].tokens < points[j].tokens
                                \/ points[i].tokens = points[j].tokens /\ i <= j}
    \cup {i \in bin : \A j \in bin : \/ points[i].tokens > points[j].tokens
                                     \/ points[i].tokens = points[j].tokens /\ i <= j}

\* The points at some indices, in their order.
At(points, indices) ==
    [k \in 1 .. Cardinality(indices) |->
        points[CHOOSE i \in indices : Cardinality({j \in indices : j <= i}) = k]]

Thinned(points, bins) ==
    At(points, {1, Len(points)} \cup
               UNION {Extremes(points, Bin(b, bins, Len(points))) : b \in 0 .. bins - 1})

Bins(limit) == Max({(limit - 2) \div 2, 1})

\* bounded_chart_series
Bounded(points, limit) ==
    IF Len(points) <= limit THEN points ELSE Thinned(points, Bins(limit))

-----------------------------------------------------------------------------
(* The series. *)

\* Mutant of Offer: a full series is cut instead of thinned.
OfferCutting(points, point) ==
    IF Len(points) >= MaxPoints THEN Append(SubSeq(points, 1, MaxPoints \div 2), point)
    ELSE Append(points, point)

\* append_bounded_chart_bucket
Offer(points, point) ==
    IF points # <<>> /\ Last(points).day = point.day THEN Append(Front(points), point)
    ELSE IF Len(points) >= MaxPoints THEN Append(Bounded(points, MaxPoints \div 2), point)
    ELSE Append(points, point)

OfferIf(condition, points, point) == IF condition THEN Offer(points, point) ELSE points

\* Mutant of GapEnds: one zero for a gap of any length.
GapEndsOnce(points, day, gap) == OfferIf(gap > 1, points, Point(day + 1, 0))

\* The zeros between a bucket and the next one.
GapEnds(points, day, gap) ==
    OfferIf(gap > 2, OfferIf(gap > 1, points, Point(day + 1, 0)), Point(day + gap - 1, 0))

\* The zeros from the last bucket to today, which may be an earlier day.
TrailingEnds(points, day, gap) ==
    OfferIf(gap > 1, OfferIf(gap > 0, points, Point(day + 1, 0)), Point(day + gap, 0))

\* How many points a gap makes.
Offers(gap, most) == IF gap < 0 THEN 0 ELSE IF gap > most THEN most ELSE gap

\* The first bucket, on day 1.
InitSeries ==
    /\ \E tokens \in Tokens : source = <<Point(1, tokens)>>
    /\ series = Offer(<<>>, source[1])
    /\ offered = 1 /\ finished = FALSE

\* One turn of the loop of sparse_calendar_series.
TakeBucket ==
    /\ ~finished /\ Len(source) < MaxBuckets
    /\ \E gap \in Gaps, tokens \in Tokens :
          LET bucket == Point(Last(source).day + gap, tokens)
          IN  /\ source' = Append(source, bucket)
              /\ series' = Offer(GapEnds(series, Last(source).day, gap), bucket)
              /\ offered' = offered + Offers(gap, 3)
    /\ UNCHANGED finished

\* What follows the loop; gap is the number of days from the last bucket to today.
Finish ==
    /\ ~finished /\ finished' = TRUE
    /\ \E gap \in {-1, 0} \cup Gaps :
          /\ series' = Bounded(TrailingEnds(series, Last(source).day, gap), MaxPoints)
          /\ offered' = offered + Offers(gap, 2)
    /\ UNCHANGED source

NextSeries == TakeBucket \/ Finish

SpecSeries == InitSeries /\ [][NextSeries]_seriesVars

-----------------------------------------------------------------------------
(* What is drawn. *)

PeakOf(points) == Max({points[i].tokens : i \in DOMAIN points} \cup {0})

\* Mutant of Plotted: three points are the ends and the one in the middle.
PlottedMiddle(points, maximum) ==
    IF Len(points) <= maximum \/ Len(points) <= 2 THEN points
    ELSE IF maximum <= 3 THEN At(points, {1, Len(points) \div 2, Len(points)})
    ELSE Thinned(points, Bins(maximum))

\* bounded_plot_series
Plotted(points, maximum) ==
    LET length == Len(points)
        interior == 2 .. length - 1
        HighestLast(i) == \A j \in interior : \/ points[i].tokens > points[j].tokens
                                              \/ points[i].tokens = points[j].tokens /\ i >= j
    IN  IF length <= maximum \/ length <= 2 THEN points
        ELSE IF maximum <= 2 THEN <<points[1], points[length]>>
        ELSE IF maximum = 3 THEN At(points, {1, length} \cup {i \in interior : HighestLast(i)})
        ELSE Thinned(points, Bins(maximum))

\* PreparedChart::new and, for the width of the moment, draw_prepared_chart.
Curve(width) == Plotted(Plotted(series, MaxDrawPoints), Max({2, Min({width, MaxDrawPoints})}))

\* nice_axis_maximum: 1, 2, 5 or 10 times a power of ten, or the largest number.
AxisMaximum(value) ==
    LET grown[magnitude \in Nat \ {0}] ==
            IF value \div magnitude >= 10 /\ magnitude <= MaxTokens \div 10
            THEN grown[10 * magnitude] ELSE magnitude
        steps == {s \in {grown[1] * k : k \in {1, 2, 5, 10}} : value <= s /\ s <= MaxTokens}
    IN  IF value <= 0 THEN 0 ELSE IF steps = {} THEN MaxTokens ELSE Min(steps)

-----------------------------------------------------------------------------
(* Properties. *)

SourceDays == {source[i].day : i \in DOMAIN source}
UsedOn(day) == IF day \in SourceDays
               THEN (CHOOSE bucket \in {source[i] : i \in DOMAIN source} : bucket.day = day).tokens
               ELSE 0

Sample(points, whole) ==
    /\ \A i \in 1 .. Len(points) - 1 : points[i].day < points[i + 1].day
    /\ \A i \in DOMAIN points : points[i].tokens = UsedOn(points[i].day)
    /\ points[1] = whole[1] /\ Last(points) = Last(whole)

\* However often it was halved, the series is a sample of the days as they
\* were: in order, none of them false, from the first bucket to the last one
\* or today, with the highest day among them, and never too long
\* (sparse_calendar_series, append_bounded_chart_bucket, bounded_chart_series).
SeriesIsSample ==
    /\ Len(series) <= MaxPoints
    /\ Sample(series, series)
    /\ series[1] = source[1]
    /\ Last(series).day >= Last(source).day
    /\ PeakOf(series) = PeakOf(source)

\* A series that was never full does not bridge a gap: a line through its
\* points is at each day's value on every day (UsageRange::chart_buckets).
IdleDaysAtZero ==
    offered <= MaxPoints =>
        \A i \in 1 .. Len(series) - 1 :
            series[i + 1].day - series[i].day > 1 =>
                /\ series[i].tokens = 0 /\ series[i + 1].tokens = 0
                /\ \A day \in series[i].day + 1 .. series[i + 1].day - 1 : UsedOn(day) = 0

\* What is drawn at any width is again such a sample, as narrow as asked for,
\* with the highest day unless only two points fit; and that day is below the
\* top of the axis and above a third of it (bounded_plot_series,
\* nice_axis_maximum).
CurveIsSample ==
    finished => \A width \in Widths :
        LET curve == Curve(width)
        IN  /\ Len(curve) <= Max({width, 2}) /\ Len(curve) <= MaxDrawPoints
            /\ Sample(curve, series)
            /\ width >= 3 => /\ PeakOf(curve) = PeakOf(source)
                             /\ PeakOf(curve) <= AxisMaximum(PeakOf(source))
                             /\ AxisMaximum(PeakOf(source)) <= 3 * PeakOf(curve)
=============================================================================
