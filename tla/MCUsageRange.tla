---------------------------- MODULE MCUsageRange ----------------------------
\* Windows of one, two and three days; counts of nothing, of half of what fits
\* and of all of it.
EXTENDS UsageRange

MCWindowDays == [seven |-> 1, thirty |-> 2, ninety |-> 3]

\* JSON numbers and strings of digits, with exponents about the widths; JSON
\* has no plus sign, and no zero before another digit of the whole part.
MCLexemes ==
    {l \in [quoted : BOOLEAN, sign : {"", "-", "+"},
            digits : UNION {[1..n -> {0, 1, 2, 3, 6}] : n \in 1..3}, fraction : 0..2,
            exponent : {None, -14, -2, -1, 0, 1, 2, 13}] :
        /\ l.fraction < Len(l.digits)
        /\ ~l.quoted => l.sign # "+" /\ (l.digits[1] = 0 => l.fraction = Len(l.digits) - 1)
        /\ Written(l) \in {None, 0, 6, 12, 13}}
=============================================================================
