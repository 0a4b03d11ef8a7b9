---------------------------- MODULE UsageNumbers ----------------------------
(***************************************************************************)
(* The counts of an answer (linux/src/model.rs).  The server may write a   *)
(* whole number with a fraction of zeros, with an exponent, or as a string *)
(* of digits; it is read from what was written, digit by digit, since a    *)
(* binary fraction would round it.                                         *)
(*                                                                         *)
(* A lexeme is the text of a JSON value: its digits, how many of them      *)
(* follow the point, the sign and the exponent, which may be absent.       *)
(***************************************************************************)
EXTENDS Integers, SequencesExt

CONSTANTS MaxTokens,    \* i64::MAX
          MaxDigits,    \* the 19 digits that it has
          Lexemes,      \* bound: what the server writes
          None

Int64 == -MaxTokens - 1 .. MaxTokens

TenTo[n \in Nat] == IF n = 0 THEN 1 ELSE 10 * TenTo[n - 1]

\* A count has at most MaxDigits digits, and the texts (of a message that is at
\* most 2 MiB long) are much shorter than the largest number.
ASSUME UsageNumbersAssumption ==
    /\ MaxTokens \in Nat /\ MaxDigits \in Nat /\ MaxTokens < TenTo[MaxDigits]
    /\ None \notin Int
    /\ \A lexeme \in Lexemes : /\ lexeme.quoted \in BOOLEAN /\ lexeme.sign \in {"", "-", "+"}
                               /\ lexeme.digits \in Seq(0..9) /\ lexeme.digits # <<>>
                               /\ Len(lexeme.digits) + MaxDigits <= MaxTokens
                               /\ lexeme.fraction \in 0..(Len(lexeme.digits) - 1)
                               /\ lexeme.exponent \in Int \cup {None}

Exponent(lexeme) == IF lexeme.exponent = None THEN 0 ELSE lexeme.exponent
IsZero(lexeme) == \A i \in DOMAIN lexeme.digits : lexeme.digits[i] = 0

-----------------------------------------------------------------------------
(* The decoder. *)

\* The digits as a number, by checked multiplications and additions.
Parsed(digits) ==
    FoldLeft(LAMBDA n, d : IF n = None THEN None
                           ELSE IF 10 * n + d > MaxTokens THEN None ELSE 10 * n + d,
             0, digits)

TrailingZeros(digits) ==
    Cardinality({i \in DOMAIN digits : \A j \in i..Len(digits) : digits[j] = 0})

\* Mutant of Exact: digits after the point are cut off.
ExactCutOff(lexeme) ==
    LET shift == Exponent(lexeme) - lexeme.fraction
    IN  IF IsZero(lexeme) THEN 0
        ELSE IF lexeme.sign = "-" \/ shift > MaxDigits \/ -shift > Len(lexeme.digits) THEN None
        ELSE Parsed(IF shift < 0 THEN SubSeq(lexeme.digits, 1, Len(lexeme.digits) + shift)
                    ELSE lexeme.digits \o [i \in 1..shift |-> 0])

\* exact_nonnegative_i64
Exact(lexeme) ==
    LET shift == Exponent(lexeme) - lexeme.fraction
    IN  IF IsZero(lexeme) THEN 0
        ELSE IF lexeme.sign = "-" \/ ~({Exponent(lexeme), shift} \subseteq Int64) THEN None
        ELSE IF shift > MaxDigits \/ -shift > TrailingZeros(lexeme.digits) THEN None
        ELSE Parsed(IF shift < 0 THEN SubSeq(lexeme.digits, 1, Len(lexeme.digits) + shift)
                    ELSE lexeme.digits \o [i \in 1..shift |-> 0])

Plain(lexeme) == lexeme.fraction = 0 /\ lexeme.exponent = None

\* A string is parsed as an i64, which must not be negative.
ParsedText(lexeme) ==
    IF Plain(lexeme) /\ (lexeme.sign = "-" => IsZero(lexeme)) THEN Parsed(lexeme.digits) ELSE None

\* value_to_i64; None refuses the whole answer.
Decoded(lexeme) == IF lexeme.quoted THEN ParsedText(lexeme) ELSE Exact(lexeme)

-----------------------------------------------------------------------------
(* What was written. *)

Number(digits) == FoldLeft(LAMBDA n, d : 10 * n + d, 0, digits)

\* The whole number that a lexeme stands for, or MaxTokens + 1 for any that is
\* larger; None for a fraction and for a negative number.
Written(lexeme) ==
    LET number == Number(lexeme.digits)
        power == Exponent(lexeme) - lexeme.fraction
        Bounded(n) == IF n > MaxTokens THEN MaxTokens + 1 ELSE n
    IN  IF number = 0 THEN 0
        ELSE IF lexeme.sign = "-" \/ power < -Len(lexeme.digits) THEN None
        ELSE IF power >= MaxDigits THEN MaxTokens + 1
        ELSE IF power >= 0 THEN Bounded(number * TenTo[power])
        ELSE IF number % TenTo[-power] = 0 THEN Bounded(number \div TenTo[-power]) ELSE None

Fits(lexeme) == Written(lexeme) \in 0..MaxTokens /\ (lexeme.quoted => Plain(lexeme))

\* The counts that an accepted answer can have, as read and as written.
Counts == {[tokens |-> Decoded(lexeme), written |-> Written(lexeme)] :
              lexeme \in {l \in Lexemes : Decoded(l) # None}}

WronglyRefused == {lexeme \in Lexemes : Fits(lexeme) /\ Decoded(lexeme) = None}
=============================================================================
