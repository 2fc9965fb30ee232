------------------------------- MODULE Durations -------------------------------
(* parse_duration of src/throttle.rs.  A text is a sequence of one-character  *)
(* strings; a duration is counted in milliseconds.                            *)
EXTENDS Naturals, Sequences, SequencesExt, FiniteSetsExt

CONSTANT Word    \* 2^64: the number of values of a u64

Digits == <<"0", "1", "2", "3", "4", "5", "6", "7", "8", "9">>

IsBlank(c) == c = " "

Trim(s) ==
    LET solid == {i \in DOMAIN s : ~IsBlank(s[i])}
    IN  IF solid = {} THEN <<>> ELSE SubSeq(s, Min(solid), Max(solid))

DigitValue(c) == (CHOOSE i \in 1..10 : Digits[i] = c) - 1

Value(s) ==
    LET upTo[i \in 0..Len(s)] == IF i = 0 THEN 0 ELSE 10 * upTo[i - 1] + DigitValue(s[i])
    IN  upTo[Len(s)]

\* str::parse::<u64> takes an optional plus sign, and digits that fit.
Numeral(s) == IF s # <<>> /\ s[1] = "+" THEN Tail(s) ELSE s
IsU64(s) ==
    /\ Numeral(s) # <<>>
    /\ \A i \in DOMAIN Numeral(s) : \E d \in 1..10 : Digits[d] = Numeral(s)[i]
    /\ Value(Numeral(s)) < Word

Rules_Mutant == <<[text |-> <<"h">>, times |-> 3600, unit |-> 1000],
               [text |-> <<"m">>, times |-> 60, unit |-> 1000],
               [text |-> <<"s">>, times |-> 1, unit |-> 1000],
               [text |-> <<"m", "s">>, times |-> 1, unit |-> 1],
               [text |-> <<>>, times |-> 1, unit |-> 1000]>>

\* In the order in which they are tried: "ms" also ends with "s".
Rules == <<[text |-> <<"m", "s">>, times |-> 1, unit |-> 1],
           [text |-> <<"h">>, times |-> 3600, unit |-> 1000],
           [text |-> <<"m">>, times |-> 60, unit |-> 1000],
           [text |-> <<"s">>, times |-> 1, unit |-> 1000],
           [text |-> <<>>, times |-> 1, unit |-> 1000]>>

\* The product is a u64: it panics in a build with overflow checks, a debug one,
\* and wraps in a release build.
Product(n, times, checked) ==
    IF checked /\ n * times >= Word THEN [is |-> "panic"]
                                    ELSE [is |-> "ok", n |-> (n * times) % Word]

parse_duration(src, checked) ==
    LET s      == Trim(src)
        rule   == Rules[Min({i \in DOMAIN Rules : IsSuffix(Rules[i].text, s)})]
        num    == Trim(SubSeq(s, 1, Len(s) - Len(rule.text)))
        total  == Product(Value(Numeral(num)), rule.times, checked)
    IN  IF s = <<>> \/ ~IsU64(num) THEN [is |-> "err"]
        ELSE IF total.is = "panic" THEN total
        ELSE [is |-> "ok", ms |-> total.n * rule.unit]
================================================================================
