------------------------------ MODULE TextsProofs ------------------------------
(***************************************************************************)
(* Theorems about the conversions of Texts, for every text of any length.  *)
(***************************************************************************)
EXTENDS Texts, SequenceTheorems, FunctionTheorems, FiniteSetTheorems,
        WellFoundedInduction, TLAPS

\* The input is one of the three kinds, and what was put out is what its
\* conversion gives.
OutputInv ==
    /\ \/ input \in [what : {"duration"}, text : DurationTexts, checked : BOOLEAN]
       \/ input \in [what : {"address"}, parts : MacTexts]
       \/ input \in [what : {"line"}, from : Requests]
    /\ \/ output = Nothing
       \/ input.what = "duration" /\ output = parse_duration(input.text, input.checked)
       \/ input.what = "address" /\ output = from_str(input.parts)
       \/ input.what = "line"

LEMMA OutputIsOfInput == Spec => []OutputInv
  <1>1. Init => OutputInv
    BY DEF Init, OutputInv
  <1>2. OutputInv /\ [Next]_vars => OutputInv'
    <2>1. ASSUME OutputInv, UNCHANGED vars PROVE OutputInv'
      BY <2>1 DEF OutputInv, vars
    <2>2. ASSUME OutputInv, Next PROVE OutputInv'
      BY <2>2 DEF OutputInv, Next, ParseDuration, ParseAddress, RefuseAlias, write_measurement
    <2>3. QED
      BY <2>1, <2>2
  <1>3. QED
    BY <1>1, <1>2, PTL DEF Spec

--------------------------------------------------------------------------------
(* Induction.  The library's own theorems of it take a predicate, which cannot *)
(* be given to them; its theorem on well-founded relations takes a set.         *)

\* Among numbers there is a least one.
LEMMA LeastNumber ==
    ASSUME NEW S \in SUBSET Nat, S # {}
    PROVE  \E m \in S : \A n \in S : m <= n
  <1> DEFINE R == OpToRel(<, Nat)
  <1>1. IsWellFoundedOn(R, Nat)
    BY NatLessThanWellFounded
  <1> HIDE DEF R
  <1>2. PICK m \in S : \A y \in S : ~(<<y, m>> \in R)
    BY <1>1, WFMin
  <1>3. \A y \in S : ~ (y < m)
    BY <1>2 DEF OpToRel, R
  <1>4. QED
    BY <1>3

\* Induction, for a set in the place of a predicate.
LEMMA NatSetInduction ==
    ASSUME NEW S, 0 \in S, \A n \in Nat : n \in S => n + 1 \in S
    PROVE  Nat \subseteq S
  <1> SUFFICES ASSUME Nat \ S # {} PROVE FALSE
    OBVIOUS
  <1>1. PICK m \in Nat \ S : \A n \in Nat \ S : m <= n
    BY LeastNumber
  <1>2. m # 0 /\ m - 1 \in Nat /\ ~(m - 1 \in Nat \ S)
    BY <1>1
  <1>3. QED
    BY <1>1, <1>2

--------------------------------------------------------------------------------
(* Addresses. *)

\* No spelling of a digit is the spelling of another.
LEMMA DigitsDiffer ==
    ASSUME NEW k \in 1..16, NEW d \in 1..16, Upper[k] \in {Upper[d], Lower[d]}
    PROVE  k = d
  BY DEF Upper, Lower

LEMMA DigitOfUpper ==
    ASSUME NEW k \in 0..15
    PROVE  Digit(Upper[k + 1]) = k
  <1> DEFINE P(d) == Upper[k + 1] \in {Upper[d], Lower[d]}
  <1>1. k + 1 \in 1..16 /\ P(k + 1) /\ \A d \in 1..16 : P(d) => d = k + 1
    BY DigitsDiffer
  <1> HIDE DEF P
  <1> DEFINE c == CHOOSE d \in 1..16 : P(d)
  <1>2. c = k + 1
    BY <1>1
  <1>3. Digit(Upper[k + 1]) = c - 1
    BY DEF Digit, P
  <1> HIDE DEF c
  <1>4. QED
    BY <1>2, <1>3

LEMMA DigitRange ==
    ASSUME NEW c, \E d \in 1..16 : c \in {Upper[d], Lower[d]}
    PROVE  Digit(c) \in 0..15
  <1> DEFINE P(d) == c \in {Upper[d], Lower[d]}
  <1>1. \E d \in 1..16 : P(d)
    OBVIOUS
  <1> HIDE DEF P
  <1>2. (CHOOSE d \in 1..16 : P(d)) \in 1..16
    BY <1>1
  <1>3. QED
    BY <1>2 DEF Digit, P

\* Two digits of which all are hexadecimal are a byte.
LEMMA HexRange ==
    ASSUME NEW part \in Seq(STRING), Len(part) = 2, IsHex(part)
    PROVE  Hex(part) \in 0..255
  <1> DEFINE digits == HexDigits(part)
  <1>1. digits \in Seq(STRING) /\ Len(digits) \in {1, 2}
    <2>1. Tail(part) \in Seq(STRING) /\ Len(Tail(part)) = 1
      OBVIOUS
    <2>2. QED
      BY <2>1 DEF HexDigits
  <1>2. \A i \in DOMAIN digits : Digit(digits[i]) \in 0..15
    BY DigitRange DEF IsHex
  <1>3. DOMAIN digits = 1..Len(digits)
    BY <1>1
  <1> HIDE DEF digits
  <1>4. CASE Len(digits) = 1
    BY <1>2, <1>3, <1>4 DEF Hex, digits
  <1>5. CASE Len(digits) = 2
    <2>1. Digit(digits[1]) \in 0..15 /\ Digit(digits[2]) \in 0..15
      BY <1>2, <1>3, <1>5
    <2> DEFINE a == Digit(digits[1])
               b == Digit(digits[2])
    <2>2. Hex(part) = 16 * a + b
      BY <1>5 DEF Hex, digits
    <2> HIDE DEF a, b
    <2>3. a \in 0..15 /\ b \in 0..15
      BY <2>1 DEF a, b
    <2>4. QED
      BY <2>2, <2>3
  <1>6. QED
    BY <1>1, <1>4, <1>5

\* The two digits of a byte read back as the byte.
LEMMA ByteReadsBack ==
    ASSUME NEW b \in 0..255, NEW part,
           part = <<Upper[(b \div 16) + 1], Upper[(b % 16) + 1]>>
    PROVE  Len(part) = 2 /\ IsHex(part) /\ Hex(part) = b
  <1>1. b \div 16 \in 0..15 /\ b % 16 \in 0..15 /\ b = 16 * (b \div 16) + (b % 16)
    OBVIOUS
  <1>2. \A k \in 0..15 : k + 1 \in 1..16 /\ Upper[k + 1] # "+"
    BY DEF Upper
  <1>3. HexDigits(part) = part
    BY <1>1, <1>2 DEF HexDigits
  <1>4. Len(part) = 2 /\ DOMAIN part = 1..2
    OBVIOUS
  <1>5. IsHex(part)
    BY <1>1, <1>2, <1>3, <1>4 DEF IsHex
  <1>6. Hex(part) = 16 * Digit(part[1]) + Digit(part[2])
    BY <1>3, <1>4 DEF Hex
  <1>7. Digit(part[1]) = b \div 16 /\ Digit(part[2]) = b % 16
    BY <1>1, DigitOfUpper
  <1>8. QED
    BY <1>1, <1>4, <1>5, <1>6, <1>7

LEMMA DisplayReadsBack ==
    ASSUME NEW mac \in [1..Parts -> 0..255]
    PROVE  from_str(Display(mac)) = [is |-> "ok", mac |-> mac]
  <1> DEFINE parts == Display(mac)
  <1>1. Parts \in Nat
    BY TextsAssumption
  <1>2. \A i \in 1..Parts : Len(parts[i]) = 2 /\ IsHex(parts[i]) /\ Hex(parts[i]) = mac[i]
    BY ByteReadsBack DEF Display
  <1>3. DOMAIN parts = 1..Parts /\ Len(parts) = Parts
    BY <1>1 DEF Display
  <1> HIDE DEF parts
  <1>4. mac = [i \in 1..Parts |-> Hex(parts[i])]
    BY <1>2
  <1>5. {i \in DOMAIN parts : Len(parts[i]) # 2} \cup {i \in DOMAIN parts : Len(parts[i]) = 2 /\ ~IsHex(parts[i])} = {}
    BY <1>2, <1>3
  <1>6. QED
    BY <1>3, <1>4, <1>5 DEF from_str, parts

LEMMA AcceptedIsAddress ==
    ASSUME NEW parts \in Seq(Seq(STRING)), from_str(parts).is = "ok"
    PROVE  /\ from_str(parts).mac \in [1..Parts -> 0..255]
           /\ from_str(parts) = [is |-> "ok", mac |-> from_str(parts).mac]
  <1> DEFINE short == {i \in DOMAIN parts : Len(parts[i]) # 2}
             bad   == {i \in DOMAIN parts : Len(parts[i]) = 2 /\ ~IsHex(parts[i])}
             m     == [i \in 1..Parts |-> Hex(parts[i])]
  <1>1. Len(parts) = Parts /\ short \cup bad = {} /\ from_str(parts) = [is |-> "ok", mac |-> m]
    BY DEF from_str
  <1>2. \A i \in 1..Parts : parts[i] \in Seq(STRING) /\ Len(parts[i]) = 2 /\ IsHex(parts[i])
    <2>1. DOMAIN parts = 1..Parts /\ \A i \in DOMAIN parts : parts[i] \in Seq(STRING)
      BY <1>1
    <2>2. \A i \in DOMAIN parts : i \notin short /\ i \notin bad
      BY <1>1
    <2>3. QED
      BY <2>1, <2>2
  <1>3. m \in [1..Parts -> 0..255]
    BY <1>2, HexRange
  <1>4. QED
    BY <1>1, <1>3

\* Every address that is accepted, in whatever spelling, is displayed as a text
\* that is accepted for the same address (mac_address.rs:18-58).
THEOREM AddressesRoundTrip == Spec => []AddressRoundTrip
  <1>1. OutputInv => AddressRoundTrip
    <2> SUFFICES ASSUME OutputInv, input.what = "address", output.is = "ok"
                 PROVE  /\ \A i \in 1..Parts : output.mac[i] \in 0..255
                        /\ from_str(Display(output.mac)) = output
      BY DEF AddressRoundTrip
    <2>1. output = from_str(input.parts) /\ input.parts \in Seq(Seq(STRING))
      BY TextsAssumption DEF OutputInv, Nothing
    <2>2. /\ output.mac \in [1..Parts -> 0..255]
          /\ output = [is |-> "ok", mac |-> output.mac]
      BY <2>1, AcceptedIsAddress
    <2>3. QED
      BY <2>2, DisplayReadsBack
  <1>2. QED
    BY OutputIsOfInput, <1>1, PTL

--------------------------------------------------------------------------------
(* The pieces of a duration. *)

\* The provers do not know that a string of the model is in STRING.
Char == STRING \cup {"h", "m", "s", "\\", "=", ",", " "}

LEMMA Letters == "m" \in Char /\ "s" \in Char /\ "h" \in Char /\ STRING \subseteq Char
  BY Zenon DEF Char

IsNumeral(s) == \A i \in DOMAIN s : \E d \in 1..10 : Digits[d] = s[i]

LEMMA DigitValueIsNat ==
    ASSUME NEW c, \E d \in 1..10 : Digits[d] = c
    PROVE  DigitValue(c) \in Nat
  <1> DEFINE P(d) == Digits[d] = c
             x == CHOOSE d \in 1..10 : P(d)
  <1>1. x \in 1..10
    OBVIOUS
  <1>2. DigitValue(c) = x - 1
    BY DEF DigitValue
  <1> HIDE DEF x
  <1>3. QED
    BY <1>1, <1>2

LEMMA ValueIsNat ==
    ASSUME NEW s \in Seq(Char), IsNumeral(s)
    PROVE  Value(s) \in Nat
  <1> DEFINE n == Len(s)
             D(i) == DigitValue(s[i])
             Sums(v, k) == v[0] = 0 /\ \A i \in 1..k : v[i] = 10 * v[i - 1] + D(i)
             T == {k \in Nat : k <= n => \E v \in [0..k -> Nat] : Sums(v, k)}
             F(v) == [i \in 0..n |-> IF i = 0 THEN 0 ELSE 10 * v[i - 1] + D(i)]
  <1>1. n \in Nat /\ \A i \in 1..n : D(i) \in Nat
    BY DigitValueIsNat DEF IsNumeral
  <1> HIDE DEF D, Sums
  <1>2. 0 \in T
    <2>1. [i \in 0..0 |-> 0] \in [0..0 -> Nat] /\ Sums([i \in 0..0 |-> 0], 0)
      BY DEF Sums
    <2>2. QED
      BY <2>1
  <1>3. ASSUME NEW k \in Nat, k \in T PROVE k + 1 \in T
    <2> SUFFICES ASSUME k + 1 <= n PROVE \E v \in [0..(k + 1) -> Nat] : Sums(v, k + 1)
      OBVIOUS
    <2>1. PICK v \in [0..k -> Nat] : Sums(v, k)
      <3>1. k <= n
        BY <1>1
      <3>2. QED
        BY <1>3, <3>1
    <2> DEFINE w == [i \in 0..(k + 1) |-> IF i = k + 1 THEN 10 * v[k] + D(k + 1) ELSE v[i]]
    <2>2. w \in [0..(k + 1) -> Nat]
      BY <1>1, <2>1
    <2>3. Sums(w, k + 1)
      BY <1>1, <2>1 DEF Sums
    <2>4. QED
      BY <2>2, <2>3
  <1>4. n \in T
    <2> HIDE DEF T
    <2>1. Nat \subseteq T
      BY <1>2, <1>3, NatSetInduction
    <2>2. QED
      BY <1>1, <2>1
  <1>5. PICK v \in [0..n -> Nat] : Sums(v, n)
    BY <1>1, <1>4
  <1>6. v = F(v)
    BY <1>1, <1>5 DEF Sums
  <1> DEFINE c == CHOOSE u : u = F(u)
  <1>7. c = F(c)
    BY <1>6
  <1>8. Value(s) = c[n]
    BY DEF Value, D
  <1> HIDE DEF c
  <1> DEFINE U == {k \in Nat : k <= n => c[k] \in Nat}
  <1>9. 0 \in U
    BY <1>1, <1>7
  <1>10. ASSUME NEW k \in Nat, k \in U PROVE k + 1 \in U
    <2> SUFFICES ASSUME k + 1 <= n PROVE c[k + 1] \in Nat
      OBVIOUS
    <2>1. c[k + 1] = 10 * c[k] + D(k + 1) /\ c[k] \in Nat
      BY <1>1, <1>7, <1>10
    <2>2. QED
      BY <1>1, <2>1
  <1>11. n \in U
    <2> HIDE DEF U
    <2>1. Nat \subseteq U
      BY <1>9, <1>10, NatSetInduction
    <2>2. QED
      BY <1>1, <2>1
  <1>12. QED
    BY <1>1, <1>8, <1>11

LEMMA PartFacts ==
    ASSUME NEW t \in Seq(Char), NEW a \in 0..Len(t), NEW b \in a..Len(t)
    PROVE  /\ Part(t, a, b) \in Seq(Char)
           /\ Len(Part(t, a, b)) = b - a
           /\ DOMAIN Part(t, a, b) = 1..(b - a)
           /\ \A i \in 1..(b - a) : Part(t, a, b)[i] = t[a + i]
  <1>1. a \in Nat /\ b \in Nat /\ a <= b /\ b <= Len(t) /\ Len(t) \in Nat
    OBVIOUS
  <1>2. \A i \in (a + 1)..b : t[i] \in Char
    BY <1>1
  <1>3. /\ SubSeq(t, a + 1, b) \in Seq(Char)
        /\ Len(SubSeq(t, a + 1, b)) = IF a + 1 <= b THEN b - (a + 1) + 1 ELSE 0
        /\ \A i \in 1..(b - (a + 1) + 1) : SubSeq(t, a + 1, b)[i] = t[(a + 1) + i - 1]
    BY <1>1, <1>2, SubSeqProperties
  <1>4. b - (a + 1) + 1 = b - a /\ \A i \in 1..(b - a) : (a + 1) + i - 1 = a + i
    BY <1>1
  <1>5. Len(SubSeq(t, a + 1, b)) = b - a
    BY <1>1, <1>3
  <1>6. QED
    BY <1>1, <1>3, <1>4, <1>5 DEF Part

LEMMA PartOfPart ==
    ASSUME NEW t \in Seq(Char), NEW a \in 0..Len(t), NEW b \in a..Len(t),
           NEW c \in 0..(b - a), NEW d \in c..(b - a)
    PROVE  Part(Part(t, a, b), c, d) = Part(t, a + c, a + d)
  <1> DEFINE p == Part(t, a, b)
             q == Part(p, c, d)
             r == Part(t, a + c, a + d)
  <1>1. /\ a \in Nat /\ b \in Nat /\ c \in Nat /\ d \in Nat /\ Len(t) \in Nat
        /\ a <= b /\ b <= Len(t) /\ c <= d /\ d <= b - a
    OBVIOUS
  <1>2. p \in Seq(Char) /\ Len(p) = b - a /\ \A i \in 1..(b - a) : p[i] = t[a + i]
    BY PartFacts
  <1>3. c \in 0..Len(p) /\ d \in c..Len(p)
    BY <1>1, <1>2
  <1> HIDE DEF p
  <1>4. q \in Seq(Char) /\ Len(q) = d - c /\ \A i \in 1..(d - c) : q[i] = p[c + i]
    BY <1>2, <1>3, PartFacts
  <1>5. a + c \in 0..Len(t) /\ a + d \in (a + c)..Len(t)
    BY <1>1
  <1>6. r \in Seq(Char) /\ Len(r) = (a + d) - (a + c)
        /\ \A i \in 1..((a + d) - (a + c)) : r[i] = t[(a + c) + i]
    BY <1>5, PartFacts
  <1> HIDE DEF q, r
  <1>7. (a + d) - (a + c) = d - c
    BY <1>1
  <1>8. ASSUME NEW i \in 1..(d - c) PROVE q[i] = r[i]
    <2>1. c + i \in 1..(b - a) /\ a + (c + i) = (a + c) + i
      BY <1>1
    <2>2. QED
      BY <1>2, <1>4, <1>6, <1>7, <2>1
  <1>9. Len(q) = Len(r) /\ \A i \in 1..Len(q) : q[i] = r[i]
    BY <1>4, <1>6, <1>7, <1>8
  <1>10. q = r
    BY <1>4, <1>6, <1>9, SeqEqual
  <1>11. QED
    BY <1>10 DEF p, q, r

LEMMA BlankPart ==
    ASSUME NEW t \in Seq(Char), NEW a \in 0..Len(t), NEW b \in a..Len(t)
    PROVE  Blank(Part(t, a, b)) <=> \A i \in (a + 1)..b : IsBlank(t[i])
  <1>1. a \in Nat /\ b \in Nat
    OBVIOUS
  <1>2. Blank(Part(t, a, b)) <=> \A i \in 1..(b - a) : IsBlank(t[a + i])
    <2> DEFINE p == Part(t, a, b)
    <2>1. p \in Seq(Char) /\ Len(p) = b - a /\ \A i \in 1..(b - a) : p[i] = t[a + i]
      BY <1>1, PartFacts
    <2> HIDE DEF p
    <2>2. DOMAIN p = 1..(b - a)
      BY <2>1
    <2>3. Blank(p) <=> \A i \in 1..(b - a) : IsBlank(p[i])
      BY <2>2 DEF Blank
    <2>4. QED
      BY <2>1, <2>3 DEF p
  <1>3. ASSUME \A i \in 1..(b - a) : IsBlank(t[a + i]), NEW i \in (a + 1)..b PROVE IsBlank(t[i])
    <2>1. i - a \in 1..(b - a) /\ a + (i - a) = i
      BY <1>1
    <2>2. QED
      BY <1>3, <2>1
  <1>4. \A i \in 1..(b - a) : a + i \in (a + 1)..b
    BY <1>1
  <1>5. QED
    BY <1>2, <1>3, <1>4

\* The solid part of s is between a and b.
Spans(s, a, b) ==
    /\ a \in 1..Len(s) /\ b \in a..Len(s) /\ ~IsBlank(s[a]) /\ ~IsBlank(s[b])
    /\ \A i \in 1..(a - 1) : IsBlank(s[i])
    /\ \A i \in (b + 1)..Len(s) : IsBlank(s[i])

LEMMA TrimIs ==
    ASSUME NEW s \in Seq(Char), NEW a, NEW b, Spans(s, a, b)
    PROVE  Trim(s) = Part(s, a - 1, b)
  <1> DEFINE solid == {i \in DOMAIN s : ~IsBlank(s[i])}
  <1>1. a \in Nat /\ b \in Nat /\ Len(s) \in Nat /\ DOMAIN s = 1..Len(s) /\ 1 <= a /\ a <= b /\ b <= Len(s)
    <2>1. Len(s) \in Nat /\ DOMAIN s = 1..Len(s)
      OBVIOUS
    <2>2. a \in 1..Len(s) /\ b \in a..Len(s)
      BY DEF Spans
    <2>3. QED
      BY <2>1, <2>2
  <1>2. /\ a \in solid /\ b \in solid
        /\ \A i \in solid : i \in Nat /\ a <= i /\ i <= b
    <2>1. ~IsBlank(s[a]) /\ ~IsBlank(s[b]) /\ (\A i \in 1..(a - 1) : IsBlank(s[i])) /\ \A i \in (b + 1)..Len(s) : IsBlank(s[i])
      BY DEF Spans
    <2>2. a \in 1..Len(s) /\ b \in 1..Len(s)
      BY <1>1
    <2>3. \A i \in 1..Len(s) : i \in Nat /\ (i < a => i \in 1..(a - 1)) /\ (i > b => i \in (b + 1)..Len(s))
      BY <1>1
    <2>4. \A i \in 1..Len(s) : ~IsBlank(s[i]) => i \in Nat /\ ~(i < a) /\ ~(i > b)
      BY <2>1, <2>3
    <2>5. ASSUME NEW i \in 1..Len(s), ~IsBlank(s[i]) PROVE i \in Nat /\ a <= i /\ i <= b
      <3>1. i \in Nat /\ ~(i < a) /\ ~(i > b)
        BY <2>4, <2>5
      <3>2. QED
        BY <1>1, <3>1
    <2>6. QED
      BY <1>1, <2>1, <2>2, <2>5
  <1> HIDE DEF solid
  <1>3. Min(solid) = a
    <2>1. \A m \in solid : (\A i \in solid : m <= i) => m = a
      BY <1>1, <1>2
    <2>2. QED
      BY <1>2, <2>1 DEF Min
  <1>4. Max(solid) = b
    <2>1. \A m \in solid : (\A i \in solid : m >= i) => m = b
      BY <1>1, <1>2
    <2>2. QED
      BY <1>1, <1>2, <2>1 DEF Max
  <1>5. a - 1 + 1 = a /\ solid # {}
    BY <1>1, <1>2
  <1>6. QED
    BY <1>3, <1>4, <1>5 DEF Trim, Part, solid

LEMMA TrimCases ==
    ASSUME NEW s \in Seq(Char)
    PROVE  (Blank(s) /\ Trim(s) = <<>>) \/ \E a, b \in 1..Len(s) : Spans(s, a, b)
  <1> DEFINE solid == {i \in DOMAIN s : ~IsBlank(s[i])}
             above == {k \in Nat : \A i \in solid : i <= k}
  <1>1. Len(s) \in Nat /\ DOMAIN s = 1..Len(s)
    OBVIOUS
  <1>2. CASE solid = {}
    BY <1>2 DEF Blank, Trim
  <1>3. CASE solid # {}
    <2>1. /\ \A i \in solid : i \in 1..Len(s) /\ i \in Nat /\ i <= Len(s) /\ ~IsBlank(s[i])
          /\ \A i \in 1..Len(s) : i \notin solid => IsBlank(s[i])
      <3>1. solid \subseteq 1..Len(s) /\ \A i \in solid : ~IsBlank(s[i])
        BY <1>1
      <3>2. \A i \in 1..Len(s) : i \notin solid => IsBlank(s[i])
        BY <1>1
      <3>3. \A i \in 1..Len(s) : i \in Nat /\ i <= Len(s)
        BY <1>1
      <3> HIDE DEF solid
      <3>4. QED
        BY <3>1, <3>2, <3>3
    <2> HIDE DEF solid
    <2>2. /\ Len(s) \in above /\ above \in SUBSET Nat
          /\ \A k \in above : k \in Nat /\ \A i \in solid : i <= k
          /\ \A k \in Nat : (\A i \in solid : i <= k) => k \in above
      BY <1>1, <2>1
    <2> HIDE DEF above
    <2>3. PICK a \in solid : \A i \in solid : a <= i
      BY <1>3, <2>1, LeastNumber
    <2>4. PICK b \in above : \A k \in above : b <= k
      BY <2>2, LeastNumber
    <2>5. /\ a \in Nat /\ a >= 1 /\ a <= Len(s) /\ b \in Nat /\ a <= b
          /\ \A i \in solid : i \in Nat /\ i <= b
      <3>1. a \in 1..Len(s) /\ b \in Nat /\ \A i \in solid : i <= b /\ i \in Nat
        BY <2>1, <2>2, <2>3, <2>4
      <3>2. a <= b
        BY <3>1, <2>3
      <3>3. QED
        BY <1>1, <3>1, <3>2
    <2>6. b \in solid
      <3> SUFFICES ASSUME b \notin solid PROVE FALSE
        OBVIOUS
      <3>1. \A i \in solid : i <= b - 1
        BY <2>5
      <3>2. b - 1 \in Nat
        BY <2>5
      <3>3. b - 1 \in above
        BY <2>2, <3>1, <3>2
      <3>4. b <= b - 1
        BY <2>4, <3>3
      <3>5. QED
        BY <2>5, <3>4
    <2>7. b <= Len(s)
      BY <2>1, <2>6
    <2>8. a \in 1..Len(s) /\ b \in 1..Len(s) /\ b \in a..Len(s)
      BY <1>1, <2>5, <2>7
    <2>9. ASSUME NEW i \in 1..(a - 1) PROVE IsBlank(s[i])
      <3>1. i \in 1..Len(s) /\ ~(a <= i)
        BY <1>1, <2>5
      <3>2. QED
        BY <2>1, <2>3, <3>1
    <2>10. ASSUME NEW i \in (b + 1)..Len(s) PROVE IsBlank(s[i])
      <3>1. i \in 1..Len(s) /\ ~(i <= b)
        BY <1>1, <2>5
      <3>2. QED
        BY <2>1, <2>5, <3>1
    <2>11. Spans(s, a, b)
      BY <2>1, <2>3, <2>6, <2>8, <2>9, <2>10 DEF Spans
    <2>12. QED
      BY <2>8, <2>11
  <1>4. QED
    BY <1>2, <1>3

\* Trimming a part of a text cuts off the blanks at its two ends.
LEMMA TrimPart ==
    ASSUME NEW t \in Seq(Char),
           NEW c \in Nat, NEW a \in Nat, NEW b \in Nat, NEW d \in Nat,
           c <= a, a < b, b <= d, d <= Len(t),
           Blank(Part(t, c, a)), Blank(Part(t, b, d)), ~IsBlank(t[a + 1]), ~IsBlank(t[b])
    PROVE  Trim(Part(t, c, d)) = Part(t, a, b)
  <1> DEFINE p == Part(t, c, d)
  <1>1. Len(t) \in Nat
    OBVIOUS
  <1>2. /\ c \in 0..Len(t) /\ a \in c..Len(t) /\ b \in 0..Len(t) /\ d \in b..Len(t)
        /\ d \in c..Len(t)
    BY <1>1
  <1>3. p \in Seq(Char) /\ Len(p) = d - c /\ \A i \in 1..(d - c) : p[i] = t[c + i]
    BY <1>2, PartFacts
  <1>4. \A i \in (c + 1)..a : IsBlank(t[i])
    BY <1>2, BlankPart
  <1>5. \A i \in (b + 1)..d : IsBlank(t[i])
    BY <1>2, BlankPart
  <1> HIDE DEF p
  <1>6. Spans(p, a - c + 1, b - c)
    <2>1. a - c + 1 \in 1..Len(p) /\ b - c \in (a - c + 1)..Len(p) /\ b - c \in 1..Len(p)
      BY <1>1, <1>3
    <2>2. c + (a - c + 1) = a + 1 /\ c + (b - c) = b
      BY <1>1
    <2>3. ~IsBlank(p[a - c + 1]) /\ ~IsBlank(p[b - c])
      BY <1>1, <1>3, <2>1, <2>2
    <2>4. ASSUME NEW i \in 1..((a - c + 1) - 1) PROVE IsBlank(p[i])
      <3>1. i \in 1..(d - c) /\ c + i \in (c + 1)..a
        BY <1>1
      <3>2. QED
        BY <1>3, <1>4, <3>1
    <2>5. ASSUME NEW i \in ((b - c) + 1)..Len(p) PROVE IsBlank(p[i])
      <3>1. i \in 1..(d - c) /\ c + i \in (b + 1)..d
        BY <1>1, <1>3
      <3>2. QED
        BY <1>3, <1>5, <3>1
    <2>6. QED
      BY <2>1, <2>3, <2>4, <2>5 DEF Spans
  <1>7. Trim(p) = Part(p, a - c, b - c)
    <2>1. (a - c + 1) - 1 = a - c
      BY <1>1
    <2>2. QED
      BY <1>3, <1>6, <2>1, TrimIs
  <1>8. a - c \in 0..(d - c) /\ b - c \in (a - c)..(d - c) /\ c + (a - c) = a /\ c + (b - c) = b
    BY <1>1
  <1>9. Part(p, a - c, b - c) = Part(t, a, b)
    BY <1>2, <1>8, PartOfPart DEF p
  <1>10. QED
    BY <1>7, <1>9 DEF p

LEMMA ShortSeqs ==
    ASSUME NEW S, NEW b \in S, NEW c \in S
    PROVE  /\ <<c>> \in Seq(S) /\ Len(<<c>>) = 1 /\ <<c>>[1] = c
           /\ <<b, c>> \in Seq(S) /\ Len(<<b, c>>) = 2 /\ <<b, c>>[1] = b /\ <<b, c>>[2] = c
  OBVIOUS

\* What a suffix of up to two characters says of a text.
LEMMA SuffixNone ==
    ASSUME NEW s \in Seq(Char)
    PROVE  IsSuffix(<<>>, s)
  <1>1. Len(Reverse(<<>>)) = 0 /\ Len(Reverse(s)) \in Nat
    BY DEF Reverse
  <1>2. SubSeq(Reverse(<<>>), 1, 0) = <<>> /\ SubSeq(Reverse(s), 1, 0) = <<>>
    BY SubSeqEmpty
  <1>3. QED
    BY <1>1, <1>2 DEF IsSuffix, IsPrefix

LEMMA ReverseFacts ==
    ASSUME NEW s \in Seq(Char)
    PROVE  /\ Reverse(s) \in Seq(Char) /\ Len(Reverse(s)) = Len(s)
           /\ \A i \in 1..Len(s) : Reverse(s)[i] = s[(Len(s) - i) + 1]
  BY DEF Reverse

LEMMA FirstOf ==
    ASSUME NEW s \in Seq(Char), NEW n \in Nat, n <= Len(s)
    PROVE  /\ SubSeq(s, 1, n) \in Seq(Char) /\ Len(SubSeq(s, 1, n)) = n
           /\ \A i \in 1..n : SubSeq(s, 1, n)[i] = s[i]
  <1>1. n - 0 = n /\ 0 + 1 = 1 /\ 0 \in 0..Len(s) /\ n \in 0..Len(s)
    OBVIOUS
  <1>2. SubSeq(s, 1, n) = Part(s, 0, n)
    BY <1>1 DEF Part
  <1>3. \A i \in 1..n : 0 + i = i
    OBVIOUS
  <1>4. /\ Part(s, 0, n) \in Seq(Char) /\ Len(Part(s, 0, n)) = n - 0
        /\ \A i \in 1..(n - 0) : Part(s, 0, n)[i] = s[0 + i]
    BY <1>1, PartFacts
  <1>5. QED
    BY <1>1, <1>2, <1>3, <1>4

\* A text u is a suffix of s if it is the end of it.
LEMMA SuffixIs ==
    ASSUME NEW s \in Seq(Char), NEW u \in Seq(Char)
    PROVE  IsSuffix(u, s) <=>
               Len(u) <= Len(s) /\ \A i \in 1..Len(u) : u[(Len(u) - i) + 1] = s[(Len(s) - i) + 1]
  <1> DEFINE n == Len(u)
  <1>1. n \in Nat /\ Len(s) \in Nat
    OBVIOUS
  <1>2. /\ Reverse(s) \in Seq(Char) /\ Len(Reverse(s)) = Len(s)
        /\ \A i \in 1..Len(s) : Reverse(s)[i] = s[(Len(s) - i) + 1]
    BY ReverseFacts
  <1>3. /\ Reverse(u) \in Seq(Char) /\ Len(Reverse(u)) = n
        /\ \A i \in 1..n : Reverse(u)[i] = u[(n - i) + 1]
    BY ReverseFacts
  <1>4. CASE n <= Len(s)
    <2> DEFINE x == SubSeq(Reverse(u), 1, n)
               y == SubSeq(Reverse(s), 1, n)
    <2>1. /\ x \in Seq(Char) /\ Len(x) = n /\ \A i \in 1..n : x[i] = Reverse(u)[i]
          /\ y \in Seq(Char) /\ Len(y) = n /\ \A i \in 1..n : y[i] = Reverse(s)[i]
      BY <1>1, <1>2, <1>3, <1>4, FirstOf
    <2>2. IsSuffix(u, s) <=> x = y
      BY <1>2, <1>3, <1>4 DEF IsSuffix, IsPrefix
    <2> HIDE DEF x, y
    <2>3. x = y <=> \A i \in 1..n : x[i] = y[i]
      BY <2>1, SeqEqual
    <2>4. \A i \in 1..n : i \in 1..Len(s)
      BY <1>1, <1>4
    <2>5. \A i \in 1..n : x[i] = u[(n - i) + 1] /\ y[i] = s[(Len(s) - i) + 1]
      BY <1>2, <1>3, <2>1, <2>4
    <2>6. QED
      BY <1>4, <2>2, <2>3, <2>5
  <1>5. CASE ~(n <= Len(s))
    BY <1>2, <1>3, <1>5 DEF IsSuffix, IsPrefix
  <1>6. QED
    BY <1>4, <1>5

LEMMA SuffixOne ==
    ASSUME NEW s \in Seq(Char), s # <<>>, NEW c \in Char
    PROVE  IsSuffix(<<c>>, s) <=> s[Len(s)] = c
  <1> DEFINE u == <<c>>
  <1>1. Len(s) \in Nat /\ 1 <= Len(s) /\ u \in Seq(Char) /\ Len(u) = 1 /\ u[1] = c
    <2>1. Len(s) \in Nat /\ 1 <= Len(s)
      OBVIOUS
    <2>2. u \in Seq(Char) /\ Len(u) = 1 /\ u[1] = c
      BY ShortSeqs
    <2>3. QED
      BY <2>1, <2>2
  <1> HIDE DEF u
  <1>2. IsSuffix(u, s) <=>
            Len(u) <= Len(s) /\ \A i \in 1..Len(u) : u[(Len(u) - i) + 1] = s[(Len(s) - i) + 1]
    BY <1>1, SuffixIs
  <1>3. \A i \in 1..1 : i = 1 /\ (Len(u) - i) + 1 = 1 /\ (Len(s) - i) + 1 = Len(s)
    BY <1>1
  <1>4. 1 \in 1..1
    OBVIOUS
  <1>5. QED
    BY <1>1, <1>2, <1>3, <1>4 DEF u

LEMMA SuffixTwo ==
    ASSUME NEW s \in Seq(Char), NEW b \in Char, NEW c \in Char
    PROVE  IsSuffix(<<b, c>>, s) <=> Len(s) >= 2 /\ s[Len(s) - 1] = b /\ s[Len(s)] = c
  <1> DEFINE u == <<b, c>>
  <1>1. Len(s) \in Nat /\ u \in Seq(Char) /\ Len(u) = 2 /\ u[1] = b /\ u[2] = c
    <2>1. u \in Seq(Char) /\ Len(u) = 2 /\ u[1] = b /\ u[2] = c
      BY ShortSeqs
    <2>2. Len(s) \in Nat
      OBVIOUS
    <2>3. QED
      BY <2>1, <2>2
  <1> HIDE DEF u
  <1>2. IsSuffix(u, s) <=>
            Len(u) <= Len(s) /\ \A i \in 1..Len(u) : u[(Len(u) - i) + 1] = s[(Len(s) - i) + 1]
    BY <1>1, SuffixIs
  <1>3. /\ (Len(u) - 1) + 1 = 2 /\ (Len(s) - 1) + 1 = Len(s)
        /\ (Len(u) - 2) + 1 = 1 /\ (Len(s) - 2) + 1 = Len(s) - 1
    BY <1>1
  <1>4. \A i \in 1..2 : i = 1 \/ i = 2
    OBVIOUS
  <1>5. 1 \in 1..2 /\ 2 \in 1..2
    OBVIOUS
  <1>6. Len(u) <= Len(s) <=> Len(s) >= 2
    BY <1>1
  <1>7. IsSuffix(u, s) <=> Len(s) >= 2 /\ u[2] = s[Len(s)] /\ u[1] = s[Len(s) - 1]
    BY <1>1, <1>2, <1>3, <1>4, <1>5, <1>6
  <1>8. QED
    BY <1>1, <1>7 DEF u

--------------------------------------------------------------------------------
(* The rule that parse_duration takes, and the reading it stands for. *)

RuleAt(s) == Min({i \in DOMAIN Rules : IsSuffix(Rules[i].text, s)})
NumberText(s) == Trim(SubSeq(s, 1, Len(s) - Len(Rules[RuleAt(s)].text)))

\* The rule for a unit of the documentation, and the unit for a rule.
RuleFor == <<4, 5, 3, 2, 1>>
UnitFor == <<5, 4, 3, 1, 2>>

LEMMA RulesFacts ==
    /\ DOMAIN Rules = 1..5
    /\ Rules[1].text = <<"m", "s">> /\ Rules[2].text = <<"h">> /\ Rules[3].text = <<"m">>
    /\ Rules[4].text = <<"s">> /\ Rules[5].text = <<>>
    /\ Rules[1].times = 1 /\ Rules[2].times = 3600 /\ Rules[3].times = 60
    /\ Rules[4].times = 1 /\ Rules[5].times = 1
    /\ Rules[1].unit = 1 /\ Rules[2].unit = 1000 /\ Rules[3].unit = 1000
    /\ Rules[4].unit = 1000 /\ Rules[5].unit = 1000
  BY DEF Rules

LEMMA UnitsFacts ==
    /\ DOMAIN Units = 1..5
    /\ Units[1].text = <<"s">> /\ Units[2].text = <<>> /\ Units[3].text = <<"m">>
    /\ Units[4].text = <<"h">> /\ Units[5].text = <<"m", "s">>
    /\ Units[1].ms = 1000 /\ Units[2].ms = 1000 /\ Units[3].ms = 60000
    /\ Units[4].ms = 3600000 /\ Units[5].ms = 1
  BY DEF Units

LEMMA UnitsAreRules ==
    /\ \A u \in 1..5 : RuleFor[u] \in 1..5 /\ Rules[RuleFor[u]].text = Units[u].text
    /\ \A j \in 1..5 : UnitFor[j] \in 1..5 /\ RuleFor[UnitFor[j]] = j
  <1>1. /\ RuleFor[1] = 4 /\ RuleFor[2] = 5 /\ RuleFor[3] = 3 /\ RuleFor[4] = 2 /\ RuleFor[5] = 1
        /\ UnitFor[1] = 5 /\ UnitFor[2] = 4 /\ UnitFor[3] = 3 /\ UnitFor[4] = 1 /\ UnitFor[5] = 2
    BY DEF RuleFor, UnitFor
  <1>2. \A u \in 1..5 : u = 1 \/ u = 2 \/ u = 3 \/ u = 4 \/ u = 5
    OBVIOUS
  <1>3. /\ Rules[4].text = Units[1].text /\ Rules[5].text = Units[2].text /\ Rules[3].text = Units[3].text
        /\ Rules[2].text = Units[4].text /\ Rules[1].text = Units[5].text
    BY RulesFacts, UnitsFacts
  <1>4. 1 \in 1..5 /\ 2 \in 1..5 /\ 3 \in 1..5 /\ 4 \in 1..5 /\ 5 \in 1..5
    OBVIOUS
  <1>5. QED
    BY <1>1, <1>2, <1>3, <1>4

\* The first rule whose text is a suffix is taken.
LEMMA RuleChoice ==
    ASSUME NEW s, NEW j \in 1..5, IsSuffix(Rules[j].text, s),
           \A i \in 1..(j - 1) : ~IsSuffix(Rules[i].text, s)
    PROVE  RuleAt(s) = j
  <1> DEFINE fit == {i \in DOMAIN Rules : IsSuffix(Rules[i].text, s)}
  <1>1. \A i \in fit : i \in 1..5 /\ i \notin 1..(j - 1)
    BY RulesFacts
  <1>2. j \in fit
    BY RulesFacts
  <1> HIDE DEF fit
  <1>3. \A i \in fit : i \in Nat /\ j <= i
    BY <1>1
  <1>4. \A m \in fit : (\A i \in fit : m <= i) => m = j
    BY <1>2, <1>3
  <1>5. Min(fit) = j
    BY <1>2, <1>3, <1>4 DEF Min
  <1>6. QED
    BY <1>5 DEF RuleAt, fit

\* Which suffixes decide.
LEMMA RuleSuffixes ==
    ASSUME NEW s \in Seq(Char), s # <<>>
    PROVE  /\ IsSuffix(Rules[1].text, s) <=> Len(s) >= 2 /\ s[Len(s) - 1] = "m" /\ s[Len(s)] = "s"
           /\ IsSuffix(Rules[2].text, s) <=> s[Len(s)] = "h"
           /\ IsSuffix(Rules[3].text, s) <=> s[Len(s)] = "m"
           /\ IsSuffix(Rules[4].text, s) <=> s[Len(s)] = "s"
           /\ IsSuffix(Rules[5].text, s)
  <1>1. "m" \in Char /\ "s" \in Char /\ "h" \in Char
    BY Letters
  <1>2. IsSuffix(<<"m", "s">>, s) <=> Len(s) >= 2 /\ s[Len(s) - 1] = "m" /\ s[Len(s)] = "s"
    BY <1>1, SuffixTwo
  <1>3. /\ IsSuffix(<<"h">>, s) <=> s[Len(s)] = "h"
        /\ IsSuffix(<<"m">>, s) <=> s[Len(s)] = "m"
        /\ IsSuffix(<<"s">>, s) <=> s[Len(s)] = "s"
    BY <1>1, SuffixOne
  <1>4. IsSuffix(<<>>, s)
    BY SuffixNone
  <1>5. QED
    BY <1>2, <1>3, <1>4, RulesFacts

LEMMA RuleOfText ==
    ASSUME NEW s \in Seq(Char), s # <<>>
    PROVE  /\ RuleAt(s) \in 1..5 /\ IsSuffix(Rules[RuleAt(s)].text, s)
           /\ (Len(s) >= 2 /\ s[Len(s) - 1] = "m" /\ s[Len(s)] = "s") => RuleAt(s) = 1
           /\ s[Len(s)] = "h" => RuleAt(s) = 2
           /\ s[Len(s)] = "m" => RuleAt(s) = 3
           /\ (s[Len(s)] = "s" /\ ~(Len(s) >= 2 /\ s[Len(s) - 1] = "m")) => RuleAt(s) = 4
           /\ s[Len(s)] \notin {"h", "m", "s"} => RuleAt(s) = 5
  <1> DEFINE Fits(i) == IsSuffix(Rules[i].text, s)
             ms == Len(s) >= 2 /\ s[Len(s) - 1] = "m"
             last == s[Len(s)]
  <1>1. /\ Fits(1) <=> ms /\ last = "s"
        /\ Fits(2) <=> last = "h"
        /\ Fits(3) <=> last = "m"
        /\ Fits(4) <=> last = "s"
        /\ Fits(5)
    BY RuleSuffixes
  <1>2. \A j \in 1..5 : Fits(j) /\ (\A i \in 1..(j - 1) : ~Fits(i)) => RuleAt(s) = j
    BY RuleChoice
  <1> HIDE DEF Fits, ms, last
  <1>3. /\ 1 \in 1..5 /\ 2 \in 1..5 /\ 3 \in 1..5 /\ 4 \in 1..5 /\ 5 \in 1..5
        /\ \A i \in 1..(1 - 1) : FALSE
        /\ \A i \in 1..(2 - 1) : i = 1
        /\ \A i \in 1..(3 - 1) : i = 1 \/ i = 2
        /\ \A i \in 1..(4 - 1) : i = 1 \/ i = 2 \/ i = 3
        /\ \A i \in 1..(5 - 1) : i = 1 \/ i = 2 \/ i = 3 \/ i = 4
    OBVIOUS
  <1>4. Fits(1) => RuleAt(s) = 1
    BY <1>2, <1>3
  <1>5. Fits(2) /\ ~Fits(1) => RuleAt(s) = 2
    BY <1>2, <1>3
  <1>6. Fits(3) /\ ~Fits(1) /\ ~Fits(2) => RuleAt(s) = 3
    BY <1>2, <1>3
  <1>7. Fits(4) /\ ~Fits(1) /\ ~Fits(2) /\ ~Fits(3) => RuleAt(s) = 4
    BY <1>2, <1>3
  <1>8. ~Fits(1) /\ ~Fits(2) /\ ~Fits(3) /\ ~Fits(4) => RuleAt(s) = 5
    BY <1>1, <1>2, <1>3
  <1>9. RuleAt(s) \in 1..5 /\ Fits(RuleAt(s))
    BY <1>1, <1>3, <1>4, <1>5, <1>6, <1>7, <1>8
  <1>10. /\ ms /\ last = "s" => RuleAt(s) = 1
         /\ last = "h" => RuleAt(s) = 2
         /\ last = "m" => RuleAt(s) = 3
         /\ last = "s" /\ ~ms => RuleAt(s) = 4
         /\ last \notin {"h", "m", "s"} => RuleAt(s) = 5
    BY <1>1, <1>4, <1>5, <1>6, <1>7, <1>8
  <1>11. QED
    BY <1>9, <1>10 DEF Fits, ms, last

\* A number ends with a digit, which is no unit's letter.
LEMMA NumberFacts ==
    ASSUME NEW p \in Seq(Char), IsU64(p)
    PROVE  /\ p # <<>> /\ Value(Numeral(p)) \in Nat /\ Value(Numeral(p)) < Word
           /\ p[Len(p)] \notin {"h", "m", "s"}
  <1> DEFINE q == Numeral(p)
  <1>1. q # <<>> /\ IsNumeral(q) /\ Value(q) < Word
    BY DEF IsU64, IsNumeral
  <1>2. p # <<>>
    BY <1>1 DEF Numeral
  <1>3. CASE q = p
    <2>1. p[Len(p)] = q[Len(q)] /\ Len(p) \in DOMAIN q
      BY <1>2, <1>3
    <2>2. QED
      BY <1>1, <1>2, <1>3, <2>1, ValueIsNat DEF IsNumeral, Digits
  <1>4. CASE q = Tail(p)
    <2>1. q \in Seq(Char) /\ Len(q) = Len(p) - 1 /\ \A i \in 1..Len(q) : q[i] = p[i + 1]
      BY <1>2, <1>4
    <2>2. Len(q) \in 1..Len(q) /\ Len(q) + 1 = Len(p) /\ DOMAIN q = 1..Len(q)
      BY <1>1, <1>2, <2>1
    <2> HIDE DEF q
    <2>3. q[Len(q)] = p[Len(p)] /\ Len(q) \in DOMAIN q
      BY <2>1, <2>2
    <2>4. \E d \in 1..10 : Digits[d] = p[Len(p)]
      BY <1>1, <2>3 DEF IsNumeral
    <2>5. \A d \in 1..10 : Digits[d] \notin {"h", "m", "s"}
      BY DEF Digits
    <2>6. QED
      BY <1>1, <1>2, <2>1, <2>4, <2>5, ValueIsNat DEF q
  <1>5. QED
    BY <1>3, <1>4 DEF Numeral

\* A unit's letters are no blanks.
LEMMA LettersAreSolid == ~IsBlank("h") /\ ~IsBlank("m") /\ ~IsBlank("s")
  BY Zenon DEF IsBlank

\* The cuts and the last characters of a part of t that is the unit u.
UnitShape(t, c, d, u) ==
    /\ d - c = Len(Units[u].text)
    /\ u = 2 => c = d
    /\ u # 2 => c < d /\ t[d] \in {"h", "m", "s"}
    /\ u \in {1, 3, 4} => c = d - 1
    /\ u = 5 => c = d - 2 /\ t[d - 1] = "m"
    /\ u \in {1, 5} <=> u # 2 /\ t[d] = "s"
    /\ u = 3 <=> u # 2 /\ t[d] = "m"
    /\ u = 4 <=> u # 2 /\ t[d] = "h"

LEMMA UnitText ==
    ASSUME NEW t \in Seq(Char), NEW c \in Nat, NEW d \in Nat, c <= d, d <= Len(t),
           NEW u \in 1..5, Part(t, c, d) = Units[u].text
    PROVE  UnitShape(t, c, d, u)
  <1> USE DEF UnitShape
  <1> DEFINE p == Part(t, c, d)
  <1>1. Len(t) \in Nat /\ c \in 0..Len(t) /\ d \in c..Len(t)
    OBVIOUS
  <1>2. Len(p) = d - c /\ \A i \in 1..(d - c) : p[i] = t[c + i]
    BY <1>1, PartFacts
  <1>3. p = Units[u].text
    OBVIOUS
  <1> HIDE DEF p
  <1>4. u = 1 \/ u = 2 \/ u = 3 \/ u = 4 \/ u = 5
    OBVIOUS
  <1>5. CASE u = 2
    <2>1. p = <<>>
      BY <1>3, <1>5, UnitsFacts
    <2>2. d - c = 0
      BY <1>2, <2>1
    <2>3. QED
      BY <1>2, <1>3, <1>5, <2>2
  <1>6. ASSUME NEW x, p = <<x>> PROVE d - c = 1 /\ c = d - 1 /\ t[d] = x
    <2>1. Len(p) = 1 /\ p[1] = x
      BY <1>6
    <2>2. d - c = 1
      BY <1>2, <2>1
    <2>4. c + 1 = d /\ 1 \in 1..(d - c) /\ c = d - 1
      BY <2>2
    <2>3. QED
      BY <1>2, <2>1, <2>2, <2>4
  <1>7. CASE u = 1
    <2>1. c = d - 1 /\ t[d] = "s" /\ c < d
      BY <1>3, <1>6, <1>7, UnitsFacts
    <2>2. QED
      BY <1>2, <1>3, <1>7, <2>1
  <1>8. CASE u = 3
    <2>1. c = d - 1 /\ t[d] = "m" /\ c < d
      BY <1>3, <1>6, <1>8, UnitsFacts
    <2>2. QED
      BY <1>2, <1>3, <1>8, <2>1
  <1>9. CASE u = 4
    <2>1. c = d - 1 /\ t[d] = "h" /\ c < d
      BY <1>3, <1>6, <1>9, UnitsFacts
    <2>2. QED
      BY <1>2, <1>3, <1>9, <2>1
  <1>10. CASE u = 5
    <2>1. p = <<"m", "s">>
      BY <1>3, <1>10, UnitsFacts
    <2>2. Len(p) = 2 /\ p[1] = "m" /\ p[2] = "s"
      BY <2>1
    <2>6. d - c = 2
      BY <1>2, <2>2
    <2>3. d - c = 2 /\ c + 1 = d - 1 /\ c + 2 = d /\ 1 \in 1..(d - c) /\ 2 \in 1..(d - c) /\ c = d - 2
      BY <2>6
    <2>4. t[d - 1] = "m" /\ t[d] = "s" /\ c < d
      BY <1>2, <2>2, <2>3
    <2>5. QED
      BY <1>2, <1>3, <1>10, <2>3, <2>4
  <1>11. QED
    BY <1>4, <1>5, <1>7, <1>8, <1>9, <1>10

\* What of a text is blank, and where the rest is.
Around(t, a, b) ==
    /\ Blank(Part(t, 0, a)) /\ Blank(Part(t, b, Len(t)))
    /\ ~IsBlank(t[a + 1]) /\ ~IsBlank(t[b])

LEMMA TrimWhole ==
    ASSUME NEW t \in Seq(Char), NEW a \in Nat, NEW b \in Nat, a < b, b <= Len(t), Around(t, a, b)
    PROVE  Trim(t) = Part(t, a, b)
  <1>1. Len(t) \in Nat /\ 0 \in Nat /\ 0 <= a /\ b <= Len(t) /\ Len(t) <= Len(t)
    OBVIOUS
  <1>2. Trim(Part(t, 0, Len(t))) = Part(t, a, b)
    BY <1>1, TrimPart DEF Around
  <1>3. Part(t, 0, Len(t)) = t
    <2> DEFINE p == Part(t, 0, Len(t))
    <2>5. 0 \in 0..Len(t) /\ Len(t) \in 0..Len(t)
      BY <1>1
    <2>1. p \in Seq(Char) /\ Len(p) = Len(t) - 0 /\ \A i \in 1..(Len(t) - 0) : p[i] = t[0 + i]
      BY <2>5, PartFacts
    <2>2. \A i \in 1..Len(t) : 0 + i = i /\ i \in 1..(Len(t) - 0)
      BY <1>1
    <2> HIDE DEF p
    <2>3. Len(p) = Len(t) /\ \A i \in 1..Len(p) : p[i] = t[i]
      BY <1>1, <2>1, <2>2
    <2>4. p = t
      BY <2>1, <2>3, SeqEqual
    <2>6. QED
      BY <2>4 DEF p
  <1>4. QED
    BY <1>2, <1>3

\* The number that is left when k characters are cut off a trimmed text.
LEMMA NumberOfPart ==
    ASSUME NEW t \in Seq(Char), NEW a \in Nat, NEW b \in Nat, NEW c \in Nat, NEW d \in Nat,
           a < b, b <= c, c <= d, d <= Len(t),
           Blank(Part(t, b, c)), ~IsBlank(t[a + 1]), ~IsBlank(t[b]),
           NEW k \in Nat, k = d - c
    PROVE  LET s == Part(t, a, d) IN Trim(SubSeq(s, 1, Len(s) - k)) = Part(t, a, b)
  <1> DEFINE s == Part(t, a, d)
  <1>1. Len(t) \in Nat /\ a \in 0..Len(t) /\ d \in a..Len(t) /\ c \in a..Len(t) /\ a \in a..Len(t)
    OBVIOUS
  <1>2. Len(s) = d - a
    BY <1>1, PartFacts
  <1>3. Len(s) - k = c - a /\ 0 + 1 = 1 /\ 0 \in 0..(d - a) /\ c - a \in 0..(d - a)
    BY <1>2
  <1>4. SubSeq(s, 1, Len(s) - k) = Part(s, 0, c - a)
    BY <1>3 DEF Part
  <1>5. Part(s, 0, c - a) = Part(t, a + 0, a + (c - a))
    BY <1>1, <1>3, PartOfPart
  <1>6. a + 0 = a /\ a + (c - a) = c
    OBVIOUS
  <1>7. Blank(Part(t, a, a))
    <2>1. \A i \in (a + 1)..a : FALSE
      OBVIOUS
    <2>2. QED
      BY <1>1, <2>1, BlankPart
  <1>8. a <= a /\ c <= Len(t)
    OBVIOUS
  <1>9. Trim(Part(t, a, c)) = Part(t, a, b)
    BY <1>7, <1>8, TrimPart
  <1>10. QED
    BY <1>4, <1>5, <1>6, <1>9

\* A reading of the documentation: the first blank prefix up to a, the number up
\* to b, blanks up to c, the unit u up to d, and blanks.
Reading(t, a, b, c, d, u) ==
    /\ a < b /\ b <= c /\ c <= d /\ d <= Len(t)
    /\ Blank(Part(t, 0, a)) /\ Blank(Part(t, b, c)) /\ Blank(Part(t, d, Len(t)))
    /\ ~IsBlank(t[a + 1]) /\ ~IsBlank(t[b])
    /\ IsU64(Part(t, a, b))
    /\ Part(t, c, d) = Units[u].text

\* Whatever is a reading, the code takes the unit's rule and the same number.
LEMMA ReadingIsParsed ==
    ASSUME NEW t \in Seq(Char), NEW a \in Nat, NEW b \in Nat, NEW c \in Nat, NEW d \in Nat,
           NEW u \in 1..5, Reading(t, a, b, c, d, u)
    PROVE  /\ Trim(t) # <<>> /\ RuleAt(Trim(t)) = RuleFor[u]
           /\ NumberText(Trim(t)) = Part(t, a, b)
  <1>1. /\ a < b /\ b <= c /\ c <= d /\ d <= Len(t)
        /\ Blank(Part(t, 0, a)) /\ Blank(Part(t, b, c)) /\ Blank(Part(t, d, Len(t)))
        /\ ~IsBlank(t[a + 1]) /\ ~IsBlank(t[b])
        /\ IsU64(Part(t, a, b)) /\ Part(t, c, d) = Units[u].text
    BY DEF Reading
  <1>2. /\ Len(t) \in Nat /\ a < d /\ b <= Len(t) /\ c <= Len(t)
        /\ a \in 0..Len(t) /\ b \in a..Len(t) /\ d \in a..Len(t)
        /\ b \in 0..Len(t) /\ c \in b..Len(t) /\ d \in 0..Len(t) /\ Len(t) \in d..Len(t)
        /\ b \in 0..Len(t) /\ Len(t) \in b..Len(t)
    BY <1>1
  <1>3. /\ d - c = Len(Units[u].text)
        /\ u = 2 => c = d
        /\ u # 2 => c < d /\ t[d] \in {"h", "m", "s"}
        /\ u \in {1, 3, 4} => c = d - 1
        /\ u = 5 => c = d - 2 /\ t[d - 1] = "m"
        /\ u \in {1, 5} <=> u # 2 /\ t[d] = "s"
        /\ u = 3 <=> u # 2 /\ t[d] = "m"
        /\ u = 4 <=> u # 2 /\ t[d] = "h"
    <2>1. c <= d /\ d <= Len(t) /\ Part(t, c, d) = Units[u].text
      BY <1>1
    <2>2. UnitShape(t, c, d, u)
      BY <2>1, UnitText
    <2>3. QED
      BY <2>2 DEF UnitShape
  <1>4. t[b] \notin {"h", "m", "s"}
    <2> DEFINE p == Part(t, a, b)
    <2>1. p \in Seq(Char) /\ Len(p) = b - a /\ \A i \in 1..(b - a) : p[i] = t[a + i]
      BY <1>2, PartFacts
    <2>2. b - a \in 1..(b - a) /\ a + (b - a) = b
      BY <1>1
    <2>3. p[Len(p)] \notin {"h", "m", "s"}
      BY <1>1, <2>1, NumberFacts
    <2> HIDE DEF p
    <2>4. p[Len(p)] = t[b]
      BY <2>1, <2>2
    <2>5. QED
      BY <2>3, <2>4
  <1>5. CASE u = 2
    <2> DEFINE s == Part(t, a, b)
    <2>1. c = d
      BY <1>3, <1>5
    <2>2. Blank(Part(t, b, Len(t)))
      <3>1. \A i \in (b + 1)..c : IsBlank(t[i])
        BY <1>1, <1>2, BlankPart
      <3>2. \A i \in (d + 1)..Len(t) : IsBlank(t[i])
        BY <1>1, <1>2, BlankPart
      <3>3. \A i \in (b + 1)..Len(t) : i \in (b + 1)..c \/ i \in (d + 1)..Len(t)
        BY <1>1, <1>2, <2>1
      <3>4. QED
        BY <1>2, <3>1, <3>2, <3>3, BlankPart
    <2>3. Trim(t) = s
      BY <1>1, <1>2, <2>2, TrimWhole DEF Around
    <2>4. s \in Seq(Char) /\ Len(s) = b - a /\ \A i \in 1..(b - a) : s[i] = t[a + i]
      BY <1>2, PartFacts
    <2>5. b - a \in 1..(b - a) /\ a + (b - a) = b
      BY <1>1
    <2>6. s # <<>> /\ s[Len(s)] = t[b]
      <3> HIDE DEF s
      <3>1. QED
        BY <2>4, <2>5
    <2>7. RuleAt(s) = 5
      <3> HIDE DEF s
      <3>1. QED
        BY <1>4, <2>4, <2>6, RuleOfText
    <2>8. Len(Rules[5].text) = b - b /\ b <= b
      BY RulesFacts
    <2>9. Blank(Part(t, b, b))
      <3>1. \A i \in (b + 1)..b : FALSE
        OBVIOUS
      <3>2. b \in b..Len(t)
        BY <1>2
      <3>3. QED
        BY <1>2, <3>1, <3>2, BlankPart
    <2>10. 0 \in Nat /\ 0 = b - b
      OBVIOUS
    <2>11. Trim(SubSeq(s, 1, Len(s) - 0)) = Part(t, a, b)
      BY <1>1, <1>2, <2>8, <2>9, <2>10, NumberOfPart
    <2>12. NumberText(s) = Part(t, a, b)
      BY <2>7, <2>11, RulesFacts DEF NumberText
    <2>13. RuleFor[u] = 5
      BY <1>5 DEF RuleFor
    <2>14. QED
      BY <2>3, <2>6, <2>7, <2>12, <2>13
  <1>6. CASE u # 2
    <2> DEFINE s == Part(t, a, d)
    <2>1. ~IsBlank(t[d])
      BY <1>3, <1>6, LettersAreSolid
    <2>2. Trim(t) = s
      BY <1>1, <1>2, <2>1, TrimWhole DEF Around
    <2>3. s \in Seq(Char) /\ Len(s) = d - a /\ \A i \in 1..(d - a) : s[i] = t[a + i]
      BY <1>2, PartFacts
    <2>4. d - a \in 1..(d - a) /\ a + (d - a) = d
      BY <1>2
    <2> HIDE DEF s
    <2>5. s # <<>> /\ s[Len(s)] = t[d]
      BY <2>3, <2>4
    <2>6. Len(s) >= 2 => s[Len(s) - 1] = t[d - 1]
      <3> SUFFICES ASSUME d - a >= 2 PROVE s[d - a - 1] = t[d - 1]
        BY <2>3
      <3>1. d - a - 1 \in 1..(d - a) /\ a + (d - a - 1) = d - 1
        OBVIOUS
      <3>2. QED
        BY <2>3, <3>1
    <2>7. u = 1 => t[d - 1] # "m"
      <3> SUFFICES ASSUME u = 1 PROVE t[d - 1] # "m"
        OBVIOUS
      <3>1. c = d - 1
        BY <1>3
      <3>2. CASE b = c
        BY <1>4, <3>1, <3>2
      <3>3. CASE b < c
        <4>1. c \in (b + 1)..c
          BY <3>3
        <4>2. IsBlank(t[c])
          BY <1>1, <1>2, <4>1, BlankPart
        <4>3. QED
          BY <3>1, <4>2, LettersAreSolid
      <3>4. QED
        BY <1>1, <3>2, <3>3
    <2>8. u = 5 => Len(s) >= 2
      BY <1>1, <1>3, <2>3
    <2>9. RuleAt(s) = RuleFor[u]
      <3>1. /\ (Len(s) >= 2 /\ s[Len(s) - 1] = "m" /\ s[Len(s)] = "s") => RuleAt(s) = 1
            /\ s[Len(s)] = "h" => RuleAt(s) = 2
            /\ s[Len(s)] = "m" => RuleAt(s) = 3
            /\ (s[Len(s)] = "s" /\ ~(Len(s) >= 2 /\ s[Len(s) - 1] = "m")) => RuleAt(s) = 4
        BY <2>3, <2>5, RuleOfText
      <3>2. RuleFor[1] = 4 /\ RuleFor[3] = 3 /\ RuleFor[4] = 2 /\ RuleFor[5] = 1
        BY DEF RuleFor
      <3>3. u = 1 \/ u = 3 \/ u = 4 \/ u = 5
        BY <1>6
      <3>4. CASE u = 1
        BY <1>3, <2>5, <2>6, <2>7, <3>1, <3>2, <3>4
      <3>5. CASE u = 3
        BY <1>3, <2>5, <3>1, <3>2, <3>5
      <3>6. CASE u = 4
        BY <1>3, <2>5, <3>1, <3>2, <3>6
      <3>7. CASE u = 5
        BY <1>3, <2>5, <2>6, <2>8, <3>1, <3>2, <3>7
      <3>8. QED
        BY <3>3, <3>4, <3>5, <3>6, <3>7
    <2>10. Len(Rules[RuleAt(s)].text) = d - c /\ d - c \in Nat
      <3>1. Rules[RuleAt(s)].text = Units[u].text
        BY <2>9, UnitsAreRules
      <3>2. Len(Units[u].text) = d - c
        BY <1>3
      <3>3. d - c \in Nat
        BY <1>1
      <3>4. QED
        BY <3>1, <3>2, <3>3
    <2>11. Trim(SubSeq(s, 1, Len(s) - (d - c))) = Part(t, a, b)
      BY <1>1, <2>10, NumberOfPart DEF s
    <2>12. NumberText(s) = Part(t, a, b)
      BY <2>10, <2>11 DEF NumberText
    <2>13. QED
      BY <2>2, <2>5, <2>9, <2>12
  <1>7. QED
    BY <1>5, <1>6

\* Every text is blank or has a first and a last character that are not.
LEMMA AroundCases ==
    ASSUME NEW t \in Seq(Char)
    PROVE  \/ Trim(t) = <<>>
           \/ \E a, b \in 0..Len(t) : a < b /\ Around(t, a, b) /\ Trim(t) = Part(t, a, b)
  <1>1. Len(t) \in Nat
    OBVIOUS
  <1>2. CASE \E a, b \in 1..Len(t) : Spans(t, a, b)
    <2>1. PICK a \in 1..Len(t), b \in 1..Len(t) : Spans(t, a, b)
      BY <1>2
    <2>2. /\ a - 1 \in Nat /\ b \in Nat /\ a - 1 < b /\ b <= Len(t)
          /\ a - 1 \in 0..Len(t) /\ b \in 0..Len(t) /\ a - 1 + 1 = a
          /\ 0 + 1 = 1 /\ 0 \in 0..Len(t) /\ a - 1 \in 0..Len(t) /\ Len(t) \in b..Len(t)
      <3>1. b \in a..Len(t)
        BY <2>1 DEF Spans
      <3>2. QED
        BY <1>1, <3>1
    <2>3. Blank(Part(t, 0, a - 1))
      <3>1. Blank(Part(t, 0, a - 1)) <=> \A i \in (0 + 1)..(a - 1) : IsBlank(t[i])
        BY <2>2, BlankPart
      <3>2. QED
        BY <2>1, <2>2, <3>1 DEF Spans
    <2>4. Blank(Part(t, b, Len(t)))
      <3>1. Blank(Part(t, b, Len(t))) <=> \A i \in (b + 1)..Len(t) : IsBlank(t[i])
        BY <2>2, BlankPart
      <3>2. QED
        BY <2>1, <3>1 DEF Spans
    <2>5. Around(t, a - 1, b)
      BY <2>1, <2>2, <2>3, <2>4 DEF Around, Spans
    <2>6. Trim(t) = Part(t, a - 1, b)
      BY <2>2, <2>5, TrimWhole
    <2>7. QED
      BY <2>2, <2>5, <2>6
  <1>3. QED
    BY <1>2, TrimCases

\* Whatever number the code finds, the text is a reading of it with the unit of
\* the rule.
LEMMA ParsedIsReading ==
    ASSUME NEW t \in Seq(Char), Trim(t) # <<>>, IsU64(NumberText(Trim(t)))
    PROVE  \E a, b, c, d \in 0..Len(t) :
              /\ Reading(t, a, b, c, d, UnitFor[RuleAt(Trim(t))])
              /\ Part(t, a, b) = NumberText(Trim(t))
  <1> DEFINE s == Trim(t)
             j == RuleAt(s)
             k == Len(Rules[j].text)
  <1>1. PICK a \in 0..Len(t), d \in 0..Len(t) : a < d /\ Around(t, a, d) /\ s = Part(t, a, d)
    BY AroundCases
  <1>2. /\ Len(t) \in Nat /\ a \in Nat /\ d \in Nat /\ a < d /\ d <= Len(t) /\ d \in a..Len(t)
        /\ Len(t) \in d..Len(t)
    BY <1>1
  <1>3. s \in Seq(Char) /\ Len(s) = d - a /\ \A i \in 1..(d - a) : s[i] = t[a + i]
    <2> DEFINE q == Part(t, a, d)
    <2>1. q \in Seq(Char) /\ Len(q) = d - a /\ \A i \in 1..(d - a) : q[i] = t[a + i]
      BY <1>2, PartFacts
    <2>2. s = q
      BY <1>1
    <2> HIDE DEF q, s
    <2>3. QED
      BY <2>1, <2>2
  <1>4. s # <<>>
    OBVIOUS
  <1>5. j \in 1..5 /\ IsSuffix(Rules[j].text, s)
    <2> HIDE DEF s
    <2>1. QED
      BY <1>3, <1>4, RuleOfText
  <1>6. Rules[j].text \in Seq(Char)
    <2>1. /\ <<"h">> \in Seq(Char) /\ <<"m">> \in Seq(Char) /\ <<"s">> \in Seq(Char)
          /\ <<"m", "s">> \in Seq(Char) /\ <<>> \in Seq(Char)
      BY Letters, ShortSeqs
    <2>2. j = 1 \/ j = 2 \/ j = 3 \/ j = 4 \/ j = 5
      BY <1>5
    <2> HIDE DEF j
    <2>3. CASE j = 1
      BY <2>1, <2>3, RulesFacts
    <2>4. CASE j = 2
      BY <2>1, <2>4, RulesFacts
    <2>5. CASE j = 3
      BY <2>1, <2>5, RulesFacts
    <2>6. CASE j = 4
      BY <2>1, <2>6, RulesFacts
    <2>7. CASE j = 5
      BY <2>1, <2>7, RulesFacts
    <2>8. QED
      BY <2>2, <2>3, <2>4, <2>5, <2>6, <2>7
  <1> HIDE DEF s, j
  <1>7. k \in Nat /\ k <= Len(s) /\ \A i \in 1..k : Rules[j].text[(k - i) + 1] = s[(Len(s) - i) + 1]
    <2> DEFINE u == Rules[j].text
    <2> HIDE DEF u
    <2>1. u \in Seq(Char)
      BY <1>6 DEF u
    <2>2. IsSuffix(u, s)
      BY <1>5 DEF u
    <2>3. Len(u) \in Nat
      BY <2>1
    <2>4. Len(u) <= Len(s) /\ \A i \in 1..Len(u) : u[(Len(u) - i) + 1] = s[(Len(s) - i) + 1]
      BY <1>3, <2>1, <2>2, SuffixIs
    <2>5. QED
      BY <2>3, <2>4 DEF u
  <1> DEFINE e == d - k
  <1>8. e \in Nat /\ a <= e /\ e <= d /\ d - e = k /\ e - a = Len(s) - k
        /\ e \in a..Len(t) /\ d \in e..Len(t) /\ e \in 0..Len(t)
    BY <1>2, <1>3, <1>7
  <1>9. Part(t, e, d) = Rules[j].text
    <2> DEFINE p == Part(t, e, d)
               u == Rules[j].text
    <2>0. p \in Seq(Char) /\ Len(p) = d - e /\ \A i \in 1..(d - e) : p[i] = t[e + i]
      <3> HIDE DEF e
      <3>1. QED
        BY <1>8, PartFacts
    <2>1. p \in Seq(Char) /\ Len(p) = k /\ \A i \in 1..k : p[i] = t[e + i]
      <3> HIDE DEF p, k, e
      <3>1. QED
        BY <1>8, <2>0
    <2>2. ASSUME NEW i \in 1..k PROVE t[e + i] = u[i]
      <3>1. (k - i) + 1 \in 1..k /\ k - ((k - i) + 1) + 1 = i
        BY <1>7
      <3>2. u[i] = s[(Len(s) - ((k - i) + 1)) + 1]
        BY <1>7, <3>1
      <3>3. (Len(s) - ((k - i) + 1)) + 1 = (e - a) + i
        <4> HIDE DEF k, e
        <4>1. Len(s) = (e - a) + k /\ k \in Nat /\ e - a \in Int
          BY <1>2, <1>3, <1>7, <1>8
        <4>2. QED
          BY <4>1
      <3>4. (e - a) + i \in 1..(d - a) /\ a + ((e - a) + i) = e + i
        <4> HIDE DEF k, e
        <4>1. /\ a \in Nat /\ d \in Nat /\ e \in Nat /\ k \in Nat /\ i \in Nat
              /\ a <= e /\ d - e = k /\ 1 <= i /\ i <= k
          BY <1>2, <1>7, <1>8
        <4>2. QED
          BY <4>1
      <3>5. QED
        BY <1>3, <3>2, <3>3, <3>4
    <2> HIDE DEF p
    <2>3. \A i \in 1..Len(p) : p[i] = u[i]
      BY <2>1, <2>2
    <2>4. p = u
      BY <1>6, <2>1, <2>3, SeqEqual
    <2>5. QED
      BY <2>4 DEF p
  <1> HIDE DEF k, e
  <1>10. NumberText(s) = Trim(Part(t, a, e))
    <2>1. NumberText(s) = Trim(SubSeq(s, 1, Len(s) - k))
      BY DEF NumberText, j, k
    <2>2. SubSeq(s, 1, Len(s) - k) = Part(s, 0, e - a)
      BY <1>8 DEF Part
    <2>3. 0 \in 0..(d - a) /\ e - a \in 0..(d - a) /\ a + 0 = a /\ a + (e - a) = e
      BY <1>2, <1>8
    <2>4. Part(s, 0, e - a) = Part(t, a + 0, a + (e - a))
      BY <1>1, <1>2, <2>3, PartOfPart
    <2>5. QED
      BY <2>1, <2>2, <2>3, <2>4
  <1> DEFINE q == Part(t, a, e)
  <1>11. q \in Seq(Char) /\ Len(q) = e - a /\ \A i \in 1..(e - a) : q[i] = t[a + i]
    BY <1>8, PartFacts
  <1>12. Trim(q) # <<>>
    <2>1. IsU64(Trim(q))
      BY <1>10 DEF s
    <2>2. Trim(q) = <<>> => Numeral(Trim(q)) = <<>>
      BY DEF Numeral
    <2>3. QED
      BY <2>1, <2>2 DEF IsU64
  <1>13. PICK x \in 0..Len(q), y \in 0..Len(q) : x < y /\ Around(q, x, y) /\ Trim(q) = Part(q, x, y)
    <2> HIDE DEF q
    <2>1. QED
      BY <1>11, <1>12, AroundCases
  <1>14. x \in Nat /\ y \in Nat /\ x < y /\ y <= e - a /\ y \in x..(e - a) /\ x \in 0..(e - a)
         /\ Len(q) \in Nat /\ x \in 0..Len(q) /\ 0 \in 0..Len(q) /\ y \in 0..Len(q) /\ Len(q) \in y..Len(q)
    BY <1>8, <1>11, <1>13
  <1>15. x = 0
    <2> SUFFICES ASSUME x # 0 PROVE FALSE
      OBVIOUS
    <2>1. 1 \in (0 + 1)..x /\ 1 \in 1..(e - a)
      <3>1. x >= 1
        BY <1>14
      <3>2. e - a \in Nat /\ e - a >= 1
        BY <1>8, <1>2, <1>14, <3>1
      <3>3. QED
        BY <1>14, <3>1, <3>2
    <2>2. Blank(Part(q, 0, x)) <=> \A i \in (0 + 1)..x : IsBlank(q[i])
      <3> HIDE DEF q
      <3>1. QED
        BY <1>11, <1>14, BlankPart
    <2>3. IsBlank(q[1])
      BY <1>13, <2>1, <2>2 DEF Around
    <2>4. q[1] = t[a + 1]
      BY <1>11, <2>1
    <2>5. QED
      BY <1>1, <2>3, <2>4 DEF Around
  <1> DEFINE b == a + y
  <1>16. /\ b \in Nat /\ a < b /\ b <= e /\ b \in 0..Len(t) /\ e \in b..Len(t) /\ y \in 1..(e - a)
    BY <1>2, <1>8, <1>14, <1>15
  <1>17. Part(q, x, y) = Part(t, a, b)
    <2>1. a + x = a
      BY <1>2, <1>15
    <2>2. Part(Part(t, a, e), x, y) = Part(t, a + x, a + y)
      BY <1>8, <1>14, PartOfPart
    <2>3. QED
      BY <2>1, <2>2
  <1>18. ~IsBlank(t[b])
    <2>1. q[y] = t[b]
      BY <1>11, <1>16
    <2>2. QED
      BY <1>13, <2>1 DEF Around
  <1>19. Blank(Part(t, b, e))
    <2>1. Blank(Part(q, y, Len(q))) <=> \A i \in (y + 1)..Len(q) : IsBlank(q[i])
      <3> HIDE DEF q
      <3>1. QED
        BY <1>11, <1>14, BlankPart
    <2>2. \A i \in (y + 1)..Len(q) : IsBlank(q[i])
      BY <1>13, <2>1 DEF Around
    <2>3. ASSUME NEW i \in (b + 1)..e PROVE IsBlank(t[i])
      <3>1. i - a \in (y + 1)..Len(q) /\ i - a \in 1..(e - a) /\ a + (i - a) = i
        BY <1>2, <1>8, <1>11, <1>14, <1>16
      <3>2. q[i - a] = t[i]
        BY <1>11, <3>1
      <3>3. QED
        BY <2>2, <3>1, <3>2
    <2>4. QED
      BY <1>16, <2>3, BlankPart
  <1>20. Part(t, e, d) = Units[UnitFor[j]].text
    BY <1>5, <1>9, UnitsAreRules
  <1>21. IsU64(Part(t, a, b)) /\ Part(t, a, b) = NumberText(s)
    BY <1>10, <1>13, <1>17 DEF s
  <1> HIDE DEF b, q
  <1>22. Reading(t, a, b, e, d, UnitFor[j])
    <2>1. a < b /\ b <= e /\ e <= d /\ d <= Len(t)
      BY <1>2, <1>8, <1>16
    <2>2. Blank(Part(t, 0, a)) /\ Blank(Part(t, d, Len(t))) /\ ~IsBlank(t[a + 1])
      BY <1>1 DEF Around
    <2>3. QED
      BY <1>18, <1>19, <1>20, <1>21, <2>1, <2>2 DEF Reading
  <1>23. b \in 0..Len(t) /\ e \in 0..Len(t)
    BY <1>8, <1>16
  <1>24. QED
    BY <1>1, <1>21, <1>22, <1>23 DEF s, j


\* The readings of a text, as cuts and a unit.
LEMMA ReadingsOf ==
    ASSUME NEW t \in Seq(Char), NEW r
    PROVE  r \in DurationReadings(t) <=>
              \E a, b, c, d \in 0..Len(t), u \in 1..5 :
                 /\ Reading(t, a, b, c, d, u)
                 /\ r = <<Value(Numeral(Part(t, a, b))), Units[u].ms>>
  <1> DEFINE cut == 0..Len(t)
             V(a, b) == Value(Numeral(Part(t, a, b)))
             Cuts == cut \X cut \X cut \X cut \X DOMAIN Units
  <1>1. DOMAIN Units = 1..5
    BY UnitsFacts
  <1>2. \A x \in Cuts : ReadsAt(t, x) <=> Reading(t, x[1], x[2], x[3], x[4], x[5])
    <2>1. \A x \in Cuts : x[4] <= Len(t)
      OBVIOUS
    <2>2. QED
      BY <2>1 DEF ReadsAt, Reading
  <1>3. r \in DurationReadings(t) <=>
           \E x \in Cuts : ReadsAt(t, x) /\ r = <<V(x[1], x[2]), Units[x[5]].ms>>
    BY DEF DurationReadings
  <1> HIDE DEF V
  <1>4. ASSUME NEW x \in Cuts, ReadsAt(t, x), r = <<V(x[1], x[2]), Units[x[5]].ms>>
        PROVE  \E a, b, c, d \in cut, u \in 1..5 :
                  Reading(t, a, b, c, d, u) /\ r = <<V(a, b), Units[u].ms>>
    <2>1. x[1] \in cut /\ x[2] \in cut /\ x[3] \in cut /\ x[4] \in cut /\ x[5] \in 1..5
      BY <1>1
    <2>2. Reading(t, x[1], x[2], x[3], x[4], x[5])
      BY <1>2, <1>4
    <2> HIDE DEF Cuts
    <2>3. QED
      BY <1>4, <2>1, <2>2
  <1>5. ASSUME NEW a \in cut, NEW b \in cut, NEW c \in cut, NEW d \in cut, NEW u \in 1..5,
               Reading(t, a, b, c, d, u), r = <<V(a, b), Units[u].ms>>
        PROVE  \E x \in Cuts : ReadsAt(t, x) /\ r = <<V(x[1], x[2]), Units[x[5]].ms>>
    <2> DEFINE x == <<a, b, c, d, u>>
    <2>1. x \in Cuts
      BY <1>1
    <2>2. x[1] = a /\ x[2] = b /\ x[3] = c /\ x[4] = d /\ x[5] = u
      OBVIOUS
    <2> HIDE DEF x, Cuts
    <2>3. ReadsAt(t, x)
      BY <1>2, <1>5, <2>1, <2>2
    <2>4. QED
      BY <1>5, <2>1, <2>2, <2>3
  <1>6. QED
    <2> HIDE DEF Cuts
    <2>1. (\E x \in Cuts : ReadsAt(t, x) /\ r = <<V(x[1], x[2]), Units[x[5]].ms>>)
          <=> \E a, b, c, d \in cut, u \in 1..5 :
                 Reading(t, a, b, c, d, u) /\ r = <<V(a, b), Units[u].ms>>
      BY <1>4, <1>5
    <2>2. QED
      BY <1>3, <2>1 DEF V

\* x milliseconds are k times what m says, a whole number of seconds unless k is 1.
SameTime(x, k, m) ==
    /\ k \in Nat \ {0} /\ m \in 1..1000 /\ x \in Nat /\ x = k * m
    /\ x > 1000 => x \div 1000 = k /\ m = 1000
    /\ ~(x > 1000) => k = 1

\* The milliseconds of a unit are those of its rule: the factor of the product
\* times those the product is counted in.
LEMMA MillisecondsOfRule ==
    ASSUME NEW u \in 1..5
    PROVE  SameTime(Units[u].ms, Rules[RuleFor[u]].times, Rules[RuleFor[u]].unit)
  <1>1. /\ RuleFor[1] = 4 /\ RuleFor[2] = 5 /\ RuleFor[3] = 3 /\ RuleFor[4] = 2 /\ RuleFor[5] = 1
    BY DEF RuleFor
  <1>2. u = 1 \/ u = 2 \/ u = 3 \/ u = 4 \/ u = 5
    OBVIOUS
  <1>3. CASE u = 1
    <2>1. Rules[4].times = 1 /\ Rules[4].unit = 1000 /\ Units[1].ms = 1000
      BY RulesFacts, UnitsFacts
    <2>2. Rules[RuleFor[u]].times = 1 /\ Rules[RuleFor[u]].unit = 1000 /\ Units[u].ms = 1000
      BY <1>1, <1>3, <2>1
    <2>3. SameTime(1000, 1, 1000)
      BY DEF SameTime
    <2>4. QED
      BY <2>2, <2>3
  <1>4. CASE u = 2
    <2>1. Rules[5].times = 1 /\ Rules[5].unit = 1000 /\ Units[2].ms = 1000
      BY RulesFacts, UnitsFacts
    <2>2. Rules[RuleFor[u]].times = 1 /\ Rules[RuleFor[u]].unit = 1000 /\ Units[u].ms = 1000
      BY <1>1, <1>4, <2>1
    <2>3. SameTime(1000, 1, 1000)
      BY DEF SameTime
    <2>4. QED
      BY <2>2, <2>3
  <1>5. CASE u = 3
    <2>1. Rules[3].times = 60 /\ Rules[3].unit = 1000 /\ Units[3].ms = 60000
      BY RulesFacts, UnitsFacts
    <2>2. Rules[RuleFor[u]].times = 60 /\ Rules[RuleFor[u]].unit = 1000 /\ Units[u].ms = 60000
      BY <1>1, <1>5, <2>1
    <2>3. SameTime(60000, 60, 1000)
      BY DEF SameTime
    <2>4. QED
      BY <2>2, <2>3
  <1>6. CASE u = 4
    <2>1. Rules[2].times = 3600 /\ Rules[2].unit = 1000 /\ Units[4].ms = 3600000
      BY RulesFacts, UnitsFacts
    <2>2. Rules[RuleFor[u]].times = 3600 /\ Rules[RuleFor[u]].unit = 1000 /\ Units[u].ms = 3600000
      BY <1>1, <1>6, <2>1
    <2>3. SameTime(3600000, 3600, 1000)
      BY DEF SameTime
    <2>4. QED
      BY <2>2, <2>3
  <1>7. CASE u = 5
    <2>1. Rules[1].times = 1 /\ Rules[1].unit = 1 /\ Units[5].ms = 1
      BY RulesFacts, UnitsFacts
    <2>2. Rules[RuleFor[u]].times = 1 /\ Rules[RuleFor[u]].unit = 1 /\ Units[u].ms = 1
      BY <1>1, <1>7, <2>1
    <2>3. SameTime(1, 1, 1)
      BY DEF SameTime
    <2>4. QED
      BY <2>2, <2>3
  <1>8. QED
    BY <1>2, <1>3, <1>4, <1>5, <1>6, <1>7

\* What parse_duration puts out, in the terms of these lemmas.
LEMMA ParsedBy ==
    ASSUME NEW t, NEW checked,
           NEW n, n = Value(Numeral(NumberText(Trim(t)))),
           NEW k, k = Rules[RuleAt(Trim(t))].times,
           NEW m, m = Rules[RuleAt(Trim(t))].unit
    PROVE  /\ Trim(t) = <<>> \/ ~IsU64(NumberText(Trim(t))) =>
                 parse_duration(t, checked).is = "err"
           /\ Trim(t) # <<>> /\ IsU64(NumberText(Trim(t))) =>
                 parse_duration(t, checked) =
                    IF checked /\ n * k >= Word THEN [is |-> "panic"]
                    ELSE [is |-> "ok", ms |-> ((n * k) % Word) * m]
  <1> DEFINE s == Trim(t)
             total == Product(n, k, checked)
  <1>1. parse_duration(t, checked) =
           IF s = <<>> \/ ~IsU64(NumberText(s)) THEN [is |-> "err"]
           ELSE IF total.is = "panic" THEN total
           ELSE [is |-> "ok", ms |-> total.n * m]
    BY DEF parse_duration, NumberText, RuleAt
  <1>2. total = IF checked /\ n * k >= Word THEN [is |-> "panic"] ELSE [is |-> "ok", n |-> (n * k) % Word]
    BY DEF Product
  <1> HIDE DEF s, total
  <1>3. QED
    <2>1. CASE checked /\ n * k >= Word
      BY <1>1, <1>2, <2>1 DEF s
    <2>2. CASE ~(checked /\ n * k >= Word)
      <3>1. total.is = "ok" /\ total.n = (n * k) % Word
        BY <1>2, <2>2
      <3>2. QED
        BY <1>1, <2>2, <3>1 DEF s
    <2>3. QED
      BY <2>1, <2>2

\* A number below Word is its own remainder.
LEMMA SmallRemainder ==
    ASSUME NEW n \in Nat, n < Word
    PROVE  n % Word = n
  BY TextsAssumption

\* What DurationExact asks of the output for one text.
Exact(t, out) ==
    LET readings == DurationReadings(t) IN
    IF readings = {} THEN out.is = "err"
    ELSE \A r \in readings : TooLong(r) \/ out = [is |-> "ok", ms |-> r[1] * r[2]]

LEMMA ParseIsExact ==
    ASSUME NEW t \in Seq(Char), NEW checked \in BOOLEAN
    PROVE  Exact(t, parse_duration(t, checked))
  <1> DEFINE out == parse_duration(t, checked)
             p == NumberText(Trim(t))
  <1>1. CASE DurationReadings(t) = {}
    <2>1. Trim(t) = <<>> \/ ~IsU64(p)
      <3> SUFFICES ASSUME Trim(t) # <<>>, IsU64(p) PROVE FALSE
        OBVIOUS
      <3>1. PICK a, b, c, d \in 0..Len(t) : Reading(t, a, b, c, d, UnitFor[RuleAt(Trim(t))])
        BY ParsedIsReading
      <3>2. UnitFor[RuleAt(Trim(t))] \in 1..5
        <4>1. PICK x \in 0..Len(t), y \in 0..Len(t) : x < y /\ Trim(t) = Part(t, x, y)
          BY AroundCases
        <4>2. y \in x..Len(t)
          BY <4>1
        <4>3. Trim(t) \in Seq(Char)
          BY <4>1, <4>2, PartFacts
        <4> DEFINE s == Trim(t)
        <4> HIDE DEF s
        <4>4. s \in Seq(Char) /\ s # <<>>
          BY <4>3 DEF s
        <4>5. RuleAt(s) \in 1..5
          BY <4>4, RuleOfText
        <4>6. QED
          BY <4>5, UnitsAreRules DEF s
      <3>3. <<Value(Numeral(Part(t, a, b))), Units[UnitFor[RuleAt(Trim(t))]].ms>> \in DurationReadings(t)
        BY <3>1, <3>2, ReadingsOf
      <3>4. QED
        BY <1>1, <3>3
    <2>2. out.is = "err"
      BY <2>1, ParsedBy
    <2>3. QED
      BY <1>1, <2>2 DEF Exact
  <1>2. CASE DurationReadings(t) # {}
    <2>1. ASSUME NEW r \in DurationReadings(t)
          PROVE  TooLong(r) \/ out = [is |-> "ok", ms |-> r[1] * r[2]]
      <3>1. PICK a, b, c, d \in 0..Len(t), u \in 1..5 :
               Reading(t, a, b, c, d, u) /\ r = <<Value(Numeral(Part(t, a, b))), Units[u].ms>>
        BY ReadingsOf
      <3>2. Trim(t) # <<>> /\ RuleAt(Trim(t)) = RuleFor[u] /\ p = Part(t, a, b)
        BY <3>1, ReadingIsParsed, SMTT(30)
      <3> DEFINE n == Value(Numeral(p))
                 k == Rules[RuleAt(Trim(t))].times
                 m == Rules[RuleAt(Trim(t))].unit
      <3>3. IsU64(p) /\ p \in Seq(Char)
        BY <3>1, <3>2, PartFacts DEF Reading
      <3>4. n \in Nat /\ n < Word
        BY <3>3, NumberFacts
      <3>5. r[1] = n /\ r[2] = Units[u].ms
        BY <3>1, <3>2
      <3>6. /\ k \in Nat \ {0} /\ m \in 1..1000 /\ r[2] \in Nat /\ r[2] = k * m
            /\ r[2] > 1000 => r[2] \div 1000 = k /\ m = 1000
            /\ ~(r[2] > 1000) => k = 1
        <4>1. k = Rules[RuleFor[u]].times /\ m = Rules[RuleFor[u]].unit
          BY <3>2
        <4> HIDE DEF k, m, n
        <4> DEFINE x == Units[u].ms
        <4>2. SameTime(x, Rules[RuleFor[u]].times, Rules[RuleFor[u]].unit)
          BY MillisecondsOfRule
        <4>3. r[2] = x
          BY <3>5
        <4> HIDE DEF x
        <4>4. SameTime(x, k, m)
          BY <4>1, <4>2
        <4>5. QED
          BY <4>3, <4>4 DEF SameTime
      <3>7. out = IF checked /\ n * k >= Word THEN [is |-> "panic"]
                  ELSE [is |-> "ok", ms |-> ((n * k) % Word) * m]
        BY <3>2, <3>3, ParsedBy
      <3> HIDE DEF n, k, m, out, p
      <3>8. TooLong(r) <=> n * k >= Word
        <4>1. CASE r[2] > 1000
          BY <3>5, <3>6, <4>1 DEF TooLong
        <4>2. CASE ~(r[2] > 1000)
          <5>1. n * k = n /\ Word \in Nat
            BY <3>4, <3>6, <4>2, TextsAssumption
          <5>2. QED
            BY <3>4, <4>2, <5>1 DEF TooLong
        <4>3. QED
          BY <4>1, <4>2
      <3>9. n * k \in Nat
        BY <3>4, <3>6
      <3>10. CASE TooLong(r)
        BY <3>10
      <3>11. CASE ~TooLong(r)
        <4>1. n * k < Word
          BY <3>8, <3>9, <3>11, TextsAssumption
        <4>2. out = [is |-> "ok", ms |-> (n * k) * m]
          BY <3>7, <3>8, <3>9, <3>11, <4>1, SmallRemainder
        <4>3. (n * k) * m = n * (k * m)
          BY <3>4, <3>6
        <4>4. QED
          BY <3>5, <3>6, <3>11, <4>2, <4>3
      <3>12. QED
        BY <3>10, <3>11
    <2>2. QED
      BY <1>2, <2>1 DEF Exact
  <1>3. QED
    BY <1>1, <1>2

\* DurationExact: every text of --throttle, of any length and with any number of
\* digits, is read as the documentation says or refused, whatever a u64 holds;
\* with one exception, seconds a u64 cannot count (parse_duration, throttle.rs).
THEOREM DurationsAreExact == Spec => []DurationExact
  <1>1. OutputInv => DurationExact
    <2> SUFFICES ASSUME OutputInv, input.what = "duration", output # Nothing
                 PROVE  Exact(input.text, output)
      BY DEF DurationExact, Exact
    <2>1. input \in [what : {"duration"}, text : DurationTexts, checked : BOOLEAN]
      BY DEF OutputInv
    <2>2. output = parse_duration(input.text, input.checked)
      BY DEF OutputInv
    <2>3. input.text \in Seq(Char) /\ input.checked \in BOOLEAN
      <3>1. input.text \in Seq(STRING) /\ input.checked \in BOOLEAN
        BY <2>1, TextsAssumption
      <3>2. input.text \in Seq(Char)
        BY <3>1, Letters, SeqMonotonic
      <3>3. QED
        BY <3>1, <3>2
    <2>4. QED
      BY <2>2, <2>3, ParseIsExact
  <1>2. QED
    BY <1>1, OutputIsOfInput, PTL

--------------------------------------------------------------------------------
(* Sequences that are joined.                                                   *)

\* F[k] is the first k of the sequences in s, one after the other.
Joins(T, s, F) ==
    /\ F \in [0..Len(s) -> Seq(T)]
    /\ F[0] = <<>>
    /\ \A k \in 1..Len(s) : F[k] = F[k - 1] \o s[k]

LEMMA FlattenJoins ==
    ASSUME NEW T, NEW s \in Seq(Seq(T))
    PROVE  \E F : Joins(T, s, F) /\ FlattenSeq(s) = F[Len(s)]
  <1> DEFINE C(x, y) == x \o y
             n == Len(s)
             G(v) == [i \in 1..n |-> IF i = 1 THEN s[i] ELSE C(v[i - 1], s[i])]
             J(v, k) == v[0] = <<>> /\ \A i \in 1..k : v[i] = C(v[i - 1], s[i])
             S == {k \in Nat : k <= n => \E v \in [0..k -> Seq(T)] : J(v, k)}
  <1>1. n \in Nat /\ \A i \in 1..n : s[i] \in Seq(T)
    OBVIOUS
  <1> DEFINE Q == Seq(T)
  <1>2. /\ <<>> \in Q
        /\ \A x, y \in Q : C(x, y) \in Q
        /\ \A x \in Q : C(<<>>, x) = x
    BY ConcatEmptySeq, ConcatProperties
  <1> HIDE DEF n, J, C
  <1>3. 0 \in S
    <2>1. [i \in 0..0 |-> <<>>] \in [0..0 -> Q] /\ J([i \in 0..0 |-> <<>>], 0)
      BY <1>2 DEF J
    <2>2. QED
      BY <2>1
  <1>4. ASSUME NEW k \in Nat, k \in S PROVE k + 1 \in S
    <2> SUFFICES ASSUME k + 1 <= n PROVE \E v \in [0..(k + 1) -> Q] : J(v, k + 1)
      OBVIOUS
    <2>1. PICK v \in [0..k -> Q] : J(v, k)
      <3>1. k <= n
        BY <1>1
      <3>2. QED
        BY <1>4, <3>1
    <2> HIDE DEF Q
    <2> DEFINE w == [i \in 0..(k + 1) |-> IF i = k + 1 THEN C(v[k], s[k + 1]) ELSE v[i]]
    <2>2. C(v[k], s[k + 1]) \in Q
      <3>1. v[k] \in Q /\ k + 1 \in 1..n
        BY <1>1, <2>1
      <3>2. s[k + 1] \in Q
        BY <1>1, <3>1 DEF Q
      <3>3. QED
        BY <1>2, <3>1, <3>2
    <2>3. w \in [0..(k + 1) -> Q]
      BY <2>1, <2>2
    <2>4. J(w, k + 1)
      <3>1. w[0] = <<>>
        BY <2>1 DEF J
      <3>2. ASSUME NEW i \in 1..(k + 1) PROVE w[i] = C(w[i - 1], s[i])
        <4>1. i - 1 \in 0..k /\ i - 1 # k + 1 /\ i - 1 \in 0..(k + 1) /\ i \in 0..(k + 1)
          OBVIOUS
        <4>2. w[i - 1] = v[i - 1]
          BY <4>1
        <4>3. CASE i = k + 1
          BY <4>1, <4>2, <4>3
        <4>4. CASE i # k + 1
          <5>1. w[i] = v[i] /\ i \in 1..k
            BY <4>1, <4>4
          <5>2. QED
            BY <2>1, <4>2, <5>1 DEF J
        <4>5. QED
          BY <4>3, <4>4
      <3> HIDE DEF w
      <3>3. QED
        BY <3>1, <3>2 DEF J
    <2>5. QED
      BY <2>3, <2>4
  <1>5. n \in S
    <2> HIDE DEF S
    <2>1. Nat \subseteq S
      BY <1>3, <1>4, NatSetInduction
    <2>2. QED
      BY <1>1, <2>1
  <1>6. PICK v \in [0..n -> Q] : J(v, n)
    BY <1>1, <1>5
  <1> HIDE DEF Q, G
  <1>7. \A F : F = G(F) => \A i \in 1..n : F[i] = IF i = 1 THEN s[1] ELSE C(F[i - 1], s[i])
    BY DEF G
  <1> DEFINE u == [i \in 1..n |-> v[i]]
  <1>8. u = G(u)
    <2>1. \A i \in 1..n : v[i] = IF i = 1 THEN s[1] ELSE C(u[i - 1], s[i])
      <3>1. ASSUME NEW i \in 1..n, i = 1 PROVE v[i] = s[1]
        <4>1. v[1] = C(v[1 - 1], s[1]) /\ v[0] = <<>> /\ 1 - 1 = 0
          BY <1>1, <1>6, <3>1 DEF J
        <4>3. s[1] \in Q
          BY <1>1, <3>1 DEF Q
        <4>2. QED
          BY <1>2, <3>1, <4>1, <4>3
      <3>2. ASSUME NEW i \in 1..n, i # 1 PROVE v[i] = C(u[i - 1], s[i])
        <4>1. i - 1 \in 1..n
          BY <1>1, <3>2
        <4>2. u[i - 1] = v[i - 1]
          BY <4>1
        <4>3. QED
          BY <1>6, <4>2 DEF J
      <3>3. QED
        BY <3>1, <3>2
    <2>2. QED
      BY <2>1 DEF G
  <1> DEFINE c == CHOOSE F : F = G(F)
  <1>9. c = G(c)
    <2> HIDE DEF u
    <2>1. QED
      BY <1>8
  <1>10. n # 0 => FlattenSeq(s) = c[n]
    BY DEF FlattenSeq, G, n, C
  <1>11. n = 0 => FlattenSeq(s) = <<>>
    BY DEF FlattenSeq, n
  <1> HIDE DEF c
  <1> DEFINE F == [i \in 0..n |-> IF i = 0 THEN <<>> ELSE c[i]]
             U == {k \in Nat : k <= n => F[k] \in Q /\ (k # 0 => F[k] = C(F[k - 1], s[k]))}
  <1>12. 0 \in U
    BY <1>1, <1>2
  <1>13. ASSUME NEW k \in Nat, k \in U PROVE k + 1 \in U
    <2> SUFFICES ASSUME k + 1 <= n PROVE F[k + 1] \in Q /\ F[k + 1] = C(F[k], s[k + 1])
      BY <1>1
    <2> HIDE DEF F
    <2>1. F[k] \in Q /\ k + 1 \in 1..n /\ k \in 0..n
      BY <1>1, <1>13
    <2> USE DEF F
    <2>2. s[k + 1] \in Q
      BY <1>1, <2>1 DEF Q
    <2>3. F[k + 1] = c[k + 1] /\ (k # 0 => F[k] = c[k]) /\ (k = 0 => F[k] = <<>>)
      BY <2>1
    <2>4. c[k + 1] = IF k + 1 = 1 THEN s[1] ELSE C(c[(k + 1) - 1], s[k + 1])
      BY <1>7, <1>9, <2>1
    <2> HIDE DEF F
    <2>5. F[k + 1] = C(F[k], s[k + 1])
      <3>1. CASE k = 0
        <4>1. F[k + 1] = s[1] /\ k + 1 = 1
          BY <2>3, <2>4, <3>1
        <4>2. C(F[k], s[k + 1]) = s[1]
          <5>1. F[k] = <<>> /\ s[k + 1] = s[1] /\ s[1] \in Q
            BY <2>2, <2>3, <3>1
          <5>2. QED
            BY <1>2, <5>1
        <4>3. QED
          BY <4>1, <4>2
      <3>2. CASE k # 0
        <4>1. k + 1 # 1 /\ (k + 1) - 1 = k
          BY <3>2
        <4>2. QED
          BY <2>3, <2>4, <3>2, <4>1
      <3>3. QED
        BY <3>1, <3>2
    <2>6. QED
      BY <1>2, <2>1, <2>2, <2>5
  <1>14. Nat \subseteq U
    <2> HIDE DEF U
    <2>1. QED
      BY <1>12, <1>13, NatSetInduction
  <1>15. F \in [0..n -> Q] /\ F[0] = <<>> /\ \A k \in 1..n : F[k] = C(F[k - 1], s[k])
    <2>1. \A k \in 0..n : F[k] \in Q /\ (k # 0 => F[k] = C(F[k - 1], s[k]))
      <3> HIDE DEF F
      <3>1. QED
        BY <1>1, <1>14
    <2>2. F[0] = <<>> /\ F = [i \in 0..n |-> F[i]]
      BY <1>1
    <2> HIDE DEF F
    <2>3. \A k \in 1..n : k \in 0..n /\ k # 0
      BY <1>1
    <2>4. F \in [0..n -> Q]
      BY <2>1, <2>2
    <2>5. QED
      BY <2>1, <2>2, <2>3, <2>4
  <1>16. FlattenSeq(s) = F[n]
    BY <1>1, <1>10, <1>11
  <1> HIDE DEF F
  <1>17. QED
    BY <1>15, <1>16 DEF Joins, n, Q, C

\* What has been joined stays in front.
LEMMA JoinsPrefix ==
    ASSUME NEW T, NEW s \in Seq(Seq(T)), NEW F, Joins(T, s, F), NEW k \in 0..Len(s), NEW m \in k..Len(s)
    PROVE  /\ F[k] \in Seq(T) /\ F[m] \in Seq(T) /\ Len(F[k]) <= Len(F[m])
           /\ \A i \in 1..Len(F[k]) : F[m][i] = F[k][i]
  <1> DEFINE n == Len(s)
             Pre(x, y) == Len(x) <= Len(y) /\ \A i \in 1..Len(x) : y[i] = x[i]
             S == {j \in Nat : k + j <= n => Pre(F[k], F[k + j])}
  <1>1. n \in Nat /\ k \in Nat /\ m \in Nat /\ k <= m /\ m <= n
    OBVIOUS
  <1>2. /\ \A i \in 0..n : F[i] \in Seq(T)
        /\ \A i \in 1..n : F[i] = F[i - 1] \o s[i] /\ s[i] \in Seq(T)
    <2>1. \A i \in 1..n : s[i] \in Seq(T)
      OBVIOUS
    <2>2. QED
      BY <2>1, Zenon DEF Joins
  <1> HIDE DEF n, Pre
  <1>3. 0 \in S
    <2>1. k + 0 = k /\ Len(F[k]) \in Nat
      BY <1>1, <1>2
    <2>2. QED
      BY <2>1 DEF Pre
  <1>4. ASSUME NEW j \in Nat, j \in S PROVE j + 1 \in S
    <2> SUFFICES ASSUME k + (j + 1) <= n PROVE Pre(F[k], F[k + (j + 1)])
      OBVIOUS
    <2>1. /\ k + j \in 0..n /\ k + (j + 1) \in 1..n /\ (k + (j + 1)) - 1 = k + j /\ k \in 0..n
      BY <1>1
    <2>2. Pre(F[k], F[k + j])
      BY <1>4, <2>1
    <2> DEFINE x == F[k]
               y == F[k + j]
               z == s[k + (j + 1)]
    <2>3. x \in Seq(T) /\ y \in Seq(T) /\ z \in Seq(T) /\ F[k + (j + 1)] = y \o z
      BY <1>2, <2>1
    <2> HIDE DEF x, y, z
    <2>4. Pre(y, y \o z)
      BY <2>3, ConcatProperties DEF Pre
    <2>5. Pre(x, y)
      BY <2>2 DEF x, y
    <2>6. Pre(x, y \o z)
      <3>1. Len(x) \in Nat /\ Len(y) \in Nat /\ Len(y \o z) \in Nat
        BY <2>3, ConcatProperties
      <3>2. QED
        BY <2>4, <2>5, <3>1 DEF Pre
    <2>7. QED
      BY <2>3, <2>6 DEF x
  <1>5. m - k \in S /\ m - k \in Nat /\ k + (m - k) = m
    <2> HIDE DEF S
    <2>1. Nat \subseteq S
      BY <1>3, <1>4, NatSetInduction
    <2>2. QED
      BY <1>1, <2>1
  <1>6. Pre(F[k], F[m])
    BY <1>1, <1>5
  <1>7. QED
    BY <1>1, <1>2, <1>6 DEF Pre

--------------------------------------------------------------------------------
(* Names in a line.                                                             *)

\* The characters a line is made of besides the text of its names.
Comma == ","
Equals == "="
Space == " "
Back == "\\"
Seps == {Comma, Equals, Space}

LEMMA SeparatorsDiffer ==
    /\ Comma # Equals /\ Comma # Space /\ Equals # Space
    /\ Back # Comma /\ Back # Equals /\ Back # Space
  BY Zenon DEF Comma, Equals, Space, Back

Piece(c, special) == IF c \in special THEN <<Back, c>> ELSE <<c>>
Pieces(text, special) == [i \in DOMAIN text |-> Piece(text[i], special)]

LEMMA EscapedIs ==
    ASSUME NEW text, NEW special
    PROVE  Escaped(text, special) = FlattenSeq(Pieces(text, special))
  BY Zenon DEF Escaped, Pieces, Piece, Back

\* A text as the pieces its characters become.
LEMMA PiecesJoin ==
    ASSUME NEW T, NEW text \in Seq(T), NEW special, Back \in T
    PROVE  /\ Pieces(text, special) \in Seq(Seq(T)) /\ Len(Pieces(text, special)) = Len(text)
           /\ \E F : Joins(T, Pieces(text, special), F) /\ Escaped(text, special) = F[Len(text)]
  <1> DEFINE s == Pieces(text, special)
             n == Len(text)
  <1>1. n \in Nat /\ DOMAIN text = 1..n /\ \A i \in 1..n : text[i] \in T
    OBVIOUS
  <1>2. ASSUME NEW i \in 1..n PROVE Piece(text[i], special) \in Seq(T)
    <2>1. text[i] \in T
      BY <1>1
    <2>2. QED
      BY <2>1, ShortSeqs DEF Piece
  <1>3. s = [i \in 1..n |-> Piece(text[i], special)]
    BY <1>1 DEF Pieces
  <1>4. s \in Seq(Seq(T)) /\ Len(s) = n
    <2> DEFINE Q == Seq(T)
               P(i) == Piece(text[i], special)
    <2>1. \A i \in 1..n : P(i) \in Q
      BY <1>2
    <2>2. s = [i \in 1..n |-> P(i)]
      BY <1>3
    <2> HIDE DEF s, n, P, Q
    <2>3. s \in Seq(Q) /\ Len(s) = n
      BY <1>1, <2>1, <2>2
    <2>4. QED
      BY <2>3 DEF Q
  <1>5. Escaped(text, special) = FlattenSeq(s)
    BY EscapedIs
  <1> HIDE DEF s
  <1>6. QED
    BY <1>4, <1>5, FlattenJoins DEF s

\* x is the text E with what the character c becomes.
Grows(x, E, c, special) ==
    /\ \A i \in 1..Len(E) : x[i] = E[i]
    /\ c \in special => Len(x) = Len(E) + 2 /\ x[Len(E) + 1] = Back /\ x[Len(E) + 2] = c
    /\ c \notin special => Len(x) = Len(E) + 1 /\ x[Len(E) + 1] = c

\* One more character of a text.
LEMMA OnePiece ==
    ASSUME NEW T, NEW E \in Seq(T), NEW c \in T, NEW special, Back \in T
    PROVE  E \o Piece(c, special) \in Seq(T) /\ Grows(E \o Piece(c, special), E, c, special)
  <1> USE DEF Grows
  <1>1. Piece(c, special) \in Seq(T)
    BY ShortSeqs DEF Piece
  <1>2. CASE c \in special
    <2>1. Piece(c, special) = <<Back, c>>
      BY <1>2 DEF Piece
    <2>2. QED
      BY <1>1, <1>2, <2>1, ConcatProperties
  <1>3. CASE c \notin special
    <2>1. Piece(c, special) = <<c>>
      BY <1>3 DEF Piece
    <2>2. QED
      BY <1>1, <1>3, <2>1, ConcatProperties
  <1>4. QED
    BY <1>2, <1>3

\* What escaping makes of a text: every special character stands behind a
\* backslash, nothing else is added, and the last character stays.
Escapes(E, text, special) ==
    /\ text # <<>> => E # <<>> /\ E[Len(E)] = text[Len(text)]
    /\ \A i \in 1..Len(E) : E[i] \in special => i > 1 /\ E[i - 1] = Back
    /\ \A i \in 1..Len(E) : E[i] = Back \/ \E j \in 1..Len(text) : E[i] = text[j]

LEMMA EscapedEscapes ==
    ASSUME NEW T, NEW text \in Seq(T), NEW special, Back \in T, Back \notin special
    PROVE  Escaped(text, special) \in Seq(T) /\ Escapes(Escaped(text, special), text, special)
  <1> DEFINE s == Pieces(text, special)
             n == Len(text)
  <1>1. n \in Nat /\ DOMAIN text = 1..n /\ \A i \in 1..n : text[i] \in T
    OBVIOUS
  <1>2. s \in Seq(Seq(T)) /\ Len(s) = n
    BY PiecesJoin
  <1>3. PICK F : Joins(T, s, F) /\ Escaped(text, special) = F[n]
    BY PiecesJoin
  <1>4. /\ \A k \in 0..n : F[k] \in Seq(T)
        /\ F[0] = <<>>
        /\ \A k \in 1..n : F[k] = F[k - 1] \o Piece(text[k], special)
    <2>1. \A k \in 1..n : s[k] = Piece(text[k], special)
      BY <1>1 DEF Pieces
    <2> HIDE DEF s
    <2>2. QED
      BY <1>2, <1>3, <2>1 DEF Joins
  <1> HIDE DEF s, n
  <1> DEFINE Good(x, k) ==
                /\ k # 0 => Len(x) > 0 /\ x[Len(x)] = text[k]
                /\ \A i \in 1..Len(x) : x[i] \in special => i > 1 /\ x[i - 1] = Back
                /\ \A i \in 1..Len(x) : x[i] = Back \/ \E j \in 1..k : x[i] = text[j]
             S == {k \in Nat : k <= n => Good(F[k], k)}
  <1>5. 0 \in S
    <2>1. Len(F[0]) = 0
      BY <1>4
    <2>2. QED
      BY <2>1
  <1>6. ASSUME NEW k \in Nat, k \in S PROVE k + 1 \in S
    <2> SUFFICES ASSUME k + 1 <= n PROVE Good(F[k + 1], k + 1)
      OBVIOUS
    <2>1. k \in 0..n /\ k + 1 \in 1..n /\ (k + 1) - 1 = k /\ text[k + 1] \in T
      BY <1>1
    <2>2. Good(F[k], k)
      BY <1>6, <2>1
    <2> DEFINE E == F[k]
               c == text[k + 1]
               x == E \o Piece(c, special)
               m == Len(E)
    <2>3. E \in Seq(T) /\ c \in T /\ F[k + 1] = x
      BY <1>4, <2>1
    <2> HIDE DEF E, c
    <2>4. /\ x \in Seq(T) /\ m \in Nat
          /\ \A i \in 1..m : x[i] = E[i]
          /\ c \in special => Len(x) = m + 2 /\ x[m + 1] = Back /\ x[m + 2] = c
          /\ c \notin special => Len(x) = m + 1 /\ x[m + 1] = c
      <3>1. x \in Seq(T) /\ Grows(x, E, c, special)
        BY <2>3, OnePiece
      <3> HIDE DEF x
      <3>2. QED
        BY <2>3, <3>1 DEF Grows
    <2>5. Good(E, k)
      BY <2>2 DEF E
    <2> HIDE DEF x, m
    <2>6. \A i \in 1..m : (x[i] \in special => i > 1 /\ x[i - 1] = Back)
      <3>1. ASSUME NEW i \in 1..m, x[i] \in special PROVE i > 1 /\ x[i - 1] = Back
        <4>1. E[i] \in special
          BY <2>4, <3>1
        <4>2. i > 1 /\ E[i - 1] = Back
          BY <2>5, <4>1 DEF m
        <4>3. i - 1 \in 1..m
          BY <2>4, <4>2
        <4>4. QED
          BY <2>4, <4>2, <4>3
      <3>2. QED
        BY <3>1
    <2>7. \A i \in 1..m : (x[i] = Back \/ \E j \in 1..(k + 1) : x[i] = text[j])
      <3>1. ASSUME NEW i \in 1..m PROVE x[i] = Back \/ \E j \in 1..(k + 1) : x[i] = text[j]
        <4>1. x[i] = E[i]
          BY <2>4
        <4>2. E[i] = Back \/ \E j \in 1..k : E[i] = text[j]
          BY <2>5 DEF m
        <4>3. \A j \in 1..k : j \in 1..(k + 1)
          OBVIOUS
        <4>4. QED
          BY <4>1, <4>2, <4>3
      <3>2. QED
        BY <3>1
    <2>8. k + 1 \in 1..(k + 1) /\ c = text[k + 1]
      BY DEF c
    <2>9. CASE c \in special
      <3>1. Len(x) = m + 2 /\ x[m + 1] = Back /\ x[m + 2] = c
        BY <2>4, <2>9
      <3>2. \A i \in 1..Len(x) : i \in 1..m \/ i = m + 1 \/ i = m + 2
        BY <2>4, <3>1
      <3>3. (m + 2) - 1 = m + 1 /\ m + 2 > 1 /\ m + 2 > 0
        BY <2>4
      <3>4. \A i \in 1..Len(x) : x[i] \in special => i > 1 /\ x[i - 1] = Back
        BY <2>6, <3>1, <3>2, <3>3
      <3>5. \A i \in 1..Len(x) : x[i] = Back \/ \E j \in 1..(k + 1) : x[i] = text[j]
        BY <2>7, <2>8, <3>1, <3>2
      <3>6. QED
        BY <2>3, <2>8, <3>1, <3>3, <3>4, <3>5
    <2>10. CASE c \notin special
      <3>1. Len(x) = m + 1 /\ x[m + 1] = c
        BY <2>4, <2>10
      <3>2. \A i \in 1..Len(x) : i \in 1..m \/ i = m + 1
        BY <2>4, <3>1
      <3>3. m + 1 > 0
        BY <2>4
      <3>4. \A i \in 1..Len(x) : x[i] \in special => i > 1 /\ x[i - 1] = Back
        BY <2>6, <2>10, <3>1, <3>2
      <3>5. \A i \in 1..Len(x) : x[i] = Back \/ \E j \in 1..(k + 1) : x[i] = text[j]
        BY <2>7, <2>8, <3>1, <3>2
      <3>6. QED
        BY <2>3, <2>8, <3>1, <3>3, <3>4, <3>5
    <2>11. QED
      BY <2>9, <2>10
  <1>7. Good(F[n], n)
    <2> HIDE DEF S
    <2>1. Nat \subseteq S
      BY <1>5, <1>6, NatSetInduction
    <2> USE DEF S
    <2> HIDE DEF Good
    <2>2. QED
      BY <1>1, <2>1
  <1>8. F[n] \in Seq(T)
    BY <1>1, <1>4
  <1>9. text # <<>> => n # 0
    BY DEF n
  <1>10. Len(F[n]) > 0 => F[n] # <<>>
    BY <1>8
  <1>11. Escapes(F[n], text, special)
    BY <1>7, <1>9, <1>10 DEF Escapes, n
  <1>12. QED
    BY <1>3, <1>8, <1>11

\* A backslash that stands before a separator is dropped.
Dropped(E, i) == E[i] = Back /\ i < Len(E) /\ E[i + 1] \in Seps
Kept(E) == [i \in DOMAIN E |-> IF Dropped(E, i) THEN <<>> ELSE <<E[i]>>]

LEMMA UnescapedIs ==
    ASSUME NEW E
    PROVE  Unescaped(E) = FlattenSeq(Kept(E))
  BY Zenon DEF Unescaped, Kept, Dropped, Back, Seps, Comma, Equals, Space

LEMMA PlainIs ==
    ASSUME NEW text, Plain(text)
    PROVE  \A i \in DOMAIN text : text[i] = Back => i < Len(text) /\ text[i + 1] \notin Seps
  BY Zenon DEF Plain, Back, Seps, Comma, Equals, Space

LEMMA KeptJoins ==
    ASSUME NEW T, NEW E \in Seq(T)
    PROVE  \E G : /\ \A j \in 0..Len(E) : G[j] \in Seq(T)
                  /\ G[0] = <<>> /\ Unescaped(E) = G[Len(E)]
                  /\ \A j \in 1..Len(E) : Dropped(E, j) => G[j] = G[j - 1]
                  /\ \A j \in 1..Len(E) : ~Dropped(E, j) => G[j] = G[j - 1] \o <<E[j]>>
  <1> DEFINE s == Kept(E)
             n == Len(E)
  <1>1. n \in Nat /\ DOMAIN E = 1..n /\ \A i \in 1..n : E[i] \in T
    OBVIOUS
  <1>2. s = [i \in 1..n |-> IF Dropped(E, i) THEN <<>> ELSE <<E[i]>>]
    BY <1>1 DEF Kept
  <1>3. s \in Seq(Seq(T)) /\ Len(s) = n
    <2> DEFINE Q == Seq(T)
               P(i) == IF Dropped(E, i) THEN <<>> ELSE <<E[i]>>
    <2>1. \A i \in 1..n : P(i) \in Q
      BY <1>1, ShortSeqs
    <2>2. s = [i \in 1..n |-> P(i)]
      BY <1>2
    <2> HIDE DEF s, n, P, Q
    <2>3. s \in Seq(Q) /\ Len(s) = n
      BY <1>1, <2>1, <2>2
    <2>4. QED
      BY <2>3 DEF Q
  <1>4. PICK G : Joins(T, s, G) /\ FlattenSeq(s) = G[n]
    <2> HIDE DEF s
    <2>1. QED
      BY <1>3, FlattenJoins
  <1>5. Unescaped(E) = G[n]
    BY <1>4, UnescapedIs
  <1>6. \A j \in 1..n : s[j] = IF Dropped(E, j) THEN <<>> ELSE <<E[j]>>
    BY <1>2
  <1> HIDE DEF s, n
  <1>7. /\ \A j \in 0..n : G[j] \in Seq(T)
        /\ G[0] = <<>>
        /\ \A j \in 1..n : G[j] = G[j - 1] \o s[j]
    BY <1>3, <1>4 DEF Joins
  <1>8. ASSUME NEW j \in 1..n, Dropped(E, j) PROVE G[j] = G[j - 1]
    <2>1. G[j] = G[j - 1] \o <<>>
      BY <1>6, <1>7, <1>8
    <2>2. G[j - 1] \in Seq(T)
      <3>1. j - 1 \in 0..n
        BY <1>1
      <3>2. QED
        BY <1>7, <3>1
    <2>3. QED
      BY <2>1, <2>2, ConcatEmptySeq
  <1>9. ASSUME NEW j \in 1..n, ~Dropped(E, j) PROVE G[j] = G[j - 1] \o <<E[j]>>
    BY <1>6, <1>7, <1>9
  <1>10. QED
    BY <1>5, <1>7, <1>8, <1>9 DEF n

\* Reading the text back takes away what escaping added and nothing else.
LEMMA EscapedReadsBack ==
    ASSUME NEW T, NEW text \in Seq(T), NEW special \in SUBSET Seps, Back \in T, Plain(text)
    PROVE  Unescaped(Escaped(text, special)) = text
  <1> DEFINE s == Pieces(text, special)
             m == Len(text)
             E == Escaped(text, special)
  <1>0. Back \notin Seps
    BY SeparatorsDiffer DEF Seps
  <1>1. m \in Nat /\ DOMAIN text = 1..m /\ \A i \in 1..m : text[i] \in T
    OBVIOUS
  <1>2. s \in Seq(Seq(T)) /\ Len(s) = m
    BY PiecesJoin
  <1>3. PICK F : Joins(T, s, F) /\ E = F[m]
    BY PiecesJoin
  <1>4. /\ \A k \in 0..m : F[k] \in Seq(T)
        /\ F[0] = <<>>
        /\ \A k \in 1..m : F[k] = F[k - 1] \o Piece(text[k], special)
    <2>1. \A k \in 1..m : s[k] = Piece(text[k], special)
      BY <1>1 DEF Pieces
    <2> HIDE DEF s
    <2>2. QED
      BY <1>2, <1>3, <2>1 DEF Joins
  <1>5. E \in Seq(T)
    BY <1>1, <1>3, <1>4
  <1>6. PICK G : /\ \A j \in 0..Len(E) : G[j] \in Seq(T)
                 /\ G[0] = <<>> /\ Unescaped(E) = G[Len(E)]
                 /\ \A j \in 1..Len(E) : Dropped(E, j) => G[j] = G[j - 1]
                 /\ \A j \in 1..Len(E) : ~Dropped(E, j) => G[j] = G[j - 1] \o <<E[j]>>
    <2> HIDE DEF E
    <2>1. QED
      BY <1>5, KeptJoins
  <1>7. \A k \in 0..m : Len(F[k]) \in Nat /\ Len(F[k]) <= Len(E) /\ \A i \in 1..Len(F[k]) : E[i] = F[k][i]
    <2>1. ASSUME NEW k \in 0..m
          PROVE  Len(F[k]) <= Len(F[m]) /\ \A i \in 1..Len(F[k]) : F[m][i] = F[k][i]
      <3>1. m \in k..m
        BY <1>1
      <3> HIDE DEF s, m
      <3>2. QED
        BY <1>2, <1>3, <3>1, JoinsPrefix
    <2> HIDE DEF E
    <2>2. QED
      BY <1>3, <1>4, <2>1
  <1>8. \A i \in 1..m : text[i] = Back => i < m /\ text[i + 1] \notin Seps
    BY <1>1, PlainIs
  <1> HIDE DEF s, m, E
  \* What the pieces put at the end of the first k of them.
  <1>9. ASSUME NEW k \in Nat, k + 1 <= m
        PROVE  LET n == Len(F[k]) IN
               /\ text[k + 1] \in special =>
                     Len(F[k + 1]) = n + 2 /\ E[n + 1] = Back /\ E[n + 2] = text[k + 1] /\ n + 2 <= Len(E)
               /\ text[k + 1] \notin special =>
                     Len(F[k + 1]) = n + 1 /\ E[n + 1] = text[k + 1] /\ n + 1 <= Len(E)
    <2>1. k \in 0..m /\ k + 1 \in 0..m /\ k + 1 \in 1..m /\ (k + 1) - 1 = k
      BY <1>1, <1>9
    <2> DEFINE x == F[k + 1]
               y == F[k]
               c == text[k + 1]
               n == Len(y)
    <2>2. y \in Seq(T) /\ c \in T /\ x = y \o Piece(c, special)
      BY <1>1, <1>4, <2>1
    <2>3. Len(x) \in Nat /\ Len(x) <= Len(E) /\ \A i \in 1..Len(x) : E[i] = x[i]
      BY <1>7, <2>1
    <2> HIDE DEF x, y, c
    <2>4. Grows(x, y, c, special)
      BY <2>2, OnePiece
    <2>5. n \in Nat
      BY <2>2
    <2> HIDE DEF n
    <2>6. c \in special => Len(x) = n + 2 /\ x[n + 1] = Back /\ x[n + 2] = c
      BY <2>4 DEF Grows, n
    <2>7. c \notin special => Len(x) = n + 1 /\ x[n + 1] = c
      BY <2>4 DEF Grows, n
    <2>8. ASSUME c \in special
          PROVE  Len(x) = n + 2 /\ E[n + 1] = Back /\ E[n + 2] = c /\ n + 2 <= Len(E)
      <3>1. n + 1 \in 1..Len(x) /\ n + 2 \in 1..Len(x)
        BY <2>5, <2>6, <2>8
      <3>2. QED
        BY <2>3, <2>6, <2>8, <3>1
    <2>9. ASSUME c \notin special
          PROVE  Len(x) = n + 1 /\ E[n + 1] = c /\ n + 1 <= Len(E)
      <3>1. n + 1 \in 1..Len(x)
        BY <2>5, <2>7, <2>9
      <3>2. QED
        BY <2>3, <2>7, <2>9, <3>1
    <2>10. QED
      BY <2>8, <2>9 DEF x, y, c, n
  <1> DEFINE Same(x, k) == Len(x) = k /\ \A i \in 1..k : x[i] = text[i]
             S == {k \in Nat : k <= m => Same(G[Len(F[k])], k)}
  <1>10. 0 \in S
    <2>1. G[Len(F[0])] = <<>>
      BY <1>4, <1>6
    <2>2. QED
      BY <2>1
  <1>11. ASSUME NEW k \in Nat, k \in S PROVE k + 1 \in S
    <2> SUFFICES ASSUME k + 1 <= m PROVE Same(G[Len(F[k + 1])], k + 1)
      OBVIOUS
    <2> DEFINE n == Len(F[k])
               c == text[k + 1]
    <2>1. k \in 0..m /\ k + 1 \in 1..m /\ n \in Nat /\ Len(E) \in Nat /\ n <= Len(E)
      BY <1>1, <1>5, <1>7
    <2>2. Same(G[n], k) /\ G[n] \in Seq(T) /\ c \in T
      <3>1. n \in 0..Len(E)
        BY <2>1
      <3>2. QED
        BY <1>1, <1>6, <1>11, <2>1, <3>1
    <2>3. /\ c \in special =>
                Len(F[k + 1]) = n + 2 /\ E[n + 1] = Back /\ E[n + 2] = c /\ n + 2 <= Len(E)
          /\ c \notin special =>
                Len(F[k + 1]) = n + 1 /\ E[n + 1] = c /\ n + 1 <= Len(E)
      BY <1>9
    <2>4. Same(G[n] \o <<c>>, k + 1)
      <3> DEFINE g == G[n]
      <3>1. g \in Seq(T) /\ Len(g) = k /\ \A i \in 1..k : g[i] = text[i]
        BY <2>2
      <3> HIDE DEF g
      <3>2. <<c>> \in Seq(T) /\ Len(<<c>>) = 1 /\ <<c>>[1] = c
        BY <2>2, ShortSeqs
      <3>3. /\ Len(g \o <<c>>) = k + 1
            /\ \A i \in 1..(k + 1) : (g \o <<c>>)[i] = IF i <= k THEN g[i] ELSE <<c>>[i - k]
        <4> DEFINE d == <<c>>
        <4>1. d \in Seq(T) /\ Len(d) = 1
          BY <3>2
        <4> HIDE DEF d
        <4>2. /\ Len(g \o d) = k + 1
              /\ \A i \in 1..(k + 1) : (g \o d)[i] = IF i <= k THEN g[i] ELSE d[i - k]
          <5>1. /\ Len(g \o d) = Len(g) + Len(d)
                /\ \A i \in 1..Len(g) + Len(d) : (g \o d)[i] = IF i <= Len(g) THEN g[i] ELSE d[i - Len(g)]
            BY <3>1, <4>1, ConcatProperties
          <5> DEFINE z == g \o d
          <5> HIDE DEF z
          <5>2. QED
            BY <3>1, <4>1, <5>1
        <4>3. QED
          BY <4>2 DEF d
      <3>4. \A i \in 1..(k + 1) : i \in 1..k \/ i = k + 1
        OBVIOUS
      <3>5. (k + 1) - k = 1 /\ ~(k + 1 <= k) /\ k + 1 \in 1..(k + 1)
        OBVIOUS
      <3>6. (g \o <<c>>)[k + 1] = c
        BY <3>2, <3>3, <3>5
      <3>7. ASSUME NEW i \in 1..k PROVE (g \o <<c>>)[i] = text[i]
        BY <3>1, <3>3
      <3>8. Same(g \o <<c>>, k + 1)
        <4> DEFINE z == g \o <<c>>
        <4> HIDE DEF z
        <4>1. Len(z) = k + 1 /\ z[k + 1] = text[k + 1] /\ \A i \in 1..k : z[i] = text[i]
          BY <3>3, <3>6, <3>7 DEF z
        <4>2. Same(z, k + 1)
          BY <3>4, <4>1
        <4>3. QED
          BY <4>2 DEF z
      <3>9. QED
        BY <3>8 DEF g
    <2> HIDE DEF n, c, Same
    <2>5. CASE c \in special
      <3>1. Len(F[k + 1]) = n + 2 /\ E[n + 1] = Back /\ E[n + 2] = c /\ n + 2 <= Len(E)
        BY <2>3, <2>5
      <3>2. n + 1 \in 1..Len(E) /\ n + 2 \in 1..Len(E) /\ n + 1 < Len(E)
            /\ (n + 1) - 1 = n /\ (n + 2) - 1 = n + 1 /\ (n + 1) + 1 = n + 2
        BY <2>1, <3>1
      <3>3. Dropped(E, n + 1)
        BY <2>5, <3>1, <3>2 DEF Dropped
      <3>4. ~Dropped(E, n + 2)
        BY <1>0, <2>5, <3>1 DEF Dropped
      <3>5. G[n + 2] = G[n] \o <<c>>
        BY <1>6, <3>1, <3>2, <3>3, <3>4
      <3>6. QED
        BY <2>4, <3>1, <3>5
    <2>6. CASE c \notin special
      <3>1. Len(F[k + 1]) = n + 1 /\ E[n + 1] = c /\ n + 1 <= Len(E)
        BY <2>3, <2>6
      <3>2. n + 1 \in 1..Len(E) /\ (n + 1) - 1 = n
        BY <2>1, <3>1
      <3>3. ~Dropped(E, n + 1)
        <4> SUFFICES ASSUME E[n + 1] = Back, (n + 1) + 1 <= Len(E), E[(n + 1) + 1] \in Seps PROVE FALSE
          BY <2>1, <3>2 DEF Dropped
        <4>1. k + 1 < m /\ text[(k + 1) + 1] \notin Seps
          BY <1>8, <2>1, <3>1 DEF c
        <4>2. text[(k + 1) + 1] \notin special
          BY <4>1
        <4>3. k + 1 \in Nat /\ (k + 1) + 1 <= m
          BY <1>1, <4>1
        <4>4. E[Len(F[k + 1]) + 1] = text[(k + 1) + 1]
          BY <1>9, <4>2, <4>3
        <4>5. QED
          BY <3>1, <4>1, <4>4
      <3>4. G[n + 1] = G[n] \o <<c>>
        BY <1>6, <3>1, <3>2, <3>3
      <3>5. QED
        BY <2>4, <3>1, <3>4
    <2>7. QED
      BY <2>5, <2>6
  <1>12. Same(G[Len(F[m])], m)
    <2> HIDE DEF S, Same
    <2>1. Nat \subseteq S
      BY <1>10, <1>11, NatSetInduction
    <2> USE DEF S
    <2>2. QED
      BY <1>1, <2>1
  <1>13. G[Len(E)] \in Seq(T) /\ Same(G[Len(E)], m)
    <2>1. Len(E) \in 0..Len(E)
      BY <1>5
    <2>2. QED
      BY <1>3, <1>6, <1>12, <2>1
  <1>14. G[Len(E)] = text
    <2> DEFINE g == G[Len(E)]
    <2>1. g \in Seq(T) /\ Len(g) = Len(text) /\ \A i \in 1..Len(g) : g[i] = text[i]
      BY <1>13 DEF m
    <2> HIDE DEF g
    <2>2. g = text
      BY <2>1, SeqEqual
    <2>3. QED
      BY <2>2 DEF g
  <1>15. QED
    BY <1>6, <1>14 DEF E

\* A text without special characters is written as it is, so the two ways in the
\* code make no difference.
LEMMA NothingToEscape ==
    ASSUME NEW T, NEW text \in Seq(T), NEW special, Back \in T,
           \A i \in DOMAIN text : text[i] \notin special
    PROVE  Escaped(text, special) = text
  <1> DEFINE s == Pieces(text, special)
             n == Len(text)
  <1>1. n \in Nat /\ DOMAIN text = 1..n /\ \A i \in 1..n : text[i] \in T
    OBVIOUS
  <1>2. s \in Seq(Seq(T)) /\ Len(s) = n
    BY PiecesJoin
  <1>3. PICK F : Joins(T, s, F) /\ Escaped(text, special) = F[n]
    BY PiecesJoin
  <1>4. /\ \A k \in 0..n : F[k] \in Seq(T)
        /\ F[0] = <<>>
        /\ \A k \in 1..n : F[k] = F[k - 1] \o Piece(text[k], special)
    <2>1. \A k \in 1..n : s[k] = Piece(text[k], special)
      BY <1>1 DEF Pieces
    <2> HIDE DEF s
    <2>2. QED
      BY <1>2, <1>3, <2>1 DEF Joins
  <1>5. \A k \in 1..n : text[k] \notin special
    BY <1>1
  <1> HIDE DEF s, n
  <1> DEFINE Same(x, k) == Len(x) = k /\ \A i \in 1..k : x[i] = text[i]
             S == {k \in Nat : k <= n => Same(F[k], k)}
  <1>6. 0 \in S
    BY <1>4
  <1>7. ASSUME NEW k \in Nat, k \in S PROVE k + 1 \in S
    <2> SUFFICES ASSUME k + 1 <= n PROVE Same(F[k + 1], k + 1)
      OBVIOUS
    <2>1. k \in 0..n /\ k + 1 \in 0..n /\ k + 1 \in 1..n /\ (k + 1) - 1 = k
      BY <1>1
    <2> DEFINE x == F[k + 1]
               y == F[k]
               c == text[k + 1]
    <2>2. y \in Seq(T) /\ c \in T /\ c \notin special /\ x = y \o Piece(c, special)
      BY <1>1, <1>4, <1>5, <2>1
    <2>3. Same(y, k)
      BY <1>7, <2>1
    <2> HIDE DEF x, y
    <2>4. Grows(x, y, c, special)
      <3> HIDE DEF c
      <3>1. QED
        BY <2>2, OnePiece
    <2>5. Len(x) = k + 1 /\ x[k + 1] = text[k + 1] /\ \A i \in 1..k : x[i] = text[i]
      BY <2>2, <2>3, <2>4 DEF Grows
    <2>6. \A i \in 1..(k + 1) : i \in 1..k \/ i = k + 1
      OBVIOUS
    <2>7. Same(x, k + 1)
      BY <2>5, <2>6
    <2>8. QED
      BY <2>7 DEF x
  <1>8. Same(F[n], n)
    <2> HIDE DEF S, Same
    <2>1. Nat \subseteq S
      BY <1>6, <1>7, NatSetInduction
    <2> USE DEF S
    <2>2. QED
      BY <1>1, <2>1
  <1>9. F[n] = text
    <2> DEFINE g == F[n]
    <2>1. g \in Seq(T) /\ Len(g) = Len(text) /\ \A i \in 1..Len(g) : g[i] = text[i]
      BY <1>1, <1>4, <1>8 DEF n
    <2> HIDE DEF g
    <2>2. g = text
      BY <2>1, SeqEqual
    <2>3. QED
      BY <2>2 DEF g
  <1>10. QED
    BY <1>3, <1>9

LEMMA MeasurementWritten ==
    ASSUME NEW T, NEW text \in Seq(T), Back \in T
    PROVE  write_measurement_name(text, needs_measurement_escape(text)) = Escaped(text, {Comma, Space})
  <1>1. write_measurement_name(text, needs_measurement_escape(text)) =
           IF \E i \in DOMAIN text : text[i] \in {Comma, Space} THEN Escaped(text, {Comma, Space}) ELSE text
    BY Zenon DEF write_measurement_name, needs_measurement_escape, Comma, Space
  <1> DEFINE special == {Comma, Space}
  <1> HIDE DEF special
  <1>2. (\A i \in DOMAIN text : text[i] \notin special) => Escaped(text, special) = text
    BY NothingToEscape
  <1>3. QED
    BY <1>1, <1>2 DEF special

LEMMA TagValueWritten ==
    ASSUME NEW T, NEW text \in Seq(T), Back \in T
    PROVE  write_tag_value(text) = Escaped(text, Seps)
  <1>1. write_tag_value(text) = IF \E i \in DOMAIN text : text[i] \in Seps THEN Escaped(text, Seps) ELSE text
    BY Zenon DEF write_tag_value, needs_tag_escape, Seps, Comma, Equals, Space
  <1>2. (\A i \in DOMAIN text : text[i] \notin Seps) => Escaped(text, Seps) = text
    BY NothingToEscape
  <1>3. QED
    BY <1>1, <1>2

--------------------------------------------------------------------------------
(* Fields in a line.                                                            *)

\* The pair of field k is number j in X.
PairAt(X, j, k, N, V) == X[4 * j - 3] = N[k] /\ X[4 * j - 1] = V[k]

\* X is c pairs, those of the fields in A, in some order, with commas between.
Pairs(X, c, A, N, V) ==
    /\ Len(X) = IF c = 0 THEN 0 ELSE 4 * c - 1
    /\ \A j \in 1..c : X[4 * j - 2] = Equals
    /\ \A j \in 1..(c - 1) : X[4 * j] = Comma
    /\ \A j \in 1..c : \E k \in A : PairAt(X, j, k, N, V)
    /\ \A k \in A : \E j \in 1..c : PairAt(X, j, k, N, V)

\* One pair more.
LEMMA AddPair ==
    ASSUME NEW X, NEW Y, NEW c \in Nat, NEW A, NEW N, NEW V, NEW k, Pairs(X, c, A, N, V),
           Len(Y) = 4 * c + 3, \A i \in 1..(4 * c - 1) : Y[i] = X[i],
           c # 0 => Y[4 * c] = Comma,
           Y[4 * c + 1] = N[k], Y[4 * c + 2] = Equals, Y[4 * c + 3] = V[k]
    PROVE  Pairs(Y, c + 1, A \cup {k}, N, V)
  <1>1. Len(Y) = IF c + 1 = 0 THEN 0 ELSE 4 * (c + 1) - 1
    OBVIOUS
  <1>2. \A j \in 1..c : /\ 4 * j - 3 \in 1..(4 * c - 1) /\ 4 * j - 2 \in 1..(4 * c - 1)
                        /\ 4 * j - 1 \in 1..(4 * c - 1)
    OBVIOUS
  <1>3. \A j \in 1..(c - 1) : 4 * j \in 1..(4 * c - 1)
    OBVIOUS
  <1>4. \A j \in 1..(c + 1) : j \in 1..c \/ j = c + 1
    OBVIOUS
  <1>5. 4 * (c + 1) - 3 = 4 * c + 1 /\ 4 * (c + 1) - 2 = 4 * c + 2 /\ 4 * (c + 1) - 1 = 4 * c + 3
        /\ c + 1 \in 1..(c + 1)
    OBVIOUS
  <1>6. \A j \in 1..(c + 1) : Y[4 * j - 2] = Equals
    <2>1. ASSUME NEW j \in 1..c PROVE Y[4 * j - 2] = Equals
      BY <1>2 DEF Pairs
    <2>2. QED
      BY <1>4, <1>5, <2>1
  <1>7. \A j \in 1..((c + 1) - 1) : Y[4 * j] = Comma
    <2>1. ASSUME NEW j \in 1..(c - 1) PROVE Y[4 * j] = Comma
      BY <1>3 DEF Pairs
    <2>2. \A j \in 1..((c + 1) - 1) : j \in 1..(c - 1) \/ (j = c /\ c # 0)
      OBVIOUS
    <2>3. QED
      BY <2>1, <2>2
  <1>8. \A j \in 1..c : \A m : PairAt(X, j, m, N, V) => PairAt(Y, j, m, N, V)
    BY <1>2 DEF PairAt
  <1>9. PairAt(Y, c + 1, k, N, V)
    BY <1>5 DEF PairAt
  <1>10. \A j \in 1..(c + 1) : \E m \in A \cup {k} : PairAt(Y, j, m, N, V)
    <2>1. ASSUME NEW j \in 1..c PROVE \E m \in A \cup {k} : PairAt(Y, j, m, N, V)
      <3>1. PICK m \in A : PairAt(X, j, m, N, V)
        BY DEF Pairs
      <3>2. QED
        BY <1>8, <3>1
    <2>2. QED
      BY <1>4, <1>9, <2>1
  <1>11. \A m \in A \cup {k} : \E j \in 1..(c + 1) : PairAt(Y, j, m, N, V)
    <2>1. ASSUME NEW m \in A PROVE \E j \in 1..(c + 1) : PairAt(Y, j, m, N, V)
      <3>1. PICK j \in 1..c : PairAt(X, j, m, N, V)
        BY DEF Pairs
      <3>2. j \in 1..(c + 1)
        OBVIOUS
      <3>3. QED
        BY <1>8, <3>1, <3>2
    <2>2. QED
      BY <1>5, <1>9, <2>1
  <1>12. QED
    BY <1>1, <1>6, <1>7, <1>10, <1>11 DEF Pairs

FieldPiece(k, P, N, V) ==
    IF k \in P THEN (IF \E j \in 1..(k - 1) : j \in P THEN <<Comma>> ELSE <<>>) \o <<N[k], Equals, V[k]>>
               ELSE <<>>

LEMMA FieldsArePairs ==
    ASSUME NEW T, NEW s \in Seq(Seq(T)), NEW P \in SUBSET (1..Len(s)),
           NEW N \in [1..Len(s) -> T], NEW V \in [1..Len(s) -> T], Comma \in T, Equals \in T,
           \A k \in 1..Len(s) : s[k] = FieldPiece(k, P, N, V)
    PROVE  FlattenSeq(s) \in Seq(T) /\ Pairs(FlattenSeq(s), Cardinality(P), P, N, V)
  <1> DEFINE n == Len(s)
             A(k) == P \cap (1..k)
             c(k) == Cardinality(A(k))
  <1>1. n \in Nat /\ \A k \in 1..n : s[k] \in Seq(T)
    OBVIOUS
  <1>2. PICK F : Joins(T, s, F) /\ FlattenSeq(s) = F[n]
    BY FlattenJoins
  <1>3. /\ \A k \in 0..n : F[k] \in Seq(T)
        /\ F[0] = <<>>
        /\ \A k \in 1..n : F[k] = F[k - 1] \o s[k]
    BY <1>2 DEF Joins
  <1>4. \A k \in 1..n : N[k] \in T /\ V[k] \in T
    OBVIOUS
  <1>5. \A k \in Nat : IsFiniteSet(A(k)) /\ c(k) \in Nat
    <2>1. ASSUME NEW k \in Nat PROVE IsFiniteSet(A(k)) /\ c(k) \in Nat
      <3>1. IsFiniteSet(1..k) /\ A(k) \subseteq 1..k
        BY FS_Interval
      <3>2. IsFiniteSet(A(k))
        BY <3>1, FS_Subset
      <3>3. QED
        BY <3>2, FS_CardinalityType
    <2>2. QED
      BY <2>1
  <1>6. A(0) = {} /\ c(0) = 0
    BY FS_EmptySet
  <1>7. \A k \in Nat : A(k) = {} <=> c(k) = 0
    BY <1>5, FS_EmptySet
  <1>8. \A k \in 1..n : s[k] = FieldPiece(k, P, N, V)
    OBVIOUS
  <1> HIDE DEF n
  <1> DEFINE S == {k \in Nat : k <= n => Pairs(F[k], c(k), A(k), N, V)}
  <1>9. 0 \in S
    <2>1. Len(F[0]) = 0
      BY <1>3
    <2> HIDE DEF c, A
    <2>2. QED
      BY <1>6, <2>1 DEF Pairs
  <1>10. ASSUME NEW k \in Nat, k \in S PROVE k + 1 \in S
    <2> SUFFICES ASSUME k + 1 <= n PROVE Pairs(F[k + 1], c(k + 1), A(k + 1), N, V)
      OBVIOUS
    <2>1. k \in 0..n /\ k + 1 \in 1..n /\ (k + 1) - 1 = k /\ ~(k + 1 <= k)
      BY <1>1
    <2>2. Pairs(F[k], c(k), A(k), N, V)
      BY <1>10, <2>1
    <2>3. F[k + 1] = F[k] \o s[k + 1] /\ F[k] \in Seq(T)
      BY <1>3, <2>1
    <2>4. s[k + 1] = FieldPiece(k + 1, P, N, V)
      BY <1>8, <2>1
    <2>5. CASE k + 1 \notin P
      <3>1. F[k + 1] = F[k]
        <4>1. s[k + 1] = <<>>
          BY <2>4, <2>5 DEF FieldPiece
        <4>2. QED
          BY <2>3, <4>1, ConcatEmptySeq
      <3>2. A(k + 1) = A(k)
        BY <2>5
      <3>3. c(k + 1) = c(k)
        BY <3>2
      <3> HIDE DEF c, A
      <3>4. QED
        BY <2>2, <3>1, <3>2, <3>3
    <2>6. CASE k + 1 \in P
      <3>1. A(k + 1) = A(k) \cup {k + 1} /\ k + 1 \notin A(k)
        BY <2>6
      <3>2. c(k + 1) = c(k) + 1
        BY <1>5, <3>1, FS_AddElement
      <3>3. (\E j \in 1..((k + 1) - 1) : j \in P) <=> c(k) # 0
        <4>1. (k + 1) - 1 = k
          OBVIOUS
        <4>2. (\E j \in 1..k : j \in P) <=> A(k) # {}
          OBVIOUS
        <4> HIDE DEF c, A
        <4>3. A(k) = {} <=> c(k) = 0
          BY <1>7
        <4>4. QED
          BY <4>1, <4>2, <4>3
      <3> HIDE DEF c, A
      <3> DEFINE X == F[k]
                 Y == F[k + 1]
                 d == c(k)
                 p == <<N[k + 1], Equals, V[k + 1]>>
      <3>4. p \in Seq(T) /\ Len(p) = 3 /\ p[1] = N[k + 1] /\ p[2] = Equals /\ p[3] = V[k + 1]
        <4>1. N[k + 1] \in T /\ V[k + 1] \in T
          BY <1>4, <2>1
        <4>2. QED
          BY <4>1
      <3>5. d \in Nat /\ X \in Seq(T) /\ Len(X) = IF d = 0 THEN 0 ELSE 4 * d - 1
        BY <1>5, <2>2, <2>3 DEF Pairs
      <3>6. Y = X \o ((IF d # 0 THEN <<Comma>> ELSE <<>>) \o p)
        <4>1. s[k + 1] = (IF \E j \in 1..((k + 1) - 1) : j \in P THEN <<Comma>> ELSE <<>>) \o p
          BY <2>4, <2>6, Zenon DEF FieldPiece
        <4> HIDE DEF p
        <4>2. s[k + 1] = (IF d # 0 THEN <<Comma>> ELSE <<>>) \o p
          <5> DEFINE B == \E j \in 1..((k + 1) - 1) : j \in P
          <5>1. B <=> d # 0
            BY <3>3
          <5> HIDE DEF B, d
          <5>2. s[k + 1] = (IF B THEN <<Comma>> ELSE <<>>) \o p
            BY <4>1, Zenon DEF B
          <5>3. QED
            BY <5>1, <5>2, Zenon
        <4> HIDE DEF d
        <4>3. QED
          BY <2>3, <4>2, Zenon
      <3>7. Pairs(X, d, A(k), N, V)
        BY <2>2
      <3> HIDE DEF X, Y, d
      <3>8. /\ Len(Y) = 4 * d + 3
            /\ \A i \in 1..(4 * d - 1) : Y[i] = X[i]
            /\ d # 0 => Y[4 * d] = Comma
            /\ Y[4 * d + 1] = p[1] /\ Y[4 * d + 2] = p[2] /\ Y[4 * d + 3] = p[3]
        <4> HIDE DEF p
        <4>1. CASE d = 0
          <5>1. X = <<>>
            BY <3>5, <4>1
          <5>2. Y = p
            BY <3>4, <3>6, <4>1, <5>1, ConcatEmptySeq
          <5>3. QED
            BY <3>4, <4>1, <5>2
        <4>2. CASE d # 0
          <5>1. <<Comma>> \in Seq(T) /\ Len(<<Comma>>) = 1 /\ <<Comma>>[1] = Comma
            OBVIOUS
          <5> DEFINE q == <<Comma>>
                     r == q \o p
          <5>2. q \in Seq(T) /\ Len(q) = 1 /\ q[1] = Comma
            BY <5>1
          <5>3. Y = X \o r
            BY <3>6, <4>2
          <5> HIDE DEF q
          <5>4. /\ r \in Seq(T) /\ Len(r) = Len(q) + Len(p)
                /\ \A i \in 1..Len(q) + Len(p) : r[i] = IF i <= Len(q) THEN q[i] ELSE p[i - Len(q)]
            <6>1. p \in Seq(T) /\ q \in Seq(T)
              BY <3>4, <5>2
            <6>2. QED
              BY <6>1, ConcatProperties, Zenon
          <5> HIDE DEF r
          <5>5. Len(r) = 4 /\ r[1] = Comma /\ r[2] = p[1] /\ r[3] = p[2] /\ r[4] = p[3]
            BY <3>4, <5>2, <5>4
          <5>6. /\ Len(X \o r) = Len(X) + Len(r)
                /\ \A i \in 1..Len(X) + Len(r) : (X \o r)[i] = IF i <= Len(X) THEN X[i] ELSE r[i - Len(X)]
            <6>1. X \in Seq(T) /\ r \in Seq(T)
              BY <3>5, <5>4
            <6>2. QED
              BY <6>1, ConcatProperties, Zenon
          <5> DEFINE m == Len(X)
          <5>7. m \in Nat /\ m = 4 * d - 1 /\ d \in Nat
            BY <3>5, <4>2
          <5>8. Len(Y) = m + 4 /\ \A i \in 1..m + 4 : Y[i] = IF i <= m THEN X[i] ELSE r[i - m]
            BY <5>3, <5>5, <5>6
          <5> HIDE DEF m
          <5>9. Y[m + 1] = r[1] /\ Y[m + 2] = r[2] /\ Y[m + 3] = r[3] /\ Y[m + 4] = r[4]
            <6>1. \A i \in 1..4 : m + i \in 1..m + 4 /\ ~(m + i <= m) /\ (m + i) - m = i
              BY <5>7
            <6>2. QED
              BY <5>8, <6>1
          <5>10. \A i \in 1..m : Y[i] = X[i]
            BY <5>7, <5>8
          <5>11. m + 1 = 4 * d /\ m + 2 = 4 * d + 1 /\ m + 3 = 4 * d + 2 /\ m + 4 = 4 * d + 3
            BY <5>7
          <5>12. QED
            BY <5>5, <5>7, <5>8, <5>9, <5>10, <5>11
        <4>3. QED
          BY <4>1, <4>2
      <3>9. /\ Len(Y) = 4 * d + 3 /\ \A i \in 1..(4 * d - 1) : Y[i] = X[i]
            /\ d # 0 => Y[4 * d] = Comma
            /\ Y[4 * d + 1] = N[k + 1] /\ Y[4 * d + 2] = Equals /\ Y[4 * d + 3] = V[k + 1]
        BY <3>4, <3>8
      <3> HIDE DEF p
      <3>10. Pairs(Y, d + 1, A(k) \cup {k + 1}, N, V)
        BY <3>5, <3>7, <3>9, AddPair
      <3>11. QED
        BY <3>1, <3>2, <3>10 DEF Y, d
    <2>7. QED
      BY <2>5, <2>6
  <1>11. Pairs(F[n], c(n), A(n), N, V)
    <2> HIDE DEF S, c, A
    <2>1. Nat \subseteq S
      BY <1>9, <1>10, NatSetInduction
    <2> USE DEF S
    <2>2. QED
      BY <1>1, <2>1
  <1>12. A(n) = P /\ c(n) = Cardinality(P)
    <2>1. A(n) = P
      BY DEF n
    <2>2. QED
      BY <2>1
  <1>13. QED
    <2> HIDE DEF c, A
    <2>1. F[n] \in Seq(T)
      BY <1>1, <1>3
    <2>2. QED
      BY <1>2, <1>11, <1>12, <2>1

LEMMA FieldOrderFacts ==
    /\ Len(FieldOrder) = 18 /\ DOMAIN FieldOrder = 1..18
    /\ \A i, j \in 1..18 : FieldOrder[i] = FieldOrder[j] => i = j
  BY SMTT(30) DEF FieldOrder

\* The fields of a measurement as places in FieldOrder, and what is written for them.
Shown(m) == {k \in 1..18 : FieldOrder[k] \in DOMAIN m.fields}
Token(m, k) == ToString(written(FieldOrder[k], m.fields[FieldOrder[k]]))

LEMMA FieldsWritten ==
    ASSUME NEW T, NEW m, Comma \in T, Equals \in T,
           \A k \in 1..18 : FieldOrder[k] \in T /\ Token(m, k) \in T
    PROVE  /\ write_fields(m) \in Seq(T)
           /\ Pairs(write_fields(m), Cardinality(Shown(m)), Shown(m),
                    [k \in 1..18 |-> FieldOrder[k]], [k \in 1..18 |-> Token(m, k)])
  <1> DEFINE N == [k \in 1..18 |-> FieldOrder[k]]
             V == [k \in 1..18 |-> Token(m, k)]
             P == Shown(m)
             W(k) == IF FieldOrder[k] \in DOMAIN m.fields
                       THEN (IF \E j \in 1..(k - 1) : FieldOrder[j] \in DOMAIN m.fields
                               THEN <<Comma>> ELSE <<>>) \o <<FieldOrder[k], Equals, Token(m, k)>>
                       ELSE <<>>
             s == [k \in 1..18 |-> W(k)]
  <1>1. DOMAIN FieldOrder = 1..18
    BY FieldOrderFacts
  <1>2. write_fields(m) = FlattenSeq([k \in DOMAIN FieldOrder |-> W(k)])
    BY Zenon DEF write_fields, Comma, Equals, Token
  <1>3. write_fields(m) = FlattenSeq(s)
    <2> HIDE DEF W
    <2>1. QED
      BY <1>1, <1>2
  <1>4. N \in [1..18 -> T] /\ V \in [1..18 -> T]
    OBVIOUS
  <1>5. P \in SUBSET (1..18)
    BY DEF Shown
  <1>6. ASSUME NEW k \in 1..18 PROVE W(k) = FieldPiece(k, P, N, V)
    <2> DEFINE A == \E j \in 1..(k - 1) : FieldOrder[j] \in DOMAIN m.fields
               B == \E j \in 1..(k - 1) : j \in P
               p == <<FieldOrder[k], Equals, Token(m, k)>>
    <2>1. A <=> B
      <3>1. \A j \in 1..(k - 1) : j \in 1..18
        OBVIOUS
      <3>2. QED
        BY <3>1 DEF Shown
    <2>2. FieldOrder[k] \in DOMAIN m.fields <=> k \in P
      BY DEF Shown
    <2>3. N[k] = FieldOrder[k] /\ V[k] = Token(m, k)
      OBVIOUS
    <2> HIDE DEF P, N, V
    <2>4. FieldPiece(k, P, N, V) = IF k \in P THEN (IF B THEN <<Comma>> ELSE <<>>) \o p ELSE <<>>
      BY <2>3 DEF FieldPiece
    <2>5. W(k) = IF FieldOrder[k] \in DOMAIN m.fields THEN (IF A THEN <<Comma>> ELSE <<>>) \o p ELSE <<>>
      OBVIOUS
    <2> DEFINE D == FieldOrder[k] \in DOMAIN m.fields
               K == k \in P
               x == <<Comma>> \o p
               y == <<>> \o p
    <2>6. FieldPiece(k, P, N, V) = IF K THEN (IF B THEN x ELSE y) ELSE <<>>
      BY <2>4, Zenon
    <2>7. W(k) = IF D THEN (IF A THEN x ELSE y) ELSE <<>>
      BY <2>5, Zenon
    <2>8. D <=> K
      BY <2>2
    <2> HIDE DEF A, B, p, W, D, K, x, y
    <2>9. QED
      BY <2>1, <2>6, <2>7, <2>8
  <1>7. ASSUME NEW k \in 1..18 PROVE W(k) \in Seq(T)
    <2> DEFINE p == <<FieldOrder[k], Equals, Token(m, k)>>
               q == IF \E j \in 1..(k - 1) : FieldOrder[j] \in DOMAIN m.fields THEN <<Comma>> ELSE <<>>
    <2>1. p \in Seq(T) /\ q \in Seq(T)
      OBVIOUS
    <2>2. q \o p \in Seq(T)
      <3> HIDE DEF p, q
      <3>1. QED
        BY <2>1, ConcatProperties
    <2>3. <<>> \in Seq(T)
      OBVIOUS
    <2>4. W(k) = IF FieldOrder[k] \in DOMAIN m.fields THEN q \o p ELSE <<>>
      OBVIOUS
    <2> HIDE DEF p, q, W
    <2>5. QED
      BY <2>2, <2>3, <2>4
  <1> HIDE DEF W, N, V, P
  <1>8. s \in Seq(Seq(T)) /\ Len(s) = 18 /\ \A k \in 1..18 : s[k] = W(k)
    <2> DEFINE Q == Seq(T)
    <2>1. \A k \in 1..18 : W(k) \in Q
      BY <1>7
    <2> HIDE DEF Q
    <2>2. s \in Seq(Q) /\ Len(s) = 18
      BY <2>1
    <2>3. QED
      BY <2>2 DEF Q
  <1>9. \A k \in 1..18 : s[k] = FieldPiece(k, P, N, V)
    BY <1>6, <1>8
  <1> HIDE DEF s
  <1>10. FlattenSeq(s) \in Seq(T) /\ Pairs(FlattenSeq(s), Cardinality(P), P, N, V)
    BY <1>4, <1>5, <1>8, <1>9, FieldsArePairs
  <1>11. QED
    BY <1>3, <1>10 DEF P, N, V

LEMMA ShownCount ==
    ASSUME NEW m, DOMAIN m.fields \subseteq {FieldOrder[k] : k \in 1..18}
    PROVE  /\ Cardinality(Shown(m)) = Cardinality(DOMAIN m.fields)
           /\ Cardinality(Shown(m)) \in Nat
           /\ {FieldOrder[k] : k \in Shown(m)} = DOMAIN m.fields
           /\ DOMAIN m.fields # {} => Cardinality(Shown(m)) # 0
  <1> DEFINE P == Shown(m)
             D == DOMAIN m.fields
             f == [k \in P |-> FieldOrder[k]]
  <1>1. P \subseteq 1..18 /\ IsFiniteSet(1..18)
    <2>1. 1 \in Int /\ 18 \in Int
      OBVIOUS
    <2>2. IsFiniteSet(1..18)
      BY <2>1, FS_Interval, Zenon
    <2>3. QED
      BY <2>2 DEF Shown
  <1>2. IsFiniteSet(P) /\ Cardinality(P) \in Nat
    <2>1. IsFiniteSet(P)
      BY <1>1, FS_Subset
    <2>2. QED
      BY <2>1, FS_CardinalityType
  <1>3. f \in [P -> D]
    BY DEF Shown
  <1>4. \A d \in D : \E k \in P : f[k] = d
    BY DEF Shown
  <1>5. \A a, b \in P : f[a] = f[b] => a = b
    BY <1>1, FieldOrderFacts
  <1> HIDE DEF P, D, f
  <1>6. f \in Bijection(P, D)
    BY <1>3, <1>4, <1>5, Fun_IsBij
  <1>7. Cardinality(D) = Cardinality(P)
    BY <1>2, <1>6, FS_Bijection DEF ExistsBijection
  <1>8. {FieldOrder[k] : k \in P} = D
    BY <1>3, <1>4 DEF f
  <1>9. D # {} => Cardinality(P) # 0
    BY <1>2, <1>8, FS_EmptySet
  <1>10. QED
    BY <1>2, <1>7, <1>8, <1>9 DEF P, D

\* Text that stands for itself: neither a separator nor a backslash.
Inert(x) == x \notin Seps /\ x # Back

LEMMA FieldTokens ==
    ASSUME NEW T, NEW X \in Seq(T), NEW c \in Nat \ {0}, NEW A, NEW N, NEW V, Pairs(X, c, A, N, V),
           \A k \in A : Inert(N[k]) /\ Inert(V[k])
    PROVE  /\ Len(X) = 4 * c - 1
           /\ \A i \in 1..Len(X) : X[i] = Comma <=> i % 4 = 0
           /\ \A i \in 1..Len(X) : X[i] = Equals <=> i % 4 = 2
           /\ \A i \in 1..Len(X) : X[i] # Space /\ X[i] # Back
  <1>1. Len(X) = 4 * c - 1
    BY DEF Pairs
  <1>2. ASSUME NEW j \in 1..c PROVE Inert(X[4 * j - 3]) /\ Inert(X[4 * j - 1]) /\ X[4 * j - 2] = Equals
    <2>1. PICK k \in A : PairAt(X, j, k, N, V)
      BY DEF Pairs
    <2>2. QED
      BY <2>1 DEF Pairs, PairAt
  <1>3. \A j \in 1..(c - 1) : X[4 * j] = Comma
    BY DEF Pairs
  <1>4. ASSUME NEW i \in 1..Len(X)
        PROVE  /\ X[i] = Comma <=> i % 4 = 0
               /\ X[i] = Equals <=> i % 4 = 2
               /\ X[i] # Space /\ X[i] # Back
    <2> DEFINE h == i \div 4
               j == h + 1
    <2>1. \/ i % 4 = 1 /\ j \in 1..c /\ i = 4 * j - 3
          \/ i % 4 = 2 /\ j \in 1..c /\ i = 4 * j - 2
          \/ i % 4 = 3 /\ j \in 1..c /\ i = 4 * j - 1
          \/ i % 4 = 0 /\ h \in 1..(c - 1) /\ i = 4 * h
      <3>1. i \in Nat /\ i >= 1 /\ i <= 4 * c - 1
        BY <1>1
      <3>2. h \in Nat /\ i % 4 \in 0..3 /\ i = 4 * h + (i % 4)
        BY <3>1
      <3>3. \A r, g \in Nat : r \in 0..3 /\ i = 4 * g + r =>
               \/ r = 1 /\ g + 1 \in 1..c /\ i = 4 * (g + 1) - 3
               \/ r = 2 /\ g + 1 \in 1..c /\ i = 4 * (g + 1) - 2
               \/ r = 3 /\ g + 1 \in 1..c /\ i = 4 * (g + 1) - 1
               \/ r = 0 /\ g \in 1..(c - 1) /\ i = 4 * g
        BY <3>1
      <3> HIDE DEF h
      <3>4. i % 4 \in Nat
        BY <3>2
      <3>5. QED
        BY <3>2, <3>3, <3>4
    <2> HIDE DEF j, h
    <2>2. CASE i % 4 = 1 /\ j \in 1..c /\ i = 4 * j - 3
      BY <1>2, <2>2 DEF Inert, Seps
    <2>3. CASE i % 4 = 2 /\ j \in 1..c /\ i = 4 * j - 2
      BY <1>2, <2>3, SeparatorsDiffer
    <2>4. CASE i % 4 = 3 /\ j \in 1..c /\ i = 4 * j - 1
      BY <1>2, <2>4 DEF Inert, Seps
    <2>5. CASE i % 4 = 0 /\ h \in 1..(c - 1) /\ i = 4 * h
      BY <1>3, <2>5, SeparatorsDiffer
    <2>6. QED
      BY <2>1, <2>2, <2>3, <2>4, <2>5
  <1>5. QED
    BY <1>1, <1>4

--------------------------------------------------------------------------------
(* A line, and where things stand in it.                                        *)

LEMMA BareIs ==
    ASSUME NEW X, NEW c
    PROVE  Bare(X, c) = {i \in DOMAIN X : X[i] = c /\ (i = 1 \/ X[i - 1] # Back)}
  BY Zenon DEF Bare, Back

\* Where two sequences that are joined end up.
LEMMA InJoined ==
    ASSUME NEW T, NEW X \in Seq(T), NEW Y \in Seq(T)
    PROVE  /\ X \o Y \in Seq(T)
           /\ Len(X) \in Nat /\ Len(Y) \in Nat /\ Len(X \o Y) = Len(X) + Len(Y)
           /\ DOMAIN X = 1..Len(X) /\ DOMAIN Y = 1..Len(Y) /\ DOMAIN (X \o Y) = 1..(Len(X) + Len(Y))
           /\ \A i \in 1..Len(X) : (X \o Y)[i] = X[i]
           /\ \A i \in 1..Len(Y) : (X \o Y)[Len(X) + i] = Y[i]
  <1> DEFINE Z == X \o Y
  <1>1. X \in Seq(T) /\ Y \in Seq(T)
    OBVIOUS
  <1>2. /\ Len(Z) = Len(X) + Len(Y)
        /\ \A i \in 1..(Len(X) + Len(Y)) : Z[i] = IF i <= Len(X) THEN X[i] ELSE Y[i - Len(X)]
    BY ConcatProperties, Zenon
  <1>3. Z \in Seq(T)
    BY ConcatProperties
  <1> HIDE DEF Z
  <1>4. /\ Len(X) \in Nat /\ Len(Y) \in Nat
        /\ DOMAIN X = 1..Len(X) /\ DOMAIN Y = 1..Len(Y) /\ DOMAIN Z = 1..Len(Z)
    BY <1>3
  <1>5. \A i \in 1..Len(X) : i \in 1..(Len(X) + Len(Y)) /\ i <= Len(X)
    BY <1>4
  <1>6. \A i \in 1..Len(Y) : Len(X) + i \in 1..(Len(X) + Len(Y)) /\ ~(Len(X) + i <= Len(X))
                             /\ (Len(X) + i) - Len(X) = i
    BY <1>4
  <1>7. QED
    BY <1>2, <1>3, <1>4, <1>5, <1>6 DEF Z

LEMMA LengthJoined ==
    ASSUME NEW T, NEW X \in Seq(T), NEW Y \in Seq(T)
    PROVE  X \o Y \in Seq(T) /\ Len(X \o Y) = Len(X) + Len(Y)
  BY InJoined, Zenon

\* The last token is no backslash.
Ends(X) == X # <<>> /\ X[Len(X)] # Back

\* The same, or no token at all.
Closed(X) == X = <<>> \/ Ends(X)

\* What joining with an empty text does.
LEMMA EmptyJoined ==
    ASSUME NEW T, NEW X \in Seq(T)
    PROVE  <<>> \o X = X /\ X \o <<>> = X
  OBVIOUS

LEMMA EndOfJoined ==
    ASSUME NEW T, NEW X \in Seq(T), NEW Y \in Seq(T), Ends(Y)
    PROVE  Ends(X \o Y)
  <1>1. Len(Y) \in Nat /\ Len(Y) # 0
    BY DEF Ends
  <1>2. Len(X \o Y) = Len(X) + Len(Y) /\ (X \o Y)[Len(X) + Len(Y)] = Y[Len(Y)] /\ Len(X) \in Nat
        /\ X \o Y \in Seq(T)
    BY <1>1, InJoined
  <1> DEFINE Z == X \o Y
  <1> HIDE DEF Z
  <1>3. Z # <<>>
    BY <1>1, <1>2 DEF Z
  <1>4. QED
    BY <1>2, <1>3 DEF Ends, Z

LEMMA EndOfClosed ==
    ASSUME NEW T, NEW X \in Seq(T), NEW Y \in Seq(T), Ends(X), Closed(Y)
    PROVE  Ends(X \o Y)
  <1>1. CASE Y = <<>>
    BY <1>1, EmptyJoined
  <1>2. CASE Ends(Y)
    BY <1>2, EndOfJoined
  <1>3. QED
    BY <1>1, <1>2 DEF Closed

\* The separators that count in two texts that are joined are those that count in
\* the one and those that count in the other.
LEMMA BareOfJoined ==
    ASSUME NEW T, NEW X \in Seq(T), NEW Y \in Seq(T), NEW c, Ends(X)
    PROVE  Bare(X \o Y, c) = Bare(X, c) \cup {Len(X) + i : i \in Bare(Y, c)}
  <1> DEFINE Z == X \o Y
             n == Len(X)
             m == Len(Y)
             B(W) == {i \in DOMAIN W : W[i] = c /\ (i = 1 \/ W[i - 1] # Back)}
  <1>1. /\ n \in Nat /\ m \in Nat /\ DOMAIN X = 1..n /\ DOMAIN Y = 1..m /\ DOMAIN Z = 1..(n + m)
        /\ \A i \in 1..n : Z[i] = X[i]
        /\ \A i \in 1..m : Z[n + i] = Y[i]
    BY InJoined
  <1>2. n # 0 /\ X[n] # Back
    BY DEF Ends
  <1>3. Bare(X, c) = B(X) /\ Bare(Y, c) = B(Y) /\ Bare(Z, c) = B(Z)
    BY BareIs
  <1> HIDE DEF Z, n, m
  <1>4. ASSUME NEW i \in 1..n PROVE i \in B(Z) <=> i \in B(X)
    <2>1. i \in 1..(n + m) /\ (i # 1 => i - 1 \in 1..n)
      BY <1>1
    <2>2. QED
      BY <1>1, <2>1
  <1>5. ASSUME NEW i \in 1..m PROVE n + i \in B(Z) <=> i \in B(Y)
    <2>1. n + i \in 1..(n + m) /\ n + i # 1 /\ (i = 1 => (n + i) - 1 = n)
          /\ (i # 1 => i - 1 \in 1..m /\ (n + i) - 1 = n + (i - 1)) /\ n \in 1..n
      BY <1>1, <1>2
    <2>2. (n + i \in B(Z)) <=> (Y[i] = c /\ Z[(n + i) - 1] # Back)
      BY <1>1, <2>1
    <2>3. i = 1 => Z[(n + i) - 1] = X[n]
      BY <1>1, <2>1
    <2>4. i # 1 => Z[(n + i) - 1] = Y[i - 1]
      BY <1>1, <2>1
    <2>5. (i \in B(Y)) <=> (Y[i] = c /\ (i = 1 \/ Y[i - 1] # Back))
      BY <1>1
    <2> HIDE DEF B
    <2>6. QED
      BY <1>2, <2>2, <2>3, <2>4, <2>5
  <1>6. B(Z) \subseteq 1..(n + m) /\ B(X) \subseteq 1..n /\ B(Y) \subseteq 1..m
    BY <1>1
  <1> HIDE DEF B
  <1>7. \A i \in 1..(n + m) : i \in 1..n \/ (i - n \in 1..m /\ i = n + (i - n))
    BY <1>1
  <1>8. B(Z) = B(X) \cup {n + i : i \in B(Y)}
    <2>1. ASSUME NEW i \in B(Z) PROVE i \in B(X) \cup {n + j : j \in B(Y)}
      BY <1>4, <1>5, <1>6, <1>7
    <2>2. ASSUME NEW i \in B(X) PROVE i \in B(Z)
      BY <1>4, <1>6
    <2>3. ASSUME NEW j \in B(Y) PROVE n + j \in B(Z)
      BY <1>5, <1>6
    <2>4. QED
      BY <2>1, <2>2, <2>3
  <1>9. QED
    BY <1>3, <1>8 DEF Z, n

LEMMA BareOfClosed ==
    ASSUME NEW T, NEW X \in Seq(T), NEW Y \in Seq(T), NEW c, Closed(X)
    PROVE  Bare(X \o Y, c) = Bare(X, c) \cup {Len(X) + i : i \in Bare(Y, c)}
  <1>1. CASE X = <<>>
    <2>1. X \o Y = Y /\ Len(X) = 0
      BY <1>1, EmptyJoined
    <2>2. Bare(X, c) = {}
      BY <1>1, BareIs
    <2>3. Bare(Y, c) \subseteq Nat
      BY BareIs
    <2>4. {Len(X) + i : i \in Bare(Y, c)} = Bare(Y, c)
      BY <2>1, <2>3
    <2>5. QED
      BY <2>1, <2>2, <2>4
  <1>2. CASE Ends(X)
    BY <1>2, BareOfJoined
  <1>3. QED
    BY <1>1, <1>2 DEF Closed

\* A text in which every c stands behind a backslash.
LEMMA NoneBare ==
    ASSUME NEW T, NEW X \in Seq(T), NEW c,
           \A i \in 1..Len(X) : X[i] = c => i > 1 /\ X[i - 1] = Back
    PROVE  Bare(X, c) = {}
  BY BareIs


\* Each of two sequences that are joined can be cut out again.
LEMMA CutJoined ==
    ASSUME NEW T, NEW X \in Seq(T), NEW Y \in Seq(T)
    PROVE  /\ SubSeq(X \o Y, 1, Len(X)) = X
           /\ SubSeq(X \o Y, Len(X) + 1, Len(X) + Len(Y)) = Y
  <1>1. Len(X) \in Nat /\ Len(Y) \in Nat /\ (X # <<>> => Len(X) # 0) /\ (Y # <<>> => Len(Y) # 0)
    OBVIOUS
  <1>2. ASSUME X # <<>> PROVE SubSeq(X \o Y, 1, Len(X)) = X
    <2>1. 1 \in 1..Len(X) /\ Len(X) \in 1..Len(X)
      BY <1>1, <1>2
    <2>2. SubSeq(X \o Y, 1, Len(X)) = SubSeq(X, 1, Len(X))
      BY <2>1, SubSeqOfConcat1, Zenon
    <2>3. QED
      BY <2>2, SubSeqFull, Zenon
  <1>3. ASSUME Y # <<>> PROVE SubSeq(X \o Y, Len(X) + 1, Len(X) + Len(Y)) = Y
    <2>1. /\ Len(X) + 1 \in (Len(X) + 1)..(Len(X) + Len(Y))
          /\ Len(X) + Len(Y) \in (Len(X) + 1)..(Len(X) + Len(Y))
          /\ (Len(X) + 1) - Len(X) = 1 /\ (Len(X) + Len(Y)) - Len(X) = Len(Y)
      BY <1>1, <1>3
    <2>2. SubSeq(X \o Y, Len(X) + 1, Len(X) + Len(Y))
             = SubSeq(Y, (Len(X) + 1) - Len(X), (Len(X) + Len(Y)) - Len(X))
      BY <2>1, SubSeqOfConcat2, ZenonT(40)
    <2>3. SubSeq(Y, 1, Len(Y)) = Y
      BY SubSeqFull, Zenon
    <2>4. QED
      BY <2>1, <2>2, <2>3, Zenon
  <1>4. ASSUME X = <<>> PROVE SubSeq(X \o Y, 1, Len(X)) = X
    <2>1. Len(X) = 0 /\ 1 \in Int /\ Len(X) \in Int /\ Len(X) < 1
      BY <1>4
    <2>2. QED
      BY <1>4, <2>1, SubSeqEmpty, Zenon
  <1>5. ASSUME Y = <<>> PROVE SubSeq(X \o Y, Len(X) + 1, Len(X) + Len(Y)) = Y
    <2>1. Len(X) + 1 \in Int /\ Len(X) + Len(Y) \in Int /\ Len(X) + Len(Y) < Len(X) + 1
      BY <1>1, <1>5
    <2>2. QED
      BY <1>5, <2>1, SubSeqEmpty, Zenon
  <1>6. QED
    BY <1>2, <1>3, <1>4, <1>5

\* A head, the fields and the time of a line, between bare spaces.
Line(K, F, ts) == ((K \o <<Space>>) \o F) \o <<Space, ts>>

\* The two bare spaces of a line, and what they cut it into.
SpacesAt(L, K, F, ts) ==
    /\ Bare(L, Space) = {Len(K) + 1, Len(K) + Len(F) + 2}
    /\ SubSeq(L, 1, Len(K)) = K
    /\ SubSeq(L, Len(K) + 2, Len(K) + Len(F) + 1) = F
    /\ SubSeq(L, Len(K) + Len(F) + 3, Len(L)) = <<ts>>

LEMMA LineSpaces ==
    ASSUME NEW T, NEW K \in Seq(T), NEW F \in Seq(T), NEW ts \in T, Space \in T,
           Ends(K), Ends(F), Bare(K, Space) = {}, \A i \in 1..Len(F) : F[i] # Space, ts # Space
    PROVE  SpacesAt(Line(K, F, ts), K, F, ts)
  <1> DEFINE s == <<Space>>
             t == <<Space, ts>>
             k == Len(K)
             f == Len(F)
             A == K \o s
             B == A \o F
             L == B \o t
  <1>1. s \in Seq(T) /\ Len(s) = 1 /\ s[1] = Space /\ DOMAIN s = {1}
    OBVIOUS
  <1>2. t \in Seq(T) /\ Len(t) = 2 /\ t[1] = Space /\ t[2] = ts /\ DOMAIN t = {1, 2}
    OBVIOUS
  <1>3. Space # Back
    BY SeparatorsDiffer
  <1> HIDE DEF s, t
  <1>4. A \in Seq(T) /\ Len(A) = k + 1 /\ k \in Nat /\ f \in Nat /\ k # 0 /\ f # 0
    <2>1. Len(K) \in Nat /\ Len(F) \in Nat /\ Len(K) # 0 /\ Len(F) # 0
      BY DEF Ends
    <2>2. s \in Seq(T) /\ Len(s) = 1
      BY <1>1
    <2>3. A \in Seq(T) /\ Len(A) = Len(K) + Len(s)
      BY <2>2, LengthJoined, Zenon
    <2>4. QED
      BY <2>1, <2>2, <2>3
  <1>5. B \in Seq(T) /\ Len(B) = k + 1 + f
    <2> HIDE DEF A
    <2>1. B \in Seq(T) /\ Len(B) = Len(A) + Len(F)
      BY <1>4, LengthJoined, Zenon
    <2>2. QED
      BY <1>4, <2>1
  <1>6. L \in Seq(T) /\ Len(L) = k + 1 + f + 2
    <2> HIDE DEF B
    <2>1. B \in Seq(T) /\ t \in Seq(T) /\ Len(t) = 2
      BY <1>2, <1>5
    <2>2. L \in Seq(T) /\ Len(L) = Len(B) + Len(t)
      BY <2>1, LengthJoined, Zenon
    <2>3. QED
      BY <1>5, <2>1, <2>2
  <1>7. Ends(s)
    <2>1. Len(s) = 1 /\ s # <<>>
      BY <1>1
    <2>2. s[Len(s)] = Space
      BY <1>1
    <2>3. QED
      BY <1>3, <2>1, <2>2 DEF Ends
  <1>8. Ends(A)
    BY <1>1, <1>7, EndOfJoined
  <1>9. Ends(B)
    <2> HIDE DEF A
    <2>1. QED
      BY <1>4, EndOfJoined
  <1>10. Bare(A, Space) = {k + 1}
    <2>1. Bare(s, Space) = {1}
      BY <1>1, BareIs
    <2>2. Bare(A, Space) = Bare(K, Space) \cup {k + i : i \in Bare(s, Space)}
      BY <1>1, BareOfJoined
    <2> HIDE DEF A, k
    <2>3. QED
      BY <2>1, <2>2
  <1>11. Bare(F, Space) = {}
    BY BareIs, InJoined
  <1>12. Bare(B, Space) = {k + 1}
    <2> HIDE DEF A
    <2>1. Bare(B, Space) = Bare(A, Space) \cup {Len(A) + i : i \in Bare(F, Space)}
      BY <1>4, <1>8, BareOfJoined
    <2>2. QED
      BY <1>10, <1>11, <2>1
  <1>13. Bare(L, Space) = {k + 1, k + f + 2}
    <2> HIDE DEF B
    <2>0. B \in Seq(T) /\ t \in Seq(T)
      BY <1>2, <1>5
    <2>1. Bare(L, Space) = Bare(B, Space) \cup {Len(B) + i : i \in Bare(t, Space)}
      BY <1>9, <2>0, BareOfJoined
    <2>2. Bare(t, Space) = {1}
      BY <1>2, BareIs
    <2>3. {Len(B) + i : i \in Bare(t, Space)} = {Len(B) + 1}
      BY <2>2
    <2>4. Len(B) + 1 = k + f + 2
      BY <1>4, <1>5
    <2> HIDE DEF L, k, f
    <2>5. QED
      BY <1>12, <2>1, <2>3, <2>4
  <1>14. SubSeq(L, 1, k) = K /\ SubSeq(L, k + 2, k + f + 1) = F
    <2>1. SubSeq(A, 1, k) = K
      BY <1>1, CutJoined DEF Ends
    <2>2. SubSeq(B, 1, k) = SubSeq(A, 1, k)
      <3> HIDE DEF A
      <3>1. 1 \in 1..Len(A) /\ k \in 1..Len(A)
        BY <1>4
      <3> HIDE DEF k
      <3>2. QED
        BY <1>4, <3>1, SubSeqOfConcat1
    <2>3. SubSeq(B, k + 2, k + f + 1) = F
      <3> HIDE DEF A
      <3>1. SubSeq(B, Len(A) + 1, Len(A) + Len(F)) = F
        BY <1>4, CutJoined DEF Ends
      <3>2. Len(A) + 1 = k + 2 /\ Len(A) + Len(F) = k + f + 1
        BY <1>4
      <3>3. QED
        BY <3>1, <3>2
    <2>4. ASSUME NEW p \in 1..Len(B), NEW q \in 1..Len(B) PROVE SubSeq(L, p, q) = SubSeq(B, p, q)
      <3> HIDE DEF B
      <3>1. QED
        BY <1>2, <1>5, SubSeqOfConcat1
    <2>5. 1 \in 1..Len(B) /\ k \in 1..Len(B) /\ k + 2 \in 1..Len(B) /\ k + f + 1 \in 1..Len(B)
      BY <1>4, <1>5
    <2> HIDE DEF A, B, L, k, f
    <2>6. QED
      BY <2>1, <2>2, <2>3, <2>4, <2>5
  <1>15. SubSeq(L, k + f + 3, Len(L)) = <<ts>>
    <2> HIDE DEF B
    <2>1. k + f + 3 \in (Len(B) + 1)..(Len(B) + Len(t)) /\ Len(L) \in (Len(B) + 1)..(Len(B) + Len(t))
          /\ (k + f + 3) - Len(B) = 2 /\ Len(L) - Len(B) = 2
      BY <1>2, <1>4, <1>5, <1>6
    <2>2. SubSeq(L, k + f + 3, Len(L)) = SubSeq(t, 2, 2)
      <3> DEFINE p == k + f + 3
                 q == Len(L)
      <3>1. p \in (Len(B) + 1)..(Len(B) + Len(t)) /\ q \in (Len(B) + 1)..(Len(B) + Len(t))
        BY <2>1
      <3> HIDE DEF p, q
      <3>2. B \in Seq(T) /\ t \in Seq(T)
        BY <1>2, <1>5
      <3>3. SubSeq(L, p, q) = SubSeq(t, p - Len(B), q - Len(B))
        BY <3>1, <3>2, SubSeqOfConcat2
      <3>4. QED
        BY <2>1, <3>3 DEF p, q
    <2>3. SubSeq(t, 2, 2) = <<ts>>
      <3> DEFINE u == SubSeq(t, 2, 2)
      <3>1. 2 \in 1..(Len(t) + 1) /\ 2 \in (2 - 1)..Len(t) /\ (2 - 2) + 1 = 1
        BY <1>2
      <3>2. t \in Seq(T)
        BY <1>2
      <3>3. u \in Seq(T) /\ Len(u) = (2 - 2) + 1 /\ \A i \in 1..((2 - 2) + 1) : u[i] = t[2 + i - 1]
        BY <3>1, <3>2, SubSeqProperties
      <3>4. Len(u) = 1 /\ u[1] = ts
        BY <1>2, <3>1, <3>3
      <3> HIDE DEF u
      <3>5. u = <<ts>>
        BY <3>3, <3>4
      <3>6. QED
        BY <3>5 DEF u
    <2>4. QED
      BY <2>2, <2>3
  <1>16. Line(K, F, ts) = L
    BY Zenon DEF Line, s, t
  <1> HIDE DEF A, B, L
  <1>17. QED
    BY <1>13, <1>14, <1>15, <1>16 DEF SpacesAt

MacTag == "mac"
NameTag == "name"

\* The tags between the two names of a head.
Tags(mac) == <<Comma, MacTag, Equals, mac, Comma, NameTag, Equals>>

LEMMA TagsFacts ==
    ASSUME NEW T, NEW mac \in T, Comma \in T, Equals \in T, MacTag \in T, NameTag \in T, Inert(mac)
    PROVE  /\ Tags(mac) \in Seq(T) /\ Len(Tags(mac)) = 7 /\ Ends(Tags(mac))
           /\ Bare(Tags(mac), Comma) = {1, 5} /\ Bare(Tags(mac), Equals) = {3, 7}
           /\ Bare(Tags(mac), Space) = {}
           /\ SubSeq(Tags(mac), 1, 5) = <<Comma, MacTag, Equals, mac, Comma>>
           /\ SubSeq(Tags(mac), 6, 7) = <<NameTag, Equals>>
  <1> DEFINE H == Tags(mac)
  <1>1. /\ MacTag # Comma /\ MacTag # Equals /\ MacTag # Space /\ MacTag # Back
        /\ NameTag # Comma /\ NameTag # Equals /\ NameTag # Space /\ NameTag # Back
    BY Zenon DEF MacTag, NameTag, Comma, Equals, Space, Back
  <1>2. mac # Comma /\ mac # Equals /\ mac # Space /\ mac # Back
    BY DEF Inert, Seps
  <1>3. /\ Comma # Equals /\ Comma # Space /\ Equals # Space
        /\ Back # Comma /\ Back # Equals /\ Back # Space
    BY SeparatorsDiffer
  <1>4. /\ H \in Seq(T) /\ Len(H) = 7 /\ DOMAIN H = 1..7
        /\ H[1] = Comma /\ H[2] = MacTag /\ H[3] = Equals /\ H[4] = mac /\ H[5] = Comma
        /\ H[6] = NameTag /\ H[7] = Equals
    BY DEF Tags
  <1> HIDE DEF H
  <1>5. Ends(H)
    <2>1. H # <<>>
      BY <1>4, SMTT(30)
    <2>2. QED
      BY <1>3, <1>4, <2>1 DEF Ends
  <1> DEFINE B(c) == {i \in 1..7 : H[i] = c /\ (i = 1 \/ H[i - 1] # Back)}
  <1>6. \A c : Bare(H, c) = B(c)
    BY <1>4, BareIs
  <1>7. \A i \in 1..7 : i = 1 \/ i = 2 \/ i = 3 \/ i = 4 \/ i = 5 \/ i = 6 \/ i = 7
    OBVIOUS
  <1>8. \A i \in 1..7 : H[i] # Back
    BY <1>1, <1>2, <1>3, <1>4, <1>7
  <1>9. B(Comma) = {1, 5}
    <2>1. \A i \in 1..7 : H[i] = Comma <=> i \in {1, 5}
      BY <1>1, <1>2, <1>3, <1>4, <1>7
    <2>2. \A i \in {1, 5} : i \in 1..7 /\ (i # 1 => i - 1 \in 1..7)
      OBVIOUS
    <2>3. QED
      BY <1>8, <2>1, <2>2
  <1>10. B(Equals) = {3, 7}
    <2>1. \A i \in 1..7 : H[i] = Equals <=> i \in {3, 7}
      BY <1>1, <1>2, <1>3, <1>4, <1>7
    <2>2. \A i \in {3, 7} : i \in 1..7 /\ i - 1 \in 1..7
      OBVIOUS
    <2>3. QED
      BY <1>8, <2>1, <2>2
  <1>11. B(Space) = {}
    <2>1. \A i \in 1..7 : H[i] # Space
      BY <1>1, <1>2, <1>3, <1>4, <1>7
    <2>2. QED
      BY <2>1
  <1> HIDE DEF B
  <1> DEFINE u == SubSeq(H, 1, 5)
             v == SubSeq(H, 6, 7)
  <1>12. u = <<Comma, MacTag, Equals, mac, Comma>>
    <2>1. \A i \in 1..5 : H[i] \in T
      BY <1>4
    <2>2. u \in Seq(T) /\ Len(u) = 5 /\ \A i \in 1..5 : u[i] = H[i]
      BY <2>1, SubSeqProperties
    <2> HIDE DEF u
    <2>3. u[1] = Comma /\ u[2] = MacTag /\ u[3] = Equals /\ u[4] = mac /\ u[5] = Comma
      BY <1>4, <2>2
    <2>4. QED
      BY <2>2, <2>3
  <1>13. v = <<NameTag, Equals>>
    <2>1. \A i \in 6..7 : H[i] \in T
      BY <1>4
    <2>2. v \in Seq(T) /\ Len(v) = 2 /\ \A i \in 1..2 : v[i] = H[6 + i - 1]
      BY <2>1, SubSeqProperties
    <2> HIDE DEF v
    <2>3. v[1] = NameTag /\ v[2] = Equals
      BY <1>4, <2>2
    <2>4. QED
      BY <2>2, <2>3
  <1>14. QED
    BY <1>4, <1>5, <1>6, <1>9, <1>10, <1>11, <1>12, <1>13 DEF H

\* The head of a line: the two names and the tags between them.
LineHead(M, mac, V) == M \o (Tags(mac) \o V)

\* The bare separators of a head, and what they cut it into.
TagsAt(K, M, mac, V) ==
    LET a == Len(M) IN
    /\ Len(K) = a + 7 + Len(V)
    /\ Bare(K, Comma) = {a + 1, a + 5} /\ Bare(K, Space) = {}
    /\ Bare(SubSeq(K, a + 1, Len(K)), Equals) = {3, 7}
    /\ SubSeq(K, 1, a) = M
    /\ SubSeq(K, a + 1, a + 5) = <<Comma, MacTag, Equals, mac, Comma>>
    /\ SubSeq(K, a + 6, a + 7) = <<NameTag, Equals>>
    /\ SubSeq(K, a + 8, Len(K)) = V

LEMMA HeadTags ==
    ASSUME NEW T, NEW M \in Seq(T), NEW V \in Seq(T), NEW mac \in T,
           Comma \in T, Equals \in T, MacTag \in T, NameTag \in T, Inert(mac), Closed(M), Closed(V),
           Bare(M, Comma) = {}, Bare(M, Space) = {}, \A c \in Seps : Bare(V, c) = {}
    PROVE  /\ LineHead(M, mac, V) \in Seq(T) /\ Ends(LineHead(M, mac, V))
           /\ TagsAt(LineHead(M, mac, V), M, mac, V)
  <1> DEFINE H == Tags(mac)
             a == Len(M)
             b == Len(V)
             W == H \o V
             K == M \o W
  <1>1. /\ H \in Seq(T) /\ Len(H) = 7 /\ Ends(H)
        /\ Bare(H, Comma) = {1, 5} /\ Bare(H, Equals) = {3, 7} /\ Bare(H, Space) = {}
        /\ SubSeq(H, 1, 5) = <<Comma, MacTag, Equals, mac, Comma>>
        /\ SubSeq(H, 6, 7) = <<NameTag, Equals>>
    BY TagsFacts
  <1>2. a \in Nat /\ b \in Nat
    OBVIOUS
  <1> HIDE DEF H
  <1>3. W \in Seq(T) /\ Len(W) = 7 + b /\ W # <<>> /\ Ends(W)
    <2>1. H \in Seq(T) /\ Len(H) = 7
      BY <1>1
    <2>2. W \in Seq(T) /\ Len(W) = Len(H) + Len(V)
      BY <2>1, LengthJoined, Zenon
    <2>3. Ends(W)
      BY <1>1, EndOfClosed, Zenon
    <2>4. QED
      BY <2>1, <2>2, <2>3 DEF Ends
  <1>4. \A c \in Seps : Bare(W, c) = Bare(H, c)
    <2> TAKE c \in Seps
    <2>1. Bare(W, c) = Bare(H, c) \cup {Len(H) + i : i \in Bare(V, c)}
      BY <1>1, BareOfJoined
    <2>2. Bare(V, c) = {}
      OBVIOUS
    <2> HIDE DEF W
    <2>3. QED
      BY <2>1, <2>2
  <1>5. SubSeq(W, 1, 5) = SubSeq(H, 1, 5) /\ SubSeq(W, 6, 7) = SubSeq(H, 6, 7)
    <2>0. H \in Seq(T)
      BY <1>1
    <2>1. 1 \in 1..Len(H) /\ 5 \in 1..Len(H) /\ 6 \in 1..Len(H) /\ 7 \in 1..Len(H)
      BY <1>1
    <2>2. SubSeq(W, 1, 5) = SubSeq(H, 1, 5)
      BY <2>0, <2>1, SubSeqOfConcat1
    <2>3. SubSeq(W, 6, 7) = SubSeq(H, 6, 7)
      BY <2>0, <2>1, SubSeqOfConcat1
    <2>4. QED
      BY <2>2, <2>3
  <1>6. SubSeq(W, 8, 7 + b) = V
    <2>0. H \in Seq(T)
      BY <1>1
    <2>1. SubSeq(W, Len(H) + 1, Len(H) + Len(V)) = V
      BY <2>0, CutJoined
    <2>2. Len(H) + 1 = 8 /\ Len(H) + Len(V) = 7 + b
      BY <1>1
    <2>3. QED
      BY <2>1, <2>2
  <1> HIDE DEF W
  <1>7. K \in Seq(T) /\ Len(K) = a + 7 + b /\ Ends(K)
    <2>0. W \in Seq(T) /\ Ends(W)
      BY <1>3
    <2>1. K \in Seq(T) /\ Len(K) = Len(M) + Len(W)
      BY <2>0, LengthJoined, Zenon
    <2>2. Ends(K)
      BY <2>0, EndOfJoined, Zenon
    <2>3. QED
      BY <1>2, <1>3, <2>1, <2>2
  <1>8. ASSUME NEW c \in Seps, Bare(M, c) = {} PROVE Bare(K, c) = {a + i : i \in Bare(H, c)}
    <2>1. Bare(K, c) = Bare(M, c) \cup {a + i : i \in Bare(W, c)}
      BY <1>3, BareOfClosed
    <2> HIDE DEF K, a
    <2>2. QED
      BY <1>4, <1>8, <2>1
  <1>9. Bare(K, Comma) = {a + 1, a + 5}
    <2>1. Comma \in Seps
      BY DEF Seps
    <2>2. Bare(K, Comma) = {a + i : i \in Bare(H, Comma)}
      BY <1>8, <2>1
    <2> HIDE DEF K, a
    <2>3. QED
      BY <1>1, <2>2
  <1>10. Bare(K, Space) = {}
    <2>1. Space \in Seps
      BY DEF Seps
    <2>2. Bare(K, Space) = {a + i : i \in Bare(H, Space)}
      BY <1>8, <2>1
    <2> HIDE DEF K, a
    <2>3. QED
      BY <1>1, <2>2
  <1>11. SubSeq(K, 1, a) = M /\ SubSeq(K, a + 1, a + (7 + b)) = W
    BY <1>2, <1>3, CutJoined
  <1>12. ASSUME NEW p \in 1..(7 + b), NEW q \in 1..(7 + b)
         PROVE  SubSeq(K, a + p, a + q) = SubSeq(W, p, q)
    <2>1. a + p \in (Len(M) + 1)..(Len(M) + Len(W)) /\ a + q \in (Len(M) + 1)..(Len(M) + Len(W))
          /\ (a + p) - Len(M) = p /\ (a + q) - Len(M) = q
      BY <1>2, <1>3
    <2> DEFINE x == a + p
               y == a + q
    <2>2. x \in (Len(M) + 1)..(Len(M) + Len(W)) /\ y \in (Len(M) + 1)..(Len(M) + Len(W))
      BY <2>1
    <2> HIDE DEF x, y
    <2>3. SubSeq(K, x, y) = SubSeq(W, x - Len(M), y - Len(M))
      BY <1>3, <2>2, SubSeqOfConcat2
    <2>4. QED
      BY <2>1, <2>3 DEF x, y
  <1>13. /\ SubSeq(K, a + 1, a + 5) = SubSeq(H, 1, 5)
         /\ SubSeq(K, a + 6, a + 7) = SubSeq(H, 6, 7)
         /\ SubSeq(K, a + 8, a + (7 + b)) = V
    <2>1. 1 \in 1..(7 + b) /\ 5 \in 1..(7 + b) /\ 6 \in 1..(7 + b) /\ 7 \in 1..(7 + b)
          /\ (b # 0 => 8 \in 1..(7 + b) /\ 7 + b \in 1..(7 + b))
      BY <1>2
    <2>2. b = 0 => V = <<>> /\ a + 8 \in Int /\ a + (7 + b) \in Int /\ a + (7 + b) < a + 8
      BY <1>2
    <2> HIDE DEF K, a, b
    <2>3. b = 0 => SubSeq(K, a + 8, a + (7 + b)) = V
      BY <2>2, SubSeqEmpty, Zenon
    <2>4. QED
      BY <1>5, <1>6, <1>12, <2>1, <2>3
  <1>14. Len(K) = a + (7 + b)
    BY <1>2, <1>7
  <1>15. Bare(W, Equals) = {3, 7}
    BY <1>1, <1>4 DEF Seps
  <1>16. LineHead(M, mac, V) = K
    BY DEF LineHead, W, H
  <1> HIDE DEF K
  <1>17. TagsAt(K, M, mac, V)
    BY <1>1, <1>7, <1>9, <1>10, <1>11, <1>13, <1>14, <1>15 DEF TagsAt
  <1>18. QED
    BY <1>7, <1>16, <1>17

\* A name in a line: its separators do not count, and it reads back.
LEMMA NameInLine ==
    ASSUME NEW T, NEW text \in Seq(T), NEW special \in SUBSET Seps, Back \in T, Plain(text)
    PROVE  /\ Escaped(text, special) \in Seq(T) /\ Closed(Escaped(text, special))
           /\ \A c \in special : Bare(Escaped(text, special), c) = {}
           /\ Unescaped(Escaped(text, special)) = text
  <1> DEFINE E == Escaped(text, special)
  <1>1. Back \notin special
    BY SeparatorsDiffer DEF Seps
  <1>2. E \in Seq(T) /\ Escapes(E, text, special)
    BY <1>1, EscapedEscapes
  <1>3. Unescaped(E) = text
    BY EscapedReadsBack
  <1> HIDE DEF E
  <1>4. Closed(E)
    <2>1. CASE text = <<>>
      <3>1. PICK F : Joins(T, Pieces(text, special), F) /\ E = F[Len(text)]
        BY PiecesJoin DEF E
      <3>2. F[0] = <<>> /\ Len(text) = 0
        BY <2>1, <3>1 DEF Joins
      <3>3. QED
        BY <3>1, <3>2 DEF Closed
    <2>2. CASE text # <<>>
      <3>1. \A i \in DOMAIN text : text[i] = Back => i < Len(text)
        BY PlainIs
      <3>2. Len(text) \in DOMAIN text /\ ~(Len(text) < Len(text))
        BY <2>2
      <3>3. text[Len(text)] # Back
        BY <3>1, <3>2
      <3>4. E # <<>> /\ E[Len(E)] = text[Len(text)]
        BY <1>2, <2>2 DEF Escapes
      <3>5. QED
        BY <3>3, <3>4 DEF Ends, Closed
    <2>3. QED
      BY <2>1, <2>2
  <1>5. ASSUME NEW c \in special PROVE Bare(E, c) = {}
    BY <1>2, NoneBare DEF Escapes
  <1>6. QED
    BY <1>2, <1>3, <1>4, <1>5 DEF E

\* The smaller, the larger and the number of two places.
LEMMA TwoPlaces ==
    ASSUME NEW p \in Int, NEW q \in Int, p < q
    PROVE  Min({p, q}) = p /\ Max({p, q}) = q /\ Cardinality({p, q}) = 2
  <1>1. Min({p, q}) = p
    <2>1. \A x \in {p, q} : (\A y \in {p, q} : x <= y) <=> x = p
      OBVIOUS
    <2>2. QED
      BY <2>1 DEF Min
  <1>2. Max({p, q}) = q
    <2>1. \A x \in {p, q} : (\A y \in {p, q} : x >= y) <=> x = q
      OBVIOUS
    <2>2. QED
      BY <2>1 DEF Max
  <1>3. Cardinality({p, q}) = 2
    <2>1. p # q
      OBVIOUS
    <2>2. IsFiniteSet({p}) /\ Cardinality({p}) = 1
      BY FS_Singleton
    <2>3. {p, q} = {p} \cup {q} /\ q \notin {p}
      BY <2>1
    <2>4. Cardinality({p} \cup {q}) = 1 + 1
      BY <2>2, <2>3, FS_AddElement
    <2>5. QED
      BY <2>3, <2>4
  <1>4. QED
    BY <1>1, <1>2, <1>3

\* The largest place of a sequence with some property is one with the property.
LEMMA MaxIsIn ==
    ASSUME NEW n \in Nat, NEW S \in SUBSET (1..n), S # {}
    PROVE  Max(S) \in S
  <1> DEFINE D == {n - i : i \in S}
  <1>1. D \in SUBSET Nat /\ D # {}
    OBVIOUS
  <1>2. PICK d \in D : \A e \in D : d <= e
    <2> HIDE DEF D
    <2>1. QED
      BY <1>1, LeastNumber
  <1>3. PICK i \in S : d = n - i
    BY <1>2
  <1>4. \A j \in S : i >= j
    <2> TAKE j \in S
    <2>1. n - i <= n - j
      BY <1>2, <1>3
    <2>2. i \in 1..n /\ j \in 1..n
      OBVIOUS
    <2>3. QED
      BY <2>1, <2>2
  <1>5. QED
    BY <1>3, <1>4 DEF Max

--------------------------------------------------------------------------------
(* What a request asks for.                                                     *)

\* The text of a request, as one set of tokens.
Words(m) ==
    STRING \cup Seps \cup {Back, MacTag, NameTag, ToString(m.timestamp)} \cup FieldNames
        \cup {Token(m, k) : k \in 1..18}

LEMMA RequestFacts ==
    ASSUME NEW r \in Requests
    PROVE  /\ r.measurement \in Seq(STRING) /\ NoField(r.measurement)
           /\ r.aliases \in Seq(Seq(STRING)) /\ \A i \in DOMAIN r.aliases : NoField(r.aliases[i])
           /\ r.frame \in Frames
           /\ Opaque(r.frame.mac) /\ Opaque(ToString(r.frame.time))
           /\ \A f \in r.frame.has :
                 /\ r.frame.raw[f] = Returned(r.frame.format, f, r.frame.true[f])
                 /\ Opaque(ToString(r.frame.true[f]))
  BY RequestAssumption, Zenon

LEMMA OpaqueIs ==
    ASSUME NEW x, Opaque(x)
    PROVE  Inert(x) /\ x \notin FieldNames
  <1>1. x \notin {Comma, Equals, Space, Back} \cup FieldNames
    BY Zenon DEF Opaque, Comma, Equals, Space, Back
  <1>2. QED
    BY <1>1 DEF Inert, Seps

\* The last alias of a tag gives its name.
LEMMA NameIsWanted ==
    ASSUME NEW r \in Requests, Accepted(r)
    PROVE  /\ NameOf(r) = WantedName(r)
           /\ WantedName(r) \in Seq(STRING) /\ NoField(WantedName(r))
  <1> DEFINE src == r.aliases
             als == Aliases(r)
             mac == r.frame.mac
             own == {i \in DOMAIN src : src[i][1] = mac}
             map == to_map(als)
  <1>1. /\ src \in Seq(Seq(STRING)) /\ \A i \in DOMAIN src : NoField(src[i])
        /\ mac \in STRING /\ Opaque(mac)
    BY RequestFacts DEF Frames
  <1>2. DOMAIN als = DOMAIN src /\ \A i \in DOMAIN src : als[i] = parse_alias(src[i])
    BY DEF Aliases
  <1>3. \A i \in DOMAIN src : als[i].is = "ok"
    BY <1>2 DEF Accepted
  <1>4. ASSUME NEW i \in DOMAIN src
        PROVE  als[i].address = src[i][1] /\ als[i].name = SubSeq(src[i], 3, Len(src[i]))
    <2>1. als[i] = parse_alias(src[i]) /\ als[i].is = "ok"
      BY <1>2, <1>3
    <2>2. \/ parse_alias(src[i]) = [is |-> "ok", address |-> src[i][1],
                                    name |-> SubSeq(src[i], 3, Len(src[i]))]
          \/ parse_alias(src[i]) = [is |-> "err"]
      BY Zenon DEF parse_alias
    <2> HIDE DEF als, src
    <2>3. QED
      BY <2>1, <2>2
  <1> HIDE DEF als, src, mac
  <1>5. /\ DOMAIN map = {als[i].address : i \in DOMAIN als}
        /\ \A m \in DOMAIN map : map[m] = als[Max({i \in DOMAIN als : als[i].address = m})].name
    BY DEF to_map
  <1>6. own = {i \in DOMAIN als : als[i].address = mac}
    BY <1>2, <1>4
  <1>7. NameOf(r) = IF mac \in DOMAIN map THEN map[mac] ELSE <<mac>>
    BY DEF NameOf, resolve_name, als, mac
  <1>8. mac \in DOMAIN map <=> own # {}
    BY <1>5, <1>6
  <1>9. WantedName(r) = IF own = {} THEN <<mac>> ELSE SubSeq(src[Max(own)], 3, Len(src[Max(own)]))
    BY DEF WantedName, src, mac
  <1> HIDE DEF map
  <1>10. CASE own = {}
    <2>1. NameOf(r) = <<mac>> /\ WantedName(r) = <<mac>>
      BY <1>7, <1>8, <1>9, <1>10
    <2>2. <<mac>> \in Seq(STRING) /\ NoField(<<mac>>)
      <3>1. mac \notin FieldNames
        BY <1>1, OpaqueIs
      <3>2. QED
        BY <1>1, <3>1 DEF NoField
    <2>3. QED
      BY <2>1, <2>2
  <1>11. CASE own # {}
    <2> DEFINE k == Max(own)
               s == src[k]
               w == SubSeq(s, 3, Len(s))
    <2>1. k \in own /\ k \in DOMAIN src
      <3>1. DOMAIN src = 1..Len(src) /\ Len(src) \in Nat
        BY <1>1
      <3>2. own \in SUBSET (1..Len(src))
        BY <3>1
      <3> HIDE DEF own
      <3>3. k \in own
        BY <1>11, <3>1, <3>2, MaxIsIn
      <3>4. QED
        BY <3>1, <3>2, <3>3
    <2>2. map[mac] = als[k].name
      BY <1>5, <1>6, <1>8, <1>11
    <2> HIDE DEF k, own
    <2>3. als[k].name = w
      BY <1>4, <2>1
    <2>4. NameOf(r) = w /\ WantedName(r) = w
      BY <1>7, <1>8, <1>9, <1>11, <2>2, <2>3 DEF k
    <2>5. s \in Seq(STRING) /\ NoField(s)
      BY <1>1, <2>1
    <2> HIDE DEF s
    <2>6. w \in Seq(STRING) /\ NoField(w)
      <3>1. \A i \in 3..Len(s) : i \in DOMAIN s /\ s[i] \in STRING
        BY <2>5
      <3>2. Len(s) \in Int
        BY <2>5
      <3>3. /\ w \in Seq(STRING)
            /\ Len(w) = IF 3 <= Len(s) THEN Len(s) - 3 + 1 ELSE 0
            /\ \A i \in 1..(Len(s) - 3 + 1) : w[i] = s[3 + i - 1]
        BY <3>1, <3>2, SubSeqProperties
      <3> HIDE DEF w
      <3>4. ASSUME NEW i \in DOMAIN w PROVE w[i] \notin FieldNames
        <4>1. i \in 1..Len(w)
          BY <3>3
        <4>2. i \in 1..(Len(s) - 3 + 1) /\ 3 + i - 1 \in 3..Len(s)
          BY <3>2, <3>3, <4>1
        <4>3. QED
          BY <2>5, <3>1, <3>3, <4>2 DEF NoField
      <3>5. QED
        BY <3>3, <3>4 DEF NoField
    <2>7. QED
      BY <2>4, <2>6
  <1>12. QED
    BY <1>10, <1>11

\* No field's name is a separator, a backslash or the name of a tag.
LEMMA FieldNamesAreNames ==
    /\ FieldNames = {FieldOrder[k] : k \in 1..18}
    /\ \A f \in FieldNames : Inert(f) /\ f # MacTag /\ f # NameTag
  <1> DEFINE S == {"temperature", "humidity", "pressure", "battery_potential", "tx_power",
                   "movement_counter", "measurement_sequence_number", "pm1_0", "pm2_5", "pm4_0",
                   "pm10_0", "co2", "voc_index", "nox_index", "luminosity",
                   "acceleration_x", "acceleration_y", "acceleration_z"}
  <1>1. \A k \in 1..18 : FieldOrder[k] \in S
    BY DEF FieldOrder
  <1>2. FieldNames = {FieldOrder[k] : k \in 1..18}
    BY FieldOrderFacts DEF FieldNames
  <1>3. \A f \in S : f # Comma /\ f # Equals /\ f # Space /\ f # Back /\ f # MacTag /\ f # NameTag
    BY Zenon DEF Comma, Equals, Space, Back, MacTag, NameTag
  <1> HIDE DEF S
  <1>4. \A f \in S : Inert(f)
    BY <1>3 DEF Inert, Seps
  <1>5. QED
    BY <1>1, <1>2, <1>3, <1>4

\* What is written for a reading is what the sensor measured.
LEMMA WrittenIsTrue ==
    ASSUME NEW frame \in Frames, NEW f \in Present(frame),
           frame.raw[f] = Returned(frame.format, f, frame.true[f])
    PROVE  written(f, decode(frame).fields[f]) = frame.true[f]
  <1> DEFINE v == frame.true[f]
             w == frame.raw[f]
             bat == f \in Acceleration \cup {"battery_potential"}
  <1>1. f \in frame.has /\ frame.format \in {"V5", "V6", "E1"} /\ v \in Int
    BY DEF Frames, Present
  <1>2. decode(frame).fields[f] = Stored(frame, f)
    BY DEF decode
  <1>3. ~ (f = "pressure" /\ bat)
    BY DEF Acceleration
  <1> HIDE DEF v, bat
  <1>4. CASE f = "pressure" /\ frame.format = "V5"
    <2>1. w = v * 1000 /\ Stored(frame, f) = w
      BY <1>3, <1>4 DEF Returned, Stored, v, bat
    <2>2. QED
      BY <1>1, <1>2, <1>4, <2>1 DEF written, v
  <1>5. CASE f = "pressure" /\ frame.format # "V5"
    <2>1. w = v * 10 /\ Stored(frame, f) = w * 100
      BY <1>1, <1>3, <1>5 DEF Returned, Stored, v, bat
    <2>2. QED
      BY <1>1, <1>2, <1>5, <2>1 DEF written, v
  <1>6. CASE bat
    <2>1. w = v * 1000 /\ Stored(frame, f) = w \div 1000
      BY <1>3, <1>6 DEF Returned, Stored, v, bat
    <2>2. QED
      BY <1>1, <1>2, <1>3, <1>6, <2>1 DEF written, v
  <1>7. CASE f # "pressure" /\ ~bat
    <2>1. w = v /\ Stored(frame, f) = w
      BY <1>7 DEF Returned, Stored, v, bat
    <2>2. QED
      BY <1>2, <1>7, <2>1 DEF written, v
  <1>8. QED
    BY <1>4, <1>5, <1>6, <1>7

\* The fields of a request's line: which are shown, and what is written for them.
LEMMA RequestFields ==
    ASSUME NEW r \in Requests, NEW m, m = decode(r.frame)
    PROVE  /\ m.mac = r.frame.mac /\ m.timestamp = r.frame.time
           /\ DOMAIN m.fields = Present(r.frame) /\ DOMAIN m.fields \subseteq FieldNames
           /\ \A k \in Shown(m) : /\ k \in 1..18 /\ FieldOrder[k] \in DOMAIN m.fields
                                  /\ Token(m, k) = ToString(r.frame.true[FieldOrder[k]])
                                  /\ Opaque(Token(m, k))
  <1> DEFINE frame == r.frame
  <1>1. frame \in Frames /\ \A f \in frame.has :
            /\ frame.raw[f] = Returned(frame.format, f, frame.true[f])
            /\ Opaque(ToString(frame.true[f]))
    BY RequestFacts, Zenon
  <1> HIDE DEF frame
  <1>2. Present(frame) \subseteq frame.has /\ frame.has \subseteq FieldNames
    BY <1>1 DEF Present, Frames
  <1>3. m.mac = frame.mac /\ m.timestamp = frame.time /\ DOMAIN m.fields = Present(frame)
    BY DEF decode, frame
  <1>4. ASSUME NEW k \in Shown(m)
        PROVE  /\ k \in 1..18 /\ FieldOrder[k] \in DOMAIN m.fields
               /\ Token(m, k) = ToString(frame.true[FieldOrder[k]])
               /\ Opaque(Token(m, k))
    <2> DEFINE f == FieldOrder[k]
    <2>1. k \in 1..18 /\ f \in DOMAIN m.fields
      BY DEF Shown
    <2>2. f \in Present(frame) /\ f \in frame.has
      BY <1>2, <1>3, <2>1
    <2> HIDE DEF f
    <2>3. written(f, m.fields[f]) = frame.true[f]
      BY <1>1, <2>2, WrittenIsTrue DEF frame
    <2>4. Token(m, k) = ToString(frame.true[f])
      BY <2>3 DEF Token, f
    <2>5. Opaque(ToString(frame.true[f]))
      BY <1>1, <2>2
    <2>6. QED
      BY <2>1, <2>4, <2>5 DEF f
  <1>5. QED
    BY <1>2, <1>3, <1>4 DEF frame

\* A V6 frame fills no field that an E1 frame of the same sensors leaves out.
LEMMA E1HasV6 ==
    ASSUME NEW frame \in Frames, frame.format = "V6"
    PROVE  Present(frame) \subseteq Present([frame EXCEPT !.format = "E1"])
  <1> DEFINE e1 == [frame EXCEPT !.format = "E1"]
  <1>1. e1.format = "E1" /\ e1.has = frame.has
    BY DEF Frames
  <1>2. Filled("V6") \subseteq Filled("E1")
    BY DEF Filled
  <1> HIDE DEF e1
  <1>3. Filled(frame.format) \cap frame.has \subseteq Filled(e1.format) \cap e1.has
    BY <1>1, <1>2
  <1>4. QED
    BY <1>3 DEF Present, e1

\* What a line is made of.
Measured(r) == Escaped(r.measurement, {Comma, Space})
Named(r) == Escaped(NameOf(r), Seps)
HeadOf(r) == LineHead(Measured(r), r.frame.mac, Named(r))
FieldsOf(r) == write_fields(decode(r.frame))
TimeOf(r) == ToString(r.frame.time)
LineOf(r) == Line(HeadOf(r), FieldsOf(r), TimeOf(r))

LEMMA LineIs ==
    ASSUME NEW r \in Requests, Accepted(r)
    PROVE  format(r.measurement, decode(r.frame), NameOf(r)) = LineOf(r)
  <1> DEFINE m == decode(r.frame)
             A == write_measurement_name(r.measurement, needs_measurement_escape(r.measurement))
             V == write_tag_value(NameOf(r))
             ts == ToString(IF m.timestamp < 0 THEN 0 ELSE m.timestamp)
  <1>1. A = Measured(r)
    <2> DEFINE T == STRING \cup {Back}
    <2>1. r.measurement \in Seq(T)
      BY RequestFacts
    <2> HIDE DEF T
    <2>2. Back \in T
      BY DEF T
    <2>3. QED
      BY <2>1, <2>2, MeasurementWritten DEF Measured
  <1>2. V = Named(r)
    <2> DEFINE T == STRING \cup {Back}
    <2>1. NameOf(r) \in Seq(T)
      BY NameIsWanted
    <2> HIDE DEF T
    <2>2. Back \in T
      BY DEF T
    <2>3. QED
      BY <2>1, <2>2, TagValueWritten DEF Named
  <1>3. m.mac = r.frame.mac /\ m.timestamp = r.frame.time
    BY RequestFields
  <1>4. r.frame.time \in Nat
    BY RequestFacts DEF Frames
  <1>5. ts = TimeOf(r)
    BY <1>3, <1>4 DEF TimeOf
  <1>6. write_tags(m, NameOf(r)) = Tags(r.frame.mac) \o V
    BY <1>3, Zenon DEF write_tags, Tags, Comma, Equals, MacTag, NameTag
  <1>7. write_timestamp(m.timestamp) = <<Space, ts>>
    BY Zenon DEF write_timestamp, Space
  <1>8. format(r.measurement, m, NameOf(r)) =
           A \o write_tags(m, NameOf(r)) \o <<Space>> \o write_fields(m) \o write_timestamp(m.timestamp)
    BY Zenon DEF format, Space
  <1>9. write_fields(m) = FieldsOf(r)
    BY DEF FieldsOf
  <1> HIDE DEF m, A, V, ts
  <1>10. format(r.measurement, m, NameOf(r)) =
           Measured(r) \o (Tags(r.frame.mac) \o Named(r)) \o <<Space>> \o FieldsOf(r) \o <<Space, TimeOf(r)>>
    BY <1>1, <1>2, <1>5, <1>6, <1>7, <1>8, <1>9, Zenon
  <1>11. QED
    BY <1>10, Zenon DEF LineOf, Line, HeadOf, LineHead, m

\* The types of the parts of a line.
LEMMA PartsOfLine ==
    ASSUME NEW r \in Requests, Accepted(r), NEW m, m = decode(r.frame), NEW T, T = Words(m)
    PROVE  /\ Space \in T /\ Comma \in T /\ Equals \in T /\ Back \in T /\ MacTag \in T /\ NameTag \in T
           /\ r.measurement \in Seq(T) /\ NameOf(r) \in Seq(T)
           /\ r.frame.mac \in T /\ TimeOf(r) \in T
           /\ Inert(r.frame.mac) /\ Inert(TimeOf(r))
           /\ FieldsOf(r) \in Seq(T)
           /\ Pairs(FieldsOf(r), Cardinality(Shown(m)), Shown(m),
                    [k \in 1..18 |-> FieldOrder[k]], [k \in 1..18 |-> Token(m, k)])
  <1>1. /\ Space \in T /\ Comma \in T /\ Equals \in T /\ Back \in T /\ MacTag \in T /\ NameTag \in T
        /\ STRING \subseteq T /\ FieldNames \subseteq T /\ ToString(m.timestamp) \in T
        /\ \A k \in 1..18 : Token(m, k) \in T
    BY DEF Words, Seps
  <1>2. r.measurement \in Seq(STRING) /\ NameOf(r) \in Seq(STRING) /\ r.frame.mac \in STRING
    BY RequestFacts, NameIsWanted DEF Frames
  <1>3. m.timestamp = r.frame.time
    BY RequestFields
  <1>4. \A s \in Seq(STRING) : s \in Seq(T)
    <2>1. STRING \subseteq T
      BY <1>1
    <2>2. Seq(STRING) \subseteq Seq(T)
      BY <2>1, SeqMonotonic, Zenon
    <2>3. QED
      BY <2>2
  <1>5. Inert(r.frame.mac) /\ Inert(TimeOf(r))
    BY RequestFacts, OpaqueIs DEF TimeOf
  <1>6. \A k \in 1..18 : FieldOrder[k] \in T
    BY <1>1, FieldNamesAreNames
  <1>7. /\ FieldsOf(r) \in Seq(T)
        /\ Pairs(FieldsOf(r), Cardinality(Shown(m)), Shown(m),
                 [k \in 1..18 |-> FieldOrder[k]], [k \in 1..18 |-> Token(m, k)])
    BY <1>1, <1>6, FieldsWritten DEF FieldsOf
  <1>8. QED
    BY <1>1, <1>2, <1>3, <1>4, <1>5, <1>7 DEF TimeOf

\* What LineReadsBack asks for of a line.
ReadsBack(r, line) ==
    LET spaces == Bare(line, Space)
        fields == DOMAIN decode(r.frame).fields
    IN  Plain(r.measurement) /\ Plain(WantedName(r)) /\ fields # {} =>
        /\ Cardinality(spaces) = 2
        /\ SubSeq(line, Max(spaces) + 1, Len(line)) = <<ToString(r.frame.time)>>
        /\ LET head   == SubSeq(line, 1, Min(spaces) - 1)
               tail   == SubSeq(line, Min(spaces) + 1, Max(spaces) - 1)
               commas == Bare(head, Comma)
           IN  /\ Cardinality(commas) = 2
               /\ Cardinality(Bare(SubSeq(head, Min(commas), Len(head)), Equals)) = 2
               /\ Unescaped(SubSeq(head, 1, Min(commas) - 1)) = r.measurement
               /\ SubSeq(head, Min(commas), Max(commas)) = <<Comma, MacTag, Equals, r.frame.mac, Comma>>
               /\ SubSeq(head, Max(commas) + 1, Max(commas) + 2) = <<NameTag, Equals>>
               /\ Unescaped(SubSeq(head, Max(commas) + 3, Len(head))) = WantedName(r)
               /\ Len(tail) = 4 * Cardinality(fields) - 1
               /\ \A i \in DOMAIN tail : (tail[i] = Comma) <=> (i % 4 = 0)
               /\ \A i \in DOMAIN tail : (tail[i] = Equals) <=> (i % 4 = 2)
               /\ {tail[4 * k - 3] : k \in 1..Cardinality(fields)} = fields

LEMMA LineReadsBackIs ==
    ASSUME output.is = "line" => ReadsBack(input.from, output.text)
    PROVE  LineReadsBack
  BY Zenon DEF LineReadsBack, ReadsBack, Space, Comma, Equals, MacTag, NameTag

\* The tail of a line with at least one field.
LEMMA TailReads ==
    ASSUME NEW r \in Requests, Accepted(r), DOMAIN decode(r.frame).fields # {}
    PROVE  LET fields == DOMAIN decode(r.frame).fields
               tail   == FieldsOf(r)
           IN  /\ Ends(tail) /\ Len(tail) = 4 * Cardinality(fields) - 1
               /\ \A i \in DOMAIN tail : (tail[i] = Comma) <=> (i % 4 = 0)
               /\ \A i \in DOMAIN tail : (tail[i] = Equals) <=> (i % 4 = 2)
               /\ {tail[4 * k - 3] : k \in 1..Cardinality(fields)} = fields
               /\ \A i \in DOMAIN tail : tail[i] # Space
  <1> DEFINE m == decode(r.frame)
             T == Words(m)
             X == FieldsOf(r)
             A == Shown(m)
             c == Cardinality(A)
             N == [k \in 1..18 |-> FieldOrder[k]]
             V == [k \in 1..18 |-> Token(m, k)]
  <1>1. X \in Seq(T) /\ Pairs(X, c, A, N, V)
    BY PartsOfLine
  <1>2. /\ DOMAIN m.fields \subseteq FieldNames
        /\ \A k \in A : k \in 1..18 /\ Opaque(Token(m, k))
    BY RequestFields
  <1>3. \A k \in A : Inert(N[k]) /\ Inert(V[k])
    BY <1>2, OpaqueIs, FieldNamesAreNames
  <1>4. /\ c = Cardinality(DOMAIN m.fields) /\ c \in Nat /\ c # 0
        /\ {FieldOrder[k] : k \in A} = DOMAIN m.fields
    BY <1>2, FieldNamesAreNames, ShownCount
  <1>5. \A k \in A : N[k] = FieldOrder[k]
    BY <1>2
  <1> HIDE DEF m, T, X, A, c, N, V
  <1>6. /\ Len(X) = 4 * c - 1 /\ DOMAIN X = 1..Len(X)
        /\ \A i \in 1..Len(X) : X[i] = Comma <=> i % 4 = 0
        /\ \A i \in 1..Len(X) : X[i] = Equals <=> i % 4 = 2
        /\ \A i \in 1..Len(X) : X[i] # Space /\ X[i] # Back
    <2>1. c \in Nat \ {0}
      BY <1>4
    <2>2. QED
      <3>1. /\ Len(X) = 4 * c - 1
            /\ \A i \in 1..Len(X) : X[i] = Comma <=> i % 4 = 0
            /\ \A i \in 1..Len(X) : X[i] = Equals <=> i % 4 = 2
            /\ \A i \in 1..Len(X) : X[i] # Space /\ X[i] # Back
        BY <1>1, <1>3, <2>1, FieldTokens, Zenon
      <3>2. DOMAIN X = 1..Len(X)
        BY <1>1
      <3>3. QED
        BY <3>1, <3>2, Zenon
  <1>7. Ends(X)
    <2>1. Len(X) \in 1..Len(X)
      BY <1>4, <1>6
    <2>2. X # <<>>
      BY <2>1
    <2>3. QED
      BY <1>6, <2>1, <2>2 DEF Ends
  <1>8. {X[4 * j - 3] : j \in 1..c} = DOMAIN m.fields
    <2>1. /\ \A j \in 1..c : \E k \in A : X[4 * j - 3] = N[k]
          /\ \A k \in A : \E j \in 1..c : X[4 * j - 3] = N[k]
      BY <1>1 DEF Pairs, PairAt
    <2>2. QED
      BY <1>4, <1>5, <2>1
  <1>9. QED
    BY <1>4, <1>6, <1>7, <1>8 DEF m, X

LEMMA EveryLineReadsBack ==
    ASSUME NEW r \in Requests, Accepted(r)
    PROVE  ReadsBack(r, LineOf(r))
  <1> SUFFICES ASSUME Plain(r.measurement), Plain(NameOf(r)), DOMAIN decode(r.frame).fields # {},
                      NameOf(r) = WantedName(r)
               PROVE  ReadsBack(r, LineOf(r))
    BY NameIsWanted DEF ReadsBack
  <1> DEFINE m == decode(r.frame)
             T == Words(m)
             M == Measured(r)
             V == Named(r)
             F == FieldsOf(r)
             K == HeadOf(r)
             L == LineOf(r)
             a == Len(M)
             k == Len(K)
             f == Len(F)
  <1>1. /\ Space \in T /\ Comma \in T /\ Equals \in T /\ Back \in T /\ MacTag \in T /\ NameTag \in T
        /\ r.measurement \in Seq(T) /\ NameOf(r) \in Seq(T)
        /\ r.frame.mac \in T /\ TimeOf(r) \in T
        /\ Inert(r.frame.mac) /\ Inert(TimeOf(r)) /\ F \in Seq(T)
    BY PartsOfLine
  <1> HIDE DEF m, T
  <1>2. /\ M \in Seq(T) /\ Closed(M) /\ Bare(M, Comma) = {} /\ Bare(M, Space) = {}
        /\ Unescaped(M) = r.measurement
    <2>1. {Comma, Space} \in SUBSET Seps
      BY DEF Seps
    <2> DEFINE S == {Comma, Space}
    <2>2. S \in SUBSET Seps /\ Comma \in S /\ Space \in S /\ M = Escaped(r.measurement, S)
      BY <2>1 DEF Measured
    <2> HIDE DEF S, M
    <2>3. QED
      BY <1>1, <2>2, NameInLine
  <1>3. /\ V \in Seq(T) /\ Closed(V) /\ \A c \in Seps : Bare(V, c) = {}
        /\ Unescaped(V) = NameOf(r)
    <2>1. V = Escaped(NameOf(r), Seps)
      BY DEF Named
    <2> HIDE DEF V
    <2>2. QED
      BY <1>1, <2>1, NameInLine
  <1> HIDE DEF M, V
  <1>4. K = LineHead(M, r.frame.mac, V)
    BY DEF HeadOf, M, V
  <1>5. K \in Seq(T) /\ Ends(K) /\ TagsAt(K, M, r.frame.mac, V)
    <2> HIDE DEF K
    <2>1. /\ LineHead(M, r.frame.mac, V) \in Seq(T) /\ Ends(LineHead(M, r.frame.mac, V))
          /\ TagsAt(LineHead(M, r.frame.mac, V), M, r.frame.mac, V)
      BY <1>1, <1>2, <1>3, HeadTags, Zenon
    <2>2. QED
      BY <1>4, <2>1, Zenon
  <1>6. /\ Ends(F) /\ Len(F) = 4 * Cardinality(DOMAIN decode(r.frame).fields) - 1
        /\ \A i \in DOMAIN F : (F[i] = Comma) <=> (i % 4 = 0)
        /\ \A i \in DOMAIN F : (F[i] = Equals) <=> (i % 4 = 2)
        /\ {F[4 * j - 3] : j \in 1..Cardinality(DOMAIN decode(r.frame).fields)} = DOMAIN decode(r.frame).fields
        /\ \A i \in DOMAIN F : F[i] # Space
    BY TailReads
  <1> HIDE DEF K, F
  <1>7. SpacesAt(Line(K, F, TimeOf(r)), K, F, TimeOf(r))
    <2>1. TimeOf(r) # Space
      BY <1>1 DEF Inert, Seps
    <2>2. Bare(K, Space) = {}
      BY <1>5 DEF TagsAt
    <2>3. \A i \in 1..Len(F) : F[i] # Space
      BY <1>1, <1>6
    <2>4. QED
      BY <1>1, <1>5, <1>6, <2>1, <2>2, <2>3, LineSpaces
  <1>8. L = Line(K, F, TimeOf(r))
    BY DEF LineOf, K, F
  <1> HIDE DEF L
  <1>9. a \in Nat /\ k \in Nat /\ f \in Nat
    BY <1>1, <1>2, <1>5
  <1>10. /\ Bare(L, Space) = {k + 1, k + f + 2} /\ SubSeq(L, 1, k) = K
         /\ SubSeq(L, k + 2, k + f + 1) = F /\ SubSeq(L, k + f + 3, Len(L)) = <<TimeOf(r)>>
    BY <1>7, <1>8, Zenon DEF SpacesAt, k, f
  <1>11. /\ Bare(K, Comma) = {a + 1, a + 5} /\ Bare(SubSeq(K, a + 1, Len(K)), Equals) = {3, 7}
         /\ SubSeq(K, 1, a) = M
         /\ SubSeq(K, a + 1, a + 5) = <<Comma, MacTag, Equals, r.frame.mac, Comma>>
         /\ SubSeq(K, a + 6, a + 7) = <<NameTag, Equals>>
         /\ SubSeq(K, a + 8, Len(K)) = V
    BY <1>5, Zenon DEF TagsAt, a
  <1> HIDE DEF a, k, f
  <1> DEFINE spaces == Bare(L, Space)
             commas == Bare(K, Comma)
  <1>12. /\ Cardinality(spaces) = 2 /\ Min(spaces) - 1 = k /\ Min(spaces) + 1 = k + 2
         /\ Max(spaces) - 1 = k + f + 1 /\ Max(spaces) + 1 = k + f + 3
    <2> DEFINE p == k + 1
               q == k + f + 2
    <2>1. p \in Int /\ q \in Int /\ p < q
      BY <1>9
    <2> HIDE DEF p, q
    <2>2. Min({p, q}) = p /\ Max({p, q}) = q /\ Cardinality({p, q}) = 2
      BY <2>1, TwoPlaces
    <2>3. spaces = {p, q}
      BY <1>10 DEF p, q
    <2> HIDE DEF spaces
    <2>4. Cardinality(spaces) = 2 /\ Min(spaces) = p /\ Max(spaces) = q
      BY <2>2, <2>3
    <2>5. QED
      BY <1>9, <2>4 DEF p, q
  <1>13. /\ Cardinality(commas) = 2 /\ Min(commas) = a + 1 /\ Max(commas) = a + 5
         /\ Min(commas) - 1 = a /\ Max(commas) + 1 = a + 6 /\ Max(commas) + 2 = a + 7
         /\ Max(commas) + 3 = a + 8
    <2> DEFINE p == a + 1
               q == a + 5
    <2>1. p \in Int /\ q \in Int /\ p < q
      BY <1>9
    <2> HIDE DEF p, q
    <2>2. Min({p, q}) = p /\ Max({p, q}) = q /\ Cardinality({p, q}) = 2
      BY <2>1, TwoPlaces
    <2>3. commas = {p, q}
      BY <1>11 DEF p, q
    <2> HIDE DEF commas
    <2>4. Cardinality(commas) = 2 /\ Min(commas) = p /\ Max(commas) = q
      BY <2>2, <2>3
    <2>5. QED
      BY <1>9, <2>4 DEF p, q
  <1>14. Cardinality({3, 7}) = 2
    BY TwoPlaces
  <1> HIDE DEF spaces, commas
  <1> DEFINE head == SubSeq(L, 1, Min(spaces) - 1)
             tail == SubSeq(L, Min(spaces) + 1, Max(spaces) - 1)
  <1>15. head = K /\ tail = F /\ Bare(head, Comma) = commas
    <2>1. head = K /\ tail = F
      BY <1>10, <1>12
    <2> HIDE DEF head, tail
    <2>2. QED
      BY <2>1 DEF commas
  <1>16. SubSeq(L, Max(spaces) + 1, Len(L)) = <<ToString(r.frame.time)>>
    BY <1>10, <1>12 DEF TimeOf
  <1>17. /\ Cardinality(Bare(SubSeq(K, Min(commas), Len(K)), Equals)) = 2
         /\ Unescaped(SubSeq(K, 1, Min(commas) - 1)) = r.measurement
         /\ SubSeq(K, Min(commas), Max(commas)) = <<Comma, MacTag, Equals, r.frame.mac, Comma>>
         /\ SubSeq(K, Max(commas) + 1, Max(commas) + 2) = <<NameTag, Equals>>
         /\ Unescaped(SubSeq(K, Max(commas) + 3, Len(K))) = WantedName(r)
    BY <1>2, <1>3, <1>11, <1>13, <1>14
  <1> HIDE DEF head, tail
  <1>18. /\ Cardinality(Bare(head, Comma)) = 2
         /\ Cardinality(Bare(SubSeq(head, Min(Bare(head, Comma)), Len(head)), Equals)) = 2
         /\ Unescaped(SubSeq(head, 1, Min(Bare(head, Comma)) - 1)) = r.measurement
         /\ SubSeq(head, Min(Bare(head, Comma)), Max(Bare(head, Comma)))
               = <<Comma, MacTag, Equals, r.frame.mac, Comma>>
         /\ SubSeq(head, Max(Bare(head, Comma)) + 1, Max(Bare(head, Comma)) + 2) = <<NameTag, Equals>>
         /\ Unescaped(SubSeq(head, Max(Bare(head, Comma)) + 3, Len(head))) = WantedName(r)
    BY <1>13, <1>15, <1>17
  <1>19. /\ Len(tail) = 4 * Cardinality(DOMAIN decode(r.frame).fields) - 1
         /\ \A i \in DOMAIN tail : (tail[i] = Comma) <=> (i % 4 = 0)
         /\ \A i \in DOMAIN tail : (tail[i] = Equals) <=> (i % 4 = 2)
         /\ {tail[4 * j - 3] : j \in 1..Cardinality(DOMAIN decode(r.frame).fields)}
               = DOMAIN decode(r.frame).fields
    BY <1>6, <1>15
  <1>20. ReadsBack(r, L)
    BY <1>12, <1>16, <1>18, <1>19, Zenon DEF ReadsBack, spaces, head, tail
  <1>21. QED
    BY <1>20 DEF L

\* A field is found in a line by its name, and its value is behind it.
LEMMA FieldFound ==
    ASSUME NEW T, NEW K \in Seq(T), NEW F \in Seq(T), NEW ts \in T, Space \in T, NEW x,
           \A i \in 1..Len(K) : K[i] # x, Space # x, ts # x, Comma # x, Equals # x,
           NEW c \in Nat, NEW A, NEW N, NEW V, Pairs(F, c, A, N, V),
           \A k \in A : V[k] # x, NEW n \in A, N[n] = x, \A k \in A : N[k] = x => k = n
    PROVE  WrittenValue(Line(K, F, ts), x) = V[n]
  <1> DEFINE s == <<Space>>
             t == <<Space, ts>>
             a == Len(K)
             f == Len(F)
             D == K \o s
             B == D \o F
             L == B \o t
  <1>1. s \in Seq(T) /\ Len(s) = 1 /\ s[1] = Space
    OBVIOUS
  <1>2. t \in Seq(T) /\ Len(t) = 2 /\ t[1] = Space /\ t[2] = ts
    OBVIOUS
  <1> HIDE DEF s, t
  <1>3. /\ D \in Seq(T) /\ Len(D) = a + 1 /\ a \in Nat
        /\ \A i \in 1..a : D[i] = K[i]
        /\ D[a + 1] = Space
    <2>1. s \in Seq(T) /\ 1 \in 1..Len(s)
      BY <1>1
    <2>2. /\ D \in Seq(T) /\ Len(D) = Len(K) + Len(s) /\ Len(K) \in Nat
          /\ \A i \in 1..Len(K) : D[i] = K[i]
          /\ \A i \in 1..Len(s) : D[Len(K) + i] = s[i]
      BY <2>1, InJoined
    <2> HIDE DEF D
    <2>3. D[Len(K) + 1] = s[1]
      BY <2>1, <2>2
    <2>4. QED
      BY <1>1, <2>2, <2>3
  <1> HIDE DEF D, a
  <1>4. /\ B \in Seq(T) /\ Len(B) = a + 1 + f /\ f \in Nat
        /\ \A i \in 1..(a + 1) : B[i] = D[i]
        /\ \A i \in 1..f : B[a + 1 + i] = F[i]
    <2>1. D \in Seq(T)
      BY <1>3
    <2>2. /\ B \in Seq(T) /\ Len(B) = Len(D) + Len(F) /\ Len(F) \in Nat
          /\ \A i \in 1..Len(D) : B[i] = D[i]
          /\ \A i \in 1..Len(F) : B[Len(D) + i] = F[i]
      BY <2>1, InJoined
    <2> HIDE DEF B
    <2>3. QED
      BY <1>3, <2>2
  <1> HIDE DEF B, f
  <1>5. /\ Len(L) = a + 1 + f + 2 /\ DOMAIN L = 1..(a + 1 + f + 2)
        /\ \A i \in 1..(a + 1 + f) : L[i] = B[i]
        /\ L[a + f + 2] = Space /\ L[a + f + 3] = ts
    <2>1. B \in Seq(T) /\ t \in Seq(T) /\ 1 \in 1..Len(t) /\ 2 \in 1..Len(t)
      BY <1>2, <1>4
    <2>2. /\ Len(L) = Len(B) + Len(t) /\ DOMAIN L = 1..(Len(B) + Len(t))
          /\ \A i \in 1..Len(B) : L[i] = B[i]
          /\ \A i \in 1..Len(t) : L[Len(B) + i] = t[i]
      BY <2>1, InJoined
    <2> HIDE DEF L
    <2>3. L[Len(B) + 1] = Space /\ L[Len(B) + 2] = ts
      BY <1>2, <2>1, <2>2
    <2>4. Len(B) + 1 = a + f + 2 /\ Len(B) + 2 = a + f + 3 /\ Len(B) = a + 1 + f /\ Len(t) = 2
      BY <1>2, <1>3, <1>4
    <2>5. QED
      BY <2>2, <2>3, <2>4
  <1> HIDE DEF L
  <1>6. \A i \in 1..f : L[a + 1 + i] = F[i]
    <2> TAKE i \in 1..f
    <2>1. a + 1 + i \in 1..(a + 1 + f)
      BY <1>3, <1>4
    <2>2. QED
      BY <1>4, <1>5, <2>1
  \* Only among the fields does the name occur.
  <1>7. ASSUME NEW i \in DOMAIN L, L[i] = x PROVE \E j \in 1..f : i = a + 1 + j /\ F[j] = x
    <2>1. \/ i \in 1..a \/ i = a + 1 \/ (i - (a + 1) \in 1..f /\ i = a + 1 + (i - (a + 1)))
          \/ i = a + f + 2 \/ i = a + f + 3
      <3>1. a \in Nat /\ f \in Nat /\ i \in 1..(a + 1 + f + 2)
        BY <1>3, <1>4, <1>5
      <3>2. i \in Nat /\ i >= 1 /\ i <= a + f + 3
        BY <3>1
      <3>3. CASE i <= a \/ i = a + 1
        BY <3>1, <3>2, <3>3
      <3>4. CASE i > a + 1 /\ i < a + f + 2
        <4>1. i - (a + 1) \in 1..f /\ i = a + 1 + (i - (a + 1))
          BY <3>1, <3>2, <3>4
        <4>2. QED
          BY <4>1
      <3>5. CASE i >= a + f + 2
        <4>1. \A d, u \in Nat : u >= d + 2 /\ u <= d + 3 => u = d + 2 \/ u = d + 3
          OBVIOUS
        <4>2. a + f \in Nat
          BY <3>1
        <4>3. i = a + f + 2 \/ i = a + f + 3
          BY <3>2, <3>5, <4>1, <4>2
        <4>4. QED
          BY <4>3
      <3>6. QED
        BY <3>1, <3>2, <3>3, <3>4, <3>5
    <2>2. i \notin 1..a
      <3>1. ASSUME i \in 1..a PROVE FALSE
        <4>1. i \in 1..(a + 1) /\ i \in 1..(a + 1 + f)
          BY <1>3, <1>4, <3>1
        <4>2. L[i] = K[i]
          BY <1>3, <1>4, <1>5, <3>1, <4>1
        <4>3. QED
          BY <1>7, <3>1, <4>2 DEF a
      <3>2. QED
        BY <3>1
    <2>3. i # a + 1
      <3>1. a + 1 \in 1..(a + 1) /\ a + 1 \in 1..(a + 1 + f)
        BY <1>3, <1>4
      <3>2. L[a + 1] = Space
        BY <1>3, <1>4, <1>5, <3>1
      <3>3. QED
        BY <1>7, <3>2
    <2>4. i # a + f + 2 /\ i # a + f + 3
      BY <1>5, <1>7
    <2>5. QED
      BY <1>6, <1>7, <2>1, <2>2, <2>3, <2>4
  \* There it is the name of a pair, with the value behind it.
  <1>8. ASSUME NEW j \in 1..f, F[j] = x
        PROVE  j + 2 \in 1..f /\ F[j + 2] = V[n] /\ F[j + 1] = Equals
    <2>1. f = IF c = 0 THEN 0 ELSE 4 * c - 1
      BY DEF Pairs, f
    <2>2. c # 0 /\ f = 4 * c - 1
      BY <2>1
    <2>3. \E h \in 1..c : \/ j = 4 * h - 3 \/ j = 4 * h - 2 \/ j = 4 * h - 1 \/ (j = 4 * h /\ h \in 1..(c - 1))
      <3> DEFINE g == j \div 4
      <3>1. j \in Nat /\ j >= 1 /\ j <= 4 * c - 1
        BY <2>2
      <3>2. g \in Nat /\ (j % 4) \in 0..3 /\ j = 4 * g + (j % 4)
        BY <3>1
      <3>3. \A r, d \in Nat : r \in 0..3 /\ j = 4 * d + r =>
               \/ r = 1 /\ d + 1 \in 1..c /\ j = 4 * (d + 1) - 3
               \/ r = 2 /\ d + 1 \in 1..c /\ j = 4 * (d + 1) - 2
               \/ r = 3 /\ d + 1 \in 1..c /\ j = 4 * (d + 1) - 1
               \/ r = 0 /\ d \in 1..c /\ d \in 1..(c - 1) /\ j = 4 * d
        BY <3>1
      <3> HIDE DEF g
      <3>4. (j % 4) \in Nat
        BY <3>2
      <3>5. QED
        BY <3>2, <3>3, <3>4
    <2>4. PICK h \in 1..c : \/ j = 4 * h - 3 \/ j = 4 * h - 2 \/ j = 4 * h - 1
                            \/ (j = 4 * h /\ h \in 1..(c - 1))
      BY <2>3
    <2>5. F[4 * h - 2] = Equals /\ (h \in 1..(c - 1) => F[4 * h] = Comma)
      BY DEF Pairs
    <2>6. PICK k \in A : F[4 * h - 3] = N[k] /\ F[4 * h - 1] = V[k]
      BY DEF Pairs, PairAt
    <2>7. j = 4 * h - 3
      BY <1>8, <2>4, <2>5, <2>6
    <2>8. k = n
      BY <1>8, <2>6, <2>7
    <2>9. j + 1 = 4 * h - 2 /\ j + 2 = 4 * h - 1 /\ j + 2 \in 1..f
      BY <2>2, <2>7
    <2>10. QED
      BY <2>5, <2>6, <2>8, <2>9
  <1> DEFINE P(i) == L[i] = x /\ L[i + 1] = Equals
  <1>9. \E i \in DOMAIN L : P(i)
    <2>1. PICK h \in 1..c : F[4 * h - 3] = x
      BY DEF Pairs, PairAt
    <2>2. 4 * h - 3 \in 1..f
      <3>1. f = IF c = 0 THEN 0 ELSE 4 * c - 1
        BY DEF Pairs, f
      <3>2. QED
        BY <3>1
    <2> DEFINE j == 4 * h - 3
    <2>3. j \in 1..f /\ F[j] = x
      BY <2>1, <2>2
    <2> HIDE DEF j
    <2>4. F[j + 1] = Equals /\ j + 1 \in 1..f
      <3>1. j + 2 \in 1..f /\ F[j + 1] = Equals
        BY <1>8, <2>3
      <3>2. QED
        BY <1>4, <2>3, <3>1
    <2>5. a + 1 + j \in DOMAIN L /\ (a + 1 + j) + 1 = a + 1 + (j + 1)
      BY <1>3, <1>4, <1>5, <2>3
    <2>6. QED
      BY <1>6, <2>3, <2>4, <2>5
  <1>10. \A i \in DOMAIN L : P(i) => L[i + 2] = V[n]
    <2> SUFFICES ASSUME NEW i \in DOMAIN L, L[i] = x PROVE L[i + 2] = V[n]
      OBVIOUS
    <2>1. PICK j \in 1..f : i = a + 1 + j /\ F[j] = x
      BY <1>7
    <2>2. j + 2 \in 1..f /\ F[j + 2] = V[n]
      BY <1>8, <2>1
    <2>3. i + 2 = a + 1 + (j + 2)
      BY <1>3, <2>1
    <2>4. QED
      BY <1>6, <2>2, <2>3
  <1>11. WrittenValue(L, x) = L[(CHOOSE i \in DOMAIN L : P(i)) + 2]
    BY Zenon DEF WrittenValue, Equals
  <1> HIDE DEF P
  <1>12. WrittenValue(L, x) = V[n]
    <2> DEFINE p == CHOOSE i \in DOMAIN L : P(i)
    <2>1. p \in DOMAIN L /\ P(p)
      BY <1>9
    <2> HIDE DEF p
    <2>2. L[p + 2] = V[n]
      BY <1>10, <2>1
    <2>3. QED
      BY <1>11, <2>2 DEF p
  <1>13. Line(K, F, ts) = L
    BY Zenon DEF Line, L, B, D, s, t
  <1>14. QED
    BY <1>12, <1>13

\* A head holds no field's name.
LEMMA HeadHasNoField ==
    ASSUME NEW r \in Requests, Accepted(r), NEW x \in FieldNames,
           NEW m, m = decode(r.frame), NEW T, T = Words(m)
    PROVE  HeadOf(r) \in Seq(T) /\ \A i \in 1..Len(HeadOf(r)) : HeadOf(r)[i] # x
  <1> DEFINE M == Measured(r)
             V == Named(r)
             H == Tags(r.frame.mac)
             None(s) == \A i \in 1..Len(s) : s[i] # x
  <1>1. /\ Comma \in T /\ Equals \in T /\ Back \in T /\ MacTag \in T /\ NameTag \in T
        /\ r.measurement \in Seq(T) /\ NameOf(r) \in Seq(T) /\ r.frame.mac \in T
    BY PartsOfLine
  <1>2. x # Comma /\ x # Equals /\ x # Space /\ x # Back /\ x # MacTag /\ x # NameTag
    BY FieldNamesAreNames DEF Inert, Seps
  <1>3. ASSUME NEW text \in Seq(T), NoField(text), NEW S \in SUBSET Seps
        PROVE  Escaped(text, S) \in Seq(T) /\ None(Escaped(text, S))
    <2>1. Back \notin S
      BY SeparatorsDiffer DEF Seps
    <2> DEFINE E == Escaped(text, S)
    <2>2. E \in Seq(T) /\ Escapes(E, text, S)
      BY <1>1, <2>1, EscapedEscapes
    <2> HIDE DEF E
    <2>3. \A j \in 1..Len(text) : text[j] # x
      BY <1>3 DEF NoField
    <2>4. None(E)
      BY <1>2, <2>2, <2>3 DEF Escapes
    <2>5. QED
      BY <2>2, <2>4 DEF E
  <1>4. M \in Seq(T) /\ None(M)
    <2>1. {Comma, Space} \in SUBSET Seps
      BY DEF Seps
    <2>2. NoField(r.measurement)
      BY RequestFacts
    <2> DEFINE S == {Comma, Space}
    <2> HIDE DEF S, None
    <2>3. S \in SUBSET Seps
      BY <2>1 DEF S
    <2>4. M = Escaped(r.measurement, S)
      BY DEF Measured, S
    <2> HIDE DEF M
    <2>5. QED
      BY <1>1, <1>3, <2>2, <2>3, <2>4
  <1>5. V \in Seq(T) /\ None(V)
    <2>1. NoField(NameOf(r))
      BY NameIsWanted
    <2> HIDE DEF None
    <2>2. V = Escaped(NameOf(r), Seps) /\ Seps \in SUBSET Seps
      BY DEF Named
    <2> HIDE DEF V
    <2>3. QED
      BY <1>1, <1>3, <2>1, <2>2
  <1>6. H \in Seq(T) /\ None(H)
    <2>1. r.frame.mac # x
      BY RequestFacts, OpaqueIs
    <2>2. /\ H \in Seq(T) /\ Len(H) = 7
          /\ H[1] = Comma /\ H[2] = MacTag /\ H[3] = Equals /\ H[4] = r.frame.mac /\ H[5] = Comma
          /\ H[6] = NameTag /\ H[7] = Equals
      BY <1>1 DEF Tags
    <2> HIDE DEF H
    <2>3. \A i \in 1..7 : i = 1 \/ i = 2 \/ i = 3 \/ i = 4 \/ i = 5 \/ i = 6 \/ i = 7
      OBVIOUS
    <2>4. QED
      BY <1>2, <2>1, <2>2, <2>3
  <1> HIDE DEF M, V, H
  <1>7. ASSUME NEW A \in Seq(T), NEW B \in Seq(T), None(A), None(B)
        PROVE  A \o B \in Seq(T) /\ None(A \o B)
    <2> DEFINE Z == A \o B
    <2>1. /\ Z \in Seq(T) /\ Len(A) \in Nat /\ Len(B) \in Nat /\ Len(Z) = Len(A) + Len(B)
          /\ \A i \in 1..Len(A) : Z[i] = A[i]
          /\ \A i \in 1..Len(B) : Z[Len(A) + i] = B[i]
      BY InJoined
    <2> HIDE DEF Z
    <2>2. \A i \in 1..(Len(A) + Len(B)) :
             i \in 1..Len(A) \/ (i - Len(A) \in 1..Len(B) /\ i = Len(A) + (i - Len(A)))
      BY <2>1
    <2>3. None(Z)
      <3> SUFFICES ASSUME NEW i \in 1..Len(Z) PROVE Z[i] # x
        OBVIOUS
      <3>1. CASE i \in 1..Len(A)
        BY <1>7, <2>1, <3>1
      <3>2. CASE i \notin 1..Len(A)
        <4> DEFINE j == i - Len(A)
        <4>1. j \in 1..Len(B) /\ i = Len(A) + j
          BY <2>1, <2>2, <3>2
        <4> HIDE DEF j
        <4>2. Z[i] = B[j] /\ B[j] # x
          BY <1>7, <2>1, <4>1
        <4>3. QED
          BY <4>2
      <3>3. QED
        BY <3>1, <3>2
    <2>4. QED
      BY <2>1, <2>3 DEF Z
  <1> HIDE DEF None
  <1>8. H \o V \in Seq(T) /\ None(H \o V)
    BY <1>5, <1>6, <1>7
  <1>9. M \o (H \o V) \in Seq(T) /\ None(M \o (H \o V))
    <2> DEFINE W == H \o V
    <2> HIDE DEF W
    <2>1. W \in Seq(T) /\ None(W)
      BY <1>8 DEF W
    <2>2. M \o W \in Seq(T) /\ None(M \o W)
      BY <1>4, <1>7, <2>1
    <2>3. QED
      BY <2>2 DEF W
  <1>10. HeadOf(r) = M \o (H \o V)
    BY Zenon DEF HeadOf, LineHead, M, H, V
  <1>11. QED
    BY <1>9, <1>10 DEF None

LEMMA ReadingsAreWritten ==
    ASSUME NEW r \in Requests, Accepted(r), NEW x \in DOMAIN decode(r.frame).fields
    PROVE  WrittenValue(LineOf(r), x) = ToString(r.frame.true[x])
  <1> DEFINE m == decode(r.frame)
             T == Words(m)
             K == HeadOf(r)
             F == FieldsOf(r)
             ts == TimeOf(r)
             A == Shown(m)
             c == Cardinality(A)
             N == [k \in 1..18 |-> FieldOrder[k]]
             V == [k \in 1..18 |-> Token(m, k)]
  <1>1. /\ Space \in T /\ ts \in T /\ Inert(ts) /\ F \in Seq(T) /\ Pairs(F, c, A, N, V)
    BY PartsOfLine
  <1>2. /\ DOMAIN m.fields \subseteq FieldNames
        /\ \A k \in A : /\ k \in 1..18 /\ Token(m, k) = ToString(r.frame.true[FieldOrder[k]])
                        /\ Opaque(Token(m, k))
    BY RequestFields
  <1>3. x \in FieldNames
    BY <1>2
  <1>4. K \in Seq(T) /\ \A i \in 1..Len(K) : K[i] # x
    BY <1>3, HeadHasNoField
  <1>5. Space # x /\ Comma # x /\ Equals # x
    BY <1>3, FieldNamesAreNames DEF Inert, Seps
  <1>6. ts # x
    BY <1>3, RequestFacts, OpaqueIs DEF TimeOf
  <1>7. c \in Nat /\ {FieldOrder[k] : k \in A} = DOMAIN m.fields
    BY <1>2, FieldNamesAreNames, ShownCount
  <1>8. PICK n \in A : FieldOrder[n] = x
    BY <1>7
  <1>9. \A k \in A : N[k] = FieldOrder[k] /\ V[k] = Token(m, k)
    BY <1>2
  <1>10. \A k \in A : V[k] # x
    BY <1>2, <1>3, <1>9, OpaqueIs
  <1>11. N[n] = x /\ \A k \in A : N[k] = x => k = n
    BY <1>2, <1>8, <1>9, FieldOrderFacts
  <1> HIDE DEF m, T, K, F, ts, A, c, N, V
  <1>12. WrittenValue(Line(K, F, ts), x) = V[n]
    BY <1>1, <1>4, <1>5, <1>6, <1>7, <1>10, <1>11, FieldFound
  <1>13. LineOf(r) = Line(K, F, ts)
    BY DEF LineOf, K, F, ts
  <1>14. QED
    BY <1>2, <1>8, <1>9, <1>12, <1>13

--------------------------------------------------------------------------------
(* Every line.                                                                  *)

\* A line that was put out is the one that is made from its request.
LinesAreMade ==
    output.is = "line" =>
        /\ input.what = "line" /\ input.from \in Requests /\ Accepted(input.from)
        /\ output.text = LineOf(input.from)

LEMMA LineIsOfRequest == Spec => []LinesAreMade
  <1>1. Init => LinesAreMade
    BY DEF Init, LinesAreMade, Nothing
  <1>2. OutputInv /\ LinesAreMade /\ [Next]_vars => LinesAreMade'
    <2> SUFFICES ASSUME OutputInv, LinesAreMade, [Next]_vars PROVE LinesAreMade'
      OBVIOUS
    <2>1. CASE UNCHANGED vars
      BY <2>1 DEF LinesAreMade, vars
    <2>2. CASE Next /\ ParseDuration
      <3>1. \A x, y : parse_duration(x, y).is # "line"
        BY DEF parse_duration
      <3>2. QED
        BY <2>2, <3>1 DEF ParseDuration, LinesAreMade
    <2>3. CASE Next /\ ParseAddress
      <3>1. \A x : from_str(x).is # "line"
        BY DEF from_str
      <3>2. QED
        BY <2>3, <3>1 DEF ParseAddress, LinesAreMade
    <2>4. CASE Next /\ RefuseAlias
      BY <2>4 DEF RefuseAlias, LinesAreMade
    <2>5. CASE Next /\ write_measurement
      <3>1. input' = input /\ input.what = "line" /\ Accepted(input.from)
        BY <2>5 DEF Next, write_measurement
      <3>2. input.from \in Requests
        BY <3>1 DEF OutputInv
      <3>3. output' = [is |-> "line", text |-> LineOf(input.from)]
        <4>1. output' = [is |-> "line", text |-> format(input.from.measurement, decode(input.from.frame),
                                                        NameOf(input.from))]
          BY <2>5 DEF write_measurement
        <4>2. format(input.from.measurement, decode(input.from.frame), NameOf(input.from))
                 = LineOf(input.from)
          BY <3>1, <3>2, LineIs
        <4>3. QED
          BY <4>1, <4>2, Zenon
      <3>4. output'.text = LineOf(input.from)
        BY <3>3
      <3>5. LineOf(input.from)' = LineOf(input.from) /\ Accepted(input.from)' = Accepted(input.from)
        BY <3>1
      <3>6. QED
        BY <3>1, <3>2, <3>4, <3>5 DEF LinesAreMade
    <2>6. QED
      BY <2>1, <2>2, <2>3, <2>4, <2>5 DEF Next
  <1>3. QED
    BY OutputIsOfInput, <1>1, <1>2, PTL DEF Spec

\* Every line reads back as its measurement, its tag, its alias and its fields,
\* whatever separators the names of the options hold (influxdb.rs:67-230).
THEOREM LinesReadBack == Spec => []LineReadsBack
  <1>1. LinesAreMade => LineReadsBack
    <2> SUFFICES ASSUME LinesAreMade, output.is = "line" PROVE ReadsBack(input.from, output.text)
      BY LineReadsBackIs
    <2>1. input.from \in Requests /\ Accepted(input.from) /\ output.text = LineOf(input.from)
      BY DEF LinesAreMade
    <2>2. QED
      BY <2>1, EveryLineReadsBack
  <1>2. QED
    BY LineIsOfRequest, <1>1, PTL

\* Every line of every format writes what the sensors measured, in one unit, and
\* an E1 frame has all that a V6 frame has (scanner/mod.rs:153-253,
\* influxdb.rs:23-27, 146).
THEOREM LinesAgree == Spec => []FormatsAgree
  <1>1. LinesAreMade => FormatsAgree
    <2> SUFFICES ASSUME LinesAreMade, output.is = "line" PROVE FormatsAgree
      BY DEF FormatsAgree
    <2> DEFINE r == input.from
               frame == r.frame
    <2>1. r \in Requests /\ Accepted(r) /\ output.text = LineOf(r)
      BY DEF LinesAreMade
    <2>2. \A f \in DOMAIN decode(frame).fields : WrittenValue(output.text, f) = ToString(frame.true[f])
      BY <2>1, ReadingsAreWritten
    <2>3. frame \in Frames
      BY <2>1, RequestFacts
    <2>4. frame.format = "V6" => Present(frame) \subseteq Present([frame EXCEPT !.format = "E1"])
      BY <2>3, E1HasV6
    <2>5. QED
      BY <2>2, <2>4 DEF FormatsAgree
  <1>2. QED
    BY LineIsOfRequest, <1>1, PTL

================================================================================
