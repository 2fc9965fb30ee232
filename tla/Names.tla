--------------------------------- MODULE Names ---------------------------------
(* MAC addresses (src/mac_address.rs) and aliases (src/alias.rs).             *)
EXTENDS Naturals, Sequences, SequencesExt, FiniteSetsExt

CONSTANT Parts    \* the bytes of an address: 6

Upper == <<"0", "1", "2", "3", "4", "5", "6", "7", "8", "9", "A", "B", "C", "D", "E", "F">>
Lower == <<"0", "1", "2", "3", "4", "5", "6", "7", "8", "9", "a", "b", "c", "d", "e", "f">>

\* The text between the colons: two digits for each byte.
Display_Mutant(m) ==
    [i \in DOMAIN m |-> IF m[i] < 16 THEN <<Upper[m[i] + 1]>>
                                     ELSE <<Upper[(m[i] \div 16) + 1], Upper[(m[i] % 16) + 1]>>]
Display(m) == [i \in DOMAIN m |-> <<Upper[(m[i] \div 16) + 1], Upper[(m[i] % 16) + 1]>>]

\* u8::from_str_radix(part, 16) takes both cases and a plus sign.
HexDigits(part) == IF part[1] = "+" THEN Tail(part) ELSE part
IsHex(part) == \A c \in {HexDigits(part)[i] : i \in DOMAIN HexDigits(part)} :
                  \E d \in 1..16 : c \in {Upper[d], Lower[d]}
Digit(c) == (CHOOSE d \in 1..16 : c \in {Upper[d], Lower[d]}) - 1

\* The number of one digit after a sign, or of two digits.
Hex(part) ==
    LET digits == HexDigits(part)
    IN  IF Len(digits) = 1 THEN Digit(digits[1]) ELSE 16 * Digit(digits[1]) + Digit(digits[2])

\* The text split at its colons; the first bad part decides the error.
from_str(parts) ==
    LET short == {i \in DOMAIN parts : Len(parts[i]) # 2}
        bad   == {i \in DOMAIN parts : Len(parts[i]) = 2 /\ ~IsHex(parts[i])}
    IN  IF Len(parts) # Parts THEN [is |-> "InvalidLength"]
        ELSE IF short \cup bad = {} THEN [is |-> "ok", mac |-> [i \in 1..Parts |-> Hex(parts[i])]]
        ELSE IF Min(short \cup bad) \in short THEN [is |-> "InvalidPartLength"]
        ELSE [is |-> "InvalidHex"]

--------------------------------------------------------------------------------
(* In an alias the address is one opaque element of the text.                 *)

\* split_once('='): the name is everything after the first equals sign, and
\* what is before it has to be an address.
parse_alias(src) ==
    LET at == {i \in DOMAIN src : src[i] = "="}
    IN  IF at # {} /\ Min(at) = 2
          THEN [is |-> "ok", address |-> src[1], name |-> SubSeq(src, 3, Len(src))]
          ELSE [is |-> "err"]

\* Collecting into a map keeps the last alias of an address.
to_map(aliases) ==
    [m \in {aliases[i].address : i \in DOMAIN aliases} |->
        aliases[Max({i \in DOMAIN aliases : aliases[i].address = m})].name]

resolve_name(mac, aliases) == IF mac \in DOMAIN aliases THEN aliases[mac] ELSE <<mac>>
================================================================================
