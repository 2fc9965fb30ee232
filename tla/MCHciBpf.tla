------------------------------- MODULE MCHciBpf -------------------------------
(* The filter with the offsets of the source, on packets that differ where it *)
(* looks: the header, the length, and where the two id bytes stand.           *)
EXTENDS HciBpf

Heads == {<<4, 62, 0, 2>>, <<4, 62, 0, 13>>, <<4, 62, 0, 1>>, <<4, 14, 0, 2>>, <<2, 62, 0, 13>>}
Lengths == {4, 15, 16, 17, 60, 61, 62, 63, 70}
Places == {4, 12, 13, 14, 15, 40, 59, 60, 61, 62}

Packet(head, n, lo, hi) ==
    head \o [i \in 1..(n - 4) |->
                IF i + 3 = lo THEN RUUVI_LO ELSE IF i + 3 = hi THEN RUUVI_HI ELSE 0]

MCPackets ==
    {<<>>, <<4>>, <<4, 62>>, <<4, 62, 0>>} \cup
    {Packet(h, n, lo, lo + gap) : h \in Heads, n \in Lengths, lo \in Places, gap \in {1, 2}}
===============================================================================
