------------------------------- MODULE MCCidr -------------------------------
(* 3-bit and 5-bit addresses with 4-bit integers.                          *)
EXTENDS Cidr

V4(n) == [fam |-> "v4", n |-> n]
V6(n) == [fam |-> "v6", n |-> n]

MCSeen == {V4(n) : n \in 0 .. 7} \cup {V6(n) : n \in {0, 1, 2, 3, 6, 9, 12, 20, 31}}

Setting(on, l, c4, c6) == [enabled |-> on, level |-> l, v4 |-> c4, v6 |-> c6]

NoSection == Setting(FALSE, "", 0, 0)

MCConfs ==
  {[policy |-> NoSection, global |-> Setting(TRUE, l, c[1], c[2])] :
      l \in {"off", "conservative", "balanced", "aggressive"},
      c \in {<<-1, 0>>, <<2, 3>>, <<9, 2>>}}
  \cup {[policy |-> Setting(on, "word", 1, 1), global |-> Setting(g, "conservative", 1, 2)] :
          on, g \in BOOLEAN}
\* The levels that export what is stored and no more.
MCExact ==
  {[policy |-> NoSection, global |-> Setting(TRUE, l, 1, 1)] : l \in {"off", "conservative"}}
=============================================================================
