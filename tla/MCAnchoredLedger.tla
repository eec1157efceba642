-------------------------- MODULE MCAnchoredLedger --------------------------
(* Two processes, one of them with two threads; and one process by itself. *)
EXTENDS AnchoredLedger, TLC
CONSTANTS w1, w2, w3, p1, p2

Writers == {w1, w2, w3}
Processes == {p1, p2}
ProcessMap == (w1 :> p1) @@ (w2 :> p1) @@ (w3 :> p2)
Pair == {w1, w3}
PairMap == (w1 :> p1) @@ (w3 :> p2)
Threads == {w1, w2}
Alone == {p1}
ThreadMap == (w1 :> p1) @@ (w2 :> p1)

Torn == {"torn"}
TornOrUnended == {"torn", "unended"}
=============================================================================
