--------------------------- MODULE MC_DeviceFiles ---------------------------
(* Instances of DeviceFiles for TLC. *)
EXTENDS DeviceFiles

AllKinds == Names
ThreeIds == {0, 10, 20}
ShortAndLong == {<<5>>, <<6, 7>>}
Either == {TRUE, FALSE}

\* Up to three lamps, short and long, each whole or without its last fields.
OfLamp(v, n) == [d \in Fields |-> IF d < n THEN v ELSE <<>>]
SomeLamps == {OfLamp(v, n) : v \in ShortAndLong, n \in {3, 6}}
UpToThree == UNION {[1 .. k -> SomeLamps] : k \in 0 .. 3}
=============================================================================
