--------------------------- MODULE MC_SerialLine ---------------------------
(* Instances of SerialLine for TLC. *)
EXTENDS SerialLine

OnePlain == {"x"}
=============================================================================
