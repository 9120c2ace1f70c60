--------------------------- MODULE MC_RecordDemo ---------------------------
(* Instances of RecordDemo for TLC. *)
EXTENDS RecordDemo

AnyGarbage == Ids
AnyFault == {"card", "login", "queue", "file"}
=============================================================================
