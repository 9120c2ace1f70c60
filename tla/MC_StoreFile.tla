---------------------------- MODULE MC_StoreFile ----------------------------
(* Instances of StoreFile for TLC; its constants are numbers. *)
EXTENDS StoreFile
=============================================================================
