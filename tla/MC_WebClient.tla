---------------------------- MODULE MC_WebClient ----------------------------
(* Instances of WebClient for TLC. *)
EXTENDS WebClient
=============================================================================
