-------------------------- MODULE MC_AudioControl --------------------------
(* A small instance of AudioControl: the commands TLC may send, by question. *)
EXTENDS AudioControl, TLC

Cmd(op) == [op |-> op, lvl |-> 0]

\* Everything that plays, records or stops.
ActivityCommands ==
    {Cmd(op) : op \in {"grammar", "record", "stop", "ring", "ringBad", "play"}}

\* Every kind of command; the levels lie below and inside the mixer's range.
AllCommands ==
    {Cmd(op) : op \in Ops \ {"setVol", "setVolWeb"}}
        \cup [op : {"setVol", "setVolWeb"}, lvl : {60, 100}]

Slots == Permutations(Workers)
=============================================================================
