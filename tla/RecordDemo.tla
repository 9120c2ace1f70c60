----------------------------- MODULE RecordDemo -----------------------------
(***************************************************************************)
(* The recording demonstration (audio/rec.c), two processes that talk      *)
(* through the queue only.  In every cycle the father starts a recording,  *)
(* stops it, waits for what the speech service recognised in it and has    *)
(* that spoken.  The child takes all its commands from message type 8: in  *)
(* its main loop, and, while it records, in another one.  The queue outlives   *)
(* the program: what a run that was stopped left in it, the next run finds.  *)
(***************************************************************************)
EXTENDS Integers, Sequences

CONSTANTS
    Garbage,    \* what data_w.id may hold before the first message
    Faults,     \* what may fail: "card", "login", "queue", "file"
    MaxCycles,  \* bound: how many cycles the fathers begin
    MaxRestarts \* bound: how often the program is stopped and run again

Ids == {0, 1, 2}    \* start recording, stop recording, speak

ASSUME GarbageAssumption == Garbage \subseteq Ids
ASSUME FaultsAssumption == Faults \subseteq {"card", "login", "queue", "file"}
ASSUME BoundsAssumption == MaxCycles \in Nat /\ MaxRestarts \in Nat

VARIABLES
    father,     \* "start", "stop", "wait", "speak", "gone"
    cycle,      \* its cycle
    result,     \* the text it was given last: of which recording
    child,      \* "idle", "record", "ask", "speak", "dead", "stuck"
    seen,       \* rec(): data_w.id
    about,      \* what the child is at: a recording, or a text to speak
    commands,   \* messages of type 8: [id, n]
    results,    \* messages of type 7: numbers of recordings
    spoken,     \* history: the texts spoken, in order
    failed,     \* history: what has failed
    restarts    \* history: how often the program was run again

fatherVars == <<father, cycle, result>>
childVars  == <<child, seen, about, spoken>>
vars == <<fatherVars, childVars, commands, results, failed, restarts>>

Fails(f) == f \in Faults /\ failed' = failed \cup {f}
Works == UNCHANGED failed

Init ==
    /\ father = "start" /\ cycle = 1 /\ result = 0
    /\ child = "idle" /\ seen = 0 /\ about = 0
    /\ commands = <<>> /\ results = <<>>
    /\ spoken = <<>> /\ failed = {} /\ restarts = 0

-----------------------------------------------------------------------------
(* The father *)

\* msgsnd() with IPC_NOWAIT; it exits if the queue is full.
Commands(id, n, next) ==
    \/ /\ Works /\ father' = next
       /\ commands' = Append(commands, [id |-> id, n |-> n])
    \/ Fails("queue") /\ father' = "gone" /\ UNCHANGED commands

FatherStarts ==
    /\ father = "start" /\ cycle <= MaxCycles
    /\ Commands(0, cycle, "stop")
    /\ UNCHANGED <<cycle, result, childVars, results>>

FatherStops ==
    /\ father = "stop"
    /\ Commands(1, cycle, "wait")
    /\ UNCHANGED <<cycle, result, childVars, results>>

\* Mutant of FatherWaits: with IPC_NOWAIT, as rec() receives.
FatherWaitsNot ==
    /\ father = "wait" /\ father' = "speak"
    /\ \/ results # <<>> /\ result' = Head(results) /\ results' = Tail(results)
       \/ results = <<>> /\ UNCHANGED <<result, results>>
    /\ UNCHANGED <<cycle, childVars, commands, failed>>

\* msgrcv() of type 7 waits for a message.
FatherWaits ==
    /\ father = "wait" /\ results # <<>>
    /\ result' = Head(results) /\ results' = Tail(results)
    /\ father' = "speak"
    /\ UNCHANGED <<cycle, childVars, commands, failed>>

\* Mutant of FatherSpeaks: an id the child does not know.
FatherSpeaksUnknown ==
    /\ father = "speak"
    /\ Commands(3, result, "start")
    /\ cycle' = cycle + 1
    /\ UNCHANGED <<result, childVars, results>>

FatherSpeaks ==
    /\ father = "speak"
    /\ Commands(2, result, "start")
    /\ cycle' = cycle + 1
    /\ UNCHANGED <<result, childVars, results>>

-----------------------------------------------------------------------------
(* The child *)

\* The main loop: a "stop" that comes when nothing is being recorded is ignored.
ChildReceives ==
    /\ child = "idle" /\ commands # <<>>
    /\ commands' = Tail(commands)
    /\ LET m == Head(commands) IN
         \/ m.id = 0 /\ child' = "record" /\ seen' \in Garbage /\ about' = m.n /\ Works
         \/ m.id = 0 /\ child' \in {"dead", "idle"} /\ Fails("card") /\ UNCHANGED <<seen, about>>
         \/ m.id = 1 /\ Works /\ UNCHANGED <<child, seen, about>>
         \/ m.id = 2 /\ child' = "speak" /\ about' = m.n /\ Works /\ UNCHANGED seen
    /\ UNCHANGED <<fatherVars, results, spoken>>

\* rec()'s loop: a message if there is one; what data_w.id then holds decides,
\* before the first message too.
ChildRecords ==
    /\ child = "record"
    /\ \/ /\ commands # <<>>
          /\ seen' = Head(commands).id /\ commands' = Tail(commands)
       \/ /\ commands = <<>> /\ seen = 1
          /\ UNCHANGED <<seen, commands>>
    /\ child' = IF seen' = 1 THEN "ask" ELSE "record"
    /\ UNCHANGED <<fatherVars, about, results, spoken, failed>>

\* Mutant of ChildAsks: a service that cannot be reached gives no result.
ChildAsksSilently ==
    /\ child = "ask"
    /\ child' = "idle"
    /\ \/ Works /\ results' = Append(results, about)
       \/ Works /\ UNCHANGED results
       \/ Fails("queue") /\ UNCHANGED results
    /\ UNCHANGED <<fatherVars, seen, about, commands, spoken>>

\* The recognised text is sent; without a login get_from_server() returns NULL,
\* which strrchr() reads.
ChildAsks ==
    /\ child = "ask"
    /\ \/ Works /\ child' = "idle" /\ results' = Append(results, about)
       \/ Fails("queue") /\ child' = "idle" /\ UNCHANGED results
       \/ Fails("login") /\ child' = "dead" /\ UNCHANGED results
    /\ UNCHANGED <<fatherVars, seen, about, commands, spoken>>

\* play() and playback(): without a login the file is empty; of a file that can
\* neither be written nor read the end never comes.
ChildSpeaks ==
    /\ child = "speak"
    /\ \/ Works /\ child' = "idle" /\ spoken' = Append(spoken, about)
       \/ Fails("card") /\ child' \in {"dead", "idle"} /\ UNCHANGED spoken
       \/ Fails("login") /\ child' = "idle" /\ UNCHANGED spoken
       \/ Fails("file") /\ child' = "stuck" /\ UNCHANGED spoken
    /\ UNCHANGED <<fatherVars, seen, about, commands, results>>

-----------------------------------------------------------------------------
Father ==
    /\ FatherStarts \/ FatherStops \/ FatherWaits \/ FatherSpeaks
    /\ UNCHANGED restarts
Child ==
    /\ ChildReceives \/ ChildRecords \/ ChildAsks \/ ChildSpeaks
    /\ UNCHANGED restarts

\* Both processes are stopped, at any point, and the program is run again;
\* the cycles are numbered on.
Restart ==
    /\ restarts < MaxRestarts /\ restarts' = restarts + 1
    /\ father' = "start" /\ cycle' = cycle + 1 /\ result' = 0
    /\ child' = "idle" /\ seen' = 0 /\ about' = 0
    /\ UNCHANGED <<commands, results, spoken, failed>>

Next == Father \/ Child \/ Restart
Spec == Init /\ [][Next]_vars

\* Both are processes of their own, and every call but msgrcv() comes back.
FairSpec == Spec /\ WF_vars(Father) /\ WF_vars(Child)

-----------------------------------------------------------------------------
(* Properties *)

\* Types of the variables.
TypeOK ==
    /\ father \in {"start", "stop", "wait", "speak", "gone"}
    /\ cycle \in Nat /\ result \in Nat
    /\ child \in {"idle", "record", "ask", "speak", "dead", "stuck"}
    /\ seen \in Ids /\ about \in Nat
    /\ commands \in Seq([id : Ids, n : Nat]) /\ results \in Seq(Nat)
    /\ spoken \in Seq(Nat) /\ restarts \in Nat
    /\ failed \subseteq {"card", "login", "queue", "file"}

\* Whatever garbage ends a recording early, and however far the father is
\* ahead: the texts are those of the recordings, in order and each once, over
\* restarts too; only a failure or a restart can leave one out.
SpokenInOrder ==
    /\ \A j, k \in DOMAIN spoken : j < k => spoken[j] < spoken[k]
    /\ failed = {} /\ restarts = 0 => \A k \in DOMAIN spoken : spoken[k] = k

\* What the father gets is the result of the recording it has just stopped,
\* even after failures; every restart leaves at most one result in the queue, and
\* the father one more recording behind.
ResultIsCurrent == father = "speak" => result \in (cycle - restarts) .. cycle

\* Nobody waits in vain: the father waits for a result only while the child
\* has something to do, unless the child had no card to record with (and sent
\* nothing) or no room for its result, or died of the card or the login.
NoDeadlock ==
    father = "wait" /\ results = <<>> =>
      /\ child = "idle" /\ commands = <<>> => {"card", "queue"} \cap failed # {}
      /\ child = "dead" => {"card", "login"} \cap failed # {}
      /\ child = "stuck" => "file" \in failed

\* Every cycle ends with its result being spoken, if nothing fails and the
\* program is not stopped; run again, it still gets on.
CycleEnds ==
    \A n \in 1 .. MaxCycles :
      (cycle = n) ~> \/ failed # {}
                     \/ restarts > 0 /\ cycle > n
                     \/ \E k \in DOMAIN spoken : spoken[k] = n
=============================================================================
