----------------------------- MODULE StoreFile -----------------------------
(***************************************************************************)
(* Commands axx and bxx of the file subsystem (file/file_interface.c): the *)
(* main control system puts lines aside in /tmp/store.txt and fetches them *)
(* one by one, oldest first.  Commands and answers travel on the bounded   *)
(* System V queue; axx is not answered.  Each command reads the file,      *)
(* empties it with fopen(.., "wb") and writes what is to remain.           *)
(*                                                                         *)
(* A line is the number of the axx command that carried it.                *)
(***************************************************************************)
EXTENDS Integers, Sequences, FiniteSets

CONSTANTS
    QueueMax,   \* how many messages the queue holds
    MaxPuts     \* bound: how many lines are put aside

ASSUME BoundsAssumption == QueueMax \in Nat /\ MaxPuts \in Nat

Nothing == 0    \* in the inbox a fetch, in an answer "e;" alone

VARIABLES
    inbox, answers,     \* the queue, by message type
    exists, disk,       \* /tmp/store.txt
    pc,                 \* "wait", "write" after fopen(.., "wb"), "send", "dead"
    mem, line,          \* what is to be written; what is to be answered
    puts, got,          \* lines sent so far; the last line fetched
    dropped, cut        \* history: lines lost to a full queue; a power cut

queueVars == <<inbox, answers>>
vars == <<queueVars, exists, disk, pc, mem, line, puts, got, dropped, cut>>

Room == Len(inbox) + Len(answers) < QueueMax

Init ==
    /\ inbox = <<>> /\ answers = <<>>
    /\ exists = FALSE /\ disk = <<>>
    /\ pc = "wait" /\ mem = <<>> /\ line = Nothing
    /\ puts = 0 /\ got = 0 /\ dropped = {} /\ cut = FALSE

-----------------------------------------------------------------------------
(* The main control system (outside this repository) *)

MainPuts ==
    /\ Room /\ puts < MaxPuts
    /\ puts' = puts + 1
    /\ inbox' = Append(inbox, puts + 1)
    /\ UNCHANGED <<answers, exists, disk, pc, mem, line, got, dropped, cut>>

MainFetches ==
    /\ Room
    /\ inbox' = Append(inbox, Nothing)
    /\ UNCHANGED <<answers, exists, disk, pc, mem, line, puts, got, dropped, cut>>

MainTakes ==
    /\ answers # <<>>
    /\ answers' = Tail(answers)
    /\ got' = IF Head(answers) = Nothing THEN got ELSE Head(answers)
    /\ UNCHANGED <<inbox, exists, disk, pc, mem, line, puts, dropped, cut>>

-----------------------------------------------------------------------------
(* The file process *)

Receive == pc = "wait" /\ inbox # <<>> /\ inbox' = Tail(inbox)
Empty   == exists' = TRUE /\ disk' = <<>>

\* axx: read the file if there is one, and write it with the line behind.
Put ==
    /\ Receive /\ Head(inbox) # Nothing
    /\ Empty
    /\ mem' = Append(disk, Head(inbox))
    /\ line' = Nothing /\ pc' = "write"
    /\ UNCHANGED <<answers, puts, got, dropped, cut>>

\* Mutant of Fetch: the rest is not written back.
FetchKeeps ==
    /\ Receive /\ Head(inbox) = Nothing
    /\ exists
    /\ IF disk = <<>>
       THEN line' = Nothing /\ pc' = "send" /\ UNCHANGED <<exists, disk, mem>>
       ELSE /\ line' = Head(disk) /\ pc' = "send"
            /\ UNCHANGED <<exists, disk, mem>>
    /\ UNCHANGED <<answers, puts, got, dropped, cut>>

\* Mutant of Fetch: an empty file is read, and getline() returns -1.
FetchUntested ==
    /\ Receive /\ Head(inbox) = Nothing
    /\ exists
    /\ IF disk = <<>>
       THEN line' = -1 /\ pc' = "send" /\ UNCHANGED <<exists, disk, mem>>
       ELSE /\ Empty
            /\ line' = Head(disk) /\ mem' = Tail(disk) /\ pc' = "write"
    /\ UNCHANGED <<answers, puts, got, dropped, cut>>

\* bxx: without a file the process dies (fseek() on NULL); from an empty one
\* it answers "e;"; else the first line is the answer and the rest is kept.
Fetch ==
    /\ Receive /\ Head(inbox) = Nothing
    /\ \/ /\ ~exists
          /\ pc' = "dead"
          /\ UNCHANGED <<exists, disk, mem, line>>
       \/ /\ exists /\ disk = <<>>
          /\ line' = Nothing /\ pc' = "send"
          /\ UNCHANGED <<exists, disk, mem>>
       \/ /\ disk # <<>>
          /\ Empty
          /\ line' = Head(disk) /\ mem' = Tail(disk) /\ pc' = "write"
    /\ UNCHANGED <<answers, puts, got, dropped, cut>>

\* Mutant of Write: the file is written empty.
WriteNothing ==
    /\ pc = "write"
    /\ disk' = <<>>
    /\ mem' = <<>>
    /\ pc' = IF line = Nothing THEN "wait" ELSE "send"
    /\ UNCHANGED <<queueVars, exists, line, puts, got, dropped, cut>>

\* fclose() has written the file.  Only bxx goes on to answer.
Write ==
    /\ pc = "write"
    /\ disk' = mem
    /\ mem' = <<>>
    /\ pc' = IF line = Nothing THEN "wait" ELSE "send"
    /\ UNCHANGED <<queueVars, exists, line, puts, got, dropped, cut>>

\* send_msg() uses IPC_NOWAIT: with the queue full the answer is lost.
Send ==
    /\ pc = "send"
    /\ answers' = IF Room THEN Append(answers, line) ELSE answers
    /\ dropped' = IF Room \/ line = Nothing THEN dropped ELSE dropped \cup {line}
    /\ line' = Nothing /\ pc' = "wait"
    /\ UNCHANGED <<inbox, exists, disk, mem, puts, got, cut>>

\* The power fails: the queue goes, and /tmp with it or not.
PowerCut ==
    /\ inbox' = <<>> /\ answers' = <<>>
    /\ \/ UNCHANGED <<exists, disk>>
       \/ exists' = FALSE /\ disk' = <<>>
    /\ pc' = "wait" /\ mem' = <<>> /\ line' = Nothing /\ cut' = TRUE
    /\ UNCHANGED <<puts, got, dropped>>

Next ==
    \/ MainPuts \/ MainFetches \/ MainTakes
    \/ Put \/ Fetch \/ Write \/ Send
    \/ PowerCut

Spec == Init /\ [][Next]_vars

-----------------------------------------------------------------------------
(* Properties *)

\* Types of the queue, the file and the process's state.
TypeOK ==
    /\ inbox \in Seq(Nat) /\ answers \in Seq(Nat)
    /\ exists \in BOOLEAN /\ disk \in Seq(Nat)
    /\ pc \in {"wait", "write", "send", "dead"}
    /\ mem \in Seq(Nat) /\ line \in Nat
    /\ puts \in Nat /\ got \in Nat /\ dropped \subseteq Nat /\ cut \in BOOLEAN

\* The lines that the process keeps, in the file or on their way back to it.
Kept == IF pc = "write" THEN mem ELSE disk

Lines(s) == {i \in DOMAIN s : s[i] # Nothing}
Rising(s) == \A i, j \in Lines(s) : i < j => s[i] < s[j]
Before(s, t) == \A i \in Lines(s), j \in Lines(t) : s[i] < t[j]
Above(n, s) == \A i \in Lines(s) : n < s[i]
Below(s, n) == \A i \in Lines(s) : s[i] < n
In(n, s) == \E i \in DOMAIN s : s[i] = n

\* Every line still to come is newer than all that come before it on the way
\* from inbox to file to answer: axx, bxx and the rewriting of the file never
\* reorder or repeat a line, through full queues and power cuts.
OnTheWay ==
    /\ Rising(answers) /\ Rising(Kept) /\ Rising(inbox)
    /\ Above(got, answers) /\ Above(got, Kept) /\ Above(got, inbox)
    /\ Above(line, Kept) /\ Above(line, inbox)
    /\ line # Nothing => got < line /\ Below(answers, line)
    /\ Before(answers, Kept) /\ Before(answers, inbox) /\ Before(Kept, inbox)

\* Without a power cut no line vanishes: it is on its way, or in an answer that
\* the full queue refused, or not newer than the last one fetched.
NothingVanishes ==
    ~cut => \A n \in 1 .. puts :
              \/ n <= got \/ n \in dropped \/ n = line
              \/ In(n, answers) \/ In(n, Kept) \/ In(n, inbox)

\* The main control system gets the lines in the order in which it put them
\* aside, none twice, and skips only what a power cut or a full queue took.
OldestFirst ==
    [][MainTakes /\ Head(answers) # Nothing =>
         /\ got < Head(answers)
         /\ ~cut => \A n \in got + 1 .. Head(answers) - 1 : n \in dropped]_vars

\* What the proofs add to make these inductive: no line is newer than the
\* newest, and what the process's program counter says of file and answer.
Bounded ==
    /\ got <= puts /\ line <= puts
    /\ Below(answers, puts + 1) /\ Below(Kept, puts + 1) /\ Below(inbox, puts + 1)
ControlInv ==
    /\ pc \in {"wait", "dead"} => line = Nothing
    /\ pc = "write" \/ ~exists => disk = <<>>
    /\ pc = "write" => exists
StoreInv == TypeOK /\ ControlInv /\ Bounded /\ OnTheWay /\ NothingVanishes

\* bxx answers "e;" when nothing is stored; it does not end the process.
EmptyStoreAnswered == pc # "dead"
=============================================================================
