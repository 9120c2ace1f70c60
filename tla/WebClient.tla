------------------------------ MODULE WebClient ------------------------------
(***************************************************************************)
(* The web subsystem (web/web_interface.c) and its HTTP client             *)
(* (web/weblib.c).  The parent takes configurations, which it writes into  *)
(* memory it shares with the child, and requests to web sites; the child   *)
(* polls the configured server for commands and passes them on.            *)
(*                                                                         *)
(* The shared memory holds two strings, url0 in cells 1 and 2 and the lamp *)
(* code in cells 3 and 4: 0 is NUL, n a part of configuration n.  There is *)
(* no lock: it is written and read cell by cell.                           *)
(***************************************************************************)
EXTENDS Integers, Sequences

CONSTANTS
    QueueMax,   \* how many messages the queue holds
    MaxFds,     \* how many sockets a process can have open
    MaxMsgs, MaxCmds    \* bounds: messages to the parent, commands of the server

ASSUME BoundsAssumption ==
    /\ QueueMax \in Nat /\ MaxFds \in Nat /\ MaxMsgs \in Nat /\ MaxCmds \in Nat

Processes == {"parent", "child"}
Cells == 1 .. 4
Kinds == {"config", "site", "achieve", "stranger"}  \* stranger: not our id

VARIABLES
    mem,        \* the shared cells
    ppc, step,  \* the parent, and its place in Steps
    job,        \* the message it is about, [n, kind]
    cpc,        \* the child
    copy,       \* the cells the child has copied: four to poll, two to report
    cmd,        \* the command it has got, 0 if none
    open,       \* process -> its open sockets
    inbox, outbox,      \* messages to the parent; commands and answers to main
    msgs, handed,       \* messages sent; commands the server has given out
    configured, \* history: the last configuration that is written completely
    since,      \* history: configured when the child's round began
    failed,     \* history: process -> its failed transfers
    answered, refused,  \* history: messages answered; answers for which there was no room
    passed, lost        \* history: commands passed on; commands lost

parentVars == <<ppc, step, job>>
childVars  == <<cpc, copy, cmd, since>>
webVars    == <<open, failed>>
queueVars  == <<inbox, outbox, msgs>>
fates      == <<handed, passed, lost>>
answers    == <<answered, refused>>
vars == <<mem, parentVars, childVars, webVars, queueVars, fates, configured, answers>>

Room == Len(inbox) + Len(outbox) < QueueMax

Init ==
    /\ mem = [c \in Cells |-> 0]
    /\ ppc = "wait" /\ step = 1 /\ job = [n |-> 0, kind |-> "config"]
    /\ cpc = "url" /\ copy = <<>> /\ cmd = 0
    /\ open = [p \in Processes |-> 0] /\ failed = [p \in Processes |-> 0]
    /\ inbox = <<>> /\ outbox = <<>> /\ msgs = 0
    /\ handed = 0 /\ passed = {} /\ lost = {}
    /\ configured = 0 /\ since = 0 /\ answered = {} /\ refused = {}

-----------------------------------------------------------------------------
(* The main control system *)

MainSends(kind) ==
    /\ Room /\ msgs < MaxMsgs
    /\ msgs' = msgs + 1
    /\ inbox' = Append(inbox, [n |-> msgs + 1, kind |-> kind])
    /\ UNCHANGED <<mem, parentVars, childVars, webVars, outbox, fates, configured,
                   answers>>

MainTakes ==
    /\ outbox # <<>>
    /\ outbox' = Tail(outbox)
    /\ UNCHANGED <<mem, parentVars, childVars, webVars, inbox, msgs, fates,
                   configured, answers>>

-----------------------------------------------------------------------------
(* http_get() *)

\* A socket, connected; or none to be had, or no connection and it is closed.
Connected(p) ==
    /\ open[p] < MaxFds
    /\ open' = [open EXCEPT ![p] = @ + 1] /\ UNCHANGED failed

\* Mutant of Unconnected: a socket that gets no connection stays open.
UnconnectedLeft(p) ==
    /\ open' = [open EXCEPT ![p] = IF @ < MaxFds THEN @ + 1 ELSE @]
    /\ UNCHANGED failed
Unconnected(p) == UNCHANGED <<open, failed>>

\* Mutant of Answered: the socket is closed twice.
AnsweredTwice(p) == open' = [open EXCEPT ![p] = @ - 2] /\ UNCHANGED failed

\* The answer is there and the socket is closed.
Answered(p) == open' = [open EXCEPT ![p] = @ - 1] /\ UNCHANGED failed

\* send() or recv() failed or took too long: the socket is left as it is.
Broken(p) == failed' = [failed EXCEPT ![p] = @ + 1] /\ UNCHANGED open

-----------------------------------------------------------------------------
(* The parent *)

\* msgrcv(); a message with another id is answered ";errorID".
ParentReceives ==
    /\ ppc = "wait" /\ inbox # <<>>
    /\ job' = Head(inbox) /\ inbox' = Tail(inbox)
    /\ ppc' = CASE Head(inbox).kind = "config"   -> "write"
                [] Head(inbox).kind = "stranger" -> "answer"
                [] OTHER                         -> "connect"
    /\ UNCHANGED <<mem, step, childVars, webVars, outbox, msgs, fates, configured,
                   answers>>

\* Mutant of Steps: the url is copied first.
StepsUrlFirst ==
    <<[cell |-> 1, nul |-> FALSE], [cell |-> 2, nul |-> FALSE],
      [cell |-> 3, nul |-> TRUE],  [cell |-> 4, nul |-> TRUE],
      [cell |-> 3, nul |-> FALSE], [cell |-> 4, nul |-> FALSE]>>

\* Mutant of Steps: the lamp code is cleared when it has been copied.
StepsClearLate ==
    <<[cell |-> 3, nul |-> FALSE], [cell |-> 4, nul |-> FALSE],
      [cell |-> 3, nul |-> TRUE],  [cell |-> 4, nul |-> TRUE],
      [cell |-> 1, nul |-> FALSE], [cell |-> 2, nul |-> FALSE]>>

\* "ff": the lamp code is cleared and copied, then the first url is copied over
\* the old one.
Steps == <<[cell |-> 3, nul |-> TRUE],  [cell |-> 4, nul |-> TRUE],
           [cell |-> 3, nul |-> FALSE], [cell |-> 4, nul |-> FALSE],
           [cell |-> 1, nul |-> FALSE], [cell |-> 2, nul |-> FALSE]>>

\* Mutant of ParentWrites: the url is copied only where there is none yet.
ParentWritesOnce ==
    /\ ppc = "write"
    /\ mem' = [mem EXCEPT ![Steps[step].cell] =
                 IF step >= 5 /\ @ # 0 THEN @ ELSE IF Steps[step].nul THEN 0 ELSE job.n]
    /\ step' = IF step = 6 THEN 1 ELSE step + 1
    /\ ppc' = IF step = 6 THEN "answer" ELSE "write"
    /\ configured' = IF step = 6 THEN job.n ELSE configured
    /\ UNCHANGED <<job, childVars, webVars, queueVars, fates, answers>>

ParentWrites ==
    /\ ppc = "write"
    /\ mem' = [mem EXCEPT ![Steps[step].cell] = IF Steps[step].nul THEN 0 ELSE job.n]
    /\ step' = IF step = 6 THEN 1 ELSE step + 1
    /\ ppc' = IF step = 6 THEN "answer" ELSE "write"
    /\ configured' = IF step = 6 THEN job.n ELSE configured
    /\ UNCHANGED <<job, childVars, webVars, queueVars, fates, answers>>

\* Mutant of ParentAnswers: send_msg() waits for room in the queue.
ParentAnswersLate ==
    /\ ppc = "answer" /\ ppc' = "wait"
    /\ Room
    /\ outbox' = Append(outbox, job.n)
    /\ answered' = answered \cup {job.n}
    /\ UNCHANGED <<mem, step, job, childVars, webVars, inbox, msgs, fates, configured,
                   refused>>

\* send_msg() with IPC_NOWAIT: ";done" or ";errorID".
ParentAnswers ==
    /\ ppc = "answer" /\ ppc' = "wait"
    /\ IF Room
       THEN /\ outbox' = Append(outbox, job.n)
            /\ answered' = answered \cup {job.n} /\ UNCHANGED refused
       ELSE refused' = refused \cup {job.n} /\ UNCHANGED <<outbox, answered>>
    /\ UNCHANGED <<mem, step, job, childVars, webVars, inbox, msgs, fates, configured>>

ParentConnects ==
    /\ ppc = "connect"
    /\ \/ Connected("parent") /\ ppc' = "transfer"
       \/ Unconnected("parent") /\ ppc' = "wait"
    /\ UNCHANGED <<mem, step, job, childVars, queueVars, fates, configured, answers>>

\* The answer of a web site: doit_ack() reads "success" of what is not there as
\* of what is, doit_data() takes the length of a string that no object has.
\* Whether the request was done is not reported.
ParentFinishes ==
    /\ ppc = "transfer"
    /\ \/ Broken("parent") /\ ppc' = "wait"
       \/ /\ Answered("parent")
          /\ \E success \in {"true", "false", "absent", "unreadable"} :
               ppc' = IF \/ success = "absent"
                         \/ success = "true" /\ job.kind = "achieve"
                      THEN "dead" ELSE "wait"
    /\ UNCHANGED <<mem, step, job, childVars, queueVars, fates, configured, answers>>

-----------------------------------------------------------------------------
(* The child *)

\* The round is over, and the next begins; or the process is.
Ends(pc) == cpc' = pc /\ copy' = <<>> /\ cmd' = 0 /\ since' = 0
Stop == Ends("url")

\* A round: strlen(url) != 0?  Without a url it sleeps and looks again.
ChildLooks ==
    /\ cpc = "url"
    /\ IF mem[1] = 0 THEN UNCHANGED <<cpc, since>>
                      ELSE cpc' = "code" /\ since' = configured
    /\ UNCHANGED <<mem, parentVars, copy, cmd, webVars, queueVars, fates, configured,
                   answers>>

\* strlen(lampcode) != 0?
ChildLooksOn ==
    /\ cpc = "code"
    /\ IF mem[3] = 0 THEN Stop
       ELSE cpc' = "copy" /\ UNCHANGED <<copy, cmd, since>>
    /\ UNCHANGED <<mem, parentVars, webVars, queueVars, fates, configured, answers>>

\* strcpy() and strcat() stop at a NUL.
Place == <<1, 2, 3, 4, 3, 4>>
Copied(k) == IF k % 2 = 0 /\ copy[k - 1] = 0 THEN 0 ELSE mem[Place[k]]

\* Two cells each of url and code make the request; two of the code, read
\* again, the message to main.
ChildCopies ==
    /\ cpc \in {"copy", "tag"}
    /\ copy' = Append(copy, Copied(Len(copy) + 1))
    /\ cpc' = CASE Len(copy') = 4 -> "connect" [] Len(copy') = 6 -> "send"
                [] OTHER -> cpc
    /\ UNCHANGED <<mem, parentVars, cmd, since, webVars, queueVars, fates, configured,
                   answers>>

ChildConnects ==
    /\ cpc = "connect"
    /\ \/ Connected("child") /\ cpc' = "transfer" /\ UNCHANGED <<copy, cmd, since>>
       \/ Unconnected("child") /\ Stop
    /\ UNCHANGED <<mem, parentVars, queueVars, fates, configured, answers>>

\* The server gives its next command, or none.
Hands(n) == n = handed + 1 /\ n <= MaxCmds /\ handed' = n

\* recv() is called once: of an answer in two pieces the command is missed.  An
\* answer whose "commondId" or "message" is no string is the child's end: doit()
\* takes the length of a string that the object does not have.
ChildFinishes ==
    /\ cpc = "transfer" /\ UNCHANGED passed
    /\ \/ /\ Hands(handed + 1) /\ Answered("child")
          /\ cpc' = "tag" /\ cmd' = handed + 1
          /\ UNCHANGED <<copy, since, lost>>
       \/ /\ \/ Stop /\ (Answered("child") \/ Broken("child"))
             \/ Ends("dead") /\ Answered("child")
          /\ \/ UNCHANGED <<handed, lost>>
             \/ Hands(handed + 1) /\ lost' = lost \cup {handed + 1}
    /\ UNCHANGED <<mem, parentVars, queueVars, configured, answers>>

\* Mutant of ChildSends: a command that was refused is sent again.
ChildSendsAgain ==
    /\ cpc = "send"
    /\ IF Room
       THEN /\ outbox' = Append(outbox, cmd) /\ Stop
            /\ passed' = passed \cup {cmd} /\ UNCHANGED lost
       ELSE /\ lost' = lost \cup {cmd}
            /\ UNCHANGED <<outbox, passed, childVars>>
    /\ UNCHANGED <<mem, parentVars, webVars, inbox, msgs, handed, configured, answers>>

\* send_msg() with IPC_NOWAIT.
ChildSends ==
    /\ cpc = "send" /\ Stop
    /\ IF Room
       THEN /\ outbox' = Append(outbox, cmd)
            /\ passed' = passed \cup {cmd} /\ UNCHANGED lost
       ELSE lost' = lost \cup {cmd} /\ UNCHANGED <<outbox, passed>>
    /\ UNCHANGED <<mem, parentVars, webVars, inbox, msgs, handed, configured, answers>>

-----------------------------------------------------------------------------
Parent == ParentReceives \/ ParentWrites \/ ParentAnswers \/ ParentConnects \/ ParentFinishes
Child  == ChildLooks \/ ChildLooksOn \/ ChildCopies \/ ChildConnects \/ ChildFinishes \/ ChildSends

Next == \/ \E kind \in Kinds : MainSends(kind)
        \/ MainTakes \/ Parent \/ Child

Spec == Init /\ [][Next]_vars

\* Both processes are scheduled, and every wait of theirs is timed.
FairSpec == Spec /\ WF_vars(Parent) /\ WF_vars(Child)

-----------------------------------------------------------------------------
(* Properties *)

\* Types of the variables.
TypeOK ==
    /\ mem \in [Cells -> Nat]
    /\ ppc \in {"wait", "write", "answer", "connect", "transfer", "dead"}
    /\ step \in 1 .. 6 /\ job \in [n : Nat, kind : Kinds]
    /\ cpc \in {"url", "code", "copy", "connect", "transfer", "tag", "send", "dead"}
    /\ copy \in Seq(Nat) /\ cmd \in Nat
    /\ open \in [Processes -> Nat] /\ failed \in [Processes -> Nat]
    /\ inbox \in Seq([n : Nat, kind : Kinds]) /\ outbox \in Seq(Nat)
    /\ msgs \in Nat /\ handed \in Nat /\ passed \subseteq Nat /\ lost \subseteq Nat
    /\ configured \in Nat /\ since \in Nat
    /\ answered \subseteq Nat /\ refused \subseteq Nat

\* What a round of the child may mix of the configurations that the parent writes
\* meanwhile.  The parent writes the lamp code before the url, the child reads them
\* the other way round: what it copies is never older than what it has copied, but
\* for the url in itself.  So no url is polled with the lamp code of an older one,
\* and main is told no older code than the server was.  While nothing is written
\* the whole round is of the last configuration.
RoundsConsistent ==
    /\ \A i, j \in DOMAIN copy : i < j /\ j # 2 => copy[j] = 0 \/ copy[j] >= copy[i]
    /\ since = configured /\ ~(ppc = "write" /\ step > 1) =>
          \A k \in DOMAIN copy : copy[k] = configured

\* And no round uses anything older than the configuration that was complete
\* when it began, however many are written meanwhile.
RoundsFresh ==
    \A k \in DOMAIN copy : copy[k] = 0 \/ copy[k] >= since

\* A socket that stays open is the price of a failed transfer, and of no other way
\* that http_get() can end.
Transferring(p) == IF p = "parent" THEN ppc = "transfer" ELSE cpc = "transfer"
SocketsReturned ==
    \A p \in Processes : open[p] = failed[p] + (IF Transferring(p) THEN 1 ELSE 0)

\* A command of the server is passed on, or lost, or being passed on, and only
\* one of these.
CommandsAccounted ==
    /\ passed \cup lost \cup ({cmd} \ {0}) = 1 .. handed
    /\ passed \cap lost = {} /\ cmd \notin passed \cup lost

\* A configuration that has reached the parent's queue is in force, and its ";done"
\* is sent or was refused for want of room: a full queue costs the answer and never
\* holds the parent up.  Only a web site's answer that ends the parent prevents it.
ConfigApplied ==
    \A n \in 1 .. MaxMsgs :
      (\E k \in DOMAIN inbox : inbox[k] = [n |-> n, kind |-> "config"])
        ~> \/ n \in answered \cup refused /\ configured >= n
           \/ ppc = "dead"

\* The child asks for a connection, and has a socket for it, with a configuration
\* that stays, though nobody tells it of it and whether or not the parent lives on;
\* unless a newer one is on its way, an answer has ended the child, or failed
\* transfers have cost it its last socket.
ConfigTakesHold ==
    \A n \in 1 .. MaxMsgs :
      (configured = n) ~> \/ /\ cpc = "connect" /\ copy = <<n, n, n, n>>
                             /\ open["child"] < MaxFds
                          \/ configured # n \/ ppc = "write"
                          \/ cpc = "dead" \/ failed["child"] >= MaxFds
=============================================================================
