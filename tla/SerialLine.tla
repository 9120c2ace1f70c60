----------------------------- MODULE SerialLine -----------------------------
(***************************************************************************)
(* The driver subsystem (driver/driver_interface.c) between the serial     *)
(* line to the microcontroller and the System V queue, and the message     *)
(* tool (msg.c), which sends, receives and can remove the queue.           *)
(*                                                                         *)
(* A child reads the line byte by byte, cuts frames "*...#" out of it and  *)
(* sends each as a message; the parent writes the commands it receives to  *)
(* the line.  When the queue is removed the parent gets the new one, the   *)
(* child goes on with the identifier it had before the fork.               *)
(*                                                                         *)
(* A byte of a frame is given by its place on the line, 0 if nobody sent   *)
(* it; frames, commands and queues by their numbers.                       *)
(***************************************************************************)
EXTENDS Integers, Sequences

CONSTANTS
    Plain,      \* the bytes that are neither "*" nor "#"
    BufSize,    \* sizeof(rcv_buf)
    QueueMax,   \* how many messages a queue holds
    MaxBytes, MaxErrors,    \* bounds: bytes on the line, failing reads
    MaxCmds, MaxQueues      \* bounds: commands, queues that ever exist

Bytes == Plain \cup {"*", "#"}

ASSUME PlainAssumption == Plain \cap {"*", "#", "unset"} = {}
ASSUME BoundsAssumption ==
    /\ BufSize \in Nat \ {0} /\ QueueMax \in Nat /\ MaxQueues \in Nat
    /\ MaxBytes \in Nat /\ MaxErrors \in Nat /\ MaxCmds \in Nat

VARIABLES
    raw,        \* history: the bytes read from the line
    errors,     \* how often read() has returned -1
    ch, buf,    \* read_uart(): the last byte [c, at]; rcv_buf up to i
    cpc,        \* the child: "read", "send", or "overrun" past its buffer
    frames,     \* history: the frames read
    made, live, \* queues created so far; does the last one exist?
    up, down,   \* its messages: numbers of frames; commands [n, mine]
    childId, parentId,  \* the queue each process has the identifier of
    taken, lost, deaf,  \* history: frames received; refused or removed; refused despite room
    cmds,               \* commands sent
    obeyed, cut, gone,  \* history: written to the line; not all of it; removed
    removed             \* history: a queue has been removed

lineVars  == <<raw, errors, ch, buf, cpc, frames>>
queueVars == <<made, live, up, down>>
fates     == <<taken, lost, deaf, cmds, obeyed, cut, gone, removed>>
vars == <<lineVars, queueVars, childId, parentId, fates>>

Unset == [c |-> "unset", at |-> 0]
Room  == Len(up) + Len(down) < QueueMax
Elements(s) == {s[k] : k \in DOMAIN s}

\* Mutant of Init: the fork comes before msgget(), the child has no queue.
InitForksFirst ==
    /\ raw = <<>> /\ errors = 0 /\ ch = Unset /\ buf = <<>>
    /\ cpc = "read" /\ frames = <<>>
    /\ made = 1 /\ live = TRUE /\ up = <<>> /\ down = <<>>
    /\ childId = 0 /\ parentId = 1
    /\ taken = {} /\ lost = {} /\ deaf = {}
    /\ cmds = 0 /\ obeyed = {} /\ cut = {} /\ gone = {} /\ removed = FALSE

\* Both processes get the queue before the fork.
Init ==
    /\ raw = <<>> /\ errors = 0 /\ ch = Unset /\ buf = <<>>
    /\ cpc = "read" /\ frames = <<>>
    /\ made = 1 /\ live = TRUE /\ up = <<>> /\ down = <<>>
    /\ childId = 1 /\ parentId = 1
    /\ taken = {} /\ lost = {} /\ deaf = {}
    /\ cmds = 0 /\ obeyed = {} /\ cut = {} /\ gone = {} /\ removed = FALSE

-----------------------------------------------------------------------------
(* The child *)

\* Mutant of Take: a "*" within a frame begins it anew.
TakeAnew(b) ==
    /\ ch' = b
    /\ IF b.c = "*"
       THEN buf' = <<b.at>> /\ UNCHANGED <<cpc, frames>>
       ELSE IF buf = <<>> THEN UNCHANGED <<buf, cpc, frames>>
       ELSE IF Len(buf) + 1 < BufSize
       THEN /\ buf' = Append(buf, b.at)
            /\ cpc' = IF b.c = "#" THEN "send" ELSE "read"
            /\ frames' = IF b.c = "#" THEN Append(frames, buf') ELSE frames
       ELSE cpc' = "overrun" /\ UNCHANGED <<buf, frames>>

\* Byte b begins a frame, is skipped before one, or goes into it; the final
\* NUL must still fit behind it.
Take(b) ==
    /\ ch' = b
    /\ \/ /\ buf = <<>>
          /\ buf' = IF b.c = "*" THEN <<b.at>> ELSE <<>>
          /\ UNCHANGED <<cpc, frames>>
       \/ /\ buf # <<>> /\ Len(buf) + 1 < BufSize
          /\ buf' = Append(buf, b.at)
          /\ cpc' = IF b.c = "#" THEN "send" ELSE "read"
          /\ frames' = IF b.c = "#" THEN Append(frames, buf') ELSE frames
       \/ /\ buf # <<>> /\ Len(buf) + 1 >= BufSize
          /\ cpc' = "overrun"
          /\ UNCHANGED <<buf, frames>>

\* read() returns a byte.
ReadByte(c) ==
    /\ cpc = "read" /\ Len(raw) < MaxBytes
    /\ raw' = Append(raw, c)
    /\ Take([c |-> c, at |-> Len(raw) + 1])
    /\ UNCHANGED <<errors, queueVars, childId, parentId, fates>>

\* read() returns -1, which is not 0: what ch holds is taken once more. At the
\* start of read_uart() it is not initialised.
ReadError ==
    /\ cpc = "read" /\ errors < MaxErrors
    /\ errors' = errors + 1
    /\ \E b \in IF ch = Unset THEN [c : Bytes, at : {0}] ELSE {ch} : Take(b)
    /\ UNCHANGED <<raw, queueVars, childId, parentId, fates>>

\* Mutant of SendFrame: a frame that was refused is sent again later.
SendFrameAgain ==
    /\ cpc = "send"
    /\ IF live /\ childId = made /\ Room
       THEN /\ up' = Append(up, Len(frames))
            /\ cpc' = "read" /\ buf' = <<>> /\ ch' = Unset
            /\ UNCHANGED <<lost, deaf>>
       ELSE /\ lost' = lost \cup {Len(frames)}
            /\ deaf' = IF live /\ Room THEN deaf \cup {Len(frames)} ELSE deaf
            /\ UNCHANGED <<up, cpc, buf, ch>>
    /\ UNCHANGED <<raw, errors, frames, made, live, down, childId, parentId,
                   taken, cmds, obeyed, cut, gone, removed>>

\* send_msg() to the queue of before the fork, then the next read_uart().
SendFrame ==
    /\ cpc = "send"
    /\ cpc' = "read" /\ buf' = <<>> /\ ch' = Unset
    /\ IF live /\ childId = made /\ Room
       THEN up' = Append(up, Len(frames)) /\ UNCHANGED <<lost, deaf>>
       ELSE /\ lost' = lost \cup {Len(frames)}
            /\ deaf' = IF live /\ Room THEN deaf \cup {Len(frames)} ELSE deaf
            /\ UNCHANGED up
    /\ UNCHANGED <<raw, errors, frames, made, live, down, childId, parentId,
                   taken, cmds, obeyed, cut, gone, removed>>

-----------------------------------------------------------------------------
(* The parent *)

\* msgrcv() gives a command; write() sends it down the line if it is ours.  The
\* port does not block: write() may take a part of it or nothing, and nobody looks.
ParentWrites ==
    /\ live /\ parentId = made /\ down # <<>>
    /\ down' = Tail(down)
    /\ LET c == Head(down)
       IN  \/ ~c.mine /\ UNCHANGED <<obeyed, cut>>
           \/ c.mine /\ obeyed' = obeyed \cup {c.n} /\ UNCHANGED cut
           \/ c.mine /\ cut' = cut \cup {c.n} /\ UNCHANGED obeyed
    /\ UNCHANGED <<lineVars, made, live, up, childId, parentId,
                   taken, lost, deaf, cmds, gone, removed>>

\* msgget(1234, IPC_CREAT): the queue there is, or else a new one.
GetQueue ==
    /\ live \/ made < MaxQueues
    /\ made' = IF live THEN made ELSE made + 1
    /\ live' = TRUE
    /\ UNCHANGED <<up, down>>

\* Mutant of ParentRejoins: the parent, too, keeps its identifier.
ParentStays ==
    /\ ~live \/ parentId # made
    /\ GetQueue
    /\ UNCHANGED <<lineVars, childId, parentId, fates>>

\* msgrcv() fails: the queue that the parent knows is gone.
ParentRejoins ==
    /\ ~live \/ parentId # made
    /\ GetQueue
    /\ parentId' = made'
    /\ UNCHANGED <<lineVars, childId, fates>>

-----------------------------------------------------------------------------
(* The message tool, which stands for the main control system *)

\* "msg 0 6 id text", refused when the queue is full.
ToolSends(mine) ==
    /\ live /\ Room /\ cmds < MaxCmds
    /\ cmds' = cmds + 1
    /\ down' = Append(down, [n |-> cmds + 1, mine |-> mine])
    /\ UNCHANGED <<lineVars, made, live, up, childId, parentId,
                   taken, lost, deaf, obeyed, cut, gone, removed>>

\* "msg 1 5 id".
ToolReceives ==
    /\ live /\ up # <<>>
    /\ up' = Tail(up)
    /\ taken' = taken \cup {Head(up)}
    /\ UNCHANGED <<lineVars, made, live, down, childId, parentId,
                   lost, deaf, cmds, obeyed, cut, gone, removed>>

\* "msg 2 ..": msgctl(msgid, IPC_RMID).
ToolRemoves ==
    /\ live /\ made < MaxQueues
    /\ live' = FALSE /\ removed' = TRUE
    /\ up' = <<>> /\ down' = <<>>
    /\ lost' = lost \cup Elements(up)
    /\ gone' = gone \cup {m.n : m \in Elements(down)}
    /\ UNCHANGED <<lineVars, made, childId, parentId, taken, deaf, cmds, obeyed, cut>>

\* Another subsystem, or the tool, gets the queue.
OthersGet ==
    /\ ~live /\ GetQueue
    /\ UNCHANGED <<lineVars, childId, parentId, fates>>

-----------------------------------------------------------------------------
Next ==
    \/ \E c \in Bytes : ReadByte(c)
    \/ ReadError \/ SendFrame
    \/ ParentWrites \/ ParentRejoins
    \/ \E mine \in BOOLEAN : ToolSends(mine)
    \/ ToolReceives \/ ToolRemoves \/ OthersGet

Spec == Init /\ [][Next]_vars

\* The parent is scheduled: msgrcv() returns when it can, with or without a message.
FairSpec == Spec /\ WF_vars(ParentWrites \/ ParentRejoins)

-----------------------------------------------------------------------------
(* Properties *)

Identifier == Nat \ {0}
\* Types of the variables.
TypeOK ==
    /\ raw \in Seq(Bytes) /\ errors \in Nat
    /\ ch \in [c : Bytes \cup {"unset"}, at : Nat]
    /\ buf \in Seq(Nat) /\ frames \in Seq(Seq(Nat))
    /\ cpc \in {"read", "send", "overrun"}
    /\ made \in Identifier /\ childId \in Identifier /\ parentId \in Identifier
    /\ live \in BOOLEAN /\ removed \in BOOLEAN
    /\ up \in Seq(Nat) /\ down \in Seq([n : Nat, mine : BOOLEAN])
    /\ taken \subseteq Nat /\ lost \subseteq Nat /\ deaf \subseteq Nat
    /\ cmds \in Nat /\ obeyed \subseteq Nat /\ cut \subseteq Nat /\ gone \subseteq Nat

\* Bytes i to j of the line are a frame: from the first "*" after a "#", or
\* after the start, to the next "#".
IsFrame(i, j) ==
    /\ i < j /\ raw[i] = "*" /\ raw[j] = "#"
    /\ \A m \in i .. j - 1 : raw[m] # "#"
    /\ \A m \in 1 .. i - 1 : raw[m] = "*" => \E e \in m .. i - 1 : raw[e] = "#"

\* The bytes of a frame follow each other as on the line; some may be doubled,
\* and in front there may be some that nobody sent.
Follows(f) ==
    \A k \in 1 .. Len(f) - 1 : f[k] = 0 \/ f[k + 1] \in {f[k], f[k] + 1}

\* read_uart(): what it returns is a frame of the line, with doubled bytes
\* where read() failed, or began with a byte nobody sent.
FramesAreSent ==
    \A k \in DOMAIN frames :
      LET f == frames[k] IN
        Follows(f) /\ (f[1] = 0 \/ IsFrame(f[1], f[Len(f)]))

\* And none of the line's frames is passed over or torn, whatever reads failed
\* before or within it, until the buffer overruns.
FramesArrive ==
    \A i, j \in DOMAIN raw :
      /\ IsFrame(i, j)
      /\ ~(cpc = "overrun" /\ j = Len(raw))
      => \E k \in DOMAIN frames : i .. j \subseteq Elements(frames[k])

\* Each frame is in the queue, received, or lost, and only one of these; those
\* in the queue are in the order of the line and newer than what was received;
\* and none is refused by a queue with room unless the one at the fork was
\* removed.
Passed == 1 .. Len(frames) - (IF cpc = "send" THEN 1 ELSE 0)
FramesAccounted ==
    /\ taken \cup lost \cup Elements(up) = Passed
    /\ lost \cap (taken \cup Elements(up)) = {}
    /\ \A j, k \in DOMAIN up : j < k => up[j] < up[k]
    /\ \A j \in taken, k \in Elements(up) : j < k
    /\ deaf # {} => removed

\* A command for the driver that reaches a queue comes to its one write(), which
\* takes the whole of it or loses the rest unnoticed, or it is removed with the
\* queue: the parent finds its way to every new queue.
CommandsTried ==
    \A n \in 1 .. MaxCmds :
      (\E k \in DOMAIN down : down[k] = [n |-> n, mine |-> TRUE])
        ~> n \in obeyed \cup cut \cup gone
=============================================================================
