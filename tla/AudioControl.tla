---------------------------- MODULE AudioControl ----------------------------
(***************************************************************************)
(* The audio subsystem: main() of audio/audio_interface.c and the child    *)
(* processes it forks to play and to record.                               *)
(*                                                                         *)
(* The control process takes commands of the main control system from the  *)
(* shared System V queue, answers on the same queue, and forks one child   *)
(* per accepted "record", "play" or "ring" command.  Parent and children   *)
(* share one byte of memory, *audio_system_state, with two bits: PLAY and  *)
(* REC.  Nothing protects the byte: `*p |= BIT' and `*p &= ~BIT' are a     *)
(* load and a later store, and so are two actions here.                    *)
(***************************************************************************)
EXTENDS Integers, Sequences

CONSTANTS
    Workers,    \* process slots for forked children; children are never reaped
    Commands,   \* the commands the main control system may send
    MaxCmds,    \* bound: how many commands it sends
    QueueMax,   \* how many messages the System V queue holds
    Freq,       \* how often a ring repeats its file
    NoFile      \* "there is no /tmp/rec.wav"

Ops == {"grammar", "grammarEmpty", "record", "setVol", "setVolWeb", "getVol",
        "stop", "ring", "ringBad", "play", "unknown", "silent"}

ASSUME CommandsAssumption == Commands \subseteq [op : Ops, lvl : Nat]
ASSUME BoundsAssumption ==
    MaxCmds \in Nat /\ QueueMax \in Nat /\ Freq \in Nat /\ NoFile \notin Workers

VARIABLES
    cmds, replies, stops, sent,             \* the queue, by message type
    flags,                                  \* the shared byte, as a set of bits
    ctl, cur, out, reg,                     \* the control process
    cpc, job, creg, round, ret, saved,      \* the children
    grammar, vol, volStr, mixer, wav,       \* grammar_id, volumes, /tmp/rec.wav
    lost, overtaken, leaked, undone         \* history, read by no guard

queueVars == <<cmds, replies, stops, sent>>
ctlVars   == <<ctl, cur, out, reg>>
childVars == <<cpc, job, creg, round, ret, saved>>
volVars   == <<vol, volStr, mixer, undone>>
byteVars  == <<flags, lost, overtaken, leaked>>
vars == <<queueVars, ctlVars, childVars, volVars, byteVars, grammar, wav>>

-----------------------------------------------------------------------------
(* Data *)

Bits == {"PLAY", "REC"}

\* set_vol() clamps every level to 80..127 before it reaches the mixer.
Clamp(v) == IF v < 80 THEN 80 ELSE IF v > 127 THEN 127 ELSE v

NoVol == -1     \* vol_str is empty; the mixer's level at boot is unknown
Ramp  == 128    \* the mixer holds a ring's own level

Replies == {"ok", "refused", "volume", "accepted", "result", "failed", "empty"}

\* The bit a command claims in its handler and its child clears at its end.
Bit(op) == IF op = "record" THEN "REC" ELSE "PLAY"

Starters == {"record", "play", "ring", "ringBad"}
Jobs     == {"record", "play", "ring"}

\* Every sender uses IPC_NOWAIT: with the queue full the message is dropped.
Room == Len(cmds) + Len(replies) + stops < QueueMax
Sent(q, m) == IF Room THEN Append(q, m) ELSE q

Recorder(w) == job[w] = "record" /\ cpc[w] \in {"start", "asr", "load", "store"}
Player(w)   == job[w] \in {"play", "ring"}
               /\ cpc[w] \in {"open", "poll", "load", "store"}
Ringing(w) == job[w] = "ring" /\ cpc[w] # "zombie"

-----------------------------------------------------------------------------
Init ==
    /\ cmds = <<>> /\ replies = <<>> /\ stops = 0 /\ sent = 0
    /\ flags = {}
    /\ ctl = "wait" /\ out = <<>> /\ reg = {}
    /\ cur = [op |-> "silent", lvl |-> 0]
    /\ cpc = [w \in Workers |-> "free"]
    /\ job = [w \in Workers |-> "none"]
    /\ creg = [w \in Workers |-> {}]
    /\ round = [w \in Workers |-> 0]
    /\ ret = [w \in Workers |-> 0]
    /\ saved = [w \in Workers |-> 0]
    /\ grammar = FALSE /\ vol = 0 /\ volStr = NoVol /\ mixer = NoVol
    /\ wav = NoFile
    /\ lost = FALSE /\ overtaken = FALSE /\ leaked = {} /\ undone = FALSE

-----------------------------------------------------------------------------
(* The main control system (outside this repository) *)

MainSends(c) ==
    /\ sent < MaxCmds /\ Room
    /\ cmds' = Append(cmds, c)
    /\ sent' = sent + 1
    /\ UNCHANGED <<replies, stops, ctlVars, childVars, volVars, byteVars, grammar, wav>>

MainTakesReply ==
    /\ replies # <<>>
    /\ replies' = Tail(replies)
    /\ UNCHANGED <<cmds, stops, sent, ctlVars, childVars, volVars, byteVars, grammar, wav>>

-----------------------------------------------------------------------------
(* The control process: receive a command and dispatch on it *)

\* msgrcv() returns the next command, of one of the kinds in ops.
Receive(ops) ==
    /\ ctl = "wait" /\ cmds # <<>> /\ Head(cmds).op \in ops
    /\ cur' = Head(cmds)
    /\ cmds' = Tail(cmds)
    /\ UNCHANGED <<replies, stops, sent>>

\* The handler leaves the shared byte alone and goes on to send rs.
Answer(rs) ==
    /\ ctl' = "reply" /\ out' = rs
    /\ UNCHANGED <<reg, childVars, byteVars, wav>>

\* r;<id>: keep a new grammar id; r; with nothing after it is refused.
ReceiveGrammar ==
    /\ Receive({"grammar", "grammarEmpty"})
    /\ \/ cur'.op = "grammar"      /\ grammar' = TRUE /\ Answer(<<"ok">>)
       \/ cur'.op = "grammarEmpty" /\ UNCHANGED grammar /\ Answer(<<"refused">>)
    /\ UNCHANGED volVars

\* Set the volume.  A web request reaches the mixer and the text that getVol
\* reports, but not vol, which a ring restores when it ends.
ReceiveSetVol ==
    /\ Receive({"setVol", "setVolWeb"})
    /\ mixer' = Clamp(cur'.lvl)
    /\ volStr' = cur'.lvl
    /\ vol' = IF cur'.op = "setVol" THEN cur'.lvl ELSE vol
    /\ undone' = \E w \in Workers : Ringing(w)
    /\ Answer(<<"ok">>)
    /\ UNCHANGED grammar

\* Read the volume back, from vol_str.
ReceiveGetVol ==
    /\ Receive({"getVol"}) /\ Answer(<<"volume">>)
    /\ UNCHANGED <<volVars, grammar>>

\* No branch matches: the generic reply is sent with an empty text.
ReceiveUnknown ==
    /\ Receive({"unknown"}) /\ Answer(<<"empty">>)
    /\ UNCHANGED <<volVars, grammar>>

\* A wrong message id, or a play command too short to name a file: no reply.
ReceiveSilent ==
    /\ Receive({"silent"})
    /\ UNCHANGED <<ctl, out, reg, childVars, volVars, byteVars, grammar, wav>>

\* Mutant of ReceiveStart: nobody tests the bit.
StartUntested ==
    /\ Receive(Starters)
    /\ ctl' = "load"
    /\ UNCHANGED <<out, reg, childVars, volVars, byteVars, grammar, wav>>

\* record, play and ring test their bit first.  When it is set (or, for a
\* recording, no grammar is known) the command is refused; a refused ring sends
\* its refusal and then falls into the generic reply, which sends it again.
ReceiveStart ==
    /\ Receive(Starters)
    /\ LET bit  == Bit(cur'.op)
           free == bit \notin flags /\ (cur'.op = "record" => grammar)
       IN  \/ /\ free
              /\ ctl' = "load"
              /\ UNCHANGED <<out, reg, childVars, byteVars, wav>>
           \/ /\ ~free
              /\ Answer(IF cur'.op \in {"ring", "ringBad"}
                        THEN <<"refused", "refused">> ELSE <<"refused">>)
    /\ UNCHANGED <<volVars, grammar>>

\* stop (of a ring or of music) does something only while PLAY is set.
ReceiveStop ==
    /\ Receive({"stop"})
    /\ \/ /\ "PLAY" \in flags
          /\ ctl' = "stop"
          /\ UNCHANGED <<out, reg, childVars, byteVars, wav>>
       \/ "PLAY" \notin flags /\ Answer(<<"ok">>)
    /\ UNCHANGED <<volVars, grammar>>

-----------------------------------------------------------------------------
(* The control process: the rest of a handler *)

\* Send TYPE_LOCAL_STOP_PLAYBACK and sleep a second.
CtlSendStop ==
    /\ ctl = "stop"
    /\ stops' = IF Room THEN stops + 1 ELSE stops
    /\ ctl' = "load"
    /\ UNCHANGED <<cmds, replies, sent, cur, out, reg, childVars, volVars,
                   byteVars, grammar, wav>>

CtlLoad ==
    /\ ctl = "load"
    /\ reg' = flags
    /\ ctl' = "store"
    /\ UNCHANGED <<queueVars, cur, out, childVars, volVars, byteVars, grammar, wav>>

\* Store the claimed bit before the fork, or without PLAY at the end of a stop.
\* A stop clears PLAY whether or not the player has noticed the message.
CtlStore ==
    /\ ctl = "store"
    /\ lost' = (lost \/ flags # reg)
    /\ \/ /\ cur.op \in Starters
          /\ flags' = reg \cup {Bit(cur.op)}
          /\ ctl' = "fork"
          /\ UNCHANGED <<out, leaked, overtaken>>
       \/ /\ cur.op = "stop"
          /\ flags' = reg \ {"PLAY"}
          /\ ctl' = "reply" /\ out' = <<"ok">>
          /\ leaked' = leaked \ {"PLAY"}
          /\ overtaken' = (overtaken \/ \E w \in Workers : Player(w))
    /\ UNCHANGED <<queueVars, cur, reg, childVars, volVars, grammar, wav>>

\* What the parent does once it has claimed the bit: a play command is answered
\* by the child alone.
AfterFork ==
    IF cur.op = "play" THEN ctl' = "wait" /\ UNCHANGED out
                       ELSE ctl' = "reply" /\ out' = <<"accepted">>

\* fork(): the child starts with copies of the parent's variables.  A ring will
\* restore vol, which is not what was set last if that came from the web.
CtlFork(w) ==
    /\ ctl = "fork" /\ cur.op \in Jobs /\ cpc[w] = "free"
    /\ job' = [job EXCEPT ![w] = cur.op]
    /\ cpc' = [cpc EXCEPT ![w] = CASE cur.op = "record" -> "start"
                                   [] cur.op = "ring" /\ Freq = 0 -> "load"
                                   [] OTHER -> "open"]
    /\ saved' = [saved EXCEPT ![w] = vol]
    /\ undone' = (undone \/ (cur.op = "ring" /\ volStr # vol))
    /\ AfterFork
    /\ UNCHANGED <<queueVars, cur, reg, creg, round, ret, vol, volStr, mixer,
                   byteVars, grammar, wav>>

\* fork() fails once every slot is taken by a child that nobody waited for; the
\* parent does not look and goes on, its bit set.
CtlForkFails ==
    /\ ctl = "fork" /\ cur.op \in Jobs
    /\ \A w \in Workers : cpc[w] # "free"
    /\ leaked' = leaked \cup {Bit(cur.op)}
    /\ AfterFork
    /\ UNCHANGED <<queueVars, cur, reg, childVars, volVars, flags, lost, overtaken, grammar, wav>>

\* A ring whose parameters do not parse is refused after PLAY has been set.
CtlBadRing ==
    /\ ctl = "fork" /\ cur.op = "ringBad"
    /\ leaked' = leaked \cup {"PLAY"}
    /\ ctl' = "reply" /\ out' = <<"refused">>
    /\ UNCHANGED <<queueVars, cur, reg, childVars, volVars, flags, lost, overtaken, grammar, wav>>

\* Mutant of CtlReply: one send per command, whatever the handler queued.
ReplyOnce ==
    /\ ctl = "reply"
    /\ replies' = Sent(replies, Head(out))
    /\ out' = Tail(out)
    /\ ctl' = "wait"
    /\ UNCHANGED <<cmds, stops, sent, cur, reg, childVars, volVars, byteVars, grammar, wav>>

\* Send the next reply; the loop starts again after the last one.
CtlReply ==
    /\ ctl = "reply"
    /\ replies' = Sent(replies, Head(out))
    /\ out' = Tail(out)
    /\ ctl' = IF Len(out) = 1 THEN "wait" ELSE "reply"
    /\ UNCHANGED <<cmds, stops, sent, cur, reg, childVars, volVars, byteVars, grammar, wav>>

-----------------------------------------------------------------------------
(* The children *)

Step(w, from, to) == cpc[w] = from /\ cpc' = [cpc EXCEPT ![w] = to]

\* Mutant of PlaybackReturns: the child exits when playback() fails.
PlaybackExits(w, from, r) ==
    /\ Step(w, from, IF r = 0 THEN "zombie" ELSE "load")
    /\ ret' = [ret EXCEPT ![w] = r]
    /\ UNCHANGED <<job, creg, round, saved>>

\* playback() returned r: a ring plays again unless it was stopped (r = 3).
PlaybackReturns(w, from, r) ==
    LET again == job[w] = "ring" /\ r # 3 /\ round[w] + 1 < Freq
    IN  /\ Step(w, from, IF again THEN "open" ELSE "load")
        /\ round' = [round EXCEPT ![w] = IF again THEN @ + 1 ELSE @]
        /\ ret' = [ret EXCEPT ![w] = r]
        /\ UNCHANGED <<job, creg, saved>>

\* A ring with a volume or a step sets its own level; music leaves the mixer alone.
RingVolume(w) ==
    /\ mixer' \in IF job[w] = "ring" THEN {mixer, Ramp} ELSE {mixer}
    /\ UNCHANGED <<vol, volStr, undone>>

PlayerOpen(w) ==
    /\ \/ Step(w, "open", "poll") /\ UNCHANGED <<job, creg, round, ret, saved>>
       \/ PlaybackReturns(w, "open", 0)     \* no sound card, or no such file
    /\ RingVolume(w)
    /\ UNCHANGED <<queueVars, ctlVars, byteVars, grammar, wav>>

\* Mutant of PlayerPoll: the player never looks for a stop message.
PollDeaf(w) ==
    /\ cpc[w] = "poll" /\ RingVolume(w)
    /\ UNCHANGED <<queueVars, childVars, ctlVars, byteVars, grammar, wav>>

\* One turn of the playback loop: a stop message ends it; without one a ring
\* raises its volume and the player sleeps.
PlayerPoll(w) ==
    /\ cpc[w] = "poll"
    /\ \/ /\ stops > 0
          /\ stops' = stops - 1
          /\ PlaybackReturns(w, "poll", 3)
          /\ UNCHANGED volVars
       \/ /\ stops = 0
          /\ RingVolume(w)
          /\ UNCHANGED <<stops, childVars>>
    /\ UNCHANGED <<cmds, replies, sent, ctlVars, byteVars, grammar, wav>>

\* fileplay_eof() has set done: the loop ends without another look at the queue.
PlayerEof(w) ==
    /\ PlaybackReturns(w, "poll", 1)
    /\ UNCHANGED <<queueVars, ctlVars, volVars, byteVars, grammar, wav>>

\* rm /tmp/rec.wav, then three seconds of rec() into the same name; without a
\* sound card nothing is written.
RecorderCapture(w) ==
    /\ Step(w, "start", "asr")
    /\ wav' \in {w, NoFile}
    /\ UNCHANGED <<queueVars, ctlVars, job, creg, round, ret, saved, volVars, byteVars, grammar>>

\* Mutant of RecorderAsr: the child exits when the recognition fails.
AsrExits(w) ==
    /\ \E r \in {0, 1} :
          /\ Step(w, "asr", IF r = 1 THEN "load" ELSE "zombie")
          /\ ret' = [ret EXCEPT ![w] = r]
    /\ UNCHANGED <<queueVars, ctlVars, job, creg, round, saved, volVars, byteVars, grammar, wav>>

\* get_from_server() uploads the file and waits for the words, or fails.
RecorderAsr(w) ==
    /\ Step(w, "asr", "load")
    /\ \E r \in {0, 1} : ret' = [ret EXCEPT ![w] = r]
    /\ UNCHANGED <<queueVars, ctlVars, job, creg, round, saved, volVars, byteVars, grammar, wav>>

ChildLoad(w) ==
    /\ Step(w, "load", "store")
    /\ creg' = [creg EXCEPT ![w] = flags]
    /\ UNCHANGED <<queueVars, ctlVars, job, round, ret, saved, volVars, byteVars, grammar, wav>>

\* Mutant of ChildStore: the child clears the whole byte.
StoreZero(w) ==
    /\ Step(w, "store", "zombie")
    /\ flags' = {}
    /\ lost' = (lost \/ flags # creg[w])
    /\ leaked' = {}
    /\ UNCHANGED <<queueVars, ctlVars, job, creg, round, ret, saved, volVars,
                   overtaken, grammar, wav>>

\* Mutant of ChildStore: a ring that was stopped ends without restoring the volume.
StoreStopped(w) ==
    /\ Step(w, "store", CASE job[w] = "ring" /\ ret[w] # 3 -> "restore"
                          [] job[w] # "record" /\ ret[w] # 0 -> "zombie"
                          [] OTHER -> "report")
    /\ flags' = creg[w] \ {Bit(job[w])}
    /\ lost' = (lost \/ flags # creg[w])
    /\ leaked' = leaked \ {Bit(job[w])}
    /\ UNCHANGED <<queueVars, ctlVars, job, creg, round, ret, saved, volVars,
                   overtaken, grammar, wav>>

\* Store the byte without the child's bit.  A recording then reports; music
\* reports only that the file could not be opened; a ring restores the volume.
ChildStore(w) ==
    /\ Step(w, "store", CASE job[w] = "ring" -> "restore"
                          [] job[w] = "play" /\ ret[w] # 0 -> "zombie"
                          [] OTHER -> "report")
    /\ flags' = creg[w] \ {Bit(job[w])}
    /\ lost' = (lost \/ flags # creg[w])
    /\ leaked' = leaked \ {Bit(job[w])}
    /\ UNCHANGED <<queueVars, ctlVars, job, creg, round, ret, saved, volVars,
                   overtaken, grammar, wav>>

ChildReport(w) ==
    /\ Step(w, "report", "zombie")
    /\ replies' = Sent(replies, IF ret[w] = 1 THEN "result" ELSE "failed")
    /\ UNCHANGED <<cmds, stops, sent, ctlVars, job, creg, round, ret, saved,
                   volVars, byteVars, grammar, wav>>

\* set_vol(vol), with the vol the child copied when it was forked.
RingRestore(w) ==
    /\ Step(w, "restore", "zombie")
    /\ mixer' = Clamp(saved[w])
    /\ UNCHANGED <<queueVars, ctlVars, job, creg, round, ret, saved, vol, volStr,
                   undone, byteVars, grammar, wav>>

-----------------------------------------------------------------------------
Control ==
    \/ ReceiveGrammar \/ ReceiveSetVol \/ ReceiveGetVol \/ ReceiveUnknown
    \/ ReceiveSilent \/ ReceiveStart \/ ReceiveStop
    \/ CtlSendStop \/ CtlLoad \/ CtlStore
    \/ (\E w \in Workers : CtlFork(w)) \/ CtlForkFails \/ CtlBadRing \/ CtlReply

Child(w) ==
    \/ PlayerOpen(w) \/ PlayerPoll(w) \/ RecorderCapture(w) \/ RecorderAsr(w)
    \/ ChildLoad(w) \/ ChildStore(w) \/ ChildReport(w) \/ RingRestore(w)

Next ==
    \/ \E c \in Commands : MainSends(c)
    \/ MainTakesReply
    \/ Control
    \/ \E w \in Workers : Child(w) \/ PlayerEof(w)

Spec == Init /\ [][Next]_vars

\* The scheduler runs every process that can run, and the recognition library
\* returns.  Nothing is assumed of the main control system or of the length of
\* a file.
Fairness == WF_vars(Control) /\ \A w \in Workers : WF_vars(Child(w))
FairSpec == Spec /\ Fairness

-----------------------------------------------------------------------------
(* Properties *)

CtlPcs   == {"wait", "stop", "load", "store", "fork", "reply"}
ChildPcs == {"free", "start", "asr", "open", "poll", "load", "store",
             "restore", "report", "zombie"}

QueueType ==
    /\ cmds \in Seq(Commands) /\ replies \in Seq(Replies)
    /\ stops \in Nat /\ sent \in Nat

CtlType ==
    /\ reg \subseteq Bits
    /\ ctl \in CtlPcs /\ cur \in [op : Ops, lvl : Nat] /\ out \in Seq(Replies)
    /\ ctl \in {"load", "store"} => cur.op \in Starters \cup {"stop"}
    /\ ctl = "fork" => cur.op \in Starters
    /\ ctl = "stop" => cur.op = "stop"
    /\ ctl = "reply" <=> out # <<>>

ChildType ==
    /\ cpc \in [Workers -> ChildPcs]
    /\ job \in [Workers -> Jobs \cup {"none"}]
    /\ \A w \in Workers :
          /\ cpc[w] \in {"start", "asr"} => job[w] = "record"
          /\ cpc[w] \in {"open", "poll"} => job[w] \in {"play", "ring"}
          /\ cpc[w] = "free" <=> job[w] = "none"
    /\ creg \in [Workers -> SUBSET Bits]
    /\ round \in [Workers -> Nat] /\ ret \in [Workers -> {0, 1, 3}]
    /\ saved \in [Workers -> Nat]

ByteType ==
    /\ flags \subseteq Bits /\ leaked \subseteq Bits
    /\ lost \in BOOLEAN /\ overtaken \in BOOLEAN

SoundType ==
    /\ grammar \in BOOLEAN /\ vol \in Nat
    /\ volStr \in Nat \cup {NoVol} /\ mixer \in (80..Ramp) \cup {NoVol}
    /\ undone \in BOOLEAN
    /\ wav \in Workers \cup {NoFile}

\* Every variable keeps its type, each child's place belongs to its job, and the
\* control process owes replies exactly when it is about to send them: main()
\* never reaches a send with nothing to say, nor waits with a reply unsent.
TypeOK == QueueType /\ CtlType /\ ChildType /\ ByteType /\ SoundType

\* Unless an update of the shared byte was lost, at most one child records at a
\* time, and REC is set for as long as it does: the test of REC in main() and
\* the release at the end of the child are enough, stops and plays included.
RecorderExclusion ==
    ~lost => \A w \in Workers : Recorder(w) =>
                 /\ "REC" \in flags
                 /\ \A v \in Workers : Recorder(v) => v = w

\* Unless an update was lost, a child uploads its own recording or none: no
\* other child has removed or rewritten /tmp/rec.wav under it.
OwnRecording ==
    ~lost => \A w \in Workers : cpc[w] = "asr" => wav \in {w, NoFile}

\* Unless an update was lost or a stop cleared PLAY under a player, at most one
\* child plays at a time, and PLAY is set for as long as it does.
PlaybackExclusion ==
    ~lost /\ ~overtaken => \A w \in Workers : Player(w) =>
                 /\ "PLAY" \in flags
                 /\ \A v \in Workers : Player(v) => v = w

\* Unless an update was lost, a bit that is set belongs to somebody who will
\* clear it, or was left behind by a failed fork or by a ring with wrong
\* parameters: nothing else makes the subsystem refuse commands for good.
NoOrphanFlag ==
    ~lost => /\ "REC" \in flags =>
                    \/ \E w \in Workers : Recorder(w)
                    \/ ctl = "fork" /\ cur.op = "record"
                    \/ "REC" \in leaked
             /\ "PLAY" \in flags =>
                    \/ \E w \in Workers : Player(w)
                    \/ ctl = "fork" /\ cur.op # "record"
                    \/ "PLAY" \in leaked

\* What makes RecorderExclusion inductive: while the control process is on its
\* way from a successful test of REC to the fork, nobody records, and once it has
\* stored the bit the bit stays.
RecInv ==
    /\ RecorderExclusion
    /\ ~lost /\ cur.op = "record" =>
          /\ ctl \in {"load", "store", "fork"} => \A w \in Workers : ~Recorder(w)
          /\ ctl = "fork" => "REC" \in flags

\* The same for PLAY, which music and rings share.
PlayInv ==
    /\ PlaybackExclusion
    /\ ~lost /\ ~overtaken /\ cur.op \in Starters \ {"record"} =>
          /\ ctl \in {"load", "store", "fork"} => \A w \in Workers : ~Player(w)
          /\ ctl = "fork" => "PLAY" \in flags

\* No ring leaves its own level behind, however it ends and whatever rings, stops
\* and set commands come meanwhile.  And once no ring is left the mixer stands at
\* the level set last, the one getVol reports, but for set_vol()'s limits: unless
\* it was set while one rang, or over the web before one, which the ring undoes.
RingRestoresVolume ==
    (\A w \in Workers : ~Ringing(w)) =>
        /\ mixer # Ramp
        /\ volStr # NoVol /\ ~undone => mixer = Clamp(volStr)

\* What makes it inductive: every ring will restore the level set last.
VolumeInv ==
    /\ RingRestoresVolume
    /\ \A w \in Workers : /\ cpc[w] = "report" => job[w] # "ring"
                          /\ cpc[w] = "restore" => job[w] = "ring"
    /\ volStr # NoVol /\ ~undone => \A w \in Workers : Ringing(w) => saved[w] = volStr

\* A recording gives its bit back, whatever the network, the queue and the other
\* children do, unless the bit was leaked or an update was lost.
RecordingReleased ==
    "REC" \in flags ~> ("REC" \notin flags \/ "REC" \in leaked \/ lost)

\* A stop message in the queue is taken by some player, or all players end:
\* nobody keeps playing beside an unread stop.
StopConsumed ==
    (stops > 0 /\ \E w \in Workers : cpc[w] = "poll")
        ~> (stops = 0 \/ \A w \in Workers : cpc[w] # "poll")

(* What comments and log messages of main() say *)

\* "already in music playing ,please wait": a play or ring is refused for being
\* busy only while a child plays.
RefusedOnlyWhilePlaying ==
    [][ctl = "wait" /\ ctl' = "reply" /\ cur'.op \in {"play", "ring"}
         => \E w \in Workers : Player(w)]_vars

\* "stop play music": when the stop handler has finished and no stop message is
\* left for a player to find, no child plays on.
StopStops ==
    ctl = "reply" /\ cur.op = "stop" /\ stops = 0
        => \A w \in Workers : cpc[w] # "poll"
=============================================================================
