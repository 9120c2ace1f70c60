------------------------- MODULE AudioControlProofs -------------------------
(* Theorems about AudioControl, for any number of process slots, any set of   *)
(* commands, any queue capacity and any ring frequency.                       *)
EXTENDS AudioControl, SequenceTheorems, TLAPS

-----------------------------------------------------------------------------
(* Lemmas about the operators *)

\* What set_vol() hands to the mixer lies in the mixer's range.
LEMMA ClampRange == \A v \in Nat : Clamp(v) \in 80..127
  BY DEF Clamp

\* A send, dropped or not, leaves a sequence of replies.
LEMMA SentType == ASSUME NEW q \in Seq(Replies), NEW m \in Replies
                  PROVE  Sent(q, m) \in Seq(Replies)
  BY DEF Sent

-----------------------------------------------------------------------------
(* Type correctness: each part of TypeOK depends on its own variables *)

LEMMA ChildFrame == ChildType /\ UNCHANGED childVars => ChildType'
  BY DEF ChildType, childVars

LEMMA ByteFrame == ByteType /\ UNCHANGED byteVars => ByteType'
  BY DEF ByteType, byteVars

LEMMA SoundFrame == SoundType /\ UNCHANGED <<volVars, grammar, wav>> => SoundType'
  BY DEF SoundType, volVars

LEMMA QueueFrame == QueueType /\ UNCHANGED queueVars => QueueType'
  BY DEF QueueType, queueVars

LEMMA CtlFrame == CtlType /\ UNCHANGED ctlVars => CtlType'
  BY DEF CtlType, ctlVars

\* The initial state has the types.
LEMMA TypeInit == Init => TypeOK
<1> SUFFICES ASSUME Init PROVE TypeOK
  OBVIOUS
<1>1. QueueType
  BY DEF Init, QueueType
<1>2. CtlType
  BY DEF Init, CtlType, CtlPcs, Ops
<1>3. ChildType
  BY DEF Init, ChildType, ChildPcs, Jobs
<1>4. ByteType /\ SoundType
  BY DEF Init, ByteType, SoundType, NoVol, Ramp
<1> QED BY <1>1, <1>2, <1>3, <1>4 DEF TypeOK

\* A received command has the type of cur.
LEMMA ReceiveType ==
    ASSUME TypeOK, NEW ops, Receive(ops)
    PROVE  /\ QueueType' /\ cur' \in [op : Ops, lvl : Nat] /\ cur'.op \in ops
           /\ ctl = "wait" /\ out = <<>>
  BY CommandsAssumption DEF Receive, TypeOK, QueueType, CtlType

\* A handler that goes straight to its replies keeps the types.
LEMMA AnswerType ==
    ASSUME TypeOK, NEW ops, Receive(ops),
           NEW rs \in Seq(Replies), rs # <<>>, Answer(rs)
    PROVE  CtlType' /\ ChildType' /\ ByteType' /\ wav' = wav
<1>1. CtlType'
  BY ReceiveType DEF Answer, TypeOK, CtlType, CtlPcs
<1> QED BY <1>1, ChildFrame, ByteFrame DEF Answer, TypeOK

LEMMA ControlReceiveType ==
    TypeOK /\ (\/ ReceiveGrammar \/ ReceiveSetVol \/ ReceiveGetVol
               \/ ReceiveUnknown \/ ReceiveSilent \/ ReceiveStart \/ ReceiveStop)
        => TypeOK'
<1> SUFFICES ASSUME TypeOK,
                    \/ ReceiveGrammar \/ ReceiveSetVol \/ ReceiveGetVol
                    \/ ReceiveUnknown \/ ReceiveSilent \/ ReceiveStart \/ ReceiveStop
             PROVE  TypeOK'
  OBVIOUS
<1>0. \A m \in Replies : /\ <<m>> \in Seq(Replies) /\ <<m>> # <<>>
                         /\ <<m, m>> \in Seq(Replies) /\ <<m, m>> # <<>>
  OBVIOUS
<1>a. {"ok", "refused", "volume", "empty"} \subseteq Replies
  BY DEF Replies
<1>1. CASE ReceiveGrammar
  <2>1. \E m \in Replies : Answer(<<m>>)
    BY <1>1, <1>a DEF ReceiveGrammar
  <2>2. QueueType' /\ CtlType' /\ ChildType' /\ ByteType' /\ wav' = wav
    BY <1>1, <1>0, <2>1, ReceiveType, AnswerType DEF ReceiveGrammar
  <2>3. SoundType'
    BY <1>1, <2>2 DEF ReceiveGrammar, SoundType, TypeOK, volVars
  <2> QED BY <2>2, <2>3 DEF TypeOK
<1>2. CASE ReceiveSetVol
  <2>1. QueueType' /\ CtlType' /\ ChildType' /\ ByteType' /\ wav' = wav
    BY <1>2, <1>0, <1>a, ReceiveType, AnswerType DEF ReceiveSetVol
  <2>2. cur'.lvl \in Nat
    BY <1>2, ReceiveType DEF ReceiveSetVol
  <2>3. mixer' \in 80..127
    BY <1>2, <2>2, ClampRange DEF ReceiveSetVol
  <2>4. mixer' \in (80..Ramp) \cup {NoVol}
    BY <2>3 DEF Ramp
  <2>5. SoundType'
    BY <1>2, <2>1, <2>2, <2>4 DEF ReceiveSetVol, SoundType, TypeOK
  <2> QED BY <2>1, <2>5 DEF TypeOK
<1>3. CASE ReceiveGetVol
  <2>1. QueueType' /\ CtlType' /\ ChildType' /\ ByteType' /\ wav' = wav
    BY <1>3, <1>0, <1>a, ReceiveType, AnswerType DEF ReceiveGetVol
  <2> QED BY <1>3, <2>1, SoundFrame DEF ReceiveGetVol, TypeOK
<1>4. CASE ReceiveUnknown
  <2>1. QueueType' /\ CtlType' /\ ChildType' /\ ByteType' /\ wav' = wav
    BY <1>4, <1>0, <1>a, ReceiveType, AnswerType DEF ReceiveUnknown
  <2> QED BY <1>4, <2>1, SoundFrame DEF ReceiveUnknown, TypeOK
<1>5. CASE ReceiveSilent
  <2>1. QueueType' /\ CtlType'
    BY <1>5, ReceiveType DEF ReceiveSilent, CtlType, TypeOK
  <2> QED BY <1>5, <2>1, ChildFrame, ByteFrame, SoundFrame DEF ReceiveSilent, TypeOK
<1>6. CASE ReceiveStart
  <2>1. QueueType' /\ (wav' = wav => SoundType')
    <3>1. QueueType'
      BY <1>6, ReceiveType DEF ReceiveStart
    <3> QED BY <1>6, <3>1, SoundFrame DEF ReceiveStart, TypeOK
  <2>2. CASE ctl' = "load" /\ UNCHANGED <<out, reg, childVars, byteVars, wav>>
    <3>1. CtlType'
      BY <1>6, <2>2, ReceiveType DEF ReceiveStart, CtlType, TypeOK, CtlPcs
    <3> QED BY <1>6, <2>1, <2>2, <3>1, ChildFrame, ByteFrame DEF TypeOK
  <2>3. CASE \E m \in Replies : Answer(<<m>>) \/ Answer(<<m, m>>)
    <3>1. CtlType' /\ ChildType' /\ ByteType' /\ wav' = wav
      BY <1>6, <1>0, <2>3, AnswerType DEF ReceiveStart
    <3> QED BY <2>1, <3>1 DEF TypeOK
  <2> QED BY <1>6, <1>a, <2>2, <2>3 DEF ReceiveStart
<1>7. CASE ReceiveStop
  <2>1. CASE ctl' = "stop" /\ UNCHANGED <<out, reg, childVars, byteVars, wav>>
    <3>1. QueueType' /\ CtlType'
      BY <1>7, <2>1, ReceiveType DEF ReceiveStop, CtlType, TypeOK, CtlPcs
    <3> QED BY <1>7, <2>1, <3>1, ChildFrame, ByteFrame, SoundFrame
            DEF ReceiveStop, TypeOK
  <2>2. CASE Answer(<<"ok">>)
    <3>1. QueueType' /\ CtlType' /\ ChildType' /\ ByteType' /\ wav' = wav
      BY <1>7, <1>0, <1>a, <2>2, ReceiveType, AnswerType DEF ReceiveStop
    <3> QED BY <1>7, <3>1, SoundFrame DEF ReceiveStop, TypeOK
  <2> QED BY <1>7, <2>1, <2>2 DEF ReceiveStop
<1> QED BY <1>1, <1>2, <1>3, <1>4, <1>5, <1>6, <1>7

\* The rest of a handler keeps the types.
LEMMA ControlRestType ==
    TypeOK /\ (\/ CtlSendStop \/ CtlLoad \/ CtlStore
               \/ (\E w \in Workers : CtlFork(w)) \/ CtlForkFails \/ CtlBadRing
               \/ CtlReply)
        => TypeOK'
<1> SUFFICES ASSUME TypeOK,
                    \/ CtlSendStop \/ CtlLoad \/ CtlStore
                    \/ (\E w \in Workers : CtlFork(w)) \/ CtlForkFails
                    \/ CtlBadRing \/ CtlReply
             PROVE  TypeOK'
  OBVIOUS
<1>a. \A op : Bit(op) \in Bits
  BY DEF Bit, Bits
<1>b. \A m \in Replies : <<m>> \in Seq(Replies) /\ <<m>> # <<>>
  OBVIOUS
<1>c. {"ok", "refused", "accepted"} \subseteq Replies
  BY DEF Replies
<1>1. CASE CtlSendStop
  <2>1. QueueType'
    BY <1>1 DEF CtlSendStop, TypeOK, QueueType
  <2>2. CtlType'
    BY <1>1 DEF CtlSendStop, TypeOK, CtlType, CtlPcs
  <2> QED BY <1>1, <2>1, <2>2, ChildFrame, ByteFrame, SoundFrame DEF CtlSendStop, TypeOK
<1>2. CASE CtlLoad
  <2>1. CtlType'
    BY <1>2 DEF CtlLoad, TypeOK, CtlType, ByteType, CtlPcs
  <2> QED BY <1>2, <2>1, QueueFrame, ChildFrame, ByteFrame, SoundFrame DEF CtlLoad, TypeOK
<1>3. CASE CtlStore
  <2>1. CtlType'
    BY <1>3, <1>b, <1>c DEF CtlStore, TypeOK, CtlType, CtlPcs
  <2>2. ByteType'
    BY <1>3, <1>a DEF CtlStore, TypeOK, ByteType, CtlType
  <2> QED BY <1>3, <2>1, <2>2, QueueFrame, ChildFrame, SoundFrame DEF CtlStore, TypeOK
<1>d. ASSUME ctl = "fork", AfterFork, UNCHANGED <<cur, reg>> PROVE CtlType'
  BY <1>b, <1>c, <1>d DEF AfterFork, TypeOK, CtlType, CtlPcs
<1>4. CASE \E w \in Workers : CtlFork(w)
  <2> PICK w \in Workers : CtlFork(w)
    BY <1>4
  <2>1. CtlType'
    BY <1>d DEF CtlFork
  <2>2. /\ cpc' \in [Workers -> ChildPcs]
        /\ job' \in [Workers -> Jobs \cup {"none"}]
        /\ saved' \in [Workers -> Nat]
    BY DEF CtlFork, TypeOK, ChildType, SoundType, ChildPcs, Jobs
  <2>3. ASSUME NEW v \in Workers
        PROVE  /\ cpc'[v] \in {"start", "asr"} => job'[v] = "record"
               /\ cpc'[v] \in {"open", "poll"} => job'[v] \in {"play", "ring"}
               /\ cpc'[v] = "free" <=> job'[v] = "none"
    <3>1. CASE v = w
      BY <3>1 DEF CtlFork, TypeOK, ChildType, Jobs
    <3>2. CASE v # w
      BY <3>2 DEF CtlFork, TypeOK, ChildType
    <3> QED BY <3>1, <3>2
  <2>4. ChildType'
    BY <2>2, <2>3 DEF CtlFork, TypeOK, ChildType
  <2>5. SoundType'
    BY DEF CtlFork, TypeOK, SoundType
  <2> QED BY <2>1, <2>4, <2>5, QueueFrame, ByteFrame DEF CtlFork, TypeOK
<1>5. CASE CtlForkFails
  <2>1. CtlType'
    BY <1>5, <1>d DEF CtlForkFails
  <2>2. ByteType'
    BY <1>5, <1>a DEF CtlForkFails, TypeOK, ByteType
  <2> QED BY <1>5, <2>1, <2>2, QueueFrame, ChildFrame, SoundFrame DEF CtlForkFails, TypeOK
<1>6. CASE CtlBadRing
  <2>1. CtlType'
    BY <1>6, <1>b, <1>c DEF CtlBadRing, TypeOK, CtlType, CtlPcs
  <2>2. ByteType'
    BY <1>6 DEF CtlBadRing, TypeOK, ByteType, Bits
  <2> QED BY <1>6, <2>1, <2>2, QueueFrame, ChildFrame, SoundFrame DEF CtlBadRing, TypeOK
<1>7. CASE CtlReply
  <2>1. out # <<>> /\ out \in Seq(Replies) /\ Head(out) \in Replies
    BY <1>7 DEF CtlReply, TypeOK, CtlType
  <2>2. QueueType'
    BY <1>7, <2>1, SentType DEF CtlReply, TypeOK, QueueType
  <2>3. Tail(out) \in Seq(Replies) /\ (Len(out) = 1 <=> Tail(out) = <<>>)
    <3>1. Tail(out) \in Seq(Replies) /\ Len(Tail(out)) = Len(out) - 1
      BY <2>1, HeadTailProperties
    <3>2. Len(out) \in Nat /\ (Tail(out) = <<>> <=> Len(Tail(out)) = 0)
      BY <2>1, <3>1, EmptySeq, LenProperties
    <3> QED BY <3>1, <3>2
  <2>4. CtlType'
    BY <1>7, <2>3 DEF CtlReply, TypeOK, CtlType, CtlPcs
  <2> QED BY <1>7, <2>2, <2>4, ChildFrame, ByteFrame, SoundFrame DEF CtlReply, TypeOK
<1> QED BY <1>1, <1>2, <1>3, <1>4, <1>5, <1>6, <1>7

\* A child that moves on keeps the types of cpc, if its job allows the new place.
LEMMA StepType ==
    ASSUME TypeOK, NEW w \in Workers, NEW from \in ChildPcs, NEW to \in ChildPcs,
           Step(w, from, to), from # "free", to # "free", UNCHANGED job,
           to \in {"start", "asr"} => job[w] = "record",
           to \in {"open", "poll"} => job[w] \in {"play", "ring"}
    PROVE  /\ cpc' \in [Workers -> ChildPcs]
           /\ \A v \in Workers :
                 /\ cpc'[v] \in {"start", "asr"} => job'[v] = "record"
                 /\ cpc'[v] \in {"open", "poll"} => job'[v] \in {"play", "ring"}
                 /\ cpc'[v] = "free" <=> job'[v] = "none"
<1>1. cpc' \in [Workers -> ChildPcs]
  BY DEF Step, TypeOK, ChildType
<1>2. ASSUME NEW v \in Workers
      PROVE  /\ cpc'[v] \in {"start", "asr"} => job'[v] = "record"
             /\ cpc'[v] \in {"open", "poll"} => job'[v] \in {"play", "ring"}
             /\ cpc'[v] = "free" <=> job'[v] = "none"
  <2>1. CASE v = w
    BY <2>1 DEF Step, TypeOK, ChildType
  <2>2. CASE v # w
    BY <2>2 DEF Step, TypeOK, ChildType
  <2> QED BY <2>1, <2>2
<1> QED BY <1>1, <1>2

LEMMA PlaybackReturnsType ==
    ASSUME TypeOK, NEW w \in Workers, NEW from \in {"open", "poll"},
           NEW r \in {0, 1, 3}, PlaybackReturns(w, from, r)
    PROVE  ChildType'
<1> DEFINE again == job[w] = "ring" /\ r # 3 /\ round[w] + 1 < Freq
           to == IF again THEN "open" ELSE "load"
<1>1. Step(w, from, to) /\ UNCHANGED <<job, creg, saved>>
  BY DEF PlaybackReturns
<1>2. /\ round' \in [Workers -> Nat]
      /\ ret' \in [Workers -> {0, 1, 3}]
  BY DEF PlaybackReturns, TypeOK, ChildType
<1>3. to \in ChildPcs /\ to # "free" /\ to \notin {"start", "asr"} /\ to # "poll"
  BY DEF ChildPcs
<1>4. to = "open" => job[w] \in {"play", "ring"}
  OBVIOUS
<1>5. from \in ChildPcs /\ from # "free"
  BY DEF ChildPcs
<1> HIDE DEF to
<1> QED BY <1>1, <1>2, <1>3, <1>4, <1>5, StepType DEF TypeOK, ChildType

\* Every step of a child keeps the types.
LEMMA ChildTypeStep ==
    ASSUME TypeOK, NEW w \in Workers, Child(w) \/ PlayerEof(w)
    PROVE  TypeOK'
<1> USE DEF ChildPcs
<1>0. ASSUME RingVolume(w), wav' = wav, grammar' = grammar PROVE SoundType'
  BY <1>0 DEF RingVolume, TypeOK, SoundType, Ramp
<1>1. CASE PlayerOpen(w)
  <2>1. ChildType'
    <3>1. CASE PlaybackReturns(w, "open", 0)
      BY <3>1, PlaybackReturnsType
    <3>2. CASE Step(w, "open", "poll") /\ UNCHANGED <<job, creg, round, ret, saved>>
      <4>1. job[w] \in {"play", "ring"}
        BY <3>2 DEF Step, TypeOK, ChildType
      <4> QED BY <3>2, <4>1, StepType DEF TypeOK, ChildType
    <3> QED BY <1>1, <3>1, <3>2 DEF PlayerOpen
  <2> QED BY <1>1, <1>0, <2>1, QueueFrame, CtlFrame, ByteFrame DEF PlayerOpen, TypeOK
<1>2. CASE PlayerPoll(w)
  <2>1. CtlType' /\ ByteType'
    BY <1>2, CtlFrame, ByteFrame DEF PlayerPoll, TypeOK
  <2>2. QueueType'
    BY <1>2 DEF PlayerPoll, TypeOK, QueueType
  <2>3. SoundType'
    BY <1>2, <1>0, SoundFrame DEF PlayerPoll, TypeOK
  <2>4. ChildType'
    BY <1>2, PlaybackReturnsType, ChildFrame DEF PlayerPoll, TypeOK
  <2> QED BY <2>1, <2>2, <2>3, <2>4 DEF TypeOK
<1>3. CASE PlayerEof(w)
  BY <1>3, PlaybackReturnsType, QueueFrame, CtlFrame, ByteFrame, SoundFrame
  DEF PlayerEof, TypeOK
<1>4. CASE RecorderCapture(w)
  <2>1. job[w] = "record"
    BY <1>4 DEF RecorderCapture, Step, TypeOK, ChildType
  <2>2. ChildType'
    BY <1>4, <2>1, StepType DEF RecorderCapture, TypeOK, ChildType
  <2>3. SoundType'
    BY <1>4 DEF RecorderCapture, TypeOK, SoundType, volVars
  <2> QED BY <1>4, <2>2, <2>3, QueueFrame, CtlFrame, ByteFrame
          DEF RecorderCapture, TypeOK
<1>5. CASE RecorderAsr(w)
  <2>1. ret' \in [Workers -> {0, 1, 3}]
    BY <1>5 DEF RecorderAsr, TypeOK, ChildType
  <2>2. ChildType'
    BY <1>5, <2>1, StepType DEF RecorderAsr, TypeOK, ChildType
  <2> QED BY <1>5, <2>2, QueueFrame, CtlFrame, ByteFrame, SoundFrame
          DEF RecorderAsr, TypeOK
<1>6. CASE ChildLoad(w)
  <2>1. creg' \in [Workers -> SUBSET Bits]
    BY <1>6 DEF ChildLoad, TypeOK, ChildType, ByteType
  <2>2. ChildType'
    BY <1>6, <2>1, StepType DEF ChildLoad, TypeOK, ChildType
  <2> QED BY <1>6, <2>2, QueueFrame, CtlFrame, ByteFrame, SoundFrame
          DEF ChildLoad, TypeOK
<1>7. CASE ChildStore(w)
  <2> DEFINE to == CASE job[w] = "ring" -> "restore"
                     [] job[w] = "play" /\ ret[w] # 0 -> "zombie"
                     [] OTHER -> "report"
  <2>1. to \in {"restore", "zombie", "report"}
    OBVIOUS
  <2>2. Step(w, "store", to)
    BY <1>7 DEF ChildStore
  <2> HIDE DEF to
  <2>3. ChildType'
    BY <1>7, <2>1, <2>2, StepType DEF ChildStore, TypeOK, ChildType
  <2>4. ByteType'
    BY <1>7 DEF ChildStore, TypeOK, ChildType, ByteType
  <2> QED BY <1>7, <2>3, <2>4, QueueFrame, CtlFrame, SoundFrame DEF ChildStore, TypeOK
<1>8. CASE ChildReport(w)
  <2>1. ChildType'
    BY <1>8, StepType DEF ChildReport, TypeOK, ChildType
  <2>2. QueueType'
    BY <1>8, SentType DEF ChildReport, TypeOK, QueueType, Replies
  <2> QED BY <1>8, <2>1, <2>2, CtlFrame, ByteFrame, SoundFrame DEF ChildReport, TypeOK
<1>9. CASE RingRestore(w)
  <2>1. ChildType'
    BY <1>9, StepType DEF RingRestore, TypeOK, ChildType
  <2>2. Clamp(saved[w]) \in 80..127
    BY ClampRange DEF TypeOK, ChildType
  <2>3. SoundType'
    BY <1>9, <2>2 DEF RingRestore, TypeOK, SoundType, Ramp
  <2> QED BY <1>9, <2>1, <2>3, QueueFrame, CtlFrame, ByteFrame DEF RingRestore, TypeOK
<1> QED BY <1>1, <1>2, <1>3, <1>4, <1>5, <1>6, <1>7, <1>8, <1>9 DEF Child

\* The messages of the main control system keep the types.
LEMMA MainType == TypeOK /\ ((\E c \in Commands : MainSends(c)) \/ MainTakesReply)
                      => TypeOK'
<1> SUFFICES ASSUME TypeOK, (\E c \in Commands : MainSends(c)) \/ MainTakesReply
             PROVE  TypeOK'
  OBVIOUS
<1>1. ASSUME \E c \in Commands : MainSends(c) PROVE QueueType'
  <2>1. PICK c \in Commands : MainSends(c)
    BY <1>1
  <2> QED BY <2>1 DEF MainSends, TypeOK, QueueType
<1>2. ASSUME MainTakesReply PROVE QueueType'
  BY <1>2, HeadTailProperties DEF MainTakesReply, TypeOK, QueueType
<1>3. QueueType'
  BY <1>1, <1>2
<1> QED BY <1>3, CtlFrame, ChildFrame, ByteFrame, SoundFrame
        DEF MainSends, MainTakesReply, TypeOK

LEMMA TypeStep == TypeOK /\ [Next]_vars => TypeOK'
<1>1. TypeOK /\ UNCHANGED vars => TypeOK'
  BY QueueFrame, CtlFrame, ChildFrame, ByteFrame, SoundFrame DEF vars, TypeOK
<1>2. TypeOK /\ Next => TypeOK'
  BY ControlReceiveType, ControlRestType, ChildTypeStep, MainType DEF Next, Control
<1> QED BY <1>1, <1>2

\* In every behaviour every variable keeps its type, whatever the instance.
THEOREM TypeCorrect == Spec => []TypeOK
  BY TypeInit, TypeStep, PTL DEF Spec

-----------------------------------------------------------------------------
(* Who holds the bits: the inductive invariant of the four safety properties *)

AudioInv == RecInv /\ PlayInv /\ OwnRecording /\ NoOrphanFlag

\* Steps of a child before and after its store neither start nor end an activity.
LEMMA LiveFrame ==
    ASSUME TypeOK, NEW w \in Workers,
           \/ PlayerOpen(w) \/ PlayerPoll(w) \/ PlayerEof(w) \/ RecorderCapture(w)
           \/ RecorderAsr(w) \/ ChildLoad(w) \/ ChildReport(w) \/ RingRestore(w)
    PROVE  /\ \A v \in Workers : /\ Recorder(v)' <=> Recorder(v)
                                 /\ Player(v)' <=> Player(v)
           /\ UNCHANGED <<byteVars, ctl, cur>>
<1>1. UNCHANGED <<byteVars, ctl, cur, job>>
  BY DEF PlayerOpen, PlayerPoll, PlayerEof, RecorderCapture, RecorderAsr, ChildLoad,
         ChildReport, RingRestore, ctlVars, childVars, PlaybackReturns
<1>2. ASSUME NEW v \in Workers
      PROVE  (Recorder(v)' <=> Recorder(v)) /\ (Player(v)' <=> Player(v))
  <2>1. \/ cpc' = cpc
        \/ \E from, to \in ChildPcs :
              /\ Step(w, from, to)
              /\ \/ from = "start" /\ to = "asr"
                 \/ from = "asr" /\ to = "load"
                 \/ from \in {"open", "poll"} /\ to \in {"open", "poll", "load"}
                 \/ from = "load" /\ to = "store"
                 \/ from \in {"report", "restore"} /\ to = "zombie"
    BY DEF PlayerOpen, PlayerPoll, PlayerEof, RecorderCapture, RecorderAsr, ChildLoad,
           ChildReport, RingRestore, childVars, PlaybackReturns, ChildPcs
  <2>2. cpc[w] \in {"start", "asr"} => job[w] = "record"
    BY DEF TypeOK, ChildType
  <2>3. cpc[w] \in {"open", "poll"} => job[w] \in {"play", "ring"}
    BY DEF TypeOK, ChildType
  <2>4. CASE cpc' = cpc
    BY <1>1, <2>4 DEF Recorder, Player
  <2>5. CASE v # w
    BY <1>1, <2>1, <2>5 DEF Recorder, Player, Step, TypeOK, ChildType
  <2>6. CASE v = w /\ cpc' # cpc
    BY <1>1, <2>1, <2>2, <2>3, <2>6 DEF Recorder, Player, Step, TypeOK, ChildType
  <2> QED BY <2>4, <2>5, <2>6
<1> QED BY <1>1, <1>2

\* A step that changes no bit and no activity, and takes the control process
\* neither into a claim nor out of a fork, preserves the invariant's parts.
LEMMA QuietStep ==
    ASSUME RecInv, PlayInv, NoOrphanFlag, UNCHANGED byteVars,
           \A v \in Workers : (Recorder(v)' <=> Recorder(v)) /\ (Player(v)' <=> Player(v)),
           \/ UNCHANGED <<ctl, cur>>
           \/ ctl # "fork" /\ ctl' \in {"wait", "stop", "reply"}
           \/ ctl = "load" /\ ctl' = "store" /\ cur' = cur
           \/ ctl' = "load" /\ ctl = "stop" /\ cur'.op = "stop"
    PROVE  RecInv' /\ PlayInv' /\ NoOrphanFlag'
<1>1. RecInv'
  BY DEF RecInv, RecorderExclusion, byteVars, Starters
<1>2. PlayInv'
  BY DEF PlayInv, PlaybackExclusion, byteVars, Starters
<1>3. NoOrphanFlag'
  BY DEF NoOrphanFlag, byteVars
<1> QED BY <1>1, <1>2, <1>3

\* A command that tests its bit and finds it clear finds nobody active.
LEMMA StartStep ==
    ASSUME TypeOK, RecInv, PlayInv, NoOrphanFlag, ReceiveStart
    PROVE  RecInv' /\ PlayInv' /\ NoOrphanFlag'
<1>1. /\ UNCHANGED byteVars /\ UNCHANGED childVars
      /\ ctl = "wait" /\ cur'.op \in Starters
      /\ ctl' = "reply" \/ (ctl' = "load" /\ Bit(cur'.op) \notin flags)
  BY ReceiveType DEF ReceiveStart, Answer
<1>2. \A v \in Workers : (Recorder(v)' <=> Recorder(v)) /\ (Player(v)' <=> Player(v))
  BY <1>1 DEF childVars, Recorder, Player
<1>3. CASE ctl' = "reply"
  BY <1>1, <1>2, <1>3, QuietStep
<1>4. CASE ctl' = "load" /\ Bit(cur'.op) \notin flags
  <2>1. RecInv'
    BY <1>1, <1>2, <1>4 DEF RecInv, RecorderExclusion, byteVars, Bit
  <2>2. PlayInv'
    BY <1>1, <1>2, <1>4 DEF PlayInv, PlaybackExclusion, byteVars, Bit, Starters
  <2>3. NoOrphanFlag'
    BY <1>1, <1>2, <1>4 DEF NoOrphanFlag, byteVars
  <2> QED BY <2>1, <2>2, <2>3
<1> QED BY <1>1, <1>3, <1>4

\* The control process stores the byte: a claim finds nobody active, and a stop
\* that clears PLAY under a player says so in overtaken.
LEMMA CtlStoreStep ==
    ASSUME TypeOK, RecInv, PlayInv, NoOrphanFlag, CtlStore
    PROVE  RecInv' /\ PlayInv' /\ NoOrphanFlag'
<1>1. \A v \in Workers : (Recorder(v)' <=> Recorder(v)) /\ (Player(v)' <=> Player(v))
  BY DEF CtlStore, childVars, Recorder, Player
<1>2. ctl = "store" /\ cur' = cur /\ (~lost' => ~lost /\ reg = flags)
  BY DEF CtlStore
<1>3. CASE /\ cur.op \in Starters /\ flags' = reg \cup {Bit(cur.op)} /\ ctl' = "fork"
           /\ UNCHANGED <<leaked, overtaken>>
  <2>1. RecInv'
    BY <1>1, <1>2, <1>3 DEF RecInv, RecorderExclusion, Bit, Starters
  <2>2. PlayInv'
    BY <1>1, <1>2, <1>3 DEF PlayInv, PlaybackExclusion, Bit, Starters
  <2>3. NoOrphanFlag'
    BY <1>1, <1>2, <1>3 DEF NoOrphanFlag, Bit, Starters
  <2> QED BY <2>1, <2>2, <2>3
<1>4. CASE /\ cur.op = "stop" /\ flags' = reg \ {"PLAY"} /\ ctl' = "reply"
           /\ leaked' = leaked \ {"PLAY"}
           /\ overtaken' = (overtaken \/ \E w \in Workers : Player(w))
  <2>1. RecInv'
    BY <1>1, <1>2, <1>4 DEF RecInv, RecorderExclusion
  <2>2. PlayInv'
    BY <1>1, <1>2, <1>4 DEF PlayInv, PlaybackExclusion
  <2>3. NoOrphanFlag'
    BY <1>1, <1>2, <1>4 DEF NoOrphanFlag
  <2> QED BY <2>1, <2>2, <2>3
<1> QED BY <1>3, <1>4 DEF CtlStore

\* The bit that a command claimed passes to the child it forks, and nobody else
\* holds it.
LEMMA ForkStep ==
    ASSUME TypeOK, RecInv, PlayInv, NoOrphanFlag, NEW w \in Workers, CtlFork(w)
    PROVE  RecInv' /\ PlayInv' /\ NoOrphanFlag'
<1>1. /\ ctl = "fork" /\ ctl' \in {"wait", "reply"} /\ cur' = cur /\ cur.op \in Jobs
      /\ UNCHANGED byteVars
  BY DEF CtlFork, AfterFork
<1>2. ~Recorder(w) /\ ~Player(w)
  BY DEF CtlFork, Recorder, Player
<1>3. /\ Recorder(w)' <=> cur.op = "record"
      /\ Player(w)' <=> cur.op \in {"play", "ring"}
  BY DEF CtlFork, Recorder, Player, TypeOK, ChildType, Jobs
<1>4. \A v \in Workers \ {w} : /\ Recorder(v)' <=> Recorder(v)
                               /\ Player(v)' <=> Player(v)
  BY DEF CtlFork, Recorder, Player, TypeOK, ChildType
<1>a. \A v \in Workers : /\ Recorder(v)' <=> Recorder(v) \/ (v = w /\ cur.op = "record")
                         /\ Player(v)' <=> Player(v) \/ (v = w /\ cur.op \in {"play", "ring"})
  BY <1>2, <1>3, <1>4
<1>5. RecInv'
  <2>1. CASE lost \/ cur.op # "record"
    BY <1>1, <1>a, <2>1 DEF RecInv, RecorderExclusion, byteVars
  <2>2. CASE ~lost /\ cur.op = "record"
    <3>1. "REC" \in flags' /\ \A v \in Workers : Recorder(v)' => v = w
      BY <1>1, <1>a, <2>2 DEF RecInv, byteVars
    <3> QED BY <1>1, <3>1 DEF RecInv, RecorderExclusion
  <2> QED BY <2>1, <2>2
<1>6. PlayInv'
  <2>1. CASE lost \/ overtaken \/ cur.op = "record"
    BY <1>1, <1>a, <2>1 DEF PlayInv, PlaybackExclusion, byteVars
  <2>2. CASE ~lost /\ ~overtaken /\ cur.op # "record"
    <3>1. "PLAY" \in flags' /\ \A v \in Workers : Player(v)' => v = w
      BY <1>1, <1>a, <2>2 DEF PlayInv, byteVars, Starters, Jobs
    <3> QED BY <1>1, <3>1 DEF PlayInv, PlaybackExclusion
  <2> QED BY <2>1, <2>2
<1>7. NoOrphanFlag'
  <2>1. CASE cur.op = "record"
    <3>1. Recorder(w)' /\ \A v \in Workers : Player(v) => Player(v)'
      BY <1>a, <2>1
    <3> QED BY <1>1, <2>1, <3>1 DEF NoOrphanFlag, byteVars
  <2>2. CASE cur.op # "record"
    <3>1. Player(w)' /\ \A v \in Workers : Recorder(v) => Recorder(v)'
      BY <1>1, <1>a, <2>2 DEF Jobs
    <3> QED BY <1>1, <2>2, <3>1 DEF NoOrphanFlag, byteVars
  <2> QED BY <2>1, <2>2
<1> QED BY <1>5, <1>6, <1>7

\* A claim that ends without a child is on record as a leak.
LEMMA LeakStep ==
    ASSUME TypeOK, RecInv, PlayInv, NoOrphanFlag, CtlForkFails \/ CtlBadRing
    PROVE  RecInv' /\ PlayInv' /\ NoOrphanFlag'
<1>1. \A v \in Workers : (Recorder(v)' <=> Recorder(v)) /\ (Player(v)' <=> Player(v))
  BY DEF CtlForkFails, CtlBadRing, childVars, Recorder, Player
<1>2. /\ ctl = "fork" /\ ctl' \in {"wait", "reply"} /\ cur' = cur /\ cur.op \in Starters
      /\ UNCHANGED <<flags, lost, overtaken>>
      /\ leaked' = leaked \cup {Bit(cur.op)}
  BY DEF CtlForkFails, CtlBadRing, AfterFork, Starters, Jobs, Bit
<1>3. RecInv'
  BY <1>1, <1>2 DEF RecInv, RecorderExclusion
<1>4. PlayInv'
  BY <1>1, <1>2 DEF PlayInv, PlaybackExclusion
<1>5. NoOrphanFlag'
  BY <1>1, <1>2 DEF NoOrphanFlag, Bit, Starters
<1> QED BY <1>3, <1>4, <1>5

\* A child that stores the byte without its own bit takes no one else's.
LEMMA ChildStoreStep ==
    ASSUME TypeOK, RecInv, PlayInv, NoOrphanFlag, NEW w \in Workers, ChildStore(w)
    PROVE  RecInv' /\ PlayInv' /\ NoOrphanFlag'
<1>1. /\ flags' = creg[w] \ {Bit(job[w])} /\ leaked' = leaked \ {Bit(job[w])}
      /\ (~lost' => ~lost /\ creg[w] = flags)
      /\ UNCHANGED <<overtaken, ctl, cur, job>>
  BY DEF ChildStore, ctlVars
<1>2. cpc[w] = "store" /\ job[w] \in Jobs
  BY DEF ChildStore, Step, TypeOK, ChildType, Jobs
<1>3. /\ Recorder(w) <=> job[w] = "record"
      /\ Player(w) <=> job[w] \in {"play", "ring"}
  BY <1>2 DEF Recorder, Player
<1>4. cpc'[w] \in {"restore", "zombie", "report"}
  BY DEF ChildStore, Step, TypeOK, ChildType
<1>5. ~Recorder(w)' /\ ~Player(w)'
  BY <1>4 DEF Recorder, Player
<1>6. \A v \in Workers \ {w} : /\ Recorder(v)' <=> Recorder(v)
                               /\ Player(v)' <=> Player(v)
  BY <1>1 DEF ChildStore, Step, Recorder, Player, TypeOK, ChildType
<1>a. \A v \in Workers : /\ Recorder(v)' <=> Recorder(v) /\ v # w
                         /\ Player(v)' <=> Player(v) /\ v # w
  BY <1>5, <1>6
<1>b. CASE job[w] = "record"
  <2>1. Recorder(w) /\ Bit(job[w]) = "REC"
    BY <1>3, <1>b DEF Bit
  <2>2. \A v \in Workers : Player(v)' <=> Player(v)
    BY <1>3, <1>a, <1>b
  <2>3. RecInv'
    <3>1. ~lost' => \A v \in Workers : ~Recorder(v)'
      BY <1>1, <1>a, <2>1 DEF RecInv, RecorderExclusion
    <3>2. ~lost' /\ cur.op = "record" => ctl # "fork"
      BY <1>1, <2>1 DEF RecInv
    <3> QED BY <1>1, <3>1, <3>2 DEF RecInv, RecorderExclusion
  <2>4. PlayInv'
    BY <1>1, <2>1, <2>2 DEF PlayInv, PlaybackExclusion
  <2>5. NoOrphanFlag'
    BY <1>1, <2>1, <2>2 DEF NoOrphanFlag
  <2> QED BY <2>3, <2>4, <2>5
<1>c. CASE job[w] \in {"play", "ring"}
  <2>1. Player(w) /\ Bit(job[w]) = "PLAY"
    BY <1>3, <1>c DEF Bit
  <2>2. \A v \in Workers : Recorder(v)' <=> Recorder(v)
    BY <1>3, <1>a, <1>c
  <2>3. RecInv'
    BY <1>1, <2>1, <2>2 DEF RecInv, RecorderExclusion
  <2>4. PlayInv'
    <3>1. ~lost' /\ ~overtaken' => \A v \in Workers : ~Player(v)'
      BY <1>1, <1>a, <2>1 DEF PlayInv, PlaybackExclusion
    <3>2. ~lost' /\ ~overtaken' /\ cur.op \in Starters \ {"record"} => ctl # "fork"
      BY <1>1, <2>1 DEF PlayInv
    <3> QED BY <1>1, <3>1, <3>2 DEF PlayInv, PlaybackExclusion
  <2>5. NoOrphanFlag'
    BY <1>1, <2>1, <2>2 DEF NoOrphanFlag
  <2> QED BY <2>3, <2>4, <2>5
<1> QED BY <1>2, <1>b, <1>c DEF Jobs

\* The invariant of the shared byte is preserved by every step.
LEMMA ByteStep ==
    ASSUME TypeOK, RecInv, PlayInv, NoOrphanFlag, [Next]_vars
    PROVE  RecInv' /\ PlayInv' /\ NoOrphanFlag'
<1> DEFINE Goal == RecInv' /\ PlayInv' /\ NoOrphanFlag'
           Idle == \A v \in Workers : /\ Recorder(v)' <=> Recorder(v)
                                      /\ Player(v)' <=> Player(v)
<1>0. UNCHANGED childVars => Idle
  BY DEF childVars, Recorder, Player
<1>1. ASSUME UNCHANGED vars PROVE Goal
  BY <1>0, <1>1, QuietStep DEF vars, ctlVars
<1>2. ASSUME (\E c \in Commands : MainSends(c)) \/ MainTakesReply PROVE Goal
  BY <1>0, <1>2, QuietStep DEF MainSends, MainTakesReply, ctlVars
<1>3. ASSUME \/ ReceiveGrammar \/ ReceiveSetVol \/ ReceiveGetVol \/ ReceiveUnknown
             \/ ReceiveSilent \/ ReceiveStop
      PROVE  Goal
  <2>1. /\ UNCHANGED <<byteVars, childVars>>
        /\ ctl = "wait" /\ ctl' \in {"wait", "stop", "reply"}
    BY <1>3 DEF ReceiveGrammar, ReceiveSetVol, ReceiveGetVol, ReceiveUnknown,
                ReceiveSilent, ReceiveStop, Receive, Answer
  <2> QED BY <1>0, <2>1, QuietStep
<1>4. ASSUME CtlSendStop \/ CtlLoad \/ CtlReply PROVE Goal
  <2>1. UNCHANGED <<byteVars, childVars, cur>>
    BY <1>4 DEF CtlSendStop, CtlLoad, CtlReply
  <2>2. \/ ctl = "stop" /\ ctl' = "load" /\ cur.op = "stop"
        \/ ctl = "load" /\ ctl' = "store"
        \/ ctl = "reply" /\ ctl' \in {"wait", "reply"}
    BY <1>4 DEF CtlSendStop, CtlLoad, CtlReply, TypeOK, CtlType
  <2> QED BY <1>0, <2>1, <2>2, QuietStep
<1>5. ASSUME NEW w \in Workers,
             \/ PlayerOpen(w) \/ PlayerPoll(w) \/ PlayerEof(w) \/ RecorderCapture(w)
             \/ RecorderAsr(w) \/ ChildLoad(w) \/ ChildReport(w) \/ RingRestore(w)
      PROVE  Goal
  BY <1>5, LiveFrame, QuietStep
<1>6. ASSUME \/ ReceiveStart \/ CtlStore \/ CtlForkFails \/ CtlBadRing
             \/ \E w \in Workers : CtlFork(w) \/ ChildStore(w)
      PROVE  Goal
  BY <1>6, StartStep, CtlStoreStep, LeakStep, ForkStep, ChildStoreStep
<1> QED BY <1>1, <1>2, <1>3, <1>4, <1>5, <1>6 DEF Next, Control, Child

\* Only a recorder writes /tmp/rec.wav, and while it records nobody else does.
LEMMA OwnRecordingStep ==
    ASSUME TypeOK, RecInv, OwnRecording, [Next]_vars
    PROVE  OwnRecording'
<1> SUFFICES ASSUME ~lost', NEW v \in Workers, cpc'[v] = "asr"
             PROVE  wav' \in {v, NoFile}
  BY DEF OwnRecording
<1>0. ~lost
  BY DEF Next, Control, Child, MainSends, MainTakesReply, ReceiveGrammar, ReceiveSetVol,
         ReceiveGetVol, ReceiveUnknown, ReceiveSilent, ReceiveStart, ReceiveStop, Answer,
         CtlSendStop, CtlLoad, CtlStore, CtlFork, CtlForkFails, CtlBadRing, CtlReply,
         PlayerOpen, PlayerPoll, PlayerEof, RecorderCapture, RecorderAsr, ChildLoad,
         ChildStore, ChildReport, RingRestore, byteVars, vars
<1>1. CASE \E w \in Workers : RecorderCapture(w)
  <2> PICK w \in Workers : RecorderCapture(w)
    BY <1>1
  <2>1. Recorder(w)
    BY DEF RecorderCapture, Step, Recorder, TypeOK, ChildType
  <2>2. CASE v # w
    <3>1. cpc[v] = "asr" /\ Recorder(v)
      BY <2>2 DEF RecorderCapture, Step, Recorder, TypeOK, ChildType
    <3> QED BY <1>0, <2>1, <2>2, <3>1 DEF RecInv, RecorderExclusion
  <2>3. CASE v = w
    BY <2>3 DEF RecorderCapture
  <2> QED BY <2>2, <2>3
<1>2. CASE ~\E w \in Workers : RecorderCapture(w)
  <2>1. wav' = wav
    BY <1>2 DEF Next, Control, Child, MainSends, MainTakesReply, ReceiveGrammar,
         ReceiveSetVol, ReceiveGetVol, ReceiveUnknown, ReceiveSilent, ReceiveStart,
         ReceiveStop, Answer, CtlSendStop, CtlLoad, CtlStore, CtlFork, CtlForkFails,
         CtlBadRing, CtlReply, PlayerOpen, PlayerPoll, PlayerEof, RecorderAsr, ChildLoad,
         ChildStore, ChildReport, RingRestore, vars
  <2>2. cpc[v] = "asr"
    <3>1. ASSUME NEW w \in Workers, CtlFork(w) PROVE cpc[v] = "asr"
      BY <3>1 DEF CtlFork, TypeOK, ChildType
    <3>2. ASSUME NEW w \in Workers, Child(w) \/ PlayerEof(w) PROVE cpc[v] = "asr"
      BY <1>2, <3>2 DEF Child, PlayerOpen, PlayerPoll, PlayerEof, RecorderAsr, ChildLoad,
         ChildStore, ChildReport, RingRestore, childVars, PlaybackReturns, Step,
         TypeOK, ChildType
    <3>3. CASE UNCHANGED childVars
      BY <3>3 DEF childVars
    <3> QED BY <3>1, <3>2, <3>3 DEF Next, Control, MainSends, MainTakesReply,
         ReceiveGrammar, ReceiveSetVol, ReceiveGetVol, ReceiveUnknown, ReceiveSilent,
         ReceiveStart, ReceiveStop, Answer, CtlSendStop, CtlLoad, CtlStore,
         CtlForkFails, CtlBadRing, CtlReply, vars
  <2> QED BY <1>0, <2>1, <2>2 DEF OwnRecording
<1> QED BY <1>1, <1>2

LEMMA AudioInit == Init => AudioInv
  BY DEF Init, AudioInv, RecInv, RecorderExclusion, PlayInv, PlaybackExclusion,
         OwnRecording, NoOrphanFlag, Recorder, Player

LEMMA AudioStep == TypeOK /\ AudioInv /\ [Next]_vars => AudioInv'
  BY ByteStep, OwnRecordingStep DEF AudioInv

\* The inductive invariant holds in every reachable state.
LEMMA AudioInvariant == Spec => []AudioInv
  BY AudioInit, AudioStep, TypeCorrect, PTL DEF Spec

\* At most one child records, holding REC, unless an update was lost.
THEOREM RecorderExclusionHolds == Spec => []RecorderExclusion
<1>1. AudioInv => RecorderExclusion
  BY DEF AudioInv, RecInv
<1> QED BY <1>1, AudioInvariant, PTL

\* A child uploads its own recording or none, unless an update was lost.
THEOREM OwnRecordingHolds == Spec => []OwnRecording
<1>1. AudioInv => OwnRecording
  BY DEF AudioInv
<1> QED BY <1>1, AudioInvariant, PTL

\* At most one child plays, holding PLAY, unless an update was lost or a stop
\* cleared PLAY under a player.
THEOREM PlaybackExclusionHolds == Spec => []PlaybackExclusion
<1>1. AudioInv => PlaybackExclusion
  BY DEF AudioInv, PlayInv
<1> QED BY <1>1, AudioInvariant, PTL

\* A bit that nobody will clear was leaked or is the result of a lost update.
THEOREM NoOrphanFlagHolds == Spec => []NoOrphanFlag
<1>1. AudioInv => NoOrphanFlag
  BY DEF AudioInv
<1> QED BY <1>1, AudioInvariant, PTL

-----------------------------------------------------------------------------
(* The volume *)

\* A step that sets no level, starts no ring and ends none.
LEMMA VolumeFrame ==
    ASSUME TypeOK, VolumeInv, UNCHANGED <<volStr, undone, job, saved>>,
           \A v \in Workers : Ringing(v)' <=> Ringing(v),
           mixer' = mixer \/ \E v \in Workers : Ringing(v),
           \A v \in Workers : /\ cpc'[v] = "report" => job[v] # "ring"
                              /\ cpc'[v] = "restore" => job[v] = "ring"
    PROVE  VolumeInv'
<1>1. RingRestoresVolume'
  <2>1. CASE \E v \in Workers : Ringing(v)
    BY <2>1 DEF RingRestoresVolume
  <2>2. CASE ~\E v \in Workers : Ringing(v)
    BY <2>2 DEF VolumeInv, RingRestoresVolume, Clamp
  <2> QED BY <2>1, <2>2
<1> QED BY <1>1 DEF VolumeInv

\* A child's step, but for the last one of a ring, neither ends nor starts a ring,
\* and only a ring moves the mixer.
LEMMA VolumeChild ==
    ASSUME TypeOK, VolumeInv, NEW w \in Workers,
           \/ PlayerOpen(w) \/ PlayerPoll(w) \/ PlayerEof(w) \/ RecorderCapture(w)
           \/ RecorderAsr(w) \/ ChildLoad(w) \/ ChildStore(w) \/ ChildReport(w)
    PROVE  VolumeInv'
<1>1. UNCHANGED <<volStr, undone, job, saved>>
  BY DEF PlayerOpen, PlayerPoll, PlayerEof, RecorderCapture, RecorderAsr, ChildLoad,
         ChildStore, ChildReport, PlaybackReturns, RingVolume, volVars, childVars
<1>2. \A v \in Workers \ {w} : cpc'[v] = cpc[v]
  BY DEF PlayerOpen, PlayerPoll, PlayerEof, RecorderCapture, RecorderAsr, ChildLoad,
         ChildStore, ChildReport, PlaybackReturns, Step, childVars, TypeOK, ChildType
<1>3. /\ cpc[w] # "zombie"
      /\ cpc'[w] = "report" => job[w] # "ring"
      /\ cpc'[w] = "restore" => job[w] = "ring"
      /\ cpc'[w] = "zombie" => job[w] # "ring"
  <2>1. CASE ChildStore(w)
    BY <2>1 DEF ChildStore, Step, TypeOK, ChildType
  <2>2. CASE ChildReport(w)
    BY <2>2 DEF ChildReport, Step, TypeOK, ChildType, VolumeInv
  <2>3. CASE PlayerOpen(w) \/ PlayerPoll(w) \/ PlayerEof(w) \/ RecorderCapture(w)
             \/ RecorderAsr(w) \/ ChildLoad(w)
    BY <2>3 DEF PlayerOpen, PlayerPoll, PlayerEof, RecorderCapture, RecorderAsr,
         ChildLoad, PlaybackReturns, Step, childVars, TypeOK, ChildType
  <2> QED BY <2>1, <2>2, <2>3
<1>4. \A v \in Workers : Ringing(v)' <=> Ringing(v)
  BY <1>1, <1>2, <1>3 DEF Ringing
<1>5. mixer' = mixer \/ Ringing(w)
  BY <1>3 DEF PlayerOpen, PlayerPoll, PlayerEof, RecorderCapture, RecorderAsr,
         ChildLoad, ChildStore, ChildReport, RingVolume, Ringing, volVars
<1>6. \A v \in Workers : /\ cpc'[v] = "report" => job[v] # "ring"
                         /\ cpc'[v] = "restore" => job[v] = "ring"
  BY <1>2, <1>3 DEF VolumeInv
<1> QED BY <1>1, <1>4, <1>5, <1>6, VolumeFrame

\* A new ring has copied the level set last, unless that came from the web.
LEMMA VolumeFork ==
    ASSUME TypeOK, VolumeInv, NEW w \in Workers, CtlFork(w)
    PROVE  VolumeInv'
<1>1. /\ UNCHANGED <<mixer, volStr>>
      /\ undone' = (undone \/ (cur.op = "ring" /\ volStr # vol))
      /\ job'[w] = cur.op /\ saved'[w] = vol
      /\ cpc'[w] \in {"start", "load", "open"}
      /\ ~Ringing(w)
  BY DEF CtlFork, Ringing, TypeOK, ChildType
<1>2. \A v \in Workers \ {w} : job'[v] = job[v] /\ saved'[v] = saved[v] /\ cpc'[v] = cpc[v]
  BY DEF CtlFork, TypeOK, ChildType
<1>3. \A v \in Workers : Ringing(v)' <=> Ringing(v) \/ (v = w /\ cur.op = "ring")
  BY <1>1, <1>2 DEF Ringing
<1>4. RingRestoresVolume'
  <2>1. CASE cur.op = "ring"
    BY <1>3, <2>1 DEF RingRestoresVolume
  <2>2. CASE cur.op # "ring"
    <3>1. undone' <=> undone
      BY <1>1, <2>2
    <3>2. \A v \in Workers : Ringing(v)' <=> Ringing(v)
      BY <1>3, <2>2
    <3> QED BY <1>1, <3>1, <3>2 DEF VolumeInv, RingRestoresVolume, Clamp
  <2> QED BY <2>1, <2>2
<1>5. \A v \in Workers : /\ cpc'[v] = "report" => job'[v] # "ring"
                         /\ cpc'[v] = "restore" => job'[v] = "ring"
  BY <1>1, <1>2 DEF VolumeInv
<1>6. ASSUME volStr' # NoVol, ~undone', NEW v \in Workers, Ringing(v)'
      PROVE  saved'[v] = volStr'
  <2>1. CASE v = w
    BY <1>1, <1>3, <1>6, <2>1
  <2>2. CASE v # w
    BY <1>1, <1>2, <1>3, <1>6, <2>2 DEF VolumeInv
  <2> QED BY <2>1, <2>2
<1> QED BY <1>4, <1>5, <1>6 DEF VolumeInv

\* The last step of a ring puts back what it copied.
LEMMA VolumeRestore ==
    ASSUME TypeOK, VolumeInv, NEW w \in Workers, RingRestore(w)
    PROVE  VolumeInv'
<1>1. /\ UNCHANGED <<volStr, undone, job, saved>>
      /\ mixer' = Clamp(saved[w])
      /\ cpc[w] = "restore" /\ cpc'[w] = "zombie"
      /\ \A v \in Workers \ {w} : cpc'[v] = cpc[v]
  BY DEF RingRestore, Step, TypeOK, ChildType
<1>2. Ringing(w)
  BY <1>1 DEF VolumeInv, Ringing
<1>3. \A v \in Workers : Ringing(v)' => Ringing(v)
  BY <1>1 DEF Ringing
<1>4. mixer' # Ramp
  BY <1>1, ClampRange DEF TypeOK, ChildType, Ramp
<1>5. volStr' # NoVol /\ ~undone' => mixer' = Clamp(volStr')
  <2>1. volStr # NoVol /\ ~undone => saved[w] = volStr
    BY <1>2 DEF VolumeInv
  <2> QED BY <1>1, <2>1 DEF Clamp
<1>6. RingRestoresVolume'
  BY <1>4, <1>5 DEF RingRestoresVolume, Clamp
<1>7. \A v \in Workers : /\ cpc'[v] = "report" => job'[v] # "ring"
                         /\ cpc'[v] = "restore" => job'[v] = "ring"
  BY <1>1 DEF VolumeInv
<1> QED BY <1>1, <1>3, <1>6, <1>7 DEF VolumeInv

\* A level set while nobody rings stands; one set under a ring is on record.
LEMMA VolumeSet == ASSUME TypeOK, VolumeInv, ReceiveSetVol PROVE VolumeInv'
<1>1. /\ mixer' = Clamp(volStr') /\ UNCHANGED <<cpc, job, saved>>
      /\ undone' <=> \E v \in Workers : Ringing(v)
      /\ volStr' \in Nat
  BY ReceiveType DEF ReceiveSetVol, Answer, childVars
<1>2. \A v \in Workers : Ringing(v)' <=> Ringing(v)
  BY <1>1 DEF Ringing
<1>3. mixer' # Ramp
  BY <1>1, ClampRange DEF Ramp
<1>4. RingRestoresVolume'
  BY <1>1, <1>3 DEF RingRestoresVolume, Clamp
<1> QED BY <1>1, <1>2, <1>4 DEF VolumeInv

LEMMA VolumeStep == TypeOK /\ VolumeInv /\ [Next]_vars => VolumeInv'
<1> SUFFICES ASSUME TypeOK, VolumeInv, [Next]_vars PROVE VolumeInv'
  OBVIOUS
<1>1. CASE ReceiveSetVol
  BY <1>1, VolumeSet
<1>2. CASE \E w \in Workers : CtlFork(w)
  BY <1>2, VolumeFork
<1>3. CASE \E w \in Workers : RingRestore(w)
  BY <1>3, VolumeRestore
<1>4. CASE \E w \in Workers :
              \/ PlayerOpen(w) \/ PlayerPoll(w) \/ PlayerEof(w) \/ RecorderCapture(w)
              \/ RecorderAsr(w) \/ ChildLoad(w) \/ ChildStore(w) \/ ChildReport(w)
  BY <1>4, VolumeChild
<1>5. ASSUME \/ UNCHANGED vars \/ (\E c \in Commands : MainSends(c)) \/ MainTakesReply
             \/ ReceiveGrammar \/ ReceiveGetVol \/ ReceiveUnknown \/ ReceiveSilent
             \/ ReceiveStart \/ ReceiveStop \/ CtlSendStop \/ CtlLoad \/ CtlStore
             \/ CtlForkFails \/ CtlBadRing \/ CtlReply
      PROVE  VolumeInv'
  <2>1. UNCHANGED <<volStr, undone, mixer, cpc, job, saved>>
    BY <1>5 DEF MainSends, MainTakesReply, ReceiveGrammar, ReceiveGetVol,
         ReceiveUnknown, ReceiveSilent, ReceiveStart, ReceiveStop, Answer,
         CtlSendStop, CtlLoad, CtlStore, CtlForkFails, CtlBadRing, CtlReply,
         vars, volVars, childVars
  <2>2. \A v \in Workers : Ringing(v)' <=> Ringing(v)
    BY <2>1 DEF Ringing
  <2> QED BY <2>1, <2>2, VolumeFrame DEF VolumeInv
<1> QED BY <1>1, <1>2, <1>3, <1>4, <1>5 DEF Next, Control, Child

\* No ring leaves its own level behind, and what was set last stands again when
\* the last ring has ended, unless it was set under a ring or over the web.
THEOREM RingRestoresVolumeHolds == Spec => []RingRestoresVolume
<1>1. Init => VolumeInv
  BY DEF Init, VolumeInv, RingRestoresVolume, Ringing, NoVol, Ramp
<1>2. VolumeInv => RingRestoresVolume
  BY DEF VolumeInv
<1> QED BY <1>1, <1>2, VolumeStep, TypeCorrect, PTL DEF Spec
=============================================================================
