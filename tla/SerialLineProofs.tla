-------------------------- MODULE SerialLineProofs --------------------------
(***************************************************************************)
(* Proofs about SerialLine: the child finds every frame of the line and    *)
(* nothing else, and every frame it found is accounted for, for any bytes, *)
(* any size of its buffer, and any number of failing reads, commands and   *)
(* removals of the queue.                                                  *)
(***************************************************************************)
EXTENDS SerialLine, TLAPS

-----------------------------------------------------------------------------
(* Types *)

LEMMA Appended ==
    ASSUME NEW S, NEW s \in Seq(S), NEW x \in S
    PROVE  /\ Append(s, x) \in Seq(S) /\ Append(s, x) # <<>>
           /\ Len(s) \in Nat /\ Len(Append(s, x)) = Len(s) + 1
           /\ DOMAIN s = 1 .. Len(s) /\ DOMAIN Append(s, x) = 1 .. Len(s) + 1
           /\ \A i \in 1 .. Len(s) : Append(s, x)[i] = s[i] /\ s[i] \in S
           /\ Append(s, x)[Len(s) + 1] = x
OBVIOUS

LEMMA Dropped ==
    ASSUME NEW S, NEW s \in Seq(S), s # <<>>
    PROVE  /\ Head(s) \in S /\ Head(s) = s[1]
           /\ Tail(s) \in Seq(S) /\ Len(s) \in Nat \ {0}
           /\ DOMAIN s = 1 .. Len(s) /\ DOMAIN Tail(s) = 1 .. Len(s) - 1
           /\ \A i \in 1 .. Len(s) - 1 : Tail(s)[i] = s[i + 1]
OBVIOUS

LEMMA Members ==
    ASSUME NEW S, NEW s \in Seq(S)
    PROVE  /\ Len(s) \in Nat /\ DOMAIN s = 1 .. Len(s)
           /\ \A k \in DOMAIN s : s[k] \in S
OBVIOUS

LEMMA ElementsAppended ==
    ASSUME NEW S, NEW s \in Seq(S), NEW x \in S
    PROVE  Elements(Append(s, x)) = Elements(s) \cup {x}
BY Appended DEF Elements

LEMMA ElementsDropped ==
    ASSUME NEW S, NEW s \in Seq(S), s # <<>>
    PROVE  Elements(s) = Elements(Tail(s)) \cup {Head(s)}
<1>1. ASSUME NEW i \in DOMAIN s
      PROVE  s[i] \in Elements(Tail(s)) \cup {Head(s)}
  <2>1. CASE i = 1
    BY <2>1, Dropped
  <2>2. CASE i # 1
    <3>1. i - 1 \in DOMAIN Tail(s) /\ Tail(s)[i - 1] = s[i]
      BY <2>2, <1>1, Dropped
    <3> QED
      BY <3>1 DEF Elements
  <2> QED
    BY <2>1, <2>2
<1>2. Elements(Tail(s)) \cup {Head(s)} \subseteq Elements(s)
  BY Dropped DEF Elements
<1> QED
  BY <1>1, <1>2 DEF Elements

\* Take keeps the types of what it sets.
LEMMA TakeTyped ==
    ASSUME TypeOK, NEW b \in [c : Bytes \cup {"unset"}, at : Nat], cpc = "read", Take(b)
    PROVE  /\ ch' \in [c : Bytes \cup {"unset"}, at : Nat]
           /\ buf' \in Seq(Nat) /\ frames' \in Seq(Seq(Nat))
           /\ cpc' \in {"read", "send", "overrun"}
<1>1. ch' = b /\ b.at \in Nat
  BY DEF Take
<1>2. CASE buf = <<>> /\ buf' = (IF b.c = "*" THEN <<b.at>> ELSE <<>>) /\ UNCHANGED <<cpc, frames>>
  BY <1>1, <1>2 DEF TypeOK
<1>3. CASE /\ buf' = Append(buf, b.at)
           /\ cpc' = IF b.c = "#" THEN "send" ELSE "read"
           /\ frames' = IF b.c = "#" THEN Append(frames, buf') ELSE frames
  <2>1. buf' \in Seq(Nat)
    BY <1>1, <1>3, Appended DEF TypeOK
  <2>2. Append(frames, buf') \in Seq(Seq(Nat))
    BY <2>1, Appended DEF TypeOK
  <2> QED
    BY <1>1, <1>3, <2>1, <2>2 DEF TypeOK
<1>4. CASE cpc' = "overrun" /\ UNCHANGED <<buf, frames>>
  BY <1>1, <1>4 DEF TypeOK
<1> QED
  BY <1>2, <1>3, <1>4 DEF Take

LEMMA TypeInit == Init => TypeOK
<1>1. Unset \in [c : Bytes \cup {"unset"}, at : Nat]
  BY DEF Unset
<1>2. /\ <<>> \in Seq(Bytes) /\ <<>> \in Seq(Nat) /\ <<>> \in Seq(Seq(Nat))
      /\ <<>> \in Seq([n : Nat, mine : BOOLEAN])
  OBVIOUS
<1>3. 1 \in Identifier /\ {} \subseteq Nat /\ 0 \in Nat
  BY DEF Identifier
<1> QED
  BY <1>1, <1>2, <1>3 DEF Init, TypeOK

LEMMA TypeNext == TypeOK /\ [Next]_vars => TypeOK'
<1> SUFFICES ASSUME TypeOK, [Next]_vars
             PROVE  TypeOK'
  OBVIOUS
<1> USE DEF Identifier
<1>1. ASSUME NEW c \in Bytes, ReadByte(c)
      PROVE  TypeOK'
  <2>1. raw' \in Seq(Bytes) /\ Len(raw) + 1 \in Nat
    BY <1>1, Appended DEF ReadByte, TypeOK
  <2>2. [c |-> c, at |-> Len(raw) + 1] \in [c : Bytes \cup {"unset"}, at : Nat]
    BY <2>1
  <2> QED
    BY <1>1, <2>1, <2>2, TakeTyped DEF ReadByte, TypeOK, queueVars, fates
<1>2. CASE ReadError
  <2>1. PICK b \in IF ch = Unset THEN [c : Bytes, at : {0}] ELSE {ch} : Take(b)
    BY <1>2 DEF ReadError
  <2>2. b \in [c : Bytes \cup {"unset"}, at : Nat]
    BY <2>1 DEF TypeOK
  <2>3. /\ ch' \in [c : Bytes \cup {"unset"}, at : Nat]
        /\ buf' \in Seq(Nat) /\ frames' \in Seq(Seq(Nat))
        /\ cpc' \in {"read", "send", "overrun"}
    BY <1>2, <2>1, <2>2, TakeTyped DEF ReadError
  <2>4. errors' \in Nat
    BY <1>2 DEF ReadError, TypeOK
  <2> QED
    BY <1>2, <2>3, <2>4 DEF ReadError, TypeOK, queueVars, fates
<1>3. CASE SendFrame
  <2>1. Len(frames) \in Nat /\ Append(up, Len(frames)) \in Seq(Nat)
    BY Appended DEF TypeOK
  <2>2. Unset \in [c : Bytes \cup {"unset"}, at : Nat]
    BY DEF Unset
  <2>3. up' \in Seq(Nat) /\ lost' \subseteq Nat /\ deaf' \subseteq Nat
    BY <1>3, <2>1 DEF SendFrame, TypeOK
  <2>4. ch' \in [c : Bytes \cup {"unset"}, at : Nat] /\ cpc' = "read" /\ buf' \in Seq(Nat)
    BY <1>3, <2>2 DEF SendFrame
  <2> QED
    BY <1>3, <2>3, <2>4 DEF SendFrame, TypeOK
<1>4. CASE ParentWrites
  <2>1. Tail(down) \in Seq([n : Nat, mine : BOOLEAN]) /\ Head(down).n \in Nat
    <3>1. Head(down) \in [n : Nat, mine : BOOLEAN]
      BY <1>4, Dropped DEF ParentWrites, TypeOK
    <3> QED
      BY <1>4, <3>1, Dropped DEF ParentWrites, TypeOK
  <2> QED
    BY <1>4, <2>1 DEF ParentWrites, TypeOK, lineVars
<1>5. CASE ParentRejoins
  BY <1>5 DEF ParentRejoins, GetQueue, TypeOK, lineVars, fates
<1>6. ASSUME NEW mine \in BOOLEAN, ToolSends(mine)
      PROVE  TypeOK'
  <2>1. Append(down, [n |-> cmds + 1, mine |-> mine]) \in Seq([n : Nat, mine : BOOLEAN])
    BY Appended DEF TypeOK
  <2> QED
    BY <1>6, <2>1 DEF ToolSends, TypeOK, lineVars
<1>7. CASE ToolReceives
  <2>1. Tail(up) \in Seq(Nat) /\ Head(up) \in Nat
    BY <1>7, Dropped DEF ToolReceives, TypeOK
  <2> QED
    BY <1>7, <2>1 DEF ToolReceives, TypeOK, lineVars
<1>8. CASE ToolRemoves
  <2>1. Elements(up) \subseteq Nat /\ {m.n : m \in Elements(down)} \subseteq Nat
    <3>1. \A k \in DOMAIN up : up[k] \in Nat
      BY DEF TypeOK
    <3>2. \A k \in DOMAIN down : down[k].n \in Nat
      <4>1. \A k \in DOMAIN down : down[k] \in [n : Nat, mine : BOOLEAN]
        BY Members DEF TypeOK
      <4> QED
        BY <4>1
    <3> QED
      BY <3>1, <3>2 DEF Elements
  <2>2. up' \in Seq(Nat) /\ down' \in Seq([n : Nat, mine : BOOLEAN])
    BY <1>8 DEF ToolRemoves
  <2>3. lost' \subseteq Nat /\ gone' \subseteq Nat
    BY <1>8, <2>1 DEF ToolRemoves, TypeOK
  <2> QED
    BY <1>8, <2>2, <2>3 DEF ToolRemoves, TypeOK, lineVars
<1>9. CASE OthersGet
  BY <1>9 DEF OthersGet, GetQueue, TypeOK, lineVars, fates
<1>10. CASE UNCHANGED vars
  BY <1>10 DEF vars, TypeOK, lineVars, queueVars, fates
<1> QED
  BY <1>1, <1>2, <1>3, <1>4, <1>5, <1>6, <1>7, <1>8, <1>9, <1>10 DEF Next

\* Every variable keeps its type.
THEOREM TypeCorrect == Spec => []TypeOK
BY TypeInit, TypeNext, PTL DEF Spec

-----------------------------------------------------------------------------
(* Every frame is accounted for *)

\* Until a queue is removed there is only the one of the fork, and both
\* processes know it.
AtFork == ~removed => live /\ childId = made /\ parentId = made

\* A message is being sent only of a frame that was read.
AccountInv ==
    /\ TypeOK /\ FramesAccounted /\ AtFork
    /\ cpc = "send" => frames # <<>>

LEMMA AccountInit == Init => AccountInv
<1> SUFFICES ASSUME Init
             PROVE  AccountInv
  OBVIOUS
<1>1. TypeOK
  BY TypeInit
<1>2. Len(frames) = 0 /\ Elements(up) = {}
  BY DEF Init, Elements
<1> QED
  BY <1>1, <1>2 DEF Init, AccountInv, FramesAccounted, Passed, AtFork

\* What Take does to the frames: none is added, or one that is to be sent.
LEMMA TakeFrames ==
    ASSUME TypeOK, cpc = "read", NEW b, b.at \in Nat, Take(b)
    PROVE  \/ cpc' # "send" /\ frames' = frames
           \/ cpc' = "send" /\ frames' = Append(frames, Append(buf, b.at)) /\ b.c = "#"
              /\ buf # <<>> /\ buf' = Append(buf, b.at)
BY DEF Take

LEMMA AccountTake ==
    ASSUME AccountInv, TypeOK', cpc = "read", NEW b, b.at \in Nat, Take(b),
           UNCHANGED <<queueVars, childId, parentId, fates>>
    PROVE  AccountInv'
<1>1. Len(frames) \in Nat /\ Passed = 1 .. Len(frames)
  BY DEF AccountInv, TypeOK, Passed
<1>2. Passed' = Passed /\ (cpc' = "send" => frames' # <<>>)
  <2>1. CASE cpc' # "send" /\ frames' = frames
    BY <1>1, <2>1 DEF Passed
  <2>2. CASE cpc' = "send" /\ frames' = Append(frames, Append(buf, b.at))
    <3>1. Append(buf, b.at) \in Seq(Nat)
      BY Appended DEF AccountInv, TypeOK
    <3>2. Len(frames') = Len(frames) + 1 /\ frames' # <<>>
      BY <2>2, <3>1, Appended, SMTT(60) DEF AccountInv, TypeOK
    <3> QED
      BY <1>1, <2>2, <3>2 DEF Passed
  <2> QED
    BY <2>1, <2>2, TakeFrames DEF AccountInv
<1> QED
  BY <1>2 DEF AccountInv, FramesAccounted, AtFork, queueVars, fates, Elements

LEMMA AccountNext == AccountInv /\ [Next]_vars => AccountInv'
<1> SUFFICES ASSUME AccountInv, [Next]_vars
             PROVE  AccountInv'
  OBVIOUS
<1>0. TypeOK'
  BY TypeNext DEF AccountInv
<1>00. Len(frames) \in Nat /\ Len(up) \in Nat /\ DOMAIN up = 1 .. Len(up)
       /\ \A k \in DOMAIN up : up[k] \in Nat
  BY Members DEF AccountInv, TypeOK
<1>1. ASSUME NEW c \in Bytes, ReadByte(c)
      PROVE  AccountInv'
  <2>1. Len(raw) + 1 \in Nat
    BY Members DEF AccountInv, TypeOK
  <2> QED
    BY <1>0, <1>1, <2>1, AccountTake DEF ReadByte
<1>2. CASE ReadError
  <2>1. PICK b \in IF ch = Unset THEN [c : Bytes, at : {0}] ELSE {ch} : Take(b)
    BY <1>2 DEF ReadError
  <2>2. b.at \in Nat
    BY <2>1 DEF AccountInv, TypeOK
  <2> QED
    BY <1>0, <1>2, <2>1, <2>2, AccountTake DEF ReadError
<1>3. CASE SendFrame
  <2> DEFINE n == Len(frames)
  <2>1. n > 0 /\ Passed = 1 .. n - 1 /\ Passed' = 1 .. n
    <3>1. n > 0
      BY <1>3, Members DEF AccountInv, TypeOK, SendFrame
    <3> QED
      BY <1>00, <1>3, <3>1 DEF Passed, SendFrame
  <2>2. n \notin taken \cup lost \cup Elements(up)
        /\ \A j \in taken \cup lost \cup Elements(up) : j < n
    BY <1>00, <2>1 DEF AccountInv, FramesAccounted
  <2>3. CASE live /\ childId = made /\ Room
    <3>1. up' = Append(up, n) /\ UNCHANGED <<taken, lost, deaf, removed>>
      BY <1>3, <2>3 DEF SendFrame
    <3>2. Elements(up)' = Elements(up) \cup {n}
      <4>1. Elements(up)' = Elements(Append(up, n))
        BY <3>1 DEF Elements
      <4>2. up \in Seq(Nat) /\ n \in Nat
        BY <1>00 DEF AccountInv, TypeOK
      <4> QED
        BY <4>1, <4>2, ElementsAppended
    <3>3. \A j, k \in DOMAIN up' : j < k => up'[j] < up'[k]
      <4> SUFFICES ASSUME NEW j \in DOMAIN up', NEW k \in DOMAIN up', j < k
                   PROVE  up'[j] < up'[k]
        OBVIOUS
      <4>1. j \in 1 .. Len(up) /\ up'[j] = up[j] /\ k \in 1 .. Len(up) + 1
        BY <3>1, <1>00, Appended DEF AccountInv, TypeOK
      <4>2. CASE k = Len(up) + 1
        <5>1. up'[k] = n /\ up[j] \in Elements(up)
          BY <3>1, <1>00, <4>1, <4>2, Appended DEF AccountInv, TypeOK, Elements
        <5> QED
          BY <5>1, <4>1, <2>2
      <4>3. CASE k \in 1 .. Len(up)
        <5>1. up'[k] = up[k]
          BY <3>1, <1>00, <4>3, Appended DEF AccountInv, TypeOK
        <5> QED
          BY <5>1, <4>1, <4>3, <1>00 DEF AccountInv, FramesAccounted
      <4> QED
        BY <4>1, <4>2, <4>3, <1>00
    <3>4. taken' \cup lost' \cup Elements(up)' = Passed'
      BY <3>1, <3>2, <2>1, <1>00 DEF AccountInv, FramesAccounted
    <3>5. lost' \cap (taken' \cup Elements(up)') = {}
      BY <3>1, <3>2, <2>2 DEF AccountInv, FramesAccounted
    <3>6. \A j \in taken', k \in Elements(up)' : j < k
      BY <3>1, <3>2, <2>2 DEF AccountInv, FramesAccounted
    <3> QED
      BY <1>0, <1>3, <3>1, <3>3, <3>4, <3>5, <3>6 DEF AccountInv, FramesAccounted, AtFork, SendFrame
  <2>4. CASE ~(live /\ childId = made /\ Room)
    <3>1. lost' = lost \cup {n} /\ UNCHANGED <<up, taken, removed>>
          /\ (deaf' = deaf \/ (live /\ Room))
      BY <1>3, <2>4 DEF SendFrame
    <3>2. Elements(up)' = Elements(up)
      BY <3>1 DEF Elements
    <3>3. taken' \cup lost' \cup Elements(up)' = Passed'
      BY <3>1, <3>2, <2>1, <1>00 DEF AccountInv, FramesAccounted
    <3>4. lost' \cap (taken' \cup Elements(up)') = {}
      BY <3>1, <3>2, <2>2 DEF AccountInv, FramesAccounted
    <3>5. deaf' # {} => removed'
      BY <3>1, <2>4 DEF AccountInv, FramesAccounted, AtFork
    <3> QED
      BY <1>0, <1>3, <3>1, <3>2, <3>3, <3>4, <3>5 DEF AccountInv, FramesAccounted, AtFork, SendFrame
  <2> QED
    BY <2>3, <2>4
<1>4. CASE ToolReceives
  <2>1. up # <<>> /\ up' = Tail(up) /\ taken' = taken \cup {Head(up)}
        /\ UNCHANGED <<lineVars, lost, deaf, removed, live, made, childId, parentId>>
    BY <1>4 DEF ToolReceives
  <2>2. Elements(up) = Elements(up)' \cup {Head(up)} /\ Passed' = Passed
    BY <2>1, ElementsDropped DEF AccountInv, TypeOK, Passed, lineVars, Elements
  <2>3. \A k \in DOMAIN up' : k \in 1 .. Len(up) - 1 /\ up'[k] = up[k + 1] /\ k + 1 \in DOMAIN up
    BY <2>1, <1>00, Dropped, SMTT(60) DEF AccountInv, TypeOK
  <2>4. \A k \in DOMAIN up' : Head(up) < up'[k]
    <3>1. Head(up) = up[1] /\ 1 \in DOMAIN up
      BY <2>1, <1>00, Dropped DEF AccountInv, TypeOK
    <3> QED
      BY <2>3, <3>1, <1>00 DEF AccountInv, FramesAccounted
  <2>5. \A j, k \in DOMAIN up' : j < k => up'[j] < up'[k]
    BY <2>3, <1>00 DEF AccountInv, FramesAccounted
  <2>6. \A j \in taken', k \in Elements(up)' : j < k
    <3>1. \A k \in Elements(up)' : Head(up) < k
      BY <2>4 DEF Elements
    <3> QED
      BY <2>1, <2>2, <3>1 DEF AccountInv, FramesAccounted
  <2> QED
    BY <1>0, <2>1, <2>2, <2>5, <2>6 DEF AccountInv, FramesAccounted, AtFork, lineVars
<1>5. CASE ToolRemoves
  <2>1. /\ up' = <<>> /\ lost' = lost \cup Elements(up) /\ removed' = TRUE
        /\ UNCHANGED <<lineVars, taken, deaf>>
    BY <1>5 DEF ToolRemoves
  <2>2. Elements(up)' = {} /\ Passed' = Passed
    BY <2>1 DEF Elements, Passed, lineVars
  <2>3. \A j \in taken, k \in Elements(up) : j # k
    <3>1. Elements(up) \subseteq Nat /\ taken \subseteq Nat
      BY <1>00 DEF AccountInv, TypeOK, Elements
    <3>2. \A j \in taken, k \in Elements(up) : j < k
      BY DEF AccountInv, FramesAccounted
    <3> QED
      BY <3>1, <3>2
  <2>4. lost' \cap (taken' \cup Elements(up)') = {}
    BY <2>1, <2>2, <2>3 DEF AccountInv, FramesAccounted
  <2>5. taken' \cup lost' \cup Elements(up)' = Passed'
    BY <2>1, <2>2 DEF AccountInv, FramesAccounted
  <2> QED
    BY <1>0, <2>1, <2>2, <2>4, <2>5 DEF AccountInv, FramesAccounted, AtFork, lineVars
<1>6. ASSUME \/ ParentWrites \/ \E mine \in BOOLEAN : ToolSends(mine) \/ UNCHANGED vars
      PROVE  AccountInv'
  <2>1. UNCHANGED <<cpc, frames, up, taken, lost, deaf, removed, live, made, childId, parentId>>
    BY <1>6 DEF ParentWrites, ToolSends, vars, lineVars, queueVars, fates
  <2> QED
    BY <1>0, <2>1 DEF AccountInv, FramesAccounted, AtFork, Passed, Elements
<1>7. CASE ParentRejoins \/ OthersGet
  <2>1. UNCHANGED <<cpc, frames, up, taken, lost, deaf, removed>>
    BY <1>7 DEF ParentRejoins, OthersGet, GetQueue, lineVars, fates
  <2>2. AtFork'
    BY <1>7 DEF AccountInv, AtFork, ParentRejoins, OthersGet, fates
  <2> QED
    BY <1>0, <2>1, <2>2 DEF AccountInv, FramesAccounted, Passed, Elements
<1> QED
  BY <1>1, <1>2, <1>3, <1>4, <1>5, <1>6, <1>7 DEF Next

\* Every frame is in the queue, received or lost, in the order of the line;
\* none is refused despite room unless the queue of the fork was removed.
THEOREM FramesAccountedHolds == Spec => []FramesAccounted
<1>1. AccountInv => FramesAccounted
  BY DEF AccountInv
<1> QED
  BY AccountInit, AccountNext, <1>1, PTL DEF Spec

-----------------------------------------------------------------------------
(* The frames are those of the line *)

\* After the first s bytes no frame is open.
Outside(s) == \A m \in 1 .. s : raw[m] = "*" => \E e \in m .. s : raw[e] = "#"

\* rcv_buf holds all that came since a place s where no frame was open.
InFrame(s) ==
    /\ s \in 0 .. Len(raw) /\ Outside(s)
    /\ \A m \in s + 1 .. Len(raw) : raw[m] # "#"
    /\ s + 1 .. Len(raw) \subseteq Elements(buf)
    /\ buf[1] # 0 => buf[1] = s + 1 /\ s < Len(raw) /\ raw[s + 1] = "*"

\* The bytes of f are on the line.
OnLine(f) == Elements(f) \subseteq 0 .. Len(raw)

\* What makes f one of the frames.
GoodFrame(f) ==
    f # <<>> /\ OnLine(f) /\ Follows(f) /\ (f[1] = 0 \/ IsFrame(f[1], f[Len(f)]))

LineInv ==
    /\ TypeOK /\ FramesArrive
    /\ \A f \in Elements(frames) : GoodFrame(f)
    /\ OnLine(buf) /\ Follows(buf)
    /\ cpc = "read" /\ buf = <<>> => Outside(Len(raw)) /\ ch.c # "*"
    /\ cpc = "read" /\ buf # <<>> =>
          /\ \E s \in 0 .. Len(raw) : InFrame(s)
          /\ buf[Len(buf)] \in {0, Len(raw)}
          /\ ch.at = buf[Len(buf)] /\ ch.c \in Bytes \ {"#"}
    /\ cpc = "send" => raw # <<>> /\ raw[Len(raw)] = "#"

LEMMA LineInit == Init => LineInv
<1> SUFFICES ASSUME Init
             PROVE  LineInv
  OBVIOUS
<1>1. TypeOK
  BY TypeInit
<1>2. Elements(buf) = {} /\ Elements(frames) = {} /\ DOMAIN frames = {} /\ DOMAIN raw = {} /\ Len(raw) = 0 /\ Len(buf) = 0
  BY DEF Init, Elements
<1>3. cpc = "read" /\ buf = <<>> /\ ch.c = "unset"
  BY DEF Init, Unset
<1>4. Outside(Len(raw)) /\ Follows(buf) /\ OnLine(buf)
  BY <1>2 DEF Outside, Follows, OnLine
<1>5. FramesArrive
  BY <1>2 DEF FramesArrive
<1> QED
  BY <1>1, <1>2, <1>3, <1>4, <1>5 DEF LineInv

\* A byte more leaves what is known of the bytes before.
LEMMA Longer ==
    ASSUME TypeOK, NEW c \in Bytes, raw' = Append(raw, c)
    PROVE  /\ Len(raw) \in Nat /\ Len(raw') = Len(raw) + 1
           /\ DOMAIN raw = 1 .. Len(raw) /\ DOMAIN raw' = 1 .. Len(raw) + 1
           /\ \A m \in 1 .. Len(raw) : raw'[m] = raw[m]
           /\ raw'[Len(raw) + 1] = c
           /\ \A i \in 1 .. Len(raw), j \in 1 .. Len(raw) : IsFrame(i, j)' <=> IsFrame(i, j)
           /\ \A s \in 0 .. Len(raw) : Outside(s)' <=> Outside(s)
<1>1. /\ Len(raw) \in Nat /\ Len(raw') = Len(raw) + 1
      /\ DOMAIN raw = 1 .. Len(raw) /\ DOMAIN raw' = 1 .. Len(raw) + 1
      /\ \A m \in 1 .. Len(raw) : raw'[m] = raw[m]
      /\ raw'[Len(raw) + 1] = c
  BY Appended DEF TypeOK
<1>2. ASSUME NEW i \in 1 .. Len(raw), NEW j \in 1 .. Len(raw)
      PROVE  IsFrame(i, j)' <=> IsFrame(i, j)
  <2>1. raw'[i] = raw[i] /\ raw'[j] = raw[j]
    BY <1>1
  <2>2. \A m \in i .. j - 1 : raw'[m] = raw[m]
    BY <1>1
  <2>3. \A m \in 1 .. i - 1 : raw'[m] = raw[m] /\ \A e \in m .. i - 1 : raw'[e] = raw[e]
    BY <1>1
  <2> QED
    BY <2>1, <2>2, <2>3 DEF IsFrame
<1>3. ASSUME NEW s \in 0 .. Len(raw)
      PROVE  Outside(s)' <=> Outside(s)
  <2>1. \A m \in 1 .. s : raw'[m] = raw[m] /\ \A e \in m .. s : raw'[e] = raw[e]
    BY <1>1
  <2> QED
    BY <2>1 DEF Outside
<1> QED
  BY <1>1, <1>2, <1>3

\* A frame of the line stays one.
LEMMA OldFrame ==
    ASSUME TypeOK, NEW c \in Bytes, raw' = Append(raw, c),
           NEW f \in Seq(Nat), GoodFrame(f)
    PROVE  GoodFrame(f)'
<1>1. Len(f) \in Nat \ {0} /\ DOMAIN f = 1 .. Len(f)
  BY DEF GoodFrame
<1>2. f[1] \in Elements(f) /\ f[Len(f)] \in Elements(f)
  BY <1>1 DEF Elements
<1>3. f[1] \in 0 .. Len(raw) /\ f[Len(f)] \in 0 .. Len(raw)
  BY <1>2 DEF GoodFrame, OnLine
<1>4. Len(raw) \in Nat /\ Len(raw') = Len(raw) + 1
  BY Longer
<1>5. OnLine(f)'
  BY <1>4 DEF GoodFrame, OnLine
<1>6. ASSUME f[1] # 0
      PROVE  IsFrame(f[1], f[Len(f)])'
  <2>1. IsFrame(f[1], f[Len(f)]) /\ f[1] < f[Len(f)]
    BY <1>6 DEF IsFrame, GoodFrame
  <2>2. f[1] \in 1 .. Len(raw) /\ f[Len(f)] \in 1 .. Len(raw)
    BY <1>3, <1>4, <1>6, <2>1
  <2> QED
    BY <2>1, <2>2, Longer
<1> QED
  BY <1>5, <1>6 DEF GoodFrame

\* One more position at the end of rcv_buf.
LEMMA LongerBuf ==
    ASSUME NEW f \in Seq(Nat), f # <<>>, NEW p \in Nat,
           Follows(f), f[Len(f)] = 0 \/ p \in {f[Len(f)], f[Len(f)] + 1}
    PROVE  /\ Append(f, p) \in Seq(Nat) /\ Append(f, p) # <<>>
           /\ Follows(Append(f, p))
           /\ Elements(Append(f, p)) = Elements(f) \cup {p}
           /\ Append(f, p)[1] = f[1]
           /\ Append(f, p)[Len(Append(f, p))] = p
<1> DEFINE g == Append(f, p)
<1>1. /\ g \in Seq(Nat) /\ g # <<>> /\ Len(g) = Len(f) + 1 /\ Len(f) \in Nat \ {0}
      /\ \A k \in 1 .. Len(f) : g[k] = f[k]
      /\ g[Len(f) + 1] = p
  BY Appended
<1>2. Elements(g) = Elements(f) \cup {p}
  BY ElementsAppended
<1> HIDE DEF g
<1>3. Follows(g)
  <2> SUFFICES ASSUME NEW k \in 1 .. Len(g) - 1
               PROVE  g[k] = 0 \/ g[k + 1] \in {g[k], g[k] + 1}
    BY DEF Follows
  <2>1. CASE k = Len(f)
    BY <1>1, <2>1
  <2>2. CASE k # Len(f)
    <3>1. k \in 1 .. Len(f) - 1 /\ g[k] = f[k] /\ g[k + 1] = f[k + 1]
      BY <1>1, <2>2, SMTT(60)
    <3> QED
      BY <3>1 DEF Follows
  <2> QED
    BY <2>1, <2>2
<1> QED
  BY <1>1, <1>2, <1>3 DEF g

\* A byte that does not end a frame of the line leaves FramesArrive true.
LEMMA StillArrive ==
    ASSUME LineInv, NEW c \in Bytes, raw' = Append(raw, c), cpc = "read",
           Elements(frames) \subseteq Elements(frames'),
           NEW last \in Nat, last = Len(raw) + 1,
           \A i \in 1 .. Len(raw) :
             IsFrame(i, last)' /\ cpc' # "overrun"
             => \E f \in Elements(frames') : i .. last \subseteq Elements(f)
    PROVE  FramesArrive'
<1>0. TypeOK
  BY DEF LineInv
<1> SUFFICES ASSUME NEW i \in DOMAIN raw', NEW j \in DOMAIN raw',
                    IsFrame(i, j)', ~(cpc' = "overrun" /\ j = Len(raw'))
             PROVE  \E f \in Elements(frames') : i .. j \subseteq Elements(f)
  BY DEF FramesArrive, Elements
<1>1. i \in 1 .. Len(raw) + 1 /\ j \in 1 .. Len(raw) + 1 /\ i < j /\ Len(raw) \in Nat
      /\ Len(raw') = Len(raw) + 1
  BY <1>0, Longer DEF IsFrame
<1>2. CASE j = last
  BY <1>1, <1>2
<1>3. CASE j # last
  <2>1. i \in 1 .. Len(raw) /\ j \in 1 .. Len(raw) /\ IsFrame(i, j)
    BY <1>0, <1>1, <1>3, Longer
  <2>2. DOMAIN raw = 1 .. Len(raw)
    BY <1>0, Longer
  <2>3. PICK k \in DOMAIN frames : i .. j \subseteq Elements(frames[k])
    BY <2>1, <2>2 DEF LineInv, FramesArrive
  <2>4. frames[k] \in Elements(frames)
    BY DEF Elements
  <2> QED
    BY <2>3, <2>4
<1> QED
  BY <1>2, <1>3

LEMMA ByteStep ==
    ASSUME LineInv, TypeOK', NEW c \in Bytes, ReadByte(c)
    PROVE  LineInv'
<1>0. TypeOK /\ cpc = "read" /\ raw' = Append(raw, c)
  BY DEF LineInv, ReadByte
<1> DEFINE L == Len(raw)
<1>1. PICK p \in Nat : p = L + 1
  BY <1>0, Longer
<1>2. /\ L \in Nat /\ Len(raw') = p /\ raw'[p] = c
      /\ \A m \in 1 .. L : raw'[m] = raw[m]
      /\ \A s \in 0 .. L : Outside(s)' <=> Outside(s)
  BY <1>0, <1>1, Longer
<1>3. PICK b : b = [c |-> c, at |-> p] /\ Take(b)
  BY <1>1 DEF ReadByte
<1>4. b.c = c /\ b.at = p /\ ch' = b
  BY <1>3 DEF Take
<1>5. \A f \in Elements(frames) : f \in Seq(Nat) /\ GoodFrame(f) /\ GoodFrame(f)'
  <2>1. \A f \in Elements(frames) : f \in Seq(Nat)
    BY <1>0, Members DEF TypeOK, Elements
  <2> QED
    BY <1>0, <2>1, OldFrame DEF LineInv
<1>6. OnLine(buf) /\ Follows(buf) /\ Elements(buf) \subseteq 0 .. p
  BY <1>1, <1>2 DEF LineInv, OnLine
<1>7. CASE buf = <<>> /\ buf' = (IF b.c = "*" THEN <<b.at>> ELSE <<>>) /\ UNCHANGED <<cpc, frames>>
  <2>1. Outside(L)
    BY <1>0, <1>7 DEF LineInv
  <2>2. ASSUME NEW i \in 1 .. L
        PROVE  ~IsFrame(i, p)'
    <3>1. raw[i] = "*" => \E e \in i .. L : raw[e] = "#"
      BY <2>1 DEF Outside
    <3>2. raw'[i] = raw[i] /\ \A e \in i .. L : raw'[e] = raw[e]
      BY <1>2
    <3> QED
      BY <3>1, <3>2, <1>1 DEF IsFrame
  <2>3. FramesArrive'
    BY <1>0, <1>1, <1>7, <2>2, StillArrive
  <2>4. \A f \in Elements(frames') : GoodFrame(f)'
    BY <1>5, <1>7
  <2>5. CASE c = "*"
    <3>1. buf' = <<p>> /\ buf'[1] = p /\ Len(buf') = 1 /\ Elements(buf') = {p} /\ buf' # <<>>
      BY <1>4, <1>7, <2>5 DEF Elements
    <3>2. OnLine(buf)' /\ Follows(buf)'
      BY <1>2, <3>1 DEF OnLine, Follows
    <3>3. PICK s \in 0 .. L : s = L
      BY <1>2
    <3>4. InFrame(s)'
      BY <1>1, <1>2, <2>1, <2>5, <3>1, <3>3 DEF InFrame
    <3>5. \E q \in 0 .. Len(raw') : InFrame(q)'
      BY <1>1, <1>2, <3>3, <3>4
    <3> QED
      BY <1>0, <1>2, <1>4, <1>7, <2>3, <2>4, <2>5, <3>1, <3>2, <3>5 DEF LineInv
  <2>6. CASE c # "*"
    <3>1. buf' = <<>> /\ Elements(buf') = {} /\ Len(buf') = 0
      BY <1>4, <1>7, <2>6 DEF Elements
    <3>2. OnLine(buf)' /\ Follows(buf)'
      BY <3>1 DEF OnLine, Follows
    <3>3. Outside(p)'
      <4> SUFFICES ASSUME NEW m \in 1 .. p, raw'[m] = "*"
                   PROVE  \E e \in m .. p : raw'[e] = "#"
        BY DEF Outside
      <4>1. m \in 1 .. L /\ raw[m] = "*"
        BY <1>1, <1>2, <2>6
      <4>2. PICK e \in m .. L : raw[e] = "#"
        BY <2>1, <4>1 DEF Outside
      <4> QED
        BY <1>1, <1>2, <4>1, <4>2
    <3> QED
      BY <1>0, <1>2, <1>4, <1>7, <2>3, <2>4, <2>6, <3>1, <3>2, <3>3 DEF LineInv
  <2> QED
    BY <2>5, <2>6
<1>8. CASE /\ buf # <<>> /\ buf' = Append(buf, b.at)
           /\ cpc' = IF b.c = "#" THEN "send" ELSE "read"
           /\ frames' = IF b.c = "#" THEN Append(frames, buf') ELSE frames
  <2>1. PICK s \in 0 .. L : InFrame(s)
    BY <1>0, <1>8 DEF LineInv
  <2>2. /\ buf' \in Seq(Nat) /\ buf' # <<>> /\ Follows(buf')
        /\ Elements(buf') = Elements(buf) \cup {p}
        /\ buf'[1] = buf[1] /\ buf'[Len(buf')] = p
    <3>1. buf[Len(buf)] = 0 \/ p \in {buf[Len(buf)], buf[Len(buf)] + 1}
      BY <1>0, <1>1, <1>8 DEF LineInv
    <3>2. buf \in Seq(Nat)
      BY <1>0 DEF TypeOK
    <3> QED
      BY <1>1, <1>4, <1>6, <1>8, <3>1, <3>2, LongerBuf
  <2>3. OnLine(buf)'
    BY <1>1, <1>2, <1>6, <2>2 DEF OnLine
  <2>4. s + 1 .. p \subseteq Elements(buf')
    BY <1>1, <1>2, <2>1, <2>2 DEF InFrame
  <2>5. ASSUME NEW i \in 1 .. L, IsFrame(i, p)'
        PROVE  i .. p \subseteq Elements(buf')
    <3>1. i \notin 1 .. s
      <4> SUFFICES ASSUME i \in 1 .. s
                   PROVE  FALSE
        OBVIOUS
      <4>1. raw'[i] = raw[i] /\ \A e \in i .. s : raw'[e] = raw[e]
        BY <1>2, <2>1
      <4>2. raw[i] = "*" => \E e \in i .. s : raw[e] = "#"
        BY <2>1 DEF InFrame, Outside
      <4>3. \A e \in i .. s : e \in i .. p - 1
        BY <1>1, <1>2, <2>1
      <4> QED
        BY <2>5, <4>1, <4>2, <4>3 DEF IsFrame
    <3> QED
      BY <2>4, <3>1, <1>1, <1>2
  <2>6. CASE c = "#"
    <3>1. cpc' = "send" /\ frames' = Append(frames, buf')
      BY <1>4, <1>8, <2>6
    <3>2. Elements(frames') = Elements(frames) \cup {buf'}
      BY <1>0, <2>2, <3>1, ElementsAppended DEF TypeOK
    <3>3. FramesArrive'
      BY <1>0, <1>1, <2>5, <3>2, StillArrive
    <3>4. PICK g \in Seq(Nat) : g = buf'
      BY <2>2
    <3>5. GoodFrame(g)'
      <4>1. g[1] # 0 => IsFrame(g[1], p)'
        <5> SUFFICES ASSUME g[1] # 0
                     PROVE  IsFrame(g[1], p)'
          OBVIOUS
        <5>1. g[1] = s + 1 /\ s < L /\ raw[s + 1] = "*" /\ \A m \in s + 1 .. L : raw[m] # "#"
          BY <2>1, <2>2, <3>4 DEF InFrame
        <5>2. s + 1 < p /\ raw'[s + 1] = "*" /\ raw'[p] = "#"
          BY <1>1, <1>2, <2>6, <5>1
        <5>3. \A m \in s + 1 .. p - 1 : raw'[m] # "#"
          BY <1>1, <1>2, <5>1
        <5>4. \A m \in 1 .. s : raw'[m] = "*" => \E e \in m .. s : raw'[e] = "#"
          BY <1>2, <2>1 DEF InFrame, Outside
        <5>5. \A q \in Nat : q = s + 1 => IsFrame(q, p)'
          BY <5>2, <5>3, <5>4 DEF IsFrame
        <5> QED
          BY <5>1, <5>5
      <4>2. g # <<>> /\ Follows(g) /\ g[Len(g)] = p
        BY <2>2, <3>4
      <4>3. OnLine(g)'
        BY <2>3, <3>4 DEF OnLine
      <4> QED
        BY <4>1, <4>2, <4>3 DEF GoodFrame
    <3>6. \A f \in Elements(frames') : GoodFrame(f)'
      BY <1>5, <3>2, <3>4, <3>5
    <3>7. raw' # <<>> /\ raw'[Len(raw')] = "#"
      BY <1>0, <1>2, <2>6, Appended, SMTT(60) DEF TypeOK
    <3> QED
      BY <2>2, <2>3, <3>1, <3>3, <3>6, <3>7 DEF LineInv, Elements
  <2>7. CASE c # "#"
    <3>1. cpc' = "read" /\ frames' = frames
      BY <1>4, <1>8, <2>7
    <3>2. \A i \in 1 .. L : ~IsFrame(i, p)'
      BY <1>2, <2>7 DEF IsFrame
    <3>3. FramesArrive'
      BY <1>0, <1>1, <3>1, <3>2, StillArrive
    <3>4. InFrame(s)'
      <4>1. \A m \in s + 1 .. p : raw'[m] # "#"
        BY <1>1, <1>2, <2>1, <2>7 DEF InFrame
      <4>2. buf'[1] # 0 => buf'[1] = s + 1 /\ s < p /\ raw'[s + 1] = "*"
        BY <1>1, <1>2, <2>1, <2>2 DEF InFrame
      <4>3. Outside(s)'
        BY <1>2, <2>1 DEF InFrame
      <4>4. s \in 0 .. p
        BY <1>1, <1>2
      <4> QED
        BY <1>2, <2>4, <4>1, <4>2, <4>3, <4>4 DEF InFrame, Elements
    <3>5. \A f \in Elements(frames') : GoodFrame(f)'
      BY <1>5, <3>1
    <3>6. \E q \in 0 .. Len(raw') : InFrame(q)'
      BY <1>1, <1>2, <3>4
    <3>7. /\ buf'[Len(buf')] \in {0, Len(raw')}
          /\ ch'.at = buf'[Len(buf')] /\ ch'.c \in Bytes \ {"#"}
      BY <1>2, <1>4, <2>2, <2>7
    <3> QED
      BY <2>2, <2>3, <3>1, <3>3, <3>5, <3>6, <3>7 DEF LineInv, Elements
  <2> QED
    BY <2>6, <2>7
<1>9. CASE cpc' = "overrun" /\ UNCHANGED <<buf, frames>>
  <2>1. FramesArrive'
    BY <1>0, <1>1, <1>9, StillArrive
  <2>2. OnLine(buf)'
    BY <1>2, <1>6, <1>9 DEF OnLine
  <2>3. Follows(buf)'
    BY <1>6, <1>9 DEF Follows
  <2>4. \A f \in Elements(frames') : GoodFrame(f)'
    BY <1>5, <1>9
  <2> QED
    BY <1>9, <2>1, <2>2, <2>3, <2>4 DEF LineInv, Elements
<1> QED
  BY <1>3, <1>7, <1>8, <1>9 DEF Take

LEMMA ErrorStep ==
    ASSUME LineInv, TypeOK', ReadError
    PROVE  LineInv'
<1>0. TypeOK /\ cpc = "read" /\ UNCHANGED raw
  BY DEF LineInv, ReadError
<1>1. PICK b \in IF ch = Unset THEN [c : Bytes, at : {0}] ELSE {ch} : Take(b)
  BY DEF ReadError
<1>2. ch' = b
  BY <1>1 DEF Take
<1>3. Len(raw) \in Nat
  BY <1>0 DEF TypeOK
<1>4. CASE buf = <<>> /\ buf' = (IF b.c = "*" THEN <<b.at>> ELSE <<>>) /\ UNCHANGED <<cpc, frames>>
  <2>1. Outside(Len(raw)) /\ ch.c # "*"
    BY <1>0, <1>4 DEF LineInv
  <2>2. FramesArrive' /\ (\A f \in Elements(frames') : GoodFrame(f)')
    BY <1>0, <1>4 DEF LineInv, FramesArrive, IsFrame, Elements, GoodFrame, OnLine
  <2>3. CASE b.c = "*"
    <3>1. b.at = 0 /\ b.c \in Bytes
      BY <1>1, <2>1, <2>3
    <3>2. buf' = <<0>> /\ buf'[1] = 0 /\ Len(buf') = 1 /\ Elements(buf') = {0} /\ buf' # <<>>
      BY <1>4, <2>3, <3>1 DEF Elements
    <3>3. OnLine(buf)' /\ Follows(buf)'
      BY <1>0, <1>3, <3>2 DEF OnLine, Follows
    <3>4. InFrame(Len(raw))'
      BY <1>0, <1>3, <2>1, <3>2 DEF InFrame, Outside
    <3> QED
      BY <1>0, <1>2, <1>3, <1>4, <2>2, <2>3, <3>1, <3>2, <3>3, <3>4 DEF LineInv
  <2>4. CASE b.c # "*"
    <3>1. buf' = <<>> /\ Elements(buf') = {} /\ Len(buf') = 0
      BY <1>4, <2>4 DEF Elements
    <3>2. OnLine(buf)' /\ Follows(buf)'
      BY <3>1 DEF OnLine, Follows
    <3> QED
      BY <1>0, <1>2, <1>4, <2>1, <2>2, <2>4, <3>1, <3>2 DEF LineInv, Outside
  <2> QED
    BY <2>3, <2>4
<1>5. CASE /\ buf # <<>> /\ buf' = Append(buf, b.at)
           /\ cpc' = IF b.c = "#" THEN "send" ELSE "read"
           /\ frames' = IF b.c = "#" THEN Append(frames, buf') ELSE frames
  <2>1. ch.c \in Bytes \ {"#"} /\ ch.at = buf[Len(buf)] /\ buf[Len(buf)] \in {0, Len(raw)}
    BY <1>0, <1>5 DEF LineInv
  <2>2. ch # Unset /\ b = ch
    <3>1. "unset" \notin Bytes
      BY PlainAssumption DEF Bytes
    <3> QED
      BY <1>1, <2>1, <3>1 DEF Unset
  <2>3. cpc' = "read" /\ frames' = frames
    BY <1>5, <2>1, <2>2
  <2>4. /\ buf' \in Seq(Nat) /\ buf' # <<>> /\ Follows(buf')
        /\ Elements(buf') = Elements(buf) \cup {b.at}
        /\ buf'[1] = buf[1] /\ buf'[Len(buf')] = b.at
    <3>1. buf \in Seq(Nat) /\ Follows(buf) /\ b.at \in Nat
      BY <1>0, <2>2 DEF LineInv, TypeOK
    <3> QED
      BY <1>5, <2>1, <2>2, <3>1, LongerBuf
  <2>5. OnLine(buf)' /\ Follows(buf)'
    <3>1. Elements(buf) \subseteq 0 .. Len(raw) /\ b.at \in 0 .. Len(raw)
      BY <1>3, <2>1, <2>2 DEF LineInv, OnLine
    <3>2. Elements(buf') \subseteq 0 .. Len(raw)
      BY <2>4, <3>1
    <3> QED
      BY <1>0, <2>4, <3>2 DEF OnLine, Follows, Elements
  <2>6. FramesArrive' /\ (\A f \in Elements(frames') : GoodFrame(f)')
    BY <1>0, <2>3 DEF LineInv, FramesArrive, IsFrame, Elements, GoodFrame, OnLine
  <2>7. \E s \in 0 .. Len(raw') : InFrame(s)'
    <3>1. PICK s \in 0 .. Len(raw) : InFrame(s)
      BY <1>0, <1>5 DEF LineInv
    <3>2. s + 1 .. Len(raw) \subseteq Elements(buf')
      BY <2>4, <3>1 DEF InFrame
    <3>3. InFrame(s)'
      BY <1>0, <2>4, <3>1, <3>2 DEF InFrame, Outside, Elements
    <3> QED
      BY <1>0, <3>3
  <2> QED
    BY <1>0, <1>2, <2>1, <2>2, <2>3, <2>4, <2>5, <2>6, <2>7 DEF LineInv
<1>6. CASE cpc' = "overrun" /\ UNCHANGED <<buf, frames>>
  <2>1. FramesArrive' /\ (\A f \in Elements(frames') : GoodFrame(f)')
    BY <1>0, <1>6 DEF LineInv, FramesArrive, IsFrame, Elements, GoodFrame, OnLine
  <2>2. OnLine(buf)' /\ Follows(buf)'
    BY <1>0, <1>6 DEF LineInv, OnLine, Follows, Elements
  <2> QED
    BY <1>6, <2>1, <2>2 DEF LineInv
<1> QED
  BY <1>1, <1>4, <1>5, <1>6 DEF Take

LEMMA SendStep ==
    ASSUME LineInv, TypeOK', SendFrame
    PROVE  LineInv'
<1>1. raw # <<>> /\ raw[Len(raw)] = "#" /\ Len(raw) \in Nat /\ UNCHANGED <<raw, frames>>
      /\ cpc = "send" /\ cpc' = "read" /\ buf' = <<>> /\ ch' = Unset
  BY Members DEF LineInv, TypeOK, SendFrame
<1>2. Outside(Len(raw))
  BY <1>1 DEF Outside
<1>3. FramesArrive' /\ (\A f \in Elements(frames') : GoodFrame(f)')
  BY <1>1 DEF LineInv, FramesArrive, IsFrame, Elements, GoodFrame, OnLine
<1>4. OnLine(buf)' /\ Follows(buf)'
  BY <1>1 DEF OnLine, Follows, Elements
<1> QED
  BY <1>1, <1>2, <1>3, <1>4 DEF LineInv, Outside, Unset

LEMMA LineNext == LineInv /\ [Next]_vars => LineInv'
<1> SUFFICES ASSUME LineInv, [Next]_vars
             PROVE  LineInv'
  OBVIOUS
<1>0. TypeOK'
  BY TypeNext DEF LineInv
<1>1. CASE (\E c \in Bytes : ReadByte(c)) \/ ReadError \/ SendFrame
  BY <1>0, <1>1, ByteStep, ErrorStep, SendStep
<1>2. CASE UNCHANGED lineVars
  BY <1>0, <1>2, SMTT(60) DEF LineInv, lineVars, FramesArrive, IsFrame, Elements, GoodFrame, OnLine,
                    Follows, InFrame, Outside
<1>3. CASE \/ ParentWrites \/ ParentRejoins \/ \E mine \in BOOLEAN : ToolSends(mine)
           \/ ToolReceives \/ ToolRemoves \/ OthersGet \/ UNCHANGED vars
  BY <1>2, <1>3 DEF ParentWrites, ParentRejoins, ToolSends, ToolReceives, ToolRemoves,
                    OthersGet, vars
<1> QED
  BY <1>1, <1>3 DEF Next

\* Whatever reads fail: what read_uart() returns is a frame of the line with
\* some bytes doubled, unless it began with a byte nobody sent.
THEOREM FramesAreSentHolds == Spec => []FramesAreSent
<1>1. LineInv => FramesAreSent
  BY DEF LineInv, FramesAreSent, GoodFrame, Elements
<1> QED
  BY LineInit, LineNext, <1>1, PTL DEF Spec

\* And every frame of the line is within one that it returns, until one is too
\* long for its buffer.
THEOREM FramesArriveHolds == Spec => []FramesArrive
<1>1. LineInv => FramesArrive
  BY DEF LineInv
<1> QED
  BY LineInit, LineNext, <1>1, PTL DEF Spec
=============================================================================
