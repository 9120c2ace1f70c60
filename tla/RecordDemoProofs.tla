-------------------------- MODULE RecordDemoProofs --------------------------
(***************************************************************************)
(* Proofs about RecordDemo: for any garbage, any failures and any number   *)
(* of cycles and restarts, the father waits in vain only after a failure,  *)
(* gets results that are late by restarts at most, and the texts are      *)
(* spoken in order.                                                        *)
(***************************************************************************)
EXTENDS RecordDemo, TLAPS

-----------------------------------------------------------------------------
(* Types *)

Command == [id : Ids, n : Nat]

LEMMA Appended ==
    ASSUME NEW S, NEW s \in Seq(S), NEW x \in S
    PROVE  /\ Append(s, x) \in Seq(S)
           /\ Len(s) \in Nat
           /\ DOMAIN s = 1 .. Len(s) /\ DOMAIN Append(s, x) = 1 .. Len(s) + 1
           /\ \A i \in 1 .. Len(s) : Append(s, x)[i] = s[i] /\ s[i] \in S
           /\ Append(s, x)[Len(s) + 1] = x
OBVIOUS

LEMMA Filled ==
    ASSUME NEW S, NEW s \in Seq(S), NEW x \in S
    PROVE  Append(s, x) # <<>>
<1>1. Len(Append(s, x)) = Len(s) + 1 /\ Len(s) \in Nat
  OBVIOUS
<1>2. Len(<<>>) = 0
  OBVIOUS
<1> QED
  BY <1>1, <1>2

LEMMA Dropped ==
    ASSUME NEW S, NEW s \in Seq(S), s # <<>>
    PROVE  /\ Head(s) \in S /\ Head(s) = s[1]
           /\ Tail(s) \in Seq(S) /\ Len(s) \in Nat \ {0}
           /\ DOMAIN s = 1 .. Len(s) /\ DOMAIN Tail(s) = 1 .. Len(s) - 1
           /\ \A i \in 1 .. Len(s) - 1 : Tail(s)[i] = s[i + 1]
OBVIOUS

LEMMA Members ==
    ASSUME NEW S, NEW s \in Seq(S)
    PROVE  /\ DOMAIN s \subseteq Nat \ {0}
           /\ \A k \in DOMAIN s : s[k] \in S
OBVIOUS

LEMMA TypeInit == Init => TypeOK
<1>1. <<>> \in Seq([id : Ids, n : Nat]) /\ <<>> \in Seq(Nat)
  OBVIOUS
<1> QED
  BY <1>1 DEF Init, TypeOK, Ids

\* A message the father sends is a command.
LEMMA CommandsTyped ==
    ASSUME TypeOK, NEW id \in Ids, NEW n \in Nat, NEW next, Commands(id, n, next)
    PROVE  /\ commands' \in Seq([id : Ids, n : Nat])
           /\ father' \in {next, "gone"}
           /\ failed' \subseteq {"card", "login", "queue", "file"}
<1>1. [id |-> id, n |-> n] \in [id : Ids, n : Nat]
  OBVIOUS
<1>2. Append(commands, [id |-> id, n |-> n]) \in Seq([id : Ids, n : Nat])
  BY <1>1, Appended DEF TypeOK
<1> QED
  BY <1>2 DEF Commands, Fails, Works, TypeOK

\* What the child takes is a command.
LEMMA HeadTyped ==
    ASSUME TypeOK, commands # <<>>
    PROVE  /\ Head(commands).id \in Ids /\ Head(commands).n \in Nat
           /\ Tail(commands) \in Seq([id : Ids, n : Nat])
<1>1. Head(commands) \in [id : Ids, n : Nat]
  BY Dropped DEF TypeOK
<1> QED
  BY <1>1, Dropped DEF TypeOK

LEMMA TypeNext == TypeOK /\ [Next]_vars => TypeOK'
<1> SUFFICES ASSUME TypeOK, [Next]_vars
             PROVE  TypeOK'
  OBVIOUS
<1>1. CASE FatherStarts /\ UNCHANGED restarts
  BY <1>1, CommandsTyped DEF FatherStarts, TypeOK, childVars, Ids
<1>2. CASE FatherStops /\ UNCHANGED restarts
  BY <1>2, CommandsTyped DEF FatherStops, TypeOK, childVars, Ids
<1>3. CASE FatherWaits /\ UNCHANGED restarts
  BY <1>3, Dropped DEF FatherWaits, TypeOK, childVars
<1>4. CASE FatherSpeaks /\ UNCHANGED restarts
  BY <1>4, CommandsTyped DEF FatherSpeaks, TypeOK, childVars, Ids
<1>5. CASE ChildReceives /\ UNCHANGED restarts
  BY <1>5, HeadTyped, GarbageAssumption
     DEF ChildReceives, Fails, Works, TypeOK, fatherVars
<1>6. CASE ChildRecords /\ UNCHANGED restarts
  BY <1>6, HeadTyped DEF ChildRecords, TypeOK, fatherVars
<1>7. CASE ChildAsks /\ UNCHANGED restarts
  <2>1. Append(results, about) \in Seq(Nat)
    BY Appended DEF TypeOK
  <2> QED
    BY <1>7, <2>1 DEF ChildAsks, Fails, Works, TypeOK, fatherVars
<1>8. CASE ChildSpeaks /\ UNCHANGED restarts
  <2>1. Append(spoken, about) \in Seq(Nat)
    BY Appended DEF TypeOK
  <2> QED
    BY <1>8, <2>1 DEF ChildSpeaks, Fails, Works, TypeOK, fatherVars
<1>9. CASE Restart
  BY <1>9 DEF Restart, TypeOK, Ids
<1>10. CASE UNCHANGED vars
  BY <1>10 DEF vars, fatherVars, childVars, TypeOK
<1> QED
  BY <1>1, <1>2, <1>3, <1>4, <1>5, <1>6, <1>7, <1>8, <1>9, <1>10
     DEF Next, Father, Child

\* Type correctness of the two processes and the queue, for any garbage and faults.
THEOREM TypeCorrect == Spec => []TypeOK
<1> QED
  BY TypeInit, TypeNext, PTL DEF Spec

-----------------------------------------------------------------------------
(* Nobody waits in vain *)

\* A recording for the father to hear of: to begin, going on, or recognised.
Recording == child \in {"record", "ask"}
Owed == \/ results # <<>>
        \/ Recording
        \/ \E k \in DOMAIN commands : commands[k].id = 0

\* Between its start and its result a recording is owed, or something failed.
OwedInv ==
    /\ father \in {"stop", "wait"} => \/ Owed
                                      \/ {"card", "queue"} \cap failed # {}
                                      \/ child = "dead"
    /\ child = "dead" => {"card", "login"} \cap failed # {}
    /\ child = "stuck" => "file" \in failed

LEMMA OwedInit == Init => OwedInv
BY DEF Init, OwedInv

LEMMA OwedNext == TypeOK /\ OwedInv /\ [Next]_vars => OwedInv'
<1> SUFFICES ASSUME TypeOK, OwedInv, [Next]_vars
             PROVE  OwedInv'
  OBVIOUS
<1>1. CASE FatherStarts /\ UNCHANGED restarts
  <2>1. CASE /\ Works /\ father' = "stop"
             /\ commands' = Append(commands, [id |-> 0, n |-> cycle])
    <3>1. [id |-> 0, n |-> cycle] \in [id : Ids, n : Nat]
      BY DEF TypeOK, Ids
    <3>2. /\ Len(commands) + 1 \in DOMAIN commands'
          /\ commands'[Len(commands) + 1] = [id |-> 0, n |-> cycle]
      BY <2>1, <3>1, Appended DEF TypeOK
    <3>3. Owed'
      BY <3>2 DEF Owed
    <3> QED
      BY <1>1, <2>1, <3>3 DEF FatherStarts, OwedInv, Works, childVars
  <2>2. CASE Fails("queue") /\ father' = "gone" /\ UNCHANGED commands
    BY <1>1, <2>2 DEF FatherStarts, OwedInv, Fails, childVars
  <2> QED
    BY <1>1, <2>1, <2>2 DEF FatherStarts, Commands
<1>2. CASE FatherStops /\ UNCHANGED restarts
  <2>1. CASE /\ Works /\ father' = "wait"
             /\ commands' = Append(commands, [id |-> 1, n |-> cycle])
    <3>1. [id |-> 1, n |-> cycle] \in [id : Ids, n : Nat]
      BY DEF TypeOK, Ids
    <3>2. \A k \in DOMAIN commands : k \in DOMAIN commands' /\ commands'[k] = commands[k]
      BY <2>1, <3>1, Appended DEF TypeOK
    <3>3. Owed => Owed'
      BY <1>2, <3>2 DEF Owed, Recording, FatherStops, childVars
    <3> QED
      BY <1>2, <2>1, <3>3 DEF FatherStops, OwedInv, Works, childVars
  <2>2. CASE Fails("queue") /\ father' = "gone" /\ UNCHANGED commands
    BY <1>2, <2>2 DEF FatherStops, OwedInv, Fails, childVars
  <2> QED
    BY <1>2, <2>1, <2>2 DEF FatherStops, Commands
<1>3. CASE FatherWaits /\ UNCHANGED restarts
  BY <1>3 DEF FatherWaits, OwedInv, childVars
<1>4. CASE FatherSpeaks /\ UNCHANGED restarts
  BY <1>4 DEF FatherSpeaks, Commands, Fails, Works, OwedInv, childVars
<1>5. CASE ChildReceives /\ UNCHANGED restarts
  <2>1. ASSUME Head(commands).id # 0
        PROVE  Owed => Owed'
    <3>1. ASSUME NEW k \in DOMAIN commands, commands[k].id = 0
          PROVE  k - 1 \in DOMAIN commands' /\ commands'[k - 1].id = 0
      <4> DEFINE S == [id : Ids, n : Nat]
      <4>1. commands \in Seq(S) /\ commands # <<>>
        BY <1>5 DEF TypeOK, ChildReceives
      <4> HIDE DEF S
      <4>2. /\ DOMAIN commands = 1 .. Len(commands) /\ Len(commands) \in Nat
            /\ Head(commands) = commands[1]
            /\ DOMAIN Tail(commands) = 1 .. Len(commands) - 1
            /\ \A i \in 1 .. Len(commands) - 1 : Tail(commands)[i] = commands[i + 1]
        BY <4>1, Dropped
      <4>3. k # 1 /\ k \in 1 .. Len(commands)
        BY <4>2, <2>1, <3>1
      <4>4. k - 1 \in 1 .. Len(commands) - 1 /\ (k - 1) + 1 = k
        BY <4>2, <4>3
      <4> QED
        BY <1>5, <3>1, <4>2, <4>4 DEF ChildReceives
    <3> QED
      BY <1>5, <3>1 DEF ChildReceives, Owed, Recording
  <2>2. CASE Head(commands).id = 0
    <3>1. CASE child' = "record" /\ Works
      BY <1>5, <3>1 DEF ChildReceives, Works, OwedInv, Owed, Recording, fatherVars
    <3>2. CASE child' \in {"dead", "idle"} /\ Fails("card")
      <4>1. "card" \in failed'
        BY <3>2 DEF Fails
      <4> QED
        BY <3>2, <4>1 DEF OwedInv
    <3> QED
      BY <1>5, <2>2, <3>1, <3>2 DEF ChildReceives
  <2>3. CASE Head(commands).id # 0
    BY <1>5, <2>1, <2>3 DEF ChildReceives, Fails, Works, OwedInv, fatherVars
  <2> QED
    BY <2>2, <2>3
<1>6. CASE ChildRecords /\ UNCHANGED restarts
  BY <1>6 DEF ChildRecords, OwedInv, Owed, Recording, fatherVars
<1>7. CASE ChildAsks /\ UNCHANGED restarts
  <2>1. Append(results, about) # <<>>
    <3>1. results \in Seq(Nat) /\ about \in Nat
      BY DEF TypeOK
    <3> QED
      BY <3>1, Filled
  <2> QED
    BY <1>7, <2>1 DEF ChildAsks, Fails, Works, OwedInv, Owed, Recording, fatherVars
<1>8. CASE ChildSpeaks /\ UNCHANGED restarts
  BY <1>8 DEF ChildSpeaks, Fails, Works, OwedInv, Owed, Recording, fatherVars
<1>9. CASE Restart
  BY <1>9 DEF Restart, OwedInv
<1>10. CASE UNCHANGED vars
  BY <1>10 DEF vars, fatherVars, childVars, OwedInv, Owed, Recording
<1> QED
  BY <1>1, <1>2, <1>3, <1>4, <1>5, <1>6, <1>7, <1>8, <1>9, <1>10
     DEF Next, Father, Child

LEMMA OwedImplies == TypeOK /\ OwedInv => NoDeadlock
<1> SUFFICES ASSUME TypeOK, OwedInv, father = "wait", results = <<>>
             PROVE  /\ child = "idle" /\ commands = <<>> => {"card", "queue"} \cap failed # {}
                    /\ child = "dead" => {"card", "login"} \cap failed # {}
                    /\ child = "stuck" => "file" \in failed
  BY DEF NoDeadlock
<1>1. commands = <<>> => DOMAIN commands = {}
  OBVIOUS
<1> QED
  BY <1>1 DEF OwedInv, Owed, Recording

\* For any garbage, faults, cycles and restarts: the father waits for a result
\* that never comes only if the child had no card, no room or no service.
THEOREM NoDeadlockHolds == Spec => []NoDeadlock
<1> QED
  BY TypeInit, TypeNext, OwedInit, OwedNext, OwedImplies, PTL DEF Spec

-----------------------------------------------------------------------------
(* The father gets the result of its own cycle *)

\* What may still reach the father: results, the recording going on, and those
\* to begin.  All are of this cycle or late by a restart, and later than the
\* result the father holds.
Current(n) ==
    /\ cycle - restarts <= n /\ n <= cycle
    /\ father = "start" => n < cycle
    /\ father = "speak" => result < n


\* The same after the step.
CurrentNext(n) ==
    /\ cycle' - restarts' <= n /\ n <= cycle'
    /\ father' = "start" => n < cycle'
    /\ father' = "speak" => result' < n

AheadInv ==
    /\ \A j \in DOMAIN results : Current(results[j])
    /\ Recording => Current(about)
    /\ \A k \in DOMAIN commands : commands[k].id = 0 => Current(commands[k].n)
    /\ father = "speak" => cycle - restarts <= result /\ result <= cycle

\* They reach it in the order of their cycles.
Ordered(s) == \A j, k \in DOMAIN s : j < k => s[j] < s[k]
InOrderInv ==
    /\ Ordered(results)
    /\ Recording => \A j \in DOMAIN results : results[j] < about
    /\ \A k \in DOMAIN commands :
         commands[k].id = 0 => /\ \A j \in DOMAIN results : results[j] < commands[k].n
                               /\ Recording => about < commands[k].n
                               /\ \A j \in DOMAIN commands :
                                    j < k /\ commands[j].id = 0 =>
                                      commands[j].n < commands[k].n

LEMMA AheadInit == Init => AheadInv /\ InOrderInv
<1> SUFFICES ASSUME Init
             PROVE  AheadInv /\ InOrderInv
  OBVIOUS
<1>1. DOMAIN commands = {} /\ DOMAIN results = {} /\ ~Recording /\ father = "start"
  BY DEF Init, Recording
<1> QED
  BY <1>1 DEF AheadInv, InOrderInv, Ordered

\* A message the father sends goes behind the others; the queue's old messages stay.
LEMMA Sent ==
    ASSUME TypeOK, NEW id \in Ids, NEW n \in Nat, NEW next, Commands(id, n, next)
    PROVE  /\ father' \in {next, "gone"}
           /\ \A k \in DOMAIN commands' :
                \/ k \in DOMAIN commands /\ commands'[k] = commands[k]
                \/ father' = next /\ commands'[k] = [id |-> id, n |-> n]
           /\ \A j, k \in DOMAIN commands' :
                j < k => j \in DOMAIN commands /\ commands'[j] = commands[j]
<1>1. CASE Works /\ father' = next /\ commands' = Append(commands, [id |-> id, n |-> n])
  <2> DEFINE S == [id : Ids, n : Nat]
  <2>1. commands \in Seq(S) /\ [id |-> id, n |-> n] \in S
    BY DEF TypeOK
  <2> HIDE DEF S
  <2>2. PICK l \in Nat : l = Len(commands)
    BY <2>1, Appended
  <2>3. /\ DOMAIN commands = 1 .. l /\ DOMAIN commands' = 1 .. l + 1
        /\ \A i \in 1 .. l : commands'[i] = commands[i]
        /\ commands'[l + 1] = [id |-> id, n |-> n]
    BY <1>1, <2>1, <2>2, Appended
  <2> QED
    BY <1>1, <2>2, <2>3
<1>2. CASE Fails("queue") /\ father' = "gone" /\ UNCHANGED commands
  BY <1>2
<1> QED
  BY <1>1, <1>2 DEF Commands

\* What the child leaves in the queue.
LEMMA Taken ==
    ASSUME TypeOK, commands # <<>>, commands' = Tail(commands)
    PROVE  /\ 1 \in DOMAIN commands /\ Head(commands) = commands[1]
           /\ DOMAIN commands \subseteq Nat \ {0}
           /\ \A k \in DOMAIN commands' :
                k \in Nat \ {0} /\ k + 1 \in DOMAIN commands /\ commands'[k] = commands[k + 1]
<1> DEFINE S == [id : Ids, n : Nat]
<1>1. commands \in Seq(S)
  BY DEF TypeOK
<1> HIDE DEF S
<1>2. PICK l \in Nat \ {0} : l = Len(commands)
  BY <1>1, Dropped
<1>3. /\ DOMAIN commands = 1 .. l /\ DOMAIN commands' = 1 .. l - 1
      /\ Head(commands) = commands[1]
      /\ \A i \in 1 .. l - 1 : commands'[i] = commands[i + 1]
  BY <1>1, <1>2, Dropped
<1> QED
  BY <1>2, <1>3

\* All numbers are natural numbers.
LEMMA Numbers ==
    ASSUME TypeOK
    PROVE  /\ cycle \in Nat /\ restarts \in Nat /\ about \in Nat /\ result \in Nat
           /\ DOMAIN commands \subseteq Nat \ {0} /\ DOMAIN results \subseteq Nat \ {0}
           /\ \A k \in DOMAIN commands : commands[k].n \in Nat /\ commands[k].id \in Ids
           /\ \A j \in DOMAIN results : results[j] \in Nat
<1> DEFINE S == [id : Ids, n : Nat]
<1>1. commands \in Seq(S) /\ results \in Seq(Nat)
  BY DEF TypeOK
<1> HIDE DEF S
<1>2. /\ DOMAIN commands \subseteq Nat \ {0} /\ \A k \in DOMAIN commands : commands[k] \in S
      /\ DOMAIN results \subseteq Nat \ {0} /\ \A j \in DOMAIN results : results[j] \in Nat
  BY <1>1, Members
<1> QED
  BY <1>2 DEF TypeOK, S

\* A step that leaves the recordings where they are keeps their order.
LEMMA SameOrder ==
    ASSUME TypeOK, InOrderInv, UNCHANGED results,
           Recording' => Recording /\ about' = about,
           \A k \in DOMAIN commands' :
             commands'[k].id = 0 =>
               /\ k \in DOMAIN commands /\ commands'[k] = commands[k]
               /\ \A j \in DOMAIN commands' : j < k => j \in DOMAIN commands
                                                     /\ commands'[j] = commands[j]
    PROVE  InOrderInv'
BY DEF InOrderInv, Ordered

\* So does one that takes the first command and no recording.
LEMMA TakenOrder ==
    ASSUME TypeOK, InOrderInv, commands # <<>>, commands' = Tail(commands),
           UNCHANGED results, Recording' => Recording /\ about' = about
    PROVE  InOrderInv'
<1>1. ASSUME NEW k \in DOMAIN commands', commands'[k].id = 0
      PROVE  /\ \A j \in DOMAIN results' : results'[j] < commands'[k].n
             /\ Recording' => about' < commands'[k].n
             /\ \A j \in DOMAIN commands' :
                  j < k /\ commands'[j].id = 0 => commands'[j].n < commands'[k].n
  <2>1. k + 1 \in DOMAIN commands /\ commands'[k] = commands[k + 1]
    BY <1>1, Taken
  <2>2. ASSUME NEW j \in DOMAIN commands', j < k, commands'[j].id = 0
        PROVE  commands'[j].n < commands'[k].n
    <3>1. /\ j \in Nat /\ k \in Nat /\ j + 1 \in DOMAIN commands
          /\ commands'[j] = commands[j + 1]
      BY <2>2, Taken
    <3>2. j + 1 < k + 1
      BY <2>2, <3>1
    <3> QED
      BY <1>1, <2>1, <2>2, <3>1, <3>2 DEF InOrderInv
  <2> QED
    BY <1>1, <2>1, <2>2 DEF InOrderInv
<1> QED
  BY <1>1 DEF InOrderInv, Ordered

LEMMA OrderNext == TypeOK /\ AheadInv /\ InOrderInv /\ [Next]_vars => InOrderInv'
<1> SUFFICES ASSUME TypeOK, AheadInv, InOrderInv, [Next]_vars
             PROVE  InOrderInv'
  OBVIOUS
<1>1. CASE FatherStarts /\ UNCHANGED restarts
  <2>1. Commands(0, cycle, "stop") /\ father = "start"
    BY <1>1 DEF FatherStarts
  <2>2. cycle \in Nat /\ 0 \in Ids
    BY DEF TypeOK, Ids
  <2>5. UNCHANGED <<results, child, about>>
    BY <1>1 DEF FatherStarts, childVars
  <2>6. \A n : Current(n) => n < cycle
    BY <2>1 DEF Current
  <2>7. ASSUME NEW k \in DOMAIN commands', commands'[k].id = 0
        PROVE  /\ \A j \in DOMAIN results' : results'[j] < commands'[k].n
               /\ Recording' => about' < commands'[k].n
               /\ \A j \in DOMAIN commands' :
                    j < k /\ commands'[j].id = 0 => commands'[j].n < commands'[k].n
    <3>0. \A j \in DOMAIN commands' : j < k => j \in DOMAIN commands
                                              /\ commands'[j] = commands[j]
      BY <2>1, <2>2, Sent
    <3>1. CASE k \in DOMAIN commands /\ commands'[k] = commands[k]
      BY <2>5, <2>7, <3>0, <3>1 DEF InOrderInv, Recording
    <3>2. CASE commands'[k] = [id |-> 0, n |-> cycle]
      BY <2>5, <2>6, <2>7, <3>0, <3>2 DEF AheadInv, Recording
    <3> QED
      BY <2>1, <2>2, <3>1, <3>2, Sent
  <2> QED
    BY <2>5, <2>7 DEF InOrderInv, Ordered, Recording
<1>2. CASE FatherStops /\ UNCHANGED restarts
  <2>1. Commands(1, cycle, "wait") /\ cycle \in Nat /\ 1 \in Ids
    BY <1>2 DEF FatherStops, TypeOK, Ids
  <2>2. \A k \in DOMAIN commands' :
          commands'[k].id = 0 =>
            /\ k \in DOMAIN commands /\ commands'[k] = commands[k]
            /\ \A j \in DOMAIN commands' : j < k => j \in DOMAIN commands
                                                  /\ commands'[j] = commands[j]
    BY <2>1, Sent
  <2> QED
    BY <1>2, <2>2, SameOrder DEF FatherStops, childVars, Recording
<1>3. CASE FatherWaits /\ UNCHANGED restarts
  <2>1. results \in Seq(Nat) /\ results # <<>>
    BY <1>3 DEF FatherWaits, TypeOK
  <2>2. \A k \in DOMAIN results' : /\ k \in Nat /\ k + 1 \in DOMAIN results
                                  /\ results'[k] = results[k + 1]
    BY <1>3, <2>1, Dropped DEF FatherWaits
  <2>3. \A j, k \in DOMAIN results' : j < k => results'[j] < results'[k]
    BY <2>2 DEF InOrderInv, Ordered
  <2>4. UNCHANGED <<commands, child, about>>
    BY <1>3 DEF FatherWaits, childVars
  <2> QED
    BY <2>2, <2>3, <2>4 DEF InOrderInv, Ordered, Recording
<1>4. CASE FatherSpeaks /\ UNCHANGED restarts
  <2>1. Commands(2, result, "start") /\ result \in Nat /\ 2 \in Ids
    BY <1>4 DEF FatherSpeaks, TypeOK, Ids
  <2>2. \A k \in DOMAIN commands' :
          commands'[k].id = 0 =>
            /\ k \in DOMAIN commands /\ commands'[k] = commands[k]
            /\ \A j \in DOMAIN commands' : j < k => j \in DOMAIN commands
                                                  /\ commands'[j] = commands[j]
    BY <2>1, Sent
  <2> QED
    BY <1>4, <2>2, SameOrder DEF FatherSpeaks, childVars, Recording
<1>5. CASE ChildReceives /\ UNCHANGED restarts
  <2>1. UNCHANGED results /\ commands # <<>> /\ commands' = Tail(commands) /\ ~Recording
    BY <1>5 DEF ChildReceives, Recording
  <2>2. CASE Recording'
    <3>1. Head(commands).id = 0 /\ about' = Head(commands).n
      BY <1>5, <2>2 DEF ChildReceives, Recording, Fails
    <3>2. 1 \in DOMAIN commands /\ commands[1].id = 0 /\ about' = commands[1].n
      BY <2>1, <3>1, Taken
    <3>3. ASSUME NEW k \in DOMAIN commands', commands'[k].id = 0
          PROVE  /\ \A j \in DOMAIN results' : results'[j] < commands'[k].n
                 /\ about' < commands'[k].n
                 /\ \A j \in DOMAIN commands' :
                      j < k /\ commands'[j].id = 0 => commands'[j].n < commands'[k].n
      <4>1. k \in Nat \ {0} /\ k + 1 \in DOMAIN commands /\ commands'[k] = commands[k + 1]
        BY <2>1, <3>3, Taken
      <4>2. about' < commands'[k].n
        <5>1. 1 < k + 1
          BY <4>1
        <5> QED
          BY <3>2, <3>3, <4>1, <5>1 DEF InOrderInv
      <4>3. ASSUME NEW j \in DOMAIN commands', j < k, commands'[j].id = 0
            PROVE  commands'[j].n < commands'[k].n
        <5>1. j \in Nat /\ j + 1 \in DOMAIN commands /\ commands'[j] = commands[j + 1]
          BY <2>1, <4>3, Taken
        <5>2. j + 1 < k + 1
          BY <4>1, <4>3, <5>1
        <5> QED
          BY <3>3, <4>1, <4>3, <5>1, <5>2 DEF InOrderInv
      <4> QED
        BY <2>1, <3>3, <4>1, <4>2, <4>3 DEF InOrderInv
    <3>4. \A j \in DOMAIN results' : results'[j] < about'
      BY <2>1, <3>2 DEF InOrderInv
    <3> QED
      BY <2>1, <3>3, <3>4 DEF InOrderInv, Ordered
  <2>3. CASE ~Recording'
    BY <2>1, <2>3, TakenOrder
  <2> QED
    BY <2>2, <2>3
<1>6. CASE ChildRecords /\ UNCHANGED restarts
  <2>1. CASE commands # <<>> /\ commands' = Tail(commands)
    BY <1>6, <2>1, TakenOrder DEF ChildRecords, Recording
  <2>2. CASE UNCHANGED commands
    BY <1>6, <2>2 DEF ChildRecords, Recording, InOrderInv, Ordered
  <2> QED
    BY <1>6, <2>1, <2>2 DEF ChildRecords
<1>7. CASE ChildAsks /\ UNCHANGED restarts
  <2>1. CASE results' = Append(results, about) /\ child' = "idle"
    <3>1. results \in Seq(Nat) /\ about \in Nat
      BY DEF TypeOK
    <3>2. PICK l \in Nat : l = Len(results)
      BY <3>1, Appended
    <3>3. /\ DOMAIN results = 1 .. l /\ DOMAIN results' = 1 .. l + 1
          /\ \A i \in 1 .. l : results'[i] = results[i]
          /\ results'[l + 1] = about
      BY <2>1, <3>1, <3>2, Appended
    <3>4. Recording /\ UNCHANGED commands /\ ~Recording'
      BY <1>7, <2>1 DEF ChildAsks, Recording
    <3>5. \A j \in 1 .. l : results[j] < about
      BY <3>3, <3>4 DEF InOrderInv
    <3>6. \A j, k \in 1 .. l : j < k => results[j] < results[k]
      BY <3>3 DEF InOrderInv, Ordered
    <3>7. \A j, k \in 1 .. l + 1 : j < k => results'[j] < results'[k]
      BY <3>3, <3>5, <3>6
    <3>8. \A k \in DOMAIN commands' :
            commands'[k].id = 0 => \A j \in DOMAIN results' : results'[j] < commands'[k].n
      BY <3>3, <3>4 DEF InOrderInv
    <3> QED
      BY <3>3, <3>4, <3>7, <3>8 DEF InOrderInv, Ordered
  <2>2. CASE UNCHANGED results
    BY <1>7, <2>2 DEF ChildAsks, Recording, InOrderInv, Ordered
  <2> QED
    BY <1>7, <2>1, <2>2 DEF ChildAsks
<1>8. CASE ChildSpeaks /\ UNCHANGED restarts
  BY <1>8 DEF ChildSpeaks, Fails, Recording, InOrderInv, Ordered
<1>9. CASE Restart
  BY <1>9 DEF Restart, Recording, InOrderInv, Ordered
<1>10. CASE UNCHANGED vars
  BY <1>10 DEF vars, fatherVars, childVars, Recording, InOrderInv, Ordered
<1> QED
  BY <1>1, <1>2, <1>3, <1>4, <1>5, <1>6, <1>7, <1>8, <1>9, <1>10
     DEF Next, Father, Child

\* Everything ahead of the father in a step that moves nothing towards it.
LEMMA AheadKept ==
    ASSUME TypeOK, AheadInv, UNCHANGED results,
           \A n \in Nat : Current(n) => CurrentNext(n),
           Recording' => Recording /\ about' = about,
           \A k \in DOMAIN commands' :
             commands'[k].id = 0 =>
               \E j \in DOMAIN commands : commands'[k] = commands[j],
           father' = "speak" => father = "speak" /\ UNCHANGED <<cycle, restarts, result>>
    PROVE  AheadInv'
<1>1. ASSUME NEW j \in DOMAIN results'
      PROVE  CurrentNext(results'[j])
  <2>1. PICK n \in Nat : n = results[j]
    BY <1>1, Numbers
  <2>2. Current(n)
    BY <1>1, <2>1 DEF AheadInv
  <2>3. CurrentNext(n) /\ results'[j] = n
    BY <2>1, <2>2
  <2> QED
    BY <2>3 DEF Current, CurrentNext
<1>2. ASSUME Recording'
      PROVE  CurrentNext(about')
  <2>1. PICK n \in Nat : n = about
    BY Numbers
  <2>2. Current(n)
    BY <1>2, <2>1 DEF AheadInv
  <2>3. CurrentNext(n) /\ about' = n
    BY <1>2, <2>1, <2>2
  <2> QED
    BY <2>3 DEF Current, CurrentNext
<1>3. ASSUME NEW k \in DOMAIN commands', commands'[k].id = 0
      PROVE  CurrentNext(commands'[k].n)
  <2>1. PICK j \in DOMAIN commands : commands'[k] = commands[j]
    BY <1>3
  <2>2. PICK n \in Nat : n = commands[j].n
    BY <2>1, Numbers
  <2>3. Current(n)
    BY <1>3, <2>1, <2>2 DEF AheadInv
  <2>4. CurrentNext(n) /\ commands'[k].n = n
    BY <2>1, <2>2, <2>3
  <2> QED
    BY <2>4 DEF Current, CurrentNext
<1> QED
  BY <1>1, <1>2, <1>3 DEF AheadInv, Current, CurrentNext

LEMMA AheadNext == TypeOK /\ AheadInv /\ InOrderInv /\ [Next]_vars => AheadInv'
<1> SUFFICES ASSUME TypeOK, AheadInv, InOrderInv, [Next]_vars
             PROVE  AheadInv'
  OBVIOUS
<1>0. cycle \in Nat /\ restarts \in Nat /\ result \in Nat
  BY Numbers
<1>1. CASE FatherStarts /\ UNCHANGED restarts
  <2>1. Commands(0, cycle, "stop") /\ 0 \in Ids /\ father = "start"
    BY <1>1 DEF FatherStarts, Ids
  <2>2. father' \in {"stop", "gone"}
    BY <1>0, <2>1, Sent
  <2>3. UNCHANGED <<cycle, restarts, result, results, child, about>>
    BY <1>1 DEF FatherStarts, childVars
  <2>4. \A n : Current(n) => CurrentNext(n)
    BY <2>2, <2>3 DEF Current, CurrentNext
  <2>5. ASSUME NEW k \in DOMAIN commands', commands'[k].id = 0
        PROVE  CurrentNext(commands'[k].n)
    <3>1. CASE k \in DOMAIN commands /\ commands'[k] = commands[k]
      <4>1. Current(commands[k].n)
        BY <2>5, <3>1 DEF AheadInv
      <4> QED
        BY <2>2, <2>3, <3>1, <4>1 DEF Current, CurrentNext
    <3>2. CASE commands'[k] = [id |-> 0, n |-> cycle]
      BY <1>0, <2>2, <2>3, <3>2 DEF Current, CurrentNext
    <3> QED
      BY <1>0, <2>1, <3>1, <3>2, Sent
  <2>6. \A j \in DOMAIN results' : Current(results[j]) => CurrentNext(results'[j])
    BY <2>2, <2>3 DEF Current, CurrentNext
  <2>7. Recording' => Recording /\ (Current(about) => CurrentNext(about'))
    BY <2>2, <2>3 DEF Current, CurrentNext, Recording
  <2> QED
    BY <2>2, <2>3, <2>5, <2>6, <2>7 DEF AheadInv, Current, CurrentNext
<1>2. CASE FatherStops /\ UNCHANGED restarts
  <2>1. Commands(1, cycle, "wait") /\ 1 \in Ids /\ father = "stop"
    BY <1>2 DEF FatherStops, Ids
  <2>2. father' \in {"wait", "gone"}
    BY <1>0, <2>1, Sent
  <2>3. \A k \in DOMAIN commands' :
          commands'[k].id = 0 => \E j \in DOMAIN commands : commands'[k] = commands[j]
    BY <1>0, <2>1, Sent
  <2>4. UNCHANGED <<cycle, restarts, result, results, child, about>>
    BY <1>2 DEF FatherStops, childVars
  <2>5. \A n \in Nat : Current(n) => CurrentNext(n)
    BY <2>2, <2>4 DEF Current, CurrentNext
  <2>6. Recording' => Recording /\ about' = about
    BY <2>4 DEF Recording
  <2> QED
    BY <2>2, <2>3, <2>4, <2>5, <2>6, AheadKept
<1>3. CASE FatherWaits /\ UNCHANGED restarts
  <2>1. results \in Seq(Nat) /\ results # <<>>
    BY <1>3 DEF FatherWaits, TypeOK
  <2>2. /\ 1 \in DOMAIN results /\ result' = results[1] /\ result' \in Nat
        /\ \A k \in DOMAIN results' : /\ k \in Nat \ {0} /\ k + 1 \in DOMAIN results
                                     /\ results'[k] = results[k + 1]
    BY <1>3, <2>1, Dropped DEF FatherWaits
  <2>3. UNCHANGED <<cycle, restarts, commands, child, about>> /\ father' = "speak"
    BY <1>3 DEF FatherWaits, childVars
  <2>4. \A j \in DOMAIN results' : results[1] < results'[j]
    <3>1. \A j \in DOMAIN results' : 1 < j + 1
      BY <2>2
    <3> QED
      BY <2>2, <3>1 DEF InOrderInv, Ordered
  <2>5. \A j \in DOMAIN results' : CurrentNext(results'[j])
    BY <2>2, <2>3, <2>4 DEF AheadInv, Current, CurrentNext
  <2>6. Recording' => CurrentNext(about')
    BY <2>2, <2>3 DEF AheadInv, InOrderInv, Current, CurrentNext, Recording
  <2>7. \A k \in DOMAIN commands' : commands'[k].id = 0 => CurrentNext(commands'[k].n)
    BY <2>2, <2>3 DEF AheadInv, InOrderInv, Current, CurrentNext
  <2>8. cycle' - restarts' <= result' /\ result' <= cycle'
    BY <2>2, <2>3 DEF AheadInv, Current, CurrentNext
  <2> QED
    BY <2>5, <2>6, <2>7, <2>8 DEF AheadInv, Current, CurrentNext
<1>4. CASE FatherSpeaks /\ UNCHANGED restarts
  <2>1. Commands(2, result, "start") /\ 2 \in Ids /\ father = "speak"
    BY <1>4 DEF FatherSpeaks, Ids
  <2>2. father' \in {"start", "gone"} /\ cycle' = cycle + 1
    BY <1>0, <1>4, <2>1, Sent DEF FatherSpeaks
  <2>3. \A k \in DOMAIN commands' :
          commands'[k].id = 0 => \E j \in DOMAIN commands : commands'[k] = commands[j]
    BY <1>0, <2>1, Sent
  <2>4. UNCHANGED <<restarts, result, results, child, about>>
    BY <1>4 DEF FatherSpeaks, childVars
  <2>5. \A n \in Nat : Current(n) => CurrentNext(n)
    BY <1>0, <2>1, <2>2, <2>4 DEF AheadInv, Current, CurrentNext
  <2>6. Recording' => Recording /\ about' = about
    BY <2>4 DEF Recording
  <2> QED
    BY <2>2, <2>3, <2>4, <2>5, <2>6, AheadKept
<1>5. CASE ChildReceives /\ UNCHANGED restarts
  <2>1. /\ UNCHANGED <<results, father, cycle, result, restarts>>
        /\ commands # <<>> /\ commands' = Tail(commands) /\ ~Recording
    BY <1>5 DEF ChildReceives, Recording, fatherVars
  <2>2. \A n : Current(n) => CurrentNext(n)
    BY <2>1 DEF Current, CurrentNext
  <2>3. \A k \in DOMAIN commands' : \E j \in DOMAIN commands : commands'[k] = commands[j]
    BY <2>1, Taken
  <2>4. CASE Recording'
    <3>1. Head(commands).id = 0 /\ about' = Head(commands).n
      BY <1>5, <2>4 DEF ChildReceives, Recording, Fails
    <3>2. 1 \in DOMAIN commands /\ commands[1].id = 0 /\ about' = commands[1].n
      BY <2>1, <3>1, Taken
    <3>3. CurrentNext(about')
      BY <2>1, <3>2 DEF AheadInv, Current, CurrentNext
    <3>4. \A k \in DOMAIN commands' : commands'[k].id = 0 => CurrentNext(commands'[k].n)
      BY <2>1, <2>3 DEF AheadInv, Current, CurrentNext
    <3>5. \A j \in DOMAIN results' : CurrentNext(results'[j])
      BY <2>1 DEF AheadInv, Current, CurrentNext
    <3> QED
      BY <2>1, <3>3, <3>4, <3>5 DEF AheadInv, Current, CurrentNext
  <2>5. CASE ~Recording'
    BY <2>1, <2>2, <2>3, <2>5, AheadKept
  <2> QED
    BY <2>4, <2>5
<1>6. CASE ChildRecords /\ UNCHANGED restarts
  <2>1. /\ UNCHANGED <<results, father, cycle, result, restarts, about>> /\ Recording
    BY <1>6 DEF ChildRecords, Recording, fatherVars
  <2>2. \A k \in DOMAIN commands' : \E j \in DOMAIN commands : commands'[k] = commands[j]
    BY <1>6, Taken DEF ChildRecords
  <2>3. \A n : Current(n) => CurrentNext(n)
    BY <2>1 DEF Current, CurrentNext
  <2> QED
    BY <2>1, <2>2, <2>3, AheadKept
<1>7. CASE ChildAsks /\ UNCHANGED restarts
  <2>1. /\ UNCHANGED <<father, cycle, result, restarts, commands>>
        /\ Recording /\ ~Recording'
    BY <1>7 DEF ChildAsks, Recording, fatherVars
  <2>2. \A j \in DOMAIN results' : CurrentNext(results'[j])
    <3>1. CASE results' = Append(results, about)
      <4>1. results \in Seq(Nat) /\ about \in Nat
        BY DEF TypeOK
      <4>2. PICK l \in Nat : l = Len(results)
        BY <4>1, Appended
      <4>3. /\ DOMAIN results = 1 .. l /\ DOMAIN results' = 1 .. l + 1
            /\ \A i \in 1 .. l : results'[i] = results[i]
            /\ results'[l + 1] = about
        BY <3>1, <4>1, <4>2, Appended
      <4>4. \A j \in DOMAIN results' : j \in 1 .. l \/ j = l + 1
        BY <4>3
      <4> QED
        BY <2>1, <4>3, <4>4 DEF AheadInv, Current, CurrentNext
    <3>2. CASE UNCHANGED results
      BY <2>1, <3>2 DEF AheadInv, Current, CurrentNext
    <3> QED
      BY <1>7, <3>1, <3>2 DEF ChildAsks
  <2>3. \A k \in DOMAIN commands' : commands'[k].id = 0 => CurrentNext(commands'[k].n)
    BY <2>1 DEF AheadInv, Current, CurrentNext
  <2> QED
    BY <2>1, <2>2, <2>3 DEF AheadInv, Current, CurrentNext
<1>8. CASE ChildSpeaks /\ UNCHANGED restarts
  BY <1>8 DEF ChildSpeaks, Fails, Recording, AheadInv, Current, CurrentNext, fatherVars
<1>9. CASE Restart
  <2>1. /\ UNCHANGED <<results, commands>> /\ father' = "start" /\ ~Recording'
        /\ cycle' = cycle + 1 /\ restarts' = restarts + 1
    BY <1>9 DEF Restart, Recording
  <2>2. \A n \in Nat : Current(n) => CurrentNext(n)
    BY <1>0, <2>1 DEF Current, CurrentNext
  <2> QED
    BY <2>1, <2>2, AheadKept
<1>10. CASE UNCHANGED vars
  BY <1>10 DEF vars, fatherVars, childVars, Recording, AheadInv, Current, CurrentNext
<1> QED
  BY <1>1, <1>2, <1>3, <1>4, <1>5, <1>6, <1>7, <1>8, <1>9, <1>10
     DEF Next, Father, Child

LEMMA AheadImplies == TypeOK /\ AheadInv => ResultIsCurrent
BY DEF TypeOK, AheadInv, ResultIsCurrent

\* For any garbage, faults and cycles: the result the father speaks is of its own
\* cycle, or late by one cycle for every restart.
THEOREM ResultIsCurrentHolds == Spec => []ResultIsCurrent
<1> QED
  BY TypeInit, TypeNext, AheadInit, AheadNext, OrderNext, AheadImplies, PTL DEF Spec

-----------------------------------------------------------------------------
(* The texts are spoken in order *)

\* Recording n is done with: all that is still ahead of the father, or in its
\* hands, is later.
Later(n) ==
    /\ \A j \in DOMAIN results : n < results[j]
    /\ Recording => n < about
    /\ \A k \in DOMAIN commands : commands[k].id = 0 => n < commands[k].n
    /\ n <= cycle /\ (father = "start" => n < cycle)
    /\ father = "speak" => n < result

\* The same after the step.
LaterNext(n) ==
    /\ \A j \in DOMAIN results' : n < results'[j]
    /\ Recording' => n < about'
    /\ \A k \in DOMAIN commands' : commands'[k].id = 0 => n < commands'[k].n
    /\ n <= cycle' /\ (father' = "start" => n < cycle')
    /\ father' = "speak" => n < result'

\* What was spoken, the text being spoken and those to speak are in order, and
\* done with.
SpeakInv ==
    /\ Ordered(spoken)
    /\ \A i \in DOMAIN spoken : Later(spoken[i])
    /\ child = "speak" => Later(about) /\ \A i \in DOMAIN spoken : spoken[i] < about
    /\ \A k \in DOMAIN commands :
         commands[k].id = 2 =>
           /\ Later(commands[k].n)
           /\ \A i \in DOMAIN spoken : spoken[i] < commands[k].n
           /\ child = "speak" => about < commands[k].n
           /\ \A j \in DOMAIN commands :
                j < k /\ commands[j].id = 2 => commands[j].n < commands[k].n

LEMMA SpeakInit == Init => SpeakInv
<1> SUFFICES ASSUME Init
             PROVE  SpeakInv
  OBVIOUS
<1>1. DOMAIN commands = {} /\ DOMAIN spoken = {} /\ child = "idle"
  BY DEF Init
<1> QED
  BY <1>1 DEF SpeakInv, Ordered

LEMMA SpokenTyped ==
    ASSUME TypeOK
    PROVE  DOMAIN spoken \subseteq Nat \ {0} /\ \A i \in DOMAIN spoken : spoken[i] \in Nat
<1>1. spoken \in Seq(Nat)
  BY DEF TypeOK
<1> QED
  BY <1>1, Members

\* A step keeps the order if what it leaves behind the father stays there.
LEMMA LaterKept ==
    ASSUME TypeOK, [Next]_vars, AheadInv, InOrderInv
    PROVE  \A n \in Nat : Later(n) => LaterNext(n)
<1> SUFFICES ASSUME NEW n \in Nat, Later(n)
             PROVE  LaterNext(n)
  OBVIOUS
<1>0. cycle \in Nat /\ restarts \in Nat /\ result \in Nat
  BY Numbers
<1>1. CASE FatherStarts /\ UNCHANGED restarts
  <2>1. Commands(0, cycle, "stop") /\ 0 \in Ids /\ father = "start"
    BY <1>1 DEF FatherStarts, Ids
  <2>2. father' \in {"stop", "gone"}
    BY <1>0, <2>1, Sent
  <2>3. UNCHANGED <<cycle, result, results, child, about>>
    BY <1>1 DEF FatherStarts, childVars
  <2>4. ASSUME NEW k \in DOMAIN commands', commands'[k].id = 0
        PROVE  n < commands'[k].n
    <3>1. CASE k \in DOMAIN commands /\ commands'[k] = commands[k]
      BY <2>4, <3>1 DEF Later
    <3>2. CASE commands'[k] = [id |-> 0, n |-> cycle]
      BY <2>1, <3>2 DEF Later
    <3> QED
      BY <1>0, <2>1, <3>1, <3>2, Sent
  <2> QED
    BY <2>2, <2>3, <2>4 DEF Later, LaterNext, Recording
<1>2. CASE FatherStops /\ UNCHANGED restarts
  <2>1. Commands(1, cycle, "wait") /\ 1 \in Ids
    BY <1>2 DEF FatherStops, Ids
  <2>2. father' \in {"wait", "gone"}
    BY <1>0, <2>1, Sent
  <2>3. UNCHANGED <<cycle, result, results, child, about>>
    BY <1>2 DEF FatherStops, childVars
  <2>4. \A k \in DOMAIN commands' :
          commands'[k].id = 0 => k \in DOMAIN commands /\ commands'[k] = commands[k]
    BY <1>0, <2>1, Sent
  <2> QED
    BY <2>2, <2>3, <2>4 DEF Later, LaterNext, Recording
<1>3. CASE FatherWaits /\ UNCHANGED restarts
  <2>1. results \in Seq(Nat) /\ results # <<>>
    BY <1>3 DEF FatherWaits, TypeOK
  <2>2. /\ 1 \in DOMAIN results /\ result' = results[1]
        /\ \A k \in DOMAIN results' : k + 1 \in DOMAIN results /\ results'[k] = results[k + 1]
    BY <1>3, <2>1, Dropped DEF FatherWaits
  <2>3. UNCHANGED <<cycle, commands, child, about>> /\ father' = "speak"
    BY <1>3 DEF FatherWaits, childVars
  <2> QED
    BY <2>2, <2>3 DEF Later, LaterNext, Recording
<1>4. CASE FatherSpeaks /\ UNCHANGED restarts
  <2>1. Commands(2, result, "start") /\ 2 \in Ids
    BY <1>4 DEF FatherSpeaks, Ids
  <2>2. father' \in {"start", "gone"} /\ cycle' = cycle + 1
    BY <1>0, <1>4, <2>1, Sent DEF FatherSpeaks
  <2>3. UNCHANGED <<result, results, child, about>>
    BY <1>4 DEF FatherSpeaks, childVars
  <2>4. \A k \in DOMAIN commands' :
          commands'[k].id = 0 => k \in DOMAIN commands /\ commands'[k] = commands[k]
    BY <1>0, <2>1, Sent
  <2> QED
    BY <1>0, <2>2, <2>3, <2>4 DEF Later, LaterNext, Recording
<1>5. CASE ChildReceives /\ UNCHANGED restarts
  <2>1. /\ UNCHANGED <<results, father, cycle, result>>
        /\ commands # <<>> /\ commands' = Tail(commands) /\ ~Recording
    BY <1>5 DEF ChildReceives, Recording, fatherVars
  <2>2. \A k \in DOMAIN commands' : \E j \in DOMAIN commands : commands'[k] = commands[j]
    BY <2>1, Taken
  <2>3. Recording' => n < about'
    <3>1. SUFFICES ASSUME Recording'
                   PROVE  n < about'
      OBVIOUS
    <3>2. Head(commands).id = 0 /\ about' = Head(commands).n
      BY <1>5, <3>1 DEF ChildReceives, Recording, Fails
    <3>3. 1 \in DOMAIN commands /\ commands[1].id = 0 /\ about' = commands[1].n
      BY <2>1, <3>2, Taken
    <3> QED
      BY <3>3 DEF Later
  <2> QED
    BY <2>1, <2>2, <2>3 DEF Later, LaterNext
<1>6. CASE ChildRecords /\ UNCHANGED restarts
  <2>1. /\ UNCHANGED <<results, father, cycle, result, about>> /\ Recording
    BY <1>6 DEF ChildRecords, Recording, fatherVars
  <2>2. \A k \in DOMAIN commands' : \E j \in DOMAIN commands : commands'[k] = commands[j]
    BY <1>6, Taken DEF ChildRecords
  <2> QED
    BY <2>1, <2>2 DEF Later, LaterNext
<1>7. CASE ChildAsks /\ UNCHANGED restarts
  <2>1. /\ UNCHANGED <<father, cycle, result, commands>>
        /\ Recording /\ ~Recording'
    BY <1>7 DEF ChildAsks, Recording, fatherVars
  <2>2. \A j \in DOMAIN results' : n < results'[j]
    <3>1. CASE results' = Append(results, about)
      <4>1. results \in Seq(Nat) /\ about \in Nat
        BY DEF TypeOK
      <4>2. PICK l \in Nat : l = Len(results)
        BY <4>1, Appended
      <4>3. /\ DOMAIN results = 1 .. l /\ DOMAIN results' = 1 .. l + 1
            /\ \A i \in 1 .. l : results'[i] = results[i]
            /\ results'[l + 1] = about
        BY <3>1, <4>1, <4>2, Appended
      <4>4. \A j \in DOMAIN results' : j \in 1 .. l \/ j = l + 1
        BY <4>3
      <4> QED
        BY <2>1, <4>3, <4>4 DEF Later
    <3>2. CASE UNCHANGED results
      BY <3>2 DEF Later
    <3> QED
      BY <1>7, <3>1, <3>2 DEF ChildAsks
  <2> QED
    BY <2>1, <2>2 DEF Later, LaterNext
<1>8. CASE ChildSpeaks /\ UNCHANGED restarts
  BY <1>8 DEF ChildSpeaks, Fails, Recording, Later, LaterNext, fatherVars
<1>9. CASE Restart
  BY <1>0, <1>9 DEF Restart, Recording, Later, LaterNext
<1>10. CASE UNCHANGED vars
  BY <1>10 DEF vars, fatherVars, childVars, Recording, Later, LaterNext
<1> QED
  BY <1>1, <1>2, <1>3, <1>4, <1>5, <1>6, <1>7, <1>8, <1>9, <1>10
     DEF Next, Father, Child

\* A step that puts no new text on the way: it takes d commands from the queue.
LEMMA SpeakKept ==
    ASSUME TypeOK, SpeakInv, UNCHANGED spoken, NEW d \in {0, 1},
           \A n \in Nat : Later(n) => LaterNext(n),
           child' = "speak" => child = "speak" /\ about' = about,
           \A k \in DOMAIN commands' :
             commands'[k].id = 2 =>
               k \in Nat /\ k + d \in DOMAIN commands /\ commands'[k] = commands[k + d]
    PROVE  SpeakInv'
<1>1. \A i \in DOMAIN spoken' : LaterNext(spoken'[i])
  BY SpokenTyped DEF SpeakInv
<1>2. child' = "speak" => LaterNext(about') /\ \A i \in DOMAIN spoken' : spoken'[i] < about'
  BY Numbers DEF SpeakInv
<1>3. ASSUME NEW k \in DOMAIN commands', commands'[k].id = 2
      PROVE  /\ LaterNext(commands'[k].n)
             /\ \A i \in DOMAIN spoken' : spoken'[i] < commands'[k].n
             /\ child' = "speak" => about' < commands'[k].n
             /\ \A j \in DOMAIN commands' :
                  j < k /\ commands'[j].id = 2 => commands'[j].n < commands'[k].n
  <2>1. k \in Nat /\ k + d \in DOMAIN commands /\ commands'[k] = commands[k + d]
    BY <1>3
  <2>2. PICK n \in Nat : n = commands[k + d].n
    BY <2>1, Numbers
  <2>3. Later(n) /\ (\A i \in DOMAIN spoken : spoken[i] < n) /\ (child = "speak" => about < n)
    BY <1>3, <2>1, <2>2 DEF SpeakInv
  <2>4. ASSUME NEW j \in DOMAIN commands', j < k, commands'[j].id = 2
        PROVE  commands'[j].n < commands'[k].n
    <3>1. j \in Nat /\ j + d \in DOMAIN commands /\ commands'[j] = commands[j + d]
      BY <2>4
    <3>2. j + d < k + d
      BY <2>1, <2>4, <3>1
    <3> QED
      BY <1>3, <2>1, <2>4, <3>1, <3>2 DEF SpeakInv
  <2> QED
    BY <2>1, <2>2, <2>3, <2>4
<1>4. Ordered(spoken)'
  BY DEF SpeakInv, Ordered
<1> QED
  BY <1>1, <1>2, <1>3, <1>4 DEF SpeakInv, Later, LaterNext

LEMMA SpeakNext ==
    TypeOK /\ AheadInv /\ InOrderInv /\ SpeakInv /\ [Next]_vars => SpeakInv'
<1> SUFFICES ASSUME TypeOK, AheadInv, InOrderInv, SpeakInv, [Next]_vars
             PROVE  SpeakInv'
  OBVIOUS
<1>0. /\ cycle \in Nat /\ restarts \in Nat /\ result \in Nat
      /\ \A n \in Nat : Later(n) => LaterNext(n)
  BY Numbers, LaterKept
<1>1. CASE FatherStarts /\ UNCHANGED restarts
  <2>1. Commands(0, cycle, "stop") /\ 0 \in Ids /\ UNCHANGED childVars
    BY <1>1 DEF FatherStarts, Ids
  <2>2. \A k \in DOMAIN commands' :
          commands'[k].id = 2 => k \in DOMAIN commands /\ commands'[k] = commands[k]
    BY <1>0, <2>1, Sent
  <2>3. \A k \in DOMAIN commands' :
          commands'[k].id = 2 => /\ k \in Nat /\ k + 0 \in DOMAIN commands
                                 /\ commands'[k] = commands[k + 0]
    BY <2>2, Numbers
  <2> QED
    BY <1>0, <2>1, <2>3, SpeakKept DEF childVars
<1>2. CASE FatherStops /\ UNCHANGED restarts
  <2>1. Commands(1, cycle, "wait") /\ 1 \in Ids /\ UNCHANGED childVars
    BY <1>2 DEF FatherStops, Ids
  <2>2. \A k \in DOMAIN commands' :
          commands'[k].id = 2 => k \in DOMAIN commands /\ commands'[k] = commands[k]
    BY <1>0, <2>1, Sent
  <2>3. \A k \in DOMAIN commands' :
          commands'[k].id = 2 => /\ k \in Nat /\ k + 0 \in DOMAIN commands
                                 /\ commands'[k] = commands[k + 0]
    BY <2>2, Numbers
  <2> QED
    BY <1>0, <2>1, <2>3, SpeakKept DEF childVars
<1>3. CASE FatherSpeaks /\ UNCHANGED restarts
  <2>1. Commands(2, result, "start") /\ 2 \in Ids /\ father = "speak"
    BY <1>3 DEF FatherSpeaks, Ids
  <2>2. UNCHANGED <<child, about, spoken, results, result, restarts>>
    BY <1>3 DEF FatherSpeaks, childVars
  <2>3. CASE father' = "gone"
    <3>1. UNCHANGED commands
      BY <2>1, <2>3 DEF Commands
    <3>2. \A k \in DOMAIN commands' :
            commands'[k].id = 2 => /\ k \in Nat /\ k + 0 \in DOMAIN commands
                                   /\ commands'[k] = commands[k + 0]
      BY <3>1, Numbers
    <3> QED
      BY <1>0, <2>2, <3>2, SpeakKept
  <2>4. CASE father' = "start"
    <3>1. cycle' = cycle + 1
      BY <1>3 DEF FatherSpeaks
    <3>2. LaterNext(result)
      <4>1. \A k \in DOMAIN commands' :
              commands'[k].id = 0 => k \in DOMAIN commands /\ commands'[k] = commands[k]
        BY <1>0, <2>1, Sent
      <4> QED
        BY <1>0, <2>1, <2>2, <2>4, <3>1, <4>1 DEF AheadInv, Current, LaterNext, Recording
    <3>3. \A n : Later(n) => n < result
      BY <2>1 DEF Later
    <3>4. ASSUME NEW k \in DOMAIN commands', commands'[k].id = 2
          PROVE  /\ LaterNext(commands'[k].n)
                 /\ \A i \in DOMAIN spoken' : spoken'[i] < commands'[k].n
                 /\ child' = "speak" => about' < commands'[k].n
                 /\ \A j \in DOMAIN commands' :
                      j < k /\ commands'[j].id = 2 => commands'[j].n < commands'[k].n
      <4>0. \A j \in DOMAIN commands' : j < k => j \in DOMAIN commands
                                                /\ commands'[j] = commands[j]
        BY <1>0, <2>1, Sent
      <4>1. CASE k \in DOMAIN commands /\ commands'[k] = commands[k]
        <5>1. commands[k].n \in Nat /\ Later(commands[k].n)
          BY <3>4, <4>1, Numbers DEF SpeakInv
        <5>2. LaterNext(commands'[k].n)
          BY <1>0, <4>1, <5>1
        <5> QED
          BY <2>2, <3>4, <4>0, <4>1, <5>2 DEF SpeakInv
      <4>2. CASE commands'[k] = [id |-> 2, n |-> result]
        BY <2>2, <3>2, <3>3, <4>0, <4>2 DEF SpeakInv
      <4> QED
        BY <1>0, <2>1, <4>1, <4>2, Sent
    <3>5. \A i \in DOMAIN spoken' : LaterNext(spoken'[i])
      BY <1>0, <2>2, SpokenTyped DEF SpeakInv
    <3>6. child' = "speak" => LaterNext(about') /\ \A i \in DOMAIN spoken' : spoken'[i] < about'
      BY <1>0, <2>2, Numbers DEF SpeakInv
    <3>7. Ordered(spoken)'
      BY <2>2 DEF SpeakInv, Ordered
    <3> QED
      BY <3>4, <3>5, <3>6, <3>7 DEF SpeakInv, Later, LaterNext
  <2> QED
    BY <1>0, <2>1, <2>3, <2>4, Sent
<1>4. CASE ChildReceives /\ UNCHANGED restarts
  <2>1. commands # <<>> /\ commands' = Tail(commands) /\ child = "idle" /\ UNCHANGED spoken
    BY <1>4 DEF ChildReceives
  <2>2. \A k \in DOMAIN commands' :
          /\ k \in Nat \ {0} /\ k + 1 \in DOMAIN commands /\ commands'[k] = commands[k + 1]
    BY <2>1, Taken
  <2>3. CASE child' = "speak"
    <3>1. Head(commands).id = 2 /\ about' = Head(commands).n
      BY <1>4, <2>3 DEF ChildReceives, Fails
    <3>2. 1 \in DOMAIN commands /\ commands[1].id = 2 /\ about' = commands[1].n
      BY <2>1, <3>1, Taken
    <3>3. LaterNext(about') /\ \A i \in DOMAIN spoken' : spoken'[i] < about'
      <4>1. Later(about') /\ about' \in Nat
        BY <3>2, Numbers DEF SpeakInv
      <4> QED
        BY <1>0, <2>1, <3>2, <4>1 DEF SpeakInv
    <3>4. ASSUME NEW k \in DOMAIN commands', commands'[k].id = 2
          PROVE  /\ LaterNext(commands'[k].n)
                 /\ \A i \in DOMAIN spoken' : spoken'[i] < commands'[k].n
                 /\ about' < commands'[k].n
                 /\ \A j \in DOMAIN commands' :
                      j < k /\ commands'[j].id = 2 => commands'[j].n < commands'[k].n
      <4>1. PICK n \in Nat : n = commands[k + 1].n
        BY <2>2, <3>4, Numbers
      <4>2. Later(n) /\ \A i \in DOMAIN spoken : spoken[i] < n
        BY <2>2, <3>4, <4>1 DEF SpeakInv
      <4>3. about' < commands'[k].n
        <5>1. 1 < k + 1
          BY <2>2
        <5> QED
          BY <2>2, <3>2, <3>4, <5>1 DEF SpeakInv
      <4>4. ASSUME NEW j \in DOMAIN commands', j < k, commands'[j].id = 2
            PROVE  commands'[j].n < commands'[k].n
        <5>1. j + 1 < k + 1
          BY <2>2, <4>4
        <5> QED
          BY <2>2, <3>4, <4>4, <5>1 DEF SpeakInv
      <4> QED
        BY <1>0, <2>1, <2>2, <4>1, <4>2, <4>3, <4>4
    <3>5. \A i \in DOMAIN spoken' : LaterNext(spoken'[i])
      BY <1>0, <2>1, SpokenTyped DEF SpeakInv
    <3>6. Ordered(spoken)'
      BY <2>1 DEF SpeakInv, Ordered
    <3> QED
      BY <3>3, <3>4, <3>5, <3>6 DEF SpeakInv, Later, LaterNext
  <2>4. CASE child' # "speak"
    BY <1>0, <2>1, <2>2, <2>4, SpeakKept
  <2> QED
    BY <2>3, <2>4
<1>5. CASE ChildRecords /\ UNCHANGED restarts
  <2>1. UNCHANGED spoken /\ child' # "speak"
    BY <1>5 DEF ChildRecords
  <2>2. CASE commands # <<>> /\ commands' = Tail(commands)
    <3>1. \A k \in DOMAIN commands' :
            k \in Nat /\ k + 1 \in DOMAIN commands /\ commands'[k] = commands[k + 1]
      BY <2>2, Taken
    <3> QED
      BY <1>0, <2>1, <3>1, SpeakKept
  <2>3. CASE UNCHANGED commands
    <3>1. \A k \in DOMAIN commands' :
            k \in Nat /\ k + 0 \in DOMAIN commands /\ commands'[k] = commands[k + 0]
      BY <2>3, Numbers
    <3> QED
      BY <1>0, <2>1, <3>1, SpeakKept
  <2> QED
    BY <1>5, <2>2, <2>3 DEF ChildRecords
<1>6. CASE ChildSpeaks /\ UNCHANGED restarts
  <2>1. UNCHANGED <<commands, about>> /\ child = "speak" /\ child' # "speak"
    BY <1>6 DEF ChildSpeaks, Fails
  <2>2. CASE spoken' = Append(spoken, about)
    <3>1. spoken \in Seq(Nat) /\ about \in Nat
      BY DEF TypeOK
    <3>2. PICK l \in Nat : l = Len(spoken)
      BY <3>1, Appended
    <3>3. /\ DOMAIN spoken = 1 .. l /\ DOMAIN spoken' = 1 .. l + 1
          /\ \A i \in 1 .. l : spoken'[i] = spoken[i] /\ spoken[i] \in Nat
          /\ spoken'[l + 1] = about
      BY <2>2, <3>1, <3>2, Appended
    <3>4. \A i \in DOMAIN spoken' : i \in 1 .. l \/ i = l + 1
      BY <3>3
    <3>5. \A i \in 1 .. l : spoken[i] < about /\ LaterNext(spoken[i])
      BY <1>0, <2>1, <3>3 DEF SpeakInv
    <3>6. LaterNext(about)
      BY <1>0, <2>1, <3>1 DEF SpeakInv
    <3>7. \A i \in DOMAIN spoken' : LaterNext(spoken'[i])
      BY <3>3, <3>4, <3>5, <3>6
    <3>8. \A i, j \in 1 .. l : i < j => spoken[i] < spoken[j]
      BY <3>3 DEF SpeakInv, Ordered
    <3>9. \A i, j \in 1 .. l + 1 : i < j => spoken'[i] < spoken'[j]
      BY <3>3, <3>5, <3>8
    <3>10. ASSUME NEW k \in DOMAIN commands', commands'[k].id = 2
           PROVE  /\ LaterNext(commands'[k].n)
                  /\ \A i \in DOMAIN spoken' : spoken'[i] < commands'[k].n
                  /\ \A j \in DOMAIN commands' :
                       j < k /\ commands'[j].id = 2 => commands'[j].n < commands'[k].n
      <4>1. commands[k].n \in Nat /\ Later(commands[k].n)
        BY <2>1, <3>10, Numbers DEF SpeakInv
      <4>2. /\ \A i \in 1 .. l : spoken[i] < commands[k].n
            /\ about < commands[k].n
        BY <2>1, <3>3, <3>10 DEF SpeakInv
      <4>3. \A i \in DOMAIN spoken' : spoken'[i] < commands'[k].n
        BY <2>1, <3>3, <3>4, <4>2
      <4> QED
        BY <1>0, <2>1, <3>10, <4>1, <4>3 DEF SpeakInv
    <3> QED
      BY <2>1, <3>3, <3>7, <3>9, <3>10 DEF SpeakInv, Ordered, Later, LaterNext
  <2>3. CASE UNCHANGED spoken
    <3>1. \A k \in DOMAIN commands' :
            k \in Nat /\ k + 0 \in DOMAIN commands /\ commands'[k] = commands[k + 0]
      BY <2>1, Numbers
    <3> QED
      BY <1>0, <2>1, <2>3, <3>1, SpeakKept
  <2> QED
    BY <1>6, <2>2, <2>3 DEF ChildSpeaks
<1>7. CASE \/ UNCHANGED vars \/ Restart
           \/ (FatherWaits \/ ChildAsks) /\ UNCHANGED restarts
  <2>1. /\ UNCHANGED <<spoken, commands>>
        /\ child' = "speak" => child = "speak" /\ about' = about
    BY <1>7 DEF vars, childVars, fatherVars, Restart, FatherWaits, ChildAsks
  <2>2. \A k \in DOMAIN commands' :
          k \in Nat /\ k + 0 \in DOMAIN commands /\ commands'[k] = commands[k + 0]
    BY <2>1, Numbers
  <2> QED
    BY <1>0, <2>1, <2>2, SpeakKept
<1> QED
  BY <1>1, <1>2, <1>3, <1>4, <1>5, <1>6, <1>7 DEF Next, Father, Child

-----------------------------------------------------------------------------
(* And each is spoken, if nothing fails and the program is not run again *)

\* How many messages the father has sent; how many of them the child has taken.
AtPlace == CASE father = "start" -> 0 [] father = "stop" -> 1 [] OTHER -> 2
SentOff == 3 * (cycle - 1) + AtPlace
TakenIn == SentOff - Len(commands)

\* The queue holds the last ones, in threes: start, stop and speak of each cycle.
Thirds(K) ==
    \A k \in 1 .. Len(commands) :
      /\ commands[k].id = (K + k - 1) % 3
      /\ commands[k].n = (K + k - 1) \div 3 + 1

\* A recording ends with the stop of its own cycle, or before it; the texts of
\* the cycles the child is through with are spoken.
Progress(K) ==
    /\ K >= 0
    /\ child \notin {"dead", "stuck"}
    /\ child = "record" => K % 3 = 1
    /\ child = "speak" => K % 3 = 0 /\ K > 0 /\ about = K \div 3
    /\ Len(spoken) = K \div 3 - (IF child = "speak" THEN 1 ELSE 0)
    /\ \A k \in DOMAIN spoken : spoken[k] = k

Undisturbed == failed = {} /\ restarts = 0
ExactInv == Undisturbed => father # "gone" /\ Thirds(TakenIn) /\ Progress(TakenIn)

LEMMA ExactInit == Init => ExactInv
<1> SUFFICES ASSUME Init
             PROVE  father # "gone" /\ Thirds(TakenIn) /\ Progress(TakenIn)
  BY DEF ExactInv
<1>1. TakenIn = 0 /\ Len(commands) = 0 /\ Len(spoken) = 0 /\ DOMAIN spoken = {}
  BY DEF Init, TakenIn, SentOff, AtPlace
<1> QED
  BY <1>1 DEF Init, Thirds, Progress

LEMMA Lengths ==
    ASSUME TypeOK
    PROVE  /\ Len(commands) \in Nat /\ Len(spoken) \in Nat /\ TakenIn \in Int /\ SentOff \in Int
           /\ DOMAIN commands = 1 .. Len(commands) /\ DOMAIN spoken = 1 .. Len(spoken)
<1> DEFINE S == [id : Ids, n : Nat]
<1>1. commands \in Seq(S) /\ spoken \in Seq(Nat) /\ cycle \in Nat
  BY DEF TypeOK
<1> HIDE DEF S
<1>2. /\ Len(commands) \in Nat /\ Len(spoken) \in Nat
      /\ DOMAIN commands = 1 .. Len(commands) /\ DOMAIN spoken = 1 .. Len(spoken)
  BY <1>1
<1>3. SentOff \in Int
  BY <1>1 DEF SentOff, AtPlace
<1> QED
  BY <1>2, <1>3 DEF TakenIn

\* The father's next message is the next of the threes.
LEMMA SentExactly ==
    ASSUME TypeOK, Undisturbed', Undisturbed, ExactInv,
           NEW id \in Ids, NEW n \in Nat, NEW next, next # "gone", Commands(id, n, next),
           id = SentOff % 3, n = SentOff \div 3 + 1, SentOff' = SentOff + 1 \/ father' # next,
           UNCHANGED childVars
    PROVE  ExactInv'
<1> DEFINE S == [id : Ids, n : Nat]
<1>1. father' = next /\ commands' = Append(commands, [id |-> id, n |-> n])
  BY DEF Commands, Fails, Undisturbed
<1>2. commands \in Seq(S) /\ [id |-> id, n |-> n] \in S
  BY DEF TypeOK
<1> HIDE DEF S
<1>3. PICK l \in Nat : l = Len(commands)
  BY <1>2, Appended
<1>4. /\ Len(commands') = l + 1
      /\ \A i \in 1 .. l : commands'[i] = commands[i]
      /\ commands'[l + 1] = [id |-> id, n |-> n]
  <2>1. Len(Append(commands, [id |-> id, n |-> n])) = Len(commands) + 1
    BY <1>2
  <2> QED
    BY <1>1, <1>2, <1>3, <2>1, Appended
<1>5. PICK K \in Int : K = TakenIn
  BY Lengths
<1>6. SentOff = K + l /\ TakenIn' = K
  BY <1>1, <1>3, <1>4, <1>5, Lengths DEF TakenIn
<1>7. Thirds(K) /\ Progress(K)
  BY <1>5 DEF ExactInv
<1>8. Thirds(K)'
  <2>1. ASSUME NEW k \in 1 .. l + 1
        PROVE  commands'[k].id = (K + k - 1) % 3 /\ commands'[k].n = (K + k - 1) \div 3 + 1
    <3>1. CASE k \in 1 .. l
      BY <1>3, <1>4, <1>7, <3>1 DEF Thirds
    <3>2. CASE k = l + 1
      <4>1. K + k - 1 = SentOff
        BY <1>6, <3>2
      <4> QED
        BY <1>4, <3>2, <4>1
    <3> QED
      BY <3>1, <3>2
  <2> QED
    BY <1>4, <2>1 DEF Thirds
<1>9. Progress(K)'
  BY <1>7 DEF Progress, childVars
<1> QED
  BY <1>1, <1>6, <1>8, <1>9 DEF ExactInv

\* What the child takes is one of the threes; the rest of them stays.
LEMMA TakenExactly ==
    ASSUME TypeOK, UNCHANGED <<father, cycle>>, commands # <<>>, commands' = Tail(commands),
           NEW CONSTANT K \in Int, K = TakenIn, Thirds(K)
    PROVE  /\ TakenIn' = K + 1 /\ Thirds(K + 1)'
           /\ Head(commands).id = K % 3 /\ Head(commands).n = K \div 3 + 1
<1> DEFINE S == [id : Ids, n : Nat]
<1>1. commands \in Seq(S)
  BY DEF TypeOK
<1> HIDE DEF S
<1>2. PICK l \in Nat \ {0} : l = Len(commands)
  BY <1>1, Dropped
<1>3. /\ Len(commands') = l - 1 /\ Head(commands) = commands[1]
      /\ \A i \in 1 .. l - 1 : commands'[i] = commands[i + 1]
  <2>1. Len(Tail(commands)) = Len(commands) - 1
    BY <1>1
  <2> QED
    BY <1>1, <1>2, <2>1, Dropped
<1>4. K \in Int /\ K = TakenIn /\ Thirds(K)
  OBVIOUS
<1>5. SentOff \in Int /\ SentOff' = SentOff
  BY Lengths DEF SentOff, AtPlace
<1>6. TakenIn' = K + 1
  BY <1>2, <1>3, <1>4, <1>5 DEF TakenIn
<1>7. \A k \in 1 .. l : /\ commands[k].id = (K + k - 1) % 3
                        /\ commands[k].n = (K + k - 1) \div 3 + 1
  BY <1>2, <1>4 DEF Thirds
<1>8. ASSUME NEW k \in 1 .. l - 1
      PROVE  /\ commands'[k].id = (K + 1 + k - 1) % 3
             /\ commands'[k].n = (K + 1 + k - 1) \div 3 + 1
  <2>1. k + 1 \in 1 .. l /\ K + (k + 1) - 1 = K + 1 + k - 1
    OBVIOUS
  <2>2. /\ commands[k + 1].id = (K + (k + 1) - 1) % 3
        /\ commands[k + 1].n = (K + (k + 1) - 1) \div 3 + 1
    BY <1>7, <2>1
  <2> QED
    BY <1>3, <2>1, <2>2
<1>9. 1 \in 1 .. l /\ K + 1 - 1 = K
  OBVIOUS
<1> QED
  BY <1>3, <1>4, <1>6, <1>7, <1>8, <1>9 DEF Thirds

\* A step that neither sends nor takes a message.
LEMMA ExactKept ==
    ASSUME TypeOK, UNCHANGED <<commands, cycle>>, AtPlace' = AtPlace, father' # "gone",
           Thirds(TakenIn), Progress(TakenIn)'
    PROVE  ExactInv'
BY DEF ExactInv, Thirds, TakenIn, SentOff

LEMMA ExactNext ==
    TypeOK /\ AheadInv /\ ExactInv /\ [Next]_vars => ExactInv'
<1> SUFFICES ASSUME TypeOK, AheadInv, ExactInv, [Next]_vars, Undisturbed'
             PROVE  ExactInv'
  BY DEF ExactInv
<1>0. /\ Undisturbed
      /\ cycle \in Nat /\ restarts = 0 /\ result \in Nat /\ about \in Nat
  <2>1. failed \subseteq failed' /\ restarts' >= restarts /\ restarts \in Nat
    BY DEF TypeOK, Next, Father, Child, FatherStarts, FatherStops, FatherWaits, FatherSpeaks,
           Commands, ChildReceives, ChildRecords, ChildAsks, ChildSpeaks, Restart, Fails, Works,
           vars
  <2>2. failed = {} /\ restarts = 0
    BY <2>1 DEF Undisturbed
  <2> QED
    BY <2>2, Numbers DEF Undisturbed
<1>a. PICK K \in Int : K = TakenIn
  BY Lengths
<1>b. father # "gone" /\ Thirds(K) /\ Progress(K)
  BY <1>0, <1>a DEF ExactInv
<1>c. ~Fails("card") /\ ~Fails("login") /\ ~Fails("queue") /\ ~Fails("file")
  BY DEF Fails, Undisturbed
<1>1. CASE FatherStarts /\ UNCHANGED restarts
  <2>1. /\ Commands(0, cycle, "stop") /\ 0 \in Ids /\ father = "start"
        /\ UNCHANGED <<childVars, cycle>>
    BY <1>1 DEF FatherStarts, Ids
  <2>2. SentOff = 3 * (cycle - 1) /\ (father' = "stop" => SentOff' = SentOff + 1)
    BY <1>0, <2>1 DEF SentOff, AtPlace
  <2>3. SentOff % 3 = 0 /\ SentOff \div 3 + 1 = cycle
    BY <1>0, <2>2
  <2> QED
    BY <1>0, <2>1, <2>2, <2>3, SentExactly
<1>2. CASE FatherStops /\ UNCHANGED restarts
  <2>1. /\ Commands(1, cycle, "wait") /\ 1 \in Ids /\ father = "stop"
        /\ UNCHANGED <<childVars, cycle>>
    BY <1>2 DEF FatherStops, Ids
  <2>2. SentOff = 3 * (cycle - 1) + 1 /\ (father' = "wait" => SentOff' = SentOff + 1)
    BY <1>0, <2>1 DEF SentOff, AtPlace
  <2>3. SentOff % 3 = 1 /\ SentOff \div 3 + 1 = cycle
    BY <1>0, <2>2
  <2> QED
    BY <1>0, <2>1, <2>2, <2>3, SentExactly
<1>3. CASE FatherSpeaks /\ UNCHANGED restarts
  <2>1. /\ Commands(2, result, "start") /\ 2 \in Ids /\ father = "speak"
        /\ UNCHANGED childVars /\ cycle' = cycle + 1
    BY <1>3 DEF FatherSpeaks, Ids
  <2>2. result = cycle
    BY <1>0, <2>1 DEF AheadInv
  <2>3. SentOff = 3 * (cycle - 1) + 2 /\ (father' = "start" => SentOff' = SentOff + 1)
    BY <1>0, <2>1 DEF SentOff, AtPlace
  <2>4. SentOff % 3 = 2 /\ SentOff \div 3 + 1 = cycle
    BY <1>0, <2>3
  <2> QED
    BY <1>0, <2>1, <2>2, <2>3, <2>4, SentExactly
<1>4. CASE FatherWaits /\ UNCHANGED restarts
  <2>1. /\ UNCHANGED <<commands, cycle, childVars>> /\ father = "wait" /\ father' = "speak"
    BY <1>4 DEF FatherWaits
  <2>2. AtPlace' = AtPlace /\ Progress(TakenIn)'
    <3>1. TakenIn' = TakenIn
      BY <2>1 DEF TakenIn, SentOff, AtPlace
    <3> QED
      BY <1>a, <1>b, <2>1, <3>1 DEF AtPlace, Progress, childVars
  <2> QED
    BY <1>a, <1>b, <2>1, <2>2, ExactKept
<1>5. CASE ChildReceives /\ UNCHANGED restarts
  <2>1. /\ commands # <<>> /\ commands' = Tail(commands) /\ child = "idle"
        /\ UNCHANGED <<father, cycle, spoken>>
    BY <1>5 DEF ChildReceives, fatherVars
  <2>2. /\ TakenIn' = K + 1 /\ Thirds(K + 1)'
        /\ Head(commands).id = K % 3 /\ Head(commands).n = K \div 3 + 1
    BY <1>a, <1>b, <2>1, TakenExactly
  <2>3. Progress(K + 1)'
    <3>1. CASE Head(commands).id = 0
      <4>1. child' = "record"
        BY <1>5, <1>c, <3>1 DEF ChildReceives
      <4>2. K % 3 = 0 /\ (K + 1) % 3 = 1 /\ (K + 1) \div 3 = K \div 3
        BY <2>2, <3>1
      <4> QED
        BY <1>b, <2>1, <4>1, <4>2 DEF Progress
    <3>2. CASE Head(commands).id = 1
      <4>1. child' = "idle"
        BY <1>5, <1>c, <2>1, <3>2 DEF ChildReceives
      <4>2. (K + 1) \div 3 = K \div 3
        BY <2>2, <3>2
      <4> QED
        BY <1>b, <2>1, <4>1, <4>2 DEF Progress
    <3>3. CASE Head(commands).id = 2
      <4>1. child' = "speak" /\ about' = Head(commands).n
        BY <1>5, <1>c, <3>3 DEF ChildReceives
      <4>2. K % 3 = 2 /\ (K + 1) % 3 = 0 /\ (K + 1) \div 3 = K \div 3 + 1
        BY <2>2, <3>3
      <4> QED
        BY <1>b, <2>1, <2>2, <4>1, <4>2, Lengths DEF Progress
    <3> QED
      BY <2>1, <3>1, <3>2, <3>3, HeadTyped DEF Ids
  <2> QED
    BY <1>b, <2>1, <2>2, <2>3 DEF ExactInv
<1>6. CASE ChildRecords /\ UNCHANGED restarts
  <2>1. UNCHANGED <<father, cycle, spoken>> /\ child = "record" /\ child' \in {"record", "ask"}
    BY <1>6 DEF ChildRecords, fatherVars
  <2>2. K % 3 = 1
    BY <1>b, <2>1 DEF Progress
  <2>3. CASE commands # <<>> /\ seen' = Head(commands).id /\ commands' = Tail(commands)
    <3>1. /\ TakenIn' = K + 1 /\ Thirds(K + 1)' /\ Head(commands).id = K % 3
      BY <1>a, <1>b, <2>1, <2>3, TakenExactly
    <3>2. child' = "ask"
      BY <1>6, <2>2, <2>3, <3>1 DEF ChildRecords
    <3>3. (K + 1) \div 3 = K \div 3
      BY <2>2
    <3>4. Progress(K + 1)'
      BY <1>b, <2>1, <3>2, <3>3 DEF Progress
    <3> QED
      BY <1>b, <2>1, <3>1, <3>4 DEF ExactInv
  <2>4. CASE UNCHANGED commands
    <3>1. AtPlace' = AtPlace /\ TakenIn' = TakenIn
      BY <2>1, <2>4 DEF AtPlace, TakenIn, SentOff
    <3>2. Progress(TakenIn)'
      BY <1>a, <1>b, <2>1, <2>2, <3>1 DEF Progress
    <3> QED
      BY <1>a, <1>b, <2>1, <2>4, <3>1, <3>2, ExactKept
  <2> QED
    BY <1>6, <2>3, <2>4 DEF ChildRecords
<1>7. CASE ChildAsks /\ UNCHANGED restarts
  <2>1. /\ UNCHANGED <<father, cycle, spoken, commands>> /\ child = "ask" /\ child' = "idle"
    BY <1>7, <1>c DEF ChildAsks, fatherVars
  <2>2. AtPlace' = AtPlace /\ TakenIn' = TakenIn
    BY <2>1 DEF AtPlace, TakenIn, SentOff
  <2>3. Progress(TakenIn)'
    BY <1>a, <1>b, <2>1, <2>2 DEF Progress
  <2> QED
    BY <1>a, <1>b, <2>1, <2>2, <2>3, ExactKept
<1>8. CASE ChildSpeaks /\ UNCHANGED restarts
  <2>1. /\ UNCHANGED <<father, cycle, commands>> /\ child = "speak" /\ child' = "idle"
        /\ spoken' = Append(spoken, about)
    BY <1>8, <1>c DEF ChildSpeaks, fatherVars
  <2>2. AtPlace' = AtPlace /\ TakenIn' = TakenIn
    BY <2>1 DEF AtPlace, TakenIn, SentOff
  <2>3. spoken \in Seq(Nat) /\ about \in Nat
    BY DEF TypeOK
  <2>4. PICK l \in Nat : l = Len(spoken)
    BY <2>3, Appended
  <2>5. /\ DOMAIN spoken = 1 .. l /\ DOMAIN spoken' = 1 .. l + 1 /\ Len(spoken') = l + 1
        /\ \A i \in 1 .. l : spoken'[i] = spoken[i]
        /\ spoken'[l + 1] = about
    BY <2>1, <2>3, <2>4, Appended
  <2>6. l = K \div 3 - 1 /\ about = K \div 3 /\ K >= 0 /\ K \div 3 \in Int
    BY <1>b, <2>1, <2>4 DEF Progress
  <2>7. \A k \in DOMAIN spoken' : spoken'[k] = k
    <3>1. \A k \in 1 .. l : spoken[k] = k
      BY <1>b, <2>5 DEF Progress
    <3>2. about = l + 1
      BY <2>6
    <3> QED
      BY <2>5, <3>1, <3>2
  <2>8. Progress(TakenIn)'
    <3>1. l + 1 = K \div 3
      BY <2>6
    <3> QED
      BY <1>a, <1>b, <2>1, <2>2, <2>5, <2>7, <3>1, <2>6 DEF Progress
  <2> QED
    BY <1>a, <1>b, <2>1, <2>2, <2>8, ExactKept
<1>9. CASE Restart
  BY <1>0, <1>9 DEF Restart, Undisturbed
<1>10. CASE UNCHANGED vars
  BY <1>10 DEF vars, fatherVars, childVars, ExactInv, Undisturbed, Thirds, Progress, TakenIn,
               SentOff, AtPlace
<1> QED
  BY <1>1, <1>2, <1>3, <1>4, <1>5, <1>6, <1>7, <1>8, <1>9, <1>10
     DEF Next, Father, Child

LEMMA SpokenImplies == TypeOK /\ SpeakInv /\ ExactInv => SpokenInOrder
BY DEF SpokenInOrder, SpeakInv, Ordered, ExactInv, Undisturbed, Progress

\* For any garbage, faults, cycles and restarts: texts are spoken in the order of
\* their recordings, none twice; and every one of them in its turn, unless something
\* failed or the program was run again.
THEOREM SpokenInOrderHolds == Spec => []SpokenInOrder
<1> QED
  BY TypeInit, TypeNext, AheadInit, AheadNext, OrderNext, SpeakInit, SpeakNext,
     ExactInit, ExactNext, SpokenImplies, PTL DEF Spec

=============================================================================
