-------------------------- MODULE WebClientProofs --------------------------
(***************************************************************************)
(* Proofs about WebClient: what a round of the child may see of the shared *)
(* memory, which sockets stay open and what becomes of a command, for any  *)
(* number of messages, commands and sockets and any size of the queue.     *)
(***************************************************************************)
EXTENDS WebClient, TLAPS

LEMMA Appended ==
    ASSUME NEW S, NEW s \in Seq(S), NEW x \in S
    PROVE  /\ Append(s, x) \in Seq(S) /\ Len(s) \in Nat
           /\ Len(Append(s, x)) = Len(s) + 1
           /\ DOMAIN s = 1 .. Len(s) /\ DOMAIN Append(s, x) = 1 .. Len(s) + 1
           /\ \A i \in 1 .. Len(s) : Append(s, x)[i] = s[i] /\ s[i] \in S
           /\ Append(s, x)[Len(s) + 1] = x
OBVIOUS

LEMMA Dropped ==
    ASSUME NEW S, NEW s \in Seq(S), s # <<>>
    PROVE  /\ Head(s) \in S /\ Head(s) = s[1] /\ 1 \in DOMAIN s
           /\ Tail(s) \in Seq(S) /\ Len(s) \in Nat \ {0}
           /\ DOMAIN s = 1 .. Len(s) /\ DOMAIN Tail(s) = 1 .. Len(s) - 1
           /\ \A i \in 1 .. Len(s) - 1 : Tail(s)[i] = s[i + 1]
OBVIOUS

LEMMA Lengths ==
    ASSUME NEW S, NEW s \in Seq(S)
    PROVE  Len(s) \in Nat /\ DOMAIN s = 1 .. Len(s) /\ \A k \in DOMAIN s : s[k] \in S
OBVIOUS

-----------------------------------------------------------------------------
(* Types; how much the child has copied; the sockets *)

\* How many cells the child has copied where it is.
Progress ==
    /\ cpc \in {"url", "code", "dead"} => copy = <<>>
    /\ cpc = "copy" => Len(copy) < 4
    /\ cpc \in {"connect", "transfer"} => Len(copy) = 4
    /\ cpc = "tag" => Len(copy) \in 4 .. 5
    /\ cpc = "send" => Len(copy) = 6

\* What is copied next is a number.
LEMMA CopiedTyped ==
    ASSUME TypeOK, Progress, cpc \in {"copy", "tag"}
    PROVE  /\ Len(copy) + 1 \in 1 .. 6
           /\ \/ \E c \in Cells : Copied(Len(copy) + 1) = mem[c]
              \/ \E k \in DOMAIN copy : Copied(Len(copy) + 1) = copy[k] /\ copy[k] = 0
           /\ Copied(Len(copy) + 1) \in {0} \cup {mem[c] : c \in Cells}
           /\ Copied(Len(copy) + 1) \in Nat
<1>0. PICK n \in Nat : n = Len(copy)
  BY Lengths DEF TypeOK
<1>1. n \in 0 .. 5
  <2>1. CASE cpc = "copy"
    BY <1>0, <2>1 DEF Progress
  <2>2. CASE cpc = "tag"
    BY <1>0, <2>2 DEF Progress
  <2> QED
    BY <2>1, <2>2
<1>2. \A k \in 1 .. 6 : Place[k] \in Cells
  <2>1. /\ Place[1] = 1 /\ Place[2] = 2 /\ Place[3] = 3 /\ Place[4] = 4
        /\ Place[5] = 3 /\ Place[6] = 4
    BY DEF Place
  <2>2. \A k \in 1 .. 6 : k = 1 \/ k = 2 \/ k = 3 \/ k = 4 \/ k = 5 \/ k = 6
    OBVIOUS
  <2> QED
    BY <2>1, <2>2 DEF Cells
<1>3. Copied(Len(copy) + 1) \in {0} \cup {mem[c] : c \in Cells}
  <2>1. n + 1 \in 1 .. 6
    BY <1>1
  <2>2. PICK c \in Cells : c = Place[n + 1]
    BY <1>2, <2>1
  <2>3. Copied(n + 1) = 0 \/ Copied(n + 1) = mem[c]
    BY <2>2 DEF Copied
  <2> QED
    BY <1>0, <2>3
<1>4. {0} \cup {mem[c] : c \in Cells} \subseteq Nat
  BY DEF TypeOK
<1>6. \/ \E c \in Cells : Copied(n + 1) = mem[c]
      \/ \E k \in DOMAIN copy : Copied(n + 1) = copy[k] /\ copy[k] = 0
  <2>1. n + 1 \in 1 .. 6
    BY <1>1
  <2>2. PICK c \in Cells : c = Place[n + 1]
    BY <1>2, <2>1
  <2>3. CASE (n + 1) % 2 = 0 /\ copy[n] = 0
    <3>1. DOMAIN copy = 1 .. n
      BY <1>0, Lengths DEF TypeOK
    <3>2. n # 0
      BY <2>3
    <3>3. n \in DOMAIN copy
      BY <3>1, <3>2
    <3>4. Copied(n + 1) = 0
      BY <2>3 DEF Copied
    <3> QED
      BY <2>3, <3>3, <3>4
  <2>4. CASE ~((n + 1) % 2 = 0 /\ copy[n] = 0)
    BY <2>2, <2>4 DEF Copied
  <2> QED
    BY <2>3, <2>4
<1>5. n + 1 \in 1 .. 6
  BY <1>1
<1> QED
  BY <1>0, <1>3, <1>4, <1>5, <1>6

TypeInv == TypeOK /\ Progress /\ SocketsReturned

LEMMA TypeInit == Init => TypeInv
<1> SUFFICES ASSUME Init
             PROVE  TypeInv
  OBVIOUS
<1>1. /\ <<>> \in Seq(Nat) /\ <<>> \in Seq([n : Nat, kind : Kinds])
      /\ [n |-> 0, kind |-> "config"] \in [n : Nat, kind : Kinds]
  BY DEF Kinds
<1>2. mem \in [Cells -> Nat] /\ open \in [Processes -> Nat] /\ failed \in [Processes -> Nat]
  BY DEF Init
<1>3. {} \subseteq Nat /\ 0 \in Nat /\ 1 \in 1 .. 6
  OBVIOUS
<1>4. TypeOK
  BY <1>1, <1>2, <1>3 DEF Init, TypeOK
<1> QED
  BY <1>4 DEF Init, TypeInv, Progress, SocketsReturned, Transferring

LEMMA TypeNext == TypeInv /\ [Next]_vars => TypeInv'
<1> SUFFICES ASSUME TypeInv, [Next]_vars
             PROVE  TypeInv'
  OBVIOUS
<1> USE DEF TypeInv
<1>1. ASSUME NEW kind \in Kinds, MainSends(kind)
      PROVE  TypeInv'
  <2>1. inbox' \in Seq([n : Nat, kind : Kinds]) /\ msgs' \in Nat
    BY <1>1, Appended DEF MainSends, TypeOK
  <2> QED
    BY <1>1, <2>1 DEF MainSends, TypeOK, Progress, SocketsReturned, Transferring,
                      parentVars, childVars, webVars, fates, answers
<1>2. CASE MainTakes
  <2>1. outbox' \in Seq(Nat)
    BY <1>2, Dropped DEF MainTakes, TypeOK
  <2> QED
    BY <1>2, <2>1 DEF MainTakes, TypeOK, Progress, SocketsReturned, Transferring,
                      parentVars, childVars, webVars, fates, answers
<1>3. CASE ParentReceives
  <2>1. inbox' \in Seq([n : Nat, kind : Kinds]) /\ job' \in [n : Nat, kind : Kinds]
        /\ ppc' \in {"write", "answer", "connect"}
    BY <1>3, Dropped DEF ParentReceives, TypeOK
  <2> QED
    BY <1>3, <2>1, SMTT(60) DEF ParentReceives, TypeOK, Progress, SocketsReturned, Transferring,
                      childVars, webVars, fates, answers
<1>4. CASE ParentWrites
  <2>1. mem' \in [Cells -> Nat]
    BY <1>4 DEF ParentWrites, TypeOK
  <2>2. step' \in 1 .. 6 /\ ppc' \in {"answer", "write"} /\ configured' \in Nat
    BY <1>4 DEF ParentWrites, TypeOK
  <2> QED
    BY <1>4, <2>1, <2>2 DEF ParentWrites, TypeOK, Progress, SocketsReturned, Transferring,
                      childVars, webVars, queueVars, fates, answers
<1>5. CASE ParentAnswers
  <2>1. outbox' \in Seq(Nat) /\ answered' \subseteq Nat /\ refused' \subseteq Nat
    <3>1. Append(outbox, job.n) \in Seq(Nat) /\ job.n \in Nat
      BY Appended DEF TypeOK
    <3> QED
      BY <1>5, <3>1 DEF ParentAnswers, TypeOK
  <2> QED
    BY <1>5, <2>1 DEF ParentAnswers, TypeOK, Progress, SocketsReturned, Transferring,
                      childVars, webVars, fates, answers
<1>6. CASE ParentConnects
  <2>1. /\ open' \in [Processes -> Nat] /\ failed' \in [Processes -> Nat]
        /\ SocketsReturned' /\ ppc' \in {"transfer", "wait"}
    BY <1>6 DEF ParentConnects, Connected, Unconnected, TypeOK, SocketsReturned,
                Transferring, Processes, childVars
  <2> QED
    BY <1>6, <2>1 DEF ParentConnects, TypeOK, Progress, childVars, queueVars, fates, answers
<1>7. CASE ParentFinishes
  <2>1. ppc' \in {"dead", "wait"} /\ UNCHANGED cpc
    BY <1>7 DEF ParentFinishes, childVars
  <2>2. open["parent"] = failed["parent"] + 1
    BY <1>7 DEF ParentFinishes, SocketsReturned, Transferring, Processes
  <2>3. CASE Broken("parent")
    BY <1>7, <2>1, <2>2, <2>3, SMTT(60) DEF ParentFinishes, Broken, TypeOK, Progress, SocketsReturned,
       Transferring, Processes, childVars, queueVars, fates, answers
  <2>4. CASE Answered("parent")
    BY <1>7, <2>1, <2>2, <2>4, SMTT(60) DEF ParentFinishes, Answered, TypeOK, Progress, SocketsReturned,
       Transferring, Processes, childVars, queueVars, fates, answers
  <2> QED
    BY <1>7, <2>3, <2>4 DEF ParentFinishes
<1>8. CASE ChildLooks
  BY <1>8 DEF ChildLooks, TypeOK, Progress, SocketsReturned, Transferring, Processes,
              parentVars, webVars, queueVars, fates, answers
<1>9. CASE ChildLooksOn
  <2>1. /\ copy' \in Seq(Nat) /\ cmd' \in Nat /\ since' \in Nat
        /\ cpc' \in {"url", "copy"} /\ copy' = <<>>
    <3>1. <<>> \in Seq(Nat) /\ copy = <<>>
      BY <1>9 DEF ChildLooksOn, Progress
    <3>2. CASE mem[3] = 0
      <4>1. cpc' = "url" /\ copy' = <<>> /\ cmd' = 0 /\ since' = 0
        BY <1>9, <3>2 DEF ChildLooksOn, Stop, Ends
      <4> QED
        BY <3>1, <4>1
    <3>3. CASE mem[3] # 0
      BY <1>9, <3>1, <3>3 DEF ChildLooksOn, TypeOK
    <3> QED
      BY <3>2, <3>3
  <2>2. Len(copy') = 0
    BY <2>1
  <2> QED
    BY <1>9, <2>1, <2>2, SMTT(60) DEF ChildLooksOn, TypeOK, Progress, SocketsReturned, Transferring,
       Processes, parentVars, webVars, queueVars, fates, answers
<1>10. CASE ChildCopies
  <2>1. /\ copy' \in Seq(Nat) /\ Len(copy') = Len(copy) + 1 /\ Len(copy) \in 0 .. 5
    <3>1. Copied(Len(copy) + 1) \in Nat /\ Len(copy) + 1 \in 1 .. 6
          /\ copy' = Append(copy, Copied(Len(copy) + 1))
      BY <1>10, CopiedTyped DEF ChildCopies
    <3>2. copy \in Seq(Nat)
      BY DEF TypeOK
    <3>20. PICK n \in Nat : n = Len(copy)
      BY Lengths DEF TypeOK
    <3>3. PICK v \in Nat : v = Copied(Len(copy) + 1)
      BY <3>1
    <3>4. copy' = Append(copy, v)
      BY <3>1, <3>3
    <3>5. n \in 0 .. 5
      BY <3>1, <3>20, SMTT(60)
    <3>6. copy' \in Seq(Nat) /\ Len(copy') = Len(copy) + 1
      BY <3>2, <3>4, Appended
    <3> QED
      BY <3>5, <3>6, <3>20
  <2>2. /\ cpc' \in {"copy", "tag", "connect", "send"} /\ cpc # "transfer"
        /\ Progress'
    <3>0. PICK n \in 0 .. 5 : n = Len(copy)
      BY <2>1
    <3>1. CASE cpc = "copy"
      <4>1. n < 4 /\ Len(copy') = n + 1
        BY <2>1, <3>0, <3>1 DEF Progress
      <4>2. cpc' = IF n = 3 THEN "connect" ELSE "copy"
        BY <1>10, <3>1, <4>1 DEF ChildCopies
      <4> QED
        BY <3>1, <4>1, <4>2 DEF Progress
    <3>2. CASE cpc = "tag"
      <4>1. n \in 4 .. 5 /\ Len(copy') = n + 1
        BY <2>1, <3>0, <3>2 DEF Progress
      <4>2. cpc' = IF n = 5 THEN "send" ELSE "tag"
        BY <1>10, <3>2, <4>1 DEF ChildCopies
      <4> QED
        BY <3>2, <4>1, <4>2 DEF Progress
    <3> QED
      BY <1>10, <3>1, <3>2 DEF ChildCopies
  <2> QED
    BY <1>10, <2>1, <2>2 DEF ChildCopies, TypeOK, SocketsReturned, Transferring,
       Processes, parentVars, webVars, queueVars, fates, answers
<1>11. CASE ChildConnects
  <2>1. CASE Connected("child") /\ cpc' = "transfer" /\ UNCHANGED <<copy, cmd, since>>
    BY <1>11, <2>1 DEF ChildConnects, Connected, TypeOK, Progress, SocketsReturned, Transferring,
       Processes, parentVars, queueVars, fates, answers
  <2>2. CASE Unconnected("child") /\ Stop
    <3>1. <<>> \in Seq(Nat)
      OBVIOUS
    <3> QED
      BY <1>11, <2>2, <3>1 DEF ChildConnects, Unconnected, Stop, Ends, TypeOK, Progress,
         SocketsReturned, Transferring, Processes, parentVars, queueVars, fates, answers
  <2> QED
    BY <1>11, <2>1, <2>2 DEF ChildConnects
<1>12. CASE ChildFinishes
  <2>1. open["child"] = failed["child"] + 1
    BY <1>12 DEF ChildFinishes, SocketsReturned, Transferring, Processes
  <2>2. handed' \in Nat /\ lost' \subseteq Nat
    <3>1. handed + 1 \in Nat /\ lost \cup {handed + 1} \subseteq Nat
      BY DEF TypeOK
    <3> QED
      BY <1>12, <3>1 DEF ChildFinishes, Hands, TypeOK
  <2>3. CASE /\ Answered("child") /\ cpc' = "tag" /\ cmd' = handed + 1
             /\ UNCHANGED <<copy, since>>
    BY <1>12, <2>1, <2>2, <2>3, Lengths DEF ChildFinishes, Answered, TypeOK, Progress,
       SocketsReturned, Transferring, Processes, parentVars, queueVars, answers
  <2>4. CASE Stop /\ Answered("child")
    <3>1. <<>> \in Seq(Nat)
      OBVIOUS
    <3>2. open' \in [Processes -> Nat] /\ failed' \in [Processes -> Nat]
      BY <2>1, <2>4 DEF Answered, TypeOK, Processes
    <3>3. SocketsReturned'
      BY <1>12, <2>1, <2>4 DEF ChildFinishes, Answered, Stop, Ends, TypeOK, SocketsReturned,
         Transferring, Processes, parentVars
    <3> QED
      BY <1>12, <2>1, <2>2, <2>4, <3>1, <3>2, <3>3 DEF ChildFinishes, Stop, Ends, TypeOK, Progress,
         parentVars, queueVars, answers
  <2>5. CASE Stop /\ Broken("child")
    <3>1. <<>> \in Seq(Nat)
      OBVIOUS
    <3>2. open' \in [Processes -> Nat] /\ failed' \in [Processes -> Nat]
      BY <2>5 DEF Broken, TypeOK, Processes
    <3>3. SocketsReturned'
      BY <1>12, <2>1, <2>5 DEF ChildFinishes, Broken, Stop, Ends, TypeOK, SocketsReturned,
         Transferring, Processes, parentVars
    <3> QED
      BY <1>12, <2>1, <2>2, <2>5, <3>1, <3>2, <3>3 DEF ChildFinishes, Stop, Ends, TypeOK, Progress,
         parentVars, queueVars, answers
  <2>6. CASE Ends("dead") /\ Answered("child")
    <3>1. <<>> \in Seq(Nat)
      OBVIOUS
    <3>2. open' \in [Processes -> Nat] /\ failed' \in [Processes -> Nat]
      BY <2>1, <2>6 DEF Answered, TypeOK, Processes
    <3>3. SocketsReturned'
      BY <1>12, <2>1, <2>6 DEF ChildFinishes, Answered, Ends, TypeOK, SocketsReturned,
         Transferring, Processes, parentVars
    <3> QED
      BY <1>12, <2>1, <2>2, <2>6, <3>1, <3>2, <3>3 DEF ChildFinishes, Ends, TypeOK, Progress,
         parentVars, queueVars, answers
  <2> QED
    BY <1>12, <2>3, <2>4, <2>5, <2>6 DEF ChildFinishes
<1>13. CASE ChildSends
  <2>0. <<>> \in Seq(Nat)
    OBVIOUS
  <2>1. outbox' \in Seq(Nat) /\ passed' \subseteq Nat /\ lost' \subseteq Nat
    <3>1. Append(outbox, cmd) \in Seq(Nat)
      BY Appended DEF TypeOK
    <3>2. CASE Room
      BY <1>13, <3>1, <3>2 DEF ChildSends, TypeOK
    <3>3. CASE ~Room
      BY <1>13, <3>3 DEF ChildSends, TypeOK
    <3> QED
      BY <3>2, <3>3
  <2> QED
    BY <1>13, <2>0, <2>1 DEF ChildSends, Stop, Ends, TypeOK, Progress, SocketsReturned, Transferring,
       Processes, parentVars, webVars, answers
<1>14. CASE UNCHANGED vars
  BY <1>14 DEF vars, TypeOK, Progress, SocketsReturned, Transferring, Processes,
     parentVars, childVars, webVars, queueVars, fates, answers
<1> QED
  BY <1>1, <1>2, <1>3, <1>4, <1>5, <1>6, <1>7, <1>8, <1>9, <1>10, <1>11, <1>12, <1>13, <1>14
     DEF Next, Parent, Child

\* Every variable keeps its type.
THEOREM TypeCorrect == Spec => []TypeOK
<1>1. TypeInv => TypeOK
  BY DEF TypeInv
<1> QED
  BY TypeInit, TypeNext, <1>1, PTL DEF Spec

\* Only a failed transfer costs a socket, for as many as a process may open.
THEOREM SocketsReturnedHolds == Spec => []SocketsReturned
<1>1. TypeInv => SocketsReturned
  BY DEF TypeInv
<1> QED
  BY TypeInit, TypeNext, <1>1, PTL DEF Spec

-----------------------------------------------------------------------------
(* Commands *)

\* A command is in the child's hands from the answer to the message.
AccountInv ==
    /\ TypeInv /\ CommandsAccounted
    /\ cmd # 0 <=> cpc \in {"tag", "send"}

LEMMA AccountNext == AccountInv /\ [Next]_vars => AccountInv'
<1> SUFFICES ASSUME AccountInv, [Next]_vars
             PROVE  AccountInv'
  OBVIOUS
<1>0. TypeInv' /\ handed \in Nat /\ cmd \in Nat /\ passed \subseteq Nat /\ lost \subseteq Nat
  BY TypeNext DEF AccountInv, TypeInv, TypeOK
<1>1. CASE UNCHANGED <<passed, lost, handed, cmd, cpc>>
  BY <1>0, <1>1 DEF AccountInv, CommandsAccounted
<1>2. CASE ChildLooks
  BY <1>0, <1>2 DEF ChildLooks, fates, AccountInv, CommandsAccounted
<1>3. CASE ChildLooksOn
  <2>1. cmd = 0 /\ cmd' = 0 /\ cpc' \in {"url", "copy"} /\ UNCHANGED <<passed, lost, handed>>
    BY <1>3 DEF ChildLooksOn, Stop, Ends, fates, AccountInv
  <2> QED
    BY <1>0, <2>1 DEF AccountInv, CommandsAccounted
<1>4. CASE ChildCopies
  <2>1. UNCHANGED <<passed, lost, handed, cmd>>
    BY <1>4 DEF ChildCopies, fates
  <2>2. PICK n \in Nat : n = Len(copy)
    BY Lengths DEF AccountInv, TypeInv, TypeOK
  <2>3. Len(copy') = n + 1
    <3>1. copy \in Seq(Nat)
      BY DEF AccountInv, TypeInv, TypeOK
    <3>2. PICK v \in Nat : v = Copied(Len(copy) + 1)
      BY <1>4, CopiedTyped DEF ChildCopies, AccountInv, TypeInv
    <3> QED
      BY <1>4, <2>2, <3>1, <3>2, Appended DEF ChildCopies
  <2>4. cmd # 0 <=> cpc' \in {"tag", "send"}
    <3>1. CASE cpc = "copy"
      <4>1. n < 4
        BY <2>2, <3>1 DEF AccountInv, TypeInv, Progress
      <4> QED
        BY <1>4, <2>3, <3>1, <4>1 DEF ChildCopies, AccountInv
    <3>2. CASE cpc = "tag"
      <4>1. n \in 4 .. 5
        BY <2>2, <3>2 DEF AccountInv, TypeInv, Progress
      <4> QED
        BY <1>4, <2>3, <3>2, <4>1 DEF ChildCopies, AccountInv
    <3> QED
      BY <1>4, <3>1, <3>2 DEF ChildCopies
  <2> QED
    BY <1>0, <2>1, <2>4 DEF AccountInv, CommandsAccounted
<1>5. CASE ChildConnects
  <2>1. cmd = 0 /\ cmd' = 0 /\ cpc' \in {"url", "transfer"} /\ UNCHANGED <<passed, lost, handed>>
    BY <1>5 DEF ChildConnects, Stop, Ends, fates, AccountInv
  <2> QED
    BY <1>0, <2>1 DEF AccountInv, CommandsAccounted
<1>6. CASE ChildFinishes
  <2>1. cmd = 0 /\ UNCHANGED passed
    BY <1>6 DEF ChildFinishes, AccountInv
  <2>2. CASE handed' = handed + 1 /\ cpc' = "tag" /\ cmd' = handed + 1 /\ UNCHANGED lost
    BY <1>0, <2>1, <2>2 DEF AccountInv, CommandsAccounted
  <2>3. CASE cmd' = 0 /\ cpc' \in {"url", "dead"} /\ UNCHANGED <<handed, lost>>
    BY <1>0, <2>1, <2>3 DEF AccountInv, CommandsAccounted
  <2>4. CASE cmd' = 0 /\ cpc' \in {"url", "dead"} /\ handed' = handed + 1 /\ lost' = lost \cup {handed + 1}
    BY <1>0, <2>1, <2>4 DEF AccountInv, CommandsAccounted
  <2> QED
    BY <1>6, <2>2, <2>3, <2>4 DEF ChildFinishes, Stop, Ends, Hands
<1>7. CASE ChildSends
  <2>1. cmd' = 0 /\ cpc' = "url" /\ UNCHANGED handed
    BY <1>7 DEF ChildSends, Stop, Ends
  <2>2. cmd # 0
    BY <1>7 DEF ChildSends, AccountInv
  <2> QED
    BY <1>0, <1>7, <2>1, <2>2 DEF ChildSends, AccountInv, CommandsAccounted
<1> QED
  BY <1>1, <1>2, <1>3, <1>4, <1>5, <1>6, <1>7 DEF Next, Parent, Child, MainSends, MainTakes,
     ParentReceives, ParentWrites, ParentAnswers, ParentConnects, ParentFinishes, vars,
     childVars, fates

\* A command the server gave is passed on, lost or in hand, and only one of these.
THEOREM CommandsAccountedHolds == Spec => []CommandsAccounted
<1>1. Init => AccountInv
  <2> SUFFICES ASSUME Init
               PROVE  AccountInv
    OBVIOUS
  <2>1. TypeInv
    BY TypeInit
  <2> QED
    BY <2>1 DEF Init, AccountInv, CommandsAccounted
<1>2. AccountInv => CommandsAccounted
  BY DEF AccountInv
<1> QED
  BY AccountNext, <1>1, <1>2, PTL DEF Spec

-----------------------------------------------------------------------------
(* What a round sees *)

\* How new the shared memory can be at a step of the parent.
Newest == IF step <= 3 THEN configured ELSE job.n

\* Messages come in the order they were sent in, each after the present one.
OrderInv ==
    /\ configured <= job.n /\ job.n <= msgs
    /\ \A k \in DOMAIN inbox : job.n < inbox[k].n /\ inbox[k].n <= msgs
    /\ \A j, k \in DOMAIN inbox : j < k => inbox[j].n < inbox[k].n

\* The shared cells at each step of a new configuration, and between two.
SharedInv ==
    /\ ppc # "write" => step = 1
    /\ ppc = "write" => configured < job.n
    /\ mem[3] = IF step = 1 THEN configured ELSE IF step <= 3 THEN 0 ELSE job.n
    /\ mem[4] = IF step <= 2 THEN configured ELSE IF step <= 4 THEN 0 ELSE job.n
    /\ mem[1] = IF step <= 5 THEN configured ELSE job.n
    /\ mem[2] = configured

RoundInv ==
    /\ TypeInv /\ OrderInv /\ SharedInv /\ RoundsFresh /\ RoundsConsistent
    /\ since <= configured
    /\ \A k \in DOMAIN copy : copy[k] <= Newest

LEMMA RoundInit == Init => RoundInv
<1> SUFFICES ASSUME Init
             PROVE  RoundInv
  OBVIOUS
<1>1. TypeInv
  BY TypeInit
<1>2. DOMAIN inbox = {} /\ DOMAIN copy = {}
  BY DEF Init
<1> QED
  BY <1>1, <1>2 DEF Init, RoundInv, OrderInv, SharedInv, RoundsFresh, RoundsConsistent, Cells

\* A cell is empty or holds a part of the last configuration or of a newer one.
LEMMA CellsFresh ==
    ASSUME RoundInv
    PROVE  /\ \A c \in Cells : mem[c] = 0 \/ mem[c] >= configured
           /\ \A c \in Cells : mem[c] <= Newest
           /\ \A c \in {3, 4} : mem[c] = 0 \/ mem[c] = Newest
           /\ step = 1 => \A c \in Cells : mem[c] = configured
           /\ Newest \in Nat
<1>1. configured \in Nat /\ job.n \in Nat /\ configured <= job.n
  BY DEF RoundInv, TypeInv, TypeOK, OrderInv
<1>2. \A c \in Cells : c = 1 \/ c = 2 \/ c = 3 \/ c = 4
  BY DEF Cells
<1>3. step \in 1 .. 6
  BY DEF RoundInv, TypeInv, TypeOK
<1> QED
  BY <1>1, <1>2, <1>3 DEF RoundInv, SharedInv, Newest

\* What is copied next comes from a cell of its own, or is the end of a string; the
\* cells after the first two belong to the lamp code.
LEMMA CopiedFrom ==
    ASSUME TypeOK, Progress, cpc \in {"copy", "tag"}
    PROVE  LET j == Len(copy) + 1
           IN  \/ Copied(j) = 0
               \/ \E c \in Cells : Copied(j) = mem[c] /\ (j > 2 => c \in {3, 4})
<1>1. PICK n \in 0 .. 5 : n = Len(copy)
  <2>1. PICK n \in Nat : n = Len(copy)
    BY Lengths DEF TypeOK
  <2>2. Len(copy) + 1 \in 1 .. 6
    BY CopiedTyped
  <2>3. n \in 0 .. 5
    BY <2>1, <2>2
  <2> QED
    BY <2>1, <2>3
<1>2. Copied(n + 1) = 0 \/ Copied(n + 1) = mem[Place[n + 1]]
  BY DEF Copied
<1>3. Place[n + 1] \in Cells /\ (n + 1 > 2 => Place[n + 1] \in {3, 4})
  <2>1. /\ Place[1] = 1 /\ Place[2] = 2 /\ Place[3] = 3 /\ Place[4] = 4
        /\ Place[5] = 3 /\ Place[6] = 4
    BY DEF Place
  <2>2. n = 0 \/ n = 1 \/ n = 2 \/ n = 3 \/ n = 4 \/ n = 5
    BY <1>1
  <2> QED
    BY <2>1, <2>2 DEF Cells
<1>4. Len(copy) + 1 = n + 1
  BY <1>1
<1> QED
  BY <1>2, <1>3, <1>4

LEMMA CopyStep ==
    ASSUME RoundInv, TypeInv', ChildCopies
    PROVE  RoundInv'
<1>0. UNCHANGED <<mem, ppc, step, job, since, configured, inbox, msgs>>
      /\ cpc \in {"copy", "tag"}
  BY DEF ChildCopies, parentVars, queueVars
<1>1. OrderInv' /\ SharedInv' /\ (since <= configured)'
  BY <1>0 DEF RoundInv, OrderInv, SharedInv
<1>2. PICK v \in Nat : v = Copied(Len(copy) + 1)
  BY <1>0, CopiedTyped DEF RoundInv, TypeInv
<1>3. /\ \/ \E c \in Cells : v = mem[c]
         \/ \E k \in DOMAIN copy : v = copy[k] /\ copy[k] = 0
  BY <1>0, <1>2, CopiedTyped DEF RoundInv, TypeInv
<1>4. v = 0 \/ v >= since
  <2>1. \A c \in Cells : mem[c] = 0 \/ mem[c] >= configured
    BY CellsFresh
  <2>2. since \in Nat /\ configured \in Nat /\ since <= configured
    BY DEF RoundInv, TypeInv, TypeOK
  <2>3. v = 0 \/ v >= configured
    BY <1>3, <2>1
  <2> QED
    BY <2>2, <2>3
<1>5. /\ DOMAIN copy' = 1 .. Len(copy) + 1 /\ DOMAIN copy = 1 .. Len(copy) /\ Len(copy) \in Nat
      /\ \A k \in 1 .. Len(copy) : copy'[k] = copy[k]
      /\ copy'[Len(copy) + 1] = v
  <2>1. copy \in Seq(Nat) /\ copy' = Append(copy, v)
    BY <1>2 DEF ChildCopies, RoundInv, TypeInv, TypeOK
  <2> QED
    BY <2>1, Appended
<1>6. RoundsFresh'
  <2> SUFFICES ASSUME NEW k \in DOMAIN copy'
               PROVE  copy'[k] = 0 \/ copy'[k] >= since
    BY <1>0 DEF RoundsFresh
  <2>1. CASE k = Len(copy) + 1
    BY <1>4, <1>5, <2>1
  <2>2. CASE k # Len(copy) + 1
    <3>1. k \in DOMAIN copy /\ copy'[k] = copy[k]
      BY <1>5, <2>2
    <3> QED
      BY <3>1 DEF RoundInv, RoundsFresh
  <2> QED
    BY <2>1, <2>2
<1>7. v <= Newest /\ (Len(copy) + 1 > 2 => v = 0 \/ v = Newest) /\ Newest' = Newest
  <2>1. Newest \in Nat /\ Newest' = Newest
    BY <1>0, CellsFresh DEF Newest
  <2>2. \/ v = 0
        \/ \E c \in Cells : v = mem[c] /\ (Len(copy) + 1 > 2 => c \in {3, 4})
    BY <1>0, <1>2, CopiedFrom DEF RoundInv, TypeInv
  <2> QED
    BY <2>1, <2>2, CellsFresh
<1>8. \A k \in DOMAIN copy' : copy'[k] <= Newest'
  <2> SUFFICES ASSUME NEW k \in DOMAIN copy'
               PROVE  copy'[k] <= Newest
    BY <1>7
  <2>1. CASE k = Len(copy) + 1
    BY <1>5, <1>7, <2>1
  <2>2. CASE k # Len(copy) + 1
    <3>1. k \in DOMAIN copy /\ copy'[k] = copy[k]
      BY <1>5, <2>2
    <3> QED
      BY <3>1 DEF RoundInv
  <2> QED
    BY <2>1, <2>2
<1>9. ASSUME NEW i \in DOMAIN copy', NEW j \in DOMAIN copy', i < j, j # 2
      PROVE  copy'[j] = 0 \/ copy'[j] >= copy'[i]
  <2>1. i \in DOMAIN copy /\ copy'[i] = copy[i] /\ i \in Nat /\ i >= 1 /\ j \in Nat
    BY <1>5, <1>9
  <2>2. CASE j = Len(copy) + 1
    <3>1. copy[i] <= Newest /\ copy[i] \in Nat /\ Newest \in Nat
      BY <2>1, CellsFresh, Lengths DEF RoundInv, TypeInv, TypeOK
    <3>2. j > 2
      BY <1>9, <2>1
    <3> QED
      BY <1>5, <1>7, <2>1, <2>2, <3>1, <3>2
  <2>3. CASE j # Len(copy) + 1
    <3>1. j \in DOMAIN copy /\ copy'[j] = copy[j]
      BY <1>5, <2>3
    <3> QED
      BY <1>9, <2>1, <3>1 DEF RoundInv, RoundsConsistent
  <2> QED
    BY <2>2, <2>3
<1>10. ASSUME since = configured, ~(ppc = "write" /\ step > 1), NEW k \in DOMAIN copy'
       PROVE  copy'[k] = configured
  <2>1. \A i \in DOMAIN copy : copy[i] = configured
    BY <1>10 DEF RoundInv, RoundsConsistent
  <2>2. step = 1
    <3>1. step \in 1 .. 6 /\ (ppc # "write" => step = 1)
      BY DEF RoundInv, SharedInv, TypeInv, TypeOK
    <3> QED
      BY <1>10, <3>1
  <2>3. v = configured
    BY <1>3, <2>1, <2>2, CellsFresh
  <2>4. CASE k = Len(copy) + 1
    BY <1>5, <2>3, <2>4
  <2>5. CASE k # Len(copy) + 1
    <3>1. k \in DOMAIN copy /\ copy'[k] = copy[k]
      BY <1>5, <2>5
    <3> QED
      BY <2>1, <3>1
  <2> QED
    BY <2>4, <2>5
<1>11. RoundsConsistent'
  BY <1>0, <1>9, <1>10 DEF RoundsConsistent
<1> QED
  BY <1>0, <1>1, <1>6, <1>8, <1>11 DEF RoundInv

LEMMA WriteStep ==
    ASSUME RoundInv, TypeInv', ParentWrites
    PROVE  RoundInv'
<1>0. /\ UNCHANGED <<job, copy, cpc, since, inbox, msgs>> /\ ppc = "write"
  BY DEF ParentWrites, childVars, queueVars
<1>1. /\ configured \in Nat /\ job.n \in Nat /\ configured < job.n /\ step \in 1 .. 6
      /\ since \in Nat /\ since <= configured /\ mem \in [Cells -> Nat]
  BY <1>0 DEF RoundInv, TypeInv, TypeOK, SharedInv
<1>2. configured' \in {configured, job.n}
  BY DEF ParentWrites
<1>3. OrderInv' /\ RoundsFresh' /\ since' <= configured'
  BY <1>0, <1>1, <1>2 DEF RoundInv, OrderInv, RoundsFresh
<1>4. SharedInv'
  <2>1. \A c \in Cells : c = 1 \/ c = 2 \/ c = 3 \/ c = 4
    BY DEF Cells
  <2>2. CASE step = 1
    BY <1>0, <1>1, <2>2 DEF ParentWrites, Steps, RoundInv, SharedInv, Cells
  <2>3. CASE step = 2
    BY <1>0, <1>1, <2>3 DEF ParentWrites, Steps, RoundInv, SharedInv, Cells
  <2>4. CASE step = 3
    BY <1>0, <1>1, <2>4 DEF ParentWrites, Steps, RoundInv, SharedInv, Cells
  <2>5. CASE step = 4
    BY <1>0, <1>1, <2>5 DEF ParentWrites, Steps, RoundInv, SharedInv, Cells
  <2>6. CASE step = 5
    BY <1>0, <1>1, <2>6 DEF ParentWrites, Steps, RoundInv, SharedInv, Cells
  <2>7. CASE step = 6
    BY <1>0, <1>1, <2>7 DEF ParentWrites, Steps, RoundInv, SharedInv, Cells
  <2> QED
    BY <1>1, <2>2, <2>3, <2>4, <2>5, <2>6, <2>7
<1>5. \A k \in DOMAIN copy' : copy'[k] <= Newest'
  <2>1. Newest <= Newest' /\ Newest' \in Nat /\ Newest \in Nat
    BY <1>0, <1>1 DEF ParentWrites, Newest
  <2>2. \A k \in DOMAIN copy : copy[k] \in Nat /\ copy[k] <= Newest
    BY Lengths DEF RoundInv, TypeInv, TypeOK
  <2> QED
    BY <1>0, <2>1, <2>2
<1>6. ~(since' = configured' /\ ~(ppc' = "write" /\ step' > 1))
  <2>1. CASE step = 6
    BY <1>0, <1>1, <2>1 DEF ParentWrites
  <2>2. CASE step # 6
    BY <1>0, <1>1, <2>2 DEF ParentWrites
  <2> QED
    BY <2>1, <2>2
<1>7. RoundsConsistent'
  BY <1>0, <1>6 DEF RoundInv, RoundsConsistent
<1> QED
  BY <1>0, <1>3, <1>4, <1>5, <1>7 DEF RoundInv

LEMMA RoundNext == RoundInv /\ [Next]_vars => RoundInv'
<1> SUFFICES ASSUME RoundInv, [Next]_vars
             PROVE  RoundInv'
  OBVIOUS
<1>0. TypeInv'
  BY TypeNext DEF RoundInv
<1>1. ASSUME NEW kind \in Kinds, MainSends(kind)
      PROVE  RoundInv'
  <2>1. UNCHANGED <<mem, ppc, step, job, cpc, copy, since, configured>>
        /\ msgs' = msgs + 1 /\ inbox' = Append(inbox, [n |-> msgs + 1, kind |-> kind])
    BY <1>1 DEF MainSends, parentVars, childVars
  <2>2. msgs \in Nat /\ job.n \in Nat /\ inbox \in Seq([n : Nat, kind : Kinds])
        /\ [n |-> msgs + 1, kind |-> kind] \in [n : Nat, kind : Kinds]
    BY DEF RoundInv, TypeInv, TypeOK
  <2>3. PICK m \in [n : Nat, kind : Kinds] : m = [n |-> msgs + 1, kind |-> kind]
    BY <2>2
  <2>4. /\ DOMAIN inbox' = 1 .. Len(inbox) + 1 /\ DOMAIN inbox = 1 .. Len(inbox)
        /\ Len(inbox) \in Nat
        /\ \A k \in 1 .. Len(inbox) : inbox'[k] = inbox[k] /\ inbox[k].n \in Nat
        /\ inbox'[Len(inbox) + 1].n = msgs + 1
    <3>1. m.n = msgs + 1 /\ \A x \in [n : Nat, kind : Kinds] : x.n \in Nat
      BY <2>3
    <3>2. inbox' = Append(inbox, m)
      BY <2>1, <2>3
    <3>3. /\ DOMAIN inbox' = 1 .. Len(inbox) + 1 /\ DOMAIN inbox = 1 .. Len(inbox)
          /\ Len(inbox) \in Nat /\ inbox'[Len(inbox) + 1] = m
          /\ \A k \in 1 .. Len(inbox) : inbox'[k] = inbox[k]
                                      /\ inbox[k] \in [n : Nat, kind : Kinds]
      <4> DEFINE S == [n : Nat, kind : Kinds]
      <4>1. inbox \in Seq(S) /\ m \in S
        BY <2>2
      <4> HIDE DEF S
      <4>2. /\ DOMAIN inbox' = 1 .. Len(inbox) + 1 /\ DOMAIN inbox = 1 .. Len(inbox)
            /\ Len(inbox) \in Nat /\ inbox'[Len(inbox) + 1] = m
            /\ \A k \in 1 .. Len(inbox) : inbox'[k] = inbox[k] /\ inbox[k] \in S
        BY <3>2, <4>1, Appended
      <4> QED
        BY <4>2 DEF S
    <3> QED
      BY <3>1, <3>3
  <2>5. \A k \in DOMAIN inbox' : job.n < inbox'[k].n /\ inbox'[k].n <= msgs + 1
    <3>1. /\ job.n <= msgs
          /\ \A k \in DOMAIN inbox : job.n < inbox[k].n /\ inbox[k].n <= msgs
      BY DEF RoundInv, OrderInv
    <3> QED
      BY <2>2, <2>4, <3>1
  <2>6. \A j, k \in DOMAIN inbox' : j < k => inbox'[j].n < inbox'[k].n
    <3> SUFFICES ASSUME NEW j \in DOMAIN inbox', NEW k \in DOMAIN inbox', j < k
                 PROVE  inbox'[j].n < inbox'[k].n
      OBVIOUS
    <3>1. j \in 1 .. Len(inbox)
      BY <2>4
    <3>2. CASE k = Len(inbox) + 1
      BY <2>2, <2>4, <3>1, <3>2 DEF RoundInv, OrderInv
    <3>3. CASE k \in 1 .. Len(inbox)
      BY <2>4, <3>1, <3>3 DEF RoundInv, OrderInv
    <3> QED
      BY <2>4, <3>2, <3>3
  <2>7. OrderInv'
    BY <2>1, <2>2, <2>5, <2>6, SMTT(60) DEF RoundInv, OrderInv, TypeInv, TypeOK
  <2> QED
    BY <1>0, <2>1, <2>7 DEF RoundInv, SharedInv, RoundsFresh, RoundsConsistent, Newest
<1>2. CASE ParentReceives
  <2>1. /\ UNCHANGED <<mem, step, cpc, copy, since, configured, msgs>>
        /\ inbox # <<>> /\ job' = Head(inbox) /\ inbox' = Tail(inbox) /\ ppc = "wait"
    BY <1>2 DEF ParentReceives, childVars
  <2>2. inbox \in Seq([n : Nat, kind : Kinds])
    BY DEF RoundInv, TypeInv, TypeOK
  <2>3. /\ job' = inbox[1] /\ 1 \in DOMAIN inbox
        /\ DOMAIN inbox = 1 .. Len(inbox) /\ DOMAIN inbox' = 1 .. Len(inbox) - 1
        /\ Len(inbox) \in Nat
        /\ \A k \in 1 .. Len(inbox) - 1 : inbox'[k] = inbox[k + 1]
    BY <2>1, <2>2, Dropped
  <2>4. job.n < job'.n /\ job'.n <= msgs /\ configured \in Nat /\ job.n \in Nat /\ job'.n \in Nat
    BY <1>0, <2>3 DEF RoundInv, OrderInv, TypeInv, TypeOK
  <2>5. \A k \in DOMAIN inbox' : k + 1 \in DOMAIN inbox /\ inbox'[k] = inbox[k + 1] /\ 1 < k + 1
    BY <2>3
  <2>6. \A j, k \in DOMAIN inbox' : j < k => j + 1 < k + 1
    BY <2>3
  <2>7. OrderInv'
    BY <2>1, <2>3, <2>4, <2>5, <2>6 DEF RoundInv, OrderInv
  <2>8. SharedInv' /\ step = 1
    BY <2>1, <2>4 DEF RoundInv, SharedInv, OrderInv
  <2> QED
    BY <1>0, <2>1, <2>7, <2>8 DEF RoundInv, RoundsFresh, RoundsConsistent, Newest
<1>3. CASE ChildLooks
  <2>1. /\ UNCHANGED <<mem, ppc, step, job, copy, configured, inbox, msgs>>
        /\ cpc = "url"
        /\ since' = since \/ since' = configured
    BY <1>3 DEF ChildLooks, parentVars, queueVars
  <2>2. copy = <<>> /\ configured \in Nat
    BY <2>1 DEF RoundInv, TypeInv, Progress, TypeOK
  <2>3. since' <= configured
    BY <2>1, <2>2 DEF RoundInv
  <2> QED
    BY <1>0, <2>1, <2>2, <2>3
       DEF RoundInv, OrderInv, SharedInv, RoundsFresh, RoundsConsistent, Newest
<1>4. CASE ChildCopies
  BY <1>0, <1>4, CopyStep
<1>5. CASE ParentWrites
  BY <1>0, <1>5, WriteStep
<1>6. ASSUME Stop \/ Ends("dead"), UNCHANGED <<mem, ppc, step, job, configured, inbox, msgs>>
      PROVE  RoundInv'
  <2>1. copy' = <<>> /\ since' = 0 /\ configured \in Nat
    BY <1>6 DEF Stop, Ends, RoundInv, TypeInv, TypeOK
  <2> QED
    BY <1>0, <1>6, <2>1 DEF RoundInv, OrderInv, SharedInv, RoundsFresh, RoundsConsistent, Newest
<1>7. ASSUME UNCHANGED <<mem, step, job, copy, since, configured, inbox, msgs>>,
             ppc' = ppc \/ (ppc' # "write" /\ ppc # "write"),
             cpc' = cpc \/ cpc # "url"
      PROVE  RoundInv'
  BY <1>0, <1>7 DEF RoundInv, OrderInv, SharedInv, RoundsFresh, RoundsConsistent, Newest
<1>8. CASE ChildLooksOn \/ ChildConnects \/ ChildFinishes \/ ChildSends
  <2>1. \/ (Stop \/ Ends("dead")) /\ UNCHANGED <<mem, ppc, step, job, configured, inbox, msgs>>
        \/ UNCHANGED <<mem, ppc, step, job, copy, since, configured, inbox, msgs>>
           /\ cpc # "url"
    BY <1>8 DEF ChildLooksOn, ChildConnects, ChildFinishes, ChildSends, parentVars, queueVars
  <2> QED
    BY <1>6, <1>7, <2>1
<1>9. CASE MainTakes \/ ParentAnswers \/ ParentConnects \/ ParentFinishes \/ UNCHANGED vars
  <2>1. /\ UNCHANGED <<mem, step, job, copy, since, configured, inbox, msgs, cpc>>
        /\ ppc' = ppc \/ (ppc' # "write" /\ ppc # "write")
    BY <1>9 DEF MainTakes, ParentAnswers, ParentConnects, ParentFinishes, vars, parentVars,
                childVars, queueVars
  <2> QED
    BY <1>7, <2>1
<1> QED
  BY <1>1, <1>2, <1>3, <1>4, <1>5, <1>8, <1>9 DEF Next, Parent, Child

\* What a round may mix of the configurations written while it runs, for any number
\* of them: nothing it copies is older than what it copied before, but for the second
\* part of the url; and what is copied in peace is of the last configuration.
THEOREM RoundsConsistentHolds == Spec => []RoundsConsistent
<1>1. RoundInv => RoundsConsistent
  BY DEF RoundInv
<1> QED
  BY RoundInit, RoundNext, <1>1, PTL DEF Spec

\* No round uses anything older than the configuration it began with.
THEOREM RoundsFreshHolds == Spec => []RoundsFresh
<1>1. RoundInv => RoundsFresh
  BY DEF RoundInv
<1> QED
  BY RoundInit, RoundNext, <1>1, PTL DEF Spec
=============================================================================
