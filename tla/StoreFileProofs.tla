-------------------------- MODULE StoreFileProofs --------------------------
(***************************************************************************)
(* Proofs about StoreFile: the lines of the store are fetched in order and *)
(* none vanishes, for any capacity of the queue and any number of lines.   *)
(***************************************************************************)
EXTENDS StoreFile, TLAPS

-----------------------------------------------------------------------------
(* Appending to a sequence of numbers and dropping its head *)

LEMMA Appended ==
    ASSUME NEW s \in Seq(Nat), NEW n \in Nat
    PROVE  /\ Append(s, n) \in Seq(Nat)
           /\ Len(Append(s, n)) = Len(s) + 1
           /\ DOMAIN Append(s, n) = 1 .. Len(s) + 1
           /\ \A i \in 1 .. Len(s) : Append(s, n)[i] = s[i]
           /\ Append(s, n)[Len(s) + 1] = n
OBVIOUS

LEMMA Dropped ==
    ASSUME NEW s \in Seq(Nat), s # <<>>
    PROVE  /\ Head(s) \in Nat /\ Head(s) = s[1]
           /\ Tail(s) \in Seq(Nat)
           /\ DOMAIN s = 1 .. Len(s) /\ Len(s) \in Nat \ {0}
           /\ DOMAIN Tail(s) = 1 .. Len(s) - 1
           /\ \A i \in 1 .. Len(s) - 1 : Tail(s)[i] = s[i + 1]
OBVIOUS

\* A number behind a sequence: what is known of both is known of the result.
LEMMA AppendedLines ==
    ASSUME NEW s \in Seq(Nat), NEW n \in Nat, NEW m \in Nat, NEW t \in Seq(Nat)
    PROVE  /\ Rising(s) /\ (n # Nothing => Below(s, n)) => Rising(Append(s, n))
           /\ Above(m, s) /\ (n # Nothing => m < n) => Above(m, Append(s, n))
           /\ Below(s, m) /\ n < m => Below(Append(s, n), m)
           /\ Before(s, t) /\ (n # Nothing => Above(n, t)) => Before(Append(s, n), t)
           /\ Before(t, s) /\ (n # Nothing => Below(t, n)) => Before(t, Append(s, n))
           /\ In(n, Append(s, n)) /\ (In(m, s) => In(m, Append(s, n)))
<1>1. DOMAIN s = 1 .. Len(s) /\ Len(s) \in Nat /\ \A i \in DOMAIN s : s[i] \in Nat
  OBVIOUS
<1>2. DOMAIN t = 1 .. Len(t) /\ Len(t) \in Nat /\ \A i \in DOMAIN t : t[i] \in Nat
  OBVIOUS
<1> DEFINE a == Append(s, n)
<1>3. /\ DOMAIN a = 1 .. Len(s) + 1
      /\ \A i \in 1 .. Len(s) : a[i] = s[i]
      /\ a[Len(s) + 1] = n
  BY Appended
<1> HIDE DEF a
<1>0. \A i \in Lines(a) : \/ i \in Lines(s) /\ a[i] = s[i]
                          \/ i = Len(s) + 1 /\ a[i] = n /\ n # Nothing
  BY <1>1, <1>3 DEF Lines
<1>0a. /\ \A i \in Lines(s) : i \in 1 .. Len(s) /\ s[i] \in Nat
       /\ \A i \in Lines(t) : t[i] \in Nat
  BY <1>1, <1>2 DEF Lines
<1>4. ASSUME Rising(s), n # Nothing => Below(s, n)
      PROVE  Rising(a)
  <2> SUFFICES ASSUME NEW i \in Lines(a), NEW j \in Lines(a), i < j
               PROVE  a[i] < a[j]
    BY DEF Rising
  <2>1. CASE j \in Lines(s) /\ a[j] = s[j]
    <3>1. i \in Lines(s) /\ a[i] = s[i]
      BY <2>1, <1>0, <1>1, <1>0a
    <3> QED
      BY <3>1, <2>1, <1>4 DEF Rising
  <2>2. CASE j = Len(s) + 1 /\ a[j] = n /\ n # Nothing
    <3>1. i \in Lines(s) /\ a[i] = s[i]
      BY <2>2, <1>0, <1>1
    <3> QED
      BY <3>1, <2>2, <1>4 DEF Below
  <2> QED
    BY <2>1, <2>2, <1>0
<1>5. Above(m, s) /\ (n # Nothing => m < n) => Above(m, a)
  BY <1>0 DEF Above
<1>6. Below(s, m) /\ n < m => Below(a, m)
  BY <1>0 DEF Below
<1>7. Before(s, t) /\ (n # Nothing => Above(n, t)) => Before(a, t)
  BY <1>0 DEF Before, Above
<1>8. Before(t, s) /\ (n # Nothing => Below(t, n)) => Before(t, a)
  BY <1>0 DEF Before, Below
<1>9. In(n, a) /\ (In(m, s) => In(m, a))
  <2>1. In(n, a)
    <3>1. Len(s) + 1 \in DOMAIN a
      BY <1>1, <1>3
    <3> QED
      BY <3>1, <1>3 DEF In
  <2>2. ASSUME NEW i \in DOMAIN s, s[i] = m
        PROVE  In(m, a)
    <3>1. i \in DOMAIN a /\ a[i] = m
      BY <2>2, <1>1, <1>3
    <3> QED
      BY <3>1 DEF In
  <2> QED
    BY <2>1, <2>2 DEF In
<1> QED
  BY <1>4, <1>5, <1>6, <1>7, <1>8, <1>9 DEF a

\* A sequence without its head: what was known still is, and the head, if it
\* is a line, precedes what the sequence preceded.
LEMMA DroppedLines ==
    ASSUME NEW s \in Seq(Nat), s # <<>>, NEW m \in Nat, NEW t \in Seq(Nat)
    PROVE  /\ Rising(s) => Rising(Tail(s))
           /\ Rising(s) /\ Head(s) # Nothing => Above(Head(s), Tail(s))
           /\ Above(m, s) => Above(m, Tail(s)) /\ (Head(s) # Nothing => m < Head(s))
           /\ Below(s, m) => Below(Tail(s), m) /\ (Head(s) # Nothing => Head(s) < m)
           /\ Before(s, t) => Before(Tail(s), t)
                              /\ (Head(s) # Nothing => Above(Head(s), t))
           /\ Before(t, s) => Before(t, Tail(s))
                              /\ (Head(s) # Nothing => Below(t, Head(s)))
           /\ In(m, s) => m = Head(s) \/ In(m, Tail(s))
<1>1. DOMAIN s = 1 .. Len(s) /\ Len(s) \in Nat \ {0} /\ \A i \in DOMAIN s : s[i] \in Nat
  BY Dropped
<1>2. DOMAIN t = 1 .. Len(t) /\ Len(t) \in Nat /\ \A i \in DOMAIN t : t[i] \in Nat
  OBVIOUS
<1> DEFINE r == Tail(s)
           h == Head(s)
<1>3. /\ DOMAIN r = 1 .. Len(s) - 1
      /\ \A i \in 1 .. Len(s) - 1 : r[i] = s[i + 1]
      /\ h = s[1] /\ h \in Nat
  BY Dropped
<1> HIDE DEF r, h
<1>0. /\ \A i \in Lines(r) : /\ i \in Nat /\ 1 < i + 1
                             /\ i + 1 \in Lines(s) /\ r[i] = s[i + 1]
      /\ h # Nothing => 1 \in Lines(s) /\ s[1] = h
  BY <1>1, <1>3 DEF Lines
<1>4. Rising(s) => Rising(r)
  BY <1>0 DEF Rising
<1>5. Rising(s) /\ h # Nothing => Above(h, r)
  BY <1>0 DEF Rising, Above
<1>6. Above(m, s) => Above(m, r) /\ (h # Nothing => m < h)
  BY <1>0 DEF Above
<1>7. Below(s, m) => Below(r, m) /\ (h # Nothing => h < m)
  BY <1>0 DEF Below
<1>8. Before(s, t) => Before(r, t) /\ (h # Nothing => Above(h, t))
  BY <1>0 DEF Before, Above
<1>9. Before(t, s) => Before(t, r) /\ (h # Nothing => Below(t, h))
  BY <1>0 DEF Before, Below
<1>10. In(m, s) => m = h \/ In(m, r)
  <2>1. ASSUME NEW i \in DOMAIN s, s[i] = m, m # h
        PROVE  In(m, r)
    <3>1. i - 1 \in DOMAIN r /\ r[i - 1] = m
      BY <1>1, <1>3, <2>1
    <3> QED
      BY <3>1 DEF In
  <2> QED
    BY <2>1 DEF In
<1> QED
  BY <1>4, <1>5, <1>6, <1>7, <1>8, <1>9, <1>10 DEF r, h

-----------------------------------------------------------------------------
(* The invariant *)

LEMMA BelowGrows ==
    ASSUME NEW s \in Seq(Nat), NEW n \in Nat, NEW m \in Nat, n <= m, Below(s, n)
    PROVE  Below(s, m)
<1>1. \A i \in Lines(s) : s[i] \in Nat
  BY DEF Lines
<1> QED
  BY <1>1 DEF Below

LEMMA EmptySeq == <<>> \in Seq(Nat)
OBVIOUS

LEMMA NoLines ==
    ASSUME NEW s \in Seq(Nat), NEW n \in Nat
    PROVE  /\ Rising(<<>>) /\ Above(n, <<>>) /\ Below(<<>>, n)
           /\ Before(<<>>, s) /\ Before(s, <<>>) /\ ~In(n, <<>>)
BY DEF Rising, Above, Below, Before, In, Lines

LEMMA InvInit == Init => StoreInv
<1> SUFFICES ASSUME Init PROVE StoreInv
  OBVIOUS
<1>1. TypeOK /\ ControlInv
  BY EmptySeq DEF Init, TypeOK, ControlInv, Nothing
<1>2. Kept = <<>>
  BY DEF Init, Kept
<1>3. Rising(<<>>) /\ Above(0, <<>>) /\ Below(<<>>, 1) /\ Before(<<>>, <<>>)
  BY EmptySeq, NoLines
<1>4. Bounded /\ OnTheWay
  BY <1>2, <1>3 DEF Init, Bounded, OnTheWay, Nothing
<1>5. NothingVanishes
  BY DEF Init, NothingVanishes
<1> QED
  BY <1>1, <1>4, <1>5 DEF StoreInv

\* Above(0, s) holds of every sequence of lines.
LEMMA AboveNothing ==
    ASSUME NEW s \in Seq(Nat)
    PROVE  Above(Nothing, s)
<1>1. \A i \in Lines(s) : s[i] \in Nat /\ s[i] # 0
  BY DEF Lines, Nothing
<1> QED
  BY <1>1 DEF Above, Nothing

LEMMA KeptType == TypeOK => Kept \in Seq(Nat)
BY DEF TypeOK, Kept

LEMMA InvNext == StoreInv /\ [Next]_vars => StoreInv'
<1> SUFFICES ASSUME StoreInv, [Next]_vars
             PROVE  StoreInv'
  OBVIOUS
<1> USE DEF StoreInv, vars, queueVars
<1>0. Kept \in Seq(Nat) /\ 0 \in Nat
  BY KeptType
<1>1. CASE MainPuts
  <2> USE <1>1 DEF MainPuts
  <2>1. puts + 1 \in Nat /\ puts + 2 \in Nat /\ puts + 1 # Nothing /\ inbox \in Seq(Nat)
        /\ answers \in Seq(Nat)
    BY DEF TypeOK, Nothing
  <2>2. Kept' = Kept
    BY DEF Kept
  <2>3. TypeOK'
    BY <2>1, Appended DEF TypeOK
  <2>4. ControlInv'
    BY DEF ControlInv
  <2>5. Bounded'
    <3>1. Below(inbox', puts + 2)
      <4>1. Below(inbox, puts + 2)
        BY <2>1, BelowGrows DEF Bounded, TypeOK
      <4>2. puts + 1 < puts + 2
        BY DEF TypeOK
      <4> QED
        BY <2>1, <4>1, <4>2, AppendedLines
    <3>2. Below(answers, puts + 2) /\ Below(Kept, puts + 2)
      BY <1>0, <2>1, BelowGrows DEF Bounded, TypeOK
    <3>3. puts' + 1 = puts + 2
      BY DEF TypeOK
    <3> QED
      BY <2>2, <3>1, <3>2, <3>3 DEF Bounded, TypeOK
  <2>6. OnTheWay'
    <3>1. /\ Rising(inbox') /\ Above(got, inbox') /\ Above(line, inbox')
          /\ Before(answers, inbox') /\ Before(Kept, inbox')
      <4>1. got < puts + 1 /\ line < puts + 1 /\ got \in Nat /\ line \in Nat
        BY DEF Bounded, TypeOK
      <4>2. /\ Below(inbox, puts + 1) /\ Below(answers, puts + 1) /\ Below(Kept, puts + 1)
        BY DEF Bounded
      <4> QED
        BY <1>0, <2>1, <4>1, <4>2, AppendedLines DEF OnTheWay
    <3> QED
      BY <2>2, <3>1 DEF OnTheWay
  <2>7. NothingVanishes'
    <3> SUFFICES ASSUME ~cut, NEW n \in 1 .. puts + 1
                 PROVE  \/ n <= got \/ n \in dropped \/ n = line
                        \/ In(n, answers) \/ In(n, Kept) \/ In(n, inbox')
      BY <2>2 DEF NothingVanishes
    <3>1. CASE n = puts + 1
      BY <3>1, <2>1, AppendedLines
    <3>2. CASE n \in 1 .. puts
      BY <3>2, <2>1, AppendedLines DEF NothingVanishes
    <3> QED
      BY <3>1, <3>2 DEF TypeOK
  <2> QED
    BY <2>3, <2>4, <2>5, <2>6, <2>7
<1>2. CASE MainFetches
  <2> USE <1>2 DEF MainFetches
  <2>1. Nothing \in Nat /\ inbox \in Seq(Nat) /\ answers \in Seq(Nat) /\ puts + 1 \in Nat
        /\ Nothing < puts + 1 /\ got \in Nat /\ line \in Nat
    BY DEF TypeOK, Nothing
  <2>2. Kept' = Kept
    BY DEF Kept
  <2>3. TypeOK' /\ ControlInv'
    BY <2>1, Appended DEF TypeOK, ControlInv
  <2>4. Bounded'
    BY <2>1, <2>2, AppendedLines DEF Bounded
  <2>5. OnTheWay'
    BY <1>0, <2>1, <2>2, AppendedLines DEF OnTheWay
  <2>6. NothingVanishes'
    BY <2>1, <2>2, AppendedLines DEF NothingVanishes
  <2> QED
    BY <2>3, <2>4, <2>5, <2>6
<1>3. CASE MainTakes
  <2> USE <1>3 DEF MainTakes
  <2> DEFINE h == Head(answers)
  <2>1. /\ answers \in Seq(Nat) /\ answers # <<>> /\ inbox \in Seq(Nat)
        /\ h \in Nat /\ Tail(answers) \in Seq(Nat) /\ got \in Nat /\ line \in Nat
        /\ puts + 1 \in Nat /\ puts \in Nat
    BY Dropped DEF TypeOK
  <2>2. Kept' = Kept
    BY DEF Kept
  <2>3. /\ Below(Tail(answers), puts + 1) /\ (h # Nothing => h < puts + 1)
        /\ (Rising(Tail(answers))) /\ (h # Nothing => Above(h, Tail(answers)))
        /\ Above(got, Tail(answers)) /\ (h # Nothing => got < h)
        /\ Before(Tail(answers), Kept) /\ (h # Nothing => Above(h, Kept))
        /\ Before(Tail(answers), inbox) /\ (h # Nothing => Above(h, inbox))
        /\ (line # Nothing => Below(Tail(answers), line) /\ (h # Nothing => h < line))
    BY <1>0, <2>1, DroppedLines DEF OnTheWay, Bounded
  <2> HIDE DEF h
  <2>4. answers' = Tail(answers) /\ got' = IF h = Nothing THEN got ELSE h
    BY DEF h
  <2>5. TypeOK' /\ ControlInv'
    BY <2>1, <2>4 DEF TypeOK, ControlInv
  <2>6. Bounded'
    BY <2>1, <2>2, <2>3, <2>4 DEF Bounded
  <2>7. OnTheWay'
    BY <2>1, <2>2, <2>3, <2>4 DEF OnTheWay
  <2>8. NothingVanishes'
    <3> SUFFICES ASSUME ~cut, NEW n \in 1 .. puts
                 PROVE  \/ n <= got' \/ n \in dropped \/ n = line
                        \/ In(n, Tail(answers)) \/ In(n, Kept) \/ In(n, inbox)
      BY <2>2, <2>4 DEF NothingVanishes
    <3>1. In(n, answers) => n = h \/ In(n, Tail(answers))
      BY <2>1, DroppedLines DEF h
    <3>2. n # Nothing /\ got <= got'
      BY <2>1, <2>3, <2>4 DEF Nothing
    <3> QED
      BY <2>1, <2>4, <3>1, <3>2 DEF NothingVanishes
  <2> QED
    BY <2>5, <2>6, <2>7, <2>8
<1>4. CASE Put
  <2> USE <1>4 DEF Put, Receive, Empty
  <2> DEFINE h == Head(inbox)
  <2>1. /\ answers \in Seq(Nat) /\ inbox # <<>> /\ inbox \in Seq(Nat) /\ disk \in Seq(Nat)
        /\ h \in Nat /\ h # Nothing /\ Tail(inbox) \in Seq(Nat) /\ got \in Nat /\ line \in Nat
        /\ puts + 1 \in Nat /\ Append(disk, h) \in Seq(Nat) /\ puts \in Nat
    BY Dropped, Appended DEF TypeOK
  <2>2. Kept = disk /\ Kept' = Append(disk, h) /\ line = Nothing
    BY DEF Kept, ControlInv
  <2>3. /\ Below(Tail(inbox), puts + 1) /\ h < puts + 1
        /\ Rising(Tail(inbox)) /\ Above(h, Tail(inbox))
        /\ Above(got, Tail(inbox)) /\ got < h
        /\ Before(answers, Tail(inbox)) /\ Below(answers, h)
        /\ Before(disk, Tail(inbox)) /\ Below(disk, h)
    BY <2>1, <2>2, DroppedLines DEF OnTheWay, Bounded
  <2>4. /\ Below(Append(disk, h), puts + 1) /\ Rising(Append(disk, h))
        /\ Above(got, Append(disk, h)) /\ Before(answers, Append(disk, h))
        /\ Before(Append(disk, h), Tail(inbox))
    BY <2>1, <2>2, <2>3, AppendedLines DEF OnTheWay, Bounded
  <2>5. \A n \in Nat : /\ In(n, inbox) => n = h \/ In(n, Tail(inbox))
                       /\ In(n, disk) => In(n, Append(disk, h))
                       /\ In(h, Append(disk, h))
    BY <2>1, DroppedLines, AppendedLines
  <2> HIDE DEF h
  <2>6. TypeOK' /\ ControlInv'
    <3>1. mem' = Append(disk, h)
      BY DEF h
    <3> QED
      BY <2>1, <3>1 DEF TypeOK, ControlInv
  <2>7. Bounded'
    BY <2>1, <2>2, <2>3, <2>4 DEF Bounded, Nothing
  <2>8. OnTheWay'
    BY <2>1, <2>2, <2>3, <2>4, AboveNothing DEF OnTheWay
  <2>9. NothingVanishes'
    BY <2>1, <2>2, <2>5 DEF NothingVanishes
  <2> QED
    BY <2>6, <2>7, <2>8, <2>9
<1>5. CASE Fetch
  <2> USE <1>5 DEF Fetch, Receive, Empty
  <2>1. /\ answers \in Seq(Nat) /\ inbox # <<>> /\ inbox \in Seq(Nat) /\ disk \in Seq(Nat)
        /\ Tail(inbox) \in Seq(Nat) /\ got \in Nat /\ line \in Nat
        /\ puts + 1 \in Nat /\ puts \in Nat
    BY Dropped DEF TypeOK
  <2>2. Kept = disk /\ line = Nothing
    BY DEF Kept, ControlInv
  <2>3. /\ Below(Tail(inbox), puts + 1) /\ Rising(Tail(inbox)) /\ Above(got, Tail(inbox))
        /\ Before(answers, Tail(inbox)) /\ Before(disk, Tail(inbox))
    BY <2>1, <2>2, DroppedLines DEF OnTheWay, Bounded
  <2>4. \A n \in Nat : In(n, inbox) => n = Nothing \/ In(n, Tail(inbox))
    BY <2>1, DroppedLines
  <2>5. CASE disk = <<>> \/ ~exists
    <3>1. disk' = disk /\ mem' = mem /\ exists' = exists /\ line' = Nothing
          /\ pc' \in {"dead", "send"} /\ disk = <<>>
      BY <2>2, <2>5 DEF ControlInv
    <3>2. Kept' = disk
      BY <3>1 DEF Kept
    <3>3. TypeOK' /\ ControlInv'
      BY <2>1, <3>1 DEF TypeOK, ControlInv, Nothing
    <3>4. Bounded' /\ OnTheWay'
      BY <2>1, <2>2, <2>3, <3>1, <3>2, AboveNothing DEF Bounded, OnTheWay, Nothing
    <3>5. NothingVanishes'
      BY <2>1, <2>2, <2>4, <3>1, <3>2 DEF NothingVanishes, Nothing
    <3> QED
      BY <3>3, <3>4, <3>5
  <2>6. CASE disk # <<>> /\ exists
    <3> DEFINE h == Head(disk)
    <3>1. /\ disk' = <<>> /\ exists' = TRUE /\ mem' = Tail(disk) /\ line' = h
          /\ pc' = "write"
      BY <2>6
    <3>2. Kept' = Tail(disk)
      BY <3>1 DEF Kept
    <3>3. h \in Nat /\ Tail(disk) \in Seq(Nat) /\ disk # <<>>
      BY <2>1, <2>6, Dropped
    <3>4. /\ Below(Tail(disk), puts + 1) /\ (h # Nothing => h < puts + 1)
          /\ Rising(Tail(disk)) /\ (h # Nothing => Above(h, Tail(disk)))
          /\ Above(got, Tail(disk)) /\ (h # Nothing => got < h)
          /\ Before(answers, Tail(disk)) /\ (h # Nothing => Below(answers, h))
          /\ Before(Tail(disk), Tail(inbox)) /\ (h # Nothing => Above(h, Tail(inbox)))
      BY <2>1, <2>2, <2>3, <3>3, DroppedLines DEF OnTheWay, Bounded
    <3>5. \A n \in Nat : In(n, disk) => n = h \/ In(n, Tail(disk))
      BY <2>1, <3>3, DroppedLines
    <3>6. Above(h, Tail(disk)) /\ Above(h, Tail(inbox))
      BY <2>1, <3>3, <3>4, AboveNothing
    <3> HIDE DEF h
    <3>7. TypeOK' /\ ControlInv'
      BY <2>1, <3>1, <3>3 DEF TypeOK, ControlInv
    <3>8. Bounded'
      BY <2>1, <2>3, <3>1, <3>2, <3>3, <3>4 DEF Bounded, Nothing
    <3>9. OnTheWay'
      BY <2>1, <2>3, <3>1, <3>2, <3>3, <3>4, <3>6 DEF OnTheWay
    <3>10. NothingVanishes'
      <4> SUFFICES ASSUME ~cut, NEW n \in 1 .. puts
                   PROVE  \/ n <= got \/ n \in dropped \/ n = h
                          \/ In(n, answers) \/ In(n, Tail(disk)) \/ In(n, Tail(inbox))
        BY <3>1, <3>2 DEF NothingVanishes
      <4>1. n \in Nat /\ n # Nothing
        BY <2>1 DEF Nothing
      <4> QED
        BY <2>2, <2>4, <3>5, <4>1 DEF NothingVanishes
    <3> QED
      BY <3>7, <3>8, <3>9, <3>10
  <2> QED
    BY <2>5, <2>6 DEF TypeOK
<1>6. CASE Write
  <2> USE <1>6 DEF Write
  <2>1. Kept' = Kept
    BY DEF Kept
  <2>2. TypeOK' /\ ControlInv'
    BY EmptySeq DEF TypeOK, ControlInv
  <2>3. Bounded' /\ OnTheWay' /\ NothingVanishes'
    BY <2>1 DEF Bounded, OnTheWay, NothingVanishes
  <2> QED
    BY <2>2, <2>3
<1>7. CASE Send
  <2> USE <1>7 DEF Send
  <2>1. /\ answers \in Seq(Nat) /\ inbox \in Seq(Nat) /\ line \in Nat /\ puts + 1 \in Nat
        /\ Append(answers, line) \in Seq(Nat) /\ got \in Nat /\ puts \in Nat
    BY Appended DEF TypeOK
  <2>2. Kept' = Kept
    BY DEF Kept
  <2>3. /\ Rising(Append(answers, line)) /\ Above(got, Append(answers, line))
        /\ Below(Append(answers, line), puts + 1)
        /\ Before(Append(answers, line), Kept) /\ Before(Append(answers, line), inbox)
    BY <1>0, <2>1, AppendedLines DEF OnTheWay, Bounded
  <2>4. \A n \in Nat : /\ In(n, answers) => In(n, Append(answers, line))
                       /\ In(line, Append(answers, line))
    BY <2>1, AppendedLines
  <2>5. TypeOK' /\ ControlInv'
    BY <2>1 DEF TypeOK, ControlInv, Nothing
  <2>6. Bounded'
    BY <2>1, <2>2, <2>3 DEF Bounded, Nothing
  <2>7. OnTheWay'
    BY <1>0, <2>1, <2>2, <2>3, AboveNothing DEF OnTheWay
  <2>8. NothingVanishes'
    <3> SUFFICES ASSUME ~cut, NEW n \in 1 .. puts
                 PROVE  \/ n <= got \/ n \in dropped'
                        \/ In(n, answers') \/ In(n, Kept) \/ In(n, inbox)
      BY <2>2 DEF NothingVanishes
    <3>1. n \in Nat /\ n # Nothing
      BY <2>1 DEF Nothing
    <3>2. n = line => n \in dropped' \/ In(n, answers')
      BY <2>4, <3>1
    <3>3. (n \in dropped => n \in dropped') /\ (In(n, answers) => In(n, answers'))
      BY <2>4, <3>1
    <3> QED
      BY <3>2, <3>3 DEF NothingVanishes
  <2> QED
    BY <2>5, <2>6, <2>7, <2>8
<1>8. CASE PowerCut
  <2> USE <1>8 DEF PowerCut
  <2>1. /\ disk \in Seq(Nat) /\ got \in Nat /\ puts \in Nat /\ puts + 1 \in Nat
        /\ Nothing \in Nat /\ disk' \in Seq(Nat)
    <3>1. disk' = disk \/ disk' = <<>>
      OBVIOUS
    <3>2. disk \in Seq(Nat)
      BY DEF TypeOK
    <3>3. disk' \in Seq(Nat)
      BY ONLY <3>1, <3>2, EmptySeq
    <3> QED
      BY <3>2, <3>3 DEF TypeOK, Nothing
  <2>2. TypeOK' /\ ControlInv'
    BY <2>1, EmptySeq DEF TypeOK, ControlInv
  <2>3. Kept' = disk'
    BY DEF Kept
  <2>4. disk' = <<>> \/ disk' = Kept
    BY DEF Kept, ControlInv, TypeOK
  <2>5. Rising(disk') /\ Above(got, disk') /\ Below(disk', puts + 1)
    BY <2>1, <2>4, EmptySeq, NoLines DEF OnTheWay, Bounded
  <2>6. Bounded'
    BY <2>1, <2>3, <2>5, EmptySeq, NoLines DEF Bounded, TypeOK, Nothing
  <2>7. OnTheWay'
    BY <2>1, <2>3, <2>5, EmptySeq, NoLines, AboveNothing DEF OnTheWay
  <2>8. NothingVanishes'
    BY DEF NothingVanishes
  <2> QED
    BY <2>2, <2>6, <2>7, <2>8
<1>9. CASE UNCHANGED vars
  BY <1>9 DEF TypeOK, ControlInv, Bounded, OnTheWay, NothingVanishes, Kept
<1> QED
  BY <1>1, <1>2, <1>3, <1>4, <1>5, <1>6, <1>7, <1>8, <1>9 DEF Next

LEMMA Invariance == Spec => []StoreInv
BY InvInit, InvNext, PTL DEF Spec

-----------------------------------------------------------------------------
(* Theorems *)

\* Every variable keeps its type, for any number of lines and any capacity.
THEOREM TypeCorrect == Spec => []TypeOK
BY Invariance, PTL DEF StoreInv

\* The lines on their way through inbox, file and answers keep their order.
THEOREM OnTheWayHolds == Spec => []OnTheWay
BY Invariance, PTL DEF StoreInv

\* Without a power cut a line is on its way, fetched or was refused.
THEOREM NothingVanishesHolds == Spec => []NothingVanishes
BY Invariance, PTL DEF StoreInv

\* Lines are fetched in order, none twice and none skipped.
THEOREM OldestFirstHolds == Spec => OldestFirst
<1> DEFINE Skips == MainTakes /\ Head(answers) # Nothing =>
         /\ got < Head(answers)
         /\ ~cut => \A n \in got + 1 .. Head(answers) - 1 : n \in dropped
<1>1. StoreInv => Skips
  <2> SUFFICES ASSUME StoreInv, MainTakes, Head(answers) # Nothing
               PROVE  /\ got < Head(answers)
                      /\ ~cut => \A n \in got + 1 .. Head(answers) - 1 : n \in dropped
    OBVIOUS
  <2> DEFINE h == Head(answers)
  <2>1. /\ answers \in Seq(Nat) /\ answers # <<>> /\ inbox \in Seq(Nat)
        /\ Kept \in Seq(Nat) /\ got \in Nat /\ line \in Nat /\ h \in Nat
        /\ puts \in Nat /\ puts + 1 \in Nat /\ Tail(answers) \in Seq(Nat)
    BY KeptType, Dropped DEF StoreInv, TypeOK, MainTakes
  <2>2. /\ got < h /\ Above(h, Tail(answers)) /\ Above(h, Kept) /\ Above(h, inbox)
        /\ (line # Nothing => h < line) /\ h < puts + 1
    BY <2>1, DroppedLines DEF StoreInv, OnTheWay, Bounded
  <2>3. ASSUME ~cut, NEW n \in got + 1 .. h - 1
        PROVE  n \in dropped
    <3>1. n \in 1 .. puts /\ n < h /\ n \in Nat /\ n # Nothing /\ ~(n <= got)
      BY <2>1, <2>2 DEF Nothing
    <3>2. \A s \in Seq(Nat) : Above(h, s) => ~In(n, s)
      <4> SUFFICES ASSUME NEW s \in Seq(Nat), Above(h, s), NEW i \in DOMAIN s, s[i] = n
                   PROVE  FALSE
        BY DEF In
      <4>1. i \in Lines(s)
        BY <3>1 DEF Lines
      <4> QED
        BY <4>1, <3>1, <2>1 DEF Above
    <3>3. ~In(n, answers)
      <4>1. ~In(n, Tail(answers))
        BY <2>1, <2>2, <3>2
      <4>2. In(n, answers) => n = h \/ In(n, Tail(answers))
        BY <2>1, <3>1, DroppedLines
      <4> QED
        BY <4>1, <4>2, <2>1, <3>1
    <3>4. n # line
      BY <2>1, <2>2, <3>1
    <3> QED
      BY <2>1, <2>2, <2>3, <3>1, <3>2, <3>3, <3>4 DEF StoreInv, NothingVanishes
  <2> QED
    BY <2>2, <2>3
<1>2. StoreInv => [Skips]_vars
  BY <1>1
<1> QED
  BY <1>2, Invariance, PTL DEF OldestFirst, Skips
=============================================================================
