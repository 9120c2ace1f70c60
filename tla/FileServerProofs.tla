-------------------------- MODULE FileServerProofs --------------------------
(***************************************************************************)
(* Proofs about FileServer: types, and the shape of the alarm file, for    *)
(* any set of ids, of settings and any length of the files.                *)
(***************************************************************************)
EXTENDS FileServer, SequenceTheorems, TLAPS

-----------------------------------------------------------------------------
(* Files with the same ids in the same lines have the same shape. *)

SameIds(f, g) ==
    /\ Len(g.lines) = Len(f.lines) /\ g.open = f.open
    /\ \A k \in DOMAIN f.lines : g.lines[k].id = f.lines[k].id

LEMMA Lengths ==
    ASSUME NEW f \in FileTypes
    PROVE  /\ f.lines \in Seq(LineTypes) /\ Len(f.lines) \in Nat
           /\ DOMAIN f.lines = 1 .. Len(f.lines)
           /\ \A k \in 1 .. Len(f.lines) : f.lines[k] \in LineTypes
           /\ f.lines = <<>> <=> Len(f.lines) = 0
           /\ f.open \in BOOLEAN
BY DEF FileTypes

LEMMA OffsetFacts ==
    ASSUME NEW k \in Nat \ {0}
    PROVE  /\ Offset(k, 9) \in 0 .. 8 /\ k - Offset(k, 9) \in 1 .. k
           /\ Offset(k - Offset(k, 9), 9) = 0
           /\ \A p \in 1 .. k : Offset(p, 9) = 0 /\ k - p \in 0 .. 8
                                  => Offset(k, 9) = k - p
           /\ Offset(k + 9, 9) = Offset(k, 9)
BY DEF Offset

LEMMA SameShape ==
    ASSUME NEW f \in FileTypes, NEW g \in FileTypes, SameIds(f, g)
    PROVE  (Whole(f) => Whole(g)) /\ (Ruined(f) => Ruined(g))
<1>1. DOMAIN g.lines = DOMAIN f.lines /\ Heads(g, 9) = Heads(f, 9)
  BY Lengths DEF SameIds, Heads
<1>2. Whole(f) => Whole(g)
  <2> SUFFICES ASSUME Whole(f) PROVE Whole(g)
    OBVIOUS
  <2>1. Readable(g, 9) /\ g.open
    BY Lengths DEF SameIds, Whole, Readable
  <2>2. \A k \in Heads(f, 9) : g.lines[k].id = f.lines[k].id
    BY DEF SameIds, Heads
  <2>3. ASSUME NEW k \in DOMAIN f.lines
        PROVE  g.lines[k].id = g.lines[k - Offset(k, 9)].id + Offset(k, 9)
    <3>1. k \in Nat \ {0} /\ DOMAIN f.lines = 1 .. Len(f.lines) /\ Len(f.lines) \in Nat
      BY Lengths
    <3>2. k - Offset(k, 9) \in 1 .. k
      BY <3>1, OffsetFacts
    <3>3. k - Offset(k, 9) \in DOMAIN f.lines
      BY <3>1, <3>2
    <3> QED
      BY <3>3 DEF SameIds, Whole
  <2> QED
    BY <1>1, <2>1, <2>2, <2>3 DEF Whole
<1>3. Ruined(f) => Ruined(g)
  <2>1. Len(f.lines) = 10 => DOMAIN f.lines = 1 .. 10
    BY Lengths
  <2> QED
    BY <2>1, Lengths DEF Ruined, SameIds
<1> QED
  BY <1>2, <1>3

-----------------------------------------------------------------------------
(* The lines that the functions write *)

LEMMA NewAlarmFacts ==
    ASSUME NEW id \in Ids, NEW v \in Settings
    PROVE  /\ NewAlarm(id, v) \in Seq(LineTypes) /\ Len(NewAlarm(id, v)) = 9
           /\ \A d \in 1 .. 9 : NewAlarm(id, v)[d].id = id + d - 1
<1>1. \A d \in 1 .. 9 : Line(id + d - 1, IF d - 1 \in AlarmWritten THEN v ELSE Unset)
                          \in LineTypes
  BY IdsAssumption DEF Line, LineTypes, Values
<1> QED
  BY <1>1 DEF NewAlarm, Line

LEMMA TailType ==
    ASSUME NEW L \in Seq(LineTypes), Len(L) = 6
    PROVE  Tail(L) \in Seq(LineTypes)
<1>1. L # <<>>
  OBVIOUS
<1> QED
  BY <1>1, HeadTailProperties

LEMMA NewAlertFacts ==
    ASSUME NEW id \in Ids, NEW v \in Settings
    PROVE  /\ NewAlert(id, v) \in Seq(LineTypes) /\ Len(NewAlert(id, v)) = 6
           /\ Tail(NewAlert(id, v)) \in Seq(LineTypes)
<1>1. \A d \in 1 .. 6 : Line(id + d - 1, v) \in LineTypes
  BY IdsAssumption DEF Line, LineTypes, Values
<1>2. NewAlert(id, v) \in Seq(LineTypes) /\ Len(NewAlert(id, v)) = 6
  BY <1>1 DEF NewAlert
<1> QED
  BY <1>2, TailType

\* Only a head carries the id of a record.
LEMMA HeadsOnly ==
    ASSUME NEW f \in FileTypes, Whole(f), NEW id \in Ids,
           NEW p \in DOMAIN f.lines, f.lines[p].id = id
    PROVE  p \in Heads(f, 9)
<1> DEFINE d == Offset(p, 9)
           h == f.lines[p - d].id
<1>0. p \in Nat \ {0} /\ DOMAIN f.lines = 1 .. Len(f.lines) /\ Len(f.lines) \in Nat
  BY Lengths
<1>0a. d \in 0 .. 8 /\ p - d \in 1 .. p /\ Offset(p - d, 9) = 0
  BY <1>0, OffsetFacts
<1>1. p \in Nat \ {0} /\ d \in 0 .. 8 /\ p - d \in DOMAIN f.lines /\ Offset(p - d, 9) = 0
  BY <1>0, <1>0a
<1>2. h \in Ids /\ id = h + d
  BY <1>1 DEF Whole, Heads
<1>3. h \in Nat /\ id \in Nat /\ h % 10 = 0 /\ id % 10 = 0
  BY <1>2, IdsAssumption
<1> HIDE DEF d, h
<1>4. d = 0
  BY <1>1, <1>2, <1>3
<1> QED
  BY <1>4 DEF Heads, d

-----------------------------------------------------------------------------
(* Editing the alarm file *)

LEMMA Replaced ==
    ASSUME NEW f \in FileTypes, NEW L \in [DOMAIN f.lines -> LineTypes]
    PROVE  LET g == [f EXCEPT !.lines = L]
           IN /\ g \in FileTypes /\ g.lines = L /\ g.open = f.open
              /\ Len(g.lines) = Len(f.lines) /\ DOMAIN g.lines = DOMAIN f.lines
<1>1. DOMAIN f.lines = 1 .. Len(f.lines) /\ Len(f.lines) \in Nat
  BY Lengths
<1>2. L \in Seq(LineTypes) /\ Len(L) = Len(f.lines) /\ DOMAIN L = DOMAIN f.lines
  BY <1>1
<1> QED
  BY <1>2 DEF FileTypes

LEMMA MarkedLine ==
    ASSUME NEW i \in Nat \cup {NoId}, NEW v \in Values
    PROVE  Line(i, v) \in LineTypes /\ Line(i, v).id = i
BY DEF Line, LineTypes, Values

LEMMA LineIds ==
    ASSUME NEW line \in LineTypes
    PROVE  line.id \in Nat \cup {NoId}
<1>1. CASE line = Blank
  <2>1. Blank.id = NoId
    BY DEF Blank
  <2> QED
    BY <1>1, <2>1
<1>2. CASE line \in [id : Nat \cup {NoId}, val : Values]
  BY <1>2
<1> QED
  BY <1>1, <1>2 DEF LineTypes

\* write_alarm() puts every id where it was.
LEMMA EditAlarmFacts ==
    ASSUME NEW f \in FileTypes, Whole(f) \/ Ruined(f), NEW id \in Ids, NEW v \in Settings
    PROVE  LET g == EditAlarm(f, id, v)
           IN g \in FileTypes /\ (Whole(g) \/ Ruined(g))
<1> DEFINE g == EditAlarm(f, id, v)
           p == PlaceOf(f, id)
           L == [k \in DOMAIN f.lines |->
                  IF k - p \in AlarmWritten THEN Line(id + (k - p), v) ELSE f.lines[k]]
<1>1. CASE ~StartsWith(f, id)
  BY <1>1 DEF EditAlarm
<1>2. CASE StartsWith(f, id)
  <2>1. p \in DOMAIN f.lines /\ f.lines[p].id = id
    BY <1>2 DEF StartsWith, PlaceOf
  <2>2. DOMAIN f.lines = 1 .. Len(f.lines) /\ Len(f.lines) \in Nat
        /\ \A k \in 1 .. Len(f.lines) : f.lines[k] \in LineTypes
    BY Lengths
  <2>3. id \in Nat
    BY IdsAssumption
  <2> HIDE DEF p
  <2>4. g = [f EXCEPT !.lines = L]
    BY <1>2 DEF EditAlarm, FileTypes, p
  <2>5. ASSUME NEW k \in DOMAIN f.lines, k - p \in AlarmWritten
        PROVE  k - p \in 0 .. 8 /\ L[k] \in LineTypes /\ L[k].id = id + (k - p)
    <3>1. k - p \in 0 .. 8
      BY <2>5, <2>1, <2>2 DEF AlarmWritten
    <3>2. id + (k - p) \in Nat
      BY <3>1, <2>3, <2>1, <2>2
    <3> QED
      BY <3>1, <3>2, <2>5, MarkedLine DEF Values
  <2>6. ASSUME NEW k \in DOMAIN f.lines, k - p \notin AlarmWritten
        PROVE  L[k] = f.lines[k] /\ L[k] \in LineTypes
    BY <2>6, <2>2
  <2>7. L \in [DOMAIN f.lines -> LineTypes]
    BY <2>5, <2>6
  <2> HIDE DEF L, g
  <2>8. g \in FileTypes /\ g.lines = L /\ g.open = f.open /\ Len(g.lines) = Len(f.lines)
    BY <2>4, <2>7, Replaced
  <2>9. CASE Whole(f)
    <3>1. p \in Heads(f, 9)
      BY <2>9, <2>1, HeadsOnly
    <3>2. ASSUME NEW k \in DOMAIN f.lines, k - p \in AlarmWritten
          PROVE  L[k].id = f.lines[k].id
      <4>1. k - p \in 0 .. 8 /\ L[k].id = id + (k - p)
        BY <2>5, <3>2
      <4>2. Offset(p, 9) = 0 /\ p \in 1 .. k /\ k \in Nat \ {0}
        BY <3>1, <4>1, <2>1, <2>2 DEF Heads
      <4>3. Offset(k, 9) = k - p
        BY <4>1, <4>2, OffsetFacts
      <4>4. f.lines[k].id = f.lines[k - Offset(k, 9)].id + Offset(k, 9)
        BY <2>9 DEF Whole
      <4>5. k - (k - p) = p
        BY <4>2
      <4> QED
        BY <4>1, <4>3, <4>4, <4>5, <2>1
    <3>3. SameIds(f, g)
      BY <2>8, <3>2, <2>6 DEF SameIds
    <3> QED
      BY <2>8, <2>9, <3>3, SameShape DEF g
  <2>10. CASE Ruined(f)
    <3>1. CASE Len(f.lines) = 10 /\ f.lines[1].id = NoId
      <4>1. 1 \in DOMAIN f.lines /\ p # 1
        BY <3>1, <2>1, <2>2, <2>3 DEF NoId
      <4>2. 1 - p \notin AlarmWritten
        BY <4>1, <2>1, <2>2 DEF AlarmWritten
      <4>3. L[1] = f.lines[1]
        BY <4>1, <4>2, <2>6
      <4> QED
        BY <3>1, <4>3, <2>8 DEF Ruined, g
    <3>2. CASE f.lines = <<>>
      BY <3>2, <2>1, <2>2
    <3> QED
      BY <2>10, <3>1, <3>2 DEF Ruined
  <2> QED
    BY <2>9, <2>10
<1> QED
  BY <1>1, <1>2

LEMMA MarkFacts ==
    ASSUME NEW f \in FileTypes, NEW id \in Ids, NEW m \in Marks
    PROVE  Mark(f, id, m) \in FileTypes /\ SameIds(f, Mark(f, id, m))
<1> DEFINE L == [k \in DOMAIN f.lines |->
                  IF Third(f, id, k) THEN Line(f.lines[k].id, m) ELSE f.lines[k]]
<1>1. Mark(f, id, m) = [f EXCEPT !.lines = L]
  BY DEF Mark, FileTypes
<1>2. \A k \in DOMAIN f.lines : f.lines[k] \in LineTypes
  BY Lengths
<1>3. ASSUME NEW k \in DOMAIN f.lines
      PROVE  L[k] \in LineTypes /\ L[k].id = f.lines[k].id
  BY <1>2, LineIds, MarkedLine DEF Values
<1> HIDE DEF L
<1>4. L \in [DOMAIN f.lines -> LineTypes]
  BY <1>3 DEF L
<1> QED
  BY <1>1, <1>3, <1>4, Replaced DEF SameIds

LEMMA MarkFirstFacts ==
    ASSUME NEW f \in FileTypes, f.lines # <<>>, NEW m \in Marks
    PROVE  MarkFirst(f, m) \in FileTypes /\ SameIds(f, MarkFirst(f, m))
<1> DEFINE L == [f.lines EXCEPT ![1] = Line(@.id, m)]
<1>1. MarkFirst(f, m) = [f EXCEPT !.lines = L]
  BY DEF MarkFirst, FileTypes
<1>2. DOMAIN f.lines = 1 .. Len(f.lines) /\ Len(f.lines) \in Nat \ {0}
      /\ \A k \in 1 .. Len(f.lines) : f.lines[k] \in LineTypes
  BY Lengths
<1>3. f.lines[1] \in LineTypes
  BY <1>2
<1>4. Line(f.lines[1].id, m) \in LineTypes /\ Line(f.lines[1].id, m).id = f.lines[1].id
  BY <1>3, LineIds, MarkedLine DEF Values
<1>5. ASSUME NEW k \in DOMAIN f.lines
      PROVE  L[k] \in LineTypes /\ L[k].id = f.lines[k].id
  BY <1>2, <1>4
<1>6. L \in [DOMAIN f.lines -> LineTypes]
  BY <1>2, <1>5
<1> HIDE DEF L
<1> QED
  BY <1>1, <1>5, <1>6, Replaced DEF SameIds

LEMMA AlertTypes ==
    ASSUME NEW f \in FileTypes, NEW id \in Ids, NEW v \in Settings
    PROVE  EditAlert(f, id, v) \in FileTypes /\ AppendAlert(f, id, v) \in FileTypes
<1> DEFINE A == NewAlert(id, v)
           p == PlaceOf(f, id)
           n == Len(f.lines)
<1>1. DOMAIN f.lines = 1 .. n /\ n \in Nat /\ f.lines \in Seq(LineTypes)
      /\ \A k \in 1 .. n : f.lines[k] \in LineTypes
      /\ (f.lines = <<>> <=> n = 0) /\ f.open \in BOOLEAN
  BY Lengths
<1>2. A \in Seq(LineTypes) /\ Len(A) = 6 /\ Tail(A) \in Seq(LineTypes)
  BY NewAlertFacts
<1> HIDE DEF A, n
<1>3. EditAlert(f, id, v) \in FileTypes
  <2>1. CASE ~StartsWith(f, id)
    BY <2>1 DEF EditAlert
  <2>2. CASE StartsWith(f, id)
    <3>1. p \in 1 .. n
      BY <2>2, <1>1 DEF StartsWith, PlaceOf
    <3> DEFINE X == SubSeq(f.lines, 1, p - 1)
               Y == SubSeq(f.lines, p + 6, n)
    <3>2. EditAlert(f, id, v) = [lines |-> X \o A \o Y, open |-> f.open /\ p + 5 < n]
      BY <2>2 DEF EditAlert, A, n
    <3> HIDE DEF p
    <3>3. X \in Seq(LineTypes) /\ Y \in Seq(LineTypes)
      BY <3>1, <1>1, SubSeqProperties
    <3> HIDE DEF X, Y
    <3>4. X \o A \in Seq(LineTypes)
      BY <3>3, <1>2, ConcatProperties
    <3>5. X \o A \o Y \in Seq(LineTypes)
      BY <3>3, <3>4, ConcatProperties
    <3>6. (f.open /\ p + 5 < n) \in BOOLEAN
      OBVIOUS
    <3> QED
      BY <3>2, <3>5, <3>6 DEF FileTypes
  <2> QED
    BY <2>1, <2>2
<1>4. AppendAlert(f, id, v) \in FileTypes
  <2>1. CASE ~f.open
    <3>1. AppendAlert(f, id, v) = [lines |-> f.lines \o A, open |-> TRUE]
      BY <2>1 DEF AppendAlert, A
    <3>2. f.lines \o A \in Seq(LineTypes)
      BY <1>1, <1>2, ConcatProperties
    <3> QED
      BY <3>1, <3>2 DEF FileTypes
  <2>2. CASE f.open
    <3> DEFINE X == [f.lines EXCEPT ![n] = Joined(@)]
    <3>1. AppendAlert(f, id, v) = [lines |-> X \o Tail(A), open |-> TRUE]
      BY <2>2 DEF AppendAlert, A, n
    <3>2. X \in Seq(LineTypes)
      <4>1. CASE n = 0
        <5>1. \A k \in DOMAIN f.lines : k # n
          BY <4>1, <1>1
        <5>2. X = f.lines
          BY <5>1, <1>1
        <5> QED
          BY <5>2, <1>1
      <4>2. CASE n # 0
        <5>1. n \in 1 .. n /\ f.lines[n] \in LineTypes
          BY <4>2, <1>1
        <5>2. Joined(f.lines[n]) \in LineTypes
          BY <5>1, LineIds, MarkedLine DEF Joined, Values
        <5> QED
          BY <5>1, <5>2, <1>1
      <4> QED
        BY <4>1, <4>2
    <3> HIDE DEF X
    <3>3. X \o Tail(A) \in Seq(LineTypes)
      BY <3>2, <1>2, ConcatProperties
    <3> QED
      BY <3>1, <3>3 DEF FileTypes
  <2> QED
    BY <2>1, <2>2
<1> QED
  BY <1>3, <1>4

LEMMA NineBehind ==
    ASSUME NEW S, NEW s \in Seq(S), NEW t \in Seq(S), Len(t) = 9
    PROVE  /\ s \o t \in Seq(S) /\ Len(s \o t) = Len(s) + 9
           /\ \A k \in 1 .. Len(s) + 9 : (s \o t)[k] = IF k <= Len(s) THEN s[k] ELSE t[k - Len(s)]
<1>1. /\ s \o t \in Seq(S) /\ Len(s \o t) = Len(s) + Len(t)
      /\ \A k \in 1 .. Len(s) + Len(t) :
           (s \o t)[k] = IF k <= Len(s) THEN s[k] ELSE t[k - Len(s)]
  BY ConcatProperties
<1> QED
  BY <1>1

LEMMA OneBefore ==
    ASSUME NEW S, NEW s \in Seq(S), NEW t \in Seq(S), Len(s) = 1, Len(t) = 9
    PROVE  /\ s \o t \in Seq(S) /\ Len(s \o t) = 1 + 9
           /\ \A k \in 1 .. 1 + 9 : (s \o t)[k] = IF k <= 1 THEN s[k] ELSE t[k - 1]
<1>1. /\ s \o t \in Seq(S) /\ Len(s \o t) = Len(s) + Len(t)
      /\ \A k \in 1 .. Len(s) + Len(t) :
           (s \o t)[k] = IF k <= Len(s) THEN s[k] ELSE t[k - Len(s)]
  BY ConcatProperties
<1> QED
  BY <1>1

\* write_alarm() adds a record to whole records, or behind the blank line it
\* puts into an empty file.
LEMMA AppendAlarmFacts ==
    ASSUME NEW f \in FileTypes, Whole(f) \/ Ruined(f), NEW id \in Ids, NEW v \in Settings,
           ~Found(f, 9, id)
    PROVE  LET g == AppendAlarm(f, id, v)
           IN g \in FileTypes /\ (Whole(g) \/ Ruined(g))
<1> DEFINE A == NewAlarm(id, v)
           g == AppendAlarm(f, id, v)
           n == Len(f.lines)
<1>1. DOMAIN f.lines = 1 .. n /\ n \in Nat /\ f.lines \in Seq(LineTypes)
      /\ \A k \in 1 .. n : f.lines[k] \in LineTypes
      /\ (f.lines = <<>> <=> n = 0)
  BY Lengths
<1>2. A \in Seq(LineTypes) /\ Len(A) = 9 /\ \A d \in 1 .. 9 : A[d].id = id + d - 1
  BY NewAlarmFacts
<1>3. id \in Nat
  BY IdsAssumption
<1> HIDE DEF A
<1>4. CASE Whole(f)
  <2>1. f.open /\ n # 0 /\ n % 9 = 0
    <3>1. f.open /\ f.lines # <<>> /\ n % 9 = 0
      BY <1>4 DEF Whole, Readable
    <3>2. n # 0
      BY <3>1, <1>1
    <3> QED
      BY <3>1, <3>2
  <2>2. g = [lines |-> f.lines \o A, open |-> TRUE]
    BY <2>1 DEF AppendAlarm, A
  <2>3. /\ f.lines \o A \in Seq(LineTypes) /\ Len(f.lines \o A) = n + 9
        /\ \A k \in 1 .. n : (f.lines \o A)[k] = f.lines[k]
        /\ \A k \in n + 1 .. n + 9 : (f.lines \o A)[k] = A[k - n]
    <3>1. /\ f.lines \o A \in Seq(LineTypes) /\ Len(f.lines \o A) = n + 9
          /\ \A k \in 1 .. n + 9 : (f.lines \o A)[k] = IF k <= n THEN f.lines[k] ELSE A[k - n]
      BY <1>1, <1>2, NineBehind
    <3> HIDE DEF n
    <3> QED
      BY <3>1, <1>1
  <2> HIDE DEF g, n
  <2>4. /\ g \in FileTypes /\ Len(g.lines) = n + 9 /\ DOMAIN g.lines = 1 .. n + 9 /\ g.open
        /\ \A k \in 1 .. n : g.lines[k].id = f.lines[k].id
        /\ \A k \in n + 1 .. n + 9 : g.lines[k].id = id + (k - n) - 1
    <3>1. g \in FileTypes /\ g.open /\ g.lines = f.lines \o A
      BY <2>2, <2>3 DEF FileTypes
    <3>2. \A k \in n + 1 .. n + 9 : A[k - n].id = id + (k - n) - 1
      BY <1>1, <1>2
    <3> QED
      BY <3>1, <3>2, <2>3, <1>1, Lengths, ZenonT(60)
  <2>5. Readable(g, 9)
    <3>1. (n + 9) % 9 = 0 /\ n + 9 # 0
      BY <1>1, <2>1
    <3> QED
      BY <2>4, <3>1, Lengths DEF Readable
  <2>6. Heads(g, 9) = Heads(f, 9) \cup {n + 1}
    <3>1. Heads(g, 9) = {k \in 1 .. n + 9 : (k - 1) % 9 = 0}
      BY <2>4 DEF Heads, Offset
    <3>2. Heads(f, 9) = {k \in 1 .. n : (k - 1) % 9 = 0}
      BY <1>1 DEF Heads, Offset
    <3>3. \A k \in 1 .. n + 9 : (k - 1) % 9 = 0 <=> (k \in 1 .. n /\ (k - 1) % 9 = 0) \/ k = n + 1
      BY <1>1, <2>1
    <3>4. n + 1 \in 1 .. n + 9
      BY <1>1
    <3> HIDE DEF A
    <3>5. \A k \in 1 .. n : k \in 1 .. n + 9
      BY <1>1
    <3> QED
      BY <3>1, <3>2, <3>3, <3>4, <3>5
  <2>7. ASSUME NEW k \in Heads(f, 9)
        PROVE  /\ k \in 1 .. n /\ k # n + 1 /\ g.lines[k].id = f.lines[k].id
               /\ f.lines[k].id \in Ids /\ f.lines[k].id # id
    <3>1. k \in 1 .. n /\ k # n + 1
      BY <2>7, <1>1 DEF Heads
    <3>2. f.lines[k].id # id
      BY <2>7 DEF Found, Passes
    <3> QED
      BY <3>1, <3>2, <2>4, <1>4 DEF Whole
  <2>8. n + 1 \in n + 1 .. n + 9 /\ g.lines[n + 1].id = id
    <3>1. n + 1 \in n + 1 .. n + 9 /\ id + ((n + 1) - n) - 1 = id
      BY <1>1, <1>3
    <3> QED
      BY <3>1, <2>4
  <2>9. \A k \in Heads(g, 9) : g.lines[k].id \in Ids
    BY <2>6, <2>7, <2>8
  <2>10. ASSUME NEW j \in Heads(g, 9), NEW k \in Heads(g, 9), g.lines[j].id = g.lines[k].id
         PROVE  j = k
    <3>1. CASE j \in Heads(f, 9) /\ k \in Heads(f, 9)
      BY <3>1, <2>10, <2>7, <1>4 DEF Whole
    <3>2. CASE j = n + 1 /\ k \in Heads(f, 9)
      BY <3>2, <2>10, <2>7, <2>8
    <3>3. CASE k = n + 1 /\ j \in Heads(f, 9)
      BY <3>3, <2>10, <2>7, <2>8
    <3> QED
      BY <3>1, <3>2, <3>3, <2>6
  <2>11. ASSUME NEW k \in DOMAIN g.lines
         PROVE  g.lines[k].id = g.lines[k - Offset(k, 9)].id + Offset(k, 9)
    <3>1. CASE k \in 1 .. n
      <4>1. k - Offset(k, 9) \in 1 .. k
        BY <3>1, <1>1, OffsetFacts
      <4>2. k - Offset(k, 9) \in 1 .. n
        BY <3>1, <4>1, <1>1
      <4> QED
        BY <3>1, <4>2, <2>4, <1>1, <1>4 DEF Whole
    <3>2. CASE k \in n + 1 .. n + 9
      <4>0. (n + 1) - 1 = n
        BY <1>1
      <4>0a. Offset(n + 1, 9) = 0
        BY <4>0, <2>1 DEF Offset
      <4>1. n + 1 \in 1 .. k /\ k - (n + 1) \in 0 .. 8 /\ Offset(n + 1, 9) = 0 /\ k \in Nat \ {0}
        BY <3>2, <1>1, <4>0a
      <4>2. Offset(k, 9) = k - (n + 1)
        BY <4>1, OffsetFacts
      <4>3. k - Offset(k, 9) = n + 1
        BY <4>1, <4>2, <1>1
      <4>4. g.lines[k].id = id + (k - n) - 1
        BY <3>2, <2>4
      <4>5. id + (k - n) - 1 = id + (k - (n + 1))
        BY <3>2, <1>1, <1>3
      <4> QED
        BY <4>2, <4>3, <4>4, <4>5, <2>8
    <3> QED
      BY <3>1, <3>2, <2>4, <1>1
  <2> QED
    BY <2>4, <2>5, <2>9, <2>10, <2>11 DEF Whole, g
<1>5. CASE Ruined(f)
  <2>1. f.lines = <<>> /\ ~f.open
    <3>1. CASE Len(f.lines) = 10 /\ f.lines[1].id = NoId
      <4>1. 1 \in Heads(f, 9) /\ f.lines[1].id = NoId
        BY <3>1, <1>1 DEF Heads, Offset
      <4> QED
        BY <4>1 DEF Found, Passes
    <3>2. (f.lines = <<>> /\ ~f.open) \/ (Len(f.lines) = 10 /\ f.lines[1].id = NoId)
      BY <1>5 DEF Ruined
    <3> QED
      BY <3>1, <3>2
  <2>2. g = [lines |-> <<Blank>> \o A, open |-> TRUE]
    BY <2>1 DEF AppendAlarm, A
  <2>3. /\ <<Blank>> \o A \in Seq(LineTypes) /\ Len(<<Blank>> \o A) = 10
        /\ (<<Blank>> \o A)[1] = Blank
        /\ \A k \in 2 .. 10 : (<<Blank>> \o A)[k] = A[k - 1]
    <3>1. <<Blank>> \in Seq(LineTypes) /\ Len(<<Blank>>) = 1 /\ <<Blank>>[1] = Blank
      BY DEF LineTypes
    <3>2. /\ <<Blank>> \o A \in Seq(LineTypes) /\ Len(<<Blank>> \o A) = 1 + 9
          /\ \A k \in 1 .. 1 + 9 :
               (<<Blank>> \o A)[k] = IF k <= 1 THEN <<Blank>>[k] ELSE A[k - 1]
      BY <3>1, <1>2, OneBefore
    <3> QED
      BY <3>1, <3>2
  <2>4. \A k \in 2 .. 10 : A[k - 1].id # NoId
    BY <1>2, <1>3, SMTT(60) DEF NoId
  <2>5. Blank.id = NoId
    BY DEF Blank
  <2>6. \A k \in 1 .. 10 : k = 1 \/ k \in 2 .. 10
    OBVIOUS
  <2> HIDE DEF g
  <2>7. g \in FileTypes /\ g.lines = <<Blank>> \o A
    BY <2>2, <2>3 DEF FileTypes
  <2>8. \A k \in 1 .. 10 : g.lines[k].id = NoId <=> k = 1
    BY <2>3, <2>4, <2>5, <2>6, <2>7
  <2> QED
    BY <2>3, <2>7, <2>8 DEF Ruined, g
<1> QED
  BY <1>4, <1>5

-----------------------------------------------------------------------------
(* The invariant *)

FileInv == TypeOK /\ AlarmInv

Sound(f) == f \in FileTypes /\ (Whole(f) \/ Ruined(f))

LEMMA EmptyFacts ==
    EmptyFile \in FileTypes /\ Ruined(EmptyFile)
BY DEF EmptyFile, FileTypes, Ruined

LEMMA InstalledAlarm ==
    ASSUME NEW id \in Ids, NEW v \in Settings
    PROVE  Sound([lines |-> NewAlarm(id, v), open |-> TRUE])
<1> DEFINE A == NewAlarm(id, v)
           f == [lines |-> A, open |-> TRUE]
<1>1. A \in Seq(LineTypes) /\ Len(A) = 9 /\ DOMAIN A = 1 .. 9
      /\ \A k \in 1 .. 9 : A[k].id = id + k - 1
  BY NewAlarmFacts
<1>2. id \in Nat
  BY IdsAssumption
<1>3. \A k \in 1 .. 9 : Offset(k, 9) = k - 1
  BY DEF Offset
<1> HIDE DEF A
<1>4. f \in FileTypes /\ f.lines = A /\ f.open
  BY <1>1 DEF FileTypes
<1> HIDE DEF f
<1>5. Heads(f, 9) = {1}
  BY <1>1, <1>3, <1>4 DEF Heads
<1>6. A[1].id = id
  BY <1>1, <1>2
<1>7. Readable(f, 9)
  <2>1. 9 % 9 = 0
    OBVIOUS
  <2>2. A # <<>>
    BY <1>1, EmptySeq
  <2> QED
    BY <2>1, <2>2, <1>1, <1>4 DEF Readable
<1>8. ASSUME NEW k \in 1 .. 9
      PROVE  A[k].id = A[k - Offset(k, 9)].id + Offset(k, 9)
  <2>1. k - Offset(k, 9) = 1 /\ A[k].id = id + k - 1
    BY <1>1, <1>3
  <2> QED
    BY <2>1, <1>3, <1>6, <1>2
<1>9. Whole(f)
  BY <1>1, <1>4, <1>5, <1>6, <1>7, <1>8 DEF Whole
<1> QED
  BY <1>4, <1>9 DEF Sound, f, A

LEMMA InstalledAlert ==
    ASSUME NEW id \in Ids, NEW v \in Settings, NEW o \in BOOLEAN
    PROVE  [lines |-> NewAlert(id, v), open |-> o] \in FileTypes
BY NewAlertFacts DEF FileTypes

LEMMA InitInv == Init => FileInv
<1> SUFFICES ASSUME Init PROVE FileInv
  OBVIOUS
<1>1. PICK i \in Ids, v \in Settings, o \in BOOLEAN, none \in BOOLEAN :
        file = [alarm |-> [lines |-> NewAlarm(i, v), open |-> TRUE],
                alert |-> IF none THEN EmptyFile ELSE [lines |-> NewAlert(i, v), open |-> o]]
  BY DEF Init
<1>2. Sound(file["alarm"])
  BY <1>1, InstalledAlarm
<1>3. file["alert"] \in FileTypes
  BY <1>1, InstalledAlert, EmptyFacts
<1>4. file \in [Names -> FileTypes]
  BY <1>1, <1>2, <1>3 DEF Sound, Names
<1>5. pc = "wait" /\ cur = "alarm" /\ mem = EmptyFile /\ about \in Books
      /\ wiped = FALSE /\ joined = FALSE /\ DOMAIN out = Names
  BY DEF Init
<1>6. TypeOK
  BY <1>4, <1>5, EmptyFacts, BooksAssumption DEF TypeOK, Names
<1>7. AlarmInv
  BY <1>2, <1>5 DEF AlarmInv, Current, Sound
<1> QED
  BY <1>6, <1>7 DEF FileInv

\* What a handler that rewrites file n leaves behind.
LEMMA RewriteInv ==
    ASSUME FileInv, pc = "wait", NEW n \in Names, NEW g, NEW answer,
           Rewrite(n, g, answer), joined' \in BOOLEAN,
           g \in FileTypes, n = "alarm" => Sound(g)
    PROVE  FileInv'
<1>1. /\ file' = [file EXCEPT ![n] = EmptyFile] /\ cur' = n /\ mem' = g /\ pc' = "write"
      /\ out' = [out EXCEPT ![n] = answer] /\ about' = about /\ wiped' = wiped
  BY DEF Rewrite
<1>2. TypeOK'
  BY <1>1, EmptyFacts DEF FileInv, TypeOK
<1>3. file'[n] = EmptyFile
  BY <1>1 DEF FileInv, TypeOK
<1>4. CASE n = "alarm"
  BY <1>1, <1>2, <1>3, <1>4 DEF FileInv, AlarmInv, Current, Sound
<1>5. CASE n # "alarm"
  <2>1. file'["alarm"] = file["alarm"]
    BY <1>1, <1>5 DEF FileInv, TypeOK, Names
  <2> QED
    BY <1>1, <1>2, <1>3, <1>5, <2>1 DEF FileInv, AlarmInv, Current
<1> QED
  BY <1>4, <1>5

LEMMA SayInv ==
    ASSUME FileInv, NEW n \in Names, NEW answer, Say(n, answer)
    PROVE  FileInv'
<1>1. /\ out' = [out EXCEPT ![n] = answer]
      /\ UNCHANGED <<file, pc, cur, mem, about, wiped, joined>>
  BY DEF Say
<1>2. TypeOK'
  BY <1>1 DEF FileInv, TypeOK
<1> QED
  BY <1>1, <1>2 DEF FileInv, AlarmInv, Current

LEMMA RingSetInv ==
    ASSUME FileInv, NEW id \in Ids, NEW v \in Settings, RingSet(id, v)
    PROVE  FileInv'
<1> DEFINE f == file["alarm"]
           g == IF Found(f, 9, id) THEN EditAlarm(f, id, v) ELSE AppendAlarm(f, id, v)
<1>1. pc = "wait" /\ joined' \in BOOLEAN /\ Rewrite("alarm", g, <<"ok", id, v>>)
  BY DEF RingSet, Serving, FileInv, TypeOK
<1>2. f \in FileTypes /\ (Whole(f) \/ Ruined(f))
  BY <1>1 DEF FileInv, TypeOK, AlarmInv, Current, Names
<1>3. Sound(g)
  BY <1>2, EditAlarmFacts, AppendAlarmFacts DEF Sound
<1> HIDE DEF g
<1> QED
  BY <1>1, <1>3, RewriteInv DEF Names, Sound

LEMMA RingSwitchInv ==
    ASSUME FileInv, NEW id \in Ids, NEW m \in Marks, RingSwitch(id, m)
    PROVE  FileInv'
<1> DEFINE f == file["alarm"]
<1>1. PICK stray \in Strays :
        LET strayed == stray /\ Strayed(f, id)
        IN /\ Serving("alarm")
           /\ \/ /\ strayed /\ f.lines[1] = Blank
                 /\ pc' = "dead"
                 /\ UNCHANGED <<file, cur, mem, out, about, wiped>>
              \/ /\ ~(strayed /\ f.lines[1] = Blank)
                 /\ Rewrite("alarm", Mark(IF strayed THEN MarkFirst(f, m) ELSE f, id, m),
                            <<"ok", id, m>>)
           /\ UNCHANGED joined
  BY DEF RingSwitch
<1> DEFINE strayed == stray /\ Strayed(f, id)
           h == IF strayed THEN MarkFirst(f, m) ELSE f
           g == Mark(h, id, m)
<1>2. pc = "wait" /\ joined' \in BOOLEAN
  BY <1>1 DEF Serving, FileInv, TypeOK
<1>3. f \in FileTypes /\ (Whole(f) \/ Ruined(f))
  BY <1>2 DEF FileInv, TypeOK, AlarmInv, Current, Names
<1>4. CASE pc' = "dead" /\ UNCHANGED <<file, cur, mem, out, about, wiped>>
  <2>1. UNCHANGED joined
    BY <1>1
  <2>2. TypeOK'
    BY <1>4, <2>1 DEF FileInv, TypeOK
  <2> QED
    BY <1>2, <1>4, <2>2 DEF FileInv, AlarmInv, Current
<1>5. CASE Rewrite("alarm", g, <<"ok", id, m>>)
  <2>1. Sound(h)
    <3>1. CASE strayed
      <4>1. f.lines # <<>>
        BY <3>1 DEF Strayed
      <4>2. MarkFirst(f, m) \in FileTypes /\ SameIds(f, MarkFirst(f, m))
        BY <1>3, <4>1, MarkFirstFacts
      <4> QED
        BY <3>1, <4>2, <1>3, SameShape DEF Sound
    <3>2. CASE ~strayed
      BY <3>2, <1>3 DEF Sound
    <3> QED
      BY <3>1, <3>2
  <2> HIDE DEF h
  <2>2. g \in FileTypes /\ SameIds(h, g)
    BY <2>1, MarkFacts DEF Sound
  <2> HIDE DEF g
  <2>3. Sound(g)
    BY <2>1, <2>2, SameShape DEF Sound
  <2> QED
    BY <1>2, <1>5, <2>3, RewriteInv DEF Names, Sound
<1> QED
  BY <1>1, <1>4, <1>5

LEMMA RemindSetInv ==
    ASSUME FileInv, NEW id \in Ids, NEW v \in Settings, RemindSet(id, v)
    PROVE  FileInv'
<1> DEFINE f == file["alert"]
           g == IF Found(f, 6, id) THEN EditAlert(f, id, v) ELSE AppendAlert(f, id, v)
<1>1. pc = "wait" /\ Rewrite("alert", g, <<"ok", id, v>>)
      /\ joined' = (joined \/ (~Found(f, 6, id) /\ f.open))
  BY DEF RemindSet, Serving
<1>2. f \in FileTypes /\ joined \in BOOLEAN
  BY DEF FileInv, TypeOK, Names
<1>3. g \in FileTypes
  BY <1>2, AlertTypes
<1>4. joined' \in BOOLEAN
  BY <1>1, <1>2
<1> HIDE DEF g
<1> QED
  BY <1>1, <1>3, <1>4, RewriteInv DEF Names

LEMMA WriteInv == FileInv /\ Write => FileInv'
<1> SUFFICES ASSUME FileInv, Write PROVE FileInv'
  OBVIOUS
<1>1. /\ pc = "write" /\ file' = [file EXCEPT ![cur] = mem] /\ pc' = "wait"
      /\ mem' = EmptyFile /\ UNCHANGED <<cur, out, about, wiped, joined>>
  BY DEF Write
<1>2. TypeOK'
  BY <1>1, EmptyFacts DEF FileInv, TypeOK
<1>3. Current("alarm")' = Current("alarm")
  BY <1>1 DEF FileInv, TypeOK, Current, Names
<1> QED
  BY <1>1, <1>2, <1>3 DEF FileInv, AlarmInv

LEMMA PowerCutInv == FileInv /\ PowerCut => FileInv'
<1> SUFFICES ASSUME FileInv, PowerCut PROVE FileInv'
  OBVIOUS
<1>1. /\ pc \in {"write", "dead"} /\ pc' = "wait" /\ mem' = EmptyFile
      /\ out' = IF pc = "write" THEN [out EXCEPT ![cur] = <<"none">>] ELSE out
      /\ wiped' = (wiped \/ (pc = "write" /\ cur = "alarm"))
      /\ UNCHANGED <<file, cur, about, joined>>
  BY DEF PowerCut
<1>2. wiped' \in BOOLEAN /\ DOMAIN out' = Names
  BY <1>1 DEF FileInv, TypeOK
<1>3. TypeOK'
  BY <1>1, <1>2, EmptyFacts DEF FileInv, TypeOK
<1>4. Current("alarm")' = file["alarm"]
  BY <1>1 DEF Current
<1>5. CASE pc = "write" /\ cur = "alarm"
  <2>1. file["alarm"] = EmptyFile
    BY <1>5 DEF FileInv, AlarmInv
  <2> QED
    BY <1>1, <1>3, <1>4, <2>1, EmptyFacts DEF FileInv, AlarmInv
<1>6. CASE ~(pc = "write" /\ cur = "alarm")
  <2>1. Current("alarm") = file["alarm"]
    BY <1>6 DEF Current
  <2> QED
    BY <1>1, <1>3, <1>4, <2>1 DEF FileInv, AlarmInv
<1> QED
  BY <1>5, <1>6

LEMMA NextInv == FileInv /\ [Next]_vars => FileInv'
<1> SUFFICES ASSUME FileInv, [Next]_vars PROVE FileInv'
  OBVIOUS
<1>1. ASSUME NEW id \in Ids, NEW v \in Settings, RingSet(id, v) \/ RemindSet(id, v)
      PROVE  FileInv'
  BY <1>1, RingSetInv, RemindSetInv
<1>2. ASSUME NEW id \in Ids, NEW m \in Marks, RingSwitch(id, m)
      PROVE  FileInv'
  BY <1>2, RingSwitchInv
<1>3. ASSUME NEW id \in Ids, NEW n \in Names, NEW D, Tell(n, id, D)
      PROVE  FileInv'
  BY <1>3, SayInv DEF Tell
<1>4. ASSUME NEW n \in Names, NEW D, List(n, D)
      PROVE  FileInv'
  BY <1>4, SayInv DEF List
<1>5. ASSUME NEW n \in Names, LastRecord(n)
      PROVE  FileInv'
  BY <1>5, SayInv DEF LastRecord
<1>6. ASSUME NEW n \in Names, NEW id \in Ids, Incomplete(n, id)
      PROVE  FileInv'
  BY <1>6, SayInv DEF Incomplete
<1>7. "alarm" \in Names /\ "alert" \in Names
  BY DEF Names
<1>8. ASSUME NEW id \in Ids, RingDelay(id) \/ RingNow(id) \/ RemindNow(id)
      PROVE  FileInv'
  BY <1>3, <1>7, <1>8 DEF RingDelay, RingNow, RemindNow
<1>9. CASE RingList \/ RemindNames
  BY <1>4, <1>7, <1>9 DEF RingList, RemindNames
<1>10. CASE UNCHANGED vars
  BY <1>10 DEF vars, FileInv, TypeOK, AlarmInv, Current
<1> QED
  BY <1>1, <1>2, <1>5, <1>6, <1>8, <1>9, <1>10, WriteInv, PowerCutInv DEF Next

LEMMA Invariance == Spec => []FileInv
BY InitInv, NextInv, PTL DEF Spec

-----------------------------------------------------------------------------
(* The theorems *)

\* Files, answers and the state of the process have their types in every
\* behaviour of the file subsystem.
THEOREM TypeCorrect == Spec => []TypeOK
BY Invariance, PTL DEF FileInv

\* Whenever the alarm file reads as whole records it is one, whatever commands
\* and power cuts came before: fields stay in their lines, and ids are unique.
THEOREM AlarmAlignedHolds == Spec => []AlarmAligned
<1>1. FileInv => AlarmAligned
  <2> SUFFICES ASSUME FileInv, Readable(Current("alarm"), 9), Ruined(Current("alarm"))
               PROVE  FALSE
    BY DEF FileInv, AlarmInv, AlarmAligned
  <2>1. CASE Len(Current("alarm").lines) = 10
    <3>1. 10 % 9 # 0
      OBVIOUS
    <3> QED
      BY <2>1, <3>1 DEF Readable
  <2>2. CASE Current("alarm").lines = <<>>
    BY <2>2 DEF Readable
  <2> QED
    BY <2>1, <2>2 DEF Ruined
<1> QED
  BY <1>1, Invariance, PTL
=============================================================================
