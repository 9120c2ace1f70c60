-------------------------- MODULE FileBooksProofs --------------------------
(***************************************************************************)
(* FileServer implements two abstract lists, one of alarms and one of      *)
(* reminders: proofs of the refinements AlarmsKept and AlertsKept, for any *)
(* ids, settings and lengths of the files.                                 *)
(***************************************************************************)
EXTENDS FileServerProofs

-----------------------------------------------------------------------------
(* The records of a whole file *)

Book(f)  == BookOf(f, 9)
Count(f) == Len(f.lines) \div 9
Start(r) == 9 * (r - 1) + 1         \* the first line of record r
Entry(f, r) ==
    [id |-> f.lines[Start(r)].id, vals |-> [d \in 0 .. 8 |-> f.lines[Start(r) + d].val]]

LEMMA StartFacts ==
    ASSUME NEW r \in Nat \ {0}
    PROVE  /\ Start(r) \in Nat \ {0}
           /\ \A d \in 0 .. 8 : Offset(Start(r) + d, 9) = d
           /\ \A s \in Nat \ {0} : Start(r) = Start(s) => r = s
BY DEF Start, Offset

LEMMA WholeLines ==
    ASSUME NEW f \in FileTypes, Whole(f)
    PROVE  /\ Count(f) \in Nat \ {0} /\ Len(f.lines) = 9 * Count(f)
           /\ DOMAIN f.lines = 1 .. 9 * Count(f)
           /\ \A r \in 1 .. Count(f) :
                /\ r \in Nat \ {0} /\ Start(r) \in Heads(f, 9)
                /\ \A d \in 0 .. 8 : Start(r) + d \in DOMAIN f.lines
           /\ \A k \in Heads(f, 9) : \E r \in 1 .. Count(f) : k = Start(r)
<1> DEFINE n == Len(f.lines)
<1>1. DOMAIN f.lines = 1 .. n /\ n \in Nat /\ n # 0 /\ n % 9 = 0
  BY Lengths DEF Whole, Readable
<1> HIDE DEF n
<1>2. n \div 9 \in Nat \ {0} /\ n = 9 * (n \div 9)
  BY <1>1
<1>3. Count(f) = n \div 9 /\ n = Len(f.lines)
  BY DEF Count, n
<1>4. ASSUME NEW r \in 1 .. Count(f)
      PROVE  /\ r \in Nat \ {0} /\ Start(r) \in Heads(f, 9)
             /\ \A d \in 0 .. 8 : Start(r) + d \in DOMAIN f.lines
  <2>1. r \in Nat \ {0} /\ r <= n \div 9
    <3>1. r \in 1 .. n \div 9
      BY <1>3
    <3> QED
      BY <1>2, <3>1
  <2>2. \A d \in 0 .. 8 : Start(r) + d \in 1 .. n
    BY <1>1, <1>2, <2>1 DEF Start
  <2>3. Start(r) \in 1 .. n /\ Offset(Start(r), 9) = 0
    BY <1>1, <1>2, <2>1 DEF Start, Offset
  <2> QED
    BY <1>1, <2>1, <2>2, <2>3 DEF Heads
<1>5. ASSUME NEW k \in Heads(f, 9)
      PROVE  \E r \in 1 .. Count(f) : k = Start(r)
  <2>1. k \in 1 .. n /\ (k - 1) % 9 = 0
    BY <1>1 DEF Heads, Offset
  <2>2. (k - 1) \div 9 + 1 \in 1 .. n \div 9 /\ k = 9 * (((k - 1) \div 9 + 1) - 1) + 1
    BY <1>1, <1>2, <2>1
  <2> QED
    BY <1>3, <2>2 DEF Start
<1> QED
  BY <1>1, <1>2, <1>3, <1>4, <1>5

LEMMA BookEntries ==
    ASSUME NEW f \in FileTypes, Whole(f)
    PROVE  /\ Book(f) = [r \in 1 .. Count(f) |-> Entry(f, r)]
           /\ DOMAIN Book(f) = 1 .. Count(f)
           /\ \A r \in 1 .. Count(f) :
                /\ Book(f)[r] = Entry(f, r) /\ Book(f)[r].id = f.lines[Start(r)].id
                /\ \A d \in 0 .. 8 : Book(f)[r].vals[d] = f.lines[Start(r) + d].val
           /\ Len(Book(f)) = Count(f)
<1>1. Book(f) = [r \in 1 .. Count(f) |-> Entry(f, r)]
  BY DEF Book, BookOf, Count, Entry, Start
<1>2. Count(f) \in Nat
  BY WholeLines
<1> QED
  BY <1>1, <1>2, SMTT(60) DEF Entry

\* A line with an id is the first line of a record, and of one only.
LEMMA OneRecord ==
    ASSUME NEW f \in FileTypes, Whole(f), NEW id \in Ids,
           NEW p \in DOMAIN f.lines, f.lines[p].id = id
    PROVE  \E r \in 1 .. Count(f) :
             /\ p = Start(r) /\ Book(f)[r].id = id
             /\ \A s \in 1 .. Count(f) : Book(f)[s].id = id => s = r
<1>1. p \in Heads(f, 9)
  BY HeadsOnly
<1>2. PICK r \in 1 .. Count(f) : p = Start(r)
  BY <1>1, WholeLines
<1>3. Book(f)[r].id = id
  BY <1>2, BookEntries
<1>4. ASSUME NEW s \in 1 .. Count(f), Book(f)[s].id = id
      PROVE  s = r
  <2>1. f.lines[Start(s)].id = f.lines[Start(r)].id
    BY <1>2, <1>4, BookEntries
  <2>2. Start(s) \in Heads(f, 9) /\ Start(r) \in Heads(f, 9) /\ r \in Nat \ {0} /\ s \in Nat \ {0}
    BY WholeLines
  <2>3. Start(s) = Start(r)
    BY <2>1, <2>2 DEF Whole
  <2> QED
    BY <2>2, <2>3, StartFacts
<1> QED
  BY <1>2, <1>3, <1>4

-----------------------------------------------------------------------------
(* What commands do to a book *)

Holds(b, id) == \E r \in DOMAIN b : b[r].id = id
Place(b, id) == CHOOSE r \in DOMAIN b : b[r].id = id
With(e, D, v) == [e EXCEPT !.vals = [d \in 0 .. 8 |-> IF d \in D THEN v ELSE @[d]]]
MarkedIn(b, id, m) == [r \in DOMAIN b |-> IF b[r].id = id THEN With(b[r], {3}, m) ELSE b[r]]

LEMMA WithEntry ==
    ASSUME NEW f, NEW r, NEW D, NEW v
    PROVE  With(Entry(f, r), D, v) =
             [id   |-> f.lines[Start(r)].id,
              vals |-> [d \in 0 .. 8 |-> IF d \in D THEN v ELSE f.lines[Start(r) + d].val]]
<1> DEFINE old == [d \in 0 .. 8 |-> f.lines[Start(r) + d].val]
           new == [d \in 0 .. 8 |-> IF d \in D THEN v ELSE old[d]]
<1>1. Entry(f, r) = [id |-> f.lines[Start(r)].id, vals |-> old]
  BY DEF Entry
<1>2. new = [d \in 0 .. 8 |-> IF d \in D THEN v ELSE f.lines[Start(r) + d].val]
  OBVIOUS
<1>3. With(Entry(f, r), D, v) = [Entry(f, r) EXCEPT !.vals = new]
  <2>1. Entry(f, r).vals = old
    BY <1>1
  <2> QED
    BY <2>1 DEF With
<1> HIDE DEF old, new
<1>4. With(Entry(f, r), D, v) = [id |-> f.lines[Start(r)].id, vals |-> new]
  BY <1>1, <1>3
<1> QED
  BY <1>2, <1>4

\* A record is found by its id exactly when the book holds it.
LEMMA FoundHolds ==
    ASSUME NEW f \in FileTypes, Whole(f), NEW id \in Ids
    PROVE  /\ Found(f, 9, id) <=> Holds(Book(f), id)
           /\ Found(f, 9, id) <=> StartsWith(f, id)
           /\ \A r \in 1 .. Count(f) : Book(f)[r].id = id =>
                Place(Book(f), id) = r /\ HeadOf(f, 9, id) = Start(r) /\ PlaceOf(f, id) = Start(r)
<1>0. id \in Nat /\ id # NoId
  BY IdsAssumption DEF NoId
<1>1. \A k \in Heads(f, 9) : k \in DOMAIN f.lines /\ (Passes(f.lines[k], id) <=> f.lines[k].id = id)
  <2>1. \A k \in Heads(f, 9) : k \in DOMAIN f.lines /\ f.lines[k].id \in Nat
    BY IdsAssumption DEF Whole, Heads
  <2> QED
    BY <2>1 DEF Passes, NoId
<1>2. ASSUME NEW p \in DOMAIN f.lines, f.lines[p].id = id
      PROVE  p \in Heads(f, 9)
  BY <1>2, HeadsOnly
<1>3. Found(f, 9, id) <=> StartsWith(f, id)
  BY <1>1, <1>2 DEF Found, StartsWith
<1>4. Found(f, 9, id) <=> Holds(Book(f), id)
  <2>1. ASSUME Found(f, 9, id) PROVE Holds(Book(f), id)
    <3>1. PICK k \in DOMAIN f.lines : f.lines[k].id = id
      BY <1>1, <2>1 DEF Found
    <3> QED
      BY <3>1, OneRecord, BookEntries DEF Holds
  <2>2. ASSUME Holds(Book(f), id) PROVE Found(f, 9, id)
    <3>1. PICK r \in 1 .. Count(f) : f.lines[Start(r)].id = id
      BY <2>2, BookEntries DEF Holds
    <3> QED
      BY <3>1, <1>1, WholeLines DEF Found
  <2> QED
    BY <2>1, <2>2
<1>5. ASSUME NEW r \in 1 .. Count(f), Book(f)[r].id = id
      PROVE  Place(Book(f), id) = r /\ HeadOf(f, 9, id) = Start(r) /\ PlaceOf(f, id) = Start(r)
  <2>1. Start(r) \in Heads(f, 9) /\ Start(r) \in DOMAIN f.lines /\ f.lines[Start(r)].id = id
    BY <1>1, <1>5, WholeLines, BookEntries
  <2>2. ASSUME NEW p \in DOMAIN f.lines, f.lines[p].id = id
        PROVE  p = Start(r)
    BY <1>5, <2>2, OneRecord
  <2>3. \A s \in 1 .. Count(f) : Book(f)[s].id = id => s = r
    BY <1>5, <2>1, OneRecord
  <2>4. Place(Book(f), id) = r
    BY <1>5, <2>3, BookEntries DEF Place
  <2>5. PlaceOf(f, id) = Start(r)
    BY <2>1, <2>2 DEF PlaceOf
  <2>6. HeadOf(f, 9, id) = Start(r)
    <3>1. \A k \in Heads(f, 9) : Passes(f.lines[k], id) <=> k = Start(r)
      BY <1>1, <2>1, <2>2
    <3>2. Start(r) \in Nat
      BY WholeLines, StartFacts
    <3> QED
      BY <2>1, <3>1, <3>2 DEF HeadOf
  <2> QED
    BY <2>4, <2>5, <2>6
<1> QED
  BY <1>3, <1>4, <1>5

\* Between f and g the fields D of the records R have become v.
Changed(f, g, R, D, v) ==
    /\ Len(g.lines) = Len(f.lines)
    /\ \A r \in 1 .. Count(f) :
         /\ g.lines[Start(r)].id = f.lines[Start(r)].id
         /\ \A d \in 0 .. 8 :
              g.lines[Start(r) + d].val =
                IF r \in R /\ d \in D THEN v ELSE f.lines[Start(r) + d].val

LEMMA ChangedBook ==
    ASSUME NEW f \in FileTypes, NEW g \in FileTypes, Whole(f), Whole(g),
           NEW R, NEW D, NEW v, Changed(f, g, R, D, v)
    PROVE  Book(g) = [r \in DOMAIN Book(f) |->
                        IF r \in R THEN With(Book(f)[r], D, v) ELSE Book(f)[r]]
<1>1. Count(g) = Count(f)
  BY DEF Count, Changed
<1>2. ASSUME NEW r \in 1 .. Count(f)
      PROVE  Entry(g, r) = IF r \in R THEN With(Entry(f, r), D, v) ELSE Entry(f, r)
  <2> DEFINE new == [d \in 0 .. 8 |-> g.lines[Start(r) + d].val]
  <2>1. CASE r \in R
    <3> DEFINE with == [d \in 0 .. 8 |-> IF d \in D THEN v ELSE f.lines[Start(r) + d].val]
    <3>1. new = with
      BY <2>1 DEF Changed
    <3>2. Entry(g, r) = [id |-> f.lines[Start(r)].id, vals |-> new]
      BY DEF Entry, Changed
    <3>3. With(Entry(f, r), D, v) = [id |-> f.lines[Start(r)].id, vals |-> with]
      BY WithEntry
    <3> HIDE DEF new, with
    <3> QED
      BY <2>1, <3>1, <3>2, <3>3
  <2>2. CASE r \notin R
    <3>1. new = [d \in 0 .. 8 |-> f.lines[Start(r) + d].val]
      BY <2>2 DEF Changed
    <3> QED
      BY <2>2, <3>1 DEF Entry, Changed
  <2> QED
    BY <2>1, <2>2
<1>3. Book(g) = [r \in 1 .. Count(f) |-> Entry(g, r)]
  BY <1>1, BookEntries
<1>4. /\ DOMAIN Book(f) = 1 .. Count(f)
      /\ \A r \in 1 .. Count(f) : Book(f)[r] = Entry(f, r)
  BY BookEntries
<1> QED
  BY <1>2, <1>3, <1>4

\* A file that keeps whole records in number is not ruined.
LEMMA StillWhole ==
    ASSUME NEW g \in FileTypes, Whole(g) \/ Ruined(g), Len(g.lines) # 0, Len(g.lines) % 9 = 0
    PROVE  Whole(g)
<1>1. ~Ruined(g)
  <2>1. 10 % 9 # 0
    OBVIOUS
  <2> QED
    BY <2>1, Lengths DEF Ruined
<1> QED
  BY <1>1

LEMMA WholeLength ==
    ASSUME NEW f \in FileTypes, Whole(f)
    PROVE  Len(f.lines) # 0 /\ Len(f.lines) % 9 = 0
BY Lengths DEF Whole, Readable

\* write_alarm() of an alarm that is there changes six fields of its record.
LEMMA EditBook ==
    ASSUME NEW f \in FileTypes, Whole(f), NEW id \in Ids, NEW v \in Settings, Found(f, 9, id)
    PROVE  LET g == EditAlarm(f, id, v)
               b == Book(f)
           IN /\ g \in FileTypes /\ Whole(g) /\ Holds(b, id)
              /\ Book(g) = [b EXCEPT ![Place(b, id)] = With(@, AlarmWritten, v)]
<1> DEFINE g == EditAlarm(f, id, v)
           b == Book(f)
<1>1. PICK q \in 1 .. Count(f) : b[q].id = id
  BY FoundHolds, BookEntries DEF Holds
<1>2. /\ StartsWith(f, id) /\ Holds(b, id)
      /\ Place(b, id) = q /\ PlaceOf(f, id) = Start(q)
  BY <1>1, FoundHolds
<1> DEFINE L == [k \in DOMAIN f.lines |->
                  IF k - Start(q) \in AlarmWritten THEN Line(id + (k - Start(q)), v)
                  ELSE f.lines[k]]
<1>3. g = [f EXCEPT !.lines = L]
  BY <1>2 DEF EditAlarm, FileTypes
<1>4. g \in FileTypes /\ (Whole(g) \/ Ruined(g))
  BY EditAlarmFacts
<1>5. g.lines = L /\ DOMAIN g.lines = DOMAIN f.lines
  BY <1>3 DEF FileTypes
<1>6. Len(g.lines) = Len(f.lines)
  <2>1. DOMAIN g.lines = 1 .. Len(f.lines) /\ Len(f.lines) \in Nat
    BY <1>5, Lengths
  <2> QED
    BY <1>4, <2>1, Lengths
<1>7. Whole(g)
  BY <1>4, <1>6, StillWhole, WholeLength
<1> HIDE DEF g
<1>8. ASSUME NEW r \in 1 .. Count(f), NEW d \in 0 .. 8
      PROVE  g.lines[Start(r) + d] =
               IF r = q /\ d \in AlarmWritten THEN Line(id + d, v) ELSE f.lines[Start(r) + d]
  <2>1. Start(r) + d \in DOMAIN f.lines /\ r \in Nat \ {0} /\ q \in Nat \ {0}
    BY WholeLines
  <2>2. Start(r) \in Nat /\ Start(q) \in Nat
    BY <2>1, StartFacts
  <2>3. CASE r = q
    <3>1. (Start(r) + d) - Start(q) = d
      BY <2>2, <2>3
    <3> QED
      BY <1>5, <2>1, <2>3, <3>1
  <2>4. CASE r # q
    <3>1. (Start(r) + d) - Start(q) \notin 0 .. 8
      BY <2>1, <2>4 DEF Start
    <3>2. (Start(r) + d) - Start(q) \notin AlarmWritten
      BY <3>1 DEF AlarmWritten
    <3> QED
      BY <1>5, <2>1, <2>4, <3>2
  <2> QED
    BY <2>3, <2>4
<1> HIDE DEF L
<1>9. \A r \in 1 .. Count(f), d \in 0 .. 8 :
        g.lines[Start(r) + d].val =
          IF r \in {q} /\ d \in AlarmWritten THEN v ELSE f.lines[Start(r) + d].val
  BY <1>8 DEF Line
<1>10. ASSUME NEW r \in 1 .. Count(f)
       PROVE  g.lines[Start(r)].id = f.lines[Start(r)].id
  <2>1. Start(r) + 0 = Start(r) /\ id + 0 = id
    BY WholeLines, StartFacts, IdsAssumption
  <2>2. 0 \in 0 .. 8
    OBVIOUS
  <2>3. g.lines[Start(r)] = IF r = q /\ 0 \in AlarmWritten THEN Line(id, v) ELSE f.lines[Start(r)]
    BY <1>8, <2>1, <2>2
  <2>4. f.lines[Start(q)].id = id
    BY <1>1, BookEntries
  <2> QED
    BY <2>3, <2>4 DEF Line
<1>11. Book(g) = [r \in DOMAIN b |-> IF r \in {q} THEN With(b[r], AlarmWritten, v) ELSE b[r]]
  <2>1. Changed(f, g, {q}, AlarmWritten, v)
    BY <1>6, <1>9, <1>10 DEF Changed
  <2> QED
    BY <1>4, <1>7, <2>1, ChangedBook
<1>12. b = [r \in DOMAIN b |-> b[r]] /\ q \in DOMAIN b
  BY BookEntries
<1> HIDE DEF b
<1>13. Book(g) = [b EXCEPT ![q] = With(@, AlarmWritten, v)]
  BY <1>11, <1>12
<1> QED
  BY <1>2, <1>4, <1>7, <1>13 DEF g, b

\* write_alarm() of any other adds a record behind the last.
Added(id, v) ==
    [id |-> id, vals |-> [d \in 0 .. 8 |-> IF d \in AlarmWritten THEN v ELSE Unset]]

LEMMA AppendBook ==
    ASSUME NEW f \in FileTypes, Whole(f), NEW id \in Ids, NEW v \in Settings, ~Found(f, 9, id)
    PROVE  LET g == AppendAlarm(f, id, v)
               b == Book(f)
           IN /\ g \in FileTypes /\ Whole(g) /\ ~Holds(b, id)
              /\ Book(g) = Append(b, Added(id, v))
<1> DEFINE g == AppendAlarm(f, id, v)
           b == Book(f)
           n == Len(f.lines)
           c == Count(f)
           A == NewAlarm(id, v)
<1>1. ~Holds(b, id)
  BY FoundHolds
<1>2. g \in FileTypes /\ (Whole(g) \/ Ruined(g))
  BY AppendAlarmFacts
<1>3. g = [lines |-> f.lines \o A, open |-> TRUE]
  BY DEF AppendAlarm, Whole
<1>4. f.lines \in Seq(LineTypes) /\ A \in Seq(LineTypes) /\ Len(A) = 9
  BY Lengths, NewAlarmFacts
<1>5. /\ Len(g.lines) = n + 9
      /\ \A k \in 1 .. n + 9 : g.lines[k] = IF k <= n THEN f.lines[k] ELSE A[k - n]
  <2>1. g.lines = f.lines \o A
    BY <1>3
  <2> HIDE DEF g, A
  <2> QED
    BY <1>4, <2>1, NineBehind
<1>6. c \in Nat \ {0} /\ n \in Nat /\ n = 9 * c /\ n # 0 /\ n % 9 = 0
  BY Lengths, WholeLines, WholeLength
<1>7. Count(g) = c + 1 /\ (n + 9) % 9 = 0 /\ n + 9 # 0
  <2>1. (n + 9) \div 9 = c + 1 /\ (n + 9) % 9 = 0 /\ n + 9 # 0
    <3> HIDE DEF n, c
    <3> QED
      BY <1>6
  <2> QED
    BY <1>5, <2>1 DEF Count
<1>8. Whole(g)
  BY <1>2, <1>5, <1>7, StillWhole
<1> HIDE DEF g
<1>9. ASSUME NEW r \in 1 .. c
      PROVE  Entry(g, r) = Entry(f, r)
  <2>1. \A d \in 0 .. 8 : Start(r) + d \in 1 .. n
    BY <1>6, WholeLines
  <2>2. Start(r) \in 1 .. n
    BY <1>6, WholeLines DEF Heads
  <2>3. \A k \in 1 .. n : g.lines[k] = f.lines[k]
    <3>1. n \in Nat
      BY <1>6
    <3> HIDE DEF n
    <3>2. \A k \in 1 .. n : k \in 1 .. n + 9 /\ k <= n
      BY <3>1
    <3> QED
      BY <1>5, <3>2
  <2> QED
    BY <2>1, <2>2, <2>3 DEF Entry
<1>10. Entry(g, c + 1) = Added(id, v)
  <2>1. Start(c + 1) = n + 1
    BY <1>6 DEF Start
  <2>2. ASSUME NEW d \in 0 .. 8
        PROVE  g.lines[Start(c + 1) + d] =
                 Line(id + d, IF d \in AlarmWritten THEN v ELSE Unset)
    <3>1. n + 1 + d \in 1 .. n + 9 /\ ~(n + 1 + d <= n) /\ (n + 1 + d) - n = d + 1
      <4> HIDE DEF n, c
      <4> QED
        BY <1>6
    <3>2. g.lines[n + 1 + d] = A[d + 1]
      BY <1>5, <3>1
    <3>3. d + 1 \in 1 .. 9 /\ (d + 1) - 1 = d /\ id + (d + 1) - 1 = id + d
      BY IdsAssumption
    <3>4. A[d + 1] = Line(id + d, IF d \in AlarmWritten THEN v ELSE Unset)
      BY <3>3 DEF NewAlarm
    <3> QED
      BY <2>1, <3>2, <3>4
  <2>3. g.lines[Start(c + 1)].id = id
    <3>1. 0 \in 0 .. 8 /\ id + 0 = id /\ Start(c + 1) + 0 = Start(c + 1)
      BY <1>6, <2>1, IdsAssumption
    <3>2. g.lines[Start(c + 1)] = Line(id, IF 0 \in AlarmWritten THEN v ELSE Unset)
      BY <2>2, <3>1
    <3> QED
      BY <3>2 DEF Line
  <2>4. \A d \in 0 .. 8 :
          g.lines[Start(c + 1) + d].val = IF d \in AlarmWritten THEN v ELSE Unset
    BY <2>2 DEF Line
  <2> QED
    BY <2>3, <2>4 DEF Entry, Added
<1>11. Book(g) = [r \in 1 .. c + 1 |-> Entry(g, r)]
  BY <1>2, <1>7, <1>8, BookEntries
<1>12. b = [r \in 1 .. c |-> Entry(f, r)]
  BY BookEntries
<1> HIDE DEF c, b, n, A
<1>13. Book(g) = Append(b, Added(id, v))
  BY <1>6, <1>9, <1>10, <1>11, <1>12
<1> QED
  BY <1>1, <1>2, <1>8, <1>13 DEF g, b

\* set_alarm_on() counts to the third line behind a record's first.
LEMMA ThirdFacts ==
    ASSUME NEW f \in FileTypes, Whole(f), NEW id \in Ids, NEW r \in 1 .. Count(f),
           NEW d \in 0 .. 8
    PROVE  Third(f, id, Start(r) + d) <=> d = 3 /\ f.lines[Start(r)].id = id
<1>1. /\ r \in Nat \ {0} /\ Start(r) \in Nat \ {0}
      /\ \A e \in 0 .. 8 : Start(r) + e \in DOMAIN f.lines /\ Offset(Start(r) + e, 9) = e
  BY WholeLines, StartFacts
<1>2. DOMAIN f.lines = 1 .. Len(f.lines) /\ Len(f.lines) \in Nat
  BY Lengths
<1>3. ASSUME Third(f, id, Start(r) + d)
      PROVE  d = 3 /\ f.lines[Start(r)].id = id
  <2> DEFINE k == Start(r) + d
  <2>1. k > 3 /\ f.lines[k - 3].id = id
    BY <1>3 DEF Third
  <2>2. k - 3 \in DOMAIN f.lines
    <3>1. k \in 1 .. Len(f.lines)
      BY <1>1, <1>2
    <3> HIDE DEF k
    <3> QED
      BY <1>2, <2>1, <3>1
  <2>3. k - 3 \in Heads(f, 9)
    BY <2>1, <2>2, HeadsOnly
  <2>4. (9 * (r - 1) + 1 + d - 3 - 1) % 9 = 0
    BY <2>3 DEF Heads, Offset, Start
  <2>5. d = 3
    BY <1>1, <2>4
  <2>6. k - 3 = Start(r)
    BY <1>1, <2>5
  <2> QED
    BY <2>1, <2>5, <2>6
<1>4. ASSUME d = 3, f.lines[Start(r)].id = id
      PROVE  Third(f, id, Start(r) + d)
  <2>1. Start(r) + 3 > 3 /\ (Start(r) + 3) - 3 = Start(r)
    BY <1>1
  <2>2. ASSUME NEW j \in (Start(r) + 3) - 2 .. Start(r) + 3, f.lines[j].id = id
        PROVE  FALSE
    <3>1. PICK e \in 1 .. 3 : j = Start(r) + e
      <4>1. j - Start(r) \in 1 .. 3 /\ j = Start(r) + (j - Start(r))
        BY <1>1
      <4> QED
        BY <4>1
    <3>2. e \in 0 .. 8 /\ e # 0
      OBVIOUS
    <3>3. j \in DOMAIN f.lines /\ Offset(j, 9) = e
      BY <1>1, <3>1, <3>2
    <3>4. j \in Heads(f, 9)
      BY <2>2, <3>3, HeadsOnly
    <3> QED
      BY <3>2, <3>3, <3>4 DEF Heads
  <2> QED
    BY <1>4, <2>1, <2>2 DEF Third
<1> QED
  BY <1>3, <1>4

LEMMA MarkBook ==
    ASSUME NEW f \in FileTypes, Whole(f), NEW id \in Ids, NEW m \in Marks
    PROVE  LET g == Mark(f, id, m)
           IN g \in FileTypes /\ Whole(g) /\ Book(g) = MarkedIn(Book(f), id, m)
<1> DEFINE g == Mark(f, id, m)
           R == {r \in 1 .. Count(f) : f.lines[Start(r)].id = id}
<1>1. g \in FileTypes /\ SameIds(f, g)
  BY MarkFacts
<1>2. Whole(g)
  BY <1>1, SameShape
<1>3. \A k \in DOMAIN f.lines :
        g.lines[k] = IF Third(f, id, k) THEN Line(f.lines[k].id, m) ELSE f.lines[k]
  BY DEF Mark, FileTypes
<1> HIDE DEF g
<1>4. ASSUME NEW r \in 1 .. Count(f)
      PROVE  /\ g.lines[Start(r)].id = f.lines[Start(r)].id
             /\ \A d \in 0 .. 8 :
                  g.lines[Start(r) + d].val =
                    IF r \in R /\ d \in {3} THEN m ELSE f.lines[Start(r) + d].val
  <2>1. Start(r) \in DOMAIN f.lines /\ \A d \in 0 .. 8 : Start(r) + d \in DOMAIN f.lines
    BY WholeLines DEF Heads
  <2>2. \A d \in 0 .. 8 :
          Third(f, id, Start(r) + d) <=> d = 3 /\ f.lines[Start(r)].id = id
    BY ThirdFacts
  <2>3. \A d \in 0 .. 8 :
          g.lines[Start(r) + d].val =
            IF r \in R /\ d \in {3} THEN m ELSE f.lines[Start(r) + d].val
    <3>1. r \in R <=> f.lines[Start(r)].id = id
      OBVIOUS
    <3> HIDE DEF R
    <3>2. ASSUME NEW d \in 0 .. 8
          PROVE  g.lines[Start(r) + d].val =
                   IF r \in R /\ d \in {3} THEN m ELSE f.lines[Start(r) + d].val
      <4>1. g.lines[Start(r) + d] =
              IF d = 3 /\ r \in R THEN Line(f.lines[Start(r) + d].id, m)
              ELSE f.lines[Start(r) + d]
        BY <1>3, <2>1, <2>2, <3>1
      <4> QED
        BY <4>1 DEF Line
    <3> QED
      BY <3>2
  <2> QED
    BY <1>1, <2>1, <2>3 DEF SameIds
<1>5. Changed(f, g, R, {3}, m)
  BY <1>1, <1>4 DEF Changed, SameIds
<1>6. Book(g) = [r \in DOMAIN Book(f) |-> IF r \in R THEN With(Book(f)[r], {3}, m) ELSE Book(f)[r]]
  BY <1>1, <1>2, <1>5, ChangedBook
<1>7. \A r \in DOMAIN Book(f) : r \in R <=> Book(f)[r].id = id
  BY BookEntries
<1> HIDE DEF R
<1> QED
  BY <1>1, <1>2, <1>6, <1>7 DEF MarkedIn, g

LEMMA MarkFirstBook ==
    ASSUME NEW f \in FileTypes, Whole(f), NEW m \in Marks
    PROVE  LET g == MarkFirst(f, m)
               b == Book(f)
           IN /\ g \in FileTypes /\ Whole(g) /\ b # <<>> /\ b[1].id = f.lines[1].id
              /\ Book(g) = [b EXCEPT ![1] = With(@, {0}, m)]
<1> DEFINE g == MarkFirst(f, m)
           b == Book(f)
<1>1. f.lines # <<>>
  BY DEF Whole, Readable
<1>2. g \in FileTypes /\ SameIds(f, g)
  BY <1>1, MarkFirstFacts
<1>3. Whole(g)
  BY <1>2, SameShape
<1>4. \A k \in DOMAIN f.lines :
        g.lines[k] = IF k = 1 THEN Line(f.lines[1].id, m) ELSE f.lines[k]
  BY DEF MarkFirst, FileTypes
<1> HIDE DEF g
<1>5. ASSUME NEW r \in 1 .. Count(f)
      PROVE  /\ g.lines[Start(r)].id = f.lines[Start(r)].id
             /\ \A d \in 0 .. 8 :
                  g.lines[Start(r) + d].val =
                    IF r \in {1} /\ d \in {0} THEN m ELSE f.lines[Start(r) + d].val
  <2>1. /\ r \in Nat \ {0}
        /\ Start(r) \in DOMAIN f.lines /\ \A d \in 0 .. 8 : Start(r) + d \in DOMAIN f.lines
    BY WholeLines DEF Heads
  <2>2. \A d \in 0 .. 8 : Start(r) + d = 1 <=> r \in {1} /\ d \in {0}
    BY <2>1 DEF Start
  <2>3. \A d \in 0 .. 8 :
          g.lines[Start(r) + d].val =
            IF r \in {1} /\ d \in {0} THEN m ELSE f.lines[Start(r) + d].val
    BY <1>4, <2>1, <2>2 DEF Line
  <2> QED
    BY <1>2, <2>1, <2>3 DEF SameIds
<1>6. Changed(f, g, {1}, {0}, m)
  BY <1>2, <1>5 DEF Changed, SameIds
<1>7. Book(g) = [r \in DOMAIN b |-> IF r \in {1} THEN With(b[r], {0}, m) ELSE b[r]]
  BY <1>2, <1>3, <1>6, ChangedBook
<1>8. b = [r \in DOMAIN b |-> b[r]] /\ 1 \in DOMAIN b /\ b[1].id = f.lines[1].id
  <2>1. Start(1) = 1 /\ 1 \in 1 .. Count(f)
    BY WholeLines DEF Start
  <2> QED
    BY <2>1, BookEntries
<1> HIDE DEF b
<1>9. Book(g) = [b EXCEPT ![1] = With(@, {0}, m)]
  BY <1>7, <1>8
<1> QED
  BY <1>2, <1>3, <1>8, <1>9 DEF g, b

-----------------------------------------------------------------------------
(* The abstract operators, in terms of the book of the file *)

AlarmBook   == IF wiped THEN <<>> ELSE Book(Current("alarm"))
AlarmAnswer == IF wiped THEN <<"none">> ELSE out["alarm"]

LEMMA HasIs == ASSUME NEW id PROVE Alarms!Has(id) <=> Holds(AlarmBook, id)
BY DEF Alarms!Has, Holds, AlarmBook, Book

LEMMA AtIs == ASSUME NEW id PROVE Alarms!At(id) = Place(AlarmBook, id)
BY DEF Alarms!At, Place, AlarmBook, Book

LEMMA UpdatedIs == ASSUME NEW e, NEW D, NEW v PROVE Alarms!Updated(e, D, v) = With(e, D, v)
<1>1. 0 .. (9 - 1) = 0 .. 8
  OBVIOUS
<1> QED
  BY <1>1 DEF Alarms!Updated, Alarms!Fields, With

LEMMA SwitchedIs ==
    ASSUME NEW b, NEW id, NEW m PROVE Alarms!Switched(b, id, m) = MarkedIn(b, id, m)
BY UpdatedIs DEF Alarms!Switched, MarkedIn

LEMMA FreshIs == ASSUME NEW id, NEW v PROVE Alarms!Fresh(id, v) = Added(id, v)
<1>1. 0 .. (9 - 1) = 0 .. 8
  OBVIOUS
<1> QED
  BY <1>1 DEF Alarms!Fresh, Alarms!Fields, Added

-----------------------------------------------------------------------------
(* The steps *)

\* Until a power cut falls into a rewrite the alarm file holds whole records.
BookInv == FileInv /\ (~wiped => Whole(Current("alarm")))

LEMMA AlarmFile ==
    ASSUME BookInv, pc = "wait"
    PROVE  /\ file["alarm"] \in FileTypes /\ Current("alarm") = file["alarm"]
           /\ ~wiped => Whole(file["alarm"]) /\ AlarmBook = Book(file["alarm"])
                        /\ AlarmAnswer = out["alarm"]
BY DEF BookInv, FileInv, TypeOK, Current, Names, AlarmBook, AlarmAnswer

LEMMA RewriteBook ==
    ASSUME BookInv, pc = "wait", ~wiped, NEW g, NEW answer, Rewrite("alarm", g, answer)
    PROVE  /\ Current("alarm")' = g /\ ~wiped'
           /\ AlarmBook' = Book(g) /\ AlarmAnswer' = answer
<1>1. /\ cur' = "alarm" /\ mem' = g /\ pc' = "write" /\ wiped' = wiped
      /\ out' = [out EXCEPT !["alarm"] = answer]
  BY DEF Rewrite
<1>2. out'["alarm"] = answer
  BY <1>1 DEF BookInv, FileInv, TypeOK, Names
<1> QED
  BY <1>1, <1>2 DEF Current, AlarmBook, AlarmAnswer, Book, BookOf

LEMMA SayBook ==
    ASSUME BookInv, NEW answer, Say("alarm", answer)
    PROVE  /\ UNCHANGED <<Current("alarm"), wiped, AlarmBook>> /\ pc = "wait"
           /\ AlarmAnswer' = IF wiped THEN <<"none">> ELSE answer
<1>1. /\ out' = [out EXCEPT !["alarm"] = answer] /\ pc = "wait"
      /\ UNCHANGED <<file, pc, cur, mem, about, wiped, joined>>
  BY DEF Say, Serving
<1>2. out'["alarm"] = answer
  BY <1>1 DEF BookInv, FileInv, TypeOK, Names
<1> QED
  BY <1>1, <1>2 DEF Current, AlarmBook, AlarmAnswer, Book, BookOf

\* The abstract variables of AlarmsKept.
AlarmVars == <<AlarmBook, ~wiped, AlarmAnswer>>

LEMMA VarsAre == /\ UNCHANGED AlarmVars => UNCHANGED Alarms!bookVars
                 /\ AlarmBook = (IF wiped THEN <<>> ELSE BookOf(Current("alarm"), 9))
BY DEF AlarmVars, AlarmBook, AlarmAnswer, Book, Alarms!bookVars

LEMMA SetStep ==
    ASSUME BookInv, ~wiped, NEW id \in Ids, NEW v \in Settings, RingSet(id, v)
    PROVE  Alarms!Set(id, v) /\ ~wiped' /\ Whole(Current("alarm"))'
<1> DEFINE f == file["alarm"]
           g == IF Found(f, 9, id) THEN EditAlarm(f, id, v) ELSE AppendAlarm(f, id, v)
<1>1. pc = "wait" /\ Rewrite("alarm", g, <<"ok", id, v>>)
  BY DEF RingSet, Serving
<1>2. f \in FileTypes /\ Whole(f) /\ AlarmBook = Book(f)
  BY <1>1, AlarmFile
<1>3. /\ Current("alarm")' = g /\ ~wiped'
      /\ AlarmBook' = Book(g) /\ AlarmAnswer' = <<"ok", id, v>>
  BY <1>1, RewriteBook
<1> HIDE DEF f
<1>4. CASE Found(f, 9, id)
  <2>1. /\ Whole(g) /\ Holds(AlarmBook, id)
        /\ AlarmBook' = [AlarmBook EXCEPT ![Place(AlarmBook, id)] = With(@, AlarmWritten, v)]
    BY <1>2, <1>3, <1>4, EditBook
  <2> QED
    BY <1>3, <2>1, HasIs, AtIs, UpdatedIs
       DEF Alarms!Set, AlarmBook, AlarmAnswer, Book
<1>5. CASE ~Found(f, 9, id)
  <2>1. /\ Whole(g) /\ ~Holds(AlarmBook, id) /\ AlarmBook' = Append(AlarmBook, Added(id, v))
    BY <1>2, <1>3, <1>5, AppendBook
  <2> QED
    BY <1>3, <2>1, HasIs, FreshIs DEF Alarms!Set, AlarmBook, AlarmAnswer, Book
<1> QED
  BY <1>4, <1>5

LEMMA SwitchStep ==
    ASSUME BookInv, ~wiped, NEW id \in Ids, NEW m \in Marks, RingSwitch(id, m)
    PROVE  /\ Alarms!Switch(id, m) \/ Alarms!Scribble(id, m)
           /\ ~wiped' /\ Whole(Current("alarm"))'
<1> DEFINE f == file["alarm"]
<1>1. PICK stray \in Strays :
        LET strayed == stray /\ Strayed(f, id)
        IN /\ Serving("alarm")
           /\ \/ strayed /\ f.lines[1] = Blank
              \/ Rewrite("alarm", Mark(IF strayed THEN MarkFirst(f, m) ELSE f, id, m),
                         <<"ok", id, m>>)
  BY DEF RingSwitch
<1> DEFINE strayed == stray /\ Strayed(f, id)
           h == IF strayed THEN MarkFirst(f, m) ELSE f
           g == Mark(h, id, m)
<1>2. pc = "wait"
  BY <1>1 DEF Serving
<1>3. f \in FileTypes /\ Whole(f) /\ AlarmBook = Book(f)
  BY <1>2, AlarmFile
<1>4. f.lines[1] # Blank
  <2>1. 1 \in Heads(f, 9)
    <3>1. Start(1) = 1 /\ 1 \in 1 .. Count(f)
      BY <1>3, WholeLines DEF Start
    <3> QED
      BY <1>3, <3>1, WholeLines
  <2>2. f.lines[1].id \in Nat
    BY <1>3, <2>1, IdsAssumption DEF Whole
  <2>3. Blank.id \notin Nat
    BY DEF Blank, NoId
  <2> QED
    BY <2>2, <2>3
<1>5. Rewrite("alarm", g, <<"ok", id, m>>)
  BY <1>1, <1>4
<1>6. /\ Current("alarm")' = g /\ ~wiped'
      /\ AlarmBook' = Book(g) /\ AlarmAnswer' = <<"ok", id, m>>
  BY <1>2, <1>5, RewriteBook
<1>7. Alarms!Said(id, m) = <<"ok", id, m>>
  BY DEF Alarms!Said
<1>8. CASE ~strayed
  <2>1. h = f
    BY <1>8
  <2> HIDE DEF h, f
  <2>2. Whole(g) /\ AlarmBook' = MarkedIn(AlarmBook, id, m)
    BY <1>3, <1>6, <2>1, MarkBook
  <2> QED
    BY <1>6, <1>7, <2>2, SwitchedIs DEF Alarms!Switch, AlarmBook, AlarmAnswer, Book
<1>9. CASE strayed
  <2>1. h = MarkFirst(f, m) /\ f.lines[1].id # id /\ TRUE \in Strays
    <3>1. stray = TRUE
      BY <1>9, BoundsAssumption
    <3> QED
      BY <1>9, <3>1 DEF Strayed
  <2> HIDE DEF h, f
  <2>2. /\ h \in FileTypes /\ Whole(h) /\ AlarmBook # <<>> /\ AlarmBook[1].id # id
        /\ Book(h) = [AlarmBook EXCEPT ![1] = With(@, {0}, m)]
    BY <1>3, <2>1, MarkFirstBook
  <2>3. /\ Whole(g)
        /\ AlarmBook' = MarkedIn([AlarmBook EXCEPT ![1] = With(@, {0}, m)], id, m)
    BY <1>6, <2>2, MarkBook, ZenonT(60)
  <2> QED
    BY <1>6, <1>7, <2>1, <2>2, <2>3, SwitchedIs, UpdatedIs
       DEF Alarms!Scribble, AlarmBook, AlarmAnswer, Book
<1> QED
  BY <1>8, <1>9

\* 20 and 21 report fields of the record they are asked for.
LEMMA TellStep ==
    ASSUME BookInv, ~wiped, NEW id \in Ids, NEW D \in {{8}, 2 .. 7, {0, 1, 3}},
           Tell("alarm", id, D)
    PROVE  Alarms!Read
<1> DEFINE f == file["alarm"]
           answer == IF Readable(f, 9) /\ Found(f, 9, id)
                     THEN <<"fields", Record(f, HeadOf(f, 9, id), D)>> ELSE <<Unset>>
<1>1. Say("alarm", answer)
  BY DEF Tell, Size
<1> HIDE DEF answer
<1>2. /\ UNCHANGED <<wiped, AlarmBook>> /\ pc = "wait" /\ AlarmAnswer' = answer
  BY <1>1, SayBook
<1>3. f \in FileTypes /\ Whole(f) /\ AlarmBook = Book(f)
  BY <1>2, AlarmFile
<1> HIDE DEF f
<1>4. Readable(f, 9)
  BY <1>3 DEF Whole
<1>5. answer = Alarms!Lookup(id, D)
  <2>1. CASE Holds(AlarmBook, id)
    <3>1. PICK r \in 1 .. Count(f) : Book(f)[r].id = id
      BY <1>3, <2>1, BookEntries DEF Holds
    <3>2. Found(f, 9, id) /\ HeadOf(f, 9, id) = Start(r) /\ Place(AlarmBook, id) = r
      BY <1>3, <2>1, <3>1, FoundHolds
    <3>3. \A d \in D : d \in 0 .. 8
      OBVIOUS
    <3>4. Record(f, Start(r), D) = [d \in D |-> AlarmBook[r].vals[d]]
      BY <1>3, <3>3, BookEntries DEF Record
    <3>5. answer = <<"fields", [d \in D |-> AlarmBook[Place(AlarmBook, id)].vals[d]]>>
      BY <1>4, <3>2, <3>4 DEF answer
    <3> QED
      BY <2>1, <3>5, HasIs, AtIs DEF Alarms!Lookup, AlarmBook, Book
  <2>2. CASE ~Holds(AlarmBook, id)
    <3>1. ~Found(f, 9, id)
      BY <1>3, <2>2, FoundHolds
    <3>2. answer = <<"unknown">>
      BY <3>1 DEF answer, Unset
    <3> QED
      BY <2>2, <3>2, HasIs DEF Alarms!Lookup, Alarms!Unknown
  <2> QED
    BY <2>1, <2>2
<1> QED
  BY <1>2, <1>5 DEF Alarms!Read, AlarmBook, AlarmAnswer, Book

\* 28 reports fields of every record.
LEMMA ListStep ==
    ASSUME BookInv, ~wiped, List("alarm", {0, 1, 3})
    PROVE  Alarms!Read
<1> DEFINE f == file["alarm"]
           D == {0, 1, 3}
           all == [r \in 1 .. Len(f.lines) \div 9 |->
                    <<f.lines[9 * (r - 1) + 1].id, Record(f, 9 * (r - 1) + 1, D)>>]
           answer == IF Readable(f, 9) THEN <<"list", all>> ELSE <<Unset>>
<1>1. Say("alarm", answer)
  BY DEF List, Size
<1> HIDE DEF answer
<1>2. /\ UNCHANGED <<wiped, AlarmBook>> /\ pc = "wait" /\ AlarmAnswer' = answer
  BY <1>1, SayBook
<1>3. f \in FileTypes /\ Whole(f) /\ AlarmBook = Book(f)
  BY <1>2, AlarmFile
<1> HIDE DEF f
<1>4. Readable(f, 9) /\ AlarmBook # <<>>
  <2>1. 1 \in DOMAIN AlarmBook
    BY <1>3, BookEntries, WholeLines
  <2> QED
    BY <1>3, <2>1 DEF Whole
<1>5. all = [r \in DOMAIN AlarmBook |-> <<AlarmBook[r].id, [d \in D |-> AlarmBook[r].vals[d]]>>]
  <2>1. ASSUME NEW r \in 1 .. Count(f)
        PROVE  <<f.lines[Start(r)].id, Record(f, Start(r), D)>>
                 = <<AlarmBook[r].id, [d \in D |-> AlarmBook[r].vals[d]]>>
    <3>1. \A d \in D : d \in 0 .. 8
      OBVIOUS
    <3>2. Record(f, Start(r), D) = [d \in D |-> AlarmBook[r].vals[d]]
      BY <1>3, <3>1, BookEntries DEF Record
    <3> QED
      BY <1>3, <3>2, BookEntries
  <2>2. DOMAIN AlarmBook = 1 .. Count(f)
    BY <1>3, BookEntries
  <2>3. all = [r \in 1 .. Count(f) |-> <<f.lines[Start(r)].id, Record(f, Start(r), D)>>]
    BY DEF Count, Start
  <2> HIDE DEF all, D
  <2> QED
    BY <2>1, <2>2, <2>3
<1>6. answer = Alarms!Listing(D)
  BY <1>4, <1>5 DEF answer, Alarms!Listing, AlarmBook, Book
<1> QED
  BY <1>2, <1>6 DEF Alarms!Read, AlarmBook, AlarmAnswer, Book

\* 17 with "?" reports the last record.
LEMMA LastStep ==
    ASSUME BookInv, ~wiped, LastRecord("alarm")
    PROVE  Alarms!Read
<1> DEFINE f == file["alarm"]
           answer == IF Readable(f, 9)
                     THEN <<"last", f.lines[Len(f.lines) - 9 + 1].id>> ELSE <<Unset>>
<1>1. Say("alarm", answer)
  BY DEF LastRecord, Size
<1> HIDE DEF answer
<1>2. /\ UNCHANGED <<wiped, AlarmBook>> /\ pc = "wait" /\ AlarmAnswer' = answer
  BY <1>1, SayBook
<1>3. f \in FileTypes /\ Whole(f) /\ AlarmBook = Book(f)
  BY <1>2, AlarmFile
<1> HIDE DEF f
<1>4. Count(f) \in Nat \ {0} /\ Len(f.lines) = 9 * Count(f) /\ Count(f) \in 1 .. Count(f)
  BY <1>3, WholeLines
<1>5. Len(f.lines) - 9 + 1 = Start(Count(f))
  BY <1>4 DEF Start
<1>6. AlarmBook # <<>> /\ AlarmBook[Len(AlarmBook)].id = f.lines[Len(f.lines) - 9 + 1].id
  BY <1>3, <1>4, <1>5, BookEntries
<1>7. answer = Alarms!LastId
  BY <1>3, <1>6 DEF answer, Whole, Alarms!LastId, AlarmBook, Book
<1> QED
  BY <1>2, <1>7 DEF Alarms!Read, AlarmBook, AlarmAnswer, Book

LEMMA IncompleteStep ==
    ASSUME BookInv, ~wiped, NEW id \in Ids, Incomplete("alarm", id)
    PROVE  Alarms!Incomplete(id)
<1> DEFINE answer == <<"incomplete", id>>
<1>1. Say("alarm", answer)
  BY DEF Incomplete
<1> HIDE DEF answer
<1>2. UNCHANGED <<wiped, AlarmBook>> /\ AlarmAnswer' = answer
  BY <1>1, SayBook
<1> QED
  BY <1>2 DEF answer, Alarms!Incomplete, AlarmBook, AlarmAnswer, Book

\* Steps that the list of alarms does not see.
LEMMA Unseen ==
    ASSUME UNCHANGED <<Current("alarm"), wiped, out["alarm"]>>
    PROVE  UNCHANGED AlarmVars
BY DEF AlarmVars, AlarmBook, AlarmAnswer, Book, BookOf

LEMMA AlertSayUnseen ==
    ASSUME BookInv, NEW answer, Say("alert", answer)
    PROVE  UNCHANGED <<Current("alarm"), wiped, out["alarm"]>>
<1>1. out' = [out EXCEPT !["alert"] = answer] /\ UNCHANGED <<file, pc, cur, mem, wiped>>
  BY DEF Say
<1>2. out'["alarm"] = out["alarm"]
  BY <1>1 DEF BookInv, FileInv, TypeOK, Names
<1> QED
  BY <1>1, <1>2 DEF Current

LEMMA AlertRewriteUnseen ==
    ASSUME BookInv, NEW id \in Ids, NEW v \in Settings, RemindSet(id, v)
    PROVE  UNCHANGED <<Current("alarm"), wiped, out["alarm"]>>
<1>1. /\ file' = [file EXCEPT !["alert"] = EmptyFile] /\ cur' = "alert" /\ pc = "wait"
      /\ out' = [out EXCEPT !["alert"] = <<"ok", id, v>>] /\ UNCHANGED wiped
  BY DEF RemindSet, Rewrite, Serving
<1>2. out'["alarm"] = out["alarm"] /\ file'["alarm"] = file["alarm"]
  BY <1>1 DEF BookInv, FileInv, TypeOK, Names
<1> QED
  BY <1>1, <1>2 DEF Current

LEMMA WriteUnseen ==
    ASSUME BookInv, Write
    PROVE  UNCHANGED <<Current("alarm"), wiped, out["alarm"]>>
<1>1. /\ pc = "write" /\ file' = [file EXCEPT ![cur] = mem] /\ pc' = "wait"
      /\ UNCHANGED <<cur, out, wiped>>
  BY DEF Write
<1>2. Current("alarm")' = Current("alarm")
  BY <1>1 DEF BookInv, FileInv, TypeOK, Current, Names
<1> QED
  BY <1>1, <1>2

\* A power cut spoils the list if it falls into a rewrite of the alarm file.
LEMMA PowerCutStep ==
    ASSUME BookInv, ~wiped, PowerCut
    PROVE  /\ Alarms!Spoil \/ UNCHANGED AlarmVars
           /\ ~wiped' => Whole(Current("alarm"))'
<1>1. /\ pc \in {"write", "dead"} /\ pc' = "wait"
      /\ out' = IF pc = "write" THEN [out EXCEPT ![cur] = <<"none">>] ELSE out
      /\ wiped' = (wiped \/ (pc = "write" /\ cur = "alarm"))
      /\ UNCHANGED file
  BY DEF PowerCut
<1>2. CASE pc = "write" /\ cur = "alarm"
  <2>1. wiped'
    BY <1>1, <1>2
  <2>2. Alarms!Spoil
    BY <2>1 DEF Alarms!Spoil
  <2> QED
    BY <2>1, <2>2
<1>3. CASE ~(pc = "write" /\ cur = "alarm")
  <2>1. wiped' = wiped
    BY <1>1, <1>3 DEF BookInv, FileInv, TypeOK
  <2>2. Current("alarm") = file["alarm"] /\ Current("alarm")' = file["alarm"]
    BY <1>1, <1>3 DEF Current
  <2>3. out'["alarm"] = out["alarm"]
    BY <1>1, <1>3 DEF BookInv, FileInv, TypeOK, Names
  <2> QED
    BY <2>1, <2>2, <2>3, Unseen DEF BookInv, Whole
<1> QED
  BY <1>2, <1>3

LEMMA WipedStays == wiped /\ [Next]_vars => wiped'
BY DEF Next, RingSet, RingSwitch, RemindSet, RingDelay, RingNow, RemindNow, LastRecord,
       Incomplete, RingList, RemindNames, Tell, List, Say, Rewrite, Write, PowerCut, vars

\* Every step is one of the abstract list, or none.
LEMMA StepMaps ==
    ASSUME BookInv, [Next]_vars
    PROVE  /\ [Alarms!Next]_(Alarms!bookVars)
           /\ ~wiped' => Whole(Current("alarm"))'
<1>1. CASE wiped
  <2>1. wiped'
    BY <1>1, WipedStays
  <2>2. UNCHANGED AlarmVars
    BY <1>1, <2>1 DEF AlarmVars, AlarmBook, AlarmAnswer
  <2> QED
    BY <2>1, <2>2, VarsAre
<1>2. CASE ~wiped
  <2>1. ASSUME UNCHANGED <<Current("alarm"), wiped, out["alarm"]>>
        PROVE  UNCHANGED Alarms!bookVars /\ Whole(Current("alarm"))'
    BY <1>2, <2>1, Unseen, VarsAre DEF BookInv, Whole
  <2>2. ASSUME NEW answer, Say("alarm", answer)
        PROVE  Whole(Current("alarm"))'
    BY <1>2, <2>2, SayBook DEF BookInv, Whole
  <2>3. ASSUME NEW id \in Ids, NEW v \in Settings, RingSet(id, v)
        PROVE  Alarms!Next /\ Whole(Current("alarm"))'
    BY <1>2, <2>3, SetStep DEF Alarms!Next
  <2>4. ASSUME NEW id \in Ids, NEW m \in Marks, RingSwitch(id, m)
        PROVE  Alarms!Next /\ Whole(Current("alarm"))'
    BY <1>2, <2>4, SwitchStep DEF Alarms!Next
  <2>5. ASSUME NEW id \in Ids, RingDelay(id) \/ RingNow(id)
        PROVE  Alarms!Next /\ Whole(Current("alarm"))'
    <3>1. PICK D \in {{8}, 2 .. 7, {0, 1, 3}} : Tell("alarm", id, D)
      BY <2>5 DEF RingDelay, RingNow
    <3>2. Alarms!Read
      BY <1>2, <3>1, TellStep
    <3> QED
      BY <1>2, <2>2, <3>1, <3>2 DEF Alarms!Next, Tell
  <2>6. CASE RingList
    <3>1. List("alarm", {0, 1, 3})
      BY <2>6 DEF RingList
    <3>2. Alarms!Read
      BY <1>2, <3>1, ListStep
    <3> QED
      BY <1>2, <2>2, <3>1, <3>2 DEF Alarms!Next, List
  <2>7. ASSUME LastRecord("alarm")
        PROVE  Alarms!Next /\ Whole(Current("alarm"))'
    <3>1. Alarms!Read
      BY <1>2, <2>7, LastStep
    <3> QED
      BY <1>2, <2>2, <2>7, <3>1 DEF Alarms!Next, LastRecord
  <2>8. ASSUME NEW id \in Ids, Incomplete("alarm", id)
        PROVE  Alarms!Next /\ Whole(Current("alarm"))'
    <3>1. Alarms!Incomplete(id)
      BY <1>2, <2>8, IncompleteStep
    <3> QED
      BY <1>2, <2>2, <2>8, <3>1 DEF Alarms!Next, Incomplete
  <2>9. ASSUME \/ \E id \in Ids : RemindNow(id) \/ Incomplete("alert", id)
               \/ RemindNames \/ LastRecord("alert")
        PROVE  UNCHANGED Alarms!bookVars /\ Whole(Current("alarm"))'
    <3>1. \E answer : Say("alert", answer)
      BY <2>9 DEF RemindNow, RemindNames, LastRecord, Incomplete, Tell, List
    <3> QED
      BY <2>1, <3>1, AlertSayUnseen
  <2>10. ASSUME NEW id \in Ids, NEW v \in Settings, RemindSet(id, v)
         PROVE  UNCHANGED Alarms!bookVars /\ Whole(Current("alarm"))'
    BY <2>1, <2>10, AlertRewriteUnseen
  <2>11. CASE Write
    BY <2>1, <2>11, WriteUnseen
  <2>12. CASE PowerCut
    <3>1. /\ Alarms!Spoil \/ UNCHANGED Alarms!bookVars
          /\ ~wiped' => Whole(Current("alarm"))'
      BY <1>2, <2>12, PowerCutStep, VarsAre
    <3> QED
      BY <1>2, <3>1 DEF Alarms!Next
  <2>13. CASE UNCHANGED vars
    <3>1. UNCHANGED <<Current("alarm"), wiped, out["alarm"]>>
      BY <2>13 DEF vars, Current
    <3> QED
      BY <2>1, <3>1
  <2> HIDE DEF BookInv
  <2>14. ASSUME NEW n \in Names, LastRecord(n) \/ \E id \in Ids : Incomplete(n, id)
         PROVE  /\ Alarms!Next \/ UNCHANGED Alarms!bookVars
                /\ Whole(Current("alarm"))'
    <3>1. CASE n = "alarm" /\ LastRecord(n)
      <4>1. LastRecord("alarm")
        BY <3>1
      <4> QED
        BY <2>7, <4>1
    <3>2. CASE n = "alarm" /\ \E id \in Ids : Incomplete(n, id)
      <4>1. PICK id \in Ids : Incomplete("alarm", id)
        BY <3>2
      <4> QED
        BY <2>8, <4>1
    <3>3. CASE n = "alert"
      BY <2>9, <2>14, <3>3
    <3> QED
      BY <2>14, <3>1, <3>2, <3>3 DEF Names
  <2> QED
    BY <2>3, <2>4, <2>5, <2>6, <2>9, <2>10, <2>11, <2>12, <2>13, <2>14 DEF Next
<1> QED
  BY <1>1, <1>2

LEMMA InitMaps == Init => BookInv /\ Alarms!BookInit
<1> SUFFICES ASSUME Init PROVE BookInv /\ Alarms!BookInit
  OBVIOUS
<1>1. PICK i \in Ids, v \in Settings :
        file["alarm"] = [lines |-> NewAlarm(i, v), open |-> TRUE]
  <2>1. PICK i \in Ids, v \in Settings, o \in BOOLEAN, none \in BOOLEAN :
          file = [alarm |-> [lines |-> NewAlarm(i, v), open |-> TRUE],
                  alert |-> IF none THEN EmptyFile ELSE [lines |-> NewAlert(i, v), open |-> o]]
    BY DEF Init
  <2> QED
    BY <2>1
<1>2. FileInv /\ wiped = FALSE /\ out["alarm"] = <<"none">> /\ Current("alarm") = file["alarm"]
  <2>1. FileInv
    BY InitInv
  <2> QED
    BY <2>1 DEF Init, Current, Names
<1>3. Len(file["alarm"].lines) = 9
  BY <1>1, NewAlarmFacts
<1>4. file["alarm"] \in FileTypes /\ Whole(file["alarm"])
  <2>1. file["alarm"] \in FileTypes /\ (Whole(file["alarm"]) \/ Ruined(file["alarm"]))
    BY <1>2 DEF FileInv, TypeOK, AlarmInv, Names
  <2>2. 9 % 9 = 0 /\ 9 # 0
    OBVIOUS
  <2> QED
    BY <1>3, <2>1, <2>2, StillWhole
<1>5. BookInv
  BY <1>2, <1>4 DEF BookInv
<1>6. DOMAIN BookOf(Current("alarm"), 9) = 1 .. 1
  <2>1. DOMAIN Book(file["alarm"]) = 1 .. Count(file["alarm"]) /\ Count(file["alarm"]) = 1
    <3>1. 9 \div 9 = 1
      OBVIOUS
    <3> QED
      BY <1>3, <1>4, <3>1, BookEntries DEF Count
  <2> QED
    BY <1>2, <2>1 DEF Book
<1>7. Alarms!BookInit
  BY <1>2, <1>6 DEF Alarms!BookInit
<1> QED
  BY <1>5, <1>7

-----------------------------------------------------------------------------
(* The theorem about alarms *)

LEMMA BookNext == BookInv /\ [Next]_vars => BookInv'
BY StepMaps, NextInv DEF BookInv

\* Until a power cut falls into a rewrite, /home/04.txt is the list of alarms that
\* commands 17 to 21 and 28 promise: write_alarm() and set_alarm_on() change the
\* alarm they name and no other, but for the stray mark, and every reader reports
\* what was last written.
THEOREM AlarmsKeptHolds == Spec => AlarmsKept
<1>1. Init => BookInv /\ Alarms!BookInit
  BY InitMaps
<1>2. BookInv /\ [Next]_vars => BookInv'
  BY BookNext
<1>3. BookInv /\ [Next]_vars => [Alarms!Next]_(Alarms!bookVars)
  BY StepMaps
<1> QED
  BY <1>1, <1>2, <1>3, PTL DEF Spec, AlarmsKept, Alarms!Spec
-----------------------------------------------------------------------------
(* The records of a file of reminders *)

Rows(f) == Len(f.lines) \div 6
Row(r)  == 6 * (r - 1) + 1          \* the first line of record r
Reminder(f, r) ==
    [id |-> f.lines[Row(r)].id, vals |-> [d \in 0 .. 5 |-> f.lines[Row(r) + d].val]]

\* Whole records, or none: line d of one has its id plus d, no id occurs twice.
Filed(f) ==
    /\ Len(f.lines) % 6 = 0
    /\ \A r \in 1 .. Rows(f) : f.lines[Row(r)].id \in Ids
    /\ \A r, s \in 1 .. Rows(f) : f.lines[Row(r)].id = f.lines[Row(s)].id => r = s
    /\ \A r \in 1 .. Rows(f), d \in 0 .. 5 :
         f.lines[Row(r) + d].id = f.lines[Row(r)].id + d

LEMMA RowFacts ==
    ASSUME NEW f \in FileTypes, Len(f.lines) % 6 = 0
    PROVE  /\ Rows(f) \in Nat /\ Len(f.lines) = 6 * Rows(f)
           /\ DOMAIN f.lines = 1 .. 6 * Rows(f)
           /\ \A r \in 1 .. Rows(f) :
                /\ r \in Nat \ {0} /\ Row(r) \in Nat \ {0}
                /\ Row(r) + 5 <= 6 * Rows(f) /\ Row(r) \in Heads(f, 6)
                /\ \A d \in 0 .. 5 : Row(r) + d \in DOMAIN f.lines
           /\ \A k \in DOMAIN f.lines :
                \E r \in 1 .. Rows(f), d \in 0 .. 5 : k = Row(r) + d
           /\ \A k \in Heads(f, 6) : \E r \in 1 .. Rows(f) : k = Row(r)
<1> DEFINE n == Len(f.lines)
<1>1. DOMAIN f.lines = 1 .. n /\ n \in Nat /\ n % 6 = 0
  BY Lengths
<1> HIDE DEF n
<1>2. n \div 6 \in Nat /\ n = 6 * (n \div 6)
  BY <1>1
<1>3. Rows(f) = n \div 6 /\ n = Len(f.lines)
  BY DEF Rows, n
<1>4. ASSUME NEW r \in 1 .. n \div 6
      PROVE  /\ r \in Nat \ {0} /\ Row(r) \in Nat \ {0}
             /\ Row(r) + 5 <= n /\ Row(r) \in Heads(f, 6)
             /\ \A d \in 0 .. 5 : Row(r) + d \in 1 .. n
  <2>1. r \in Nat \ {0} /\ r <= n \div 6
    BY <1>2
  <2>2. \A d \in 0 .. 5 : Row(r) + d \in 1 .. n
    BY <1>1, <1>2, <2>1 DEF Row
  <2>3. Row(r) \in 1 .. n /\ Row(r) + 5 <= n /\ Offset(Row(r), 6) = 0
    BY <1>1, <1>2, <2>1 DEF Row, Offset
  <2>4. Row(r) \in Heads(f, 6)
    BY <1>1, <2>3 DEF Heads
  <2>5. Row(r) \in Nat \ {0}
    BY <2>1 DEF Row
  <2> QED
    BY <2>1, <2>2, <2>3, <2>4, <2>5
<1>5. ASSUME NEW k \in 1 .. n
      PROVE  \E r \in 1 .. n \div 6, d \in 0 .. 5 : k = Row(r) + d /\ d = (k - 1) % 6
  <2> DEFINE q == (k - 1) \div 6
             e == (k - 1) % 6
  <2>1. q \in Nat /\ e \in 0 .. 5 /\ k = 6 * q + 1 + e
    BY <1>1
  <2>2. e = (k - 1) % 6 /\ k \in 1 .. n
    OBVIOUS
  <2> HIDE DEF q, e
  <2>3. q + 1 \in 1 .. n \div 6 /\ k = 6 * ((q + 1) - 1) + 1 + e
    BY <1>1, <1>2, <2>1, <2>2
  <2>4. k = Row(q + 1) + e
    BY <2>3 DEF Row
  <2> QED
    BY <2>1, <2>2, <2>3, <2>4
<1>6. ASSUME NEW k \in Heads(f, 6)
      PROVE  \E r \in 1 .. n \div 6 : k = Row(r)
  <2>1. k \in 1 .. n /\ (k - 1) % 6 = 0
    BY <1>1 DEF Heads, Offset
  <2>2. PICK r \in 1 .. n \div 6 : k = Row(r) + 0
    BY <1>5, <2>1
  <2>3. Row(r) + 0 = Row(r)
    BY <1>4
  <2> QED
    BY <2>2, <2>3
<1>7. DOMAIN f.lines = 1 .. 6 * (n \div 6)
  BY <1>1, <1>2
<1>8. \A k \in 1 .. n : \E r \in 1 .. n \div 6, d \in 0 .. 5 : k = Row(r) + d
  BY <1>5
<1> DEFINE m == n \div 6
<1>9. /\ m \in Nat /\ n = 6 * m /\ m = Rows(f) /\ Len(f.lines) = 6 * m
      /\ DOMAIN f.lines = 1 .. 6 * m /\ DOMAIN f.lines = 1 .. n
  BY <1>1, <1>2, <1>3
<1>10. \A r \in 1 .. m :
         /\ r \in Nat \ {0} /\ Row(r) \in Nat \ {0}
         /\ Row(r) + 5 <= n /\ Row(r) \in Heads(f, 6)
         /\ \A d \in 0 .. 5 : Row(r) + d \in 1 .. n
  BY <1>4
<1>11. /\ \A k \in 1 .. n : \E r \in 1 .. m, d \in 0 .. 5 : k = Row(r) + d
       /\ \A k \in Heads(f, 6) : \E r \in 1 .. m : k = Row(r)
  BY <1>6, <1>8
<1> HIDE DEF m
<1> QED
  BY <1>9, <1>10, <1>11

\* The records of a file are its entries.
LEMMA ReminderBook ==
    ASSUME NEW f \in FileTypes, Len(f.lines) % 6 = 0
    PROVE  /\ BookOf(f, 6) = [r \in 1 .. Rows(f) |-> Reminder(f, r)]
           /\ DOMAIN BookOf(f, 6) = 1 .. Rows(f)
           /\ \A r \in 1 .. Rows(f) :
                /\ BookOf(f, 6)[r] = Reminder(f, r)
                /\ BookOf(f, 6)[r].id = f.lines[Row(r)].id
                /\ \A d \in 0 .. 5 : BookOf(f, 6)[r].vals[d] = f.lines[Row(r) + d].val
           /\ Len(BookOf(f, 6)) = Rows(f)
<1>1. BookOf(f, 6) = [r \in 1 .. Rows(f) |-> Reminder(f, r)]
  BY DEF BookOf, Rows, Reminder, Row
<1>2. Rows(f) \in Nat
  BY RowFacts
<1> QED
  BY <1>1, <1>2 DEF Reminder

\* A line with an id is the first line of the one record that has it.
LEMMA OneReminder ==
    ASSUME NEW f \in FileTypes, Filed(f), NEW id \in Ids,
           NEW p \in DOMAIN f.lines, f.lines[p].id = id
    PROVE  \E r \in 1 .. Rows(f) : p = Row(r) /\ f.lines[Row(r)].id = id
<1>0. Len(f.lines) % 6 = 0
  BY DEF Filed
<1>1. PICK r \in 1 .. Rows(f), d \in 0 .. 5 : p = Row(r) + d
  BY <1>0, RowFacts
<1>2. PICK h \in Ids : h = f.lines[Row(r)].id
  BY DEF Filed
<1>3. id = h + d
  BY <1>1, <1>2 DEF Filed
<1>4. h \in Nat /\ id \in Nat /\ h % 10 = 0 /\ id % 10 = 0
  BY IdsAssumption
<1>5. d = 0
  BY <1>3, <1>4
<1>6. Row(r) \in Nat \ {0}
  BY <1>0, RowFacts
<1>7. Row(r) + 0 = Row(r)
  BY <1>6
<1>8. p = Row(r)
  BY <1>1, <1>5, <1>7
<1> QED
  BY <1>8

\* The handlers find the record that has the id.
LEMMA FoundReminder ==
    ASSUME NEW f \in FileTypes, Filed(f), NEW id \in Ids
    PROVE  /\ Found(f, 6, id) <=> \E r \in 1 .. Rows(f) : f.lines[Row(r)].id = id
           /\ Found(f, 6, id) <=> StartsWith(f, id)
           /\ \A r \in 1 .. Rows(f) : f.lines[Row(r)].id = id =>
                HeadOf(f, 6, id) = Row(r) /\ PlaceOf(f, id) = Row(r)
<1>0a. Len(f.lines) % 6 = 0
  BY DEF Filed
<1>0b. id \in Nat
  BY IdsAssumption
<1>0c. id # NoId
  BY <1>0b DEF NoId
<1>0. Len(f.lines) % 6 = 0 /\ id \in Nat /\ id # NoId
  BY <1>0a, <1>0b, <1>0c
<1>1. \A r \in 1 .. Rows(f) :
        Row(r) \in Heads(f, 6) /\ Row(r) \in DOMAIN f.lines /\ Row(r) \in Nat
  BY <1>0, RowFacts DEF Heads
<1>2. ASSUME NEW k \in Heads(f, 6)
      PROVE  Passes(f.lines[k], id) <=> f.lines[k].id = id
  <2>1. PICK r \in 1 .. Rows(f) : k = Row(r)
    BY <1>0, RowFacts
  <2>2. f.lines[k].id \in Nat
    BY <2>1, IdsAssumption DEF Filed
  <2> QED
    BY <2>2 DEF Passes, NoId
<1>3. ASSUME NEW p \in DOMAIN f.lines, f.lines[p].id = id
      PROVE  \E r \in 1 .. Rows(f) : p = Row(r) /\ f.lines[Row(r)].id = id
  BY <1>3, OneReminder
<1>4. Found(f, 6, id) <=> \E r \in 1 .. Rows(f) : f.lines[Row(r)].id = id
  <2>1. \A k \in Heads(f, 6) : k \in DOMAIN f.lines
    BY DEF Heads
  <2> QED
    BY <1>1, <1>2, <1>3, <2>1 DEF Found
<1>5. StartsWith(f, id) <=> \E r \in 1 .. Rows(f) : f.lines[Row(r)].id = id
  BY <1>1, <1>3 DEF StartsWith
<1>6. ASSUME NEW r \in 1 .. Rows(f), f.lines[Row(r)].id = id
      PROVE  HeadOf(f, 6, id) = Row(r) /\ PlaceOf(f, id) = Row(r)
  <2>1. \A p \in DOMAIN f.lines : f.lines[p].id = id => p = Row(r)
    BY <1>3, <1>6 DEF Filed
  <2>2. PlaceOf(f, id) = Row(r)
    BY <1>1, <1>6, <2>1 DEF PlaceOf
  <2>3. \A k \in Heads(f, 6) : Passes(f.lines[k], id) <=> k = Row(r)
    <3>1. \A k \in Heads(f, 6) : k \in DOMAIN f.lines
      BY DEF Heads
    <3> QED
      BY <1>2, <1>6, <2>1, <3>1
  <2>4. HeadOf(f, 6, id) = Row(r)
    BY <1>1, <2>3 DEF HeadOf
  <2> QED
    BY <2>2, <2>4
<1> QED
  BY <1>4, <1>5, <1>6

-----------------------------------------------------------------------------
(* write_alert() *)

\* Six lines instead of those from line p on.
Spliced(L, A, p) == SubSeq(L, 1, p - 1) \o A \o SubSeq(L, p + 6, Len(L))

LEMMA SixBetween ==
    ASSUME NEW S, NEW L \in Seq(S), NEW A \in Seq(S), Len(A) = 6,
           NEW p \in 1 .. Len(L), p + 5 <= Len(L)
    PROVE  /\ Len(Spliced(L, A, p)) = Len(L)
           /\ \A k \in 1 .. Len(L) :
                Spliced(L, A, p)[k] = IF k \in p .. p + 5 THEN A[k - p + 1] ELSE L[k]
<1> DEFINE n == Len(L)
           X == SubSeq(L, 1, p - 1)
           Y == SubSeq(L, p + 6, n)
           M == X \o A \o Y
<1>1. n \in Nat /\ p \in Nat /\ 1 <= p /\ p + 5 <= n /\ \A k \in 1 .. n : L[k] \in S
  OBVIOUS
<1> HIDE DEF n
<1>2. /\ X \in Seq(S) /\ Len(X) = p - 1
      /\ \A i \in 1 .. p - 1 : X[i] = L[i]
  <2>1. \A i \in 1 .. p - 1 : i \in 1 .. n /\ L[i] \in S
    BY <1>1
  <2>2. /\ X \in Seq(S) /\ Len(X) = IF 1 <= p - 1 THEN (p - 1) - 1 + 1 ELSE 0
        /\ \A i \in 1 .. (p - 1) - 1 + 1 : X[i] = L[1 + i - 1]
    BY <1>1, <2>1, SubSeqProperties
  <2>3. \A i \in 1 .. p - 1 : 1 + i - 1 = i /\ i \in 1 .. (p - 1) - 1 + 1
    BY <1>1
  <2>4. (IF 1 <= p - 1 THEN (p - 1) - 1 + 1 ELSE 0) = p - 1
    BY <1>1
  <2> HIDE DEF X
  <2> QED
    BY <2>2, <2>3, <2>4
<1>3. /\ Y \in Seq(S) /\ Len(Y) = n - p - 5
      /\ \A i \in 1 .. n - p - 5 : Y[i] = L[p + 5 + i]
  <2>1. \A i \in p + 6 .. n : i \in 1 .. n /\ L[i] \in S
    BY <1>1
  <2>2. /\ Y \in Seq(S) /\ Len(Y) = IF p + 6 <= n THEN n - (p + 6) + 1 ELSE 0
        /\ \A i \in 1 .. n - (p + 6) + 1 : Y[i] = L[p + 6 + i - 1]
    BY <1>1, <2>1, SubSeqProperties
  <2>3. \A i \in 1 .. n - p - 5 : p + 6 + i - 1 = p + 5 + i /\ i \in 1 .. n - (p + 6) + 1
    BY <1>1
  <2>4. (IF p + 6 <= n THEN n - (p + 6) + 1 ELSE 0) = n - p - 5
    BY <1>1
  <2> HIDE DEF Y
  <2> QED
    BY <2>2, <2>3, <2>4
<1> HIDE DEF X, Y
<1>4. /\ X \o A \in Seq(S) /\ Len(X \o A) = p + 5
      /\ \A k \in 1 .. p + 5 : (X \o A)[k] = IF k < p THEN L[k] ELSE A[k - p + 1]
  <2>0. /\ X \o A \in Seq(S) /\ Len(X \o A) = Len(X) + Len(A)
        /\ \A k \in 1 .. Len(X) + Len(A) :
             (X \o A)[k] = IF k <= Len(X) THEN X[k] ELSE A[k - Len(X)]
    BY <1>2, ConcatProperties
  <2>1. /\ X \o A \in Seq(S) /\ Len(X \o A) = p - 1 + 6
        /\ \A k \in 1 .. p - 1 + 6 : (X \o A)[k] = IF k <= p - 1 THEN X[k] ELSE A[k - (p - 1)]
    BY <1>2, <2>0
  <2>2. p - 1 + 6 = p + 5
    BY <1>1
  <2>3. ASSUME NEW k \in 1 .. p + 5
        PROVE  (X \o A)[k] = IF k < p THEN L[k] ELSE A[k - p + 1]
    <3>1. k - (p - 1) = k - p + 1 /\ (k <= p - 1 <=> k < p) /\ (k < p => k \in 1 .. p - 1)
      BY <1>1
    <3> QED
      BY <1>2, <2>1, <2>2, <3>1
  <2> QED
    BY <2>1, <2>2, <2>3
<1>5. /\ Len(M) = n
      /\ \A k \in 1 .. n : M[k] = IF k <= p + 5 THEN (X \o A)[k] ELSE Y[k - (p + 5)]
  <2> DEFINE Z == X \o A
  <2>0. Z \in Seq(S) /\ Len(Z) = p + 5
    BY <1>4
  <2> HIDE DEF Z
  <2>0b. Z \in Seq(S) /\ Y \in Seq(S)
    BY <1>3, <2>0
  <2>0a. /\ Len(Z \o Y) = Len(Z) + Len(Y)
         /\ \A k \in 1 .. Len(Z) + Len(Y) :
              (Z \o Y)[k] = IF k <= Len(Z) THEN Z[k] ELSE Y[k - Len(Z)]
    BY <2>0b, ConcatProperties
  <2>1. /\ Len(Z \o Y) = p + 5 + (n - p - 5)
        /\ \A k \in 1 .. p + 5 + (n - p - 5) :
             (Z \o Y)[k] = IF k <= p + 5 THEN Z[k] ELSE Y[k - (p + 5)]
    BY <1>3, <2>0, <2>0a
  <2>2. p + 5 + (n - p - 5) = n
    BY <1>1
  <2> QED
    BY <2>1, <2>2 DEF Z
<1>6. ASSUME NEW k \in 1 .. n
      PROVE  M[k] = IF k \in p .. p + 5 THEN A[k - p + 1] ELSE L[k]
  <2>1. CASE k < p
    <3>1. k <= p + 5 /\ k \in 1 .. p + 5 /\ k \notin p .. p + 5
      BY <1>1, <2>1
    <3> QED
      BY <1>4, <1>5, <2>1, <3>1
  <2>2. CASE k \in p .. p + 5
    <3>1. k <= p + 5 /\ k \in 1 .. p + 5 /\ ~(k < p)
      BY <1>1, <2>2
    <3> QED
      BY <1>4, <1>5, <2>2, <3>1
  <2>3. CASE k > p + 5
    <3>1. /\ ~(k <= p + 5) /\ k \notin p .. p + 5
          /\ k - (p + 5) \in 1 .. n - p - 5 /\ p + 5 + (k - (p + 5)) = k
      BY <1>1, <2>3
    <3> QED
      BY <1>3, <1>5, <3>1
  <2>4. k < p \/ k \in p .. p + 5 \/ k > p + 5
    BY <1>1
  <2> HIDE DEF M
  <2> QED
    BY <2>1, <2>2, <2>3, <2>4
<1> QED
  BY <1>5, <1>6 DEF n, X, Y, Spliced

LEMMA SixBehind ==
    ASSUME NEW S, NEW s \in Seq(S), NEW t \in Seq(S), Len(t) = 6
    PROVE  /\ s \o t \in Seq(S) /\ Len(s \o t) = Len(s) + 6
           /\ \A k \in 1 .. Len(s) + 6 :
                (s \o t)[k] = IF k <= Len(s) THEN s[k] ELSE t[k - Len(s)]
<1>1. /\ s \o t \in Seq(S) /\ Len(s \o t) = Len(s) + Len(t)
      /\ \A k \in 1 .. Len(s) + Len(t) :
           (s \o t)[k] = IF k <= Len(s) THEN s[k] ELSE t[k - Len(s)]
  BY ConcatProperties
<1> QED
  BY <1>1

\* A reminder with all its fields set.
NewReminder(id, v) == [id |-> id, vals |-> [d \in 0 .. 5 |-> v]]

\* write_alert() of a reminder that is there changes its record.
LEMMA EditReminder ==
    ASSUME NEW f \in FileTypes, Filed(f), NEW id \in Ids, NEW v \in Settings,
           NEW q \in 1 .. Rows(f), f.lines[Row(q)].id = id
    PROVE  LET g == EditAlert(f, id, v)
           IN /\ g \in FileTypes /\ Filed(g)
              /\ BookOf(g, 6) = [r \in 1 .. Rows(f) |->
                                  IF r = q THEN NewReminder(id, v) ELSE Reminder(f, r)]
<1> DEFINE g == EditAlert(f, id, v)
           A == NewAlert(id, v)
<1>0. Len(f.lines) % 6 = 0
  BY DEF Filed
<1>1. /\ Rows(f) \in Nat /\ Len(f.lines) = 6 * Rows(f) /\ DOMAIN f.lines = 1 .. 6 * Rows(f)
      /\ \A r \in 1 .. Rows(f) : /\ r \in Nat \ {0} /\ Row(r) \in Nat \ {0}
                                /\ Row(r) + 5 <= 6 * Rows(f)
                                /\ \A d \in 0 .. 5 : Row(r) + d \in DOMAIN f.lines
  BY <1>0, RowFacts
<1>2. StartsWith(f, id) /\ PlaceOf(f, id) = Row(q)
  BY FoundReminder
<1>3. g.lines = SubSeq(f.lines, 1, Row(q) - 1) \o A \o SubSeq(f.lines, Row(q) + 6, Len(f.lines))
  BY <1>2 DEF EditAlert
<1>4. g \in FileTypes
  BY AlertTypes
<1>5. A \in Seq(LineTypes) /\ Len(A) = 6 /\ f.lines \in Seq(LineTypes)
  BY NewAlertFacts, Lengths
<1>6. \A d \in 0 .. 5 : A[d + 1] = Line(id + d, v)
  <2>1. \A d \in 0 .. 5 : d + 1 \in 1 .. 6 /\ id + (d + 1) - 1 = id + d
    BY IdsAssumption
  <2> QED
    BY <2>1 DEF NewAlert
<1> HIDE DEF g, A
<1>7. /\ Len(g.lines) = Len(f.lines)
      /\ \A k \in 1 .. 6 * Rows(f) :
           g.lines[k] = IF k \in Row(q) .. Row(q) + 5 THEN A[k - Row(q) + 1] ELSE f.lines[k]
  <2> DEFINE p == Row(q)
             L == f.lines
             M == Spliced(L, A, p)
  <2>1. p \in 1 .. Len(L) /\ p + 5 <= Len(L) /\ L \in Seq(LineTypes)
    <3>1. Row(q) \in Nat \ {0} /\ Row(q) + 5 <= 6 * Rows(f)
      BY <1>1
    <3>2. Len(f.lines) = 6 * Rows(f)
      BY <1>1
    <3>3. Len(f.lines) \in Nat /\ f.lines \in Seq(LineTypes)
      BY Lengths
    <3>4. p \in Nat \ {0} /\ p + 5 <= Len(L) /\ L \in Seq(LineTypes) /\ Len(L) \in Nat
      BY <3>1, <3>2, <3>3
    <3> HIDE DEF p, L
    <3> QED
      BY <3>4
  <2>2. Len(L) = 6 * Rows(f) /\ g.lines = M /\ L = f.lines /\ p = Row(q)
    BY <1>1, <1>3 DEF Spliced
  <2> HIDE DEF p, L
  <2>3. /\ Len(M) = Len(L)
        /\ \A k \in 1 .. Len(L) : M[k] = IF k \in p .. p + 5 THEN A[k - p + 1] ELSE L[k]
    BY <1>5, <2>1, SixBetween, SMTT(60)
  <2> HIDE DEF M
  <2> QED
    BY <2>2, <2>3
<1>8. ASSUME NEW r \in 1 .. Rows(f), NEW d \in 0 .. 5
      PROVE  g.lines[Row(r) + d] = IF r = q THEN Line(id + d, v) ELSE f.lines[Row(r) + d]
  <2>1. Row(r) + d \in 1 .. 6 * Rows(f) /\ r \in Nat /\ q \in Nat /\ Row(r) \in Nat
    BY <1>1
  <2>2. CASE r = q
    <3>1. Row(r) + d \in Row(q) .. Row(q) + 5 /\ (Row(r) + d) - Row(q) + 1 = d + 1
      BY <2>1, <2>2
    <3> QED
      BY <1>6, <1>7, <2>1, <2>2, <3>1
  <2>3. CASE r # q
    <3>1. Row(r) + d \notin Row(q) .. Row(q) + 5
      BY <2>1, <2>3 DEF Row
    <3> QED
      BY <1>7, <2>1, <2>3, <3>1
  <2> QED
    BY <2>2, <2>3
<1>9. Rows(g) = Rows(f) /\ Len(g.lines) % 6 = 0
  BY <1>0, <1>7 DEF Rows
<1>10. ASSUME NEW r \in 1 .. Rows(f)
       PROVE  /\ g.lines[Row(r)].id = f.lines[Row(r)].id
              /\ \A d \in 0 .. 5 : g.lines[Row(r) + d].id = g.lines[Row(r)].id + d
              /\ Reminder(g, r) = IF r = q THEN NewReminder(id, v) ELSE Reminder(f, r)
  <2>1. Row(r) + 0 = Row(r) /\ 0 \in 0 .. 5 /\ id + 0 = id
    BY <1>1, IdsAssumption
  <2>2. g.lines[Row(r)] = IF r = q THEN Line(id, v) ELSE f.lines[Row(r)]
    BY <1>8, <2>1
  <2>3. CASE r = q
    <3>1. \A d \in 0 .. 5 : g.lines[Row(r) + d] = Line(id + d, v)
      BY <1>8, <2>3
    <3>2. g.lines[Row(r)] = Line(id, v) /\ f.lines[Row(r)].id = id
      BY <2>2, <2>3
    <3> QED
      BY <2>3, <3>1, <3>2 DEF Line, Reminder, NewReminder
  <2>4. CASE r # q
    <3>1. \A d \in 0 .. 5 : g.lines[Row(r) + d] = f.lines[Row(r) + d]
      BY <1>8, <2>4
    <3>2. g.lines[Row(r)] = f.lines[Row(r)]
      BY <2>2, <2>4
    <3> QED
      BY <2>4, <3>1, <3>2 DEF Reminder, Filed
  <2> QED
    BY <2>3, <2>4
<1>11. Filed(g)
  BY <1>9, <1>10 DEF Filed
<1>12. BookOf(g, 6) = [r \in 1 .. Rows(f) |-> Reminder(g, r)]
  BY <1>4, <1>9, ReminderBook
<1> QED
  BY <1>4, <1>10, <1>11, <1>12 DEF g

\* write_alert() of any other adds a record, if the last line is not open.
LEMMA AppendReminder ==
    ASSUME NEW f \in FileTypes, Filed(f), ~f.open, NEW id \in Ids, NEW v \in Settings,
           \A r \in 1 .. Rows(f) : f.lines[Row(r)].id # id
    PROVE  LET g == AppendAlert(f, id, v)
           IN /\ g \in FileTypes /\ Filed(g)
              /\ BookOf(g, 6) = Append(BookOf(f, 6), NewReminder(id, v))
<1> DEFINE g == AppendAlert(f, id, v)
           A == NewAlert(id, v)
           c == Rows(f)
<1>0. Len(f.lines) % 6 = 0
  BY DEF Filed
<1>1. /\ c \in Nat /\ Len(f.lines) = 6 * c /\ DOMAIN f.lines = 1 .. 6 * c
      /\ \A r \in 1 .. c : /\ r \in Nat \ {0} /\ Row(r) \in Nat \ {0}
                          /\ \A d \in 0 .. 5 : Row(r) + d \in DOMAIN f.lines
  BY <1>0, RowFacts
<1>2. g \in FileTypes
  BY AlertTypes
<1>3. g.lines = f.lines \o A
  BY DEF AppendAlert
<1>4. A \in Seq(LineTypes) /\ Len(A) = 6 /\ f.lines \in Seq(LineTypes)
  BY NewAlertFacts, Lengths
<1>5. \A d \in 0 .. 5 : A[d + 1] = Line(id + d, v)
  <2>1. \A d \in 0 .. 5 : d + 1 \in 1 .. 6 /\ id + (d + 1) - 1 = id + d
    BY IdsAssumption
  <2> QED
    BY <2>1 DEF NewAlert
<1> HIDE DEF g, A
<1>6. /\ Len(g.lines) = 6 * c + 6
      /\ \A k \in 1 .. 6 * c + 6 :
           g.lines[k] = IF k <= 6 * c THEN f.lines[k] ELSE A[k - 6 * c]
  <2>1. /\ Len(f.lines \o A) = Len(f.lines) + 6
        /\ \A k \in 1 .. Len(f.lines) + 6 :
             (f.lines \o A)[k] = IF k <= Len(f.lines) THEN f.lines[k] ELSE A[k - Len(f.lines)]
    BY <1>4, SixBehind
  <2> HIDE DEF c
  <2> QED
    BY <1>1, <1>3, <2>1
<1> HIDE DEF c
<1>7. Rows(g) = c + 1 /\ Len(g.lines) % 6 = 0
  <2>1. (6 * c + 6) \div 6 = c + 1 /\ (6 * c + 6) % 6 = 0
    BY <1>1
  <2> QED
    BY <1>6, <2>1 DEF Rows
<1>7a. c \in Nat /\ 6 * c \in Nat
  BY <1>1
<1>8. ASSUME NEW r \in 1 .. c, NEW d \in 0 .. 5
      PROVE  g.lines[Row(r) + d] = f.lines[Row(r) + d]
  <2>1. Row(r) + d \in 1 .. 6 * c
    BY <1>1
  <2>2. Row(r) + d \in 1 .. 6 * c + 6 /\ Row(r) + d <= 6 * c
    BY <1>7a, <2>1
  <2> QED
    BY <1>6, <2>2
<1>9. ASSUME NEW d \in 0 .. 5
      PROVE  g.lines[Row(c + 1) + d] = Line(id + d, v)
  <2>1. /\ Row(c + 1) + d \in 1 .. 6 * c + 6 /\ ~(Row(c + 1) + d <= 6 * c)
        /\ (Row(c + 1) + d) - 6 * c = d + 1
    BY <1>7a DEF Row
  <2> QED
    BY <1>5, <1>6, <2>1
<1>10. ASSUME NEW r \in 1 .. c
       PROVE  /\ g.lines[Row(r)].id = f.lines[Row(r)].id
              /\ \A d \in 0 .. 5 : g.lines[Row(r) + d].id = g.lines[Row(r)].id + d
              /\ Reminder(g, r) = Reminder(f, r)
  <2>1. Row(r) + 0 = Row(r) /\ 0 \in 0 .. 5
    BY <1>1
  <2>2. g.lines[Row(r)] = f.lines[Row(r)]
    BY <1>8, <2>1
  <2> QED
    BY <1>8, <2>2 DEF Reminder, Filed, c
<1>11. /\ g.lines[Row(c + 1)].id = id
       /\ \A d \in 0 .. 5 : g.lines[Row(c + 1) + d].id = id + d
       /\ Reminder(g, c + 1) = NewReminder(id, v)
  <2>1. Row(c + 1) + 0 = Row(c + 1) /\ 0 \in 0 .. 5 /\ id + 0 = id
    BY <1>1, IdsAssumption DEF Row
  <2>2. g.lines[Row(c + 1)] = Line(id, v)
    BY <1>9, <2>1
  <2> QED
    BY <1>9, <2>2 DEF Line, Reminder, NewReminder
<1>12. Filed(g)
  <2>1. \A r \in 1 .. c + 1 : r \in 1 .. c \/ r = c + 1
    BY <1>1
  <2>2. \A r \in 1 .. c + 1 : g.lines[Row(r)].id \in Ids
    BY <2>1, <1>10, <1>11 DEF Filed, c
  <2>3. ASSUME NEW r \in 1 .. c + 1, NEW s \in 1 .. c + 1,
               g.lines[Row(r)].id = g.lines[Row(s)].id
        PROVE  r = s
    <3>1. CASE r \in 1 .. c /\ s \in 1 .. c
      BY <1>10, <2>3, <3>1 DEF Filed, c
    <3>2. CASE r = c + 1 /\ s \in 1 .. c
      <4>1. f.lines[Row(s)].id = id
        BY <1>10, <1>11, <2>3, <3>2
      <4> QED
        BY <3>2, <4>1 DEF c
    <3>3. CASE s = c + 1 /\ r \in 1 .. c
      <4>1. f.lines[Row(r)].id = id
        BY <1>10, <1>11, <2>3, <3>3
      <4> QED
        BY <3>3, <4>1 DEF c
    <3> QED
      BY <2>1, <3>1, <3>2, <3>3
  <2>4. \A r \in 1 .. c + 1, d \in 0 .. 5 : g.lines[Row(r) + d].id = g.lines[Row(r)].id + d
    BY <2>1, <1>10, <1>11
  <2> QED
    BY <1>7, <2>2, <2>3, <2>4 DEF Filed
<1>13. /\ BookOf(g, 6) = [r \in 1 .. c + 1 |-> Reminder(g, r)]
       /\ BookOf(f, 6) = [r \in 1 .. c |-> Reminder(f, r)]
  BY <1>0, <1>2, <1>7, ReminderBook DEF c
<1>14. BookOf(g, 6) = Append(BookOf(f, 6), NewReminder(id, v))
  <2>1. \A r \in 1 .. c : Reminder(g, r) = Reminder(f, r)
    BY <1>10
  <2>2. Reminder(g, c + 1) = NewReminder(id, v)
    BY <1>11
  <2> HIDE DEF c
  <2> QED
    BY <1>7a, <1>13, <2>1, <2>2
<1> QED
  BY <1>2, <1>12, <1>14 DEF g

\* A file of no lines holds no reminder.
LEMMA NoReminders ==
    EmptyFile \in FileTypes /\ Filed(EmptyFile) /\ BookOf(EmptyFile, 6) = <<>>
<1>1. EmptyFile \in FileTypes
  BY EmptyFacts
<1>2. Len(EmptyFile.lines) = 0
  BY DEF EmptyFile
<1>3. 0 % 6 = 0 /\ 0 \div 6 = 0
  OBVIOUS
<1>4. Rows(EmptyFile) = 0 /\ Len(EmptyFile.lines) % 6 = 0
  BY <1>2, <1>3 DEF Rows
<1>5. \A r \in 1 .. Rows(EmptyFile) : FALSE
  BY <1>4
<1>6. Filed(EmptyFile)
  BY <1>4, <1>5 DEF Filed
<1>7. BookOf(EmptyFile, 6) = [r \in 1 .. 0 |-> Reminder(EmptyFile, r)]
  BY <1>1, <1>4, ReminderBook
<1> QED
  BY <1>1, <1>6, <1>7

\* A file of one reminder, as it is installed.
LEMMA OneInstalled ==
    ASSUME NEW id \in Ids, NEW v \in Settings, NEW o \in BOOLEAN
    PROVE  LET f == [lines |-> NewAlert(id, v), open |-> o]
           IN f \in FileTypes /\ Filed(f) /\ DOMAIN BookOf(f, 6) = 1 .. 1
<1> DEFINE f == [lines |-> NewAlert(id, v), open |-> o]
<1>1. f \in FileTypes /\ f.lines = NewAlert(id, v)
  BY InstalledAlert
<1>2. Len(f.lines) = 6
  BY <1>1, NewAlertFacts
<1>3. 6 \div 6 = 1 /\ 6 % 6 = 0
  OBVIOUS
<1>4. Rows(f) = 1 /\ Len(f.lines) % 6 = 0
  BY <1>2, <1>3 DEF Rows
<1>5. ASSUME NEW d \in 0 .. 5
      PROVE  f.lines[Row(1) + d].id = id + d
  <2>1. Row(1) + d = d + 1 /\ d + 1 \in 1 .. 6 /\ id + (d + 1) - 1 = id + d
    BY IdsAssumption DEF Row
  <2> QED
    BY <1>1, <2>1 DEF NewAlert, Line
<1>6. f.lines[Row(1)].id = id
  <2>1. Row(1) + 0 = Row(1) /\ id + 0 = id /\ 0 \in 0 .. 5
    BY IdsAssumption DEF Row
  <2> QED
    BY <1>5, <2>1
<1> HIDE DEF f
<1>7. \A r \in 1 .. Rows(f) : r = 1
  BY <1>4
<1>8. Filed(f)
  BY <1>4, <1>5, <1>6, <1>7 DEF Filed
<1>9. DOMAIN BookOf(f, 6) = 1 .. 1
  BY <1>1, <1>4, ReminderBook
<1> QED
  BY <1>1, <1>8, <1>9 DEF f

-----------------------------------------------------------------------------
(* The abstract operators, in terms of the book of the reminders *)

AlertBook   == IF joined THEN <<>> ELSE BookOf(Current("alert"), 6)
AlertAnswer == IF joined THEN <<"none">> ELSE out["alert"]
AlertVars   == <<AlertBook, ~joined, AlertAnswer>>

LEMMA AlertHas == ASSUME NEW id PROVE Alerts!Has(id) <=> Holds(AlertBook, id)
BY DEF Alerts!Has, Holds, AlertBook

LEMMA AlertAt == ASSUME NEW id PROVE Alerts!At(id) = Place(AlertBook, id)
BY DEF Alerts!At, Place, AlertBook

LEMMA AlertUpdated ==
    ASSUME NEW e, NEW id, NEW vals, NEW v, e = [id |-> id, vals |-> vals]
    PROVE  Alerts!Updated(e, 0 .. 5, v) = NewReminder(id, v)
<1>1. 0 .. (6 - 1) = 0 .. 5
  OBVIOUS
<1> QED
  BY <1>1 DEF Alerts!Updated, Alerts!Fields, NewReminder

LEMMA AlertFresh == ASSUME NEW id, NEW v PROVE Alerts!Fresh(id, v) = NewReminder(id, v)
<1>1. 0 .. (6 - 1) = 0 .. 5
  OBVIOUS
<1> QED
  BY <1>1 DEF Alerts!Fresh, Alerts!Fields, NewReminder

\* What readers find in a book they find in the file.
LEMMA HoldsReminder ==
    ASSUME NEW f \in FileTypes, Filed(f), NEW id \in Ids
    PROVE  LET b == BookOf(f, 6)
           IN /\ Found(f, 6, id) <=> Holds(b, id)
              /\ Found(f, 6, id) =>
                   /\ Place(b, id) \in 1 .. Rows(f)
                   /\ f.lines[Row(Place(b, id))].id = id
                   /\ HeadOf(f, 6, id) = Row(Place(b, id))
<1> DEFINE b == BookOf(f, 6)
<1>1. Len(f.lines) % 6 = 0
  BY DEF Filed
<1>2. DOMAIN b = 1 .. Rows(f) /\ \A r \in 1 .. Rows(f) : b[r].id = f.lines[Row(r)].id
  BY <1>1, ReminderBook
<1> HIDE DEF b
<1>3. Found(f, 6, id) <=> Holds(b, id)
  BY <1>2, FoundReminder DEF Holds
<1>4. ASSUME Found(f, 6, id)
      PROVE  Place(b, id) \in 1 .. Rows(f) /\ f.lines[Row(Place(b, id))].id = id
  BY <1>2, <1>3, <1>4 DEF Holds, Place
<1> QED
  BY <1>3, <1>4, FoundReminder DEF b

-----------------------------------------------------------------------------
(* The steps *)

\* Until a reminder joins an open line, the file of reminders holds whole records.
AlertInv == FileInv /\ (~joined => Filed(Current("alert")))

LEMMA AlertFile ==
    ASSUME AlertInv, pc = "wait"
    PROVE  /\ file["alert"] \in FileTypes /\ Current("alert") = file["alert"]
           /\ ~joined => Filed(file["alert"]) /\ AlertBook = BookOf(file["alert"], 6)
                         /\ AlertAnswer = out["alert"]
BY DEF AlertInv, FileInv, TypeOK, Current, Names, AlertBook, AlertAnswer

LEMMA AlertRewrite ==
    ASSUME AlertInv, NEW g, NEW answer, Rewrite("alert", g, answer), ~joined'
    PROVE  /\ Current("alert")' = g
           /\ AlertBook' = BookOf(g, 6) /\ AlertAnswer' = answer
<1>1. /\ cur' = "alert" /\ mem' = g /\ pc' = "write"
      /\ out' = [out EXCEPT !["alert"] = answer]
  BY DEF Rewrite
<1>2. out'["alert"] = answer
  BY <1>1 DEF AlertInv, FileInv, TypeOK, Names
<1> QED
  BY <1>1, <1>2 DEF Current, AlertBook, AlertAnswer, BookOf

LEMMA AlertSay ==
    ASSUME AlertInv, ~joined, NEW answer, Say("alert", answer)
    PROVE  /\ UNCHANGED <<Current("alert"), joined, AlertBook>> /\ pc = "wait"
           /\ AlertAnswer' = answer
<1>1. /\ out' = [out EXCEPT !["alert"] = answer] /\ pc = "wait"
      /\ UNCHANGED <<file, pc, cur, mem, about, wiped, joined>>
  BY DEF Say, Serving
<1>2. out'["alert"] = answer
  BY <1>1 DEF AlertInv, FileInv, TypeOK, Names
<1> QED
  BY <1>1, <1>2 DEF Current, AlertBook, AlertAnswer, BookOf

\* 24 sets the reminder, unless it joins an open line.
LEMMA RemindStep ==
    ASSUME AlertInv, ~joined, NEW id \in Ids, NEW v \in Settings, RemindSet(id, v)
    PROVE  /\ Alerts!Set(id, v) \/ Alerts!Spoil
           /\ ~joined' => Filed(Current("alert"))'
<1> DEFINE f == file["alert"]
           b == AlertBook
           g == IF Found(f, 6, id) THEN EditAlert(f, id, v) ELSE AppendAlert(f, id, v)
           q == Place(b, id)
<1>1. /\ pc = "wait" /\ Rewrite("alert", g, <<"ok", id, v>>)
      /\ joined' = (joined \/ (~Found(f, 6, id) /\ f.open))
  BY DEF RemindSet, Serving
<1>2. /\ f \in FileTypes /\ Filed(f) /\ b = BookOf(f, 6) /\ Len(f.lines) % 6 = 0
      /\ f.open \in BOOLEAN
  BY <1>1, AlertFile DEF Filed, FileTypes
<1> HIDE DEF f, g
<1>3. CASE joined'
  BY <1>3 DEF Alerts!Spoil
<1>4. CASE ~joined'
  <2>1. Current("alert")' = g /\ AlertBook' = BookOf(g, 6) /\ AlertAnswer' = <<"ok", id, v>>
    BY <1>1, <1>4, AlertRewrite
  <2>2. b = [r \in 1 .. Rows(f) |-> Reminder(f, r)]
    BY <1>2, ReminderBook
  <2> HIDE DEF b
  <2>3. CASE Found(f, 6, id)
    <3>1. q \in 1 .. Rows(f) /\ f.lines[Row(q)].id = id /\ Holds(b, id)
      BY <1>2, <2>3, HoldsReminder
    <3>2. g = EditAlert(f, id, v)
      BY <2>3 DEF g
    <3> HIDE DEF q
    <3>3. /\ Filed(g)
          /\ BookOf(g, 6) = [r \in 1 .. Rows(f) |->
                              IF r = q THEN NewReminder(id, v) ELSE Reminder(f, r)]
      BY <1>2, <3>1, <3>2, EditReminder
    <3>4. Alerts!Updated(b[q], 0 .. 5, v) = NewReminder(id, v)
      <4>1. b[q] = [id |-> id, vals |-> [d \in 0 .. 5 |-> f.lines[Row(q) + d].val]]
        BY <2>2, <3>1 DEF Reminder
      <4> QED
        BY <4>1, AlertUpdated
    <3>5. BookOf(g, 6) = [b EXCEPT ![q] = Alerts!Updated(@, 0 .. 5, v)]
      BY <2>2, <3>1, <3>3, <3>4
    <3>6. Alerts!Has(id) /\ Alerts!At(id) = q
      BY <3>1, AlertHas, AlertAt DEF b, q
    <3>7. Alerts!Set(id, v)
      BY <1>4, <2>1, <3>5, <3>6 DEF Alerts!Set, AlertBook, AlertAnswer, b
    <3> QED
      BY <2>1, <3>3, <3>7
  <2>4. CASE ~Found(f, 6, id)
    <3>1. ~f.open /\ g = AppendAlert(f, id, v)
      BY <1>1, <1>4, <2>4 DEF g
    <3>2. \A r \in 1 .. Rows(f) : f.lines[Row(r)].id # id
      BY <1>2, <2>4, FoundReminder
    <3>3. Filed(g) /\ BookOf(g, 6) = Append(b, NewReminder(id, v))
      BY <1>2, <3>1, <3>2, AppendReminder
    <3>4. ~Alerts!Has(id)
      BY <1>2, <2>4, HoldsReminder, AlertHas DEF b
    <3>5. Alerts!Set(id, v)
      BY <1>4, <2>1, <3>3, <3>4, AlertFresh DEF Alerts!Set, AlertBook, AlertAnswer, b
    <3> QED
      BY <2>1, <3>3, <3>5
  <2> QED
    BY <2>3, <2>4
<1> QED
  BY <1>3, <1>4

\* 25 reports the record found.
LEMMA RemindTellStep ==
    ASSUME AlertInv, ~joined, NEW id \in Ids, RemindNow(id)
    PROVE  Alerts!Read
<1> DEFINE f == file["alert"]
           b == AlertBook
           D == {0, 1}
           q == Place(b, id)
           answer == IF Readable(f, 6) /\ Found(f, 6, id)
                     THEN <<"fields", Record(f, HeadOf(f, 6, id), D)>> ELSE <<Unset>>
<1>1. Say("alert", answer)
  BY DEF RemindNow, Tell, Size
<1> HIDE DEF answer
<1>2. /\ UNCHANGED <<joined, AlertBook>> /\ pc = "wait" /\ AlertAnswer' = answer
  BY <1>1, AlertSay
<1>3. /\ f \in FileTypes /\ Filed(f) /\ b = BookOf(f, 6) /\ Len(f.lines) % 6 = 0
  BY <1>2, AlertFile DEF Filed
<1> HIDE DEF f
<1>4. Holds(b, id) => Readable(f, 6)
  <2>1. DOMAIN b = 1 .. Rows(f) /\ Len(f.lines) = 6 * Rows(f) /\ Rows(f) \in Nat
    BY <1>3, ReminderBook, RowFacts
  <2>2. ASSUME Holds(b, id) PROVE f.lines # <<>>
    <3>1. PICK r \in 1 .. Rows(f) : TRUE
      BY <2>1, <2>2 DEF Holds
    <3>2. Rows(f) # 0
      BY <3>1
    <3> QED
      BY <1>3, <2>1, <3>2, Lengths
  <2> QED
    BY <1>3, <2>2 DEF Readable
<1>5. /\ Found(f, 6, id) <=> Holds(b, id)
      /\ Found(f, 6, id) =>
           q \in 1 .. Rows(f) /\ HeadOf(f, 6, id) = Row(q)
  BY <1>3, HoldsReminder
<1>6. \A r \in 1 .. Rows(f), d \in 0 .. 5 : b[r].vals[d] = f.lines[Row(r) + d].val
  BY <1>3, ReminderBook
<1> HIDE DEF b, q
<1>7. answer = IF Holds(b, id) THEN <<"fields", [d \in D |-> b[q].vals[d]]>> ELSE <<Unset>>
  <2>1. CASE Holds(b, id)
    <3>1. \A d \in D : d \in 0 .. 5
      OBVIOUS
    <3>2. Record(f, HeadOf(f, 6, id), D) = [d \in D |-> b[q].vals[d]]
      BY <1>5, <1>6, <2>1, <3>1 DEF Record
    <3> QED
      BY <1>4, <1>5, <2>1, <3>2 DEF answer
  <2>2. CASE ~Holds(b, id)
    BY <1>5, <2>2 DEF answer
  <2> QED
    BY <2>1, <2>2
<1>8. answer = Alerts!Lookup(id, D)
  BY <1>7, AlertHas, AlertAt DEF b, q, Alerts!Lookup, Alerts!Unknown, AlertBook, Unset
<1> QED
  BY <1>2, <1>8 DEF Alerts!Read, AlertBook, AlertAnswer

\* 35 reports all records.
LEMMA RemindListStep ==
    ASSUME AlertInv, ~joined, RemindNames
    PROVE  Alerts!Read
<1> DEFINE f == file["alert"]
           b == AlertBook
           D == {1}
           head(r) == 6 * (r - 1) + 1
           all == [r \in 1 .. Len(f.lines) \div 6 |->
                    <<f.lines[head(r)].id, Record(f, head(r), D)>>]
           answer == IF Readable(f, 6) THEN <<"list", all>> ELSE <<Unset>>
<1>1. Say("alert", answer)
  BY DEF RemindNames, List, Size
<1> HIDE DEF answer
<1>2. /\ UNCHANGED <<joined, AlertBook>> /\ pc = "wait" /\ AlertAnswer' = answer
  BY <1>1, AlertSay
<1>3. /\ f \in FileTypes /\ Filed(f) /\ b = BookOf(f, 6) /\ Len(f.lines) % 6 = 0
  BY <1>2, AlertFile DEF Filed
<1> HIDE DEF f
<1>4. /\ DOMAIN b = 1 .. Rows(f) /\ b = [r \in 1 .. Rows(f) |-> Reminder(f, r)]
      /\ \A r \in 1 .. Rows(f) :
           /\ b[r].id = f.lines[Row(r)].id
           /\ \A d \in 0 .. 5 : b[r].vals[d] = f.lines[Row(r) + d].val
      /\ Len(f.lines) = 6 * Rows(f) /\ Rows(f) \in Nat
  BY <1>3, ReminderBook, RowFacts, ZenonT(60)
<1> HIDE DEF b
<1>5. Readable(f, 6) <=> b # <<>>
  <2>1. f.lines = <<>> <=> Rows(f) = 0
    BY <1>3, <1>4, Lengths
  <2>2. b = <<>> <=> Rows(f) = 0
    BY <1>4
  <2> QED
    BY <1>3, <2>1, <2>2 DEF Readable
<1>6. all = [r \in DOMAIN b |-> <<b[r].id, [d \in D |-> b[r].vals[d]]>>]
  <2>1. ASSUME NEW r \in 1 .. Rows(f)
        PROVE  <<f.lines[Row(r)].id, Record(f, Row(r), D)>>
                 = <<b[r].id, [d \in D |-> b[r].vals[d]]>>
    <3>1. \A d \in D : d \in 0 .. 5
      OBVIOUS
    <3>2. Record(f, Row(r), D) = [d \in D |-> b[r].vals[d]]
      BY <1>4, <3>1 DEF Record
    <3> QED
      BY <1>4, <3>2
  <2>2. all = [r \in 1 .. Rows(f) |-> <<f.lines[Row(r)].id, Record(f, Row(r), D)>>]
    BY DEF Rows, Row
  <2> HIDE DEF all, D
  <2> QED
    BY <1>4, <2>1, <2>2
<1>7. answer = Alerts!Listing(D)
  BY <1>5, <1>6 DEF answer, b, Alerts!Listing, Alerts!Unknown, AlertBook, Unset
<1> QED
  BY <1>2, <1>7 DEF Alerts!Read, AlertBook, AlertAnswer

\* 24 with "?" reports the last record.
LEMMA RemindLastStep ==
    ASSUME AlertInv, ~joined, LastRecord("alert")
    PROVE  Alerts!Read
<1> DEFINE f == file["alert"]
           b == AlertBook
           answer == IF Readable(f, 6)
                     THEN <<"last", f.lines[Len(f.lines) - 6 + 1].id>> ELSE <<Unset>>
<1>1. Say("alert", answer)
  BY DEF LastRecord, Size
<1> HIDE DEF answer
<1>2. /\ UNCHANGED <<joined, AlertBook>> /\ pc = "wait" /\ AlertAnswer' = answer
  BY <1>1, AlertSay
<1>3. /\ f \in FileTypes /\ Filed(f) /\ b = BookOf(f, 6) /\ Len(f.lines) % 6 = 0
  BY <1>2, AlertFile DEF Filed
<1> HIDE DEF f
<1>4. /\ \A r \in 1 .. Rows(f) : b[r].id = f.lines[Row(r)].id
      /\ Len(f.lines) = 6 * Rows(f) /\ Rows(f) \in Nat /\ Len(b) = Rows(f)
      /\ DOMAIN b = 1 .. Rows(f) /\ b = [r \in 1 .. Rows(f) |-> Reminder(f, r)]
  BY <1>3, ReminderBook, RowFacts
<1> HIDE DEF b
<1>5. Readable(f, 6) <=> b # <<>>
  <2>1. f.lines = <<>> <=> Rows(f) = 0
    BY <1>3, <1>4, Lengths
  <2>2. b = <<>> <=> Rows(f) = 0
    BY <1>4
  <2> QED
    BY <1>3, <2>1, <2>2 DEF Readable
<1>6. b # <<>> => f.lines[Len(f.lines) - 6 + 1].id = b[Len(b)].id
  <2>1. b # <<>> => Rows(f) \in 1 .. Rows(f)
    BY <1>4
  <2>2. Len(f.lines) - 6 + 1 = Row(Rows(f))
    BY <1>4 DEF Row
  <2> QED
    BY <1>4, <2>1, <2>2
<1>7. answer = Alerts!LastId
  BY <1>5, <1>6 DEF answer, b, Alerts!LastId, Alerts!Unknown, AlertBook, Unset
<1> QED
  BY <1>2, <1>7 DEF Alerts!Read, AlertBook, AlertAnswer

LEMMA RemindIncompleteStep ==
    ASSUME AlertInv, ~joined, NEW id \in Ids, Incomplete("alert", id)
    PROVE  Alerts!Incomplete(id)
<1> DEFINE answer == <<"incomplete", id>>
<1>1. Say("alert", answer)
  BY DEF Incomplete
<1> HIDE DEF answer
<1>2. UNCHANGED <<joined, AlertBook>> /\ AlertAnswer' = answer
  BY <1>1, AlertSay
<1> QED
  BY <1>2 DEF answer, Alerts!Incomplete, AlertBook, AlertAnswer

\* Steps that the list of reminders does not see.
LEMMA AlertUnseen ==
    ASSUME UNCHANGED <<Current("alert"), joined, out["alert"]>>
    PROVE  UNCHANGED AlertVars
BY DEF AlertVars, AlertBook, AlertAnswer, BookOf

LEMMA AlarmSayUnseen ==
    ASSUME AlertInv, NEW answer, Say("alarm", answer)
    PROVE  UNCHANGED <<Current("alert"), joined, out["alert"]>>
<1>1. out' = [out EXCEPT !["alarm"] = answer] /\ UNCHANGED <<file, pc, cur, mem, joined>>
  BY DEF Say
<1>2. out'["alert"] = out["alert"]
  BY <1>1 DEF AlertInv, FileInv, TypeOK, Names
<1> QED
  BY <1>1, <1>2 DEF Current

LEMMA AlarmRewriteUnseen ==
    ASSUME AlertInv, pc = "wait", NEW g, NEW answer, Rewrite("alarm", g, answer),
           joined' = joined
    PROVE  UNCHANGED <<Current("alert"), joined, out["alert"]>>
<1>1. /\ file' = [file EXCEPT !["alarm"] = EmptyFile] /\ cur' = "alarm"
      /\ out' = [out EXCEPT !["alarm"] = answer]
  BY DEF Rewrite
<1>2. out'["alert"] = out["alert"] /\ file'["alert"] = file["alert"]
  BY <1>1 DEF AlertInv, FileInv, TypeOK, Names
<1> QED
  BY <1>1, <1>2 DEF Current

LEMMA RingSwitchUnseen ==
    ASSUME AlertInv, NEW id \in Ids, NEW m \in Marks, RingSwitch(id, m)
    PROVE  UNCHANGED <<Current("alert"), joined, out["alert"]>>
<1>1. pc = "wait" /\ joined' = joined
  BY DEF RingSwitch, Serving
<1>2. \/ pc' = "dead" /\ UNCHANGED <<file, cur, mem, out>>
      \/ \E g, answer : Rewrite("alarm", g, answer)
  BY DEF RingSwitch
<1>3. CASE pc' = "dead" /\ UNCHANGED <<file, cur, mem, out>>
  BY <1>1, <1>3 DEF Current
<1> QED
  BY <1>1, <1>2, <1>3, AlarmRewriteUnseen

LEMMA WriteOfAlertsUnseen ==
    ASSUME AlertInv, Write
    PROVE  UNCHANGED <<Current("alert"), joined, out["alert"]>>
<1>1. /\ pc = "write" /\ file' = [file EXCEPT ![cur] = mem] /\ pc' = "wait"
      /\ UNCHANGED <<cur, out, joined>>
  BY DEF Write
<1>2. Current("alert")' = Current("alert")
  BY <1>1 DEF AlertInv, FileInv, TypeOK, Current, Names
<1> QED
  BY <1>1, <1>2

\* A power cut empties the list if it falls into a rewrite of the reminders.
LEMMA PowerCutClears ==
    ASSUME AlertInv, ~joined, PowerCut
    PROVE  /\ Alerts!Clear \/ UNCHANGED AlertVars
           /\ ~joined' /\ Filed(Current("alert"))'
<1>1. /\ pc \in {"write", "dead"} /\ pc' = "wait" /\ joined' = joined
      /\ out' = IF pc = "write" THEN [out EXCEPT ![cur] = <<"none">>] ELSE out
      /\ UNCHANGED <<file, cur>>
  BY DEF PowerCut
<1>2. CASE pc = "write" /\ cur = "alert"
  <2>1. file["alert"] = EmptyFile
    BY <1>2 DEF AlertInv, FileInv, AlarmInv
  <2>2. Current("alert")' = EmptyFile
    BY <1>1, <2>1 DEF Current
  <2>3. out'["alert"] = <<"none">>
    BY <1>1, <1>2 DEF AlertInv, FileInv, TypeOK, Names
  <2>4. AlertBook' = <<>> /\ AlertAnswer' = <<"none">>
    BY <1>1, <2>2, <2>3, NoReminders DEF AlertBook, AlertAnswer, BookOf
  <2>5. Alerts!Clear
    BY <1>1, <2>4 DEF Alerts!Clear, AlertBook, AlertAnswer
  <2>6. Filed(Current("alert"))'
    BY <2>2, NoReminders DEF Filed, Rows, Row
  <2> QED
    BY <1>1, <2>5, <2>6
<1>3. CASE ~(pc = "write" /\ cur = "alert")
  <2>1. Current("alert") = file["alert"] /\ Current("alert")' = file["alert"]
    BY <1>1, <1>3 DEF Current
  <2>2. out'["alert"] = out["alert"]
    BY <1>1, <1>3 DEF AlertInv, FileInv, TypeOK, Names
  <2>3. UNCHANGED <<Current("alert"), joined, out["alert"]>>
    BY <1>1, <2>1, <2>2
  <2>4. UNCHANGED AlertVars
    BY <2>3, AlertUnseen
  <2>5. Filed(Current("alert"))'
    BY <2>3 DEF AlertInv, Filed, Rows, Row
  <2> QED
    BY <1>1, <2>4, <2>5
<1> QED
  BY <1>2, <1>3

LEMMA JoinedStays == joined /\ [Next]_vars => joined'
BY DEF Next, RingSet, RingSwitch, RemindSet, RingDelay, RingNow, RemindNow, LastRecord,
       Incomplete, RingList, RemindNames, Tell, List, Say, Rewrite, Write, PowerCut, vars

\* Every step is one of the abstract list of reminders, or none.
LEMMA AlertStepMaps ==
    ASSUME AlertInv, [Next]_vars
    PROVE  /\ [Alerts!Next]_(Alerts!bookVars)
           /\ ~joined' => Filed(Current("alert"))'
<1>0. UNCHANGED AlertVars => UNCHANGED Alerts!bookVars
  BY DEF AlertVars, AlertBook, AlertAnswer, Alerts!bookVars
<1>1. CASE joined
  <2>1. joined'
    BY <1>1, JoinedStays
  <2>2. UNCHANGED AlertVars
    BY <1>1, <2>1 DEF AlertVars, AlertBook, AlertAnswer
  <2> QED
    BY <1>0, <2>1, <2>2
<1>2. CASE ~joined
  <2>1. ASSUME UNCHANGED <<Current("alert"), joined, out["alert"]>>
        PROVE  UNCHANGED Alerts!bookVars /\ Filed(Current("alert"))'
    BY <1>0, <1>2, <2>1, AlertUnseen DEF AlertInv, Filed, Rows, Row
  <2>2. ASSUME NEW answer, Say("alert", answer)
        PROVE  Filed(Current("alert"))'
    BY <1>2, <2>2, AlertSay DEF AlertInv, Filed, Rows, Row
  <2>3. ASSUME NEW id \in Ids, NEW v \in Settings, RemindSet(id, v)
        PROVE  Alerts!Next /\ (~joined' => Filed(Current("alert"))')
    BY <1>2, <2>3, RemindStep DEF Alerts!Next
  <2>4. ASSUME NEW id \in Ids, RemindNow(id)
        PROVE  Alerts!Next /\ Filed(Current("alert"))'
    <3>1. \E answer : Say("alert", answer)
      BY <2>4 DEF RemindNow, Tell
    <3>2. Alerts!Read
      BY <1>2, <2>4, RemindTellStep
    <3> QED
      BY <1>2, <2>2, <3>1, <3>2 DEF Alerts!Next
  <2>5. CASE RemindNames
    <3>1. \E answer : Say("alert", answer)
      BY <2>5 DEF RemindNames, List
    <3>2. Alerts!Read
      BY <1>2, <2>5, RemindListStep
    <3> QED
      BY <1>2, <2>2, <3>1, <3>2 DEF Alerts!Next
  <2>6. ASSUME LastRecord("alert")
        PROVE  Alerts!Next /\ Filed(Current("alert"))'
    <3>1. \E answer : Say("alert", answer)
      BY <2>6 DEF LastRecord
    <3>2. Alerts!Read
      BY <1>2, <2>6, RemindLastStep
    <3> QED
      BY <1>2, <2>2, <3>1, <3>2 DEF Alerts!Next
  <2>7. ASSUME NEW id \in Ids, Incomplete("alert", id)
        PROVE  Alerts!Next /\ Filed(Current("alert"))'
    <3>1. \E answer : Say("alert", answer)
      BY <2>7 DEF Incomplete
    <3>2. Alerts!Incomplete(id)
      BY <1>2, <2>7, RemindIncompleteStep
    <3> QED
      BY <1>2, <2>2, <3>1, <3>2 DEF Alerts!Next
  <2>8. ASSUME \/ \E id \in Ids : RingDelay(id) \/ RingNow(id) \/ Incomplete("alarm", id)
               \/ RingList \/ LastRecord("alarm")
        PROVE  UNCHANGED Alerts!bookVars /\ Filed(Current("alert"))'
    <3>1. \E answer : Say("alarm", answer)
      BY <2>8 DEF RingDelay, RingNow, RingList, LastRecord, Incomplete, Tell, List
    <3> QED
      BY <2>1, <3>1, AlarmSayUnseen
  <2>9. ASSUME NEW id \in Ids, NEW v \in Settings, RingSet(id, v)
        PROVE  UNCHANGED Alerts!bookVars /\ Filed(Current("alert"))'
    <3>1. pc = "wait" /\ joined' = joined /\ \E g, answer : Rewrite("alarm", g, answer)
      BY <2>9 DEF RingSet, Serving
    <3> QED
      BY <2>1, <3>1, AlarmRewriteUnseen
  <2>10. ASSUME NEW id \in Ids, NEW m \in Marks, RingSwitch(id, m)
         PROVE  UNCHANGED Alerts!bookVars /\ Filed(Current("alert"))'
    BY <2>1, <2>10, RingSwitchUnseen
  <2>11. CASE Write
    BY <2>1, <2>11, WriteOfAlertsUnseen
  <2>12. CASE PowerCut
    <3>1. /\ Alerts!Clear \/ UNCHANGED Alerts!bookVars
          /\ Filed(Current("alert"))'
      BY <1>0, <1>2, <2>12, PowerCutClears
    <3> QED
      BY <1>2, <3>1 DEF Alerts!Next
  <2>13. CASE UNCHANGED vars
    <3>1. UNCHANGED <<Current("alert"), joined, out["alert"]>>
      BY <2>13 DEF vars, Current
    <3> QED
      BY <2>1, <3>1
  <2> HIDE DEF AlertInv
  <2>14. ASSUME NEW n \in Names, LastRecord(n) \/ \E id \in Ids : Incomplete(n, id)
         PROVE  /\ Alerts!Next \/ UNCHANGED Alerts!bookVars
                /\ Filed(Current("alert"))'
    <3>1. CASE n = "alert" /\ LastRecord(n)
      <4>1. LastRecord("alert")
        BY <3>1
      <4> QED
        BY <2>6, <4>1
    <3>2. CASE n = "alert" /\ \E id \in Ids : Incomplete(n, id)
      <4>1. PICK id \in Ids : Incomplete("alert", id)
        BY <3>2
      <4> QED
        BY <2>7, <4>1
    <3>3. CASE n = "alarm"
      BY <2>8, <2>14, <3>3
    <3> QED
      BY <2>14, <3>1, <3>2, <3>3 DEF Names
  <2> QED
    BY <2>3, <2>4, <2>5, <2>8, <2>9, <2>10, <2>11, <2>12, <2>13, <2>14 DEF Next
<1> QED
  BY <1>1, <1>2

LEMMA AlertInitMaps == Init => AlertInv /\ Alerts!BookInit
<1> SUFFICES ASSUME Init PROVE AlertInv /\ Alerts!BookInit
  OBVIOUS
<1>1. PICK i \in Ids, v \in Settings, o \in BOOLEAN :
        \/ file["alert"] = EmptyFile
        \/ file["alert"] = [lines |-> NewAlert(i, v), open |-> o]
  <2>1. PICK i \in Ids, v \in Settings, o \in BOOLEAN, none \in BOOLEAN :
          file = [alarm |-> [lines |-> NewAlarm(i, v), open |-> TRUE],
                  alert |-> IF none THEN EmptyFile ELSE [lines |-> NewAlert(i, v), open |-> o]]
    BY DEF Init
  <2> QED
    BY <2>1
<1>2. FileInv /\ joined = FALSE /\ out["alert"] = <<"none">> /\ Current("alert") = file["alert"]
  <2>1. FileInv
    BY InitInv
  <2> QED
    BY <2>1 DEF Init, Current, Names
<1> DEFINE f == file["alert"]
           b == BookOf(f, 6)
<1>3. Filed(f) /\ \A r, s \in DOMAIN b : r = s
  <2>1. CASE f = EmptyFile
    BY <2>1, NoReminders
  <2>2. CASE f # EmptyFile
    <3>1. f = [lines |-> NewAlert(i, v), open |-> o]
      BY <1>1, <2>2
    <3>2. Filed(f) /\ DOMAIN b = 1 .. 1
      BY <3>1, OneInstalled
    <3> HIDE DEF f, b
    <3> QED
      BY <3>2
  <2> QED
    BY <2>1, <2>2
<1>4. AlertInv
  BY <1>2, <1>3 DEF AlertInv
<1>5. Alerts!BookInit
  BY <1>2, <1>3 DEF Alerts!BookInit
<1> QED
  BY <1>4, <1>5

-----------------------------------------------------------------------------
(* The theorem about reminders *)

LEMMA AlertNext == AlertInv /\ [Next]_vars => AlertInv'
BY AlertStepMaps, NextInv DEF AlertInv

\* Until a reminder is added to a file whose last line is open, and through power
\* cuts, which empty it, /home/03.txt is the list of reminders that commands 24, 25
\* and 35 promise: write_alert() changes the reminder it names or adds it, no other
\* command changes any, and every reader reports what was last written.
THEOREM AlertsKeptHolds == Spec => AlertsKept
<1>1. Init => AlertInv /\ Alerts!BookInit
  BY AlertInitMaps
<1>2. AlertInv /\ [Next]_vars => AlertInv'
  BY AlertNext
<1>3. AlertInv /\ [Next]_vars => [Alerts!Next]_(Alerts!bookVars)
  BY AlertStepMaps
<1> QED
  BY <1>1, <1>2, <1>3, PTL DEF Spec, AlertsKept, Alerts!Spec
=============================================================================
