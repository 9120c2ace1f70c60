------------------------- MODULE DeviceFilesProofs -------------------------
(***************************************************************************)
(* Proofs about DeviceFiles, for any ids, texts and messages of any        *)
(* length: types, that a list of lamps is installed as it was sent, and    *)
(* that songs, light modes and lamps implement their abstract lists (the   *)
(* refinement DevicesKept).                                                *)
(***************************************************************************)
EXTENDS DeviceFiles, SequenceTheorems, TLAPS

LineTypes == [id : Nat, val : Text]
Lamp      == [Fields -> Text]

-----------------------------------------------------------------------------
(* Texts and lines *)

LEMMA MarksAreTexts == Marks \subseteq Text /\ Unset \in Text /\ <<>> \in Text
BY EmptySeq DEF Marks, Text, Unset

\* What memcpy() leaves of the old text is its tail.
LEMMA OverlayFacts ==
    ASSUME NEW a \in Text, NEW b \in Text
    PROVE  /\ Overlay(a, b) \in Text
           /\ Len(a) <= Len(Overlay(a, b)) /\ Len(b) <= Len(Overlay(a, b))
           /\ Len(Overlay(a, b)) \in {Len(a), Len(b)}
           /\ SubSeq(Overlay(a, b), 1, Len(a)) = a
           /\ Len(b) <= Len(a) => Overlay(a, b) = a
<1> DEFINE t == SubSeq(b, Len(a) + 1, Len(b))
<1>1. Len(a) \in Nat /\ Len(b) \in Nat /\ a \in Seq(Nat) /\ b \in Seq(Nat)
  BY DEF Text
<1>2. /\ t \in Seq(Nat)
      /\ Len(t) = IF Len(a) + 1 <= Len(b) THEN Len(b) - (Len(a) + 1) + 1 ELSE 0
  <2>1. \A i \in Len(a) + 1 .. Len(b) : b[i] \in Nat
    BY <1>1
  <2> QED
    BY <1>1, <2>1, SubSeqProperties
<1> HIDE DEF t
<1>3. a \o t \in Seq(Nat) /\ Len(a \o t) = Len(a) + Len(t)
  BY <1>1, <1>2, ConcatProperties
<1>4. SubSeq(a \o t, 1, Len(a)) = a
  <2>1. CASE Len(a) = 0
    <3>1. a = <<>>
      BY <1>1, <2>1, EmptySeq
    <3> QED
      BY <2>1, <3>1, SubSeqEmpty
  <2>2. CASE Len(a) > 0
    <3>1. SubSeq(a \o t, 1, Len(a)) = SubSeq(a, 1, Len(a))
      BY <1>1, <1>2, <2>2, SubSeqOfConcat1
    <3> QED
      BY <1>1, <3>1, SubSeqFull
  <2> QED
    BY <1>1, <2>1, <2>2
<1>5. Len(b) <= Len(a) => a \o t = a
  <2> SUFFICES ASSUME Len(b) <= Len(a) PROVE a \o t = a
    OBVIOUS
  <2>1. Len(t) = 0
    BY <1>1, <1>2
  <2>2. t = <<>>
    BY <1>2, <2>1, EmptySeq
  <2> QED
    BY <1>1, <2>2, ConcatEmptySeq
<1>6. Overlay(a, b) = a \o t
  BY DEF Overlay, t
<1>7. Len(a) <= Len(a \o t) /\ Len(b) <= Len(a \o t) /\ Len(a \o t) \in {Len(a), Len(b)}
  BY <1>1, <1>2, <1>3
<1>8. a \o t \in Text
  BY <1>3 DEF Text
<1> QED
  BY <1>4, <1>5, <1>6, <1>7, <1>8

LEMMA WholeFacts ==
    ASSUME NEW id \in Nat, NEW n \in Nat, NEW vals \in [0 .. n - 1 -> Text]
    PROVE  /\ Whole(id, vals, n) \in Seq(LineTypes) /\ Len(Whole(id, vals, n)) = n
           /\ \A d \in 0 .. n - 1 : /\ Whole(id, vals, n)[d + 1].id = id + d
                                    /\ Whole(id, vals, n)[d + 1].val = vals[d]
<1>1. \A d \in 1 .. n : Line(id + d - 1, vals[d - 1]) \in LineTypes
  BY DEF Line, LineTypes
<1>2. \A d \in 1 .. n : Whole(id, vals, n)[d] = Line(id + d - 1, vals[d - 1])
  BY DEF Whole
<1>3. Whole(id, vals, n) \in Seq(LineTypes) /\ Len(Whole(id, vals, n)) = n
  BY <1>1 DEF Whole
<1>4. ASSUME NEW d \in 0 .. n - 1
      PROVE  Whole(id, vals, n)[d + 1] = Line(id + d, vals[d])
  <2>1. d + 1 \in 1 .. n /\ id + (d + 1) - 1 = id + d /\ (d + 1) - 1 = d
    OBVIOUS
  <2> QED
    BY <1>2, <2>1
<1>5. \A d \in 0 .. n - 1 : Line(id + d, vals[d]).id = id + d /\ Line(id + d, vals[d]).val = vals[d]
  BY DEF Line
<1> QED
  BY <1>3, <1>4, <1>5

\* A line that gets a mark stays a line.
LEMMA LineMarked ==
    ASSUME NEW x \in LineTypes, NEW m \in Text
    PROVE  Line(x.id, m) \in LineTypes
BY DEF LineTypes, Line

LEMMA MarkedType ==
    ASSUME NEW L \in Seq(LineTypes), NEW id \in Nat, NEW c \in Nat, NEW m \in Text
    PROVE  Marked(L, id, c, m) \in Seq(LineTypes)
<1>1. \A k \in 1 .. Len(L) : L[k] \in LineTypes /\ Line(L[k].id, m) \in LineTypes
  BY LineMarked
<1> QED
  BY <1>1 DEF Marked

LEMMA StrayType ==
    ASSUME NEW L \in Seq(LineTypes), L # <<>>, NEW m \in Text
    PROVE  [L EXCEPT ![1] = Line(@.id, m)] \in Seq(LineTypes)
<1>1. 1 \in 1 .. Len(L)
  BY EmptySeq
<1>2. Line(L[1].id, m) \in LineTypes
  BY <1>1, LineMarked
<1> QED
  BY <1>1, <1>2, ExceptSeq

LEMMA BehindType ==
    ASSUME NEW L \in Seq(LineTypes), NEW open \in BOOLEAN, open => L # <<>>,
           NEW id \in Nat, NEW v \in Text
    PROVE  Behind(L, open, id, v) \in Seq(LineTypes)
<1>1. CASE open
  <2>1. Len(L) \in 1 .. Len(L) /\ L[Len(L)] \in LineTypes
    BY <1>1, EmptySeq
  <2>2. Joined \in Text
    BY DEF Joined, Text
  <2>3. Line(L[Len(L)].id, Joined) \in LineTypes
    BY <2>1, <2>2, LineMarked
  <2>4. [L EXCEPT ![Len(L)] = Line(@.id, Joined)] \in Seq(LineTypes)
    BY <2>1, <2>3, ExceptSeq
  <2> QED
    BY <1>1, <2>4 DEF Behind
<1>2. CASE ~open
  <2>1. Line(id, v) \in LineTypes
    BY DEF Line, LineTypes
  <2>2. Append(L, Line(id, v)) \in Seq(LineTypes)
    BY <2>1, AppendProperties
  <2> QED
    BY <1>2, <2>2 DEF Behind
<1> QED
  BY <1>1, <1>2

LEMMA EditType ==
    ASSUME NEW L \in Seq(LineTypes), NEW id \in Nat, NEW v \in Text
    PROVE  EditSwitch(L, id, v) \in Seq(LineTypes)
<1> DEFINE p == PlaceOf(L, id)
<1>1. \A k \in 1 .. Len(L) : L[k] \in LineTypes
  OBVIOUS
<1>2. \A k \in 1 .. Len(L) : k - p \in 0 .. 2 => Line(id + (k - p), v) \in LineTypes
  <2> HIDE DEF p
  <2> QED
    BY DEF LineTypes, Line
<1> HIDE DEF p
<1>3. [k \in DOMAIN L |-> IF k - p \in 0 .. 2 THEN Line(id + (k - p), v) ELSE L[k]]
        \in Seq(LineTypes)
  BY <1>1, <1>2
<1> QED
  BY <1>3 DEF EditSwitch, p

LEMMA AppendType ==
    ASSUME NEW L \in Seq(LineTypes), NEW id \in Nat, id >= 3, NEW v \in Text
    PROVE  AppendSwitch(L, id, v) \in Seq(LineTypes)
<1> DEFINE vals == [d \in Fields |-> IF d < 3 THEN Unset ELSE v]
<1>1. vals \in [0 .. 6 - 1 -> Text] /\ id - 3 \in Nat
  BY MarksAreTexts DEF Fields
<1> HIDE DEF vals
<1>2. Whole(id - 3, vals, 6) \in Seq(LineTypes)
  BY <1>1, WholeFacts
<1>3. L \o Whole(id - 3, vals, 6) \in Seq(LineTypes)
  BY <1>2, ConcatProperties
<1> QED
  BY <1>3 DEF AppendSwitch, vals

LEMMA EntryType ==
    ASSUME NEW n \in Names, NEW id \in Nat, NEW v \in Text
    PROVE  Entry(n, id, v) \in Seq(LineTypes)
<1> DEFINE vals == [d \in 0 .. Size[n] - 1 |->
                     IF n # "lamps" /\ d = Place[n] THEN <<2>> ELSE v]
<1>1. Size[n] \in Nat
  BY DEF Size, Names
<1>2. <<2>> \in Text
  BY DEF Text
<1>3. vals \in [0 .. Size[n] - 1 -> Text]
  BY <1>2
<1> HIDE DEF vals
<1>4. Whole(id, vals, Size[n]) \in Seq(LineTypes)
  BY <1>1, <1>3, WholeFacts
<1> QED
  BY <1>4 DEF Entry, vals

-----------------------------------------------------------------------------
(* Types *)

LEMMA Constants ==
    /\ \A id \in Ids : id \in Nat
    /\ \A v \in Texts : v \in Text
    /\ \A m \in Marks : m \in Text
    /\ \A msg \in Messages : msg \in Seq(Lamp)
BY IdsAssumption, TextsAssumption, MessagesAssumption, MarksAreTexts DEF Lamp

LEMMA NothingParsed == NoFields \in Lamp /\ <<>> \in Seq(LineTypes) /\ <<>> \in Seq(Lamp)
<1>1. <<>> \in Seq(LineTypes) /\ <<>> \in Seq(Lamp)
  BY EmptySeq
<1>2. NoFields \in [Fields -> Text]
  BY MarksAreTexts DEF NoFields
<1> QED
  BY <1>1, <1>2 DEF Lamp

Types ==
    /\ kind \in Names /\ there \in BOOLEAN
    /\ lines \in Seq(LineTypes) /\ mem \in Seq(LineTypes)
    /\ pc \in {"wait", "write", "parse", "lamp", "dead"}
    /\ buf \in Lamp /\ todo \in Seq(Lamp) /\ lampId \in Nat
    /\ spoilt \in BOOLEAN /\ sent \subseteq Messages

LEMMA TypesAreTypes == Types <=> TypeOK
BY DEF Types, TypeOK, LineTypes, Lamp

LEMMA TypesInit == Init => Types
<1> SUFFICES ASSUME Init PROVE Types
  OBVIOUS
<1>1. kind \in Names /\ there \in BOOLEAN /\ pc = "wait" /\ mem = <<>>
      /\ buf = NoFields /\ todo = <<>> /\ lampId = 0
      /\ spoilt = FALSE /\ sent = {}
  BY KindsAssumption DEF Init
<1>2. PICK i \in Ids, j \in Ids, v \in Texts :
         lines \in IF ~there THEN {<<>>}
                   ELSE IF kind = "lamps" THEN {<<>>, Entry(kind, i, v)}
                   ELSE {Entry(kind, i, v)} \cup
                        IF i = j THEN {} ELSE {Entry(kind, i, v) \o Entry(kind, j, v)}
  BY DEF Init
<1>3. Entry(kind, i, v) \in Seq(LineTypes) /\ Entry(kind, j, v) \in Seq(LineTypes)
  BY <1>1, Constants, EntryType
<1>4. Entry(kind, i, v) \o Entry(kind, j, v) \in Seq(LineTypes)
  BY <1>3, ConcatProperties
<1>5. lines \in Seq(LineTypes)
  BY <1>2, <1>3, <1>4, NothingParsed
<1> QED
  BY <1>1, <1>5, NothingParsed DEF Types

\* A rewrite keeps the types if its new contents have theirs.
LEMMA RewriteTypes ==
    ASSUME Types, NEW L \in Seq(LineTypes), NEW answer, Rewrite(L, answer),
           spoilt' \in BOOLEAN, sent' \in {sent, {}}
    PROVE  Types'
BY NothingParsed DEF Rewrite, Types, parsing

LEMMA SayTypes ==
    ASSUME Types, NEW answer, Say(answer)
    PROVE  Types'
BY DEF Say, Types, parsing

LEMMA ReadersTypes ==
    ASSUME Types, NEW id, \/ MusicPlay(id) \/ Mode(id) \/ SwitchIncomplete(id)
                          \/ MusicFind \/ ModeFind \/ LampInfo \/ LampStatus
    PROVE  Types'
BY SayTypes DEF MusicPlay, Mode, SwitchIncomplete, MusicFind, ModeFind,
                LampInfo, LampStatus, Tell, List

\* One lamp of a message goes into the buffers, and on into a file.
LEMMA ParsedTypes ==
    ASSUME Types, todo # <<>>
    PROVE  /\ Head(todo) \in Lamp /\ Tail(todo) \in Seq(Lamp)
           /\ [d \in Fields |-> Overlay(Head(todo)[d], buf[d])] \in Lamp
           /\ \A b \in Lamp : lines \o Whole(lampId, b, 6) \in Seq(LineTypes)
<1>1. Head(todo) \in Lamp /\ Tail(todo) \in Seq(Lamp)
  BY HeadTailProperties DEF Types
<1>2. ASSUME NEW d \in Fields PROVE Overlay(Head(todo)[d], buf[d]) \in Text
  <2>1. Head(todo)[d] \in Text /\ buf[d] \in Text
    BY <1>1 DEF Types, Lamp
  <2> QED
    BY <2>1, OverlayFacts
<1>3. [d \in Fields |-> Overlay(Head(todo)[d], buf[d])] \in Lamp
  BY <1>2 DEF Lamp
<1>4. ASSUME NEW b \in Lamp
      PROVE  lines \o Whole(lampId, b, 6) \in Seq(LineTypes)
  <2>1. b \in [0 .. 6 - 1 -> Text] /\ lampId \in Nat /\ lines \in Seq(LineTypes)
    BY DEF Types, Lamp, Fields
  <2>2. Whole(lampId, b, 6) \in Seq(LineTypes)
    BY <2>1, WholeFacts
  <2> QED
    BY <2>1, <2>2, ConcatProperties
<1> QED
  BY <1>1, <1>3, <1>4

LEMMA ParseTypes ==
    ASSUME Types, Parse
    PROVE  Types'
<1>1. todo # <<>> /\ todo' = Tail(todo) /\ UNCHANGED <<kind, there, spoilt, sent>>
      /\ buf' = [d \in Fields |-> Overlay(Head(todo)[d], buf[d])]
  BY DEF Parse
<1>2. todo' \in Seq(Lamp) /\ buf' \in Lamp
  BY <1>1, ParsedTypes
<1>3. CASE \E d \in Fields : buf'[d] = <<>>
  <2>1. UNCHANGED <<pc, mem, lines, lampId>>
    BY <1>3 DEF Parse
  <2> QED
    BY <1>1, <1>2, <2>1 DEF Types
<1>4. CASE ~\E d \in Fields : buf'[d] = <<>>
  <2>1. pc' = "lamp" /\ lines' = <<>> /\ lampId' = lampId + 10
        /\ mem' = lines \o Whole(lampId, buf', 6)
    BY <1>4 DEF Parse
  <2>2. mem' \in Seq(LineTypes)
    BY <1>1, <1>2, <2>1, ParsedTypes
  <2> QED
    BY <1>1, <1>2, <2>1, <2>2, NothingParsed DEF Types
<1> QED
  BY <1>3, <1>4

LEMMA TypesNext == Types /\ [Next]_vars => Types'
<1> SUFFICES ASSUME Types, [Next]_vars PROVE Types'
  OBVIOUS
<1>1. ASSUME NEW id \in Ids, NEW m \in Marks, MusicLike(id, m) PROVE Types'
  <2>1. Marked(lines, id, Place["songs"], m) \in Seq(LineTypes)
    BY Constants, MarkedType DEF Place, Types
  <2> QED
    BY <1>1, <2>1, RewriteTypes DEF MusicLike, Types
<1>2. ASSUME NEW id \in Ids, NEW m \in Marks, LightUse(id, m) PROVE Types'
  <2>1. PICK stray \in Strays :
          LET strayed == stray /\ lines # <<>> /\ lines[1].id # id
              L == IF strayed THEN [lines EXCEPT ![1] = Line(@.id, m)] ELSE lines
          IN /\ Rewrite(Marked(L, id, Place["modes"], m), <<"ok", id, m>>)
             /\ UNCHANGED <<spoilt, sent>>
    BY <1>2 DEF LightUse
  <2> DEFINE L == IF stray /\ lines # <<>> /\ lines[1].id # id
                  THEN [lines EXCEPT ![1] = Line(@.id, m)] ELSE lines
  <2>2. L \in Seq(LineTypes)
    BY Constants, StrayType DEF Types
  <2>3. /\ Rewrite(Marked(L, id, Place["modes"], m), <<"ok", id, m>>)
        /\ UNCHANGED <<spoilt, sent>>
    BY <2>1
  <2> HIDE DEF L
  <2>4. Marked(L, id, Place["modes"], m) \in Seq(LineTypes)
    BY <2>2, Constants, MarkedType DEF Place
  <2> QED
    BY <2>3, <2>4, RewriteTypes DEF Types
<1>3. ASSUME NEW id \in Ids, NEW v \in Texts, SwitchSet(id, v) PROVE Types'
  <2>1. id + 3 \in Nat /\ id + 3 >= 3 /\ v \in Text
    BY Constants
  <2>2. /\ EditSwitch(lines, id + 3, v) \in Seq(LineTypes)
        /\ AppendSwitch(lines, id + 3, v) \in Seq(LineTypes)
    BY <2>1, EditType, AppendType DEF Types
  <2>3. PICK L \in {EditSwitch(lines, id + 3, v), AppendSwitch(lines, id + 3, v)} :
          Rewrite(L, <<"ok", id, v>>) /\ sent' = {} /\ UNCHANGED spoilt
    BY <1>3 DEF SwitchSet
  <2> QED
    BY <2>2, <2>3, RewriteTypes DEF Types
<1>3a. ASSUME NEW id \in Ids, NEW v \in Texts, MusicChoose(id, v) PROVE Types'
  <2> DEFINE open == spoilt /\ lines # <<>>
  <2>1. id \in Nat /\ v \in Text /\ Choice \in Nat /\ lines \in Seq(LineTypes)
    BY Constants DEF Choice, Types
  <2>2. Marked(lines, id, Choice, v) \in Seq(LineTypes)
    BY <2>1, MarkedType
  <2>3. Behind(lines, open, id, v) \in Seq(LineTypes)
    <3>1. open \in BOOLEAN /\ (open => lines # <<>>)
      BY DEF Types
    <3> HIDE DEF open
    <3> QED
      BY <2>1, <3>1, BehindType
  <2>4. PICK L \in {Marked(lines, id, Choice, v), Behind(lines, open, id, v)} :
          Rewrite(L, <<"ok", id, v>>) /\ sent' = sent
    BY <1>3a DEF MusicChoose
  <2>5. spoilt' \in BOOLEAN
    <3>1. spoilt' = (spoilt \/ (there /\ ~StartsWith(lines, id)))
      BY <1>3a DEF MusicChoose
    <3> QED
      BY <3>1
  <2> HIDE DEF open
  <2> QED
    BY <2>2, <2>3, <2>4, <2>5, RewriteTypes
<1>4. ASSUME NEW msg \in Messages, LampsSet(msg) PROVE Types'
  <2>1. msg \in Seq(Lamp) /\ {msg} \subseteq Messages
    BY Constants
  <2> QED
    BY <1>4, <2>1, NothingParsed DEF LampsSet, Types
<1>5. CASE Parse
  BY <1>5, ParseTypes
<1>6. CASE LampWritten \/ Write
  BY <1>6, NothingParsed DEF LampWritten, Write, Types, parsing
<1>7. CASE Installed
  BY <1>7, NothingParsed DEF Installed, Types
<1>8. CASE PowerCut
  BY <1>8, NothingParsed DEF PowerCut, Types
<1>9. CASE UNCHANGED vars
  BY <1>9 DEF vars, Types
<1> QED
  BY <1>1, <1>2, <1>3, <1>3a, <1>4, <1>5, <1>6, <1>7, <1>8, <1>9,
     ReadersTypes DEF Next

\* Types hold in every state, for any ids, texts and messages.
THEOREM TypeCorrect == Spec => []TypeOK
BY TypesInit, TypesNext, TypesAreTypes, PTL DEF Spec

-----------------------------------------------------------------------------
(* A list of lamps *)

\* Holds(), in terms of the number m of lamps in the file.
Filed(L, msg, n, m) ==
    /\ m \in 0 .. n /\ Len(L) = 6 * m
    /\ \A r \in 1 .. n : Complete(msg, r) <=> r > n - m
    /\ \A r \in n - m + 1 .. n, d \in Fields :
         /\ L[6 * (r - (n - m) - 1) + 1 + d].id = 10 * (r - (n - m) - 1) + d
         /\ Copied(L[6 * (r - (n - m) - 1) + 1 + d].val, msg, r, d)

LEMMA LengthIsNat ==
    ASSUME NEW S, NEW s \in Seq(S)
    PROVE  Len(s) \in Nat /\ (Len(s) = 0 <=> s = <<>>)
BY EmptySeq

LEMMA HoldsIsFiled ==
    ASSUME NEW L \in Seq(LineTypes), NEW msg \in Seq(Lamp), NEW n \in Nat
    PROVE  /\ Holds(L, msg, n) => Filed(L, msg, n, Len(L) \div 6)
           /\ \A m \in Nat : Filed(L, msg, n, m) => Holds(L, msg, n) /\ Len(L) \div 6 = m
<1>1. PICK l \in Nat : l = Len(L)
  BY LengthIsNat
<1>2. ASSUME Holds(L, msg, n) PROVE Filed(L, msg, n, l \div 6)
  <2>1. l % 6 = 0 /\ n - l \div 6 \in 0 .. n
    BY <1>1, <1>2 DEF Holds
  <2>2. l = 6 * (l \div 6) /\ l \div 6 \in 0 .. n
    BY <2>1
  <2> QED
    BY <1>1, <1>2, <2>2 DEF Holds, Filed
<1>3. ASSUME NEW m \in Nat, Filed(L, msg, n, m) PROVE Holds(L, msg, n) /\ l \div 6 = m
  <2>1. l = 6 * m /\ m \in 0 .. n
    BY <1>1, <1>3 DEF Filed
  <2>2. l \div 6 = m /\ l % 6 = 0 /\ n - m \in 0 .. n
    BY <2>1
  <2> QED
    BY <1>1, <1>3, <2>2 DEF Holds, Filed
<1> QED
  BY <1>1, <1>2, <1>3

LEMMA FieldIsText ==
    ASSUME NEW msg \in Seq(Lamp), NEW q \in 1 .. Len(msg), NEW d \in Fields
    PROVE  msg[q][d] \in Text /\ Len(msg[q][d]) \in Nat
           /\ (Len(msg[q][d]) = 0 <=> msg[q][d] = <<>>)
<1>1. msg[q] \in Lamp
  OBVIOUS
<1>2. msg[q][d] \in Seq(Nat)
  BY <1>1 DEF Lamp, Text
<1> QED
  BY <1>2, LengthIsNat DEF Text

\* Parsing one more lamp.
Reparsed(b, msg, n) == [d \in Fields |-> Overlay(msg[n + 1][d], b[d])]

LEMMA ReparsedFacts ==
    ASSUME NEW msg \in Seq(Lamp), NEW n \in Nat, n < Len(msg), NEW b \in Lamp,
           Latest(b, msg, n)
    PROVE  /\ Reparsed(b, msg, n) \in Lamp
           /\ Latest(Reparsed(b, msg, n), msg, n + 1)
           /\ \A d \in Fields : Copied(Reparsed(b, msg, n)[d], msg, n + 1, d)
           /\ Complete(msg, n + 1) <=> ~\E d \in Fields : Reparsed(b, msg, n)[d] = <<>>
<1> DEFINE c == Reparsed(b, msg, n)
<1>1. PICK len \in Nat : len = Len(msg)
  BY LengthIsNat
<1>2. n + 1 \in 1 .. Len(msg) /\ 1 .. n + 1 \subseteq 1 .. Len(msg)
  BY <1>1
<1>3. ASSUME NEW d \in Fields
      PROVE  /\ c[d] \in Text /\ Len(c[d]) \in Nat /\ (Len(c[d]) = 0 <=> c[d] = <<>>)
             /\ Len(b[d]) \in Nat /\ Len(msg[n + 1][d]) \in Nat
             /\ Len(msg[n + 1][d]) <= Len(c[d]) /\ Len(b[d]) <= Len(c[d])
             /\ Len(c[d]) \in {Len(msg[n + 1][d]), Len(b[d])}
             /\ SubSeq(c[d], 1, Len(msg[n + 1][d])) = msg[n + 1][d]
             /\ Len(b[d]) <= Len(msg[n + 1][d]) => c[d] = msg[n + 1][d]
  <2>1. msg[n + 1][d] \in Text /\ b[d] \in Text
    BY <1>2, FieldIsText DEF Lamp
  <2>2. c[d] = Overlay(msg[n + 1][d], b[d])
    BY DEF Reparsed
  <2> HIDE DEF c
  <2>3. c[d] \in Text
    BY <2>1, <2>2, OverlayFacts
  <2>4. Len(c[d]) \in Nat /\ (Len(c[d]) = 0 <=> c[d] = <<>>)
        /\ Len(b[d]) \in Nat /\ Len(msg[n + 1][d]) \in Nat
    BY <2>1, <2>3, LengthIsNat DEF Text
  <2> QED
    BY <2>1, <2>2, <2>3, <2>4, OverlayFacts
<1>4. c \in Lamp
  BY <1>3 DEF Reparsed, Lamp
<1> HIDE DEF c
<1>5. \A d \in Fields, q \in 1 .. n + 1 : Len(msg[q][d]) \in Nat
                          /\ (Len(msg[q][d]) = 0 <=> msg[q][d] = <<>>)
  BY <1>2, FieldIsText
<1>6. ASSUME NEW d \in Fields
      PROVE  /\ \A q \in 1 .. n + 1 : Len(msg[q][d]) <= Len(c[d])
             /\ Len(c[d]) = 0 \/ \E q \in 1 .. n + 1 : Len(c[d]) = Len(msg[q][d])
  <2>1. \A q \in 1 .. n : Len(msg[q][d]) <= Len(b[d])
    BY DEF Latest
  <2>2. Len(b[d]) = 0 \/ \E q \in 1 .. n : Len(b[d]) = Len(msg[q][d])
    BY DEF Latest
  <2>3. \A q \in 1 .. n + 1 : Len(msg[q][d]) <= Len(c[d])
    BY <1>3, <1>5, <2>1
  <2>4. n + 1 \in 1 .. n + 1 /\ \A q \in 1 .. n : q \in 1 .. n + 1
    OBVIOUS
  <2> QED
    BY <1>3, <2>2, <2>3, <2>4
<1>7. ASSUME NEW d \in Fields PROVE Copied(c[d], msg, n + 1, d)
  <2>1. ASSUME Longest(msg, n + 1, d) PROVE Len(b[d]) <= Len(msg[n + 1][d])
    <3>1. Len(b[d]) = 0 \/ \E q \in 1 .. n : Len(b[d]) = Len(msg[q][d])
      BY DEF Latest
    <3>2. \A q \in 1 .. n : Len(msg[q][d]) <= Len(msg[n + 1][d])
      BY <2>1 DEF Longest
    <3> QED
      BY <1>3, <3>1, <3>2
  <2> QED
    BY <1>3, <2>1 DEF Copied
<1>8. Complete(msg, n + 1) <=> ~\E d \in Fields : c[d] = <<>>
  <2>1. ASSUME NEW d \in Fields
        PROVE  (\E q \in 1 .. n + 1 : msg[q][d] # <<>>) <=> c[d] # <<>>
    <3>1. (\E q \in 1 .. n + 1 : Len(msg[q][d]) # 0) <=> Len(c[d]) # 0
      BY <1>3, <1>5, <1>6
    <3> QED
      BY <1>3, <1>5, <3>1
  <2> QED
    BY <2>1 DEF Complete
<1>9. Latest(c, msg, n + 1)
  BY <1>6 DEF Latest
<1> QED
  BY <1>4, <1>7, <1>8, <1>9 DEF c

\* A field that was sent once stays.
LEMMA CompleteLater ==
    ASSUME NEW msg, NEW n \in Nat, NEW r \in 1 .. n, Complete(msg, r)
    PROVE  Complete(msg, n + 1)
<1>1. \A q \in 1 .. r : q \in 1 .. n + 1
  OBVIOUS
<1> QED
  BY <1>1 DEF Complete

\* A lamp that lacks a field is one of the first that are left out.
LEMMA LeftOut ==
    ASSUME NEW L \in Seq(LineTypes), NEW msg \in Seq(Lamp), NEW n \in Nat,
           NEW m \in Nat, Filed(L, msg, n, m), ~Complete(msg, n + 1)
    PROVE  Filed(L, msg, n + 1, m)
<1>1. \A r \in 1 .. n : ~Complete(msg, r)
  BY CompleteLater
<1>2. m = 0
  <2>1. m \in 0 .. n /\ \A r \in 1 .. n : ~(r > n - m)
    BY <1>1 DEF Filed
  <2> SUFFICES ASSUME m > 0 PROVE FALSE
    OBVIOUS
  <2>2. n \in 1 .. n /\ n > n - m
    BY <2>1
  <2> QED
    BY <2>1, <2>2
<1>3. Len(L) = 0
  BY <1>2 DEF Filed
<1>4. \A r \in 1 .. n + 1 : r \in 1 .. n \/ r = n + 1
  OBVIOUS
<1>5. \A r \in 1 .. n + 1 : ~Complete(msg, r) /\ ~(r > n + 1 - m)
  BY <1>1, <1>2, <1>4
<1>6. n + 1 - m + 1 .. n + 1 = {}
  BY <1>2
<1> QED
  BY <1>2, <1>3, <1>5, <1>6 DEF Filed

LEMMA LampLines ==
    ASSUME NEW id \in Nat, NEW c \in Lamp
    PROVE  /\ Whole(id, c, 6) \in Seq(LineTypes) /\ Len(Whole(id, c, 6)) = 6
           /\ \A d \in Fields : Whole(id, c, 6)[d + 1].id = id + d
                              /\ Whole(id, c, 6)[d + 1].val = c[d]
<1>1. PICK n \in Nat : n = 6
  OBVIOUS
<1>2. c \in [0 .. n - 1 -> Text] /\ 0 .. n - 1 = Fields
  BY <1>1 DEF Lamp, Fields
<1>3. /\ Whole(id, c, n) \in Seq(LineTypes) /\ Len(Whole(id, c, n)) = n
      /\ \A d \in 0 .. n - 1 : Whole(id, c, n)[d + 1].id = id + d
                             /\ Whole(id, c, n)[d + 1].val = c[d]
  BY <1>2, WholeFacts
<1> QED
  BY <1>1, <1>2, <1>3

\* Any other lamp is added to the file.
LEMMA OneMore ==
    ASSUME NEW L \in Seq(LineTypes), NEW msg \in Seq(Lamp), NEW n \in Nat,
           NEW m \in Nat, Filed(L, msg, n, m), Complete(msg, n + 1), NEW c \in Lamp,
           \A d \in Fields : Copied(c[d], msg, n + 1, d)
    PROVE  Filed(L \o Whole(10 * m, c, 6), msg, n + 1, m + 1)
<1> DEFINE W == Whole(10 * m, c, 6)
           M == L \o W
<1>1. /\ W \in Seq(LineTypes) /\ Len(W) = 6
      /\ \A d \in Fields : W[d + 1].id = 10 * m + d /\ W[d + 1].val = c[d]
  <2>1. 10 * m \in Nat
    OBVIOUS
  <2> QED
    BY <2>1, LampLines
<1> HIDE DEF W
<1>2. Len(L) = 6 * m /\ m \in 0 .. n
  BY DEF Filed
<1>3. /\ Len(M) = 6 * (m + 1)
      /\ \A k \in 1 .. 6 * m : M[k] = L[k]
      /\ \A d \in Fields : M[6 * m + 1 + d] = W[d + 1]
  <2>1. /\ Len(M) = 6 * m + 6
        /\ \A k \in 1 .. 6 * m + 6 : M[k] = IF k <= 6 * m THEN L[k] ELSE W[k - 6 * m]
    <3>1. /\ Len(M) = Len(L) + Len(W)
          /\ \A k \in 1 .. Len(L) + Len(W) :
                M[k] = IF k <= Len(L) THEN L[k] ELSE W[k - Len(L)]
      BY <1>1, ConcatProperties, ZenonT(60)
    <3> HIDE DEF M
    <3> QED
      BY <1>1, <1>2, <3>1
  <2> HIDE DEF M
  <2>2. \A k \in 1 .. 6 * m : k \in 1 .. 6 * m + 6 /\ k <= 6 * m
    OBVIOUS
  <2>3. \A d \in Fields : /\ 6 * m + 1 + d \in 1 .. 6 * m + 6 /\ ~(6 * m + 1 + d <= 6 * m)
                          /\ (6 * m + 1 + d) - 6 * m = d + 1
    BY DEF Fields
  <2> QED
    BY <2>1, <2>2, <2>3
<1> HIDE DEF M
<1>4. (n + 1) - (m + 1) = n - m /\ m + 1 \in 0 .. n + 1
  BY <1>2
<1>5. ASSUME NEW r \in 1 .. n + 1 PROVE Complete(msg, r) <=> r > n - m
  <2>1. CASE r = n + 1
    BY <2>1, <1>2
  <2>2. CASE r \in 1 .. n
    BY <2>2 DEF Filed
  <2> QED
    BY <2>1, <2>2
<1>6. ASSUME NEW r \in n - m + 1 .. n + 1, NEW d \in Fields
      PROVE  /\ M[6 * (r - (n - m) - 1) + 1 + d].id = 10 * (r - (n - m) - 1) + d
             /\ Copied(M[6 * (r - (n - m) - 1) + 1 + d].val, msg, r, d)
  <2>1. CASE r = n + 1
    <3>1. r - (n - m) - 1 = m
      BY <2>1, <1>2
    <3>2. M[6 * m + 1 + d].id = 10 * m + d /\ M[6 * m + 1 + d].val = c[d]
      <4>1. M[6 * m + 1 + d] = W[d + 1]
        BY <1>3
      <4> QED
        BY <1>1, <4>1
    <3>3. Copied(c[d], msg, r, d)
      BY <2>1
    <3> HIDE DEF M, W
    <3> QED
      BY <3>1, <3>2, <3>3, Zenon
  <2>2. CASE r \in n - m + 1 .. n
    <3>1. 6 * (r - (n - m) - 1) + 1 + d \in 1 .. 6 * m
      BY <2>2, <1>2 DEF Fields
    <3>2. /\ L[6 * (r - (n - m) - 1) + 1 + d].id = 10 * (r - (n - m) - 1) + d
          /\ Copied(L[6 * (r - (n - m) - 1) + 1 + d].val, msg, r, d)
      BY <2>2 DEF Filed
    <3>3. M[6 * (r - (n - m) - 1) + 1 + d] = L[6 * (r - (n - m) - 1) + 1 + d]
      BY <1>3, <3>1, Zenon
    <3> QED
      BY <3>2, <3>3, Zenon
  <2> QED
    BY <1>2, <2>1, <2>2
<1>7. Filed(M, msg, n + 1, m + 1)
  BY <1>3, <1>4, <1>5, <1>6 DEF Filed
<1> QED
  BY <1>7 DEF M, W

-----------------------------------------------------------------------------
(* The installation *)

LEMMA NextLamp ==
    ASSUME Types, NEW msg \in Messages, todo # <<>>,
           Parsed(msg) \in 0 .. Len(msg), todo = SubSeq(msg, Parsed(msg) + 1, Len(msg))
    PROVE  /\ Parsed(msg) \in Nat /\ Parsed(msg) < Len(msg)
           /\ Head(todo) = msg[Parsed(msg) + 1]
           /\ Tail(todo) = SubSeq(msg, Parsed(msg) + 2, Len(msg))
           /\ Len(msg) - Len(Tail(todo)) = Parsed(msg) + 1
<1>1. msg \in Seq(Lamp) /\ todo \in Seq(Lamp)
  BY Constants DEF Types
<1>2. PICK len \in Nat, left \in Nat : len = Len(msg) /\ left = Len(todo) /\ left # 0
  BY <1>1, LengthIsNat
<1>3. PICK n \in 0 .. len : n = Parsed(msg) /\ n = len - left
  BY <1>2 DEF Parsed
<1>4. n + 1 \in 1 .. len /\ len \in n + 1 .. len /\ n \in Nat /\ n < len
      /\ len - (left - 1) = n + 1
  <2>1. left \in Nat /\ left # 0
    BY <1>2
  <2>2. n = len - left /\ n \in 0 .. len /\ len \in Nat
    BY <1>3
  <2> QED
    BY <2>1, <2>2
<1>5. /\ Head(SubSeq(msg, n + 1, len)) = msg[n + 1]
      /\ Tail(SubSeq(msg, n + 1, len)) = SubSeq(msg, n + 1 + 1, len)
  BY <1>1, <1>2, <1>4, HeadTailOfSubSeq
<1>6. n + 1 + 1 = n + 2
  OBVIOUS
<1>7. Len(Tail(todo)) = left - 1
  BY <1>1, <1>2, HeadTailProperties
<1>8. Head(todo) = msg[n + 1] /\ Tail(todo) = SubSeq(msg, n + 2, len)
  BY <1>2, <1>3, <1>5, <1>6
<1>9. Len(msg) - Len(Tail(todo)) = n + 1
  BY <1>2, <1>4, <1>7
<1> QED
  BY <1>2, <1>3, <1>4, <1>8, <1>9

LEMMA InstallParse ==
    ASSUME Types, InstallInv, Parse
    PROVE  InstallInv'
<1> SUFFICES ASSUME NEW msg \in sent
             PROVE  /\ kind' = "lamps" /\ pc' \in {"parse", "lamp"}
                    /\ Parsed(msg)' \in 0 .. Len(msg)
                    /\ todo' = SubSeq(msg, Parsed(msg)' + 1, Len(msg))
                    /\ Holds(Current', msg, Parsed(msg)')
                    /\ lampId' = 10 * (Len(Current') \div 6)
                    /\ Latest(buf', msg, Parsed(msg)')
  <2>1. sent' = sent
    BY DEF Parse
  <2> QED
    BY <2>1 DEF InstallInv
<1> DEFINE n == Parsed(msg)
           m == Len(lines) \div 6
           c == Reparsed(buf, msg, n)
<1>1. msg \in Messages /\ msg \in Seq(Lamp) /\ lines \in Seq(LineTypes) /\ buf \in Lamp
  BY Constants DEF Types
<1>2. /\ pc = "parse" /\ todo # <<>> /\ todo' = Tail(todo) /\ kind' = kind
      /\ buf' = [d \in Fields |-> Overlay(Head(todo)[d], buf[d])]
  BY DEF Parse
<1>3. /\ kind = "lamps" /\ n \in 0 .. Len(msg) /\ todo = SubSeq(msg, n + 1, Len(msg))
      /\ Holds(lines, msg, n) /\ lampId = 10 * m /\ Latest(buf, msg, n)
  BY <1>2 DEF InstallInv, Current
<1>4. /\ n \in Nat /\ n < Len(msg) /\ Head(todo) = msg[n + 1]
      /\ Tail(todo) = SubSeq(msg, n + 2, Len(msg)) /\ Len(msg) - Len(Tail(todo)) = n + 1
  BY <1>1, <1>2, <1>3, NextLamp
<1>5. Parsed(msg)' = n + 1
  BY <1>2, <1>4 DEF Parsed
<1>6. buf' = c
  BY <1>2, <1>4 DEF Reparsed
<1> HIDE DEF n, c
<1>7. n + 1 \in 0 .. Len(msg) /\ n + 1 + 1 = n + 2
  <2>1. Len(msg) \in Nat
    BY <1>1, LengthIsNat
  <2> QED
    BY <1>4, <2>1
<1>8. Latest(c, msg, n + 1)
      /\ c \in Lamp /\ (\A d \in Fields : Copied(c[d], msg, n + 1, d))
      /\ (Complete(msg, n + 1) <=> ~\E d \in Fields : c[d] = <<>>)
  BY <1>1, <1>3, <1>4, ReparsedFacts DEF c
<1>9. Filed(lines, msg, n, m) /\ m \in Nat
  <2>1. Filed(lines, msg, n, m)
    BY <1>1, <1>3, <1>4, HoldsIsFiled
  <2> HIDE DEF m
  <2> QED
    BY <1>4, <2>1 DEF Filed
<1> HIDE DEF m
<1>10. /\ pc' \in {"parse", "lamp"} /\ Holds(Current', msg, n + 1)
       /\ lampId' = 10 * (Len(Current') \div 6)
  <2>1. CASE \E d \in Fields : c[d] = <<>>
    <3>1. UNCHANGED <<pc, lines, lampId>>
      BY <1>6, <2>1 DEF Parse
    <3>2. Current' = lines
      BY <1>2, <3>1 DEF Current
    <3>3. Filed(lines, msg, n + 1, m)
      BY <1>1, <1>4, <1>8, <1>9, <2>1, LeftOut
    <3>4. Holds(lines, msg, n + 1)
      BY <1>1, <1>4, <1>9, <3>3, HoldsIsFiled
    <3> QED
      BY <1>2, <1>3, <3>1, <3>2, <3>4 DEF m
  <2>2. CASE ~\E d \in Fields : c[d] = <<>>
    <3>1. /\ pc' = "lamp" /\ mem' = lines \o Whole(lampId, c, 6)
          /\ lampId' = lampId + 10
      BY <1>6, <2>2 DEF Parse
    <3>2. Current' = lines \o Whole(10 * m, c, 6)
      BY <1>3, <3>1 DEF Current
    <3>3. Filed(Current', msg, n + 1, m + 1)
      BY <1>1, <1>4, <1>8, <1>9, <2>2, <3>2, OneMore
    <3>4. Current' \in Seq(LineTypes)
      BY <1>1, <1>3, <1>8, <1>2, <3>2, ParsedTypes
    <3>5. m + 1 \in Nat /\ n + 1 \in Nat /\ 10 * m + 10 = 10 * (m + 1)
      BY <1>4, <1>9
    <3>6. Holds(Current', msg, n + 1) /\ Len(Current') \div 6 = m + 1
      BY <1>1, <3>3, <3>4, <3>5, HoldsIsFiled
    <3> QED
      BY <1>3, <3>1, <3>5, <3>6
  <2> QED
    BY <2>1, <2>2
<1> QED
  BY <1>2, <1>3, <1>4, <1>5, <1>6, <1>7, <1>8, <1>10

LEMMA InstallStart ==
    ASSUME NEW msg \in Messages, LampsSet(msg)
    PROVE  InstallInv'
<1>1. /\ kind' = "lamps" /\ pc' = "parse" /\ sent' = {msg} /\ todo' = msg
      /\ lines' = <<>> /\ lampId' = 0 /\ buf' = NoFields
  BY DEF LampsSet, Serving
<1>2. msg \in Seq(Lamp) /\ Len(msg) \in Nat /\ 0 \in 0 .. Len(msg)
  BY Constants, LengthIsNat
<1>3. Parsed(msg)' = 0 /\ Current' = <<>>
  BY <1>1, <1>2 DEF Parsed, Current
<1>4. msg = SubSeq(msg, 0 + 1, Len(msg))
  BY <1>2, SubSeqFull
<1>5. Len(<<>>) = 0
  BY EmptySeq
<1>6. Holds(<<>>, msg, 0)
  BY <1>5 DEF Holds
<1>7. Latest(NoFields, msg, 0)
  <2>1. \A d \in Fields : Len(NoFields[d]) = 0
    BY <1>5 DEF NoFields
  <2> QED
    BY <2>1 DEF Latest
<1>8. 0 = 10 * (Len(<<>>) \div 6)
  BY <1>5
<1> QED
  BY <1>1, <1>2, <1>3, <1>4, <1>6, <1>7, <1>8 DEF InstallInv

LEMMA InstallNext ==
    ASSUME Types, InstallInv, [Next]_vars
    PROVE  InstallInv'
<1>1. ASSUME sent' = {} PROVE InstallInv'
  BY <1>1 DEF InstallInv
<1>2. ASSUME UNCHANGED <<kind, lines, pc, mem, parsing, sent>> PROVE InstallInv'
  BY <1>2 DEF InstallInv, Current, Parsed, parsing
<1>3. kind # "lamps" => sent = {}
  BY DEF InstallInv
<1>4. ASSUME NEW id \in Ids, NEW m \in Marks, MusicLike(id, m) \/ LightUse(id, m)
      PROVE  InstallInv'
  BY <1>1, <1>3, <1>4 DEF MusicLike, LightUse, Serving
<1>4a. ASSUME NEW id \in Ids, NEW v \in Texts, MusicChoose(id, v) PROVE InstallInv'
  BY <1>1, <1>3, <1>4a DEF MusicChoose, Serving
<1>5. ASSUME NEW id \in Ids, NEW v \in Texts, SwitchSet(id, v) PROVE InstallInv'
  BY <1>1, <1>5 DEF SwitchSet
<1>6. ASSUME NEW id, \/ MusicPlay(id) \/ Mode(id) \/ SwitchIncomplete(id)
                     \/ MusicFind \/ ModeFind \/ LampInfo \/ LampStatus
      PROVE  InstallInv'
  BY <1>2, <1>6 DEF MusicPlay, Mode, SwitchIncomplete, MusicFind, ModeFind,
                    LampInfo, LampStatus, Tell, List, Say
<1>7. CASE LampWritten
  BY <1>7 DEF LampWritten, InstallInv, Current, Parsed, parsing
<1>8. CASE Installed
  <2>1. pc = "parse" /\ todo = <<>> /\ pc' = "wait" /\ UNCHANGED <<kind, lines, sent>>
    BY <1>8 DEF Installed
  <2>2. ASSUME NEW msg \in sent PROVE kind = "lamps" /\ Holds(lines, msg, Len(msg))
    <3>1. Len(msg) \in Nat /\ Len(todo) = 0
      BY <2>1, Constants, LengthIsNat, EmptySeq DEF Types
    <3>2. Parsed(msg) = Len(msg)
      BY <3>1 DEF Parsed
    <3> QED
      BY <2>1, <3>2 DEF InstallInv, Current
  <2> QED
    BY <2>1, <2>2 DEF InstallInv
<1>9. CASE Write
  <2>1. sent = {}
    BY <1>9 DEF Write, InstallInv
  <2> QED
    BY <1>1, <1>9, <2>1 DEF Write
<1>10. CASE PowerCut
  BY <1>1, <1>10 DEF PowerCut
<1>11. CASE UNCHANGED vars
  BY <1>2, <1>11 DEF vars, parsing
<1> QED
  BY <1>4, <1>4a, <1>5, <1>6, <1>7, <1>8, <1>9, <1>10, <1>11, InstallParse, InstallStart
  DEF Next

\* A message of any length is installed as it was sent, whatever lamps it skips
\* and whatever is read in between: the invariant behind it, and the property.
THEOREM InstallInvHolds == Spec => []InstallInv
<1>1. Init => InstallInv
  BY DEF Init, InstallInv
<1> QED
  BY <1>1, TypesInit, TypesNext, InstallNext, PTL DEF Spec

\* 33: the file holds the lamps of the message, each in its place with its fields.
THEOREM InstalledAsSentHolds == Spec => []InstalledAsSent
<1>1. InstallInv => InstalledAsSent
  BY DEF InstallInv, InstalledAsSent
<1> QED
  BY <1>1, InstallInvHolds, PTL
-----------------------------------------------------------------------------
(* Files of records of n lines each *)

Sizes == {6, 7}
Rows(L, n) == Len(L) \div n
Row(r, n)  == n * (r - 1) + 1           \* the first line of record r

\* Line d of a record has its id plus d; no id occurs twice.
InRecords(L, n) ==
    /\ Len(L) % n = 0
    /\ \A r \in 1 .. Rows(L, n) : L[Row(r, n)].id \in Ids
    /\ \A r, s \in 1 .. Rows(L, n) : L[Row(r, n)].id = L[Row(s, n)].id => r = s
    /\ \A r \in 1 .. Rows(L, n), d \in 0 .. n - 1 :
         L[Row(r, n) + d].id = L[Row(r, n)].id + d

Item(L, n, r) ==
    [id   |-> L[Row(r, n)].id,
     vals |-> [d \in 0 .. n - 1 |-> L[Row(r, n) + d].val]]

\* BookOf(n) of a file L.
BookIn(L, n) ==
    [r \in 1 .. Rows(L, n) |->
       [id   |-> L[Row(r, n)].id,
        vals |-> [d \in 0 .. n - 1 |->
                   IF L[Row(r, n) + d].id = L[Row(r, n)].id + d
                   THEN L[Row(r, n) + d].val ELSE <<>>]]]

\* A line is one of one record.
LEMMA RowArith ==
    ASSUME NEW n \in Sizes, NEW m \in Nat
    PROVE  /\ \A r \in 1 .. m : /\ r \in Nat \ {0} /\ Row(r, n) \in Nat \ {0}
                                /\ (Row(r, n) - 1) % n = 0
           /\ \A r \in 1 .. m, d \in 0 .. n - 1 : Row(r, n) + d \in 1 .. n * m
           /\ \A r, s \in 1 .. m, d, e \in 0 .. n - 1 :
                Row(r, n) + d = Row(s, n) + e => r = s /\ d = e
           /\ \A k \in 1 .. n * m : \E r \in 1 .. m, d \in 0 .. n - 1 :
                k = Row(r, n) + d /\ d = (k - 1) % n
           /\ Row(m + 1, n) = n * m + 1 /\ n * (m + 1) = n * m + n
           /\ n * m \in Nat /\ (n * m) % n = 0 /\ (n * m) \div n = m
<1>1. CASE n = 6
  <2>1. \A r \in 1 .. m : /\ r \in Nat \ {0} /\ Row(r, 6) \in Nat \ {0}
                          /\ (Row(r, 6) - 1) % 6 = 0
    BY DEF Row
  <2>2. \A r \in 1 .. m, d \in 0 .. 5 : Row(r, 6) + d \in 1 .. 6 * m
    BY DEF Row
  <2>3. \A r, s \in 1 .. m, d, e \in 0 .. 5 :
          Row(r, 6) + d = Row(s, 6) + e => r = s /\ d = e
    BY DEF Row
  <2>4. ASSUME NEW k \in 1 .. 6 * m
        PROVE  \E r \in 1 .. m, d \in 0 .. 5 : k = Row(r, 6) + d /\ d = (k - 1) % 6
    <3> DEFINE q == (k - 1) \div 6
               e == (k - 1) % 6
    <3>1. q \in Nat /\ e \in 0 .. 5 /\ k = 6 * q + 1 + e /\ e = (k - 1) % 6
      OBVIOUS
    <3> HIDE DEF q, e
    <3>2. q + 1 \in 1 .. m /\ k = Row(q + 1, 6) + e
      BY <3>1 DEF Row
    <3> QED
      BY <3>1, <3>2
  <2>5. /\ Row(m + 1, 6) = 6 * m + 1 /\ 6 * (m + 1) = 6 * m + 6
        /\ 6 * m \in Nat /\ (6 * m) % 6 = 0 /\ (6 * m) \div 6 = m
    BY DEF Row
  <2>6. 0 .. n - 1 = 0 .. 5
    BY <1>1
  <2> QED
    BY <1>1, <2>1, <2>2, <2>3, <2>4, <2>5, <2>6
<1>2. CASE n = 7
  <2>1. \A r \in 1 .. m : /\ r \in Nat \ {0} /\ Row(r, 7) \in Nat \ {0}
                          /\ (Row(r, 7) - 1) % 7 = 0
    BY DEF Row
  <2>2. \A r \in 1 .. m, d \in 0 .. 6 : Row(r, 7) + d \in 1 .. 7 * m
    BY DEF Row
  <2>3. \A r, s \in 1 .. m, d, e \in 0 .. 6 :
          Row(r, 7) + d = Row(s, 7) + e => r = s /\ d = e
    BY DEF Row
  <2>4. ASSUME NEW k \in 1 .. 7 * m
        PROVE  \E r \in 1 .. m, d \in 0 .. 6 : k = Row(r, 7) + d /\ d = (k - 1) % 7
    <3> DEFINE q == (k - 1) \div 7
               e == (k - 1) % 7
    <3>1. q \in Nat /\ e \in 0 .. 6 /\ k = 7 * q + 1 + e /\ e = (k - 1) % 7
      OBVIOUS
    <3> HIDE DEF q, e
    <3>2. q + 1 \in 1 .. m /\ k = Row(q + 1, 7) + e
      BY <3>1 DEF Row
    <3> QED
      BY <3>1, <3>2
  <2>5. /\ Row(m + 1, 7) = 7 * m + 1 /\ 7 * (m + 1) = 7 * m + 7
        /\ 7 * m \in Nat /\ (7 * m) % 7 = 0 /\ (7 * m) \div 7 = m
    BY DEF Row
  <2>6. 0 .. n - 1 = 0 .. 6
    BY <1>2
  <2> QED
    BY <1>2, <2>1, <2>2, <2>3, <2>4, <2>5, <2>6
<1> QED
  BY <1>1, <1>2 DEF Sizes

LEMMA RowOf ==
    ASSUME NEW n \in Sizes, NEW m \in Nat
    PROVE  \A k \in 1 .. n * m : \E r \in 1 .. m, d \in 0 .. n - 1 : k = Row(r, n) + d
<1>1. ASSUME NEW k \in 1 .. n * m
      PROVE  \E r \in 1 .. m, d \in 0 .. n - 1 : k = Row(r, n) + d
  <2>1. PICK r \in 1 .. m, d \in 0 .. n - 1 : k = Row(r, n) + d /\ d = (k - 1) % n
    <3> DEFINE P(x) == \E r \in 1 .. m, d \in 0 .. n - 1 : x = Row(r, n) + d /\ d = (x - 1) % n
    <3>1. \A x \in 1 .. n * m : P(x)
      BY RowArith
    <3>2. P(k)
      BY <3>1
    <3> QED
      BY <3>2
  <2> QED
    BY <2>1
<1> QED
  BY <1>1

LEMMA RowOfHead ==
    ASSUME NEW n \in Sizes, NEW m \in Nat
    PROVE  \A k \in 1 .. n * m : (k - 1) % n = 0 => \E r \in 1 .. m : k = Row(r, n)
<1>1. ASSUME NEW k \in 1 .. n * m, (k - 1) % n = 0
      PROVE  \E r \in 1 .. m : k = Row(r, n)
  <2> DEFINE P(x) == \E r \in 1 .. m, d \in 0 .. n - 1 : x = Row(r, n) + d /\ d = (x - 1) % n
  <2>1. \A x \in 1 .. n * m : P(x)
    BY RowArith
  <2>2. P(k)
    BY <2>1
  <2>3. PICK r \in 1 .. m, d \in 0 .. n - 1 : k = Row(r, n) + d /\ d = (k - 1) % n
    BY <2>2
  <2>4. Row(r, n) \in Nat
    BY RowArith
  <2> QED
    BY <1>1, <2>3, <2>4
<1> QED
  BY <1>1

LEMMA RowsApart ==
    ASSUME NEW n \in Sizes, NEW m \in Nat, NEW r \in 1 .. m, NEW s \in 1 .. m,
           NEW d \in 0 .. n - 1, NEW e \in 0 .. n - 1, Row(r, n) + d = Row(s, n) + e
    PROVE  r = s /\ d = e
<1>1. CASE n = 6
  BY <1>1 DEF Row
<1>2. CASE n = 7
  BY <1>2 DEF Row
<1> QED
  BY <1>1, <1>2 DEF Sizes

LEMMA RecordLines ==
    ASSUME NEW L \in Seq(LineTypes), NEW n \in Sizes, Len(L) % n = 0
    PROVE  /\ Rows(L, n) \in Nat /\ Len(L) = n * Rows(L, n)
           /\ Len(L) \in Nat /\ DOMAIN L = 1 .. Len(L)
           /\ \A r \in 1 .. Rows(L, n) : r \in Nat \ {0} /\ Row(r, n) \in Nat \ {0}
           /\ \A r \in 1 .. Rows(L, n), d \in 0 .. n - 1 :
                /\ Row(r, n) + d \in DOMAIN L
                /\ L[Row(r, n) + d].id \in Nat /\ L[Row(r, n) + d].val \in Text
           /\ \A k \in DOMAIN L : \E r \in 1 .. Rows(L, n), d \in 0 .. n - 1 : k = Row(r, n) + d
           /\ L = <<>> <=> Rows(L, n) = 0
           /\ \A r \in 1 .. Rows(L, n) : Row(r, n) + 0 = Row(r, n)
           /\ 0 \in 0 .. n - 1
<1> DEFINE l == Len(L)
           m == l \div n
<1>1. l \in Nat /\ DOMAIN L = 1 .. l /\ (L = <<>> <=> l = 0) /\ l % n = 0
  BY LengthIsNat
<1>2. \A k \in 1 .. l : L[k].id \in Nat /\ L[k].val \in Text
  <2>1. \A k \in 1 .. l : L[k] \in LineTypes
    OBVIOUS
  <2> HIDE DEF l
  <2> QED
    BY <2>1 DEF LineTypes
<1> HIDE DEF l
<1>3. m \in Nat /\ l = n * m
  <2>1. CASE n = 6
    BY <1>1, <2>1
  <2>2. CASE n = 7
    BY <1>1, <2>2
  <2> QED
    BY <2>1, <2>2 DEF Sizes
<1>4. Rows(L, n) = m /\ Len(L) = l
  BY DEF Rows, l
<1>5. l = 0 <=> m = 0
  BY <1>1, <1>3 DEF Sizes
<1> HIDE DEF m
<1>6. /\ \A r \in 1 .. m : r \in Nat \ {0} /\ Row(r, n) \in Nat \ {0}
      /\ \A r \in 1 .. m, d \in 0 .. n - 1 : Row(r, n) + d \in 1 .. l
      /\ \A k \in 1 .. l : \E r \in 1 .. m, d \in 0 .. n - 1 : k = Row(r, n) + d
  <2>1. /\ \A r \in 1 .. m : r \in Nat \ {0} /\ Row(r, n) \in Nat \ {0}
        /\ \A r \in 1 .. m, d \in 0 .. n - 1 : Row(r, n) + d \in 1 .. n * m
    BY <1>3, RowArith
  <2>2. \A k \in 1 .. n * m : \E r \in 1 .. m, d \in 0 .. n - 1 : k = Row(r, n) + d
    BY <1>3, RowOf
  <2>3. l = n * m
    BY <1>3
  <2>4. \A r \in 1 .. m, d \in 0 .. n - 1 : Row(r, n) + d \in 1 .. l
    BY <2>1, <2>3, Zenon
  <2>5. \A k \in 1 .. l : \E r \in 1 .. m, d \in 0 .. n - 1 : k = Row(r, n) + d
    BY <2>2, <2>3, Zenon
  <2> QED
    BY <2>1, <2>4, <2>5, Zenon
<1>7. \A r \in 1 .. m : Row(r, n) + 0 = Row(r, n)
  BY <1>6
<1>8. 0 \in 0 .. n - 1
  BY DEF Sizes
<1> QED
  BY <1>1, <1>2, <1>3, <1>4, <1>5, <1>6, <1>7, <1>8

LEMMA BookItems ==
    ASSUME NEW L \in Seq(LineTypes), NEW n \in Sizes, InRecords(L, n)
    PROVE  /\ BookIn(L, n) = [r \in 1 .. Rows(L, n) |-> Item(L, n, r)]
           /\ DOMAIN BookIn(L, n) = 1 .. Rows(L, n)
           /\ \A r \in 1 .. Rows(L, n) :
                /\ BookIn(L, n)[r] = Item(L, n, r) /\ BookIn(L, n)[r].id = L[Row(r, n)].id
                /\ \A d \in 0 .. n - 1 : BookIn(L, n)[r].vals[d] = L[Row(r, n) + d].val
           /\ Len(BookIn(L, n)) = Rows(L, n)
<1>1. ASSUME NEW r \in 1 .. Rows(L, n)
      PROVE  [d \in 0 .. n - 1 |-> IF L[Row(r, n) + d].id = L[Row(r, n)].id + d
                                   THEN L[Row(r, n) + d].val ELSE <<>>]
               = [d \in 0 .. n - 1 |-> L[Row(r, n) + d].val]
  BY DEF InRecords
<1>2. BookIn(L, n) = [r \in 1 .. Rows(L, n) |-> Item(L, n, r)]
  BY <1>1 DEF BookIn, Item
<1>3. Rows(L, n) \in Nat
  BY RecordLines DEF InRecords
<1>4. DOMAIN BookIn(L, n) = 1 .. Rows(L, n) /\ Len(BookIn(L, n)) = Rows(L, n)
  BY <1>2, <1>3
<1>5. \A r \in 1 .. Rows(L, n) : BookIn(L, n)[r] = Item(L, n, r)
  BY <1>2
<1>6. \A r \in 1 .. Rows(L, n) :
        /\ Item(L, n, r).id = L[Row(r, n)].id
        /\ \A d \in 0 .. n - 1 : Item(L, n, r).vals[d] = L[Row(r, n) + d].val
  BY DEF Item
<1> QED
  BY <1>2, <1>4, <1>5, <1>6

\* A line with an id is the first line of the one record that has it; and the
\* line with an id plus a few is one of its lines.
LEMMA LineOfRecord ==
    ASSUME NEW L \in Seq(LineTypes), NEW n \in Sizes, InRecords(L, n),
           NEW id \in Ids, NEW c \in 0 .. n - 1, NEW p \in DOMAIN L, L[p].id = id + c
    PROVE  \E r \in 1 .. Rows(L, n) : p = Row(r, n) + c /\ L[Row(r, n)].id = id
<1>1. Len(L) % n = 0
  BY DEF InRecords
<1>2. PICK r \in 1 .. Rows(L, n), d \in 0 .. n - 1 : p = Row(r, n) + d
  BY <1>1, RecordLines
<1>3. PICK h \in Ids : h = L[Row(r, n)].id
  BY DEF InRecords
<1>4. id + c = h + d
  BY <1>2, <1>3 DEF InRecords
<1>5. h \in Nat /\ id \in Nat /\ h % 10 = 0 /\ id % 10 = 0
  BY IdsAssumption
<1>6. d = c /\ h = id
  BY <1>4, <1>5 DEF Sizes
<1> QED
  BY <1>2, <1>3, <1>6

-----------------------------------------------------------------------------
(* What commands do to a book *)

With(e, D, v, n) ==
    [e EXCEPT !.vals = [d \in 0 .. n - 1 |-> IF d \in D THEN v ELSE @[d]]]

LEMMA WithItem ==
    ASSUME NEW L, NEW n, NEW r, NEW D, NEW v
    PROVE  With(Item(L, n, r), D, v, n) =
             [id   |-> L[Row(r, n)].id,
              vals |-> [d \in 0 .. n - 1 |-> IF d \in D THEN v ELSE L[Row(r, n) + d].val]]
<1> DEFINE old == [d \in 0 .. n - 1 |-> L[Row(r, n) + d].val]
           new == [d \in 0 .. n - 1 |-> IF d \in D THEN v ELSE old[d]]
<1>1. Item(L, n, r) = [id |-> L[Row(r, n)].id, vals |-> old]
  BY DEF Item
<1>2. new = [d \in 0 .. n - 1 |-> IF d \in D THEN v ELSE L[Row(r, n) + d].val]
  OBVIOUS
<1>3. With(Item(L, n, r), D, v, n) = [Item(L, n, r) EXCEPT !.vals = new]
  <2>1. Item(L, n, r).vals = old
    BY <1>1
  <2> QED
    BY <2>1 DEF With
<1> HIDE DEF old, new
<1>4. With(Item(L, n, r), D, v, n) = [id |-> L[Row(r, n)].id, vals |-> new]
  BY <1>1, <1>3
<1> QED
  BY <1>2, <1>4

\* In M the fields D of the records R of L have become v.
Changed(L, M, n, R, D, v) ==
    /\ Len(M) = Len(L)
    /\ \A r \in 1 .. Rows(L, n), d \in 0 .. n - 1 :
         M[Row(r, n) + d] = IF r \in R /\ d \in D THEN Line(L[Row(r, n) + d].id, v)
                            ELSE L[Row(r, n) + d]

LEMMA ChangedBook ==
    ASSUME NEW L \in Seq(LineTypes), NEW M \in Seq(LineTypes), NEW n \in Sizes,
           InRecords(L, n), NEW R, NEW D, NEW v, Changed(L, M, n, R, D, v)
    PROVE  /\ InRecords(M, n)
           /\ BookIn(M, n) = [r \in DOMAIN BookIn(L, n) |->
                               IF r \in R THEN With(BookIn(L, n)[r], D, v, n)
                               ELSE BookIn(L, n)[r]]
<1>1. Rows(M, n) = Rows(L, n) /\ Len(M) % n = 0 /\ Len(L) % n = 0
  BY DEF Rows, Changed, InRecords
<1>2. ASSUME NEW r \in 1 .. Rows(L, n), NEW d \in 0 .. n - 1
      PROVE  /\ M[Row(r, n) + d].id = L[Row(r, n) + d].id
             /\ M[Row(r, n) + d].val = IF r \in R /\ d \in D THEN v ELSE L[Row(r, n) + d].val
  <2> DEFINE x == L[Row(r, n) + d]
  <2>1. M[Row(r, n) + d] = IF r \in R /\ d \in D THEN Line(x.id, v) ELSE x
    BY DEF Changed
  <2>2. Line(x.id, v).id = x.id /\ Line(x.id, v).val = v
    BY DEF Line
  <2> HIDE DEF x
  <2>3. CASE r \in R /\ d \in D
    BY <2>1, <2>2, <2>3 DEF x
  <2>4. CASE ~(r \in R /\ d \in D)
    BY <2>1, <2>4 DEF x
  <2> QED
    BY <2>3, <2>4
<1>3. \A r \in 1 .. Rows(L, n) : M[Row(r, n)].id = L[Row(r, n)].id
  <2>1. \A r \in 1 .. Rows(L, n) : Row(r, n) + 0 = Row(r, n) /\ 0 \in 0 .. n - 1
    BY <1>1, RecordLines
  <2> QED
    BY <1>2, <2>1
<1>4. InRecords(M, n)
  BY <1>1, <1>2, <1>3 DEF InRecords
<1>5. ASSUME NEW r \in 1 .. Rows(L, n)
      PROVE  Item(M, n, r) = IF r \in R THEN With(Item(L, n, r), D, v, n) ELSE Item(L, n, r)
  <2> DEFINE new == [d \in 0 .. n - 1 |-> M[Row(r, n) + d].val]
  <2>1. Item(M, n, r) = [id |-> L[Row(r, n)].id, vals |-> new]
    BY <1>3 DEF Item
  <2>2. CASE r \in R
    <3>1. new = [d \in 0 .. n - 1 |-> IF d \in D THEN v ELSE L[Row(r, n) + d].val]
      BY <1>2, <2>2
    <3>2. With(Item(L, n, r), D, v, n) = [id |-> L[Row(r, n)].id, vals |-> new]
      BY <3>1, WithItem, SMTT(60)
    <3> HIDE DEF new
    <3> QED
      BY <2>1, <2>2, <3>2
  <2>3. CASE r \notin R
    <3>1. new = [d \in 0 .. n - 1 |-> L[Row(r, n) + d].val]
      BY <1>2, <2>3
    <3> QED
      BY <2>1, <2>3, <3>1 DEF Item
  <2> QED
    BY <2>2, <2>3
<1>6. BookIn(M, n) = [r \in 1 .. Rows(L, n) |-> Item(M, n, r)]
  BY <1>1, <1>4, BookItems
<1>7. /\ DOMAIN BookIn(L, n) = 1 .. Rows(L, n)
      /\ \A r \in 1 .. Rows(L, n) : BookIn(L, n)[r] = Item(L, n, r)
  BY BookItems
<1> QED
  BY <1>4, <1>5, <1>6, <1>7
-----------------------------------------------------------------------------
(* The functions of the commands, on records *)

HasEntry(b, id) == \E r \in DOMAIN b : b[r].id = id
PlaceIn(b, id)  == CHOOSE r \in DOMAIN b : b[r].id = id
MarkedIn(b, id, D, v, n) ==
    [r \in DOMAIN b |-> IF b[r].id = id THEN With(b[r], D, v, n) ELSE b[r]]

\* The entry with an id is that of the record with it.
LEMMA EntryOfRecord ==
    ASSUME NEW L \in Seq(LineTypes), NEW n \in Sizes, InRecords(L, n), NEW id
    PROVE  /\ HasEntry(BookIn(L, n), id) <=> \E r \in 1 .. Rows(L, n) : L[Row(r, n)].id = id
           /\ \A r \in 1 .. Rows(L, n) : L[Row(r, n)].id = id => PlaceIn(BookIn(L, n), id) = r
<1> DEFINE b == BookIn(L, n)
<1>1. DOMAIN b = 1 .. Rows(L, n) /\ \A r \in 1 .. Rows(L, n) : b[r].id = L[Row(r, n)].id
  BY BookItems
<1> HIDE DEF b
<1>2. ASSUME NEW r \in 1 .. Rows(L, n), L[Row(r, n)].id = id
      PROVE  PlaceIn(b, id) = r
  <2>1. \A s \in DOMAIN b : b[s].id = id <=> s = r
    BY <1>1, <1>2 DEF InRecords
  <2> QED
    BY <1>1, <2>1 DEF PlaceIn
<1> QED
  BY <1>1, <1>2 DEF HasEntry, b

\* Writing the entry with an id writes all entries with it.
LEMMA WrittenOnce ==
    ASSUME NEW L \in Seq(LineTypes), NEW n \in Sizes, InRecords(L, n), NEW id,
           HasEntry(BookIn(L, n), id), NEW D, NEW v
    PROVE  [BookIn(L, n) EXCEPT ![PlaceIn(BookIn(L, n), id)] = With(@, D, v, n)]
             = MarkedIn(BookIn(L, n), id, D, v, n)
<1> DEFINE b == BookIn(L, n)
           q == PlaceIn(b, id)
<1>1. PICK r \in 1 .. Rows(L, n) : L[Row(r, n)].id = id
  BY EntryOfRecord
<1>2. q = r
  BY <1>1, EntryOfRecord
<1>3. DOMAIN b = 1 .. Rows(L, n) /\ \A s \in 1 .. Rows(L, n) : b[s].id = L[Row(s, n)].id
  BY BookItems
<1> HIDE DEF b, q
<1>4. \A s \in DOMAIN b : b[s].id = id <=> s = q
  BY <1>1, <1>2, <1>3 DEF InRecords
<1>5. [b EXCEPT ![q] = With(@, D, v, n)]
        = [s \in DOMAIN b |-> IF s = q THEN With(b[s], D, v, n) ELSE b[s]]
  <2>1. b = [s \in 1 .. Rows(L, n) |-> Item(L, n, s)]
    BY BookItems DEF b
  <2> QED
    BY <1>1, <1>2, <1>3, <2>1
<1>6. MarkedIn(b, id, D, v, n)
        = [s \in DOMAIN b |-> IF s = q THEN With(b[s], D, v, n) ELSE b[s]]
  BY <1>4 DEF MarkedIn
<1> QED
  BY <1>5, <1>6 DEF b, q

LEMMA HeadsAre ==
    ASSUME NEW L \in Seq(LineTypes), NEW n \in Sizes, Len(L) % n = 0
    PROVE  \A k \in DOMAIN L : k \in Heads(L, n) <=> \E r \in 1 .. Rows(L, n) : k = Row(r, n)
<1>1. PICK m \in Nat : m = Rows(L, n) /\ Len(L) = n * m /\ DOMAIN L = 1 .. n * m
  BY RecordLines
<1>2. \A r \in 1 .. m : Row(r, n) \in Nat \ {0} /\ (Row(r, n) - 1) % n = 0
  BY <1>1, RowArith
<1>3. ASSUME NEW k \in 1 .. n * m, (k - 1) % n = 0
      PROVE  \E r \in 1 .. m : k = Row(r, n)
  BY <1>1, <1>3, RowOfHead
<1> QED
  BY <1>1, <1>2, <1>3 DEF Heads

\* The line that readers take for the record with an id is its first.
LEMMA HeadFound ==
    ASSUME NEW L \in Seq(LineTypes), NEW n \in Sizes, InRecords(L, n), NEW id
    PROVE  LET has == {k \in Heads(L, n) : L[k].id = id}
               b   == BookIn(L, n)
           IN has = IF HasEntry(b, id) THEN {Row(PlaceIn(b, id), n)} ELSE {}
<1> DEFINE has == {k \in Heads(L, n) : L[k].id = id}
           b   == BookIn(L, n)
<1>1. Len(L) % n = 0
  BY DEF InRecords
<1>2. \A r \in 1 .. Rows(L, n) : Row(r, n) \in DOMAIN L
  BY <1>1, RecordLines, SMTT(60)
<1>3. \A k : k \in has <=> \E r \in 1 .. Rows(L, n) : k = Row(r, n) /\ L[Row(r, n)].id = id
  <2>1. \A k : k \in Heads(L, n) <=> \E r \in 1 .. Rows(L, n) : k = Row(r, n)
    <3>1. \A k \in Heads(L, n) : k \in DOMAIN L
      BY DEF Heads
    <3> QED
      BY <1>1, <1>2, <3>1, HeadsAre
  <2> QED
    BY <2>1
<1>4. CASE HasEntry(b, id)
  <2>1. PICK r \in 1 .. Rows(L, n) : L[Row(r, n)].id = id
    BY <1>4, EntryOfRecord
  <2>2. PlaceIn(b, id) = r
    BY <2>1, EntryOfRecord
  <2>3. \A s \in 1 .. Rows(L, n) : L[Row(s, n)].id = id => s = r
    BY <2>1 DEF InRecords
  <2> HIDE DEF has, b
  <2>4. \A k : k \in has <=> k = Row(r, n)
    BY <1>3, <2>1, <2>3
  <2>5. has = {Row(r, n)}
    BY <2>4
  <2> QED
    BY <1>4, <2>2, <2>5 DEF has, b
<1>5. CASE ~HasEntry(b, id)
  <2>1. \A r \in 1 .. Rows(L, n) : L[Row(r, n)].id # id
    BY <1>5, EntryOfRecord
  <2> HIDE DEF has, b
  <2>2. has = {}
    BY <1>3, <2>1
  <2> QED
    BY <1>5, <2>2 DEF has, b
<1> QED
  BY <1>4, <1>5

\* set_music_like(), set_light_use() and a known write_file_line() change field c
\* of the record with the id.
LEMMA MarkedBook ==
    ASSUME NEW L \in Seq(LineTypes), NEW n \in Sizes, InRecords(L, n),
           NEW id \in Ids, NEW c \in 1 .. n - 1, NEW v \in Text
    PROVE  /\ InRecords(Marked(L, id, c, v), n)
           /\ BookIn(Marked(L, id, c, v), n) = MarkedIn(BookIn(L, n), id, {c}, v, n)
<1> DEFINE M == Marked(L, id, c, v)
           R == {r \in 1 .. Rows(L, n) : L[Row(r, n)].id = id}
<1>1. PICK m \in Nat : m = Rows(L, n) /\ Len(L) = n * m /\ DOMAIN L = 1 .. n * m
                       /\ Len(L) \in Nat /\ DOMAIN L = 1 .. Len(L)
  BY RecordLines DEF InRecords
<1>2. id \in Nat /\ c \in Nat /\ c > 0 /\ c \in 0 .. n - 1
  BY IdsAssumption DEF Sizes
<1>3. M \in Seq(LineTypes) /\ DOMAIN M = DOMAIN L /\ Len(M) = Len(L)
  <2>1. M \in Seq(LineTypes)
    BY <1>2, MarkedType
  <2>2. DOMAIN M = DOMAIN L
    BY DEF Marked
  <2> HIDE DEF M
  <2> QED
    BY <1>1, <2>1, <2>2
<1>4. ASSUME NEW r \in 1 .. m, NEW d \in 0 .. n - 1
      PROVE  M[Row(r, n) + d] = IF r \in R /\ d \in {c} THEN Line(L[Row(r, n) + d].id, v)
                                ELSE L[Row(r, n) + d]
  <2> DEFINE k == Row(r, n) + d
  <2>1. k \in DOMAIN L /\ k \in Nat /\ Row(r, n) \in Nat \ {0}
    BY <1>1, RowArith
  <2>2. M[k] = IF k > c /\ L[k - c].id = id THEN Line(L[k].id, v) ELSE L[k]
    BY <2>1 DEF Marked
  <2>3. ASSUME r \in R, d = c PROVE k > c /\ L[k - c].id = id
    <3>1. k - c = Row(r, n) /\ k > c
      BY <1>2, <2>1, <2>3
    <3> QED
      BY <2>3, <3>1
  <2>4. ASSUME k > c, L[k - c].id = id PROVE r \in R /\ d = c
    <3> HIDE DEF k, M, R
    <3>0. id + 0 = id /\ 0 \in 0 .. n - 1
      BY <1>2 DEF Sizes
    <3>1. k - c \in DOMAIN L
      <4>1. k \in 1 .. Len(L)
        BY <1>1, <2>1
      <4>2. k - c \in 1 .. Len(L)
        BY <1>1, <1>2, <2>1, <2>4, <4>1
      <4> QED
        BY <1>1, <4>2
    <3>2. PICK s \in 1 .. m : k - c = Row(s, n) + 0 /\ L[Row(s, n)].id = id
      BY <1>1, <2>4, <3>0, <3>1, LineOfRecord
    <3>3. k = Row(s, n) + c
      <4>1. Row(s, n) \in Nat
        BY <1>1, RowArith
      <4> HIDE DEF Row
      <4> QED
        BY <1>2, <2>1, <3>2, <4>1
    <3>4. r = s /\ d = c
      <4>1. Row(r, n) + d = Row(s, n) + c
        BY <3>3 DEF k
      <4> QED
        BY <1>1, <1>2, <4>1, RowsApart
    <3> QED
      BY <1>1, <3>2, <3>4 DEF R
  <2> HIDE DEF k, M, R
  <2>5. M[k] = IF r \in R /\ d \in {c} THEN Line(L[k].id, v) ELSE L[k]
    BY <2>2, <2>3, <2>4
  <2> QED
    BY <2>5 DEF k
<1> HIDE DEF M
<1>5. Changed(L, M, n, R, {c}, v)
  BY <1>1, <1>3, <1>4 DEF Changed
<1>6. /\ InRecords(M, n)
      /\ BookIn(M, n) = [r \in DOMAIN BookIn(L, n) |->
                          IF r \in R THEN With(BookIn(L, n)[r], {c}, v, n)
                          ELSE BookIn(L, n)[r]]
  <2> HIDE DEF R
  <2> QED
    BY <1>3, <1>5, ChangedBook
<1>7. \A r \in DOMAIN BookIn(L, n) : r \in R <=> BookIn(L, n)[r].id = id
  BY BookItems
<1>8. BookIn(M, n) = MarkedIn(BookIn(L, n), id, {c}, v, n)
  <2> HIDE DEF R
  <2> QED
    BY <1>6, <1>7 DEF MarkedIn
<1> QED
  BY <1>6, <1>8 DEF M

\* The stray mark lands in the first field of the first record.
LEMMA StrayBook ==
    ASSUME NEW L \in Seq(LineTypes), NEW n \in Sizes, InRecords(L, n), L # <<>>,
           NEW v \in Text
    PROVE  LET M == [L EXCEPT ![1] = Line(@.id, v)]
               b == BookIn(L, n)
           IN /\ M \in Seq(LineTypes) /\ InRecords(M, n)
              /\ b # <<>> /\ b[1].id = L[1].id
              /\ BookIn(M, n) = [b EXCEPT ![1] = With(@, {0}, v, n)]
<1> DEFINE M == [L EXCEPT ![1] = Line(@.id, v)]
           b == BookIn(L, n)
<1>1. PICK m \in Nat : /\ m = Rows(L, n) /\ Len(L) = n * m /\ DOMAIN L = 1 .. n * m
                       /\ Len(L) \in Nat /\ DOMAIN L = 1 .. Len(L) /\ m # 0
  BY RecordLines DEF InRecords
<1>2. M \in Seq(LineTypes)
  BY StrayType
<1>3. DOMAIN M = DOMAIN L
  OBVIOUS
<1>4. Len(M) = Len(L)
  <2> HIDE DEF M
  <2> QED
    BY <1>1, <1>2, <1>3
<1>5. 1 \in 1 .. m /\ 0 \in 0 .. n - 1 /\ Row(1, n) = 1 /\ Row(1, n) + 0 = 1
  BY <1>1 DEF Sizes, Row
<1>6. ASSUME NEW r \in 1 .. m, NEW d \in 0 .. n - 1
      PROVE  M[Row(r, n) + d] = IF r \in {1} /\ d \in {0} THEN Line(L[Row(r, n) + d].id, v)
                                ELSE L[Row(r, n) + d]
  <2>1. Row(r, n) + d \in DOMAIN L
    BY <1>1, RowArith
  <2>2. Row(r, n) + d = 1 <=> r = 1 /\ d = 0
    <3>1. Row(r, n) + d = Row(1, n) + 0 <=> r = 1 /\ d = 0
      BY <1>1, <1>5, RowsApart
    <3> QED
      BY <1>5, <3>1
  <2> QED
    BY <2>1, <2>2
<1> HIDE DEF M
<1>7. Changed(L, M, n, {1}, {0}, v)
  BY <1>1, <1>4, <1>6 DEF Changed
<1>8. /\ InRecords(M, n)
      /\ BookIn(M, n) = [r \in DOMAIN b |-> IF r \in {1} THEN With(b[r], {0}, v, n) ELSE b[r]]
  BY <1>2, <1>7, ChangedBook
<1>9. /\ DOMAIN b = 1 .. m /\ b[1].id = L[1].id
      /\ b = [r \in 1 .. m |-> Item(L, n, r)] /\ Len(b) = m
  BY <1>1, <1>5, BookItems
<1> HIDE DEF b
<1>10. BookIn(M, n) = [b EXCEPT ![1] = With(@, {0}, v, n)]
  BY <1>5, <1>8, <1>9
<1>11. b # <<>>
  BY <1>1, <1>9
<1> QED
  BY <1>2, <1>8, <1>9, <1>10, <1>11 DEF M, b

\* A switch is found where its lamp is.
LEMMA SwitchFound ==
    ASSUME NEW L \in Seq(LineTypes), InRecords(L, 6), NEW id \in Ids
    PROVE  (\E k \in Heads(L, 6) : k + 3 \in DOMAIN L /\ L[k + 3].id = id + 3)
             <=> HasEntry(BookIn(L, 6), id)
<1>1. 6 \in Sizes /\ 3 \in 0 .. 6 - 1 /\ Len(L) % 6 = 0 /\ id \in Nat
  BY IdsAssumption DEF Sizes, InRecords
<1>2. ASSUME NEW k \in Heads(L, 6), k + 3 \in DOMAIN L, L[k + 3].id = id + 3
      PROVE  HasEntry(BookIn(L, 6), id)
  <2>1. \E r \in 1 .. Rows(L, 6) : k + 3 = Row(r, 6) + 3 /\ L[Row(r, 6)].id = id
    BY <1>1, <1>2, LineOfRecord
  <2> QED
    BY <1>1, <2>1, EntryOfRecord
<1>3. ASSUME HasEntry(BookIn(L, 6), id)
      PROVE  \E k \in Heads(L, 6) : k + 3 \in DOMAIN L /\ L[k + 3].id = id + 3
  <2>1. PICK r \in 1 .. Rows(L, 6) : L[Row(r, 6)].id = id
    BY <1>1, <1>3, EntryOfRecord
  <2>2. L[Row(r, 6) + 3].id = id + 3
    BY <1>1, <2>1 DEF InRecords
  <2>3. Row(r, 6) + 0 \in DOMAIN L /\ Row(r, 6) + 3 \in DOMAIN L /\ Row(r, 6) + 0 = Row(r, 6)
    <3>1. 0 \in 0 .. 6 - 1
      OBVIOUS
    <3> QED
      BY <1>1, <3>1, RecordLines
  <2>4. Row(r, 6) \in Heads(L, 6)
    BY <1>1, <2>3, HeadsAre
  <2> QED
    BY <2>2, <2>3, <2>4
<1> QED
  BY <1>2, <1>3

\* write_switch() changes the last three fields of the lamp with the id.
LEMMA EditBook ==
    ASSUME NEW L \in Seq(LineTypes), InRecords(L, 6), NEW id \in Ids, NEW v \in Text,
           HasEntry(BookIn(L, 6), id)
    PROVE  LET M == EditSwitch(L, id + 3, v)
           IN /\ InRecords(M, 6)
              /\ BookIn(M, 6) = MarkedIn(BookIn(L, 6), id, {3, 4, 5}, v, 6)
<1> DEFINE M == EditSwitch(L, id + 3, v)
           b == BookIn(L, 6)
           R == {r \in 1 .. Rows(L, 6) : L[Row(r, 6)].id = id}
           p == PlaceOf(L, id + 3)
<1>1. 6 \in Sizes /\ 3 \in 0 .. 6 - 1 /\ Len(L) % 6 = 0 /\ id \in Nat
  BY IdsAssumption DEF Sizes, InRecords
<1>2. PICK m \in Nat : m = Rows(L, 6) /\ Len(L) = 6 * m /\ DOMAIN L = 1 .. 6 * m
                       /\ Len(L) \in Nat /\ DOMAIN L = 1 .. Len(L)
  BY <1>1, RecordLines
<1>3. PICK q \in 1 .. m : p = Row(q, 6) + 3 /\ L[Row(q, 6)].id = id
  <2>1. \E x \in DOMAIN L : L[x].id = id + 3
    BY SwitchFound
  <2>2. p \in DOMAIN L /\ L[p].id = id + 3
    BY <2>1 DEF PlaceOf
  <2> HIDE DEF p
  <2>3. \A x \in DOMAIN L : L[x].id = id + 3 =>
          \E q \in 1 .. Rows(L, 6) : x = Row(q, 6) + 3 /\ L[Row(q, 6)].id = id
    BY <1>1, LineOfRecord, SMTT(60)
  <2> QED
    BY <1>2, <2>2, <2>3
<1>4. M \in Seq(LineTypes)
  <2>1. id + 3 \in Nat
    BY <1>1
  <2> QED
    BY <2>1, EditType
<1>5. M = [k \in DOMAIN L |-> IF k - p \in 0 .. 2 THEN Line(id + 3 + (k - p), v) ELSE L[k]]
  BY DEF EditSwitch
<1> HIDE DEF M, p
<1>6. Len(M) = Len(L)
  BY <1>2, <1>4, <1>5
<1>7. ASSUME NEW r \in 1 .. m, NEW d \in 0 .. 6 - 1
      PROVE  M[Row(r, 6) + d] = IF r \in R /\ d \in {3, 4, 5} THEN Line(L[Row(r, 6) + d].id, v)
                                ELSE L[Row(r, 6) + d]
  <2> DEFINE k == Row(r, 6) + d
  <2>1. k \in DOMAIN L /\ k \in Nat /\ Row(q, 6) \in Nat
    BY <1>2 DEF Row
  <2>2. M[k] = IF k - p \in 0 .. 2 THEN Line(id + 3 + (k - p), v) ELSE L[k]
    BY <1>5, <2>1
  <2>3. k - p \in 0 .. 2 <=> r = q /\ d \in {3, 4, 5}
    BY <1>3 DEF Row
  <2>4. r \in R <=> r = q
    BY <1>2, <1>3 DEF InRecords
  <2>5. ASSUME r = q PROVE id + 3 + (k - p) = L[k].id
    <3>1. L[k].id = id + d
      BY <1>2, <1>3, <2>5 DEF InRecords
    <3>2. k - p = d - 3
      BY <1>3, <2>1, <2>5
    <3> HIDE DEF k
    <3> QED
      BY <1>1, <3>1, <3>2
  <2> HIDE DEF k, R
  <2>6. M[k] = IF r \in R /\ d \in {3, 4, 5} THEN Line(L[k].id, v) ELSE L[k]
    BY <2>2, <2>3, <2>4, <2>5
  <2> QED
    BY <2>6 DEF k
<1> HIDE DEF R
<1>8. Changed(L, M, 6, R, {3, 4, 5}, v)
  BY <1>2, <1>6, <1>7 DEF Changed
<1>9. /\ InRecords(M, 6)
      /\ BookIn(M, 6) = [r \in DOMAIN b |-> IF r \in R THEN With(b[r], {3, 4, 5}, v, 6) ELSE b[r]]
  BY <1>1, <1>4, <1>8, ChangedBook
<1>10. \A r \in DOMAIN b : r \in R <=> b[r].id = id
  BY <1>1, BookItems DEF R
<1> HIDE DEF b
<1>11. BookIn(M, 6) = MarkedIn(b, id, {3, 4, 5}, v, 6)
  BY <1>9, <1>10 DEF MarkedIn
<1> QED
  BY <1>9, <1>11 DEF M, b

\* A whole record behind the others adds an entry.
LEMMA AppendBook ==
    ASSUME NEW L \in Seq(LineTypes), NEW n \in Sizes, InRecords(L, n),
           NEW id \in Ids, ~HasEntry(BookIn(L, n), id), NEW vals \in [0 .. n - 1 -> Text]
    PROVE  LET M == L \o Whole(id, vals, n)
           IN /\ M \in Seq(LineTypes) /\ InRecords(M, n)
              /\ BookIn(M, n) = Append(BookIn(L, n), [id |-> id, vals |-> vals])
<1> DEFINE W == Whole(id, vals, n)
           M == L \o W
           b == BookIn(L, n)
<1>1. PICK m \in Nat : m = Rows(L, n) /\ Len(L) = n * m
  BY RecordLines DEF InRecords
<1>2. PICK len \in Nat : len = Len(L) /\ len = n * m /\ Row(m + 1, n) = len + 1
  <2>1. n * m \in Nat /\ Row(m + 1, n) = n * m + 1
    BY <1>1, RowArith
  <2> QED
    BY <1>1, <2>1
<1>3. n \in Nat \ {0} /\ id \in Nat /\ 0 \in 0 .. n - 1
  BY IdsAssumption DEF Sizes
<1>4. /\ W \in Seq(LineTypes) /\ Len(W) = n
      /\ \A d \in 0 .. n - 1 : W[d + 1].id = id + d /\ W[d + 1].val = vals[d]
  BY <1>3, WholeFacts
<1> HIDE DEF W
<1>5. /\ M \in Seq(LineTypes) /\ Len(M) = len + n
      /\ \A k \in 1 .. len + n : M[k] = IF k <= len THEN L[k] ELSE W[k - len]
  <2>1. /\ M \in Seq(LineTypes) /\ Len(M) = Len(L) + Len(W)
        /\ \A k \in 1 .. Len(L) + Len(W) :
              M[k] = IF k <= Len(L) THEN L[k] ELSE W[k - Len(L)]
    BY <1>4, ConcatProperties
  <2> HIDE DEF M
  <2> QED
    BY <1>2, <1>4, <2>1
<1> HIDE DEF M
<1>6. Rows(M, n) = m + 1 /\ Len(M) % n = 0
  <2>1. n * (m + 1) = n * m + n
    BY <1>1, RowArith
  <2>2. (n * (m + 1)) % n = 0 /\ (n * (m + 1)) \div n = m + 1
    <3>1. PICK k \in Nat : k = m + 1
      BY <1>1
    <3>2. (n * k) % n = 0 /\ (n * k) \div n = k
      BY <3>1, RowArith
    <3> QED
      BY <3>1, <3>2
  <2>3. Len(M) = n * (m + 1)
    BY <1>2, <1>5, <2>1
  <2> QED
    BY <2>2, <2>3 DEF Rows
<1>7. ASSUME NEW r \in 1 .. m, NEW d \in 0 .. n - 1
      PROVE  M[Row(r, n) + d] = L[Row(r, n) + d]
  <2>1. Row(r, n) + d \in 1 .. n * m
    BY <1>1, RowArith
  <2>2. Row(r, n) + d \in 1 .. len
    BY <1>2, <2>1
  <2>3. \A k \in 1 .. len : k \in 1 .. len + n /\ k <= len
    BY <1>2, <1>3
  <2> QED
    BY <1>5, <2>2, <2>3
<1>8. ASSUME NEW d \in 0 .. n - 1
      PROVE  M[Row(m + 1, n) + d].id = id + d /\ M[Row(m + 1, n) + d].val = vals[d]
  <2>1. /\ len + 1 + d \in 1 .. len + n /\ ~(len + 1 + d <= len)
        /\ (len + 1 + d) - len = d + 1
    BY <1>2, <1>3
  <2>2. M[len + 1 + d] = W[d + 1]
    BY <1>5, <2>1
  <2> QED
    BY <1>2, <1>4, <2>2
<1>9. \A r \in 1 .. m + 1 : r \in 1 .. m \/ r = m + 1
  OBVIOUS
<1>10. /\ \A r \in 1 .. m : M[Row(r, n)].id = L[Row(r, n)].id
       /\ M[Row(m + 1, n)].id = id
  <2>1. /\ \A r \in 1 .. m : Row(r, n) + 0 = Row(r, n)
        /\ Row(m + 1, n) + 0 = Row(m + 1, n)
    <3>1. \A r \in 1 .. m : Row(r, n) \in Nat
      BY <1>1, RowArith
    <3> HIDE DEF Row
    <3> QED
      BY <1>2, <3>1
  <2> QED
    BY <1>3, <1>7, <1>8, <2>1
<1>11. /\ \A r \in 1 .. m : L[Row(r, n)].id \in Ids /\ L[Row(r, n)].id # id
       /\ \A r, s \in 1 .. m : L[Row(r, n)].id = L[Row(s, n)].id => r = s
       /\ \A r \in 1 .. m, d \in 0 .. n - 1 : L[Row(r, n) + d].id = L[Row(r, n)].id + d
  <2>1. \A r \in 1 .. m : L[Row(r, n)].id # id
    BY <1>1, EntryOfRecord
  <2> QED
    BY <1>1, <2>1 DEF InRecords
<1>12. InRecords(M, n)
  <2>1. \A r \in 1 .. m + 1 : M[Row(r, n)].id \in Ids
    BY <1>9, <1>10, <1>11
  <2>2. \A r, s \in 1 .. m + 1 : M[Row(r, n)].id = M[Row(s, n)].id => r = s
    BY <1>9, <1>10, <1>11
  <2>3. \A r \in 1 .. m + 1, d \in 0 .. n - 1 : M[Row(r, n) + d].id = M[Row(r, n)].id + d
    BY <1>7, <1>8, <1>9, <1>10, <1>11, SMTT(60)
  <2> QED
    BY <1>6, <2>1, <2>2, <2>3 DEF InRecords
<1>13. /\ BookIn(M, n) = [r \in 1 .. m + 1 |-> Item(M, n, r)]
       /\ b = [r \in 1 .. m |-> Item(L, n, r)]
  BY <1>1, <1>5, <1>6, <1>12, BookItems
<1>14. ASSUME NEW r \in 1 .. m PROVE Item(M, n, r) = Item(L, n, r)
  <2>1. [d \in 0 .. n - 1 |-> M[Row(r, n) + d].val] = [d \in 0 .. n - 1 |-> L[Row(r, n) + d].val]
    BY <1>7
  <2> QED
    BY <1>10, <2>1 DEF Item
<1>15. Item(M, n, m + 1) = [id |-> id, vals |-> vals]
  <2>1. [d \in 0 .. n - 1 |-> M[Row(m + 1, n) + d].val] = vals
    BY <1>8
  <2> QED
    BY <1>10, <2>1 DEF Item
<1> HIDE DEF b
<1>16. BookIn(M, n) = Append(b, [id |-> id, vals |-> vals])
  BY <1>13, <1>14, <1>15
<1> QED
  BY <1>5, <1>12, <1>16 DEF M, W, b

LEMMA EmptyBook ==
    ASSUME NEW n \in Sizes
    PROVE  <<>> \in Seq(LineTypes) /\ InRecords(<<>>, n) /\ BookIn(<<>>, n) = <<>>
<1>1. <<>> \in Seq(LineTypes) /\ Len(<<>>) = 0
  BY EmptySeq
<1>2. 0 % n = 0 /\ 0 \div n = 0
  BY DEF Sizes
<1>3. Rows(<<>>, n) = 0 /\ Len(<<>>) % n = 0
  BY <1>1, <1>2 DEF Rows
<1>4. \A r \in 1 .. Rows(<<>>, n) : FALSE
  BY <1>3
<1>5. InRecords(<<>>, n)
  BY <1>3, <1>4 DEF InRecords
<1>6. BookIn(<<>>, n) = [r \in 1 .. 0 |-> Item(<<>>, n, r)]
  BY <1>1, <1>3, <1>5, BookItems
<1> QED
  BY <1>1, <1>5, <1>6

\* An id that some line starts with is that of a record.
LEMMA StartsRecord ==
    ASSUME NEW L \in Seq(LineTypes), NEW n \in Sizes, InRecords(L, n), NEW id \in Ids
    PROVE  StartsWith(L, id) <=> HasEntry(BookIn(L, n), id)
<1>1. 0 \in 0 .. n - 1 /\ id + 0 = id
  BY IdsAssumption DEF Sizes
<1>2. ASSUME NEW p \in DOMAIN L, L[p].id = id
      PROVE  \E r \in 1 .. Rows(L, n) : L[Row(r, n)].id = id
  BY <1>1, <1>2, LineOfRecord
<1>3. ASSUME NEW r \in 1 .. Rows(L, n), L[Row(r, n)].id = id
      PROVE  \E p \in DOMAIN L : L[p].id = id
  <2>1. Row(r, n) \in DOMAIN L
    BY <1>1, RecordLines DEF InRecords
  <2> QED
    BY <1>3, <2>1
<1> QED
  BY <1>2, <1>3, EntryOfRecord DEF StartsWith

-----------------------------------------------------------------------------
(* Readers *)

LookupIn(b, id, D) ==
    IF HasEntry(b, id) THEN <<"fields", [d \in D |-> b[PlaceIn(b, id)].vals[d]]>>
    ELSE <<"unknown">>
ListingOf(b, D) ==
    IF b = <<>> THEN <<"unknown">>
    ELSE <<"list", [r \in DOMAIN b |-> <<b[r].id, [d \in D |-> b[r].vals[d]]>>]>>

TellAnswer(n, id, D) ==
    LET has == {k \in Heads(lines, n) : lines[k].id = id}
    IN IF Readable(lines, n) /\ has # {}
       THEN <<"fields", Record(CHOOSE k \in has : TRUE, D)>> ELSE <<"unknown">>
ListAnswer(n, D) ==
    IF Readable(lines, n)
    THEN <<"list", [r \in 1 .. Rows(lines, n) |->
                     <<lines[Row(r, n)].id, Record(Row(r, n), D)>>]>>
    ELSE <<"unknown">>

\* What the readers report of whole records is what the book has.
LEMMA TellsEntry ==
    ASSUME lines \in Seq(LineTypes), NEW n \in Sizes, InRecords(lines, n),
           NEW id, NEW D \in SUBSET (0 .. n - 1)
    PROVE  TellAnswer(n, id, D) = LookupIn(BookIn(lines, n), id, D)
<1> DEFINE has == {k \in Heads(lines, n) : lines[k].id = id}
           b   == BookIn(lines, n)
           q   == PlaceIn(b, id)
<1>1. has = IF HasEntry(b, id) THEN {Row(q, n)} ELSE {}
  BY HeadFound
<1>2. TellAnswer(n, id, D) = IF Readable(lines, n) /\ has # {}
                             THEN <<"fields", Record(CHOOSE k \in has : TRUE, D)>>
                             ELSE <<"unknown">>
  BY DEF TellAnswer
<1>3. CASE HasEntry(b, id)
  <2>1. q \in 1 .. Rows(lines, n)
    BY <1>3, EntryOfRecord
  <2>2. Readable(lines, n)
    <3>1. Rows(lines, n) # 0 /\ Len(lines) % n = 0
      BY <2>1 DEF InRecords
    <3>2. lines # <<>>
      BY <3>1, RecordLines
    <3> QED
      BY <3>1, <3>2 DEF Readable
  <2>3. \A d \in D : b[q].vals[d] = lines[Row(q, n) + d].val
    BY <2>1, BookItems
  <2> HIDE DEF has, b, q
  <2>4. has = {Row(q, n)} /\ (CHOOSE k \in has : TRUE) = Row(q, n)
    BY <1>1, <1>3
  <2>5. Record(Row(q, n), D) = [d \in D |-> b[q].vals[d]]
    BY <2>3 DEF Record
  <2>6. TellAnswer(n, id, D) = <<"fields", [d \in D |-> b[q].vals[d]]>>
    BY <1>2, <2>2, <2>4, <2>5
  <2> QED
    BY <1>3, <2>6 DEF LookupIn, b, q
<1>4. CASE ~HasEntry(b, id)
  <2> HIDE DEF has, b, q
  <2>1. TellAnswer(n, id, D) = <<"unknown">>
    BY <1>1, <1>2, <1>4
  <2> QED
    BY <1>4, <2>1 DEF LookupIn, b
<1> QED
  BY <1>3, <1>4

\* On whole records 01 answers like the readers that ask for them.
LEMMA PlaysEntry ==
    ASSUME lines \in Seq(LineTypes), InRecords(lines, 6), NEW id
    PROVE  Played(id) = TellAnswer(6, id, {1, 3})
<1> DEFINE has == {k \in Heads(lines, 6) : lines[k].id = id}
           b   == BookIn(lines, 6)
           q   == PlaceIn(b, id)
           h   == Row(q, 6)
           first == CHOOSE k \in has : \A p \in has : k <= p
           field(d, before) == IF first + d \in DOMAIN lines THEN lines[first + d].val
                               ELSE before
           path == field(3, <<id>>)
<1>1. 6 \in Sizes /\ Len(lines) % 6 = 0 /\ Len(lines) \in Nat
  BY DEF Sizes, InRecords
<1>2. has = IF HasEntry(b, id) THEN {h} ELSE {}
  BY <1>1, HeadFound
<1>3. Played(id) =
        IF Len(lines) >= 6 /\ has # {}
        THEN <<"fields", [d \in {1, 3} |-> IF d = 3 THEN path ELSE field(1, path)]>>
        ELSE IF Len(lines) < 6 \/ Len(lines) % 6 = 0 THEN <<"unknown">> ELSE <<"nothing">>
  BY DEF Played
<1>4. TellAnswer(6, id, {1, 3}) =
        IF Readable(lines, 6) /\ has # {}
        THEN <<"fields", Record(CHOOSE k \in has : TRUE, {1, 3})>> ELSE <<"unknown">>
  BY DEF TellAnswer
<1>5. CASE HasEntry(b, id)
  <2>1. q \in 1 .. Rows(lines, 6)
    BY <1>1, <1>5, EntryOfRecord
  <2>2. /\ h \in Nat \ {0} /\ \A d \in 0 .. 6 - 1 : h + d \in DOMAIN lines
        /\ DOMAIN lines = 1 .. Len(lines)
    BY <1>1, <2>1, RecordLines
  <2> HIDE DEF h
  <2>3. h + 1 \in DOMAIN lines /\ h + 3 \in DOMAIN lines /\ h + 5 \in DOMAIN lines
    BY <2>2
  <2>4. Len(lines) >= 6 /\ Readable(lines, 6)
    BY <1>1, <2>2, <2>3 DEF Readable
  <2> HIDE DEF has, b, q
  <2>5. has # {} /\ (CHOOSE k \in has : TRUE) = h
    BY <1>2, <1>5
  <2>6. first = h
    BY <1>2, <1>5, <2>2
  <2> HIDE DEF first
  <2>7. path = lines[h + 3].val /\ field(1, path) = lines[h + 1].val
    BY <2>3, <2>6
  <2> HIDE DEF path, field
  <2>8. [d \in {1, 3} |-> IF d = 3 THEN path ELSE field(1, path)] = Record(h, {1, 3})
    BY <2>7 DEF Record
  <2> QED
    BY <1>3, <1>4, <2>4, <2>5, <2>8
<1>6. CASE ~HasEntry(b, id)
  <2> HIDE DEF has, b, path, field
  <2> QED
    BY <1>1, <1>2, <1>3, <1>4, <1>6
<1> QED
  BY <1>5, <1>6

LEMMA ListsEntries ==
    ASSUME lines \in Seq(LineTypes), NEW n \in Sizes, InRecords(lines, n),
           NEW D \in SUBSET (0 .. n - 1)
    PROVE  ListAnswer(n, D) = ListingOf(BookIn(lines, n), D)
<1> DEFINE b == BookIn(lines, n)
           m == Rows(lines, n)
<1>1. Len(lines) % n = 0 /\ m \in Nat /\ (lines = <<>> <=> m = 0)
  BY RecordLines DEF InRecords
<1>2. /\ DOMAIN b = 1 .. m /\ b = [r \in 1 .. m |-> Item(lines, n, r)]
      /\ \A r \in 1 .. m : /\ b[r].id = lines[Row(r, n)].id
                           /\ \A d \in 0 .. n - 1 : b[r].vals[d] = lines[Row(r, n) + d].val
  BY BookItems
<1> HIDE DEF b, m
<1>3. Readable(lines, n) <=> b # <<>>
  <2>1. b = <<>> <=> m = 0
    BY <1>1, <1>2
  <2> QED
    BY <1>1, <2>1 DEF Readable
<1>4. ASSUME NEW r \in 1 .. m
      PROVE  <<lines[Row(r, n)].id, Record(Row(r, n), D)>>
               = <<b[r].id, [d \in D |-> b[r].vals[d]]>>
  <2>1. \A d \in D : d \in 0 .. n - 1
    OBVIOUS
  <2>2. Record(Row(r, n), D) = [d \in D |-> b[r].vals[d]]
    BY <1>2, <2>1 DEF Record
  <2> QED
    BY <1>2, <2>2
<1>5. [r \in 1 .. m |-> <<lines[Row(r, n)].id, Record(Row(r, n), D)>>]
        = [r \in DOMAIN b |-> <<b[r].id, [d \in D |-> b[r].vals[d]]>>]
  BY <1>2, <1>4
<1>6. ListAnswer(n, D) = ListingOf(b, D)
  BY <1>3, <1>5 DEF ListAnswer, ListingOf, m
<1> QED
  BY <1>6 DEF b

-----------------------------------------------------------------------------
(* The books of the three files *)

SongBook   == IF spoilt THEN <<>> ELSE Kept("songs", BookOf(6))
SongAnswer == IF spoilt THEN <<"none">> ELSE Answer("songs")
SongVars   == <<SongBook, ~spoilt, SongAnswer>>
ModeBook   == Kept("modes", BookOf(7))
ModeVars   == <<ModeBook, TRUE, Answer("modes")>>
LampBook   == Kept("lamps", BookOf(6))
LampVars   == <<LampBook, TRUE, Answer("lamps")>>

LEMMA BooksOfFile ==
    /\ ~spoilt /\ kind = "songs" => SongBook = BookIn(Current, 6) /\ SongAnswer = out
    /\ kind = "modes" => ModeBook = BookIn(Current, 7) /\ Answer("modes") = out
    /\ kind = "lamps" => LampBook = BookIn(Current, 6) /\ Answer("lamps") = out
<1>1. BookOf(6) = BookIn(Current, 6) /\ BookOf(7) = BookIn(Current, 7)
  BY DEF BookOf, BookIn, Rows, Row
<1> QED
  BY <1>1 DEF SongBook, SongAnswer, ModeBook, LampBook, Kept, Answer

LEMMA BooksAfter ==
    /\ ~spoilt' /\ kind' = "songs" => SongBook' = BookIn(Current', 6) /\ SongAnswer' = out'
    /\ kind' = "modes" => ModeBook' = BookIn(Current', 7) /\ Answer("modes")' = out'
    /\ kind' = "lamps" => LampBook' = BookIn(Current', 6) /\ Answer("lamps")' = out'
<1>1. BookOf(6)' = BookIn(Current', 6) /\ BookOf(7)' = BookIn(Current', 7)
  BY DEF BookOf, BookIn, Rows, Row
<1> QED
  BY <1>1 DEF SongBook, SongAnswer, ModeBook, LampBook, Kept, Answer

\* The abstract operators, in terms of these books.
LEMMA SongOperators ==
    /\ \A id : (Songs!Has(id) <=> HasEntry(SongBook, id)) /\ Songs!At(id) = PlaceIn(SongBook, id)
    /\ \A e, D, v : Songs!Updated(e, D, v) = With(e, D, v, 6)
    /\ \A b, id, v : Songs!Switched(b, id, v) = MarkedIn(b, id, {4}, v, 6)
    /\ \A id, D : Songs!Lookup(id, D) = LookupIn(SongBook, id, D)
    /\ \A D : Songs!Listing(D) = ListingOf(SongBook, D)
<1>1. \A id : (Songs!Has(id) <=> HasEntry(SongBook, id)) /\ Songs!At(id) = PlaceIn(SongBook, id)
  BY DEF Songs!Has, Songs!At, HasEntry, PlaceIn, SongBook
<1>2. \A e, D, v : Songs!Updated(e, D, v) = With(e, D, v, 6)
  BY DEF Songs!Updated, Songs!Fields, With
<1>3. \A b, id, v : Songs!Switched(b, id, v) = MarkedIn(b, id, {4}, v, 6)
  <2>1. Place["songs"] = 4
    BY DEF Place
  <2> QED
    BY <1>2, <2>1 DEF Songs!Switched, MarkedIn
<1>4. \A id, D : Songs!Lookup(id, D) = LookupIn(SongBook, id, D)
  BY <1>1 DEF Songs!Lookup, Songs!Unknown, LookupIn, SongBook
<1>5. \A D : Songs!Listing(D) = ListingOf(SongBook, D)
  BY DEF Songs!Listing, Songs!Unknown, ListingOf, SongBook
<1> QED
  BY <1>1, <1>2, <1>3, <1>4, <1>5

LEMMA ModeOperators ==
    /\ \A id : (Modes!Has(id) <=> HasEntry(ModeBook, id)) /\ Modes!At(id) = PlaceIn(ModeBook, id)
    /\ \A e, D, v : Modes!Updated(e, D, v) = With(e, D, v, 7)
    /\ \A b, id, v : Modes!Switched(b, id, v) = MarkedIn(b, id, {6}, v, 7)
    /\ \A id, D : Modes!Lookup(id, D) = LookupIn(ModeBook, id, D)
    /\ \A D : Modes!Listing(D) = ListingOf(ModeBook, D)
<1>1. \A id : (Modes!Has(id) <=> HasEntry(ModeBook, id)) /\ Modes!At(id) = PlaceIn(ModeBook, id)
  BY DEF Modes!Has, Modes!At, HasEntry, PlaceIn, ModeBook
<1>2. \A e, D, v : Modes!Updated(e, D, v) = With(e, D, v, 7)
  BY DEF Modes!Updated, Modes!Fields, With
<1>3. \A b, id, v : Modes!Switched(b, id, v) = MarkedIn(b, id, {6}, v, 7)
  <2>1. Place["modes"] = 6
    BY DEF Place
  <2> QED
    BY <1>2, <2>1 DEF Modes!Switched, MarkedIn
<1>4. \A id, D : Modes!Lookup(id, D) = LookupIn(ModeBook, id, D)
  BY <1>1 DEF Modes!Lookup, Modes!Unknown, LookupIn, ModeBook
<1>5. \A D : Modes!Listing(D) = ListingOf(ModeBook, D)
  BY DEF Modes!Listing, Modes!Unknown, ListingOf, ModeBook
<1> QED
  BY <1>1, <1>2, <1>3, <1>4, <1>5

LEMMA LampOperators ==
    /\ \A id : (Lamps!Has(id) <=> HasEntry(LampBook, id)) /\ Lamps!At(id) = PlaceIn(LampBook, id)
    /\ \A e, D, v : Lamps!Updated(e, D, v) = With(e, D, v, 6)
    /\ \A id, v : Lamps!Fresh(id, v) =
         [id |-> id, vals |-> [d \in Fields |-> IF d \in {3, 4, 5} THEN v ELSE Unset]]
    /\ \A D : Lamps!Listing(D) = ListingOf(LampBook, D)
<1>1. \A id : (Lamps!Has(id) <=> HasEntry(LampBook, id)) /\ Lamps!At(id) = PlaceIn(LampBook, id)
  BY DEF Lamps!Has, Lamps!At, HasEntry, PlaceIn, LampBook
<1>2. \A e, D, v : Lamps!Updated(e, D, v) = With(e, D, v, 6)
  BY DEF Lamps!Updated, Lamps!Fields, With
<1>3. \A id, v : Lamps!Fresh(id, v) =
         [id |-> id, vals |-> [d \in Fields |-> IF d \in {3, 4, 5} THEN v ELSE Unset]]
  <2>1. 0 .. (6 - 1) = Fields
    BY DEF Fields
  <2> QED
    BY <2>1 DEF Lamps!Fresh, Lamps!Fields
<1>4. \A D : Lamps!Listing(D) = ListingOf(LampBook, D)
  BY DEF Lamps!Listing, Lamps!Unknown, ListingOf, LampBook
<1> QED
  BY <1>1, <1>2, <1>3, <1>4

-----------------------------------------------------------------------------
(* The invariant *)

\* Until 03 has spoilt the songs, the file, or the contents about to be written,
\* is whole records; a file that is being written is empty; lamps are parsed into
\* the file of lamps only, and nothing has been answered then.
DeviceInv ==
    /\ Types /\ InstallInv
    /\ ~spoilt => InRecords(Current, Size[kind])
    /\ spoilt => kind = "songs"
    /\ pc \in {"write", "lamp"} => lines = <<>>
    /\ pc \in {"parse", "lamp"} => kind = "lamps" /\ sent # {} /\ out = <<"none">>

LEMMA Served ==
    ASSUME DeviceInv, NEW n \in Names, Serving(n), ~spoilt
    PROVE  /\ kind = n /\ pc = "wait" /\ Current = lines /\ lines \in Seq(LineTypes)
           /\ InRecords(lines, Size[n]) /\ Size[n] \in Sizes
<1>1. kind = n /\ pc = "wait" /\ Current = lines
  BY DEF Serving, Current
<1>2. Size[n] \in Sizes
  BY DEF Size, Names, Sizes
<1> QED
  BY <1>1, <1>2 DEF DeviceInv, Types

LEMMA Rewritten ==
    ASSUME NEW L, NEW answer, Rewrite(L, answer), there
    PROVE  /\ Current' = L /\ out' = answer /\ kind' = kind /\ there' = there
           /\ lines' = <<>> /\ pc' = "write"
BY DEF Rewrite, Current

LEMMA Died ==
    ASSUME pc = "wait", NEW L, NEW answer, Rewrite(L, answer), ~there
    PROVE  UNCHANGED <<kind, there, lines, Current, out>> /\ pc' = "dead"
BY DEF Rewrite, Current

LEMMA Said ==
    ASSUME NEW answer, Say(answer)
    PROVE  UNCHANGED <<kind, there, lines, pc, Current, spoilt, sent>> /\ out' = answer
BY DEF Say, Current

LEMMA SizesOfFiles ==
    /\ Size["songs"] = 6 /\ Size["modes"] = 7 /\ Size["lamps"] = 6
    /\ Place["songs"] = 4 /\ Place["modes"] = 6
    /\ 6 \in Sizes /\ 7 \in Sizes /\ {"songs", "modes", "lamps"} = Names
BY DEF Size, Place, Sizes, Names

-----------------------------------------------------------------------------
(* The steps of the songs *)

\* 04 and 05 switch the song, and say so if there is none.
LEMMA LikeStep ==
    ASSUME DeviceInv, ~spoilt, there, NEW id \in Ids, NEW m \in Marks, MusicLike(id, m)
    PROVE  Songs!Switch(id, m) /\ InRecords(Current', 6)
<1> DEFINE answer == IF StartsWith(lines, id) THEN <<"ok", id, m>> ELSE <<"refused", id>>
           M == Marked(lines, id, 4, m)
<1>1. /\ kind = "songs" /\ Current = lines /\ lines \in Seq(LineTypes) /\ InRecords(lines, 6)
  BY Served, SizesOfFiles DEF MusicLike
<1>2. Rewrite(M, answer) /\ spoilt' = spoilt
  BY SizesOfFiles DEF MusicLike
<1> HIDE DEF answer, M
<1>3. Current' = M /\ out' = answer /\ kind' = kind
  BY <1>2, Rewritten
<1>4. InRecords(M, 6) /\ BookIn(M, 6) = MarkedIn(BookIn(lines, 6), id, {4}, m, 6)
  <2>1. 4 \in 1 .. 6 - 1 /\ 6 \in Sizes /\ m \in Text
    BY SizesOfFiles, Constants
  <2> QED
    BY <1>1, <2>1, MarkedBook DEF M
<1>5. SongBook = BookIn(lines, 6) /\ SongBook' = BookIn(M, 6) /\ SongAnswer' = answer
  BY <1>1, <1>2, <1>3, BooksOfFile, BooksAfter
<1>6. StartsWith(lines, id) <=> Songs!Has(id)
  <2>1. StartsWith(lines, id) <=> HasEntry(BookIn(lines, 6), id)
    BY <1>1, SizesOfFiles, StartsRecord
  <2> QED
    BY <1>5, <2>1, SongOperators
<1>7. answer = Songs!Said(id, m)
  BY <1>6 DEF answer, Songs!Said
<1>8. SongBook' = Songs!Switched(SongBook, id, m)
  BY <1>4, <1>5, SongOperators
<1>9. Songs!Switch(id, m)
  BY <1>2, <1>5, <1>7, <1>8 DEF Songs!Switch, SongBook, SongAnswer
<1> QED
  BY <1>3, <1>4, <1>9

\* 03 changes the song it names, or spoils the list.
LEMMA ChooseStep ==
    ASSUME DeviceInv, ~spoilt, there, NEW id \in Ids, NEW v \in Texts, MusicChoose(id, v)
    PROVE  /\ Songs!Set(id, v) \/ Songs!Spoil
           /\ ~spoilt' => InRecords(Current', 6)
<1>1. /\ kind = "songs" /\ Current = lines /\ lines \in Seq(LineTypes) /\ InRecords(lines, 6)
  BY Served, SizesOfFiles DEF MusicChoose
<1>2. StartsWith(lines, id) <=> HasEntry(BookIn(lines, 6), id)
  BY <1>1, SizesOfFiles, StartsRecord
<1>3. CASE ~StartsWith(lines, id)
  <2>1. spoilt' = TRUE
    BY <1>3 DEF MusicChoose
  <2> QED
    BY <2>1 DEF Songs!Spoil
<1>4. CASE StartsWith(lines, id)
  <2> DEFINE M == Marked(lines, id, 2, v)
  <2>1. Rewrite(M, <<"ok", id, v>>) /\ spoilt' = spoilt
    <3>1. Rewrite(M, <<"ok", id, v>>)
      BY <1>4 DEF MusicChoose, Choice
    <3>2. spoilt' = FALSE /\ spoilt = FALSE
      BY <1>4 DEF MusicChoose, DeviceInv, Types
    <3> QED
      BY <3>1, <3>2
  <2> HIDE DEF M
  <2>2. Current' = M /\ out' = <<"ok", id, v>> /\ kind' = kind
    BY <2>1, Rewritten
  <2>3. InRecords(M, 6) /\ BookIn(M, 6) = MarkedIn(BookIn(lines, 6), id, {2}, v, 6)
    <3>1. 2 \in 1 .. 6 - 1 /\ 6 \in Sizes /\ v \in Text
      BY SizesOfFiles, Constants
    <3> QED
      BY <1>1, <3>1, MarkedBook DEF M
  <2>4. SongBook = BookIn(lines, 6) /\ SongBook' = BookIn(M, 6) /\ SongAnswer' = <<"ok", id, v>>
    BY <1>1, <2>1, <2>2, BooksOfFile, BooksAfter
  <2>5. Songs!Has(id)
    BY <1>2, <1>4, <2>4, SongOperators
  <2>6. SongBook' = [SongBook EXCEPT ![Songs!At(id)] = Songs!Updated(@, {2}, v)]
    <3>1. [SongBook EXCEPT ![PlaceIn(SongBook, id)] = With(@, {2}, v, 6)] = SongBook'
      BY <1>1, <1>2, <1>4, <2>3, <2>4, SizesOfFiles, WrittenOnce
    <3> QED
      BY <3>1, SongOperators
  <2>7. Songs!Set(id, v)
    BY <2>1, <2>4, <2>5, <2>6 DEF Songs!Set, SongBook, SongAnswer, Choice
  <2> QED
    BY <2>2, <2>3, <2>7
<1> QED
  BY <1>3, <1>4

\* 00 and 01 report the songs.
LEMMA SongsReadStep ==
    ASSUME DeviceInv, ~spoilt, MusicFind \/ \E id \in Ids : MusicPlay(id)
    PROVE  Songs!Read /\ Current' = Current
<1>1. Serving("songs")
  BY DEF MusicFind, MusicPlay, List, Tell
<1>2. /\ kind = "songs" /\ Current = lines /\ lines \in Seq(LineTypes) /\ InRecords(lines, 6)
  BY <1>1, Served, SizesOfFiles
<1>3. SongBook = BookIn(lines, 6)
  BY <1>2, BooksOfFile
<1>4. ASSUME NEW answer, Say(answer),
             \/ \E D \in {{0, 2, 4}, {1, 3}} : answer = ListingOf(SongBook, D)
             \/ \E D \in {{0, 2, 4}, {1, 3}}, id \in Ids : answer = LookupIn(SongBook, id, D)
      PROVE  Songs!Read /\ Current' = Current
  <2>1. UNCHANGED <<kind, spoilt, Current>> /\ out' = answer
    BY <1>4, Said
  <2>2. SongBook' = SongBook /\ SongAnswer' = answer
    BY <1>2, <2>1, BooksOfFile, BooksAfter
  <2>3. \/ \E D \in {{0, 2, 4}, {1, 3}} : answer = Songs!Listing(D)
        \/ \E D \in {{0, 2, 4}, {1, 3}}, id \in Ids : answer = Songs!Lookup(id, D)
    BY <1>4, SongOperators
  <2> QED
    BY <2>1, <2>2, <2>3 DEF Songs!Read, SongBook, SongAnswer
<1>5. CASE MusicFind
  <2>1. Say(ListAnswer(6, {0, 2, 4}))
    BY <1>5, SizesOfFiles DEF MusicFind, List, ListAnswer, Rows, Row
  <2>2. {0, 2, 4} \in SUBSET (0 .. 6 - 1)
    OBVIOUS
  <2>3. ListAnswer(6, {0, 2, 4}) = ListingOf(SongBook, {0, 2, 4})
    BY <1>2, <1>3, <2>2, SizesOfFiles, ListsEntries
  <2> QED
    BY <1>4, <2>1, <2>3
<1>6. ASSUME NEW id \in Ids, MusicPlay(id) PROVE Songs!Read /\ Current' = Current
  <2>1. Say(TellAnswer(6, id, {1, 3}))
    BY <1>2, <1>6, PlaysEntry DEF MusicPlay
  <2>2. {1, 3} \in SUBSET (0 .. 6 - 1)
    OBVIOUS
  <2>3. TellAnswer(6, id, {1, 3}) = LookupIn(SongBook, id, {1, 3})
    BY <1>2, <1>3, <2>2, SizesOfFiles, TellsEntry
  <2> QED
    BY <1>4, <2>1, <2>3
<1> QED
  BY <1>5, <1>6

-----------------------------------------------------------------------------
(* The steps of the light modes *)

\* 13, 15 and 16 switch the mode, and may also mark the first.
LEMMA UseStep ==
    ASSUME DeviceInv, ~spoilt, there, NEW id \in Ids, NEW m \in Marks, LightUse(id, m)
    PROVE  /\ Modes!Switch(id, m) \/ Modes!Scribble(id, m)
           /\ InRecords(Current', 7)
<1> DEFINE strayed(stray) == stray /\ lines # <<>> /\ lines[1].id # id
           scribbled(stray) ==
             IF strayed(stray) THEN [lines EXCEPT ![1] = Line(@.id, m)] ELSE lines
<1>1. PICK stray \in Strays : Rewrite(Marked(scribbled(stray), id, 6, m), <<"ok", id, m>>)
  BY SizesOfFiles DEF LightUse
<1> DEFINE L == scribbled(stray)
           M == Marked(L, id, 6, m)
           b == BookIn(lines, 7)
           c == IF strayed(stray) THEN [b EXCEPT ![1] = With(@, {0}, m, 7)] ELSE b
<1>2. /\ kind = "modes" /\ Current = lines /\ lines \in Seq(LineTypes) /\ InRecords(lines, 7)
  BY Served, SizesOfFiles DEF LightUse
<1>3. m \in Text /\ 6 \in 1 .. 7 - 1 /\ 7 \in Sizes
  BY Constants, SizesOfFiles
<1>4. /\ L \in Seq(LineTypes) /\ InRecords(L, 7) /\ BookIn(L, 7) = c
      /\ strayed(stray) => b # <<>> /\ b[1].id # id
  <2>1. CASE strayed(stray)
    <3>1. L = [lines EXCEPT ![1] = Line(@.id, m)] /\ lines # <<>> /\ lines[1].id # id
      BY <2>1
    <3> HIDE DEF L
    <3>2. /\ L \in Seq(LineTypes) /\ InRecords(L, 7) /\ b # <<>> /\ b[1].id = lines[1].id
          /\ BookIn(L, 7) = [b EXCEPT ![1] = With(@, {0}, m, 7)]
      BY <1>2, <1>3, <3>1, StrayBook
    <3> QED
      BY <2>1, <3>1, <3>2
  <2>2. CASE ~strayed(stray)
    BY <1>2, <2>2
  <2> QED
    BY <2>1, <2>2
<1>5. Current' = M /\ out' = <<"ok", id, m>> /\ kind' = kind
  <2>1. Rewrite(M, <<"ok", id, m>>)
    BY <1>1
  <2> HIDE DEF M
  <2> QED
    BY <2>1, Rewritten
<1> HIDE DEF L
<1>6. InRecords(M, 7) /\ BookIn(M, 7) = MarkedIn(c, id, {6}, m, 7)
  <2>1. InRecords(M, 7) /\ BookIn(M, 7) = MarkedIn(BookIn(L, 7), id, {6}, m, 7)
    BY <1>3, <1>4, MarkedBook
  <2> QED
    BY <1>4, <2>1
<1> HIDE DEF M
<1>7. ModeBook = b /\ ModeBook' = BookIn(M, 7) /\ Answer("modes")' = <<"ok", id, m>>
  BY <1>2, <1>5, BooksOfFile, BooksAfter
<1>8. ModeBook' = Modes!Switched(c, id, m)
  BY <1>6, <1>7, ModeOperators
<1>9. <<"ok", id, m>> = Modes!Said(id, m)
  BY DEF Modes!Said
<1>10. CASE strayed(stray)
  <2>1. TRUE \in Strays
    BY <1>10, StraysAssumption
  <2>2. c = [ModeBook EXCEPT ![1] = Modes!Updated(@, {0}, m)]
    BY <1>7, <1>10, ModeOperators
  <2> HIDE DEF b, c
  <2>3. Modes!Scribble(id, m)
    BY <1>4, <1>7, <1>8, <1>9, <1>10, <2>1, <2>2 DEF Modes!Scribble, ModeBook
  <2> QED
    BY <1>5, <1>6, <2>3
<1>11. CASE ~strayed(stray)
  <2>1. c = ModeBook
    BY <1>7, <1>11
  <2> HIDE DEF b, c
  <2>2. Modes!Switch(id, m)
    BY <1>7, <1>8, <1>9, <2>1 DEF Modes!Switch, ModeBook
  <2> QED
    BY <1>5, <1>6, <2>2
<1> QED
  BY <1>10, <1>11

\* 07, 11, 12, 14 and 21 report the modes.
LEMMA ModesReadStep ==
    ASSUME DeviceInv, ~spoilt, ModeFind \/ \E id \in Ids : Mode(id)
    PROVE  Modes!Read /\ Current' = Current
<1>1. Serving("modes")
  BY DEF ModeFind, Mode, List, Tell
<1>2. /\ kind = "modes" /\ Current = lines /\ lines \in Seq(LineTypes) /\ InRecords(lines, 7)
  BY <1>1, Served, SizesOfFiles
<1>3. ModeBook = BookIn(lines, 7)
  BY <1>2, BooksOfFile
<1>4. ASSUME NEW answer, Say(answer),
             \/ \E D \in {{0}, 1 .. 5} : answer = ListingOf(ModeBook, D)
             \/ \E D \in {{0}, 1 .. 5}, id \in Ids : answer = LookupIn(ModeBook, id, D)
      PROVE  Modes!Read /\ Current' = Current
  <2>1. UNCHANGED <<kind, spoilt, Current>> /\ out' = answer
    BY <1>4, Said
  <2>2. ModeBook' = ModeBook /\ Answer("modes")' = answer
    BY <1>2, <2>1, BooksOfFile, BooksAfter
  <2>3. \/ \E D \in {{0}, 1 .. 5} : answer = Modes!Listing(D)
        \/ \E D \in {{0}, 1 .. 5}, id \in Ids : answer = Modes!Lookup(id, D)
    BY <1>4, ModeOperators
  <2> QED
    BY <2>1, <2>2, <2>3 DEF Modes!Read, ModeBook
<1>5. CASE ModeFind
  <2>1. Say(ListAnswer(7, {0}))
    BY <1>5, SizesOfFiles DEF ModeFind, List, ListAnswer, Rows, Row
  <2>2. {0} \in SUBSET (0 .. 7 - 1)
    OBVIOUS
  <2>3. ListAnswer(7, {0}) = ListingOf(ModeBook, {0})
    BY <1>2, <1>3, <2>2, SizesOfFiles, ListsEntries
  <2> QED
    BY <1>4, <2>1, <2>3
<1>6. ASSUME NEW id \in Ids, Mode(id) PROVE Modes!Read /\ Current' = Current
  <2>1. Say(TellAnswer(7, id, 1 .. 5))
    BY <1>6, SizesOfFiles DEF Mode, Tell, TellAnswer
  <2>2. 1 .. 5 \in SUBSET (0 .. 7 - 1)
    OBVIOUS
  <2>3. TellAnswer(7, id, 1 .. 5) = LookupIn(ModeBook, id, 1 .. 5)
    BY <1>2, <1>3, <2>2, SizesOfFiles, TellsEntry
  <2> QED
    BY <1>4, <2>1, <2>3
<1> QED
  BY <1>5, <1>6

-----------------------------------------------------------------------------
(* The steps of the lamps *)

\* 34 changes the switch of a lamp or adds one.
LEMMA SwitchStep ==
    ASSUME DeviceInv, ~spoilt, there, NEW id \in Ids, NEW v \in Texts, SwitchSet(id, v)
    PROVE  Lamps!Set(id, v) /\ InRecords(Current', 6)
<1> DEFINE found == \E k \in Heads(lines, 6) :
                      k + 3 \in DOMAIN lines /\ lines[k + 3].id = id + 3
           M == IF found THEN EditSwitch(lines, id + 3, v) ELSE AppendSwitch(lines, id + 3, v)
           b == BookIn(lines, 6)
<1>1. /\ kind = "lamps" /\ Current = lines /\ lines \in Seq(LineTypes) /\ InRecords(lines, 6)
  BY Served, SizesOfFiles DEF SwitchSet
<1>2. Rewrite(M, <<"ok", id, v>>)
  BY DEF SwitchSet
<1>3. Current' = M /\ out' = <<"ok", id, v>> /\ kind' = kind
  <2> HIDE DEF M
  <2> QED
    BY <1>2, Rewritten
<1>4. found <=> HasEntry(b, id)
  BY <1>1, SwitchFound
<1>5. v \in Text /\ id \in Nat
  BY Constants
<1> HIDE DEF found
<1>6. LampBook = b /\ LampBook' = BookIn(M, 6) /\ Answer("lamps")' = <<"ok", id, v>>
  <2> HIDE DEF M
  <2> QED
    BY <1>1, <1>3, BooksOfFile, BooksAfter
<1>7. CASE found
  <2>1. M = EditSwitch(lines, id + 3, v) /\ HasEntry(b, id)
    BY <1>4, <1>7
  <2> HIDE DEF M
  <2>2. InRecords(M, 6) /\ BookIn(M, 6) = MarkedIn(b, id, {3, 4, 5}, v, 6)
    BY <1>1, <1>5, <2>1, EditBook
  <2>3. [b EXCEPT ![PlaceIn(b, id)] = With(@, {3, 4, 5}, v, 6)]
          = MarkedIn(b, id, {3, 4, 5}, v, 6)
    BY <1>1, <2>1, SizesOfFiles, WrittenOnce
  <2> HIDE DEF b
  <2>4. LampBook' = [LampBook EXCEPT ![Lamps!At(id)] = Lamps!Updated(@, {3, 4, 5}, v)]
    BY <1>6, <2>2, <2>3, LampOperators
  <2>5. Lamps!Has(id)
    BY <1>6, <2>1, LampOperators
  <2>6. Lamps!Set(id, v)
    BY <1>6, <2>4, <2>5 DEF Lamps!Set, LampBook
  <2> QED
    BY <1>3, <2>2, <2>6
<1>8. CASE ~found
  <2> DEFINE vals == [d \in Fields |-> IF d < 3 THEN Unset ELSE v]
  <2>1. M = lines \o Whole(id, vals, 6)
    <3>1. (id + 3) - 3 = id
      BY <1>5
    <3>2. M = AppendSwitch(lines, id + 3, v)
      BY <1>8
    <3> QED
      BY <3>1, <3>2 DEF AppendSwitch
  <2> HIDE DEF M
  <2>2. vals \in [0 .. 6 - 1 -> Text]
    BY <1>5, MarksAreTexts DEF Fields
  <2>3. vals = [d \in Fields |-> IF d \in {3, 4, 5} THEN v ELSE Unset]
    BY DEF Fields
  <2> HIDE DEF vals
  <2>4. InRecords(M, 6) /\ BookIn(M, 6) = Append(b, [id |-> id, vals |-> vals])
    BY <1>1, <1>4, <1>8, <2>1, <2>2, SizesOfFiles, AppendBook
  <2>5. Lamps!Fresh(id, v) = [id |-> id, vals |-> vals] /\ ~Lamps!Has(id)
    BY <1>4, <1>6, <1>8, <2>3, LampOperators
  <2> HIDE DEF b
  <2>6. Lamps!Set(id, v)
    BY <1>6, <2>4, <2>5 DEF Lamps!Set, LampBook
  <2> QED
    BY <1>3, <2>4, <2>6
<1> QED
  BY <1>7, <1>8

LEMMA SwitchIncompleteStep ==
    ASSUME DeviceInv, ~spoilt, NEW id \in Ids, SwitchIncomplete(id)
    PROVE  Lamps!Incomplete(id) /\ Current' = Current
<1>1. kind = "lamps"
  BY DEF SwitchIncomplete, Serving
<1>2. UNCHANGED <<kind, spoilt, Current>> /\ out' = <<"incomplete", id>>
  BY Said DEF SwitchIncomplete
<1>3. LampBook' = LampBook /\ Answer("lamps")' = <<"incomplete", id>>
  BY <1>1, <1>2, BooksOfFile, BooksAfter
<1> QED
  BY <1>2, <1>3 DEF Lamps!Incomplete, LampBook

\* 33 empties the list.
LEMMA LampsStartStep ==
    ASSUME NEW msg \in Messages, LampsSet(msg)
    PROVE  Lamps!Clear /\ Current' = <<>>
<1>1. kind' = "lamps" /\ Current' = <<>> /\ out' = <<"none">>
  BY DEF LampsSet, Serving, Current
<1>2. LampBook' = <<>> /\ Answer("lamps")' = <<"none">>
  BY <1>1, BooksAfter, EmptyBook, SizesOfFiles
<1> QED
  BY <1>1, <1>2 DEF Lamps!Clear, LampBook

\* The next lamp of a message has an id, and the file has no lamp with it.
LEMMA LampIsNew ==
    ASSUME DeviceInv, pc = "parse", todo # <<>>
    PROVE  /\ lampId \in Ids /\ \A r \in 1 .. Rows(lines, 6) : lines[Row(r, 6)].id # lampId
<1>1. PICK msg \in sent : TRUE
  BY DEF DeviceInv
<1> DEFINE n == Parsed(msg)
           m == Rows(lines, 6)
<1>2. /\ msg \in Messages /\ msg \in Seq(Lamp) /\ lines \in Seq(LineTypes) /\ Types
      /\ Len(msg) \in Nat
  BY Constants, LengthIsNat DEF DeviceInv, Types
<1>3. /\ n \in 0 .. Len(msg) /\ todo = SubSeq(msg, n + 1, Len(msg))
      /\ Holds(lines, msg, n) /\ lampId = 10 * m
  BY DEF DeviceInv, InstallInv, Current, Rows
<1>4. n \in Nat /\ n < Len(msg)
  BY <1>2, <1>3, NextLamp
<1>5. Filed(lines, msg, n, m)
  BY <1>2, <1>3, <1>4, HoldsIsFiled DEF Rows
<1> HIDE DEF n, m
<1>6. m \in 0 .. n
  BY <1>5 DEF Filed
<1>7. lampId \in Ids
  <2>1. m + 1 \in 1 .. Len(msg) /\ 10 * ((m + 1) - 1) = 10 * m
    BY <1>2, <1>4, <1>6
  <2>2. 10 * ((m + 1) - 1) \in Ids
    BY <1>2, <2>1, LampIdsAssumption
  <2> QED
    BY <1>3, <2>1, <2>2
<1>8. ASSUME NEW r \in 1 .. m PROVE lines[Row(r, 6)].id # lampId
  <2> DEFINE s == r + (n - m)
  <2>1. s \in n - m + 1 .. n /\ s - (n - m) - 1 = r - 1 /\ 0 \in Fields
    BY <1>4, <1>6 DEF Fields
  <2>2. lines[6 * (s - (n - m) - 1) + 1 + 0].id = 10 * (s - (n - m) - 1) + 0
    BY <1>5, <2>1 DEF Filed
  <2> HIDE DEF s
  <2>3. 6 * (r - 1) + 1 + 0 = Row(r, 6)
    BY <1>6 DEF Row
  <2>4. lines[Row(r, 6)].id = 10 * (r - 1) + 0
    BY <2>1, <2>2, <2>3
  <2>5. 10 * (r - 1) + 0 # 10 * m
    BY <1>6
  <2> QED
    BY <1>3, <2>4, <2>5
<1> QED
  BY <1>7, <1>8 DEF m

\* A lamp with all its fields is added, any other left out.
LEMMA ParseStep ==
    ASSUME DeviceInv, ~spoilt, Parse
    PROVE  /\ (\E id \in Ids : Lamps!Add(id)) \/ UNCHANGED LampVars
           /\ InRecords(Current', 6)
<1>1. /\ pc = "parse" /\ todo # <<>> /\ kind' = kind /\ spoilt' = spoilt /\ out' = out
      /\ buf' = [d \in Fields |-> Overlay(Head(todo)[d], buf[d])]
  BY DEF Parse
<1>2. /\ kind = "lamps" /\ out = <<"none">> /\ Current = lines /\ lines \in Seq(LineTypes)
      /\ InRecords(lines, 6) /\ Types
  BY <1>1, SizesOfFiles DEF DeviceInv, Types, Current
<1> DEFINE b == BookIn(lines, 6)
<1>3. LampBook = b
  BY <1>2, BooksOfFile
<1>4. CASE \E d \in Fields : buf'[d] = <<>>
  <2>1. UNCHANGED <<pc, mem, lines>>
    BY <1>4 DEF Parse
  <2>2. Current' = Current
    BY <2>1 DEF Current
  <2>3. LampBook' = LampBook /\ Answer("lamps")' = Answer("lamps")
    BY <1>1, <1>2, <2>2, BooksOfFile, BooksAfter
  <2> QED
    BY <1>2, <2>2, <2>3 DEF LampVars
<1>5. CASE ~\E d \in Fields : buf'[d] = <<>>
  <2> DEFINE M == lines \o Whole(lampId, buf', 6)
  <2>1. pc' = "lamp" /\ mem' = M
    BY <1>5 DEF Parse
  <2>2. Current' = M
    BY <2>1 DEF Current
  <2>3. buf' \in Lamp
    BY <1>1, <1>2, ParsedTypes
  <2>4. buf' \in [0 .. 6 - 1 -> Text] /\ buf' \in [Fields -> Text \ {<<>>}]
    BY <1>5, <2>3 DEF Lamp, Fields
  <2>5. lampId \in Ids /\ ~HasEntry(b, lampId)
    BY <1>1, <1>2, SizesOfFiles, LampIsNew, EntryOfRecord
  <2>6. InRecords(M, 6) /\ BookIn(M, 6) = Append(b, [id |-> lampId, vals |-> buf'])
    <3>1. lines \in Seq(LineTypes) /\ InRecords(lines, 6) /\ 6 \in Sizes
      BY <1>2, SizesOfFiles
    <3>2. PICK id \in Ids, vals \in [0 .. 6 - 1 -> Text] : id = lampId /\ vals = buf'
      BY <2>4, <2>5
    <3>3. ~HasEntry(BookIn(lines, 6), id)
      BY <2>5, <3>2
    <3>4. /\ InRecords(lines \o Whole(id, vals, 6), 6)
          /\ BookIn(lines \o Whole(id, vals, 6), 6)
               = Append(BookIn(lines, 6), [id |-> id, vals |-> vals])
      BY <3>1, <3>3, AppendBook
    <3> QED
      BY <3>2, <3>4, Zenon
  <2> HIDE DEF M
  <2>7. LampBook' = BookIn(M, 6) /\ Answer("lamps")' = <<"none">>
    BY <1>1, <1>2, <2>2, BooksAfter
  <2>8. Len(b) \in Nat /\ DOMAIN b = 1 .. Len(b)
    BY <1>2, SizesOfFiles, BookItems, RecordLines DEF InRecords
  <2>9. ~Lamps!Has(lampId)
    BY <1>3, <2>5, LampOperators
  <2> HIDE DEF b
  <2>10. /\ LampBook' = Append(LampBook, [id |-> lampId, vals |-> buf'])
         /\ Len(b) + 1 \in DOMAIN LampBook' \ DOMAIN LampBook
         /\ LampBook'[Len(b) + 1].vals = buf'
    BY <1>3, <2>6, <2>7, <2>8
  <2>11. \E r \in DOMAIN LampBook' \ DOMAIN LampBook :
           LET vals == LampBook'[r].vals
           IN /\ vals \in [Fields -> Text \ {<<>>}]
              /\ LampBook' = Append(LampBook, [id |-> lampId, vals |-> vals])
    BY <2>4, <2>10
  <2>12. Lamps!Add(lampId)
    BY <2>7, <2>9, <2>11 DEF Lamps!Add, LampBook
  <2> QED
    BY <2>2, <2>5, <2>6, <2>12
<1> QED
  BY <1>4, <1>5

\* 31 and 32 report the lamps.
LEMMA LampsReadStep ==
    ASSUME DeviceInv, ~spoilt, LampInfo \/ LampStatus
    PROVE  Lamps!Read /\ Current' = Current
<1> DEFINE views == {{0, 1, 3, 4}, Fields}
<1>1. Serving("lamps")
  BY DEF LampInfo, LampStatus, List
<1>2. /\ kind = "lamps" /\ Current = lines /\ lines \in Seq(LineTypes) /\ InRecords(lines, 6)
  BY <1>1, Served, SizesOfFiles
<1>3. LampBook = BookIn(lines, 6)
  BY <1>2, BooksOfFile
<1>4. PICK D \in views : Say(ListAnswer(6, D))
  BY SizesOfFiles DEF LampInfo, LampStatus, List, ListAnswer, Rows, Row
<1>5. D \in SUBSET (0 .. 6 - 1)
  BY DEF Fields
<1>6. ListAnswer(6, D) = Lamps!Listing(D)
  BY <1>2, <1>3, <1>5, SizesOfFiles, ListsEntries, LampOperators
<1>7. UNCHANGED <<kind, Current>> /\ out' = Lamps!Listing(D)
  BY <1>4, <1>6, Said
<1>8. LampBook' = LampBook /\ Answer("lamps")' = Lamps!Listing(D)
  BY <1>2, <1>7, BooksOfFile, BooksAfter
<1> QED
  BY <1>7, <1>8 DEF Lamps!Read, LampBook

-----------------------------------------------------------------------------
(* All the steps *)

LEMMA KindStays ==
    ASSUME [Next]_vars
    PROVE  kind' = kind /\ (spoilt => spoilt')
<1>1. ASSUME NEW id \in Ids, NEW m \in Marks, MusicLike(id, m) \/ LightUse(id, m)
      PROVE  kind' = kind /\ spoilt' = spoilt
  BY <1>1 DEF MusicLike, LightUse, Rewrite
<1>2. ASSUME NEW id \in Ids, NEW v \in Texts, SwitchSet(id, v) \/ MusicChoose(id, v)
      PROVE  kind' = kind /\ (spoilt => spoilt')
  <2>1. CASE SwitchSet(id, v)
    BY <2>1 DEF SwitchSet, Rewrite
  <2>2. CASE MusicChoose(id, v)
    <3>1. kind' = kind
      BY <2>2 DEF MusicChoose, Rewrite
    <3>2. spoilt' = (spoilt \/ (there /\ ~StartsWith(lines, id)))
      BY <2>2 DEF MusicChoose
    <3>3. ASSUME spoilt PROVE spoilt' = TRUE
      BY <3>2, <3>3
    <3> QED
      BY <3>1, <3>3
  <2> QED
    BY <1>2, <2>1, <2>2
<1>3. ASSUME NEW id, \/ MusicPlay(id) \/ Mode(id) \/ SwitchIncomplete(id)
                     \/ MusicFind \/ ModeFind \/ LampInfo \/ LampStatus
      PROVE  kind' = kind /\ spoilt' = spoilt
  BY <1>3, Said DEF MusicPlay, Mode, SwitchIncomplete, MusicFind, ModeFind, LampInfo,
                    LampStatus, Tell, List
<1>4. ASSUME NEW msg, LampsSet(msg) PROVE kind' = kind /\ spoilt' = spoilt
  BY <1>4 DEF LampsSet
<1>5. ASSUME Parse \/ LampWritten \/ Installed \/ Write \/ PowerCut \/ UNCHANGED vars
      PROVE  kind' = kind /\ spoilt' = spoilt
  BY <1>5 DEF Parse, LampWritten, Installed, Write, PowerCut, vars
<1> QED
  BY <1>1, <1>2, <1>3, <1>4, <1>5 DEF Next

\* Steps that leave the file's contents and the answer.
Unseen == UNCHANGED <<kind, spoilt, Current, out>>

LEMMA UnseenMaps ==
    ASSUME Unseen
    PROVE  UNCHANGED SongVars /\ UNCHANGED ModeVars /\ UNCHANGED LampVars
<1>1. BookOf(6)' = BookOf(6) /\ BookOf(7)' = BookOf(7)
  BY DEF Unseen, BookOf
<1> QED
  BY <1>1 DEF Unseen, SongVars, SongBook, SongAnswer, ModeVars, ModeBook, LampVars, LampBook,
              Kept, Answer

\* Steps of every file: the contents get into it, the process dies or starts again.
LEMMA QuietStep ==
    ASSUME DeviceInv, Write \/ LampWritten \/ Installed \/ UNCHANGED vars
    PROVE  Unseen
BY DEF Unseen, Write, LampWritten, Installed, vars, Current, DeviceInv

LEMMA DeathStep ==
    ASSUME DeviceInv, ~there,
           \/ \E id \in Ids, m \in Marks : MusicLike(id, m) \/ LightUse(id, m)
           \/ \E id \in Ids, v \in Texts : SwitchSet(id, v) \/ MusicChoose(id, v)
    PROVE  Unseen
<1>1. spoilt' = spoilt
  BY DEF MusicLike, LightUse, SwitchSet, MusicChoose, DeviceInv, Types
<1>2. pc = "wait" /\ \E L, answer : Rewrite(L, answer)
  BY DEF MusicLike, LightUse, SwitchSet, MusicChoose, Serving
<1> QED
  BY <1>1, <1>2, Died DEF Unseen

\* A power cut while the file is open leaves it empty; any other one, as it was.
LEMMA CutStep ==
    ASSUME DeviceInv, PowerCut
    PROVE  \/ Unseen
           \/ Current' = <<>> /\ out' = <<"none">> /\ UNCHANGED <<kind, spoilt>>
BY DEF PowerCut, DeviceInv, Unseen, Current

LEMMA EmptyInRecords ==
    ASSUME DeviceInv
    PROVE  InRecords(<<>>, Size[kind])
<1>1. Size[kind] \in Sizes
  BY DEF DeviceInv, Types, Size, Names, Sizes
<1> QED
  BY <1>1, EmptyBook

\* Whatever happens, the file stays whole records until 03 spoils it.
LEMMA RecordsStay ==
    ASSUME DeviceInv, [Next]_vars, ~spoilt'
    PROVE  InRecords(Current', Size[kind'])
<1>1. ~spoilt /\ kind' = kind /\ InRecords(Current, Size[kind])
  BY KindStays DEF DeviceInv
<1>2. ASSUME Current' = Current PROVE InRecords(Current', Size[kind'])
  BY <1>1, <1>2
<1>3. ASSUME Unseen PROVE InRecords(Current', Size[kind'])
  BY <1>2, <1>3 DEF Unseen
<1>4. ASSUME NEW id \in Ids, NEW m \in Marks, MusicLike(id, m) \/ LightUse(id, m)
      PROVE  InRecords(Current', Size[kind'])
  <2>1. CASE ~there
    BY <1>3, <1>4, <2>1, DeathStep
  <2>2. CASE there /\ MusicLike(id, m)
    <3>1. InRecords(Current', 6) /\ kind = "songs"
      BY <1>1, <2>2, LikeStep DEF MusicLike, Serving
    <3> QED
      BY <1>1, <3>1, SizesOfFiles
  <2>3. CASE there /\ LightUse(id, m)
    <3>1. InRecords(Current', 7) /\ kind = "modes"
      BY <1>1, <2>3, UseStep DEF LightUse, Serving
    <3> QED
      BY <1>1, <3>1, SizesOfFiles
  <2> QED
    BY <1>4, <2>1, <2>2, <2>3
<1>5. ASSUME NEW id \in Ids, NEW v \in Texts, SwitchSet(id, v) \/ MusicChoose(id, v)
      PROVE  InRecords(Current', Size[kind'])
  <2>1. CASE ~there
    BY <1>3, <1>5, <2>1, DeathStep
  <2>2. CASE there /\ SwitchSet(id, v)
    <3>1. InRecords(Current', 6) /\ kind = "lamps"
      BY <1>1, <2>2, SwitchStep DEF SwitchSet, Serving
    <3> QED
      BY <1>1, <3>1, SizesOfFiles
  <2>3. CASE there /\ MusicChoose(id, v)
    <3>1. InRecords(Current', 6) /\ kind = "songs"
      BY <1>1, <2>3, ChooseStep DEF MusicChoose, Serving
    <3> QED
      BY <1>1, <3>1, SizesOfFiles
  <2> QED
    BY <1>5, <2>1, <2>2, <2>3
<1>6. ASSUME NEW msg \in Messages, LampsSet(msg) PROVE InRecords(Current', Size[kind'])
  BY <1>1, <1>6, LampsStartStep, EmptyInRecords
<1>7. CASE Parse
  <2>1. InRecords(Current', 6) /\ kind = "lamps"
    BY <1>1, <1>7, ParseStep DEF Parse, DeviceInv
  <2> QED
    BY <1>1, <2>1, SizesOfFiles
<1>8. ASSUME NEW id, \/ MusicPlay(id) \/ Mode(id) \/ SwitchIncomplete(id)
                     \/ MusicFind \/ ModeFind \/ LampInfo \/ LampStatus
      PROVE  Current' = Current
  <2>1. \E answer : Say(answer)
    BY <1>8 DEF MusicPlay, Mode, SwitchIncomplete, MusicFind, ModeFind, LampInfo,
                LampStatus, Tell, List
  <2> QED
    BY <2>1, Said
<1>9. CASE Write \/ LampWritten \/ Installed \/ UNCHANGED vars
  BY <1>3, <1>9, QuietStep
<1>10. CASE PowerCut
  BY <1>1, <1>3, <1>10, CutStep, EmptyInRecords
<1> HIDE DEF DeviceInv, Unseen
<1> QED
  BY <1>2, <1>4, <1>5, <1>6, <1>7, <1>8, <1>9, <1>10 DEF Next

\* The other parts of the invariant.
LEMMA PhasesStay ==
    ASSUME DeviceInv, [Next]_vars
    PROVE  /\ spoilt' => kind' = "songs"
           /\ pc' \in {"write", "lamp"} => lines' = <<>>
           /\ pc' \in {"parse", "lamp"} => kind' = "lamps" /\ sent' # {} /\ out' = <<"none">>
<1> DEFINE Goal ==
             /\ spoilt' => kind' = "songs"
             /\ pc' \in {"write", "lamp"} => lines' = <<>>
             /\ pc' \in {"parse", "lamp"} => kind' = "lamps" /\ sent' # {} /\ out' = <<"none">>
<1>1. ASSUME NEW id \in Ids, NEW m \in Marks, MusicLike(id, m) PROVE Goal
  BY <1>1 DEF MusicLike, Rewrite, Serving, DeviceInv
<1>2. ASSUME NEW id \in Ids, NEW m \in Marks, LightUse(id, m) PROVE Goal
  BY <1>2 DEF LightUse, Rewrite, Serving, DeviceInv
<1>3. ASSUME NEW id \in Ids, NEW v \in Texts, SwitchSet(id, v) PROVE Goal
  BY <1>3 DEF SwitchSet, Rewrite, Serving, DeviceInv
<1>4. ASSUME NEW id \in Ids, NEW v \in Texts, MusicChoose(id, v) PROVE Goal
  BY <1>4 DEF MusicChoose, Rewrite, Serving, DeviceInv
<1>5. ASSUME NEW id, \/ MusicPlay(id) \/ Mode(id) \/ SwitchIncomplete(id)
                     \/ MusicFind \/ ModeFind \/ LampInfo \/ LampStatus
      PROVE  Goal
  <2>1. pc = "wait" /\ \E answer : Say(answer)
    BY <1>5 DEF MusicPlay, Mode, SwitchIncomplete, MusicFind, ModeFind, LampInfo,
                LampStatus, Tell, List, Serving
  <2>2. UNCHANGED <<kind, there, lines, pc, spoilt, sent>>
    BY <2>1, Said
  <2> QED
    BY <2>1, <2>2 DEF DeviceInv
<1>6. ASSUME NEW msg \in Messages, LampsSet(msg) PROVE Goal
  BY <1>6 DEF LampsSet, Serving, DeviceInv
<1>7. ASSUME Parse PROVE Goal
  BY <1>7 DEF Parse, DeviceInv
<1>8. ASSUME LampWritten PROVE Goal
  BY <1>8 DEF LampWritten, DeviceInv, Types
<1>9. ASSUME Installed PROVE Goal
  BY <1>9 DEF Installed, DeviceInv, Types
<1>10. ASSUME Write PROVE Goal
  BY <1>10 DEF Write, DeviceInv, Types
<1>11. ASSUME PowerCut PROVE Goal
  BY <1>11 DEF PowerCut, DeviceInv
<1>12. ASSUME UNCHANGED vars PROVE Goal
  BY <1>12 DEF vars, DeviceInv
<1> HIDE DEF Goal, DeviceInv
<1>13. ASSUME Next PROVE Goal
  <2>1. CASE \E id \in Ids, m \in Marks : MusicLike(id, m) \/ LightUse(id, m)
    BY <1>1, <1>2, <2>1
  <2>2. CASE \E id \in Ids, v \in Texts : SwitchSet(id, v) \/ MusicChoose(id, v)
    BY <1>3, <1>4, <2>2
  <2>3. CASE \/ \E id \in Ids : SwitchIncomplete(id) \/ MusicPlay(id) \/ Mode(id)
             \/ MusicFind \/ ModeFind \/ LampInfo \/ LampStatus
    BY <1>5, <2>3
  <2>4. CASE \E msg \in Messages : LampsSet(msg)
    BY <1>6, <2>4
  <2>5. CASE Parse \/ LampWritten \/ Installed \/ Write \/ PowerCut
    BY <1>7, <1>8, <1>9, <1>10, <1>11, <2>5
  <2>6. \/ \E id \in Ids, m \in Marks : MusicLike(id, m) \/ LightUse(id, m)
        \/ \E id \in Ids, v \in Texts : SwitchSet(id, v) \/ MusicChoose(id, v)
        \/ \E id \in Ids : SwitchIncomplete(id) \/ MusicPlay(id) \/ Mode(id)
        \/ MusicFind \/ ModeFind \/ LampInfo \/ LampStatus
        \/ \E msg \in Messages : LampsSet(msg)
        \/ Parse \/ LampWritten \/ Installed \/ Write \/ PowerCut
    BY <1>13 DEF Next
  <2> QED
    BY <2>1, <2>2, <2>3, <2>4, <2>5, <2>6
<1> QED
  BY <1>12, <1>13 DEF Goal

LEMMA DeviceNext == DeviceInv /\ [Next]_vars => DeviceInv'
<1> SUFFICES ASSUME DeviceInv, [Next]_vars PROVE DeviceInv'
  OBVIOUS
<1>1. Types' /\ InstallInv'
  BY TypesNext, InstallNext DEF DeviceInv
<1> QED
  BY <1>1, RecordsStay, PhasesStay DEF DeviceInv

LEMMA SongStepMaps ==
    ASSUME DeviceInv, DeviceInv', [Next]_vars
    PROVE  [Songs!Next]_(Songs!bookVars)
<1>0. UNCHANGED SongVars => UNCHANGED Songs!bookVars
  BY DEF SongVars, SongBook, SongAnswer, Songs!bookVars
<1>1. kind' = kind /\ (spoilt => spoilt')
  BY KindStays
<1>2. CASE spoilt \/ kind # "songs"
  <2>1. UNCHANGED SongVars
    BY <1>1, <1>2 DEF SongVars, SongBook, SongAnswer, Kept, Answer, DeviceInv, Types
  <2> QED
    BY <1>0, <2>1
<1>3. CASE ~spoilt /\ kind = "songs"
  <2>0. Unseen => UNCHANGED Songs!bookVars
    BY <1>0, UnseenMaps
  <2>1. ASSUME NEW id \in Ids, NEW m \in Marks, MusicLike(id, m)
        PROVE  Songs!Switch(id, m) \/ Unseen
    BY <1>3, <2>1, LikeStep, DeathStep
  <2>2. ASSUME NEW id \in Ids, NEW v \in Texts, MusicChoose(id, v)
        PROVE  Songs!Set(id, v) \/ Songs!Spoil \/ Unseen
    BY <1>3, <2>2, ChooseStep, DeathStep
  <2>3. CASE MusicFind \/ \E id \in Ids : MusicPlay(id)
    BY <1>3, <2>3, SongsReadStep DEF Songs!Next
  <2>4. CASE Write \/ LampWritten \/ Installed \/ UNCHANGED vars
    BY <2>0, <2>4, QuietStep
  <2>5. CASE PowerCut
    <3>1. CASE Current' = <<>> /\ out' = <<"none">> /\ UNCHANGED <<kind, spoilt>>
      <4>1. SongBook' = <<>> /\ SongAnswer' = <<"none">>
        BY <1>3, <3>1, BooksAfter, EmptyBook, SizesOfFiles
      <4>2. Songs!Clear
        BY <3>1, <4>1 DEF Songs!Clear, SongBook, SongAnswer
      <4> QED
        BY <1>3, <4>2 DEF Songs!Next
    <3> QED
      BY <2>0, <2>5, <3>1, CutStep
  <2>6. \A id, m : ~LightUse(id, m) /\ ~SwitchSet(id, m) /\ ~SwitchIncomplete(id)
                   /\ ~Mode(id) /\ ~LampsSet(id)
    BY <1>3 DEF LightUse, SwitchSet, SwitchIncomplete, Mode, LampsSet, Tell, Serving
  <2>7. ~Parse /\ ~ModeFind /\ ~LampInfo /\ ~LampStatus
    BY <1>3 DEF Parse, ModeFind, LampInfo, LampStatus, List, Serving, DeviceInv
  <2> HIDE DEF DeviceInv, Unseen
  <2>8. ASSUME NEW id \in Ids, NEW m \in Marks, MusicLike(id, m)
        PROVE  Songs!Next \/ UNCHANGED Songs!bookVars
    BY <1>3, <2>0, <2>1, <2>8 DEF Songs!Next
  <2>9. ASSUME NEW id \in Ids, NEW v \in Texts, MusicChoose(id, v)
        PROVE  Songs!Next \/ UNCHANGED Songs!bookVars
    BY <1>3, <2>0, <2>2, <2>9 DEF Songs!Next
  <2> QED
    BY <2>3, <2>4, <2>5, <2>6, <2>7, <2>8, <2>9 DEF Next
<1> QED
  BY <1>2, <1>3

LEMMA ModeStepMaps ==
    ASSUME DeviceInv, [Next]_vars
    PROVE  [Modes!Next]_(Modes!bookVars)
<1>0. UNCHANGED ModeVars => UNCHANGED Modes!bookVars
  BY DEF ModeVars, ModeBook, Modes!bookVars
<1>1. kind' = kind
  BY KindStays
<1>2. CASE kind # "modes"
  <2>1. UNCHANGED ModeVars
    BY <1>1, <1>2 DEF ModeVars, ModeBook, Kept, Answer
  <2> QED
    BY <1>0, <2>1
<1>3. CASE kind = "modes"
  <2>0. (Unseen => UNCHANGED Modes!bookVars) /\ ~spoilt
    BY <1>0, <1>3, UnseenMaps DEF DeviceInv
  <2>1. ASSUME NEW id \in Ids, NEW m \in Marks, LightUse(id, m)
        PROVE  Modes!Switch(id, m) \/ Modes!Scribble(id, m) \/ Unseen
    BY <2>0, <2>1, UseStep, DeathStep
  <2>3. CASE ModeFind \/ \E id \in Ids : Mode(id)
    BY <2>0, <2>3, ModesReadStep DEF Modes!Next
  <2>4. CASE Write \/ LampWritten \/ Installed \/ UNCHANGED vars
    BY <2>0, <2>4, QuietStep
  <2>5. CASE PowerCut
    <3>1. CASE Current' = <<>> /\ out' = <<"none">> /\ UNCHANGED <<kind, spoilt>>
      <4>1. ModeBook' = <<>> /\ Answer("modes")' = <<"none">>
        BY <1>3, <3>1, BooksAfter, EmptyBook, SizesOfFiles
      <4>2. Modes!Clear
        BY <4>1 DEF Modes!Clear, ModeBook
      <4> QED
        BY <4>2 DEF Modes!Next
    <3> QED
      BY <2>0, <2>5, <3>1, CutStep
  <2>6. \A id, m : ~MusicLike(id, m) /\ ~MusicChoose(id, m) /\ ~MusicPlay(id)
                   /\ ~SwitchSet(id, m) /\ ~SwitchIncomplete(id) /\ ~LampsSet(id)
    BY <1>3 DEF MusicLike, MusicChoose, MusicPlay, SwitchSet, SwitchIncomplete, LampsSet,
                Tell, Serving
  <2>7. ~Parse /\ ~MusicFind /\ ~LampInfo /\ ~LampStatus
    BY <1>3 DEF Parse, MusicFind, LampInfo, LampStatus, List, Serving, DeviceInv
  <2> HIDE DEF DeviceInv, Unseen
  <2>8. ASSUME NEW id \in Ids, NEW m \in Marks, LightUse(id, m)
        PROVE  Modes!Next \/ UNCHANGED Modes!bookVars
    BY <2>0, <2>1, <2>8 DEF Modes!Next
  <2> QED
    BY <2>3, <2>4, <2>5, <2>6, <2>7, <2>8 DEF Next
<1> QED
  BY <1>2, <1>3

LEMMA LampStepMaps ==
    ASSUME DeviceInv, [Next]_vars
    PROVE  [Lamps!Next]_(Lamps!bookVars)
<1>0. UNCHANGED LampVars => UNCHANGED Lamps!bookVars
  BY DEF LampVars, LampBook, Lamps!bookVars
<1>1. kind' = kind
  BY KindStays
<1>2. CASE kind # "lamps"
  <2>1. UNCHANGED LampVars
    BY <1>1, <1>2 DEF LampVars, LampBook, Kept, Answer
  <2> QED
    BY <1>0, <2>1
<1>3. CASE kind = "lamps"
  <2>0. (Unseen => UNCHANGED Lamps!bookVars) /\ ~spoilt
    BY <1>0, <1>3, UnseenMaps DEF DeviceInv
  <2>1. ASSUME NEW id \in Ids, NEW v \in Texts, SwitchSet(id, v)
        PROVE  Lamps!Set(id, v) \/ Unseen
    BY <2>0, <2>1, SwitchStep, DeathStep
  <2>2. ASSUME NEW id \in Ids, SwitchIncomplete(id) PROVE Lamps!Next
    BY <2>0, <2>2, SwitchIncompleteStep DEF Lamps!Next
  <2>3. CASE LampInfo \/ LampStatus
    BY <2>0, <2>3, LampsReadStep DEF Lamps!Next
  <2>4. CASE Write \/ LampWritten \/ Installed \/ UNCHANGED vars
    BY <2>0, <2>4, QuietStep
  <2>5. CASE PowerCut
    <3>1. CASE Current' = <<>> /\ out' = <<"none">> /\ UNCHANGED <<kind, spoilt>>
      <4>1. LampBook' = <<>> /\ Answer("lamps")' = <<"none">>
        BY <1>3, <3>1, BooksAfter, EmptyBook, SizesOfFiles
      <4>2. Lamps!Clear
        BY <4>1 DEF Lamps!Clear, LampBook
      <4> QED
        BY <4>2 DEF Lamps!Next
    <3> QED
      BY <2>0, <2>5, <3>1, CutStep
  <2>6. CASE Parse
    <3>1. (\E id \in Ids : Lamps!Add(id)) \/ UNCHANGED LampVars
      BY <2>0, <2>6, ParseStep
    <3> QED
      BY <1>0, <3>1 DEF Lamps!Next
  <2>7. ASSUME NEW msg \in Messages, LampsSet(msg) PROVE Lamps!Next
    BY <2>7, LampsStartStep DEF Lamps!Next
  <2>8. \A id, m : ~MusicLike(id, m) /\ ~MusicChoose(id, m) /\ ~MusicPlay(id)
                   /\ ~LightUse(id, m) /\ ~Mode(id)
    BY <1>3 DEF MusicLike, MusicChoose, MusicPlay, LightUse, Mode, Tell, Serving
  <2>9. ~MusicFind /\ ~ModeFind
    BY <1>3 DEF MusicFind, ModeFind, List, Serving
  <2> HIDE DEF DeviceInv, Unseen
  <2>10. ASSUME NEW id \in Ids, NEW v \in Texts, SwitchSet(id, v)
         PROVE  Lamps!Next \/ UNCHANGED Lamps!bookVars
    BY <2>0, <2>1, <2>10 DEF Lamps!Next
  <2> QED
    BY <2>2, <2>3, <2>4, <2>5, <2>6, <2>7, <2>8, <2>9, <2>10 DEF Next
<1> QED
  BY <1>2, <1>3

-----------------------------------------------------------------------------
(* The files that are installed *)

LEMMA EntryRecords ==
    ASSUME NEW k \in Names, NEW i \in Ids, NEW j \in Ids, NEW v \in Texts
    PROVE  /\ Entry(k, i, v) \in Seq(LineTypes) /\ InRecords(Entry(k, i, v), Size[k])
           /\ i # j => InRecords(Entry(k, i, v) \o Entry(k, j, v), Size[k])
<1> DEFINE n == Size[k]
           vals == [d \in 0 .. n - 1 |-> IF k # "lamps" /\ d = Place[k] THEN <<2>> ELSE v]
           E == Entry(k, i, v)
<1>1. n \in Sizes
  BY DEF Size, Names, Sizes
<1>2. vals \in [0 .. n - 1 -> Text]
  <2>1. <<2>> \in Text /\ v \in Text
    BY Constants DEF Text
  <2> QED
    BY <2>1
<1>3. \A id : Entry(k, id, v) = Whole(id, vals, n)
  BY DEF Entry
<1>4. E \in Seq(LineTypes)
  BY Constants, EntryType
<1> HIDE DEF n, vals, E
<1>5. InRecords(E, n) /\ BookIn(E, n) = Append(<<>>, [id |-> i, vals |-> vals])
  <2>1. PICK L : L = <<>>
    OBVIOUS
  <2>2. L \in Seq(LineTypes) /\ InRecords(L, n) /\ BookIn(L, n) = <<>>
    BY <1>1, <2>1, EmptyBook
  <2>3. ~HasEntry(BookIn(L, n), i)
    BY <2>2 DEF HasEntry
  <2>4. /\ InRecords(L \o Whole(i, vals, n), n)
        /\ BookIn(L \o Whole(i, vals, n), n) = Append(BookIn(L, n), [id |-> i, vals |-> vals])
    BY <1>1, <1>2, <2>2, <2>3, AppendBook
  <2>5. L \o Whole(i, vals, n) = E
    <3>1. Whole(i, vals, n) = E
      BY <1>3 DEF E
    <3> QED
      BY <1>4, <2>1, <3>1, ConcatEmptySeq
  <2> QED
    BY <2>2, <2>4, <2>5, Zenon
<1>6. ASSUME i # j PROVE InRecords(E \o Entry(k, j, v), n)
  <2>1. ~HasEntry(BookIn(E, n), j)
    BY <1>5, <1>6 DEF HasEntry
  <2>2. InRecords(E \o Whole(j, vals, n), n)
    BY <1>1, <1>2, <1>4, <1>5, <2>1, AppendBook
  <2> QED
    BY <1>3, <2>2
<1> QED
  BY <1>4, <1>5, <1>6 DEF E, n

LEMMA DeviceInit == Init => DeviceInv
<1> SUFFICES ASSUME Init PROVE DeviceInv
  OBVIOUS
<1>1. Types /\ InstallInv /\ Current = lines /\ spoilt = FALSE /\ pc = "wait"
  BY TypesInit DEF Init, InstallInv, Current
<1>2. PICK i \in Ids, j \in Ids, v \in Texts :
         lines \in IF ~there THEN {<<>>}
                   ELSE IF kind = "lamps" THEN {<<>>, Entry(kind, i, v)}
                   ELSE {Entry(kind, i, v)} \cup
                        IF i = j THEN {} ELSE {Entry(kind, i, v) \o Entry(kind, j, v)}
  BY DEF Init
<1>3. kind \in Names /\ Size[kind] \in Sizes
  BY <1>1 DEF Types, Size, Names, Sizes
<1>4. InRecords(<<>>, Size[kind]) /\ InRecords(Entry(kind, i, v), Size[kind])
      /\ (i # j => InRecords(Entry(kind, i, v) \o Entry(kind, j, v), Size[kind]))
  BY <1>3, EmptyBook, EntryRecords
<1>5. InRecords(lines, Size[kind])
  <2>1. \/ lines = <<>>
        \/ lines = Entry(kind, i, v)
        \/ i # j /\ lines = Entry(kind, i, v) \o Entry(kind, j, v)
    BY <1>2
  <2> QED
    BY <1>4, <2>1
<1> QED
  BY <1>1, <1>5 DEF DeviceInv

LEMMA IdsOnce ==
    ASSUME NEW L \in Seq(LineTypes), NEW n \in Sizes, InRecords(L, n)
    PROVE  \A r, s \in DOMAIN BookIn(L, n) : BookIn(L, n)[r].id = BookIn(L, n)[s].id => r = s
BY BookItems DEF InRecords

LEMMA BookInits == Init => Songs!BookInit /\ Modes!BookInit /\ Lamps!BookInit
<1> SUFFICES ASSUME Init PROVE Songs!BookInit /\ Modes!BookInit /\ Lamps!BookInit
  OBVIOUS
<1>1. DeviceInv
  BY DeviceInit
<1>2. spoilt = FALSE /\ out = <<"none">> /\ Current = lines /\ lines \in Seq(LineTypes)
  BY <1>1 DEF Init, Current, DeviceInv, Types
<1>3. InRecords(lines, Size[kind])
  BY <1>1, <1>2 DEF DeviceInv
<1>4. \A r, s \in DOMAIN SongBook : SongBook[r].id = SongBook[s].id => r = s
  <2>1. CASE kind = "songs"
    BY <1>2, <1>3, <2>1, IdsOnce, SizesOfFiles, BooksOfFile
  <2>2. CASE kind # "songs"
    BY <2>2 DEF SongBook, Kept
  <2> QED
    BY <2>1, <2>2
<1>5. \A r, s \in DOMAIN ModeBook : ModeBook[r].id = ModeBook[s].id => r = s
  <2>1. CASE kind = "modes"
    BY <1>2, <1>3, <2>1, IdsOnce, SizesOfFiles, BooksOfFile
  <2>2. CASE kind # "modes"
    BY <2>2 DEF ModeBook, Kept
  <2> QED
    BY <2>1, <2>2
<1>6. \A r, s \in DOMAIN LampBook : LampBook[r].id = LampBook[s].id => r = s
  <2>1. CASE kind = "lamps"
    BY <1>2, <1>3, <2>1, IdsOnce, SizesOfFiles, BooksOfFile
  <2>2. CASE kind # "lamps"
    BY <2>2 DEF LampBook, Kept
  <2> QED
    BY <2>1, <2>2
<1>7. SongAnswer = <<"none">> /\ \A n : Answer(n) = <<"none">>
  BY <1>2 DEF SongAnswer, Answer
<1>8. Songs!BookInit
  BY <1>2, <1>4, <1>7 DEF Songs!BookInit, SongBook, SongAnswer
<1>9. Modes!BookInit
  BY <1>5, <1>7 DEF Modes!BookInit, ModeBook
<1>10. Lamps!BookInit
  BY <1>6, <1>7 DEF Lamps!BookInit, LampBook
<1> QED
  BY <1>8, <1>9, <1>10

\* Songs, light modes and lamps are the lists that their commands promise: 03, 04,
\* 05, 13, 15, 16 and 34 change the entry they name and no other, but for the stray
\* mark in the first mode, until 03 spoils the songs; 33 adds its lamps one by one;
\* a power cut in a rewrite empties the list; and readers report what was last written.
THEOREM DevicesKeptHolds == Spec => DevicesKept
<1>1. Init => DeviceInv
  BY DeviceInit
<1>2. Init => Songs!BookInit /\ Modes!BookInit /\ Lamps!BookInit
  BY BookInits
<1>3. DeviceInv /\ [Next]_vars => DeviceInv'
  BY DeviceNext
<1>4. DeviceInv /\ DeviceInv' /\ [Next]_vars => [Songs!Next]_(Songs!bookVars)
  BY SongStepMaps
<1>5. DeviceInv /\ [Next]_vars => [Modes!Next]_(Modes!bookVars)
  BY ModeStepMaps
<1>6. DeviceInv /\ [Next]_vars => [Lamps!Next]_(Lamps!bookVars)
  BY LampStepMaps
<1> QED
  BY <1>1, <1>2, <1>3, <1>4, <1>5, <1>6, PTL
  DEF Spec, DevicesKept, Songs!Spec, Modes!Spec, Lamps!Spec
=============================================================================
