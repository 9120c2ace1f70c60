---------------------------- MODULE DeviceFiles ----------------------------
(***************************************************************************)
(* The file subsystem (file/file_interface.c) on the files of the devices: *)
(* songs, light modes, and lamps with their switches.  They are record     *)
(* files as in FileServer: one field per line, a fixed number of lines per *)
(* record, read, emptied and written anew to change anything.  A list of   *)
(* lamps (33) is installed by one such rewrite for every lamp.             *)
(*                                                                         *)
(* A text is a sequence of characters, which are numbers.                  *)
(***************************************************************************)
EXTENDS Integers, Sequences

CONSTANTS
    Kinds,      \* which of the files a behaviour may be about
    Ids,        \* ids of records; the lines of record i are i, i + 1, ...
    Texts,      \* what fields hold
    Messages,   \* lists of lamps to install: sequences of [0 .. 5 -> texts]
    Strays      \* may set_light_use's uninitialised counter hold 6?

Names == {"songs", "modes", "lamps"}
Size  == [songs |-> 6, modes |-> 7, lamps |-> 6]    \* FILE_.._LINES_RECORD
Place == [songs |-> 4, modes |-> 6]     \* where the liked, or used, mark is
Choice == 2                             \* what 03 writes
Marks == {<<1>>, <<2>>}
Unset == <<0>>                          \* "unknown"
Joined == <<0, 0>>                      \* a line with another one behind it
Fields == 0 .. 5                        \* of a lamp; 3, 4 and 5 of its switch
Text  == Seq(Nat)
NoFields == [d \in Fields |-> <<>>]

ASSUME KindsAssumption == Kinds \subseteq Names
ASSUME IdsAssumption == Ids \subseteq Nat /\ \A i \in Ids : i % 10 = 0
ASSUME TextsAssumption == Texts \subseteq Text \ {<<>>}
ASSUME MessagesAssumption == \A msg \in Messages : msg \in Seq([Fields -> Text])
\* 33 numbers the lamps of a message 0, 10, 20, .. : these are ids like the others.
ASSUME LampIdsAssumption ==
    \A msg \in Messages : \A r \in 1 .. Len(msg) : 10 * (r - 1) \in Ids
ASSUME StraysAssumption == Strays \subseteq BOOLEAN

VARIABLES
    kind,       \* the file this behaviour is about
    there,      \* it exists
    lines,      \* its lines, [id, val]
    pc,         \* "wait" for a command; "write" after fopen(.., "w"); "parse" a
                \* list of lamps; "lamp": write_lamp(), after fopen(.., "w"); "dead"
    mem,        \* the new contents
    buf,        \* the fields parsed last
    todo,       \* the lamps still to parse
    lampId,     \* the id of the next lamp
    out,        \* the last answer
    spoilt,     \* history: a field was put behind the last record
    sent        \* history: the messages of which the whole list was installed
                \* last, unless a switch was set or the power failed since: at
                \* most one

vars == <<kind, there, lines, pc, mem, buf, todo, lampId, out, spoilt, sent>>
parsing == <<buf, todo, lampId>>

-----------------------------------------------------------------------------
(* Files *)

Line(id, v) == [id |-> id, val |-> v]
Whole(id, vals, n) == [d \in 1 .. n |-> Line(id + d - 1, vals[d - 1])]

Heads(L, n) == {k \in DOMAIN L : (k - 1) % n = 0}
Readable(L, n) == L # <<>> /\ Len(L) % n = 0

\* The line that starts with id.
StartsWith(L, id) == \E p \in DOMAIN L : L[p].id = id
PlaceOf(L, id)    == CHOOSE p \in DOMAIN L : L[p].id = id

\* write_file_line() of an id that no line starts with: behind the last line,
\* without a line break of its own, so that the next one joins it.
Behind(L, open, id, v) ==
    IF open THEN [L EXCEPT ![Len(L)] = Line(@.id, Joined)] ELSE Append(L, Line(id, v))

\* Mutant of Marked: the lines are counted from one.
MarkedEarly(L, id, c, m) ==
    [k \in DOMAIN L |->
       IF k > c - 1 /\ L[k - c + 1].id = id THEN Line(L[k].id, m) ELSE L[k]]

\* set_music_like(), set_light_use() and write_file_line(): change line c behind the one with the id.
Marked(L, id, c, m) ==
    [k \in DOMAIN L |->
       IF k > c /\ L[k - c].id = id THEN Line(L[k].id, m) ELSE L[k]]

\* write_switch(): three lines are written, from the one with the id on.
EditSwitch(L, id, v) ==
    LET p == PlaceOf(L, id)
    IN [k \in DOMAIN L |-> IF k - p \in 0 .. 2 THEN Line(id + (k - p), v) ELSE L[k]]

\* Mutant of AppendSwitch: the id is counted back once more.
AppendSwitchBack(L, id, v) ==
    L \o Whole(id - 6, [d \in Fields |-> IF d < 3 THEN Unset ELSE v], 6)

\* Or it makes up a lamp for the switch.
AppendSwitch(L, id, v) ==
    L \o Whole(id - 3, [d \in Fields |-> IF d < 3 THEN Unset ELSE v], 6)

\* memcpy() of a field into a buffer that holds the one before it.
Overlay(new, old) == new \o SubSeq(old, Len(new) + 1, Len(old))

-----------------------------------------------------------------------------
(* Songs and modes are installed with the system; lamps are not. *)

Entry(n, id, v) ==
    Whole(id, [d \in 0 .. Size[n] - 1 |->
                IF n # "lamps" /\ d = Place[n] THEN <<2>> ELSE v], Size[n])

Init ==
    /\ kind \in Kinds /\ there \in BOOLEAN
    /\ \E i, j \in Ids, v \in Texts :
         lines \in IF ~there THEN {<<>>}
                   ELSE IF kind = "lamps" THEN {<<>>, Entry(kind, i, v)}
                   ELSE {Entry(kind, i, v)} \cup
                        IF i = j THEN {} ELSE {Entry(kind, i, v) \o Entry(kind, j, v)}
    /\ pc = "wait" /\ mem = <<>>
    /\ buf = NoFields /\ todo = <<>> /\ lampId = 0
    /\ out = <<"none">> /\ spoilt = FALSE /\ sent = {}

-----------------------------------------------------------------------------
(* Handlers *)

Serving(n) == pc = "wait" /\ kind = n

\* Every function that changes a file uses fopen(.., "r") untested: without
\* the file the process dies.
Rewrite(L, answer) ==
    IF there
    THEN /\ pc' = "write" /\ mem' = L /\ lines' = <<>> /\ out' = answer
         /\ UNCHANGED <<kind, there, parsing>>
    ELSE pc' = "dead" /\ UNCHANGED <<kind, there, lines, mem, parsing, out>>

Say(answer) ==
    out' = answer /\ UNCHANGED <<kind, there, lines, pc, mem, parsing, spoilt, sent>>

\* fclose() has written the new contents.
Write ==
    /\ pc = "write" /\ pc' = "wait"
    /\ lines' = mem /\ mem' = <<>>
    /\ UNCHANGED <<kind, there, parsing, out, spoilt, sent>>

\* 04 and 05: like a song, or not; "1" if there is none with this id.
MusicLike(id, m) ==
    /\ Serving("songs")
    /\ Rewrite(Marked(lines, id, Place["songs"], m),
               IF StartsWith(lines, id) THEN <<"ok", id, m>> ELSE <<"refused", id>>)
    /\ UNCHANGED <<spoilt, sent>>

\* 03: choose a song's third field; the answer is "0" also if there is none with
\* this id.
MusicChoose(id, v) ==
    /\ Serving("songs")
    /\ LET known == StartsWith(lines, id)
       IN /\ Rewrite(IF known THEN Marked(lines, id, Choice, v)
                     ELSE Behind(lines, spoilt /\ lines # <<>>, id, v), <<"ok", id, v>>)
          /\ spoilt' = (spoilt \/ (there /\ ~known))
    /\ UNCHANGED sent

\* 13, 15 and 16: use a mode, or not.  If the counter happens to hold 6 before it
\* is set, the first line of the file gets the mark, and loses the rest.
LightUse(id, m) ==
    \E stray \in Strays :
      LET strayed == stray /\ lines # <<>> /\ lines[1].id # id
          L == IF strayed THEN [lines EXCEPT ![1] = Line(@.id, m)] ELSE lines
      IN /\ Serving("modes")
         /\ Rewrite(Marked(L, id, Place["modes"], m), <<"ok", id, m>>)
         /\ UNCHANGED <<spoilt, sent>>

\* 34: change the switch of lamp id, or add it; the id it is sent is that of its line.
SwitchSet(id, v) ==
    /\ Serving("lamps")
    /\ LET found == \E k \in Heads(lines, 6) :
                      k + 3 \in DOMAIN lines /\ lines[k + 3].id = id + 3
       IN Rewrite(IF found THEN EditSwitch(lines, id + 3, v)
                  ELSE AppendSwitch(lines, id + 3, v), <<"ok", id, v>>)
    /\ sent' = {} /\ UNCHANGED spoilt

\* 34 with an empty field: nothing is written, "0" is answered.
SwitchIncomplete(id) == Serving("lamps") /\ Say(<<"incomplete", id>>)

\* 33: the file is emptied, then the lamps of the message are parsed.
LampsSet(msg) ==
    /\ Serving("lamps")
    /\ there' = TRUE /\ lines' = <<>>
    /\ pc' = "parse" /\ todo' = msg /\ lampId' = 0
    /\ buf' = NoFields
    /\ out' = <<"none">> /\ sent' = {msg}
    /\ UNCHANGED <<kind, mem, spoilt>>

\* Mutant of Parse: the file is not read again before it is rewritten.
ParseAlone ==
    /\ pc = "parse" /\ todo # <<>>
    /\ todo' = Tail(todo)
    /\ buf' = [d \in Fields |-> Overlay(Head(todo)[d], buf[d])]
    /\ IF \E d \in Fields : buf'[d] = <<>>
       THEN UNCHANGED <<pc, mem, lines, lampId>>
       ELSE /\ pc' = "lamp" /\ lines' = <<>>
            /\ mem' = Whole(lampId, buf', 6)
            /\ lampId' = lampId + 10
    /\ UNCHANGED <<kind, there, out, spoilt, sent>>

\* One lamp: its fields go over those of the lamp before; if none is empty then,
\* write_lamp() reads the file, empties it and writes it with the lamp.
Parse ==
    /\ pc = "parse" /\ todo # <<>>
    /\ todo' = Tail(todo)
    /\ buf' = [d \in Fields |-> Overlay(Head(todo)[d], buf[d])]
    /\ IF \E d \in Fields : buf'[d] = <<>>
       THEN UNCHANGED <<pc, mem, lines, lampId>>
       ELSE /\ pc' = "lamp" /\ lines' = <<>>
            /\ mem' = lines \o Whole(lampId, buf', 6)
            /\ lampId' = lampId + 10
    /\ UNCHANGED <<kind, there, out, spoilt, sent>>

LampWritten ==
    /\ pc = "lamp" /\ pc' = "parse"
    /\ lines' = mem /\ mem' = <<>>
    /\ UNCHANGED <<kind, there, parsing, out, spoilt, sent>>

Installed ==
    /\ pc = "parse" /\ todo = <<>> /\ pc' = "wait"
    /\ buf' = NoFields /\ lampId' = 0
    /\ UNCHANGED <<kind, there, lines, mem, todo, out, spoilt, sent>>

-----------------------------------------------------------------------------
(* Readers *)

\* Fields D of the record at line k, of one or of all.
Record(k, D) == [d \in D |-> lines[k + d].val]
Tell(n, id, D) ==
    LET has == {k \in Heads(lines, Size[n]) : lines[k].id = id}
    IN /\ Serving(n)
       /\ Say(IF Readable(lines, Size[n]) /\ has # {}
              THEN <<"fields", Record(CHOOSE k \in has : TRUE, D)>> ELSE <<"unknown">>)
List(n, D) ==
    LET head(r) == Size[n] * (r - 1) + 1
    IN /\ Serving(n)
       /\ Say(IF Readable(lines, Size[n])
              THEN <<"list", [r \in 1 .. Len(lines) \div Size[n] |->
                               <<lines[head(r)].id, Record(head(r), D)>>]>>
              ELSE <<"unknown">>)

MusicFind     == List("songs", {0, 2, 4})               \* 00
ModeFind      == List("modes", {0})                     \* 11
Mode(id)      == Tell("modes", id, 1 .. 5)              \* 07, 12, 14 and 21
LampInfo      == List("lamps", {0, 1, 3, 4})            \* 31
LampStatus    == List("lamps", Fields)                  \* 32

\* 01 asks for six lines only, and so answers on a list that 03 has spoilt.  It reads
\* the path, then the name, into the buffer that held the id: a line that is not
\* there leaves what was read before.  The end of the file says "unknown" only if a
\* record ends there.
Played(id) ==
    LET has  == {k \in Heads(lines, 6) : lines[k].id = id}
        k    == CHOOSE first \in has : \A q \in has : first <= q
        field(d, before) == IF k + d \in DOMAIN lines THEN lines[k + d].val ELSE before
        path == field(3, <<id>>)
    IN IF Len(lines) >= 6 /\ has # {}
       THEN <<"fields", [d \in {1, 3} |-> IF d = 3 THEN path ELSE field(1, path)]>>
       ELSE IF Len(lines) < 6 \/ Len(lines) % 6 = 0 THEN <<"unknown">> ELSE <<"nothing">>
MusicPlay(id) == Serving("songs") /\ Say(Played(id))

-----------------------------------------------------------------------------
\* The power fails while the file is open, between two lamps, or after the
\* process has died; the process starts again with the system.
PowerCut ==
    /\ pc \in {"write", "parse", "lamp", "dead"}
    /\ pc' = "wait" /\ mem' = <<>>
    /\ buf' = NoFields /\ todo' = <<>> /\ lampId' = 0
    /\ out' = IF pc = "dead" THEN out ELSE <<"none">>
    /\ sent' = {}
    /\ UNCHANGED <<kind, there, lines, spoilt>>

Next ==
    \/ \E id \in Ids, m \in Marks : MusicLike(id, m) \/ LightUse(id, m)
    \/ \E id \in Ids, v \in Texts : SwitchSet(id, v) \/ MusicChoose(id, v)
    \/ \E id \in Ids : SwitchIncomplete(id) \/ MusicPlay(id) \/ Mode(id)
    \/ \E msg \in Messages : LampsSet(msg)
    \/ Parse \/ LampWritten \/ Installed \/ Write
    \/ MusicFind \/ ModeFind \/ LampInfo \/ LampStatus
    \/ PowerCut

Spec == Init /\ [][Next]_vars

-----------------------------------------------------------------------------
(* Properties *)

\* Types of the file and of the process's state.
TypeOK ==
    /\ kind \in Names /\ there \in BOOLEAN
    /\ lines \in Seq([id : Nat, val : Text]) /\ mem \in Seq([id : Nat, val : Text])
    /\ pc \in {"wait", "write", "parse", "lamp", "dead"}
    /\ buf \in [Fields -> Text] /\ todo \in Seq([Fields -> Text]) /\ lampId \in Nat
    /\ spoilt \in BOOLEAN /\ sent \subseteq Messages

\* The file as the commands have left it: a rewrite counts from its start.
Current == IF pc \in {"write", "lamp"} THEN mem ELSE lines

\* Its entries; a line that is not in its place gives no entry a field.
BookOf(n) ==
    [r \in 1 .. Len(Current) \div n |->
       LET h == n * (r - 1) + 1
       IN [id   |-> Current[h].id,
           vals |-> [d \in 0 .. n - 1 |->
                      IF Current[h + d].id = Current[h].id + d
                      THEN Current[h + d].val ELSE <<>>]]]

Kept(n, book) == IF kind = n THEN book ELSE <<>>
Answer(n) == IF kind = n THEN out ELSE <<"none">>

\* Each of the three files is a list of entries, through power cuts and whatever
\* is asked: a song or a mode is changed and no other, but for the stray mark,
\* until 03 is sent an unknown id; a switch is changed or added and no lamp or
\* other switch touched; lamps are added one by one, none twice; and readers
\* report what was last written.
Songs == INSTANCE RecordBook WITH
    N <- 6, Written <- {Choice}, Switchable <- Place["songs"],
    Views <- {{0, 2, 4}, {1, 3}}, Slips <- FALSE, Refuses <- TRUE, Added <- {},
    Settings <- Texts, alive <- ~spoilt,
    book   <- IF spoilt THEN <<>> ELSE Kept("songs", BookOf(6)),
    answer <- IF spoilt THEN <<"none">> ELSE Answer("songs")
Modes == INSTANCE RecordBook WITH
    N <- 7, Written <- {}, Switchable <- Place["modes"], Views <- {{0}, 1 .. 5},
    Slips <- TRUE \in Strays, Refuses <- FALSE, Added <- {}, Settings <- {},
    book <- Kept("modes", BookOf(7)), alive <- TRUE, answer <- Answer("modes")

Lamps == INSTANCE RecordBook WITH
    N <- 6, Written <- {3, 4, 5}, Switchable <- 0, Views <- {{0, 1, 3, 4}, Fields},
    Slips <- FALSE, Refuses <- FALSE, Added <- [Fields -> Text \ {<<>>}], Settings <- Texts,
    book <- Kept("lamps", BookOf(6)), alive <- TRUE, answer <- Answer("lamps")

DevicesKept == Songs!Spec /\ Modes!Spec /\ Lamps!Spec

\* A file of the first n lamps of a message: lamp for lamp, once the first lamps
\* without a field are left out.  Each field is the one sent, which only a longer
\* one before it in the message can have lengthened.
Longest(msg, r, d) == \A q \in 1 .. r : Len(msg[q][d]) <= Len(msg[r][d])
Complete(msg, r) == \A d \in Fields : \E q \in 1 .. r : msg[q][d] # <<>>
Copied(text, msg, r, d) ==
    LET v == msg[r][d]
    IN /\ Len(v) <= Len(text) /\ SubSeq(text, 1, Len(v)) = v
       /\ Longest(msg, r, d) => text = v
Holds(L, msg, n) ==
    LET skipped == n - Len(L) \div 6
    IN /\ Len(L) % 6 = 0 /\ skipped \in 0 .. n
       /\ \A r \in 1 .. n : Complete(msg, r) <=> r > skipped
       /\ \A r \in skipped + 1 .. n, d \in Fields :
            LET place == r - skipped - 1
                f == L[6 * place + 1 + d]
            IN f.id = 10 * place + d /\ Copied(f.val, msg, r, d)

\* When the process waits again, the file holds all the lamps of the message.
InstalledAsSent == \A msg \in sent : pc = "wait" => Holds(lines, msg, Len(msg))

\* The invariant behind it: until then, the first ones; and a buffer is as long
\* as the longest of the fields that were parsed into it.
Latest(b, msg, n) ==
    \A d \in Fields :
      /\ \A q \in 1 .. n : Len(msg[q][d]) <= Len(b[d])
      /\ Len(b[d]) = 0 \/ \E q \in 1 .. n : Len(b[d]) = Len(msg[q][d])
Parsed(msg) == Len(msg) - Len(todo)
InstallInv ==
    \A msg \in sent :
      /\ kind = "lamps" /\ pc \in {"wait", "parse", "lamp"}
      /\ pc = "wait" => Holds(lines, msg, Len(msg))
      /\ pc \in {"parse", "lamp"} =>
           /\ Parsed(msg) \in 0 .. Len(msg)
           /\ todo = SubSeq(msg, Parsed(msg) + 1, Len(msg))
           /\ Holds(Current, msg, Parsed(msg))
           /\ lampId = 10 * (Len(Current) \div 6)
           /\ Latest(buf, msg, Parsed(msg))
=============================================================================
