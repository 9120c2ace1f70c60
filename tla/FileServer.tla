----------------------------- MODULE FileServer -----------------------------
(***************************************************************************)
(* The file subsystem: main() of file/file_interface.c and the functions   *)
(* it calls.  One process takes the commands of the main control system    *)
(* one at a time and keeps the alarms (/home/04.txt) and the reminders     *)
(* (/home/03.txt) in text files of one field per line, "iii;value", a      *)
(* fixed number of lines per record.  A command that changes a file reads  *)
(* it, empties it with fopen(.., "w") and writes it anew, so a power cut   *)
(* in between leaves it empty.                                             *)
(***************************************************************************)
EXTENDS Integers, Sequences, FiniteSets

CONSTANTS
    Ids,        \* ids of records; the lines of record i are i, i + 1, ...
    Settings,   \* what a set command writes
    Strays,     \* may set_alarm_on's uninitialised counter hold 3?
    Books,      \* which files the commands of a behaviour may be about
    MaxLines    \* bound: no record is added to a longer file

Marks == {"a", "b"}                     \* alarm on, alarm off
Unset == "unknown"

ASSUME IdsAssumption == Ids \subseteq Nat /\ \A i \in Ids : i % 10 = 0
ASSUME SettingsAssumption == Settings \cap (Marks \cup {Unset, "joined"}) = {}
ASSUME BoundsAssumption == Strays \subseteq BOOLEAN /\ FALSE \in Strays
                           /\ MaxLines \in Nat

Names == {"alarm", "alert"}
Size  == [alarm |-> 9, alert |-> 6]     \* FILE_ALARM_LINES_RECORD, ..ALERT..

ASSUME BooksAssumption == Books \subseteq SUBSET Names

VARIABLES
    file,       \* name -> [lines, open]: open if the last line lacks its "\r\n"
    pc,         \* "wait" for a command, "write" after fopen(.., "w"), "dead"
    cur, mem,   \* the file that is being written and its new contents
    out,        \* name -> the last answer about it
    about,      \* the files the commands of this behaviour are about
    wiped,      \* history: a power cut has left the alarm file empty
    joined      \* history: a record was added behind an open line of alerts

vars == <<file, pc, cur, mem, out, about, wiped, joined>>

-----------------------------------------------------------------------------
(* Files *)

NoId  == -1
Blank == [id |-> NoId, val |-> ""]
Line(id, v) == [id |-> id, val |-> v]
EmptyFile == [lines |-> <<>>, open |-> FALSE]

\* How far line k is from the head of its record, and the lines at which the handlers look for the head of a record.
Offset(k, n) == (k - 1) % n
Heads(f, n) == {k \in DOMAIN f.lines : Offset(k, n) = 0}

\* strncmp(buf, id, strlen(buf)): a blank head passes for any id.
Passes(line, id) == line.id \in {id, NoId}
Found(f, n, id) == \E k \in Heads(f, n) : Passes(f.lines[k], id)
HeadOf(f, n, id) ==
    CHOOSE k \in Heads(f, n) : /\ Passes(f.lines[k], id)
                               /\ \A j \in Heads(f, n) : Passes(f.lines[j], id) => k <= j

\* Readers answer "unknown" unless the file consists of whole records.
Readable(f, n) == f.lines # <<>> /\ Len(f.lines) % n = 0

\* The line that starts with id, where the rewriting functions edit.
StartsWith(f, id) == \E p \in DOMAIN f.lines : f.lines[p].id = id
PlaceOf(f, id)    == CHOOSE p \in DOMAIN f.lines : f.lines[p].id = id

-----------------------------------------------------------------------------
(* write_alarm() *)

AlarmWritten == {0, 1, 4, 5, 6, 7}      \* the other three lines are copied

\* Mutant of EditAlarm: the id is advanced by two past the copied lines.
EditAlarmIds(f, id, v) ==
    IF ~StartsWith(f, id) THEN f
    ELSE LET p == PlaceOf(f, id)
         IN [f EXCEPT !.lines = [k \in DOMAIN @ |->
               IF k - p \in AlarmWritten
               THEN Line(IF k - p < 4 THEN id + (k - p) ELSE id + (k - p) - 1, v)
               ELSE @[k]]]

\* Mutant of EditAlarm: the on/off line is not copied but written.
EditAlarmAll(f, id, v) ==
    IF ~StartsWith(f, id) THEN f
    ELSE LET p == PlaceOf(f, id)
         IN [f EXCEPT !.lines = [k \in DOMAIN @ |->
               IF k - p \in AlarmWritten \cup {3} THEN Line(id + (k - p), v) ELSE @[k]]]

EditAlarm(f, id, v) ==
    IF ~StartsWith(f, id) THEN f
    ELSE LET p == PlaceOf(f, id)
         IN [f EXCEPT !.lines = [k \in DOMAIN @ |->
               IF k - p \in AlarmWritten THEN Line(id + (k - p), v) ELSE @[k]]]

\* A new record starts with "\r\n", which ends an open line or makes a blank
\* one, and its last line stays open.
NewAlarm(id, v) ==
    [d \in 1 .. 9 |-> Line(id + d - 1, IF d - 1 \in AlarmWritten THEN v ELSE Unset)]
AppendAlarm(f, id, v) ==
    [lines |-> (IF f.open THEN f.lines ELSE Append(f.lines, Blank)) \o NewAlarm(id, v),
     open  |-> TRUE]

(* set_alarm_on() *)

\* The mark goes into the third line behind the last line that starts with id.
Third(f, id, k) == /\ k > 3 /\ f.lines[k - 3].id = id
                   /\ \A j \in k - 2 .. k : f.lines[j].id # id

\* Mutant of Mark: the mark is a NUL character.
MarkNul(f, id, m) ==
    [f EXCEPT !.lines = [k \in DOMAIN @ |->
        IF Third(f, id, k) THEN Line(@[k].id, "") ELSE @[k]]]

Mark(f, id, m) ==
    [f EXCEPT !.lines = [k \in DOMAIN @ |->
        IF Third(f, id, k) THEN Line(@[k].id, m) ELSE @[k]]]

\* The counter of lines is only set at the first line that starts with id: if
\* it happens to hold 3 before, the first line of the file is marked.
Strayed(f, id) == f.lines # <<>> /\ f.lines[1].id # id
MarkFirst(f, m) == [f EXCEPT !.lines[1] = Line(@.id, m)]

(* write_alert() *)

NewAlert(id, v) == [d \in 1 .. 6 |-> Line(id + d - 1, v)]

\* Mutant of EditAlert: one old line too many is kept.
EditAlertKeeps(f, id, v) ==
    IF ~StartsWith(f, id) THEN f
    ELSE LET p == PlaceOf(f, id)
         IN [lines |-> SubSeq(f.lines, 1, p - 1) \o NewAlert(id, v)
                         \o SubSeq(f.lines, p + 5, Len(f.lines)),
             open  |-> f.open /\ p + 5 < Len(f.lines)]

EditAlert(f, id, v) ==
    IF ~StartsWith(f, id) THEN f
    ELSE LET p == PlaceOf(f, id)
         IN [lines |-> SubSeq(f.lines, 1, p - 1) \o NewAlert(id, v)
                         \o SubSeq(f.lines, p + 6, Len(f.lines)),
             open  |-> f.open /\ p + 5 < Len(f.lines)]

\* A new record starts where the file ends: behind an open line they join.
Joined(line) == Line(line.id, "joined")
AppendAlert(f, id, v) ==
    [lines |-> IF f.open
               THEN [f.lines EXCEPT ![Len(f.lines)] = Joined(@)] \o Tail(NewAlert(id, v))
               ELSE f.lines \o NewAlert(id, v),
     open  |-> TRUE]

-----------------------------------------------------------------------------
(* Files as installed: alarms whose last line is open, reminders either way *)

Init ==
    /\ \E i \in Ids, v \in Settings, o \in BOOLEAN, none \in BOOLEAN :
         file = [alarm |-> [lines |-> NewAlarm(i, v), open |-> TRUE],
                 alert |-> IF none THEN EmptyFile
                           ELSE [lines |-> NewAlert(i, v), open |-> o]]
    /\ pc = "wait" /\ cur = "alarm" /\ mem = EmptyFile
    /\ out = [n \in Names |-> <<"none">>]
    /\ about \in Books
    /\ wiped = FALSE /\ joined = FALSE

-----------------------------------------------------------------------------
(* Handlers *)

Serving(n) == pc = "wait" /\ n \in about

\* Read the file, compute its new contents and empty it: fopen(.., "w").
Rewrite(n, g, answer) ==
    /\ file' = [file EXCEPT ![n] = EmptyFile]
    /\ cur' = n /\ mem' = g /\ pc' = "write"
    /\ out' = [out EXCEPT ![n] = answer]
    /\ UNCHANGED <<about, wiped>>

\* Answer a question without touching the files.
Say(n, answer) ==
    /\ Serving(n)
    /\ out' = [out EXCEPT ![n] = answer]
    /\ UNCHANGED <<file, pc, cur, mem, about, wiped, joined>>

\* fclose() has written the new contents.
Write ==
    /\ pc = "write"
    /\ file' = [file EXCEPT ![cur] = mem]
    /\ pc' = "wait" /\ mem' = EmptyFile
    /\ UNCHANGED <<cur, out, about, wiped, joined>>

\* 17, with all its fields: change alarm id or add it.
RingSet(id, v) ==
    LET f == file["alarm"]
        found == Found(f, 9, id)
    IN /\ Serving("alarm")
       /\ found \/ Len(f.lines) < MaxLines
       /\ Rewrite("alarm", IF found THEN EditAlarm(f, id, v) ELSE AppendAlarm(f, id, v),
                  <<"ok", id, v>>)
       /\ UNCHANGED joined

\* 17 or 24 with an empty field: nothing is written, "0" is answered.
Incomplete(n, id) == Say(n, <<"incomplete", id>>)

\* 18 and 19: switch alarm id on or off.
RingSwitch(id, m) ==
    \E stray \in Strays :
      LET f == file["alarm"]
          strayed == stray /\ Strayed(f, id)
      IN /\ Serving("alarm")
         /\ \/ /\ strayed /\ f.lines[1] = Blank     \* strchr() finds no ';'
               /\ pc' = "dead"
               /\ UNCHANGED <<file, cur, mem, out, about, wiped>>
            \/ /\ ~(strayed /\ f.lines[1] = Blank)
               /\ Rewrite("alarm", Mark(IF strayed THEN MarkFirst(f, m) ELSE f, id, m),
                          <<"ok", id, m>>)
         /\ UNCHANGED joined

\* 24, with all its fields: change reminder id or add it.
RemindSet(id, v) ==
    LET f == file["alert"]
        found == Found(f, 6, id)
    IN /\ Serving("alert")
       /\ found \/ Len(f.lines) < MaxLines
       /\ Rewrite("alert", IF found THEN EditAlert(f, id, v) ELSE AppendAlert(f, id, v),
                  <<"ok", id, v>>)
       /\ joined' = (joined \/ (~found /\ f.open))

\* 17 and 24 with "?": the id of the last record.
LastRecord(n) ==
    LET f == file[n]
    IN Say(n, IF Readable(f, Size[n])
              THEN <<"last", f.lines[Len(f.lines) - Size[n] + 1].id>> ELSE <<Unset>>)

\* Fields D of the record at line k.
Record(f, k, D) == [d \in D |-> f.lines[k + d].val]

\* 20 (how long to put an alarm off), 21 (an alarm) and 25 (a reminder).
Tell(n, id, D) ==
    LET f == file[n]
    IN Say(n, IF Readable(f, Size[n]) /\ Found(f, Size[n], id)
              THEN <<"fields", Record(f, HeadOf(f, Size[n], id), D)>> ELSE <<Unset>>)

\* 28 (alarms) and 35 (reminders).
List(n, D) ==
    LET f == file[n]
        s == Size[n]
        head(r) == s * (r - 1) + 1
    IN Say(n, IF Readable(f, s)
              THEN <<"list", [r \in 1 .. Len(f.lines) \div s |->
                               <<f.lines[head(r)].id, Record(f, head(r), D)>>]>>
              ELSE <<Unset>>)

RingDelay(id)  == Tell("alarm", id, {8})
RingNow(id)    == Tell("alarm", id, 2 .. 7)
RingList       == List("alarm", {0, 1, 3})
RemindNow(id)  == Tell("alert", id, {0, 1})
RemindNames    == List("alert", {1})

\* The power fails while a file is empty, or after the process has died; the
\* process starts again with the system.
PowerCut ==
    /\ pc \in {"write", "dead"}
    /\ pc' = "wait" /\ mem' = EmptyFile
    /\ out' = IF pc = "write" THEN [out EXCEPT ![cur] = <<"none">>] ELSE out
    /\ wiped' = (wiped \/ (pc = "write" /\ cur = "alarm"))
    /\ UNCHANGED <<file, cur, about, joined>>

Next ==
    \/ \E id \in Ids, v \in Settings : RingSet(id, v) \/ RemindSet(id, v)
    \/ \E id \in Ids, m \in Marks : RingSwitch(id, m)
    \/ \E id \in Ids : RingDelay(id) \/ RingNow(id) \/ RemindNow(id)
    \/ \E n \in Names : LastRecord(n) \/ \E id \in Ids : Incomplete(n, id)
    \/ RingList \/ RemindNames
    \/ Write \/ PowerCut

Spec == Init /\ [][Next]_vars

-----------------------------------------------------------------------------
(* Properties *)

\* A file as the commands have left it: a rewrite counts from its start.
Current(n) == IF pc = "write" /\ cur = n THEN mem ELSE file[n]

Values == Settings \cup Marks \cup {Unset, "joined"}
LineTypes == [id : Nat \cup {NoId}, val : Values] \cup {Blank}
FileTypes == [lines : Seq(LineTypes), open : BOOLEAN]
\* Types of the files and of the process's state.
TypeOK ==
    /\ file \in [Names -> FileTypes] /\ mem \in FileTypes
    /\ pc \in {"wait", "write", "dead"} /\ cur \in Names /\ about \subseteq Names
    /\ wiped \in BOOLEAN /\ joined \in BOOLEAN
    /\ DOMAIN out = Names

\* The entries of a file of whole records.
BookOf(f, n) ==
    [r \in 1 .. Len(f.lines) \div n |->
        [id   |-> f.lines[n * (r - 1) + 1].id,
         vals |-> [d \in 0 .. n - 1 |-> f.lines[n * (r - 1) + 1 + d].val]]]

\* The whole of write_alarm(), set_alarm_on() and the readers: until a power
\* cut empties it, /home/04.txt is a list of alarms in which a command changes
\* the alarm it names, and no other but for the stray mark, and every reader
\* reports what was last written.
Alarms == INSTANCE RecordBook WITH
    N <- 9, Written <- AlarmWritten, Switchable <- 3,
    Views <- {{8}, 2 .. 7, {0, 1, 3}}, Slips <- TRUE \in Strays, Refuses <- FALSE, Added <- {},
    book   <- IF wiped THEN <<>> ELSE BookOf(Current("alarm"), 9),
    alive  <- ~wiped,
    answer <- IF wiped THEN <<"none">> ELSE out["alarm"]
AlarmsKept == Alarms!Spec

\* The same of write_alert() and its readers, through power cuts, until a
\* reminder is added to a file whose last line is open.
Alerts == INSTANCE RecordBook WITH
    N <- 6, Written <- 0 .. 5, Switchable <- 0,
    Views <- {{1}, {0, 1}}, Slips <- FALSE, Refuses <- FALSE, Added <- {},
    book   <- IF joined THEN <<>> ELSE BookOf(Current("alert"), 6),
    alive  <- ~joined,
    answer <- IF joined THEN <<"none">> ELSE out["alert"]
AlertsKept == Alerts!Spec

\* Line d of a record has the record's id plus d, no id occurs twice, and the
\* open last line is what write_alarm() needs to append the next record.
Whole(f) ==
    LET L == f.lines
    IN /\ Readable(f, 9) /\ f.open
       /\ \A k \in Heads(f, 9) : L[k].id \in Ids
       /\ \A j, k \in Heads(f, 9) : L[j].id = L[k].id => j = k
       /\ \A k \in DOMAIN L : L[k].id = L[k - Offset(k, 9)].id + Offset(k, 9)

\* Whatever happened before, power cuts included: when the alarm file reads as
\* whole records, it is one, so no reader of handlers 20, 21 and 28 takes one
\* field, or one alarm, for another.
AlarmAligned == Readable(Current("alarm"), 9) => Whole(Current("alarm"))

\* The invariant behind it: until a power cut the alarm file is a list of whole
\* records; after one it is empty, or holds one record behind a blank line,
\* which every id passes for, so that no record is ever added to it.
Ruined(f) == \/ f.lines = <<>> /\ ~f.open
             \/ Len(f.lines) = 10 /\ f.lines[1].id = NoId
AlarmInv ==
    /\ Whole(Current("alarm")) \/ Ruined(Current("alarm"))
    /\ pc = "write" => file[cur] = EmptyFile

\* What was acknowledged can be read: record id is found with its new values.
Acknowledged(n, D) ==
    \A id \in Ids, v \in Settings :
      pc = "wait" /\ out[n] = <<"ok", id, v>> =>
        LET f == file[n] IN
          /\ Readable(f, Size[n]) /\ Found(f, Size[n], id)
          /\ Record(f, HeadOf(f, Size[n], id), D) = [d \in D |-> v]

\* "Add reminder" (CMD_24) answers "0" when the reminder is in the list.
RemindersListed == Acknowledged("alert", 0 .. 5)
=============================================================================
