# Verification of the lamp controller

TLA+ models, model-checked instances and machine-checked proofs of the programs
under `src/`: a bedside lamp with music, alarms, reminders, speech commands and a
web service. Every definition of a model names the lines of the source it stands
for in `PROJECT.json` ("map").

## The system

One process per subsystem. They share a System V queue, key 1234, of messages
`{type, id, text[512]}`; each subsystem receives one type and answers with
another. The *main control system*, which sends the commands and takes the
answers, is not in this repository; the models treat it as an environment that
sends any command at any time and takes answers whenever it likes. All sends use
`IPC_NOWAIT` and only log a failure: **a message sent to a full queue is lost**.

| component | state | operations | talks to | hard behaviour |
|---|---|---|---|---|
| Audio, `audio/audio_interface.c` | shared byte `*audio_system_state` (bits PLAY, REC), volumes, `grammar_id`, `/tmp/rec.wav`, forked children | grammar, record and recognise, set/get volume, stop, ring, play | types 4 and 3; stop messages to children (0x1e) | unlocked read-modify-write of the byte by several processes, stops that race with ends and starts, failed forks, unreaped children |
| File, `file/file_interface.c`: alarms, reminders | `/home/04.txt`, `/home/03.txt`, 9 and 6 lines per record | set, switch on and off, read, list | types 8 and 7 | rewriting in place with a power cut between, open last lines, a counter that is not initialised |
| File: temporary store | `/tmp/store.txt` | `axx` appends a line, `bxx` takes the first | types 8 and 7 | lost answers, power cuts, a missing file |
| File: songs, light modes, lamps and switches | one file each, 6, 7 and 6 lines per record | 00, 01, 03 to 05; 07, 11 to 16, 21; 31 to 34 | types 8 and 7 | as above; files that were never installed; 33 parses a list into buffers it does not clear and rewrites the file once per lamp |
| File: clock, 62 | `/home/` files no other command reads or writes | 23, 62 | types 8 and 7 | - |
| Driver, `driver/driver_interface.c` | serial line; child and parent, each its own `msgid` | frames `*...#` to messages (child), messages to the line (parent) | types 6 and 5, UART | framing, read errors, a `write()` that nobody checks on a port that does not block, a child that keeps the id of a removed queue |
| Web, `web/web_interface.c` | `g_url[10]`, `url` and `lampcode` in shared memory | configure (`ff`), request by website id (parent), poll (child) | types 2 and 1, HTTP | shared memory written while it is read, failing requests, answers that end the parent or the child |
| HTTP client, `web/weblib.c` | one socket per request | connect, send, receive, parse | Web, `web/web.c` | partial sends, time-outs, descriptors on error paths |
| Message tool, `msg.c` | none | send, receive, remove the queue | all, through the queue | removal under running processes |
| `audio/rec.c`, the recording demonstration | father and child, `/tmp/rec.avi` | record, recognise, speak, in a cycle | types 8 and 7 | a reply that some paths never send, two loops that take from one type, a queue that outlives the program |
| `audio/audio.c`, `audio/upload.c`, `web/web.c`, `wifi.c` | none | straight-line tools | - | - |

Vendored and not modelled: `web/json` (cJSON), mediastreamer2, oRTP, ffmpeg,
speex, libogg, alsa-lib.

What makes each component correct:

- *Audio*: at most one recorder and one player; a recorder uploads its own
  recording; a bit that is set is cleared by somebody; a recording ends; a stop
  stops; a ring leaves the volume as it was.
- *Record files*: a command changes the record it names and no other; every reader
  reports what was last written; a file that can be read holds whole records;
  what is acknowledged is kept; a list of lamps is stored as it was sent.
- *Store*: first in, first out; nothing twice; nothing lost unnoticed.
- *Driver*: every frame on the line becomes one message, in order, or a logged
  loss, and nothing else does; every command comes to its `write()`.
- *Web*: what a poll mixes of configurations written meanwhile is bounded, and never
  older than its start; every request ends, and gives its socket back unless the
  transfer failed; a command of the server is passed on or lost, once; a configuration
  takes hold.
- *Queue*: after a removal the parents find the new queue.
- *Demonstration*: each recording is answered by its own result, in order, and
  nobody waits for what never comes.

## Modules

| module | what it is |
|---|---|
| `AudioControl` | the audio process, its children, the queue and the shared byte |
| `MC_AudioControl`, `AudioControl_*.cfg` | its instances |
| `AudioControlProofs` | six theorems about it |
| `StoreFile` | commands `axx` and `bxx`, the queue and `/tmp/store.txt` |
| `MC_StoreFile`, `StoreFile_*.cfg` | its instances |
| `StoreFileProofs` | four theorems about it |
| `RecordBook` | abstract: a list of entries that commands set, switch, add and read |
| `FileServer` | commands 17 to 21, 24, 25, 28 and 35 on the two files of lines; implements two `RecordBook`s |
| `MC_FileServer`, `FileServer_*.cfg` | its instances |
| `FileServerProofs` | two theorems about it |
| `FileBooksProofs` | extends them: the alarm file and the reminders file implement their `RecordBook`s |
| `DeviceFiles` | songs, light modes, lamps and switches; implements three more `RecordBook`s |
| `MC_DeviceFiles`, `DeviceFiles_all.cfg` | its instance |
| `DeviceFilesProofs` | three theorems about it: among them, that each file implements its `RecordBook` |
| `SerialLine` | the driver's two processes, the serial line, and the queue as `msg.c` uses and removes it |
| `MC_SerialLine`, `SerialLine_frames.cfg` | its instance |
| `SerialLineProofs` | four theorems about it |
| `WebClient` | the web subsystem's two processes, their shared memory, and `http_get()` |
| `MC_WebClient`, `WebClient_poll.cfg` | its instance |
| `WebClientProofs` | five theorems about it |
| `RecordDemo` | father and child of `rec.c` and their queue |
| `MC_RecordDemo`, `RecordDemo_cycles.cfg` | its instance |
| `RecordDemoProofs` | four theorems about it |

### AudioControl

`main()` of `audio_interface.c` is cut where another process can see or change
something: `Receive...` is a branch up to its first shared access; `CtlLoad` and
`CtlStore` are the two halves of `*audio_system_state |= BIT` and `&= ~BIT` (the
register is `reg`); `CtlSendStop` is the stop message and the second of sleep
after it; `CtlFork`, `CtlForkFails` and `CtlBadRing` are the ways on from a claimed
bit; `CtlReply` sends an answer. A child goes through `RecorderCapture` and
`RecorderAsr`, or `PlayerOpen`, `PlayerPoll` and `PlayerEof` (`RingVolume` and
`RingRestore` around a ring), then `ChildLoad` and `ChildStore` give the bit back
and `ChildReport` ends it. It stays a zombie: `main()` never waits for its
children, so slots in `Workers` run out as process table entries do. The
queue is three FIFO queues by type with one common capacity. Speech
recognition is an outcome, sound is left out.

History variables, read by no guard: `lost` (a store overwrote another process's
update), `overtaken` (a stop cleared PLAY under a player), `leaked` (bits left by a
failed fork or wrong ring parameters), `undone` (the volume was set while a ring was on,
or over the web before one, so that the ring's `set_vol(vol)` undoes it). They say
*when* a promise is off: it holds until then, and the model counts the ways in
which the code loses it. `undone` ends with the next volume
that is set with no ring on.

The mixer is `Ramp` while it holds a ring's own level; a ring with volume and step
leaves it alone. `getVol` reports the text of the last set command, which `set_vol()` may
have clamped (60 is 80 on the mixer); `RingRestoresVolume` speaks of the mixer.

### StoreFile

One action each for `axx` and `bxx` up to `fopen(.., "wb")`, which empties the
file, `Write` for `fclose()`, which fills it again, `Send` for the answer, and a
`PowerCut` at any point, after which `/tmp` is gone or not. A line is the number of the command that
brought it, so order and loss can be told. `dropped` collects the lines whose
answer the full queue refused.

### FileServer and RecordBook

A file is a sequence of lines `[id, value]` and the fact whether its last line is
*open*, that is, without line end: `write_alarm()` and `write_alert()` differ in
how they continue one. `EditAlarm`, `AppendAlarm`, `Mark`, `EditAlert` and
`AppendAlert` are what the three rewriting functions do to it; the handlers find a
record as the code does (`Found`, `HeadOf`: a blank head passes for any id, as
`strncmp` with length zero does), compute the new contents, empty the file and, in
`Write`, fill it. `set_alarm_on()` counts lines in an uninitialised variable: the
model lets it hold 3 or not at every call (`Strays`).

`RecordBook` is what a user expects of such a file: a list of entries with
fields; set changes one entry or adds one, switch changes one field, readers report
fields of an entry, of all entries or the last id. `FileServer` implements it
twice, with `BookOf` as the refinement mapping: a file is a book by cutting it into
records. For alarms the mapping holds until a power cut falls into a rewrite
(`wiped`), for reminders through power cuts until a reminder is added behind an
open line (`joined`); the abstract book may be spoilt at that moment. The stray
mark is allowed in the abstraction (`Scribble`) because the code does it; the proof
obligation is that it does nothing worse.

### DeviceFiles

The same handling of other files: a rewrite is a handler that computes the new
contents and empties the file, and `Write` that fills it. What is new here:

- The files may be missing (`there`): every function that rewrites one uses the
  result of `fopen(.., "r")` untested, and the process dies (`Rewrite`). Only
  `LampsSet` (33) creates its file.
- 33 empties the file, then parses one lamp of the message after another
  (`Parse`) and, for each that has no empty field, reads, empties and writes the
  whole file (`LampWritten`). The buffers the fields are parsed into are not
  cleared between lamps, so texts are sequences of characters here, and `Overlay`
  leaves the tail of a longer field behind a shorter one.
- `MusicChoose` (03) with an id the song file does not have still rewrites the
  file, and `write_file_line()` puts a line of its own behind the last record. The
  answer is "0" all the same. From then on the file is no list of records
  (`spoilt`), and the refinement ends there. The readers say "unknown", except 01
  (`MusicPlay`), which asks only for six lines and goes on answering.
- `LightUse` has the uninitialised counter of `set_light_use()` (`Strays`, as above).

`sent` is a history variable: the message of which the whole list was installed
last. The refinement mappings `Songs`, `Modes` and `Lamps` are three instances of
`RecordBook`; a behaviour is about one file (`kind`).

### SerialLine

`read_uart()` is cut at every `read()`: `ReadByte` takes the next byte of the line,
`ReadError` is a `read()` that returns -1, which the code takes for a byte: what
`ch` holds is used once more, and before the first byte of a frame `ch` is
uninitialised. A frame that does not fit into `rcv_buf` ends the model of the child
(`overrun`: what the code overwrites is not defined). Bytes in a frame are given by
their place on the line, so that doubling, loss and reordering can be told, and 0 is a
byte nobody sent.
`SendFrame` is `send_msg()` with the identifier the child had at the fork.
`ParentWrites` and `ParentRejoins` are the two ways `msgrcv()` returns to the parent. The
port is open O_NDELAY and the result of `write()` is not looked at: the line takes all of a
command (`obeyed`) or only a part or nothing of it (`cut`), and the parent goes on as before.
`ToolSends`, `ToolReceives` and `ToolRemoves` are the three uses of `msg.c`, in
the place of the main control system; `OthersGet` is any subsystem that creates
the queue again. History: `taken`, `lost`, `gone`, `obeyed`, `cut`, and `deaf`, the
frames refused though the queue that exists has room.

### WebClient

Shared memory has four cells: two for the url, two for the lamp code, written and
read in the order of the code's `strcpy()`, `strcat()` and `strlen()` calls, one
cell per step. `Steps` is the order in which the parent's `ff` branch writes them
(clear the code, copy the code, copy the url); the child looks at url and code,
copies both into its request (`ChildCopies`), and after the answer copies the code
again for the message it sends. Copying ends at a NUL. `http_get()` is its outcomes:
no socket or no connection, a failed or late transfer, an answer; `open` counts
the descriptors. `ParentFinishes` has the four answers of a web site that
`doit_ack()` and `doit_data()` tell apart, two of which end the process. The child may
die of an answer too (`ChildFinishes`): `doit()` takes `strlen()` of a string that an item of
another type does not have, and nobody forks the child again. The parent lives on and
answers ";done" to configurations that nobody polls with; the child lives on when the
parent has died. History: `configured`, `since` (what was configured when the round
began), `answered` and `refused` (configurations and strangers whose answer was queued, or
found no room), `passed`, `lost`, `failed`.

### RecordDemo

The father's loop has four places (start, stop, wait, speak), the child its main loop
and the loop in `rec()`; both take from message type 8. `ChildRecords` is
`rec()`'s loop: it looks at `data_w.id` whether or not a message came, so what is
on the stack before the first one (`Garbage`) may end the recording at once.
Failures of the card, the login, the queue and the file are choices at every call
that can have them, and recorded in `failed`. `Restart` stops both processes anywhere and
runs the program again; the queue stays as it is. Numbers of cycles tell which
recording a message is about; the code has no such numbers.

## What the runs check

| run | instance | shows |
|---|---|---|
| `audio_safety` | 3 slots, 4 commands of record, play, ring, wrong ring, stop; queue of 2 | types; `RecorderExclusion`, `OwnRecording`, `PlaybackExclusion`, `NoOrphanFlag` |
| `audio_live` | all commands, 2 slots, 3 commands, fair | `RingRestoresVolume`, `RecordingReleased`, `StopConsumed` |
| `audio_refused` | 2 slots, 3 commands | violated: after a ring with wrong parameters a play is refused though nothing plays |
| `audio_stop` | 2 slots, 3 commands | violated: the stop message is lost in a full queue and the music plays on |
| `store_order` | queue of 4, 5 lines | `OnTheWay`, `NothingVanishes`, `OldestFirst` |
| `store_empty` | queue of 2, 1 line | violated: `bxx` before the first `axx` ends the process |
| `books` | 3 ids, 2 settings, no record added to a file of 18 lines or more | `AlarmAligned`; `AlarmsKept` and `AlertsKept` (refinements) |
| `reminders_listed` | 2 ids | violated: the second reminder is acknowledged and lost |
| `devices` | 3 ids, a short and a long text, lists of up to 3 lamps, each whole or with 3 of its 6 fields | `InstalledAsSent`; `DevicesKept` (three refinements) |
| `serial_line` | 5 bytes, 1 failing read, a buffer of 5, queue of 2, 1 command, 3 queues, fair | `FramesAreSent`, `FramesArrive`, `FramesAccounted`, `CommandsTried` |
| `web_poll` | 3 messages to the parent, 1 command of the server, queue of 1, 2 sockets, fair | `RoundsConsistent`, `RoundsFresh`, `SocketsReturned`, `CommandsAccounted`, `ConfigApplied`, `ConfigTakesHold` |
| `demo_cycles` | 4 cycles, 2 restarts, any garbage, any failure, fair | `SpokenInOrder`, `ResultIsCurrent`, `NoDeadlock`, `CycleEnds` |

Every passing run checks its module's `TypeOK` too, `audio_live` excepted, whose
module's types `audio_safety` checks.

Bounds. *Audio*: an exclusion is broken by two children and a third process that
overwrites the byte; three slots and the parent are one more than that, and four
commands are record or play twice with a stop or wrong ring before and between. A queue of two
already refuses messages while a reply waits. Two slots suffice for liveness: a
stop and the player it is meant for, and one that comes after. *Store*: each
interesting position (inbox, file, process, answers) can hold a line at once and
two can meet in the file and in a queue; five lines fill all of them.
*Books*: `MaxLines` stops additions to a longer file, so alarm files have up to
two records (three heads are never needed: a middle record is bounded by
neighbours already seen at two, and the proof covers any number), reminder files
up to four with joined lines. Three ids make one absent while two are present.
Both settings are interchangeable, hence the symmetry. A behaviour is about one of
the two files (`Books`): the handlers of one file read and write nothing of the
other, so interleaving them would only multiply states.

*Devices*: three ids make one absent while two are present, with both their
records installed; two lengths of text are what tells a kept tail from a field of its
own; with three lamps the second can inherit a field from the first and pass
a tail on to the third, and a lamp without fields can stand first, between and last.
*Serial line*: five bytes hold a frame with a byte inside after a stray one, two
frames, or one frame longer than the buffer allows; one failing read can fall before
the first byte, inside a frame or after it; two removals let the queue the child knows,
and the one that follows it, be removed while messages wait.
*Web*: three configurations can be written while one round is under way; a queue of one
refuses the child's message while the parent's answer waits, and the parent's answer
while a command waits; of two sockets the first failed transfer costs one and leaves a
process that goes on, and the second its last. One command can be
passed on, refused, missed or lost with the child; what a round does with it does not
depend on those before, and the proof of `CommandsAccounted` covers any number. *Demonstration*: the child can be at most one cycle
behind the father without a restart and one more after each; two restarts and four cycles
reach every such distance.

Deadlock is checked in `store_order`, `books` and `devices`. It is not in
`web_poll`, where answers may have ended both processes; in
`audio_*`, where the main control system may have sent all its commands; in
`serial_line`, where the line has no more bytes or the child overran its
buffer; and in `demo_cycles`, where the father is gone, the child dead, or the cycles
are used up. There waiting in vain is the subject of the properties
(`CommandsTried`, `ConfigApplied`, `ConfigTakesHold`, `NoDeadlock`, `CycleEnds`), which
tell it from rest.

Fairness is weak fairness of processes, which is what a scheduler that runs every
runnable process gives, and where it is assumed every call a process makes comes
back:

- `audio_live`: the parent (`Control`) and each child (`Child(w)`). It includes the
  assumption that the recognition library returns (it is not in this repository).
  Nothing is assumed about the main control system, and nothing about the
  end of a file (`PlayerEof` is not fair): music may be endless, and `StopConsumed`
  must hold all the same.
- `serial_line`: the parent only. Nothing is assumed about the line, the tool, or
  that a removed queue is created by anybody but the parent.
- `web_poll`: parent and child, each while it lives; sends and receives on sockets are timed by
  `http_get()`. The server need not have a command and the main control system need
  not take anything from the queue.
- `demo_cycles`: father and child. Restarts are not fair: the program may never be
  run again.

Every property of a passing run has a mutant in `PROJECT.json`: a definition of
the model changed as a plausible bug would change the code, under which the run
finds the property violated.

## What is proved

With TLAPS, for every value of the constants that satisfies the named assumptions
of the modules.

**AudioControlProofs** (any number of slots, any commands, any queue):
`TypeCorrect`, `RecorderExclusionHolds`, `OwnRecordingHolds`,
`PlaybackExclusionHolds`, `NoOrphanFlagHolds`, `RingRestoresVolumeHolds`. `RecorderExclusion` is not
inductive: between the test of REC in the parent and the store that claims it, the
bit is clear and a recorder could start. `RecInv` adds that during this time no
child records, because only the parent forks; and that once the bit is stored it
stays until the fork. `PlayInv` is the same for PLAY, where a stop may interfere
(`overtaken`). `NoOrphanFlag` needs both and the types, which tie the place of a
child to its job. `RingRestoresVolume` needs that every ring still alive will restore
the level set last (`VolumeInv`), and that a ring ends in no other place than the one
where it restores.

**StoreFileProofs** (any capacity, any number of lines): `TypeCorrect`,
`OnTheWayHolds`, `NothingVanishesHolds`, and the action property
`OldestFirstHolds`. The inductive invariant `StoreInv` says that the lines are in
rising order along the whole way, answers before process before file before inbox,
that none is newer than the newest (`Bounded`: needed so that a new line keeps the
order), and what the program counter says of the file (`ControlInv`: while the
file is empty for rewriting, its contents are in memory). The action property
follows from the invariant: what is taken is above all that was taken, and what
lies between was dropped.

**FileServerProofs** (any ids that are multiples of ten, any settings, files of any
length): `TypeCorrect` and `AlarmAlignedHolds`. The invariant `AlarmInv` says that
the alarm file is whole, with unique ids, or *ruined*: empty and closed, or ten
lines with a blank first. Ruined files stay ruined, since every id passes for the
blank head and nothing is ever added; so none of them ever has a multiple of nine
lines, and no reader accepts it. That editing keeps ids in place rests on
`HeadsOnly`: the line that starts with a record's id is a head, because ids are
multiples of ten and the other lines of a record add one to eight.

**FileBooksProofs**: `AlarmsKeptHolds` and `AlertsKeptHolds`, the refinements: `Spec` of
`FileServer` implies the specification of `RecordBook` under the mappings `Alarms` and
`Alerts`. Initial states map to
initial states, and every step of the file subsystem maps to a step of the book or
leaves it alone: emptying the file for a rewrite is the command of the book, since a rewrite
counts from its start (`Current`); filling it is nothing. The invariant
`BookInv` adds to that of `AlarmAligned` that until a power cut has emptied a
rewrite the file, or the contents about to be written, is whole. The lemmas say
what `EditAlarm`, `AppendAlarm` and `Mark` do to the book that a whole file is;
that a record's id starts the line of its head and no other is `HeadsOnly` again. For
the reminders, `AlertInv` says that until a reminder has joined an open line the file,
or the contents about to be written, is whole records with unique ids (`Filed`). A
power cut during a rewrite leaves the empty file, which is whole: so it is a `Clear`
of the book and, unlike with the alarms, the list goes on.

**DeviceFilesProofs** (any ids that are multiples of ten, any texts, messages of
any length): `TypeCorrect`, `InstalledAsSentHolds` and `DevicesKeptHolds`. `InstallInv` says that while
the list is parsed the file holds the first lamps of the message, and that the
buffer of each field is as long as the longest text parsed into it so far, and as
one of them: this is why a field without a longer one before it is stored as sent,
and why only incomplete lamps at the start are left out.

`DevicesKeptHolds` is the refinement of the three `RecordBook`s. `DeviceInv` adds that the
file, or the contents about to be written, is whole records with unique ids
(`InRecords`) until 03 has put a line of its own behind the songs; that a file being
written is empty; and that lamps are parsed only into the file of lamps. Of each
function that changes a file a lemma says which fields of which records it changes
(`MarkedBook`, `StrayBook`, `EditBook`: by `LineOfRecord` the line with a record's
id plus a few is one of that record, again since ids are multiples of ten) or that it
adds one record (`AppendBook`). That the next lamp of a message has an id of its own
(`LampIsNew`) is `InstallInv` again: the lamps before it are numbered from 0 in tens.

**SerialLineProofs** (any bytes, buffer, queue, number of queues): `TypeCorrect`,
`FramesAreSentHolds`, `FramesArriveHolds` and `FramesAccountedHolds`. `LineInv` says
where on the line the child is: its buffer begins with the first "*" after the last
"#", or with a byte nobody sent, and contains every byte since. `AccountInv` says
that frames in the queue, received and lost ones are those sent, and that while no
queue was removed the child's identifier is that of the queue (`AtFork`).

**WebClientProofs** (any number of configurations, requests, commands and sockets):
`TypeCorrect`, `SocketsReturnedHolds`, `CommandsAccountedHolds`,
`RoundsConsistentHolds` and `RoundsFreshHolds`. `OrderInv` and `SharedInv` say what
each cell holds at each of the parent's steps: NUL, the configuration that is being written,
or the last one, and nothing older; `RoundInv` carries that over to what the child
has copied since its round began: nothing copied is newer than `Newest`, the newest
configuration of which a part is written, and the cells of the lamp code, which the child
reads last, are empty or hold exactly that (`CellsFresh`), because the parent writes them
first. So what is copied behind the url is never older than anything before it. The one
exception, the second part of a url behind a newer first, is in the property.

**RecordDemoProofs** (any garbage, failures, cycles and restarts): `TypeCorrect`,
`NoDeadlockHolds`, `ResultIsCurrentHolds` and `SpokenInOrderHolds`. `OwedInv` says that a
father who waits is owed something: a stop on its way, a recording, a result, or
the failure that took it. `AheadInv` and `InOrderInv` order what is
under way by the cycles it belongs to and count how many results restarts can have
left in front of the father's. `SpeakInv` puts what was spoken, is spoken and will be
spoken in front of all that; `ExactInv`, for undisturbed runs, says which message of which
cycle is at each place of the queue and how far the child is with what it has taken
(`Thirds`, `Progress`).

Assumptions: `Ids` are multiples of ten, as the records are numbered by the
application, and contain the ids 0, 10, 20, ... that 33 gives to the lamps of a message; the settings differ from the marks, "unknown" and joined texts; fields of
installed files are not empty; bytes called plain are no frame marks; constants are
numbers or sets of the kind their comments say.

Only model-checked: liveness (`RecordingReleased`, `StopConsumed`, `CommandsTried`,
`ConfigApplied`, `ConfigTakesHold`, `CycleEnds`), which is out of the prover's reach.
Every invariant, action property and refinement that a passing run checks is also
proved.

## Abstractions that matter

- In `FileServer` the record files exist; the alarm file is installed with
  one record whose last line is open, as `write_alarm()` leaves it. In `DeviceFiles`
  they may be missing.
- A rewritten file is smaller than a stdio buffer, so that `fclose()` writes it in
  one piece: a power cut finds it empty or complete.
- Texts are model values, in `DeviceFiles` short sequences; limits of
  `text_out[256]` and of the field buffers are not modelled.
- The removal of the queue by `msg.c` is modelled in `SerialLine` only; the
  receive loops of the other subsystems re-get it in the same way, and elsewhere it
  stays. Messages carry the id the subsystem expects, except in `WebClient` and
  `SerialLine`, where they may not.
- 03 is modelled on the song file, which it is for; `set_music_like()` and the
  others on the file their commands name.
- `WebClient`: a string is two cells, and copying is not atomic in any place. Of the ten
  urls the first is modelled, which is the one that is shared and polled; the others
  stay in the parent's own `g_url`.
- `RecordDemo`: garbage in `data_w.id` other than 0 to 2 behaves like 0; a child
  that survives its father is not modelled, and `/tmp/rec.avi` is read by the
  process that wrote it.
- `AudioControl` and `RecordDemo`: recognition and synthesis are outcomes.

## Disagreements with the code's own comments and answers

Four runs end in a violation by intention; "findings" in `PROJECT.json` quotes the
comment or answer each contradicts: a refused play after a wrong ring, a stop lost
in a full queue, `bxx` without a store, and the second reminder.

## What the properties accept

Some hazards are in the model and happen in its runs, and the code does nothing against
them. The properties say what is left, and name the loss as an exception: a lost update
of the audio byte (`lost`) and a leaked bit; a command the serial line did not take
(`cut`); frames of a child whose queue was removed; answers and commands that a full queue
refused; sockets of failed transfers; a web process that an answer has ended; alarm
files that a power cut has emptied (`wiped`), and song files that 03 has spoilt.

## Not modelled

- The clock (23) overwrites the eighth and ninth line of a file that no other
  command reads, 62 lists a file that no command writes, and `write_wifi()` is never
  called: there is no second step for them to disagree with.
- `audio/audio.c`, `audio/upload.c`, `web/web.c`, `wifi.c`: straight-line tools without
  state or a second actor.
- `http_post()` (used by those tools) and the text of requests and answers.
- `web/json` and the media libraries. They are vendored, and more than 99% of
  the lines under `src/`: the programs of this repository are about five and a half thousand
  lines, and the share that the models cover is to be read against those.
- Three hazards have no property: the untested `fopen()` of a missing file is
  modelled in `DeviceFiles` but promised nowhere to be survived; the limits of the answer
  buffer; and the lamp code of a message with ten urls.

## Plan

What is left, most consequential first.

1. **The queue's removal in the other subsystems**: `SerialLine`'s `ParentRejoins` in
   `StoreFile`, `AudioControl` and `WebClient`, whose children keep an old identifier as
   the driver's does.
2. **Limits of buffers**: `text_out[256]` in the list commands, as a bound
   on the number of records; the fields of 33.
