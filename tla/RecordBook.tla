----------------------------- MODULE RecordBook -----------------------------
(***************************************************************************)
(* What a record file promises: a list of entries, each with an id and N   *)
(* fields, that commands set, switch and read.  A power cut may empty the  *)
(* list.  It may also be spoilt for good; when that happens is for the     *)
(* implementation to say, and a spoilt list is not changed or read again.  *)
(***************************************************************************)
EXTENDS Integers, Sequences

CONSTANTS
    N,          \* fields per entry, numbered from 0
    Written,    \* the fields a set command writes
    Switchable, \* the field an on/off command writes
    Views,      \* the sets of fields that readers give out
    Slips,      \* may a switch also mark the first entry?
    Refuses,    \* is a switch of an entry that is not there refused?
    Added,      \* what a whole entry may hold that is added at once
    Ids, Settings, Marks, Unset

VARIABLES book, alive, answer

bookVars == <<book, alive, answer>>

Fields == 0 .. N - 1

\* Entries are [id, vals]; a new one has its unwritten fields unset.
Fresh(id, v) ==
    [id |-> id, vals |-> [d \in Fields |-> IF d \in Written THEN v ELSE Unset]]
Updated(e, D, v) ==
    [e EXCEPT !.vals = [d \in Fields |-> IF d \in D THEN v ELSE @[d]]]

Has(id) == \E r \in DOMAIN book : book[r].id = id
At(id)  == CHOOSE r \in DOMAIN book : book[r].id = id
Switched(b, id, m) ==
    [r \in DOMAIN b |-> IF b[r].id = id THEN Updated(b[r], {Switchable}, m) ELSE b[r]]

-----------------------------------------------------------------------------
BookInit ==
    /\ alive = TRUE /\ answer = <<"none">>
    /\ \A r, s \in DOMAIN book : book[r].id = book[s].id => r = s

\* Change an entry, or add one behind the others.
Set(id, v) ==
    /\ answer' = <<"ok", id, v>>
    /\ book' = IF Has(id) THEN [book EXCEPT ![At(id)] = Updated(@, Written, v)]
                          ELSE Append(book, Fresh(id, v))
    /\ UNCHANGED alive

\* A command that lacks a field is acknowledged and changes nothing.
Incomplete(id) ==
    /\ answer' = <<"incomplete", id>>
    /\ UNCHANGED <<book, alive>>

\* Add an entry with all its fields, without a word.
Add(id) ==
    /\ ~Has(id)
    /\ \E r \in DOMAIN book' \ DOMAIN book :
         LET vals == book'[r].vals
         IN vals \in Added /\ book' = Append(book, [id |-> id, vals |-> vals])
    /\ answer' = <<"none">> /\ UNCHANGED alive

\* Switch an entry if it exists, and only then if the book refuses to say so.
Said(id, m) == IF Refuses /\ ~Has(id) THEN <<"refused", id>> ELSE <<"ok", id, m>>
Switch(id, m) ==
    /\ answer' = Said(id, m)
    /\ book' = Switched(book, id, m)
    /\ UNCHANGED alive

\* As Switch, and the mark also lands in the first field of another entry,
\* the first of the list.
Scribble(id, m) ==
    /\ Slips
    /\ answer' = Said(id, m)
    /\ book # <<>> /\ book[1].id # id
    /\ book' = Switched([book EXCEPT ![1] = Updated(@, {0}, m)], id, m)
    /\ UNCHANGED alive

\* Fields D of entry id, or of every entry, or the id of the last entry.
Unknown == <<"unknown">>
Lookup(id, D) ==
    IF Has(id) THEN <<"fields", [d \in D |-> book[At(id)].vals[d]]>> ELSE Unknown
Listing(D) ==
    IF book = <<>> THEN Unknown
    ELSE <<"list", [r \in DOMAIN book |->
                     <<book[r].id, [d \in D |-> book[r].vals[d]]>>]>>
LastId == IF book = <<>> THEN Unknown ELSE <<"last", book[Len(book)].id>>

Read ==
    /\ \/ \E id \in Ids, D \in Views : answer' = Lookup(id, D)
       \/ \E D \in Views : answer' = Listing(D)
       \/ answer' = LastId
    /\ UNCHANGED <<book, alive>>

\* A power cut in the middle of a rewrite: every entry is gone.
Clear == answer' = <<"none">> /\ book' = <<>> /\ UNCHANGED alive

Spoil == alive' = FALSE /\ book' = <<>> /\ answer' = <<"none">>

Next ==
    /\ alive
    /\ \/ \E id \in Ids, v \in Settings : Set(id, v)
       \/ \E id \in Ids : Incomplete(id) \/ Add(id)
       \/ \E id \in Ids, m \in Marks : Switch(id, m) \/ Scribble(id, m)
       \/ Read \/ Clear \/ Spoil

Spec == BookInit /\ [][Next]_bookVars
=============================================================================
