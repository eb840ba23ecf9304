------------------------------ MODULE FileJournal ------------------------------
(***************************************************************************)
(* The journal of the file adaptor (afw_file_journal.c).                   *)
(*                                                                         *)
(* There is one file per hour in which something was recorded.  An entry   *)
(* is its length followed by its text.  When the first entry of a new hour *)
(* has been written, a length of zero and the path of the new file are     *)
(* appended to the old one; the lock file says which one that is.  The     *)
(* cursor of an entry is the hour and the offset in the file of that hour. *)
(* A consumer is a peer object with three cursors, read when a request     *)
(* begins and written when it ends.                                        *)
(*                                                                         *)
(* An append, a read and a write of a file are steps of their own: nothing *)
(* that this code does keeps two threads apart.                            *)
(***************************************************************************)
EXTENDS Naturals, FiniteSets, SequencesExt

CONSTANTS Entries, NoEntry, Consumers,
          Applicable,           (* per consumer, see Journal               *)
          Writers, Requesters,  (* threads that add, that get and mark     *)
          Asks,                 (* bound: per requester, its options       *)
          Interruptions,        (* where an add may fail, see AddThrows    *)
          MaxHour               (* bound of the clock                      *)

Option == {"get_first", "get_by_cursor", "get_next_after_cursor",
           "get_next_for_consumer", "get_next_for_consumer_after_cursor",
           "mark_entry_consumed"}

(* Where an add is, and what it finds in the lock file: nothing, the hour in
   which it records, or another one. *)
AddPlace == {"read_lock", "save_path", "length", "text", "zero", "path", "write_lock"}
            \X {"first", "same", "switch"}

ASSUME FileJournalAssumption ==
    /\ IsFiniteSet(Entries)
    /\ NoEntry \notin Entries
    /\ Consumers # {}
    /\ Applicable \in [Consumers -> SUBSET Entries]
    /\ MaxHour \in Nat \ {0}
    /\ Asks \in [Requesters -> SUBSET Option]
    /\ Interruptions \subseteq AddPlace

VARIABLES
    now,                (* the hour of the clock                           *)
    lock,               (* the hour in the lock record, NoHour: empty file *)
    first_path,         (* path_to_first_journal_file, NoHour: none        *)
    file,               (* per hour: what was appended to its file         *)
    peer,               (* per consumer: the cursors of its peer object    *)
    wpc, entry, hour, old,  (* per writer: location, what it adds, the hour *)
                        (* at which it began, the file it has to link      *)
    rpc, request,       (* per requester: location, locals of its call     *)
    added,              (* history: entries whose add_entry has returned   *)
    delivered           (* history, per consumer: what it was given        *)

fileVars == <<lock, first_path, file>>
writerVars == <<wpc, entry, hour, old>>
readerVars == <<rpc, request>>
vars == <<now, fileVars, peer, writerVars, readerVars, added, delivered>>

Hours == 1..MaxHour
NoHour == 0

Cursor == [hour : Hours \cup {NoHour}, offset : Nat]
NoCursor == [hour |-> NoHour, offset |-> 0]

(* What one apr_file_write appends. *)
Cell == ({"length", "text"} \X Entries) \cup {<<"zero", NoHour>>}
            \cup ({"path"} \X Hours)

Peer == [currentCursor : Cursor, consumeCursor : Cursor, advanceCursor : Cursor]
NoPeer == [currentCursor |-> NoCursor, consumeCursor |-> NoCursor,
           advanceCursor |-> NoCursor]

ForConsumer == {"get_next_for_consumer", "get_next_for_consumer_after_cursor"}

(* Locals of get_entry: peer is the object as it was read, at the position of
   the scan (entry_object_id and offset), unterminated says that the last byte
   of relative_entry_path_wa_z was never set.  from and after are history: the
   position where the scan began and whether that entry was to be skipped. *)
Request ==
    [option : Option, consumer : Consumers, peer : Peer, at : Cursor,
     skip_first_entry : BOOLEAN, reissue : BOOLEAN, unterminated : BOOLEAN,
     from : Cursor, after : BOOLEAN]

AnyConsumer == CHOOSE c \in Consumers : TRUE

NoRequest ==
    [option |-> "get_first", consumer |-> AnyConsumer, peer |-> NoPeer,
     at |-> NoCursor, skip_first_entry |-> FALSE, reissue |-> FALSE,
     unterminated |-> FALSE, from |-> NoCursor, after |-> FALSE]

Init ==
    /\ now = 1
    /\ lock = NoHour
    /\ first_path = NoHour
    /\ file = [h \in Hours |-> <<>>]
    /\ peer = [c \in Consumers |-> NoPeer]
    /\ wpc = [w \in Writers |-> "idle"]
    /\ entry = [w \in Writers |-> NoEntry]
    /\ hour = [w \in Writers |-> NoHour]
    /\ old = [w \in Writers |-> NoHour]
    /\ rpc = [r \in Requesters |-> "idle"]
    /\ request = [r \in Requesters |-> NoRequest]
    /\ added = {}
    /\ delivered = [c \in Consumers |-> {}]

--------------------------------------------------------------------------------
(* add_entry *)

Written(e) == \E h \in Hours : <<"length", e>> \in ToSet(file[h])

AddEntry(w) ==
    /\ wpc[w] = "idle"
    /\ \E e \in Entries :
        /\ ~Written(e)
        /\ \A u \in Writers : entry[u] # e
        /\ entry' = [entry EXCEPT ![w] = e]
    /\ hour' = [hour EXCEPT ![w] = now]
    /\ wpc' = [wpc EXCEPT ![w] = "read_lock"]
    /\ UNCHANGED <<now, fileVars, peer, old, readerVars, added, delivered>>

(* mutant: a lock record of another hour is taken for the same file *)
OldFileForgotten(record, h) == NoHour

(* The file that has to be linked to that of hour h. *)
OldFile(record, h) == IF record = h THEN NoHour ELSE record

(* Open the lock file and read its record, if it has one. *)
ReadLock(w) ==
    /\ wpc[w] = "read_lock"
    /\ old' = [old EXCEPT ![w] = OldFile(lock, hour[w])]
    /\ wpc' = [wpc EXCEPT ![w] = IF lock = NoHour THEN "save_path" ELSE "length"]
    /\ UNCHANGED <<now, fileVars, peer, entry, hour, readerVars, added, delivered>>

SaveFirstPath(w) ==
    /\ wpc[w] = "save_path"
    /\ first_path' = hour[w]
    /\ wpc' = [wpc EXCEPT ![w] = "length"]
    /\ UNCHANGED <<now, lock, file, peer, entry, hour, old, readerVars, added,
                   delivered>>

(* At location l, append cell to the file of hour h, and go to location next. *)
Write(w, l, h, cell, next) ==
    /\ wpc[w] = l
    /\ file' = [file EXCEPT ![h] = Append(@, cell)]
    /\ wpc' = [wpc EXCEPT ![w] = next]
    /\ UNCHANGED <<now, lock, first_path, peer, entry, hour, old, readerVars,
                   added, delivered>>

WriteLength(w) == Write(w, "length", hour[w], <<"length", entry[w]>>, "text")

WriteText(w) ==
    Write(w, "text", hour[w], <<"text", entry[w]>>,
          IF old[w] = NoHour THEN "write_lock" ELSE "zero")

WriteZero(w) == Write(w, "zero", old[w], <<"zero", NoHour>>, "path")

WritePath(w) == Write(w, "path", old[w], <<"path", hour[w]>>, "write_lock")

(* The locals of an add go with its return. *)
EndAdd(w) ==
    /\ wpc' = [wpc EXCEPT ![w] = "idle"]
    /\ entry' = [entry EXCEPT ![w] = NoEntry]
    /\ hour' = [hour EXCEPT ![w] = NoHour]
    /\ old' = [old EXCEPT ![w] = NoHour]

(* Replace the lock record, close the lock file, return. *)
WriteLock(w) ==
    /\ wpc[w] = "write_lock"
    /\ lock' = hour[w]
    /\ added' = added \cup {entry[w]}
    /\ EndAdd(w)
    /\ UNCHANGED <<now, first_path, file, peer, readerVars, delivered>>

(* A file cannot be opened, read or written, or the process ends: what was
   written stays. *)
PlaceOf(w) ==
    <<wpc[w], IF lock = NoHour THEN "first"
              ELSE IF lock = hour[w] THEN "same"
              ELSE "switch">>

AddThrows(w) ==
    /\ PlaceOf(w) \in Interruptions
    /\ EndAdd(w)
    /\ UNCHANGED <<now, fileVars, peer, readerVars, added, delivered>>

Tick ==
    /\ now < MaxHour
    /\ now' = now + 1
    /\ UNCHANGED <<fileVars, peer, writerVars, readerVars, added, delivered>>

--------------------------------------------------------------------------------
(* What a reader finds at a cursor. *)

(* The cells at c are a pair of these kinds about the same thing. *)
Pair(c, kind1, kind2) ==
    /\ c.hour \in Hours
    /\ c.offset + 2 <= Len(file[c.hour])
    /\ file[c.hour][c.offset + 1][1] = kind1
    /\ file[c.hour][c.offset + 2][1] = kind2
    /\ kind1 = "length" =>
          file[c.hour][c.offset + 1][2] = file[c.hour][c.offset + 2][2]

IsRecord(c) == Pair(c, "length", "text")
IsLink(c) == Pair(c, "zero", "path")
IsEof(c) == c.hour \in Hours /\ c.offset >= Len(file[c.hour])

EntryAt(c) == file[c.hour][c.offset + 1][2]
LinkAt(c) == [hour |-> file[c.hour][c.offset + 2][2], offset |-> 0]

(* offset = encoded_len + offset + sizeof(encoded_len_be) *)
NextOffset(c) == [c EXCEPT !.offset = @ + 2]

(* Where a scan goes on: behind a record, and where a link leads. *)
Following(c) == IF IsRecord(c) THEN NextOffset(c) ELSE LinkAt(c)

Positions == [hour : Nat, offset : Nat]

(* What item says of the cursors that a scan from the beginning passes, the end
   included, one after the other. *)
Walk(item) ==
    LET Bound == Cardinality(Entries) + MaxHour
        walk[n \in 0..Bound] ==
            [c \in Positions |->
                IF n > 0 /\ (IsRecord(c) \/ IsLink(c))
                THEN item[c] \o walk[n - 1][Following(c)]
                ELSE item[c]]
    IN  IF first_path = NoHour THEN <<>>
        ELSE walk[Bound][[hour |-> first_path, offset |-> 0]]

Trail == Walk([c \in Positions |-> <<c>>])
Records == {c \in ToSet(Trail) : IsRecord(c)}

(* The journal, as one who reads it from the beginning sees it. *)
Log == Walk([c \in Positions |-> IF IsRecord(c) THEN <<EntryAt(c)>> ELSE <<>>])

--------------------------------------------------------------------------------
(* get_entry: how each option begins.  An option that has no cursor begins at
   the first file, and throws if there is none. *)

Start(r, q) ==
    /\ rpc[r] = "idle"
    /\ q.option \in Asks[r]
    /\ rpc' = [rpc EXCEPT ![r] = "scan"]
    /\ request' = [request EXCEPT ![r] =
                      [q EXCEPT !.from = q.at, !.after = q.skip_first_entry]]
    /\ UNCHANGED <<now, fileVars, peer, writerVars, added, delivered>>

(* mutant: the offset is not set *)
FromFirstNoOffset(q) ==
    [q EXCEPT !.at = [hour |-> first_path], !.unterminated = TRUE]

FromFirst(q) ==
    [q EXCEPT !.at = [hour |-> first_path, offset |-> 0], !.unterminated = TRUE]

GetFirst(r) ==
    /\ first_path # NoHour
    /\ Start(r, FromFirst([NoRequest EXCEPT !.option = "get_first"]))

GetByCursor(r) ==
    \E c \in Records :
        Start(r, [NoRequest EXCEPT !.option = "get_by_cursor", !.at = c])

GetNextAfterCursor(r) ==
    \E c \in Records :
        Start(r, [NoRequest EXCEPT !.option = "get_next_after_cursor",
                                   !.at = c, !.skip_first_entry = TRUE])

(* mutant: the scan goes on after the advance cursor *)
FromConsumerCursorsSkipping(p, q) ==
    IF p.consumeCursor # NoCursor
    THEN [q EXCEPT !.at = p.consumeCursor, !.reissue = TRUE]
    ELSE IF p.advanceCursor # NoCursor
    THEN [q EXCEPT !.at = p.advanceCursor, !.skip_first_entry = TRUE]
    ELSE IF p.currentCursor # NoCursor
    THEN [q EXCEPT !.at = p.currentCursor, !.skip_first_entry = TRUE]
    ELSE FromFirst(q)

(* An entry being consumed is issued again, else the scan begins at the
   advance cursor, else after the current one. *)
FromConsumerCursors(p, q) ==
    IF p.consumeCursor # NoCursor
    THEN [q EXCEPT !.at = p.consumeCursor, !.reissue = TRUE]
    ELSE IF p.advanceCursor # NoCursor
    THEN [q EXCEPT !.at = p.advanceCursor]
    ELSE IF p.currentCursor # NoCursor
    THEN [q EXCEPT !.at = p.currentCursor, !.skip_first_entry = TRUE]
    ELSE FromFirst(q)

GetNextForConsumer(r) ==
    \E c \in Consumers :
        /\ peer[c] = NoPeer => first_path # NoHour
        /\ Start(r, FromConsumerCursors(peer[c],
                        [NoRequest EXCEPT !.option = "get_next_for_consumer",
                                          !.consumer = c, !.peer = peer[c]]))

GetNextForConsumerAfterCursor(r) ==
    \E p \in Consumers, c \in Records :
        Start(r, [NoRequest EXCEPT
                     !.option = "get_next_for_consumer_after_cursor",
                     !.consumer = p, !.peer = peer[p],
                     !.at = c, !.skip_first_entry = TRUE])

--------------------------------------------------------------------------------
(* The loop of get_entry, one record of a file after the other. *)

(* An entry that ends the scan: the filter is only asked for a consumer, and
   not about an entry that is issued again. *)
Wanted(q, e) ==
    q.option \in ForConsumer /\ ~q.reissue => e \in Applicable[q.consumer]

Scan(r, location, q) ==
    /\ rpc[r] = "scan"
    /\ rpc' = [rpc EXCEPT ![r] = location]
    /\ request' = [request EXCEPT ![r] = q]
    /\ UNCHANGED <<now, fileVars, peer, writerVars, added, delivered>>

(* mutant: skip_first_entry is not reset *)
PassedSkipping(q) == [q EXCEPT !.at = NextOffset(q.at)]

(* The position after a record that the scan leaves behind. *)
Passed(q) == [q EXCEPT !.at = NextOffset(q.at), !.skip_first_entry = FALSE]

FindEntry(r) ==
    LET q == request[r]
    IN  /\ IsRecord(q.at) /\ ~q.skip_first_entry /\ Wanted(q, EntryAt(q.at))
        /\ Scan(r, "found", q)

PassEntry(r) ==
    LET q == request[r]
    IN  /\ IsRecord(q.at)
        /\ q.skip_first_entry \/ ~Wanted(q, EntryAt(q.at))
        /\ Scan(r, "scan", Passed(q))

FollowLink(r) ==
    LET q == request[r]
    IN  /\ IsLink(q.at)
        /\ Scan(r, "scan", [q EXCEPT !.at = LinkAt(q.at),
                                     !.unterminated = FALSE])

FindEof(r) == IsEof(request[r].at) /\ Scan(r, "nothing", request[r])

(* A file that is not there yet, a record or a link that is half written or
   not one, and a path whose end was not set: open or read fails. *)
ScanThrows(r) ==
    LET c == request[r].at
    IN  /\ rpc[r] = "scan"
        /\ \/ file[c.hour] = <<>>
           \/ ~IsRecord(c) /\ ~IsLink(c) /\ ~IsEof(c)
           \/ IsLink(c) /\ request[r].unterminated
        /\ Scan(r, "idle", NoRequest)

(* mutant: a scan that found nothing advances past the end *)
PeerAfterPastEnd(q, found) ==
    CASE q.option # "get_next_for_consumer" \/ q.reissue -> q.peer
      [] q.option = "get_next_for_consumer" /\ ~q.reissue /\ found ->
            [currentCursor |-> q.at, consumeCursor |-> q.at,
             advanceCursor |-> NoCursor]
      [] OTHER -> [q.peer EXCEPT !.advanceCursor = NextOffset(q.at)]

(* The peer object that a request writes back. *)
PeerAfter(q, found) ==
    IF q.option = "get_next_for_consumer" /\ ~q.reissue
    THEN IF found
         THEN [currentCursor |-> q.at, consumeCursor |-> q.at,
               advanceCursor |-> NoCursor]
         ELSE [q.peer EXCEPT !.advanceCursor = q.at]
    ELSE q.peer

(* Write the peer object as it was read, with the new cursors, and return. *)
Respond(r) ==
    LET q == request[r]
        found == rpc[r] = "found"
    IN  /\ rpc[r] \in {"found", "nothing"}
        /\ peer' = IF q.option \in ForConsumer
                   THEN [peer EXCEPT ![q.consumer] = PeerAfter(q, found)]
                   ELSE peer
        /\ delivered' =
              IF q.option = "get_next_for_consumer" /\ found
              THEN [delivered EXCEPT ![q.consumer] = @ \cup {EntryAt(q.at)}]
              ELSE delivered
        /\ rpc' = [rpc EXCEPT ![r] = "idle"]
        /\ request' = [request EXCEPT ![r] = NoRequest]
        /\ UNCHANGED <<now, fileVars, writerVars, added>>

--------------------------------------------------------------------------------
(* mark_entry_consumed, of the entry that the peer object says; any other
   throws. *)

ReadForMark(r) ==
    /\ rpc[r] = "idle"
    /\ "mark_entry_consumed" \in Asks[r]
    /\ \E c \in Consumers :
        /\ peer[c].consumeCursor # NoCursor
        /\ request' = [request EXCEPT ![r] =
              [NoRequest EXCEPT !.option = "mark_entry_consumed",
                                !.consumer = c, !.peer = peer[c]]]
    /\ rpc' = [rpc EXCEPT ![r] = "mark"]
    /\ UNCHANGED <<now, fileVars, peer, writerVars, added, delivered>>

WriteMark(r) ==
    LET q == request[r]
    IN  /\ rpc[r] = "mark"
        /\ peer' = [peer EXCEPT ![q.consumer] =
                       [q.peer EXCEPT !.consumeCursor = NoCursor]]
        /\ rpc' = [rpc EXCEPT ![r] = "idle"]
        /\ request' = [request EXCEPT ![r] = NoRequest]
        /\ UNCHANGED <<now, fileVars, writerVars, added, delivered>>

--------------------------------------------------------------------------------
Next ==
    \/ Tick
    \/ \E w \in Writers :
        \/ AddEntry(w) \/ ReadLock(w) \/ SaveFirstPath(w)
        \/ WriteLength(w) \/ WriteText(w) \/ WriteZero(w) \/ WritePath(w)
        \/ WriteLock(w) \/ AddThrows(w)
    \/ \E r \in Requesters :
        \/ GetFirst(r) \/ GetByCursor(r) \/ GetNextAfterCursor(r)
        \/ GetNextForConsumer(r) \/ GetNextForConsumerAfterCursor(r)
        \/ FindEntry(r) \/ PassEntry(r) \/ FollowLink(r) \/ FindEof(r)
        \/ ScanThrows(r) \/ Respond(r)
        \/ ReadForMark(r) \/ WriteMark(r)

Spec == Init /\ [][Next]_vars
--------------------------------------------------------------------------------
(* The failures of an add that the next one repairs: before anything is written,
   and before the link to the new file is begun.  A failure at the lock record,
   when it would not have changed, is like a return. *)
Survivable ==
    ({"read_lock"} \X {"first", "same", "switch"})
        \cup {<<"save_path", "first">>, <<"length", "same">>, <<"length", "switch">>,
              <<"zero", "switch">>}

(* The comment in add_entry, "Close lock file which unblocks new journal entry
   adds", says that adds do not overlap. *)
OneAdd ==
    /\ \A u, w \in Writers : u = w
    /\ Interruptions \subseteq Survivable

--------------------------------------------------------------------------------
(* Properties *)

TypeOK ==
    /\ now \in Hours
    /\ lock \in Hours \cup {NoHour}
    /\ first_path \in Hours \cup {NoHour}
    /\ file \in [Hours -> Seq(Cell)]
    /\ peer \in [Consumers -> Peer]
    /\ wpc \in [Writers -> {"idle", "read_lock", "save_path", "length", "text",
                            "zero", "path", "write_lock"}]
    /\ entry \in [Writers -> Entries \cup {NoEntry}]
    /\ hour \in [Writers -> Hours \cup {NoHour}]
    /\ old \in [Writers -> Hours \cup {NoHour}]
    /\ rpc \in [Requesters -> {"idle", "scan", "found", "nothing", "mark"}]
    /\ request \in [Requesters -> Request]
    /\ added \subseteq Entries
    /\ delivered \in [Consumers -> SUBSET Entries]

(* What was added is in the journal for good: one who reads from the beginning
   finds every entry whose add_entry has returned. *)
AddedIsReadable == added \subseteq ToSet(Log)

(* A scan leaves nothing behind: wherever it is, it has passed no entry that
   it should have returned, from where it began, over the links between the
   files, while entries are added. *)
ScanMissesNothing ==
    LET trail == Trail
        Place(c) == CHOOSE k \in 1..Len(trail) : trail[k] = c
    IN  \A r \in Requesters :
            rpc[r] \in {"scan", "found", "nothing"} =>
                LET q == request[r]
                IN  /\ {q.from, q.at} \subseteq {trail[k] : k \in 1..Len(trail)}
                    /\ \A k \in Place(q.from)..(Place(q.at) - 1) :
                          /\ IsRecord(trail[k])
                          /\ Wanted(q, EntryAt(trail[k]))
                          => k = Place(q.from) /\ q.after

(* The journal of files is the journal that the interface promises, whatever
   requests of the same consumer overlap and write their stale peer objects:
   it only grows at its end, and no consumer is led past an entry that it has
   not been given. *)
Promised == INSTANCE Journal WITH log <- Log

JournalSpec == Promised!JournalSpec

(* A consumer that is told that there is nothing has been given everything
   that was readable then. *)
NothingMeansDone ==
    [][\A r \in Requesters :
          LET q == request[r]
          IN  /\ rpc[r] = "scan" /\ rpc'[r] = "nothing"
              /\ q.option = "get_next_for_consumer"
              => ToSet(Log) \cap Applicable[q.consumer]
                    \subseteq delivered[q.consumer]]_vars
================================================================================
