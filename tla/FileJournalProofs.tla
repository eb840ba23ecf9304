--------------------------- MODULE FileJournalProofs ---------------------------
(***************************************************************************)
(* The journal of files, for any number of entries, hours, consumers and   *)
(* requesters, and any options of each.                                    *)
(*                                                                         *)
(* What a reader sees is defined by a walk over the files, so the first    *)
(* part is about walks: from a valid cursor, a record or a link leads to   *)
(* the next valid one (FollowingIsNext), each step brings the end nearer   *)
(* (FollowingIsNearer), hence the trail has every valid cursor in its      *)
(* order and the log the entry of every record once (TrailIs, LogIs).      *)
(*                                                                         *)
(* The second part is about adds that do not overlap and whose failures    *)
(* the next one repairs (OneAdd).  JournalInv says what the files look     *)
(* like at each step of an add; every step keeps it and lets the journal   *)
(* grow only at its end (Extends, JournalStep).                            *)
(*                                                                         *)
(* The third part is about requests, which may overlap as they will.       *)
(* ScansInv says where scans and cursors are, GivenInv that nothing that   *)
(* a consumer wants is missing before a cursor of its peer object, also    *)
(* of one that was read and not yet written back.  From these follow what  *)
(* a scan passes, what an empty answer means, and that the files implement *)
(* the log of module Journal.                                              *)
(***************************************************************************)
EXTENDS FileJournal, FiniteSetTheorems, SequenceTheorems, WellFoundedInduction, TLAPS

USE FileJournalAssumption

(* A set of numbers that is not empty has a least one: a statement about
   every number is refuted at the least that breaks it. *)
LEMMA LeastNumber ==
    ASSUME NEW T \in SUBSET Nat, T # {}
    PROVE  \E n \in T : \A m \in T : n <= m
<1>1. PICK R : R = OpToRel(<, Nat)
    OBVIOUS
<1>2. IsWellFoundedOn(R, Nat)
    BY <1>1, NatLessThanWellFounded
<1>3. PICK n \in T : \A m \in T : <<m, n>> \notin R
    BY <1>2, WFMin
<1>4. \A m \in T : ~(m < n)
    BY <1>1, <1>3 DEF OpToRel
<1>5. QED
    BY <1>4

-----------------------------------------------------------------------------
(* What the files fl hold at a cursor. *)

PairIn(fl, c, kind1, kind2) ==
    /\ c.hour \in Hours
    /\ c.offset + 2 <= Len(fl[c.hour])
    /\ fl[c.hour][c.offset + 1][1] = kind1
    /\ fl[c.hour][c.offset + 2][1] = kind2
    /\ kind1 = "length" =>
          fl[c.hour][c.offset + 1][2] = fl[c.hour][c.offset + 2][2]

RecordIn(fl, c) == PairIn(fl, c, "length", "text")
LinkIn(fl, c) == PairIn(fl, c, "zero", "path")

EntryIn(fl, c) == fl[c.hour][c.offset + 1][2]
LinkOf(fl, c) == [hour |-> fl[c.hour][c.offset + 2][2], offset |-> 0]

FollowingIn(fl, c) == IF RecordIn(fl, c) THEN NextOffset(c) ELSE LinkOf(fl, c)

First(h) == [hour |-> h, offset |-> 0]

(* The walk, as the function that Walk takes it from. *)

Bound == Cardinality(Entries) + MaxHour

WalkStep(fl, item, f, n) ==
    [c \in Positions |->
        IF n > 0 /\ (RecordIn(fl, c) \/ LinkIn(fl, c))
        THEN item[c] \o f[n - 1][FollowingIn(fl, c)]
        ELSE item[c]]

IsWalk(fl, item, f, bound) == f = [n \in 0..bound |-> WalkStep(fl, item, f, n)]

CursorItem == [c \in Positions |-> <<c>>]
EntryItem(fl) == [c \in Positions |-> IF RecordIn(fl, c) THEN <<EntryIn(fl, c)>> ELSE <<>>]

(* There is such a function, so that CHOOSE in Walk finds it. *)
LEMMA WalkExists ==
    ASSUME NEW fl, NEW item, NEW bound \in Nat
    PROVE  \E f : IsWalk(fl, item, f, bound)
<1> DEFINE Bad == {n \in Nat : ~ \E f : IsWalk(fl, item, f, n)}
<1>1. SUFFICES ASSUME Bad # {} PROVE FALSE
    BY <1>1
<1>2. PICK n \in Bad : \A m \in Bad : n <= m
    <2> HIDE DEF Bad
    <2>1. Bad \in SUBSET Nat
        BY DEF Bad
    <2>2. QED
        BY <1>1, <2>1, LeastNumber
<1>3. n # 0
    <2> DEFINE f == [m \in 0..0 |-> WalkStep(fl, item, <<>>, 0)]
    <2>1. WalkStep(fl, item, <<>>, 0) = WalkStep(fl, item, f, 0)
        BY DEF WalkStep
    <2>2. f = [m \in 0..0 |-> WalkStep(fl, item, f, m)]
        BY <2>1
    <2>3. IsWalk(fl, item, f, 0)
        BY <2>2 DEF IsWalk
    <2>4. QED
        BY <2>3
<1>4. n \in Nat /\ n - 1 \in Nat /\ n - 1 \notin Bad
    BY <1>2, <1>3
<1>5. PICK f : IsWalk(fl, item, f, n - 1)
    BY <1>4
<1> DEFINE g == [m \in 0..n |-> IF m < n THEN f[m] ELSE WalkStep(fl, item, f, n)]
<1>6. ASSUME NEW m \in 0..n PROVE g[m] = WalkStep(fl, item, g, m)
    <2>1. ~(m > 0) \/ g[m - 1] = f[m - 1]
        BY <1>4
    <2>2. WalkStep(fl, item, g, m) = WalkStep(fl, item, f, m)
        <3> HIDE DEF g
        <3>1. CASE m > 0
            <4>1. g[m - 1] = f[m - 1]
                BY <2>1, <3>1
            <4>2. QED
                BY <4>1 DEF WalkStep
        <3>2. CASE ~(m > 0)
            BY <3>2 DEF WalkStep
        <3>3. QED
            BY <3>1, <3>2
    <2>3. CASE m < n
        <3>1. m \in 0..(n - 1)
            BY <2>3, <1>4
        <3>2. f[m] = WalkStep(fl, item, f, m)
            BY <3>1, <1>5 DEF IsWalk
        <3>3. QED
            BY <2>2, <2>3, <3>2
    <2>4. CASE ~(m < n)
        <3>1. m = n
            BY <2>4, <1>4
        <3>2. QED
            BY <2>2, <2>4, <3>1
    <2>5. QED
        BY <2>3, <2>4
<1>7. g = [m \in 0..n |-> WalkStep(fl, item, g, m)]
    BY <1>6
<1>8. IsWalk(fl, item, g, n)
    BY <1>7 DEF IsWalk
<1>9. QED
    BY <1>2, <1>8

LEMMA BoundIs == Bound \in Nat
BY FS_CardinalityType DEF Bound

(* The walk of the specification, as a function with that equation. *)
LEMMA TrailUnfolds ==
    ASSUME first_path # NoHour
    PROVE  \E f : IsWalk(file, CursorItem, f, Bound) /\ Trail = f[Bound][First(first_path)]
<1> DEFINE w == CHOOSE w : w = [n \in 0..Bound |-> WalkStep(file, CursorItem, w, n)]
<1>1. w = [n \in 0..Bound |-> WalkStep(file, CursorItem, w, n)]
    <2>1. PICK f : IsWalk(file, CursorItem, f, Bound)
        BY WalkExists, BoundIs
    <2>2. QED
        BY <2>1 DEF IsWalk
<1>2. Trail = w[Bound][First(first_path)]
    BY DEF WalkStep, Trail, Walk, CursorItem, Bound, First, RecordIn, LinkIn, PairIn,
       LinkOf, IsRecord, IsLink, Pair,
           LinkAt, Following, FollowingIn
<1>3. QED
    BY <1>1, <1>2 DEF IsWalk

LEMMA LogUnfolds ==
    ASSUME first_path # NoHour
    PROVE  \E f : IsWalk(file, EntryItem(file), f, Bound) /\ Log = f[Bound][First(first_path)]
<1> DEFINE w == CHOOSE w : w = [n \in 0..Bound |-> WalkStep(file, EntryItem(file), w, n)]
<1>1. w = [n \in 0..Bound |-> WalkStep(file, EntryItem(file), w, n)]
    <2>1. PICK f : IsWalk(file, EntryItem(file), f, Bound)
        BY WalkExists, BoundIs
    <2>2. QED
        BY <2>1 DEF IsWalk
<1>2. Log = w[Bound][First(first_path)]
    BY DEF WalkStep, Log, Walk, EntryItem, EntryIn, EntryAt, Bound, First, RecordIn,
       LinkIn, PairIn, LinkOf, IsRecord, IsLink, Pair,
           LinkAt, Following, FollowingIn
<1>3. QED
    BY <1>1, <1>2 DEF IsWalk

LEMMA LogUnfoldsNext ==
    ASSUME first_path' # NoHour
    PROVE  \E f : IsWalk(file', EntryItem(file'), f, Bound) /\ Log' = f[Bound][First(first_path')]
<1> DEFINE w == CHOOSE w : w = [n \in 0..Bound |-> WalkStep(file', EntryItem(file'), w, n)]
<1>1. w = [n \in 0..Bound |-> WalkStep(file', EntryItem(file'), w, n)]
    <2>1. PICK f : IsWalk(file', EntryItem(file'), f, Bound)
        BY WalkExists, BoundIs
    <2>2. QED
        BY <2>1 DEF IsWalk
<1>2. Log' = w[Bound][First(first_path')]
    BY DEF WalkStep, Log, Walk, EntryItem, EntryIn, EntryAt, Bound, First, RecordIn,
       LinkIn, PairIn, LinkOf, IsRecord, IsLink, Pair,
           LinkAt, Following, FollowingIn
<1>3. QED
    BY <1>1, <1>2 DEF IsWalk

-----------------------------------------------------------------------------
(* The shape of the files, and of the chain of files that the links make. *)

Size(fl, h) == Len(fl[h])

(* A position of the file of an hour where a record or the link begins. *)
Aligned(fl, c) ==
    /\ c \in Positions
    /\ c.hour \in Hours
    /\ c.offset % 2 = 0
    /\ c.offset <= Size(fl, c.hour)

HalfIn(fl, c) ==
    /\ c.offset + 1 = Size(fl, c.hour)
    /\ fl[c.hour][c.offset + 1][1] \in {"length", "zero"}

HasLink(fl, h) ==
    /\ 2 <= Size(fl, h)
    /\ fl[h][Size(fl, h) - 1][1] = "zero"
    /\ fl[h][Size(fl, h)][1] = "path"

Target(fl, h) == fl[h][Size(fl, h)][2]

(* One record after the other, and at the end perhaps one that is half
   written, or the link. *)
Shaped(fl) ==
    \A c \in Positions :
        Aligned(fl, c) /\ c.offset < Size(fl, c.hour)
            => \/ RecordIn(fl, c)
               \/ LinkIn(fl, c) /\ c.offset + 2 = Size(fl, c.hour)
               \/ HalfIn(fl, c)

Distinct(fl) ==
    \A c, d \in Positions :
        /\ Aligned(fl, c) /\ Aligned(fl, d)
        /\ RecordIn(fl, c) /\ RecordIn(fl, d)
        /\ EntryIn(fl, c) = EntryIn(fl, d)
        => c = d

(* The hours whose files a scan from the beginning comes to. *)
Chain(fl, first) ==
    {h \in Hours : h = first \/ \E g \in Hours : HasLink(fl, g) /\ Target(fl, g) = h}

Chained(fl, first) ==
    /\ \A h \in Hours :
          HasLink(fl, h) => first # NoHour /\ h \in Chain(fl, first) /\ h < Target(fl, h)
    /\ \A g, h \in Chain(fl, first) :
          g < h => HasLink(fl, g) /\ Target(fl, g) <= h
    /\ \A h \in Chain(fl, first) : first <= h

(* The cursors that a scan may pass, in their order. *)
Valid(fl, first, c) ==
    /\ Aligned(fl, c)
    /\ c.hour \in Chain(fl, first)
    /\ HasLink(fl, c.hour) => c.offset < Size(fl, c.hour)

Before(c, d) == c.hour < d.hour \/ (c.hour = d.hour /\ c.offset < d.offset)
UpTo(c, d) == c = d \/ Before(c, d)

GoodFiles(fl, first) == Shaped(fl) /\ Distinct(fl) /\ Chained(fl, first)

(* Entry e is readable, in the file of hour h. *)
Recorded(fl, h, e) ==
    \E c \in Positions : Aligned(fl, c) /\ c.hour = h /\ RecordIn(fl, c) /\ EntryIn(fl, c) = e

-----------------------------------------------------------------------------
(* Where the one that adds is. *)

Fresh == {"idle", "read_lock", "save_path"}

(* A record or a link is half written only while it is being written. *)
HalfInv(w) ==
    \A h \in Hours :
        Size(file, h) % 2 = 1
            => \/ wpc[w] = "text" /\ hour[w] = h
               \/ wpc[w] = "path" /\ old[w] = h

(* Between adds the lock record says which file the chain ends with. *)
LockInv(w) ==
    /\ lock # NoHour => lock \in Chain(file, first_path) /\ lock <= now
    /\ lock # NoHour /\ wpc[w] # "write_lock" => \A h \in Chain(file, first_path) : h <= lock
    /\ lock = NoHour /\ wpc[w] \in Fresh
          => first_path = NoHour /\ \A h \in Hours : file[h] = <<>>

AddInv(w) ==
    /\ wpc[w] # "idle" =>
          /\ lock <= hour[w] /\ hour[w] <= now
          /\ \A h \in Chain(file, first_path) : h <= hour[w]
    /\ wpc[w] = "save_path" => lock = NoHour
    /\ wpc[w] \notin {"idle", "read_lock"} => old[w] = OldFile(lock, hour[w])
    /\ wpc[w] \notin Fresh /\ lock = NoHour => first_path = hour[w]
    /\ wpc[w] \in {"read_lock", "save_path", "length"} => ~Written(entry[w])
    /\ wpc[w] = "text" =>
          /\ Size(file, hour[w]) % 2 = 1
          /\ file[hour[w]][Size(file, hour[w])] = <<"length", entry[w]>>
          /\ \A h \in Hours : ~Recorded(file, h, entry[w])
    /\ wpc[w] \in {"zero", "path", "write_lock"} => Recorded(file, hour[w], entry[w])
    /\ wpc[w] = "path" =>
          /\ Size(file, old[w]) % 2 = 1
          /\ file[old[w]][Size(file, old[w])] = <<"zero", NoHour>>
    /\ wpc[w] = "write_lock" => hour[w] \in Chain(file, first_path)

WriterInv(w) == HalfInv(w) /\ LockInv(w) /\ AddInv(w)

AddedInv == \A e \in added : \E h \in Chain(file, first_path) : Recorded(file, h, e)

JournalInv ==
    /\ GoodFiles(file, first_path)
    /\ \A w \in Writers : WriterInv(w)
    /\ AddedInv

-----------------------------------------------------------------------------
(* Where a scan is. *)

ValidRecord(fl, first, c) == Valid(fl, first, c) /\ RecordIn(fl, c)

(* A scan has passed no entry that it should have returned. *)
ScanIn(fl, first, q) ==
    /\ Valid(fl, first, q.from) /\ Valid(fl, first, q.at) /\ UpTo(q.from, q.at)
    /\ q.after => RecordIn(fl, q.from)
    /\ q.skip_first_entry => q.after /\ q.at = q.from
    /\ \A b \in Positions :
          /\ ValidRecord(fl, first, b) /\ UpTo(q.from, b) /\ Before(b, q.at)
          /\ Wanted(q, EntryIn(fl, b))
          => b = q.from /\ q.after

Scanning == {"scan", "found", "nothing"}

CursorsIn(fl, first, p) ==
    /\ p.currentCursor # NoCursor => ValidRecord(fl, first, p.currentCursor)
    /\ p.consumeCursor # NoCursor => ValidRecord(fl, first, p.consumeCursor)
    /\ p.advanceCursor # NoCursor => Valid(fl, first, p.advanceCursor)

ReaderIn(fl, first, location, q) ==
    /\ location # "idle" => CursorsIn(fl, first, q.peer)
    /\ location \in Scanning => ScanIn(fl, first, q)

ScansInv ==
    /\ \A c \in Consumers : CursorsIn(file, first_path, peer[c])
    /\ \A r \in Requesters : ReaderIn(file, first_path, rpc[r], request[r])

-----------------------------------------------------------------------------
(* What a consumer has been given: nothing that it wants is missing before the
   place where it goes on. *)

DoneBefore(fl, first, c, d, given) ==
    \A b \in Positions :
        ValidRecord(fl, first, b) /\ Before(b, d) /\ EntryIn(fl, b) \in Applicable[c]
            => EntryIn(fl, b) \in given

DoneWith(fl, first, c, d, given) ==
    DoneBefore(fl, first, c, d, given) /\ EntryIn(fl, d) \in given

PeerDone(fl, first, c, p, given) ==
    /\ p.currentCursor # NoCursor => DoneWith(fl, first, c, p.currentCursor, given)
    /\ p.consumeCursor # NoCursor => DoneWith(fl, first, c, p.consumeCursor, given)
    /\ p.advanceCursor # NoCursor => DoneBefore(fl, first, c, p.advanceCursor, given)

ScanDone(fl, first, location, q, given) ==
    /\ DoneBefore(fl, first, q.consumer, q.from, given)
    /\ q.after => DoneWith(fl, first, q.consumer, q.from, given)
    /\ q.reissue => /\ q.at = q.from /\ ~q.skip_first_entry
                    /\ ValidRecord(fl, first, q.at)
                    /\ DoneWith(fl, first, q.consumer, q.at, given)
    /\ location = "found" /\ ~q.reissue => EntryIn(fl, q.at) \in Applicable[q.consumer]

ReaderDone(fl, first, location, q, given) ==
    /\ location # "idle" => PeerDone(fl, first, q.consumer, q.peer, given)
    /\ location \in Scanning /\ q.option = "get_next_for_consumer"
          => ScanDone(fl, first, location, q, given)

GivenInv ==
    /\ \A c \in Consumers : PeerDone(file, first_path, c, peer[c], delivered[c])
    /\ \A r \in Requesters :
          ReaderDone(file, first_path, rpc[r], request[r], delivered[request[r].consumer])

-----------------------------------------------------------------------------
(* Types *)

LEMMA NumbersOfHours == Hours \subseteq Nat /\ NoHour \in Nat /\ NoHour \notin Hours /\ 1 \in Hours
BY DEF Hours, NoHour

LEMMA CursorIsPosition == Cursor \subseteq Positions
BY NumbersOfHours DEF Cursor, Positions

LEMMA NoCursorIsCursor == NoCursor \in Cursor /\ NoPeer \in Peer
BY NumbersOfHours DEF Cursor, NoCursor, Peer, NoPeer

(* What the cells that a reader takes for a record or a link hold. *)
LEMMA CellsHold ==
    ASSUME NEW fl \in [Hours -> Seq(Cell)], NEW c \in Positions
    PROVE  /\ RecordIn(fl, c) => EntryIn(fl, c) \in Entries
           /\ LinkIn(fl, c) => LinkOf(fl, c) \in Cursor /\ LinkOf(fl, c).hour \in Hours
<1>1. CASE c.hour \in Hours /\ c.offset + 2 <= Len(fl[c.hour])
    <2>1. fl[c.hour] \in Seq(Cell) /\ c.offset \in Nat
        BY <1>1 DEF Positions
    <2>2. fl[c.hour][c.offset + 1] \in Cell /\ fl[c.hour][c.offset + 2] \in Cell
        <3>1. c.offset + 1 \in 1..Len(fl[c.hour]) /\ c.offset + 2 \in 1..Len(fl[c.hour])
            BY <1>1, <2>1
        <3>2. QED
            BY <2>1, <3>1, ElementOfSeq
    <2>3. RecordIn(fl, c) => EntryIn(fl, c) \in Entries
        BY <2>2 DEF RecordIn, PairIn, EntryIn, Cell
    <2>4. ASSUME LinkIn(fl, c)
          PROVE  fl[c.hour][c.offset + 2][2] \in Hours
        BY <2>2, <2>4 DEF LinkIn, PairIn, Cell
    <2>5. QED
        BY <2>3, <2>4 DEF LinkOf, Cursor
<1>2. CASE ~(c.hour \in Hours /\ c.offset + 2 <= Len(fl[c.hour]))
    BY <1>2 DEF RecordIn, LinkIn, PairIn
<1>3. QED
    BY <1>1, <1>2

-----------------------------------------------------------------------------
(* Cursors in their order *)

LEMMA Parity ==
    ASSUME NEW m \in Nat, NEW n \in Nat
    PROVE  /\ n % 2 = 0 \/ n % 2 = 1
           /\ n % 2 = 0 => (n + 1) % 2 = 1 /\ (n + 2) % 2 = 0
           /\ n % 2 = 1 => (n + 1) % 2 = 0
           /\ m % 2 = 0 /\ n % 2 = 0 /\ m < n => m + 2 <= n
OBVIOUS

LEMMA OddIsPositive ==
    ASSUME NEW n \in Nat, n % 2 = 1
    PROVE  n - 1 \in Nat /\ (n - 1) % 2 = 0 /\ n \in 1..n /\ n >= 1
OBVIOUS

LEMMA CursorsAreEqual ==
    ASSUME NEW c \in Positions, NEW d \in Positions, c.hour = d.hour, c.offset = d.offset
    PROVE  c = d
BY DEF Positions

LEMMA BeforeIsOrder ==
    ASSUME NEW b \in Positions, NEW c \in Positions, NEW d \in Positions
    PROVE  /\ ~Before(c, c)
           /\ Before(b, c) /\ Before(c, d) => Before(b, d)
           /\ UpTo(b, c) /\ Before(c, d) => Before(b, d)
           /\ Before(b, c) /\ UpTo(c, d) => Before(b, d)
           /\ UpTo(b, c) /\ UpTo(c, d) => UpTo(b, d)
           /\ Before(b, c) \/ Before(c, b) \/ b = c
           /\ ~(Before(b, c) /\ Before(c, b))
           /\ ~(UpTo(b, c) /\ Before(c, b))
<1>1. /\ b.hour \in Nat /\ b.offset \in Nat /\ c.hour \in Nat /\ c.offset \in Nat
      /\ d.hour \in Nat /\ d.offset \in Nat
    BY DEF Positions
<1>2. b.hour = c.hour /\ b.offset = c.offset => b = c
    BY CursorsAreEqual
<1>3. QED
    BY <1>1, <1>2 DEF Before, UpTo

(* A record or a link leads to a position. *)
LEMMA FollowingIsPosition ==
    ASSUME NEW fl \in [Hours -> Seq(Cell)], NEW c \in Positions, RecordIn(fl, c) \/ LinkIn(fl, c)
    PROVE  /\ FollowingIn(fl, c) \in Positions
           /\ NextOffset(c) \in Positions
           /\ NextOffset(c).hour = c.hour
           /\ NextOffset(c).offset = c.offset + 2
<1>1. /\ NextOffset(c) \in Positions /\ NextOffset(c).hour = c.hour
      /\ NextOffset(c).offset = c.offset + 2
    BY DEF NextOffset, Positions
<1>2. LinkIn(fl, c) => LinkOf(fl, c) \in Positions
    BY CellsHold, CursorIsPosition
<1>3. QED
    BY <1>1, <1>2 DEF FollowingIn

(* At its end a file has its link, and nowhere else. *)
LEMMA LinkIsAtEnd ==
    ASSUME NEW fl \in [Hours -> Seq(Cell)], Shaped(fl),
           NEW c \in Positions, Aligned(fl, c), LinkIn(fl, c)
    PROVE  /\ ~RecordIn(fl, c)
           /\ c.offset + 2 = Size(fl, c.hour)
           /\ HasLink(fl, c.hour)
           /\ LinkOf(fl, c) = First(Target(fl, c.hour))
<1>1. c.hour \in Hours /\ c.offset \in Nat /\ Len(fl[c.hour]) \in Nat
    BY LenProperties DEF Aligned, Positions
<1>2. ~RecordIn(fl, c)
    BY DEF LinkIn, RecordIn, PairIn
<1>3. c.offset + 2 <= Size(fl, c.hour)
    BY DEF LinkIn, PairIn, Size
<1>4. c.offset + 2 = Size(fl, c.hour)
    BY <1>1, <1>2, <1>3 DEF Shaped, HalfIn, Size
<1>5. c.offset + 1 = Size(fl, c.hour) - 1 /\ 2 <= Size(fl, c.hour)
    BY <1>1, <1>4 DEF Size
<1>6. QED
    BY <1>1, <1>2, <1>4, <1>5 DEF HasLink, Target, LinkOf, First, LinkIn, PairIn

(* The cursor that follows is the next valid one; at the end there is none. *)
LEMMA FollowingIsNext ==
    ASSUME NEW fl \in [Hours -> Seq(Cell)], NEW first, GoodFiles(fl, first),
           NEW c \in Positions, Valid(fl, first, c)
    PROVE  /\ RecordIn(fl, c) \/ LinkIn(fl, c)
                => /\ Valid(fl, first, FollowingIn(fl, c))
                   /\ Before(c, FollowingIn(fl, c))
           /\ \A d \in Positions :
                 Valid(fl, first, d) /\ Before(c, d)
                    => /\ RecordIn(fl, c) \/ LinkIn(fl, c)
                       /\ UpTo(FollowingIn(fl, c), d)
<1>0. /\ c.hour \in Hours /\ c.hour \in Nat /\ c.offset \in Nat
      /\ Size(fl, c.hour) \in Nat /\ c.offset <= Size(fl, c.hour)
      /\ c.offset % 2 = 0 /\ c.hour \in Chain(fl, first)
      /\ HasLink(fl, c.hour) => c.offset < Size(fl, c.hour)
    BY NumbersOfHours, LenProperties DEF Valid, Aligned, Positions, Size
<1>1. CASE RecordIn(fl, c)
    <2> DEFINE f == NextOffset(c)
    <2>1. FollowingIn(fl, c) = f
        BY <1>1 DEF FollowingIn
    <2>2. f \in Positions /\ f.hour = c.hour /\ f.offset = c.offset + 2
        BY <1>1, FollowingIsPosition
    <2>3. /\ c.offset + 2 <= Size(fl, c.hour)
          /\ fl[c.hour][c.offset + 1][1] = "length"
        BY <1>1 DEF RecordIn, PairIn, Size
    <2> HIDE DEF f
    <2>4. HasLink(fl, f.hour) => f.offset < Size(fl, f.hour)
        <3>1. ASSUME HasLink(fl, c.hour), c.offset + 2 = Size(fl, c.hour)
              PROVE  FALSE
            <4>1. Size(fl, c.hour) - 1 = c.offset + 1
                BY <1>0, <3>1
            <4>2. QED
                BY <2>3, <3>1, <4>1 DEF HasLink
        <3>2. Size(fl, f.hour) = Size(fl, c.hour)
            BY <2>2
        <3>3. HasLink(fl, f.hour) => c.offset + 2 # Size(fl, c.hour)
            BY <2>2, <3>1
        <3>4. c.offset + 2 # Size(fl, c.hour) => c.offset + 2 < Size(fl, c.hour)
            BY <1>0, <2>3
        <3>5. QED
            BY <2>2, <3>2, <3>3, <3>4
    <2>5. Valid(fl, first, f)
        <3>1. f.offset % 2 = 0
            BY <1>0, <2>2, Parity
        <3>2. QED
            BY <1>0, <2>2, <2>3, <2>4, <3>1 DEF Valid, Aligned
    <2>6. Before(c, f)
        BY <1>0, <2>2 DEF Before
    <2>7. ASSUME NEW d \in Positions, Valid(fl, first, d), Before(c, d)
          PROVE  UpTo(f, d)
        <3>1. d.hour \in Nat /\ d.offset \in Nat /\ d.offset % 2 = 0
            BY <2>7 DEF Positions, Valid, Aligned
        <3>2. CASE c.hour < d.hour
            BY <2>2, <3>2 DEF UpTo, Before
        <3>3. CASE c.hour = d.hour /\ c.offset < d.offset
            <4>1. c.offset + 2 <= d.offset
                BY <1>0, <3>1, <3>3, Parity
            <4>2. f.offset = d.offset => f = d
                BY <2>2, <3>3, CursorsAreEqual
            <4>3. QED
                BY <1>0, <2>2, <3>1, <3>3, <4>1, <4>2 DEF UpTo, Before
        <3>4. QED
            BY <2>7, <3>2, <3>3 DEF Before
    <2>8. QED
        BY <1>1, <2>1, <2>5, <2>6, <2>7
<1>2. CASE LinkIn(fl, c)
    <2>1. /\ ~RecordIn(fl, c)
          /\ c.offset + 2 = Size(fl, c.hour)
          /\ HasLink(fl, c.hour)
          /\ LinkOf(fl, c) = First(Target(fl, c.hour))
        BY <1>2, LinkIsAtEnd DEF GoodFiles, Valid
    <2> DEFINE f == LinkOf(fl, c)
               t == Target(fl, c.hour)
    <2>2. FollowingIn(fl, c) = f
        BY <2>1 DEF FollowingIn
    <2>3. /\ f \in Positions /\ f.hour = t /\ f.offset = 0 /\ t \in Hours /\ t \in Nat
        <3>1. LinkOf(fl, c) \in Cursor /\ LinkOf(fl, c).hour \in Hours
            BY <1>2, CellsHold
        <3>2. LinkOf(fl, c).hour = t /\ LinkOf(fl, c).offset = 0
            BY <2>1 DEF First
        <3>3. QED
            BY <3>1, <3>2, CursorIsPosition, NumbersOfHours
    <2> HIDE DEF f, t
    <2>4. c.hour < t /\ t \in Chain(fl, first)
        BY <1>0, <2>1, <2>3 DEF GoodFiles, Chained, Chain, t
    <2>5. Valid(fl, first, f)
        <3>1. Size(fl, t) \in Nat
            BY <2>3, LenProperties DEF Size
        <3>2. HasLink(fl, t) => 0 < Size(fl, t)
            BY <3>1 DEF HasLink
        <3>3. QED
            BY <2>3, <2>4, <3>1, <3>2 DEF Valid, Aligned
    <2>6. Before(c, f)
        BY <2>3, <2>4 DEF Before
    <2>7. ASSUME NEW d \in Positions, Valid(fl, first, d), Before(c, d)
          PROVE  UpTo(f, d)
        <3>1. /\ d.hour \in Nat /\ d.offset \in Nat /\ d.offset % 2 = 0
              /\ d.hour \in Chain(fl, first) /\ d.offset <= Size(fl, d.hour)
              /\ HasLink(fl, d.hour) => d.offset < Size(fl, d.hour)
            BY <2>7 DEF Positions, Valid, Aligned
        <3>2. CASE c.hour < d.hour
            <4>1. t <= d.hour
                BY <1>0, <3>1, <3>2 DEF GoodFiles, Chained, t
            <4>2. f.hour = d.hour /\ d.offset = 0 => f = d
                BY <2>3, CursorsAreEqual
            <4>3. QED
                BY <2>3, <3>1, <4>1, <4>2 DEF UpTo, Before
        <3>3. CASE c.hour = d.hour /\ c.offset < d.offset
            <4>1. c.offset + 2 <= d.offset
                BY <1>0, <3>1, <3>3, Parity
            <4>2. QED
                BY <1>0, <2>1, <3>1, <3>3, <4>1
        <3>4. QED
            BY <2>7, <3>2, <3>3 DEF Before
    <2>8. QED
        BY <1>2, <2>2, <2>5, <2>6, <2>7
<1>3. CASE ~RecordIn(fl, c) /\ ~LinkIn(fl, c)
    <2>1. SUFFICES ASSUME NEW d \in Positions, Valid(fl, first, d), Before(c, d)
                   PROVE  FALSE
        BY <1>3
    <2>2. /\ d.hour \in Nat /\ d.offset \in Nat /\ d.offset % 2 = 0
          /\ d.hour \in Chain(fl, first) /\ d.offset <= Size(fl, d.hour)
        BY <2>1 DEF Positions, Valid, Aligned
    <2>3. c.offset < Size(fl, c.hour) => HalfIn(fl, c)
        BY <1>0, <1>3 DEF GoodFiles, Shaped, Valid
    <2>4. CASE c.hour < d.hour
        <3>1. HasLink(fl, c.hour)
            BY <1>0, <2>2, <2>4 DEF GoodFiles, Chained
        <3>2. HalfIn(fl, c)
            BY <1>0, <2>3, <3>1
        <3>3. c.offset + 1 = Size(fl, c.hour)
            BY <3>2 DEF HalfIn
        <3>4. fl[c.hour][Size(fl, c.hour)][1] \in {"length", "zero"}
            BY <3>2, <3>3 DEF HalfIn
        <3>5. QED
            BY <3>1, <3>4 DEF HasLink
    <2>5. CASE c.hour = d.hour /\ c.offset < d.offset
        <3>1. c.offset + 2 <= d.offset
            BY <1>0, <2>2, <2>5, Parity
        <3>2. HalfIn(fl, c)
            BY <1>0, <2>2, <2>3, <2>5
        <3>3. QED
            BY <1>0, <2>2, <2>5, <3>1, <3>2 DEF HalfIn
    <2>6. QED
        BY <2>1, <2>4, <2>5 DEF Before
<1>4. QED
    BY <1>1, <1>2, <1>3

-----------------------------------------------------------------------------
(* How far it is to the end: what is still to be read, and the hours. *)

Ahead(fl, first, c) ==
    {e \in Entries : \E d \in Positions :
        Valid(fl, first, d) /\ RecordIn(fl, d) /\ EntryIn(fl, d) = e /\ UpTo(c, d)}

Distance(fl, first, c) == Cardinality(Ahead(fl, first, c)) + (MaxHour - c.hour)

(* The distance is a number, and the walk goes far enough. *)
LEMMA AheadIsFinite ==
    ASSUME NEW fl, NEW first, NEW c \in Positions, c.hour \in Hours
    PROVE  /\ IsFiniteSet(Ahead(fl, first, c))
           /\ Cardinality(Ahead(fl, first, c)) \in Nat
           /\ Distance(fl, first, c) \in Nat
           /\ Distance(fl, first, c) <= Bound
<1>1. Ahead(fl, first, c) \subseteq Entries
    BY DEF Ahead
<1>2. IsFiniteSet(Entries)
    OBVIOUS
<1>3. /\ IsFiniteSet(Ahead(fl, first, c))
      /\ Cardinality(Ahead(fl, first, c)) <= Cardinality(Entries)
    BY <1>1, <1>2, FS_Subset
<1>4. Cardinality(Ahead(fl, first, c)) \in Nat /\ Cardinality(Entries) \in Nat
    BY <1>2, <1>3, FS_CardinalityType
<1>5. MaxHour - c.hour \in Nat /\ MaxHour - c.hour <= MaxHour /\ MaxHour \in Nat
    BY DEF Hours
<1>6. QED
    BY <1>3, <1>4, <1>5 DEF Distance, Bound

(* Each step of a walk brings the end nearer: a record leaves an entry
   behind, a link leads to a later hour. *)
LEMMA FollowingIsNearer ==
    ASSUME NEW fl \in [Hours -> Seq(Cell)], NEW first, GoodFiles(fl, first),
           NEW c \in Positions, Valid(fl, first, c), RecordIn(fl, c) \/ LinkIn(fl, c)
    PROVE  Distance(fl, first, FollowingIn(fl, c)) < Distance(fl, first, c)
<1> DEFINE f == FollowingIn(fl, c)
<1>1. /\ f \in Positions /\ Valid(fl, first, f) /\ Before(c, f)
    BY FollowingIsPosition, FollowingIsNext
<1>2. f.hour \in Hours /\ c.hour \in Hours /\ f.hour \in Nat /\ c.hour \in Nat
    BY <1>1, NumbersOfHours DEF Valid, Aligned
<1>3. /\ IsFiniteSet(Ahead(fl, first, c)) /\ Cardinality(Ahead(fl, first, c)) \in Nat
      /\ IsFiniteSet(Ahead(fl, first, f)) /\ Cardinality(Ahead(fl, first, f)) \in Nat
    BY <1>1, <1>2, AheadIsFinite
<1> HIDE DEF f
<1>4. Ahead(fl, first, f) \subseteq Ahead(fl, first, c)
    <2>1. SUFFICES ASSUME NEW d \in Positions, UpTo(f, d)
                   PROVE  UpTo(c, d)
        BY DEF Ahead
    <2>2. UpTo(c, f)
        BY <1>1 DEF UpTo
    <2>3. QED
        BY <1>1, <2>1, <2>2, BeforeIsOrder
<1>5. MaxHour \in Nat
    OBVIOUS
<1>6. CASE RecordIn(fl, c)
    <2>1. f.hour = c.hour
        BY <1>6, FollowingIsPosition DEF f, FollowingIn
    <2> DEFINE e == EntryIn(fl, c)
    <2>2. e \in Ahead(fl, first, c)
        BY <1>6, CellsHold DEF Ahead, UpTo
    <2>3. e \notin Ahead(fl, first, f)
        <3>1. SUFFICES ASSUME NEW d \in Positions, Valid(fl, first, d), RecordIn(fl, d),
                              EntryIn(fl, d) = e, UpTo(f, d)
                       PROVE  FALSE
            BY DEF Ahead
        <3>2. d = c
            BY <1>6, <3>1 DEF GoodFiles, Distinct, Valid
        <3>3. QED
            BY <1>1, <3>1, <3>2, BeforeIsOrder
    <2> HIDE DEF e
    <2>4. Ahead(fl, first, f) \subseteq Ahead(fl, first, c) \ {e}
        BY <1>4, <2>3
    <2>5. /\ IsFiniteSet(Ahead(fl, first, c) \ {e})
          /\ Cardinality(Ahead(fl, first, c) \ {e}) = Cardinality(Ahead(fl, first, c)) - 1
        BY <1>3, <2>2, FS_RemoveElement
    <2>6. Cardinality(Ahead(fl, first, f)) <= Cardinality(Ahead(fl, first, c) \ {e})
        BY <2>4, <2>5, FS_Subset
    <2>7. QED
        BY <1>2, <1>3, <1>5, <2>1, <2>5, <2>6 DEF Distance, f
<1>7. CASE ~RecordIn(fl, c)
    <2>1. c.hour < f.hour
        <3>1. f = LinkOf(fl, c) /\ f.offset = 0
            BY <1>7 DEF f, FollowingIn, LinkOf
        <3>2. c.offset \in Nat
            BY DEF Positions
        <3>3. QED
            BY <1>1, <3>1, <3>2 DEF Before
    <2>2. Cardinality(Ahead(fl, first, f)) <= Cardinality(Ahead(fl, first, c))
        BY <1>3, <1>4, FS_Subset
    <2>3. QED
        BY <1>2, <1>3, <1>5, <2>1, <2>2 DEF Distance, f
<1>8. QED
    BY <1>6, <1>7

-----------------------------------------------------------------------------
(* What the walk yields: the valid cursors in their order, and their entries. *)

LEMMA ConsIs ==
    ASSUME NEW S, NEW x \in S, NEW s \in Seq(S)
    PROVE  /\ <<x>> \o s \in Seq(S)
           /\ Len(<<x>> \o s) = Len(s) + 1
           /\ (<<x>> \o s)[1] = x
           /\ \A k \in 1..Len(s) : (<<x>> \o s)[k + 1] = s[k]
           /\ \A k \in 1..(Len(s) + 1) : k = 1 \/ (k - 1 \in 1..Len(s) /\ (<<x>> \o s)[k] = s[k - 1])
<1>1. <<x>> \in Seq(S) /\ Len(<<x>>) = 1 /\ <<x>>[1] = x /\ Len(s) \in Nat
    BY LenProperties
<1>2. /\ <<x>> \o s \in Seq(S)
      /\ Len(<<x>> \o s) = 1 + Len(s)
      /\ \A k \in 1..(1 + Len(s)) : (<<x>> \o s)[k] = IF k <= 1 THEN <<x>>[k] ELSE s[k - 1]
    BY <1>1, ConcatProperties
<1>3. QED
    BY <1>1, <1>2

IsTrail(fl, first, c, s) ==
    /\ s \in Seq(Positions)
    /\ \A k \in 1..Len(s) : Valid(fl, first, s[k]) /\ UpTo(c, s[k])
    /\ \A j, k \in 1..Len(s) : j < k => Before(s[j], s[k])
    /\ \A d \in Positions :
          Valid(fl, first, d) /\ UpTo(c, d) => \E k \in 1..Len(s) : s[k] = d

(* Entry e is that of a record from c on. *)
ReadFrom(fl, first, c, b, e) ==
    /\ b \in Positions /\ Valid(fl, first, b) /\ RecordIn(fl, b)
    /\ UpTo(c, b) /\ EntryIn(fl, b) = e

IsLog(fl, first, c, s) ==
    /\ s \in Seq(Entries)
    /\ \A j, k \in 1..Len(s) : s[j] = s[k] => j = k
    /\ \A j \in 1..Len(s) : \E b : ReadFrom(fl, first, c, b, s[j])
    /\ \A d \in Positions :
          Valid(fl, first, d) /\ RecordIn(fl, d) /\ UpTo(c, d)
            => \E k \in 1..Len(s) :
                  /\ s[k] = EntryIn(fl, d)
                  /\ \A j \in 1..(k - 1) :
                        \E b : ReadFrom(fl, first, c, b, s[j]) /\ Before(b, d)

(* A trail with a cursor put before it is a trail from there. *)
LEMMA TrailFollows ==
    ASSUME NEW fl \in [Hours -> Seq(Cell)], NEW first, GoodFiles(fl, first),
           NEW c \in Positions, Valid(fl, first, c), RecordIn(fl, c) \/ LinkIn(fl, c),
           NEW s, IsTrail(fl, first, FollowingIn(fl, c), s)
    PROVE  IsTrail(fl, first, c, <<c>> \o s)
<1> DEFINE f == FollowingIn(fl, c)
           t == <<c>> \o s
<1>1. /\ f \in Positions /\ Valid(fl, first, f) /\ Before(c, f)
      /\ \A d \in Positions : Valid(fl, first, d) /\ Before(c, d) => UpTo(f, d)
    BY FollowingIsPosition, FollowingIsNext
<1>2. /\ s \in Seq(Positions) /\ Len(s) \in Nat
      /\ \A k \in 1..Len(s) : s[k] \in Positions /\ Valid(fl, first, s[k]) /\ UpTo(f, s[k])
      /\ \A j, k \in 1..Len(s) : j < k => Before(s[j], s[k])
      /\ \A d \in Positions :
            Valid(fl, first, d) /\ UpTo(f, d) => \E k \in 1..Len(s) : s[k] = d
    BY LenProperties, ElementOfSeq DEF IsTrail
<1>3. /\ t \in Seq(Positions) /\ Len(t) = Len(s) + 1 /\ t[1] = c
      /\ \A k \in 1..Len(s) : t[k + 1] = s[k]
      /\ \A k \in 1..(Len(s) + 1) : k = 1 \/ (k - 1 \in 1..Len(s) /\ t[k] = s[k - 1])
    BY <1>2, ConsIs
<1> HIDE DEF f, t
<1>4. \A k \in 1..Len(s) : Before(c, s[k])
    BY <1>1, <1>2, BeforeIsOrder
<1>5. ASSUME NEW k \in 1..Len(t) PROVE Valid(fl, first, t[k]) /\ UpTo(c, t[k])
    BY <1>2, <1>3, <1>4 DEF UpTo
<1>6. ASSUME NEW j \in 1..Len(t), NEW k \in 1..Len(t), j < k PROVE Before(t[j], t[k])
    <2>1. k # 1 /\ k - 1 \in 1..Len(s) /\ t[k] = s[k - 1]
        BY <1>2, <1>3, <1>6
    <2>2. CASE j = 1
        BY <1>3, <1>4, <2>1, <2>2
    <2>3. CASE j # 1
        <3>1. j - 1 \in 1..Len(s) /\ t[j] = s[j - 1] /\ j - 1 < k - 1
            BY <1>2, <1>3, <1>6, <2>3
        <3>2. QED
            BY <1>2, <2>1, <3>1
    <2>4. QED
        BY <2>2, <2>3
<1>7. ASSUME NEW d \in Positions, Valid(fl, first, d), UpTo(c, d)
      PROVE  \E k \in 1..Len(t) : t[k] = d
    <2>1. CASE d = c
        BY <1>2, <1>3, <2>1
    <2>2. CASE d # c
        <3>1. UpTo(f, d)
            BY <1>1, <1>7, <2>2 DEF UpTo
        <3>2. PICK k \in 1..Len(s) : s[k] = d
            BY <1>2, <1>7, <3>1
        <3>3. k + 1 \in 1..Len(t) /\ t[k + 1] = d
            BY <1>2, <1>3, <3>2
        <3>4. QED
            BY <3>3
    <2>3. QED
        BY <2>1, <2>2
<1>8. QED
    BY <1>3, <1>5, <1>6, <1>7 DEF IsTrail, t

(* Where there is neither record nor link the walk ends, and nothing valid
   comes later. *)
LEMMA TrailEnds ==
    ASSUME NEW fl \in [Hours -> Seq(Cell)], NEW first, GoodFiles(fl, first),
           NEW c \in Positions, Valid(fl, first, c), ~(RecordIn(fl, c) \/ LinkIn(fl, c))
    PROVE  /\ IsTrail(fl, first, c, <<c>>)
           /\ IsLog(fl, first, c, <<>>)
<1>1. ASSUME NEW d \in Positions, Valid(fl, first, d), UpTo(c, d) PROVE d = c
    BY <1>1, FollowingIsNext DEF UpTo
<1>2. <<c>> \in Seq(Positions) /\ Len(<<c>>) = 1 /\ <<c>>[1] = c
    OBVIOUS
<1>3. IsTrail(fl, first, c, <<c>>)
    BY <1>1, <1>2 DEF IsTrail, UpTo
<1>4. <<>> \in Seq(Entries) /\ Len(<<>>) = 0
    OBVIOUS
<1>5. IsLog(fl, first, c, <<>>)
    BY <1>1, <1>4 DEF IsLog
<1>6. QED
    BY <1>3, <1>5

(* What is read from a link is what is read from where it leads. *)
LEMMA LogFollowsLink ==
    ASSUME NEW fl \in [Hours -> Seq(Cell)], NEW first, GoodFiles(fl, first),
           NEW c \in Positions, Valid(fl, first, c), LinkIn(fl, c), ~RecordIn(fl, c),
           NEW s, IsLog(fl, first, FollowingIn(fl, c), s)
    PROVE  IsLog(fl, first, c, s)
<1> DEFINE f == FollowingIn(fl, c)
<1>1. /\ f \in Positions /\ Valid(fl, first, f) /\ Before(c, f)
      /\ \A d \in Positions : Valid(fl, first, d) /\ Before(c, d) => UpTo(f, d)
    BY FollowingIsPosition, FollowingIsNext
<1> HIDE DEF f
<1>2. ASSUME NEW b, NEW e, ReadFrom(fl, first, f, b, e) PROVE ReadFrom(fl, first, c, b, e)
    BY <1>1, <1>2, BeforeIsOrder DEF ReadFrom, UpTo
<1>3. ASSUME NEW d \in Positions, Valid(fl, first, d), RecordIn(fl, d), UpTo(c, d)
      PROVE  UpTo(f, d)
    BY <1>1, <1>3 DEF UpTo
<1>4. IsLog(fl, first, f, s)
    BY DEF f
<1>5. \A j \in 1..Len(s) : \E b : ReadFrom(fl, first, c, b, s[j])
    BY <1>2, <1>4 DEF IsLog
<1>6. ASSUME NEW d \in Positions, Valid(fl, first, d), RecordIn(fl, d), UpTo(c, d)
      PROVE  \E k \in 1..Len(s) :
                  /\ s[k] = EntryIn(fl, d)
                  /\ \A j \in 1..(k - 1) :
                        \E b : ReadFrom(fl, first, c, b, s[j]) /\ Before(b, d)
    <2>1. PICK k \in 1..Len(s) :
                  /\ s[k] = EntryIn(fl, d)
                  /\ \A j \in 1..(k - 1) :
                        \E b : ReadFrom(fl, first, f, b, s[j]) /\ Before(b, d)
        BY <1>3, <1>4, <1>6 DEF IsLog
    <2>2. QED
        BY <1>2, <2>1
<1>7. QED
    BY <1>4, <1>5, <1>6 DEF IsLog

(* What is read from a record is its entry, and then what is read behind it. *)
LEMMA LogFollowsRecord ==
    ASSUME NEW fl \in [Hours -> Seq(Cell)], NEW first, GoodFiles(fl, first),
           NEW c \in Positions, Valid(fl, first, c), RecordIn(fl, c),
           NEW s, IsLog(fl, first, FollowingIn(fl, c), s)
    PROVE  IsLog(fl, first, c, <<EntryIn(fl, c)>> \o s)
<1> DEFINE f == FollowingIn(fl, c)
           e == EntryIn(fl, c)
           t == <<e>> \o s
<1>1. /\ f \in Positions /\ Valid(fl, first, f) /\ Before(c, f)
      /\ \A d \in Positions : Valid(fl, first, d) /\ Before(c, d) => UpTo(f, d)
    BY FollowingIsPosition, FollowingIsNext
<1>2. e \in Entries
    BY CellsHold
<1> HIDE DEF f, e
<1>3. IsLog(fl, first, f, s) /\ s \in Seq(Entries) /\ Len(s) \in Nat
    BY LenProperties DEF IsLog, f
<1>4. /\ t \in Seq(Entries) /\ Len(t) = Len(s) + 1 /\ t[1] = e
      /\ \A k \in 1..Len(s) : t[k + 1] = s[k]
      /\ \A k \in 1..(Len(s) + 1) : k = 1 \/ (k - 1 \in 1..Len(s) /\ t[k] = s[k - 1])
    BY <1>2, <1>3, ConsIs
<1> HIDE DEF t
<1>5. ASSUME NEW b, NEW x, ReadFrom(fl, first, f, b, x)
      PROVE  ReadFrom(fl, first, c, b, x) /\ Before(c, b)
    BY <1>1, <1>5, BeforeIsOrder DEF ReadFrom, UpTo
<1>6. ReadFrom(fl, first, c, c, e)
    BY DEF ReadFrom, UpTo, e
<1>7. ASSUME NEW k \in 1..Len(s) PROVE s[k] # e
    <2>1. PICK b : ReadFrom(fl, first, f, b, s[k])
        BY <1>3 DEF IsLog
    <2>2. SUFFICES ASSUME EntryIn(fl, b) = EntryIn(fl, c) PROVE FALSE
        BY <2>1 DEF ReadFrom, e
    <2>3. b = c
        BY <2>1, <2>2 DEF ReadFrom, GoodFiles, Distinct, Valid
    <2>4. Before(c, b)
        BY <1>5, <2>1
    <2>5. QED
        BY <2>3, <2>4, BeforeIsOrder
<1>8. ASSUME NEW j \in 1..Len(t), NEW k \in 1..Len(t), t[j] = t[k] PROVE j = k
    <2>1. CASE j = 1 \/ k = 1
        BY <1>3, <1>4, <1>7, <1>8, <2>1
    <2>2. CASE j # 1 /\ k # 1
        <3>1. /\ j - 1 \in 1..Len(s) /\ t[j] = s[j - 1]
              /\ k - 1 \in 1..Len(s) /\ t[k] = s[k - 1]
            BY <1>3, <1>4, <2>2
        <3>2. j - 1 = k - 1
            BY <1>3, <1>8, <3>1 DEF IsLog
        <3>3. QED
            BY <3>2
    <2>3. QED
        BY <2>1, <2>2
<1>9. ASSUME NEW j \in 1..Len(t) PROVE \E b : ReadFrom(fl, first, c, b, t[j])
    <2>1. CASE j = 1
        BY <1>4, <1>6, <2>1
    <2>2. CASE j # 1
        <3>1. j - 1 \in 1..Len(s) /\ t[j] = s[j - 1]
            BY <1>3, <1>4, <2>2
        <3>2. PICK b : ReadFrom(fl, first, f, b, s[j - 1])
            BY <1>3, <3>1 DEF IsLog
        <3>3. QED
            BY <1>5, <3>1, <3>2
    <2>3. QED
        BY <2>1, <2>2
<1>10. ASSUME NEW d \in Positions, Valid(fl, first, d), RecordIn(fl, d), UpTo(c, d)
       PROVE  \E k \in 1..Len(t) :
                  /\ t[k] = EntryIn(fl, d)
                  /\ \A j \in 1..(k - 1) :
                        \E b : ReadFrom(fl, first, c, b, t[j]) /\ Before(b, d)
    <2>1. CASE d = c
        <3>1. 1 \in 1..Len(t) /\ t[1] = EntryIn(fl, d) /\ 1..(1 - 1) = {}
            BY <1>3, <1>4, <2>1 DEF e
        <3>2. QED
            BY <3>1
    <2>2. CASE d # c
        <3>1. Before(c, d) /\ UpTo(f, d)
            BY <1>1, <1>10, <2>2 DEF UpTo
        <3>2. PICK k \in 1..Len(s) :
                  /\ s[k] = EntryIn(fl, d)
                  /\ \A j \in 1..(k - 1) :
                        \E b : ReadFrom(fl, first, f, b, s[j]) /\ Before(b, d)
            BY <1>3, <1>10, <3>1 DEF IsLog
        <3>3. k + 1 \in 1..Len(t) /\ t[k + 1] = EntryIn(fl, d)
            BY <1>3, <1>4, <3>2
        <3>4. ASSUME NEW j \in 1..((k + 1) - 1)
              PROVE  \E b : ReadFrom(fl, first, c, b, t[j]) /\ Before(b, d)
            <4>1. CASE j = 1
                BY <1>4, <1>6, <3>1, <4>1
            <4>2. CASE j # 1
                <5>1. j - 1 \in 1..(k - 1) /\ t[j] = s[j - 1]
                    BY <1>3, <1>4, <4>2
                <5>2. PICK b : ReadFrom(fl, first, f, b, s[j - 1]) /\ Before(b, d)
                    BY <3>2, <5>1
                <5>3. QED
                    BY <1>5, <5>1, <5>2
            <4>3. QED
                BY <4>1, <4>2
        <3>5. QED
            BY <3>3, <3>4
    <2>3. QED
        BY <2>1, <2>2
<1>11. QED
    BY <1>4, <1>8, <1>9, <1>10 DEF IsLog, t, e

(* A walk of n steps from a cursor near enough has n - 1 left behind it. *)
LEMMA NearCursor ==
    ASSUME NEW fl \in [Hours -> Seq(Cell)], NEW first, GoodFiles(fl, first),
           NEW c \in Positions, Valid(fl, first, c), RecordIn(fl, c) \/ LinkIn(fl, c),
           NEW n \in Nat, Distance(fl, first, c) <= n
    PROVE  /\ n > 0 /\ n - 1 \in Nat
           /\ FollowingIn(fl, c) \in Positions
           /\ Valid(fl, first, FollowingIn(fl, c))
           /\ Distance(fl, first, FollowingIn(fl, c)) <= n - 1
<1>1. FollowingIn(fl, c) \in Positions /\ Valid(fl, first, FollowingIn(fl, c))
    BY FollowingIsPosition, FollowingIsNext
<1>2. /\ Distance(fl, first, c) \in Nat
      /\ Distance(fl, first, FollowingIn(fl, c)) \in Nat
    BY <1>1, AheadIsFinite DEF Valid, Aligned
<1>3. Distance(fl, first, FollowingIn(fl, c)) < Distance(fl, first, c)
    BY FollowingIsNearer
<1>4. QED
    BY <1>1, <1>2, <1>3

(* The walk of the cursors, from any valid cursor that is near enough. *)
LEMMA WalkIsTrail ==
    ASSUME NEW fl \in [Hours -> Seq(Cell)], NEW first, GoodFiles(fl, first),
           NEW f, IsWalk(fl, CursorItem, f, Bound)
    PROVE  \A n \in 0..Bound : \A c \in Positions :
              Valid(fl, first, c) /\ Distance(fl, first, c) <= n => IsTrail(fl, first, c, f[n][c])
<1> DEFINE Good(n) ==
              \A c \in Positions :
                  Valid(fl, first, c) /\ Distance(fl, first, c) <= n => IsTrail(fl, first, c, f[n][c])
           Bad == {n \in 0..Bound : ~Good(n)}
<1>1. SUFFICES ASSUME Bad # {} PROVE FALSE
    OBVIOUS
<1>2. Bad \in SUBSET Nat /\ Bound \in Nat
    BY BoundIs
<1>3. PICK n \in Bad : \A m \in Bad : n <= m
    <2> HIDE DEF Bad
    <2>1. QED
        BY <1>1, <1>2, LeastNumber
<1>4. n \in 0..Bound /\ n \in Nat /\ ~Good(n)
    BY <1>2, <1>3
<1>5. n > 0 => n - 1 \in 0..Bound /\ Good(n - 1)
    <2>1. n > 0 => n - 1 \notin Bad
        <3> HIDE DEF Bad
        <3>1. QED
            BY <1>3, <1>4
    <2>2. n > 0 => n - 1 \in 0..Bound
        BY <1>2, <1>4
    <2>3. QED
        BY <2>1, <2>2
<1> SUFFICES ASSUME NEW c \in Positions, Valid(fl, first, c), Distance(fl, first, c) <= n
             PROVE  IsTrail(fl, first, c, f[n][c])
    BY <1>4
<1> HIDE DEF Good, Bad
<1>w. f[n][c] = IF n > 0 /\ (RecordIn(fl, c) \/ LinkIn(fl, c))
                THEN CursorItem[c] \o f[n - 1][FollowingIn(fl, c)]
                ELSE CursorItem[c]
    <2>1. f[n] = WalkStep(fl, CursorItem, f, n)
        BY <1>4 DEF IsWalk
    <2>2. QED
        BY <2>1 DEF WalkStep
<1>6. CursorItem[c] = <<c>>
    BY DEF CursorItem
<1>7. CASE RecordIn(fl, c) \/ LinkIn(fl, c)
    <2>1. /\ n > 0 /\ FollowingIn(fl, c) \in Positions
          /\ Valid(fl, first, FollowingIn(fl, c))
          /\ Distance(fl, first, FollowingIn(fl, c)) <= n - 1
        BY <1>4, <1>7, NearCursor
    <2>2. IsTrail(fl, first, FollowingIn(fl, c), f[n - 1][FollowingIn(fl, c)])
        BY <1>5, <2>1 DEF Good
    <2>3. f[n][c] = <<c>> \o f[n - 1][FollowingIn(fl, c)]
        BY <1>6, <1>7, <1>w, <2>1
    <2>4. QED
        BY <1>7, <2>2, <2>3, TrailFollows
<1>8. CASE ~(RecordIn(fl, c) \/ LinkIn(fl, c))
    <2>1. f[n][c] = <<c>>
        BY <1>6, <1>8, <1>w
    <2>2. QED
        BY <1>8, <2>1, TrailEnds
<1>9. QED
    BY <1>7, <1>8

(* The walk of the entries, from any valid cursor that is near enough. *)
LEMMA WalkIsLog ==
    ASSUME NEW fl \in [Hours -> Seq(Cell)], NEW first, GoodFiles(fl, first),
           NEW f, IsWalk(fl, EntryItem(fl), f, Bound)
    PROVE  \A n \in 0..Bound : \A c \in Positions :
              Valid(fl, first, c) /\ Distance(fl, first, c) <= n => IsLog(fl, first, c, f[n][c])
<1> DEFINE Good(n) ==
              \A c \in Positions :
                  Valid(fl, first, c) /\ Distance(fl, first, c) <= n => IsLog(fl, first, c, f[n][c])
           Bad == {n \in 0..Bound : ~Good(n)}
<1>1. SUFFICES ASSUME Bad # {} PROVE FALSE
    OBVIOUS
<1>2. Bad \in SUBSET Nat /\ Bound \in Nat
    BY BoundIs
<1>3. PICK n \in Bad : \A m \in Bad : n <= m
    <2> HIDE DEF Bad
    <2>1. QED
        BY <1>1, <1>2, LeastNumber
<1>4. n \in 0..Bound /\ n \in Nat /\ ~Good(n)
    BY <1>2, <1>3
<1>5. n > 0 => n - 1 \in 0..Bound /\ Good(n - 1)
    <2>1. n > 0 => n - 1 \notin Bad
        <3> HIDE DEF Bad
        <3>1. QED
            BY <1>3, <1>4
    <2>2. n > 0 => n - 1 \in 0..Bound
        BY <1>2, <1>4
    <2>3. QED
        BY <2>1, <2>2
<1> SUFFICES ASSUME NEW c \in Positions, Valid(fl, first, c), Distance(fl, first, c) <= n
             PROVE  IsLog(fl, first, c, f[n][c])
    BY <1>4
<1> HIDE DEF Good, Bad
<1>w. f[n][c] = IF n > 0 /\ (RecordIn(fl, c) \/ LinkIn(fl, c))
                THEN EntryItem(fl)[c] \o f[n - 1][FollowingIn(fl, c)]
                ELSE EntryItem(fl)[c]
    <2>1. f[n] = WalkStep(fl, EntryItem(fl), f, n)
        BY <1>4 DEF IsWalk
    <2>2. QED
        BY <2>1 DEF WalkStep
<1>6. /\ RecordIn(fl, c) => EntryItem(fl)[c] = <<EntryIn(fl, c)>>
      /\ ~RecordIn(fl, c) => EntryItem(fl)[c] = <<>>
    BY DEF EntryItem
<1>7. CASE RecordIn(fl, c) \/ LinkIn(fl, c)
    <2> DEFINE s == f[n - 1][FollowingIn(fl, c)]
    <2>1. /\ n > 0 /\ FollowingIn(fl, c) \in Positions
          /\ Valid(fl, first, FollowingIn(fl, c))
          /\ Distance(fl, first, FollowingIn(fl, c)) <= n - 1
        BY <1>4, <1>7, NearCursor
    <2>2. IsLog(fl, first, FollowingIn(fl, c), s)
        BY <1>5, <2>1 DEF Good
    <2>3. f[n][c] = EntryItem(fl)[c] \o s
        BY <1>7, <1>w, <2>1
    <2> HIDE DEF s
    <2>4. CASE RecordIn(fl, c)
        <3>1. IsLog(fl, first, c, <<EntryIn(fl, c)>> \o s)
            BY <2>2, <2>4, LogFollowsRecord
        <3>2. QED
            BY <1>6, <2>3, <2>4, <3>1
    <2>5. CASE ~RecordIn(fl, c)
        <3>1. s \in Seq(Entries)
            BY <2>2 DEF IsLog
        <3>2. f[n][c] = s
            BY <1>6, <2>3, <2>5, <3>1, ConcatEmptySeq
        <3>3. QED
            BY <1>7, <2>2, <2>5, <3>2, LogFollowsLink
    <2>6. QED
        BY <2>4, <2>5
<1>8. CASE ~(RecordIn(fl, c) \/ LinkIn(fl, c))
    <2>1. f[n][c] = <<>>
        BY <1>6, <1>8, <1>w
    <2>2. QED
        BY <1>8, <2>1, TrailEnds
<1>9. QED
    BY <1>7, <1>8

-----------------------------------------------------------------------------
(* A walk of files that have grown begins with the walk of the files. *)

Grown(fl, gl) ==
    \A h \in Hours :
        /\ Size(fl, h) <= Size(gl, h)
        /\ \A k \in 1..Size(fl, h) : gl[h][k] = fl[h][k]

IsPrefixOf(s, t) ==
    /\ Len(s) <= Len(t)
    /\ \A k \in 1..Len(s) : t[k] = s[k]

(* A record or a link that was there is there, and is the same. *)
LEMMA GrownKeeps ==
    ASSUME NEW fl \in [Hours -> Seq(Cell)], NEW gl \in [Hours -> Seq(Cell)], Grown(fl, gl),
           NEW c \in Positions
    PROVE  /\ RecordIn(fl, c) => RecordIn(gl, c) /\ EntryIn(gl, c) = EntryIn(fl, c)
           /\ LinkIn(fl, c) => LinkIn(gl, c) /\ LinkOf(gl, c) = LinkOf(fl, c)
<1>1. SUFFICES ASSUME c.hour \in Hours, c.offset + 2 <= Len(fl[c.hour])
               PROVE  /\ RecordIn(fl, c) => RecordIn(gl, c) /\ EntryIn(gl, c) = EntryIn(fl, c)
                      /\ LinkIn(fl, c) => LinkIn(gl, c) /\ LinkOf(gl, c) = LinkOf(fl, c)
    BY DEF RecordIn, LinkIn, PairIn
<1>2. c.offset \in Nat /\ Len(fl[c.hour]) \in Nat /\ Len(gl[c.hour]) \in Nat
    BY <1>1, LenProperties DEF Positions
<1>3. /\ Len(fl[c.hour]) <= Len(gl[c.hour])
      /\ \A k \in 1..Len(fl[c.hour]) : gl[c.hour][k] = fl[c.hour][k]
    BY <1>1 DEF Grown, Size
<1>4. /\ gl[c.hour][c.offset + 1] = fl[c.hour][c.offset + 1]
      /\ gl[c.hour][c.offset + 2] = fl[c.hour][c.offset + 2]
      /\ c.offset + 2 <= Len(gl[c.hour])
    <2>1. c.offset + 1 \in 1..Len(fl[c.hour]) /\ c.offset + 2 \in 1..Len(fl[c.hour])
        BY <1>1, <1>2
    <2>2. QED
        BY <1>1, <1>2, <1>3, <2>1
<1>5. /\ RecordIn(gl, c) <=> RecordIn(fl, c)
      /\ LinkIn(gl, c) <=> LinkIn(fl, c)
    BY <1>1, <1>4 DEF RecordIn, LinkIn, PairIn
<1>6. EntryIn(gl, c) = EntryIn(fl, c) /\ LinkOf(gl, c) = LinkOf(fl, c)
    BY <1>4 DEF EntryIn, LinkOf
<1>7. QED
    BY <1>5, <1>6

LEMMA PrefixAfter ==
    ASSUME NEW S, NEW x, x \in Seq(S), NEW s \in Seq(S), NEW t \in Seq(S), IsPrefixOf(s, t)
    PROVE  IsPrefixOf(x \o s, x \o t)
<1>1. Len(x) \in Nat /\ Len(s) \in Nat /\ Len(t) \in Nat
    BY LenProperties
<1>2. /\ Len(x \o s) = Len(x) + Len(s)
      /\ Len(x \o t) = Len(x) + Len(t)
      /\ \A k \in 1..(Len(x) + Len(s)) :
            (x \o s)[k] = IF k <= Len(x) THEN x[k] ELSE s[k - Len(x)]
      /\ \A k \in 1..(Len(x) + Len(t)) :
            (x \o t)[k] = IF k <= Len(x) THEN x[k] ELSE t[k - Len(x)]
    BY ConcatProperties
<1>3. Len(s) <= Len(t) /\ \A k \in 1..Len(s) : t[k] = s[k]
    BY DEF IsPrefixOf
<1>4. ASSUME NEW k \in 1..(Len(x) + Len(s)) PROVE (x \o t)[k] = (x \o s)[k]
    <2>1. CASE k <= Len(x)
        BY <1>1, <1>2, <1>3, <2>1
    <2>2. CASE ~(k <= Len(x))
        <3>1. k - Len(x) \in 1..Len(s)
            BY <1>1, <2>2
        <3>2. QED
            BY <1>1, <1>2, <1>3, <2>2, <3>1
    <2>3. QED
        BY <2>1, <2>2
<1>5. QED
    BY <1>1, <1>2, <1>3, <1>4 DEF IsPrefixOf

(* From every position, what was read there before the files grew comes
   first. *)
LEMMA WalkOfGrown ==
    ASSUME NEW fl \in [Hours -> Seq(Cell)], NEW gl \in [Hours -> Seq(Cell)], Grown(fl, gl),
           NEW f, IsWalk(fl, EntryItem(fl), f, Bound),
           NEW g, IsWalk(gl, EntryItem(gl), g, Bound)
    PROVE  \A n \in 0..Bound : \A c \in Positions :
              /\ f[n][c] \in Seq(Entries) /\ g[n][c] \in Seq(Entries)
              /\ IsPrefixOf(f[n][c], g[n][c])
<1> DEFINE Good(n) ==
              \A c \in Positions :
                  /\ f[n][c] \in Seq(Entries) /\ g[n][c] \in Seq(Entries)
                  /\ IsPrefixOf(f[n][c], g[n][c])
           Bad == {n \in 0..Bound : ~Good(n)}
<1>1. SUFFICES ASSUME Bad # {} PROVE FALSE
    OBVIOUS
<1>2. Bad \in SUBSET Nat /\ Bound \in Nat
    BY BoundIs
<1>3. PICK n \in Bad : \A m \in Bad : n <= m
    <2> HIDE DEF Bad
    <2>1. QED
        BY <1>1, <1>2, LeastNumber
<1>4. n \in 0..Bound /\ n \in Nat /\ ~Good(n)
    BY <1>2, <1>3
<1>5. n > 0 => n - 1 \in 0..Bound /\ Good(n - 1)
    <2>1. n > 0 => n - 1 \notin Bad
        <3> HIDE DEF Bad
        <3>1. QED
            BY <1>3, <1>4
    <2>2. n > 0 => n - 1 \in 0..Bound
        BY <1>2, <1>4
    <2>3. QED
        BY <2>1, <2>2
<1> SUFFICES ASSUME NEW c \in Positions
             PROVE  /\ f[n][c] \in Seq(Entries) /\ g[n][c] \in Seq(Entries)
                    /\ IsPrefixOf(f[n][c], g[n][c])
    BY <1>4
<1> HIDE DEF Good, Bad
<1>g. /\ RecordIn(fl, c) => RecordIn(gl, c) /\ EntryIn(gl, c) = EntryIn(fl, c)
      /\ LinkIn(fl, c) => LinkIn(gl, c)
      /\ RecordIn(fl, c) \/ LinkIn(fl, c) => FollowingIn(gl, c) = FollowingIn(fl, c)
    <2>1. RecordIn(fl, c) => RecordIn(gl, c) /\ EntryIn(gl, c) = EntryIn(fl, c)
        BY GrownKeeps
    <2>2. LinkIn(fl, c) => LinkIn(gl, c)
        BY GrownKeeps
    <2>3. ASSUME RecordIn(fl, c) PROVE FollowingIn(gl, c) = FollowingIn(fl, c)
        BY <2>1, <2>3 DEF FollowingIn
    <2>4. ASSUME LinkIn(fl, c), ~RecordIn(fl, c)
          PROVE  FollowingIn(gl, c) = FollowingIn(fl, c)
        <3>1. ~RecordIn(gl, c)
            BY <2>2, <2>4 DEF LinkIn, RecordIn, PairIn
        <3>2. LinkOf(gl, c) = LinkOf(fl, c)
            BY <2>4, GrownKeeps
        <3>3. QED
            BY <2>4, <3>1, <3>2 DEF FollowingIn
    <2>5. QED
        BY <2>1, <2>2, <2>3, <2>4
<1> DEFINE FromOf(hl, h, c1) ==
              IF n > 0 /\ (RecordIn(hl, c1) \/ LinkIn(hl, c1))
              THEN EntryItem(hl)[c1] \o h[n - 1][FollowingIn(hl, c1)]
              ELSE EntryItem(hl)[c1]
<1>6. f[n][c] = FromOf(fl, f, c)
    <2>1. f[n] = WalkStep(fl, EntryItem(fl), f, n)
        BY <1>4 DEF IsWalk
    <2>2. QED
        BY <2>1 DEF WalkStep
<1>7. g[n][c] = FromOf(gl, g, c)
    <2>1. g[n] = WalkStep(gl, EntryItem(gl), g, n)
        BY <1>4 DEF IsWalk
    <2>2. QED
        BY <2>1 DEF WalkStep
<1>8. /\ EntryItem(fl)[c] \in Seq(Entries) /\ EntryItem(gl)[c] \in Seq(Entries)
      /\ ~RecordIn(fl, c) => EntryItem(fl)[c] = <<>>
      /\ RecordIn(fl, c) => EntryItem(gl)[c] = EntryItem(fl)[c]
    <2>1. /\ RecordIn(fl, c) => EntryIn(fl, c) \in Entries
          /\ RecordIn(gl, c) => EntryIn(gl, c) \in Entries
        BY CellsHold
    <2>2. EntryItem(fl)[c] = IF RecordIn(fl, c) THEN <<EntryIn(fl, c)>> ELSE <<>>
        BY DEF EntryItem
    <2>3. EntryItem(gl)[c] = IF RecordIn(gl, c) THEN <<EntryIn(gl, c)>> ELSE <<>>
        BY DEF EntryItem
    <2>4. RecordIn(fl, c) => RecordIn(gl, c) /\ EntryIn(gl, c) = EntryIn(fl, c)
        BY <1>g
    <2>5. <<>> \in Seq(Entries) /\ \A e \in Entries : <<e>> \in Seq(Entries)
        OBVIOUS
    <2>6. QED
        BY <2>1, <2>2, <2>3, <2>4, <2>5
<1>9. ASSUME n > 0, RecordIn(gl, c) \/ LinkIn(gl, c)
      PROVE  /\ g[n][c] = EntryItem(gl)[c] \o g[n - 1][FollowingIn(gl, c)]
             /\ g[n - 1][FollowingIn(gl, c)] \in Seq(Entries)
             /\ g[n][c] \in Seq(Entries)
    <2>1. FollowingIn(gl, c) \in Positions
        BY <1>9, FollowingIsPosition
    <2>2. g[n - 1][FollowingIn(gl, c)] \in Seq(Entries)
        BY <1>5, <1>9, <2>1 DEF Good
    <2>3. g[n][c] = EntryItem(gl)[c] \o g[n - 1][FollowingIn(gl, c)]
        BY <1>7, <1>9
    <2>4. EntryItem(gl)[c] \o g[n - 1][FollowingIn(gl, c)] \in Seq(Entries)
        BY <1>8, <2>2, ConcatProperties
    <2>5. QED
        BY <2>2, <2>3, <2>4
<1>10. g[n][c] \in Seq(Entries)
    BY <1>7, <1>8, <1>9
<1>11. CASE n > 0 /\ (RecordIn(fl, c) \/ LinkIn(fl, c))
    <2> DEFINE d == FollowingIn(fl, c)
    <2>1. d \in Positions
        BY <1>11, FollowingIsPosition
    <2>2. /\ f[n - 1][d] \in Seq(Entries) /\ g[n - 1][d] \in Seq(Entries)
          /\ IsPrefixOf(f[n - 1][d], g[n - 1][d])
        BY <1>5, <1>11, <2>1 DEF Good
    <2>3. f[n][c] = EntryItem(fl)[c] \o f[n - 1][d]
        BY <1>6, <1>11
    <2>4. g[n][c] = EntryItem(gl)[c] \o g[n - 1][d]
        <3>1. RecordIn(fl, c) \/ LinkIn(fl, c)
            BY <1>11
        <3>2. RecordIn(gl, c) \/ LinkIn(gl, c)
            BY <3>1, <1>g
        <3>3. FollowingIn(gl, c) = FollowingIn(fl, c)
            BY <3>1, <1>g
        <3>4. QED
            BY <1>7, <1>11, <3>2, <3>3
    <2>5. EntryItem(gl)[c] = EntryItem(fl)[c]
        <3>1. LinkIn(fl, c) /\ ~RecordIn(fl, c) => ~RecordIn(gl, c)
            <4>1. LinkIn(fl, c) => LinkIn(gl, c)
                BY <1>g
            <4>2. LinkIn(gl, c) => ~RecordIn(gl, c)
                BY DEF RecordIn, LinkIn, PairIn
            <4>3. QED
                BY <4>1, <4>2
        <3>2. EntryItem(gl)[c] = IF RecordIn(gl, c) THEN <<EntryIn(gl, c)>> ELSE <<>>
            BY DEF EntryItem
        <3>3. QED
            BY <1>8, <1>11, <3>1, <3>2
    <2> HIDE DEF d
    <2>6. f[n][c] \in Seq(Entries)
        BY <1>8, <2>2, <2>3, ConcatProperties
    <2>7. IsPrefixOf(f[n][c], g[n][c])
        BY <1>8, <2>2, <2>3, <2>4, <2>5, PrefixAfter
    <2>8. QED
        BY <1>10, <2>6, <2>7
<1>12. CASE ~(n > 0 /\ (RecordIn(fl, c) \/ LinkIn(fl, c)))
    <2>1. f[n][c] = EntryItem(fl)[c]
        BY <1>6, <1>12
    <2>2. CASE RecordIn(fl, c)
        <3>1. ~(n > 0)
            BY <1>12, <2>2
        <3>2. g[n][c] = f[n][c]
            BY <1>7, <1>8, <2>1, <2>2, <3>1
        <3>3. Len(f[n][c]) \in Nat
            BY <1>10, <3>2, LenProperties
        <3>4. QED
            BY <1>10, <3>2, <3>3 DEF IsPrefixOf
    <2>3. CASE ~RecordIn(fl, c)
        <3>1. f[n][c] = <<>> /\ <<>> \in Seq(Entries) /\ Len(<<>>) = 0
            BY <1>8, <2>1, <2>3
        <3>2. Len(g[n][c]) \in Nat
            BY <1>10, LenProperties
        <3>3. QED
            BY <1>10, <3>1, <3>2 DEF IsPrefixOf
    <2>4. QED
        BY <2>2, <2>3
<1>13. QED
    BY <1>11, <1>12

-----------------------------------------------------------------------------
(* Trail and Log, of the state *)

LEMMA FirstIsValid ==
    ASSUME NEW fl \in [Hours -> Seq(Cell)], NEW first \in Hours, GoodFiles(fl, first)
    PROVE  /\ First(first) \in Positions
           /\ Valid(fl, first, First(first))
           /\ \A c \in Positions : Valid(fl, first, c) => UpTo(First(first), c)
<1>1. First(first) \in Positions /\ First(first).hour = first /\ First(first).offset = 0
    BY NumbersOfHours DEF First, Positions
<1>2. Size(fl, first) \in Nat /\ (HasLink(fl, first) => 0 < Size(fl, first))
    BY LenProperties DEF HasLink, Size
<1>3. Valid(fl, first, First(first))
    BY <1>1, <1>2 DEF Valid, Aligned, Chain
<1>4. ASSUME NEW c \in Positions, Valid(fl, first, c) PROVE UpTo(First(first), c)
    <2>1. c.hour \in Nat /\ c.offset \in Nat /\ first \in Nat
        BY NumbersOfHours DEF Positions
    <2>2. first <= c.hour
        BY <1>4 DEF GoodFiles, Chained, Valid
    <2>3. c.hour = first /\ c.offset = 0 => c = First(first)
        BY <1>1, CursorsAreEqual
    <2>4. QED
        BY <1>1, <2>1, <2>2, <2>3 DEF UpTo, Before
<1>5. QED
    BY <1>1, <1>3, <1>4

(* The trail passes the valid cursors in their order, the log has the
   entries of the records among them, each once. *)
LEMMA TrailIs ==
    ASSUME file \in [Hours -> Seq(Cell)], first_path \in Hours, GoodFiles(file, first_path)
    PROVE  IsTrail(file, first_path, First(first_path), Trail)
<1>1. PICK f : IsWalk(file, CursorItem, f, Bound) /\ Trail = f[Bound][First(first_path)]
    <2>1. first_path # NoHour
        BY NumbersOfHours
    <2>2. QED
        BY <2>1, TrailUnfolds
<1>2. First(first_path) \in Positions /\ Valid(file, first_path, First(first_path))
    BY FirstIsValid
<1>3. Distance(file, first_path, First(first_path)) <= Bound
    BY <1>2, AheadIsFinite DEF Valid, Aligned
<1>4. Bound \in 0..Bound
    BY BoundIs
<1>5. QED
    BY <1>1, <1>2, <1>3, <1>4, WalkIsTrail

LEMMA LogIs ==
    ASSUME file \in [Hours -> Seq(Cell)], first_path \in Hours, GoodFiles(file, first_path)
    PROVE  IsLog(file, first_path, First(first_path), Log)
<1>1. PICK f : IsWalk(file, EntryItem(file), f, Bound) /\ Log = f[Bound][First(first_path)]
    <2>1. first_path # NoHour
        BY NumbersOfHours
    <2>2. QED
        BY <2>1, LogUnfolds
<1>2. First(first_path) \in Positions /\ Valid(file, first_path, First(first_path))
    BY FirstIsValid
<1>3. Distance(file, first_path, First(first_path)) <= Bound
    BY <1>2, AheadIsFinite DEF Valid, Aligned
<1>4. Bound \in 0..Bound
    BY BoundIs
<1>5. QED
    BY <1>1, <1>2, <1>3, <1>4, WalkIsLog

LEMMA LogIsNext ==
    ASSUME file' \in [Hours -> Seq(Cell)], first_path' \in Hours, GoodFiles(file', first_path')
    PROVE  IsLog(file', first_path', First(first_path'), Log')
<1>1. PICK f : IsWalk(file', EntryItem(file'), f, Bound) /\ Log' = f[Bound][First(first_path')]
    <2>1. first_path' # NoHour
        BY NumbersOfHours
    <2>2. QED
        BY <2>1, LogUnfoldsNext
<1>2. First(first_path') \in Positions /\ Valid(file', first_path', First(first_path'))
    BY FirstIsValid
<1>3. Distance(file', first_path', First(first_path')) <= Bound
    BY <1>2, AheadIsFinite DEF Valid, Aligned
<1>4. Bound \in 0..Bound
    BY BoundIs
<1>5. QED
    BY <1>1, <1>2, <1>3, <1>4, WalkIsLog

(* Without a first file nothing is read. *)
LEMMA NothingIsRead ==
    /\ first_path = NoHour => Trail = <<>> /\ Log = <<>>
    /\ first_path' = NoHour => Log' = <<>>
BY DEF Trail, Log, Walk

(* The journal grows at its end. *)
LEMMA LogGrows ==
    ASSUME file \in [Hours -> Seq(Cell)], file' \in [Hours -> Seq(Cell)], Grown(file, file'),
           first_path \in Hours, first_path' = first_path
    PROVE  /\ Log \in Seq(Entries) /\ Log' \in Seq(Entries)
           /\ IsPrefixOf(Log, Log')
<1>1. PICK f : IsWalk(file, EntryItem(file), f, Bound) /\ Log = f[Bound][First(first_path)]
    <2>1. first_path # NoHour
        BY NumbersOfHours
    <2>2. QED
        BY <2>1, LogUnfolds
<1>2. PICK g : IsWalk(file', EntryItem(file'), g, Bound) /\ Log' = g[Bound][First(first_path')]
    <2>1. first_path' # NoHour
        BY NumbersOfHours
    <2>2. QED
        BY <2>1, LogUnfoldsNext
<1>3. First(first_path) \in Positions
    BY NumbersOfHours DEF First, Positions
<1>4. Bound \in 0..Bound
    BY BoundIs
<1>5. QED
    BY <1>1, <1>2, <1>3, <1>4, WalkOfGrown

-----------------------------------------------------------------------------
(* Type correctness *)

LEMMA WalkOfCursors ==
    ASSUME NEW fl \in [Hours -> Seq(Cell)], NEW f, IsWalk(fl, CursorItem, f, Bound)
    PROVE  \A n \in 0..Bound : \A c \in Positions : f[n][c] \in Seq(Positions)
<1> DEFINE Good(n) == \A c \in Positions : f[n][c] \in Seq(Positions)
           Bad == {n \in 0..Bound : ~Good(n)}
<1>1. SUFFICES ASSUME Bad # {} PROVE FALSE
    OBVIOUS
<1>2. Bad \in SUBSET Nat /\ Bound \in Nat
    BY BoundIs
<1>3. PICK n \in Bad : \A m \in Bad : n <= m
    <2> HIDE DEF Bad
    <2>1. QED
        BY <1>1, <1>2, LeastNumber
<1>4. n \in 0..Bound /\ n \in Nat /\ ~Good(n)
    BY <1>2, <1>3
<1>5. n > 0 => n - 1 \in 0..Bound /\ Good(n - 1)
    <2>1. n > 0 => n - 1 \notin Bad
        <3> HIDE DEF Bad
        <3>1. QED
            BY <1>3, <1>4
    <2>2. n > 0 => n - 1 \in 0..Bound
        BY <1>2, <1>4
    <2>3. QED
        BY <2>1, <2>2
<1> SUFFICES ASSUME NEW c \in Positions PROVE f[n][c] \in Seq(Positions)
    BY <1>4
<1> HIDE DEF Good, Bad
<1>6. f[n][c] = IF n > 0 /\ (RecordIn(fl, c) \/ LinkIn(fl, c))
                THEN CursorItem[c] \o f[n - 1][FollowingIn(fl, c)]
                ELSE CursorItem[c]
    <2>1. f[n] = WalkStep(fl, CursorItem, f, n)
        BY <1>4 DEF IsWalk
    <2>2. QED
        BY <2>1 DEF WalkStep
<1>7. CursorItem[c] = <<c>> /\ <<c>> \in Seq(Positions)
    BY DEF CursorItem
<1>8. CASE n > 0 /\ (RecordIn(fl, c) \/ LinkIn(fl, c))
    <2>1. FollowingIn(fl, c) \in Positions
        BY <1>8, FollowingIsPosition
    <2>2. f[n - 1][FollowingIn(fl, c)] \in Seq(Positions)
        BY <1>5, <1>8, <2>1 DEF Good
    <2>3. <<c>> \o f[n - 1][FollowingIn(fl, c)] \in Seq(Positions)
        BY <1>7, <2>2, ConcatProperties
    <2>4. QED
        BY <1>6, <1>7, <1>8, <2>3
<1>9. CASE ~(n > 0 /\ (RecordIn(fl, c) \/ LinkIn(fl, c)))
    BY <1>6, <1>7, <1>9
<1>10. QED
    BY <1>8, <1>9

(* The cursors that a request may name are those of records. *)
LEMMA RecordsAreCursors ==
    ASSUME TypeOK
    PROVE  \A c \in Records : c \in Cursor /\ IsRecord(c) /\ c \in ToSet(Trail)
<1>1. SUFFICES ASSUME NEW c \in ToSet(Trail), IsRecord(c) PROVE c \in Cursor
    BY DEF Records
<1>2. Trail \in Seq(Positions)
    <2>1. CASE first_path = NoHour
        BY <2>1, NothingIsRead
    <2>2. CASE first_path # NoHour
        <3>1. PICK f : IsWalk(file, CursorItem, f, Bound) /\ Trail = f[Bound][First(first_path)]
            BY <2>2, TrailUnfolds
        <3>2. First(first_path) \in Positions
            BY <2>2, NumbersOfHours DEF First, Positions, TypeOK
        <3>3. Bound \in 0..Bound
            BY BoundIs
        <3>4. QED
            BY <3>1, <3>2, <3>3, WalkOfCursors DEF TypeOK
    <2>3. QED
        BY <2>1, <2>2
<1>3. c \in Positions
    BY <1>2 DEF ToSet
<1>4. c.hour \in Hours
    BY <1>1 DEF IsRecord, Pair
<1>5. QED
    BY <1>3, <1>4 DEF Positions, Cursor

LEMMA NoRequestIsRequest == NoRequest \in Request
<1>1. AnyConsumer \in Consumers
    BY DEF AnyConsumer
<1>2. QED
    BY <1>1, NoCursorIsCursor DEF NoRequest, Request, Option

LEMMA StartIsTyped ==
    ASSUME TypeOK, NEW r \in Requesters, NEW q \in Request, Start(r, q)
    PROVE  TypeOK'
<1>1. [q EXCEPT !.from = q.at, !.after = q.skip_first_entry] \in Request
    BY DEF Request
<1>2. QED
    BY <1>1 DEF TypeOK, Start, fileVars, writerVars

LEMMA FromFirstIsTyped ==
    ASSUME TypeOK, NEW q \in Request
    PROVE  FromFirst(q) \in Request
<1>1. [hour |-> first_path, offset |-> 0] \in Cursor
    BY DEF TypeOK, Cursor
<1>2. QED
    BY <1>1 DEF FromFirst, Request

LEMMA FromConsumerCursorsIsTyped ==
    ASSUME TypeOK, NEW p \in Peer, NEW q \in Request
    PROVE  FromConsumerCursors(p, q) \in Request
<1>1. p.consumeCursor \in Cursor /\ p.advanceCursor \in Cursor /\ p.currentCursor \in Cursor
    BY DEF Peer
<1>2. CASE p.consumeCursor # NoCursor
    <2>1. FromConsumerCursors(p, q) = [q EXCEPT !.at = p.consumeCursor, !.reissue = TRUE]
        BY <1>2 DEF FromConsumerCursors
    <2>2. QED
        BY <1>1, <2>1 DEF Request
<1>3. CASE p.consumeCursor = NoCursor /\ p.advanceCursor # NoCursor
    <2>1. FromConsumerCursors(p, q) = [q EXCEPT !.at = p.advanceCursor]
        BY <1>3 DEF FromConsumerCursors
    <2>2. QED
        BY <1>1, <2>1 DEF Request
<1>4. CASE p.consumeCursor = NoCursor /\ p.advanceCursor = NoCursor /\ p.currentCursor # NoCursor
    <2>1. FromConsumerCursors(p, q) = [q EXCEPT !.at = p.currentCursor, !.skip_first_entry = TRUE]
        BY <1>4 DEF FromConsumerCursors
    <2>2. QED
        BY <1>1, <2>1 DEF Request
<1>5. CASE p.consumeCursor = NoCursor /\ p.advanceCursor = NoCursor /\ p.currentCursor = NoCursor
    <2>1. p = NoPeer
        BY <1>5 DEF Peer, NoPeer
    <2>2. FromConsumerCursors(p, q) = FromFirst(q)
        BY <1>5, <2>1 DEF FromConsumerCursors
    <2>3. QED
        BY <2>2, FromFirstIsTyped
<1>6. QED
    BY <1>2, <1>3, <1>4, <1>5

LEMMA ReadersSee ==
    ASSUME NEW c
    PROVE  /\ IsRecord(c) <=> RecordIn(file, c)
           /\ IsLink(c) <=> LinkIn(file, c)
           /\ EntryAt(c) = EntryIn(file, c)
           /\ LinkAt(c) = LinkOf(file, c)
BY DEF IsRecord, IsLink, Pair, EntryAt, LinkAt, RecordIn, LinkIn, PairIn, EntryIn, LinkOf

(* What a requester finds at its position is of the right type. *)
LEMMA FoundIsTyped ==
    ASSUME TypeOK, NEW r \in Requesters
    PROVE  /\ request[r] \in Request
           /\ request[r].peer \in Peer
           /\ request[r].at \in Cursor /\ request[r].at \in Positions
           /\ request[r].from \in Cursor /\ request[r].from \in Positions
           /\ request[r].consumer \in Consumers
           /\ IsRecord(request[r].at) => EntryAt(request[r].at) \in Entries
           /\ IsLink(request[r].at) => LinkAt(request[r].at) \in Cursor
           /\ IsRecord(request[r].at) => NextOffset(request[r].at) \in Cursor
<1>1. /\ request[r] \in Request /\ request[r].peer \in Peer
      /\ request[r].at \in Cursor /\ request[r].from \in Cursor
      /\ request[r].consumer \in Consumers
    BY DEF TypeOK, Request
<1>2. request[r].at \in Positions /\ request[r].from \in Positions
    BY <1>1, CursorIsPosition
<1>3. /\ IsRecord(request[r].at) => EntryAt(request[r].at) \in Entries
      /\ IsLink(request[r].at) => LinkAt(request[r].at) \in Cursor
    <2>1. file \in [Hours -> Seq(Cell)]
        BY DEF TypeOK
    <2>2. /\ RecordIn(file, request[r].at) => EntryIn(file, request[r].at) \in Entries
          /\ LinkIn(file, request[r].at) => LinkOf(file, request[r].at) \in Cursor
        BY <1>2, <2>1, CellsHold
    <2>3. QED
        BY <2>2, ReadersSee
<1>4. NextOffset(request[r].at) \in Cursor
    BY <1>1 DEF NextOffset, Cursor
<1>5. QED
    BY <1>1, <1>2, <1>3, <1>4

LEMMA TypeInit == Init => TypeOK
<1> SUFFICES ASSUME Init PROVE TypeOK
    OBVIOUS
<1>1. file \in [Hours -> Seq(Cell)]
    BY DEF Init
<1>2. peer \in [Consumers -> Peer] /\ request \in [Requesters -> Request]
    BY NoCursorIsCursor, NoRequestIsRequest DEF Init
<1>3. QED
    BY <1>1, <1>2, NumbersOfHours DEF Init, TypeOK

LEMMA ScanIsTyped ==
    ASSUME TypeOK, NEW r \in Requesters, NEW l, NEW q \in Request, Scan(r, l, q),
           l \in {"scan", "found", "nothing", "idle"}
    PROVE  TypeOK'
BY DEF TypeOK, Scan, fileVars, writerVars

LEMMA PeerAfterIsTyped ==
    ASSUME NEW q \in Request, NEW found
    PROVE  PeerAfter(q, found) \in Peer
<1>1. q.peer \in Peer /\ q.at \in Cursor
    BY DEF Request
<1>2. [currentCursor |-> q.at, consumeCursor |-> q.at, advanceCursor |-> NoCursor] \in Peer
    BY <1>1, NoCursorIsCursor DEF Peer
<1>3. [q.peer EXCEPT !.advanceCursor = q.at] \in Peer
    BY <1>1 DEF Peer
<1>4. QED
    BY <1>1, <1>2, <1>3 DEF PeerAfter

(* A writer that is in an add has its entry and its hour, and an old file where
   it needs one: what the cells it writes are made of.  Where a scan has found
   an entry, there is one. *)
AddIsTyped ==
    \A w \in Writers :
        /\ wpc[w] # "idle" => entry[w] \in Entries /\ hour[w] \in Hours
        /\ wpc[w] \in {"zero", "path"} => old[w] \in Hours

FoundIsRecord == \A r \in Requesters : rpc[r] = "found" => RecordIn(file, request[r].at)

TypeInv == TypeOK /\ AddIsTyped /\ FoundIsRecord

(* The files gl are the files fl with a cell appended to that of hour h. *)
AppendTo(fl, gl, h, cell) ==
    /\ Size(fl, h) \in Nat
    /\ Size(gl, h) = Size(fl, h) + 1
    /\ gl[h][Size(gl, h)] = cell
    /\ \A k \in 1..Size(fl, h) : gl[h][k] = fl[h][k]
    /\ \A g \in Hours \ {h} : gl[g] = fl[g]

LEMMA AppendGrows ==
    ASSUME NEW fl \in [Hours -> Seq(Cell)], NEW h \in Hours, NEW cell \in Cell,
           NEW gl, gl = [fl EXCEPT ![h] = Append(@, cell)]
    PROVE  /\ gl \in [Hours -> Seq(Cell)]
           /\ Grown(fl, gl)
           /\ AppendTo(fl, gl, h, cell)
<1>1. /\ gl[h] = Append(fl[h], cell)
      /\ \A g \in Hours \ {h} : gl[g] = fl[g]
    OBVIOUS
<1>2. \A g \in Hours : fl[g] \in Seq(Cell) /\ Len(fl[g]) \in Nat
    BY LenProperties
<1>3. /\ gl[h] \in Seq(Cell)
      /\ Len(gl[h]) = Len(fl[h]) + 1
      /\ \A k \in 1..Len(fl[h]) : gl[h][k] = fl[h][k]
      /\ gl[h][Len(fl[h]) + 1] = cell
    BY <1>1, <1>2, AppendProperties
<1>4. gl \in [Hours -> Seq(Cell)]
    BY <1>1, <1>3
<1>5. AppendTo(fl, gl, h, cell)
    BY <1>1, <1>2, <1>3 DEF AppendTo, Size
<1>6. ASSUME NEW g \in Hours
      PROVE  Len(fl[g]) <= Len(gl[g]) /\ \A k \in 1..Len(fl[g]) : gl[g][k] = fl[g][k]
    <2>1. CASE g = h
        BY <1>2, <1>3, <2>1
    <2>2. CASE g # h
        <3>1. gl[g] = fl[g]
            BY <1>1, <2>2
        <3>2. QED
            BY <1>2, <3>1
    <2>3. QED
        BY <2>1, <2>2
<1>7. QED
    BY <1>4, <1>5, <1>6 DEF Grown, Size

LEMMA FoundStays ==
    ASSUME TypeOK, file' \in [Hours -> Seq(Cell)], Grown(file, file'), UNCHANGED readerVars,
           FoundIsRecord
    PROVE  FoundIsRecord'
<1> SUFFICES ASSUME NEW r \in Requesters, rpc[r] = "found"
             PROVE  RecordIn(file', request[r].at)
    BY DEF FoundIsRecord, readerVars
<1>1. RecordIn(file, request[r].at) /\ request[r].at \in Positions
    BY FoundIsTyped DEF FoundIsRecord
<1>2. file \in [Hours -> Seq(Cell)]
    BY DEF TypeOK
<1>3. QED
    BY <1>1, <1>2, GrownKeeps

LEMMA WriteIsTyped ==
    ASSUME TypeOK, FoundIsRecord, NEW w \in Writers, NEW l, NEW h \in Hours, NEW cell \in Cell, NEW next,
           Write(w, l, h, cell, next),
           next \in {"text", "zero", "path", "write_lock"}
    PROVE  TypeOK' /\ FoundIsRecord'
<1>1. file \in [Hours -> Seq(Cell)] /\ file' = [file EXCEPT ![h] = Append(@, cell)]
    BY DEF TypeOK, Write
<1>2. file' \in [Hours -> Seq(Cell)] /\ Grown(file, file')
    BY <1>1, AppendGrows
<1>3. wpc' \in [Writers -> {"idle", "read_lock", "save_path", "length", "text",
                            "zero", "path", "write_lock"}]
    BY DEF TypeOK, Write
<1>4. TypeOK'
    BY <1>2, <1>3 DEF TypeOK, Write, readerVars
<1>5. FoundIsRecord'
    BY <1>2, FoundStays DEF Write
<1>6. QED
    BY <1>4, <1>5

LEMMA TypeOfAdd ==
    ASSUME TypeInv, NEW w \in Writers,
           \/ AddEntry(w) \/ ReadLock(w) \/ SaveFirstPath(w)
           \/ WriteLength(w) \/ WriteText(w) \/ WriteZero(w) \/ WritePath(w)
           \/ WriteLock(w) \/ AddThrows(w)
    PROVE  TypeInv'
<1> USE DEF TypeInv
<1>1. CASE AddEntry(w)
    <2>1. TypeOK'
        BY <1>1 DEF AddEntry, TypeOK, fileVars, readerVars
    <2>2. AddIsTyped'
        BY <1>1 DEF AddEntry, TypeOK, AddIsTyped
    <2>3. FoundIsRecord'
        BY <1>1 DEF AddEntry, FoundIsRecord, fileVars, readerVars
    <2>4. QED
        BY <2>1, <2>2, <2>3
<1>2. CASE ReadLock(w)
    <2>1. OldFile(lock, hour[w]) \in Hours \cup {NoHour}
        BY DEF TypeOK, OldFile
    <2>2. TypeOK'
        BY <1>2, <2>1 DEF ReadLock, TypeOK, fileVars, readerVars
    <2>3. AddIsTyped'
        BY <1>2 DEF ReadLock, TypeOK, AddIsTyped
    <2>4. FoundIsRecord'
        BY <1>2 DEF ReadLock, FoundIsRecord, fileVars, readerVars
    <2>5. QED
        BY <2>2, <2>3, <2>4
<1>3. CASE SaveFirstPath(w)
    <2>1. TypeOK'
        BY <1>3 DEF SaveFirstPath, TypeOK, AddIsTyped, readerVars
    <2>2. AddIsTyped'
        BY <1>3 DEF SaveFirstPath, TypeOK, AddIsTyped
    <2>3. FoundIsRecord'
        BY <1>3 DEF SaveFirstPath, FoundIsRecord, fileVars, readerVars
    <2>4. QED
        BY <2>1, <2>2, <2>3
<1>4. CASE WriteLength(w)
    <2>1. wpc[w] = "length" /\ hour[w] \in Hours /\ entry[w] \in Entries
        BY <1>4 DEF WriteLength, Write, AddIsTyped
    <2>2. <<"length", entry[w]>> \in Cell
        BY <2>1 DEF Cell
    <2>3. TypeOK' /\ FoundIsRecord'
        BY <1>4, <2>1, <2>2, WriteIsTyped DEF WriteLength
    <2>4. AddIsTyped'
        BY <1>4, <2>1 DEF WriteLength, Write, TypeOK, AddIsTyped
    <2>5. QED
        BY <2>3, <2>4
<1>5. CASE WriteText(w)
    <2>1. wpc[w] = "text" /\ hour[w] \in Hours /\ entry[w] \in Entries
        BY <1>5 DEF WriteText, Write, AddIsTyped
    <2>2. <<"text", entry[w]>> \in Cell
        BY <2>1 DEF Cell
    <2>3. TypeOK' /\ FoundIsRecord'
        BY <1>5, <2>1, <2>2, WriteIsTyped DEF WriteText
    <2>4. AddIsTyped'
        BY <1>5, <2>1 DEF WriteText, Write, TypeOK, AddIsTyped
    <2>5. QED
        BY <2>3, <2>4
<1>6. CASE WriteZero(w)
    <2>1. wpc[w] = "zero" /\ old[w] \in Hours
        BY <1>6 DEF WriteZero, Write, AddIsTyped
    <2>2. <<"zero", NoHour>> \in Cell
        BY DEF Cell
    <2>3. TypeOK' /\ FoundIsRecord'
        BY <1>6, <2>1, <2>2, WriteIsTyped DEF WriteZero
    <2>4. AddIsTyped'
        BY <1>6, <2>1 DEF WriteZero, Write, TypeOK, AddIsTyped
    <2>5. QED
        BY <2>3, <2>4
<1>7. CASE WritePath(w)
    <2>1. wpc[w] = "path" /\ old[w] \in Hours /\ hour[w] \in Hours
        BY <1>7 DEF WritePath, Write, AddIsTyped
    <2>2. <<"path", hour[w]>> \in Cell
        BY <2>1 DEF Cell
    <2>3. TypeOK' /\ FoundIsRecord'
        BY <1>7, <2>1, <2>2, WriteIsTyped DEF WritePath
    <2>4. AddIsTyped'
        BY <1>7, <2>1 DEF WritePath, Write, TypeOK, AddIsTyped
    <2>5. QED
        BY <2>3, <2>4
<1>8. CASE WriteLock(w)
    <2>1. wpc[w] = "write_lock" /\ hour[w] \in Hours /\ entry[w] \in Entries
        BY <1>8 DEF WriteLock, AddIsTyped
    <2>2. TypeOK'
        BY <1>8, <2>1 DEF WriteLock, EndAdd, TypeOK, readerVars
    <2>3. AddIsTyped'
        BY <1>8 DEF WriteLock, EndAdd, TypeOK, AddIsTyped
    <2>4. FoundIsRecord'
        BY <1>8 DEF WriteLock, FoundIsRecord, fileVars, readerVars
    <2>5. QED
        BY <2>2, <2>3, <2>4
<1>9. CASE AddThrows(w)
    <2>1. TypeOK'
        BY <1>9 DEF AddThrows, EndAdd, TypeOK, fileVars, readerVars
    <2>2. AddIsTyped'
        BY <1>9 DEF AddThrows, EndAdd, TypeOK, AddIsTyped
    <2>3. FoundIsRecord'
        BY <1>9 DEF AddThrows, FoundIsRecord, fileVars, readerVars
    <2>4. QED
        BY <2>1, <2>2, <2>3
<1>10. QED
    BY <1>1, <1>2, <1>3, <1>4, <1>5, <1>6, <1>7, <1>8, <1>9

LEMMA TypeOfRequest ==
    ASSUME TypeOK, FoundIsRecord, NEW r \in Requesters,
           \/ GetFirst(r) \/ GetByCursor(r) \/ GetNextAfterCursor(r)
           \/ GetNextForConsumer(r) \/ GetNextForConsumerAfterCursor(r)
           \/ FindEntry(r) \/ PassEntry(r) \/ FollowLink(r) \/ FindEof(r)
           \/ ScanThrows(r) \/ Respond(r)
           \/ ReadForMark(r) \/ WriteMark(r)
    PROVE  TypeOK'
<1>0. NoRequest \in Request
    BY NoRequestIsRequest
<1>r. \A c \in Records : c \in Cursor
    BY RecordsAreCursors
<1>1. CASE GetFirst(r)
    <2>1. [NoRequest EXCEPT !.option = "get_first"] \in Request
        BY <1>0 DEF Request, Option
    <2>2. QED
        BY <1>1, <2>1, FromFirstIsTyped, StartIsTyped DEF GetFirst
<1>2. CASE GetByCursor(r)
    <2>1. PICK c \in Records : Start(r, [NoRequest EXCEPT !.option = "get_by_cursor", !.at = c])
        BY <1>2 DEF GetByCursor
    <2>2. [NoRequest EXCEPT !.option = "get_by_cursor", !.at = c] \in Request
        BY <1>0, <1>r DEF Request, Option
    <2>3. QED
        BY <2>1, <2>2, StartIsTyped
<1>3. CASE GetNextAfterCursor(r)
    <2>1. PICK c \in Records : Start(r, [NoRequest EXCEPT !.option = "get_next_after_cursor",
                                                          !.at = c, !.skip_first_entry = TRUE])
        BY <1>3 DEF GetNextAfterCursor
    <2>2. [NoRequest EXCEPT !.option = "get_next_after_cursor", !.at = c,
                            !.skip_first_entry = TRUE] \in Request
        BY <1>0, <1>r DEF Request, Option
    <2>3. QED
        BY <2>1, <2>2, StartIsTyped
<1>4. CASE GetNextForConsumer(r)
    <2>1. PICK c \in Consumers :
              Start(r, FromConsumerCursors(peer[c],
                           [NoRequest EXCEPT !.option = "get_next_for_consumer",
                                             !.consumer = c, !.peer = peer[c]]))
        BY <1>4 DEF GetNextForConsumer
    <2>2. peer[c] \in Peer
        BY DEF TypeOK
    <2>3. [NoRequest EXCEPT !.option = "get_next_for_consumer",
                            !.consumer = c, !.peer = peer[c]] \in Request
        BY <1>0, <2>2 DEF Request, Option
    <2>4. QED
        BY <2>1, <2>2, <2>3, FromConsumerCursorsIsTyped, StartIsTyped
<1>5. CASE GetNextForConsumerAfterCursor(r)
    <2>1. PICK p \in Consumers, c \in Records :
              Start(r, [NoRequest EXCEPT
                     !.option = "get_next_for_consumer_after_cursor",
                     !.consumer = p, !.peer = peer[p],
                     !.at = c, !.skip_first_entry = TRUE])
        BY <1>5 DEF GetNextForConsumerAfterCursor
    <2>2. peer[p] \in Peer
        BY DEF TypeOK
    <2>3. [NoRequest EXCEPT
                     !.option = "get_next_for_consumer_after_cursor",
                     !.consumer = p, !.peer = peer[p],
                     !.at = c, !.skip_first_entry = TRUE] \in Request
        BY <1>0, <1>r, <2>2 DEF Request, Option
    <2>4. QED
        BY <2>1, <2>3, StartIsTyped
<1>6. CASE FindEntry(r) \/ FindEof(r)
    BY <1>6, FoundIsTyped, ScanIsTyped DEF FindEntry, FindEof
<1>7. CASE PassEntry(r)
    <2>1. NextOffset(request[r].at) \in Cursor /\ request[r] \in Request
        BY <1>7, FoundIsTyped DEF PassEntry
    <2>2. Passed(request[r]) \in Request
        BY <2>1 DEF Passed, Request
    <2>3. QED
        BY <1>7, <2>2, ScanIsTyped DEF PassEntry
<1>8. CASE FollowLink(r)
    <2>1. LinkAt(request[r].at) \in Cursor /\ request[r] \in Request
        BY <1>8, FoundIsTyped DEF FollowLink
    <2>2. [request[r] EXCEPT !.at = LinkAt(request[r].at), !.unterminated = FALSE] \in Request
        BY <2>1 DEF Request
    <2>3. QED
        BY <1>8, <2>2, ScanIsTyped DEF FollowLink
<1>9. CASE ScanThrows(r)
    BY <1>0, <1>9, ScanIsTyped DEF ScanThrows
<1>10. CASE Respond(r)
    <2> DEFINE q == request[r]
               found == rpc[r] = "found"
    <2>1. q \in Request /\ q.consumer \in Consumers /\ (found => EntryAt(q.at) \in Entries)
        BY FoundIsTyped, ReadersSee DEF FoundIsRecord
    <2>2. PeerAfter(q, found) \in Peer
        BY <2>1, PeerAfterIsTyped
    <2>3. peer' \in [Consumers -> Peer]
        BY <1>10, <2>1, <2>2 DEF Respond, TypeOK
    <2>4. delivered' \in [Consumers -> SUBSET Entries]
        BY <1>10, <2>1 DEF Respond, TypeOK
    <2>5. QED
        BY <1>0, <1>10, <2>3, <2>4 DEF Respond, TypeOK, fileVars, writerVars
<1>11. CASE ReadForMark(r)
    <2>1. PICK c \in Consumers :
              request' = [request EXCEPT ![r] =
                  [NoRequest EXCEPT !.option = "mark_entry_consumed",
                                    !.consumer = c, !.peer = peer[c]]]
        BY <1>11 DEF ReadForMark
    <2>2. peer[c] \in Peer
        BY DEF TypeOK
    <2>3. [NoRequest EXCEPT !.option = "mark_entry_consumed",
                            !.consumer = c, !.peer = peer[c]] \in Request
        BY <1>0, <2>2 DEF Request, Option
    <2>4. QED
        BY <1>11, <2>1, <2>3 DEF ReadForMark, TypeOK, fileVars, writerVars
<1>12. CASE WriteMark(r)
    <2> DEFINE q == request[r]
    <2>1. q \in Request /\ q.peer \in Peer /\ q.consumer \in Consumers
        BY FoundIsTyped
    <2>2. [q.peer EXCEPT !.consumeCursor = NoCursor] \in Peer
        BY <2>1, NoCursorIsCursor DEF Peer
    <2>3. QED
        BY <1>0, <1>12, <2>1, <2>2 DEF WriteMark, TypeOK, fileVars, writerVars
<1>13. QED
    BY <1>1, <1>2, <1>3, <1>4, <1>5, <1>6, <1>7, <1>8, <1>9, <1>10, <1>11, <1>12

LEMMA TypeStep == TypeInv /\ [Next]_vars => TypeInv'
<1> SUFFICES ASSUME TypeInv, [Next]_vars PROVE TypeInv'
    OBVIOUS
<1>1. CASE Tick
    BY <1>1 DEF Tick, TypeInv, TypeOK, Hours, AddIsTyped, FoundIsRecord, fileVars,
       writerVars, readerVars
<1>2. ASSUME NEW w \in Writers,
             \/ AddEntry(w) \/ ReadLock(w) \/ SaveFirstPath(w)
             \/ WriteLength(w) \/ WriteText(w) \/ WriteZero(w) \/ WritePath(w)
             \/ WriteLock(w) \/ AddThrows(w)
      PROVE  TypeInv'
    BY <1>2, TypeOfAdd
<1>3. ASSUME NEW r \in Requesters,
             \/ GetFirst(r) \/ GetByCursor(r) \/ GetNextAfterCursor(r)
             \/ GetNextForConsumer(r) \/ GetNextForConsumerAfterCursor(r)
             \/ FindEntry(r) \/ PassEntry(r) \/ FollowLink(r) \/ FindEof(r)
             \/ ScanThrows(r) \/ Respond(r)
             \/ ReadForMark(r) \/ WriteMark(r)
      PROVE  TypeInv'
    <2>1. TypeOK'
        BY <1>3, TypeOfRequest DEF TypeInv
    <2>2. file' = file /\ UNCHANGED writerVars
        BY <1>3 DEF GetFirst, GetByCursor, GetNextAfterCursor, GetNextForConsumer,
                    GetNextForConsumerAfterCursor, Start, FindEntry, PassEntry, FollowLink,
                    FindEof, ScanThrows, Scan, Respond, ReadForMark, WriteMark, fileVars
    <2>3. AddIsTyped'
        BY <2>2 DEF TypeInv, AddIsTyped, writerVars
    <2>4. FoundIsRecord'
        <3>1. SUFFICES ASSUME NEW s \in Requesters, rpc'[s] = "found"
                       PROVE  RecordIn(file, request'[s].at)
            BY <2>2 DEF FoundIsRecord
        <3>2. CASE s # r
            BY <1>3, <3>1, <3>2
               DEF GetFirst, GetByCursor, GetNextAfterCursor, GetNextForConsumer,
                    GetNextForConsumerAfterCursor, Start, FindEntry, PassEntry, FollowLink,
                    FindEof, ScanThrows, Scan, Respond, ReadForMark, WriteMark, TypeInv, TypeOK,
                    FoundIsRecord
        <3>3. CASE s = r
            <4>1. FindEntry(r)
                BY <1>3, <3>1, <3>3
                   DEF GetFirst, GetByCursor, GetNextAfterCursor, GetNextForConsumer,
                    GetNextForConsumerAfterCursor, Start, PassEntry, FollowLink,
                    FindEof, ScanThrows, Scan, Respond, ReadForMark, WriteMark, TypeInv, TypeOK
            <4>2. request'[r] = request[r] /\ IsRecord(request[r].at)
                BY <4>1 DEF FindEntry, Scan, TypeInv, TypeOK
            <4>3. QED
                BY <3>3, <4>2, ReadersSee
        <3>4. QED
            BY <3>2, <3>3
    <2>5. QED
        BY <2>1, <2>3, <2>4 DEF TypeInv
<1>4. CASE UNCHANGED vars
    BY <1>4 DEF vars, TypeInv, TypeOK, AddIsTyped, FoundIsRecord, fileVars, writerVars,
       readerVars
<1>5. QED
    BY <1>1, <1>2, <1>3, <1>4 DEF Next

LEMMA TypeInvariant == Spec => []TypeInv
<1>1. Init => TypeInv
    BY TypeInit DEF Init, TypeInv, AddIsTyped, FoundIsRecord
<1>2. QED
    BY <1>1, TypeStep, PTL DEF Spec

(* Every variable keeps its type, whatever writers and requesters overlap: what
   a reader takes for an entry is one, and what it takes for a link leads to
   the file of an hour. *)
THEOREM JournalTypes == Spec => []TypeOK
<1>1. TypeInv => TypeOK
    BY DEF TypeInv
<1>2. QED
    BY <1>1, TypeInvariant, PTL

-----------------------------------------------------------------------------
(* What an append to one file does to the shape of all of them. *)

(* Cell completes the record at c. *)
CompletesRecord(fl, gl, h, cell, c) ==
    /\ c.hour = h
    /\ c.offset + 1 = Size(fl, h)
    /\ fl[h][Size(fl, h)][1] = "length"
    /\ cell[1] = "text"
    /\ EntryIn(gl, c) = fl[h][Size(fl, h)][2]

(* The only record that may be new is the one that the append completes. *)
LEMMA AppendedRecord ==
    ASSUME NEW fl \in [Hours -> Seq(Cell)], NEW gl, NEW h \in Hours, NEW cell \in Cell,
           AppendTo(fl, gl, h, cell),
           NEW c \in Positions, RecordIn(gl, c), ~RecordIn(fl, c)
    PROVE  CompletesRecord(fl, gl, h, cell, c)
<1>1. /\ Size(fl, h) \in Nat /\ Size(gl, h) = Size(fl, h) + 1 /\ gl[h][Size(gl, h)] = cell
      /\ \A k \in 1..Size(fl, h) : gl[h][k] = fl[h][k]
      /\ \A g \in Hours \ {h} : gl[g] = fl[g]
    BY DEF AppendTo
<1>2. /\ c.hour \in Hours /\ c.offset \in Nat /\ c.offset + 2 <= Size(gl, c.hour)
      /\ gl[c.hour][c.offset + 1][1] = "length" /\ gl[c.hour][c.offset + 2][1] = "text"
      /\ gl[c.hour][c.offset + 1][2] = gl[c.hour][c.offset + 2][2]
    BY DEF RecordIn, PairIn, Size, Positions
<1>3. c.hour = h
    <2>1. SUFFICES ASSUME c.hour # h PROVE FALSE
        OBVIOUS
    <2>2. gl[c.hour] = fl[c.hour]
        BY <1>1, <1>2, <2>1
    <2>3. RecordIn(fl, c)
        BY <1>2, <2>2 DEF RecordIn, PairIn, Size
    <2>4. QED
        BY <2>3
<1>4. c.offset + 2 = Size(gl, h)
    <2>1. SUFFICES ASSUME c.offset + 2 <= Size(fl, h) PROVE FALSE
        BY <1>1, <1>2, <1>3
    <2>2. c.offset + 1 \in 1..Size(fl, h) /\ c.offset + 2 \in 1..Size(fl, h)
        BY <1>1, <1>2, <2>1
    <2>3. gl[h][c.offset + 1] = fl[h][c.offset + 1] /\ gl[h][c.offset + 2] = fl[h][c.offset + 2]
        BY <1>1, <2>2
    <2>4. RecordIn(fl, c)
        BY <1>2, <1>3, <2>1, <2>3 DEF RecordIn, PairIn, Size
    <2>5. QED
        BY <2>4
<1>5. c.offset + 1 = Size(fl, h) /\ c.offset + 1 \in 1..Size(fl, h)
    BY <1>1, <1>2, <1>4
<1>6. gl[h][c.offset + 1] = fl[h][Size(fl, h)] /\ gl[h][c.offset + 2] = cell
    BY <1>1, <1>4, <1>5
<1>7. QED
    BY <1>2, <1>3, <1>5, <1>6 DEF EntryIn, CompletesRecord

LinksAppended(fl, gl, h, cell) ==
    /\ \A g \in Hours \ {h} :
          (HasLink(gl, g) <=> HasLink(fl, g)) /\ Target(gl, g) = Target(fl, g)
    /\ HasLink(gl, h) <=> /\ 1 <= Size(fl, h) /\ fl[h][Size(fl, h)][1] = "zero"
                          /\ cell[1] = "path"
    /\ Target(gl, h) = cell[2]

(* Only a path after a zero makes a link. *)
LEMMA AppendedLink ==
    ASSUME NEW fl \in [Hours -> Seq(Cell)], NEW gl, NEW h \in Hours, NEW cell \in Cell,
           AppendTo(fl, gl, h, cell)
    PROVE  LinksAppended(fl, gl, h, cell)
<1>1. /\ Size(fl, h) \in Nat /\ Size(gl, h) = Size(fl, h) + 1 /\ gl[h][Size(gl, h)] = cell
      /\ \A k \in 1..Size(fl, h) : gl[h][k] = fl[h][k]
      /\ \A g \in Hours \ {h} : gl[g] = fl[g]
    BY DEF AppendTo
<1>2. ASSUME NEW g \in Hours \ {h}
      PROVE  (HasLink(gl, g) <=> HasLink(fl, g)) /\ Target(gl, g) = Target(fl, g)
    <2>1. gl[g] = fl[g]
        BY <1>1
    <2>2. QED
        BY <2>1 DEF HasLink, Target, Size
<1>3. Target(gl, h) = cell[2]
    BY <1>1 DEF Target
<1>4. Size(gl, h) - 1 = Size(fl, h) /\ (2 <= Size(gl, h) <=> 1 <= Size(fl, h))
    BY <1>1
<1>5. 1 <= Size(fl, h) => gl[h][Size(gl, h) - 1] = fl[h][Size(fl, h)]
    BY <1>1, <1>4
<1>6. HasLink(gl, h) <=> /\ 1 <= Size(fl, h) /\ fl[h][Size(fl, h)][1] = "zero"
                         /\ cell[1] = "path"
    BY <1>1, <1>4, <1>5 DEF HasLink
<1>7. QED
    BY <1>2, <1>3, <1>6 DEF LinksAppended

(* The journal has grown: what was valid is valid, and nothing has come in
   before it. *)
Extends(fl, first, gl, gfirst) ==
    /\ Grown(fl, gl)
    /\ \A c \in Positions : Valid(fl, first, c) => Valid(gl, gfirst, c)
    /\ \A c, d \in Positions :
          Valid(fl, first, c) /\ Valid(gl, gfirst, d) /\ Before(d, c) => Valid(fl, first, d)

(* The journal grows when no file that a link leads away from changes, and a
   file that joins the chain is of a later hour. *)
LEMMA GrowsAtEnd ==
    ASSUME NEW fl \in [Hours -> Seq(Cell)], NEW gl \in [Hours -> Seq(Cell)], Grown(fl, gl),
           NEW first, NEW gfirst, GoodFiles(fl, first),
           Chain(fl, first) \subseteq Chain(gl, gfirst),
           \A g \in Chain(gl, gfirst) : g \in Chain(fl, first) \/ \A h \in Chain(fl, first) : h < g,
           \A g \in Hours : HasLink(fl, g) => gl[g] = fl[g],
           \A g \in Hours : HasLink(gl, g) => HasLink(fl, g) \/ Size(fl, g) < Size(gl, g)
    PROVE  Extends(fl, first, gl, gfirst)
<1>1. \A g \in Hours : g \in Nat /\ Size(fl, g) \in Nat /\ Size(gl, g) \in Nat /\ Size(fl, g) <= Size(gl, g)
    BY NumbersOfHours, LenProperties DEF Size, Grown
<1>2. ASSUME NEW c \in Positions, Valid(fl, first, c) PROVE Valid(gl, gfirst, c)
    <2>1. /\ c.hour \in Hours /\ c.offset \in Nat /\ c.offset % 2 = 0
          /\ c.offset <= Size(fl, c.hour) /\ c.hour \in Chain(fl, first)
          /\ HasLink(fl, c.hour) => c.offset < Size(fl, c.hour)
        BY <1>2 DEF Valid, Aligned, Positions
    <2>2. c.offset <= Size(gl, c.hour)
        BY <1>1, <2>1
    <2>3. ASSUME HasLink(gl, c.hour) PROVE c.offset < Size(gl, c.hour)
        <3>1. CASE HasLink(fl, c.hour)
            BY <2>1, <3>1 DEF Size
        <3>2. CASE Size(fl, c.hour) < Size(gl, c.hour)
            BY <1>1, <2>1, <3>2
        <3>3. QED
            BY <2>1, <2>3, <3>1, <3>2
    <2>4. QED
        BY <2>1, <2>2, <2>3 DEF Valid, Aligned
<1>3. ASSUME NEW c \in Positions, NEW d \in Positions,
             Valid(fl, first, c), Valid(gl, gfirst, d), Before(d, c)
      PROVE  Valid(fl, first, d)
    <2>1. /\ c.hour \in Hours /\ c.offset \in Nat /\ c.hour \in Nat
          /\ c.offset <= Size(fl, c.hour) /\ c.hour \in Chain(fl, first)
          /\ HasLink(fl, c.hour) => c.offset < Size(fl, c.hour)
        BY <1>1, <1>3 DEF Valid, Aligned, Positions
    <2>2. /\ d.hour \in Hours /\ d.offset \in Nat /\ d.hour \in Nat /\ d.offset % 2 = 0
          /\ d.offset <= Size(gl, d.hour) /\ d.hour \in Chain(gl, gfirst)
          /\ HasLink(gl, d.hour) => d.offset < Size(gl, d.hour)
        BY <1>1, <1>3 DEF Valid, Aligned, Positions
    <2>3. d.hour <= c.hour
        BY <1>3, <2>1, <2>2 DEF Before
    <2>4. d.hour \in Chain(fl, first)
        BY <2>1, <2>2, <2>3
    <2>5. CASE d.hour < c.hour
        <3>1. HasLink(fl, d.hour)
            BY <2>1, <2>4, <2>5 DEF GoodFiles, Chained
        <3>2. gl[d.hour] = fl[d.hour]
            BY <2>2, <3>1
        <3>3. HasLink(gl, d.hour) /\ Size(gl, d.hour) = Size(fl, d.hour)
            BY <3>1, <3>2 DEF HasLink, Size
        <3>4. QED
            BY <2>2, <2>4, <3>3 DEF Valid, Aligned
    <2>6. CASE d.hour = c.hour /\ d.offset < c.offset
        <3>1. d.offset < Size(fl, d.hour)
            BY <1>1, <2>1, <2>2, <2>6
        <3>2. QED
            BY <1>1, <2>2, <2>4, <3>1 DEF Valid, Aligned
    <2>7. QED
        BY <1>3, <2>5, <2>6 DEF Before
<1>4. QED
    BY <1>2, <1>3 DEF Extends

(* What was half written in the file of hour h is complete. *)
Completed(fl, gl, h) ==
    \A c \in Positions :
        c.hour = h /\ c.offset + 1 = Size(fl, h) => RecordIn(gl, c) \/ LinkIn(gl, c)

(* A file stays a sequence of records, a link at most at its end, and at
   most the last pair half written. *)
LEMMA ShapedGrows ==
    ASSUME NEW fl \in [Hours -> Seq(Cell)], NEW gl \in [Hours -> Seq(Cell)], Grown(fl, gl),
           NEW h \in Hours, NEW cell \in Cell, AppendTo(fl, gl, h, cell),
           Shaped(fl), ~HasLink(fl, h),
           Size(fl, h) % 2 = 0 => cell[1] \in {"length", "zero"},
           Size(fl, h) % 2 = 1 => Completed(fl, gl, h)
    PROVE  Shaped(gl)
<1>0. /\ Size(fl, h) \in Nat /\ Size(gl, h) = Size(fl, h) + 1 /\ gl[h][Size(gl, h)] = cell
      /\ \A g \in Hours \ {h} : gl[g] = fl[g]
    BY DEF AppendTo
<1>1. SUFFICES ASSUME NEW c \in Positions, Aligned(gl, c), c.offset < Size(gl, c.hour)
               PROVE  \/ RecordIn(gl, c)
                      \/ LinkIn(gl, c) /\ c.offset + 2 = Size(gl, c.hour)
                      \/ HalfIn(gl, c)
    BY DEF Shaped
<1>2. c.hour \in Hours /\ c.offset \in Nat /\ c.offset % 2 = 0
    BY <1>1 DEF Aligned, Positions
<1>3. CASE c.hour # h
    <2>1. gl[c.hour] = fl[c.hour]
        BY <1>0, <1>2, <1>3
    <2>2. Aligned(fl, c) /\ c.offset < Size(fl, c.hour)
        BY <1>1, <2>1 DEF Aligned, Size
    <2>3. \/ RecordIn(fl, c)
          \/ LinkIn(fl, c) /\ c.offset + 2 = Size(fl, c.hour)
          \/ HalfIn(fl, c)
        BY <2>2 DEF Shaped
    <2>4. QED
        BY <2>1, <2>3 DEF RecordIn, LinkIn, PairIn, HalfIn, Size
<1>4. CASE c.hour = h /\ c.offset = Size(fl, h)
    <2>1. cell[1] \in {"length", "zero"}
        BY <1>2, <1>4
    <2>2. QED
        BY <1>0, <1>4, <2>1 DEF HalfIn
<1>5. CASE c.hour = h /\ c.offset < Size(fl, h)
    <2>1. Aligned(fl, c)
        BY <1>0, <1>1, <1>2, <1>5 DEF Aligned
    <2>2. CASE RecordIn(fl, c)
        BY <2>2, GrownKeeps
    <2>3. CASE LinkIn(fl, c)
        BY <1>5, <2>1, <2>3, LinkIsAtEnd
    <2>4. CASE HalfIn(fl, c)
        <3>1. c.offset + 1 = Size(fl, h)
            BY <1>5, <2>4 DEF HalfIn
        <3>2. Size(fl, h) % 2 = 1
            <4>1. (c.offset + 1) % 2 = 1
                BY <1>2, Parity
            <4>2. QED
                BY <3>1, <4>1
        <3>3. c.offset + 2 = Size(gl, h)
            BY <1>0, <1>2, <3>1
        <3>4. RecordIn(gl, c) \/ LinkIn(gl, c)
            BY <1>5, <3>1, <3>2 DEF Completed
        <3>5. QED
            BY <1>5, <3>3, <3>4
    <2>5. QED
        BY <1>5, <2>1, <2>2, <2>3, <2>4 DEF Shaped
<1>6. QED
    BY <1>0, <1>1, <1>2, <1>3, <1>4, <1>5

(* The place of a record is that of a pair before and after. *)
LEMMA AlignedStays ==
    ASSUME NEW fl \in [Hours -> Seq(Cell)], NEW gl \in [Hours -> Seq(Cell)], Grown(fl, gl),
           NEW c \in Positions, RecordIn(fl, c)
    PROVE  /\ Aligned(gl, c) => Aligned(fl, c)
           /\ Aligned(fl, c) => Aligned(gl, c)
<1>1. /\ c.hour \in Hours /\ c.offset \in Nat /\ c.offset + 2 <= Size(fl, c.hour)
    BY DEF RecordIn, PairIn, Positions, Size
<1>2. Size(fl, c.hour) \in Nat /\ Size(gl, c.hour) \in Nat /\ Size(fl, c.hour) <= Size(gl, c.hour)
    BY <1>1, LenProperties DEF Grown, Size
<1>3. QED
    BY <1>1, <1>2 DEF Aligned

(* An entry that was in no file is in one place when its record is complete. *)
LEMMA DistinctGrows ==
    ASSUME NEW fl \in [Hours -> Seq(Cell)], NEW gl \in [Hours -> Seq(Cell)], Grown(fl, gl),
           NEW h \in Hours, NEW cell \in Cell, AppendTo(fl, gl, h, cell),
           Distinct(fl),
           cell[1] = "text" /\ fl[h][Size(fl, h)][1] = "length"
              => \A g \in Hours : ~Recorded(fl, g, fl[h][Size(fl, h)][2])
    PROVE  Distinct(gl)
<1>1. SUFFICES ASSUME NEW c \in Positions, NEW d \in Positions,
                      Aligned(gl, c), Aligned(gl, d), RecordIn(gl, c), RecordIn(gl, d),
                      EntryIn(gl, c) = EntryIn(gl, d)
               PROVE  c = d
    BY DEF Distinct
<1>2. ASSUME NEW b \in Positions, Aligned(gl, b), RecordIn(fl, b)
      PROVE  /\ Aligned(fl, b) /\ EntryIn(gl, b) = EntryIn(fl, b)
             /\ Recorded(fl, b.hour, EntryIn(gl, b)) /\ b.hour \in Hours
    <2>1. Aligned(fl, b)
        BY ONLY <1>2, AlignedStays, Grown(fl, gl), fl \in [Hours -> Seq(Cell)],
                gl \in [Hours -> Seq(Cell)]
    <2>2. RecordIn(gl, b) /\ EntryIn(gl, b) = EntryIn(fl, b)
        BY <1>2, GrownKeeps
    <2>3. QED
        BY <1>2, <2>1, <2>2 DEF Recorded, Aligned
<1>3. ASSUME NEW b \in Positions, RecordIn(gl, b), ~RecordIn(fl, b)
      PROVE  /\ b.hour = h /\ b.offset + 1 = Size(fl, h) /\ b.offset \in Nat
             /\ \A g \in Hours : ~Recorded(fl, g, EntryIn(gl, b))
    <2>1. CompletesRecord(fl, gl, h, cell, b)
        BY <1>3, AppendedRecord
    <2>2. QED
        BY <2>1 DEF CompletesRecord, Positions
<1>4. CASE RecordIn(fl, c) /\ RecordIn(fl, d)
    BY <1>1, <1>2, <1>4 DEF Distinct
<1>5. CASE RecordIn(fl, c) /\ ~RecordIn(fl, d)
    BY <1>1, <1>2, <1>3, <1>5
<1>6. CASE ~RecordIn(fl, c) /\ RecordIn(fl, d)
    BY <1>1, <1>2, <1>3, <1>6
<1>7. CASE ~RecordIn(fl, c) /\ ~RecordIn(fl, d)
    <2>1. c.hour = d.hour /\ c.offset + 1 = d.offset + 1 /\ c.offset \in Nat /\ d.offset \in Nat
        BY <1>1, <1>3, <1>7
    <2>2. QED
        BY <2>1, CursorsAreEqual
<1>8. QED
    BY <1>4, <1>5, <1>6, <1>7

LEMMA TargetIsHour ==
    ASSUME NEW fl \in [Hours -> Seq(Cell)], NEW h \in Hours, HasLink(fl, h)
    PROVE  Target(fl, h) \in Hours
<1>1. fl[h] \in Seq(Cell) /\ Len(fl[h]) \in 1..Len(fl[h])
    BY LenProperties DEF HasLink, Size
<1>2. fl[h][Len(fl[h])] \in Cell
    BY <1>1, ElementOfSeq
<1>3. QED
    BY <1>2 DEF HasLink, Target, Size, Cell

(* An append that makes no link leaves the chain as it is. *)
LEMMA SameChain ==
    ASSUME NEW fl \in [Hours -> Seq(Cell)], NEW gl \in [Hours -> Seq(Cell)],
           NEW h \in Hours, NEW cell \in Cell, AppendTo(fl, gl, h, cell),
           NEW first, Chained(fl, first), ~HasLink(fl, h), ~HasLink(gl, h)
    PROVE  /\ \A g \in Hours : (HasLink(gl, g) <=> HasLink(fl, g))
           /\ Chain(gl, first) = Chain(fl, first)
           /\ Chained(gl, first)
<1>1. \A g \in Hours : (HasLink(gl, g) <=> HasLink(fl, g)) /\ (g # h => Target(gl, g) = Target(fl, g))
    <2>1. LinksAppended(fl, gl, h, cell)
        BY AppendedLink
    <2>2. QED
        BY <2>1 DEF LinksAppended
<1>2. \A g \in Hours : HasLink(fl, g) => Target(gl, g) = Target(fl, g)
    BY <1>1
<1>3. Chain(gl, first) = Chain(fl, first)
    BY <1>1, <1>2 DEF Chain
<1>4. Chain(fl, first) \subseteq Hours
    BY DEF Chain
<1>5. Chained(gl, first)
    BY <1>1, <1>2, <1>3, <1>4 DEF Chained
<1>6. QED
    BY <1>1, <1>3, <1>5

EndsWith(fl, first, h) == h \in Chain(fl, first) /\ \A g \in Chain(fl, first) : g <= h

GoesOn(fl, gl, first, h, t) ==
    /\ Chain(gl, first) = Chain(fl, first) \cup {t}
    /\ Chained(gl, first)

(* The chain goes on to the file of hour t. *)
LEMMA LongerChain ==
    ASSUME NEW fl \in [Hours -> Seq(Cell)], NEW gl \in [Hours -> Seq(Cell)],
           NEW h \in Hours, NEW t \in Hours, NEW cell \in Cell, cell[2] = t,
           AppendTo(fl, gl, h, cell),
           NEW first \in Hours, Chained(fl, first), ~HasLink(fl, h), HasLink(gl, h),
           EndsWith(fl, first, h), h < t
    PROVE  GoesOn(fl, gl, first, h, t)
<1> USE DEF EndsWith
<1>1. /\ \A g \in Hours \ {h} :
            (HasLink(gl, g) <=> HasLink(fl, g)) /\ Target(gl, g) = Target(fl, g)
      /\ Target(gl, h) = t
    <2>1. LinksAppended(fl, gl, h, cell)
        BY AppendedLink
    <2>2. QED
        BY <2>1 DEF LinksAppended
<1>2. Chain(gl, first) = Chain(fl, first) \cup {t}
    <2>1. Chain(gl, first) \subseteq Chain(fl, first) \cup {t}
        BY <1>1 DEF Chain
    <2>2. Chain(fl, first) \subseteq Chain(gl, first)
        BY <1>1 DEF Chain
    <2>3. t \in Chain(gl, first)
        BY <1>1 DEF Chain
    <2>4. QED
        BY <2>1, <2>2, <2>3
<1>3. Chain(fl, first) \subseteq Hours /\ Hours \subseteq Nat
    BY NumbersOfHours DEF Chain
<1>4. /\ \A g \in Hours :
            HasLink(fl, g) => first # NoHour /\ g \in Chain(fl, first) /\ g < Target(fl, g)
      /\ \A g, k \in Chain(fl, first) : g < k => HasLink(fl, g) /\ Target(fl, g) <= k
      /\ \A g \in Chain(fl, first) : first <= g
    BY DEF Chained
<1>5. ASSUME NEW g \in Hours, HasLink(gl, g)
      PROVE  first # NoHour /\ g \in Chain(gl, first) /\ g < Target(gl, g)
    <2>1. CASE g = h
        BY <1>1, <1>2, <2>1, NumbersOfHours
    <2>2. CASE g # h
        <3>1. g \in Hours \ {h}
            BY <2>2
        <3>2. HasLink(fl, g) /\ Target(gl, g) = Target(fl, g)
            BY <1>1, <1>5, <3>1
        <3>3. QED
            BY <1>2, <1>4, <3>2
    <2>3. QED
        BY <2>1, <2>2
<1>6. ASSUME NEW g \in Chain(gl, first), NEW k \in Chain(gl, first), g < k
      PROVE  HasLink(gl, g) /\ Target(gl, g) <= k
    <2>1. g \in Nat /\ k \in Nat /\ h \in Nat /\ t \in Nat
        BY <1>2, <1>3
    <2>2. g # t
        BY <1>2, <1>6, <2>1
    <2>3. g \in Chain(fl, first) /\ g <= h
        BY <1>2, <2>2
    <2>4. CASE g = h
        <3>1. k = t
            BY <1>2, <1>6, <2>1, <2>4
        <3>2. QED
            BY <1>1, <2>1, <2>4, <3>1
    <2>5. CASE g # h
        <3>1. HasLink(fl, g) /\ Target(fl, g) <= h
            BY <1>4, <2>1, <2>3, <2>5
        <3>2. HasLink(gl, g) /\ Target(gl, g) = Target(fl, g)
            BY <1>1, <1>3, <2>3, <2>5, <3>1
        <3>3. CASE k = t
            <4>1. Target(fl, g) \in Hours
                <5>1. g \in Hours
                    BY <1>3, <2>3
                <5>2. QED
                    BY <3>1, <5>1, TargetIsHour
            <4>2. Target(fl, g) \in Nat
                BY <1>3, <4>1
            <4>3. Target(fl, g) <= t
                BY <2>1, <3>1, <4>2
            <4>4. QED
                BY <3>2, <3>3, <4>3
        <3>4. CASE k # t
            BY <1>2, <1>4, <1>6, <2>3, <3>2, <3>4
        <3>5. QED
            BY <3>3, <3>4
    <2>6. QED
        BY <2>4, <2>5
<1>7. ASSUME NEW g \in Chain(gl, first) PROVE first <= g
    <2>1. first <= h /\ first \in Nat
        BY <1>3, <1>4
    <2>2. CASE g = t
        BY <1>3, <2>1, <2>2
    <2>3. CASE g # t
        BY <1>2, <1>4, <2>3
    <2>4. QED
        BY <2>2, <2>3
<1>8. Chained(gl, first)
    BY <1>5, <1>6, <1>7 DEF Chained
<1>9. QED
    BY <1>2, <1>8 DEF GoesOn

(* What is recorded stays recorded. *)
LEMMA RecordedStays ==
    ASSUME NEW fl \in [Hours -> Seq(Cell)], NEW gl \in [Hours -> Seq(Cell)], Grown(fl, gl),
           NEW h, NEW e, Recorded(fl, h, e)
    PROVE  Recorded(gl, h, e)
<1>1. PICK c \in Positions : Aligned(fl, c) /\ c.hour = h /\ RecordIn(fl, c) /\ EntryIn(fl, c) = e
    BY DEF Recorded
<1>2. Aligned(gl, c)
    BY <1>1, AlignedStays
<1>3. RecordIn(gl, c) /\ EntryIn(gl, c) = EntryIn(fl, c)
    BY <1>1, GrownKeeps
<1>4. QED
    BY <1>1, <1>2, <1>3 DEF Recorded

(* Only the text of an entry, behind its length, records it. *)
LEMMA NothingRecorded ==
    ASSUME NEW fl \in [Hours -> Seq(Cell)], NEW gl \in [Hours -> Seq(Cell)], Grown(fl, gl),
           NEW h \in Hours, NEW cell \in Cell, AppendTo(fl, gl, h, cell),
           NEW e, cell[1] # "text" \/ fl[h][Size(fl, h)][2] # e,
           NEW g, Recorded(gl, g, e)
    PROVE  Recorded(fl, g, e)
<1>1. PICK c \in Positions : Aligned(gl, c) /\ c.hour = g /\ RecordIn(gl, c) /\ EntryIn(gl, c) = e
    BY DEF Recorded
<1>2. RecordIn(fl, c)
    <2>1. SUFFICES ASSUME ~RecordIn(fl, c) PROVE FALSE
        OBVIOUS
    <2>2. CompletesRecord(fl, gl, h, cell, c)
        BY <1>1, <2>1, AppendedRecord
    <2>3. QED
        BY <1>1, <2>2 DEF CompletesRecord
<1>3. Aligned(fl, c)
    BY <1>1, <1>2, AlignedStays
<1>4. RecordIn(gl, c) /\ EntryIn(gl, c) = EntryIn(fl, c)
    BY <1>2, GrownKeeps
<1>5. QED
    BY <1>1, <1>2, <1>3, <1>4 DEF Recorded

(* After an append that ends in the middle of a record or of a link. *)
HalfAppended(fl, first, gl, h) ==
    /\ GoodFiles(gl, first)
    /\ Extends(fl, first, gl, first)
    /\ Chain(gl, first) = Chain(fl, first)
    /\ Size(gl, h) % 2 = 1

LEMMA SameChainExtends ==
    ASSUME NEW fl \in [Hours -> Seq(Cell)], NEW gl \in [Hours -> Seq(Cell)], Grown(fl, gl),
           NEW h \in Hours, NEW cell \in Cell, AppendTo(fl, gl, h, cell),
           NEW first, GoodFiles(fl, first), ~HasLink(fl, h), ~HasLink(gl, h)
    PROVE  Extends(fl, first, gl, first)
<1>1. /\ \A g \in Hours : (HasLink(gl, g) <=> HasLink(fl, g))
      /\ Chain(gl, first) = Chain(fl, first)
      /\ Chained(gl, first)
    BY SameChain DEF GoodFiles
<1>2. \A g \in Hours : HasLink(fl, g) => gl[g] = fl[g]
    BY DEF AppendTo
<1>3. QED
    BY <1>1, <1>2, GrowsAtEnd

(* The first half of a record or of a link changes nothing that can be read. *)
LEMMA HalfWritten ==
    ASSUME NEW fl \in [Hours -> Seq(Cell)], NEW gl \in [Hours -> Seq(Cell)], Grown(fl, gl),
           NEW h \in Hours, NEW cell \in Cell, AppendTo(fl, gl, h, cell),
           NEW first, GoodFiles(fl, first), ~HasLink(fl, h),
           Size(fl, h) % 2 = 0, cell[1] \in {"length", "zero"}
    PROVE  HalfAppended(fl, first, gl, h)
<1>1. Size(fl, h) \in Nat /\ Size(gl, h) = Size(fl, h) + 1
    BY DEF AppendTo
<1>2. ~HasLink(gl, h)
    <2>1. LinksAppended(fl, gl, h, cell)
        BY AppendedLink
    <2>2. QED
        BY <2>1 DEF LinksAppended
<1>3. Shaped(gl)
    <2>1. Shaped(fl) /\ ~(Size(fl, h) % 2 = 1)
        BY DEF GoodFiles
    <2>2. QED
        BY <2>1, ShapedGrows
<1>4. Distinct(gl)
    <2>1. Distinct(fl) /\ cell[1] # "text"
        BY DEF GoodFiles
    <2>2. QED
        BY <2>1, DistinctGrows
<1>5. /\ \A g \in Hours : (HasLink(gl, g) <=> HasLink(fl, g))
      /\ Chain(gl, first) = Chain(fl, first)
      /\ Chained(gl, first)
    BY <1>2, SameChain DEF GoodFiles
<1>6. Extends(fl, first, gl, first)
    BY ONLY <1>2, SameChainExtends, fl \in [Hours -> Seq(Cell)],
       gl \in [Hours -> Seq(Cell)],
            Grown(fl, gl), h \in Hours, cell \in Cell, AppendTo(fl, gl, h, cell),
            GoodFiles(fl, first), ~HasLink(fl, h)
<1>7. Size(gl, h) % 2 = 1
    <2>1. (Size(fl, h) + 1) % 2 = 1
        BY <1>1, Parity
    <2>2. QED
        BY <1>1, <2>1
<1>8. QED
    BY <1>3, <1>4, <1>5, <1>6, <1>7 DEF HalfAppended, GoodFiles

(* After an append that completes the record of entry e. *)
RecordAppended(fl, first, gl, h, e) ==
    /\ GoodFiles(gl, first)
    /\ Extends(fl, first, gl, first)
    /\ Chain(gl, first) = Chain(fl, first)
    /\ Size(gl, h) % 2 = 0
    /\ Recorded(gl, h, e)

(* The second half of a record makes it readable, at the end of its file. *)
LEMMA RecordWritten ==
    ASSUME NEW fl \in [Hours -> Seq(Cell)], NEW gl \in [Hours -> Seq(Cell)], Grown(fl, gl),
           NEW h \in Hours, NEW e \in Entries, AppendTo(fl, gl, h, <<"text", e>>),
           NEW first, GoodFiles(fl, first),
           Size(fl, h) % 2 = 1, fl[h][Size(fl, h)] = <<"length", e>>,
           \A g \in Hours : ~Recorded(fl, g, e)
    PROVE  RecordAppended(fl, first, gl, h, e)
<1> DEFINE cell == <<"text", e>>
           last == [hour |-> h, offset |-> Size(fl, h) - 1]
<1>0. cell \in Cell /\ cell[1] = "text" /\ cell[2] = e
    BY DEF Cell
<1>1. /\ Size(fl, h) \in Nat /\ Size(gl, h) = Size(fl, h) + 1 /\ gl[h][Size(gl, h)] = cell
      /\ \A k \in 1..Size(fl, h) : gl[h][k] = fl[h][k]
    BY DEF AppendTo
<1>2. Size(fl, h) - 1 \in Nat /\ (Size(fl, h) - 1) % 2 = 0 /\ Size(fl, h) \in 1..Size(fl, h)
      /\ Size(fl, h) >= 1
    BY <1>1, OddIsPositive
<1>3. last \in Positions /\ last.hour = h /\ last.offset = Size(fl, h) - 1
    BY <1>2, NumbersOfHours DEF Positions
<1>4. /\ fl[h][Size(fl, h)][1] = "length" /\ fl[h][Size(fl, h)][2] = e
      /\ gl[h][Size(fl, h)] = fl[h][Size(fl, h)]
    BY <1>1, <1>2
<1> HIDE DEF cell
<1>5. last.offset + 1 = Size(fl, h) /\ last.offset + 2 = Size(gl, h)
    <2>1. Size(fl, h) \in Nat /\ Size(gl, h) = Size(fl, h) + 1
        BY <1>1
    <2>2. last.offset = Size(fl, h) - 1
        BY <1>3
    <2>3. QED
        BY ONLY <2>1, <2>2
<1>6. RecordIn(gl, last) /\ EntryIn(gl, last) = e
    BY <1>0, <1>1, <1>3, <1>4, <1>5 DEF RecordIn, PairIn, EntryIn, Size
<1>7. Aligned(gl, last)
    BY <1>1, <1>2, <1>3 DEF Aligned
<1>8. Recorded(gl, h, e)
    BY <1>3, <1>6, <1>7 DEF Recorded
<1> HIDE DEF last
<1>9. ~HasLink(fl, h)
    BY <1>4 DEF HasLink
<1>10. AppendTo(fl, gl, h, cell)
    BY DEF cell
<1>11. ~HasLink(gl, h)
    BY <1>0, <1>1 DEF HasLink
<1>12. Shaped(gl)
    <2>1. Completed(fl, gl, h)
        <3>1. ASSUME NEW c \in Positions, c.hour = h, c.offset + 1 = Size(fl, h)
              PROVE  c = last
            <4>1. c.offset \in Nat
                BY DEF Positions
            <4>2. c.offset = Size(fl, h) - 1
                BY <1>1, <3>1, <4>1
            <4>3. QED
                BY <1>3, <3>1, <4>2, CursorsAreEqual
        <3>2. QED
            BY <1>6, <3>1 DEF Completed
    <2>2. Shaped(fl) /\ ~(Size(fl, h) % 2 = 0)
        BY DEF GoodFiles
    <2>3. QED
        BY <1>0, <1>9, <1>10, <2>1, <2>2, ShapedGrows
<1>13. Distinct(gl)
    <2>1. Distinct(fl) /\ \A g \in Hours : ~Recorded(fl, g, fl[h][Size(fl, h)][2])
        BY <1>4 DEF GoodFiles
    <2>2. QED
        BY <1>0, <1>10, <2>1, DistinctGrows
<1>14. /\ \A g \in Hours : (HasLink(gl, g) <=> HasLink(fl, g))
       /\ Chain(gl, first) = Chain(fl, first)
       /\ Chained(gl, first)
    BY <1>0, <1>9, <1>10, <1>11, SameChain DEF GoodFiles
<1>15. Extends(fl, first, gl, first)
    BY ONLY <1>0, <1>9, <1>10, <1>11, SameChainExtends, fl \in [Hours -> Seq(Cell)],
            gl \in [Hours -> Seq(Cell)], Grown(fl, gl), h \in Hours, GoodFiles(fl, first)
<1>16. Size(gl, h) % 2 = 0
    <2>1. (Size(fl, h) + 1) % 2 = 0
        BY <1>1, Parity
    <2>2. QED
        BY <1>1, <2>1
<1>17. QED
    BY <1>8, <1>12, <1>13, <1>14, <1>15, <1>16 DEF RecordAppended, GoodFiles

(* After an append that completes the link to the file of hour t. *)
LinkAppended(fl, first, gl, h, t) ==
    /\ GoodFiles(gl, first)
    /\ Extends(fl, first, gl, first)
    /\ Chain(gl, first) = Chain(fl, first) \cup {t}
    /\ Size(gl, h) % 2 = 0

(* The second half of a link adds a file to the chain, at its end. *)
LEMMA LinkWritten ==
    ASSUME NEW fl \in [Hours -> Seq(Cell)], NEW gl \in [Hours -> Seq(Cell)], Grown(fl, gl),
           NEW h \in Hours, NEW t \in Hours, AppendTo(fl, gl, h, <<"path", t>>),
           NEW first \in Hours, GoodFiles(fl, first),
           Size(fl, h) % 2 = 1, fl[h][Size(fl, h)] = <<"zero", NoHour>>,
           EndsWith(fl, first, h), h < t
    PROVE  LinkAppended(fl, first, gl, h, t)
<1> DEFINE cell == <<"path", t>>
           last == [hour |-> h, offset |-> Size(fl, h) - 1]
<1>0. cell \in Cell /\ cell[1] = "path" /\ cell[2] = t
    BY DEF Cell
<1>1. /\ Size(fl, h) \in Nat /\ Size(gl, h) = Size(fl, h) + 1 /\ gl[h][Size(gl, h)] = cell
      /\ \A k \in 1..Size(fl, h) : gl[h][k] = fl[h][k]
      /\ \A g \in Hours \ {h} : gl[g] = fl[g]
    BY DEF AppendTo
<1>2. Size(fl, h) - 1 \in Nat /\ (Size(fl, h) - 1) % 2 = 0 /\ Size(fl, h) \in 1..Size(fl, h)
      /\ Size(fl, h) >= 1
    BY <1>1, OddIsPositive
<1>3. last \in Positions /\ last.hour = h /\ last.offset = Size(fl, h) - 1
    BY <1>2, NumbersOfHours DEF Positions
<1>4. /\ fl[h][Size(fl, h)][1] = "zero"
      /\ gl[h][Size(fl, h)] = fl[h][Size(fl, h)]
    <2>1. fl[h][Size(fl, h)][1] = "zero"
        OBVIOUS
    <2>2. QED
        BY <1>1, <1>2, <2>1
<1> HIDE DEF cell
<1>5. last.offset + 1 = Size(fl, h) /\ last.offset + 2 = Size(gl, h)
    <2>1. Size(fl, h) \in Nat /\ Size(gl, h) = Size(fl, h) + 1
        BY <1>1
    <2>2. last.offset = Size(fl, h) - 1
        BY <1>3
    <2>3. QED
        BY ONLY <2>1, <2>2
<1>6. LinkIn(gl, last)
    BY <1>0, <1>1, <1>3, <1>4, <1>5 DEF LinkIn, PairIn, Size
<1> HIDE DEF last
<1>9. ~HasLink(fl, h)
    BY <1>4 DEF HasLink
<1>10. AppendTo(fl, gl, h, cell)
    BY DEF cell
<1>11. HasLink(gl, h)
    <2>1. LinksAppended(fl, gl, h, cell)
        BY <1>0, <1>10, AppendedLink
    <2>2. QED
        BY <1>0, <1>2, <1>4, <2>1 DEF LinksAppended
<1>12. Shaped(gl)
    <2>1. Completed(fl, gl, h)
        <3>1. ASSUME NEW c \in Positions, c.hour = h, c.offset + 1 = Size(fl, h)
              PROVE  c = last
            <4>1. c.offset \in Nat
                BY DEF Positions
            <4>2. c.offset = Size(fl, h) - 1
                BY <1>1, <3>1, <4>1
            <4>3. QED
                BY <1>3, <3>1, <4>2, CursorsAreEqual
        <3>2. QED
            BY <1>6, <3>1 DEF Completed
    <2>2. Shaped(fl) /\ ~(Size(fl, h) % 2 = 0)
        BY DEF GoodFiles
    <2>3. QED
        BY <1>0, <1>9, <1>10, <2>1, <2>2, ShapedGrows
<1>13. Distinct(gl)
    <2>1. Distinct(fl) /\ cell[1] # "text"
        BY <1>0 DEF GoodFiles
    <2>2. QED
        BY <1>0, <1>10, <2>1, DistinctGrows
<1>14. /\ Chain(gl, first) = Chain(fl, first) \cup {t}
       /\ Chained(gl, first)
    <2>1. Chained(fl, first)
        BY DEF GoodFiles
    <2>2. GoesOn(fl, gl, first, h, t)
        BY <1>0, <1>9, <1>10, <1>11, <2>1, LongerChain
    <2>3. QED
        BY <2>2 DEF GoesOn
<1>15. Extends(fl, first, gl, first)
    <2>1. /\ Chain(fl, first) \subseteq Chain(gl, first)
          /\ Chain(fl, first) \subseteq Nat /\ h \in Nat /\ t \in Nat
        BY <1>14, NumbersOfHours DEF Chain
    <2> USE DEF EndsWith
    <2>2. ASSUME NEW g \in Chain(gl, first)
          PROVE  g \in Chain(fl, first) \/ \A k \in Chain(fl, first) : k < g
        <3>1. CASE g = t
            BY <2>1, <3>1
        <3>2. QED
            BY <1>14, <3>1
    <2>3. \A g \in Hours : HasLink(fl, g) => gl[g] = fl[g]
        BY <1>1, <1>9
    <2>4. ASSUME NEW g \in Hours, HasLink(gl, g)
          PROVE  HasLink(fl, g) \/ Size(fl, g) < Size(gl, g)
        <3>1. CASE g = h
            BY <1>1, <3>1
        <3>2. CASE g # h
            BY <1>1, <2>4, <3>2 DEF HasLink, Size
        <3>3. QED
            BY <3>1, <3>2
    <2>5. QED
        BY <2>1, <2>2, <2>3, <2>4, GrowsAtEnd
<1>16. Size(gl, h) % 2 = 0
    <2>1. (Size(fl, h) + 1) % 2 = 0
        BY <1>1, Parity
    <2>2. QED
        BY <1>1, <2>1
<1>17. QED
    BY <1>12, <1>13, <1>14, <1>15, <1>16 DEF LinkAppended, GoodFiles

-----------------------------------------------------------------------------
(* One add at a time: the files are good, and the journal only grows. *)

LEMMA ExtendsItself ==
    ASSUME NEW fl \in [Hours -> Seq(Cell)], NEW first
    PROVE  Extends(fl, first, fl, first)
<1>1. Grown(fl, fl)
    BY LenProperties DEF Grown, Size
<1>2. QED
    BY <1>1 DEF Extends

(* The chain is not empty only when there is a first file. *)
LEMMA ChainBegins ==
    ASSUME NEW fl, NEW first, Chained(fl, first), NEW h \in Chain(fl, first)
    PROVE  first # NoHour /\ h \in Hours
<1>1. h \in Hours /\ (h = first \/ \E g \in Hours : HasLink(fl, g) /\ Target(fl, g) = h)
    BY DEF Chain
<1>2. QED
    BY <1>1, NumbersOfHours DEF Chained

LEMMA NoLinkAtEnd ==
    ASSUME NEW fl \in [Hours -> Seq(Cell)], NEW first, GoodFiles(fl, first),
           NEW h \in Hours, \A g \in Chain(fl, first) : g <= h
    PROVE  ~HasLink(fl, h)
<1>1. ASSUME HasLink(fl, h) PROVE FALSE
    <2>1. Target(fl, h) \in Hours
        BY <1>1, TargetIsHour
    <2>2. h < Target(fl, h)
        <3>1. Chained(fl, first)
            BY DEF GoodFiles
        <3>2. \A g \in Hours : HasLink(fl, g) => g < Target(fl, g)
            BY <3>1 DEF Chained
        <3>3. QED
            BY <1>1, <3>2
    <2>3. Target(fl, h) \in Chain(fl, first)
        BY <1>1, <2>1 DEF Chain
    <2>4. Target(fl, h) <= h
        BY <2>3
    <2>5. h \in Nat /\ Target(fl, h) \in Nat
        BY <2>1, NumbersOfHours
    <2>6. QED
        BY <2>2, <2>4, <2>5
<1>2. QED
    BY <1>1

(* Files that are empty make a good journal. *)
LEMMA EmptyFiles ==
    ASSUME NEW fl \in [Hours -> Seq(Cell)], \A h \in Hours : fl[h] = <<>>
    PROVE  /\ \A h \in Hours : Size(fl, h) = 0 /\ ~HasLink(fl, h)
           /\ GoodFiles(fl, NoHour)
           /\ Chain(fl, NoHour) = {}
           /\ \A first \in Hours : GoodFiles(fl, first) /\ Chain(fl, first) = {first}
<1>1. \A h \in Hours : Size(fl, h) = 0 /\ ~HasLink(fl, h)
    BY DEF Size, HasLink
<1>2. Shaped(fl)
    <2>1. SUFFICES ASSUME NEW c \in Positions, Aligned(fl, c), c.offset < Size(fl, c.hour)
                   PROVE  FALSE
        BY DEF Shaped
    <2>2. c.offset \in Nat /\ Size(fl, c.hour) = 0
        BY <1>1, <2>1 DEF Aligned, Positions
    <2>3. QED
        BY <2>1, <2>2
<1>3. Distinct(fl)
    <2>1. SUFFICES ASSUME NEW c \in Positions, Aligned(fl, c), RecordIn(fl, c)
                   PROVE  FALSE
        BY DEF Distinct
    <2>2. c.offset \in Nat /\ Size(fl, c.hour) = 0 /\ c.offset + 2 <= Size(fl, c.hour)
        BY <1>1, <2>1 DEF Aligned, Positions, RecordIn, PairIn, Size
    <2>3. QED
        BY <2>2
<1>4. Chain(fl, NoHour) = {} /\ Chained(fl, NoHour)
    BY <1>1, NumbersOfHours DEF Chain, Chained
<1>5. ASSUME NEW first \in Hours PROVE Chain(fl, first) = {first} /\ Chained(fl, first)
    <2>1. Chain(fl, first) = {first}
        BY <1>1 DEF Chain
    <2>2. QED
        BY <1>1, <2>1, NumbersOfHours DEF Chained
<1>6. QED
    BY <1>1, <1>2, <1>3, <1>4, <1>5 DEF GoodFiles

(* The length of an entry that is recorded is in a file. *)
LEMMA RecordIsWritten ==
    ASSUME file \in [Hours -> Seq(Cell)], NEW h \in Hours, NEW e, Recorded(file, h, e)
    PROVE  Written(e)
<1>1. PICK c \in Positions :
          Aligned(file, c) /\ c.hour = h /\ RecordIn(file, c) /\ EntryIn(file, c) = e
    BY DEF Recorded
<1>2. /\ c.offset \in Nat /\ c.offset + 2 <= Len(file[h]) /\ Len(file[h]) \in Nat
      /\ file[h][c.offset + 1][1] = "length" /\ file[h][c.offset + 1][2] = e
    BY <1>1, LenProperties DEF Positions, RecordIn, PairIn, EntryIn
<1>3. c.offset + 1 \in 1..Len(file[h]) /\ file[h] \in Seq(Cell)
    BY <1>2
<1>4. file[h][c.offset + 1] \in Cell
    BY <1>3, ElementOfSeq
<1>5. file[h][c.offset + 1] = <<"length", e>>
    BY <1>2, <1>4 DEF Cell
<1>6. file[h][c.offset + 1] \in ToSet(file[h])
    BY <1>3 DEF ToSet
<1>7. QED
    BY <1>5, <1>6 DEF Written

(* A step keeps the journal in order, and only lets it grow. *)
GoesWell == JournalInv' /\ Extends(file, first_path, file', first_path')

(* One that adds alone: what holds of it holds of every writer. *)
LEMMA OneWriter ==
    ASSUME OneAdd, NEW w \in Writers,
           GoodFiles(file', first_path'), HalfInv(w)', LockInv(w)', AddInv(w)', AddedInv',
           Extends(file, first_path, file', first_path')
    PROVE  GoesWell
<1>1. \A u \in Writers : u = w
    BY DEF OneAdd
<1>2. HalfInv(w)' /\ LockInv(w)' /\ AddInv(w)'
    OBVIOUS
<1>3. WriterInv(w)'
    BY <1>2 DEF WriterInv
<1>4. (\A u \in Writers : WriterInv(u))'
    BY <1>1, <1>3
<1>5. QED
    BY <1>4 DEF GoesWell, JournalInv

(* What was added stays recorded in the chain. *)
LEMMA AddedStays ==
    ASSUME TypeOK, file' \in [Hours -> Seq(Cell)], Grown(file, file'), AddedInv, added' = added,
           Chain(file, first_path) \subseteq Chain(file', first_path')
    PROVE  AddedInv'
<1>1. SUFFICES ASSUME NEW e \in added
               PROVE  \E h \in Chain(file', first_path') : Recorded(file', h, e)
    BY DEF AddedInv
<1>2. PICK h \in Chain(file, first_path) : Recorded(file, h, e)
    BY DEF AddedInv
<1>3. Recorded(file', h, e)
    BY <1>2, RecordedStays DEF TypeOK
<1>4. QED
    BY <1>2, <1>3

(* What holds where one adds. *)
Adding(w) ==
    /\ TypeInv
    /\ OneAdd
    /\ JournalInv
    /\ w \in Writers

(* What the invariant says to a step of the writer. *)
LEMMA AddingHas ==
    ASSUME NEW w, Adding(w)
    PROVE  /\ file \in [Hours -> Seq(Cell)]
           /\ w \in Writers
           /\ GoodFiles(file, first_path) /\ AddedInv
           /\ HalfInv(w) /\ LockInv(w) /\ AddInv(w)
           /\ lock \in Hours \cup {NoHour} /\ first_path \in Hours \cup {NoHour}
           /\ now \in Hours
           /\ wpc[w] # "idle" => hour[w] \in Hours /\ entry[w] \in Entries
           /\ wpc[w] \in {"zero", "path"} => old[w] \in Hours
           /\ wpc \in [Writers -> {"idle", "read_lock", "save_path", "length", "text",
                                   "zero", "path", "write_lock"}]
           /\ entry \in [Writers -> Entries \cup {NoEntry}]
           /\ hour \in [Writers -> Hours \cup {NoHour}]
           /\ old \in [Writers -> Hours \cup {NoHour}]
BY DEF Adding, TypeInv, TypeOK, AddIsTyped, JournalInv, WriterInv

(* The steps of an add, one lemma for each. *)
LEMMA AddEntryGoesWell ==
    ASSUME NEW w \in Writers, Adding(w), AddEntry(w)
    PROVE  GoesWell
<1>0. /\ file \in [Hours -> Seq(Cell)]
      /\ GoodFiles(file, first_path) /\ AddedInv
      /\ HalfInv(w) /\ LockInv(w) /\ AddInv(w)
      /\ lock \in Hours \cup {NoHour} /\ now \in Hours
      /\ wpc \in [Writers -> {"idle", "read_lock", "save_path", "length", "text",
                              "zero", "path", "write_lock"}]
      /\ entry \in [Writers -> Entries \cup {NoEntry}]
      /\ hour \in [Writers -> Hours \cup {NoHour}]
    BY AddingHas
<1>1. PICK e \in Entries : ~Written(e) /\ entry' = [entry EXCEPT ![w] = e]
    BY DEF AddEntry
<1>2. /\ wpc[w] = "idle" /\ wpc'[w] = "read_lock" /\ hour'[w] = now /\ entry'[w] = e
      /\ UNCHANGED <<now, lock, first_path, file, added>>
    BY <1>0, <1>1 DEF AddEntry, fileVars
<1>3. HalfInv(w)'
    BY <1>0, <1>2 DEF HalfInv
<1>4. LockInv(w)'
    BY <1>0, <1>2 DEF LockInv, Fresh
<1>5. \A h \in Chain(file, first_path) : h <= now
    <2>1. CASE lock = NoHour
        <3>1. first_path = NoHour
            BY <1>0, <1>2, <2>1 DEF LockInv, Fresh
        <3>2. QED
            BY <1>0, <3>1, ChainBegins DEF GoodFiles
    <2>2. CASE lock # NoHour
        BY <1>0, <1>2, <2>2, NumbersOfHours DEF LockInv, Chain
    <2>3. QED
        BY <2>1, <2>2
<1>6. lock <= now
    BY <1>0, NumbersOfHours DEF LockInv, NoHour, Hours
<1>7. (~Written(entry[w]))'
    BY <1>1, <1>2 DEF Written
<1>8. AddInv(w)'
    <2>1. lock <= now /\ now <= now
        BY <1>0, <1>6, NumbersOfHours
    <2>2. QED
        BY <1>2, <1>5, <1>7, <2>1 DEF AddInv, Fresh
<1>9. AddedInv'
    BY <1>0, <1>2 DEF AddedInv
<1>10. GoodFiles(file', first_path') /\ Extends(file, first_path, file', first_path')
    BY <1>0, <1>2, ExtendsItself
<1>11. QED
    BY <1>3, <1>4, <1>8, <1>9, <1>10, OneWriter DEF Adding

LEMMA ReadLockGoesWell ==
    ASSUME NEW w \in Writers, Adding(w), ReadLock(w)
    PROVE  GoesWell
<1>0. /\ file \in [Hours -> Seq(Cell)]
      /\ GoodFiles(file, first_path) /\ AddedInv
      /\ HalfInv(w) /\ LockInv(w) /\ AddInv(w)
      /\ wpc \in [Writers -> {"idle", "read_lock", "save_path", "length", "text",
                              "zero", "path", "write_lock"}]
      /\ old \in [Writers -> Hours \cup {NoHour}]
    BY AddingHas
<1>1. /\ wpc[w] = "read_lock" /\ old'[w] = OldFile(lock, hour[w])
      /\ wpc'[w] = (IF lock = NoHour THEN "save_path" ELSE "length")
      /\ UNCHANGED <<now, lock, first_path, file, added, entry, hour>>
    BY <1>0 DEF ReadLock, fileVars
<1>2. HalfInv(w)'
    BY <1>0, <1>1 DEF HalfInv
<1>3. LockInv(w)'
    BY <1>0, <1>1 DEF LockInv, Fresh
<1>4. AddInv(w)'
    BY <1>0, <1>1 DEF AddInv, Fresh, OldFile, Written
<1>5. AddedInv'
    BY <1>0, <1>1 DEF AddedInv
<1>6. GoodFiles(file', first_path') /\ Extends(file, first_path, file', first_path')
    BY <1>0, <1>1, ExtendsItself
<1>7. QED
    BY <1>2, <1>3, <1>4, <1>5, <1>6, OneWriter DEF Adding

LEMMA SaveFirstPathGoesWell ==
    ASSUME NEW w \in Writers, Adding(w), SaveFirstPath(w)
    PROVE  GoesWell
<1>0. /\ file \in [Hours -> Seq(Cell)]
      /\ GoodFiles(file, first_path) /\ AddedInv
      /\ HalfInv(w) /\ LockInv(w) /\ AddInv(w)
      /\ wpc \in [Writers -> {"idle", "read_lock", "save_path", "length", "text",
                              "zero", "path", "write_lock"}]
      /\ wpc[w] # "idle" => hour[w] \in Hours
    BY AddingHas
<1>1. /\ wpc[w] = "save_path" /\ wpc'[w] = "length" /\ first_path' = hour[w]
      /\ UNCHANGED <<now, lock, file, added, entry, hour, old>>
    BY <1>0 DEF SaveFirstPath
<1>2. lock = NoHour /\ first_path = NoHour /\ \A h \in Hours : file[h] = <<>>
    BY <1>0, <1>1 DEF AddInv, LockInv, Fresh
<1>3. hour[w] \in Hours
    BY <1>0, <1>1
<1>4. /\ Chain(file, first_path) = {}
      /\ GoodFiles(file', first_path') /\ Chain(file', first_path') = {hour[w]}
    BY <1>0, <1>1, <1>2, <1>3, EmptyFiles
<1>5. HalfInv(w)'
    BY <1>0, <1>1 DEF HalfInv
<1>6. LockInv(w)'
    BY <1>1, <1>2 DEF LockInv, Fresh
<1>7. AddInv(w)'
    BY <1>0, <1>1, <1>2, <1>3, <1>4, NumbersOfHours DEF AddInv, Fresh, Written
<1>8. AddedInv'
    BY <1>0, <1>1, <1>4 DEF AddedInv
<1>9. Extends(file, first_path, file', first_path')
    <2>1. Grown(file, file')
        BY <1>0, <1>1, ExtendsItself DEF Extends
    <2>2. QED
        BY <1>4, <2>1 DEF Extends, Valid
<1>10. QED
    BY <1>4, <1>5, <1>6, <1>7, <1>8, <1>9, OneWriter DEF Adding

(* What an append of the one that adds leaves alone. *)
WritesTo(w, h, cell, next) ==
    /\ file' \in [Hours -> Seq(Cell)]
    /\ Grown(file, file')
    /\ AppendTo(file, file', h, cell)
    /\ \A g \in Hours \ {h} : Size(file', g) = Size(file, g)
    /\ wpc'[w] = next
    /\ UNCHANGED <<now, lock, first_path, added, entry, hour, old>>

LEMMA WriteIs ==
    ASSUME NEW w \in Writers, Adding(w), NEW l, NEW h \in Hours, NEW cell \in Cell, NEW next,
           Write(w, l, h, cell, next)
    PROVE  wpc[w] = l /\ WritesTo(w, h, cell, next)
<1>1. /\ file \in [Hours -> Seq(Cell)]
      /\ file' = [file EXCEPT ![h] = Append(@, cell)]
      /\ wpc \in [Writers -> {"idle", "read_lock", "save_path", "length", "text",
                              "zero", "path", "write_lock"}]
    BY AddingHas DEF Write
<1>2. /\ file' \in [Hours -> Seq(Cell)]
      /\ Grown(file, file')
      /\ AppendTo(file, file', h, cell)
    BY <1>1, AppendGrows
<1>3. \A g \in Hours \ {h} : Size(file', g) = Size(file, g)
    BY <1>2 DEF AppendTo, Size
<1>4. QED
    BY <1>1, <1>2, <1>3 DEF Write, WritesTo

LEMMA WriteLengthGoesWell ==
    ASSUME NEW w \in Writers, Adding(w), WriteLength(w)
    PROVE  GoesWell
<1>0. /\ file \in [Hours -> Seq(Cell)]
      /\ GoodFiles(file, first_path) /\ AddedInv
      /\ HalfInv(w) /\ LockInv(w) /\ AddInv(w)
      /\ wpc[w] # "idle" => hour[w] \in Hours /\ entry[w] \in Entries
    BY AddingHas
<1> DEFINE h == hour[w]
           cell == <<"length", entry[w]>>
<1>1. wpc[w] = "length"
    BY DEF WriteLength, Write
<1>2. h \in Hours /\ entry[w] \in Entries /\ cell \in Cell
    BY <1>0, <1>1 DEF Cell
<1>3. WritesTo(w, h, cell, "text")
    BY <1>2, WriteIs DEF WriteLength
<1>4. /\ file' \in [Hours -> Seq(Cell)] /\ Grown(file, file') /\ AppendTo(file, file', h, cell)
      /\ \A g \in Hours \ {h} : Size(file', g) = Size(file, g)
      /\ wpc'[w] = "text"
      /\ UNCHANGED <<now, lock, first_path, added, entry, hour, old>>
    BY <1>3 DEF WritesTo
<1>5. \A g \in Chain(file, first_path) : g <= h
    BY <1>0, <1>1 DEF AddInv
<1>6. ~HasLink(file, h)
    BY <1>0, <1>2, <1>5, NoLinkAtEnd
<1>7. Size(file, h) % 2 = 0
    <2>1. ~(Size(file, h) % 2 = 1)
        BY <1>0, <1>1, <1>2 DEF HalfInv
    <2>2. Size(file, h) \in Nat
        BY <1>4 DEF AppendTo
    <2>3. QED
        BY <2>1, <2>2, Parity
<1>8. HalfAppended(file, first_path, file', h)
    <2>1. cell[1] \in {"length", "zero"}
        OBVIOUS
    <2> HIDE DEF cell, h
    <2>2. QED
        BY <1>0, <1>2, <1>4, <1>6, <1>7, <2>1, HalfWritten
<1>9. /\ GoodFiles(file', first_path) /\ Extends(file, first_path, file', first_path)
      /\ Chain(file', first_path) = Chain(file, first_path)
      /\ Size(file', h) % 2 = 1
    BY <1>8 DEF HalfAppended
<1>10. HalfInv(w)'
    BY <1>0, <1>1, <1>4 DEF HalfInv
<1>11. LockInv(w)'
    BY <1>0, <1>1, <1>4, <1>9 DEF LockInv, Fresh
<1>12. file'[h][Size(file', h)] = <<"length", entry[w]>>
    BY <1>4 DEF AppendTo
<1>13. ASSUME NEW g \in Hours, Recorded(file', g, entry[w]) PROVE FALSE
    <2>1. ~Written(entry[w])
        BY <1>0, <1>1 DEF AddInv
    <2>2. cell[1] # "text"
        OBVIOUS
    <2> HIDE DEF cell, h
    <2>3. Recorded(file, g, entry[w])
        BY <1>0, <1>2, <1>4, <1>13, <2>2, NothingRecorded
    <2>4. QED
        BY <1>0, <2>1, <2>3, RecordIsWritten
<1>14. AddInv(w)'
    BY <1>0, <1>1, <1>4, <1>9, <1>12, <1>13 DEF AddInv, Fresh
<1>15. AddedInv'
    BY <1>0, <1>4, <1>9, AddedStays DEF Adding, TypeInv
<1>16. QED
    BY <1>4, <1>9, <1>10, <1>11, <1>14, <1>15, OneWriter DEF Adding

LEMMA WriteTextGoesWell ==
    ASSUME NEW w \in Writers, Adding(w), WriteText(w)
    PROVE  GoesWell
<1>0. /\ file \in [Hours -> Seq(Cell)]
      /\ GoodFiles(file, first_path) /\ AddedInv
      /\ HalfInv(w) /\ LockInv(w) /\ AddInv(w)
      /\ lock \in Hours \cup {NoHour} /\ first_path \in Hours \cup {NoHour}
      /\ wpc[w] # "idle" => hour[w] \in Hours /\ entry[w] \in Entries
    BY AddingHas
<1> DEFINE h == hour[w]
           e == entry[w]
           cell == <<"text", e>>
           next == IF old[w] = NoHour THEN "write_lock" ELSE "zero"
<1>1. wpc[w] = "text"
    BY DEF WriteText, Write
<1>2. h \in Hours /\ e \in Entries /\ cell \in Cell
    BY <1>0, <1>1 DEF Cell
<1>3. WritesTo(w, h, cell, next)
    BY <1>2, WriteIs DEF WriteText
<1>4. /\ file' \in [Hours -> Seq(Cell)] /\ Grown(file, file') /\ AppendTo(file, file', h, <<"text", e>>)
      /\ \A g \in Hours \ {h} : Size(file', g) = Size(file, g)
      /\ wpc'[w] = next
      /\ UNCHANGED <<now, lock, first_path, added, entry, hour, old>>
    BY <1>3 DEF WritesTo
<1>5. /\ Size(file, h) % 2 = 1
      /\ file[h][Size(file, h)] = <<"length", e>>
      /\ \A g \in Hours : ~Recorded(file, g, e)
    BY <1>0, <1>1 DEF AddInv
<1>6. RecordAppended(file, first_path, file', h, e)
    <2> HIDE DEF h, e
    <2>1. QED
        BY <1>0, <1>2, <1>4, <1>5, RecordWritten
<1>7. /\ GoodFiles(file', first_path) /\ Extends(file, first_path, file', first_path)
      /\ Chain(file', first_path) = Chain(file, first_path)
      /\ Size(file', h) % 2 = 0
      /\ Recorded(file', h, e)
    BY <1>6 DEF RecordAppended
<1>8. HalfInv(w)'
    <2>1. ASSUME NEW g \in Hours PROVE Size(file', g) % 2 # 1
        <3>1. CASE g = h
            BY <1>7, <3>1
        <3>2. CASE g # h
            <4>1. Size(file', g) = Size(file, g)
                BY <1>4, <3>2
            <4>2. Size(file, g) % 2 # 1
                BY <1>0, <1>1, <3>2 DEF HalfInv
            <4>3. QED
                BY <4>1, <4>2
        <3>3. QED
            BY <3>1, <3>2
    <2>2. QED
        BY <2>1 DEF HalfInv
<1>9. LockInv(w)'
    BY <1>0, <1>1, <1>4, <1>7 DEF LockInv, Fresh
<1>10. old[w] = NoHour => hour[w] \in Chain(file, first_path)
    <2>1. old[w] = OldFile(lock, hour[w]) /\ (lock = NoHour => first_path = hour[w])
        BY <1>0, <1>1 DEF AddInv, Fresh
    <2>2. CASE lock = NoHour
        BY <1>2, <2>1, <2>2 DEF Chain
    <2>3. CASE lock # NoHour
        BY <1>0, <2>1, <2>3 DEF OldFile, LockInv
    <2>4. QED
        BY <2>2, <2>3
<1>11. AddInv(w)'
    BY <1>0, <1>1, <1>4, <1>7, <1>10 DEF AddInv, Fresh
<1>12. AddedInv'
    BY <1>0, <1>4, <1>7, AddedStays DEF Adding, TypeInv
<1>13. QED
    BY <1>4, <1>7, <1>8, <1>9, <1>11, <1>12, OneWriter DEF Adding

LEMMA WriteZeroGoesWell ==
    ASSUME NEW w \in Writers, Adding(w), WriteZero(w)
    PROVE  GoesWell
<1>0. /\ file \in [Hours -> Seq(Cell)]
      /\ GoodFiles(file, first_path) /\ AddedInv
      /\ HalfInv(w) /\ LockInv(w) /\ AddInv(w)
      /\ wpc[w] \in {"zero", "path"} => old[w] \in Hours
    BY AddingHas
<1> DEFINE h == old[w]
           cell == <<"zero", NoHour>>
<1>1. wpc[w] = "zero"
    BY DEF WriteZero, Write
<1>2. h \in Hours /\ cell \in Cell
    BY <1>0, <1>1 DEF Cell
<1>3. WritesTo(w, h, cell, "path")
    BY <1>2, WriteIs DEF WriteZero
<1>4. /\ file' \in [Hours -> Seq(Cell)] /\ Grown(file, file') /\ AppendTo(file, file', h, cell)
      /\ \A g \in Hours \ {h} : Size(file', g) = Size(file, g)
      /\ wpc'[w] = "path"
      /\ UNCHANGED <<now, lock, first_path, added, entry, hour, old>>
    BY <1>3 DEF WritesTo
<1>5. h = lock /\ lock # NoHour
    BY <1>0, <1>1, <1>2, NumbersOfHours DEF AddInv, OldFile
<1>6. ~HasLink(file, h)
    <2>1. \A g \in Chain(file, first_path) : g <= h
        BY <1>0, <1>1, <1>5 DEF LockInv
    <2>2. QED
        BY <1>0, <1>2, <2>1, NoLinkAtEnd
<1>7. Size(file, h) % 2 = 0
    <2>1. ~(Size(file, h) % 2 = 1)
        BY <1>0, <1>1, <1>2 DEF HalfInv
    <2>2. Size(file, h) \in Nat
        BY <1>4 DEF AppendTo
    <2>3. QED
        BY <2>1, <2>2, Parity
<1>8. HalfAppended(file, first_path, file', h)
    <2>1. cell[1] \in {"length", "zero"}
        OBVIOUS
    <2> HIDE DEF cell, h
    <2>2. QED
        BY <1>0, <1>2, <1>4, <1>6, <1>7, <2>1, HalfWritten
<1>9. /\ GoodFiles(file', first_path) /\ Extends(file, first_path, file', first_path)
      /\ Chain(file', first_path) = Chain(file, first_path)
      /\ Size(file', h) % 2 = 1
    BY <1>8 DEF HalfAppended
<1>10. HalfInv(w)'
    BY <1>0, <1>1, <1>4 DEF HalfInv
<1>11. LockInv(w)'
    BY <1>0, <1>1, <1>4, <1>9 DEF LockInv, Fresh
<1>12. file'[h][Size(file', h)] = <<"zero", NoHour>>
    BY <1>4 DEF AppendTo
<1>13. Recorded(file', hour[w], entry[w])
    <2>1. Recorded(file, hour[w], entry[w])
        BY <1>0, <1>1 DEF AddInv
    <2>2. QED
        BY <1>0, <1>4, <2>1, RecordedStays
<1>14. AddInv(w)'
    BY <1>0, <1>1, <1>4, <1>9, <1>12, <1>13 DEF AddInv, Fresh
<1>15. AddedInv'
    BY <1>0, <1>4, <1>9, AddedStays DEF Adding, TypeInv
<1>16. QED
    BY <1>4, <1>9, <1>10, <1>11, <1>14, <1>15, OneWriter DEF Adding

LEMMA WritePathGoesWell ==
    ASSUME NEW w \in Writers, Adding(w), WritePath(w)
    PROVE  GoesWell
<1>0. /\ file \in [Hours -> Seq(Cell)]
      /\ GoodFiles(file, first_path) /\ AddedInv
      /\ HalfInv(w) /\ LockInv(w) /\ AddInv(w)
      /\ lock \in Hours \cup {NoHour} /\ first_path \in Hours \cup {NoHour}
      /\ wpc[w] # "idle" => hour[w] \in Hours /\ entry[w] \in Entries
      /\ wpc[w] \in {"zero", "path"} => old[w] \in Hours
    BY AddingHas
<1> DEFINE h == old[w]
           t == hour[w]
           cell == <<"path", t>>
<1>1. wpc[w] = "path"
    BY DEF WritePath, Write
<1>2. h \in Hours /\ t \in Hours /\ cell \in Cell
    BY <1>0, <1>1 DEF Cell
<1>3. WritesTo(w, h, cell, "write_lock")
    BY <1>2, WriteIs DEF WritePath
<1>4. /\ file' \in [Hours -> Seq(Cell)] /\ Grown(file, file')
      /\ AppendTo(file, file', h, <<"path", t>>)
      /\ \A g \in Hours \ {h} : Size(file', g) = Size(file, g)
      /\ wpc'[w] = "write_lock"
      /\ UNCHANGED <<now, lock, first_path, added, entry, hour, old>>
    BY <1>3 DEF WritesTo
<1>5. h = lock /\ lock # NoHour /\ lock # t /\ lock <= t
    <2>1. h = OldFile(lock, t) /\ lock <= t
        BY <1>0, <1>1 DEF AddInv
    <2>2. QED
        BY <1>2, <2>1, NumbersOfHours DEF OldFile
<1>6. h < t
    <2>1. h \in Nat /\ t \in Nat
        BY <1>2, NumbersOfHours
    <2>2. QED
        BY <1>5, <2>1
<1>7. EndsWith(file, first_path, h)
    BY <1>0, <1>1, <1>5 DEF LockInv, EndsWith
<1>8. first_path \in Hours
    <2>1. first_path # NoHour
        BY <1>0, <1>7, ChainBegins DEF EndsWith, GoodFiles
    <2>2. QED
        BY <1>0, <2>1
<1>9. Size(file, h) % 2 = 1 /\ file[h][Size(file, h)] = <<"zero", NoHour>>
    BY <1>0, <1>1 DEF AddInv
<1>10. LinkAppended(file, first_path, file', h, t)
    <2> HIDE DEF h, t
    <2>1. QED
        BY <1>0, <1>2, <1>4, <1>6, <1>7, <1>8, <1>9, LinkWritten
<1>11. /\ GoodFiles(file', first_path) /\ Extends(file, first_path, file', first_path)
       /\ Chain(file', first_path) = Chain(file, first_path) \cup {t}
       /\ Size(file', h) % 2 = 0
    BY <1>10 DEF LinkAppended
<1>12. HalfInv(w)'
    <2>1. ASSUME NEW g \in Hours PROVE Size(file', g) % 2 # 1
        <3>1. CASE g = h
            BY <1>11, <3>1
        <3>2. CASE g # h
            <4>1. Size(file', g) = Size(file, g)
                BY <1>4, <3>2
            <4>2. Size(file, g) % 2 # 1
                BY <1>0, <1>1, <3>2 DEF HalfInv
            <4>3. QED
                BY <4>1, <4>2
        <3>3. QED
            BY <3>1, <3>2
    <2>2. QED
        BY <2>1 DEF HalfInv
<1>13. LockInv(w)'
    BY <1>0, <1>1, <1>4, <1>11 DEF LockInv, Fresh
<1>14. Recorded(file', hour[w], entry[w])
    <2>1. Recorded(file, hour[w], entry[w])
        BY <1>0, <1>1 DEF AddInv
    <2>2. QED
        BY <1>0, <1>4, <2>1, RecordedStays
<1>15. \A g \in Chain(file', first_path) : g <= t
    <2>1. \A g \in Chain(file, first_path) : g <= t
        BY <1>0, <1>1 DEF AddInv
    <2>2. t \in Nat
        BY <1>2, NumbersOfHours
    <2>3. QED
        BY <1>11, <2>1, <2>2
<1>16. AddInv(w)'
    BY <1>0, <1>1, <1>4, <1>11, <1>14, <1>15 DEF AddInv, Fresh
<1>17. AddedInv'
    BY <1>0, <1>4, <1>11, AddedStays DEF Adding, TypeInv
<1>18. QED
    BY <1>4, <1>11, <1>12, <1>13, <1>16, <1>17, OneWriter DEF Adding

LEMMA WriteLockGoesWell ==
    ASSUME NEW w \in Writers, Adding(w), WriteLock(w)
    PROVE  GoesWell
<1>0. /\ file \in [Hours -> Seq(Cell)]
      /\ GoodFiles(file, first_path) /\ AddedInv
      /\ HalfInv(w) /\ LockInv(w) /\ AddInv(w)
      /\ wpc[w] # "idle" => hour[w] \in Hours /\ entry[w] \in Entries
      /\ wpc \in [Writers -> {"idle", "read_lock", "save_path", "length", "text",
                              "zero", "path", "write_lock"}]
    BY AddingHas
<1>1. /\ wpc[w] = "write_lock" /\ wpc'[w] = "idle" /\ lock' = hour[w]
      /\ added' = added \cup {entry[w]}
      /\ UNCHANGED <<now, first_path, file>>
    BY <1>0 DEF WriteLock, EndAdd
<1>2. hour[w] \in Hours
    BY <1>0, <1>1
<1>3. /\ hour[w] \in Chain(file, first_path) /\ hour[w] <= now
      /\ \A g \in Chain(file, first_path) : g <= hour[w]
      /\ Recorded(file, hour[w], entry[w])
    BY <1>0, <1>1 DEF AddInv
<1>4. HalfInv(w)'
    BY <1>0, <1>1 DEF HalfInv
<1>5. LockInv(w)'
    BY <1>1, <1>2, <1>3, NumbersOfHours DEF LockInv
<1>6. AddInv(w)'
    BY <1>1 DEF AddInv, Fresh
<1>7. AddedInv'
    BY <1>0, <1>1, <1>3 DEF AddedInv
<1>8. GoodFiles(file', first_path') /\ Extends(file, first_path, file', first_path')
    BY <1>0, <1>1, ExtendsItself
<1>9. QED
    BY <1>4, <1>5, <1>6, <1>7, <1>8, OneWriter DEF Adding

LEMMA AddThrowsGoesWell ==
    ASSUME NEW w \in Writers, Adding(w), AddThrows(w)
    PROVE  GoesWell
<1>0. /\ file \in [Hours -> Seq(Cell)]
      /\ GoodFiles(file, first_path) /\ AddedInv
      /\ HalfInv(w) /\ LockInv(w) /\ AddInv(w)
      /\ wpc \in [Writers -> {"idle", "read_lock", "save_path", "length", "text",
                              "zero", "path", "write_lock"}]
    BY AddingHas
<1>1. PlaceOf(w) \in Survivable
    BY DEF AddThrows, Adding, OneAdd
<1>2. /\ wpc[w] \in {"read_lock", "save_path", "length", "zero"}
      /\ lock = NoHour => wpc[w] \in {"read_lock", "save_path"}
    BY <1>1 DEF PlaceOf, Survivable
<1>3. /\ wpc'[w] = "idle"
      /\ UNCHANGED <<now, lock, first_path, file, added>>
    BY <1>0 DEF AddThrows, EndAdd, fileVars
<1>4. HalfInv(w)'
    BY <1>0, <1>2, <1>3 DEF HalfInv
<1>5. LockInv(w)'
    BY <1>0, <1>2, <1>3 DEF LockInv, Fresh
<1>6. AddInv(w)'
    BY <1>3 DEF AddInv, Fresh
<1>7. AddedInv'
    BY <1>0, <1>3 DEF AddedInv
<1>8. GoodFiles(file', first_path') /\ Extends(file, first_path, file', first_path')
    BY <1>0, <1>3, ExtendsItself
<1>9. QED
    BY <1>4, <1>5, <1>6, <1>7, <1>8, OneWriter DEF Adding

LEMMA AddGoesWell ==
    ASSUME OneAdd, TypeInv, JournalInv, NEW w \in Writers,
           \/ AddEntry(w) \/ ReadLock(w) \/ SaveFirstPath(w)
           \/ WriteLength(w) \/ WriteText(w) \/ WriteZero(w) \/ WritePath(w)
           \/ WriteLock(w) \/ AddThrows(w)
    PROVE  GoesWell
<1>1. Adding(w)
    BY DEF Adding
<1>2. QED
    BY <1>1, AddEntryGoesWell, ReadLockGoesWell, SaveFirstPathGoesWell, WriteLengthGoesWell,
       WriteTextGoesWell, WriteZeroGoesWell, WritePathGoesWell, WriteLockGoesWell,
       AddThrowsGoesWell

(* What a step of a reader, or none, leaves alone. *)
JournalUnchanged == UNCHANGED <<lock, first_path, file, added, writerVars>>

(* A step that changes nothing of the journal. *)
LEMMA RestGoesWell ==
    ASSUME TypeOK, JournalInv, JournalUnchanged, now' \in Hours, now <= now'
    PROVE  GoesWell
<1>1. Extends(file, first_path, file', first_path')
    BY ExtendsItself DEF TypeOK, JournalUnchanged
<1>2. ASSUME NEW w \in Writers PROVE WriterInv(w)'
    <2>1. HalfInv(w) /\ LockInv(w) /\ AddInv(w)
        BY DEF JournalInv, WriterInv
    <2>2. HalfInv(w)'
        BY <2>1 DEF HalfInv, JournalUnchanged, writerVars
    <2>3. now \in Nat /\ now' \in Nat /\ lock \in Nat /\ hour[w] \in Nat
        BY NumbersOfHours DEF TypeOK
    <2>4. lock <= now => lock <= now'
        BY <2>3
    <2>5. hour[w] <= now => hour[w] <= now'
        BY <2>3
    <2>6. LockInv(w)'
        BY <2>1, <2>4 DEF LockInv, JournalUnchanged, writerVars
    <2>7. AddInv(w)'
        BY <2>1, <2>5 DEF AddInv, JournalUnchanged, writerVars, Written
    <2>8. QED
        BY <2>2, <2>6, <2>7 DEF WriterInv
<1>3. GoodFiles(file', first_path') /\ AddedInv'
    BY DEF JournalInv, JournalUnchanged, AddedInv
<1>4. QED
    BY <1>1, <1>2, <1>3 DEF GoesWell, JournalInv

(* A request, and what each of its steps does. *)
Requests(r) ==
    \/ GetFirst(r) \/ GetByCursor(r) \/ GetNextAfterCursor(r)
    \/ GetNextForConsumer(r) \/ GetNextForConsumerAfterCursor(r)
    \/ FindEntry(r) \/ PassEntry(r) \/ FollowLink(r) \/ FindEof(r)
    \/ ScanThrows(r) \/ Respond(r)
    \/ ReadForMark(r) \/ WriteMark(r)

LEMMA RequestLeaves ==
    ASSUME NEW r, Requests(r)
    PROVE  JournalUnchanged /\ now' = now
BY DEF Requests, GetFirst, GetByCursor, GetNextAfterCursor, GetNextForConsumer,
       GetNextForConsumerAfterCursor, Start, FindEntry, PassEntry, FollowLink,
       FindEof, ScanThrows, Scan, Respond, ReadForMark, WriteMark, fileVars,
       JournalUnchanged

LEMMA NothingLeaves ==
    ASSUME UNCHANGED vars
    PROVE  JournalUnchanged /\ now' = now
BY DEF vars, fileVars, JournalUnchanged

LEMMA JournalStep ==
    ASSUME OneAdd, TypeInv, JournalInv, [Next]_vars
    PROVE  GoesWell
<1>1. TypeOK /\ now \in Nat /\ now \in Hours
    BY NumbersOfHours DEF TypeInv, TypeOK
<1>2. CASE Tick
    <2>1. JournalUnchanged /\ now' = now + 1 /\ now < MaxHour
        BY <1>2 DEF Tick, fileVars, JournalUnchanged
    <2>2. now' \in Hours /\ now <= now'
        BY <1>1, <2>1 DEF Hours
    <2>3. QED
        BY <1>1, <2>1, <2>2, RestGoesWell
<1>3. ASSUME NEW w \in Writers,
             \/ AddEntry(w) \/ ReadLock(w) \/ SaveFirstPath(w)
             \/ WriteLength(w) \/ WriteText(w) \/ WriteZero(w) \/ WritePath(w)
             \/ WriteLock(w) \/ AddThrows(w)
      PROVE  GoesWell
    BY <1>3, AddGoesWell
<1>4. ASSUME NEW r \in Requesters, Requests(r) PROVE GoesWell
    <2>1. JournalUnchanged /\ now' = now
        BY <1>4, RequestLeaves
    <2>2. now' \in Hours /\ now <= now'
        BY <1>1, <2>1
    <2>3. QED
        BY <1>1, <2>1, <2>2, RestGoesWell
<1>5. CASE UNCHANGED vars
    <2>1. JournalUnchanged /\ now' = now
        BY <1>5, NothingLeaves
    <2>2. now' \in Hours /\ now <= now'
        BY <1>1, <2>1
    <2>3. QED
        BY <1>1, <2>1, <2>2, RestGoesWell
<1>6. QED
    BY <1>2, <1>3, <1>4, <1>5 DEF Next, Requests

LEMMA JournalBegins ==
    ASSUME Init
    PROVE  JournalInv
<1>1. /\ file = [h \in Hours |-> <<>>] /\ first_path = NoHour /\ lock = NoHour /\ added = {}
      /\ \A w \in Writers : wpc[w] = "idle"
    BY DEF Init
<1>2. file \in [Hours -> Seq(Cell)] /\ \A h \in Hours : file[h] = <<>>
    BY <1>1
<1>3. GoodFiles(file, first_path) /\ \A h \in Hours : Size(file, h) = 0
    BY <1>1, <1>2, EmptyFiles
<1>4. ASSUME NEW w \in Writers PROVE WriterInv(w)
    <2>1. HalfInv(w)
        BY <1>3 DEF HalfInv
    <2>2. LockInv(w)
        BY <1>1, <1>2 DEF LockInv
    <2>3. AddInv(w)
        BY <1>1 DEF AddInv, Fresh
    <2>4. QED
        BY <2>1, <2>2, <2>3 DEF WriterInv
<1>5. AddedInv
    BY <1>1 DEF AddedInv
<1>6. QED
    BY <1>3, <1>4, <1>5 DEF JournalInv

(* The shape of the files and of the chain that they make, and what the writer
   knows of them, is kept by every step. *)
THEOREM JournalInvariant == OneAdd /\ Spec => [](TypeInv /\ JournalInv)
<1> SUFFICES ASSUME OneAdd PROVE Spec => [](TypeInv /\ JournalInv)
    OBVIOUS
<1>1. Init => TypeInv /\ JournalInv
    BY JournalBegins, TypeInit DEF Init, TypeInv, AddIsTyped, FoundIsRecord
<1>2. TypeInv /\ JournalInv /\ [Next]_vars => (TypeInv /\ JournalInv)'
    BY TypeStep, JournalStep DEF GoesWell
<1>3. QED
    BY <1>1, <1>2, PTL DEF Spec

(* What was added is in the journal for good: the file of its hour is in the
   chain, so the walk from the first file comes to its record. *)
THEOREM AddedIsReadableHolds == OneAdd /\ Spec => []AddedIsReadable
<1>1. ASSUME TypeInv, JournalInv PROVE AddedIsReadable
    <2>1. SUFFICES ASSUME NEW e \in added PROVE e \in ToSet(Log)
        BY DEF AddedIsReadable
    <2>2. GoodFiles(file, first_path) /\ file \in [Hours -> Seq(Cell)]
        BY <1>1 DEF TypeInv, TypeOK, JournalInv
    <2>3. PICK h \in Chain(file, first_path) : Recorded(file, h, e)
        BY <1>1 DEF JournalInv, AddedInv
    <2>4. PICK c \in Positions :
              Aligned(file, c) /\ c.hour = h /\ RecordIn(file, c) /\ EntryIn(file, c) = e
        BY <2>3 DEF Recorded
    <2>5. Valid(file, first_path, c)
        <3>1. ASSUME HasLink(file, c.hour), c.offset = Size(file, c.hour) PROVE FALSE
            <4>1. c.offset \in Nat /\ c.offset + 2 <= Size(file, c.hour)
                BY <2>4 DEF RecordIn, PairIn, Size, Positions
            <4>2. QED
                BY <3>1, <4>1
        <3>2. c.offset \in Nat /\ Size(file, c.hour) \in Nat /\ c.offset <= Size(file, c.hour)
            BY <2>2, <2>4, LenProperties DEF Aligned, Size, Positions
        <3>3. QED
            BY <2>3, <2>4, <3>1, <3>2 DEF Valid
    <2>6. first_path \in Hours
        <3>1. first_path # NoHour
            BY <2>2, <2>3, ChainBegins DEF GoodFiles
        <3>2. QED
            BY <1>1, <3>1 DEF TypeInv, TypeOK
    <2>7. UpTo(First(first_path), c)
        BY <2>2, <2>5, <2>6, FirstIsValid
    <2>8. IsLog(file, first_path, First(first_path), Log)
        BY <2>2, <2>6, LogIs
    <2>9. PICK k \in 1..Len(Log) : Log[k] = EntryIn(file, c)
        BY <2>4, <2>5, <2>7, <2>8 DEF IsLog
    <2>10. QED
        BY <2>4, <2>9 DEF ToSet
<1>2. QED
    BY <1>1, JournalInvariant, PTL

-----------------------------------------------------------------------------
(* Scans *)

(* What has been read before d was there, and where it is. *)
ReadBefore(fl, first, gl, b) ==
    ValidRecord(fl, first, b) /\ EntryIn(gl, b) = EntryIn(fl, b)

(* Nothing comes in before a cursor that was valid. *)
LEMMA NothingComesBefore ==
    ASSUME NEW fl \in [Hours -> Seq(Cell)], NEW gl \in [Hours -> Seq(Cell)],
           NEW first, NEW gfirst, GoodFiles(fl, first), Extends(fl, first, gl, gfirst),
           NEW d \in Positions, Valid(fl, first, d),
           NEW b \in Positions, ValidRecord(gl, gfirst, b), Before(b, d)
    PROVE  ReadBefore(fl, first, gl, b)
<1>1. Grown(fl, gl) /\ Valid(fl, first, b)
    BY DEF Extends, ValidRecord
<1>2. RecordIn(fl, b) \/ LinkIn(fl, b)
    BY <1>1, FollowingIsNext
<1>3. ~LinkIn(fl, b)
    <2>1. ASSUME LinkIn(fl, b) PROVE FALSE
        <3>1. LinkIn(gl, b) /\ LinkOf(gl, b) = LinkOf(fl, b)
            BY <1>1, <2>1, GrownKeeps
        <3>2. RecordIn(gl, b)
            BY DEF ValidRecord
        <3>3. QED
            BY <3>1, <3>2 DEF LinkIn, RecordIn, PairIn
    <2>2. QED
        BY <2>1
<1>4. RecordIn(gl, b) /\ EntryIn(gl, b) = EntryIn(fl, b)
    BY <1>1, <1>2, <1>3, GrownKeeps
<1>5. QED
    BY <1>1, <1>2, <1>3, <1>4 DEF ReadBefore, ValidRecord

(* Cursors, scans and requests stay what they are when the journal grows. *)
LEMMA ValidStays ==
    ASSUME NEW fl \in [Hours -> Seq(Cell)], NEW gl \in [Hours -> Seq(Cell)],
           NEW first, NEW gfirst, Extends(fl, first, gl, gfirst), NEW c \in Positions
    PROVE  /\ Valid(fl, first, c) => Valid(gl, gfirst, c)
           /\ RecordIn(fl, c) => RecordIn(gl, c)
           /\ ValidRecord(fl, first, c) => ValidRecord(gl, gfirst, c)
<1>1. Valid(fl, first, c) => Valid(gl, gfirst, c)
    BY DEF Extends
<1>2. Grown(fl, gl)
    BY DEF Extends
<1>3. RecordIn(fl, c) => RecordIn(gl, c)
    BY <1>2, GrownKeeps
<1>4. QED
    BY <1>1, <1>3 DEF ValidRecord

LEMMA CursorsStay ==
    ASSUME NEW fl \in [Hours -> Seq(Cell)], NEW gl \in [Hours -> Seq(Cell)],
           NEW first, NEW gfirst, Extends(fl, first, gl, gfirst),
           NEW p \in Peer, CursorsIn(fl, first, p)
    PROVE  CursorsIn(gl, gfirst, p)
<1>1. /\ p.currentCursor \in Positions /\ p.consumeCursor \in Positions
      /\ p.advanceCursor \in Positions
    BY CursorIsPosition DEF Peer
<1>2. p.currentCursor # NoCursor => ValidRecord(gl, gfirst, p.currentCursor)
    BY <1>1, ValidStays DEF CursorsIn
<1>3. p.consumeCursor # NoCursor => ValidRecord(gl, gfirst, p.consumeCursor)
    BY <1>1, ValidStays DEF CursorsIn
<1>4. p.advanceCursor # NoCursor => Valid(gl, gfirst, p.advanceCursor)
    BY <1>1, ValidStays DEF CursorsIn
<1>5. QED
    BY <1>2, <1>3, <1>4 DEF CursorsIn

LEMMA ScanStays ==
    ASSUME NEW fl \in [Hours -> Seq(Cell)], NEW gl \in [Hours -> Seq(Cell)],
           NEW first, NEW gfirst, GoodFiles(fl, first), Extends(fl, first, gl, gfirst),
           NEW q \in Request, ScanIn(fl, first, q)
    PROVE  ScanIn(gl, gfirst, q)
<1>1. q.at \in Positions /\ q.from \in Positions
    BY CursorIsPosition DEF Request
<1>2. /\ Valid(fl, first, q.from) /\ Valid(fl, first, q.at) /\ UpTo(q.from, q.at)
      /\ q.after => RecordIn(fl, q.from)
      /\ q.skip_first_entry => q.after /\ q.at = q.from
    BY DEF ScanIn
<1>3. Valid(gl, gfirst, q.from) /\ Valid(gl, gfirst, q.at)
    BY <1>1, <1>2, ValidStays
<1>4. q.after => RecordIn(gl, q.from)
    BY <1>1, <1>2, ValidStays
<1>5. ASSUME NEW b \in Positions, ValidRecord(gl, gfirst, b), UpTo(q.from, b), Before(b, q.at),
             Wanted(q, EntryIn(gl, b))
      PROVE  b = q.from /\ q.after
    <2>1. ReadBefore(fl, first, gl, b)
        BY <1>1, <1>2, <1>5, NothingComesBefore
    <2>2. QED
        BY <1>5, <2>1 DEF ReadBefore, ScanIn
<1>6. QED
    BY <1>2, <1>3, <1>4, <1>5 DEF ScanIn

LEMMA ReaderStays ==
    ASSUME NEW fl \in [Hours -> Seq(Cell)], NEW gl \in [Hours -> Seq(Cell)],
           NEW first, NEW gfirst, GoodFiles(fl, first), Extends(fl, first, gl, gfirst),
           NEW l, NEW q \in Request, ReaderIn(fl, first, l, q)
    PROVE  ReaderIn(gl, gfirst, l, q)
<1>1. q.peer \in Peer
    BY DEF Request
<1>2. l # "idle" => CursorsIn(gl, gfirst, q.peer)
    BY <1>1, CursorsStay DEF ReaderIn
<1>3. l \in Scanning => ScanIn(gl, gfirst, q)
    BY ScanStays DEF ReaderIn
<1>4. QED
    BY <1>2, <1>3 DEF ReaderIn

(* How a scan begins. *)
Started(q) == [q EXCEPT !.from = q.at, !.after = q.skip_first_entry]

(* A scan that begins at a valid cursor has passed nothing. *)
LEMMA StartedScan ==
    ASSUME NEW fl, NEW first, NEW q \in Request,
           Valid(fl, first, q.at), q.skip_first_entry => RecordIn(fl, q.at)
    PROVE  ScanIn(fl, first, Started(q))
<1> DEFINE s == Started(q)
<1>1. /\ s.from = q.at /\ s.at = q.at /\ s.after = q.skip_first_entry
      /\ s.skip_first_entry = q.skip_first_entry
    BY DEF Started, Request
<1>2. q.at \in Positions
    BY CursorIsPosition DEF Request
<1> HIDE DEF s
<1>3. \A b \in Positions : ~(UpTo(s.from, b) /\ Before(b, s.at))
    BY <1>1, <1>2, BeforeIsOrder
<1>4. QED
    BY <1>1, <1>3 DEF ScanIn, UpTo, s

(* A scan goes on behind a record, or where a link leads. *)
LEMMA ScanGoesOn ==
    ASSUME NEW fl \in [Hours -> Seq(Cell)], NEW first, GoodFiles(fl, first),
           NEW q \in Request, ScanIn(fl, first, q),
           NEW s \in Request, s.at = FollowingIn(fl, q.at),
           s.from = q.from, s.after = q.after, s.option = q.option,
           s.reissue = q.reissue, s.consumer = q.consumer,
           \/ /\ RecordIn(fl, q.at)
              /\ q.skip_first_entry \/ ~Wanted(q, EntryIn(fl, q.at))
              /\ ~s.skip_first_entry
           \/ /\ LinkIn(fl, q.at)
              /\ s.skip_first_entry = q.skip_first_entry
    PROVE  ScanIn(fl, first, s)
<1>1. q.at \in Positions /\ q.from \in Positions
    BY CursorIsPosition DEF Request
<1>2. /\ Valid(fl, first, q.from) /\ Valid(fl, first, q.at) /\ UpTo(q.from, q.at)
      /\ q.after => RecordIn(fl, q.from)
      /\ q.skip_first_entry => q.after /\ q.at = q.from
    BY DEF ScanIn
<1>3. RecordIn(fl, q.at) \/ LinkIn(fl, q.at)
    OBVIOUS
<1>4. /\ s.at \in Positions
      /\ Valid(fl, first, s.at)
      /\ Before(q.at, s.at)
      /\ \A d \in Positions : Valid(fl, first, d) /\ Before(q.at, d) => UpTo(s.at, d)
    BY <1>1, <1>2, <1>3, FollowingIsPosition, FollowingIsNext
<1>5. UpTo(s.from, s.at)
    BY <1>1, <1>2, <1>4, BeforeIsOrder DEF UpTo
<1>6. s.skip_first_entry => s.after /\ s.at = s.from
    <2>1. ASSUME LinkIn(fl, q.at), q.skip_first_entry PROVE FALSE
        BY <1>2, <2>1 DEF LinkIn, RecordIn, PairIn
    <2>2. QED
        BY <2>1
<1>7. ASSUME NEW b \in Positions, ValidRecord(fl, first, b), UpTo(s.from, b), Before(b, s.at),
             Wanted(s, EntryIn(fl, b))
      PROVE  b = s.from /\ s.after
    <2>1. Wanted(q, EntryIn(fl, b))
        BY <1>7 DEF Wanted
    <2>2. CASE Before(b, q.at)
        BY <1>7, <2>1, <2>2 DEF ScanIn
    <2>3. CASE b = q.at
        <3>1. ~LinkIn(fl, q.at)
            BY <1>7, <2>3 DEF ValidRecord, LinkIn, RecordIn, PairIn
        <3>2. q.skip_first_entry
            BY <2>1, <2>3, <3>1
        <3>3. QED
            BY <1>2, <2>3, <3>2
    <2>4. CASE Before(q.at, b)
        <3>1. UpTo(s.at, b)
            BY <1>4, <1>7, <2>4 DEF ValidRecord
        <3>2. QED
            BY <1>4, <1>7, <3>1, BeforeIsOrder
    <2>5. QED
        BY <1>1, <1>7, <2>2, <2>3, <2>4, BeforeIsOrder
<1>8. QED
    BY <1>2, <1>4, <1>5, <1>6, <1>7 DEF ScanIn

LEMMA NoCursors ==
    ASSUME NEW fl, NEW first
    PROVE  CursorsIn(fl, first, NoPeer)
BY DEF CursorsIn, NoPeer

(* A cursor that a client may name is that of a record in the journal. *)
LEMMA RecordsAreValid ==
    ASSUME TypeInv, JournalInv, NEW c \in Records
    PROVE  c \in Positions /\ ValidRecord(file, first_path, c)
<1>1. c \in Cursor /\ IsRecord(c) /\ c \in ToSet(Trail)
    BY RecordsAreCursors DEF TypeInv
<1>2. file \in [Hours -> Seq(Cell)] /\ first_path \in Hours \cup {NoHour} /\ GoodFiles(file, first_path)
    BY DEF TypeInv, TypeOK, JournalInv
<1>3. PICK k \in 1..Len(Trail) : Trail[k] = c
    BY <1>1 DEF ToSet
<1>4. first_path # NoHour
    <2>1. ASSUME first_path = NoHour PROVE FALSE
        <3>1. Trail = <<>>
            BY <2>1, NothingIsRead
        <3>2. Len(Trail) = 0
            BY <3>1
        <3>3. QED
            BY <3>2
    <2>2. QED
        BY <2>1
<1>5. IsTrail(file, first_path, First(first_path), Trail)
    BY <1>2, <1>4, TrailIs
<1>6. Valid(file, first_path, c)
    BY <1>3, <1>5 DEF IsTrail
<1>7. QED
    BY <1>1, <1>6, CursorIsPosition, ReadersSee DEF ValidRecord

LEMMA StartsWell ==
    ASSUME NEW fl, NEW first, NEW q \in Request, CursorsIn(fl, first, q.peer),
           Valid(fl, first, q.at), q.skip_first_entry => RecordIn(fl, q.at)
    PROVE  ReaderIn(fl, first, "scan", Started(q))
<1>1. Started(q).peer = q.peer
    BY DEF Started, Request
<1>2. ScanIn(fl, first, Started(q))
    BY StartedScan
<1>3. QED
    BY <1>1, <1>2 DEF ReaderIn

(* What a step of requester r makes of its own request and of the peers. *)
ScansOn(r) ==
    /\ ReaderIn(file, first_path, rpc'[r], request'[r])
    /\ \A c \in Consumers : CursorsIn(file, first_path, peer'[c])

(* The options of get_entry: each begins at a valid cursor, and skips only
   an entry that is there. *)
LEMMA StartScansOn ==
    ASSUME TypeInv, ScansInv, NEW r \in Requesters, NEW q \in Request, Start(r, q),
           CursorsIn(file, first_path, q.peer),
           Valid(file, first_path, q.at), q.skip_first_entry => RecordIn(file, q.at)
    PROVE  ScansOn(r)
<1>1. /\ rpc'[r] = "scan" /\ request'[r] = Started(q) /\ peer' = peer
    BY DEF Start, TypeInv, TypeOK, Started
<1>2. ReaderIn(file, first_path, "scan", Started(q))
    BY StartsWell
<1>3. QED
    BY <1>1, <1>2 DEF ScansOn, ScansInv

(* What a requester finds in its state. *)
LEMMA ReaderHas ==
    ASSUME TypeInv, JournalInv, ScansInv, NEW r \in Requesters
    PROVE  /\ file \in [Hours -> Seq(Cell)] /\ GoodFiles(file, first_path)
           /\ first_path \in Hours \cup {NoHour}
           /\ rpc \in [Requesters -> {"idle", "scan", "found", "nothing", "mark"}]
           /\ request \in [Requesters -> Request]
           /\ peer \in [Consumers -> Peer]
           /\ request[r] \in Request
           /\ request[r].peer \in Peer /\ request[r].consumer \in Consumers
           /\ rpc[r] # "idle" => CursorsIn(file, first_path, request[r].peer)
           /\ rpc[r] \in Scanning => ScanIn(file, first_path, request[r])
           /\ \A c \in Consumers : CursorsIn(file, first_path, peer[c])
BY DEF TypeInv, TypeOK, JournalInv, ScansInv, ReaderIn, Request

LEMMA FirstScansOn ==
    ASSUME TypeInv, JournalInv, ScansInv, NEW r \in Requesters, NEW q \in Request,
           first_path # NoHour, ~q.skip_first_entry,
           CursorsIn(file, first_path, q.peer), Start(r, FromFirst(q))
    PROVE  ScansOn(r)
<1>1. /\ file \in [Hours -> Seq(Cell)] /\ GoodFiles(file, first_path)
      /\ first_path \in Hours
    BY ReaderHas
<1>2. Valid(file, first_path, First(first_path))
    BY <1>1, FirstIsValid
<1>3. FromFirst(q) \in Request
    BY FromFirstIsTyped DEF TypeInv
<1>4. /\ FromFirst(q).at = First(first_path) /\ FromFirst(q).peer = q.peer
      /\ FromFirst(q).skip_first_entry = q.skip_first_entry
    BY DEF FromFirst, First, Request
<1>5. QED
    BY <1>2, <1>3, <1>4, StartScansOn

LEMMA GetFirstScansOn ==
    ASSUME TypeInv, JournalInv, ScansInv, NEW r \in Requesters, GetFirst(r)
    PROVE  ScansOn(r)
<1> DEFINE q == [NoRequest EXCEPT !.option = "get_first"]
<1>1. first_path # NoHour /\ Start(r, FromFirst(q))
    BY DEF GetFirst
<1>2. q \in Request
    BY NoRequestIsRequest DEF Request, Option
<1>3. q.peer = NoPeer /\ ~q.skip_first_entry
    BY DEF NoRequest
<1> HIDE DEF q
<1>4. CursorsIn(file, first_path, q.peer)
    BY <1>3, NoCursors
<1>5. QED
    BY <1>1, <1>2, <1>3, <1>4, FirstScansOn

LEMMA GetAtScansOn ==
    ASSUME TypeInv, JournalInv, ScansInv, NEW r \in Requesters,
           \/ GetByCursor(r) \/ GetNextAfterCursor(r) \/ GetNextForConsumerAfterCursor(r)
    PROVE  ScansOn(r)
<1>1. PICK q \in Request :
          /\ Start(r, q) /\ CursorsIn(file, first_path, q.peer)
          /\ ValidRecord(file, first_path, q.at)
    <2>1. CASE GetByCursor(r)
        <3>1. PICK c \in Records :
                  Start(r, [NoRequest EXCEPT !.option = "get_by_cursor", !.at = c])
            BY <2>1 DEF GetByCursor
        <3> DEFINE q == [NoRequest EXCEPT !.option = "get_by_cursor", !.at = c]
        <3>2. c \in Cursor /\ ValidRecord(file, first_path, c)
            BY RecordsAreCursors, RecordsAreValid DEF TypeInv
        <3>3. q \in Request /\ q.at = c /\ q.peer = NoPeer
            BY <3>2, NoRequestIsRequest DEF Request, Option, NoRequest
        <3>4. QED
            BY <3>1, <3>2, <3>3, NoCursors
    <2>2. CASE GetNextAfterCursor(r)
        <3>1. PICK c \in Records :
                  Start(r, [NoRequest EXCEPT !.option = "get_next_after_cursor",
                                   !.at = c, !.skip_first_entry = TRUE])
            BY <2>2 DEF GetNextAfterCursor
        <3> DEFINE q == [NoRequest EXCEPT !.option = "get_next_after_cursor",
                                   !.at = c, !.skip_first_entry = TRUE]
        <3>2. c \in Cursor /\ ValidRecord(file, first_path, c)
            BY RecordsAreCursors, RecordsAreValid DEF TypeInv
        <3>3. q \in Request /\ q.at = c /\ q.peer = NoPeer
            BY <3>2, NoRequestIsRequest DEF Request, Option, NoRequest
        <3>4. QED
            BY <3>1, <3>2, <3>3, NoCursors
    <2>3. CASE GetNextForConsumerAfterCursor(r)
        <3>1. PICK p \in Consumers, c \in Records :
              Start(r, [NoRequest EXCEPT
                     !.option = "get_next_for_consumer_after_cursor",
                     !.consumer = p, !.peer = peer[p],
                     !.at = c, !.skip_first_entry = TRUE])
            BY <2>3 DEF GetNextForConsumerAfterCursor
        <3> DEFINE q == [NoRequest EXCEPT
                     !.option = "get_next_for_consumer_after_cursor",
                     !.consumer = p, !.peer = peer[p],
                     !.at = c, !.skip_first_entry = TRUE]
        <3>2. c \in Cursor /\ ValidRecord(file, first_path, c)
            BY RecordsAreCursors, RecordsAreValid DEF TypeInv
        <3>3. peer[p] \in Peer /\ CursorsIn(file, first_path, peer[p])
            BY ReaderHas
        <3>4. q \in Request /\ q.at = c /\ q.peer = peer[p]
            BY <3>2, <3>3, NoRequestIsRequest DEF Request, Option, NoRequest
        <3>5. QED
            BY <3>1, <3>2, <3>3, <3>4
    <2>4. QED
        BY <2>1, <2>2, <2>3
<1>2. QED
    BY <1>1, StartScansOn DEF ValidRecord

LEMMA GetNextScansOn ==
    ASSUME TypeInv, JournalInv, ScansInv, NEW r \in Requesters, GetNextForConsumer(r)
    PROVE  ScansOn(r)
<1>1. PICK c \in Consumers :
          /\ peer[c] = NoPeer => first_path # NoHour
          /\ Start(r, FromConsumerCursors(peer[c],
                         [NoRequest EXCEPT !.option = "get_next_for_consumer",
                                           !.consumer = c, !.peer = peer[c]]))
    BY DEF GetNextForConsumer
<1> DEFINE p == peer[c]
           q == [NoRequest EXCEPT !.option = "get_next_for_consumer",
                                  !.consumer = c, !.peer = peer[c]]
<1>2. p \in Peer /\ CursorsIn(file, first_path, p)
    BY ReaderHas
<1>3. q \in Request /\ q.peer = p /\ q.skip_first_entry = FALSE
    BY <1>2, NoRequestIsRequest DEF Request, Option, NoRequest
<1>4. Start(r, FromConsumerCursors(p, q)) /\ (p = NoPeer => first_path # NoHour)
    BY <1>1
<1>5. FromConsumerCursors(p, q) \in Request
    BY <1>2, <1>3, FromConsumerCursorsIsTyped DEF TypeInv
<1> HIDE DEF p, q
<1>6. CASE p.consumeCursor # NoCursor
    <2>1. FromConsumerCursors(p, q) = [q EXCEPT !.at = p.consumeCursor, !.reissue = TRUE]
        BY <1>6 DEF FromConsumerCursors
    <2>2. /\ FromConsumerCursors(p, q).at = p.consumeCursor
          /\ FromConsumerCursors(p, q).peer = p
          /\ ~FromConsumerCursors(p, q).skip_first_entry
        BY <1>3, <2>1 DEF Request
    <2>3. Valid(file, first_path, p.consumeCursor)
        BY <1>2, <1>6 DEF CursorsIn, ValidRecord
    <2>4. QED
        BY <1>2, <1>4, <1>5, <2>2, <2>3, StartScansOn
<1>7. CASE p.consumeCursor = NoCursor /\ p.advanceCursor # NoCursor
    <2>1. FromConsumerCursors(p, q) = [q EXCEPT !.at = p.advanceCursor]
        BY <1>7 DEF FromConsumerCursors
    <2>2. /\ FromConsumerCursors(p, q).at = p.advanceCursor
          /\ FromConsumerCursors(p, q).peer = p
          /\ ~FromConsumerCursors(p, q).skip_first_entry
        BY <1>3, <2>1 DEF Request
    <2>3. Valid(file, first_path, p.advanceCursor)
        BY <1>2, <1>7 DEF CursorsIn
    <2>4. QED
        BY <1>2, <1>4, <1>5, <2>2, <2>3, StartScansOn
<1>8. CASE p.consumeCursor = NoCursor /\ p.advanceCursor = NoCursor /\ p.currentCursor # NoCursor
    <2>1. FromConsumerCursors(p, q) = [q EXCEPT !.at = p.currentCursor, !.skip_first_entry = TRUE]
        BY <1>8 DEF FromConsumerCursors
    <2>2. /\ FromConsumerCursors(p, q).at = p.currentCursor
          /\ FromConsumerCursors(p, q).peer = p
        BY <1>3, <2>1 DEF Request
    <2>3. Valid(file, first_path, p.currentCursor) /\ RecordIn(file, p.currentCursor)
        BY <1>2, <1>8 DEF CursorsIn, ValidRecord
    <2>4. QED
        BY <1>2, <1>4, <1>5, <2>2, <2>3, StartScansOn
<1>9. CASE p.consumeCursor = NoCursor /\ p.advanceCursor = NoCursor /\ p.currentCursor = NoCursor
    <2>1. p = NoPeer
        BY <1>2, <1>9 DEF Peer, NoPeer
    <2>2. FromConsumerCursors(p, q) = FromFirst(q)
        BY <1>9 DEF FromConsumerCursors
    <2>3. Start(r, FromFirst(q)) /\ first_path # NoHour
        BY <1>4, <2>1, <2>2
    <2>4. QED
        BY <1>2, <1>3, <2>3, FirstScansOn
<1>10. QED
    BY <1>6, <1>7, <1>8, <1>9

(* A step of the loop. *)
LEMMA ScanIs ==
    ASSUME TypeInv, NEW r \in Requesters, NEW l, NEW q, Scan(r, l, q)
    PROVE  /\ rpc[r] = "scan" /\ rpc'[r] = l /\ request'[r] = q
           /\ peer' = peer /\ delivered' = delivered
BY DEF Scan, TypeInv, TypeOK

(* The loop of get_entry. *)
LEMMA LoopScansOn ==
    ASSUME TypeInv, JournalInv, ScansInv, NEW r \in Requesters,
           \/ FindEntry(r) \/ PassEntry(r) \/ FollowLink(r) \/ FindEof(r) \/ ScanThrows(r)
    PROVE  ScansOn(r)
<1> DEFINE q == request[r]
<1>0. /\ file \in [Hours -> Seq(Cell)] /\ GoodFiles(file, first_path)
      /\ q \in Request /\ q.at \in Positions
      /\ \A c \in Consumers : CursorsIn(file, first_path, peer[c])
    BY ReaderHas, FoundIsTyped DEF TypeInv
<1>1. rpc[r] = "scan" => CursorsIn(file, first_path, q.peer) /\ ScanIn(file, first_path, q)
    BY ReaderHas DEF Scanning
<1>2. CASE FindEntry(r) \/ FindEof(r)
    <2>1. Scan(r, "found", q) \/ Scan(r, "nothing", q)
        BY <1>2 DEF FindEntry, FindEof
    <2>2. /\ rpc[r] = "scan" /\ rpc'[r] \in {"found", "nothing"} /\ request'[r] = q
          /\ peer' = peer
        BY <2>1, ScanIs
    <2>3. QED
        BY <1>0, <1>1, <2>2 DEF ScansOn, ReaderIn
<1>3. CASE PassEntry(r)
    <2> DEFINE s == Passed(q)
    <2>1. /\ Scan(r, "scan", s)
          /\ RecordIn(file, q.at)
          /\ q.skip_first_entry \/ ~Wanted(q, EntryIn(file, q.at))
        BY <1>3, ReadersSee DEF PassEntry
    <2>2. /\ rpc[r] = "scan" /\ rpc'[r] = "scan" /\ request'[r] = s /\ peer' = peer
        BY <2>1, ScanIs
    <2>3. NextOffset(q.at) \in Cursor
        BY <2>1, FoundIsTyped, ReadersSee DEF TypeInv
    <2>4. /\ s \in Request /\ s.at = NextOffset(q.at) /\ s.from = q.from /\ s.after = q.after
          /\ s.option = q.option /\ s.reissue = q.reissue /\ s.consumer = q.consumer
          /\ s.peer = q.peer /\ ~s.skip_first_entry
        BY <1>0, <2>3 DEF Passed, Request
    <2>5. s.at = FollowingIn(file, q.at)
        BY <2>1, <2>4 DEF FollowingIn
    <2> HIDE DEF s
    <2>6. ScanIn(file, first_path, s)
        BY <1>0, <1>1, <2>1, <2>2, <2>4, <2>5, ScanGoesOn
    <2>7. CursorsIn(file, first_path, s.peer)
        BY <1>1, <2>2, <2>4
    <2>8. QED
        BY <1>0, <2>2, <2>6, <2>7 DEF ScansOn, ReaderIn
<1>4. CASE FollowLink(r)
    <2> DEFINE s == [q EXCEPT !.at = LinkAt(q.at), !.unterminated = FALSE]
    <2>1. /\ Scan(r, "scan", s)
          /\ LinkIn(file, q.at)
        BY <1>4, ReadersSee DEF FollowLink
    <2>2. /\ rpc[r] = "scan" /\ rpc'[r] = "scan" /\ request'[r] = s /\ peer' = peer
        BY <2>1, ScanIs
    <2>3. LinkAt(q.at) \in Cursor
        BY <2>1, FoundIsTyped, ReadersSee DEF TypeInv
    <2>4. /\ s \in Request /\ s.at = LinkAt(q.at) /\ s.from = q.from /\ s.after = q.after
          /\ s.option = q.option /\ s.reissue = q.reissue /\ s.consumer = q.consumer
          /\ s.peer = q.peer /\ s.skip_first_entry = q.skip_first_entry
        BY <1>0, <2>3 DEF Request
    <2>5. s.at = FollowingIn(file, q.at)
        <3>1. ~RecordIn(file, q.at)
            BY <2>1 DEF LinkIn, RecordIn, PairIn
        <3>2. QED
            BY <2>4, <3>1, ReadersSee DEF FollowingIn
    <2> HIDE DEF s
    <2>6. ScanIn(file, first_path, s)
        BY <1>0, <1>1, <2>1, <2>2, <2>4, <2>5, ScanGoesOn
    <2>7. CursorsIn(file, first_path, s.peer)
        BY <1>1, <2>2, <2>4
    <2>8. QED
        BY <1>0, <2>2, <2>6, <2>7 DEF ScansOn, ReaderIn
<1>5. CASE ScanThrows(r)
    <2>1. rpc'[r] = "idle" /\ peer' = peer
        BY <1>5, ScanIs DEF ScanThrows
    <2>2. QED
        BY <1>0, <2>1 DEF ScansOn, ReaderIn, Scanning
<1>6. QED
    BY <1>2, <1>3, <1>4, <1>5

(* The answer: the cursors that it writes are valid. *)
LEMMA PeerAfterIsValid ==
    ASSUME NEW fl, NEW first, NEW q \in Request, NEW found \in BOOLEAN,
           CursorsIn(fl, first, q.peer), Valid(fl, first, q.at),
           found => RecordIn(fl, q.at)
    PROVE  CursorsIn(fl, first, PeerAfter(q, found))
<1>1. q.peer \in Peer
    BY DEF Request
<1>2. CASE PeerAfter(q, found) = q.peer
    BY <1>2
<1>3. CASE found /\ PeerAfter(q, found) = [currentCursor |-> q.at, consumeCursor |-> q.at,
                                           advanceCursor |-> NoCursor]
    <2> DEFINE p == [currentCursor |-> q.at, consumeCursor |-> q.at, advanceCursor |-> NoCursor]
    <2>1. p.currentCursor = q.at /\ p.consumeCursor = q.at /\ p.advanceCursor = NoCursor
        OBVIOUS
    <2>2. PeerAfter(q, found) = p
        BY <1>3
    <2>3. ValidRecord(fl, first, q.at)
        BY <1>3 DEF ValidRecord
    <2> HIDE DEF p
    <2>4. CursorsIn(fl, first, p)
        BY <2>1, <2>3 DEF CursorsIn
    <2>5. QED
        BY <2>2, <2>4
<1>4. CASE PeerAfter(q, found) = [q.peer EXCEPT !.advanceCursor = q.at]
    BY <1>1, <1>4 DEF CursorsIn, Peer
<1>5. QED
    BY <1>2, <1>3, <1>4 DEF PeerAfter

LEMMA AnswerScansOn ==
    ASSUME TypeInv, JournalInv, ScansInv, NEW r \in Requesters,
           Respond(r) \/ ReadForMark(r) \/ WriteMark(r)
    PROVE  ScansOn(r)
<1> DEFINE q == request[r]
<1>0. /\ q \in Request /\ q.consumer \in Consumers /\ q.peer \in Peer
      /\ \A c \in Consumers : CursorsIn(file, first_path, peer[c])
      /\ peer \in [Consumers -> Peer]
      /\ rpc \in [Requesters -> {"idle", "scan", "found", "nothing", "mark"}]
      /\ request \in [Requesters -> Request]
    BY ReaderHas
<1>1. rpc[r] # "idle" => CursorsIn(file, first_path, q.peer)
    BY ReaderHas
<1>2. CASE Respond(r)
    <2> DEFINE found == rpc[r] = "found"
    <2>1. /\ rpc[r] \in {"found", "nothing"} /\ rpc'[r] = "idle"
          /\ peer' = peer \/ peer' = [peer EXCEPT ![q.consumer] = PeerAfter(q, found)]
        BY <1>0, <1>2 DEF Respond
    <2>2. Valid(file, first_path, q.at)
        BY <2>1, ReaderHas DEF Scanning, ScanIn
    <2>3. found => RecordIn(file, q.at)
        BY DEF TypeInv, FoundIsRecord
    <2>4. CursorsIn(file, first_path, PeerAfter(q, found))
        BY <1>0, <1>1, <2>1, <2>2, <2>3, PeerAfterIsValid
    <2>5. \A c \in Consumers : CursorsIn(file, first_path, peer'[c])
        BY <1>0, <2>1, <2>4
    <2>6. QED
        BY <2>1, <2>5 DEF ScansOn, ReaderIn, Scanning
<1>3. CASE ReadForMark(r)
    <2>1. PICK c \in Consumers :
              request' = [request EXCEPT ![r] =
                  [NoRequest EXCEPT !.option = "mark_entry_consumed",
                                    !.consumer = c, !.peer = peer[c]]]
        BY <1>3 DEF ReadForMark
    <2>2. request'[r].peer = peer[c] /\ rpc'[r] = "mark" /\ peer' = peer
        BY <1>0, <1>3, <2>1 DEF ReadForMark, NoRequest
    <2>3. QED
        BY <1>0, <2>2 DEF ScansOn, ReaderIn, Scanning
<1>4. CASE WriteMark(r)
    <2> DEFINE p == [q.peer EXCEPT !.consumeCursor = NoCursor]
    <2>1. /\ rpc[r] = "mark" /\ rpc'[r] = "idle"
          /\ peer' = [peer EXCEPT ![q.consumer] = p]
        BY <1>0, <1>4 DEF WriteMark
    <2>2. CursorsIn(file, first_path, p)
        BY <1>0, <1>1, <2>1 DEF CursorsIn, Peer
    <2>3. \A c \in Consumers : CursorsIn(file, first_path, peer'[c])
        BY <1>0, <2>1, <2>2
    <2>4. QED
        BY <2>1, <2>3 DEF ScansOn, ReaderIn, Scanning
<1>5. QED
    BY <1>2, <1>3, <1>4

LEMMA RequestScansOn ==
    ASSUME TypeInv, JournalInv, ScansInv, NEW r \in Requesters, Requests(r)
    PROVE  ScansOn(r)
<1>1. \/ GetFirst(r)
      \/ GetByCursor(r) \/ GetNextAfterCursor(r) \/ GetNextForConsumerAfterCursor(r)
      \/ GetNextForConsumer(r)
      \/ FindEntry(r) \/ PassEntry(r) \/ FollowLink(r) \/ FindEof(r) \/ ScanThrows(r)
      \/ Respond(r) \/ ReadForMark(r) \/ WriteMark(r)
    BY DEF Requests
<1>2. QED
    BY <1>1, GetFirstScansOn, GetAtScansOn, GetNextScansOn, LoopScansOn, AnswerScansOn

(* A step of one requester leaves the others where they are. *)
LEMMA OthersStay ==
    ASSUME TypeOK, NEW r \in Requesters, Requests(r), NEW s \in Requesters, s # r
    PROVE  rpc'[s] = rpc[s] /\ request'[s] = request[s]
BY DEF TypeOK, Requests, GetFirst, GetByCursor, GetNextAfterCursor, GetNextForConsumer,
       GetNextForConsumerAfterCursor, Start, FindEntry, PassEntry, FollowLink,
       FindEof, ScanThrows, Scan, Respond, ReadForMark, WriteMark

(* Every other step leaves all of them, and the peers. *)
NoRequestSteps == UNCHANGED <<peer, rpc, request, delivered>>

(* A step is one of a request, or leaves the requests alone. *)
LEMMA RequestOrNot ==
    ASSUME [Next]_vars
    PROVE  NoRequestSteps \/ \E r \in Requesters : Requests(r)
<1>1. CASE Tick
    BY <1>1 DEF Tick, readerVars, NoRequestSteps
<1>2. ASSUME NEW w \in Writers,
             \/ AddEntry(w) \/ ReadLock(w) \/ SaveFirstPath(w)
             \/ WriteLength(w) \/ WriteText(w) \/ WriteZero(w) \/ WritePath(w)
             \/ WriteLock(w) \/ AddThrows(w)
      PROVE  NoRequestSteps
    BY <1>2 DEF AddEntry, ReadLock, SaveFirstPath, WriteLength, WriteText, WriteZero,
                WritePath, Write, WriteLock, AddThrows, readerVars, NoRequestSteps
<1>3. CASE UNCHANGED vars
    BY <1>3 DEF vars, readerVars, NoRequestSteps
<1>4. QED
    BY <1>1, <1>2, <1>3 DEF Next, Requests

LEMMA ScansStep ==
    ASSUME OneAdd, TypeInv, TypeInv', JournalInv, ScansInv, [Next]_vars
    PROVE  ScansInv'
<1>1. /\ file \in [Hours -> Seq(Cell)] /\ file' \in [Hours -> Seq(Cell)]
      /\ peer \in [Consumers -> Peer] /\ request \in [Requesters -> Request]
      /\ GoodFiles(file, first_path)
    BY DEF TypeInv, TypeOK, JournalInv
<1>2. CASE NoRequestSteps
    <2>1. Extends(file, first_path, file', first_path')
        BY JournalStep DEF GoesWell
    <2>2. \A c \in Consumers : CursorsIn(file', first_path', peer[c])
        BY <1>1, <2>1, CursorsStay DEF ScansInv
    <2>3. \A r \in Requesters : ReaderIn(file', first_path', rpc[r], request[r])
        BY <1>1, <2>1, ReaderStays DEF ScansInv
    <2>4. QED
        BY <1>2, <2>2, <2>3 DEF ScansInv, NoRequestSteps
<1>3. ASSUME NEW r \in Requesters, Requests(r) PROVE ScansInv'
    <2>1. file' = file /\ first_path' = first_path
        BY <1>3, RequestLeaves DEF JournalUnchanged
    <2>2. ScansOn(r)
        BY <1>3, RequestScansOn
    <2>3. \A s \in Requesters : s # r => rpc'[s] = rpc[s] /\ request'[s] = request[s]
        BY <1>3, OthersStay DEF TypeInv
    <2>4. \A s \in Requesters : ReaderIn(file, first_path, rpc'[s], request'[s])
        BY <2>2, <2>3 DEF ScansInv, ScansOn
    <2>5. \A c \in Consumers : CursorsIn(file, first_path, peer'[c])
        BY <2>2 DEF ScansOn
    <2>6. QED
        BY <2>1, <2>4, <2>5 DEF ScansInv
<1>4. QED
    BY <1>2, <1>3, RequestOrNot

LEMMA ScansBegin ==
    ASSUME Init
    PROVE  ScansInv
<1>1. /\ \A c \in Consumers : peer[c] = NoPeer
      /\ \A r \in Requesters : rpc[r] = "idle"
    BY DEF Init
<1>2. \A r \in Requesters : ReaderIn(file, first_path, rpc[r], request[r])
    BY <1>1 DEF ReaderIn, Scanning
<1>3. \A c \in Consumers : CursorsIn(file, first_path, peer[c])
    BY <1>1, NoCursors
<1>4. QED
    BY <1>2, <1>3 DEF ScansInv

(* Wherever a scan is, and wherever a cursor of a consumer is, the journal goes
   on from there. *)
THEOREM ScansInvariant == OneAdd /\ Spec => [](TypeInv /\ JournalInv /\ ScansInv)
<1> SUFFICES ASSUME OneAdd PROVE Spec => [](TypeInv /\ JournalInv /\ ScansInv)
    OBVIOUS
<1>1. Init => ScansInv
    BY ScansBegin
<1>2. TypeInv /\ TypeInv' /\ JournalInv /\ ScansInv /\ [Next]_vars => ScansInv'
    BY ScansStep
<1>3. Spec => [](TypeInv /\ JournalInv)
    BY JournalInvariant
<1>4. QED
    BY <1>1, <1>2, <1>3, PTL DEF Spec

(* A scan leaves nothing behind: on the trail, which is in the order of the
   cursors, what lies between two positions are the valid cursors between. *)
THEOREM ScanMissesNothingHolds == OneAdd /\ Spec => []ScanMissesNothing
<1>1. ASSUME TypeInv, JournalInv, ScansInv PROVE ScanMissesNothing
    <2> DEFINE trail == Trail
               Place(c) == CHOOSE k \in 1..Len(trail) : trail[k] = c
    <2>1. SUFFICES ASSUME NEW r \in Requesters, rpc[r] \in Scanning
                   PROVE  LET q == request[r]
                          IN  /\ {q.from, q.at} \subseteq {trail[k] : k \in 1..Len(trail)}
                              /\ \A k \in Place(q.from)..(Place(q.at) - 1) :
                                    /\ IsRecord(trail[k])
                                    /\ Wanted(q, EntryAt(trail[k]))
                                    => k = Place(q.from) /\ q.after
        BY DEF ScanMissesNothing, Scanning
    <2> DEFINE q == request[r]
    <2>2. /\ file \in [Hours -> Seq(Cell)] /\ GoodFiles(file, first_path)
          /\ first_path \in Hours \cup {NoHour} /\ q \in Request
          /\ ScanIn(file, first_path, q)
        BY <1>1, <2>1, ReaderHas
    <2>3. /\ q.from \in Positions /\ q.at \in Positions
          /\ Valid(file, first_path, q.from) /\ Valid(file, first_path, q.at)
        BY <2>2, CursorIsPosition DEF ScanIn, Request
    <2>4. first_path \in Hours
        <3>1. first_path # NoHour
            BY <2>2, <2>3, ChainBegins DEF Valid, GoodFiles
        <3>2. QED
            BY <2>2, <3>1
    <2>5. IsTrail(file, first_path, First(first_path), trail)
        BY <2>2, <2>4, TrailIs
    <2> HIDE DEF trail, q
    <2>6. \A c \in Positions :
              Valid(file, first_path, c)
                  => Place(c) \in 1..Len(trail) /\ trail[Place(c)] = c
        <3>1. SUFFICES ASSUME NEW c \in Positions, Valid(file, first_path, c)
                       PROVE  Place(c) \in 1..Len(trail) /\ trail[Place(c)] = c
            OBVIOUS
        <3>2. UpTo(First(first_path), c)
            BY <2>2, <2>4, <3>1, FirstIsValid
        <3>3. \E k \in 1..Len(trail) : trail[k] = c
            BY <2>5, <3>1, <3>2 DEF IsTrail
        <3>4. QED
            BY <3>3
    <2>7. {q.from, q.at} \subseteq {trail[k] : k \in 1..Len(trail)}
        BY <2>3, <2>6
    <2> HIDE DEF Place
    <2>8. ASSUME NEW k \in Place(q.from)..(Place(q.at) - 1),
                 IsRecord(trail[k]), Wanted(q, EntryAt(trail[k]))
          PROVE  k = Place(q.from) /\ q.after
        <3>1. /\ Place(q.from) \in 1..Len(trail) /\ trail[Place(q.from)] = q.from
              /\ Place(q.at) \in 1..Len(trail) /\ trail[Place(q.at)] = q.at
              /\ Len(trail) \in Nat
            BY <2>3, <2>5, <2>6, LenProperties DEF IsTrail
        <3>2. k \in 1..Len(trail) /\ k < Place(q.at) /\ Place(q.from) <= k
            BY <3>1
        <3>3. /\ trail[k] \in Positions /\ Valid(file, first_path, trail[k])
              /\ Before(trail[k], q.at)
            BY <2>5, <3>1, <3>2 DEF IsTrail
        <3>4. k # Place(q.from) => Before(q.from, trail[k])
            <4>1. ASSUME k # Place(q.from) PROVE Place(q.from) < k
                BY <3>1, <3>2, <4>1
            <4>2. QED
                BY <2>5, <3>1, <3>2, <4>1 DEF IsTrail
        <3>5. UpTo(q.from, trail[k])
            BY <3>1, <3>4 DEF UpTo
        <3>6. ValidRecord(file, first_path, trail[k]) /\ Wanted(q, EntryIn(file, trail[k]))
            BY <2>8, <3>3, ReadersSee DEF ValidRecord
        <3>7. trail[k] = q.from /\ q.after
            BY <2>2, <3>3, <3>5, <3>6 DEF ScanIn
        <3>8. QED
            BY <2>3, <3>4, <3>7, BeforeIsOrder
    <2>9. QED
        BY <2>7, <2>8 DEF q
<1>2. QED
    BY <1>1, ScansInvariant, PTL

-----------------------------------------------------------------------------
(* What a consumer has been given *)

(* Nothing comes in before a valid cursor, so what was done before it stays
   done. *)
LEMMA DoneStays ==
    ASSUME NEW fl \in [Hours -> Seq(Cell)], NEW gl \in [Hours -> Seq(Cell)],
           NEW first, NEW gfirst, GoodFiles(fl, first), Extends(fl, first, gl, gfirst),
           NEW c, NEW given, NEW more, given \subseteq more,
           NEW d \in Positions, Valid(fl, first, d), DoneBefore(fl, first, c, d, given)
    PROVE  DoneBefore(gl, gfirst, c, d, more)
<1>1. SUFFICES ASSUME NEW b \in Positions, ValidRecord(gl, gfirst, b), Before(b, d),
                      EntryIn(gl, b) \in Applicable[c]
               PROVE  EntryIn(gl, b) \in more
    BY DEF DoneBefore
<1>2. ReadBefore(fl, first, gl, b)
    BY <1>1, NothingComesBefore
<1>3. EntryIn(fl, b) \in given
    BY <1>1, <1>2 DEF ReadBefore, DoneBefore
<1>4. QED
    BY <1>2, <1>3 DEF ReadBefore

LEMMA DoneWithStays ==
    ASSUME NEW fl \in [Hours -> Seq(Cell)], NEW gl \in [Hours -> Seq(Cell)],
           NEW first, NEW gfirst, GoodFiles(fl, first), Extends(fl, first, gl, gfirst),
           NEW c, NEW given, NEW more, given \subseteq more,
           NEW d \in Positions, ValidRecord(fl, first, d), DoneWith(fl, first, c, d, given)
    PROVE  DoneWith(gl, gfirst, c, d, more)
<1>1. Valid(fl, first, d) /\ RecordIn(fl, d) /\ Grown(fl, gl)
    BY DEF ValidRecord, Extends
<1>2. RecordIn(gl, d) /\ EntryIn(gl, d) = EntryIn(fl, d)
    BY <1>1, GrownKeeps
<1>3. DoneBefore(fl, first, c, d, given) /\ EntryIn(fl, d) \in given
    BY DEF DoneWith
<1>4. DoneBefore(gl, gfirst, c, d, more)
    BY <1>1, <1>3, DoneStays
<1>5. QED
    BY <1>2, <1>3, <1>4 DEF DoneWith

LEMMA PeerDoneStays ==
    ASSUME NEW fl \in [Hours -> Seq(Cell)], NEW gl \in [Hours -> Seq(Cell)],
           NEW first, NEW gfirst, GoodFiles(fl, first), Extends(fl, first, gl, gfirst),
           NEW c, NEW given, NEW more, given \subseteq more,
           NEW p \in Peer, CursorsIn(fl, first, p), PeerDone(fl, first, c, p, given)
    PROVE  PeerDone(gl, gfirst, c, p, more)
<1>1. /\ p.currentCursor \in Positions /\ p.consumeCursor \in Positions
      /\ p.advanceCursor \in Positions
    BY CursorIsPosition DEF Peer
<1>2. p.currentCursor # NoCursor => DoneWith(gl, gfirst, c, p.currentCursor, more)
    BY <1>1, DoneWithStays DEF CursorsIn, PeerDone
<1>3. p.consumeCursor # NoCursor => DoneWith(gl, gfirst, c, p.consumeCursor, more)
    BY <1>1, DoneWithStays DEF CursorsIn, PeerDone
<1>4. p.advanceCursor # NoCursor => DoneBefore(gl, gfirst, c, p.advanceCursor, more)
    BY <1>1, DoneStays DEF CursorsIn, PeerDone
<1>5. QED
    BY <1>2, <1>3, <1>4 DEF PeerDone

LEMMA ScanDoneStays ==
    ASSUME NEW fl \in [Hours -> Seq(Cell)], NEW gl \in [Hours -> Seq(Cell)],
           NEW first, NEW gfirst, GoodFiles(fl, first), Extends(fl, first, gl, gfirst),
           NEW given, NEW more, given \subseteq more, NEW l,
           NEW q \in Request, ScanIn(fl, first, q), l = "found" => RecordIn(fl, q.at),
           ScanDone(fl, first, l, q, given)
    PROVE  ScanDone(gl, gfirst, l, q, more)
<1>1. q.at \in Positions /\ q.from \in Positions
    BY CursorIsPosition DEF Request
<1>2. /\ Valid(fl, first, q.from) /\ Valid(fl, first, q.at)
      /\ q.after => ValidRecord(fl, first, q.from)
    BY DEF ScanIn, ValidRecord
<1>3. DoneBefore(gl, gfirst, q.consumer, q.from, more)
    BY <1>1, <1>2, DoneStays DEF ScanDone
<1>4. q.after => DoneWith(gl, gfirst, q.consumer, q.from, more)
    BY <1>1, <1>2, DoneWithStays DEF ScanDone
<1>5. q.reissue => /\ q.at = q.from /\ ~q.skip_first_entry
                   /\ ValidRecord(fl, first, q.at)
                   /\ DoneWith(fl, first, q.consumer, q.at, given)
    BY DEF ScanDone
<1>6. q.reissue => DoneWith(gl, gfirst, q.consumer, q.at, more)
    BY <1>1, <1>5, DoneWithStays
<1>7. q.reissue => ValidRecord(gl, gfirst, q.at)
    BY <1>1, <1>5, ValidStays
<1>8. l = "found" => EntryIn(gl, q.at) = EntryIn(fl, q.at)
    <2>1. Grown(fl, gl)
        BY DEF Extends
    <2>2. ASSUME RecordIn(fl, q.at)
          PROVE  RecordIn(gl, q.at) /\ EntryIn(gl, q.at) = EntryIn(fl, q.at)
        BY <1>1, <2>1, <2>2, GrownKeeps
    <2>3. QED
        BY <2>2
<1>9. l = "found" /\ ~q.reissue => EntryIn(gl, q.at) \in Applicable[q.consumer]
    BY <1>8 DEF ScanDone
<1>10. QED
    BY <1>3, <1>4, <1>5, <1>6, <1>7, <1>9 DEF ScanDone

LEMMA ReaderDoneStays ==
    ASSUME NEW fl \in [Hours -> Seq(Cell)], NEW gl \in [Hours -> Seq(Cell)],
           NEW first, NEW gfirst, GoodFiles(fl, first), Extends(fl, first, gl, gfirst),
           NEW given, NEW more, given \subseteq more, NEW l,
           NEW q \in Request, ReaderIn(fl, first, l, q), l = "found" => RecordIn(fl, q.at),
           ReaderDone(fl, first, l, q, given)
    PROVE  ReaderDone(gl, gfirst, l, q, more)
<1>1. q.peer \in Peer
    BY DEF Request
<1>2. l # "idle" => PeerDone(gl, gfirst, q.consumer, q.peer, more)
    BY <1>1, PeerDoneStays DEF ReaderIn, ReaderDone
<1>3. l \in Scanning /\ q.option = "get_next_for_consumer" => ScanDone(gl, gfirst, l, q, more)
    BY ScanDoneStays DEF ReaderIn, ReaderDone
<1>4. QED
    BY <1>2, <1>3 DEF ReaderDone

(* Nothing that the consumer wants is missing before the place of a scan. *)
LEMMA DoneUpToScan ==
    ASSUME NEW fl, NEW first, NEW l, NEW given, NEW q \in Request,
           ScanIn(fl, first, q), ScanDone(fl, first, l, q, given)
    PROVE  DoneBefore(fl, first, q.consumer, q.at, given)
<1>1. q.at \in Positions /\ q.from \in Positions
    BY CursorIsPosition DEF Request
<1>2. CASE q.reissue
    BY <1>2 DEF ScanDone, DoneWith
<1>3. CASE ~q.reissue
    <2>1. SUFFICES ASSUME NEW b \in Positions, ValidRecord(fl, first, b), Before(b, q.at),
                          EntryIn(fl, b) \in Applicable[q.consumer]
                   PROVE  EntryIn(fl, b) \in given
        BY DEF DoneBefore
    <2>2. CASE Before(b, q.from)
        BY <2>1, <2>2 DEF ScanDone, DoneBefore
    <2>3. CASE UpTo(q.from, b)
        <3>1. Wanted(q, EntryIn(fl, b))
            BY <2>1 DEF Wanted
        <3>2. b = q.from /\ q.after
            BY <2>1, <2>3, <3>1 DEF ScanIn
        <3>3. QED
            BY <3>2 DEF ScanDone, DoneWith
    <2>4. QED
        BY <1>1, <2>2, <2>3, BeforeIsOrder DEF UpTo
<1>4. QED
    BY <1>2, <1>3

LEMMA NothingGiven ==
    ASSUME NEW fl, NEW first, NEW c, NEW given
    PROVE  PeerDone(fl, first, c, NoPeer, given)
BY DEF PeerDone, NoPeer

(* What a requester finds of that. *)
LEMMA GivenHas ==
    ASSUME TypeInv, GivenInv, NEW r \in Requesters
    PROVE  /\ delivered \in [Consumers -> SUBSET Entries]
           /\ rpc[r] # "idle" =>
                  PeerDone(file, first_path, request[r].consumer, request[r].peer,
                           delivered[request[r].consumer])
           /\ rpc[r] \in Scanning /\ request[r].option = "get_next_for_consumer" =>
                  ScanDone(file, first_path, rpc[r], request[r], delivered[request[r].consumer])
           /\ \A c \in Consumers : PeerDone(file, first_path, c, peer[c], delivered[c])
BY DEF TypeInv, TypeOK, GivenInv, ReaderDone

(* What a step of requester r makes of it. *)
GivenOn(r) ==
    /\ ReaderDone(file, first_path, rpc'[r], request'[r], delivered'[request'[r].consumer])
    /\ \A c \in Consumers : PeerDone(file, first_path, c, peer'[c], delivered'[c])
    /\ \A c \in Consumers : delivered[c] \subseteq delivered'[c]

(* The options of get_entry: what is done before the cursor where each
   begins. *)
LEMMA StartGivenOn ==
    ASSUME TypeInv, GivenInv, NEW r \in Requesters, NEW q \in Request, Start(r, q),
           PeerDone(file, first_path, q.consumer, q.peer, delivered[q.consumer]),
           q.option = "get_next_for_consumer" =>
               ScanDone(file, first_path, "scan", Started(q), delivered[q.consumer])
    PROVE  GivenOn(r)
<1>1. /\ rpc'[r] = "scan" /\ request'[r] = Started(q) /\ peer' = peer /\ delivered' = delivered
    BY DEF Start, TypeInv, TypeOK, Started
<1> DEFINE s == Started(q)
<1>2. s.consumer = q.consumer /\ s.peer = q.peer /\ s.option = q.option
    BY DEF Started, Request
<1> HIDE DEF s
<1>3. request'[r] = s
    BY <1>1 DEF s
<1>4. s.option = "get_next_for_consumer" =>
          ScanDone(file, first_path, "scan", s, delivered[s.consumer])
    BY <1>2 DEF s
<1>5. ReaderDone(file, first_path, "scan", s, delivered[s.consumer])
    BY <1>2, <1>4 DEF ReaderDone
<1>6. QED
    BY <1>1, <1>3, <1>5, GivenHas DEF GivenOn

(* A scan that is started finds done what its beginning says. *)
LEMMA StartedDone ==
    ASSUME NEW fl, NEW first, NEW given, NEW q \in Request,
           DoneBefore(fl, first, q.consumer, q.at, given),
           q.skip_first_entry => DoneWith(fl, first, q.consumer, q.at, given),
           q.reissue => /\ ~q.skip_first_entry /\ ValidRecord(fl, first, q.at)
                        /\ DoneWith(fl, first, q.consumer, q.at, given)
    PROVE  ScanDone(fl, first, "scan", Started(q), given)
<1> DEFINE s == Started(q)
<1>1. /\ s.from = q.at /\ s.at = q.at /\ s.after = q.skip_first_entry
      /\ s.skip_first_entry = q.skip_first_entry /\ s.consumer = q.consumer
      /\ s.reissue = q.reissue
    BY DEF Started, Request
<1> HIDE DEF s
<1>2. QED
    BY <1>1 DEF ScanDone, s

LEMMA FirstGivenOn ==
    ASSUME TypeInv, JournalInv, ScansInv, GivenInv, NEW r \in Requesters, NEW q \in Request,
           first_path # NoHour, ~q.skip_first_entry, ~q.reissue,
           PeerDone(file, first_path, q.consumer, q.peer, delivered[q.consumer]),
           Start(r, FromFirst(q))
    PROVE  GivenOn(r)
<1>1. /\ file \in [Hours -> Seq(Cell)] /\ GoodFiles(file, first_path)
      /\ first_path \in Hours
    BY ReaderHas
<1> DEFINE s == FromFirst(q)
<1>2. s \in Request
    BY FromFirstIsTyped DEF TypeInv
<1>3. /\ s.at = First(first_path) /\ s.peer = q.peer /\ s.consumer = q.consumer
      /\ s.skip_first_entry = q.skip_first_entry /\ s.reissue = q.reissue
    BY DEF FromFirst, First, Request
<1> HIDE DEF s
<1>4. /\ First(first_path) \in Positions
      /\ \A c \in Positions : Valid(file, first_path, c) => UpTo(First(first_path), c)
    BY <1>1, FirstIsValid
<1>5. DoneBefore(file, first_path, s.consumer, s.at, delivered[s.consumer])
    <2>1. SUFFICES ASSUME NEW b \in Positions, Valid(file, first_path, b),
                          Before(b, First(first_path))
                   PROVE  FALSE
        BY <1>3 DEF DoneBefore, ValidRecord
    <2>2. QED
        BY <1>4, <2>1, BeforeIsOrder
<1>6. ScanDone(file, first_path, "scan", Started(s), delivered[s.consumer])
    BY <1>2, <1>3, <1>5, StartedDone
<1>7. Start(r, s)
    BY DEF s
<1>8. PeerDone(file, first_path, s.consumer, s.peer, delivered[s.consumer])
    BY <1>3
<1>9. QED
    BY <1>2, <1>6, <1>7, <1>8, StartGivenOn

LEMMA GetFirstGivenOn ==
    ASSUME TypeInv, JournalInv, ScansInv, GivenInv, NEW r \in Requesters, GetFirst(r)
    PROVE  GivenOn(r)
<1> DEFINE q == [NoRequest EXCEPT !.option = "get_first"]
<1>1. first_path # NoHour /\ Start(r, FromFirst(q))
    BY DEF GetFirst
<1>2. q \in Request
    BY NoRequestIsRequest DEF Request, Option
<1>3. q.peer = NoPeer /\ ~q.skip_first_entry /\ ~q.reissue
    BY DEF NoRequest
<1> HIDE DEF q
<1>4. PeerDone(file, first_path, q.consumer, q.peer, delivered[q.consumer])
    BY <1>3, NothingGiven
<1>5. QED
    BY <1>1, <1>2, <1>3, <1>4, FirstGivenOn

LEMMA GetAtGivenOn ==
    ASSUME TypeInv, JournalInv, ScansInv, GivenInv, NEW r \in Requesters,
           \/ GetByCursor(r) \/ GetNextAfterCursor(r) \/ GetNextForConsumerAfterCursor(r)
    PROVE  GivenOn(r)
<1>1. PICK q \in Request :
          /\ Start(r, q) /\ q.option # "get_next_for_consumer"
          /\ PeerDone(file, first_path, q.consumer, q.peer, delivered[q.consumer])
    <2>1. CASE GetByCursor(r)
        <3>1. PICK c \in Records :
                  Start(r, [NoRequest EXCEPT !.option = "get_by_cursor", !.at = c])
            BY <2>1 DEF GetByCursor
        <3> DEFINE q == [NoRequest EXCEPT !.option = "get_by_cursor", !.at = c]
        <3>2. c \in Cursor
            BY RecordsAreCursors DEF TypeInv
        <3>3. q \in Request /\ q.option # "get_next_for_consumer" /\ q.peer = NoPeer
            BY <3>2, NoRequestIsRequest DEF Request, Option, NoRequest
        <3>4. QED
            BY <3>1, <3>3, NothingGiven
    <2>2. CASE GetNextAfterCursor(r)
        <3>1. PICK c \in Records :
                  Start(r, [NoRequest EXCEPT !.option = "get_next_after_cursor",
                                   !.at = c, !.skip_first_entry = TRUE])
            BY <2>2 DEF GetNextAfterCursor
        <3> DEFINE q == [NoRequest EXCEPT !.option = "get_next_after_cursor",
                                   !.at = c, !.skip_first_entry = TRUE]
        <3>2. c \in Cursor
            BY RecordsAreCursors DEF TypeInv
        <3>3. q \in Request /\ q.option # "get_next_for_consumer" /\ q.peer = NoPeer
            BY <3>2, NoRequestIsRequest DEF Request, Option, NoRequest
        <3>4. QED
            BY <3>1, <3>3, NothingGiven
    <2>3. CASE GetNextForConsumerAfterCursor(r)
        <3>1. PICK p \in Consumers, c \in Records :
              Start(r, [NoRequest EXCEPT
                     !.option = "get_next_for_consumer_after_cursor",
                     !.consumer = p, !.peer = peer[p],
                     !.at = c, !.skip_first_entry = TRUE])
            BY <2>3 DEF GetNextForConsumerAfterCursor
        <3> DEFINE q == [NoRequest EXCEPT
                     !.option = "get_next_for_consumer_after_cursor",
                     !.consumer = p, !.peer = peer[p],
                     !.at = c, !.skip_first_entry = TRUE]
        <3>2. c \in Cursor /\ peer[p] \in Peer
            BY RecordsAreCursors DEF TypeInv, TypeOK
        <3>3. /\ q \in Request /\ q.option # "get_next_for_consumer"
              /\ q.peer = peer[p] /\ q.consumer = p
            BY <3>2, NoRequestIsRequest DEF Request, Option, NoRequest
        <3>4. PeerDone(file, first_path, p, peer[p], delivered[p])
            BY DEF GivenInv
        <3>5. QED
            BY <3>1, <3>3, <3>4
    <2>4. QED
        BY <2>1, <2>2, <2>3
<1>2. QED
    BY <1>1, StartGivenOn

LEMMA GetNextGivenOn ==
    ASSUME TypeInv, JournalInv, ScansInv, GivenInv, NEW r \in Requesters, GetNextForConsumer(r)
    PROVE  GivenOn(r)
<1>1. PICK c \in Consumers :
          /\ peer[c] = NoPeer => first_path # NoHour
          /\ Start(r, FromConsumerCursors(peer[c],
                         [NoRequest EXCEPT !.option = "get_next_for_consumer",
                                           !.consumer = c, !.peer = peer[c]]))
    BY DEF GetNextForConsumer
<1> DEFINE p == peer[c]
           given == delivered[c]
           q == [NoRequest EXCEPT !.option = "get_next_for_consumer",
                                  !.consumer = c, !.peer = peer[c]]
           s == FromConsumerCursors(p, q)
<1>2. p \in Peer /\ CursorsIn(file, first_path, p)
    BY ReaderHas
<1>3. PeerDone(file, first_path, c, p, given)
    BY DEF GivenInv
<1>4. /\ q \in Request /\ q.peer = p /\ q.consumer = c
      /\ q.skip_first_entry = FALSE /\ q.reissue = FALSE
    BY <1>2, NoRequestIsRequest DEF Request, Option, NoRequest
<1>5. Start(r, s) /\ (p = NoPeer => first_path # NoHour)
    BY <1>1
<1>6. s \in Request
    BY <1>2, <1>4, FromConsumerCursorsIsTyped DEF TypeInv
<1> HIDE DEF p, q, s, given
<1>7. ASSUME s.peer = p, s.consumer = c,
             ScanDone(file, first_path, "scan", Started(s), given)
      PROVE  GivenOn(r)
    BY <1>3, <1>5, <1>6, <1>7, StartGivenOn DEF given
<1>8. CASE p.consumeCursor # NoCursor
    <2>1. s = [q EXCEPT !.at = p.consumeCursor, !.reissue = TRUE]
        BY <1>8 DEF FromConsumerCursors, s
    <2>2. /\ s.at = p.consumeCursor /\ s.peer = p /\ s.consumer = c
          /\ ~s.skip_first_entry
        BY <1>4, <2>1 DEF Request
    <2>3. /\ ValidRecord(file, first_path, p.consumeCursor)
          /\ DoneWith(file, first_path, c, p.consumeCursor, given)
        BY <1>2, <1>3, <1>8 DEF CursorsIn, PeerDone
    <2>4. DoneBefore(file, first_path, c, p.consumeCursor, given)
        BY <2>3 DEF DoneWith
    <2>5. ScanDone(file, first_path, "scan", Started(s), given)
        BY <1>6, <2>2, <2>3, <2>4, StartedDone
    <2>6. QED
        BY <1>7, <2>2, <2>5
<1>9. CASE p.consumeCursor = NoCursor /\ p.advanceCursor # NoCursor
    <2>1. s = [q EXCEPT !.at = p.advanceCursor]
        BY <1>9 DEF FromConsumerCursors, s
    <2>2. /\ s.at = p.advanceCursor /\ s.peer = p /\ s.consumer = c
          /\ ~s.skip_first_entry /\ ~s.reissue
        BY <1>4, <2>1 DEF Request
    <2>3. DoneBefore(file, first_path, c, p.advanceCursor, given)
        BY <1>3, <1>9 DEF PeerDone
    <2>4. ScanDone(file, first_path, "scan", Started(s), given)
        BY <1>6, <2>2, <2>3, StartedDone
    <2>5. QED
        BY <1>7, <2>2, <2>4
<1>10. CASE p.consumeCursor = NoCursor /\ p.advanceCursor = NoCursor /\ p.currentCursor # NoCursor
    <2>1. s = [q EXCEPT !.at = p.currentCursor, !.skip_first_entry = TRUE]
        BY <1>10 DEF FromConsumerCursors, s
    <2>2. /\ s.at = p.currentCursor /\ s.peer = p /\ s.consumer = c /\ ~s.reissue
        BY <1>4, <2>1 DEF Request
    <2>3. DoneWith(file, first_path, c, p.currentCursor, given)
        BY <1>3, <1>10 DEF PeerDone
    <2>4. DoneBefore(file, first_path, c, p.currentCursor, given)
        BY <2>3 DEF DoneWith
    <2>5. ScanDone(file, first_path, "scan", Started(s), given)
        BY <1>6, <2>2, <2>3, <2>4, StartedDone
    <2>6. QED
        BY <1>7, <2>2, <2>5
<1>11. CASE p.consumeCursor = NoCursor /\ p.advanceCursor = NoCursor /\ p.currentCursor = NoCursor
    <2>1. p = NoPeer
        BY <1>2, <1>11 DEF Peer, NoPeer
    <2>2. s = FromFirst(q)
        BY <1>11 DEF FromConsumerCursors, s
    <2>3. Start(r, FromFirst(q)) /\ first_path # NoHour
        BY <1>5, <2>1, <2>2
    <2>4. PeerDone(file, first_path, q.consumer, q.peer, delivered[q.consumer])
        BY <1>3, <1>4 DEF given
    <2>5. QED
        BY <1>4, <2>3, <2>4, FirstGivenOn
<1>12. QED
    BY <1>8, <1>9, <1>10, <1>11

(* The loop of get_entry: a scan for a consumer leaves an entry behind only
   when its filter does not admit it. *)
LEMMA LoopGivenOn ==
    ASSUME TypeInv, JournalInv, ScansInv, GivenInv, NEW r \in Requesters,
           \/ FindEntry(r) \/ PassEntry(r) \/ FollowLink(r) \/ FindEof(r) \/ ScanThrows(r)
    PROVE  GivenOn(r)
<1> DEFINE q == request[r]
           given == delivered[q.consumer]
<1>0. /\ q \in Request /\ q.at \in Positions
      /\ \A c \in Consumers : PeerDone(file, first_path, c, peer[c], delivered[c])
    BY ReaderHas, GivenHas, FoundIsTyped DEF TypeInv
<1>1. rpc[r] = "scan" =>
          /\ PeerDone(file, first_path, q.consumer, q.peer, given)
          /\ q.option = "get_next_for_consumer" => ScanDone(file, first_path, "scan", q, given)
    BY GivenHas DEF Scanning
<1> HIDE DEF given
<1>2. CASE FindEntry(r)
    <2>1. Scan(r, "found", q) /\ Wanted(q, EntryIn(file, q.at))
        BY <1>2, ReadersSee DEF FindEntry
    <2>2. /\ rpc[r] = "scan" /\ rpc'[r] = "found" /\ request'[r] = q
          /\ peer' = peer /\ delivered' = delivered
        BY <2>1, ScanIs
    <2>3. q.option = "get_next_for_consumer" => ScanDone(file, first_path, "found", q, given)
        BY <1>1, <2>1, <2>2 DEF ScanDone, Wanted, ForConsumer
    <2>4. ReaderDone(file, first_path, "found", q, given)
        BY <1>1, <2>2, <2>3 DEF ReaderDone
    <2>5. QED
        BY <1>0, <2>2, <2>4 DEF GivenOn, given
<1>3. CASE FindEof(r)
    <2>1. Scan(r, "nothing", q)
        BY <1>3 DEF FindEof
    <2>2. /\ rpc[r] = "scan" /\ rpc'[r] = "nothing" /\ request'[r] = q
          /\ peer' = peer /\ delivered' = delivered
        BY <2>1, ScanIs
    <2>3. q.option = "get_next_for_consumer" => ScanDone(file, first_path, "nothing", q, given)
        BY <1>1, <2>2 DEF ScanDone
    <2>4. ReaderDone(file, first_path, "nothing", q, given)
        BY <1>1, <2>2, <2>3 DEF ReaderDone
    <2>5. QED
        BY <1>0, <2>2, <2>4 DEF GivenOn, given
<1>4. CASE PassEntry(r)
    <2> DEFINE s == Passed(q)
    <2>1. /\ Scan(r, "scan", s)
          /\ q.skip_first_entry \/ ~Wanted(q, EntryIn(file, q.at))
          /\ RecordIn(file, q.at)
        BY <1>4, ReadersSee DEF PassEntry
    <2>2. /\ rpc[r] = "scan" /\ rpc'[r] = "scan" /\ request'[r] = s
          /\ peer' = peer /\ delivered' = delivered
        BY <2>1, ScanIs
    <2>3. /\ s.from = q.from /\ s.after = q.after /\ s.option = q.option
          /\ s.reissue = q.reissue /\ s.consumer = q.consumer /\ s.peer = q.peer
        BY <1>0 DEF Passed, Request
    <2> HIDE DEF s
    <2>4. ASSUME q.option = "get_next_for_consumer"
          PROVE  ScanDone(file, first_path, "scan", s, given)
        <3>1. ScanDone(file, first_path, "scan", q, given)
            BY <1>1, <2>2, <2>4
        <3>2. ~q.reissue
            BY <2>1, <3>1 DEF ScanDone, Wanted
        <3>3. QED
            BY <2>3, <3>1, <3>2 DEF ScanDone
    <2>5. ReaderDone(file, first_path, "scan", s, given)
        BY <1>1, <2>2, <2>3, <2>4 DEF ReaderDone
    <2>6. QED
        BY <1>0, <2>2, <2>3, <2>5 DEF GivenOn, given
<1>5. CASE FollowLink(r)
    <2> DEFINE s == [q EXCEPT !.at = LinkAt(q.at), !.unterminated = FALSE]
    <2>1. Scan(r, "scan", s) /\ LinkIn(file, q.at)
        BY <1>5, ReadersSee DEF FollowLink
    <2>2. /\ rpc[r] = "scan" /\ rpc'[r] = "scan" /\ request'[r] = s
          /\ peer' = peer /\ delivered' = delivered
        BY <2>1, ScanIs
    <2>3. /\ s.from = q.from /\ s.after = q.after /\ s.option = q.option
          /\ s.reissue = q.reissue /\ s.consumer = q.consumer /\ s.peer = q.peer
        BY <1>0 DEF Request
    <2> HIDE DEF s
    <2>4. ASSUME q.option = "get_next_for_consumer"
          PROVE  ScanDone(file, first_path, "scan", s, given)
        <3>1. ScanDone(file, first_path, "scan", q, given)
            BY <1>1, <2>2, <2>4
        <3>2. ~RecordIn(file, q.at)
            BY <2>1 DEF LinkIn, RecordIn, PairIn
        <3>3. ~q.reissue
            BY <3>1, <3>2 DEF ScanDone, ValidRecord
        <3>4. QED
            BY <2>3, <3>1, <3>3 DEF ScanDone
    <2>5. ReaderDone(file, first_path, "scan", s, given)
        BY <1>1, <2>2, <2>3, <2>4 DEF ReaderDone
    <2>6. QED
        BY <1>0, <2>2, <2>3, <2>5 DEF GivenOn, given
<1>6. CASE ScanThrows(r)
    <2>1. rpc'[r] = "idle" /\ peer' = peer /\ delivered' = delivered
        BY <1>6, ScanIs DEF ScanThrows
    <2>2. ReaderDone(file, first_path, rpc'[r], request'[r], delivered'[request'[r].consumer])
        BY <2>1 DEF ReaderDone, Scanning
    <2>3. QED
        BY <1>0, <2>1, <2>2 DEF GivenOn
<1>7. QED
    BY <1>2, <1>3, <1>4, <1>5, <1>6

(* The cursors that an answer writes. *)
LEMMA PeerAfterIsDone ==
    ASSUME NEW fl, NEW first, NEW l \in {"found", "nothing"}, NEW given, NEW more,
           NEW q \in Request, ScanIn(fl, first, q),
           PeerDone(fl, first, q.consumer, q.peer, more),
           q.option = "get_next_for_consumer" =>
               /\ ScanDone(fl, first, l, q, more)
               /\ l = "found" => EntryIn(fl, q.at) \in more
    PROVE  PeerDone(fl, first, q.consumer, PeerAfter(q, l = "found"), more)
<1> DEFINE found == l = "found"
<1>1. q.peer \in Peer
    BY DEF Request
<1>2. CASE q.option # "get_next_for_consumer" \/ q.reissue
    <2>1. PeerAfter(q, found) = q.peer
        BY <1>2 DEF PeerAfter
    <2>2. QED
        BY <2>1
<1>3. CASE q.option = "get_next_for_consumer" /\ ~q.reissue
    <2>1. DoneBefore(fl, first, q.consumer, q.at, more)
        BY <1>3, DoneUpToScan
    <2>2. CASE found
        <3> DEFINE p == [currentCursor |-> q.at, consumeCursor |-> q.at,
                         advanceCursor |-> NoCursor]
        <3>1. PeerAfter(q, found) = p
            BY <1>3, <2>2 DEF PeerAfter
        <3>2. p.currentCursor = q.at /\ p.consumeCursor = q.at /\ p.advanceCursor = NoCursor
            OBVIOUS
        <3>3. DoneWith(fl, first, q.consumer, q.at, more)
            BY <1>3, <2>1, <2>2 DEF DoneWith
        <3> HIDE DEF p
        <3>4. PeerDone(fl, first, q.consumer, p, more)
            BY <3>2, <3>3 DEF PeerDone
        <3>5. QED
            BY <3>1, <3>4
    <2>3. CASE ~found
        <3> DEFINE p == [q.peer EXCEPT !.advanceCursor = q.at]
        <3>1. PeerAfter(q, found) = p
            BY <1>3, <2>3 DEF PeerAfter
        <3>2. /\ p.currentCursor = q.peer.currentCursor
              /\ p.consumeCursor = q.peer.consumeCursor /\ p.advanceCursor = q.at
            BY <1>1 DEF Peer
        <3> HIDE DEF p
        <3>3. PeerDone(fl, first, q.consumer, p, more)
            BY <2>1, <3>2 DEF PeerDone
        <3>4. QED
            BY <3>1, <3>3
    <2>4. QED
        BY <2>2, <2>3
<1>4. QED
    BY <1>2, <1>3

(* The answer is written by a request that may have read the peer object
   long ago. Its cursors are old then, and still true. *)
LEMMA RespondGivenOn ==
    ASSUME TypeInv, JournalInv, ScansInv, GivenInv, NEW r \in Requesters, Respond(r)
    PROVE  GivenOn(r)
<1> DEFINE q == request[r]
           c == q.consumer
           l == rpc[r]
           given == delivered[c]
           more == delivered'[c]
<1>0. /\ file \in [Hours -> Seq(Cell)] /\ GoodFiles(file, first_path)
      /\ rpc \in [Requesters -> {"idle", "scan", "found", "nothing", "mark"}]
      /\ peer \in [Consumers -> Peer] /\ delivered \in [Consumers -> SUBSET Entries]
      /\ q \in Request /\ q.peer \in Peer /\ c \in Consumers
    BY ReaderHas, GivenHas
<1>1. /\ l \in {"found", "nothing"} /\ rpc' = [rpc EXCEPT ![r] = "idle"]
      /\ peer' = IF q.option \in ForConsumer
                 THEN [peer EXCEPT ![c] = PeerAfter(q, l = "found")]
                 ELSE peer
      /\ delivered' = IF q.option = "get_next_for_consumer" /\ l = "found"
                      THEN [delivered EXCEPT ![c] = @ \cup {EntryIn(file, q.at)}]
                      ELSE delivered
    BY ReadersSee DEF Respond
<1>2. /\ CursorsIn(file, first_path, q.peer)
      /\ ScanIn(file, first_path, q)
    BY <1>1, ReaderHas DEF Scanning
<1>3. /\ PeerDone(file, first_path, c, q.peer, given)
      /\ q.option = "get_next_for_consumer" => ScanDone(file, first_path, l, q, given)
    BY <1>1, GivenHas DEF Scanning
<1>4. l = "found" => RecordIn(file, q.at)
    BY DEF TypeInv, FoundIsRecord
<1>5. /\ \A d \in Consumers : delivered[d] \subseteq delivered'[d]
      /\ \A d \in Consumers : d # c => peer'[d] = peer[d] /\ delivered'[d] = delivered[d]
    BY <1>0, <1>1
<1>6. Extends(file, first_path, file, first_path)
    BY <1>0, ExtendsItself
<1>7. q.option = "get_next_for_consumer" /\ l = "found" => EntryIn(file, q.at) \in more
    BY <1>0, <1>1
<1>8. /\ q.option \in ForConsumer => peer'[c] = PeerAfter(q, l = "found")
      /\ q.option \notin ForConsumer => peer'[c] = peer[c] /\ more = given
    BY <1>0, <1>1 DEF ForConsumer
<1>9. given \subseteq more
    BY <1>0, <1>5
<1>10. /\ \A d \in Consumers : PeerDone(file, first_path, d, peer[d], delivered[d])
       /\ PeerDone(file, first_path, c, peer[c], given)
    BY <1>0, GivenHas
<1>11. rpc'[r] = "idle"
    BY <1>0, <1>1
<1> HIDE DEF l, given, more, c
<1>12. PeerDone(file, first_path, c, q.peer, more)
    BY <1>0, <1>2, <1>3, <1>6, <1>9, PeerDoneStays
<1>13. q.option = "get_next_for_consumer" => ScanDone(file, first_path, l, q, more)
    BY <1>0, <1>2, <1>3, <1>4, <1>6, <1>9, ScanDoneStays
<1>14. PeerDone(file, first_path, c, PeerAfter(q, l = "found"), more)
    BY <1>0, <1>1, <1>2, <1>7, <1>12, <1>13, PeerAfterIsDone DEF c
<1>15. PeerDone(file, first_path, c, peer'[c], more)
    BY <1>8, <1>10, <1>14
<1>16. \A d \in Consumers : PeerDone(file, first_path, d, peer'[d], delivered'[d])
    BY <1>5, <1>10, <1>15 DEF more
<1>17. QED
    BY <1>5, <1>11, <1>16 DEF GivenOn, ReaderDone, Scanning

LEMMA MarkGivenOn ==
    ASSUME TypeInv, JournalInv, ScansInv, GivenInv, NEW r \in Requesters,
           ReadForMark(r) \/ WriteMark(r)
    PROVE  GivenOn(r)
<1> DEFINE q == request[r]
<1>0. /\ rpc \in [Requesters -> {"idle", "scan", "found", "nothing", "mark"}]
      /\ request \in [Requesters -> Request]
      /\ peer \in [Consumers -> Peer] /\ delivered \in [Consumers -> SUBSET Entries]
      /\ q.peer \in Peer /\ q.consumer \in Consumers
      /\ \A c \in Consumers : PeerDone(file, first_path, c, peer[c], delivered[c])
      /\ delivered' = delivered
    BY ReaderHas, GivenHas DEF ReadForMark, WriteMark
<1>1. CASE ReadForMark(r)
    <2>1. PICK c \in Consumers :
              request' = [request EXCEPT ![r] =
                  [NoRequest EXCEPT !.option = "mark_entry_consumed",
                                    !.consumer = c, !.peer = peer[c]]]
        BY <1>1 DEF ReadForMark
    <2>2. /\ request'[r].peer = peer[c] /\ request'[r].consumer = c
          /\ request'[r].option = "mark_entry_consumed"
          /\ rpc'[r] = "mark" /\ peer' = peer
        BY <1>0, <1>1, <2>1 DEF ReadForMark, NoRequest
    <2>3. ReaderDone(file, first_path, rpc'[r], request'[r], delivered[request'[r].consumer])
        BY <1>0, <2>2 DEF ReaderDone
    <2>4. QED
        BY <1>0, <2>2, <2>3 DEF GivenOn
<1>2. CASE WriteMark(r)
    <2> DEFINE p == [q.peer EXCEPT !.consumeCursor = NoCursor]
    <2>1. /\ rpc[r] = "mark" /\ rpc'[r] = "idle"
          /\ peer' = [peer EXCEPT ![q.consumer] = p]
        BY <1>0, <1>2 DEF WriteMark
    <2>2. PeerDone(file, first_path, q.consumer, q.peer, delivered[q.consumer])
        BY <2>1, GivenHas
    <2>3. PeerDone(file, first_path, q.consumer, p, delivered[q.consumer])
        BY <1>0, <2>2 DEF PeerDone, Peer
    <2> HIDE DEF p
    <2>4. \A c \in Consumers : PeerDone(file, first_path, c, peer'[c], delivered[c])
        BY <1>0, <2>1, <2>3
    <2>5. QED
        BY <1>0, <2>1, <2>4 DEF GivenOn, ReaderDone, Scanning
<1>3. QED
    BY <1>1, <1>2

LEMMA RequestGivenOn ==
    ASSUME TypeInv, JournalInv, ScansInv, GivenInv, NEW r \in Requesters, Requests(r)
    PROVE  GivenOn(r)
<1>1. \/ GetFirst(r)
      \/ GetByCursor(r) \/ GetNextAfterCursor(r) \/ GetNextForConsumerAfterCursor(r)
      \/ GetNextForConsumer(r)
      \/ FindEntry(r) \/ PassEntry(r) \/ FollowLink(r) \/ FindEof(r) \/ ScanThrows(r)
      \/ Respond(r)
      \/ ReadForMark(r) \/ WriteMark(r)
    BY DEF Requests
<1>2. QED
    BY <1>1, GetFirstGivenOn, GetAtGivenOn, GetNextGivenOn, LoopGivenOn, RespondGivenOn,
       MarkGivenOn

LEMMA GivenStep ==
    ASSUME OneAdd, TypeInv, TypeInv', JournalInv, ScansInv, GivenInv, [Next]_vars
    PROVE  GivenInv'
<1>1. /\ file \in [Hours -> Seq(Cell)] /\ file' \in [Hours -> Seq(Cell)]
      /\ peer \in [Consumers -> Peer] /\ request \in [Requesters -> Request]
      /\ GoodFiles(file, first_path)
      /\ \A r \in Requesters : rpc[r] = "found" => RecordIn(file, request[r].at)
      /\ \A r \in Requesters : request[r].consumer \in Consumers
    BY DEF TypeInv, TypeOK, FoundIsRecord, JournalInv, Request
<1>2. CASE NoRequestSteps
    <2>1. Extends(file, first_path, file', first_path')
        BY JournalStep DEF GoesWell
    <2>2. \A c \in Consumers : PeerDone(file', first_path', c, peer[c], delivered[c])
        BY <1>1, <2>1, PeerDoneStays DEF GivenInv, ScansInv
    <2>3. ASSUME NEW r \in Requesters
          PROVE  ReaderDone(file', first_path', rpc[r], request[r], delivered[request[r].consumer])
        <3> DEFINE l == rpc[r]
                   q == request[r]
                   given == delivered[q.consumer]
        <3>1. /\ ReaderIn(file, first_path, l, q)
              /\ ReaderDone(file, first_path, l, q, given)
            BY DEF GivenInv, ScansInv
        <3>2. q \in Request /\ (l = "found" => RecordIn(file, q.at))
            BY <1>1
        <3>3. /\ file \in [Hours -> Seq(Cell)] /\ file' \in [Hours -> Seq(Cell)]
              /\ GoodFiles(file, first_path)
            BY <1>1
        <3> HIDE DEF l, q, given
        <3>4. ReaderDone(file', first_path', l, q, given)
            BY ONLY <2>1, <3>1, <3>2, <3>3, ReaderDoneStays
        <3>5. QED
            BY <3>4 DEF l, q, given
    <2>4. QED
        BY <1>2, <2>2, <2>3 DEF GivenInv, NoRequestSteps
<1>3. ASSUME NEW r \in Requesters, Requests(r) PROVE GivenInv'
    <2>1. file' = file /\ first_path' = first_path
        BY <1>3, RequestLeaves DEF JournalUnchanged
    <2>2. GivenOn(r)
        BY <1>3, RequestGivenOn
    <2>3. \A s \in Requesters : s # r => rpc'[s] = rpc[s] /\ request'[s] = request[s]
        BY <1>3, OthersStay DEF TypeInv
    <2>4. Extends(file, first_path, file, first_path)
        BY <1>1, ExtendsItself
    <2>5. ASSUME NEW s \in Requesters
          PROVE  ReaderDone(file, first_path, rpc[s], request[s], delivered'[request[s].consumer])
        <3> DEFINE l == rpc[s]
                   q == request[s]
                   given == delivered[q.consumer]
                   more == delivered'[q.consumer]
        <3>1. given \subseteq more
            BY <1>1, <2>2 DEF GivenOn
        <3>2. /\ ReaderIn(file, first_path, l, q)
              /\ ReaderDone(file, first_path, l, q, given)
            BY DEF GivenInv, ScansInv
        <3>3. q \in Request /\ (l = "found" => RecordIn(file, q.at))
            BY <1>1
        <3>4. file \in [Hours -> Seq(Cell)] /\ GoodFiles(file, first_path)
            BY <1>1
        <3> HIDE DEF l, q, given, more
        <3>5. ReaderDone(file, first_path, l, q, more)
            BY ONLY <2>4, <3>1, <3>2, <3>3, <3>4, ReaderDoneStays
        <3>6. QED
            BY <3>5 DEF l, q, more
    <2>6. \A s \in Requesters :
              ReaderDone(file, first_path, rpc'[s], request'[s], delivered'[request'[s].consumer])
        <3>1. TAKE s \in Requesters
        <3>2. CASE s = r
            BY <2>2, <3>2 DEF GivenOn
        <3>3. CASE s # r
            BY <2>3, <2>5, <3>3
        <3>4. QED
            BY <3>2, <3>3
    <2>7. \A c \in Consumers : PeerDone(file, first_path, c, peer'[c], delivered'[c])
        BY <2>2 DEF GivenOn
    <2>8. QED
        BY <2>1, <2>6, <2>7 DEF GivenInv
<1>4. QED
    BY <1>2, <1>3, RequestOrNot

LEMMA GivenBegins ==
    ASSUME Init
    PROVE  GivenInv
<1>1. /\ \A c \in Consumers : peer[c] = NoPeer
      /\ \A r \in Requesters : rpc[r] = "idle"
    BY DEF Init
<1>2. QED
    BY <1>1, NothingGiven DEF GivenInv, ReaderDone, Scanning

FileJournalInv == TypeInv /\ JournalInv /\ ScansInv /\ GivenInv

(* Whatever requests overlap and write the peer object as they read it, no
   cursor of a consumer has an entry before it that the consumer still has to
   be given. *)
THEOREM GivenInvariant == OneAdd /\ Spec => []FileJournalInv
<1> SUFFICES ASSUME OneAdd PROVE Spec => []FileJournalInv
    OBVIOUS
<1>1. Init => GivenInv
    BY GivenBegins
<1>2. TypeInv /\ TypeInv' /\ JournalInv /\ ScansInv /\ GivenInv /\ [Next]_vars => GivenInv'
    BY GivenStep
<1>3. Spec => [](TypeInv /\ JournalInv /\ ScansInv)
    BY ScansInvariant
<1>4. TypeInv /\ JournalInv /\ ScansInv /\ GivenInv <=> FileJournalInv
    BY DEF FileJournalInv
<1>5. QED
    BY <1>1, <1>2, <1>3, <1>4, PTL DEF Spec

-----------------------------------------------------------------------------
(* The journal of files implements the journal of the interface *)

LEMMA PrefixOfEachOther ==
    ASSUME NEW s \in Seq(Entries), NEW t \in Seq(Entries), IsPrefixOf(s, t),
           Len(t) <= Len(s)
    PROVE  s = t
<1>1. Len(s) \in Nat /\ Len(t) \in Nat
    BY LenProperties
<1>2. Len(s) = Len(t) /\ \A k \in 1..Len(s) : s[k] = t[k]
    BY <1>1 DEF IsPrefixOf
<1>3. QED
    BY <1>2, SeqEqual

(* The log is a function of the files and of the first path. *)
LEMMA LogStays ==
    ASSUME file \in [Hours -> Seq(Cell)], first_path \in Hours \cup {NoHour},
           file' = file, first_path' = first_path
    PROVE  Log' = Log
<1>1. CASE first_path = NoHour
    BY <1>1, NothingIsRead
<1>2. CASE first_path \in Hours
    <2>1. PICK f : IsWalk(file, EntryItem(file), f, Bound) /\ Log = f[Bound][First(first_path)]
        <3>1. first_path # NoHour
            BY <1>2, NumbersOfHours
        <3>2. QED
            BY <3>1, LogUnfolds
    <2>2. PICK g : IsWalk(file', EntryItem(file'), g, Bound) /\ Log' = g[Bound][First(first_path')]
        <3>1. first_path' # NoHour
            BY <1>2, NumbersOfHours
        <3>2. QED
            BY <3>1, LogUnfoldsNext
    <2>3. First(first_path) \in Positions
        BY <1>2, NumbersOfHours DEF First, Positions
    <2>4. Bound \in 0..Bound
        BY BoundIs
    <2>5. IsWalk(file, EntryItem(file), g, Bound) /\ Log' = g[Bound][First(first_path)]
        BY <2>2
    <2>6. Grown(file, file)
        BY LenProperties DEF Grown, Size
    <2>7. /\ Log \in Seq(Entries) /\ Log' \in Seq(Entries) /\ IsPrefixOf(Log, Log')
        BY <2>1, <2>3, <2>4, <2>5, <2>6, WalkOfGrown
    <2>8. IsPrefixOf(Log', Log)
        BY <2>1, <2>3, <2>4, <2>5, <2>6, WalkOfGrown
    <2>9. QED
        BY <2>7, <2>8, PrefixOfEachOther DEF IsPrefixOf
<1>3. QED
    BY <1>1, <1>2

(* The first file is chosen once. *)
LEMMA FirstPathIsChosenOnce ==
    ASSUME OneAdd, TypeInv, JournalInv, [Next]_vars, first_path # NoHour
    PROVE  first_path' = first_path
<1>1. ASSUME NEW w \in Writers, SaveFirstPath(w) PROVE FALSE
    <2>1. wpc[w] = "save_path" /\ LockInv(w) /\ AddInv(w)
        BY <1>1 DEF SaveFirstPath, JournalInv, WriterInv
    <2>2. lock = NoHour /\ wpc[w] \in Fresh
        BY <2>1 DEF AddInv, Fresh
    <2>3. QED
        BY <2>1, <2>2 DEF LockInv
<1>2. CASE Tick
    BY <1>2 DEF Tick, fileVars
<1>3. ASSUME NEW w \in Writers,
             \/ AddEntry(w) \/ ReadLock(w)
             \/ WriteLength(w) \/ WriteText(w) \/ WriteZero(w) \/ WritePath(w)
             \/ WriteLock(w) \/ AddThrows(w)
      PROVE  first_path' = first_path
    BY <1>3 DEF AddEntry, ReadLock, WriteLength, WriteText, WriteZero, WritePath, Write,
                WriteLock, AddThrows, fileVars
<1>4. ASSUME NEW r \in Requesters, Requests(r) PROVE first_path' = first_path
    BY <1>4, RequestLeaves DEF JournalUnchanged
<1>5. CASE UNCHANGED vars
    BY <1>5, NothingLeaves DEF JournalUnchanged
<1>6. QED
    BY <1>1, <1>2, <1>3, <1>4, <1>5 DEF Next, Requests

(* What the journal that was read has before it when it has grown. *)
LEMMA LogOnlyGrows ==
    ASSUME OneAdd, TypeInv, TypeInv', JournalInv, JournalInv', [Next]_vars
    PROVE  /\ Log \in Seq(Entries) /\ Log' \in Seq(Entries)
           /\ IsPrefixOf(Log, Log')
           /\ \A j, k \in 1..Len(Log') : Log'[j] = Log'[k] => j = k
<1>1. /\ file \in [Hours -> Seq(Cell)] /\ first_path \in Hours \cup {NoHour}
      /\ file' \in [Hours -> Seq(Cell)] /\ first_path' \in Hours \cup {NoHour}
      /\ GoodFiles(file', first_path')
    BY DEF TypeInv, TypeOK, JournalInv
<1>2. CASE first_path' = NoHour
    <2>1. first_path = NoHour
        BY <1>2, FirstPathIsChosenOnce
    <2>2. Log = <<>> /\ Log' = <<>>
        BY <1>2, <2>1, NothingIsRead
    <2>3. QED
        BY <2>2 DEF IsPrefixOf
<1>3. CASE first_path' \in Hours
    <2>1. IsLog(file', first_path', First(first_path'), Log')
        BY <1>1, <1>3, LogIsNext
    <2>2. /\ Log' \in Seq(Entries)
          /\ \A j, k \in 1..Len(Log') : Log'[j] = Log'[k] => j = k
        BY <2>1 DEF IsLog
    <2>3. CASE first_path = NoHour
        <3>1. Log = <<>>
            BY <2>3, NothingIsRead
        <3>2. Len(Log') \in Nat
            BY <2>2, LenProperties
        <3>3. Log \in Seq(Entries) /\ IsPrefixOf(Log, Log')
            BY <3>1, <3>2 DEF IsPrefixOf
        <3>4. QED
            BY <2>2, <3>3
    <2>4. CASE first_path \in Hours
        <3>1. first_path' = first_path
            BY <2>4, NumbersOfHours, FirstPathIsChosenOnce
        <3>2. Grown(file, file')
            BY JournalStep DEF GoesWell, Extends
        <3>3. QED
            BY <1>1, <2>2, <2>4, <3>1, <3>2, LogGrows
    <2>5. QED
        BY <1>1, <2>3, <2>4
<1>4. QED
    BY <1>1, <1>2, <1>3

(* A step that gives consumer c an entry. *)
Gives(r) ==
    /\ request[r].option = "get_next_for_consumer" /\ rpc[r] = "found"
    /\ delivered' = [delivered EXCEPT
           ![request[r].consumer] = @ \cup {EntryIn(file, request[r].at)}]

LEMMA OnlyRespondGives ==
    ASSUME [Next]_vars, delivered' # delivered
    PROVE  \E r \in Requesters : Requests(r) /\ Gives(r)
<1>1. PICK r \in Requesters : Requests(r)
    BY RequestOrNot DEF NoRequestSteps
<1>2. Respond(r)
    BY <1>1 DEF Requests, GetFirst, GetByCursor, GetNextAfterCursor, GetNextForConsumer,
           GetNextForConsumerAfterCursor, Start, FindEntry, PassEntry, FollowLink,
           FindEof, ScanThrows, Scan, ReadForMark, WriteMark
<1>3. Gives(r)
    BY <1>2, ReadersSee DEF Respond, Gives
<1>4. QED
    BY <1>1, <1>3

(* A record that is read is in the journal, behind those before it. *)
LEMMA RecordIsInLog ==
    ASSUME TypeInv, JournalInv, NEW d \in Positions, ValidRecord(file, first_path, d)
    PROVE  \E k \in 1..Len(Log) :
              /\ Log[k] = EntryIn(file, d)
              /\ \A j \in 1..(k - 1) :
                    \E b \in Positions :
                        /\ ValidRecord(file, first_path, b) /\ Before(b, d)
                        /\ EntryIn(file, b) = Log[j]
<1>1. /\ file \in [Hours -> Seq(Cell)] /\ GoodFiles(file, first_path)
      /\ first_path \in Hours \cup {NoHour}
      /\ Valid(file, first_path, d) /\ RecordIn(file, d)
    BY DEF TypeInv, TypeOK, JournalInv, ValidRecord
<1>2. first_path \in Hours
    <2>1. first_path # NoHour
        BY <1>1, ChainBegins DEF Valid, GoodFiles
    <2>2. QED
        BY <1>1, <2>1
<1>3. UpTo(First(first_path), d)
    BY <1>1, <1>2, FirstIsValid
<1>4. IsLog(file, first_path, First(first_path), Log)
    BY <1>1, <1>2, LogIs
<1>5. PICK k \in 1..Len(Log) :
          /\ Log[k] = EntryIn(file, d)
          /\ \A j \in 1..(k - 1) :
                \E b : ReadFrom(file, first_path, First(first_path), b, Log[j]) /\ Before(b, d)
    BY <1>1, <1>3, <1>4 DEF IsLog
<1>6. \A j \in 1..(k - 1) :
          \E b \in Positions :
              /\ ValidRecord(file, first_path, b) /\ Before(b, d)
              /\ EntryIn(file, b) = Log[j]
    BY <1>5 DEF ReadFrom, ValidRecord
<1>7. QED
    BY <1>5, <1>6

(* An entry that is given for the first time was not issued again, so it is
   the next one that the consumer wants. *)
LEMMA GivesDelivers ==
    ASSUME FileJournalInv, NEW r \in Requesters, Requests(r), Gives(r),
           delivered' # delivered, Log' = Log
    PROVE  \E c \in Consumers : Promised!Deliver(c)
<1> DEFINE q == request[r]
           c == q.consumer
           e == EntryIn(file, q.at)
<1>1. TypeInv /\ JournalInv /\ ScansInv /\ GivenInv
    BY DEF FileJournalInv
<1>2. /\ q \in Request /\ c \in Consumers /\ q.at \in Positions
      /\ delivered \in [Consumers -> SUBSET Entries]
      /\ q.option = "get_next_for_consumer" /\ rpc[r] = "found"
      /\ delivered' = [delivered EXCEPT ![c] = @ \cup {e}]
    BY <1>1, ReaderHas, GivenHas, FoundIsTyped DEF Gives, TypeInv
<1>3. /\ ScanIn(file, first_path, q)
      /\ ScanDone(file, first_path, "found", q, delivered[c])
      /\ RecordIn(file, q.at)
    BY <1>1, <1>2, ReaderHas, GivenHas DEF Scanning, TypeInv, FoundIsRecord
<1>4. ~q.reissue
    <2>1. ASSUME q.reissue PROVE FALSE
        <3>1. e \in delivered[c]
            BY <1>3, <2>1 DEF ScanDone, DoneWith
        <3>2. QED
            BY <1>2, <3>1
    <2>2. QED
        BY <2>1
<1>5. e \in Applicable[c]
    BY <1>3, <1>4 DEF ScanDone
<1>6. DoneBefore(file, first_path, c, q.at, delivered[c])
    BY <1>2, <1>3, DoneUpToScan
<1>7. ValidRecord(file, first_path, q.at)
    BY <1>3 DEF ScanIn, ValidRecord
<1> HIDE DEF e
<1>8. PICK k \in 1..Len(Log) :
          /\ Log[k] = e
          /\ \A j \in 1..(k - 1) :
                \E b \in Positions :
                    /\ ValidRecord(file, first_path, b) /\ Before(b, q.at)
                    /\ EntryIn(file, b) = Log[j]
    BY <1>1, <1>2, <1>7, RecordIsInLog DEF e
<1>9. \A j \in 1..(k - 1) : Log[j] \in Applicable[c] => Log[j] \in delivered[c]
    BY <1>6, <1>8 DEF DoneBefore
<1>10. Promised!Deliver(c)
    <2>1. /\ Log[k] \in Applicable[c]
          /\ delivered' = [delivered EXCEPT ![c] = @ \cup {Log[k]}]
        BY <1>2, <1>5, <1>8
    <2>2. QED
        BY <1>9, <2>1 DEF Promised!Deliver
<1>11. QED
    BY <1>2, <1>10

(* When the log is another one, it has grown at its end. *)
LEMMA GrowingAdds ==
    ASSUME OneAdd, TypeInv, TypeInv', JournalInv, JournalInv', [Next]_vars,
           delivered' = delivered, Log' # Log
    PROVE  Promised!AddToLog
<1>1. /\ Log \in Seq(Entries) /\ Log' \in Seq(Entries)
      /\ IsPrefixOf(Log, Log')
      /\ \A j, k \in 1..Len(Log') : Log'[j] = Log'[k] => j = k
    BY LogOnlyGrows
<1>2. Len(Log) \in Nat /\ Len(Log') \in Nat /\ Len(Log) <= Len(Log')
    BY <1>1, LenProperties DEF IsPrefixOf
<1>3. Len(Log) < Len(Log')
    <2>1. ASSUME Len(Log') <= Len(Log) PROVE FALSE
        BY <1>1, <2>1, PrefixOfEachOther
    <2>2. QED
        BY <1>2, <2>1
<1>4. SubSeq(Log', 1, Len(Log)) = Log
    <2> DEFINE s == SubSeq(Log', 1, Len(Log))
    <2>1. \A k \in 1..Len(Log) : Log'[k] \in Entries /\ Log'[k] = Log[k]
        BY <1>1, <1>2, ElementOfSeq DEF IsPrefixOf
    <2>2. /\ s \in Seq(Entries)
          /\ Len(s) = IF 1 <= Len(Log) THEN Len(Log) - 1 + 1 ELSE 0
          /\ \A k \in 1..(Len(Log) - 1 + 1) : s[k] = Log'[1 + k - 1]
        BY ONLY <1>2, <2>1, SubSeqProperties
    <2> HIDE DEF s
    <2>3. Len(s) = Len(Log) /\ \A k \in 1..Len(s) : s[k] = Log[k]
        BY <1>2, <2>1, <2>2
    <2>4. s = Log
        BY <1>1, <2>2, <2>3, SeqEqual
    <2>5. QED
        BY <2>4 DEF s
<1>5. QED
    BY <1>1, <1>3, <1>4 DEF Promised!AddToLog

(* Every step of the files is one of the log, or changes nothing there. *)
LEMMA StepIsPromised ==
    ASSUME OneAdd, FileJournalInv, FileJournalInv', [Next]_vars
    PROVE  [Promised!JournalNext]_<<Log, delivered>>
<1>1. TypeInv /\ TypeInv' /\ JournalInv /\ JournalInv'
    BY DEF FileJournalInv
<1>2. CASE delivered' = delivered
    <2>1. Log' # Log => Promised!AddToLog
        BY <1>1, <1>2, GrowingAdds
    <2>2. QED
        BY <1>2, <2>1 DEF Promised!JournalNext
<1>3. CASE delivered' # delivered
    <2>1. PICK r \in Requesters : Requests(r) /\ Gives(r)
        BY <1>3, OnlyRespondGives
    <2>2. file' = file /\ first_path' = first_path
        BY <2>1, RequestLeaves DEF JournalUnchanged
    <2>3. Log' = Log
        BY <1>1, <2>2, LogStays DEF TypeInv, TypeOK
    <2>4. QED
        BY <1>3, <2>1, <2>3, GivesDelivers DEF Promised!JournalNext
<1>4. QED
    BY <1>2, <1>3

(* The journal of files does what the interface of the journal promises: it
   only grows at its end, and a consumer is given an entry only when it has been
   given those before it that its filter lets through. *)
THEOREM ImplementsJournal == OneAdd /\ Spec => JournalSpec
<1> SUFFICES ASSUME OneAdd PROVE Spec => JournalSpec
    OBVIOUS
<1>1. Init => Promised!JournalInit
    BY NothingIsRead DEF Init, Promised!JournalInit
<1>2. FileJournalInv /\ FileJournalInv' /\ [Next]_vars => [Promised!JournalNext]_<<Log, delivered>>
    BY StepIsPromised
<1>3. Spec => []FileJournalInv
    BY GivenInvariant
<1>4. QED
    BY <1>1, <1>2, <1>3, PTL DEF Spec, JournalSpec, Promised!JournalSpec,
       Promised!journalVars

(* A consumer that is told that there is nothing has been given everything that
   was readable then: at the end of the last file nothing valid comes later, so
   all that it wants lies before the place of its scan. *)
THEOREM NothingMeansDoneHolds == OneAdd /\ Spec => NothingMeansDone
<1> SUFFICES ASSUME OneAdd PROVE Spec => NothingMeansDone
    OBVIOUS
<1> DEFINE Done(r) ==
        LET q == request[r]
        IN  /\ rpc[r] = "scan" /\ rpc'[r] = "nothing"
            /\ q.option = "get_next_for_consumer"
            => ToSet(Log) \cap Applicable[q.consumer] \subseteq delivered[q.consumer]
<1>1. ASSUME FileJournalInv, Next, NEW r \in Requesters PROVE Done(r)
    <2> DEFINE q == request[r]
    <2>1. SUFFICES ASSUME rpc[r] = "scan", rpc'[r] = "nothing",
                          q.option = "get_next_for_consumer",
                          NEW e \in ToSet(Log), e \in Applicable[q.consumer]
                   PROVE  e \in delivered[q.consumer]
        OBVIOUS
    <2>2. TypeInv /\ JournalInv /\ ScansInv /\ GivenInv
        BY <1>1 DEF FileJournalInv
    <2>3. /\ file \in [Hours -> Seq(Cell)] /\ GoodFiles(file, first_path)
          /\ first_path \in Hours \cup {NoHour} /\ q \in Request /\ q.at \in Positions
          /\ ScanIn(file, first_path, q)
          /\ ScanDone(file, first_path, "scan", q, delivered[q.consumer])
        BY <2>1, <2>2, ReaderHas, GivenHas, FoundIsTyped DEF Scanning, TypeInv
    <2>4. IsEof(q.at)
        <3>1. PICK s \in Requesters : Requests(s)
            BY <1>1, <2>1, RequestOrNot DEF NoRequestSteps
        <3>2. s = r
            BY <2>1, <2>2, <3>1, OthersStay DEF TypeInv
        <3>3. FindEof(r)
            BY <2>1, <2>2, <3>1, <3>2 DEF Requests, GetFirst, GetByCursor,
               GetNextAfterCursor,
               GetNextForConsumer, GetNextForConsumerAfterCursor, Start, FindEntry, PassEntry,
               FollowLink, ScanThrows, Scan, Respond, ReadForMark, WriteMark, TypeInv, TypeOK
        <3>4. QED
            BY <3>3 DEF FindEof
    <2>5. ~RecordIn(file, q.at) /\ ~LinkIn(file, q.at)
        <3>1. /\ q.at.hour \in Hours /\ q.at.offset \in Nat
              /\ q.at.offset >= Len(file[q.at.hour]) /\ Len(file[q.at.hour]) \in Nat
            BY <2>3, <2>4, LenProperties DEF IsEof, Positions
        <3>2. ~(q.at.offset + 2 <= Len(file[q.at.hour]))
            BY <3>1
        <3>3. QED
            BY <3>2 DEF RecordIn, LinkIn, PairIn
    <2>6. Valid(file, first_path, q.at)
        BY <2>3 DEF ScanIn
    <2>7. first_path \in Hours
        <3>1. first_path # NoHour
            BY <2>3, <2>6, ChainBegins DEF Valid, GoodFiles
        <3>2. QED
            BY <2>3, <3>1
    <2>8. IsLog(file, first_path, First(first_path), Log)
        BY <2>3, <2>7, LogIs
    <2>9. PICK k \in 1..Len(Log) : Log[k] = e
        BY <2>1 DEF ToSet
    <2>10. PICK b : ReadFrom(file, first_path, First(first_path), b, e)
        BY <2>8, <2>9 DEF IsLog
    <2>11. /\ b \in Positions /\ ValidRecord(file, first_path, b)
           /\ Valid(file, first_path, b) /\ EntryIn(file, b) = e
        BY <2>10 DEF ReadFrom, ValidRecord
    <2>12. ~Before(q.at, b)
        BY <2>3, <2>5, <2>6, <2>11, FollowingIsNext
    <2>13. b # q.at
        BY <2>5, <2>11 DEF ValidRecord
    <2>14. Before(b, q.at)
        BY <2>3, <2>11, <2>12, <2>13, BeforeIsOrder
    <2>15. DoneBefore(file, first_path, q.consumer, q.at, delivered[q.consumer])
        BY <2>3, DoneUpToScan
    <2>16. QED
        BY <2>1, <2>11, <2>14, <2>15 DEF DoneBefore
<1>2. FileJournalInv /\ [Next]_vars => [\A r \in Requesters : Done(r)]_vars
    BY <1>1
<1>3. Spec => []FileJournalInv
    BY GivenInvariant
<1>4. QED
    BY <1>2, <1>3, PTL DEF Spec, NothingMeansDone
=============================================================================
