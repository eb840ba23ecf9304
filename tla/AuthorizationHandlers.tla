------------------------ MODULE AuthorizationHandlers ------------------------
(***************************************************************************)
(* The active authorization handlers (afw_authorization.c): one id anchor  *)
(* per handler id, as in Anchor with a handler in the place of the adaptor,*)
(* and the anchors of the started handlers linked in priority order.       *)
(*                                                                         *)
(* Threads start, restart and stop handlers under the write side of        *)
(* env->authorization_handler_id_anchor_rw_lock.  afw_authorization_check  *)
(* walks the same list without the lock, so that a write section is three  *)
(* steps here: unlink, claim, link.  The walk sees what each leaves behind.*)
(* References are counted under the read side, which two threads can have  *)
(* at once, so that the increment is two steps: read and write.            *)
(***************************************************************************)
EXTENDS Anchor, FiniteSets, SequencesExt

CONSTANTS Ids, NoId,             (* handler ids, the NULL of an anchor     *)
          Threads, NoThread,     (* NoThread: nobody holds the write lock  *)
          IdOf, Priority,        (* per instance, from its conf            *)
          MaxReferences          (* bounds the references, per instance    *)

ASSUME HandlersAssumption ==
    /\ IsFiniteSet(Ids)
    /\ NoId \notin Ids
    /\ NoThread \notin Threads
    /\ IdOf \in [Instances -> Ids]
    /\ Priority \in [Instances -> Nat]
    /\ MaxReferences \in [Instances -> Nat]

VARIABLES
    anchor,             (* per id, see Anchor                              *)
    first_anchor,       (* of the authorization control                    *)
    next_anchor,        (* per id                                          *)
    processing_order,   (* per id                                          *)
    writer,             (* the thread that holds the write lock            *)
    pc, id, instance,   (* per thread: location, and what it works on      *)
    count,              (* per thread: the reference_count it has read     *)
    cursor,             (* per thread: the anchor its check is at          *)
    created, destroyed, (* handler instances, destroyed: by a call of the  *)
                        (* destroy of its interface                        *)
    taken,              (* history, per instance: references given out     *)
    raced,              (* history: instances two threads counted at once  *)
    visited,            (* history, per thread: handlers its check read    *)
    disturbed           (* history, per thread: a section ran meanwhile    *)

listVars == <<first_anchor, next_anchor, processing_order>>
countVars == <<count, taken, raced>>
checkVars == <<cursor, visited>>
vars == <<anchor, listVars, writer, pc, id, instance, countVars, checkVars,
          created, destroyed, disturbed>>

Checking == {"walking", "evaluating"}

(* Where a thread answers for a handler: it starts it or has stopped it. *)
Owning == {"starting", "unlinked", "claimed", "retiring", "destroying"}

TypeOK ==
    /\ anchor \in [Ids -> Seq(Node)]
    /\ first_anchor \in Ids \cup {NoId}
    /\ next_anchor \in [Ids -> Ids \cup {NoId}]
    /\ processing_order \in [Ids -> Nat]
    /\ writer \in Threads \cup {NoThread}
    /\ pc \in [Threads -> Checking \cup
                  {"idle", "starting", "unlinked", "claimed", "retiring",
                   "destroying", "counting", "discarding"}]
    /\ id \in [Threads -> Ids \cup {NoId}]
    /\ instance \in [Threads -> Instances \cup {NoInstance}]
    /\ count \in [Threads -> Int]
    /\ cursor \in [Threads -> Ids \cup {NoId}]
    /\ created \subseteq Instances
    /\ destroyed \subseteq created
    /\ taken \in [Instances -> Nat]
    /\ raced \subseteq created
    /\ visited \in [Threads -> Seq(Instances)]
    /\ disturbed \in [Threads -> BOOLEAN]

Init ==
    /\ anchor = [a \in Ids |-> <<>>]
    /\ first_anchor = NoId
    /\ next_anchor = [a \in Ids |-> NoId]
    /\ processing_order = [a \in Ids |-> 0]
    /\ writer = NoThread
    /\ pc = [t \in Threads |-> "idle"]
    /\ id = [t \in Threads |-> NoId]
    /\ instance = [t \in Threads |-> NoInstance]
    /\ count = [t \in Threads |-> 0]
    /\ cursor = [t \in Threads |-> NoId]
    /\ created = {}
    /\ destroyed = {}
    /\ taken = [i \in Instances |-> 0]
    /\ raced = {}
    /\ visited = [t \in Threads |-> <<>>]
    /\ disturbed = [t \in Threads |-> FALSE]

Goto(t, location, a, i) ==
    /\ pc' = [pc EXCEPT ![t] = location]
    /\ id' = [id EXCEPT ![t] = a]
    /\ instance' = [instance EXCEPT ![t] = i]

Idle(t) == Goto(t, "idle", NoId, NoInstance)

(* Nobody has the read side of the lock. *)
NoReader == \A t \in Threads : pc[t] # "counting"

(* What the history of the checks notes of a step of a write section. *)
Disturb ==
    disturbed' = [t \in Threads |-> disturbed[t] \/ pc[t] \in Checking]

-----------------------------------------------------------------------------
(* The list, as a sequence of anchors and back. *)

(* At most bound anchors of the chain that begins at a. *)
ChainFrom(next, a, bound) ==
    LET chain[n \in 0..bound] ==
            [b \in Ids \cup {NoId} |->
                IF b = NoId \/ n = 0 THEN <<>>
                ELSE <<b>> \o chain[n - 1][next[b]]]
    IN  chain[bound][a]

ActiveList == ChainFrom(next_anchor, first_anchor, Cardinality(Ids) + 1)

InList(a) == a \in ToSet(ActiveList)

PriorityOf(a) == Priority[ActiveInstance(anchor[a])]

(* mutant: before the first anchor of the same priority or a larger one, but
   never before the first of the list *)
InsertAfterFirst(list, a) ==
    LET after == {k \in 2..Len(list) : PriorityOf(list[k]) >= PriorityOf(a)}
        k == IF after = {} THEN Len(list) + 1
             ELSE CHOOSE x \in after : \A y \in after : x <= y
    IN  InsertAt(list, k, a)

(* Before the first anchor whose priority is larger, else at the end. *)
InsertByPriority(list, a) ==
    LET after == {k \in 1..Len(list) : PriorityOf(list[k]) > PriorityOf(a)}
        k == IF after = {} THEN Len(list) + 1
             ELSE CHOOSE x \in after : \A y \in after : x <= y
    IN  InsertAt(list, k, a)

(* mutant: an anchor that comes first is not made the first *)
LinkInKeepsFirst(list, a) ==
    LET k == CHOOSE n \in 1..Len(list) : list[n] = a
    IN  /\ first_anchor' = IF first_anchor = NoId THEN a ELSE first_anchor
        /\ next_anchor' =
              [b \in Ids |->
                  CASE b = a /\ k < Len(list) -> list[k + 1]
                    [] b # a /\ k > 1 /\ b = list[k - 1] -> a
                    [] OTHER -> next_anchor[b]]

(* The two links that put a where it is in list; at the end of the list the
   link of a keeps its value. *)
LinkIn(list, a) ==
    LET k == CHOOSE n \in 1..Len(list) : list[n] = a
    IN  /\ first_anchor' = list[1]
        /\ next_anchor' =
              [b \in Ids |->
                  CASE b = a /\ k < Len(list) -> list[k + 1]
                    [] b # a /\ k > 1 /\ b = list[k - 1] -> a
                    [] OTHER -> next_anchor[b]]

-----------------------------------------------------------------------------
(* impl_set_instance_active *)

(* The factory has created a handler, which is to be the active one. *)
CreateHandler(t) ==
    /\ pc[t] = "idle"
    /\ \E i \in Instances \ created :
        /\ created' = created \cup {i}
        /\ Goto(t, "starting", IdOf[i], i)
    /\ UNCHANGED <<anchor, listVars, writer, countVars, checkVars, destroyed,
                   disturbed>>

(* mutant: the anchor that is taken out keeps its link *)
UnlinkedKeepsLink(a) ==
    [b \in Ids |-> IF next_anchor[b] = a THEN next_anchor[a]
                   ELSE next_anchor[b]]

(* The anchor of a is taken out of the list, its own link is cleared. *)
Unlinked(a) ==
    [b \in Ids |-> CASE b = a -> NoId
                     [] b # a /\ next_anchor[b] = a -> next_anchor[a]
                     [] b # a /\ next_anchor[b] # a -> next_anchor[b]]

(* Take the write lock, take a out; instance is what a is claimed for. *)
TakeOut(t, a, i) ==
    /\ writer = NoThread /\ NoReader
    /\ writer' = t
    /\ IF InList(a)
       THEN /\ next_anchor' = Unlinked(a)
            /\ first_anchor' = IF first_anchor = a THEN next_anchor[a]
                               ELSE first_anchor
       ELSE UNCHANGED <<next_anchor, first_anchor>>
    /\ Goto(t, "unlinked", a, i)
    /\ UNCHANGED anchor
    /\ Disturb
    /\ UNCHANGED <<processing_order, countVars, checkVars, created, destroyed>>

Start(t) == pc[t] = "starting" /\ TakeOut(t, id[t], instance[t])

(* The service layer stops a handler that is running. *)
Stop(t) ==
    /\ pc[t] = "idle"
    /\ \E a \in Ids : IsActive(anchor[a]) /\ TakeOut(t, a, NoInstance)

(* Only a stop copies the anchor, with its count, to the stopping chain; a
   restart overwrites the handler and the count. *)
Claimed(a, i) ==
    IF i = NoInstance
    THEN SetActive(anchor[a], NoInstance)
    ELSE <<NewNode(i, 1)>> \o
            (IF Registered(anchor[a]) THEN Tail(anchor[a]) ELSE <<>>)

(* The anchor is claimed; instance becomes what a stop has to release. *)
Claim(t) ==
    /\ pc[t] = "unlinked"
    /\ anchor' = [anchor EXCEPT ![id[t]] = Claimed(id[t], instance[t])]
    /\ IF instance[t] # NoInstance
       THEN Goto(t, "claimed", id[t], instance[t])
       ELSE Goto(t, "claimed", id[t], ActiveInstance(anchor[id[t]]))
    /\ Disturb
    /\ UNCHANGED <<listVars, writer, countVars, checkVars, created, destroyed>>

(* Link the anchor of a started handler, renumber the list, unlock. *)
Link(t) ==
    /\ pc[t] = "claimed"
    /\ LET a == id[t]
           started == IsActive(anchor[a])
           list == IF started THEN InsertByPriority(ActiveList, a)
                   ELSE ActiveList
       IN  /\ IF started THEN LinkIn(list, a)
              ELSE UNCHANGED <<first_anchor, next_anchor>>
           /\ processing_order' =
                [b \in Ids |->
                    IF \E k \in 1..Len(list) : list[k] = b
                    THEN CHOOSE k \in 1..Len(list) : list[k] = b
                    ELSE IF b = a THEN 0 ELSE processing_order[b]]
           /\ IF started THEN Idle(t) ELSE Goto(t, "retiring", a, instance[t])
    /\ writer' = NoThread
    /\ UNCHANGED anchor
    /\ Disturb
    /\ UNCHANGED <<countVars, checkVars, created, destroyed>>

-----------------------------------------------------------------------------
(* afw_authorization_handler_release of the base reference by a stop *)

ReleaseRetired(t) ==
    /\ pc[t] = "retiring"
    /\ writer = NoThread /\ NoReader
    /\ anchor' = [anchor EXCEPT ![id[t]] = Release(@, instance[t])]
    /\ IF LastReference(anchor[id[t]], instance[t])
       THEN Goto(t, "destroying", id[t], instance[t])
       ELSE Idle(t)
    /\ UNCHANGED <<listVars, writer, countVars, checkVars, created, destroyed,
                   disturbed>>

Destroy(t) ==
    /\ pc[t] = "destroying"
    /\ destroyed' = destroyed \cup {instance[t]}
    /\ Idle(t)
    /\ UNCHANGED <<anchor, listVars, writer, countVars, checkVars, created,
                   disturbed>>

-----------------------------------------------------------------------------
(* An adaptor that is created with an authorizationHandlerId gets a reference
   to the handler.  Where none is active, get_reference starts one, which is
   CreateHandler, and looks again or throws. *)

(* impl_get_reference reads reference_count, under the read lock. *)
ReadCount(t) ==
    /\ pc[t] = "idle"
    /\ writer = NoThread
    /\ \E a \in Ids :
        LET i == ActiveInstance(anchor[a])
        IN  /\ IsActive(anchor[a])
            /\ taken[i] < MaxReferences[i]
            /\ Goto(t, "counting", a, i)
            /\ count' = [count EXCEPT ![t] = anchor[a][1].reference_count]
            /\ raced' = IF \E u \in Threads : pc[u] = "counting" /\ instance[u] = i
                        THEN raced \cup {i} ELSE raced
    /\ UNCHANGED <<anchor, listVars, writer, taken, checkVars, created, destroyed,
                   disturbed>>

(* reference_count++ writes it, and the read lock is released. *)
WriteCount(t) ==
    /\ pc[t] = "counting"
    /\ anchor' = [anchor EXCEPT ![id[t]][1].reference_count = count[t] + 1]
    /\ taken' = [taken EXCEPT ![instance[t]] = @ + 1]
    /\ count' = [count EXCEPT ![t] = 0]
    /\ Goto(t, "discarding", id[t], instance[t])
    /\ UNCHANGED <<listVars, writer, raced, checkVars, created, destroyed,
                   disturbed>>

(* The adaptor destroys the handler, and does not release it.  The destroy of
   the only type of handlers does nothing. *)
Discard(t) ==
    /\ pc[t] = "discarding"
    /\ destroyed' = destroyed \cup {instance[t]}
    /\ Idle(t)
    /\ UNCHANGED <<anchor, listVars, writer, countVars, checkVars, created,
                   disturbed>>

-----------------------------------------------------------------------------
(* The handler loop of afw_authorization_check: no lock, no reference. *)

BeginCheck(t) ==
    /\ pc[t] = "idle"
    /\ Goto(t, "walking", NoId, NoInstance)
    /\ cursor' = [cursor EXCEPT ![t] = first_anchor]
    /\ visited' = [visited EXCEPT ![t] = <<>>]
    /\ disturbed' = [disturbed EXCEPT ![t] = writer # NoThread]
    /\ UNCHANGED <<anchor, listVars, writer, countVars, created, destroyed>>

(* mutant: the handler of a stopped anchor is not skipped *)
VisitHandlerUnchecked(t) ==
    /\ pc[t] = "walking"
    /\ cursor[t] # NoId
    /\ LET ah == ActiveInstance(anchor[cursor[t]])
       IN  /\ Goto(t, "evaluating", NoId, ah)
           /\ visited' = [visited EXCEPT ![t] = Append(@, ah)]
    /\ UNCHANGED <<anchor, listVars, writer, countVars, cursor, created,
                   destroyed, disturbed>>

(* ah = anchor->authorization_handler *)
VisitHandler(t) ==
    /\ pc[t] = "walking"
    /\ cursor[t] # NoId
    /\ LET ah == ActiveInstance(anchor[cursor[t]])
       IN  /\ Goto(t, "evaluating", NoId, ah)
           /\ visited' = [visited EXCEPT ![t] =
                            IF ah = NoInstance THEN @ ELSE Append(@, ah)]
    /\ UNCHANGED <<anchor, listVars, writer, countVars, cursor, created,
                   destroyed, disturbed>>

(* anchor = anchor->next_anchor, when the handler is done *)
NextAnchor(t) ==
    /\ pc[t] = "evaluating"
    /\ Goto(t, "walking", NoId, NoInstance)
    /\ cursor' = [cursor EXCEPT ![t] = next_anchor[cursor[t]]]
    /\ UNCHANGED <<anchor, listVars, writer, countVars, created, destroyed,
                   visited, disturbed>>

EndCheck(t) ==
    /\ pc[t] = "walking"
    /\ cursor[t] = NoId
    /\ Idle(t)
    /\ visited' = [visited EXCEPT ![t] = <<>>]
    /\ disturbed' = [disturbed EXCEPT ![t] = FALSE]
    /\ UNCHANGED <<anchor, listVars, writer, countVars, cursor, created,
                   destroyed>>

-----------------------------------------------------------------------------
Next ==
    \E t \in Threads :
        \/ CreateHandler(t) \/ Start(t) \/ Stop(t) \/ Claim(t) \/ Link(t)
        \/ ReleaseRetired(t) \/ Destroy(t)
        \/ ReadCount(t) \/ WriteCount(t) \/ Discard(t)
        \/ BeginCheck(t) \/ VisitHandler(t) \/ NextAnchor(t) \/ EndCheck(t)

Spec == Init /\ [][Next]_vars
-----------------------------------------------------------------------------
(* Properties *)

(* Whenever nobody is changing it, the list holds exactly the started
   handlers, each once, in priority order, and processing_order numbers
   them. *)
ListInOrder ==
    writer = NoThread =>
        LET list == ActiveList
        IN  /\ ToSet(list) = {a \in Ids : IsActive(anchor[a])}
            /\ IsInjective(list)
            /\ \A k \in 1..Len(list) : processing_order[list[k]] = k
            /\ \A k, m \in 1..Len(list) :
                  k < m => PriorityOf(list[k]) <= PriorityOf(list[m])

(* A check never goes around in circles: at every moment, also half way
   through a change, the links lead from where it is to the end. *)
WalksEnd ==
    \A a \in {first_anchor} \cup {cursor[t] : t \in Threads} :
        Len(ChainFrom(next_anchor, a, Cardinality(Ids) + 1)) <= Cardinality(Ids)

(* A check that no start, restart or stop disturbs has asked every started
   handler once, in the order of their priorities. *)
UndisturbedCheckIsComplete ==
    \A t \in Threads :
        pc[t] = "walking" /\ cursor[t] = NoId /\ ~disturbed[t]
            => /\ ToSet(visited[t]) =
                     {ActiveInstance(anchor[a]) : a \in Ids} \ {NoInstance}
               /\ IsInjective(visited[t])
               /\ \A k, m \in 1..Len(visited[t]) :
                     k < m => Priority[visited[t][k]] <= Priority[visited[t][m]]

(* What is counted before anybody asks for a reference: the active handler
   has one, and the stop that has taken a handler over has it until then. *)
BaseReferences(i, k) ==
    IF k = 1 \/ \E t \in Threads : pc[t] \in {"claimed", "retiring"} /\ instance[t] = i
    THEN 1 ELSE 0

(* Two threads that count at the same time can lose a reference, but never
   all: a count is at most what was given out, exactly that where no two
   threads met, and as long as a reference was given out there is one more
   than the starts and stops have, wherever the count was copied to.  So the
   release of a stop destroys only what nobody was given. *)
ReferencesAreCounted ==
    /\ \A a \in Ids : \A k \in 1..Len(anchor[a]) :
          LET i == anchor[a][k].adaptor
              n == anchor[a][k].reference_count
          IN  i # NoInstance =>
                /\ n >= 1
                /\ n <= BaseReferences(i, k) + taken[i]
                /\ taken[i] > 0 => n > BaseReferences(i, k)
                /\ i \notin raced => n = BaseReferences(i, k) + taken[i]
    /\ \A t \in Threads : pc[t] = "destroying" => taken[instance[t]] = 0

(* The comment in impl_set_instance_active: "If there is already an active
   instance, make a copy of active anchor in the active instance's pool so it
   will go away when instance is released put it in stopping chain."  So no
   instance is lost from its creation to its destruction. *)
ReplacedIsStopping ==
    \A i \in created \ destroyed :
        \/ \E a \in Ids : OnAnchor(anchor[a], i)
        \/ \E t \in Threads : instance[t] = i /\ pc[t] \in Owning

(* The comment in impl_set_instance_active: the copy of the anchor is made "so
   it will go away when instance is released", and afw_authorization.h, of
   get_reference: "afw_authorization_handler_release() should be called when
   finished with the authorization handler."  So when nobody is in a call that
   starts, stops or uses a handler, none is left on a stopping chain. *)
StoppedIsReleased ==
    (\A t \in Threads : pc[t] \in Checking \cup {"idle"})
        => \A a \in Ids : Len(anchor[a]) <= 1

-----------------------------------------------------------------------------
(* The inductive invariant behind the safety properties. *)

(* What a thread works with: where the handler it has is on the anchor of its
   id follows from the location. *)
ThreadInv(t) ==
    /\ pc[t] \in {"unlinked", "claimed"} <=> writer = t
    /\ pc[t] = "evaluating" => cursor[t] # NoId
    /\ pc[t] \in Owning => id[t] \in Ids
    /\ pc[t] \in Owning \ {"unlinked"} => instance[t] # NoInstance
    /\ pc[t] \in Owning /\ instance[t] # NoInstance =>
          instance[t] \in created /\ IdOf[instance[t]] = id[t]
    /\ pc[t] = "unlinked" /\ instance[t] = NoInstance => IsActive(anchor[id[t]])
    /\ pc[t] \in {"starting", "unlinked", "destroying"} /\ instance[t] # NoInstance =>
          ~OnAnchor(anchor[id[t]], instance[t])
    /\ pc[t] \in {"claimed", "retiring"} =>
          OnAnchor(anchor[id[t]], instance[t])
    /\ pc[t] = "claimed" =>
          ActiveInstance(anchor[id[t]]) \in {NoInstance, instance[t]}
    /\ pc[t] = "retiring" => ActiveInstance(anchor[id[t]]) # instance[t]
    /\ pc[t] = "counting" =>
          /\ writer = NoThread
          /\ id[t] \in Ids /\ instance[t] # NoInstance
          /\ instance[t] = ActiveInstance(anchor[id[t]])
    /\ pc[t] = "discarding" => instance[t] \in created

(* No two threads have the same handler. *)
OwnersInv ==
    \A t, u \in Threads :
        (/\ t # u /\ pc[t] \in Owning /\ pc[u] \in Owning
         /\ instance[t] # NoInstance) => instance[t] # instance[u]

(* The nodes of an anchor: one for each handler, and only the first may be
   without one. *)
NodesInv ==
    \A a \in Ids : \A k \in 1..Len(anchor[a]) :
        LET i == anchor[a][k].adaptor
        IN  /\ i # NoInstance => /\ i \in created /\ IdOf[i] = a
                                 /\ \A m \in 1..Len(anchor[a]) :
                                        anchor[a][m].adaptor = i => m = k
            /\ k > 1 => i # NoInstance

(* first and the links next lead through the ids of list and to no other; an id
   that is not in it is not linked to anything. *)
LinkedAs(next, first, list) ==
    /\ list \in Seq(Ids)
    /\ IsInjective(list)
    /\ first = IF list = <<>> THEN NoId ELSE list[1]
    /\ \A k \in 1..Len(list) :
          next[list[k]] = IF k < Len(list) THEN list[k + 1] ELSE NoId
    /\ \A a \in Ids \ ToSet(list) : next[a] = NoId

(* The id whose anchor the holder of the lock has taken out. *)
TakenOut == {id[t] : t \in {u \in Threads : writer = u}}

(* The list is sorted, holds the started handlers and is numbered at rest. *)
OrderInv(list) ==
    /\ LinkedAs(next_anchor, first_anchor, list)
    /\ ToSet(list) = {a \in Ids : IsActive(anchor[a])} \ TakenOut
    /\ \A k, m \in 1..Len(list) : k < m => PriorityOf(list[k]) <= PriorityOf(list[m])
    /\ writer = NoThread => \A k \in 1..Len(list) : processing_order[list[k]] = k

(* A check stands at list[k] and has asked everybody in front of it. *)
CheckIsAt(t, list, k) ==
    /\ cursor[t] = IF k <= Len(list) THEN list[k] ELSE NoId
    /\ visited[t] = [m \in 1..(IF pc[t] = "walking" THEN k - 1 ELSE k) |->
                        ActiveInstance(anchor[list[m]])]
    /\ pc[t] = "evaluating" => k <= Len(list)

CheckInv(t, list) ==
    pc[t] \in Checking /\ ~disturbed[t]
        => /\ writer = NoThread
           /\ \E k \in 1..(Len(list) + 1) : CheckIsAt(t, list, k)

ListInv(list) == OrderInv(list) /\ \A t \in Threads : CheckInv(t, list)

HandlersInv ==
    /\ TypeOK
    /\ \A t \in Threads : ThreadInv(t)
    /\ OwnersInv
    /\ NodesInv
    /\ ListInv(ActiveList)

(* What a thread that counts has read, and what nobody has been given yet. *)
CountingInv ==
    /\ \A t \in Threads :
          pc[t] = "counting" =>
              LET i == instance[t]
              IN  /\ count[t] >= 1 /\ count[t] <= 1 + taken[i]
                  /\ i \notin raced =>
                        /\ count[t] = anchor[id[t]][1].reference_count
                        /\ \A u \in Threads \ {t} :
                              pc[u] = "counting" => instance[u] # i
    /\ \A t \in Threads :
          pc[t] \in {"starting", "unlinked"} /\ instance[t] # NoInstance
              => taken[instance[t]] = 0 /\ instance[t] \notin raced
    /\ \A i \in Instances \ created : taken[i] = 0

CountsInv == ReferencesAreCounted /\ CountingInv
=============================================================================
