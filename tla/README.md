# A TLA+ model of the Adaptive Framework (afw)

afw is a C library and a set of programs around it (an FCGI server, a command
line) that give scripts and HTTP requests access to *objects* through
*adaptors*. Everything a running server has is a *service* described by an
object of a configuration adaptor: adaptors, authorization handlers, logs. The
parts that this project models are those in which several threads, or several
calls of one thread, meet in shared state.

Contents: [inventory](#1-inventory) · [modules](#2-modules-and-how-they-map-to-the-code)
· [runs](#3-what-is-checked) · [fairness](#4-fairness) · [proofs](#5-what-is-proved)
· [disagreements](#6-where-the-code-and-its-documentation-disagree)
· [limits](#7-abstractions-and-limits) · [plan](#8-plan)

## 1. Inventory

Paths are below `src/src/`.

| component | state it keeps | operations | how it meets the others | what has to be right |
|---|---|---|---|---|
| adaptor id anchor (`afw/adaptor/afw_adaptor.c`) | per adaptor id: active instance, reference count, chain of stopping copies | get reference, release, session create and release, start, restart, stop | called by requests (sessions) and by services; one lock, dropped before an instance is created or destroyed | exact counts; no use after destroy; every instance destroyed once |
| authorization decision (`afw/authorization/afw_authorization.c`) | the control; per call the decision so far | check | called before every access; evaluates scripts; asks handlers | overrides as configured; errors deny |
| authorization handler list (same file) | anchors per handler id, linked in priority order | start, restart, stop, release, get reference, walk | services write under a rwlock; every check reads without it | sorted and complete; a walk ends and sees what it should |
| service (`afw/service/afw_service.c`) | registry entry, struct with status and mutex, pool shared with the adaptor | start (manual, automatic, initial, conf), restart, stop | calls the service type, which calls the anchor; sessions call it back | status says what is true; a call ends; errors are shown |
| session cache and transactions (`afw_adaptor.c`, `afw_lmdb/afw_lmdb_internal.c`) | per request: session per adaptor, list of transactions; per lmdb environment: writer mutex, `dbLock`, what is staged | get cached, begin, commit and release, abort | a request over several adaptors; requests meet at the locks of lmdb; a model adaptor passes on to the one it is mapped to | all or nothing where promised; durable in reverse; nothing left open; no deadlock |
| journal of the file adaptor (`afw/file/afw_file_journal.c`) | hourly files, a link at the end of each, a lock record, peers with two cursors | add, get (first, next, by cursor, for consumer), mark consumed | written by the update of another adaptor; read by consumers | no entry lost or skipped; a consumer sees each entry until it marks it |
| journal of the lmdb adaptor (`afw_lmdb/afw_lmdb_journal.c`) | one table, peers | the same | the same | the same |
| journal wrapper (`afw/adaptor/afw_adaptor_journal.c`) | none | prologue and epilogue of updates, consume | session cache, journal | an update has its entry |
| modify and index (`afw_adaptor_modify.c`, `afw_adaptor_impl_index.c`) | none; index tables | modify entries, index update | called by updates | index agrees with objects |
| pools (`afw/pool/`) | tree of pools with counts, lists of children and cleanups | create, add reference, release, destroy, register and deregister cleanup | every component; cleanups release other pools | counts exact; nothing used after it is freed, destroyed twice or left behind |
| execution context, errors (`afw/xctx/`, `afw/error/`) | stack of handlers and of evaluation frames | try, catch, finally, rethrow | every component | finally always runs, stacks are unwound |
| environment registry (`afw/environment/`) | tables by name | register, get | every component | one lock per operation |
| flags, logs (`afw/flag/`, `afw/log/`) | growing tables | register, set, test | every thread reads | table and size agree |
| runtime objects, requests, actions, streams, values, compiler, data types, query criteria, model adaptor, ldap and vfs adaptors, server, command, tools, UI | mostly per request | | | text and data: see `PROJECT.json` for the reason each is left out |

What is hard here: an instance lives in a pool and is freed by whoever drops
its last reference; locks are dropped before an instance is created or
destroyed; three different locks (struct mutex, anchor lock, registry lock)
guard one fact ("is it running"); one component reads a list its writers think
is locked; errors leave a call by `longjmp` at any point. `PROJECT.json` lists
the hazards line by line, with the properties that cover each.

## 2. Modules and how they map to the code

`PROJECT.json` maps every definition to its lines. In short:

**`Anchor`** is the value of an id anchor and a pure operator for each locked
section. An anchor is a sequence of nodes: node 1 is the registered struct,
later nodes are the copies chained with `stopping`, most recent first. `<<>>` is
an id that is not registered. `SetActive` is `impl_set_instance_active`,
`AddReference` is `impl_get_reference`, `LastReference` and `Release` are
`afw_adaptor_release`.

**`AdaptorAnchor`** is the state machine: one anchor, and threads (`Clients`)
with a location `pc` and the instance they work with. One action is one section
under `adaptor_id_anchor_lock`; creating a session, creating an instance and
destroying one are actions of their own since the lock is not held there.
`FindNone`, `AutostartStartsNothing`, `CreateInstance` and `NotAvailable` are the
automatic start as the anchor sees it; `CreateSessionThrows` is a session
creation that fails after the reference was counted.

**`AdaptorLease`** is the contract: one active instance, clients that lease it
and keep it over restarts, instances that are discarded only when neither active
nor leased. `LeaseSpec` in `AdaptorAnchor` is the refinement mapping.

**`AuthorizationCheck`** is one call of `afw_authorization_check` over a case
(mode, control, list of handlers, enforce). A handler that is not running stands
in the sequence at the place its priority gives it and is skipped. `Answer`
folds results into those the code tells apart; `"throws"` covers everything that
leaves by an error, such as a check that answers `indeterminate`.

**`AuthorizationHandlers`** has one `Anchor` per handler id and the list:
`first_anchor`, `next_anchor`, `processing_order`. The write section of
`impl_set_instance_active` is three actions, `TakeOut`, `Claim` and `Link`, with
the lock (`writer`) held from the first to the last, because the walk of
`afw_authorization_check` (`BeginCheck`, `VisitHandler`, `NextAnchor`,
`EndCheck`) takes no lock and sees what is in between. `impl_get_reference` counts
under the read side of the lock, which two threads can have at once, so that its
`reference_count++` is two actions, `ReadCount` and `WriteCount`, and a write section
waits for those who count (`NoReader`). What the reference is for is `Discard`: an
adaptor has got it to see whether its handler can be started, and calls the
handler's destroy. `disturbed`, `taken` and `raced` are history.

**`Service`** extends `AdaptorAnchor`: each step of `afw_service.c` is an action
over the registry entry, the structs (`status`, `initialized`, `mutex`) and the
threads' locations (`at`, `call`, `service`), and where the code calls the
service type of adaptors, the action of `AdaptorAnchor` is a conjunct. Each
start or restart allocates a struct; the adaptor lives in the pool of that
struct, so struct and instance have the same name. A new struct is all zero,
which is status `error`. Calls that are refused throw and change nothing, and
are not actions. `ServiceAlone` adds a history variable, which tells whether two
threads have been in a call at the same time.

**`Journal`** is what an adaptor with a journal promises: a log that grows at its
end, and consumers that are given the entries their filter admits in the order of
the log and without a gap, each at least once.

**`FileJournal`** is `afw_file_journal.c`. `file[h]` is the file of hour `h`, a
sequence of cells, one for each `apr_file_write`: a length and a text for an
entry, a zero and a path for the link at the end of an hour. A cursor is an hour
and an offset in cells. A thread that adds is at `wpc` and makes one write per
action, from `ReadLock` to `WriteLock`, with the hour it began in (`hour`) and
the file that it has to link (`old`). `AddThrows` is every `goto error_...` and every
end of the process in between: what was written stays and nobody takes it back.
A request is the record of the locals of
`get_entry`: it begins by reading the peer object (`FromConsumerCursors`), goes
over the files one record per action (`FindEntry`, `PassEntry`, `FollowLink`,
`FindEof`, `ScanThrows`), and ends by writing back the peer object it has read
(`Respond`). `from`, `after`, `added` and `delivered` are history. `Trail` and
`Log` are what somebody who starts at the first file would read; `log <- Log` is
the refinement mapping to `Journal`. `OneAdd` is what the comment at the end of
`add_entry` takes for granted: adds do not overlap.

**`AdaptorTransactions`** is the end of a request and all that leads to it:
`impl_get_adaptor_session_cache`, `afw_adaptor_session_commit_and_release_cache`,
the transactions of lmdb, the journal epilogue, and the model adaptor. `work[r]`
is the stack of calls that a request still has to make, the next one first; a
call that makes calls is replaced by them. So an update is `get_cached_begin`,
`update_object`, `journal_epilogue`; a begin is `begin`, then `txn_begin`, between
which `dbLock` is held and the writer mutex is not; and an update of a model
adaptor becomes an update of the adaptor it is mapped to. `sessions`, `begun` and
`open` are the cache; `writer`, `dbLock` and `staged` are one lmdb environment
each; `store` is what is durable. A change is a record of who made it, where, and
at which position of the list its transaction stands. `Throw` ends the calls of an
operation; the error is caught, and the request goes on, or it is not, and the
request aborts. `BeginFails`, `CommitFails` and `Crash` are the faults. `lost` and
`outcomes` are history.

**`PoolTree`** is the tree of `afw_pool_multithreaded.c`. `calls[t]` is the C stack of
a thread: a frame for each `destroy` that it is in and for a create, with the place
it has come to, the cleanups still to run (`left`), and `prev` and `sibling` of the
search in the parent's list. A release that brings a count to zero pushes a frame, so
that a cleanup, a child or a parent is destroyed inside the destroy that released it.
Each access to a count or to a link is a step, since no lock is held. `lineage` is the
tree of apr pools, which frees what is below a pool whether or not it is in a list.
`users` says who holds the references that are not a child's; `early` and `overlapped`
are history.

`*Proofs` modules hold the theorems, `MC*` modules the instances for TLC.

## 3. What is checked

| run | instance | properties | shows |
|---|---|---|---|
| `adaptor_anchor` | `MCAdaptorAnchor.cfg` | `AnchorInv`, `ReferenceCountExact`, `NoUseAfterDestroy`, `DestroyedOnce`, `NothingLost`, `LeaseSpec` | Three threads open and close sessions of an adaptor while they start, restart and stop it, with three instances and one failing session creation per instance: counts are exact, nothing is used after it is destroyed, destroyed twice or lost, and sessions lease instances as afw_adaptor.h promises. |
| `authorization_check` | `MCAuthorizationCheck.cfg` | `CheckInv`, `OverriddenOnlyByOverride`, `SkippedForAReason`, `FailsClosed` | Every list of up to three running handlers with every answer and override, and every mode and control with up to one handler: decisions are overridden only as configured, nobody is left out without a reason, errors deny. |
| `authorization_handlers` | `MCAuthorizationHandlers.cfg` | `HandlersInv`, `ListInOrder`, `WalksEnd`, `UndisturbedCheckIsComplete`, `ReferencesAreCounted` | Two threads start, restart and stop handlers of three ids, take references to them or walk the list without the lock: the list is sorted and complete whenever nobody changes it, a walk ends at every moment, one that nothing disturbs asks every handler in order, and a count is off only where two threads counted at once, and then never so far that a stop destroys what somebody was given. |
| `service` | `MCServiceAlone.cfg` | `ServiceInv`, `ActiveStructSaysSo`, `AloneTruthful`, `LivesOnce`, `CallsEnd`, `RetiredIsDestroyed` | Two threads start, restart and stop a service of three structs and open sessions that start it, with calls that nest (a session starts the service, a start takes a mutex, a stop waits for it): a struct goes through its life once, the struct of the active adaptor is never stopped or in error, every call ends, an instance that was replaced or stopped is destroyed in the end, and until two calls have overlapped the status in the registry is true of the adaptor. |
| `file_journal` | `MCFileJournal.cfg` | `TypeOK`, `AddedIsReadable`, `ScanMissesNothing`, `JournalSpec`, `NothingMeansDone` | One writer adds entries over two hours, with adds that fail at any place where the next one repairs it, while two requests of one consumer overlap, read, scan and write back stale peer objects, one of them with every option: what was added can be read, no scan leaves an entry behind that it should have returned, the files are the journal that the interface promises, and nothing means that there is nothing. |
| `adaptor_transactions` | `MCAdaptorTransactions.cfg` | `TransactionsInv`, `AllOrNothing`, `DurableInReverse`, `CommittedIsJournaled`, `OneOperationNeverDeadlocks`, `RequestEnds` | Two requests of up to two operations each update, read, consume and index over two lmdb adaptors, a model adaptor and a file adaptor, with errors that are caught or not, begins and commits that fail, and crashes: changes in transactions are all or nothing, durable in reverse, with their journal entries; the list and the locks agree; and a request ends or is in a deadlock of a known kind. |
| `pool_tree` | `MCPoolTree.cfg` | `PoolInv`, `TouchesOnlyLive`, `NothingLeftBehind` | Two threads create, share, release and destroy three pools below the environment's, in threads and in one another, with cleanups that release pools and calls that nest: counts are exact, the list of a pool is its children, nothing is destroyed twice or used after it is freed and nothing is left behind, unless two threads are in one list or a pool loses its last user before its children. |

Bounds. Three threads are the fewest with which two can race for a count while
a third restarts; three instances allow an active one with two stopping ones
behind it, so that a node is unlinked from the middle of a chain. For any number
of both, the safety properties of the anchor are theorems. `MaxLeaks`
bounds the session creations that fail per instance. `MCAuthorizationHandlers`
has priorities before, between, equal to and after those already in the list
(1 and 3 for `x`, 2 and 1 for `y`, 2 for `z`), three ids, so that one is linked
between two others, and enough instances for a start, a restart and another start
of two of them. `MaxReferences` lets one instance be referenced (`x1`, the one that is
restarted, moved and stopped): a thread asks for it only while none was given out, so
that there are one reference or, if both threads count at the same time, two, of
which one is lost. For any number of ids, instances and references its properties
are theorems. `MaxHandlers` = 3 lets a decision be overridden
twice; longer lists are covered by proof. `service` has two threads, three structs and no leaked
sessions: two calls can overlap at every point, liveness has to be checked on the
whole graph, and a leaked session keeps an instance for good by design. For any
number of threads, structs and leaks, its safety properties are theorems.
`AloneTruthful` holds until two calls overlap: from then on
`service_run_race` finds it wrong. The invariants of `pool_tree` are theorems for any number of threads and pools.

`pool_tree` has three pools below that of the environment, so that there are two
siblings, a chain of three and a child with a grandchild, each in the pool of the
environment or in that of a thread, and `MaxShared` = 2 pools at a time with a second
user or with a cleanup. A pool that is freed does not come back. Two threads are the
fewest that meet in a list. What follows once memory that is freed was used, or a
child was not found in its parent's list, is not explored (`broken`): the properties
say that it takes two threads in one list (`overlapped`) or a pool whose last user
lets go of it before its children (`early`) to get there, and both do get there.

`file_journal` has three entries, of which the filter of the consumer admits two,
two requesters and two hours: one link, and every order of two reads and two
writes of a peer object around it. `Asks` says which options a requester uses:
both ask for the consumer, one marks, and the other also gives a cursor
of its own. One thread adds, because two break the journal:
that is `file_journal_writers`. A request of `r1` that is for no consumer reads
neither peers nor what other requests do, and they nothing of it, so that it is
explored with the writer alone (`MCReadersAlone`, a state constraint).

`Interruptions` says where an add may fail: a location of the writer and what the
lock file says there (`first`: nothing, `same`: the hour of the add, `switch`:
another hour). `Survivable` is the set of places where the next add repairs what
is left. At each of the others, taken into the instance by itself, TLC finds a
property violated:

| an add ends | what is left | violated |
|---|---|---|
| before or after the length of the very first entry | a path to a first file that is empty or ends in half a record, and the next add may be of another hour, which it takes for the first | `ScanMissesNothing` |
| after a length, in the same hour or a new one | half a record, behind which nothing can be read | `AddedIsReadable` |
| between the zero and the path of a link | half a link, the same | `AddedIsReadable` |
| before the lock record, first entry | the next add begins the journal again | `JournalSpec` |
| before the lock record, after a link | the next add of a third hour links the old file a second time, behind its first link (needs `MaxHour` = 3) | `AddedIsReadable` |

A failure before the lock record when that would not change it is survivable and
left out: it is a return that `added` does not note.

`adaptor_transactions` has two threads with a request of up to two operations
each (`MaxOperations`, `MaxRequests`), over an lmdb adaptor `data`, its lmdb
journal `log`, a model adaptor on `data`, and a file adaptor whose journal is
also `log`. Two operations are the fewest with which two requests can begin the
same transactions in opposite orders, and a second operation can meet what a
caught error has left. One thread updates and creates indexes, the other works
through the model adaptor, reads and consumes. Later requests of a thread find
nothing but locks and stored changes of the earlier ones, which is what the
other thread finds, too.

Deadlock is checked except in the run of `AuthorizationCheck`, which is one
call that ends, and in those of `AdaptorTransactions`: the requests run out, and
the system really may stop before, in the deadlocks that
`OneOperationNeverDeadlocks` and `RequestEnds` tell apart.

Symmetry over threads, instances and entries that a filter treats alike is used in
safety runs only.

Every property has a mutant: a definition beside the one it replaces, marked
`mutant:`, that makes the kind of mistake the property is there for.

## 4. Fairness

Two specifications state fairness. `FairServiceSpec` (and `AloneSpec`, which is the
same with the history variable) is weak fairness of `Continue`
of each thread, where `Continue` is any step inside a call and the closing of an
open session. A thread inside a call goes on, because the operating system
schedules it and the locks are held for a few instructions; a session is closed,
because `afw_adaptor_session_commit_and_release_cache` ends every request.
Beginning a call is never fair: nobody has to start, restart or stop anything.
Strong fairness is not needed: a mutex is released by its owner's own fair steps
and is not taken over and over by others (a struct is started once and stopped
once). Under it, every call ends (`CallsEnd`) and an instance that has been
replaced or stopped is destroyed (`RetiredIsDestroyed`).

`LiveSpec` of `AdaptorTransactions` is weak fairness of `Proceed` of each thread:
what a request does by itself, with neither errors nor faults. The operating
system schedules threads, and one that waits for the writer mutex or for `dbLock`
has no step. Nothing is said of who gets a mutex that two wait for; with a bound
on requests nobody is overtaken for ever. Under it a request ends or is in one of
the deadlocks (`RequestEnds`).

## 5. What is proved

TLAPS checks these for every value of the constants (any number of threads,
instances, structs, cases, lists of any length).

*Anchor* (`AdaptorAnchorProofs`). `ReferenceCountExact` is not inductive by
itself: a release could find no node, or another's. `AnchorInv` adds where
everything is: nodes are well formed and no instance is on two of them; who owns
a reference is on the anchor; who owns an instance outright (has just created it,
or is about to destroy it) is alone with it and it is not on the anchor; leaked
references keep their instance there; what lives is somewhere. Lemmas first say
what each operator of `Anchor` does to nodes and positions, then one lemma per
group of actions shows that the invariant is kept. The counting argument is in
lemmas on how the cardinality of `Holders` changes when one client moves. The
other safety properties follow from `AnchorInv`. `AnchorImplementsLease` maps
each action to a step of `AdaptorLease` or a stutter, under the invariant (a
discard is allowed because the count was exact).

*Service* (`ServiceProofs`). `ServiceImplementsAnchor` needs no invariant: each
action of `Service` has an action of `AdaptorAnchor` as a conjunct or leaves its
variables alone. So `AnchorInv` holds under services. `ActiveStructSaysSo` needs
`ServiceInv`: a struct belongs to one start, then to one stop; what a thread
activates is its own struct's instance; and while the struct of the active
instance is stopping, its thread has not been at the anchor yet. That last part
(`ActiveOrStopAhead`) is why a second stop cannot come between.
What a struct goes through needs more: `LifeInv` says of each
place in a call what the status, the mutex and `initialized` of its struct are by
then. `LivesOnce` and `CrashOnlyInError` follow from it, step by step and state by
state. `AloneTruthful` (`AloneTruthfulHolds`) needs, besides, what the one thread that
is in a call does to the registry and to the adaptor (`CallTruthful`): a start begins
where none is active and has registered its struct by the time its instance is; a
restart leaves both alone up to the moment where its instance takes the place of
the other; a stop is of the registered struct. It takes that no other thread is in
a call, but for sessions that are open or are being closed, which do not change what
is active.

*Handler list* (`AuthorizationHandlersProofs`). `ChainFrom` follows links by a
recursive function, and the induction theorems of the library cannot be
instantiated, so the module brings its own induction: a set of natural numbers
without a least member is empty, used on the set of bounds at which a partial
function that satisfies the recursion stops being unique or existing. From that,
`ChainFrom` unfolds one link at a time (`ChainUnfolds`) and returns `list` whenever
the links are those of `list` (`ActiveListIs`). `HandlersInv` then speaks of the list
as a sequence: `LinkedAs` says that the links lead through it and to nothing else,
`OrderInv` that it is sorted and holds the started handlers but the one that the
holder of the lock has taken out, `CheckIsAt` where an undisturbed check stands and
whom it has asked; `ThreadInv`, `OwnersInv` and `NodesInv` say which thread answers
for which node. Taking an anchor out is removing a member of the sequence
(`UnlinkedList`), linking one is `InsertAt` before the first of a larger priority
(`LinkInList`, `InsertByPriorityAt`, `InsertedIsSorted`), and what the run says of the
list follows. The counts are a second induction, with `HandlersInv` at hand:
`CountsInv` adds to `ReferencesAreCounted` what a thread that counts has read, at most
one more than was given out and, where no two met, what is in the node still, and that
nothing was given out of a handler that is not yet active. `PartsInv` is the same, one
node and one thread at a time. `CarriedNode` says that a count stays right when
its node moves, `OneNode` that it is the only one of its handler, and a lemma for each
action that writes a count, takes a node over or lets go of one does the arithmetic.

*Decision* (`AuthorizationCheckProofs`). `CheckInv` relates the position, the
decision, and the set of handlers asked; the three properties follow when the
call has returned.

*Transactions* (`AdaptorTransactionsProofs`, `TransactionsHistoryProofs`). First
the locks: `LockInv` says that the calls of a request come in an order in which a
change of an lmdb adaptor finds its transaction begun (`WorkInOrder`), that what a
request has open is its own, and what `ListIsOpen` says, where the count of
`dbLock` is an argument on cardinalities as with the anchor. Then the history,
with `LockInv` at hand: `StagedIsListed` ties the position of each staged change
to the list, `DurableIsPast` says that what is durable has a position behind the
end of the list, since ends are taken from the back, and from the two
`DurableInReverse` follows; `EntryComes` says that a change without an entry has
it still among the calls to come, which is why a commit, that comes when there is
none, leaves no change without (`CommittedIsJournaled`). All of it holds with begins
and commits that fail and crashes at every point.

That requests of one operation do not wait in a circle (`OneOperationGoesOn`) holds
where `NoCircleOfJournals` does: adaptors have ranks, those of journals below those of
what is journaled. A start opens a session of the journal's adaptor first
(`afw_adaptor_impl.c:347`), and a service that is starting is not started once more, so
adaptors that are each other's journal cannot all be started from their confs. Where a
restart with another conf has made such a circle, two updates can wait for each
other, so the hypothesis is needed. `TurnsInv` says of the calls
that are still to come in a first operation that they begin transactions in the
order of the ranks, not one twice, and that an index is created with nothing begun
(`BeginsInTurn`). So in a circle somebody waits in `txn_begin` for a transaction of the
least rank; who has it has not abandoned it, waits, too, and has begun something, so it
is not creating an index: it waits in `txn_begin` for a transaction of a smaller rank
(`NoCircle`).

*Pools* (`PoolTreeProofs`). Four groups of facts, each as long as the one before it
stands. `TreeInv` (`TreeInvariant`) holds whatever happens: the apr pools of a live
pool are a chain of live ancestors, nothing names a pool that is not created yet, and
no link leads out of a family, not even one that is out of date. `Good` holds while
the tree is intact and no pool has lost its last user before its children (`Orderly`):
counts are exact, and for that each frame of a thread's stack has to be accounted for,
since what destroys a pool is either that its count went to zero, so that nothing is
in it (`Spent`), or that a thread owns all that is in it (`Destroys`, `Owns`), and the
users that are pools are the cleanups still to run (`CleanupsInv`). `Lists` holds
while in addition no two threads are in one list: the listed children are the ones
that the links lead through, by numbering them (`ChainPrepended`, `ChainRemoved`), and
a search has not passed what it looks for. From the three, no step finds freed memory
or misses a child (`PoolsInvariant`, `TouchesOnlyLiveHolds`). `NothingLeftBehind` needs
none of the conditions, and an invariant of its own (`Due`): a count is never above
the users and children of its pool, and a live pool with a count of zero is being
destroyed. Were all users below a pool gone, each pool there would have a child, which
is one apr pool deeper (`Deepest`).

*Journal of files* (`FileJournalProofs`). `Trail` and `Log` are a walk over the files,
a recursive function with a bound on its steps. So the first lemmas say that the walk is
defined (`WalkExists`), that a record or a link leads to the next valid cursor and to no
other (`FollowingIsNext`), and that each step brings the end nearer
(`FollowingIsNearer`): from a valid cursor the walk passes every valid cursor behind it,
in order, and reads the entry of every record once (`WalkIsTrail`, `WalkIsLog`), by the
same induction over sets of numbers. Types hold whatever happens (`JournalTypes`). The
rest holds under `OneAdd`: there is one writer, and its adds fail only where the next
one repairs it. That two writers break `AddedIsReadable` is what the run
`file_journal_writers` shows, so the hypothesis is needed; requesters may be as many as
they will and overlap as they will. `JournalInv` has the shape of the files (`GoodFiles`) and, for each place of
the writer, what it has half written and what the lock record says of the end of the
chain. Each step of an add keeps it and extends the journal: what was valid is valid,
and nothing has come in before it (`Extends`), which is all that readers need of
writers. `AddedIsReadable` follows. `ScansInv` and `GivenInv` speak of cursors: a scan
has passed nothing that it wants, and nothing that a consumer wants is missing before a
cursor of its peer object or before the place of its scan. The point of
the second is that a cursor which is out of date is still true, since what was given
stays given: so it holds also of the copies that overlapping requests have read and
write back later (`RespondGivenOn`). `ScanMissesNothing` and `NothingMeansDone` follow,
and `ImplementsJournal`: an entry that is given for the first time was not issued
again, so it is the next that the consumer wants, in the order of the log.

Only model-checked: the liveness properties (`CallsEnd`, `RetiredIsDestroyed`,
`RequestEnds`), since the prover does no fairness. Every other property of a passing
run is a theorem.

Assumptions. `NoInstance` and the other null values are not in the sets they
stand beside; the sets of clients and of threads are finite
and `MaxLeaks` a number; a model adaptor is mapped to, and a journal is, an adaptor
that is no model; cases are well-typed; startup
is one of the four; the entries of a journal are finitely many, and somebody consumes
them. TLC evaluates all of them.

## 6. Where the code and its documentation disagree

Each is a run that TLC ends with a counterexample; quotes and lines are in
`PROJECT.json`.

* **`authorization_restart`** (`ReplacedIsStopping`, `MCAuthorizationRestart.cfg`): A restart loses the handler it replaces: no stopping copy is made, so it is never released. The copy to the stopping chain is made only `if (!authorization_handler)`, for a stop; a restart overwrites the handler and its count, and the replaced instance is never released.
* **`service_run_race`** (`RunningMeansActive`, `MCServiceRunRace.cfg`): Two overlapping starts and a stop leave the registry with a struct that is running and no active adaptor. Between the registration of a new struct (line 493, status still 0, which is error) and its lock at line 1172 a second start passes lines 471 and 1220 and makes a struct of its own.
* **`authorization_stopped`** (`StoppedIsReleased`, `MCAuthorizationStopped.cfg`): An adaptor takes a reference to its handler and does not release it: after a stop the handler stays on the stopping chain, though nobody uses it any more. An adaptor with an authorizationHandlerId gets a reference to the handler (line 311) and calls its destroy instead of releasing it, which the only type of handlers ignores: the count stays one too high, and after a stop the handler and its copy of the anchor stay on the stopping chain.
* **`file_journal_writers`** (`AddedIsReadable`, `MCFileJournalWriters.cfg`): Two overlapping adds: an entry whose add has returned is not found by one who reads the journal from the beginning. The lock file is opened and read, but not locked, so two adds overlap: both see an empty lock file and the later one overwrites the path of the first file, or both append their length and text in turns.
* **`adaptor_transactions_commit`** (`EndedHoldsNothing`, `MCAdaptorTransactionsCommit.cfg`): The first of two commits fails: the request ends with the other transaction neither committed nor aborted, and no later request can begin one there. A commit that throws leaves the loop: the transactions that began before it are neither committed nor released, the sessions are not released, and xctx->cache is not cleared.

What was seen while modelling and has no run, because a run would show no more
than the quoted lines do (`au` is `afw/authorization/afw_authorization.c`, `fj`
is `afw/file/afw_file_journal.c`, `sv` is `afw/service/afw_service.c`, `li` is
`afw_lmdb/afw_lmdb_internal.c`):

* `required` of a handler's configuration is never read by the decision (au:600);
  its description promises that a request is denied when a required handler does
  not decide.
* The check walks the list of handlers without the lock that
  `afw_authorization_internal.h:92` says protects it (au:606). A restart of one
  handler can make a check that is under way miss those behind it (au:1007).
* The check that an adaptor makes of its journal's adaptor compares its own id with
  the name of a lock, so that it is made also when the adaptor is its own journal
  (`afw/adaptor/afw_adaptor_impl.c:343`).
* Objects that are unmanaged get a pool of their own, which the comment says they do
  not (`afw/object/afw_object_memory.c:37`). The conf of a service is cloned into two
  such objects (sv:299, sv:505), whose pools nobody releases, so that a stop whose
  adaptor gives its reference to the pool of the service back
  (`afw/file/afw_file.c:375`) does not free it: every start and restart keeps its
  memory for good.
* A stop of a service whose initialization failed locks a mutex that was never
  created (sv:1278). The error of a failed start or restart is lost with the
  struct (sv:520, sv:1333; the `fixme` at sv:516 says so). A service that its type
  calls permanent is stopped like any other (sv:1280). When a start and a stop
  overlap, an adaptor can be active while its service says stopped or error
  (sv:520, sv:1288).
* `advance_cursor_for_consumer` of the file journal always throws (fj:710), so it
  is no action. `get_by_cursor` at a cursor without an entry goes on to the next
  one. `limit` is ignored. `entryCursor` is set also when there is no entry
  (fj:863), and a client that resumes after it skips the next one. The cursor that
  an add returns is computed from the offset of a file opened for appending,
  before the write (fj:429). The path of a link is read into an array whose last
  byte may not be set (fj:755).
* The macros that begin and end a transaction around a single lmdb call unlock
  `dbLock` a second time when the begin fails (`afw_lmdb/afw_lmdb_internal.h:386`,
  `:445`). The table of open databases is changed under the read side of that lock
  (li:50). `index_create` begins a transaction that nobody ends
  (`afw/adaptor/afw_adaptor_impl_index.c:770`). The lmdb journal looks for a peer
  under another key than the one it saves it with
  (`afw_lmdb/afw_lmdb_journal.c:124`).
* Children are linked into the list of a shared parent without a lock
  (`afw/pool/afw_pool_multithreaded.c:100`), and every service, adaptor and
  configuration file makes its pool in that of the environment (sv:482, sv:1406,
  `afw/adaptor/afw_adaptor.c:563`). Two creates at once can lose one of the two; when
  it is destroyed, "Not a child of parent" (line 128) leaves it half destroyed, its
  cleanups done and its memory in place. The metadata pool of an lmdb adaptor is
  released only when another takes its place (`afw_lmdb/afw_lmdb_metadata.c:46`), so
  that the count of the adaptor's pool never comes to zero; the pool of the
  environment is not destroyed at all (`afw/environment/afw_environment.c:445`).
* An error that a list of actions or a script catches does not undo what was
  staged before it, and the request commits that (`afw/action/afw_action.c:397`,
  `afw/value/afw_value_block.c:860`): the change of an update whose journal entry
  failed becomes durable without it. `CommittedIsJournaled` says what is left: a
  request that met no error.

## 7. Abstractions and limits

* A lock and the section under it are one action, except where somebody reads
  without the lock. Registry lookups are one step: each is under its own lock.
* The struct of a service outlives its adaptor. Adaptor types whose destroy releases
  the pool that both are in (file, model, lmdb, ldap) release one reference of several:
  the pools of the clones of the conf keep theirs (section 6). `destroyed` means that
  the destroy of an adaptor or a handler was called, not that its memory is gone.
* The destroy of the only type of authorization handlers does nothing, so `Discard`
  changes nothing that a check can see. Nothing in the sources releases a reference to
  a handler but a stop its own.
* `service` in `impl_start_cb` is changed inside `AFW_TRY` and read in the
  handler; the model takes it at the value last assigned.
* The stop's own error handler (`afw_service.c:1296`) is not modelled: nothing
  that the adaptor's stop calls throws once an id is registered.
* A write to a file of the journal, and the read of one record, is one step: a
  reader may find a length whose text is still missing, and its call throws
  then, but not half a length. The peer object and the lock record are read and
  written as a whole. An add that ends early ends between two writes
  (`AddThrows`). A request that ends early leaves nothing behind: its only write,
  of the peer object, is the last thing it does. Offsets count cells, not bytes, and an hour is a number.
* A read of lmdb is one step and waits for nobody (lmdb's readers do not block);
  its `dbLock` is taken and given back in that step. A session that cannot be had
  is an error of the call; that the first use may start a service is in
  `Service`. Crashes and failing commits of lmdb are modelled from what its
  documentation promises (external): what was not committed is gone, and the
  mutex of a process that died is free. Requests are those of the fcgi server: the
  local command server ends the list a second time after an error
  (`afw_command/afw_command_local_server.c:415`) and is out of scope.
* A pool's memory is freed whole. What is allocated in it, and the C structs in which
  threads keep its address, are not modelled; `users` stands for them. `Destroy` is
  called by the last user of a pool and of all that is in it, as the execution context
  of a request does with its own (`afw/xctx/afw_xctx.c:443`); a caller that breaks the
  caution the interface asks for (`afw/generate/interfaces/afw_interface.xml`, method
  destroy of pools) is not modelled. Cleanups of pools release pools; what else they
  do is left out.
* One service and one adaptor id; ids do not interact except through services
  that use each other's adaptors, which is not modelled.
* What scripts, handlers and factories compute is an input.

## 8. Plan

Done: 1 `Anchor`, `AdaptorAnchor`, `AdaptorLease`; 2 `AuthorizationCheck`,
`AuthorizationHandlers`; 3 `Service`; 4 `Journal`, `FileJournal`; 5
`AdaptorTransactions`; 6 `PoolTree`; with the proofs named above.

In this order next:

1. **`LmdbJournal`** against the same contract: scan limits and cursors.
2. **`TryCatch`**: nested blocks of the error macros with rethrow and finally;
   then flags (table and size), logs, and the modify and index algorithms as
   operators against reference definitions.
3. Extensions: several services whose factories use each other's adaptors
   (waiting in circles), automatic start of handlers, publication of the control;
   transactions of a local command server, which ends the list of a request a second
   time after an error.
