# QThybrid in TLA+

QThybrid is a C++ framework for desktop applications whose user interface is a web page.
Its library, `htmapp`, brings its own threads, locks, events and sockets, a thread pool and a
shared property bag (`tq`), and an HTTP server; `cii` compiles pages into C++, `frwk` shows them
in a Qt window, and the examples use all of it.

This directory models the concurrent core of `htmapp`, what several threads, or a client and the
server, do to the same state, and the one application of it in the repository that is more than
pages, the disk indexer of the example. All paths below are relative to `src/`. Only the POSIX
implementation is modelled.

Contents

1. [The system](#1-the-system)
2. [The modules](#2-the-modules)
3. [What the runs check](#3-what-the-runs-check)
4. [What is proved](#4-what-is-proved)
5. [Behaviours found while modelling](#5-behaviours-found-while-modelling)
6. [What is not modelled](#6-what-is-not-modelled)
7. [Plan](#7-plan)

To check a run: `tlc -config MCThreadPool.cfg MCThreadPool`. To check the proofs:
`tlapm ThreadPool_proofs.tla`. `PROJECT.json` lists the runs, the source lines of every
definition, the hazards of the code with the properties that cover them, and for every property a
mutant of the code that breaks it.

## 1. The system

| Component | Source | State | Operations |
|---|---|---|---|
| Events | `htmapp/src/threads-posix.hpp` (`CThreadResource`, event) | flag, mutex, condition variable, reference count | Wait, Signal, Reset |
| Locks | same file, `threads.cpp` (`CScopeLock`) | recursive mutex, owner, count, waiters | Lock, Unlock, isLocked |
| Thread objects | `htmapp/src/threads.cpp` (`CThread`), `threads-posix.hpp` | handle, exit event, stop flag and event, init event and status, global count of running threads | Start, Stop, destructor, ThreadProc |
| `tq` thread pool | `htmapp/src/threads_queue.cpp` (`CThreadPool`) | names, commands, pool of workers, next id, event | start, stop by name, stop by id, manager DoThread and EndThread |
| `tq` property queue | `htmapp/src/threads_queue.cpp` (`set`, `get`, `swp`, `wait`) | global property bag, wait pool of events by key, one lock | set, get, swp, wait |
| `tq` start-up and shutdown | `htmapp/src/threads_queue.cpp` (`init`, `uninit`) | the four globals: pool, property bag, wait pool, lock | init, uninit |
| HTTP server | `htmapp/include/http_server.h` | listening socket, list of sessions, limits, callbacks | StartServer, accept (two ways), cleanup, restart, EndThread |
| HTTP session | `htmapp/include/http_session.h` | receive buffer, parsed head, error code, page text, keep-alive | OnRead, ReadHeaders, ProcessRequest, SendReply, WritePort |
| HTTP session data | `http_session.h`, `http_server.h` | a bag of sessions, their times and addresses, a lock, the cookie of each client | RestoreSession, SaveSession, CreateCookie, DecodeCookie, CleanupSessions |
| Sockets | `htmapp/src/sockets-posix.hpp` | descriptor, sticky event and connect flags, last error | Create, Bind, Listen, Accept, WaitEvent, Recv, Send |
| Indexer thread and pages | `examples/simpleapp/cpp/index_thread.cpp`; `graph`, `drives` and `data` in `examples/simpleapp/htm` | the keys below `indexer` in the property queue, the thread's stop flag and event | post a job, start, stop, ask for an update; the thread and its callback |
| File index | `examples/simpleapp/cpp/file_index.cpp` | blocks linked by offsets in one buffer, a chain of removed blocks, sizes | AddChild, AddSibling, RemoveBlock, RemoveChildren, Init |
| Sequential utilities | property bag, parsers, strings, disk, resources | - | - |
| `cii`, `frwk` | `cii/`, `frwk/` | the text being generated; the window | - |

How they interact. `tq::start` and `tq::stop` leave commands for a *manager thread*, which is a
`CThread` and owns the *workers*, which are `CThread`s too. A `CThread` talks to its own thread
through three events and a flag. `tq::set` and `tq::wait` meet at an event per key, under one lock
that `tq::uninit` holds while it stops the pool. The HTTP server is a `CThread` as well; it creates
either one `CThread` for each connection, or a single one that walks the list of all connections.
All connections share one bag of session data, which the server thread cleans. The indexer is a
worker of the pool; the pages that control it, and read its results, run in other threads and
share nothing with it but keys of the property queue. Everything that waits does so with a time
limit, and most callers do not look at whether it expired.

What is hard, and what makes each part correct:

| Component | Hard because | Correct when |
|---|---|---|
| Events | half of the operations touch the flag without the mutex | no wake-up is lost; a signal lets everyone go |
| Thread objects | a thread can be stopped, given up, started again and cancelled at any point of its life | nothing of a life is left when the next begins, and nothing at all after the destructor |
| Thread pool | start and stop are only recorded; the manager carries them out later, in another order, and blocks on the way | no command is lost; a name has one thread; an id has one life; stopping the pool leaves nothing |
| Property queue | the event of a wait is shared, counted and freed by threads that come and go | a write wakes those who wait; the event lives as long as it is waited on, and no longer; no old signal ends a wait |
| Shutdown | `uninit` waits, with the lock its own workers need, and every wait has the same limit | it ends; what it deletes is not in use |
| HTTP server | sessions end at any time, the socket fails, the user starts it twice | sessions outlive their threads; the limit holds; every client is answered; stopping ends |
| Single session thread | two threads use one list and do not exclude each other | the limit holds; an admitted session is not taken away; stopping ends; (not: the list is guarded) |
| HTTP session | requests arrive in pieces and more than one at a time; the state of one must not reach the next | the buffer is bounded; one reply a request, in order; each with its own body and outcome; none forgotten |
| Session data | each request works on a copy; the cleanup erases what a request will write back | what was kept last is what is found; nothing comes back; nobody sees another address's data |
| Indexer | a job is four keys that are read and cleared one at a time, by two sides | a job is not lost, not ended for nothing, and taken in the end |
| File index | sizes and links are changed block by block on the way through a recursive removal | sizes are sums; a block is in one place; a handle stands for one entry |

## 2. The modules

| Module | Models | State ↔ code | Actions ↔ code |
|---|---|---|---|
| `WorkerContract` | abstract specification | what a thread object promises its owner: the phases of its life and the moves between them | |
| `ThreadPool` | the thread pool | `m_id`, `m_names`, `m_cmds`, `m_event`, `m_enable` are the members; `phase` is `m_tp` with the state of each worker; `mpc` and `cur` are the manager's program counter and local command | `Start`, `StopName`, `StopId` are the critical sections of the callers; `Mgr...` the steps of DoThread and EndThread between two locks or two waits; `StopPool`, `DeletePool` are what `tq::uninit` does to the pool |
| `ThreadLifecycle` | `CThread` | `valid`, `sync` are the handle and its exit event; `stopFlag`, `evStop`, `evInit`, `initStatus` the members; `tpc` where ThreadProc is; `reg` the copy of the global count between load and store | one action for each step of ThreadProc that another thread can see; `Start`, `Begin...`, `Stop...`, `Destroy...` are the calls of the owner, split where they wait |
| `SyncEvent` | the event | `manual`, `signaled`, `mutex` are the members; `asleep` the threads in `pthread_cond_timedwait` | Wait in seven steps, Signal in three, automatic reset and Reset in one |
| `PropertyQueue` | one key of the property queue | `version` is the value; `node` the entry of the wait pool; `ref`, `signaled` its event; `w` the pointer a waiter keeps between its critical sections, `bRet` what it will return | `Write` is the critical section of `tq::set` and of `tq::swp`; `WaitEnter`, the wait itself, `WaitLeave`, and `WaitLockFails` when the lock is not got for the second critical section |
| `TqSystem` | `tq::init`, `tq::uninit`, with the pool, the workers and the property lock in short | `bag`, `lock`, `pool` are the globals; `owner` the property lock; `timer` what is left of the time limit each thread waits with; `main`, `mgr`, `wpc` the program counters | `Uninit...`, `PoolStopped`, `StopAgain`, `DestroyPool`, `Delete...` are `uninit` and the pool's destructor; `Mgr...` the three waits for a worker and the cancel; `BeginSet`, `Set...`, `BeginStart` a worker's calls, and `Leave` its look at the stop event; `Tick` is time |
| `Admission` | abstract specification | what the server promises its clients: a connection only moves forward, and a limit is kept | |
| `HttpServer` | the server with a thread for each connection | `list` is `m_lstSessionThread`, `it` the cleanup's position in it, `thread` the thread of each element; `sock`, `ready`, `queue` the listening socket, its sticky event and the kernel's queue; `event` the last callback | StartServer, Stop; the steps of InitThread, DoThread, MultiAccept, the restart and EndThread; CleanupConnections element by element, as sessions end between two of its looks |
| `SingleSession` | the server with one thread for all connections | `list` is `m_lstSessionInfo`; `port`, `init` the state of an element; `it`, `left` the locals of the walk | SingleAccept and the walk of the session thread, one action for each access to the list |
| `HttpSession` | one connection | `rx`, `head`, `code`, `content`, `fresh` are the members of the session; `net`, `closed`, `errno`, `err` the socket; `replies` what the client has got | the client; OnRead, by its outcomes; WritePort while the send buffer is full |
| `SessionStore` | the session data of all connections | `store` is `m_pbSession` with the time and address in each session; `id`, `copy`, `isNew` the members of each connection's session; `cookie` what each client was sent last | RestoreSession and SaveSession, each one critical section; CleanupSessions; `Reconnect` and `Tick` are the world |
| `IndexThread` | the indexer and the pages that use it | `job`, `run`, `cancel`, `progress`, `update` are the keys below `indexer`; `flag`, `event` the thread's; `mine` and `scan` its locals; `named`, `toStop` the pool as `ThreadPool` promises it | one action for each `tq::get` and `tq::set`; `Scan...` is `CFileIndex::Index` between two callbacks |
| `DirTree` | abstract specification | what users of a file index count on: a tree of entries, a handle for each | |
| `FileIndex` | `CFileIndex` | `idx` is the whole of an index: links and sizes of the blocks, `m_deleted`, `m_block_offset`, the size of the buffer | each operation of the class, as a function from one state to the next; the walks along links are one recursive function (`Reach`), and the recursion of RemoveChildren() another (`RemoveList`) |

Composition. `ThreadPool` and `ThreadLifecycle` are composed through `WorkerContract`: the pool is
shown to use its workers only as the contract allows (`phase` in the pool is the contract's state),
and thread objects to keep it (`phaseOf` is the refinement mapping), so what the pool assumes of a
worker is what a worker does. `HttpServer` implements `Admission`, `FileIndex` implements `DirTree`.
`TqSystem` composes the pool, its workers, the property lock and the main thread. `IndexThread`
takes from the pool only what `ThreadPool` is proved to promise: one thread at a time has a name.

Conventions. A program counter separates two actions wherever the code releases a lock, waits, or lets
another thread see what it did; a critical section is one action. A time limit may expire at any moment
the code could be waiting, so all results hold whatever the durations are; only `TqSystem` compares
durations. A call that can fail for a reason outside the code (`pthread_create`, `accept`, `bind`) has
both outcomes. A cancelled thread may take the process with it (section 5): where `aborted` is a state,
nothing happens after it; in the other modules such a run just ends. Definitions named `Bug...` are
mistakes in the definition that follows; no action uses them. They are there to show that the properties
notice such mistakes.

Data is abstracted to what the properties tell apart. Names, threads and connections are model
values. The value of a key is the number of its write, a job is the number of its post, and what a
page keeps in its session is a count. The bytes of a request are cut into units: the first part of
the head, its end, the bytes of the body, and the line break that some browsers add. A block of the
file index is its offset divided by the size of an item.

Some variables do not exist in the code. `nameOf` in `ThreadPool` keeps the name that the code stores
with the command and the worker (`SCmdInfo.s`), in one place. The others are history variables, which
actions write and no guard reads, except as bounds: `lost` in `ThreadPool` has the ids that a
`stop(name)` gave up while it read another value in their place; `clean` in `PropertyQueue` becomes
false when two waits on the key have overlapped or one has ended without the lock; `refused` and
`worked` in `TqSystem` count, for the worker the manager waits for, the calls that came to nothing while
`uninit` had the lock and the ticks of its own work; `last` and `shared` in `SessionStore` are what was
kept last in a session and the sessions that were in two requests at once; `posted`, `exposed`, `taken`,
`done`, `by` and `raisedBy` in `IndexThread` are what has become of each job; `own` and `emptied` in
`FileIndex` are the sizes that blocks were added with, and whether a branch was emptied by itself.

## 3. What the runs check

Twelve runs: eleven that pass, with every action of every module fired, and one that shows a place
where the code does not do what its own comment says. The types of all variables are stated in every
module as `TypeOK` (`EventTypeOK`, `SingleTypeOK` in the two whose proofs share a module with another
component's); where it is proved it is not checked again by a run.

### `thread_pool` (`MCThreadPool.cfg`)

Two names and the anonymous one, two ids. Two ids are the least with which commands can overtake
each other and a name can be reused; each id can be started, stopped by name and by id, repeatedly, in every
order, and the pool can be stopped at any point.

- `NoLostCommand`: a command that waits in `m_cmds` always has `m_event` signaled. The manager
  resets the event under the lock after it has seen no command.
- `OneThreadPerName`: two threads never run under one name, although `stop(name)` frees the name
  at once and the old thread may go on for minutes. It holds because commands are carried out in
  the order of ids, by one manager, that waits for the old thread.
- `StopNameReaches`: once a name is free, the thread it stood for is dead, or its end is queued or under way.

`stop(name)` reads the id out of a map node it has just erased (section 5), so what it reads is any
number: `FreedNode` has every one that makes a difference, and each `stop(name)` of the run chooses. The
two properties say what that costs and what it does not. The thread whose id was not read back (`lost`)
goes on without a name, and later ones of that name may run beside it. Of all other threads both
properties are true, also of the one that is stopped in its place.

- `KeepsContract`: the pool uses workers only as `WorkerContract` allows.
- `Served`: a command is carried out once the commands of lower ids stop coming.
- `StopPoolEnds`: stopping the pool ends the manager and all workers, and the manager is the last.

Both except a cancel that ends the process. 184,677 states.

Fairness: only of the manager, which never waits without a limit. Nothing is assumed of the users'
functions: they may run for ever.

### `thread_lifecycle` (`MCThreadLifecycle.cfg`)

Two objects, two starts between them: both of one object, for a thread that meets the remains of the
last, or one of each, for the count they share.

- `NotRunningIsOver`: an object that does not look like running has no thread that could still
  touch it, which is why Start() may reset its events and replace its handle.
- `StopLeavesNoThread`: what Stop() returns can be relied on, both ways. After 0, and after the
  destructor, there is no thread and no handle; after any other value nothing was killed and the object
  still has its handle, so that it can be stopped again. This is the code's convention, not the one
  of the documentation (section 5).
- `InitPublished`: whoever has waited for the init event reads the result of this thread's
  InitThread, not of an earlier one.
- `AtMostOneLateCall`: after a stop request DoThread is called at most once more.
- `KeepsContract`: thread objects implement `WorkerContract`.
- `StopReaches`: a stop request ends a thread whose functions return, even if Stop() gave up.

Thread creation may fail, EndThread may throw, and a cancel may end the process. 345,508 states.

Fairness: a call of the owner goes on, as every wait in it is limited. `StopReaches` adds, in its
own premise, fairness of the thread it is about.

### `sync_event` (`MCSyncEvent.cfg`)

Two waiters, two signalers, both kinds of event: enough for a signal to arrive between any two
steps of a wait, with another waiter on each side of it.

- `NoLostWakeup`: nobody sleeps on a signaled event, except before the broadcast that is due.
- `SignalReleases`: while a manual reset event stays signaled, every sleeper is let go.

Fairness: calls that have begun go on, and a mutex that is free again and again is got (strong
fairness of the operating system's mutex). Nothing assumes that a time limit expires.

### `property_queue` (`MCPropertyQueue.cfg`)

Two waiters, three writes, three entries, three references: 327,791 states.

- `SetWakesLoneWaiter`: a write signals the event of the one that waits, also if that one has not
  come to the wait itself yet.
- `LoneWaitSafe`, in three parts: the event holds a reference while it is waited on
  (`EventOutlivesWaiter`), none is left allocated when nobody waits (`NoEventLeak`), and a wait that
  was ended by the event was ended by a write that came after it began (`WokenByNewWrite`).

Both hold until two waits on the key overlap or one ends without the lock (`clean`), and only so, see
section 5. A wait that was ended by the event returns FALSE (`Outcome`), and is what
`WokenByNewWrite` speaks of. `tq::get` changes nothing here and is left out.

### `tq_shutdown` (`MCTqSystem.cfg`)

Two workers that call `tq::set` and `tq::start` as often as they like, look at their stop event when they
like or never, and work for any time in between; and a time limit of two ticks: 64,980 states. One worker
blocks another with the property lock, and a limit of two ticks lets a wait begin in the middle of
another one. With three ticks, tried once, there are 133,824 states and nothing new.

- `UninitEnds`: `uninit` comes to its end, although it holds the lock that the workers it waits for
  are waiting for. Nothing but time limits resolves that.
- `NoUseAfterDelete`: once the pool, the bag or the lock is deleted, no worker is in it, and none
  that has passed its test of the global is still on its way. The code tests the globals without the
  lock; what protects it is that the pool has ended its workers before. One exception: when a worker
  was cancelled inside its critical section, nobody gets the lock any more, `uninit` skips the pool
  and deletes the lock with workers alive.
- `PoolOutlivesManager`: `uninit` does not look at the result of Stop(), and the destructor of the pool
  destroys the members whether the manager has ended or not. It waits for two limits before, and the
  property says who must have used them up: the workers the manager waited for, by two calls of
  `tq::set` that waited in vain for the lock `uninit` holds; by one such call and a limit of their own
  work; or by two limits of their own work before they looked at the stop event. Each of the three does
  happen. If the functions take less than one limit between them, and make one such call, the pool is
  safe.

Time is explicit: `Tick` lets it pass for all limits alike, and only when no thread has anything to
do but wait: `AllIdle` spells out, thread by thread, that none of the steps in `Urgent` is enabled. This is
how limits of a minute relate to steps of microseconds.
A function works at least one tick after a call, or it could call for ever without time passing. A
function at its own work never holds time up.

Fairness: the main thread, time, the manager and the steps of a worker that it has begun. Nothing of
what a function does between its calls.

### `http_server` (`MCHttpServer.cfg`)

Three connections, a limit of three (so two are served, see section 5), a queue of two, two calls
of StartServer: the limit, a full queue, a second start in any state of the first, and a socket
that fails at any moment. 52,778 states.

- `NothingOutlives`, in two parts. `ThreadsHaveSessions`: no session thread runs without its list
  element, which owns its port and buffers, although the cleanup erases elements while threads end
  between two of its looks. `NothingLeft`: after the disconnect event there is no session, no session
  thread and no socket, also if the server was started while it was running.
- `KeepsPromise`: the server implements `Admission`.
- `ClientsAnswered`, `SessionsReclaimed`, `StopEnds`: clients do not wait for ever, ended sessions
  are freed, and a stop request ends the server.

Fairness: of the server thread, which has no unlimited wait; strong fairness of a successful accept and
of a successful restart, that is, the system runs neither out of descriptors nor out of ports for
ever. Nothing is assumed of clients and sessions.

### `single_session` (`MCSingleSession.cfg`)

A limit of three, four clients, five elements: one client more than the limit, and an accept that
fails, with a client waiting or without one. 992,178 states.

- `LimitKept`: fewer sessions than the limit are admitted, although the size of the list is tested while the
  other thread changes it.
- `AdmittedUntouched`: the two threads do meet half-built and erased elements, but such an element
  is always one that was not admitted yet; an admitted session is not taken from under the thread
  that serves it, except by the end of the server.
- `StopEnds`: stopping ends the server thread even if a session never returns.

The model ends at an access through a null port or to an erased element, which the code can reach;
what it checks is what holds up to then, and which element it can be.

### `http_session` (`MCHttpSession.cfg`)

Two clients: one that pipelines a bad head, a request with a body and a line break after it, and one
whose body is larger than the limit of six units; and one that sends a form, a page, a bad head and
another page, and waits for each reply. The units arrive in pieces of every size. 21,494 states.

- `OwnBytes`: the receive buffer stays below the limit (`RxBounded`), so Read() is never called with
  room for nothing, which it would take for no limit; and a page runs with the whole body of its own
  request and nothing else.
- `RepliesInOrder`: one reply a request, in the order of the requests.
- `OutcomeUnlessBad`: a reply carries the outcome of its own request, unless one before it on the
  connection was answered as a bad head. The exception is needed, see section 5.
- `NoneForgotten`: a complete request of a client that waits is never left in the buffer until the
  connection is dropped.

### `session_store` (`MCSessionStore.cfg`)

Two clients, one of which sends its id back in the form the code reads, three connections, two
addresses, two ids, two changes of a session, a session that expires after one tick: 1.74 million
states. Three connections let two requests of one session overlap while a third belongs to another
client; expiry, the limit on sessions and a page that marks its session invalid all happen.

- `FindsLastKept`: what a page finds in its session is what was last kept there for the same
  address, or nothing. Nothing older comes back after the session was changed, marked invalid or
  cleaned up. Two requests of one session that overlap are the exception, as each writes its whole
  copy back.

### `session_store_cookie` (`MCSessionStoreCookie.cfg`), which ends in a violation

The same with browsers only, which send back the cookie they were sent. `CookieRestores` is the
comment "Attempt to recover our data" (`http_session.h:571`): a request with the id of a session
that is valid is given that session. TLC shows the second request of a browser with a session of
its own: CreateCookie writes the id as in a URL and DecodeCookie reads JSON, which finds nothing.

### `index_thread` (`MCIndexThread.cfg`)

Two jobs, two threads: 20,740 states; with three jobs there are 429,081 and nothing new. The second
job can arrive at any point of the first, and the second thread can be asked for while the first is ending.

- `JobNotLost`: the last job posted waits in the queue, marked to be run, until a thread has it.
  Two windows are excepted, where `index_thread` clears what it has not read: between its copy of
  the job and the clearing of the two flags, and between the stop of a thread and the
  `tq::set( "indexer", "" )` at its end.
- `JobScanned`: a job is reported as done before its tree is whole only if there is a newer job, its
  thread is to stop, or an earlier cancel in the same thread has left the stop flag raised.
- `JobTaken`: a job is taken in the end, outside of the two windows.

Fairness: a page that has posted calls `tq::start`; the page that shows the map asks for updates on a
timer, which is what lets a scan see the cancel flag; the pool's manager, by `thread_pool`; and the
thread. A scan need not end by itself.

### `file_index` (`MCFileIndex.cfg`)

Five blocks, two of which the index takes itself, in a buffer that must grow once; files that weigh
nothing and files that weigh something: 6,977 states. Trees of up to four levels; every block can be
removed and used again. Six blocks, checked once, show nothing new.

- `SizesAreSums`: a directory weighs what the files below it weigh, after any sequence of additions
  and removals. A recursive removal takes the size of every level off the same ancestors, so this
  looks wrong, and is not: what is taken too much from the removed block itself is put back when
  its own (then negative) size is taken off. Only RemoveChildren() by itself on a branch of several
  levels has nothing to put it back; no code calls it so.
- `BlocksAccounted`: every block taken is in the tree or in the chain of removed blocks, not in both,
  and the chain ends, so that no block is in it twice. The buffer of the instance is, as that of the
  code, no multiple of a block in size; section 4 says why that matters.
- `ImplementsTree`: the blocks implement `DirTree`.

### Bounds

| Bound | Why it is there | Why it is enough |
|---|---|---|
| `MaxId` = 2 | ids only grow | safety is proved for every `MaxId`; liveness of an id depends on itself and on lower ones |
| `MaxStarts` = 2 (threads), 2 (server) | a start is always possible again | the second start meets everything the first can leave; a third would meet the same |
| `MaxLate` = 2 | counts calls after a stop | one more than the property allows |
| `MaxVersion` = 3, `MaxNodes` = 3, `MaxRef` = 3 | writes, entries and references never end | a stale signal, a missed one and a following good one fit; an entry, its replacement and a third |
| `MaxRefused` = 2, `MaxWorked` = 2 limits | calls and work of a function never end | what `uninit` does not outlast: the property does not tell more apart |
| `Limit` = 2, one tick of work after a call | a minute | all limits are the same one; two ticks let waits begin at different times |
| `MaxQueue` = 2, `MaxConnections` = 3 | members of the code, small | the queue can be full and the limit reached with one client more to come |
| `MaxClients` = 4, `MaxElements` = 5 | elements are never reused | one client over the limit and one element for a failed accept |
| `MaxRequest` = 6 | member of the code, small | a head and body fit, a large body does not |
| `MaxIds` = 2, `MaxVal` = 2, `MaxSessions` = 1, `Timeout` = 1, `DropAge` = 0 | ids, changes and time never end; the limits are members of the code, small | a change, one that overwrites it, a session beside it and one too many; safety is proved for all |
| `MaxJobs` = 2, `MaxThreads` = 2 | pages post for ever | safety is proved for all; the threads before a job leave only the flag, the keys and the name |
| `MaxBlocks` = 5, `Sizes` = {0, 1}, `Room0` = 8 | a tree grows for ever; the buffer begins with room for some blocks | four levels, siblings on two of them, a chain with a branch in it, and growth |

Deadlock is not checked: all of these systems may come to rest, when the bounds are used up or
after the last stop.

## 4. What is proved

The theorems are in eight modules and hold for all values of the constants: any number of names,
ids, threads, objects, starts, writes, clients, connections, jobs and blocks.

| Module | Theorem | States | Rests on |
|---|---|---|---|
| `ThreadPool_proofs` | `TypeCorrect` | `[]TypeOK`, and what the manager has in its hands | `HandOK` |
| | `NoLostCommandHolds` | `[]NoLostCommand` | `TypeOK` |
| | `OneLifeHolds` | the action property `OneLife`: no command restarts or replaces the thread of an id | `StartFresh` |
| | `KeepsContractHolds` | the pool implements `WorkerContract` | `StartFresh` |
| | `OneThreadPerNameHolds` | `[]OneThreadPerName` | `NameInv` |
| | `StopNameReachesHolds` | `[]StopNameReaches` | `NameInv` |
| | `EventTypeCorrect` (of `SyncEvent`) | `[]EventTypeOK`, mutual exclusion included | `EventInv` |
| | `NoLostWakeupHolds` (of `SyncEvent`) | `[]NoLostWakeup` | `EventInv`, with `Drowsy` |
| `ThreadLifecycle_proofs` | `TypeCorrect` | `[]TypeOK`; the count of threads is never negative | `IInv` |
| | `NotRunningIsOverHolds` | `[]NotRunningIsOver` | `Linked` |
| | `StopLeavesNoThreadHolds` | `[]StopLeavesNoThread` | `Linked`, `Dropped` |
| | `KeepsContractHolds` | thread objects implement `WorkerContract` | `Linked` |
| | `InitPublishedHolds` | `[]InitPublished` | `Linked`, `Fresh` |
| | `AtMostOneLateCallHolds` | `[]AtMostOneLateCall` | `Fresh` |
| `PropertyQueue_proofs` | `LoneWaitHolds` | `[]LoneWaitSafe` | `LoneWait` |
| | `SetWakesLoneWaiterHolds` | the action property `SetWakesLoneWaiter` | `LoneWait` |
| `TqSystem_proofs` | `TypeCorrect` | `[]TypeOK` | `Safe` |
| | `NoUseAfterDeleteHolds` | `[]NoUseAfterDelete` | `OwnerOK`, `ManagerOK`, `Deleted`, `Calm` |
| | `PoolOutlivesManagerHolds` | `[]PoolOutlivesManager` | `Safe`, `Paid` |
| `Indexer_proofs` | `TypeCorrect` | `[]TypeOK` | |
| | `JobKept` | `[]JobNotLost` | `LostInv` |
| | `EarlyEnd` | `[]JobScanned` | `ScanInv` |
| | `BlocksTypeCorrect` (of `FileIndex`) | `[]BlocksTypeOK` | `BlocksInv` |
| | `SizesAreRight` (of `FileIndex`) | `[]SizesAreSums` | `BlocksInv`: `IsIndex`, `AreSums` |
| | `IndexIsATree` (of `FileIndex`) | the index implements `DirTree` | `BlocksInv` |
| | `BlocksAreAccounted` (of `FileIndex`) | `[]BlocksAccounted` | `BlocksInv`, with `AllKept` |
| `SessionStore_proofs` | `TypeCorrect` | `[]TypeOK` | `Types` |
| | `LastKeptIsFound` | `[]FindsLastKept` | `StoreIsLast`, `TwoAreShared` |
| | `SingleTypeCorrect` (of `SingleSession`) | `[]SingleTypeOK` | `ListType`, `RestType` |
| | `LimitKeptHolds` (of `SingleSession`) | `[]LimitKept` | `ListType`, `HalfBuilt` |
| | `AdmittedUntouchedHolds` (of `SingleSession`) | the action property `AdmittedUntouched` | `Admitted`, `HalfBuilt` |
| `HttpServer_proofs` | `NothingOutlivesHolds` | `[]NothingOutlives` | `SocketDown`, `ListEmpty` |
| | `KeepsPromiseHolds` | the server implements `Admission` | `PInv`: `Came`, `Waiting`, `Threaded`, `Small` |
| `HttpSession_proofs` | `OutcomeHolds` | `[]OutcomeUnlessBad` | `Clean`, `BadBefore` |
| | `BufferBounded` | `[]RxBounded`, the first part of `OwnBytes` | `Pieces` |
| | `RepliesInOrderHolds` | `[]RepliesInOrder` | `SInv`: `Run`, `HeadOK`, `Replied` |
| | `OwnBytesHolds` | `OwnBytes`, which is about steps | `SInv` |
| | `NoneForgottenHolds` | `NoneForgotten`, which is about steps | `SInv`, with `InTurn` |

`ThreadPool_proofs` ends with the proofs of `SyncEvent`, `SessionStore_proofs` with those of
`SingleSession`, and `Indexer_proofs` with those of `FileIndex`: they have sections of their own
there and use nothing of the first component.

Assumptions: the named ones of the modules (`MaxId` positive, the empty name is no name, waiters and
signalers are different threads, no worker has the name of another thread of `TqSystem`, each connection
has a client, a request of a script has a body of some length, limits and bounds are natural numbers,
the limits that the code compares with positive, the index has two blocks at least and a buffer that
holds them). None of them is about what the code reads or how long a function takes:
`OneThreadPerNameHolds` and `StopNameReachesHolds` let `stop(name)` read any id out of the erased node.
`BlocksAreAccounted` is about buffers whose size is no multiple of the size of a block (`Room0 % Item #
0`). The only index the code makes has one of 1 MByte (`index_thread.cpp:234`), 65,536 units of 16 bytes
where a block has three. For another size the property is false: NewBlock() lets a block end just where
the buffer ends, getItem() does not (`file_index.h:82`), and AddChild() returns without the block, which
is then lost. TLC finds that with `Room0 = 9`.

The argument of the pool. None of the properties is inductive alone. `HandOK` ties the manager's program
counter to the command in its hands. `StartFresh` says that a start which is queued or in the manager's
hands is for an id that is still unborn: it is what makes a start happen once, since `start()` is the
only one to queue it and hands out each id once, while a stop only overwrites. `NameInv` follows a name
through the system: a name points to an id that carries it (`NamesOK`); a start that is still queued
owns its name, and one in the manager's hands owns it or has a stop queued behind it (`StartsOK`); a
thread that has lost its name is queued for the end, or about to be ended (`StopNameReaches`); while a
start is in the manager's hands, no thread of that name is alive (`HandAlone`). An id in `lost` is
excepted in each of these. The last is the point where the order of the map of commands is used: the
stop of the old thread has a lower id than the start of the new one, and is carried out first.

The argument of the event. `EventInv` adds to `NoLostWakeup` that nobody falls asleep on a signaled
event (`Drowsy`: between the second look at the flag and the sleep the mutex is held, and the flag
is set under the mutex) and that the sleepers are where they should be. Reset() takes no mutex but only clears
the flag, which makes the invariant easier.

The argument of the thread objects. The handle, its exit event and the place of the thread in ThreadProc
are set by different threads at different times, and yet never disagree (`Linked`): a handle is valid as
long as there is a thread, and its exit event is signaled just when the thread is over. So
`isRunning()`, which looks at the first two, says something about the third. A destroyed or stopped
object has no handle (`Dropped`). `Fresh` follows the init event and the calls of DoThread: Start()
clears what the last thread has left before the next one is created, and a thread that has not been
asked to stop owes no late call. The two contract theorems together are the composition: the pool never
asks of a worker what a thread object does not allow.

The argument of start-up and shutdown, in two parts. `NoUseAfterDelete` follows the property lock:
it belongs to a writer, to the main thread while it stops the pool, or to a thread that was cancelled
(`OwnerOK`), and never to the manager. What `uninit` deletes under it is deleted after the manager has
exited, and a manager that has exited has left no worker (`ManagerOK`, `Deleted`). If `uninit` did not
get the lock, a whole limit has passed; a writer waits for nothing, so no time passes while one has
the lock, and the lock was orphaned (`Calm`).

`PoolOutlivesManager` is an account of time. While `uninit` waits for the pool, time passes only if the
worker that the manager waits for is at its own work or is itself waiting for the lock (`TickWaits`).
Each tick of the first kind is counted in `worked`; of the second kind there is at most one limit for
the call that was refused (`Refusals`), and what has passed of the call that is waiting now (`Waited`).
So all that has passed of the two limits of `uninit` is in the sum of these three (`Paid`), until the
counts are at their bounds; and a sum of two limits is what the property says. When a worker goes, what
it has used up must stay in the account: a call that the cancel cuts off counts as made in vain. Nothing
is assumed of how the functions behave. The clock's guard is written out as `AllIdle`, since the prover
has no ENABLED.

The argument of the property queue. While no two waits have overlapped and each has removed its entry, there is
at most one waiter, it owns the only entry, the entry has one reference, and it is signaled only by
writes that came after the wait began (`LoneWait`).

The argument of the indexer. A job can be lost only by whoever clears a key. `LostInv` says that a
thread which is about to clear a flag has taken the last job or is in a window (`Cleared`), that a
thread which is to stop is in the other window from that moment on (`Stopping`), and that only such
a thread gets to the end (`ExitIsStop`). `ScanInv` orders the jobs: during a scan a raised cancel
flag belongs to a newer job than the one being scanned (`NewCancel`), because the thread has cleared
the flag after it took the job; so the stop flag was raised for an older job, for a newer one, or
for a tree that is whole (`RaisedWhen`).

The argument of the file index. `BlocksInv` says that there is a set of blocks which is the tree, and
`IsIndex` what that means for the links: following `parent` from a block of it ends at the root, the
`child` of each directory begins a list of just the blocks that have it as their parent, and
`m_deleted` begins a list of blocks that are not in the tree. That nothing goes in a circle is said
by ranks, numbers that fall along the links; a step that links a block anew finds new ranks for
it. `Reach` is shown to be the smallest set that is closed under the links (`ReachFacts`), and
nothing else is used of its recursion; so `Children`, `Ancestors` and `Subtree`, which read the links as
the code does, are what the parents say (`ChildrenAreKids`, `SubtreeIsBelow`).

RemoveChildren() is recursive in two directions, along a list and down the tree. `RemoveListEmpties` is
by induction on its bound: of a list with at most n blocks in it and below it, `RemoveList[n]` leaves
the entries linked as they are, without anything below them, and all that was below in the chain of
removed blocks. So the bound of `RemoveList`, the number of blocks, is never reached. Above the list
every block loses the same amount, whatever that is (`Removed`): this is what makes the sizes right.
RemoveBlock() takes off what is left of the size of the block itself, and what has been taken off too
often before cancels out (`RemoveBlockSums`). RemoveChildren() alone is right if the entries it removes
have none of their own (`RemoveChildrenSums`), which is what `emptied` is about. TLC cannot evaluate an
invariant that says there are a set and ranks; what it checks are the consequences, which determine the
set.

No block is lost if the pointer to a new block is always there, for which the buffer must have
room for one more than were taken (`Roomy`). A size that is no multiple of a block stays so when
it doubles, and then NewBlock(), which grows the buffer too late by one byte, is in time
(`RoomForOneMore`).

Recursive functions are reasoned about with two lemmas, which are proved from the least element of a set of
numbers, as the provers cannot use theorems about predicates: induction for a set (`AllNaturals`),
and that a function defined by recursion on a number exists (`Recursion`).

The argument of the session data. Unless a session has been in two requests at once, what the bag
holds for it is what was kept last (`StoreIsLast`), and two requests with one id have put it among
the shared ones (`TwoAreShared`). Between RestoreSession and SaveSession nothing writes to that
session but the cleanup, which removes it; the copy is then written back as a whole, and this is why the
property speaks of `last` and not of the bag. No bound on ids, clients or ages is used.

The argument of the HTTP server. A thread runs only while its connection is in the list: it is
created after its element, and an element is erased only when its thread has been seen to have
ended. For the second part, EndThread takes down the socket first, so no client comes after that
(`SocketDown`), and then goes through the list until it is empty (`ListEmpty`). The lemmas about the
list say what stays in a sequence when an element is appended or removed. The refinement of
`Admission` needs in addition that the queue and the list hold only connections that have come
(`Came`), that one which waits is in the queue once and has no thread yet (`Waiting`), and that only
one that has come has a thread (`Threaded`). A running thread has its element, and so the length of
the list, which the limit bounds (`Small`), bounds those served.

The argument of the HTTP session. Between two requests the session is either as Reset() leaves it
(`Clean`), or there was a reply to a bad head (`BadBefore`), and that stays among the replies. That
the buffer stays below the limit is about lengths alone: a read that fills the room ends the session
before the buffer is kept, and cutting a head off makes what is left shorter.

Which bytes belong to which request is about the buffer and the socket together. What is in them, the
one behind the other, is a piece of what the client sends, without a gap, from some unit on up to the
client's place in its script (`Run`). The end of each head that was replied to lies before it
(`Replied`), so no request is replied to twice and the numbers only grow. A head that waits for its
body is the last one that was cut off, the run begins with its body, and less of the body is there
than the head announces (`HeadOK`). So when as many units are there as were announced, they are that
body: `RunBody` shows it by the least unit of the buffer for which it would be false, which is how an
argument by induction on numbers can be put to these provers. A client that does not pipeline has
sent nothing beyond the request that is to be replied to next, and no whole head waits in its buffer
(`InTurn`); what is left to the keep-alive is thus never a whole request.

The argument of the single session thread. The element that the server is building is in the list,
not admitted, and has no live port until accept() has returned (`HalfBuilt`), so the session thread,
which erases only elements with a live port, cannot erase it before. It can afterwards, when the server is at
`check`, and it can meet the element while its port is still null: the faults that remain hit an element
that is not admitted. An admitted element has a port, and the session
thread's iterator, if it is at an admitted element, is in the list until EndThread clears it
(`Admitted`): the server erases only its own new element, and the session thread goes on to the next
element before it erases one. For the limit, admission counts the whole list, in which the admitted
sessions are at different places; every other step on the list only takes from it or appends an element
that is not admitted. The iterator and erase are both written with the place of an element in the list (`At`),
and what stays in a list after an erase is a lemma (`RemoveIs`, `EraseKeeps`).

Only model-checked, since it is out of reach of the prover:

- Liveness: `Served`, `StopPoolEnds`, `StopReaches`, `SignalReleases`, `UninitEnds`, `ClientsAnswered`,
  `SessionsReclaimed`, `StopEnds`, `JobTaken`.
- That `AllIdle` of `TqSystem` is the negation of ENABLED `Urgent`: TLC has compared the two in every state of
  the `tq_shutdown` instance, once, and no run repeats it.

## 5. Behaviours found while modelling

Besides the run above that ends in a violation, the models contain the following, each read in the
code and present as a behaviour; no run is kept for them.

Threads and events

- A name stays taken for good when its thread ends by itself or is stopped by id, as only
  `stop(name)` frees it (`threads_queue.cpp`, `CThreadPool`).
- `stop(name)` reads the map node it has erased (`threads_queue.cpp:413-420`). As long as the allocator
  leaves the freed node alone the id is right; otherwise another thread is stopped, or none, and the
  thread that was meant goes on without a name until it is stopped by id. This is what `lost` keeps
  apart.
- A worker whose thread could not be created stays in the pool, as it never signals `evInit` and so is never
  collected, until it is stopped by id or by name (`threads_queue.cpp:331`, `345`).
- When `pthread_create` fails, FreeRi waits out its limits for an exit event that nobody will signal, and
  then passes a handle that was never set to `pthread_cancel` (`threads-posix.hpp:353-356`, `154-156`).
  In the pool it is the manager that waits (`MgrNoThread`).
- A cancel that hits a thread inside `catch(...)` of ThreadProc, which does not throw on
  (`threads.cpp:117-121`), ends the process with glibc. The cancel comes after the destructor has destroyed
  the events `m_evStop` and `m_evInit`, which the thread may still look at.
- DoThread can be called once after Stop() has asked the thread to end (`threads.cpp:120-127`);
  `AtMostOneLateCall` is the bound that holds.
- The count of running threads is not atomic and can drift (`threads.cpp:241-247`).
- Start() returns 0 for success and for a thread that already runs, where the documentation has
  "Non-zero if thread was started" (`threads.h:831`). Stop() returns 0 for success, where it has
  "Non-zero if success" (`threads.h:847`); and the time "to wait for thread to stop before killing
  it" (`threads.h:840-841`) is the time after which Stop() returns -1 and kills nothing
  (`threads.cpp:191-193`): only the destructor does.
- A pulse of a manual reset event wakes the waiter and lets it report a timeout, and a wait on an automatic
  reset event never reports success (`threads-posix.hpp:606-667`).

Property queue and shutdown

- `tq::wait` puts the result of Wait() into a bool (`threads_queue.cpp:210`). Success is 0, so it
  returns false when the key was written and true when the time was over.
- If it does not get the lock back (`threads_queue.cpp:216-217`) it returns without removing its entry. The
  event is never freed, and if it was signaled the next wait on the key ends at once, without a write.
- Of two waiters on a key, the first to leave erases the entry, and the second is no longer woken by
  a write (`threads_queue.cpp:222`). Three waiters, or two of which one comes again, can free an
  event under the third.
- The indexer makes up to four calls of `tq::set` and `tq::get` on its way out. Each may wait a
  minute for the lock that `uninit` holds, and `uninit` outlasts one (`threads_queue.cpp:71-76`).
- A function that works for two minutes before it looks at its stop event has the pool destroyed under
  its manager without any such call (`threads_queue.cpp:286-289`).
- A worker that is cancelled inside `tq::set` keeps the property lock for ever; `uninit` then deletes
  nothing but the lock.

HTTP

- After a failed bind during the restart the server runs and listens to nothing, and nothing tries
  again (`http_server.h:627-638`); this is why the fairness above asks for a restart that succeeds.
- A cancel of the server thread by a second StartServer may come inside an operation on the list
  (`http_server.h:346`, `482`, `711`), whose clean-up on the way out of the thread runs into code that
  may not throw: the process ends. So it does with glibc wherever the cancel hits under the `catch(...)`
  above. `HttpServer` has the cancels that are survived, and has them between any two of its steps.
- A reply that cannot be sent for a minute is cut, and the connection is used for the next request as if
  it had been sent (`http_session.h:960`).
- The limit on connections is off by one, as the new element counts (`http_server.h:503`, `572`), and it
  is the newest connection that is dropped.
- The accept event stays set until accept() fails, so an idle server reports an accept error
  after each burst of clients (`sockets-posix.hpp:1031-1032`).
- "Must lock to make changes" (`http_server.h:545`): the two threads of the single session server
  lock different locks or none, and meet half-built and erased elements.
- In the single session thread an element whose port is dead stops the walk at itself
  (`http_server.h:246`), and EndThread clears the list under a session that is still in its page
  (`http_server.h:706`).
- Reset(), which "Readys for a new transaction", is not called after a bad head: the next request
  on the connection gets its status and its text (`http_session.h:303-306`).
- recv() returning 0 leaves errno alone; a stale EAGAIN makes the end of the stream look like no data,
  and the session of a client that is gone goes on until it is stopped (`sockets-posix.hpp:1248-1252`).
- A line break after a body that arrives late becomes the beginning of the next head, which is then
  bad; a request of just the limit is dropped (`http_session.h:288`, `332`).
- Of two requests of one session the one that ends last writes its copy over what the other has
  kept, or brings back what the other has erased (`http_session.h:631`).

Indexer and file index

- A cancel ends a job by raising the stop flag of the thread, which nobody lowers
  (`index_thread.cpp:236`, `file_index.cpp:476`): each later job of that thread ends at its first
  entry and is reported as done.
- A job or cancel posted between the thread's copy and its two writes is lost, and so is one posted
  while a stopped thread has yet to clear `indexer` (`index_thread.cpp:222-227`, `253`).
- RemoveChildren() called by itself on a branch of several levels would leave wrong sizes
  (`file_index.cpp:139`).
- A buffer that is a multiple of a block in size loses a block each time it is full
  (`file_index.cpp:114`, `file_index.h:82`); the code makes no such buffer.

## 6. What is not modelled

- The recursive lock with its fairness loop, `CScopeLock`, and pure functions: planned, see below.
- Windows: thin wrappers of Win32 objects whose semantics are not in the repository.
- Sockets other than what the server uses: UDP, multicast, connect, names.
- Content of HTTP: mapped folders, MIME types, authentication. These are sequential functions of
  one request.
- In the file index the names of entries, `findBlock` and the walk through the disk; in the indexer
  the layout of the map.
- The example plug-in, which contains a copy of the same index.
- Disk, system and string wrappers, compiled resources, `cii`: sequential, input and output.
- `frwk`: single-threaded in the Qt event loop, whose semantics are not in the repository.
- Time, except in `TqSystem`: elsewhere the limits of different waits are not compared. `DeletePool`
  of `ThreadPool` waits for the manager, which the code tries to ensure with limits of a minute;
  what happens when they are not enough is in `TqSystem`.
- Memory models: an access that races is a load or a store of its own, in a sequentially consistent
  order.

By lines, most of the repository is not logic: scripts and images compiled into C++ arrays, the
Windows half, wrappers of the operating system, generated pages. The definitions cover a small part
of the lines and most of what runs concurrently.

## 7. Plan

Done: thread pool, thread objects and their contract, events, property queue, shutdown, HTTP server
in both forms, session and session data, indexer and file index, with the proofs of section 4: every safety
property and every refinement that a passing run checks is proved.

Next, the most important first:

1. `Lock`: the recursive lock with owner, count and fairness loop; `CScopeLock` on top of it.
   Properties: mutual exclusion; a lock that is released as often as it was got is free.
2. Pure operators: property bag, parsers and encoders, unique ids, checked against a reference over
   bounded inputs.
3. `CNetworkReply` of `frwk`.

Proofs still worth having: that a thread of the pool and the pool's manager of `TqSystem` keep to
`WorkerContract` as `ThreadPool` does; that a list of the file index keeps its order when an entry is
taken out, which `DirTree` does not speak of.
