# A verification of p_rpc

p_rpc is a small C++ RPC framework: a server that is a pipeline of threads
joined by bounded queues, and a client whose application threads share one
connection per server. This directory holds TLA+ models of both, TLC
configurations that check them on small instances, and TLAPS proofs of the
properties that matter most for every instance. Paths below are relative to the
repository.

## The system

| Part | State | Operations | Talks to |
|---|---|---|---|
| `BlockQueue<T>` (`include/BlockQueue.h`) | deque, mutex, two condition variables, capacity | `try_push`, `push`, `push_front`, `try_pop`, `pop`, `size`, each wait at most 30 ms at a time | every stage of the server |
| Listener (`Listener.cpp`) | the `io_service`, outstanding accepts and reads, `_last_reader_index` | `handle_accept`, `handle_read`, `addToReader`, `close_connection`, `stop` | readers by their queues, registry `_connections` under `_mutex_conns` |
| Readers (`Listener.h`) | queue `_bq_conn`, `_should_stop` | `start`/`_do_read`: read one call, queue it, re-arm the socket | `_bq_call`; the listener by `async_read_some` |
| Handlers (`Handler.cpp`) | `_should_stop` | `handle`: run `Method::call`, `doRespond` | `_bq_call`, the call's connection, the responder |
| Responder and Connection | `_bq_respond`; per connection `respond_queue`, `_mutex` | `doRespond`, `respond`, `processResponse` | the sockets; readers by the registry |
| Server, `main` | `teminated` | `start`, SIGINT handler, `stop` | all of them by flags and by polling their queues |
| Client (`Client.cpp`, `Client.h`) | `_connections` under `_mutex_client`; per connection `_sock`, `_calls`, `_should_close`, two mutexes, a receiver thread | `call`, `getConnection`, `connect`, `addCall`, `sendCall`, `recvRespond`, `waitForWork`, `close` | the server |
| RPC, Invocation, Method, NameNode | the cache of clients; no other state | build a call, abort on an exception; dispatch by name | Client; Handler |
| Writable, IntWritable, MethodWritable | – | read and write lengths, strings, integers | Call on both sides |
| Log, Utils, Test1, Test2, `conf/` | – | logging, clock, load generators | – |

What is hard here: sockets change hands between the listener and the readers
without a lock; two kinds of thread empty the same `respond_queue`; writes to a
socket may be partial; full queues end the process; clients go away, or send bytes that
are no call, at any time; shutdown polls queues that are still being filled; on the client a timeout races
a new call. `PROJECT.json` lists these hazards at their lines, with the property
aimed at each.

## Modules

- **BoundedQueue** – what `BlockQueue` promises: each operation takes effect in
  one step; a `try_` operation fails only at a moment at which the queue is full
  (or empty).
- **BlockQueue** – the queue as written. A critical section of `mutex_` is one
  step; a thread is entering, waiting, woken, expired, or sleeping between two
  attempts. Notifications, deadlines and spurious wake-ups are separate steps.
  `Invoke` is any caller starting any operation of its side.
- **ServerState** – what the server's threads share. A queue operation is one
  step in the server modules, which `RefinesBoundedQueue` justifies.
- **Listener** – the listener thread (one handler of the `io_service` at a time)
  and the readers. `armed[c]` counts outstanding `async_read_some` operations, so
  a double hand-over would be visible.
- **Responder** – the handlers and the responder thread. Both run
  `processResponse`, hence both are *workers*. `out[c]` is what was written to a
  socket, as segments of values.
- **Server** – composes them with the clients at the other ends of the sockets and
  with `Server::stop()`, and states the properties.
- **Service** – what a server promises on each connection and all a client may rely
  on: each request that arrived whole is answered at most once, in any order, until
  the server is gone from the connection.
- **Client** – application threads inside `Client::call` for one endpoint, the
  connections made for it one after the other, and at the other end any server
  that keeps the promise of `Service`: `Serve` and `ServerCloses` take their steps
  from it.
- **IntWritable** – the four bytes of an int and the one of them that is kept.
- **Writables** – the wire format: `write` and `readFields` of the three Writable
  classes as operators on a stream of fields.
- **Session** – the data path of one connection: what `RPC::invoke` writes,
  `Call::read` reads, `Method::call` computes and `recvRespond` hands to the caller.
- **BlockQueueProofs, IntWritableProofs, ClientProofs** and, each extending the one
  before, **ServerProofs, ConnectionProofs, RespondProofs, AccountProofs,
  ServiceProofs** – the theorems.
- **MCBlockQueue, MCServer, MCClient, MCSession** – instances for TLC.

How they fit together: the server modules use `BoundedQueue`'s view of a queue
because `BlockQueue` refines it; `Client` uses `Service`'s view of the server because
`Server` refines it (`RefinesService`); `Session` follows one connection with the
threads left out, because `RequestsWhole`, `OneReaderPerSocket` and `RefinesService` say
that requests are written whole, read by one reader at a time, and answered once. It
writes a response in one piece, which `server_frames` shows to be wrong after
a partial write: `ResultsRight` is about connections whose writes are never partial.

Definitions carry the names of the functions they model; a function that gives up
the processor in its middle is split into steps named after it, for example
`doRespond_push`, `doRespond_size` and `doRespond_notify`. `PROJECT.json` maps
each definition to its lines. Definitions called `Mut_...` are plausible bugs;
each is substituted for its original to show that a property notices it.

Abstractions that a reader should know of:

- In the server and client modules a call is its connection (its caller) and its
  number, and a value is its length (`ValueLen`). What calls contain is in `Session`.
- A stream of `Writables` is a sequence of fields, not of bytes. The real stream has no
  tags, so a reader that meets another field than it expects goes on with
  whatever the bytes happen to say; the model stops there and remembers that this
  end is `lost`. A read that needs more than there is waits.
- `Session` ends a process where the code dereferences a missing or wrongly
  cast parameter. That is undefined behaviour; a crash stands for it, since nothing useful
  can be said of the result otherwise.
- Real time is not modelled. A deadline may pass whenever its owner waits; a
  `try_push` that fails therefore needs only a full queue, not 30 ms of it.
- `Call::read` is one step, enabled when the whole call is there; a half-sent call
  (`half`) makes the socket readable and then holds the reader up, as in the code.
- On the server a call is what `Call::read` takes for one. Bytes on which it throws (a wild
  size for `reserve`, a NULL string of `readString`) are a client that has become `"garbled"`: it is
  still there, what it sent before is whole, and the next `Call::read` fails, as it does
  at the end of the stream (`"closed"`). A stream out of step, such as the one the repository's own client
  sends after an empty name (see `Session`), is to the server a sequence of calls of unknown
  names, then a half call or a garbled end. `Unknown` holds all calls that crash their handler:
  unknown classes and methods, and a `NameNode.create` with a parameter missing. Left out
  are what an out-of-range length does to memory before the read throws, and running out of it.
- The server in `Client` sends each reply in one piece. The real one need not, after a partial
  write (`server_frames`): `OwnAnswer` and `CallReturns` are, like `Session`, about servers whose
  writes are never partial.
- `Connection::connect` may find its peer refusing, or be unable to start the receiver thread
  (`recv[k] = "failed"`); in both cases its result is ignored, as in `getConnection`.
- SIGINT is handled on the main thread, which sits in `join`; `boost::thread::interrupt`
  has no effect because the threads never reach an interruption point.
- `handle_read` with an error is left out: a readiness wait reports one only if
  the socket is closed under it, which `OneReaderPerSocket` and `RegistryAgrees`
  exclude.
- The clean-up of static objects by `exit(0)` while threads still run is left out.
- On the client, `_sock` after `delete` is the value `"deleted"`; using it is a fault.
  The undefined behaviour of `cleanupCalls` is either the intended result or a fault.
  `setValue`, which takes no lock, is two steps: the value, then `_done`. That the
  caller's thread sees them in this order is the build's (x86) guarantee, not the language's.

## Runs

Passing runs:

| Run | Instance | Shows |
|---|---|---|
| `queue` | 2 producers, 2 consumers, capacity 2, one value, fairness | type and capacity, `NeverAllAsleep`, that BlockQueue implements BoundedQueue, and `NeverStalls`: an item and a pending pop (room and a pending push) do not stay side by side |
| `server_core` | 2 connections × 2 calls, 2 readers with queues of 1, 1 handler, clients going away or garbling their stream, accepts failing | one reader per socket and no socket forgotten between two, the registry agrees, the calls of a connection are queued in order, no call doubled, none lost while its client is there and in step (or `respond_queue` overfull), `handle_read` gives up only when all readers are full, and the server as a whole implements `Service` |
| `server_partial` | 1 connection × 4 calls, 2 handlers, values in 2 pieces, queues of 1 and 2, an unknown method, a client going away or garbling its stream | each queued result has exactly one visit under way, a response goes on where it stopped, calls are lost and the process aborts only for the named causes |
| `server_answers` | 1 connection × 3 calls, 2 handlers, values in 2 pieces, fairness | every call is answered |
| `server_stop` | 2 connections × 2 calls, 1 reader, 1 handler, SIGINT at any time, fairness | `stop()` ends unless a half-sent call holds a reader for ever; it loses at most one call per thread; until SIGINT every call is answered, the other client's too, unless a reader is stuck |
| `client_faults` | 2 threads × 2 calls, 2 connections, refused connects, receivers that do not start, an uninitialised `_sock`, a server that may close, fairness | requests are whole on the wire, each call gets its own answer or none, each crash has its cause, and a call returns unless one of the faults happened |
| `session` | up to 3 requests out of 11 (see `MCSession`), read, executed and answered in every order, fairness | the server reads what the client wrote; results are right modulo a char; each way to lose a stream or a process has its cause; every other caller gets its answer |

Runs in which TLC refutes what the repository says of itself:

| Run | Statement | What happens |
|---|---|---|
| `server_frames` | `Connection.cpp:62` "move on to next connection" | the next write is another response of the *same* connection, inside the unfinished frame |
| `server_accept_error` | README "A client's connection will stay open" | an accept error ends the chain of accepts; when the other socket is in a reader's hands the `io_service` runs out of work and the process exits |
| `server_idle` | README "A connection will be closed if no call received in a configured timeout" | a client makes one call and falls silent; its connection stays for ever, because the only call of `cleanup_connections` is commented out |
| `client_closed` | `Client.cpp:280` "only closed when idle for a while" | the socket is deleted between a caller's `connect` and its `addCall` |
| `client_refused` | `Client.cpp:318` "only connect if it's not connected" | a refused connect counts as connected |

Observations that need no run of their own. A client that leaves, or stays and sends bytes on which
`Call::read` throws, while a result for it is queued ends the server for all: a reader erases the
endpoint and `Responder::respond` aborts when it does not find it (`no_connection` of
`AbortsExplained`, reached in `server_partial` by either kind of client). The same bytes cost a client
that is still there the answers to its earlier, whole calls (`CallsAccountedFor`, reached in
`server_core` too). On the client, a receiver thread that cannot be started leaves `_sock` set: no later
call tries again, and all wait for ever (`CallReturns`). `Handler::waitToFinish` says
"stop producing any more responds" but looks only at `_bq_call`; `LostAtExit`
bounds what this costs to one call per thread, and `StopLosesFew` proves the bound for every instance.
It is about a process ended by `stop()` and about calls in work: an accept error can end the
process by itself, and a handler whose partial write meets a full `respond_queue`
drops its call, with or without `stop()`. A client that sends half a call holds its reader, every
socket queued there, and the end of `stop()` (`ReaderStuck`). `_sock` of a client
connection is never initialised, and garbage in it counts as connected (`wild_sock`).
Answered calls stay in `_calls`, so a connection that has carried an answer is never
idle again and keeps its receiver, the first part of `FaultsExplained`. An int survives the trip only as a
char (`RoundTrip`), yet `NameNode.create` is right whenever the true sum is a char
(`SumSurvives`), even for arguments that are not.

**Bounds.** The races need two of something: two calls of one connection at two
handlers and the responder (`doRespond`'s size test), two connections at two
readers (the hand-over), two threads on one client connection (sending, ids). In
`server_stop` the second connection is the one that waits behind a half-sent call; a fourth call fills
`respond_queue` behind a partial write and the requeue. One value is enough for
the queue's run because `Refinement` is proved for any set of values. Capacities of 1 and 2
stand for the code's 100 so that queues really fill. `MaxCalls`, `MaxConns` bound
what the environment does, not what the code does. `_max_wait_rep` is 2 instead of 5: one
round that is repeated and one that ends the wait. Connections and callers are
interchangeable, so the runs without liveness use symmetry; the others do not.

**Deadlock.** The queue's runs check for it. The server's and the client's
environments make finitely many calls, after which every thread rightly waits, so
those configurations switch it off; that nothing is stuck earlier is what
`EveryCallAnswered`, `StopTerminates`, `CallReturns` and `AnswersArrive` say.

**Fairness.** Weak fairness of each thread: the operating system runs every thread
that can run, and a deadline that has been set passes. Nothing is assumed about
notifications, or about clients: they need not call, close, or finish a call
they have begun. The price is the case `[]ReaderStuck` in `EveryCallAnswered` and
`StopTerminates`. `EveryCallAnswered` is a property of instances in which nothing can abort the
process: known methods, queues that hold all calls, no client that leaves or garbles its stream. What
happens in the others is `CallsAccountedFor` and `AbortsExplained`. In the client model the server answers what it gets. Locks
are handed on by weak fairness: each thread makes a bounded number of calls, so
nobody can be overtaken for ever.

## Proofs

All by TLAPS, for every value of the constants, from the assumptions
`BlockQueueAssumption`, `ServerStateAssumption`, `ResponderAssumption`,
`ServerAssumption` and `ClientAssumption`: capacities and thread counts positive, "no connection",
"nobody" and "no value" are none of the real ones, each side of a queue has a thread. Sets of connections and of
callers may be infinite; only what has been accepted or read so far is finite, and that is
proved where a proof counts it. Each inductive invariant was checked by TLC on a
small instance before it was proved.

- **BlockQueueProofs**
  - `TypeCorrect`: `TypeOK`, in which the capacity bound is the interesting part.
  - `NobodyForgotten`: `NeverAllAsleep` is inductive beside `TypeOK`. The
    argument: a push into an empty queue wakes a consumer if any sleeps, a push
    into a non-empty one finds one already awake, and a thread falls asleep only
    when its predicate is false.
  - `Refinement`: under `buf <- queue_`, `pending[t] <- at[t] # "idle"` every
    critical section that returns is a `Put`, `Get` or `Refuse`, and everything
    else stutters.
- **ServerProofs**
  - `TypeCorrect`: queue bounds, reader and handler indices, and that a thread holds a
    connection and a call wherever its code uses them. The type invariant is
    kept as named parts by owner, so that each action is checked only against the parts it
    can disturb.
- **ConnectionProofs**
  - `OneReader`: `OneReaderPerSocket` alone is not inductive: accepting a socket adds an
    `async_read_some`, which is only right if the socket was nowhere before. The
    inductive invariant `SocketsOwned` adds that a socket still in the backlog
    is nowhere, and what `RegistryCorrect` needs: what a reader still has to
    read from is registered and open, and a socket that is waited for is open.
  - `RegistryCorrect`: `close_connection` decrements without looking; it is right
    because the connection in a reader's hands is registered, by `SocketsOwned`.
  - `SocketsKept`: `OneReaderPerSocket` says that a socket is in at most one place,
    `NoSocketForgotten` that, accepted and open, it is in at least one until SIGINT. It is inductive
    with `HandsFree`: a reader in `pop()` holds nothing, otherwise the pop would overwrite a socket.
  - `CallsStayInOrder`: `CallsInOrder` is inductive with `ReadSoFar`: a reader that has a call to push
    has the last one read from its connection, and `_bq_call` holds only calls that were read. By
    `SocketsOwned` no other reader has that connection meanwhile: the code needs no lock over
    the read and the push because the socket is re-armed only after the push.
- **RespondProofs**
  - `NoResultLeftBehind`: `RespondBalance` is inductive beside `TypeOK`. Each step of a
    worker moves one visit: from the worker's own place to `_bq_respond`, from there to the
    responder, or, with the result it takes, out of both counts. The proof rests on lemmas
    about the number of occurrences of an element in a queue (`CountAppend`, `CountTail`,
    `CountFront`, `OneMore`), which the two modules after it use too. A handler that finds more than one
    result in the queue (`doRespond_size`) may safely leave its own to the responder because
    its visit is counted until it is in `_bq_respond`.
- **AccountProofs**
  - `NoCallLost`: `CallsAccountedFor` speaks of the calls that were read and is not
    inductive. `AccountInv` adds that a call not yet read is nowhere (`EachOnce`), that a worker holds
    a call only between taking it and passing it on (`CallHeld`), that results wait and are
    written on their own connection (`OwnConnection`), and that the server closes only what its
    client has left or garbled (`ClosedForCause`). A call is dropped only by `ResponseFails` on a handler:
    either the socket is gone, or `Overfull` shows that more calls than `max_respond_size` were read from
    the connection, because the full queue and the worker's hands hold different calls.
  - `ResponsesContinue`: `ResponseIntact` with `PosFollows` (`_pos` of a call is
    where its last segment ended, 0 if there is none, and the whole length is never stored)
    and `AccountInv`, from which no two workers hold one call.
- **ServiceProofs**
  - `ImplementsService`: initial states map to initial states; a client's last byte is an
    `Ask`, the last byte of a response an `Answer` (of a call that was sent whole, not
    answered before and whose socket is open, all from `AccountInv`), the end of a socket or of
    the process a `Leave`, and every other step stutters.
  - `AbortsHaveCauses`: once the process has aborted nothing changes, so the step that aborts is
    what matters. `RespondBalance` excludes an empty `try_pop`; different calls in `_bq_call` plus the
    one in the reader's hands are more than it holds; each visit in `_bq_respond` is paired with a result
    of its own (`Ranks`). `handle_read`'s abort needs history: `ReadersTried` says that as
    long as `addToReader` tries, there is a set of accepted sockets, one queue's worth per reader tried, that
    is in no queue still to be tried, although the readers empty their queues meanwhile. `ReadFrom` says that a
    connection with calls is registered until its client has gone or garbled its stream.
  - `StopLosesFew`: `LostAtExit` needs what every thread can still do in each stage of `stop()`.
    `FlagsRaised` says which flags are up by then. `StopBounds` says that past the handlers' stage the
    readers that may still push and the queued calls together are at most `num_readers`, and past the
    responder's stage the workers that may still notify and the visits in `_bq_respond` at most
    `num_handlers + 1`. Both are true when `stop()` sees the queue empty, and stay true because a
    stopped thread that hands something on leaves its loop. `InWorkBound` then matches each
    call in work with a reader, a queued call, a worker or a visit of its own, by `EachOnce`,
    `CallHeld` and `RespondBalance`.
- **ClientProofs**
  - `TypeCorrect`, `RequestsStayWhole`, `AnswersAreOwn`, `FaultsHaveCauses` all follow
    from one inductive invariant, `Inv` (`InvHolds`). Beside the properties themselves it says who holds
    the two mutexes in which place (`LocksHeld`); that only the last connection made
    has a receiver at work and how `_sock` follows it (`ConnectionLife`); that a call without a
    receiver at work has no value (`ValueKept`), and what poisoned the endpoint when a fault came (`FaultCaused`); that a call is in
    `_calls` of one connection from `addCall` on, under the id its sender uses (`CallsAdded`); that while
    the server reads, the wire ends in an unfinished request exactly if a caller holds `_mutex_send_call`
    (`WireInTurn`); and that ids on the wire, in replies and in the receiver's hands name the
    call that `_calls` has there (`IdsAgree`). `LocksHeld` is what makes the
    making of connections and the writing of requests sequential.
- **IntWritableProofs**
  - `RoundTrip`: an int arrives unchanged exactly if it is a char.
  - `SumSurvives`: for any four ints, the sum of their cut values, cut again, is the true sum cut once.
    Both rest on `ReceivedIsResidue` (what arrives is a char and congruent modulo 256) and
    `OneCharPerResidue`. `ResultsRight` checks the same on samples, through the whole data path.

Only model-checked:

- all liveness (`NeverStalls`, `EveryCallAnswered`, `StopTerminates`, `CallReturns`,
  `AnswersArrive`), which TLAPS does not reach;
- everything about `Session`, whose parameters nest and whose readers are recursive
  operators.

## Not modelled

`Log` and `Utils` (formatting, files, the clock: nothing reads them back), the load
generators `Test1` and `Test2` and the command line. `Listener::cleanup_connections`,
`Responder::waitForWork`, `Call::write` (server), `Client::start` and `Client::stop` have no
callers or do nothing. `RPC::ClientCache::getClient` finds or makes, under its mutex, the one
Client of a socket type; Clients share no state, so one is enough. Below the models are the reuse
of a descriptor between `close()` and a late write (`Listener.cpp:245`), an exception out
of `close()` (`Listener.cpp:243`) and the bytes behind a dangling pointer (`Connection.cpp:52`).

## Plan

1. *Done*: BlockQueue and its abstract specification; the server pipeline with
   shutdown and half-sent calls; `Service`, implemented by the server and used by the
   client; the client; the wire format, the dispatch and the data path; theorems on the
   queue, on IntWritable, and on all safety properties that the passing runs check of the
   queue, the server and the client.
2. *Left to TLC*: liveness and `Session`, for the reasons given under Proofs.
