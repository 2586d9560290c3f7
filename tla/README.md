# Replob, specified in TLA+

Replob ("replicated object") keeps copies of C++ objects on several processes
and applies the same operations to all of them.  A process hands a message (a
closure) to `replobApply()`; the processes agree, step by step, on a batch of
messages and each executes the batches in the order of the steps.  Underneath
is synca, a runtime of coroutines ("journeys") on one thread pool, with
mutexes, channels, timers and sockets that suspend the coroutine and not the
thread.

## The system

| component | source | state | operations |
|---|---|---|---|
| Voting, Replob2 | `once/replob.h` 77-288 | per step: `state_`, `nodes_`, `voted_`, `carries_`, `timer_` | apply, start, vote, commit, timeout, fail, onComplete |
| Phantom | `once/phantom.h`, `once/broadcast.h` | `steps_`, `nextStepId_`, `currentStepId_` | create, getPtr, complete, cleanup |
| ReplobApplySync, transactions | `once/replob.h` 290-507 | result and doer of the waiting journey | result, operator() |
| Replob, first version | `replob.cpp` | per step: votes per message, state, timer | apply, vote, commit, onTimeout, disconnectNodes, tryProcess |
| Journey | `journey.cpp`, `oers.cpp`, `coro.cpp` | flags Entered, Done, Cancelled, Timedout, EventsEnabled, a counter; the coroutine | start, suspend, proceed, done, cancel, timedout, waitForDone, acquire, releaseAndDone |
| Mutex | `mutex.cpp` | `acquired_`, `doers_` | lock, unlock |
| Channel | `channel.h` | `queue_`, `waiters_`, `closed_` | put, get, close, open |
| waiting | `core.cpp` 84-188, 336-529 | completers and awaiters with counters | goWait, goAnyWait, goAnyResult, Awaiter, Awaiter2, DetachableAwaiter, AsyncWaiter |
| pipelines | `once/data.h`, `core.cpp` 36-42 | channels and the journeys between them | piping1toMany, piping1to1, piping1to01, closer, closeAndWait, goN |
| Timer, Timeout, sleep | `core.cpp` 214-244, 536-575 | an asio timer | reset, cancel, expiry |
| Nodes, Connector, Listener | `node.cpp`, `connector.cpp`, `listener.cpp` | sockets by node, `disconnected_`, a mutex | add, remove, send, broadcast, write, reconnect, disconnect, listen |
| Socket, Acceptor, Resolver | `network.cpp` | asio objects | read, write, connect, close |
| ThreadPool | `thread_pool.cpp`, `journey.cpp` 540-576 | io_service, `work`, `toStop`, a condition variable; counters of journeys | schedule, loop, wait, waitForAll |
| serialization | `serialization.h/.cpp` | a bump allocator over a thread's buffer | serialize, deserialize |
| cleanup, portal, gc, modifiers, adapter, stats, log | the rest of `src/src`, `include` | registries | add, cleanupAll, teleport |
| Chronos | `examples/chronos.cpp` | on each node `events_`, `awaiting_`, `running_`, `slots_`; the detector's `nodesTs_` | addEvent, trigger, remove, update, detect |
| other examples | `examples` | a failure detector, a key-value store, the set-up of a server | built on the above |

How they interact.  `Replob2::apply` takes a step from `Phantom`, arms a
`Timer` and votes.  A vote or a commit is a closure that `broadcast()`
serializes and hands to one `Connector` per peer; the peer's `MsgListener`
deserializes it and calls it, whereupon `phantomPtr()` looks the step up and the
method runs.  `Phantom::complete` executes what has been agreed.  Every one of
these pieces runs inside a journey: `Connector::write` holds a `Mutex` around
`Socket::write`, which suspends the journey until asio calls back; a timer's
expiry starts a new journey.

What makes this hard, and what each part has to guarantee:

- *Voting*: messages in flight, processes that die in the middle of a broadcast,
  several proposers in a step, steps decided out of order, timeouts that restart
  the ballot at different moments on different processes.  All processes must
  execute the same batches, in the proposers' order, nothing twice, and go on
  after a crash.
- *Journey*: cancellation, timeouts and completions come from other threads
  while the coroutine is on its way into `suspend()`.  A coroutine must be
  resumed exactly once for each suspension, and no completion may get lost.
- *Mutex, Channel*: hand-over to a journey that is being cancelled at that very
  moment.  Mutual exclusion; nothing that is handed over may get lost.
- *Waiting*: every awaited piece finishes before the awaiter goes on, and the
  awaiter does go on.
- *Connector*: the writers of one connection against each other, against
  reconnections and against the removal of the node.  Packets stay whole, nothing
  is executed twice, nothing is sent after a removal, and the writers end.
- *ThreadPool*: `wait()` against the threads that finish in the meantime.  It
  returns when all is done, and the pool works on.
- *serialization*: what is written over the second copy must not be read again.
- *Chronos*: every node sees the same transactions, each at its own time.  A
  handler is run by one node at a time, by another one when that dies, and by
  nobody when it is over.
- *Pipelines*: the end of a channel travels from stage to stage while others
  still put.

`PROJECT.json` lists the places where these go wrong ("hazards").

## Modules

| module | what it is |
|---|---|
| `Voting` | the protocol: Voting, Replob2, Phantom, its timers, the streams between processes, crashes |
| `VotingProperties` | its properties and the inductive invariant; the module all its runs check |
| `AtomicBroadcast` | the abstract specification: what `replobApply()` promises |
| `VotingProofs` | the theorems about `Voting` |
| `Journey` | the operations on a journey that waits: its word of flags, its suspension, events sent to it, the doers made of it |
| `JourneyProperties`, `JourneyProofs` | what every program of journeys keeps, and the lemmas about the operations |
| `Mutex` | the mutex, in journeys that use it and are cancelled; extends `Journey` |
| `MutexProperties` | the properties of the mutex, and the inductive invariant |
| `FairLock` | the abstract specification of the mutex: first come, first served |
| `MutexProofs` | the theorems about `Mutex` |
| `Channel` | the channel, with journeys that get and threads that put and close; extends `Journey` |
| `ChannelProperties` | its properties, and the inductive invariant |
| `Fifo` | the abstract specification of the channel |
| `ChannelProofs` | the theorems about `Channel` |
| `Replob1` | the first version of the protocol |
| `Replob1Properties` | its properties and the inductive invariant; against `AtomicBroadcast`, too |
| `Replob1Proofs` | the theorems about `Replob1` |
| `Waiting`, `WaitingProperties` | a journey that waits for others, in seven ways; extends `Journey` |
| `WaitingProofs` | the theorems about `Waiting` |
| `Serialization` | a message as bytes and back |
| `Network`, `NetworkProperties` | one node that sends to another: connector, connection, listener; extends `Serialization` |
| `NetworkProofs` | the theorems about `Network` |
| `Pool`, `PoolProperties` | the thread pool and the two ways to wait for it |
| `PoolProofs` | the theorems about `Pool` |
| `Chronos`, `ChronosProperties` | the scheduler of events on all nodes, over transactions with timeouts |
| `Pipeline`, `PipelineProperties` | stages of journeys between channels |
| `MCMutex`, `MCChannel`, `MCPipeline`, `MCChronos` | the initial states that TLC checks |

### Voting

`Voting` has one action for each way that the event loop of a process enters
the protocol: `Apply` (`Replob2::apply`), `RecvVote`, `RecvCommit` and
`RecvStale` (a message off a socket, with the lookup of its step), `Expire` (the
timer fires: its handler is queued), `RunTimeout` (the queued handler runs),
`DanglingTimeout` (it runs after its object was destroyed), `CleanupRun` (the
clean-up that `fail()` scheduled runs) and, from outside, `Crash`.  No handler
yields - `broadcast()` only starts coroutines, `cleanupAll()` too - and
`examples/server.h` runs everything on a single thread (`ThreadPool tp{1}`), so
a handler with all it calls is one step.

| state | code |
|---|---|
| `voting[n][s]` | the `Voting` object of step `s` in `Phantom::steps_`, `Fresh` if there is none: a new one is indistinguishable |
| `next`, `current` | `nextStepId_`, `currentStepId_` |
| `timer[n][s]` | `timer_`: off, armed, or its handler queued |
| `chan[m][n]` | what `m` wrote to `n`: in order, since the coroutines of successive broadcasts queue on the connector's mutex and TCP keeps the order; cut at any point when the writer dies |
| `mode[n]` | up; closing (after `fail()`, before the clean-up runs); closed; crashed |
| `started`, `log` | history: where each proposed message went, which batches were executed |

`Phantom::completed_` is TRUE exactly when `state_` is Completed.  A batch is a
set of message ids, since a `std::set` ordered by id is executed in an order
that depends on its elements only.  A message that applies another one while it
is executed is an `Apply` right after the call.  A dead process is not started
again: nothing is persisted.  What a dangling handler reads is chosen freely:
the remains of the completed object (it returns, or it fails), or an object
allocated in the same place later (`Reuse`).  The timers of one process are
armed for the same time span, so they expire and are handled in the order in
which they were armed (`Earliest`).

The constant `Timely` says whether 500 ms is more than any message takes to
arrive.  It is what the protocol relies on: with `Timely = TRUE`, a timeout
suspects only the dead.

### Journey and Mutex

A journey is a coroutine that any thread of the pool may resume.  Its
`JourneyState::state_` is one atomic word, and every instruction that changes
the word is one action of `Journey`: what several threads do to it interleaves
freely.  Where the code loads the word first and acts on the copy, the copy is
in the state (`seen`).

| state | code |
|---|---|
| `flags[j]` | `state_`: Entered, EventsEnabled, Done, Cancelled and Timedout, the counter |
| `phase[j]` | where the coroutine is: running; back in `proceed0()` but not in `resetEnteredAndCheckEvents()` yet (yielded); suspended; behind `suspend()`; in `handleEvents()` with the flags loaded; ended |
| `seen[j]` | `event` in `handleEvents()` |
| `ready[j]` | the `proceed0()` handlers that are in the queue of the scheduler |
| `kept[j]` | `wasEnabled` of a `DtorEventsGuard` |
| `acquired`, `doers` | `acquired_` and `doers_` of the mutex |
| `at[j]`, `handed[j]` | where the journey is in its program, and `d` in `unlock()` |

`Raise` is `cancel()` or `timedout()` from any thread, at any moment; `Doer`,
`Acquirable`, `Disabled` and `ReleaseAndDone` are a `DetachableDoer`;
`WaitForDone`, `Reschedule`, `ResetEntered`, `Proceed0`, `Load`, `Returns`,
`ThrowsEvent` and `ThrowsError` are a wait from its beginning to its end;
`Guard` and `Unguard` are a `DtorEventsGuard`.  The compare-and-exchange loops
are the one exchange that succeeds.  The thread pool is the set of `ready`
journeys.

`Mutex` runs the journeys of `tests/mutex_tests.cpp`: lock, one `reschedule()`
inside, unlock, again and again, with events from outside.  What `lock()` and
`unlock()` do under their `std::mutex` is one action each, and telling the next
owner, after the `std::mutex` is released, is another.  A journey whose `lock()`
threw may end or go on, since an event is a `std::exception` like any other.

### Channel

`queue`, `waiters` and `closed` are the members of the channel.  A `get()` that
waits has a `frame`, the two variables on its stack that the waiter points to;
`call` tells one `get()` of a journey from the next, so that a waiter which
outlives its `get()` can be seen to (`HasFrame`).  `put()` and `close()` suspend
nobody, so they are called by threads (`Callers`): under the mutex they are one
action, and what they do after it is released - `Set` writes a value, `Reset`
acquires each that waited in a channel that is closed, `Told` is the
`releaseAndDone()` that follows either - is a step each.
The iterator of the channel is a loop of `get()`.

### Replob1

The protocol of `replob.cpp`, which the repository keeps beside the newer one:
a process votes once in a step, for the first message it learns of, and a step
is decided when there are as many votes as `NodesConfig` has nodes; the batch is
all messages that got a vote.  Processes, streams, handlers and `exec` are as in
`Voting`.  `Apply`, `Recv` (a vote or a commit, with `getStep()` and
`updateCurrentStepId()`), `RecvStale`, `RecvLeave`, `OnTimeout` and `Stop` are
the entries to the protocol; `TryProcess`, `Commit`, `Vote` and
`DisconnectNodes` are the methods of these names.  `steps[n][s]` is the
`StepData`, `Fresh` if there is none; `config`, `next`, `commiting` are
`NodesConfig`, `nextStepId_` and `commitingStepId_`.  When a process closes its
connectors, any part of what it had written still arrives, from the front.

### Waiting

The one journey of `Journey` whose flags are modelled is the parent; the
children are what other threads do, and every atomic operation of theirs is an
action: `Finish`, `Claim` (`++counter == 1` of goAnyWait and goAnyResult),
`Drop` (the completer's counter, or the last `shared_ptr`), `TellFirst`,
`TellLast`, and the two halves `Acquire` and `Release` of a `DetachableDoer`.
`share` is what the parent holds in the count until it starts to wait.  `scene`
chooses among the seven ways to wait (`Kinds`), the children that end only when
they are cancelled and those that throw.  `Dying`, `DetachDoers`, `ResetDone`,
`ForceDone` and `Unforce` are the destructors, `detachDoers()` and the second part
of `waitForDoneAlways()`, each broken at its instructions.  `left` records how
the parent left and which children were about to tell it at that moment.

### Serialization and Network

`Serialization` is a pure algorithm: `Serialize` and `Deserialize` on memory as
a sequence of halves of words, since the indices of the pointers are ints, two
in a word.  `Half` is the number of values of an int; an address of a buffer is
the only other input.

`Network` is one direction between two nodes.  `writer[m]` is the coroutine that
`broadcast()` started for message `m`; `lock` the mutex of the connector, its
owner first; `call` the call of the socket that its owner waits for: `Written`,
`Failed` and `Connected` are what `Connector::write()` and `networkRetry()` do
when it is complete.  `node` has what `Nodes` and the connector know of the
other node; `RemoveNode` and `Cleanup` are `Nodes::remove()` and
`Nodes::cleanup()`.  `conns` are the connections ever opened, with the cells
(size or body) that were written and how much was read.  `Listen`, `Accept`,
`Cancel` and `AcceptThrows` are the listener, `ReadSize`, `ReadBody` and
`ReadFails` the coroutine that reads.  `Transfer`, `WriteFails`, `ConnectEnds`
and `GiveUp` are the system between the nodes and external.  Everything runs on
one thread, so that a coroutine runs until it waits, and coroutines start in the
order of the broadcasts.

### Pool

`thread[t]` is where a thread of the pool is in `loop()`; `Take`, `Finish`
and `Leave` are `io_service::run()`, which returns in every thread when
nothing is outstanding; `Loop` and `Notify` are what follows in `loop()`;
`Wait`, `Wake`, `End` and `Join` are `ThreadPool::wait()` and the
destructor, up to each wait for the condition variable, which may also wake up
by itself.  `ReadFirst` and `ReadSecond` are `waitForAll()`.  `late` remembers
the threads that had left `run()` before a `wait()` began, and once the pool is
ready whether it was one of them that made it so.

### Chronos

The replication is a log, which is what the runs of `Voting` are about: each
transaction gets a place (`Commit`), each node executes the log at its pace
(`Execute`).  `view[n]` has the members of the node's `Chronos`; `Triggered` is
`triggerAwaitings()`, `AddEvent`, `EventsUpTo`, `HandlerCompleted` and
`NodeRemoved` are the transactions.  `Fire` is the timer, `JobEnds` the end of
`executeHandler()`, `Detect` and `Complete` the two halves of a removal in
`Detector`, and `Update` is the pulse that puts a removed node back.  `Home` is the
node that adds events and does not stop.

`Sync`, `TimedOut` and `Answer` are a call of `replobApplySync()` with its
`Timeout`, the calls that apply a time and the completion of a handler included.
A call that timed out is over (`late`), but its transaction still has the pointer
`doer_`, and `done()` is called through it when the transaction is executed.  Two
outcomes are followed: nothing happens, or a call that began since then has its
doer in the same place and is woken, too early (`Answer`).  That the write crashes
the process, or hits something else, is not followed.

`prompt` says that what was applied is executed, and a pulse is there, before the
clock goes on.  It excludes four things: a transaction that one node executes at a
later time than another, a call that times out, a node that is removed while it
lives (`chronos.cpp:70`), and a pulse behind the removal (`chronos.cpp:64`).
The run `chronos` has both kinds of initial states.  A removed node stays
part of the replication in the model; in the code `NodesConfig` and `Nodes` forget
it, too, so that with a node that lives the log might not be one log any more.

### Pipeline

`worker[k][i]` is a journey of stage `k` at a place in its loop; `chan[k]` the
channel behind stage `k` as `Fifo` describes it, with the one difference that
`put()` gives the value to a worker that waits in the same step (`Gives`).  The
three forms of `piping...` differ in how many values they make of one
(`Yields`).  `Closes` is `~Closer()`; the first channel is closed either by a
closer or by `closeAndWait()` (`MayClose`, `Close`, `Return`), which returns
when nothing can run (`Idle`).

### What is one step

Where several threads meet (`Journey`, `Mutex`, `Channel`, `Waiting`, `Pool`) a step
is one access to what they share; on one thread (`Voting`, `Replob1`, `Network`,
`Chronos`) it is a handler up to its end or to where it waits.  Where a step has more
in it than that, the reason is one of these.

- `LockWait` and `GetWait` have the push under the mutex, and the load of Done in
  `waitForDone()` behind it (`journey.cpp:387`).  Whoever sets Done in between is
  seen by the load in the code and by `mayProceed()` on the way into the suspension
  in the model; the same flags are handled after either.
- `Set` has the writes of the value and of `wasSet`: the getter reads neither before
  Done is set, which is a step of its own (`Told`).
- `ForceDone` has the load of Done, the end of events, the cancellation of the
  children and the suspension (`journey.cpp:404-410`).  What a child does in between it
  can do right before or behind, since Done is looked at again by the suspension.
- `Leaves` has the hand-over of the connector's mutex and the start of the next
  writer: this is for one thread only.
- `Finish` has the count of a journey that ends and the end of its handler's work: a
  reader of the count (`waitForAll()`) does not look at the work.  Journeys that
  suspend are left out of `Pool`.
- `CleanupRun` also turns off timers whose handlers are queued: their objects are
  gone, the table is empty, so that none of it is reused, and `fail()` would close what
  is closed.
- `Expire` and `OnTimeout` with `Timely` ask for every stream between live processes
  to be empty, which is more than that a message takes less than 500 ms: a message
  sent a moment before the timer runs out has to be delivered first, too.  So a live
  process is never suspected.  What happens when one is (the first hazard of the list,
  and much of the fourth) is the run `anytime`, for two processes, and the
  counterexamples named below.  `OnTimeout` runs the handler at once.

### The plan

Done: the protocol and its proofs, `Journey`, `Mutex`, `Channel`, `Waiting`,
`Replob1`, `Network`, `Serialization`, `Pool`, `Chronos`, `Pipeline`.  Left:

1. Proofs: what the first version keeps in a network that is not timely.
2. Proofs about `Chronos`: `GhostSlot`, `TimerIsSet`.
3. `Network` with several threads per node, when `network.cpp:85` matters.
4. `teleport()` and the portals, over `Journey` with a scheduler per journey.

## Runs

Deadlock is checked in none: the bounds on proposals, values and calls stop each
of the systems, and every journey may have ended.  The invariants with names in
`...Inv` are conjunctions of named parts; the modules of the properties state
each part by itself.

| run | module | constants | shows |
|---|---|---|---|
| `quiet` | `VotingProperties` | 3 processes, 2 steps, 3 messages, 1 crash, no timer expires | `UniformAgreement`, the inductive invariant `IInv`, `Refines`: an atomic broadcast |
| `timely` | `VotingProperties` | the same with timely timers and 2 crashes | `Agreement` of the survivors, `SenderOrder`, `VotingInv` (types, no message twice, a step that was executed is closed, no decided step is held back), `NoMinorityDecision` (a process that lost the majority decides nothing); reaches `fail()` and the clean-up |
| `anytime` | `VotingProperties` | 2 processes, 2 steps, 4 messages, 1 crash, timers at any time, reused memory | `NoSplitBrain`: no two processes decide a step with nothing in common, even then |
| `deliver` | `VotingProperties` | 3 processes, 1 step, 3 messages, 1 crash, fair | `Delivery`: what a process proposes that stays up is executed by all that stay up, unless the step was abandoned (`Abandoned`: a proposer died, and those who wait have neither a timer nor anything to read) |
| `mutex` | `MCMutex` | 2 journeys with 2 events, and 3 journeys with none; fair | `MutexInv` (with `ResumedOnce`), `MutualExclusion`, `LostByThrowingOnly`; `Woken`: no event to a journey that waits gets lost, and without events everybody gets the mutex; `FirstComeFirstServed`: without events the mutex implements `FairLock` |
| `channel` | `MCChannel` | 2 journeys, 2 threads; 2 values and a close against 1 event in three combinations; 2 values and a close with none, or 2 values and 2 closes for one journey; fair | `ChannelInv` (no value twice, no write to a frame that is gone but for one hole, the end is an end), `NobodyForgotten`, `LostToEventsOnly`, `ClosedIsTold`; `FirstInFirstOut`: without events the channel implements `Fifo` |
| `replob1` | `Replob1Properties` | 3 processes, 2 steps, 2 messages, 1 of them stops, timely, fair | `Refines`: the first version is an atomic broadcast, too; `Replob1Inv` (the inductive invariant; one vote each, steps decided in order, closed, senders' order), `Delivery` unless somebody stopped |
| `waiting` | `WaitingProperties` | up to 3 children, 2 events, seven kinds of wait, fair | `ReturnsInTime` (all have ended, or the first is known), `Outlives`, `LeavesNothing`, `WaitingInv` (one resumption per suspension, the VERIFYs hold but in one case), `WaitEnds` |
| `network` | `NetworkProperties` | 3 messages, 1 fault, objects of up to 3 words, ints of 4 bits | `NetworkInv` (packets are whole, executed at most once, overtaken or lost only by a fault), `RoundTrip` of the serialization, `SilentAfterRemove`, `Progress` (writers and readers end, what was written is executed) |
| `pool` | `PoolProperties` | 3 threads, 4 journeys, 3 waits | `PoolInv` (the pool works on), `ReturnMeansDone` but for two holes, `Progress` |
| `chronos` | `MCChronos` | 2 nodes; prompt: 2 events, one of which is faulty, a clock of 2, 1 crash; not prompt: 2 events and 1 call that times out, or 1 event and 1 removal of a node that lives; fair | `ChronosInv` (slots, handlers, the timer; the nodes agree when all is prompt), `KeptUntilDone`, `ReadsOwnWrite` but for a call that is woken in the place of another, `EventRuns` |
| `pipeline` | `MCPipeline` | 3 values through two stages with 1 or 2 workers, handlers that throw, 1 cancellation | `PipelineInv` (what is lost to whom, order, what an end means), `Progress` |

The bounds.  Three processes is the smallest number with a majority that is not
everybody, and with a third that sees the other two disagree; two is the special
case that `isConsistent()` names.  Two steps are enough for one to wait for the
other; three messages let every process propose in one step, or one process in
two.  One crash among three leaves a majority, two do not.

Three journeys are one in the critical section and a queue of two, whose order
counts; with two, one owns and one waits, and two events let one come while the
other is being handled.  Nothing tells one disturbed journey from the other, so
`Woken` follows one of them (`Watched`).  The proofs of the safety properties have
no bounds.
For the channel two of each are enough for one to put or close while the other
is between its critical section and its hand-over, and for a value in the queue
behind one that is being handed over; one thread closes and another opens the channel
again while those that waited are still told, and a second close meets the first.

Three children are a first, a last and one between; the second event is the one
that comes while the first is handled, or inside a destructor.  Three messages
are one being written and two that wait, whose order counts; one fault breaks a
connection with a packet in any state, and what a second does is what the first
does to the connection that follows.  An object of three words has a pointer
whose index is written over a word that is still to be compared, twice; ints of
four bits leave addresses and words larger than an int.  Three threads are one
that comes back late, one that makes the pool ready and one that works.  Two
nodes are one that adds and one that dies; two events are one that runs and one
that awaits a slot.  A call that times out leaves a pointer, and the second event is
added by a later call that this may wake; one removal is enough for a node to be watched again.  After a crash two nodes leave one
survivor; three nodes have 5.9 million states with a clock of 1 and prompt alone, too
many for the run.
In a pipeline of two stages one end travels through the other stage; with two
workers in a stage one closes while the other puts.

Fairness.  In `Voting` and `Replob1` it is weak fairness for reading the sockets
and, in `Voting`, for the queued handlers and the clean-up (asio runs every
handler it is given) and for the expiry of a timer (time passes).  Nothing is
assumed of proposals and crashes.
`Mutex` and `Channel` have weak fairness for what the threads of the pool do with
a journey that is scheduled or on its way, for the end of a critical section (a
finite piece of code) and for the end of `unlock()`, `put()` and `close()` once
begun; nobody has to call them, to send events or to end.  `Waiting` has it for
each child that can end and for the parent once it is scheduled.  `Network` has
it for the coroutines that are ready, for the system's calls (a call of a socket
ends), for the accepting and the reading coroutine; nobody has to broadcast, to
remove or to cancel.  `Pool` has it for each thread and for the one who waits,
when it was notified - a wait that wakes up by itself is never relied on.
`Chronos` has it for the replication, each node and the clock, and for no crash, no
`Timeout` and no pulse; `Pipeline` for the
feeder and each worker, whose handlers return.

## Where the code falls short of what is said of it

Each property states what the code does keep; where a case has to be left out of
it, the property names the case.  Such a property does not catch the case it
names: the code has it.  It says that there is no other.  These are the cases, and
others that were met while the bounds were chosen.

*Voting.*  `timeout()` (`replob.h:250`) treats a process whose vote is not there
as dead.  If it is only slow, it still has the old ballot, gets the vote of the
one that gave up on it and commits a different batch: with `Timely = FALSE`, two
processes and no crash, `Agreement` is violated in the first step.  It therefore
needs `Timely`; the TODO at `replob.h:245` (A or C of CAP) knows of the
trade-off.  Even in a timely network it holds among three processes and not among
five.  Let 5 die at once, and 1 when nobody but 3 has read its vote, after 3 had
cast its own; 2, 3 and 4 then read all the rest, and the timers of 2 and 4 run
out together.  2 starts the ballot {2, 3, 4}.  The handler of 4's timer is queued
behind that message: it finds a new ballot with the votes of 2 and 4, a majority,
and leaves out 3, which lives (`replob.h:250`, on the `voted_` that line 203 has
cleared).  2 and 4 decide without what 1 proposed, 3 decides {2, 3, 4} with it.
TLC follows these 21 steps in a second when it is led, but does not find them
among all behaviours of five processes in the time of a run.  Among three the
second ballot is decided with the vote that starts it, and there is none to leave
out.  Cancelling an expired timer does not withdraw a handler that asio has
queued (`replob.h:182`, `core.cpp:556`): `DanglingTimeout` is reached although a
comment there expects otherwise.  A timer that expires on a step which was decided
and waits for an earlier one finds `voted_` too small and shuts a healthy process
down (`replob.h:254`).  A late vote of a node that was left out of the ballot makes
`voted_` differ from `nodes_` for ever (`replob.h:205`).  A message that applies
another one while it is executed may rehash `steps_` under the iterator of
`Phantom::complete()` (`phantom.h:103`); memory is not modelled.

Only who proposes in a step arms a timer for it, once (`replob.h:182`).  If the
proposer dies and nobody else proposed in the step, those whom its vote reached
wait for the rest for ever, and everything they propose later is held back
(`phantom.h:96`).  `Abandoned` is that state, `Delivery` holds but for it.

*Mutex and Channel.*  A journey is cancelled while it runs and then calls
`lock()` or `get()`.  Its doer is made after the event, with the new counter, so
it is as good as one of a journey that was never cancelled, while the wait ends
at once because of the event.  If it is acquired in between, the journey finds its
events disabled and Done not set yet: the VERIFY "Must be done" of
`journey.cpp:111` fails (`MustHaveEvent` names this of a `DetachableAwaiter`).  If
it is acquired later, the ownership is in the Done flag of a journey that does not
wait any more, or `Waiter::set()` writes to the stack of a `get()` that has ended
(`channel.h:129`): `FrameIsThere` names this hole.

A mutex can be lost, in two ways.  A cancellation that comes after `acquire()`
succeeded is thrown by `lock()` although Done is set, so that nobody unlocks:
`LostByThrowingOnly` says that the ownership is dropped in no other way.  And a
doer that outlived its wait is acquired by `unlock()`: the ownership is in the
Done flag of a journey that does not wait any more.

The values of a channel are lost in both ways, too, and one event may cost many of
them.  The first `get()` throws and leaves its waiter behind; `put()` gives it a
value, which is lost, and sets the Done flag.  The next `get()` finds the flag and
returns FALSE, without a throw, though the channel is open.  It leaves a waiter
behind in its turn, which the next `put()` acquires: the second value is lost, and
the flag is set again.  `LostToEventsOnly` says that before the first event no value
is lost; and after it one is lost only in the frame of a `get()` that throws
(`ThrownOut`), or by being given to the waiter of a `get()` that is over and that had,
when it began, something from before that could end it (`GivenTooLate`).

*Replob1.*  `disconnectNodes()` lowers the number of votes that `mayCommit()`
waits for, but nobody evaluates it again (`replob.cpp:181`): the step in progress
is stuck for ever, and all behind it.

*Waiting.*  `~Awaiter2()` sees the counter at 0 while the last child has yet to
call `done()` on what is being destroyed; `Outlives` and `LeavesNothing` name it.
`detachDoers()` has the FIXME of `journey.cpp:183`, between its two instructions;
a doer made after an event is not detached by it, and a child may acquire it before
`handleEvents()` looks, which then finds events off and nothing done: without this
exception `MustHaveEvent` is violated, with two children and one event.  goWait, goAnyWait and
AsyncWaiter leave their children a frame that is gone when the wait throws.  When
all handlers of goAnyWait throw, it waits for ever.
`synca::disableEventsAndCheck()` (`core.cpp:59`) enables events; nobody calls it.

*Network.*  `reconnect()` tries without a limit.  Cancelling a listener does not
cancel those that read (the TODO of `listener.cpp:32`), so that a node ends only
when its peers have closed their connections.  A handler that throws ends the
reader, and what was written behind it is lost though `write()` returned.  With
several threads, `wasDone_` of `network.cpp:85` is the race of its FIXME.

*Pool.*  A thread whose `run()` returned for one `wait()` may take the mutex only
during the next one: it finds no Work object, makes the pool ready and ends that wait
while journeys run, those included that were started before it began (`late` in
`WaitMeansDone`).  The second `wait()` of `closeAndWait()` is such a one.
`waitForAll()` compares two counters that are read in an order
the compiler chooses; read in one of them, they may be equal while a journey runs
(`AllMeansAll`).

*Chronos.*  `addEvent(diff, h)` reads the clock inside a transaction
(`chronos.cpp:143`), although the comment at `chronos.cpp:197` says that `now` "isn't
stable across nodes" and must be committed.  So nodes disagree on times when one
executes it later: without `prompt`, `Uniform` is violated after six states, and
`OneSlotEach` is, too.

`removeNodeComplete()` runs in a coroutine, not in the transaction as the comment
at `chronos.cpp:271` says.  With two nodes that survive, one executes the next
transaction before it takes the slot of the dead node away, the other behind that:
they give the same slot to different handlers, and from then on disagree on who runs
what.  TLC finds it in seconds with three nodes and one crash, all prompt, when asked
whether survivors that have executed the same log and completed its removals have the
same `view`: both run event 1 and nobody runs event 2.  `OneSlotEach`, `KeptUntilDone` and `EventRuns` therefore speak of no crash,
or of one survivor (`Undisputed`, `Calm`).

The completion of a handler behind the removal of its node gives that node a slot
again (`GhostSlot`).  A pulse behind the removal puts the node back into `nodesTs_`
(`chronos.cpp:66`), but not into the slots.  A handler that throws keeps its slot
for ever.  After its `Timeout` a call of `replobApplySync()` leaves `doer_` and
`result_` in a frame that is gone to the transaction that still runs
(`replob.h:345`).  If a later call has its doer in that place it is woken before its
own transaction is executed, and leaves a dangling pointer in its turn;
`ReadsOwnWrite` says that nobody else returns too early.

*Pipeline.*  With several workers in a stage the first that ends closes the
channel behind them, and `put()` throws for the others: their values are lost
with a line in the log.  It takes a source closed by a closer, or a cancelled
worker (`LostToSiblings`).

*With crashes.*  With timely timers and a crash, `UniformAgreement` fails, as a
process may decide, execute and die before any commit leaves it, and the
survivors decide without it; this is why `Agreement` speaks of the survivors.  `NoSplitBrain` also holds
with three processes, two messages, one step, false timeouts and reused memory
(7.8 million states), which takes too long for a run.

## Proofs

Every theorem is about all values of the constants that the assumption of its
module admits; the bounds on steps, messages, events and faults are constants
like any other, so none of the proofs depends on how large they are.  For the
invariants the argument is the same each time: an inductive invariant that says
why the property holds, first checked by TLC in the run of the module, then one
lemma for each action that takes the invariant over the step, and one
for the initial states.

### Voting

For every finite set of processes (`VotingAssumption`), and while no timer
expires (`SpecQuiet`; messages are delayed at will and processes die at will, in
the middle of a broadcast):

- `Invariance`: `IInv`;
- `QuietAgreement`, `QuietOrder`, `QuietIntegrity`, `QuietClosed`: what follows
  from `IInv`;
- `Refinement`: `SpecQuiet` implements `AtomicBroadcast`.

The argument.  None of the properties is inductive: that two logs agree says
nothing of the messages in flight.  `IInv` adds what the protocol is about.
A vote of `m` for step `s`, in a message or counted in an object, comes with all
that `m` proposed in `s`, and `m` can propose nothing more in it (`Counted`): it
is past `s`.  So an object in which everybody has voted holds all that was or
will be proposed in the step (`Decided`); that is what is committed, what commit
messages carry and what the logs hold.  Two decisions of one step are equal
since both equal the set of what was proposed in it.  `OwnCarried` is needed for
the votes that a process casts in its own name on behalf of others' messages,
`StartedInOrder` for the order of a sender.

A step of a handler changes many things at once, so the proof does not show
`IInv'` directly: it shows that each part holds of the changed tables "later",
that is, in terms of what is proposed and of the steps passed after the step
(`...Later`), and then identifies the two (`LaterMeans`).

For the whole of `Spec`, with timers that expire, ballots that shrink, `fail()`
and the clean-up:

- `TypeCorrect`: the types;
- `AlwaysInOrder`: whatever the network does and whichever memory a dangling
  timer handler reads, what is executed in a step was proposed in it, so nothing
  is executed twice, and a decided step waits only for one before it;
- `TimelyInOrder`: in a timely network, and without `Reuse`, all of `VotingInv`;
  in addition, nobody alive can propose in a step that anybody has executed.

Their invariant is `TimedInv`: whatever an object or a message carries for a step
was proposed in it; the objects in a table lie between its two counters
(`Within`); and, if `Trusted`, every reduced ballot and every decision is of a
step that all who are alive have passed (`Passed`).  This last part needs the
timers (`TimersFit`): who armed one has told the others, so each has passed the
step or has the message that will make it pass still to read (`Told`); in a timely
network the timer expires only when there is nothing to read.  Without
`Timely` the part is false, which is why the theorem assumes it.

For three processes, in a timely network and without `Reuse`, and for any number
of steps, messages and deaths:

- `ThreeAgreement`: `Agreement`, whichever ballots shrink and whoever decides
  first;
- `ThreeMajority`: `NoMinorityDecision`; what is shown is a little more: neither
  `apply()` nor `timeout()` decides, so who has nothing to read executes nothing.

The argument is another one than that of `IInv`, since a decision no longer holds
all that was proposed in the step.  A batch is `Final` if the proposals it lacks
are known to nobody who is still there: to no table, no log and no message to
one of them (`Known`).  Every result of a process that has not died is final
(`ResultsFinal`), so two results of one step are equal: what one has, it
knows, so the other has it, too.  A ballot of all is final when it is complete,
because every vote holds all its sender proposed (`BallotsOK`, `VotesOK`).  A
ballot of two is if the two know the same.  This is `Settled`, and it is shown
where the timer runs out (`UrgentSettled`): nothing is on its way then, everybody
who is there has voted in the step (`NoneSkipped`), has heard of each vote of the
others and of their decisions (`AllTold`), and what the dead had proposed was
passed on by one who counted it (`RelaysOK`).  From then on no new knowledge
appears, and of three processes only two are left, whose ballots can shrink only
to the same two (`PairsOK`).  A process with nothing left to read, whose fellows
are gone, is left out (`Hopeless`): it may know less, and decides nothing.  TLC
checked `ThreeInv` together with `TimedInv` on the constants of the run `timely`
(1.8 million states).  Where an action changes one ballot, sends one message and
brings one result, the proof says so once (`Moves`, `Keeps`) and takes every part
of `ThreeInv` over such a step; each action then is shown to be one.

For two processes, whatever the network does, with timers that run out at any
moment and handlers that run on reused memory:

- `TwoNeverSplit`: `NoSplitBrain`.

Of two, `isConsistent()` lets only the one with the smaller id, the first, go on
alone (`HalfOfTwo`).  `TwoInv` says why this is enough: a ballot that is open has
its own vote only (`TwoBallots`); whoever has sent something in a step will decide
with at least that, as long as the other has not decided (`LettersOK`); and where
the second has decided, the first has voted, and the decision holds that vote
(`FirstFollows`).  So a decision is made alone by the first, on a vote that the
second's decision includes, or on a message that the other's decision includes
(`Concludes`), and in both cases the two meet (`ResultsMeet`).  An object that a
timer finds is never `Fresh` (`TimersVoted`); if it were, its empty set of votes
would count as half of its empty set of nodes.  TLC checked `TwoInv` on the constants
of `anytime`.

### Replob1

For every finite set of processes, when the network is timely (`Timely`), any
number of which die or clean up at any moment, whose timers expire and who are
taken out of `NodesConfig`:

- `Safety`: `Replob1Inv`; a process has one vote in a step, the steps are decided
  in their order as long as nobody is taken out, a step that was executed is
  closed, and the messages of a process are executed in its order and without a
  gap;
- `Refinement`: the first version implements `AtomicBroadcast`.

The argument.  A step is decided by counting, and what the count is compared with
shrinks at different moments, so two processes may decide a step with the votes
of different sets.  `Core` is the invariant.  A vote is found with one message
wherever it is found, in a table or on its way, and that message is the voter's
own if it proposed in the step (`CastOnce`); so the count is a count of voters and
what they proposed in the step is in the batch.  What is left is who did not vote.
Those are out of `NodesConfig`; they have stopped, and since a timer expires only
when there is nothing to read, everybody has passed the steps they took part in
and nothing about such a step is on its way any more (`LeftBehind`, `Frozen`).  So
one that can still be decided has no vote of them and no message of them that
anybody knows.  That is what a decision means (`Decided`): the batch has whatever
was proposed in the step, but for messages of processes that stopped before
anybody heard of them, and of what they proposed later nobody has heard either.
Two batches of one step are therefore equal, since all their messages are known
(`LogsAgree`), and the messages of a process have no gap.

That whoever is taken out has not merely been slow needs `Told`: a process tells
the others of its votes in the order of the steps, so when all is read each has
heard all (`AllRead`).  `CommitsInOrder` is the same of commits, as long as nobody
is out.  The handlers are taken apart once: `Handling` says what `Apply` and
`Recv` do to the record of a step, the steps that are executed and the streams,
and has one lemma for each part of `Core`; what only drops, repeats or loses
messages is `Quiet`.

### Journey and Mutex

`JourneyProofs` has what one operation does to the flags of a journey, and that
`JourneyTypeOK` and `ResumedOnce` are inductive for any program that uses the
operations: Entered is set by exactly one, who proceeds, and reset only in the
suspension.  The three programs (`Mutex`, `Channel`, `Waiting`) rest on it.

`MutexProofs`, for every set of journeys and any number of events:

- `Inductive`: `MutexInv`;
- `MutualExclusionHolds`, `ResumedOnceHolds`: what the invariant is for;
- `OwnershipLoss`: `LostByThrowingOnly`;
- `MutexIsFair`: without events it implements `FairLock`.

The argument.  Mutual exclusion is not inductive: a journey goes inside because
it finds its Done flag set, so the flag must be as good as the lock.  `Owns`
names the three places where the ownership can be: a journey inside, one in
`unlock()` that has acquired a doer and not told it, and a Done flag that was
set by that (`Granted`).  `SingleOwner` says there is one at most, and none while
`acquired_` is FALSE; each step moves it from one place to the next or drops it.
`DoneIsKept` is needed because `handleEvents()` acts on a copy, and because a
`reschedule()` sets the Done flag, too, without giving the mutex to anybody.
Neither the counter of a doer nor the order of the queue matters for it: an
`unlock()` may hand over to a stale doer and nobody is doubled.

Fairness is about runs without events (`Calm`).  Then a wait ends only by Done,
no wait throws and every doer can be acquired (`Undisturbed`), so the queue holds
exactly those that wait, once each (`Lined`); with that, every step asks, gives
the mutex to the head of the queue, or changes nothing that `FairLock` sees
(`Turn`).  Without `Undisturbed` an owner may be passed over, as `Woken` and
`LostByThrowingOnly` allow.

### Channel

For every set of journeys, threads and values and any number of events:

- `ChannelHolds`: `ChannelInv`; with it, no value is got twice and `set()` writes
  to a frame that is there, but for the hole named there;
- `NobodyIsForgotten`: `NobodyForgotten`;
- `ValueLoss`: `LostToEventsOnly`;
- `ChannelIsFifo`: without events it implements `Fifo`.

`GotOnce` counts the places of a value, which no prover likes: `NoneTwice` and
`Apart` say the same with one quantifier for each pair of places, and are
inductive.  The frame is harder.  `SleepsSoundly` is the reason that it is there:
a waiter that was left with nothing from before is the only one of its journey,
and as long as a thread holds it or can acquire it the journey sleeps in that very
`get()`, its events off or counted.  That a journey never has two such waiters
needs `LeftOnce`, and that an older one cannot be acquired needs the counter
(`LeftByWaiting`).  For `Fifo`, what a thread has taken from `put()` and not yet
written counts as given (`Handed`), so that `put()` itself is the step that
gives.

### Waiting

For every set of children, every kind of wait and any number of events:

- `WaitingHolds`: `WaitingInv`;
- `WaitReturnsInTime`, `DestructorsOutlive`, `NothingIsLeft`: `ReturnsInTime`,
  `Outlives` and `LeavesNothing`.

The argument.  The count goes to zero once, or there is a first once (`Spent`),
since whoever drops a share cannot get one back and the parent's own share keeps
the count up while it starts children (`Counted`).  So there is one teller at
most, and nobody has told before (`ToldOnce`): a Done flag that is set means that
all is over.  From there on it is about what wakes the parent.  In a wait on a
plain doer it is Done or an event that it will find (`Justified`), since nobody
else turns events off; a `DetachableAwaiter` has the same only if no event
came before its doer, and of the rest the theorem says nothing.  An
`Awaiter` that an event woke waits again without events,
so it goes on when it is told and not before (`Forgiven`), and for an `Awaiter2`
the one teller that may be left behind is named (`Buried`).  For a
`DetachableAwaiter` the word of flags is shared with the one who acquired the
doer: events are off exactly while somebody has it (`Detachable`: `Held`), an
event in between raises the counter, and so does `detachDoers()`, so that nobody
can acquire it any more (`Overtaken`).  The two are exclusive, which is what makes
`Silent`, and `LeavesNothing` with it, inductive.

### Network and Pool

`NetworkProofs`: `PacketsHold` (`NetworkInv`) and `RemovedIsSilent`
(`SilentAfterRemove`), for any number of messages and faults.  `Framing` needs
that the mutex of the connector has one owner who is in a call of the socket
(`Calling`) and at which cell of a packet the stream then stands (`Boundary`);
`AtMostOnce` needs that what was written whole lies in order over all connections,
old to new, before what is still to be written (`WrittenInOrder`), and that what
was executed is what was read (`ExecutedAsRead`).  The theorem treats a message as
one cell with a size before it; that its bytes come out as they went in is
`RoundTrip`, which is checked and not proved.

`PoolProofs`: `PoolWorks` (`PoolInv`) and `ReturnsDone` (`ReturnMeansDone`), for
any finite set of threads and any number of journeys.  A service that has stopped
has nothing left (`StoppedMeansEnded`), and some thread is in `run()` to find out
or has found out (`SomebodyRuns`); a `wait()` returns only then, unless a thread that
had left `run()` before it began makes the pool ready (`ReadyMeansEnded`).  So
`ReturnsDone` says nothing of the second `wait()` of `closeAndWait()`, nor of a
`waitForAll()` that reads the created journeys first.

### What is checked only

- Liveness: `Delivery`, `Woken`, `ClosedIsTold`, `WaitEnds`, `Progress`,
  `EventRuns`: the prover has no rules for fairness.
- `SenderOrder` of `Voting` with timeouts, for three processes.  `Agreement` and
  `NoMinorityDecision` are proved for three processes; among five the first is
  false, as said above.  `NoSplitBrain` among three.
- `RoundTrip`: what a recursive definition computes is a matter of induction over
  the object.
- `Delivery` of `Replob1`, and the first version in a network that is not timely.
- `Chronos` and `Pipeline`.

## Not modelled

- What follows a write through a dangling pointer, other than what the actions
  `DanglingTimeout`, `Set` and `Answer` name: a crash, or other memory.
- The VERIFYs of the serialization on sizes and alignment (`serialization.h:54`, 67):
  the buffers of the model fit.
- The portals, `teleport()` and `gc.cpp`: registries and the move of a journey to
  another scheduler, which is a `reschedule()` for the flags of `Journey`.
- Statistics and logging (no effect on behaviour), the adapter and the modifiers
  (compile-time plumbing), the contexts of coroutines (Boost's machinery).
- `failure_detector.cpp` (the detector of `chronos.cpp`, except that it forgets a
  node at once and an update adds it again), `kv.cpp` (a map behind transactions)
  and `server.h` (it sets up the single thread that the models of the protocol
  and of the network assume).
- `Socket::partialRead()`, the `Resolver`, an error of `accept()`.
- In `Journey` the counter does not wrap: that takes 2^27 events to one journey
  between the making of a doer and its `acquire()`.
- A `Timeout` that expires just as it is cancelled raises its event in the next
  wait (`core.cpp:231`); `Waiting` has events at any moment, so this one, too, but
  does not tell it from one that is due.
- An exception out of a journey's handler on a thread of the pool.
