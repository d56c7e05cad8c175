# A verification of nsyslog

nsyslog is a log agent: inputs collect entries, processors change them,
transporters send them on, along flows that a configuration describes. This
directory holds TLA+ models of the parts of `lib/` that make this work, TLC
configurations that check them on small instances, and proofs that TLAPS checks
for every instance. Line numbers refer to the files of the repository, paths
without a directory to `lib/`.

1. [The system](#the-system)
2. [Modules](#modules)
3. [Runs](#runs)
4. [Fairness](#fairness)
5. [Proofs](#proofs)
6. [Where documentation and code part](#where-documentation-and-code-part)
7. [What the models leave out](#what-the-models-leave-out)
8. [Plan](#plan)

## The system

An entry goes this way:

    input -> InputWrapper -> QueueStream (push) or BypassStream (pull)
          -> inputStream -> one FilterStream per flow
          -> processor stages -> transporter stages
          or, if the flow is forked, -> FlowFork -> IPC -> the same in a worker

All of a process runs on one event loop; the concurrency is that of promises,
callbacks and streams, of several processes that exchange messages, and of the
file system. Backpressure is the same everywhere: a bounded semaphore is taken
for what is in flight, and the stream that writes waits for its callback.

| component | state it keeps | operations | what makes it correct |
|---|---|---|---|
| Semaphore (`semaphore.js`) | count, waiters | take, leave, available, destroy | no more than the capacity, no waiter forgotten |
| Queue (`queue.js`) | list, a mutex for poppers, a semaphore for slots | push, pop, size | FIFO, bounded, no lost wakeup |
| Processor stage (`factory.js` `transform`) | pending slots, queue of promises, buffer of items | write, read, instance.push, retry timer | results in input order, slots conserved, a blocked write resumes |
| Transporter stage (`factory.js` `writer`) | as above | write, read | as above |
| Forked flows (`cluster/`) | worker, process, semaphore per core; IPC channels | write, ack, start, close, restart, closefork | no process with more than its slots, no entry lost but by a death, a dead worker replaced |
| File input (`input/file/`) | open files, offsets, tails, lines, marks | open, read, next, save, stop, monitor events | every line once and in order, across closes and restarts |
| Shared memory (`shm.js`) | a copy of SHM per process, list of listeners | set, hset, hpush, subscribe | copies agree, a joining process misses nothing |
| Core engine (`nsyslog/`) | streams, flow map, children | start, push, pause, resume, stop | every entry reaches each flow that selects it, once |
| Input wrapper (`input/wrapper.js`) | a Readable per pull input | start, pause, resume, stop | one next() at a time, errors retried, pause stops the input |
| Streams (`stream/`) | handlers, a queue per filter, a disk queue for push inputs | write, read, subscribe | order, backpressure |
| Configuration (`config/`) | flow tree, modules, one configuration per process | read, sanitize, split | every flow in exactly one process, with the flow it hangs on |
| Watermark store (`watermark.js`) | a level database in the master, pending requests in the children | get, create, save, clean, remove | the last save is what get returns |
| Polling inputs (mongo, sqlserver, elastic, http, httpsm, kafka, Windows events) | queue of fetched entries, watermark in memory and in the store | configure, start, fetch, next, pause, resume, stop | no entry skipped, at a restart either; none given twice by one process |
| Listening inputs (syslog, tcp, udp, ws, redis, amqp, zmq, http, https) | connections and their buffers, requests that wait for an ack | data, timer, ack, start, pause, resume, stop | messages cut where the text says, nothing of a text lost, a request answered once |
| Commands and machine collector | child processes, an interval, listeners | run, next, data, start, pause, resume, stop | lines whole and in order |
| Transporters | connections, buffers, retries, loops | transport, send, errors, stop | an entry answered without an error has arrived; order; each answered |
| Reemiter, PubSub (`reemiter.js`, `pubsub.js`) | callbacks in one queue, connections; frames in pieces | write, response, error | each callback once, for its own entry |
| Multilang processor (`processor/multilang/`) | worker processes, tuples by id, messages in pieces | process, ack, fail, emit, close, stop | each call answered once, with its own emits, also over a restart |
| Buffering processors (joiner, throttle, array, filter) | held entries, items by key in memory and in two stores | process, timers, purge, stop | every entry put out once |
| Other processors, statistics, CLI | text, counters | | |

How they interact: stages are `Duplex` streams that call a component back
(`processor/index.js`, `transporter/index.js`) and use `Queue` for what is to
leave; `FlowFork` uses a `Semaphore` per worker and the dispatch of
`cluster/index.js`, which `shm.js` and `watermark.js` use too; a worker registers
its flows in the shared memory, where the `Reemiter` of another process looks
them up before it connects through `PubSub`.

What is hard, and therefore modelled first: callbacks that resume in another
order than they were asked for (queue, file input); counts that must match over
errors, retries and array answers (stages); messages of a process that was
replaced (forked flows); a file that changes between two awaits (file input); a
process that joins while others write (shared memory); a pause and resume of streams
that wait for one another (core engine). Next come what has no memory but a mark (the
inputs, across a crash), what talks to something that breaks (transporters, reemission,
workers) and what arrives in pieces (listening inputs, PubSub, multilang).

## Modules

| module | models | how state and actions correspond |
|---|---|---|
| `Semaphore` | `semaphore.js` over the npm package `semaphore` | a record of count, capacity and waiters; `Take` and `Leave` are operators that return the next record, so that every module keeps its own; a freed slot goes to the first waiter at once, its callback runs in a later tick |
| `BoundedFifo` | what `queue.js` promises | abstract |
| `Queue` | `queue.js` | each async function is cut at its awaits; `push[n]` and `pop[c]` are where each call stands, `jobs` the microtasks and `ticks` the nextTick callbacks; a tick runs when no job is left |
| `OrderedStage` | what a stage promises (`processor/index.js:6-11`, `transporter/index.js:5-11`) | abstract |
| `ProcessorStage` | `Factory.transform` (`factory.js:211-408`) | `state[e]` is where prfn stands for entry e, `order` the queue of promises, `handled` how far `queue.forEach` is; the component answers when and with what it likes |
| `TransporterStage` | `Factory.writer` (`factory.js:70-205`) | the same with one item pushed to the buffer for each element of an array |
| `FlowFork` | `cluster/flow-master.js`, `flow-worker.js`, `index.js` | `child[w]` is `w.child`; processes are numbered as they are forked, so the messages of a replaced one stay apart; a semaphore belongs to the process it came with |
| `FileInput` | `input/file/index.js`, `filesystem.js` | every function that awaits is a task with a program counter; files are inodes behind paths, bytes are units numbered as they are written; `db` survives the process |
| `SharedMem` | `shm.js` | a copy of the values and lists per process, two FIFO channels per child; each write carries a value of its own, so copies can be compared |
| `FlowSplit` | `config/index.js` (`sanitizeFlows`, `split`), `nsyslog/index.js:118-160` | `flows` is the flattened tree, `i` the position of the pass; a process reads what it was given by the same actions |
| `FlowGraph` | `nsyslog/index.js`, `input/wrapper.js`, `stream/`, and the local part of `reemiter.js` with `transporter/reemit.js` | `stream[i]` is the Readable of a wrapper, `bypass` and `hub` are `bypassStream` and `inputStream`, `filter[f]` the `FilterStream` of a flow; a data event is a step, and so is a drain; a chunk knows which transporter waits for its callback; `marked` are the objects whose `$$reemit` was set |
| `Engine` | `FlowSplit` and `FlowGraph` | one or the other: a process splits its configuration before its streams exist |
| `Watermarks` | `watermark.js` | `db` is the value of a key in the master's database, `calls` the requests not answered yet; a request of a process that has died is still done |
| `InputSource` | what polling inputs have in common, `queue.js` as they use it | a source with items 1, 2, ..., `wm` the mark in memory, `fetched` the queue, `given` what was answered to next(); a crash forgets all but the store |
| `DatabaseInputs` | `input/mongo.js`, `input/sqlserver.js` | a cursor for each collection, chains of timers that save; `reqs` are the queries under way, paused or not |
| `HttpInputs` | `input/elastic.js`, `http.js`, `httpsm.js` | one request at a time, `loop` where each loop of the push mode stands, `bound.retry` whether one goes on after an error |
| `WindowsInputs` | `input/windows/windows-poll.js`, `input/windows_legacy/` | the library's answers by batches of ids; the program `wevtutil`, its lines and its bookmark file, which survives |
| `KafkaInput` | `input/kafkajs.js` | the library's consumer: batches, resolved and committed offsets, pause and heartbeat |
| `Inputs` | the above with the store, wrapper and restarts | a member of `Worlds` says which input it is |
| `Listener` | start, pause, resume, stop of inputs that are sent something | |
| `SyslogListener` | `input/syslog/tcp.js`, `tls.js`, `tcpbase`, `input/tcp.js` | texts are sequences of characters of four kinds; `came` and `done` say how far a text came and left the buffer |
| `MessageInputs` | udp, ws, redis, amqp, zmq, machine; `input/http-server/`, the acker; `input/command.js`, `input/static.js` | by input what came and what was called back with; `ackmap` entries by request; runs of the command, with the callback each has, and the intervals that run (`ticking`), of which `last` is `this.timer` |
| `ListeningInputs` | the above | |
| `Destination` | what transporters have in common | `sent` to transport(), `answer` the first callback, `arrived` at each place, in order |
| `QueueTransporters` | `transporter/mongo.js`, `kafka.js` | every transporter made for a url, with its buffers, its loop and its inserts; by partition what waits and the send under way |
| `WebTransporters` | `transporter/http.js`, `websocket.js` | buffer, mutex, timer and requests of the array mode; the socket, its retries |
| `DirectTransporters` | `transporter/syslog/`, `elastic.js`, `zmq.js`, `redis.js`, `file.js`, console, global | streams and pools of connections; one place for what is pending |
| `Reemission` | `reemiter.js` between processes, `pubsub.js` | bytes in pieces both ways, the one queue of callbacks, what each connection has pending |
| `Transporters` | the above with the stage that calls them | |
| `Multilang` | `processor/multilang/`, with `storm.js` of the workers | two pipes of lines for each worker, cut anywhere when it ends; tuples, task ids and acks |
| `BufferingProcessors` | `processor/joiner.js`, `throttle.js`, `array.js`, `filter.js` | what is held, by key in memory and in the stores; two semaphores |
| `MC*` | | values of the constants for TLC; `MCFlowFork` also has the claim that is violated, `MCProcessors` the composition of the two above |
| `QueueAndProcessors_proofs`, `ProcessorStage_proofs`, `TransporterStage_proofs`, `Cluster_proofs`, `Engine_proofs`, `Inputs_proofs`, `FileInput_proofs` | | theorems; `Cluster_proofs` is about `FlowFork` and `SharedMem` |
| `Operators_proofs` | | induction; what `Take` and `Leave` do to a semaphore and its callers; `FlattenSeq` and counting, as a sequence grows and shrinks |

`Queue` refines `BoundedFifo` and `ProcessorStage` refines `OrderedStage`, each by
`INSTANCE ... WITH` and the abstract `Spec`, liveness included, as a property.
`Queue`, the stages, `FlowFork`, `FileInput` and several transporters extend `Semaphore`.

Everywhere but in `Queue` itself, `queue.js` appears as a FIFO, without a capacity
or with one: `BoundedFifo`, which `Queue` is checked to implement with one.

## Runs

`Worlds`, `Buffers` and `Configs` are sets of scenarios from which the initial state takes one:
which input or transporter it is, what is configured, and how often each fault may
happen. The product of all faults is out of reach, so each world has some of them.

| run | instance | shows |
|---|---|---|
| `queue_bounded` | 2 slots, 5 concurrent pushes, 2 poppers | `SlotsAccounted`: the taken slots are the items and the pushes about to insert; `NoLostWakeup`; `IInv`, the inductive invariant; `ImplementsFifo` |
| `processor_full` | 1 slot, 3 entries, 1 async push, results of up to 2 items, filters, 2 retries | `SlotsConserved`; `ImplementsStage`: results once and in input order, and a write that waits goes on |
| `transporter_arrays` | 2 slots, 4 entries, arrays of up to 2 | `SlotsAccounted`: how far the over-release of arrays goes; `InInputOrder` |
| `fork_modes` | 2 workers with 1 slot, 4 entries, 4 modes, 1 crash, with and without early ends, slow and failing starts; 1 worker with 2 slots, 5 entries, a crash, stop | `SlotsMatchUnacked`, `ChildOrder`, `LostOnlyByDeath`; `WriteReturns`: every write is called back unless a process ends or fails before it is ready, or that of another worker than the last ends |
| `fork_crashed` | 2 workers, 1 crash | violated: `CrashedWorkerRestarts` |
| `file_follow` | 2 paths, 3 units, blocks of 2, 2 processes in turn | `LinesAccounted`, `StoresPosition`, `EveryLineIsRead`, `StopEnds` |
| `inputs` | 11 inputs, 2 or 3 items of 2 classes; an error of the source and a pause, or a crash and a second process, or all; http that pushes without `retry`, sqlserver with two queries at a time | `NoneSkipped`: what the stored mark, the one in memory or one on its way to the store covers was read by this or an earlier process, with three exceptions (winpoll over several batches of ids, `wevtutil` reset to the end, the batches kafka ignores in a shutdown); `MongoGivesFirst`: what is stored was given; `InSourceOrder`; `EveryItemGiven` |
| `transporters` | 12 transporters and reemission, 2 to 4 entries, 2 places, up to 2 faults, a stop | `AnsweredHasArrived`: no entry is answered without an error before it arrived; `InOrderOfTransport`; `AnswersInBalance`: the answers of reemission are the entries; `EveryEntryAnswered` |
| `listening` | 16 inputs and modes, texts of up to 7 characters in all pieces, 3 messages of each of 2 inputs, 2 requests with acks of 2 flows, 2 runs of a command, one error and a pause | `MessagesComeWhole`, `NothingOfTextLost`, `AnsweredOnce`, `ComesToAnEnd` |
| `processors` | 2 workers, 2 entries, up to 2 emits and 2 ends of a worker; or 5 entries of 2 keys in a joiner, throttle, array or filter, with and without timers and stop | `AnsweredWithItsEmits`: a call is answered with the emits of its own tuple; `InOrderToWorker`; `CountedOnceInOrder`; `EveryCallAnswered`, `EveryEntryPutOut` |
| `shm_copies` | master, 2 children, 3 keys, 1 list, 3 writes, 1 death | `CatchUp`, `ListsAccounted`, `PushesReachAll` |
| `engine` | all configurations of 3 flows; 2 pull inputs, a push input, 2 flows; limits of 2 and 1; 10 entries of one input, or up to 5 with reemission to a flow or to the inputs; one pause and resume, stop | `RunsWithItsRoot`: a flow runs in the process of the flow it hangs on; `ForksResolved`; `InOrderNoneSkipped`: each flow takes an input's entries in order, as often as its wrapper had pipes, and skips none but those it is shut out of; `Delivered` |

`TypeOK`, in every module that has state, is proved for the queue, both stages,
`FlowFork`, `SharedMem`, `FlowGraph` and `FileInput`; in the others it holds on the instances
above, when it is added to the invariants, as the inductive invariants of the proofs do
(`IInv`, `OrderInv`, `SlotInv`, `GraphInv`, `FileInv`).

Properties that are only true with exceptions name them, and each exception is a case
in which the code really fails; they are listed in
[Where documentation and code part](#where-documentation-and-code-part).

Why the bounds are enough. In the queue, two poppers are what a wakeup can be lost
between, and five pushes with two slots leave pushes waiting, woken and inserting at once;
`IInv` is proved for any number, and so are the slots of the processor stage. In the
stages, the property of an entry depends on the entries before and after it: with one or
two slots and three or four entries there is always one that waits for a slot, one in
flight and one in the buffer, and two items are enough for an order within a result. In
`FlowFork` two workers show every confusion of one with another, one crash is a process
with a predecessor whose messages still arrive, and entries outnumber the slots. In
`FileInput` a block of 2 units and a file of 3 make every case of a read that ends inside
a line, at a line's end and at the end of the file. In `SharedMem`, two children are a
reader and a writer that do not know of each other, and three writes allow one before, one
during and one after a subscription; its safety is proved for any number. In `FlowGraph`
ten entries fill every stream between one input and a flow that does not take any, so the
input is held back before, during and after a pause; the other worlds have several inputs
that wait for one drain, and reemission to a flow and to the inputs, with a second flow that
lets in what is reemitted, or does not and is behind. Three flows are the
smallest tree with a third level, and make every chain, fork and cycle of links. For the
inputs, three items are one given, one queued and one at the source, and a second process
meets every mark that the first can leave; two classes make marks that move on their own.
For the transporters, three or four entries for two places fill a batch, exceed it, and
leave one of the other place between; two faults are one during the retry of another.
Texts are as long as it takes for two messages, each with its mark cut in two, and a rest;
one begins before its first mark. Two inputs on one socket or collector hear each other's
messages.
Two tuples, of one or two workers, with one end of a worker are answered by either
process; five entries of two keys fill a buffer and purge it while another is counted.

`CHECK_DEADLOCK FALSE` is in every configuration: each model stops when its bound
of calls, entries or writes is used up and everything is answered.

## Fairness

- `Queue`: weak fairness of jobs and ticks; Node runs every microtask and every
  nextTick callback. Calls are made as callers please.
- Stages: the event loop runs what is ready, timers expire, the component
  answers each call (a component that does not answer blocks its stage by
  design) and the next stage keeps reading.
- `FlowFork`: channels deliver, workers that live start and ack what they take,
  the five second timer expires. Nothing makes a process crash.
- `FileInput`: one weak fairness for all the process does by itself (`Progress`):
  promises settle, I/O ends, file events arrive, the wrapper asks again. It is
  as weak as it can be: one of these happens as long as one can, and what starves
  must be shown not to. Code that can go on after an await runs before the
  next event (`Settled`), which is the order of microtasks in Node.
- `SharedMem`: messages are delivered and handled, per child and direction.
- `FlowSplit`: the passes over the flows go on, which nothing in them awaits.
- `FlowGraph`: data and drain events that are due happen, and flows take what they are
  given. Inputs give what they like, and nobody need resume. As in `FileInput`, what the
  process does by itself comes before the next outside event (`Settled`).

- `Inputs`: the store answers, a source answers what it is asked, each step of the
  process that can be taken is. Nothing says that an item comes, or that anybody pauses
  or resumes. Strong fairness for the steps that only an answer keeps waiting: timers
  bring answers again and again, and the event loop forgets none.
- `Transporters`: one weak fairness for all that a transporter and its connections do by
  themselves (`Works`). Nothing says that a connection fails.
- `ListeningInputs`: timers and intervals fire, a client that has begun a request ends it,
  a flow that acks does so. Nothing says that a client begins anything.
- `MCProcessors`: the event loop and timers; a worker that lives reads its input and answers
  each tuple, as the protocol asks. It need not emit, nor end. The stores of the filter
  answer; `SF` for the read of the loop, which others may keep waiting but not for ever.

## Proofs

`QueueAndProcessors_proofs` proves of `Queue`, for any capacity, number of pushes and finite set of
poppers:

- `Invariance`: `Spec => []IInv`. `SlotsAccounted` and `NoLostWakeup` alone are
  not inductive: that a freed slot is not given twice needs that the waiters of a
  semaphore are callers in the state of waiting, each queued once (`Queued`), and
  that no wakeup is lost needs that a popper waits only while the mutex is taken
  and that no slot is idle while a push waits (`NoIdleSlot`). There is one lemma per
  action.
- `TypeCorrect`, `SlotsAreAccounted`, `NoWakeupIsLost`, `NoSlotIsIdle`: its parts.
- `StepsOfFifo`: initial states and steps of the queue are initial states and
  steps, or stutters, of `BoundedFifo`: the safety part of the refinement.

`ProcessorStage_proofs` proves, for any limit, numbers of entries, items and retries, any
finite set of pushers and any filters:

- `Invariance`: `Spec => []IInv`. `SlotsConserved` counts slots, but who gets one is
  decided by the semaphore: that a `leave` wakes a caller that waits, or that no one does,
  needs that the semaphore is `Sound`: its waiters are callers that wait and the other way
  round, each queued once, and only while all slots are taken. That `retry` stays above its
  bound needs that an entry is given to the processor with retries left, and that needs
  that entries start one after another (`StartedInOrder`).
- `SlotsAreConserved`, `TypeCorrect`: its parts; no `leave` of this stage throws.
- `NoSlotIsIdle`: a write or a push waits only while `maxPending` slots are taken.
- `Backpressure`: the stage holds `maxPending` entries at most, and the one whose write
  waits.
- `StepsOfStage`: the safety part of the refinement. `ResultsFit`, part of `IInv`, says that
  what an entry is resolved with is what the filters leave of a result; that the items of
  the resolved entries leave one by one, in order, is about the concatenation of the
  results (`FlattenAppend`, `FlattenTail`).

`TransporterStage_proofs` proves, for any limit, number of entries, arrays and filter:

- `Invariance`: `Spec => []IInv`, with `Slots` (who has or waits for one), `Answers` (what
  forEach has taken is settled) and `Flow` (an item is lost only when nothing is read any
  more). The slots an array gives back too often are counted when its entry is handled,
  the items leave later: `BeyondFirst` of what is handled changes with an entry handled
  (`HandledMore`) and with none else (`HandledSame`).
- `TypeCorrect`, `SlotsAreAccounted`, `ItemsComeInOrder`: its parts.

`Cluster_proofs` proves of `FlowFork`, for any flows (any numbers of workers and slots, any modes, any
faults) and any numbers of entries and processes:

- `Invariance`: `Spec => []IInv`. `LostOnlyByDeath` alone is not inductive: an entry is
  refused by a process that does not run, and dropped by one that is not there. While
  nothing has ended (`Calm`), every worker has the process it began with and no restart is
  pending (`AsBegun`); such a process is told to start once, says success only when it
  runs, and gets entries only after that (`StartsThenRuns`), which needs that its "online"
  and its start are on their channels once (`Once`). What has ended stays so (`CalmBefore`)
  because a restart takes a number that no process has (`NoneForked`). There is one lemma
  for the types and one for the rest per action.
- `TypeCorrect`: its first part. That the least loaded worker exists, which the code finds
  by sorting, is the lemma `LeastLoadedType`.
- `EntriesAreKept`: `LostOnlyByDeath`, also while the entry is being written.
- `OrderInvariance`: `Spec => []OrderInv`, whatever ends, is restarted or stopped; and
  `ProcessesKeepOrder`: `ChildOrder` follows. Only the last worker gets new processes, as
  its number is in the variable all closures share, so the calls of an older write can be
  left only at the other workers, whose processes were ready (`Calls`, `FirstWrite`); such
  calls wait for a slot in the order of their entries, behind those that got one
  (`WaitsInOrder`); and what a process took, what is on its channel and the calls that go
  there come in this order (`ArriveInOrder`).
- `SlotInvariance`: `Spec => []SlotInv`; and `SlotsAreUnacked`: `SlotsMatchUnacked` follows.
  A process has no entries before it is ready, and its semaphore is reset when it becomes
  so; while the flow was not stopped, it starts once and does not fail after its success
  (`StartsOnce`). The proof found the case that the property now names: a stop counts as
  the success of a start, and the error of that start comes after it and leaves a slot.

`Engine_proofs` proves, for any inputs, flows, selections, marks, limits, targets of
reemission, pauses, and any configurations beside them:

- `Invariance`: `Spec => []GraphInv`. `InOrderNoneSkipped` is about what a flow took;
  why it stays true is in what is on its way. From `bypassStream` to a flow there are five
  places, its `Line`: the numbers of one input's entries go up along it and in each place,
  no number is left out but those that the flow is shut out of (`ShutOut`, which grows when
  another flow reemits), and of each there are at most as many as the wrapper had pipes
  (`InLine`). What the input still holds comes after all of these, each once, up to the
  last given (`Follows`); once stopped, the end may be cut off. A flow that does not select
  the input takes none of its entries. This needs that the buffer of an input and the disk
  queue hold entries of their own only (`OwnEntries`), that a stream that flows has a pipe
  and at most one more for each resume (`PipesInPlace`), and that a held write of a
  transform is the first one and already transformed (`Cargo`); and that what awaits room in
  the queue of a filter has passed it (`PassedSelected`). Each action moves an entry
  one place on (`LineMove`, `MovesOn`), drops one at a filter (`LineDrop`, `DropsOut`), brings some from a source (`LineFrom`), gives one
  to a source (`FollowsGiven`) or moves nothing of the input (`LineQuiet`). Writing an
  entry once for every pipe is a recursion over the pipes (`CargoPasses`, by induction).
- `TypeCorrect`, `TakenInOrder`: its part, and `InOrderNoneSkipped`, which follows.

`Inputs_proofs` proves, for any items, collections, worlds (inputs, batch sizes, starts,
errors, pauses, processes), and any order in which the store answers and the timers run:

- `Invariance`: `Spec => []IInv`, of the mongo input. That what is stored was given needs
  that so is what is on its way to the store and what the mark in memory covers
  (`StoreInv`), and that the mark passes no document over when one is given: what is left
  in the cursor of a collection comes in order and is what follows its mark, with none
  between (`Follows`), although timers make cursors anew and a pause does not.
- `GivenBeforeStored`: `MongoGivesFirst` follows.
- `SeenInvariance`: `Spec => []SeenInv`, of all other inputs. What a mark covers was read:
  the mark in memory, those stored or on their way, those that the answer of a request
  carries (`PublishesFirst`), and the bookmark of the program `wevtutil`. The rows of a
  query follow the mark of its collection with none left out (`RowsFollow`), as do the
  lines of the program its bookmark (`EventsFollow`).
- `NoItemSkipped`: `NoneSkipped` follows, for all inputs but the two that it names, and all items but
  those of batches that kafka ignored in a shutdown.
- `OrderInvariance`: `Spec => []OrderInv`. What a process gave, and then its queue, go up
  (`OwnThenQueue`), since a read starts from a mark that covers both (`QueueOrder`). That
  needs that the mark in the store is one for all items too (`MarksUniform`). Rows are the
  hard case: they move the mark one by one, so two queries at a time would give items
  twice. With one cursor, and as long as no query fails, there is one (`OneQuery`): the
  semaphore is taken while it runs and until its save is answered, and no save of this
  process is answered twice. A query that fails leaves the semaphore twice, and `maxCursors`
  above 1 lets several run; the exceptions of `InSourceOrder` name both. What the program `wevtutil` prints is beyond all that was queued
  (`EventsInOrder`), since its bookmark covers that when it has ended by itself
  (`ProgramRuns`); a kill comes only from `stop()` when nobody pauses, and then nothing is
  read (`CallsOfNow`). For mongo a cursor goes on beyond the mark (`Follows`).
- `ItemsInSourceOrder`: `InSourceOrder` follows.

A query gives its items in order because any finite set of numbers can be put in order,
which is shown by induction (`AscendingExists`).

These rest on `Operators_proofs`: what `Take` and `Leave` return (`TakeProperties`,
`LeaveProperties`), what they do to the callers queued (`QueuedTake`, `QueuedLeave`,
`AllQueuedTake`, `AllQueuedLeave`), and that they keep a semaphore `Sound`; how often a
value `Occurs` in a sequence, and the concatenation of a sequence of sequences, when an
element is added at the end or taken from the front. Induction is stated there for sets of
numbers (`Induction`), from the least element of one (`LeastNatural`), since the
provers cannot instantiate the library's theorems. That a recursive function is what its
equation says needs that one exists, which is shown by induction on its argument
(`FlatExists`, `FlattenIsFlat`; `PassesExist`, `PassesIsPasses` in `Engine_proofs`).

`Cluster_proofs` proves of `SharedMem`, for any sets of children, keys, parents and lists, any
writers, and any number of writes and deaths:

- `ShmInvariance`: `ShmSpec => []ShmInv`. `CatchUp` needs the order of messages: a child has
  nothing on its channel before its snapshot and is listed when it gets it
  (`SnapshotFirst`); it needs that a child sends writes to its own keys only
  (`OwnWrites`), and that what comes down to the only writer of a key leaves that
  key as it is (`OwnersUndisturbed`). `ListsAccounted` needs that a pushed value is
  on its way to one list of one copy once (`PushedOnce`). The lemmas say what sending and
  receiving does to what a copy ends with (`EndsAppend`, `EndsTail`) and to what a
  channel adds to a list (`ComingAppend`, `ComingTail`, `OnceAppend`, `OnceTail`);
  then there is one lemma per conjunct of `ShmInv`, by cases of `ShmNext`.
- `ShmTypeCorrect`, `SnapshotComesFirst`, `CopiesCatchUp`, `PushesAreAccounted`: its
  parts.

`FileInput_proofs` proves, for any files, blocks, lines, and numbers of writes and processes,
and any order of opens, reads, closes, saves, crashes, stops and restarts:

- `FileInvariance`: `FileSpec => []FileInv`. `LinesAccounted` says that what was given, what
  waits and the tail are the text up to the offset; to keep this true over a close and an
  open it must hold of what the file is opened from: the mark in memory (`InMemory`), which is
  the `File` object while there is one (`OnMark`), and the mark and lines in the store, which
  a new process begins with (`InStore`). Each is the same sentence, `Accounted`, about a mark
  and a sequence of lines, so one lemma says what a read does to it (`AccountedOn`). A read that
  goes on with an object that `openFile` has replaced would count twice; it does not happen,
  since a path has one object and one call that opens it, and an object is replaced only after
  it was closed (`OpensOnce`, with the semaphore that the callers wait for). Files that
  only grow stay where they are, and no unit is in two of them (`Disk`).
- `FileLines`: `LinesAccounted` follows.
- `FilePosition`: `StoresPosition`, when `StartAt` is "start". With "end" a file that is found
  at the start is read from its end, and what was there is never given, which is what the
  setting asks for. It needs that what lies behind the text that a mark accounts for was
  given to the flow before, by this process or an earlier one (`Seen`): a save keeps the lines
  not asked for beside the mark.

`QueueAndProcessors_proofs` proves of `Multilang`, for any finite set of workers, any numbers of
entries and emits, and any deaths, by group or shuffled:

- `WorkersInvariance`: `WorkersSpec => []WorkersInv`. That a callback gets all the emits of its
  entry or none needs to know where each emit is: what the worker made is what has come and
  what is still in its pipe (`EmitsOf`), as long as the worker has the entry or its answer is
  in the pipe; the answer is behind all the emits of its entry and there is one (`AnswersLast`). A
  death breaks this sum, so it is stated while the handlers listen and the worker has the entry;
  what its end leaves in the pipe is cut once, at the end, and nothing follows it (`Quiet`).
  That no answer is about an unknown entry, which would throw, needs that everything in the
  pipes and to be written there is in `prmap` (`HaveEntry`), so that when the entries of a dead
  worker are called back, nothing of it is left there. The order needs the same of four
  places: what a worker got, its pipe, what `setImmediate` will write, and the calls that
  wait for it to be ready (`Ordered`); the handshake comes before them (`Written`).
- `AnswersCarryEmits`, `WorkersGetInOrder`: `AnsweredWithItsEmits` and `InOrderToWorker` follow.

It proves of `BufferingProcessors`, for any number of entries, any finite set of keys, any
limits and each mode:

- `BuffersInvariance`: `BuffersSpec => []BuffersInv`. In joiner, throttle and array entries
  are held in their order and leave at the front (`HeldSound`). In the filter they pass two
  semaphores, and that what is put out of a key ascends needs that neither lets one overtake
  another: who waits stands in the queue of the semaphore in the order of the calls
  (`Lined`, `InTheirOrder`), and an entry enters the second before the next leaves the first
  (`Turns`). What is kept of a key lies in the buffer or in the store, never in both, and
  behind all of that key that was put out (`KeptSound`). Without a purge, what
  the loop has read and not removed yet is in the buffer, whose items others count in
  meanwhile (`NoPurge`); with purges, one entry is in the filter at a time (`Alone`).
- `EntriesCountedOnceInOrder`: `CountedOnceInOrder` follows. A buffer that may reach its
  limit while others are in it is excepted (`PurgeMeetsOthers`); the proof showed that this is
  every limit below the number of entries, since `blen` also counts what the loop has removed:
  with a limit of 3, 5 entries and a timer, TLC finds the property without the exception violated.

The proofs rest on the named assumptions of the modules, which TLC evaluates in
the runs.

Only model-checked: all liveness, which is out of the prover's reach (`PushesReachAll`,
the liveness of the two refinements, `WriteReturns`, `EveryLineIsRead`, `StopEnds`,
`EveryItemGiven`, `EveryEntryAnswered`, `ComesToAnEnd`, `EveryCallAnswered`, `EveryEntryPutOut`,
`Delivered`, `ForksResolved`), and the safety of the listening inputs, the
transporters, reemission and the split of the configuration, for which there are no
proofs.

## Where documentation and code part

Violated by a run:

- `cluster/flow-master.js:58` "Worker has crashed. Restart": the closures of the
  workers share one variable, and the restart goes to the last worker
  (`fork_crashed`).

Met while modelling. What a document or a comment says comes first; then what makes the
code fail without one, which the properties name as exceptions.

- Queue: the comment says LIFO, the code is FIFO (`queue.js:6`); the timeout of `pop` is
  ignored (`queue.js:64-68`), although `input/http.js:201`, `input/elastic.js:161` and
  `input/windows_legacy/reader.js:213` pass 1000.
- Stages: "Last retry" (`factory.js:305`): with `retry.max` 0, the default, a result that the
  retry filter matches leaves the promise unsettled for ever, and every later result waits behind
  it (`ImplementsStage` with `RetryMax` 0 shows it); `maxPending` is exceeded by one
  (`doc/config/globals.md:23, 25`, `factory.js:151-153, 330-332`); an array answer gives back more
  slots than it took, and a `leave` that throws then loses results (`doc/config/custom.md:300`,
  `factory.js:166-171, 195-196`); `instance.push` is
  replaced by each `transform()` of the same instance (`factory.js:341`), so what it emits goes to
  the flow built last.
- Forked flows: a process is forked again after `closefork` (`flow-master.js:54,
  195-205`); an entry that waited for a process goes to its successor on the old one's
  slot (`:95-100`); a statistics message before the success takes the start handler
  away, so the process is never ready (`:25-40`, `flow-worker.js:67-70`); the error of a
  start has cid null, which counts as one (`flow-worker.js:51`, `flow-master.js:65, 72`), so
  after a stop, whose answer counts as the success (`flow-worker.js:40-41`), it leaves a slot that
  nobody took; a process that dies before it is ready leaves
  the write uncalled; when the process of any worker but the last ends, nothing replaces it and
  its slots are never given back, so that the write that finds them taken is not called back
  either (`:195-205`, `LeftDead` of `WriteReturns`); the error of `child.send` is reported as success.
- File input: `input/file/README.md:72-77` says the semaphore is left in a `finally`,
  which `openFile` does not have: when a file is deleted before its open, the open throws
  and all files wait (`index.js:170-205`); without `watch` the path handed to glob is a
  function (`index.js:371` and 338), so no file is opened, although
  `doc/inputs/file.md:58` says new lines are read at intervals; `readmode` offset reads
  again from the configured offset whenever a file is opened again; "remove watermark"
  (`filesystem.js:176`) keeps the entry in the marks; a truncation keeps the tail of the
  old content (`index.js:251`); a change announced between the empty read and the close is
  forgotten (`index.js:261`, seen by TLC with `StableEvents` FALSE); `if(!file.fd) return
  file` leaves `file.sem` taken (`index.js:233`); with `awaitWriteFinish` an unlink
  arrives before the add, so renames are seldom detected.
- Shared memory: `shm.js:17-20` says a value becomes accessible once the background
  work is done; two processes that write one key at once keep different values for
  ever. `CatchUp` is therefore about keys a process does not write, and keys with one
  writer.
- Input wrapper: `pause` does not unpipe and `resume` pipes again
  (`input/wrapper.js:245-258`), so from the first resume on every flow takes each entry
  once more per resume (`InOrderNoneSkipped` says so, and is false with one copy); a
  drain that the stream listens to starts it although it is paused, while
  `component.js` says of a paused component that no data will be sent; `obj.$$timer` of an absent
  object throws (142-143); push inputs ignore backpressure (197-236).
- Reemission: a transporter that reemits to the inputs (`doc/transporters/reemit.md`)
  waits for the callback of `inputStream.write` (`reemiter.js:43`). Once the streams are
  full that callback needs room in the flow of the same transporter, and the process
  stands still; `Delivered` leaves such worlds out. An entry that was reemitted to a flow
  keeps `$$reemit`, so when that flow reemits it to the inputs it goes back to the same
  flow (`reemiter.js:38`, `ReemitTo`). To the inputs it writes the object itself, marked
  (`reemit.js:36-38`, `reemiter.js:39`): a flow whose `when` excludes reemitted entries and
  that has not filtered its own write of that object yet drops the entry, although
  `doc/transporters/reemit.md:3` says only that an output entry is redirected to the flows
  input; `InOrderNoneSkipped` excepts these (`ShutOut`). Between processes, all connections share one queue
  of callbacks, an error calls back one entry more than it has pending (`reemiter.js:91`)
  and an answer with an empty queue throws; the flag `blacklist` is set on the connection
  and read from the shared list (65, 87); a message of more than 65535 bytes is refused
  and another entry called back (104-108); a first piece of one byte throws
  (`pubsub.js:32`).
- Configuration: nested flows are called `flows` and forks `forked` in
  `doc/config/flows.md:44, 49-60`, `children` and `fork` in the code; a flow of the third
  level is assigned to the process of its parent, which does not exist, and
  `startChildren` throws (`config/index.js:416-427, 661-666`, `nsyslog/index.js:128`); a
  `fork` that names itself, a disabled flow or no flow, as the values of
  `schema/flows.schema.json:22-36` do, makes the loop of `sanitizeFlows` endless
  (410-428); `disabled` of a nested flow is overwritten by that of its parent (394).
- Watermarks: a `get` that misses stores a placeholder, which may overwrite what was saved in the
  meantime (`watermark.js:224`). elastic, http, sqlserver and winpoll save marks ahead of their
  queue in memory, which a crash loses; mongo does not (`MongoGivesFirst`).
- Inputs: winpoll with more ids than `MAX_ID_FILTER` takes the largest offset of all
  batches, and skips what the others have not read (`windows/windows-poll.js:149-166`);
  `pause` of wevtutil saves its mark (`windows_legacy/reader.js:256`) and kills the
  program, whose code then starts the bookmark anew (160); an error of the source leaves
  `next()` of http unanswered, since the fetch is awaited outside its `try`
  (`http.js:189-199`), and `resume` in push mode starts another loop, with its own
  callback; without `retry`, which is not set by default (`http.js:73`), the push loop of http
  ends after one error (172-179), as `doc/inputs/http.md:49` says; a channel that is not
  found or denied disables `wevtutil` until the process ends (`windows_legacy/reader.js:150-158,
  184`), and when its bookmark cannot be made anew the fetch stays unsettled (162); after an
  error sqlserver leaves its semaphore twice, and with `maxCursors` above 1 (`sqlserver.js:65`)
  queries that start from the same row give items twice; kafka pauses its consumer only if
  `connected` is set, which the first connection does not do (`kafkajs.js:478`), and a batch that
  comes in a shutdown is left without being pushed (292-294), which to the library, that sees no
  error, is a batch done: its offset is committed.
- Listening inputs: `pause` of syslog over tcp and tls sets a flag nobody reads; the tcp
  input calls `parse`, which is not defined (`tcp.js:81`), and its `resume` never calls
  back (178), so `NSyslog.resume` does not end; the timer of the syslog server cuts
  messages that are still coming; `length` loses what is left when a connection closes;
  tls goes on to start after `stop`, or after the error of its keys (`tls.js:66-75`);
  what comes before the first priority is thrown away (`syslog/tcp.js:119-122`, whose comment
  says so), although a text without any is one entry (`BeforePriority`);
  without `ack` a body that is not JSON is answered twice, which throws
  (`http-server/http.js:47-66`); acks of a flow in another process reach no request; all
  zmq inputs of a process share one socket; `resume` of the command input starts with
  another callback, so that entries go there (`command.js:145-147`), and a second interval
  beside one that runs, of which `stop` clears the last (65, 126-131); an empty line of the
  static input is never answered, so that nothing is read after it (`static.js:64`).
- Transporters: mongo inserts the last entries first (`mongo.js:253`), makes several
  connections for a url whose first entries come together (371) and retries a duplicate
  key without counting (141); kafka with `maxRetry` 0 answers without sending; http in
  array mode counts every status as sent; elastic may call back twice; redis answers
  before it sends; the purge of files closes those written last (`file.js:25`);
  `reconnect.maxRetries` is said to be a maximum (`websocket.js:48`), but each connection
  counts anew (126).
- Multilang: a worker that ends before its handlers are attached
  (`multilang/index.js:130-146`), with code 0, or again before its pid
  (`shellbolt.js:41-45`) leaves its calls unanswered, and so does a `process()` after
  `stop()`. An answer for an entry that is not known would throw (177); none comes.
- Buffering processors: a purge of the filter (`filter.js:104`) beside another call or the
  loop loses entries or counts them twice (`PurgeMeetsOthers`); an item without an entry
  makes the loop throw, and it forgets the rest; array with `max` above `maxPending` and
  without a timeout waits for ever; `stop` of throttle calls back none of what it keeps.
- `BypassStream.subscribe` adds only its first handler (35-49); `QueueStream._read` stays
  in its loop after it pushed null (40-56).
- `NSyslog.stop` stops its components without waiting for what is in flight.

## What the models leave out

- `Queue`: the contents of items. The callbacks of push and pop belong to the callers.
- Stages: statistics and `notify` listeners; a `leave` that throws inside
  `queue.forEach` is taken to leave the loop running.
- `FlowFork`: a stopping process no longer reads its channel; statistics after the
  process is ready change nothing; an entry taken by a process that is not running is
  accepted or refused, either may happen; `broadcast` belongs to `SharedMem`.
- `FileInput`: the exclude filter, `Monitor.rename`, the exchange of monitors, the mode
  without watch. A read under way on a descriptor that an unlink closes fails; what a
  failed read left running is over within the five seconds of the wrapper; `db.put` takes
  effect at once; save timers that would store nothing new do not run.
- `SharedMem`: `publish` (keeps nothing) and the events "set", "hset", "init". A worker
  writes once it is started, which the master asks for after "online" and so after the
  snapshot was sent. A send to a dead process is lost or takes the listener away.
- `FlowGraph`: the streams of Node are modelled from how the code uses them, with one
  data event per step; the queue of a `FilterStream` is a FIFO with a limit; the rest of a
  flow takes one entry at a time; the throttle of `BypassStream` only delays; after a
  stop, what a wrapper has read and not written is kept and not followed further. The
  order of `start()` and the stops of processors and transporters are not modelled.
- `FlowSplit`: parsing, includes, expressions, instances of modules, and which inputs a
  process keeps.
- `Watermarks`: one key; `clean`, `remove` and the bulk operations of the command line; the bulk
  operations of the filter are in `BufferingProcessors`.
- `Inputs`: connections are made as often as needed; the queries are those of the configuration
  and give items in order; the wrapper is one `next()` at a time that calls again after an error.
- `ListeningInputs`: keys of TLS, `customAuth`, fields of an entry, characters that two
  pieces share.
- `Transporters`: `pause` and `resume`, which nothing calls; the first connections of
  redis, zmq and elastic; one url for mongo and websocket; expressions that throw. The
  stage is its limit of entries in flight and the callbacks it waits for.
- `Multilang`, `BufferingProcessors`: logs, heartbeats and spouts of `storm.js`, which
  nsyslog does not use; the aggregates, of which only the entries counted in them are
  kept.
- Components without a module: processors that answer each call by themselves, which to a
  stage are any component (`ProcessorStage`); parsing and formatting of text; Windows
  subscriptions, which hand what a library calls back with to a queue; the former kafka
  and file inputs, which nothing loads; wording and counters (logger, statistics, command
  line); wrappers of libraries (TLS, expressions, the global store).

## Plan

Theorems, in this order: `AnsweredHasArrived` of `Transporters`; `RunsWithItsRoot` of `FlowSplit`, whose recursion is a function of the depth.

Models: `FlowGraph` over `OrderedStage`, with `FlowFork` between them and a second start after
a stop; the merge of statistics and `Monitor.rename`; a configuration with includes and
instances of modules.

Runs stay few; each of the five that compose components explores its worlds one after another.
