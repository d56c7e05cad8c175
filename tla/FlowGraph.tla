----------------------------- MODULE FlowGraph -----------------------------
(***************************************************************************)
(* The graph of streams of one process (lib/nsyslog/index.js): wrapped     *)
(* inputs (lib/input/wrapper.js), the bypass, queue and filter streams     *)
(* (lib/stream/) and local reemission (lib/reemiter.js).                   *)
(*                                                                         *)
(*   pull inputs -> bypassStream --\                /-> FilterStream of f  *)
(*                                  --> inputStream --> FilterStream of g  *)
(*   push inputs -> queueStream ---/                \-> ...                *)
(*                                                                         *)
(* What Node's streams do is modelled from how this code uses them: a      *)
(* 'data' event is written to every pipe; a write that returns false       *)
(* pauses its source until that destination emits 'drain'.  One data       *)
(* event is one step; where Node emits several in a row, others may come   *)
(* between.  An entry the filter of an input blocks is as if next() had    *)
(* not answered yet, and so is an error, after which it is asked again.    *)
(***************************************************************************)
EXTENDS Naturals, Sequences, FiniteSets

CONSTANTS PullInputs, PushInputs, Flows,
          From,       \* f.from: the inputs each flow selects
          Worlds,     \* f.when: the values of $$reemit each flow lets in; what
                      \* the transporters of the flows reemit to; MAX of
                      \* filterstream.js, its mark and its queue; and bounds:
                      \* how many entries each input gives, calls of
                      \* NSyslog.pause(), whether NSyslog.stop() may be called
          BypassMAX,  \* MAX of bypasstream.js: its highWaterMark
          MaxPending, \* def.maxPending of an input
          MaxPauses   \* bound: of all worlds

Inputs == PullInputs \cup PushInputs
ToNone == "none"        \* no $$reemit
ToInputs == "inputs"    \* $$reemit = true
Targets == {ToNone, ToInputs} \cup Flows

ASSUME KindsAssumption ==
  /\ PullInputs \cap PushInputs = {}
  /\ {ToNone, ToInputs} \cap Flows = {}
ASSUME ConfigAssumption ==
  /\ From \in [Flows -> SUBSET Inputs]
  /\ Worlds \subseteq [when : [Flows -> SUBSET Targets],
                      route : [Flows -> Targets], room : Nat \ {0}, most : [Inputs -> Nat],
                      pauses : 0..MaxPauses, stops : BOOLEAN]
ASSUME LimitsAssumption ==
  {BypassMAX, MaxPending} \subseteq Nat \ {0}
ASSUME BoundsAssumption ==
  MaxPauses \in Nat

(* What is written to a stream.  An entry that its input gives is one      *)
(* object, which every stream holds that has not passed it on, and so is   *)
(* what a transporter reemits to the inputs; `to` tells these two writes   *)
(* apart.  A transporter that names a flow reemits a copy.                 *)
Entry == [input : Inputs, n : Nat \ {0}, to : Targets]
Sources == {"bypassStream", "queueStream"}

VARIABLES world,    \* the member of Worlds that is explored
          given,    \* how many entries each input has given
          stream,   \* the Readable of each wrapper
          disk,     \* what queueStream holds, on disk and in memory
          bypass,   \* bypassStream
          hub,      \* inputStream
          filter,   \* the FilterStream of each flow
          waiting,  \* sources of inputStream that wait for its drain
          full,     \* flows whose drain inputStream waits for
          work,     \* entries of each flow whose reemission is not answered
          marked,   \* entries of the inputs whose $$reemit was set to true
          paused,   \* NSyslog.pause() was called, and no resume() since
          pauses,   \* how many times it was called
          stopped,  \* NSyslog.stop() was called
          taken     \* history: what each flow took from its FilterStream

inputSide == <<given, stream, disk, paused, pauses, stopped>>
flowSide == <<world, filter, work, marked, taken>>
graphVars == <<inputSide, bypass, hub, waiting, full, flowSide>>

(* A chunk written to a stream: its entry, and the flow whose transporter  *)
(* waits for the callback of the write, if one does.                       *)
Chunk == [entry : Entry, by : SUBSET Flows]
Write(e) == [entry |-> e, by |-> {}]

FilterMAX == world.room

(* The Readable of a wrapper: its buffer, whether it flows, how many pipes *)
(* lead to bypassStream, whether it waits for a drain, and whether it      *)
(* listens to drain events, as it does since it first had to wait.         *)
Piped == [buf |-> <<>>, flowing |-> TRUE, pipes |-> 1,
          awaiting |-> FALSE, listens |-> FALSE]

(* A BypassStream: what it has transformed and nobody has read, the writes *)
(* whose callback has not run (the first is transformed already), and      *)
(* needDrain.                                                              *)
Bypass == [out |-> <<>>, writes |-> <<>>, needDrain |-> FALSE]

(* A FilterStream: writes whose callback has not run, whether the first has *)
(* passed the filter and awaits room, its queue, needDrain.                *)
Filter == [writes |-> <<>>, passed |-> FALSE, queue |-> <<>>, needDrain |-> FALSE]

Streams == [buf : Seq(Entry), flowing : BOOLEAN, pipes : Nat,
            awaiting : BOOLEAN, listens : BOOLEAN]
Bypasses == [out : Seq(Entry), writes : Seq(Chunk), needDrain : BOOLEAN]
Filters == [writes : Seq(Chunk), passed : BOOLEAN, queue : Seq(Entry),
            needDrain : BOOLEAN]

(* A write of a BypassStream waits exactly while it is full.               *)
BypassTypeOK(s) ==
  /\ s \in Bypasses /\ Len(s.out) <= BypassMAX
  /\ s.writes # <<>> <=> Len(s.out) = BypassMAX

GraphTypeOK ==
  /\ world \in Worlds
  /\ given \in [Inputs -> Nat] /\ \A i \in Inputs : given[i] <= world.most[i]
  /\ stream \in [PullInputs -> Streams]
  /\ \A i \in PullInputs : Len(stream[i].buf) <= MaxPending
  /\ disk \in Seq(Entry)
  /\ BypassTypeOK(bypass) /\ BypassTypeOK(hub)
  /\ filter \in [Flows -> Filters]
  /\ \A f \in Flows : Len(filter[f].queue) <= FilterMAX
  /\ work \in [Flows -> SUBSET Entry]
  /\ \A f \in Flows : \A d, e \in work[f] : d = e
  /\ marked \subseteq Entry
  /\ taken \in [Flows -> Seq(Entry)]
  /\ waiting \subseteq Sources /\ full \subseteq Flows
  /\ pauses \in 0..MaxPauses /\ {paused, stopped} \subseteq BOOLEAN

(* The process after start(): every stream piped, no input has answered.   *)
GraphInit ==
  /\ world \in Worlds
  /\ given = [i \in Inputs |-> 0]
  /\ stream = [i \in PullInputs |-> Piped]
  /\ disk = <<>>
  /\ bypass = Bypass /\ hub = Bypass
  /\ filter = [f \in Flows |-> Filter]
  /\ waiting = {} /\ full = {}
  /\ work = [f \in Flows |-> {}] /\ marked = {}
  /\ paused = FALSE /\ pauses = 0 /\ stopped = FALSE
  /\ taken = [f \in Flows |-> <<>>]

(***************************************************************************)
(* Streams                                                                 *)
(***************************************************************************)

(* write() says whether there is room for more.                            *)
HasRoom(s, max) == Len(s.writes) + 1 < max
PassHasRoom(s) == HasRoom(s, BypassMAX)
FilterHasRoom(f) == HasRoom(filter[f], FilterMAX)

(* The callback of a write that comes now waits.                           *)
Holds(s) == s.writes # <<>> \/ Len(s.out) + 1 >= BypassMAX

(* write() of a BypassStream: the chunk goes through unless one is held;   *)
(* its callback waits while what is transformed is at the high water mark. *)
Pass(s, c) ==
  LET out == Append(s.out, c.entry) IN
  [s EXCEPT
     !.out = IF s.writes = <<>> THEN out ELSE s.out,
     !.writes = IF Holds(s) THEN Append(@, c) ELSE @,
     !.needDrain = @ \/ ~PassHasRoom(s)]

(* The stream after k writes of a chunk.                                   *)
Passes(s, c, n) ==
  LET after[k \in 0..n] == IF k = 0 THEN s ELSE Pass(after[k - 1], c) IN after

(* read() takes the head of what is transformed, and makes the stream run  *)
(* the callback it held and transform the next chunk.                      *)
Read(s) ==
  LET rest == IF s.writes = <<>> THEN <<>> ELSE Tail(s.writes) IN
  [s EXCEPT
     !.out = IF rest = <<>> THEN Tail(@)
                            ELSE Append(Tail(@), Head(rest).entry),
     !.writes = rest]
ReadAcks(s) == IF s.writes = <<>> THEN {} ELSE Head(s.writes).by

(* The drain event comes once every callback has run.                      *)
MayDrain(s) == s.needDrain /\ s.writes = <<>>
Drained(s) == [s EXCEPT !.needDrain = FALSE]

(* write() of a FilterStream queues the chunk for _write.                  *)
Enter(s, c) ==
  [s EXCEPT !.writes = Append(@, c), !.needDrain = @ \/ ~HasRoom(s, FilterMAX)]

(* The callbacks of writes made for flows fs: their entries are done.      *)
Ack(fs) == work' = [f \in Flows |-> IF f \in fs THEN {} ELSE work[f]]

(***************************************************************************)
(* From the streams of the inputs to the flows                             *)
(***************************************************************************)

(* A data event of a wrapper's stream: each of its pipes writes the entry  *)
(* to bypassStream.                                                        *)
EmitPull(i) ==
  LET pipes == stream[i].pipes
      after == Passes(bypass, Write(Head(stream[i].buf)), pipes)
      refused == \E k \in 1..pipes : ~PassHasRoom(after[k - 1]) IN
  /\ stream[i].flowing /\ stream[i].buf # <<>>
  /\ bypass' = after[pipes]
  /\ stream' = [stream EXCEPT
       ![i].buf = Tail(@),
       ![i].flowing = ~refused,
       ![i].awaiting = @ \/ refused,
       ![i].listens = @ \/ refused]
  /\ UNCHANGED <<given, disk, hub, waiting, full, flowSide,
                 paused, pauses, stopped>>

(* A write of a source to inputStream, which stops the source when full.   *)
WriteToHub(s, e) ==
  /\ s \notin waiting
  /\ hub' = Pass(hub, Write(e))
  /\ waiting' = IF PassHasRoom(hub) THEN waiting ELSE waiting \cup {s}

EmitBypass ==
  /\ bypass.out # <<>>
  /\ WriteToHub("bypassStream", Head(bypass.out))
  /\ bypass' = Read(bypass)
  /\ UNCHANGED <<inputSide, full, flowSide>>

(* A data event of inputStream goes to the FilterStream of every flow.     *)
EmitHub ==
  /\ full = {}
  /\ hub.out # <<>>
  /\ filter' = [f \in Flows |-> Enter(filter[f], Write(Head(hub.out)))]
  /\ full' = {f \in Flows : ~FilterHasRoom(f)}
  /\ hub' = Read(hub)
  /\ Ack(ReadAcks(hub))
  /\ UNCHANGED <<inputSide, bypass, waiting, world, marked, taken>>

(* A drain event of bypassStream starts every stream that listens to it.   *)
DrainBypass ==
  /\ MayDrain(bypass)
  /\ bypass' = Drained(bypass)
  /\ stream' = [i \in PullInputs |->
       IF stream[i].listens
         THEN [stream[i] EXCEPT !.flowing = TRUE, !.awaiting = FALSE]
         ELSE stream[i]]
  /\ UNCHANGED <<given, disk, hub, waiting, full, flowSide,
                 paused, pauses, stopped>>

DrainHub ==
  /\ MayDrain(hub)
  /\ hub' = Drained(hub)
  /\ waiting' = {}
  /\ UNCHANGED <<inputSide, bypass, full, flowSide>>

DrainFilter(f) ==
  /\ MayDrain(filter[f])
  /\ filter' = [filter EXCEPT ![f] = Drained(@)]
  /\ full' = full \ {f}
  /\ UNCHANGED <<inputSide, bypass, hub, waiting, world, work, marked, taken>>

(* $$reemit of an entry: a copy names its flow, an object of an input has  *)
(* what was set on it, whichever of its writes comes.                      *)
Raw(i, n) == [input |-> i, n |-> n, to |-> ToNone]
Reemit(e) ==
  IF e.to \in Flows THEN e.to
  ELSE IF Raw(e.input, e.n) \in marked THEN ToInputs ELSE ToNone

(* A flow takes what is reemitted to it and what its `from` selects, unless*)
(* it is reemitted to another flow, if its `when` agrees.                  *)
Selects(f, e) == e.to = f \/ (e.to \notin Flows /\ e.input \in From[f])
Matches(f, e) == Selects(f, e) /\ Reemit(e) \in world.when[f]

(* The first write passes the filter when it comes, and ends once there is *)
(* room in the queue.                                                      *)
Lets(f) == filter[f].passed \/ Matches(f, Head(filter[f].writes).entry)
HasPlace(f) == Len(filter[f].queue) < FilterMAX
MayWrite(f) == filter[f].writes # <<>> /\ (filter[f].passed => HasPlace(f))

(* The write is over: what passes the filter is queued.                    *)
EndWrite(f, in) ==
  LET c == Head(filter[f].writes) IN
  filter' = [filter EXCEPT
    ![f].writes = Tail(@),
    ![f].passed = FALSE,
    ![f].queue = IF in THEN Append(@, c.entry) ELSE @]

(* A _write that forgets the callback of an entry that does not match.     *)
RefuseSilently(f) ==
  /\ MayWrite(f) /\ Lets(f) /\ HasPlace(f)
  /\ EndWrite(f, TRUE)
  /\ Ack(Head(filter[f].writes).by)
  /\ UNCHANGED <<inputSide, bypass, hub, waiting, full, world, marked, taken>>

(* _write of a FilterStream: an entry that does not match is dropped, one  *)
(* that does awaits room in the queue.                                     *)
FilterWrite(f) ==
  /\ MayWrite(f)
  /\ \/ /\ Lets(f) => HasPlace(f)
        /\ EndWrite(f, Lets(f))
        /\ Ack(Head(filter[f].writes).by)
     \/ /\ Lets(f) /\ ~HasPlace(f)
        /\ filter' = [filter EXCEPT ![f].passed = TRUE]
        /\ UNCHANGED work
  /\ UNCHANGED <<inputSide, bypass, hub, waiting, full, world, marked, taken>>

(* The steps the process takes by itself, as ticks and promise jobs: Node  *)
(* runs them all before it takes the next event of a file, a socket, a     *)
(* timer or a command.                                                     *)
Settled ==
  /\ \A i \in PullInputs : ~(stream[i].flowing /\ stream[i].buf # <<>>)
  /\ bypass.out = <<>> \/ "bypassStream" \in waiting
  /\ hub.out = <<>> \/ full # {}
  /\ ~MayDrain(bypass) /\ ~MayDrain(hub)
  /\ \A f \in Flows : ~MayDrain(filter[f]) /\ ~MayWrite(f)

(***************************************************************************)
(* Inputs                                                                  *)
(***************************************************************************)

(* The next entry of an input, without $$reemit.                           *)
NextEntry(i) == [input |-> i, n |-> given[i] + 1, to |-> ToNone]
MayGive(i) == Settled /\ ~stopped /\ given[i] < world.most[i]
Give(i) == given' = [given EXCEPT ![i] = @ + 1]

(* read() of a wrapper: next() answers.  Node calls read() while the       *)
(* buffer is below its mark, also in a paused stream.                      *)
Answer(i) ==
  /\ MayGive(i)
  /\ Len(stream[i].buf) < MaxPending
  /\ Give(i)
  /\ stream' = [stream EXCEPT ![i].buf = Append(@, NextEntry(i))]
  /\ UNCHANGED <<disk, bypass, hub, waiting, full, flowSide,
                 paused, pauses, stopped>>

(* A push input gets an entry; the result of write() is ignored.  Paused   *)
(* inputs ignore what they get.                                            *)
Receive(i) ==
  /\ MayGive(i) /\ ~paused
  /\ Give(i)
  /\ disk' = Append(disk, NextEntry(i))
  /\ UNCHANGED <<stream, bypass, hub, waiting, full, flowSide,
                 paused, pauses, stopped>>

(* queueStream reads the next entry from disk when inputStream takes it.  *)
EmitQueue ==
  /\ Settled
  /\ disk # <<>>
  /\ WriteToHub("queueStream", Head(disk))
  /\ disk' = Tail(disk)
  /\ UNCHANGED <<given, stream, bypass, full, flowSide,
                 paused, pauses, stopped>>

(* A pause() that forgets what the streams have read already.              *)
PauseClears ==
  /\ Settled
  /\ ~paused /\ ~stopped /\ pauses < world.pauses
  /\ paused' = TRUE /\ pauses' = pauses + 1
  /\ stream' = [i \in PullInputs |->
       [stream[i] EXCEPT !.flowing = FALSE, !.buf = <<>>]]
  /\ UNCHANGED <<given, disk, bypass, hub, waiting, full, flowSide, stopped>>

(* NSyslog.pause(): every wrapper pauses its stream.                       *)
Pause ==
  /\ Settled
  /\ ~paused /\ ~stopped /\ pauses < world.pauses
  /\ paused' = TRUE /\ pauses' = pauses + 1
  /\ stream' = [i \in PullInputs |-> [stream[i] EXCEPT !.flowing = FALSE]]
  /\ UNCHANGED <<given, disk, bypass, hub, waiting, full, flowSide, stopped>>

(* NSyslog.resume(): every wrapper pipes its stream once more.  pipe()     *)
(* starts the stream, or waits if the destination needs a drain.           *)
Resume ==
  /\ Settled
  /\ paused /\ ~stopped
  /\ paused' = FALSE
  /\ stream' = [i \in PullInputs |-> [stream[i] EXCEPT
       !.pipes = @ + 1,
       !.flowing = ~bypass.needDrain,
       !.awaiting = bypass.needDrain,
       !.listens = @ \/ bypass.needDrain]]
  /\ UNCHANGED <<given, disk, bypass, hub, waiting, full, flowSide,
                 pauses, stopped>>

(* NSyslog.stop(): every wrapper unpipes its stream and stops its input.   *)
Stop ==
  /\ Settled
  /\ world.stops /\ ~stopped
  /\ stopped' = TRUE
  /\ stream' = [i \in PullInputs |-> [stream[i] EXCEPT
       !.pipes = 0, !.flowing = FALSE, !.awaiting = FALSE, !.listens = FALSE]]
  /\ UNCHANGED <<given, disk, bypass, hub, waiting, full, flowSide,
                 paused, pauses>>

(* await queueStream.close(): what was not read from disk yet stays there, *)
(* and the next process truncates it.                                      *)
CloseQueue ==
  /\ Settled
  /\ stopped
  /\ \E k \in 0..Len(disk) - 1 : disk' = SubSeq(disk, 1, k)
  /\ UNCHANGED <<given, stream, bypass, hub, waiting, full, flowSide,
                 paused, pauses, stopped>>

(***************************************************************************)
(* Flows                                                                   *)
(***************************************************************************)

(* Reemiter.write(): a $$reemit the entry carries already is kept when the *)
(* transporter names no flow.                                              *)
ReemitTo(f, e) ==
  IF world.route[f] = ToInputs /\ e.to \in Flows THEN e.to ELSE world.route[f]

(* The stages of a flow take the next entry; the transporter writes it to  *)
(* inputStream or to a FilterStream and is done when the write calls back. *)
(* To the inputs it writes the object itself, after it has set $$reemit.   *)
(* The flow works on one entry at a time (bound).                          *)
TakeNext(f) ==
  LET e == Head(filter[f].queue)
      to == ReemitTo(f, e)
      c == [entry |-> [e EXCEPT !.to = to], by |-> {f}]
      rest == [filter EXCEPT ![f].queue = Tail(@)] IN
  /\ Settled
  /\ work[f] = {} /\ filter[f].queue # <<>>
  /\ taken' = [taken EXCEPT ![f] = Append(@, e)]
  /\ \/ /\ to = ToNone
        /\ filter' = rest
        /\ UNCHANGED <<hub, work, marked>>
     \/ /\ to = ToInputs
        /\ filter' = rest
        /\ marked' = marked \cup {Raw(e.input, e.n)}
        /\ hub' = Pass(hub, c)
        /\ work' = IF Holds(hub) THEN [work EXCEPT ![f] = {c.entry}] ELSE work
     \/ /\ to \in Flows
        /\ filter' = [rest EXCEPT ![to] = Enter(@, c)]
        /\ work' = [work EXCEPT ![f] = {c.entry}]
        /\ UNCHANGED <<hub, marked>>
  /\ UNCHANGED <<inputSide, bypass, waiting, full, world>>

GraphNext ==
  \/ \E i \in PullInputs : Answer(i) \/ EmitPull(i)
  \/ \E i \in PushInputs : Receive(i)
  \/ Pause \/ Resume \/ Stop \/ CloseQueue
  \/ EmitBypass \/ EmitQueue \/ EmitHub
  \/ DrainBypass \/ DrainHub
  \/ \E f \in Flows : DrainFilter(f) \/ FilterWrite(f) \/ TakeNext(f)

(* Node emits the data and drain events that are due, and the stages of a  *)
(* flow keep reading.  Inputs need not give anything, nor anybody resume.  *)
GraphFairness ==
  /\ \A i \in PullInputs : WF_graphVars(EmitPull(i))
  /\ WF_graphVars(EmitBypass) /\ WF_graphVars(EmitQueue) /\ WF_graphVars(EmitHub)
  /\ WF_graphVars(DrainBypass) /\ WF_graphVars(DrainHub)
  /\ \A f \in Flows :
       WF_graphVars(DrainFilter(f)) /\ WF_graphVars(FilterWrite(f)) /\ WF_graphVars(TakeNext(f))

(***************************************************************************)
(* Properties                                                              *)
(***************************************************************************)

(* The writes of an input's entries, as they came from the input.          *)
IsRaw(e, i) == e.input = i /\ e.to = ToNone
Has(seq, i, n) == \E k \in 1..Len(seq) : seq[k] = Raw(i, n)
TimesIn(seq, i, n) == Cardinality({k \in 1..Len(seq) : seq[k] = Raw(i, n)})
Rising(seq, i) ==
  \A j, k \in 1..Len(seq) :
    j < k /\ IsRaw(seq[j], i) /\ IsRaw(seq[k], i) => seq[j].n <= seq[k].n

(* Entries of input i that flow f may not get: those of before a           *)
(* reemission, if its `when` wants them reemitted; and if its `when` does  *)
(* not, those that another flow has reemitted to the inputs before this    *)
(* one filters them, since that marks the object both flows hold           *)
(* (reemiter.js:38-39).                                                    *)
ShutOut(f, i) ==
  {n \in Nat :
     \/ ToNone \notin world.when[f]
     \/ (ToInputs \notin world.when[f] /\ Raw(i, n) \in marked)}

(* A flow takes the entries of each input in their order, and skips none   *)
(* but those it is shut out of; it takes each as often as the wrapper had  *)
(* pipes, which is once more for every resume() (wrapper.js:258), and      *)
(* those of push inputs once.                                              *)
Copies(i) == IF i \in PullInputs THEN pauses + 1 ELSE 1
InOrderNoneSkipped ==
  \A f \in Flows, i \in Inputs :
    /\ Rising(taken[f], i)
    /\ \A m \in 1..given[i] :
         /\ Has(taken[f], i, m) =>
              \A n \in 1..(m - 1) : Has(taken[f], i, n) \/ n \in ShutOut(f, i)
         /\ TimesIn(taken[f], i, m) <= Copies(i)

(* Whether flow f has taken all that input i has given.                    *)
TookAll(f, i) == given[i] > 0 => Has(taken[f], i, given[i])

(* Why it holds, as an inductive invariant.  A stream hands on in order    *)
(* what it holds: the first write whose callback it holds is transformed.  *)
EntriesOf(chunks) == [k \in 1..Len(chunks) |-> chunks[k].entry]
Untransformed(s) == IF s.writes = <<>> THEN <<>> ELSE Tail(s.writes)
Cargo(s) == s.out \o EntriesOf(Untransformed(s))

(* The places on the way from the inputs to flow f, the flow first.        *)
Line(f) ==
  [p \in 1..5 |->
     CASE p = 1 -> taken[f]
       [] p = 2 -> filter[f].queue
       [] p = 3 -> EntriesOf(filter[f].writes)
       [] p = 4 -> Cargo(hub)
       [] p = 5 -> Cargo(bypass)]

(* Along a line the entries of an input count up, and none is missing but  *)
(* those in miss; of each there are at most max.                           *)
Times(line, i, n) ==
  TimesIn(line[1], i, n) + TimesIn(line[2], i, n) + TimesIn(line[3], i, n)
    + TimesIn(line[4], i, n) + TimesIn(line[5], i, n)
Before(line, i, n, p) == \E q \in 1..p : Has(line[q], i, n)
InLine(line, i, max, miss) ==
  /\ \A p \in 1..5 : Rising(line[p], i)
  /\ \A p, q \in 1..5 : \A m, n \in Nat :
       p < q /\ Has(line[p], i, m) /\ Has(line[q], i, n) => m <= n
  /\ \A p \in 1..5 : \A m \in Nat : Has(line[p], i, m) =>
       \A n \in 1..(m - 1) : Before(line, i, n, p) \/ n \in miss
  /\ \A n \in Nat : Times(line, i, n) <= max

(* What is still with the input follows, once each, up to the last given.  *)
Climbing(seq, i) ==
  \A j, k \in 1..Len(seq) :
    j < k /\ IsRaw(seq[j], i) /\ IsRaw(seq[k], i) => seq[j].n < seq[k].n

SourceOf(i) == IF i \in PullInputs THEN stream[i].buf ELSE disk
Follows(src, line, i, last, all, miss) ==
  /\ Climbing(src, i)
  /\ \A m, n \in Nat : Before(line, i, m, 5) /\ Has(src, i, n) => m < n
  /\ \A m \in Nat : Has(src, i, m) =>
       \A n \in 1..(m - 1) : Has(src, i, n) \/ Before(line, i, n, 5) \/ n \in miss
  /\ \A n \in Nat : Has(src, i, n) \/ Before(line, i, n, 5) => n \in 1..last
  /\ all => \A n \in 1..last : Has(src, i, n) \/ Before(line, i, n, 5) \/ n \in miss

(* Who selects an input has its entries in its line, but those it is shut  *)
(* out of; the other flows take none.                                      *)
InItsLine(f, i) ==
  IF i \in From[f]
    THEN /\ InLine(Line(f), i, Copies(i), ShutOut(f, i))
         /\ Follows(SourceOf(i), Line(f), i, given[i], ~stopped, ShutOut(f, i))
    ELSE \A n \in Nat : ~Has(taken[f], i, n) /\ ~Has(filter[f].queue, i, n)
InLines == \A f \in Flows, i \in Inputs : InItsLine(f, i)

(* What awaits room in a queue belongs there.                              *)
PassedSelected ==
  \A f \in Flows : filter[f].passed =>
    /\ filter[f].writes # <<>>
    /\ Selects(f, Head(EntriesOf(filter[f].writes)))

(* A stream that flows has a pipe, and one more at most for each resume(). *)
PipesInPlace ==
  \A i \in PullInputs :
    /\ IF stopped THEN ~stream[i].flowing /\ ~stream[i].listens
                  ELSE stream[i].pipes >= 1
    /\ stream[i].pipes <= IF paused THEN pauses ELSE pauses + 1

(* Inputs give entries of their own; bypassStream is for pull inputs.      *)
OwnEntries ==
  /\ \A i \in PullInputs : \A k \in 1..Len(stream[i].buf) : IsRaw(stream[i].buf[k], i)
  /\ \A k \in 1..Len(disk) : disk[k].input \in PushInputs
  /\ \A k \in 1..Len(Cargo(bypass)) : Cargo(bypass)[k].input \in PullInputs

GraphInv == GraphTypeOK /\ PassedSelected /\ PipesInPlace /\ OwnEntries /\ InLines

(* Once the inputs have given all they have, each flow ends up with all    *)
(* that it selects, unless the process is left paused or stops: one slow   *)
(* flow delays the others and never makes them miss any                    *)
(* (nsyslog/index.js:280-290).  A transporter that reemits to the inputs   *)
(* is left out: its flow may wait for itself.                              *)
Delivered ==
  \A f \in Flows : \A i \in From[f] :
    \/ <>[]TookAll(f, i)
    \/ <>[](paused \/ stopped)
    \/ ToNone \notin world.when[f] \/ <>(\E g \in Flows : world.route[g] = ToInputs)
=============================================================================
