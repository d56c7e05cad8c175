----------------------------- MODULE Multilang ------------------------------
(***************************************************************************)
(* A worker of the multilang processor, written with storm.js: it takes a  *)
(* handshake and then tuples, emits for them and acks or fails each, and   *)
(* expects an answer (task ids) to each emit.  It is a process at the ends *)
(* of two pipes, which carry the messages as lines of text that the line   *)
(* "end" follows; or an object in the process of nsyslog.                  *)
(***************************************************************************)
EXTENDS Integers, Sequences, FiniteSets, SequencesExt

CONSTANTS Workers,
          MaxEntries,  \* entries that are processed
          MaxEmits,    \* emits of the workers, in any world
          Worlds       \* processes or modules, and what may happen how often

Entries == 1..MaxEntries

VARIABLES bound,    \* the world it is in
          child,    \* by worker: the process, as below
          stdin,    \* messages on their way to the worker,
          stdout,   \* and from it
          exits,    \* worker processes that have ended by themselves
          emits,    \* emits
          got,      \* history: the entries each worker was given, in order
          made      \* history: emits with the entry as their anchor

childVars == <<child, stdin, stdout, emits, got, made>>

(* first: awaits the handshake; ids: callbacks of emits; work: the tuples  *)
(* in hand; code: with what it ended.                                      *)
Child == [state : {"none", "up", "exited", "closed"}, first : BOOLEAN, ready : BOOLEAN,
          ids : 0..MaxEmits, work : SUBSET Entries, code : {0, 1}]
NoChild == [state |-> "none", first |-> TRUE, ready |-> FALSE, ids |-> 0,
            work |-> {}, code |-> 0]

Message(kind, e) == [kind |-> kind, entry |-> e]
Messages == [kind : {"handshake", "tuple", "ids", "pid", "emit", "ack", "fail"},
             entry : 0..MaxEntries]
Cut == Message("cut", 0)  \* the begin of a message, without its end

ASSUME BoltAssumption ==
  /\ MaxEntries \in Nat /\ MaxEmits \in Nat /\ IsFiniteSet(Workers)
  /\ \A w \in Worlds :
       /\ w.exits \in Nat /\ w.emits \in 0..MaxEmits
       /\ {w.module, w.stop, w.group} \subseteq BOOLEAN /\ w.codes \cup w.callbacks \subseteq {0, 1}

BoltTypeOK ==
  /\ bound \in Worlds /\ child \in [Workers -> Child]
  /\ stdin \in [Workers -> Seq(Messages)]
  /\ stdout \in [Workers -> Seq(Messages \cup {Cut})]
  /\ exits \in 0..bound.exits /\ emits \in 0..bound.emits
  /\ got \in [Workers -> Seq(Entries)] /\ made \in [Entries -> Nat]

BoltInit ==
  /\ bound \in Worlds
  /\ child = [w \in Workers |-> NoChild]
  /\ stdin = [w \in Workers |-> <<>>] /\ stdout = [w \in Workers |-> <<>>]
  /\ exits = 0 /\ emits = 0
  /\ got = [w \in Workers |-> <<>>] /\ made = [e \in Entries |-> 0]

(* What runs in the process of nsyslog is done before anything else is.    *)
Calm == bound.module => \A w \in Workers : stdin[w] = <<>> /\ stdout[w] = <<>>

SendMsgToParent(w, m) == stdout' = [stdout EXCEPT ![w] = Append(@, m)]

Exits(w, code) ==
  /\ child' = [child EXCEPT ![w].state = "exited", ![w].code = code, ![w].work = {}]
  /\ stdin' = [stdin EXCEPT ![w] = <<>>]

(* A worker that throws: a process ends.                                   *)
Throws(w) ==
  /\ ~bound.module
  /\ Exits(w, 1) /\ UNCHANGED <<stdout, got>>

HandleNewTaskId(w) ==
  IF child[w].ids > 0
  THEN /\ child' = [child EXCEPT ![w].ids = @ - 1]
       /\ stdin' = [stdin EXCEPT ![w] = Tail(@)] /\ UNCHANGED <<stdout, got>>
  ELSE Throws(w)

HandleNewCommand(w, m) ==
  /\ child' = [child EXCEPT ![w].work = @ \cup {m.entry}]
  /\ got' = [got EXCEPT ![w] = Append(@, m.entry)]
  /\ stdin' = [stdin EXCEPT ![w] = Tail(@)] /\ UNCHANGED stdout

InitSetupInfo(w) ==
  /\ child' = [child EXCEPT ![w].first = FALSE]
  /\ stdin' = [stdin EXCEPT ![w] = Tail(@)] /\ UNCHANGED <<stdout, got>>

HandleNewMessage(w, m) ==
  IF child[w].first THEN InitSetupInfo(w)
  ELSE IF m.kind = "ids" THEN HandleNewTaskId(w)
  ELSE HandleNewCommand(w, m)

HandleNewChunk(w) ==
  /\ child[w].state = "up" /\ stdin[w] # <<>>
  /\ HandleNewMessage(w, Head(stdin[w]))
  /\ UNCHANGED <<bound, exits, emits, made>>

(* initialize() is over, at once or later.                                 *)
SendPid(w) ==
  /\ child[w].state = "up" /\ ~child[w].first /\ ~child[w].ready
  /\ child' = [child EXCEPT ![w].ready = TRUE]
  /\ SendMsgToParent(w, Message("pid", 0))
  /\ UNCHANGED <<bound, stdin, exits, emits, got, made>>

(* Emits for a tuple in hand, or for none; emitDirect() has no callback    *)
(* for the ids.                                                            *)
Emit(w, e, callback) ==
  /\ child[w].state = "up" /\ emits < bound.emits /\ emits' = emits + 1
  /\ e \in child[w].work \cup {0} /\ child[w].ready
  /\ child' = [child EXCEPT ![w].ids = @ + callback]
  /\ SendMsgToParent(w, Message("emit", e))
  /\ made' = IF e = 0 THEN made ELSE [made EXCEPT ![e] = @ + 1]
  /\ UNCHANGED <<bound, stdin, exits, got>>

AcksOrFails(w, e) ==
  /\ child[w].state = "up" /\ e \in child[w].work
  /\ child' = [child EXCEPT ![w].work = @ \ {e}]
  /\ \E kind \in {"ack", "fail"} : SendMsgToParent(w, Message(kind, e))
  /\ UNCHANGED <<bound, stdin, exits, emits, got, made>>

(* It ends: what it wrote and was not read may be cut off anywhere.        *)
Dies(w) ==
  /\ ~bound.module /\ child[w].state = "up" /\ exits < bound.exits
  /\ exits' = exits + 1
  /\ \E code \in bound.codes : Exits(w, code)
  /\ \E n \in 0..Len(stdout[w]), last \in {<<>>, <<Cut>>} :
       stdout' = [stdout EXCEPT ![w] = SubSeq(@, 1, n) \o last]
  /\ UNCHANGED <<bound, emits, got, made>>

ChildStep(w) ==
  \/ HandleNewChunk(w)
  \/ /\ Calm
     /\ \/ SendPid(w) \/ Dies(w)
        \/ \E e \in Entries : AcksOrFails(w, e)
        \/ \E e \in {0} \cup Entries, callback \in bound.callbacks : Emit(w, e, callback)

-----------------------------------------------------------------------------

(***************************************************************************)
(* The multilang processor: it gives each entry to one of its workers, and *)
(* calls back when the worker acks or fails it, with what was emitted for  *)
(* it.  A worker process that ends is started again.                       *)
(***************************************************************************)

CONSTANT Group  \* by entry: the worker that hash(field) gives it to

VARIABLES phase,    \* unused, off, starting, up, stopped
          handled,  \* the workers have their handlers
          ready,    \* by worker: how many promises were made for it, and
                    \* whether the last of them is resolved
          closed,   \* by worker: nothing is written to it
          restart,  \* workers whose restart timer runs
          begun,    \* by worker: there is a begin of a message in it
          soon,     \* what setImmediate() will send, in order
          calls,    \* by entry: where the call of process() stands
          prmap,    \* the entries that the workers have
          emit,     \* by entry: what came for it
          results,  \* by entry: what its callback got, if it got emits
          answers,  \* by entry: how often its callback was called
          pushed,   \* emits that went out without an entry
          crashed   \* an error that nobody catches ended nsyslog

parentVars == <<phase, handled, ready, closed, restart, begun, soon, calls, prmap,
                emit, results, answers, pushed, crashed>>
workersVars == <<bound, exits, childVars, parentVars>>

ASSUME GroupAssumption == Group \in [Entries -> Workers]

Call == [state : {"none", "waits", "given", "answered", "ignored"},
         worker : Workers, promise : Nat]

WorkersTypeOK ==
  /\ BoltTypeOK
  /\ phase \in {"unused", "off", "starting", "up", "stopped"}
  /\ {handled, crashed} \subseteq BOOLEAN
  /\ ready \in [Workers -> [made : Nat, done : BOOLEAN]]
  /\ closed \in [Workers -> BOOLEAN] /\ restart \subseteq Workers
  /\ begun \in [Workers -> BOOLEAN] /\ soon \in Seq(Workers \X Messages)
  /\ calls \in [Entries -> Call] /\ prmap \subseteq Entries
  /\ {emit, results} \subseteq [Entries -> Nat] /\ answers \in [Entries -> Nat]
  /\ pushed \in Nat

WorkersInit(begin) ==
  /\ BoltInit
  /\ phase = begin /\ handled = FALSE /\ crashed = FALSE
  /\ ready = [w \in Workers |-> [made |-> 1, done |-> FALSE]]
  /\ closed = [w \in Workers |-> FALSE] /\ restart = {}
  /\ begun = [w \in Workers |-> FALSE] /\ soon = <<>>
  /\ calls \in {[e \in Entries |-> [state |-> "none", worker |-> Group[e], promise |-> 0]]}
  /\ prmap = {} /\ emit = [e \in Entries |-> 0] /\ results = [e \in Entries |-> 0]
  /\ answers = [e \in Entries |-> 0] /\ pushed = 0

callVars == <<calls, prmap, emit, results, answers>>

Spawned(ws) ==
  /\ child' = [w \in Workers |-> IF w \in ws THEN [NoChild EXCEPT !.state = "up"] ELSE child[w]]
  /\ closed' = [w \in Workers |-> w \notin ws /\ closed[w]]
  /\ begun' = [w \in Workers |-> w \notin ws /\ begun[w]]
Handshakes(ws) ==
  soon' = soon \o SetToSeq({<<w, Message("handshake", 0)>> : w \in ws})

Start ==
  /\ phase = "off" /\ phase' = "starting"
  /\ Spawned(Workers) /\ Handshakes(Workers)
  /\ UNCHANGED <<bound, exits, emits, stdin, stdout, got, made, handled, ready, restart,
                 callVars, pushed, crashed>>

(* All are ready: at once the handlers are attached, which an end of a worker that *)
(* came before finds missing.                                              *)
AllReady == phase = "starting" /\ \A w \in Workers : ready[w].done
Handle ==
  /\ AllReady
  /\ phase' = "up" /\ handled' = TRUE
  /\ UNCHANGED <<bound, exits, childVars, ready, closed, restart, begun, soon,
                 callVars, pushed, crashed>>

(* setImmediate(): written if the worker is not known to have ended.       *)
Send ==
  LET w == soon[1][1] IN
  /\ soon # <<>> /\ soon' = Tail(soon)
  /\ stdin' = IF closed[w] \/ child[w].state # "up" THEN stdin
              ELSE [stdin EXCEPT ![w] = Append(@, soon[1][2])]
  /\ UNCHANGED <<bound, exits, emits, child, stdout, got, made, phase, handled, ready,
                 closed, restart, begun, callVars, pushed, crashed>>

(* process(): the call goes on when the promise it found is resolved.      *)
Tuples(es) == [i \in 1..Len(es) |-> <<calls[es[i]].worker, Message("tuple", es[i])>>]
NextEntry == {e \in Entries : calls[e].state = "none" /\ \A d \in 1..(e - 1) : calls[d].state # "none"}
Process(e) ==
  /\ e \in NextEntry /\ phase \in {"up", "stopped"}
  /\ \E w \in IF bound.group THEN {Group[e]} ELSE Workers :
       LET state == IF phase = "stopped" THEN "ignored"
                    ELSE IF ready[w].done THEN "given" ELSE "waits"
       IN /\ calls' = [calls EXCEPT ![e] = [state |-> state, worker |-> w, promise |-> ready[w].made]]
          /\ IF state = "given"
             THEN prmap' = prmap \cup {e} /\ soon' = Append(soon, <<w, Message("tuple", e)>>)
             ELSE UNCHANGED <<prmap, soon>>
  /\ UNCHANGED <<bound, exits, childVars, phase, handled, ready, closed, restart, begun,
                 emit, results, answers, pushed, crashed>>

(* A worker says its pid: those that wait for the last promise go on.      *)
Waiting(w) ==
  {e \in Entries : /\ calls[e].state = "waits" /\ calls[e].worker = w
                   /\ calls[e].promise = ready[w].made}
LastFirst(w) == SetToSortSeq(Waiting(w), >)
InOrder(w) ==
  CHOOSE s \in [1..Cardinality(Waiting(w)) -> Waiting(w)] :
    \A i, j \in DOMAIN s : i < j => s[i] < s[j]
OnPid(w) ==
  /\ ready' = [ready EXCEPT ![w].done = TRUE]
  /\ prmap' = prmap \cup Waiting(w)
  /\ soon' = soon \o Tuples(InOrder(w))
  /\ calls' = [e \in Entries |-> IF e \in Waiting(w) THEN [calls[e] EXCEPT !.state = "given"]
                                 ELSE calls[e]]
  /\ UNCHANGED <<emit, results, answers, pushed, crashed>>

(* An emit goes to the entry that it names, if a worker has that, and out  *)
(* by itself if not; the worker gets its ids.                              *)
LastGiven(m) == IF prmap = {} THEN {} ELSE {SetToSortSeq(prmap, >)[1]}
Anchor(m) == {m.entry} \cap prmap
OnEmit(w, m) ==
  /\ emit' = [e \in Entries |-> IF e \in Anchor(m) THEN emit[e] + 1 ELSE emit[e]]
  /\ pushed' = IF Anchor(m) = {} THEN pushed + 1 ELSE pushed
  /\ soon' = Append(soon, <<w, Message("ids", 0)>>)
  /\ UNCHANGED <<ready, calls, prmap, results, answers, crashed>>

Deleted(es) == prmap \ es
CallBack(es, given) ==
  /\ calls' = [e \in Entries |-> IF e \in es THEN [calls[e] EXCEPT !.state = "answered"] ELSE calls[e]]
  /\ prmap' = Deleted(es)
  /\ answers' = [e \in Entries |-> IF e \in es THEN answers[e] + 1 ELSE answers[e]]
  /\ results' = [e \in Entries |-> IF e \in es /\ given THEN emit[e] ELSE results[e]]

(* An ack or a failure of an entry that no worker has is an error.         *)
OnAckOrFail(m) ==
  /\ IF m.entry \in prmap THEN CallBack({m.entry}, m.kind = "ack") /\ UNCHANGED crashed
     ELSE crashed' = TRUE /\ UNCHANGED <<calls, prmap, answers, results>>
  /\ UNCHANGED <<ready, soon, emit, pushed>>

ProcessMessage(w, m) ==
  CASE m.kind = "pid" -> OnPid(w)
    [] m.kind = "emit" /\ handled -> OnEmit(w, m)
    [] m.kind \in {"ack", "fail"} /\ handled -> OnAckOrFail(m)
    [] OTHER -> UNCHANGED <<ready, soon, callVars, pushed, crashed>>

(* What a worker wrote is cut at the lines "end"; a message that follows   *)
(* the begin of another is no JSON then, and both are passed over.         *)
OnData(w) ==
  LET m == Head(stdout[w]) IN
  /\ stdout[w] # <<>> /\ stdout' = [stdout EXCEPT ![w] = Tail(@)]
  /\ begun' = [begun EXCEPT ![w] = m = Cut]
  /\ IF m # Cut /\ ~begun[w] THEN ProcessMessage(w, m)
     ELSE UNCHANGED <<ready, soon, callVars, pushed, crashed>>
  /\ UNCHANGED <<bound, exits, emits, child, stdin, got, made, phase, handled, closed, restart>>

(* The pipes are empty and the process is gone.  A new promise is made; if *)
(* it ended badly its entries fail and it starts again in a second.        *)
OthersHave(w) == {e \in prmap : calls[e].worker # w}
HaveThem(w) == {e \in prmap : calls[e].worker = w}
Close(w) ==
  /\ child[w].state = "exited" /\ stdout[w] = <<>> /\ ~AllReady
  /\ child' = [child EXCEPT ![w].state = "closed"]
  /\ closed' = [closed EXCEPT ![w] = TRUE]
  /\ IF ~handled THEN UNCHANGED <<ready, restart, calls, prmap, results, answers>>
     ELSE /\ ready' = [ready EXCEPT ![w] = [made |-> @.made + 1, done |-> FALSE]]
          /\ IF child[w].code = 0 THEN UNCHANGED <<restart, calls, prmap, results, answers>>
             ELSE CallBack(HaveThem(w), FALSE) /\ restart' = restart \cup {w}
  /\ UNCHANGED <<bound, exits, emits, stdin, stdout, got, made, phase, handled, begun, soon,
                 emit, pushed, crashed>>

(* After a second, when all that setImmediate() had is sent.               *)
Restart(w) ==
  /\ soon = <<>>
  /\ w \in restart /\ restart' = restart \ {w}
  /\ IF phase = "stopped" THEN UNCHANGED <<child, closed, begun, soon>>
     ELSE Spawned({w}) /\ Handshakes({w})
  /\ UNCHANGED <<bound, exits, emits, stdin, stdout, got, made, phase, handled, ready, callVars,
                 pushed, crashed>>

(* stop(): nobody listens to the workers any more, each is killed, and the *)
(* entries that they have are called back without a result.                *)
Stop ==
  /\ phase = "up" /\ bound.stop /\ phase' = "stopped" /\ handled' = FALSE
  /\ CallBack(prmap, FALSE)
  /\ IF bound.module THEN UNCHANGED <<ready, closed, child, stdin>>
     ELSE /\ ready' = [w \in Workers |-> [made |-> ready[w].made + 1, done |-> FALSE]]
          /\ closed' = [w \in Workers |-> TRUE]
          /\ child' = [w \in Workers |-> IF child[w].state = "up"
                         THEN [child[w] EXCEPT !.state = "exited", !.work = {}, !.code = 1] ELSE child[w]]
          /\ stdin' = [w \in Workers |-> <<>>]
  /\ UNCHANGED <<bound, exits, emits, stdout, got, made, restart, begun, soon, emit, pushed, crashed>>

ParentRuns ==
  \/ Handle \/ Send \/ \E w \in Workers : Close(w) \/ Restart(w)
WorkersNext ==
  /\ phase # "unused" /\ ~crashed
  /\ \/ \E w \in Workers : OnData(w)
     \/ \E w \in Workers : ChildStep(w) /\ UNCHANGED parentVars
     \/ Calm /\ (Start \/ ParentRuns \/ Stop \/ \E e \in Entries : Process(e))

(* The event loop goes on, and a worker that lives reads its input, says   *)
(* its pid, and answers each tuple; it need not emit, nor end.             *)
Live(A) == ~crashed /\ A
WorkersFairness ==
  /\ WF_workersVars(Live(Calm /\ Send)) /\ WF_workersVars(Live(Calm /\ Handle)) /\ WF_workersVars(Live(Calm /\ Start))
  /\ \A w \in Workers :
       /\ WF_workersVars(Live(OnData(w)))
       /\ WF_workersVars(Live(Calm /\ (Close(w) \/ Restart(w))))
       /\ WF_workersVars(Live(HandleNewChunk(w) /\ UNCHANGED parentVars))
       /\ WF_workersVars(Live(Calm /\ (SendPid(w) \/ \E e \in Entries : AcksOrFails(w, e)) /\ UNCHANGED parentVars))
WorkersSpec == WorkersInit("off") /\ [][WorkersNext]_workersVars /\ WorkersFairness
-----------------------------------------------------------------------------
(* A callback is called once at most, with what the worker emitted for the *)
(* entry before it acked that, however the messages are cut, whoever dies, *)
(* and whatever else is emitted at the time; and no message of a worker    *)
(* that keeps to the protocol is about an entry that nobody knows          *)
(* (index.js:139-201, shellbolt.js:47-94).                                 *)
AnsweredWithItsEmits ==
  /\ ~crashed
  /\ \A e \in Entries :
       answers[e] <= 1 /\ results[e] \in {0, made[e]} /\ emit[e] <= made[e]

(* Each worker gets the entries in the order of the calls, none twice, and *)
(* those of one group go to one worker, through deaths and restarts.       *)
InOrderToWorker ==
  \A w \in Workers : \A i, j \in DOMAIN got[w] :
    /\ i < j => got[w][i] < got[w][j]
    /\ bound.group => Group[got[w][i]] = w

(* Every call is called back.  (Not if a worker ends with code 0, before   *)
(* the handlers are there, or again before it has said its pid; nor after  *)
(* stop().)                                                                *)
EndsUnseen == phase = "starting" /\ \E w \in Workers : child[w].state = "closed"
EveryCallAnswered ==
  \/ 0 \in bound.codes \/ bound.exits > 1 \/ bound.stop \/ 0 \in bound.callbacks
  \/ <>EndsUnseen
  \/ []<>(\A e \in Entries : calls[e].state \in {"none", "answered"})

=============================================================================
