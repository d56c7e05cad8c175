------------------------------ MODULE FlowFork ------------------------------
(***************************************************************************)
(* A flow that runs in worker processes: the stream of the master that     *)
(* shares the entries out among the workers (lib/cluster/flow-master.js),  *)
(* the worker script (lib/cluster/flow-worker.js) and the dispatch of      *)
(* their messages (lib/cluster/index.js).                                  *)
(*                                                                         *)
(* Workers are the slots w of the stream; children are the processes they  *)
(* go through, numbered as they are forked.  w.sem and w.child always      *)
(* change together, so the semaphore of a worker is kept under the number  *)
(* of its child: sem[child[w]] is w.sem, and the handler of child c that   *)
(* captured `sem` uses sem[c].  IPC channels are FIFO; messages a process  *)
(* sent before it died still arrive.                                       *)
(***************************************************************************)
EXTENDS Semaphore, FiniteSets, Functions

CONSTANTS Worlds,       \* flows, and the faults that their workers may have
          MaxEntries,   \* bound: entries written to the stream
          MaxChildren   \* bound: processes forked, enough for each that ends

(* cores: number of workers; modes: what forkFlow() may be given; hwm: the *)
(* slots of a worker (HWM), for entries sent and not acked; crashes: bound *)
(* of processes that die by themselves, also before they are ready if      *)
(* early; slow: a start may outlast the first stats period; fails: it may  *)
(* fail; stops: closefork() may be called.                                 *)
ModesOfFlows == {"all", "expression", "balanced", "roundrobin"}
ASSUME WorldsAssumption ==
  \A w \in Worlds :
    /\ w.cores \in 1..MaxChildren /\ w.hwm \in Nat \ {0}
    /\ w.entries \in 0..MaxEntries
    /\ w.modes \subseteq ModesOfFlows /\ w.crashes \in Nat
    /\ {w.early, w.slow, w.fails, w.stops} \subseteq BOOLEAN
ASSUME BoundsAssumption == MaxEntries \in Nat /\ MaxChildren \in Nat

Entries == 1..MaxEntries
Children == 1..MaxChildren

VARIABLES world,    \* the member of Worlds
          mode,     \* the mode of the flow
          child,    \* w.child
          forked,   \* how many processes were forked
          proc,     \* the life of each process
          ready,    \* children whose child.ready is resolved
          starters, \* children whose hdl still listens
          sem,      \* the semaphore that came with each child
          sends,    \* calls of sendEntry that are not done
          writing,  \* the entry of the write() in progress, or 0
          written,  \* how many entries were written
          lidx,     \* the next worker of mode roundrobin
          restarts, \* pending 5 second timers of fnclose
          stopped,  \* closefork() was called
          inbox,    \* channel to each process: commands and entries
          msgs,     \* channel from each process
          owed,     \* entries a process took and has not acked
          got,      \* history: the entries each process took
          strays    \* history: children sent an entry on another's slot

Workers == 1..world.cores

master == <<world, mode, child, forked, ready, starters, sem, sends, writing,
            written, lidx, restarts, stopped, strays>>
workers == <<proc, owed, got>>
vars == <<master, workers, inbox, msgs>>

(* "forked": runs its script; "starting": in start(); "failed": its        *)
(* instance exists and did not start; "stopping": between the stop command *)
(* and its exit; "dead": gone, its close event pending; "closed": its      *)
(* close event was handled.                                                *)
ProcState ==
  {"none", "forked", "starting", "running", "failed", "stopping", "dead", "closed"}
Up == {"forked", "starting", "running", "failed", "stopping"}

(* A command to a process; `entry` matters to "emit" only.                 *)
Command(cmd, e) == [cmd |-> cmd, entry |-> e]
Emits == {Command("emit", e) : e \in Entries}
Commands == {Command("start", 0), Command("stop", 0)} \cup Emits

(* A pending sendEntry: its entry, its worker, the child it saw when it    *)
(* was called, and whether its sem.take() was granted.                     *)
Sending == [entry : Entries, w : Workers, c : Children, held : BOOLEAN]

(* What a process says; "failed" is the error of a start, with cid null.   *)
Message == {"online", "success", "error", "failed", "stats", "ack"}

TypeOK ==
  /\ world \in Worlds /\ mode \in world.modes
  /\ child \in [Workers -> Children] /\ forked \in 0..MaxChildren
  /\ proc \in [Children -> ProcState]
  /\ ready \subseteq Children /\ starters \subseteq Children
  /\ sem \in [Children -> SemaphoreOf(Entries)]
  /\ sends \subseteq Sending
  /\ writing \in 0..written /\ written \in 0..MaxEntries
  /\ lidx \in Workers
  /\ restarts \in Nat /\ stopped \in BOOLEAN
  /\ inbox \in [Children -> Seq(Commands)]
  /\ msgs \in [Children -> Seq(Message)]
  /\ owed \in [Children -> Nat]
  /\ got \in [Children -> Seq(Entries)]
  /\ strays \subseteq Children

(* forkFlow: one child per worker, all of them forked at once; a process   *)
(* says "online" when its script is loaded.                                *)
Init ==
  /\ world \in Worlds /\ mode \in world.modes
  /\ child = [w \in Workers |-> w] /\ forked = world.cores
  /\ proc = [c \in Children |-> IF c <= world.cores THEN "forked" ELSE "none"]
  /\ ready = {} /\ starters = Workers
  /\ sem = [c \in Children |-> Sem(world.hwm)]
  /\ sends = {} /\ writing = 0 /\ written = 0
  /\ lidx = 1 /\ restarts = 0 /\ stopped = FALSE
  /\ inbox = [c \in Children |-> <<>>]
  /\ msgs = [c \in Children |-> IF c <= world.cores THEN <<"online">> ELSE <<>>]
  /\ owed = [c \in Children |-> 0] /\ got = [c \in Children |-> <<>>]
  /\ strays = {}

(* A channel that loses the entries.                                       *)
PostDropped(c, what) ==
  inbox' = IF proc[c] \in Up /\ what \notin Emits
             THEN [inbox EXCEPT ![c] = Append(@, what)] ELSE inbox

(* A channel that delivers what was sent last first.                       *)
PostFirst(c, what) ==
  inbox' = IF proc[c] \in Up THEN [inbox EXCEPT ![c] = <<what>> \o @]
                             ELSE inbox

(* child.send(): lost when the process is not there any more.              *)
Post(c, what) ==
  inbox' = IF proc[c] \in Up THEN [inbox EXCEPT ![c] = Append(@, what)]
                             ELSE inbox

(***************************************************************************)
(* The master's stream                                                     *)
(***************************************************************************)

(* await Promise.all([w.sem.take(), w.child.ready]), of the child it saw.  *)
MayGo(s) == s.held /\ s.c \in ready

(* A resolved promise goes on before the event loop turns to the next      *)
(* message, timer or write.                                                *)
NoMicrotask == \A s \in sends : ~MayGo(s)

(* The workers with the fewest taken slots; the first of them is chosen.   *)
LeastLoaded ==
  CHOOSE w \in Workers : \A v \in Workers :
    \/ sem[child[w]].cur < sem[child[v]].cur
    \/ sem[child[w]].cur = sem[child[v]].cur /\ w <= v

(* The sets of workers the entry may be sent to: one set, but in mode      *)
(* expression, whose hash of the entry may name any worker.                *)
Targets ==
  CASE mode = "all" -> {Workers}
    [] mode = "expression" -> {{w} : w \in Workers}
    [] mode = "balanced" -> {{LeastLoaded}}
    [] mode = "roundrobin" -> {{lidx}}

(* sendEntry asks a slot of w.sem for entry e, for every worker of T.      *)
AskSlots(e, T) ==
  /\ sem' = [c \in Children |->
               IF c \in {child[w] : w \in T} THEN Take(sem[c], e) ELSE sem[c]]
  /\ sends' = sends \cup {[entry |-> e, w |-> w, c |-> child[w],
                            held |-> Available(sem[child[w]])] : w \in T}

Write(e) ==
  /\ NoMicrotask
  /\ writing = 0
  /\ e = written + 1 /\ e <= world.entries
  /\ written' = e /\ writing' = e
  /\ \E T \in Targets : AskSlots(e, T)
  /\ lidx' = IF mode = "roundrobin" THEN (lidx % world.cores) + 1 ELSE lidx
  /\ UNCHANGED <<world, mode, child, forked, ready, starters, restarts, stopped,
                 workers, inbox, msgs, strays>>

(* w.child.send(msg, ok), to the child w has by now; ok() is called even   *)
(* when the channel is closed.                                             *)
Send(s) ==
  /\ s \in sends /\ MayGo(s)
  /\ sends' = sends \ {s}
  /\ Post(child[s.w], Command("emit", s.entry))
  /\ strays' = IF s.c = child[s.w] THEN strays ELSE strays \cup {child[s.w]}
  /\ UNCHANGED <<world, mode, child, forked, ready, starters, sem, writing, written,
                 lidx, restarts, stopped, workers, msgs>>

(* callback() of write(), when every sendEntry of the entry is done.       *)
EndWrite ==
  /\ writing # 0
  /\ \A s \in sends : s.entry # writing
  /\ writing' = 0
  /\ UNCHANGED <<world, mode, child, forked, ready, starters, sem, sends, written,
                 lidx, restarts, stopped, workers, inbox, msgs, strays>>

(* A handler that leaves the semaphore its worker has by now.              *)
LeaveCurrentSem(c) ==
  \E w \in Workers :
    /\ w = (IF \E v \in Workers : child[v] = c
              THEN CHOOSE v \in Workers : child[v] = c ELSE world.cores)
    /\ sem' = [sem EXCEPT ![child[w]] = Leave(@)]
    /\ sends' = {IF s.c = child[w] /\ s.entry \in Woken(sem[child[w]])
                   THEN [s EXCEPT !.held = TRUE] ELSE s : s \in sends}

(* sem.leave() of the semaphore that came with child c.                    *)
LeaveSem(c) ==
  /\ sem' = [sem EXCEPT ![c] = Leave(@)]
  /\ sends' = {IF s.c = c /\ s.entry \in Woken(sem[c])
                 THEN [s EXCEPT !.held = TRUE] ELSE s : s \in sends}

(* The handler of handleWorker: an ack, or an error (its cid may be null,  *)
(* but never undefined), leaves the captured semaphore; leave() may throw. *)
HandleWorker(c, m) ==
  IF m \in {"ack", "error", "failed"} THEN LeaveSem(c) ELSE UNCHANGED <<sem, sends>>

(* The handler hdl of forkChild.  When it takes itself off the list, the   *)
(* loop of msgHandler skips the one after it, which is HandleWorker's.     *)
HandleStart(c, m) ==
  /\ UNCHANGED <<sem, sends>>
  /\ IF m = "online"
       THEN Post(c, Command("start", 0)) /\ UNCHANGED <<starters, ready>>
       ELSE /\ starters' = starters \ {c}
            /\ ready' = IF m = "success" THEN ready \cup {c} ELSE ready
            /\ UNCHANGED inbox

(* A message of child c reaches the master.                                *)
Receive(c) ==
  /\ NoMicrotask
  /\ msgs[c] # <<>>
  /\ msgs' = [msgs EXCEPT ![c] = Tail(@)]
  /\ LET m == Head(msgs[c]) IN
       IF c \in starters THEN HandleStart(c, m)
       ELSE HandleWorker(c, m) /\ UNCHANGED <<starters, ready, inbox>>
  /\ UNCHANGED <<world, mode, child, forked, writing, written, lidx, restarts, stopped,
                 strays, workers>>

(* setTimeout(..., 5000)                                                   *)
SetTimer == restarts' = restarts + 1

(* The close event of a process: fnclose sets a timer.                     *)
Close(c) ==
  /\ NoMicrotask
  /\ proc[c] = "dead" /\ msgs[c] = <<>>
  /\ proc' = [proc EXCEPT ![c] = "closed"]
  /\ SetTimer
  /\ UNCHANGED <<world, mode, child, forked, ready, starters, sem, sends, writing,
                 written, lidx, stopped, strays, owed, got, inbox, msgs>>

(* The worker a timer restarts: `var fnclose` is one variable for the      *)
(* whole loop, which the last iteration leaves to the last worker.         *)
RestartedWorker == world.cores

(* A restart that forgets the calls waiting for a slot.                    *)
NoneRejected(c) == {}

(* sem.destroy(): the calls that wait for a slot of child c.               *)
Rejected(c) == {s \in sends : s.c = c /\ ~s.held}

(* The timer of fnclose: sem.destroy() rejects the calls that wait for a   *)
(* slot, the write of a rejected call is called back, and the worker gets  *)
(* a new semaphore and a new child.                                        *)
Restart ==
  LET w == RestartedWorker
      old == child[w]
      new == forked + 1
      rejected == Rejected(old)
  IN
  /\ NoMicrotask
  /\ restarts > 0 /\ new \in Children
  /\ restarts' = restarts - 1
  /\ forked' = new
  /\ child' = [child EXCEPT ![w] = new]
  /\ sem' = [sem EXCEPT ![old] = Sem(world.hwm)]
  /\ sends' = sends \ rejected
  /\ writing' = IF writing \in {s.entry : s \in rejected} THEN 0 ELSE writing
  /\ proc' = [proc EXCEPT ![new] = "forked"]
  /\ starters' = starters \cup {new}
  /\ msgs' = [msgs EXCEPT ![new] = <<"online">>]
  /\ UNCHANGED <<world, mode, ready, written, lidx, stopped, strays, owed, got, inbox>>

(* closefork(): a stop for the child of every worker.                      *)
CloseFork ==
  /\ NoMicrotask
  /\ world.stops /\ ~stopped
  /\ stopped' = TRUE
  /\ inbox' = [c \in Children |->
                 IF proc[c] \in Up /\ \E w \in Workers : child[w] = c
                   THEN Append(inbox[c], Command("stop", 0)) ELSE inbox[c]]
  /\ UNCHANGED <<world, mode, child, forked, ready, starters, sem, sends, writing,
                 written, lidx, restarts, strays, workers, msgs>>

(***************************************************************************)
(* The worker process                                                      *)
(***************************************************************************)

Say(c, m) == msgs' = [msgs EXCEPT ![c] = Append(@, m)]

(* case CMD.start                                                          *)
TakeStart(c) ==
  /\ Head(inbox[c]).cmd = "start"
  /\ proc' = [proc EXCEPT ![c] = "starting"]
  /\ UNCHANGED <<owed, got, msgs>>

(* case CMD.stop: success at once, then finalize() if there is an instance.*)
TakeStop(c) ==
  /\ Head(inbox[c]).cmd = "stop"
  /\ Say(c, "success")
  /\ \/ proc[c] # "forked" /\ proc' = [proc EXCEPT ![c] = "stopping"]
     \/ proc[c] \notin {"running", "failed"} /\ UNCHANGED proc
  /\ UNCHANGED <<owed, got>>

(* case CMD.emit: push() hands the entry to the instance; without one it   *)
(* throws, and the error is sent with the cid of the entry.                *)
TakeEntry(c) ==
  /\ Head(inbox[c]).cmd = "emit"
  /\ \/ /\ proc[c] # "forked"
        /\ got' = [got EXCEPT ![c] = Append(@, Head(inbox[c]).entry)]
        /\ owed' = [owed EXCEPT ![c] = @ + 1]
        /\ UNCHANGED msgs
     \/ /\ proc[c] \notin {"running", "failed"}
        /\ Say(c, "error")
        /\ UNCHANGED <<owed, got>>
  /\ UNCHANGED proc

WorkerTakes(c) ==
  /\ proc[c] \in Up \ {"stopping"}
  /\ inbox[c] # <<>>
  /\ inbox' = [inbox EXCEPT ![c] = Tail(@)]
  /\ TakeStart(c) \/ TakeStop(c) \/ TakeEntry(c)
  /\ UNCHANGED master

(* await instance.start() ends and success is sent.                        *)
Started(c) ==
  /\ proc[c] = "starting"
  /\ proc' = [proc EXCEPT ![c] = "running"]
  /\ Say(c, "success")
  /\ UNCHANGED <<master, owed, got, inbox>>

(* start() throws, before it has made the instance or after that: the      *)
(* process stays, and never starts.                                        *)
FailStart(c) ==
  /\ world.fails
  /\ proc[c] = "starting"
  /\ \E p \in {"forked", "failed"} : proc' = [proc EXCEPT ![c] = p]
  /\ Say(c, "failed")
  /\ UNCHANGED <<master, owed, got, inbox>>

(* The timer of start() sends the statistics while start() goes on.  Once  *)
(* the child is ready they only feed the counters, and are left out.       *)
SendStats(c) ==
  /\ world.slow
  /\ proc[c] = "starting" /\ msgs[c] = <<>> /\ c \in starters
  /\ Say(c, "stats")
  /\ UNCHANGED <<master, workers, inbox>>

(* The callback of push(): the instance has taken the entry in.            *)
Ack(c) ==
  /\ proc[c] \in Up /\ owed[c] > 0
  /\ owed' = [owed EXCEPT ![c] = @ - 1]
  /\ Say(c, "ack")
  /\ UNCHANGED <<master, proc, got, inbox>>

Die(c) ==
  /\ proc' = [proc EXCEPT ![c] = "dead"]
  /\ inbox' = [inbox EXCEPT ![c] = <<>>]
  /\ owed' = [owed EXCEPT ![c] = 0]
  /\ UNCHANGED <<master, got, msgs>>

Crashed ==
  Cardinality({c \in Children : proc[c] \in {"dead", "closed"}})

Crash(c) ==
  /\ Crashed < world.crashes
  /\ proc[c] \in Up
  /\ world.early \/ c \in ready
  /\ Die(c)

(* process.exit() at the end of finalize().                                *)
Exit(c) == proc[c] = "stopping" /\ Die(c)

MasterStep ==
  \/ EndWrite
  \/ \E s \in sends : Send(s)
  \/ \E c \in Children : Receive(c) \/ Close(c)
  \/ Restart

WorkerStep(c) == WorkerTakes(c) \/ Started(c) \/ Ack(c) \/ Exit(c)

Next ==
  \/ \E e \in Entries : Write(e)
  \/ MasterStep
  \/ CloseFork
  \/ \E c \in Children :
       WorkerStep(c) \/ FailStart(c) \/ SendStats(c) \/ Crash(c)

(* Event loops run, timers expire, channels deliver, workers that do not   *)
(* die start and ack what they take.                                       *)
Fairness ==
  /\ WF_vars(EndWrite)
  /\ WF_vars(\E s \in sends : Send(s))
  /\ \A c \in Children : /\ WF_vars(Receive(c)) /\ WF_vars(Close(c))
                         /\ WF_vars(WorkerTakes(c)) /\ WF_vars(Started(c))
                         /\ WF_vars(Ack(c)) /\ WF_vars(Exit(c))
  /\ WF_vars(Restart)

Spec == Init /\ [][Next]_vars /\ Fairness

(***************************************************************************)
(* Properties                                                              *)
(***************************************************************************)

CountOf(seq, S) == Cardinality({i \in 1..Len(seq) : seq[i] \in S})

(* Entries sent to child c and not acked, wherever they or their answers   *)
(* are.                                                                    *)
Unacked(c) ==
  CountOf(inbox[c], Emits) + owed[c] + CountOf(msgs[c], {"ack", "error"})

Held(c) == Cardinality({s \in sends : s.c = c /\ s.held})
Current(c) == \E w \in Workers : child[w] = c

(* The slots of a worker are the entries its present process, once ready,  *)
(* has not acked, and the sends about to go: neither a restart nor a late  *)
(* ack of an earlier process lets a slot go astray (flow-master.js:48,     *)
(* 69-74, 91-101, 195-203), unless an entry that waited for the process    *)
(* before it went to this one on a slot of the other's, or a start fails   *)
(* after a stop that counted as its success: its error leaves a slot.      *)
SlotsMatchUnacked ==
  ~(stopped /\ world.fails) =>
    \A c \in Children :
      Current(c) /\ c \in ready /\ proc[c] \in Up /\ c \notin strays
        => sem[c].cur = Unacked(c) + Held(c)

(* A process takes its entries in the order they were written, each once   *)
(* (flow-master.js:122-173).                                               *)
Increasing(seq) == \A i, j \in 1..Len(seq) : i < j => seq[i] < seq[j]
ChildOrder == \A c \in Children : Increasing(got[c])

(* No process has ended, and closefork() was not called.                   *)
Calm == ~stopped /\ \A c \in Children : proc[c] \notin {"dead", "closed"}

(* Entry e is on its way to a process, or with one.                        *)
OnItsWay(e) ==
  \/ \E s \in sends : s.entry = e
  \/ \E c \in Children :
       Command("emit", e) \in Range(inbox[c]) \/ e \in Range(got[c])

(* An entry that was written is with a process, unless the process of one  *)
(* of the workers has ended (flow-master.js:91-101).  (A stop that comes   *)
(* before the start counts as its success.)                                *)
LostOnlyByDeath == Calm => \A e \in 1..written : OnItsWay(e)

(* Why it holds, as an inductive invariant.  A number that was not given   *)
(* to a process yet is none.                                               *)
NoneForked == \A c \in Children : c > forked => proc[c] = "none"

(* A process is told to start once, when it is online and before it starts,*)
(* and gets entries once it runs and has said so.                          *)
Says(c, m) == m \in Range(msgs[c])
Told(c, cmd) == \E m \in Range(inbox[c]) : m.cmd = cmd
Once(seq, m) == \A i, j \in 1..Len(seq) : seq[i] = m /\ seq[j] = m => i = j

StartsThenRuns(c) ==
  /\ Says(c, "online") => proc[c] = "forked" /\ ~Told(c, "start")
  /\ Told(c, "start") => proc[c] = "forked"
  /\ Once(msgs[c], "online") /\ Once(inbox[c], Command("start", 0))
  /\ ~Told(c, "stop")
  /\ Says(c, "success") \/ c \in ready => proc[c] = "running"
  /\ Told(c, "emit") => c \in ready

(* While nothing has ended there are no timers, a worker has the process   *)
(* it began with, and a call waits for that one.                           *)
AsBegun ==
  /\ restarts = 0 /\ forked = world.cores
  /\ \A w \in Workers : child[w] = w /\ proc[w] \in Up \ {"stopping"}
  /\ \A s \in sends : s.c = s.w
  /\ \A c \in Workers : StartsThenRuns(c)

IInv == TypeOK /\ NoneForked /\ LostOnlyByDeath /\ (Calm => AsBegun)

(* Why a process gets its entries in order, as an inductive invariant.     *)
(* Only the last worker gets new processes, and a number that was not      *)
(* given to a process yet has no traces.                                   *)
Numbers ==
  /\ \A w \in Workers : w # RestartedWorker => child[w] = w
  /\ child[RestartedWorker] \in RestartedWorker..forked
  /\ \A c \in Children : c > forked =>
       /\ sem[c] = Sem(world.hwm)
       /\ inbox[c] = <<>> /\ msgs[c] = <<>> /\ owed[c] = 0 /\ got[c] = <<>>

(* The calls of the last worker are of the write in progress, those of the *)
(* others may be of writes that were called back without them.  A turn     *)
(* makes one call of a worker go at most.                                  *)
Calls ==
  /\ \A s \in sends :
       /\ s.entry <= written
       /\ IF s.w = RestartedWorker
            THEN s.entry = writing /\ s.c \in RestartedWorker..child[s.w]
            ELSE s.c = s.w
       /\ s.entry # writing => s.c \in ready
  /\ \A s, t \in sends :
       s.w = t.w /\ (s.entry = t.entry \/ (MayGo(s) /\ MayGo(t))) => s = t

(* In mode all, the others are ready once the first write is over, which   *)
(* finds its slots free; in the other modes a write is one call.           *)
FirstWrite ==
  /\ written = 0 => \A c \in Children : sem[c].cur <= 0
  /\ writing = 1 => written = 1 /\ \A s \in sends : s.held
  /\ mode # "all" => \A s, t \in sends : s.entry = writing /\ s = t
  /\ mode = "all" => \A w \in Workers :
       \/ w = RestartedWorker \/ w \in ready \/ written = 0
       \/ writing = 1 /\ \E s \in sends : s.w = w

(* Calls wait for a slot in the order of their entries, and the granted    *)
(* ones come before them.                                                  *)
WaitsInOrder(c) ==
  /\ sem[c].cap = world.hwm /\ sem[c].cur <= world.hwm
  /\ sem[c].wait # <<>> => sem[c].cur = world.hwm
  /\ Increasing(sem[c].wait)
  /\ \A e \in Entries :
       e \in Range(sem[c].wait) <=> \E s \in sends : s.c = c /\ ~s.held /\ s.entry = e
  /\ \A s, t \in sends :
       s.c = c /\ t.c = c /\ s.held /\ ~t.held => s.entry < t.entry

(* Entries are in order in a process and its channel, and the calls that   *)
(* go there come after them.                                               *)
EntriesIn(seq) == {e \in Entries : Command("emit", e) \in Range(seq)}
EmitsInOrder(seq) ==
  \A i, j \in 1..Len(seq) :
    i < j /\ seq[i] \in Emits /\ seq[j] \in Emits => seq[i].entry < seq[j].entry

ArriveInOrder(c) ==
  /\ Increasing(got[c]) /\ EmitsInOrder(inbox[c])
  /\ \A e \in Range(got[c]), f \in EntriesIn(inbox[c]) : e < f
  /\ \A e \in Range(got[c]) \cup EntriesIn(inbox[c]) :
       e <= written /\ \A s \in sends : child[s.w] = c => e < s.entry

OrderInv ==
  /\ Numbers /\ Calls /\ FirstWrite
  /\ \A c \in Children : WaitsInOrder(c) /\ ArriveInOrder(c)

(* Why the slots are the entries that were not acked.  While the flow was  *)
(* not stopped a process starts once, and fails before it is ready or      *)
(* never.                                                                  *)
StartsOnce(c) ==
  /\ Once(msgs[c], "online") /\ Once(inbox[c], Command("start", 0))
  /\ ~Told(c, "stop")
  /\ Says(c, "online") => proc[c] \notin Up \ {"forked"} /\ ~Told(c, "start")
  /\ Told(c, "start") => proc[c] = "forked"
  /\ Says(c, "online") \/ Told(c, "start") \/ proc[c] = "starting"
       => ~Says(c, "success") /\ ~Says(c, "failed") /\ c \notin ready
  /\ Says(c, "success") \/ c \in ready => ~Says(c, "failed")

(* A process has no entries before it is ready.                            *)
SlotsOf(c) ==
  /\ c \notin ready /\ c \notin strays => Unacked(c) = 0
  /\ /\ Current(c) /\ c \in ready \cup starters
     /\ proc[c] \in Up /\ c \notin strays /\ ~(stopped /\ world.fails)
     => sem[c].cur = Unacked(c) + Held(c)

StartInv ==
  /\ ~stopped => \A c \in Children : StartsOnce(c)
  /\ ~world.fails => \A c \in Children : ~Says(c, "failed")
  /\ ready \cap starters = {} /\ \A c \in ready \cup starters : c <= forked

SlotInv == StartInv /\ IsFiniteSet(sends) /\ \A c \in Children : SlotsOf(c)

(* Every write is called back (flow-master.js:122-173).  (Not if a process *)
(* dies, or fails to start, before it is ready, or if a statistics message *)
(* takes the handler that waits for it off; and not if the process of any  *)
(* worker but the last ends, ready as it was: the timer gives the last one *)
(* a new process, and nobody acks on the slots of the other any more.)     *)
LeftDead ==
  \E w \in Workers \ {RestartedWorker} : proc[child[w]] \in {"dead", "closed"}

WriteReturns ==
  \/ world.early \/ world.slow \/ world.fails
  \/ <>LeftDead
  \/ writing # 0 ~> writing = 0
=============================================================================
