--------------------------- MODULE MessageInputs ----------------------------
(***************************************************************************)
(* The inputs that get whole messages: udp (also of syslog), ws, stdin,    *)
(* redis, amqp, zmq, where all inputs of the process share one socket, and *)
(* machine, whose collector they all listen to.  What comes while an input *)
(* is paused is thrown away.                                               *)
(***************************************************************************)
EXTENDS Listener

CONSTANTS Inputs,     \* inputs of the same kind
          MaxMessages \* messages that come to each

VARIABLES server,    \* by input: off, connecting, up, closed, failed
          handlers,  \* by input: how often its handler is on the socket or collector
          sent,      \* how many messages came for each input
          got,       \* by input: the messages it called back with, in order
          loop       \* machine: where the loop stands: no, collecting, waiting

messageVars == <<server, handlers, sent, got, loop>>

ASSUME MessagesAssumption ==
  MaxMessages \in Nat /\ \A w \in Worlds : w.inputs \subseteq Inputs

Message == [to : Inputs, number : 1..MaxMessages]

MessageTypeOK ==
  /\ server \in [Inputs -> {"off", "connecting", "up", "closed", "failed"}]
  /\ handlers \in [Inputs -> Nat] /\ sent \in [Inputs -> 0..MaxMessages]
  /\ got \in [Inputs -> Seq(Message)]
  /\ loop \in {"no", "collecting", "waiting"}

MessageInit ==
  /\ server = [i \in Inputs |-> "off"] /\ handlers = [i \in Inputs |-> 0]
  /\ sent = [i \in Inputs |-> 0] /\ got = [i \in Inputs |-> <<>>] /\ loop = "no"

OfAll(v) == [i \in Inputs |-> IF i \in bound.inputs THEN v ELSE "off"]

(* redis and amqp await a connection; a machine input needs none, and the  *)
(* collector collects for the first time.                                  *)
MessageStart ==
  /\ Starts("up")
  /\ server' = OfAll(IF Is({"redis", "amqp"}) THEN "connecting" ELSE "up")
  /\ handlers' = [i \in Inputs |-> IF server'[i] = "up" THEN 1 ELSE 0]
  /\ loop' = IF Is({"machine"}) THEN "collecting" ELSE "no"
  /\ UNCHANGED <<sent, got>>

(* redis gives up when neither the cluster nor one server is there; amqp   *)
(* tries again for ever.  stop() does not end the attempt.                 *)
Connected(i) ==
  /\ server[i] = "connecting"
  /\ server' = [server EXCEPT ![i] = "up"]
  /\ handlers' = [handlers EXCEPT ![i] = @ + 1]
  /\ UNCHANGED <<lifeVars, sent, got, loop>>
NotConnected(i) ==
  /\ server[i] = "connecting" /\ Is({"redis"}) /\ Fault
  /\ server' = [server EXCEPT ![i] = "failed"]
  /\ UNCHANGED <<bound, phase, paused, pauses, handlers, sent, got, loop>>

(* An error closes the socket of udp, and ends the one connection of amqp. *)
SocketError(i) ==
  /\ server[i] = "up" /\ Is({"udp", "amqp"}) /\ Fault
  /\ server' = [server EXCEPT ![i] = "failed"]
  /\ handlers' = [handlers EXCEPT ![i] = 0]
  /\ UNCHANGED <<bound, phase, paused, pauses, sent, got, loop>>

(* Who hears message m: all zmq inputs hear each other's.  amqp, which has *)
(* acked it before, does not look whether it is paused.                    *)
Hears(i, m) ==
  /\ m.to = i \/ Is({"zmq", "machine"})
  /\ ~paused \/ Is({"amqp", "machine"})

Delivered(m) ==
  got' = [i \in Inputs |-> IF Hears(i, m) THEN got[i] \o [k \in 1..handlers[i] |-> m]
                          ELSE got[i]]

(* A message comes in on the address of i; the broker of amqp keeps what   *)
(* nobody listens to.                                                      *)
MessageComes(i) ==
  /\ i \in bound.inputs /\ sent[i] < MaxMessages /\ ~Is({"machine"})
  /\ server[i] = "up"
  /\ sent' = [sent EXCEPT ![i] = @ + 1]
  /\ Delivered([to |-> i, number |-> sent'[i]])
  /\ UNCHANGED <<lifeVars, server, handlers, loop>>

(* The collector is ready, tells all its listeners, and waits; stop()      *)
(* clears the timer only if there is one.                                  *)
Collected ==
  /\ loop = "collecting" /\ loop' = "waiting"
  /\ \E i \in Inputs :
       /\ i = (CHOOSE j \in Inputs : TRUE) /\ sent[i] < MaxMessages
       /\ sent' = [sent EXCEPT ![i] = @ + 1]
       /\ Delivered([to |-> i, number |-> sent'[i]])
  /\ UNCHANGED <<lifeVars, server, handlers>>
CollectsAgain ==
  /\ loop = "waiting" /\ loop' = "collecting"
  /\ UNCHANGED <<lifeVars, server, handlers, sent, got>>

(* pause() of machine takes the listener off; resume() takes it off again  *)
(* before it puts it on, for it may come without a pause.                  *)
Detached(h) == [i \in Inputs |-> IF h[i] > 0 THEN h[i] - 1 ELSE 0]
Reattached == [i \in Inputs |-> IF i \in bound.inputs THEN Detached(handlers)[i] + 1 ELSE 0]
MessagePause ==
  /\ Pauses
  /\ handlers' = IF Is({"machine"}) THEN Detached(handlers) ELSE handlers
  /\ UNCHANGED <<server, sent, got, loop>>
MessageResume ==
  /\ Resumes
  /\ handlers' = IF Is({"machine"}) THEN Reattached ELSE handlers
  /\ UNCHANGED <<server, sent, got, loop>>

(* NSyslog stops the collector and then the inputs.  ws and amqp only call *)
(* back; redis disconnects if it is connected; the zmq socket leaves the   *)
(* address, and keeps the handler.                                         *)
MessageStop ==
  /\ Stops
  /\ LET goesOn(i) == Is({"ws", "amqp"}) \/ server[i] # "up"
     IN /\ server' = [i \in Inputs |-> IF goesOn(i) THEN server[i] ELSE "closed"]
        /\ handlers' = [i \in Inputs |-> IF goesOn(i) \/ Is({"zmq"}) THEN handlers[i] ELSE 0]
  /\ loop' = IF loop = "waiting" THEN "no" ELSE loop
  /\ UNCHANGED <<sent, got>>

MessageRuns ==
  (\E i \in Inputs : Connected(i)) \/ Collected \/ CollectsAgain
MessageStep ==
  \/ MessageStart \/ MessageRuns \/ MessagePause \/ MessageResume \/ MessageStop
  \/ \E i \in Inputs : NotConnected(i) \/ SocketError(i) \/ MessageComes(i)

-----------------------------------------------------------------------------

(***************************************************************************)
(* The http server input, and the acks: with ack in its configuration a    *)
(* request is answered when the acker transporter of some flow has the     *)
(* entry, for which the process keeps a map of the requests; a flow may    *)
(* run in another process, whose map is another one.  (Only the https      *)
(* server keeps the ack of its configuration.)                             *)
(***************************************************************************)

CONSTANTS Requests,  \* requests of clients
          Flows      \* flows with an acker transporter

VARIABLES body,    \* what a client sends: post, bad, long; or get
          stage,   \* of a request: none, reading, ended, gone
          replies, \* the answers to each request: writeHead() after end() throws
          ackmap,  \* requests that an ack is awaited for
          flowing  \* the entries on their way to the acker of each flow

requestVars == <<body, stage, replies, ackmap, flowing>>

Bodies == {"post", "bad", "long", "get"}
Codes == {200, 400, 405}

RequestTypeOK ==
  /\ body \in [Requests -> Bodies]
  /\ stage \in [Requests -> {"none", "reading", "ended", "gone"}]
  /\ replies \in [Requests -> Seq(Codes)] /\ ackmap \subseteq Requests
  /\ flowing \subseteq Requests \X Flows

RequestInit ==
  /\ body \in IF Is({"http", "https"}) THEN [Requests -> Bodies]
              ELSE {[r \in Requests |-> "post"]}
  /\ stage = [r \in Requests |-> "none"] /\ replies = [r \in Requests |-> <<>>]
  /\ ackmap = {} /\ flowing = {}

(* The https server is made when the keys are read.                        *)
RequestStart ==
  /\ Starts(IF Is({"https"}) THEN "starting" ELSE "up") \/ Started
  /\ UNCHANGED requestVars

Reply(r, codes) == replies' = [replies EXCEPT ![r] = @ \o codes]

(* A request comes: paused, it is answered like one that is taken.         *)
RequestComes(r) ==
  /\ phase = "up" /\ stage[r] = "none"
  /\ IF paused \/ body[r] = "get"
     THEN /\ stage' = [stage EXCEPT ![r] = "ended"]
          /\ Reply(r, IF paused THEN <<200>> ELSE <<405>>)
     ELSE /\ stage' = [stage EXCEPT ![r] = "reading"] /\ UNCHANGED replies
  /\ UNCHANGED <<lifeVars, body, ackmap, flowing>>

(* The body has more than 1e6 characters.                                  *)
TooLong(r) ==
  /\ stage[r] = "reading" /\ body[r] = "long"
  /\ stage' = [stage EXCEPT ![r] = "gone"]
  /\ UNCHANGED <<lifeVars, body, replies, ackmap, flowing>>

(* The body is there: the entry goes to all flows.                         *)
RequestEnds(r) ==
  /\ stage[r] = "reading" /\ body[r] \in {"post", "bad"}
  /\ stage' = [stage EXCEPT ![r] = "ended"]
  /\ Reply(r, (IF bound.ack THEN <<>> ELSE <<200>>)
              \o (IF body[r] = "bad" THEN <<400>> ELSE <<>>))
  /\ IF body[r] = "bad" THEN UNCHANGED <<ackmap, flowing>>
     ELSE /\ ackmap' = IF bound.ack THEN ackmap \cup {r} ELSE ackmap
          /\ flowing' = flowing \cup ({r} \X Flows)
  /\ UNCHANGED <<lifeVars, body>>

(* An ack that leaves the request in the map.                              *)
EndRequestKeeps(r) ==
  /\ UNCHANGED ackmap
  /\ IF r \in ackmap /\ stage[r] = "ended" THEN Reply(r, <<200>>) ELSE UNCHANGED replies

(* The acker transporter of a flow, with an answer for the entry or        *)
(* without one; endRequest() finds the request in the map, or does not.    *)
EndRequest(r) ==
  /\ ackmap' = ackmap \ {r}
  /\ IF r \in ackmap /\ stage[r] = "ended" THEN Reply(r, <<200>>) ELSE UNCHANGED replies
Acks(r, f) ==
  /\ <<r, f>> \in flowing /\ flowing' = flowing \ {<<r, f>>}
  /\ IF f \in bound.silent \cup bound.forked THEN UNCHANGED <<ackmap, replies>>
     ELSE EndRequest(r)
  /\ UNCHANGED <<lifeVars, body, stage>>

(* The client does not wait; nobody takes the request off the map.         *)
ClientLeaves(r) ==
  /\ stage[r] \in {"reading", "ended"} /\ replies[r] = <<>> /\ Fault
  /\ stage' = [stage EXCEPT ![r] = "gone"]
  /\ UNCHANGED <<bound, phase, paused, pauses, body, replies, ackmap, flowing>>

RequestControl == (Pauses \/ Resumes \/ Stops) /\ UNCHANGED requestVars

(* stop() calls back when no connection is left.                           *)
Open == {r \in Requests : stage[r] \in {"reading", "ended"} /\ replies[r] = <<>>}

RequestRuns ==
  \/ phase = "starting" /\ RequestStart
  \/ \E r \in Requests : TooLong(r) \/ RequestEnds(r) \/ \E f \in Flows : Acks(r, f)
Crashed == \E r \in Requests : Len(replies[r]) > 1
RequestStep ==
  /\ ~Crashed
  /\ \/ RequestStart \/ RequestRuns \/ RequestControl
     \/ \E r \in Requests : RequestComes(r) \/ ClientLeaves(r)
-----------------------------------------------------------------------------
(***************************************************************************)
(* The command input, which runs a command at each interval (exec), at     *)
(* each call of next() (next), or once and reads its lines (spawn); and    *)
(* the static input, whose lines next() gives one by one (static).         *)
(* A world says which of these are empty (blank).                          *)
(***************************************************************************)
CONSTANTS Output,     \* what a command prints: the break "n", and others
          MaxRuns,    \* times that the command is run
          StaticLines \* lines of the static input

ASSUME CommandAssumption ==
  /\ MaxRuns \in Nat \ {0} /\ StaticLines \in 0..Len(Output)
  /\ \A w \in Worlds : w.blank \subseteq 1..StaticLines

VARIABLES runs,    \* for each command run: what came of its output, and how
                   \* much of that was taken; whether it ends; whose callback
          ticking, \* the intervals that run: that of start(), of the last
                   \* resume() (again), and of others before (older)
          last,    \* this.timer, the one that stop() clears: no, first, again
          extra,   \* history: resume() came where pause() had not
          lines,   \* what was called back with, in order: <<run, from, to>>
          lost,    \* what went to the callback of a resume(), in order
          asked,   \* next() has been called and has not answered
          wm       \* static: lines that were asked for

commandVars == <<runs, ticking, last, extra, lines, lost, asked, wm>>
intervalVars == <<ticking, last, extra>>

Run == [came : 0..Len(Output), taken : 0..Len(Output), alive : BOOLEAN,
        first : BOOLEAN]
Line == (1..MaxRuns) \X (1..(Len(Output) + 1)) \X (0..Len(Output))

CommandTypeOK ==
  /\ runs \in Seq(Run) /\ Len(runs) <= MaxRuns
  /\ ticking \subseteq {"first", "again", "older"} /\ last \in {"no", "first", "again"}
  /\ {lines, lost} \subseteq Seq(Line) /\ {asked, extra} \subseteq BOOLEAN
  /\ wm \in 0..(StaticLines + 1)

CommandInit ==
  /\ runs = <<>> /\ ticking = {} /\ last = "no" /\ extra = FALSE
  /\ lines = <<>> /\ lost = <<>> /\ asked = FALSE /\ wm = 0

Spawned(first) ==
  runs' = Append(runs, [came |-> 0, taken |-> 0, alive |-> TRUE, first |-> first])

(* start(): first with the callback of the wrapper; resume() calls it with *)
(* its own.  An interval that runs goes on beside the new one.             *)
StartsWith(first) ==
  /\ Is({"spawn"}) => Len(runs) < MaxRuns
  /\ IF Is({"spawn"}) THEN Spawned(first) ELSE UNCHANGED runs
  /\ IF Is({"exec"})
     THEN /\ last' = IF first THEN "first" ELSE "again"
          /\ ticking' = ticking \cup {last'} \cup (IF last' \in ticking THEN {"older"} ELSE {})
     ELSE UNCHANGED <<last, ticking>>
  /\ extra' = (extra \/ (~first /\ ~paused))
  /\ UNCHANGED <<lines, lost, asked, wm>>

CommandStart == Starts("up") /\ StartsWith(TRUE)
CommandResume == Resumes /\ StartsWith(FALSE)

(* stop(), which pause() calls: the last interval is cleared, no command   *)
(* ended.                                                                  *)
CommandStop ==
  /\ Stops \/ Pauses
  /\ ticking' = ticking \ {last} /\ UNCHANGED <<runs, last, extra, lines, lost, asked, wm>>

(* An interval, or next(), runs the command.                               *)
Executes ==
  /\ Len(runs) < MaxRuns
  /\ \/ \E t \in ticking : Spawned(t = "first") /\ UNCHANGED asked
     \/ /\ Is({"next"}) /\ phase = "up" /\ ~asked /\ ~paused
        /\ Spawned(TRUE) /\ asked' = TRUE
  /\ UNCHANGED <<lifeVars, intervalVars, lines, lost, wm>>

CallBack(k, new) ==
  IF runs[k].first THEN lines' = lines \o new /\ UNCHANGED lost
  ELSE lost' = lost \o new /\ UNCHANGED lines

(* A command that ends is one entry, in the order in which they end.       *)
Fetched(k) ==
  /\ Is({"exec", "next"}) /\ runs[k].alive
  /\ runs' = [runs EXCEPT ![k].alive = FALSE]
  /\ CallBack(k, <<<<k, 1, Len(Output)>>>>)
  /\ asked' = FALSE /\ UNCHANGED <<lifeVars, intervalVars, wm>>
FetchFails(k) ==
  /\ Is({"exec", "next"}) /\ runs[k].alive /\ Fault
  /\ runs' = [runs EXCEPT ![k].alive = FALSE]
  /\ asked' = FALSE
  /\ UNCHANGED <<bound, phase, paused, pauses, intervalVars, lines, lost, wm>>

(* A spawned command printed up to n; all lines that end there are         *)
(* entries.  It may have ended before that is read.                        *)
LineEnds(k, n) == {p \in (runs[k].taken + 1)..n : Output[p] = "n"}
LinesOf(k, n) ==
  LET s == SetToSortSeq(LineEnds(k, n), <) IN
  [i \in 1..Len(s) |-> <<k, (IF i = 1 THEN runs[k].taken ELSE s[i - 1]) + 1, s[i] - 1>>]
Prints(k, n) ==
  /\ Is({"spawn"}) /\ n \in (runs[k].came + 1)..Len(Output)
  /\ runs' = [runs EXCEPT ![k].came = n,
                          ![k].taken = IF LineEnds(k, n) = {} THEN @ ELSE Max(LineEnds(k, n))]
  /\ CallBack(k, LinesOf(k, n))
  /\ UNCHANGED <<lifeVars, intervalVars, asked, wm>>

(* It ends, with an entry for that; what follows its last line end is      *)
(* forgotten.                                                              *)
ExitOf(k) == <<k, Len(Output) + 1, Len(Output)>>
Exits(k) ==
  /\ Is({"spawn"}) /\ runs[k].alive
  /\ runs' = [runs EXCEPT ![k].alive = FALSE]
  /\ CallBack(k, <<ExitOf(k)>>)
  /\ UNCHANGED <<lifeVars, intervalVars, asked, wm>>

(* next() of static answers later, after the last line and for an empty    *)
(* one never.                                                              *)
StaticNext ==
  /\ Is({"static"}) /\ phase = "up" /\ ~paused /\ ~asked
  /\ asked' = TRUE /\ wm' = IF wm < StaticLines THEN wm + 1
                            ELSE IF bound.loop THEN 1 ELSE StaticLines + 1
  /\ UNCHANGED <<lifeVars, runs, intervalVars, lines, lost>>
StaticLine ==
  /\ Is({"static"}) /\ asked /\ wm \in 1..StaticLines \ bound.blank
  /\ lines' = IF Len(lines) < 2 * StaticLines THEN Append(lines, <<1, wm, wm>>) ELSE lines
  /\ asked' = FALSE /\ UNCHANGED <<lifeVars, runs, intervalVars, lost, wm>>

CommandRuns ==
  \/ StaticNext \/ StaticLine \/ Executes
  \/ \E k \in DOMAIN runs : Fetched(k) \/ Prints(k, Len(Output)) \/ Exits(k)
CommandStep ==
  \/ CommandStart \/ CommandResume \/ CommandStop \/ CommandRuns
  \/ \E k \in DOMAIN runs : FetchFails(k) \/ \E n \in DOMAIN Output : Prints(k, n)
=============================================================================
