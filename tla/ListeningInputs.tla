---------------------------- MODULE ListeningInputs ----------------------------
(***************************************************************************)
(* The inputs that others send something to, and the commands: each is     *)
(* started, paused, resumed and stopped while its clients do what they     *)
(* like, in pieces of any size.                                            *)
(***************************************************************************)
EXTENDS SyslogListener, MessageInputs

familyVars == <<syslogVars, messageVars, requestVars, commandVars>>
vars == <<lifeVars, familyVars>>

SyslogKinds == {"linebreak", "priority", "length", "tcp"}
MessageKinds == {"udp", "ws", "redis", "amqp", "zmq", "machine"}
RequestKinds == {"http", "https"}
CommandKinds == {"exec", "next", "spawn", "static"}

ASSUME KindsAssumption ==
  {w.kind : w \in Worlds} \subseteq
    SyslogKinds \cup MessageKinds \cup RequestKinds \cup CommandKinds

Init ==
  /\ LifeInit /\ SyslogInit /\ MessageInit /\ RequestInit /\ CommandInit

OfSyslog(A) ==
  Is(SyslogKinds) /\ A /\ UNCHANGED <<messageVars, requestVars, commandVars>>
OfMessages(A) ==
  Is(MessageKinds) /\ A /\ UNCHANGED <<syslogVars, requestVars, commandVars>>
OfRequests(A) ==
  Is(RequestKinds) /\ A /\ UNCHANGED <<syslogVars, messageVars, commandVars>>
OfCommands(A) ==
  Is(CommandKinds) /\ A /\ UNCHANGED <<syslogVars, messageVars, requestVars>>

Next ==
  \/ OfSyslog(SyslogStep) \/ OfMessages(MessageStep)
  \/ OfRequests(RequestStep) \/ OfCommands(CommandStep)

(* Time passes, the interval fires, what was awaited comes, a client that  *)
(* has begun a request ends it, and flows go on.  Nothing says that a      *)
(* client begins anything, or that anybody pauses, resumes or stops.       *)
Fairness ==
  /\ WF_vars(OfSyslog(~crashed /\ TlsListens))
  /\ \A c \in Conns :
       /\ WF_vars(OfSyslog(~crashed /\ Silence(c)))
       /\ WF_vars(OfSyslog(~crashed /\ (Flush(c) \/ Destroyed(c))))
  /\ \A i \in Inputs : WF_vars(OfMessages(Connected(i)))
  /\ \A r \in Requests :
       /\ WF_vars(OfRequests(~Crashed /\ (TooLong(r) \/ RequestEnds(r))))
       /\ \A f \in Flows : WF_vars(OfRequests(~Crashed /\ Acks(r, f)))
  /\ WF_vars(OfCommands(CommandRuns))

Spec == Init /\ [][Next]_vars /\ Fairness
-----------------------------------------------------------------------------
TypeOK ==
  /\ LifeTypeOK /\ SyslogTypeOK /\ MessageTypeOK /\ RequestTypeOK /\ CommandTypeOK

(* Of connection c: what the input called back with, and the messages as   *)
(* one who sees the whole text at once would cut it.                       *)
From(c) == SelectSeq(entries, LAMBDA e : e.client = c)
Meant(c) ==
  IF Is({"linebreak"})
  THEN Lines(c, 0, Breaks(c, 0, Len(Text[c])) \cup {Len(Text[c]) + 1})
  ELSE Messages(c, Priorities(c, 0, Len(Text[c])), Len(Text[c]))

(* In whatever pieces the text comes, and whoever else sends at that time, *)
(* the entries are the messages, in order and none twice, if the timer cut *)
(* none; only the last one may be cut short by the end of the connection.  *)
(* (A text of which no priority came when it ended is one entry.)          *)
Cuttable == Is({"linebreak", "priority"})
Unmarked(c) == Is({"priority"}) /\ Priorities(c, 0, came[c]) = {}
AsMeant(c) ==
  LET s == From(c)
      m == Meant(c)
      begins(i) == s[i].from = m[i].from /\ i = Len(s) /\ conn[c] = "closed"
  IN \/ conn[c] = "closed" /\ Unmarked(c) /\ s = Whole(c, 0, came[c])
     \/ /\ Len(s) <= Len(m)
        /\ \A i \in DOMAIN s : s[i] = m[i] \/ begins(i)
        /\ conn[c] = "closed" /\ came[c] = Len(Text[c]) => s = m

(* The lines of a spawned command likewise, and its end is an entry too.   *)
LinesAsMeant(r) ==
  LET s == SelectSeq(lines \o lost, LAMBDA l : l[1] = r /\ l # ExitOf(r))
      ends == SelectSeq(lines \o lost, LAMBDA l : l = ExitOf(r))
  IN /\ ToSet(s) = {l \in Line : /\ l[1] = r /\ l[3] < runs[r].taken
                                 /\ l[2] = 1 \/ Output[l[2] - 1] = "n"
                                 /\ {p \in l[2]..(l[3] + 1) : Output[p] = "n"} = {l[3] + 1}}
     /\ \A i, j \in DOMAIN s : i < j => s[i][3] < s[j][2]
     /\ Len(ends) = IF runs[r].alive THEN 0 ELSE 1

(* An input that gets whole messages calls back once with each that it     *)
(* hears, in order, and leaves none out before there was a pause, an error *)
(* or the stop, though others share its socket or collector.               *)
MessagesOnce(i) ==
  \A j \in bound.inputs :
    LET s == SelectSeq(got[i], LAMBDA m : m.to = j)
    IN /\ \A a, b \in DOMAIN s : a < b => s[a].number < s[b].number
       /\ phase = "up" /\ pauses = 0 /\ faults = 0 /\ (j = i \/ Is({"zmq", "machine"}))
            => Len(s) = sent[j]

MessagesComeWhole ==
  /\ Cuttable => \A c \in Conns : cut[c] \/ AsMeant(c)
  /\ Is({"spawn"}) => \A r \in DOMAIN runs : LinesAsMeant(r)
  /\ Is(MessageKinds) => \A i \in bound.inputs : MessagesOnce(i)

(* The text that came is in the entries or in the buffer, each character   *)
(* once, however often the timer fires, at whatever time the connection    *)
(* breaks or the input is paused or stopped.  (What comes before the first *)
(* priority is thrown away when that has come, and of a message with       *)
(* priority that the timer has cut, what comes later.)                     *)
InEntries(c, p) == {i \in DOMAIN entries : /\ entries[i].client = c
                                           /\ p \in entries[i].from..entries[i].to}
BeforePriority(c, p) == ~Unmarked(c) /\ \A q \in Priorities(c, 0, came[c]) : p < q
NothingOfTextLost ==
  Cuttable => \A c \in Conns : \A p \in 1..came[c] :
    LET n == Cardinality(InEntries(c, p)) IN
    CASE p > done[c] -> n = 0
      [] Is({"linebreak"}) /\ Text[c][p] = "n" -> n <= 1
      [] Is({"priority"}) /\ cut[c] -> n <= 1
      [] Is({"priority"}) /\ BeforePriority(c, p) -> n = 0
      [] OTHER -> n = 1

(* A request is answered once, though several flows ack it, clients leave, *)
(* and acks come for what is not known any more.  (Without ack a body that *)
(* is not JSON is answered twice, which ends the process.)                 *)
AnsweredOnce ==
  \A r \in Requests : Len(replies[r]) <= 1 \/ (~bound.ack /\ body[r] = "bad")

(* What is begun comes to an end: a text does not stay in a buffer, a      *)
(* request is answered, so that stop() can call back, a command is read.   *)
(* Not so for a text that comes when the tcp input was stopped; if the     *)
(* only flows that ack live in another process, or answer nothing; and     *)
(* next() of static does not answer after the last line, or for an empty   *)
(* one.  The interval of a command ends with stop(), unless resume() came  *)
(* where pause() had not.                                                  *)
AckerInProcess == Flows \ (bound.forked \cup bound.silent) # {}
AllAnswered == Open = {} \/ Crashed \/ (bound.ack /\ ~AckerInProcess)
ComesToAnEnd ==
  /\ []<>(\A c \in Conns : done[c] = came[c] \/ crashed \/ (Is({"tcp"}) /\ ~timer))
  /\ []<>AllAnswered
  /\ []<>(~asked \/ wm > StaticLines \/ wm \in bound.blank)
  /\ []<>(phase = "stopped" => ticking = {} \/ extra)
=============================================================================
