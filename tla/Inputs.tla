------------------------------- MODULE Inputs -------------------------------
(***************************************************************************)
(* The inputs that read from a source, each with the store of watermarks,  *)
(* and processes that start, pause, stop, crash and start again.           *)
(***************************************************************************)
EXTENDS DatabaseInputs, HttpInputs, WindowsInputs, KafkaInput

familyVars == <<mongoVars, sqlVars, httpVars, windowsVars, kafkaVars>>
vars == <<sourceVars, familyVars>>

Http == kind \in {"elastic", "http", "httppush", "httpsm"}

ASSUME KindsAssumption ==
  {w.kind : w \in Worlds} \subseteq
     {"mongo", "sqlserver", "elastic", "http", "httppush", "httpsm", "winpoll",
      "winpollids", "wevtutil", "wevtutilend", "kafka"}

Init ==
  /\ SourceInit
  /\ MongoInit /\ SqlInit /\ HttpInit /\ WindowsInit /\ KafkaInit

(* configure() of these saves the watermark that it got.                   *)
Saves == Http \/ Winpoll

(* What the wrapper pulls from; the push mode calls back by itself.        *)
Pulled == kind # "httppush"

Saved == ~Wevtutil /\ CalledBack

Common ==
  /\ \/ Arrive \/ Configured \/ Saved \/ ServeStore(Saves)
     \/ kind # "kafka" /\ Configure
     \/ Pulled /\ Ask
  /\ UNCHANGED familyVars

Mongo == kind = "mongo" /\ MongoStep /\ UNCHANGED <<sqlVars, httpVars, windowsVars, kafkaVars>>
Sql == kind = "sqlserver" /\ SqlStep /\ UNCHANGED <<mongoVars, httpVars, windowsVars, kafkaVars>>
OfHttp == Http /\ HttpStep /\ UNCHANGED <<mongoVars, sqlVars, windowsVars, kafkaVars>>
Windows ==
  /\ Winpoll \/ Wevtutil
  /\ WindowsStep /\ UNCHANGED <<mongoVars, sqlVars, httpVars, kafkaVars>>
Kafka ==
  /\ kind = "kafka"
  /\ KafkaConfigure \/ KafkaStep
  /\ UNCHANGED <<mongoVars, sqlVars, httpVars, windowsVars>>

(* The process ends, after stop() or by a crash.                           *)
Exit ==
  Die /\ MongoReset /\ SqlReset /\ HttpReset /\ WindowsReset /\ KafkaReset

Next == Common \/ Mongo \/ Sql \/ OfHttp \/ Windows \/ Kafka \/ Exit

(***************************************************************************)
(* Fairness: the store answers, a source answers what it is asked, and the *)
(* process takes the steps that it can.  Nothing says that an item comes,  *)
(* or that anybody pauses or resumes.  The steps that only an answer keeps *)
(* waiting, which is handled at once, are taken even if timers bring       *)
(* answers again and again: the event loop forgets none (SF).              *)
(***************************************************************************)
Others(A) == A /\ UNCHANGED familyVars
MongoOnly(A) == kind = "mongo" /\ A /\ UNCHANGED <<sqlVars, httpVars, windowsVars, kafkaVars>>
SqlOnly(A) == kind = "sqlserver" /\ A /\ UNCHANGED <<mongoVars, httpVars, windowsVars, kafkaVars>>
HttpOnly(A) == Http /\ A /\ UNCHANGED <<mongoVars, sqlVars, windowsVars, kafkaVars>>
WindowsOnly(A) == A /\ UNCHANGED <<mongoVars, sqlVars, httpVars, kafkaVars>>
KafkaOnly(A) == A /\ UNCHANGED <<mongoVars, sqlVars, httpVars, windowsVars>>

Fairness ==
  /\ WF_vars(Others(ServeStore(Saves)))
  /\ WF_vars(Others(Configured \/ Saved))
  /\ SF_vars(Others(Pulled /\ Ask))
  /\ WF_vars(MongoOnly(MongoStart \/ \E r \in RefreshIds : CollectionsFetched(r)))
  /\ \A c \in Classes : SF_vars(MongoOnly(FetchData(c)))
  /\ SF_vars(MongoOnly(MongoNext))
  /\ WF_vars(SqlOnly(SqlStart \/ QuerySaved))
  /\ WF_vars(SqlOnly(SqlNext))
  /\ WF_vars(SqlOnly(\E q \in DOMAIN reqs : Row(q) \/ Done(q)))
  /\ WF_vars(SqlOnly(Backlog))
  /\ WF_vars(HttpOnly(StartHttp \/ HttpNext \/ Answers \/ Fetched))
  /\ WF_vars(HttpOnly(PushLoop))
  /\ WF_vars(WindowsOnly(WinpollStart \/ WinpollNext \/ WinpollSaved))
  /\ WF_vars(WindowsOnly(WevtutilStart \/ WevtutilNext \/ WevtutilFetched))
  /\ WF_vars(WindowsOnly(Printed \/ Ends \/ Kill \/ SetupReset \/ EndFetch))
  /\ WF_vars(KafkaOnly(KafkaStart \/ BatchEnds \/ EachBatch))
  /\ WF_vars(KafkaOnly(KafkaNext))
  /\ WF_vars(KafkaOnly(Ival))

Spec == Init /\ [][Next]_vars /\ Fairness
-----------------------------------------------------------------------------
TypeOK ==
  /\ SourceTypeOK /\ MongoTypeOK /\ SqlTypeOK /\ HttpTypeOK /\ WindowsTypeOK
  /\ KafkaTypeOK

InProcess == Range(queue) \cup held \cup Range(out)
KnownItems == given \cup dropped \cup stray \cup InProcess

(* From where the next process goes on.                                    *)
Stored == IF Wevtutil THEN bookmark ELSE IF db = Missing THEN Upto(0) ELSE db

(* No item is passed over: what the stored mark covers, or one that is on  *)
(* its way to the store, or the one in memory, was read by some process.   *)
(* (Not so with winpollids: the class that is behind is skipped; nor with  *)
(* wevtutilend: a kill resets the bookmark to the end of the log; nor for  *)
(* the batches that kafka ignores in a shutdown, while the library counts  *)
(* them as handled.)                                                       *)
NoneSkipped ==
  kind \notin {"winpollids", "wevtutilend"} =>
    \A m \in {Stored, wm} \cup {calls[k].val : k \in DOMAIN calls} :
      Covered(m) \subseteq KnownItems \cup ignored

(* What is lost in a crash was read from the source and in no queue of     *)
(* nsyslog's: mongo never stores a mark of a document that it has not      *)
(* given, whatever is paused, stopped or killed.                           *)
MongoGivesFirst ==
  kind = "mongo" => Covered(Stored) \subseteq given

(* Within one process the entries come once and in the order of the source *)
(* (for mongo, of each collection), except after an error of sqlserver or  *)
(* kafka, or if sqlserver may run several queries at a time, which start   *)
(* from the same row, and where wevtutil was reset.                        *)
Ordered(s) ==
  \A a, b \in DOMAIN s :
    a < b /\ (kind # "mongo" \/ ClassOf[s[a]] = ClassOf[s[b]]) => s[a] < s[b]
InSourceOrder ==
  \/ kind \in {"sqlserver", "kafka"} /\ faults > 0
  \/ kind = "sqlserver" /\ bound.cursors > 1
  \/ Wevtutil /\ faults + pauses > 0
  \/ kind = "winpollids"
  \/ Ordered(own \o queue)

(* An item the source has is given in the end by a process that stays up   *)
(* and is not paused.  Known to stand still are the pull mode of http      *)
(* after an error, and its push mode if there is no `retry`; httpsm;       *)
(* winpoll after a read longer than its queue; and wevtutil once its       *)
(* channel is denied, or its bookmark cannot be made anew.  What kafka     *)
(* ignored in a shutdown is not given either.                              *)
StandsStill ==
  \/ phase # "up" \/ ~active \/ kind \in {"httpsm", "winpollids", "wevtutilend"}
  \/ asked \in {"lost", "stuck"}
  \/ kind = "httppush" /\ ~bound.retry /\ faults > 0
  \/ Wevtutil /\ child \in {"denied", "disabled", "stuck"}
EveryItemGiven ==
  []<>(1..avail \subseteq given \cup dropped \cup stray \cup ignored \/ StandsStill)
=============================================================================
