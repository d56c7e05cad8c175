----------------------------- MODULE KafkaInput -----------------------------
(***************************************************************************)
(* The kafka input (lib/input/kafkajs.js, the module that                  *)
(* lib/config/inputs.js loads).  It has no watermark of its own: wm is the *)
(* offset that the library holds as resolved, db the one that is committed *)
(* at the broker.  One topic with one partition, read from its beginning.  *)
(***************************************************************************)
EXTENDS InputSource

CONSTANT MaxBuffer \* MAX_BUFFER

ASSUME KafkaAssumption == MaxBuffer \in Nat \ {0}

VARIABLES status,    \* this.status
          consumer,  \* of the library: none, run, paused, batch (the
                     \* heartbeat of eachBatch is awaited), gone
          resumed,   \* the library's resume() or pause() came in a batch
          online,    \* this.connected
          ignored    \* history: messages of batches ignored in a shutdown

kafkaVars == <<status, consumer, resumed, online, ignored>>

KafkaTypeOK ==
  /\ status \in {"active", "paused"} /\ online \in BOOLEAN
  /\ consumer \in {"none", "run", "batch", "gone"}
  /\ resumed \in BOOLEAN /\ ignored \subseteq Items

KafkaInit ==
  /\ status = "active" /\ consumer = "none" /\ resumed = TRUE /\ online = FALSE
  /\ ignored = {}
KafkaReset ==
  /\ status' = "active" /\ consumer' = "none" /\ resumed' = TRUE /\ online' = FALSE
  /\ UNCHANGED ignored

KafkaConfigure ==
  /\ kind = "kafka" /\ phase = "off" /\ proc < bound.starts
  /\ proc' = proc + 1 /\ phase' = "start" /\ own' = <<>>
  /\ UNCHANGED <<storeVars, kind, bound, avail, pauseVars, wm, queue, held, asked,
                 reading, answer, faults, given, dropped, kafkaVars>>

(* start() connects, as often as it needs.  The handlers of the consumer   *)
(* are set after it has connected, so that event is missed.                *)
KafkaStart ==
  /\ phase = "start"
  /\ phase' = "up" /\ consumer' = "run"
  /\ wm' = IF db = Missing THEN Upto(0) ELSE db
  /\ UNCHANGED <<storeVars, kind, bound, proc, avail, pauseVars, queue, held, asked,
                 reading, answer, faults, histVars, status, resumed, online, ignored>>

(* The connection is lost and made again, from the committed offset.       *)
Reconnect ==
  /\ phase = "up" /\ consumer = "run" /\ Fault
  /\ online' = TRUE
  /\ wm' = IF db = Missing THEN Upto(0) ELSE db
  /\ UNCHANGED <<storeVars, avail, lifeVars, pauseVars, queue, held, asked,
                 reading, answer, histVars, status, consumer, resumed, ignored>>

(* eachBatch: the messages are pushed and the last offset is resolved; the *)
(* others are left to the library.                                         *)
EachBatch ==
  /\ phase = "up" /\ consumer = "run" /\ resumed
  /\ LET batch == First(InOrder(Beyond(wm)), Batch) IN
       /\ batch # <<>>
       /\ queue' = queue \o batch
       /\ wm' = Upto(Last(batch))
  /\ consumer' = "batch"
  /\ UNCHANGED <<storeVars, avail, lifeVars, pauseVars, held, asked, reading,
                 answer, faults, histVars, status, resumed, online, ignored>>
BatchEnds ==
  /\ consumer = "batch" /\ consumer' = "run"
  /\ UNCHANGED <<sourceVars, status, resumed, online, ignored>>

(* In a shutdown eachBatch returns at once without its messages, and the   *)
(* library resolves the batch by itself.                                   *)
BatchIgnored ==
  /\ phase = "stopping" /\ consumer = "run" /\ resumed
  /\ LET batch == First(InOrder(Beyond(wm)), Batch) IN
       /\ batch # <<>>
       /\ wm' = Upto(Last(batch))
       /\ ignored' = ignored \cup Range(batch)
  /\ UNCHANGED <<storeVars, avail, lifeVars, pauseVars, queue, held, asked, reading,
                 answer, faults, histVars, status, consumer, resumed, online>>

(* The library commits what is resolved, from time to time.                *)
Commit ==
  /\ consumer \in {"run", "batch"} /\ db # wm
  /\ db' = wm
  /\ UNCHANGED <<calls, avail, lifeVars, pauseVars, wm, queue, held, asked,
                 reading, answer, faults, histVars, kafkaVars>>

(* next(): the first of the queue, as soon as there is one.                *)
KafkaNext ==
  /\ kind = "kafka" /\ phase = "up" /\ asked = "loop" /\ GiveFirst
  /\ UNCHANGED <<storeVars, avail, lifeVars, pauseVars, wm, held, reading,
                 answer, faults, kafkaVars>>

(* The timer of startIval, when it is set: a long queue pauses the         *)
(* consumer, but only where connected is set.                              *)
Ival ==
  /\ phase = "up" /\ active /\ consumer # "none"
  /\ \/ /\ Len(queue) > MaxBuffer /\ status = "active"
        /\ status' = "paused" /\ resumed' = (resumed /\ ~online)
     \/ /\ 5 * Len(queue) < MaxBuffer /\ status = "paused"
        /\ status' = "active" /\ resumed' = (resumed \/ online)
  /\ UNCHANGED <<sourceVars, consumer, online, ignored>>

KafkaPause ==
  /\ kind = "kafka" /\ Up /\ active /\ pauses < bound.pauses
  /\ active' = FALSE /\ pauses' = pauses + 1
  /\ status' = "paused" /\ resumed' = FALSE
  /\ UNCHANGED <<storeVars, avail, lifeVars, wm, queue, held, asked, reading,
                 answer, faults, histVars, consumer, online, ignored>>
KafkaResume ==
  /\ kind = "kafka" /\ MayResume
  /\ active' = TRUE /\ status' = "active" /\ resumed' = TRUE
  /\ UNCHANGED <<storeVars, avail, lifeVars, pauses, wm, queue, held, asked,
                 reading, answer, faults, histVars, consumer, online, ignored>>

(* stop(): a batch under way is waited for, then the consumer disconnects. *)
KafkaStop ==
  /\ kind = "kafka" /\ Up
  /\ phase' = "stopping" /\ status' = "paused"
  /\ UNCHANGED <<storeVars, avail, kind, bound, proc, pauseVars, wm, queue, held,
                 asked, reading, answer, faults, histVars, consumer, resumed,
                 online, ignored>>
Disconnect ==
  /\ kind = "kafka" /\ phase = "stopping" /\ consumer = "run"
  /\ consumer' = "gone" /\ online' = FALSE
  /\ UNCHANGED <<sourceVars, status, resumed, ignored>>

KafkaStep ==
  \/ KafkaStart \/ Reconnect \/ EachBatch \/ BatchEnds \/ BatchIgnored
  \/ Commit \/ KafkaNext \/ Ival
  \/ KafkaPause \/ KafkaResume \/ KafkaStop \/ Disconnect
=============================================================================
