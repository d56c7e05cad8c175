---------------------------- MODULE Transporters ----------------------------
(***************************************************************************)
(* The transporters, each with the stage that calls it and what it sends   *)
(* to, whose connections fail and come back.                               *)
(***************************************************************************)
EXTENDS QueueTransporters, WebTransporters, DirectTransporters, Reemission

kindVars == <<mongoVars, kafkaVars, httpVars, wsVars, syslogVars, directVars,
              reemitVars>>
vars == <<destVars, kindVars>>

ASSUME KindsAssumption ==
  {w.kind : w \in Worlds} \subseteq
     {"mongo", "kafka", "http", "ws", "stream", "pool",
      "request", "plain", "zmq", "redis", "file", "reemit", "reemits"}

Init ==
  /\ DestinationInit
  /\ MongoInit /\ KafkaInit /\ HttpInit /\ WsInit /\ SyslogInit /\ DirectInit
  /\ ReemitInit

Mongo(A) ==
  /\ bound.kind = "mongo" /\ A
  /\ UNCHANGED <<kafkaVars, httpVars, wsVars, syslogVars, directVars, reemitVars>>
Kafka(A) ==
  /\ bound.kind = "kafka" /\ A
  /\ UNCHANGED <<mongoVars, httpVars, wsVars, syslogVars, directVars, reemitVars>>
Http(A) ==
  /\ bound.kind = "http" /\ A
  /\ UNCHANGED <<mongoVars, kafkaVars, wsVars, syslogVars, directVars, reemitVars>>
Ws(A) ==
  /\ bound.kind = "ws" /\ A
  /\ UNCHANGED <<mongoVars, kafkaVars, httpVars, syslogVars, directVars, reemitVars>>
Syslog(A) ==
  /\ bound.kind \in {"stream", "pool"} /\ A
  /\ UNCHANGED <<mongoVars, kafkaVars, httpVars, wsVars, directVars, reemitVars>>
Direct(A) ==
  /\ bound.kind \in {"plain", "request", "zmq", "redis", "file"} /\ A
  /\ UNCHANGED <<mongoVars, kafkaVars, httpVars, wsVars, syslogVars, reemitVars>>
Reemits(A) ==
  /\ bound.kind \in {"reemit", "reemits"} /\ A
  /\ UNCHANGED <<mongoVars, kafkaVars, httpVars, wsVars, syslogVars, directVars>>

Transport ==
  \/ Mongo(MongoTransport) \/ Kafka(KafkaTransport) \/ Http(HttpTransport)
  \/ Ws(WsTransport) \/ Syslog(SyslogTransport) \/ Direct(DirectTransport)
  \/ Reemits(Reemit)

Works ==
  \/ Mongo(MongoWorks) \/ Kafka(KafkaWorks) \/ Http(HttpWorks)
  \/ Ws(WsWorks) \/ Syslog(SyslogWorks) \/ Direct(DirectWorks)
  \/ Reemits(ReemitWorks)

Faults ==
  \/ Mongo(MongoFaults) \/ Kafka(KafkaFaults) \/ Http(HttpFaults)
  \/ Ws(WsFaults) \/ Syslog(SyslogFaults) \/ Direct(DirectFaults)
  \/ Reemits(ReemitFaults)

(* stop() of the others does nothing that shows here.                      *)
Stops == Mongo(MongoStop) \/ Kafka(KafkaStop) \/ Syslog(SyslogStop)

Next == Transport \/ Works \/ Faults \/ Stops \/ Direct(Purge)

(* Timers fire, the event loop runs what is ready, and what a connection   *)
(* that is up is asked for is done in the end.                             *)
Spec == Init /\ [][Next]_vars /\ WF_vars(Works)
-----------------------------------------------------------------------------
TypeOK ==
  /\ DestinationTypeOK
  /\ MongoTypeOK /\ KafkaTypeOK /\ HttpTypeOK /\ WsTypeOK /\ SyslogTypeOK /\ DirectTypeOK
  /\ ReemitTypeOK

Arrived == UNION {ToSet(arrived[d]) : d \in Dests}

(* What the stage takes for sent was sent: whatever fails, is retried or   *)
(* is stopped in between, an entry is answered without an error only when  *)
(* it has arrived.  (redis answers before it sends.  A reemission calls    *)
(* back whoever is first: somebody else if it has several connections, and *)
(* entries that are lost, or somebody else, after an error.)               *)
AnsweredHasArrived ==
  \/ bound.kind \in {"redis", "reemits"} \/ (bound.kind = "reemit" /\ faults > 0)
  \/ {e \in Entries : answer[e] = "ok"} \subseteq Arrived

(* To one partition, url, connection or file the entries come in the order *)
(* of transport(), looking at the first time each comes.  mongo inserts    *)
(* the last first; messages with a connection or a request each overtake   *)
(* each other; after a purge of files the closed stream and the new one    *)
(* both write; and reemissions that wait for a flow look it up each at its *)
(* own time.                                                               *)
Earliest(s, k) == \A j \in 1..(k - 1) : s[j] # s[k]
InOrder(s) ==
  \A i, j \in DOMAIN s : i < j /\ Earliest(s, i) /\ Earliest(s, j) => s[i] < s[j]
InOrderOfTransport ==
  \/ bound.kind \in {"mongo", "pool", "request"} \/ purged
  \/ (bound.kind \in {"reemit", "reemits"} /\ bound.tries > 0)
  \/ \A d \in Dests : InOrder(arrived[d])

(* Every entry is answered in the end, so the stage gets its slot back,    *)
(* unless the transporter is stopped, or a connection has failed over      *)
(* which others or later entries are reemitted.                            *)
EveryEntryAnswered ==
  <>[](Unanswered = {} \/ stopped \/ (bound.kind \in {"reemit", "reemits"} /\ faults > 0))

=============================================================================
