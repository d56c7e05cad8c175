------------------------- MODULE QueueTransporters --------------------------
(***************************************************************************)
(* lib/transporter/mongo.js: a MongoSimpleTransporter for the url, with a  *)
(* buffer for each collection, which transport() fills at its front, and a *)
(* loop that inserts batches and starts again when all are done.           *)
(***************************************************************************)
EXTENDS Destination

CONSTANTS MongoBatch,  \* config.batch
          MaxPool      \* config.maxPool

VARIABLES trs,      \* every MongoSimpleTransporter ever made
          current,  \* transporters[url]: the one the url has; 0: none
          inserts   \* the calls of insert() that are not done

mongoVars == <<trs, current, inserts>>

MongoTypeOK ==
  /\ trs \in Seq([conn : {"connecting", "up", "lost", "closed"},
                  buffers : [Dests -> Seq(Entries)], loop : {"off", "timer", "inserts"}])
  /\ current \in 0..Len(trs)
  /\ inserts \in Seq([tr : 1..Len(trs), items : Seq(Entries), sem : BOOLEAN,
                      left : Nat, keyed : BOOLEAN])

MongoInit == trs = <<>> /\ current = 0 /\ inserts = <<>>

(* The entry waits at the front of the buffer.                             *)
Buffered(t, e) == trs' = [trs EXCEPT ![t].buffers[To[e]] = <<e>> \o @]

(* transport(): the url has a transporter, or one is made for it, which    *)
(* takes a while.  So several may be made, and the url keeps the last one. *)
MongoTransport ==
  \/ current # 0 /\ Enter("buffered") /\ Buffered(current, sent') /\ UNCHANGED <<current, inserts>>
  \/ current = 0 /\ Enter("creating") /\ UNCHANGED mongoVars

Created(e) ==
  /\ place[e] = "creating" /\ Move({e}, "buffered")
  /\ trs' = Append(trs, [conn |-> "connecting", loop |-> "off",
                  buffers |-> [d \in Dests |-> IF d = To[e] THEN <<e>> ELSE <<>>]])
  /\ current' = Len(trs')
  /\ UNCHANGED inserts

(* connect(), which ends with resume(): the loop starts.                   *)
MongoConnects(t) ==
  /\ trs[t].conn = "connecting"
  /\ trs' = [trs EXCEPT ![t].conn = "up", ![t].loop = "timer"]
  /\ UNCHANGED <<destVars, current, inserts>>

Reconnects(t) ==
  /\ trs[t].conn = "lost"
  /\ trs' = [trs EXCEPT ![t].conn = "up"]
  /\ UNCHANGED <<destVars, current, inserts>>

MongoBreaks(t) ==
  /\ \/ trs[t].conn = "up" /\ trs' = [trs EXCEPT ![t].conn = "lost"]
     \/ trs[t].conn = "connecting" /\ UNCHANGED trs
  /\ Breaks /\ UNCHANGED <<current, inserts>>

(* insertLoop(): the buffer is cut into batches, each with its insert().   *)
Collections == SetToSeq(Dests)
Batches(s) ==
  [k \in 1..(Len(s) + MongoBatch - 1) \div MongoBatch |->
     SubSeq(s, (k - 1) * MongoBatch + 1,
            IF k * MongoBatch < Len(s) THEN k * MongoBatch ELSE Len(s))]
Inserting(t, batch) ==
  [tr |-> t, items |-> batch, sem |-> FALSE, left |-> bound.tries, keyed |-> FALSE]

InsertLoop(t) ==
  LET buffers == trs[t].buffers
      found == UNION {ToSet(buffers[d]) : d \in Dests}
      bs == FlattenSeq([k \in DOMAIN Collections |-> Batches(buffers[Collections[k]])])
  IN /\ trs[t].loop = "timer" /\ found # {}
     /\ trs' = [trs EXCEPT ![t].buffers = [d \in Dests |-> <<>>], ![t].loop = "inserts"]
     /\ inserts' = inserts \o [k \in DOMAIN bs |-> Inserting(t, bs[k])]
     /\ Move(found, "queued")
     /\ UNCHANGED current

(* await this.sem.take(), in the order of the calls.                       *)
Pool(t) == {k \in DOMAIN inserts : inserts[k].tr = t /\ inserts[k].sem}
Waits(t) == {k \in DOMAIN inserts : inserts[k].tr = t /\ ~inserts[k].sem}
InsertTurn(k) ==
  LET t == inserts[k].tr IN
  /\ k \in Waits(t) /\ \A j \in Waits(t) : k <= j
  /\ Cardinality(Pool(t)) < MaxPool
  /\ inserts' = [inserts EXCEPT ![k].sem = TRUE]
  /\ UNCHANGED <<destVars, trs, current>>

(* insert() is done; the loop is when the last one is: it sets its timer,  *)
(* even if stop() has cleared it before.                                   *)
InsertDone(k) ==
  LET t == inserts[k].tr
  IN /\ inserts' = RemoveAt(inserts, k)
     /\ trs' = IF \E j \in DOMAIN inserts : j # k /\ inserts[j].tr = t THEN trs
               ELSE [trs EXCEPT ![t].loop = "timer"]
     /\ UNCHANGED current

(* An insert that forgets to say so when it gives up.                      *)
GivesUpSilently(k, came) ==
  /\ TriedAgain(To[inserts[k].items[1]], inserts[k].items, came)
  /\ InsertDone(k)

GivesUp(k, came) ==
  /\ Refused(To[inserts[k].items[1]], inserts[k].items, came)
  /\ InsertDone(k)

TriesAgain(k, came) ==
  /\ TriedAgain(To[inserts[k].items[1]], inserts[k].items, came)
  /\ inserts' = [inserts EXCEPT ![k].left = @ - 1, ![k].keyed = came > 0]
  /\ UNCHANGED <<trs, current>>

(* insertMany(): it succeeds, ...                                          *)
Inserted(k) ==
  /\ inserts[k].sem /\ trs[inserts[k].tr].conn = "up" /\ ~inserts[k].keyed
  /\ Confirmed(To[inserts[k].items[1]], inserts[k].items)
  /\ InsertDone(k)

(* ... it fails, when some of the documents may be in already, ...         *)
InsertFails(k) ==
  /\ inserts[k].sem /\ ~inserts[k].keyed
  /\ \E came \in 0..Len(inserts[k].items) :
       /\ came = 0 \/ trs[inserts[k].tr].conn = "up"
       /\ IF inserts[k].left <= 1 THEN GivesUp(k, came) ELSE TriesAgain(k, came)

(* ... or their keys are there already: they get new ones.                 *)
DuplicateKey(k) ==
  /\ inserts[k].keyed /\ trs[inserts[k].tr].conn = "up"
  /\ inserts' = [inserts EXCEPT ![k].keyed = FALSE]
  /\ UNCHANGED <<destVars, trs, current>>

(* stop() reaches the transporter that the url has, and no other.          *)
MongoStop ==
  /\ Stop
  /\ trs' = [t \in DOMAIN trs |->
       IF t # current THEN trs[t]
       ELSE [trs[t] EXCEPT !.conn = IF @ = "connecting" THEN @ ELSE "closed",
                           !.loop = IF @ = "timer" THEN "off" ELSE @]]
  /\ UNCHANGED <<current, inserts>>

MongoWorks ==
  \/ \E e \in Entries : Created(e)
  \/ \E t \in DOMAIN trs : MongoConnects(t) \/ Reconnects(t) \/ InsertLoop(t)
  \/ \E k \in DOMAIN inserts : InsertTurn(k) \/ Inserted(k) \/ DuplicateKey(k)
MongoFaults ==
  \/ \E t \in DOMAIN trs : MongoBreaks(t)
  \/ \E k \in DOMAIN inserts : InsertFails(k)

-----------------------------------------------------------------------------

(***************************************************************************)
(* lib/transporter/kafka.js in its mode roundrobin: transport() puts the   *)
(* entries in a queue for each partition, and a loop sends the next of all *)
(* queues and goes on when all are answered.                               *)
(***************************************************************************)

CONSTANTS Partitions,  \* those the topic has, in their order: each a place
          KafkaBatch   \* items of one send: 10

VARIABLES client,  \* connecting, ready, closed
          tmap,    \* where the round robin stands; 0: undefined
          parts,   \* topics[topic]: the queue of each partition
          sends,   \* what loop() sends to each partition, and its retries
          loop     \* off, timer, sending

kafkaVars == <<client, tmap, parts, sends, loop>>

KafkaTypeOK ==
  /\ client \in {"connecting", "ready", "closed"}
  /\ tmap \in 0..Len(Partitions)
  /\ parts \in [Dests -> Seq(Entries)]
  /\ sends \in [Dests -> [items : Seq(Entries), retry : Int]]
  /\ loop \in {"off", "timer", "sending"}

NoSend == [items |-> <<>>, retry |-> 0]

KafkaInit ==
  /\ client = "connecting" /\ tmap = 0 /\ loop = "off"
  /\ parts = [d \in Dests |-> <<>>] /\ sends = [d \in Dests |-> NoSend]

(* transport(): the number of partitions counts as 1 while the client does *)
(* not know the topic.                                                     *)
KafkaTransport ==
  /\ Enter("buffered")
  /\ \E max \in {1, Len(Partitions)} :
       tmap' = IF tmap = 0 THEN 1 ELSE (tmap % max) + 1
  /\ parts' = [parts EXCEPT ![Partitions[tmap']] = Append(@, sent')]
  /\ UNCHANGED <<client, sends, loop>>

(* reconnect(): until it succeeds.                                         *)
KafkaConnects ==
  /\ client = "connecting"
  /\ client' = "ready" /\ loop' = "timer"
  /\ UNCHANGED <<destVars, tmap, parts, sends>>
KafkaBreaks == client = "connecting" /\ Breaks /\ UNCHANGED kafkaVars

(* loop(): it takes the first items of every queue.                        *)
First(s) == SubSeq(s, 1, IF Len(s) < KafkaBatch THEN Len(s) ELSE KafkaBatch)
Sending(d) == sends[d].items # <<>>

Loop ==
  /\ loop = "timer" /\ \E d \in Dests : parts[d] # <<>>
  /\ loop' = "sending"
  /\ sends' = [d \in Dests |-> [items |-> First(parts[d]), retry |-> bound.tries]]
  /\ parts' = [d \in Dests |-> SubSeq(parts[d], Len(First(parts[d])) + 1, Len(parts[d]))]
  /\ Move(UNION {ToSet(First(parts[d])) : d \in Dests}, "sending")
  /\ UNCHANGED <<client, tmap>>

(* The send to d is over; when all are, the loop sets its timer.           *)
SendDone(d) ==
  /\ sends' = [sends EXCEPT ![d] = NoSend]
  /\ loop' = IF \E x \in Dests \ {d} : Sending(x) THEN loop ELSE "timer"
  /\ UNCHANGED <<client, tmap, parts>>

Produced(d) ==
  /\ Sending(d) /\ client = "ready"
  /\ Confirmed(d, sends[d].items) /\ SendDone(d)

(* A loop that puts what failed back into its queue.                       *)
PutBack(d) ==
  /\ Sending(d) /\ TriedAgain(d, sends[d].items, 0)
  /\ parts' = [parts EXCEPT ![d] = @ \o sends[d].items]
  /\ sends' = [sends EXCEPT ![d] = NoSend]
  /\ loop' = IF \E x \in Dests \ {d} : Sending(x) THEN loop ELSE "timer"
  /\ UNCHANGED <<client, tmap>>

(* producer.send() gives an error; the messages may have arrived.          *)
ProduceFails(d) ==
  /\ Sending(d)
  /\ \E came \in {0, Len(sends[d].items)} :
       /\ came = 0 \/ client = "ready"
       /\ IF sends[d].retry <= 1
          THEN Refused(d, sends[d].items, came) /\ SendDone(d)
          ELSE /\ TriedAgain(d, sends[d].items, came)
               /\ sends' = [sends EXCEPT ![d].retry = @ - 1]
               /\ UNCHANGED <<client, tmap, parts, loop>>

(* stop(): a loop that is sending sets its timer again.                    *)
KafkaStop ==
  /\ Stop
  /\ client' = "closed" /\ loop' = IF loop = "timer" THEN "off" ELSE loop
  /\ UNCHANGED <<tmap, parts, sends>>

KafkaWorks == KafkaConnects \/ Loop \/ \E d \in Dests : Produced(d)
KafkaFaults == KafkaBreaks \/ \E d \in Dests : ProduceFails(d)

=============================================================================
