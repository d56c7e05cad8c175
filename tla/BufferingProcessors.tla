------------------------- MODULE BufferingProcessors -------------------------
(***************************************************************************)
(* The processors that keep entries: the filter in its mode "every", which *)
(* aggregates them by key, in memory and in two stores, and puts out what  *)
(* has waited too long; joiner, throttle and array.  The stage of each     *)
(* calls process() for some entries before the first is answered.          *)
(***************************************************************************)
EXTENDS Integers, FiniteSets, SequencesExt, FiniteSetsExt

CONSTANTS MaxGiven,    \* entries given to any processor
          Keys, KeyOf, \* the key of each entry
          Buffers      \* which processor, and its configuration

Given == 1..MaxGiven
Loop == 0  \* loopTTL(), among those that wait for the semaphore

ASSUME BuffersAssumption ==
  /\ MaxGiven \in Nat /\ KeyOf \in [Given -> Keys] /\ IsFiniteSet(Keys)
  /\ \A b \in Buffers : /\ {b.pending, b.max, b.limit} \subseteq Nat
                        /\ {b.first, b.timed, b.stop} \subseteq BOOLEAN

VARIABLES buffering,  \* the member of Buffers
          called,     \* entries that process() got
          answered,   \* by entry: how often its callback was called
          outs,       \* what was put out: the entries in each
          dropped,    \* entries that a joiner forgot
          held, timer,      \* of joiner, throttle and array
          step,             \* of the filter: where process() stands
          sem, evsem,       \* who has each semaphore, and who waits
          buffer, blen,     \* items by key
          store,            \* items in the store
          snapshot,         \* what purgeMemory() is storing
          ttls, ttlstore,   \* keys with a ttl: new ones, stored ones
          loop, ids, live, copies,  \* loopTTL(): its state and its items
          object            \* by entry that waits in updateTTL(): its item

commonVars == <<buffering, called, answered, outs>>
heldVars == <<dropped, held, timer>>
filterVars == <<step, sem, evsem, buffer, blen, store, snapshot, ttls, ttlstore,
                loop, ids, live, copies, object>>
bufferVars == <<commonVars, heldVars, filterVars>>

(* has: what is aggregated in data; entry: the first, 0 if none; ttl: it   *)
(* is among the keys with a ttl.                                           *)
Item == [there : BOOLEAN, has : Seq(Given), first : BOOLEAN, entry : 0..MaxGiven, ttl : BOOLEAN]
Gone == [there |-> FALSE, has |-> <<>>, first |-> FALSE, entry |-> 0, ttl |-> FALSE]
NoItem == [k \in Keys |-> Gone]
Created == [Gone EXCEPT !.there = TRUE, !.first = buffering.first]
Unused == [kind |-> "none", pending |-> 0, max |-> 0, limit |-> 0, first |-> FALSE,
           timed |-> FALSE, stop |-> FALSE]

BufferTypeOK ==
  /\ buffering \in Buffers \cup {Unused} /\ called \in 0..MaxGiven
  /\ answered \in [Given -> Nat] /\ outs \in Seq(Seq(Given))
  /\ dropped \subseteq Given /\ held \in Seq(Given) /\ timer \in BOOLEAN
  /\ step \in [Given -> {"none", "purge", "purging", "every", "getting", "ttl", "done"}]
  /\ sem \in Seq(Given \cup {Loop}) /\ evsem \in Seq(Given)
  /\ {buffer, store, snapshot, copies} \subseteq [Keys -> Item] /\ blen \in Nat
  /\ ttls \cup ttlstore \cup ids \cup live \subseteq Keys
  /\ loop \in {"off", "idle", "waits", "reading", "removing", "removed"}
  /\ object \in [Given -> {"live", "timed", "untimed"}]

TimerStarts(b) == b.kind \in {"throttle", "array"} /\ b.timed
HeldInit(b) == dropped = {} /\ held = <<>> /\ timer = TimerStarts(b)
LoopIdle(b) == IF b.kind = "filter" /\ b.timed THEN "idle" ELSE "off"
FilterInit(b) ==
  /\ step = [e \in Given |-> "none"] /\ sem = <<>> /\ evsem = <<>>
  /\ buffer = NoItem /\ blen = 0 /\ store = NoItem /\ snapshot = NoItem
  /\ ttls = {} /\ ttlstore = {}
  /\ loop = LoopIdle(b) /\ ids = {} /\ live = {} /\ copies = NoItem
  /\ object = [e \in Given |-> "live"]
BufferInit(b) ==
  /\ buffering = b /\ called = 0
  /\ answered = [e \in Given |-> 0] /\ outs = <<>>
  /\ HeldInit(b) /\ FilterInit(b)

Unanswered == {e \in 1..called : answered[e] = 0}
Calls(kind) ==
  /\ buffering.kind = kind /\ called < MaxGiven
  /\ Cardinality(Unanswered) < buffering.pending
  /\ called' = called + 1 /\ UNCHANGED buffering
CallsBack(es) == answered' = [e \in Given |-> IF e \in es THEN answered[e] + 1 ELSE answered[e]]
-----------------------------------------------------------------------------
(* joiner: an entry that matches puts out what was before it; the others   *)
(* start the timer again.  Every call is answered at once.                 *)
ClearsTimer == FALSE
TimerAfterFlush == timer
Joined(e, flush) ==
  IF flush /\ held # <<>>
  THEN outs' = Append(outs, held) /\ held' = <<e>> /\ timer' = TimerAfterFlush /\ UNCHANGED dropped
  ELSE LET all == Append(held, e)
           kept == SubSeq(all, Max({1, Len(all) - buffering.max + 1}), Len(all))
       IN /\ held' = kept /\ timer' = TRUE /\ UNCHANGED outs
          /\ dropped' = dropped \cup (ToSet(all) \ ToSet(kept))
Join ==
  /\ Calls("joiner") /\ CallsBack({called'})
  /\ \E flush \in BOOLEAN : Joined(called', flush)
  /\ UNCHANGED filterVars
JoinerFlushes ==
  /\ buffering.kind = "joiner" /\ timer /\ timer' = FALSE
  /\ outs' = Append(outs, held) /\ held' = <<>>
  /\ UNCHANGED <<buffering, called, answered, dropped, filterVars>>

(* throttle: one at each tick.                                             *)
Throttle ==
  /\ Calls("throttle")
  /\ IF buffering.timed
     THEN held' = Append(held, called') /\ UNCHANGED <<answered, outs>>
     ELSE CallsBack({called'}) /\ outs' = Append(outs, <<called'>>) /\ UNCHANGED held
  /\ UNCHANGED <<timer, dropped, filterVars>>
ThrottleTick ==
  /\ buffering.kind = "throttle" /\ timer /\ held # <<>>
  /\ held' = Tail(held) /\ outs' = Append(outs, <<Head(held)>>) /\ CallsBack({Head(held)})
  /\ UNCHANGED <<buffering, called, timer, dropped, filterVars>>

(* array: max at once, or what is there at each tick.                      *)
ForgetsRest(all) == <<>>
FirstOf(all) == SubSeq(all, 1, Min({buffering.max, Len(all)}))
Rest(all) == SubSeq(all, buffering.max + 1, Len(all))
SendArray(all) ==
  held' = Rest(all) /\ outs' = Append(outs, FirstOf(all)) /\ CallsBack(ToSet(FirstOf(all)))
Collect ==
  /\ Calls("array")
  /\ IF ~buffering.timed /\ Len(held) + 1 >= buffering.max THEN SendArray(Append(held, called'))
     ELSE held' = Append(held, called') /\ UNCHANGED <<answered, outs>>
  /\ UNCHANGED <<timer, dropped, filterVars>>
ArrayTick ==
  /\ buffering.kind = "array" /\ timer /\ held # <<>> /\ SendArray(held)
  /\ UNCHANGED <<buffering, called, timer, dropped, filterVars>>
-----------------------------------------------------------------------------
loopVars == <<ttls, ttlstore, loop, ids, live, copies>>

(* The stores: one write for many items; get() makes what is not there.    *)
SaveAll(db, items) == [k \in Keys |-> IF items[k].there THEN items[k] ELSE db[k]]
RemoveAll(db, ks) == [k \in Keys |-> IF k \in ks THEN Gone ELSE db[k]]
Stored(k) == IF store[k].there THEN store[k] ELSE Created
ReadStream == SUBSET (ttlstore \cup ttls)

(* filter: process() looks for a purge first, with the semaphore.          *)
Filter ==
  /\ Calls("filter")
  /\ step' = [step EXCEPT ![called'] = "purge"] /\ sem' = Append(sem, called')
  /\ UNCHANGED <<answered, outs, heldVars, evsem, buffer, blen, store, snapshot, loopVars, object>>

HasSem(who) == sem # <<>> /\ Head(sem) = who
HasEvsem(e) == evsem # <<>> /\ Head(evsem) = e
PurgesMemory(e) ==
  /\ HasSem(e) /\ step[e] = "purge"
  /\ IF blen > buffering.limit
     THEN /\ snapshot' = buffer /\ step' = [step EXCEPT ![e] = "purging"]
          /\ UNCHANGED <<sem, evsem>>
     ELSE /\ step' = [step EXCEPT ![e] = "every"]
          /\ sem' = Tail(sem) /\ evsem' = Append(evsem, e) /\ UNCHANGED snapshot
  /\ UNCHANGED <<commonVars, heldVars, buffer, blen, store, loopVars, object>>

(* Items of ks leave the buffer, also under who waits with one of them.    *)
Parted(ks) ==
  /\ buffer' = RemoveAll(buffer, ks)
  /\ object' = [e \in Given |->
       IF step[e] = "ttl" /\ KeyOf[e] \in ks /\ object[e] = "live"
       THEN IF buffer[KeyOf[e]].ttl THEN "timed" ELSE "untimed" ELSE object[e]]
Purged(e) ==
  /\ HasSem(e) /\ step[e] = "purging"
  /\ store' = SaveAll(store, snapshot)
  /\ Parted(Keys) /\ blen' = 0
  /\ step' = [step EXCEPT ![e] = "every"]
  /\ sem' = Tail(sem) /\ evsem' = Append(evsem, e)
  /\ UNCHANGED <<commonVars, heldVars, snapshot, loopVars>>

(* The entry is counted in the item; first, or the last of many, puts out. *)
PutOut(item) == [item EXCEPT !.first = FALSE, !.has = <<>>]
Counts(e, item) ==
  LET k == KeyOf[e]
      with == [item EXCEPT !.has = Append(@, e)]
      out == with.first \/ Len(with.has) >= buffering.max
      waits == ~out /\ buffering.timed
  IN /\ buffer' = [buffer EXCEPT ![k] = IF out THEN PutOut(with) ELSE with]
     /\ outs' = IF out THEN Append(outs, with.has) ELSE outs
     /\ step' = [step EXCEPT ![e] = IF waits THEN "ttl" ELSE "done"]
     /\ sem' = IF waits THEN Append(sem, e) ELSE sem
     /\ object' = [object EXCEPT ![e] = "live"]
     /\ IF waits THEN UNCHANGED <<evsem, answered>>
        ELSE evsem' = Tail(evsem) /\ CallsBack({e})
     /\ UNCHANGED <<buffering, called, heldVars, snapshot, loopVars>>

GetsItem(e) ==
  /\ HasEvsem(e) /\ step[e] = "every"
  /\ IF buffer[KeyOf[e]].there THEN Counts(e, buffer[KeyOf[e]]) /\ UNCHANGED <<blen, store>>
     ELSE /\ step' = [step EXCEPT ![e] = "getting"]
          /\ UNCHANGED <<commonVars, heldVars, sem, evsem, buffer, blen, store, snapshot, loopVars, object>>

HasItem(e) ==
  LET k == KeyOf[e] IN
  /\ step[e] = "getting"
  /\ Counts(e, [Stored(k) EXCEPT !.entry = IF @ = 0 THEN e ELSE @])
  /\ store' = [store EXCEPT ![k] = Stored(k)] /\ blen' = blen + 1

UpdatesTTL(e) ==
  LET k == KeyOf[e]
      old == IF object[e] = "live" THEN buffer[k].ttl ELSE object[e] = "timed"
  IN /\ HasSem(e) /\ step[e] = "ttl"
     /\ ttls' = IF old THEN ttls ELSE ttls \cup {k}
     /\ buffer' = IF object[e] = "live" THEN [buffer EXCEPT ![k].ttl = TRUE] ELSE buffer
     /\ step' = [step EXCEPT ![e] = "done"]
     /\ sem' = Tail(sem) /\ evsem' = Tail(evsem) /\ CallsBack({e})
     /\ UNCHANGED <<buffering, called, outs, heldVars, blen, store, snapshot,
                    ttlstore, loop, ids, live, copies, object>>

(* loopTTL(), each second: it saves the new ttls, reads those that are     *)
(* due, and takes their items from the buffer, or a copy from the store.   *)
LoopStarts ==
  /\ loop = "idle" /\ loop' = "waits" /\ sem' = Append(sem, Loop)
  /\ UNCHANGED <<commonVars, heldVars, step, evsem, buffer, blen, store, snapshot,
                 ttls, ttlstore, ids, live, copies, object>>
LoopReads(due) ==
  /\ HasSem(Loop) /\ loop = "waits" /\ loop' = "reading"
  /\ ttlstore' = ttlstore \cup ttls
  /\ due \in ReadStream /\ ids' = due
  /\ live' = {k \in due : buffer[k].there}
  /\ UNCHANGED <<commonVars, heldVars, step, sem, evsem, buffer, blen, store, snapshot,
                 ttls, copies, object>>
LoopGets ==
  /\ loop = "reading" /\ loop' = "removing"
  /\ copies' = [k \in Keys |-> IF k \in ids \ live THEN Stored(k) ELSE Gone]
  /\ store' = [k \in Keys |-> IF k \in ids \ live THEN Stored(k) ELSE store[k]]
  /\ UNCHANGED <<commonVars, heldVars, step, sem, evsem, buffer, blen, snapshot,
                 ttls, ttlstore, ids, live, object>>
LoopRemoves ==
  /\ loop = "removing" /\ loop' = "removed"
  /\ ttlstore' = ttlstore \ ids
  /\ store' = RemoveAll(store, ids)
  /\ UNCHANGED <<commonVars, heldVars, step, sem, evsem, buffer, blen, snapshot,
                 ttls, ids, live, copies, object>>

(* ... and puts them out; an item without an entry throws, and the rest is *)
(* forgotten.                                                              *)
LoopItem(k) == IF k \in live THEN buffer[k] ELSE copies[k]
LoopPutsOut ==
  LET ks == SetToSeq(ids)
      bad == {i \in DOMAIN ks : LoopItem(ks[i]).entry = 0}
      n == IF bad = {} THEN Len(ks) ELSE Min(bad) - 1
  IN /\ loop = "removed" /\ loop' = "idle"
     /\ outs' = outs \o [i \in 1..n |-> LoopItem(ks[i]).has]
     /\ Parted(ids) /\ ttls' = {} /\ sem' = Tail(sem)
     /\ ids' = {} /\ live' = {} /\ copies' = NoItem
     /\ UNCHANGED <<buffering, called, answered, heldVars, step, evsem, blen, store, snapshot,
                    ttlstore>>

(* stop() of throttle ends the ticks, that of the filter its timer, which  *)
(* a loop that runs sets again.                                            *)
StopBuffer ==
  /\ buffering.stop
  /\ IF buffering.kind = "throttle" THEN timer /\ timer' = FALSE /\ UNCHANGED loop
     ELSE loop = "idle" /\ loop' = "off" /\ UNCHANGED timer
  /\ UNCHANGED <<commonVars, dropped, held, step, sem, evsem, buffer, blen, store, snapshot,
                 ttls, ttlstore, ids, live, copies, object>>

Processes(e) ==
  PurgesMemory(e) \/ Purged(e) \/ GetsItem(e) \/ HasItem(e) \/ UpdatesTTL(e)
LoopWorks == LoopStarts \/ LoopGets \/ LoopRemoves \/ LoopPutsOut
BufferNext ==
  \/ Join \/ JoinerFlushes \/ Throttle \/ ThrottleTick \/ Collect \/ ArrayTick
  \/ Filter \/ LoopWorks \/ (\E e \in Given : Processes(e)) \/ \E due \in SUBSET Keys : LoopReads(due)
  \/ StopBuffer

(* Timers fire, stores answer, and what waits is due at some time.         *)
BufferFairness ==
  /\ WF_bufferVars(LoopWorks) /\ \A e \in Given : WF_bufferVars(Processes(e))
  /\ WF_bufferVars(JoinerFlushes \/ ThrottleTick \/ ArrayTick)
  /\ WF_bufferVars(\E due \in SUBSET Keys : LoopReads(due))
  /\ SF_bufferVars(LoopReads(ttlstore \cup ttls))
BuffersSpec ==
  (\E b \in Buffers : BufferInit(b)) /\ [][BufferNext]_bufferVars /\ BufferFairness
-----------------------------------------------------------------------------
(* Every entry is counted in one aggregate, array or text that is put out  *)
(* or kept, and none in two, and those of one key are put out in their     *)
(* order, whatever calls and timers overlap.  (A joiner forgets what is    *)
(* more than max.  A filter that purges its memory while another call or   *)
(* the loop runs may lose entries, count them twice or put them out late.) *)
PurgeMeetsOthers == buffering.limit < MaxGiven /\ (buffering.pending > 1 \/ buffering.timed)
Kept(k) == IF buffer[k].there THEN buffer[k].has ELSE store[k].has
Times(e) ==
  Cardinality({i \in DOMAIN outs : e \in ToSet(outs[i])})
  + Cardinality({k \in Keys : e \in ToSet(Kept(k))})
  + (IF e \in ToSet(held) \cup dropped THEN 1 ELSE 0)
Counted(e) == e <= called /\ step[e] \in {IF buffering.kind = "filter" THEN "ttl" ELSE "none", "done"}
InKeyOrder(s) ==
  \A i, j \in DOMAIN s : \A a \in DOMAIN s[i], b \in DOMAIN s[j] :
    KeyOf[s[i][a]] = KeyOf[s[j][b]] /\ (i < j \/ (i = j /\ a < b)) => s[i][a] < s[j][b]
CountedOnceInOrder ==
  \/ buffering.kind = "filter" /\ PurgeMeetsOthers
  \/ /\ \A e \in Given : Times(e) = IF Counted(e) THEN 1 ELSE 0
     /\ InKeyOrder(outs)

(* With a timer, every entry is put out and its call answered once, unless *)
(* the processor is stopped.                                               *)
Settled(e) ==
  answered[e] = 1 /\ (e \in dropped \/ \E i \in DOMAIN outs : e \in ToSet(outs[i]))
EveryEntryPutOut ==
  \/ (~buffering.timed /\ buffering.kind # "joiner") \/ buffering.stop \/ PurgeMeetsOthers
  \/ []<>(\A e \in 1..called : Settled(e))
=============================================================================
