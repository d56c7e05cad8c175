----------------------------- MODULE HttpInputs -----------------------------
(***************************************************************************)
(* Inputs that ask a server and queue its answer: elastic                  *)
(* (lib/input/elastic.js), http in pull and in push mode                   *)
(* (lib/input/http.js) and the state machine httpsm                        *)
(* (lib/input/httpsm.js).                                                  *)
(*                                                                         *)
(* reading = asked while a request is under way.  Who waits for the end    *)
(* of a fetch, its save included, has asked = await; a loop of the push    *)
(* mode is in state fetch.                                                 *)
(***************************************************************************)
EXTENDS InputSource

CONSTANTS Loops,    \* bound: loops of the http input in push mode
          Timeouts  \* emit.timeout of httpsm: at least 0, or -1

(* retry: the setting of that name of the http input is given.             *)
ASSUME HttpAssumption ==
  /\ Timeouts \subseteq {-1, 0} /\ Loops \in Nat \ {0}
  /\ \A w \in Worlds : w.retry \in BOOLEAN

VARIABLES loop,    \* each loop of fnloop: off, fetch, drain, pop, timer
          timer,   \* the loop that set this.timer last
          timeout, \* this.timeout of httpsm
          stray    \* history: entries given to the callback of resume()

httpVars == <<loop, timer, timeout, stray>>

HttpTypeOK ==
  /\ loop \in [1..Loops -> {"off", "fetch", "drain", "pop", "timer"}]
  /\ timer \in 0..Loops /\ timeout \in Timeouts \cup {0}
  /\ stray \subseteq Items

HttpInit ==
  /\ loop = [r \in 1..Loops |-> "off"] /\ timer = 0
  /\ timeout = 0 /\ stray = {}
HttpReset ==
  /\ loop' = [r \in 1..Loops |-> "off"] /\ timer' = 0
  /\ timeout' = 0 /\ UNCHANGED stray

(* fetch(): joins the read that is under way, or asks.                     *)
Fetch == reading' = IF reading = "no" THEN "asked" ELSE reading

(* elastic fetches when it starts, the others when they are asked.         *)
ElasticStart == kind = "elastic" /\ Fetch /\ UNCHANGED loop
HttpStart == kind \in {"http", "httpsm"} /\ UNCHANGED <<reading, loop>>
HttpStartLoop ==
  kind = "httppush" /\ Fetch /\ loop' = [loop EXCEPT ![1] = "fetch"]

StartHttp ==
  /\ phase = "start" /\ answer = "none"
  /\ phase' = "up"
  /\ \/ ElasticStart \/ HttpStart \/ HttpStartLoop
  /\ UNCHANGED <<storeVars, kind, bound, proc, avail, pauseVars, wm, queue, held,
                 asked, answer, faults, histVars, timer, timeout, stray>>

(* next(): the first of the queue, or a fetch and then the same again.     *)
HttpNext ==
  /\ Up /\ asked = "loop" /\ kind \in {"elastic", "http"}
  /\ \/ GiveFirst /\ UNCHANGED reading
     \/ /\ queue = <<>> /\ Fetch /\ asked' = "await"
        /\ UNCHANGED <<queue, histVars>>
  /\ UNCHANGED <<storeVars, avail, lifeVars, pauseVars, wm, held, answer,
                 faults, httpVars>>

(* A mark that is taken from the total the server tells, not from what it  *)
(* sent.                                                                   *)
QueuedTotal(items) ==
  /\ queue' = queue \o items
  /\ wm' = IF items = <<>> THEN wm ELSE Upto(avail)

(* The items of an answer are queued and the last is the mark; who waits   *)
(* for this fetch waits for its save.                                      *)
Queued(items) ==
  /\ queue' = queue \o items
  /\ wm' = IF items = <<>> THEN wm ELSE Upto(Last(items))
Waiter == IF asked = "await" THEN "next" ELSE "fetch"

(* elastic may read again while the mark is saved, http may not.           *)
ElasticAnswers ==
  /\ kind = "elastic" /\ reading = "asked"
  /\ reading' = "no"
  /\ Store(Waiter)
  /\ UNCHANGED asked
HttpAnswers ==
  /\ kind \in {"http", "httppush"} /\ reading = "asked"
  /\ reading' = "saving"
  /\ Store(Waiter)
  /\ UNCHANGED asked

Answers ==
  /\ Up
  /\ Queued(First(InOrder(Beyond(wm)), Batch))
  /\ \/ ElasticAnswers \/ HttpAnswers
  /\ UNCHANGED <<db, avail, lifeVars, pauseVars, held, answer, faults,
                 histVars, httpVars>>

(* An error: elastic goes on as after an answer; http rejects.  Of the pull *)
(* mode next() has nobody who catches it; a loop of the push mode goes on  *)
(* after the time `retry`, and without one it has ended.                   *)
ElasticFails ==
  /\ kind = "elastic" /\ reading' = "no"
  /\ Store(Waiter) /\ UNCHANGED <<db, asked, loop>>
HttpFails ==
  /\ kind \in {"http", "httppush"} /\ reading' = "no" /\ NoStore
  /\ asked' = IF asked = "await" THEN "lost" ELSE asked
  /\ loop' = [r \in 1..Loops |->
                IF loop[r] # "fetch" THEN loop[r]
                ELSE IF bound.retry THEN "timer" ELSE "off"]

Fails ==
  /\ Up /\ reading = "asked" /\ Fault
  /\ UNCHANGED wm
  /\ \/ ElasticFails \/ HttpFails
  /\ IF \E r \in 1..Loops : loop'[r] = "timer" /\ loop[r] = "fetch"
       THEN \E r \in 1..Loops : loop[r] = "fetch" /\ timer' = r
       ELSE UNCHANGED timer
  /\ UNCHANGED <<avail, lifeVars, pauseVars, queue, held, answer, histVars,
                 timeout, stray>>

(* A fetch that does not reset this.fetching.                              *)
FetchedStillReading ==
  /\ answer \in {"fetch", "next"} /\ kind # "httpsm"
  /\ answer' = "none"
  /\ asked' = IF answer = "next" THEN "loop" ELSE asked
  /\ loop' = [r \in 1..Loops |-> IF loop[r] = "fetch" THEN "drain" ELSE loop[r]]
  /\ UNCHANGED <<storeVars, avail, lifeVars, pauseVars, wm, queue, held,
                 reading, faults, histVars, timer, timeout, stray>>

(* The save of a fetch is answered: its promise is resolved.               *)
Fetched ==
  /\ answer \in {"fetch", "next"} /\ kind # "httpsm"
  /\ answer' = "none"
  /\ reading' = IF kind = "elastic" THEN reading ELSE "no"
  /\ asked' = IF answer = "next" THEN "loop" ELSE asked
  /\ loop' = [r \in 1..Loops |-> IF loop[r] = "fetch" THEN "drain" ELSE loop[r]]
  /\ UNCHANGED <<storeVars, avail, lifeVars, pauseVars, wm, queue, held,
                 faults, histVars, timer, timeout, stray>>

(***************************************************************************)
(* http in push mode: start(callback) of the interval                      *)
(***************************************************************************)

(* A loop that sees an item awaits immediate() and then the item.          *)
Sees(r) ==
  /\ loop[r] = "drain" /\ queue # <<>>
  /\ loop' = [loop EXCEPT ![r] = "pop"]
  /\ UNCHANGED <<queue, asked, histVars, timer, reading, stray>>

(* The callback is that of start(), or that of resume().                   *)
Drain(r) ==
  /\ loop[r] = "pop" /\ queue # <<>>
  /\ queue' = Tail(queue)
  /\ IF r = 1 THEN Give(Head(queue)) /\ UNCHANGED stray
     ELSE stray' = stray \cup {Head(queue)} /\ UNCHANGED <<asked, histVars>>
  /\ loop' = [loop EXCEPT ![r] = "drain"]
  /\ UNCHANGED <<timer, reading>>
SetTimer(r) ==
  /\ loop[r] = "drain" /\ queue = <<>>
  /\ loop' = [loop EXCEPT ![r] = "timer"] /\ timer' = r
  /\ UNCHANGED <<queue, asked, histVars, reading, stray>>
LoopAgain(r) ==
  /\ loop[r] = "timer" /\ Fetch
  /\ loop' = [loop EXCEPT ![r] = "fetch"]
  /\ UNCHANGED <<queue, asked, histVars, timer, stray>>

PushLoop ==
  /\ Up
  /\ \E r \in 1..Loops : Sees(r) \/ Drain(r) \/ SetTimer(r) \/ LoopAgain(r)
  /\ UNCHANGED <<storeVars, avail, lifeVars, pauseVars, wm, held, answer,
                 faults, timeout>>

(***************************************************************************)
(* httpsm: a request per state, an entry if the emit clause publishes      *)
(***************************************************************************)

(* next() waits for the timeout, or for ever.                              *)
SmNext ==
  /\ Up /\ kind = "httpsm" /\ asked = "loop"
  /\ \/ timeout >= 0 /\ reading' = "asked" /\ asked' = "await"
     \/ timeout < 0 /\ asked' = "never" /\ UNCHANGED reading
  /\ UNCHANGED <<storeVars, avail, lifeVars, pauseVars, wm, queue, held,
                 answer, faults, histVars, httpVars>>

(* fetch(): what an emit clause stores is saved before its entry is given; *)
(* without a clause that matches nothing is stored but last.               *)
SmAnswers ==
  /\ Up /\ kind = "httpsm" /\ reading = "asked"
  /\ \/ /\ Beyond(wm) # {}
        /\ LET i == Head(InOrder(Beyond(wm))) IN held' = {i} /\ wm' = Upto(i)
        /\ reading' = "publish"
     \/ reading' \in {"silent", "nomatch"} /\ UNCHANGED <<wm, held>>
  /\ Store("next")
  /\ UNCHANGED <<db, avail, lifeVars, pauseVars, queue, asked, answer, faults,
                 histVars, httpVars>>

(* The entry is given; without one the loop goes on; where nothing matched *)
(* the null that fetch() returns makes next() call back with an error.     *)
SmSaved ==
  /\ kind = "httpsm" /\ answer = "next" /\ answer' = "none"
  /\ reading' = "no"
  /\ \/ /\ reading = "publish" /\ timeout' \in Timeouts
        /\ \E i \in held : Give(i)
        /\ held' = {}
     \/ /\ reading = "silent" /\ timeout' \in Timeouts
        /\ asked' = "loop" /\ UNCHANGED <<held, histVars>>
     \/ /\ reading = "nomatch" /\ asked' = "no"
        /\ UNCHANGED <<held, histVars, timeout>>
  /\ UNCHANGED <<storeVars, avail, lifeVars, pauseVars, wm, queue, faults,
                 loop, timer, stray>>

SmFails ==
  /\ Up /\ kind = "httpsm" /\ reading = "asked" /\ Fault
  /\ reading' = "no" /\ asked' = "no"
  /\ UNCHANGED <<storeVars, avail, lifeVars, pauseVars, wm, queue, held,
                 answer, histVars, httpVars>>

(***************************************************************************)
(* pause, resume, stop                                                     *)
(***************************************************************************)

(* http: only the last timer is cleared.                                   *)
HttpClear ==
  loop' = IF timer # 0 /\ loop[timer] = "timer"
          THEN [loop EXCEPT ![timer] = "off"] ELSE loop

ElasticSaves(who) ==
  IF kind = "elastic" THEN Store(who) /\ UNCHANGED db ELSE NoStore

HttpPause ==
  /\ Up /\ active /\ pauses < bound.pauses
  /\ active' = FALSE /\ pauses' = pauses + 1
  /\ UNCHANGED wm /\ ElasticSaves("pause") /\ HttpClear
  /\ UNCHANGED <<avail, lifeVars, queue, held, asked, reading, answer, faults,
                 histVars, timer, timeout, stray>>

(* resume() of http and httpsm is start().                                 *)
HttpResume ==
  /\ MayResume /\ active' = TRUE
  /\ \/ kind \in {"elastic", "http"} /\ UNCHANGED <<loop, reading, timeout>>
     \/ kind = "httpsm" /\ timeout' = 0 /\ UNCHANGED <<loop, reading>>
     \/ /\ kind = "httppush" /\ UNCHANGED timeout
        /\ Fetch
        /\ \E r \in 2..Loops :
             loop[r] = "off" /\ loop' = [loop EXCEPT ![r] = "fetch"]
  /\ UNCHANGED <<storeVars, avail, lifeVars, pauses, wm, queue, held, asked,
                 answer, faults, histVars, timer, stray>>

HttpStop ==
  /\ Up /\ phase' = "stopping"
  /\ UNCHANGED wm /\ ElasticSaves("stop") /\ HttpClear
  /\ UNCHANGED <<kind, bound, proc, avail, pauseVars, queue, held, asked, reading,
                 answer, faults, histVars, timer, timeout, stray>>

HttpStep ==
  \/ StartHttp \/ HttpNext \/ Answers \/ Fails \/ Fetched \/ PushLoop
  \/ SmNext \/ SmAnswers \/ SmSaved \/ SmFails
  \/ HttpPause \/ HttpResume \/ HttpStop
=============================================================================
