--------------------------- MODULE DatabaseInputs ---------------------------
(***************************************************************************)
(* The mongo input (lib/input/mongo.js): a cursor per collection, asked in *)
(* turn; the mark of a collection is the last document given; the marks    *)
(* are saved every two seconds with the list of collections.               *)
(***************************************************************************)
EXTENDS InputSource

CONSTANTS Order,    \* listCollections().toArray() that match: a sequence
          Refreshes \* bound: chains of fetchCollections with their timers

VARIABLES cursor,  \* of each collection: none, query (the promise of
                   \* fetchData), or the documents that are left
          cols,    \* this.cols, rotated by next()
          refresh, \* each chain of fetchCollections: off, saving, timer
          wmival,  \* the chain that set this.wmival last
          connected

mongoVars == <<cursor, cols, refresh, wmival, connected>>

RefreshIds == DOMAIN Refreshes
ASSUME MongoAssumption ==
  /\ Order \in Seq(Classes) /\ Range(Order) = Classes
  /\ Refreshes \in Seq(Callers) /\ Refreshes # <<>>

MongoTypeOK ==
  /\ cols \in Seq(Classes)
  /\ refresh \in [RefreshIds -> {"off", "saving", "timer"}]
  /\ wmival \in RefreshIds \cup {0} /\ connected \in BOOLEAN
  /\ \A c \in Classes : \/ cursor[c].is \in {"none", "query"}
                        \/ cursor[c].is = "open" /\ cursor[c].rest \in Seq(Items)

NoCursor == [is |-> "none", rest |-> <<>>]
Querying == [is |-> "query", rest |-> <<>>]
Opened(docs) == [is |-> "open", rest |-> docs]

MongoInit ==
  /\ cursor = [c \in Classes |-> NoCursor]
  /\ cols = <<>> /\ wmival = 0 /\ connected = FALSE
  /\ refresh = [r \in RefreshIds |-> "off"]

(* The same values again, for the next process.                            *)
MongoReset ==
  /\ cursor' = [c \in Classes |-> NoCursor]
  /\ cols' = <<>> /\ wmival' = 0 /\ connected' = FALSE
  /\ refresh' = [r \in RefreshIds |-> "off"]

(* fetchCollections: the marks are saved; what it deletes are keys of      *)
(* this.wm, not of this.wm.cols, so no mark goes.                          *)
FetchCollections(r) ==
  /\ refresh[r] # "saving"
  /\ refresh' = [refresh EXCEPT ![r] = "saving"]
  /\ Store(Refreshes[r])
  /\ UNCHANGED db

(* start() connects, as often as it needs, without waiting.                *)
MongoStart ==
  /\ phase = "start" /\ answer = "none"
  /\ phase' = "up"
  /\ UNCHANGED wm /\ FetchCollections(1)
  /\ UNCHANGED <<kind, bound, proc, avail, pauseVars, queue, held, asked, reading,
                 answer, faults, histVars, cursor, cols, wmival, connected>>

(* Once the marks are saved the timer is set, whatever happened meanwhile, *)
(* and this.cols is the list as it came.                                   *)
CollectionsFetched(r) ==
  /\ answer = Refreshes[r] /\ refresh[r] = "saving"
  /\ answer' = "none"
  /\ refresh' = [refresh EXCEPT ![r] = "timer"] /\ wmival' = r
  /\ cols' = Order /\ connected' = TRUE
  /\ UNCHANGED <<storeVars, avail, lifeVars, pauseVars, wm, queue, held, asked,
                 reading, faults, histVars, cursor>>

RefreshTimer(r) ==
  /\ phase \in {"up", "stopping"} /\ answer = "none"
  /\ refresh[r] = "timer"
  /\ UNCHANGED wm /\ FetchCollections(r)
  /\ UNCHANGED <<avail, lifeVars, pauseVars, queue, held, asked, reading,
                 answer, faults, histVars, cursor, cols, wmival, connected>>

(* A query that marks its documents as read before they are given.         *)
FetchAndMark(c) ==
  /\ Up /\ cursor[c] = Querying
  /\ LET docs == InOrder({i \in Beyond(wm) : ClassOf[i] = c}) IN
       /\ cursor' = [cursor EXCEPT ![c] = Opened(docs)]
       /\ wm' = IF docs = <<>> THEN wm ELSE [wm EXCEPT ![c] = Last(docs)]
  /\ UNCHANGED <<storeVars, avail, lifeVars, pauseVars, queue, held, asked,
                 reading, answer, faults, histVars, cols, refresh, wmival,
                 connected>>

(* fetchData: the query of a collection is made from its mark.             *)
FetchData(c) ==
  /\ Up /\ cursor[c] = Querying
  /\ cursor' = [cursor EXCEPT ![c] =
       Opened(InOrder({i \in Beyond(wm) : ClassOf[i] = c}))]
  /\ UNCHANGED <<sourceVars, cols, refresh, wmival, connected>>

(* One round of the loop of next(), for the collection whose turn it is.   *)
Turn(c) == cols' = Append(Tail(cols), c)
StartsQuery(c) ==
  /\ cursor[c] = NoCursor
  /\ cursor' = [cursor EXCEPT ![c] = Querying]
  /\ UNCHANGED <<wm, asked, faults, histVars>>
StillQueries(c) ==
  /\ cursor[c] = Querying
  /\ UNCHANGED <<cursor, wm, asked, faults, histVars>>
Exhausted(c) ==
  /\ cursor[c] = Opened(<<>>)
  /\ cursor' = [cursor EXCEPT ![c] = NoCursor]
  /\ UNCHANGED <<wm, asked, faults, histVars>>
NextDocument(c) ==
  /\ cursor[c].rest # <<>>
  /\ cursor' = [cursor EXCEPT ![c].rest = Tail(@)]
  /\ wm' = [wm EXCEPT ![c] = Head(cursor[c].rest)]
  /\ Give(Head(cursor[c].rest))
  /\ UNCHANGED faults
CursorFails(c) ==
  /\ cursor[c].is = "open" /\ Fault
  /\ UNCHANGED <<cursor, wm, asked, histVars>>

MongoNext ==
  /\ Up /\ connected /\ asked = "loop" /\ cols # <<>>
  /\ LET c == Head(cols) IN
       /\ Turn(c)
       /\ \/ StartsQuery(c) \/ StillQueries(c) \/ Exhausted(c)
          \/ NextDocument(c) \/ CursorFails(c)
  /\ UNCHANGED <<storeVars, avail, lifeVars, pauseVars, queue, held, reading,
                 answer, refresh, wmival, connected>>

(* pause(): the last timer is cleared and the marks are saved.             *)
ClearTimer ==
  refresh' = IF wmival # 0 /\ refresh[wmival] = "timer"
             THEN [refresh EXCEPT ![wmival] = "off"] ELSE refresh

MongoPause ==
  /\ Up /\ active /\ pauses < bound.pauses
  /\ active' = FALSE /\ pauses' = pauses + 1
  /\ ClearTimer /\ UNCHANGED wm /\ Store("pause")
  /\ UNCHANGED <<db, avail, lifeVars, queue, held, asked, reading, answer,
                 faults, histVars, cursor, cols, wmival, connected>>

(* resume(): a chain of its own.                                           *)
MongoResume ==
  /\ MayResume
  /\ active' = TRUE
  /\ \E r \in RefreshIds :
       refresh[r] = "off" /\ UNCHANGED wm /\ FetchCollections(r)
  /\ UNCHANGED <<avail, lifeVars, pauses, queue, held, asked, reading, answer,
                 faults, histVars, cursor, cols, wmival, connected>>

(* stop(): as pause(), then the cursors are closed.                        *)
MongoStop ==
  /\ Up /\ phase' = "stopping"
  /\ ClearTimer /\ UNCHANGED wm /\ Store("stop")
  /\ cursor' = [c \in Classes |-> NoCursor]
  /\ UNCHANGED <<db, kind, bound, proc, avail, pauseVars, queue, held, asked, reading,
                 answer, faults, histVars, cols, wmival, connected>>

MongoStep ==
  \/ MongoStart \/ MongoNext \/ MongoPause \/ MongoResume \/ MongoStop
  \/ \E c \in Classes : FetchData(c)
  \/ \E r \in RefreshIds : CollectionsFetched(r) \/ RefreshTimer(r)

-----------------------------------------------------------------------------

(***************************************************************************)
(* The sqlserver input (lib/input/sqlserver.js): rows of a query come by   *)
(* events into a queue; a semaphore is held while a query runs; a timer    *)
(* pauses a query when the queue is long.                                  *)
(***************************************************************************)

CONSTANT MaxBuff \* MAX_BUFF

(* cursors: the capacity of the semaphore, maxCursors of the configuration *)
(* or else one.                                                            *)
ASSUME BuffAssumption ==
  /\ MaxBuff \in Nat \ {0}
  /\ \A w \in Worlds : w.cursors \in Nat \ {0}

VARIABLES sem,  \* taken slots of this.sem; less than 0 after too many leaves
          reqs  \* running queries, oldest first: rows to come, paused

sqlVars == <<sem, reqs>>

Query == [rest : Seq(Items), paused : BOOLEAN]
SqlTypeOK == sem \in (-bound.faults)..bound.cursors /\ reqs \in Seq(Query)

SqlInit == sem = 0 /\ reqs = <<>>
SqlReset == sem' = 0 /\ reqs' = <<>>

Available == sem < bound.cursors

(* start(): next() waits for the connection; the interval is Backlog.      *)
SqlStart ==
  /\ phase = "start" /\ answer = "none"
  /\ phase' = "up"
  /\ UNCHANGED <<storeVars, kind, bound, proc, avail, pauseVars, wm, queue, held,
                 asked, reading, answer, faults, histVars, sqlVars>>

(* fetchData: a query for what is beyond the last row.                     *)
StartQuery ==
  /\ Available
  /\ sem' = sem + 1
  /\ reqs' = Append(reqs, [rest |-> InOrder(Beyond(wm)), paused |-> FALSE])

(* next(): an element of the queue, or a query if a slot is free; else it  *)
(* looks again every 100 milliseconds.                                     *)
SqlNext ==
  /\ Up /\ asked = "loop"
  /\ \/ GiveFirst /\ UNCHANGED sqlVars
     \/ queue = <<>> /\ StartQuery /\ UNCHANGED <<queue, asked, histVars>>
  /\ UNCHANGED <<storeVars, avail, lifeVars, pauseVars, wm, held, reading,
                 answer, faults>>

Row(q) ==
  /\ Up /\ ~reqs[q].paused /\ reqs[q].rest # <<>>
  /\ wm' = Upto(Head(reqs[q].rest))
  /\ queue' = Append(queue, Head(reqs[q].rest))
  /\ reqs' = [reqs EXCEPT ![q].rest = Tail(@)]
  /\ UNCHANGED <<storeVars, avail, lifeVars, pauseVars, held, asked, reading,
                 answer, faults, histVars, sem>>

(* 'done' comes last in any case.                                          *)
Done(q) ==
  /\ Up /\ reqs[q].rest = <<>>
  /\ reqs' = SubSeq(reqs, 1, q - 1) \o SubSeq(reqs, q + 1, Len(reqs))
  /\ UNCHANGED wm /\ Store("done")
  /\ UNCHANGED <<db, avail, lifeVars, pauseVars, queue, held, asked, reading,
                 answer, faults, histVars, sem>>

(* 'error' does the same, and 'done' follows.                              *)
QueryFails(q) ==
  /\ Up /\ Fault
  /\ reqs' = [reqs EXCEPT ![q].rest = <<>>]
  /\ UNCHANGED wm /\ Store("done")
  /\ UNCHANGED <<db, avail, lifeVars, pauseVars, queue, held, asked, reading,
                 answer, histVars, sem>>

(* The slot is left after the save of either.                              *)
QuerySaved ==
  /\ answer = "done" /\ answer' = "none"
  /\ sem' = sem - 1
  /\ UNCHANGED <<storeVars, avail, lifeVars, pauseVars, wm, queue, held, asked,
                 reading, faults, histVars, reqs>>

(* The interval of start(): it acts on the request of the last query.      *)
Backlog ==
  /\ Up /\ reqs # <<>>
  /\ LET q == Len(reqs) IN
       \/ /\ Len(queue) >= MaxBuff /\ ~reqs[q].paused
          /\ reqs' = [reqs EXCEPT ![q].paused = TRUE]
       \/ /\ 2 * Len(queue) < MaxBuff /\ reqs[q].paused
          /\ reqs' = [reqs EXCEPT ![q].paused = FALSE]
  /\ UNCHANGED <<sourceVars, sem>>

(* pause(), resume() and stop() do nothing.                                *)
SqlPause ==
  /\ Up /\ \/ active /\ pauses < bound.pauses /\ pauses' = pauses + 1
           \/ ~active /\ UNCHANGED pauses
  /\ active' = ~active
  /\ UNCHANGED <<storeVars, avail, lifeVars, wm, queue, held, asked, reading,
                 answer, faults, histVars, sqlVars>>
SqlStop ==
  /\ Up /\ phase' = "stopping"
  /\ UNCHANGED <<storeVars, avail, kind, bound, proc, pauseVars, wm, queue, held,
                 asked, reading, answer, faults, histVars, sqlVars>>

SqlStep ==
  \/ SqlStart \/ SqlNext \/ QuerySaved \/ Backlog \/ SqlPause \/ SqlStop
  \/ \E q \in DOMAIN reqs : Row(q) \/ Done(q) \/ QueryFails(q)

=============================================================================
