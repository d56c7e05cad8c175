-------------------------- MODULE WebTransporters ---------------------------
(***************************************************************************)
(* lib/transporter/http.js with its array enabled: transport() puts the    *)
(* entry in a buffer, and trloop(), called by a timer and by a transport() *)
(* that finds max entries in it, sends the buffer with one request to each *)
(* url.  A mutex keeps them apart.                                         *)
(***************************************************************************)
EXTENDS Destination, Semaphore

CONSTANT ArrayMax  \* config.array.max

VARIABLES mutex,    \* asked for by transport() and by trloop()
          holder,   \* who has it
          timer,    \* set, off
          buffer,
          requests, \* what each request that is not answered carries
          batches   \* history: the lengths of the requests

httpVars == <<mutex, holder, timer, buffer, requests, batches>>

(* The calls of trloop(): by the timer, or by the transport() of an entry. *)
ByTimer == 0
LoopOf(e) == -e
HttpLoops == {ByTimer} \cup {LoopOf(e) : e \in Entries}
Holders == Entries \cup HttpLoops

HttpTypeOK ==
  /\ mutex \in SemaphoreOf(Holders) /\ mutex.cur \in {0, 1}
  /\ holder \in {{}} \cup {{h} : h \in Holders}
  /\ timer \in {"set", "off"}
  /\ buffer \in Seq(Entries)
  /\ requests \in [Dests -> Seq(Entries)] /\ batches \subseteq 1..MaxEntries

HttpInit ==
  /\ mutex = Sem(1) /\ holder = {} /\ timer = "set"
  /\ buffer = <<>> /\ requests = [d \in Dests |-> <<>>] /\ batches = {}

(* await this.mutex.take(), with the mutex m and its holder before.        *)
Asks(who, m, before) ==
  /\ mutex' = Take(m, who)
  /\ holder' = IF Available(m) THEN {who} ELSE before

HttpTransport ==
  /\ Enter("mutex") /\ Asks(sent', mutex, holder)
  /\ UNCHANGED <<timer, buffer, requests, batches>>

(* The entry is pushed; a full buffer is sent.                             *)
Pushes(e) ==
  /\ holder = {e} /\ Move({e}, "buffered")
  /\ buffer' = Append(buffer, e)
  /\ LET left == Leave(mutex)
         next == Woken(mutex)
     IN IF Len(buffer') >= ArrayMax THEN Asks(LoopOf(e), left, next)
        ELSE mutex' = left /\ holder' = next
  /\ UNCHANGED <<timer, requests, batches>>

(* The timer calls trloop().  (Of its calls with an empty buffer and a     *)
(* free mutex nothing comes.)                                              *)
TimerFires ==
  /\ timer = "set" /\ (buffer # <<>> \/ holder # {})
  /\ timer' = "off" /\ Asks(ByTimer, mutex, holder)
  /\ UNCHANGED <<destVars, buffer, requests, batches>>

(* trloop(): one request for each url.                                     *)
InFlight == \E d \in Dests : requests[d] # <<>>
ToUrl(d) == SelectSeq(buffer, LAMBDA e : To[e] = d)

Requests ==
  /\ holder \subseteq HttpLoops /\ holder # {}
  /\ ~InFlight /\ \E e \in ToSet(buffer) : place[e] = "buffered"
  /\ requests' = [d \in Dests |-> ToUrl(d)]
  /\ batches' = (batches \cup {Len(ToUrl(d)) : d \in Dests}) \ {0}
  /\ Move(ToSet(buffer), "sending")
  /\ UNCHANGED <<mutex, holder, timer, buffer>>

(* A request is answered, by whatever status, ...                          *)
Accepted(d) ==
  /\ requests[d] # <<>>
  /\ Confirmed(d, requests[d]) /\ requests' = [requests EXCEPT ![d] = <<>>]
  /\ UNCHANGED <<mutex, holder, timer, buffer, batches>>

(* ... or fails.                                                           *)
RequestFails(d) ==
  /\ requests[d] # <<>>
  /\ \E came \in {0, Len(requests[d])} : Refused(d, requests[d], came)
  /\ requests' = [requests EXCEPT ![d] = <<>>]
  /\ UNCHANGED <<mutex, holder, timer, buffer, batches>>

(* All are: the buffer is emptied.                                         *)
LoopDone ==
  /\ holder \subseteq HttpLoops /\ holder # {} /\ ~InFlight
  /\ \A e \in ToSet(buffer) : place[e] # "buffered"
  /\ buffer' = <<>> /\ mutex' = Leave(mutex) /\ holder' = Woken(mutex)
  /\ timer' = IF holder = {ByTimer} THEN "set" ELSE timer
  /\ UNCHANGED <<destVars, requests, batches>>

HttpWorks ==
  \/ \E e \in Entries : Pushes(e)
  \/ TimerFires \/ Requests \/ LoopDone
  \/ \E d \in Dests : Accepted(d)
HttpFaults == \E d \in Dests : RequestFails(d)

-----------------------------------------------------------------------------

(***************************************************************************)
(* lib/transporter/websocket.js, with its connection to one url, which is  *)
(* made by the first entry and made again by a timer when it closes.       *)
(***************************************************************************)

CONSTANT MaxRetries  \* config.reconnect.maxRetries

VARIABLES socket,   \* none, connecting, open, closed: connections.get(url)
          retryCount, \* its retryCount
          retryTimer \* the timer of scheduleReconnection() is set

wsVars == <<socket, retryCount, retryTimer>>

WsTypeOK ==
  /\ socket \in {"none", "connecting", "open", "closed"}
  /\ retryCount \in 0..MaxRetries /\ retryTimer \in BOOLEAN

WsInit ==
  /\ socket = "none" /\ retryCount = 0 /\ retryTimer = FALSE

(* transport(): getConnection() makes the connection, or finds it open, or *)
(* finds none that can be used.                                            *)
WsTransport ==
  \/ /\ socket = "none" /\ Enter("connecting")
     /\ socket' = "connecting" /\ retryCount' = 0
     /\ UNCHANGED retryTimer
  \/ /\ socket = "open" /\ Enter("sending") /\ UNCHANGED wsVars
  \/ /\ socket \in {"connecting", "closed"} /\ EnterAnswered("error") /\ UNCHANGED wsVars

(* The event open: who asked for the connection sends.                     *)
Opens ==
  /\ socket = "connecting" /\ socket' = "open"
  /\ retryCount' = 0 /\ retryTimer' = FALSE
  /\ Move(At("connecting"), "sending")

(* The event close: the reconnection is scheduled, or given up.            *)
Closes ==
  IF retryCount < MaxRetries
  THEN /\ socket' = "closed" /\ retryCount' = retryCount + 1 /\ retryTimer' = TRUE
  ELSE socket' = "none" /\ UNCHANGED <<retryCount, retryTimer>>

(* Closed before it was open: who asked for it gets the error.             *)
OpenFails ==
  /\ socket = "connecting" /\ Closes
  /\ Fault /\ Answered(At("connecting"), "error")
  /\ UNCHANGED <<bound, sent, arrived, stopped>>

WsCloses ==
  /\ socket = "open" /\ Closes /\ Breaks

(* The timer: a connection of its own, with its own retryCount.            *)
Retries ==
  /\ retryTimer /\ retryTimer' = FALSE
  /\ socket' = "connecting" /\ retryCount' = 0
  /\ UNCHANGED destVars

WsSent(e) ==
  /\ place[e] = "sending" /\ socket = "open"
  /\ \A x \in At("sending") : e <= x
  /\ Confirmed(To[e], <<e>>) /\ UNCHANGED wsVars

(* What is being sent when the socket closes: the callback gets the error. *)
WsNotSent(e) ==
  /\ place[e] = "sending" /\ socket # "open"
  /\ Answered({e}, "error")
  /\ UNCHANGED <<bound, sent, arrived, faults, stopped, wsVars>>

WsWorks ==
  \/ Opens \/ Retries
  \/ \E e \in Entries : WsSent(e) \/ WsNotSent(e)
WsFaults == OpenFails \/ WsCloses

=============================================================================
