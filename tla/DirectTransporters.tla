------------------------- MODULE DirectTransporters -------------------------
(***************************************************************************)
(* The transporters that hand each entry on at once: to a request of its   *)
(* own (elastic; http without its array), to a socket (zmq, udp), to       *)
(* redis, whose answer is not awaited, to the console or global value,     *)
(* and to the write stream of a file, where all file transporters share    *)
(* the open files and their purge.                                         *)
(***************************************************************************)
EXTENDS Destination, Semaphore

CONSTANT MaxFiles  \* files that the purge leaves open: MAX_FILES

VARIABLES wire,    \* what a socket or redis has not sent yet, in order
          streams, \* all write streams ever made: path, and what is pending
          files,   \* the stream of each path, or 0
          last,    \* the paths of files by the time of their last write
          purged   \* history: a purge has closed a file

directVars == <<wire, streams, files, last, purged>>

DirectTypeOK ==
  /\ wire \in Seq(Entries)
  /\ streams \in Seq([path : Dests, pending : Seq(Entries)])
  /\ files \in [Dests -> 0..Len(streams)]
  /\ last \in Seq(Dests) /\ ToSet(last) = {d \in Dests : files[d] # 0}
  /\ purged \in BOOLEAN

DirectInit ==
  /\ wire = <<>> /\ streams = <<>> /\ last = <<>>
  /\ files = [d \in Dests |-> 0] /\ purged = FALSE

fileVars == <<streams, files, last, purged>>

(* console, stat, global: done before transport() returns.                 *)
PlainTransport ==
  /\ Transported
  /\ Arrives(To[sent'], <<sent'>>) /\ Answered({sent'}, "ok")
  /\ UNCHANGED <<bound, faults, stopped, directVars>>

(* A request: elastic calls back twice after an error, first with it.      *)
RequestTransport == Enter("sending") /\ UNCHANGED directVars
Indexed(e) ==
  /\ place[e] = "sending" /\ bound.kind = "request"
  /\ Confirmed(To[e], <<e>>) /\ UNCHANGED directVars
IndexFails(e) ==
  /\ place[e] = "sending" /\ bound.kind = "request"
  /\ \E came \in {0, 1} : Refused(To[e], <<e>>, came)
  /\ UNCHANGED directVars

(* zmq calls back when the message is out; redis before.                   *)
SocketTransport ==
  /\ IF bound.kind = "redis" THEN EnterAnswered("ok") ELSE Enter("sending")
  /\ wire' = Append(wire, sent') /\ UNCHANGED fileVars
SocketSends ==
  /\ wire # <<>> /\ wire' = Tail(wire)
  /\ Confirmed(To[Head(wire)], <<Head(wire)>>) /\ UNCHANGED fileVars
RedisLoses ==
  /\ bound.kind = "redis"
  /\ wire # <<>> /\ wire' = Tail(wire) /\ Breaks /\ UNCHANGED fileVars

(* file: the path is opened if it is not open; the line waits in its       *)
(* stream.                                                                 *)
FileTransport ==
  LET path == To[sent + 1] IN
  /\ Enter("sending")
  /\ IF files[path] # 0
     THEN /\ streams' = [streams EXCEPT ![files[path]].pending = Append(@, sent')]
          /\ UNCHANGED <<files, last>>
     ELSE /\ streams' = Append(streams, [path |-> path, pending |-> <<sent'>>])
          /\ files' = [files EXCEPT ![path] = Len(streams')]
          /\ last' = Append(last, path)
  /\ UNCHANGED <<wire, purged>>

(* The first line of a stream is written, or is not.                       *)
Flushed(k) ==
  LET path == streams[k].path IN
  /\ streams' = [streams EXCEPT ![k].pending = Tail(@)]
  /\ last' = IF files[path] = k THEN Append(SelectSeq(last, LAMBDA p : p # path), path) ELSE last
  /\ UNCHANGED <<wire, files, purged>>
FileWritten(k) ==
  /\ streams[k].pending # <<>> /\ Flushed(k)
  /\ Confirmed(streams[k].path, <<Head(streams[k].pending)>>)
WriteError(k) ==
  /\ streams[k].pending # <<>> /\ Flushed(k)
  /\ Refused(streams[k].path, <<Head(streams[k].pending)>>, 0)

(* The purge ends the streams of all but the MaxFiles paths that were      *)
(* written longest ago; what they have pending is written first.           *)
Purge ==
  LET paths == ToSet(SubSeq(last, MaxFiles + 1, Len(last))) IN
  /\ Len(last) > MaxFiles /\ purged' = TRUE
  /\ files' = [d \in Dests |-> IF d \in paths THEN 0 ELSE files[d]]
  /\ last' = SubSeq(last, 1, MaxFiles)
  /\ UNCHANGED <<destVars, wire, streams>>

DirectTransport ==
  CASE bound.kind = "plain" -> PlainTransport
    [] bound.kind = "request" -> RequestTransport
    [] bound.kind \in {"zmq", "redis"} -> SocketTransport
    [] OTHER -> FileTransport
DirectWorks ==
  \/ \E e \in Entries : Indexed(e)
  \/ SocketSends \/ \E k \in DOMAIN streams : FileWritten(k)
DirectFaults ==
  \/ \E e \in Entries : IndexFails(e)
  \/ RedisLoses \/ \E k \in DOMAIN streams : WriteError(k)

-----------------------------------------------------------------------------

(***************************************************************************)
(* lib/transporter/syslog: a TCPClient or TLSClient, as a stream with one  *)
(* connection for all messages, or with one for each.                      *)
(***************************************************************************)

CONSTANT PoolSize  \* connections at the same time: POOL

VARIABLES shared,    \* the connection of the stream: none, connecting, open
          sem,       \* streamSem or poolSem
          own        \* the connection of each message in the other mode

syslogVars == <<shared, sem, own>>

Stream == bound.kind = "stream"
Conns == {"none", "connecting", "open"}

SyslogTypeOK ==
  /\ shared \in Conns
  /\ sem \in SemaphoreOf(Entries)
  /\ own \in [Entries -> Conns]

SyslogInit ==
  /\ shared = "none" /\ own = [e \in Entries |-> "none"]
  /\ sem = Sem(IF bound.kind = "stream" THEN 1 ELSE PoolSize)

(* send(): await the semaphore.  After stop() there is no client: the call *)
(* throws, which the stage takes as an error.                              *)
SyslogTransport ==
  \/ /\ ~stopped
     /\ Enter(IF Available(sem) THEN "connecting" ELSE "mutex")
     /\ sem' = Take(sem, sent')
     /\ UNCHANGED <<shared, own>>
  \/ /\ stopped /\ EnterAnswered("error") /\ UNCHANGED syslogVars

(* newConnection(), of the stream or of a message.                         *)
Connects(e) ==
  /\ place[e] = "connecting"
  /\ IF Stream THEN shared' = "open" /\ UNCHANGED own
     ELSE own' = [own EXCEPT ![e] = "open"] /\ UNCHANGED shared
  /\ Move({e}, "sending") /\ UNCHANGED sem

(* It fails: after RETRY it is tried again.                                *)
ConnectFails(e) ==
  /\ place[e] = "connecting" /\ ~(Stream /\ shared = "open")
  /\ Breaks /\ UNCHANGED syslogVars

(* The semaphore is left, and the next send() goes on.                     *)
Leaves(e) ==
  /\ sem' = Leave(sem)
  /\ place' = [x \in Entries |-> IF x = e THEN "done"
                                 ELSE IF x \in Woken(sem) THEN "connecting" ELSE place[x]]

(* A client that drops the message when its connection breaks.             *)
WrittenIfOpen(e) ==
  /\ place[e] = "sending"
  /\ IF Stream /\ shared # "open" THEN UNCHANGED arrived ELSE Arrives(To[e], <<e>>)
  /\ answer' = [answer EXCEPT ![e] = "ok"]
  /\ own' = [own EXCEPT ![e] = "none"]
  /\ Leaves(e)
  /\ UNCHANGED <<bound, sent, faults, stopped, shared>>

(* The message is written.                                                 *)
Written(e) ==
  /\ place[e] = "sending" /\ (Stream => shared = "open")
  /\ Arrives(To[e], <<e>>)
  /\ answer' = [answer EXCEPT ![e] = "ok"]
  /\ own' = [own EXCEPT ![e] = "none"]
  /\ Leaves(e)
  /\ UNCHANGED <<bound, sent, faults, stopped, shared>>

(* It is not: disconnect(), or destroy(), and send() tries again.          *)
WriteFails(e) ==
  /\ place[e] = "sending"
  /\ \E came \in {0, 1} : Fails(To[e], <<e>>, came)
  /\ place' = [place EXCEPT ![e] = "connecting"] /\ UNCHANGED answer
  /\ shared' = "none" /\ own' = [own EXCEPT ![e] = "none"]
  /\ UNCHANGED sem

(* close, or timeout, of the connection of the stream: a write that is     *)
(* under way fails.                                                        *)
Disconnects ==
  /\ shared = "open" /\ shared' = "none"
  /\ Breaks /\ UNCHANGED <<sem, own>>
WriteDisconnected(e) ==
  /\ place[e] = "sending" /\ Stream /\ shared = "none"
  /\ Move({e}, "connecting") /\ UNCHANGED syslogVars

(* stop(): the connection of the stream is closed.                         *)
SyslogStop ==
  /\ Stop /\ shared' = "none" /\ UNCHANGED <<sem, own>>

SyslogWorks == \E e \in Entries : Connects(e) \/ Written(e) \/ WriteDisconnected(e)
SyslogFaults ==
  \/ Disconnects
  \/ \E e \in Entries : ConnectFails(e) \/ WriteFails(e)

=============================================================================
