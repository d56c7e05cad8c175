----------------------------- MODULE Reemission -----------------------------
(***************************************************************************)
(* The transporter that sends entries to a flow of another process: it     *)
(* looks the process up in the shared list of flows, connects to it, and   *)
(* writes each entry after its length; the other process answers each with *)
(* one byte, and whoever is first in the one queue is called back.         *)
(* TCP brings the bytes in any pieces.                                     *)
(***************************************************************************)
EXTENDS Destination, FiniteSetsExt

VARIABLES listed,   \* the processes whose flows are in the shared list
          queue,    \* the callbacks, of all connections
          link,     \* by process: the connection, what it has pending
          bytes,    \* on their way to a process: of which entry, which byte
          buff,     \* what the other side has of an unfinished message
          len,      \* the length of that, -1 if it has not read that
          working,  \* entries that the flow there has not taken yet
          codes,    \* answers on their way back
          threw     \* an exception ended the process

reemitVars == <<listed, queue, link, bytes, buff, len, working, codes, threw>>

(* Length of an entry as JSON; its message has two bytes more in front.    *)
Length(e) == 1 + (e % 2)
Bytes(e) == [i \in 1..(Length(e) + 2) |-> <<e, i>>]
Byte == UNION {ToSet(Bytes(e)) : e \in Entries}
Unparsed == 0  \* a message that is not JSON

ReemitTypeOK ==
  /\ listed \subseteq Dests /\ queue \in Seq(Entries)
  /\ link \in [Dests -> [state : {"none", "up", "ended", "broken"}, pending : Nat]]
  /\ bytes \in [Dests -> Seq(Byte)] /\ buff \in [Dests -> Seq(Byte)]
  /\ len \in [Dests -> Int]
  /\ working \in [Dests -> Seq(Entries)]
  /\ codes \in [Dests -> Nat] /\ threw \in BOOLEAN

ReemitInit ==
  /\ listed = IF bound.tries > 0 THEN {} ELSE Dests
  /\ queue = <<>>
  /\ link = [d \in Dests |-> [state |-> "none", pending |-> 0]]
  /\ bytes = [d \in Dests |-> <<>>] /\ buff = [d \in Dests |-> <<>>]
  /\ len = [d \in Dests |-> -1]
  /\ working = [d \in Dests |-> <<>>]
  /\ codes = [d \in Dests |-> 0] /\ threw = FALSE

Target(e) == IF bound.kind = "reemit" THEN To[1] ELSE To[e]

(* client.send(), on a connection that is made if there is none; one that  *)
(* has ended takes everything without an error.                            *)
Pending(d) == link' = [link EXCEPT ![d].state = IF @ = "none" THEN "up" ELSE @,
                                   ![d].pending = @ + 1]
Sends(e) ==
  LET d == Target(e) IN
  /\ Pending(d)
  /\ queue' = Append(queue, e)
  /\ bytes' = IF link[d].state \in {"ended", "broken"} THEN bytes ELSE [bytes EXCEPT ![d] = @ \o Bytes(e)]
  /\ UNCHANGED <<listed, buff, len, working, codes, threw>>

Reemit ==
  /\ ~threw /\ sent < bound.entries
  /\ IF Target(sent + 1) \in listed THEN Enter("sending") /\ Sends(sent + 1)
     ELSE Enter("connecting") /\ UNCHANGED reemitVars

(* Every 100 ms, until a process has the flow.                             *)
LooksAgain(e) ==
  /\ ~threw /\ place[e] = "connecting" /\ Target(e) \in listed
  /\ Move({e}, "sending") /\ Sends(e)
Lists(d) ==
  /\ d \notin listed /\ listed' = listed \cup {d}
  /\ UNCHANGED <<destVars, queue, link, bytes, buff, len, working, codes, threw>>

(* handleServer(): the messages in what came, each of the length n that is *)
(* read before it, and what is left.                                       *)
ReadUInt16BE(b) ==
  IF b[1][2] = 1 /\ b[2] = <<b[1][1], 2>> THEN Length(b[1][1]) ELSE 256
MessageIn(b, n) ==
  LET e == b[3][1] IN
  IF SubSeq(b, 3, n + 2) = SubSeq(Bytes(e), 3, Len(Bytes(e))) THEN e ELSE Unparsed

RECURSIVE Cut(_, _, _)
Cut(b, n, none) ==
  IF Len(b) < n + 2 THEN [msgs |-> <<>>, buff |-> b, len |-> n]
  ELSE LET rest == SubSeq(b, n + 3, Len(b))
           after == IF Len(rest) >= 2 THEN Cut(rest, ReadUInt16BE(rest), none)
                    ELSE [msgs |-> <<>>, buff |-> rest, len |-> IF none THEN -1 ELSE n]
       IN [after EXCEPT !.msgs = <<MessageIn(b, n)>> \o @]
FramesKeepLength(b, n) == Cut(b, n, FALSE)
Frames(b, n) == Cut(b, n, TRUE)

Comes(d, n) ==
  LET data == buff[d] \o SubSeq(bytes[d], 1, n)
      frames == Frames(data, IF len[d] < 0 THEN ReadUInt16BE(data) ELSE len[d])
      entries == SelectSeq(frames.msgs, LAMBDA m : m # Unparsed)
  IN /\ len[d] >= 0 \/ Len(data) >= 2
     /\ bytes' = [bytes EXCEPT ![d] = SubSeq(@, n + 1, Len(@))]
     /\ buff' = [buff EXCEPT ![d] = frames.buff]
     /\ len' = [len EXCEPT ![d] = frames.len]
     /\ working' = [working EXCEPT ![d] = @ \o entries]
     /\ codes' = [codes EXCEPT ![d] = @ + Len(frames.msgs) - Len(entries)]
     /\ Arrives(d, entries)
     /\ UNCHANGED <<bound, sent, place, answer, faults, stopped, listed, queue, link, threw>>

(* The write to the stream of the flow is called back.                     *)
Takes(d) ==
  /\ working[d] # <<>>
  /\ working' = [working EXCEPT ![d] = Tail(@)]
  /\ codes' = [codes EXCEPT ![d] = @ + 1]
  /\ UNCHANGED <<destVars, listed, queue, link, bytes, buff, len, threw>>

CalledBack(n) == SubSeq(queue, 1, Min({n, Len(queue)}))
Responds(d, n) ==
  /\ ~threw
  /\ codes' = [codes EXCEPT ![d] = @ - n]
  /\ link' = [link EXCEPT ![d].pending = @ - 1]
  /\ queue' = SubSeq(queue, Len(CalledBack(n)) + 1, Len(queue))
  /\ Answered(ToSet(CalledBack(n)), "ok")
  /\ threw' = (n > Len(queue))
  /\ UNCHANGED <<bound, sent, arrived, faults, stopped, listed, bytes, buff, len, working>>

(* An error of the connection: as many are called back as it has pending,  *)
(* and one more, whosever they are.                                        *)
Gone(d) ==
  /\ bytes' = [bytes EXCEPT ![d] = <<>>] /\ buff' = [buff EXCEPT ![d] = <<>>]
  /\ working' = [working EXCEPT ![d] = <<>>] /\ codes' = [codes EXCEPT ![d] = 0]
  /\ UNCHANGED <<listed, len>>
LinkBreaks(d) ==
  LET lost == SubSeq(queue, 1, Min({link[d].pending + 1, Len(queue)})) IN
  /\ ~threw /\ link[d].state \in {"up", "ended"} /\ Fault
  /\ link' = [link EXCEPT ![d].state = "broken"]
  /\ queue' = SubSeq(queue, Len(lost) + 1, Len(queue))
  /\ Answered(ToSet(lost), "ok") /\ Gone(d)
  /\ UNCHANGED <<bound, sent, arrived, stopped, threw>>

(* A first piece of one byte ends the other process, which nobody here     *)
(* sees until an error comes.                                              *)
ShortPiece(d) ==
  /\ bytes[d] # <<>> /\ len[d] < 0 /\ buff[d] = <<>>
  /\ Breaks /\ Gone(d) /\ link' = [link EXCEPT ![d].state = "ended"]
  /\ UNCHANGED <<queue, threw>>

(* An entry of more than 65535 bytes: the callback of another is called.   *)
TooLong ==
  /\ ~threw /\ sent < bound.entries /\ Target(sent + 1) \in listed
  /\ Fault /\ Transported /\ Pending(Target(sent'))
  /\ queue' = Tail(Append(queue, sent'))
  /\ LET e == Head(Append(queue, sent')) IN
       /\ place' = [place EXCEPT ![sent'] = "sending", ![e] = "done"]
       /\ answer' = [answer EXCEPT ![e] = "ok"]
  /\ UNCHANGED <<bound, arrived, stopped, listed, bytes, buff, len, working, codes, threw>>

ReemitWorks ==
  \/ \E e \in Entries : LooksAgain(e)
  \/ \E d \in Dests :
       \/ Lists(d) \/ Takes(d)
       \/ \E n \in 1..Len(bytes[d]) : Comes(d, n)
       \/ \E n \in 1..codes[d] : Responds(d, n)
ReemitFaults == TooLong \/ \E d \in Dests : LinkBreaks(d) \/ ShortPiece(d)

(* As long as no connection fails, there is an answer on its way or to     *)
(* come for each callback that waits, and a callback for each answer, over *)
(* all connections and however the pieces fall.                            *)
Coming(d) ==
  Len(SelectSeq(buff[d] \o bytes[d], LAMBDA b : b[2] = 1)) + Len(working[d]) + codes[d]
AnswersInBalance ==
  faults = 0 => Len(queue) = MapThenSumSet(Coming, Dests) /\ ~threw
=============================================================================
