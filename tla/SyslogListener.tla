---------------------------- MODULE SyslogListener ----------------------------
(***************************************************************************)
(* The syslog input over tcp and tls and the tcp input: what a connection  *)
(* brings comes in pieces of any size and is cut into messages at line     *)
(* breaks or before priorities ("<34>"); a timer takes what is left of a   *)
(* connection that brought nothing for a while.                            *)
(*                                                                         *)
(* A text is a sequence of characters: "<" and ">", which together make a  *)
(* priority, the break "n", and others.  The buffer of a connection is     *)
(* always the end of what came: what is behind position done.              *)
(***************************************************************************)
EXTENDS Listener

CONSTANT Conns  \* the clients; a world says what text each sends

VARIABLES conn,    \* by client: none, open, destroyed by stop(), closed
          came,    \* how much of the text came
          done,    \* how much of that left the buffer
          quiet,   \* BUFFER_TO has passed since the last piece
          listens, \* the server accepts connections
          timer,   \* startInterval() has run
          entries, \* what was called back with: pieces of texts, in order
          cut,     \* history: the timer took something from the connection
          crashed  \* an error that nobody catches ended the process

syslogVars == <<conn, came, done, quiet, listens, timer, entries, cut, crashed>>

ASSUME TextAssumption ==
  \A w \in Worlds : w.text \in [Conns -> Seq({"<", ">", "n", "b"})]

Text == bound.text

Upto(c) == 0..Len(Text[c])
Piece == UNION {[client : {c}, from : 1..Len(Text[c]), to : 1..Len(Text[c])] : c \in Conns}

SyslogTypeOK ==
  /\ conn \in [Conns -> {"none", "open", "destroyed", "closed"}]
  /\ \A c \in Conns : came[c] \in Upto(c) /\ done[c] \in 0..came[c]
  /\ quiet \in [Conns -> BOOLEAN] /\ cut \in [Conns -> BOOLEAN]
  /\ {listens, timer, crashed} \subseteq BOOLEAN
  /\ entries \in Seq(Piece) /\ \A i \in DOMAIN entries : entries[i].from <= entries[i].to

SyslogInit ==
  /\ conn = [c \in Conns |-> "none"]
  /\ came = [c \in Conns |-> 0] /\ done = [c \in Conns |-> 0]
  /\ quiet = [c \in Conns |-> FALSE] /\ cut = [c \in Conns |-> FALSE]
  /\ listens = FALSE /\ timer = FALSE /\ crashed = FALSE /\ entries = <<>>

Framed == Is({"priority", "tcp"})

(***************************************************************************)
(* Cutting a buffer, which is what lies behind lo and not behind hi        *)
(***************************************************************************)

Span(c, lo, hi) == [client |-> c, from |-> lo, to |-> hi]
Whole(c, lo, hi) == IF lo < hi THEN <<Span(c, lo + 1, hi)>> ELSE <<>>

(* Where a priority begins, and where a line ends.                         *)
Priorities(c, lo, hi) ==
  {p \in (lo + 1)..(hi - 1) : Text[c][p] = "<" /\ Text[c][p + 1] = ">"}
Breaks(c, lo, hi) == {p \in (lo + 1)..hi : Text[c][p] = "n"}

Sorted(S) == SetToSortSeq(S, <)

(* One message from each priority to the next one, or to the end.          *)
Messages(c, marks, end) ==
  LET s == Sorted(marks) IN
  [i \in 1..Len(s) |-> Span(c, s[i], IF i < Len(s) THEN s[i + 1] - 1 ELSE end)]

(* The lines, of which the empty ones are left out.                        *)
Lines(c, lo, breaks) ==
  LET s == Sorted(breaks) IN
  FlattenSeq([i \in 1..Len(s) |-> Whole(c, IF i = 1 THEN lo ELSE s[i - 1], s[i] - 1)])

(* The tcp input makes its entries by a name that is not defined.          *)
CallsBack(c, pieces, left) ==
  IF Is({"tcp"}) /\ pieces # <<>>
  THEN /\ crashed' = TRUE /\ UNCHANGED <<entries, done>>
  ELSE /\ entries' = entries \o pieces /\ done' = [done EXCEPT ![c] = left]
       /\ UNCHANGED crashed

(***************************************************************************)
(* The server                                                              *)
(***************************************************************************)

Tls == bound.tls

(* start(): over tls the server is made when the keys were read.           *)
SyslogStart ==
  /\ Starts(IF Tls THEN "starting" ELSE "up")
  /\ listens' = ~Tls /\ timer' = ~Tls
  /\ UNCHANGED <<conn, came, done, quiet, entries, cut, crashed>>

(* A server without the interval.                                          *)
TlsNoInterval ==
  /\ Tls /\ ~timer /\ phase = "starting" /\ Started /\ listens' = TRUE
  /\ UNCHANGED <<conn, came, done, quiet, timer, entries, cut, crashed>>

(* Whether or not the keys could be read, and whether or not stop() was    *)
(* called in between, which then failed for the lack of a server.          *)
TlsListens ==
  /\ Tls /\ ~timer /\ phase # "off"
  /\ listens' = TRUE /\ timer' = TRUE
  /\ \/ Started
     \/ phase = "stopped" /\ UNCHANGED lifeVars
  /\ UNCHANGED <<conn, came, done, quiet, entries, cut, crashed>>

Connects(c) ==
  /\ listens /\ conn[c] = "none"
  /\ ~(Is({"tcp"}) /\ paused)
  /\ conn' = [conn EXCEPT ![c] = "open"]
  /\ UNCHANGED <<lifeVars, came, done, quiet, listens, timer, entries, cut, crashed>>

(* The last message is taken although more of it may come.                 *)
TakesLastToo(c, n) ==
  LET marks == Priorities(c, done[c], n) IN
  IF marks = {} THEN CallsBack(c, <<>>, done[c])
  ELSE CallsBack(c, Messages(c, marks, n), n)

(* n more characters come in one piece.                                    *)
HandlePriorityData(c, n) ==
  LET marks == Priorities(c, done[c], n)
      all == Messages(c, marks, n)
  IN IF marks = {} THEN CallsBack(c, <<>>, done[c])
     ELSE CallsBack(c, Front(all), Max(marks) - 1)

HandleLinebreakData(c, n) ==
  LET breaks == Breaks(c, done[c], n) IN
  CallsBack(c, Lines(c, done[c], breaks),
            IF breaks = {} THEN done[c] ELSE Max(breaks))

Data(c, n) ==
  /\ conn[c] = "open" /\ n \in (came[c] + 1)..Len(Text[c])
  /\ came' = [came EXCEPT ![c] = n]
  /\ quiet' = [quiet EXCEPT ![c] = FALSE]
  /\ CASE Framed -> HandlePriorityData(c, n)
       [] Is({"linebreak"}) -> HandleLinebreakData(c, n)
       [] OTHER -> CallsBack(c, <<>>, done[c])
  /\ UNCHANGED <<lifeVars, conn, listens, timer, cut>>

(* BUFFER_TO passes, for as many connections as were silent.               *)
Silence(c) ==
  /\ conn[c] = "open" /\ ~quiet[c] /\ done[c] < came[c]
  /\ quiet' = [quiet EXCEPT ![c] = TRUE]
  /\ UNCHANGED <<lifeVars, conn, came, done, listens, timer, entries, cut, crashed>>

(* A timer that empties the buffer and makes no entry.                     *)
FlushForgets(c) ==
  /\ timer /\ conn[c] \in {"open", "destroyed"} /\ quiet[c] /\ done[c] < came[c]
  /\ CallsBack(c, <<>>, came[c])
  /\ cut' = [cut EXCEPT ![c] = TRUE]
  /\ UNCHANGED <<lifeVars, conn, came, quiet, listens, timer>>

(* The interval, for one connection; nothing ever clears that of syslog.   *)
Flush(c) ==
  /\ timer /\ conn[c] \in {"open", "destroyed"} /\ quiet[c] /\ done[c] < came[c]
  /\ CallsBack(c, Whole(c, done[c], came[c]), came[c])
  /\ cut' = [cut EXCEPT ![c] = TRUE]
  /\ UNCHANGED <<lifeVars, conn, came, quiet, listens, timer>>

(* What is left when a connection closes.                                  *)
Remainder(c) ==
  LET marks == Priorities(c, done[c], came[c]) IN
  CASE Framed /\ marks # {} -> Messages(c, marks, came[c])
    [] Is({"tcp"}) -> <<Span(c, done[c], came[c])>>
    [] Is({"priority", "linebreak"}) -> Whole(c, done[c], came[c])
    [] OTHER -> <<>>

Closes(c) ==
  /\ conn' = [conn EXCEPT ![c] = "closed"]
  /\ CallsBack(c, Remainder(c), came[c])
  /\ UNCHANGED <<came, quiet, listens, timer, cut>>

(* The client has sent all and ends, or the connection breaks.             *)
Ends(c) ==
  conn[c] = "open" /\ came[c] = Len(Text[c]) /\ Closes(c) /\ UNCHANGED lifeVars
Interrupted(c) ==
  /\ conn[c] = "open" /\ Fault /\ Closes(c)
  /\ UNCHANGED <<bound, phase, paused, pauses>>
Destroyed(c) == conn[c] = "destroyed" /\ Closes(c) /\ UNCHANGED lifeVars

(* stop() of the tcp input leaves the connections that there are.          *)
SyslogStop ==
  /\ Stops /\ listens' = FALSE
  /\ timer' = (timer /\ ~Is({"tcp"}))
  /\ conn' = IF Is({"tcp"}) THEN conn
             ELSE [c \in Conns |-> IF conn[c] = "open" THEN "destroyed" ELSE conn[c]]
  /\ UNCHANGED <<came, done, quiet, entries, cut, crashed>>

SyslogControl == (Pauses \/ Resumes) /\ UNCHANGED syslogVars

SyslogRuns ==
  \/ TlsListens
  \/ \E c \in Conns : Flush(c) \/ Silence(c) \/ Ends(c) \/ Destroyed(c)
SyslogComes ==
  \E c \in Conns : Connects(c) \/ Interrupted(c) \/ \E n \in Upto(c) : Data(c, n)
SyslogStep ==
  /\ ~crashed
  /\ SyslogStart \/ SyslogRuns \/ SyslogComes \/ SyslogStop \/ SyslogControl
=============================================================================
