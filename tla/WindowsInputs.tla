---------------------------- MODULE WindowsInputs ----------------------------
(***************************************************************************)
(* The inputs for Windows events: winpoll, which calls the library         *)
(* nwinread (lib/input/windows/windows-poll.js), and wevtutil, which runs  *)
(* a program of that name (lib/input/windows_legacy/).                     *)
(*                                                                         *)
(* The mark of wevtutil is a bookmark file; the program writes it when it  *)
(* ends by itself, not when it is killed.                                  *)
(*                                                                         *)
(* Of winpoll there is a second kind, winpollids, where the id filter is   *)
(* longer than MAX_ID_FILTER and is asked for in one batch per class; of   *)
(* wevtutil there is wevtutilend, with the offset at the end of the log.   *)
(***************************************************************************)
EXTENDS InputSource

CONSTANT ReadSize \* batchsize of winpoll

ASSUME WindowsAssumption == ReadSize \in Nat \ {0}

Winpoll == kind \in {"winpoll", "winpollids"}
Wevtutil == kind \in {"wevtutil", "wevtutilend"}

VARIABLES bookmark, \* the file, as a mark; it survives the process
          child,    \* the program: none, run, killed, closed, denied (its end
                    \* is to be handled), disabled (and no other is run), or
                    \* stuck (its end was never handled to the end)
          out       \* what the program has to print

windowsVars == <<bookmark, child, out>>

WindowsTypeOK ==
  /\ bookmark \in Marks
  /\ child \in {"none", "run", "closed", "killed", "denied", "disabled", "stuck"}
  /\ out \in Seq(Items)

WindowsInit == bookmark = Upto(0) /\ child = "none" /\ out = <<>>
WindowsReset == UNCHANGED bookmark /\ child' = "none" /\ out' = <<>>

(***************************************************************************)
(* winpoll                                                                 *)
(***************************************************************************)

(* readEvents of nwinread: the first n of the class beyond the mark, and   *)
(* the number of the last of them.                                         *)
ReadEvents(c, n) ==
  First(InOrder({i \in Beyond(wm) : ClassOf[i] = c}), n)

Groups == {c \in Classes : c \in Range(ClassOf)}
CeilDiv(a, b) == (a + b - 1) \div b

(* read() with one batch per class: every batch is read from the same      *)
(* offset, and the new offset is the largest of the last numbers.          *)
BySplit ==
  LET n == CeilDiv(ReadSize, Cardinality(Groups))
      parts == [c \in Groups |-> ReadEvents(c, n)] IN
  FoldSet(LAMBDA c, r : r \o parts[c], <<>>, Groups)
ReadAll == First(InOrder(Beyond(wm)), ReadSize)

WinpollStart ==
  /\ Winpoll /\ phase = "start" /\ answer = "none"
  /\ phase' = "up"
  /\ UNCHANGED <<storeVars, kind, bound, proc, avail, pauseVars, wm, queue, held,
                 asked, reading, answer, faults, histVars, windowsVars>>

MaxId(s) == CHOOSE i \in Range(s) : \A j \in Range(s) : j <= i

(* read(): what was read is pushed, the mark is moved and saved; nobody    *)
(* pops meanwhile, so a push beyond the limit of the queue never ends.     *)
WinpollRead(events) ==
  /\ queue' = First(events, 2 * ReadSize)
  /\ \/ /\ Len(events) <= 2 * ReadSize
        /\ wm' = IF events = <<>> THEN wm ELSE Upto(MaxId(events))
        /\ asked' = "await" /\ Store("next") /\ UNCHANGED <<db, held>>
     \/ /\ Len(events) > 2 * ReadSize
        /\ held' = Range(events) \ Range(queue')
        /\ asked' = "stuck" /\ NoStore /\ UNCHANGED wm

WinpollNext ==
  /\ Up /\ Winpoll /\ asked = "loop"
  /\ \/ GiveFirst /\ UNCHANGED <<storeVars, wm, held, faults>>
     \/ /\ queue = <<>> /\ WinpollRead(IF kind = "winpollids" THEN BySplit ELSE ReadAll)
        /\ UNCHANGED <<faults, histVars>>
     \/ /\ queue = <<>> /\ Fault /\ asked' = "no"
        /\ UNCHANGED <<storeVars, wm, held, queue, histVars>>
  /\ UNCHANGED <<avail, lifeVars, pauseVars, reading, answer, windowsVars>>

WinpollSaved ==
  /\ Winpoll /\ answer = "next" /\ answer' = "none"
  /\ asked' = "loop"
  /\ UNCHANGED <<storeVars, avail, lifeVars, pauseVars, wm, queue, held,
                 reading, faults, histVars, windowsVars>>

(***************************************************************************)
(* wevtutil                                                                *)
(***************************************************************************)

(* fetch(): the program reads a batch from the bookmark.                   *)
Launch(as) ==
  /\ reading' = as /\ child' = "run"
  /\ out' = First(InOrder(Beyond(bookmark)), Batch)
  /\ UNCHANGED bookmark

FetchEvents == IF reading = "no" THEN Launch("asked") ELSE UNCHANGED <<reading, windowsVars>>

(* start(): the first fetch, which is waited for.                          *)
WevtutilStart ==
  /\ Wevtutil /\ phase = "start" /\ answer = "none"
  /\ phase' = "up"
  /\ Launch("first")
  /\ UNCHANGED <<storeVars, kind, bound, proc, avail, pauseVars, wm, queue, held,
                 asked, answer, faults, histVars>>

(* next(): once `disabled` is set it calls back with nothing.              *)
Disabled == child \in {"denied", "disabled"}

WevtutilNext ==
  /\ Up /\ Wevtutil /\ asked = "loop"
  /\ \/ ~Disabled /\ GiveFirst /\ UNCHANGED <<reading, windowsVars>>
     \/ /\ ~Disabled /\ queue = <<>> /\ FetchEvents /\ asked' = "await"
        /\ UNCHANGED <<queue, histVars>>
     \/ /\ Disabled /\ asked' = "no"
        /\ UNCHANGED <<queue, histVars, reading, windowsVars>>
  /\ UNCHANGED <<storeVars, avail, lifeVars, pauseVars, wm, held, answer,
                 faults>>

(* An event that is printed is queued.                                     *)
Printed ==
  /\ Up /\ child = "run" /\ out # <<>>
  /\ queue' = Append(queue, Head(out)) /\ out' = Tail(out)
  /\ UNCHANGED <<storeVars, avail, lifeVars, pauseVars, wm, held, asked,
                 reading, answer, faults, histVars, bookmark, child>>

(* It ends by itself, with its bookmark written, or with an error.         *)
Ends ==
  /\ Up /\ child = "run" /\ out = <<>>
  /\ bookmark' = LET new == Range(queue) \cup Range(own) IN
                 IF \E i \in new : i \in Beyond(bookmark)
                 THEN Upto(CHOOSE i \in new : \A j \in new : j <= i)
                 ELSE bookmark
  /\ child' = "closed"
  /\ UNCHANGED <<sourceVars, out>>

(* The codes 15007 and 5 say that the channel is not to be had.            *)
EndsBadly ==
  /\ Up /\ child = "run" /\ Fault
  /\ child' \in {"killed", "denied"} /\ out' = <<>>
  /\ UNCHANGED <<storeVars, avail, lifeVars, pauseVars, wm, queue, held, asked,
                 reading, answer, histVars, bookmark>>

(* 'close' with another code that is not zero, which a kill gives too: the *)
(* bookmark is made anew, at the configured offset.  When that fails the   *)
(* promise of the fetch is never settled.                                  *)
SetupReset ==
  /\ phase \in {"up", "stopping"} /\ child = "killed"
  /\ bookmark' = IF kind = "wevtutilend" THEN Upto(avail) ELSE Upto(0)
  /\ child' = "closed"
  /\ UNCHANGED <<sourceVars, out>>
SetupFails ==
  /\ phase \in {"up", "stopping"} /\ child = "killed" /\ Fault
  /\ bookmark' = Upto(0) /\ child' = "stuck"
  /\ UNCHANGED <<storeVars, avail, lifeVars, pauseVars, wm, queue, held, asked,
                 reading, answer, histVars, out>>

(* endFetch(): the mark that is saved names the file.                      *)
EndFetch ==
  /\ Up /\ child \in {"closed", "denied"}
  /\ child' = (IF child = "denied" THEN "disabled" ELSE "none") /\ reading' = "no"
  /\ UNCHANGED wm /\ Store(IF asked = "await" THEN "next" ELSE "fetch")
  /\ UNCHANGED <<db, avail, lifeVars, pauseVars, queue, held, asked, answer,
                 faults, histVars, bookmark, out>>

(* Without an event next() calls back with a timer.                        *)
WevtutilFetched ==
  /\ Wevtutil /\ answer \in {"next", "fetch"} /\ answer' = "none"
  /\ asked' = IF answer = "fetch" THEN asked
              ELSE IF queue = <<>> THEN "no" ELSE "loop"
  /\ UNCHANGED <<storeVars, avail, lifeVars, pauseVars, wm, queue, held,
                 reading, faults, histVars, windowsVars>>

(* pause() and stop() save, and then kill the program if it runs.          *)
WevtutilSaves(who) ==
  IF Wevtutil THEN Store(who) /\ UNCHANGED db ELSE NoStore

Kill ==
  /\ Wevtutil /\ answer \in {"pause", "stop"} /\ answer' = "none"
  /\ IF child = "run" THEN child' = "killed" /\ out' = <<>>
     ELSE UNCHANGED <<child, out>>
  /\ UNCHANGED <<storeVars, avail, lifeVars, pauseVars, wm, queue, held, asked,
                 reading, faults, histVars, bookmark>>

WindowsPause ==
  /\ Up /\ active /\ pauses < bound.pauses
  /\ active' = FALSE /\ pauses' = pauses + 1
  /\ UNCHANGED wm /\ WevtutilSaves("pause")
  /\ UNCHANGED <<avail, lifeVars, queue, held, asked, reading, answer, faults,
                 histVars, windowsVars>>
WindowsResume ==
  /\ MayResume /\ active' = TRUE
  /\ UNCHANGED <<storeVars, avail, lifeVars, pauses, wm, queue, held, asked,
                 reading, answer, faults, histVars, windowsVars>>
WindowsStop ==
  /\ Up /\ phase' = "stopping"
  /\ UNCHANGED wm /\ WevtutilSaves("stop")
  /\ UNCHANGED <<kind, bound, proc, avail, pauseVars, queue, held, asked, reading,
                 answer, faults, histVars, windowsVars>>

WindowsStep ==
  \/ WinpollStart \/ WinpollNext \/ WinpollSaved
  \/ WevtutilStart \/ WevtutilNext \/ Printed \/ Ends \/ EndsBadly
  \/ SetupReset \/ SetupFails \/ EndFetch \/ WevtutilFetched
  \/ Kill \/ WindowsPause \/ WindowsResume \/ WindowsStop
=============================================================================
