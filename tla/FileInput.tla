------------------------------ MODULE FileInput ------------------------------
(***************************************************************************)
(* The file input (lib/input/file/index.js) with the File objects and the  *)
(* monitor of filesystem.js: it follows the files of a directory, cuts     *)
(* what is appended to them into lines, hands one line to each next(), and *)
(* remembers how far it read in a watermark that survives the process.     *)
(*                                                                         *)
(* Bytes are abstracted to units numbered in the order they were written;  *)
(* `ends` holds the units with which a line ends.  A file is an inode,     *)
(* reached through its path as long as the path is linked to it.           *)
(*                                                                         *)
(* Every call that awaits is a task: the read of a file by readlines(),    *)
(* the openFile() the monitor asks for, the close of a file by stop(),     *)
(* each at most once per path: the input wrapper waits five seconds after  *)
(* an error, and what a failed readlines() left running is over by then.   *)
(***************************************************************************)
EXTENDS Semaphore, FiniteSets, SequencesExt

CONSTANTS Files,        \* the paths that may exist
          BlockSize,    \* config.blocksize, in units
          ReadMode,     \* config.readmode: "offset" or "watermark"
          StartAt,      \* config.offset: "start" or "end"
          Worlds,       \* what may happen around the input: a set of sets
          MaxUnits,     \* bound: units appended to a file that only grows
          MaxUnitsMany, \* bound: units appended in the other worlds
          MaxInodes,    \* bound: files created
          MaxRuns,      \* bound: processes that run the input, in turn
          StableEvents  \* a change is announced when awaitWriteFinish is over

Happening == {"many", "create", "delete", "truncate", "save", "crash", "stop"}

ASSUME ConfigAssumption ==
  /\ BlockSize \in Nat \ {0} /\ ReadMode \in {"offset", "watermark"}
  /\ StartAt \in {"start", "end"} /\ StableEvents \in BOOLEAN
ASSUME WorldAssumption ==
  /\ Worlds \subseteq SUBSET Happening
  /\ IsFiniteSet(Files) /\ Files # {} /\ Cardinality(Files) <= MaxInodes
  /\ MaxUnits \in Nat /\ MaxUnitsMany \in 0..MaxUnits
  /\ MaxInodes \in Nat /\ MaxRuns \in Nat \ {0}

Units == 1..MaxUnits
FirstFile == CHOOSE p \in Files : TRUE
Inodes == 1..MaxInodes
Tasks == {"read", "open", "close"} \X Files
Saver == <<"save", "all">>
Stopper == <<"stop", "all">>

VARIABLES
  world,    \* what may happen in this behaviour
  data,     \* what each inode holds, as a sequence of units
  written,  \* how many units were written: 1..written
  ends,     \* those that end a line
  link,     \* the inode of each path, 0 when there is none
  events,   \* file events the monitor has not been told of yet
  file,     \* this.files: the File object of each path
  old,      \* the object a read still works on after it left this.files
  lines,    \* file.lines of each path: one array, shared with its mark
  toRead,   \* this.list.read
  avail,    \* this.list.avail
  wm,       \* this.wm: the mark of each path
  db,       \* the marks and the lines as they were last saved
  sem,      \* this.sem
  task,     \* the calls under way
  reader,   \* the call of next(): "idle", "waiting", "lost" if never answered
  asked,    \* the reads the pending next() waits for
  saver,    \* save()
  stopping, \* stop()
  run,      \* which process this is
  out,      \* history: the lines of each inode this process delivered
  seen,     \* history: the units of all the lines ever delivered
  spoiled   \* history: inodes that were deleted or truncated

(* The paths this behaviour is about.                                      *)
Paths == IF "many" \in world THEN Files ELSE {FirstFile}

disk == <<data, written, ends, link>>
memory == <<file, old, lines>>
listVars == <<toRead, avail>>
marks == <<wm, db>>
calls == <<reader, asked, saver, stopping, run>>
history == <<out, seen, spoiled>>
fileVars == <<world, disk, events, memory, listVars, marks, sem, task, calls, history>>

Mark == [offset : {-1} \union Nat, tail : Seq(Units), line : Nat]
Line == [ln : Nat \ {0}, text : Seq(Units)]
NoMark == [offset |-> -1, tail |-> <<>>, line |-> 0]
NoFile == [ino |-> 0, fd |-> "none", offset |-> 0, tail |-> <<>>, line |-> 0,
           held |-> Sem(1)]
Free == [pc |-> "free", obj |-> "new"]

(* A File: fd is "none" before the open and after a close, and "shut" when *)
(* a descriptor that is still written there has been closed.               *)
FileObject ==
  [ino : {0} \union Inodes, fd : {"none", "open", "shut"}, offset : Nat,
   tail : Seq(Units), line : Nat, held : SemaphoreOf(Tasks)]

FileTypeOK ==
  /\ world \in Worlds
  /\ data \in [Inodes -> Seq(Units)]
  /\ written \in 0..MaxUnits /\ ends \in SUBSET (1..written)
  /\ link \in [Files -> {0} \union Inodes]
  /\ events \in SUBSET ({"add", "change", "unlink"} \X Files)
  /\ file \in [Files -> FileObject] /\ old \in [Files -> FileObject]
  /\ lines \in [Files -> Seq(Line)]
  /\ toRead \in SUBSET Files /\ avail \in SUBSET Files
  /\ wm \in [Files -> Mark] /\ db \in [Files -> [mark : Mark, lines : Seq(Line)]]
  /\ sem \in SemaphoreOf(Tasks \union {Saver, Stopper}) /\ sem.cur \in 0..1
  /\ task \in [Tasks -> [pc : {"free", "ask", "queued", "granted", "opening",
                                "opened", "waiting", "locked", "reading",
                                "stat", "closing"}, obj : {"new", "old"}]]
  /\ reader \in {"idle", "waiting", "lost"} /\ asked \in SUBSET Tasks
  /\ saver \in {"idle", "queued", "granted"}
  /\ stopping \in {"no", "queued", "granted", "files", "save", "saving", "done"}
  /\ run \in 1..MaxRuns

(* The paths are linked to an inode each.                                  *)
Directory(paths) ==
  {l \in [Files -> 0..Cardinality(paths)] :
     /\ \A p \in Files : l[p] # 0 <=> p \in paths
     /\ \A p, q \in paths : l[p] = l[q] => p = q}

(* The process starts in a directory of one or of many empty files.        *)
FileInit ==
  /\ world \in Worlds
  /\ data = [i \in Inodes |-> <<>>] /\ written = 0 /\ ends = {}
  /\ link \in Directory(Paths)
  /\ events = {"add"} \X {p \in Files : link[p] # 0}
  /\ file = [p \in Files |-> NoFile] /\ old = [p \in Files |-> NoFile]
  /\ lines = [p \in Files |-> <<>>]
  /\ toRead = {} /\ avail = {}
  /\ wm = [p \in Files |-> NoMark]
  /\ db = [p \in Files |-> [mark |-> NoMark, lines |-> <<>>]]
  /\ sem = Sem(1)
  /\ task = [t \in Tasks |-> Free]
  /\ reader = "idle" /\ asked = {} /\ saver = "idle" /\ stopping = "no"
  /\ run = 1
  /\ out = [i \in Inodes |-> <<>>] /\ seen = {} /\ spoiled = {}

-----------------------------------------------------------------------------
(* The files: they grow, they are truncated, deleted and created again.    *)

Unannounced == <<world, memory, listVars, marks, sem, task, calls, out, seen>>

(* A change of a file the monitor has not found yet needs no event.        *)
Changed(p) ==
  IF <<"add", p>> \in events THEN events ELSE events \union {<<"change", p>>}

AppendTo(p) ==
  /\ link[p] # 0
  /\ written < (IF world \subseteq {"save", "crash", "stop"} THEN MaxUnits
                ELSE MaxUnitsMany)
  /\ written' = written + 1
  /\ data' = [data EXCEPT ![link[p]] = Append(@, written')]
  /\ ends' \in {ends, ends \union {written'}}
  /\ events' = Changed(p)
  /\ UNCHANGED <<Unannounced, link, spoiled>>

Truncate(p) ==
  /\ "truncate" \in world
  /\ link[p] # 0 /\ data[link[p]] # <<>>
  /\ data' = [data EXCEPT ![link[p]] = <<>>]
  /\ events' = Changed(p)
  /\ spoiled' = spoiled \union {link[p]}
  /\ UNCHANGED <<Unannounced, written, ends, link>>

Delete(p) ==
  /\ "delete" \in world
  /\ link[p] # 0
  /\ link' = [link EXCEPT ![p] = 0]
  /\ events' = IF <<"add", p>> \in events THEN events \ {<<"add", p>>}
               ELSE (events \ {<<"change", p>>}) \union {<<"unlink", p>>}
  /\ spoiled' = spoiled \union {link[p]}
  /\ UNCHANGED <<Unannounced, data, written, ends>>

(* chokidar announces a file that is soon created again as a change.       *)
Create(p) ==
  /\ "create" \in world
  /\ link[p] = 0
  /\ \E i \in Inodes :
       /\ i = 1 + Cardinality({j \in Inodes : j \in spoiled \/ \E q \in Files : link[q] = j})
       /\ link' = [link EXCEPT ![p] = i]
  /\ events' = IF <<"unlink", p>> \in events
                 THEN (events \ {<<"unlink", p>>}) \union {<<"change", p>>}
                 ELSE events \union {<<"add", p>>}
  /\ UNCHANGED <<Unannounced, data, written, ends, spoiled>>

-----------------------------------------------------------------------------
(* File, toJSON() and the split of what was read into lines.               *)

ToJSON(f) == [offset |-> f.offset, tail |-> f.tail, line |-> f.line]

(* One more unit: it ends a line, or it makes the tail longer.             *)
Cut(a, u) ==
  IF u \in ends
    THEN [tail |-> <<>>, line |-> a.line + 1,
          lines |-> Append(a.lines, [ln |-> a.line + 1,
                                     text |-> Append(a.tail, u)])]
    ELSE [a EXCEPT !.tail = Append(@, u)]

(* tail += block; tail.split("\n")                                         *)
Split(f, ls, block) ==
  LET cut[n \in 0..Len(block)] ==
        IF n = 0 THEN [tail |-> f.tail, line |-> f.line, lines |-> ls]
        ELSE Cut(cut[n - 1], block[n])
  IN cut[Len(block)]

Block(f) ==
  LET size == Len(data[f.ino])
      upTo == IF f.offset + BlockSize < size THEN f.offset + BlockSize ELSE size
  IN SubSeq(data[f.ino], f.offset + 1, upTo)

Marked(p) == ReadMode = "watermark" /\ wm[p] # NoMark
Unmarked(p) ==
  [NoMark EXCEPT !.offset = IF StartAt = "start" THEN 0 ELSE Len(data[link[p]])]

(* A File that takes up its offset and not the text before it.             *)
OpenedAtOffset(p) ==
  IF Marked(p) THEN [wm[p] EXCEPT !.tail = <<>>] ELSE Unmarked(p)

(* Where openFile() starts: at the mark of the path or at config.offset.   *)
Opened(p) == IF Marked(p) THEN wm[p] ELSE Unmarked(p)

-----------------------------------------------------------------------------
(* The semaphore of the input, and who resumes when it is left.            *)

(* await sem.take()                                                        *)
AskSem(t) ==
  /\ sem' = Take(sem, t)
  /\ task' = [task EXCEPT ![t].pc = IF Available(sem) THEN "granted"
                                                      ELSE "queued"]
  /\ UNCHANGED <<saver, stopping>>

(* leave(), when the calls under way become `tasks`.                       *)
Woke(tasks) == [t \in Tasks |-> IF t \in Woken(sem)
                                  THEN [tasks[t] EXCEPT !.pc = "granted"]
                                  ELSE tasks[t]]
SaverWoke == IF Saver \in Woken(sem) THEN "granted" ELSE saver

LeaveSem(tasks) ==
  /\ sem' = Leave(sem)
  /\ task' = Woke(tasks)
  /\ saver' = SaverWoke
  /\ stopping' = IF Stopper \notin Woken(sem) THEN stopping
                 ELSE IF stopping = "queued" THEN "granted" ELSE "saving"

-----------------------------------------------------------------------------
(* openFile(), for a read and for the monitor.                             *)

World == <<world, disk, events, out, seen, spoiled>>

(* The read of p goes on with the object that has left this.files.         *)
Orphans(tasks, p) ==
  LET r == <<"read", p>> IN
  IF file[p] # NoFile /\ tasks[r].pc # "free" /\ tasks[r].obj = "new"
    THEN [tasks EXCEPT ![r].obj = "old"] ELSE tasks

KeepOrphan(p) ==
  old' = [old EXCEPT ![p] = IF Orphans(task, p) # task THEN file[p] ELSE @]

AfterOpen(tasks, t) ==
  [tasks EXCEPT ![t] = IF t[1] = "open" THEN Free ELSE [@ EXCEPT !.pc = "opened"]]

Ask(t) ==
  /\ task[t].pc = "ask"
  /\ AskSem(t)
  /\ UNCHANGED <<World, memory, listVars, marks, reader, asked, run>>

(* A granted slot: a file that is known and has its fd is not opened. *)
Granted(t) ==
  /\ task[t].pc = "granted"
  /\ IF file[t[2]].fd = "none"
       THEN /\ task' = [task EXCEPT ![t].pc = "opening"]
            /\ UNCHANGED <<sem, saver, stopping>>
       ELSE LeaveSem(AfterOpen(task, t))
  /\ UNCHANGED <<World, memory, listVars, marks, reader, asked, run>>

NewFile(p) ==
  [ino |-> link[p], fd |-> "open", offset |-> Opened(p).offset,
   tail |-> Opened(p).tail, line |-> Opened(p).line, held |-> Sem(1)]

Open(t) ==
  LET p == t[2] IN
  /\ task[t].pc = "opening" /\ link[p] # 0
  /\ KeepOrphan(p)
  /\ file' = [file EXCEPT ![p] = NewFile(p)]
  /\ lines' = [lines EXCEPT ![p] =
                 IF Marked(p) THEN @ ELSE <<>>]
  /\ toRead' = toRead \union {p}
  /\ wm' = [wm EXCEPT ![p] = Opened(p)]
  /\ LeaveSem(AfterOpen(Orphans(task, p), t))
  /\ UNCHANGED <<World, avail, db, reader, asked, run>>

-----------------------------------------------------------------------------
(* readlines(): the read of one file.                                      *)

Own(t) == IF task[t].obj = "new" THEN file[t[2]] ELSE old[t[2]]

(* The object of the call becomes f; the one of a call that ends is kept   *)
(* only as long as it is in this.files.                                    *)
Becomes(t, f, ends_) ==
  IF task[t].obj = "new"
    THEN file' = [file EXCEPT ![t[2]] = f] /\ UNCHANGED old
    ELSE /\ old' = [old EXCEPT ![t[2]] = IF ends_ THEN NoFile ELSE f]
         /\ UNCHANGED file

(* An end that does not resume the calls which wait for the file.          *)
UnlockedOnly(t, next) == [task EXCEPT ![t] = next]

(* file.sem is left, its next caller resumes, and t goes on as `next`.     *)
Unlocked(t, next) ==
  [u \in Tasks |-> IF u = t THEN next
                   ELSE IF u \in Woken(Own(t).held)
                          THEN [task[u] EXCEPT !.pc = "locked"] ELSE task[u]]

Ends(t, f) ==
  /\ Becomes(t, [f EXCEPT !.held = Leave(@)], TRUE)
  /\ task' = Unlocked(t, Free)

(* One read fails: next() answers the error, and waits for no other read.  *)
Answered(t) ==
  /\ reader' = IF t \in asked THEN "idle" ELSE reader
  /\ asked' = IF t \in asked THEN {} ELSE asked

(* The catch of readlines: file.sem is left, whether it was taken or not.  *)
Fails(t) ==
  /\ Ends(t, Own(t))
  /\ Answered(t)
  /\ UNCHANGED <<lines, listVars, marks, sem>>

Reading == <<World, saver, stopping, run>>

(* fs.open throws when the file is gone, past the leave() of openFile.     *)
OpenFails(t) ==
  /\ task[t].pc = "opening" /\ link[t[2]] = 0
  /\ IF t[1] = "read" THEN Fails(t)
     ELSE /\ task' = [task EXCEPT ![t] = Free]
          /\ UNCHANGED <<memory, listVars, marks, sem, reader, asked>>
  /\ UNCHANGED Reading

Lock(t) ==
  /\ task[t].pc = "opened"
  /\ Becomes(t, [Own(t) EXCEPT !.held = Take(@, t)], FALSE)
  /\ task' = [task EXCEPT ![t].pc = IF Available(Own(t).held) THEN "locked"
                                                              ELSE "waiting"]
  /\ UNCHANGED <<Reading, lines, listVars, marks, sem, reader, asked>>

(* An object without fd is returned as it is, with its semaphore taken.    *)
StartRead(t) ==
  /\ task[t].pc = "locked" /\ t[1] = "read"
  /\ IF Own(t).fd = "none"
       THEN /\ Becomes(t, Own(t), TRUE)
            /\ task' = [task EXCEPT ![t] = Free]
            /\ asked' = asked \ {t}
       ELSE /\ task' = [task EXCEPT ![t].pc = "reading"]
            /\ UNCHANGED <<file, old, asked>>
  /\ UNCHANGED <<Reading, lines, listVars, marks, sem, reader>>

(* A file that is available only when this read has cut a line.            *)
DeliversNew(t, f, ls) ==
  /\ Ends(t, f)
  /\ lines' = [lines EXCEPT ![t[2]] = ls]
  /\ wm' = [wm EXCEPT ![t[2]] = ToJSON(f)]
  /\ avail' = IF ls # lines[t[2]] THEN avail \union {t[2]} ELSE avail
  /\ asked' = asked \ {t}
  /\ UNCHANGED <<Reading, toRead, db, sem, reader>>

(* What the read of a block leaves when it ends well.                      *)
Delivers(t, f, ls) ==
  /\ Ends(t, f)
  /\ lines' = [lines EXCEPT ![t[2]] = ls]
  /\ wm' = [wm EXCEPT ![t[2]] = ToJSON(f)]
  /\ avail' = IF ls # <<>> THEN avail \union {t[2]} ELSE avail
  /\ asked' = asked \ {t}
  /\ UNCHANGED <<Reading, toRead, db, sem, reader>>

Read(t) ==
  LET f == Own(t)
      a == Split(f, lines[t[2]], Block(f))
  IN
  /\ task[t].pc = "reading" /\ f.fd = "open" /\ Block(f) # <<>>
  /\ Delivers(t, [f EXCEPT !.offset = @ + Len(Block(f)), !.tail = a.tail,
                           !.line = a.line], a.lines)

(* Nothing more to read: has the file been truncated or replaced?          *)
ReadNothing(t) ==
  /\ task[t].pc = "reading" /\ Own(t).fd = "open" /\ Block(Own(t)) = <<>>
  /\ task' = [task EXCEPT ![t].pc = "stat"]
  /\ UNCHANGED <<Reading, memory, listVars, marks, sem, reader, asked>>

ReadFails(t) ==
  /\ \/ task[t].pc \in {"reading", "closing"} /\ Own(t).fd = "shut"
     \/ task[t].pc = "stat" /\ link[t[2]] = 0
  /\ t[1] = "read"
  /\ Fails(t)
  /\ UNCHANGED Reading

AnotherFile(p, f) == Len(data[link[p]]) < f.offset \/ link[p] # f.ino

Stat(t) ==
  LET p == t[2] IN
  /\ task[t].pc = "stat" /\ link[p] # 0
  /\ task' = [task EXCEPT ![t].pc = "closing"]
  /\ IF AnotherFile(p, Own(t))
       THEN /\ Becomes(t, [Own(t) EXCEPT !.offset = 0], FALSE)
            /\ UNCHANGED toRead
       ELSE /\ toRead' = toRead \ {p}
            /\ UNCHANGED <<file, old>>
  /\ UNCHANGED <<Reading, lines, avail, marks, sem, reader, asked>>

CloseRead(t) ==
  /\ task[t].pc = "closing" /\ t[1] = "read" /\ Own(t).fd = "open"
  /\ Delivers(t, [Own(t) EXCEPT !.fd = "none"], lines[t[2]])

-----------------------------------------------------------------------------
(* next() and fetchLine().                                                 *)

Known == {p \in Files : file[p] # NoFile}
Closed == stopping \in {"save", "saving", "done"}
Fetching == <<world, disk, events, file, old, marks, sem, saver, stopping, run,
              spoiled>>

(* lines.shift(); a file without lines is available no longer.             *)
Shift(p) ==
  /\ lines' = [lines EXCEPT ![p] = Tail(@)]
  /\ avail' = (avail \intersect Known) \ (IF Len(lines[p]) = 1 THEN {p} ELSE {})

Hand(p) ==
  /\ lines[p] # <<>>
  /\ Shift(p)
  /\ out' = [out EXCEPT ![file[p].ino] = Append(@, Head(lines[p]))]
  /\ seen' = seen \union ToSet(Head(lines[p]).text)
  /\ UNCHANGED spoiled

NextLine ==
  /\ reader = "idle" /\ ~Closed
  /\ \E p \in avail \intersect Known :
       \/ Hand(p) /\ UNCHANGED reader
       \/ /\ lines[p] = <<>>
          /\ reader' = "lost" /\ avail' = avail \intersect Known
          /\ UNCHANGED <<lines, out, seen, spoiled>>
  /\ toRead' = toRead \intersect Known
  /\ UNCHANGED <<Fetching, asked, task>>

NextRead ==
  /\ reader = "idle" /\ ~Closed
  /\ avail \intersect Known = {} /\ toRead \intersect Known # {}
  /\ \A p \in Files : task[<<"read", p>>].pc = "free"
  /\ toRead' = toRead \intersect Known /\ avail' = {}
  /\ asked' = {"read"} \X toRead'
  /\ task' = [t \in Tasks |-> IF t \in asked' THEN [Free EXCEPT !.pc = "ask"]
                              ELSE task[t]]
  /\ reader' = "waiting"
  /\ UNCHANGED <<Fetching, lines, out, seen>>

Answer ==
  /\ reader = "waiting" /\ asked = {}
  /\ reader' = "idle"
  /\ toRead' = toRead \intersect Known
  /\ \/ \E p \in avail \intersect Known : Hand(p)
     \/ /\ \A p \in avail \intersect Known : lines[p] = <<>>
        /\ avail' = avail \intersect Known
        /\ UNCHANGED <<lines, out, seen, spoiled>>
  /\ UNCHANGED <<Fetching, asked, task>>

-----------------------------------------------------------------------------
(* The monitor.                                                            *)

Monitoring == <<world, disk, marks, sem, calls, history>>

Add(p) ==
  /\ <<"add", p>> \in events /\ stopping = "no"
  /\ task[<<"open", p>>].pc = "free"
  /\ events' = events \ {<<"add", p>>}
  /\ IF p \in Known
       THEN toRead' = toRead \union {p} /\ UNCHANGED task
       ELSE /\ task' = [task EXCEPT ![<<"open", p>>].pc = "ask"]
            /\ UNCHANGED toRead
  /\ UNCHANGED <<Monitoring, memory, avail>>

ChangeSeen(p) ==
  /\ <<"change", p>> \in events /\ stopping = "no"
  /\ StableEvents => task[<<"read", p>>].pc \notin {"stat", "closing"}
  /\ events' = events \ {<<"change", p>>}
  /\ toRead' = toRead \union {p}
  /\ UNCHANGED <<Monitoring, memory, avail, task>>

(* Monitor.unlink closes the descriptor and forgets the file.              *)
Shut(f) == [f EXCEPT !.fd = IF @ = "open" THEN "shut" ELSE @]

Unlink(p) ==
  /\ <<"unlink", p>> \in events /\ stopping = "no"
  /\ events' = events \ {<<"unlink", p>>}
  /\ file' = [file EXCEPT ![p] = NoFile]
  /\ old' = [old EXCEPT ![p] = IF Orphans(task, p) # task THEN Shut(file[p]) ELSE @]
  /\ task' = Orphans(task, p)
  /\ UNCHANGED <<Monitoring, lines, listVars>>

-----------------------------------------------------------------------------
(* save(), every minute, and stop().                                       *)

Saving == <<world, disk, events, memory, listVars, reader, asked, run, history>>

UpToDate == [p \in Files |-> IF p \in Known THEN ToJSON(file[p]) ELSE wm[p]]

(* A save that leaves out the lines nobody has asked for yet.              *)
StoreMarks ==
  /\ wm' = UpToDate
  /\ db' = [p \in Files |-> [mark |-> UpToDate[p], lines |-> <<>>]]

(* The marks of the open files are brought up to date and stored.          *)
Store ==
  /\ wm' = UpToDate
  /\ db' = [p \in Files |-> [mark |-> UpToDate[p], lines |-> lines[p]]]

(* A timer that would store what is stored already is left out.            *)
NewsToSave ==
  \E p \in Files : db[p] # [mark |-> UpToDate[p], lines |-> lines[p]]

Save ==
  /\ "save" \in world /\ saver = "idle" /\ stopping = "no" /\ NewsToSave
  /\ sem' = Take(sem, Saver)
  /\ saver' = IF Available(sem) THEN "granted" ELSE "queued"
  /\ UNCHANGED <<Saving, marks, task, stopping>>

SaveMarks ==
  /\ saver = "granted"
  /\ Store
  /\ sem' = Leave(sem)
  /\ saver' = "idle"
  /\ task' = Woke(task)
  /\ stopping' = IF Stopper \in Woken(sem) THEN "granted" ELSE stopping
  /\ UNCHANGED Saving

Stop ==
  /\ "stop" \in world /\ stopping = "no"
  /\ sem' = Take(sem, Stopper)
  /\ stopping' = IF Available(sem) THEN "granted" ELSE "queued"
  /\ UNCHANGED <<Saving, marks, task, saver>>

StopFiles ==
  /\ stopping = "granted"
  /\ stopping' = "files"
  /\ task' = [t \in Tasks |-> IF t[1] = "close" /\ t[2] \in Known
                                THEN [Free EXCEPT !.pc = "opened"] ELSE task[t]]
  /\ UNCHANGED <<Saving, marks, sem, saver>>

StopClose(t) ==
  LET f == Own(t) IN
  /\ task[t].pc = "locked" /\ t[1] = "close"
  /\ Ends(t, Shut(f))
  /\ UNCHANGED <<Reading, lines, listVars, marks, sem, reader, asked>>

(* The slot is left, and save() asks for it in the same turn.              *)
StopLeave ==
  /\ stopping = "files"
  /\ \A p \in Files : task[<<"close", p>>].pc = "free"
  /\ LET left == Leave(sem) IN
       /\ sem' = Take(left, Stopper)
       /\ stopping' = IF Available(left) THEN "saving" ELSE "save"
  /\ saver' = SaverWoke
  /\ task' = Woke(task)
  /\ UNCHANGED <<Saving, marks>>

StopSave ==
  /\ stopping = "saving"
  /\ Store
  /\ sem' = Leave(sem)
  /\ task' = Woke(task)
  /\ saver' = SaverWoke
  /\ stopping' = "done"
  /\ UNCHANGED Saving

(* The process ends, killed or stopped, and another one starts.            *)
Restart ==
  /\ run < MaxRuns
  /\ "crash" \in world \/ stopping = "done"
  /\ run' = run + 1
  /\ events' = {"add"} \X {p \in Files : link[p] # 0}
  /\ file' = [p \in Files |-> NoFile] /\ old' = [p \in Files |-> NoFile]
  /\ lines' = [p \in Files |-> db[p].lines]
  /\ toRead' = {} /\ avail' = {}
  /\ wm' = [p \in Files |-> db[p].mark]
  /\ sem' = Sem(1) /\ task' = [t \in Tasks |-> Free]
  /\ reader' = "idle" /\ asked' = {} /\ saver' = "idle" /\ stopping' = "no"
  /\ out' = [i \in Inodes |-> <<>>]
  /\ UNCHANGED <<world, disk, db, seen, spoiled>>

-----------------------------------------------------------------------------
(* What an await resumes once it is settled runs before any other event.   *)
Resumes(t) == Ask(t) \/ Granted(t) \/ Lock(t) \/ StartRead(t)
Resume == \/ \E t \in Tasks : Resumes(t)
          \/ Answer \/ SaveMarks \/ StopFiles \/ StopLeave \/ StopSave

Settled ==
  /\ \A t \in Tasks : /\ task[t].pc \notin {"ask", "granted", "opened"}
                      /\ t[1] = "read" => task[t].pc # "locked"
  /\ ~(reader = "waiting" /\ asked = {})
  /\ saver # "granted" /\ stopping \notin {"granted", "saving"}
  /\ stopping = "files" => \E p \in Files : task[<<"close", p>>].pc # "free"

Completes(t) == \/ Open(t) \/ OpenFails(t) \/ Read(t) \/ ReadNothing(t)
                \/ ReadFails(t) \/ Stat(t) \/ CloseRead(t) \/ StopClose(t)
NextCall == NextLine \/ NextRead
MonitorEvent(p) == Add(p) \/ ChangeSeen(p) \/ Unlink(p)
FileChange(p) == AppendTo(p) \/ Truncate(p) \/ Delete(p) \/ Create(p)

(* What the process does without being asked; Settled puts the pieces of   *)
(* code that can go on before the next event.                              *)
Progress == \/ Resume
            \/ /\ Settled
               /\ \/ \E t \in Tasks : Completes(t)
                  \/ NextCall
                  \/ \E p \in Files : MonitorEvent(p)

FileNext ==
  \/ Progress
  \/ /\ Settled
     /\ Save \/ Stop \/ Restart \/ \E p \in Paths : FileChange(p)

(* Promises settle, I/O completes, events arrive and the wrapper keeps     *)
(* asking for lines: one of these happens as long as one can.  Files       *)
(* change, timers tick and processes end as they please.                   *)
FileFairness == WF_fileVars(Progress)

FileSpec == FileInit /\ [][FileNext]_fileVars /\ FileFairness

-----------------------------------------------------------------------------
(* Properties.                                                             *)

Text(ls) == FlattenSeq([k \in 1..Len(ls) |-> ls[k].text])
Original(p) == link[p] # 0 /\ spoiled = {}
Followed(p) == Original(p) /\ p \in Known /\ ReadMode = "watermark"

(* The lines a process delivers of a file that only grows, those it has    *)
(* cut and the piece of a line that it keeps are, in this order and with   *)
(* nothing lost, doubled or torn, what it read of the file up to its       *)
(* offset, however often the file was closed and opened again; and lines   *)
(* are numbered in sequence.                                               *)
LinesAccounted ==
  \A p \in Files : Followed(p) =>
    LET f == file[p]
        cut == out[f.ino] \o lines[p]
        text == Text(cut) \o f.tail
    IN /\ f.offset <= Len(data[f.ino])
       /\ Len(text) <= f.offset
       /\ text = SubSeq(data[f.ino], f.offset - Len(text) + 1, f.offset)
       /\ \A k \in 2..Len(cut) : cut[k].ln = cut[k - 1].ln + 1

(* What a save() or a stop() stores is the position of the input: the next *)
(* process gets everything that was not delivered, and nothing that this   *)
(* process delivered.                                                      *)
StoresPosition ==
  [][db' # db => \A p \in Files : Followed(p) =>
       LET i == link[p]
           mark == db'[p].mark
           again == ToSet(Text(db'[p].lines) \o mark.tail)
                      \union ToSet(SubSeq(data[i], mark.offset + 1, Len(data[i])))
       IN /\ ToSet(data[i]) \subseteq seen \union again
          /\ again \intersect ToSet(Text(out[i])) = {}]_fileVars

(* Files that only grow are followed: again and again every line that was  *)
(* completed has been delivered, whatever crashes on the way, unless the   *)
(* input is stopped for good.                                              *)
Complete(u) == \E i \in Inodes : \E k, l \in 1..Len(data[i]) :
                 k <= l /\ data[i][k] = u /\ data[i][l] \in ends
AllRead == {"delete", "truncate"} \intersect world = {}
             => \A u \in Units : Complete(u) => u \in seen
EveryLineIsRead == []<>AllRead \/ <>[](stopping # "no")

(* stop() calls back: it is not held up by a read that is under way.       *)
StopEnds == "delete" \notin world => (stopping # "no" ~> stopping \in {"no", "done"})
=============================================================================
