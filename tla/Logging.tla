------------------------------ MODULE Logging -------------------------------
(***************************************************************************)
(* The log manager and its writers: src/log.  The loggers of a program lie *)
(* next to each other in a section of their own and are collected by one   *)
(* manager; a writer is a formatter and a sink.  The file sink puts every   *)
(* line through a ring buffer (MPSCRingBuffer, here a bounded queue) to one *)
(* thread that writes files, and starts a new file when one is full.        *)
(***************************************************************************)
EXTENDS Integers, Sequences, SequencesExt

CONSTANTS Threads,      \* the threads that log
          MaxLines,     \* bound: lines logged
          Capacity,     \* regions the ring has room for
          MaxFileSize,  \* asyncWriterMaxFileSize, in lines
          MaxFileCount  \* asyncWriterMaxFileCount; 0 keeps every file

VARIABLES section,  \* the names of the loggers, in the order of the section
          manager,  \* "none", "up" or "gone"
          attached, \* the positions of the loggers that point to a manager
          writers,  \* the writers it has
          regions,  \* the ring: the lines acquired and not consumed, with their state
          busy,     \* the line a thread is between acquire and release with, or NoLine
          lines,    \* lines given to a file sink
          written,  \* the lines consumed, in order
          open,     \* is the file of the base name open?
          base,     \* the lines of that file, NoFile if there is none
          archive,  \* the files closed and not deleted, by number
          count,    \* currentFileCount
          consumer  \* "none", "runs" or "ended"

logVars == <<section, manager, attached, writers, regions, busy, lines, written,
             open, base, archive, count, consumer>>
fileVars == <<written, open, base, archive, count>>

NoLine == 0
NoFile == <<NoLine>>

Init ==
  /\ section \in {<<"manager", "a", "b">>, <<"a", "manager", "a">>}
  /\ manager = "none" /\ attached = {} /\ writers = {}
  /\ regions = <<>> /\ busy = [t \in Threads |-> NoLine] /\ lines = 0
  /\ written = <<>> /\ open = FALSE /\ base = NoFile /\ archive = <<>> /\ count = 0
  /\ consumer = "none"

\* The files archived once this one has its number and others are deleted.
Filed(file, deleted) ==
  [k \in (DOMAIN archive \cup {count}) \ deleted |-> IF k = count THEN file ELSE archive[k]]

-----------------------------------------------------------------------------
(* The manager                                                               *)

\* Mutant: a name that is there already ends the collection and leaves the loggers
\* it came to before with the manager.
CollectKept(names) ==
  LET first == SelectInSeq([i \in DOMAIN names |-> \E j \in 1..(i - 1) : names[j] = names[i]],
                           LAMBDA again : again)
  IN  IF first = 0 THEN DOMAIN names ELSE 1..(first - 1)

\* The loggers of the section join the manager unless two have one name: then the
\* ones before it are taken back.
Collect(names) == IF IsInjective(names) THEN DOMAIN names ELSE {}

\* A second manager finds the loggers taken and is deleted again.
ManagerNew ==
  /\ manager = "none"
  /\ manager' = IF IsInjective(section) THEN "up" ELSE "gone"
  /\ attached' = Collect(section)
  /\ UNCHANGED <<section, writers, regions, busy, lines, fileVars, consumer>>

\* swInitLogManagerStdoutWriterAdd, swInitLogManagerAsyncWriterAdd: the writer is
\* added; a file sink starts the thread of its ring.
WriterAdd ==
  \E w \in {"stdout", "file"} :
    /\ manager = "up" /\ w \notin writers
    /\ writers' = writers \cup {w}
    /\ consumer' = IF w = "file" THEN "runs" ELSE consumer
    /\ UNCHANGED <<section, manager, attached, regions, busy, lines, fileVars>>

\* Deleting the manager clears the writers, which waits for the ring to be drained
\* unless its thread has ended, archives the open file, and frees the loggers.
ManagerDelete ==
  /\ manager = "up" /\ \A t \in Threads : busy[t] = NoLine
  /\ consumer = "runs" => regions = <<>>
  /\ \/ open /\ archive' = Filed(base, {}) /\ base' = NoFile
     \/ UNCHANGED <<archive, base>>
  /\ open' = FALSE
  /\ manager' = "gone" /\ attached' = {} /\ writers' = {}
  /\ consumer' = "none" /\ regions' = <<>>
  /\ UNCHANGED <<section, busy, lines, written, count>>

-----------------------------------------------------------------------------
(* swLoggerLog, over the file sink: every writer is tried by itself, and only *)
(* a file sink leaves anything between acquire and release.                  *)

Acquire(t) ==
  /\ "file" \in writers /\ attached # {} /\ busy[t] = NoLine
  /\ lines < MaxLines /\ Len(regions) < Capacity
  /\ lines' = lines + 1
  /\ regions' = Append(regions, [line |-> lines + 1, ready |-> FALSE])
  /\ busy' = [busy EXCEPT ![t] = lines + 1]
  /\ UNCHANGED <<section, manager, attached, writers, fileVars, consumer>>

\* The line is formatted into its region and released.  A line whose length is not
\* the one it was measured with is not, and its region is never released.
Release(t) ==
  /\ busy[t] # NoLine
  /\ \/ regions' = [i \in DOMAIN regions |->
                      [regions[i] EXCEPT !.ready = @ \/ regions[i].line = busy[t]]]
     \/ UNCHANGED regions
  /\ busy' = [busy EXCEPT ![t] = NoLine]
  /\ UNCHANGED <<section, manager, attached, writers, lines, fileVars, consumer>>

-----------------------------------------------------------------------------
(* swLogFileSinkConsume                                                      *)

\* Mutant: the file deleted is one too new.
OutdatedEarly(n) == IF MaxFileCount > 0 /\ n >= MaxFileCount THEN {n - MaxFileCount} ELSE {}

\* The file deleted when n files were closed: with more than MaxFileCount of them,
\* the oldest one kept.
Outdated(n) == IF MaxFileCount > 0 /\ n > MaxFileCount THEN {n - MaxFileCount - 1} ELSE {}

\* The thread takes the first n lines, all released.  It opens a file if none is
\* open, writes them, and, when the file is full, closes it, renames it to its number
\* and deletes the one too many.  A file that cannot be opened or renamed ends the
\* thread.
Consume ==
  /\ consumer = "runs"
  /\ \E n \in 1..Len(regions) :
       /\ \A i \in 1..n : regions[i].ready
       /\ regions' = SubSeq(regions, n + 1, Len(regions))
       /\ LET batch == [i \in 1..n |-> regions[i].line]
              file == (IF open THEN base ELSE <<>>) \o batch
          IN  \/ /\ ~open /\ consumer' = "ended"
                 /\ UNCHANGED fileVars
              \/ /\ Len(file) < MaxFileSize
                 /\ written' = written \o batch /\ open' = TRUE /\ base' = file
                 /\ UNCHANGED <<archive, count, consumer>>
              \/ /\ Len(file) >= MaxFileSize
                 /\ written' = written \o batch /\ open' = FALSE
                 /\ \/ /\ archive' = Filed(file, Outdated(count + 1))
                       /\ base' = NoFile /\ count' = count + 1 /\ UNCHANGED consumer
                    \/ base' = file /\ consumer' = "ended" /\ UNCHANGED <<archive, count>>
  /\ UNCHANGED <<section, manager, attached, writers, busy, lines>>

Next ==
  \/ ManagerNew \/ WriterAdd \/ ManagerDelete \/ Consume
  \/ \E t \in Threads : Acquire(t) \/ Release(t)

-----------------------------------------------------------------------------
(* Properties                                                                *)

\* Lines that were acquired one after the other.
Consecutive(file) == file # <<>> /\ \A i \in DOMAIN file : file[i] = file[1] + i - 1

\* The number of the oldest file kept.
Oldest == IF MaxFileCount > 0 /\ count > MaxFileCount THEN count - MaxFileCount ELSE 0

\* Lines are written in the order their regions were acquired.  The archived files, from the
\* oldest one kept, and the file of the base name each go on where the one before ended, up
\* to the last line written, whatever failed on the way: no line is lost, doubled or out of
\* order in them.  As many files are kept as may be, one more once the manager archived the
\* open one.
FilesKeepNewest ==
  /\ \A i \in DOMAIN written : written[i] = i
  /\ \/ DOMAIN archive = Oldest .. count - 1
     \/ DOMAIN archive = Oldest .. count /\ manager = "gone"
  /\ \A k \in DOMAIN archive :
       /\ Consecutive(archive[k])
       /\ Last(archive[k]) + 1 = IF k + 1 \in DOMAIN archive THEN archive[k + 1][1]
                                ELSE IF base # NoFile THEN base[1] ELSE Len(written) + 1
  /\ base # NoFile => Consecutive(base) /\ Last(base) = Len(written)

\* A logger points to a manager only while there is one.
NoneDangles == attached # {} => manager = "up"
=============================================================================
