---------------------------- MODULE TradeCounter ----------------------------
(***************************************************************************)
(* safety/daily_count.py at the level of the file system.  The counter is  *)
(* read by opening the live path and reading what was opened; it is        *)
(* written by opening (and so truncating) a temporary path, whose name all *)
(* processes share, writing it, and renaming it over the live path.  A     *)
(* path names a file; a process that has opened a file keeps it whatever   *)
(* becomes of its name.                                                    *)
(*                                                                         *)
(* A file is written in one piece: two writers of one file leave the text  *)
(* of the later, which is so while their texts have the same length.       *)
(***************************************************************************)
EXTENDS Integers

CONSTANTS
  Writers,      \* processes that call increment_daily_count
  Readers,      \* processes that call read_daily_count
  Files,        \* enough files for every name and every open one
  NoFile,       \* a path that names nothing
  Torn,         \* the content of a file that is not a whole JSON object
  MaxDay,       \* bound on the days that pass
  MaxCount      \* bound on the count, so that a state space is finite

ASSUME TradeCounterAssumption ==
  /\ Writers \cap Readers = {}
  /\ NoFile \notin Files
  /\ MaxDay \in Nat /\ MaxCount \in Nat
  /\ Torn \notin [date : Nat, count : Nat]

VARIABLES
  live,         \* the file trade_counter.json names
  tmp,          \* the file .trade_counter.json.tmp names
  disk,         \* the content of each file
  today,        \* the UTC date
  pc,           \* where each process stands
  fd,           \* the file each process has open
  date,         \* the date a writer took
  count         \* the count a process read

vars == <<live, tmp, disk, today, pc, fd, date, count>>

Processes == Writers \cup Readers

\* What a file says today's count is: 0 on any miss.
CountIn(f) ==
  IF f # NoFile /\ disk[f] # Torn /\ disk[f].date = today
  THEN disk[f].count ELSE 0

Value == CountIn(live)

At(p, label) == pc[p] = label
Goto(p, label) == pc' = [pc EXCEPT ![p] = label]

\* The file is named, or some process has it open.
InUse(f) == f \in {live, tmp} \/ \E q \in Processes : fd[q] = f

Close(p) == fd' = [fd EXCEPT ![p] = NoFile]
----------------------------------------------------------------------------
Init ==
  /\ live = NoFile /\ tmp = NoFile
  /\ disk = [f \in Files |-> Torn]
  /\ today = 0
  /\ pc = [p \in Processes |-> "idle"]
  /\ fd = [p \in Processes |-> NoFile]
  /\ date = [p \in Processes |-> 0]
  /\ count = [p \in Processes |-> 0]

\* increment_daily_count: the date is taken before the counter is read.
TakeDate(p) ==
  /\ p \in Writers /\ At(p, "idle") /\ Value < MaxCount
  /\ date' = [date EXCEPT ![p] = today]
  /\ Goto(p, "open")
  /\ UNCHANGED <<live, tmp, disk, today, fd, count>>

StartRead(p) ==
  /\ p \in Readers /\ At(p, "idle")
  /\ Goto(p, "open")
  /\ UNCHANGED <<live, tmp, disk, today, fd, date, count>>

\* read_daily_count, up to the opening of the file.  There may be none.
OpenLive(p) ==
  /\ At(p, "open")
  /\ fd' = [fd EXCEPT ![p] = live]
  /\ Goto(p, "read")
  /\ UNCHANGED <<live, tmp, disk, today, date, count>>

\* The rest of it.  A reader is done; a writer goes on.
Read(p) ==
  /\ At(p, "read")
  /\ count' = [count EXCEPT ![p] = CountIn(fd[p])]
  /\ Close(p)
  /\ Goto(p, IF p \in Writers THEN "open_tmp" ELSE "idle")
  /\ UNCHANGED <<live, tmp, disk, today, date>>

\* A counter that exists is written in place.
OpenTmpBug(p) ==
  /\ At(p, "open_tmp")
  /\ \E f \in Files :
       /\ IF live = NoFile THEN ~InUse(f) ELSE f = live
       /\ tmp' = f
       /\ fd' = [fd EXCEPT ![p] = f]
       /\ disk' = [disk EXCEPT ![f] = Torn]
  /\ Goto(p, "put")
  /\ UNCHANGED <<live, today, date, count>>

\* write_text: the temporary file is truncated if it is there and created
\* if it is not.
OpenTmp(p) ==
  /\ At(p, "open_tmp")
  /\ \E f \in Files :
       /\ IF tmp = NoFile THEN ~InUse(f) ELSE f = tmp
       /\ tmp' = f
       /\ fd' = [fd EXCEPT ![p] = f]
       /\ disk' = [disk EXCEPT ![f] = Torn]
  /\ Goto(p, "put")
  /\ UNCHANGED <<live, today, date, count>>

\* The count is written under the date of the moment, not the one taken.
PutBug(p) ==
  /\ At(p, "put")
  /\ disk' = [disk EXCEPT ![fd[p]] = [date |-> today, count |-> count[p] + 1]]
  /\ Close(p)
  /\ Goto(p, "rename")
  /\ UNCHANGED <<live, tmp, today, date, count>>

Put(p) ==
  /\ At(p, "put")
  /\ disk' = [disk EXCEPT ![fd[p]] = [date |-> date[p], count |-> count[p] + 1]]
  /\ Close(p)
  /\ Goto(p, "rename")
  /\ UNCHANGED <<live, tmp, today, date, count>>

\* tmp.replace(path).  Without a temporary file it raises, and the
\* increment is lost.
Rename(p) ==
  /\ At(p, "rename")
  /\ live' = IF tmp = NoFile THEN live ELSE tmp
  /\ tmp' = NoFile
  /\ Goto(p, "idle")
  /\ UNCHANGED <<disk, today, fd, date, count>>

\* The process dies; its temporary file stays.
Crash(p) ==
  /\ ~At(p, "idle")
  /\ Goto(p, "idle")
  /\ Close(p)
  /\ UNCHANGED <<live, tmp, disk, today, date, count>>

Midnight ==
  /\ today < MaxDay
  /\ today' = today + 1
  /\ UNCHANGED <<live, tmp, disk, pc, fd, date, count>>

Process(p) ==
  \/ TakeDate(p) \/ StartRead(p) \/ OpenLive(p) \/ Read(p)
  \/ OpenTmp(p) \/ Put(p) \/ Rename(p) \/ Crash(p)

Next == (\E p \in Processes : Process(p)) \/ Midnight

Spec == Init /\ [][Next]_vars
----------------------------------------------------------------------------
Labels == {"idle", "open", "read", "open_tmp", "put", "rename"}

TypeOK ==
  /\ live \in Files \cup {NoFile} /\ tmp \in Files \cup {NoFile}
  /\ disk \in [Files -> [date : Nat, count : Nat] \cup {Torn}]
  /\ today \in Nat
  /\ pc \in [Processes -> Labels]
  /\ fd \in [Processes -> Files \cup {NoFile}]
  /\ date \in [Processes -> Nat] /\ count \in [Processes -> Nat]

\* "Atomic write": the counter on file is whole at every moment, and so is
\* whatever file a process is about to read, also after a crash in the
\* middle of a write.
WholeFiles ==
  /\ live # NoFile => disk[live] # Torn
  /\ \A p \in Processes :
       At(p, "read") /\ fd[p] # NoFile => disk[fd[p]] # Torn

\* With one writer the files implement the counter of DailyCounter: every
\* increment adds one to today's count or belongs to a day that is over, and
\* a crash changes nothing.
Counter == INSTANCE DailyCounter WITH value <- Value

ImplementsDailyCounter == Counter!Spec
=============================================================================
