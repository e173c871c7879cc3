------------------------ MODULE TradeCounter_proofs ------------------------
(***************************************************************************)
(* With one process that increments, and any that read, the files of       *)
(* safety/daily_count.py are whole and implement DailyCounter, for any     *)
(* number of days, readers and files.                                      *)
(***************************************************************************)
EXTENDS TradeCounter, TLAPS

Single == \E w : Writers = {w}

\* The writer's place in its increment: what it has open, and what the
\* temporary file is worth.
WriterOwns(w) ==
  /\ pc[w] = "read" => fd[w] = live
  /\ pc[w] = "put" => fd[w] = tmp /\ tmp # NoFile
  /\ pc[w] = "rename" =>
       tmp # NoFile /\ disk[tmp] = [date |-> date[w], count |-> count[w] + 1]

\* Dates only grow: the counter on file is no younger than the writer's
\* date, and while that is today what the writer read is still true.
WriterKnows(w) ==
  /\ date[w] <= today
  /\ live # NoFile => disk[live].date <= date[w]
  /\ pc[w] \in {"open_tmp", "put", "rename"} /\ date[w] = today => count[w] = Value

\* The temporary file is nobody's to read.
Apart ==
  /\ live # NoFile => live # tmp /\ disk[live] # Torn
  /\ \A p \in Processes : fd[p] # NoFile =>
       \/ pc[p] = "read" /\ fd[p] # tmp /\ disk[fd[p]] # Torn
       \/ pc[p] = "put" /\ p \in Writers
  /\ \A r \in Readers : pc[r] \in {"idle", "open", "read"}

IInv == Single /\ TypeOK /\ Apart /\ \A w \in Writers : WriterOwns(w) /\ WriterKnows(w)

----------------------------------------------------------------------------
\* There is no file yet.
LEMMA InitIInv == Single /\ Init => IInv
<1> SUFFICES ASSUME Single, Init PROVE IInv
  OBVIOUS
<1> USE TradeCounterAssumption DEF Init
<1>1. TypeOK
  BY DEF TypeOK, Labels
<1>2. Apart
  BY DEF Apart, Processes
<1>3. ASSUME NEW w \in Writers PROVE WriterOwns(w) /\ WriterKnows(w)
  BY <1>3 DEF WriterOwns, WriterKnows, Processes
<1> QED
  BY <1>1, <1>2, <1>3 DEF IInv

\* A new increment takes a date no older than the one on file.
LEMMA TakeDateInv ==
  ASSUME IInv, NEW p \in Processes, TakeDate(p)
  PROVE  IInv'
<1> USE TradeCounterAssumption DEF TakeDate, IInv, Goto, At, Processes
<1>1. TypeOK'
  BY DEF TypeOK, Labels
<1>2. Apart'
  BY DEF Apart
<1>3. ASSUME NEW w \in Writers PROVE WriterOwns(w)'
  BY DEF WriterOwns
<1>4. ASSUME NEW w \in Writers PROVE WriterKnows(w)'
  BY DEF Apart, TypeOK, WriterKnows, CountIn, Value
<1> QED
  BY <1>1, <1>2, <1>3, <1>4

\* A reader starts.
LEMMA StartReadInv ==
  ASSUME IInv, NEW p \in Processes, StartRead(p)
  PROVE  IInv'
<1> USE TradeCounterAssumption DEF StartRead, IInv, Goto, At, Processes
<1>1. TypeOK'
  BY DEF TypeOK, Labels
<1>2. Apart'
  BY DEF Apart
<1>3. ASSUME NEW w \in Writers PROVE WriterOwns(w)'
  BY DEF WriterOwns
<1>4. ASSUME NEW w \in Writers PROVE WriterKnows(w)'
  BY DEF WriterKnows, CountIn, Value
<1> QED
  BY <1>1, <1>2, <1>3, <1>4

\* What is opened is the live file, which is whole.
LEMMA OpenLiveInv ==
  ASSUME IInv, NEW p \in Processes, OpenLive(p)
  PROVE  IInv'
<1> USE TradeCounterAssumption DEF OpenLive, IInv, Goto, At, Processes
<1>1. TypeOK'
  BY DEF TypeOK, Labels
<1>2. Apart'
  BY DEF Apart, TypeOK
<1>3. ASSUME NEW w \in Writers PROVE WriterOwns(w)'
  BY DEF TypeOK, WriterOwns
<1>4. ASSUME NEW w \in Writers PROVE WriterKnows(w)'
  BY DEF WriterKnows, CountIn, Value
<1> QED
  BY <1>1, <1>2, <1>3, <1>4

\* The writer read the live file, so its count is today's.
LEMMA ReadInv ==
  ASSUME IInv, NEW p \in Processes, Read(p)
  PROVE  IInv'
<1> USE TradeCounterAssumption DEF Read, IInv, Goto, At, Processes
<1>1. TypeOK'
  BY DEF TypeOK, Labels, Close, CountIn
<1>2. Apart'
  BY DEF Apart, TypeOK, Close
<1>3. ASSUME NEW w \in Writers PROVE WriterOwns(w)'
  BY DEF TypeOK, WriterOwns, Close
<1>4. ASSUME NEW w \in Writers PROVE WriterKnows(w)'
  BY DEF TypeOK, WriterOwns, WriterKnows, CountIn, Value
<1> QED
  BY <1>1, <1>2, <1>3, <1>4

\* Only a file nobody else has open is truncated.
LEMMA OpenTmpInv ==
  ASSUME IInv, NEW p \in Processes, OpenTmp(p)
  PROVE  IInv'
<1> USE TradeCounterAssumption DEF OpenTmp, IInv, Goto, At, Processes
<1>1. TypeOK'
  BY DEF TypeOK, Labels
<1>2. Apart'
  BY DEF Apart, TypeOK, InUse
<1>3. ASSUME NEW w \in Writers PROVE WriterOwns(w)'
  BY DEF Apart, TypeOK, WriterOwns, Single
<1>4. ASSUME NEW w \in Writers PROVE WriterKnows(w)'
  BY DEF Apart, WriterKnows, InUse, CountIn, Value
<1> QED
  BY <1>1, <1>2, <1>3, <1>4

\* Only the temporary file is written.
LEMMA PutInv ==
  ASSUME IInv, NEW p \in Processes, Put(p)
  PROVE  IInv'
<1> USE TradeCounterAssumption DEF Put, IInv, Goto, At, Processes
<1>1. TypeOK'
  <2>1. fd[p] \in Files /\ [date |-> date[p], count |-> count[p] + 1] \in [date : Nat, count : Nat]
    BY DEF TypeOK, Apart, WriterOwns
  <2> QED
    BY <2>1 DEF TypeOK, Labels, Close
<1>2. Apart'
  BY DEF Apart, TypeOK, Close
<1>3. ASSUME NEW w \in Writers PROVE WriterOwns(w)'
  BY DEF Apart, TypeOK, WriterOwns, Single
<1>4. ASSUME NEW w \in Writers PROVE WriterKnows(w)'
  BY DEF Apart, WriterOwns, WriterKnows, Single, CountIn, Value
<1> QED
  BY <1>1, <1>2, <1>3, <1>4

\* The file that becomes the counter is whole and of the writer's date.
LEMMA RenameInv ==
  ASSUME IInv, NEW p \in Processes, Rename(p)
  PROVE  IInv'
<1> USE TradeCounterAssumption DEF Rename, IInv, Goto, At, Processes
<1>1. TypeOK'
  BY DEF TypeOK, Labels
<1>2. Apart'
  <2>1. p \in Writers /\ Writers = {p}
    BY DEF Apart, Single
  <2>2. tmp # NoFile /\ disk[tmp] = [date |-> date[p], count |-> count[p] + 1]
    BY <2>1 DEF WriterOwns
  <2>3. disk[tmp] # Torn
    BY <2>1, <2>2 DEF TypeOK
  <2> QED
    BY <2>1, <2>2, <2>3 DEF Apart
<1>3. ASSUME NEW w \in Writers PROVE WriterOwns(w)'
  BY DEF Apart, TypeOK, WriterOwns, Single
<1>4. ASSUME NEW w \in Writers PROVE WriterKnows(w)'
  BY DEF Apart, TypeOK, WriterOwns, WriterKnows, Single
<1> QED
  BY <1>1, <1>2, <1>3, <1>4

\* What a crash leaves behind is the temporary file.
LEMMA CrashInv ==
  ASSUME IInv, NEW p \in Processes, Crash(p)
  PROVE  IInv'
<1> USE TradeCounterAssumption DEF Crash, IInv, Goto, At, Processes
<1>1. TypeOK'
  BY DEF TypeOK, Labels, Close
<1>2. Apart'
  BY DEF Apart, TypeOK, Close
<1>3. ASSUME NEW w \in Writers PROVE WriterOwns(w)'
  BY DEF TypeOK, WriterOwns, Close
<1>4. ASSUME NEW w \in Writers PROVE WriterKnows(w)'
  BY DEF WriterKnows, CountIn, Value
<1> QED
  BY <1>1, <1>2, <1>3, <1>4

\* A date that was today no longer is.
LEMMA MidnightInv ==
  ASSUME IInv, Midnight
  PROVE  IInv'
<1> USE TradeCounterAssumption DEF Midnight, IInv, Goto, At, Processes
<1>1. TypeOK'
  BY DEF TypeOK
<1>2. Apart'
  BY DEF Apart
<1>3. ASSUME NEW w \in Writers PROVE WriterOwns(w)'
  BY DEF WriterOwns
<1>4. ASSUME NEW w \in Writers PROVE WriterKnows(w)'
  BY DEF TypeOK, WriterKnows
<1> QED
  BY <1>1, <1>2, <1>3, <1>4

\* The invariant is inductive.
LEMMA NextIInv == IInv /\ [Next]_vars => IInv'
<1> SUFFICES ASSUME IInv, [Next]_vars PROVE IInv'
  OBVIOUS
<1>1. ASSUME NEW p \in Processes, Process(p) PROVE IInv'
  BY <1>1, TakeDateInv, StartReadInv, OpenLiveInv, ReadInv, OpenTmpInv,
     PutInv, RenameInv, CrashInv DEF Process
<1>2. CASE Midnight
  BY <1>2, MidnightInv
<1>3. CASE UNCHANGED vars
  BY <1>3 DEF vars, IInv, TypeOK, Apart, WriterOwns, WriterKnows, Value, CountIn
<1> QED
  BY <1>1, <1>2, <1>3 DEF Next

----------------------------------------------------------------------------
\* A step of a process leaves today's count alone, except the renaming,
\* which adds one to it or belongs to a day that is over.
LEMMA ProcessImplements ==
  ASSUME IInv, NEW p \in Processes, Process(p)
  PROVE  Counter!Increment \/ UNCHANGED <<today, Value>>
<1> USE TradeCounterAssumption DEF IInv, Goto, At, Processes, Value, CountIn
<1>1. CASE Rename(p)
  <2>1. p \in Writers /\ Writers = {p} /\ UNCHANGED today
    BY <1>1 DEF Apart, Single, Rename
  <2>2. live' # NoFile /\ disk'[live'] = [date |-> date[p], count |-> count[p] + 1]
    BY <1>1, <2>1 DEF WriterOwns, Rename
  <2>3. Value' = IF date[p] = today THEN count[p] + 1 ELSE 0
    BY <2>1, <2>2, disk'[live'] # Torn DEF TypeOK
  <2>4. CASE date[p] = today
    <3>1. count[p] = Value
      BY <1>1, <2>1, <2>4 DEF WriterKnows, Rename
    <3> QED
      BY <2>1, <2>3, <2>4, <3>1 DEF Counter!Increment
  <2>5. CASE date[p] # today
    <3>1. date[p] < today
      BY <2>1, <2>5 DEF TypeOK, WriterKnows
    <3>2. live # NoFile => disk[live].date # today
      BY <2>1, <3>1 DEF TypeOK, WriterKnows
    <3> QED
      BY <2>1, <2>3, <2>5, <3>2
  <2> QED
    BY <2>4, <2>5
<1>2. CASE OpenTmp(p)
  BY <1>2 DEF OpenTmp, Apart, InUse
<1>3. CASE Put(p)
  BY <1>3 DEF Put, Apart, WriterOwns
<1>4. CASE TakeDate(p) \/ StartRead(p) \/ OpenLive(p) \/ Read(p) \/ Crash(p)
  BY <1>4 DEF TakeDate, StartRead, OpenLive, Read, Crash
<1> QED
  BY <1>1, <1>2, <1>3, <1>4 DEF Process

\* At midnight the counter on file is of a day that is over.
LEMMA MidnightImplements == IInv /\ Midnight => Counter!Midnight
<1> SUFFICES ASSUME IInv, Midnight PROVE Counter!Midnight
  OBVIOUS
<1>1. live # NoFile => disk[live].date # today + 1
  BY DEF IInv, TypeOK, WriterKnows, Single, Processes
<1> QED
  BY <1>1 DEF Midnight, Counter!Midnight, Value, CountIn

----------------------------------------------------------------------------
\* The counter on file, and any counter a process is about to read, is a
\* whole JSON object, after any crash (daily_count.py, "atomic write").
THEOREM AtomicWrite == Single => (Spec => []WholeFiles)
<1>1. IInv => WholeFiles
  BY DEF IInv, Apart, WholeFiles, At
<1> QED
  BY <1>1, InitIInv, NextIInv, PTL DEF Spec

\* The file operations implement the abstract counter: it never loses an
\* increment, never goes back during a day, and starts again at midnight.
THEOREM Refines == Single => (Spec => ImplementsDailyCounter)
<1>1. Init => Counter!Init
  BY TradeCounterAssumption DEF Init, Counter!Init, Value, CountIn
<1>2. IInv /\ [Next]_vars => [Counter!Next]_<<today, Value>>
  <2> SUFFICES ASSUME IInv, [Next]_vars
               PROVE  Counter!Next \/ UNCHANGED <<today, Value>>
    OBVIOUS
  <2>1. CASE UNCHANGED vars
    BY <2>1 DEF vars, Value, CountIn
  <2> QED
    BY <2>1, ProcessImplements, MidnightImplements DEF Next, Counter!Next
<1> QED
  BY <1>1, <1>2, InitIInv, NextIInv, PTL DEF Spec, ImplementsDailyCounter, Counter!Spec

----------------------------------------------------------------------------
(***************************************************************************)
(* Types do not need a single writer: what a writer of several is about to *)
(* write goes to a file, whatever the others did to its name.              *)
(***************************************************************************)

Opened == TypeOK /\ \A p \in Processes : At(p, "put") => fd[p] \in Files

\* The actions that write a label, and what comes with it.
LEMMA OpenedProcess ==
  ASSUME Opened, NEW p \in Processes, Process(p)
  PROVE  Opened'
<1> USE TradeCounterAssumption DEF Opened, Goto, At
<1>1. CASE TakeDate(p) \/ StartRead(p)
  BY <1>1 DEF TakeDate, StartRead, TypeOK, Labels
<1>2. CASE OpenLive(p) \/ Crash(p) \/ Rename(p)
  BY <1>2 DEF OpenLive, Crash, Rename, Close, TypeOK, Labels
<1>3. CASE Read(p)
  <2>1. CountIn(fd[p]) \in Nat
    BY DEF TypeOK, CountIn
  <2> QED
    BY <1>3, <2>1 DEF Read, Close, TypeOK, Labels
<1>4. CASE OpenTmp(p)
  BY <1>4 DEF OpenTmp, TypeOK, Labels
<1>5. CASE Put(p)
  <2>1. /\ fd[p] \in Files
        /\ [date |-> date[p], count |-> count[p] + 1] \in [date : Nat, count : Nat]
    BY <1>5 DEF Put, TypeOK
  <2> QED
    BY <1>5, <2>1 DEF Put, Close, TypeOK, Labels
<1> QED
  BY <1>1, <1>2, <1>3, <1>4, <1>5 DEF Process

\* TypeOK, for any number of writers.
THEOREM TypeCorrect == Spec => []TypeOK
<1>1. Init => Opened
  BY TradeCounterAssumption DEF Init, Opened, TypeOK, Labels, At
<1>2. Opened /\ [Next]_vars => Opened'
  <2> SUFFICES ASSUME Opened, [Next]_vars PROVE Opened'
    OBVIOUS
  <2>1. CASE Midnight
    BY <2>1 DEF Midnight, Opened, TypeOK, At
  <2>2. CASE UNCHANGED vars
    BY <2>2 DEF vars, Opened, TypeOK, At
  <2> QED
    BY <2>1, <2>2, OpenedProcess DEF Next
<1>3. Opened => TypeOK
  BY DEF Opened
<1> QED
  BY <1>1, <1>2, <1>3, PTL DEF Spec
=============================================================================
