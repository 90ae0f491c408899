--------------------------- MODULE FileLoggerProof ---------------------------
(***************************************************************************)
(* Proofs about the GDPR log, for any number of callers, entries and       *)
(* faults.                                                                 *)
(***************************************************************************)
EXTENDS FileLogger, TLAPS

(* What the lock, the order of printf and the order of Close and openFile  *)
(* keep true between two steps:                                            *)

(* at most one goroutine is behind the lock;                               *)
OneInside == \A c, d \in Caller : pc[c] \in Inside /\ pc[d] \in Inside => c = d

(* a caller in Printf has an entry;                                        *)
InsideHasEntry == \A c \in Caller : pc[c] \in Inside => entry[c] \in 1..MaxEntries

(* only a complete entry is synced;                                        *)
SyncedIsWritten == \A c \in Caller : pc[c] = "sync" => <<c, entry[c]>> \in written

(* and no file is open when the next one is opened.                        *)
NothingOpen == \A c \in Caller : pc[c] = "reopen" => open = {}

LogInv ==
    /\ TypeOK
    /\ OneInside /\ InsideHasEntry
    /\ SyncedIsWritten /\ ReportedMeansWritten
    /\ NothingOpen /\ NoDescriptorLeft

-----------------------------------------------------------------------------
LEMMA LogInit ==
    ASSUME MaxEntries \in Nat, MaxFaults \in Nat, Init
    PROVE  LogInv
<1> USE DEF Init
<1>1. pc \in [Caller -> Inside \cup {"idle"}] /\ entry \in [Caller -> 0..MaxEntries]
  <2>1. 0 \in 0..MaxEntries
    OBVIOUS
  <2> QED  BY <2>1, Zenon
<1>2. faults \in 0..MaxFaults /\ written = {} /\ reported = {}
  OBVIOUS
<1>3. opened \in Nat /\ file \in 0..opened /\ target \in 1..opened /\ open \subseteq 1..opened
  OBVIOUS
<1>4. TypeOK
  <2>1. closed \in BOOLEAN
    BY Zenon
  <2> QED  BY <1>1, <1>2, <1>3, <2>1 DEF TypeOK
<1>5. OneInside /\ InsideHasEntry /\ SyncedIsWritten /\ NothingOpen
  BY DEF OneInside, InsideHasEntry, SyncedIsWritten, NothingOpen, Inside
<1>6. ReportedMeansWritten /\ NoDescriptorLeft
  BY DEF ReportedMeansWritten, NoDescriptorLeft
<1> QED  BY <1>4, <1>5, <1>6 DEF LogInv

(* What a try of FileLogger.printf does to the entries and to the bound.   *)
LEMMA WriteGrows ==
    ASSUME LogInv, NEW c \in Caller, pc[c] \in Inside, NEW ok \in BOOLEAN, Write(c, ok),
           MaxFaults \in Nat
    PROVE  /\ written \subseteq written' /\ written' \subseteq Caller \X (1..MaxEntries)
           /\ ok => <<c, entry[c]>> \in written'
           /\ faults' \in 0..MaxFaults
  BY DEF LogInv, TypeOK, InsideHasEntry, Write, Fault

(* A step of a caller behind the lock that goes on to another phase.       *)
LEMMA OneStepsOn ==
    ASSUME LogInv, NEW c \in Caller, pc[c] \in Inside,
           NEW s \in Inside \cup {"idle"}, GoTo(c, s)
    PROVE  /\ pc' \in [Caller -> Inside \cup {"idle"}] /\ pc'[c] = s
           /\ \A d \in Caller \ {c} : pc'[d] = pc[d] /\ pc[d] = "idle"
           /\ OneInside'
  BY DEF LogInv, TypeOK, OneInside, GoTo, Inside

(* Printf begins: the lock was free.                                       *)
LEMMA CallKeeps ==
    ASSUME LogInv, MaxEntries \in Nat, NEW c \in Caller, Call(c)
    PROVE  LogInv'
<1>1. pc' = [pc EXCEPT ![c] = "first"] /\ entry' = [entry EXCEPT ![c] = @ + 1]
  BY DEF Call, GoTo
<1>2. \A d \in Caller : pc[d] = "idle"
  BY DEF Call, LogInv, TypeOK, Inside
<1>3. entry[c] < MaxEntries /\ entry[c] \in Nat
  BY DEF Call, LogInv, TypeOK
<1>4. TypeOK'
  BY <1>1, <1>3 DEF Call, LogInv, TypeOK, Inside
<1>5. OneInside' /\ InsideHasEntry'
  BY <1>1, <1>2, <1>3 DEF LogInv, TypeOK, OneInside, InsideHasEntry, Inside
<1>6. SyncedIsWritten' /\ NothingOpen'
  BY <1>1, <1>2 DEF LogInv, TypeOK, SyncedIsWritten, NothingOpen
<1>7. ReportedMeansWritten' /\ NoDescriptorLeft'
  BY DEF Call, LogInv, ReportedMeansWritten, NoDescriptorLeft
<1> QED  BY <1>4, <1>5, <1>6, <1>7 DEF LogInv

LEMMA FirstTryKeeps ==
    ASSUME LogInv, MaxFaults \in Nat, NEW c \in Caller, FirstTry(c)
    PROVE  LogInv'
<1>1. PICK ok \in BOOLEAN : Write(c, ok) /\ GoTo(c, IF ok THEN "sync" ELSE "close")
  BY DEF FirstTry
<1>2. pc[c] = "first" /\ UNCHANGED <<file, target, opened, open, entry, reported, closed>>
  BY DEF FirstTry
<1>3. /\ written \subseteq written' /\ written' \subseteq Caller \X (1..MaxEntries)
      /\ ok => <<c, entry[c]>> \in written'
      /\ faults' \in 0..MaxFaults
  BY <1>1, <1>2, WriteGrows DEF Inside
<1> DEFINE s == IF ok THEN "sync" ELSE "close"
<1>4. s \in {"sync", "close"} /\ (s = "sync" => ok) /\ GoTo(c, s)
  BY <1>1
<1> HIDE DEF s
<1>5. /\ pc' \in [Caller -> Inside \cup {"idle"}] /\ pc'[c] = s
      /\ \A d \in Caller \ {c} : pc'[d] = pc[d] /\ pc[d] = "idle"
      /\ OneInside'
  BY <1>2, <1>4, OneStepsOn DEF Inside
<1>6. TypeOK'
  BY <1>2, <1>3, <1>5 DEF LogInv, TypeOK
<1>7. InsideHasEntry'
  BY <1>2, <1>5 DEF LogInv, InsideHasEntry, Inside
<1>8. SyncedIsWritten' /\ ReportedMeansWritten'
  BY <1>2, <1>3, <1>4, <1>5 DEF LogInv, SyncedIsWritten, ReportedMeansWritten
<1>9. NothingOpen' /\ NoDescriptorLeft'
  BY <1>2, <1>4, <1>5 DEF LogInv, NothingOpen, NoDescriptorLeft
<1> QED  BY <1>5, <1>6, <1>7, <1>8, <1>9 DEF LogInv

(* The only open file is the one that is closed before the next is opened. *)
LEMMA CloseFileKeeps ==
    ASSUME LogInv, NEW c \in Caller, CloseFile(c)
    PROVE  LogInv'
<1>1. pc[c] = "close" /\ GoTo(c, "reopen") /\ open' = open \ {file}
      /\ UNCHANGED <<file, target, opened, entry, written, reported, closed, faults>>
  BY DEF CloseFile
<1>2. /\ pc' \in [Caller -> Inside \cup {"idle"}] /\ pc'[c] = "reopen"
      /\ \A d \in Caller \ {c} : pc'[d] = pc[d] /\ pc[d] = "idle"
      /\ OneInside'
  BY <1>1, OneStepsOn DEF Inside
<1>3. open' = {}
  BY <1>1 DEF LogInv, NoDescriptorLeft
<1>4. TypeOK'
  BY <1>1, <1>2, <1>3 DEF LogInv, TypeOK
<1>5. InsideHasEntry' /\ SyncedIsWritten' /\ ReportedMeansWritten'
  BY <1>1, <1>2 DEF LogInv, InsideHasEntry, SyncedIsWritten, ReportedMeansWritten, Inside
<1>6. NothingOpen' /\ NoDescriptorLeft'
  BY <1>3 DEF NothingOpen, NoDescriptorLeft
<1> QED  BY <1>2, <1>4, <1>5, <1>6 DEF LogInv

LEMMA ReopenKeeps ==
    ASSUME LogInv, MaxFaults \in Nat, NEW c \in Caller, Reopen(c)
    PROVE  LogInv'
<1>1. pc[c] = "reopen" /\ UNCHANGED <<target, entry, written, closed>>
  BY DEF Reopen
<1>2. open = {}
  BY <1>1 DEF LogInv, NothingOpen
<1>3. CASE /\ opened' = opened + 1 /\ file' = opened' /\ open' = open \cup {opened'}
           /\ GoTo(c, "second") /\ UNCHANGED <<reported, faults>>
  <2>1. /\ pc' \in [Caller -> Inside \cup {"idle"}] /\ pc'[c] = "second"
        /\ \A d \in Caller \ {c} : pc'[d] = pc[d] /\ pc[d] = "idle"
        /\ OneInside'
    BY <1>1, <1>3, OneStepsOn DEF Inside
  <2>2. TypeOK'
    BY <1>1, <1>2, <1>3, <2>1 DEF LogInv, TypeOK
  <2>3. InsideHasEntry' /\ SyncedIsWritten' /\ ReportedMeansWritten'
    BY <1>1, <1>3, <2>1 DEF LogInv, InsideHasEntry, SyncedIsWritten, ReportedMeansWritten, Inside
  <2>4. NothingOpen' /\ NoDescriptorLeft'
    BY <1>2, <1>3, <2>1 DEF NothingOpen, NoDescriptorLeft
  <2> QED  BY <2>1, <2>2, <2>3, <2>4 DEF LogInv
<1>4. CASE Fault /\ file' = 0 /\ Return(c, FALSE) /\ UNCHANGED <<opened, open>>
  <2>1. GoTo(c, "idle") /\ reported' = reported /\ faults' \in 0..MaxFaults
    BY <1>4 DEF Return, Fault, LogInv, TypeOK
  <2>2. /\ pc' \in [Caller -> Inside \cup {"idle"}] /\ pc'[c] = "idle"
        /\ \A d \in Caller \ {c} : pc'[d] = pc[d] /\ pc[d] = "idle"
        /\ OneInside'
    BY <1>1, <2>1, OneStepsOn DEF Inside
  <2>3. TypeOK'
    BY <1>1, <1>2, <1>4, <2>1, <2>2 DEF LogInv, TypeOK
  <2>4. InsideHasEntry' /\ SyncedIsWritten' /\ ReportedMeansWritten'
    BY <1>1, <2>1, <2>2 DEF LogInv, InsideHasEntry, SyncedIsWritten, ReportedMeansWritten, Inside
  <2>5. NothingOpen' /\ NoDescriptorLeft'
    BY <1>2, <1>4 DEF NothingOpen, NoDescriptorLeft
  <2> QED  BY <2>2, <2>3, <2>4, <2>5 DEF LogInv
<1> QED  BY <1>3, <1>4 DEF Reopen

LEMMA SecondTryKeeps ==
    ASSUME LogInv, MaxFaults \in Nat, NEW c \in Caller, SecondTry(c)
    PROVE  LogInv'
<1>1. PICK ok \in BOOLEAN :
         /\ Write(c, ok)
         /\ IF ok THEN GoTo(c, "sync") /\ UNCHANGED reported ELSE Return(c, FALSE)
  BY DEF SecondTry
<1>2. pc[c] = "second" /\ UNCHANGED <<file, target, opened, open, entry, closed>>
  BY DEF SecondTry
<1>3. /\ written \subseteq written' /\ written' \subseteq Caller \X (1..MaxEntries)
      /\ ok => <<c, entry[c]>> \in written'
      /\ faults' \in 0..MaxFaults
  BY <1>1, <1>2, WriteGrows DEF Inside
<1> DEFINE s == IF ok THEN "sync" ELSE "idle"
<1>4. s \in {"sync", "idle"} /\ (s = "sync" => ok) /\ GoTo(c, s) /\ reported' = reported
  BY <1>1 DEF Return
<1> HIDE DEF s
<1>5. /\ pc' \in [Caller -> Inside \cup {"idle"}] /\ pc'[c] = s
      /\ \A d \in Caller \ {c} : pc'[d] = pc[d] /\ pc[d] = "idle"
      /\ OneInside'
  BY <1>2, <1>4, OneStepsOn DEF Inside
<1>6. TypeOK'
  BY <1>2, <1>3, <1>4, <1>5 DEF LogInv, TypeOK
<1>7. InsideHasEntry'
  BY <1>2, <1>5 DEF LogInv, InsideHasEntry, Inside
<1>8. SyncedIsWritten' /\ ReportedMeansWritten'
  BY <1>2, <1>3, <1>4, <1>5 DEF LogInv, SyncedIsWritten, ReportedMeansWritten
<1>9. NothingOpen' /\ NoDescriptorLeft'
  BY <1>2, <1>4, <1>5 DEF LogInv, NothingOpen, NoDescriptorLeft
<1> QED  BY <1>5, <1>6, <1>7, <1>8, <1>9 DEF LogInv

(* Printf returns nil only here, and the entry has been written before.    *)
LEMMA SyncKeeps ==
    ASSUME LogInv, MaxFaults \in Nat, NEW c \in Caller, Sync(c)
    PROVE  LogInv'
<1>1. pc[c] = "sync" /\ UNCHANGED <<file, target, opened, open, entry, written, closed>>
  BY DEF Sync
<1>2. <<c, entry[c]>> \in written
  BY <1>1 DEF LogInv, SyncedIsWritten
<1>3. GoTo(c, "idle") /\ reported' \subseteq reported \cup {<<c, entry[c]>>}
  BY DEF Sync, Return
<1>4. faults' \in 0..MaxFaults
  <2>1. UNCHANGED faults \/ Fault
    BY DEF Sync
  <2> QED  BY <2>1 DEF Fault, LogInv, TypeOK
<1>5. /\ pc' \in [Caller -> Inside \cup {"idle"}] /\ pc'[c] = "idle"
      /\ \A d \in Caller \ {c} : pc'[d] = pc[d] /\ pc[d] = "idle"
      /\ OneInside'
  BY <1>1, <1>3, OneStepsOn DEF Inside
<1>6. reported' \subseteq written'
  BY <1>1, <1>2, <1>3 DEF LogInv, ReportedMeansWritten
<1>7. TypeOK'
  BY <1>1, <1>4, <1>5, <1>6 DEF LogInv, TypeOK
<1>8. InsideHasEntry' /\ SyncedIsWritten'
  BY <1>1, <1>5 DEF LogInv, InsideHasEntry, SyncedIsWritten, Inside
<1>9. NothingOpen' /\ NoDescriptorLeft'
  BY <1>1, <1>5 DEF LogInv, NothingOpen, NoDescriptorLeft
<1> QED  BY <1>5, <1>6, <1>7, <1>8, <1>9 DEF LogInv, ReportedMeansWritten

(* Close takes no lock; it only takes a descriptor away.                   *)
LEMMA CloseKeeps ==
    ASSUME LogInv, Close
    PROVE  LogInv'
<1>1. open' \subseteq open /\ closed' = TRUE
      /\ UNCHANGED <<file, target, opened, pc, entry, written, reported, faults>>
  BY DEF Close
<1>2. TypeOK' /\ NothingOpen' /\ NoDescriptorLeft'
  BY <1>1 DEF LogInv, TypeOK, NothingOpen, NoDescriptorLeft
<1>3. OneInside' /\ InsideHasEntry' /\ SyncedIsWritten' /\ ReportedMeansWritten'
  BY <1>1 DEF LogInv, OneInside, InsideHasEntry, SyncedIsWritten, ReportedMeansWritten
<1> QED  BY <1>2, <1>3 DEF LogInv

LEMMA LogStutter ==
    ASSUME LogInv, UNCHANGED vars
    PROVE  LogInv'
<1> USE DEF vars, LogInv
<1>1. TypeOK'
  BY DEF TypeOK
<1>2. OneInside' /\ InsideHasEntry' /\ SyncedIsWritten' /\ NothingOpen'
  BY DEF OneInside, InsideHasEntry, SyncedIsWritten, NothingOpen
<1>3. ReportedMeansWritten' /\ NoDescriptorLeft'
  BY DEF ReportedMeansWritten, NoDescriptorLeft
<1> QED  BY <1>1, <1>2, <1>3

-----------------------------------------------------------------------------
LEMMA LogInvariant ==
    ASSUME MaxEntries \in Nat, MaxFaults \in Nat
    PROVE  Spec => []LogInv
<1>1. Init => LogInv
  BY LogInit
<1>2. LogInv /\ [Next]_vars => LogInv'
  <2> SUFFICES ASSUME LogInv, [Next]_vars
               PROVE  LogInv'
    OBVIOUS
  <2>1. ASSUME NEW c \in Caller, Call(c)  PROVE LogInv'
    BY <2>1, CallKeeps
  <2>2. ASSUME NEW c \in Caller, FirstTry(c)  PROVE LogInv'
    BY <2>2, FirstTryKeeps
  <2>3. ASSUME NEW c \in Caller, CloseFile(c)  PROVE LogInv'
    BY <2>3, CloseFileKeeps
  <2>4. ASSUME NEW c \in Caller, Reopen(c)  PROVE LogInv'
    BY <2>4, ReopenKeeps
  <2>5. ASSUME NEW c \in Caller, SecondTry(c)  PROVE LogInv'
    BY <2>5, SecondTryKeeps
  <2>6. ASSUME NEW c \in Caller, Sync(c)  PROVE LogInv'
    BY <2>6, SyncKeeps
  <2>7. CASE Close
    BY <2>7, CloseKeeps
  <2>8. CASE UNCHANGED vars
    BY <2>8, LogStutter
  <2> QED  BY <2>1, <2>2, <2>3, <2>4, <2>5, <2>6, <2>7, <2>8 DEF Next
<1> QED  BY <1>1, <1>2, PTL DEF Spec

(* Whatever goes wrong with the file, and if Close comes in between: what  *)
(* Printf reports as logged is in a file.                                  *)
THEOREM LogIsTruthful ==
    ASSUME MaxEntries \in Nat, MaxFaults \in Nat
    PROVE  Spec => []ReportedMeansWritten
<1>1. LogInv => ReportedMeansWritten
  BY DEF LogInv
<1> QED  BY <1>1, LogInvariant, PTL

(* However often Printf reopens the file, and whoever is in it when Close  *)
(* comes, no descriptor but that of the current file is open.              *)
THEOREM LogLeavesNoDescriptor ==
    ASSUME MaxEntries \in Nat, MaxFaults \in Nat
    PROVE  Spec => []NoDescriptorLeft
<1>1. LogInv => NoDescriptorLeft
  BY DEF LogInv
<1> QED  BY <1>1, LogInvariant, PTL
=============================================================================
