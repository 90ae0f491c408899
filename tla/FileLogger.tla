------------------------------ MODULE FileLogger ------------------------------
(***************************************************************************)
(* The GDPR log: Printf of several goroutines under one lock, with the     *)
(* second try after a write error, and Close, which takes no lock.         *)
(*                                                                         *)
(* A file descriptor is the number of the call of os.OpenFile that         *)
(* returned it; zero is the nil file.  An entry is the call of Printf that *)
(* writes it.                                                              *)
(***************************************************************************)
EXTENDS Naturals

CONSTANTS
    Caller,     \* goroutines that log
    MaxEntries, \* bound: entries per caller
    MaxFaults   \* bound: failing calls of the operating system

VARIABLES
    file,       \* FileLogger.file
    target,     \* the file which FileLogger.logger writes to
    opened,     \* calls of os.OpenFile that were successful
    open,       \* open file descriptors
    pc,         \* how far each caller is in Printf
    entry,      \* the current entry of each caller
    written,    \* entries that are completely in a file
    reported,   \* entries that the caller believes to be in a file
    closed,     \* Close has been called
    faults

vars == <<file, target, opened, open, pc, entry, written, reported, closed, faults>>

Inside == {"first", "close", "reopen", "second", "sync"}

Init ==
    /\ file = 1 /\ target = 1 /\ opened = 1 /\ open = {1}
    /\ pc = [c \in Caller |-> "idle"]
    /\ entry = [c \in Caller |-> 0]
    /\ written = {} /\ reported = {}
    /\ closed = FALSE /\ faults = 0

Fault == faults < MaxFaults /\ faults' = faults + 1
GoTo(c, s) == pc' = [pc EXCEPT ![c] = s]

(* Printf returns, with nil if ok.                                         *)
Return(c, ok) ==
    /\ GoTo(c, "idle")
    /\ reported' = IF ok THEN reported \cup {<<c, entry[c]>>} ELSE reported

-----------------------------------------------------------------------------
(* Mutant: no lock.                                                        *)
CallUnlocked(c) ==
    /\ pc[c] = "idle" /\ entry[c] < MaxEntries
    /\ entry' = [entry EXCEPT ![c] = @ + 1]
    /\ GoTo(c, "first")
    /\ UNCHANGED <<file, target, opened, open, written, reported, closed, faults>>

(* Printf begins when it has the lock.                                     *)
Call(c) ==
    /\ pc[c] = "idle" /\ entry[c] < MaxEntries
    /\ \A d \in Caller : pc[d] \notin Inside
    /\ entry' = [entry EXCEPT ![c] = @ + 1]
    /\ GoTo(c, "first")
    /\ UNCHANGED <<file, target, opened, open, written, reported, closed, faults>>

(* FileLogger.printf: false if the file is closed, or full, when it may    *)
(* have written a part of the entry.                                       *)
Write(c, ok) ==
    IF ok
    THEN target \in open /\ written' = written \cup {<<c, entry[c]>>} /\ UNCHANGED faults
    ELSE /\ \/ target \notin open /\ UNCHANGED faults
            \/ Fault
         /\ UNCHANGED written

(* Mutant: the error of the first try is taken for success.                *)
FirstTryIgnored(c) ==
    /\ pc[c] = "first" /\ \E ok \in BOOLEAN : Write(c, ok) /\ GoTo(c, "sync")
    /\ UNCHANGED <<file, target, opened, open, entry, reported, closed>>

FirstTry(c) ==
    /\ pc[c] = "first"
    /\ \E ok \in BOOLEAN : Write(c, ok) /\ GoTo(c, IF ok THEN "sync" ELSE "close")
    /\ UNCHANGED <<file, target, opened, open, entry, reported, closed>>

CloseFile(c) ==
    /\ pc[c] = "close" /\ GoTo(c, "reopen")
    /\ open' = open \ {file}
    /\ UNCHANGED <<file, target, opened, entry, written, reported, closed, faults>>

(* Mutant: openFile makes the new logger before it looks at the error.     *)
ReopenLogger(c) ==
    /\ pc[c] = "reopen"
    /\ \/ /\ opened' = opened + 1
          /\ file' = opened' /\ target' = opened'
          /\ open' = open \cup {opened'}
          /\ GoTo(c, "second")
          /\ UNCHANGED <<reported, faults>>
       \/ Fault /\ file' = 0 /\ target' = 0 /\ Return(c, FALSE) /\ UNCHANGED <<opened, open>>
    /\ UNCHANGED <<entry, written, closed>>

(* openFile assigns a nil file if it fails, and does not touch the logger. *)
Reopen(c) ==
    /\ pc[c] = "reopen"
    /\ \/ /\ opened' = opened + 1
          /\ file' = opened'
          /\ open' = open \cup {opened'}
          /\ GoTo(c, "second")
          /\ UNCHANGED <<reported, faults>>
       \/ Fault /\ file' = 0 /\ Return(c, FALSE) /\ UNCHANGED <<opened, open>>
    /\ UNCHANGED <<target, entry, written, closed>>

SecondTry(c) ==
    /\ pc[c] = "second"
    /\ \E ok \in BOOLEAN :
          /\ Write(c, ok)
          /\ IF ok THEN GoTo(c, "sync") /\ UNCHANGED reported ELSE Return(c, FALSE)
    /\ UNCHANGED <<file, target, opened, open, entry, closed>>

(* The result of Sync is the result of Printf.                             *)
Sync(c) ==
    /\ pc[c] = "sync"
    /\ \/ file \in open /\ Return(c, TRUE) /\ UNCHANGED faults
       \/ file \notin open /\ Return(c, FALSE) /\ UNCHANGED faults
       \/ Fault /\ Return(c, FALSE)
    /\ UNCHANGED <<file, target, opened, open, entry, written, closed>>

(* The deferred call in main; web handlers may still be running.           *)
Close ==
    /\ ~closed /\ closed' = TRUE
    /\ open' = open \ {file}
    /\ UNCHANGED <<file, target, opened, pc, entry, written, reported, faults>>

Next ==
    \/ \E c \in Caller : \/ Call(c) \/ FirstTry(c) \/ CloseFile(c) \/ Reopen(c)
                         \/ SecondTry(c) \/ Sync(c)
    \/ Close

Spec == Init /\ [][Next]_vars

-----------------------------------------------------------------------------
(* Type invariant.                                                         *)
TypeOK ==
    /\ opened \in Nat /\ file \in 0..opened /\ target \in 1..opened /\ open \subseteq 1..opened
    /\ pc \in [Caller -> Inside \cup {"idle"}]
    /\ entry \in [Caller -> 0..MaxEntries]
    /\ written \subseteq Caller \X (1..MaxEntries)
    /\ reported \subseteq Caller \X (1..MaxEntries)
    /\ closed \in BOOLEAN /\ faults \in 0..MaxFaults

(* If Printf returns nil, the entry is in a file, whatever goes wrong, and *)
(* even if Close is called meanwhile.                                      *)
ReportedMeansWritten == reported \subseteq written

(* However often the file is reopened, no descriptor is left behind: only  *)
(* the current file can be open.                                           *)
NoDescriptorLeft == open \subseteq {file}

(* "In case of a write error, we reopen the file and try again."           *)
(* (filelogger.go:41) Until Close is called, the second try goes to an     *)
(* open file.  It does not: the logger keeps the file it was made with.    *)
SecondTryCanSucceed == \A c \in Caller : pc[c] = "second" /\ ~closed => target \in open
=============================================================================
