------------------------------- MODULE Shutdown -------------------------------
(***************************************************************************)
(* The life of the process: main opens the log file and the databases,     *)
(* ListenAndServe starts the servers and waits for a signal, and the       *)
(* deferred calls of both close everything in the opposite order.  LMTP    *)
(* transactions and web handlers run beside it; main waits for the former  *)
(* by a wait group, and for the latter not at all.                         *)
(*                                                                         *)
(* The socketmap server (without connections, which meet nothing else      *)
(* here) and the GDPR log are the modules Sockmap and FileLogger.          *)
(***************************************************************************)
EXTENDS Naturals, Sequences

CONSTANTS
    Tx,         \* LMTP transactions
    Caller,     \* web handlers that change a list and log it
    MaxEntries, \* bound: changes per handler
    MaxFaults,  \* bound: failing calls of the operating system
    Loads       \* bound: sets of transactions and handlers, one of which does something

ASSUME BoundsAssumption == MaxEntries \in Nat /\ MaxFaults \in Nat
ASSUME LoadsAssumption == Loads \subseteq SUBSET (Tx \cup Caller)

VARIABLES
    main,       \* how far main and ListenAndServe are
    deferred,   \* their deferred calls, the last one first
    signalled,  \* shutdownChan has a signal
    dbs,        \* the databases that are open
    lmtp,       \* the LMTP listener
    web,        \* the web server
    tx,         \* the transactions
    wait,       \* what main knows of the wait group
    serve, listening, done, closer, lateServe, broken,      \* Sockmap
    file, target, opened, openFiles, printf, entry,         \* FileLogger
    written, reported, closed, faults,
    pending,    \* handlers that have changed a list and not yet logged it
    committed,  \* history: the changes, each under the number of its entry
    load        \* the transactions and handlers of this behaviour

sock == <<serve, listening, done, closer, lateServe, broken>>
log  == <<file, target, opened, openFiles, printf, entry, written, reported, closed>>
hist == <<pending, committed, load>>
vars == <<main, deferred, signalled, dbs, lmtp, web, tx, wait, sock, log, faults, hist>>

Sock == INSTANCE Sockmap WITH
    Conn <- {}, pc <- <<>>, conns <- {}, open <- {}, client <- <<>>, asked <- <<>>,
    owed <- {}, input <- <<>>, late <- {}, answered <- {}, misled <- {}

Log == INSTANCE FileLogger WITH pc <- printf, open <- openFiles

Fault   == Log!Fault
NoFault == UNCHANGED faults

NewTx == [pc |-> "none", heard |-> TRUE, work |-> {}, answer |-> "nothing",
          told |-> "nothing", late |-> FALSE]

(* Between Waiting.Add and Waiting.Done.                                   *)
Working == {"decide", "receivers", "send", "save", "notify", "leave"}

(* Mutant: only Forward counts.                                            *)
ForwardingOnly == {t \in Tx : tx[t].pc \in {"receivers", "send"}}

AtWork == {t \in Tx : tx[t].pc \in Working}

(* NewFileLogger has been called.                                          *)
Init ==
    /\ main = "lists" /\ deferred = <<"closeLog">>
    /\ signalled = FALSE /\ dbs = {} /\ lmtp = "none" /\ web = "none"
    /\ tx = [t \in Tx |-> NewTx] /\ wait = "none"
    /\ Sock!Init /\ Log!Init
    /\ pending = {} /\ committed = {} /\ load \in Loads

Running == main # "exited"

-----------------------------------------------------------------------------
(* main and ListenAndServe: one step after the other, each perhaps with a  *)
(* deferred call; a step that fails returns.                               *)

Proceed(step, next) == main = step /\ main' = next
Fail(step)          == main = step /\ main' = "return" /\ Fault
Defer(call)         == deferred' = <<call>> \o deferred

OpenDatabase(step, next, call) ==
    /\ \/ Proceed(step, next) /\ Defer(call) /\ dbs' = dbs \cup {step} /\ NoFault
       \/ Fail(step) /\ UNCHANGED <<deferred, dbs>>
    /\ UNCHANGED <<signalled, lmtp, web, tx, wait, sock, log, hist>>

(* Mutant: the wait group is waited for after the databases are closed.    *)
DeferWaitFirst ==
    /\ Proceed("wait", "spool") /\ deferred' = Append(deferred, "wait")
    /\ UNCHANGED <<signalled, dbs, lmtp, web, tx, wait, sock, log, faults, hist>>

DeferWait ==
    /\ Proceed("wait", "spool") /\ Defer("wait")
    /\ UNCHANGED <<signalled, dbs, lmtp, web, tx, wait, sock, log, faults, hist>>

CheckSpool ==
    /\ \/ Proceed("spool", "sockmap") /\ NoFault
       \/ Fail("spool")
    /\ UNCHANGED <<deferred, signalled, dbs, lmtp, web, tx, wait, sock, log, hist>>

(* Close is deferred before the listener exists.                           *)
ListenSockmap ==
    /\ \/ Proceed("sockmap", "go") /\ NoFault
       \/ Fail("sockmap")
    /\ Defer("closeSockmap")
    /\ UNCHANGED <<signalled, dbs, lmtp, web, tx, wait, sock, log, hist>>

(* Two goroutines begin: Serve, and the web server.                        *)
StartServers ==
    /\ Proceed("go", "lmtp") /\ web' = "start"
    /\ UNCHANGED <<deferred, signalled, dbs, lmtp, tx, wait, sock, log, faults, hist>>

ListenLMTP ==
    /\ \/ Proceed("lmtp", "running") /\ lmtp' = "open" /\ NoFault
       \/ Fail("lmtp") /\ UNCHANGED lmtp
    /\ Defer("closeLMTP")
    /\ UNCHANGED <<signalled, dbs, web, tx, wait, sock, log, hist>>

ReceiveSignal ==
    /\ signalled /\ Proceed("running", "return")
    /\ UNCHANGED <<deferred, signalled, dbs, lmtp, web, tx, wait, sock, log, faults, hist>>

-----------------------------------------------------------------------------
(* The deferred calls *)

Calls(call) == main = "return" /\ deferred # <<>> /\ Head(deferred) = call
Returned    == deferred' = Tail(deferred) /\ UNCHANGED main

(* Connections that are registered are closed, whatever they are doing.    *)
CloseLMTP ==
    /\ Calls("closeLMTP") /\ Returned
    /\ lmtp' = "closed"
    /\ tx' = [t \in Tx |-> IF tx[t].pc \in {"none", "accepted", "done"} THEN tx[t]
                           ELSE [tx[t] EXCEPT !.heard = FALSE]]
    /\ UNCHANGED <<signalled, dbs, web, wait, sock, log, faults, hist>>

(* A panic of Close, see Sockmap, ends the process.                        *)
CloseSockmap ==
    /\ Calls("closeSockmap")
    /\ Sock!CloseBegin \/ Sock!CloseListeners \/ Sock!CloseConns
    /\ CASE closer' = "returned" -> Returned
         [] closer' = "panic"    -> main' = "exited" /\ UNCHANGED deferred
         [] OTHER                -> UNCHANGED <<main, deferred>>
    /\ UNCHANGED <<signalled, dbs, lmtp, web, tx, wait, log, faults, hist>>

(* Returns at once if nothing is being worked on.  When woken up it returns *)
(* (or panics, which makes no difference to what follows) even if          *)
(* something is being worked on again.                                     *)
Wait ==
    /\ Calls("wait")
    /\ \/ /\ wait = "none"
          /\ IF AtWork = {} THEN wait' = "over" /\ Returned
                            ELSE wait' = "blocked" /\ UNCHANGED <<main, deferred>>
       \/ wait = "released" /\ wait' = "over" /\ Returned
    /\ UNCHANGED <<signalled, dbs, lmtp, web, tx, sock, log, faults, hist>>

CloseDatabase(d, call) ==
    /\ Calls(call) /\ Returned
    /\ dbs' = dbs \ {d}
    /\ UNCHANGED <<signalled, lmtp, web, tx, wait, sock, log, faults, hist>>

CloseLog ==
    /\ Calls("closeLog") /\ Returned
    /\ Log!Close
    /\ UNCHANGED <<signalled, dbs, lmtp, web, tx, wait, sock, hist>>

Exit ==
    /\ main = "return" /\ deferred = <<>> /\ main' = "exited"
    /\ UNCHANGED <<deferred, signalled, dbs, lmtp, web, tx, wait, sock, log, faults, hist>>

-----------------------------------------------------------------------------
(* What sends a signal: the system, which kills the process before Notify  *)
(* is called, the LMTP server, the web server, and Serve.                  *)

Signal ==
    /\ Running /\ ~signalled
    /\ IF main \in {"lists", "users", "wait", "spool"}
       THEN main' = "exited" /\ UNCHANGED signalled
       ELSE signalled' = TRUE /\ UNCHANGED main
    /\ UNCHANGED <<deferred, dbs, lmtp, web, tx, wait, sock, log, faults, hist>>

WebServe ==
    /\ Running
    /\ \/ web = "start" /\ web' = "serving" /\ NoFault /\ UNCHANGED signalled
       \/ web \in {"start", "serving"} /\ web' = "failed" /\ Fault /\ signalled' = TRUE
    /\ UNCHANGED <<main, deferred, dbs, lmtp, tx, wait, sock, log, hist>>

Serve ==
    /\ Running /\ web # "none"
    /\ Sock!Append \/ Sock!Appended \/ Sock!AcceptError
    /\ UNCHANGED <<main, deferred, signalled, dbs, lmtp, web, tx, wait, log, faults, hist>>

ServeFailed ==
    /\ Running /\ serve = "failed" /\ ~signalled /\ signalled' = TRUE
    /\ UNCHANGED <<main, deferred, dbs, lmtp, web, tx, wait, sock, log, faults, hist>>

-----------------------------------------------------------------------------
(* Transactions *)

Others == <<main, deferred, signalled, dbs, lmtp, web, sock, log, faults, hist>>

At(t, step)    == Running /\ tx[t].pc = step
GoTo(t, step)  == tx' = [tx EXCEPT ![t].pc = step] /\ UNCHANGED wait
Reply(t, answer) ==
    tx' = [tx EXCEPT ![t].pc = "leave", ![t].answer = answer] /\ UNCHANGED wait

(* The transaction when Data has returned, or panicked, which the SMTP     *)
(* library takes for a temporary error.                                    *)
Ended(t, answer) ==
    [tx[t] EXCEPT !.pc = "done", !.told = IF tx[t].heard THEN answer ELSE "nothing"]

Accept(t) ==
    /\ t \in load /\ At(t, "none") /\ lmtp = "open"
    /\ GoTo(t, "accepted") /\ UNCHANGED Others

(* The library registers the connection, rcpt loads the list.              *)
Rcpt(t) ==
    /\ At(t, "accepted")
    /\ IF "lists" \in dbs THEN GoTo(t, "data")
                          ELSE tx' = [tx EXCEPT ![t] = Ended(t, "later")] /\ UNCHANGED wait
    /\ UNCHANGED Others

(* Waiting.Add.  If it comes between the check of the last Done and the    *)
(* waking of main, it panics, and Done may panic too: then nobody wakes    *)
(* main.                                                                   *)
Data(t) ==
    /\ At(t, "data")
    /\ LET last == {d \in Tx : tx[d].pc = "releasing"} IN
       IF last = {}
       THEN /\ tx' = [tx EXCEPT ![t].pc = "decide", ![t].late = wait \in {"released", "over"}]
            /\ UNCHANGED wait
       ELSE \E stuck \in BOOLEAN :
            /\ tx' = [d \in Tx |-> IF d = t THEN Ended(d, "later")
                                   ELSE IF d \in last
                                        THEN Ended(d, IF stuck THEN "later" ELSE tx[d].answer)
                                        ELSE tx[d]]
            /\ wait' = IF stuck THEN "stuck" ELSE "released"
    /\ UNCHANGED Others

(* ReadMessage, which fails if the connection was cut, and GetAction.      *)
Decide(t) ==
    /\ At(t, "decide")
    /\ \/ "lists" \in dbs /\ GoTo(t, "receivers")
       \/ "lists" \in dbs /\ GoTo(t, "save")
       \/ ("lists" \notin dbs \/ ~tx[t].heard) /\ Reply(t, "later")
    /\ UNCHANGED Others

(* Forward *)
Receivers(t) ==
    /\ At(t, "receivers")
    /\ IF "lists" \in dbs THEN GoTo(t, "send") ELSE Reply(t, "later")
    /\ UNCHANGED Others

Send(t) ==
    /\ At(t, "send")
    /\ tx' = [tx EXCEPT ![t].pc = "leave", ![t].answer = "delivered", ![t].work = {"sent"}]
    /\ UNCHANGED wait /\ UNCHANGED Others

Save(t) ==
    /\ At(t, "save")
    /\ tx' = [tx EXCEPT ![t].pc = "notify", ![t].work = {"saved"}]
    /\ UNCHANGED wait /\ UNCHANGED Others

Notify(t) ==
    /\ At(t, "notify")
    /\ Reply(t, IF "lists" \in dbs THEN "delivered" ELSE "later")
    /\ UNCHANGED Others

(* Mutant: Done is not deferred, and forgotten when data() fails.          *)
LeaveOnSuccess(t) ==
    /\ At(t, "leave") /\ tx[t].answer = "delivered"
    /\ IF wait = "blocked" /\ AtWork = {t}
       THEN GoTo(t, "releasing")
       ELSE tx' = [tx EXCEPT ![t] = Ended(t, @.answer)] /\ UNCHANGED wait
    /\ UNCHANGED Others

(* Waiting.Done: the last one has main to wake.                            *)
Leave(t) ==
    /\ At(t, "leave")
    /\ IF wait = "blocked" /\ AtWork = {t}
       THEN GoTo(t, "releasing")
       ELSE tx' = [tx EXCEPT ![t] = Ended(t, @.answer)] /\ UNCHANGED wait
    /\ UNCHANGED Others

Release(t) ==
    /\ At(t, "releasing")
    /\ tx' = [tx EXCEPT ![t] = Ended(t, @.answer)] /\ wait' = "released"
    /\ UNCHANGED Others

Work(t) ==
    \/ Decide(t) \/ Receivers(t) \/ Send(t) \/ Save(t) \/ Notify(t) \/ Leave(t) \/ Release(t)

-----------------------------------------------------------------------------
(* Web handlers: AddMembers and RemoveMembers change the database first and *)
(* log it later.                                                           *)

Commit(c) ==
    /\ c \in load /\ Running /\ web = "serving" /\ "lists" \in dbs
    /\ printf[c] = "idle" /\ c \notin pending /\ entry[c] < MaxEntries
    /\ committed' = committed \cup {<<c, entry[c] + 1>>} /\ pending' = pending \cup {c}
    /\ UNCHANGED <<main, deferred, signalled, dbs, lmtp, web, tx, wait, sock, log, faults, load>>

(* Mutant: returns, without a word, when a welcome mail cannot be sent.    *)
CallLogUnlessMailFails(c) ==
    /\ Running /\ c \in pending /\ pending' = pending \ {c}
    /\ Log!Call(c) \/ UNCHANGED <<log, faults>>
    /\ UNCHANGED <<main, deferred, signalled, dbs, lmtp, web, tx, wait, sock, committed, load>>

CallLog(c) ==
    /\ Running /\ c \in pending /\ pending' = pending \ {c}
    /\ Log!Call(c)
    /\ UNCHANGED <<main, deferred, signalled, dbs, lmtp, web, tx, wait, sock, committed, load>>

Printf(c) ==
    /\ Running
    /\ \/ Log!FirstTry(c) \/ Log!CloseFile(c) \/ Log!Reopen(c)
       \/ Log!SecondTry(c) \/ Log!Sync(c)
    /\ UNCHANGED <<main, deferred, signalled, dbs, lmtp, web, tx, wait, sock, hist>>

-----------------------------------------------------------------------------
Main ==
    \/ OpenDatabase("lists", "users", "closeLists")
    \/ OpenDatabase("users", "wait", "closeUsers")
    \/ DeferWait \/ CheckSpool \/ ListenSockmap \/ StartServers \/ ListenLMTP
    \/ ReceiveSignal
    \/ CloseLMTP \/ CloseSockmap \/ Wait
    \/ CloseDatabase("users", "closeUsers") \/ CloseDatabase("lists", "closeLists")
    \/ CloseLog \/ Exit

Next ==
    \/ Main \/ Signal \/ WebServe \/ Serve \/ ServeFailed
    \/ \E t \in Tx : Accept(t) \/ Rcpt(t) \/ Data(t) \/ Work(t)
    \/ \E c \in Caller : Commit(c) \/ CallLog(c) \/ Printf(c)

Spec == Init /\ [][Next]_vars

(* The calls of main and of transactions under way return.  Clients, web   *)
(* handlers and whoever sends a signal do what they want.                  *)
FairSpec == Spec /\ WF_vars(Main) /\ WF_vars(ServeFailed) /\ \A t \in Tx : WF_vars(Work(t))

-----------------------------------------------------------------------------
(* Types, and of the stack: every call is deferred once.                   *)
TypeOK ==
    /\ main \in {"lists", "users", "wait", "spool", "sockmap", "go", "lmtp", "running",
                 "return", "exited"}
    /\ deferred \in Seq({"closeLog", "closeLists", "closeUsers", "wait", "closeSockmap", "closeLMTP"})
    /\ \A i, j \in DOMAIN deferred : deferred[i] = deferred[j] => i = j
    /\ signalled \in BOOLEAN /\ dbs \subseteq {"lists", "users"}
    /\ lmtp \in {"none", "open", "closed"} /\ web \in {"none", "start", "serving", "failed"}
    /\ wait \in {"none", "blocked", "released", "over", "stuck"}
    /\ tx \in [Tx -> [pc: {"none", "accepted", "data", "releasing", "done"} \cup Working,
                      heard: BOOLEAN, work: SUBSET {"sent", "saved"},
                      answer: {"nothing", "delivered", "later"},
                      told: {"nothing", "delivered", "later"}, late: BOOLEAN]]
    /\ pending \subseteq Caller /\ committed \subseteq Caller \X (1..MaxEntries)
    /\ load \in Loads
    /\ Log!TypeOK /\ Sock!TypeOK

(* While a transaction is under way that began before main had finished    *)
(* waiting, the databases stay open; one that began later may find them    *)
(* closed between any two of its steps.                                    *)
WaitedTransactionsComplete ==
    \A t \in Tx : tx[t].pc \in Working /\ ~tx[t].late => dbs = {"lists", "users"}

(* A mail that was sent or saved and that the MTA is not told about will   *)
(* be sent or saved again.  An orderly shutdown causes this only by        *)
(* closing the connection of a transaction, and for those that begin after *)
(* main has waited or break the wait group.                                *)
RepeatedOnlyIfCut ==
    \A t \in Tx :
       tx[t].pc = "done" /\ tx[t].work # {} /\ tx[t].told # "delivered"
          => ~tx[t].heard \/ tx[t].late \/ wait = "stuck"

(* Whatever the moment of the shutdown, a change of the members is in the  *)
(* log, or still on its way to it, or a write has failed or the log was    *)
(* closed, and then nobody is told that it has been logged.                *)
ChangesAreLogged ==
    \A e \in committed :
       \/ e \in written \/ e[1] \in pending
       \/ e[2] = entry[e[1]] /\ printf[e[1]] # "idle"
       \/ (faults > 0 \/ closed) /\ e \notin reported

(* See FileLogger; here Close comes when main is done, and handlers go on. *)
ReportedMeansWritten == Log!ReportedMeansWritten
NoDescriptorLeft == Log!NoDescriptorLeft

(* After a signal, the failure of a server or of a step of the start, the  *)
(* process ends, unless a transaction broke the wait group.                *)
ProcessEnds ==
    (signalled \/ serve = "failed" \/ main = "return") ~> (main = "exited" \/ wait = "stuck")
=============================================================================
