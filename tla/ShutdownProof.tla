---------------------------- MODULE ShutdownProof ----------------------------
(***************************************************************************)
(* What holds of the process at every moment between its start and its     *)
(* end, proved for any number of transactions, web handlers, log entries   *)
(* and failing calls.                                                      *)
(*                                                                         *)
(* Everything rests on the stack of deferred calls: it has one of seven    *)
(* values, and what is open, and whether main has waited, can be told from *)
(* it.  About the log, the lemmas of FileLoggerProof are used.             *)
(***************************************************************************)
EXTENDS Shutdown, SequenceTheorems, TLAPS

LogP == INSTANCE FileLoggerProof WITH pc <- printf, open <- openFiles

-----------------------------------------------------------------------------
(* The stack, from the bottom up.                                          *)
S0 == <<>>
S1 == <<"closeLog">>
S2 == <<"closeLists", "closeLog">>
S3 == <<"closeUsers", "closeLists", "closeLog">>
S4 == <<"wait", "closeUsers", "closeLists", "closeLog">>
S5 == <<"closeSockmap", "wait", "closeUsers", "closeLists", "closeLog">>
S6 == <<"closeLMTP", "closeSockmap", "wait", "closeUsers", "closeLists", "closeLog">>

WithLists == {S2, S3, S4, S5, S6}
WithUsers == {S3, S4, S5, S6}
WithWait  == {S4, S5, S6}

MainStep == {"lists", "users", "wait", "spool", "sockmap", "go", "lmtp", "running",
             "return", "exited"}

Stages ==
    /\ main \in MainStep
    /\ deferred \in {S0, S1} \cup WithLists
    /\ main = "lists" => deferred = S1
    /\ main = "users" => deferred = S2
    /\ main = "wait"  => deferred = S3
    /\ main \in {"spool", "sockmap"} => deferred = S4
    /\ main \in {"go", "lmtp"} => deferred = S5
    /\ main = "running" => deferred = S6
    /\ dbs \subseteq {"lists", "users"}
    /\ "lists" \in dbs <=> deferred \in WithLists
    /\ "users" \in dbs <=> deferred \in WithUsers

-----------------------------------------------------------------------------
(* The wait group.  While main waits the databases are open; when it has   *)
(* waited, those who are at work began later; one transaction at most      *)
(* wakes it.                                                               *)
TxType == [pc: {"none", "accepted", "data", "releasing", "done"} \cup Working,
           heard: BOOLEAN, work: SUBSET {"sent", "saved"},
           answer: {"nothing", "delivered", "later"},
           told: {"nothing", "delivered", "later"}, late: BOOLEAN]

Waiting ==
    /\ tx \in [Tx -> TxType]
    /\ lmtp \in {"none", "open", "closed"}
    /\ wait \in {"none", "blocked", "released", "over", "stuck"}
    /\ lmtp # "none" => main \in {"running", "return", "exited"}
    /\ \A t \in Tx : tx[t].pc # "none" => lmtp # "none"
    /\ wait = "none" => lmtp = "none" \/ deferred \in WithWait
    /\ wait \in {"blocked", "released", "stuck"} => main = "return" /\ deferred = S4
    /\ wait = "over" => main \in {"return", "exited"} /\ deferred \notin WithWait
    /\ wait \in {"released", "over"} => \A t \in Tx : tx[t].pc \in Working => tx[t].late
    /\ \A t \in Tx : tx[t].pc = "releasing" =>
          /\ wait = "blocked"
          /\ \A u \in Tx : tx[u].pc \notin Working /\ (tx[u].pc = "releasing" => u = t)

(* What has been sent or saved.                                            *)
Delivery(w, st) ==
    /\ w.pc \notin {"notify", "leave", "releasing", "done"} => w.work = {}
    /\ w.pc \in {"leave", "releasing"} /\ w.work # {} => w.answer = "delivered" \/ w.late
    /\ w.pc = "done" /\ w.work # {} /\ w.told # "delivered" => ~w.heard \/ w.late \/ st = "stuck"

Deliveries == \A t \in Tx : Delivery(tx[t], wait)

-----------------------------------------------------------------------------
(* The log: if a write can fail, something has failed, or the log has been *)
(* closed; and a change has an entry of its own.                           *)
Failed == faults > 0 \/ closed

Changes ==
    /\ target \in openFiles \/ Failed
    /\ \A c \in Caller : printf[c] \in {"close", "reopen", "second"} => Failed
    /\ pending \subseteq Caller /\ \A c \in pending : printf[c] = "idle"
    /\ committed \subseteq Caller \X (1..MaxEntries)
    /\ \A e \in committed :
          \/ e \in written
          \/ e[1] \in pending /\ e[2] = entry[e[1]] + 1
          \/ e[2] = entry[e[1]] /\ printf[e[1]] # "idle"
          \/ Failed /\ e \notin reported

Rest ==
    /\ signalled \in BOOLEAN /\ web \in {"none", "start", "serving", "failed"}
    /\ load \in Loads /\ Sock!TypeOK

ShutInv == Stages /\ Waiting /\ Deliveries /\ LogP!LogInv /\ Changes /\ Rest

-----------------------------------------------------------------------------
(* The stack *)

Call == {"closeLog", "closeLists", "closeUsers", "wait", "closeSockmap", "closeLMTP"}

Once(s) == s \in Seq(Call) /\ \A i, j \in DOMAIN s : s[i] = s[j] => i = j

(* Every call is deferred once.                                            *)
LEMMA StackTyped == \A s \in {S0, S1} \cup WithLists : Once(s)
<1> USE DEF Once, Call
<1>1. Once(S0)
  BY DEF S0
<1>2. Once(S1)
  BY DEF S1
<1>3. Once(S2)
  BY DEF S2
<1>4. Once(S3)
  BY DEF S3
<1>5. Once(S4)
  BY DEF S4
<1>6. Once(S5)
  BY DEF S5
<1>7. Once(S6)
  BY DEF S6
<1> QED  BY <1>1, <1>2, <1>3, <1>4, <1>5, <1>6, <1>7 DEF WithLists

LEMMA PushOne ==
    ASSUME NEW c \in Call, NEW s \in Seq(Call), NEW r \in Seq(Call),
           Len(r) = Len(s) + 1, r[1] = c, \A i \in 1..Len(s) : r[i + 1] = s[i]
    PROVE  <<c>> \o s = r
<1>1. <<c>> \in Seq(Call) /\ Len(<<c>>) = 1 /\ <<c>>[1] = c
  OBVIOUS
<1> DEFINE p == <<c>> \o s
<1>2. Len(s) \in Nat
  BY LenProperties
<1>3. /\ p \in Seq(Call) /\ Len(p) = 1 + Len(s)
      /\ \A i \in 1..(1 + Len(s)) : p[i] = IF i <= 1 THEN <<c>>[i] ELSE s[i - 1]
  BY <1>1, ConcatProperties
<1> HIDE DEF p
<1>4. \A i \in 1..Len(p) : p[i] = r[i]
  <2> SUFFICES ASSUME NEW i \in 1..Len(p) PROVE p[i] = r[i]
    OBVIOUS
  <2>1. CASE i = 1
    BY <1>1, <1>2, <1>3, <2>1
  <2>2. CASE i # 1
    <3>1. i - 1 \in 1..Len(s) /\ (i - 1) + 1 = i /\ p[i] = s[i - 1]
      BY <1>2, <1>3, <2>2
    <3> QED  BY <3>1
  <2> QED  BY <2>1, <2>2
<1>5. p = r
  BY <1>2, <1>3, <1>4, SeqEqual
<1> QED  BY <1>5 DEF p

LEMMA Pushed ==
    /\ <<"closeLists">> \o S1 = S2 /\ <<"closeUsers">> \o S2 = S3 /\ <<"wait">> \o S3 = S4
    /\ <<"closeSockmap">> \o S4 = S5 /\ <<"closeLMTP">> \o S5 = S6
<1>0. {S1, S2, S3, S4, S5, S6} \subseteq Seq(Call)
  BY StackTyped DEF WithLists, Once
<1>1. <<"closeLists">> \o S1 = S2
  <2>1. Len(S2) = Len(S1) + 1 /\ S2[1] = "closeLists" /\ \A i \in 1..Len(S1) : S2[i + 1] = S1[i]
    BY DEF S1, S2
  <2>2. "closeLists" \in Call
    BY DEF Call
  <2> QED  BY <1>0, <2>1, <2>2, PushOne
<1>2. <<"closeUsers">> \o S2 = S3
  <2>1. Len(S3) = Len(S2) + 1 /\ S3[1] = "closeUsers" /\ \A i \in 1..Len(S2) : S3[i + 1] = S2[i]
    BY DEF S2, S3
  <2>2. "closeUsers" \in Call
    BY DEF Call
  <2> QED  BY <1>0, <2>1, <2>2, PushOne
<1>3. <<"wait">> \o S3 = S4
  <2>1. Len(S4) = Len(S3) + 1 /\ S4[1] = "wait" /\ \A i \in 1..Len(S3) : S4[i + 1] = S3[i]
    BY DEF S3, S4
  <2>2. "wait" \in Call
    BY DEF Call
  <2> QED  BY <1>0, <2>1, <2>2, PushOne
<1>4. <<"closeSockmap">> \o S4 = S5
  <2>1. Len(S5) = Len(S4) + 1 /\ S5[1] = "closeSockmap" /\ \A i \in 1..Len(S4) : S5[i + 1] = S4[i]
    BY DEF S4, S5
  <2>2. "closeSockmap" \in Call
    BY DEF Call
  <2> QED  BY <1>0, <2>1, <2>2, PushOne
<1>5. <<"closeLMTP">> \o S5 = S6
  <2>1. Len(S6) = Len(S5) + 1 /\ S6[1] = "closeLMTP" /\ \A i \in 1..Len(S5) : S6[i + 1] = S5[i]
    BY DEF S5, S6
  <2>2. "closeLMTP" \in Call
    BY DEF Call
  <2> QED  BY <1>0, <2>1, <2>2, PushOne
<1> QED  BY <1>1, <1>2, <1>3, <1>4, <1>5

LEMMA Popped ==
    /\ Head(S1) = "closeLog" /\ Tail(S1) = S0
    /\ Head(S2) = "closeLists" /\ Tail(S2) = S1
    /\ Head(S3) = "closeUsers" /\ Tail(S3) = S2
    /\ Head(S4) = "wait" /\ Tail(S4) = S3
    /\ Head(S5) = "closeSockmap" /\ Tail(S5) = S4
    /\ Head(S6) = "closeLMTP" /\ Tail(S6) = S5
<1>1. Head(S1) = "closeLog" /\ Tail(S1) = S0
  BY DEF S0, S1
<1>2. Head(S2) = "closeLists" /\ Tail(S2) = S1
  BY DEF S1, S2
<1>3. Head(S3) = "closeUsers" /\ Tail(S3) = S2
  BY DEF S2, S3
<1>4. Head(S4) = "wait" /\ Tail(S4) = S3
  BY DEF S3, S4
<1>5. Head(S5) = "closeSockmap" /\ Tail(S5) = S4
  BY DEF S4, S5
<1>6. Head(S6) = "closeLMTP" /\ Tail(S6) = S5
  BY DEF S5, S6
<1> QED  BY <1>1, <1>2, <1>3, <1>4, <1>5, <1>6

LEMMA Different ==
    /\ S0 \notin {S1, S2, S3, S4, S5, S6} /\ S1 \notin {S2, S3, S4, S5, S6}
    /\ S2 \notin {S3, S4, S5, S6} /\ S3 \notin {S4, S5, S6} /\ S4 \notin {S5, S6} /\ S5 # S6
<1> DEFINE n(s) == Len(s)
<1>1. /\ n(S0) = 0 /\ n(S1) = 1 /\ n(S2) = 2 /\ n(S3) = 3
      /\ n(S4) = 4 /\ n(S5) = 5 /\ n(S6) = 6
  BY DEF S0, S1, S2, S3, S4, S5, S6
<1> HIDE DEF n
<1> QED  BY <1>1

(* Who is called, from where.                                              *)
LEMMA Called ==
    ASSUME Stages, NEW call, Calls(call)
    PROVE  /\ call = "closeLMTP"    => deferred = S6 /\ Tail(deferred) = S5
           /\ call = "closeSockmap" => deferred = S5 /\ Tail(deferred) = S4
           /\ call = "wait"         => deferred = S4 /\ Tail(deferred) = S3
           /\ call = "closeUsers"   => deferred = S3 /\ Tail(deferred) = S2
           /\ call = "closeLists"   => deferred = S2 /\ Tail(deferred) = S1
           /\ call = "closeLog"     => deferred = S1 /\ Tail(deferred) = S0
           /\ main = "return"
<1>1. deferred # S0 /\ Head(deferred) = call /\ main = "return"
  BY DEF Calls, S0
<1>2. deferred \in {S1, S2, S3, S4, S5, S6}
  BY <1>1 DEF Stages, WithLists
<1> QED  BY <1>1, <1>2, Popped

LEMMA StagesKept ==
    ASSUME Stages, [Next]_vars
    PROVE  Stages'
<1> USE Different DEF WithLists, WithUsers
<1>1. ASSUME UNCHANGED <<main, deferred, dbs>>  PROVE Stages'
  BY <1>1 DEF Stages
<1>2. CASE OpenDatabase("lists", "users", "closeLists")
  BY <1>2, Pushed DEF OpenDatabase, Proceed, Fail, Defer, Stages, MainStep
<1>3. CASE OpenDatabase("users", "wait", "closeUsers")
  BY <1>3, Pushed DEF OpenDatabase, Proceed, Fail, Defer, Stages, MainStep
<1>4. CASE DeferWait \/ CheckSpool \/ ListenSockmap \/ StartServers \/ ListenLMTP
  BY <1>4, Pushed DEF DeferWait, CheckSpool, ListenSockmap, StartServers, ListenLMTP,
                      Proceed, Fail, Defer, Stages, MainStep
<1>5. CASE ReceiveSignal \/ Exit
  BY <1>5 DEF ReceiveSignal, Exit, Proceed, Stages, MainStep, S0, S1, S2, S3, S4, S5, S6
<1>6. CASE CloseLMTP
  BY <1>6, Called DEF CloseLMTP, Returned, Stages, MainStep
<1>7. CASE CloseSockmap
  BY <1>7, Called DEF CloseSockmap, Returned, Stages, MainStep
<1>8. CASE Wait
  BY <1>8, Called DEF Wait, Returned, Stages, MainStep
<1>9. CASE CloseDatabase("users", "closeUsers") \/ CloseDatabase("lists", "closeLists")
  BY <1>9, Called DEF CloseDatabase, Returned, Stages, MainStep
<1>10. CASE CloseLog
  BY <1>10, Called DEF CloseLog, Returned, Stages, MainStep
<1>11. CASE Signal
  BY <1>11 DEF Signal, Stages, MainStep
<1>12. CASE WebServe \/ Serve \/ ServeFailed
  BY <1>1, <1>12 DEF WebServe, Serve, ServeFailed
<1>13. ASSUME NEW t \in Tx, Accept(t) \/ Rcpt(t) \/ Data(t) \/ Work(t)  PROVE Stages'
  <2>1. UNCHANGED Others
    BY <1>13 DEF Accept, Rcpt, Data, Work, Decide, Receivers, Send, Save, Notify, Leave, Release
  <2> QED  BY <1>1, <2>1 DEF Others
<1>14. ASSUME NEW c \in Caller, Commit(c) \/ CallLog(c) \/ Printf(c)  PROVE Stages'
  BY <1>1, <1>14 DEF Commit, CallLog, Printf
<1>15. CASE UNCHANGED vars
  BY <1>1, <1>15 DEF vars
<1> QED  BY <1>2, <1>3, <1>4, <1>5, <1>6, <1>7, <1>8, <1>9, <1>10, <1>11, <1>12, <1>13, <1>14, <1>15
            DEF Next, Main

-----------------------------------------------------------------------------
(* The wait group                                                          *)

(* Before main has returned or is running, there is nothing to wait for.   *)
LEMMA NotYet ==
    ASSUME Stages, Waiting, main \notin {"running", "return", "exited"}
    PROVE  wait = "none" /\ lmtp = "none" /\ \A t \in Tx : tx[t].pc = "none"
  BY DEF Stages, Waiting

(* main goes on to a step before the LMTP server runs, or to its end.      *)
LEMMA StartWaits ==
    ASSUME Stages, Waiting, Stages', main \notin {"running", "return", "exited"},
           UNCHANGED <<tx, wait>>, lmtp' = "none" \/ (lmtp' = "open" /\ main' = "running")
    PROVE  Waiting'
<1>1. wait = "none" /\ lmtp = "none" /\ \A t \in Tx : tx[t].pc = "none"
  BY NotYet
<1>2. main' = "running" => deferred' \in WithWait
  BY DEF Stages, WithWait
<1> QED  BY <1>1, <1>2 DEF Waiting, Working

LEMMA MainWaits ==
    ASSUME Stages, Waiting, Stages', Main
    PROVE  Waiting'
<1>1. CASE \/ OpenDatabase("lists", "users", "closeLists")
           \/ OpenDatabase("users", "wait", "closeUsers")
           \/ DeferWait \/ CheckSpool \/ ListenSockmap \/ StartServers
  <2>1. UNCHANGED <<tx, wait, lmtp>> /\ main \notin {"running", "return", "exited"}
    BY <1>1 DEF OpenDatabase, DeferWait, CheckSpool, ListenSockmap, StartServers, Proceed, Fail
  <2> QED  BY <2>1, NotYet, StartWaits
<1>2. CASE ListenLMTP
  <2>1. /\ UNCHANGED <<tx, wait>> /\ main \notin {"running", "return", "exited"}
        /\ lmtp' = lmtp \/ (lmtp' = "open" /\ main' = "running")
    BY <1>2 DEF ListenLMTP, Proceed, Fail
  <2> QED  BY <2>1, NotYet, StartWaits
<1>3. CASE ReceiveSignal
  <2>1. main = "running" /\ main' = "return" /\ UNCHANGED <<tx, wait, lmtp, deferred>>
    BY <1>3 DEF ReceiveSignal, Proceed
  <2> QED  BY <2>1 DEF Waiting
<1>4. CASE CloseLMTP
  <2>1. /\ deferred = S6 /\ deferred' = S5 /\ main = "return" /\ main' = "return" /\ wait' = wait
        /\ lmtp' = "closed"
    BY <1>4, Called DEF CloseLMTP, Returned
  <2>2. wait = "none"
    BY <2>1, Different DEF Waiting, WithWait
  <2>3. /\ tx' \in [Tx -> TxType]
        /\ \A t \in Tx : tx'[t].pc = tx[t].pc
    <3>1. ASSUME NEW t \in Tx
          PROVE  tx'[t] \in TxType /\ tx'[t].pc = tx[t].pc
      <4>1. tx[t] \in TxType
        BY DEF Waiting
      <4>2. tx'[t] \in {tx[t], [tx[t] EXCEPT !.heard = FALSE]}
        BY <1>4 DEF CloseLMTP
      <4> QED  BY <4>1, <4>2 DEF TxType
    <3>2. tx' = [t \in Tx |-> tx'[t]]
      BY <1>4 DEF CloseLMTP
    <3> QED  BY <3>1, <3>2
  <2> QED  BY <2>1, <2>2, <2>3 DEF Waiting, WithWait
<1>5. CASE CloseSockmap
  <2>1. /\ deferred = S5 /\ deferred' \in {S4, S5} /\ main = "return" /\ main' \in {"return", "exited"}
        /\ UNCHANGED <<tx, wait, lmtp>>
    BY <1>5, Called DEF CloseSockmap, Returned
  <2>2. wait = "none"
    BY <2>1, Different DEF Waiting, WithWait
  <2> QED  BY <2>1, <2>2 DEF Waiting, WithWait
<1>6. CASE Wait
  <2>1. deferred = S4 /\ main = "return" /\ main' = "return" /\ UNCHANGED <<tx, lmtp>>
    BY <1>6, Called DEF Wait, Returned
  <2>2. CASE wait' = "blocked" /\ UNCHANGED deferred /\ wait = "none"
    BY <2>1, <2>2 DEF Waiting
  <2>3. CASE wait' = "over" /\ deferred' = S3 /\ (wait = "released" \/ (wait = "none" /\ AtWork = {}))
    <3>1. deferred' \notin WithWait
      BY <2>3, Different DEF WithWait
    <3> QED  BY <2>1, <2>3, <3>1 DEF Waiting, AtWork
  <2> QED  BY <1>6, <2>1, <2>2, <2>3, Called DEF Wait, Returned
<1>7. CASE \/ CloseDatabase("users", "closeUsers") \/ CloseDatabase("lists", "closeLists")
           \/ CloseLog \/ Exit
  <2>1. /\ deferred \in {S0, S1, S2, S3} /\ deferred' \in {S0, S1, S2, S3}
        /\ main = "return" /\ main' \in {"return", "exited"} /\ UNCHANGED <<tx, wait, lmtp>>
    BY <1>7, Called DEF CloseDatabase, CloseLog, Exit, Returned, S0
  <2>2. deferred \notin WithWait /\ deferred' \notin WithWait /\ deferred # S4
    BY <2>1, Different DEF WithWait
  <2> QED  BY <2>1, <2>2 DEF Waiting
<1> QED  BY <1>1, <1>2, <1>3, <1>4, <1>5, <1>6, <1>7 DEF Main

LEMMA SignalWaits ==
    ASSUME Stages, Waiting, Stages', Signal
    PROVE  Waiting'
<1>1. CASE UNCHANGED <<main, deferred, tx, wait, lmtp>>
  BY <1>1 DEF Waiting
<1>2. CASE main \notin {"running", "return", "exited"}
  BY <1>2, NotYet, StartWaits DEF Signal
<1> QED  BY <1>1, <1>2 DEF Signal

(* While main has not finished waiting for a transaction.                  *)
LEMMA StillOpen ==
    ASSUME Stages, Waiting, NEW t \in Tx, tx[t].pc \in Working, ~tx[t].late
    PROVE  dbs = {"lists", "users"}
<1>1. lmtp # "none" /\ wait \notin {"released", "over"}
  BY DEF Waiting, Working
<1>2. deferred \in WithWait
  BY <1>1 DEF Waiting, WithWait
<1>3. "lists" \in dbs /\ "users" \in dbs /\ dbs \subseteq {"lists", "users"}
  BY <1>2 DEF Stages, WithWait, WithUsers, WithLists
<1> QED  BY <1>3

(* One transaction goes on, and nothing else does.                         *)
Moves(t, r) ==
    /\ tx' = [tx EXCEPT ![t] = r] /\ r \in TxType /\ UNCHANGED <<wait, Others>>
    /\ lmtp # "none" /\ tx[t].pc # "releasing" /\ r.pc # "none"
    /\ r.pc \in Working =>
          \/ tx[t].pc \in Working /\ r.late = tx[t].late
          \/ /\ wait \in {"released", "over"} => r.late
             /\ \A u \in Tx : tx[u].pc # "releasing"
    /\ r.pc = "releasing" => wait = "blocked" /\ AtWork = {t}
    /\ Delivery(r, wait)

LEMMA MovesKeeps ==
    ASSUME Waiting, Deliveries, NEW t \in Tx, NEW r, Moves(t, r)
    PROVE  Waiting' /\ Deliveries'
<1>1. /\ UNCHANGED <<wait, main, deferred, lmtp>>
      /\ tx' \in [Tx -> TxType] /\ tx'[t] = r
      /\ \A u \in Tx \ {t} : tx'[u] = tx[u]
  BY DEF Moves, Others, Waiting
<1>2. Deliveries'
  BY <1>1 DEF Moves, Deliveries
<1>3. wait \in {"released", "over"} => \A u \in Tx : tx'[u].pc \in Working => tx'[u].late
  BY <1>1 DEF Moves, Waiting
<1>4. ASSUME NEW u \in Tx, tx'[u].pc = "releasing"
      PROVE  /\ wait = "blocked"
             /\ \A v \in Tx : tx'[v].pc \notin Working /\ (tx'[v].pc = "releasing" => v = u)
  <2>1. CASE u = t
    <3>1. wait = "blocked" /\ AtWork = {t} /\ r.pc = "releasing"
      BY <1>1, <1>4, <2>1 DEF Moves
    <3>2. tx[t].pc \in Working /\ \A v \in Tx \ {t} : tx[v].pc \notin Working
      BY <3>1 DEF AtWork
    <3>3. \A v \in Tx : tx[v].pc # "releasing"
      BY <3>2 DEF Waiting
    <3>4. r.pc \notin Working
      BY <3>1 DEF Working
    <3> QED  BY <1>1, <2>1, <3>1, <3>2, <3>3, <3>4
  <2>2. CASE u # t
    <3>1. tx[u].pc = "releasing"
      BY <1>1, <1>4, <2>2
    <3>2. wait = "blocked" /\ \A v \in Tx : tx[v].pc \notin Working /\ (tx[v].pc = "releasing" => v = u)
      BY <3>1 DEF Waiting
    <3>3. r.pc \notin Working /\ r.pc # "releasing"
      BY <3>1, <3>2 DEF Moves, AtWork
    <3> QED  BY <1>1, <3>2, <3>3
  <2> QED  BY <2>1, <2>2
<1>5. \A u \in Tx : tx'[u].pc # "none" => lmtp # "none"
  BY DEF Moves
<1> QED  BY <1>1, <1>2, <1>3, <1>4, <1>5 DEF Waiting

(* What a step of a transaction does to it.                                *)
LEMMA TxType1 ==
    ASSUME Waiting, NEW t \in Tx, tx[t].pc # "none"
    PROVE  tx[t] \in TxType /\ lmtp # "none"
  BY DEF Waiting

LEMMA EndedTyped ==
    ASSUME NEW t \in Tx, tx[t] \in TxType, NEW a \in {"nothing", "delivered", "later"}
    PROVE  /\ Ended(t, a) \in TxType /\ Ended(t, a).pc = "done"
           /\ Ended(t, a).work = tx[t].work /\ Ended(t, a).late = tx[t].late
           /\ Ended(t, a).heard = tx[t].heard
           /\ tx[t].heard => Ended(t, a).told = a
  BY DEF Ended, TxType

LEMMA BeginMoves ==
    ASSUME Stages, Waiting, Deliveries, NEW t \in Tx, Accept(t) \/ Rcpt(t)
    PROVE  \E r : Moves(t, r)
<1> USE DEF Working
<1>1. CASE Accept(t)
  <2> DEFINE r == [tx[t] EXCEPT !.pc = "accepted"]
  <2>1. tx[t] \in TxType /\ tx[t].pc = "none" /\ lmtp # "none" /\ UNCHANGED <<wait, Others>>
    BY <1>1 DEF Accept, At, GoTo, Waiting
  <2>2. tx' = [tx EXCEPT ![t] = r]
    BY <1>1 DEF Accept, GoTo
  <2>3. r \in TxType /\ r.pc = "accepted" /\ Delivery(r, wait)
    BY <2>1 DEF TxType, Delivery, Deliveries
  <2> HIDE DEF r
  <2> QED  BY <2>1, <2>2, <2>3 DEF Moves
<1>2. CASE Rcpt(t)
  <2>1. tx[t] \in TxType /\ tx[t].pc = "accepted" /\ lmtp # "none" /\ UNCHANGED <<wait, Others>>
    BY <1>2, TxType1 DEF Rcpt, At, GoTo
  <2>2. CASE "lists" \in dbs
    <3> DEFINE r == [tx[t] EXCEPT !.pc = "data"]
    <3>1. tx' = [tx EXCEPT ![t] = r]
      BY <1>2, <2>2 DEF Rcpt, GoTo
    <3>2. r \in TxType /\ r.pc = "data" /\ Delivery(r, wait)
      BY <2>1 DEF TxType, Delivery, Deliveries
    <3> HIDE DEF r
    <3> QED  BY <2>1, <3>1, <3>2 DEF Moves
  <2>3. CASE "lists" \notin dbs
    <3> DEFINE r == Ended(t, "later")
    <3>1. tx' = [tx EXCEPT ![t] = r]
      BY <1>2, <2>3 DEF Rcpt
    <3>2. r \in TxType /\ r.pc = "done" /\ r.work = tx[t].work
      BY <2>1, EndedTyped
    <3> HIDE DEF r
    <3>3. Delivery(r, wait)
      BY <2>1, <3>2 DEF Delivery, Deliveries
    <3> QED  BY <2>1, <3>1, <3>2, <3>3 DEF Moves
  <2> QED  BY <2>2, <2>3
<1> QED  BY <1>1, <1>2

(* Within Data, up to the deferred Done.                                   *)
LEMMA WorkMoves ==
    ASSUME Stages, Waiting, Deliveries, NEW t \in Tx,
           Decide(t) \/ Receivers(t) \/ Send(t) \/ Save(t) \/ Notify(t)
    PROVE  \E r : Moves(t, r)
<1>1. tx[t].pc \in {"decide", "receivers", "send", "save", "notify"} /\ UNCHANGED <<wait, Others>>
  BY DEF Decide, Receivers, Send, Save, Notify, At, GoTo, Reply
<1>2. tx[t] \in TxType /\ lmtp # "none" /\ tx[t].pc \in Working /\ tx[t].pc # "releasing"
  BY <1>1, TxType1 DEF Working
<1>3. ASSUME NEW r, tx' = [tx EXCEPT ![t] = r], r \in TxType, r.pc \in Working, r.late = tx[t].late,
             Delivery(r, wait)
      PROVE  Moves(t, r)
  BY <1>1, <1>2, <1>3 DEF Moves, Working
<1>4. ASSUME NEW s \in {"receivers", "save", "send"}, GoTo(t, s), tx[t].pc \in {"decide", "receivers"}
      PROVE  \E r : Moves(t, r)
  <2> DEFINE r == [tx[t] EXCEPT !.pc = s]
  <2>1. tx' = [tx EXCEPT ![t] = r]
    BY <1>4 DEF GoTo
  <2>2. r \in TxType /\ r.pc = s /\ r.late = tx[t].late /\ r.work = tx[t].work
    BY <1>2 DEF TxType, Working
  <2> HIDE DEF r
  <2>3. Delivery(r, wait)
    BY <1>4, <2>2 DEF Delivery, Deliveries
  <2>4. r.pc \in Working
    BY <2>2 DEF Working
  <2> QED  BY <1>3, <2>1, <2>2, <2>3, <2>4
<1>5. ASSUME NEW a \in {"delivered", "later"}, Reply(t, a),
             tx[t].work # {} => a = "delivered" \/ tx[t].late
      PROVE  \E r : Moves(t, r)
  <2> DEFINE r == [tx[t] EXCEPT !.pc = "leave", !.answer = a]
  <2>1. tx' = [tx EXCEPT ![t] = r]
    BY <1>5 DEF Reply
  <2>2. r \in TxType /\ r.pc = "leave" /\ r.late = tx[t].late /\ r.work = tx[t].work /\ r.answer = a
    BY <1>2 DEF TxType, Working
  <2> HIDE DEF r
  <2>3. Delivery(r, wait)
    BY <1>5, <2>2 DEF Delivery
  <2>4. r.pc \in Working
    BY <2>2 DEF Working
  <2> QED  BY <1>3, <2>1, <2>2, <2>3, <2>4
<1>6. tx[t].pc # "notify" => tx[t].work = {}
  BY <1>1 DEF Deliveries, Delivery
<1>7. CASE Decide(t)
  BY <1>4, <1>5, <1>6, <1>7 DEF Decide, At
<1>8. CASE Receivers(t)
  BY <1>4, <1>5, <1>6, <1>8 DEF Receivers, At
<1>9. CASE Send(t)
  <2> DEFINE r == [tx[t] EXCEPT !.pc = "leave", !.answer = "delivered", !.work = {"sent"}]
  <2>1. tx' = [tx EXCEPT ![t] = r]
    BY <1>9 DEF Send
  <2>2. r \in TxType /\ r.pc = "leave" /\ r.late = tx[t].late /\ r.answer = "delivered"
    BY <1>2 DEF TxType, Working
  <2> HIDE DEF r
  <2>3. Delivery(r, wait) /\ r.pc \in Working
    BY <2>2 DEF Delivery, Working
  <2> QED  BY <1>3, <2>1, <2>2, <2>3
<1>10. CASE Save(t)
  <2> DEFINE r == [tx[t] EXCEPT !.pc = "notify", !.work = {"saved"}]
  <2>1. tx' = [tx EXCEPT ![t] = r]
    BY <1>10 DEF Save
  <2>2. r \in TxType /\ r.pc = "notify" /\ r.late = tx[t].late
    BY <1>2 DEF TxType, Working
  <2> HIDE DEF r
  <2>3. Delivery(r, wait) /\ r.pc \in Working
    BY <2>2 DEF Delivery, Working
  <2> QED  BY <1>3, <2>1, <2>2, <2>3
<1>11. CASE Notify(t)
  <2>1. "lists" \notin dbs => tx[t].late
    BY <1>2, StillOpen
  <2>2. CASE "lists" \in dbs
    BY <1>5, <1>11, <2>2 DEF Notify
  <2>3. CASE "lists" \notin dbs
    BY <1>5, <1>11, <2>1, <2>3 DEF Notify
  <2> QED  BY <2>2, <2>3
<1> QED  BY <1>7, <1>8, <1>9, <1>10, <1>11

LEMMA LeaveMoves ==
    ASSUME Waiting, Deliveries, NEW t \in Tx, Leave(t)
    PROVE  \E r : Moves(t, r)
<1>1. tx[t] \in TxType /\ tx[t].pc = "leave" /\ lmtp # "none" /\ UNCHANGED <<wait, Others>>
  BY TxType1 DEF Leave, At, GoTo
<1>2. tx[t].work # {} => tx[t].answer = "delivered" \/ tx[t].late
  BY <1>1 DEF Deliveries, Delivery
<1>3. CASE wait = "blocked" /\ AtWork = {t}
  <2> DEFINE r == [tx[t] EXCEPT !.pc = "releasing"]
  <2>1. tx' = [tx EXCEPT ![t] = r]
    BY <1>3 DEF Leave, GoTo
  <2>2. /\ r \in TxType /\ r.pc = "releasing" /\ r.late = tx[t].late /\ r.work = tx[t].work
        /\ r.answer = tx[t].answer
    BY <1>1 DEF TxType
  <2> HIDE DEF r
  <2>3. Delivery(r, wait) /\ r.pc \notin Working
    BY <1>2, <2>2 DEF Delivery, Working
  <2> QED  BY <1>1, <1>3, <2>1, <2>2, <2>3 DEF Moves
<1>4. CASE ~(wait = "blocked" /\ AtWork = {t})
  <2> DEFINE a == tx[t].answer
             r == Ended(t, a)
  <2>1. tx' = [tx EXCEPT ![t] = r]
    BY <1>4 DEF Leave, Ended
  <2>2. a \in {"nothing", "delivered", "later"}
    BY <1>1 DEF TxType
  <2>3. /\ r \in TxType /\ r.pc = "done" /\ r.work = tx[t].work /\ r.late = tx[t].late
        /\ r.heard = tx[t].heard /\ (tx[t].heard => r.told = a)
    BY <1>1, <2>2, EndedTyped
  <2> HIDE DEF r
  <2>4. Delivery(r, wait) /\ r.pc \notin Working
    BY <1>2, <2>3 DEF Delivery, Working
  <2> QED  BY <1>1, <2>1, <2>3, <2>4 DEF Moves
<1> QED  BY <1>3, <1>4

(* The one that wakes main, and those that end with it.                    *)
LEMMA DataKeeps ==
    ASSUME Waiting, Deliveries, NEW t \in Tx, Data(t)
    PROVE  Waiting' /\ Deliveries'
<1> DEFINE last == {d \in Tx : tx[d].pc = "releasing"}
<1>1. tx[t] \in TxType /\ tx[t].pc = "data" /\ lmtp # "none" /\ UNCHANGED Others
  BY TxType1 DEF Data, At
<1>2. tx[t].work = {}
  BY <1>1 DEF Deliveries, Delivery
<1>3. CASE last = {}
  <2> DEFINE isLate == wait \in {"released", "over"}
             r == [tx[t] EXCEPT !.pc = "decide", !.late = isLate]
  <2>1. tx' = [tx EXCEPT ![t] = r] /\ UNCHANGED wait
    BY <1>3 DEF Data
  <2>2. isLate \in BOOLEAN /\ (wait \in {"released", "over"} => isLate)
    OBVIOUS
  <2> HIDE DEF isLate
  <2>3. r \in TxType /\ r.pc = "decide" /\ r.work = {} /\ r.late = isLate
    BY <1>1, <1>2, <2>2 DEF TxType, Working
  <2> HIDE DEF r
  <2>4. Delivery(r, wait) /\ r.pc # "releasing" /\ r.pc # "none"
    BY <2>3 DEF Delivery
  <2>5. \A u \in Tx : tx[u].pc # "releasing"
    BY <1>3
  <2>6. Moves(t, r)
    BY <1>1, <2>1, <2>2, <2>3, <2>4, <2>5 DEF Moves
  <2> QED  BY <2>6, MovesKeeps
<1>4. CASE last # {}
  <2>1. PICK l \in Tx : tx[l].pc = "releasing"
    BY <1>4
  <2>2. wait = "blocked" /\ \A u \in Tx : tx[u].pc \notin Working /\ (tx[u].pc = "releasing" => u = l)
    BY <2>1 DEF Waiting
  <2>3. main = "return" /\ deferred = S4 /\ main' = main /\ deferred' = deferred /\ lmtp' = lmtp
    BY <1>1, <2>2 DEF Waiting, Others
  <2>4. PICK stuck \in BOOLEAN :
           /\ tx' = [d \in Tx |-> IF d = t THEN Ended(d, "later")
                                  ELSE IF d \in last
                                       THEN Ended(d, IF stuck THEN "later" ELSE tx[d].answer)
                                       ELSE tx[d]]
           /\ wait' = IF stuck THEN "stuck" ELSE "released"
    BY <1>4 DEF Data
  <2>5. ASSUME NEW d \in Tx
        PROVE  /\ tx'[d] \in TxType /\ tx'[d].pc \notin Working /\ tx'[d].pc # "releasing"
               /\ Delivery(tx'[d], wait')
    <3>1. tx[d] \in TxType /\ Delivery(tx[d], wait) /\ tx[d].pc \notin Working
      BY <2>2 DEF Waiting, Deliveries
    <3>2. CASE d = t
      <4>1. tx'[d] = Ended(t, "later")
        BY <2>4, <3>2
      <4>2. tx'[d] \in TxType /\ tx'[d].pc = "done" /\ tx'[d].work = {}
        BY <1>1, <1>2, <4>1, EndedTyped
      <4> QED  BY <4>2 DEF Delivery, Working
    <3>3. CASE d # t /\ d \in last
      <4> DEFINE a == IF stuck THEN "later" ELSE tx[d].answer
      <4>1. tx'[d] = Ended(d, a)
        BY <2>4, <3>3
      <4>2. a \in {"nothing", "delivered", "later"} /\ (wait' # "stuck" => a = tx[d].answer)
        BY <2>4, <3>1 DEF TxType
      <4> HIDE DEF a
      <4>3. /\ tx'[d] \in TxType /\ tx'[d].pc = "done" /\ tx'[d].work = tx[d].work
            /\ tx'[d].late = tx[d].late /\ tx'[d].heard = tx[d].heard
            /\ tx[d].heard => tx'[d].told = a
        BY <3>1, <4>1, <4>2, EndedTyped
      <4>4. tx[d].work # {} => tx[d].answer = "delivered" \/ tx[d].late
        BY <3>1, <3>3 DEF Delivery
      <4>5. Delivery(tx'[d], wait')
        BY <4>2, <4>3, <4>4 DEF Delivery
      <4> QED  BY <4>3, <4>5 DEF Working
    <3>4. CASE d # t /\ d \notin last
      <4>1. tx'[d] = tx[d] /\ tx[d].pc # "releasing"
        BY <2>4, <3>4
      <4>2. wait # "stuck"
        BY <2>2
      <4> QED  BY <3>1, <4>1, <4>2 DEF Delivery
    <3> QED  BY <3>2, <3>3, <3>4
  <2>6. tx' \in [Tx -> TxType]
    <3>1. tx' = [d \in Tx |-> tx'[d]]
      BY <2>4
    <3> QED  BY <2>5, <3>1
  <2>7. wait' \in {"stuck", "released"}
    BY <2>4
  <2> QED  BY <1>1, <2>3, <2>5, <2>6, <2>7 DEF Waiting, Deliveries
<1> QED  BY <1>3, <1>4

LEMMA ReleaseKeeps ==
    ASSUME Waiting, Deliveries, NEW t \in Tx, Release(t)
    PROVE  Waiting' /\ Deliveries'
<1> DEFINE a == tx[t].answer
           r == Ended(t, a)
<1>1. /\ tx[t] \in TxType /\ tx[t].pc = "releasing" /\ lmtp # "none" /\ UNCHANGED Others
      /\ tx' = [tx EXCEPT ![t] = r] /\ wait' = "released"
  BY TxType1 DEF Release, At, Ended
<1>2. wait = "blocked" /\ \A u \in Tx : tx[u].pc \notin Working /\ (tx[u].pc = "releasing" => u = t)
  BY <1>1 DEF Waiting
<1>3. main = "return" /\ deferred = S4 /\ main' = main /\ deferred' = deferred /\ lmtp' = lmtp
  BY <1>1, <1>2 DEF Waiting, Others
<1>4. a \in {"nothing", "delivered", "later"}
  BY <1>1 DEF TxType
<1>5. /\ r \in TxType /\ r.pc = "done" /\ r.work = tx[t].work /\ r.late = tx[t].late
      /\ r.heard = tx[t].heard /\ (tx[t].heard => r.told = a)
  BY <1>1, <1>4, EndedTyped
<1> HIDE DEF r
<1>6. tx[t].work # {} => tx[t].answer = "delivered" \/ tx[t].late
  BY <1>1 DEF Deliveries, Delivery
<1>7. Delivery(r, wait')
  BY <1>5, <1>6 DEF Delivery
<1>8. tx' \in [Tx -> TxType] /\ tx'[t] = r /\ \A u \in Tx \ {t} : tx'[u] = tx[u]
  BY <1>1, <1>5 DEF Waiting
<1>9. \A u \in Tx : tx'[u].pc \notin Working /\ tx'[u].pc # "releasing"
  BY <1>2, <1>5, <1>8 DEF Working
<1>10. Deliveries'
  <2>1. \A u \in Tx \ {t} : Delivery(tx'[u], wait')
    BY <1>2, <1>8 DEF Deliveries, Delivery
  <2> QED  BY <1>7, <1>8, <2>1 DEF Deliveries
<1> QED  BY <1>1, <1>3, <1>8, <1>9, <1>10 DEF Waiting

(* main, which closes the connections of transactions under way and says   *)
(* nothing to them.                                                        *)
LEMMA MainDelivers ==
    ASSUME Waiting, Deliveries, Main
    PROVE  Deliveries'
<1>1. CASE UNCHANGED tx /\ (wait = "stuck" => wait' = "stuck")
  BY <1>1 DEF Deliveries, Delivery
<1>2. CASE CloseLMTP
  <2>1. ASSUME NEW t \in Tx PROVE Delivery(tx'[t], wait')
    <3>1. tx[t] \in TxType /\ Delivery(tx[t], wait) /\ wait' = wait
      BY <1>2 DEF Waiting, Deliveries, CloseLMTP
    <3>2. CASE tx'[t] = tx[t]
      BY <3>1, <3>2
    <3>3. CASE tx[t].pc # "done" /\ tx'[t] = [tx[t] EXCEPT !.heard = FALSE]
      <4>1. /\ tx'[t].pc = tx[t].pc /\ tx'[t].work = tx[t].work /\ tx'[t].answer = tx[t].answer
            /\ tx'[t].late = tx[t].late
        BY <3>1, <3>3 DEF TxType
      <4> QED  BY <3>1, <3>3, <4>1 DEF Delivery
    <3> QED  BY <1>2, <3>2, <3>3 DEF CloseLMTP
  <2> QED  BY <2>1 DEF Deliveries
<1>3. CASE Wait
  BY <1>1, <1>3 DEF Wait
<1>4. CASE \/ OpenDatabase("lists", "users", "closeLists")
           \/ OpenDatabase("users", "wait", "closeUsers")
           \/ DeferWait \/ CheckSpool \/ ListenSockmap \/ StartServers \/ ListenLMTP
           \/ ReceiveSignal \/ CloseSockmap
           \/ CloseDatabase("users", "closeUsers") \/ CloseDatabase("lists", "closeLists")
           \/ CloseLog \/ Exit
  BY <1>1, <1>4 DEF OpenDatabase, DeferWait, CheckSpool, ListenSockmap, StartServers, ListenLMTP,
                    ReceiveSignal, CloseSockmap, CloseDatabase, CloseLog, Exit
<1> QED  BY <1>2, <1>3, <1>4 DEF Main

LEMMA WaitingKept ==
    ASSUME Stages, Waiting, Deliveries, Stages', [Next]_vars
    PROVE  Waiting' /\ Deliveries'
<1>1. ASSUME UNCHANGED <<main, deferred, tx, wait, lmtp>>  PROVE Waiting' /\ Deliveries'
  BY <1>1 DEF Waiting, Deliveries
<1>2. CASE Main
  BY <1>2, MainWaits, MainDelivers
<1>3. CASE Signal
  <2>1. UNCHANGED <<tx, wait>>
    BY <1>3 DEF Signal
  <2> QED  BY <1>3, <2>1, SignalWaits DEF Deliveries
<1>4. CASE WebServe \/ Serve \/ ServeFailed
  BY <1>1, <1>4 DEF WebServe, Serve, ServeFailed
<1>5. ASSUME NEW t \in Tx, Accept(t) \/ Rcpt(t) \/ Data(t) \/ Work(t)  PROVE Waiting' /\ Deliveries'
  <2>1. CASE Data(t)
    BY <2>1, DataKeeps
  <2>2. CASE Release(t)
    BY <2>2, ReleaseKeeps
  <2>3. CASE Accept(t) \/ Rcpt(t)
    BY <2>3, BeginMoves, MovesKeeps
  <2>4. CASE Decide(t) \/ Receivers(t) \/ Send(t) \/ Save(t) \/ Notify(t)
    BY <2>4, WorkMoves, MovesKeeps
  <2>5. CASE Leave(t)
    BY <2>5, LeaveMoves, MovesKeeps
  <2> QED  BY <1>5, <2>1, <2>2, <2>3, <2>4, <2>5 DEF Work
<1>6. ASSUME NEW c \in Caller, Commit(c) \/ CallLog(c) \/ Printf(c)  PROVE Waiting' /\ Deliveries'
  BY <1>1, <1>6 DEF Commit, CallLog, Printf
<1>7. CASE UNCHANGED vars
  BY <1>1, <1>7 DEF vars
<1> QED  BY <1>2, <1>3, <1>4, <1>5, <1>6, <1>7 DEF Next

-----------------------------------------------------------------------------
(* The log                                                                 *)

LEMMA LogUntouched ==
    ASSUME LogP!LogInv, UNCHANGED log, Fault \/ UNCHANGED faults
    PROVE  LogP!LogInv' /\ (Failed => Failed') /\ faults' \in Nat
<1>1. LogP!TypeOK'
  BY BoundsAssumption DEF log, LogP!LogInv, LogP!TypeOK, LogP!Inside, Fault, Log!Fault
<1>2. LogP!OneInside' /\ LogP!InsideHasEntry' /\ LogP!SyncedIsWritten'
  BY DEF log, LogP!LogInv, LogP!OneInside, LogP!InsideHasEntry, LogP!SyncedIsWritten, LogP!Inside
<1>3. LogP!ReportedMeansWritten' /\ LogP!NothingOpen' /\ LogP!NoDescriptorLeft'
  BY DEF log, LogP!LogInv, LogP!ReportedMeansWritten, LogP!NothingOpen, LogP!NoDescriptorLeft
<1>4. (Failed => Failed') /\ faults' \in Nat
  BY DEF log, LogP!LogInv, LogP!TypeOK, Fault, Log!Fault, Failed
<1> QED  BY <1>1, <1>2, <1>3, <1>4 DEF LogP!LogInv

LEMMA LogClosed ==
    ASSUME LogP!LogInv, Log!Close
    PROVE  LogP!LogInv' /\ Failed' /\ UNCHANGED <<printf, entry, written, reported>>
<1>1. LogP!Close
  BY DEF Log!Close, LogP!Close
<1>2. LogP!LogInv'
  BY <1>1, LogP!CloseKeeps
<1> QED  BY <1>2 DEF Log!Close, Failed

LEMMA LogCalled ==
    ASSUME LogP!LogInv, NEW c \in Caller, Log!Call(c)
    PROVE  /\ LogP!LogInv'
           /\ printf' = [printf EXCEPT ![c] = "first"] /\ entry' = [entry EXCEPT ![c] = @ + 1]
           /\ UNCHANGED <<target, openFiles, written, reported, closed, faults>>
<1>1. LogP!Call(c)
  BY DEF Log!Call, LogP!Call, Log!GoTo, LogP!GoTo, Log!Inside, LogP!Inside
<1>2. LogP!LogInv'
  BY <1>1, LogP!CallKeeps, BoundsAssumption
<1> QED  BY <1>2 DEF Log!Call, Log!GoTo

(* A step of Printf: it goes on to a second try, and it returns without    *)
(* having written the entry, only after a failure.                         *)
LEMMA LogPrints ==
    ASSUME LogP!LogInv, Changes, NEW c \in Caller, Printf(c)
    PROVE  /\ LogP!LogInv'
           /\ printf[c] # "idle" /\ \A d \in Caller \ {c} : printf'[d] = printf[d]
           /\ written \subseteq written' /\ UNCHANGED <<target, entry, closed>>
           /\ Failed => Failed'
           /\ target \in openFiles' \/ Failed'
           /\ printf'[c] \in {"close", "reopen", "second"} => Failed'
           /\ printf'[c] = "idle" => <<c, entry[c]>> \in written' \/ Failed'
<1> USE BoundsAssumption
<1>0. /\ printf \in [Caller -> LogP!Inside \cup {"idle"}] /\ faults \in Nat
      /\ target \in openFiles \/ Failed
      /\ printf[c] \in {"close", "reopen", "second"} => Failed
      /\ printf[c] = "sync" => <<c, entry[c]>> \in written
  BY DEF LogP!LogInv, LogP!TypeOK, LogP!SyncedIsWritten, Changes
<1>1. ASSUME NEW s, Log!GoTo(c, s)
      PROVE  printf'[c] = s /\ \A d \in Caller \ {c} : printf'[d] = printf[d]
  BY <1>0, <1>1 DEF Log!GoTo
<1>2. Fault => Failed' /\ (Failed => Failed')
  BY <1>0 DEF Fault, Log!Fault, Failed
<1>3. CASE Log!FirstTry(c)
  <2>1. LogP!FirstTry(c)
    BY <1>3 DEF Log!FirstTry, LogP!FirstTry, Log!Write, LogP!Write, Log!Fault, LogP!Fault,
                Log!GoTo, LogP!GoTo
  <2>2. LogP!LogInv'
    BY <2>1, LogP!FirstTryKeeps
  <2>3. PICK ok \in BOOLEAN : Log!Write(c, ok) /\ Log!GoTo(c, IF ok THEN "sync" ELSE "close")
    BY <1>3 DEF Log!FirstTry
  <2>4. printf[c] = "first" /\ UNCHANGED <<target, openFiles, entry, closed>>
    BY <1>3 DEF Log!FirstTry
  <2>5. CASE ok = TRUE
    <3>1. Log!GoTo(c, "sync") /\ written \subseteq written' /\ UNCHANGED faults
      BY <2>3, <2>5 DEF Log!Write
    <3> QED  BY <1>0, <1>1, <2>2, <2>4, <3>1 DEF Failed
  <2>6. CASE ok = FALSE
    <3>1. /\ Log!GoTo(c, "close") /\ UNCHANGED written
          /\ (target \notin openFiles /\ UNCHANGED faults) \/ Fault
      BY <2>3, <2>6 DEF Log!Write, Fault
    <3>2. Failed'
      BY <1>0, <1>2, <2>4, <3>1 DEF Failed
    <3> QED  BY <1>0, <1>1, <2>2, <2>4, <3>1, <3>2
  <2> QED  BY <2>5, <2>6
<1>4. CASE Log!CloseFile(c)
  <2>1. LogP!CloseFile(c)
    BY <1>4 DEF Log!CloseFile, LogP!CloseFile, Log!GoTo, LogP!GoTo
  <2>2. LogP!LogInv'
    BY <2>1, LogP!CloseFileKeeps
  <2>3. /\ printf[c] = "close" /\ Log!GoTo(c, "reopen")
        /\ UNCHANGED <<target, entry, written, closed, faults>>
    BY <1>4 DEF Log!CloseFile
  <2>4. Failed /\ Failed'
    BY <1>0, <2>3 DEF Failed
  <2> QED  BY <1>1, <2>2, <2>3, <2>4
<1>5. CASE Log!Reopen(c)
  <2>1. LogP!Reopen(c)
    BY <1>5 DEF Log!Reopen, LogP!Reopen, Log!GoTo, LogP!GoTo, Log!Fault, LogP!Fault,
                Log!Return, LogP!Return
  <2>2. LogP!LogInv'
    BY <2>1, LogP!ReopenKeeps
  <2>3. /\ printf[c] = "reopen" /\ UNCHANGED <<target, entry, written, closed>>
        /\ Log!GoTo(c, "second") \/ Log!GoTo(c, "idle")
        /\ Fault \/ UNCHANGED faults
    BY <1>5 DEF Log!Reopen, Log!Return, Fault
  <2>4. Failed /\ Failed'
    BY <1>0, <1>2, <2>3 DEF Failed
  <2> QED  BY <1>1, <2>2, <2>3, <2>4
<1>6. CASE Log!SecondTry(c)
  <2>1. LogP!SecondTry(c)
    BY <1>6 DEF Log!SecondTry, LogP!SecondTry, Log!Write, LogP!Write, Log!Fault, LogP!Fault,
                Log!GoTo, LogP!GoTo, Log!Return, LogP!Return
  <2>2. LogP!LogInv'
    BY <2>1, LogP!SecondTryKeeps
  <2>3. PICK ok \in BOOLEAN :
           /\ Log!Write(c, ok)
           /\ IF ok THEN Log!GoTo(c, "sync") /\ UNCHANGED reported ELSE Log!Return(c, FALSE)
    BY <1>6 DEF Log!SecondTry
  <2>4. printf[c] = "second" /\ UNCHANGED <<target, entry, closed>>
    BY <1>6 DEF Log!SecondTry
  <2>5. Log!GoTo(c, "sync") \/ Log!GoTo(c, "idle")
    BY <2>3 DEF Log!Return
  <2>6. written \subseteq written' /\ (Fault \/ UNCHANGED faults)
    BY <2>3 DEF Log!Write, Fault
  <2>7. Failed /\ Failed'
    BY <1>0, <1>2, <2>4, <2>6 DEF Failed
  <2> QED  BY <1>1, <2>2, <2>4, <2>5, <2>6, <2>7
<1>7. CASE Log!Sync(c)
  <2>1. LogP!Sync(c)
    BY <1>7 DEF Log!Sync, LogP!Sync, Log!GoTo, LogP!GoTo, Log!Fault, LogP!Fault,
                Log!Return, LogP!Return
  <2>2. LogP!LogInv'
    BY <2>1, LogP!SyncKeeps
  <2>3. /\ printf[c] = "sync" /\ UNCHANGED <<target, openFiles, entry, written, closed>>
        /\ Log!GoTo(c, "idle") /\ (Fault \/ UNCHANGED faults)
    BY <1>7 DEF Log!Sync, Log!Return, Fault
  <2>4. (Failed => Failed') /\ (target \in openFiles' \/ Failed')
    BY <1>0, <1>2, <2>3 DEF Failed
  <2> QED  BY <1>0, <1>1, <2>2, <2>3, <2>4
<1> QED  BY <1>3, <1>4, <1>5, <1>6, <1>7 DEF Printf

(* No handler has done anything.                                           *)
LEMMA ChangesStay ==
    ASSUME LogP!LogInv, Changes, UNCHANGED <<printf, entry, written, reported, pending, committed>>,
           Failed => Failed', target' \in openFiles' \/ Failed'
    PROVE  Changes'
  BY DEF Changes

LEMMA HandlerKeeps ==
    ASSUME LogP!LogInv, Changes, NEW c \in Caller, Commit(c) \/ CallLog(c) \/ Printf(c)
    PROVE  LogP!LogInv' /\ Changes'
<1>0. /\ entry \in [Caller -> 0..MaxEntries] /\ printf \in [Caller -> LogP!Inside \cup {"idle"}]
      /\ MaxEntries \in Nat /\ reported \subseteq written
  BY BoundsAssumption DEF LogP!LogInv, LogP!TypeOK, LogP!ReportedMeansWritten
<1>1. CASE Commit(c)
  <2>1. /\ UNCHANGED <<log, faults>> /\ printf[c] = "idle" /\ entry[c] < MaxEntries
        /\ committed' = committed \cup {<<c, entry[c] + 1>>} /\ pending' = pending \cup {c}
    BY <1>1 DEF Commit
  <2>2. LogP!LogInv'
    BY <2>1, LogUntouched
  <2>3. /\ UNCHANGED <<target, openFiles, printf, entry, written, reported, closed, faults>>
    BY <2>1 DEF log
  <2>4. entry[c] + 1 \in 1..MaxEntries
    BY <1>0, <2>1
  <2>5. committed' \subseteq Caller \X (1..MaxEntries)
    BY <2>1, <2>4 DEF Changes
  <2>6. /\ target' \in openFiles' \/ Failed'
        /\ \A d \in Caller : printf'[d] \in {"close", "reopen", "second"} => Failed'
    BY <2>3 DEF Changes, Failed
  <2>7. pending' \subseteq Caller /\ \A d \in pending' : printf'[d] = "idle"
    BY <2>1, <2>3 DEF Changes
  <2>8. ASSUME NEW e \in committed'
        PROVE  \/ e \in written'
               \/ e[1] \in pending' /\ e[2] = entry'[e[1]] + 1
               \/ e[2] = entry'[e[1]] /\ printf'[e[1]] # "idle"
               \/ Failed' /\ e \notin reported'
    <3>1. CASE e = <<c, entry[c] + 1>>
      BY <2>1, <2>3, <3>1
    <3>2. CASE e \in committed
      BY <2>1, <2>3, <3>2 DEF Changes, Failed
    <3> QED  BY <2>1, <3>1, <3>2
  <2> QED  BY <2>2, <2>5, <2>6, <2>7, <2>8 DEF Changes
<1>2. CASE CallLog(c)
  <2>1. c \in pending /\ pending' = pending \ {c} /\ committed' = committed /\ Log!Call(c)
    BY <1>2 DEF CallLog
  <2>2. /\ LogP!LogInv'
        /\ printf' = [printf EXCEPT ![c] = "first"] /\ entry' = [entry EXCEPT ![c] = @ + 1]
        /\ UNCHANGED <<target, openFiles, written, reported, closed, faults>>
    BY <2>1, LogCalled
  <2>3. /\ printf'[c] = "first" /\ entry'[c] = entry[c] + 1 /\ printf[c] = "idle"
        /\ \A d \in Caller \ {c} : printf'[d] = printf[d] /\ entry'[d] = entry[d]
    BY <1>0, <2>1, <2>2 DEF Changes
  <2>4. /\ target' \in openFiles' \/ Failed'
        /\ \A d \in Caller : printf'[d] \in {"close", "reopen", "second"} => Failed'
    BY <2>2, <2>3 DEF Changes, Failed
  <2>5. pending' \subseteq Caller /\ \A d \in pending' : printf'[d] = "idle"
    BY <2>1, <2>3 DEF Changes
  <2>6. ASSUME NEW e \in committed
        PROVE  \/ e \in written'
               \/ e[1] \in pending' /\ e[2] = entry'[e[1]] + 1
               \/ e[2] = entry'[e[1]] /\ printf'[e[1]] # "idle"
               \/ Failed' /\ e \notin reported'
    <3>1. e[1] \in Caller
      BY DEF Changes
    <3>2. \/ e \in written
          \/ e[1] \in pending /\ e[2] = entry[e[1]] + 1
          \/ e[2] = entry[e[1]] /\ printf[e[1]] # "idle"
          \/ Failed /\ e \notin reported
      BY DEF Changes
    <3>3. CASE e[1] = c
      BY <2>2, <2>3, <3>2, <3>3 DEF Failed
    <3>4. CASE e[1] # c
      BY <2>1, <2>2, <2>3, <3>1, <3>2, <3>4 DEF Failed
    <3> QED  BY <3>3, <3>4
  <2> QED  BY <2>1, <2>2, <2>4, <2>5, <2>6 DEF Changes
<1>3. CASE Printf(c)
  <2>1. UNCHANGED <<pending, committed>>
    BY <1>3 DEF Printf, hist
  <2>2. /\ LogP!LogInv'
        /\ printf[c] # "idle" /\ \A d \in Caller \ {c} : printf'[d] = printf[d]
        /\ written \subseteq written' /\ UNCHANGED <<target, entry, closed>>
        /\ Failed => Failed'
        /\ target \in openFiles' \/ Failed'
        /\ printf'[c] \in {"close", "reopen", "second"} => Failed'
        /\ printf'[c] = "idle" => <<c, entry[c]>> \in written' \/ Failed'
    BY <1>3, LogPrints
  <2>3. reported' \subseteq written'
    BY <2>2 DEF LogP!LogInv, LogP!ReportedMeansWritten
  <2>4. \A d \in Caller : printf'[d] \in {"close", "reopen", "second"} => Failed'
    BY <2>2 DEF Changes
  <2>5. pending \subseteq Caller /\ \A d \in pending : printf'[d] = "idle"
    BY <2>2 DEF Changes
  <2>6. ASSUME NEW e \in committed
        PROVE  \/ e \in written'
               \/ e[1] \in pending /\ e[2] = entry[e[1]] + 1
               \/ e[2] = entry[e[1]] /\ printf'[e[1]] # "idle"
               \/ Failed' /\ e \notin reported'
    <3>1. e[1] \in Caller /\ e = <<e[1], e[2]>>
      BY DEF Changes
    <3>2. \/ e \in written
          \/ e[1] \in pending /\ e[2] = entry[e[1]] + 1
          \/ e[2] = entry[e[1]] /\ printf[e[1]] # "idle"
          \/ Failed /\ e \notin reported
      BY DEF Changes
    <3>3. CASE e[2] = entry[e[1]] /\ e[1] = c
      BY <2>2, <2>3, <3>1, <3>3
    <3>4. CASE ~(e[2] = entry[e[1]] /\ e[1] = c)
      BY <2>2, <2>3, <3>1, <3>2, <3>4
    <3> QED  BY <3>3, <3>4
  <2> QED  BY <2>1, <2>2, <2>4, <2>5, <2>6 DEF Changes
<1> QED  BY <1>1, <1>2, <1>3

LEMMA ChangesKept ==
    ASSUME LogP!LogInv, Changes, [Next]_vars
    PROVE  LogP!LogInv' /\ Changes'
<1>1. ASSUME UNCHANGED <<log, pending, committed>>, Fault \/ UNCHANGED faults
      PROVE  LogP!LogInv' /\ Changes'
  <2>1. LogP!LogInv' /\ (Failed => Failed')
    BY <1>1, LogUntouched
  <2>2. UNCHANGED <<target, openFiles, printf, entry, written, reported, pending, committed>>
    BY <1>1 DEF log
  <2>3. target' \in openFiles' \/ Failed'
    BY <2>1, <2>2 DEF Changes
  <2> QED  BY <2>1, <2>2, <2>3, ChangesStay
<1>2. CASE \/ OpenDatabase("lists", "users", "closeLists")
           \/ OpenDatabase("users", "wait", "closeUsers")
           \/ DeferWait \/ CheckSpool \/ ListenSockmap \/ StartServers \/ ListenLMTP
           \/ ReceiveSignal \/ CloseLMTP \/ CloseSockmap \/ Wait
           \/ CloseDatabase("users", "closeUsers") \/ CloseDatabase("lists", "closeLists") \/ Exit
  BY <1>1, <1>2 DEF OpenDatabase, DeferWait, CheckSpool, ListenSockmap, StartServers, ListenLMTP,
     ReceiveSignal, CloseLMTP, CloseSockmap, Wait, CloseDatabase, Exit, Fail, NoFault, Fault, hist
<1>3. CASE CloseLog
  <2>1. Log!Close /\ UNCHANGED <<pending, committed>>
    BY <1>3 DEF CloseLog, hist
  <2> QED  BY <2>1, LogClosed, ChangesStay
<1>4. CASE Signal \/ WebServe \/ Serve \/ ServeFailed
  BY <1>1, <1>4 DEF Signal, WebServe, Serve, ServeFailed, Fault, NoFault, hist
<1>5. ASSUME NEW t \in Tx, Accept(t) \/ Rcpt(t) \/ Data(t) \/ Work(t)  PROVE LogP!LogInv' /\ Changes'
  <2>1. UNCHANGED Others
    BY <1>5 DEF Accept, Rcpt, Data, Work, Decide, Receivers, Send, Save, Notify, Leave, Release
  <2> QED  BY <1>1, <2>1 DEF Others, hist
<1>6. ASSUME NEW c \in Caller, Commit(c) \/ CallLog(c) \/ Printf(c)  PROVE LogP!LogInv' /\ Changes'
  BY <1>6, HandlerKeeps
<1>7. CASE UNCHANGED vars
  BY <1>1, <1>7 DEF vars, hist
<1> QED  BY <1>2, <1>3, <1>4, <1>5, <1>6, <1>7 DEF Next, Main

-----------------------------------------------------------------------------
(* The servers, and the whole                                              *)

LEMMA SockKept ==
    ASSUME Sock!TypeOK,
           \/ UNCHANGED sock
           \/ Sock!Append \/ Sock!Appended \/ Sock!AcceptError
           \/ Sock!CloseBegin \/ Sock!CloseListeners \/ Sock!CloseConns
    PROVE  Sock!TypeOK'
<1>1. /\ serve' \in {"start", "append", "accept", "ended", "failed", "panic"}
      /\ listening' \in BOOLEAN /\ done' \in BOOLEAN
      /\ closer' \in {"idle", "done", "listeners", "returned", "panic"}
      /\ lateServe' \in BOOLEAN /\ broken' \in BOOLEAN
  BY DEF sock, Sock!TypeOK, Sock!Append, Sock!Appended, Sock!AcceptError, Sock!CloseBegin,
         Sock!CloseListeners, Sock!CloseConns, Sock!ListenerClosed, Sock!Panic, Sock!history
<1> QED  BY <1>1 DEF Sock!TypeOK

LEMMA RestKept ==
    ASSUME Rest, [Next]_vars
    PROVE  Rest'
<1>1. ASSUME UNCHANGED <<signalled, web, load>>, Sock!TypeOK'  PROVE Rest'
  BY <1>1 DEF Rest
<1>2. UNCHANGED sock => Sock!TypeOK'
  BY SockKept DEF Rest
<1>3. CASE \/ OpenDatabase("lists", "users", "closeLists")
           \/ OpenDatabase("users", "wait", "closeUsers")
           \/ DeferWait \/ CheckSpool \/ ListenSockmap \/ ListenLMTP
           \/ ReceiveSignal \/ CloseLMTP \/ Wait
           \/ CloseDatabase("users", "closeUsers") \/ CloseDatabase("lists", "closeLists")
           \/ CloseLog \/ Exit
  BY <1>1, <1>2, <1>3 DEF OpenDatabase, DeferWait, CheckSpool, ListenSockmap, ListenLMTP,
     ReceiveSignal, CloseLMTP, Wait, CloseDatabase, CloseLog, Exit, hist
<1>4. CASE StartServers \/ Signal \/ WebServe \/ ServeFailed
  BY <1>2, <1>4 DEF StartServers, Signal, WebServe, ServeFailed, Rest, hist
<1>5. CASE CloseSockmap
  BY <1>1, <1>5, SockKept DEF CloseSockmap, Rest, hist
<1>6. CASE Serve
  BY <1>1, <1>6, SockKept DEF Serve, Rest, hist
<1>7. ASSUME NEW t \in Tx, Accept(t) \/ Rcpt(t) \/ Data(t) \/ Work(t)  PROVE Rest'
  <2>1. UNCHANGED Others
    BY <1>7 DEF Accept, Rcpt, Data, Work, Decide, Receivers, Send, Save, Notify, Leave, Release
  <2> QED  BY <1>1, <1>2, <2>1 DEF Others, hist
<1>8. ASSUME NEW c \in Caller, Commit(c) \/ CallLog(c) \/ Printf(c)  PROVE Rest'
  BY <1>1, <1>2, <1>8 DEF Commit, CallLog, Printf, hist
<1>9. CASE UNCHANGED vars
  BY <1>1, <1>2, <1>9 DEF vars, hist
<1> QED  BY <1>3, <1>4, <1>5, <1>6, <1>7, <1>8, <1>9 DEF Next, Main

LEMMA ShutInit ==
    ASSUME Init
    PROVE  ShutInv
<1>1. Stages
  BY Different DEF Init, Stages, MainStep, WithLists, WithUsers, S1
<1>2. Waiting
  <2>1. NewTx \in TxType /\ NewTx.pc = "none"
    BY DEF NewTx, TxType
  <2>2. tx \in [Tx -> TxType] /\ \A t \in Tx : tx[t].pc = "none"
    BY <2>1 DEF Init
  <2> QED  BY <2>2 DEF Init, Waiting, Working
<1>3. Deliveries
  <2>1. Delivery(NewTx, wait)
    BY DEF NewTx, Delivery
  <2> QED  BY <2>1 DEF Init, Deliveries
<1>4. LogP!LogInv
  <2>1. LogP!Init
    BY DEF Init, Log!Init, LogP!Init
  <2> QED  BY <2>1, LogP!LogInit, BoundsAssumption
<1>5. Changes
  BY DEF Init, Log!Init, Changes
<1>6. Rest
  <2>1. Sock!TypeOK
    BY DEF Init, Sock!Init, Sock!TypeOK
  <2> QED  BY <2>1 DEF Init, Rest
<1> QED  BY <1>1, <1>2, <1>3, <1>4, <1>5, <1>6 DEF ShutInv

LEMMA ShutInvariant == Spec => []ShutInv
<1>1. ShutInv /\ [Next]_vars => ShutInv'
  BY StagesKept, WaitingKept, ChangesKept, RestKept DEF ShutInv
<1> QED  BY ShutInit, <1>1, PTL DEF Spec

(* Types, and of the deferred calls: none is deferred twice, so none is    *)
(* made twice.                                                             *)
THEOREM ShutdownTyped == Spec => []TypeOK
<1>1. ShutInv => TypeOK
  <2> SUFFICES ASSUME ShutInv PROVE TypeOK
    OBVIOUS
  <2>1. deferred \in Seq(Call) /\ \A i, j \in DOMAIN deferred : deferred[i] = deferred[j] => i = j
    BY StackTyped DEF ShutInv, Stages, Once
  <2>2. Log!TypeOK
    BY DEF ShutInv, LogP!LogInv, LogP!TypeOK, Log!TypeOK, LogP!Inside, Log!Inside
  <2>3. main \in MainStep /\ dbs \subseteq {"lists", "users"}
    BY DEF ShutInv, Stages
  <2>4. /\ tx \in [Tx -> TxType] /\ lmtp \in {"none", "open", "closed"}
        /\ wait \in {"none", "blocked", "released", "over", "stuck"}
    BY DEF ShutInv, Waiting
  <2>5. pending \subseteq Caller /\ committed \subseteq Caller \X (1..MaxEntries)
    BY DEF ShutInv, Changes
  <2>6. /\ signalled \in BOOLEAN /\ web \in {"none", "start", "serving", "failed"}
        /\ load \in Loads /\ Sock!TypeOK
    BY DEF ShutInv, Rest
  <2> QED  BY <2>1, <2>2, <2>3, <2>4, <2>5, <2>6 DEF TypeOK, MainStep, TxType, Call
<1> QED  BY <1>1, ShutInvariant, PTL

(* While a transaction is under way that began before main had finished    *)
(* waiting (Alias.Waiting, deferred between the databases and the servers),*)
(* both databases are open, whatever stopped the process and whenever.     *)
THEOREM WaitedComplete == Spec => []WaitedTransactionsComplete
<1>1. ShutInv => WaitedTransactionsComplete
  BY StillOpen DEF ShutInv, WaitedTransactionsComplete
<1> QED  BY <1>1, ShutInvariant, PTL

(* A shutdown makes the MTA deliver a mail again that was sent or saved    *)
(* only by closing the connection of its transaction, to a transaction     *)
(* that began after main had waited, or by breaking the wait group.        *)
THEOREM RepeatsOnlyIfCut == Spec => []RepeatedOnlyIfCut
<1>1. ShutInv => RepeatedOnlyIfCut
  BY DEF ShutInv, Deliveries, Delivery, RepeatedOnlyIfCut
<1> QED  BY <1>1, ShutInvariant, PTL

(* Whenever main ends and closes the log under the web handlers, a change  *)
(* that a handler has committed is in the log or on its way to it, or      *)
(* something failed or the log was closed, and then its Printf did not     *)
(* report success.                                                         *)
THEOREM ChangesLogged == Spec => []ChangesAreLogged
<1>1. ShutInv => ChangesAreLogged
  BY DEF ShutInv, Changes, Failed, ChangesAreLogged
<1> QED  BY <1>1, ShutInvariant, PTL

(* What Printf has reported to a web handler is in a file, also when main  *)
(* closes the log in the middle of a Printf.                               *)
THEOREM ReportedIsWritten == Spec => []ReportedMeansWritten
<1>1. ShutInv => ReportedMeansWritten
  BY DEF ShutInv, LogP!LogInv, LogP!ReportedMeansWritten, ReportedMeansWritten, Log!ReportedMeansWritten
<1> QED  BY <1>1, ShutInvariant, PTL

(* No descriptor but that of the current file is open, also after main has *)
(* closed the log while a web handler reopens it.                          *)
THEOREM NoDescriptorStays == Spec => []NoDescriptorLeft
<1>1. ShutInv => NoDescriptorLeft
  BY DEF ShutInv, LogP!LogInv, LogP!NoDescriptorLeft, NoDescriptorLeft, Log!NoDescriptorLeft
<1> QED  BY <1>1, ShutInvariant, PTL
=============================================================================
