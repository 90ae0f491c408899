----------------------------- MODULE LmtpProof -----------------------------
(***************************************************************************)
(* Proofs about Lmtp, for any number of sessions, mails, lists and people, *)
(* any database and any bounds: first types and the database; then that    *)
(* Lmtp keeps the promise of AtLeastOnce, that a mail is multiplied by     *)
(* retries only, and that what the MTA hears is true; and whom it serves:  *)
(* only a sender who once might post gets a mail through, and only people  *)
(* who were members get it.                                                *)
(***************************************************************************)
EXTENDS Lmtp, ListRepoProof, FiniteSetTheorems, TLAPS

-----------------------------------------------------------------------------
(* Types *)

(* The history of the database records list addresses, addresses and       *)
(* statuses.                                                               *)
LEMMA HistoryTyped ==
    RepoTypeOK => /\ RolesNow \subseteq ListAddr \X Address \X Status
                  /\ PassNow \subseteq ListAddr \X Status
                  /\ ReceiversNow \subseteq Id \X ListAddr \X Address
<1> SUFFICES ASSUME RepoTypeOK
             PROVE  /\ RolesNow \subseteq ListAddr \X Address \X Status
                    /\ PassNow \subseteq ListAddr \X Status
                    /\ ReceiversNow \subseteq Id \X ListAddr \X Address
  OBVIOUS
<1>1. \A l \in list, a \in Address : GetRoles(l, a) \subseteq Status
  BY DEF GetRoles, Status
<1>2. \A l \in list : l.addr \in ListAddr /\ l.id \in Id
  BY DEF RepoTypeOK, ListRow
<1>5. \A r \in member : r.address \in Address
  BY DEF RepoTypeOK, MemberRow
<1>6. ReceiversNow \subseteq Id \X ListAddr \X Address
  BY <1>2, <1>5 DEF ReceiversNow
<1>3. RolesNow \subseteq ListAddr \X Address \X Status
  BY <1>1, <1>2 DEF RolesNow
<1>4. PassNow \subseteq ListAddr \X Status
  BY <1>2 DEF PassNow
<1> QED  BY <1>3, <1>4, <1>6

LEMMA IdleTyped == Idle \in SessionState
  BY DEF Idle, SessionState, PC, None

(* Initially everything has its type.                                      *)
LEMMA InitTypeOK == Init => TypeOK
<1> SUFFICES ASSUME Init PROVE TypeOK
  OBVIOUS
<1>1. RepoTypeOK
  BY InitAssumption DEF Init, RepoTypeOK
<1> QED
  BY <1>1, HistoryTyped, IdleTyped DEF Init, TypeOK

(* What an administrator does to the tables keeps the types of their rows. *)
LEMMA AdminTyped ==
    ASSUME RepoTypeOK, Admin
    PROVE  RepoTypeOK'
<1>1. ASSUME \/ \E a \in ListAddr : Create(a)
             \/ \E l \in list, set \in SettingsChoice : Update(l, set)
             \/ \E l \in list : Delete(l)
      PROVE  RepoTypeOK'
  BY <1>1, ListsTyped, ChoiceAssumption
<1>2. ASSUME NEW l \in list, NEW a \in Address, NEW role \in RoleChoice,
             AddMembers(l, {a}, role) \/ UpdateMember(l, a, role)
      PROVE  RepoTypeOK'
  BY <1>2, MembersTyped, ChoiceAssumption DEF RepoTypeOK, ListRow
<1>3. ASSUME NEW l \in list, NEW a \in Address,
             RemoveMembers(l, {a}) \/ AddKnowns(l, {a}) \/ RemoveKnowns(l, {a})
      PROVE  RepoTypeOK'
  <2>1. Receiver \in Role /\ l.id \in Id
    BY DEF Receiver, Role, RepoTypeOK, ListRow
  <2> QED  BY <1>3, <2>1, MembersTyped
<1> QED  BY <1>1, <1>2, <1>3 DEF Admin

-----------------------------------------------------------------------------
(* One session moves *)

(* A recipient of a mail is an item.                                       *)
LEMMA ItemOf == \A m \in Mails : \A k \in Pos(m) : <<m, k>> \in Item
<1> SUFFICES ASSUME NEW m \in Mails, NEW k \in Pos(m) PROVE <<m, k>> \in Item
  OBVIOUS
<1>1. <<m, k>> \in {m} \X Pos(m)
  OBVIOUS
<1> QED  BY <1>1 DEF Item

(* The session that acts ends in a typed state; so all are typed.          *)
LEMMA OneSessionTyped ==
    ASSUME sess \in [Session -> SessionState], NEW s \in Session,
           NEW S \in SessionState, sess' = [sess EXCEPT ![s] = S]
    PROVE  sess' \in [Session -> SessionState]
  OBVIOUS

(* A session keeps what it knows while more is done.                       *)
LEMMA GoodSessionStable ==
    ASSUME NEW S, NEW c, NEW d, c \subseteq d, GoodSession(S, c)
    PROVE  GoodSession(S, d)
  BY DEF GoodSession

(* In a step of a session copies keep their type and never shrink, and the *)
(* members of lists stay as they are.                                      *)
CopiesGrow ==
    /\ copies' \in [Item -> Nat] /\ \A x \in Item : copies[x] <= copies'[x]
    /\ UNCHANGED <<member, overtaken>>

LEMMA DoneGrows == ASSUME TypeOK, CopiesGrow PROVE Done \subseteq Done'
<1>1. \A x \in Item : copies[x] \in Nat /\ copies'[x] \in Nat /\ copies[x] <= copies'[x]
  BY DEF TypeOK, CopiesGrow
<1>2. \A x \in Item : copies[x] > 0 => copies'[x] > 0
  BY <1>1
<1> QED  BY <1>2 DEF Done, CopiesGrow

(* So only the session that acts has to be looked at.                      *)
LEMMA OneSessionInv ==
    ASSUME TypeOK, SessionInv, CopiesGrow, NEW s \in Session, NEW S,
           sess' = [sess EXCEPT ![s] = S],
           S.pc = "checkback" => StillAsked(S),
           GoodSession(S, Done')
    PROVE  SessionInv'
<1>1. StillAsked(S)
  BY DEF StillAsked
<1>2. ASSUME NEW t \in Session
      PROVE  GoodSession(sess'[t], Done') /\ StillAsked(sess'[t])
  <2>1. CASE t = s
    BY <1>1, <2>1 DEF TypeOK
  <2>2. CASE t # s
    <3>1. sess'[t] = sess[t]
      BY <2>2 DEF TypeOK
    <3>2. GoodSession(sess[t], Done) /\ StillAsked(sess[t])
      BY DEF SessionInv
    <3> QED  BY <3>1, <3>2, GoodSessionStable, DoneGrows
  <2> QED  BY <2>1, <2>2
<1>3. UNCHANGED <<member, overtaken>>
  BY DEF CopiesGrow
<1> QED  BY <1>2, <1>3 DEF SessionInv, StillAsked, IsMember, Rows

LEMMA CopiesUnchanged ==
    ASSUME TypeOK, UNCHANGED <<copies, member, overtaken>>
    PROVE  CopiesGrow /\ Done' = Done
<1>1. CopiesGrow
  BY DEF TypeOK, CopiesGrow
<1>2. Done' = Done
  BY DEF Done
<1> QED  BY <1>1, <1>2

LEMMA HandledGrows ==
    ASSUME TypeOK, NEW s, Handled(s), UNCHANGED <<member, overtaken>>
    PROVE  CopiesGrow
<1>1. copies \in [Item -> Nat]
  BY DEF TypeOK
<1> DEFINE y == item(s)
<1>2. copies' = [copies EXCEPT ![y] = copies[y] + 1]
  BY DEF Handled
<1> HIDE DEF y
<1>3. copies' = [x \in Item |-> IF x = y THEN copies[x] + 1 ELSE copies[x]]
  BY <1>1, <1>2
<1>4. \A x \in Item : copies[x] \in Nat
  BY <1>1
<1>5. \A x \in Item : copies'[x] \in Nat /\ copies[x] <= copies'[x]
  BY <1>3, <1>4
<1> QED  BY <1>3, <1>5 DEF CopiesGrow

(* data() returns an error.                                                *)
LEMMA AnswerStep ==
    ASSUME TypeOK, SessionInv, CopiesGrow, NEW s \in Session,
           NEW code \in {"temp", "perm"}, sess[s].pc # "idle", Answer(s, code)
    PROVE  sess' \in [Session -> SessionState] /\ SessionInv'
<1> DEFINE S == [sess[s] EXCEPT !.pc = "reply", !.code = code]
<1>1. sess \in [Session -> SessionState] /\ sess[s] \in SessionState
  BY DEF TypeOK
<1>2. S \in SessionState
  BY <1>1 DEF SessionState, PC
<1>3. sess' = [sess EXCEPT ![s] = S]
  BY <1>1 DEF Answer
<1>4. GoodSession(sess[s], Done)
  BY DEF SessionInv
<1>5. GoodSession(S, Done) /\ S.pc # "checkback"
  <2>1. /\ S.pc = "reply" /\ S.code # "ok" /\ S.mail = sess[s].mail /\ S.i = sess[s].i
        /\ S.isBounce = sess[s].isBounce /\ S.pos = sess[s].pos /\ S.lists = sess[s].lists
        /\ S.todo = sess[s].todo
    BY <1>1 DEF SessionState
  <2> HIDE DEF S
  <2> QED  BY <1>4, <2>1 DEF GoodSession
<1>6. GoodSession(S, Done')
  <2> HIDE DEF S
  <2> QED  BY <1>5, GoodSessionStable, DoneGrows
<1>7. sess' \in [Session -> SessionState]
  <2> HIDE DEF S
  <2> QED  BY <1>1, <1>2, <1>3
<1>8. SessionInv'
  <2> HIDE DEF S
  <2> QED  BY <1>3, <1>5, <1>6, OneSessionInv
<1> QED  BY <1>7, <1>8

(* "continue", or the end of the loop body.                                *)
LEMMA NextListStep ==
    ASSUME TypeOK, SessionInv, CopiesGrow, NEW s \in Session,
           sess[s].pc \in {"process", "checkback", "forward", "notify"},
           sess[s].i <= Len(sess[s].lists),
           item(s) \in Done' \/ sess[s].isBounce, NextList(s)
    PROVE  sess' \in [Session -> SessionState] /\ SessionInv'
<1> DEFINE S == [sess[s] EXCEPT !.pc = "process", !.i = @ + 1]
<1>1. sess \in [Session -> SessionState] /\ sess[s] \in SessionState
  BY DEF TypeOK
<1>2. S \in SessionState
  <2>1. sess[s].i + 1 \in Nat \ {0}
    BY <1>1 DEF SessionState
  <2> QED  BY <1>1, <2>1 DEF SessionState, PC
<1>3. sess' = [sess EXCEPT ![s] = S]
  BY <1>1 DEF NextList
<1>4. GoodSession(sess[s], Done')
  BY GoodSessionStable, DoneGrows DEF SessionInv
<1>5. GoodSession(S, Done') /\ S.pc # "checkback"
  <2>1. /\ S.pc = "process" /\ S.mail = sess[s].mail /\ S.i = sess[s].i + 1
        /\ S.isBounce = sess[s].isBounce /\ S.pos = sess[s].pos /\ S.lists = sess[s].lists
        /\ S.todo = sess[s].todo
    BY <1>1 DEF SessionState
  <2>2. item(s) = <<S.mail, S.pos[sess[s].i]>>
    BY <2>1 DEF item
  <2>3. sess[s].i \in Nat /\ S.lists \in Seq(ListRow)
    BY <1>1, <2>1 DEF SessionState
  <2> HIDE DEF S
  <2>4. \A j \in DOMAIN S.lists : j < S.i => j < sess[s].i \/ j = sess[s].i
    BY <2>1, <2>3
  <2>5. \A j \in DOMAIN S.lists :
           j < S.i => <<S.mail, S.pos[j]>> \in Done' \/ S.isBounce
    BY <1>4, <2>1, <2>2, <2>4 DEF GoodSession
  <2> QED  BY <1>4, <2>1, <2>5 DEF GoodSession
<1>6. sess' \in [Session -> SessionState]
  <2> HIDE DEF S
  <2> QED  BY <1>1, <1>2, <1>3
<1>7. SessionInv'
  <2> HIDE DEF S
  <2> QED  BY <1>3, <1>5, OneSessionInv
<1> QED  BY <1>6, <1>7

LEMMA PosNat == \A m \in Mails : Pos(m) \subseteq Nat
<1> SUFFICES ASSUME NEW m \in Mails PROVE Pos(m) \subseteq Nat
  OBVIOUS
<1>1. Msg[m].rcpts \in Seq([addr: ListAddr, bounce: BOOLEAN])
  BY MsgAssumption DEF Message
<1> QED  BY <1>1 DEF Pos

LEMMA RcptTyped ==
    \A m \in Mails : \A k \in Pos(m) : Msg[m].rcpts[k] \in [addr: ListAddr, bounce: BOOLEAN]
<1> SUFFICES ASSUME NEW m \in Mails, NEW k \in Pos(m)
             PROVE  Msg[m].rcpts[k] \in [addr: ListAddr, bounce: BOOLEAN]
  OBVIOUS
<1> DEFINE R == [addr: ListAddr, bounce: BOOLEAN]
           q == Msg[m].rcpts
<1>1. q \in Seq(R)
  BY MsgAssumption DEF Message
<1>2. k \in DOMAIN q
  BY DEF Pos
<1> HIDE DEF R, q
<1>3. q[k] \in R
  BY <1>1, <1>2
<1> QED  BY <1>3 DEF R, q

LEMMA IdleGood == \A c : GoodSession(Idle, c)
  BY DEF Idle, GoodSession

(* A session that knows nothing may stop or begin at any time.             *)
LEMMA MailStep ==
    ASSUME TypeOK, SessionInv, NEW s \in Session, NEW m \in Mails, Mail(s, m)
    PROVE  TypeOK' /\ SessionInv'
<1> DEFINE S == [Idle EXCEPT !.pc = "rcpt", !.mail = m, !.isBounce = Msg[m].null,
                             !.todo = Queued(m), !.live = TRUE]
<1>1. sess \in [Session -> SessionState] /\ tries \in [Mails -> Nat]
  BY DEF TypeOK
<1>2. S \in SessionState
  <2>1. Queued(m) \subseteq Nat
    BY PosNat DEF Queued
  <2>2. Msg[m].null \in BOOLEAN
    BY MsgAssumption DEF Message
  <2>3. S \in SessionState
    BY <2>1, <2>2, IdleTyped DEF SessionState, PC
  <2> QED  BY <2>3
<1>3. sess' = [sess EXCEPT ![s] = S]
  BY DEF Mail
<1>4. GoodSession(S, Done') /\ S.pc # "checkback"
  BY DEF GoodSession, Idle, Queued
<1>5. CopiesGrow
  BY CopiesUnchanged DEF Mail, tables, history
<1> HIDE DEF S
<1>6. sess' \in [Session -> SessionState]
  BY <1>1, <1>2, <1>3
<1>7. SessionInv'
  BY <1>3, <1>4, <1>5, OneSessionInv
<1>8. tries' \in [Mails -> Nat]
  BY <1>1 DEF Mail
<1>9. TypeOK'
  BY <1>6, <1>8 DEF TypeOK, RepoTypeOK, Mail, tables, history, bounds
<1> QED  BY <1>7, <1>9

LEMMA ToIdle ==
    ASSUME TypeOK, SessionInv, CopiesGrow, NEW s \in Session, sess' = [sess EXCEPT ![s] = Idle]
    PROVE  sess' \in [Session -> SessionState] /\ SessionInv'
<1>1. sess \in [Session -> SessionState] /\ Idle.pc # "checkback"
  BY DEF TypeOK, Idle
<1> QED  BY <1>1, IdleTyped, IdleGood, OneSessionInv, OneSessionTyped

LEMMA ResetStep ==
    ASSUME TypeOK, SessionInv, NEW s \in Session, Reset(s)
    PROVE  TypeOK' /\ SessionInv'
<1>1. CopiesGrow
  BY CopiesUnchanged DEF Reset, tables, history
<1>2. sess' \in [Session -> SessionState] /\ SessionInv'
  BY <1>1, ToIdle DEF Reset
<1> QED  BY <1>2 DEF TypeOK, RepoTypeOK, Reset, tables, mta, history, bounds

LEMMA FaultTyped == ASSUME TypeOK, Fault \/ NoFault PROVE faults' \in Nat
  BY DEF TypeOK, Fault, NoFault

(* RCPT: a session takes one more list, or only crosses a recipient off.   *)
LEMMA RcptSession ==
    ASSUME TypeOK, SessionInv, CopiesGrow, NEW s \in Session, sess[s].pc = "rcpt",
           NEW k \in sess[s].todo, NEW lists, NEW pos,
           \/ lists = sess[s].lists /\ pos = sess[s].pos
           \/ /\ Msg[sess[s].mail].rcpts[k].bounce = sess[s].isBounce
              /\ \E l \in GetList(Msg[sess[s].mail].rcpts[k].addr) :
                    lists = Append(sess[s].lists, l) /\ pos = Append(sess[s].pos, k),
           sess' = [sess EXCEPT ![s] = [sess[s] EXCEPT !.todo = @ \ {k},
                                          !.lists = lists, !.pos = pos]]
    PROVE  sess' \in [Session -> SessionState] /\ SessionInv'
<1> DEFINE S == [sess[s] EXCEPT !.todo = @ \ {k}, !.lists = lists, !.pos = pos]
           r == Msg[sess[s].mail].rcpts[k]
<1>1. sess \in [Session -> SessionState] /\ sess[s] \in SessionState
  BY DEF TypeOK
<1>2. GoodSession(sess[s], Done) /\ sess[s].mail \in Mails /\ k \in Pos(sess[s].mail)
  BY DEF SessionInv, GoodSession
<1>3. r \in [addr: ListAddr, bounce: BOOLEAN]
  BY <1>2, RcptTyped
<1>4. /\ S.pc = "rcpt" /\ S.mail = sess[s].mail /\ S.i = 1 /\ S.isBounce = sess[s].isBounce
      /\ S.todo = sess[s].todo \ {k} /\ S.lists = lists /\ S.pos = pos
      /\ S.code = sess[s].code /\ S.live = sess[s].live
  BY <1>1, <1>2 DEF SessionState, GoodSession
<1>5. CASE lists = sess[s].lists /\ pos = sess[s].pos
  <2>1. S \in SessionState
    BY <1>1, <1>5 DEF SessionState
  <2> HIDE DEF S
  <2>2. GoodSession(S, Done)
    BY <1>2, <1>4, <1>5 DEF GoodSession
  <2>3. GoodSession(S, Done')
    BY <2>2, GoodSessionStable, DoneGrows
  <2>4. sess' = [sess EXCEPT ![s] = S] /\ S.pc # "checkback"
    BY <1>4 DEF S
  <2> QED  BY <1>1, <2>1, <2>3, <2>4, OneSessionInv
<1>6. ASSUME r.bounce = sess[s].isBounce, NEW l \in GetList(r.addr),
             lists = Append(sess[s].lists, l), pos = Append(sess[s].pos, k)
      PROVE  sess' \in [Session -> SessionState] /\ SessionInv'
  <2>1. l \in ListRow /\ l.addr = r.addr
    BY DEF GetList, TypeOK, RepoTypeOK
  <2>2. k \in Nat
    BY <1>2, PosNat
  <2>3. sess[s].lists \in Seq(ListRow) /\ sess[s].pos \in Seq(Nat)
    BY <1>1 DEF SessionState
  <2>4. lists \in Seq(ListRow) /\ pos \in Seq(Nat)
    BY <1>6, <2>1, <2>2, <2>3
  <2>5. S \in SessionState
    BY <1>1, <2>4 DEF SessionState
  <2> HIDE DEF S
  <2>6. Len(sess[s].lists) = Len(sess[s].pos)
    BY <1>2 DEF GoodSession
  <2>7. Len(pos) = Len(lists)
    <3>1. Len(lists) = Len(sess[s].lists) + 1
      BY <1>6, <2>1, <2>3
    <3>2. Len(pos) = Len(sess[s].pos) + 1
      BY <1>6, <2>2, <2>3
    <3> QED  BY <2>6, <3>1, <3>2
  <2>8. ASSUME NEW j \in DOMAIN lists
        PROVE  /\ pos[j] \in Pos(sess[s].mail)
               /\ Msg[sess[s].mail].rcpts[pos[j]] =
                      [addr |-> lists[j].addr, bounce |-> sess[s].isBounce]
    <3>1. CASE j \in DOMAIN sess[s].lists
      <4>1. lists[j] = sess[s].lists[j] /\ pos[j] = sess[s].pos[j]
        BY <1>6, <2>3, <2>6, <3>1
      <4> QED  BY <1>2, <3>1, <4>1 DEF GoodSession
    <3>2. CASE j \notin DOMAIN sess[s].lists
      <4>1. lists[j] = l /\ pos[j] = k
        BY <1>6, <2>3, <2>6, <3>2
      <4> QED  BY <1>2, <1>3, <1>6, <2>1, <4>1
    <3> QED  BY <3>1, <3>2
  <2>9. \A j \in DOMAIN lists : ~(j < 1)
    BY <2>4
  <2>10. GoodSession(S, Done')
    BY <1>2, <1>4, <2>7, <2>8, <2>9 DEF GoodSession
  <2>11. sess' = [sess EXCEPT ![s] = S] /\ S.pc # "checkback"
    BY <1>4 DEF S
  <2> QED  BY <1>1, <2>5, <2>10, <2>11, OneSessionInv
<1> QED  BY <1>5, <1>6

LEMMA RcptStep ==
    ASSUME TypeOK, SessionInv, NEW s \in Session, NEW k \in sess[s].todo, Rcpt(s, k)
    PROVE  TypeOK' /\ SessionInv'
<1> DEFINE r == Msg[sess[s].mail].rcpts[k]
           T == [sess[s] EXCEPT !.todo = @ \ {k}]
<1>1. sess \in [Session -> SessionState] /\ sess[s] \in SessionState /\ sess[s].pc = "rcpt"
  BY DEF TypeOK, Rcpt
<1>2. CopiesGrow
  BY CopiesUnchanged DEF Rcpt, tables, history
<1>3. sess' \in [Session -> SessionState] /\ SessionInv'
  <2>1. ASSUME sess' = [sess EXCEPT ![s].todo = @ \ {k}]
        PROVE  sess' \in [Session -> SessionState] /\ SessionInv'
    <3>1. T = [sess[s] EXCEPT !.todo = @ \ {k}, !.lists = sess[s].lists, !.pos = sess[s].pos]
      BY <1>1 DEF SessionState
    <3>2. sess' = [sess EXCEPT ![s] = T]
      BY <1>1, <2>1
    <3> HIDE DEF T
    <3> QED  BY <1>1, <1>2, <3>1, <3>2, RcptSession
  <2>2. ASSUME r.bounce = sess[s].isBounce, NEW l \in GetList(r.addr),
               sess' = [sess EXCEPT ![s].todo = @ \ {k},
                                    ![s].lists = Append(@, l),
                                    ![s].pos = Append(@, k)]
        PROVE  sess' \in [Session -> SessionState] /\ SessionInv'
    <3> DEFINE lists == Append(sess[s].lists, l)
               pos == Append(sess[s].pos, k)
    <3>1. sess' = [sess EXCEPT ![s] = [sess[s] EXCEPT !.todo = @ \ {k},
                                          !.lists = lists, !.pos = pos]]
      BY <1>1, <2>2
    <3>2. Msg[sess[s].mail].rcpts[k].bounce = sess[s].isBounce
      BY <2>2
    <3>3. \E x \in GetList(Msg[sess[s].mail].rcpts[k].addr) :
             lists = Append(sess[s].lists, x) /\ pos = Append(sess[s].pos, k)
      BY <2>2
    <3> HIDE DEF lists, pos
    <3> QED  BY <1>1, <1>2, <3>1, <3>2, <3>3, RcptSession
  <2> QED  BY <2>1, <2>2, <1>1 DEF Rcpt, msg
<1>4. fate' \in [Item -> {"new", "queued", "delivered", "bounced"}]
  BY DEF Rcpt, TypeOK
<1>5. faults' \in Nat
  BY FaultTyped DEF Rcpt
<1> QED
  BY <1>3, <1>4, <1>5 DEF TypeOK, RepoTypeOK, Rcpt, tables, history

(* A session goes on to another step of data() with what it knows.         *)
LEMMA GoToStep ==
    ASSUME TypeOK, SessionInv, CopiesGrow, NEW s \in Session, NEW pc \in PC, GoTo(s, pc),
           pc = "checkback" => StillAsked([sess[s] EXCEPT !.pc = pc]),
           GoodSession([sess[s] EXCEPT !.pc = pc], Done')
    PROVE  sess' \in [Session -> SessionState] /\ SessionInv'
<1> DEFINE S == [sess[s] EXCEPT !.pc = pc]
<1>1. sess \in [Session -> SessionState] /\ sess[s] \in SessionState
  BY DEF TypeOK
<1>2. S \in SessionState
  BY <1>1 DEF SessionState
<1>3. sess' = [sess EXCEPT ![s] = S]
  BY <1>1 DEF GoTo
<1>4. S.pc = pc
  BY <1>1 DEF SessionState
<1> HIDE DEF S
<1>5. GoodSession(S, Done') /\ (S.pc = "checkback" => StillAsked(S))
  BY <1>4 DEF S
<1> QED  BY <1>1, <1>2, <1>3, <1>5, OneSessionInv

(* DATA: the header checks hold for every list when the loop begins.       *)
LEMMA DataStep ==
    ASSUME TypeOK, SessionInv, NEW s \in Session, Data(s)
    PROVE  TypeOK' /\ SessionInv'
<1>1. sess[s] \in SessionState /\ sess[s].pc = "rcpt" /\ GoodSession(sess[s], Done)
  BY DEF TypeOK, Data, SessionInv
<1>2. CopiesGrow /\ copies' = copies /\ Done' = Done
  BY CopiesUnchanged DEF Data, tables, history
<1>3. ASSUME ~Refused(s), GoTo(s, "process")
      PROVE  sess' \in [Session -> SessionState] /\ SessionInv'
  <2> DEFINE S == [sess[s] EXCEPT !.pc = "process"]
  <2>1. /\ S.pc = "process" /\ S.mail = sess[s].mail /\ S.i = 1
        /\ S.isBounce = sess[s].isBounce /\ S.pos = sess[s].pos /\ S.lists = sess[s].lists
        /\ S.todo = sess[s].todo
    BY <1>1 DEF SessionState, GoodSession
  <2>2. \A j \in DOMAIN S.lists : S.lists[j] \in Range(sess[s].lists)
    BY <2>1 DEF Range
  <2>3. \A j \in DOMAIN S.lists :
           /\ S.isBounce \/ S.lists[j].addr \in Msg[S.mail].to
           /\ S.lists[j].addr \notin Msg[S.mail].listIds
    BY <1>3, <2>1, <2>2 DEF Refused, NotInToOrCc, Loop, msg
  <2>4. S.lists \in Seq(ListRow)
    BY <1>1, <2>1 DEF SessionState
  <2>5. \A j \in DOMAIN S.lists : ~(j < 1)
    BY <2>4
  <2>6. GoodSession(S, Done')
    <3> HIDE DEF S
    <3> QED  BY <1>1, <1>2, <2>1, <2>3, <2>5 DEF GoodSession
  <2> QED  BY <1>2, <1>3, <2>6, GoToStep DEF PC
<1>4. ASSUME NEW code \in {"temp", "perm"}, Answer(s, code)
      PROVE  sess' \in [Session -> SessionState] /\ SessionInv'
  BY <1>1, <1>2, <1>4, AnswerStep
<1>5. sess' \in [Session -> SessionState] /\ SessionInv'
  BY <1>3, <1>4 DEF Data
<1>6. faults' \in Nat
  BY FaultTyped DEF Data
<1> QED  BY <1>5, <1>6 DEF TypeOK, RepoTypeOK, Data, tables, mta, history

(* Sending succeeds or fails, and whoever it served is counted.            *)
LEMMA SendTyped ==
    ASSUME TypeOK, NEW to, NEW ok, NEW accepted, Send(to, ok, accepted)
    PROVE  faults' \in Nat
  BY FaultTyped DEF Send

LEMMA ServedGrows ==
    ASSUME TypeOK, NEW s, NEW accepted \in BOOLEAN,
           IF accepted THEN Handled(s) ELSE UNCHANGED copies,
           UNCHANGED <<member, overtaken>>
    PROVE  CopiesGrow
<1>1. CASE accepted
  BY <1>1, HandledGrows
<1>2. CASE ~accepted
  BY <1>2, CopiesUnchanged
<1> QED  BY <1>1, <1>2

LEMMA BounceStep ==
    ASSUME TypeOK, SessionInv, NEW s \in Session, Bounce(s)
    PROVE  TypeOK' /\ SessionInv'
<1>1. /\ sess[s].pc = "process" /\ sess[s].i <= Len(sess[s].lists) /\ sess[s].isBounce
      /\ UNCHANGED <<member, overtaken>>
  BY DEF Bounce, Serving, tables, history
<1>2. CASE Fault /\ Answer(s, "temp") /\ UNCHANGED copies
  <2>1. CopiesGrow
    BY <1>1, <1>2, CopiesUnchanged
  <2>2. sess' \in [Session -> SessionState] /\ SessionInv'
    BY <1>1, <1>2, <2>1, AnswerStep
  <2> QED  BY <1>2, <2>1, <2>2, FaultTyped
          DEF TypeOK, RepoTypeOK, Bounce, tables, mta, history, CopiesGrow
<1>3. ASSUME NEW ok \in BOOLEAN, NEW accepted \in BOOLEAN,
             Send(BounceNotifieds(cur(s)), ok, accepted),
             IF accepted THEN Handled(s) ELSE UNCHANGED copies,
             NextList(s)
      PROVE  TypeOK' /\ SessionInv'
  <2>1. CopiesGrow
    BY <1>1, <1>3, ServedGrows
  <2>2. sess' \in [Session -> SessionState] /\ SessionInv'
    BY <1>1, <1>3, <2>1, NextListStep
  <2>3. faults' \in Nat
    BY <1>3, SendTyped
  <2> QED  BY <2>1, <2>2, <2>3
          DEF TypeOK, RepoTypeOK, Bounce, tables, mta, history, CopiesGrow
<1> QED  BY <1>2, <1>3 DEF Bounce

(* Serving the current list counts for the recipient that named it.        *)
LEMMA HandledServed ==
    ASSUME TypeOK, SessionInv, NEW s \in Session, sess[s].pc # "idle",
           sess[s].i <= Len(sess[s].lists)
    PROVE  /\ cur(s) \in ListRow
           /\ sess[s].mail \in Mails
           /\ sess[s].i \in DOMAIN sess[s].lists
           /\ item(s) \in Item
           /\ Handled(s) => item(s) \in Done'
<1>1. sess[s] \in SessionState /\ copies \in [Item -> Nat] /\ GoodSession(sess[s], Done)
  BY DEF TypeOK, SessionInv
<1>2. sess[s].lists \in Seq(ListRow) /\ sess[s].i \in Nat \ {0}
  BY <1>1 DEF SessionState
<1>3. sess[s].i \in DOMAIN sess[s].lists
  BY <1>2
<1>4. cur(s) \in ListRow
  BY <1>2, <1>3 DEF cur
<1>5. sess[s].mail \in Mails /\ sess[s].pos[sess[s].i] \in Pos(sess[s].mail)
  BY <1>1, <1>3 DEF GoodSession
<1>6. item(s) \in Item
  BY <1>5, ItemOf DEF item
<1> DEFINE y == item(s)
<1>7. Handled(s) => copies' = [copies EXCEPT ![y] = copies[y] + 1]
  BY DEF Handled
<1>8. y \in Item
  BY <1>6
<1> HIDE DEF y
<1>9. Handled(s) => copies'[y] = copies[y] + 1
  BY <1>1, <1>7, <1>8
<1>10. copies[y] \in Nat
  BY <1>1, <1>8
<1>11. Handled(s) => y \in Done'
  BY <1>8, <1>9, <1>10 DEF Done
<1> QED  BY <1>3, <1>4, <1>5, <1>6, <1>11 DEF y

(* In the loop, what a session knows does not depend on the step, but for  *)
(* "checkback", "forward" and "notify".                                    *)
LEMMA GoOn ==
    ASSUME NEW S \in SessionState, NEW c, GoodSession(S, c),
           S.pc \in {"process", "save"}, S.i <= Len(S.lists), ~S.isBounce,
           NEW pc \in {"checkback", "forward", "save", "notify"},
           pc = "checkback" => Msg[S.mail].subject \in {"join", "leave"},
           pc = "forward" => ~Msg[S.mail].spam /\ Msg[S.mail].subject = "other",
           pc = "notify" => <<S.mail, S.pos[S.i]>> \in c
    PROVE  GoodSession([S EXCEPT !.pc = pc], c)
<1> DEFINE T == [S EXCEPT !.pc = pc]
<1>1. /\ T.pc = pc /\ T.mail = S.mail /\ T.i = S.i /\ T.isBounce = S.isBounce
      /\ T.pos = S.pos /\ T.lists = S.lists /\ T.todo = S.todo
  BY DEF SessionState
<1> HIDE DEF T
<1> QED  BY <1>1 DEF GoodSession, T

(* A command is refused, or looked at once more: it asks for a change that *)
(* is still to be made.                                                    *)
LEMMA CommandStep ==
    ASSUME TypeOK, SessionInv, NEW s \in Session, Command(s)
    PROVE  TypeOK' /\ SessionInv'
<1>1. /\ sess[s] \in SessionState /\ GoodSession(sess[s], Done)
      /\ sess[s].pc = "process" /\ sess[s].i <= Len(sess[s].lists) /\ ~sess[s].isBounce
  BY DEF TypeOK, Command, Serving, IsCommand, SessionInv
<1>2. CopiesGrow /\ Done' = Done
  BY CopiesUnchanged DEF Command, tables, history
<1>3. ASSUME NEW code \in {"temp", "perm"}, Answer(s, code)
      PROVE  sess' \in [Session -> SessionState] /\ SessionInv'
  BY <1>1, <1>2, <1>3, AnswerStep
<1>4. ASSUME Personal(s), NEW a \in msg(s).from, Asks(s, a), GoTo(s, "checkback")
      PROVE  sess' \in [Session -> SessionState] /\ SessionInv'
  <2> DEFINE S == [sess[s] EXCEPT !.pc = "checkback"]
  <2>1. GoodSession(S, Done')
    BY <1>1, <1>2, GoOn DEF Command, IsCommand, msg
  <2>2. \A b \in msg(s).from : b = a
    BY <1>4 DEF Personal
  <2>3. S.mail = sess[s].mail /\ S.i = sess[s].i /\ S.lists = sess[s].lists
    BY <1>1 DEF SessionState
  <2> HIDE DEF S
  <2>4. StillAsked(S)
    BY <1>4, <2>2, <2>3 DEF StillAsked, Asks, cur, msg
  <2> QED  BY <1>2, <1>4, <2>1, <2>4, GoToStep DEF PC, S
<1>5. sess' \in [Session -> SessionState] /\ SessionInv'
  BY <1>3, <1>4 DEF Command
<1>6. faults' \in Nat
  BY FaultTyped DEF Command
<1> QED  BY <1>5, <1>6 DEF TypeOK, RepoTypeOK, Command, tables, mta, history

(* An entry in the map of the joins or in that of the leaves.              *)
LEMMA RecordTyped ==
    ASSUME TypeOK, SessionInv, NEW s \in Session, sess[s].pc # "idle",
           sess[s].i <= Len(sess[s].lists), NEW a \in Address, Record(s, a)
    PROVE  sentJoin' \subseteq Address \X ListAddr /\ sentLeave' \subseteq Address \X ListAddr
<1>1. cur(s).addr \in ListAddr
  BY HandledServed DEF ListRow
<1> QED  BY <1>1 DEF Record, TypeOK

(* A link is sent, or there is nothing left to do.                         *)
LEMMA CheckbackStep ==
    ASSUME TypeOK, SessionInv, NEW s \in Session, Checkback(s)
    PROVE  TypeOK' /\ SessionInv'
<1> USE DEF tables, mta, history
<1>1. /\ sess[s].pc = "checkback" /\ sess[s].i <= Len(sess[s].lists)
      /\ UNCHANGED <<member, overtaken>>
  BY DEF Checkback, SessionInv, GoodSession
<1>2. item(s) \in Item /\ msg(s).from \subseteq Address
  BY <1>1, HandledServed, MsgAssumption DEF msg, Message
<1>3. CASE /\ Fault /\ Answer(s, "temp") /\ UNCHANGED <<copies, sentJoin, sentLeave>>
  <2>1. CopiesGrow /\ faults' \in Nat
    BY <1>1, <1>3, CopiesUnchanged, FaultTyped
  <2>2. sess' \in [Session -> SessionState] /\ SessionInv'
    BY <1>1, <1>3, <2>1, AnswerStep
  <2> QED  BY <1>3, <2>1, <2>2 DEF TypeOK, RepoTypeOK, Checkback, CopiesGrow
<1>4. ASSUME NEW a \in msg(s).from, ~Asks(s, a), NextList(s), NoFault,
             UNCHANGED <<copies, sentJoin, sentLeave>>
      PROVE  TypeOK' /\ SessionInv'
  <2>1. CopiesGrow /\ Done' = Done /\ faults' \in Nat
    BY <1>1, <1>4, CopiesUnchanged, FaultTyped
  <2>2. StillAsked(sess[s])
    BY DEF SessionInv
  <2>3. item(s) \in overtaken
    BY <1>1, <1>4, <2>2 DEF StillAsked, Asks, item, cur, msg
  <2>4. item(s) \in Done'
    BY <2>1, <2>3 DEF Done
  <2>5. sess' \in [Session -> SessionState] /\ SessionInv'
    BY <1>1, <1>4, <2>1, <2>4, NextListStep
  <2> QED  BY <1>4, <2>1, <2>5 DEF TypeOK, RepoTypeOK, Checkback, CopiesGrow
<1>5. ASSUME NEW a \in msg(s).from, NEW ok \in BOOLEAN, NEW accepted \in BOOLEAN,
             Send({a}, ok, accepted),
             IF accepted THEN Handled(s) ELSE UNCHANGED copies,
             IF ok THEN NextList(s) /\ Record(s, a)
                   ELSE Answer(s, "temp") /\ UNCHANGED <<sentJoin, sentLeave>>
      PROVE  TypeOK' /\ SessionInv'
  <2>1. CopiesGrow /\ faults' \in Nat
    BY <1>1, <1>5, ServedGrows, SendTyped
  <2>2. CASE ok
    <3>1. item(s) \in Done'
      BY <1>1, <1>5, <2>2, HandledServed DEF Send
    <3>2. sess' \in [Session -> SessionState] /\ SessionInv'
      BY <1>1, <1>5, <2>1, <2>2, <3>1, NextListStep
    <3>3. sentJoin' \subseteq Address \X ListAddr /\ sentLeave' \subseteq Address \X ListAddr
      BY <1>1, <1>2, <1>5, <2>2, RecordTyped
    <3> QED  BY <2>1, <3>2, <3>3 DEF TypeOK, RepoTypeOK, Checkback, CopiesGrow
  <2>3. CASE ~ok
    <3>1. sess' \in [Session -> SessionState] /\ SessionInv'
      BY <1>1, <1>5, <2>1, <2>3, AnswerStep
    <3> QED  BY <1>5, <2>1, <2>3, <3>1 DEF TypeOK, RepoTypeOK, Checkback, CopiesGrow
  <2> QED  BY <2>2, <2>3
<1> QED  BY <1>3, <1>4, <1>5 DEF Checkback

(* GetAction never lets spam pass.                                         *)
LEMMA SpamNeverPasses ==
    ASSUME NEW l, NEW froms, NEW spam \in BOOLEAN, GetAction(l, froms, spam) = Pass
    PROVE  ~spam
  BY DEF GetAction, Mod, Pass


LEMMA DecideStep ==
    ASSUME TypeOK, SessionInv, NEW s \in Session, Decide(s)
    PROVE  TypeOK' /\ SessionInv'
<1>1. /\ sess[s] \in SessionState /\ GoodSession(sess[s], Done)
      /\ sess[s].pc = "process" /\ sess[s].i <= Len(sess[s].lists) /\ ~sess[s].isBounce
  BY DEF TypeOK, Decide, Serving, SessionInv
<1>2. CopiesGrow /\ Done' = Done
  BY CopiesUnchanged DEF Decide, tables, history
<1>3. ASSUME NEW code \in {"temp", "perm"}, Answer(s, code)
      PROVE  sess' \in [Session -> SessionState] /\ SessionInv'
  BY <1>1, <1>2, <1>3, AnswerStep
<1>4. ASSUME GoTo(s, "save")
      PROVE  sess' \in [Session -> SessionState] /\ SessionInv'
  <2>1. GoodSession([sess[s] EXCEPT !.pc = "save"], Done')
    BY <1>1, <1>2, GoOn
  <2> QED  BY <1>2, <1>4, <2>1, GoToStep DEF PC
<1>5. ASSUME GetAction(cur(s), msg(s).from, msg(s).spam) = Pass, GoTo(s, "forward")
      PROVE  sess' \in [Session -> SessionState] /\ SessionInv'
  <2>1. sess[s].mail \in Mails
    BY <1>1 DEF GoodSession
  <2>2. msg(s).spam \in BOOLEAN /\ msg(s).subject \in {"join", "leave", "other"}
    BY <2>1, MsgAssumption DEF Message, msg
  <2>3. ~msg(s).spam
    BY <1>5, <2>2, SpamNeverPasses
  <2>4. msg(s).subject = "other"
    BY <2>2 DEF Decide, IsCommand
  <2>5. GoodSession([sess[s] EXCEPT !.pc = "forward"], Done')
    BY <1>1, <1>2, <2>3, <2>4, GoOn DEF msg
  <2> QED  BY <1>2, <1>5, <2>5, GoToStep DEF PC
<1>6. sess' \in [Session -> SessionState] /\ SessionInv'
  BY <1>3, <1>4, <1>5 DEF Decide
<1>7. faults' \in Nat
  BY FaultTyped DEF Decide
<1> QED  BY <1>6, <1>7 DEF TypeOK, RepoTypeOK, Decide, tables, mta, history

(* What is forwarded goes to addresses in the member table.                *)
LEMMA ReceiversTyped ==
    ASSUME RepoTypeOK, NEW l
    PROVE  Receivers(l) \subseteq Address
  BY DEF RepoTypeOK, Receivers, MembersWhere, MemberRow

LEMMA ForwardStep ==
    ASSUME TypeOK, SessionInv, NEW s \in Session, Forward(s)
    PROVE  TypeOK' /\ SessionInv'
<1> USE DEF tables, mta, history
<1>1. /\ sess[s] \in SessionState /\ GoodSession(sess[s], Done)
      /\ sess[s].pc = "forward" /\ sess[s].i <= Len(sess[s].lists)
      /\ UNCHANGED <<member, overtaken>>
  BY DEF TypeOK, Forward, SessionInv, GoodSession
<1>2. ASSUME Answer(s, "temp"), Fault \/ NoFault, UNCHANGED <<copies, forwarded>>
      PROVE  TypeOK' /\ SessionInv'
  <2>1. CopiesGrow
    BY <1>1, <1>2, CopiesUnchanged
  <2>2. sess' \in [Session -> SessionState] /\ SessionInv'
    BY <1>1, <1>2, <2>1, AnswerStep
  <2>3. faults' \in Nat
    BY <1>2, FaultTyped
  <2> QED  BY <1>2, <2>1, <2>2, <2>3 DEF TypeOK, RepoTypeOK, Forward, CopiesGrow
<1>3. ASSUME NEW ok \in BOOLEAN, NEW accepted \in BOOLEAN,
             Send(Receivers(cur(s)), ok, accepted),
             IF accepted
             THEN /\ Handled(s)
                  /\ forwarded' = forwarded \cup
                       {[mail |-> sess[s].mail, id |-> cur(s).id, addr |-> cur(s).addr,
                         to |-> Receivers(cur(s))]}
             ELSE UNCHANGED <<copies, forwarded>>,
             IF ok THEN NextList(s) ELSE Answer(s, "temp")
      PROVE  TypeOK' /\ SessionInv'
  <2>1. CopiesGrow /\ faults' \in Nat
    BY <1>1, <1>3, ServedGrows, SendTyped
  <2>2. forwarded' \subseteq [mail: Mails, id: Id, addr: ListAddr, to: SUBSET Address]
    <3>1. sess[s].mail \in Mails /\ cur(s).addr \in ListAddr /\ cur(s).id \in Id
      BY <1>1, HandledServed DEF ListRow
    <3>2. Receivers(cur(s)) \in SUBSET Address
      BY ReceiversTyped DEF TypeOK
    <3> QED  BY <1>3, <3>1, <3>2 DEF TypeOK
  <2>3. sess' \in [Session -> SessionState] /\ SessionInv'
    <3>1. CASE ok
      <4>1. item(s) \in Done'
        BY <1>1, <1>3, <3>1, HandledServed DEF Send
      <4> QED  BY <1>1, <1>3, <2>1, <3>1, <4>1, NextListStep
    <3>2. CASE ~ok
      BY <1>1, <1>3, <2>1, <3>2, AnswerStep
    <3> QED  BY <3>1, <3>2
  <2> QED  BY <2>1, <2>2, <2>3 DEF TypeOK, RepoTypeOK, Forward, CopiesGrow
<1> QED  BY <1>2, <1>3 DEF Forward

(* Once it is saved a mail has been served.                                *)
LEMMA SaveStep ==
    ASSUME TypeOK, SessionInv, NEW s \in Session, Save(s)
    PROVE  TypeOK' /\ SessionInv'
<1>1. /\ sess[s] \in SessionState /\ GoodSession(sess[s], Done) /\ ~sess[s].isBounce
      /\ sess[s].pc = "save" /\ sess[s].i <= Len(sess[s].lists)
  BY DEF TypeOK, Save, SessionInv, GoodSession
<1>2. CopiesGrow
  BY CopiesUnchanged, HandledGrows DEF Save, tables, history
<1>3. ASSUME Answer(s, "temp") PROVE sess' \in [Session -> SessionState] /\ SessionInv'
  BY <1>1, <1>2, <1>3, AnswerStep
<1>4. ASSUME Handled(s), GoTo(s, "notify")
      PROVE  sess' \in [Session -> SessionState] /\ SessionInv'
  <2>1. <<sess[s].mail, sess[s].pos[sess[s].i]>> \in Done'
    BY <1>1, <1>4, HandledServed DEF item
  <2>2. GoodSession(sess[s], Done')
    BY <1>1, <1>2, GoodSessionStable, DoneGrows
  <2>3. GoodSession([sess[s] EXCEPT !.pc = "notify"], Done')
    BY <1>1, <2>1, <2>2, GoOn
  <2> QED  BY <1>2, <1>4, <2>3, GoToStep DEF PC
<1>5. sess' \in [Session -> SessionState] /\ SessionInv'
  BY <1>3, <1>4 DEF Save
<1>6. faults' \in Nat
  BY FaultTyped DEF Save
<1> QED
  BY <1>2, <1>5, <1>6 DEF TypeOK, RepoTypeOK, Save, tables, mta, history, CopiesGrow

(* The mail was saved when the loop goes on.                               *)
LEMMA NotifyModsStep ==
    ASSUME TypeOK, SessionInv, NEW s \in Session, NotifyMods(s)
    PROVE  TypeOK' /\ SessionInv'
<1>1. /\ sess[s] \in SessionState /\ GoodSession(sess[s], Done)
      /\ sess[s].pc = "notify" /\ sess[s].i <= Len(sess[s].lists)
  BY DEF TypeOK, NotifyMods, SessionInv, GoodSession
<1>2. CopiesGrow /\ Done' = Done
  BY CopiesUnchanged DEF NotifyMods, tables, history
<1>3. item(s) \in Done' \/ sess[s].isBounce
  BY <1>1, <1>2, HandledServed DEF GoodSession, item
<1>4. sess' \in [Session -> SessionState] /\ SessionInv'
  BY <1>1, <1>2, <1>3, AnswerStep, NextListStep DEF NotifyMods
<1>5. faults' \in Nat
  BY FaultTyped DEF NotifyMods
<1> QED  BY <1>4, <1>5 DEF TypeOK, RepoTypeOK, NotifyMods, tables, mta, history

(* data() ends when no list is left.                                       *)
LEMMA FinishStep ==
    ASSUME TypeOK, SessionInv, NEW s \in Session, Finish(s)
    PROVE  TypeOK' /\ SessionInv'
<1> DEFINE S == [sess[s] EXCEPT !.pc = "reply", !.code = "ok"]
<1>1. sess \in [Session -> SessionState] /\ sess[s] \in SessionState
  BY DEF TypeOK
<1>2. S \in SessionState
  BY <1>1 DEF SessionState, PC
<1>3. sess' = [sess EXCEPT ![s] = S]
  BY <1>1 DEF Finish, Answer
<1>4. CopiesGrow /\ Done' = Done
  BY CopiesUnchanged DEF Finish, tables, history
<1>5. GoodSession(S, Done') /\ S.pc # "checkback"
  <2>1. /\ S.pc = "reply" /\ S.mail = sess[s].mail /\ S.i = sess[s].i
        /\ S.isBounce = sess[s].isBounce /\ S.pos = sess[s].pos /\ S.lists = sess[s].lists
        /\ S.todo = sess[s].todo
    BY <1>1 DEF SessionState
  <2>2. GoodSession(sess[s], Done') /\ sess[s].pc = "process"
        /\ sess[s].i > Len(sess[s].lists)
    BY <1>4 DEF SessionInv, Finish
  <2> HIDE DEF S
  <2> QED  BY <2>1, <2>2 DEF GoodSession
<1> HIDE DEF S
<1>6. sess' \in [Session -> SessionState] /\ SessionInv'
  BY <1>1, <1>2, <1>3, <1>4, <1>5, OneSessionInv
<1> QED  BY <1>6 DEF TypeOK, RepoTypeOK, Finish, tables, mta, history, bounds

LEMMA ReplyStep ==
    ASSUME TypeOK, SessionInv, NEW s \in Session, Reply(s)
    PROVE  TypeOK' /\ SessionInv'
<1>1. CopiesGrow
  BY CopiesUnchanged DEF Reply, tables, history
<1>2. sess' \in [Session -> SessionState] /\ SessionInv'
  BY <1>1, ToIdle DEF Reply
<1>3. fate' \in [Item -> {"new", "queued", "delivered", "bounced"}]
  BY DEF Reply, TypeOK
<1> QED  BY <1>2, <1>3 DEF TypeOK, RepoTypeOK, Reply, tables, history, bounds

(* The connection is lost: the session is over, or nobody waits for it.    *)
LEMMA HangupStep ==
    ASSUME TypeOK, SessionInv, NEW s \in Session, Hangup(s)
    PROVE  TypeOK' /\ SessionInv'
<1>1. CopiesGrow /\ Done' = Done
  BY CopiesUnchanged DEF Hangup, tables, history
<1>2. sess \in [Session -> SessionState] /\ sess[s] \in SessionState
  BY DEF TypeOK
<1>3. sess' \in [Session -> SessionState] /\ SessionInv'
  <2>1. CASE sess[s].pc = "rcpt"
    <3>1. sess' = [sess EXCEPT ![s] = Idle]
      BY <1>2, <2>1 DEF Hangup
    <3> QED  BY <1>1, <3>1, ToIdle
  <2>2. CASE sess[s].pc # "rcpt"
    <3> DEFINE S == [sess[s] EXCEPT !.live = FALSE]
    <3>1. S \in SessionState
      BY <1>2 DEF SessionState
    <3>2. sess' = [sess EXCEPT ![s] = S]
      BY <1>2, <2>2 DEF Hangup
    <3>3. GoodSession(S, Done') /\ StillAsked(S)
      <4>1. /\ S.pc = sess[s].pc /\ S.mail = sess[s].mail /\ S.i = sess[s].i
            /\ S.isBounce = sess[s].isBounce /\ S.pos = sess[s].pos
            /\ S.lists = sess[s].lists /\ S.todo = sess[s].todo /\ S.code = sess[s].code
        BY <1>2 DEF SessionState
      <4>2. GoodSession(sess[s], Done') /\ StillAsked(sess[s])
        BY <1>1 DEF SessionInv
      <4> HIDE DEF S
      <4>3. GoodSession(S, Done')
        BY <4>1, <4>2 DEF GoodSession
      <4>4. StillAsked(S)
        BY <4>1, <4>2 DEF StillAsked
      <4> QED  BY <4>3, <4>4
    <3> HIDE DEF S
    <3> QED  BY <1>1, <1>2, <3>1, <3>2, <3>3, OneSessionInv
  <2> QED  BY <2>1, <2>2
<1>4. faults' \in Nat
  BY FaultTyped DEF Hangup
<1> QED  BY <1>3, <1>4 DEF TypeOK, RepoTypeOK, Hangup, tables, mta, history

LEMMA CrashStep ==
    ASSUME TypeOK, SessionInv, Crash
    PROVE  TypeOK' /\ SessionInv'
<1>1. sess' \in [Session -> SessionState]
  BY IdleTyped DEF Crash
<1>2. SessionInv'
  BY IdleGood DEF Crash, SessionInv, StillAsked, Idle
<1>3. faults' \in Nat
  BY FaultTyped DEF Crash
<1> QED  BY <1>1, <1>2, <1>3 DEF TypeOK, RepoTypeOK, Crash, tables, mta, history

(* The environment leaves the sessions alone.                              *)
LEMMA SessionsUnchanged ==
    ASSUME SessionInv, UNCHANGED <<sess, copies, member, overtaken>>
    PROVE  SessionInv'
<1>1. Done' = Done
  BY DEF Done
<1> QED  BY <1>1 DEF SessionInv, StillAsked, IsMember, Rows

LEMMA SubmitStep ==
    ASSUME TypeOK, SessionInv, NEW m \in Mails, Submit(m)
    PROVE  TypeOK' /\ SessionInv'
<1>1. SessionInv'
  BY SessionsUnchanged DEF Submit, memory, tables, history
<1>2. fate' \in [Item -> {"new", "queued", "delivered", "bounced"}]
  BY DEF Submit, TypeOK
<1> QED
  BY <1>1, <1>2 DEF TypeOK, RepoTypeOK, Submit, tables, memory, history, bounds

LEMMA ExpireStep ==
    ASSUME TypeOK, SessionInv, NEW m \in Mails, Expire(m)
    PROVE  TypeOK' /\ SessionInv'
<1>1. SessionInv'
  BY SessionsUnchanged DEF Expire, memory, tables, history
<1>2. fate' \in [Item -> {"new", "queued", "delivered", "bounced"}]
  BY DEF Expire, TypeOK
<1> QED
  BY <1>1, <1>2 DEF TypeOK, RepoTypeOK, Expire, tables, memory, history, bounds

(* The commands whose subject an administrator has changed.                *)
Overtook ==
    {item(s) : s \in {t \in Session : sess[t].pc = "checkback" /\ \E a \in msg(t).from :
                        <<cur(t).id, a>> \in (MembersNow \ MembersNow') \cup (MembersNow' \ MembersNow)}}

LEMMA AdminOvertakes ==
    ASSUME TypeOK, SessionInv, Admin
    PROVE  /\ overtaken' = overtaken \cup Overtook
           /\ \A x \in Overtook : \E s \in Session : sess[s].pc = "checkback" /\ x = item(s)
           /\ Overtook \subseteq Item
<1>1. overtaken' = overtaken \cup Overtook
  BY DEF Admin, Overtook
<1>2. \A x \in Overtook : \E s \in Session : sess[s].pc = "checkback" /\ x = item(s)
  BY DEF Overtook
<1>3. \A s \in Session : sess[s].pc = "checkback" => item(s) \in Item
  BY HandledServed DEF SessionInv, GoodSession
<1> QED  BY <1>1, <1>2, <1>3

(* An administrator changes what a command asks for: it is overtaken.      *)
LEMMA AdminSessions ==
    ASSUME TypeOK, SessionInv, Admin
    PROVE  SessionInv'
<1>1. UNCHANGED <<sess, copies>>
  BY DEF Admin, memory
<1>2. Done \subseteq Done'
  BY <1>1, AdminOvertakes DEF Done
<1>3. \A s \in Session : GoodSession(sess[s], Done')
  BY <1>2, GoodSessionStable DEF SessionInv
<1>4. /\ \A l, a : IsMember(l, a) <=> <<l.id, a>> \in MembersNow
      /\ \A l, a : IsMember(l, a)' <=> <<l.id, a>> \in MembersNow'
  BY DEF IsMember, Rows, MembersNow
<1>5. ASSUME NEW s \in Session, sess[s].pc = "checkback"
      PROVE  \/ item(s) \in overtaken'
             \/ \A a \in msg(s).from : <<cur(s).id, a>> \in MembersNow' <=> msg(s).subject = "leave"
  <2>1. CASE item(s) \in overtaken
    BY <2>1, AdminOvertakes
  <2>2. CASE item(s) \in Overtook
    BY <2>2, AdminOvertakes
  <2>3. CASE item(s) \notin overtaken /\ item(s) \notin Overtook
    <3>1. \A a \in msg(s).from : <<cur(s).id, a>> \in MembersNow <=> msg(s).subject = "leave"
      BY <1>4, <1>5, <2>3 DEF SessionInv, StillAsked, item, cur, msg
    <3>2. \A a \in msg(s).from : <<cur(s).id, a>> \in MembersNow' <=> <<cur(s).id, a>> \in MembersNow
      BY <1>5, <2>3 DEF Overtook
    <3> QED  BY <3>1, <3>2
  <2> QED  BY <2>1, <2>2, <2>3
<1>6. \A s \in Session : sess[s].pc = "checkback" =>
         \/ <<sess[s].mail, sess[s].pos[sess[s].i]>> \in overtaken'
         \/ \A a \in Msg[sess[s].mail].from :
               <<sess[s].lists[sess[s].i].id, a>> \in MembersNow' <=> Msg[sess[s].mail].subject = "leave"
  BY <1>5 DEF item, cur, msg
<1>7. (\A s \in Session : StillAsked(sess[s]))'
  BY <1>1, <1>6 DEF StillAsked, IsMember, Rows, MembersNow
<1> QED  BY <1>1, <1>3, <1>7 DEF SessionInv

LEMMA AdminStep ==
    ASSUME TypeOK, SessionInv, Admin
    PROVE  TypeOK' /\ SessionInv'
<1>1. SessionInv'
  BY AdminSessions
<1>2. RepoTypeOK'
  BY AdminTyped DEF TypeOK
<1>3. /\ RolesNow' \subseteq ListAddr \X Address \X Status
      /\ PassNow' \subseteq ListAddr \X Status
      /\ ReceiversNow' \subseteq Id \X ListAddr \X Address
  <2>1. (RepoTypeOK => /\ RolesNow \subseteq ListAddr \X Address \X Status
                       /\ PassNow \subseteq ListAddr \X Status
                       /\ ReceiversNow \subseteq Id \X ListAddr \X Address)'
    BY HistoryTyped, PTL
  <2> QED  BY <1>2, <2>1
<1>4. deletedInHand' \subseteq Mails \X ListAddr
  <2>1. \A s \in Session : sess[s].pc # "idle" => sess[s].mail \in Mails
    BY DEF SessionInv, GoodSession
  <2>2. \A addr : InHand(addr) \subseteq Mails
    BY <2>1 DEF InHand
  <2>3. \A l \in list : l.addr \in ListAddr
    BY DEF TypeOK, RepoTypeOK, ListRow
  <2> QED  BY <2>2, <2>3 DEF Admin, TypeOK
<1>5. adminOps' \in Nat
  BY DEF Admin, TypeOK
<1>6. overtaken' \subseteq Item
  BY AdminOvertakes DEF TypeOK
<1> QED
  BY <1>1, <1>2, <1>3, <1>4, <1>5, <1>6 DEF TypeOK, Admin, memory, mta
-----------------------------------------------------------------------------
(* The theorems *)

(* Stuttering changes nothing.                                             *)
LEMMA Stutter == ASSUME TypeOK, SessionInv, UNCHANGED vars PROVE TypeOK' /\ SessionInv'
<1>1. SessionInv'
  BY SessionsUnchanged DEF vars, tables, memory, history
<1> QED
  BY <1>1 DEF TypeOK, RepoTypeOK, vars, tables, memory, mta, history, bounds

LEMMA InitSessionInv == Init => SessionInv
<1> SUFFICES ASSUME Init, NEW s \in Session PROVE GoodSession(sess[s], Done) /\ StillAsked(sess[s])
  BY Zenon DEF SessionInv
<1>1. sess[s] = Idle
  BY DEF Init
<1>2. GoodSession(Idle, Done)
  BY IdleGood
<1>3. Idle.pc = "idle"
  BY DEF Idle
<1> QED  BY <1>1, <1>2, <1>3 DEF StillAsked

LEMMA NextStep ==
    ASSUME TypeOK, SessionInv, [Next]_vars
    PROVE  TypeOK' /\ SessionInv'
<1>1. ASSUME NEW s \in Session, Step(s) PROVE TypeOK' /\ SessionInv'
  BY <1>1, RcptStep, DataStep, BounceStep, CommandStep, CheckbackStep, DecideStep, ForwardStep,
     SaveStep, NotifyModsStep, FinishStep, ReplyStep DEF Step
<1>2. ASSUME NEW s \in Session, Reset(s) \/ Hangup(s) PROVE TypeOK' /\ SessionInv'
  BY <1>2, ResetStep, HangupStep
<1>3. ASSUME NEW m \in Mails, Submit(m) \/ Expire(m) \/ \E s \in Session : Mail(s, m)
      PROVE  TypeOK' /\ SessionInv'
  BY <1>3, SubmitStep, ExpireStep, MailStep
<1>4. ASSUME Crash \/ Admin PROVE TypeOK' /\ SessionInv'
  BY <1>4, CrashStep, AdminStep
<1> QED  BY <1>1, <1>2, <1>3, <1>4, Stutter DEF Next

(* Every variable keeps its type, and a session always has behind it what  *)
(* its next step relies on: data() may use lists[i], the checks it made    *)
(* and the work it did for the lists before, whatever happened in between, *)
(* and leaves a command alone only if an administrator has overtaken it.   *)
THEOREM SessionsGood == Spec => [](TypeOK /\ SessionInv)
<1>1. Init => TypeOK /\ SessionInv
  BY InitTypeOK, InitSessionInv
<1>2. TypeOK /\ SessionInv /\ [Next]_vars => (TypeOK /\ SessionInv)'
  BY NextStep
<1> QED  BY <1>1, <1>2, PTL DEF Spec

(* Every variable keeps its type.                                          *)
THEOREM TypeCorrect == Spec => []TypeOK
  BY SessionsGood, PTL

(* Only administrators change the tables, and their history.               *)
LEMMA TablesStay == ASSUME [Next]_vars, ~Admin PROVE UNCHANGED <<tables, history>>
<1>1. ASSUME NEW s \in Session, Step(s)  PROVE UNCHANGED <<tables, history>>
  BY <1>1 DEF Step, Rcpt, Data, Bounce, Command, Checkback, Decide, Forward, Save, NotifyMods,
              Finish, Reply
<1>2. ASSUME NEW s \in Session, Reset(s) \/ Hangup(s)  PROVE UNCHANGED <<tables, history>>
  BY <1>2 DEF Reset, Hangup
<1>3. ASSUME NEW s \in Session, NEW m \in Mails, Mail(s, m)  PROVE UNCHANGED <<tables, history>>
  BY <1>3 DEF Mail
<1>4. ASSUME NEW m \in Mails, Submit(m) \/ Expire(m)  PROVE UNCHANGED <<tables, history>>
  BY <1>4 DEF Submit, Expire
<1>5. CASE Crash
  BY <1>5 DEF Crash
<1>6. CASE UNCHANGED vars
  BY <1>6 DEF vars
<1> QED  BY <1>1, <1>2, <1>3, <1>4, <1>5, <1>6 DEF Next

(* No step takes back what was forwarded, saved or answered, or overtaken. *)
LEMMA NextGrows ==
    ASSUME TypeOK, SessionInv, [Next]_vars
    PROVE  Done \subseteq Done'
<1>1. CASE Admin
  BY <1>1, AdminOvertakes DEF Done, Admin
<1>2. CASE ~Admin
  <2>1. UNCHANGED <<member, overtaken>>
    BY <1>2, TablesStay DEF tables, history
  <2>2. ASSUME NEW s \in Session, Handled(s) \/ UNCHANGED copies PROVE CopiesGrow
    BY <2>1, <2>2, HandledGrows, CopiesUnchanged
  <2>3. ASSUME NEW s \in Session,
               Bounce(s) \/ Checkback(s) \/ Forward(s) \/ Save(s)
        PROVE  CopiesGrow
    BY <2>2, <2>3 DEF Bounce, Checkback, Forward, Save
  <2>4. ASSUME NEW s \in Session,
               \/ \E k \in sess[s].todo : Rcpt(s, k)
               \/ Data(s) \/ Command(s) \/ Decide(s) \/ NotifyMods(s) \/ Finish(s) \/ Reply(s)
               \/ Reset(s) \/ Hangup(s)
        PROVE  CopiesGrow
    BY <2>1, <2>4, CopiesUnchanged
       DEF Rcpt, Data, Command, Decide, NotifyMods, Finish, Reply, Reset, Hangup
  <2>5. ASSUME NEW m \in Mails, Submit(m) \/ Expire(m) \/ \E s \in Session : Mail(s, m)
        PROVE  CopiesGrow
    BY <2>1, <2>5, CopiesUnchanged DEF Submit, Expire, Mail
  <2>6. ASSUME Crash \/ UNCHANGED vars PROVE CopiesGrow
    BY <2>1, <2>6, CopiesUnchanged DEF Crash, vars
  <2> QED  BY <1>2, <2>3, <2>4, <2>5, <2>6, DoneGrows DEF Next, Step
<1> QED  BY <1>1, <1>2

(* When a session answers "ok", it is done with every list it took.        *)
LEMMA ServedWhenOk ==
    ASSUME TypeOK, SessionInv, NEW s \in Session,
           sess[s].pc = "reply", sess[s].code = "ok",
           NEW x \in Item, x[1] = sess[s].mail, x[2] \in Range(sess[s].pos)
    PROVE  x \in Done \/ Msg[x[1]].null
<1>1. sess[s] \in SessionState /\ GoodSession(sess[s], Done)
  BY DEF TypeOK, SessionInv
<1>2. sess[s].pos \in Seq(Nat) /\ sess[s].lists \in Seq(ListRow) /\ sess[s].i \in Nat
  BY <1>1 DEF SessionState
<1>3. PICK j \in DOMAIN sess[s].pos : x[2] = sess[s].pos[j]
  BY DEF Range
<1>4. Len(sess[s].pos) = Len(sess[s].lists) /\ sess[s].i > Len(sess[s].lists)
  BY <1>1 DEF GoodSession
<1>5. j \in DOMAIN sess[s].lists /\ j < sess[s].i
  BY <1>2, <1>4
<1>6. <<sess[s].mail, sess[s].pos[j]>> \in Done \/ sess[s].isBounce
  BY <1>1, <1>5 DEF GoodSession
<1>7. x = <<x[1], x[2]>>
  BY DEF Item
<1>8. sess[s].isBounce = Msg[sess[s].mail].null
  BY <1>1 DEF GoodSession
<1> QED  BY <1>3, <1>6, <1>7, <1>8

(* No mail is lost: what the MTA was told is delivered has been forwarded, *)
(* saved for a moderator or answered, whatever failed, crashed or changed  *)
(* in the database, and however often the MTA tried - unless it is a       *)
(* bounce, or a command to join or leave that an administrator overtook    *)
(* while data() was at it.                                                 *)
THEOREM NoMailLost == Spec => []AcceptedMeansHandled
<1>1. Init => AcceptedMeansHandled
  BY DEF Init, AcceptedMeansHandled
<1>2. ASSUME TypeOK, SessionInv, AcceptedMeansHandled, [Next]_vars
      PROVE  AcceptedMeansHandled'
  <2>1. Done \subseteq Done'
    BY <1>2, NextGrows
  <2>2. ASSUME NEW x \in Item, fate'[x] = "delivered"
        PROVE  fate[x] = "delivered" \/ x \in Done \/ Msg[x[1]].null
    <3>1. CASE \E s \in Session : Reply(s)
      <4>1. PICK s \in Session : Reply(s)
        BY <3>1
      <4>2. CASE fate[x] # "delivered"
        <5>1. /\ sess[s].pc = "reply" /\ sess[s].code = "ok"
              /\ x[1] = sess[s].mail /\ x[2] \in Range(sess[s].pos)
          BY <2>2, <4>1, <4>2 DEF Reply
        <5> QED  BY <1>2, <5>1, ServedWhenOk
      <4> QED  BY <4>2
    <3>2. CASE \E s \in Session : \E k \in sess[s].todo : Rcpt(s, k)
      BY <1>2, <2>2, <3>2 DEF Rcpt, TypeOK
    <3>3. CASE \E m \in Mails : Submit(m) \/ Expire(m)
      BY <2>2, <3>3 DEF Submit, Expire
    <3>4. CASE UNCHANGED fate
      BY <2>2, <3>4
    <3>5. ASSUME NEW s \in Session, Step(s) \/ Reset(s) \/ Hangup(s)
          PROVE  \/ UNCHANGED fate
                 \/ Reply(s) \/ \E k \in sess[s].todo : Rcpt(s, k)
      BY <3>5 DEF Step, Data, Bounce, Command, Checkback, Decide, Forward, Save, NotifyMods,
                  Finish, Reset, Hangup, mta
    <3>6. ASSUME Crash \/ Admin \/ UNCHANGED vars \/ \E s \in Session, m \in Mails : Mail(s, m)
          PROVE  UNCHANGED fate
      BY <3>6 DEF Crash, Admin, Mail, vars, mta
    <3> QED  BY <1>2, <3>1, <3>2, <3>3, <3>4, <3>5, <3>6 DEF Next
  <2>3. \A x \in Item : fate'[x] = "delivered" => x \in Done' \/ Msg[x[1]].null
    BY <1>2, <2>1, <2>2 DEF AcceptedMeansHandled, Done
  <2> QED  BY <2>3 DEF AcceptedMeansHandled, Done
<1>3. TypeOK /\ SessionInv /\ AcceptedMeansHandled /\ [Next]_vars => AcceptedMeansHandled'
  BY <1>2
<1> QED  BY <1>1, <1>3, SessionsGood, PTL DEF Spec

(* Only a mail that was addressed to the list in its envelope and in To or *)
(* Cc, that did not come from it, and that is neither a bounce nor spam    *)
(* nor a command reaches the receivers, whatever the session did before.   *)
THEOREM UnfitNotForwarded == Spec => []OnlyFitForwarded
<1>1. Init => OnlyFitForwarded
  BY DEF Init, OnlyFitForwarded
<1>2. ASSUME TypeOK, SessionInv, OnlyFitForwarded, [Next]_vars
      PROVE  OnlyFitForwarded'
  <2>1. ASSUME NEW s \in Session, Forward(s)
        PROVE  OnlyFitForwarded'
    <3> DEFINE new == [mail |-> sess[s].mail, id |-> cur(s).id, addr |-> cur(s).addr,
                       to |-> Receivers(cur(s))]
               i == sess[s].i
               k == sess[s].pos[i]
               m == Msg[sess[s].mail]
    <3>1. sess[s].pc = "forward" /\ GoodSession(sess[s], Done) /\ ~sess[s].isBounce
      BY <1>2, <2>1 DEF Forward, SessionInv, GoodSession
    <3>2. i \in DOMAIN sess[s].lists
      BY <1>2, <3>1, HandledServed DEF GoodSession
    <3>3. /\ k \in Pos(sess[s].mail)
          /\ m.rcpts[k] = [addr |-> cur(s).addr, bounce |-> FALSE]
      <4>1. sess[s].isBounce = FALSE
        BY <1>2, <3>1 DEF TypeOK, SessionState
      <4> QED  BY <3>1, <3>2, <4>1 DEF GoodSession, cur
    <3>4. cur(s).addr \in m.to /\ cur(s).addr \notin m.listIds
      BY <3>1, <3>2 DEF GoodSession, cur
    <3>5. ~m.null /\ ~m.spam /\ m.subject = "other"
      BY <3>1 DEF GoodSession
    <3>6. forwarded' \subseteq forwarded \cup {new}
      BY <2>1 DEF Forward
    <3> HIDE DEF i
    <3>7. \E p \in Pos(new.mail) : m.rcpts[p].addr = new.addr /\ ~m.rcpts[p].bounce
      BY <3>3
    <3> HIDE DEF m, k
    <3>8. ASSUME NEW f \in forwarded'
          PROVE  /\ \E p \in Pos(f.mail) : /\ Msg[f.mail].rcpts[p].addr = f.addr
                                            /\ ~Msg[f.mail].rcpts[p].bounce
                 /\ f.addr \in Msg[f.mail].to /\ f.addr \notin Msg[f.mail].listIds
                 /\ ~Msg[f.mail].null /\ ~Msg[f.mail].spam /\ Msg[f.mail].subject = "other"
      <4>1. CASE f \in forwarded
        BY <1>2, <4>1 DEF OnlyFitForwarded
      <4>2. CASE f = new
        BY <3>4, <3>5, <3>7, <4>2 DEF m
      <4> QED  BY <3>6, <4>1, <4>2
    <3> QED  BY <3>8 DEF OnlyFitForwarded
  <2>2. ASSUME UNCHANGED forwarded PROVE OnlyFitForwarded'
    BY <1>2, <2>2 DEF OnlyFitForwarded
  <2>3. ASSUME NEW s \in Session, Step(s) \/ Reset(s) \/ Hangup(s)
        PROVE  UNCHANGED forwarded \/ Forward(s)
    BY <2>3 DEF Step, Rcpt, Data, Bounce, Command, Checkback, Decide, Save, NotifyMods, Finish,
                Reply, Reset, Hangup
  <2>4. ASSUME \/ Crash \/ Admin \/ UNCHANGED vars
               \/ \E s \in Session, m \in Mails : Mail(s, m)
               \/ \E m \in Mails : Submit(m) \/ Expire(m)
        PROVE  UNCHANGED forwarded
    BY <2>4 DEF Crash, Admin, Mail, Submit, Expire, vars
  <2> QED  BY <1>2, <2>1, <2>2, <2>3, <2>4 DEF Next
<1>3. TypeOK /\ SessionInv /\ OnlyFitForwarded /\ [Next]_vars => OnlyFitForwarded'
  BY <1>2
<1> QED  BY <1>1, <1>3, SessionsGood, PTL DEF Spec

-----------------------------------------------------------------------------
(* The database                                                            *)

LEMMA AdminUnique == ASSUME RepoTypeOK, KeysUnique, Admin PROVE KeysUnique'
<1>1. ASSUME NEW a \in ListAddr, Create(a)  PROVE KeysUnique'
  BY <1>1, CreateUnique
<1>2. ASSUME NEW l \in list, NEW set \in SettingsChoice, Update(l, set)  PROVE KeysUnique'
  BY <1>2, UpdateUnique
<1>3. ASSUME NEW l \in list, NEW a \in Address, NEW role \in RoleChoice,
             AddMembers(l, {a}, role) \/ UpdateMember(l, a, role)
      PROVE  KeysUnique'
  BY <1>3, AddMembersUnique, UpdateMemberUnique
<1>4. ASSUME NEW l \in list, NEW a \in Address, RemoveMembers(l, {a})  PROVE KeysUnique'
  BY <1>4, RemoveMembersUnique
<1>5. ASSUME NEW l \in list, NEW a \in Address, AddKnowns(l, {a}) \/ RemoveKnowns(l, {a})
      PROVE  KeysUnique'
  BY <1>5, KnownsUnique DEF AddKnowns, RemoveKnowns
<1>6. ASSUME NEW l \in list, Delete(l)  PROVE KeysUnique'
  BY <1>6, DeleteUnique
<1> QED  BY <1>1, <1>2, <1>3, <1>4, <1>5, <1>6 DEF Admin

(* The constraints of the schema, which the invariants of this module need *)
(* as well as the types: GetList and GetMembership find one row at most.   *)
LEMMA RowsHaveKeys == Spec => []KeysUnique
<1>1. Init => KeysUnique
  BY InitKeysAssumption DEF Init, KeysUnique
<1>2. TypeOK /\ KeysUnique /\ [Next]_vars => KeysUnique'
  <2>1. CASE Admin
    BY <2>1, AdminUnique DEF TypeOK
  <2>2. CASE ~Admin
    BY <2>2, TablesStay DEF tables, KeysUnique
  <2> QED  BY <2>1, <2>2
<1> QED  BY <1>1, <1>2, TypeCorrect, PTL DEF Spec

-----------------------------------------------------------------------------
(* What is still before a session                                          *)

(* The recipients that a session may still serve: those the client has not *)
(* named yet and those whose list is at or after the current one.          *)
Left(S) ==
    IF S.pc \in {"idle", "reply"} THEN {}
    ELSE S.todo \cup {S.pos[j] : j \in {n \in DOMAIN S.pos :
                                          n > S.i \/ (n = S.i /\ S.pc # "notify")}}

(* The recipients of the transaction.                                      *)
Taken(S) == S.todo \cup {S.pos[j] : j \in DOMAIN S.pos}

(* The sessions that may still serve an item.  Those whose client has hung *)
(* up are among them.                                                      *)
Working(x) == {s \in Session : sess[s].mail = x[1] /\ x[2] \in Left(sess[s])}

(* No recipient is taken twice; a client is there from MAIL to DATA.       *)
Orderly(S) ==
    /\ \A j, n \in DOMAIN S.pos : S.pos[j] = S.pos[n] => j = n
    /\ \A j \in DOMAIN S.pos : S.pos[j] \notin S.todo
    /\ S.live => S.pc # "idle"
    /\ S.pc = "rcpt" => S.live

AllOrderly == \A s \in Session : Orderly(sess[s])

(* The MTA has a mail in one session at a time ...                         *)
OneClient == \A s, t \in Session : sess[s].live /\ Delivering(t, sess[s].mail) => s = t

(* ... and waits there for the fate of all its recipients.                 *)
Awaited ==
    \A s \in Session : sess[s].live =>
       \A k \in Taken(sess[s]) : fate[<<sess[s].mail, k>>] = "queued"

(* Every try of a mail serves a recipient once, or may still do so, or     *)
(* will not: those that may and those that did are no more than the tries. *)
TriesCount ==
    \A x \in Item : /\ IsFiniteSet(Working(x))
                    /\ Cardinality(Working(x)) + copies[x] <= tries[x[1]]

PromiseInv == AllOrderly /\ OneClient /\ Awaited /\ TriesCount

(* A transaction that has served all its recipients and will say so.       *)
Succeeding(S) ==
    /\ S.live /\ S.pc \in {"process", "notify", "reply"}
    /\ S.pc = "notify" \/ S.i > Len(S.lists)
    /\ S.pc = "reply" => S.code = "ok"

(* An item of a mail that a transaction is about to report as delivered.   *)
Due(x) == \E s \in Session : /\ sess[s].mail = x[1] /\ x[2] \in Range(sess[s].pos)
                             /\ Succeeding(sess[s])

(* As long as nothing has failed, every client waits, and a mail to one    *)
(* list that was served is known as delivered or about to be.              *)
UnlessFault ==
    faults = 0 =>
       /\ \A s \in Session : sess[s].pc # "idle" => sess[s].live
       /\ \A x \in Item :
             Len(Msg[x[1]].rcpts) <= 1 /\ copies[x] > 0 => fate[x] = "delivered" \/ Due(x)

-----------------------------------------------------------------------------
(* The steps of data(), by what they do to the session and to the items    *)

Moved(s, pc, i, code) ==
    sess' = [sess EXCEPT ![s] = [sess[s] EXCEPT !.pc = pc, !.i = i, !.code = code]]

(* Nobody is served: data() returns, leaves a list out (a bounce that      *)
(* could not be sent, a command that was overtaken) or a served list       *)
(* behind, or looks at the current one.                                    *)
QuietMove(s, pc, i, code) ==
    \/ /\ pc = "reply" /\ i = sess[s].i
       /\ sess[s].pc = "notify" => faults' > 0
       /\ sess[s].pc = "process" /\ i > Len(sess[s].lists) => code = "ok"
    \/ /\ pc = "process" /\ i = sess[s].i + 1
       /\ sess[s].pc \in {"process", "checkback", "notify"} /\ sess[s].i <= Len(sess[s].lists)
    \/ /\ i = sess[s].i
       /\ \/ sess[s].pc = "rcpt" /\ pc = "process"
          \/ /\ sess[s].pc = "process" /\ i <= Len(sess[s].lists)
             /\ pc \in {"checkback", "forward", "save"}

(* The current list is served: it is behind the session then.              *)
ServeMove(s, pc, i) ==
    \/ /\ sess[s].pc \in {"process", "checkback", "forward"} /\ pc = "reply" /\ i = sess[s].i
       /\ faults' > 0
    \/ /\ sess[s].pc \in {"process", "checkback", "forward"}
       /\ pc = "process" /\ i = sess[s].i + 1
    \/ sess[s].pc = "save" /\ pc = "notify" /\ i = sess[s].i

WorkStep(s) ==
    /\ sess[s].pc \notin {"idle", "reply"} /\ UNCHANGED mta /\ faults <= faults'
    /\ \E pc \in PC, i \in Nat \ {0}, code \in {"ok", "temp", "perm"} :
          /\ Moved(s, pc, i, code)
          /\ \/ UNCHANGED copies /\ QuietMove(s, pc, i, code)
             \/ Handled(s) /\ sess[s].i <= Len(sess[s].lists) /\ ServeMove(s, pc, i)

LEMMA SessTyped ==
    ASSUME TypeOK, NEW s \in Session
    PROVE  /\ sess[s] \in SessionState /\ sess[s].i \in Nat \ {0} /\ sess[s].i + 1 \in Nat \ {0}
           /\ sess[s].code \in {"ok", "temp", "perm"}
<1>1. sess[s] \in SessionState
  BY DEF TypeOK
<1>2. sess[s].i \in Nat \ {0} /\ sess[s].code \in {"ok", "temp", "perm"}
  BY <1>1 DEF SessionState
<1>3. sess[s].i + 1 \in Nat \ {0}
  BY <1>2
<1> QED  BY <1>1, <1>2, <1>3

LEMMA Moves ==
    ASSUME TypeOK, NEW s \in Session
    PROVE  /\ \A code : Answer(s, code) => Moved(s, "reply", sess[s].i, code)
           /\ NextList(s) => Moved(s, "process", sess[s].i + 1, sess[s].code)
           /\ \A pc : GoTo(s, pc) => Moved(s, pc, sess[s].i, sess[s].code)
<1>1. sess \in [Session -> SessionState] /\ sess[s] \in SessionState
  BY DEF TypeOK
<1>2. ASSUME NEW code, Answer(s, code)  PROVE Moved(s, "reply", sess[s].i, code)
  <2>1. [sess[s] EXCEPT !.pc = "reply", !.code = code]
          = [sess[s] EXCEPT !.pc = "reply", !.i = sess[s].i, !.code = code]
    BY <1>1 DEF SessionState
  <2> QED  BY <1>1, <1>2, <2>1 DEF Answer, Moved
<1>3. ASSUME NextList(s)  PROVE Moved(s, "process", sess[s].i + 1, sess[s].code)
  <2>1. [sess[s] EXCEPT !.pc = "process", !.i = @ + 1]
          = [sess[s] EXCEPT !.pc = "process", !.i = sess[s].i + 1, !.code = sess[s].code]
    BY <1>1 DEF SessionState
  <2> QED  BY <1>1, <1>3, <2>1 DEF NextList, Moved
<1>4. ASSUME NEW pc, GoTo(s, pc)  PROVE Moved(s, pc, sess[s].i, sess[s].code)
  <2>1. [sess[s] EXCEPT !.pc = pc]
          = [sess[s] EXCEPT !.pc = pc, !.i = sess[s].i, !.code = sess[s].code]
    BY <1>1 DEF SessionState
  <2> QED  BY <1>1, <1>4, <2>1 DEF GoTo, Moved
<1> QED  BY <1>2, <1>3, <1>4

LEMMA FaultsGrow ==
    ASSUME TypeOK
    PROVE  /\ Fault => faults' > 0 /\ faults <= faults'
           /\ NoFault => faults <= faults'
           /\ \A to : \A ok, accepted \in BOOLEAN :
                 Send(to, ok, accepted) => /\ faults <= faults' /\ (accepted /\ ~ok => faults' > 0)
                                           /\ (ok => accepted)
  BY DEF TypeOK, Fault, NoFault, Send

(* data() returns without having served the current list.                  *)
LEMMA QuietAnswer ==
    ASSUME TypeOK, NEW s \in Session, NEW code \in {"temp", "perm"}, Answer(s, code),
           sess[s].pc \notin {"idle", "reply"},
           sess[s].pc = "process" => sess[s].i <= Len(sess[s].lists),
           sess[s].pc = "notify" => faults' > 0,
           faults <= faults', UNCHANGED <<mta, copies>>
    PROVE  WorkStep(s)
<1>1. Moved(s, "reply", sess[s].i, code)
  BY Moves
<1>2. sess[s].i \in Nat /\ sess[s].lists \in Seq(ListRow)
  BY SessTyped DEF SessionState
<1>3. QuietMove(s, "reply", sess[s].i, code)
  BY <1>2 DEF QuietMove
<1> QED  BY <1>1, <1>3, SessTyped DEF WorkStep, PC

LEMMA DataWorks ==
    ASSUME TypeOK, NEW s \in Session, Data(s)
    PROVE  WorkStep(s)
<1>1. sess[s].pc = "rcpt" /\ UNCHANGED <<mta, copies>> /\ faults <= faults'
  BY FaultsGrow DEF Data
<1>2. ASSUME NEW code \in {"temp", "perm"}, Answer(s, code)  PROVE WorkStep(s)
  BY <1>1, <1>2, QuietAnswer
<1>3. ASSUME GoTo(s, "process")  PROVE WorkStep(s)
  <2>1. Moved(s, "process", sess[s].i, sess[s].code)
    BY <1>3, Moves
  <2>2. QuietMove(s, "process", sess[s].i, sess[s].code)
    BY <1>1 DEF QuietMove
  <2> QED  BY <1>1, <2>1, <2>2, SessTyped DEF WorkStep, PC
<1> QED  BY <1>2, <1>3 DEF Data

(* A call that serves the current list, or does not, and what follows.     *)
LEMMA SentWorks ==
    ASSUME TypeOK, NEW s \in Session, sess[s].pc \in {"process", "checkback", "forward"},
           sess[s].i <= Len(sess[s].lists), UNCHANGED mta, faults <= faults',
           NEW accepted \in BOOLEAN, IF accepted THEN Handled(s) ELSE UNCHANGED copies,
           \/ NextList(s) /\ (accepted \/ sess[s].pc = "process")
           \/ Answer(s, "temp") /\ (accepted => faults' > 0)
    PROVE  WorkStep(s)
<1>1. CASE NextList(s) /\ (accepted \/ sess[s].pc = "process")
  <2>1. Moved(s, "process", sess[s].i + 1, sess[s].code)
    BY <1>1, Moves
  <2>2. CASE accepted
    <3>1. ServeMove(s, "process", sess[s].i + 1)
      BY DEF ServeMove
    <3> QED  BY <2>1, <2>2, <3>1, SessTyped DEF WorkStep, PC
  <2>3. CASE ~accepted
    <3>1. QuietMove(s, "process", sess[s].i + 1, sess[s].code)
      BY <1>1, <2>3 DEF QuietMove
    <3> QED  BY <2>1, <2>3, <3>1, SessTyped DEF WorkStep, PC
  <2> QED  BY <2>2, <2>3
<1>2. CASE Answer(s, "temp") /\ (accepted => faults' > 0)
  <2>1. CASE accepted
    <3>1. ServeMove(s, "reply", sess[s].i)
      BY <1>2, <2>1 DEF ServeMove
    <3>2. Moved(s, "reply", sess[s].i, "temp")
      BY <1>2, Moves
    <3> QED  BY <2>1, <3>1, <3>2, SessTyped DEF WorkStep, PC
  <2>2. CASE ~accepted
    BY <1>2, <2>2, QuietAnswer
  <2> QED  BY <2>1, <2>2
<1> QED  BY <1>1, <1>2

LEMMA BounceWorks ==
    ASSUME TypeOK, NEW s \in Session, Bounce(s)
    PROVE  WorkStep(s)
<1>1. /\ sess[s].pc = "process" /\ sess[s].i <= Len(sess[s].lists) /\ UNCHANGED mta
      /\ faults <= faults'
  BY FaultsGrow DEF Bounce, Serving
<1>2. CASE Fault /\ Answer(s, "temp") /\ UNCHANGED copies
  BY <1>1, <1>2, QuietAnswer
<1>3. ASSUME NEW accepted \in BOOLEAN, IF accepted THEN Handled(s) ELSE UNCHANGED copies, NextList(s)
      PROVE  WorkStep(s)
  BY <1>1, <1>3, SentWorks
<1> QED  BY <1>2, <1>3 DEF Bounce

LEMMA CommandWorks ==
    ASSUME TypeOK, NEW s \in Session, Command(s)
    PROVE  WorkStep(s)
<1>1. /\ sess[s].pc = "process" /\ sess[s].i <= Len(sess[s].lists)
      /\ UNCHANGED <<mta, copies>> /\ faults <= faults'
  BY FaultsGrow DEF Command, Serving
<1>2. ASSUME NEW code \in {"temp", "perm"}, Answer(s, code)  PROVE WorkStep(s)
  BY <1>1, <1>2, QuietAnswer
<1>3. ASSUME GoTo(s, "checkback")  PROVE WorkStep(s)
  <2>1. Moved(s, "checkback", sess[s].i, sess[s].code)
    BY <1>3, Moves
  <2>2. QuietMove(s, "checkback", sess[s].i, sess[s].code)
    BY <1>1 DEF QuietMove
  <2> QED  BY <1>1, <2>1, <2>2, SessTyped DEF WorkStep, PC
<1> QED  BY <1>2, <1>3 DEF Command

LEMMA CheckbackWorks ==
    ASSUME TypeOK, SessionInv, NEW s \in Session, Checkback(s)
    PROVE  WorkStep(s)
<1>1. sess[s].pc = "checkback" /\ sess[s].i <= Len(sess[s].lists) /\ UNCHANGED mta
  BY DEF Checkback, SessionInv, GoodSession
<1>2. CASE Fault /\ Answer(s, "temp") /\ UNCHANGED copies
  BY <1>1, <1>2, QuietAnswer, FaultsGrow
<1>3. CASE NextList(s) /\ NoFault /\ UNCHANGED copies
  <2>1. Moved(s, "process", sess[s].i + 1, sess[s].code)
    BY <1>3, Moves
  <2>2. QuietMove(s, "process", sess[s].i + 1, sess[s].code)
    BY <1>1 DEF QuietMove
  <2> QED  BY <1>1, <1>3, <2>1, <2>2, SessTyped, FaultsGrow DEF WorkStep, PC
<1>4. ASSUME NEW a, NEW ok \in BOOLEAN, NEW accepted \in BOOLEAN, Send({a}, ok, accepted),
             IF accepted THEN Handled(s) ELSE UNCHANGED copies,
             IF ok THEN NextList(s) ELSE Answer(s, "temp")
      PROVE  WorkStep(s)
  <2>1. faults <= faults' /\ (accepted /\ ~ok => faults' > 0) /\ (ok => accepted)
    BY <1>4, FaultsGrow
  <2> QED  BY <1>1, <1>4, <2>1, SentWorks
<1> QED  BY <1>2, <1>3, <1>4 DEF Checkback

LEMMA DecideWorks ==
    ASSUME TypeOK, NEW s \in Session, Decide(s)
    PROVE  WorkStep(s)
<1>1. /\ sess[s].pc = "process" /\ sess[s].i <= Len(sess[s].lists)
      /\ UNCHANGED <<mta, copies>> /\ faults <= faults'
  BY FaultsGrow DEF Decide, Serving
<1>2. ASSUME NEW code \in {"temp", "perm"}, Answer(s, code)  PROVE WorkStep(s)
  BY <1>1, <1>2, QuietAnswer
<1>3. ASSUME NEW pc \in {"forward", "save"}, GoTo(s, pc)  PROVE WorkStep(s)
  <2>1. Moved(s, pc, sess[s].i, sess[s].code)
    BY <1>3, Moves
  <2>2. QuietMove(s, pc, sess[s].i, sess[s].code)
    BY <1>1 DEF QuietMove
  <2> QED  BY <1>1, <2>1, <2>2, SessTyped DEF WorkStep, PC
<1> QED  BY <1>2, <1>3 DEF Decide

LEMMA ForwardWorks ==
    ASSUME TypeOK, SessionInv, NEW s \in Session, Forward(s)
    PROVE  WorkStep(s)
<1>1. sess[s].pc = "forward" /\ sess[s].i <= Len(sess[s].lists) /\ UNCHANGED mta
  BY DEF Forward, SessionInv, GoodSession
<1>2. ASSUME Answer(s, "temp"), Fault \/ NoFault, UNCHANGED copies  PROVE WorkStep(s)
  BY <1>1, <1>2, QuietAnswer, FaultsGrow
<1>3. ASSUME NEW ok \in BOOLEAN, NEW accepted \in BOOLEAN,
             Send(Receivers(cur(s)), ok, accepted),
             IF accepted THEN Handled(s) ELSE UNCHANGED copies,
             IF ok THEN NextList(s) ELSE Answer(s, "temp")
      PROVE  WorkStep(s)
  <2>1. faults <= faults' /\ (accepted /\ ~ok => faults' > 0) /\ (ok => accepted)
    BY <1>3, FaultsGrow
  <2> QED  BY <1>1, <1>3, <2>1, SentWorks
<1> QED  BY <1>2, <1>3 DEF Forward

LEMMA SaveWorks ==
    ASSUME TypeOK, SessionInv, NEW s \in Session, Save(s)
    PROVE  WorkStep(s)
<1>1. sess[s].pc = "save" /\ sess[s].i <= Len(sess[s].lists) /\ UNCHANGED mta
  BY DEF Save, SessionInv, GoodSession
<1>2. CASE Fault /\ Answer(s, "temp") /\ UNCHANGED copies
  BY <1>1, <1>2, QuietAnswer, FaultsGrow
<1>3. CASE NoFault /\ Handled(s) /\ GoTo(s, "notify")
  <2>1. Moved(s, "notify", sess[s].i, sess[s].code)
    BY <1>3, Moves
  <2>2. ServeMove(s, "notify", sess[s].i)
    BY <1>1 DEF ServeMove
  <2> QED  BY <1>1, <1>3, <2>1, <2>2, SessTyped, FaultsGrow DEF WorkStep, PC
<1> QED  BY <1>2, <1>3 DEF Save

LEMMA NotifyWorks ==
    ASSUME TypeOK, SessionInv, NEW s \in Session, NotifyMods(s)
    PROVE  WorkStep(s)
<1>1. sess[s].pc = "notify" /\ sess[s].i <= Len(sess[s].lists) /\ UNCHANGED <<mta, copies>>
  BY DEF NotifyMods, SessionInv, GoodSession
<1>2. CASE Fault /\ Answer(s, "temp")
  BY <1>1, <1>2, QuietAnswer, FaultsGrow
<1>3. CASE NoFault /\ NextList(s)
  <2>1. Moved(s, "process", sess[s].i + 1, sess[s].code)
    BY <1>3, Moves
  <2>2. QuietMove(s, "process", sess[s].i + 1, sess[s].code)
    BY <1>1 DEF QuietMove
  <2> QED  BY <1>1, <1>3, <2>1, <2>2, SessTyped, FaultsGrow DEF WorkStep, PC
<1> QED  BY <1>2, <1>3 DEF NotifyMods

LEMMA FinishWorks ==
    ASSUME TypeOK, NEW s \in Session, Finish(s)
    PROVE  WorkStep(s)
<1>1. sess[s].pc = "process" /\ UNCHANGED <<mta, copies, faults>> /\ Answer(s, "ok")
  BY DEF Finish, bounds
<1>2. Moved(s, "reply", sess[s].i, "ok")
  BY <1>1, Moves
<1>3. QuietMove(s, "reply", sess[s].i, "ok")
  BY <1>1 DEF QuietMove
<1> QED  BY <1>1, <1>2, <1>3, SessTyped DEF WorkStep, PC, TypeOK

-----------------------------------------------------------------------------
(* Counting                                                                *)

LEMMA CountStays ==
    ASSUME NEW W, NEW V, IsFiniteSet(W), V \subseteq W, NEW c \in Nat, NEW n \in Nat,
           Cardinality(W) + c <= n
    PROVE  IsFiniteSet(V) /\ Cardinality(V) + c <= n
<1>1. IsFiniteSet(V) /\ Cardinality(V) <= Cardinality(W)
  BY FS_Subset
<1>2. Cardinality(V) \in Nat /\ Cardinality(W) \in Nat
  BY <1>1, FS_CardinalityType
<1> QED  BY <1>1, <1>2

(* One more has been served, and it was one that might be.                 *)
LEMMA CountServed ==
    ASSUME NEW W, NEW s \in W, NEW V, IsFiniteSet(W), V \subseteq W \ {s},
           NEW c \in Nat, NEW n \in Nat, Cardinality(W) + c <= n
    PROVE  IsFiniteSet(V) /\ Cardinality(V) + (c + 1) <= n
<1>1. IsFiniteSet(W \ {s}) /\ Cardinality(W \ {s}) = Cardinality(W) - 1
  BY FS_RemoveElement
<1>2. IsFiniteSet(V) /\ Cardinality(V) <= Cardinality(W \ {s})
  BY <1>1, FS_Subset
<1>3. Cardinality(V) \in Nat /\ Cardinality(W) \in Nat
  BY <1>2, FS_CardinalityType
<1> QED  BY <1>1, <1>2, <1>3

(* One more may be served, in one more try.                                *)
LEMMA CountTried ==
    ASSUME NEW W, NEW s, NEW V, IsFiniteSet(W), V \subseteq W \cup {s},
           NEW c \in Nat, NEW n \in Nat, Cardinality(W) + c <= n
    PROVE  IsFiniteSet(V) /\ Cardinality(V) + c <= n + 1
<1>1. IsFiniteSet(W \cup {s}) /\ Cardinality(W \cup {s}) <= Cardinality(W) + 1
  <2>1. CASE s \in W
    <3>1. W \cup {s} = W
      BY <2>1
    <3>2. Cardinality(W) \in Nat
      BY FS_CardinalityType
    <3> QED  BY <3>1, <3>2
  <2>2. CASE s \notin W
    <3>1. IsFiniteSet(W \cup {s}) /\ Cardinality(W \cup {s}) = Cardinality(W) + 1
      BY <2>2, FS_AddElement
    <3> QED  BY <3>1, FS_CardinalityType
  <2> QED  BY <2>1, <2>2
<1>2. IsFiniteSet(V) /\ Cardinality(V) <= Cardinality(W \cup {s})
  BY <1>1, FS_Subset
<1>3. Cardinality(V) \in Nat /\ Cardinality(W) \in Nat /\ Cardinality(W \cup {s}) \in Nat
  BY <1>1, <1>2, FS_CardinalityType
<1> QED  BY <1>1, <1>2, <1>3

(* Every session has as much before it as it had, or less.                 *)
Fewer ==
    \A t \in Session :
       \/ Left(sess'[t]) = {}
       \/ sess'[t].mail = sess[t].mail /\ Left(sess'[t]) \subseteq Left(sess[t])

LEMMA FewerWork == ASSUME Fewer, NEW x PROVE Working(x)' \subseteq Working(x)
  BY DEF Fewer, Working

LEMMA ItemTyped ==
    ASSUME TypeOK, NEW x \in Item
    PROVE  x[1] \in Mails /\ copies[x] \in Nat /\ tries[x[1]] \in Nat
<1>1. x[1] \in Mails
  BY DEF Item
<1>2. copies \in [Item -> Nat] /\ tries \in [Mails -> Nat]
  BY DEF TypeOK
<1> QED  BY <1>1, <1>2

LEMMA TriesStay ==
    ASSUME TypeOK, TriesCount, Fewer, UNCHANGED <<tries, copies>>
    PROVE  TriesCount'
<1> SUFFICES ASSUME NEW x \in Item
             PROVE  IsFiniteSet(Working(x)') /\ Cardinality(Working(x)') + copies[x] <= tries[x[1]]
  BY DEF TriesCount
<1>1. Working(x)' \subseteq Working(x)
  BY FewerWork
<1>2. IsFiniteSet(Working(x)) /\ Cardinality(Working(x)) + copies[x] <= tries[x[1]]
  BY DEF TriesCount
<1> QED  BY <1>1, <1>2, ItemTyped, CountStays

-----------------------------------------------------------------------------
(* The steps of data() keep the promise                                    *)

LEMMA MovedSession ==
    ASSUME TypeOK, NEW s \in Session, NEW pc, NEW i, NEW code, Moved(s, pc, i, code)
    PROVE  /\ sess'[s].pc = pc /\ sess'[s].i = i /\ sess'[s].code = code
           /\ sess'[s].mail = sess[s].mail /\ sess'[s].isBounce = sess[s].isBounce
           /\ sess'[s].todo = sess[s].todo /\ sess'[s].pos = sess[s].pos
           /\ sess'[s].lists = sess[s].lists /\ sess'[s].live = sess[s].live
           /\ \A t \in Session \ {s} : sess'[t] = sess[t]
<1>1. sess \in [Session -> SessionState] /\ sess[s] \in SessionState
  BY DEF TypeOK
<1>2. sess'[s] = [sess[s] EXCEPT !.pc = pc, !.i = i, !.code = code]
  BY <1>1 DEF Moved
<1>3. \A t \in Session \ {s} : sess'[t] = sess[t]
  BY <1>1 DEF Moved
<1> QED  BY <1>1, <1>2, <1>3 DEF SessionState

LEMMA QuietLeft ==
    ASSUME TypeOK, NEW s \in Session, NEW pc, NEW i \in Nat, NEW code, Moved(s, pc, i, code),
           sess[s].pc \notin {"idle", "reply"}, QuietMove(s, pc, i, code)
    PROVE  Left(sess'[s]) \subseteq Left(sess[s])
<1> DEFINE S == sess'[s]
<1>1. /\ S.pc = pc /\ S.i = i /\ S.pos = sess[s].pos /\ S.todo = sess[s].todo
      /\ sess[s].pos \in Seq(Nat) /\ sess[s].i \in Nat
  BY MovedSession, SessTyped DEF SessionState
<1> HIDE DEF S
<1>2. CASE pc = "reply"
  BY <1>1, <1>2 DEF Left, S
<1>3. CASE pc # "reply"
  <2>1. \A n \in DOMAIN sess[s].pos :
           n > i \/ (n = i /\ pc # "notify")
              => n > sess[s].i \/ (n = sess[s].i /\ sess[s].pc # "notify")
    BY <1>1, <1>3 DEF QuietMove
  <2> QED  BY <1>1, <1>3, <2>1 DEF Left, S
<1> QED  BY <1>2, <1>3

LEMMA ServedLeft ==
    ASSUME TypeOK, SessionInv, AllOrderly, NEW s \in Session,
           NEW pc, NEW i \in Nat, NEW code, Moved(s, pc, i, code),
           sess[s].i <= Len(sess[s].lists), ServeMove(s, pc, i)
    PROVE  /\ sess[s].i \in DOMAIN sess[s].pos
           /\ sess[s].pos[sess[s].i] \in Left(sess[s])
           /\ Left(sess'[s]) \subseteq Left(sess[s]) \ {sess[s].pos[sess[s].i]}
<1> DEFINE S == sess'[s]
           o == sess[s]
<1>1. /\ S.pc = pc /\ S.i = i /\ S.pos = o.pos /\ S.todo = o.todo
      /\ o.pos \in Seq(Nat) /\ o.i \in Nat \ {0}
  BY MovedSession, SessTyped DEF SessionState
<1>2. Len(o.pos) = Len(o.lists) /\ o.lists \in Seq(ListRow)
  BY SessTyped DEF SessionInv, GoodSession, SessionState
<1>3. o.i \in DOMAIN o.pos
  BY <1>1, <1>2
<1>4. /\ \A j, n \in DOMAIN o.pos : o.pos[j] = o.pos[n] => j = n
      /\ \A j \in DOMAIN o.pos : o.pos[j] \notin o.todo
  BY DEF AllOrderly, Orderly
<1>5. o.pc \in {"process", "checkback", "forward", "save"}
  BY DEF ServeMove
<1> HIDE DEF S, o
<1>6. o.pos[o.i] \in Left(o)
  BY <1>3, <1>5 DEF Left
<1>7. Left(S) \subseteq Left(o) \ {o.pos[o.i]}
  <2>1. CASE pc = "reply"
    BY <1>1, <2>1 DEF Left
  <2>2. CASE pc # "reply"
    <3>1. \A n \in DOMAIN o.pos : n > i \/ (n = i /\ pc # "notify") => n > o.i
      BY <1>1, <2>2 DEF ServeMove, o
    <3>2. \A n \in DOMAIN o.pos : n > o.i => o.pos[n] # o.pos[o.i]
      BY <1>1, <1>3, <1>4
    <3> QED  BY <1>1, <1>3, <1>4, <1>5, <2>2, <3>1, <3>2 DEF Left
  <2> QED  BY <2>1, <2>2
<1> QED  BY <1>3, <1>6, <1>7 DEF S, o

(* What a step of one session does to the others: nothing.                 *)
LEMMA OneFewer ==
    ASSUME NEW s \in Session, \A t \in Session \ {s} : sess'[t] = sess[t],
           \/ Left(sess'[s]) = {}
           \/ sess'[s].mail = sess[s].mail /\ Left(sess'[s]) \subseteq Left(sess[s])
    PROVE  Fewer
  BY DEF Fewer

(* Serving the current list uses up one of the tries.                      *)
LEMMA ServedCount ==
    ASSUME TypeOK, SessionInv, AllOrderly, TriesCount, NEW s \in Session,
           NEW pc, NEW i \in Nat, NEW code, Moved(s, pc, i, code),
           sess[s].pc # "idle", sess[s].i <= Len(sess[s].lists), ServeMove(s, pc, i),
           Handled(s), UNCHANGED tries
    PROVE  /\ item(s) \in Item /\ copies[item(s)] < tries[sess[s].mail]
           /\ TriesCount'
<1>1. PICK y \in Item : /\ y = item(s)
                      /\ y[1] = sess[s].mail /\ y[2] = sess[s].pos[sess[s].i]
  BY HandledServed DEF item
<1>2. /\ sess[s].pos[sess[s].i] \in Left(sess[s])
      /\ Left(sess'[s]) \subseteq Left(sess[s]) \ {sess[s].pos[sess[s].i]}
  BY ServedLeft
<1>3. sess'[s].mail = sess[s].mail /\ \A t \in Session \ {s} : sess'[t] = sess[t]
  BY MovedSession
<1>4. copies' = [copies EXCEPT ![y] = copies[y] + 1] /\ copies \in [Item -> Nat]
  BY <1>1 DEF Handled, TypeOK
<1>5. s \in Working(y) /\ s \notin Working(y)'
  BY <1>1, <1>2, <1>3 DEF Working
<1>6. Fewer
  BY <1>2, <1>3, OneFewer
<1>7. ASSUME NEW x \in Item
      PROVE  IsFiniteSet(Working(x)') /\ Cardinality(Working(x)') + copies'[x] <= tries[x[1]]
  <2>1. IsFiniteSet(Working(x)) /\ Cardinality(Working(x)) + copies[x] <= tries[x[1]]
    BY DEF TriesCount
  <2>2. Working(x)' \subseteq Working(x)
    BY <1>6, FewerWork
  <2>3. CASE x = y
    <3>1. copies'[x] = copies[x] + 1
      BY <1>4, <2>3
    <3>2. Working(x)' \subseteq Working(x) \ {s} /\ s \in Working(x)
      BY <1>5, <2>2, <2>3
    <3>3. copies[x] \in Nat /\ tries[x[1]] \in Nat
      BY ItemTyped
    <3> QED  BY <2>1, <3>1, <3>2, <3>3, CountServed
  <2>4. CASE x # y
    <3>1. copies'[x] = copies[x]
      BY <1>4, <2>4
    <3> QED  BY <2>1, <2>2, <3>1, ItemTyped, CountStays
  <2> QED  BY <2>3, <2>4
<1>8. copies[y] < tries[y[1]]
  <2>1. IsFiniteSet(Working(y)) /\ Cardinality(Working(y)) + copies[y] <= tries[y[1]]
    BY <1>1 DEF TriesCount
  <2>2. Cardinality(Working(y)) \in Nat /\ Cardinality(Working(y)) # 0
    BY <1>5, <2>1, FS_CardinalityType, FS_EmptySet
  <2>3. copies[y] \in Nat /\ tries[y[1]] \in Nat
    BY <1>1, ItemTyped
  <2> QED  BY <2>1, <2>2, <2>3
<1> QED  BY <1>1, <1>7, <1>8 DEF TriesCount

(* The sessions that go on keep their recipients and their clients.        *)
LEMMA WorkKeeps ==
    ASSUME TypeOK, SessionInv, PromiseInv, NEW s \in Session, WorkStep(s)
    PROVE  PromiseInv'
<1>1. PICK pc \in PC, i \in Nat \ {0}, code \in {"ok", "temp", "perm"} :
         /\ Moved(s, pc, i, code)
         /\ \/ UNCHANGED copies /\ QuietMove(s, pc, i, code)
            \/ Handled(s) /\ sess[s].i <= Len(sess[s].lists) /\ ServeMove(s, pc, i)
  BY DEF WorkStep
<1>2. sess[s].pc \notin {"idle", "reply"} /\ UNCHANGED <<fate, tries>>
  BY DEF WorkStep, mta
<1>3. /\ sess'[s].pc = pc /\ sess'[s].mail = sess[s].mail
      /\ sess'[s].todo = sess[s].todo /\ sess'[s].pos = sess[s].pos
      /\ sess'[s].live = sess[s].live
      /\ \A t \in Session \ {s} : sess'[t] = sess[t]
  BY <1>1, MovedSession
<1>4. pc \notin {"idle", "rcpt"}
  BY <1>1 DEF QuietMove, ServeMove
<1>5. AllOrderly'
  BY <1>3, <1>4 DEF PromiseInv, AllOrderly, Orderly
<1>6. OneClient'
  BY <1>3 DEF PromiseInv, OneClient, Delivering
<1>7. Awaited'
  BY <1>2, <1>3 DEF PromiseInv, Awaited, Taken
<1>8. TriesCount'
  <2>1. CASE UNCHANGED copies /\ QuietMove(s, pc, i, code)
    <3>1. Left(sess'[s]) \subseteq Left(sess[s])
      BY <1>1, <1>2, <2>1, QuietLeft
    <3>2. Fewer
      BY <1>3, <3>1, OneFewer
    <3> QED  BY <1>2, <2>1, <3>2, TriesStay DEF PromiseInv
  <2>2. CASE Handled(s) /\ sess[s].i <= Len(sess[s].lists) /\ ServeMove(s, pc, i)
    BY <1>1, <1>2, <2>2, ServedCount DEF PromiseInv
  <2> QED  BY <1>1, <2>1, <2>2
<1> QED  BY <1>5, <1>6, <1>7, <1>8 DEF PromiseInv

(* What a session has taken are items of its mail.                         *)
LEMMA TakenItems ==
    ASSUME TypeOK, SessionInv, NEW s \in Session, sess[s].pc # "idle", NEW k \in Taken(sess[s])
    PROVE  sess[s].mail \in Mails /\ k \in Pos(sess[s].mail) /\ <<sess[s].mail, k>> \in Item
<1>1. GoodSession(sess[s], Done) /\ sess[s] \in SessionState
  BY DEF SessionInv, TypeOK
<1>2. sess[s].mail \in Mails /\ sess[s].todo \subseteq Pos(sess[s].mail)
  BY <1>1 DEF GoodSession
<1>3. DOMAIN sess[s].pos = DOMAIN sess[s].lists
  <2>1. sess[s].pos \in Seq(Nat) /\ sess[s].lists \in Seq(ListRow)
    BY <1>1 DEF SessionState
  <2>2. Len(sess[s].pos) = Len(sess[s].lists)
    BY <1>1 DEF GoodSession
  <2> QED  BY <2>1, <2>2
<1>4. k \in Pos(sess[s].mail)
  BY <1>1, <1>2, <1>3 DEF Taken, GoodSession
<1> QED  BY <1>2, <1>4, ItemOf

-----------------------------------------------------------------------------
(* The MTA and the end of sessions                                         *)

LEMMA IdleLeft == Left(Idle) = {} /\ ~Idle.live /\ Orderly(Idle)
  BY DEF Left, Idle, Orderly

(* Some sessions end, and the others go on.                                *)
LEMMA EndKeeps ==
    ASSUME TypeOK, PromiseInv, UNCHANGED <<fate, tries, copies>>,
           \A t \in Session : sess'[t] \in {sess[t], Idle}
    PROVE  PromiseInv'
<1>1. AllOrderly' /\ OneClient' /\ Awaited'
  BY IdleLeft DEF PromiseInv, AllOrderly, OneClient, Delivering, Awaited
<1>2. Fewer
  BY IdleLeft DEF Fewer
<1>3. TriesCount'
  BY <1>2, TriesStay DEF PromiseInv
<1> QED  BY <1>1, <1>3 DEF PromiseInv

LEMMA ResetKeeps == ASSUME TypeOK, PromiseInv, NEW s \in Session, Reset(s) PROVE PromiseInv'
<1>1. \A t \in Session : sess'[t] \in {sess[t], Idle}
  BY DEF Reset, TypeOK
<1> QED  BY <1>1, EndKeeps DEF Reset, mta

LEMMA CrashKeeps == ASSUME TypeOK, PromiseInv, Crash PROVE PromiseInv'
<1>1. \A t \in Session : sess'[t] \in {sess[t], Idle}
  BY DEF Crash
<1> QED  BY <1>1, EndKeeps DEF Crash, mta

(* Behind RCPT, the goroutine goes on without its client.                  *)
LEMMA HangupKeeps == ASSUME TypeOK, PromiseInv, NEW s \in Session, Hangup(s) PROVE PromiseInv'
<1>1. UNCHANGED <<fate, tries, copies>> /\ sess[s] \in SessionState
      /\ sess \in [Session -> SessionState]
  BY DEF Hangup, mta, TypeOK
<1>2. CASE sess[s].pc = "rcpt"
  <2>1. \A t \in Session : sess'[t] \in {sess[t], Idle}
    BY <1>1, <1>2 DEF Hangup
  <2> QED  BY <1>1, <2>1, EndKeeps
<1>3. CASE sess[s].pc # "rcpt"
  <2>1. sess'[s] = [sess[s] EXCEPT !.live = FALSE] /\ \A t \in Session \ {s} : sess'[t] = sess[t]
    BY <1>1, <1>3 DEF Hangup
  <2>2. /\ sess'[s].pc = sess[s].pc /\ sess'[s].i = sess[s].i /\ sess'[s].mail = sess[s].mail
        /\ sess'[s].todo = sess[s].todo /\ sess'[s].pos = sess[s].pos /\ ~sess'[s].live
    BY <1>1, <2>1 DEF SessionState
  <2>3. AllOrderly'
    <3>1. Orderly(sess'[s])
      BY <1>3, <2>2 DEF PromiseInv, AllOrderly, Orderly
    <3> QED  BY <2>1, <3>1 DEF PromiseInv, AllOrderly
  <2>6. OneClient'
    BY <2>1, <2>2 DEF PromiseInv, OneClient, Delivering
  <2>7. Awaited'
    <3> SUFFICES ASSUME NEW t \in Session, sess'[t].live
                 PROVE  \A k \in Taken(sess'[t]) : fate'[<<sess'[t].mail, k>>] = "queued"
      BY DEF Awaited
    <3>1. sess'[t] = sess[t]
      BY <2>1, <2>2
    <3> QED  BY <1>1, <3>1 DEF PromiseInv, Awaited
  <2>4. Left(sess'[s]) \subseteq Left(sess[s])
    BY <2>2 DEF Left
  <2>5. Fewer
    BY <2>1, <2>2, <2>4, OneFewer
  <2> QED  BY <1>1, <2>3, <2>5, <2>6, <2>7, TriesStay DEF PromiseInv
<1> QED  BY <1>2, <1>3

(* A try begins with all that is still queued of the mail.                 *)
LEMMA MailKeeps ==
    ASSUME TypeOK, PromiseInv, NEW s \in Session, NEW m \in Mails, Mail(s, m)
    PROVE  PromiseInv'
<1> DEFINE S == [Idle EXCEPT !.pc = "rcpt", !.mail = m, !.isBounce = Msg[m].null,
                             !.todo = Queued(m), !.live = TRUE]
<1>1. /\ sess' = [sess EXCEPT ![s] = S] /\ sess \in [Session -> SessionState]
      /\ tries' = [tries EXCEPT ![m] = tries[m] + 1] /\ tries \in [Mails -> Nat]
      /\ UNCHANGED <<fate, copies>> /\ \A t \in Session : ~Delivering(t, m)
  BY DEF Mail, TypeOK
<1>2. /\ S.pc = "rcpt" /\ S.mail = m /\ S.todo = Queued(m) /\ S.pos = <<>> /\ S.live
  BY DEF Idle
<1> HIDE DEF S
<1>3. sess'[s] = S /\ \A t \in Session \ {s} : sess'[t] = sess[t]
  BY <1>1
<1>4. AllOrderly'
  BY <1>2, <1>3 DEF PromiseInv, AllOrderly, Orderly
<1>5. OneClient'
  BY <1>1, <1>2, <1>3 DEF PromiseInv, OneClient, Delivering
<1>6. Awaited'
  <2>1. Taken(S) = Queued(m)
    BY <1>2 DEF Taken
  <2> QED  BY <1>1, <1>2, <1>3, <2>1 DEF PromiseInv, Awaited, Queued
<1>7. ASSUME NEW x \in Item
      PROVE  IsFiniteSet(Working(x)') /\ Cardinality(Working(x)') + copies[x] <= tries'[x[1]]
  <2>1. IsFiniteSet(Working(x)) /\ Cardinality(Working(x)) + copies[x] <= tries[x[1]]
    BY DEF PromiseInv, TriesCount
  <2>2. x[1] \in Mails /\ copies[x] \in Nat /\ tries[x[1]] \in Nat
    BY ItemTyped
  <2>3. CASE x[1] = m
    <3>1. Working(x)' \subseteq Working(x) \cup {s}
      BY <1>3 DEF Working
    <3>2. tries'[x[1]] = tries[x[1]] + 1
      BY <1>1, <2>2, <2>3
    <3> QED  BY <2>1, <2>2, <3>1, <3>2, CountTried
  <2>4. CASE x[1] # m
    <3>1. Working(x)' \subseteq Working(x)
      BY <1>2, <1>3, <2>4 DEF Working
    <3>2. tries'[x[1]] = tries[x[1]]
      BY <1>1, <2>2, <2>4
    <3> QED  BY <2>1, <2>2, <3>1, <3>2, CountStays
  <2> QED  BY <2>3, <2>4
<1>8. TriesCount'
  BY <1>1, <1>7 DEF TriesCount
<1> QED  BY <1>4, <1>5, <1>6, <1>8 DEF PromiseInv

(* A fate that changes is one that no client but one waits for, which      *)
(* stops waiting for it.                                                   *)
LEMMA FateKeeps ==
    ASSUME TypeOK, SessionInv, PromiseInv, NEW s \in Session, sess[s].live,
           NEW K, \A k \in K : fate'[<<sess[s].mail, k>>] # fate[<<sess[s].mail, k>>]
                                 => ~sess'[s].live \/ k \notin Taken(sess'[s]),
           \A x \in Item : (x[1] # sess[s].mail \/ x[2] \notin K) => fate'[x] = fate[x],
           sess'[s].live => Taken(sess'[s]) \subseteq Taken(sess[s]) /\ sess'[s].mail = sess[s].mail,
           \A t \in Session \ {s} : sess'[t] = sess[t]
    PROVE  Awaited'
<1> SUFFICES ASSUME NEW t \in Session, sess'[t].live, NEW k \in Taken(sess'[t])
             PROVE  fate'[<<sess'[t].mail, k>>] = "queued"
  BY DEF Awaited
<1>1. ASSUME NEW u \in Session, sess[u].live, NEW n \in Taken(sess[u])
      PROVE  <<sess[u].mail, n>> \in Item /\ fate[<<sess[u].mail, n>>] = "queued"
  <2>1. sess[u].pc # "idle"
    BY <1>1 DEF PromiseInv, AllOrderly, Orderly
  <2> QED  BY <1>1, <2>1, TakenItems DEF PromiseInv, Awaited
<1>2. CASE t = s
  <2>1. k \in Taken(sess[s]) /\ sess'[t].mail = sess[s].mail
    BY <1>2
  <2>2. <<sess[s].mail, k>> \in Item /\ fate[<<sess[s].mail, k>>] = "queued"
    BY <1>1, <2>1
  <2>3. fate'[<<sess[s].mail, k>>] = fate[<<sess[s].mail, k>>]
    BY <1>2, <2>2
  <2> QED  BY <2>1, <2>2, <2>3
<1>3. CASE t # s
  <2>1. sess'[t] = sess[t]
    BY <1>3
  <2>2. sess[t].mail # sess[s].mail
    BY <1>3, <2>1 DEF PromiseInv, OneClient, Delivering
  <2>3. <<sess[t].mail, k>> \in Item /\ fate[<<sess[t].mail, k>>] = "queued"
    BY <1>1, <2>1
  <2> QED  BY <2>1, <2>2, <2>3
<1> QED  BY <1>2, <1>3

(* RCPT: what a session takes over, it no longer waits to be named; a      *)
(* refused recipient is settled at once.                                   *)
LEMMA RcptMoves ==
    ASSUME TypeOK, SessionInv, NEW s \in Session, NEW k \in sess[s].todo, Rcpt(s, k)
    PROVE  /\ sess[s].pc = "rcpt" /\ sess'[s].pc = "rcpt" /\ UNCHANGED <<tries, copies>>
           /\ sess'[s].mail = sess[s].mail /\ sess'[s].live = sess[s].live
           /\ sess'[s].i = sess[s].i /\ sess'[s].i = 1 /\ sess'[s].todo = sess[s].todo \ {k}
           /\ \/ sess'[s].pos = Append(sess[s].pos, k) /\ fate' = fate
              \/ /\ sess'[s].pos = sess[s].pos
                 /\ \/ fate' = fate
                    \/ fate' = [fate EXCEPT ![<<sess[s].mail, k>>] = "bounced"]
           /\ \A t \in Session \ {s} : sess'[t] = sess[t]
<1>1. sess \in [Session -> SessionState] /\ sess[s] \in SessionState /\ sess[s].pc = "rcpt"
  BY DEF TypeOK, Rcpt
<1>2. sess[s].i = 1
  BY <1>1 DEF SessionInv, GoodSession
<1>3. UNCHANGED <<tries, copies>>
  BY DEF Rcpt
<1>4. ASSUME NEW l, sess' = [sess EXCEPT ![s].todo = @ \ {k}, ![s].lists = Append(@, l),
                                         ![s].pos = Append(@, k)], fate' = fate
      PROVE  /\ sess'[s] = [sess[s] EXCEPT !.todo = @ \ {k}, !.lists = Append(@, l),
                                           !.pos = Append(@, k)]
             /\ \A t \in Session \ {s} : sess'[t] = sess[t]
  BY <1>1, <1>4
<1>5. ASSUME sess' = [sess EXCEPT ![s].todo = @ \ {k}]
      PROVE  /\ sess'[s] = [sess[s] EXCEPT !.todo = @ \ {k}]
             /\ \A t \in Session \ {s} : sess'[t] = sess[t]
  BY <1>1, <1>5
<1>6. \/ /\ sess' = [sess EXCEPT ![s].todo = @ \ {k}]
         /\ fate' = fate \/ fate' = [fate EXCEPT ![<<sess[s].mail, k>>] = "bounced"]
      \/ /\ \E l : sess' = [sess EXCEPT ![s].todo = @ \ {k}, ![s].lists = Append(@, l),
                                        ![s].pos = Append(@, k)]
         /\ fate' = fate
  BY DEF Rcpt
<1>7. CASE /\ sess' = [sess EXCEPT ![s].todo = @ \ {k}]
           /\ fate' = fate \/ fate' = [fate EXCEPT ![<<sess[s].mail, k>>] = "bounced"]
  BY <1>1, <1>2, <1>3, <1>5, <1>7 DEF SessionState
<1>8. ASSUME NEW l, sess' = [sess EXCEPT ![s].todo = @ \ {k}, ![s].lists = Append(@, l),
                                         ![s].pos = Append(@, k)], fate' = fate
      PROVE  /\ sess'[s].pc = "rcpt" /\ sess'[s].mail = sess[s].mail
             /\ sess'[s].live = sess[s].live /\ sess'[s].i = sess[s].i
             /\ sess'[s].todo = sess[s].todo \ {k} /\ sess'[s].pos = Append(sess[s].pos, k)
             /\ \A t \in Session \ {s} : sess'[t] = sess[t]
  BY <1>1, <1>4, <1>8 DEF SessionState
<1> QED  BY <1>1, <1>2, <1>3, <1>6, <1>7, <1>8

LEMMA AppendPos ==
    ASSUME NEW p \in Seq(Nat), NEW k \in Nat
    PROVE  /\ DOMAIN Append(p, k) = DOMAIN p \cup {Len(p) + 1}
           /\ Append(p, k)[Len(p) + 1] = k
           /\ \A j \in DOMAIN p : Append(p, k)[j] = p[j] /\ j # Len(p) + 1
  OBVIOUS

LEMMA RcptOrder ==
    ASSUME NEW S, NEW T, NEW k \in S.todo, Orderly(S), S.pos \in Seq(Nat), k \in Nat,
           S.pc = "rcpt", T.pc = "rcpt", T.live = S.live, S.i = 1, T.i = 1,
           T.todo = S.todo \ {k}, T.pos = S.pos \/ T.pos = Append(S.pos, k)
    PROVE  /\ Orderly(T) /\ Taken(T) \subseteq Taken(S) /\ Left(T) \subseteq Left(S)
           /\ T.pos = S.pos => k \notin Taken(T)
<1>1. CASE T.pos = S.pos
  BY <1>1 DEF Orderly, Taken, Left
<1>2. CASE T.pos = Append(S.pos, k)
  <2>1. /\ DOMAIN T.pos = DOMAIN S.pos \cup {Len(S.pos) + 1} /\ T.pos[Len(S.pos) + 1] = k
        /\ \A j \in DOMAIN S.pos : T.pos[j] = S.pos[j] /\ j # Len(S.pos) + 1
    BY <1>2, AppendPos
  <2>2. \A j \in DOMAIN S.pos : S.pos[j] # k
    BY DEF Orderly
  <2>3. Orderly(T)
    BY <2>1, <2>2 DEF Orderly
  <2>4. Taken(T) \subseteq Taken(S)
    BY <2>1 DEF Taken
  <2>5. Left(T) \subseteq Left(S)
    <3>1. \A j \in DOMAIN T.pos : T.pos[j] = k \/ (j \in DOMAIN S.pos /\ T.pos[j] = S.pos[j])
      BY <2>1
    <3> QED  BY <2>1, <3>1 DEF Left
  <2>6. T.pos # S.pos
    BY <2>1, <2>2
  <2> QED  BY <2>3, <2>4, <2>5, <2>6
<1> QED  BY <1>1, <1>2

LEMMA RcptKeeps ==
    ASSUME TypeOK, SessionInv, PromiseInv, NEW s \in Session, NEW k \in sess[s].todo, Rcpt(s, k)
    PROVE  PromiseInv'
<1> DEFINE S == sess[s]
           T == sess'[s]
<1>1. /\ S.pc = "rcpt" /\ T.pc = "rcpt" /\ UNCHANGED <<tries, copies>>
      /\ T.mail = S.mail /\ T.live = S.live /\ S.i = 1 /\ T.i = 1 /\ T.todo = S.todo \ {k}
      /\ \/ T.pos = Append(S.pos, k) /\ fate' = fate
         \/ /\ T.pos = S.pos
            /\ fate' = fate \/ fate' = [fate EXCEPT ![<<S.mail, k>>] = "bounced"]
      /\ \A t \in Session \ {s} : sess'[t] = sess[t]
  BY RcptMoves
<1>2. S.pos \in Seq(Nat) /\ k \in Nat
  BY SessTyped DEF SessionState
<1>3. Orderly(S) /\ S.live
  BY <1>1 DEF PromiseInv, AllOrderly, Orderly
<1>4. /\ Orderly(T) /\ Taken(T) \subseteq Taken(S) /\ Left(T) \subseteq Left(S)
      /\ T.pos = S.pos => k \notin Taken(T)
  BY <1>1, <1>2, <1>3, RcptOrder
<1>5. AllOrderly'
  BY <1>1, <1>4 DEF PromiseInv, AllOrderly
<1>6. OneClient'
  BY <1>1 DEF PromiseInv, OneClient, Delivering
<1>7. Awaited'
  <2>1. fate \in [Item -> {"new", "queued", "delivered", "bounced"}]
    BY DEF TypeOK
  <2> DEFINE K == {k}
  <2>2. \A x \in Item : (x[1] # sess[s].mail \/ x[2] \notin K) => fate'[x] = fate[x]
    BY <1>1, <2>1
  <2>3. \A n \in K : fate'[<<sess[s].mail, n>>] # fate[<<sess[s].mail, n>>]
                       => ~sess'[s].live \/ n \notin Taken(sess'[s])
    <3>1. CASE T.pos = S.pos
      BY <1>4, <3>1
    <3>2. CASE T.pos # S.pos
      BY <1>1, <3>2
    <3> QED  BY <3>1, <3>2
  <2>4. Taken(sess'[s]) \subseteq Taken(sess[s]) /\ sess'[s].mail = sess[s].mail /\ sess[s].live
    BY <1>1, <1>3, <1>4
  <2> HIDE DEF K, S, T
  <2> QED  BY <1>1, <2>2, <2>3, <2>4, FateKeeps
<1>8. Fewer
  BY <1>1, <1>4, OneFewer
<1> QED  BY <1>1, <1>5, <1>6, <1>7, <1>8, TriesStay DEF PromiseInv

(* One answer settles all that were taken over, and the session ends.      *)
LEMMA ReplyKeeps ==
    ASSUME TypeOK, SessionInv, PromiseInv, NEW s \in Session, Reply(s)
    PROVE  PromiseInv'
<1>1. /\ sess'[s] = Idle /\ \A t \in Session \ {s} : sess'[t] = sess[t]
      /\ \A t \in Session : sess'[t] \in {sess[t], Idle}
      /\ UNCHANGED <<tries, copies>>
  BY DEF Reply, TypeOK
<1>2. AllOrderly' /\ OneClient'
  BY <1>1, IdleLeft DEF PromiseInv, AllOrderly, OneClient, Delivering
<1>3. Fewer
  BY <1>1, IdleLeft DEF Fewer
<1>4. Awaited'
  <2>1. CASE fate' = fate
    BY <1>1, <2>1, IdleLeft DEF PromiseInv, Awaited
  <2>2. CASE fate' # fate
    <3>1. sess[s].live
      BY <2>2 DEF Reply
    <3>2. \A x \in Item : (x[1] # sess[s].mail \/ x[2] \notin Range(sess[s].pos)) => fate'[x] = fate[x]
      BY <2>2 DEF Reply
    <3> QED  BY <1>1, <3>1, <3>2, IdleLeft, FateKeeps
  <2> QED  BY <2>1, <2>2
<1> QED  BY <1>1, <1>2, <1>3, <1>4, TriesStay DEF PromiseInv

LEMMA SessionsStay ==
    ASSUME PromiseInv, UNCHANGED <<sess, fate, tries, copies>>
    PROVE  PromiseInv'
<1>1. AllOrderly' /\ OneClient' /\ Awaited'
  BY DEF PromiseInv, AllOrderly, OneClient, Delivering, Awaited
<1>2. \A x : Working(x)' = Working(x)
  BY DEF Working
<1> QED  BY <1>1, <1>2 DEF PromiseInv, TriesCount

(* A fate that changes although nobody waits for it.                       *)
LEMMA UnawaitedKeeps ==
    ASSUME TypeOK, SessionInv, PromiseInv, UNCHANGED <<sess, tries, copies>>,
           \A t \in Session : sess[t].live => \A k \in Taken(sess[t]) :
              <<sess[t].mail, k>> \in Item /\ fate[<<sess[t].mail, k>>] = "queued"
                => fate'[<<sess[t].mail, k>>] = "queued"
    PROVE  PromiseInv'
<1>1. AllOrderly' /\ OneClient'
  BY DEF PromiseInv, AllOrderly, OneClient, Delivering
<1>2. Awaited'
  <2> SUFFICES ASSUME NEW t \in Session, sess[t].live, NEW k \in Taken(sess[t])
               PROVE  fate'[<<sess[t].mail, k>>] = "queued"
    BY DEF Awaited
  <2>1. sess[t].pc # "idle" /\ fate[<<sess[t].mail, k>>] = "queued"
    BY DEF PromiseInv, AllOrderly, Orderly, Awaited
  <2>2. <<sess[t].mail, k>> \in Item
    BY <2>1, TakenItems
  <2> QED  BY <2>1, <2>2
<1>3. \A x : Working(x)' = Working(x)
  BY DEF Working
<1> QED  BY <1>1, <1>2, <1>3 DEF PromiseInv, TriesCount

LEMMA SubmitKeeps ==
    ASSUME TypeOK, SessionInv, PromiseInv, NEW m \in Mails, Submit(m)
    PROVE  PromiseInv'
<1>1. /\ UNCHANGED <<sess, tries, copies>>
      /\ fate' = [x \in Item |-> IF x[1] = m THEN "queued" ELSE fate[x]]
  BY DEF Submit, memory
<1> QED  BY <1>1, UnawaitedKeeps

LEMMA ExpireKeeps ==
    ASSUME TypeOK, SessionInv, PromiseInv, NEW m \in Mails, Expire(m)
    PROVE  PromiseInv'
<1>1. /\ UNCHANGED <<sess, tries, copies>>
      /\ fate' = [x \in Item |-> IF x[1] = m /\ fate[x] = "queued" THEN "bounced" ELSE fate[x]]
      /\ \A t \in Session : ~(sess[t].live /\ sess[t].mail = m)
  BY DEF Expire, memory, Delivering
<1> QED  BY <1>1, UnawaitedKeeps

LEMMA InitPromise == Init => PromiseInv
<1> SUFFICES ASSUME Init PROVE PromiseInv
  OBVIOUS
<1>1. \A s \in Session : sess[s] = Idle
  BY DEF Init
<1>2. AllOrderly /\ OneClient /\ Awaited
  BY <1>1, IdleLeft DEF AllOrderly, OneClient, Awaited
<1>3. ASSUME NEW x \in Item
      PROVE  IsFiniteSet(Working(x)) /\ Cardinality(Working(x)) + copies[x] <= tries[x[1]]
  <2>1. Working(x) = {}
    BY <1>1, IdleLeft DEF Working
  <2>2. x[1] \in Mails
    BY DEF Item
  <2>3. copies[x] = 0 /\ tries[x[1]] = 0
    BY <2>2 DEF Init
  <2> QED  BY <2>1, <2>3, FS_EmptySet
<1> QED  BY <1>2, <1>3 DEF PromiseInv, TriesCount

(* Every step of a connection's goroutine but RCPT and the answer.         *)
LEMMA StepWorks ==
    ASSUME TypeOK, SessionInv, NEW s \in Session, Step(s)
    PROVE  \/ \E k \in sess[s].todo : Rcpt(s, k)
           \/ WorkStep(s)
           \/ Reply(s)
<1>1. CASE \E k \in sess[s].todo : Rcpt(s, k)
  BY <1>1
<1>2. CASE Data(s)
  BY <1>2, DataWorks
<1>3. CASE Bounce(s)
  BY <1>3, BounceWorks
<1>4. CASE Command(s)
  BY <1>4, CommandWorks
<1>11. CASE Checkback(s)
  BY <1>11, CheckbackWorks
<1>5. CASE Decide(s)
  BY <1>5, DecideWorks
<1>6. CASE Forward(s)
  BY <1>6, ForwardWorks
<1>7. CASE Save(s)
  BY <1>7, SaveWorks
<1>8. CASE NotifyMods(s)
  BY <1>8, NotifyWorks
<1>9. CASE Finish(s)
  BY <1>9, FinishWorks
<1>10. CASE Reply(s)
  BY <1>10
<1> QED  BY <1>1, <1>2, <1>3, <1>4, <1>5, <1>6, <1>7, <1>8, <1>9, <1>10, <1>11 DEF Step

LEMMA NextKeeps ==
    ASSUME TypeOK, SessionInv, PromiseInv, [Next]_vars
    PROVE  PromiseInv'
<1>1. ASSUME NEW s \in Session, NEW m \in Mails, Mail(s, m)  PROVE PromiseInv'
  BY <1>1, MailKeeps
<1>2. ASSUME NEW s \in Session, Step(s)  PROVE PromiseInv'
  <2>1. CASE \E k \in sess[s].todo : Rcpt(s, k)
    BY <2>1, RcptKeeps
  <2>2. CASE WorkStep(s)
    BY <2>2, WorkKeeps
  <2>3. CASE Reply(s)
    BY <2>3, ReplyKeeps
  <2> QED  BY <1>2, <2>1, <2>2, <2>3, StepWorks
<1>3. ASSUME NEW s \in Session, Reset(s)  PROVE PromiseInv'
  BY <1>3, ResetKeeps
<1>4. ASSUME NEW s \in Session, Hangup(s)  PROVE PromiseInv'
  BY <1>4, HangupKeeps
<1>5. ASSUME NEW m \in Mails, Submit(m)  PROVE PromiseInv'
  BY <1>5, SubmitKeeps
<1>6. ASSUME NEW m \in Mails, Expire(m)  PROVE PromiseInv'
  BY <1>6, ExpireKeeps
<1>7. CASE Crash
  BY <1>7, CrashKeeps
<1>8. CASE Admin
  BY <1>8, SessionsStay DEF Admin, memory, mta
<1>9. CASE UNCHANGED vars
  BY <1>9, SessionsStay DEF vars, memory, mta
<1> QED  BY <1>1, <1>2, <1>3, <1>4, <1>5, <1>6, <1>7, <1>8, <1>9 DEF Next

LEMMA PromiseInvariant == Spec => [](TypeOK /\ SessionInv /\ PromiseInv)
<1>1. Init => PromiseInv
  BY InitPromise
<1>2. TypeOK /\ SessionInv /\ PromiseInv /\ [Next]_vars => PromiseInv'
  BY NextKeeps
<1>3. Spec => [](TypeOK /\ SessionInv)
  BY SessionsGood, TypeCorrect, PTL
<1> QED  BY <1>1, <1>2, <1>3, PTL DEF Spec

(* A mail is multiplied by retries only: data() serves a recipient at most *)
(* once in every transaction that the MTA begins, whatever fails and       *)
(* whoever hangs up, in any number of sessions.                            *)
THEOREM ServedOncePerTry == Spec => []OncePerTry
<1>1. TypeOK /\ PromiseInv => OncePerTry
  <2> SUFFICES ASSUME TypeOK, PromiseInv, NEW x \in Item PROVE copies[x] <= tries[x[1]]
    BY DEF OncePerTry
  <2>1. IsFiniteSet(Working(x)) /\ Cardinality(Working(x)) + copies[x] <= tries[x[1]]
    BY DEF PromiseInv, TriesCount
  <2>2. Cardinality(Working(x)) \in Nat
    BY <2>1, FS_CardinalityType
  <2> QED  BY <2>1, <2>2, ItemTyped
<1> QED  BY <1>1, PromiseInvariant, PTL

-----------------------------------------------------------------------------
(* Step by step, the server does what AtLeastOnce allows                   *)

LEMMA Allowed ==
    /\ UNCHANGED <<fate, tries, copies, overtaken>> => UNCHANGED Promise!vars
    /\ \A m \in Mails : Promise!Submit(m) \/ Promise!Try(m) => Promise!Next
    /\ \A x \in Item : Promise!Act(x) => Promise!Next
    /\ \A X \in SUBSET Item : Promise!Overtake(X) => Promise!Next
    /\ \A m \in Mails : \A f \in {"delivered", "bounced"} : \A X \in SUBSET {x \in Item : x[1] = m} :
          Promise!Settle(X, f) => Promise!Next
  BY DEF Promise!vars, Promise!Next

LEMMA MailTries ==
    ASSUME NEW s \in Session, NEW m \in Mails, Mail(s, m), UNCHANGED overtaken
    PROVE  Promise!Try(m)
<1>1. PICK k \in Pos(m) : fate[<<m, k>>] = "queued"
  BY DEF Mail, Queued
<1>2. <<m, k>> \in Item /\ <<m, k>>[1] = m
  BY ItemOf
<1> QED  BY <1>1, <1>2 DEF Promise!Try, Mail

LEMMA WorkActs ==
    ASSUME TypeOK, SessionInv, PromiseInv, NEW s \in Session, WorkStep(s), UNCHANGED overtaken
    PROVE  [Promise!Next]_(Promise!vars)
<1>1. PICK pc \in PC, i \in Nat \ {0}, code \in {"ok", "temp", "perm"} :
         /\ Moved(s, pc, i, code)
         /\ \/ UNCHANGED copies /\ QuietMove(s, pc, i, code)
            \/ Handled(s) /\ sess[s].i <= Len(sess[s].lists) /\ ServeMove(s, pc, i)
  BY DEF WorkStep
<1>2. sess[s].pc \notin {"idle", "reply"} /\ UNCHANGED <<fate, tries>>
  BY DEF WorkStep, mta
<1>3. CASE UNCHANGED copies
  BY <1>2, <1>3, Allowed
<1>4. CASE Handled(s) /\ sess[s].i <= Len(sess[s].lists) /\ ServeMove(s, pc, i)
  <2>1. item(s) \in Item /\ copies[item(s)] < tries[sess[s].mail]
    BY <1>1, <1>2, <1>4, ServedCount DEF PromiseInv
  <2>2. item(s)[1] = sess[s].mail
    BY DEF item
  <2>3. Promise!Act(item(s))
    BY <1>2, <1>4, <2>1, <2>2 DEF Promise!Act, Handled
  <2> QED  BY <2>1, <2>3, Allowed
<1> QED  BY <1>1, <1>3, <1>4

(* What a waiting session has taken is settled at once.                    *)
LEMMA SettleTaken ==
    ASSUME TypeOK, SessionInv, PromiseInv, NEW s \in Session, sess[s].live,
           NEW K \in SUBSET Taken(sess[s]), NEW f \in {"delivered", "bounced"},
           f = "delivered" => \A k \in K : <<sess[s].mail, k>> \in Done \/ Msg[sess[s].mail].null,
           fate' = [x \in Item |-> IF x[1] = sess[s].mail /\ x[2] \in K THEN f ELSE fate[x]],
           UNCHANGED <<tries, copies, overtaken>>
    PROVE  Promise!Next
<1> DEFINE m == sess[s].mail
           X == {x \in Item : x[1] = sess[s].mail /\ x[2] \in K}
<1>1. sess[s].pc # "idle"
  BY DEF PromiseInv, AllOrderly, Orderly
<1>2. m \in Mails
  BY <1>1 DEF SessionInv, GoodSession
<1>3. \A x \in X : x = <<m, x[2]>> /\ x[2] \in Taken(sess[s])
  BY DEF Item
<1>4. \A x \in X : fate[x] = "queued"
  BY <1>3 DEF PromiseInv, Awaited
<1>5. f = "delivered" =>
         \A x \in X : copies[x] > 0 \/ x[1] \in {n \in Mails : Msg[n].null} \/ x \in overtaken
  BY <1>2, <1>3 DEF Done
<1>6. fate' = [x \in Item |-> IF x \in X THEN f ELSE fate[x]]
  OBVIOUS
<1>7. Promise!Settle(X, f)
  BY <1>4, <1>5, <1>6 DEF Promise!Settle
<1>8. X \in SUBSET {x \in Item : x[1] = m}
  OBVIOUS
<1> QED  BY <1>2, <1>7, <1>8, Allowed

LEMMA RcptSettles ==
    ASSUME TypeOK, SessionInv, PromiseInv, NEW s \in Session, NEW k \in sess[s].todo, Rcpt(s, k),
           UNCHANGED overtaken
    PROVE  [Promise!Next]_(Promise!vars)
<1>1. /\ UNCHANGED <<tries, copies>> /\ sess[s].pc = "rcpt"
      /\ fate' = fate \/ fate' = [fate EXCEPT ![<<sess[s].mail, k>>] = "bounced"]
  BY RcptMoves
<1>2. CASE fate' = fate
  BY <1>1, <1>2, Allowed
<1>3. CASE fate' = [fate EXCEPT ![<<sess[s].mail, k>>] = "bounced"]
  <2>1. sess[s].live /\ {k} \in SUBSET Taken(sess[s])
    BY <1>1 DEF PromiseInv, AllOrderly, Orderly, Taken
  <2>2. fate \in [Item -> {"new", "queued", "delivered", "bounced"}]
    BY DEF TypeOK
  <2>3. \A x \in Item : x = <<sess[s].mail, k>> <=> (x[1] = sess[s].mail /\ x[2] \in {k})
    BY DEF Item
  <2>4. fate' = [x \in Item |-> IF x[1] = sess[s].mail /\ x[2] \in {k} THEN "bounced" ELSE fate[x]]
    BY <1>3, <2>2, <2>3
  <2> DEFINE K == {k}
  <2>5. K \in SUBSET Taken(sess[s])
    BY <2>1
  <2>6. fate' = [x \in Item |-> IF x[1] = sess[s].mail /\ x[2] \in K THEN "bounced" ELSE fate[x]]
    BY <2>4
  <2> HIDE DEF K
  <2> QED  BY <1>1, <2>1, <2>5, <2>6, SettleTaken
<1> QED  BY <1>1, <1>2, <1>3

LEMMA ReplySettles ==
    ASSUME TypeOK, SessionInv, PromiseInv, NEW s \in Session, Reply(s), UNCHANGED overtaken
    PROVE  [Promise!Next]_(Promise!vars)
<1>1. UNCHANGED <<tries, copies>> /\ sess[s].pc = "reply"
  BY DEF Reply
<1>2. CASE fate' = fate
  BY <1>1, <1>2, Allowed
<1>3. CASE fate' # fate
  <2> DEFINE K == Range(sess[s].pos)
             f == IF sess[s].code = "ok" THEN "delivered" ELSE "bounced"
  <2>1. /\ sess[s].live
        /\ fate' = [x \in Item |-> IF x[1] = sess[s].mail /\ x[2] \in K THEN f ELSE fate[x]]
    BY <1>3 DEF Reply
  <2>2. K \in SUBSET Taken(sess[s])
    BY DEF Taken, Range
  <2>3. f = "delivered" => \A k \in K : <<sess[s].mail, k>> \in Done \/ Msg[sess[s].mail].null
    <3> SUFFICES ASSUME sess[s].code = "ok", NEW j \in DOMAIN sess[s].pos
                 PROVE  <<sess[s].mail, sess[s].pos[j]>> \in Done \/ Msg[sess[s].mail].null
      BY DEF Range
    <3>1. GoodSession(sess[s], Done) /\ sess[s] \in SessionState
      BY DEF SessionInv, TypeOK
    <3>2. /\ sess[s].pos \in Seq(Nat) /\ sess[s].lists \in Seq(ListRow) /\ sess[s].i \in Nat
          /\ Len(sess[s].pos) = Len(sess[s].lists) /\ sess[s].i > Len(sess[s].lists)
      BY <1>1, <3>1 DEF SessionState, GoodSession
    <3>3. j \in DOMAIN sess[s].lists /\ j < sess[s].i
      BY <3>2
    <3> QED  BY <1>1, <3>1, <3>3 DEF GoodSession
  <2>4. f \in {"delivered", "bounced"}
    OBVIOUS
  <2> HIDE DEF K, f
  <2> QED  BY <1>1, <2>1, <2>2, <2>3, <2>4, SettleTaken
<1> QED  BY <1>2, <1>3

LEMMA ExpireSettles ==
    ASSUME NEW m \in Mails, Expire(m), UNCHANGED overtaken
    PROVE  Promise!Next
<1> DEFINE X == {x \in Item : x[1] = m /\ fate[x] = "queued"}
<1>1. Promise!Settle(X, "bounced")
  BY DEF Promise!Settle, Expire
<1> QED  BY <1>1, Allowed

LEMMA SubmitSubmits ==
    ASSUME NEW m \in Mails, Submit(m), UNCHANGED overtaken
    PROVE  Promise!Submit(m)
<1>1. \A x \in Item : x[1] = m => x \in ItemsOf(m)
  BY DEF Item, ItemsOf
<1> QED  BY <1>1 DEF Submit, Promise!Submit

(* A try of which data() is at a command is not used up yet.               *)
LEMMA TryLeft ==
    ASSUME TypeOK, SessionInv, PromiseInv, NEW s \in Session, sess[s].pc = "checkback"
    PROVE  item(s) \in Item /\ copies[item(s)] < tries[item(s)[1]]
<1>1. /\ sess[s].i <= Len(sess[s].lists) /\ Len(sess[s].pos) = Len(sess[s].lists)
      /\ sess[s].i \in Nat \ {0} /\ sess[s].lists \in Seq(ListRow) /\ sess[s].pos \in Seq(Nat)
  BY SessTyped DEF SessionInv, GoodSession, SessionState
<1>2. sess[s].i \in DOMAIN sess[s].pos
  BY <1>1
<1>3. sess[s].pos[sess[s].i] \in Left(sess[s])
  BY <1>2 DEF Left
<1>4. item(s) \in Item
  BY <1>1, HandledServed
<1>5. item(s)[1] = sess[s].mail /\ item(s)[2] = sess[s].pos[sess[s].i]
  BY DEF item
<1>6. PICK x \in Item : x = item(s)
  BY <1>4
<1>7. s \in Working(x)
  BY <1>3, <1>5, <1>6 DEF Working
<1>8. IsFiniteSet(Working(x)) /\ Cardinality(Working(x)) + copies[x] <= tries[x[1]]
  BY DEF PromiseInv, TriesCount
<1>9. Cardinality(Working(x)) \in Nat /\ Cardinality(Working(x)) # 0
  BY <1>7, <1>8, FS_CardinalityType, FS_EmptySet
<1>10. copies[x] \in Nat /\ tries[x[1]] \in Nat
  BY ItemTyped
<1>11. copies[x] < tries[x[1]]
  BY <1>8, <1>9, <1>10
<1> QED  BY <1>6, <1>11

LEMMA AdminAllowed ==
    ASSUME TypeOK, SessionInv, PromiseInv, Admin
    PROVE  Promise!Next
<1>1. UNCHANGED <<fate, tries, copies>> /\ overtaken' = overtaken \cup Overtook
  BY AdminOvertakes DEF Admin, mta
<1>2. ASSUME NEW x \in Overtook
      PROVE  x[1] \in {m \in Mails : Msg[m].subject \in {"join", "leave"}} /\ copies[x] < tries[x[1]]
  <2>1. PICK s \in Session : sess[s].pc = "checkback" /\ x = item(s)
    BY <1>2, AdminOvertakes
  <2>2. sess[s].mail \in Mails /\ Msg[sess[s].mail].subject \in {"join", "leave"}
    BY <2>1 DEF SessionInv, GoodSession
  <2>3. x[1] = sess[s].mail
    BY <2>1 DEF item
  <2> QED  BY <2>1, <2>2, <2>3, TryLeft
<1>3. Promise!Overtake(Overtook)
  BY <1>1, <1>2 DEF Promise!Overtake
<1>4. Overtook \in SUBSET Item
  BY AdminOvertakes
<1> QED  BY <1>3, <1>4, Allowed

LEMMA NextAllowed ==
    ASSUME TypeOK, SessionInv, PromiseInv, [Next]_vars
    PROVE  [Promise!Next]_(Promise!vars)
<1>1. CASE Admin
  BY <1>1, AdminAllowed
<1>2. CASE ~Admin
  <2>1. UNCHANGED overtaken
    BY <1>2, TablesStay DEF history
  <2>2. ASSUME NEW s \in Session, NEW m \in Mails, Mail(s, m)  PROVE Promise!Next
    BY <2>1, <2>2, MailTries, Allowed
  <2>3. ASSUME NEW s \in Session, Step(s)  PROVE [Promise!Next]_(Promise!vars)
    <3>1. CASE \E k \in sess[s].todo : Rcpt(s, k)
      BY <2>1, <3>1, RcptSettles
    <3>2. CASE WorkStep(s)
      BY <2>1, <3>2, WorkActs
    <3>3. CASE Reply(s)
      BY <2>1, <3>3, ReplySettles
    <3> QED  BY <2>3, <3>1, <3>2, <3>3, StepWorks
  <2>4. ASSUME NEW s \in Session, Reset(s) \/ Hangup(s)  PROVE UNCHANGED Promise!vars
    BY <2>1, <2>4, Allowed DEF Reset, Hangup, mta
  <2>5. ASSUME NEW m \in Mails, Submit(m)  PROVE Promise!Next
    BY <2>1, <2>5, SubmitSubmits, Allowed
  <2>6. ASSUME NEW m \in Mails, Expire(m)  PROVE Promise!Next
    BY <2>1, <2>6, ExpireSettles
  <2>7. CASE Crash
    BY <2>1, <2>7, Allowed DEF Crash, mta
  <2>8. CASE UNCHANGED vars
    BY <2>8, Allowed DEF vars, mta, history
  <2> QED  BY <1>2, <2>2, <2>3, <2>4, <2>5, <2>6, <2>7, <2>8 DEF Next
<1> QED  BY <1>1, <1>2

(* The server implements the queue that AtLeastOnce promises: whatever     *)
(* sessions, the MTA and administrators do, a mail is acted on only while  *)
(* a try is left for it, and "delivered" or "bounced" is said only of mail *)
(* that is queued - "delivered" only of mail that was acted on, or of       *)
(* commands that an administrator overtook before this try was used up.    *)
THEOREM KeepsThePromise == Spec => ImplementsPromise
<1>1. Init => Promise!Init
  BY DEF Init, Promise!Init
<1>2. TypeOK /\ SessionInv /\ PromiseInv /\ [Next]_vars => [Promise!Next]_(Promise!vars)
  BY NextAllowed
<1> QED  BY <1>1, <1>2, PromiseInvariant, PTL DEF Spec, ImplementsPromise, Promise!Spec

-----------------------------------------------------------------------------
(* The truth about bounces                                                 *)

(* Without a failure, a mail to one list is in one session, at its list.   *)
LEMMA OneRecipient ==
    ASSUME TypeOK, SessionInv, PromiseInv, NEW s \in Session, sess[s].pc # "idle",
           Len(Msg[sess[s].mail].rcpts) <= 1
    PROVE  Len(sess[s].lists) <= 1
<1>1. GoodSession(sess[s], Done) /\ sess[s] \in SessionState /\ Orderly(sess[s])
  BY DEF SessionInv, TypeOK, PromiseInv, AllOrderly
<1>2. /\ sess[s].pos \in Seq(Nat) /\ sess[s].lists \in Seq(ListRow)
      /\ Len(sess[s].pos) = Len(sess[s].lists)
  BY <1>1 DEF SessionState, GoodSession
<1>3. Msg[sess[s].mail].rcpts \in Seq([addr: ListAddr, bounce: BOOLEAN])
  BY <1>1, MsgAssumption DEF GoodSession, Message
<1>4. \A k \in Pos(sess[s].mail) : k = 1
  BY <1>3 DEF Pos
<1>5. SUFFICES ASSUME Len(sess[s].lists) > 1 PROVE FALSE
  BY <1>2
<1>6. 1 \in DOMAIN sess[s].pos /\ 2 \in DOMAIN sess[s].pos
      /\ 1 \in DOMAIN sess[s].lists /\ 2 \in DOMAIN sess[s].lists
  BY <1>2, <1>5
<1>7. sess[s].pos[1] = 1 /\ sess[s].pos[2] = 1
  BY <1>1, <1>4, <1>6 DEF GoodSession
<1> QED  BY <1>1, <1>6, <1>7 DEF Orderly

(* Nobody else has a mail that a client waits for.                         *)
LEMMA DueIsAwaited ==
    ASSUME TypeOK, SessionInv, PromiseInv, NEW x \in Item, NEW t \in Session,
           sess[t].mail = x[1], x[2] \in Range(sess[t].pos), sess[t].live
    PROVE  /\ fate[x] = "queued" /\ x = <<sess[t].mail, x[2]>>
           /\ \A s \in Session : sess[s].live /\ sess[s].mail = x[1] => s = t
<1>1. x[2] \in Taken(sess[t])
  BY DEF Taken, Range
<1>2. x = <<sess[t].mail, x[2]>>
  BY DEF Item
<1> QED  BY <1>1, <1>2 DEF PromiseInv, Awaited, OneClient, Delivering

LEMMA WorkTells ==
    ASSUME TypeOK, SessionInv, PromiseInv, UnlessFault, NEW s \in Session, WorkStep(s)
    PROVE  UnlessFault'
<1>1. PICK pc \in PC, i \in Nat \ {0}, code \in {"ok", "temp", "perm"} :
         /\ Moved(s, pc, i, code)
         /\ \/ UNCHANGED copies /\ QuietMove(s, pc, i, code)
            \/ Handled(s) /\ sess[s].i <= Len(sess[s].lists) /\ ServeMove(s, pc, i)
  BY DEF WorkStep
<1>2. sess[s].pc \notin {"idle", "reply"} /\ UNCHANGED <<fate, tries>> /\ faults <= faults'
  BY DEF WorkStep, mta
<1>3. SUFFICES ASSUME faults' = 0
               PROVE  /\ \A t \in Session : sess'[t].pc # "idle" => sess'[t].live
                      /\ \A x \in Item : Len(Msg[x[1]].rcpts) <= 1 /\ copies'[x] > 0
                                           => fate[x] = "delivered" \/ Due(x)'
  BY <1>2 DEF UnlessFault
<1>4. /\ \A t \in Session : sess[t].pc # "idle" => sess[t].live
      /\ \A x \in Item : Len(Msg[x[1]].rcpts) <= 1 /\ copies[x] > 0
                           => fate[x] = "delivered" \/ Due(x)
  <2>1. faults = 0
    BY <1>2, <1>3 DEF TypeOK
  <2> QED  BY <2>1 DEF UnlessFault
<1>5. /\ sess'[s].pc = pc /\ sess'[s].i = i /\ sess'[s].code = code
      /\ sess'[s].mail = sess[s].mail /\ sess'[s].pos = sess[s].pos
      /\ sess'[s].lists = sess[s].lists /\ sess'[s].live = sess[s].live
      /\ \A t \in Session \ {s} : sess'[t] = sess[t]
  BY <1>1, MovedSession
<1>6. sess[s].live /\ sess[s].i \in Nat \ {0} /\ sess[s].lists \in Seq(ListRow)
  BY <1>2, <1>4, SessTyped DEF SessionState
<1>7. ASSUME NEW x \in Item, Len(Msg[x[1]].rcpts) <= 1, copies'[x] > 0
      PROVE  fate[x] = "delivered" \/ Due(x)'
  <2>1. sess[s].mail = x[1] => Len(sess[s].lists) <= 1
    BY <1>2, <1>7, OneRecipient
  <2>2. ASSUME copies[x] > 0, sess[s].mail = x[1] /\ Succeeding(sess[s]) => Succeeding(sess'[s])
        PROVE  fate[x] = "delivered" \/ Due(x)'
    BY <1>4, <1>5, <1>7, <2>2 DEF Due
  <2>3. CASE UNCHANGED copies /\ QuietMove(s, pc, i, code)
    <3>1. ASSUME sess[s].mail = x[1], Succeeding(sess[s])  PROVE Succeeding(sess'[s])
      <4>1. sess[s].pc \in {"process", "notify"} /\ (sess[s].pc = "process" => sess[s].i > Len(sess[s].lists))
        BY <1>2, <3>1 DEF Succeeding
      <4>2. Len(sess[s].lists) \in Nat /\ Len(sess[s].lists) <= 1
        BY <1>6, <2>1, <3>1
      <4>3. CASE sess[s].pc = "notify"
        <5>1. pc = "process" /\ i = sess[s].i + 1
          BY <1>3, <2>3, <4>3 DEF QuietMove
        <5>2. i > Len(sess[s].lists)
          BY <1>6, <4>2, <5>1
        <5> QED  BY <1>5, <1>6, <5>1, <5>2 DEF Succeeding
      <4>4. CASE sess[s].pc = "process"
        <5>1. sess[s].i > Len(sess[s].lists) /\ ~(sess[s].i <= Len(sess[s].lists))
          BY <1>6, <4>1, <4>2, <4>4
        <5>2. pc = "reply" /\ i = sess[s].i /\ code = "ok"
          BY <2>3, <4>4, <5>1 DEF QuietMove
        <5> QED  BY <1>5, <1>6, <5>1, <5>2 DEF Succeeding
      <4> QED  BY <4>1, <4>3, <4>4
    <3> QED  BY <1>7, <2>2, <2>3, <3>1
  <2>4. CASE Handled(s) /\ sess[s].i <= Len(sess[s].lists) /\ ServeMove(s, pc, i)
    <3>1. PICK y \in Item : /\ y = item(s)
                          /\ y[1] = sess[s].mail /\ y[2] = sess[s].pos[sess[s].i]
      BY <1>2, <2>4, HandledServed DEF item
    <3>2. copies' = [copies EXCEPT ![y] = copies[y] + 1] /\ copies \in [Item -> Nat]
      BY <2>4, <3>1 DEF Handled, TypeOK
    <3>3. CASE x = y
      <4>1. sess[s].i \in DOMAIN sess[s].pos
        BY <1>1, <2>4, ServedLeft DEF PromiseInv
      <4>2. x[2] \in Range(sess'[s].pos) /\ sess'[s].mail = x[1]
        BY <1>5, <3>1, <3>3, <4>1 DEF Range
      <4>3. Succeeding(sess'[s])
        BY <1>3, <1>5, <1>6, <2>1, <2>4, <3>1, <3>3 DEF ServeMove, Succeeding
      <4> QED  BY <4>2, <4>3 DEF Due
    <3>4. CASE x # y
      <4>1. copies[x] > 0
        BY <1>7, <3>2, <3>4
      <4>2. ~Succeeding(sess[s])
        BY <1>6, <2>4 DEF ServeMove, Succeeding
      <4> QED  BY <2>2, <4>1, <4>2
    <3> QED  BY <3>3, <3>4
  <2> QED  BY <1>1, <2>3, <2>4
<1>8. pc # "idle"
  BY <1>1 DEF QuietMove, ServeMove
<1> QED  BY <1>4, <1>5, <1>6, <1>7

(* The other steps: nobody is served, and a session that is about to       *)
(* report a delivery is left alone or does so.                             *)
LEMMA OthersTell ==
    ASSUME TypeOK, UnlessFault, UNCHANGED copies, faults <= faults',
           faults' = 0 =>
             /\ \A t \in Session : sess'[t].pc # "idle" => sess'[t].live
             /\ \A x \in Item : fate[x] = "delivered" => fate'[x] = "delivered"
             /\ \A t \in Session : Succeeding(sess[t]) =>
                  \/ sess'[t] = sess[t]
                  \/ \A x \in Item : sess[t].mail = x[1] /\ x[2] \in Range(sess[t].pos)
                                       => fate'[x] = "delivered"
    PROVE  UnlessFault'
<1>1. SUFFICES ASSUME faults' = 0
               PROVE  \A x \in Item : Len(Msg[x[1]].rcpts) <= 1 /\ copies[x] > 0
                                        => fate'[x] = "delivered" \/ Due(x)'
  BY DEF UnlessFault
<1>2. faults = 0
  BY <1>1 DEF TypeOK
<1> QED  BY <1>1, <1>2 DEF UnlessFault, Due

LEMMA MailTells ==
    ASSUME TypeOK, SessionInv, PromiseInv, UnlessFault,
           NEW s \in Session, NEW m \in Mails, Mail(s, m)
    PROVE  UnlessFault'
<1>1. /\ sess'[s].live /\ \A t \in Session \ {s} : sess'[t] = sess[t]
      /\ sess[s].pc \in {"idle", "rcpt"} /\ UNCHANGED <<copies, fate, faults>>
  BY DEF Mail, TypeOK, Idle, bounds
<1>2. ~Succeeding(sess[s]) /\ faults \in Nat
  BY <1>1 DEF Succeeding, TypeOK
<1> QED  BY <1>1, <1>2, OthersTell DEF UnlessFault

LEMMA RcptTells ==
    ASSUME TypeOK, SessionInv, PromiseInv, UnlessFault,
           NEW s \in Session, NEW k \in sess[s].todo, Rcpt(s, k)
    PROVE  UnlessFault'
<1>1. /\ sess[s].pc = "rcpt" /\ UNCHANGED copies /\ sess'[s].live = sess[s].live
      /\ fate' = fate \/ fate' = [fate EXCEPT ![<<sess[s].mail, k>>] = "bounced"]
      /\ \A t \in Session \ {s} : sess'[t] = sess[t]
  BY RcptMoves
<1>2. sess[s].live /\ k \in Taken(sess[s])
  BY <1>1 DEF PromiseInv, AllOrderly, Orderly, Taken
<1>3. fate[<<sess[s].mail, k>>] = "queued"
  BY <1>2 DEF PromiseInv, Awaited
<1>4. faults <= faults'
  BY FaultsGrow DEF Rcpt
<1>5. \A x \in Item : fate[x] = "delivered" => fate'[x] = "delivered"
  BY <1>1, <1>3 DEF TypeOK
<1>6. ~Succeeding(sess[s])
  BY <1>1 DEF Succeeding
<1>7. faults' = 0 => \A t \in Session : sess'[t].pc # "idle" => sess'[t].live
  <2>1. faults' = 0 => faults = 0
    BY <1>4 DEF TypeOK
  <2> QED  BY <1>1, <1>2, <2>1 DEF UnlessFault
<1> QED  BY <1>1, <1>4, <1>5, <1>6, <1>7, OthersTell

LEMMA ReplyTells ==
    ASSUME TypeOK, SessionInv, PromiseInv, UnlessFault, NEW s \in Session, Reply(s)
    PROVE  UnlessFault'
<1>1. /\ sess'[s] = Idle /\ \A t \in Session \ {s} : sess'[t] = sess[t]
      /\ UNCHANGED <<copies, faults>> /\ sess[s].pc = "reply"
  BY DEF Reply, TypeOK, bounds
<1>2. \A x \in Item : fate[x] = "delivered" => fate'[x] = "delivered"
  <2> SUFFICES ASSUME NEW x \in Item, fate[x] = "delivered", fate'[x] # fate[x] PROVE FALSE
    OBVIOUS
  <2>1. sess[s].live /\ x[1] = sess[s].mail /\ x[2] \in Range(sess[s].pos)
    BY DEF Reply
  <2> QED  BY <2>1, DueIsAwaited
<1>3. Succeeding(sess[s]) => \A x \in Item : sess[s].mail = x[1] /\ x[2] \in Range(sess[s].pos)
                                               => fate'[x] = "delivered"
  BY <1>1 DEF Reply, Succeeding
<1>4. Idle.pc = "idle"
  BY DEF Idle
<1>5. faults \in Nat
  BY DEF TypeOK
<1> QED  BY <1>1, <1>2, <1>3, <1>4, <1>5, OthersTell DEF UnlessFault

LEMMA SubmitTells ==
    ASSUME TypeOK, SessionInv, PromiseInv, UnlessFault, NEW m \in Mails, Submit(m)
    PROVE  UnlessFault'
<1>1. /\ UNCHANGED <<sess, copies, faults>> /\ \A x \in ItemsOf(m) : fate[x] = "new"
      /\ fate' = [x \in Item |-> IF x[1] = m THEN "queued" ELSE fate[x]]
  BY DEF Submit, memory, bounds
<1>2. \A x \in Item : x[1] = m => x \in ItemsOf(m)
  BY DEF Item, ItemsOf
<1>3. faults \in Nat
  BY DEF TypeOK
<1> QED  BY <1>1, <1>2, <1>3, OthersTell DEF UnlessFault

LEMMA ExpireTells ==
    ASSUME TypeOK, SessionInv, PromiseInv, UnlessFault, NEW m \in Mails, Expire(m)
    PROVE  UnlessFault'
<1>1. /\ UNCHANGED <<sess, copies, faults>>
      /\ fate' = [x \in Item |-> IF x[1] = m /\ fate[x] = "queued" THEN "bounced" ELSE fate[x]]
  BY DEF Expire, memory, bounds
<1>2. faults \in Nat
  BY DEF TypeOK
<1> QED  BY <1>1, <1>2, OthersTell DEF UnlessFault

LEMMA ResetTells ==
    ASSUME TypeOK, UnlessFault, NEW s \in Session, Reset(s)
    PROVE  UnlessFault'
<1>1. /\ sess'[s] = Idle /\ \A t \in Session \ {s} : sess'[t] = sess[t]
      /\ UNCHANGED <<copies, fate, faults>> /\ sess[s].pc = "rcpt"
  BY DEF Reset, TypeOK, mta, bounds
<1>2. ~Succeeding(sess[s]) /\ Idle.pc = "idle" /\ faults \in Nat
  BY <1>1 DEF Succeeding, Idle, TypeOK
<1> QED  BY <1>1, <1>2, OthersTell DEF UnlessFault

LEMMA NextTells ==
    ASSUME TypeOK, SessionInv, PromiseInv, UnlessFault, [Next]_vars
    PROVE  UnlessFault'
<1>1. ASSUME NEW s \in Session, NEW m \in Mails, Mail(s, m)  PROVE UnlessFault'
  BY <1>1, MailTells
<1>2. ASSUME NEW s \in Session, Step(s)  PROVE UnlessFault'
  <2>1. CASE \E k \in sess[s].todo : Rcpt(s, k)
    BY <2>1, RcptTells
  <2>2. CASE WorkStep(s)
    BY <2>2, WorkTells
  <2>3. CASE Reply(s)
    BY <2>3, ReplyTells
  <2> QED  BY <1>2, <2>1, <2>2, <2>3, StepWorks
<1>3. ASSUME NEW s \in Session, Reset(s)  PROVE UnlessFault'
  BY <1>3, ResetTells
<1>4. ASSUME Fault  PROVE UnlessFault'
  <2>1. faults' > 0
    BY <1>4, FaultsGrow
  <2> QED  BY <2>1 DEF UnlessFault
<1>5. ASSUME NEW m \in Mails, Submit(m)  PROVE UnlessFault'
  BY <1>5, SubmitTells
<1>6. ASSUME NEW m \in Mails, Expire(m)  PROVE UnlessFault'
  BY <1>6, ExpireTells
<1>7. ASSUME UNCHANGED <<sess, fate, copies, faults>>  PROVE UnlessFault'
  BY <1>7 DEF UnlessFault, Due
<1>8. CASE Admin
  BY <1>7, <1>8 DEF Admin, memory, mta
<1>9. CASE UNCHANGED vars
  BY <1>7, <1>9 DEF vars, memory, mta, bounds
<1> QED  BY <1>1, <1>2, <1>3, <1>4, <1>5, <1>6, <1>8, <1>9 DEF Next, Hangup, Crash

LEMMA TruthTold ==
    ASSUME TypeOK, SessionInv, PromiseInv, UnlessFault
    PROVE  NoFalseBounce
<1>1. faults \in Nat /\ \A x \in Item : Len(Msg[x[1]].rcpts) \in Nat
  <2>1. \A x \in Item : Msg[x[1]].rcpts \in Seq([addr: ListAddr, bounce: BOOLEAN])
    BY ItemTyped, MsgAssumption DEF Message
  <2> QED  BY <2>1 DEF TypeOK
<1>2. ASSUME NEW x \in Item, fate[x] = "bounced", copies[x] > 0, faults = 0,
             Len(Msg[x[1]].rcpts) <= 1
      PROVE  FALSE
  <2>1. PICK t \in Session : /\ sess[t].mail = x[1] /\ x[2] \in Range(sess[t].pos)
                             /\ Succeeding(sess[t])
    BY <1>2 DEF UnlessFault, Due
  <2> QED  BY <1>2, <2>1, DueIsAwaited DEF Succeeding
<1> QED  BY <1>1, <1>2 DEF NoFalseBounce

(* The sender of a mail to one list is told that it could not be delivered *)
(* only if the list was not served, as long as no call has failed, no      *)
(* client has hung up and the process has not died.                        *)
THEOREM BouncesAreTrue == Spec => []NoFalseBounce
<1>1. Init => UnlessFault
  BY DEF Init, UnlessFault, Idle
<1>2. TypeOK /\ SessionInv /\ PromiseInv /\ UnlessFault /\ [Next]_vars => UnlessFault'
  BY NextTells
<1>3. TypeOK /\ SessionInv /\ PromiseInv /\ UnlessFault => NoFalseBounce
  BY TruthTold
<1> QED  BY <1>1, <1>2, <1>3, PromiseInvariant, PTL DEF Spec

-----------------------------------------------------------------------------
(* Who gets a mail through                                                 *)

(* A copy of a list that a session has loaded for a mail: its row is still *)
(* there, or the list has been deleted meanwhile; and what it lets pass    *)
(* has once passed.                                                        *)
CopyOK(m, l) ==
    /\ <<m, l.addr>> \in deletedInHand \/ \E r \in list : r.id = l.id /\ r.addr = l.addr
    /\ \A st \in Status : l.set.action[st] = Pass => <<l.addr, st>> \in everPass

CopiesOK ==
    \A s \in Session : sess[s].pc # "idle" =>
       \A j \in DOMAIN sess[s].lists : CopyOK(sess[s].mail, sess[s].lists[j])

(* Delete takes the members of the list with it.                           *)
NoOrphans == \A m \in member : \E l \in list : l.id = m.list

(* The history of the database goes back to the present.                   *)
Remembered ==
    RolesNow \subseteq everRole /\ PassNow \subseteq everPass /\ ReceiversNow \subseteq everReceiver

(* Somebody who could pass on that list, and the people who received.      *)
Justified(m, addr) ==
    \/ <<m, addr>> \in deletedInHand
    \/ \E st \in Status :
          /\ <<addr, st>> \in everPass
          /\ st = "Unknown" \/ \E a \in Msg[m].from : <<addr, a, st>> \in everRole
Received(m, id, addr, a) ==
    \/ <<id, addr, a>> \in everReceiver
    \/ /\ <<m, addr>> \in deletedInHand
       /\ \E b \in ListAddr \ {addr} : <<id, b, a>> \in everReceiver
Rightful(f) ==
    Justified(f.mail, f.addr) /\ \A a \in f.to : Received(f.mail, f.id, f.addr, a)

(* Decide has chosen to forward only what may pass.                        *)
ChosenOK == \A s \in Session : sess[s].pc = "forward" => Justified(sess[s].mail, cur(s).addr)

JustInv ==
    CopiesOK /\ NoOrphans /\ Remembered /\ ChosenOK /\ ForwardJustified /\ ReceiversAreMembers

LEMMA RightfulAre ==
    ForwardJustified /\ ReceiversAreMembers <=> \A f \in forwarded : Rightful(f)
  BY DEF ForwardJustified, ReceiversAreMembers, Rightful, Justified, Received

(* The roles that are looked up by the id of a copy were had on its list.  *)
LEMMA RolesHeld ==
    ASSUME Remembered, NEW m, NEW l, CopyOK(m, l), <<m, l.addr>> \notin deletedInHand,
           NEW a \in Address, NEW st \in GetRoles(l, a)
    PROVE  <<l.addr, a, st>> \in everRole
<1>1. PICK r \in list : r.id = l.id /\ r.addr = l.addr
  BY DEF CopyOK
<1>2. GetRoles(r, a) = GetRoles(l, a)
  BY <1>1 DEF GetRoles, Rows, IsKnown
<1>3. <<r.addr, a, st>> \in RolesNow
  <2> DEFINE W == {<<r.addr, a, x>> : x \in GetRoles(r, a)}
  <2>1. <<r.addr, a, st>> \in W
    BY <1>2
  <2>2. W \in {{<<k.addr, b, x>> : x \in GetRoles(k, b)} : k \in list, b \in Address}
    OBVIOUS
  <2> HIDE DEF W
  <2> QED  BY <2>1, <2>2 DEF RolesNow
<1> QED  BY <1>1, <1>3 DEF Remembered

LEMMA MessageTyped ==
    ASSUME NEW m \in Mails
    PROVE  Msg[m].from \in SUBSET Address /\ Msg[m].spam \in BOOLEAN
  BY MsgAssumption DEF Message

(* GetAction lets pass only if one of the statuses that it looked up does. *)
LEMMA PassHasStatus ==
    ASSUME NEW l, l.set \in Settings, NEW froms, NEW spam \in BOOLEAN,
           GetAction(l, froms, spam) = Pass
    PROVE  \/ l.set.action["Unknown"] = Pass
           \/ \E a \in froms : \E st \in GetRoles(l, a) : l.set.action[st] = Pass
<1> DEFINE S == {l.set.action["Unknown"]} \cup
                UNION {{l.set.action[st] : st \in GetRoles(l, a)} : a \in froms}
<1>1. \A a : GetRoles(l, a) \subseteq Status
  BY DEF GetRoles, Status
<1>2. \A st \in Status : l.set.action[st] \in 0..2
  BY DEF Settings, Action, Reject, Mod, Pass
<1>3. S \in SUBSET (0..2) /\ S # {}
  BY <1>1, <1>2 DEF Status
<1>4. Max(S) \in S
  BY <1>3, MaxOf
<1>5. Max(S) = Pass
  BY DEF GetAction, Pass, Mod
<1> HIDE DEF S
<1>6. Pass \in S
  BY <1>4, <1>5
<1> QED  BY <1>6 DEF S

LEMMA DecideJustified ==
    ASSUME TypeOK, SessionInv, JustInv, NEW s \in Session, Decide(s), sess'[s].pc = "forward"
    PROVE  Justified(sess[s].mail, cur(s).addr)
<1>1. /\ sess[s].pc = "process" /\ sess[s].i <= Len(sess[s].lists)
      /\ sess \in [Session -> SessionState] /\ sess[s] \in SessionState
  BY DEF Decide, Serving, TypeOK
<1>2. GetAction(cur(s), msg(s).from, msg(s).spam) = Pass
  <2>1. \A code : Answer(s, code) => sess'[s].pc = "reply"
    BY <1>1 DEF Answer, SessionState
  <2>2. GoTo(s, "save") => sess'[s].pc = "save"
    BY <1>1 DEF GoTo, SessionState
  <2> QED  BY <2>1, <2>2 DEF Decide
<1>3. /\ sess[s].mail \in Mails /\ cur(s) \in ListRow /\ sess[s].i \in DOMAIN sess[s].lists
  <2>1. sess[s].i \in Nat \ {0} /\ sess[s].lists \in Seq(ListRow)
    BY <1>1 DEF SessionState
  <2> QED  BY <1>1, <2>1, HandledServed DEF cur
<1>4. CopyOK(sess[s].mail, cur(s))
  BY <1>1, <1>3 DEF JustInv, CopiesOK, cur
<1>5. msg(s).from \in SUBSET Address /\ msg(s).spam \in BOOLEAN /\ cur(s).set \in Settings
  BY <1>3, MessageTyped DEF msg, ListRow
<1>6. \A a : GetRoles(cur(s), a) \subseteq Status
  BY DEF GetRoles, Status
<1>7. CASE cur(s).set.action["Unknown"] = Pass
  BY <1>4, <1>7 DEF CopyOK, Justified, Status
<1>8. ASSUME NEW a \in msg(s).from, NEW st \in GetRoles(cur(s), a), cur(s).set.action[st] = Pass
      PROVE  Justified(sess[s].mail, cur(s).addr)
  <2>1. st \in Status /\ a \in Address
    BY <1>5, <1>6
  <2>2. <<cur(s).addr, st>> \in everPass
    BY <1>4, <1>8, <2>1 DEF CopyOK
  <2>3. <<sess[s].mail, cur(s).addr>> \in deletedInHand \/ <<cur(s).addr, a, st>> \in everRole
    BY <1>4, <2>1, RolesHeld DEF JustInv
  <2> QED  BY <2>1, <2>2, <2>3 DEF Justified, msg
<1> QED  BY <1>2, <1>5, <1>7, <1>8, PassHasStatus

(* Those who are looked up by the id of a copy have received from its list *)
(* or, if that was deleted in hand, from the one that has the id now.      *)
LEMMA ReceiversHeld ==
    ASSUME TypeOK, NoOrphans, Remembered, NEW m, NEW l, CopyOK(m, l), NEW a \in Receivers(l)
    PROVE  Received(m, l.id, l.addr, a)
<1>1. PICK w \in member : w.list = l.id /\ w.address = a /\ w.role["receive"]
  BY DEF Receivers, MembersWhere
<1>2. ASSUME NEW r \in list, r.id = l.id  PROVE <<l.id, r.addr, a>> \in everReceiver
  <2>1. w \in {x \in member : x.list = r.id /\ x.role["receive"]}
    BY <1>1, <1>2
  <2> DEFINE W == {<<r.id, r.addr, x.address>> : x \in {y \in member : y.list = r.id /\ y.role["receive"]}}
  <2>2. <<r.id, r.addr, a>> \in W
    BY <1>1, <2>1
  <2>3. W \in {{<<k.id, k.addr, x.address>> : x \in {y \in member : y.list = k.id /\ y.role["receive"]}} : k \in list}
    OBVIOUS
  <2> HIDE DEF W
  <2>4. <<r.id, r.addr, a>> \in ReceiversNow
    BY <2>2, <2>3 DEF ReceiversNow
  <2> QED  BY <1>2, <2>4 DEF Remembered
<1>3. PICK r \in list : r.id = l.id
  BY <1>1 DEF NoOrphans
<1>4. CASE r.addr = l.addr
  BY <1>2, <1>3, <1>4 DEF Received
<1>5. CASE r.addr # l.addr
  <2>1. CASE <<m, l.addr>> \in deletedInHand
    <3>1. r.addr \in ListAddr \ {l.addr}
      BY <1>5 DEF TypeOK, RepoTypeOK, ListRow
    <3> QED  BY <1>2, <1>3, <2>1, <3>1 DEF Received
  <2>2. CASE <<m, l.addr>> \notin deletedInHand
    <3>1. PICK n \in list : n.id = l.id /\ n.addr = l.addr
      BY <2>2 DEF CopyOK
    <3> QED  BY <1>2, <3>1 DEF Received
  <2> QED  BY <2>1, <2>2
<1> QED  BY <1>4, <1>5

(* A step of a session or of its client, by what it does to the copies.    *)
LEMMA JustStays ==
    ASSUME TypeOK, JustInv, UNCHANGED <<tables, history>>,
           \A t \in Session : sess'[t].pc # "idle" =>
              \/ sess'[t].lists = <<>>
              \/ /\ sess[t].pc # "idle" /\ sess'[t].mail = sess[t].mail
                 /\ \/ sess'[t].lists = sess[t].lists
                    \/ \E l \in list : sess'[t].lists = Append(sess[t].lists, l),
           \A t \in Session : sess'[t].pc = "forward" =>
              \/ sess'[t].i = sess[t].i /\ sess[t].pc = "forward"
                 /\ sess'[t].lists = sess[t].lists /\ sess'[t].mail = sess[t].mail
              \/ Justified(sess'[t].mail, sess'[t].lists[sess'[t].i].addr),
           \A f \in forwarded' \ forwarded : Rightful(f)
    PROVE  JustInv'
<1>1. \A m, l : CopyOK(m, l)' <=> CopyOK(m, l)
  BY DEF CopyOK, tables, history
<1>2. \A m, a : Justified(m, a)' <=> Justified(m, a)
  BY DEF Justified, history
<1>3. CopiesOK'
  <2> SUFFICES ASSUME NEW t \in Session, sess'[t].pc # "idle", NEW j \in DOMAIN sess'[t].lists
               PROVE  CopyOK(sess'[t].mail, sess'[t].lists[j])
    BY <1>1 DEF CopiesOK
  <2>1. sess[t].lists \in Seq(ListRow)
    BY SessTyped DEF SessionState
  <2>2. CASE sess'[t].lists = <<>>
    BY <2>2
  <2>3. CASE /\ sess[t].pc # "idle" /\ sess'[t].mail = sess[t].mail
             /\ sess'[t].lists = sess[t].lists
    BY <2>3 DEF JustInv, CopiesOK
  <2>4. ASSUME sess[t].pc # "idle", sess'[t].mail = sess[t].mail,
               NEW l \in list, sess'[t].lists = Append(sess[t].lists, l)
        PROVE  CopyOK(sess'[t].mail, sess'[t].lists[j])
    <3>1. CopyOK(sess[t].mail, l)
      <4>1. ASSUME NEW st \in Status, l.set.action[st] = Pass  PROVE <<l.addr, st>> \in everPass
        <5>1. <<l.addr, st>> \in PassNow
          BY <4>1 DEF PassNow
        <5> QED  BY <5>1 DEF JustInv, Remembered
      <4> QED  BY <4>1 DEF CopyOK
    <3>2. l \in ListRow
      BY DEF TypeOK, RepoTypeOK
    <3>3. sess'[t].lists[j] = l \/ (j \in DOMAIN sess[t].lists /\ sess'[t].lists[j] = sess[t].lists[j])
      BY <2>1, <2>4, <3>2
    <3> QED  BY <2>4, <3>1, <3>3 DEF JustInv, CopiesOK
  <2> QED  BY <2>2, <2>3, <2>4
<1>4. Remembered' /\ NoOrphans'
  <2>1. RolesNow' = RolesNow
    BY DEF RolesNow, GetRoles, Rows, IsKnown, tables
  <2>2. PassNow' = PassNow
    BY DEF PassNow, tables
  <2>3. ReceiversNow' = ReceiversNow
    BY DEF ReceiversNow, tables
  <2> QED  BY <2>1, <2>2, <2>3 DEF JustInv, Remembered, NoOrphans, history, tables
<1>5. ChosenOK'
  <2> SUFFICES ASSUME NEW t \in Session, sess'[t].pc = "forward"
               PROVE  Justified(sess'[t].mail, sess'[t].lists[sess'[t].i].addr)
    BY <1>2 DEF ChosenOK, cur
  <2> QED  BY DEF JustInv, ChosenOK, cur
<1>6. (\A f \in forwarded : Rightful(f))'
  <2>1. \A f \in forwarded' : Rightful(f)
    BY RightfulAre DEF JustInv
  <2>2. \A f : Rightful(f)' <=> Rightful(f)
    BY DEF Rightful, Justified, Received, history
  <2> QED  BY <2>1, <2>2
<1>7. (ForwardJustified /\ ReceiversAreMembers)'
  BY <1>6, RightfulAre, PTL
<1> QED  BY <1>3, <1>4, <1>5, <1>7 DEF JustInv

(* Only Decide chooses to forward.                                         *)
LEMMA WorkForwards ==
    ASSUME TypeOK, NEW s \in Session, WorkStep(s), sess'[s].pc = "forward"
    PROVE  sess[s].pc = "process"
<1>1. PICK pc \in PC, i \in Nat \ {0}, code \in {"ok", "temp", "perm"} :
         Moved(s, pc, i, code) /\ (QuietMove(s, pc, i, code) \/ ServeMove(s, pc, i))
  BY DEF WorkStep
<1>2. pc = "forward"
  BY <1>1, MovedSession
<1> QED  BY <1>1, <1>2 DEF QuietMove, ServeMove

LEMMA ToForward ==
    ASSUME TypeOK, NEW s \in Session, Step(s), sess[s].pc = "process", sess'[s].pc = "forward"
    PROVE  Decide(s)
<1>1. sess \in [Session -> SessionState] /\ sess[s] \in SessionState
  BY DEF TypeOK
<1>2. /\ \A code : ~Answer(s, code)
      /\ ~NextList(s)
  BY <1>1 DEF Answer, NextList, SessionState
<1>3. ~Bounce(s) /\ ~Finish(s)
  BY <1>2 DEF Bounce, Finish
<1>4. ~Command(s)
  <2>1. ~GoTo(s, "checkback")
    BY <1>1 DEF GoTo, SessionState
  <2> QED  BY <1>2, <2>1 DEF Command
<1>5. \A k : ~Rcpt(s, k)
  BY DEF Rcpt
<1>6. ~Data(s) /\ ~Checkback(s) /\ ~Forward(s) /\ ~Save(s) /\ ~NotifyMods(s) /\ ~Reply(s)
  BY DEF Data, Checkback, Forward, Save, NotifyMods, Reply
<1> QED  BY <1>3, <1>4, <1>5, <1>6 DEF Step

(* What a mail is forwarded to is read with the copy, by Forward itself.   *)
LEMMA ForwardJust ==
    ASSUME TypeOK, SessionInv, JustInv, NEW s \in Session, Forward(s)
    PROVE  \A f \in forwarded' \ forwarded : Rightful(f)
<1>1. /\ sess[s].pc = "forward" /\ sess[s].i <= Len(sess[s].lists)
      /\ sess[s].lists \in Seq(ListRow) /\ sess[s].i \in Nat \ {0}
  BY SessTyped DEF Forward, SessionInv, GoodSession, SessionState
<1>2. Justified(sess[s].mail, cur(s).addr) /\ CopyOK(sess[s].mail, cur(s))
  BY <1>1 DEF JustInv, ChosenOK, CopiesOK, cur
<1>3. \A a \in Receivers(cur(s)) : Received(sess[s].mail, cur(s).id, cur(s).addr, a)
  BY <1>2, ReceiversHeld DEF JustInv
<1>4. \A f \in forwarded' \ forwarded :
         f = [mail |-> sess[s].mail, id |-> cur(s).id, addr |-> cur(s).addr,
              to |-> Receivers(cur(s))]
  BY DEF Forward
<1> QED  BY <1>2, <1>3, <1>4 DEF Rightful

LEMMA OnlyForwardForwards ==
    ASSUME NEW s \in Session, Step(s), ~Forward(s)
    PROVE  UNCHANGED forwarded
<1>1. \A k : Rcpt(s, k) => UNCHANGED forwarded
  BY DEF Rcpt
<1>2. /\ Data(s) => UNCHANGED forwarded
      /\ Bounce(s) => UNCHANGED forwarded
      /\ Command(s) => UNCHANGED forwarded
      /\ Checkback(s) => UNCHANGED forwarded
      /\ Decide(s) => UNCHANGED forwarded
      /\ Save(s) => UNCHANGED forwarded
      /\ NotifyMods(s) => UNCHANGED forwarded
      /\ Finish(s) => UNCHANGED forwarded
      /\ Reply(s) => UNCHANGED forwarded
  BY DEF Data, Bounce, Command, Checkback, Decide, Save, NotifyMods, Finish, Reply
<1> QED  BY <1>1, <1>2 DEF Step

LEMMA WorkJust ==
    ASSUME TypeOK, SessionInv, JustInv, NEW s \in Session, Step(s), WorkStep(s),
           UNCHANGED <<tables, history>>
    PROVE  JustInv'
<1>1. PICK pc \in PC, i \in Nat \ {0}, code \in {"ok", "temp", "perm"} :
         Moved(s, pc, i, code) /\ (QuietMove(s, pc, i, code) \/ ServeMove(s, pc, i))
  BY DEF WorkStep
<1>2. /\ sess'[s].lists = sess[s].lists /\ sess'[s].mail = sess[s].mail
      /\ sess'[s].pc = pc /\ sess'[s].i = i
      /\ \A t \in Session \ {s} : sess'[t] = sess[t]
  BY <1>1, MovedSession
<1>3. pc = "forward" => i = sess[s].i /\ Justified(sess[s].mail, cur(s).addr)
  <2> SUFFICES ASSUME pc = "forward" PROVE i = sess[s].i /\ Justified(sess[s].mail, cur(s).addr)
    OBVIOUS
  <2>1. i = sess[s].i
    BY <1>1 DEF QuietMove, ServeMove
  <2>2. sess[s].pc = "process" /\ sess'[s].pc = "forward"
    BY <1>2, WorkForwards
  <2>3. Decide(s)
    BY <2>2, ToForward
  <2> QED  BY <2>1, <2>2, <2>3, DecideJustified
<1>4. \A t \in Session : sess'[t].pc # "idle" =>
         sess[t].pc # "idle" /\ sess'[t].mail = sess[t].mail /\ sess'[t].lists = sess[t].lists
  <2>1. sess[s].pc # "idle"
    BY DEF WorkStep
  <2> QED  BY <1>2, <2>1
<1>5. \A t \in Session : sess'[t].pc = "forward" =>
         \/ sess'[t].i = sess[t].i /\ sess[t].pc = "forward"
            /\ sess'[t].lists = sess[t].lists /\ sess'[t].mail = sess[t].mail
         \/ Justified(sess'[t].mail, sess'[t].lists[sess'[t].i].addr)
  BY <1>2, <1>3 DEF cur
<1>6. \A f \in forwarded' \ forwarded : Rightful(f)
  BY ForwardJust, OnlyForwardForwards
<1> QED  BY <1>4, <1>5, <1>6, JustStays

LEMMA RcptJust ==
    ASSUME TypeOK, JustInv, NEW s \in Session, NEW k, Rcpt(s, k), UNCHANGED <<tables, history>>
    PROVE  JustInv'
<1>1. /\ sess \in [Session -> SessionState] /\ sess[s] \in SessionState
      /\ sess[s].pc = "rcpt" /\ UNCHANGED forwarded
  BY DEF TypeOK, Rcpt
<1>2. /\ sess'[s].pc = "rcpt" /\ sess'[s].mail = sess[s].mail
      /\ \A t \in Session \ {s} : sess'[t] = sess[t]
      /\ \/ sess'[s].lists = sess[s].lists
         \/ \E l \in list : sess'[s].lists = Append(sess[s].lists, l)
  <2>1. ASSUME NEW l \in list,
               sess' = [sess EXCEPT ![s].todo = @ \ {k}, ![s].lists = Append(@, l),
                                    ![s].pos = Append(@, k)]
        PROVE  /\ sess'[s].pc = "rcpt" /\ sess'[s].mail = sess[s].mail
               /\ \A t \in Session \ {s} : sess'[t] = sess[t]
               /\ sess'[s].lists = Append(sess[s].lists, l)
    BY <1>1, <2>1 DEF SessionState
  <2>2. ASSUME sess' = [sess EXCEPT ![s].todo = @ \ {k}]
        PROVE  /\ sess'[s].pc = "rcpt" /\ sess'[s].mail = sess[s].mail
               /\ \A t \in Session \ {s} : sess'[t] = sess[t]
               /\ sess'[s].lists = sess[s].lists
    BY <1>1, <2>2 DEF SessionState
  <2>3. \A a : GetList(a) \subseteq list
    BY DEF GetList
  <2> QED  BY <2>1, <2>2, <2>3 DEF Rcpt
<1>3. \A t \in Session : sess'[t].pc # "idle" =>
         /\ sess[t].pc # "idle" /\ sess'[t].mail = sess[t].mail
         /\ \/ sess'[t].lists = sess[t].lists
            \/ \E l \in list : sess'[t].lists = Append(sess[t].lists, l)
  BY <1>1, <1>2
<1>4. \A t \in Session : sess'[t].pc = "forward" => sess'[t] = sess[t] /\ sess[t].pc = "forward"
  BY <1>2
<1> QED  BY <1>1, <1>3, <1>4, JustStays
LEMMA Stays == ASSUME TypeOK, JustInv, UNCHANGED <<tables, history, sess, forwarded>> PROVE JustInv'
<1>1. \A t \in Session : sess'[t].pc # "idle" =>
         sess[t].pc # "idle" /\ sess'[t].mail = sess[t].mail /\ sess'[t].lists = sess[t].lists
  OBVIOUS
<1>2. \A t \in Session : sess'[t].pc = "forward" =>
         \/ sess'[t].i = sess[t].i /\ sess[t].pc = "forward"
            /\ sess'[t].lists = sess[t].lists /\ sess'[t].mail = sess[t].mail
         \/ Justified(sess'[t].mail, sess'[t].lists[sess'[t].i].addr)
  OBVIOUS
<1> QED  BY <1>1, <1>2, JustStays

(* A session that is reset, begins anew or loses its client.               *)
LEMMA OtherJust ==
    ASSUME TypeOK, JustInv, UNCHANGED <<tables, history, forwarded>>,
           \A t \in Session :
              \/ sess'[t] = sess[t]
              \/ sess'[t].lists = <<>> /\ sess'[t].pc # "forward"
              \/ sess'[t] = [sess[t] EXCEPT !.live = FALSE]
    PROVE  JustInv'
<1>1. ASSUME NEW t \in Session
      PROVE  /\ sess'[t].pc # "idle" =>
                   \/ sess'[t].lists = <<>>
                   \/ /\ sess[t].pc # "idle" /\ sess'[t].mail = sess[t].mail
                      /\ sess'[t].lists = sess[t].lists
             /\ sess'[t].pc = "forward" =>
                   /\ sess'[t].i = sess[t].i /\ sess[t].pc = "forward"
                   /\ sess'[t].lists = sess[t].lists /\ sess'[t].mail = sess[t].mail
  <2>1. sess[t] \in SessionState
    BY SessTyped
  <2> QED  BY <2>1 DEF SessionState
<1> QED  BY <1>1, JustStays

LEMMA MailJust ==
    ASSUME TypeOK, JustInv, NEW s \in Session, NEW m \in Mails, Mail(s, m),
           UNCHANGED <<tables, history>>
    PROVE  JustInv'
<1>1. sess'[s].lists = <<>> /\ sess'[s].pc = "rcpt"
  BY DEF Mail, Idle, TypeOK
<1>2. /\ \A t \in Session \ {s} : sess'[t] = sess[t]
      /\ UNCHANGED forwarded
  BY DEF Mail, TypeOK
<1> QED  BY <1>1, <1>2, OtherJust

(* Reply, Reset, Crash and the hangup between two commands.                *)
LEMMA IdleJust ==
    ASSUME TypeOK, JustInv, UNCHANGED <<tables, history, forwarded>>,
           \A t \in Session : \/ sess'[t] = sess[t] \/ sess'[t] = Idle
                              \/ sess'[t] = [sess[t] EXCEPT !.live = FALSE]
    PROVE  JustInv'
<1>1. Idle.lists = <<>> /\ Idle.pc # "forward"
  BY DEF Idle
<1> QED  BY <1>1, OtherJust

(* Every operation that takes a list away takes its members, too.          *)
LEMMA AdminOrphans ==
    ASSUME TypeOK, NoOrphans, Admin
    PROVE  NoOrphans'
<1>1. ASSUME NEW a, Create(a)  PROVE NoOrphans'
  BY <1>1 DEF Create, NoOrphans
<1>2. ASSUME NEW l, NEW set, Update(l, set)  PROVE NoOrphans'
  <2>1. \A r \in list : \E n \in list' : n.id = r.id
    BY <1>2, UpdatedRow DEF TypeOK
  <2>2. UNCHANGED member
    BY <1>2 DEF Update
  <2> SUFFICES ASSUME NEW w \in member PROVE \E n \in list' : n.id = w.list
    BY <2>2 DEF NoOrphans
  <2>3. PICK r \in list : r.id = w.list
    BY DEF NoOrphans
  <2> QED  BY <2>1, <2>3
<1>3. ASSUME NEW l \in list, NEW a, NEW role, AddMembers(l, {a}, role)  PROVE NoOrphans'
  BY <1>3 DEF AddMembers, NoOrphans
<1>4. ASSUME NEW l, NEW a, NEW role, UpdateMember(l, a, role)  PROVE NoOrphans'
  <2>1. \A w \in member' : \E r \in member : w.list = r.list
    BY <1>4 DEF UpdateMember, TypeOK, RepoTypeOK, MemberRow
  <2> QED  BY <1>4, <2>1 DEF UpdateMember, NoOrphans
<1>5. ASSUME NEW l, NEW as, RemoveMembers(l, as) \/ AddKnowns(l, as) \/ RemoveKnowns(l, as)
      PROVE  NoOrphans'
  BY <1>5 DEF RemoveMembers, AddKnowns, RemoveKnowns, NoOrphans
<1>6. ASSUME NEW l, Delete(l)  PROVE NoOrphans'
  BY <1>6 DEF Delete, NoOrphans
<1> QED  BY <1>1, <1>2, <1>3, <1>4, <1>5, <1>6 DEF Admin

(* The history of the database goes on, and the copies do not notice, by   *)
(* KeysUnique: what Delete(l) removes by its id is the list of that address. *)
LEMMA AdminJust ==
    ASSUME TypeOK, KeysUnique, JustInv, Admin
    PROVE  JustInv'
<1>1. /\ everRole' = everRole \cup RolesNow' /\ everPass' = everPass \cup PassNow'
      /\ everReceiver' = everReceiver \cup ReceiversNow'
      /\ UNCHANGED <<sess, forwarded>> /\ deletedInHand \subseteq deletedInHand'
  BY DEF Admin, memory
<1>2. ASSUME NEW r \in list
      PROVE  \/ \E n \in list' : n.id = r.id /\ n.addr = r.addr
             \/ InHand(r.addr) \X {r.addr} \subseteq deletedInHand'
  <2>1. ASSUME NEW l \in list, Delete(l),
               deletedInHand' = deletedInHand \cup (InHand(l.addr) \X {l.addr})
        PROVE  r \in list' \/ InHand(r.addr) \X {r.addr} \subseteq deletedInHand'
    <3>1. r.addr = l.addr \/ r \in list'
      BY <2>1, DeletedRow
    <3> QED  BY <2>1, <3>1
  <2>2. ASSUME NEW l, NEW set, Update(l, set)
        PROVE  \E n \in list' : n.id = r.id /\ n.addr = r.addr
    BY <2>2, UpdatedRow DEF TypeOK
  <2>3. ASSUME NEW a, Create(a)  PROVE list \subseteq list'
    BY <2>3 DEF Create
  <2>4. ASSUME NEW l, NEW as, RemoveMembers(l, as) \/ AddKnowns(l, as) \/ RemoveKnowns(l, as)
        PROVE  UNCHANGED list
    BY <2>4 DEF RemoveMembers, AddKnowns, RemoveKnowns
  <2>5. ASSUME NEW l, NEW a, NEW role, AddMembers(l, {a}, role) \/ UpdateMember(l, a, role)
        PROVE  UNCHANGED list
    BY <2>5 DEF AddMembers, UpdateMember
  <2> QED  BY <2>1, <2>2, <2>3, <2>4, <2>5 DEF Admin
<1>3. ASSUME NEW s \in Session, sess[s].pc # "idle", NEW j \in DOMAIN sess[s].lists
      PROVE  CopyOK(sess[s].mail, sess[s].lists[j])'
  <2> DEFINE l == sess[s].lists[j]
             m == sess[s].mail
  <2>1. CopyOK(m, l)
    BY <1>3 DEF JustInv, CopiesOK
  <2>2. m \in InHand(l.addr)
    BY <1>3 DEF InHand, Range
  <2>3. <<m, l.addr>> \in deletedInHand' \/ \E n \in list' : n.id = l.id /\ n.addr = l.addr
    BY <1>1, <1>2, <2>1, <2>2 DEF CopyOK
  <2>4. \A st \in Status : l.set.action[st] = Pass => <<l.addr, st>> \in everPass'
    BY <1>1, <2>1 DEF CopyOK
  <2> QED  BY <1>1, <2>3, <2>4 DEF CopyOK
<1>4. CopiesOK'
  BY <1>1, <1>3 DEF CopiesOK
<1>5. Remembered'
  BY <1>1 DEF Remembered
<1>6. NoOrphans'
  BY AdminOrphans DEF JustInv
<1>7. \A m, a : Justified(m, a) => Justified(m, a)'
  BY <1>1 DEF Justified
<1>8. ChosenOK'
  BY <1>1, <1>7 DEF JustInv, ChosenOK, cur
<1>9. (\A f \in forwarded : Rightful(f))'
  <2>1. \A f \in forwarded : Rightful(f)
    BY RightfulAre DEF JustInv
  <2>2. \A m, id, addr, a : Received(m, id, addr, a) => Received(m, id, addr, a)'
    BY <1>1 DEF Received
  <2> QED  BY <1>1, <1>7, <2>1, <2>2 DEF Rightful
<1>10. (ForwardJustified /\ ReceiversAreMembers)'
  BY <1>9, RightfulAre, PTL
<1> QED  BY <1>4, <1>5, <1>6, <1>8, <1>10 DEF JustInv

LEMMA NextJust ==
    ASSUME TypeOK, SessionInv, KeysUnique, JustInv, [Next]_vars
    PROVE  JustInv'
<1>1. CASE Admin
  BY <1>1, AdminJust
<1>2. CASE ~Admin
  <2>1. UNCHANGED <<tables, history>>
    BY <1>2, TablesStay
  <2>2. ASSUME NEW s \in Session, NEW m \in Mails, Mail(s, m)  PROVE JustInv'
    BY <2>1, <2>2, MailJust
  <2>3. ASSUME NEW s \in Session, Step(s)  PROVE JustInv'
    <3>1. CASE \E k \in sess[s].todo : Rcpt(s, k)
      BY <2>1, <3>1, RcptJust
    <3>2. CASE WorkStep(s)
      BY <2>1, <2>3, <3>2, WorkJust
    <3>3. CASE Reply(s)
      <4>1. UNCHANGED forwarded /\ \A t \in Session : sess'[t] = sess[t] \/ sess'[t] = Idle
        BY <3>3 DEF Reply, TypeOK
      <4> QED  BY <2>1, <4>1, IdleJust
    <3> QED  BY <2>3, <3>1, <3>2, <3>3, StepWorks
  <2>4. ASSUME NEW s \in Session, Reset(s)  PROVE JustInv'
    <3>1. UNCHANGED forwarded /\ \A t \in Session : sess'[t] = sess[t] \/ sess'[t] = Idle
      BY <2>4 DEF Reset, TypeOK
    <3> QED  BY <2>1, <3>1, IdleJust
  <2>5. ASSUME NEW s \in Session, Hangup(s)  PROVE JustInv'
    <3>1. UNCHANGED forwarded
      BY <2>5 DEF Hangup
    <3>2. \A t \in Session : \/ sess'[t] = sess[t] \/ sess'[t] = Idle
                             \/ sess'[t] = [sess[t] EXCEPT !.live = FALSE]
      BY <2>5 DEF Hangup, TypeOK
    <3> QED  BY <2>1, <3>1, <3>2, IdleJust
  <2>6. CASE Crash
    <3>1. UNCHANGED forwarded /\ \A t \in Session : sess'[t] = Idle
      BY <2>6 DEF Crash
    <3> QED  BY <2>1, <3>1, IdleJust
  <2>7. ASSUME NEW m \in Mails, Submit(m) \/ Expire(m)  PROVE JustInv'
    <3>1. UNCHANGED <<sess, forwarded>>
      BY <2>7 DEF Submit, Expire, memory
    <3> QED  BY <2>1, <3>1, Stays
  <2>8. CASE UNCHANGED vars
    <3>1. UNCHANGED <<sess, forwarded>>
      BY <2>8 DEF vars, memory
    <3> QED  BY <2>1, <3>1, Stays
  <2> QED  BY <1>2, <2>2, <2>3, <2>4, <2>5, <2>6, <2>7, <2>8 DEF Next
<1> QED  BY <1>1, <1>2

LEMMA InitJust == Init => JustInv
<1> SUFFICES ASSUME Init PROVE JustInv
  OBVIOUS
<1>1. CopiesOK /\ ChosenOK
  BY DEF Init, CopiesOK, ChosenOK, Idle
<1>2. NoOrphans
  BY InitKeysAssumption DEF Init, NoOrphans
<1> QED  BY <1>1, <1>2 DEF Init, JustInv, Remembered, ForwardJustified, ReceiversAreMembers

LEMMA JustInvariant == Spec => []JustInv
<1>1. TypeOK /\ SessionInv /\ KeysUnique /\ JustInv /\ [Next]_vars => JustInv'
  BY NextJust
<1> QED  BY <1>1, InitJust, SessionsGood, RowsHaveKeys, PTL DEF Spec

(* Nobody gets a mail past the moderators who did not once have a status   *)
(* that once passed on that list: what data() decides with the settings    *)
(* that it loaded at RCPT and the roles that it reads later is right,      *)
(* whatever administrators do in between, unless they delete the list      *)
(* while the session has it in hand.                                       *)
THEOREM ForwardedByRight == Spec => []ForwardJustified
  BY JustInvariant, PTL DEF JustInv

(* data() hands a mail only to people who have once been members of its    *)
(* list with the role that receives mail, although it looks them up by the *)
(* id of a copy that it loaded at RCPT.  If the list is deleted in between *)
(* they may have received from the list that has the id now, and from no   *)
(* other.                                                                  *)
THEOREM ReceiversWereMembers == Spec => []ReceiversAreMembers
  BY JustInvariant, PTL DEF JustInv
=============================================================================
