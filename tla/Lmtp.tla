-------------------------------- MODULE Lmtp --------------------------------
(***************************************************************************)
(* The LMTP side of ulist: the sessions of lmtp.go that take mail from the *)
(* MTA, decide per list whether it is forwarded, kept for a moderator or   *)
(* refused, and answer once for the whole transaction.  Around them: the   *)
(* MTA that queues, retries, hangs up and expires mail, administrators who *)
(* change the database between any two steps, and crashes.                 *)
(*                                                                         *)
(* A reply is abstracted to its class, which is all the MTA acts on:       *)
(* "ok" (2xx), "temp" (4xx, tried again) and "perm" (5xx, bounced).        *)
(***************************************************************************)
EXTENDS ListRepo, Sequences

CONSTANTS
    Session,        \* LMTP connections
    Mails,          \* mails that people may send
    Msg,            \* the envelope and header of each mail
    InitList, InitMember, InitKnown,    \* the database at the beginning
    SettingsChoice, \* settings an administrator may choose
    RoleChoice,     \* roles an administrator may give
    MaxMails,       \* bound: mails the MTA takes in
    MaxTries,       \* bound: tries before the MTA expires a mail
    MaxFaults,      \* bound: failing calls, hangups and crashes
    MaxAdminOps     \* bound: changes of the database

None == "none"

(* What data() looks at.  "to" are the list addresses in To and Cc; "bad"  *)
(* names the parts of the mail that do not parse.                          *)
Message ==
    [null: BOOLEAN,                             \* empty envelope-from
     rcpts: Seq([addr: ListAddr, bounce: BOOLEAN]),  \* bounce: with "+bounces"
     from: SUBSET Address, sender: Address \cup {None},
     to: SUBSET ListAddr, listIds: SUBSET ListAddr,
     subject: {"join", "leave", "other"}, spam: BOOLEAN,
     bad: SUBSET {"message", "to", "listId", "from", "mime"}]

ASSUME MsgAssumption == Msg \in [Mails -> Message]
ASSUME InitAssumption ==
    /\ InitList \subseteq ListRow
    /\ InitMember \subseteq MemberRow
    /\ InitKnown \subseteq KnownRow
ASSUME InitKeysAssumption ==
    /\ UniqueIn(InitList, InitMember)
    /\ \A m \in InitMember : \E l \in InitList : l.id = m.list
ASSUME ChoiceAssumption == SettingsChoice \subseteq Settings /\ RoleChoice \subseteq Role

Pos(m)   == DOMAIN Msg[m].rcpts
Item     == UNION {{m} \X Pos(m) : m \in Mails}
ItemsOf(m) == {m} \X Pos(m)

VARIABLES
    sess,       \* the state of every LMTP session
    sentJoin, sentLeave,    \* rate limit maps, in memory only
    fate,       \* what the MTA knows of each recipient of each mail
    tries,      \* transactions the MTA has begun for a mail
    copies,     \* how often a mail was forwarded, saved or answered for a recipient
    forwarded,  \* history: what was handed to the MTA for the receivers of a list
    everRole, everPass, everReceiver,   \* history: what the database has said
    deletedInHand,  \* history: lists deleted while a session worked for them
    overtaken,      \* history: commands whose sender's membership changed while
                    \* data() was at them
    faults, adminOps    \* counters for the bounds

memory  == <<sess, sentJoin, sentLeave>>
mta     == <<fate, tries>>
history == <<everRole, everPass, everReceiver, deletedInHand, overtaken>>
bounds  == <<faults, adminOps>>
vars == <<tables, memory, mta, copies, forwarded, history, bounds>>

-----------------------------------------------------------------------------
(* Sessions *)

(* isBounce, lists: fields of lmtpSession; the rest is what a goroutine in *)
(* Data has on its stack.  pos[j] is the recipient that gave lists[j].     *)
(* live: the client still waits for the answer.                            *)
Idle == [pc |-> "idle", mail |-> None, isBounce |-> FALSE, todo |-> {},
         pos |-> <<>>, lists |-> <<>>, i |-> 1, code |-> "ok", live |-> FALSE]

PC == {"idle", "rcpt", "process", "checkback", "forward", "save", "notify", "reply"}

SessionState ==
    [pc: PC, mail: Mails \cup {None}, isBounce: BOOLEAN,
     todo: SUBSET Nat, pos: Seq(Nat), lists: Seq(ListRow), i: Nat \ {0},
     code: {"ok", "temp", "perm"}, live: BOOLEAN]

cur(s) == sess[s].lists[sess[s].i]
msg(s) == Msg[sess[s].mail]
item(s) == <<sess[s].mail, sess[s].pos[sess[s].i]>>

Fault == faults < MaxFaults /\ faults' = faults + 1
NoFault == UNCHANGED faults

(* Mutant: return nil.                                                     *)
AnswerNil(s, code) == sess' = [sess EXCEPT ![s].pc = "reply", ![s].code = "ok"]

(* return SMTPErrorf(...): the answer is for all recipients.               *)
Answer(s, code) == sess' = [sess EXCEPT ![s].pc = "reply", ![s].code = code]

GoTo(s, pc) == sess' = [sess EXCEPT ![s].pc = pc]

(* Mutants: counts down, serves a list again, skips a list.                *)
NextListBack(s) == sess' = [sess EXCEPT ![s].pc = "process", ![s].i = @ - 1]
NextListStays(s) == sess' = [sess EXCEPT ![s].pc = "process"]
NextListSkips(s) == sess' = [sess EXCEPT ![s].pc = "process", ![s].i = @ + 2]

NextList(s) == sess' = [sess EXCEPT ![s].pc = "process", ![s].i = @ + 1]

Handled(s) == copies' = [copies EXCEPT ![item(s)] = @ + 1]

(* MTA.Send.  sendmail refuses a mail without recipients; it may fail, or  *)
(* be killed by the timeout of ten seconds before or after it has queued   *)
(* the mail.  The caller sees ok, the mail system sees accepted.           *)
Send(to, ok, accepted) ==
    \/ to # {} /\ ok /\ accepted /\ NoFault
    \/ to # {} /\ ~ok /\ Fault
    \/ to = {} /\ ~ok /\ ~accepted /\ NoFault

-----------------------------------------------------------------------------
(* MAIL, RCPT, RSET *)

Delivering(t, m) == sess[t].live /\ sess[t].mail = m

Queued(m) == {k \in Pos(m) : fate[<<m, k>>] = "queued"}

(* The MTA begins a transaction, also on a session whose transaction it    *)
(* has not finished: Mail resets the session first, "just in case".        *)
Mail(s, m) ==
    /\ sess[s].pc \in {"idle", "rcpt"}
    /\ \A t \in Session : ~Delivering(t, m)
    /\ Queued(m) # {} /\ tries[m] < MaxTries
    /\ sess' = [sess EXCEPT ![s] =
                  [Idle EXCEPT !.pc = "rcpt", !.mail = m, !.isBounce = Msg[m].null,
                               !.todo = Queued(m), !.live = TRUE]]
    /\ tries' = [tries EXCEPT ![m] = @ + 1]
    /\ UNCHANGED <<tables, sentJoin, sentLeave, fate, copies, forwarded, history, bounds>>

Reset(s) ==
    /\ sess[s].pc = "rcpt"
    /\ sess' = [sess EXCEPT ![s] = Idle]
    /\ UNCHANGED <<tables, sentJoin, sentLeave, mta, copies, forwarded, history, bounds>>

Rcpt(s, k) ==
    LET r == msg(s).rcpts[k]
        kindOK == r.bounce = sess[s].isBounce
    IN
    /\ sess[s].pc = "rcpt" /\ k \in sess[s].todo
    /\ \/ /\ kindOK                                     \* accepted
          /\ \E l \in GetList(r.addr) :
                sess' = [sess EXCEPT ![s].todo = @ \ {k},
                                     ![s].lists = Append(@, l),
                                     ![s].pos = Append(@, k)]
          /\ NoFault /\ UNCHANGED fate
       \/ /\ ~kindOK \/ GetList(r.addr) = {}            \* 541, 550
          /\ sess' = [sess EXCEPT ![s].todo = @ \ {k}]
          /\ fate' = [fate EXCEPT ![<<sess[s].mail, k>>] = "bounced"]
          /\ NoFault
       \/ /\ kindOK /\ Fault                            \* 451
          /\ sess' = [sess EXCEPT ![s].todo = @ \ {k}]
          /\ UNCHANGED fate
    /\ UNCHANGED <<tables, sentJoin, sentLeave, tries, copies, forwarded, history, adminOps>>

-----------------------------------------------------------------------------
(* DATA: the checks before any list is served *)

NotInToOrCc(s) ==
    ~sess[s].isBounce /\ \E l \in Range(sess[s].lists) : l.addr \notin msg(s).to

(* Mutant: looks at the first list only.                                   *)
LoopOfFirst(s) == sess[s].lists # <<>> /\ Head(sess[s].lists).addr \in msg(s).listIds

Loop(s) == \E l \in Range(sess[s].lists) : l.addr \in msg(s).listIds

Refused(s) ==
    \/ sess[s].lists = <<>>
    \/ ~sess[s].isBounce /\ "to" \in msg(s).bad
    \/ NotInToOrCc(s)
    \/ "listId" \in msg(s).bad
    \/ Loop(s)

Data(s) ==
    /\ sess[s].pc = "rcpt" /\ sess[s].todo = {}
    /\ \/ "message" \in msg(s).bad /\ sess[s].lists # <<>> /\ Answer(s, "temp") /\ NoFault
       \/ Fault /\ sess[s].lists # <<>> /\ Answer(s, "temp")     \* reading fails
       \/ /\ "message" \notin msg(s).bad \/ sess[s].lists = <<>>
          /\ IF Refused(s) THEN Answer(s, "perm") ELSE GoTo(s, "process")
          /\ NoFault
    /\ UNCHANGED <<tables, sentJoin, sentLeave, mta, copies, forwarded, history, adminOps>>

-----------------------------------------------------------------------------
(* DATA: one list after the other *)

(* Mutant: stops before the last list.                                     *)
ServingButLast(s) == sess[s].pc = "process" /\ sess[s].i < Len(sess[s].lists)

Serving(s) == sess[s].pc = "process" /\ sess[s].i <= Len(sess[s].lists)

(* A bounce goes to those who are notified of bounces; that it could not   *)
(* be sent is only logged.                                                 *)
Bounce(s) ==
    /\ Serving(s) /\ sess[s].isBounce
    /\ \/ Fault /\ Answer(s, "temp") /\ UNCHANGED copies
       \/ \E ok, accepted \in BOOLEAN :
             /\ Send(BounceNotifieds(cur(s)), ok, accepted)
             /\ IF accepted THEN Handled(s) ELSE UNCHANGED copies
             /\ NextList(s)
    /\ UNCHANGED <<tables, sentJoin, sentLeave, mta, forwarded, history, adminOps>>

IsCommand(s) == ~sess[s].isBounce /\ msg(s).subject \in {"join", "leave"}

(* One From address, and a Sender, if there is one, that is not the same.  *)
(* (The message says "differ", the condition is Equals.)                   *)
Personal(s) ==
    /\ "from" \notin msg(s).bad
    /\ \E a \in msg(s).from : msg(s).from = {a}
    /\ msg(s).sender \notin msg(s).from

(* GetMembership: the sender is not yet, or still, what a join or a leave  *)
(* asks to change.                                                         *)
Asks(s, a) == IsMember(cur(s), a) <=> msg(s).subject = "leave"

(* The rate limit: a second request is refused as long as the process      *)
(* runs, as the entry never counts as old.                                 *)
Limited(s, a) ==
    <<a, cur(s).addr>> \in (IF msg(s).subject = "join" THEN sentJoin ELSE sentLeave)

(* The first look at the membership, and the rate limit, with which        *)
(* SendJoinCheckback and SendLeaveCheckback begin.                         *)
Command(s) ==
    /\ Serving(s) /\ IsCommand(s)
    /\ \/ ~Personal(s) /\ Answer(s, "perm") /\ NoFault
       \/ Personal(s) /\ Fault /\ Answer(s, "temp")
       \/ /\ Personal(s) /\ NoFault
          /\ \E a \in msg(s).from :
                LET valid == Asks(s, a) /\ (msg(s).subject = "join" => cur(s).set.publicSignup)
                IN  \/ ~valid /\ Answer(s, "perm")
                    \/ valid /\ Limited(s, a) /\ Answer(s, "temp")
                    \/ valid /\ ~Limited(s, a) /\ GoTo(s, "checkback")
    /\ UNCHANGED <<tables, sentJoin, sentLeave, mta, copies, forwarded, history, adminOps>>

(* sentJoinCheckbacks[...] = now, sentLeaveCheckbacks[...] = now           *)
Record(s, a) ==
    LET entry(subject) == IF msg(s).subject = subject THEN {<<a, cur(s).addr>>} ELSE {}
    IN  /\ sentJoin' = sentJoin \cup entry("join")
        /\ sentLeave' = sentLeave \cup entry("leave")

(* Mutant: the errors of sendmail are not looked at.                       *)
CheckbackUnchecked(s) ==
    /\ sess[s].pc = "checkback" /\ NextList(s)
    /\ \E a \in msg(s).from, ok, accepted \in BOOLEAN :
          /\ Send({a}, ok, accepted)
          /\ IF accepted THEN Handled(s) ELSE UNCHANGED copies
    /\ UNCHANGED <<tables, mta, sentJoin, sentLeave, forwarded, history, adminOps>>

(* The second look: if somebody has changed the membership meanwhile there *)
(* is nothing to do, and that is no error.  Otherwise a link is mailed.    *)
Checkback(s) ==
    /\ sess[s].pc = "checkback"
    /\ \/ Fault /\ Answer(s, "temp") /\ UNCHANGED <<copies, sentJoin, sentLeave>>
       \/ \E a \in msg(s).from :
             \/ /\ ~Asks(s, a) /\ NextList(s) /\ NoFault
                /\ UNCHANGED <<copies, sentJoin, sentLeave>>
             \/ /\ Asks(s, a)
                /\ \E ok, accepted \in BOOLEAN :
                      /\ Send({a}, ok, accepted)
                      /\ IF accepted THEN Handled(s) ELSE UNCHANGED copies
                      /\ IF ok THEN NextList(s) /\ Record(s, a)
                               ELSE Answer(s, "temp") /\ UNCHANGED <<sentJoin, sentLeave>>
    /\ UNCHANGED <<tables, mta, forwarded, history, adminOps>>

(* Mutant: takes the best action of the list for everybody.                *)
GetActionForAll(l, froms, spam) == Max({l.set.action[st] : st \in Status})

(* The highest action any From address is entitled to; spam never passes.  *)
GetAction(l, froms, spam) ==
    LET best == Max({l.set.action["Unknown"]} \cup
                    UNION {{l.set.action[st] : st \in GetRoles(l, a)} : a \in froms})
    IN  IF best = Pass /\ spam THEN Mod ELSE best

Decide(s) ==
    /\ Serving(s) /\ ~sess[s].isBounce /\ ~IsCommand(s)
    /\ LET fromsOK == "from" \notin msg(s).bad /\ msg(s).from # {}
           action == GetAction(cur(s), msg(s).from, msg(s).spam)
       IN  \/ ~fromsOK /\ Answer(s, "perm") /\ NoFault
           \/ fromsOK /\ Fault /\ Answer(s, "temp")
           \/ fromsOK /\ action = Reject /\ Answer(s, "perm") /\ NoFault
           \/ fromsOK /\ action = Pass /\ GoTo(s, "forward") /\ NoFault
           \/ fromsOK /\ action = Mod /\ GoTo(s, "save") /\ NoFault
    /\ UNCHANGED <<tables, sentJoin, sentLeave, mta, copies, forwarded, history, adminOps>>

(* InsertFooter fails on a body that is not the MIME it says it is.        *)
Forward(s) ==
    /\ sess[s].pc = "forward"
    /\ \/ /\ "mime" \in msg(s).bad /\ NoFault /\ Answer(s, "temp")
          /\ UNCHANGED <<copies, forwarded>>
       \/ /\ "mime" \notin msg(s).bad /\ Fault /\ Answer(s, "temp")      \* Receivers
          /\ UNCHANGED <<copies, forwarded>>
       \/ /\ "mime" \notin msg(s).bad
          /\ \E ok, accepted \in BOOLEAN :
                /\ Send(Receivers(cur(s)), ok, accepted)
                /\ IF accepted
                   THEN /\ Handled(s)
                        /\ forwarded' = forwarded \cup
                             {[mail |-> sess[s].mail, id |-> cur(s).id, addr |-> cur(s).addr,
                               to |-> Receivers(cur(s))]}
                   ELSE UNCHANGED <<copies, forwarded>>
                /\ IF ok THEN NextList(s) ELSE Answer(s, "temp")
    /\ UNCHANGED <<tables, sentJoin, sentLeave, mta, history, adminOps>>

Save(s) ==
    /\ sess[s].pc = "save"
    /\ \/ Fault /\ Answer(s, "temp") /\ UNCHANGED copies
       \/ NoFault /\ Handled(s) /\ GoTo(s, "notify")
    /\ UNCHANGED <<tables, sentJoin, sentLeave, mta, forwarded, history, adminOps>>

(* The mail is saved already when reading the Notifieds fails.  Errors of  *)
(* NotifyMods itself are only logged.                                      *)
NotifyMods(s) ==
    /\ sess[s].pc = "notify"
    /\ \/ Fault /\ Answer(s, "temp")
       \/ NoFault /\ NextList(s)
    /\ UNCHANGED <<tables, sentJoin, sentLeave, mta, copies, forwarded, history, adminOps>>

(* Mutant: data() returns the error of the last list's notification.       *)
FinishWithError(s) ==
    /\ sess[s].pc = "process" /\ sess[s].i > Len(sess[s].lists)
    /\ Answer(s, "temp")
    /\ UNCHANGED <<tables, sentJoin, sentLeave, mta, copies, forwarded, history, bounds>>

(* data() returns nil.                                                     *)
Finish(s) ==
    /\ sess[s].pc = "process" /\ sess[s].i > Len(sess[s].lists)
    /\ Answer(s, "ok")
    /\ UNCHANGED <<tables, sentJoin, sentLeave, mta, copies, forwarded, history, bounds>>

(* One answer settles every recipient of the transaction.                  *)
Reply(s) ==
    /\ sess[s].pc = "reply"
    /\ fate' = IF sess[s].live /\ sess[s].code # "temp"
               THEN [x \in Item |->
                       IF x[1] = sess[s].mail /\ x[2] \in Range(sess[s].pos)
                       THEN IF sess[s].code = "ok" THEN "delivered" ELSE "bounced"
                       ELSE fate[x]]
               ELSE fate
    /\ sess' = [sess EXCEPT ![s] = Idle]
    /\ UNCHANGED <<tables, sentJoin, sentLeave, tries, copies, forwarded, history, bounds>>

-----------------------------------------------------------------------------
(* The MTA, crashes, administrators *)

(* Somebody sends a mail; the MTA queues it.                               *)
Submit(m) ==
    /\ Cardinality({n \in Mails : \E x \in ItemsOf(n) : fate[x] # "new"}) < MaxMails
    /\ \A x \in ItemsOf(m) : fate[x] = "new"
    /\ fate' = [x \in Item |-> IF x[1] = m THEN "queued" ELSE fate[x]]
    /\ UNCHANGED <<tables, memory, tries, copies, forwarded, history, bounds>>

(* The connection breaks, or the MTA stops waiting for the answer.  Nobody *)
(* tells the goroutine in data(): it goes on with the mail.                *)
Hangup(s) ==
    /\ sess[s].live /\ Fault
    /\ sess' = [sess EXCEPT ![s] = IF @.pc = "rcpt" THEN Idle ELSE [@ EXCEPT !.live = FALSE]]
    /\ UNCHANGED <<tables, sentJoin, sentLeave, mta, copies, forwarded, history, adminOps>>

(* The process dies and is started again.                                  *)
Crash ==
    /\ Fault
    /\ sess' = [s \in Session |-> Idle]
    /\ sentJoin' = {} /\ sentLeave' = {}
    /\ UNCHANGED <<tables, mta, copies, forwarded, history, adminOps>>

(* The queue lifetime is over: the MTA returns the mail to its sender.     *)
Expire(m) ==
    /\ tries[m] = MaxTries /\ Queued(m) # {}
    /\ \A t \in Session : ~Delivering(t, m)
    /\ fate' = [x \in Item |-> IF x[1] = m /\ fate[x] = "queued" THEN "bounced" ELSE fate[x]]
    /\ UNCHANGED <<tables, memory, tries, copies, forwarded, history, bounds>>

RolesNow == UNION {{<<l.addr, a, st>> : st \in GetRoles(l, a)} : l \in list, a \in Address}
PassNow == UNION {{<<l.addr, st>> : st \in {x \in Status : l.set.action[x] = Pass}} : l \in list}
ReceiversNow ==
    UNION {{<<l.id, l.addr, m.address>> : m \in {r \in member : r.list = l.id /\ r.role["receive"]}} : l \in list}
MembersNow == {<<m.list, m.address>> : m \in member}

(* The mails for which a session works for a list with this address.       *)
InHand(addr) ==
    {sess[s].mail : s \in {t \in Session : /\ sess[t].pc # "idle"
                                           /\ \E l \in Range(sess[t].lists) : l.addr = addr}}

(* The web interface changes the database between two steps of a session.  *)
Admin ==
    /\ adminOps < MaxAdminOps /\ adminOps' = adminOps + 1
    /\ \/ /\ \/ \E a \in ListAddr : Create(a)
             \/ \E l \in list :
                   \/ \E set \in SettingsChoice : Update(l, set)
                   \/ \E a \in Address, role \in RoleChoice :
                         AddMembers(l, {a}, role) \/ UpdateMember(l, a, role)
                   \/ \E a \in Address :
                         RemoveMembers(l, {a}) \/ AddKnowns(l, {a}) \/ RemoveKnowns(l, {a})
          /\ UNCHANGED deletedInHand
       \/ \E l \in list :
             Delete(l) /\ deletedInHand' = deletedInHand \cup (InHand(l.addr) \X {l.addr})
    /\ everRole' = everRole \cup RolesNow'
    /\ everPass' = everPass \cup PassNow'
    /\ everReceiver' = everReceiver \cup ReceiversNow'
    /\ overtaken' = overtaken \cup
          {item(s) : s \in {t \in Session : sess[t].pc = "checkback" /\ \E a \in msg(t).from :
                              <<cur(t).id, a>> \in (MembersNow \ MembersNow') \cup (MembersNow' \ MembersNow)}}
    /\ UNCHANGED <<memory, mta, copies, forwarded, faults>>

-----------------------------------------------------------------------------
Init ==
    /\ list = InitList /\ member = InitMember /\ known = InitKnown
    /\ sess = [s \in Session |-> Idle]
    /\ sentJoin = {} /\ sentLeave = {}
    /\ fate = [x \in Item |-> "new"]
    /\ tries = [m \in Mails |-> 0]
    /\ copies = [x \in Item |-> 0]
    /\ forwarded = {}
    /\ everRole = RolesNow /\ everPass = PassNow /\ everReceiver = ReceiversNow
    /\ deletedInHand = {} /\ overtaken = {}
    /\ faults = 0 /\ adminOps = 0

(* The steps of the goroutine that serves a connection, and of its client. *)
Step(s) ==
    \/ \E k \in sess[s].todo : Rcpt(s, k)
    \/ Data(s) \/ Bounce(s) \/ Command(s) \/ Checkback(s) \/ Decide(s) \/ Forward(s)
    \/ Save(s) \/ NotifyMods(s) \/ Finish(s) \/ Reply(s)

Next ==
    \/ \E s \in Session, m \in Mails : Mail(s, m)
    \/ \E s \in Session : Step(s) \/ Reset(s) \/ Hangup(s)
    \/ \E m \in Mails : Submit(m) \/ Expire(m)
    \/ Crash \/ Admin

Spec == Init /\ [][Next]_vars

(* A goroutine runs on until it has answered; the MTA comes back for a     *)
(* queued mail until it expires it.  Nothing forces faults, administrators *)
(* or an early end of a transaction.                                       *)
Fairness ==
    /\ \A s \in Session : WF_vars(Step(s))
    /\ \A m \in Mails : WF_vars(\E s \in Session : Mail(s, m)) /\ WF_vars(Expire(m))

FairSpec == Spec /\ Fairness

-----------------------------------------------------------------------------
(* Types and bookkeeping of all variables.                                 *)
TypeOK ==
    /\ RepoTypeOK
    /\ sess \in [Session -> SessionState]
    /\ sentJoin \subseteq Address \X ListAddr
    /\ sentLeave \subseteq Address \X ListAddr
    /\ fate \in [Item -> {"new", "queued", "delivered", "bounced"}]
    /\ tries \in [Mails -> Nat]
    /\ copies \in [Item -> Nat]
    /\ forwarded \subseteq [mail: Mails, id: Id, addr: ListAddr, to: SUBSET Address]
    /\ everRole \subseteq ListAddr \X Address \X Status
    /\ everPass \subseteq ListAddr \X Status
    /\ everReceiver \subseteq Id \X ListAddr \X Address
    /\ deletedInHand \subseteq Mails \X ListAddr
    /\ overtaken \subseteq Item
    /\ faults \in Nat /\ adminOps \in Nat

(* What the sessions know about the work that is behind them, the reason   *)
(* why the invariants below hold.  In order: a session works on a mail; a  *)
(* step of the loop has a list; every list in hand is what a recipient of  *)
(* the mail names, and of the kind the session is for; once the loop runs, *)
(* the header checks hold for all of its lists; Forward has been chosen    *)
(* only for a mail that may pass, Checkback only for a command; the lists  *)
(* before the current one are done with: served, or an administrator has   *)
(* overtaken the command; and "ok" is answered when all are.               *)
GoodSession(S, done) ==
    /\ S.pc # "idle" => /\ S.mail \in Mails /\ S.isBounce = Msg[S.mail].null
                        /\ S.todo \subseteq Pos(S.mail)
    /\ S.pc = "rcpt" => S.i = 1
    /\ S.pc \in {"checkback", "forward", "save", "notify"} => S.i <= Len(S.lists) /\ ~S.isBounce
    /\ Len(S.pos) = Len(S.lists)
    /\ S.pc # "idle" => \A j \in DOMAIN S.lists :
          /\ S.pos[j] \in Pos(S.mail)
          /\ Msg[S.mail].rcpts[S.pos[j]] = [addr |-> S.lists[j].addr, bounce |-> S.isBounce]
    /\ S.pc \in {"process", "checkback", "forward", "save", "notify"} => \A j \in DOMAIN S.lists :
          /\ S.isBounce \/ S.lists[j].addr \in Msg[S.mail].to
          /\ S.lists[j].addr \notin Msg[S.mail].listIds
    /\ S.pc = "forward" => ~Msg[S.mail].spam /\ Msg[S.mail].subject = "other"
    /\ S.pc = "checkback" => Msg[S.mail].subject \in {"join", "leave"}
    /\ S.pc # "idle" => \A j \in DOMAIN S.lists :
          j < S.i \/ (j = S.i /\ S.pc = "notify") => <<S.mail, S.pos[j]>> \in done \/ S.isBounce
    /\ S.pc = "reply" /\ S.code = "ok" => S.i > Len(S.lists)

(* Between the two looks at the membership, a command asks for a change    *)
(* that is still to be made, unless somebody has made it meanwhile.        *)
StillAsked(S) ==
    S.pc = "checkback" =>
       \/ <<S.mail, S.pos[S.i]>> \in overtaken
       \/ \A a \in Msg[S.mail].from :
             IsMember(S.lists[S.i], a) <=> Msg[S.mail].subject = "leave"

Done == {x \in Item : copies[x] > 0} \cup overtaken

SessionInv == \A s \in Session : GoodSession(sess[s], Done) /\ StillAsked(sess[s])

(* No mail is lost: when the MTA has been told that a mail was delivered   *)
(* to a list, data() has forwarded it, saved it for a moderator or         *)
(* answered its command.  Only a bounce notification may be dropped, and a *)
(* command if an administrator changed the membership that it is about     *)
(* between the two looks that data() takes at it: "ok" without a mail, as  *)
(* there may be nothing left to do.                                        *)
AcceptedMeansHandled ==
    \A x \in Item : fate[x] = "delivered" => \/ copies[x] > 0
                                             \/ Msg[x[1]].null
                                             \/ x \in overtaken

(* A mail is multiplied by retries only: within one transaction data()     *)
(* serves every recipient once, and nothing else serves it again.          *)
OncePerTry == \A x \in Item : copies[x] <= tries[x[1]]

(* What data() hands to the receivers of a list is a mail that was sent to *)
(* that list, names it in To or Cc, did not come from it, is no bounce and *)
(* no spam - also when the session was used for another mail before.       *)
OnlyFitForwarded ==
    \A f \in forwarded :
       LET m == Msg[f.mail] IN
       /\ \E k \in Pos(f.mail) : m.rcpts[k].addr = f.addr /\ ~m.rcpts[k].bounce
       /\ f.addr \in m.to /\ f.addr \notin m.listIds
       /\ ~m.null /\ ~m.spam /\ m.subject = "other"

(* Only a sender who once had a status that once passed on that list gets  *)
(* a mail through without a moderator.  (At one and the same time would be *)
(* too much to ask: data() uses the settings it loaded at RCPT together    *)
(* with the roles it reads later.)  The exception is a list deleted while  *)
(* the session had it in hand: its id may now be another list's.           *)
ForwardJustified ==
    \A f \in forwarded :
       \/ <<f.mail, f.addr>> \in deletedInHand
       \/ \E st \in Status :
             /\ <<f.addr, st>> \in everPass
             /\ st = "Unknown" \/ \E a \in Msg[f.mail].from : <<f.addr, a, st>> \in everRole

(* A mail goes only to people who have received mail of its list, as       *)
(* members with that role, although they are looked up by the id of a list *)
(* loaded at RCPT.  If the list was deleted in between, and then only, the *)
(* mail may go to those who receive from the list that has the id now.     *)
ReceiversAreMembers ==
    \A f \in forwarded : \A a \in f.to :
       \/ <<f.id, f.addr, a>> \in everReceiver
       \/ /\ <<f.mail, f.addr>> \in deletedInHand
          /\ \E b \in ListAddr \ {f.addr} : <<f.id, b, a>> \in everReceiver

(* Every mail leaves the queue of the MTA.                                 *)
EveryMailSettles == \A x \in Item : (fate[x] = "queued") ~> (fate[x] # "queued")

(* The sender of a mail to one list is told that it could not be delivered *)
(* only if it was not, unless a call failed after the list had been served *)
(* or the client did not wait.  (With several lists in a transaction the   *)
(* answer of one is the answer for all.)                                   *)
NoFalseBounce ==
    \A x \in Item :
       fate[x] = "bounced" /\ copies[x] > 0 => faults > 0 \/ Len(Msg[x[1]].rcpts) > 1

(* The queue of the MTA, as promised: see AtLeastOnce.                     *)
Promise ==
    INSTANCE AtLeastOnce WITH BestEffort <- {m \in Mails : Msg[m].null},
                              Commands <- {m \in Mails : Msg[m].subject \in {"join", "leave"}}

ImplementsPromise == Promise!Spec
=============================================================================
