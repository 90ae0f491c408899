------------------------------ MODULE Checkback ------------------------------
(***************************************************************************)
(* How people join and leave a list - ask, checkback (a mail with a link), *)
(* confirm (click the link), sign off - and how administrators change it.  *)
(* The requests run concurrently, as web handlers or LMTP transactions,    *)
(* share the rate limit maps and the database, and write what they did to  *)
(* the GDPR log afterwards.                                                *)
(*                                                                         *)
(* A link is an HMAC over the list, an address and a time, with a secret   *)
(* that every list is given when it is created.  It does not say whether   *)
(* it was made for joining or for leaving, and can be used again as long   *)
(* as it has not expired.                                                  *)
(***************************************************************************)
EXTENDS ListRepo, Functions

CONSTANTS
    Request,        \* handlers that may run at the same time
    Superadmin,     \* the user who administrates every list
    InitList,
    RoleChoice,     \* roles an administrator may give
    SettingsChoice, \* settings an administrator may choose
    Week,           \* seven days: the rate limit and the validity of a link
    MaxDay,         \* bound: days
    Limits          \* the first members and the bounds, chosen for a behaviour: whether
                    \* checkbacks are mailed (or users have links at once), days, failing
                    \* calls and crashes, requests of administrators

None == "none"

ASSUME WeekAssumption == Week \in Nat \ {0}
ASSUME MaxDayAssumption == MaxDay \in Nat
ASSUME InitAssumption == InitList \subseteq ListRow
ASSUME ChoiceAssumption == RoleChoice \subseteq Role /\ SettingsChoice \subseteq Settings
ASSUME SuperadminAssumption == Superadmin \notin Address
ASSUME UserAssumption == {"user", None} \cap (Person \cup {Superadmin}) = {}
ASSUME LimitsAssumption ==
    \A b \in Limits : /\ b.members \subseteq MemberRow
                      /\ \A m \in b.members : \E l \in InitList : l.id = m.list
                      /\ UniqueIn(InitList, b.members)
                      /\ b.mails \in BOOLEAN /\ b.days \in 0..MaxDay
                      /\ b.faults \in Nat /\ b.adminOps \in Nat

Kind == {"join", "leave"}
AdminKind == {"member", "settings", "delete", "create"}
Key  == [kind: Kind, addr: Person, list: ListAddr]
Link == [addr: Person, list: ListAddr, key: Nat, day: 0..MaxDay]

VARIABLES
    now,        \* the day
    hmacKey,    \* the secrets of the lists, by id: a number, never given twice
    req,        \* the state of every request
    lastSent,   \* sentJoinCheckbacks and sentLeaveCheckbacks: a set of [key, day]
    links,      \* the links people have been given
    gdpr,       \* the last entry of the GDPR log about an address and a list,
                \* since the list was created
    admitted,   \* history: who was let in by an administrator, or asked while signup was
                \* public, by list address
    granted,    \* history: who was given roles by an administrator, by list address
    mailed,     \* history: checkback mails, as [key, day]
    early,      \* history: keys mailed again within a week
    overlap,    \* history: keys on which two requests worked at one time
    crossed,    \* history: addresses with two changes waiting to be logged
    stale,      \* history: addresses changed or logged by a request for a deleted list
    faults, adminOps,
    limit       \* the bounds of this behaviour

database == <<tables, hmacKey>>
letIn    == <<admitted, granted>>
asked    == <<mailed, early, overlap>>
missed   == <<crossed, stale>>
history  == <<letIn, asked, missed>>
bounds   == <<faults, adminOps, limit>>
vars     == <<database, now, req, lastSent, links, gdpr, history, bounds>>

NoRow == [id |-> 0, addr |-> None]
NoReq == [pc |-> "idle", kind |-> None, l |-> NoRow, key |-> 0, addr |-> None, by |-> None,
          met |-> FALSE]

PC == {"idle", "rate", "lookup", "mail", "record", "check", "commit", "log", "refused",
       "auth", "create", "reload"}

Fault == faults < limit.faults /\ faults' = faults + 1 /\ UNCHANGED <<adminOps, limit>>
NoFault == UNCHANGED bounds

(* A handler begins with the row of a list that it has loaded.             *)
Start(h, pc, kind, l, a, by) ==
    /\ req[h].pc = "idle"
    /\ req' = [req EXCEPT ![h] = [pc |-> pc, kind |-> kind, l |-> l, key |-> hmacKey[l.id],
                                  addr |-> a, by |-> by, met |-> FALSE]]

GoTo(h, pc) == req' = [req EXCEPT ![h].pc = pc]
Done(h) == req' = [req EXCEPT ![h] = NoReq]

key(h) == [kind |-> req[h].kind, addr |-> req[h].addr, list |-> req[h].l.addr]

(* The list that a handler has loaded has not been deleted since.          *)
Current(h) ==
    \E l \in list : l.id = req[h].l.id /\ hmacKey[l.id] = req[h].key

-----------------------------------------------------------------------------
(* Ask *)

(* Signup is public now, and a asks to join.                               *)
Welcome(l, a, kind) == IF kind = "join" /\ l.set.publicSignup THEN {<<l.addr, a>>} ELSE {}

(* Mutant: signup is always public.                                        *)
AskAlways(h, a, kind) ==
    /\ limit.mails
    /\ \E l \in list :
          Start(h, "rate", kind, l, a, "user") /\ admitted' = admitted \cup Welcome(l, a, kind)
    /\ UNCHANGED <<database, now, lastSent, links, gdpr, granted, asked, missed, bounds>>

(* askJoin, askLeave, and the join and leave mails of lmtp.go.  Whether    *)
(* the list is public is looked up once, when the list is loaded.          *)
Ask(h, a, kind) ==
    /\ limit.mails
    /\ \E l \in list :
          /\ kind = "join" => l.set.publicSignup
          /\ Start(h, "rate", kind, l, a, "user")
          /\ admitted' = admitted \cup Welcome(l, a, kind)
    /\ UNCHANGED <<database, now, lastSent, links, gdpr, granted, asked, missed, bounds>>

LinkTo(l, k, a) == [addr |-> a, list |-> l.addr, key |-> k, day |-> now]

(* A logged-in user gets the link at once, without mail and rate limit.    *)
OwnLink(a, kind) ==
    /\ \E l \in list :
          /\ IF kind = "join" THEN l.set.publicSignup ELSE IsMember(l, a)
          /\ links' = links \cup {LinkTo(l, hmacKey[l.id], a)}
          /\ admitted' = admitted \cup Welcome(l, a, kind)
    /\ UNCHANGED <<database, now, req, lastSent, gdpr, granted, asked, missed, bounds>>

(* SendJoinCheckback, SendLeaveCheckback, in three steps.                  *)
RateLimit(h) ==
    /\ req[h].pc = "rate"
    /\ GoTo(h, IF \E e \in lastSent : e.key = key(h) /\ e.day < now + Week
               THEN "refused" ELSE "lookup")
    /\ overlap' = IF \E g \in Request \ {h} :
                        req[g].pc \in {"lookup", "mail", "record"} /\ key(g) = key(h)
                  THEN overlap \cup {key(h)} ELSE overlap
    /\ UNCHANGED <<database, now, lastSent, links, gdpr, letIn, mailed, early, missed, bounds>>

(* Nothing is sent, and no error shown, if there is nothing to do.         *)
Lookup(h) ==
    /\ req[h].pc = "lookup"
    /\ \/ /\ NoFault
          /\ IF IsMember(req[h].l, req[h].addr) = (req[h].kind = "leave")
             THEN GoTo(h, "mail") ELSE Done(h)
       \/ Fault /\ Done(h)
    /\ UNCHANGED <<database, now, lastSent, links, gdpr, history>>

SendLink(h) ==
    LET Mailed ==
            /\ links' = links \cup {LinkTo(req[h].l, req[h].key, req[h].addr)}
            /\ mailed' = mailed \cup {[key |-> key(h), day |-> now]}
            /\ early' = IF \E e \in mailed : e.key = key(h) /\ now < e.day + Week
                        THEN early \cup {key(h)} ELSE early
    IN
    /\ req[h].pc = "mail"
    /\ \/ NoFault /\ Mailed /\ GoTo(h, "record")
       \/ Fault /\ (Mailed \/ UNCHANGED <<links, mailed, early>>) /\ Done(h)
    /\ UNCHANGED <<database, now, lastSent, gdpr, letIn, overlap, missed>>

(* Mutant: forgets when the mail was sent.                                 *)
RecordNothing(h) ==
    /\ req[h].pc = "record" /\ Done(h)
    /\ UNCHANGED <<database, now, lastSent, links, gdpr, history, bounds>>

Record(h) ==
    /\ req[h].pc = "record"
    /\ lastSent' = {e \in lastSent : e.key # key(h)} \cup {[key |-> key(h), day |-> now]}
    /\ Done(h)
    /\ UNCHANGED <<database, now, links, gdpr, history, bounds>>

(* The message "requests can be sent every seven days only".               *)
Refuse(h) ==
    /\ req[h].pc = "refused" /\ Done(h)
    /\ UNCHANGED <<database, now, lastSent, links, gdpr, history, bounds>>

-----------------------------------------------------------------------------
(* Confirm *)

(* Mutant: goes on with a list that was not found.                         *)
ConfirmUnknown(h, k, kind) ==
    /\ k.day >= now - Week /\ Start(h, "check", kind, NoRow, k.addr, "user")
    /\ UNCHANGED <<database, now, lastSent, links, gdpr, history, bounds>>

(* ValidateHMAC: any link for this list and address that is young enough.  *)
Confirm(h, k, kind) ==
    /\ k.day >= now - Week
    /\ \E l \in GetList(k.list) :
          k.key = hmacKey[l.id] /\ Start(h, "check", kind, l, k.addr, "user")
    /\ UNCHANGED <<database, now, lastSent, links, gdpr, history, bounds>>

(* leave: a logged-in user who is a member needs no link.                  *)
Leave(h, a) ==
    /\ \E l \in list : Start(h, "check", "leave", l, a, "user")
    /\ UNCHANGED <<database, now, lastSent, links, gdpr, history, bounds>>

(* Mutant: only those who leave have to be members.                        *)
CheckLeave(h) ==
    /\ req[h].pc = "check" /\ NoFault
    /\ IF req[h].kind = "join" \/ IsMember(req[h].l, req[h].addr)
       THEN GoTo(h, "commit") ELSE Done(h)
    /\ UNCHANGED <<database, now, lastSent, links, gdpr, history>>

(* "non-members only", "members only", "this person is not a member"       *)
Check(h) ==
    /\ req[h].pc = "check"
    /\ \/ /\ NoFault
          /\ IF IsMember(req[h].l, req[h].addr) = (req[h].kind # "join")
             THEN GoTo(h, "commit") ELSE Done(h)
       \/ Fault /\ Done(h)
    /\ UNCHANGED <<database, now, lastSent, links, gdpr, history>>

-----------------------------------------------------------------------------
(* Administrators *)

AdminOp == adminOps < limit.adminOps /\ adminOps' = adminOps + 1 /\ UNCHANGED <<faults, limit>>

(* membersAddStagingPost, membersRemoveStagingPost, member, settings and   *)
(* delete: a form for a list, and for a person if it is about one.         *)
Administrate(h, u, kind, a) ==
    /\ AdminOp
    /\ (a = None) = (kind \in {"settings", "delete"})
    /\ \E l \in list : Start(h, "auth", kind, l, a, u)
    /\ UNCHANGED <<database, now, lastSent, links, gdpr, history>>

(* requireAdminPermission.  Then the stage "checkback", "signoff" or       *)
(* "silent", the latter without a membership check; or the change.         *)
Authorize(h) ==
    LET r == req[h] IN
    /\ r.pc = "auth"
    /\ \/ /\ NoFault
          /\ IF r.by = Superadmin \/ \E m \in Rows(r.l, r.by) : m.role.admin
             THEN /\ \/ r.kind \in Kind /\ limit.mails /\ GoTo(h, "rate")
                     \/ r.kind = "member" /\ GoTo(h, "check")
                     \/ r.kind # "member" /\ GoTo(h, "commit")
                  /\ admitted' = IF r.kind = "join" /\ Current(h)
                                 THEN admitted \cup {<<r.l.addr, r.addr>>} ELSE admitted
             ELSE Done(h) /\ UNCHANGED admitted
       \/ Fault /\ r.by # Superadmin /\ Done(h) /\ UNCHANGED admitted
    /\ UNCHANGED <<database, now, lastSent, links, gdpr, granted, asked, missed>>

(* CreateList: insert the list, load it, and add an administrator if one   *)
(* is given.                                                               *)
CreateList(h, x, a) ==
    /\ AdminOp
    /\ Start(h, "create", "create", [NoRow EXCEPT !.addr = x], a, Superadmin)
    /\ UNCHANGED <<database, now, lastSent, links, gdpr, history>>

Insert(h) ==
    /\ req[h].pc = "create"
    /\ \/ /\ NoFault /\ Create(req[h].l.addr) /\ GoTo(h, "reload")
          /\ hmacKey' = [hmacKey EXCEPT ![NextId] = 1 + Max(Range(hmacKey))]
       \/ /\ NoFault /\ GetList(req[h].l.addr) # {} /\ Done(h) /\ UNCHANGED database
       \/ Fault /\ Done(h) /\ UNCHANGED database
    /\ UNCHANGED <<now, lastSent, links, gdpr, history>>

Reload(h) ==
    /\ req[h].pc = "reload"
    /\ \/ /\ NoFault /\ req[h].addr # None
          /\ \E l \in GetList(req[h].l.addr) :
                req' = [req EXCEPT ![h] = [@ EXCEPT !.pc = "commit", !.l = l, !.key = hmacKey[l.id]]]
       \/ NoFault /\ (req[h].addr = None \/ GetList(req[h].l.addr) = {}) /\ Done(h)
       \/ Fault /\ Done(h)
    /\ UNCHANGED <<database, now, lastSent, links, gdpr, history>>

-----------------------------------------------------------------------------
(* Change, and write to the log *)

Logging(g, a) == req[g].pc = "log" /\ req[g].addr = a

Deleted(h) == {l.addr : l \in {r \in list : req[h].kind = "delete" /\ r.id = req[h].l.id}}

Outside(pairs, lists) == {x \in pairs : x[1] \notin lists}

(* The transaction, of one of the functions of the list database.          *)
Change(h) ==
    LET r == req[h] IN
    \/ r.kind = "join"     /\ AddMembers(r.l, {r.addr}, Receiver)
    \/ r.kind = "leave"    /\ RemoveMembers(r.l, {r.addr})
    \/ r.kind = "create"   /\ AddMembers(r.l, {r.addr}, AllRoles)
    \/ r.kind = "member"   /\ \E role \in RoleChoice : UpdateMember(r.l, r.addr, role)
    \/ r.kind = "settings" /\ \E set \in SettingsChoice : Update(r.l, set)
    \/ r.kind = "delete"   /\ Delete(r.l)

Remember(h) ==
    LET r    == req[h]
        to   == IF Current(h) THEN {<<r.l.addr, r.addr>>} ELSE {}
        gone == Deleted(h)
    IN
    /\ admitted' = Outside(admitted, gone) \cup (IF r.kind = "create" THEN to ELSE {})
    /\ granted' = Outside(granted, gone) \cup (IF r.kind \in {"create", "member"} THEN to ELSE {})
    /\ gdpr' = [x \in DOMAIN gdpr |-> IF x[1] \in gone THEN "none" ELSE gdpr[x]]
    /\ crossed' = IF \E g \in Request \ {h} : Logging(g, r.addr) THEN crossed \cup {r.addr} ELSE crossed
    /\ stale' = IF Current(h) THEN stale ELSE stale \cup ({r.addr} \ {None})

(* Somebody has confirmed a link, and was not a member.                    *)
Joining(g) == req[g].pc = "commit" /\ req[g].kind = "join" /\ req[g].by = "user"

(* Then those who were added or removed are to be logged.  The error of    *)
(* UpdateMember is not shown.  (met: a change of the same member has come  *)
(* between the check and the change.)                                      *)
Commit(h) ==
    LET r == req[h]
        after == IF r.kind \in {"join", "leave", "create"} THEN [r EXCEPT !.pc = "log", !.met = FALSE]
                                                           ELSE NoReq
    IN
    /\ r.pc = "commit"
    /\ \/ /\ NoFault /\ Change(h) /\ Remember(h)
          /\ req' = [g \in Request |->
                       IF g = h THEN after
                       ELSE [req[g] EXCEPT !.met = @ \/ (Joining(g) /\ req[g].addr = r.addr)]]
       \/ Fault /\ Done(h) /\ UNCHANGED <<tables, gdpr, letIn, missed>>
    /\ UNCHANGED <<hmacKey, now, lastSent, links, asked>>

(* Mutant: logs every change as "join".                                    *)
LogJoin(h) ==
    /\ req[h].pc = "log" /\ Done(h) /\ NoFault
    /\ gdpr' = [gdpr EXCEPT ![<<req[h].l.addr, req[h].addr>>] = "join"]
    /\ UNCHANGED <<database, now, lastSent, links, history>>

(* Sign off: the welcome and goodbye mails are best effort.  Then the log. *)
Log(h) ==
    /\ req[h].pc = "log" /\ Done(h)
    /\ \/ /\ NoFault
          /\ gdpr' = [gdpr EXCEPT ![<<req[h].l.addr, req[h].addr>>] =
                                    IF req[h].kind = "leave" THEN "leave" ELSE "join"]
       \/ Fault /\ UNCHANGED gdpr
    /\ stale' = IF Current(h) THEN stale ELSE stale \cup {req[h].addr}
    /\ UNCHANGED <<database, now, lastSent, links, letIn, asked, crossed>>

-----------------------------------------------------------------------------
(* Time, crashes *)

Tick ==
    /\ now < limit.days /\ now' = now + 1
    /\ UNCHANGED <<database, req, lastSent, links, gdpr, history, bounds>>

(* The maps are in memory only.                                            *)
Crash ==
    /\ Fault
    /\ req' = [h \in Request |-> NoReq]
    /\ lastSent' = {}
    /\ UNCHANGED <<database, now, links, gdpr, history>>

-----------------------------------------------------------------------------
(* Addresses of lists and addresses of their members.                      *)
OnLists(members) ==
    {<<x[1].addr, x[2].address>> : x \in {y \in InitList \X members : y[2].list = y[1].id}}

Init ==
    /\ faults = 0 /\ adminOps = 0 /\ limit \in Limits
    /\ list = InitList /\ member = limit.members /\ known = {}
    /\ hmacKey = [i \in {0} \cup Id |-> IF \E l \in InitList : l.id = i THEN i ELSE 0]
    /\ now = 0
    /\ req = [h \in Request |-> NoReq]
    /\ lastSent = {} /\ links = {}
    /\ admitted = OnLists(member)
    /\ granted = OnLists({m \in member : m.role # Receiver})
    /\ gdpr = [x \in ListAddr \X Person |->
                 IF x \in admitted THEN "join" ELSE "none"]
    /\ mailed = {} /\ early = {} /\ overlap = {} /\ crossed = {} /\ stale = {}

Step(h) ==
    \/ RateLimit(h) \/ Lookup(h) \/ SendLink(h) \/ Record(h) \/ Refuse(h)
    \/ Check(h) \/ Authorize(h) \/ Insert(h) \/ Reload(h) \/ Commit(h) \/ Log(h)

Next ==
    \/ \E h \in Request : Step(h)
    \/ \E h \in Request, a \in Person, kind \in Kind : Ask(h, a, kind)
    \/ \E h \in Request, k \in links, kind \in Kind : Confirm(h, k, kind)
    \/ \E h \in Request, a \in Person : Leave(h, a)
    \/ \E a \in Person, kind \in Kind : OwnLink(a, kind)
    \/ \E h \in Request, u \in Person \cup {Superadmin}, a \in Person \cup {None} :
          \E kind \in Kind \cup {"member", "settings", "delete"} : Administrate(h, u, kind, a)
    \/ \E h \in Request, x \in ListAddr, a \in Person \cup {None} : CreateList(h, x, a)
    \/ Tick \/ Crash

Spec == Init /\ [][Next]_vars

-----------------------------------------------------------------------------
(* Types and bookkeeping of all variables.                                 *)
TypeOK ==
    /\ RepoTypeOK
    /\ now \in 0..MaxDay
    /\ hmacKey \in [{0} \cup Id -> Nat]
    /\ req \in [Request -> [pc: PC, kind: Kind \cup AdminKind \cup {None}, key: Nat,
                            l: ListRow \cup [id: {0}, addr: ListAddr \cup {None}],
                            addr: Person \cup {None}, met: BOOLEAN,
                            by: Person \cup {Superadmin, None, "user"}]]
    /\ \A h \in Request : req[h].pc \in {"check", "commit", "log"} => req[h].l \in ListRow
    /\ lastSent \subseteq [key: Key, day: 0..MaxDay]
    /\ links \subseteq Link
    /\ gdpr \in [ListAddr \X Person -> Kind \cup {"none"}]
    /\ admitted \subseteq ListAddr \X Address /\ granted \subseteq ListAddr \X Address
    /\ mailed \subseteq [key: Key, day: 0..MaxDay]
    /\ early \subseteq Key /\ overlap \subseteq Key
    /\ crossed \subseteq Person /\ stale \subseteq Person
    /\ faults \in Nat /\ adminOps \in Nat /\ limit \in Limits

(* Whoever is a member has, since the list was created, been let in by an  *)
(* administrator or asked to join at a time when signup was public -       *)
(* although a link does not say what it is for, and those for leaving are  *)
(* given whether signup is public or not; and a new list takes over        *)
(* neither the members nor the links of a deleted one, unless a request    *)
(* for it was still under way.  Nothing withdraws an admission: whoever    *)
(* has been removed may come back with a link that has not expired.        *)
MembersWereAdmitted ==
    \A m \in member, l \in list :
       m.list = l.id => <<l.addr, m.address>> \in admitted \/ m.address \in stale

(* Nobody has got other roles than to receive mail except from an          *)
(* administrator of this list, since it was created: not from a link, and  *)
(* not from a deleted list with the same id (see above).                   *)
RolesWereGranted ==
    \A m \in member, l \in list :
       m.list = l.id /\ m.role # Receiver
          => <<l.addr, m.address>> \in granted \/ m.address \in stale

(* The GDPR log agrees with the database: when no change of an address     *)
(* waits to be logged, its last entry says whether it is a member.  Not so *)
(* after a failed call or a crash between the two, nor when two changes of *)
(* one address waited at one time: they may be logged in the wrong order.  *)
LogMatchesMembership ==
    \A l \in list, a \in Person :
       \/ faults > 0 \/ a \in crossed \cup stale
       \/ \E h \in Request : Logging(h, a)
       \/ IsMember(l, a) <=> gdpr[<<l.addr, a>>] = "join"

(* One address is not asked twice in a week about the same list, except by *)
(* requests that were both under way before either had recorded its mail,  *)
(* and after a fault (the maps are lost in a crash).                       *)
OneMailPerWeek == early \subseteq overlap \/ faults > 0

(* "non-members only" (web.go:1234): AddMembers replaces the row of a      *)
(* member, but a confirmation takes nobody's roles away, except from those *)
(* who became members, or were changed, after it had asked.                *)
ConfirmKeepsRoles ==
    [][\A h \in Request :
          Joining(h) /\ req'[h].pc = "log"
             => req[h].met \/ ~IsMember(req[h].l, req[h].addr)]_vars

(* "requests can be sent every seven days only" (list.go:151): a request   *)
(* is refused if there was one in the last seven days.                     *)
RefusedOnlyWithinWeek ==
    \A h \in Request :
       req[h].pc = "refused" => \E e \in mailed : e.key = key(h) /\ now < e.day + Week
=============================================================================
