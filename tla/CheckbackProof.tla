--------------------------- MODULE CheckbackProof ---------------------------
(***************************************************************************)
(* What Checkback promises, proved for every set of lists, people and      *)
(* requests, and every interleaving of their steps.                        *)
(*                                                                         *)
(* The argument is about secrets.  A handler and a link carry the secret   *)
(* of the list they were made for; the secret of a list that is created    *)
(* is greater than all that were ever given.  So whoever has the secret    *)
(* of a list in the table has the list itself, and a request that works    *)
(* on a deleted list is told from others.  What follows needs no more      *)
(* than to look at one request at a time.                                  *)
(***************************************************************************)
EXTENDS Checkback, ListRepoProof

-----------------------------------------------------------------------------
(* What a request is, by where it stands.                                  *)

(* The handler has loaded a list.                                          *)
Loaded == {"rate", "lookup", "mail", "record", "refused", "auth", "check", "commit", "log"}

ReqType == [pc: PC, kind: Kind \cup AdminKind \cup {None}, key: Nat,
            l: ListRow \cup [id: {0}, addr: ListAddr \cup {None}],
            addr: Person \cup {None}, met: BOOLEAN,
            by: Person \cup {Superadmin, None, "user"}]

GoodReq(r) ==
    /\ r \in ReqType
    /\ r.pc \in Loaded => r.l \in ListRow
    /\ r.pc \in {"rate", "lookup", "mail", "record", "refused"}
          => r.kind \in Kind /\ r.addr \in Person
    /\ r.pc = "check" => r.kind \in Kind \cup {"member"}
    /\ r.pc = "auth" => r.by # "user"
    /\ r.pc \in {"auth", "check", "commit"}
          => r.kind \in {"settings", "delete"} \/ r.addr \in Person
    /\ r.pc = "log" => r.addr \in Person /\ r.kind \in Kind \cup {"create"}
    /\ r.pc \in {"create", "reload"} => r.l.addr \in ListAddr /\ r.kind = "create"

(* There is a greatest secret.                                             *)
Bounded == \E b \in Nat : \A i \in {0} \cup Id : hmacKey[i] <= b

Requests == req \in [Request -> ReqType] /\ \A h \in Request : GoodReq(req[h])

Database == RepoTypeOK /\ KeysUnique /\ hmacKey \in [{0} \cup Id -> Nat] /\ Bounded

Records ==
    /\ now \in 0..MaxDay
    /\ lastSent \subseteq [key: Key, day: 0..MaxDay]
    /\ links \subseteq Link
    /\ gdpr \in [ListAddr \X Person -> Kind \cup {"none"}]
    /\ admitted \subseteq ListAddr \X Address /\ granted \subseteq ListAddr \X Address
    /\ mailed \subseteq [key: Key, day: 0..MaxDay]
    /\ early \subseteq Key /\ overlap \subseteq Key
    /\ crossed \subseteq Person /\ stale \subseteq Person
    /\ faults \in Nat /\ adminOps \in Nat /\ limit \in Limits

Types == Database /\ Requests /\ Records

-----------------------------------------------------------------------------
(* Secrets.  "keys" are those of the lists, "rows" the lists.              *)

OwnKeys(rows, keys) == \A l1, l2 \in rows : keys[l1.id] = keys[l2.id] => l1 = l2

(* Who has the secret of a list has loaded the list.                       *)
KeyOfList(r, rows, keys) ==
    r.pc \in Loaded => \A l \in rows : keys[l.id] = r.key => l.id = r.l.id /\ l.addr = r.l.addr

NotNewer(k, keys) == \E i \in {0} \cup Id : k <= keys[i]

Secrets ==
    /\ OwnKeys(list, hmacKey)
    /\ \A h \in Request : NotNewer(req[h].key, hmacKey) /\ KeyOfList(req[h], list, hmacKey)
    /\ \A k \in links : NotNewer(k.key, hmacKey)

-----------------------------------------------------------------------------
(* Admission.  The address a may be a member of the list x.                *)

May(x, a, adm, st) == <<x, a>> \in adm \/ a \in st

(* What will, or may by way of a link, make its address a member.          *)
Bearing(r) ==
    \/ r.kind = "join" /\ r.pc \in {"rate", "lookup", "mail", "check", "commit"}
    \/ r.kind = "leave" /\ r.pc = "mail"

MayJoin(k, a, rows, keys, adm, st) ==
    \A l \in rows : keys[l.id] = k => May(l.addr, a, adm, st)

Bears(r, rows, keys, adm, st) ==
    Bearing(r) => MayJoin(r.key, r.addr, rows, keys, adm, st)

NoOrphan(m, rows, st) == (\E l \in rows : l.id = m.list) \/ m.address \in st

Admission ==
    /\ \A m \in member : NoOrphan(m, list, stale)
    /\ \A m \in member, l \in list :
          m.list = l.id => May(l.addr, m.address, admitted, stale)
    /\ RolesWereGranted
    /\ \A h \in Request : Bears(req[h], list, hmacKey, admitted, stale)
    /\ \A k \in links : MayJoin(k.key, k.addr, list, hmacKey, admitted, stale)

-----------------------------------------------------------------------------
(* The log.  While nothing has failed, for an address whose changes have   *)
(* not crossed and have not met a deleted list: one request at most waits  *)
(* to log it; its entry will agree with the list it has changed, and the   *)
(* last entry agrees with every other list.                                *)

LogsFor(h, l, a) == Logging(h, a) /\ req[h].key = hmacKey[l.id]

Entry(r) == IF r.kind = "leave" THEN "leave" ELSE "join"

LogOf(a) ==
    /\ \A g, h \in Request : Logging(g, a) /\ Logging(h, a) => g = h
    /\ \A l \in list, h \in Request :
          LogsFor(h, l, a) => (IsMember(l, a) <=> Entry(req[h]) = "join")
    /\ \A l \in list :
          (\A h \in Request : ~LogsFor(h, l, a)) => (IsMember(l, a) <=> gdpr[<<l.addr, a>>] = "join")
    /\ \A x \in ListAddr : GetList(x) = {} => gdpr[<<x, a>>] # "join"

LogInv == faults = 0 => \A a \in Person \ (crossed \cup stale) : LogOf(a)

-----------------------------------------------------------------------------
(* The rate limit.  While nothing has failed: what was mailed is recorded, *)
(* or about to be; a request that is past the limit has met no record, or  *)
(* another request on the same key.                                        *)

KeyOf(r) == [kind |-> r.kind, addr |-> r.addr, list |-> r.l.addr]
Past(r) == r.pc \in {"lookup", "mail", "record"}

Recorded(k) == \E e \in lastSent : e.key = k

MailInv ==
    faults = 0 =>
       /\ early \subseteq overlap
       /\ \A e \in lastSent : e.day <= now
       /\ \A e \in mailed :
             \/ e.key \in overlap \/ Recorded(e.key)
             \/ \E h \in Request : req[h].pc = "record" /\ KeyOf(req[h]) = e.key
       /\ \A h \in Request : Past(req[h]) => KeyOf(req[h]) \in overlap \/ ~Recorded(KeyOf(req[h]))
       /\ \A g, h \in Request :
             g # h /\ Past(req[g]) /\ Past(req[h]) /\ KeyOf(req[g]) = KeyOf(req[h])
                => KeyOf(req[h]) \in overlap

-----------------------------------------------------------------------------
(* A confirmation on its way has not met a member, or a change has come    *)
(* between.                                                                *)
Confirming(r) == r.pc = "commit" /\ r.kind = "join" /\ r.by = "user"

MetInv == \A h \in Request : Confirming(req[h]) => req[h].met \/ ~Has(req[h].l.id, req[h].addr)

-----------------------------------------------------------------------------
(* Types: the requests                                                     *)

LEMMA Moves ==
    ASSUME Requests, NEW h \in Request, NEW w, GoodReq(w), req' = [req EXCEPT ![h] = w]
    PROVE  Requests'
<1>1. w \in ReqType
  BY DEF GoodReq
<1>2. req' \in [Request -> ReqType]
  BY <1>1 DEF Requests
<1>3. ASSUME NEW g \in Request  PROVE GoodReq(req'[g])
  <2>1. req'[g] = IF g = h THEN w ELSE req[g]
    BY DEF Requests
  <2> QED  BY <2>1 DEF Requests
<1> QED  BY <1>2, <1>3 DEF Requests

LEMMA NoReqGood == GoodReq(NoReq)
  BY DEF GoodReq, ReqType, NoReq, NoRow, PC, Loaded, None

LEMMA DoneGood == ASSUME Requests, NEW h \in Request, Done(h) PROVE Requests'
  BY Moves, NoReqGood DEF Done

(* A handler that starts.                                                  *)
LEMMA StartGood ==
    ASSUME Types, NEW h \in Request, NEW pc \in {"rate", "check", "auth"}, NEW l \in list,
           NEW kind \in Kind \cup {"member", "settings", "delete"},
           NEW a \in Person \cup {None}, NEW by \in Person \cup {Superadmin, "user"},
           pc # "auth" => kind \in Kind, pc = "auth" => by # "user", kind \in Kind \cup {"member"} => a \in Person,
           Start(h, pc, kind, l, a, by)
    PROVE  Requests'
<1> DEFINE w == [pc |-> pc, kind |-> kind, l |-> l, key |-> hmacKey[l.id], addr |-> a, by |-> by,
                 met |-> FALSE]
<1>1. req' = [req EXCEPT ![h] = w]
  BY DEF Start
<1>2. l \in ListRow /\ hmacKey[l.id] \in Nat
  BY DEF Types, Database, RepoTypeOK, ListRow
<1>3. w \in ReqType
  BY <1>2 DEF ReqType, PC, Kind, AdminKind
<1>4. GoodReq(w)
  BY <1>2, <1>3 DEF GoodReq, Kind
<1> HIDE DEF w
<1> QED  BY <1>1, <1>4, Moves DEF Types

(* A handler that goes on.                                                 *)
LEMMA GoesOn ==
    ASSUME Requests, NEW h \in Request, NEW pc \in PC, GoTo(h, pc),
           GoodReq([req[h] EXCEPT !.pc = pc])
    PROVE  Requests'
<1> DEFINE w == [req[h] EXCEPT !.pc = pc]
<1>1. req' = [req EXCEPT ![h] = w]
  BY DEF GoTo, Requests
<1>2. GoodReq(w)
  OBVIOUS
<1> HIDE DEF w
<1> QED  BY <1>1, <1>2, Moves

LEMMA NextGood ==
    ASSUME NEW r, GoodReq(r), NEW pc
    PROVE  /\ r.pc = "rate" /\ pc \in {"lookup", "refused"} => GoodReq([r EXCEPT !.pc = pc])
           /\ r.pc = "lookup" /\ pc = "mail" => GoodReq([r EXCEPT !.pc = pc])
           /\ r.pc = "mail" /\ pc = "record" => GoodReq([r EXCEPT !.pc = pc])
           /\ r.pc = "check" /\ pc = "commit" => GoodReq([r EXCEPT !.pc = pc])
           /\ r.pc = "auth" /\ pc = "rate" /\ r.kind \in Kind => GoodReq([r EXCEPT !.pc = pc])
           /\ r.pc = "auth" /\ pc = "check" /\ r.kind = "member" => GoodReq([r EXCEPT !.pc = pc])
           /\ r.pc = "auth" /\ pc = "commit" => GoodReq([r EXCEPT !.pc = pc])
           /\ r.pc = "create" /\ pc = "reload" => GoodReq([r EXCEPT !.pc = pc])
<1> DEFINE w == [r EXCEPT !.pc = pc]
<1>1. r \in ReqType
  BY DEF GoodReq
<1>2. pc \in PC => w \in ReqType
  BY <1>1 DEF ReqType
<1>3. /\ w.pc = pc /\ w.kind = r.kind /\ w.l = r.l /\ w.addr = r.addr
  BY <1>1 DEF ReqType
<1> HIDE DEF w
<1>4. r.pc = "rate" /\ pc \in {"lookup", "refused"} => GoodReq(w)
  BY <1>2, <1>3 DEF GoodReq, PC, Loaded
<1>5. r.pc = "lookup" /\ pc = "mail" => GoodReq(w)
  BY <1>2, <1>3 DEF GoodReq, PC, Loaded
<1>6. r.pc = "mail" /\ pc = "record" => GoodReq(w)
  BY <1>2, <1>3 DEF GoodReq, PC, Loaded
<1>7. r.pc = "check" /\ pc = "commit" => GoodReq(w)
  BY <1>2, <1>3 DEF GoodReq, PC, Loaded, Kind
<1>8. r.pc = "auth" /\ pc = "rate" /\ r.kind \in Kind => GoodReq(w)
  BY <1>2, <1>3 DEF GoodReq, PC, Loaded, Kind
<1>9. r.pc = "auth" /\ pc = "check" /\ r.kind = "member" => GoodReq(w)
  BY <1>2, <1>3 DEF GoodReq, PC, Loaded, Kind
<1>10. r.pc = "auth" /\ pc = "commit" => GoodReq(w)
  BY <1>2, <1>3 DEF GoodReq, PC, Loaded, Kind
<1>11. r.pc = "create" /\ pc = "reload" => GoodReq(w)
  BY <1>2, <1>3 DEF GoodReq, PC, Loaded, Kind
<1> QED  BY <1>4, <1>5, <1>6, <1>7, <1>8, <1>9, <1>10, <1>11 DEF w

(* Every step that changes one request leaves it good.                     *)
LEMMA AskGood ==
    ASSUME Types, NEW h \in Request, NEW a \in Person, NEW kind \in Kind,
           Ask(h, a, kind) \/ Leave(h, a) \/ \E k \in links : Confirm(h, k, kind)
    PROVE  Requests'
<1>1. CASE Ask(h, a, kind)
  <2>1. PICK l \in list : Start(h, "rate", kind, l, a, "user")
    BY <1>1 DEF Ask
  <2> QED  BY <2>1, StartGood
<1>2. CASE Leave(h, a)
  <2>1. PICK l \in list : Start(h, "check", "leave", l, a, "user")
    BY <1>2 DEF Leave
  <2> QED  BY <2>1, StartGood DEF Kind
<1>3. ASSUME NEW k \in links, Confirm(h, k, kind)  PROVE Requests'
  <2>1. PICK l \in list : Start(h, "check", kind, l, k.addr, "user")
    BY <1>3 DEF Confirm, GetList
  <2>2. k.addr \in Person
    BY DEF Types, Records, Link
  <2> QED  BY <2>1, <2>2, StartGood
<1> QED  BY <1>1, <1>2, <1>3

LEMMA AdministrateGood ==
    ASSUME Types, NEW h \in Request, NEW u \in Person \cup {Superadmin}, NEW a \in Person \cup {None},
           NEW kind \in Kind \cup {"member", "settings", "delete"}, Administrate(h, u, kind, a)
    PROVE  Requests'
<1>1. PICK l \in list : Start(h, "auth", kind, l, a, u)
  BY DEF Administrate
<1>2. kind \in Kind \cup {"member"} => a \in Person
  BY DEF Administrate, Kind
<1>3. u # "user"
  BY UserAssumption
<1> QED  BY <1>1, <1>2, <1>3, StartGood

LEMMA CreateListGood ==
    ASSUME Types, NEW h \in Request, NEW x \in ListAddr, NEW a \in Person \cup {None},
           CreateList(h, x, a)
    PROVE  Requests'
<1> DEFINE n == [NoRow EXCEPT !.addr = x]
           w == [pc |-> "create", kind |-> "create", l |-> n, key |-> hmacKey[n.id],
                 addr |-> a, by |-> Superadmin, met |-> FALSE]
<1>1. n = [id |-> 0, addr |-> x]
  BY DEF NoRow
<1>2. hmacKey[n.id] \in Nat
  BY <1>1 DEF Types, Database
<1>3. GoodReq(w)
  BY <1>1, <1>2 DEF GoodReq, ReqType, PC, AdminKind, Loaded
<1>4. req' = [req EXCEPT ![h] = w]
  BY DEF CreateList, Start
<1> HIDE DEF w
<1> QED  BY <1>3, <1>4, Moves DEF Types

LEMMA MailingGood ==
    ASSUME Types, NEW h \in Request,
           RateLimit(h) \/ Lookup(h) \/ SendLink(h) \/ Record(h) \/ Refuse(h) \/ Check(h)
    PROVE  Requests'
<1>1. Requests /\ GoodReq(req[h])
  BY DEF Types, Requests
<1>2. CASE Done(h)
  BY <1>1, <1>2, DoneGood
<1>3. CASE RateLimit(h)
  BY <1>1, <1>3, NextGood, GoesOn DEF RateLimit, PC
<1>4. CASE Lookup(h)
  BY <1>1, <1>2, <1>4, NextGood, GoesOn DEF Lookup, PC
<1>5. CASE SendLink(h)
  BY <1>1, <1>2, <1>5, NextGood, GoesOn DEF SendLink, PC
<1>6. CASE Check(h)
  BY <1>1, <1>2, <1>6, NextGood, GoesOn DEF Check, PC
<1> QED  BY <1>2, <1>3, <1>4, <1>5, <1>6 DEF Record, Refuse

LEMMA AuthorizeGood ==
    ASSUME Types, NEW h \in Request, Authorize(h) \/ Insert(h)
    PROVE  Requests'
<1>1. Requests /\ GoodReq(req[h])
  BY DEF Types, Requests
<1>2. CASE Done(h)
  BY <1>1, <1>2, DoneGood
<1>3. CASE Authorize(h)
  BY <1>1, <1>2, <1>3, NextGood, GoesOn DEF Authorize, PC
<1>4. CASE Insert(h)
  BY <1>1, <1>2, <1>4, NextGood, GoesOn DEF Insert, PC
<1> QED  BY <1>3, <1>4

LEMMA ReloadGood ==
    ASSUME Types, NEW h \in Request, Reload(h)
    PROVE  Requests'
<1>1. Requests /\ GoodReq(req[h]) /\ req[h].pc = "reload"
  BY DEF Types, Requests, Reload
<1>2. CASE Done(h)
  BY <1>1, <1>2, DoneGood
<1>3. ASSUME NEW l \in list, req[h].addr # None,
             req' = [req EXCEPT ![h] = [@ EXCEPT !.pc = "commit", !.l = l, !.key = hmacKey[l.id]]]
      PROVE  Requests'
  <2> DEFINE r == req[h]
             w == [r EXCEPT !.pc = "commit", !.l = l, !.key = hmacKey[l.id]]
  <2>1. req' = [req EXCEPT ![h] = w]
    BY <1>1, <1>3 DEF Requests
  <2>2. l \in ListRow /\ hmacKey[l.id] \in Nat
    BY DEF Types, Database, RepoTypeOK, ListRow
  <2>3. r \in ReqType /\ r.addr \in Person /\ r.kind = "create"
    BY <1>1, <1>3 DEF GoodReq, ReqType
  <2>4. w \in ReqType /\ w.pc = "commit" /\ w.l = l /\ w.addr = r.addr /\ w.kind = r.kind
    <3> HIDE DEF r
    <3> QED  BY <2>2, <2>3 DEF ReqType, PC
  <2> HIDE DEF w, r
  <2>5. GoodReq(w)
    BY <2>2, <2>3, <2>4 DEF GoodReq
  <2> QED  BY <1>1, <2>1, <2>5, Moves
<1> QED  BY <1>2, <1>3 DEF Reload, GetList

LEMMA LogGood == ASSUME Types, NEW h \in Request, Log(h) PROVE Requests'
  BY DoneGood DEF Log, Types

(* After a change, those who were to join, leave or create are to be       *)
(* logged; the others remember at most that there was a change.            *)
LEMMA CommitGood ==
    ASSUME Types, NEW h \in Request, Commit(h)
    PROVE  Requests'
<1>1. Requests /\ GoodReq(req[h]) /\ req[h].pc = "commit"
  BY DEF Types, Requests, Commit
<1>2. CASE Done(h)
  BY <1>1, <1>2, DoneGood
<1> DEFINE r == req[h]
           after == IF r.kind \in {"join", "leave", "create"} THEN [r EXCEPT !.pc = "log", !.met = FALSE]
                                                              ELSE NoReq
           other(g) == [req[g] EXCEPT !.met = @ \/ (Joining(g) /\ req[g].addr = r.addr)]
<1>3. ASSUME req' = [g \in Request |-> IF g = h THEN after ELSE other(g)]
      PROVE  Requests'
  <2>1. GoodReq(after)
    <3> DEFINE w == [r EXCEPT !.pc = "log", !.met = FALSE]
    <3>1. r \in ReqType
      BY <1>1 DEF GoodReq
    <3>2. w \in ReqType /\ w.pc = "log" /\ w.l = r.l /\ w.addr = r.addr /\ w.kind = r.kind
      <4> HIDE DEF r
      <4> QED  BY <3>1 DEF ReqType, PC
    <3>3. r.kind \in {"join", "leave", "create"} => r.addr \in Person /\ r.l \in ListRow
      BY <1>1 DEF GoodReq, Loaded
    <3> HIDE DEF w, r
    <3>4. r.kind \in {"join", "leave", "create"} => GoodReq(w)
      BY <3>2, <3>3 DEF GoodReq, Kind
    <3> QED  BY <3>4, NoReqGood DEF w
  <2>2. ASSUME NEW g \in Request  PROVE GoodReq(other(g))
    <3> DEFINE o == req[g]
               b == o.met \/ (Joining(g) /\ o.addr = r.addr)
               w == [o EXCEPT !.met = b]
    <3>1. GoodReq(o) /\ o \in ReqType
      BY <1>1 DEF Requests, GoodReq
    <3>2. b \in BOOLEAN
      BY <3>1 DEF ReqType, Joining
    <3>3. other(g) = w
      BY <3>1 DEF ReqType
    <3> HIDE DEF b, o
    <3>4. /\ w \in ReqType /\ w.pc = o.pc /\ w.l = o.l /\ w.addr = o.addr /\ w.kind = o.kind
          /\ w.by = o.by
      BY <3>1, <3>2 DEF ReqType
    <3> HIDE DEF w
    <3> QED  BY <3>1, <3>3, <3>4 DEF GoodReq
  <2> HIDE DEF after, other
  <2>3. \A g \in Request : GoodReq(req'[g])
    BY <1>3, <2>1, <2>2
  <2>4. req' \in [Request -> ReqType]
    BY <1>3, <2>1, <2>2 DEF GoodReq
  <2> QED  BY <2>3, <2>4 DEF Requests
<1> HIDE DEF after, other
<1> QED  BY <1>2, <1>3 DEF Commit, after, other

-----------------------------------------------------------------------------
(* Types: the database                                                     *)

(* The secret of a new list is greater than all others.                    *)
LEMMA NewSecret ==
    ASSUME Database
    PROVE  /\ 1 + Max(Range(hmacKey)) \in Nat
           /\ \A i \in {0} \cup Id : hmacKey[i] < 1 + Max(Range(hmacKey))
<1> DEFINE S == Range(hmacKey)
<1>1. PICK b \in Nat : \A i \in {0} \cup Id : hmacKey[i] <= b
  BY DEF Database, Bounded
<1>2. hmacKey \in [{0} \cup Id -> Nat]
  BY DEF Database
<1>3. \A i \in {0} \cup Id : hmacKey[i] \in S /\ hmacKey[i] \in 0..b
  BY <1>1, <1>2 DEF Range
<1>4. S \subseteq 0..b /\ S # {}
  BY <1>2, <1>3 DEF Range
<1>5. Max(S) \in S /\ \A x \in S : x <= Max(S)
  BY <1>1, <1>4, MaxOf
<1>6. Max(S) \in Nat
  BY <1>1, <1>4, <1>5
<1> HIDE DEF S
<1>7. \A i \in {0} \cup Id : hmacKey[i] <= Max(S)
  BY <1>3, <1>5
<1>8. \A i \in {0} \cup Id : hmacKey[i] < 1 + Max(S)
  BY <1>2, <1>6, <1>7
<1> QED  BY <1>6, <1>8 DEF S

LEMMA InsertKeeps ==
    ASSUME Types, NEW h \in Request, Insert(h)
    PROVE  Database'
<1> DEFINE n == 1 + Max(Range(hmacKey))
<1>1. CASE UNCHANGED database
  BY <1>1 DEF database, tables, Types, Database, RepoTypeOK, KeysUnique, Bounded
<1>2. CASE Create(req[h].l.addr) /\ hmacKey' = [hmacKey EXCEPT ![NextId] = n]
  <2>1. GoodReq(req[h]) /\ req[h].pc = "create"
    BY DEF Types, Requests, Insert
  <2>2. req[h].l.addr \in ListAddr
    BY <2>1 DEF GoodReq
  <2>3. RepoTypeOK'
    BY <1>2, <2>2, ListsTyped DEF Types, Database
  <2>4. KeysUnique'
    <3> DEFINE a == req[h].l.addr
    <3>1. a \in ListAddr /\ Create(a) /\ RepoTypeOK /\ KeysUnique
      BY <1>2, <2>2 DEF Types, Database
    <3> HIDE DEF a
    <3>2. PICK x \in ListAddr : x = a
      BY <3>1
    <3>3. Create(x)
      BY <3>1, <3>2 DEF Create, GetList
    <3> QED  BY <3>1, <3>3, CreateUnique
  <2>5. n \in Nat /\ \A i \in {0} \cup Id : hmacKey[i] < n
    BY NewSecret DEF Types
  <2>6. hmacKey \in [{0} \cup Id -> Nat] /\ NextId \in Id
    BY <1>2 DEF Types, Database, Create
  <2> HIDE DEF n
  <2>7. hmacKey' \in [{0} \cup Id -> Nat]
    BY <1>2, <2>5, <2>6
  <2>8. \A i \in {0} \cup Id : hmacKey'[i] <= n
    BY <1>2, <2>5, <2>6
  <2> QED  BY <2>3, <2>4, <2>5, <2>7, <2>8 DEF Database, Bounded
<1> QED  BY <1>1, <1>2 DEF Insert

LEMMA ChangeKeeps ==
    ASSUME Types, NEW h \in Request, req[h].pc = "commit", Change(h), UNCHANGED hmacKey
    PROVE  Database'
<1> DEFINE l == req[h].l
           a == req[h].addr
<1>1. RepoTypeOK /\ KeysUnique /\ GoodReq(req[h])
  BY DEF Types, Database, Requests
<1>2. l \in ListRow /\ l.id \in Id
  BY <1>1 DEF GoodReq, Loaded, ListRow
<1>3. req[h].kind \in {"settings", "delete"} \/ a \in Person
  BY <1>1 DEF GoodReq
<1>4. Receiver \in Role /\ AllRoles \in Role
  BY DEF Receiver, AllRoles, Role
<1> HIDE DEF l, a
<1>5. ASSUME NEW role \in Role, AddMembers(l, {a}, role), a \in Person
      PROVE  RepoTypeOK' /\ KeysUnique'
  <2>1. {a} \in SUBSET Address
    BY <1>5 DEF Address
  <2> QED  BY <1>1, <1>2, <1>5, <2>1, MembersTyped, AddMembersUnique
<1>6. ASSUME RemoveMembers(l, {a}), a \in Person
      PROVE  RepoTypeOK' /\ KeysUnique'
  <2>1. {a} \in SUBSET Address
    BY <1>6 DEF Address
  <2> QED  BY <1>1, <1>2, <1>4, <1>6, <2>1, MembersTyped, RemoveMembersUnique
<1>7. ASSUME NEW role \in RoleChoice, UpdateMember(l, a, role), a \in Person
      PROVE  RepoTypeOK' /\ KeysUnique'
  <2>1. a \in Address /\ role \in Role /\ {} \in SUBSET Address
    BY <1>7, ChoiceAssumption DEF Address
  <2> QED  BY <1>1, <1>2, <1>7, <2>1, MembersTyped, UpdateMemberUnique
<1>8. ASSUME NEW set \in SettingsChoice, Update(l, set)
      PROVE  RepoTypeOK' /\ KeysUnique'
  BY <1>1, <1>8, ListsTyped, UpdateUnique, ChoiceAssumption
<1>9. ASSUME Delete(l)
      PROVE  RepoTypeOK' /\ KeysUnique'
  BY <1>1, <1>9, ListsTyped, DeleteUnique
<1>10. RepoTypeOK' /\ KeysUnique'
  BY <1>3, <1>4, <1>5, <1>6, <1>7, <1>8, <1>9 DEF Change, l, a
<1> QED  BY <1>10 DEF Types, Database, Bounded

-----------------------------------------------------------------------------
(* Types: what else is recorded                                            *)

LEMMA KeyOfRequest ==
    ASSUME Types, NEW h \in Request,
           req[h].pc \in {"rate", "lookup", "mail", "record", "refused"}
    PROVE  key(h) \in Key
<1>1. GoodReq(req[h])
  BY DEF Types, Requests
<1> QED  BY <1>1 DEF GoodReq, Loaded, ListRow, key, Key

LEMMA LinkTyped ==
    ASSUME Types, NEW l \in ListRow, NEW k \in Nat, NEW a \in Person
    PROVE  LinkTo(l, k, a) \in Link
  BY DEF Types, Records, Link, LinkTo, ListRow

LEMMA MailingRecords ==
    ASSUME Types, NEW h \in Request,
           RateLimit(h) \/ Lookup(h) \/ SendLink(h) \/ Record(h) \/ Refuse(h) \/ Check(h)
    PROVE  Records'
<1>1. Records /\ GoodReq(req[h])
  BY DEF Types, Requests
<1>2. CASE RateLimit(h)
  <2>1. key(h) \in Key
    BY <1>2, KeyOfRequest DEF RateLimit
  <2> QED  BY <1>1, <1>2, <2>1
           DEF RateLimit, Records, database, letIn, missed, bounds
<1>3. CASE SendLink(h)
  <2>1. key(h) \in Key
    BY <1>3, KeyOfRequest DEF SendLink
  <2>2. LinkTo(req[h].l, req[h].key, req[h].addr) \in Link
    <3>1. req[h].l \in ListRow /\ req[h].key \in Nat /\ req[h].addr \in Person
      BY <1>1, <1>3 DEF SendLink, GoodReq, Loaded, ReqType
    <3> QED  BY <3>1, LinkTyped
  <2>3. [key |-> key(h), day |-> now] \in [key: Key, day: 0..MaxDay]
    BY <1>1, <2>1 DEF Records
  <2>4. links' \subseteq Link /\ mailed' \subseteq [key: Key, day: 0..MaxDay] /\ early' \subseteq Key
    BY <1>1, <1>3, <2>1, <2>2, <2>3 DEF SendLink, Records
  <2>5. faults' \in Nat /\ adminOps' = adminOps /\ limit' = limit
    BY <1>1, <1>3 DEF SendLink, Records, Fault, NoFault, bounds
  <2> QED  BY <1>1, <1>3, <2>4, <2>5 DEF SendLink, Records, database, letIn, missed
<1>4. CASE Record(h)
  <2>1. key(h) \in Key
    BY <1>4, KeyOfRequest DEF Record
  <2>2. [key |-> key(h), day |-> now] \in [key: Key, day: 0..MaxDay]
    BY <1>1, <2>1 DEF Records
  <2>3. lastSent' \subseteq [key: Key, day: 0..MaxDay]
    BY <1>1, <1>4, <2>2 DEF Record, Records
  <2> QED  BY <1>1, <1>4, <2>3 DEF Record, Records, database, history, letIn, asked, missed, bounds
<1>5. CASE Lookup(h) \/ Check(h) \/ Refuse(h)
  <2>1. faults' \in Nat /\ adminOps' = adminOps /\ limit' = limit
    BY <1>1, <1>5 DEF Lookup, Check, Refuse, Records, Fault, NoFault, bounds
  <2> QED  BY <1>1, <1>5, <2>1
           DEF Lookup, Check, Refuse, Records, database, history, letIn, asked, missed
<1> QED  BY <1>2, <1>3, <1>4, <1>5

LEMMA WelcomeTyped ==
    ASSUME NEW l \in ListRow, NEW a \in Person, NEW kind
    PROVE  Welcome(l, a, kind) \subseteq ListAddr \X Address
  BY DEF Welcome, ListRow, Address

LEMMA StartRecords ==
    ASSUME Types,
           \/ \E h \in Request, a \in Person, kind \in Kind : Ask(h, a, kind)
           \/ \E h \in Request, k \in links, kind \in Kind : Confirm(h, k, kind)
           \/ \E h \in Request, a \in Person : Leave(h, a)
           \/ \E h \in Request, u \in Person \cup {Superadmin}, a \in Person \cup {None} :
                 \E kind \in Kind \cup {"member", "settings", "delete"} : Administrate(h, u, kind, a)
           \/ \E h \in Request, x \in ListAddr, a \in Person \cup {None} : CreateList(h, x, a)
           \/ Tick \/ Crash
    PROVE  Records' /\ Database'
<1>1. Database'
  BY DEF Types, Database, RepoTypeOK, KeysUnique, Bounded, database, tables,
         Ask, Confirm, Leave, Administrate, CreateList, Tick, Crash
<1>2. Records
  BY DEF Types
<1>3. CASE Tick
  <2>1. now' \in 0..MaxDay
    BY <1>2, <1>3, LimitsAssumption, MaxDayAssumption DEF Tick, Records
  <2> QED  BY <1>1, <1>2, <1>3, <2>1 DEF Tick, Records, history, letIn, asked, missed, bounds
<1>4. CASE Crash
  BY <1>1, <1>2, <1>4 DEF Crash, Fault, Records, history, letIn, asked, missed
<1>5. ASSUME now' = now, lastSent' = lastSent, links' = links, gdpr' = gdpr, history' = history,
             faults' = faults, limit' = limit, adminOps' \in Nat
      PROVE  Records'
  BY <1>2, <1>5 DEF Records, history, letIn, asked, missed
<1>6. adminOps \in Nat
  BY <1>2 DEF Records
<1>7. ASSUME AdminOp  PROVE adminOps' \in Nat /\ faults' = faults /\ limit' = limit
  BY <1>6, <1>7 DEF AdminOp
<1>8. CASE \E h \in Request, a \in Person, kind \in Kind : Ask(h, a, kind)
  <2>1. PICK h \in Request, a \in Person, kind \in Kind : Ask(h, a, kind)
    BY <1>8
  <2>2. PICK l \in list : admitted' = admitted \cup Welcome(l, a, kind)
    BY <2>1 DEF Ask
  <2>3. admitted' \subseteq ListAddr \X Address
    BY <1>2, <2>2, WelcomeTyped DEF Types, Database, RepoTypeOK, Records
  <2> QED  BY <1>1, <1>2, <2>1, <2>3 DEF Ask, Records, asked, missed, bounds
<1>9. CASE \E h \in Request, k \in links, kind \in Kind : Confirm(h, k, kind)
  BY <1>1, <1>5, <1>6, <1>9 DEF Confirm, bounds
<1>10. CASE \E h \in Request, u \in Person \cup {Superadmin}, a \in Person \cup {None} :
              \E kind \in Kind \cup {"member", "settings", "delete"} : Administrate(h, u, kind, a)
  BY <1>1, <1>5, <1>7, <1>10 DEF Administrate
<1>11. CASE \E h \in Request, x \in ListAddr, a \in Person \cup {None} : CreateList(h, x, a)
  BY <1>1, <1>5, <1>7, <1>11 DEF CreateList
<1>12. CASE \E h \in Request, a \in Person : Leave(h, a)
  BY <1>1, <1>5, <1>6, <1>12 DEF Leave, bounds
<1> QED  BY <1>1, <1>3, <1>4, <1>8, <1>9, <1>10, <1>11, <1>12

LEMMA OwnLinkRecords ==
    ASSUME Types, NEW a \in Person, NEW kind \in Kind, OwnLink(a, kind)
    PROVE  Records'
<1>1. PICK l \in list : links' = links \cup {LinkTo(l, hmacKey[l.id], a)}
  BY DEF OwnLink
<1>2. l \in ListRow /\ hmacKey[l.id] \in Nat
  BY DEF Types, Database, RepoTypeOK, ListRow
<1>3. LinkTo(l, hmacKey[l.id], a) \in Link
  BY <1>2, LinkTyped
<1>4. Records /\ links' \subseteq Link
  BY <1>1, <1>3 DEF Types, Records
<1>5. admitted' \subseteq ListAddr \X Address
  <2>1. PICK x \in list : admitted' = admitted \cup Welcome(x, a, kind)
    BY DEF OwnLink
  <2>2. x \in ListRow
    BY DEF Types, Database, RepoTypeOK
  <2> QED  BY <1>4, <2>1, <2>2, WelcomeTyped DEF Records
<1> QED  BY <1>4, <1>5 DEF OwnLink, Records, asked, missed, bounds

LEMMA AuthorizeRecords ==
    ASSUME Types, NEW h \in Request, Authorize(h) \/ Insert(h) \/ Reload(h)
    PROVE  Records'
<1>1. Records /\ GoodReq(req[h])
  BY DEF Types, Requests
<1>2. faults' \in Nat /\ adminOps' = adminOps /\ limit' = limit
  <2>1. Fault \/ NoFault
    BY DEF Authorize, Insert, Reload
  <2>2. faults \in Nat
    BY <1>1 DEF Records
  <2> QED  BY <2>1, <2>2 DEF Fault, NoFault, bounds
<1>3. CASE Authorize(h)
  <2>1. req[h].pc = "auth" /\ req[h].kind = "join" => <<req[h].l.addr, req[h].addr>> \in ListAddr \X Address
    BY <1>1 DEF GoodReq, Loaded, ListRow, Address
  <2>2. admitted' \subseteq ListAddr \X Address
    BY <1>1, <1>3, <2>1 DEF Authorize, Records
  <2> QED  BY <1>1, <1>2, <1>3, <2>2 DEF Authorize, Records, asked, missed
<1>4. CASE Insert(h) \/ Reload(h)
  BY <1>1, <1>2, <1>4 DEF Insert, Reload, Records, history, letIn, asked, missed
<1> QED  BY <1>3, <1>4

LEMMA CommitRecords ==
    ASSUME Types, NEW h \in Request, Commit(h)
    PROVE  Records'
<1>1. Records /\ GoodReq(req[h]) /\ req[h].pc = "commit"
  BY DEF Types, Requests, Commit
<1>2. faults' \in Nat /\ adminOps' = adminOps /\ limit' = limit
  <2>1. Fault \/ NoFault
    BY DEF Commit
  <2>2. faults \in Nat
    BY <1>1 DEF Records
  <2> QED  BY <2>1, <2>2 DEF Fault, NoFault, bounds
<1>3. CASE UNCHANGED <<gdpr, letIn, missed>>
  BY <1>1, <1>2, <1>3 DEF Commit, Records, letIn, asked, missed
<1>4. CASE Change(h) /\ Remember(h)
  <2> DEFINE r == req[h]
             to == IF Current(h) THEN {<<r.l.addr, r.addr>>} ELSE {}
             gone == Deleted(h)
  <2>1. r.l \in ListRow /\ r.l.addr \in ListAddr
    BY <1>1 DEF GoodReq, Loaded, ListRow
  <2>2. r.kind \in {"settings", "delete"} \/ r.addr \in Person
    BY <1>1 DEF GoodReq
  <2>3. r.addr \in Person \cup {None}
    BY <1>1 DEF GoodReq, ReqType
  <2>4. r.kind \in {"create", "member"} => to \subseteq ListAddr \X Address
    BY <2>1, <2>2 DEF Address
  <2>5. admitted' \subseteq ListAddr \X Address /\ granted' \subseteq ListAddr \X Address
    BY <1>1, <1>4, <2>4 DEF Remember, Records, Outside
  <2>8. gdpr' \in [ListAddr \X Person -> Kind \cup {"none"}]
    BY <1>1, <1>4 DEF Remember, Records
  <2>9. crossed' \subseteq Person
    <3>1. ASSUME NEW g \in Request \ {h}, Logging(g, r.addr)  PROVE r.addr \in Person
      BY <3>1 DEF Logging, Types, Requests, GoodReq
    <3> QED  BY <1>1, <1>4, <3>1 DEF Remember, Records
  <2>10. stale' \subseteq Person
    BY <1>1, <1>4, <2>3 DEF Remember, Records
  <2> QED
    BY <1>1, <1>2, <2>5, <2>8, <2>9, <2>10 DEF Commit, Records, asked
<1> QED  BY <1>3, <1>4 DEF Commit

LEMMA LogRecords ==
    ASSUME Types, NEW h \in Request, Log(h)
    PROVE  Records'
<1>1. Records /\ GoodReq(req[h]) /\ req[h].pc = "log"
  BY DEF Types, Requests, Log
<1>2. faults' \in Nat /\ adminOps' = adminOps /\ limit' = limit
  <2>1. Fault \/ NoFault
    BY DEF Log
  <2>2. faults \in Nat
    BY <1>1 DEF Records
  <2> QED  BY <2>1, <2>2 DEF Fault, NoFault, bounds
<1>3. gdpr' \in [ListAddr \X Person -> Kind \cup {"none"}]
  BY <1>1 DEF Log, Records, Kind
<1>4. stale' \subseteq Person
  BY <1>1 DEF Log, Records, GoodReq
<1> QED  BY <1>1, <1>2, <1>3, <1>4 DEF Log, Records, letIn, asked

LEMMA TypesKept ==
    ASSUME Types, [Next]_vars
    PROVE  Types'
<1>1. ASSUME UNCHANGED database  PROVE Database'
  BY <1>1 DEF database, tables, Types, Database, RepoTypeOK, KeysUnique, Bounded
<1>2. ASSUME UNCHANGED req  PROVE Requests'
  BY <1>2 DEF Types, Requests
<1>3. CASE UNCHANGED vars
  <2>1. Records'
    BY <1>3 DEF vars, history, letIn, asked, missed, bounds, Types, Records
  <2> QED  BY <1>1, <1>2, <1>3, <2>1 DEF vars, Types
<1>4. ASSUME NEW h \in Request, Step(h)  PROVE Types'
  <2>1. CASE RateLimit(h) \/ Lookup(h) \/ SendLink(h) \/ Record(h) \/ Refuse(h) \/ Check(h)
    <3>1. UNCHANGED database
      BY <2>1 DEF RateLimit, Lookup, SendLink, Record, Refuse, Check
    <3> QED  BY <1>1, <2>1, <3>1, MailingGood, MailingRecords DEF Types
  <2>2. CASE Authorize(h)
    <3>1. UNCHANGED database
      BY <2>2 DEF Authorize
    <3> QED  BY <1>1, <2>2, <3>1, AuthorizeGood, AuthorizeRecords DEF Types
  <2>3. CASE Insert(h)
    BY <2>3, InsertKeeps, AuthorizeGood, AuthorizeRecords DEF Types
  <2>4. CASE Reload(h)
    <3>1. UNCHANGED database
      BY <2>4 DEF Reload
    <3> QED  BY <1>1, <2>4, <3>1, ReloadGood, AuthorizeRecords DEF Types
  <2>5. CASE Commit(h)
    <3>1. UNCHANGED database \/ (Change(h) /\ UNCHANGED hmacKey /\ req[h].pc = "commit")
      BY <2>5 DEF Commit, database
    <3> QED  BY <1>1, <2>5, <3>1, CommitGood, ChangeKeeps, CommitRecords DEF Types
  <2>6. CASE Log(h)
    <3>1. UNCHANGED database
      BY <2>6 DEF Log
    <3> QED  BY <1>1, <2>6, <3>1, LogGood, LogRecords DEF Types
  <2> QED  BY <1>4, <2>1, <2>2, <2>3, <2>4, <2>5, <2>6 DEF Step
<1>5. ASSUME NEW h \in Request, NEW a \in Person, NEW kind \in Kind, Ask(h, a, kind)  PROVE Types'
  BY <1>5, AskGood, StartRecords DEF Types
<1>6. ASSUME NEW h \in Request, NEW k \in links, NEW kind \in Kind, Confirm(h, k, kind)  PROVE Types'
  <2>1. k.addr \in Person
    BY DEF Types, Records, Link
  <2> QED  BY <1>6, <2>1, AskGood, StartRecords DEF Types
<1>7. ASSUME NEW h \in Request, NEW a \in Person, Leave(h, a)  PROVE Types'
  BY <1>7, AskGood, StartRecords DEF Types, Kind
<1>8. ASSUME NEW a \in Person, NEW kind \in Kind, OwnLink(a, kind)  PROVE Types'
  BY <1>1, <1>2, <1>8, OwnLinkRecords DEF Types, OwnLink
<1>9. ASSUME NEW h \in Request, NEW u \in Person \cup {Superadmin}, NEW a \in Person \cup {None},
             NEW kind \in Kind \cup {"member", "settings", "delete"}, Administrate(h, u, kind, a)
      PROVE  Types'
  BY <1>9, AdministrateGood, StartRecords DEF Types
<1>10. ASSUME NEW h \in Request, NEW x \in ListAddr, NEW a \in Person \cup {None}, CreateList(h, x, a)
       PROVE  Types'
  BY <1>10, CreateListGood, StartRecords DEF Types
<1>11. CASE Tick
  BY <1>2, <1>11, StartRecords DEF Tick, Types
<1>12. CASE Crash
  <2>1. Requests'
    BY <1>12, NoReqGood DEF Crash, Requests, GoodReq
  <2> QED  BY <1>12, <2>1, StartRecords DEF Types
<1> QED  BY <1>3, <1>4, <1>5, <1>6, <1>7, <1>8, <1>9, <1>10, <1>11, <1>12 DEF Next

LEMMA TypesBegin == Init => Types
<1> SUFFICES ASSUME Init PROVE Types
  OBVIOUS
<1>1. list = InitList /\ member = limit.members /\ known = {} /\ limit \in Limits
  BY DEF Init
<1>2. /\ limit.members \subseteq MemberRow /\ UniqueIn(InitList, limit.members)
      /\ limit.days \in 0..MaxDay /\ limit.faults \in Nat /\ limit.adminOps \in Nat
  BY <1>1, LimitsAssumption
<1>3. RepoTypeOK /\ KeysUnique
  BY <1>1, <1>2, InitAssumption DEF RepoTypeOK, KeysUnique
<1>4. hmacKey \in [{0} \cup Id -> Nat] /\ \A i \in {0} \cup Id : hmacKey[i] <= MaxId
  BY MaxIdAssumption DEF Init, Id
<1>5. Requests
  BY NoReqGood DEF Init, Requests, GoodReq
<1>6. ASSUME NEW S \in SUBSET MemberRow  PROVE OnLists(S) \subseteq ListAddr \X Address
  BY InitAssumption DEF OnLists, ListRow, MemberRow
<1>7. admitted \subseteq ListAddr \X Address /\ granted \subseteq ListAddr \X Address
  <2>1. {m \in member : m.role # Receiver} \subseteq MemberRow
    BY <1>1, <1>2
  <2>2. admitted = OnLists(member) /\ granted = OnLists({m \in member : m.role # Receiver})
    BY DEF Init
  <2>3. {m \in member : m.role # Receiver} \in SUBSET MemberRow /\ member \in SUBSET MemberRow
    BY <1>1, <1>2, <2>1
  <2> QED  BY <1>6, <2>2, <2>3
<1>8. gdpr \in [ListAddr \X Person -> Kind \cup {"none"}]
  BY InitAssumption DEF Init, Kind, ListRow
<1>9. Records
  BY <1>1, <1>7, <1>8, MaxDayAssumption DEF Init, Records
<1> QED  BY <1>3, <1>4, <1>5, <1>9, MaxIdAssumption DEF Types, Database, Bounded

LEMMA TypesAlways == Spec => []Types
<1>1. Types /\ [Next]_vars => Types'
  BY TypesKept
<1> QED  BY <1>1, TypesBegin, PTL DEF Spec

(* Every variable keeps its type, and a handler that checks, changes or    *)
(* logs something has loaded the list it is about.                         *)
THEOREM CheckbackTyped == Spec => []TypeOK
<1>1. Types => TypeOK
  <2> SUFFICES ASSUME Types PROVE TypeOK
    OBVIOUS
  <2>1. /\ req \in [Request -> ReqType]
        /\ \A h \in Request : req[h].pc \in {"check", "commit", "log"} => req[h].l \in ListRow
    BY DEF Types, Requests, GoodReq, Loaded
  <2> QED  BY <2>1 DEF Types, Database, Records, ReqType, TypeOK
<1> QED  BY <1>1, TypesAlways, PTL

-----------------------------------------------------------------------------
(* The rate limit                                                          *)

(* What a step does to requests that it does not send or record a mail     *)
(* for: none passes the limit, and none forgets what is to be recorded.    *)
Untouched(g) ==
    /\ Past(req[g])' => Past(req[g]) /\ KeyOf(req[g])' = KeyOf(req[g])
    /\ req[g].pc = "record" => req'[g].pc = "record" /\ KeyOf(req[g])' = KeyOf(req[g])

LEMMA MailQuiet ==
    ASSUME Types, MailInv, faults' = 0 => faults = 0,
           lastSent' = lastSent, mailed' = mailed, early' = early, overlap' = overlap,
           now' = now \/ now' = now + 1,
           \A g \in Request : Untouched(g)
    PROVE  MailInv'
<1> SUFFICES ASSUME faults' = 0 PROVE MailInv'
  BY DEF MailInv
<1>1. faults = 0
  OBVIOUS
<1>2. \A e \in lastSent : e.day <= now'
  <2>1. now \in Nat /\ \A e \in lastSent : e.day \in Nat /\ e.day <= now
    BY <1>1 DEF MailInv, Types, Records
  <2> QED  BY <2>1
<1>3. \A k : Recorded(k)' = Recorded(k)
  BY DEF Recorded
<1>4. \A e \in mailed : \/ e.key \in overlap \/ Recorded(e.key)
                        \/ \E h \in Request : req'[h].pc = "record" /\ KeyOf(req[h])' = e.key
  BY <1>1 DEF MailInv, Untouched
<1>5. \A h \in Request : Past(req[h])' => KeyOf(req[h])' \in overlap \/ ~Recorded(KeyOf(req[h])')
  BY <1>1 DEF MailInv, Untouched
<1>6. \A g, h \in Request :
         g # h /\ Past(req[g])' /\ Past(req[h])' /\ KeyOf(req[g])' = KeyOf(req[h])'
            => KeyOf(req[h])' \in overlap
  BY <1>1 DEF MailInv, Untouched
<1>7. early \subseteq overlap
  BY <1>1 DEF MailInv
<1> QED  BY <1>2, <1>3, <1>4, <1>5, <1>6, <1>7 DEF MailInv

(* One request changes.                                                    *)
LEMMA OtherRequests ==
    ASSUME Types, NEW h \in Request, NEW w, req' = [req EXCEPT ![h] = w]
    PROVE  /\ req'[h] = w
           /\ \A g \in Request \ {h} : req'[g] = req[g]
  BY DEF Types, Requests

LEMMA OneUntouched ==
    ASSUME Types, NEW h \in Request, NEW w, req' = [req EXCEPT ![h] = w], req[h].pc # "record",
           Past(w) => Past(req[h]) /\ KeyOf(w) = KeyOf(req[h])
    PROVE  \A g \in Request : Untouched(g)
<1>1. req'[h] = w /\ \A g \in Request \ {h} : req'[g] = req[g]
  BY OtherRequests
<1>2. Untouched(h)
  BY <1>1 DEF Untouched, Past, KeyOf
<1>3. ASSUME NEW g \in Request \ {h}  PROVE Untouched(g)
  BY <1>1, <1>3 DEF Untouched, Past, KeyOf
<1> QED  BY <1>2, <1>3

LEMMA RateLimitMail ==
    ASSUME Types, MailInv, NEW h \in Request, RateLimit(h)
    PROVE  MailInv'
<1> DEFINE refused == \E e \in lastSent : e.key = key(h) /\ e.day < now + Week
           pc == IF refused THEN "refused" ELSE "lookup"
           w == [req[h] EXCEPT !.pc = pc]
           met == \E g \in Request \ {h} : Past(req[g]) /\ KeyOf(req[g]) = KeyOf(req[h])
<1> SUFFICES ASSUME faults' = 0 PROVE MailInv'
  BY DEF MailInv
<1>1. faults = 0 /\ req[h] \in ReqType /\ req[h].pc = "rate"
  BY DEF RateLimit, bounds, Types, Requests
<1>2. req' = [req EXCEPT ![h] = w]
  BY DEF RateLimit, GoTo, Types, Requests
<1>3. w.pc = pc /\ KeyOf(w) = KeyOf(req[h])
  BY <1>1 DEF KeyOf, ReqType
<1>4. req'[h] = w /\ \A g \in Request \ {h} : req'[g] = req[g]
  BY <1>2, OtherRequests
<1>5. ~refused => ~Recorded(KeyOf(req[h]))
  <2>1. now \in Nat /\ \A e \in lastSent : e.day \in Nat /\ e.day <= now
    BY <1>1 DEF MailInv, Types, Records
  <2>2. \A e \in lastSent : e.day < now + Week
    BY <2>1, WeekAssumption
  <2> QED  BY <2>2 DEF Recorded, key, KeyOf
<1>6. overlap' = IF met THEN overlap \cup {KeyOf(req[h])} ELSE overlap
  BY DEF RateLimit, key, KeyOf, Past
<1>7. lastSent' = lastSent /\ mailed' = mailed /\ early' = early /\ now' = now
  BY DEF RateLimit
<1>8. \A k : Recorded(k)' = Recorded(k)
  BY <1>7 DEF Recorded
<1> HIDE DEF refused, met, w
<1>9. \A g \in Request \ {h} : /\ Past(req[g])' = Past(req[g])
                               /\ KeyOf(req[g])' = KeyOf(req[g]) /\ req'[g].pc = req[g].pc
  BY <1>4 DEF Past, KeyOf
<1>10. /\ Past(req[h])' <=> ~refused
       /\ KeyOf(req[h])' = KeyOf(req[h]) /\ ~Past(req[h]) /\ req[h].pc # "record"
  BY <1>1, <1>3, <1>4 DEF Past, KeyOf
<1>11. overlap \subseteq overlap'
  BY <1>6
<1>12. early \subseteq overlap /\ \A e \in lastSent : e.day <= now
  BY <1>1 DEF MailInv
<1>13. \A e \in mailed :
         \/ e.key \in overlap' \/ Recorded(e.key)
         \/ \E g \in Request : req'[g].pc = "record" /\ KeyOf(req[g])' = e.key
  BY <1>1, <1>9, <1>10, <1>11 DEF MailInv
<1>14. \A g \in Request : Past(req[g])' => KeyOf(req[g])' \in overlap' \/ ~Recorded(KeyOf(req[g])')
  BY <1>1, <1>5, <1>9, <1>10, <1>11 DEF MailInv
<1>15. \A g, i \in Request :
         g # i /\ Past(req[g])' /\ Past(req[i])' /\ KeyOf(req[g])' = KeyOf(req[i])'
            => KeyOf(req[i])' \in overlap'
  <2> SUFFICES ASSUME NEW g \in Request, NEW i \in Request, g # i,
                      Past(req[g])', Past(req[i])', KeyOf(req[g])' = KeyOf(req[i])'
               PROVE  KeyOf(req[i])' \in overlap'
    OBVIOUS
  <2>1. CASE g # h /\ i # h
    BY <1>1, <1>9, <1>11, <2>1 DEF MailInv
  <2>2. CASE g = h \/ i = h
    <3>1. met
      BY <1>9, <1>10, <2>2 DEF met
    <3> QED  BY <1>6, <1>9, <1>10, <2>2, <3>1
  <2> QED  BY <2>1, <2>2
<1> QED  BY <1>7, <1>8, <1>11, <1>12, <1>13, <1>14, <1>15 DEF MailInv

LEMMA SendLinkMail ==
    ASSUME Types, MailInv, NEW h \in Request, SendLink(h)
    PROVE  MailInv'
<1> DEFINE w == [req[h] EXCEPT !.pc = "record"]
           k == KeyOf(req[h])
           e0 == [key |-> k, day |-> now]
<1> SUFFICES ASSUME faults' = 0 PROVE MailInv'
  BY DEF MailInv
<1>1. faults = 0 /\ NoFault /\ req[h] \in ReqType /\ req[h].pc = "mail"
  BY DEF SendLink, NoFault, Fault, bounds, Types, Requests, Records
<1>2. req' = [req EXCEPT ![h] = w]
  BY <1>1 DEF SendLink, GoTo, Types, Requests, Fault, NoFault, bounds, Records
<1>3. w.pc = "record" /\ KeyOf(w) = k
  BY <1>1 DEF KeyOf, ReqType
<1>4. req'[h] = w /\ \A g \in Request \ {h} : req'[g] = req[g]
  BY <1>2, OtherRequests
<1>5. /\ mailed' = mailed \cup {e0}
      /\ \/ early' = early
         \/ early' = early \cup {k} /\ \E e \in mailed : e.key = k
      /\ lastSent' = lastSent /\ overlap' = overlap /\ now' = now
  <2>1. ~Fault
    <3>1. faults' = faults /\ faults + 1 # faults
      BY <1>1 DEF NoFault, bounds
    <3> QED  BY <3>1 DEF Fault
  <2>2. key(h) = k
    BY DEF key, KeyOf
  <2>3. /\ mailed' = mailed \cup {[key |-> key(h), day |-> now]}
        /\ early' = IF \E e \in mailed : e.key = key(h) /\ now < e.day + Week
                    THEN early \cup {key(h)} ELSE early
        /\ lastSent' = lastSent /\ overlap' = overlap /\ now' = now
    BY <2>1 DEF SendLink
  <2> HIDE DEF k
  <2>4. mailed' = mailed \cup {[key |-> k, day |-> now]}
    BY <2>2, <2>3
  <2>5. \/ early' = early
        \/ early' = early \cup {k} /\ \E e \in mailed : e.key = k
    <3>1. CASE \E e \in mailed : e.key = key(h) /\ now < e.day + Week
      <4>1. early' = early \cup {k}
        BY <2>2, <2>3, <3>1
      <4>2. \E e \in mailed : e.key = k
        BY <2>2, <3>1
      <4> QED  BY <4>1, <4>2
    <3>2. CASE ~\E e \in mailed : e.key = key(h) /\ now < e.day + Week
      BY <2>3, <3>2
    <3> QED  BY <3>1, <3>2
  <2> QED  BY <2>3, <2>4, <2>5
<1>6. \A x : Recorded(x)' = Recorded(x)
  BY <1>5 DEF Recorded
<1>7. e0.key = k
  OBVIOUS
<1> HIDE DEF w, k, e0
<1>8. \A g \in Request : Past(req[g])' = Past(req[g]) /\ KeyOf(req[g])' = KeyOf(req[g])
  BY <1>1, <1>3, <1>4 DEF Past, KeyOf, k
<1>9. \A g \in Request : req[g].pc = "record" => req'[g].pc = "record"
  BY <1>1, <1>4
<1>10. (\E e \in mailed : e.key = k) => k \in overlap
  <2> SUFFICES ASSUME NEW e \in mailed, e.key = k PROVE k \in overlap
    OBVIOUS
  <2>1. Past(req[h]) /\ KeyOf(req[h]) = k
    BY <1>1 DEF Past, k
  <2>2. CASE Recorded(k)
    BY <1>1, <2>1, <2>2 DEF MailInv
  <2>3. ASSUME NEW g \in Request, req[g].pc = "record", KeyOf(req[g]) = k  PROVE k \in overlap
    BY <1>1, <2>1, <2>3 DEF MailInv, Past
  <2> QED  BY <1>1, <2>2, <2>3 DEF MailInv
<1>11. early' \subseteq overlap /\ \A e \in lastSent : e.day <= now
  BY <1>1, <1>5, <1>10 DEF MailInv
<1>12. \A e \in mailed' :
         \/ e.key \in overlap \/ Recorded(e.key)
         \/ \E g \in Request : req'[g].pc = "record" /\ KeyOf(req[g])' = e.key
  BY <1>1, <1>3, <1>4, <1>5, <1>7, <1>8, <1>9 DEF MailInv, k
<1>13. \A g \in Request : Past(req[g])' => KeyOf(req[g])' \in overlap \/ ~Recorded(KeyOf(req[g])')
  BY <1>1, <1>8 DEF MailInv
<1>14. \A g, i \in Request :
         g # i /\ Past(req[g])' /\ Past(req[i])' /\ KeyOf(req[g])' = KeyOf(req[i])'
            => KeyOf(req[i])' \in overlap
  BY <1>1, <1>8 DEF MailInv
<1> QED  BY <1>5, <1>6, <1>11, <1>12, <1>13, <1>14 DEF MailInv

LEMMA RecordMail ==
    ASSUME Types, MailInv, NEW h \in Request, Record(h)
    PROVE  MailInv'
<1> DEFINE k == KeyOf(req[h])
           e0 == [key |-> k, day |-> now]
<1> SUFFICES ASSUME faults' = 0 PROVE MailInv'
  BY DEF MailInv
<1>1. faults = 0 /\ req[h].pc = "record"
  BY DEF Record, bounds
<1>2. req'[h] = NoReq /\ \A g \in Request \ {h} : req'[g] = req[g]
  BY OtherRequests DEF Record, Done
<1>3. /\ lastSent' = {e \in lastSent : e.key # k} \cup {e0}
      /\ mailed' = mailed /\ early' = early /\ overlap' = overlap /\ now' = now
  BY DEF Record, key, KeyOf, history, asked
<1>4. e0.key = k /\ e0.day = now
  OBVIOUS
<1> HIDE DEF k, e0
<1>5. \A x : Recorded(x)' <=> Recorded(x) \/ x = k
  BY <1>3, <1>4 DEF Recorded
<1>6. ~Past(req[h])'
  BY <1>2 DEF Past, NoReq
<1>7. \A g \in Request \ {h} : /\ Past(req[g])' = Past(req[g])
                               /\ KeyOf(req[g])' = KeyOf(req[g]) /\ req'[g].pc = req[g].pc
  BY <1>2 DEF Past, KeyOf
<1>8. early \subseteq overlap
  BY <1>1 DEF MailInv
<1>9. \A e \in lastSent' : e.day <= now
  BY <1>1, <1>3, <1>4 DEF MailInv, Types, Records
<1>10. \A e \in mailed :
         \/ e.key \in overlap \/ Recorded(e.key)'
         \/ \E g \in Request : req'[g].pc = "record" /\ KeyOf(req[g])' = e.key
  BY <1>1, <1>5, <1>7 DEF MailInv, k
<1>11. \A g \in Request : Past(req[g])' => KeyOf(req[g])' \in overlap \/ ~Recorded(KeyOf(req[g]))'
  <2> SUFFICES ASSUME NEW g \in Request, Past(req[g])', KeyOf(req[g])' \notin overlap
               PROVE  ~Recorded(KeyOf(req[g]))'
    OBVIOUS
  <2>1. g \in Request \ {h} /\ Past(req[g]) /\ KeyOf(req[g])' = KeyOf(req[g])
    BY <1>6, <1>7
  <2>2. ~Recorded(KeyOf(req[g]))
    BY <1>1, <2>1 DEF MailInv
  <2>3. KeyOf(req[g]) # k
    BY <1>1, <2>1 DEF MailInv, k, Past
  <2> QED  BY <1>5, <2>1, <2>2, <2>3
<1>12. \A g, i \in Request :
         g # i /\ Past(req[g])' /\ Past(req[i])' /\ KeyOf(req[g])' = KeyOf(req[i])'
            => KeyOf(req[i])' \in overlap
  BY <1>1, <1>6, <1>7 DEF MailInv
<1> QED  BY <1>3, <1>8, <1>9, <1>10, <1>11, <1>12 DEF MailInv

LEMMA MailKept ==
    ASSUME Types, MailInv, [Next]_vars
    PROVE  MailInv'
<1>1. \A g \in Request : req'[g] = req[g] => Untouched(g)
  BY DEF Untouched, Past, KeyOf
<1>2. faults \in Nat /\ (Fault => faults' # 0) /\ (bounds' = bounds => faults' = faults)
  BY DEF Types, Records, Fault, bounds
<1>3. ASSUME NEW h \in Request, Done(h), req[h].pc # "record"
      PROVE  \A g \in Request : Untouched(g)
  <2>1. ~Past(NoReq)
    BY DEF Past, NoReq
  <2> QED  BY <1>3, <2>1, OneUntouched DEF Done
<1>4. ASSUME NEW h \in Request, NEW pc, GoTo(h, pc), req[h].pc # "record",
             pc \in {"lookup", "mail", "record"} => Past(req[h])
      PROVE  \A g \in Request : Untouched(g)
  <2> DEFINE w == [req[h] EXCEPT !.pc = pc]
  <2>1. req' = [req EXCEPT ![h] = w]
    BY <1>4 DEF GoTo, Types, Requests
  <2>2. w.pc = pc /\ KeyOf(w) = KeyOf(req[h])
    BY DEF Types, Requests, ReqType, KeyOf
  <2>3. Past(w) => Past(req[h]) /\ KeyOf(w) = KeyOf(req[h])
    BY <1>4, <2>2 DEF Past
  <2> HIDE DEF w
  <2> QED  BY <1>4, <2>1, <2>3, OneUntouched
<1>5. ASSUME NEW h \in Request, NEW pc \in {"rate", "check", "auth", "create"}, NEW kind, NEW l, NEW a,
             NEW by, Start(h, pc, kind, l, a, by)
      PROVE  \A g \in Request : Untouched(g)
  <2> DEFINE w == [pc |-> pc, kind |-> kind, l |-> l, key |-> hmacKey[l.id], addr |-> a, by |-> by,
                   met |-> FALSE]
  <2>1. req' = [req EXCEPT ![h] = w] /\ req[h].pc # "record"
    BY <1>5 DEF Start
  <2>2. ~Past(w)
    BY DEF Past
  <2> HIDE DEF w
  <2> QED  BY <2>1, <2>2, OneUntouched
<1>6. ASSUME lastSent' = lastSent, asked' = asked, now' = now, faults' = 0 => faults = 0,
             \A g \in Request : Untouched(g)
      PROVE  MailInv'
  BY <1>6, MailQuiet DEF asked
<1>7. CASE UNCHANGED vars
  BY <1>1, <1>6, <1>7 DEF vars, history, bounds
<1>8. ASSUME NEW h \in Request, Step(h)  PROVE MailInv'
  <2>0. Fault \/ NoFault => (faults' = 0 => faults = 0)
    BY <1>2 DEF NoFault
  <2>1. CASE RateLimit(h)
    BY <2>1, RateLimitMail
  <2>2. CASE SendLink(h)
    BY <2>2, SendLinkMail
  <2>3. CASE Record(h)
    BY <2>3, RecordMail
  <2>4. CASE Lookup(h)
    <3>1. \A g \in Request : Untouched(g)
      BY <1>3, <1>4, <2>4 DEF Lookup, Past
    <3> QED  BY <1>6, <2>0, <2>4, <3>1 DEF Lookup, history
  <2>5. CASE Refuse(h)
    <3>1. \A g \in Request : Untouched(g)
      BY <1>3, <2>5 DEF Refuse
    <3> QED  BY <1>2, <1>6, <2>5, <3>1 DEF Refuse, history
  <2>6. CASE Check(h)
    <3>1. \A g \in Request : Untouched(g)
      BY <1>3, <1>4, <2>6 DEF Check
    <3> QED  BY <1>6, <2>0, <2>6, <3>1 DEF Check, history
  <2>7. CASE Authorize(h)
    <3>1. \A g \in Request : Untouched(g)
      BY <1>3, <1>4, <2>7 DEF Authorize
    <3>2. Fault \/ NoFault
      BY <2>7 DEF Authorize
    <3> QED  BY <1>6, <2>0, <2>7, <3>1, <3>2 DEF Authorize
  <2>8. CASE Insert(h)
    <3>1. \A g \in Request : Untouched(g)
      BY <1>3, <1>4, <2>8 DEF Insert
    <3>2. Fault \/ NoFault
      BY <2>8 DEF Insert
    <3> QED  BY <1>6, <2>0, <2>8, <3>1, <3>2 DEF Insert, history
  <2>9. CASE Reload(h)
    <3>1. ASSUME NEW l \in list,
                 req' = [req EXCEPT ![h] = [@ EXCEPT !.pc = "commit", !.l = l, !.key = hmacKey[l.id]]]
          PROVE  \A g \in Request : Untouched(g)
      <4> DEFINE w == [req[h] EXCEPT !.pc = "commit", !.l = l, !.key = hmacKey[l.id]]
      <4>1. req' = [req EXCEPT ![h] = w] /\ req[h].pc # "record"
        BY <2>9, <3>1 DEF Reload, Types, Requests
      <4>2. w.pc = "commit"
        BY DEF Types, Requests, ReqType
      <4>3. ~Past(w)
        BY <4>2 DEF Past
      <4> HIDE DEF w
      <4> QED  BY <4>1, <4>3, OneUntouched
    <3>2. \A g \in Request : Untouched(g)
      BY <1>3, <2>9, <3>1 DEF Reload, GetList
    <3>3. Fault \/ NoFault
      BY <2>9 DEF Reload
    <3> QED  BY <1>6, <2>0, <2>9, <3>2, <3>3 DEF Reload, history
  <2>10. CASE Commit(h)
    <3>1. CASE Done(h)
      <4>1. \A g \in Request : Untouched(g)
        BY <1>3, <2>10, <3>1 DEF Commit
      <4>2. Fault \/ NoFault
        BY <2>10 DEF Commit
      <4> QED  BY <1>6, <2>0, <2>10, <4>1, <4>2 DEF Commit
    <3>2. CASE ~Done(h)
      <4>1. \A g \in Request \ {h} :
               req'[g] = [req[g] EXCEPT !.met = @ \/ (Joining(g) /\ req[g].addr = req[h].addr)]
        BY <2>10, <3>2 DEF Commit
      <4>2. ASSUME NEW g \in Request \ {h}  PROVE Untouched(g)
        <5>1. req[g] \in ReqType
          BY DEF Types, Requests
        <5>2. req'[g].pc = req[g].pc /\ KeyOf(req'[g]) = KeyOf(req[g])
          BY <4>1, <5>1 DEF ReqType, KeyOf
        <5> QED  BY <5>2 DEF Untouched, Past, KeyOf
      <4>3. req'[h].pc \in {"log", "idle"} /\ req[h].pc = "commit"
        <5>1. req[h] \in ReqType
          BY DEF Types, Requests
        <5>2. req'[h] = [req[h] EXCEPT !.pc = "log", !.met = FALSE] \/ req'[h] = NoReq
          BY <2>10, <3>2 DEF Commit
        <5>3. NoReq.pc = "idle" /\ [req[h] EXCEPT !.pc = "log", !.met = FALSE].pc = "log"
          BY <5>1 DEF NoReq, ReqType
        <5> QED  BY <2>10, <5>2, <5>3 DEF Commit
      <4>4. Untouched(h)
        BY <4>3 DEF Untouched, Past
      <4>5. faults' = 0 => faults = 0
        BY <2>0, <2>10 DEF Commit
      <4> QED  BY <1>6, <2>10, <4>2, <4>4, <4>5 DEF Commit
    <3> QED  BY <3>1, <3>2
  <2>11. CASE Log(h)
    <3>1. \A g \in Request : Untouched(g)
      BY <1>3, <2>11 DEF Log
    <3>2. Fault \/ NoFault
      BY <2>11 DEF Log
    <3> QED  BY <1>6, <2>0, <2>11, <3>1, <3>2 DEF Log
  <2> QED  BY <1>8, <2>1, <2>2, <2>3, <2>4, <2>5, <2>6, <2>7, <2>8, <2>9, <2>10, <2>11 DEF Step
<1>9. ASSUME NEW h \in Request, NEW a, NEW kind,
             Ask(h, a, kind) \/ Leave(h, a) \/ \E k \in links : Confirm(h, k, kind)
      PROVE  MailInv'
  <2>1. \A g \in Request : Untouched(g)
    BY <1>5, <1>9 DEF Ask, Leave, Confirm
  <2> QED  BY <1>2, <1>6, <1>9, <2>1 DEF Ask, Leave, Confirm, history
<1>10. ASSUME NEW a, NEW kind, OwnLink(a, kind)  PROVE MailInv'
  BY <1>1, <1>2, <1>6, <1>10 DEF OwnLink, history
<1>11. ASSUME NEW h \in Request, NEW u, NEW kind, NEW a, NEW x,
              Administrate(h, u, kind, a) \/ CreateList(h, x, a)
       PROVE  MailInv'
  <2>1. \A g \in Request : Untouched(g)
    BY <1>5, <1>11 DEF Administrate, CreateList
  <2>2. AdminOp => faults' = faults
    BY DEF AdminOp
  <2> QED  BY <1>6, <1>11, <2>1, <2>2 DEF Administrate, CreateList, history
<1>12. CASE Tick
  BY <1>1, <1>2, <1>12, MailQuiet DEF Tick, history, asked
<1>13. CASE Crash
  BY <1>2, <1>13 DEF Crash, MailInv
<1> QED  BY <1>7, <1>8, <1>9, <1>10, <1>11, <1>12, <1>13 DEF Next

(* One address is not asked twice in a week about the same list, although  *)
(* the rate limit is checked before the mail is sent and recorded after,   *)
(* except by requests that had both passed it, and after a fault: what was *)
(* mailed is recorded, or a request is about to.                           *)
THEOREM AskedOncePerWeek == Spec => []OneMailPerWeek
<1>1. Init => MailInv
  BY DEF Init, MailInv, Past, KeyOf, NoReq, Recorded
<1>2. Types /\ MailInv /\ [Next]_vars => MailInv'
  BY MailKept
<1>3. Types /\ MailInv => OneMailPerWeek
  BY DEF Types, Records, MailInv, OneMailPerWeek
<1> QED  BY <1>1, <1>2, <1>3, TypesAlways, PTL DEF Spec

-----------------------------------------------------------------------------
(* Changes                                                                 *)

(* What a change does to the members and the lists, by its kind.           *)
Effect(kind, i, a) ==
    /\ \A j, b : Has(j, b)' <=>
                    CASE kind \in {"join", "create"} -> Has(j, b) \/ (j = i /\ b = a)
                      [] kind = "leave"  -> Has(j, b) /\ ~(j = i /\ b = a)
                      [] kind = "delete" -> Has(j, b) /\ j # i
                      [] OTHER -> Has(j, b)
    /\ \A m \in member' :
          \/ m \in member
          \/ m.list = i /\ m.address = a /\ kind \in {"join", "create", "member"}
                        /\ (kind = "join" => m.role = Receiver)
                        /\ (kind = "member" => Has(i, a))
    /\ \A l \in list' : \E r \in list : l.id = r.id /\ l.addr = r.addr
    /\ \A r \in list : (kind = "delete" /\ r.id = i) \/ \E l \in list' : l.id = r.id /\ l.addr = r.addr
    /\ kind = "delete" => \A l \in list' : l.id # i
    /\ kind # "settings" => list' \subseteq list

LEMMA ChangeHas ==
    ASSUME Types, NEW h \in Request, req[h].pc = "commit", Change(h)
    PROVE  Effect(req[h].kind, req[h].l.id, req[h].addr)
<1> DEFINE l == req[h].l
           a == req[h].addr
           kind == req[h].kind
<1>1. RepoTypeOK /\ KeysUnique /\ GoodReq(req[h])
  BY DEF Types, Database, Requests
<1>2. l \in ListRow /\ l.id \in Id /\ l.addr \in ListAddr
  BY <1>1 DEF GoodReq, Loaded, ListRow
<1>3. kind \in {"settings", "delete"} \/ a \in Person
  BY <1>1 DEF GoodReq
<1>4. a \in Person => a # l.addr
  BY <1>2, AddressAssumption
<1>5. kind \in {"join", "leave", "create", "member", "settings", "delete"}
  BY DEF Change
<1>6. list' = list => /\ \A x \in list' : \E r \in list : x.id = r.id /\ x.addr = r.addr
                      /\ \A r \in list : \E x \in list' : x.id = r.id /\ x.addr = r.addr
                      /\ list' \subseteq list
  OBVIOUS
<1>7. CASE kind \in {"join", "create"}
  <2>1. PICK role : AddMembers(l, {a}, role) /\ (kind = "join" => role = Receiver)
    BY <1>7 DEF Change
  <2>2. a # l.addr
    BY <1>3, <1>4, <1>7
  <2> HIDE DEF l, a, kind
  <2>3. /\ \A i, b : Has(i, b)' <=> Has(i, b) \/ (i = l.id /\ b = a)
        /\ \A m \in member' : m \in member \/ m = [list |-> l.id, address |-> a, role |-> role]
        /\ list' = list
    BY <2>1, <2>2, AddedHas
  <2>4. \A m \in member' :
           m \in member \/ (m.list = l.id /\ m.address = a /\ (kind = "join" => m.role = Receiver))
    BY <2>1, <2>3
  <2>5. Effect(kind, l.id, a)
    BY <1>6, <1>7, <2>3, <2>4 DEF Effect
  <2> QED  BY <2>5 DEF kind, l, a
<1>8. CASE kind = "leave"
  <2>1. RemoveMembers(l, {a})
    BY <1>8 DEF Change
  <2> HIDE DEF l, a, kind
  <2>2. /\ \A i, b : Has(i, b)' <=> Has(i, b) /\ ~(i = l.id /\ b = a)
        /\ member' \subseteq member /\ list' = list
    BY <2>1, RemovedHas
  <2>3. Effect(kind, l.id, a)
    BY <1>6, <1>8, <2>2 DEF Effect
  <2> QED  BY <2>3 DEF kind, l, a
<1>9. CASE kind = "member"
  <2>1. PICK role \in RoleChoice : UpdateMember(l, a, role)
    BY <1>9 DEF Change
  <2> HIDE DEF l, a, kind
  <2>2. /\ \A i, b : Has(i, b)' <=> Has(i, b)
        /\ \A m \in member' : m \in member \/ (m.list = l.id /\ m.address = a /\ Has(l.id, a))
        /\ list' = list
    BY <1>1, <2>1, UpdatedHas
  <2>3. Effect(kind, l.id, a)
    BY <1>6, <1>9, <2>2 DEF Effect
  <2> QED  BY <2>3 DEF kind, l, a
<1>10. CASE kind = "settings"
  <2>1. PICK set \in SettingsChoice : Update(l, set)
    BY <1>10 DEF Change
  <2> HIDE DEF l, a, kind
  <2>2. \A r \in list : \E x \in list' : x.id = r.id /\ x.addr = r.addr
    BY <1>1, <2>1, UpdatedRow
  <2>3. \A x \in list' : \E r \in list : x.id = r.id /\ x.addr = r.addr
    BY <1>1, <2>1 DEF Update, RepoTypeOK, ListRow
  <2>4. member' = member
    BY <2>1 DEF Update
  <2>5. \A i, b : Has(i, b)' <=> Has(i, b)
    BY <2>4 DEF Has
  <2>6. Effect(kind, l.id, a)
    BY <1>10, <2>2, <2>3, <2>4, <2>5 DEF Effect
  <2> QED  BY <2>6 DEF kind, l, a
<1>11. CASE kind = "delete"
  <2>1. Delete(l)
    BY <1>11 DEF Change
  <2> HIDE DEF l, a, kind
  <2>2. /\ \A i, b : Has(i, b)' <=> Has(i, b) /\ i # l.id
        /\ member' \subseteq member /\ \A x : x \in list' <=> x \in list /\ x.id # l.id
    BY <2>1, DeletedHas
  <2>3. Effect(kind, l.id, a)
    BY <1>11, <2>2 DEF Effect
  <2> QED  BY <2>3 DEF kind, l, a
<1> QED  BY <1>5, <1>7, <1>8, <1>9, <1>10, <1>11

-----------------------------------------------------------------------------
(* Confirmations                                                           *)

(* A step of one request that changes no member, and confirms only for an  *)
(* address that is no member.                                              *)
LEMMA OneConfirms ==
    ASSUME Types, MetInv, NEW h \in Request, NEW w, req' = [req EXCEPT ![h] = w], member' = member,
           Confirming(w) => w.met \/ ~Has(w.l.id, w.addr)
    PROVE  MetInv'
<1>1. \A i, a : Has(i, a)' = Has(i, a)
  BY DEF Has
<1>2. req'[h] = w /\ \A g \in Request \ {h} : req'[g] = req[g]
  BY OtherRequests
<1>3. \A g \in Request : Confirming(req'[g]) => req'[g].met \/ ~Has(req'[g].l.id, req'[g].addr)
  BY <1>2 DEF MetInv
<1> QED  BY <1>1, <1>3 DEF MetInv

LEMMA CommitConfirms ==
    ASSUME Types, MetInv, NEW h \in Request, Commit(h)
    PROVE  MetInv'
<1>1. ~Confirming(NoReq)
  BY DEF Confirming, NoReq
<1>2. CASE Done(h) /\ UNCHANGED tables
  BY <1>1, <1>2, OneConfirms DEF Done, tables
<1>3. CASE Change(h) /\ ~(Done(h) /\ UNCHANGED tables)
  <2> DEFINE r == req[h]
  <2>1. Effect(r.kind, r.l.id, r.addr)
    BY <1>3, ChangeHas DEF Commit
  <2>2. ASSUME NEW g \in Request \ {h}, Confirming(req'[g])
        PROVE  (req[g].met \/ ~Has(req[g].l.id, req[g].addr))'
    <3> DEFINE b == req[g].met \/ (Joining(g) /\ req[g].addr = r.addr)
    <3>1. req'[g] = [req[g] EXCEPT !.met = b] /\ req[g] \in ReqType
      BY <1>3 DEF Commit, Types, Requests, ReqType
    <3>2. /\ req'[g].met = b /\ req'[g].l = req[g].l /\ req'[g].addr = req[g].addr
          /\ req'[g].pc = req[g].pc /\ req'[g].kind = req[g].kind /\ req'[g].by = req[g].by
      BY <3>1 DEF ReqType
    <3>3. Confirming(req[g]) /\ Joining(g)
      BY <2>2, <3>2 DEF Confirming, Joining
    <3>4. CASE req[g].addr = r.addr
      BY <3>2, <3>3, <3>4
    <3>5. CASE req[g].addr # r.addr
      <4>1. PICK i, a : i = req[g].l.id /\ a = req[g].addr
        OBVIOUS
      <4>2. Has(i, a)' => Has(i, a)
        <5>1. \A j, c : Has(j, c)' /\ c # r.addr => Has(j, c)
          <6> HIDE DEF r
          <6> QED  BY <2>1 DEF Effect
        <5> QED  BY <3>5, <4>1, <5>1
      <4>3. req[g].met \/ ~Has(i, a)
        BY <3>3, <4>1 DEF MetInv
      <4>4. req'[g].l.id = i /\ req'[g].addr = a
        BY <3>2, <4>1
      <4>5. req'[g].met \/ ~Has(i, a)'
        BY <3>2, <4>2, <4>3
      <4> QED  BY <4>4, <4>5 DEF Has
    <3> QED  BY <3>4, <3>5
  <2>3. ~Confirming(req'[h])
    <3>1. r \in ReqType
      BY DEF Types, Requests
    <3>2. req'[h] = [r EXCEPT !.pc = "log", !.met = FALSE] \/ req'[h] = NoReq
      BY <1>3 DEF Commit
    <3>3. NoReq.pc = "idle" /\ [r EXCEPT !.pc = "log", !.met = FALSE].pc = "log"
      BY <3>1 DEF NoReq, ReqType
    <3> QED  BY <3>2, <3>3 DEF Confirming
  <2> QED  BY <2>2, <2>3 DEF MetInv
<1> QED  BY <1>2, <1>3 DEF Commit

LEMMA MetKept ==
    ASSUME Types, MetInv, [Next]_vars
    PROVE  MetInv'
<1>1. ASSUME member' = member, req' = req  PROVE MetInv'
  BY <1>1 DEF MetInv, Has
<1>2. ASSUME NEW h \in Request, Done(h), member' = member  PROVE MetInv'
  <2>1. ~Confirming(NoReq)
    BY DEF Confirming, NoReq
  <2> QED  BY <1>2, <2>1, OneConfirms DEF Done
<1>3. ASSUME NEW h \in Request, NEW pc, GoTo(h, pc), member' = member,
             pc = "commit" /\ req[h].by = "user" /\ req[h].kind = "join"
                => ~Has(req[h].l.id, req[h].addr)
      PROVE  MetInv'
  <2> DEFINE w == [req[h] EXCEPT !.pc = pc]
  <2>1. req' = [req EXCEPT ![h] = w] /\ req[h] \in ReqType
    BY <1>3 DEF GoTo, Types, Requests
  <2>2. /\ w.pc = pc /\ w.by = req[h].by /\ w.kind = req[h].kind
        /\ w.l = req[h].l /\ w.addr = req[h].addr
    BY <2>1 DEF ReqType
  <2>3. Confirming(w) => w.met \/ ~Has(w.l.id, w.addr)
    BY <1>3, <2>2 DEF Confirming
  <2> HIDE DEF w
  <2> QED  BY <1>3, <2>1, <2>3, OneConfirms
<1>4. ASSUME NEW h \in Request, NEW pc \in {"rate", "check", "auth", "create"}, NEW kind, NEW l, NEW a,
             NEW by, Start(h, pc, kind, l, a, by), member' = member
      PROVE  MetInv'
  <2> DEFINE w == [pc |-> pc, kind |-> kind, l |-> l, key |-> hmacKey[l.id], addr |-> a, by |-> by,
                   met |-> FALSE]
  <2>1. req' = [req EXCEPT ![h] = w] /\ ~Confirming(w)
    BY <1>4 DEF Start, Confirming
  <2> HIDE DEF w
  <2> QED  BY <1>4, <2>1, OneConfirms
<1>5. CASE UNCHANGED vars
  BY <1>1, <1>5 DEF vars, database, tables
<1>6. ASSUME NEW h \in Request, Step(h)  PROVE MetInv'
  <2>1. CASE RateLimit(h)
    BY <1>3, <2>1 DEF RateLimit, database, tables
  <2>2. CASE Lookup(h)
    BY <1>2, <1>3, <2>2 DEF Lookup, database, tables
  <2>3. CASE SendLink(h)
    BY <1>2, <1>3, <2>3 DEF SendLink, database, tables
  <2>4. CASE Record(h) \/ Refuse(h) \/ Log(h)
    BY <1>2, <2>4 DEF Record, Refuse, Log, database, tables
  <2>5. CASE Check(h)
    <3>1. IsMember(req[h].l, req[h].addr) <=> Has(req[h].l.id, req[h].addr)
      BY DEF IsMember, Rows, Has
    <3> QED  BY <1>2, <1>3, <2>5, <3>1 DEF Check, database, tables
  <2>6. CASE Authorize(h)
    <3>1. req[h].by # "user"
      BY <2>6 DEF Authorize, Types, Requests, GoodReq
    <3> QED  BY <1>2, <1>3, <2>6, <3>1 DEF Authorize, database, tables
  <2>7. CASE Insert(h)
    BY <1>2, <1>3, <2>7 DEF Insert, Create, database, tables
  <2>8. CASE Reload(h)
    <3>1. ASSUME NEW l \in list,
                 req' = [req EXCEPT ![h] = [@ EXCEPT !.pc = "commit", !.l = l, !.key = hmacKey[l.id]]]
          PROVE  MetInv'
      <4> DEFINE w == [req[h] EXCEPT !.pc = "commit", !.l = l, !.key = hmacKey[l.id]]
      <4>1. req' = [req EXCEPT ![h] = w] /\ req[h] \in ReqType /\ req[h].kind = "create"
        BY <2>8, <3>1 DEF Reload, Types, Requests, GoodReq
      <4>2. w.kind = "create"
        BY <4>1 DEF ReqType
      <4>3. ~Confirming(w)
        BY <4>2 DEF Confirming
      <4> HIDE DEF w
      <4> QED  BY <2>8, <4>1, <4>3, OneConfirms DEF Reload, database, tables
    <3> QED  BY <1>2, <2>8, <3>1 DEF Reload, GetList, database, tables
  <2>9. CASE Commit(h)
    BY <2>9, CommitConfirms
  <2> QED  BY <1>6, <2>1, <2>2, <2>3, <2>4, <2>5, <2>6, <2>7, <2>8, <2>9 DEF Step
<1>7. ASSUME NEW h \in Request, NEW a, NEW kind, NEW u, NEW x,
             \/ Ask(h, a, kind) \/ Leave(h, a) \/ \E k \in links : Confirm(h, k, kind)
             \/ Administrate(h, u, kind, a) \/ CreateList(h, x, a)
      PROVE  MetInv'
  BY <1>4, <1>7 DEF Ask, Leave, Confirm, Administrate, CreateList, database, tables
<1>8. CASE Tick \/ \E a, kind : OwnLink(a, kind)
  BY <1>1, <1>8 DEF Tick, OwnLink, database, tables
<1>9. CASE Crash
  BY <1>9 DEF Crash, MetInv, Confirming, NoReq
<1> QED  BY <1>5, <1>6, <1>7, <1>8, <1>9 DEF Next

(* "non-members only": a confirmation replaces nobody's row, and so takes  *)
(* nobody's roles away, although the check and the change are not one      *)
(* step, except when another change of the address came between.           *)
THEOREM ConfirmedKeepRoles == Spec => ConfirmKeepsRoles
<1>1. Init => MetInv
  BY DEF Init, MetInv, Confirming, NoReq
<1>2. Types /\ MetInv /\ [Next]_vars => MetInv'
  BY MetKept
<1>3. MetInv => \A h \in Request : Joining(h) => req[h].met \/ ~IsMember(req[h].l, req[h].addr)
  BY DEF MetInv, Joining, Confirming, Has, IsMember, Rows
<1>4. MetInv => [\A h \in Request :
                    Joining(h) /\ req'[h].pc = "log"
                       => req[h].met \/ ~IsMember(req[h].l, req[h].addr)]_vars
  BY <1>3
<1> QED  BY <1>1, <1>2, <1>4, TypesAlways, PTL DEF Spec, ConfirmKeepsRoles

-----------------------------------------------------------------------------
(* Secrets                                                                 *)

SecretOf(r, rows, keys) == NotNewer(r.key, keys) /\ KeyOfList(r, rows, keys)

LEMMA NoSecret ==
    ASSUME Types
    PROVE  SecretOf(NoReq, list, hmacKey)
<1>1. NoReq.key <= hmacKey[0]
  BY DEF Types, Database, NoReq
<1> QED  BY <1>1 DEF SecretOf, NotNewer, KeyOfList, NoReq, Loaded

(* Who loads a list gets its secret.                                       *)
LEMMA LoadedSecret ==
    ASSUME Types, Secrets, NEW l \in list, NEW r, r.l = l, r.key = hmacKey[l.id]
    PROVE  SecretOf(r, list, hmacKey)
<1>1. l.id \in Id /\ hmacKey[l.id] \in Nat
  BY DEF Types, Database, RepoTypeOK, ListRow
<1>2. NotNewer(r.key, hmacKey)
  <2>1. hmacKey[l.id] <= hmacKey[l.id]
    BY <1>1
  <2>2. \E i \in {0} \cup Id : hmacKey[l.id] <= hmacKey[i]
    BY <1>1, <2>1
  <2> QED  BY <2>2 DEF NotNewer
<1>3. KeyOfList(r, list, hmacKey)
  BY DEF Secrets, OwnKeys, KeyOfList
<1> QED  BY <1>2, <1>3 DEF SecretOf

LEMMA OneSecret ==
    ASSUME Types, Secrets, UNCHANGED database, NEW h \in Request, NEW w,
           req' = [req EXCEPT ![h] = w], SecretOf(w, list, hmacKey),
           \A k \in links' : k \in links \/ NotNewer(k.key, hmacKey)
    PROVE  Secrets'
<1>1. req'[h] = w /\ \A g \in Request \ {h} : req'[g] = req[g]
  BY OtherRequests
<1>2. list' = list /\ hmacKey' = hmacKey
  BY DEF database, tables
<1>3. \A g \in Request : NotNewer(req'[g].key, hmacKey) /\ KeyOfList(req'[g], list, hmacKey)
  BY <1>1 DEF Secrets, SecretOf
<1> QED  BY <1>2, <1>3 DEF Secrets

LEMMA SecretSteps ==
    ASSUME Types, Secrets, UNCHANGED database, NEW h \in Request,
           \A k \in links' : k \in links \/ NotNewer(k.key, hmacKey)
    PROVE  /\ Done(h) => Secrets'
           /\ \A pc : GoTo(h, pc) /\ (pc \in Loaded => req[h].pc \in Loaded) => Secrets'
           /\ \A pc, kind, a, by : \A l \in list : Start(h, pc, kind, l, a, by) => Secrets'
<1>1. ASSUME Done(h)  PROVE Secrets'
  BY <1>1, NoSecret, OneSecret DEF Done
<1>2. ASSUME NEW pc, GoTo(h, pc), pc \in Loaded => req[h].pc \in Loaded  PROVE Secrets'
  <2> DEFINE w == [req[h] EXCEPT !.pc = pc]
  <2>1. req' = [req EXCEPT ![h] = w] /\ req[h] \in ReqType
    BY <1>2 DEF GoTo, Types, Requests
  <2>2. w.pc = pc /\ w.key = req[h].key /\ w.l = req[h].l
    BY <2>1 DEF ReqType
  <2>3. SecretOf(w, list, hmacKey)
    BY <1>2, <2>2 DEF Secrets, SecretOf, KeyOfList
  <2> HIDE DEF w
  <2> QED  BY <2>1, <2>3, OneSecret
<1>3. ASSUME NEW pc, NEW kind, NEW a, NEW by, NEW l \in list, Start(h, pc, kind, l, a, by)
      PROVE  Secrets'
  <2> DEFINE w == [pc |-> pc, kind |-> kind, l |-> l, key |-> hmacKey[l.id], addr |-> a, by |-> by,
                   met |-> FALSE]
  <2>1. req' = [req EXCEPT ![h] = w] /\ w.l = l /\ w.key = hmacKey[l.id]
    BY <1>3 DEF Start
  <2> HIDE DEF w
  <2>2. SecretOf(w, list, hmacKey)
    BY <2>1, LoadedSecret
  <2> QED  BY <2>1, <2>2, OneSecret
<1> QED  BY <1>1, <1>2, <1>3

LEMMA InsertSecrets ==
    ASSUME Types, Secrets, NEW h \in Request, Insert(h)
    PROVE  Secrets'
<1>1. links' = links
  BY DEF Insert
<1>2. CASE UNCHANGED database
  <2>1. Done(h) \/ GoTo(h, "reload")
    BY DEF Insert
  <2>2. "reload" \notin Loaded
    BY DEF Loaded
  <2> QED  BY <1>1, <1>2, <2>1, <2>2, SecretSteps
<1>3. CASE ~UNCHANGED database
  <2> DEFINE n == 1 + Max(Range(hmacKey))
             new == [id |-> NextId, addr |-> req[h].l.addr, set |-> DefaultSettings]
             w == [req[h] EXCEPT !.pc = "reload"]
  <2>1. /\ NextId \in Id /\ list' = list \cup {new} /\ hmacKey' = [hmacKey EXCEPT ![NextId] = n]
        /\ GoTo(h, "reload")
    BY <1>3 DEF Insert, Create
  <2>2. n \in Nat /\ \A i \in {0} \cup Id : hmacKey[i] < n
    BY NewSecret DEF Types
  <2>3. \A l \in list : l.id \in Id /\ l.id < NextId /\ l.id \in Nat /\ NextId \in Nat
    BY FreshId, MaxIdAssumption DEF Types, Database, RepoTypeOK, ListRow, Id
  <2>4. \A l \in list : l.id \in Id /\ l.id # NextId
    BY <2>3
  <2>5. new.id = NextId
    OBVIOUS
  <2>6. req' = [req EXCEPT ![h] = w] /\ req[h] \in ReqType
    BY <2>1 DEF GoTo, Types, Requests
  <2>7. w.pc = "reload" /\ w.key = req[h].key
    BY <2>6 DEF ReqType
  <2>8. req'[h] = w /\ \A g \in Request \ {h} : req'[g] = req[g]
    BY <2>6, OtherRequests
  <2>9. hmacKey \in [{0} \cup Id -> Nat]
    BY DEF Types, Database
  <2> HIDE DEF n, new, w
  <2>10. /\ hmacKey'[NextId] = n
         /\ \A i \in {0} \cup Id : i # NextId => hmacKey'[i] = hmacKey[i]
    BY <2>1, <2>9
  <2>11. \A k \in Nat : NotNewer(k, hmacKey) => NotNewer(k, hmacKey') /\ k # n
    <3> SUFFICES ASSUME NEW k \in Nat, NEW i \in {0} \cup Id, k <= hmacKey[i]
                 PROVE  NotNewer(k, hmacKey') /\ k # n
      BY DEF NotNewer
    <3>1. hmacKey[i] \in Nat /\ hmacKey[i] < n
      BY <2>2, <2>9
    <3>2. k < n
      BY <2>2, <3>1
    <3>3. CASE i = NextId
      BY <2>1, <2>2, <2>10, <3>2, <3>3 DEF NotNewer
    <3>4. CASE i # NextId
      BY <2>2, <2>10, <3>2, <3>4 DEF NotNewer
    <3> QED  BY <3>3, <3>4
  <2>12. \A g \in Request : req[g].key \in Nat /\ NotNewer(req[g].key, hmacKey)
    BY DEF Secrets, Types, Requests, ReqType
  <2>13. \A g \in Request : NotNewer(req'[g].key, hmacKey')
    BY <2>7, <2>8, <2>11, <2>12
  <2>14. \A k \in links : NotNewer(k.key, hmacKey')
    BY <2>11 DEF Secrets, Types, Records, Link
  <2>15. ASSUME NEW g \in Request  PROVE KeyOfList(req'[g], list', hmacKey')
    <3>1. CASE g = h
      BY <2>7, <2>8, <3>1 DEF KeyOfList, Loaded
    <3>2. CASE g # h
      <4>1. KeyOfList(req[g], list, hmacKey) /\ req'[g] = req[g] /\ req[g].key # n
        BY <2>8, <2>11, <2>12, <3>2 DEF Secrets
      <4> QED  BY <2>1, <2>4, <2>5, <2>10, <4>1 DEF KeyOfList
    <3> QED  BY <3>1, <3>2
  <2>16. OwnKeys(list', hmacKey')
    <3>1. \A l \in list : hmacKey[l.id] # n /\ hmacKey'[l.id] = hmacKey[l.id]
      <4>1. \A i \in {0} \cup Id : hmacKey[i] # n
        BY <2>2, <2>9
      <4> QED  BY <2>4, <2>10, <4>1
    <3>2. OwnKeys(list, hmacKey)
      BY DEF Secrets
    <3> QED  BY <2>1, <2>5, <2>10, <3>1, <3>2 DEF OwnKeys
  <2> QED  BY <1>1, <2>13, <2>14, <2>15, <2>16 DEF Secrets
<1> QED  BY <1>2, <1>3

(* What becomes of the requests when one changes the tables.               *)
LEMMA CommitFails ==
    ASSUME Types, NEW h \in Request, Commit(h), Fault
    PROVE  Done(h) /\ UNCHANGED <<tables, gdpr, letIn, missed>>
<1>1. ~NoFault
  BY DEF Types, Records, Fault, NoFault, bounds
<1> QED  BY <1>1 DEF Commit

LEMMA CommitRequests ==
    ASSUME Types, NEW h \in Request, Commit(h), ~Fault
    PROVE  /\ \A g \in Request \ {h} :
                 /\ req'[g].pc = req[g].pc /\ req'[g].kind = req[g].kind /\ req'[g].by = req[g].by
                 /\ req'[g].l = req[g].l /\ req'[g].key = req[g].key /\ req'[g].addr = req[g].addr
           /\ \/ /\ req'[h].pc = "log" /\ req'[h].kind = req[h].kind /\ req'[h].l = req[h].l
                 /\ req'[h].key = req[h].key /\ req'[h].addr = req[h].addr
                 /\ req[h].kind \in {"join", "leave", "create"}
              \/ /\ req'[h] = NoReq
                 /\ req[h].kind \notin {"join", "leave", "create"}
           /\ Change(h) /\ Remember(h) /\ NoFault /\ req[h].pc = "commit"
<1>1. \A g \in Request : req[g] \in ReqType
  BY DEF Types, Requests
<1>2. ASSUME NEW g \in Request \ {h}
      PROVE  /\ req'[g].pc = req[g].pc /\ req'[g].kind = req[g].kind /\ req'[g].by = req[g].by
             /\ req'[g].l = req[g].l /\ req'[g].key = req[g].key /\ req'[g].addr = req[g].addr
  <2> DEFINE b == req[g].met \/ (Joining(g) /\ req[g].addr = req[h].addr)
  <2>1. req'[g] = [req[g] EXCEPT !.met = b] /\ req[g] \in ReqType
    BY <1>1 DEF Commit, ReqType
  <2> HIDE DEF b
  <2> QED  BY <2>1 DEF ReqType
<1>3. \/ /\ req'[h] = [req[h] EXCEPT !.pc = "log", !.met = FALSE]
         /\ req[h].kind \in {"join", "leave", "create"}
      \/ /\ req'[h] = NoReq
         /\ req[h].kind \notin {"join", "leave", "create"}
  BY DEF Commit
<1>4. CASE req'[h] = [req[h] EXCEPT !.pc = "log", !.met = FALSE]
  <2>1. /\ req'[h].pc = "log" /\ req'[h].kind = req[h].kind /\ req'[h].l = req[h].l
        /\ req'[h].key = req[h].key /\ req'[h].addr = req[h].addr
    BY <1>1, <1>4 DEF ReqType
  <2>2. NoReq.pc = "idle"
    BY DEF NoReq
  <2> QED  BY <1>2, <1>3, <2>1, <2>2 DEF Commit
<1>5. CASE req'[h] = NoReq
  <2>1. NoReq.pc = "idle" /\ [req[h] EXCEPT !.pc = "log", !.met = FALSE].pc = "log"
    BY <1>1 DEF NoReq, ReqType
  <2> QED  BY <1>2, <1>3, <1>5, <2>1 DEF Commit
<1> QED  BY <1>3, <1>4, <1>5

LEMMA CommitSecrets ==
    ASSUME Types, Secrets, NEW h \in Request, Commit(h), KeysUnique'
    PROVE  Secrets'
<1>1. links' = links /\ hmacKey' = hmacKey
  BY DEF Commit
<1>2. CASE Fault
  BY <1>1, <1>2, CommitFails, SecretSteps DEF database
<1>3. CASE ~Fault
  <2>1. Change(h) /\ req[h].pc = "commit"
    BY <1>3, CommitRequests
  <2>2. \A l \in list' : \E r \in list : l.id = r.id /\ l.addr = r.addr
    BY <2>1, ChangeHas DEF Effect
  <2>3. OwnKeys(list', hmacKey)
    <3>1. ASSUME NEW l1 \in list', NEW l2 \in list', hmacKey[l1.id] = hmacKey[l2.id]  PROVE l1 = l2
      <4>1. PICK r1 \in list : l1.id = r1.id
        BY <2>2
      <4>2. PICK r2 \in list : l2.id = r2.id
        BY <2>2
      <4>3. r1 = r2
        BY <3>1, <4>1, <4>2 DEF Secrets, OwnKeys
      <4> QED  BY <4>1, <4>2, <4>3 DEF KeysUnique, UniqueIn
    <3> QED  BY <3>1 DEF OwnKeys
  <2>4. ASSUME NEW r, NEW w, w.pc \in Loaded => r.pc \in Loaded, w.l = r.l, w.key = r.key,
               SecretOf(r, list, hmacKey)
        PROVE  SecretOf(w, list', hmacKey)
    BY <2>2, <2>4 DEF SecretOf, KeyOfList
  <2>5. \A g \in Request : SecretOf(req[g], list, hmacKey)
    BY DEF Secrets, SecretOf
  <2>6. ASSUME NEW g \in Request  PROVE SecretOf(req'[g], list', hmacKey)
    <3>1. CASE g # h
      BY <1>3, <2>4, <2>5, <3>1, CommitRequests
    <3>2. CASE g = h /\ req'[h] = NoReq
      <4>1. SecretOf(NoReq, list, hmacKey)
        BY NoSecret
      <4> QED  BY <2>4, <3>2, <4>1
    <3>3. CASE g = h /\ req'[h] # NoReq
      <4>1. "commit" \in Loaded
        BY DEF Loaded
      <4> QED  BY <1>3, <2>1, <2>4, <2>5, <3>3, <4>1, CommitRequests
    <3> QED  BY <3>1, <3>2, <3>3
  <2> QED  BY <1>1, <2>3, <2>6 DEF Secrets, SecretOf
<1> QED  BY <1>2, <1>3

LEMMA SecretsKept ==
    ASSUME Types, Secrets, [Next]_vars
    PROVE  Secrets'
<1>1. Types'
  BY TypesKept
<1>2. ASSUME UNCHANGED database, req' = req, \A k \in links' : k \in links \/ NotNewer(k.key, hmacKey)
      PROVE  Secrets'
  BY <1>2 DEF Secrets, database, tables
<1>3. CASE UNCHANGED vars
  BY <1>2, <1>3 DEF vars
<1>4. ASSUME NEW h \in Request, Step(h)  PROVE Secrets'
  <2>1. CASE RateLimit(h) \/ Lookup(h) \/ Record(h) \/ Refuse(h) \/ Check(h) \/ Log(h)
    BY <2>1, SecretSteps DEF RateLimit, Lookup, Record, Refuse, Check, Log, Loaded
  <2>2. CASE SendLink(h)
    <3>1. NotNewer(LinkTo(req[h].l, req[h].key, req[h].addr).key, hmacKey)
      BY DEF LinkTo, Secrets
    <3>2. \A k \in links' : k \in links \/ NotNewer(k.key, hmacKey)
      BY <2>2, <3>1 DEF SendLink
    <3> QED  BY <2>2, <3>2, SecretSteps DEF SendLink, Loaded
  <2>3. CASE Authorize(h)
    BY <2>3, SecretSteps DEF Authorize, Loaded
  <2>4. CASE Insert(h)
    BY <2>4, InsertSecrets
  <2>5. CASE Reload(h)
    <3>1. ASSUME NEW l \in list,
                 req' = [req EXCEPT ![h] = [@ EXCEPT !.pc = "commit", !.l = l, !.key = hmacKey[l.id]]]
          PROVE  Secrets'
      <4> DEFINE w == [req[h] EXCEPT !.pc = "commit", !.l = l, !.key = hmacKey[l.id]]
      <4>1. req' = [req EXCEPT ![h] = w] /\ req[h] \in ReqType
        BY <3>1 DEF Types, Requests
      <4>2. w.l = l /\ w.key = hmacKey[l.id]
        BY <4>1 DEF ReqType
      <4> HIDE DEF w
      <4>3. SecretOf(w, list, hmacKey)
        BY <4>2, LoadedSecret
      <4> QED  BY <2>5, <4>1, <4>3, OneSecret DEF Reload
    <3>2. UNCHANGED database /\ links' = links
      BY <2>5 DEF Reload
    <3> QED  BY <2>5, <3>1, <3>2, SecretSteps DEF Reload, GetList
  <2>6. CASE Commit(h)
    BY <1>1, <2>6, CommitSecrets DEF Types, Database
  <2> QED  BY <1>4, <2>1, <2>2, <2>3, <2>4, <2>5, <2>6 DEF Step
<1>5. ASSUME NEW h \in Request, NEW a, NEW kind, NEW u,
             Ask(h, a, kind) \/ Leave(h, a) \/ Administrate(h, u, kind, a)
      PROVE  Secrets'
  BY <1>5, SecretSteps DEF Ask, Leave, Administrate
<1>6. ASSUME NEW h \in Request, NEW k \in links, NEW kind, Confirm(h, k, kind)  PROVE Secrets'
  <2>1. PICK l \in list : Start(h, "check", kind, l, k.addr, "user")
    BY <1>6 DEF Confirm, GetList
  <2> QED  BY <1>6, <2>1, SecretSteps DEF Confirm
<1>7. ASSUME NEW a, NEW kind, OwnLink(a, kind)  PROVE Secrets'
  <2>1. PICK l \in list : links' = links \cup {LinkTo(l, hmacKey[l.id], a)}
    BY <1>7 DEF OwnLink
  <2>2. l.id \in Id /\ hmacKey[l.id] \in Nat
    BY DEF Types, Database, RepoTypeOK, ListRow
  <2>3. NotNewer(hmacKey[l.id], hmacKey)
    <3>1. hmacKey[l.id] <= hmacKey[l.id]
      BY <2>2
    <3> QED  BY <2>2, <3>1 DEF NotNewer
  <2>4. LinkTo(l, hmacKey[l.id], a).key = hmacKey[l.id]
    BY DEF LinkTo
  <2> QED  BY <1>2, <1>7, <2>1, <2>3, <2>4 DEF OwnLink
<1>8. ASSUME NEW h \in Request, NEW x, NEW a, CreateList(h, x, a)  PROVE Secrets'
  <2> DEFINE n == [NoRow EXCEPT !.addr = x]
             w == [pc |-> "create", kind |-> "create", l |-> n, key |-> hmacKey[n.id],
                   addr |-> a, by |-> Superadmin, met |-> FALSE]
  <2>1. req' = [req EXCEPT ![h] = w]
    BY <1>8 DEF CreateList, Start
  <2>2. n.id = 0 /\ hmacKey[0] <= hmacKey[0]
    BY DEF NoRow, Types, Database
  <2>3. w.key = hmacKey[0] /\ w.pc = "create"
    BY <2>2
  <2> HIDE DEF w
  <2>4. SecretOf(w, list, hmacKey)
    BY <2>2, <2>3 DEF SecretOf, NotNewer, KeyOfList, Loaded
  <2> QED  BY <1>8, <2>1, <2>4, OneSecret DEF CreateList
<1>9. CASE Tick
  BY <1>2, <1>9 DEF Tick
<1>10. CASE Crash
  <2>1. \A g \in Request : SecretOf(req'[g], list, hmacKey)
    BY <1>10, NoSecret DEF Crash
  <2> QED  BY <1>10, <2>1 DEF Crash, Secrets, SecretOf, database, tables
<1> QED  BY <1>3, <1>4, <1>5, <1>6, <1>7, <1>8, <1>9, <1>10 DEF Next

LEMMA SecretsAlways == Spec => []Secrets
<1>1. Init => Secrets
  <2> SUFFICES ASSUME Init PROVE Secrets
    OBVIOUS
  <2>1. Types
    BY TypesBegin
  <2>2. OwnKeys(list, hmacKey)
    <3>1. \A l \in list : l.id \in Id /\ hmacKey[l.id] = l.id
      BY <2>1 DEF Init, Types, Database, RepoTypeOK, ListRow
    <3> QED  BY <2>1, <3>1 DEF Types, Database, KeysUnique, UniqueIn, OwnKeys
  <2>3. \A h \in Request : SecretOf(req[h], list, hmacKey)
    BY <2>1, NoSecret DEF Init
  <2> QED  BY <2>2, <2>3 DEF Init, Secrets, SecretOf
<1>2. Types /\ Secrets /\ [Next]_vars => Secrets'
  BY SecretsKept
<1> QED  BY <1>1, <1>2, TypesAlways, PTL DEF Spec

-----------------------------------------------------------------------------
(* Admission                                                               *)

(* A list that is created: nobody has its secret yet.                      *)
Created(new, h) ==
    /\ list' = list \cup {new} /\ member' = member
    /\ new.addr = req[h].l.addr /\ new.set = DefaultSettings
    /\ \A l \in list : l.id # new.id /\ l.addr # new.addr /\ hmacKey'[l.id] = hmacKey[l.id]
    /\ \A g \in Request : req[g].key # hmacKey'[new.id]
    /\ \A k \in links : k.key # hmacKey'[new.id]

LEMMA InsertCreates ==
    ASSUME Types, Secrets, NEW h \in Request, Insert(h), ~UNCHANGED database
    PROVE  GoTo(h, "reload") /\ NoFault /\ \E new : Created(new, h)
<1> DEFINE n == 1 + Max(Range(hmacKey))
           new == [id |-> NextId, addr |-> req[h].l.addr, set |-> DefaultSettings]
<1>1. /\ NextId \in Id /\ list' = list \cup {new} /\ hmacKey' = [hmacKey EXCEPT ![NextId] = n]
      /\ member' = member /\ \A l \in list : l.addr # new.addr
      /\ GoTo(h, "reload") /\ NoFault
  BY DEF Insert, Create, GetList
<1>2. n \in Nat /\ \A i \in {0} \cup Id : hmacKey[i] < n
  BY NewSecret DEF Types
<1>3. \A l \in list : l.id \in Id /\ l.id < NextId /\ l.id \in Nat /\ NextId \in Nat
  BY FreshId, MaxIdAssumption DEF Types, Database, RepoTypeOK, ListRow, Id
<1>4. \A l \in list : l.id \in Id /\ l.id # NextId
  BY <1>3
<1>5. new.id = NextId /\ new.addr = req[h].l.addr /\ new.set = DefaultSettings
  OBVIOUS
<1>6. hmacKey \in [{0} \cup Id -> Nat]
  BY DEF Types, Database
<1> HIDE DEF n, new
<1>7. \A k \in Nat : NotNewer(k, hmacKey) => k # n
  BY <1>2, <1>6 DEF NotNewer
<1>8. \A g \in Request : req[g].key # n
  <2>1. \A g \in Request : req[g].key \in Nat
    BY DEF Types, Requests, ReqType
  <2> QED  BY <1>7, <2>1 DEF Secrets
<1>9. \A k \in links : k.key # n
  BY <1>7 DEF Secrets, Types, Records, Link
<1>10. hmacKey'[NextId] = n /\ \A l \in list : hmacKey'[l.id] = hmacKey[l.id]
  BY <1>1, <1>4, <1>6
<1>11. Created(new, h)
  BY <1>1, <1>4, <1>5, <1>8, <1>9, <1>10 DEF Created
<1> QED  BY <1>1, <1>11

LEMMA InsertAdmits ==
    ASSUME Types, Secrets, Admission, NEW h \in Request, Insert(h), ~UNCHANGED database
    PROVE  Admission'
<1>1. PICK new : Created(new, h)
  BY InsertCreates
<1>2. UNCHANGED <<links, admitted, granted, stale>>
  BY DEF Insert, history, letIn, missed
<1>3. \A m \in member : NoOrphan(m, list', stale)
  BY <1>1 DEF Admission, NoOrphan, Created
<1>4. \A m \in member : m.list = new.id => m.address \in stale
  BY <1>1 DEF Admission, NoOrphan, Created
<1>7. \A m \in member, l \in list' : m.list = l.id => May(l.addr, m.address, admitted, stale)
  BY <1>1, <1>4 DEF Admission, Created, May
<1>8. RolesWereGranted'
  BY <1>1, <1>2, <1>4 DEF Admission, Created, RolesWereGranted
<1>9. ASSUME NEW k, NEW a, k # hmacKey'[new.id],
             MayJoin(k, a, list, hmacKey, admitted, stale)
      PROVE  MayJoin(k, a, list', hmacKey', admitted, stale)
  BY <1>1, <1>9 DEF MayJoin, Created
<1>10. \A k \in links : MayJoin(k.key, k.addr, list', hmacKey', admitted, stale)
  BY <1>1, <1>9 DEF Admission, Created
<1>11. ASSUME NEW g \in Request
       PROVE  Bears(req'[g], list', hmacKey', admitted, stale)
  <2> DEFINE w == [req[h] EXCEPT !.pc = "reload"]
  <2>1. req' = [req EXCEPT ![h] = w] /\ w.pc = "reload"
    BY InsertCreates DEF GoTo, Types, Requests, ReqType
  <2>2. req'[h] = w /\ \A i \in Request \ {h} : req'[i] = req[i]
    BY <2>1, OtherRequests
  <2> HIDE DEF w
  <2>3. CASE g = h
    BY <2>1, <2>2, <2>3 DEF Bears, Bearing
  <2>4. CASE g # h
    <3>1. Bears(req[g], list, hmacKey, admitted, stale) /\ req[g].key # hmacKey'[new.id]
      BY <1>1 DEF Admission, Created
    <3> QED  BY <1>9, <2>2, <2>4, <3>1 DEF Bears
  <2> QED  BY <2>3, <2>4
<1> QED  BY <1>1, <1>2, <1>3, <1>7, <1>8, <1>10, <1>11 DEF Admission, Created

(* A row stays, with what is known about its address, when another list is *)
(* deleted.                                                                *)
LEMMA CommitRows ==
    ASSUME Types, NEW h \in Request, Commit(h), ~Fault
    PROVE  /\ stale \subseteq stale'
           /\ req[h].kind \in {"join", "leave", "create", "member"} /\ ~Current(h) => req[h].addr \in stale'
           /\ \A l \in list' : \E r \in list :
                 /\ l.id = r.id /\ l.addr = r.addr
                 /\ \A a : <<r.addr, a>> \in admitted => <<l.addr, a>> \in admitted'
                 /\ \A a : <<r.addr, a>> \in granted => <<l.addr, a>> \in granted'
                 /\ \A a : <<r.addr, a>> \in DOMAIN gdpr => gdpr'[<<l.addr, a>>] = gdpr[<<r.addr, a>>]
<1> DEFINE r0 == req[h]
           gone == Deleted(h)
           kind == r0.kind
<1>1. Change(h) /\ Remember(h) /\ r0.pc = "commit" /\ Effect(kind, r0.l.id, r0.addr)
  BY CommitRequests, ChangeHas
<1>2. KeysUnique /\ GoodReq(r0)
  BY DEF Types, Database, Requests
<1>3. stale \subseteq stale'
  BY <1>1 DEF Remember
<1>4. ASSUME kind \in {"join", "leave", "create", "member"}, ~Current(h)  PROVE r0.addr \in stale'
  <2>1. r0.addr \in Person /\ r0.addr # None
    BY <1>1, <1>2, <1>4, UserAssumption DEF GoodReq
  <2> QED  BY <1>1, <1>4, <2>1 DEF Remember
<1>5. ASSUME NEW l \in list'
      PROVE  \E r \in list : l.id = r.id /\ l.addr = r.addr /\ r.addr \notin gone
  <2> HIDE DEF r0
  <2>1. PICK r \in list : l.id = r.id /\ l.addr = r.addr
    BY <1>1 DEF Effect
  <2>2. CASE kind = "delete"
    <3>1. r.id # r0.l.id
      BY <1>1, <2>1, <2>2 DEF Effect
    <3>2. \A x \in list : x.addr = r.addr => x = r
      BY <1>2 DEF KeysUnique, UniqueIn
    <3> QED  BY <2>1, <3>1, <3>2 DEF Deleted, r0
  <2>3. CASE kind # "delete"
    BY <2>1, <2>3 DEF Deleted, r0
  <2> QED  BY <2>2, <2>3
<1>6. /\ Outside(admitted, gone) \subseteq admitted' /\ Outside(granted, gone) \subseteq granted'
      /\ gdpr' = [x \in DOMAIN gdpr |-> IF x[1] \in gone THEN "none" ELSE gdpr[x]]
  BY <1>1 DEF Remember
<1> HIDE DEF gone, kind, r0
<1>7. \A x, a : /\ <<x, a>> \in admitted /\ x \notin gone => <<x, a>> \in admitted'
                /\ <<x, a>> \in granted /\ x \notin gone => <<x, a>> \in granted'
                /\ <<x, a>> \in DOMAIN gdpr /\ x \notin gone => gdpr'[<<x, a>>] = gdpr[<<x, a>>]
  BY <1>6 DEF Outside
<1>8. ASSUME NEW l \in list'
      PROVE  \E r \in list :
                 /\ l.id = r.id /\ l.addr = r.addr
                 /\ \A a : <<r.addr, a>> \in admitted => <<l.addr, a>> \in admitted'
                 /\ \A a : <<r.addr, a>> \in granted => <<l.addr, a>> \in granted'
                 /\ \A a : <<r.addr, a>> \in DOMAIN gdpr => gdpr'[<<l.addr, a>>] = gdpr[<<r.addr, a>>]
  <2>1. PICK r \in list : l.id = r.id /\ l.addr = r.addr /\ r.addr \notin gone
    BY <1>5
  <2>2. PICK x : x = r.addr
    OBVIOUS
  <2>3. \A a : /\ <<x, a>> \in admitted => <<x, a>> \in admitted'
               /\ <<x, a>> \in granted => <<x, a>> \in granted'
               /\ <<x, a>> \in DOMAIN gdpr => gdpr'[<<x, a>>] = gdpr[<<x, a>>]
    BY <1>7, <2>1, <2>2
  <2> QED  BY <2>1, <2>2, <2>3
<1> QED  BY <1>3, <1>4, <1>8 DEF r0, kind

(* The list a request has loaded, if it is still there, has its address.   *)
LEMMA CurrentList ==
    ASSUME Types, Secrets, NEW h \in Request, req[h].pc \in Loaded, NEW l \in list,
           hmacKey[l.id] = req[h].key
    PROVE  l.id = req[h].l.id /\ l.addr = req[h].l.addr /\ Current(h)
<1>1. l.id = req[h].l.id /\ l.addr = req[h].l.addr
  BY DEF Secrets, KeyOfList
<1> QED  BY <1>1 DEF Current

LEMMA CommitAdmits ==
    ASSUME Types, Secrets, Admission, NEW h \in Request, Commit(h), ~Fault
    PROVE  Admission'
<1> DEFINE r == req[h]
           i == r.l.id
           a == r.addr
           kind == r.kind
<1>1. /\ Change(h) /\ Remember(h) /\ r.pc = "commit" /\ Effect(kind, i, a)
      /\ links' = links /\ hmacKey' = hmacKey
  BY CommitRequests, ChangeHas DEF Commit
<1>2. KeysUnique /\ "commit" \in Loaded
  BY DEF Types, Database, Loaded
<1>3. stale \subseteq stale'
  BY CommitRows
<1>4. \A l \in list' : \E x \in list :
         /\ l.id = x.id /\ l.addr = x.addr
         /\ \A b : /\ May(x.addr, b, admitted, stale) => May(l.addr, b, admitted', stale')
                   /\ <<x.addr, b>> \in granted => <<l.addr, b>> \in granted'
  BY <1>3, CommitRows DEF May
(* What the request itself may do, and for which list.                     *)
<1>5. \/ a \in stale'
      \/ kind \notin {"join", "create", "member"}
      \/ \E c \in list : /\ c.id = i /\ c.addr = r.l.addr
                         /\ kind = "join" => May(c.addr, a, admitted, stale)
                         /\ kind = "create" => <<c.addr, a>> \in admitted'
                         /\ kind \in {"create", "member"} => <<c.addr, a>> \in granted'
  <2>1. CASE ~Current(h)
    BY <2>1, CommitRows
  <2>2. CASE Current(h)
    <3>1. PICK c \in list : c.id = i /\ hmacKey[c.id] = r.key
      BY <2>2 DEF Current
    <3>2. c.addr = r.l.addr
      BY <1>1, <1>2, <3>1, CurrentList
    <3>3. kind = "join" => May(c.addr, a, admitted, stale)
      <4>1. kind = "join" => Bearing(r)
        BY <1>1 DEF Bearing
      <4>2. Bearing(r) => MayJoin(r.key, a, list, hmacKey, admitted, stale)
        BY DEF Admission, Bears
      <4> QED  BY <3>1, <4>1, <4>2 DEF MayJoin
    <3>4. /\ kind = "create" => <<r.l.addr, a>> \in admitted'
          /\ kind \in {"create", "member"} => <<r.l.addr, a>> \in granted'
      BY <1>1, <2>2 DEF Remember
    <3> QED  BY <3>1, <3>2, <3>3, <3>4
  <2> QED  BY <2>1, <2>2
<1>6. \A m \in member' : \/ m \in member
                         \/ /\ m.list = i /\ m.address = a /\ kind \in {"join", "create", "member"}
                            /\ kind = "join" => m.role = Receiver
                            /\ kind = "member" => \E n \in member : n.list = i /\ n.address = a
  BY <1>1 DEF Effect, Has
<1>7. /\ \A x \in list : (kind = "delete" /\ x.id = i) \/ \E l \in list' : l.id = x.id /\ l.addr = x.addr
      /\ kind = "delete" => \A m \in member' : m.list # i
  <2>1. kind = "delete" => \A j, b : Has(j, b)' => j # i
    <3> HIDE DEF i, kind, a
    <3> QED  BY <1>1 DEF Effect
  <2>2. \A m \in member' : Has(m.list, m.address)'
    BY DEF Has
  <2> QED  BY <1>1, <2>1, <2>2 DEF Effect
<1>8. \A c, d \in list : c.id = d.id => c = d
  BY <1>2 DEF KeysUnique, UniqueIn
<1>9. \A g \in Request \ {h} :
         /\ req'[g].pc = req[g].pc /\ req'[g].kind = req[g].kind
         /\ req'[g].key = req[g].key /\ req'[g].addr = req[g].addr
  BY CommitRequests
<1>10. req'[h] = NoReq \/ req'[h].pc = "log"
  BY CommitRequests
<1> HIDE DEF r, i, a, kind
<1>11. \A m \in member' : NoOrphan(m, list', stale')
  <2> SUFFICES ASSUME NEW m \in member' PROVE NoOrphan(m, list', stale')
    OBVIOUS
  <2>1. CASE m \in member
    <3>1. NoOrphan(m, list, stale)
      BY <2>1 DEF Admission
    <3> QED  BY <1>3, <1>7, <3>1 DEF NoOrphan
  <2>2. CASE m \notin member
    <3>1. m.list = i /\ m.address = a /\ kind \in {"join", "create", "member"}
      BY <1>6, <2>2
    <3> QED  BY <1>5, <1>7, <3>1 DEF NoOrphan
  <2> QED  BY <2>1, <2>2
<1>13. ASSUME NEW m \in member', NEW l \in list', m.list = l.id
       PROVE  /\ May(l.addr, m.address, admitted', stale')
              /\ m.role # Receiver => <<l.addr, m.address>> \in granted' \/ m.address \in stale'
  <2>1. PICK x \in list :
           /\ l.id = x.id /\ l.addr = x.addr
           /\ \A b : /\ May(x.addr, b, admitted, stale) => May(l.addr, b, admitted', stale')
                     /\ <<x.addr, b>> \in granted => <<l.addr, b>> \in granted'
    BY <1>4
  <2>2. CASE m \in member
    <3>1. May(x.addr, m.address, admitted, stale)
      BY <1>13, <2>1, <2>2 DEF Admission
    <3>2. m.role # Receiver => <<x.addr, m.address>> \in granted \/ m.address \in stale
      BY <1>13, <2>1, <2>2 DEF Admission, RolesWereGranted
    <3> QED  BY <1>3, <2>1, <3>1, <3>2
  <2>3. CASE m \notin member
    <3>1. /\ m.list = i /\ m.address = a /\ kind \in {"join", "create", "member"}
          /\ kind = "join" => m.role = Receiver
          /\ kind = "member" => \E n \in member : n.list = i /\ n.address = a
      BY <1>6, <2>3
    <3>2. CASE a \in stale'
      BY <3>1, <3>2 DEF May
    <3>3. CASE a \notin stale'
      <4>1. /\ x.addr = l.addr
            /\ kind = "join" => May(x.addr, a, admitted, stale)
            /\ kind = "create" => <<x.addr, a>> \in admitted'
            /\ kind \in {"create", "member"} => <<x.addr, a>> \in granted'
        BY <1>5, <1>8, <1>13, <2>1, <3>1, <3>3
      <4>2. CASE kind = "join"
        BY <2>1, <3>1, <4>1, <4>2
      <4>3. CASE kind = "create"
        BY <3>1, <4>1, <4>3 DEF May
      <4>4. CASE kind = "member"
        <5>1. May(x.addr, a, admitted, stale)
          BY <1>13, <2>1, <3>1, <4>4 DEF Admission
        <5> QED  BY <2>1, <3>1, <4>1, <4>4, <5>1
      <4> QED  BY <3>1, <4>2, <4>3, <4>4
    <3> QED  BY <3>2, <3>3
  <2> QED  BY <2>2, <2>3
<1>14. \A m \in member', l \in list' :
          m.list = l.id => May(l.addr, m.address, admitted', stale')
  BY <1>13
<1>15. RolesWereGranted'
  BY <1>13 DEF RolesWereGranted
<1>16. ASSUME NEW k, NEW b, MayJoin(k, b, list, hmacKey, admitted, stale)
       PROVE  MayJoin(k, b, list', hmacKey', admitted', stale')
  BY <1>1, <1>4, <1>16 DEF MayJoin
<1>17. \A k \in links' : MayJoin(k.key, k.addr, list', hmacKey', admitted', stale')
  BY <1>1, <1>16 DEF Admission
<1>18. ASSUME NEW g \in Request
       PROVE  Bears(req'[g], list', hmacKey', admitted', stale')
  <2>1. CASE g = h
    BY <1>10, <2>1 DEF Bears, Bearing, NoReq
  <2>2. CASE g # h
    <3>1. Bears(req[g], list, hmacKey, admitted, stale)
      BY DEF Admission
    <3>2. Bearing(req'[g]) => Bearing(req[g])
      BY <1>9, <2>2 DEF Bearing
    <3> QED  BY <1>9, <1>16, <2>2, <3>1, <3>2 DEF Bears
  <2> QED  BY <2>1, <2>2
<1> QED  BY <1>11, <1>14, <1>15, <1>17, <1>18 DEF Admission

(* A step of one request that changes no table: what it is to bear must    *)
(* have been borne by someone, or be admitted.                             *)
LEMMA OneAdmits ==
    ASSUME Types, Admission, UNCHANGED <<database, granted>>,
           admitted \subseteq admitted', stale \subseteq stale',
           NEW h \in Request, NEW w, req' = [req EXCEPT ![h] = w],
           Bears(w, list, hmacKey, admitted', stale'),
           \A k \in links' : k \in links \/ MayJoin(k.key, k.addr, list, hmacKey, admitted', stale')
    PROVE  Admission'
<1>1. req'[h] = w /\ \A g \in Request \ {h} : req'[g] = req[g]
  BY OtherRequests
<1>2. list' = list /\ member' = member /\ hmacKey' = hmacKey
  BY DEF database, tables
<1>3. \A x, a : May(x, a, admitted, stale) => May(x, a, admitted', stale')
  BY DEF May
<1>4. \A k, a : MayJoin(k, a, list, hmacKey, admitted, stale)
                   => MayJoin(k, a, list, hmacKey, admitted', stale')
  BY <1>3 DEF MayJoin
<1>5. \A g \in Request : Bears(req'[g], list, hmacKey, admitted', stale')
  BY <1>1, <1>4 DEF Admission, Bears
<1>6. \A k \in links' : MayJoin(k.key, k.addr, list, hmacKey, admitted', stale')
  BY <1>4 DEF Admission
<1>7. \A m \in member : NoOrphan(m, list, stale')
  BY DEF Admission, NoOrphan
<1>8. RolesWereGranted'
  BY <1>2 DEF Admission, RolesWereGranted
<1>9. \A m \in member, l \in list :
          m.list = l.id => May(l.addr, m.address, admitted', stale')
  BY <1>3 DEF Admission
<1> QED  BY <1>2, <1>5, <1>6, <1>7, <1>8, <1>9 DEF Admission

LEMMA AdmissionSteps ==
    ASSUME Types, Secrets, Admission, UNCHANGED <<database, granted>>,
           admitted \subseteq admitted', stale \subseteq stale', NEW h \in Request,
           \A k \in links' : k \in links \/ MayJoin(k.key, k.addr, list, hmacKey, admitted', stale')
    PROVE  /\ Done(h) => Admission'
           /\ \A pc : /\ GoTo(h, pc)
                      /\ Bearing([req[h] EXCEPT !.pc = pc])
                            => \/ Bearing(req[h])
                               \/ MayJoin(req[h].key, req[h].addr, list, hmacKey, admitted', stale')
                      => Admission'
           /\ \A pc, kind, a, by : \A l \in list :
                 /\ Start(h, pc, kind, l, a, by)
                 /\ kind = "join" /\ pc \in {"rate", "check"} => May(l.addr, a, admitted', stale')
                 /\ pc \in {"rate", "check", "auth", "create"}
                 => Admission'
<1>1. ASSUME Done(h)  PROVE Admission'
  <2>1. Bears(NoReq, list, hmacKey, admitted', stale')
    BY DEF Bears, Bearing, NoReq
  <2> QED  BY <1>1, <2>1, OneAdmits DEF Done
<1>2. ASSUME NEW pc, GoTo(h, pc),
             Bearing([req[h] EXCEPT !.pc = pc])
                => \/ Bearing(req[h])
                   \/ MayJoin(req[h].key, req[h].addr, list, hmacKey, admitted', stale')
      PROVE  Admission'
  <2> DEFINE w == [req[h] EXCEPT !.pc = pc]
  <2>1. req' = [req EXCEPT ![h] = w] /\ req[h] \in ReqType
    BY <1>2 DEF GoTo, Types, Requests
  <2>2. w.key = req[h].key /\ w.addr = req[h].addr
    BY <2>1 DEF ReqType
  <2>3. Bearing(req[h]) => MayJoin(req[h].key, req[h].addr, list, hmacKey, admitted', stale')
    BY DEF Admission, Bears, MayJoin, May
  <2>4. Bears(w, list, hmacKey, admitted', stale')
    BY <1>2, <2>2, <2>3 DEF Bears
  <2> HIDE DEF w
  <2> QED  BY <2>1, <2>4, OneAdmits
<1>3. ASSUME NEW pc \in {"rate", "check", "auth", "create"}, NEW kind, NEW a, NEW by, NEW l \in list,
             Start(h, pc, kind, l, a, by),
             kind = "join" /\ pc \in {"rate", "check"} => May(l.addr, a, admitted', stale')
      PROVE  Admission'
  <2> DEFINE w == [pc |-> pc, kind |-> kind, l |-> l, key |-> hmacKey[l.id], addr |-> a, by |-> by,
                   met |-> FALSE]
  <2>1. req' = [req EXCEPT ![h] = w]
    BY <1>3 DEF Start
  <2>2. w.pc = pc /\ w.kind = kind /\ w.key = hmacKey[l.id] /\ w.addr = a
    OBVIOUS
  <2> HIDE DEF w
  <2>3. \A x \in list : hmacKey[x.id] = hmacKey[l.id] => x = l
    BY DEF Secrets, OwnKeys
  <2>4. Bears(w, list, hmacKey, admitted', stale')
    BY <1>3, <2>2, <2>3 DEF Bears, Bearing, MayJoin, May
  <2> QED  BY <2>1, <2>4, OneAdmits
<1> QED  BY <1>1, <1>2, <1>3

(* What each step of a request bears.                                      *)
LEMMA BearsOn ==
    ASSUME Types, NEW h \in Request, NEW pc
    PROVE  /\ Bearing([req[h] EXCEPT !.pc = pc]) <=>
                 \/ req[h].kind = "join" /\ pc \in {"rate", "lookup", "mail", "check", "commit"}
                 \/ req[h].kind = "leave" /\ pc = "mail"
           /\ Bearing(req[h]) <=>
                 \/ req[h].kind = "join" /\ req[h].pc \in {"rate", "lookup", "mail", "check", "commit"}
                 \/ req[h].kind = "leave" /\ req[h].pc = "mail"
<1> DEFINE w == [req[h] EXCEPT !.pc = pc]
<1>1. w.pc = pc /\ w.kind = req[h].kind
  BY DEF Types, Requests, ReqType
<1> HIDE DEF w
<1>2. Bearing(w) <=> \/ req[h].kind = "join" /\ pc \in {"rate", "lookup", "mail", "check", "commit"}
                     \/ req[h].kind = "leave" /\ pc = "mail"
  BY <1>1 DEF Bearing
<1> QED  BY <1>2 DEF w, Bearing

LEMMA StepAdmits ==
    ASSUME Types, Secrets, Admission, NEW h \in Request, Step(h)
    PROVE  Admission'
<1> DEFINE r == req[h]
<1>1. CASE RateLimit(h)
  <2>1. UNCHANGED <<database, granted, admitted, stale, links>>
    BY <1>1 DEF RateLimit, letIn, missed
  <2>2. PICK pc \in {"lookup", "refused"} : GoTo(h, pc) /\ r.pc = "rate"
    BY <1>1 DEF RateLimit
  <2>3. Bearing([r EXCEPT !.pc = pc]) => Bearing(r)
    BY <2>2, BearsOn
  <2> QED  BY <2>1, <2>2, <2>3, AdmissionSteps
<1>2. CASE Lookup(h)
  <2>1. UNCHANGED <<database, granted, admitted, stale, links>>
    BY <1>2 DEF Lookup, history, letIn, missed
  <2>2. CASE Done(h)
    BY <2>1, <2>2, AdmissionSteps
  <2>3. CASE GoTo(h, "mail") /\ (IsMember(r.l, r.addr) <=> r.kind = "leave")
    <3>1. CASE r.kind = "leave"
      <4>1. PICK m \in member : m.list = r.l.id /\ m.address = r.addr
        BY <2>3, <3>1 DEF IsMember, Rows
      <4>2. \A l \in list : hmacKey[l.id] = r.key => l.id = r.l.id
        BY <1>2, CurrentList DEF Lookup, Loaded
      <4>3. MayJoin(r.key, r.addr, list, hmacKey, admitted', stale')
        BY <2>1, <4>1, <4>2 DEF Admission, MayJoin
      <4> QED  BY <2>1, <2>3, <4>3, AdmissionSteps
    <3>2. CASE r.kind # "leave"
      <4>1. Bearing([r EXCEPT !.pc = "mail"]) => Bearing(r)
        BY <1>2, <3>2, BearsOn DEF Lookup
      <4> QED  BY <2>1, <2>3, <4>1, AdmissionSteps
    <3> QED  BY <3>1, <3>2
  <2>4. (IsMember(r.l, r.addr) = (r.kind = "leave")) => (IsMember(r.l, r.addr) <=> r.kind = "leave")
    OBVIOUS
  <2> QED  BY <1>2, <2>2, <2>3, <2>4 DEF Lookup
<1>3. CASE SendLink(h)
  <2>1. UNCHANGED <<database, granted, admitted, stale>>
    BY <1>3 DEF SendLink, letIn, missed
  <2>2. MayJoin(r.key, r.addr, list, hmacKey, admitted, stale)
    <3>1. r.kind \in Kind /\ r.pc = "mail"
      BY <1>3 DEF SendLink, Types, Requests, GoodReq
    <3>2. Bearing(r)
      BY <3>1 DEF Bearing, Kind
    <3> QED  BY <3>2 DEF Admission, Bears
  <2>3. LinkTo(r.l, r.key, r.addr).key = r.key /\ LinkTo(r.l, r.key, r.addr).addr = r.addr
    BY DEF LinkTo
  <2>4. \A k \in links' : k \in links \/ MayJoin(k.key, k.addr, list, hmacKey, admitted', stale')
    BY <1>3, <2>1, <2>2, <2>3 DEF SendLink
  <2>5. Bearing([r EXCEPT !.pc = "record"]) => Bearing(r)
    BY BearsOn
  <2>6. Done(h) \/ GoTo(h, "record")
    BY <1>3 DEF SendLink
  <2> QED  BY <2>1, <2>4, <2>5, <2>6, AdmissionSteps
<1>4. CASE Record(h) \/ Refuse(h)
  <2>1. UNCHANGED <<database, granted, admitted, stale, links>> /\ Done(h)
    BY <1>4 DEF Record, Refuse, history, letIn, missed
  <2> QED  BY <2>1, AdmissionSteps
<1>5. CASE Check(h)
  <2>1. UNCHANGED <<database, granted, admitted, stale, links>>
    BY <1>5 DEF Check, history, letIn, missed
  <2>2. Bearing([r EXCEPT !.pc = "commit"]) => Bearing(r)
    BY <1>5, BearsOn DEF Check
  <2>3. Done(h) \/ GoTo(h, "commit")
    BY <1>5 DEF Check
  <2> QED  BY <2>1, <2>2, <2>3, AdmissionSteps
<1>6. CASE Authorize(h)
  <2>1. UNCHANGED <<database, granted, stale, links>> /\ r.pc = "auth"
    BY <1>6 DEF Authorize, missed
  <2>2. CASE Done(h)
    <3>1. admitted \subseteq admitted'
      BY <1>6 DEF Authorize
    <3> QED  BY <2>1, <2>2, <3>1, AdmissionSteps
  <2>3. ASSUME ~Done(h)  PROVE Admission'
    <3>1. admitted' = IF r.kind = "join" /\ Current(h)
                      THEN admitted \cup {<<r.l.addr, r.addr>>} ELSE admitted
      BY <1>6, <2>3 DEF Authorize
    <3>2. \/ r.kind \in Kind /\ GoTo(h, "rate")
          \/ r.kind = "member" /\ GoTo(h, "check")
          \/ r.kind # "member" /\ GoTo(h, "commit")
      BY <1>6, <2>3 DEF Authorize
    <3>3. PICK pc \in {"rate", "check", "commit"} : GoTo(h, pc)
      BY <3>2
    <3>4. admitted \subseteq admitted'
      BY <3>1
    <3>5. CASE r.kind = "join"
      <4>1. \A l \in list : hmacKey[l.id] = r.key => l.addr = r.l.addr /\ Current(h)
        BY <2>1, CurrentList DEF Loaded
      <4>2. MayJoin(r.key, r.addr, list, hmacKey, admitted', stale')
        BY <3>1, <3>5, <4>1 DEF MayJoin, May
      <4> QED  BY <2>1, <3>3, <3>4, <4>2, AdmissionSteps
    <3>6. CASE r.kind # "join"
      <4>1. ~Bearing([r EXCEPT !.pc = pc])
        BY <3>3, <3>6, BearsOn
      <4> QED  BY <2>1, <3>3, <3>4, <4>1, AdmissionSteps
    <3> QED  BY <3>5, <3>6
  <2> QED  BY <2>2, <2>3
<1>7. CASE Insert(h)
  <2>1. CASE UNCHANGED database
    <3>1. UNCHANGED <<granted, admitted, stale, links>>
      BY <1>7 DEF Insert, history, letIn, missed
    <3>2. ~Bearing([r EXCEPT !.pc = "reload"])
      BY BearsOn
    <3>3. Done(h) \/ GoTo(h, "reload")
      BY <1>7 DEF Insert
    <3> QED  BY <2>1, <3>1, <3>2, <3>3, AdmissionSteps
  <2> QED  BY <1>7, <2>1, InsertAdmits
<1>8. CASE Reload(h)
  <2>1. UNCHANGED <<database, granted, admitted, stale, links>>
    BY <1>8 DEF Reload, history, letIn, missed
  <2>2. ASSUME NEW l \in list,
               req' = [req EXCEPT ![h] = [@ EXCEPT !.pc = "commit", !.l = l, !.key = hmacKey[l.id]]]
        PROVE  Admission'
    <3> DEFINE w == [r EXCEPT !.pc = "commit", !.l = l, !.key = hmacKey[l.id]]
    <3>1. req' = [req EXCEPT ![h] = w] /\ r \in ReqType /\ r.kind = "create"
      BY <1>8, <2>2 DEF Reload, Types, Requests, GoodReq
    <3>2. w.kind = "create"
      BY <3>1 DEF ReqType
    <3> HIDE DEF w
    <3>3. Bears(w, list, hmacKey, admitted', stale')
      BY <3>2 DEF Bears, Bearing
    <3> QED  BY <2>1, <3>1, <3>3, OneAdmits
  <2> QED  BY <1>8, <2>1, <2>2, AdmissionSteps DEF Reload, GetList
<1>9. CASE Commit(h)
  <2>1. CASE Fault
    <3>1. UNCHANGED <<database, granted, admitted, stale, links>> /\ Done(h)
      BY <1>9, <2>1, CommitFails DEF Commit, database, letIn, missed
    <3> QED  BY <3>1, AdmissionSteps
  <2> QED  BY <1>9, <2>1, CommitAdmits
<1>10. CASE Log(h)
  <2>1. UNCHANGED <<database, granted, admitted, links>> /\ stale \subseteq stale' /\ Done(h)
    BY <1>10 DEF Log, letIn
  <2> QED  BY <2>1, AdmissionSteps
<1> QED  BY <1>1, <1>2, <1>3, <1>4, <1>5, <1>6, <1>7, <1>8, <1>9, <1>10 DEF Step

LEMMA AdmissionKept ==
    ASSUME Types, Secrets, Admission, [Next]_vars
    PROVE  Admission'
<1>1. ASSUME UNCHANGED <<database, granted, stale, req>>, admitted \subseteq admitted',
             \A k \in links' : k \in links \/ MayJoin(k.key, k.addr, list, hmacKey, admitted', stale)
      PROVE  Admission'
  <2>1. \A k, a : MayJoin(k, a, list, hmacKey, admitted, stale)
                     => MayJoin(k, a, list, hmacKey, admitted', stale)
    BY <1>1 DEF MayJoin, May
  <2>2. \A h \in Request : Bears(req[h], list, hmacKey, admitted', stale)
    BY <2>1 DEF Admission, Bears
  <2>3. \A k \in links' : MayJoin(k.key, k.addr, list, hmacKey, admitted', stale)
    BY <1>1, <2>1 DEF Admission
  <2>4. \A m \in member, l \in list : m.list = l.id => May(l.addr, m.address, admitted', stale)
    BY <1>1 DEF Admission, May
  <2> QED  BY <1>1, <2>2, <2>3, <2>4 DEF Admission, RolesWereGranted, database, tables
<1>2. CASE UNCHANGED vars
  BY <1>1, <1>2 DEF vars, history, letIn, missed
<1>3. ASSUME NEW h \in Request, Step(h)  PROVE Admission'
  BY <1>3, StepAdmits
<1>4. ASSUME NEW h \in Request, NEW a \in Person, NEW kind \in Kind, Ask(h, a, kind)  PROVE Admission'
  <2>1. UNCHANGED <<database, granted, stale, links>>
    BY <1>4 DEF Ask, missed
  <2>2. PICK l \in list : /\ kind = "join" => l.set.publicSignup
                          /\ Start(h, "rate", kind, l, a, "user")
                          /\ admitted' = admitted \cup Welcome(l, a, kind)
    BY <1>4 DEF Ask
  <2>3. kind = "join" => May(l.addr, a, admitted', stale')
    BY <2>2 DEF Welcome, May
  <2>4. admitted \subseteq admitted'
    BY <2>2
  <2> QED  BY <2>1, <2>2, <2>3, <2>4, AdmissionSteps
<1>5. ASSUME NEW h \in Request, NEW k \in links, NEW kind \in Kind, Confirm(h, k, kind)  PROVE Admission'
  <2>1. UNCHANGED <<database, granted, admitted, stale, links>>
    BY <1>5 DEF Confirm, history, letIn, missed
  <2>2. PICK l \in list : k.key = hmacKey[l.id] /\ Start(h, "check", kind, l, k.addr, "user")
    BY <1>5 DEF Confirm, GetList
  <2>3. May(l.addr, k.addr, admitted, stale)
    BY <2>2 DEF Admission, MayJoin
  <2> QED  BY <2>1, <2>2, <2>3, AdmissionSteps
<1>6. ASSUME NEW h \in Request, NEW a \in Person, Leave(h, a)  PROVE Admission'
  <2>1. UNCHANGED <<database, granted, admitted, stale, links>>
    BY <1>6 DEF Leave, history, letIn, missed
  <2>2. PICK l \in list : Start(h, "check", "leave", l, a, "user")
    BY <1>6 DEF Leave
  <2> QED  BY <2>1, <2>2, AdmissionSteps
<1>7. ASSUME NEW a \in Person, NEW kind \in Kind, OwnLink(a, kind)  PROVE Admission'
  <2>1. UNCHANGED <<database, granted, stale, req>>
    BY <1>7 DEF OwnLink, missed
  <2>2. PICK l \in list : /\ IF kind = "join" THEN l.set.publicSignup ELSE IsMember(l, a)
                          /\ links' = links \cup {LinkTo(l, hmacKey[l.id], a)}
                          /\ admitted' = admitted \cup Welcome(l, a, kind)
    BY <1>7 DEF OwnLink
  <2>3. May(l.addr, a, admitted', stale)
    <3>1. CASE kind = "join"
      BY <2>2, <3>1 DEF Welcome, May
    <3>2. CASE kind # "join"
      <4>1. PICK m \in member : m.list = l.id /\ m.address = a
        BY <2>2, <3>2 DEF IsMember, Rows
      <4> QED  BY <2>2, <4>1 DEF Admission, May
    <3> QED  BY <3>1, <3>2
  <2>4. MayJoin(hmacKey[l.id], a, list, hmacKey, admitted', stale)
    BY <2>3 DEF MayJoin, Secrets, OwnKeys
  <2>5. LinkTo(l, hmacKey[l.id], a).key = hmacKey[l.id] /\ LinkTo(l, hmacKey[l.id], a).addr = a
    BY DEF LinkTo
  <2> QED  BY <1>1, <2>1, <2>2, <2>4, <2>5
<1>8. ASSUME NEW h \in Request, NEW u, NEW kind, NEW a, Administrate(h, u, kind, a)  PROVE Admission'
  <2>1. UNCHANGED <<database, granted, admitted, stale, links>>
    BY <1>8 DEF Administrate, history, letIn, missed
  <2>2. PICK l \in list : Start(h, "auth", kind, l, a, u)
    BY <1>8 DEF Administrate
  <2> QED  BY <2>1, <2>2, AdmissionSteps
<1>9. ASSUME NEW h \in Request, NEW x, NEW a, CreateList(h, x, a)  PROVE Admission'
  <2> DEFINE n == [NoRow EXCEPT !.addr = x]
             w == [pc |-> "create", kind |-> "create", l |-> n, key |-> hmacKey[n.id],
                   addr |-> a, by |-> Superadmin, met |-> FALSE]
  <2>1. UNCHANGED <<database, granted, admitted, stale, links>>
    BY <1>9 DEF CreateList, history, letIn, missed
  <2>2. req' = [req EXCEPT ![h] = w]
    BY <1>9 DEF CreateList, Start
  <2>3. Bears(w, list, hmacKey, admitted', stale')
    BY DEF Bears, Bearing
  <2> HIDE DEF w
  <2> QED  BY <2>1, <2>2, <2>3, OneAdmits
<1>10. CASE Tick
  BY <1>1, <1>10 DEF Tick, history, letIn, missed
<1>11. CASE Crash
  <2>1. UNCHANGED <<database, granted, admitted, stale, links>>
    BY <1>11 DEF Crash, history, letIn, missed
  <2>2. \A h \in Request : Bears(req'[h], list, hmacKey, admitted, stale)
    BY <1>11 DEF Crash, Bears, Bearing, NoReq
  <2> QED  BY <2>1, <2>2 DEF Admission, RolesWereGranted, database, tables
<1> QED  BY <1>2, <1>3, <1>4, <1>5, <1>6, <1>7, <1>8, <1>9, <1>10, <1>11 DEF Next

LEMMA AdmissionAlways == Spec => []Admission
<1>1. Init => Admission
  <2> SUFFICES ASSUME Init PROVE Admission
    OBVIOUS
  <2>1. list = InitList /\ member = limit.members /\ limit \in Limits
    BY DEF Init
  <2>2. \A m \in member : \E l \in list : l.id = m.list
    BY <2>1, LimitsAssumption
  <2>3. ASSUME NEW m \in member, NEW l \in list, m.list = l.id
        PROVE  /\ <<l.addr, m.address>> \in admitted
               /\ m.role # Receiver => <<l.addr, m.address>> \in granted
    <3>1. \A S : m \in S => <<l.addr, m.address>> \in OnLists(S)
      <4> SUFFICES ASSUME NEW S, m \in S PROVE <<l.addr, m.address>> \in OnLists(S)
        OBVIOUS
      <4>1. <<l, m>> \in {y \in InitList \X S : y[2].list = y[1].id}
        BY <2>1, <2>3
      <4> QED  BY <4>1 DEF OnLists
    <3>2. m.role # Receiver => m \in {n \in member : n.role # Receiver}
      OBVIOUS
    <3>3. admitted = OnLists(member) /\ granted = OnLists({n \in member : n.role # Receiver})
      BY DEF Init
    <3> QED  BY <3>1, <3>2, <3>3
  <2>4. \A h \in Request : Bears(req[h], list, hmacKey, admitted, stale)
    BY DEF Init, Bears, Bearing, NoReq
  <2>5. links = {}
    BY DEF Init
  <2> QED  BY <2>2, <2>3, <2>4, <2>5 DEF Admission, NoOrphan, May, RolesWereGranted
<1>2. Types /\ Secrets /\ Admission /\ [Next]_vars => Admission'
  BY AdmissionKept
<1> QED  BY <1>1, <1>2, TypesAlways, SecretsAlways, PTL DEF Spec

(* Whoever is a member has, since the list was created, been let in by an  *)
(* administrator or asked to join at a time when signup was public,        *)
(* although links do not say what they are for and outlive lists, and ids  *)
(* of deleted lists come back: who has the secret of a list had it from    *)
(* this list.  Excepted are those whom a request for a deleted list has    *)
(* changed.  An admission is never withdrawn.                              *)
THEOREM AdmittedMembers == Spec => []MembersWereAdmitted
<1>1. Admission => MembersWereAdmitted
  BY DEF Admission, May, MembersWereAdmitted
<1> QED  BY <1>1, AdmissionAlways, PTL

(* Nobody has other roles than to receive mail except from an              *)
(* administrator of this very list: a link gives none, and a new list      *)
(* inherits none.                                                          *)
THEOREM GrantedRoles == Spec => []RolesWereGranted
<1>1. Admission => RolesWereGranted
  BY DEF Admission
<1> QED  BY <1>1, AdmissionAlways, PTL

-----------------------------------------------------------------------------
(* The log                                                                 *)

LEMMA Faults ==
    ASSUME Types
    PROVE  /\ Fault => faults' # 0
           /\ NoFault \/ AdminOp \/ UNCHANGED bounds => faults' = faults
  BY DEF Types, Records, Fault, NoFault, AdminOp, bounds

(* A step of one request that has nothing to do with the log.              *)
LEMMA LogQuiet ==
    ASSUME Types, LogInv, UNCHANGED <<database, gdpr, crossed, stale>>, faults' # 0 \/ faults' = faults,
           NEW h \in Request, NEW w, req' = [req EXCEPT ![h] = w], req[h].pc # "log", w.pc # "log"
    PROVE  LogInv'
<1>1. CASE faults' # 0
  BY <1>1 DEF LogInv
<1>2. CASE faults' = faults
  <2>1. req'[h] = w /\ \A g \in Request \ {h} : req'[g] = req[g]
    BY OtherRequests
  <2>2. UNCHANGED <<list, member, hmacKey>>
    BY DEF database, tables
  <2>3. \A a : \A g \in Request : /\ Logging(g, a)' <=> Logging(g, a)
                                  /\ Logging(g, a) => req'[g] = req[g]
    BY <2>1 DEF Logging
  <2>4. \A l, a : \A g \in Request : LogsFor(g, l, a)' <=> LogsFor(g, l, a)
    BY <2>2, <2>3 DEF LogsFor
  <2>5. \A l, a : IsMember(l, a)' <=> IsMember(l, a)
    BY <2>2 DEF IsMember, Rows
  <2>6. \A x : GetList(x)' = GetList(x)
    BY <2>2 DEF GetList
  <2>7. \A l, a : \A g \in Request : LogsFor(g, l, a) => Entry(req'[g]) = Entry(req[g])
    BY <2>3 DEF LogsFor
  <2>8. ASSUME faults = 0, NEW a \in Person \ (crossed \cup stale)
        PROVE  /\ \A g, k \in Request : Logging(g, a)' /\ Logging(k, a)' => g = k
               /\ \A l \in list, g \in Request :
                     LogsFor(g, l, a)' => (IsMember(l, a)' <=> Entry(req'[g]) = "join")
               /\ \A l \in list :
                     (\A g \in Request : ~LogsFor(g, l, a)')
                        => (IsMember(l, a)' <=> gdpr[<<l.addr, a>>] = "join")
               /\ \A x \in ListAddr : GetList(x)' = {} => gdpr[<<x, a>>] # "join"
    BY <2>3, <2>4, <2>5, <2>6, <2>7, <2>8 DEF LogInv, LogOf
  <2> QED  BY <1>2, <2>2, <2>8 DEF LogInv, LogOf
<1> QED  BY <1>1, <1>2

LEMMA LogSteps ==
    ASSUME Types, LogInv, UNCHANGED <<database, gdpr, crossed, stale>>, faults' # 0 \/ faults' = faults,
           NEW h \in Request, req[h].pc # "log"
    PROVE  /\ Done(h) => LogInv'
           /\ \A pc : pc # "log" /\ GoTo(h, pc) => LogInv'
           /\ \A pc, kind, l, a, by : pc # "log" /\ Start(h, pc, kind, l, a, by) => LogInv'
<1>1. CASE Done(h)
  <2>1. NoReq.pc # "log"
    BY DEF NoReq
  <2> QED  BY <1>1, <2>1, LogQuiet DEF Done
<1>2. ASSUME NEW pc, pc # "log", GoTo(h, pc)  PROVE LogInv'
  <2> DEFINE w == [req[h] EXCEPT !.pc = pc]
  <2>1. req' = [req EXCEPT ![h] = w] /\ req[h] \in ReqType
    BY <1>2 DEF GoTo, Types, Requests
  <2>2. w.pc = pc
    BY <2>1 DEF ReqType
  <2> HIDE DEF w
  <2> QED  BY <1>2, <2>1, <2>2, LogQuiet
<1>3. ASSUME NEW pc, NEW kind, NEW l, NEW a, NEW by, pc # "log", Start(h, pc, kind, l, a, by)  PROVE LogInv'
  <2> DEFINE w == [pc |-> pc, kind |-> kind, l |-> l, key |-> hmacKey[l.id], addr |-> a, by |-> by,
                   met |-> FALSE]
  <2>1. req' = [req EXCEPT ![h] = w]
    BY <1>3 DEF Start
  <2>2. w.pc = pc
    OBVIOUS
  <2> HIDE DEF w
  <2> QED  BY <1>3, <2>1, <2>2, LogQuiet
<1> QED  BY <1>1, <1>2, <1>3

(* A list that is created has no members, and no entry in the log.         *)
LEMMA InsertLogs ==
    ASSUME Types, Secrets, Admission, LogInv, NEW h \in Request, Insert(h), ~UNCHANGED database
    PROVE  LogInv'
<1>1. GoTo(h, "reload") /\ NoFault
  BY InsertCreates
<1>2. PICK new : Created(new, h)
  BY InsertCreates
<1>3. UNCHANGED <<gdpr, crossed, stale, faults>>
  BY <1>1, Faults DEF Insert, history, missed
<1>4. /\ req'[h].pc = "reload" /\ req'[h].key = req[h].key /\ req[h].pc = "create"
      /\ \A g \in Request \ {h} : req'[g] = req[g]
  BY <1>1 DEF GoTo, Insert, Types, Requests, ReqType
<1>5. \A a : \A g \in Request : /\ Logging(g, a)' <=> Logging(g, a)
                                /\ Logging(g, a) => req'[g] = req[g]
  BY <1>4 DEF Logging
<1>6. list' = list \cup {new} /\ member' = member
  BY <1>2 DEF Created
<1>7. \A a : \A g \in Request, l \in list : LogsFor(g, l, a)' <=> LogsFor(g, l, a)
  BY <1>2, <1>5 DEF LogsFor, Created
<1>8. \A a : \A g \in Request : ~LogsFor(g, new, a)'
  BY <1>2, <1>5 DEF LogsFor, Created
<1>9. \A l, a : IsMember(l, a)' <=> IsMember(l, a)
  BY <1>6 DEF IsMember, Rows
<1>10. \A x : /\ GetList(x)' = {} => GetList(x) = {}
  BY <1>6 DEF GetList
<1>11. GetList(new.addr) = {} /\ new.addr \in ListAddr
  BY <1>2, <1>4 DEF Created, GetList, Types, Requests, GoodReq
<1>12. \A a : IsMember(new, a) => a \in stale
  BY <1>2 DEF Admission, NoOrphan, Created, IsMember, Rows
<1>13. \A l, a : \A g \in Request : LogsFor(g, l, a) => Entry(req'[g]) = Entry(req[g])
  BY <1>5 DEF LogsFor
<1>14. ASSUME faults = 0, NEW a \in Person \ (crossed \cup stale)  PROVE LogOf(a)'
  <2>1. LogOf(a)
    BY <1>14 DEF LogInv
  <2>2. \A g, k \in Request : Logging(g, a)' /\ Logging(k, a)' => g = k
    BY <1>5, <2>1 DEF LogOf
  <2>3. ASSUME NEW l \in list', NEW g \in Request, LogsFor(g, l, a)'
        PROVE  IsMember(l, a)' <=> Entry(req'[g]) = "join"
    <3>1. l \in list /\ LogsFor(g, l, a)
      BY <1>6, <1>7, <1>8, <2>3
    <3> QED  BY <1>9, <1>13, <2>1, <3>1 DEF LogOf
  <2>4. ASSUME NEW l \in list', \A g \in Request : ~LogsFor(g, l, a)'
        PROVE  IsMember(l, a)' <=> gdpr[<<l.addr, a>>] = "join"
    <3>1. CASE l = new
      BY <1>9, <1>11, <1>12, <1>14, <2>1, <3>1 DEF LogOf
    <3>2. CASE l \in list
      BY <1>7, <1>9, <2>1, <2>4, <3>2 DEF LogOf
    <3> QED  BY <1>6, <3>1, <3>2
  <2>5. \A x \in ListAddr : GetList(x)' = {} => gdpr[<<x, a>>] # "join"
    BY <1>10, <2>1 DEF LogOf
  <2> QED  BY <1>3, <2>2, <2>3, <2>4, <2>5 DEF LogOf
<1> QED  BY <1>3, <1>14 DEF LogInv

(* The entry is written.                                                   *)
LEMMA LogLogs ==
    ASSUME Types, Secrets, LogInv, NEW h \in Request, Log(h)
    PROVE  LogInv'
<1> DEFINE r == req[h]
           e == Entry(r)
<1>1. UNCHANGED <<list, member, hmacKey, crossed>> /\ r.pc = "log" /\ Done(h)
  BY DEF Log, database, tables
<1>2. CASE Fault
  BY <1>2, Faults DEF LogInv
<1>3. CASE ~Fault
  <2>1. gdpr' = [gdpr EXCEPT ![<<r.l.addr, r.addr>>] = e] /\ faults' = faults
    BY <1>3, Faults DEF Log, Entry
  <2>2. stale \subseteq stale' /\ (Current(h) \/ r.addr \in stale')
    BY DEF Log
  <2>3. req'[h].pc = "idle" /\ \A g \in Request \ {h} : req'[g] = req[g]
    <3>1. NoReq.pc = "idle"
      BY DEF NoReq
    <3> QED  BY <1>1, <3>1, OtherRequests DEF Done
  <2>4. \A a : \A g \in Request : /\ Logging(g, a)' <=> Logging(g, a) /\ g # h
                                  /\ Logging(g, a) /\ g # h => req'[g] = req[g]
    BY <2>3 DEF Logging
  <2>5. \A l, a : \A g \in Request : LogsFor(g, l, a)' <=> LogsFor(g, l, a) /\ g # h
    BY <1>1, <2>4 DEF LogsFor
  <2>6. \A l, a : IsMember(l, a)' <=> IsMember(l, a)
    BY <1>1 DEF IsMember, Rows
  <2>7. \A x : GetList(x)' = GetList(x)
    BY <1>1 DEF GetList
  <2>8. DOMAIN gdpr = ListAddr \X Person /\ list \subseteq ListRow
    BY DEF Types, Records, Database, RepoTypeOK
  <2>9. Current(h) => \E c \in list : hmacKey[c.id] = r.key /\ c.addr = r.l.addr
    <3>1. ASSUME NEW c \in list, hmacKey[c.id] = r.key  PROVE c.addr = r.l.addr
      BY <1>1, <3>1, CurrentList DEF Loaded
    <3> QED  BY <3>1 DEF Current
  <2>10. \A c, d \in list : c.addr = d.addr => c = d
    BY DEF Types, Database, KeysUnique, UniqueIn
  <2>11. \A c \in list : LogsFor(h, c, r.addr) <=> hmacKey[c.id] = r.key
    BY <1>1 DEF LogsFor, Logging
  <2>12. \A c, a : LogsFor(h, c, a) => a = r.addr
    BY DEF LogsFor, Logging
  <2>13. \A c \in list : hmacKey[c.id] = r.key => c.addr = r.l.addr
    BY <1>1, CurrentList DEF Loaded
  <2>14. \A g \in Request : g # h => Entry(req'[g]) = Entry(req[g])
    BY <2>3
  <2>15. \A x \in ListAddr, a \in Person :
            gdpr'[<<x, a>>] = IF x = r.l.addr /\ a = r.addr THEN e ELSE gdpr[<<x, a>>]
    BY <2>1, <2>8
  <2>16. e = Entry(req[h])
    OBVIOUS
  <2> HIDE DEF r, e
  <2>17. ASSUME faults = 0, NEW a \in Person \ (crossed \cup stale')  PROVE LogOf(a)'
    <3>1. LogOf(a)
      BY <2>2, <2>17 DEF LogInv
    <3>2. \A g, k \in Request : Logging(g, a)' /\ Logging(k, a)' => g = k
      BY <2>4, <3>1 DEF LogOf
    <3>3. \A l \in list, g \in Request : LogsFor(g, l, a)' => (IsMember(l, a)' <=> Entry(req'[g]) = "join")
      BY <2>5, <2>6, <2>14, <3>1 DEF LogOf
    <3>4. ASSUME NEW l \in list, \A g \in Request : ~LogsFor(g, l, a)'
          PROVE  IsMember(l, a)' <=> gdpr'[<<l.addr, a>>] = "join"
      <4>1. l.addr \in ListAddr
        BY <2>8 DEF ListRow
      <4>2. CASE LogsFor(h, l, a)
        <5>1. a = r.addr /\ l.addr = r.l.addr
          BY <2>11, <2>12, <2>13, <4>2
        <5>2. gdpr'[<<l.addr, a>>] = e
          BY <2>15, <4>1, <5>1
        <5>3. IsMember(l, a) <=> e = "join"
          BY <2>16, <3>1, <4>2 DEF LogOf
        <5> QED  BY <2>6, <5>2, <5>3
      <4>3. CASE ~LogsFor(h, l, a)
        <5>1. \A g \in Request : ~LogsFor(g, l, a)
          BY <2>5, <3>4, <4>3
        <5>2. ~(l.addr = r.l.addr /\ a = r.addr)
          BY <2>2, <2>9, <2>10, <2>11, <2>17, <4>3
        <5>3. gdpr'[<<l.addr, a>>] = gdpr[<<l.addr, a>>]
          BY <2>15, <4>1, <5>2
        <5> QED  BY <2>6, <3>1, <5>1, <5>3 DEF LogOf
      <4> QED  BY <4>2, <4>3
    <3>5. ASSUME NEW x \in ListAddr, GetList(x) = {}  PROVE gdpr'[<<x, a>>] # "join"
      <4>1. ~(x = r.l.addr /\ a = r.addr)
        BY <2>2, <2>9, <2>17, <3>5 DEF GetList
      <4>2. gdpr'[<<x, a>>] = gdpr[<<x, a>>]
        BY <2>15, <4>1
      <4> QED  BY <3>1, <3>5, <4>2 DEF LogOf
    <3> QED  BY <1>1, <2>7, <3>2, <3>3, <3>4, <3>5 DEF LogOf
  <2> QED  BY <1>1, <2>1, <2>17 DEF LogInv
<1> QED  BY <1>2, <1>3

(* The change is made, and is to be logged.                                *)
LEMMA CommitLogs ==
    ASSUME Types, Secrets, LogInv, NEW h \in Request, Commit(h)
    PROVE  LogInv'
<1> DEFINE r == req[h]
           i == r.l.id
           b == r.addr
           kind == r.kind
           gone == Deleted(h)
           Log3 == {"join", "leave", "create"}
<1>1. CASE Fault
  BY <1>1, Faults DEF LogInv
<1>2. CASE ~Fault
  <2>1. Effect(kind, i, b) /\ Remember(h) /\ r.pc = "commit" /\ faults' = faults /\ hmacKey' = hmacKey
    BY <1>2, CommitRequests, ChangeHas, Faults DEF Commit
  <2>2. \A g \in Request \ {h} :
           /\ req'[g].pc = req[g].pc /\ req'[g].kind = req[g].kind
           /\ req'[g].key = req[g].key /\ req'[g].addr = req[g].addr
    BY <1>2, CommitRequests
  <2>3. \/ /\ req'[h].pc = "log" /\ kind \in Log3
           /\ req'[h].key = r.key /\ req'[h].addr = b /\ Entry(req'[h]) = Entry(r)
        \/ req'[h].pc = "idle" /\ kind \notin Log3
    BY <1>2, CommitRequests DEF NoReq, Entry
  <2>4. \A g \in Request \ {h} : /\ \A a : Logging(g, a)' <=> Logging(g, a)
                                 /\ Entry(req'[g]) = Entry(req[g])
    BY <2>2 DEF Logging, Entry
  <2>5. \A a : /\ ~Logging(h, a)
               /\ Logging(h, a)' <=> kind \in Log3 /\ a = b
    BY <2>1, <2>3 DEF Logging
  <2>6. \A l, a : /\ \A g \in Request \ {h} : LogsFor(g, l, a)' <=> LogsFor(g, l, a)
                  /\ LogsFor(h, l, a)' <=> kind \in Log3 /\ a = b /\ hmacKey[l.id] = r.key
    BY <2>1, <2>2, <2>3, <2>4, <2>5 DEF LogsFor
  <2>7. \A l, a : IsMember(l, a) <=> Has(l.id, a)
    BY DEF IsMember, Rows, Has
  <2>8. \A l, a : IsMember(l, a)' <=> Has(l.id, a)'
    BY DEF IsMember, Rows, Has
  <2>9. crossed \subseteq crossed' /\ stale \subseteq stale'
    BY <2>1 DEF Remember
  <2>10. \A g \in Request \ {h} : Logging(g, b) => b \in crossed'
    BY <2>1 DEF Remember
  <2>11. \/ kind \notin Log3 \/ b \in stale'
         \/ \E c \in list : hmacKey[c.id] = r.key
    BY <1>2, CommitRows DEF Current
  <2>12. \A c \in list : hmacKey[c.id] = r.key => c.id = i
    BY <2>1, CurrentList DEF Loaded
  <2>13. gdpr' = [x \in ListAddr \X Person |-> IF x[1] \in gone THEN "none" ELSE gdpr[x]]
    BY <2>1 DEF Remember, Types, Records
  <2>14. \A x \in ListAddr, a \in Person :
            gdpr'[<<x, a>>] = IF x \in gone THEN "none" ELSE gdpr[<<x, a>>]
    BY <2>13
  <2>15. /\ \A c \in list : c.addr \in gone => kind = "delete" /\ c.id = i
         /\ \A c \in list : kind = "delete" /\ c.id = i => c.addr \in gone
    BY DEF Deleted, Types, Database, KeysUnique, UniqueIn
  <2>16. list \subseteq ListRow
    BY DEF Types, Database, RepoTypeOK
  <2>17. Entry(r) = "join" <=> kind # "leave"
    BY DEF Entry
  <2>18. h \in Request
    OBVIOUS
  <2> HIDE DEF r, i, b, kind, gone
  (* The lists that are left, and the members that the change is not about. *)
  <2>19. \A l \in list' : \E x \in list : /\ l.id = x.id /\ l.addr = x.addr /\ x.addr \notin gone
                                          /\ kind = "delete" => l.id # i
    BY <2>1, <2>15 DEF Effect
  <2>20. \A a : \A l \in list' : \/ Has(l.id, a)' <=> Has(l.id, a)
                                 \/ (kind \in Log3 /\ l.id = i /\ a = b)
    BY <2>1, <2>19 DEF Effect
  <2>21. \A j, a : kind \in Log3 /\ j = i /\ a = b => (Has(j, a)' <=> kind # "leave")
    BY <2>1 DEF Effect
  <2>22. ASSUME faults = 0, NEW a \in Person \ (crossed' \cup stale')  PROVE LogOf(a)'
    <3>1. LogOf(a)
      BY <2>9, <2>22 DEF LogInv
    <3>2. \A g, k \in Request : Logging(g, a)' /\ Logging(k, a)' => g = k
      BY <2>4, <2>5, <2>10, <2>22, <3>1 DEF LogOf
    <3>3. ASSUME NEW l \in list', NEW g \in Request, LogsFor(g, l, a)'
          PROVE  IsMember(l, a)' <=> Entry(req'[g]) = "join"
      <4>1. PICK x \in list : l.id = x.id /\ l.addr = x.addr
        BY <2>19
      <4>2. CASE g = h
        <5>1. kind \in Log3 /\ a = b /\ l.id = i
          BY <2>6, <2>12, <3>3, <4>1, <4>2
        <5>2. Entry(req'[g]) = Entry(r)
          BY <2>3, <4>2, <5>1
        <5>3. Has(l.id, a)' <=> kind # "leave"
          BY <2>21, <5>1
        <5> QED  BY <2>8, <2>17, <4>2, <5>2, <5>3
      <4>3. CASE g # h
        <5>1. LogsFor(g, l, a)
          BY <2>6, <3>3, <4>3
        <5>2. LogsFor(g, x, a) /\ Logging(g, a)
          BY <4>1, <5>1 DEF LogsFor
        <5>3. a # b
          BY <2>10, <2>22, <4>3, <5>2
        <5>4. IsMember(x, a) <=> Entry(req[g]) = "join"
          BY <3>1, <5>2 DEF LogOf
        <5>5. Has(l.id, a)' <=> Has(l.id, a)
          BY <2>20, <5>3
        <5>6. IsMember(l, a)' <=> IsMember(x, a)
          BY <2>7, <2>8, <4>1, <5>5
        <5>7. Entry(req'[g]) = Entry(req[g])
          BY <2>4, <4>3
        <5> QED  BY <5>4, <5>6, <5>7
      <4> QED  BY <4>2, <4>3
    <3>4. ASSUME NEW l \in list', \A g \in Request : ~LogsFor(g, l, a)'
          PROVE  IsMember(l, a)' <=> gdpr'[<<l.addr, a>>] = "join"
      <4>1. PICK x \in list : l.id = x.id /\ l.addr = x.addr /\ x.addr \notin gone
        BY <2>19
      <4>2. \A g \in Request : ~LogsFor(g, x, a)
        BY <2>5, <2>6, <3>4, <4>1 DEF LogsFor
      <4>3. IsMember(x, a) <=> gdpr[<<x.addr, a>>] = "join"
        BY <3>1, <4>2 DEF LogOf
      <4>4. gdpr'[<<l.addr, a>>] = gdpr[<<x.addr, a>>]
        BY <2>14, <2>16, <4>1 DEF ListRow
      <4>5. ~(kind \in Log3 /\ l.id = i /\ a = b)
        <5> SUFFICES ASSUME kind \in Log3, l.id = i, a = b PROVE FALSE
          OBVIOUS
        <5>1. PICK c \in list : hmacKey[c.id] = r.key
          BY <2>11, <2>22
        <5>2. hmacKey[l.id] = r.key
          BY <2>12, <5>1
        <5> QED  BY <2>6, <2>18, <3>4, <5>2
      <4> QED  BY <2>7, <2>8, <2>20, <4>1, <4>3, <4>4, <4>5
    <3>5. ASSUME NEW x \in ListAddr, \A l \in list' : l.addr # x  PROVE gdpr'[<<x, a>>] # "join"
      <4>1. CASE GetList(x) = {}
        BY <2>14, <3>1, <4>1 DEF LogOf
      <4>2. CASE GetList(x) # {}
        <5>1. PICK d \in list : d.addr = x
          BY <4>2 DEF GetList
        <5>2. kind = "delete" /\ d.id = i
          BY <2>1, <3>5, <5>1 DEF Effect
        <5>3. x \in gone
          BY <2>15, <5>1, <5>2
        <5> QED  BY <2>14, <5>3
      <4> QED  BY <4>1, <4>2
    <3>6. \A x \in ListAddr : GetList(x)' = {} => \A l \in list' : l.addr # x
      BY DEF GetList
    <3> QED  BY <3>2, <3>3, <3>4, <3>5, <3>6 DEF LogOf
  <2> QED  BY <2>1, <2>22 DEF LogInv
<1> QED  BY <1>1, <1>2

LEMMA StepLogs ==
    ASSUME Types, Secrets, Admission, LogInv, NEW h \in Request, Step(h)
    PROVE  LogInv'
<1>1. CASE Commit(h) \/ Log(h)
  BY <1>1, CommitLogs, LogLogs
<1>2. CASE Insert(h) /\ ~UNCHANGED database
  BY <1>2, InsertLogs
<1>3. CASE RateLimit(h)
  <2>1. UNCHANGED <<database, gdpr, crossed, stale>> /\ faults' = faults /\ req[h].pc # "log"
    BY <1>3, Faults DEF RateLimit, missed
  <2>2. PICK pc \in {"lookup", "refused"} : GoTo(h, pc)
    BY <1>3 DEF RateLimit
  <2>3. pc # "log"
    OBVIOUS
  <2> QED  BY <2>1, <2>2, <2>3, LogSteps
<1>4. CASE Lookup(h) \/ SendLink(h) \/ Record(h) \/ Refuse(h) \/ Check(h)
  <2>1. UNCHANGED <<database, gdpr, crossed, stale>> /\ (faults' # 0 \/ faults' = faults) /\ req[h].pc # "log"
    BY <1>4, Faults DEF Lookup, SendLink, Record, Refuse, Check, history, missed
  <2>2. Done(h) \/ \E pc \in {"mail", "record", "commit"} : GoTo(h, pc)
    BY <1>4 DEF Lookup, SendLink, Record, Refuse, Check
  <2>3. \A pc \in {"mail", "record", "commit"} : pc # "log"
    OBVIOUS
  <2> QED  BY <2>1, <2>2, <2>3, LogSteps
<1>5. CASE Authorize(h)
  <2>1. UNCHANGED <<database, gdpr, crossed, stale>> /\ (faults' # 0 \/ faults' = faults) /\ req[h].pc # "log"
    BY <1>5, Faults DEF Authorize, missed
  <2>2. Done(h) \/ \E pc \in {"rate", "check", "commit"} : GoTo(h, pc)
    BY <1>5 DEF Authorize
  <2>3. \A pc \in {"rate", "check", "commit"} : pc # "log"
    OBVIOUS
  <2> QED  BY <2>1, <2>2, <2>3, LogSteps
<1>6. CASE Insert(h) /\ UNCHANGED database
  <2>1. UNCHANGED <<gdpr, crossed, stale>> /\ (faults' # 0 \/ faults' = faults) /\ req[h].pc # "log"
    BY <1>6, Faults DEF Insert, history, missed
  <2>2. Done(h) \/ GoTo(h, "reload")
    BY <1>6 DEF Insert
  <2>3. "reload" # "log"
    OBVIOUS
  <2> QED  BY <1>6, <2>1, <2>2, <2>3, LogSteps
<1>7. CASE Reload(h)
  <2>1. UNCHANGED <<database, gdpr, crossed, stale>> /\ (faults' # 0 \/ faults' = faults) /\ req[h].pc # "log"
    BY <1>7, Faults DEF Reload, history, missed
  <2>2. ASSUME NEW l \in list,
               req' = [req EXCEPT ![h] = [@ EXCEPT !.pc = "commit", !.l = l, !.key = hmacKey[l.id]]]
        PROVE  LogInv'
    <3> DEFINE w == [req[h] EXCEPT !.pc = "commit", !.l = l, !.key = hmacKey[l.id]]
    <3>1. req' = [req EXCEPT ![h] = w] /\ req[h] \in ReqType
      BY <2>2 DEF Types, Requests
    <3>2. w.pc # "log"
      BY <3>1 DEF ReqType
    <3> HIDE DEF w
    <3> QED  BY <2>1, <3>1, <3>2, LogQuiet
  <2> QED  BY <1>7, <2>1, <2>2, LogSteps DEF Reload, GetList
<1> QED  BY <1>1, <1>2, <1>3, <1>4, <1>5, <1>6, <1>7 DEF Step

LEMMA LogKept ==
    ASSUME Types, Secrets, Admission, LogInv, [Next]_vars
    PROVE  LogInv'
<1>1. ASSUME UNCHANGED <<database, gdpr, crossed, stale, req, faults>>  PROVE LogInv'
  BY <1>1 DEF LogInv, LogOf, database, tables, Logging, LogsFor, IsMember, Rows, GetList
<1>2. CASE UNCHANGED vars
  BY <1>1, <1>2 DEF vars, history, missed, bounds
<1>3. ASSUME NEW h \in Request, Step(h)  PROVE LogInv'
  BY <1>3, StepLogs
<1>4. ASSUME NEW h \in Request, NEW pc \in {"rate", "check", "auth", "create"},
             NEW kind, NEW l, NEW a, NEW by, Start(h, pc, kind, l, a, by),
             UNCHANGED <<database, gdpr, missed>>, AdminOp \/ UNCHANGED bounds
      PROVE  LogInv'
  <2>1. req[h].pc # "log" /\ faults' = faults
    BY <1>4, Faults DEF Start
  <2>2. pc # "log"
    OBVIOUS
  <2> QED  BY <1>4, <2>1, <2>2, LogSteps DEF missed
<1>5. ASSUME NEW h \in Request, NEW a, NEW kind, Ask(h, a, kind) \/ Leave(h, a)  PROVE LogInv'
  <2>1. UNCHANGED <<database, gdpr, missed>> /\ UNCHANGED bounds
    BY <1>5 DEF Ask, Leave, history
  <2>2. PICK pc \in {"rate", "check"}, k \in {kind, "leave"}, l \in list : Start(h, pc, k, l, a, "user")
    BY <1>5 DEF Ask, Leave
  <2> QED  BY <1>4, <2>1, <2>2
<1>6. ASSUME NEW h \in Request, NEW k \in links, NEW kind, Confirm(h, k, kind)  PROVE LogInv'
  <2>1. UNCHANGED <<database, gdpr, missed>> /\ UNCHANGED bounds
    BY <1>6 DEF Confirm, history
  <2>2. PICK a : \E l \in list : Start(h, "check", kind, l, a, "user")
    BY <1>6 DEF Confirm, GetList
  <2> QED  BY <1>4, <2>1, <2>2
<1>7. ASSUME NEW h \in Request, NEW u, NEW kind, NEW a, Administrate(h, u, kind, a)  PROVE LogInv'
  <2>1. UNCHANGED <<database, gdpr, missed>> /\ AdminOp
    BY <1>7 DEF Administrate, history
  <2>2. PICK l \in list : Start(h, "auth", kind, l, a, u)
    BY <1>7 DEF Administrate
  <2> QED  BY <1>4, <2>1, <2>2
<1>8. ASSUME NEW h \in Request, NEW x, NEW a, CreateList(h, x, a)  PROVE LogInv'
  <2>1. UNCHANGED <<database, gdpr, missed>> /\ AdminOp
    BY <1>8 DEF CreateList, history
  <2>2. PICK l : Start(h, "create", "create", l, a, Superadmin)
    BY <1>8 DEF CreateList
  <2> QED  BY <1>4, <2>1, <2>2
<1>9. ASSUME NEW a, NEW kind, OwnLink(a, kind)  PROVE LogInv'
  BY <1>1, <1>9 DEF OwnLink, history, missed, bounds
<1>10. CASE Tick
  BY <1>1, <1>10 DEF Tick, history, missed, bounds
<1>11. CASE Crash
  BY <1>11, Faults DEF Crash, LogInv
<1> QED  BY <1>2, <1>3, <1>5, <1>6, <1>7, <1>8, <1>9, <1>10, <1>11 DEF Next

LEMMA LogBegins == Init => LogInv
<1> SUFFICES ASSUME Init, NEW a \in Person PROVE LogOf(a)
  BY DEF LogInv
<1>1. \A h \in Request : ~Logging(h, a)
  BY DEF Init, Logging, NoReq
<1>2. list = InitList /\ member = limit.members /\ limit \in Limits /\ admitted = OnLists(member)
  BY DEF Init
<1>3. InitList \subseteq ListRow /\ UniqueIn(InitList, member)
  BY <1>2, InitAssumption, LimitsAssumption
<1>4. \A x \in ListAddr : gdpr[<<x, a>>] = "join" <=> <<x, a>> \in OnLists(member)
  BY <1>2 DEF Init
<1>5. ASSUME NEW x
      PROVE  <<x, a>> \in OnLists(member) <=> \E l \in list, m \in member : m.list = l.id /\ l.addr = x /\ m.address = a
  <2>1. <<x, a>> \in OnLists(member) <=>
           \E z \in {y \in InitList \X member : y[2].list = y[1].id} : <<x, a>> = <<z[1].addr, z[2].address>>
    BY DEF OnLists
  <2>2. ASSUME NEW z \in {y \in InitList \X member : y[2].list = y[1].id}, <<x, a>> = <<z[1].addr, z[2].address>>
        PROVE  \E l \in list, m \in member : m.list = l.id /\ l.addr = x /\ m.address = a
    BY <1>2, <2>2
  <2>3. ASSUME NEW l \in list, NEW m \in member, m.list = l.id, l.addr = x, m.address = a
        PROVE  \E z \in {y \in InitList \X member : y[2].list = y[1].id} : <<x, a>> = <<z[1].addr, z[2].address>>
    <3>1. <<l, m>> \in {y \in InitList \X member : y[2].list = y[1].id}
      BY <1>2, <2>3
    <3>2. <<x, a>> = <<<<l, m>>[1].addr, <<l, m>>[2].address>>
      BY <2>3
    <3> QED  BY <3>1, <3>2
  <2> QED  BY <2>1, <2>2, <2>3
<1>6. \A l \in list : IsMember(l, a) <=> <<l.addr, a>> \in OnLists(member)
  BY <1>2, <1>3, <1>5 DEF IsMember, Rows, UniqueIn
<1>7. \A l \in list : l.addr \in ListAddr
  BY <1>2, <1>3 DEF ListRow
<1>8. \A x \in ListAddr : GetList(x) = {} => gdpr[<<x, a>>] # "join"
  BY <1>4, <1>5 DEF GetList
<1> QED  BY <1>1, <1>4, <1>6, <1>7, <1>8 DEF LogOf, LogsFor

(* The GDPR log agrees with the database about everybody whose changes do  *)
(* not wait to be logged, have not crossed and were not made to a deleted  *)
(* list, while nothing has failed: between a change and its log entry      *)
(* nobody but the changing request touches either, whatever other lists    *)
(* and people the other requests are about.                                *)
THEOREM LogAgrees == Spec => []LogMatchesMembership
<1>1. Types /\ LogInv => LogMatchesMembership
  <2> SUFFICES ASSUME Types, LogInv, NEW l \in list, NEW a \in Person,
                      ~(faults > 0), a \notin crossed \cup stale, \A h \in Request : ~Logging(h, a)
               PROVE  IsMember(l, a) <=> gdpr[<<l.addr, a>>] = "join"
    BY DEF LogMatchesMembership
  <2>1. faults = 0
    BY DEF Types, Records
  <2>2. LogOf(a)
    BY <2>1 DEF LogInv
  <2> QED  BY <2>2 DEF LogOf, LogsFor
<1>2. Types /\ Secrets /\ Admission /\ LogInv /\ [Next]_vars => LogInv'
  BY LogKept
<1> QED  BY <1>1, <1>2, LogBegins, TypesAlways, SecretsAlways, AdmissionAlways, PTL DEF Spec
=============================================================================
