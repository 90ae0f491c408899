---------------------------- MODULE ListRepoProof ----------------------------
(***************************************************************************)
(* Lemmas about the list database: what its operations do to the keys of   *)
(* its rows.                                                               *)
(***************************************************************************)
EXTENDS ListRepo, WellFoundedInduction, TLAPS

-----------------------------------------------------------------------------
(* Max of numbers                                                          *)

Less == {ss \in Nat \X Nat : ss[1] < ss[2]}

LEMMA LessWellFounded == IsWellFoundedOn(Less, Nat)
  BY NatLessThanWellFounded DEF OpToRel, Less

(* A set of numbers below a bound has a greatest one: the one that is      *)
(* least far from the bound.                                               *)
LEMMA MaxOf ==
    ASSUME NEW b \in Nat, NEW S \in SUBSET (0..b), S # {}
    PROVE  Max(S) \in S /\ \A x \in S : x <= Max(S)
<1> DEFINE D == {b - x : x \in S}
<1>0. \A x \in S : x \in Nat /\ b - x \in Nat
  BY S \subseteq 0..b
<1>1. D \subseteq Nat /\ D # {}
  BY <1>0
<1>2. PICK d \in D : \A e \in D : <<e, d>> \notin Less
  BY <1>1, WFMin, LessWellFounded
<1>3. \A e \in D : ~(e < d)
  BY <1>1, <1>2 DEF Less
<1>4. \E x \in S : \A y \in S : x >= y
  <2>1. PICK x \in S : d = b - x
    OBVIOUS
  <2>2. \A y \in S : ~(b - y < b - x)
    BY <1>3, <2>1
  <2>3. \A y \in S : x >= y
    BY <1>0, <2>2
  <2> QED  BY <2>3
<1> QED  BY <1>4 DEF Max

-----------------------------------------------------------------------------
(* The keys                                                                *)

(* The UNIQUE constraints of the schema hold: what GetList and             *)
(* GetMembership (QueryRow: the first row only) rely on, and a part of the *)
(* invariants of the modules that change the database.                     *)
KeysUnique == UniqueIn(list, member)

(* The id that SQLite gives a new list is no list's in the table.          *)
LEMMA FreshId ==
    ASSUME RepoTypeOK
    PROVE  NextId \in Nat /\ \A l \in list : l.id < NextId
<1> DEFINE S == {l.id : l \in list}
<1>1. \A l \in list : l.id \in Nat /\ l.id \in 0..MaxId
  BY MaxIdAssumption DEF RepoTypeOK, ListRow, Id
<1>2. CASE list = {}
  BY <1>2 DEF NextId
<1>3. CASE list # {}
  <2>1. S \in SUBSET (0..MaxId) /\ S # {}
    BY <1>1, <1>3
  <2>2. Max(S) \in S /\ \A x \in S : x <= Max(S)
    BY <2>1, MaxOf, MaxIdAssumption
  <2>3. Max(S) \in Nat
    BY <1>1, <2>2
  <2>4. NextId = 1 + Max(S)
    BY <1>3 DEF NextId
  <2> HIDE DEF S
  <2>5. \A x \in S : x \in Nat => x < NextId
    BY <2>2, <2>3, <2>4
  <2> QED  BY <1>1, <2>3, <2>4, <2>5 DEF S
<1> QED  BY <1>2, <1>3

LEMMA CreateUnique ==
    ASSUME RepoTypeOK, KeysUnique, NEW a \in ListAddr, Create(a)
    PROVE  KeysUnique'
<1> DEFINE n == [id |-> NextId, addr |-> a, set |-> DefaultSettings]
<1>1. list' = list \cup {n} /\ member' = member /\ \A l \in list : l.addr # a
  BY DEF Create, GetList
<1>2. \A l \in list : l.id # n.id /\ l.addr # n.addr
  <2>1. \A l \in list : l.id \in Nat
    BY MaxIdAssumption DEF RepoTypeOK, ListRow, Id
  <2> QED  BY <1>1, <2>1, FreshId
<1> HIDE DEF n
<1> QED  BY <1>1, <1>2 DEF KeysUnique, UniqueIn

(* A changed row keeps its key.                                            *)
LEMMA UpdateUnique ==
    ASSUME RepoTypeOK, KeysUnique, NEW l, NEW s, Update(l, s)
    PROVE  KeysUnique'
<1> DEFINE f(r) == IF r.id = l.id THEN [r EXCEPT !.set = s] ELSE r
<1>1. list' = {f(r) : r \in list} /\ member' = member
  BY DEF Update
<1>2. \A r \in list : f(r).id = r.id /\ f(r).addr = r.addr
  BY DEF RepoTypeOK, ListRow
<1> HIDE DEF f
<1> QED  BY <1>1, <1>2 DEF KeysUnique, UniqueIn

LEMMA DeleteUnique == ASSUME KeysUnique, NEW l, Delete(l) PROVE KeysUnique'
  BY DEF Delete, KeysUnique, UniqueIn

LEMMA AddMembersUnique ==
    ASSUME KeysUnique, NEW l, NEW addrs, NEW role, AddMembers(l, addrs, role)
    PROVE  KeysUnique'
<1> DEFINE added == addrs \ {l.addr}
           kept == {r \in member : ~(r.list = l.id /\ r.address \in added)}
           new  == {[list |-> l.id, address |-> a, role |-> role] : a \in added}
<1>1. member' = kept \cup new /\ list' = list
  BY DEF AddMembers
<1>2. \A m \in new : m.list = l.id /\ m.address \in added
  OBVIOUS
<1>3. \A m1, m2 \in new : m1.address = m2.address => m1 = m2
  OBVIOUS
<1>4. \A m1 \in kept, m2 \in new : m1.list # m2.list \/ m1.address # m2.address
  BY <1>2
<1>5. \A m1, m2 \in kept : m1.list = m2.list /\ m1.address = m2.address => m1 = m2
  BY DEF KeysUnique, UniqueIn
<1> HIDE DEF kept, new
<1> QED  BY <1>1, <1>3, <1>4, <1>5 DEF KeysUnique, UniqueIn

LEMMA UpdateMemberUnique ==
    ASSUME RepoTypeOK, KeysUnique, NEW l, NEW a, NEW role, UpdateMember(l, a, role)
    PROVE  KeysUnique'
<1> DEFINE f(r) == IF r.list = l.id /\ r.address = a THEN [r EXCEPT !.role = role] ELSE r
<1>1. member' = {f(r) : r \in member} /\ list' = list
  BY DEF UpdateMember
<1>2. \A r \in member : f(r).list = r.list /\ f(r).address = r.address
  BY DEF RepoTypeOK, MemberRow
<1> HIDE DEF f
<1> QED  BY <1>1, <1>2 DEF KeysUnique, UniqueIn

LEMMA RemoveMembersUnique ==
    ASSUME KeysUnique, NEW l, NEW addrs, RemoveMembers(l, addrs)
    PROVE  KeysUnique'
  BY DEF RemoveMembers, KeysUnique, UniqueIn

LEMMA KnownsUnique ==
    ASSUME KeysUnique, UNCHANGED <<list, member>>
    PROVE  KeysUnique'
  BY DEF KeysUnique, UniqueIn

-----------------------------------------------------------------------------
(* The rows                                                                *)

(* Every operation on members and known senders of a list that is loaded   *)
(* leaves rows with the columns of the schema.                             *)
LEMMA MembersTyped ==
    ASSUME RepoTypeOK, NEW l, l.id \in Id, NEW addrs \in SUBSET Address, NEW role \in Role,
           \/ AddMembers(l, addrs, role)
           \/ \E a \in Address : UpdateMember(l, a, role)
           \/ RemoveMembers(l, addrs) \/ AddKnowns(l, addrs) \/ RemoveKnowns(l, addrs)
    PROVE  RepoTypeOK' /\ UNCHANGED list
<1>1. CASE AddMembers(l, addrs, role)
  BY <1>1 DEF RepoTypeOK, AddMembers, MemberRow
<1>2. ASSUME NEW a \in Address, UpdateMember(l, a, role)  PROVE RepoTypeOK' /\ UNCHANGED list
  BY <1>2 DEF RepoTypeOK, UpdateMember, MemberRow
<1>3. CASE RemoveMembers(l, addrs)
  BY <1>3 DEF RepoTypeOK, RemoveMembers
<1>4. CASE AddKnowns(l, addrs)
  BY <1>4 DEF RepoTypeOK, AddKnowns, KnownRow
<1>5. CASE RemoveKnowns(l, addrs)
  BY <1>5 DEF RepoTypeOK, RemoveKnowns
<1> QED  BY <1>1, <1>2, <1>3, <1>4, <1>5

LEMMA ListsTyped ==
    ASSUME RepoTypeOK,
           \/ \E a \in ListAddr : Create(a)
           \/ \E l, s : s \in Settings /\ Update(l, s)
           \/ \E l : Delete(l)
    PROVE  RepoTypeOK'
<1>1. ASSUME NEW a \in ListAddr, Create(a)  PROVE RepoTypeOK'
  <2>1. DefaultSettings \in Settings
    BY DEF DefaultSettings, Settings, Action, Mod, Pass, Reject
  <2> QED  BY <1>1, <2>1 DEF RepoTypeOK, Create, ListRow
<1>2. ASSUME NEW l, NEW s \in Settings, Update(l, s)  PROVE RepoTypeOK'
  BY <1>2 DEF RepoTypeOK, Update, ListRow
<1>3. ASSUME NEW l, Delete(l)  PROVE RepoTypeOK'
  BY <1>3 DEF RepoTypeOK, Delete
<1> QED  BY <1>1, <1>2, <1>3

-----------------------------------------------------------------------------
(* Copies of rows                                                          *)

(* The row that a copy was made of keeps its key until its list is         *)
(* deleted: by KeysUnique, Delete(l), which goes by the id, deletes the    *)
(* list of that address and no other.                                      *)
LEMMA DeletedRow ==
    ASSUME KeysUnique, NEW l \in list, Delete(l), NEW r \in list
    PROVE  r.addr = l.addr \/ r \in list'
<1>1. r.id = l.id => r = l
  BY DEF KeysUnique, UniqueIn
<1> QED  BY <1>1 DEF Delete

LEMMA UpdatedRow ==
    ASSUME RepoTypeOK, NEW l, NEW s, Update(l, s), NEW r \in list
    PROVE  \E n \in list' : n.id = r.id /\ n.addr = r.addr
<1> DEFINE n == IF r.id = l.id THEN [r EXCEPT !.set = s] ELSE r
<1>1. n \in list'
  BY DEF Update
<1>2. n.id = r.id /\ n.addr = r.addr
  BY DEF RepoTypeOK, ListRow
<1> QED  BY <1>1, <1>2

-----------------------------------------------------------------------------
(* Who is a member, after an operation on one address                      *)

Has(i, a) == \E m \in member : m.list = i /\ m.address = a

LEMMA MemberHas == ASSUME NEW l, NEW a PROVE IsMember(l, a) <=> Has(l.id, a)
  BY DEF IsMember, Rows, Has

LEMMA AddedHas ==
    ASSUME NEW l, NEW a, a # l.addr, NEW role, AddMembers(l, {a}, role)
    PROVE  /\ \A i, b : Has(i, b)' <=> Has(i, b) \/ (i = l.id /\ b = a)
           /\ \A m \in member' : m \in member \/ m = [list |-> l.id, address |-> a, role |-> role]
           /\ list' = list
<1> DEFINE n == [list |-> l.id, address |-> a, role |-> role]
           kept == {r \in member : ~(r.list = l.id /\ r.address = a)}
<1>1. {a} \ {l.addr} = {a}
  OBVIOUS
<1>2. member' = kept \cup {n} /\ list' = list
  BY <1>1 DEF AddMembers
<1>3. n.list = l.id /\ n.address = a
  OBVIOUS
<1>4. \A m \in member' : m \in member \/ m = n
  BY <1>2
<1>5. \A m \in member : m \in kept \/ (m.list = l.id /\ m.address = a)
  OBVIOUS
<1> HIDE DEF n, kept
<1>6. ASSUME NEW i, NEW b  PROVE Has(i, b)' <=> Has(i, b) \/ (i = l.id /\ b = a)
  BY <1>2, <1>3, <1>4, <1>5 DEF Has
<1> QED  BY <1>2, <1>4, <1>6 DEF n

LEMMA RemovedHas ==
    ASSUME NEW l, NEW a, RemoveMembers(l, {a})
    PROVE  /\ \A i, b : Has(i, b)' <=> Has(i, b) /\ ~(i = l.id /\ b = a)
           /\ member' \subseteq member /\ list' = list
  BY DEF RemoveMembers, Has

LEMMA UpdatedHas ==
    ASSUME RepoTypeOK, NEW l, NEW a, NEW role, UpdateMember(l, a, role)
    PROVE  /\ \A i, b : Has(i, b)' <=> Has(i, b)
           /\ \A m \in member' : m \in member \/ (m.list = l.id /\ m.address = a /\ Has(l.id, a))
           /\ list' = list
<1> DEFINE f(r) == IF r.list = l.id /\ r.address = a THEN [r EXCEPT !.role = role] ELSE r
<1>1. member' = {f(r) : r \in member} /\ list' = list
  BY DEF UpdateMember
<1>2. \A r \in member : /\ f(r).list = r.list /\ f(r).address = r.address
                        /\ f(r) = r \/ (r.list = l.id /\ r.address = a)
  BY DEF RepoTypeOK, MemberRow
<1> HIDE DEF f
<1> QED  BY <1>1, <1>2 DEF Has

LEMMA DeletedHas ==
    ASSUME NEW l, Delete(l)
    PROVE  /\ \A i, b : Has(i, b)' <=> Has(i, b) /\ i # l.id
           /\ member' \subseteq member /\ \A x : x \in list' <=> x \in list /\ x.id # l.id
  BY DEF Delete, Has
=============================================================================
