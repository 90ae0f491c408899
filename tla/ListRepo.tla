------------------------------ MODULE ListRepo ------------------------------
(***************************************************************************)
(* The list database of repo/sqlite/list.go: three tables of rows and the  *)
(* statements and transactions that read and change them.  Every operation *)
(* of ulist.ListRepo that changes a table is an action here; the modules   *)
(* that EXTEND this one give it its arguments and its interleavings.       *)
(*                                                                         *)
(* A handler holds a *List, the copy of a row that GetList returned.  The  *)
(* row may have changed or be gone when the copy is used: every operation  *)
(* below takes such a copy l and finds its rows by l.id, as the SQL does.  *)
(***************************************************************************)
EXTENDS Integers, FiniteSetsExt

CONSTANTS
    Person,     \* e-mail addresses of people
    ListAddr,   \* addresses a list can have
    MaxId       \* bound: the largest row id of the list table

Address == Person \cup ListAddr

ASSUME MaxIdAssumption == MaxId \in Nat
ASSUME AddressAssumption == Person \cap ListAddr = {}

VARIABLES
    list,       \* the rows of table list
    member,     \* the rows of table member
    known       \* the rows of table known

tables == <<list, member, known>>

-----------------------------------------------------------------------------
(* Actions, ordered as GetAction needs them, and the roles of a sender.    *)

Reject == 0
Mod    == 1
Pass   == 2
Action == {Reject, Mod, Pass}

Status == {"Unknown", "Known", "Member", "Moderator"}

Role == [receive: BOOLEAN, moderate: BOOLEAN, notify: BOOLEAN,
         admin: BOOLEAN, bounces: BOOLEAN]

Id        == 1..MaxId
Settings  == [publicSignup: BOOLEAN, action: [Status -> Action]]
ListRow   == [id: Id, addr: ListAddr, set: Settings]
MemberRow == [list: Id, address: Address, role: Role]
KnownRow  == [list: Id, address: Address]

(* What AddMembers is called with for an ordinary new member: receive only. *)
Receiver == [receive |-> TRUE, moderate |-> FALSE, notify |-> FALSE,
             admin |-> FALSE, bounces |-> FALSE]

(* What CreateList gives the first members of a list. *)
AllRoles == [receive |-> TRUE, moderate |-> TRUE, notify |-> TRUE,
             admin |-> TRUE, bounces |-> TRUE]

(* Everybody whom the list knows may post, everybody else is moderated.    *)
DefaultSettings ==
    [publicSignup |-> FALSE,
     action |-> [s \in Status |-> IF s = "Unknown" THEN Mod ELSE Pass]]

(* The UNIQUE constraints of tables list and member.                       *)
UniqueIn(lists, members) ==
    /\ \A l1, l2 \in lists : (l1.id = l2.id \/ l1.addr = l2.addr) => l1 = l2
    /\ \A m1, m2 \in members : (m1.list = m2.list /\ m1.address = m2.address) => m1 = m2

RepoTypeOK ==
    /\ list \subseteq ListRow
    /\ member \subseteq MemberRow
    /\ known \subseteq KnownRow

-----------------------------------------------------------------------------
(* Queries *)

GetList(a) == {l \in list : l.addr = a}         \* one row at most, UNIQUE(local, domain)

Rows(l, a) == {m \in member : m.list = l.id /\ m.address = a}

IsMember(l, a) == Rows(l, a) # {}

IsKnown(l, a) == [list |-> l.id, address |-> a] \in known

(* Mutant: without "list = ?".                                             *)
MembersAnywhere(l, column) == {m.address : m \in {r \in member : r.role[column]}}

MembersWhere(l, column) ==
    {m.address : m \in {r \in member : r.list = l.id /\ r.role[column]}}

Receivers(l)       == MembersWhere(l, "receive")
Notifieds(l)       == MembersWhere(l, "notify")
BounceNotifieds(l) == MembersWhere(l, "bounces")

(* The statuses of a sender.  A moderator is not listed as a member too.   *)
GetRoles(l, a) ==
    {IF m.role.moderate THEN "Moderator" ELSE "Member" : m \in Rows(l, a)}
    \cup (IF IsKnown(l, a) THEN {"Known"} ELSE {})

-----------------------------------------------------------------------------
(* Transactions *)

(* id is INTEGER PRIMARY KEY without AUTOINCREMENT: SQLite takes the       *)
(* largest id in use plus one, so the id of a deleted list can come back.  *)
NextId == IF list = {} THEN 1 ELSE 1 + Max({l.id : l \in list})

Create(a) ==
    /\ GetList(a) = {}                          \* UNIQUE(local, domain)
    /\ NextId \in Id
    /\ list' = list \cup {[id |-> NextId, addr |-> a, set |-> DefaultSettings]}
    /\ UNCHANGED <<member, known>>

Update(l, s) ==
    /\ list' = {IF r.id = l.id THEN [r EXCEPT !.set = s] ELSE r : r \in list}
    /\ UNCHANGED <<member, known>>

(* Mutant: without the statements for the other tables.                    *)
DeleteListOnly(l) == list' = {r \in list : r.id # l.id} /\ UNCHANGED <<member, known>>

Delete(l) ==
    /\ list' = {r \in list : r.id # l.id}
    /\ known' = {r \in known : r.list # l.id}
    /\ member' = {r \in member : r.list # l.id}

(* "replace into": the new row takes the place of the one with its key.    *)
AddMembers(l, addrs, role) ==
    LET added == addrs \ {l.addr}               \* don't add list to itself
    IN  /\ member' = {r \in member : ~(r.list = l.id /\ r.address \in added)}
                     \cup {[list |-> l.id, address |-> a, role |-> role] : a \in added}
        /\ UNCHANGED <<list, known>>

UpdateMember(l, a, role) ==
    /\ member' = {IF r.list = l.id /\ r.address = a THEN [r EXCEPT !.role = role]
                                                    ELSE r : r \in member}
    /\ UNCHANGED <<list, known>>

RemoveMembers(l, addrs) ==
    /\ member' = {r \in member : ~(r.list = l.id /\ r.address \in addrs)}
    /\ UNCHANGED <<list, known>>

AddKnowns(l, addrs) ==
    /\ known' = known \cup {[list |-> l.id, address |-> a] : a \in addrs \ {l.addr}}
    /\ UNCHANGED <<list, member>>

RemoveKnowns(l, addrs) ==
    /\ known' = known \ {[list |-> l.id, address |-> a] : a \in addrs}
    /\ UNCHANGED <<list, member>>
=============================================================================
