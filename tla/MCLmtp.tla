------------------------------- MODULE MCLmtp -------------------------------
(***************************************************************************)
(* Small databases and a choice of mails for the runs of Lmtp.             *)
(***************************************************************************)
EXTENDS Lmtp

CONSTANTS A, B, C,  \* list addresses
          p, q      \* people

Plain == [null |-> FALSE, rcpts |-> <<[addr |-> A, bounce |-> FALSE]>>,
          from |-> {p}, sender |-> None, to |-> {A, B}, listIds |-> {},
          subject |-> "other", spam |-> FALSE, bad |-> {}]

To(r) == [Plain EXCEPT !.rcpts = r]
toA == [addr |-> A, bounce |-> FALSE]
toB == [addr |-> B, bounce |-> FALSE]
bouncesA == [addr |-> A, bounce |-> TRUE]
bouncesB == [addr |-> B, bounce |-> TRUE]

Catalogue ==
    [toOne    |-> To(<<toA>>),
     toBoth   |-> To(<<toA, toB>>),
     twice    |-> To(<<toA, toA>>),
     byQ      |-> [To(<<toB>>) EXCEPT !.from = {q}],
     byTwo    |-> [To(<<toA>>) EXCEPT !.from = {p, q}],
     nobody   |-> [Plain EXCEPT !.from = {}],
     badFrom  |-> [Plain EXCEPT !.bad = {"from"}],
     badTo    |-> [Plain EXCEPT !.bad = {"to"}],
     badMime  |-> [Plain EXCEPT !.bad = {"mime"}],
     garbage  |-> [Plain EXCEPT !.bad = {"message"}],
     badId    |-> [Plain EXCEPT !.bad = {"listId"}],
     spam     |-> [To(<<toA, toB>>) EXCEPT !.spam = TRUE],
     bcc      |-> [To(<<toA, toB>>) EXCEPT !.to = {B}],
     loop     |-> [To(<<toA, toB>>) EXCEPT !.listIds = {A}],
     ndr      |-> [To(<<bouncesA, toB>>) EXCEPT !.null = TRUE, !.from = {}, !.to = {}],
     toBounce |-> To(<<bouncesA, toB>>),
     join     |-> [To(<<toB>>) EXCEPT !.subject = "join", !.from = {q}],
     joinBoth |-> [To(<<toB, toA>>) EXCEPT !.subject = "join", !.from = {q}],
     leave    |-> [To(<<toA, toB>>) EXCEPT !.subject = "leave"],
     twoLeave |-> [Plain EXCEPT !.subject = "leave", !.from = {p, q}],
     sender   |-> [Plain EXCEPT !.subject = "leave", !.sender = p],
     onBehalf |-> [Plain EXCEPT !.subject = "leave", !.sender = q]]

MCMsg == [m \in Mails |-> Catalogue[m]]

Row(id, a, set) == [id |-> id, addr |-> a, set |-> set]
MembersOnly == [DefaultSettings EXCEPT !.action =
                   [s \in Status |-> IF s = "Member" THEN Pass
                                     ELSE IF s = "Moderator" THEN Mod ELSE Reject]]

(* B is for members only, but open to new ones.                            *)
MCList == {Row(1, A, DefaultSettings), Row(2, B, [MembersOnly EXCEPT !.publicSignup = TRUE])}
MCMember == {[list |-> 1, address |-> p, role |-> Receiver],
             [list |-> 1, address |-> q, role |-> [AllRoles EXCEPT !.receive = FALSE]],
             [list |-> 2, address |-> p, role |-> Receiver]}
(* Only list B, which may be deleted and have its id taken over by C.      *)
OneList == {Row(1, B, MembersOnly)}
OneMember == {[list |-> 1, address |-> p, role |-> Receiver]}
NoKnown == {}

MCKnown == {[list |-> 2, address |-> q]}

MCSettings == {DefaultSettings, MembersOnly}
MCRoles == {Receiver, AllRoles}
=============================================================================
