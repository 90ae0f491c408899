------------------------------- MODULE Paging -------------------------------
(***************************************************************************)
(* The pages of the moderators' form: which mails are on a page and which  *)
(* pages it has links to.  The mails of a queue are numbered from 0, in    *)
(* the order in which they are shown.                                      *)
(***************************************************************************)
EXTENDS Integers

modPerPage == 10

(* At most so many file names are read from the folder.                    *)
Readdirnames == 1000

(* How many mails the form can have.                                       *)
Count == 0..Readdirnames

maxPage(n) == IF n = 0 THEN 1 ELSE (n + modPerPage - 1) \div modPerPage

(* The page that is shown if a page is asked for.  (What is no number is   *)
(* taken for a 1.)                                                         *)
Page(asked, n) ==
    IF asked < 1 THEN 1 ELSE IF asked > maxPage(n) THEN maxPage(n) ELSE asked

(* The first mail of a page: all mails before it are cut off, if there are *)
(* mails after them.  Then all mails but the first ones are.               *)
First(page, n) == IF (page - 1) * modPerPage < n THEN (page - 1) * modPerPage ELSE 0

Shown(page, n) == {i \in 0..(n - 1) : First(page, n) <= i /\ i < First(page, n) + modPerPage}

(* p /= 2 and p *= 2, as often as a page number allows.                    *)
Powers == {1, 2, 4, 8, 16, 32, 64}

PageLinks(page, n) ==
    {1, page, maxPage(n)}
    \cup {p \in 2..maxPage(n) : \E d \in Powers : p = (page - 1) \div d}
    \cup {p \in 1..(maxPage(n) - 1) : \E f \in Powers : p = (page + 1) * f}
=============================================================================
