----------------------------- MODULE AtLeastOnce -----------------------------
(***************************************************************************)
(* What a mailing list server promises the mail system that feeds it, with *)
(* no word about sessions, databases or headers.  An item is one mail for  *)
(* one recipient.  The mail system keeps it queued and tries it again      *)
(* until it is told that the server has taken the item over or refused it. *)
(* The server may act on an item more than once, but never more often than *)
(* it was tried, and it never says "delivered" without having acted,       *)
(* unless the item is a command that others have overtaken.                *)
(***************************************************************************)
EXTENDS Naturals

CONSTANTS
    Mails,          \* the mails
    Item,           \* the items: a mail and (the number of) a recipient of it
    BestEffort,     \* the mails that may be taken over without any effect
    Commands        \* the mails that ask for a change which others can make, too

VARIABLES
    fate,       \* what the mail system knows of an item
    tries,      \* how often a mail has been tried
    copies,     \* how often the server has acted on the item
    overtaken   \* items that others have seen to while the server had them

vars == <<fate, tries, copies, overtaken>>

Init ==
    /\ fate = [x \in Item |-> "new"]
    /\ tries = [m \in Mails |-> 0]
    /\ copies = [x \in Item |-> 0]
    /\ overtaken = {}

(* The mail system accepts a mail.                                         *)
Submit(m) ==
    /\ \A x \in Item : x[1] = m => fate[x] = "new"
    /\ fate' = [x \in Item |-> IF x[1] = m THEN "queued" ELSE fate[x]]
    /\ UNCHANGED <<tries, copies, overtaken>>

(* The mail system tries the queued items of a mail.                       *)
Try(m) ==
    /\ \E x \in Item : x[1] = m /\ fate[x] = "queued"
    /\ tries' = [tries EXCEPT ![m] = @ + 1]
    /\ UNCHANGED <<fate, copies, overtaken>>

(* The server acts, perhaps after the mail system has given up waiting.    *)
Act(x) ==
    /\ copies[x] < tries[x[1]]
    /\ copies' = [copies EXCEPT ![x] = @ + 1]
    /\ UNCHANGED <<fate, tries, overtaken>>

(* Somebody else changes what commands that are being tried are about,     *)
(* before the server has acted on this try.                                *)
Overtake(X) ==
    /\ \A x \in X : x[1] \in Commands /\ copies[x] < tries[x[1]]
    /\ overtaken' = overtaken \cup X
    /\ UNCHANGED <<fate, tries, copies>>

(* The mail system learns the fate of some recipients of a mail.           *)
Settle(X, f) ==
    /\ \A x \in X : fate[x] = "queued"
    /\ f = "delivered" => \A x \in X : copies[x] > 0 \/ x[1] \in BestEffort \/ x \in overtaken
    /\ fate' = [x \in Item |-> IF x \in X THEN f ELSE fate[x]]
    /\ UNCHANGED <<tries, copies, overtaken>>

Next ==
    \/ \E m \in Mails : Submit(m) \/ Try(m)
    \/ \E x \in Item : Act(x)
    \/ \E X \in SUBSET Item : Overtake(X)
    \/ \E m \in Mails, f \in {"delivered", "bounced"} :
          \E X \in SUBSET {x \in Item : x[1] = m} : Settle(X, f)

Spec == Init /\ [][Next]_vars
=============================================================================
