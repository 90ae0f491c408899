------------------------------- MODULE ModQueue -------------------------------
(***************************************************************************)
(* What the moderation queue of a list promises, without folders, forms,   *)
(* handlers and crashes: a file is offered to the moderators under a name  *)
(* that is used once; from the moment the sender is told that it is kept,  *)
(* it leaves the queue only by way of the list or by a moderator's word.   *)
(***************************************************************************)
EXTENDS Naturals

CONSTANTS File

VARIABLES
    queue,      \* files that are in the queue
    offered,    \* files that have been in the queue
    kept,       \* files whose sender was told that they are kept
    out,        \* how often a file was forwarded
    dismissed   \* files that a moderator has removed

vars == <<queue, offered, kept, out, dismissed>>

Init ==
    /\ queue = {} /\ offered = {} /\ kept = {} /\ dismissed = {}
    /\ out = [f \in File |-> 0]

Offer(f) ==
    /\ f \notin offered
    /\ offered' = offered \cup {f} /\ queue' = queue \cup {f}
    /\ UNCHANGED <<kept, out, dismissed>>

(* Moderators may have dealt with the file before its sender is answered.  *)
Keep(f) ==
    /\ f \in offered \ kept
    /\ f \in queue \/ f \in dismissed \/ out[f] > 0
    /\ kept' = kept \cup {f}
    /\ UNCHANGED <<queue, offered, out, dismissed>>

(* Only a file that nobody was promised may vanish.                        *)
Withdraw(f) ==
    /\ f \in queue \ kept
    /\ queue' = queue \ {f}
    /\ UNCHANGED <<offered, kept, out, dismissed>>

Forward(f) ==
    /\ f \in offered
    /\ out' = [out EXCEPT ![f] = @ + 1]
    /\ UNCHANGED <<queue, offered, kept, dismissed>>

Clear(f) ==
    /\ f \in queue /\ out[f] > 0
    /\ queue' = queue \ {f}
    /\ UNCHANGED <<offered, kept, out, dismissed>>

Dismiss(f) ==
    /\ f \in queue
    /\ queue' = queue \ {f} /\ dismissed' = dismissed \cup {f}
    /\ UNCHANGED <<offered, kept, out>>

Next ==
    \E f \in File : \/ Offer(f) \/ Keep(f) \/ Withdraw(f)
                    \/ Forward(f) \/ Clear(f) \/ Dismiss(f)

Spec == Init /\ [][Next]_vars

-----------------------------------------------------------------------------
(* Nothing that is kept is lost: it waits, was forwarded, or was dismissed. *)
NothingLost == \A f \in kept : f \in queue \/ f \in dismissed \/ out[f] > 0
=============================================================================
