---------------------------- MODULE MCModeration ----------------------------
(***************************************************************************)
(* One list with a queue, a second address for a list that may take over   *)
(* its id, and people who moderate both.                                   *)
(***************************************************************************)
EXTENDS Moderation

CONSTANTS A, B,     \* list addresses
          u, v,     \* moderators
          p         \* a sender

KnownPass   == DefaultSettings
KnownReject == [DefaultSettings EXCEPT !.action =
                   [s \in Status |-> IF s = "Known" THEN Reject ELSE Mod]]

MCList == {[id |-> 1, addr |-> A, set |-> KnownReject]}
MCMember == {[list |-> 1, address |-> m, role |-> AllRoles] : m \in Moderator}
MCFrom == [n \in File |-> p]
MCSettings == {KnownPass}

(* Two moderators and one list, or one moderator and lists that come and go. *)
MCLimits == {[faults |-> 1, adminOps |-> 0, who |-> {u, v}],
             [faults |-> 1, adminOps |-> 3, who |-> {u}]}
MCNoLimits == {[faults |-> 0, adminOps |-> 0, who |-> {u, v}]}
=============================================================================
