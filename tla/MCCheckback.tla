---------------------------- MODULE MCCheckback ----------------------------
(***************************************************************************)
(* One list, one person and the superadmin.  A week is one day long.       *)
(***************************************************************************)
EXTENDS Checkback, TLC

CONSTANTS A,        \* the address of the list
          p,        \* a person
          r1, r2    \* requests

Public == [DefaultSettings EXCEPT !.publicSignup = TRUE]

PublicList == {[id |-> 1, addr |-> A, set |-> Public]}
ClosedList == {[id |-> 1, addr |-> A, set |-> DefaultSettings]}
OneAdmin == {[list |-> 1, address |-> p, role |-> AllRoles]}

MCSettings == {Public, DefaultSettings}
(* No property tells the requests apart.                                   *)
Symmetry == Permutations({r1, r2})

(* A week with a fault and an administrator; or there are an administrator *)
(* and the superadmin, and the list is deleted and created again.          *)
MCLimits ==
    {[members |-> {}, mails |-> TRUE, days |-> 1, faults |-> 1, adminOps |-> 1],
     [members |-> OneAdmin, mails |-> FALSE, days |-> 0, faults |-> 1, adminOps |-> 2],
     [members |-> OneAdmin, mails |-> FALSE, days |-> 0, faults |-> 0, adminOps |-> 4]}
MCTwoWeeks == {[members |-> {}, mails |-> TRUE, days |-> 2, faults |-> 0, adminOps |-> 0]}

MCRoles == {AllRoles}
=============================================================================
