----------------------------- MODULE DartIdentity -----------------------------
(***************************************************************************)
(* What dataset/README.md promises of the session-local dart identities,   *)
(* free of coordinates and matching: an identity is issued once, stays     *)
(* with its dart while the dart is on the board, and is retired for good   *)
(* when the dart leaves.                                                   *)
(***************************************************************************)
EXTENDS Naturals

VARIABLES
    present, \* identities of the darts on the board
    retired  \* identities of the darts that have left it

Identity == Nat \ {0}

Init ==
    /\ present \in SUBSET Identity
    /\ retired = {}

Change(gone, fresh) ==
    /\ gone \subseteq present
    /\ fresh \subseteq Identity
    /\ fresh \cap (present \cup retired) = {}
    /\ present' = (present \ gone) \cup fresh
    /\ retired' = retired \cup gone

(* The darts that leave and arrive are read off the step itself. *)
Next == Change(present \ present', present' \ present)

Spec == Init /\ [][Next]_<<present, retired>>
=============================================================================
