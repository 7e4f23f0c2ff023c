----------------------------- MODULE SampleStore -----------------------------
(***************************************************************************)
(* What dataset/README.md promises of the stored samples, free of files,   *)
(* sizes and locks: a sample appears whole or not at all, under a name     *)
(* that is used once; it enters the inventory after that and stays there   *)
(* until it is gone; and only the oldest of the inventory is removed.      *)
(***************************************************************************)
EXTENDS Naturals

CONSTANT Samples

VARIABLES
    store,     \* absent | whole | torn | gone, for each sample
    inventory, \* the samples the program knows
    unseen     \* those it could not read when it last tried

InState(state) == {s \in Samples : store[s] = state}

Init ==
    /\ store = [s \in Samples |-> "absent"]
    /\ inventory = {} /\ unseen = {}

Becomes(s, state) ==
    /\ store' = [store EXCEPT ![s] = state]
    /\ UNCHANGED <<inventory, unseen>>

Appear(s) == store[s] = "absent" /\ Becomes(s, "whole")

GiveUp(s) == store[s] = "absent" /\ Becomes(s, "gone")

Enter(s) ==
    /\ store[s] = "whole"
    /\ inventory' = inventory \cup {s}
    /\ UNCHANGED <<store, unseen>>

Miss(s) ==
    /\ store[s] = "whole" /\ s \notin inventory
    /\ unseen' = unseen \cup {s}
    /\ UNCHANGED <<store, inventory>>

Remove(s) ==
    /\ s \in inventory /\ \A t \in inventory \ {s} : s < t
    /\ store[s] \in {"whole", "torn"}
    /\ Becomes(s, "torn") \/ Becomes(s, "gone")

Leave(s) ==
    /\ s \in inventory /\ store[s] = "gone"
    /\ inventory' = inventory \ {s}
    /\ UNCHANGED <<store, unseen>>

(* The program ends, and with it what it was writing; started again, it    *)
(* finds every sample that is whole and can be read, also one it missed    *)
(* before, and may find one that is torn.                                  *)
Restart ==
    /\ store' \in {[s \in Samples |-> IF s \in lost THEN "gone" ELSE store[s]] :
                      lost \in SUBSET InState("absent")}
    /\ unseen' \subseteq InState("whole") \cup InState("torn")
    /\ InState("whole") \ unseen' \subseteq inventory'
    /\ inventory' \cap unseen' = {}
    /\ inventory' \subseteq InState("whole") \cup InState("torn")

Next ==
    \/ \E s \in Samples : Appear(s) \/ GiveUp(s) \/ Enter(s) \/ Miss(s) \/ Remove(s) \/ Leave(s)
    \/ Restart

Spec == Init /\ [][Next]_<<store, inventory, unseen>>
=============================================================================
