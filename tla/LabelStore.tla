---------------------------- MODULE LabelStore ----------------------------
(***************************************************************************)
(* What a Storage promises to the commands: a map from labels to serials   *)
(* that every operation changes in one step.  A JSON object is stored as a *)
(* whole ("Either all items are stored or none are", README.md:120), every *)
(* stored item has a serial no item had before, and a reader sees the map  *)
(* between two operations, never inside one.                               *)
(***************************************************************************)
EXTENDS Integers, FiniteSets

CONSTANT Labels    \* labels of data, numbers so that they are ordered

VARIABLES
    store,   \* serial of each label's data, 0 when the label has no data
    next,    \* the next serial
    view     \* what the latest reader of the whole map saw

vars == <<store, next, view>>

Init == /\ store = [l \in Labels |-> 0]
        /\ next = 1
        /\ view = store

(* All of the group appears at once, serials rising in label order.        *)
AddGroup(G) ==
    /\ store' = [l \in Labels |->
                    IF l \in G THEN next + Cardinality({k \in G : k < l})
                               ELSE store[l]]
    /\ next' = next + Cardinality(G)
    /\ UNCHANGED view

Delete(l) ==
    /\ store[l] # 0
    /\ store' = [store EXCEPT ![l] = 0]
    /\ UNCHANGED <<next, view>>

Rename(old, new) ==
    /\ store[old] # 0
    /\ store' = [store EXCEPT ![old] = 0, ![new] = next]
    /\ next' = next + 1
    /\ UNCHANGED view

Look == view' = store /\ UNCHANGED <<store, next>>

Next == \/ \E G \in (SUBSET Labels) \ {{}} : AddGroup(G)
        \/ \E l \in Labels : Delete(l)
        \/ \E old, new \in Labels : Rename(old, new)
        \/ Look

Spec == Init /\ [][Next]_vars
============================================================================
