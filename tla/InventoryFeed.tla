--------------------------- MODULE InventoryFeed ---------------------------
(***************************************************************************)
(* What the mod list promises to whoever looks at it, without threads,     *)
(* queues or stop tokens: loads are issued one after the other, the list   *)
(* shows the packages of one of them, it only ever moves on to a newer     *)
(* load, and nothing changes once the model is gone.                       *)
(***************************************************************************)
EXTENDS Naturals

CONSTANT MaxReloads      \* bound on InventoryModel::reload() calls

VARIABLES
    shown,               \* the load whose packages are listed, 0 before any
    issued,              \* loads issued so far
    open                 \* FALSE once the model is destroyed

vars == <<shown, issued, open>>

Init == shown = 0 /\ issued = 0 /\ open = TRUE

Issue ==
    /\ open
    /\ issued < MaxReloads
    /\ issued' = issued + 1
    /\ UNCHANGED <<shown, open>>

Show(k) ==
    /\ open
    /\ shown < k /\ k <= issued
    /\ shown' = k
    /\ UNCHANGED <<issued, open>>

Close ==
    /\ open
    /\ open' = FALSE
    /\ UNCHANGED <<shown, issued>>

Next == Issue \/ Close \/ \E k \in 1..MaxReloads : Show(k)

Spec == Init /\ [][Next]_vars
=============================================================================
