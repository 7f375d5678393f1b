-------------------------- MODULE ManifestRegister --------------------------
(***************************************************************************)
(* What the engine takes the pinned manifest of a channel for: a register. *)
(* An update replaces its value at one instant and returns after that      *)
(* instant; one that fails or is cut short by a restart has either         *)
(* replaced it or not.  Nothing is promised from the moment an update      *)
(* passes over a failed request until the next one begins.                 *)
(***************************************************************************)
EXTENDS Naturals

VARIABLES
    value,      \* what a reader of the channel gets; 0 for no manifest
    pending,    \* what an update in progress writes; 0 when there is none
    acked,      \* what the last update that returned Ok wrote
    missed      \* the last update passed over a failed request

vars == <<value, pending, acked, missed>>

Init == value \in Nat /\ pending = 0 /\ acked = 0 /\ missed = FALSE

Begin ==
    /\ pending = 0 /\ pending' \in Nat \ {0}
    /\ missed' = FALSE
    /\ UNCHANGED <<value, acked>>

Write ==
    /\ pending # 0 /\ value' = pending
    /\ UNCHANGED <<pending, acked, missed>>

Return ==
    /\ pending # 0 /\ value = pending
    /\ acked' = pending /\ pending' = 0
    /\ UNCHANGED <<value, missed>>

Abort ==
    /\ pending # 0 /\ value' \in {value, pending}
    /\ pending' = 0
    /\ UNCHANGED <<acked, missed>>

Missing == missed'

Next == Begin \/ Write \/ Return \/ Abort \/ Missing

Spec == Init /\ [][Next]_vars
=============================================================================
