----------------------------- MODULE MCTransfers -----------------------------
(***************************************************************************)
(* Transfers with two uploads and a download that compete for the one      *)
(* permit.  The files are in conflict both, one of them longer; or the     *)
(* first is empty, and the second is in conflict and runs beside it once   *)
(* its dialog is answered; or the two are free, and the limit holds the    *)
(* second back, and the first does not find its drive.                     *)
(***************************************************************************)
EXTENDS Transfers, TLC

CONSTANTS u1, u2, d

World(m, n, T, U) == [size |-> (u1 :> m) @@ (u2 :> n), taken |-> T, unlisted |-> U]
ThreeWorlds == {World(2, 1, {u1, u2}, {}), World(0, 1, {u2}, {}), World(1, 1, {}, {u1})}
=============================================================================
