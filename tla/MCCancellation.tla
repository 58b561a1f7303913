---------------------------- MODULE MCCancellation ----------------------------
(* A chain of two actions whose effects can be undone. *)
EXTENDS CancellationProperties, TLC

CONSTANTS build, fill
Two == build :> {} @@ fill :> {build}
Tries == build :> 2 @@ fill :> 1
Lapses == build :> 1 @@ fill :> 0
=============================================================================
