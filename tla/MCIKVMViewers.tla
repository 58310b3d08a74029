--------------------------- MODULE MCIKVMViewers ---------------------------
(***************************************************************************)
(* One viewer's picture; two users who type on two Shift keys and one      *)
(* Control key.                                                            *)
(***************************************************************************)
EXTENDS IKVMViewers, TLC

CONSTANTS leftShift, rightShift, leftControl, shift, control

MCModifierOf == leftShift :> shift @@ rightShift :> shift @@ leftControl :> control
=============================================================================
