--------------------------- MODULE MCStatusPoller ---------------------------
(***************************************************************************)
(* Two servers, one of them a NanoKVM, which is polled less often than the *)
(* other; a unit of time is half a tick.                                   *)
(***************************************************************************)
EXTENDS StatusPoller

MCInterval == [s \in Servers |-> IF s \in Blind THEN 3 ELSE 1]
=============================================================================
