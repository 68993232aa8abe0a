----------------------------- MODULE MCDesktop -----------------------------
(***************************************************************************)
(* Two pieces, the second of which may be missing (like NOTICE), and two   *)
(* PIDs: an instance and its successor, and then a start or a --quit with  *)
(* the PID of the old instance that comes before the successor.            *)
(***************************************************************************)
EXTENDS Desktop

CONSTANTS p1, p2
=============================================================================
