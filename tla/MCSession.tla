----------------------------- MODULE MCSession ------------------------------
(* Session for TLC: up to three stops of the debuggee.                     *)
EXTENDS Session

MCMaxStops == 3

=============================================================================
