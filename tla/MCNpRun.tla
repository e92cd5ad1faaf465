------------------------------ MODULE MCNpRun -------------------------------
(* Model-checking instances of NpRun.                                      *)
EXTENDS NpRun
=============================================================================
