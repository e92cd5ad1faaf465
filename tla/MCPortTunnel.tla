---------------------------- MODULE MCPortTunnel ----------------------------
(* Model-checking instances of PortTunnel.                                 *)
EXTENDS PortTunnel
=============================================================================
