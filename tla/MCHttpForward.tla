--------------------------- MODULE MCHttpForward ----------------------------
(* Model-checking instances of HttpForward: requests are model values.     *)
EXTENDS HttpForward
=============================================================================
