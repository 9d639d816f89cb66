-------------------------- MODULE MCRuntimeControl --------------------------
(* Readiness evaluations and commands around one HTTP request.               *)
EXTENDS RuntimeControl

CONSTANTS r1, e1
=============================================================================
