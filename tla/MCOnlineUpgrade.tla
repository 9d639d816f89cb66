--------------------------- MODULE MCOnlineUpgrade ---------------------------
(***************************************************************************)
(* The model has no parameter: the run covers it completely.               *)
(***************************************************************************)
EXTENDS OnlineUpgrade
==============================================================================
