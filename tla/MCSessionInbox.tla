--------------------------- MODULE MCSessionInbox ---------------------------
(***************************************************************************)
(* Model values for the request ids of SessionInbox: two client messages   *)
(* and a host input.                                                       *)
(***************************************************************************)
EXTENDS SessionInbox

CONSTANTS a, b, h
=============================================================================
