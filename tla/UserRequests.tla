---------------------------- MODULE UserRequests ----------------------------
(* The requests of one user that are under way, each on a thread of its own. *)
EXTENDS Naturals

CONSTANT Requests
=============================================================================
