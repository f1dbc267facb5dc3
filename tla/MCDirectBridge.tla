--------------------------- MODULE MCDirectBridge ---------------------------
(***************************************************************************)
(* A bridge of two turns and one stranger on a store with room for two     *)
(* drafts; bodies that are malformed, that name something new, and that    *)
(* fit; and one edit of the installed code.                                *)
(***************************************************************************)
EXTENDS DirectBridge

CONSTANTS malformed, naming, fitting, other
=============================================================================
