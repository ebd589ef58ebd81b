----------------------------- MODULE MCCapture -----------------------------
(* One member's direct chat, two calls over two turns, and a store that may   *)
(* file an entry in the wrong space.                                          *)
EXTENDS Capture
=============================================================================
