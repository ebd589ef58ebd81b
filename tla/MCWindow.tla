------------------------------ MODULE MCWindow ------------------------------
(* Two proposals of one title in a group chat, and a question that is answered *)
(* in a later turn than the one it was put in.                                *)
EXTENDS CaptureWindow
=============================================================================
