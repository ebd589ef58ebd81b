------------------------------ MODULE MCFleet ------------------------------
(* Two pods, the household's and one member's, a configuration that is edited *)
(* once, and a host that is started twice.                                    *)
EXTENDS Fleet
=============================================================================
