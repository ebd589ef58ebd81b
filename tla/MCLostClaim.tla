----------------------------- MODULE MCLostClaim -----------------------------
(* One one-off reminder, and one save that fails. *)
EXTENDS Reminders
=============================================================================
