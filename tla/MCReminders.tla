----------------------------- MODULE MCReminders -----------------------------
(* Two reminders over three days of two moments each, one message a day, a save *)
(* that fails and a process that stops once.                                    *)
EXTENDS Reminders
=============================================================================
