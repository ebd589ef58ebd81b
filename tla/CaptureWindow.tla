--------------------------- MODULE CaptureWindow ---------------------------
(***************************************************************************)
(* The capture engine with the turn each refusal happened in, which the     *)
(* engine does not keep: recordDecline is handed the turn the proposal was  *)
(* charged to, and a question may be answered turns later.                  *)
(***************************************************************************)
EXTENDS Capture

VARIABLE refusedAt  \* history: the conversation's turn when the refusal was recorded

WindowInit == Init /\ refusedAt = [o \in Calls |-> 0]

JustRefused(o) == \E k \in Conversations : o \in declines'[k] \ declines[k]

WindowNext ==
  /\ Next
  /\ refusedAt' = [o \in Calls |-> IF JustRefused(o) THEN turn[job[o].conv]
                                                      ELSE refusedAt[o]]

WindowSpec == WindowInit /\ [][WindowNext]_<<vars, refusedAt>>

\* A refused title is not put to the member again for DeclineWindow turns, counting
\* the turn it was declined in (DefaultDeclineWindow in capture.go).
SuppressedForAWindow ==
  [][\A d, o \in Calls :
       /\ verdict[d] \in {"declined", "timedOut"} /\ refusedAt[d] > 0
       /\ pc[o] = "idle" /\ pc'[o] = "offering"
       /\ job'[o].conv = job[d].conv /\ job'[o].speaker = job[d].speaker
       /\ job'[o].title = job[d].title
       => job'[o].turn - refusedAt[d] >= DeclineWindow]_<<vars, refusedAt>>
=============================================================================
