CONSTANTS
  Units = {u1}
  Late = late
  Turns = {t1, t2}
  None = none

SPECIFICATION Spec
INVARIANT RepliesSurviveASignal
\* the process ends
CHECK_DEADLOCK FALSE
