CONSTANTS
  Units = {u1}
  Late = late
  Turns = {t1}
  None = none

SPECIFICATION Spec
INVARIANTS
  TypeOK
  
PROPERTIES
  
  ProcessEnds
  PanickedUnitServes
\* the process ends
CHECK_DEADLOCK FALSE
