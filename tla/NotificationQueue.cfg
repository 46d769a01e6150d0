SPECIFICATION Spec
CONSTANTS
  Senders = {s1, s2}
  Readers = {r1, r2}
  MaxNotes = 3
  MaxReads = 2
INVARIANTS
  TypeOK
  EveryTextIsEnded
  OnceEach
  WholeWhenUndisturbed
PROPERTIES
  ReadEnds
\* The bounds on notifications and page loads stop the system.
CHECK_DEADLOCK FALSE
