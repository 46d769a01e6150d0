SPECIFICATION Spec
CONSTANTS
  Senders = {s1}
  Readers = {r1, r2}
  MaxNotes = 2
  MaxReads = 2
PROPERTIES
  EndsItsText
CHECK_DEADLOCK FALSE
