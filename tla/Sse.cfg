\* Every field, valid or not, comments and empty lines with every line ending, up to three lines in an event.
SPECIFICATION Spec
CONSTANTS
  Lines <- SomeLines
  MaxLines = 3
INVARIANTS
  TypeOK
PROPERTIES
  ImplementsEventStream
CHECK_DEADLOCK FALSE
