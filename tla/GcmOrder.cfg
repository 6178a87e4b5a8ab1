SPECIFICATION Spec
CONSTANT
  MaxBlocks = 1
PROPERTY
  RecordCompletes
CHECK_DEADLOCK FALSE
