SPECIFICATION StoreSpec
CONSTANT MaxRows = 2
INVARIANT RefusedTextIsRedacted
CHECK_DEADLOCK FALSE
