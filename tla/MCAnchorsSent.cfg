\* A patch of two rows.
INIT AnchorsInit
NEXT AnchorsNext
CONSTANT MaxRows = 2
INVARIANT SentIsRecognised
CHECK_DEADLOCK FALSE
