SPECIFICATION Spec
CONSTANT MaxCriteria = 30
CHECK_DEADLOCK FALSE
INVARIANT FullMarksAccepted
