SPECIFICATION Spec
CONSTANT Workers = 2
INVARIANT LastReportReadsTimer
CHECK_DEADLOCK FALSE
