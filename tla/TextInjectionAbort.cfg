CONSTANTS
    MaxSessions = 1
    MaxJobs = 2
    MaxCopies = 0
    MaxFaults = 0
SPECIFICATION Spec
PROPERTIES
    ErrorKeepsTheText
CHECK_DEADLOCK FALSE
