CONSTANTS
    MaxSessions = 2
    MaxJobs = 2
    MaxCopies = 1
    MaxFaults = 1
SPECIFICATION Spec
INVARIANTS
    ClipboardComesBack
PROPERTIES
    RestoreSparesPromises
    AbortedTextSurvives
    ChordPastesThePhrase
CHECK_DEADLOCK FALSE
