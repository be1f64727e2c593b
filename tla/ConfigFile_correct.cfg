SPECIFICATION Spec
CONSTANTS
    MaxLength = 6
    LineSize = 6
INVARIANTS
    ReadsWhatTheFileSays
PROPERTIES
    LoadReturnsEventually
\* loadConfigFile() is called once.
CHECK_DEADLOCK FALSE
