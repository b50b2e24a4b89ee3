\* Two messages and one stop() are enough for the back end to leave one behind.
CONSTANTS
    MaxMessages = 2
    Size = 3
    RollSize = 5
    CheckEveryN = 2
SPECIFICATION FairSpec
PROPERTY StopWritesAll
CHECK_DEADLOCK FALSE
