\* Two messages fill a buffer of three cells (append keeps one free); six messages
\* fill the current, the spare and a freshly allocated buffer.  A file takes five
\* cells before it is rolled, the clock is looked at every second time.
CONSTANTS
    MaxMessages = 6
    Size = 3
    RollSize = 5
    CheckEveryN = 2
SPECIFICATION FairSpec
INVARIANTS TypeOK NothingDropped OrderKept BackNeverEmpty
PROPERTIES MessagesReachDisk StopReturns
CHECK_DEADLOCK FALSE
