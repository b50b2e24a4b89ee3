\* No, one or two I/O threads; three clients for two descriptors, so that the last one
\* has to wait for a connection to be torn down.
CONSTANTS
    MaxThreads = 2
    MaxConns = 3
    FdLimit = 2
SPECIFICATION FairSpec
INVARIANTS TypeOK OneTeardown
PROPERTIES ClientsAccepted
CHECK_DEADLOCK FALSE
