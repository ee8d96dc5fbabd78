\* Every file and command line of up to two entries.
SPECIFICATION ConfigSpec
CONSTANTS
    Files <- MCFiles
    CmdLines <- MCCmdLines
    Unopenable = {"/nowhere"}
    Unallocatable = {"no memory"}
INVARIANTS LastWordCounts CrashesOnLogFileOnly
CHECK_DEADLOCK FALSE
