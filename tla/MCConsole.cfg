\* Two threads that print, besides the idle thread; four cells and four more
\* beyond the screen, numbers of three digits, a leading zero among them.  Memories of five bytes, and ints of 8 bits.
CONSTANTS
    Thread = {idle, main, t1}
    Idle = idle
    Main = main
    NULL = null
    Abandoned = abandoned
    Columns = 2
    Rows = 2
    Byte = 4
    Messages <- MCMessages
    Report <- MCReport
    Base = 4
    Digits = 3
    Numbers = {6}
    Places = {3}
    MaxMessages = 2
    ByteValues = 4
    MemSize = 5
    Word = 256
    Formats <- MCFormats
SPECIFICATION Spec
INVARIANTS ScreenShowsText LockedApart ReportUninterrupted NumbersWhole LibraryRight
CHECK_DEADLOCK FALSE
