\* main exits while another thread exists.
CONSTANTS
    Elem = {idle, main, t1}
    Idle = idle
    Main = main
    HEAD = head
    TAIL = tail
    NULL = null
    Slice = 1
    BlockWith = {"BLOCKED", "WAITING"}
SPECIFICATION ExitSpec
PROPERTY ExitUnlinksCallerOnly
