\* Up to four partitions on two drives, a root directory for three, two restarts.
\* Whoever panics stops.
CONSTANTS
    SectorSize = 2
    SecPerBlock = 4
    InodePerSec = 8
    Word = 4096
    Hds <- MCHds
    Disks <- MCDisks
    ROOT_DIR_MAX = 5
    MaxReboots = 2
SPECIFICATION Spec
INVARIANTS LayoutsSound BitmapTail FormattedUnlessCut DirectoryTracksMounts InodeNumbersDisjoint ScanExact
PROPERTIES FormatsOnlyBlank
CHECK_DEADLOCK FALSE
