SPECIFICATION Spec
CONSTANTS
  Names <- MCNames
  Comp <- MCComp
  DirArgs <- MCDirArgs
  NameArgs <- MCNameArgs
  Allows <- BothAllows
  Levels = {"DB_TOP", "DB_ALL"}
  MaxWrites = 3
  MaxFaults = 1
  MaxDepth = 2
INVARIANTS FrameLeftOnlyByLength TocListsDirectory CachedGroupIsCurrent ParentsExist
PROPERTY DirectoryKept
CHECK_DEADLOCK FALSE
