SPECIFICATION FairSpec
CONSTANTS
  Device = {1, 2}
  Link <- TwoDevices
  Edit = {x}
  FileSystem = TRUE
INVARIANTS
  NothingTaken
  NothingGiven
PROPERTIES
  SelectedConverges
  DeselectedCopyRemoved
CHECK_DEADLOCK FALSE
