CONSTANTS
  Inodes <- MCInodes
  Dirents <- MCDirents
  Names <- MCNames
  Devices = {1}
  HolderOf <- MCHolderOf
  NameOf <- MCNameOf
  LinkOf <- MCLinkOf
  TargetOf <- MCTargetOf
  Meta <- MCMeta
  UnknownDType = {"rs", "sg"}
  Cwd = "cwd"
  NoInode = NoInode
  NoMeta = NoMeta
  None = None
  FnMatch <- MCFnMatch
  HiddenNames = {".h"}
  IgnoredNames = {}
  Configs <- MCConfigs
  DefaultRoot = "r"
  Now = 9
  ArgNames <- MCArgNames
  PathCapacity = 6
  Faults = {"stat", "open", "read", "write"}
SPECIFICATION FairSpec
INVARIANTS OutputIsWanted OpenDirectoriesBounded BufferFollowsStack
PROPERTIES Terminates
