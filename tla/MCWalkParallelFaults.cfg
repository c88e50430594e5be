CONSTANTS
  Inodes <- MCInodes
  Dirents <- MCDirents
  Names <- MCNames
  Devices = {1, 2}
  HolderOf <- MCHolderOf
  NameOf <- MCNameOf
  LinkOf <- MCLinkOf
  TargetOf <- MCLinkOf
  Meta <- MCMeta
  UnknownDType = {}
  Cwd = "cwd"
  NoInode = NoInode
  NoMeta = NoMeta
  None = None
  FnMatch <- MCFnMatch
  HiddenNames = {".h"}
  IgnoredNames = {"i"}
  Configs <- AllConfigs
  DefaultRoot = "r"
  Now = 9
  ArgNames <- MCArgNames
  PathCapacity = 5
  WorkerCount = 2
  MaxIovec = 3
  IovMax = 2
  Separator = Separator
  Faults = {"setup", "open", "reserve", "bulk", "flush", "writev"}
SPECIFICATION Spec
INVARIANTS TypeOK WholeLines OutputIsWanted WriteLosesNothing CountsMatch
