CONSTANTS
  Inodes <- MCInodes
  Dirents <- MCDirents
  Names <- MCNames
  Devices = {1, 2}
  HolderOf <- MCHolderOf
  NameOf <- MCNameOf
  LinkOf <- MCLinkOf
  TargetOf <- MCTargetOf
  Meta <- MCMeta
  UnknownDType = {"sg", "sd"}
  Cwd = "cwd"
  NoInode = NoInode
  NoMeta = NoMeta
  None = None
  FnMatch <- MCFnMatch
  HiddenNames = {".h"}
  IgnoredNames = {"i"}
  Configs <- MCConfigs
  DefaultRoot = "dot"
  Now = 9
  ArgNames <- MCArgNames
  PathCapacity = 4
  Faults = {"open", "read"}
SPECIFICATION Spec
INVARIANTS TypeOK ErrorsAreNamed EmittedOnce SignalStopsOutput
PROPERTIES RefinesSearch
