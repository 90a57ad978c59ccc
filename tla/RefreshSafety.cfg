SPECIFICATION FairSpec
CONSTANTS
  HeadWindow = 1
  MaxWindow = 2
  Main = main
  Ticker = ticker
  Web = {w}
  Nobody = nobody
  PageLimit = 2
  NumSources = 1
  Ids = {"a", "b", "c"}
  ViewsOf <- Media
  InitialLibs <- Waiting
  Servers <- NoServers
  PlexSections <- Sections
  JellyfinFolders <- Folders
  NoItem = NoItem
  MaxChanges = 2
  MaxFaults = 1
INVARIANTS
  TypeOK
  Serialized
  BaselineMatchesStore
  QuietProbeIsSound
  LastStoredIsMounted
PROPERTIES
  MountConverges
