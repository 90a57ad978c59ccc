SPECIFICATION Spec
CONSTANTS
  HeadWindow = 1
  MaxWindow = 2
  Main = main
  Ticker = ticker
  Web = {w}
  Nobody = nobody
  PageLimit = 2
  NumSources = 1
  Ids = {"a", "b"}
  ViewsOf <- Media
  InitialLibs <- Short
  Servers <- NoServers
  PlexSections <- Sections
  JellyfinFolders <- Folders
  NoItem = NoItem
  MaxChanges = 1
  MaxFaults = 0
INVARIANTS
  MountShowsStore
