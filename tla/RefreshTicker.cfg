SPECIFICATION FairSpec
CONSTANTS
  HeadWindow = 1
  MaxWindow = 2
  Main = main
  Ticker = ticker
  Web = {}
  Nobody = nobody
  PageLimit = 2
  NumSources = 2
  Ids = {"a", "b"}
  ViewsOf <- Media
  InitialLibs <- Waiting
  Servers <- BothServers
  PlexSections <- Sections
  JellyfinFolders <- Folders
  NoItem = NoItem
  MaxChanges = 2
  MaxFaults = 1
PROPERTIES
  ServersConverge
