SPECIFICATION MountSpec
CONSTANTS
  Workers = {w1, w2, w3}
  Idle = Idle
  NumSources = 2
  SampleMax = 50
  MenuMax = 75
  Catalogs <- Libraries
  Follows <- Changes
  Callers = {c1, c2}
  Watched <- SeenPaths
  Torrents = 1
  Letters <- Alphabet
  Within <- WordParts
INVARIANTS
  SameLibrarySameView
