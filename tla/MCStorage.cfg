SPECIFICATION PhasedSpec
CONSTANTS
  Threads <- MCThreads
  t1 = t1
  Redirects <- MCRedirects
  Providers <- MCProviders
  Transforms <- MCTransforms
  Filters <- MCFilters
  Names <- MCNames
  Skipped <- MCSkipped
  SuffixOf <- MCSuffixOf
  ClaimsOf <- MCClaimsOf
  TargetOf <- MCTargetOf
  SizeOf <- MCSizeOf
  FilterSize <- MCFilterSize
  Longest = 2
  None = None
  r1 = r1
  p1 = p1
  p2 = p2
  x1 = x1
  x2 = x2
  f1 = f1
  blp = blp
  wdt = wdt
  native = native
  wav = wav
  gilneas = gilneas
  kezan = kezan
  azeroth = azeroth
  outland = outland
  Main = t1
  Phases = {gilneas, kezan}
  Maps = {azeroth, outland}
  Tiles = {1, 2}
  WdtOf <- MCWdtOf
  TilesOf <- MCTilesOf
INVARIANT OpensServed
INVARIANT PhaseShown
SYMMETRY MapSymmetry
