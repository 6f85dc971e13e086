CONSTANTS
  core = core
  opt = opt
  mc = mc
  Plugin = {core, opt}
  Required = {core}
  Official = {mc}
  Url = {u}
  Provides <- MCProvides
  Launch = {l1}
  SourceTask = {s1, s2}
  MainThread = main
SPECIFICATION MCSpec
INVARIANTS ChoicesKept CatalogOfItsSources TornIsKept
CHECK_DEADLOCK FALSE
SYMMETRY Symmetry
