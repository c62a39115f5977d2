SPECIFICATION RootfsSpec
CONSTANTS
  Builds = {w1, w2}
  crun = crun
  rsync = rsync
  apid = apid
  Artifacts = {crun, rsync, apid}
  Contract <- MCContract
  Limited = {crun}
  Selections <- MCSelections
  Drivers = {"docker"}
  env = env
  python = python
  tool = tool
  sh = sh
  bash = bash
  ld = ld
  gone = gone
  privA = privA
  privB = privB
  libA = libA
  libB = libB
  service = service
  timer = timer
  wants = wants
  alias = alias
  resolv = resolv
  docOwn = docOwn
  docBase = docBase
  a = a
  b = b
  own = own
  base = base
  nil = nil
  Nil = nil
  Paths <- MCPaths
  Names = {a, b}
  Packages = {own, base}
  Own = {own}
  Rules <- MCRules
  Env = env
  Generated = {}
  Contracts <- MCContracts
  Excluded = {}
  Pruned = {privA}
  Copyright <- MCCopyright
  LibPath <- MCLibPath
  PrivatePath <- MCPrivatePath
  UnitOf <- MCUnitOf
  Follows <- MCFollows
  Trees <- MCTrees
CHECK_DEADLOCK FALSE
INVARIANT SecondExportIsReplay
