SPECIFICATION MCSpec
CONSTANTS
  p1 = p1
  p2 = p2
  lib = lib
  t1 = t1
  t2 = t2
  t3 = t3
  v = v
  s = s
  x = x
  validatorPath = validatorPath
  sentryPath = sentryPath
  Package = {p1, p2, lib}
  Project = {p1, p2}
  CargoLock = CargoLock
  data = data
  Asset = {data}
  CrateOf <- CratesOf
  Feature = {"default", "std", "runtime-wasm", "extra"}
  Declares <- Declared
  MainType = "debug"
  CargoTargetDir = dir
  DependsOn <- Deps
  Env <- Envs
  Toolchain = {t1, t2, t3}
  Nightly = {t1, t2, t3}
  HasWasm = {t1, t2}
  Unset = Unset
  None = None
  MaxEdits = 1
  MaxBuilds = 2
  Process = {v, s, x}
  BasePath <- Paths
  Configs <- StartedWith
  Nil = Nil
  Branch = {b1, b2, b3}
  Rest = {r1, r2}
  Datum = {d1}
  Warm = b1
  Null = Null
  MaxRuns = 2
INVARIANT DefaultTypeIsMainType
