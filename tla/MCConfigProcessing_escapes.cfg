SPECIFICATION ConfigSpec
CONSTANTS
  build = build
  lint = lint
  test = test
  deploy = deploy
  cloneAll = cloneAll
  Job = {build, lint, test, deploy, cloneAll}
  CloneNames = {cloneAll}
  MaxJobs = 4
  Name = {"TOKEN", "KEY", "SYSTEM"}
  SystemName = {"SYSTEM"}
  Branch = {"main", "dev"}
  NewSecret <- NewSecrets
  Inputs <- Escapes
  TextLength = 4
INVARIANTS
  EscapedAsCommented
CHECK_DEADLOCK FALSE
