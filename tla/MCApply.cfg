SPECIFICATION FairSpec
CONSTANTS
  p1 = p1
  Procs = {p1, p2}
  NoProc = NoProc
  x = x
  Keys = {x}
  Vals = {v, x}
  Undefined = Undefined
  Text = Text
  Template <- MCTemplate
  old = old
  new = new
  Versions = {old, new}
  Package <- MCPackage
  SetId = {new}
  Faults = {}
INVARIANTS
  TypeOK
  TemporariesRemoved
  PermissionsRestored
  SuccessIsApplied
PROPERTIES
  ConfigFileSpec
  EveryApplyEnds
