SPECIFICATION Spec
CONSTANTS
  p1 = p1
  Procs = {p1}
  NoProc = NoProc
  x = x
  Keys = {x}
  Vals = {v1, v2}
  Undefined = Undefined
  Text = Text
  Template <- MCTemplate
  old = old
  new = new
  Versions = {old, new}
  Package <- MCPackage
  SetId = {new}
  Faults = {"write"}
INVARIANT SuccessIsApplied
