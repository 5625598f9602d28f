SPECIFICATION Spec
CONSTANTS
  old = old
  new = new
  f = f
  g = g
  a = a
  b = b
  root = root
  daemon = daemon
  Packages = {old, new}
  Files = {f, g}
  Blocks = {a, b}
  Payload <- MCPayload
  Declared <- MCDeclared
  Owner <- MCOwner
  Special <- MCSpecial
  Owners = {root, daemon}
  Caller = root
  Descriptors = {3, 4}
  NULL = NULL
INVARIANTS
  TypeOK
  DescriptorsHeld
  WholeFile
  
PROPERTY CallsEnd
