SPECIFICATION Spec
CONSTANTS
  Objects = {o1, o2, o3}
  Streams = {s1, s2, s3, s4}
  Paths = {p1, p2, p3}
  NULL = NULL
SYMMETRY Symmetry
INVARIANTS
  TypeOK
  StreamsHeld
  NamesOwned
