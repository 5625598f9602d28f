SPECIFICATION Spec
CONSTANTS
  Chars = {"$", "(", ")", ":"}
  DefaultNs = pkg
  MaxLen = 6
  Templates <- MCTemplates
  BufSz = 2
INVARIANTS
  TypeOK
  Lossless
  NoPlaceholderLeaks
  HandlerReleased
PROPERTIES
  StreamSpec
  EndsOnceReadable
