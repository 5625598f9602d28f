SPECIFICATION Spec
CONSTANTS
  Chars = {"$", "(", ")", ":"}
  DefaultNs = pkg
  MaxLen = 2
  Templates <- MCTemplates
  BufSz = 2
PROPERTY EofOrError
