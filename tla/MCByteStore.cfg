SPECIFICATION Spec
CONSTANTS
  ByteBase = 4
  Strings <- MCStrings
  Utf8 <- MCUtf8
  Garbage <- replacement
  Spaces <- MCSpaces
  Names <- MCNames
  Values <- MCValues
  Default = Default
INVARIANTS
  TypeOK
  BuffersFit
  GetAnswersLastPut
  ListingsAgree
