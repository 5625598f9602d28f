SPECIFICATION Spec
CONSTANTS
  CommandLines <- MCCommandLines
  Words <- MCWords
  PackageName <- MCPackageName
  None = None
INVARIANT WritesTheValueTyped
