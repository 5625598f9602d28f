SPECIFICATION Spec
CONSTANTS
  CommandLines <- MCCommandLines
  Words <- MCWords
  PackageName <- MCPackageName
  None = None
INVARIANTS
  TypeOK
  DoesWhatWasAsked
  HelpChangesNothing
  StatusTellsEffect
