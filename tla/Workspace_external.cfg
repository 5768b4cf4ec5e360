\* Two files given to kebab ingest-file one after the other.
SPECIFICATION WsSpec
CONSTANTS
  Roots = {"first"}
  Arrangements <- MCArrangements
  SourceChoices <- MCOneSource
  ExcludeSets <- MCNoExcludes
  Arguments <- MCArguments
  StdinBodies <- MCStdinBodies
  Half <- MCHalf
  MaxCommands = 2
  MaxEdits = 0
  MaxSetbacks = 0
INVARIANT FilesOnDiskStay
CHECK_DEADLOCK FALSE
