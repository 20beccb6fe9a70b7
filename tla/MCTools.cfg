CONSTANTS
  NULL = NULL
  Commands <- MCCommands
  Again <- MCAgain
  Views <- MCViews
  Self <- MCSelf
  ProcessId <- MCProcessId
  EventHandle <- MCEventHandle
  Processes <- MCProcesses
  Base = 96
  Word = 128
  ULONG = 32
  ULONGLONG = 256
SPECIFICATION Spec
INVARIANTS
  ToolsTypeOK
  ArgumentsMeant
  ProgramGetsItsArguments
  OneAnswerPerAddress
  MessageTrue
  StartedAsInstalled
