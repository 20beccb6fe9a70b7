\* A dialog whose process ends before TrapThread looks for it.
SPECIFICATION CatchSegvSpec
CONSTANTS
  p1 = p1 p2 = p2 t1 = t1 t2 = t2 h1 = h1 h2 = h2 w1 = w1 w2 = w2
  Pid = {p1, p2}
  Tid = {t1, t2}
  Owner <- OwnerTwo
  Root = p1
  Handle = {h1, h2}
  Dll = {}
  Raises = {}
  ExitCode = {0}
  NoThread = NoThread
  NoHandle = NoHandle
  None = None
  Options <- CatchSegvOptions
  Scenes = {"launch"}
  FreedReads = {"intact", "clobbered"}
  EnvFaults = FALSE
  Worker = {w1}
  TimeOuts = {0, 1}
  Second = 2
  Word = 3
  NDEBUG = TRUE
  CtrlType = {}
INVARIANT TrapFindsProcess
