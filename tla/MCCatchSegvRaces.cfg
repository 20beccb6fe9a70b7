\* Two callbacks of the timer at once, against the main thread and the console.
SPECIFICATION CatchSegvSpec
CONSTANTS
  p1 = p1 p2 = p2 t1 = t1 t2 = t2 h1 = h1 h2 = h2 w1 = w1 w2 = w2
  Pid = {p1, p2}
  Tid = {t1, t2}
  Owner <- OwnerTwo
  Root = p1
  Handle = {h1, h2}
  Dll = {}
  Raises = {}
  ExitCode = {0}
  NoThread = NoThread
  NoHandle = NoHandle
  None = None
  Options <- CatchSegvOptions
  Scenes = {"launch"}
  FreedReads = {"intact", "clobbered"}
  EnvFaults = TRUE
  Worker = {w1, w2}
  TimeOuts = {0, 1, 2}
  Second = 2
  Word = 3
  NDEBUG = FALSE
  CtrlType = {"CTRL_C"}
INVARIANTS CatchSegvTypeOK NoEarlyTimeOut KilledNotSuccess
SYMMETRY RacesSymmetry
