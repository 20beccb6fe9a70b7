\* catchsegv following a program and the processes it starts, which load and
\* unload a library; every end looks the thread up as for abort().
SPECIFICATION Spec
CONSTANTS
  p1 = p1 p2 = p2 p3 = p3 t1 = t1 t2 = t2 t3 = t3 h1 = h1 h2 = h2 h3 = h3
  Pid = {p1, p2, p3}
  Tid = {t1, t2, t3}
  Owner <- OwnerEach
  Root = p1
  Handle = {h1, h2, h3}
  Dll = {d1}
  Raises = {"OTHER"}
  ExitCode = {3}
  NoThread = NoThread
  NoHandle = NoHandle
  None = None
  Options <- CatchSegvOptions
  Scenes = {"launch"}
  FreedReads = {"intact", "clobbered"}
  EnvFaults = FALSE
INVARIANTS TableMatchesSystem FinishesLast SessionsMatch
SYMMETRY FollowSymmetry
