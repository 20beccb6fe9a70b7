\* A parent that ends before its child is announced.
SPECIFICATION Spec
CONSTANTS
  p1 = p1 p2 = p2 p3 = p3 t1 = t1 t2 = t2 t3 = t3 h1 = h1 h2 = h2 h3 = h3
  Pid = {p1, p2}
  Tid = {t1, t2}
  Owner <- OwnerTwo
  Root = p1
  Handle = {h1, h2}
  Dll = {}
  Raises = {"OTHER"}
  ExitCode = {0, 3}
  NoThread = NoThread
  NoHandle = NoHandle
  None = None
  Options <- CatchSegvOptions
  Scenes = {"launch"}
  FreedReads = {"intact", "clobbered"}
  EnvFaults = FALSE
INVARIANT FollowsAllChildren
