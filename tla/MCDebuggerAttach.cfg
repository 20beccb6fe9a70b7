\* drmingw attached to one process; every kind of event.
SPECIFICATION Spec
CONSTANTS
  p1 = p1 p2 = p2 p3 = p3 t1 = t1 t2 = t2 t3 = t3 h1 = h1 h2 = h2 h3 = h3
  Pid = {p1}
  Tid = {t1, t2}
  Owner <- OwnerOne
  Root = p1
  Handle = {h1}
  Dll = {d1}
  Raises = {"BREAKPOINT", "WX86_BREAKPOINT", "THREAD_NAME", "CONTROL_C", "STACK_OVERFLOW", "OTHER"}
  ExitCode = {0, 3}
  NoThread = NoThread
  NoHandle = NoHandle
  None = None
  Options <- AttachOptions
  Scenes = {"attach", "jit"}
  FreedReads = {"intact", "clobbered"}
  EnvFaults = TRUE
INVARIANTS CrashReported SignalledOnce
PROPERTIES TerminatesOnlyCrashed AbortReported ReportsContinued FaultDumped ThreadResumed
