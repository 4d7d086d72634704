CONSTANTS
  NPROC = 3
  Cpus = {c1, c2}
  NoCpu = NoCpu
  Chans = {10}
  KillPids = {2, 3}
  InitCalls = {"fork", "wait", "kill", "exit"}
  MaxPid = 4
SPECIFICATION Spec
SYMMETRY CpuSymmetry
INVARIANTS RunsOnce StackLive NoMissedEvent
