CONSTANTS
  NPROC = 3
  Cpus = {c1}
  NoCpu = NoCpu
  Chans = {10}
  KillPids = {2}
  InitCalls = {"fork", "wait", "kill"}
  MaxPid = 3
SPECIFICATION FairSpecInit
PROPERTIES
  NoStarvation
  KilledExits
  OrphansReaped
