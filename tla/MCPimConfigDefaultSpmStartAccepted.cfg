CONSTANTS
  ISAs = {"arm", "x86", "riscv"}
  HostMem <- MCHostMem
  VExpressMemStart = 2
  Addrs = {0, 1, 4}
  Sizes = {1, 2}
  Regs = {5}
  Files = {"f"}
  None = None
SPECIFICATION Spec
INVARIANT DefaultSpmStartAccepted
\* The script ends after connect_to_host_system, or at a fatal.
CHECK_DEADLOCK FALSE
