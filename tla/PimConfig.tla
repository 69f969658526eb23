------------------------------ MODULE PimConfig ------------------------------
(***************************************************************************)
(* configs/pim/PIM.py: the three calls a gem5 configuration script makes  *)
(* to add a PIM system beside the host system: build_pim_mem_subsystem   *)
(* (the host's memory subsystem and its bridge from membus),              *)
(* build_pim_system (option checks, then a baremetal or an SE PIM system  *)
(* with its scratchpad memory) and connect_to_host_system (the two        *)
(* PIMBridges between the host's memory subsystem crossbar and pimbus).   *)
(* The script itself is not in the repository: build_pim_mem_subsystem   *)
(* and build_pim_system may come in either order, connect_to_host_system  *)
(* needs the PIM system and so comes after build_pim_system.              *)
(*                                                                         *)
(* Addresses are counted in units of the smallest size used (one AddrRange *)
(* unit); an AddrRange(start, size) is the set of addresses it covers.    *)
(* fatal() ends the script; a TypeError of a gem5 parameter conversion    *)
(* ends it with an exception.                                              *)
(***************************************************************************)
EXTENDS Naturals, FiniteSets

CONSTANTS ISAs,            \* buildEnv['TARGET_ISA'] values
          HostMem,         \* ISA -> the host's sys.mem_ranges
          VExpressMemStart,\* realview._mem_regions[0].start (ARM VExpress_GEM5_V1)
          Addrs,           \* values of the address options
          Sizes,           \* values of the size options (toMemorySize)
          Regs,            \* values of the flush register options
          Files,           \* kernel and stdin/stdout/stderr paths
          None

VARIABLES isa,      \* the build's TARGET_ISA
          opts,     \* the parsed command-line options
          host,     \* the host system as the three calls see and change it
          pim,      \* the PIM system build_pim_system returned, or None
          calls,    \* the calls made so far
          outcome   \* "running", "fatal", "exception" or "done"
vars == <<isa, opts, host, pim, calls, outcome>>

AddrRange(s, n) == s .. (s + n - 1)

(***************************************************************************)
(* define_options: the PIM options and their defaults.  The SPM and SE    *)
(* memory addresses and sizes, the flush registers and the kernel default *)
(* to None; the stdin/stdout/stderr redirections default to               *)
(* params.SE_INPUT/SE_OUTPUT/SE_ERROUT, all None.                          *)
(***************************************************************************)
OptionSpace ==
  [pim_baremetal : BOOLEAN, pim_se : BOOLEAN,
   pim_spm_start : Addrs \cup {None}, pim_spm_size : Sizes \cup {None},
   pim_spm_reg_flush_addr : Regs \cup {None}, pim_spm_reg_flush_size : Regs \cup {None},
   pim_se_mem_start : Addrs \cup {None}, pim_se_mem_size : Sizes \cup {None},
   pim_kernel : Files \cup {None},
   pim_se_input : Files \cup {None}, pim_se_output : Files \cup {None},
   pim_se_errout : Files \cup {None}]

(***************************************************************************)
(* The host as it enters: it has a membus or not, its mem_ranges, and no  *)
(* memsubsystem yet.  memsubsystem, once built, is the ranges of its      *)
(* bridge from membus and the range its topimbridge forwards to pimbus.   *)
(***************************************************************************)
HostSpace(i) == [membus : BOOLEAN, mem_ranges : {HostMem[i]}, memsubsystem : {None}]

\* An SPM: its range, whether it is in the PIM's address map, its flush registers.
SPM(r, inMap, o) ==
  [range |-> r, in_addr_map |-> inMap, support_flush |-> TRUE,
   reg_flush_addr |-> o.pim_spm_reg_flush_addr,
   reg_flush_size |-> o.pim_spm_reg_flush_size]

Init ==
  /\ isa \in ISAs
  /\ opts \in OptionSpace
  /\ host \in HostSpace(isa)
  /\ pim = None
  /\ calls = {}
  /\ outcome = "running"

Fatal ==
  /\ outcome' = "fatal"
  /\ UNCHANGED <<isa, opts, host, pim>>

(***************************************************************************)
(* build_pim_mem_subsystem: the bridge from membus forwards the host's    *)
(* mem_ranges and AddrRange(options.pim_spm_start, size =                  *)
(* options.pim_spm_size), taken from the options as they are: an option   *)
(* left None is not an Addr, and the conversion raises a TypeError.       *)
(***************************************************************************)
BuildPimMemSubsystem ==
  /\ outcome = "running" /\ "mem" \notin calls
  /\ calls' = calls \cup {"mem"}
  /\ \/ ~host.membus /\ Fatal
     \/ /\ host.membus
        /\ \/ /\ None \in {opts.pim_spm_start, opts.pim_spm_size}
              /\ outcome' = "exception"
              /\ UNCHANGED <<isa, opts, host, pim>>
           \/ /\ None \notin {opts.pim_spm_start, opts.pim_spm_size}
              /\ host' = [host EXCEPT !.memsubsystem =
                   [bridge |-> host.mem_ranges \cup
                               {AddrRange(opts.pim_spm_start, opts.pim_spm_size)},
                    topimbridge |-> None]]
              /\ UNCHANGED <<isa, opts, pim, outcome>>

(***************************************************************************)
(* build_pim_system's checks, in the order it makes them; TRUE when all   *)
(* pass.                                                                   *)
(***************************************************************************)
\* Mutant: the flush addr register check is missing.
OptionsCheckedNoFlushAddr(o) ==
  /\ o.pim_baremetal \/ o.pim_se
  /\ ~(o.pim_baremetal /\ o.pim_se)
  /\ ~(o.pim_baremetal /\ isa # "arm")
  /\ o.pim_spm_size # None
  /\ o.pim_spm_reg_flush_size # None
  /\ ~(o.pim_se /\ o.pim_se_mem_size = None)
  /\ o.pim_kernel # None

OptionsChecked(o) ==
  /\ o.pim_baremetal \/ o.pim_se
  /\ ~(o.pim_baremetal /\ o.pim_se)
  /\ ~(o.pim_baremetal /\ isa # "arm")
  /\ o.pim_spm_size # None
  /\ o.pim_spm_reg_flush_addr # None
  /\ o.pim_spm_reg_flush_size # None
  /\ ~(o.pim_se /\ o.pim_se_mem_size = None)
  /\ o.pim_kernel # None

\* build_baremetal_pim_system: the SPM is the system's only memory.
BaremetalSpmStart(o) ==
  IF o.pim_spm_start = None THEN VExpressMemStart ELSE o.pim_spm_start
BaremetalSystem(o) ==
  [mode |-> "baremetal",
   mem_ranges |-> {AddrRange(BaremetalSpmStart(o), o.pim_spm_size)},
   spm |-> SPM(AddrRange(BaremetalSpmStart(o), o.pim_spm_size), TRUE, o),
   se_mem_ctrl |-> None, kernel |-> o.pim_kernel, workload |-> None,
   tohostbridge |-> None]

\* build_se_pim_system: SE memory at pim_se_mem_start (0), the SPM after it.
SeMemStart(o) == IF o.pim_se_mem_start = None THEN 0 ELSE o.pim_se_mem_start
\* Mutant: the SPM start is always computed from the SE memory.
SeSpmStartAlwaysDefault(o) == SeMemStart(o) + o.pim_se_mem_size
SeSpmStart(o) ==
  IF o.pim_spm_start = None THEN SeMemStart(o) + o.pim_se_mem_size ELSE o.pim_spm_start
\* The process's stdin/stdout/stderr are set only from options that are not None.
Process(o) ==
  [cmd |-> o.pim_kernel, input |-> o.pim_se_input,
   output |-> o.pim_se_output, errout |-> o.pim_se_errout]
SeSystem(o) ==
  [mode |-> "se",
   mem_ranges |-> {AddrRange(SeMemStart(o), o.pim_se_mem_size)},
   spm |-> SPM(AddrRange(SeSpmStart(o), o.pim_spm_size), FALSE, o),
   se_mem_ctrl |-> AddrRange(SeMemStart(o), o.pim_se_mem_size),
   kernel |-> None, workload |-> Process(o), tohostbridge |-> None]

\* Mutant: the check that the SPM does not start inside SE memory is dropped.
SeLayoutRejectedNoOverlap(o) == SeSpmStart(o) <= SeMemStart(o)

\* The two fatal checks of build_se_pim_system.
SeLayoutRejected(o) ==
  \/ SeSpmStart(o) <= SeMemStart(o)
  \/ SeSpmStart(o) < SeMemStart(o) + o.pim_se_mem_size

BuildPimSystem ==
  /\ outcome = "running" /\ "pim" \notin calls
  /\ calls' = calls \cup {"pim"}
  /\ \/ ~OptionsChecked(opts) /\ Fatal
     \/ /\ OptionsChecked(opts) /\ opts.pim_baremetal
        /\ \/ BaremetalSpmStart(opts) < VExpressMemStart /\ Fatal
           \/ /\ BaremetalSpmStart(opts) >= VExpressMemStart
              /\ pim' = BaremetalSystem(opts)
              /\ UNCHANGED <<isa, opts, host, outcome>>
     \/ /\ OptionsChecked(opts) /\ opts.pim_se
        /\ \/ SeLayoutRejected(opts) /\ Fatal
           \/ /\ ~SeLayoutRejected(opts)
              /\ pim' = SeSystem(opts)
              /\ UNCHANGED <<isa, opts, host, outcome>>

(***************************************************************************)
(* connect_to_host_system: the host's memory subsystem crossbar forwards  *)
(* the SPM's range to pimbus through topimbridge, and pimbus forwards the *)
(* host's mem_ranges to that crossbar through tohostbridge.  The script   *)
(* is done.                                                                *)
(***************************************************************************)
ConnectToHostSystem ==
  /\ outcome = "running" /\ "pim" \in calls /\ "connect" \notin calls
  /\ calls' = calls \cup {"connect"}
  /\ \/ /\ isa \notin {"arm", "x86"} \/ host.memsubsystem = None
        /\ Fatal
     \/ /\ isa \in {"arm", "x86"} /\ host.memsubsystem # None
        /\ host' = [host EXCEPT !.memsubsystem.topimbridge = pim.spm.range]
        /\ pim' = [pim EXCEPT !.tohostbridge = host.mem_ranges]
        /\ outcome' = "done"
        /\ UNCHANGED <<isa, opts>>

Next == BuildPimMemSubsystem \/ BuildPimSystem \/ ConnectToHostSystem

Spec == Init /\ [][Next]_vars

TypeOK ==
  /\ isa \in ISAs
  /\ opts \in OptionSpace
  /\ host.membus \in BOOLEAN
  /\ host.memsubsystem = None \/ host.memsubsystem.topimbridge = None
       \/ host.memsubsystem.topimbridge \subseteq Nat
  /\ pim = None \/ pim.mode \in {"baremetal", "se"}
  \* the SPM's Param.Addr flush registers hold addresses
  /\ pim = None \/ {pim.spm.reg_flush_addr, pim.spm.reg_flush_size} \subseteq Regs
  /\ calls \subseteq {"mem", "pim", "connect"}
  /\ outcome \in {"running", "fatal", "exception", "done"}

(***************************************************************************)
(* The SPM range the host reaches through its memory subsystem is the SPM *)
(* the PIM system built: once connect_to_host_system is done, every SPM   *)
(* address is forwarded by the bridge from membus (built from the raw     *)
(* options) and by topimbridge, and the bridge forwards no address of     *)
(* the PIM's own memory other than the SPM (build_pim_system defaults the *)
(* SPM start, build_pim_mem_subsystem does not).                           *)
(***************************************************************************)
HostReachesSpm ==
  outcome = "done" =>
    /\ pim.spm.range \subseteq UNION host.memsubsystem.bridge
    /\ host.memsubsystem.topimbridge = pim.spm.range
    /\ \A r \in host.memsubsystem.bridge \ host.mem_ranges : r = pim.spm.range

(***************************************************************************)
(* The PIM system's own memories do not overlap: in SE mode the SPM lies  *)
(* wholly above the SE memory, whether its start was given or computed    *)
(* from pim_se_mem_size; a baremetal SPM lies inside the VExpress memory  *)
(* map.                                                                   *)
(***************************************************************************)
PimMemoryDisjoint ==
  pim # None =>
    /\ pim.mode = "se" =>
         \A a \in pim.spm.range, b \in pim.se_mem_ctrl : a > b
    /\ pim.mode = "baremetal" =>
         \A a \in pim.spm.range : a >= VExpressMemStart

(***************************************************************************)
(* Spec section 5: an inconsistency in the inputs ends the run through a  *)
(* fatal check.  No option set that build_pim_system accepts (a None SPM  *)
(* start is given its default there) ends the script with an exception.  *)
(***************************************************************************)
DefaultSpmStartAccepted ==
  outcome = "exception" => ~OptionsChecked(opts)

(***************************************************************************)
(* pimbus routes every address to one port: the SPM, the SE memory and    *)
(* tohostbridge (the host's mem_ranges) answer disjoint ranges.  The      *)
(* checks of build_pim_system keep the SPM off the SE memory only.        *)
(***************************************************************************)
PimbusTargets(a) ==
  {p \in {"spm", "se_mem_ctrl", "tohostbridge"} :
     CASE p = "spm" -> a \in pim.spm.range
       [] p = "se_mem_ctrl" -> pim.se_mem_ctrl # None /\ a \in pim.se_mem_ctrl
       [] OTHER -> a \in UNION pim.tohostbridge}
PimbusRoutesUniquely ==
  outcome = "done" =>
    \A a \in UNION ({pim.spm.range} \cup pim.mem_ranges \cup pim.tohostbridge) :
       Cardinality(PimbusTargets(a)) <= 1
=============================================================================
