---------------------------- MODULE MCPowerXml ----------------------------
EXTENDS PowerXml, GemNames

R(n, t) == [name |-> n, seg |-> n, type |-> t, pim |-> FALSE, repl |-> FALSE,
            synth |-> FALSE, calc |-> "none", noc |-> ""]
S(n) == [R(n, None) EXCEPT !.synth = TRUE]
\* A BTB or predictor generateCalcStats adds, renamed as it is created.
SC(n, seg) == [S(n) EXCEPT !.seg = seg, !.calc = "core"]
P(n, t) == [R(n, t) EXCEPT !.pim = TRUE]

\* A gem5 x86 SE system with a PIM system beside it, after generateCalcStats.
MCRec ==
  ("root" :> R("root", "Root")) @@
  ("system" :> R("system", "System")) @@
  ("pim_system" :> P("pim_system", "System")) @@
  ("pim_system.cpu" :> P("cpu", "TimingSimpleCPU")) @@
  ("pim_system.membus" :> P("membus", "CoherentXBar")) @@
  ("system.cpu" :> R("cpu", "TimingSimpleCPU")) @@
  ("system.switch_cpus" :> R("switch_cpus", "DerivO3CPU")) @@
  ("system.cpu_clk_domain" :> R("cpu_clk_domain", "SrcClockDomain")) @@
  ("system.iocache" :> R("iocache", "Cache")) @@
  ("system.l2" :> [R("l2", "Cache") EXCEPT !.calc = "L2"]) @@
  ("system.mem_ctrls" :> R("mem_ctrls", "DRAMCtrl")) @@
  ("system.membus" :> R("membus", "CoherentXBar")) @@
  ("system.tol2bus" :> [R("tol2bus", "CoherentXBar") EXCEPT !.calc = "NoC", !.noc = "0"]) @@
  ("system.cpu.dcache" :> R("dcache", "Cache")) @@
  ("system.cpu.dtb" :> R("dtb", "X86TLB")) @@
  ("system.cpu.icache" :> R("icache", "Cache")) @@
  ("system.cpu.interrupts" :> R("interrupts", "X86LocalApic")) @@
  ("system.cpu.itb" :> R("itb", "X86TLB")) @@
  ("system.cpu.itb_walker_cache" :> R("itb_walker_cache", "Cache")) @@
  ("system.cpu.BTB" :> SC("BTB", "BTB")) @@
  ("system.cpu.predictor" :> SC("PBT", "predictor")) @@
  ("system.L1Directory0" :> S("L1Directory0")) @@
  ("system.mc" :> S("mc")) @@
  ("system.niu" :> S("niu")) @@
  ("system.pcie" :> S("pcie")) @@
  ("system.flashc" :> S("flashc"))
MCIds == DOMAIN MCRec

(***************************************************************************)
(* str.replace on the segments and names above, for the replacements the  *)
(* script makes: a segment holding old in one place has it replaced, any  *)
(* other is unchanged.                                                    *)
(***************************************************************************)
MCStrReplace(s, old, new) ==
  CASE s = old                              -> new
    [] old = "cpu" /\ s = "switch_cpus"     -> "switch_" \o new \o "s"
    [] old = "cpu" /\ s = "cpu_clk_domain"  -> new \o "_clk_domain"
    [] old = "l" /\ s = "l2"                -> new \o "2"
    [] OTHER                                -> s

\* config.ini lists children alphabetically; generateCalcStats appends its own.
MCKids ==
  ("root" :> <<"pim_system", "system">>) @@
  ("pim_system" :> <<"pim_system.cpu", "pim_system.membus">>) @@
  ("system" :> <<"system.cpu", "system.cpu_clk_domain", "system.iocache", "system.l2",
                 "system.mem_ctrls", "system.membus", "system.switch_cpus",
                 "system.tol2bus", "system.L1Directory0", "system.mc", "system.niu",
                 "system.pcie", "system.flashc">>) @@
  ("system.cpu" :> <<"system.cpu.dcache", "system.cpu.dtb", "system.cpu.icache",
                     "system.cpu.interrupts", "system.cpu.itb",
                     "system.cpu.itb_walker_cache", "system.cpu.BTB",
                     "system.cpu.predictor">>) @@
  [i \in MCIds |-> <<>>]

\* What a configuration may lack: fast-forward CPUs, the memory side, the
\* I/O cache, the walker caches, the interrupt controller, the PIM system.
MCOptional ==
  {"system.switch_cpus", "system.membus", "system.mem_ctrls", "system.iocache",
   "system.cpu.itb_walker_cache", "system.cpu.interrupts", "pim_system"}
=============================================================================
