---------------------------- MODULE MCTranslate ----------------------------
EXTENDS Translate, GemNames, TLC

R(n, t) == [name |-> n, type |-> t, pim |-> FALSE, of |-> None]

\* Records of the configurations the script is run on.
GemRecs ==
  {R("tol2bus", "CoherentXBar"), R("membus", "CoherentXBar"),
   R("cpu", "TimingSimpleCPU"), R("cpu", "DerivO3CPU"),
   [R("cpu", "TimingSimpleCPU") EXCEPT !.pim = TRUE],
   R("switch_cpus", "DerivO3CPU"), R("cpu_clk_domain", "SrcClockDomain"),
   R("itb", "X86TLB"), R("dtb", "X86TLB"), R("icache", "Cache"),
   R("dcache", "Cache"), R("iocache", "Cache"), R("l2", "Cache"),
   R("mem_ctrls", "DRAMCtrl")}
SynthRecs ==
  {R(n, None) : n \in {"L1Directory0", "mc", "niu", "pcie", "flashc"}}
  \cup {[R(n, None) EXCEPT !.of = c] : n \in {"PBT", "BTB"}, c \in {"TimingSimpleCPU", "DerivO3CPU"}}
MCRecs == GemRecs \cup SynthRecs

\* The same with the page-table walker caches of an x86 system with caches.
WalkerRecs == MCRecs \cup {R("itb_walker_cache", "Cache"), R("dtb_walker_cache", "Cache")}

IdSymmetry == Permutations(Ids)
=============================================================================
