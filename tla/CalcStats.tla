----------------------------- MODULE CalcStats -----------------------------
(***************************************************************************)
(* generateCalcStats (m5_mcpat_parse.py): one pass over the component      *)
(* dictionary cht, in the dictionary's iteration order, deriving           *)
(* statistics and parameters, synthesizing components (BTB, predictor,     *)
(* directory, mc, niu, pcie, flashc) and writing the totals onto the       *)
(* system record.  Python 2 dict order is fixed by the hashes of the ids,  *)
(* so the model lets the loop visit the components in any order.           *)
(*                                                                         *)
(* A component is a record that keeps what the loop body tests of it:      *)
(*   type    params['type']                                                *)
(*   name    the name class the substring tests see ("cpu", "icache",      *)
(*           "dcache", "l2", "iocache", "tol2bus", "membus", ...)          *)
(*   pim     "pim_system" in its id                                        *)
(*   clock   clock period (ps) of its clk_domain                           *)
(*   req     the raw statistics the body reads without a default exist     *)
(*   intI, fpI  sums of the iq.FU_type_0 integer / floating-point counters *)
(*   commit  the keys under which the stats dump holds the committed count *)
(*   rd, wr  rdAccesses/wrAccesses (TLB), num_reads/num_writes (DRAM),     *)
(*           or Absent                                                     *)
(*   port    the component an interconnect port belongs to, or NoComp      *)
(***************************************************************************)
EXTENDS Naturals, Sequences, FiniteSets, FiniteSetsExt, Functions

CONSTANTS C,          \* component ids (model values)
          Records,    \* the component records the config may hold
          SimTicks,   \* system.sim_ticks
          CommitCount,\* the committed-instruction count of an O3 core
          None, Absent, NoComp

Sys == "system"   \* options.system_name (also the owner of synthesized ids)

VARIABLES cfg,            \* cht as read: id -> record
          todo,           \* ids the for loop has not visited yet
          pc,             \* "loop", "finish", "done" or "abort"
          fastest,        \* fastest_clock
          numCores, numL2s, numNocs, numCacheLevels,
          homL2,          \* homogeneous_L2s (= homogeneous_L1Directories)
          cacheConfigType,\* the local cache_config_type, kept across iterations
          cacheCfg,       \* id -> the "<x>_config" param key written on it
          nocIdx,         \* id -> the n of its "noc%d" re_name
          width,          \* <<bus, comp>>: comp got param "<bus>.width"
          tlbTotal,       \* id -> total_accesses
          committed,      \* id -> <<committed_int, committed_fp>>
          added,          \* new_components_to_add, as <<owner, part>>
          mem,            \* the mc record's mem_reads/mem_writes/mem_accesses
          sysParams,      \* params written onto cht[system_name]
          totalCycles     \* statistics["total_cycles"] of the system
vars == <<cfg, todo, pc, fastest, numCores, numL2s, numNocs, numCacheLevels,
          homL2, cacheConfigType, cacheCfg, nocIdx, width, tlbTotal,
          committed, added, mem, sysParams, totalCycles>>

ConfigKeys == {"icache_config", "dcache_config", "L2_config"}
Parts == {"BTB", "predictor", "L1Directory0", "mc", "niu", "pcie", "flashc"}

TypeOK ==
  /\ cfg \in [C -> Records]
  /\ todo \subseteq C
  /\ pc \in {"loop", "finish", "done", "abort"}
  /\ fastest \in Nat \cup {None}
  /\ {numCores, numL2s, numNocs, numCacheLevels} \subseteq Nat
  /\ homL2 \in {"0", "1"}
  /\ cacheConfigType \in ConfigKeys \cup {None}
  /\ cacheCfg \in [C -> ConfigKeys \cup {None}]
  /\ nocIdx \in [C -> Nat \cup {None}]
  /\ width \subseteq C \X C
  /\ tlbTotal \in [C -> Nat \cup {None}]
  /\ committed \in [C -> (Nat \X Nat) \cup {None}]
  /\ added \in Seq((C \cup {Sys}) \X Parts)
  /\ mem \in [reads : Nat, writes : Nat, accesses : Nat]

\* tryGrabComponentStat: a missing statistic reads as 0.
TryGrab(v) == IF v = Absent THEN 0 ELSE v

\* "name in component.name" for the record names used: "tol2bus" (the default
\* interconn_names) and "cpu" (the default cpu_name) are substrings of these.
InterconnNamed(r) == r.name \in {"tol2bus"}
CpuNamed(r)       == r.name \in {"cpu", "switch_cpus"}
CpuTypes == {"TimingSimpleCPU", "DerivO3CPU"}
IsCore(r) == r.type \in CpuTypes /\ CpuNamed(r) /\ ~r.pim

Init ==
  /\ cfg \in [C -> Records]
  /\ todo = C
  /\ pc = "loop"
  /\ fastest = None
  /\ numCores = 0 /\ numL2s = 0 /\ numNocs = 0 /\ numCacheLevels = 0
  /\ homL2 = "0"
  /\ cacheConfigType = None
  /\ cacheCfg = [c \in C |-> None]
  /\ nocIdx = [c \in C |-> None]
  /\ width = {}
  /\ tlbTotal = [c \in C |-> None]
  /\ committed = [c \in C |-> None]
  /\ added = << >>
  /\ mem = [reads |-> 0, writes |-> 0, accesses |-> 0]
  /\ sysParams = None
  /\ totalCycles = None

Visiting(c) == pc = "loop" /\ c \in todo /\ todo' = todo \ {c}
Abort == pc' = "abort"
Counters == <<numCores, numL2s, numNocs, numCacheLevels, homL2>>
Outputs == <<mem, sysParams, totalCycles>>

\* "pim_system" in c_key: continue; and types no branch of the body handles.
VisitPassive(c) ==
  /\ Visiting(c)
  /\ \/ cfg[c].pim
     \/ cfg[c].type = "DRAMCtrl"
     \/ cfg[c].type \in CpuTypes /\ ~CpuNamed(cfg[c])
  /\ UNCHANGED <<cfg, pc, fastest, Counters, cacheConfigType, cacheCfg, nocIdx,
                 width, tlbTotal, committed, added, Outputs>>

\* ptype == 'X86TLB': total_accesses = rdAccesses + wrAccesses.
VisitTLB(c) ==
  /\ Visiting(c)
  /\ ~cfg[c].pim /\ cfg[c].type = "X86TLB"
  /\ tlbTotal' = [tlbTotal EXCEPT ![c] = TryGrab(cfg[c].rd) + TryGrab(cfg[c].wr)]
  /\ UNCHANGED <<cfg, pc, fastest, Counters, cacheConfigType, cacheCfg, nocIdx,
                 width, committed, added, Outputs>>

\* Mutant: the rename reads "noc%d" % (num_nocs - 1).
VisitXBarEarlyIndex(c) ==
  LET r == cfg[c] IN
  /\ Visiting(c)
  /\ ~r.pim /\ r.type = "CoherentXBar"
  /\ IF InterconnNamed(r)
     THEN /\ nocIdx' = [nocIdx EXCEPT ![c] = numNocs - 1]
          /\ numNocs' = numNocs + 1
     ELSE UNCHANGED <<nocIdx, numNocs>>
  /\ IF r.port = NoComp
     THEN Abort /\ UNCHANGED width
     ELSE width' = width \cup {<<c, r.port>>} /\ UNCHANGED pc
  /\ UNCHANGED <<cfg, fastest, numCores, numL2s, numCacheLevels, homL2,
                 cacheConfigType, cacheCfg, tlbTotal, committed, added, Outputs>>

\* Mutant: num_nocs is incremented before the "noc%d" rename.
VisitXBarLateIndex(c) ==
  LET r == cfg[c] IN
  /\ Visiting(c)
  /\ ~r.pim /\ r.type = "CoherentXBar"
  /\ IF InterconnNamed(r)
     THEN /\ nocIdx' = [nocIdx EXCEPT ![c] = numNocs + 1]
          /\ numNocs' = numNocs + 1
     ELSE UNCHANGED <<nocIdx, numNocs>>
  /\ IF r.port = NoComp
     THEN Abort /\ UNCHANGED width
     ELSE width' = width \cup {<<c, r.port>>} /\ UNCHANGED pc
  /\ UNCHANGED <<cfg, fastest, numCores, numL2s, numCacheLevels, homL2,
                 cacheConfigType, cacheCfg, tlbTotal, committed, added, Outputs>>

\* ptype == "CoherentXBar": number the interconnect "noc<n>", then hand the
\* bus width to the component behind every port; panic on an unknown one.
VisitXBar(c) ==
  LET r == cfg[c] IN
  /\ Visiting(c)
  /\ ~r.pim /\ r.type = "CoherentXBar"
  /\ IF InterconnNamed(r)
     THEN /\ nocIdx' = [nocIdx EXCEPT ![c] = numNocs]
          /\ numNocs' = numNocs + 1
     ELSE UNCHANGED <<nocIdx, numNocs>>
  /\ IF r.port = NoComp
     THEN Abort /\ UNCHANGED width
     ELSE width' = width \cup {<<c, r.port>>} /\ UNCHANGED pc
  /\ UNCHANGED <<cfg, fastest, numCores, numL2s, numCacheLevels, homL2,
                 cacheConfigType, cacheCfg, tlbTotal, committed, added, Outputs>>

(***************************************************************************)
(* committed_int/fp_instructions of an O3 core, as the code computes them: *)
(* the int share reads statistics["commit:count"], the fp share            *)
(* statistics["commit.count"]; a KeyError or a zero int+fp sum in either   *)
(* lands in the except clause, which sets both to "0".                     *)
(***************************************************************************)
CommittedCode(r) ==
  IF r.intI + r.fpI > 0 /\ {"commit:count", "commit.count"} \subseteq r.commit
  THEN <<(r.intI * CommitCount) \div (r.intI + r.fpI),
         (r.fpI * CommitCount) \div (r.intI + r.fpI)>>
  ELSE <<0, 0>>

CoreChildren(c) == <<<<c, "BTB">>, <<c, "predictor">>>>

\* Mutant: fastest_clock keeps the slowest period.
VisitCoreSlowest(c) ==
  LET r == cfg[c] IN
  /\ Visiting(c)
  /\ IsCore(r)
  /\ fastest' = IF fastest = None \/ fastest < r.clock THEN r.clock ELSE fastest
  /\ numCores' = numCores + 1
  /\ IF r.req
     THEN /\ added' = added \o CoreChildren(c)
          /\ committed' = IF r.type = "DerivO3CPU"
                          THEN [committed EXCEPT ![c] = CommittedCode(r)]
                          ELSE committed
          /\ UNCHANGED pc
     ELSE Abort /\ UNCHANGED <<added, committed>>
  /\ UNCHANGED <<cfg, numL2s, numNocs, numCacheLevels, homL2, cacheConfigType,
                 cacheCfg, nocIdx, width, tlbTotal, Outputs>>

(***************************************************************************)
(* A TimingSimpleCPU or DerivO3CPU named options.cpu_name outside the PIM  *)
(* system: clockrate, fastest_clock, num_cores, the BTB and predictor      *)
(* children (whose statistics read Branches and, for O3, the BPredUnit ones),*)
(* and for O3 the functional-unit and committed-instruction statistics.   *)
(* A raw statistic read without a default that is missing is a KeyError.   *)
(***************************************************************************)
VisitCore(c) ==
  LET r == cfg[c] IN
  /\ Visiting(c)
  /\ IsCore(r)
  /\ fastest' = IF fastest = None \/ fastest > r.clock THEN r.clock ELSE fastest
  /\ numCores' = numCores + 1
  /\ IF r.req
     THEN /\ added' = added \o CoreChildren(c)
          /\ committed' = IF r.type = "DerivO3CPU"
                          THEN [committed EXCEPT ![c] = CommittedCode(r)]
                          ELSE committed
          /\ UNCHANGED pc
     ELSE Abort /\ UNCHANGED <<added, committed>>
  /\ UNCHANGED <<cfg, numL2s, numNocs, numCacheLevels, homL2, cacheConfigType,
                 cacheCfg, nocIdx, width, tlbTotal, Outputs>>

(***************************************************************************)
(* ptype == "Cache".  cache_config_type is a local of generateCalcStats    *)
(* that only the icache/dcache/l2 names assign: for any other cache it     *)
(* still holds the value of an earlier iteration, or is unbound            *)
(* (UnboundLocalError) when no classified cache came first.  An l2 gets a  *)
(* directory sibling, "<system>.L1Directory0", whose statistics read the   *)
(* l2's request counters without a default.                                *)
(***************************************************************************)
CacheKind(r) ==
  CASE r.name = "icache" -> "icache_config"
    [] r.name = "dcache" -> "dcache_config"
    [] r.name = "l2"     -> "L2_config"
    [] OTHER             -> None
IsL1(r) == r.name \in {"icache", "dcache"}
IsL2(r) == r.name = "l2"

\* Mutant: num_cache_levels = 1 for an L1 without the "< 1" guard.
VisitCacheLevelUnguarded(c) ==
  LET r == cfg[c]
      kind == IF CacheKind(r) = None THEN cacheConfigType ELSE CacheKind(r)
  IN
  /\ Visiting(c)
  /\ ~r.pim /\ r.type = "Cache"
  /\ IF kind = None \/ (IsL2(r) /\ ~r.req)
     THEN Abort /\ UNCHANGED <<cacheConfigType, cacheCfg, added, Counters>>
     ELSE /\ cacheConfigType' = kind
          /\ cacheCfg' = [cacheCfg EXCEPT ![c] = kind]
          /\ added' = IF IsL2(r) THEN Append(added, <<Sys, "L1Directory0">>) ELSE added
          /\ numCacheLevels' =
               CASE IsL1(r) -> 1
                 [] IsL2(r) -> IF numCacheLevels < 2 THEN 2 ELSE numCacheLevels
                 [] OTHER -> numCacheLevels
          /\ numL2s' = IF IsL2(r) THEN numL2s + 1 ELSE numL2s
          /\ homL2' = IF IsL2(r) THEN IF numL2s' = 1 THEN "1" ELSE "0" ELSE homL2
          /\ UNCHANGED <<pc, numCores, numNocs>>
  /\ UNCHANGED <<cfg, fastest, nocIdx, width, tlbTotal, committed, Outputs>>

VisitCache(c) ==
  LET r == cfg[c]
      kind == IF CacheKind(r) = None THEN cacheConfigType ELSE CacheKind(r)
  IN
  /\ Visiting(c)
  /\ ~r.pim /\ r.type = "Cache"
  /\ IF kind = None \/ (IsL2(r) /\ ~r.req)
     THEN Abort /\ UNCHANGED <<cacheConfigType, cacheCfg, added, Counters>>
     ELSE /\ cacheConfigType' = kind
          /\ cacheCfg' = [cacheCfg EXCEPT ![c] = kind]
          /\ added' = IF IsL2(r) THEN Append(added, <<Sys, "L1Directory0">>) ELSE added
          /\ numCacheLevels' =
               CASE IsL1(r) -> IF numCacheLevels < 1 THEN 1 ELSE numCacheLevels
                 [] IsL2(r) -> IF numCacheLevels < 2 THEN 2 ELSE numCacheLevels
                 [] OTHER -> numCacheLevels
          /\ numL2s' = IF IsL2(r) THEN numL2s + 1 ELSE numL2s
          /\ homL2' = IF IsL2(r) THEN IF numL2s' = 1 THEN "1" ELSE "0" ELSE homL2
          /\ UNCHANGED <<pc, numCores, numNocs>>
  /\ UNCHANGED <<cfg, fastest, nocIdx, width, tlbTotal, committed, Outputs>>

(***************************************************************************)
(* After the loop: the mc record sums num_reads::total / num_writes::total *)
(* (missing ones set to 0) of every DRAMCtrl named mem_ctrls, mc, niu,     *)
(* pcie and flashc are appended, the new components are put into cht, and  *)
(* the counters are written onto the system record.  total_cycles divides  *)
(* sim_ticks by fastest_clock, which is None when no core was counted.     *)
(***************************************************************************)
MemCtrls == {c \in C : cfg[c].type = "DRAMCtrl" /\ cfg[c].name = "mem_ctrls"}
SumOver(S, F(_)) == MapThenSumSet(F, S)
SysParamsOf(cores, l2s, nocs, levels, hl2) ==
  [number_of_cores |-> cores, number_of_L1Directories |-> l2s,
   number_of_L2s |-> l2s, number_of_L2Directories |-> 0, number_of_L3s |-> 0,
   number_of_nocs |-> nocs, number_cache_levels |-> levels,
   homogeneous_L2s |-> hl2, homogeneous_L3s |-> "0",
   homogeneous_L1Directories |-> hl2, homogeneous_L2Directories |-> "0",
   homogeneous_nocs |-> "0"]
RootParts == <<<<Sys, "mc">>, <<Sys, "niu">>, <<Sys, "pcie">>, <<Sys, "flashc">>>>

FinishCalc ==
  LET reads  == SumOver(MemCtrls, LAMBDA c : TryGrab(cfg[c].rd))
      writes == SumOver(MemCtrls, LAMBDA c : TryGrab(cfg[c].wr))
  IN
  /\ pc = "loop" /\ todo = {}
  /\ mem' = [reads |-> reads, writes |-> writes, accesses |-> reads + writes]
  /\ added' = added \o RootParts
  /\ sysParams' = SysParamsOf(numCores, numL2s, numNocs, numCacheLevels, homL2)
  /\ IF fastest = None
     THEN Abort /\ UNCHANGED totalCycles
     ELSE pc' = "done" /\ totalCycles' = SimTicks \div fastest
  /\ UNCHANGED <<cfg, todo, fastest, Counters, cacheConfigType, cacheCfg, nocIdx,
                 width, tlbTotal, committed>>

Next ==
  \/ \E c \in C :
       \/ VisitPassive(c) \/ VisitTLB(c) \/ VisitXBar(c)
       \/ VisitCore(c) \/ VisitCache(c)
  \/ FinishCalc

Spec == Init /\ [][Next]_vars

----------------------------------------------------------------------------
CountedCores == {c \in C : IsCore(cfg[c])}
CachesWhere(P(_)) == {c \in C : ~cfg[c].pim /\ cfg[c].type = "Cache" /\ P(cfg[c])}
L1s == CachesWhere(IsL1)
L2s == CachesWhere(IsL2)
NamedNocs ==
  {c \in C : ~cfg[c].pim /\ cfg[c].type = "CoherentXBar" /\ InterconnNamed(cfg[c])}

(***************************************************************************)
(* Whatever order the dictionary is walked in, the counters written onto   *)
(* the system record are those of the whole configuration: one core per    *)
(* counted CPU, one L2 (and L1 directory) per l2 cache, one NoC per named  *)
(* interconnect, number_cache_levels the deepest level present, and        *)
(* homogeneous_L2s = "1" exactly when there is a single L2.                *)
(***************************************************************************)
SystemSummaryExact ==
  pc = "done" =>
    sysParams = SysParamsOf(Cardinality(CountedCores), Cardinality(L2s),
                            Cardinality(NamedNocs),
                            IF L2s # {} THEN 2 ELSE IF L1s # {} THEN 1 ELSE 0,
                            IF Cardinality(L2s) = 1 THEN "1" ELSE "0")

(***************************************************************************)
(* total_cycles is sim_ticks over the period of the fastest counted core,  *)
(* and the run only gets there when at least one core was counted.         *)
(***************************************************************************)
FastestClockTotal ==
  pc = "done" =>
    /\ CountedCores # {}
    /\ totalCycles = SimTicks \div Min({cfg[c].clock : c \in CountedCores})

(***************************************************************************)
(* The interconnects renamed "noc<n>" get the numbers 0 .. n-1, one each,   *)
(* whatever the order they are met in; nothing else is renamed.            *)
(***************************************************************************)
NocNumberingDense ==
  pc = "done" =>
    /\ {nocIdx[c] : c \in NamedNocs} = 0..Cardinality(NamedNocs) - 1
    /\ \A c \in C \ NamedNocs : nocIdx[c] = None

(***************************************************************************)
(* Every cache gets the "<level>_config" parameter of its own kind          *)
(* (icache_config, dcache_config or L2_config), so the power model sees    *)
(* each cache's geometry under its own name.                               *)
(***************************************************************************)
CacheConfigOwnKind ==
  \A c \in C : cacheCfg[c] # None => cacheCfg[c] = CacheKind(cfg[c])

(***************************************************************************)
(* The spec's committed-instruction split of an O3 core: the commit count  *)
(* shared out in proportion to int and fp instructions, "0" for an idle    *)
(* core whose int+fp sum is zero.                                          *)
(***************************************************************************)
CommittedSpec(r) ==
  IF r.intI + r.fpI = 0 THEN <<0, 0>>
  ELSE <<(r.intI * CommitCount) \div (r.intI + r.fpI),
         (r.fpI * CommitCount) \div (r.intI + r.fpI)>>
CommittedSplit ==
  \A c \in C : committed[c] # None => committed[c] = CommittedSpec(cfg[c])

(***************************************************************************)
(* Every synthesized component (BTB, predictor, directory, mc, ...) gets an *)
(* id no other synthesized component has, so none replaces another in cht.*)
(***************************************************************************)
SynthesizedIdsUnique == pc = "done" => IsInjective(added)

=============================================================================
