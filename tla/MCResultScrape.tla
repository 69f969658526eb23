--------------------------- MODULE MCResultScrape ---------------------------
(***************************************************************************)
(* summary.xml documents of one-core runs: the system (depth 1) with      *)
(* sim_ticks, the cpu (depth 2) named cpu or, in a multi-core run, cpu0,  *)
(* its itb, dtb, icache and dcache (depth 3), then l2 and mc (depth 2).   *)
(* An X86TLB has the read/write counters and the totals generateCalcStats *)
(* added; an ArmTLB has its own counters and no totals.  McPAT's report   *)
(* has one "Total Leakage" and one "Runtime Dynamic" line, in the         *)
(* Processor block; a report cut short by a failed McPAT run has fewer.   *)
(***************************************************************************)
EXTENDS ResultScrape

Comp(id, d, st) == [id |-> id, depth |-> d, stats |-> st]
Cache == [x \in {"demand_hits::total", "demand_misses::total",
                 "demand_accesses::total", "demand_miss_rate::total"} |-> 1]
Counts == {<<a, m>> \in (0..2) \X (0..2) : m <= a}
X86Tlbs == {X86TlbStats(r[1], r[2], w[1], w[2]) : r \in Counts, w \in Counts}
ArmTlb == [accesses |-> 1, misses |-> 0]
Doc(cpu, itb, dtb) ==
  <<Comp("system", 1, [sim_ticks |-> 5]), Comp(cpu, 2, [numCycles |-> 5]),
    Comp(cpu \o ".itb", 3, itb), Comp(cpu \o ".dtb", 3, dtb),
    Comp(cpu \o ".icache", 3, Cache), Comp(cpu \o ".dcache", 3, Cache),
    Comp("system.l2", 2, Cache),
    Comp("system.mc", 2, [mem_reads |-> 1, mem_writes |-> 1, mem_accesses |-> 2])>>
MCSummaries ==
  {Doc(cpu, i, d) : cpu \in {"system.cpu", "system.cpu0"}, i \in X86Tlbs, d \in X86Tlbs}
  \cup {Doc("system.cpu", ArmTlb, ArmTlb)}
MCReports == {<<"other", "leak", "other", "dyn", "leak">>, <<"other", "leak">>, << >>}
=============================================================================
