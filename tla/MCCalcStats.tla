---------------------------- MODULE MCCalcStats ----------------------------
EXTENDS CalcStats, TLC

\* A component record with the fields its type does not use at a default.
Rec(t, n) ==
  [type |-> t, name |-> n, pim |-> FALSE, clock |-> 2, req |-> TRUE,
   intI |-> 0, fpI |-> 0, commit |-> {"commit.count"},
   rd |-> Absent, wr |-> Absent, port |-> NoComp]

Counts == {Absent, 1}

TLBs   == {[Rec("X86TLB", "itb") EXCEPT !.rd = a, !.wr = b] : a, b \in Counts}
XBars  == {[Rec("CoherentXBar", n) EXCEPT !.port = p] :
             n \in {"tol2bus", "membus"}, p \in C \cup {NoComp}}
Simple == {[Rec("TimingSimpleCPU", "cpu") EXCEPT !.pim = x, !.clock = k, !.req = q] :
             x \in BOOLEAN, k \in {2, 3}, q \in BOOLEAN}
           \cup {Rec("TimingSimpleCPU", "switch_cpus"), Rec("TimingSimpleCPU", "checker")}
O3(Commits) == {[Rec("DerivO3CPU", "cpu") EXCEPT !.clock = k, !.intI = i, !.fpI = f,
                                               !.commit = m] :
                  k \in {2, 3}, i \in 0..1, f \in 0..1, m \in Commits}
Caches == {Rec("Cache", n) : n \in {"icache", "dcache", "iocache", "l2"}}
           \cup {[Rec("Cache", "l2") EXCEPT !.req = FALSE]}
DRAMs  == {[Rec("DRAMCtrl", "mem_ctrls") EXCEPT !.rd = a, !.wr = b] : a, b \in Counts}

\* Every kind of component the loop body distinguishes.
AllRecords == TLBs \cup XBars \cup Simple \cup O3({{"commit.count"}}) \cup Caches \cup DRAMs

\* O3 cores, with either spelling of the committed count in the stats dump.
CoreRecords == O3({{"commit.count"}, {"commit:count"}})

\* The caches alone.
CacheRecords == Caches

\* Component ids are interchangeable model values.
CSymmetry == Permutations(C)
=============================================================================
