----------------------------- MODULE GemNames -----------------------------
(***************************************************************************)
(* The component names of a gem5 x86 system (the last segment of a        *)
(* config.ini section id) and of the records generateCalcStats adds, with *)
(* the two things the script asks of a name: which of the substrings its  *)
(* rules test ("<pattern> in component.name") it contains, and where it   *)
(* falls in Python's string order (names.sort() in sortComponentList).    *)
(***************************************************************************)
EXTENDS Naturals, Sequences

\* The names in the order Python 2 sorts byte strings (ASCII: "A" < "_" < "a").
PyNameOrder ==
  <<"BTB", "L1Directory0", "PBT", "cpu", "cpu_clk_domain", "dcache", "dtb",
    "dtb_walker_cache", "flashc", "icache", "interrupts", "iocache", "itb",
    "itb_walker_cache", "l2", "mc", "mem_ctrls", "membus", "niu", "pcie",
    "pim_system", "root", "switch_cpus", "system", "tol2bus">>
GemNameSet == {PyNameOrder[k] : k \in 1..Len(PyNameOrder)}
NameRank == [n \in GemNameSet |-> CHOOSE k \in 1..Len(PyNameOrder) : PyNameOrder[k] = n]

\* The rule substrings each name contains.
NameHas ==
  [n \in GemNameSet |->
     CASE n = "tol2bus"          -> {"tol2bus", "l2", "bus"}
       [] n = "membus"           -> {"bus"}
       [] n \in {"cpu", "switch_cpus", "cpu_clk_domain"} -> {"cpu"}
       [] n = "L1Directory0"     -> {"L1Directory", "Directory", "L1"}
       [] n = "itb_walker_cache" -> {"itb"}
       [] n = "dtb_walker_cache" -> {"dtb"}
       [] n \in {"mem_ctrls", "interrupts", "root"} -> {}
       [] OTHER                  -> {n}]
=============================================================================
