----------------------------- MODULE ResultScrape -----------------------------
(***************************************************************************)
(* scripts/parse_result.py: main checks its arguments and the two files,  *)
(* then parse_summary reads summary.xml (written by genComponentXml of    *)
(* m5_mcpat_parse.py) and prints the system's sim_ticks and the stats of  *)
(* the itb, dtb, icache, dcache, l2 and mc components, and parse_mcpat    *)
(* prints the leakage and dynamic power of McPAT's report.                *)
(*                                                                         *)
(* summary.xml is abstracted to the components in document order, each   *)
(* its id, its depth below the root element, and its stats (name ->       *)
(* value); a value is a natural number.  A row printed is the section and *)
(* the stat name with the value, Missing ("") when the stat is missing;  *)
(* a miss rate float(total_misses) / float(total_accesses) is kept as the *)
(* pair <<misses, accesses>>.                                              *)
(***************************************************************************)
EXTENDS Naturals, Sequences, SequencesExt

CONSTANTS Summaries,  \* the summary.xml documents the script may read
          Reports,    \* the McPAT reports it may read: sequences of line kinds
          Argc,       \* values of len(argv)
          Missing     \* the "" a stat not found keeps

VARIABLES argc, files, summary, report, section, printed, outcome
vars == <<argc, files, summary, report, section, printed, outcome>>

(***************************************************************************)
(* generateCalcStats' X86TLB branch: total_accesses and total_misses are  *)
(* the sums of the read and write counters (tryGrabComponentStat, 0 when  *)
(* absent).                                                                *)
(***************************************************************************)
\* Mutant: total_misses sums the read misses and the write accesses.
X86TlbStatsWrongSum(rdA, rdM, wrA, wrM) ==
  [rdAccesses |-> rdA, rdMisses |-> rdM, wrAccesses |-> wrA, wrMisses |-> wrM,
   total_accesses |-> rdA + wrA, total_misses |-> rdM + wrA]
X86TlbStats(rdA, rdM, wrA, wrM) ==
  [rdAccesses |-> rdA, rdMisses |-> rdM, wrAccesses |-> wrA, wrMisses |-> wrM,
   total_accesses |-> rdA + wrA, total_misses |-> rdM + wrM]

TlbNames == <<"rdAccesses", "wrAccesses", "total_accesses", "rdMisses", "wrMisses",
              "total_misses">>
CacheNames == <<"demand_hits::total", "demand_misses::total",
                "demand_accesses::total", "demand_miss_rate::total">>
McNames == <<"mem_reads", "mem_writes", "mem_accesses">>

\* The sections of parse_summary after sim_ticks: the id sought at one depth.
Sections ==
  <<[id |-> "system.cpu.itb", depth |-> 3, names |-> TlbNames, rate |-> TRUE],
    [id |-> "system.cpu.dtb", depth |-> 3, names |-> TlbNames, rate |-> TRUE],
    [id |-> "system.cpu.icache", depth |-> 3, names |-> CacheNames, rate |-> FALSE],
    [id |-> "system.cpu.dcache", depth |-> 3, names |-> CacheNames, rate |-> FALSE],
    [id |-> "system.l2", depth |-> 2, names |-> CacheNames, rate |-> FALSE],
    [id |-> "system.mc", depth |-> 2, names |-> McNames, rate |-> FALSE]>>

Init ==
  /\ argc \in Argc
  /\ files \in [summary : BOOLEAN, mcpat : BOOLEAN]
  /\ summary \in Summaries
  /\ report \in Reports
  /\ section = 0
  /\ printed = << >>
  /\ outcome = "running"

\* main: the usage and file checks end the script with sys.exit.
Main ==
  /\ outcome = "running" /\ section = 0
  /\ IF argc = 2 /\ files.summary /\ files.mcpat
     THEN section' = 1 /\ UNCHANGED outcome
     ELSE outcome' = "exit" /\ UNCHANGED section
  /\ UNCHANGED <<argc, files, summary, report, printed>>

\* parse_summary's system part: the first sim_ticks stat of a depth-1 component.
SimTicks ==
  LET withTicks == SelectSeq(summary, LAMBDA c : c.depth = 1 /\ "sim_ticks" \in DOMAIN c.stats)
  IN /\ outcome = "running" /\ section = 1
     /\ printed' = IF withTicks = << >> THEN printed
                   ELSE Append(printed, <<"system", "sim_ticks", Head(withTicks).stats["sim_ticks"]>>)
     /\ section' = 2
     /\ UNCHANGED <<argc, files, summary, report, outcome>>

\* Mutant: float division by zero gives a value instead of raising.
RateFailsOnEmptyOnly(tm, ta) == Missing \in {tm, ta}
\* float(total_misses) / float(total_accesses) raises.
RateFails(tm, ta) == Missing \in {tm, ta} \/ ta = 0

StatOr(c, n) == IF n \in DOMAIN c.stats THEN c.stats[n] ELSE Missing

(***************************************************************************)
(* One section: the first component of the id at the depth; each stat    *)
(* name it asks for, "" when missing; then, for a TLB, the miss rate,     *)
(* where float("") raises a ValueError and a zero total_accesses a        *)
(* ZeroDivisionError.                                                      *)
(***************************************************************************)
ScrapeSection ==
  LET sec == Sections[section - 1]
      found == SelectSeq(summary, LAMBDA c : c.depth = sec.depth /\ c.id = sec.id)
      c == Head(found)
      rows == [k \in 1..Len(sec.names) |-> <<sec.id, sec.names[k], StatOr(c, sec.names[k])>>]
      tm == StatOr(c, "total_misses")
      ta == StatOr(c, "total_accesses")
  IN /\ outcome = "running" /\ section \in 2..(Len(Sections) + 1)
     /\ section' = section + 1
     /\ CASE found = << >> -> UNCHANGED <<printed, outcome>>
          [] ~sec.rate -> printed' = printed \o rows /\ UNCHANGED outcome
          [] RateFails(tm, ta) -> printed' = printed \o rows /\ outcome' = "crash"
          [] OTHER -> /\ printed' = Append(printed \o rows, <<sec.id, "total_miss_rate", <<tm, ta>>>>)
                      /\ UNCHANGED outcome
     /\ UNCHANGED <<argc, files, summary, report>>

\* Mutant: the loop reads past the first "Runtime Dynamic" line.
ParseMcpatNoBreak ==
  LET rows == SelectSeq([j \in 1..Len(report) |-> <<"mcpat", report[j], j>>],
                        LAMBDA r : r[2] \in {"leak", "dyn"})
  IN /\ outcome = "running" /\ section = Len(Sections) + 2
     /\ printed' = printed \o rows
     /\ outcome' = "done"
     /\ UNCHANGED <<argc, files, summary, report, section>>

(***************************************************************************)
(* parse_mcpat: every "Total Leakage" line is printed, up to and with the *)
(* first "Runtime Dynamic" line, where the loop breaks.                  *)
(***************************************************************************)
ParseMcpat ==
  LET firstDyn == SelectInSeq(report, LAMBDA k : k = "dyn")
      upto == IF firstDyn = 0 THEN Len(report) ELSE firstDyn
      rows == SelectSeq([j \in 1..upto |-> <<"mcpat", report[j], j>>],
                        LAMBDA r : r[2] \in {"leak", "dyn"})
  IN /\ outcome = "running" /\ section = Len(Sections) + 2
     /\ printed' = printed \o rows
     /\ outcome' = "done"
     /\ UNCHANGED <<argc, files, summary, report, section>>

Next == Main \/ SimTicks \/ ScrapeSection \/ ParseMcpat

Spec == Init /\ [][Next]_vars


TypeOK ==
  /\ section \in 0..(Len(Sections) + 2)
  /\ outcome \in {"running", "exit", "crash", "done"}
  /\ \A j \in 1..Len(printed) : Len(printed[j]) = 3
  \* a miss rate is a float: a fraction with a nonzero denominator
  /\ \A j \in 1..Len(printed) :
       printed[j][2] = "total_miss_rate" => printed[j][3] \in Nat \X (Nat \ {0})

(***************************************************************************)
(* The miss rate printed for a TLB is that TLB's own miss rate: the read  *)
(* and write misses over the read and write accesses gem5 counted, as     *)
(* generateCalcStats summed them into summary.xml.                         *)
(***************************************************************************)
TlbOf(id) == Head(SelectSeq(summary, LAMBDA c : c.depth = 3 /\ c.id = id)).stats
MissRateOfItsTlb ==
  \A j \in 1..Len(printed) :
    printed[j][2] = "total_miss_rate" =>
      LET t == TlbOf(printed[j][1])
          m == printed[j][3][1]
          a == printed[j][3][2]
      IN m * (t.rdAccesses + t.wrAccesses) = a * (t.rdMisses + t.wrMisses)

(***************************************************************************)
(* parse_mcpat's break makes the power rows the processor's totals: when  *)
(* the script ends normally it has printed the report's first "Total      *)
(* Leakage" line and then its first "Runtime Dynamic" line, each only if  *)
(* the report has one.  A report cut short before the dynamic line gets   *)
(* no dynamic row and no error; a component's later totals never appear. *)
(***************************************************************************)
FirstLine(k) == SelectInSeq(report, LAMBDA x : x = k)
ProcessorPowerRows ==
  outcome = "done" =>
    LET rows == SelectSeq(printed, LAMBDA r : r[1] = "mcpat")
    IN [k \in 1..Len(rows) |-> rows[k][3]]
         = SelectSeq(<<FirstLine("leak"), FirstLine("dyn")>>, LAMBDA j : j # 0)

(***************************************************************************)
(* The scraper turns every summary.xml that m5_mcpat_parse.py writes into *)
(* its table: it never ends with an exception.                            *)
(***************************************************************************)
ReportCompletes == outcome # "crash"
=============================================================================
