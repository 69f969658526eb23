---------------------------- MODULE MCStatsParse ----------------------------
(***************************************************************************)
(* Stat lines of a gem5 stats.txt: a system stat, a global stat, a stat  *)
(* of the PIM system, and a distribution bucket whose name has a '-'.    *)
(* "-1" stands for a value the value group refuses (a negative number,   *)
(* "-nan").  Begin is the dashes that start each dump's header line.     *)
(***************************************************************************)
EXTENDS StatsParse

MCNames == {"system.cpu.numCycles", "sim_seconds", "pim_system.cpu.numCycles",
            "system.cpu.x::0-1"}
MCAttr ==
  [n \in MCNames |->
     [sys  |-> n \in {"system.cpu.numCycles", "system.cpu.x::0-1"},
      pim  |-> n = "pim_system.cpu.numCycles",
      word |-> n # "system.cpu.x::0-1"]]
MCValWord == [v \in {"5", "7", "-1"} |-> v # "-1"]
MCSysKey ==
  [n \in MCNames |->
     CASE n = "system.cpu.numCycles" -> "system.system.cpu.numCycles"
       [] n = "sim_seconds" -> "system.sim_seconds"
       [] n = "pim_system.cpu.numCycles" -> "system.pim_system.cpu.numCycles"
       [] OTHER -> "system.system.cpu.x::0-1"]
=============================================================================
