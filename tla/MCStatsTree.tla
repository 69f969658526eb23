----------------------------- MODULE MCStatsTree -----------------------------
(***************************************************************************)
(* Stat lines: a stat of system.cpu, a stat of a component systemX that   *)
(* config.ini may lack, a global stat, a stat of the PIM system, and a    *)
(* distribution bucket whose '-' the name group refuses.  "-1" stands for *)
(* a value the value group refuses.  cht holds root and system, and any   *)
(* of system.cpu and systemX.                                              *)
(***************************************************************************)
EXTENDS StatsTree

MCNames == {"system.cpu.numCycles", "systemX.numCycles", "sim_seconds",
            "pim_system.cpu.numCycles", "system.cpu.x::0-1"}
MCAttr ==
  [n \in MCNames |->
     [sys  |-> n \in {"system.cpu.numCycles", "systemX.numCycles", "system.cpu.x::0-1"},
      pim  |-> n = "pim_system.cpu.numCycles",
      word |-> n # "system.cpu.x::0-1"]]
MCValWord == [v \in {"5", "7", "-1"} |-> v # "-1"]
MCSysKey == [n \in MCNames |-> "system." \o n]

\* key.split('.') of every key the two regexes can produce.
MCSplit ==
  [k \in MCNames \cup {MCSysKey[n] : n \in MCNames} |->
     CASE k = "system.cpu.numCycles" -> <<"system", "cpu", "numCycles">>
       [] k = "systemX.numCycles" -> <<"systemX", "numCycles">>
       [] k = "system.sim_seconds" -> <<"system", "sim_seconds">>
       [] k = "system.pim_system.cpu.numCycles" -> <<"system", "pim_system", "cpu", "numCycles">>
       [] k = "system.system.cpu.numCycles" -> <<"system", "system", "cpu", "numCycles">>
       [] k = "system.systemX.numCycles" -> <<"system", "systemX", "numCycles">>
       [] OTHER -> <<"system", "cpu", "x::0-1">>]

MCRoot == <<"root">>
MCIdSets == {{MCRoot, <<"system">>} \cup S : S \in SUBSET {<<"system", "cpu">>, <<"systemX">>}}
=============================================================================
