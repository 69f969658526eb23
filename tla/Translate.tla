----------------------------- MODULE Translate -----------------------------
(***************************************************************************)
(* The translation loop at the end of createComponentTree                 *)
(* (m5_mcpat_parse.py): every component whose id is outside pim_system is *)
(* given a translator by setComponentType, and the translator's table     *)
(* projects the component's params and statistics onto McPAT's fields,    *)
(* taking a field's default when the m5 key is missing.                    *)
(*                                                                         *)
(* A component is abstracted to its name (the last id segment), its       *)
(* params['type'] (None for the records generateCalcStats adds, which have *)
(* no type) and whether its id lies in pim_system.  setComponentType only *)
(* asks of a name whether it contains one of a few substrings; Has[n] is  *)
(* the set of those substrings name n contains.  Of the System table the  *)
(* entries are kept in order; of every table, the m5 keys it reads (not   *)
(* "unknown").  A record generateCalcStats adds for a core (BTB, PBT)     *)
(* also has the type of that core (of).                                   *)
(***************************************************************************)
EXTENDS Naturals, Sequences, SequencesExt

CONSTANTS Ids,      \* ids of cht other than the system record
          SysId,    \* options.system_name, the id of the system record
          Recs,     \* the component records cht may hold
          Has,      \* name -> the rule substrings it contains
          None

VARIABLES rec,        \* id -> [name, type, pim]
          todo,       \* ids the "for id in cht" loop has not visited
          translator, \* id -> the translator setComponentType assigned
          sysOrder,   \* translated_params_order of the system record
          sysVals,    \* translated_params of the system record
          sysStats    \* translated_statistics of the system record
vars == <<rec, todo, translator, sysOrder, sysVals, sysStats>>

AllIds == Ids \cup {SysId}
SysRec == [name |-> "system", type |-> "System", pim |-> FALSE, of |-> None]
Translators ==
  {"Bus", "InOrderCore", "OOOCore", "ITLB", "DTLB", "InstructionCache",
   "DataCache", "L1Directory", "L2Directory", "SharedCacheL2", "System",
   "Predictor", "BTB", "MC", "NIU", "PCIe", "Flashc"}

TypeOK ==
  /\ rec \in [AllIds -> Recs \cup {SysRec}]
  /\ todo \subseteq AllIds
  /\ translator \in [AllIds -> Translators \cup {None}]
  /\ sysOrder \in Seq(STRING)
  /\ sysVals \in [Range(sysOrder) -> STRING]

(***************************************************************************)
(* setComponentType: the name rules in the order the if/elif chain tests  *)
(* them; the first rule whose test the name passes decides, and its inner *)
(* type test may still leave the component without a translator.  The    *)
(* defaults: interconn_names "tol2bus", cpu_name "cpu", itb_name "itb",   *)
(* dtb_name "dtb", system_name "system".                                   *)
(***************************************************************************)
InterconnNames == {"tol2bus"}
Rules == <<"interconn", "cpu", "itb", "dtb", "icache", "dcache", "Directory",
           "l2", "system", "PBT", "BTB", "mc", "niu", "pcie", "flashc">>

Matches(r, p) ==
  CASE p = "interconn" -> Has[r.name] \cap InterconnNames # {}
    [] p = "system"    -> r.name = "system"
    [] OTHER           -> p \in Has[r.name]

IfType(r, t, tr) == IF r.type = t THEN tr ELSE None

RuleResult(p, r) ==
  CASE p = "interconn" -> IfType(r, "CoherentXBar", "Bus")
    [] p = "cpu"       -> IF r.type = "TimingSimpleCPU" THEN "InOrderCore"
                          ELSE IfType(r, "DerivO3CPU", "OOOCore")
    [] p = "itb"       -> "ITLB"
    [] p = "dtb"       -> "DTLB"
    [] p = "icache"    -> IfType(r, "Cache", "InstructionCache")
    [] p = "dcache"    -> IfType(r, "Cache", "DataCache")
    [] p = "Directory" -> IF "L1" \in Has[r.name] THEN "L1Directory"
                          ELSE IF "L2" \in Has[r.name] THEN "L2Directory" ELSE None
    [] p = "l2"        -> IfType(r, "Cache", "SharedCacheL2")
    [] p = "system"    -> "System"
    [] p = "PBT"       -> "Predictor"
    [] p = "BTB"       -> "BTB"
    [] p = "mc"        -> "MC"
    [] p = "niu"       -> "NIU"
    [] p = "pcie"      -> "PCIe"
    [] p = "flashc"    -> "Flashc"

setComponentType(r) ==
  LET i == SelectInSeq(Rules, LAMBDA p : Matches(r, p))
  IN IF i = 0 THEN None ELSE RuleResult(Rules[i], r)

(***************************************************************************)
(* The System table (class System): addPowerParam appends a power key to  *)
(* the order on its first addition and records its m5 key and default.    *)
(***************************************************************************)
SystemParamDecls ==
  <<<<"number_of_cores", "number_of_cores", "NaV">>,
    <<"number_of_L1Directories", "number_of_L2s", "NaV">>,
    <<"number_of_L2Directories", "number_of_L2Directories", "NaV">>,
    <<"number_of_L2s", "number_of_L2s", "NaV">>,
    <<"number_of_L3s", "number_of_L3s", "NaV">>,
    <<"number_of_NoCs", "number_of_nocs", "NaV">>,
    <<"homogeneous_cores", "homogeneous_cores", "1">>,
    <<"homogeneous_L2s", "homogeneous_L2s", "0">>,
    <<"homogeneous_L1Directories", "homogeneous_L1Directories", "0">>,
    <<"homogeneous_L2Directories", "homogeneous_L2Directories", "1">>,
    <<"homogeneous_L3s", "homogeneous_L3s", "1">>,
    <<"homogeneous_NoCs", "homogeneous_nocs", "0">>,
    <<"number_cache_levels", "number_cache_levels", "NaV">>>>
SystemStatDecls ==
  <<<<"total_cycles", "total_cycles", "0">>,
    <<"busy_cycles", "total_cycles", "0">>>>

\* A table: [order |-> power keys, entry |-> power key -> <<m5 key, default>>].
addPowerParam(tbl, d) ==
  [order |-> IF d[1] \in DOMAIN tbl.entry THEN tbl.order ELSE Append(tbl.order, d[1]),
   entry |-> (d[1] :> <<d[2], d[3]>>) @@ tbl.entry]
TableOf(decls) == FoldLeft(addPowerParam, [order |-> << >>, entry |-> << >>], decls)

(***************************************************************************)
(* The system record as generateCalcStats leaves it: the params it writes *)
(* (number_of_*, number_cache_levels, homogeneous_L2s/L3s/L1Directories/  *)
(* L2Directories/nocs) and the statistic total_cycles.  Their values are  *)
(* abstracted to "calc".                                                   *)
(***************************************************************************)
SysParamsWritten ==
  {"number_of_cores", "number_of_L1Directories", "number_of_L2s",
   "number_of_L2Directories", "number_of_L3s", "number_of_nocs",
   "number_cache_levels", "homogeneous_L2s", "homogeneous_L3s",
   "homogeneous_L1Directories", "homogeneous_L2Directories", "homogeneous_nocs"}
SysStatsWritten == {"total_cycles"}

(***************************************************************************)
(* The m5 keys each table looks up: params (p) in component.params,       *)
(* statistics (s) in component.statistics.  Keys are kept as the code     *)
(* spells them, the leading blanks of two OOOCore keys included.          *)
(***************************************************************************)
SystemKeys == [p |-> {d[2] : d \in Range(SystemParamDecls)},
               s |-> {d[2] : d \in Range(SystemStatDecls)}]
InOrderCoreKeys ==
  [p |-> {"clockrate", "numThreads"},
   s |-> {"committedInsts", "numCycles", "num_busy_cycles", "num_conditional_control_insts",
          "num_fp_alu_accesses", "num_fp_insts", "num_fp_register_reads",
          "num_fp_register_writes", "num_func_calls", "num_idle_cycles",
          "num_int_alu_accesses", "num_int_insts", "num_int_register_reads",
          "num_int_register_writes", "num_load_insts", "num_store_insts"}]
OOOCoreKeys ==
  [p |-> {" instruction_buffer_size", "ALU_per_core", "FPU_per_core", "LQEntries",
          "MUL_per_core", "RASSize", "SQEntries", "clockrate", "commitWidth",
          "decodeWidth", "decoded_stream_buffer_size", "fetchWidth", "fp_issue_width",
          "issueWidth", "memory_ports", "numIQEntries", "numPhysFloatRegs",
          "numPhysIntRegs", "numROBEntries", "numThreads"},
   s |-> {" int_regfile_writes", "BPredUnit.condIncorrect", "BPredUnit.condPredicted",
          "commit.count", "commit.fp_insts", "commit.function_calls", "commit.int_insts",
          "fp_instructions", "fp_regfile_reads", "fp_regfile_writes", "idleCycles",
          "int_instructions", "int_regfile_reads", "iq.FU_type_0::IntMult",
          "iq.fp_alu_accesses", "iq.fp_inst_queue_reads", "iq.fp_inst_queue_wakeup_accesses",
          "iq.fp_inst_queue_writes", "iq.int_alu_accesses", "iq.int_inst_queue_reads",
          "iq.int_inst_queue_wakeup_accesses", "iq.int_inst_queue_writes",
          "iq.iqInstsIssued", "kern.swap_context", "load_instructions", "numCycles",
          "num_busy_cycles", "rename.fp_rename_lookups", "rename.int_rename_lookups",
          "rob_reads", "rob_writes", "store_instructions"}]
PredictorKeys == [p |-> {"unkown"}, s |-> {}]
BTBKeys == [p |-> {}, s |-> {"lookup"}]
TLBKeys == [p |-> {"size"}, s |-> {"total_accesses", "total_misses"}]
InstructionCacheKeys ==
  [p |-> {"icache_config", "buffer_sizes"},
   s |-> {"ReadReq_accesses::total", "ReadReq_misses::total", "replacements"}]
DataCacheKeys ==
  [p |-> {"dcache_config", "buffer_sizes"},
   s |-> {"ReadReq_accesses::total", "WriteReq_accesses::total", "ReadReq_misses::total",
          "WriteReq_misses::total", "replacements"}]
SharedCacheL2Keys ==
  [p |-> {"L2_config", "buffer_sizes", "clockrate"},
   s |-> {"ReadReq_accesses::total", "ReadExReq_accesses::total", "ReadReq_misses::total",
          "ReadExReq_misses::total", "replacements"}]
\* L1Directory and L2Directory read the same keys.
DirectoryKeys ==
  [p |-> {"Dir_config", "clockrate"},
   s |-> {"read_accesses", "write_accesses", "read_misses", "write_misses", "replacements"}]
BusKeys == [p |-> {"clockrate", "input_ports", "output_ports"}, s |-> {"pkt_count::total"}]
MCKeys == [p |-> {}, s |-> {"mem_accesses", "mem_reads", "mem_writes"}]
\* NIU, PCIe and Flashc read no m5 key.
NoKeys == [p |-> {}, s |-> {}]

M5Keys(tr) ==
  CASE tr = "System" -> SystemKeys
    [] tr = "InOrderCore" -> InOrderCoreKeys
    [] tr = "OOOCore" -> OOOCoreKeys
    [] tr = "Predictor" -> PredictorKeys
    [] tr = "BTB" -> BTBKeys
    [] tr \in {"ITLB", "DTLB"} -> TLBKeys
    [] tr = "InstructionCache" -> InstructionCacheKeys
    [] tr = "DataCache" -> DataCacheKeys
    [] tr = "SharedCacheL2" -> SharedCacheL2Keys
    [] tr \in {"L1Directory", "L2Directory"} -> DirectoryKeys
    [] tr = "Bus" -> BusKeys
    [] tr = "MC" -> MCKeys
    [] OTHER -> NoKeys

(***************************************************************************)
(* The params and statistics generateCalcStats computes onto a record:    *)
(* every crossbar its clock rate and port counts, an X86TLB its totals, a *)
(* core named cpu_name its clock rate and, out of order, the FU counts,   *)
(* buffer sizes and instruction counts; a Cache its buffer sizes and the  *)
(* config of its kind (an l2 its clock rate too); the BTB, predictor and  *)
(* directory it adds their configs and counts, mc its memory counts, the  *)
(* system its totals.  The "<bus>.width" params it writes onto the        *)
(* components a bus connects are left out.                                *)
(***************************************************************************)
O3Params ==
  {"clockrate", "ALU_per_core", "fp_issue_width", "MUL_per_core", "FPU_per_core",
   "instruction_buffer_size", "decoded_stream_buffer_size", "memory_ports"}
O3Stats ==
  {"fp_instructions", "int_instructions", "committed_int_instructions",
   "committed_fp_instructions", "load_instructions", "store_instructions", "num_busy_cycles"}
PredictorParams ==
  {"local_predictor_size", "local_predictor_entries", "global_predictor_entries",
   "global_predictor_bits", "chooser_predictor_entries", "chooser_predictor_bits",
   "prediction_width"}
CacheKind(r) ==
  CASE "icache" \in Has[r.name] -> {"icache_config"}
    [] "dcache" \in Has[r.name] -> {"dcache_config"}
    [] "l2" \in Has[r.name] -> {"L2_config", "clockrate"}
    [] OTHER -> {}
Computed(r) ==
  LET core == "cpu" \in Has[r.name] /\ ~r.pim IN
  CASE r.type = "CoherentXBar" -> [p |-> {"clockrate", "input_ports", "output_ports"}, s |-> {}]
    [] r.type = "X86TLB" -> [p |-> {}, s |-> {"total_accesses", "total_misses"}]
    [] r.type = "TimingSimpleCPU" /\ core -> [p |-> {"clockrate"}, s |-> {}]
    [] r.type = "DerivO3CPU" /\ core -> [p |-> O3Params, s |-> O3Stats]
    [] r.type = "Cache" -> [p |-> {"buffer_sizes"} \cup CacheKind(r), s |-> {}]
    [] r.type = None /\ r.name = "BTB" ->
         [p |-> {"BTB_config"},
          s |-> {"lookup"} \cup (IF r.of = "DerivO3CPU" THEN {"write_accesses"} ELSE {})]
    [] r.type = None /\ r.name = "PBT" ->
         [p |-> IF r.of = "DerivO3CPU" THEN PredictorParams ELSE {}, s |-> {}]
    [] r.type = None /\ r.name = "L1Directory0" ->
         [p |-> {"clockrate", "Dir_config"},
          s |-> {"read_accesses", "write_accesses", "read_misses", "write_misses", "replacements"}]
    [] r.type = None /\ r.name = "mc" -> [p |-> {}, s |-> {"mem_reads", "mem_writes", "mem_accesses"}]
    [] r.type = "System" -> [p |-> SysParamsWritten, s |-> SysStatsWritten]
    [] OTHER -> NoKeys

\* Mutant: translate_param looks the power key up instead of the m5 key.
ProjectByPowerKey(tbl, present) ==
  [k \in Range(tbl.order) |-> IF k \in present THEN "calc" ELSE tbl.entry[k][2]]

\* Mutant: a missing m5 key yields no value instead of the default.
ProjectNoDefault(tbl, present) ==
  [k \in Range(tbl.order) |-> IF tbl.entry[k][1] \in present THEN "calc" ELSE None]

\* translate_param / translate_statistic: the m5 value, or the default.
Project(tbl, present) ==
  [k \in Range(tbl.order) |->
     IF tbl.entry[k][1] \in present THEN "calc" ELSE tbl.entry[k][2]]

Init ==
  /\ \E cfg \in [Ids -> Recs] : rec = cfg @@ (SysId :> SysRec)
  /\ todo = AllIds
  /\ translator = [i \in AllIds |-> None]
  /\ sysOrder = << >>
  /\ sysVals = << >>
  /\ sysStats = << >>

\* A component inside pim_system is not given a translator.
SkipPim(i) ==
  /\ i \in todo /\ rec[i].pim
  /\ todo' = todo \ {i}
  /\ UNCHANGED <<rec, translator, sysOrder, sysVals, sysStats>>

(***************************************************************************)
(* One iteration: setComponentType, then translate_params and             *)
(* translate_statistics when a translator was assigned.                   *)
(***************************************************************************)
TranslateComponent(i) ==
  LET tr == setComponentType(rec[i]) IN
  /\ i \in todo /\ ~rec[i].pim
  /\ todo' = todo \ {i}
  /\ translator' = [translator EXCEPT ![i] = tr]
  /\ IF tr = "System"
     THEN /\ sysOrder' = sysOrder \o TableOf(SystemParamDecls).order
          /\ sysVals' = Project(TableOf(SystemParamDecls), SysParamsWritten)
          /\ sysStats' = Project(TableOf(SystemStatDecls), SysStatsWritten)
     ELSE UNCHANGED <<sysOrder, sysVals, sysStats>>
  /\ UNCHANGED rec

Next == \E i \in AllIds : SkipPim(i) \/ TranslateComponent(i)

Spec == Init /\ [][Next]_vars

Done == todo = {}

(***************************************************************************)
(* What each kind of record is, whatever order the rules are tested in:   *)
(* a gem5 object by its type and the role its name states, a record added *)
(* by generateCalcStats (no type) by its name.                             *)
(***************************************************************************)
Category ==
  {<<"CoherentXBar", "tol2bus", "Bus">>, <<"TimingSimpleCPU", "cpu", "InOrderCore">>,
   <<"DerivO3CPU", "cpu", "OOOCore">>, <<"X86TLB", "itb", "ITLB">>,
   <<"X86TLB", "dtb", "DTLB">>, <<"Cache", "icache", "InstructionCache">>,
   <<"Cache", "dcache", "DataCache">>, <<"Cache", "l2", "SharedCacheL2">>,
   <<"System", "system", "System">>, <<None, "L1", "L1Directory">>,
   <<None, "PBT", "Predictor">>, <<None, "BTB", "BTB">>, <<None, "mc", "MC">>,
   <<None, "niu", "NIU">>, <<None, "pcie", "PCIe">>, <<None, "flashc", "Flashc">>}
Intended(r) ==
  LET m == {c[3] : c \in {c \in Category : c[1] = r.type /\ c[2] \in Has[r.name]}}
  IN IF m = {} THEN None ELSE CHOOSE t \in m : TRUE

(***************************************************************************)
(* The first-match chain of setComponentType gives every visited record   *)
(* outside pim_system the translator of its kind, and none to a record of *)
(* no kind: a name that passes an earlier, broader rule must not shadow a *)
(* later one (tol2bus contains "l2", L1Directory0 contains "L1").          *)
(***************************************************************************)
SelectionByCategory ==
  \A i \in AllIds \ todo : ~rec[i].pim => translator[i] = Intended(rec[i])

(***************************************************************************)
(* No field of the system record's McPAT params comes out as "NaV": every *)
(* System table entry with a real m5 key reads a param generateCalcStats  *)
(* wrote, or has a usable default.                                         *)
(***************************************************************************)
SystemParamsDefined == \A k \in DOMAIN sysVals : sysVals[k] # "NaV"

(***************************************************************************)
(* homogeneous_cores says "1" only when all translated cores are of one   *)
(* kind (all in-order, or all out-of-order), and "0" otherwise.            *)
(***************************************************************************)
(***************************************************************************)
(* Every param and statistic generateCalcStats computes for a record that *)
(* is given a translator is looked up by that translator's table, so the  *)
(* value reaches power.xml instead of the table's default.                *)
(***************************************************************************)
ComputedValuesTranslated ==
  \A i \in AllIds \ todo :
    translator[i] # None =>
      /\ Computed(rec[i]).p \subseteq M5Keys(translator[i]).p
      /\ Computed(rec[i]).s \subseteq M5Keys(translator[i]).s

CoreKinds == {translator[i] : i \in {j \in AllIds : translator[j] \in {"InOrderCore", "OOOCore"}}}
HomogeneousCoresExact ==
  Done /\ "homogeneous_cores" \in DOMAIN sysVals =>
    (sysVals["homogeneous_cores"] = "1" <=> CoreKinds \in {{}, {"InOrderCore"}, {"OOOCore"}})
=============================================================================
