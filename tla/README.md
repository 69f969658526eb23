# TLA+ models of the gem5 PIM configuration and the M5→McPAT stats translator

This directory holds TLA+ models of the repository's code, the TLC
configurations that check them, and this account of what is modelled and
what the checks show. `PROJECT.json` lists every component, run, mutant,
the source lines each definition models (`map`), the findings, and the
hazards the properties are aimed at.

## 1. Inventory

The repository has two unrelated parts. Neither runs concurrently. Each is a
single-threaded, single-pass Python program. What makes them hard is the
order in which dictionaries are walked, state carried from one loop iteration
to the next, and inputs whose shape the code does not check.

### 1.1 `pohao_gem5_stuff/scripts/mcpat/m5_mcpat_parse.py`: the stats translator

This is a pipeline. Each stage reads and writes two dictionaries: `cht`
(component id → `Component`) and `sht` (statistic key → value).

| Component | Code | State it keeps | Operations |
|---|---|---|---|
| Config parser | `parseSystemConfig` 1392-1418 | `cht`, `curr_component`, `params` | header line, `key=value` line, end-of-section line, end of file; panic on a duplicate id |
| Stats parser | `parseSystemConfig` 1420-1433 | `sht` | two regexes per line. A name starting with the system name is kept as it is; any other name not starting with `pim_system` gets `system.` in front |
| Tree builder | `createComponentTree` 1277-1320 | `Component.children`, `Component.statistics` | link the tokens of each `children` parameter, panicking on an unknown id. Attach each stat key to the component with the longest id prefix, or to `root` |
| Filter / rename | `checkToFilter`, `checkToRenameReid` 177-209, called 1322-1326 | `power_xml_filter`, `re_id`, `re_name` | mark the types, ids and names that stay out of power.xml; rename `cpu`/`itb`/`dtb` to `core`/`itlb`/`dtlb` |
| Stat synthesizer | `generateCalcStats` 950-1264, with the helpers `tryGrabComponentStat`, `clkComponentToClkRate` and `genId` (909-936) | local counters (`num_cores`, `num_l2s`, `num_nocs`, `num_cache_levels`), homogeneity flags, `fastest_clock`, the loop-carried `cache_config_type`, `new_components_to_add` | one loop iteration per component (TLB, crossbar, core, cache). Then the mc, niu, pcie and flashc records, and the totals written onto the system record |
| Translator registry | `Translator` 216-291, the tables 293-855, `setComponentType` 862-907 | `translator`, `translated_params(_order)`, `translated_statistics(_order)` | pick a table by name/type with first-match rules; copy each field, or its default when the field is missing |
| XML emitters | `formXml`, `formXmlPower`, `sortComponentList` 54-173, `genComponentXml`/`genPowerXml` 1345-1370 | `children` of the system and of the CPU records, rewritten during emission | depth-first emission. power.xml skips filtered records and rebuilds the system/CPU child lists in a fixed category order |
| Driver | `run`, `main`, option parsing 1449-1538 | none | file checks and paths |

How the stages interact: they call each other in a fixed order and share
`cht`/`sht`. The order matters. Filtering and renaming run *before*
synthesis, so synthesized records are never filtered. Synthesized records
enter `cht` only after the synthesis loop. Translation sees them. The
power emitter rewrites the children lists of the system and CPU records it
walks.

Hard behaviours:
* Python 2 `dict` iteration order follows the hashes of the ids, so in effect
  any order is possible. `generateCalcStats` keeps state across iterations:
  the counters, `fastest_clock`, and the local `cache_config_type`. A
  cache that is neither icache, dcache nor l2 (gem5's `iocache`) reuses the
  previous iteration's `cache_config_type`, or raises UnboundLocalError when
  it comes first.
* Inputs are only partly checked. A section still open at end of file is
  dropped. A header that directly follows a header hides duplicates. A
  statistic key equal to a component id panics.
* Partial failure: a missing raw statistic aborts the whole run in some
  places and reads as `0` in others.

Correctness conditions, per component: the parser yields exactly the
sections of the file. The builder attaches every statistic to its longest
prefix. The synthesizer's totals and derived values do not depend on the
iteration order, and every synthesized id is unique. The translator's
output holds every table field, in table order, with defaults for missing
ones. power.xml lists every non-filtered component exactly once.

### 1.2 `configs/pim/*`, `src/dev/TestDevice.py`, `src/mem/ScratchpadMemory.py`: the gem5 PIM configuration

* `PIM.py` `build_pim_system` (143-282): a series of `fatal` checks on the
  options: the mode, the SPM options, the SE memory size, and the kernel.
  Then it builds a bare-metal or an SE system. In SE mode the SPM start must
  lie above the SE memory range (213-219). `build_pim_mem_subsystem`
  (112-141) and `connect_to_host_system` (284-304) connect the buses and
  bridges of the host and PIM systems.
* `params.py`, `TestDevice.py`, `ScratchpadMemory.py`: constants and
  SimObject parameter declarations. `ScratchpadMemory`'s declared defaults
  (`in_addr_map`, `support_flush`, the flush registers) enter `PimConfig`
  through `SPM`.

### 1.3 `pohao_gem5_stuff/scripts/parse_result.py`

This script reads values out of summary.xml and the McPAT report and prints
them. `main` checks the arguments and files, `parse_summary` prints
`sim_ticks` and the itb, dtb, icache, dcache, l2 and mc sections (a TLB
section ends with `float(total_misses)/float(total_accesses)`), and
`parse_mcpat` prints the power lines up to the first `Runtime Dynamic`.
It depends on what `generateCalcStats` wrote: `total_accesses` and
`total_misses` exist only for an X86TLB.

## 2. Plan

Modules are listed in order of importance. ✓ marks the ones written so far.

1. ✓ `CalcStats`: `generateCalcStats`, the core of the translator. The loop
   visits the components in any order.
2. ✓ `ConfigParse`: the config.ini reader, checked against a reference
   definition of the section structure.
3. ✓ `ComponentTree` refines ✓ `ComponentTreeSpec`. The child linking and the
   longest-prefix search loop implement the spec's atomic tree builder.
4. ✓ `Translate`: `setComponentType`, first-match rule order, and
   `translate_param`/`translate_statistic` with defaults. Includes the
   System table's `homogeneous_cores`, which no code writes. Every table
   enters with the m5 keys it reads, checked against the keys
   `generateCalcStats` computes.
5. ✓ `PowerXml`: `checkToFilter`/`checkToRenameReid`, plus `formXmlPower`'s
   child reordering and `sortComponentList`. Property: every non-filtered
   component is emitted exactly once. With `checkToRenameReid` and the
   renames of `generateCalcStats`, every element's id is its own.
6. ✓ `StatsParse`: the two regexes of the stats reader, feeding the keys
   `ComponentTree` attaches.
7. (partly ✓, as `StatsTree`) `Pipeline`: composes 2 → 6 → 3 → 5(filter) → 1 → 4 → 5(emit) on one
   small configuration, to check properties that span stages. For example,
   a synthesized record is never filtered. `StatsTree` composes the
   driver's file checks, 6, the two loops of 3 and the summary.xml writer.
8. ✓ `PimConfig`: `build_pim_system`'s option checks and address ranges, SE
   and bare-metal, and the bus wiring of `build_pim_mem_subsystem` and
   `connect_to_host_system`.
9. ✓ `ResultScrape`: `parse_result.py`.

## 3. Modules and runs

Each module below lists its runs (the twelve of `PROJECT.json`) and, marked
supplementary, further configurations kept beside them. A supplementary
cfg checks one more property with `tlc -config <cfg> <MC module>`; the
result given is what TLC reports. Their findings are recorded in the
hazards of `PROJECT.json`, under the source line they concern.

### ConfigParse (`ConfigParse.tla`, `MCConfigParse.tla`)
The state is `input` (the file as a sequence of abstract lines: header(id),
param(key), other), `pos`, `curr` (`curr_component`), `params`, `cht` and
`status`. There is one action per branch of the loop, plus `EndOfFile`.
`RefCht` is the spec's reading of the file. Bounds: ids {sys, cpu}, one
key, files of up to 6 lines, so every order of up to two sections, their
ends and duplicates occurs. Ids are a symmetry set.
* `MCConfigParse.cfg` (supplementary, passes): every file whose sections each end with a blank
  line, the shape gem5 writes, is parsed to exactly `RefCht`. The parser
  panics exactly when an id repeats.
* `config_spec` (violation): the same for *any* file. TLC finds a file that
  ends inside a section: the section is silently dropped.

### CalcStats (`CalcStats.tla`, `MCCalcStats.tla`)
`cfg` maps three component ids to records drawn from `AllRecords`. The
records keep only what the loop body tests: type, name class, PIM
membership, clock, whether the statistics read without a default exist,
the FU sums, and the spelling of the commit counter. Each loop iteration is
one action: `VisitPassive`, `VisitTLB`, `VisitXBar`, `VisitCore` or
`VisitCache`. It may visit any remaining id, which models dict order. The
code after the loop is `FinishCalc`. Missing required fields, an unknown
port, an unbound `cache_config_type` and `fastest_clock = None` lead to
`abort`. Names follow the code's substring tests: `switch_cpus` contains
`cpu_name`, so it counts as a core. Ids are a symmetry set.
* `calc_core` (pass): `SystemSummaryExact`, `FastestClockTotal` and
  `NocNumberingDense`. Under every visiting order the counters, the cache
  level count, the L2 homogeneity flag, `total_cycles` and the `noc<n>`
  numbering are the ones the whole configuration determines.
* `calc_cache_kind` (violation): an `iocache` takes the config kind of the
  cache visited before it. In TLC's trace an icache comes first, so the
  iocache is given an `icache_config` parameter. Visited first, it aborts
  the run.
* `calc_committed` (violation, `MCCalcStatsCommitted.cfg`): `CommittedSplit`.
  `committed_int/fp_instructions` are always 0, because the two halves
  read different keys (`commit:count`, `commit.count`).
* `MCCalcStatsDirIds.cfg` (supplementary, violated): two L2 caches both synthesize
  `system.L1Directory0`.

### ComponentTree / ComponentTreeSpec
`ComponentTreeSpec` is written from spec §4.3. It links in one step
(`Link`/`LinkFail`) and attaches each key in one step to its longest
matching prefix, or to root.
`ComponentTree` follows the code. It links one component per step, and
searches per key with the loop variable `x` (`BeginKey`, `SearchShorter`,
`PlaceStat`). The refinement mapping sends `children` to `{}` until the
linking loop has finished, and sends `pending` to the unvisited keys plus
the key being searched.
The bounds are:
* ids: root, system, and any prefix-closed subset of
  {system.cpu, system.cpu.cpu, systemX};
* keys: any one or two keys of 2–3 segments over {system, systemX, cpu};
* `declared`: one optional dangling child and an optional `pim_system`
  under root.

These bounds reach a full-key match, the root fallback, a dangling child
and the skipped `pim_system`.
* `MCComponentTree.cfg` (supplementary, passes): `TreeBuilderRefinesSpec`,
  i.e. `Abs!Spec`, over these wider keys. The run `stats_tree` checks the
  same refinement with the keys that the stats loop produces.

### Translate (`Translate.tla`, `MCTranslate.tla`, `GemNames.tla`)
The state is:
* `rec`: each cht id's name, type and pim flag;
* `todo`: the ids the `for id in cht` loop has not visited;
* `translator`;
* the system record's `translated_params(_order)` and
  `translated_statistics`.

`TranslateComponent(i)` is one iteration of the loop. It calls
`setComponentType`, then `translate_params` and `translate_statistics`.
`SkipPim` covers ids inside pim_system.

`setComponentType` is written the way the code is: the sequence `Rules` of
name tests in if/elif order. `SelectInSeq` finds the first test a name
passes, and `RuleResult` applies that rule's inner type test.
`GemNames.NameHas` records which of the tested substrings each gem5 name
contains. TLC cannot search inside strings, so this table is written out
by hand, one line per name. `TableOf` folds `addPowerParam` over the System
table's declarations; a repeated key keeps its first position. `Project`
is `translate_param`: it takes the m5 value, or the default on a KeyError.
The system record holds exactly the params that `generateCalcStats`
writes (1251-1264).

Every table also appears as the set of m5 keys it reads (`SystemKeys`
through `NoKeys`, one per class, dispatched by `M5Keys`). `Computed(r)`
lists the keys `generateCalcStats` writes onto a record of that
kind. A BTB or predictor record carries the type of the core that made
it (`of`), because the O3 branch writes more than the simple-CPU branch.
`CacheKind` gives a cache the config of its own kind. The stale kind of
an unnamed cache is the subject of `calc_cache_kind` and is not repeated
here.

Bounds: two ids plus the system record, drawn from the records of a gem5
x86 system with caches. They include its page-table walker caches
(`WalkerRecs`), the PIM CPU and the synthesized records, so every object
kind the rules distinguish is covered. Ids are a symmetry set.
* `translate_select` (pass): `TypeOK` and `SystemParamsDefined`. No System
  field is `NaV`, and a field missing from a record takes its default.
  `SelectionByCategory` is not part of this run, because the walker caches
  break it (next item but one).
* `translate_computed` (violation): `ComputedValuesTranslated`, which says
  every key computed for a record is read by its translator's table. TLC
  finds it violated by the BTB: its table reads `BTB_config` and
  `write_accesses` as `"unknown"`, so the BTBEntries-based config and the
  BTB miss count never reach power.xml. The same holds for every predictor
  size (the `"unkown"` typo at 612 and the `"unknown"` keys around it),
  for O3 `instruction_buffer_size` (the table's key has a leading blank),
  and for `committed_*_instructions`, which no table reads. So the
  `calc_committed` bug has no effect on power.xml.
* `MCTranslateWalker.cfg` (supplementary, violated): `SelectionByCategory`
  says each record gets the translator of its kind, defined by gem5 type
  and role rather than by rule order. With gem5's x86 walker caches it
  fails. `itb_walker_cache` gets the ITLB
  translator, because the TLB rules test the name only (874).
* `MCTranslateHomCores.cfg` (supplementary, violated): with one in-order and one out-of-order
  core, `homogeneous_cores` is still the default "1".

### PowerXml (`PowerXml.tla`, `MCPowerXml.tla`)
`FilterLoop` is the loop that calls `checkToFilter` and
`checkToRenameReid` on every record. Its iterations are independent, so it
is one step. It skips the records `generateCalcStats` adds later. The same
step then applies the renames of `generateCalcStats` (`CalcRename`), which
overwrite those of `checkToRenameReid`:
* the BTB and predictor it adds get `cpu` replaced by `core`;
* an `l2` becomes `L20`;
* the matched interconnect becomes `NoC0` (id) and `noc0` (name).

`re` holds each record's `re_id`/`re_name`. An id is the sequence of its
segments (`Path`, built as the linking loop builds child ids), and
`str.replace` acts segment by segment. `MCStrReplace` gives its result on
the segments of the modelled system. `XmlId` is the id attribute that
`formXmlPower` writes. The walker caches, placed among the core's TLBs,
keep their m5 id (`system.cpu.itb_walker_cache`) inside the element
`system.core`.
`FormXmlPower` is one call of `formXmlPower`, taking the record on top of
`stack`, which models the recursion:
* a filtered record is popped with its subtree;
* any other record is written to `emitted`;
* on the system record and on CPU records, `children` is rewritten by
  `Reorder`, which applies the category lists in order, each category
  sorted by `sortComponentList`. `sortComponentList` sorts the names by
  Python's byte-string order (`GemNames.NameRank`) and looks them up in a
  dict keyed by name, so equal names collapse to the last component.

Bounds: one fixed system of 26 records (x86 core, L1s, TLBs, L2, buses,
memory, the synthesized records, and a PIM system). Every subset of 7
optional parts is tried: 128 configurations.
* `power_order` (pass): `EmittedOnce` and `SystemChildrenInMcPATOrder`. No
  record is written twice, and the system's children come in McPAT's order
  (cores, L1 directories, L2s, NoCs, mc, niu, pcie, flashc), defined by
  type and role. `OutputIdsUnique`: after all the renames, no two elements
  of power.xml share an id.
* `MCPowerXmlKept.cfg` (supplementary, violated): `membus` and `mem_ctrls` are not filtered,
  yet they vanish from power.xml.

### StatsParse (`StatsParse.tla`, `MCStatsParse.tla`)
The state is `input` (stats.txt as a sequence of lines, each a stat name and
a value), `pos` and `sht`. `ReadStatLine` is one iteration of the loop at
1420-1433. `SysMatch` and `OtherMatch` are the two regexes, reduced to what
they ask of a line: whether the name starts with the system name or with
`pim_system`, whether its characters are all in the name class, and
whether the value's are. `SysKey` gives the prefixed key. A dump starts
with a `Begin` header line, which neither regex matches. Bounds: four names
(a system stat, a global stat, a `pim_system` stat, and a name with a
character the regex refuses), three values (one refused), up to 5 lines.
* `MCStatsParse.cfg` (supplementary, passes): `StatTableExact`. After
  any prefix of the file, `sht` holds exactly the keys of the matched
  lines, each with its last value. The run `stats_tree` checks it again,
  inside the composition.
* `MCStatsParseDumps.cfg` (supplementary, violated): `LastDumpOnly`. With
  two dumps, a stat that the last dump omits keeps the earlier dump's value.

### StatsTree (`StatsTree.tla`, `MCStatsTree.tla`)
This module composes `run` → the stats loop of `parseSystemConfig` →
`createComponentTree` → `genComponentXml`/`formXml` (summary.xml).
`Stats == INSTANCE StatsParse` and
`Tree == INSTANCE ComponentTree WITH KeySets <- {{}}` share their variables
with this module. `stage` orders them as the calls do:
* `Run`: panic when either input file is missing;
* `ReadStatLine`: `Stats!ReadStatLine`;
* `CreateComponentTree`: hands the keys of `sht`, split at the dots
  (`Split`), to the tree builder;
* `TreeStep`: `Tree!Next`;
* `GenComponentXml`, `FormXml`, `EndXml`: `summary` is summary.xml as the
  sequence of component elements in document order, each with its id, its
  depth and its stat names.

The filter loop and `generateCalcStats`, which run between the linking
loops and the XML writer, only add records and statistics; `CalcStats` and
`PowerXml` model them.

The bounds are five stat names: a system stat, a name that only looks like
one (`systemX.`), a global stat, a `pim_system` stat, and one with a
character the regex refuses. There are three values, one refused, and files
of up to 3 lines. The ids are root and system, with or without
`system.cpu` and `systemX`. The bounds reach a stat on a component, a stat
on root under its whole key, a stat whose longest prefix is a near-miss
id, the skipped `pim_system`, and a dangling child.
* `stats_tree` (pass, 578,776 distinct states):
  * `TypeOK` and `StatTableExact`.
  * `StatsTreeRefinesSpec`: the refinement of `ComponentTreeSpec` carries
    through the composition. Its mapping sends `pending` to `FinalKeys`,
    the keys the loop will have read from the whole (fixed) file, while
    the stats loop runs. No key is lost or added between `sht` and the
    builder.
  * `SummaryHoldsEveryStat`: when summary.xml is written, each stat of
    `sht` is held by exactly one element, that of its owner in the spec.
    This rests on the `(?!pim_system)` lookahead (1429) agreeing with the
    linking loop's skip of `pim_system` (1285).

### PimConfig (`PimConfig.tla`, `MCPimConfig.tla`)
The state is the ISA, the parsed options (`opts`, every PIM option, `None`
when unset), the host system, the PIM system being built, and `outcome`.
`BuildPimSystem` is `build_pim_system`: the eight option checks
(`OptionsChecked`), then the bare-metal or SE branch with its SPM start and
the two SE layout checks (`SeLayoutRejected`), ending in `fatal` or in a
PIM system whose SPM is an `SPM` record. `BuildPimMemSubsystem` and
`ConnectToHostSystem` wire the bridges; a missing membus or an ISA other
than arm or x86 is `fatal`, and `AddrRange(None, ...)` is an `exception`.
Addresses are small integers: the host memory at 0..1 (x86, riscv) or 2..3
(arm, `VExpressMemStart`), starts (SPM, SE memory) from {0, 1, 4} and
sizes from {1, 2}.
* `pim_layout` (pass): `HostReachesSpm` (when the build is done, the host's
  bridge covers the SPM the PIM system was built with, `topimbridge` is
  exactly that range, and the bridge adds no other range)
  and `PimMemoryDisjoint` (the SE memory and the SPM never overlap).
* `pim_default_spm` (violation): `DefaultSpmStartAccepted`. The build
  accepts an unset `--pim-spm-start` and computes a start, but
  `build_pim_mem_subsystem` reads the option again and fails on `None`.
* `MCPimConfigPimbusRoutesUniquely.cfg` (supplementary, violated): on
  pimbus the host memory range (through `tohostbridge`) can overlap the SPM
  or the SE memory; the SE checks only compare the SPM with the SE memory.

### ResultScrape (`ResultScrape.tla`, `MCResultScrape.tla`)
The state is `argc`, which files exist, the summary (a sequence of
components: id, depth, stats), the McPAT report (a sequence of line kinds),
`section` (the next step of `parse_summary`), `printed` and `outcome`.
Actions: `Main`, `SimTicks`, `ScrapeSection` (one section: the first
component of its id at its depth, its rows, and for a TLB the miss rate,
which raises on a missing or zero total) and `ParseMcpat`. The summaries
are the ones `generateCalcStats` writes: x86 TLBs with the summed totals
(`X86TlbStats`, counts 0..2) under `system.cpu` or `system.cpu0`, and an
ARM document with no totals.
* `scrape_report` (pass): `MissRateOfItsTlb` (every printed miss rate is
  that TLB's read+write misses over its read+write accesses),
  `ProcessorPowerRows` (the power rows are the report's first leakage
  line and then its first dynamic line, each only when the report has
  one). The
  reports are a full one (a component's totals follow the processor's), a
  report cut short before its dynamic line, and an empty one. The cut-short
  report prints its leakage row alone and ends normally.
* `scrape_crash` (violation): `ReportCompletes`. An ARM summary, or an x86
  TLB with zero accesses, makes the miss-rate division raise.

## 4. Fairness

Every model is a terminating single pass. The final states (`done`,
`abort`, `panic`, `fatal`, `exit`, `crash`) have no successor, so the cfgs
say `CHECK_DEADLOCK FALSE`: the script exits there.

No liveness property is checked, and no specification assumes fairness.
Both scripts are single sequential processes. Every loop in them is a
`for` over a finite list, file or `xrange`, and every error ends the
process through `panic`, `sys.exit` or an exception. So the scripts end
whatever their code computes, and a termination property would hold no
matter what the code does. The properties are all safety properties and
one refinement (`StatsTreeRefinesSpec`, `TreeBuilderRefinesSpec`).

## 5. Not modelled, and why

* Values and formatting are not modelled: sizes, latencies, clock-rate
  arithmetic, XML text, and printing. The properties only tell components,
  keys and counts apart.
* The driver/CLI of the translator is file I/O, except `run`'s two file
  checks (the `Run` action of `StatsTree`). Option parsing and path
  building (1474-1538) only produce strings, and the top-level exception
  handler only prints and exits. In `parse_result.py` only
  the column layout of the printing is left out.
* `params.py` declares timing constants, and `TestDevice.py` a SimObject that
  no configuration instantiates. Neither has operations. gem5's own
  simulation of the buses, bridges and SPM (latencies, routing at run time)
  is outside the repository.
* Of the translator tables other than System, only the m5 keys are kept.
  Their power keys and defaults are text that no property tells apart.
* The `<bus>.width` params that `generateCalcStats` writes onto the
  components a bus connects (1014-1017) are left out of `Computed`. Their
  key is built from the bus's name, which the records do not carry. No
  table reads such a key either, although the comment at 1014 says they
  are there for the power model.
* The step between the two scripts (McPAT run on power.xml, writing
  `<stats>_power.xml_mcpat`) is outside the repository. The files carry no
  mark of the run that wrote them, so a translator run that panics leaves
  the previous run's summary and report in place for `parse_result.py`.
  This is listed as a hazard without a property.
* `formXml` is modelled by which element holds which stat (`StatsTree`).
  Its text is left out, as are the param and stat elements of power.xml.
* `Pipeline` from the plan is written only as far as `StatsTree`. The
  other stages each take as input the states the previous stage can
  produce.
* The PIMBus/PIMBridge class declarations (`PIM.py` 70-111) only set
  parameters. They have no operations.
