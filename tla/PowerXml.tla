------------------------------ MODULE PowerXml ------------------------------
(***************************************************************************)
(* power.xml (m5_mcpat_parse.py): the loop of createComponentTree that    *)
(* calls checkToFilter on every record of cht, and the depth-first         *)
(* formXmlPower from root that genPowerXml runs later.  formXmlPower skips *)
(* a filtered record with its subtree; on the system record and on a CPU   *)
(* record it first rewrites self.children into a fixed category order,    *)
(* each category sorted by sortComponentList.  The recursion is a stack of *)
(* the records still to be emitted.  A record is its name, params['type']  *)
(* (None for the records generateCalcStats adds), whether its id lies in   *)
(* pim_system or contains "replacement_policy", and whether it was added   *)
(* by generateCalcStats, which runs after the filter loop.                 *)
(* The same loop calls checkToRenameReid, whose re_id/re_name the         *)
(* renames of generateCalcStats then overwrite; formXmlPower writes them  *)
(* as the element's id and name.  A record also has its id's last        *)
(* segment (seg) and the rename generateCalcStats gives it (calc, noc).   *)
(* cpu_name and l1_cache_cpu_name "cpu", itb_name "itb", dtb_name "dtb". *)
(***************************************************************************)
EXTENDS Naturals, Sequences, SequencesExt, FiniteSetsExt, TLC

CONSTANTS Ids,       \* component ids
          Root,      \* "root"
          Rec,       \* id -> [name, seg, type, pim, repl, synth, calc, noc]
          Kids,      \* id -> children in the order cht holds them
          Optional,  \* ids that a configuration may lack
          Has,       \* name -> the rule substrings it contains
          Rank,      \* name -> its position in Python's string order
          None,
          StrReplace(_, _, _)  \* StrReplace(s, old, new) = s.replace(old, new)

VARIABLES present,   \* the ids of cht
          filtered,  \* id -> power_xml_filter
          todo,      \* ids the checkToFilter loop has not visited
          children,  \* id -> self.children
          stack,     \* records formXmlPower has still to emit, next first
          emitted,   \* ids of the <component> elements written so far
          phase,     \* "filter", "emit" or "done"
          re         \* id -> None, or the [id, name] of re_id and re_name
vars == <<present, filtered, todo, children, stack, emitted, phase, re>>

TypeOK ==
  /\ present \subseteq Ids
  /\ filtered \in [Ids -> BOOLEAN]
  /\ todo \subseteq present
  /\ children \in [Ids -> Seq(Ids)]
  /\ stack \in Seq(Ids) /\ emitted \in Seq(Ids)
  /\ phase \in {"filter", "emit", "done"}
  /\ \A i \in Ids : re[i] = None \/ re[i] \in [id : Seq(STRING), name : STRING]

(***************************************************************************)
(* checkToFilter: a FILTER_TYPES type, a TimingSimpleCPU not named        *)
(* cpu_name or inside pim_system, a replacement_policy id, an iocache.    *)
(***************************************************************************)
FilterTypes ==
  {"IsaFake", "SimpleDisk", "Terminal", "Crossbar", "IntrControl", "IdeDisk",
   "ExeTracer", "Tracer", "Bridge", "AtomicSimpleCPU", "FUPool", "BusConn",
   "SetAssociative", "BaseSetAssoc", "SrcClockDomain", "VoltageDomain",
   "X86PagetableWalker", "SnoopFilter"}
ToFilter(r) ==
  \/ r.type \in FilterTypes
  \/ r.type = "TimingSimpleCPU" /\ ("cpu" \notin Has[r.name] \/ r.pim)
  \/ r.repl
  \/ "iocache" \in Has[r.name]

(***************************************************************************)
(* The category lists of formXmlPower as <<filter, unfilter, unfilter2>>: *)
(* a child is in a category when its name contains filter and neither     *)
(* unfilter.  cpu_name "cpu", itb_name "itb", dtb_name "dtb".              *)
(***************************************************************************)
\* Mutant: the l2 category keeps the buses whose name contains "l2".
SystemCatsBus ==
  <<<<"cpu", None, None>>, <<"L1Directory", None, None>>, <<"l2", "Directory", None>>,
    <<"tol2bus", None, None>>, <<"mc", None, None>>, <<"niu", None, None>>,
    <<"pcie", None, None>>, <<"flashc", None, None>>>>
\* Mutant: the L2 caches are listed before the L1 directories.
SystemCatsSwapped ==
  <<<<"cpu", None, None>>, <<"l2", "Directory", "bus">>, <<"L1Directory", None, None>>,
    <<"tol2bus", None, None>>, <<"mc", None, None>>, <<"niu", None, None>>,
    <<"pcie", None, None>>, <<"flashc", None, None>>>>
SystemCats ==
  <<<<"cpu", None, None>>, <<"L1Directory", None, None>>, <<"l2", "Directory", "bus">>,
    <<"tol2bus", None, None>>, <<"mc", None, None>>, <<"niu", None, None>>,
    <<"pcie", None, None>>, <<"flashc", None, None>>>>
CpuCats ==
  <<<<"PBT", None, None>>, <<"itb", None, None>>, <<"icache", None, None>>,
    <<"dtb", None, None>>, <<"dcache", None, None>>, <<"BTB", None, None>>>>

InCat(i, c) ==
  LET h == Has[Rec[i].name] IN
  c[1] \in h /\ (c[2] = None \/ c[2] \notin h) /\ (c[3] = None \/ c[3] \notin h)

\* Mutant: the sorted names are appended instead of the components.
sortComponentListNames(s) ==
  SortSeq([k \in 1..Len(s) |-> Rec[s[k]].name], LAMBDA a, b : Rank[a] < Rank[b])

\* sortComponentList: the names sorted; each looked up in a dict keyed by name,
\* where a later component of the same name has replaced an earlier one.
sortComponentList(s) ==
  LET names == SortSeq([k \in 1..Len(s) |-> Rec[s[k]].name],
                       LAMBDA a, b : Rank[a] < Rank[b])
      last(n) == s[Max({k \in 1..Len(s) : Rec[s[k]].name = n})]
  IN [k \in 1..Len(names) |-> last(names[k])]

Reorder(kids, cats) ==
  FoldLeft(LAMBDA acc, c : acc \o sortComponentList(SelectSeq(kids, LAMBDA i : InCat(i, c))),
           << >>, cats)

\* The children formXmlPower recurses into: rewritten for system and CPUs.
NewChildren(i) ==
  CASE Rec[i].name = "system" -> Reorder(children[i], SystemCats)
    [] Rec[i].type \in {"DerivO3CPU", "TimingSimpleCPU"} -> Reorder(children[i], CpuCats)
    [] OTHER -> children[i]

\* The component whose children parameter lists i.
Par(i) == CHOOSE p \in Ids : \E k \in 1..Len(Kids[p]) : Kids[p][k] = i

\* The id of i as the sequence of its segments (root's children: one).
RECURSIVE Path(_)
Path(i) == IF i = Root \/ Par(i) = Root THEN <<Rec[i].seg>>
           ELSE Path(Par(i)) \o <<Rec[i].seg>>

\* re_id and re_name after the string replacements idRules and nameRules,
\* each <<old, new>>, in order; no old holds a dot, so id.replace acts
\* segment by segment.
Ren(i, idRules, nameRules) ==
  LET apply(s, rules) == FoldLeft(LAMBDA a, r : StrReplace(a, r[1], r[2]), s, rules)
  IN [id |-> [k \in DOMAIN Path(i) |-> apply(Path(i)[k], idRules)],
      name |-> apply(Rec[i].name, nameRules)]

CoreRules == <<<<"cpu", "core">>>>

(***************************************************************************)
(* checkToRenameReid: its three ifs assign in turn, the last that applies *)
(* wins: a name containing cpu_name, an X86TLB named itb_name or          *)
(* dtb_name, a Cache named *icache* or *dcache*.                          *)
(***************************************************************************)
\* Mutant: the dtb branch copied from the itb branch still writes "itlb".
RenameReidDtbItlb(i) ==
  LET r == Rec[i] IN
  CASE r.type = "Cache" /\ {"icache", "dcache"} \cap Has[r.name] # {} -> Ren(i, CoreRules, CoreRules)
    [] r.type = "X86TLB" /\ r.name \in {"itb", "dtb"} ->
         Ren(i, <<<<r.name, "itlb">>, <<"cpu", "core">>>>, <<<<r.name, "itlb">>, <<"cpu", "core">>>>)
    [] "cpu" \in Has[r.name] -> Ren(i, CoreRules, CoreRules)
    [] OTHER -> None

RenameReid(i) ==
  LET r == Rec[i]
      tlb(new) == <<<<r.name, new>>, <<"cpu", "core">>>>
  IN
  CASE r.type = "Cache" /\ {"icache", "dcache"} \cap Has[r.name] # {} -> Ren(i, CoreRules, CoreRules)
    [] r.type = "X86TLB" /\ r.name = "itb" -> Ren(i, tlb("itlb"), tlb("itlb"))
    [] r.type = "X86TLB" /\ r.name = "dtb" -> Ren(i, tlb("dtlb"), tlb("dtlb"))
    [] "cpu" \in Has[r.name] -> Ren(i, CoreRules, CoreRules)
    [] OTHER -> None

(***************************************************************************)
(* The renames generateCalcStats writes: a BTB or predictor it adds gets  *)
(* cpu_name replaced by "core"; an l2 cache every "l" made "L" and "0"    *)
(* appended (cache_number); the n-th matched interconnect its name        *)
(* replaced by "NoC<n>" in the id and "noc<n>" in the name.               *)
(***************************************************************************)
CalcRename(i) ==
  LET r == Rec[i]
      l2 == Ren(i, <<<<"l", "L">>>>, <<<<"l", "L">>>>)
  IN
  CASE r.calc = "core" -> Ren(i, CoreRules, CoreRules)
    [] r.calc = "L2" -> [id |-> [l2.id EXCEPT ![Len(l2.id)] = @ \o "0"], name |-> l2.name \o "0"]
    [] r.calc = "NoC" -> Ren(i, <<<<r.name, "NoC" \o r.noc>>>>, <<<<r.name, "noc" \o r.noc>>>>)

Init ==
  /\ \E absent \in SUBSET Optional : present = Ids \ absent
  /\ filtered = [i \in Ids |-> FALSE]
  /\ todo = {i \in present : ~Rec[i].synth}
  /\ children = [i \in Ids |-> SelectSeq(Kids[i], LAMBDA k : k \in present)]
  /\ stack = <<Root>>
  /\ emitted = << >>
  /\ phase = "filter"
  /\ re = [i \in Ids |-> None]

(***************************************************************************)
(* The loop of checkToFilter and checkToRenameReid over cht: its         *)
(* iterations are independent, so it is one step.  generateCalcStats then *)
(* adds its records with their renames and overwrites the renames of the  *)
(* l2 caches and interconnects; the translation runs, and genPowerXml     *)
(* starts at root.                                                        *)
(***************************************************************************)
FilterLoop ==
  /\ phase = "filter"
  /\ filtered' = [i \in Ids |-> IF i \in todo THEN ToFilter(Rec[i]) ELSE filtered[i]]
  /\ re' = [i \in Ids |-> IF i \in present /\ Rec[i].calc # "none" THEN CalcRename(i)
                         ELSE IF i \in todo THEN RenameReid(i) ELSE re[i]]
  /\ todo' = {}
  /\ phase' = "emit"
  /\ UNCHANGED <<present, children, stack, emitted>>

\* One call of formXmlPower: the record on top of the stack.
FormXmlPower ==
  LET i == Head(stack) IN
  /\ phase = "emit" /\ stack # << >>
  /\ IF filtered[i]
     THEN stack' = Tail(stack) /\ UNCHANGED <<children, emitted>>
     ELSE /\ emitted' = Append(emitted, i)
          /\ children' = [children EXCEPT ![i] = NewChildren(i)]
          /\ stack' = NewChildren(i) \o Tail(stack)
  /\ UNCHANGED <<present, filtered, todo, phase, re>>

EndEmit ==
  /\ phase = "emit" /\ stack = << >>
  /\ phase' = "done"
  /\ UNCHANGED <<present, filtered, todo, children, stack, emitted, re>>

Next ==
  \/ FilterLoop \/ FormXmlPower \/ EndEmit

Spec == Init /\ [][Next]_vars

\* The id attribute formXmlPower writes: re_id when set, else the id.
XmlId(i) == IF re[i] = None THEN Path(i) ELSE re[i].id

(***************************************************************************)
(* Every <component> of power.xml has an id of its own: after the renames *)
(* of checkToRenameReid and generateCalcStats (cpu->core, itb->itlb,      *)
(* dtb->dtlb, l2->L20, tol2bus->NoC0), no two emitted records share the   *)
(* id attribute that McPAT looks components up by.                        *)
(***************************************************************************)
OutputIdsUnique == IsInjective([k \in DOMAIN emitted |-> XmlId(emitted[k])])

SysId == CHOOSE i \in Ids : Rec[i].name = "system"
OrigKids(i) == SelectSeq(Kids[i], LAMBDA k : k \in present)
Pos(i) == CHOOSE k \in 1..Len(emitted) : emitted[k] = i

(***************************************************************************)
(* No record is written twice into power.xml: a child that falls in two   *)
(* categories, or two children sortComponentList cannot tell apart, would *)
(* be emitted (with its whole subtree) more than once.                     *)
(***************************************************************************)
EmittedOnce == IsInjective(emitted)

(***************************************************************************)
(* The order McPAT reads the system's children in: cores, L1 directories, *)
(* L2 caches, NoCs, then mc, niu, pcie and flashc; by gem5 type for the   *)
(* simulated objects, by name for the records generateCalcStats adds.     *)
(***************************************************************************)
McPATSlot(i) ==
  CASE Rec[i].type \in {"DerivO3CPU", "TimingSimpleCPU"} -> 1
    [] Rec[i].name = "L1Directory0" -> 2
    [] Rec[i].type = "Cache" -> 3
    [] Rec[i].type = "CoherentXBar" -> 4
    [] Rec[i].name = "mc" -> 5
    [] Rec[i].name = "niu" -> 6
    [] Rec[i].name = "pcie" -> 7
    [] Rec[i].name = "flashc" -> 8
    [] OTHER -> 9

(***************************************************************************)
(* formXmlPower writes the system's children in McPAT's order, and within *)
(* one slot by name, whatever order cht and generateCalcStats left them.  *)
(***************************************************************************)
SystemChildrenInMcPATOrder ==
  \A a, b \in Range(emitted) \cap Range(OrigKids(SysId)) :
     /\ McPATSlot(a) < McPATSlot(b) => Pos(a) < Pos(b)
     /\ McPATSlot(a) = McPATSlot(b) /\ Rank[Rec[a].name] < Rank[Rec[b].name]
          => Pos(a) < Pos(b)

(***************************************************************************)
(* Spec 4.6: the emitter reorders the children of the system and CPU      *)
(* records.  Every child of an emitted record that checkToFilter did not  *)
(* exclude is itself emitted.                                             *)
(***************************************************************************)
UnfilteredChildrenKept ==
  phase = "done" =>
    \A i \in Range(emitted) : \A k \in Range(OrigKids(i)) :
       ~filtered[k] => k \in Range(emitted)
=============================================================================
