------------------------------ MODULE StatsTree ------------------------------
(***************************************************************************)
(* run and parseSystemConfig from the stats.txt loop on                   *)
(* (m5_mcpat_parse.py): run checks that both input files exist, the stats *)
(* loop fills sht (StatsParse), createComponentTree links the components  *)
(* and attaches every key of sht (ComponentTree), and genComponentXml      *)
(* writes summary.xml from root by formXml.  The two components are       *)
(* instances whose variables are the variables of this module; stage      *)
(* orders them as the calls do.  The filter loop and generateCalcStats,   *)
(* which createComponentTree runs after its two loops, only add records   *)
(* and statistics (CalcStats, PowerXml model them) and are left out here. *)
(* summary.xml is the sequence of its component elements in document      *)
(* order, each its id, its depth below root and its stat names.          *)
(***************************************************************************)
EXTENDS Naturals, Sequences, SequencesExt

CONSTANTS Names, Begin, Vals, Attr, ValWord, SysKey, MaxLines,  \* StatsParse
          Root, Skipped, Ghost, None, IdSets,                   \* ComponentTree
          Split      \* stat key -> key.split('.')

VARIABLES input, pos, sht,
          ids, declared, children, linkTodo, keysTodo, cur, x, stats, phase,
          files,     \* [stats, config]: os.path.isfile of the two inputs
          stage,     \* "run", "stats", "tree", "xml", "done" or "panic"
          stack,     \* <<id, depth>> of the formXml calls still to run, next first
          summary    \* the component elements written to summary.xml
statsVars == <<input, pos, sht>>
treeVars == <<ids, declared, children, linkTodo, keysTodo, cur, x, stats, phase>>
xmlVars == <<stack, summary>>
vars == <<statsVars, treeVars, files, stage, xmlVars>>

Stats == INSTANCE StatsParse
\* The tree builder starts with no keys; they are handed over from sht.
Tree == INSTANCE ComponentTree WITH KeySets <- {{}}

Init ==
  /\ Stats!Init /\ Tree!Init
  /\ files \in [stats : BOOLEAN, config : BOOLEAN]
  /\ stage = "run"
  /\ stack = << >> /\ summary = << >>

\* run: panic when a file is missing, else parseSystemConfig.
Run ==
  /\ stage = "run"
  /\ stage' = IF files.stats /\ files.config THEN "stats" ELSE "panic"
  /\ UNCHANGED <<statsVars, treeVars, files, xmlVars>>

ReadStatLine ==
  /\ stage = "stats"
  /\ Stats!ReadStatLine
  /\ UNCHANGED <<treeVars, files, stage, xmlVars>>

\* sf.close(); createComponentTree(cht, sht, options): the keys of sht.
CreateComponentTree ==
  /\ stage = "stats" /\ Stats!Finished
  /\ stage' = "tree"
  /\ keysTodo' = {Split[k] : k \in DOMAIN sht}
  /\ UNCHANGED <<statsVars, ids, declared, children, linkTodo, cur, x, stats, phase, files, xmlVars>>

TreeStep ==
  /\ stage = "tree"
  /\ Tree!Next
  /\ UNCHANGED <<statsVars, files, stage, xmlVars>>

\* genComponentXml(cht['root'], ...) once createComponentTree has returned.
GenComponentXml ==
  /\ stage = "tree" /\ phase = "done"
  /\ stage' = "xml"
  /\ stack' = << <<Root, 0>> >>
  /\ UNCHANGED <<statsVars, treeVars, files, summary>>

(***************************************************************************)
(* One call of formXml: the component element with its stat names, then  *)
(* a call for every child, in the order of self.children.                 *)
(***************************************************************************)
FormXml ==
  LET i    == Head(stack)[1]
      d    == Head(stack)[2]
      kids == SetToSeq(children[i])
  IN /\ stage = "xml" /\ stack # << >>
     /\ summary' = Append(summary, [id |-> i, depth |-> d, stats |-> stats[i]])
     /\ stack' = [k \in 1..Len(kids) |-> <<kids[k], d + 1>>] \o Tail(stack)
     /\ UNCHANGED <<statsVars, treeVars, files, stage>>

EndXml ==
  /\ stage = "xml" /\ stack = << >>
  /\ stage' = "done"
  /\ UNCHANGED <<statsVars, treeVars, files, xmlVars>>

Next ==
  \/ Run \/ ReadStatLine \/ CreateComponentTree \/ TreeStep
  \/ GenComponentXml \/ FormXml \/ EndXml

Spec == Init /\ [][Next]_vars


TypeOK ==
  /\ Stats!TypeOK /\ Tree!TypeOK
  /\ stage \in {"run", "stats", "tree", "xml", "done", "panic"}
  /\ \A j \in 1..Len(summary) : summary[j].id \in ids /\ summary[j].depth \in Nat

(***************************************************************************)
(* The stats loop, as in StatsParse: after the lines read so far, sht has *)
(* exactly the keys of the matched lines, each with its last value.       *)
(***************************************************************************)
StatTableExact == Stats!StatTableExact

(***************************************************************************)
(* The keys the stats loop will have put in sht once it has read the whole *)
(* file, which is fixed from the start.                                    *)
(***************************************************************************)
FinalKeys == {Split[k] : k \in {Stats!KeyOf(input[j]) : j \in 1..Len(input)} \ {Begin}}

AbsTree == INSTANCE ComponentTreeSpec WITH
             children <- IF phase = "link" \/ linkTodo # {}
                         THEN [i \in ids |-> {}] ELSE children,
             pending  <- IF stage \in {"run", "stats", "panic"} THEN FinalKeys
                         ELSE keysTodo \cup (IF cur = None THEN {} ELSE {cur})

(***************************************************************************)
(* Fed by the stats loop, createComponentTree is still the tree builder of *)
(* the spec: the keys it attaches are exactly the stat keys of stats.txt,  *)
(* none lost or added on the way from the loop to the builder.            *)
(***************************************************************************)
StatsTreeRefinesSpec == AbsTree!Spec

\* Element e of summary.xml holds key: under root the whole key, elsewhere
\* the rest of the key after e's id.
Holds(e, key) == \E n \in e.stats : IF e.id = Root THEN n = key ELSE e.id \o n = key

(***************************************************************************)
(* Every statistic sht read from stats.txt is written to summary.xml once, *)
(* in the element of the component with the longest id that prefixes it   *)
(* (root when none does), for parse_result.py to find it there.           *)
(***************************************************************************)
SummaryHoldsEveryStat ==
  stage = "done" =>
    \A k \in DOMAIN sht :
      LET holders == {j \in 1..Len(summary) : Holds(summary[j], Split[k])}
      IN /\ holders # {}
         /\ \A j1, j2 \in holders : j1 = j2
         /\ \A j \in holders : summary[j].id = AbsTree!Owner(Split[k])

=============================================================================
