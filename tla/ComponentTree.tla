--------------------------- MODULE ComponentTree ---------------------------
(***************************************************************************)
(* The first two loops of createComponentTree (m5_mcpat_parse.py): link    *)
(* every component to the children its "children" parameter names, then   *)
(* attach every statistic key of sht to a component by searching its      *)
(* dot-prefixes from the longest down.  An id or a key is the sequence of  *)
(* its dot-separated segments; both dictionaries are walked in any order.  *)
(***************************************************************************)
EXTENDS Naturals, Sequences, SequencesExt

CONSTANTS Root,      \* the id "root"
          Skipped,   \* "pim_system", skipped among root's children
          Ghost,     \* a child token naming no component
          None,
          IdSets,    \* the sets of component ids cht may hold
          KeySets    \* the sets of statistic keys sht may hold

VARIABLES ids,       \* the keys of cht
          declared,  \* id -> tokens of params['children'] ({} when absent)
          children,  \* id -> the ids appended to component.children
          linkTodo,  \* components the linking loop has not visited
          keysTodo,  \* statistic keys the attach loop has not visited
          cur,       \* the key being attached, or None
          x,         \* the loop variable of "for x in xrange(num_fields, 0, -1)"
          stats,     \* id -> names in component.statistics
          phase      \* "link", "attach", "done" or "panic"
vars == <<ids, declared, children, linkTodo, keysTodo, cur, x, stats, phase>>

TypeOK ==
  /\ ids \in IdSets
  /\ declared \in [ids -> SUBSET STRING]
  /\ \A i \in ids : children[i] \subseteq ids /\ stats[i] \subseteq Seq(STRING)
  /\ linkTodo \subseteq ids
  /\ cur = None \/ cur \in Seq(STRING)
  /\ x \in Nat
  /\ phase \in {"link", "attach", "done", "panic"}

Parent(j) == IF Len(j) = 1 THEN Root ELSE Front(j)
\* The children tokens config.ini lists for component i.
Tokens(i) == {Last(j) : j \in {j \in ids \ {Root} : Parent(j) = i}}

Init ==
  /\ ids \in IdSets
  /\ \E dangling \in ids \cup {None}, pim \in BOOLEAN :
       declared = [i \in ids |-> Tokens(i)
                                 \cup (IF i = dangling THEN {Ghost} ELSE {})
                                 \cup (IF i = Root /\ pim THEN {Skipped} ELSE {})]
  /\ children = [i \in ids |-> {}]
  /\ linkTodo = {i \in ids : declared[i] # {}}
  /\ keysTodo \in KeySets
  /\ cur = None
  /\ x = 0
  /\ stats = [i \in ids |-> {}]
  /\ phase = "link"

(***************************************************************************)
(* One component with a children parameter: each token is resolved to      *)
(* "<id>.<token>" (the bare token under root, where "pim_system" is        *)
(* skipped); panic("child id %s does not exist!") on the first unknown one.*)
(***************************************************************************)
ChildIdOf(i, t) == IF i = Root THEN <<t>> ELSE i \o <<t>>
\* Mutant: root's "pim_system" token is not skipped.
LinkTokensNoSkip(i) == declared[i]
LinkTokens(i) == {t \in declared[i] : i # Root \/ t # Skipped}

LinkComponent(i) ==
  /\ phase = "link" /\ i \in linkTodo
  /\ IF \A t \in LinkTokens(i) : ChildIdOf(i, t) \in ids
     THEN /\ children' = [children EXCEPT ![i] = {ChildIdOf(i, t) : t \in LinkTokens(i)}]
          /\ linkTodo' = linkTodo \ {i}
          /\ UNCHANGED phase
     ELSE phase' = "panic" /\ UNCHANGED <<children, linkTodo>>
  /\ UNCHANGED <<ids, declared, keysTodo, cur, x, stats>>

EndLink ==
  /\ phase = "link" /\ linkTodo = {}
  /\ phase' = "attach"
  /\ UNCHANGED <<ids, declared, children, linkTodo, keysTodo, cur, x, stats>>

\* temp = key.split('.'); the search starts at the whole key.
BeginKey(k) ==
  /\ phase = "attach" /\ cur = None /\ k \in keysTodo
  /\ cur' = k
  /\ x' = Len(k)
  /\ keysTodo' = keysTodo \ {k}
  /\ UNCHANGED <<ids, declared, children, linkTodo, stats, phase>>

Prefix == SubSeq(cur, 1, x)

\* Mutant: the search loop runs past its last prefix (no x > 1 bound).
SearchShorterUnbounded ==
  /\ phase = "attach" /\ cur # None
  /\ Prefix \notin ids
  /\ x' = x - 1
  /\ UNCHANGED <<ids, declared, children, linkTodo, keysTodo, cur, stats, phase>>

\* prefix_id is not a component id and x > 1: next iteration.
SearchShorter ==
  /\ phase = "attach" /\ cur # None
  /\ Prefix \notin ids /\ x > 1
  /\ x' = x - 1
  /\ UNCHANGED <<ids, declared, children, linkTodo, keysTodo, cur, stats, phase>>

\* Mutant: a statistic moved to root keeps the stat_id (no genId(temp)).
PlaceStatRootShort ==
  LET statId == SubSeq(cur, x + 1, Len(cur))
      owner  == IF Prefix \in ids THEN Prefix ELSE Root
  IN
  /\ phase = "attach" /\ cur # None
  /\ Prefix \in ids \/ x = 1
  /\ IF statId = << >>
     THEN phase' = "panic" /\ UNCHANGED <<stats, cur>>
     ELSE /\ stats' = [stats EXCEPT ![owner] = @ \cup {statId}]
          /\ cur' = None
          /\ UNCHANGED phase
  /\ UNCHANGED <<ids, declared, children, linkTodo, keysTodo, x>>

(***************************************************************************)
(* The loop has ended (break, or x = 1): stat_id is the rest of the key;   *)
(* an empty one is panic("parsed invalid stat"); when prefix_id is still   *)
(* no component the statistic goes to root under the whole key.            *)
(***************************************************************************)
PlaceStat ==
  LET statId == SubSeq(cur, x + 1, Len(cur))
      owner  == IF Prefix \in ids THEN Prefix ELSE Root
      name   == IF Prefix \in ids THEN statId ELSE cur
  IN
  /\ phase = "attach" /\ cur # None
  /\ Prefix \in ids \/ x = 1
  /\ IF statId = << >>
     THEN phase' = "panic" /\ UNCHANGED <<stats, cur>>
     ELSE /\ stats' = [stats EXCEPT ![owner] = @ \cup {name}]
          /\ cur' = None
          /\ UNCHANGED phase
  /\ UNCHANGED <<ids, declared, children, linkTodo, keysTodo, x>>

EndAttach ==
  /\ phase = "attach" /\ cur = None /\ keysTodo = {}
  /\ phase' = "done"
  /\ UNCHANGED <<ids, declared, children, linkTodo, keysTodo, cur, x, stats>>

Next ==
  \/ \E i \in ids : LinkComponent(i)
  \/ EndLink
  \/ \E k \in keysTodo : BeginKey(k)
  \/ SearchShorter \/ PlaceStat \/ EndAttach

Spec == Init /\ [][Next]_vars

(***************************************************************************)
(* Refinement: while the linking loop runs the abstract tree is not linked *)
(* yet; a key the search loop holds is still pending.                      *)
(***************************************************************************)
Abs == INSTANCE ComponentTreeSpec WITH
         children <- IF phase = "link" \/ linkTodo # {}
                     THEN [i \in ids |-> {}] ELSE children,
         pending  <- keysTodo \cup (IF cur = None THEN {} ELSE {cur})

(***************************************************************************)
(* The linking loop and the prefix search of createComponentTree implement *)
(* the tree builder of the spec: the same children, and every statistic on *)
(* the component with the longest matching id, or on root.                 *)
(***************************************************************************)
TreeBuilderRefinesSpec == Abs!Spec
=============================================================================
