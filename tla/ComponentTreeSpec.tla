------------------------- MODULE ComponentTreeSpec -------------------------
(***************************************************************************)
(* What the tree builder promises (spec section 4.3), with no loop inside: *)
(* linking is one step that either resolves every declared child or fails, *)
(* and each statistic key goes in one step to the component with the       *)
(* longest id that is a prefix of it, under the rest of the key, or to     *)
(* root under the whole key when no prefix is a component.  A key whose    *)
(* longest matching prefix is the whole key leaves no statistic name: the  *)
(* builder stops with an error.                                            *)
(***************************************************************************)
EXTENDS Naturals, Sequences, SequencesExt

CONSTANTS Root,      \* the id "root"
          Skipped    \* the root child token "pim_system", never linked

VARIABLES ids,       \* component ids (sequences of dot-separated segments)
          declared,  \* id -> the tokens of its "children" parameter
          children,  \* id -> the ids linked under it
          pending,   \* statistic keys not yet attached
          stats,     \* id -> the statistic names attached to it
          phase      \* "link", "attach", "done" or "panic"
vars == <<ids, declared, children, pending, stats, phase>>

ChildId(i, t) == IF i = Root THEN <<t>> ELSE i \o <<t>>
Resolvable(i) == \A t \in declared[i] \ {Skipped} : ChildId(i, t) \in ids
LinkedUnder(i) ==
  {ChildId(i, t) : t \in {u \in declared[i] : i # Root \/ u # Skipped}}

MatchLengths(k) == {x \in 1..Len(k) : SubSeq(k, 1, x) \in ids}
Longest(k) == CHOOSE x \in MatchLengths(k) : \A y \in MatchLengths(k) : y <= x
Owner(k) == IF MatchLengths(k) = {} THEN Root ELSE SubSeq(k, 1, Longest(k))
StatName(k) == IF MatchLengths(k) = {} THEN k ELSE SubSeq(k, Longest(k) + 1, Len(k))

Link ==
  /\ phase = "link"
  /\ \A i \in DOMAIN declared : Resolvable(i)
  /\ children' = [i \in ids |-> LinkedUnder(i)]
  /\ phase' = "attach"
  /\ UNCHANGED <<ids, declared, pending, stats>>

LinkFail ==
  /\ phase = "link"
  /\ \E i \in DOMAIN declared : ~Resolvable(i)
  /\ phase' = "panic"
  /\ UNCHANGED <<ids, declared, children, pending, stats>>

Attach(k) ==
  /\ phase = "attach" /\ k \in pending
  /\ StatName(k) # << >>
  /\ stats' = [stats EXCEPT ![Owner(k)] = @ \cup {StatName(k)}]
  /\ pending' = pending \ {k}
  /\ UNCHANGED <<ids, declared, children, phase>>

AttachFail(k) ==
  /\ phase = "attach" /\ k \in pending
  /\ StatName(k) = << >>
  /\ phase' = "panic"
  /\ UNCHANGED <<ids, declared, children, pending, stats>>

Finish ==
  /\ phase = "attach" /\ pending = {}
  /\ phase' = "done"
  /\ UNCHANGED <<ids, declared, children, pending, stats>>

Next ==
  \/ Link \/ LinkFail \/ Finish
  \/ \E k \in pending : Attach(k) \/ AttachFail(k)

\* Any components, declarations and keys; nothing linked or attached yet.
Init ==
  /\ Root \in ids
  /\ DOMAIN declared \subseteq ids
  /\ children = [i \in ids |-> {}]
  /\ stats = [i \in ids |-> {}]
  /\ phase = "link"

Spec == Init /\ [][Next]_vars
=============================================================================
