-------------------------- MODULE MCComponentTree --------------------------
EXTENDS ComponentTree, FiniteSetsExt

MCRoot == <<"root">>
Sys    == <<"system">>
\* Segments: the system name, a segment that only starts with it, a child.
Seg == {"system", "systemX", "cpu"}

\* cht always holds root and the system; the other ids are prefix-closed,
\* as in every config.ini gem5 writes.
OtherIds == {<<"system", "cpu">>, <<"system", "cpu", "cpu">>, <<"systemX">>}
MCIdSets ==
  {{MCRoot, Sys} \cup S :
     S \in {S \in SUBSET OtherIds :
              \A j \in S : Len(j) = 1 \/ Front(j) \in S \cup {Sys}}}

\* Statistic keys of two or three segments (every name in stats.txt holds
\* a dot once the stats reader has prefixed "system."), one or two keys per run.
KeyUniverse == UNION {[1..n -> Seg] : n \in 2..3}
MCKeySets == {{a, b} : a, b \in KeyUniverse}
=============================================================================
