------------------------------ MODULE StatsParse ------------------------------
(***************************************************************************)
(* The stats.txt loop of parseSystemConfig (m5_mcpat_parse.py): each line *)
(* is matched first against the regex of a name starting with system_name *)
(* (name and value groups, then whitespace), whose name is kept as it is, *)
(* then against the regex of any name not starting with pim_system, whose *)
(* name is put under system_name + ".", the later line of a key          *)
(* overwrites an earlier one.  A line is a stat name and a value; of a    *)
(* name the regexes only ask whether it starts with system_name or with   *)
(* pim_system and whether all its characters are in [\w.:], and of a      *)
(* value whether all its characters are in [\w.].  gem5 starts each dump  *)
(* with a "Begin Simulation Statistics" line, whose name (dashes) matches *)
(* neither regex.                                                          *)
(***************************************************************************)
EXTENDS Naturals, Sequences, FiniteSetsExt, TLC

CONSTANTS Names,     \* stat names, and Begin, the first word of a dump's header
          Begin,
          Vals,      \* stat values
          Attr,      \* name -> [sys, pim, word]: starts with system_name /
                     \*   starts with pim_system / only [\w.:] characters
          ValWord,   \* value -> only [\w.] characters
          SysKey,    \* name -> system_name + "." + name
          MaxLines

VARIABLES input,     \* the lines of stats.txt
          pos,       \* the next line the loop reads
          sht        \* stat key -> value
vars == <<input, pos, sht>>

Lines == [name : Names \cup {Begin}, val : Vals]

TypeOK ==
  /\ input \in Seq(Lines) /\ Len(input) <= MaxLines
  /\ pos \in 1..(Len(input) + 1)
  /\ DOMAIN sht \subseteq {n \in Names : Attr[n].sys} \cup
                         {SysKey[n] : n \in {m \in Names : ~Attr[m].pim}}
  /\ \A k \in DOMAIN sht : sht[k] \in Vals

\* The first regex: a name starting with system_name, kept as it is.
SysMatch(l) == l.name # Begin /\ Attr[l.name].sys /\ Attr[l.name].word /\ ValWord[l.val]
\* Mutant: the second regex lacks the (?!pim_system) lookahead.
OtherMatchNoLookahead(l) == l.name # Begin /\ Attr[l.name].word /\ ValWord[l.val]
\* The second regex: any other name not starting with pim_system.
OtherMatch(l) == l.name # Begin /\ ~Attr[l.name].pim /\ Attr[l.name].word /\ ValWord[l.val]

Init ==
  /\ input \in UNION {[1..n -> Lines] : n \in 0..MaxLines}
  /\ input # << >> => input[1].name = Begin
  /\ pos = 1
  /\ sht = << >>

\* Mutant: the first match does not "continue", so the second regex also runs.
ReadStatLineNoContinue ==
  LET l == input[pos] IN
  /\ pos <= Len(input)
  /\ pos' = pos + 1
  /\ sht' = IF OtherMatch(l) THEN (SysKey[l.name] :> l.val) @@
                                  (IF SysMatch(l) THEN (l.name :> l.val) @@ sht ELSE sht)
            ELSE IF SysMatch(l) THEN (l.name :> l.val) @@ sht ELSE sht
  /\ UNCHANGED input

(***************************************************************************)
(* One iteration of "for line in sf".                                     *)
(***************************************************************************)
ReadStatLine ==
  LET l == input[pos] IN
  /\ pos <= Len(input)
  /\ pos' = pos + 1
  /\ sht' = CASE SysMatch(l)   -> (l.name :> l.val) @@ sht
              [] OtherMatch(l) -> (SysKey[l.name] :> l.val) @@ sht
              [] OTHER         -> sht
  /\ UNCHANGED input

Next == ReadStatLine

Spec == Init /\ [][Next]_vars

Finished == pos = Len(input) + 1

(***************************************************************************)
(* The key a line is recorded under, or Begin when it is skipped; the     *)
(* dump a line belongs to is the number of headers up to it.              *)
(***************************************************************************)
KeyOf(l) == CASE SysMatch(l) -> l.name [] OtherMatch(l) -> SysKey[l.name] [] OTHER -> Begin
DumpOf(j) == Cardinality({m \in 1..j : input[m].name = Begin})
LastSetting(k, n) == Max({j \in 1..n : KeyOf(input[j]) = k})

(***************************************************************************)
(* Spec 4.2, read line by line: after the first n lines, sht has exactly  *)
(* the keys of the matched lines, each with the value of the last line of *)
(* that key.  A pim_system line, a name or value the regexes refuse, and  *)
(* the dump headers leave no key.                                          *)
(***************************************************************************)
StatTableExact ==
  LET n == pos - 1
      keys == {KeyOf(input[j]) : j \in 1..n} \ {Begin}
  IN sht = [k \in keys |-> input[LastSetting(k, n)].val]

(***************************************************************************)
(* sht describes one simulation interval: when stats.txt holds several   *)
(* dumps, every value comes from the last one.                            *)
(***************************************************************************)
LastDumpOnly ==
  Finished => \A k \in DOMAIN sht :
                DumpOf(LastSetting(k, Len(input))) = DumpOf(Len(input))
=============================================================================
