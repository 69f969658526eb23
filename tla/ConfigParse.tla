---------------------------- MODULE ConfigParse ----------------------------
(***************************************************************************)
(* The config.ini reader of parseSystemConfig (m5_mcpat_parse.py).  The    *)
(* file is a sequence of lines; each line is abstracted to what the loop   *)
(* tests of it: a section header "[id]" (contains '[' and ']' and no '='), *)
(* a "key=value" line (contains '='), or any other line (blank line,       *)
(* comment), which the code takes as the end of the current section.       *)
(* Parameter values are left out: only which keys a section owns matters.  *)
(***************************************************************************)
EXTENDS Naturals, Sequences, SequencesExt, TLC

CONSTANTS Ids,       \* section identifiers (component ids)
          Keys,      \* parameter names
          MaxLines,  \* longest config file enumerated
          None       \* "curr_component = None"

ASSUME None \notin Ids /\ MaxLines \in Nat

Header(i) == [kind |-> "header", id |-> i]
Param(k)  == [kind |-> "param", key |-> k]
Other     == [kind |-> "other"]
Lines == {Header(i) : i \in Ids} \cup {Param(k) : k \in Keys} \cup {Other}

VARIABLES input,   \* the config file, fixed for the run
          pos,     \* index of the next line the for loop reads
          curr,    \* curr_component
          params,  \* keys of the params dict being collected
          cht,     \* the component dictionary: id -> keys of its params
          status   \* "reading", "done" or "panic"
vars == <<input, pos, curr, params, cht, status>>

TypeOK ==
  /\ input \in BoundedSeq(Lines, MaxLines)
  /\ pos \in 1..Len(input) + 1
  /\ curr \in Ids \cup {None}
  /\ params \in SUBSET Keys
  /\ DOMAIN cht \subseteq Ids /\ \A i \in DOMAIN cht : cht[i] \subseteq Keys
  /\ status \in {"reading", "done", "panic"}

Line == input[pos]
Reading == status = "reading" /\ pos <= Len(input)
Advance == pos' = pos + 1

Init ==
  /\ input \in BoundedSeq(Lines, MaxLines)
  /\ pos = 1
  /\ curr = None
  /\ params = {}
  /\ cht = << >>
  /\ status = "reading"

\* A header line opens a section; params collected so far are kept.
ReadHeader ==
  /\ Reading
  /\ Line.kind = "header"
  /\ Line.id \notin DOMAIN cht
  /\ curr' = Line.id
  /\ Advance
  /\ UNCHANGED <<input, params, cht, status>>

\* panic("component %s occurs twice!"): only ids already stored are seen.
DuplicateHeader ==
  /\ Reading
  /\ Line.kind = "header"
  /\ Line.id \in DOMAIN cht
  /\ status' = "panic"
  /\ UNCHANGED <<input, pos, curr, params, cht>>

\* len(temp) == 2: params[temp[0]] = temp[1].rstrip()
ReadParam ==
  /\ Reading
  /\ Line.kind = "param"
  /\ curr # None
  /\ params' = params \cup {Line.key}
  /\ Advance
  /\ UNCHANGED <<input, curr, cht, status>>

\* Mutant: the "if curr_component:" guard is dropped from the end of a block.
EndBlockUnguarded ==
  /\ Reading
  /\ Line.kind = "other"
  /\ cht' = (curr :> params) @@ cht
  /\ curr' = None
  /\ params' = {}
  /\ Advance
  /\ UNCHANGED <<input, status>>

\* Mutant: the params dict is not reset when a section ends.
EndBlockKeepParams ==
  /\ Reading
  /\ Line.kind = "other"
  /\ curr # None
  /\ cht' = (curr :> params) @@ cht
  /\ curr' = None
  /\ Advance
  /\ UNCHANGED <<input, params, status>>

\* len(temp) <= 1: the section ends and the component is stored.
EndBlock ==
  /\ Reading
  /\ Line.kind = "other"
  /\ curr # None
  /\ cht' = (curr :> params) @@ cht
  /\ curr' = None
  /\ params' = {}
  /\ Advance
  /\ UNCHANGED <<input, status>>

\* Outside a section ("if curr_component:" fails) a non-header line is skipped.
SkipLine ==
  /\ Reading
  /\ Line.kind # "header"
  /\ curr = None
  /\ Advance
  /\ UNCHANGED <<input, curr, params, cht, status>>

\* cf.close(): the loop ends; a section still open is not stored.
EndOfFile ==
  /\ status = "reading"
  /\ pos = Len(input) + 1
  /\ status' = "done"
  /\ UNCHANGED <<input, pos, curr, params, cht>>

Next ==
  \/ ReadHeader \/ DuplicateHeader \/ ReadParam
  \/ EndBlock \/ SkipLine \/ EndOfFile

Spec == Init /\ [][Next]_vars

(***************************************************************************)
(* The reading of config.ini the spec describes: a section is a header and *)
(* the key=value lines after it, up to the first line that is neither, or  *)
(* the end of the file; an identifier that heads two sections is an error. *)
(***************************************************************************)
HeaderAt(in, j) == in[j].kind = "header"
SectionEnd(in, j) ==
  LET later == {m \in j + 1..Len(in) : in[m].kind # "param"}
  IN IF later = {} THEN Len(in) + 1 ELSE CHOOSE m \in later : \A n \in later : m <= n
SectionKeys(in, j) == {in[m].key : m \in j + 1..SectionEnd(in, j) - 1}
HeaderLines(in) == {j \in 1..Len(in) : HeaderAt(in, j)}
HasDuplicate(in) ==
  \E j1, j2 \in HeaderLines(in) : j1 # j2 /\ in[j1].id = in[j2].id
RefCht(in) ==
  [i \in {in[j].id : j \in HeaderLines(in)} |->
     SectionKeys(in, CHOOSE j \in HeaderLines(in) : in[j].id = i)]

\* The shape gem5 writes config.ini in: every section closed by a blank line.
Sectioned(in) ==
  \A j \in HeaderLines(in) :
     SectionEnd(in, j) <= Len(in) /\ in[SectionEnd(in, j)].kind = "other"

Finished == status # "reading"

(***************************************************************************)
(* For a config.ini in which every section is closed by a blank line, the  *)
(* reader of parseSystemConfig stores exactly the sections of the file,    *)
(* each with its own keys, and panics exactly when an id heads two of them.*)
(***************************************************************************)
SectionedParseExact ==
  Finished /\ Sectioned(input) =>
    IF HasDuplicate(input)
    THEN status = "panic"
    ELSE status = "done" /\ cht = RefCht(input)

(***************************************************************************)
(* Whatever the file, the reader ends with the spec's mapping (each header *)
(* a component with the key=value lines after it) or with the duplicate    *)
(* error when an id repeats.                                               *)
(***************************************************************************)
ParseMatchesSpec ==
  Finished =>
    IF HasDuplicate(input)
    THEN status = "panic"
    ELSE status = "done" /\ cht = RefCht(input)

=============================================================================
