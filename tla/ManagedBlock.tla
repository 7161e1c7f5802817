-------------------------- MODULE ManagedBlock --------------------------
(***************************************************************************)
(* integrations/workflow.rs: the managed block in an agent's instruction    *)
(* file.  The GUI and the command line are separate processes: each reads   *)
(* the file, computes the new one and renames it into place, while the user *)
(* edits the same file.                                                     *)
(***************************************************************************)
EXTENDS Integers, Sequences, SequencesExt

CONSTANTS Editors,      \* processes that enable or disable the block
          MaxLines,     \* bound on the lines of the file found at first
          MaxUserEdits  \* bound on the edits of the user

ASSUME BlockAssumption == MaxLines \in Nat /\ MaxUserEdits \in Nat

VARIABLES text,         \* the instruction file, line by line; a missing one is empty
          edit,         \* what every editor read and is about to write
          userEdits     \* edits of the user so far

bvars == <<text, edit, userEdits>>

Line == {"begin", "end", "body", "old", "user", "blank"}
Texts == UNION {[1..n -> Line] : n \in 0..MaxLines}
NoEdit == [op |-> "none", text |-> <<>>]

-----------------------------------------------------------------------------
Positions(t, line) == {i \in DOMAIN t : t[i] = line}

\* marker_state: well formed is one begin and one end, in this order.
MarkerState(t) ==
  CASE Positions(t, "begin") = {} /\ Positions(t, "end") = {} -> "absent"
    [] \E i, j \in DOMAIN t : /\ i < j /\ Positions(t, "begin") = {i}
                             /\ Positions(t, "end") = {j} -> "well_formed"
    [] OTHER -> "malformed"

Before(t) == SubSeq(t, 1, Min(Positions(t, "begin")) - 1)
After(t) == SubSeq(t, Max(Positions(t, "end")) + 1, Len(t))

\* trim_end and the collapsing of blank lines (tidy).
TrimEnd(t) == SubSeq(t, 1, Max({0} \cup (DOMAIN t \ Positions(t, "blank"))))
Collapse(kept, line) ==
  IF line = "blank" /\ kept # <<>> /\ Last(kept) = "blank" THEN kept ELSE Append(kept, line)
Tidy(t) == TrimEnd(FoldLeft(Collapse, <<>>, t))

Block == <<"begin", "body", "end">>

\* upsert_block: the block is replaced where it stands, or added at the end.
Enabled(t) ==
  IF MarkerState(t) = "well_formed" THEN Before(t) \o Block \o After(t)
  ELSE IF TrimEnd(t) = <<>> THEN Block ELSE TrimEnd(t) \o <<"blank">> \o Block

\* Mutant: what follows the block goes with it.
DisabledToEnd(t) == IF MarkerState(t) = "absent" THEN t ELSE Tidy(Before(t))

\* remove_block: the block's line stays as a blank one until it is tidied.
Disabled(t) ==
  IF MarkerState(t) = "absent" THEN t ELSE Tidy(Before(t) \o <<"blank">> \o After(t))

-----------------------------------------------------------------------------
BlockInit == /\ text \in {t \in Texts : \A i \in DOMAIN t : t[i] # "body"}
             /\ edit = [w \in Editors |-> NoEdit] /\ userEdits = 0

\* enable, disable: the file is read; malformed markers are an error and the
\* file stays.
ReadBlock(w) ==
  /\ edit[w].op = "none" /\ MarkerState(text) # "malformed"
  /\ \E op \in {"enable", "disable"} : edit' = [edit EXCEPT ![w] = [op |-> op, text |-> text]]
  /\ UNCHANGED <<text, userEdits>>

\* write_instruction: what was computed from the file that was read replaces
\* the file that is there now, unless nothing was to change.
WriteBlock(w) ==
  /\ edit[w].op # "none"
  /\ LET seen == edit[w].text
         lines == IF edit[w].op = "enable" THEN Enabled(seen) ELSE Disabled(seen)
     IN text' = IF lines = seen THEN text ELSE lines
  /\ edit' = [edit EXCEPT ![w] = NoEdit]
  /\ UNCHANGED userEdits

\* The process ends before the rename: the file is as it was.
AbandonBlock(w) ==
  /\ edit[w].op # "none"
  /\ edit' = [edit EXCEPT ![w] = NoEdit]
  /\ UNCHANGED <<text, userEdits>>

\* The user deletes a line or adds one.
UserEdits ==
  /\ userEdits < MaxUserEdits
  /\ text' \in {Append(text, "user")} \cup {RemoveAt(text, i) : i \in DOMAIN text}
  /\ userEdits' = userEdits + 1
  /\ UNCHANGED edit

BlockNext ==
  \/ UserEdits
  \/ \E w \in Editors : ReadBlock(w) \/ WriteBlock(w) \/ AbandonBlock(w)

-----------------------------------------------------------------------------
BlockTypeOK ==
  /\ text \in Seq(Line) /\ userEdits \in 0..MaxUserEdits
  /\ \A w \in Editors : edit[w].op \in {"enable", "disable", "none"} /\ edit[w].text \in Seq(Line)

\* A line outside the one managed block; every line when there is no such.
Outside(t, i) ==
  \A b, e \in DOMAIN t :
    (\A k \in DOMAIN t : t[k] = "begin" <=> k = b) /\ (\A k \in DOMAIN t : t[k] = "end" <=> k = e)
    => ~(b <= i /\ i <= e)

\* The lines at the positions S, in order: the n-th has n of S up to it.
Selected(t, S) ==
  [n \in 1..Cardinality(S) |-> t[CHOOSE i \in S : Cardinality({k \in S : k <= i}) = n]]
UserLines(t) == Selected(t, {i \in DOMAIN t : t[i] # "blank" /\ Outside(t, i)})

(***************************************************************************)
(* Unless the file was changed after it was read, enabling and disabling    *)
(* keep every line of the user's that is not blank, in order, and leave one *)
(* managed block or none (workflow.rs upsert_block, remove_block).          *)
(***************************************************************************)
UserLinesKept ==
  [][\A w \in Editors :
       edit[w].op # "none" /\ edit'[w].op = "none" /\ text = edit[w].text /\ text' # text
       => UserLines(text') = UserLines(text)
          /\ \A line \in {"begin", "end"} :
               Cardinality({i \in DOMAIN text' : text'[i] = line}) = (IF edit[w].op = "enable" THEN 1 ELSE 0)]_bvars
=============================================================================
