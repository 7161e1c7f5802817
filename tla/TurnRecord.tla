----------------------------- MODULE TurnRecord -----------------------------
(***************************************************************************)
(* What the daemon promises about the result of a turn, without threads,   *)
(* rows or agents: an accepted turn is open until a result is recorded;    *)
(* while finalizers compete the recorded value may still be replaced; from *)
(* the moment it is settled it is the turn's result for good.              *)
(***************************************************************************)
CONSTANTS Turns, Outcome, None

VARIABLE record     \* [Turns -> Record]

Phase == {"absent", "open", "contested", "settled"}
Record == [phase : Phase, value : Outcome \cup {None}]

Open == [phase |-> "open", value |-> None]

Init == record = [u \in Turns |-> [phase |-> "absent", value |-> None]]

(* One turn's move: stay, be accepted, or have an outcome recorded while it
   is not settled. A contested turn settles with whatever value it has.    *)
Move(r, s) ==
    \/ s = r
    \/ r.phase = "absent" /\ s = Open
    \/ /\ r.phase \in {"open", "contested"}
       /\ s.phase \in {"contested", "settled"}
       /\ s.value \in Outcome

(* The death of the daemon can settle several contested turns in one step. *)
Next ==
    /\ record' \in [Turns -> Record]
    /\ \A u \in Turns : Move(record[u], record'[u])

Spec == Init /\ [][Next]_record
=============================================================================
