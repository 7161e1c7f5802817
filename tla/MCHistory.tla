------------------------------ MODULE MCHistory ------------------------------
(***************************************************************************)
(* Instances for TLC of the history the daemon keeps and of the requests    *)
(* that reach it.  The four modules share no variable, so a behaviour is    *)
(* one of theirs and the rest stands still at one initial state.  Sweeps    *)
(* run against follow-ups or against leases, not against both at once.      *)
(***************************************************************************)
EXTENDS HistoryRetention, StartRequests, TimelineFeed, ClientCalls, TLC

CONSTANTS t1, b

VARIABLE part           \* the part this behaviour is about

(* Every lease is one of task t1.                                         *)
ScopeT1 == [h \in Holders |-> t1]

Sweeps == {"follow_ups", "leases"}
Topics == Sweeps \cup {"start", "feed", "clients"}

RecordsInit ==
    /\ part \in Topics
    /\ HistoryInit /\ StartInit /\ FeedInit /\ ClientInit
    /\ part # "clients" => serving = "none"

RecordsNext ==
    /\ UNCHANGED part
    /\ \/ part = "follow_ups" /\ HistoryNext /\ UNCHANGED <<holder, svars, fvars, cvars>>
       \/ part = "leases" /\ HistoryNext /\ UNCHANGED <<client, svars, fvars, cvars>>
       \/ part = "start" /\ StartNext /\ UNCHANGED <<hvars, fvars, cvars>>
       \/ part = "feed" /\ FeedNext /\ UNCHANGED <<hvars, svars, cvars>>
       \/ part = "clients" /\ ClientNext /\ UNCHANGED <<hvars, svars, fvars>>

rvars == <<hvars, svars, fvars, cvars, part>>

RecordsSpec == RecordsInit /\ [][RecordsNext]_rvars

(* Retention alone.                                                        *)
RetentionSpec == RecordsInit /\ part \in Sweeps /\ [][RecordsNext]_rvars

(* The variables of the requests stay of their types.                      *)
RequestsTypeOK == part \in Topics /\ StartTypeOK /\ ClientTypeOK
=============================================================================
