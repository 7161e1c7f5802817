---------------------------- MODULE StartRequests ----------------------------
(***************************************************************************)
(* TaskManager::start and its submission ids: a caller that lost the       *)
(* answer repeats the request, others may use the id at the same time, and *)
(* the row that remembers the answer expires (storage/repository.rs).      *)
(* What the accepted task does is TurnLifecycle; that a sweep may delete   *)
(* it is HistoryRetention: the submission row stays.                       *)
(***************************************************************************)
EXTENDS Integers, FiniteSets

CONSTANTS
    Callers,        \* connections that start tasks
    Submissions,    \* submission ids
    Inputs,         \* hashes of task inputs
    SubmissionTTL,  \* SUBMISSION_TTL_MS
    LastTick,       \* bound on the clock
    MaxAnswers      \* bound on the answers

ASSUME StartAssumption ==
    /\ Submissions # {} /\ Inputs # {}
    /\ SubmissionTTL \in Nat /\ LastTick \in Nat /\ MaxAnswers \in Nat

VARIABLES
    clock,          \* the time
    submissions,    \* [present ids -> SubmissionRow]
    asking,         \* [Callers -> start request]
    answers         \* history: the results callers were given

svars == <<clock, submissions, asking, answers>>

-----------------------------------------------------------------------------
Ticks == 0..LastTick

(* Accepted tasks are numbered, for ids that are new_id()s.                *)
Task == 1..MaxAnswers
FreshTask == 1 + Cardinality({a.task : a \in answers})

SubmissionRow == [input : Inputs, task : Task, expires : Nat]
Answer == [sub : Submissions, input : Inputs, task : Task, expires : Nat, at : Ticks]

Asking == [sub : Submissions, input : Inputs, at : Ticks, pc : {"idle", "accepting"}]

NotAsking == [sub |-> CHOOSE s \in Submissions : TRUE,
              input |-> CHOOSE i \in Inputs : TRUE, at |-> 0, pc |-> "idle"]

StartInit ==
    /\ clock = 0
    /\ submissions = [s \in {} |-> s]
    /\ asking = [c \in Callers |-> NotAsking]
    /\ answers = {}

Elapse == /\ clock < LastTick
          /\ clock' = clock + 1
          /\ UNCHANGED <<submissions, asking, answers>>

Reply(s, i, row) ==
    /\ Cardinality(answers) < MaxAnswers
    /\ answers' = answers \cup {[sub |-> s, input |-> i, task |-> row.task,
                                 expires |-> row.expires, at |-> clock]}

(* Mutant: the input hash is not compared.                                 *)
AnswerAnyInput(c, s, i) ==
    /\ asking[c].pc = "idle" /\ s \in DOMAIN submissions
    /\ Reply(s, i, submissions[s])
    /\ UNCHANGED <<clock, submissions, asking>>

(* get_submission finds the id: the same input is answered with the result of
   the first start; for another one the request is refused.                *)
AnswerKnown(c, s, i) ==
    /\ asking[c].pc = "idle" /\ s \in DOMAIN submissions
    /\ submissions[s].input = i
    /\ Reply(s, i, submissions[s])
    /\ UNCHANGED <<clock, submissions, asking>>

(* get_submission does not know the id: the rows are made, with this time. *)
Look(c, s, i) ==
    /\ asking[c].pc = "idle" /\ s \notin DOMAIN submissions
    /\ asking' = [asking EXCEPT ![c] = [sub |-> s, input |-> i, at |-> clock,
                                        pc |-> "accepting"]]
    /\ UNCHANGED <<clock, submissions, answers>>

Forget(c) == asking' = [asking EXCEPT ![c] = NotAsking]

Row(c) == [input |-> asking[c].input, task |-> FreshTask,
           expires |-> asking[c].at + SubmissionTTL]

Insert(c) ==
    /\ submissions' = [s \in DOMAIN submissions \cup {asking[c].sub} |->
                          IF s = asking[c].sub THEN Row(c) ELSE submissions[s]]
    /\ Reply(asking[c].sub, asking[c].input, Row(c))

(* Mutant: a submission row is replaced.                                   *)
AcceptReplacing(c) ==
    /\ asking[c].pc = "accepting"
    /\ Insert(c)
    /\ Forget(c)
    /\ UNCHANGED clock

(* accept_start_submission: task, turn and submission in one transaction,
   which the primary key of submissions undoes when the id has been taken
   meanwhile: the caller is given an error.                                *)
Accept(c) ==
    /\ asking[c].pc = "accepting"
    /\ IF asking[c].sub \in DOMAIN submissions
       THEN UNCHANGED <<submissions, answers>>
       ELSE Insert(c)
    /\ Forget(c)
    /\ UNCHANGED clock

(* purge_expired_submissions.                                              *)
Purge ==
    /\ submissions' = [s \in {x \in DOMAIN submissions : submissions[x].expires >= clock} |->
                          submissions[s]]
    /\ UNCHANGED <<clock, asking, answers>>

(* The daemon dies: requests that were not accepted are lost.              *)
DaemonDies ==
    /\ asking' = [c \in Callers |-> NotAsking]
    /\ UNCHANGED <<clock, submissions, answers>>

StartNext ==
    \/ Elapse \/ Purge \/ DaemonDies
    \/ \E c \in Callers :
          \/ Accept(c)
          \/ \E s \in Submissions, i \in Inputs : AnswerKnown(c, s, i) \/ Look(c, s, i)

StartSpec == StartInit /\ [][StartNext]_svars

-----------------------------------------------------------------------------
(* Safety.                                                                 *)

StartTypeOK ==
    /\ clock \in Ticks
    /\ DOMAIN submissions \subseteq Submissions
    /\ \A s \in DOMAIN submissions : submissions[s] \in SubmissionRow
    /\ asking \in [Callers -> Asking]
    /\ answers \subseteq Answer

(* All callers that use a submission id are told of one task, however they
   race, repeat or find the daemon restarted: two tasks of one id only when
   the answer about the first had expired before the second was accepted
   (get_submission, accept_start_submission).                              *)
OneTaskPerSubmission ==
    \A x, y \in answers :
        x.sub = y.sub /\ x.task # y.task => x.expires < y.at \/ y.expires < x.at

(* Nobody is told of a task that runs another input than the one asked for
   (input_hash, "submissionId reused with different task input").          *)
AnsweredAsAsked ==
    \A x, y \in answers : x.task = y.task => x.input = y.input
=============================================================================
