---------------------------- MODULE ClientCalls ----------------------------
(***************************************************************************)
(* The programs that ask the daemon: the commands of cli/mod.rs, each a     *)
(* process that ends with an exit code, and the MCP server of mcp/mod.rs,   *)
(* one thread that reads a line, does it and answers it before it reads the *)
(* next.  Both send a request with request_blocking of ipc/client.rs, which *)
(* starts a daemon when none runs and says hello again, up to MaxHellos     *)
(* times, when the daemon gives way to another binary.  The programs need   *)
(* not come from one binary, and a daemon may end at any step.              *)
(***************************************************************************)
EXTENDS Integers, Sequences, FiniteSets, SequencesExt

CONSTANTS Shells,       \* commands that are typed
          Mcp,          \* the MCP server
          Newer,        \* the programs among them built from the newer binary
          MaxHellos,    \* HELLO_RETRY_ATTEMPTS, 8 in the code
          MaxRequests      \* bound on the lines the MCP server is sent

ASSUME CallAssumption == Mcp \notin Shells /\ MaxHellos \in Nat \ {0} /\ MaxRequests \in Nat

VARIABLES serving,      \* the daemon: none, or the binary it was started from
          giving,       \* is it giving way after a hello of another binary?
          call,         \* the call every program is at
          stdio          \* what was written to the MCP server and what it answered

cvars == <<serving, giving, call, stdio>>

Programs == Shells \cup {Mcp}
Binary(c) == IF c \in Newer THEN "newer" ELSE "older"

CallPc == {"idle", "ensuring", "dialing", "restarting", "sent", "working", "answered",
           "eof", "ended"}

\* run and wait, whose result may be a failed turn, and what is answered at
\* once: start, status, cancel, list and show.
ShellOps == {"run", "wait", "query"}
McpOps == ShellOps \cup {"continue"}
Outcomes == {"none", "ok", "failed", "timed_out", "error", "daemon_error"}
Codes == {"none", "0", "1", "2", "3"}

\* A line that is no request, one that has an id but gets no answer, one the
\* server answers by itself, or a tool call.
Lines == {"noise", "initialized", "local", "refused"} \cup McpOps

CallRow == [pc: CallPc, op: McpOps, json: BOOLEAN, step: 1..2, hellos: 0..MaxHellos,
            handled: 0..2, outcome: Outcomes, code: Codes]
NoCall == [pc |-> "idle", op |-> "query", json |-> FALSE, step |-> 1, hellos |-> 0,
           handled |-> 0, outcome |-> "none", code |-> "none"]

ClientInit ==
  /\ serving \in {"none", "older", "newer"} /\ giving = FALSE
  /\ call = [c \in Programs |-> NoCall]
  /\ stdio = [lines |-> <<>>, answers |-> <<>>]

SetCall(c, row) == call' = [call EXCEPT ![c] = row]
CallAt(c, pc) == call[c].pc = pc

\* MCP's continue is a task.continue and then a task.wait.
LastStep(op) == IF op = "continue" THEN 2 ELSE 1

-----------------------------------------------------------------------------
(* A call begins *)

\* Arguments are checked before anything is asked of the daemon.
TypeCommand(c) ==
  /\ c # Mcp /\ CallAt(c, "idle")
  /\ \E op \in ShellOps, json \in BOOLEAN :
       \/ SetCall(c, [NoCall EXCEPT !.pc = "ended", !.op = op, !.json = json, !.code = "1"])
       \/ SetCall(c, [NoCall EXCEPT !.pc = "ensuring", !.op = op, !.json = json])
  /\ UNCHANGED <<serving, giving, stdio>>

\* run_stdio reads a line; blank lines, lines that do not parse and
\* notifications, those of a cancelled request included, are passed over.
ReadLine ==
  /\ CallAt(Mcp, "idle") /\ Len(stdio.lines) < MaxRequests
  /\ \E line \in Lines :
       /\ stdio' = [lines |-> Append(stdio.lines, line),
                   answers |-> CASE line = "local" -> Append(stdio.answers, "result")
                                 [] line = "refused" -> Append(stdio.answers, "error")
                                 [] OTHER -> stdio.answers]
       /\ IF line \in McpOps
          THEN SetCall(Mcp, [NoCall EXCEPT !.pc = "ensuring", !.op = line])
          ELSE UNCHANGED call
  /\ UNCHANGED <<serving, giving>>

\* The host closes stdin: seen when the server would read, not before.
StdinEnds ==
  /\ CallAt(Mcp, "idle") /\ SetCall(Mcp, [NoCall EXCEPT !.pc = "ended", !.code = "0"])
  /\ UNCHANGED <<serving, giving, stdio>>

-----------------------------------------------------------------------------
(* request_blocking *)

GiveUp(c) == SetCall(c, [call[c] EXCEPT !.pc = "answered", !.outcome = "daemon_error"])

\* ensure_daemon: a daemon that does not come up in time is no error yet.
EnsureDaemon(c) ==
  /\ CallAt(c, "ensuring")
  /\ \/ /\ serving' \in (IF serving = "none" THEN {"none", Binary(c)} ELSE {serving})
        /\ SetCall(c, [call[c] EXCEPT !.pc = "dialing"])
     \/ GiveUp(c) /\ UNCHANGED serving
  /\ UNCHANGED <<giving, stdio>>

\* request_async connects and says hello; the request follows only a hello
\* that was accepted.
SayHello(c) ==
  /\ CallAt(c, "dialing")
  /\ \/ /\ serving = Binary(c) /\ ~giving
        /\ SetCall(c, [call[c] EXCEPT !.pc = "sent"])
        /\ UNCHANGED giving
     \/ /\ serving \notin {"none", Binary(c)} /\ ~giving
        /\ SetCall(c, [call[c] EXCEPT !.pc = "restarting"])
        /\ giving' = TRUE
     \/ /\ serving = "none" \/ giving
        /\ GiveUp(c) /\ UNCHANGED giving
  /\ UNCHANGED <<serving, stdio>>

\* What the death of the daemon does to the calls in its hands.
Cut(rows) ==
  [c \in Programs |-> IF rows[c].pc \in {"sent", "working"}
                      THEN [rows[c] EXCEPT !.pc = "eof"] ELSE rows[c]]

\* Mutant: one hello too many.
HellosSpentLate(n) == n > MaxHellos
HellosSpent(n) == n = MaxHellos

\* daemon::restart stops the daemon that runs by now, whoever started it, and
\* starts one; whether that worked is not looked at.
RestartDaemon(c) ==
  /\ CallAt(c, "restarting")
  /\ LET hellos == call[c].hellos + 1
         row == [call[c] EXCEPT !.hellos = hellos,
                   !.pc = IF HellosSpent(hellos) THEN "answered" ELSE "ensuring",
                   !.outcome = IF HellosSpent(hellos) THEN "daemon_error" ELSE @]
     IN \/ call' = [Cut(call) EXCEPT ![c] = row] /\ serving' \in {"none", Binary(c)} /\ giving' = FALSE
        \/ SetCall(c, row) /\ UNCHANGED <<serving, giving>>
  /\ UNCHANGED stdio

\* serve_client dispatches the request ...
HandleRequest(c) ==
  /\ CallAt(c, "sent")
  /\ SetCall(c, [call[c] EXCEPT !.pc = "working", !.handled = @ + 1])
  /\ UNCHANGED <<serving, giving, stdio>>

\* ... and responds: a run and a wait with the result of the turn.
Respond(c) ==
  /\ CallAt(c, "working")
  /\ \E outcome \in {"ok", "failed", "timed_out", "error"} :
       /\ outcome = "failed" => call[c].op \in {"run", "wait", "continue"}
       /\ outcome = "timed_out" => call[c].op \in {"wait", "continue"}
       /\ outcome \in {"failed", "timed_out"} => call[c].step = LastStep(call[c].op)
       /\ SetCall(c, [call[c] EXCEPT !.pc = "answered", !.outcome = outcome])
  /\ UNCHANGED <<serving, giving, stdio>>

\* Mutant: an answer that does not come is asked for once more.
AskAgain(c) ==
  /\ CallAt(c, "eof")
  /\ SetCall(c, [call[c] EXCEPT !.pc = IF call[c].hellos = 0 THEN "ensuring" ELSE "answered",
                                !.hellos = 1, !.outcome = "daemon_error"])
  /\ UNCHANGED <<serving, giving, stdio>>

\* "EOF waiting for response": the request is not sent a second time.
LoseAnswer(c) ==
  /\ CallAt(c, "eof") /\ GiveUp(c) /\ UNCHANGED <<serving, giving, stdio>>

DaemonEnds ==
  /\ serving # "none"
  /\ serving' = "none" /\ giving' = FALSE /\ call' = Cut(call)
  /\ UNCHANGED stdio

-----------------------------------------------------------------------------
(* A call ends *)

\* Mutant: an error of the daemon's counts as a task that failed.
ExitCodeAny(row) == IF row.outcome \in {"ok", "timed_out"} THEN "0" ELSE "2"

ExitCode(row) ==
  CASE row.outcome = "daemon_error" -> "3"
    [] row.outcome = "error" -> "2"
    [] row.outcome = "failed" /\ ~row.json -> "2"
    [] OTHER -> "0"

ExitCommand(c) ==
  /\ c # Mcp /\ CallAt(c, "answered")
  /\ SetCall(c, [call[c] EXCEPT !.pc = "ended", !.code = ExitCode(call[c])])
  /\ UNCHANGED <<serving, giving, stdio>>

\* tool_continue waits for the turn it was given, over a connection of its own.
WaitForTurn ==
  /\ CallAt(Mcp, "answered") /\ call[Mcp].outcome = "ok"
  /\ call[Mcp].step < LastStep(call[Mcp].op)
  /\ SetCall(Mcp, [call[Mcp] EXCEPT !.pc = "ensuring", !.step = @ + 1, !.hellos = 0,
                                    !.outcome = "none"])
  /\ UNCHANGED <<serving, giving, stdio>>

\* A failed turn is a result too.
ToolAnswer(row) == IF row.outcome \in {"error", "daemon_error"} THEN "error" ELSE "result"

AnswerCall ==
  /\ CallAt(Mcp, "answered")
  /\ call[Mcp].outcome = "ok" => call[Mcp].step = LastStep(call[Mcp].op)
  /\ stdio' = [stdio EXCEPT !.answers = Append(@, ToolAnswer(call[Mcp]))]
  /\ SetCall(Mcp, NoCall)
  /\ UNCHANGED <<serving, giving>>

-----------------------------------------------------------------------------
RequestStep(c) ==
  EnsureDaemon(c) \/ SayHello(c) \/ RestartDaemon(c) \/ HandleRequest(c) \/ Respond(c) \/ LoseAnswer(c)

ClientNext ==
  \/ DaemonEnds \/ ReadLine \/ StdinEnds \/ WaitForTurn \/ AnswerCall
  \/ \E c \in Shells : TypeCommand(c) \/ ExitCommand(c)
  \/ \E c \in Programs : RequestStep(c)

ClientSpec == ClientInit /\ [][ClientNext]_cvars

-----------------------------------------------------------------------------
ClientTypeOK ==
  /\ serving \in {"none", "older", "newer"} /\ giving \in BOOLEAN
  /\ call \in [Programs -> CallRow]
  /\ stdio \in [lines : Seq(Lines), answers : Seq({"result", "error"})]

\* The lines that wait for an answer.
Asked(lines) == {n \in DOMAIN lines : lines[n] \notin {"noise", "initialized"}}

(***************************************************************************)
(* However daemons end, give way and are restarted, a request reaches one   *)
(* at most once: what is repeated is the hello (request_blocking).          *)
(***************************************************************************)
HandledOnce ==
  \A c \in Programs :
    /\ call[c].handled <= call[c].step
    /\ call[c].pc \in {"ensuring", "dialing", "restarting", "sent"} => call[c].handled = call[c].step - 1
    /\ call[c].pc = "working" => call[c].handled = call[c].step

(***************************************************************************)
(* A program tells what happened: exit code 1 for a command no daemon was   *)
(* asked to do, 0 and 2 for one a daemon did and answered, 2 for a turn     *)
(* that failed, and 3 for one whose answer never came (cli-mcp.md:44-51).   *)
(* Not so a failed turn under --json, for which the code ends with 0        *)
(* (cli/mod.rs:393) although cli-mcp.md:50 makes no exception.  The MCP     *)
(* server answers every request before it reads the next line, with a       *)
(* result only if a daemon answered every step of it (call_tool).           *)
(***************************************************************************)
ToldWhatHappened ==
  [][/\ \A c \in Shells : call[c].pc # "ended" /\ call'[c].pc = "ended" =>
          LET row == call'[c]
          IN CASE row.code = "1" -> row.handled = 0
               [] row.code = "0" -> row.handled = 1 /\ (row.outcome = "failed" => row.json)
               [] row.code = "2" -> row.handled = 1 /\ row.outcome \in {"error", "failed"}
               [] OTHER -> row.outcome = "daemon_error"
     /\ stdio' # stdio => Len(stdio'.answers) =
          Cardinality(Asked(stdio'.lines)) - (IF call'[Mcp].pc = "idle" THEN 0 ELSE 1)
     /\ stdio'.answers # stdio.answers /\ ~CallAt(Mcp, "idle") =>
          (Last(stdio'.answers) = "result" <=>
             call[Mcp].handled = LastStep(call[Mcp].op)
             /\ call[Mcp].outcome \in {"ok", "failed", "timed_out"})]_cvars
=============================================================================
