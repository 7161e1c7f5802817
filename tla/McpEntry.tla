-------------------------- MODULE McpEntry --------------------------
(***************************************************************************)
(* integrations/claude.rs and codex.rs: the groktask entry in an agent's    *)
(* MCP configuration.  The GUI and the command line are separate processes: *)
(* each reads the file, computes the new one and renames it into place,     *)
(* while the agent saves the same file.                                     *)
(***************************************************************************)
EXTENDS Integers

CONSTANTS Writers,      \* processes that install or remove the entry
          UserServers,  \* MCP servers of the user's
          MaxEdits      \* bound on the saves of the agent

ASSUME EntryAssumption == MaxEdits \in Nat

VARIABLES agent,        \* the agent whose file this is
          mcp,          \* its MCP configuration
          job           \* what every writer read and is about to write

avars == <<agent, mcp, job>>

(* A configuration: whether it parses, what stands at mcpServers            *)
(* (mcp_servers), the groktask entry, the other servers, everything else.   *)
McpFile == [kind: {"missing", "blank", "broken", "parsed"},
            servers: {"none", "table", "inline", "wrong"},
            entry: {"absent", "current", "outdated", "inline", "wrong"},
            others: SUBSET UserServers, rest: 0..MaxEdits]

\* Files that can stand on disk: an entry or another server needs a table;
\* an inline table is TOML's, and any entry that is no table is one JSON
\* value that differs from the template.
Consistent(f, a) ==
  /\ f.kind # "parsed" => f.servers = "none"
  /\ f.servers \in {"none", "wrong"} => f.entry = "absent" /\ f.others = {}
  /\ a = "claude" => f.servers # "inline" /\ f.entry \notin {"inline", "wrong"}
  /\ f.servers = "inline" => f.entry # "current"

NoFile == [kind |-> "missing", servers |-> "none", entry |-> "absent", others |-> {}, rest |-> 0]
NoJob == [op |-> "none", mcp |-> NoFile]

-----------------------------------------------------------------------------
(* The MCP entry *)

\* Mutant: status looks at the entry alone.
CanWriteUnlessWrong(f, a) == f.kind # "broken" /\ ~(a = "codex" /\ f.entry = "wrong")

\* can_write of status(): what the code says it can install into.
CanWrite(f, a) ==
  /\ f.kind # "broken" /\ f.servers # "wrong"
  /\ ~(a = "codex" /\ f.entry = "wrong")

\* install() changes only what it can address as a table of its own.
Installable(f, a) ==
  /\ f.kind # "broken" /\ f.servers # "wrong"
  /\ a = "codex" => f.servers # "inline" /\ f.entry \notin {"inline", "wrong"}

\* Mutant: the whole table is written anew.
InstalledAfresh(f) ==
  [f EXCEPT !.kind = "parsed", !.servers = "table", !.entry = "current", !.others = {}]

\* apply_install_json, apply_install_toml
Installed(f) == [f EXCEPT !.kind = "parsed", !.servers = "table", !.entry = "current"]

\* JSON of the wrong shape is an error; TOML that is no table is left alone.
Removable(f, a) == f.kind = "parsed" /\ (a = "claude" => f.servers # "wrong")

\* apply_uninstall_json, apply_uninstall_toml: an empty table goes too,
\* whoever made it.
Uninstalled(f) ==
  IF f.servers # "table" THEN f
  ELSE [f EXCEPT !.entry = "absent", !.servers = IF f.others = {} THEN "none" ELSE @]

-----------------------------------------------------------------------------
EntryInit ==
  /\ agent \in {"claude", "codex"}
  /\ mcp \in {f \in McpFile : f.rest = 0 /\ Consistent(f, agent)}
  /\ job = [w \in Writers |-> NoJob]

\* The file is read; one the operation cannot handle is an error and stays.
ReadEntry(w) ==
  /\ job[w].op = "none"
  /\ \E op \in {"install", "remove"} :
       /\ op = "install" => Installable(mcp, agent)
       /\ op = "remove" => Removable(mcp, agent)
       /\ job' = [job EXCEPT ![w] = [op |-> op, mcp |-> mcp]]
  /\ UNCHANGED <<agent, mcp>>

\* write_config: what was computed from the file that was read replaces the
\* file that is there now, unless nothing was to change.
WriteEntry(w) ==
  /\ job[w].op # "none"
  /\ LET seen == job[w].mcp
         file == IF job[w].op = "install" THEN Installed(seen) ELSE Uninstalled(seen)
     IN mcp' = IF file = seen THEN mcp ELSE file
  /\ job' = [job EXCEPT ![w] = NoJob]
  /\ UNCHANGED agent

\* The process ends before the rename: the file is as it was.
AbandonEntry(w) ==
  /\ job[w].op # "none"
  /\ job' = [job EXCEPT ![w] = NoJob]
  /\ UNCHANGED <<agent, mcp>>

\* The agent saves its configuration.
AgentSaves ==
  /\ mcp.kind = "parsed" /\ mcp.rest < MaxEdits
  /\ \E others \in SUBSET UserServers :
       mcp' = [mcp EXCEPT !.rest = @ + 1,
                 !.others = IF mcp.servers \in {"table", "inline"} THEN others ELSE @]
  /\ UNCHANGED <<agent, job>>

EntryNext ==
  \/ AgentSaves
  \/ \E w \in Writers : ReadEntry(w) \/ WriteEntry(w) \/ AbandonEntry(w)

EntrySpec == EntryInit /\ [][EntryNext]_avars

-----------------------------------------------------------------------------
EntryTypeOK ==
  /\ agent \in {"claude", "codex"}
  /\ mcp \in McpFile /\ Consistent(mcp, agent)
  /\ \A w \in Writers : job[w].op \in {"install", "remove", "none"} /\ job[w].mcp \in McpFile

(***************************************************************************)
(* Unless the file was changed after it was read, an install or a removal   *)
(* leaves the user's other servers and everything else as they are, in a    *)
(* file that still parses (claude.rs:3-5, codex.rs:3-4).                    *)
(***************************************************************************)
OnlyOwnEntryChanges ==
  [][\A w \in Writers :
       job[w].op # "none" /\ job'[w].op = "none" /\ mcp = job[w].mcp /\ mcp' # mcp
       => mcp'.others = mcp.others /\ mcp'.rest = mcp.rest /\ mcp'.kind = "parsed"
          /\ mcp.kind # "broken"]_avars

(***************************************************************************)
(* What status() calls writable, install accepts (types.rs can_write); the  *)
(* exception is a TOML inline table, which status takes for a table and     *)
(* install refuses.                                                         *)
(***************************************************************************)
StatusHolds ==
  CanWrite(mcp, agent) => Installable(mcp, agent) \/ mcp.servers = "inline" \/ mcp.entry = "inline"
=============================================================================
