------------------------------ MODULE MCDesktop ------------------------------
(***************************************************************************)
(* The processes around the daemon, which share no state with each other:  *)
(* a behaviour is one of supervised agents, of the GUI host, of an MCP      *)
(* entry or of a managed block, and the rest stands still at one initial    *)
(* state.  The GUI host is two behaviours: config.json is edited and the     *)
(* settings are saved while nobody asks, or the navigators ask and the      *)
(* settings stay.                                                           *)
(***************************************************************************)
EXTENDS AgentSupervisor, GuiHost, McpEntry, ManagedBlock

Parts == {"supervisor", "settings", "navigation", "entry", "block"}

VARIABLE part           \* the part this behaviour is about

DesktopInit ==
  /\ part \in Parts
  /\ SupervisorInit /\ GuiInit /\ EntryInit /\ BlockInit
  /\ part \notin {"settings", "navigation"} => config = "off" /\ loginItem = "none"
  /\ part # "entry" => agent = "claude" /\ mcp = NoFile
  /\ part # "block" => text = <<>>

\* Nobody asks: what a navigator does to the settings, to spawn a host or to
\* have it quit, a login, a launch and the end of a host do too.
NobodyAsks == UNCHANGED nav

\* Nobody edits the settings or has a host change them.
SettingsStay == UNCHANGED config /\ \A h \in Hosts : host'[h].pc # "loaded"

DesktopNext ==
  /\ UNCHANGED part
  /\ \/ part = "supervisor" /\ SupervisorNext /\ UNCHANGED <<gvars, avars, bvars>>
     \/ part = "settings" /\ GuiNext /\ NobodyAsks /\ UNCHANGED <<uvars, avars, bvars>>
     \/ part = "navigation" /\ GuiNext /\ SettingsStay /\ UNCHANGED <<uvars, avars, bvars>>
     \/ part = "entry" /\ EntryNext /\ UNCHANGED <<uvars, gvars, bvars>>
     \/ part = "block" /\ BlockNext /\ UNCHANGED <<uvars, gvars, avars>>

dvars == <<uvars, gvars, avars, bvars, part>>

DesktopSpec == DesktopInit /\ [][DesktopNext]_dvars /\ SupervisorFairness /\ GuiFairness

\* Every part's variables stay of their types.
DesktopTypeOK ==
  /\ part \in Parts
  /\ SupervisorTypeOK /\ GuiTypeOK /\ EntryTypeOK /\ BlockTypeOK
=============================================================================
