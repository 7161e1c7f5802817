----------------------------- MODULE GuiHost -----------------------------
(***************************************************************************)
(* The `--gui-host` role of app/gui_host.rs: a process that wins            *)
(* gui-host.lock reads the settings, brings the login item in line, serves  *)
(* navigation commands over its endpoint and applies them to its windows in *)
(* the order it queued them; the settings commands of app/mod.rs save       *)
(* config.json first and follow it with the login item and the tray.        *)
(* Programs reach the host with ensure_and_navigate, which spawns one when  *)
(* nobody answers.  Any process may die at any step.                        *)
(***************************************************************************)
EXTENDS Integers, Sequences

CONSTANTS Hosts,        \* processes that take the role
          Navigators,   \* programs that send one navigation command
          SavedModes,   \* tray modes the user chooses from
          MaxTries,     \* bound on ensure_and_navigate's attempts (50 in the code)
          Nobody        \* no process

TrayModes == {"off", "active", "always"}

ASSUME GuiAssumption ==
  Nobody \notin Hosts /\ SavedModes \subseteq TrayModes /\ MaxTries \in Nat \ {0}

VARIABLES hostLock,     \* holder of gui-host.lock
          endpoint,     \* process that bound the file gui-host.sock
          config,       \* trayMode in config.json, or that it does not parse
          loginItem,    \* the autostart entry
          host,         \* the processes
          nav           \* the navigators

gvars == <<hostLock, endpoint, config, loginItem, host, nav>>

Commands == {"open", "quit"}      \* a surface to show, whichever it is, or the end
HostPc == {"off", "locking", "loading", "running", "loaded", "saved", "resynced"}
Ipc == {"off", "binding", "serving", "failed"}
NavPc == {"idle", "connecting", "sent", "cut", "acked", "applied", "lost", "failed"}

TrayIcon == {"absent", "shown", "failed"}      \* failed: wanted, but not created

\* edited is history: config.json was edited since the process read its mode.
HostRow == [pc: HostPc, ipc: Ipc, mode: TrayModes, synced: BOOLEAN,
            tray: TrayIcon, edited: BOOLEAN, queue: Seq(Navigators)]
NoHost == [pc |-> "off", ipc |-> "off", mode |-> "active", synced |-> FALSE,
           tray |-> "absent", edited |-> FALSE, queue |-> <<>>]
NavRow == [pc: NavPc, cmd: Commands, host: Hosts \cup {Nobody}, tries: 0..MaxTries]

\* A navigator that did not begin, or ended, and how.
NavAt(pc) == [pc |-> pc, cmd |-> "open", host |-> Nobody, tries |-> 0]

GuiInit ==
  /\ hostLock = Nobody /\ endpoint = Nobody
  /\ config \in SavedModes \cup {"broken"}
  /\ loginItem \in {"none", "outdated"}
  /\ host = [h \in Hosts |-> NoHost]
  /\ nav = [n \in Navigators |-> NavAt("idle")]

SetHost(h, row) == host' = [host EXCEPT ![h] = row]
SetNav(n, row) == nav' = [nav EXCEPT ![n] = row]
HostAt(h, pc) == host[h].pc = pc
Up(h) == host[h].pc \in {"running", "loaded", "saved", "resynced"}
Reachable == endpoint # Nobody /\ host[endpoint].ipc = "serving"

\* Exit or death of process h: the kernel frees the lock, connections end,
\* the file gui-host.sock stays, and what it queued but did not apply is lost.
Ended(h, applied) ==
  /\ SetHost(h, NoHost)
  /\ hostLock' = IF hostLock = h THEN Nobody ELSE hostLock
  /\ nav' = [n \in Navigators |->
               IF n \in applied THEN NavAt("applied")
               ELSE CASE nav[n].host = h /\ nav[n].pc = "sent"  -> [nav[n] EXCEPT !.pc = "cut"]
                      [] nav[n].host = h /\ nav[n].pc = "acked" -> NavAt("lost")
                      [] OTHER -> nav[n]]

-----------------------------------------------------------------------------
(* Starting a host *)

\* The app bundle is opened: run_as_app_bundle_launch goes on only when no
\* host answers its attempt to focus one.
OpenBundle(h) ==
  /\ HostAt(h, "off") /\ ~Reachable
  /\ SetHost(h, [NoHost EXCEPT !.pc = "locking"])
  /\ UNCHANGED <<hostLock, endpoint, config, loginItem, nav>>

\* Mutant: a lock that is held does not stop the launch.
LockHostAlways(h) ==
  /\ HostAt(h, "locking")
  /\ hostLock' = h
  /\ SetHost(h, [host[h] EXCEPT !.pc = "loading"])
  /\ UNCHANGED <<endpoint, config, loginItem, nav>>

\* acquire_lock_at: the loser ends, a bundle launch after one more attempt to
\* focus the winner.
LockHost(h) ==
  /\ HostAt(h, "locking")
  /\ \/ /\ hostLock = Nobody
        /\ hostLock' = h
        /\ SetHost(h, [host[h] EXCEPT !.pc = "loading"])
     \/ /\ hostLock # Nobody
        /\ SetHost(h, NoHost)
        /\ UNCHANGED hostLock
  /\ UNCHANGED <<endpoint, config, loginItem, nav>>

\* ConfigDocument::load, or the defaults when the file does not parse.
Loaded == IF config = "broken" THEN "active" ELSE config

\* apply_tray_mode_login_item: rewritten unless it is up to date.
ItemFor(mode) == IF mode = "always" THEN "current" ELSE "none"

\* reconcile_tray: an icon that is there is kept; setup_tray may fail, and the
\* host goes on without it.
Reconciled(tray, mode) ==
  IF mode = "off" THEN {"absent"} ELSE IF tray = "shown" THEN {"shown"} ELSE {"shown", "failed"}

Started(h, synced, tray) ==
  [host[h] EXCEPT !.pc = "running", !.synced = synced, !.ipc = "binding",
                  !.mode = Loaded, !.tray = tray]

\* Mutant: the host trusts the login item it finds.
StartUpTrusting(h) ==
  /\ HostAt(h, "loading")
  /\ \E tray \in Reconciled(host[h].tray, Loaded) : SetHost(h, Started(h, TRUE, tray))
  /\ UNCHANGED <<hostLock, endpoint, config, loginItem, nav>>

\* The settings, sync_login_item_for_mode, whose failure is ignored, the
\* thread of the endpoint, then the window and the tray.
StartUp(h) ==
  /\ HostAt(h, "loading")
  /\ \E synced \in BOOLEAN, tray \in Reconciled(host[h].tray, Loaded) :
       /\ loginItem' = IF synced THEN ItemFor(Loaded) ELSE loginItem
       /\ SetHost(h, Started(h, synced, tray))
  /\ UNCHANGED <<hostLock, endpoint, config, nav>>

\* remove_stale_gui_endpoint, bind_gui_host: when binding fails the thread
\* ends and the host goes on alone.
BindEndpoint(h) ==
  /\ host[h].ipc = "binding"
  /\ \/ endpoint' = h /\ SetHost(h, [host[h] EXCEPT !.ipc = "serving"])
     \/ endpoint' = Nobody /\ SetHost(h, [host[h] EXCEPT !.ipc = "failed"])
  /\ UNCHANGED <<hostLock, config, loginItem, nav>>

HostEnds(h) == ~HostAt(h, "off") /\ Ended(h, {}) /\ UNCHANGED <<endpoint, config, loginItem>>

-----------------------------------------------------------------------------
(* A running host *)

\* settings_set_tray_mode loads the document; a file that does not parse is
\* an error and stays.
LoadSettings(h) ==
  /\ HostAt(h, "running") /\ config # "broken"
  /\ SetHost(h, [host[h] EXCEPT !.pc = "loaded"])
  /\ UNCHANGED <<hostLock, endpoint, config, loginItem, nav>>

\* It saves the document over whatever stands there by now, or the save fails
\* and nothing else happens.
SaveMode(h) ==
  /\ HostAt(h, "loaded")
  /\ \/ \E mode \in SavedModes :
          /\ config' = mode
          /\ SetHost(h, [host[h] EXCEPT !.pc = "saved", !.mode = mode, !.edited = FALSE])
     \/ SetHost(h, [host[h] EXCEPT !.pc = "running"]) /\ UNCHANGED config
  /\ UNCHANGED <<hostLock, endpoint, loginItem, nav>>

Resync(h) ==
  /\ HostAt(h, "saved")
  /\ \E synced \in BOOLEAN :
       /\ loginItem' = IF synced THEN ItemFor(host[h].mode) ELSE loginItem
       /\ SetHost(h, [host[h] EXCEPT !.pc = "resynced", !.synced = synced])
  /\ UNCHANGED <<hostLock, endpoint, config, nav>>

\* apply_tray_mode_runtime, reconcile_tray
ApplyMode(h) ==
  /\ HostAt(h, "resynced")
  /\ \E tray \in Reconciled(host[h].tray, host[h].mode) :
       SetHost(h, [host[h] EXCEPT !.pc = "running", !.tray = tray])
  /\ UNCHANGED <<hostLock, endpoint, config, loginItem, nav>>

\* handle_gui_client: the command is queued, then acknowledged.
TakeCommand(h, n) ==
  /\ host[h].ipc = "serving" /\ nav[n].pc = "sent" /\ nav[n].host = h
  /\ SetHost(h, [host[h] EXCEPT !.queue = Append(@, n)])
  /\ SetNav(n, [nav[n] EXCEPT !.pc = "acked", !.tries = 0])
  /\ UNCHANGED <<hostLock, endpoint, config, loginItem>>

\* Mutant: the newest command is applied and what waits before it dropped.
ApplyNavLast(h) ==
  /\ Up(h) /\ host[h].queue # <<>>
  /\ LET n == host[h].queue[Len(host[h].queue)]
     IN /\ nav[n].cmd # "quit"
        /\ SetHost(h, [host[h] EXCEPT !.queue = <<>>])
        /\ SetNav(n, NavAt("applied"))
  /\ UNCHANGED <<hostLock, endpoint, config, loginItem>>

\* apply_nav, one command after the other.
ApplyNav(h) ==
  /\ Up(h) /\ host[h].queue # <<>>
  /\ LET n == Head(host[h].queue)
     IN \/ /\ nav[n].cmd # "quit"
           /\ SetHost(h, [host[h] EXCEPT !.queue = Tail(@)])
           /\ SetNav(n, NavAt("applied"))
           /\ UNCHANGED hostLock
        \/ nav[n].cmd = "quit" /\ Ended(h, {n})
  /\ UNCHANGED <<endpoint, config, loginItem>>

-----------------------------------------------------------------------------
(* ensure_and_navigate *)

Ask(n) ==
  /\ nav[n].pc = "idle"
  /\ \E cmd \in Commands : SetNav(n, [nav[n] EXCEPT !.pc = "connecting", !.cmd = cmd])
  /\ UNCHANGED <<hostLock, endpoint, config, loginItem, host>>

Connect(n) ==
  /\ nav[n].pc = "connecting" /\ Reachable
  /\ SetNav(n, [nav[n] EXCEPT !.pc = "sent", !.host = endpoint])
  /\ UNCHANGED <<hostLock, endpoint, config, loginItem, host>>

\* Mutant: one attempt too many.
OutOfTriesLate(n) == nav[n].tries > MaxTries
OutOfTries(n) == nav[n].tries = MaxTries

\* An attempt failed: the first time a host is spawned, the last time is an
\* error.
Retry(n) ==
  /\ \/ nav[n].pc = "connecting" /\ ~Reachable
     \/ nav[n].pc = "cut"
  /\ SetNav(n, IF OutOfTries(n) THEN NavAt("failed")
               ELSE [nav[n] EXCEPT !.pc = "connecting", !.host = Nobody, !.tries = @ + 1])
  /\ IF nav[n].tries = 0 /\ \E h \in Hosts : HostAt(h, "off")
     THEN \E h \in Hosts : /\ HostAt(h, "off")
                           /\ SetHost(h, [NoHost EXCEPT !.pc = "locking"])
     ELSE UNCHANGED host
  /\ UNCHANGED <<hostLock, endpoint, config, loginItem>>

\* send_nav takes an end of file for an answer: told it is delivered.
TakeEofForAck(n) ==
  /\ nav[n].pc = "cut"
  /\ SetNav(n, NavAt("lost"))
  /\ UNCHANGED <<hostLock, endpoint, config, loginItem, host>>

-----------------------------------------------------------------------------
(* Outside the program *)

\* The user edits config.json, at any time; no host watches the file.
EditConfig ==
  /\ config' \in (SavedModes \cup {"broken"}) \ {config}
  /\ host' = [h \in Hosts |-> IF Up(h) THEN [host[h] EXCEPT !.edited = TRUE] ELSE host[h]]
  /\ UNCHANGED <<hostLock, endpoint, loginItem, nav>>

\* The login item starts a host.
LogIn(h) ==
  /\ loginItem # "none" /\ HostAt(h, "off")
  /\ SetHost(h, [NoHost EXCEPT !.pc = "locking"])
  /\ UNCHANGED <<hostLock, endpoint, config, loginItem, nav>>

-----------------------------------------------------------------------------
Start(h) == LockHost(h) \/ StartUp(h) \/ BindEndpoint(h)
Serve(h) == Resync(h) \/ ApplyMode(h) \/ ApplyNav(h) \/ \E n \in Navigators : TakeCommand(h, n)
UserStep(h) == OpenBundle(h) \/ LogIn(h) \/ LoadSettings(h) \/ SaveMode(h) \/ HostEnds(h)

GuiNext ==
  \/ EditConfig
  \/ \E h \in Hosts : Start(h) \/ Serve(h) \/ UserStep(h)
  \/ \E n \in Navigators : Ask(n) \/ Connect(n) \/ Retry(n) \/ TakeEofForAck(n)

GuiSpec == GuiInit /\ [][GuiNext]_gvars

\* The host's thread of navigation commands is scheduled.
GuiFairness == \A h \in Hosts : WF_gvars(ApplyNav(h))

-----------------------------------------------------------------------------
GuiTypeOK ==
  /\ hostLock \in Hosts \cup {Nobody} /\ endpoint \in Hosts \cup {Nobody}
  /\ config \in TrayModes \cup {"broken"}
  /\ loginItem \in {"none", "current", "outdated"}
  /\ host \in [Hosts -> HostRow] /\ nav \in [Navigators -> NavRow]

(***************************************************************************)
(* However launches, logins, retries and deaths overlap, a host that serves *)
(* holds the lock and the endpoint file is its own: no other launch removes *)
(* or replaces it (gui_host.rs run_impl, transport.rs bind_socket).         *)
(***************************************************************************)
HostOwnsEndpoint ==
  \A h \in Hosts : host[h].ipc = "serving" => hostLock = h /\ endpoint = h

(***************************************************************************)
(* A command the host acknowledged is applied, or the host ended before it  *)
(* came to it (handle_gui_client, apply_nav).                               *)
(***************************************************************************)
AckedIsApplied == \A n \in Navigators : nav[n].pc = "acked" ~> nav[n].pc \in {"applied", "lost"}

(***************************************************************************)
(* A host between two settings commands has the mode of config.json, unless *)
(* the file was edited since the host read or saved it, which a running     *)
(* host does not notice.  By that mode it has no tray icon exactly in mode  *)
(* off (in another one the icon may have failed, which the code accepts),   *)
(* and if its last synchronisation did not fail the autostart entry is up   *)
(* to date in mode always and gone otherwise, whatever died or was edited   *)
(* between a save and the steps that follow it (settings_set_tray_mode,     *)
(* run_impl).  Only the program changes the autostart entry here.           *)
(***************************************************************************)
HostFollowsConfig ==
  \A h \in Hosts : HostAt(h, "running") =>
    /\ ~host[h].edited => host[h].mode = Loaded
    /\ host[h].tray = "absent" <=> host[h].mode = "off"
    /\ host[h].synced => loginItem = ItemFor(host[h].mode)
=============================================================================
