------------------------------ MODULE Settings ------------------------------
(***************************************************************************)
(* The configuration of the tray applications: config.json, its copy       *)
(* `_config` in the process, the one the running proxy was started with,   *)
(* and the copies that open settings dialogs work on (linux.py, windows.py,*)
(* macos.py, utils/tray_common.py, ui/ctk_tray_ui.py).                     *)
(*                                                                         *)
(* A configuration has two keys here: `proxy` stands for all those a       *)
(* restart is needed for, `updates` for check_updates, which needs none.   *)
(* save_config truncates the file before it writes it, so that a file may  *)
(* be found without a configuration in it; load_config then takes the      *)
(* defaults.  Starting and stopping the proxy are one step each:           *)
(* TrayLifecycle has their steps.                                          *)
(***************************************************************************)
EXTENDS Integers, FiniteSets

CONSTANTS Dialog,      \* settings dialogs that may be open at once
          Choice,      \* proxy settings a user may choose
          MaxRestarts  \* bound: restarts under way at once

ASSUME SettingsAssumption ==
    /\ IsFiniteSet(Dialog) /\ MaxRestarts \in Nat \ {0}
    /\ {"default", "bad"} \cap Choice = {}

VARIABLES
    mac,        \* sys.platform is darwin
    welcomed,   \* FIRST_RUN_MARKER exists
    file,       \* what config.json can be read as: {} if nothing
    phase,      \* where run_tray or run_menubar stands
    config,     \* _config
    served,     \* settings the proxy of _proxy_thread was started with: {} if none runs
    leftover,   \* a proxy has outlived its stop_proxy and still runs
    dialog,     \* dialog[d]: stage, copy `cfg` and what is to be saved, `new`
    toggle,     \* macOS: the configuration the menu item is saving
    stopping,   \* restarts before stop_proxy
    starting,   \* restarts between stop_proxy and start_proxy
    \* What only the properties read.
    saved,      \* the configuration whose save ended last
    harmed,     \* a save was cut, failed, or was crossed by another access
    overtaken,  \* a dialog has saved over what another one had saved meanwhile
    declined    \* the user was asked for a restart and said no

store == <<file, config>>
controls == <<dialog, toggle, stopping, starting>>
ghosts == <<saved, harmed, overtaken, declined>>
proxies == <<served, leftover>>
settingsVars == <<mac, welcomed, phase, store, proxies, controls, ghosts>>

\* "bad": proxy settings apply_proxy_config refuses, in a file edited by hand.
Config == [proxy : Choice \cup {"default", "bad"}, updates : BOOLEAN]
Default == [proxy |-> "default", updates |-> TRUE]
Closed == [stage |-> "closed", cfg |-> Default, new |-> Default]

\* What validate_config_form lets through.
Valid == {c \in Config : c.proxy # "bad"}

\* Threads inside save_config, or between it and the assignment to _config.
Saving == {d \in Dialog : dialog[d].stage \in {"writing", "written"}}
Busy == Saving # {} \/ toggle # {}

SettingsTypeOK ==
    /\ mac \in BOOLEAN /\ welcomed \in BOOLEAN /\ leftover \in BOOLEAN
    /\ file \in SUBSET Config /\ Cardinality(file) <= 1
    /\ phase \in {"down", "saving", "first", "tray", "console"}
    /\ config \in Config
    /\ served \subseteq {c.proxy : c \in Valid} /\ Cardinality(served) <= 1
    /\ dialog \in [Dialog -> [stage : {"closed", "open", "writing", "written", "asking"},
                              cfg : Config, new : Valid]]
    /\ toggle \in SUBSET Config /\ Cardinality(toggle) <= 1
    /\ stopping \in 0 .. MaxRestarts /\ starting \in 0 .. MaxRestarts
    /\ saved \in SUBSET Config /\ Cardinality(saved) <= 1
    /\ {harmed, overtaken, declined} \subseteq BOOLEAN
    /\ phase # "tray" => ~Busy /\ stopping + starting = 0
    /\ ~mac => toggle = {} /\ Cardinality(Saving) <= 1

SettingsInit ==
    /\ mac \in BOOLEAN /\ welcomed \in BOOLEAN
    /\ file \in {{}} \cup {{c} : c \in Config}
    /\ phase = "down" /\ config = Default /\ served = {} /\ leftover = FALSE
    /\ dialog = [d \in Dialog |-> Closed]
    /\ toggle = {} /\ stopping = 0 /\ starting = 0
    /\ saved = file
    /\ harmed = FALSE /\ overtaken = FALSE /\ declined = FALSE

-----------------------------------------------------------------------------
(* load_config, save_config and start_proxy.                               *)

\* Mutant: the defaults are put over the keys that were read.
LoadedOver == IF file = {} THEN {Default} ELSE {[c EXCEPT !.updates = TRUE] : c \in file}

Loaded == IF file = {} THEN {Default} ELSE file

\* open(.., "w"): from here to the end of the write there is nothing to read.
Truncate == file' = {}

\* The write.  Another thread may have written since this one truncated the
\* file; of what is shorter the rest of the longer one remains.
Written(c) == IF file = {} THEN {{c}} ELSE {{c}, {}}

\* Mutant: no look at the thread that is alive.
StartAlways(c) ==
    /\ served' = served \cup ({c.proxy} \ {"bad"})
    /\ overtaken' = FALSE /\ declined' = FALSE
    /\ UNCHANGED leftover

\* No proxy starts where apply_proxy_config refuses, and none lives where the port
\* is taken, by another application or by a proxy that outlived its stop.
StartProxy(c) ==
    /\ \/ served # {} /\ UNCHANGED <<served, overtaken, declined>>
       \/ /\ served = {}
          /\ served' \in {{}, {c.proxy} \ {"bad"}}
          /\ overtaken' = FALSE /\ declined' = FALSE
    /\ UNCHANGED leftover

-----------------------------------------------------------------------------
(* The process.                                                            *)

\* run_tray: the configuration is loaded, and bootstrap saves it.
Load ==
    /\ phase = "down" /\ phase' = "saving"
    /\ config' \in Loaded /\ Truncate
    /\ UNCHANGED <<mac, welcomed, proxies, controls, ghosts>>

\* The save ends and the proxy is started; without the modules of the tray
\* the application runs in the console.
Boot ==
    /\ phase = "saving"
    /\ phase' \in {"console", IF welcomed THEN "tray" ELSE "first"}
    /\ file' = {config}
    /\ StartProxy(config)
    /\ UNCHANGED <<mac, welcomed, config, controls, saved, harmed>>

\* The first-run window keeps run_tray from showing the menu.  macOS sets the
\* marker before it asks, the others when the window is closed.
Welcome ==
    /\ phase = "first"
    /\ \/ ~welcomed /\ mac /\ phase' = phase
       \/ welcomed = mac /\ phase' = "tray"
    /\ welcomed' = TRUE
    /\ UNCHANGED <<mac, store, proxies, controls, ghosts>>

\* _on_exit, the end of the console, a signal or a crash.  The threads are
\* daemons: they go with the process wherever they are.
Die ==
    /\ phase # "down" /\ phase' = "down"
    /\ harmed' = (harmed \/ file = {})
    /\ config' = Default /\ served' = {} /\ leftover' = FALSE
    /\ dialog' = [d \in Dialog |-> Closed]
    /\ toggle' = {} /\ stopping' = 0 /\ starting' = 0
    /\ overtaken' = FALSE /\ declined' = FALSE
    /\ UNCHANGED <<mac, welcomed, file, saved>>

-----------------------------------------------------------------------------
(* Restarts: each in a thread of its own.                                  *)

Room == stopping + starting < MaxRestarts
RestartThread == Room /\ stopping' = stopping + 1

Restart ==
    /\ phase = "tray" /\ ~mac
    /\ RestartThread
    /\ UNCHANGED <<mac, welcomed, phase, store, proxies, dialog, toggle, starting, ghosts>>

\* macOS reads the file again before it restarts.
RestartReloaded ==
    /\ phase = "tray" /\ mac
    /\ RestartThread
    /\ config' \in Loaded
    /\ harmed' = (harmed \/ Busy)
    /\ UNCHANGED <<mac, welcomed, phase, file, proxies, dialog, toggle, starting, saved, overtaken, declined>>

\* The handle is gone in any case; the proxy is not where the join has timed out,
\* or where there was no handle to tell it by (_async_stop is None).
Stop ==
    /\ stopping > 0 /\ stopping' = stopping - 1 /\ starting' = starting + 1
    /\ served' = {} /\ leftover' \in {leftover, leftover \/ served # {}}
    /\ UNCHANGED <<mac, welcomed, phase, store, dialog, toggle, ghosts>>

\* It, or the last of them, has ended after all.
LeftoverEnds ==
    /\ leftover /\ leftover' = FALSE
    /\ UNCHANGED <<mac, welcomed, phase, store, served, controls, ghosts>>

StartAgain ==
    /\ starting > 0 /\ starting' = starting - 1
    /\ StartProxy(config)
    /\ UNCHANGED <<mac, welcomed, phase, store, dialog, toggle, stopping, saved, harmed>>

-----------------------------------------------------------------------------
(* The settings dialogs.                                                   *)

Becomes(d, record) == dialog' = [dialog EXCEPT ![d] = record]

\* Linux and Windows copy _config.
Open(d) ==
    /\ phase = "tray" /\ ~mac
    /\ dialog[d].stage = "closed"
    /\ Becomes(d, [Closed EXCEPT !.stage = "open", !.cfg = config])
    /\ UNCHANGED <<mac, welcomed, phase, store, proxies, toggle, stopping, starting, ghosts>>

\* macOS reads the file.
OpenLoaded(d) ==
    /\ phase = "tray" /\ mac
    /\ dialog[d].stage = "closed"
    /\ \E c \in Loaded : Becomes(d, [Closed EXCEPT !.stage = "open", !.cfg = c])
    /\ harmed' = (harmed \/ Busy)
    /\ UNCHANGED <<mac, welcomed, phase, store, proxies, toggle, stopping, starting, saved, overtaken, declined>>

\* Cancelled, or saved without a change; on macOS an entry refused ends it too.
Cancel(d) ==
    /\ dialog[d].stage = "open"
    /\ Becomes(d, Closed)
    /\ UNCHANGED <<mac, welcomed, phase, store, proxies, toggle, stopping, starting, ghosts>>

\* on_save runs in the one thread of Tk; its question lets others run.
Save(d) ==
    /\ ~mac /\ Saving = {}
    /\ dialog[d].stage = "open"
    /\ \E new \in Valid :
          /\ new # dialog[d].cfg
          /\ Becomes(d, [dialog[d] EXCEPT !.stage = "writing", !.new = new])
    /\ Truncate
    /\ UNCHANGED <<mac, welcomed, phase, config, proxies, toggle, stopping, starting, ghosts>>

\* macOS asks key after key, but check_updates is as it was in the file.
SaveAnswers(d) ==
    /\ mac
    /\ dialog[d].stage = "open"
    /\ \E new \in Valid :
          /\ new.updates = dialog[d].cfg.updates
          /\ Becomes(d, [Closed EXCEPT !.stage = "writing", !.new = new])
    /\ Truncate
    /\ harmed' = (harmed \/ Busy)
    /\ UNCHANGED <<mac, welcomed, phase, config, proxies, toggle, stopping, starting, saved, overtaken, declined>>

SaveEnds(d) ==
    /\ dialog[d].stage = "writing"
    /\ file' \in Written(dialog[d].new)
    /\ saved' = {dialog[d].new}
    /\ Becomes(d, [dialog[d] EXCEPT !.stage = "written"])
    /\ UNCHANGED <<mac, welcomed, phase, config, proxies, toggle, stopping, starting, harmed, overtaken, declined>>

\* The write raises: Tk keeps the dialog, the thread of macOS ends.
SaveFails(d) ==
    /\ dialog[d].stage = "writing"
    /\ Becomes(d, IF mac THEN Closed ELSE [Closed EXCEPT !.stage = "open", !.cfg = dialog[d].cfg])
    /\ harmed' = TRUE
    /\ UNCHANGED <<mac, welcomed, phase, store, proxies, toggle, stopping, starting, saved, overtaken, declined>>

\* Mutant: merged is compared with _config, after _config.update(merged).
ProxyChangedLate(d) == mac \/ dialog[d].new.proxy # config'.proxy

\* A question is asked when a key outside _ui_only_keys has changed; macOS
\* always asks.
ProxyChanged(d) == mac \/ dialog[d].new.proxy # dialog[d].cfg.proxy

\* _config gets the new values.
Adopt(d) ==
    /\ dialog[d].stage = "written"
    /\ config' = dialog[d].new
    /\ Becomes(d, IF ProxyChanged(d) THEN [Closed EXCEPT !.stage = "asking"] ELSE Closed)
    /\ harmed' = (harmed /\ (Saving # {d} \/ toggle # {} \/ file # {dialog[d].new}))
    /\ overtaken' = (overtaken \/ (~mac /\ dialog[d].cfg # config))
    /\ UNCHANGED <<mac, welcomed, phase, file, proxies, toggle, stopping, starting, saved, declined>>

Answer(d) ==
    /\ dialog[d].stage = "asking"
    /\ Becomes(d, Closed)
    /\ \/ RestartThread /\ UNCHANGED declined
       \/ declined' = TRUE /\ UNCHANGED stopping
    /\ UNCHANGED <<mac, welcomed, phase, store, proxies, toggle, starting, saved, harmed, overtaken>>

-----------------------------------------------------------------------------
(* The menu item for check_updates of macOS: _toggle_check_updates.        *)

Toggle ==
    /\ phase = "tray" /\ mac /\ toggle = {}
    /\ config' = [config EXCEPT !.updates = ~@]
    /\ toggle' = {config'}
    /\ Truncate
    /\ harmed' = (harmed \/ Busy)
    /\ UNCHANGED <<mac, welcomed, phase, proxies, dialog, stopping, starting, saved, overtaken, declined>>

ToggleEnds ==
    /\ \E c \in toggle : file' \in Written(c)
    /\ saved' = toggle
    /\ toggle' = {}
    /\ harmed' = (harmed /\ (Saving # {} \/ {config} # toggle \/ file' # toggle))
    /\ UNCHANGED <<mac, welcomed, phase, config, proxies, dialog, stopping, starting, overtaken, declined>>

\* The write raises out of the callback: _config has the new value already.
ToggleFails ==
    /\ toggle # {} /\ toggle' = {}
    /\ harmed' = TRUE
    /\ UNCHANGED <<mac, welcomed, phase, store, proxies, dialog, stopping, starting, saved, overtaken, declined>>

-----------------------------------------------------------------------------
DialogStep(d) ==
    \/ Open(d) \/ OpenLoaded(d) \/ Cancel(d) \/ Save(d) \/ SaveAnswers(d)
    \/ SaveEnds(d) \/ SaveFails(d) \/ Adopt(d) \/ Answer(d)

TrayStep ==
    \/ Restart \/ RestartReloaded \/ Stop \/ LeftoverEnds \/ StartAgain
    \/ Toggle \/ ToggleEnds \/ ToggleFails
    \/ \E d \in Dialog : DialogStep(d)

-----------------------------------------------------------------------------
(* Properties.                                                             *)

\* What the user saved last is in the file and in _config, across crashes,
\* restarts and dialogs open at once, unless a save was cut, failed or was
\* crossed by another one; and the next save that nothing crosses makes it
\* so again (load_config, save_config and their callers).
SettingsKept ==
    phase \in {"first", "tray", "console"} /\ ~Busy /\ ~harmed /\ saved # {} =>
        file = saved /\ config \in saved

\* The link the application hands out (tg_proxy_url) is that of the proxy it
\* runs, but while a restart is asked for or under way, after the user has
\* declined one, after a dialog saved over what another one had saved, or where
\* a restart could not get the port and a proxy that outlived its stop is the
\* only one.
Link == config.proxy
LinkServed ==
    (served # {} \/ leftover) /\ Link \notin served =>
        \/ stopping + starting > 0
        \/ \E d \in Dialog : dialog[d].stage = "asking"
        \/ declined \/ overtaken
        \/ leftover /\ served = {}

=============================================================================
