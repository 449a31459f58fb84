------------------------------- MODULE Desktop -------------------------------
(***************************************************************************)
(* A tray application as a whole: its configuration and the update check   *)
(* that the configuration allows or not.  They share the process, which    *)
(* both lose when it dies, and the file system, which both find again.     *)
(***************************************************************************)
EXTENDS Settings, UpdateCheck

CONSTANT Scope  \* bounds, a set of records: may the user use the menu, with how
                \* many dialogs and restarts at once; what the file is at first;
                \* does the check run, how far does time go, is there a cache,
                \* what does GitHub show at first

VARIABLE scope

vars == <<settingsVars, updateVars, scope>>

TypeOK == SettingsTypeOK /\ UpdateTypeOK /\ scope \in Scope

Init ==
    /\ SettingsInit /\ UpdateInit
    /\ scope \in Scope
    /\ (cache # NoCache <=> scope.cached) /\ release \in scope.shown
    /\ file \in scope.files

\* Linux and Windows look at check_updates when they start the thread, macOS
\* when it wakes up.  In the console there is no such thread.
Boots == Boot /\ CheckStarts(phase' # "console" /\ (mac \/ config.updates))
Dies == Die /\ CheckDies

Wakes == scope.check /\ Wake(mac => config.updates) /\ UNCHANGED settingsVars
Answers ==
    /\ NotModified \/ (\E sent \in BOOLEAN : Answered(sent)) \/ Failed \/ Escapes
    /\ UNCHANGED settingsVars
World == time < scope.time /\ Ticks /\ UNCHANGED settingsVars

Starts == (Load \/ Welcome) /\ UNCHANGED updateVars
Uses ==
    /\ scope.menu /\ TrayStep /\ UNCHANGED updateVars
    /\ stopping' + starting' <= scope.restarts
    /\ Cardinality({d \in Dialog : dialog'[d] # Closed}) <= scope.dialogs

Next ==
    /\ Boots \/ Dies \/ Wakes \/ Answers \/ World \/ Starts \/ Uses
    /\ UNCHANGED scope

Spec == Init /\ [][Next]_vars

=============================================================================
