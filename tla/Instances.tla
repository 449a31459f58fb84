------------------------------ MODULE Instances ------------------------------
(***************************************************************************)
(* The single instance of the tray application and its self-update:        *)
(* acquire_lock and release_lock of utils/tray_common.py, the mutex,       *)
(* main, _perform_update and the clean-up of windows.py.                   *)
(*                                                                         *)
(* Processes are named by their pid.  A pid is used once between two boots *)
(* (the system goes through all of them before it starts again) and may    *)
(* come back after a reboot, when lock files of its namesakes are still    *)
(* there.  Of a lock file only the creation time matters: that of the      *)
(* process that has the pid now ("whole"), that of an earlier one          *)
(* ("stale"), or none ("empty": created, not yet or never written).        *)
(***************************************************************************)
EXTENDS Naturals, FiniteSets

CONSTANTS Pid,
          Frozen,       \* the packed executable, IS_FROZEN, and not the sources
          MaxFailures,  \* processes killed, reboots, lock files left at an exit, and
                        \* kinds of other failures that nobody notices, at most
          MaxUpdates    \* updates that are started, at most

ASSUME InstancesAssumption ==
    /\ Pid \subseteq Nat /\ Frozen \in BOOLEAN
    /\ MaxFailures \in Nat /\ MaxUpdates \in Nat

VARIABLES
    mutexApi,   \* CreateMutexW works; if not, and off Windows, lock files serve
    pc,         \* where main() of a process is
    mutex,      \* the processes with a handle of the named mutex
    lockFile,   \* the file <pid>.lock
    todo,       \* the lock files acquire_lock has listed and not examined
    dead,       \* the one it is about to unlink
    upd,        \* where _perform_update of a process is
    exe,        \* there is a file at the path of the executable
    old,        \* there is one at <name>_oldtgws.exe
    image,      \* which of the two the process runs from: Windows keeps that file
    cleaned,    \* _cleanup_old_exes has run
    failures, updates,
    overlap,    \* history: two processes were in acquire_lock at once
    disturbed,  \* history: a process was killed, or quit, during a hand-over
    failed      \* history: what has failed without anybody noticing

instVars == <<mutex, lockFile, todo, dead>>
fileVars == <<exe, old, image, cleaned>>
bounds == <<failures, updates>>
history == <<overlap, disturbed, failed>>
vars == <<mutexApi, pc, upd, instVars, fileVars, bounds, history>>

Acquiring == {"starting", "scanning", "unlinking", "creating"}
HandOver == {"released", "spawned"}
Alive(p) == pc[p] \notin {"off", "gone"}

\* A bound.
MayFail == failures + Cardinality(failed) < MaxFailures

\* Something fails unnoticed: a lock file that cannot be written, a rename that is
\* not rolled back, a program that does not start.
Fails(what) == MayFail /\ failed' = failed \cup {what}

TypeOK ==
    /\ mutexApi \in BOOLEAN
    /\ pc \in [Pid -> Acquiring \cup {"off", "refused", "up", "leaving", "gone"}]
    /\ mutex \subseteq Pid
    /\ lockFile \in [Pid -> {"none", "empty", "whole", "stale"}]
    /\ todo \in [Pid -> SUBSET Pid] /\ dead \in [Pid -> SUBSET Pid]
    /\ upd \in [Pid -> {"none", "downloaded", "moved", "swapped"} \cup HandOver]
    /\ exe \in BOOLEAN /\ old \in BOOLEAN
    /\ image \in [Pid -> {"none", "exe", "old"}]
    /\ cleaned \subseteq Pid
    /\ failures \in 0 .. MaxFailures /\ updates \in 0 .. MaxUpdates
    /\ overlap \in BOOLEAN /\ disturbed \in BOOLEAN
    /\ failed \subseteq {"lock", "rollback", "launch"}

Init ==
    /\ mutexApi \in BOOLEAN
    /\ pc = [p \in Pid |-> "off"] /\ upd = [p \in Pid |-> "none"]
    /\ mutex = {} /\ lockFile = [p \in Pid |-> "none"]
    /\ todo = [p \in Pid |-> {}] /\ dead = [p \in Pid |-> {}]
    /\ exe = TRUE /\ old = FALSE
    /\ image = [p \in Pid |-> "none"] /\ cleaned = {}
    /\ failures = 0 /\ updates = 0
    /\ overlap = FALSE /\ disturbed = FALSE /\ failed = {}

-----------------------------------------------------------------------------
(* Starting.                                                               *)

\* A bound: pids are alike, and taken in order, unless an earlier boot has left
\* a lock file of one.
InOrder(p) ==
    \/ \E q \in Pid : pc[q] = "off" /\ lockFile[q] # "none"
    \/ \A q \in Pid : q < p => pc[q] # "off"

Begin(p) ==
    /\ pc[p] = "off" /\ exe /\ InOrder(p)
    /\ pc' = [pc EXCEPT ![p] = "starting"]
    /\ image' = [image EXCEPT ![p] = "exe"]
    /\ overlap' = (overlap \/ (~mutexApi /\ \E q \in Pid : pc[q] \in Acquiring))

\* Bounds: a pid is left for the process an update will start, and when two
\* starts have overlapped, of which nothing is claimed, no third one follows.
PidLeft ==
    Cardinality({q \in Pid : pc[q] = "off"}) > Cardinality({q \in Pid : upd[q] # "none"})

\* The user opens the application.
Open(p) ==
    /\ Begin(p)
    /\ ~overlap /\ PidLeft
    /\ UNCHANGED <<mutexApi, upd, instVars, exe, old, cleaned, bounds, disturbed, failed>>

\* Mutant: the mutex is taken whoever has it.
TakeMutexAnyway(p) ==
    /\ pc[p] = "starting" /\ mutexApi
    /\ mutex' = mutex \cup {p} /\ pc' = [pc EXCEPT ![p] = "up"]
    /\ UNCHANGED <<mutexApi, upd, lockFile, todo, dead, fileVars, bounds, history>>

TakeMutex(p) ==
    /\ pc[p] = "starting" /\ mutexApi
    /\ \/ mutex = {} /\ mutex' = {p} /\ pc' = [pc EXCEPT ![p] = "up"]
       \/ mutex # {} /\ pc' = [pc EXCEPT ![p] = "refused"] /\ UNCHANGED mutex
    /\ UNCHANGED <<mutexApi, upd, lockFile, todo, dead, fileVars, bounds, history>>

\* acquire_lock lists the lock files.
ListLocks(p) ==
    /\ pc[p] = "starting" /\ ~mutexApi
    /\ pc' = [pc EXCEPT ![p] = "scanning"]
    /\ todo' = [todo EXCEPT ![p] = {q \in Pid : lockFile[q] # "none"}]
    /\ UNCHANGED <<mutexApi, upd, mutex, lockFile, dead, fileVars, bounds, history>>

\* Mutant: the creation time is not compared.
SameName(q) == Frozen /\ Alive(q)

\* A process of another program has another name, so that only the processes of
\* the application matter.  A file without a creation time, or one that is gone
\* since it was listed, leaves the name to decide.
SameProcess(q) == Frozen /\ Alive(q) /\ lockFile[q] # "stale"

Examine(p, q) ==
    /\ pc[p] = "scanning" /\ q \in todo[p]
    /\ \/ /\ SameProcess(q)
          /\ pc' = [pc EXCEPT ![p] = "refused"]
          /\ todo' = [todo EXCEPT ![p] = {}] /\ UNCHANGED dead
       \/ /\ ~SameProcess(q)
          /\ pc' = [pc EXCEPT ![p] = "unlinking"]
          /\ todo' = [todo EXCEPT ![p] = @ \ {q}] /\ dead' = [dead EXCEPT ![p] = {q}]
    /\ UNCHANGED <<mutexApi, upd, mutex, lockFile, fileVars, bounds, history>>

\* Mutant: the files that are gone are dropped from the map.
UnlinkForgets(p) ==
    /\ pc[p] = "unlinking"
    /\ pc' = [pc EXCEPT ![p] = "scanning"]
    /\ dead' = [dead EXCEPT ![p] = {}]
    /\ lockFile' = [q \in Pid \ dead[p] |-> lockFile[q]]
    /\ UNCHANGED <<mutexApi, upd, mutex, todo, fileVars, bounds, history>>

\* The unlink may fail and is not tried again.
Unlink(p) ==
    /\ pc[p] = "unlinking"
    /\ pc' = [pc EXCEPT ![p] = "scanning"]
    /\ dead' = [dead EXCEPT ![p] = {}]
    /\ \/ lockFile' = [q \in Pid |-> IF q \in dead[p] THEN "none" ELSE lockFile[q]]
       \/ UNCHANGED lockFile
    /\ UNCHANGED <<mutexApi, upd, mutex, todo, fileVars, bounds, history>>

\* Mutant: a start does not leave a lock file.
SkipLock(p) ==
    /\ pc[p] = "scanning" /\ todo[p] = {}
    /\ pc' = [pc EXCEPT ![p] = "creating"]
    /\ UNCHANGED <<mutexApi, upd, instVars, fileVars, bounds, history>>

\* A lock file that cannot be opened is done without: there is none, or the one
\* of an earlier process that could not be unlinked.
CreateLock(p) ==
    /\ pc[p] = "scanning" /\ todo[p] = {}
    /\ \/ /\ pc' = [pc EXCEPT ![p] = "creating"]
          /\ lockFile' = [lockFile EXCEPT ![p] = "empty"]
          /\ UNCHANGED failed
       \/ /\ pc' = [pc EXCEPT ![p] = "up"]
          /\ Fails("lock")
          /\ UNCHANGED lockFile
    /\ UNCHANGED <<mutexApi, upd, mutex, todo, dead, fileVars, bounds, overlap, disturbed>>

\* The creation time is written, or cannot be and the file stays empty.
WriteLock(p) ==
    /\ pc[p] = "creating"
    /\ pc' = [pc EXCEPT ![p] = "up"]
    /\ lockFile' \in {lockFile, [lockFile EXCEPT ![p] = "whole"]}
    /\ UNCHANGED <<mutexApi, upd, mutex, todo, dead, fileVars, bounds, history>>

-----------------------------------------------------------------------------
(* Ending.                                                                 *)

End(p) ==
    /\ pc' = [pc EXCEPT ![p] = "gone"]
    /\ upd' = [upd EXCEPT ![p] = "none"]
    /\ image' = [image EXCEPT ![p] = "none"]
    /\ mutex' = mutex \ {p} /\ cleaned' = cleaned \ {p}
    /\ todo' = [todo EXCEPT ![p] = {}] /\ dead' = [dead EXCEPT ![p] = {}]

\* run_tray has returned: main() gives up the lock file, whose unlink may fail,
\* and the mutex.
Quit(p) ==
    /\ pc[p] = "up"
    /\ pc' = [pc EXCEPT ![p] = "leaving"]
    /\ mutex' = mutex \ {p}
    /\ \/ /\ lockFile' = IF mutexApi THEN lockFile ELSE [lockFile EXCEPT ![p] = "none"]
          /\ UNCHANGED failures
       \/ ~mutexApi /\ MayFail /\ failures' = failures + 1 /\ UNCHANGED lockFile
    /\ disturbed' = (disturbed \/ upd[p] # "none")
    /\ UNCHANGED <<mutexApi, upd, todo, dead, fileVars, updates, overlap, failed>>

\* The interpreter ends; so does a process whose notice is closed.
Leave(p) ==
    /\ pc[p] \in {"leaving", "refused"}
    /\ End(p)
    /\ UNCHANGED <<mutexApi, lockFile, exe, old, bounds, history>>

\* A crash, or os._exit of _on_exit: nothing is given up but what the system
\* takes back.
Kill(p) ==
    /\ Alive(p) /\ MayFail
    /\ failures' = failures + 1 /\ disturbed' = TRUE
    /\ End(p)
    /\ UNCHANGED <<mutexApi, lockFile, exe, old, updates, overlap, failed>>

Reboot ==
    /\ MayFail /\ \E p \in Pid : pc[p] # "off"
    /\ failures' = failures + 1 /\ disturbed' = TRUE
    /\ pc' = [p \in Pid |-> "off"] /\ upd' = [p \in Pid |-> "none"]
    /\ image' = [p \in Pid |-> "none"] /\ cleaned' = {} /\ mutex' = {}
    /\ todo' = [p \in Pid |-> {}] /\ dead' = [p \in Pid |-> {}]
    /\ lockFile' = [p \in Pid |-> IF lockFile[p] = "whole" THEN "stale" ELSE lockFile[p]]
    /\ UNCHANGED <<mutexApi, exe, old, updates, overlap, failed>>

-----------------------------------------------------------------------------
(* The self-update.                                                        *)

\* Windows does not unlink the file a process runs from.
InUse(name) == \E p \in Pid : image[p] = name

Renamed(from, to) == [p \in Pid |-> IF image[p] = from THEN to ELSE image[p]]

\* The new executable is downloaded to a temporary file.  When that fails nothing
\* has changed; then, and when a later step fails, the buttons are enabled and
\* the user may try again.
Download(p) ==
    /\ pc[p] = "up" /\ Frozen /\ upd[p] = "none" /\ updates < MaxUpdates
    /\ PidLeft
    /\ updates' = updates + 1
    /\ upd' = [upd EXCEPT ![p] = "downloaded"]
    /\ UNCHANGED <<mutexApi, pc, instVars, fileVars, failures, history>>

\* The leftover of an earlier update is unlinked and the running executable
\* renamed to its name; either may fail.
MoveOld(p) ==
    /\ pc[p] \in {"up", "leaving"} /\ upd[p] = "downloaded"
    /\ \/ /\ exe /\ ~(old /\ InUse("old"))
          /\ exe' = FALSE /\ old' = TRUE /\ image' = Renamed("exe", "old")
          /\ upd' = [upd EXCEPT ![p] = "moved"]
       \/ /\ upd' = [upd EXCEPT ![p] = "none"]
          /\ old' \in {old, old /\ InUse("old")}
          /\ UNCHANGED <<exe, image>>
    /\ UNCHANGED <<mutexApi, pc, instVars, cleaned, bounds, history>>

\* Mutant: a failing rename is not rolled back but cleaned up.
MoveNewNoRollback(p) ==
    /\ pc[p] \in {"up", "leaving"} /\ upd[p] = "moved"
    /\ \/ /\ ~exe /\ exe' = TRUE /\ upd' = [upd EXCEPT ![p] = "swapped"]
       \/ /\ upd' = [upd EXCEPT ![p] = "none"] /\ UNCHANGED exe
    /\ UNCHANGED <<mutexApi, pc, instVars, old, image, cleaned, bounds, history>>

\* The new executable gets the name; if that fails the old one is to get it back,
\* and if that fails too nothing has it: nobody is told (`except OSError: pass`).
MoveNew(p) ==
    /\ pc[p] \in {"up", "leaving"} /\ upd[p] = "moved"
    /\ \/ /\ ~exe /\ exe' = TRUE /\ upd' = [upd EXCEPT ![p] = "swapped"]
          /\ UNCHANGED <<old, image, failed>>
       \/ /\ ~exe /\ old /\ upd' = [upd EXCEPT ![p] = "none"]
          /\ exe' = TRUE /\ old' = FALSE /\ image' = Renamed("old", "exe")
          /\ UNCHANGED failed
       \/ /\ upd' = [upd EXCEPT ![p] = "none"]
          /\ Fails("rollback")
          /\ UNCHANGED <<exe, old, image>>
    /\ UNCHANGED <<mutexApi, pc, instVars, cleaned, bounds, overlap, disturbed>>

\* Mutant: the mutex is kept until the process ends.
KeepMutex(p) ==
    /\ pc[p] \in {"up", "leaving"} /\ upd[p] = "swapped"
    /\ upd' = [upd EXCEPT ![p] = "released"]
    /\ UNCHANGED <<mutexApi, pc, instVars, fileVars, bounds, history>>

\* The mutex is released; the lock file of acquire_lock is not.
ReleaseMutex(p) ==
    /\ pc[p] \in {"up", "leaving"} /\ upd[p] = "swapped"
    /\ upd' = [upd EXCEPT ![p] = "released"]
    /\ mutex' = mutex \ {p}
    /\ UNCHANGED <<mutexApi, pc, lockFile, todo, dead, fileVars, bounds, history>>

\* The proxy has been stopped and Popen starts the new executable.  It fails
\* without one, and may fail with it (blocked, or damaged in the download); this
\* is logged, and the process ends all the same.
Spawn(p) ==
    /\ pc[p] \in {"up", "leaving"} /\ upd[p] = "released"
    /\ upd' = [upd EXCEPT ![p] = "spawned"]
    /\ \/ (\E q \in Pid : Begin(q)) /\ UNCHANGED failed
       \/ exe /\ Fails("launch") /\ UNCHANGED <<pc, image, overlap>>
       \/ ~exe /\ UNCHANGED <<pc, image, overlap, failed>>
    /\ UNCHANGED <<mutexApi, instVars, exe, old, cleaned, bounds, disturbed>>

\* os._exit half a second later.
ExitOld(p) ==
    /\ pc[p] \in {"up", "leaving"} /\ upd[p] = "spawned"
    /\ End(p)
    /\ UNCHANGED <<mutexApi, lockFile, exe, old, bounds, history>>

\* _cleanup_old_exes, three seconds after the start, in a thread of its own.
CleanUp(p) ==
    /\ pc[p] \in {"up", "leaving"} /\ Frozen /\ p \notin cleaned
    /\ cleaned' = cleaned \cup {p}
    /\ old' = (old /\ InUse("old"))
    /\ UNCHANGED <<mutexApi, pc, upd, instVars, exe, image, bounds, history>>

Start(p) ==
    TakeMutex(p) \/ ListLocks(p) \/ (\E q \in Pid : Examine(p, q)) \/ Unlink(p)
    \/ CreateLock(p) \/ WriteLock(p)
Update(p) == MoveOld(p) \/ MoveNew(p) \/ ReleaseMutex(p) \/ Spawn(p) \/ ExitOld(p)

Next ==
    \/ \E p \in Pid :
          \/ Open(p) \/ Start(p) \/ Quit(p) \/ Leave(p) \/ Kill(p)
          \/ Download(p) \/ Update(p) \/ CleanUp(p)
    \/ Reboot

Spec == Init /\ [][Next]_vars

\* The system runs every thread that can go on.
FairSpec == Spec /\ \A p \in Pid : WF_vars(Start(p)) /\ WF_vars(Update(p))

-----------------------------------------------------------------------------
(* Properties.                                                             *)

Owner(p) == pc[p] = "up" /\ upd[p] \notin HandOver

\* With the mutex at most one instance runs that is not handing over to its
\* update, whatever was killed; and with lock files too, whatever files earlier
\* boots have left, as long as no two starts overlap and none had to do without
\* its lock file.
OneInstance ==
    ~overlap /\ "lock" \notin failed => \A p, q \in Pid : Owner(p) /\ Owner(q) => p = q

\* A start is refused only on account of another process of the application, as
\* long as no two starts overlap; a lock file of an earlier process with a pid
\* that is in use again does not keep it from starting, unless that file was
\* left without creation time.
RefusedForAnother ==
    [][\A p \in Pid : ~overlap /\ pc[p] # "refused" /\ pc'[p] = "refused" =>
          \E q \in Pid : \/ q # p /\ pc[q] \in Acquiring \cup {"up", "leaving"}
                         \/ lockFile[q] = "empty"]_vars

\* An executable is left whatever becomes of an update: but for the moment between
\* two renames it is in its place, and where a crash or an exit makes that moment
\* last, or the rename that was to end it has failed, the old one is still there
\* under its other name.  No clean-up and no second update removes it.
ExecutableKept ==
    ~exe =>
        /\ old
        /\ disturbed \/ "rollback" \in failed \/ \E p \in Pid : upd[p] = "moved"

\* With the mutex an update that has given it up ends with another instance
\* running, unless a process is killed, the user quits it meanwhile, or an
\* executable that is in its place cannot be started.
UpdateRestarts ==
    \A p \in Pid :
       (mutexApi /\ upd[p] = "released")
          ~> (disturbed \/ "launch" \in failed \/ \E q \in Pid \ {p} : pc[q] = "up")

=============================================================================
