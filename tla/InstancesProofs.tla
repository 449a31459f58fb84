--------------------------- MODULE InstancesProofs ---------------------------
(***************************************************************************)
(* The self-update and the single instance of Instances, for any set of    *)
(* pids, any number of updates, crashes and reboots: the executable can be *)
(* started again, and one instance runs.                                   *)
(***************************************************************************)
EXTENDS Instances, FiniteSetTheorems, TLAPS

Phases == Acquiring \cup {"off", "refused", "up", "leaving", "gone"}

UpdShape ==
    /\ pc \in [Pid -> Phases]
    /\ upd \in [Pid -> {"none", "downloaded", "moved", "swapped"} \cup HandOver]
    /\ image \in [Pid -> {"none", "exe", "old"}]

\* A living process runs from a file, and that file is there.
ImageInv ==
    \A p \in Pid :
        /\ Alive(p) <=> image[p] # "none"
        /\ image[p] = "exe" => exe
        /\ image[p] = "old" => old

\* Only a process that is up, or quits, is in an update; who quits from one
\* has disturbed it.
UpdInv ==
    \A p \in Pid : upd[p] # "none" =>
        pc[p] = "up" \/ (pc[p] = "leaving" /\ disturbed)

KeptInv == UpdShape /\ ImageInv /\ UpdInv /\ ExecutableKept

-----------------------------------------------------------------------------
\* The invariant of the files holds before the first start.
LEMMA KeptInvInit == Init => KeptInv
  BY DEF Init, KeptInv, UpdShape, ImageInv, UpdInv, ExecutableKept, Phases,
     Acquiring, HandOver, Alive

\* A start of a process that was off keeps what is known of the files.
LEMMA BeginKeeps ==
  ASSUME UpdShape, ImageInv, NEW q \in Pid, Begin(q), exe' = exe, old' = old
  PROVE  /\ pc' \in [Pid -> Phases] /\ image' \in [Pid -> {"none", "exe", "old"}]
         /\ ImageInv' /\ pc[q] = "off"
         /\ \A p \in Pid \ {q} : pc'[p] = pc[p]
  BY DEF Begin, UpdShape, ImageInv, Alive, Phases, Acquiring

\* The end of a process keeps what is known of the files.
LEMMA EndKeeps ==
  ASSUME UpdShape, ImageInv, UpdInv, NEW p \in Pid, End(p),
         disturbed => disturbed', exe' = exe, old' = old
  PROVE  /\ UpdShape' /\ ImageInv' /\ UpdInv'
         /\ \A q \in Pid \ {p} : upd'[q] = upd[q]
  BY DEF End, UpdShape, ImageInv, UpdInv, Alive, Phases, Acquiring

\* A step of main() up to the end of acquire_lock leaves the files alone, and
\* its process alive.
LEMMA StartKeeps ==
  ASSUME UpdShape, NEW p \in Pid, Start(p)
  PROVE  /\ UNCHANGED <<mutexApi, upd, fileVars, overlap, disturbed>>
         /\ failed \subseteq failed'
         /\ pc[p] \in Acquiring
         /\ pc'[p] \in (Acquiring \ {"starting"}) \cup {"up", "refused"}
         /\ pc' \in [Pid -> Phases]
         /\ \A q \in Pid \ {p} : pc'[q] = pc[q]
  BY DEF Start, TakeMutex, ListLocks, Examine, Unlink, CreateLock, WriteLock,
     UpdShape, Phases, Acquiring, instVars, history, Fails

\* Every step keeps the invariant of the files.
LEMMA KeptInvNext == KeptInv /\ [Next]_vars => KeptInv'
<1> SUFFICES ASSUME KeptInv, [Next]_vars PROVE KeptInv'
  OBVIOUS
<1> USE DEF KeptInv
<1>1. CASE UNCHANGED vars
  BY <1>1 DEF UpdShape, ImageInv, UpdInv, ExecutableKept, Alive, vars, fileVars,
     history
<1>2. ASSUME NEW p \in Pid, Open(p) PROVE KeptInv'
  <2>1. Begin(p) /\ UNCHANGED <<upd, exe, old, disturbed, failed>>
    BY <1>2 DEF Open
  <2> QED
    BY <2>1, BeginKeeps DEF UpdShape, UpdInv, ExecutableKept
<1>3. ASSUME NEW p \in Pid, Start(p) PROVE KeptInv'
  <2>1. /\ UNCHANGED <<upd, fileVars, disturbed>> /\ failed \subseteq failed'
        /\ pc[p] \in Acquiring
        /\ pc'[p] \in (Acquiring \ {"starting"}) \cup {"up", "refused"}
        /\ pc' \in [Pid -> Phases]
        /\ \A q \in Pid \ {p} : pc'[q] = pc[q]
    BY <1>3, StartKeeps
  <2> QED
    BY <2>1 DEF UpdShape, ImageInv, UpdInv, ExecutableKept, Alive, Acquiring, fileVars
<1>4. ASSUME NEW p \in Pid, Quit(p) PROVE KeptInv'
  <2>1. UpdShape' /\ ImageInv'
    BY <1>4 DEF Quit, UpdShape, ImageInv, Alive, Phases, fileVars
  <2>2. UpdInv' /\ ExecutableKept'
    BY <1>4 DEF Quit, UpdShape, UpdInv, ExecutableKept, fileVars
  <2> QED BY <2>1, <2>2
<1>5. ASSUME NEW p \in Pid, Leave(p) PROVE KeptInv'
  <2>1. End(p) /\ UNCHANGED <<exe, old, disturbed, failed>>
    BY <1>5 DEF Leave, history
  <2>2. upd[p] = "none" \/ disturbed
    BY <1>5 DEF Leave, UpdInv
  <2> QED BY <2>1, <2>2, EndKeeps DEF ExecutableKept
<1>6. ASSUME NEW p \in Pid, Kill(p) PROVE KeptInv'
  <2>1. End(p) /\ UNCHANGED <<exe, old>> /\ disturbed'
    BY <1>6 DEF Kill
  <2> QED BY <2>1, EndKeeps DEF ExecutableKept
<1>7. ASSUME NEW p \in Pid, Download(p) PROVE KeptInv'
  BY <1>7 DEF Download, UpdShape, ImageInv, UpdInv, ExecutableKept, Alive,
     fileVars, history
<1>8. ASSUME NEW p \in Pid, MoveOld(p) PROVE KeptInv'
  <2>0. image[p] # "none" /\ (~exe => image[p] = "old")
    BY <1>8 DEF MoveOld, UpdShape, ImageInv, Alive
  <2>1. UNCHANGED <<pc, history>> /\ UpdShape' /\ UpdInv'
    BY <1>8 DEF MoveOld, UpdShape, UpdInv, Renamed, history
  <2>2. ASSUME exe, exe' = FALSE, old' = TRUE, image' = Renamed("exe", "old"),
               upd'[p] = "moved"
        PROVE  ImageInv' /\ ExecutableKept'
    BY <2>1, <2>2 DEF UpdShape, ImageInv, ExecutableKept, Renamed, Alive
  <2>3. ASSUME upd' = [upd EXCEPT ![p] = "none"], UNCHANGED <<exe, image>>,
               old /\ InUse("old") => old'
        PROVE  ImageInv' /\ ExecutableKept'
    <3>1. ImageInv'
      BY <2>1, <2>3 DEF UpdShape, ImageInv, InUse, Alive
    <3>2. ASSUME ~exe
          PROVE  /\ old'
                 /\ disturbed' \/ "rollback" \in failed' \/ \E q \in Pid : upd'[q] = "moved"
      <4>1. old /\ InUse("old")
        BY <2>0, <3>2 DEF ExecutableKept, InUse
      <4>2. ASSUME NEW q \in Pid, upd[q] = "moved" PROVE upd'[q] = "moved"
        BY <1>8, <2>3, <4>2 DEF MoveOld, UpdShape
      <4> QED BY <2>1, <2>3, <3>2, <4>1, <4>2 DEF ExecutableKept, history
    <3> QED BY <2>3, <3>1, <3>2 DEF ExecutableKept
  <2>4. ASSUME old' \in {old, old /\ InUse("old")}, old, InUse("old") PROVE old'
    <3>1. CASE old' = old
      BY <2>4, <3>1
    <3>2. CASE old' = (old /\ InUse("old"))
      BY <2>4, <3>2
    <3> QED BY <2>4, <3>1, <3>2
  <2> QED BY <1>8, <2>1, <2>2, <2>3, <2>4 DEF MoveOld, UpdShape
<1>9. ASSUME NEW p \in Pid, MoveNew(p) PROVE KeptInv'
  <2>1. /\ UNCHANGED <<pc, disturbed>> /\ failed \subseteq failed'
        /\ UpdShape' /\ UpdInv'
    BY <1>9 DEF MoveNew, UpdShape, UpdInv, Renamed, Fails
  <2>2. CASE exe' = TRUE /\ UNCHANGED <<old, image>>
    BY <2>1, <2>2 DEF UpdShape, ImageInv, ExecutableKept, Alive
  <2>3. CASE exe' = TRUE /\ image' = Renamed("old", "exe")
    BY <2>1, <2>3 DEF UpdShape, ImageInv, ExecutableKept, Renamed, Alive
  <2>4. CASE Fails("rollback") /\ UNCHANGED <<exe, old, image>>
    BY <2>1, <2>4 DEF UpdShape, ImageInv, ExecutableKept, Fails, Alive
  <2> QED BY <1>9, <2>2, <2>3, <2>4 DEF MoveNew
<1>10. ASSUME NEW p \in Pid, ReleaseMutex(p) PROVE KeptInv'
  BY <1>10 DEF ReleaseMutex, UpdShape, ImageInv, UpdInv, ExecutableKept, Alive,
     HandOver, fileVars, history
<1>11. ASSUME NEW p \in Pid, Spawn(p) PROVE KeptInv'
  <2>1. /\ upd[p] = "released" /\ upd' = [upd EXCEPT ![p] = "spawned"]
        /\ pc[p] \in {"up", "leaving"} /\ UNCHANGED <<exe, old, disturbed>>
        /\ failed \subseteq failed'
    BY <1>11 DEF Spawn, Fails
  <2>2. ASSUME NEW q \in Pid, Begin(q) PROVE KeptInv'
    <3>1. /\ pc' \in [Pid -> Phases] /\ image' \in [Pid -> {"none", "exe", "old"}]
          /\ ImageInv' /\ pc[q] = "off"
          /\ \A r \in Pid \ {q} : pc'[r] = pc[r]
      BY <2>1, <2>2, BeginKeeps
    <3> QED BY <2>1, <3>1 DEF UpdShape, UpdInv, ExecutableKept, HandOver
  <2>3. CASE UNCHANGED <<pc, image>>
    BY <2>1, <2>3 DEF UpdShape, ImageInv, UpdInv, ExecutableKept, Alive, HandOver
  <2> QED BY <1>11, <2>2, <2>3 DEF Spawn
<1>12. ASSUME NEW p \in Pid, ExitOld(p) PROVE KeptInv'
  <2>1. End(p) /\ UNCHANGED <<exe, old, disturbed, failed>> /\ upd[p] = "spawned"
    BY <1>12 DEF ExitOld, history
  <2> QED BY <2>1, EndKeeps DEF ExecutableKept
<1>13. ASSUME NEW p \in Pid, CleanUp(p) PROVE KeptInv'
  <2>1. image[p] # "none" /\ (~exe => image[p] = "old")
    BY <1>13 DEF CleanUp, UpdShape, ImageInv, Alive
  <2> QED
    BY <1>13, <2>1 DEF CleanUp, UpdShape, ImageInv, UpdInv, ExecutableKept, InUse,
       Alive, history
<1>14. CASE Reboot
  BY <1>14 DEF Reboot, UpdShape, ImageInv, UpdInv, ExecutableKept, Alive, Phases
<1> QED
  BY <1>1, <1>2, <1>3, <1>4, <1>5, <1>6, <1>7, <1>8, <1>9, <1>10, <1>11, <1>12,
     <1>13, <1>14 DEF Next, Update

\* _perform_update and _cleanup_old_exes: but for the moment between the two
\* renames the executable is in its place, and where a crash, an exit or a rename
\* that fails makes that moment last, the old one is kept under its other name.
THEOREM ExecutableStays == Spec => []ExecutableKept
<1>1. KeptInv => ExecutableKept
  BY DEF KeptInv
<1> QED BY <1>1, KeptInvInit, KeptInvNext, PTL DEF Spec

-----------------------------------------------------------------------------
\* The types hold before the first start.
LEMMA TypeInit == Init => TypeOK
<1> SUFFICES ASSUME Init PROVE TypeOK
  OBVIOUS
<1>1. /\ pc \in [Pid -> Acquiring \cup {"off", "refused", "up", "leaving", "gone"}]
      /\ lockFile \in [Pid -> {"none", "empty", "whole", "stale"}]
      /\ todo \in [Pid -> SUBSET Pid] /\ dead \in [Pid -> SUBSET Pid]
      /\ upd \in [Pid -> {"none", "downloaded", "moved", "swapped"} \cup HandOver]
      /\ image \in [Pid -> {"none", "exe", "old"}]
  BY DEF Init
<1>2. /\ mutexApi \in BOOLEAN /\ exe \in BOOLEAN /\ old \in BOOLEAN
      /\ overlap \in BOOLEAN /\ disturbed \in BOOLEAN
      /\ failed \subseteq {"lock", "rollback", "launch"}
  BY DEF Init
<1>3. failures \in 0 .. MaxFailures /\ updates \in 0 .. MaxUpdates
  BY InstancesAssumption DEF Init
<1>4. mutex \subseteq Pid /\ cleaned \subseteq Pid
  BY DEF Init
<1> QED BY <1>1, <1>2, <1>3, <1>4 DEF TypeOK

\* One more failure is within the bound while another may happen.
LEMMA FailuresBounded ==
  ASSUME TypeOK, MayFail
  PROVE  failures + 1 \in 0 .. MaxFailures
<1>1. IsFiniteSet(failed)
  <2>1. IsFiniteSet({"lock", "rollback", "launch"})
    <3>1. IsFiniteSet({"lock"}) /\ IsFiniteSet({"rollback"}) /\ IsFiniteSet({"launch"})
      BY FS_Singleton
    <3>2. IsFiniteSet({"lock"} \cup {"rollback"})
      BY <3>1, FS_Union, Zenon
    <3>3. IsFiniteSet(({"lock"} \cup {"rollback"}) \cup {"launch"})
      BY <3>1, <3>2, FS_Union, Zenon
    <3>4. ({"lock"} \cup {"rollback"}) \cup {"launch"} = {"lock", "rollback", "launch"}
      OBVIOUS
    <3> QED BY <3>3, <3>4
  <2> QED BY <2>1, FS_Subset DEF TypeOK
<1>2. Cardinality(failed) \in Nat
  BY <1>1, FS_CardinalityType
<1> QED BY <1>2, InstancesAssumption DEF TypeOK, MayFail

\* Every step keeps the types.
LEMMA TypeNext == TypeOK /\ [Next]_vars => TypeOK'
<1> SUFFICES ASSUME TypeOK, [Next]_vars PROVE TypeOK'
  OBVIOUS
<1> USE InstancesAssumption DEF Acquiring, HandOver
<1>1. CASE UNCHANGED vars
  BY <1>1 DEF TypeOK, vars, instVars, fileVars, bounds, history
<1>2. ASSUME NEW p \in Pid, Open(p) PROVE TypeOK'
  <2>1. pc' \in [Pid -> Acquiring \cup {"off", "refused", "up", "leaving", "gone"}]
        /\ image' \in [Pid -> {"none", "exe", "old"}] /\ overlap' \in BOOLEAN
    BY <1>2 DEF Open, Begin, TypeOK
  <2> QED BY <1>2, <2>1 DEF Open, TypeOK, instVars, bounds
<1>3. ASSUME NEW p \in Pid, TakeMutex(p) PROVE TypeOK'
  <2>1. pc' \in [Pid -> Acquiring \cup {"off", "refused", "up", "leaving", "gone"}]
    BY <1>3 DEF TakeMutex, TypeOK
  <2>2. mutex' \subseteq Pid
    BY <1>3 DEF TakeMutex, TypeOK
  <2> QED BY <1>3, <2>1, <2>2 DEF TakeMutex, TypeOK, fileVars, bounds, history
<1>4. ASSUME NEW p \in Pid, ListLocks(p) PROVE TypeOK'
  BY <1>4 DEF ListLocks, TypeOK, fileVars, bounds, history
<1>5. ASSUME NEW p \in Pid, NEW q \in Pid, Examine(p, q) PROVE TypeOK'
  <2>1. pc' \in [Pid -> Acquiring \cup {"off", "refused", "up", "leaving", "gone"}]
    BY <1>5 DEF Examine, TypeOK
  <2>2. todo' \in [Pid -> SUBSET Pid] /\ dead' \in [Pid -> SUBSET Pid]
    BY <1>5 DEF Examine, TypeOK
  <2> QED BY <1>5, <2>1, <2>2 DEF Examine, TypeOK, fileVars, bounds, history
<1>6. ASSUME NEW p \in Pid, Unlink(p) PROVE TypeOK'
  <2>1. lockFile' \in [Pid -> {"none", "empty", "whole", "stale"}]
    BY <1>6 DEF Unlink, TypeOK
  <2>2. dead' \in [Pid -> SUBSET Pid]
    BY <1>6 DEF Unlink, TypeOK
  <2> QED BY <1>6, <2>1, <2>2 DEF Unlink, TypeOK, fileVars, bounds, history
<1>7. ASSUME NEW p \in Pid, CreateLock(p) PROVE TypeOK'
  <2>1. pc' \in [Pid -> Acquiring \cup {"off", "refused", "up", "leaving", "gone"}]
    BY <1>7 DEF CreateLock, TypeOK
  <2>2. lockFile' \in [Pid -> {"none", "empty", "whole", "stale"}]
    BY <1>7 DEF CreateLock, TypeOK
  <2>3. failed' \subseteq {"lock", "rollback", "launch"}
    BY <1>7 DEF CreateLock, Fails, TypeOK
  <2> QED BY <1>7, <2>1, <2>2, <2>3 DEF CreateLock, TypeOK, fileVars, bounds
<1>8. ASSUME NEW p \in Pid, WriteLock(p) PROVE TypeOK'
  <2>1. lockFile' \in [Pid -> {"none", "empty", "whole", "stale"}]
    BY <1>8 DEF WriteLock, TypeOK
  <2> QED BY <1>8, <2>1 DEF WriteLock, TypeOK, fileVars, bounds, history
<1>9. ASSUME NEW p \in Pid, Quit(p) PROVE TypeOK'
  <2>1. lockFile' \in [Pid -> {"none", "empty", "whole", "stale"}]
    BY <1>9 DEF Quit, TypeOK
  <2>2. failures' \in 0 .. MaxFailures
    BY <1>9, FailuresBounded DEF Quit, TypeOK
  <2> QED BY <1>9, <2>1, <2>2 DEF Quit, TypeOK, fileVars
<1>10. ASSUME NEW p \in Pid, End(p), UNCHANGED <<mutexApi, lockFile, exe, old>>,
              failures' \in 0 .. MaxFailures, updates' = updates,
              overlap' = overlap, disturbed' \in BOOLEAN, failed' = failed
       PROVE  TypeOK'
  BY <1>10 DEF End, TypeOK
<1>11. ASSUME NEW p \in Pid, Leave(p) \/ ExitOld(p) PROVE TypeOK'
  BY <1>10, <1>11 DEF Leave, ExitOld, TypeOK, bounds, history
<1>12. ASSUME NEW p \in Pid, Kill(p) PROVE TypeOK'
  <2>1. failures' \in 0 .. MaxFailures
    BY <1>12, FailuresBounded DEF Kill, TypeOK
  <2> QED BY <1>10, <1>12, <2>1 DEF Kill
<1>13. ASSUME NEW p \in Pid, Download(p) PROVE TypeOK'
  BY <1>13 DEF Download, TypeOK, instVars, fileVars, history
<1>14. ASSUME NEW p \in Pid, MoveOld(p) PROVE TypeOK'
  <2>1. image' \in [Pid -> {"none", "exe", "old"}]
    <3>1. Renamed("exe", "old") \in [Pid -> {"none", "exe", "old"}]
      BY DEF Renamed, TypeOK
    <3>2. image' = image \/ image' = Renamed("exe", "old")
      BY <1>14 DEF MoveOld
    <3> QED BY <3>1, <3>2 DEF TypeOK
  <2>2. exe' \in BOOLEAN /\ old' \in BOOLEAN
    BY <1>14 DEF MoveOld, TypeOK
  <2>3. upd' \in [Pid -> {"none", "downloaded", "moved", "swapped"} \cup HandOver]
    BY <1>14 DEF MoveOld, TypeOK
  <2> QED
    BY <1>14, <2>1, <2>2, <2>3 DEF MoveOld, TypeOK, instVars, bounds, history
<1>15. ASSUME NEW p \in Pid, MoveNew(p) PROVE TypeOK'
  <2>1. image' \in [Pid -> {"none", "exe", "old"}]
    <3>1. Renamed("old", "exe") \in [Pid -> {"none", "exe", "old"}]
      BY DEF Renamed, TypeOK
    <3>2. image' = image \/ image' = Renamed("old", "exe")
      BY <1>15 DEF MoveNew
    <3> QED BY <3>1, <3>2 DEF TypeOK
  <2>2. exe' \in BOOLEAN /\ old' \in BOOLEAN
    BY <1>15 DEF MoveNew, TypeOK
  <2>3. upd' \in [Pid -> {"none", "downloaded", "moved", "swapped"} \cup HandOver]
    BY <1>15 DEF MoveNew, TypeOK
  <2>4. failed' \subseteq {"lock", "rollback", "launch"}
    BY <1>15 DEF MoveNew, Fails, TypeOK
  <2> QED
    BY <1>15, <2>1, <2>2, <2>3, <2>4 DEF MoveNew, TypeOK, instVars, bounds
<1>16. ASSUME NEW p \in Pid, ReleaseMutex(p) PROVE TypeOK'
  BY <1>16 DEF ReleaseMutex, TypeOK, fileVars, bounds, history
<1>17. ASSUME NEW p \in Pid, Spawn(p) PROVE TypeOK'
  <2>1. failed' \subseteq {"lock", "rollback", "launch"}
    BY <1>17 DEF Spawn, Fails, TypeOK
  <2> QED BY <1>17, <2>1 DEF Spawn, Begin, TypeOK, instVars, bounds
<1>18. ASSUME NEW p \in Pid, CleanUp(p) PROVE TypeOK'
  BY <1>18 DEF CleanUp, TypeOK, instVars, bounds, history
<1>19. CASE Reboot
  <2>1. lockFile' \in [Pid -> {"none", "empty", "whole", "stale"}]
    BY <1>19 DEF Reboot, TypeOK
  <2>2. failures' \in 0 .. MaxFailures
    BY <1>19, FailuresBounded DEF Reboot, TypeOK
  <2> QED BY <1>19, <2>1, <2>2 DEF Reboot, TypeOK
<1> QED
  BY <1>1, <1>2, <1>3, <1>4, <1>5, <1>6, <1>7, <1>8, <1>9, <1>11, <1>12, <1>13,
     <1>14, <1>15, <1>16, <1>17, <1>18, <1>19 DEF Next, Start, Update

\* The states of processes, lock files and updates are well-typed throughout.
THEOREM InstancesTyped == Spec => []TypeOK
  BY TypeInit, TypeNext, PTL DEF Spec

-----------------------------------------------------------------------------
\* The mutex has one owner at most, every instance is its owner, and nobody
\* looks for lock files.
MutexInv ==
    mutexApi =>
        /\ \A p \in Pid : Owner(p) => p \in mutex
        /\ \A p, q \in mutex : p = q
        /\ \A p \in Pid : pc[p] \notin {"scanning", "unlinking", "creating"}

\* What keeps a second instance away without it: one process looks for lock
\* files at a time, and as long as each could write its own, an instance has one
\* that is not stale, and whoever still looks has it before him and does not
\* unlink it.
AloneInv == \A p, q \in Pid : pc[p] \in Acquiring /\ pc[q] \in Acquiring => p = q

LookInv ==
    /\ \A p \in Pid : pc[p] = "creating" => lockFile[p] = "empty"
    /\ \A p, q \in Pid : pc[p] = "creating" => pc[q] # "up"

InstanceInv ==
    /\ \A p \in Pid : pc[p] = "up" => lockFile[p] \in {"empty", "whole"}
    /\ \A p, q \in Pid : pc[p] = "up" /\ pc[q] = "up" => p = q
    /\ \A p, q \in Pid : pc[p] \in {"scanning", "unlinking"} /\ pc[q] = "up" =>
          q \in todo[p]
    /\ \A p, q \in Pid : pc[p] = "unlinking" /\ pc[q] = "up" => q \notin dead[p]

LockInv ==
    ~mutexApi /\ Frozen /\ ~overlap =>
        AloneInv /\ ("lock" \notin failed => LookInv /\ InstanceInv)

OneInv == TypeOK /\ MutexInv /\ LockInv

-----------------------------------------------------------------------------
\* The invariant of the instances holds before the first start.
LEMMA OneInvInit == Init => OneInv
<1> SUFFICES ASSUME Init PROVE OneInv
  OBVIOUS
<1>1. TypeOK
  BY TypeInit
<1>2. MutexInv
  BY DEF Init, MutexInv, Owner
<1>3. AloneInv /\ LookInv /\ InstanceInv
  BY DEF Init, AloneInv, LookInv, InstanceInv, Acquiring
<1> QED BY <1>1, <1>2, <1>3 DEF OneInv, LockInv

\* A step that starts nobody and leaves the locks of who lives alone keeps it.
LEMMA QuietKeeps ==
  ASSUME LockInv, UNCHANGED <<mutexApi, overlap>>, failed \subseteq failed',
         \A p \in Pid : pc'[p] \in Acquiring \cup {"up"} =>
             /\ pc'[p] = pc[p] /\ lockFile'[p] = lockFile[p]
             /\ todo'[p] = todo[p] /\ dead'[p] = dead[p]
  PROVE  LockInv'
  BY DEF LockInv, AloneInv, LookInv, InstanceInv, Acquiring

\* The start of a process that was off keeps it.
LEMMA BeginLocks ==
  ASSUME TypeOK, LockInv, NEW p \in Pid, Begin(p), mutexApi' = mutexApi,
         UNCHANGED <<lockFile, todo, dead>>, failed \subseteq failed'
  PROVE  LockInv'
<1> SUFFICES ASSUME ~mutexApi', Frozen, ~overlap'
             PROVE  AloneInv' /\ ("lock" \notin failed' => LookInv' /\ InstanceInv')
  BY DEF LockInv
<1>1. /\ ~overlap /\ ("lock" \notin failed' => LookInv /\ InstanceInv)
      /\ \A q \in Pid : pc[q] \notin Acquiring
  BY DEF Begin, LockInv
<1>2. pc'[p] = "starting" /\ \A q \in Pid \ {p} : pc'[q] = pc[q]
  BY DEF Begin, TypeOK
<1>3. AloneInv'
  BY <1>1, <1>2 DEF AloneInv, Acquiring
<1>4. LookInv /\ InstanceInv => LookInv' /\ InstanceInv'
  BY <1>1, <1>2 DEF LookInv, InstanceInv, Acquiring
<1> QED BY <1>1, <1>3, <1>4

\* The steps of acquire_lock keep it.
LEMMA AcquireLocks ==
  ASSUME TypeOK, LockInv, NEW p \in Pid,
         ListLocks(p) \/ (\E q \in Pid : Examine(p, q)) \/ Unlink(p)
            \/ CreateLock(p) \/ WriteLock(p)
  PROVE  LockInv'
<1>1. UNCHANGED <<mutexApi, overlap>> /\ failed \subseteq failed'
  BY DEF ListLocks, Examine, Unlink, CreateLock, WriteLock, history, Fails
<1>a. pc[p] \in Acquiring /\ \A q \in Pid \ {p} : pc'[q] = pc[q]
  BY DEF ListLocks, Examine, Unlink, CreateLock, WriteLock, Acquiring, TypeOK
<1>b. ~mutexApi /\ Frozen /\ ~overlap => AloneInv'
  BY <1>a DEF LockInv, AloneInv
<1> SUFFICES ASSUME ~mutexApi, Frozen, ~overlap, "lock" \notin failed'
             PROVE  LookInv' /\ InstanceInv'
  BY <1>1, <1>b DEF LockInv
<1>2. AloneInv /\ LookInv /\ InstanceInv
  BY <1>1 DEF LockInv
<1>3. pc[p] \in Acquiring /\ \A q \in Pid \ {p} : pc[q] \notin Acquiring
  BY <1>2, <1>a DEF AloneInv
<1>4. CASE ListLocks(p)
  BY <1>2, <1>3, <1>4 DEF ListLocks, TypeOK, LookInv, InstanceInv, Acquiring
<1>5. ASSUME NEW q \in Pid, Examine(p, q) PROVE LookInv' /\ InstanceInv'
  <2>1. CASE SameProcess(q)
    BY <1>2, <1>3, <1>5, <2>1 DEF Examine, TypeOK, LookInv, InstanceInv, Acquiring
  <2>2. CASE ~SameProcess(q)
    <3>1. pc[q] # "up"
      BY <1>2, <2>2 DEF SameProcess, Alive, InstanceInv
    <3>2. /\ pc[p] = "scanning" /\ pc'[p] = "unlinking" /\ lockFile' = lockFile
          /\ todo'[p] = todo[p] \ {q} /\ dead'[p] = {q}
          /\ \A r \in Pid \ {p} : pc'[r] = pc[r]
      BY <1>5, <2>2 DEF Examine, TypeOK
    <3> QED BY <1>2, <1>3, <3>1, <3>2 DEF LookInv, InstanceInv, Acquiring
  <2> QED BY <2>1, <2>2
<1>6. CASE Unlink(p)
  <2>1. /\ pc[p] = "unlinking" /\ pc'[p] = "scanning" /\ todo' = todo
        /\ \A r \in Pid \ {p} : pc'[r] = pc[r]
    BY <1>6 DEF Unlink, TypeOK
  <2>2. \A r \in Pid : r \notin dead[p] => lockFile'[r] = lockFile[r]
    BY <1>6 DEF Unlink
  <2> QED BY <1>2, <1>3, <2>1, <2>2 DEF LookInv, InstanceInv, Acquiring
<1>7. CASE CreateLock(p)
  <2>1. \A q \in Pid : pc[q] # "up"
    BY <1>2, <1>7 DEF CreateLock, InstanceInv
  <2>2. pc' = [pc EXCEPT ![p] = "creating"] /\ lockFile' = [lockFile EXCEPT ![p] = "empty"]
    BY <1>7 DEF CreateLock, Fails
  <2> QED BY <1>2, <1>3, <2>1, <2>2 DEF TypeOK, LookInv, InstanceInv, Acquiring
<1>8. CASE WriteLock(p)
  <2>1. /\ pc[p] = "creating" /\ pc'[p] = "up" /\ lockFile[p] = "empty"
        /\ \A q \in Pid \ {p} : pc'[q] = pc[q]
    BY <1>2, <1>8 DEF WriteLock, TypeOK, LookInv
  <2>2. lockFile'[p] \in {"empty", "whole"}
    BY <1>8, <2>1 DEF WriteLock, TypeOK
  <2> QED BY <1>2, <1>3, <2>1, <2>2 DEF LookInv, InstanceInv, Acquiring
<1> QED BY <1>4, <1>5, <1>6, <1>7, <1>8

\* Every step keeps the invariant of the instances.
LEMMA OneInvNext == OneInv /\ [Next]_vars => OneInv'
<1> SUFFICES ASSUME OneInv, [Next]_vars PROVE OneInv'
  OBVIOUS
<1> TypeOK /\ TypeOK' /\ MutexInv /\ LockInv
  BY TypeNext DEF OneInv
<1> SUFFICES MutexInv' /\ LockInv'
  BY DEF OneInv
<1>1. CASE UNCHANGED vars
  <2>1. MutexInv'
    BY <1>1 DEF MutexInv, Owner, vars, instVars
  <2>2. LockInv'
    BY <1>1, QuietKeeps DEF vars, instVars, history
  <2> QED BY <2>1, <2>2
<1>2. ASSUME NEW p \in Pid, Begin(p), UNCHANGED <<mutexApi, instVars>>,
             failed \subseteq failed',
             \A q \in Pid : pc[q] = "up" /\ upd[q] \in HandOver => upd'[q] \in HandOver
      PROVE  MutexInv' /\ LockInv'
  <2>1. pc'[p] = "starting" /\ \A q \in Pid \ {p} : pc'[q] = pc[q]
    BY <1>2 DEF Begin, TypeOK
  <2>2. MutexInv'
    BY <1>2, <2>1 DEF MutexInv, Owner, instVars
  <2>3. LockInv'
    BY <1>2, BeginLocks DEF instVars
  <2> QED BY <2>2, <2>3
<1>3. ASSUME NEW p \in Pid, Open(p) PROVE MutexInv' /\ LockInv'
  BY <1>2, <1>3 DEF Open
<1>4. ASSUME NEW p \in Pid, TakeMutex(p) PROVE MutexInv' /\ LockInv'
  <2>1. MutexInv'
    BY <1>4 DEF TakeMutex, TypeOK, MutexInv, Owner
  <2>2. LockInv'
    BY <1>4 DEF TakeMutex, LockInv
  <2> QED BY <2>1, <2>2
<1>5. ASSUME NEW p \in Pid,
             ListLocks(p) \/ (\E q \in Pid : Examine(p, q)) \/ Unlink(p)
                \/ CreateLock(p) \/ WriteLock(p)
      PROVE  MutexInv' /\ LockInv'
  <2>1. ~mutexApi /\ ~mutexApi'
    BY <1>5 DEF ListLocks, Examine, Unlink, CreateLock, WriteLock, MutexInv
  <2>2. LockInv'
    BY <1>5, AcquireLocks
  <2> QED BY <2>1, <2>2 DEF MutexInv
<1>6. ASSUME NEW p \in Pid, Quit(p) PROVE MutexInv' /\ LockInv'
  <2>1. MutexInv'
    BY <1>6 DEF Quit, TypeOK, MutexInv, Owner
  <2>2. LockInv'
    BY <1>6, QuietKeeps DEF Quit, TypeOK, Acquiring
  <2> QED BY <2>1, <2>2
<1>7. ASSUME NEW p \in Pid, End(p), UNCHANGED <<mutexApi, lockFile, overlap, failed>>
      PROVE  MutexInv' /\ LockInv'
  <2>1. MutexInv'
    BY <1>7 DEF End, TypeOK, MutexInv, Owner
  <2>2. LockInv'
    BY <1>7, QuietKeeps DEF End, TypeOK, Acquiring
  <2> QED BY <2>1, <2>2
<1>8. ASSUME NEW p \in Pid, Leave(p) \/ Kill(p) \/ ExitOld(p)
      PROVE  MutexInv' /\ LockInv'
  BY <1>7, <1>8 DEF Leave, Kill, ExitOld, history
<1>9. CASE Reboot
  <2>1. MutexInv'
    BY <1>9 DEF Reboot, MutexInv, Owner
  <2>2. LockInv'
    BY <1>9, QuietKeeps DEF Reboot, Acquiring
  <2> QED BY <2>1, <2>2
<1>10. ASSUME UNCHANGED <<mutexApi, pc, lockFile, todo, dead, overlap>>, failed \subseteq failed',
              \A q \in Pid : Owner(q)' => Owner(q) /\ (q \in mutex => q \in mutex'),
              mutex' \subseteq mutex
       PROVE  MutexInv' /\ LockInv'
  <2>1. MutexInv'
    BY <1>10 DEF MutexInv
  <2>2. LockInv'
    BY <1>10, QuietKeeps
  <2> QED BY <2>1, <2>2
<1>11. ASSUME NEW p \in Pid, Download(p) \/ MoveOld(p) \/ MoveNew(p) \/ CleanUp(p)
       PROVE  MutexInv' /\ LockInv'
  <2>1. UNCHANGED <<mutexApi, pc, lockFile, todo, dead, overlap, mutex>> /\ failed \subseteq failed'
    BY <1>11 DEF Download, MoveOld, MoveNew, CleanUp, Fails, instVars, history
  <2>2. \A q \in Pid : upd[q] \in HandOver => upd'[q] \in HandOver
    BY <1>11 DEF Download, MoveOld, MoveNew, CleanUp, TypeOK, HandOver
  <2> QED BY <1>10, <2>1, <2>2 DEF Owner
<1>12. ASSUME NEW p \in Pid, ReleaseMutex(p) PROVE MutexInv' /\ LockInv'
  <2>1. /\ UNCHANGED <<mutexApi, pc, lockFile, todo, dead, overlap, failed>>
        /\ mutex' = mutex \ {p} /\ upd'[p] = "released"
        /\ \A q \in Pid \ {p} : upd'[q] = upd[q]
    BY <1>12 DEF ReleaseMutex, TypeOK, history
  <2> QED BY <1>10, <2>1 DEF Owner, HandOver
<1>13. ASSUME NEW p \in Pid, Spawn(p) PROVE MutexInv' /\ LockInv'
  <2>1. /\ UNCHANGED <<mutexApi, instVars>> /\ failed \subseteq failed'
        /\ \A q \in Pid : upd[q] \in HandOver => upd'[q] \in HandOver
    BY <1>13 DEF Spawn, TypeOK, HandOver, Fails
  <2>2. CASE \E q \in Pid : Begin(q)
    BY <1>2, <2>1, <2>2
  <2>3. CASE UNCHANGED <<pc, overlap>>
    BY <1>10, <2>1, <2>3 DEF Owner, instVars
  <2> QED BY <1>13, <2>2, <2>3 DEF Spawn
<1> QED
  BY <1>1, <1>3, <1>4, <1>5, <1>6, <1>8, <1>9, <1>11, <1>12, <1>13
  DEF Next, Start, Update

\* acquire_lock and the mutex: where the application is packed, or the mutex
\* works, one instance runs at most, whatever crashes, reboots and updates there
\* have been, as long as no two starts overlap and each could write its lock
\* file.  From the sources, without the mutex, _same_process takes every lock
\* file for a dead one.
THEOREM OneInstanceRuns == Spec => [](Frozen \/ mutexApi => OneInstance)
<1>1. OneInv => (Frozen \/ mutexApi => OneInstance)
  BY DEF OneInv, MutexInv, LockInv, InstanceInv, OneInstance, Owner
<1> QED BY <1>1, OneInvInit, OneInvNext, PTL DEF Spec

-----------------------------------------------------------------------------
(* Whoever is refused is refused for another process.                      *)

\* Who has the mutex has got through its start, and so has whoever has written a
\* creation time; only who is about to unlink a file has one to unlink.
HolderInv ==
    /\ \A p \in mutex : pc[p] = "up"
    /\ \A p \in Pid : lockFile[p] = "whole" => pc[p] \in {"up", "leaving", "gone"}
    /\ \A p \in Pid : dead[p] # {} => pc[p] = "unlinking"

\* A lock file acquire_lock has listed, and has not unlinked itself, is only ever
\* removed by its process, which then leaves.  A start that looks at its own
\* file thus looks at one an earlier boot has left.
ListedInv ==
    ~mutexApi /\ Frozen /\ ~overlap =>
        \A p, q \in Pid : pc[p] \in {"scanning", "unlinking"} /\ q \in todo[p] =>
            /\ q \notin dead[p]
            /\ lockFile[q] = "none" => pc[q] \in {"leaving", "gone"}

ForAnotherInv == OneInv /\ HolderInv /\ ListedInv

\* A step in which nobody begins to look for lock files, who has left stays away,
\* and no file goes but with its process.
LEMMA ListedKeeps ==
  ASSUME ListedInv, UNCHANGED mutexApi, overlap => overlap',
         \A p \in Pid : pc'[p] \in {"scanning", "unlinking"} =>
             pc'[p] = pc[p] /\ todo'[p] = todo[p] /\ dead'[p] = dead[p],
         \A p \in Pid : lockFile[p] # "none" /\ lockFile'[p] = "none" =>
             pc'[p] \in {"leaving", "gone"},
         \A p \in Pid : pc[p] \in {"leaving", "gone"} => pc'[p] \in {"leaving", "gone"}
  PROVE  ListedInv'
<1> SUFFICES ASSUME ~mutexApi, Frozen, ~overlap', NEW p \in Pid, NEW q \in Pid,
                    pc'[p] \in {"scanning", "unlinking"}, q \in todo'[p]
             PROVE  /\ q \notin dead'[p]
                    /\ lockFile'[q] = "none" => pc'[q] \in {"leaving", "gone"}
  BY DEF ListedInv
<1>1. pc'[p] = pc[p] /\ todo'[p] = todo[p] /\ dead'[p] = dead[p] /\ ~overlap
  OBVIOUS
<1>2. /\ q \notin dead[p]
      /\ lockFile[q] = "none" => pc[q] \in {"leaving", "gone"}
  BY <1>1 DEF ListedInv
<1> QED BY <1>1, <1>2

\* The steps of acquire_lock keep what is known of the listed files.
LEMMA AcquireListed ==
  ASSUME OneInv, HolderInv, ListedInv, NEW p \in Pid,
         ListLocks(p) \/ (\E q \in Pid : Examine(p, q)) \/ Unlink(p)
            \/ CreateLock(p) \/ WriteLock(p)
  PROVE  ListedInv'
<1> TypeOK
  BY DEF OneInv
<1>1. UNCHANGED <<mutexApi, overlap>>
  BY DEF ListLocks, Examine, Unlink, CreateLock, WriteLock, history
<1> SUFFICES ASSUME ~mutexApi, Frozen, ~overlap, NEW r \in Pid, NEW q \in Pid,
                    pc'[r] \in {"scanning", "unlinking"}, q \in todo'[r]
             PROVE  /\ q \notin dead'[r]
                    /\ lockFile'[q] = "none" => pc'[q] \in {"leaving", "gone"}
  BY <1>1 DEF ListedInv
<1>2. AloneInv
  BY DEF OneInv, LockInv
<1>3. pc[p] \in Acquiring /\ \A s \in Pid \ {p} : pc[s] \notin Acquiring /\ pc'[s] = pc[s]
  <2>1. pc[p] \in Acquiring
    BY DEF ListLocks, Examine, Unlink, CreateLock, WriteLock, Acquiring
  <2>2. \A s \in Pid \ {p} : pc'[s] = pc[s]
    BY DEF ListLocks, Examine, Unlink, CreateLock, WriteLock, TypeOK
  <2> QED BY <1>2, <2>1, <2>2 DEF AloneInv
<1>4. r = p
  BY <1>3 DEF Acquiring
<1>5. pc[p] \in {"scanning", "unlinking"} /\ q \in todo[p] =>
          /\ q \notin dead[p]
          /\ lockFile[q] = "none" => pc[q] \in {"leaving", "gone"}
  BY DEF ListedInv
<1>6. CASE ListLocks(p)
  <2>1. lockFile[q] # "none" /\ lockFile' = lockFile /\ dead' = dead
    BY <1>4, <1>6 DEF ListLocks, TypeOK
  <2>2. dead[p] = {}
    BY <1>6 DEF ListLocks, HolderInv
  <2> QED BY <1>4, <2>1, <2>2
<1>7. ASSUME NEW s \in Pid, Examine(p, s)
      PROVE  /\ q \notin dead'[r]
             /\ lockFile'[q] = "none" => pc'[q] \in {"leaving", "gone"}
  <2>1. ~SameProcess(s)
    BY <1>4, <1>7 DEF Examine, TypeOK
  <2>2. /\ pc[p] = "scanning" /\ pc'[p] = "unlinking" /\ lockFile' = lockFile
        /\ todo'[p] = todo[p] \ {s} /\ dead'[p] = {s}
    BY <1>7, <2>1 DEF Examine, TypeOK
  <2>3. q \in todo[p] /\ q # s
    BY <1>4, <2>2
  <2> QED BY <1>3, <1>4, <1>5, <2>2, <2>3
<1>8. CASE Unlink(p)
  <2>1. /\ pc[p] = "unlinking" /\ pc'[p] = "scanning" /\ todo' = todo /\ dead'[p] = {}
    BY <1>8 DEF Unlink, TypeOK
  <2>2. q \in todo[p] /\ q \notin dead[p]
    BY <1>4, <1>5, <2>1
  <2>3. lockFile'[q] = lockFile[q]
    BY <1>8, <2>2 DEF Unlink
  <2> QED BY <1>3, <1>4, <1>5, <2>1, <2>2, <2>3
<1>9. CASE CreateLock(p) \/ WriteLock(p)
  BY <1>4, <1>9 DEF CreateLock, WriteLock, TypeOK
<1> QED BY <1>6, <1>7, <1>8, <1>9

\* Every step keeps what is known of holders of the mutex and of lock files.
LEMMA HolderNext == OneInv /\ HolderInv /\ [Next]_vars => HolderInv'
<1> SUFFICES ASSUME OneInv, HolderInv, [Next]_vars PROVE HolderInv'
  OBVIOUS
<1> TypeOK /\ mutex \subseteq Pid
  BY DEF OneInv, TypeOK
<1>1. CASE UNCHANGED vars
  BY <1>1 DEF HolderInv, vars, instVars
<1>2. ASSUME NEW p \in Pid, Begin(p), UNCHANGED instVars PROVE HolderInv'
  BY <1>2 DEF Begin, TypeOK, HolderInv, instVars
<1>3. ASSUME NEW p \in Pid, TakeMutex(p) PROVE HolderInv'
  BY <1>3 DEF TakeMutex, TypeOK, HolderInv
<1>4. ASSUME NEW p \in Pid, ListLocks(p) PROVE HolderInv'
  BY <1>4 DEF ListLocks, TypeOK, HolderInv
<1>5. ASSUME NEW p \in Pid, NEW q \in Pid, Examine(p, q) PROVE HolderInv'
  <2>1. /\ pc[p] = "scanning" /\ pc'[p] \in {"refused", "unlinking"}
        /\ UNCHANGED <<mutex, lockFile>>
        /\ dead' = dead \/ pc'[p] = "unlinking"
        /\ \A r \in Pid \ {p} : pc'[r] = pc[r] /\ dead'[r] = dead[r]
    BY <1>5 DEF Examine, TypeOK
  <2>2. dead[p] = {}
    BY <2>1 DEF HolderInv
  <2> QED BY <2>1, <2>2 DEF HolderInv
<1>6. ASSUME NEW p \in Pid, Unlink(p) PROVE HolderInv'
  <2>1. /\ pc[p] = "unlinking" /\ dead'[p] = {} /\ UNCHANGED mutex
        /\ \A r \in Pid \ {p} : pc'[r] = pc[r] /\ dead'[r] = dead[r]
        /\ \A r \in Pid : lockFile'[r] = "whole" => lockFile[r] = "whole"
    BY <1>6 DEF Unlink, TypeOK
  <2> QED BY <2>1 DEF HolderInv
<1>7. ASSUME NEW p \in Pid, CreateLock(p) PROVE HolderInv'
  BY <1>7 DEF CreateLock, TypeOK, HolderInv
<1>8. ASSUME NEW p \in Pid, WriteLock(p) PROVE HolderInv'
  <2>1. /\ pc[p] = "creating" /\ pc'[p] = "up" /\ UNCHANGED <<mutex, dead>>
        /\ \A r \in Pid \ {p} : pc'[r] = pc[r] /\ lockFile'[r] = lockFile[r]
    BY <1>8 DEF WriteLock, TypeOK
  <2> QED BY <2>1 DEF HolderInv
<1>9. ASSUME NEW p \in Pid, Quit(p) PROVE HolderInv'
  <2>1. /\ pc[p] = "up" /\ pc'[p] = "leaving" /\ UNCHANGED dead /\ mutex' = mutex \ {p}
        /\ \A r \in Pid \ {p} : pc'[r] = pc[r]
        /\ \A r \in Pid : lockFile'[r] = "whole" => lockFile[r] = "whole"
    BY <1>9 DEF Quit, TypeOK
  <2> QED BY <2>1 DEF HolderInv
<1>10. ASSUME NEW p \in Pid, End(p), UNCHANGED lockFile PROVE HolderInv'
  BY <1>10 DEF End, TypeOK, HolderInv
<1>11. ASSUME NEW p \in Pid, Leave(p) \/ Kill(p) \/ ExitOld(p) PROVE HolderInv'
  BY <1>10, <1>11 DEF Leave, Kill, ExitOld
<1>12. ASSUME NEW p \in Pid,
              Download(p) \/ MoveOld(p) \/ MoveNew(p) \/ CleanUp(p) \/ ReleaseMutex(p)
       PROVE  HolderInv'
  BY <1>12 DEF Download, MoveOld, MoveNew, CleanUp, ReleaseMutex, HolderInv, instVars
<1>13. ASSUME NEW p \in Pid, Open(p) \/ Spawn(p) PROVE HolderInv'
  <2>1. UNCHANGED instVars
    BY <1>13 DEF Open, Spawn
  <2>2. CASE \E q \in Pid : Begin(q)
    BY <1>2, <2>1, <2>2
  <2>3. CASE UNCHANGED pc
    BY <2>1, <2>3 DEF HolderInv, instVars
  <2> QED BY <1>13, <2>2, <2>3 DEF Open, Spawn
<1>14. CASE Reboot
  <2>1. /\ mutex' = {} /\ dead' = [p \in Pid |-> {}]
        /\ \A p \in Pid : lockFile'[p] # "whole"
    BY <1>14 DEF Reboot, TypeOK
  <2> QED BY <2>1 DEF HolderInv
<1> QED
  BY <1>1, <1>3, <1>4, <1>5, <1>6, <1>7, <1>8, <1>9, <1>11, <1>12, <1>13, <1>14
  DEF Next, Start, Update

\* Every step keeps what is known of the files that are listed.
LEMMA ListedNext == ForAnotherInv /\ [Next]_vars => ListedInv'
<1> SUFFICES ASSUME OneInv, HolderInv, ListedInv, [Next]_vars PROVE ListedInv'
  BY DEF ForAnotherInv
<1> TypeOK
  BY DEF OneInv
<1>1. ASSUME UNCHANGED <<mutexApi, overlap, pc, lockFile, todo, dead>> PROVE ListedInv'
  BY <1>1 DEF ListedInv
<1>2. CASE UNCHANGED vars
  BY <1>1, <1>2 DEF vars, instVars, history
<1>3. ASSUME NEW p \in Pid, Begin(p), UNCHANGED <<mutexApi, instVars>> PROVE ListedInv'
  <2>1. /\ pc[p] = "off" /\ pc'[p] = "starting"
        /\ overlap => overlap'
        /\ UNCHANGED <<lockFile, todo, dead>>
        /\ \A q \in Pid \ {p} : pc'[q] = pc[q]
    BY <1>3 DEF Begin, TypeOK, instVars
  <2> QED BY <1>3, <2>1, ListedKeeps
<1>4. ASSUME NEW p \in Pid, TakeMutex(p) PROVE ListedInv'
  BY <1>4 DEF TakeMutex, ListedInv
<1>5. ASSUME NEW p \in Pid,
             ListLocks(p) \/ (\E q \in Pid : Examine(p, q)) \/ Unlink(p)
                \/ CreateLock(p) \/ WriteLock(p)
      PROVE  ListedInv'
  BY <1>5, AcquireListed
<1>6. ASSUME NEW p \in Pid, Quit(p) PROVE ListedInv'
  <2>1. /\ UNCHANGED <<mutexApi, overlap, todo, dead>>
        /\ pc'[p] = "leaving" /\ \A q \in Pid \ {p} : pc'[q] = pc[q]
        /\ \A q \in Pid \ {p} : lockFile'[q] = lockFile[q]
    BY <1>6 DEF Quit, TypeOK
  <2> QED BY <2>1, ListedKeeps
<1>7. ASSUME NEW p \in Pid, End(p), UNCHANGED <<mutexApi, lockFile, overlap>>
      PROVE  ListedInv'
  <2>1. /\ pc'[p] = "gone"
        /\ \A q \in Pid \ {p} : pc'[q] = pc[q] /\ todo'[q] = todo[q] /\ dead'[q] = dead[q]
    BY <1>7 DEF End, TypeOK
  <2> QED BY <1>7, <2>1, ListedKeeps
<1>8. ASSUME NEW p \in Pid, Leave(p) \/ Kill(p) \/ ExitOld(p) PROVE ListedInv'
  BY <1>7, <1>8 DEF Leave, Kill, ExitOld, history
<1>9. ASSUME NEW p \in Pid,
             Download(p) \/ MoveOld(p) \/ MoveNew(p) \/ CleanUp(p) \/ ReleaseMutex(p)
      PROVE  ListedInv'
  BY <1>1, <1>9 DEF Download, MoveOld, MoveNew, CleanUp, ReleaseMutex, instVars, history
<1>10. ASSUME NEW p \in Pid, Open(p) \/ Spawn(p) PROVE ListedInv'
  <2>1. UNCHANGED <<mutexApi, instVars>>
    BY <1>10 DEF Open, Spawn
  <2>2. CASE \E q \in Pid : Begin(q)
    BY <1>3, <2>1, <2>2
  <2>3. CASE UNCHANGED <<pc, overlap>>
    BY <1>1, <2>1, <2>3 DEF instVars
  <2> QED BY <1>10, <2>2, <2>3 DEF Open, Spawn
<1>11. CASE Reboot
  <2>1. \A p \in Pid : pc'[p] = "off"
    BY <1>11 DEF Reboot
  <2> QED BY <2>1 DEF ListedInv
<1> QED
  BY <1>2, <1>4, <1>5, <1>6, <1>8, <1>9, <1>10, <1>11 DEF Next, Start, Update

\* What a step of RefusedForAnother has.
RefusedStep ==
    \A p \in Pid : ~overlap /\ pc[p] # "refused" /\ pc'[p] = "refused" =>
        \E q \in Pid : \/ q # p /\ pc[q] \in Acquiring \cup {"up", "leaving"}
                       \/ lockFile[q] = "empty"

\* Only the mutex and acquire_lock refuse a start.
LEMMA StepRefuses == ForAnotherInv /\ [Next]_vars => RefusedStep
<1> SUFFICES ASSUME OneInv, HolderInv, ListedInv, [Next]_vars,
                    NEW p \in Pid, ~overlap, pc[p] # "refused", pc'[p] = "refused"
             PROVE  \E q \in Pid : \/ q # p /\ pc[q] \in Acquiring \cup {"up", "leaving"}
                                   \/ lockFile[q] = "empty"
  BY DEF ForAnotherInv, RefusedStep
<1> TypeOK
  BY DEF OneInv
<1>1. TakeMutex(p) \/ \E q \in Pid : Examine(p, q)
  <2>1. ASSUME NEW q \in Pid, Begin(q) PROVE FALSE
    BY <2>1 DEF Begin, TypeOK
  <2>2. ASSUME NEW q \in Pid, End(q) PROVE FALSE
    BY <2>2 DEF End, TypeOK
  <2>3. pc' # pc /\ ~Reboot
    BY DEF Reboot
  <2>4. ASSUME NEW q \in Pid, ListLocks(q) \/ Unlink(q) \/ CreateLock(q) \/ WriteLock(q) \/ Quit(q)
        PROVE  FALSE
    BY <2>4 DEF ListLocks, Unlink, CreateLock, WriteLock, Quit, TypeOK
  <2>5. ASSUME NEW q \in Pid,
               TakeMutex(q) \/ (\E r \in Pid : Examine(q, r))
        PROVE  q = p
    BY <2>5 DEF TakeMutex, Examine, TypeOK
  <2>6. PICK q \in Pid : TakeMutex(q) \/ (\E r \in Pid : Examine(q, r))
    BY <2>1, <2>2, <2>3, <2>4 DEF Next, Start, Update, Open, Leave, Kill, Download,
       MoveOld, MoveNew, ReleaseMutex, Spawn, ExitOld, CleanUp, vars
  <2> QED BY <2>5, <2>6
<1>2. CASE TakeMutex(p)
  <2>1. pc[p] = "starting" /\ mutex # {}
    BY <1>2 DEF TakeMutex, TypeOK
  <2>2. PICK q \in mutex : TRUE
    BY <2>1
  <2>3. q \in Pid /\ pc[q] = "up"
    BY DEF HolderInv, TypeOK
  <2> QED BY <2>1, <2>3
<1>3. ASSUME NEW q \in Pid, Examine(p, q)
      PROVE  \/ q # p /\ pc[q] \in Acquiring \cup {"up", "leaving"}
             \/ lockFile[q] = "empty"
  <2>1. pc[p] = "scanning" /\ q \in todo[p] /\ SameProcess(q)
    BY <1>3 DEF Examine, TypeOK
  <2>2. ~mutexApi /\ Frozen
    BY <2>1 DEF OneInv, MutexInv, SameProcess
  <2>3. lockFile[q] = "none" => pc[q] \in {"leaving", "gone"}
    BY <2>1, <2>2 DEF ListedInv
  <2>4. lockFile[q] = "whole" => pc[q] \in {"up", "leaving", "gone"}
    BY DEF HolderInv
  <2>5. lockFile[q] \in {"none", "empty", "whole"} /\ pc[q] \notin {"off", "gone"}
    BY <2>1 DEF SameProcess, Alive, TypeOK
  <2> QED BY <2>1, <2>3, <2>4, <2>5
<1> QED BY <1>1, <1>2, <1>3

\* acquire_lock and the mutex: a start is refused on account of another process
\* of the application and never because of a file an earlier boot has left under
\* its own pid, unless that file has no creation time, as long as no two starts
\* overlap; whatever crashes, reboots and updates there have been.
THEOREM RefusalsJustified == Spec => RefusedForAnother
<1>1. Init => HolderInv /\ ListedInv
  BY DEF Init, HolderInv, ListedInv
<1>2. ForAnotherInv /\ [Next]_vars => ForAnotherInv'
  BY OneInvNext, HolderNext, ListedNext DEF ForAnotherInv
<1>3. Init => ForAnotherInv
  BY <1>1, OneInvInit DEF ForAnotherInv
<1>4. ForAnotherInv /\ [Next]_vars => [RefusedStep]_vars
  BY StepRefuses
<1> QED
  BY <1>2, <1>3, <1>4, PTL DEF Spec, RefusedForAnother, RefusedStep

=============================================================================
