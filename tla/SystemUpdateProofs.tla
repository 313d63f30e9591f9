------------------------- MODULE SystemUpdateProofs -------------------------
(***************************************************************************)
(* Theorems of SystemUpdate, for any number of releases, failed renames    *)
(* and crashes.  The invariant says, per step of an operation, in which    *)
(* files the version of the process may be, and which are free to rename   *)
(* to.                                                                     *)
(***************************************************************************)
EXTENDS SystemUpdate, TLAPS

-----------------------------------------------------------------------------
(* Types *)

LEMMA StatusTyped ==
  ASSUME UpdateTypeOK, Up, NEW s \in StatusSeen
  PROVE  s \in StatusType /\ (s.probed => s.installed = files["managed"])
<1>1. PICK i \in InstalledSeen : \E v \in {latest, i.installed} :
         s = [installed |-> i.installed, latest |-> v, probed |-> i.probed]
  BY DEF StatusSeen
<1>2. files["managed"] \in Version \cup {Absent} /\ running \in Version /\ latest \in Version
  BY DEF UpdateTypeOK, Up, Slot
<1>3. i = [installed |-> running, probed |-> FALSE] \/
      (files["managed"] \in Version /\ i = [installed |-> files["managed"], probed |-> TRUE])
  BY <1>2 DEF InstalledSeen
<1>4. i.installed \in Version /\ i.probed \in BOOLEAN /\ (i.probed => i.installed = files["managed"])
  <2>1. CASE i = [installed |-> running, probed |-> FALSE]
    <3>1. i.installed = running /\ i.probed = FALSE
      BY <2>1
    <3>2. QED BY <1>2, <3>1
  <2>2. CASE files["managed"] \in Version /\ i = [installed |-> files["managed"], probed |-> TRUE]
    <3>1. i.installed = files["managed"] /\ i.probed = TRUE
      BY <2>2
    <3>2. QED BY <2>2, <3>1
  <2>3. QED BY <1>3, <2>1, <2>2
<1>0. PICK v \in {latest, i.installed} :
         s = [installed |-> i.installed, latest |-> v, probed |-> i.probed]
  BY <1>1
<1>5. QED BY <1>0, <1>2, <1>4 DEF StatusType

\* Only a running process has an operation under way.
Idle == ~Up => op = "none" /\ look = NoStatus

LEMMA TypeStep == UpdateTypeOK /\ Idle /\ [UpdateNext]_vars => UpdateTypeOK' /\ Idle'
<1> SUFFICES ASSUME UpdateTypeOK, Idle, [UpdateNext]_vars PROVE UpdateTypeOK' /\ Idle'
  OBVIOUS
<1> USE SystemUpdateAssumption DEF UpdateTypeOK, Idle, Up
<1>0. Absent \notin Version
  BY DEF Absent, Version
<1>1. CASE UNCHANGED vars
  BY <1>1 DEF vars
<1>2. CASE Look
  BY <1>2, StatusTyped DEF Look
<1>3. CASE Store \/ Expire
  BY <1>3 DEF Store, Expire
<1>4. CASE Release
  BY <1>4 DEF Release, Version
<1>5. CASE Begin
  BY <1>5 DEF Begin, Step
<1>6. CASE Check
  <2>1. PICK s \in StatusSeen, got \in BOOLEAN :
          LET go == HasUpdate(s) /\ ~PendingRestart(s) /\ got
          IN  /\ cache' = s
              /\ op' = IF go THEN "remove" ELSE "none"
              /\ files' = IF go THEN [files EXCEPT !["fresh"] = s.latest] ELSE files
              /\ misled' = (misled \/ (~s.probed /\ go))
    BY <1>6 DEF Check, StatusForUpdate
  <2>2. Up /\ s \in StatusType
    BY <1>6, <2>1, StatusTyped DEF Check
  <2>3. op' \in Step /\ cache' \in StatusType /\ misled' \in BOOLEAN
    BY <2>1, <2>2 DEF Step
  <2>4. files' \in [Slot -> Version \cup {Absent}]
    BY <2>1, <2>2 DEF StatusType
  <2>5. QED BY <1>6, <2>2, <2>3, <2>4 DEF Check
<1>7. CASE RemoveBackup \/ ClearAside
  BY <1>7 DEF RemoveBackup, ClearAside, Remove, Slot, Step
<1>8. CASE Shelve \/ Replace \/ SetAside \/ Restore \/ Keep
  <2>1. /\ files' \in [Slot -> Version \cup {Absent}]
        /\ op' \in Step /\ faults' \in 0..MaxFaults
    BY <1>8 DEF Shelve, Replace, SetAside, Restore, Keep, Rename, RenameFails, Step, Slot
  <2>2. /\ UNCHANGED <<running, latest, exiting, look, misled>>
        /\ cache' \in {cache, NoStatus} /\ op # "none"
    BY <1>8 DEF Shelve, Replace, SetAside, Restore, Keep
  <2>3. QED BY <2>1, <2>2
<1>9. CASE PutBack \/ Unrestore
  <2>1. /\ files' \in [Slot -> Version \cup {Absent}]
        /\ op' \in Step /\ faults' \in 0..MaxFaults
    BY <1>9 DEF PutBack, Unrestore, Undo, Rename, RenameFails, Step, Slot
  <2>2. /\ UNCHANGED <<running, latest, exiting, cache, look>> /\ op # "none"
        /\ misled' \in BOOLEAN
    BY <1>9, Zenon DEF PutBack, Unrestore, Undo
  <2>3. QED BY <2>1, <2>2
<1>10. CASE ReadVersions
  BY <1>10 DEF ReadVersions, Step
<1>11. CASE Restart
  BY <1>11 DEF Restart
<1>12. CASE Exit \/ Crash
  <2>1. Stopped /\ faults' \in 0..MaxFaults
    BY <1>12 DEF Exit, Crash, Up
  <2>2. misled' \in BOOLEAN
    BY <2>1, Zenon DEF Stopped
  <2>3. QED BY <2>1, <2>2 DEF Stopped, Step
<1>13. CASE Start
  BY <1>13 DEF Start, Slot
<1>14. QED BY <1>1, <1>2, <1>3, <1>4, <1>5, <1>6, <1>7, <1>8, <1>9, <1>10, <1>11, <1>12, <1>13
       DEF UpdateNext

LEMMA TypeInit == UpdateInit => UpdateTypeOK /\ Idle
<1> SUFFICES ASSUME UpdateInit PROVE UpdateTypeOK /\ Idle
  OBVIOUS
<1>1. 1 \in Version /\ 0 \in 0..MaxFaults
  BY SystemUpdateAssumption DEF Version
<1>2. files \in [Slot -> Version \cup {Absent}]
  BY <1>1 DEF UpdateInit
<1>3. exiting \in BOOLEAN /\ misled \in BOOLEAN
  BY Zenon DEF UpdateInit
<1>4. op \in Step /\ (~Up => op = "none" /\ look = NoStatus)
  BY DEF UpdateInit, Step
<1>5. QED BY <1>1, <1>2, <1>3, <1>4 DEF UpdateInit, UpdateTypeOK, Idle

\* The type invariant: whatever fails or crashes, versions read from a file that is not
\* there never reach the status or the process (update_service.go).
THEOREM UpdateTypeCorrect == UpdateSpec => []UpdateTypeOK
<1>1. UpdateSpec => [](UpdateTypeOK /\ Idle)
  BY TypeInit, TypeStep, PTL DEF UpdateSpec
<1>2. QED BY <1>1, PTL

-----------------------------------------------------------------------------
(* Where the process's version is *)

\* The files one of which has it, by the next step of the operation under way.
Keepers ==
  [none  |-> {"managed", "backup"}, check   |-> {"managed", "backup"},
   read  |-> {"managed", "backup"}, clear   |-> {"managed", "backup"},
   setAside |-> {"managed", "backup"},
   remove   |-> {"managed"},        shelve  |-> {"managed"},
   replace  |-> {"backup"},         putBack |-> {"backup"},
   restore  |-> {"aside", "backup"}, keep   |-> {"managed", "aside"},
   unrestore |-> {"aside", "backup"}, unkeep |-> {"managed", "aside"},
   unset     |-> {"aside", "backup"}]

Kept ==
  ~misled => /\ op \notin HalfWay => files["managed"] # Absent
             /\ Up => \E s \in Keepers[op] : files[s] = running

\* The files that are free to rename to.
Vacated ==
  ~misled => /\ op = "setAside" => files["aside"] = Absent
             /\ op \in {"keep", "unkeep"} => files["backup"] = Absent
             /\ op \in {"restore", "unrestore", "unset"} => files["managed"] = Absent

LEMMA KeptStep ==
  ASSUME UpdateTypeOK, Idle, Kept, Vacated, [UpdateNext]_vars
  PROVE  Kept' /\ Vacated'
<1> USE DEF Kept, Vacated, Up, HalfWay
<1>0. UpdateTypeOK' /\ Idle'
  BY TypeStep
<1>1. CASE UNCHANGED vars
  BY <1>1 DEF vars
<1>2. CASE Look \/ Store \/ Expire \/ Release \/ Restart
  BY <1>2 DEF Look, Store, Expire, Release, Restart
<1>3. CASE Begin
  BY <1>3 DEF Begin, Keepers
<1>4. CASE Check
  <2>1. PICK s \in StatusSeen, got \in BOOLEAN :
          LET go == HasUpdate(s) /\ ~PendingRestart(s) /\ got
          IN  /\ op' = IF go THEN "remove" ELSE "none"
              /\ files' = IF go THEN [files EXCEPT !["fresh"] = s.latest] ELSE files
              /\ misled' = (misled \/ (~s.probed /\ go))
    BY <1>4 DEF Check, StatusForUpdate
  <2>2. s.probed => s.installed = files["managed"]
    BY <1>4, <2>1, StatusTyped DEF Check, Idle
  <2>3. \A k \in {"managed", "backup", "aside"} : files'[k] = files[k]
    BY <2>1 DEF UpdateTypeOK, Slot
  <2>4. UNCHANGED running /\ op = "check"
    BY <1>4 DEF Check
  <2>5. CASE HasUpdate(s) /\ ~PendingRestart(s) /\ got
    BY <2>1, <2>2, <2>3, <2>4, <2>5 DEF PendingRestart, Keepers
  <2>6. CASE ~(HasUpdate(s) /\ ~PendingRestart(s) /\ got)
    BY <2>1, <2>3, <2>4, <2>6 DEF Keepers
  <2>7. QED BY <2>5, <2>6
<1>5. CASE RemoveBackup
  BY <1>5 DEF RemoveBackup, Remove, Keepers, UpdateTypeOK, Slot
<1>6. CASE Shelve
  BY <1>6 DEF Shelve, Rename, RenameFails, Keepers, UpdateTypeOK, Slot
<1>7. CASE Replace
  BY <1>7 DEF Replace, Rename, RenameFails, Keepers, UpdateTypeOK, Slot
<1>8. CASE PutBack
  BY <1>8 DEF PutBack, Undo, Rename, RenameFails, Keepers, UpdateTypeOK, Slot
<1>9. CASE ReadVersions
  BY <1>9 DEF ReadVersions, Keepers
<1>10. CASE ClearAside
  BY <1>10 DEF ClearAside, Remove, Keepers, UpdateTypeOK, Slot
<1>11. CASE SetAside
  BY <1>11 DEF SetAside, Rename, RenameFails, Keepers, UpdateTypeOK, Slot
<1>12. CASE Restore
  BY <1>12 DEF Restore, Rename, RenameFails, Keepers, UpdateTypeOK, Slot
<1>13. CASE Keep
  BY <1>13 DEF Keep, Rename, RenameFails, Keepers, UpdateTypeOK, Slot
<1>14. CASE Unrestore
  <2>1. CASE op = "unrestore"
    BY <1>14, <2>1 DEF Unrestore, Undo, Rename, RenameFails, Keepers, UpdateTypeOK, Slot
  <2>2. CASE op = "unkeep"
    BY <1>14, <2>2 DEF Unrestore, Undo, Rename, RenameFails, Keepers, UpdateTypeOK, Slot
  <2>3. CASE op = "unset"
    BY <1>14, <2>3 DEF Unrestore, Undo, Rename, RenameFails, Keepers, UpdateTypeOK, Slot
  <2>4. QED BY <1>14, <2>1, <2>2, <2>3 DEF Unrestore
<1>15. CASE Exit \/ Crash
  BY <1>15 DEF Exit, Crash, Stopped
<1>16. CASE Start
  BY <1>16 DEF Start, Idle, Keepers
<1>17. QED BY <1>1, <1>2, <1>3, <1>4, <1>5, <1>6, <1>7, <1>8, <1>9, <1>10, <1>11, <1>12, <1>13,
              <1>14, <1>15, <1>16 DEF UpdateNext

LEMMA AlwaysKept == UpdateSpec => [](UpdateTypeOK /\ Idle /\ Kept /\ Vacated)
<1>1. UpdateInit => Kept /\ Vacated
  BY DEF UpdateInit, Kept, Vacated, Up, Keepers, HalfWay, Slot, Absent
<1>2. QED BY <1>1, TypeInit, TypeStep, KeptStep, PTL DEF UpdateSpec

\* There is a way back from every update, and something to start after every end of the
\* process: PerformUpdate and Rollback never lose the running version between their
\* renames, however these fail (update_service.go).
THEOREM RunningStaysOnDisk == UpdateSpec => []RunningIsKept
<1>1. UpdateTypeOK /\ Idle /\ Kept => RunningIsKept
  <2> SUFFICES ASSUME UpdateTypeOK, Idle, Kept, ~misled
               PROVE  IF Up THEN running \in OnDisk ELSE files["managed"] # Absent
    BY DEF RunningIsKept
  <2>1. ASSUME Up PROVE running \in OnDisk
    <3>1. Keepers[op] \subseteq {"managed", "backup", "aside"}
      BY DEF Keepers, UpdateTypeOK, Step
    <3>2. QED BY <2>1, <3>1 DEF Kept, OnDisk, Up
  <2>2. ASSUME ~Up PROVE files["managed"] # Absent
    BY <2>2 DEF Kept, Idle, HalfWay
  <2>3. QED BY <2>1, <2>2
<1>2. QED BY <1>1, AlwaysKept, PTL

\* Once its own leftover is removed, a rollback renames to free names only, so no step
\* of it or of its undo loses a version (Rollback, update_service.go).
THEOREM RollbackKeepsVersions == UpdateSpec => RollbackLosesNothing
<1> DEFINE Rolling == {"setAside", "restore", "keep", "unrestore", "unkeep", "unset"}
<1>1. ASSUME UpdateTypeOK, Idle, Kept, Vacated, [UpdateNext]_vars, op \in Rolling, ~misled'
      PROVE  OnDisk' = OnDisk
  <2> USE <1>1 DEF Vacated, OnDisk
  <2>1. CASE UNCHANGED files
    BY <2>1
  <2>2. CASE SetAside
    BY <2>2 DEF SetAside, Rename, RenameFails, UpdateTypeOK, Slot
  <2>3. CASE Restore
    BY <2>3 DEF Restore, Rename, RenameFails, UpdateTypeOK, Slot
  <2>4. CASE Keep
    BY <2>4 DEF Keep, Rename, RenameFails, UpdateTypeOK, Slot
  <2>5. CASE Unrestore
    <3>1. ~misled
      BY <2>5 DEF Unrestore, Undo
    <3>2. \/ op = "unrestore" /\ Rename("aside", "managed", "none")
          \/ op = "unkeep" /\ Rename("managed", "backup", "unset")
          \/ op = "unset" /\ Rename("aside", "managed", "none")
      BY <2>5 DEF Unrestore, Undo
    <3>3. QED BY <3>1, <3>2 DEF Rename, UpdateTypeOK, Slot
  <2>6. CASE Check \/ RemoveBackup \/ Shelve \/ Replace \/ PutBack \/ ReadVersions \/ ClearAside
    BY <2>6 DEF Check, RemoveBackup, Shelve, Replace, PutBack, ReadVersions, ClearAside
  <2>7. CASE Look \/ Store \/ Expire \/ Release \/ Begin \/ Restart \/ Exit \/ Crash \/ Start
    BY <2>1, <2>7 DEF Look, Store, Expire, Release, Begin, Restart, Exit, Crash, Stopped, Start
  <2>8. QED BY <2>1, <2>2, <2>3, <2>4, <2>5, <2>6, <2>7 DEF UpdateNext, vars
<1>2. UpdateTypeOK /\ Idle /\ Kept /\ Vacated /\ [UpdateNext]_vars
        => [(op \in Rolling /\ ~misled' => OnDisk' = OnDisk)]_vars
  BY <1>1
<1>3. QED BY <1>2, AlwaysKept, PTL DEF UpdateSpec, RollbackLosesNothing
=============================================================================
