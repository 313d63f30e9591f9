---------------------------- MODULE SystemUpdate ----------------------------
(***************************************************************************)
(* Online update (server/internal/service/update_service.go, the handlers  *)
(* in server/router.go, system_operation_lock.go): the binaries beside the *)
(* managed path, the process started from it, the operations of the        *)
(* administrators and the cached release check.  systemd starts the        *)
(* process again whenever it ends (deploy/aurora-aiops.service).           *)
(* The service is a release build whose update is enabled and whose actors *)
(* are allowed: otherwise each operation ends before its first step.       *)
(***************************************************************************)
EXTENDS Integers

CONSTANTS
  MaxVersion,     \* bound: releases, numbered in the order of compareVersions
  MaxFaults       \* bound: renames and removals that fail, and processes that crash

ASSUME SystemUpdateAssumption == MaxVersion \in Nat \ {0} /\ MaxFaults \in Nat

VARIABLES
  running,        \* the version of the process, Absent while there is none
  files,          \* the version of each binary
  latest,         \* the newest release
  op,             \* the operation that holds the lock, and its next step
  exiting,        \* Restart's delayed os.Exit is due
  cache,          \* cacheValue
  look,           \* a status request between its reads and setCached
  faults,
  misled          \* history: an update trusted a failed probe, an undo failed, or the
                  \* process ended between two renames

vars == <<running, files, latest, op, exiting, cache, look, faults, misled>>

Absent == 0
Version == 1..MaxVersion
\* fresh: extracted in the temporary directory.  aside: ".rollback-current".
Slot == {"managed", "backup", "aside", "fresh"}
Step == {"none", "check", "remove", "shelve", "replace", "putBack",
         "read", "clear", "setAside", "restore", "keep", "unrestore", "unkeep", "unset"}
\* probed: the installed version was read from its binary.
StatusType == [installed: Version, latest: Version, probed: BOOLEAN]
NoStatus == [installed |-> Absent, latest |-> Absent, probed |-> FALSE]

UpdateTypeOK ==
  /\ running \in Version \cup {Absent}
  /\ files \in [Slot -> Version \cup {Absent}]
  /\ latest \in Version
  /\ op \in Step
  /\ exiting \in BOOLEAN /\ misled \in BOOLEAN
  /\ cache \in StatusType \cup {NoStatus} /\ look \in StatusType \cup {NoStatus}
  /\ faults \in 0..MaxFaults

UpdateInit ==
  /\ running = 1 /\ latest = 1
  /\ files = [s \in Slot |-> IF s = "managed" THEN 1 ELSE Absent]
  /\ op = "none" /\ exiting = FALSE /\ misled = FALSE
  /\ cache = NoStatus /\ look = NoStatus
  /\ faults = 0

-----------------------------------------------------------------------------
\* Mutant: A binary that is not there is a version like any other.
InstalledSeenRaw == {[installed |-> files["managed"], probed |-> TRUE]}

\* readOptionalBinaryVersion of the managed path: no binary and a failed probe leave
\* the version of the process, the one with no more than a warning.
InstalledSeen ==
  {[installed |-> running, probed |-> FALSE]}
    \cup {[installed |-> v, probed |-> TRUE] : v \in {files["managed"]} \ {Absent}}

\* GitHub out of reach: the installed version counts as the latest.
StatusSeen == UNION {
  {[installed |-> i.installed, latest |-> v, probed |-> i.probed] :
     v \in {latest, i.installed}} : i \in InstalledSeen}

HasUpdate(s) == s.installed < s.latest
PendingRestart(s) == running # s.installed

\* Mutant: The update believes the cached status.
StatusForUpdateCached == IF cache = NoStatus THEN StatusSeen ELSE {cache}

\* checkUpdate(force): PerformUpdate looks for itself, under the lock.
StatusForUpdate == StatusSeen

Up == running # Absent

\* A status request that is not answered from the cache reads, then asks GitHub.
Look ==
  /\ Up /\ look = NoStatus
  /\ look' \in StatusSeen
  /\ UNCHANGED <<running, files, latest, op, exiting, cache, faults, misled>>

Store ==
  /\ look # NoStatus
  /\ cache' = look /\ look' = NoStatus
  /\ UNCHANGED <<running, files, latest, op, exiting, faults, misled>>

\* updateCacheTTL.
Expire ==
  /\ cache # NoStatus /\ cache' = NoStatus
  /\ UNCHANGED <<running, files, latest, op, exiting, look, faults, misled>>

Release ==
  /\ latest < MaxVersion /\ latest' = latest + 1
  /\ UNCHANGED <<running, files, op, exiting, cache, look, faults, misled>>

-----------------------------------------------------------------------------
\* os.Rename in a step of an operation.
Rename(from, to, next) ==
  /\ files[from] # Absent
  /\ files' = [files EXCEPT ![to] = files[from], ![from] = Absent]
  /\ op' = next
  /\ faults' = faults

RenameFails(from, next) ==
  /\ \/ files[from] = Absent /\ faults' = faults
     \/ faults < MaxFaults /\ faults' = faults + 1
  /\ files' = files
  /\ op' = next

\* removeFileIfExists.
Remove(slot, next) ==
  \/ /\ files' = [files EXCEPT ![slot] = Absent]
     /\ op' = next /\ faults' = faults
  \/ /\ files[slot] # Absent /\ faults < MaxFaults
     /\ files' = files
     /\ op' = "none" /\ faults' = faults + 1

\* Acquire: another operation is refused while one holds the lock.
Begin ==
  /\ Up /\ op = "none"
  /\ op' \in {"check", "read"}
  /\ UNCHANGED <<running, files, latest, exiting, cache, look, faults, misled>>

\* PerformUpdate up to the extracted binary: a check, a download, a checksum.
Check ==
  /\ op = "check"
  /\ \E s \in StatusForUpdate, got \in BOOLEAN :
       LET go == HasUpdate(s) /\ ~PendingRestart(s) /\ got
       IN /\ cache' = s
          /\ op' = IF go THEN "remove" ELSE "none"
          /\ files' = IF go THEN [files EXCEPT !["fresh"] = s.latest] ELSE files
          /\ misled' = (misled \/ (~s.probed /\ go))
  /\ UNCHANGED <<running, latest, exiting, look, faults>>

RemoveBackup ==
  /\ op = "remove"
  /\ Remove("backup", "shelve")
  /\ UNCHANGED <<running, latest, exiting, cache, look, misled>>

Shelve ==
  /\ op = "shelve"
  /\ Rename("managed", "backup", "replace") \/ RenameFails("managed", "none")
  /\ UNCHANGED <<running, latest, exiting, cache, look, misled>>

\* invalidateCache, and the lock is released.
Replace ==
  /\ op = "replace"
  /\ \/ Rename("fresh", "managed", "none") /\ cache' = NoStatus
     \/ RenameFails("fresh", "putBack") /\ UNCHANGED cache
  /\ UNCHANGED <<running, latest, exiting, look, misled>>

\* An undo whose error is dropped.
Undo(from, to, next) ==
  \/ Rename(from, to, next) /\ misled' = misled
  \/ RenameFails(from, next) /\ misled' = TRUE

PutBack ==
  /\ op = "putBack"
  /\ Undo("backup", "managed", "none")
  /\ UNCHANGED <<running, latest, exiting, cache, look>>

-----------------------------------------------------------------------------
\* Rollback: a failed probe ends it, as does a backup of the same version.
ReadVersions ==
  /\ op = "read"
  /\ \/ /\ files["backup"] \notin {Absent, files["managed"]}
        /\ op' = "clear"
     \/ op' = "none"
  /\ UNCHANGED <<running, files, latest, exiting, cache, look, faults, misled>>

ClearAside ==
  /\ op = "clear"
  /\ Remove("aside", "setAside")
  /\ UNCHANGED <<running, latest, exiting, cache, look, misled>>

SetAside ==
  /\ op = "setAside"
  /\ Rename("managed", "aside", "restore") \/ RenameFails("managed", "none")
  /\ UNCHANGED <<running, latest, exiting, cache, look, misled>>

\* Mutant: The backup is copied over, and the binary set aside thrown away.
RestoreDrops ==
  /\ op = "restore"
  /\ files' = [files EXCEPT !["managed"] = files["backup"], !["aside"] = Absent]
  /\ op' = "none" /\ cache' = NoStatus
  /\ UNCHANGED <<running, latest, exiting, look, faults, misled>>

Restore ==
  /\ op = "restore"
  /\ Rename("backup", "managed", "keep") \/ RenameFails("backup", "unrestore")
  /\ UNCHANGED <<running, latest, exiting, cache, look, misled>>

Keep ==
  /\ op = "keep"
  /\ \/ Rename("aside", "backup", "none") /\ cache' = NoStatus
     \/ RenameFails("aside", "unkeep") /\ UNCHANGED cache
  /\ UNCHANGED <<running, latest, exiting, look, misled>>

Unrestore ==
  /\ \/ op = "unrestore" /\ Undo("aside", "managed", "none")
     \/ op = "unkeep" /\ Undo("managed", "backup", "unset")
     \/ op = "unset" /\ Undo("aside", "managed", "none")
  /\ UNCHANGED <<running, latest, exiting, cache, look>>

-----------------------------------------------------------------------------
\* Restart answers, and gives the lock back, before it exits.
Restart ==
  /\ Up /\ op = "none"
  /\ exiting' = TRUE
  /\ UNCHANGED <<running, files, latest, op, cache, look, faults, misled>>

\* The steps between a rename away from the managed path and the one back to it.
HalfWay == {"replace", "putBack", "restore", "unrestore", "unset"}

\* What the process knew is gone; an operation under way stops where it is.
Stopped ==
  /\ running' = Absent /\ exiting' = FALSE
  /\ op' = "none" /\ cache' = NoStatus /\ look' = NoStatus
  /\ misled' = (misled \/ op \in HalfWay)
  /\ UNCHANGED <<files, latest>>

Exit == exiting /\ Stopped /\ UNCHANGED faults
Crash == Up /\ faults < MaxFaults /\ faults' = faults + 1 /\ Stopped

\* systemd, if there is something to start.
Start ==
  /\ ~Up /\ files["managed"] # Absent
  /\ running' = files["managed"]
  /\ misled' = FALSE
  /\ UNCHANGED <<files, latest, op, exiting, cache, look, faults>>

UpdateNext ==
  \/ Look \/ Store \/ Expire \/ Release
  \/ Begin \/ Check \/ RemoveBackup \/ Shelve \/ Replace \/ PutBack
  \/ ReadVersions \/ ClearAside \/ SetAside \/ Restore \/ Keep \/ Unrestore
  \/ Restart \/ Exit \/ Crash \/ Start

UpdateSpec == UpdateInit /\ [][UpdateNext]_vars

-----------------------------------------------------------------------------
(* Properties. *)

OnDisk == {files[s] : s \in {"managed", "backup", "aside"}} \ {Absent}

\* There is a way back: whatever updates and rollbacks do, and wherever they fail, the
\* version of the process stays among the binaries, and systemd finds a binary to start
\* when the process ends - unless an update trusted a probe that failed, an undo failed
\* too, or the process ended between two renames.  Restart's delayed exit can do the
\* last: it comes after the lock was given back.
RunningIsKept ==
  ~misled => IF Up THEN running \in OnDisk ELSE files["managed"] # Absent

\* A rollback trades places and loses nothing: from the moment its own leftover is gone
\* each step keeps every version, or the next rollback would find nothing to return to.
RollbackLosesNothing == [][
  (op \in {"setAside", "restore", "keep", "unrestore", "unkeep", "unset"} /\ ~misled' =>
     OnDisk' = OnDisk)]_vars
=============================================================================
