------------------------------ MODULE SaveManager ------------------------------
(***************************************************************************)
(* Game-save backup and restore of source/save_manager.cpp for one save.   *)
(*                                                                         *)
(* The live save is a journaled file system: what is written to the mount  *)
(* reaches it only with fsdevCommitDevice.  Snapshots are directories on   *)
(* the SD card named by second and suffix; a marker file written last says *)
(* that one is complete.  Any call may fail, and the program may be killed *)
(* at any step.  A tree is the set of files (with their content) in it.    *)
(***************************************************************************)
EXTENDS Integers, FiniteSets, SequencesExt

CONSTANTS Files,       \* files a save may hold
          Marker,      \* .save_manager_complete
          None,
          MaxClock,    \* bound: seconds
          MaxSuffix,   \* snapshots of one second: 0..MaxSuffix (99)
          MaxSnaps,    \* bound: snapshots on the card
          ListMax      \* SAVE_BACKUP_MAX

ASSUME MarkerAssumption == Marker \notin Files
ASSUME BoundsAssumption == MaxClock \in Nat /\ MaxSuffix \in Nat /\ MaxSnaps \in Nat /\ ListMax \in Nat \ {0}

VARIABLES
  live,      \* the save as the game will find it
  work,      \* the mounted view of it
  snaps,     \* snapshot directories on the SD card: key -> tree
  clock,     \* time(NULL)
  list,      \* g_backups, newest first; empty when invalidated
  seen,      \* the Tools page has filled the list (save_backup_list_save)
  unread,    \* directory entries readdir has still to return
  pc,        \* where the UI thread is
  goal,      \* "backup" or "restore": who called save_manager_backup
  todo,      \* files copy_tree has still to copy
  dst,       \* the snapshot being written, then the fresh copy
  target,    \* the snapshot to restore
  rollback,  \* the snapshot to fall back to
  result,    \* what the last restore returned: "none", "ok" or "failed"
  origin,    \* key -> the live save a marked snapshot was taken from (history)
  before,    \* the live save when the restore was begun (history)
  spoilt     \* a step of the rollback failed (history)

disk  == <<live, snaps, clock, origin>>
call  == <<goal, todo, dst, target, rollback, before, spoilt>>
ui    == <<list, seen, unread>>
vars  == <<disk, work, ui, pc, call, result>>

Key(second, suffix) == second * (MaxSuffix + 1) + suffix

\* snapshot_complete: the marker is there.
Complete(k) == k \in DOMAIN snaps /\ Marker \in snaps[k]
Saved(k) == snaps[k] \ {Marker}

\* What is on the card, in the mount and in the history of the snapshots.
TypeOK ==
  /\ live \subseteq Files /\ work \subseteq Files /\ todo \subseteq Files
  /\ clock \in 0..MaxClock
  /\ DOMAIN snaps \subseteq Int
  /\ snaps \in [DOMAIN snaps -> SUBSET (Files \cup {Marker})]
  /\ origin \in [DOMAIN snaps -> SUBSET Files]

Init ==
  /\ live \in SUBSET Files
  /\ work = {} /\ snaps = [k \in {} |-> {}] /\ origin = [k \in {} |-> {}]
  /\ clock = 0 /\ list = <<>> /\ seen = FALSE /\ unread = {} /\ pc = "idle"
  /\ goal = "backup" /\ todo = {} /\ dst = None /\ target = None /\ rollback = None
  /\ result = "none" /\ before = None /\ spoilt = FALSE

-----------------------------------------------------------------------------
(* Outside the program.                                                    *)

\* The game is played: the save becomes anything.
Play ==
  /\ pc = "idle"
  /\ live' \in SUBSET Files
  /\ goal' = "backup" /\ dst' = None /\ target' = None /\ rollback' = None
  /\ before' = None /\ result' = "none" /\ spoilt' = FALSE
  /\ UNCHANGED <<work, snaps, clock, origin, ui, pc, todo>>

\* Time passes, or the user sets the console's clock.  (A call reads it once, at
\* its beginning.)
Clock ==
  /\ pc = "idle"
  /\ clock' \in 0..MaxClock
  /\ UNCHANGED <<live, snaps, origin, work, ui, pc, call, result>>

\* A snapshot is deleted with the file browser or, whatever the UI thread is doing,
\* over FTP or MTP; the list the program keeps is not told.  (The user gave up the
\* copy: nothing is promised of the save it held, so before is forgotten.)
Delete ==
  /\ \E k \in DOMAIN snaps :
       /\ snaps' = [j \in DOMAIN snaps \ {k} |-> snaps[j]]
       /\ origin' = [j \in DOMAIN snaps \ {k} |-> origin[j]]
  /\ before' = None
  /\ UNCHANGED <<live, clock, work, ui, pc, goal, todo, dst, target, rollback, spoilt, result>>

\* The program is killed: what was not committed to the save is lost.
Crash ==
  /\ pc # "idle"
  /\ pc' = "idle" /\ work' = {} /\ list' = <<>> /\ seen' = FALSE /\ unread' = {}
  /\ todo' = {}
  /\ dst' = None /\ target' = None /\ rollback' = None /\ spoilt' = FALSE
  /\ goal' = "backup" /\ result' = "none"
  /\ UNCHANGED <<disk, before>>

-----------------------------------------------------------------------------
(* The list of snapshots and save_manager_backup.                          *)

\* Mutant: a full list is left alone, newer snapshot or not.
InsertOnlyIfRoom(entries, k) ==
  IF Len(entries) = ListMax THEN entries
  ELSE InsertAt(entries, Cardinality({i \in 1..Len(entries) : entries[i] >= k}) + 1, k)

\* One directory entry goes into g_backups: by key, newest first, the oldest falling
\* out when SAVE_BACKUP_MAX are there.
Insert(entries, k) ==
  LET full == Len(entries) = ListMax
      kept == IF full THEN Front(entries) ELSE entries
      at   == Cardinality({i \in 1..Len(kept) : kept[i] >= k}) + 1
  IN  IF full /\ k <= Last(entries) THEN entries ELSE InsertAt(kept, at, k)

\* save_manager_refresh_backups, which the Tools page calls when the list is not that
\* of the selected save: forget the list and open the directory.  If that fails, the
\* page shows an empty list and does not ask again.
Refresh ==
  /\ pc = "idle" /\ ~seen
  /\ list' = <<>>
  /\ \/ pc' = "list" /\ unread' = DOMAIN snaps /\ seen' = seen
     \/ pc' = "idle" /\ unread' = {} /\ seen' = TRUE
  /\ UNCHANGED <<disk, work, call, result>>

\* One entry, in the order of readdir: a complete snapshot goes into the list.
RefreshEntry ==
  /\ pc = "list"
  /\ \E k \in unread :
       /\ unread' = unread \ {k}
       /\ list' = IF Complete(k) THEN Insert(list, k) ELSE list
  /\ UNCHANGED <<disk, work, seen, pc, call, result>>

\* readdir returns NULL: after the last entry, or for an error nobody looks at.
RefreshEnds ==
  /\ pc = "list"
  /\ pc' = "idle" /\ seen' = TRUE /\ unread' = {}
  /\ UNCHANGED <<disk, work, list, call, result>>

\* Another save is selected, and this one again.
Reselect ==
  /\ pc = "idle" /\ seen
  /\ seen' = FALSE
  /\ UNCHANGED <<disk, work, list, unread, pc, call, result>>

FreeSuffixes == {s \in 0..MaxSuffix : Key(clock, s) \notin DOMAIN snaps}

\* Mount, find the first free suffix of this second, make the directory.
Begin(who) ==
  /\ Cardinality(DOMAIN snaps) < MaxSnaps
  /\ \E s \in FreeSuffixes :
       LET k == Key(clock, s)
       IN  /\ \A t \in FreeSuffixes : s <= t
           /\ dst' = k
           /\ snaps' = [j \in DOMAIN snaps \cup {k} |-> IF j = k THEN {} ELSE snaps[j]]
           /\ origin' = [j \in DOMAIN snaps \cup {k} |-> IF j = k THEN {} ELSE origin[j]]
  /\ pc' = "copy" /\ goal' = who /\ todo' = live
  /\ UNCHANGED <<live, clock, work, ui>>

Backup ==
  /\ pc = "idle"
  /\ Begin("backup")
  /\ result' = "none" /\ target' = None /\ rollback' = None /\ spoilt' = FALSE
  /\ UNCHANGED before

\* copy_tree copies the next file, in the order of readdir.
Copy ==
  /\ pc = "copy" /\ dst \in DOMAIN snaps
  /\ \E f \in todo :
       /\ todo' = todo \ {f}
       /\ snaps' = [snaps EXCEPT ![dst] = @ \cup {f}]
  /\ UNCHANGED <<live, clock, origin, work, ui, pc, goal, dst, target, rollback, before,
                 spoilt, result>>

MakeMarker ==
  /\ dst \in DOMAIN snaps
  /\ snaps' = [snaps EXCEPT ![dst] = @ \cup {Marker}]
  /\ origin' = [origin EXCEPT ![dst] = live]

\* Mutant: the restore goes on although its fresh copy failed.
BackupFailsGoesOn ==
  /\ pc = "copy"
  /\ \/ todo = {} /\ MakeMarker
     \/ UNCHANGED <<snaps, origin>>
  /\ pc' = (IF goal = "restore" THEN "find" ELSE "idle") /\ todo' = {}
  /\ UNCHANGED <<live, clock, work, ui, goal, dst, target, rollback, before, spoilt,
                 result>>

\* A copy fails, or the marker cannot be made, or fclose reports an error when it
\* is there already.
BackupFails ==
  /\ pc = "copy"
  /\ \/ todo = {} /\ MakeMarker
     \/ UNCHANGED <<snaps, origin>>
  /\ pc' = "idle" /\ todo' = {}
  /\ result' = IF goal = "restore" THEN "failed" ELSE "none"
  /\ UNCHANGED <<live, clock, work, ui, goal, dst, target, rollback, before, spoilt>>

\* Mutant: a failed copy is taken for done and marked.
MarkAfterFailure ==
  /\ pc = "copy"
  /\ MakeMarker
  /\ pc' = IF goal = "restore" THEN "find" ELSE "idle"
  /\ list' = <<>> /\ seen' = (seen /\ goal = "restore")
  /\ UNCHANGED <<live, clock, work, unread, call, result>>

\* Everything is copied: write the marker, unmount, forget the list; after a backup
\* the page reads it again.
Mark ==
  /\ pc = "copy" /\ todo = {}
  /\ MakeMarker
  /\ pc' = IF goal = "restore" THEN "find" ELSE "idle"
  /\ list' = <<>>
  /\ seen' = (seen /\ goal = "restore")
  /\ UNCHANGED <<live, clock, work, unread, call, result>>

-----------------------------------------------------------------------------
(* save_manager_restore_backup.                                            *)

\* A snapshot is picked from the list; a fresh copy of the live save comes first.
Restore ==
  /\ pc = "idle" /\ seen
  /\ \E i \in 1..Len(list) : target' = list[i]
  /\ Begin("restore")
  /\ before' = live /\ rollback' = None /\ result' = "none" /\ spoilt' = FALSE

\* find_latest_backup: the complete snapshot with the largest key, not the target.
Candidates == {k \in DOMAIN snaps \ {target} : Complete(k)}

Find ==
  /\ pc = "find" /\ Candidates # {}
  /\ rollback' = CHOOSE k \in Candidates : \A j \in Candidates : k >= j
  /\ work' = live
  /\ pc' = "write"
  /\ UNCHANGED <<disk, ui, goal, todo, dst, target, before, spoilt, result>>

\* Nothing to fall back to, or the save cannot be mounted.
FindFails ==
  /\ pc = "find"
  /\ pc' = "idle" /\ result' = "failed"
  /\ UNCHANGED <<disk, work, ui, call>>

\* What copy_tree brings into the save from a snapshot: all but the marker.
Incoming(k) == IF k \in DOMAIN snaps THEN Saved(k) ELSE {}

\* Mutant: the snapshot is copied over the save without clearing it first.
WriteOver ==
  /\ pc = "write" /\ target \in DOMAIN snaps
  /\ work' = work \cup Incoming(target)
  /\ pc' = "commit"
  /\ UNCHANGED <<disk, ui, call, result>>

\* Clear the mounted save and copy the target into it ...
Write ==
  /\ pc = "write" /\ target \in DOMAIN snaps
  /\ work' = Incoming(target)
  /\ pc' = "commit"
  /\ UNCHANGED <<disk, ui, call, result>>

\* ... or fail anywhere in between.
WriteFails ==
  /\ pc = "write"
  /\ work' \in SUBSET (work \cup Incoming(target))
  /\ pc' = "rollback"
  /\ UNCHANGED <<disk, ui, call, result>>

Commit ==
  /\ pc = "commit"
  /\ live' = work
  /\ pc' = "idle" /\ work' = {} /\ result' = "ok" /\ list' = <<>> /\ seen' = FALSE
  /\ UNCHANGED <<snaps, clock, origin, unread, call>>

CommitFails ==
  /\ pc = "commit"
  /\ pc' = "rollback"
  /\ UNCHANGED <<disk, work, ui, call, result>>

\* Mutant: the rollback does not clear what the failed restore left.
RollbackOver ==
  /\ pc = "rollback" /\ rollback \in DOMAIN snaps
  /\ work' = work \cup Incoming(rollback)
  /\ pc' = "recommit"
  /\ UNCHANGED <<disk, ui, call, result>>

\* Clear again and copy the rollback snapshot; errors are not looked at.
Rollback ==
  /\ pc = "rollback" /\ rollback \in DOMAIN snaps
  /\ work' = Incoming(rollback)
  /\ pc' = "recommit"
  /\ UNCHANGED <<disk, ui, call, result>>

RollbackFails ==
  /\ pc = "rollback"
  /\ work' \in SUBSET (work \cup Incoming(rollback))
  /\ spoilt' = TRUE
  /\ pc' = "recommit"
  /\ UNCHANGED <<disk, ui, goal, todo, dst, target, rollback, before, result>>

\* The second commit happens or fails; either way the restore returns an error and
\* the page does not read the list again.
Recommit ==
  /\ pc = "recommit"
  /\ live' \in {work, live}
  /\ pc' = "idle" /\ work' = {} /\ result' = "failed" /\ list' = <<>>
  /\ UNCHANGED <<snaps, clock, origin, call, seen, unread>>

Outside == Play \/ Clock \/ Delete \/ Crash
Program == Refresh \/ RefreshEntry \/ RefreshEnds \/ Reselect \/ Backup \/ Copy
             \/ BackupFails \/ Mark \/ Restore \/ Find \/ FindFails \/ Write
             \/ WriteFails \/ Commit \/ CommitFails \/ Rollback \/ RollbackFails
             \/ Recommit
Next == Outside \/ Program

Spec == Init /\ [][Next]_vars

-----------------------------------------------------------------------------
(* Properties.                                                             *)

\* A snapshot that carries the marker holds the whole save it was taken from,
\* whatever crashed or failed before.
CompleteIsWhole == \A k \in DOMAIN snaps : Complete(k) => Saved(k) = origin[k]

\* The save a restore replaces is never lost: at every step, crashes included, it
\* is still live or it is held by a complete snapshot.
LiveNeverLost ==
  before # None =>
    live = before \/ \E k \in DOMAIN snaps : Complete(k) /\ Saved(k) = before

\* A restore that succeeds leaves the save as the chosen snapshot was taken, if
\* the snapshot is complete: the list is not checked against the card again, and a
\* name on it may by now belong to a backup that was cut short.
RestoredIsTarget ==
  result = "ok" /\ Complete(target) => live = origin[target]

\* A restore that fails leaves the save as it was, if the rollback's own steps work
\* and find_latest_backup finds the fresh copy.  It does not when another snapshot
\* carries a later name (the clock was set back, or an earlier suffix of the same
\* second was freed), or when the fresh copy took the name of the chosen snapshot,
\* deleted since the list was read.
LaterThanFresh == \E k \in Candidates : k > dst
FailedRestoreUndone ==
  result = "failed" /\ before # None => live = before \/ spoilt \/ target = dst \/ LaterThanFresh

\* Each time save_manager_refresh_backups has read the directory to its end, the list
\* holds snapshots newest first, whatever order readdir gives them in and whatever is
\* deleted meanwhile; a complete snapshot that is left out is older than all in it,
\* and is left out only when SAVE_BACKUP_MAX are there.
Decreasing(entries) ==
  \A i \in 1..Len(entries), j \in 1..Len(entries) : i < j => entries[i] > entries[j]
InOrOlder(k, entries) ==
  k \in Range(entries) \/ (Len(entries) = ListMax /\ k < Last(entries))
Newest(entries) ==
  /\ Decreasing(entries)
  /\ \A k \in DOMAIN snaps : Complete(k) => InOrOlder(k, entries)
ReadsNewest == [][pc = "list" /\ unread = {} /\ seen' => Newest(list')]_vars
=============================================================================
