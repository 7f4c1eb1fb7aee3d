--------------------------- MODULE SaveManager_proof ---------------------------
(***************************************************************************)
(* Backup and restore of a save, for any files, clocks and numbers of      *)
(* snapshots: what a marked snapshot holds, and where the save that a      *)
(* restore replaces can be found at every step, crashes included.          *)
(*                                                                         *)
(* The invariant follows the UI thread: the snapshot being written and     *)
(* what is still to copy make up the live save (Copying); until a restore  *)
(* has committed, its fresh copy is complete and equal to the live save    *)
(* (Fresh); what it falls back to is that copy, unless a later name is on  *)
(* the card (Undoing); the mounted view holds what will be committed       *)
(* (Working); a result is only there between calls, when the page may      *)
(* read the list (Results).  The list of snapshots is followed entry by    *)
(* entry (Listing), from what one insertion keeps (InsertKeeps).           *)
(***************************************************************************)
EXTENDS SaveManager, SequenceTheorems, FiniteSetTheorems, WellFoundedInduction, TLAPS

\* While a snapshot is written, it and what is still to copy make up the live save.
Copying ==
  pc = "copy" =>
    /\ dst \in DOMAIN snaps => Marker \notin snaps[dst] /\ snaps[dst] \cup todo = live
    /\ goal = "restore" /\ before # None => live = before

Restoring == {"find", "write", "commit", "rollback", "recommit"}

Fresh ==
  pc \in Restoring /\ before # None =>
    live = before /\ Complete(dst) /\ Saved(dst) = before

Undoing ==
  pc \in Restoring \ {"find"} /\ before # None =>
    rollback = dst \/ target = dst \/ LaterThanFresh

Working ==
  /\ pc = "commit" /\ Complete(target) => work = origin[target]
  /\ pc = "recommit" /\ before # None =>
       work = before \/ spoilt \/ target = dst \/ LaterThanFresh

Results == result \in {"ok", "failed"} => pc \in {"idle", "list"}

SaveInv ==
  /\ TypeOK /\ Copying /\ Fresh /\ Undoing /\ Working /\ Results
  /\ CompleteIsWhole /\ LiveNeverLost /\ RestoredIsTarget /\ FailedRestoreUndone

-----------------------------------------------------------------------------
(* How a step changes the snapshots on the card.                           *)

\* A backup begins with an empty directory under a name nobody has.
LEMMA BeginAdds ==
  ASSUME TypeOK, NEW by, Begin(by)
  PROVE  /\ dst' \in Int \ DOMAIN snaps
         /\ DOMAIN snaps' = DOMAIN snaps \cup {dst'} /\ DOMAIN origin' = DOMAIN snaps'
         /\ snaps'[dst'] = {} /\ origin'[dst'] = {}
         /\ \A k \in DOMAIN snaps : snaps'[k] = snaps[k] /\ origin'[k] = origin[k]
         /\ TypeOK'
<1>1. PICK s \in FreeSuffixes :
        /\ dst' = Key(clock, s)
        /\ snaps' = [j \in DOMAIN snaps \cup {Key(clock, s)} |->
                       IF j = Key(clock, s) THEN {} ELSE snaps[j]]
        /\ origin' = [j \in DOMAIN snaps \cup {Key(clock, s)} |->
                       IF j = Key(clock, s) THEN {} ELSE origin[j]]
  BY DEF Begin
<1>2. dst' \in Int /\ dst' \notin DOMAIN snaps
  <2>1. s \in 0..MaxSuffix /\ dst' \notin DOMAIN snaps
    BY <1>1 DEF FreeSuffixes
  <2>2. clock \in Int /\ MaxSuffix + 1 \in Int /\ s \in Int
    BY <2>1, BoundsAssumption DEF TypeOK
  <2>3. clock * (MaxSuffix + 1) \in Int
    BY <2>2
  <2>. QED
    BY <1>1, <2>1, <2>2, <2>3 DEF Key
<1>3. /\ snaps' = [j \in DOMAIN snaps \cup {dst'} |-> IF j = dst' THEN {} ELSE snaps[j]]
      /\ origin' = [j \in DOMAIN snaps \cup {dst'} |-> IF j = dst' THEN {} ELSE origin[j]]
  BY <1>1
<1>4. DOMAIN snaps' = DOMAIN snaps \cup {dst'} /\ DOMAIN origin' = DOMAIN snaps'
  BY <1>3
<1>5. snaps'[dst'] = {} /\ origin'[dst'] = {}
  BY <1>3
<1>6. \A j \in DOMAIN snaps : snaps'[j] = snaps[j] /\ origin'[j] = origin[j]
  BY <1>2, <1>3
<1>7. snaps' \in [DOMAIN snaps' -> SUBSET (Files \cup {Marker})]
  BY <1>3, <1>4, <1>5, <1>6 DEF TypeOK
<1>8. origin' \in [DOMAIN snaps' -> SUBSET Files]
  BY <1>3, <1>4, <1>5, <1>6 DEF TypeOK
<1>9. TypeOK'
  BY <1>2, <1>4, <1>7, <1>8 DEF TypeOK, Begin
<1>. QED
  BY <1>2, <1>4, <1>5, <1>6, <1>9

\* A file is copied into the snapshot being written, which carries no marker yet.
LEMMA CopyAdds ==
  ASSUME TypeOK, Copying, Copy
  PROVE  /\ dst \in DOMAIN snaps /\ DOMAIN snaps' = DOMAIN snaps /\ origin' = origin
         /\ Marker \notin snaps[dst] /\ Marker \notin snaps'[dst]
         /\ snaps'[dst] \cup todo' = live
         /\ \A k \in DOMAIN snaps : k # dst => snaps'[k] = snaps[k]
         /\ TypeOK'
<1>1. PICK f \in todo : todo' = todo \ {f} /\ snaps' = [snaps EXCEPT ![dst] = @ \cup {f}]
  BY DEF Copy
<1>2. dst \in DOMAIN snaps /\ Marker \notin snaps[dst] /\ snaps[dst] \cup todo = live
  BY DEF Copy, Copying
<1>3. DOMAIN snaps' = DOMAIN snaps /\ snaps'[dst] = snaps[dst] \cup {f}
      /\ \A k \in DOMAIN snaps : k # dst => snaps'[k] = snaps[k]
  BY <1>1, <1>2 DEF TypeOK
<1>4. f \in Files /\ f # Marker
  BY MarkerAssumption DEF TypeOK
<1>5. snaps'[dst] \cup todo' = live
  BY <1>1, <1>2, <1>3
<1>6. snaps' \in [DOMAIN snaps -> SUBSET (Files \cup {Marker})]
  BY <1>1, <1>2, <1>4 DEF TypeOK
<1>7. TypeOK'
  BY <1>1, <1>3, <1>6 DEF TypeOK, Copy, ui
<1>. QED
  BY <1>2, <1>3, <1>4, <1>5, <1>7 DEF Copy

\* The marker is written into a snapshot that holds the whole live save.
LEMMA MarkerAdds ==
  ASSUME TypeOK, Copying, pc = "copy", todo = {}, MakeMarker
  PROVE  /\ dst \in DOMAIN snaps /\ DOMAIN snaps' = DOMAIN snaps /\ DOMAIN origin' = DOMAIN snaps
         /\ Marker \notin snaps[dst] /\ Marker \in snaps'[dst]
         /\ snaps'[dst] \ {Marker} = live /\ origin'[dst] = live
         /\ \A k \in DOMAIN snaps : k # dst => snaps'[k] = snaps[k] /\ origin'[k] = origin[k]
         /\ snaps' \in [DOMAIN snaps' -> SUBSET (Files \cup {Marker})]
         /\ origin' \in [DOMAIN snaps' -> SUBSET Files]
<1>1. dst \in DOMAIN snaps /\ Marker \notin snaps[dst] /\ snaps[dst] = live
  BY DEF MakeMarker, Copying
<1>2. snaps' = [snaps EXCEPT ![dst] = @ \cup {Marker}] /\ origin' = [origin EXCEPT ![dst] = live]
  BY DEF MakeMarker
<1>3. DOMAIN origin = DOMAIN snaps
  BY DEF TypeOK
<1>4. DOMAIN snaps' = DOMAIN snaps /\ snaps'[dst] = live \cup {Marker}
      /\ \A k \in DOMAIN snaps : k # dst => snaps'[k] = snaps[k]
  BY <1>1, <1>2
<1>5. DOMAIN origin' = DOMAIN snaps /\ origin'[dst] = live
      /\ \A k \in DOMAIN snaps : k # dst => origin'[k] = origin[k]
  BY <1>1, <1>2, <1>3
<1>6. snaps' \in [DOMAIN snaps' -> SUBSET (Files \cup {Marker})]
  BY <1>1, <1>2, <1>4 DEF TypeOK
<1>7. origin' \in [DOMAIN snaps' -> SUBSET Files]
  BY <1>1, <1>2, <1>4 DEF TypeOK
<1>. QED
  BY <1>1, <1>4, <1>5, <1>6, <1>7

\* A deleted snapshot takes nothing else with it.
LEMMA DeleteRemoves ==
  ASSUME TypeOK, Delete
  PROVE  /\ DOMAIN snaps' \subseteq DOMAIN snaps
         /\ \A k \in DOMAIN snaps' : snaps'[k] = snaps[k] /\ origin'[k] = origin[k]
         /\ before' = None
         /\ TypeOK'
<1>1. PICK d \in DOMAIN snaps :
        /\ snaps' = [j \in DOMAIN snaps \ {d} |-> snaps[j]]
        /\ origin' = [j \in DOMAIN snaps \ {d} |-> origin[j]]
  BY DEF Delete
<1>2. DOMAIN snaps' = DOMAIN snaps \ {d} /\ DOMAIN origin' = DOMAIN snaps'
      /\ \A k \in DOMAIN snaps' : snaps'[k] = snaps[k] /\ origin'[k] = origin[k]
  BY <1>1
<1>3. snaps' \in [DOMAIN snaps' -> SUBSET (Files \cup {Marker})]
      /\ origin' \in [DOMAIN snaps' -> SUBSET Files]
  BY <1>1, <1>2 DEF TypeOK
<1>. QED
  BY <1>2, <1>3 DEF TypeOK, Delete

\* A tree that is copied back holds no marker.
LEMMA IncomingFiles == TypeOK => \A k : Incoming(k) \subseteq Files
  BY DEF TypeOK, Incoming, Saved

-----------------------------------------------------------------------------
(* Every step keeps the invariant, part by part.                           *)

\* Every step keeps the two file systems well formed.
LEMMA TypeStep == (TypeOK /\ Copying) /\ [Next]_vars => TypeOK'
<1> SUFFICES ASSUME TypeOK, Copying, [Next]_vars PROVE TypeOK'
  OBVIOUS
<1> USE DEF disk, call, ui
<1>1. CASE Play
  BY <1>1 DEF Play, TypeOK
<1>2. CASE Clock
  BY <1>2 DEF Clock, TypeOK
<1>3. CASE Delete
  BY <1>3, DeleteRemoves
<1>4. CASE Crash
  BY <1>4 DEF Crash, TypeOK
<1>5. CASE Refresh \/ RefreshEntry \/ RefreshEnds
  BY <1>5 DEF Refresh, RefreshEntry, RefreshEnds, TypeOK
<1>6. CASE Reselect
  BY <1>6 DEF Reselect, TypeOK
<1>7. CASE Backup
  BY <1>7, BeginAdds DEF Backup
<1>8. CASE Copy
  BY <1>8, CopyAdds
<1>9. CASE BackupFails
  <2>1. CASE todo = {} /\ MakeMarker
    BY <1>9, <2>1, MarkerAdds DEF BackupFails, TypeOK
  <2>2. CASE UNCHANGED <<snaps, origin>>
    BY <1>9, <2>2 DEF BackupFails, TypeOK
  <2>. QED
    BY <1>9, <2>1, <2>2 DEF BackupFails
<1>10. CASE Mark
  BY <1>10, MarkerAdds DEF Mark, TypeOK
<1>11. CASE Restore
  BY <1>11, BeginAdds DEF Restore
<1>12. CASE Find
  BY <1>12 DEF Find, TypeOK
<1>13. CASE FindFails
  BY <1>13 DEF FindFails, TypeOK
<1>14. CASE Write
  BY <1>14, IncomingFiles DEF Write, TypeOK
<1>15. CASE WriteFails
  BY <1>15, IncomingFiles DEF WriteFails, TypeOK
<1>16. CASE Commit
  BY <1>16 DEF Commit, TypeOK
<1>17. CASE CommitFails
  BY <1>17 DEF CommitFails, TypeOK
<1>18. CASE Rollback
  BY <1>18, IncomingFiles DEF Rollback, TypeOK
<1>19. CASE RollbackFails
  BY <1>19, IncomingFiles DEF RollbackFails, TypeOK
<1>20. CASE Recommit
  BY <1>20 DEF Recommit, TypeOK
<1>21. CASE UNCHANGED vars
  BY <1>21 DEF vars, TypeOK
<1>. QED
  BY <1>1, <1>2, <1>3, <1>4, <1>5, <1>6, <1>7, <1>8, <1>9, <1>10, <1>11, <1>12, <1>13,
    <1>14, <1>15, <1>16, <1>17, <1>18, <1>19, <1>20, <1>21 DEF Next, Outside, Program

\* Every step keeps what a snapshot being written holds.
LEMMA CopyingStep == (TypeOK /\ Copying) /\ [Next]_vars => Copying'
<1> SUFFICES ASSUME TypeOK, Copying, [Next]_vars PROVE Copying'
  OBVIOUS
<1> USE DEF disk, call, ui, Copying
<1>1. CASE Play
  BY <1>1 DEF Play
<1>2. CASE Clock
  BY <1>2 DEF Clock
<1>3. CASE Delete
  BY <1>3, DeleteRemoves DEF Delete
<1>4. CASE Crash
  BY <1>4 DEF Crash
<1>5. CASE Refresh \/ RefreshEntry \/ RefreshEnds
  BY <1>5 DEF Refresh, RefreshEntry, RefreshEnds
<1>6. CASE Reselect
  BY <1>6 DEF Reselect
<1>7. CASE Backup
  BY <1>7, BeginAdds DEF Backup, Begin
<1>8. CASE Copy
  BY <1>8, CopyAdds DEF Copy
<1>9. CASE BackupFails
  <2>1. CASE todo = {} /\ MakeMarker
    BY <1>9, <2>1, MarkerAdds DEF BackupFails
  <2>2. CASE UNCHANGED <<snaps, origin>>
    BY <1>9, <2>2 DEF BackupFails
  <2>. QED
    BY <1>9, <2>1, <2>2 DEF BackupFails
<1>10. CASE Mark
  BY <1>10, MarkerAdds DEF Mark
<1>11. CASE Restore
  BY <1>11, BeginAdds DEF Restore, Begin
<1>12. CASE Find
  BY <1>12 DEF Find
<1>13. CASE FindFails
  BY <1>13 DEF FindFails
<1>14. CASE Write
  BY <1>14 DEF Write
<1>15. CASE WriteFails
  BY <1>15 DEF WriteFails
<1>16. CASE Commit
  BY <1>16 DEF Commit
<1>17. CASE CommitFails
  BY <1>17 DEF CommitFails
<1>18. CASE Rollback
  BY <1>18 DEF Rollback
<1>19. CASE RollbackFails
  BY <1>19 DEF RollbackFails
<1>20. CASE Recommit
  BY <1>20 DEF Recommit
<1>21. CASE UNCHANGED vars
  BY <1>21 DEF vars
<1>. QED
  BY <1>1, <1>2, <1>3, <1>4, <1>5, <1>6, <1>7, <1>8, <1>9, <1>10, <1>11, <1>12, <1>13,
    <1>14, <1>15, <1>16, <1>17, <1>18, <1>19, <1>20, <1>21 DEF Next, Outside, Program

\* Every step keeps marked snapshots whole.
LEMMA WholeStep == (TypeOK /\ Copying /\ CompleteIsWhole) /\ [Next]_vars => CompleteIsWhole'
<1> SUFFICES ASSUME TypeOK, Copying, CompleteIsWhole, [Next]_vars PROVE CompleteIsWhole'
  OBVIOUS
<1> USE DEF disk, call, ui, CompleteIsWhole, Complete, Saved
<1>1. CASE Play
  BY <1>1 DEF Play
<1>2. CASE Clock
  BY <1>2 DEF Clock
<1>3. CASE Delete
  BY <1>3, DeleteRemoves DEF Delete
<1>4. CASE Crash
  BY <1>4 DEF Crash
<1>5. CASE Refresh \/ RefreshEntry \/ RefreshEnds
  BY <1>5 DEF Refresh, RefreshEntry, RefreshEnds
<1>6. CASE Reselect
  BY <1>6 DEF Reselect
<1>7. CASE Backup
  BY <1>7, BeginAdds DEF Backup, Begin
<1>8. CASE Copy
  BY <1>8, CopyAdds DEF Copy
<1>9. CASE BackupFails
  <2>1. CASE todo = {} /\ MakeMarker
    BY <1>9, <2>1, MarkerAdds DEF BackupFails
  <2>2. CASE UNCHANGED <<snaps, origin>>
    BY <1>9, <2>2 DEF BackupFails
  <2>. QED
    BY <1>9, <2>1, <2>2 DEF BackupFails
<1>10. CASE Mark
  BY <1>10, MarkerAdds DEF Mark
<1>11. CASE Restore
  BY <1>11, BeginAdds DEF Restore, Begin
<1>12. CASE Find
  BY <1>12 DEF Find
<1>13. CASE FindFails
  BY <1>13 DEF FindFails
<1>14. CASE Write
  BY <1>14 DEF Write
<1>15. CASE WriteFails
  BY <1>15 DEF WriteFails
<1>16. CASE Commit
  BY <1>16 DEF Commit
<1>17. CASE CommitFails
  BY <1>17 DEF CommitFails
<1>18. CASE Rollback
  BY <1>18 DEF Rollback
<1>19. CASE RollbackFails
  BY <1>19 DEF RollbackFails
<1>20. CASE Recommit
  BY <1>20 DEF Recommit
<1>21. CASE UNCHANGED vars
  BY <1>21 DEF vars
<1>. QED
  BY <1>1, <1>2, <1>3, <1>4, <1>5, <1>6, <1>7, <1>8, <1>9, <1>10, <1>11, <1>12, <1>13,
    <1>14, <1>15, <1>16, <1>17, <1>18, <1>19, <1>20, <1>21 DEF Next, Outside, Program

\* Every step keeps the fresh copy of a restore.
LEMMA FreshStep == (TypeOK /\ Copying /\ Fresh) /\ [Next]_vars => Fresh'
<1> SUFFICES ASSUME TypeOK, Copying, Fresh, [Next]_vars PROVE Fresh'
  OBVIOUS
<1> USE DEF disk, call, ui, Fresh, Restoring, Complete, Saved
<1>1. CASE Play
  BY <1>1 DEF Play
<1>2. CASE Clock
  BY <1>2 DEF Clock
<1>3. CASE Delete
  BY <1>3, DeleteRemoves DEF Delete
<1>4. CASE Crash
  BY <1>4 DEF Crash
<1>5. CASE Refresh \/ RefreshEntry \/ RefreshEnds
  BY <1>5 DEF Refresh, RefreshEntry, RefreshEnds
<1>6. CASE Reselect
  BY <1>6 DEF Reselect
<1>7. CASE Backup
  BY <1>7, BeginAdds DEF Backup, Begin
<1>8. CASE Copy
  BY <1>8, CopyAdds DEF Copy
<1>9. CASE BackupFails
  <2>1. CASE todo = {} /\ MakeMarker
    BY <1>9, <2>1, MarkerAdds DEF BackupFails
  <2>2. CASE UNCHANGED <<snaps, origin>>
    BY <1>9, <2>2 DEF BackupFails
  <2>. QED
    BY <1>9, <2>1, <2>2 DEF BackupFails
<1>10. CASE Mark
  BY <1>10, MarkerAdds DEF Mark, Copying
<1>11. CASE Restore
  BY <1>11, BeginAdds DEF Restore, Begin
<1>12. CASE Find
  BY <1>12 DEF Find
<1>13. CASE FindFails
  BY <1>13 DEF FindFails
<1>14. CASE Write
  BY <1>14 DEF Write
<1>15. CASE WriteFails
  BY <1>15 DEF WriteFails
<1>16. CASE Commit
  BY <1>16 DEF Commit
<1>17. CASE CommitFails
  BY <1>17 DEF CommitFails
<1>18. CASE Rollback
  BY <1>18 DEF Rollback
<1>19. CASE RollbackFails
  BY <1>19 DEF RollbackFails
<1>20. CASE Recommit
  BY <1>20 DEF Recommit
<1>21. CASE UNCHANGED vars
  BY <1>21 DEF vars
<1>. QED
  BY <1>1, <1>2, <1>3, <1>4, <1>5, <1>6, <1>7, <1>8, <1>9, <1>10, <1>11, <1>12, <1>13,
    <1>14, <1>15, <1>16, <1>17, <1>18, <1>19, <1>20, <1>21 DEF Next, Outside, Program

\* Every step keeps the save that is replaced, live or in a complete snapshot.
LEMMA NeverLostStep ==
  (TypeOK /\ Copying /\ Fresh /\ LiveNeverLost) /\ [Next]_vars => LiveNeverLost'
<1> SUFFICES ASSUME TypeOK, Copying, Fresh, LiveNeverLost, [Next]_vars PROVE LiveNeverLost'
  OBVIOUS
<1> USE DEF disk, call, ui, LiveNeverLost, Fresh, Restoring, Complete, Saved
<1>1. CASE Play
  BY <1>1 DEF Play
<1>2. CASE Clock
  BY <1>2 DEF Clock
<1>3. CASE Delete
  BY <1>3, DeleteRemoves DEF Delete
<1>4. CASE Crash
  BY <1>4 DEF Crash
<1>5. CASE Refresh \/ RefreshEntry \/ RefreshEnds
  BY <1>5 DEF Refresh, RefreshEntry, RefreshEnds
<1>6. CASE Reselect
  BY <1>6 DEF Reselect
<1>7. CASE Backup
  BY <1>7, BeginAdds DEF Backup, Begin
<1>8. CASE Copy
  BY <1>8, CopyAdds DEF Copy
<1>9. CASE BackupFails
  <2>1. CASE todo = {} /\ MakeMarker
    BY <1>9, <2>1, MarkerAdds DEF BackupFails
  <2>2. CASE UNCHANGED <<snaps, origin>>
    BY <1>9, <2>2 DEF BackupFails
  <2>. QED
    BY <1>9, <2>1, <2>2 DEF BackupFails
<1>10. CASE Mark
  BY <1>10, MarkerAdds DEF Mark
<1>11. CASE Restore
  BY <1>11, BeginAdds DEF Restore, Begin
<1>12. CASE Find
  BY <1>12 DEF Find
<1>13. CASE FindFails
  BY <1>13 DEF FindFails
<1>14. CASE Write
  BY <1>14 DEF Write
<1>15. CASE WriteFails
  BY <1>15 DEF WriteFails
<1>16. CASE Commit
  BY <1>16 DEF Commit
<1>17. CASE CommitFails
  BY <1>17 DEF CommitFails
<1>18. CASE Rollback
  BY <1>18 DEF Rollback
<1>19. CASE RollbackFails
  BY <1>19 DEF RollbackFails
<1>20. CASE Recommit
  BY <1>20 DEF Recommit
<1>21. CASE UNCHANGED vars
  BY <1>21 DEF vars
<1>. QED
  BY <1>1, <1>2, <1>3, <1>4, <1>5, <1>6, <1>7, <1>8, <1>9, <1>10, <1>11, <1>12, <1>13,
    <1>14, <1>15, <1>16, <1>17, <1>18, <1>19, <1>20, <1>21 DEF Next, Outside, Program

\* Every step keeps what the restore falls back to.
LEMMA UndoingStep == (TypeOK /\ Fresh /\ Undoing) /\ [Next]_vars => Undoing'
<1> SUFFICES ASSUME TypeOK, Fresh, Undoing, [Next]_vars PROVE Undoing'
  OBVIOUS
<1> USE DEF disk, call, ui, Undoing, Restoring, LaterThanFresh, Candidates, Complete
<1>1. CASE Play
  BY <1>1 DEF Play
<1>2. CASE Clock
  BY <1>2 DEF Clock
<1>3. CASE Delete
  BY <1>3 DEF Delete
<1>4. CASE Crash
  BY <1>4 DEF Crash
<1>5. CASE Refresh \/ RefreshEntry \/ RefreshEnds
  BY <1>5 DEF Refresh, RefreshEntry, RefreshEnds
<1>6. CASE Reselect
  BY <1>6 DEF Reselect
<1>7. CASE Backup
  BY <1>7 DEF Backup, Begin
<1>8. CASE Copy
  BY <1>8 DEF Copy
<1>9. CASE BackupFails
  BY <1>9 DEF BackupFails
<1>10. CASE Mark
  BY <1>10 DEF Mark
<1>11. CASE Restore
  BY <1>11 DEF Restore, Begin
<1>12. CASE Find
  <2> SUFFICES ASSUME before # None, target # dst, \A k \in Candidates : ~(k > dst)
               PROVE  rollback' = dst
    BY <1>12 DEF Find
  <2>1. dst \in Candidates /\ Candidates \subseteq Int
    BY <1>12 DEF Find, Fresh, TypeOK
  <2>2. \A k \in Candidates : dst >= k
    BY <2>1
  <2> DEFINE Newer(k) == \A j \in Candidates : k >= j
  <2>3. rollback' = CHOOSE k \in Candidates : Newer(k)
    BY <1>12 DEF Find
  <2>4. rollback' \in Candidates /\ rollback' >= dst
    <3>1. \E k \in Candidates : Newer(k)
      BY <2>1, <2>2
    <3>2. rollback' \in Candidates /\ Newer(rollback')
      BY <2>3, <3>1
    <3>. QED
      BY <2>1, <3>2
  <2>. QED
    BY <2>1, <2>4
<1>13. CASE FindFails
  BY <1>13 DEF FindFails
<1>14. CASE Write
  BY <1>14 DEF Write
<1>15. CASE WriteFails
  BY <1>15 DEF WriteFails
<1>16. CASE Commit
  BY <1>16 DEF Commit
<1>17. CASE CommitFails
  BY <1>17 DEF CommitFails
<1>18. CASE Rollback
  BY <1>18 DEF Rollback
<1>19. CASE RollbackFails
  BY <1>19 DEF RollbackFails
<1>20. CASE Recommit
  BY <1>20 DEF Recommit
<1>21. CASE UNCHANGED vars
  BY <1>21 DEF vars
<1>. QED
  BY <1>1, <1>2, <1>3, <1>4, <1>5, <1>6, <1>7, <1>8, <1>9, <1>10, <1>11, <1>12, <1>13,
    <1>14, <1>15, <1>16, <1>17, <1>18, <1>19, <1>20, <1>21 DEF Next, Outside, Program

\* Every step keeps what the mounted view is about to commit.
LEMMA WorkingStep ==
  (TypeOK /\ CompleteIsWhole /\ Fresh /\ Undoing /\ Working) /\ [Next]_vars => Working'
<1> SUFFICES ASSUME TypeOK, CompleteIsWhole, Fresh, Undoing, Working, [Next]_vars
             PROVE  Working'
  OBVIOUS
<1> USE DEF disk, call, ui, Working, Undoing, Fresh, Restoring, LaterThanFresh, Candidates,
    CompleteIsWhole, Complete, Saved, Incoming
<1>1. CASE Play
  BY <1>1 DEF Play
<1>2. CASE Clock
  BY <1>2 DEF Clock
<1>3. CASE Delete
  BY <1>3, DeleteRemoves DEF Delete
<1>4. CASE Crash
  BY <1>4 DEF Crash
<1>5. CASE Refresh \/ RefreshEntry \/ RefreshEnds
  BY <1>5 DEF Refresh, RefreshEntry, RefreshEnds
<1>6. CASE Reselect
  BY <1>6 DEF Reselect
<1>7. CASE Backup
  BY <1>7 DEF Backup, Begin
<1>8. CASE Copy
  BY <1>8 DEF Copy
<1>9. CASE BackupFails
  BY <1>9 DEF BackupFails
<1>10. CASE Mark
  BY <1>10 DEF Mark
<1>11. CASE Restore
  BY <1>11 DEF Restore, Begin
<1>12. CASE Find
  BY <1>12 DEF Find
<1>13. CASE FindFails
  BY <1>13 DEF FindFails
<1>14. CASE Write
  BY <1>14 DEF Write
<1>15. CASE WriteFails
  BY <1>15 DEF WriteFails
<1>16. CASE Commit
  BY <1>16 DEF Commit
<1>17. CASE CommitFails
  BY <1>17 DEF CommitFails
<1>18. CASE Rollback
  BY <1>18 DEF Rollback
<1>19. CASE RollbackFails
  BY <1>19 DEF RollbackFails
<1>20. CASE Recommit
  BY <1>20 DEF Recommit
<1>21. CASE UNCHANGED vars
  BY <1>21 DEF vars
<1>. QED
  BY <1>1, <1>2, <1>3, <1>4, <1>5, <1>6, <1>7, <1>8, <1>9, <1>10, <1>11, <1>12, <1>13,
    <1>14, <1>15, <1>16, <1>17, <1>18, <1>19, <1>20, <1>21 DEF Next, Outside, Program

\* Every step keeps what the result of a restore says.
LEMMA ResultsStep ==
  (TypeOK /\ Copying /\ Fresh /\ Undoing /\ Working /\ Results /\ RestoredIsTarget /\
    FailedRestoreUndone) /\ [Next]_vars => (Results /\ RestoredIsTarget /\
    FailedRestoreUndone)'
<1> SUFFICES ASSUME TypeOK, Copying, Fresh, Undoing, Working, Results, RestoredIsTarget,
                    FailedRestoreUndone, [Next]_vars
             PROVE  (Results /\ RestoredIsTarget /\ FailedRestoreUndone)'
  OBVIOUS
<1> USE DEF disk, call, ui, Results, RestoredIsTarget, FailedRestoreUndone, Working, Fresh,
    Copying, Restoring, LaterThanFresh, Candidates, Complete
<1>1. CASE Play
  BY <1>1 DEF Play
<1>2. CASE Clock
  BY <1>2 DEF Clock
<1>3. CASE Delete
  BY <1>3, DeleteRemoves DEF Delete
<1>4. CASE Crash
  BY <1>4 DEF Crash
<1>5. CASE Refresh \/ RefreshEntry \/ RefreshEnds
  BY <1>5 DEF Refresh, RefreshEntry, RefreshEnds
<1>6. CASE Reselect
  BY <1>6 DEF Reselect
<1>7. CASE Backup
  BY <1>7 DEF Backup, Begin
<1>8. CASE Copy
  BY <1>8 DEF Copy
<1>9. CASE BackupFails
  BY <1>9 DEF BackupFails
<1>10. CASE Mark
  BY <1>10 DEF Mark
<1>11. CASE Restore
  BY <1>11 DEF Restore, Begin
<1>12. CASE Find
  BY <1>12 DEF Find
<1>13. CASE FindFails
  BY <1>13 DEF FindFails
<1>14. CASE Write
  BY <1>14 DEF Write
<1>15. CASE WriteFails
  BY <1>15 DEF WriteFails
<1>16. CASE Commit
  BY <1>16 DEF Commit
<1>17. CASE CommitFails
  BY <1>17 DEF CommitFails
<1>18. CASE Rollback
  BY <1>18 DEF Rollback
<1>19. CASE RollbackFails
  BY <1>19 DEF RollbackFails
<1>20. CASE Recommit
  BY <1>20 DEF Recommit
<1>21. CASE UNCHANGED vars
  BY <1>21 DEF vars
<1>. QED
  BY <1>1, <1>2, <1>3, <1>4, <1>5, <1>6, <1>7, <1>8, <1>9, <1>10, <1>11, <1>12, <1>13,
    <1>14, <1>15, <1>16, <1>17, <1>18, <1>19, <1>20, <1>21 DEF Next, Outside, Program

\* The initial state satisfies the invariant.
LEMMA SaveInitial == Init => SaveInv
<1> SUFFICES ASSUME Init PROVE SaveInv
  OBVIOUS
<1> USE DEF Init
<1>1. TypeOK
  BY BoundsAssumption DEF TypeOK
<1>2. Copying /\ Fresh /\ Undoing /\ Working /\ Results
  BY DEF Copying, Fresh, Undoing, Working, Results, Restoring
<1>3. CompleteIsWhole /\ LiveNeverLost /\ RestoredIsTarget /\ FailedRestoreUndone
  BY DEF CompleteIsWhole, LiveNeverLost, RestoredIsTarget, FailedRestoreUndone, Complete
<1>. QED
  BY <1>1, <1>2, <1>3 DEF SaveInv

\* The invariant holds in every reachable state.
THEOREM SaveInvariance == Spec => []SaveInv
<1>1. SaveInv /\ [Next]_vars => SaveInv'
  BY TypeStep, CopyingStep, WholeStep, FreshStep, NeverLostStep, UndoingStep, WorkingStep,
    ResultsStep DEF SaveInv
<1>. QED
  BY SaveInitial, <1>1, PTL DEF Spec

-----------------------------------------------------------------------------
(* What follows for the code.                                              *)

\* What is on the card and in the mount stays made of the save's files and the marker, and
\* every snapshot on the card has one history entry (save_manager_backup, clear_tree).
THEOREM SaveTypeCorrect == Spec => []TypeOK
<1>1. SaveInv => TypeOK
  BY DEF SaveInv
<1>. QED
  BY <1>1, SaveInvariance, PTL

\* Whatever fails, is killed or is deleted, a snapshot with the marker file holds the
\* whole save it was taken from (save_manager_backup), for any files and snapshots.
THEOREM SnapshotIsWhole == Spec => []CompleteIsWhole
<1>1. SaveInv => CompleteIsWhole
  BY DEF SaveInv
<1>. QED
  BY <1>1, SaveInvariance, PTL

\* The save that save_manager_restore_backup replaces is live or in a complete snapshot at
\* every step, also when the program is killed there.
THEOREM SaveNeverLost == Spec => []LiveNeverLost
<1>1. SaveInv => LiveNeverLost
  BY DEF SaveInv
<1>. QED
  BY <1>1, SaveInvariance, PTL

\* A restore that reports success leaves the save as the chosen complete snapshot was taken.
THEOREM RestoreIsExact == Spec => []RestoredIsTarget
<1>1. SaveInv => RestoredIsTarget
  BY DEF SaveInv
<1>. QED
  BY <1>1, SaveInvariance, PTL

\* A restore that reports an error leaves the save as it was, but for the named cases: a
\* step of the rollback failed, or find_latest_backup was led to another snapshot.
THEOREM FailureIsUndone == Spec => []FailedRestoreUndone
<1>1. SaveInv => FailedRestoreUndone
  BY DEF SaveInv
<1>. QED
  BY <1>1, SaveInvariance, PTL

-----------------------------------------------------------------------------
(* The list of snapshots.                                                  *)

\* A set of numbers has a least member.
LEMMA Least ==
  ASSUME NEW T \in SUBSET Nat, T # {}
  PROVE  \E x \in T : \A y \in T : x <= y
<1>. DEFINE R == {ss \in Nat \X Nat : ss[1] < ss[2]}
<1>1. IsWellFoundedOn(R, Nat)
  <2>1. OpToRel(<, Nat) = R
    BY DEF OpToRel
  <2>2. IsWellFoundedOn(OpToRel(<, Nat), Nat)
    BY NatLessThanWellFounded
  <2>. QED BY <2>1, <2>2
<1>2. \A x, y \in Nat : y < x => <<y, x>> \in R
  OBVIOUS
<1>. HIDE DEF R
<1>3. \E x \in T : \A y \in T : ~ (<<y, x>> \in R)
  BY <1>1, WFMin
<1>4. PICK x \in T : \A y \in T : ~ (<<y, x>> \in R)
  BY <1>3
<1>5. ASSUME NEW y \in T PROVE x <= y
  <2>1. x \in Nat /\ y \in Nat
    OBVIOUS
  <2>2. ~(y < x)
    BY <1>2, <1>4, <2>1
  <2>. QED BY <2>1, <2>2
<1>. QED
  BY <1>5

\* Counting the later names in a list gives the place of a new one.
LEMMA Place ==
  ASSUME NEW s \in Seq(Int), NEW k \in Int, Decreasing(s), k \notin Range(s)
  PROVE  \E m \in 0..Len(s) :
           /\ Cardinality({i \in 1..Len(s) : s[i] >= k}) = m
           /\ \A i \in 1..m : s[i] > k
           /\ \A i \in (m + 1)..Len(s) : s[i] < k
<1>. DEFINE n == Len(s)
            B == {i \in 1..(n + 1) : i = n + 1 \/ s[i] < k}
<1>1. n \in Nat /\ B \in SUBSET Nat /\ n + 1 \in B
  OBVIOUS
<1>2. PICK b \in B : \A y \in B : b <= y
  <2>1. B # {}
    BY <1>1
  <2>. HIDE DEF B
  <2>. QED BY <1>1, <2>1, Least
<1>3. b - 1 \in 0..n
  BY <1>1
<1>4. ASSUME NEW i \in 1..n PROVE s[i] \in Int /\ s[i] # k
  BY DEF Range
<1>5. ASSUME NEW i \in 1..(b - 1) PROVE s[i] > k
  <2>1. i \in 1..n /\ ~(b <= i)
    BY <1>3
  <2>2. i \notin B
    BY <1>2, <2>1
  <2>3. ~(s[i] < k)
    BY <2>1, <2>2
  <2>. QED BY <1>4, <2>1, <2>3
<1>6. ASSUME NEW i \in ((b - 1) + 1)..n PROVE s[i] < k
  <2>1. i \in 1..n /\ b \in 1..n /\ (b < i \/ b = i)
    BY <1>3
  <2>2. s[b] < k
    BY <2>1
  <2>3. b < i => s[b] > s[i]
    BY <2>1 DEF Decreasing
  <2>. QED BY <1>4, <2>1, <2>2, <2>3
<1>7. {i \in 1..n : s[i] >= k} = 1..(b - 1)
  <2>1. ASSUME NEW i \in 1..n PROVE s[i] >= k <=> i \in 1..(b - 1)
    <3>1. CASE i \in 1..(b - 1)
      BY <1>4, <1>5, <3>1
    <3>2. CASE i \notin 1..(b - 1)
      <4>1. i \in ((b - 1) + 1)..n
        BY <1>3, <3>2
      <4>. QED BY <1>4, <1>6, <3>2, <4>1
    <3>. QED BY <3>1, <3>2
  <2>2. 1..(b - 1) \subseteq 1..n
    BY <1>3
  <2>. QED BY <2>1, <2>2
<1>8. Cardinality(1..(b - 1)) = b - 1
  <2>1. 1 \in Int /\ b - 1 \in Int
    BY <1>3
  <2>2. Cardinality(1..(b - 1)) = IF 1 > b - 1 THEN 0 ELSE (b - 1) - 1 + 1
    BY <2>1, FS_Interval
  <2>. QED BY <1>3, <2>2
<1>. QED
  BY <1>3, <1>5, <1>6, <1>7, <1>8

\* What InsertAt makes of a sequence.
LEMMA Inserted ==
  ASSUME NEW s \in Seq(Int), NEW k \in Int, NEW m \in 0..Len(s)
  PROVE  /\ InsertAt(s, m + 1, k) \in Seq(Int)
         /\ Len(InsertAt(s, m + 1, k)) = Len(s) + 1
         /\ \A i \in 1..m : InsertAt(s, m + 1, k)[i] = s[i]
         /\ InsertAt(s, m + 1, k)[m + 1] = k
         /\ \A i \in (m + 2)..(Len(s) + 1) : InsertAt(s, m + 1, k)[i] = s[i - 1]
<1>. DEFINE a == SubSeq(s, 1, m)
            c == SubSeq(s, m + 1, Len(s))
<1>1. a \in Seq(Int) /\ Len(a) = m /\ \A i \in 1..m : a[i] = s[i]
  OBVIOUS
<1>2. c \in Seq(Int) /\ Len(c) = Len(s) - m /\ \A i \in 1..(Len(s) - m) : c[i] = s[m + i]
  OBVIOUS
<1>3. InsertAt(s, m + 1, k) = a \o <<k>> \o c
  <2>1. (m + 1) - 1 = m
    OBVIOUS
  <2>. QED BY <2>1 DEF InsertAt
<1>. HIDE DEF a, c
<1>. DEFINE d == a \o <<k>>
            e == d \o c
<1>4. d \in Seq(Int) /\ Len(d) = m + 1 /\ (\A i \in 1..m : d[i] = a[i]) /\ d[m + 1] = k
  BY <1>1
<1>5. InsertAt(s, m + 1, k) = e
  BY <1>3
<1>. HIDE DEF d
<1>6. /\ e \in Seq(Int) /\ Len(e) = (m + 1) + Len(c)
      /\ \A i \in 1..(m + 1) : e[i] = d[i]
      /\ \A i \in 1..Len(c) : e[(m + 1) + i] = c[i]
  <2>1. c \in Seq(Int) /\ d \in Seq(Int) /\ Len(d) = m + 1
    BY <1>2, <1>4
  <2>2. e \in Seq(Int) /\ Len(e) = Len(d) + Len(c)
    BY <2>1, ConcatProperties
  <2>3. ASSUME NEW i \in 1..Len(d) PROVE e[i] = d[i]
    BY <2>1
  <2>4. ASSUME NEW i \in 1..Len(c) PROVE e[Len(d) + i] = c[i]
    BY <2>1
  <2>. QED BY <2>1, <2>2, <2>3, <2>4
<1>. HIDE DEF e
<1>7. Len(s) \in Nat /\ Len(e) = Len(s) + 1
  BY <1>2, <1>6
<1>8. ASSUME NEW i \in 1..m PROVE e[i] = s[i]
  <2>1. i \in 1..(m + 1)
    OBVIOUS
  <2>. QED BY <1>1, <1>4, <1>6, <2>1
<1>9. e[m + 1] = k
  <2>1. m + 1 \in 1..(m + 1)
    OBVIOUS
  <2>. QED BY <1>4, <1>6, <2>1
<1>10. ASSUME NEW i \in (m + 2)..(Len(s) + 1) PROVE e[i] = s[i - 1]
  <2> DEFINE x == i - (m + 1)
  <2>1. x \in 1..Len(c) /\ x \in 1..(Len(s) - m) /\ (m + 1) + x = i /\ m + x = i - 1
    BY <1>2, <1>7
  <2> HIDE DEF x
  <2>2. e[(m + 1) + x] = c[x] /\ c[x] = s[m + x]
    BY <1>2, <1>6, <2>1
  <2>. QED BY <2>1, <2>2
<1>. QED
  BY <1>5, <1>6, <1>7, <1>8, <1>9, <1>10

\* One entry put in its place keeps the list in order and everything in it.
LEMMA Placed ==
  ASSUME NEW s \in Seq(Int), NEW k \in Int, Decreasing(s), k \notin Range(s),
         NEW t, t = InsertAt(s, Cardinality({i \in 1..Len(s) : s[i] >= k}) + 1, k)
  PROVE  /\ t \in Seq(Int) /\ Len(t) = Len(s) + 1
         /\ Decreasing(t)
         /\ Range(t) = Range(s) \cup {k}
<1>1. PICK m \in 0..Len(s) :
        /\ Cardinality({i \in 1..Len(s) : s[i] >= k}) = m
        /\ \A i \in 1..m : s[i] > k
        /\ \A i \in (m + 1)..Len(s) : s[i] < k
  BY Place
<1>2. t = InsertAt(s, m + 1, k)
  BY <1>1
<1>3. /\ t \in Seq(Int) /\ Len(t) = Len(s) + 1
      /\ \A i \in 1..m : t[i] = s[i]
      /\ t[m + 1] = k
      /\ \A i \in (m + 2)..(Len(s) + 1) : t[i] = s[i - 1]
  <2>1. /\ InsertAt(s, m + 1, k) \in Seq(Int)
        /\ Len(InsertAt(s, m + 1, k)) = Len(s) + 1
        /\ \A i \in 1..m : InsertAt(s, m + 1, k)[i] = s[i]
        /\ InsertAt(s, m + 1, k)[m + 1] = k
        /\ \A i \in (m + 2)..(Len(s) + 1) : InsertAt(s, m + 1, k)[i] = s[i - 1]
    BY Inserted
  <2>. QED BY <1>2, <2>1
<1>4. Len(s) \in Nat /\ m \in Nat /\ m <= Len(s) /\ \A i \in 1..Len(s) : s[i] \in Int
  OBVIOUS
<1>5. DOMAIN s = 1..Len(s) /\ DOMAIN t = 1..Len(t)
  BY <1>3
<1>6. ASSUME NEW i \in 1..Len(t), NEW j \in 1..Len(t), i < j PROVE t[i] > t[j]
  <2>1. CASE j <= m
    <3>1. i \in Int /\ 1 <= i /\ j \in Int
      BY <1>3
    <3>2. i \in 1..m /\ j \in 1..m
      BY <1>6, <2>1, <3>1
    <3>3. i \in 1..Len(s) /\ j \in 1..Len(s)
      BY <1>4, <3>2
    <3>. QED BY <1>3, <1>6, <3>2, <3>3 DEF Decreasing
  <2>2. CASE j = m + 1
    <3>1. i \in 1..m
      BY <1>3, <1>4, <1>6, <2>2
    <3>. QED BY <1>1, <1>3, <2>2, <3>1
  <2>3. CASE j > m + 1
    <3>1. j \in (m + 2)..(Len(s) + 1) /\ j - 1 \in (m + 1)..Len(s) /\ j - 1 \in 1..Len(s)
      BY <1>3, <1>4, <2>3
    <3>2. t[j] = s[j - 1] /\ s[j - 1] < k
      BY <1>1, <1>3, <3>1
    <3>3. CASE i <= m
      <4>1. i \in 1..m /\ i \in 1..Len(s) /\ i < j - 1
        BY <1>4, <2>3, <3>3
      <4>. QED BY <1>3, <3>1, <3>2, <4>1 DEF Decreasing
    <3>4. CASE i = m + 1
      BY <1>3, <3>2, <3>4
    <3>5. CASE i > m + 1
      <4>1. i \in (m + 2)..(Len(s) + 1) /\ i - 1 \in 1..Len(s) /\ i - 1 < j - 1
        BY <1>3, <1>4, <1>6, <3>5
      <4>2. t[i] = s[i - 1]
        BY <1>3, <4>1
      <4>. QED BY <3>1, <3>2, <4>1, <4>2 DEF Decreasing
    <3>. QED BY <3>3, <3>4, <3>5
  <2>. QED BY <1>4, <2>1, <2>2, <2>3
<1>7. Range(t) \subseteq Range(s) \cup {k}
  <2> SUFFICES ASSUME NEW i \in 1..Len(t) PROVE t[i] \in Range(s) \cup {k}
    BY <1>5 DEF Range
  <2>1. CASE i <= m
    <3>1. i \in 1..m /\ i \in 1..Len(s)
      BY <1>4, <2>1
    <3>. QED BY <1>3, <1>5, <3>1 DEF Range
  <2>2. CASE i = m + 1
    BY <1>3, <2>2
  <2>3. CASE i > m + 1
    <3>1. i \in (m + 2)..(Len(s) + 1) /\ i - 1 \in 1..Len(s)
      BY <1>3, <1>4, <2>3
    <3>. QED BY <1>3, <1>5, <3>1 DEF Range
  <2>. QED BY <1>4, <2>1, <2>2, <2>3
<1>8. k \in Range(t)
  <2>1. m + 1 \in 1..Len(t)
    BY <1>3, <1>4
  <2>. QED BY <1>3, <1>5, <2>1 DEF Range
<1>9. ASSUME NEW i \in 1..Len(s) PROVE s[i] \in Range(t)
  <2>1. CASE i <= m
    <3>1. i \in 1..m /\ i \in 1..Len(t)
      BY <1>3, <1>4, <2>1
    <3>. QED BY <1>3, <1>5, <3>1 DEF Range
  <2>2. CASE i > m
    <3>1. i + 1 \in (m + 2)..(Len(s) + 1) /\ i + 1 \in 1..Len(t) /\ (i + 1) - 1 = i
      BY <1>3, <1>4, <2>2
    <3>2. t[i + 1] = s[i]
      BY <1>3, <3>1
    <3>. QED BY <1>5, <3>1, <3>2 DEF Range
  <2>. QED BY <1>4, <2>1, <2>2
<1>10. Range(s) \subseteq Range(t)
  BY <1>9, <1>5 DEF Range
<1>11. Decreasing(t)
  BY <1>6 DEF Decreasing
<1>. QED
  BY <1>3, <1>7, <1>8, <1>10, <1>11

\* The last of a list in order comes before nothing in it.
LEMMA LastIsLeast ==
  ASSUME NEW s \in Seq(Int), Decreasing(s), NEW j \in Range(s)
  PROVE  s # <<>> /\ j \in Int /\ Last(s) \in Int /\ j >= Last(s)
<1>1. PICK i \in 1..Len(s) : j = s[i]
  BY DEF Range
<1>2. Len(s) \in Nat /\ Len(s) \in 1..Len(s)
  BY <1>1
<1>3. s[i] \in Int /\ s[Len(s)] \in Int
  BY <1>2
<1>4. i = Len(s) \/ s[i] > s[Len(s)]
  <2>1. i = Len(s) \/ i < Len(s)
    BY <1>2
  <2>. QED BY <1>2, <2>1 DEF Decreasing
<1>. QED
  BY <1>1, <1>2, <1>3, <1>4 DEF Last

\* The list without its oldest entry.
LEMMA FrontOf ==
  ASSUME NEW s \in Seq(Int), Decreasing(s), s # <<>>
  PROVE  /\ Front(s) \in Seq(Int) /\ Len(Front(s)) = Len(s) - 1 /\ Decreasing(Front(s))
         /\ Range(s) = Range(Front(s)) \cup {Last(s)}
         /\ Last(s) \in Int /\ \A j \in Range(Front(s)) : j \in Int /\ j > Last(s)
<1>. DEFINE n == Len(s)
            f == Front(s)
<1>1. n \in Nat /\ n >= 1
  OBVIOUS
<1>2. f \in Seq(Int) /\ Len(f) = n - 1 /\ \A i \in 1..(n - 1) : f[i] = s[i]
  <2> DEFINE b == n - 1
  <2>1. b \in Nat /\ b <= Len(s)
    BY <1>1
  <2>2. f = SubSeq(s, 1, b)
    BY DEF Front
  <2> HIDE DEF b, f, n
  <2>3. f \in Seq(Int) /\ Len(f) = b /\ \A i \in 1..b : f[i] = s[i]
    BY <2>1, <2>2
  <2>. QED BY <2>3 DEF b
<1>3. Last(s) = s[n] /\ s[n] \in Int
  BY <1>1 DEF Last
<1>. HIDE DEF f
<1>4. Decreasing(f)
  <2> SUFFICES ASSUME NEW i \in 1..(n - 1), NEW j \in 1..(n - 1), i < j PROVE f[i] > f[j]
    BY <1>2 DEF Decreasing
  <2>1. i \in 1..n /\ j \in 1..n
    BY <1>1
  <2>. QED BY <1>2, <2>1 DEF Decreasing
<1>5. Range(s) = Range(f) \cup {s[n]}
  <2>1. \A i \in 1..n : i = n \/ i \in 1..(n - 1)
    BY <1>1
  <2>2. DOMAIN s = 1..n /\ DOMAIN f = 1..(n - 1) /\ 1..(n - 1) \subseteq 1..n /\ n \in 1..n
    BY <1>1, <1>2
  <2>. QED BY <1>2, <2>1, <2>2 DEF Range
<1>6. ASSUME NEW j \in Range(f) PROVE j \in Int /\ j > s[n]
  <2>1. PICK i \in 1..(n - 1) : j = f[i]
    BY <1>1, <1>2 DEF Range
  <2>2. i \in 1..n /\ n \in 1..n /\ i < n /\ j = s[i]
    BY <1>1, <1>2, <2>1
  <2>. QED BY <1>1, <2>2 DEF Decreasing
<1>. QED
  BY <1>2, <1>3, <1>4, <1>5, <1>6 DEF f

\* What one entry does to the list: it stays in order and within SAVE_BACKUP_MAX, and what
\* was in it, or older than all in a full one, still is, as is the new entry.
LEMMA InsertKeeps ==
  ASSUME NEW s \in Seq(Int), Decreasing(s), Len(s) <= ListMax, NEW k \in Int, k \notin Range(s)
  PROVE  /\ Insert(s, k) \in Seq(Int) /\ Len(Insert(s, k)) <= ListMax
         /\ Decreasing(Insert(s, k))
         /\ Range(Insert(s, k)) \subseteq Range(s) \cup {k}
         /\ InOrOlder(k, Insert(s, k))
         /\ \A j \in Int : InOrOlder(j, s) => InOrOlder(j, Insert(s, k))
<1>1. ListMax \in Nat \ {0} /\ Len(s) \in Nat
  BY BoundsAssumption
<1>2. CASE Len(s) # ListMax
  <2>1. Insert(s, k) = InsertAt(s, Cardinality({i \in 1..Len(s) : s[i] >= k}) + 1, k)
    BY <1>2 DEF Insert
  <2> DEFINE t == Insert(s, k)
  <2>2. t \in Seq(Int) /\ Len(t) = Len(s) + 1 /\ Decreasing(t) /\ Range(t) = Range(s) \cup {k}
    <3> HIDE DEF t
    <3>1. t = InsertAt(s, Cardinality({i \in 1..Len(s) : s[i] >= k}) + 1, k)
      BY <2>1 DEF t
    <3>. QED BY <3>1, Placed
  <2>3. Len(t) <= ListMax
    BY <1>1, <1>2, <2>2
  <2>4. InOrOlder(k, t) /\ \A j \in Int : InOrOlder(j, s) => InOrOlder(j, t)
    BY <1>2, <2>2 DEF InOrOlder
  <2>. QED BY <2>2, <2>3, <2>4
<1>3. CASE Len(s) = ListMax
  <2>1. s # <<>>
    BY <1>1, <1>3
  <2>2. /\ Front(s) \in Seq(Int) /\ Len(Front(s)) = Len(s) - 1 /\ Decreasing(Front(s))
        /\ Range(s) = Range(Front(s)) \cup {Last(s)}
        /\ Last(s) \in Int /\ \A j \in Range(Front(s)) : j \in Int /\ j > Last(s)
    BY <2>1, FrontOf
  <2>3. CASE k <= Last(s)
    <3>1. Insert(s, k) = s
      BY <1>3, <2>3 DEF Insert
    <3>2. k < Last(s)
      BY <2>2, <2>3
    <3>. QED BY <1>3, <3>1, <3>2 DEF InOrOlder
  <2>4. CASE ~(k <= Last(s))
    <3> DEFINE f == Front(s)
               t == Insert(s, k)
    <3>1. t = InsertAt(f, Cardinality({i \in 1..Len(f) : f[i] >= k}) + 1, k)
      BY <1>3, <2>4 DEF Insert
    <3> HIDE DEF f, t
    <3>2. f \in Seq(Int) /\ Decreasing(f) /\ k \notin Range(f)
      BY <2>2 DEF f
    <3>3. t \in Seq(Int) /\ Len(t) = Len(f) + 1 /\ Decreasing(t) /\ Range(t) = Range(f) \cup {k}
      BY <3>1, <3>2, Placed
    <3>4. Len(t) = ListMax
      BY <1>1, <1>3, <2>2, <3>3 DEF f
    <3>5. Last(t) \in Range(t)
      <4>1. Len(t) \in 1..Len(t)
        BY <1>1, <3>4
      <4>. QED BY <3>3, <4>1 DEF Last, Range
    <3>6. Last(t) \in Int /\ Last(t) > Last(s)
      <4>1. CASE Last(t) = k
        BY <2>2, <2>4, <4>1
      <4>2. CASE Last(t) \in Range(f)
        BY <2>2, <4>2 DEF f
      <4>. QED BY <3>3, <3>5, <4>1, <4>2
    <3>7. InOrOlder(k, t)
      BY <3>3 DEF InOrOlder
    <3>8. ASSUME NEW j \in Int, InOrOlder(j, s) PROVE InOrOlder(j, t)
      <4>1. j \in Range(f) \/ j = Last(s) \/ j < Last(s)
        BY <2>2, <3>8 DEF InOrOlder, f
      <4>2. j \in Range(t) \/ j < Last(t)
        BY <2>2, <3>3, <3>6, <4>1
      <4>. QED BY <3>4, <4>2 DEF InOrOlder
    <3>9. Range(t) \subseteq Range(s) \cup {k}
      BY <2>2, <3>3 DEF f
    <3>10. Len(t) <= ListMax
      BY <1>1, <3>4
    <3>. QED BY <3>3, <3>7, <3>8, <3>9, <3>10 DEF t
  <2>. QED BY <2>3, <2>4
<1>. QED
  BY <1>2, <1>3

\* While the directory is read: the list is in order and in bounds, holds nothing that is
\* still to come, and every complete snapshot is still to come or accounted for.
Listing ==
  pc = "list" =>
    /\ list \in Seq(Int) /\ Len(list) <= ListMax /\ Decreasing(list)
    /\ unread \subseteq Int /\ Range(list) \cap unread = {}
    /\ \A k \in DOMAIN snaps \ unread : Complete(k) => InOrOlder(k, list)

\* Every step keeps Listing: only what readdir returns goes in, and the rest of the card
\* can only lose snapshots meanwhile.
LEMMA ListingStep == (TypeOK /\ Listing) /\ [Next]_vars => Listing'
<1> SUFFICES ASSUME TypeOK, Listing, [Next]_vars, pc' = "list" PROVE Listing'
  BY DEF Listing
<1> USE DEF disk, call, ui
<1>1. CASE Refresh
  <2>1. list' = <<>> /\ unread' = DOMAIN snaps /\ snaps' = snaps
    BY <1>1 DEF Refresh
  <2>2. list' \in Seq(Int) /\ Len(list') = 0 /\ Range(list') = {} /\ Decreasing(list')
    BY <2>1 DEF Range, Decreasing
  <2>3. Len(list') <= ListMax
    BY <2>2, BoundsAssumption
  <2>4. unread' \subseteq Int /\ DOMAIN snaps' \ unread' = {}
    BY <2>1 DEF TypeOK
  <2>. QED BY <2>2, <2>3, <2>4 DEF Listing
<1>2. CASE RefreshEntry
  <2>1. PICK k \in unread :
          /\ unread' = unread \ {k}
          /\ list' = IF Complete(k) THEN Insert(list, k) ELSE list
    BY <1>2 DEF RefreshEntry
  <2>2. /\ list \in Seq(Int) /\ Len(list) <= ListMax /\ Decreasing(list)
        /\ unread \subseteq Int /\ Range(list) \cap unread = {}
        /\ \A j \in DOMAIN snaps \ unread : Complete(j) => InOrOlder(j, list)
    BY <1>2 DEF RefreshEntry, Listing
  <2>3. snaps' = snaps /\ \A j : Complete(j)' <=> Complete(j)
    BY <1>2 DEF RefreshEntry, Complete
  <2>4. unread' \subseteq Int /\ k \in Int /\ k \notin Range(list)
    BY <2>1, <2>2
  <2>5. CASE Complete(k)
    <3>1. list' = Insert(list, k)
      BY <2>1, <2>5
    <3>2. /\ list' \in Seq(Int) /\ Len(list') <= ListMax /\ Decreasing(list')
          /\ Range(list') \subseteq Range(list) \cup {k}
      BY <2>2, <2>4, <3>1, InsertKeeps
    <3>3. InOrOlder(k, list') /\ \A j \in Int : InOrOlder(j, list) => InOrOlder(j, list')
      BY <2>2, <2>4, <3>1, InsertKeeps
    <3>4. Range(list') \cap unread' = {}
      BY <2>1, <2>2, <3>2
    <3>5. ASSUME NEW j \in DOMAIN snaps' \ unread', Complete(j)' PROVE InOrOlder(j, list')
      BY <2>1, <2>2, <2>3, <3>3, <3>5 DEF TypeOK
    <3>. QED BY <2>4, <3>2, <3>4, <3>5 DEF Listing, InOrOlder
  <2>6. CASE ~Complete(k)
    <3>1. list' = list
      BY <2>1, <2>6
    <3>2. ASSUME NEW j \in DOMAIN snaps' \ unread', Complete(j)' PROVE InOrOlder(j, list')
      BY <2>1, <2>2, <2>3, <2>6, <3>1, <3>2
    <3>. QED BY <2>1, <2>2, <2>4, <3>1, <3>2 DEF Listing, InOrOlder
  <2>. QED BY <2>5, <2>6
<1>3. CASE Delete
  <2>1. DOMAIN snaps' \subseteq DOMAIN snaps /\ \A k \in DOMAIN snaps' : snaps'[k] = snaps[k]
    BY <1>3, DeleteRemoves
  <2>2. pc = "list" /\ list' = list /\ unread' = unread
    BY <1>3 DEF Delete
  <2>3. \A k \in DOMAIN snaps' : Complete(k)' => k \in DOMAIN snaps /\ Complete(k)
    BY <2>1 DEF Complete
  <2>. QED BY <2>1, <2>2, <2>3 DEF Listing, InOrOlder
<1>4. CASE UNCHANGED vars
  BY <1>4 DEF vars, Listing, InOrOlder, Complete
<1>5. CASE Play \/ Clock \/ Crash \/ RefreshEnds \/ Reselect \/ Backup \/ Restore
  BY <1>5 DEF Play, Clock, Crash, RefreshEnds, Reselect, Backup, Restore, Begin
<1>6. CASE Copy \/ BackupFails \/ Mark \/ Find \/ FindFails
  BY <1>6 DEF Copy, BackupFails, Mark, Find, FindFails
<1>7. CASE Write \/ WriteFails \/ Commit \/ CommitFails \/ Rollback \/ RollbackFails \/ Recommit
  BY <1>7 DEF Write, WriteFails, Commit, CommitFails, Rollback, RollbackFails, Recommit
<1>. QED
  BY <1>1, <1>2, <1>3, <1>4, <1>5, <1>6, <1>7 DEF Next, Outside, Program

\* Listing holds in every state.
LEMMA ListingInvariance == Spec => []Listing
<1>1. Init => Listing
  BY DEF Init, Listing
<1>2. SaveInv => TypeOK
  BY DEF SaveInv
<1>. QED
  BY <1>1, <1>2, ListingStep, SaveInvariance, PTL DEF Spec

\* save_manager_refresh_backups gives the newest SAVE_BACKUP_MAX complete snapshots, newest
\* first, for any card, any order of readdir and any deletions meanwhile.
THEOREM ListIsNewest == Spec => ReadsNewest
<1>1. TypeOK /\ Listing /\ [Next]_vars => [pc = "list" /\ unread = {} /\ seen' => Newest(list')]_vars
  <2> SUFFICES ASSUME TypeOK, Listing, [Next]_vars, pc = "list", unread = {}, seen',
                      ~(UNCHANGED vars)
               PROVE  Newest(list')
    OBVIOUS
  <2> USE DEF disk, call, ui
  <2>1. Decreasing(list) /\ \A k \in DOMAIN snaps : Complete(k) => InOrOlder(k, list)
    BY DEF Listing
  <2>2. CASE list' = list
    BY <2>1, <2>2 DEF Newest
  <2>3. CASE list' # list
    <3>1. Next
      OBVIOUS
    <3>2. Crash \/ RefreshEntry
      BY <2>3, <3>1 DEF Next, Outside, Program, Play, Clock, Delete, Refresh, RefreshEnds, Reselect,
        Backup, Restore, Copy, BackupFails, Mark, Find, FindFails, Write, WriteFails, Commit,
        CommitFails, Rollback, RollbackFails, Recommit
    <3>3. ~Crash /\ ~RefreshEntry
      BY DEF Crash, RefreshEntry
    <3>. QED BY <3>2, <3>3
  <2>. QED BY <2>2, <2>3
<1>2. SaveInv => TypeOK
  BY DEF SaveInv
<1>. QED
  BY <1>1, <1>2, SaveInvariance, ListingInvariance, PTL DEF Spec, ReadsNewest
=============================================================================
