------------------------------- MODULE MtpServer -------------------------------
(***************************************************************************)
(* The MTP responder of source/mtp/MtpServer.cpp with its object database  *)
(* (include/mtp/SwitchMtpDatabase.h) and the SD card both stand for.       *)
(*                                                                         *)
(* The host names objects by handle.  The database maps a handle to a path *)
(* that is worked out once, when a directory is read or an object is       *)
(* announced, and that every later request trusts.  The worker serves one  *)
(* request after the other; between two of them the FTP server or the file *)
(* browser may change the card.  A file is its length in blocks; how the   *)
(* data of a file travels is in MtpTransfer.  The entry of the storage     *)
(* itself (handle 1), which the host is never told, is left out, and so is *)
(* the session: the host opens one before it asks for handles.  The file   *)
(* system of the console (external) refuses to open a file for writing, to *)
(* remove it or to rename it while it is open.                             *)
(***************************************************************************)
EXTENDS Integers, FiniteSets, SequencesExt

CONSTANTS Names,        \* names of files and directories
          Paths,        \* bound: paths that may come to be on the card
          Dir,          \* what the card holds at a directory's path
          None,
          Ids,          \* storage ids of a request: the card's and 0, for any storage (a
                        \* listing may say 0xFFFFFFFF for 0)
          Card,         \* the card's
          MaxObjects,   \* bound: files and directories on the card
          MaxHandle,    \* bound: the largest handle given out
          MaxSize,      \* bound: blocks of a file
          MaxRare,      \* bound: changes by other users of the card, entries that cannot be
                        \* looked at, requests with another id than Card, MoveObject and
                        \* BeginEditObject requests
          Width         \* 2^32: lengths of GetPartialObject wrap around

ASSUME PathsAssumption ==
  /\ Paths \subseteq Seq(Names) \ {<<>>} /\ \A p \in Paths : Front(p) \in Paths \cup {<<>>}
  /\ IsFiniteSet(Paths)
ASSUME ValuesAssumption == None \notin Paths \cup {<<>>} \cup Nat /\ Dir \notin Nat
ASSUME BoundsAssumption ==
  /\ MaxObjects \in Nat /\ MaxHandle \in Nat /\ MaxRare \in Nat
  /\ MaxSize \in Nat \ {0} /\ Width \in Nat \ {0}
ASSUME CardAssumption == Card \in Ids

VARIABLES
  card,     \* path -> Dir or the length of a file
  db,       \* SwitchMtpDatabase::db, handle -> entry
  counter,  \* the next handle
  pend,     \* mSendObjectHandle; its path and size are those of its entry
  edits,    \* mObjectEditList, handle -> path of the file kept open for it
  dead,     \* an exception nobody catches has ended the program
  truth,    \* where the object a handle was given for is now (history)
  why,      \* what happened behind a handle's back (history)
  hidden,   \* <<d, p>>: a listing of d need not show p: see ListingComplete (history)
  rare      \* how many of the things MaxRare bounds there were

vars == <<card, db, counter, pend, edits, dead, truth, why, hidden, rare>>

Handles  == 2..MaxHandle
Given    == 2..(counter - 1)
Parent(p) == Front(p)
Under(p) == {q \in DOMAIN card : IsPrefix(p, q)}
IsDir(p)  == p = <<>> \/ (p \in DOMAIN card /\ card[p] = Dir)
IsFile(p) == p \in DOMAIN card /\ card[p] # Dir
Children(p) == {q \in DOMAIN card : Parent(q) = p}
Entry(dir, parent, storage, path, size) ==
  [dir |-> dir, parent |-> parent, storage |-> storage, path |-> path, size |-> size,
   scanned |-> FALSE]
SizeOf(what) == IF what = Dir THEN 0 ELSE what
PathOf(parent, name) == Append(IF parent = 0 THEN <<>> ELSE db[parent].path, name)
Only(f, S) == [x \in DOMAIN f \cap S |-> f[x]]
Put(f, x, y) == [z \in DOMAIN f \cup {x} |-> IF z = x THEN y ELSE f[z]]
Opened == {edits[h] : h \in DOMAIN edits}
Rarely(odd) == rare' = rare + (IF odd THEN 1 ELSE 0) /\ rare' <= MaxRare

\* The handles whose listing the host may already have of the directory p really is.
Viewers(p) == {d \in DOMAIN db : db[d].scanned /\ truth[d] = p} \cup (IF p = <<>> THEN {0} ELSE {})
Missing(ps) == UNION {Viewers(Parent(p)) \X {p} : p \in ps}

\* The first thing that happened to the object of a handle counts.
Blame(g, cause) == IF why[g] \in {"none", "written"} THEN cause ELSE why[g]

Causes == {"none", "announced", "outside", "ancestor", "alias", "written"}

TypeOK ==
  /\ DOMAIN card \subseteq Paths
  /\ \A p \in DOMAIN card : (card[p] = Dir \/ card[p] \in 0..MaxSize) /\ IsDir(Parent(p))
  /\ counter \in 2..(MaxHandle + 1) /\ DOMAIN db \subseteq Given
  /\ \A h \in DOMAIN db :
       db[h] \in [dir : BOOLEAN, parent : {0} \cup Handles, storage : Ids, path : Paths,
                  size : 0..MaxSize, scanned : BOOLEAN]
  /\ DOMAIN edits \subseteq Given /\ Opened \subseteq Paths
  /\ pend \in {None} \cup DOMAIN db
  /\ dead \in BOOLEAN
  /\ truth \in [Given -> DOMAIN card \cup {None}]
  /\ why \in [Given -> Causes]
  /\ hidden \subseteq (DOMAIN db \cup {0}) \X DOMAIN card
  /\ rare \in 0..MaxRare

-----------------------------------------------------------------------------
(* The database.                                                           *)

\* add_file_entry for every entry of a directory, in the order of readdir.  One whose
\* properties cannot be read has used its handle up and is left out.
AddEntries(order, skipped, parent, storage) ==
  LET new == counter..(counter + Len(order) - 1)
      at(h) == order[h - counter + 1]
      made == {h \in new : at(h) \notin skipped}
  IN  /\ counter + Len(order) <= MaxHandle + 1
      /\ counter' = counter + Len(order)
      /\ db' = [h \in DOMAIN db \cup made |->
                  IF h \in made
                  THEN Entry(IsDir(at(h)), parent, storage, at(h), SizeOf(card[at(h)]))
                  ELSE IF h = parent THEN [db[h] EXCEPT !.scanned = TRUE] ELSE db[h]]
      /\ truth' = [h \in DOMAIN truth \cup new |->
                     IF h \in made THEN at(h) ELSE IF h \in new THEN None ELSE truth[h]]
      /\ why' = [h \in DOMAIN why \cup new |-> IF h \in new THEN "none" ELSE why[h]]

\* What parse_directory goes through: a file, or a path that is gone, is looked at as if
\* it were in itself.
Looked(path) == IF IsDir(path) THEN Children(path) ELSE {path}

\* Mutant: the reading of a directory may stop early, and the directory counts as read.
ParseStopsEarly(path, skipped, parent, storage) ==
  \E some \in SUBSET Looked(path) : \E order \in SetToSeqs(some) :
    AddEntries(order, skipped, parent, storage)

\* parse_directory.
Parse(path, skipped, parent, storage) ==
  \E order \in SetToSeqs(Looked(path)) : AddEntries(order, skipped, parent, storage)

\* SwitchMtpDatabase() and readFiles("sdmc:/"): the root, read at once.  One that cannot
\* be read is one whose entries are all skipped.
RootOrders == {order \in SetToSeqs(Children(<<>>)) : Len(order) < MaxHandle}
Read(order, skipped) ==
  [h \in {g \in 2..(Len(order) + 1) : order[g - 1] \notin skipped} |->
     LET p == order[h - 1] IN Entry(IsDir(p), 0, Card, p, SizeOf(card[p]))]
FirstTruth(order, skipped) ==
  [h \in 2..(Len(order) + 1) |-> IF order[h - 1] \in skipped THEN None ELSE order[h - 1]]
NoEdits == [h \in {} |-> <<>>]

Init ==
  /\ card \in {c \in UNION {[S -> {Dir, 1}] : S \in kSubset(2, Paths) \cup {{}}} :
                \A p \in DOMAIN c : Len(p) > 1 => Parent(p) \in DOMAIN c /\ c[Parent(p)] = Dir}
  /\ \E order \in RootOrders, skipped \in SUBSET Children(<<>>) :
       /\ counter = 2 + Len(order)
       /\ db = Read(order, skipped)
       /\ truth = FirstTruth(order, skipped)
       /\ hidden = {0} \X skipped
       /\ rare = (IF skipped = {} THEN 0 ELSE 1) /\ rare <= MaxRare
  /\ why = [h \in Given |-> "none"]
  /\ pend = None /\ edits = NoEdits /\ dead = FALSE

-----------------------------------------------------------------------------
(* Other users of the card, between two requests.                          *)

OutsideRemove ==
  /\ ~dead /\ rare < MaxRare
  /\ \E p \in DOMAIN card :
       /\ Opened \cap Under(p) = {}
       /\ card' = Only(card, DOMAIN card \ Under(p))
       /\ truth' = [h \in Given |-> IF truth[h] \in Under(p) THEN None ELSE truth[h]]
       /\ why' = [h \in Given |-> IF truth[h] \in Under(p) THEN Blame(h, "outside") ELSE why[h]]
       /\ hidden' = {x \in hidden : x[2] \notin Under(p)}
  /\ rare' = rare + 1
  /\ UNCHANGED <<db, counter, pend, edits, dead>>

OutsideCreate ==
  /\ ~dead /\ rare < MaxRare /\ Cardinality(DOMAIN card) < MaxObjects
  /\ \E p \in Paths \ DOMAIN card, what \in {Dir, 1} :
       /\ IsDir(Parent(p))
       /\ card' = Put(card, p, what)
       /\ hidden' = hidden \cup Missing({p})
  /\ rare' = rare + 1
  /\ UNCHANGED <<db, counter, pend, edits, dead, truth, why>>

\* A file gets other contents; its entries keep the size they have.
Overwrite(path, size) ==
  /\ card' = [card EXCEPT ![path] = size]
  /\ why' = [g \in Given |-> IF truth[g] = path THEN Blame(g, "written") ELSE why[g]]

OutsideWrite ==
  /\ ~dead /\ rare < MaxRare
  /\ \E p \in DOMAIN card \ Opened, size \in 0..MaxSize : IsFile(p) /\ Overwrite(p, size)
  /\ rare' = rare + 1
  /\ UNCHANGED <<db, counter, pend, edits, dead, truth, hidden>>

-----------------------------------------------------------------------------
(* Requests.  Every one but SendObject makes the responder forget an       *)
(* announced upload, whose entry stays in the database.                    *)

\* handleRequest, its beginning.
Answers == ~dead /\ pend' = None /\ UNCHANGED dead
Request == Answers /\ UNCHANGED <<edits, rare>>

\* Requests about the device, the session and the storage: they only read.
DescribeDevice ==
  /\ Request
  /\ UNCHANGED <<card, db, counter, truth, why, hidden>>

\* GetObjectPropValue, GetObjectPropList and GetObjectInfo: answered from the database.
DescribeObject ==
  /\ Request /\ DOMAIN db # {}
  /\ UNCHANGED <<card, db, counter, truth, why, hidden>>

\* doGetObject: the file at the path is read; PromiseKept is about what is sent of it.
Download ==
  /\ Request
  /\ \E h \in DOMAIN db : IsFile(db[h].path)
  /\ UNCHANGED <<card, db, counter, truth, why, hidden>>

\* getObjectList, asked with storage id: a directory that has not been looked at yet is
\* read from the card.  Its entries get the id of the request, and a request with
\* another one is not shown them.
Look(h, id) ==
  IF db[h].scanned THEN UNCHANGED <<counter, db, truth, why, hidden, rare>>
  ELSE LET path == db[h].path
           unseen == (IF truth[h] \in {None, path} THEN {} ELSE Children(truth[h]))
                       \cup (IF id = Card THEN {} ELSE Children(path))
       IN  \E skipped \in SUBSET Looked(path) :
             /\ Looked(path) \ DOMAIN card \subseteq skipped
             /\ Parse(path, skipped, h, id)
             /\ hidden' = hidden \cup {h} \X (unseen \cup (skipped \cap DOMAIN card))
             /\ Rarely(id # Card \/ skipped \cap DOMAIN card # {})

\* GetObjectHandles and GetNumObjects of a directory, GetObjectReferences of any object.
List ==
  /\ Answers
  /\ \E h \in DOMAIN db, id \in Ids : Look(h, id)
  /\ UNCHANGED <<card, edits>>

\* isHandleValid passes a deleted handle, and the look-up behind it throws outside any
\* try block, as does the iterator of a directory that cannot be opened: the program is
\* ended.
ListThrows ==
  /\ ~dead
  /\ Given \ DOMAIN db # {} \/ \E h \in DOMAIN db : ~db[h].scanned /\ IsDir(db[h].path)
  /\ dead' = TRUE
  /\ UNCHANGED <<card, db, counter, pend, edits, truth, why, hidden, rare>>

\* The server is stopped and started, or the program again after it was ended: a new
\* database is read from the card, and no file is open.
Restart ==
  /\ \E order \in RootOrders, skipped \in SUBSET Children(<<>>) :
       /\ counter' = 2 + Len(order)
       /\ db' = Read(order, skipped)
       /\ truth' = FirstTruth(order, skipped)
       /\ why' = [h \in 2..(Len(order) + 1) |-> "none"]
       /\ hidden' = {0} \X skipped
       /\ Rarely(skipped # {})
  /\ pend' = None /\ edits' = NoEdits /\ dead' = FALSE
  /\ UNCHANGED card

-----------------------------------------------------------------------------
(* SendObjectInfo and SendObject.                                          *)

Parents == {h \in DOMAIN db : db[h].dir} \cup {0}

\* doSendObjectInfo of a directory.  Parent 0 is the root (0xFFFFFFFF).
SendDirectory ==
  /\ Answers /\ counter <= MaxHandle
  /\ \E parent \in Parents, id \in Ids, name \in Names, fails \in BOOLEAN :
       LET path == PathOf(parent, name)
           made == ~fails /\ path \notin DOMAIN card /\ IsDir(Parent(path))
       IN  /\ path \in Paths
           /\ made => Cardinality(DOMAIN card) < MaxObjects
           /\ db' = Put(db, counter, Entry(TRUE, parent, id, path, 0))
           /\ card' = IF made THEN Put(card, path, Dir) ELSE card
           /\ truth' = Put(truth, counter, IF made THEN path ELSE None)
           /\ why' = Put(why, counter, IF made THEN "none" ELSE "announced")
           /\ hidden' = IF made
                        THEN hidden \cup {x \in Missing({path}) : x[1] # parent \/ id # Card}
                        ELSE hidden
           /\ Rarely(id # Card)
  /\ counter' = counter + 1
  /\ UNCHANGED edits

\* doSendObjectInfo of a file: the entry is made, the upload announced.
SendObjectInfo ==
  /\ ~dead /\ counter <= MaxHandle
  /\ \E parent \in Parents, id \in Ids, name \in Names, size \in 1..MaxSize :
       /\ PathOf(parent, name) \in Paths
       /\ db' = Put(db, counter, Entry(FALSE, parent, id, PathOf(parent, name), size))
       /\ Rarely(id # Card)
  /\ pend' = counter
  /\ truth' = Put(truth, counter, None)
  /\ why' = Put(why, counter, "announced")
  /\ counter' = counter + 1
  /\ UNCHANGED <<card, edits, dead, hidden>>

\* Mutant: a failed upload erases its entry and stays announced.
SendObjectFailsKeeps ==
  /\ ~dead
  /\ db' = Only(db, DOMAIN db \ {pend})
  /\ UNCHANGED <<card, counter, pend, edits, dead, truth, why, hidden, rare>>

\* doSendObject up to open(): nothing announced, no header, or no file to write; the
\* entry is erased again.
SendObjectFails ==
  /\ ~dead
  /\ db' = Only(db, DOMAIN db \ {pend})
  /\ pend' = None
  /\ UNCHANGED <<card, counter, edits, dead, truth, why, hidden, rare>>

Writable(path) ==
  /\ IsDir(Parent(path)) /\ ~IsDir(path) /\ path \notin Opened
  /\ path \in DOMAIN card \/ Cardinality(DOMAIN card) < MaxObjects

\* A file is there with what arrived; the listings its entry is not in miss it.
Uploaded(path, size) ==
  /\ Writable(path)
  /\ card' = Put(card, path, size)
  /\ hidden' = IF path \in DOMAIN card THEN hidden
               ELSE hidden \cup {x \in Missing({path}) :
                                  x[1] # db[pend].parent \/ db[pend].storage # Card}
  /\ truth' = [truth EXCEPT ![pend] = path]

\* Mutant: the size of the entry stays the one the host announced.
SendObjectKeepsSize ==
  /\ ~dead /\ pend # None
  /\ \E size \in 0..db[pend].size : Uploaded(db[pend].path, size)
  /\ why' = [g \in Given |-> IF g = pend THEN "none"
                             ELSE IF truth[g] = db[pend].path THEN Blame(g, "written") ELSE why[g]]
  /\ pend' = None
  /\ UNCHANGED <<db, counter, edits, dead, rare>>

\* doSendObject answered OK: the file is there with what arrived and could be written,
\* and the database has its size, unless endSendObject cannot find that out.
SendObject ==
  /\ ~dead /\ pend # None
  /\ \E size \in 0..db[pend].size, known \in BOOLEAN :
       /\ Uploaded(db[pend].path, size)
       /\ db' = IF known THEN [db EXCEPT ![pend].size = size] ELSE db
       /\ why' = [g \in Given |->
                    IF g = pend THEN IF known THEN "none" ELSE "written"
                    ELSE IF truth[g] = db[pend].path THEN Blame(g, "written") ELSE why[g]]
       /\ Rarely(~known)
  /\ pend' = None
  /\ UNCHANGED <<counter, edits, dead>>

\* doSendObject when the first write fails: the file, which was emptied, is unlinked.
SendObjectUndone ==
  /\ ~dead /\ pend # None
  /\ LET path == db[pend].path IN
       /\ Writable(path)
       /\ card' = Only(card, DOMAIN card \ {path})
       /\ truth' = [g \in Given |-> IF truth[g] = path THEN None ELSE truth[g]]
       /\ why' = [g \in Given |-> IF truth[g] = path THEN Blame(g, "alias") ELSE why[g]]
       /\ hidden' = {x \in hidden : x[2] # path}
  /\ db' = Only(db, DOMAIN db \ {pend})
  /\ pend' = None
  /\ UNCHANGED <<counter, edits, dead, rare>>

-----------------------------------------------------------------------------
(* Edits in place: the file stays open from BeginEditObject to             *)
(* EndEditObject, and the database hears of its size only then.            *)

\* doBeginEditObject.
BeginEdit ==
  /\ Answers /\ rare < MaxRare
  /\ \E h \in DOMAIN db \ DOMAIN edits :
       /\ IsFile(db[h].path) /\ db[h].path \notin Opened
       /\ edits' = Put(edits, h, db[h].path)
  /\ rare' = rare + 1
  /\ UNCHANGED <<card, db, counter, truth, why, hidden>>

\* doSendPartialObject: the file may grow.
SendPartial ==
  /\ Request
  /\ \E path \in Opened : IsFile(path) /\ \E size \in card[path]..MaxSize : Overwrite(path, size)
  /\ UNCHANGED <<db, counter, truth, hidden>>

\* doTruncateObject.
Truncate ==
  /\ Request
  /\ \E path \in Opened, size \in 0..MaxSize : IsFile(path) /\ Overwrite(path, size)
  /\ UNCHANGED <<db, counter, truth, hidden>>

\* doEndEditObject: commitEdit asks for the size while the file is still open, and an
\* entry deleted meanwhile does not get it; then the file is closed.
EndEdit ==
  /\ Answers
  /\ \E h \in DOMAIN edits, known \in BOOLEAN :
       /\ known => h \in DOMAIN db /\ IsFile(edits[h])
       /\ db' = IF known THEN [db EXCEPT ![h].size = card[edits[h]]] ELSE db
       /\ why' = IF known /\ why[h] = "written" THEN [why EXCEPT ![h] = "none"] ELSE why
       /\ edits' = Only(edits, DOMAIN edits \ {h})
  /\ UNCHANGED <<card, counter, truth, hidden, rare>>

-----------------------------------------------------------------------------
(* SetObjectPropValue of the file name, MoveObject, DeleteObject.          *)

\* Paths at and below old, carried over to new.
Carried(old, new, p) == IF IsPrefix(old, p) THEN new \o SubSeq(p, Len(old) + 1, Len(p)) ELSE p

\* Where the object of h really is, if that is not what its entry says: the entry's new
\* name is not the object's.
Misnamed(h, old, new) ==
  {p \in {truth[h]} \ {None, old, new} : db[h].parent \in Viewers(Parent(p))}

\* std::filesystem::rename, of a file onto a file replacing it or failing, asked for by
\* handle h, and what it makes of the other handles.
RenameOnCard(h, old, new) ==
  LET now(p) == Carried(old, new, p)
  IN  /\ old # new /\ old \in DOMAIN card /\ Opened \cap (Under(old) \cup {new}) = {}
      /\ {now(p) : p \in DOMAIN card} \subseteq Paths
      /\ new \in DOMAIN card => IsFile(new) /\ IsFile(old)
      /\ card' = [p \in {now(q) : q \in DOMAIN card \ {new}} |->
                    IF IsPrefix(new, p) THEN card[Carried(new, old, p)] ELSE card[p]]
      /\ truth' = [g \in Given |-> IF truth[g] \in Under(old) THEN now(truth[g])
                                   ELSE IF truth[g] = new THEN None ELSE truth[g]]
      /\ why' = [g \in Given |->
                   IF truth[g] \in Under(old) \ {old} THEN Blame(g, "ancestor")
                   ELSE IF g # h /\ truth[g] \in {old, new} THEN Blame(g, "alias") ELSE why[g]]
      /\ hidden' = {<<x[1], now(x[2])>> : x \in {y \in hidden : y[2] # new}}
                     \cup {<<d, new>> : d \in {v \in Viewers(Parent(old)) :
                                                 v # db[h].parent \/ truth[h] # old
                                                   \/ db[h].storage # Card}}
                     \cup {<<db[h].parent, now(p)>> : p \in Misnamed(h, old, new)}

\* Mutant: the entry keeps its old path.
RenameKeepsPath ==
  /\ Request
  /\ \E h \in DOMAIN db, name \in Names :
       RenameOnCard(h, db[h].path, Append(Parent(db[h].path), name))
  /\ UNCHANGED <<counter, db>>

\* setObjectPropertyValue: what is at the path is renamed, then this entry alone gets
\* the new path.
Rename ==
  /\ Request
  /\ \E h \in DOMAIN db, name \in Names :
       LET new == Append(Parent(db[h].path), name)
       IN  RenameOnCard(h, db[h].path, new) /\ db' = [db EXCEPT ![h].path = new]
  /\ UNCHANGED counter

\* doMoveObject looks the same path up twice: the entry gets a new parent, the object
\* stays where it is.
Move ==
  /\ ~dead /\ rare < MaxRare
  /\ \E h \in DOMAIN db, parent \in DOMAIN db \cup {0} :
       /\ parent # db[h].parent
       /\ db' = [db EXCEPT ![h].parent = parent]
       /\ hidden' = IF truth[h] = None THEN hidden ELSE hidden \cup Missing({truth[h]})
  /\ pend' = None /\ rare' = rare + 1
  /\ UNCHANGED <<card, counter, edits, dead, truth, why>>

\* deleteFile: the entry, and those right below it.
Erased(h) == {h} \cup {g \in DOMAIN db : db[g].parent = h}

\* What may remain of what is at and below a path: what is open, and whatever else
\* cannot be deleted, with the directories above it.
Remains(path) ==
  {left \in SUBSET Under(path) :
     Opened \cap Under(path) \subseteq left
       /\ \A q \in left, p \in Under(path) : IsPrefix(p, q) => p \in left}

\* doDeleteObject: the entry and those right below it go from the database, then what
\* is at the path from the card, or what of it can be deleted.
Delete ==
  /\ Request
  /\ \E h \in DOMAIN db : \E left \in Remains(db[h].path) :
       LET gone == Under(db[h].path) \ left
           kept == DOMAIN db \ Erased(h)
           stay == {truth[g] : g \in Erased(h)} \cap (DOMAIN card \ gone)
       IN  /\ db' = Only(db, kept)
           /\ card' = Only(card, DOMAIN card \ gone)
           /\ truth' = [g \in Given |-> IF truth[g] \in gone THEN None ELSE truth[g]]
           /\ why' = [g \in Given |->
                        IF truth[g] \notin gone THEN why[g]
                        ELSE Blame(g, IF truth[g] = db[h].path THEN "alias" ELSE "ancestor")]
           /\ hidden' = {x \in hidden \cup Missing(stay) : x[1] \in kept \cup {0} /\ x[2] \notin gone}
  /\ UNCHANGED counter

Next ==
  \/ OutsideRemove \/ OutsideCreate \/ OutsideWrite
  \/ DescribeDevice \/ DescribeObject \/ Download \/ List \/ ListThrows \/ Restart
  \/ SendDirectory \/ SendObjectInfo \/ SendObjectFails \/ SendObject \/ SendObjectUndone
  \/ BeginEdit \/ SendPartial \/ Truncate \/ EndEdit
  \/ Rename \/ Move \/ Delete

Spec == Init /\ [][Next]_vars

-----------------------------------------------------------------------------
(* Properties.                                                             *)

\* A handle in the database names the very object it was given out for, wherever
\* renames have carried that to (setObjectPropertyValue and the path kept in every
\* entry), except when the upload it was announced for was not made, when another
\* user of the card removed the object, when a directory above it was renamed or
\* deleted (only one level is told), or when the same object was changed through
\* another handle.
HandleNamesItsObject ==
  \A h \in DOMAIN db :
    why[h] \in {"none", "written"} => truth[h] = db[h].path /\ (db[h].dir <=> IsDir(db[h].path))

\* GetObjectHandles of a directory that was read from the card, asked with the card's
\* own storage id and for every format, shows every object in it, however the directory
\* has been renamed since (getObjectList, parse_directory's scanned mark), except an
\* object whose properties could not be read when the directory was (add_file_entry),
\* one listed or sent under another storage id than the card's, and what came there
\* behind the database's back: made by another user of the card, made, renamed or left
\* undeleted through another handle, said to have been moved, or renamed through a
\* handle whose directory was renamed before.
ListingComplete ==
  \A dir \in {<<>>} \cup DOMAIN card : \A d \in Viewers(dir) : \A p \in Children(dir) :
    \/ <<d, p>> \in hidden
    \/ \E g \in DOMAIN db :
         db[g].parent = d /\ db[g].storage = Card /\ Last(db[g].path) = Last(p)

\* The length doGetPartialObject announces, and the bytes send_file then sends: it
\* counts them in an int.  With a negative count it goes through its loop once and gives
\* the transport a length of no sense, which stands here as nothing sent.
Promised(size, offset, length) ==
  IF offset + length > size THEN (size - offset) % Width ELSE length
AsInt(n) == LET low == n % Width IN IF 2 * low < Width THEN low ELSE low - Width
Sends(size, offset, length) ==
  LET count == AsInt(IF offset + length > size THEN size - offset ELSE length)
  IN  IF offset >= size \/ count < 0 THEN 0 ELSE count

\* A download sends as many bytes as its header announces (doGetObject,
\* doGetPartialObject, send_file), from any offset within the file and for any length
\* asked for, if the file is smaller than 2 GiB and nobody has written it since its
\* entry was given its size: through another handle, by an edit that has not ended with
\* its size taken over, by another user of the card, or by an upload whose size
\* endSendObject could not find out.
PromiseKept ==
  \A h \in DOMAIN db :
    why[h] = "none" /\ ~db[h].dir /\ 2 * db[h].size < Width =>
      \A offset \in 0..db[h].size, length \in 0..Width - 1 :
        Promised(db[h].size, offset, length) = Sends(card[db[h].path], offset, length)
=============================================================================
