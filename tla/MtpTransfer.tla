----------------------------- MODULE MtpTransfer -----------------------------
(***************************************************************************)
(* What the MTP worker is doing while it is in a data phase of             *)
(* source/mtp/MtpServer.cpp: uploads (doSendObject), writes in place       *)
(* (doBeginEditObject, doSendPartialObject, doTruncateObject,              *)
(* doEndEditObject) and downloads, all of one file.                        *)
(*                                                                         *)
(* receive_file counts what USBMtpInterface::read returns until it has as  *)
(* many bytes as were announced; a read that times out after a second      *)
(* returns -1, which is counted too, and write() is not looked at.  Neither *)
(* it nor send_file looks at mRunning.  A block is as much as the first    *)
(* packet can carry behind its header.                                     *)
(***************************************************************************)
EXTENDS MtpWrapper, Integers, Sequences

CONSTANTS MaxSize,   \* bound: blocks of the file
          Versions,  \* what the host may put into a block
          None

ASSUME SizeAssumption == MaxSize \in Nat \ {0}

VARIABLES
  file,   \* the blocks on the card, each <<its place, its version>>, or None
  size,   \* its size in the database
  edit,   \* its entry in mObjectEditList: the descriptor's position and mSize
  rx,     \* the data phase under way
  known   \* what the host was told is there, or None if it was told of nothing (history)

fileVars == <<file, size, edit, rx, known>>

\* A gap in a file, and a request of the host that got into one.
Blank  == <<0, None>>
Blocks == {Blank} \cup (Nat \X Versions)
Data   == {None} \cup Seq(Blocks)
Least(x, y) == IF x < y THEN x ELSE y
Greatest(x, y) == IF x < y THEN y ELSE x

\* The n blocks of a version that begin at a place.
Run(first, n, version) == [i \in 1..n |-> <<first + i - 1, version>>]

\* write() at a position.
WriteAt(data, at, blocks) ==
  [i \in 1..Greatest(Len(data), IF blocks = <<>> THEN 0 ELSE at + Len(blocks)) |->
     IF at < i /\ i <= at + Len(blocks) THEN blocks[i - at]
     ELSE IF i <= Len(data) THEN data[i] ELSE Blank]

\* ftruncate().
Cut(data, n) == [i \in 1..n |-> IF i <= Len(data) THEN data[i] ELSE Blank]

TransferInit ==
  /\ file = None /\ size = 0 /\ edit = None /\ rx = None /\ known = None

\* rx: from, where the next block is written; got and want, the blocks counted and asked
\* for; end, where the data should end; version and goal, what the host sends and will
\* think is there, if all is well; undo, the first write failed and is the last.
Phase(op, from, want, version, undo, goal) ==
  [op |-> op, from |-> from, got |-> 0, want |-> want, end |-> from + want, version |-> version,
   late |-> FALSE, undo |-> undo, goal |-> goal]
Phases ==
  [op : {"upload", "edit", "download"}, from : Nat, got : Nat, want : Nat, end : Nat,
   version : Versions \cup {None}, late : BOOLEAN, undo : BOOLEAN, goal : Data]
Counted == rx.got > rx.want \/ (rx.got = rx.want /\ ~rx.late)

ASSUME NoneAssumption == None \notin Phases /\ None \notin [pos : Nat, size : Nat]

TransferTypeOK ==
  /\ file \in Data /\ known \in Data
  /\ size \in Nat /\ edit \in {None} \cup [pos : Nat, size : Nat]
  /\ rx \in {None} \cup Phases
  /\ rx = None <=> pc # "transfer"

-----------------------------------------------------------------------------
(* Uploads.                                                                *)

\* Mutant: the rest of the file is written over the blocks that came with the header.
SendObjectRewinds ==
  /\ BeginTransfer /\ edit = None
  /\ \E n \in 1..MaxSize, initial \in 0..1, version \in Versions, written \in BOOLEAN :
       /\ file' = IF written THEN Run(1, initial, version) ELSE <<>>
       /\ rx' = Phase("upload", 0, n - initial, version, initial = 1 /\ ~written,
                      IF initial = 1 /\ ~written THEN None ELSE Run(1, n, version))
  /\ known' = None
  /\ UNCHANGED <<size, edit>>

\* doSendObject, of a file that is not open (the SD card's file system opens none twice
\* for writing): the file is emptied, and the block that came with the header written.
SendObject ==
  /\ BeginTransfer /\ edit = None
  /\ \E n \in 1..MaxSize, initial \in 0..1, version \in Versions, written \in BOOLEAN :
       /\ file' = IF written THEN Run(1, initial, version) ELSE <<>>
       /\ rx' = Phase("upload", initial, n - initial, version, initial = 1 /\ ~written,
                      IF initial = 1 /\ ~written THEN None ELSE Run(1, n, version))
  /\ known' = None
  /\ UNCHANGED <<size, edit>>

\* doSendObject after receive_file: the upload is undone if the first write failed,
\* and answered OK in all other cases.
SendObjectDone ==
  /\ EndTransfer /\ rx.op = "upload"
  /\ Counted
  /\ file' = IF rx.undo THEN None ELSE file
  /\ size' = IF rx.undo THEN size ELSE Len(file)
  /\ known' = rx.goal
  /\ rx' = None
  /\ UNCHANGED edit

-----------------------------------------------------------------------------
(* receive_file.                                                           *)

Receiving(ops) == pc = "transfer" /\ rx.op \in ops /\ UNCHANGED <<mtpVars, size, edit, known>>

\* A block arrives and is written where the descriptor stands, or cannot be.
ReceiveBlock ==
  /\ Receiving({"upload", "edit"}) /\ rx.got < rx.want
  /\ \E written \in BOOLEAN :
       /\ file' = IF written THEN WriteAt(file, rx.from, Run(rx.from + 1, 1, rx.version)) ELSE file
       /\ rx' = [rx EXCEPT !.got = @ + 1, !.from = IF written THEN @ + 1 ELSE @,
                           !.goal = IF written THEN @ ELSE None]

\* Nothing arrives for a second: the count is one short from now on.
ReceiveNothing ==
  /\ Receiving({"upload", "edit"}) /\ rx.got < rx.want
  /\ rx' = [rx EXCEPT !.late = TRUE, !.goal = None]
  /\ UNCHANGED file

\* The count is short and the host, done with its data, sends its next request.
ReceiveRequest ==
  /\ Receiving({"upload", "edit"}) /\ rx.got = rx.want /\ rx.late
  /\ file' = WriteAt(file, rx.from, <<Blank>>)
  /\ rx' = [rx EXCEPT !.got = @ + 1, !.from = @ + 1]

-----------------------------------------------------------------------------
(* Writing in place.                                                       *)

BeginEdit ==
  /\ Serve /\ edit = None /\ file # None
  /\ edit' = [pos |-> 0, size |-> size]
  /\ UNCHANGED <<file, size, rx, known>>

\* doSendPartialObject: the block that came with the header is written where the
\* descriptor stands, the rest from the offset on.
SendPartial ==
  /\ BeginTransfer /\ edit # None
  /\ \E offset \in 0..Least(edit.size, MaxSize - 1), initial \in 0..1, version \in Versions, written \in BOOLEAN :
     \E n \in 1..MaxSize - offset :
       LET put == IF written THEN Run(offset + 1, initial, version) ELSE <<>>
           sure == known # None /\ (initial = 1 => written /\ edit.pos = offset)
       IN  /\ edit.pos < MaxSize \/ initial = 0
           /\ file' = WriteAt(file, edit.pos, put)
           /\ edit' = [edit EXCEPT !.pos = @ + Len(put)]
           /\ rx' = Phase("edit", offset + initial, n - initial, version, initial = 1 /\ ~written /\ n = 1,
                          IF sure THEN WriteAt(known, offset, Run(offset + 1, n, version)) ELSE None)
  /\ UNCHANGED <<size, known>>

\* doSendPartialObject after receive_file, which leaves the descriptor behind what it
\* wrote; an error is answered only if the first write failed and nothing came after it.
SendPartialDone ==
  /\ EndTransfer /\ rx.op = "edit"
  /\ Counted
  /\ edit' = [pos  |-> IF rx.want = 0 THEN edit.pos ELSE rx.from,
              size |-> IF rx.undo THEN edit.size ELSE Greatest(edit.size, rx.end)]
  /\ known' = rx.goal
  /\ rx' = None
  /\ UNCHANGED <<file, size>>

Truncate ==
  /\ Serve /\ edit # None
  /\ \E n \in 0..MaxSize :
       /\ file' = Cut(file, n)
       /\ edit' = [edit EXCEPT !.size = n]
       /\ known' = IF known = None THEN None ELSE Cut(known, n)
  /\ UNCHANGED <<size, rx>>

\* commitEdit takes the size from the card, if file_size() gives it.
Commit == edit' = None /\ size' \in IF edit = None THEN {size} ELSE {size, Len(file)}

\* doEndEditObject.
EndEdit ==
  /\ Serve /\ edit # None
  /\ Commit
  /\ UNCHANGED <<file, rx, known>>

-----------------------------------------------------------------------------
(* Downloads, and the end of run().                                        *)

\* doGetObject and doGetPartialObject: write() to the host has no timeout.
Download ==
  /\ BeginTransfer /\ file # None
  /\ rx' = Phase("download", 0, size, None, FALSE, None)
  /\ UNCHANGED <<file, size, edit, known>>

SendBlock ==
  /\ Receiving({"download"}) /\ rx.got < rx.want
  /\ rx' = [rx EXCEPT !.got = @ + 1]
  /\ UNCHANGED file

\* All is sent, or the connection broke.
DownloadDone ==
  /\ EndTransfer /\ rx.op = "download"
  /\ rx' = None
  /\ UNCHANGED <<file, size, edit, known>>

\* run() has left its loop: the open edit is committed, then the server is deleted.
CommitEdits ==
  /\ Leave
  /\ Commit
  /\ UNCHANGED <<file, rx, known>>

\* A new database is read from the card.
ReadCard ==
  /\ Build
  /\ size' = IF file = None THEN 0 ELSE Len(file)
  /\ UNCHANGED <<file, edit, rx, known>>

Reception == ReceiveBlock \/ ReceiveNothing \/ ReceiveRequest
Edits == BeginEdit \/ SendPartial \/ SendPartialDone \/ Truncate \/ EndEdit
Transfer == SendObject \/ SendObjectDone \/ Reception \/ Edits \/ Download \/ SendBlock \/ DownloadDone

\* The rest of the worker.
Alone == OpenUsb \/ OpenUsbFails \/ BuildFails \/ Publish \/ Flag \/ Check \/ Loop \/ ReadNothing
           \/ Remove \/ Finish

\* Other requests, and the answers to all of them.
Others == Serve \/ Answer

TypeOK == MtpTypeOK /\ TransferTypeOK
Init   == MtpInit /\ TransferInit
Next   == Transfer \/ CommitEdits \/ ReadCard \/ ((Alone \/ Others \/ Control \/ Exit) /\ UNCHANGED fileVars)
vars   == <<mtpVars, fileVars>>
Spec   == Init /\ [][Next]_vars

\* Both threads are scheduled, the calls of the device side return, and reading a request
\* takes a second at most.  The host does not have to do anything: it need neither send
\* nor read.
FairSpec ==
  /\ Spec
  /\ WF_vars(Stopping /\ UNCHANGED fileVars)
  /\ WF_vars(CommitEdits \/ ReadCard \/ (Alone /\ UNCHANGED fileVars))

-----------------------------------------------------------------------------
(* Properties.                                                             *)

\* When the host has been told OK for its uploads, partial writes and truncations, what
\* it sent is on the card (doSendObject, doSendPartialObject, receive_file), unless one
\* of four things happened on the way that the code answers OK all the same or that it
\* gives up on: the host paused for a second, a write failed, data came along with the
\* header of a partial write at another place than the last one ended, or the transfer
\* is not over.
HostIsRight == rx = None /\ known # None => file = known

\* mtp_server_stop returns, unless the worker is with the host for ever: in a data phase
\* (the loops of receive_file and send_file do not look at mRunning, and the host may be
\* silent), or writing an answer that the host does not read (MtpServer.cpp:206, 216; the
\* write has no timeout).
Stalled == <>[](pc = "transfer") \/ <>[](pc = "answer")
StopReturns == Stalled \/ (ui = "clear" ~> ui \in {"idle", "exit"})
=============================================================================
