------------------------------ MODULE FtpSession ------------------------------
(***************************************************************************)
(* What the FTP commands of fcli (source/main.c) do to the SD card: the    *)
(* per-session and the global command state (REST offset, ALLO size, RNFR  *)
(* source, passive listener), the files, and the transfer loops, with      *)
(* ftp_stop (ftp_on = 0 and the transfer socket shut down) at any moment.  *)
(*                                                                         *)
(* A path is a member of Paths, a file a sequence of blocks.  Blocks tell  *)
(* apart what was on the card, what the client sent and the zeros a file   *)
(* system fills a hole with.  Commands that only read and answer are left  *)
(* out.  Sockets and threads are the business of FtpServer.                *)
(***************************************************************************)
EXTENDS Naturals, SequencesExt

CONSTANTS Paths,      \* canonical paths, as fclean returns them
          NoPath,     \* the empty ftp_rnfr
          Absent,     \* no entry at a path
          Dir,        \* a directory
          NoXfer,     \* no transfer command under way or just answered
          MaxLen      \* bound: blocks in a file, an offset or an upload

ASSUME PathAssumption == NoPath \notin Paths
ASSUME MaxLenAssumption == MaxLen \in Nat \ {0}

Block   == {"old", "sent", "zero"}
Uploads == {"STOR", "APPE"}

VARIABLES
  on,       \* ftp_on
  disk,     \* disk[p]: the SD card
  pc,       \* "none": no client; fcli is waiting for a command ("cmd"), for the
            \* data connection ("accept"), in a transfer ("xfer"), ending ("end")
  lsn,      \* ftp_data >= 0
  rest,     \* ftp_rest_offset
  alloc,    \* ftp_expected_xfer_size
  rnfr,     \* ftp_rnfr
  x,        \* the transfer under way, or the one just answered
  reply     \* code of the last final reply

vars == <<on, disk, pc, lsn, rest, alloc, rnfr, x, reply>>

Waiting == pc \in {"accept", "xfer"}

\* The files and the session, without the bounds of the runs. The locals of a transfer
\* command are op, the path, the file position it starts at, the blocks moved so far and
\* the size shown on screen; and, as history, the file before the command.
TypeOK ==
  /\ disk \in [Paths -> {Absent, Dir} \cup Seq(Block)]
  /\ rest \in Nat /\ alloc \in Nat
  /\ rnfr \in Paths \cup {NoPath}
  /\ Waiting => /\ x \in [op : {"RETR"} \cup Uploads, path : Paths, off : Nat,
                          moved : Seq(Block), total : Nat, old : Seq(Block)]
                /\ disk[x.path] \in Seq(Block)

IsFile(p) == disk[p] \notin {Absent, Dir}
Before(p) == IF IsFile(p) THEN disk[p] ELSE <<>>

Init ==
  /\ on = TRUE
  /\ disk \in [Paths -> {Absent, Dir, <<"old", "old">>}]
  /\ pc = "none"
  /\ lsn = FALSE
  /\ rest = 0 /\ alloc = 0 /\ rnfr = NoPath
  /\ x = NoXfer
  /\ reply = 0

-----------------------------------------------------------------------------
(* Sessions and the server switch.                                         *)

\* A client is greeted: the listener, the REST offset and the current directory
\* are reset, the ALLO size and the RNFR source are not.
Greet ==
  /\ pc = "none" /\ on
  /\ pc' = "cmd" /\ lsn' = FALSE /\ rest' = 0
  /\ reply' = 220 /\ x' = NoXfer
  /\ UNCHANGED <<on, disk, alloc, rnfr>>

\* QUIT, a disconnect, the idle timeout, or the end of the server.
EndSession ==
  /\ pc \in {"cmd", "end"}
  /\ pc' = "none" /\ lsn' = FALSE
  /\ reply' = 221 /\ x' = NoXfer
  /\ UNCHANGED <<on, disk, rest, alloc, rnfr>>

Stop ==
  /\ on
  /\ on' = FALSE
  /\ UNCHANGED <<disk, pc, lsn, rest, alloc, rnfr, x, reply>>

Start ==
  /\ ~on /\ pc = "none"
  /\ on' = TRUE /\ rnfr' = NoPath /\ rest' = 0
  /\ UNCHANGED <<disk, pc, lsn, alloc, x, reply>>

-----------------------------------------------------------------------------
(* Commands without a data connection.                                     *)

\* The command loop goes on only while ftp_on is set; the command recv() was
\* waiting for when ftp_stop cleared it is still carried out.
Resume(code) == pc' = (IF on THEN "cmd" ELSE "end") /\ reply' = code
Answer(code) == pc = "cmd" /\ Resume(code) /\ x' = NoXfer

Allo ==
  /\ Answer(202)
  /\ \E n \in 0..MaxLen : alloc' = n
  /\ UNCHANGED <<on, disk, lsn, rest, rnfr>>

Rest ==
  /\ Answer(350)
  /\ \E n \in 0..MaxLen : rest' = n
  /\ UNCHANGED <<on, disk, lsn, alloc, rnfr>>

Pasv ==
  /\ \E ok \in BOOLEAN : lsn' = ok /\ Answer(IF ok THEN 227 ELSE 421)
  /\ UNCHANGED <<on, disk, rest, alloc, rnfr>>

Dele ==
  /\ \E p \in Paths :
       IF IsFile(p)
       THEN Answer(250) /\ disk' = [disk EXCEPT ![p] = Absent]
       ELSE Answer(550) /\ disk' = disk
  /\ UNCHANGED <<on, lsn, rest, alloc, rnfr>>

Mkd ==
  /\ \E p \in Paths :
       IF disk[p] = Absent
       THEN Answer(257) /\ disk' = [disk EXCEPT ![p] = Dir]
       ELSE Answer(550) /\ disk' = disk
  /\ UNCHANGED <<on, lsn, rest, alloc, rnfr>>

Rmd ==
  /\ \E p \in Paths :
       IF disk[p] = Dir
       THEN Answer(250) /\ disk' = [disk EXCEPT ![p] = Absent]
       ELSE Answer(550) /\ disk' = disk
  /\ UNCHANGED <<on, lsn, rest, alloc, rnfr>>

Rnfr ==
  /\ Answer(350)
  /\ \E p \in Paths : rnfr' = p
  /\ UNCHANGED <<on, disk, lsn, rest, alloc>>

\* rename() succeeds when the source exists and the target does not.
Rnto ==
  /\ \E p \in Paths :
       IF rnfr = NoPath
       THEN Answer(503) /\ disk' = disk
       ELSE IF disk[rnfr] # Absent /\ disk[p] = Absent
       THEN Answer(250) /\ disk' = [disk EXCEPT ![p] = disk[rnfr], ![rnfr] = Absent]
       ELSE Answer(550) /\ disk' = disk
  /\ rnfr' = NoPath
  /\ UNCHANGED <<on, lsn, rest, alloc>>

-----------------------------------------------------------------------------
(* Transfers.                                                              *)

\* accept() is called on the data listener with the file already open.
Await(cmd, p, size) ==
  /\ pc = "cmd" /\ lsn
  /\ pc' = "accept" /\ reply' = 0
  /\ x' = [op |-> cmd, path |-> p, off |-> 0, moved |-> <<>>, total |-> size,
           old |-> Before(p)]

\* RETR: 550 without a file, 425 without a listener.
Retr ==
  /\ \E p \in Paths :
       \/ ~IsFile(p) /\ Answer(550)
       \/ IsFile(p) /\ ~lsn /\ Answer(425)
       \/ IsFile(p) /\ Await("RETR", p, Len(disk[p]))
  /\ UNCHANGED <<on, disk, lsn, rest, alloc, rnfr>>

StorFails ==
  /\ Answer(550)
  /\ UNCHANGED <<on, disk, lsn, rest, alloc, rnfr>>

\* Mutant: APPE opens the file like STOR.
StorAlwaysTruncates ==
  /\ \E p \in Paths, cmd \in Uploads :
       /\ disk[p] # Dir
       /\ disk' = [disk EXCEPT ![p] = <<>>]
       /\ Await(cmd, p, alloc) \/ (~lsn /\ Answer(425))
  /\ alloc' = 0
  /\ UNCHANGED <<on, lsn, rest, rnfr>>

\* STOR and APPE: the file is opened, which creates it and, for STOR, empties it,
\* and the ALLO size is taken, before the listener is looked at.
Stor ==
  /\ \E p \in Paths, cmd \in Uploads :
       /\ disk[p] # Dir
       /\ disk' = [disk EXCEPT ![p] = IF cmd = "APPE" THEN Before(p) ELSE <<>>]
       /\ Await(cmd, p, alloc) \/ (~lsn /\ Answer(425))
  /\ alloc' = 0
  /\ UNCHANGED <<on, lsn, rest, rnfr>>

\* The client connects: the listener is closed, and RETR and STOR seek to the
\* REST offset and clear it.
DataAccept ==
  /\ pc = "accept" /\ on
  /\ pc' = "xfer" /\ lsn' = FALSE
  /\ CASE x.op = "RETR" -> /\ x' = [x EXCEPT !.off = rest,
                                   !.total = IF @ > rest THEN @ - rest ELSE 0]
                          /\ rest' = 0
       [] x.op = "STOR" -> x' = [x EXCEPT !.off = rest] /\ rest' = 0
       [] x.op = "APPE" -> UNCHANGED <<x, rest>>
  /\ UNCHANGED <<on, disk, alloc, rnfr, reply>>

DataAcceptFails ==
  /\ pc = "accept"
  /\ Resume(425) /\ x' = NoXfer
  /\ UNCHANGED <<on, disk, lsn, rest, alloc, rnfr>>

Downloading == pc = "xfer" /\ x.op = "RETR"
Uploading   == pc = "xfer" /\ x.op \in Uploads
AtEof       == x.off + Len(x.moved) >= Len(disk[x.path])

\* The end of a transfer: 226 and the transfer counters, or the failure code.
EndXfer(code) ==
  /\ Resume(code)
  /\ UNCHANGED <<on, disk, lsn, rest, alloc, rnfr, x>>

\* Mutant: RETR does not seek to the REST offset.
SendBlockFromStart ==
  /\ Downloading /\ on /\ ~AtEof
  /\ x' = [x EXCEPT !.moved = Append(@, disk[x.path][Len(@) + 1])]
  /\ UNCHANGED <<on, disk, pc, lsn, rest, alloc, rnfr, reply>>

SendBlock ==
  /\ Downloading /\ on /\ ~AtEof
  /\ x' = [x EXCEPT !.moved = Append(@, disk[x.path][x.off + Len(@) + 1])]
  /\ UNCHANGED <<on, disk, pc, lsn, rest, alloc, rnfr, reply>>

\* fread() finds no more data, or ftp_on has been cleared.
SendEnds == Downloading /\ (~on \/ AtEof) /\ EndXfer(226)
SendFails == Downloading /\ EndXfer(426)

\* fwrite() at a file position; a gap below it reads as zeros.
WriteAt(c, pos, b) ==
  IF pos < Len(c) THEN [c EXCEPT ![pos + 1] = b]
  ELSE c \o [i \in 1..(pos - Len(c)) |-> "zero"] \o <<b>>

RecvBlock ==
  /\ Uploading /\ on
  /\ Len(x.moved) < MaxLen /\ Len(disk[x.path]) < 2 * MaxLen
  /\ x' = [x EXCEPT !.moved = Append(@, "sent")]
  /\ disk' = [disk EXCEPT ![x.path] =
               WriteAt(@, IF x.op = "APPE" THEN Len(@) ELSE x.off + Len(x.moved), "sent")]
  /\ UNCHANGED <<on, pc, lsn, rest, alloc, rnfr, reply>>

\* recv() returns 0: the client has closed its side, or ftp_stop has shut the
\* socket down; or the loop sees ftp_on cleared.
RecvEnds == Uploading /\ EndXfer(226)

\* recv(), fwrite() or fclose() fails.
RecvFails == Uploading /\ EndXfer(451)

Command  == Allo \/ Rest \/ Pasv \/ Dele \/ Mkd \/ Rmd \/ Rnfr \/ Rnto \/ Retr \/ StorFails \/ Stor
Transfer == DataAccept \/ DataAcceptFails \/ SendBlock \/ SendEnds \/ SendFails
              \/ RecvBlock \/ RecvEnds \/ RecvFails
Next == Greet \/ EndSession \/ Stop \/ Start \/ Command \/ Transfer

Spec == Init /\ [][Next]_vars

-----------------------------------------------------------------------------
(* Properties.                                                             *)

Answered(cmds) == reply = 226 /\ x.op \in cmds

\* "226 Transfer complete" after an upload without REST: the file holds what was
\* received, after its old content for APPE, and nothing else.
UploadStored ==
  Answered(Uploads) /\ x.off = 0 =>
    disk[x.path] = (IF x.op = "APPE" THEN x.old ELSE <<>>) \o x.moved

\* 226 after a download, unless it was ftp_stop that cut it: the client has the file
\* from the REST offset to its end, whatever was answered to earlier commands.
DownloadExact ==
  Answered({"RETR"}) /\ on => x.moved = SubSeq(x.old, x.off + 1, Len(x.old))

=============================================================================
