--------------------------- MODULE FtpSession_proof ---------------------------
(***************************************************************************)
(* Uploads and downloads over FTP, for any paths, files, offsets and       *)
(* uploads: what is at a path while a transfer runs is what has been moved *)
(* so far (Moving), from the moment the data connection is awaited         *)
(* (Opened) until the transfer is answered (UploadStored, DownloadExact).  *)
(***************************************************************************)
EXTENDS FtpSession, TLAPS

\* While a transfer runs there is no final reply; the reply to one stands until the
\* next command, or the end of the session.
Replies ==
  /\ Waiting => reply = 0
  /\ reply = 226 => pc \in {"cmd", "end"}

\* A file that waits for the data connection: nothing has moved.
Opened ==
  pc = "accept" =>
    /\ x.moved = <<>> /\ x.off = 0
    /\ disk[x.path] = (IF x.op = "STOR" THEN <<>> ELSE x.old)

\* A transfer: an upload without REST has put at the path what it received, a download
\* has sent the file from the offset on, as far as it got.
Moving ==
  pc = "xfer" =>
    /\ x.op = "APPE" => x.off = 0
    /\ x.op \in Uploads /\ x.off = 0 =>
         disk[x.path] = (IF x.op = "APPE" THEN x.old ELSE <<>>) \o x.moved
    /\ x.op = "RETR" =>
         /\ disk[x.path] = x.old
         /\ x.moved = SubSeq(x.old, x.off + 1, x.off + Len(x.moved))
         /\ x.off + Len(x.moved) <= Len(x.old) \/ x.moved = <<>>

SessionInv == TypeOK /\ Replies /\ Opened /\ Moving /\ UploadStored /\ DownloadExact
-----------------------------------------------------------------------------
(* Sequences of blocks.                                                    *)

\* fwrite() at the end of a file appends.
LEMMA WriteAtEnd ==
  ASSUME NEW c \in Seq(Block), NEW b \in Block
  PROVE  WriteAt(c, Len(c), b) = Append(c, b)
<1>1. [i \in 1..(Len(c) - Len(c)) |-> "zero"] = <<>>
  OBVIOUS
<1>2. WriteAt(c, Len(c), b) = c \o <<>> \o <<b>>
  BY <1>1 DEF WriteAt
<1>3. c \o <<>> \o <<b>> = Append(c, b)
  OBVIOUS
<1>. QED
  BY <1>2, <1>3

\* A file stays a sequence of blocks wherever it is written.
LEMMA WriteAtType ==
  ASSUME NEW c \in Seq(Block), NEW pos \in Nat, NEW b \in Block
  PROVE  WriteAt(c, pos, b) \in Seq(Block)
<1>1. CASE pos < Len(c)
  <2>1. WriteAt(c, pos, b) = [c EXCEPT ![pos + 1] = b]
    BY <1>1 DEF WriteAt
  <2>. QED
    BY <1>1, <2>1
<1>2. CASE pos >= Len(c)
  <2> DEFINE gap == [i \in 1..(pos - Len(c)) |-> "zero"]
  <2>1. gap \in Seq(Block)
    BY <1>2 DEF Block
  <2>2. WriteAt(c, pos, b) = c \o gap \o <<b>>
    BY <1>2 DEF WriteAt
  <2> HIDE DEF gap
  <2>3. c \o gap \o <<b>> \in Seq(Block)
    BY <2>1
  <2>. QED
    BY <2>2, <2>3
<1>. QED
  BY <1>1, <1>2

\* What is appended to the second of two sequences comes behind both.
LEMMA AppendBehind ==
  ASSUME NEW c \in Seq(Block), NEW d \in Seq(Block), NEW b \in Block
  PROVE  Append(c \o d, b) = c \o Append(d, b)
<1> DEFINE left  == Append(c \o d, b)
           right == c \o Append(d, b)
<1>1. left \in Seq(Block) /\ Len(left) = Len(c) + Len(d) + 1
  OBVIOUS
<1>2. right \in Seq(Block) /\ Len(right) = Len(c) + Len(d) + 1
  OBVIOUS
<1>3. \A i \in 1..(Len(c) + Len(d) + 1) : left[i] = right[i]
  OBVIOUS
<1> HIDE DEF left, right
<1>4. left = right
  BY <1>1, <1>2, <1>3
<1>. QED
  BY <1>4 DEF left, right

\* A part of a file, made longer by the block behind it.
LEMMA PartGrows ==
  ASSUME NEW c \in Seq(Block), NEW from \in Nat, NEW n \in Nat, from + n < Len(c)
  PROVE  Append(SubSeq(c, from + 1, from + n), c[from + n + 1]) = SubSeq(c, from + 1, from + (n + 1))
<1> DEFINE part == SubSeq(c, from + 1, from + n)
           longer == SubSeq(c, from + 1, from + (n + 1))
<1>1. part \in Seq(Block) /\ Len(part) = n /\ \A i \in 1..n : part[i] = c[from + i]
  OBVIOUS
<1>2. longer \in Seq(Block) /\ Len(longer) = n + 1 /\ \A i \in 1..(n + 1) : longer[i] = c[from + i]
  OBVIOUS
<1>3. c[from + n + 1] \in Block
  OBVIOUS
<1> HIDE DEF part, longer
<1>4. Append(part, c[from + n + 1]) = longer
  BY <1>1, <1>2, <1>3
<1>. QED
  BY <1>4 DEF part, longer

\* What has been sent when the end of the file is reached.
LEMMA WholeSent ==
  ASSUME NEW c \in Seq(Block), NEW m \in Seq(Block), NEW from \in Nat,
         m = SubSeq(c, from + 1, from + Len(m)), from + Len(m) >= Len(c),
         from + Len(m) <= Len(c) \/ m = <<>>
  PROVE  m = SubSeq(c, from + 1, Len(c))
<1>1. CASE m = <<>>
  <2>1. from + 1 > Len(c)
    BY <1>1
  <2>2. SubSeq(c, from + 1, Len(c)) = <<>>
    BY <2>1
  <2>. QED
    BY <1>1, <2>2
<1>2. CASE from + Len(m) <= Len(c)
  <2> DEFINE n == Len(m)
  <2>1. n \in Nat /\ from + n <= Len(c) /\ from + n >= Len(c)
    BY <1>2
  <2> HIDE DEF n
  <2>2. from + n = Len(c)
    BY <2>1
  <2>. QED
    BY <2>2 DEF n
<1>. QED
  BY <1>1, <1>2

-----------------------------------------------------------------------------
(* Every step keeps the invariant.                                         *)

\* A block of an upload is received.
LEMMA RecvKeeps ==
  ASSUME TypeOK, Moving, RecvBlock
  PROVE  /\ x' = [x EXCEPT !.moved = Append(@, "sent")]
         /\ disk' \in [Paths -> {Absent, Dir} \cup Seq(Block)] /\ disk'[x.path] \in Seq(Block)
         /\ x.off = 0 => disk'[x.path] = (IF x.op = "APPE" THEN x.old ELSE <<>>) \o Append(x.moved, "sent")
<1> DEFINE c   == disk[x.path]
           pos == IF x.op = "APPE" THEN Len(c) ELSE x.off + Len(x.moved)
           o   == IF x.op = "APPE" THEN x.old ELSE <<>>
<1>1. /\ x.path \in Paths /\ x.moved \in Seq(Block) /\ x.old \in Seq(Block) /\ x.off \in Nat
      /\ c \in Seq(Block) /\ x.op \in Uploads /\ pc = "xfer"
  BY DEF TypeOK, Waiting, RecvBlock, Uploading, Uploads
<1>2. "sent" \in Block
  BY DEF Block
<1>3. x' = [x EXCEPT !.moved = Append(@, "sent")] /\ disk' = [disk EXCEPT ![x.path] = WriteAt(c, pos, "sent")]
  BY DEF RecvBlock
<1>4. disk'[x.path] = WriteAt(c, pos, "sent")
  BY <1>1, <1>3 DEF TypeOK
<1>5. pos \in Nat
  BY <1>1
<1>6. WriteAt(c, pos, "sent") \in Seq(Block)
  BY <1>1, <1>2, <1>5, WriteAtType
<1>7. disk' \in [Paths -> {Absent, Dir} \cup Seq(Block)]
  BY <1>1, <1>3, <1>6 DEF TypeOK
<1>8. ASSUME x.off = 0
      PROVE  disk'[x.path] = o \o Append(x.moved, "sent")
  <2>1. c = o \o x.moved
    BY <1>1, <1>8 DEF Moving
  <2>2. o \in Seq(Block)
    BY <1>1
  <2>3. pos = Len(c)
    <3>1. CASE x.op = "APPE"
      BY <3>1
    <3>2. CASE x.op # "APPE"
      <4>1. c = <<>> \o x.moved
        BY <2>1, <3>2
      <4>2. <<>> \o x.moved = x.moved
        BY <1>1
      <4>. QED
        BY <1>1, <1>8, <3>2, <4>1, <4>2
    <3>. QED
      BY <3>1, <3>2
  <2>4. WriteAt(c, pos, "sent") = Append(c, "sent")
    BY <1>1, <1>2, <2>3, WriteAtEnd
  <2>5. Append(o \o x.moved, "sent") = o \o Append(x.moved, "sent")
    <3> HIDE DEF o
    <3>. QED
      BY <1>1, <1>2, <2>2, AppendBehind
  <2>. QED
    BY <1>4, <2>1, <2>4, <2>5
<1>. QED
  BY <1>3, <1>4, <1>6, <1>7, <1>8

\* A block of a download is sent.
LEMMA SendKeeps ==
  ASSUME TypeOK, Moving, SendBlock
  PROVE  /\ x' = [x EXCEPT !.moved = x'.moved] /\ x'.moved \in Seq(Block)
         /\ x'.moved = SubSeq(x.old, x.off + 1, x.off + Len(x'.moved))
         /\ x.off + Len(x'.moved) <= Len(x.old)
<1>1. /\ x.moved \in Seq(Block) /\ x.old \in Seq(Block) /\ x.off \in Nat /\ disk[x.path] = x.old
      /\ x.moved = SubSeq(x.old, x.off + 1, x.off + Len(x.moved))
      /\ x.off + Len(x.moved) < Len(x.old)
  BY DEF TypeOK, Waiting, Moving, SendBlock, Downloading, AtEof
<1>2. x' = [x EXCEPT !.moved = Append(@, x.old[x.off + Len(@) + 1])]
  BY <1>1 DEF SendBlock
<1>3. x.moved \in Seq(Block) /\ Len(x.moved) \in Nat /\ x.old[x.off + Len(x.moved) + 1] \in Block
  BY <1>1
<1>4. x'.moved = Append(x.moved, x.old[x.off + Len(x.moved) + 1])
  BY <1>2 DEF TypeOK, Waiting, SendBlock, Downloading
<1>5. x'.moved \in Seq(Block) /\ Len(x'.moved) = Len(x.moved) + 1
  BY <1>3, <1>4
<1>6. Append(x.moved, x.old[x.off + Len(x.moved) + 1]) = SubSeq(x.old, x.off + 1, x.off + (Len(x.moved) + 1))
  BY <1>1, <1>3, PartGrows
<1>7. x' = [x EXCEPT !.moved = x'.moved]
  BY <1>2, <1>4
<1>8. x'.moved = SubSeq(x.old, x.off + 1, x.off + Len(x'.moved))
  BY <1>4, <1>5, <1>6
<1>9. x.off + Len(x'.moved) <= Len(x.old)
  BY <1>1, <1>3, <1>5
<1>. QED
  BY <1>5, <1>7, <1>8, <1>9

\* Where no transfer is answered, nothing is promised.
LEMMA Unanswered == reply' # 226 => (UploadStored /\ DownloadExact)'
BY DEF UploadStored, DownloadExact, Answered

\* The data connection is awaited with the file as it is by then.
LEMMA AwaitType ==
  ASSUME TypeOK, NEW cmd \in {"RETR"} \cup Uploads, NEW p \in Paths, NEW size \in Nat, disk[p] # Dir,
         Await(cmd, p, size)
  PROVE  x' \in [op : {"RETR"} \cup Uploads, path : Paths, off : Nat, moved : Seq(Block),
                 total : Nat, old : Seq(Block)]
<1>1. Before(p) \in Seq(Block)
  BY DEF TypeOK, Before, IsFile
<1>2. <<>> \in Seq(Block) /\ 0 \in Nat
  OBVIOUS
<1>. QED
  BY <1>1, <1>2 DEF Await

\* A transfer begins at the REST offset, or at the end of the file.
LEMMA AcceptType ==
  ASSUME TypeOK, Opened, DataAccept
  PROVE  /\ x' = [x EXCEPT !.off = x'.off, !.total = x'.total]
         /\ x'.off \in Nat /\ x'.total \in Nat /\ (x.op = "APPE" => x'.off = 0)
<1>1. x \in [op : {"RETR"} \cup Uploads, path : Paths, off : Nat, moved : Seq(Block),
             total : Nat, old : Seq(Block)]
  BY DEF TypeOK, Waiting, DataAccept
<1>2. CASE x.op = "RETR"
  <2> DEFINE size == IF x.total > rest THEN x.total - rest ELSE 0
  <2>1. x' = [x EXCEPT !.off = rest, !.total = size]
    BY <1>2 DEF DataAccept
  <2>2. size \in Nat /\ rest \in Nat
    BY <1>1 DEF TypeOK
  <2> HIDE DEF size
  <2>. QED
    BY <1>1, <1>2, <2>1, <2>2
<1>3. CASE x.op = "STOR"
  <2>1. x' = [x EXCEPT !.off = rest] /\ rest \in Nat
    BY <1>3 DEF DataAccept, TypeOK
  <2>. QED
    BY <1>1, <1>3, <2>1
<1>4. CASE x.op = "APPE"
  <2>1. x' = x /\ x.off = 0
    BY <1>4 DEF DataAccept, Opened
  <2>. QED
    BY <1>1, <2>1
<1>. QED
  BY <1>1, <1>2, <1>3, <1>4 DEF Uploads

\* Every step keeps the shape of the session's state.
LEMMA TypeStep == (TypeOK /\ Opened /\ Moving) /\ [Next]_vars => TypeOK'
<1> SUFFICES ASSUME TypeOK, Opened, Moving, [Next]_vars PROVE TypeOK'
  OBVIOUS
<1> USE DEF Answer, Resume, EndXfer, Waiting, Downloading, Uploading, Uploads, TypeOK,
      Opened, IsFile, Before, Await
<1>1. CASE Greet
  BY <1>1 DEF Greet
<1>2. CASE EndSession
  BY <1>2 DEF EndSession
<1>3. CASE Stop
  BY <1>3 DEF Stop
<1>4. CASE Start
  BY <1>4 DEF Start
<1>5. CASE Allo
  BY <1>5 DEF Allo
<1>6. CASE Rest
  BY <1>6 DEF Rest
<1>7. CASE Pasv
  BY <1>7 DEF Pasv
<1>8. CASE Dele
  BY <1>8 DEF Dele
<1>9. CASE Mkd
  BY <1>9 DEF Mkd
<1>10. CASE Rmd
  BY <1>10 DEF Rmd
<1>11. CASE Rnfr
  BY <1>11 DEF Rnfr
<1>12. CASE Rnto
  BY <1>12 DEF Rnto
<1>13. CASE Retr
  <2>1. UNCHANGED <<disk, rest, alloc, rnfr>>
    BY <1>13 DEF Retr
  <2>2. CASE pc' # "accept"
    <3>1. pc' # "xfer"
      BY <1>13, <2>2 DEF Retr
    <3>. QED
      BY <2>1, <2>2, <3>1
  <2>3. CASE pc' = "accept"
    <3>1. PICK p \in Paths : IsFile(p) /\ Await("RETR", p, Len(disk[p]))
      BY <1>13, <2>3 DEF Retr
    <3>2. disk[p] \in Seq(Block) /\ Len(disk[p]) \in Nat /\ disk[p] # Dir
      BY <3>1
    <3>3. x' \in [op : {"RETR"} \cup Uploads, path : Paths, off : Nat, moved : Seq(Block),
                  total : Nat, old : Seq(Block)]
      BY <3>1, <3>2, AwaitType
    <3>4. x'.path = p
      BY <3>1
    <3>. QED
      BY <2>1, <3>2, <3>3, <3>4
  <2>. QED
    BY <2>2, <2>3
<1>14. CASE StorFails
  BY <1>14 DEF StorFails
<1>15. CASE Stor
  <2>1. PICK p \in Paths, cmd \in Uploads :
          /\ disk[p] # Dir
          /\ disk' = [disk EXCEPT ![p] = IF cmd = "APPE" THEN Before(p) ELSE <<>>]
          /\ Await(cmd, p, alloc) \/ (~lsn /\ Answer(425))
    BY <1>15 DEF Stor
  <2> DEFINE opened == IF cmd = "APPE" THEN Before(p) ELSE <<>>
  <2>2. opened \in Seq(Block)
    <3>1. Before(p) \in Seq(Block)
      BY <2>1
    <3>2. <<>> \in Seq(Block)
      OBVIOUS
    <3>. QED
      BY <3>1, <3>2
  <2>3. disk' = [disk EXCEPT ![p] = opened]
    BY <2>1
  <2> HIDE DEF opened
  <2>4. disk' \in [Paths -> {Absent, Dir} \cup Seq(Block)] /\ disk'[p] \in Seq(Block)
    BY <2>2, <2>3
  <2>5. alloc' = 0 /\ rest' = rest /\ rnfr' = rnfr
    BY <1>15 DEF Stor
  <2>6. CASE Await(cmd, p, alloc)
    <3>1. x' \in [op : {"RETR"} \cup Uploads, path : Paths, off : Nat, moved : Seq(Block),
                  total : Nat, old : Seq(Block)] /\ x'.path = p
      BY <2>1, <2>6, AwaitType
    <3>. QED
      BY <2>4, <2>5, <3>1
  <2>7. CASE Answer(425)
    BY <2>4, <2>5, <2>7
  <2>. QED
    BY <2>1, <2>6, <2>7
<1>16. CASE DataAccept
  <2>1. x' \in [op : {"RETR"} \cup Uploads, path : Paths, off : Nat, moved : Seq(Block),
                total : Nat, old : Seq(Block)] /\ x'.path = x.path
    BY <1>16, AcceptType DEF DataAccept
  <2>2. rest' \in Nat /\ UNCHANGED <<disk, alloc, rnfr>>
    BY <1>16 DEF DataAccept
  <2>. QED
    BY <1>16, <2>1, <2>2 DEF DataAccept
<1>17. CASE DataAcceptFails
  BY <1>17 DEF DataAcceptFails
<1>18. CASE SendBlock
  BY <1>18, SendKeeps DEF SendBlock
<1>19. CASE SendEnds
  BY <1>19 DEF SendEnds
<1>20. CASE SendFails
  BY <1>20 DEF SendFails
<1>21. CASE RecvBlock
  <2>1. x' \in [op : {"RETR"} \cup Uploads, path : Paths, off : Nat, moved : Seq(Block),
                total : Nat, old : Seq(Block)] /\ x'.path = x.path
    <3>1. "sent" \in Block
      BY DEF Block
    <3>2. Append(x.moved, "sent") \in Seq(Block)
      BY <1>21, <3>1 DEF RecvBlock
    <3>. QED
      BY <1>21, <3>2, RecvKeeps DEF RecvBlock
  <2>2. UNCHANGED <<rest, alloc, rnfr, pc>>
    BY <1>21 DEF RecvBlock
  <2>. QED
    BY <1>21, <2>1, <2>2, RecvKeeps
<1>22. CASE RecvEnds
  BY <1>22 DEF RecvEnds
<1>23. CASE RecvFails
  BY <1>23 DEF RecvFails
<1>24. CASE UNCHANGED vars
  BY <1>24 DEF vars
<1>. QED
  BY <1>1, <1>2, <1>3, <1>4, <1>5, <1>6, <1>7, <1>8, <1>9, <1>10, <1>11, <1>12, <1>13,
    <1>14, <1>15, <1>16, <1>17, <1>18, <1>19, <1>20, <1>21, <1>22, <1>23, <1>24 DEF
    Next, Command, Transfer

\* Every step keeps the replies apart.
LEMMA RepliesStep == (Replies) /\ [Next]_vars => Replies'
<1> SUFFICES ASSUME Replies, [Next]_vars PROVE Replies'
  OBVIOUS
<1> USE DEF Answer, Resume, EndXfer, Waiting, Downloading, Uploading, Uploads, Replies,
      Await
<1>1. CASE Greet
  BY <1>1 DEF Greet
<1>2. CASE EndSession
  BY <1>2 DEF EndSession
<1>3. CASE Stop
  BY <1>3 DEF Stop
<1>4. CASE Start
  BY <1>4 DEF Start
<1>5. CASE Allo
  BY <1>5 DEF Allo
<1>6. CASE Rest
  BY <1>6 DEF Rest
<1>7. CASE Pasv
  BY <1>7 DEF Pasv
<1>8. CASE Dele
  BY <1>8 DEF Dele
<1>9. CASE Mkd
  BY <1>9 DEF Mkd
<1>10. CASE Rmd
  BY <1>10 DEF Rmd
<1>11. CASE Rnfr
  BY <1>11 DEF Rnfr
<1>12. CASE Rnto
  BY <1>12 DEF Rnto
<1>13. CASE Retr
  BY <1>13 DEF Retr
<1>14. CASE StorFails
  BY <1>14 DEF StorFails
<1>15. CASE Stor
  BY <1>15 DEF Stor
<1>16. CASE DataAccept
  BY <1>16 DEF DataAccept
<1>17. CASE DataAcceptFails
  BY <1>17 DEF DataAcceptFails
<1>18. CASE SendBlock
  BY <1>18 DEF SendBlock
<1>19. CASE SendEnds
  BY <1>19 DEF SendEnds
<1>20. CASE SendFails
  BY <1>20 DEF SendFails
<1>21. CASE RecvBlock
  BY <1>21 DEF RecvBlock
<1>22. CASE RecvEnds
  BY <1>22 DEF RecvEnds
<1>23. CASE RecvFails
  BY <1>23 DEF RecvFails
<1>24. CASE UNCHANGED vars
  BY <1>24 DEF vars
<1>. QED
  BY <1>1, <1>2, <1>3, <1>4, <1>5, <1>6, <1>7, <1>8, <1>9, <1>10, <1>11, <1>12, <1>13,
    <1>14, <1>15, <1>16, <1>17, <1>18, <1>19, <1>20, <1>21, <1>22, <1>23, <1>24 DEF
    Next, Command, Transfer

\* Every step keeps a file that waits for its data connection as it was opened.
LEMMA OpenedStep == (TypeOK /\ Opened) /\ [Next]_vars => Opened'
<1> SUFFICES ASSUME TypeOK, Opened, [Next]_vars PROVE Opened'
  OBVIOUS
<1> USE DEF Answer, Resume, EndXfer, Waiting, Downloading, Uploading, Uploads, TypeOK,
      Opened, IsFile, Before, Await
<1>1. CASE Greet
  BY <1>1 DEF Greet
<1>2. CASE EndSession
  BY <1>2 DEF EndSession
<1>3. CASE Stop
  BY <1>3 DEF Stop
<1>4. CASE Start
  BY <1>4 DEF Start
<1>5. CASE Allo
  BY <1>5 DEF Allo
<1>6. CASE Rest
  BY <1>6 DEF Rest
<1>7. CASE Pasv
  BY <1>7 DEF Pasv
<1>8. CASE Dele
  BY <1>8 DEF Dele
<1>9. CASE Mkd
  BY <1>9 DEF Mkd
<1>10. CASE Rmd
  BY <1>10 DEF Rmd
<1>11. CASE Rnfr
  BY <1>11 DEF Rnfr
<1>12. CASE Rnto
  BY <1>12 DEF Rnto
<1>13. CASE Retr
  BY <1>13 DEF Retr
<1>14. CASE StorFails
  BY <1>14 DEF StorFails
<1>15. CASE Stor
  BY <1>15 DEF Stor
<1>16. CASE DataAccept
  BY <1>16 DEF DataAccept
<1>17. CASE DataAcceptFails
  BY <1>17 DEF DataAcceptFails
<1>18. CASE SendBlock
  BY <1>18 DEF SendBlock
<1>19. CASE SendEnds
  BY <1>19 DEF SendEnds
<1>20. CASE SendFails
  BY <1>20 DEF SendFails
<1>21. CASE RecvBlock
  BY <1>21 DEF RecvBlock
<1>22. CASE RecvEnds
  BY <1>22 DEF RecvEnds
<1>23. CASE RecvFails
  BY <1>23 DEF RecvFails
<1>24. CASE UNCHANGED vars
  BY <1>24 DEF vars
<1>. QED
  BY <1>1, <1>2, <1>3, <1>4, <1>5, <1>6, <1>7, <1>8, <1>9, <1>10, <1>11, <1>12, <1>13,
    <1>14, <1>15, <1>16, <1>17, <1>18, <1>19, <1>20, <1>21, <1>22, <1>23, <1>24 DEF
    Next, Command, Transfer

\* Every step keeps what has been moved.
LEMMA MovingStep == (TypeOK /\ Opened /\ Moving) /\ [Next]_vars => Moving'
<1> SUFFICES ASSUME TypeOK, Opened, Moving, [Next]_vars PROVE Moving'
  OBVIOUS
<1> USE DEF Answer, Resume, EndXfer, Waiting, Downloading, Uploading, Uploads, TypeOK,
      Opened, Moving, Await
<1>1. CASE Greet
  BY <1>1 DEF Greet
<1>2. CASE EndSession
  BY <1>2 DEF EndSession
<1>3. CASE Stop
  BY <1>3 DEF Stop
<1>4. CASE Start
  BY <1>4 DEF Start
<1>5. CASE Allo
  BY <1>5 DEF Allo
<1>6. CASE Rest
  BY <1>6 DEF Rest
<1>7. CASE Pasv
  BY <1>7 DEF Pasv
<1>8. CASE Dele
  BY <1>8 DEF Dele
<1>9. CASE Mkd
  BY <1>9 DEF Mkd
<1>10. CASE Rmd
  BY <1>10 DEF Rmd
<1>11. CASE Rnfr
  BY <1>11 DEF Rnfr
<1>12. CASE Rnto
  BY <1>12 DEF Rnto
<1>13. CASE Retr
  BY <1>13 DEF Retr
<1>14. CASE StorFails
  BY <1>14 DEF StorFails
<1>15. CASE Stor
  BY <1>15 DEF Stor
<1>16. CASE DataAccept
  <2>1. /\ x.moved = <<>> /\ x.op \in {"RETR", "STOR", "APPE"} /\ x.old \in Seq(Block)
        /\ disk[x.path] = (IF x.op = "STOR" THEN <<>> ELSE x.old)
    BY <1>16 DEF DataAccept
  <2>2. /\ x'.moved = <<>> /\ x'.op = x.op /\ x'.path = x.path /\ x'.old = x.old /\ disk' = disk
        /\ x'.off \in Nat /\ (x.op = "APPE" => x'.off = 0)
    BY <1>16, <2>1, AcceptType DEF DataAccept
  <2>3. <<>> \o <<>> = <<>> /\ x.old \o <<>> = x.old
    BY <2>1
  <2>4. SubSeq(x.old, x'.off + 1, x'.off + Len(<<>>)) = <<>>
    BY <2>1, <2>2
  <2>5. x'.op \in Uploads /\ x'.off = 0 =>
          disk'[x'.path] = (IF x'.op = "APPE" THEN x'.old ELSE <<>>) \o x'.moved
    BY <2>1, <2>2, <2>3
  <2>6. x'.op = "RETR" =>
          /\ disk'[x'.path] = x'.old
          /\ x'.moved = SubSeq(x'.old, x'.off + 1, x'.off + Len(x'.moved))
    BY <2>1, <2>2, <2>4
  <2>. QED
    BY <2>2, <2>5, <2>6
<1>17. CASE DataAcceptFails
  BY <1>17 DEF DataAcceptFails
<1>18. CASE SendBlock
  BY <1>18, SendKeeps DEF SendBlock
<1>19. CASE SendEnds
  BY <1>19 DEF SendEnds
<1>20. CASE SendFails
  BY <1>20 DEF SendFails
<1>21. CASE RecvBlock
  BY <1>21, RecvKeeps DEF RecvBlock
<1>22. CASE RecvEnds
  BY <1>22 DEF RecvEnds
<1>23. CASE RecvFails
  BY <1>23 DEF RecvFails
<1>24. CASE UNCHANGED vars
  BY <1>24 DEF vars
<1>. QED
  BY <1>1, <1>2, <1>3, <1>4, <1>5, <1>6, <1>7, <1>8, <1>9, <1>10, <1>11, <1>12, <1>13,
    <1>14, <1>15, <1>16, <1>17, <1>18, <1>19, <1>20, <1>21, <1>22, <1>23, <1>24 DEF
    Next, Command, Transfer

\* Every step keeps what 226 promises.
LEMMA AnswersStep ==
  (TypeOK /\ Replies /\ Moving /\ UploadStored /\ DownloadExact) /\ [Next]_vars =>
    (UploadStored /\ DownloadExact)'
<1> SUFFICES ASSUME TypeOK, Replies, Moving, UploadStored, DownloadExact, [Next]_vars
             PROVE  (UploadStored /\ DownloadExact)'
  OBVIOUS
<1> USE DEF Answer, Resume, EndXfer, Waiting, Downloading, Uploading, Uploads, TypeOK,
      Replies, Moving, UploadStored, DownloadExact, Answered, Await
<1>1. CASE Greet
  BY <1>1 DEF Greet
<1>2. CASE EndSession
  BY <1>2 DEF EndSession
<1>3. CASE Stop
  BY <1>3 DEF Stop
<1>4. CASE Start
  BY <1>4 DEF Start
<1>5. CASE Allo
  BY <1>5 DEF Allo
<1>6. CASE Rest
  BY <1>6 DEF Rest
<1>7. CASE Pasv
  BY <1>7 DEF Pasv
<1>8. CASE Dele
  <2>1. reply' # 226
    BY <1>8 DEF Dele
  <2>. QED
    BY <2>1, Unanswered
<1>9. CASE Mkd
  <2>1. reply' # 226
    BY <1>9 DEF Mkd
  <2>. QED
    BY <2>1, Unanswered
<1>10. CASE Rmd
  <2>1. reply' # 226
    BY <1>10 DEF Rmd
  <2>. QED
    BY <2>1, Unanswered
<1>11. CASE Rnfr
  BY <1>11 DEF Rnfr
<1>12. CASE Rnto
  <2>1. reply' # 226
    BY <1>12 DEF Rnto
  <2>. QED
    BY <2>1, Unanswered
<1>13. CASE Retr
  <2>1. reply' # 226
    BY <1>13 DEF Retr
  <2>. QED
    BY <2>1, Unanswered
<1>14. CASE StorFails
  BY <1>14 DEF StorFails
<1>15. CASE Stor
  <2>1. reply' # 226
    BY <1>15 DEF Stor
  <2>. QED
    BY <2>1, Unanswered
<1>16. CASE DataAccept
  BY <1>16 DEF DataAccept
<1>17. CASE DataAcceptFails
  BY <1>17 DEF DataAcceptFails
<1>18. CASE SendBlock
  BY <1>18 DEF SendBlock
<1>19. CASE SendEnds
  <2>1. UploadStored'
    BY <1>19 DEF SendEnds
  <2>2. ASSUME on PROVE x.moved = SubSeq(x.old, x.off + 1, Len(x.old))
    <3>1. /\ x.moved \in Seq(Block) /\ x.old \in Seq(Block) /\ x.off \in Nat
          /\ x.moved = SubSeq(x.old, x.off + 1, x.off + Len(x.moved))
          /\ x.off + Len(x.moved) >= Len(x.old)
          /\ x.off + Len(x.moved) <= Len(x.old) \/ x.moved = <<>>
      BY <1>19, <2>2 DEF SendEnds, AtEof
    <3>. QED
      BY <3>1, WholeSent
  <2>. QED
    BY <1>19, <2>1, <2>2 DEF SendEnds
<1>20. CASE SendFails
  BY <1>20 DEF SendFails
<1>21. CASE RecvBlock
  BY <1>21 DEF RecvBlock
<1>22. CASE RecvEnds
  BY <1>22 DEF RecvEnds
<1>23. CASE RecvFails
  BY <1>23 DEF RecvFails
<1>24. CASE UNCHANGED vars
  BY <1>24 DEF vars
<1>. QED
  BY <1>1, <1>2, <1>3, <1>4, <1>5, <1>6, <1>7, <1>8, <1>9, <1>10, <1>11, <1>12, <1>13,
    <1>14, <1>15, <1>16, <1>17, <1>18, <1>19, <1>20, <1>21, <1>22, <1>23, <1>24 DEF
    Next, Command, Transfer

\* The initial state satisfies the invariant.
LEMMA SessionInitial == Init => SessionInv
<1> SUFFICES ASSUME Init PROVE SessionInv
  OBVIOUS
<1>1. TypeOK
  <2>1. <<"old", "old">> \in Seq(Block)
    BY DEF Block
  <2>2. disk \in [Paths -> {Absent, Dir} \cup Seq(Block)]
    BY <2>1 DEF Init
  <2>. QED
    BY <2>2 DEF Init, TypeOK, Waiting
<1>2. Replies /\ Opened /\ Moving /\ UploadStored /\ DownloadExact
  BY DEF Init, Replies, Opened, Moving, UploadStored, DownloadExact, Answered, Waiting
<1>. QED
  BY <1>1, <1>2 DEF SessionInv

\* The invariant holds in every reachable state.
THEOREM SessionInvariance == Spec => []SessionInv
<1>1. SessionInv /\ [Next]_vars => SessionInv'
  BY TypeStep, RepliesStep, OpenedStep, MovingStep, AnswersStep DEF SessionInv
<1>. QED
  BY SessionInitial, <1>1, PTL DEF Spec

-----------------------------------------------------------------------------
(* What follows for the code.                                              *)

\* No command, transfer or new client (fcli) leaves the files or the session's globals
\* outside their types: a path is absent, a directory or a file, and no offset is negative.
THEOREM SessionTypeCorrect == Spec => []TypeOK
<1>1. SessionInv => TypeOK
  BY DEF SessionInv
<1>. QED
  BY <1>1, SessionInvariance, PTL

\* "226 Transfer complete" after STOR or APPE without REST: the file holds what was received,
\* behind its old content for APPE, and nothing else, for files of any length (fcli).
THEOREM UploadIsStored == Spec => []UploadStored
<1>1. SessionInv => UploadStored
  BY DEF SessionInv
<1>. QED
  BY <1>1, SessionInvariance, PTL

\* 226 after RETR, unless ftp_stop cut it short: the client has the file from the REST offset
\* to its end, whatever earlier commands and sessions left behind (fcli).
THEOREM DownloadIsExact == Spec => []DownloadExact
<1>1. SessionInv => DownloadExact
  BY DEF SessionInv
<1>. QED
  BY <1>1, SessionInvariance, PTL
=============================================================================
