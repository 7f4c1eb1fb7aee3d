------------------------------ MODULE FtpServer ------------------------------
(***************************************************************************)
(* The life of the FTP server of source/main.c: the UI thread that starts  *)
(* and stops it (ftp_start, ftp_stop), the one server thread (fserve, and  *)
(* fcli, which it calls for each client), and the descriptor table both    *)
(* share with every other thread of the process.                           *)
(*                                                                         *)
(* The two threads share ftp_on and four descriptor numbers (ftp_srv,      *)
(* ftp_cli_fd, ftp_data, ftp_xfer_fd) without a lock.  ftp_stop wakes the  *)
(* server thread by shutting down and closing whatever numbers it finds    *)
(* there; the thread closes the same numbers again on its way out.  A step *)
(* is one access to shared state together with the system call it feeds;   *)
(* a test of ftp_on and the blocking call that follows it are one step.    *)
(***************************************************************************)
EXTENDS Naturals, Sequences, FiniteSets

CONSTANTS Fds,          \* descriptor numbers of the process
          NoFd,         \* -1
          Clients,      \* peers that may open a control connection
          MaxHeld,      \* bound: descriptors other threads hold at one time
          MaxBacklog    \* FTP_MAXCL, the backlog given to listen()

ASSUME NoFdAssumption == NoFd \notin Fds
ASSUME BoundsAssumption == MaxHeld \in Nat /\ MaxBacklog \in Nat

Slots    == {"srv", "cli", "data", "xfer"}
Kinds    == Slots \cup {"free", "foreign"}
DataCmds == {"LIST", "RETR", "STOR"}

VARIABLES
  on,       \* ftp_on
  pub,      \* pub[s]: ftp_srv, ftp_cli_fd, ftp_data, ftp_xfer_fd
  tab,      \* tab[f]: what descriptor f refers to
  held,     \* numbers other threads of the process believe they own
  stray,    \* FTP code has closed a descriptor of another thread (history)
  thr,      \* ftp_thr: "open" between threadCreate and threadClose
  ui,       \* where the UI thread is in ftp_start or ftp_stop
  slot,     \* which of the four numbers ftp_stop is at
  snap,     \* ftp_stop's local copy of that number
  pc,       \* where the server thread is; "none": there is no thread
  cfd,      \* fcli's fd
  dfd,      \* the listener accept() was called on, then fcli's df
  op,       \* the data command under way
  backlog   \* connected control clients accept() has not returned yet

uiVars   == <<thr, ui, slot, snap>>
srvVars  == <<pc, cfd, dfd, op>>
fdVars   == <<tab, held, stray>>
vars     == <<on, pub, fdVars, uiVars, srvVars, backlog>>

TypeOK ==
  /\ on \in BOOLEAN
  /\ pub \in [Slots -> Fds \cup {NoFd}]
  /\ tab \in [Fds -> Kinds]
  /\ held \in SUBSET Fds
  /\ stray \in BOOLEAN
  /\ thr \in {"open", "closed"}
  /\ ui \in {"idle", "sleep", "read", "close", "clear", "join"}
  /\ slot \in Slots
  /\ snap \in Fds \cup {NoFd}
  /\ pc \in {"none", "boot", "bind", "loop", "accept", "pubcli", "greet", "top",
             "recv", "reply", "pasvclose", "pasvsock", "pasvbind", "pasvclear", "daccept",
             "dclose", "dclear", "xpub", "mark", "xloop", "xfer", "xclose", "xclear",
             "enddata", "endclear", "endcli", "endpub", "fin", "finclear", "off"}
  /\ cfd \in Fds \cup {NoFd}
  /\ dfd \in Fds \cup {NoFd}
  /\ op \in DataCmds
  /\ backlog \in Seq(Clients) /\ Len(backlog) <= MaxBacklog

Init ==
  /\ on = FALSE
  /\ pub = [s \in Slots |-> NoFd]
  /\ tab = [f \in Fds |-> "free"]
  /\ held = {}
  /\ stray = FALSE
  /\ thr = "closed"
  /\ ui = "idle"
  /\ slot = "srv"
  /\ snap = NoFd
  /\ pc = "none"
  /\ cfd = NoFd
  /\ dfd = NoFd
  /\ op = "LIST"
  /\ backlog = <<>>

Open(f, kind) == f \in Fds /\ tab[f] = kind

-----------------------------------------------------------------------------
(* The descriptor table.  Numbers are handed out again as soon as they are *)
(* closed; closing a number that is not open fails and changes nothing.    *)

Alloc(f, kind) ==
  /\ tab[f] = "free"
  /\ tab' = [tab EXCEPT ![f] = kind]
  /\ UNCHANGED <<held, stray>>

TableFull == \A f \in Fds : tab[f] # "free"

\* close() by FTP code.  Connections waiting on a listener die with it.
CloseFd(f) ==
  /\ tab' = [g \in Fds |-> IF g = f THEN "free" ELSE tab[g]]
  /\ stray' = (stray \/ Open(f, "foreign"))
  /\ backlog' = IF Open(f, "srv") THEN <<>> ELSE backlog
  /\ UNCHANGED held

\* Another thread (network test, file browser, antiban check) opens a socket or
\* a file, and later closes the number it was given.
ForeignOpen ==
  \E f \in Fds \ held :
    /\ Cardinality(held) < MaxHeld
    /\ tab[f] = "free"
    /\ tab' = [tab EXCEPT ![f] = "foreign"]
    /\ held' = held \cup {f}
    /\ UNCHANGED <<on, pub, stray, uiVars, srvVars, backlog>>

ForeignClose ==
  \E f \in held :
    /\ held' = held \ {f}
    /\ tab' = [tab EXCEPT ![f] = "free"]
    /\ backlog' = IF Open(f, "srv") THEN <<>> ELSE backlog
    /\ UNCHANGED <<on, pub, stray, uiVars, srvVars>>

-----------------------------------------------------------------------------
(* The UI thread.                                                          *)

\* ftp_start when threadCreate and threadStart succeed: it then sleeps 500 ms.
Start ==
  /\ ui = "idle" /\ ~on
  /\ on' = TRUE
  /\ pub' = [pub EXCEPT !["cli"] = NoFd, !["xfer"] = NoFd]
  /\ thr' = "open"
  /\ ui' = "sleep"
  /\ pc' = "boot"
  /\ UNCHANGED <<fdVars, slot, snap, cfd, dfd, op, backlog>>

\* ftp_start when threadCreate fails (ftp_thr is left as it was) or threadStart
\* fails (the new handle is closed).
StartFails ==
  /\ ui = "idle" /\ ~on
  /\ pub' = [pub EXCEPT !["cli"] = NoFd, !["xfer"] = NoFd]
  /\ thr' \in {thr, "closed"}
  /\ UNCHANGED <<on, fdVars, ui, slot, snap, srvVars, backlog>>

StartReturns ==
  /\ ui = "sleep"
  /\ ui' = "idle"
  /\ UNCHANGED <<on, pub, fdVars, thr, slot, snap, srvVars, backlog>>

Stop ==
  /\ ui = "idle" /\ on
  /\ on' = FALSE
  /\ ui' = "read"
  /\ slot' = "srv"
  /\ UNCHANGED <<pub, fdVars, thr, snap, srvVars, backlog>>

\* Mutant: the transfer socket is forgotten.
AdvanceShort ==
  \/ slot = "srv"  /\ slot' = "cli"  /\ ui' = "read"
  \/ slot = "cli"  /\ slot' = "data" /\ ui' = "read"
  \/ slot = "data" /\ slot' = slot   /\ ui' = "join"

\* The next number ftp_stop looks at, after the last one threadWaitForExit.
Advance ==
  \/ slot = "srv"  /\ slot' = "cli"  /\ ui' = "read"
  \/ slot = "cli"  /\ slot' = "data" /\ ui' = "read"
  \/ slot = "data" /\ slot' = "xfer" /\ ui' = "read"
  \/ slot = "xfer" /\ slot' = slot   /\ ui' = "join"

StopRead ==
  /\ ui = "read"
  /\ snap' = pub[slot]
  /\ IF pub[slot] = NoFd THEN Advance ELSE ui' = "close" /\ slot' = slot
  /\ UNCHANGED <<on, pub, fdVars, thr, srvVars, backlog>>

\* shutdown and close: of the local copy, except ftp_srv, which is read again.
StopClose ==
  /\ ui = "close"
  /\ CloseFd(IF slot = "srv" THEN pub["srv"] ELSE snap)
  /\ ui' = "clear"
  /\ UNCHANGED <<on, pub, thr, slot, snap, srvVars>>

StopClear ==
  /\ ui = "clear"
  /\ pub' = [pub EXCEPT ![slot] = NoFd]
  /\ Advance
  /\ UNCHANGED <<on, fdVars, thr, snap, srvVars, backlog>>

\* Mutant: ftp_stop does not wait for the thread.
StopNoJoin ==
  /\ ui = "join"
  /\ ui' = "idle"
  /\ thr' = "closed"
  /\ UNCHANGED <<on, pub, fdVars, slot, snap, srvVars, backlog>>

\* threadWaitForExit returns, threadClose.
StopJoin ==
  /\ ui = "join" /\ pc = "none"
  /\ ui' = "idle"
  /\ thr' = "closed"
  /\ UNCHANGED <<on, pub, fdVars, slot, snap, srvVars, backlog>>

UI == Start \/ StartFails \/ StartReturns \/ Stop \/ StopRead \/ StopClose
        \/ StopClear \/ StopJoin

-----------------------------------------------------------------------------
(* The server thread: fserve.                                              *)

Goto(from, to) == pc = from /\ pc' = to
Keep(v) == UNCHANGED <<uiVars, v>>

\* socket(); on failure ftp_srv is -1 and fserve gives up.
Boot ==
  /\ \/ /\ Goto("boot", "bind")
        /\ \E f \in Fds : Alloc(f, "srv") /\ pub' = [pub EXCEPT !["srv"] = f]
     \/ /\ Goto("boot", "off")
        /\ pub' = [pub EXCEPT !["srv"] = NoFd]
        /\ UNCHANGED fdVars
  /\ Keep(<<on, cfd, dfd, op, backlog>>)

\* bind() and listen(); they can only succeed on the socket just made.
Bind ==
  /\ Goto("bind", "loop")
  /\ Open(pub["srv"], "srv")
  /\ Keep(<<on, pub, fdVars, cfd, dfd, op, backlog>>)

BindFails ==
  /\ Goto("bind", "finclear")
  /\ CloseFd(pub["srv"])
  /\ Keep(<<on, pub, cfd, dfd, op>>)

Loop ==
  /\ Goto("loop", IF on THEN "accept" ELSE "fin")
  /\ Keep(<<on, pub, fdVars, cfd, dfd, op, backlog>>)

Listening == \E f \in Fds : tab[f] = "srv"

Accept ==
  /\ Goto("accept", "pubcli")
  /\ Listening /\ backlog # <<>>
  /\ backlog' = Tail(backlog)
  /\ \E f \in Fds : Alloc(f, "cli") /\ cfd' = f
  /\ Keep(<<on, pub, dfd, op>>)

AcceptFails ==
  /\ ~Listening \/ (backlog # <<>> /\ TableFull)
  /\ Goto("accept", IF on THEN "loop" ELSE "fin")
  /\ Keep(<<on, pub, fdVars, cfd, dfd, op, backlog>>)

\* The end of fserve: close the listener, unless ftp_stop has cleared it.
Finish ==
  /\ Goto("fin", "finclear")
  /\ pub["srv"] # NoFd
  /\ CloseFd(pub["srv"])
  /\ Keep(<<on, pub, cfd, dfd, op>>)

FinishBare ==
  /\ Goto("fin", "off")
  /\ pub["srv"] = NoFd
  /\ Keep(<<on, pub, fdVars, cfd, dfd, op, backlog>>)

FinishClear ==
  /\ Goto("finclear", "off")
  /\ pub' = [pub EXCEPT !["srv"] = NoFd]
  /\ Keep(<<on, fdVars, cfd, dfd, op, backlog>>)

\* The last store of fserve, on every path.
Off ==
  /\ Goto("off", "none")
  /\ on' = FALSE
  /\ Keep(<<pub, fdVars, cfd, dfd, op, backlog>>)

Fserve == Boot \/ Bind \/ BindFails \/ Loop \/ Accept \/ AcceptFails \/ Finish
            \/ FinishBare \/ FinishClear \/ Off

-----------------------------------------------------------------------------
(* The server thread: fcli, one control session.                           *)

PublishClient ==
  /\ Goto("pubcli", "greet")
  /\ pub' = [pub EXCEPT !["cli"] = cfd]
  /\ Keep(<<on, fdVars, cfd, dfd, op, backlog>>)

\* The 220 banner, and the per-session state fcli resets after it.
Greet ==
  /\ Goto("greet", "top")
  /\ Open(cfd, "cli")
  /\ pub' = [pub EXCEPT !["data"] = NoFd]
  /\ Keep(<<on, fdVars, cfd, dfd, op, backlog>>)

GreetFails ==
  /\ Goto("greet", "endcli")
  /\ Keep(<<on, pub, fdVars, cfd, dfd, op, backlog>>)

Top ==
  /\ Goto("top", IF on THEN "recv" ELSE "enddata")
  /\ Keep(<<on, pub, fdVars, cfd, dfd, op, backlog>>)

\* Mutant: no SO_RCVTIMEO on the control socket.
RecvNeverTimesOut ==
  /\ Goto("recv", "enddata")
  /\ ~Open(cfd, "cli")
  /\ Keep(<<on, pub, fdVars, cfd, dfd, op, backlog>>)

\* The client disconnects, or 4 s pass without a byte (SO_RCVTIMEO), or
\* ftp_stop has closed the socket.
RecvEnds ==
  /\ Goto("recv", "enddata")
  /\ Keep(<<on, pub, fdVars, cfd, dfd, op, backlog>>)

\* A command line, as many of them as the client likes: an answer is due, and data
\* commands refused with 450, 550 or 425 are among those.  An empty line, or a byte
\* of a line that is not complete, only takes the thread back to a test of ftp_on
\* and gives the client 4 s more.
Command ==
  /\ pc = "recv" /\ Open(cfd, "cli")
  /\ pc' \in {"top", "reply", "pasvclose"}
  /\ Keep(<<on, pub, fdVars, cfd, dfd, op, backlog>>)

\* send() of an answer has no timeout: it waits for a client that does not read.  The
\* session is over after QUIT, and after some answers that could not be sent.
Reply ==
  /\ Open(cfd, "cli")
  /\ \/ pc = "reply" /\ pc' \in {"top", "enddata"}
     \/ Goto("mark", "xloop")
  /\ Keep(<<on, pub, fdVars, cfd, dfd, op, backlog>>)

\* It fails on a descriptor that is no longer the connection.
ReplyFails ==
  /\ ~Open(cfd, "cli")
  /\ \/ pc = "reply" /\ pc' \in {"top", "enddata"}
     \/ Goto("mark", "xloop")
  /\ Keep(<<on, pub, fdVars, cfd, dfd, op, backlog>>)

\* LIST, RETR or STOR with a data listener: accept() on it, without a timeout.
DataCommand ==
  /\ Goto("recv", "daccept")
  /\ Open(cfd, "cli")
  /\ pub["data"] # NoFd
  /\ dfd' = pub["data"]
  /\ op' \in DataCmds
  /\ Keep(<<on, pub, fdVars, cfd, backlog>>)

\* Mutant: PASV does not close the listener of an earlier PASV.
PasvCloseNot ==
  /\ Goto("pasvclose", "pasvsock")
  /\ Keep(<<on, pub, fdVars, cfd, dfd, op, backlog>>)

\* PASV and EPSV: close the old listener, make a new one, bind it.
PasvClose ==
  /\ Goto("pasvclose", "pasvsock")
  /\ CloseFd(pub["data"])
  /\ Keep(<<on, pub, cfd, dfd, op>>)

PasvSocket ==
  /\ \/ /\ Goto("pasvsock", "pasvbind")
        /\ \E f \in Fds : Alloc(f, "data") /\ pub' = [pub EXCEPT !["data"] = f]
     \/ /\ Goto("pasvsock", "reply")
        /\ pub' = [pub EXCEPT !["data"] = NoFd]
        /\ UNCHANGED fdVars
  /\ Keep(<<on, cfd, dfd, op, backlog>>)

PasvBind ==
  /\ Goto("pasvbind", "reply")
  /\ Open(pub["data"], "data")
  /\ Keep(<<on, pub, fdVars, cfd, dfd, op, backlog>>)

PasvBindFails ==
  /\ Goto("pasvbind", "pasvclear")
  /\ CloseFd(pub["data"])
  /\ Keep(<<on, pub, cfd, dfd, op>>)

PasvClear ==
  /\ Goto("pasvclear", "reply")
  /\ pub' = [pub EXCEPT !["data"] = NoFd]
  /\ Keep(<<on, fdVars, cfd, dfd, op, backlog>>)

\* accept() on the data listener returns when the client connects, ...
DataAccept ==
  /\ Goto("daccept", "dclose")
  /\ Open(dfd, "data")
  /\ \E f \in Fds : Alloc(f, "xfer") /\ dfd' = f
  /\ Keep(<<on, pub, cfd, op, backlog>>)

\* ... or fails (425) when the listener is closed or no number is free.
DataAcceptFails ==
  /\ Goto("daccept", "reply")
  /\ ~Open(dfd, "data") \/ TableFull
  /\ dfd' = NoFd
  /\ Keep(<<on, pub, fdVars, cfd, op, backlog>>)

DataClose ==
  /\ Goto("dclose", "dclear")
  /\ CloseFd(pub["data"])
  /\ Keep(<<on, pub, cfd, dfd, op>>)

\* Mutant: ftp_data keeps the number of the closed listener.
DataClearNot ==
  /\ Goto("dclear", "xpub")
  /\ Keep(<<on, pub, fdVars, cfd, dfd, op, backlog>>)

DataClear ==
  /\ Goto("dclear", "xpub")
  /\ pub' = [pub EXCEPT !["data"] = NoFd]
  /\ Keep(<<on, fdVars, cfd, dfd, op, backlog>>)

\* ftp_xfer_fd is published, then the answer 150 is due.
PublishXfer ==
  /\ Goto("xpub", "mark")
  /\ pub' = [pub EXCEPT !["xfer"] = dfd]
  /\ Keep(<<on, fdVars, cfd, dfd, op, backlog>>)

\* RETR and STOR test ftp_on before every block, the listings never do.
XferLoop ==
  /\ Goto("xloop", IF on \/ op = "LIST" THEN "xfer" ELSE "xclose")
  /\ Keep(<<on, pub, fdVars, cfd, dfd, op, backlog>>)

\* The client takes or supplies a block.
XferBlock ==
  /\ Goto("xfer", "xloop")
  /\ Open(dfd, "xfer")
  /\ Keep(<<on, pub, fdVars, cfd, dfd, op, backlog>>)

\* The transfer is complete, or the client drops the connection.
XferDone ==
  /\ Goto("xfer", "xclose")
  /\ Open(dfd, "xfer")
  /\ Keep(<<on, pub, fdVars, cfd, dfd, op, backlog>>)

\* send() or recv() fails on a descriptor that is no longer the connection.
XferFails ==
  /\ Goto("xfer", "xclose")
  /\ ~Open(dfd, "xfer")
  /\ Keep(<<on, pub, fdVars, cfd, dfd, op, backlog>>)

XferClose ==
  /\ Goto("xclose", "xclear")
  /\ CloseFd(dfd)
  /\ Keep(<<on, pub, cfd, dfd, op>>)

XferClear ==
  /\ Goto("xclear", "reply")
  /\ pub' = [pub EXCEPT !["xfer"] = NoFd]
  /\ dfd' = NoFd
  /\ Keep(<<on, fdVars, cfd, op, backlog>>)

\* The end of fcli: the listener, if there is one, then the control socket.
EndData ==
  /\ Goto("enddata", "endclear")
  /\ pub["data"] # NoFd
  /\ CloseFd(pub["data"])
  /\ Keep(<<on, pub, cfd, dfd, op>>)

EndBare ==
  /\ Goto("enddata", "endcli")
  /\ pub["data"] = NoFd
  /\ Keep(<<on, pub, fdVars, cfd, dfd, op, backlog>>)

EndClear ==
  /\ Goto("endclear", "endcli")
  /\ pub' = [pub EXCEPT !["data"] = NoFd]
  /\ Keep(<<on, fdVars, cfd, dfd, op, backlog>>)

EndClient ==
  /\ Goto("endcli", "endpub")
  /\ CloseFd(cfd)
  /\ Keep(<<on, pub, cfd, dfd, op>>)

EndPublish ==
  /\ Goto("endpub", "loop")
  /\ pub' = [pub EXCEPT !["cli"] = NoFd]
  /\ cfd' = NoFd
  /\ Keep(<<on, fdVars, dfd, op, backlog>>)

Session == PublishClient \/ Greet \/ GreetFails \/ Top \/ RecvEnds \/ Command \/ Reply \/ ReplyFails
Pasv == PasvClose \/ PasvSocket \/ PasvBind \/ PasvBindFails \/ PasvClear
DataPhase == DataCommand \/ DataAccept \/ DataAcceptFails \/ DataClose \/ DataClear
               \/ PublishXfer \/ XferLoop \/ XferBlock \/ XferDone \/ XferFails
               \/ XferClose \/ XferClear
SessionEnd == EndData \/ EndBare \/ EndClear \/ EndClient \/ EndPublish
Server == Fserve \/ Session \/ Pasv \/ DataPhase \/ SessionEnd

\* A peer completes a TCP connect to the control port.
Connect ==
  \E c \in Clients :
    /\ Listening /\ pc \notin {"boot", "bind"}
    /\ Len(backlog) < MaxBacklog
    /\ \A i \in 1..Len(backlog) : backlog[i] # c
    /\ backlog' = Append(backlog, c)
    /\ UNCHANGED <<on, pub, fdVars, uiVars, srvVars>>

Next == UI \/ Server \/ Connect \/ ForeignOpen \/ ForeignClose

-----------------------------------------------------------------------------
(* Safety.                                                                 *)

\* ftp_start only ever runs when the previous server thread is gone: ftp_on is
\* the one thing it looks at (line 4303), so fserve must not clear ftp_on, nor
\* ftp_stop return, while the thread can still touch the shared numbers.
StartFindsNoThread == ui = "idle" /\ ~on => pc = "none"

\* The server as the UI thread sees it.
FtpService == INSTANCE Service WITH
  asked <- on, waits <- ui \in {"read", "close", "clear", "join"},
  worker <- pc # "none", holds <- \E f \in Fds : tab[f] \in {"srv", "cli", "xfer"}

\* The server keeps the promises of a service (ftp_start, ftp_stop, fserve): one thread
\* at a time, a stop that waits for it, no control or transfer socket and no control
\* listener held when it is gone, however it came to its end.
IsService == FtpService!ServiceSpec

\* Between two servers every published number is -1, whatever order ftp_stop and
\* the thread closed and cleared them in: the next ftp_stop, or the next PASV,
\* would otherwise close a number that belongs to somebody else by then.
QuiescentNumbers == pc = "none" /\ ui \in {"idle", "sleep"} => \A s \in Slots : pub[s] = NoFd

\* ftp_stop joins a thread whose handle is open, never one already closed.
JoinHasHandle == ui = "join" => thr = "open"

\* While the server is on, a thread blocked in a system call is blocked on a
\* number ftp_stop can find.
BlockedIsPublished ==
  on => /\ pc = "recv"    => pub["cli"] = cfd
        /\ pc = "daccept" => pub["data"] = dfd
        /\ pc = "xfer"    => pub["xfer"] = dfd
        /\ pc \in {"reply", "mark"} => pub["cli"] = cfd

\* When ftp_stop starts to wait (line 4365) the thread is not asleep on a socket
\* nobody will touch again: it has been woken, or its socket is closed.  The
\* exception is a listing ftp_stop missed: accept() returned but ftp_xfer_fd was still
\* -1 when ftp_stop looked there, and the listing loops do not test ftp_on, so they
\* send to that socket for as long as the client stalls.
MissedListing ==
  /\ ui = "join" /\ slot = "xfer" /\ snap = NoFd
  /\ pc = "xfer" /\ op = "LIST" /\ Open(dfd, "xfer")
JoinWakes ==
  ui = "join" =>
    /\ pc = "accept"  => ~Listening
    /\ pc \in {"recv", "reply", "mark"} => ~Open(cfd, "cli")
    /\ pc = "daccept" => ~Open(dfd, "data")
    /\ pc = "xfer"    => MissedListing \/ ~Open(dfd, "xfer")

\* No control or transfer socket, and no control listener, outlives its server.
NoSocketLeft ==
  pc = "none" => \A f \in Fds : tab[f] \notin {"srv", "cli", "xfer"}

\* A descriptor of another thread is only ever hit by the double close of a
\* stop (lines 4339-4363 against 4245-4246): the first stray close comes while
\* ftp_on is 0.  With the server on, both threads close only what they own.
StrayOnlyInStop == [][~stray /\ stray' => ~on]_vars

\* A live descriptor is forgotten (its number overwritten while it is open) in
\* one case only: ftp_stop clears ftp_data, having closed the listener of an
\* earlier PASV, just after the PASV under way published the next listener.
ForgottenOnlyInStop ==
  [][\A s \in Slots, f \in Fds :
       pub[s] = f /\ tab[f] = s /\ tab'[f] = s /\ pub'[s] # f
         => /\ s = "data" /\ ui = "clear" /\ slot = "data"
            /\ pc \in {"pasvbind", "reply", "top", "enddata"}]_vars

-----------------------------------------------------------------------------
(* Liveness.                                                               *)

\* What the scheduler and the kernel see to: a thread that can run runs, a call
\* on a closed descriptor fails, recv() on the control socket times out when nothing
\* comes, and a waiting connection is accepted.  No client has to send, read, connect
\* or stop sending.
ServerProgress ==
  Fserve \/ PublishClient \/ Greet \/ GreetFails \/ Top \/ RecvEnds \/ ReplyFails \/ Pasv
    \/ DataAcceptFails \/ DataClose \/ DataClear \/ PublishXfer \/ XferLoop
    \/ XferFails \/ XferClose \/ XferClear \/ SessionEnd
StopProgress == StartReturns \/ StopRead \/ StopClose \/ StopClear \/ StopJoin

Spec == Init /\ [][Next]_vars
FairSpec == Spec /\ WF_vars(ServerProgress) /\ WF_vars(StopProgress)

\* ftp_stop returns, whatever clients do and whatever the thread was at, a listing
\* under way included; it may wait for ever only for a listing it missed.
StopReturns == ui = "read" ~> (ui = "idle" \/ MissedListing)

\* A client whose connection is waiting gets its turn (it leaves the backlog,
\* served or dropped with the listener).  Line 3787: "Without an idle timeout, a
\* client that connected and then stopped sending commands can hold that thread
\* forever; later clients complete TCP connect but sit waiting for a 220 greeting
\* until their own timeout expires."
Waiting(c) == \E i \in 1..Len(backlog) : backlog[i] = c
QueuedGreeted == \A c \in Clients : Waiting(c) ~> ~Waiting(c)

\* The clients before it may keep it waiting in two ways, both the code's: one that
\* has the thread wait for it (it never makes or feeds a data connection, takes a
\* transfer without end, or does not read the answers: send() has no timeout), and
\* one that never falls silent (commands, empty lines or single bytes for ever, each
\* within 4 s of the last, in one session).
ThreadHeld   == pc \in {"reply", "mark", "daccept", "xloop", "xfer"}
TalksForever == []<>(pc = "top") /\ <>[](pc \notin {"loop", "none"})
ClientsYield == []<>~ThreadHeld /\ ~TalksForever /\ <>[]~TableFull

\* When clients do neither, whoever waits is greeted: silence is enough, since the
\* control connection has a timeout.
QueuedGreetedIfClientsYield == ClientsYield => QueuedGreeted
=============================================================================
