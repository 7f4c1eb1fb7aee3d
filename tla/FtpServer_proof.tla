--------------------------- MODULE FtpServer_proof ---------------------------
(***************************************************************************)
(* The safety of FtpServer for any descriptor table, any clients and any   *)
(* bounds.  The inductive invariant is built in three layers, each proved  *)
(* inductive relative to the ones before it: who may run (Control), which  *)
(* published number is whose (Numbers), and what a stop has already closed *)
(* (Woken).  Owned, on top of them, says what the numbers refer to as long *)
(* as no double close has hit another thread's descriptor; Closed, what is *)
(* left open of a kind whose number is about to be reset.                  *)
(***************************************************************************)
EXTENDS FtpServer, TLAPS

Stopping == ui \in {"read", "close", "clear", "join"}

\* ftp_stop and the server thread exclude a second ftp_start.
Control ==
  /\ on => ui \in {"idle", "sleep"}
  /\ on => pc # "none"
  /\ ui \in {"idle", "sleep"} /\ ~on => pc = "none"
  /\ on \/ Stopping => thr = "open"

\* ftp_stop has dealt with number s (Passed), or has at least closed it (Handled).
Passed(s) ==
  \/ ui = "join"
  \/ /\ Stopping
     /\ \/ s = "srv" /\ slot # "srv"
        \/ s = "cli" /\ slot \in {"data", "xfer"}
        \/ s = "data" /\ slot = "xfer"
Handled(s) == Passed(s) \/ (ui = "clear" /\ slot = s)

\* Program points of the thread: outside a client session, with a client whose
\* number is published, and with a data connection.
NoSession   == {"none", "boot", "bind", "loop", "accept", "fin", "finclear", "off"}
Published   == {"greet", "top", "recv", "reply", "mark", "pasvclose", "pasvsock", "pasvbind", "pasvclear",
                "daccept", "dclose", "dclear", "xpub", "xloop", "xfer", "xclose",
                "xclear", "enddata", "endclear", "endcli", "endpub"}
InTransfer  == {"dclose", "dclear", "xpub", "mark", "xloop", "xfer", "xclose"}
XferShown   == {"mark", "xloop", "xfer", "xclose", "xclear"}

Numbers ==
  /\ pc \in {"none", "boot", "off"} => pub["srv"] = NoFd
  /\ pc \in NoSession \cup {"pubcli"} => pub["cli"] = NoFd
  /\ pc \in NoSession \cup {"pubcli", "greet", "endcli", "endpub"} => pub["data"] = NoFd
  /\ pc \notin XferShown => pub["xfer"] = NoFd
  /\ pc \in Published => pub["cli"] = cfd \/ Passed("cli")
  /\ pc \in Published \cup {"pubcli"} => cfd # NoFd
  /\ pc \in InTransfer \cup {"daccept", "xclear"} => dfd # NoFd
  /\ pc = "daccept" => pub["data"] = dfd \/ Passed("data")
  /\ pc \in XferShown => pub["xfer"] = dfd \/ Passed("xfer")
  /\ ui \in {"close", "clear"} /\ slot = "srv" => pc # "boot"

\* The kind of a descriptor says which variable holds its number.
Kept ==
  /\ \A f \in Fds : tab[f] = "srv"  => f = pub["srv"] /\ pc # "finclear"
                                         /\ ~(ui = "clear" /\ slot = "srv")
  /\ \A f \in Fds : tab[f] = "cli"  => f = cfd /\ pc \in (Published \ {"endpub"}) \cup {"pubcli"}
  /\ \A f \in Fds : tab[f] = "xfer" => f = dfd /\ pc \in InTransfer

\* Program points between a command and the next test of ftp_on, those before a data
\* connection is published, and those where it is in use.
InCommand  == {"recv", "reply", "mark", "pasvclose", "pasvsock", "pasvbind", "pasvclear",
               "daccept", "dclose", "dclear", "xpub", "xloop", "xfer", "xclose", "xclear"}
BeforeXfer == {"daccept", "dclose", "dclear", "xpub"}
InXfer     == {"mark", "xloop", "xfer"}

\* ftp_stop has found a number in ftp_xfer_fd, and has closed it.
FoundXfer  == slot = "xfer" /\ (ui \in {"close", "clear"} \/ (ui = "join" /\ snap # NoFd))
ClosedXfer == slot = "xfer" /\ (ui = "clear" \/ (ui = "join" /\ snap # NoFd))

\* What ftp_stop has closed by the time it reaches each number.  A listing may go on only
\* where it found no number to close.
Woken ==
  /\ ui = "join" => slot = "xfer"
  /\ pc = "accept" /\ Handled("srv") => ~Listening
  /\ pc \in InCommand /\ Handled("cli") => ~Open(cfd, "cli")
  /\ pc \in InCommand /\ ui = "close" /\ slot = "cli" => snap = cfd
  /\ pc = "daccept" /\ Handled("data") => ~Open(dfd, "data")
  /\ pc = "daccept" /\ ui = "close" /\ slot = "data" => snap = dfd
  /\ pc \in InXfer /\ ui = "close" /\ slot = "xfer" => snap = dfd
  /\ pc = "xfer" /\ op # "LIST" /\ Handled("xfer") => ~Open(dfd, "xfer")
  /\ FoundXfer => pc \notin BeforeXfer
  /\ ClosedXfer /\ pc \in InXfer => ~Open(dfd, "xfer")

\* Until the first stray close, other threads own exactly the foreign numbers, and
\* while the server is on every number FTP code holds refers to its own socket.
Owned ==
  ~stray =>
    /\ \A f \in Fds : f \in held <=> tab[f] = "foreign"
    /\ on =>
       /\ pub["srv"] # NoFd /\ pc # "finclear" => tab[pub["srv"]] = "srv"
       /\ pc \in (Published \ {"endpub"}) \cup {"pubcli"} => tab[cfd] = "cli"
       /\ pub["data"] # NoFd /\ pc \notin {"pasvsock", "pasvclear", "dclear", "endclear"}
            => tab[pub["data"]] = "data"
       /\ pc \in InTransfer => tab[dfd] = "xfer"
-----------------------------------------------------------------------------
(* Typing.                                                                 *)

\* Every step keeps the types.
LEMMA TypeStep == TypeOK /\ [Next]_vars => TypeOK'
<1> SUFFICES ASSUME TypeOK, [Next]_vars PROVE TypeOK'
  OBVIOUS
<1> USE NoFdAssumption, BoundsAssumption DEF vars, uiVars, srvVars, fdVars, Goto, Keep, Alloc,
  CloseFd, Open, Advance, TypeOK, Slots, Kinds, DataCmds
<1>1. CASE Start
  BY <1>1 DEF Start
<1>2. CASE StartFails
  BY <1>2 DEF StartFails
<1>3. CASE StartReturns
  BY <1>3 DEF StartReturns
<1>4. CASE Stop
  <2>1. on' = FALSE
    BY <1>4 DEF Stop
  <2>2. on' \in BOOLEAN
    BY <2>1
  <2>. QED
    BY <1>4, <2>2 DEF Stop
<1>5. CASE StopRead
  BY <1>5 DEF StopRead
<1>6. CASE StopClose
  BY <1>6 DEF StopClose
<1>7. CASE StopClear
  BY <1>7 DEF StopClear
<1>8. CASE StopJoin
  BY <1>8 DEF StopJoin
<1>9. CASE Boot
  BY <1>9 DEF Boot
<1>10. CASE Bind
  BY <1>10 DEF Bind
<1>11. CASE BindFails
  BY <1>11 DEF BindFails
<1>12. CASE Loop
  BY <1>12 DEF Loop
<1>13. CASE Accept
  BY <1>13 DEF Accept
<1>14. CASE AcceptFails
  BY <1>14 DEF AcceptFails
<1>15. CASE Finish
  BY <1>15 DEF Finish
<1>16. CASE FinishBare
  BY <1>16 DEF FinishBare
<1>17. CASE FinishClear
  BY <1>17 DEF FinishClear
<1>18. CASE Off
  <2>1. on' = FALSE
    BY <1>18 DEF Off
  <2>2. on' \in BOOLEAN
    BY <2>1
  <2>. QED
    BY <1>18, <2>2 DEF Off
<1>19. CASE PublishClient
  BY <1>19 DEF PublishClient
<1>20. CASE Greet
  BY <1>20 DEF Greet
<1>21. CASE GreetFails
  BY <1>21 DEF GreetFails
<1>22. CASE Top
  BY <1>22 DEF Top
<1>23. CASE RecvEnds
  BY <1>23 DEF RecvEnds
<1>24. CASE Command
  BY <1>24 DEF Command
<1>25. CASE PasvClose
  BY <1>25 DEF PasvClose
<1>26. CASE PasvSocket
  BY <1>26 DEF PasvSocket
<1>27. CASE PasvBind
  BY <1>27 DEF PasvBind
<1>28. CASE PasvBindFails
  BY <1>28 DEF PasvBindFails
<1>29. CASE PasvClear
  BY <1>29 DEF PasvClear
<1>30. CASE DataCommand
  BY <1>30 DEF DataCommand
<1>31. CASE DataAccept
  BY <1>31 DEF DataAccept
<1>32. CASE DataAcceptFails
  BY <1>32 DEF DataAcceptFails
<1>33. CASE DataClose
  BY <1>33 DEF DataClose
<1>34. CASE DataClear
  BY <1>34 DEF DataClear
<1>35. CASE PublishXfer
  BY <1>35 DEF PublishXfer
<1>36. CASE XferLoop
  BY <1>36 DEF XferLoop
<1>37. CASE XferBlock
  BY <1>37 DEF XferBlock
<1>38. CASE XferDone
  BY <1>38 DEF XferDone
<1>39. CASE XferFails
  BY <1>39 DEF XferFails
<1>40. CASE XferClose
  BY <1>40 DEF XferClose
<1>41. CASE XferClear
  BY <1>41 DEF XferClear
<1>42. CASE EndData
  BY <1>42 DEF EndData
<1>43. CASE EndBare
  BY <1>43 DEF EndBare
<1>44. CASE EndClear
  BY <1>44 DEF EndClear
<1>45. CASE EndClient
  BY <1>45 DEF EndClient
<1>46. CASE EndPublish
  BY <1>46 DEF EndPublish
<1>47. CASE Connect
  BY <1>47 DEF Connect
<1>48. CASE ForeignOpen
  BY <1>48 DEF ForeignOpen
<1>49. CASE ForeignClose
  BY <1>49 DEF ForeignClose
<1>50. CASE UNCHANGED vars
  BY <1>50
<1>51. CASE Reply
  BY <1>51 DEF Reply
<1>52. CASE ReplyFails
  BY <1>52 DEF ReplyFails
<1>. QED
  BY <1>1, <1>2, <1>3, <1>4, <1>5, <1>6, <1>7, <1>8, <1>9, <1>10, <1>11, <1>12, <1>13, <1>14,
    <1>15, <1>16, <1>17, <1>18, <1>19, <1>20, <1>21, <1>22, <1>23, <1>24, <1>25, <1>26, <1>27,
    <1>28, <1>29, <1>30, <1>31, <1>32, <1>33, <1>34, <1>35, <1>36, <1>37, <1>38, <1>39, <1>40,
    <1>41, <1>42, <1>43, <1>44, <1>45, <1>46, <1>47, <1>48, <1>49, <1>50, <1>51, <1>52 DEF Next, UI, Server,
    Fserve, Session, Pasv, DataPhase, SessionEnd

\* The initial state is well typed.
LEMMA InitType == Init => TypeOK
<1> SUFFICES ASSUME Init PROVE TypeOK
  OBVIOUS
<1>1. on = FALSE /\ stray = FALSE
  BY DEF Init
<1>2. on \in BOOLEAN /\ stray \in BOOLEAN
  BY <1>1
<1>. QED
  BY <1>2, NoFdAssumption, BoundsAssumption DEF Init, TypeOK, Slots, Kinds, DataCmds

\* Every variable keeps its type, and the backlog its bound, in every state of
\* the server: for any descriptor table, any clients and any bounds.
THEOREM TypeCorrect == Spec => []TypeOK
BY InitType, TypeStep, PTL DEF Spec

-----------------------------------------------------------------------------
(* The layers of the inductive invariant.                                  *)

\* Every step keeps Control.
LEMMA ControlStep == (TypeOK /\ Control) /\ [Next]_vars => Control'
<1> SUFFICES ASSUME (TypeOK /\ Control), [Next]_vars PROVE Control'
  OBVIOUS
<1> USE NoFdAssumption, BoundsAssumption DEF vars, uiVars, srvVars, fdVars, Goto, Keep, Alloc,
  CloseFd, Open, Advance, TypeOK, Slots, Kinds, DataCmds, Control, Stopping
<1>1. CASE Start
  BY <1>1 DEF Start
<1>2. CASE StartFails
  BY <1>2 DEF StartFails
<1>3. CASE StartReturns
  BY <1>3 DEF StartReturns
<1>4. CASE Stop
  BY <1>4 DEF Stop
<1>5. CASE StopRead
  BY <1>5 DEF StopRead
<1>6. CASE StopClose
  BY <1>6 DEF StopClose
<1>7. CASE StopClear
  BY <1>7 DEF StopClear
<1>8. CASE StopJoin
  BY <1>8 DEF StopJoin
<1>9. CASE Boot
  BY <1>9 DEF Boot
<1>10. CASE Bind
  BY <1>10 DEF Bind
<1>11. CASE BindFails
  BY <1>11 DEF BindFails
<1>12. CASE Loop
  BY <1>12 DEF Loop
<1>13. CASE Accept
  BY <1>13 DEF Accept
<1>14. CASE AcceptFails
  BY <1>14 DEF AcceptFails
<1>15. CASE Finish
  BY <1>15 DEF Finish
<1>16. CASE FinishBare
  BY <1>16 DEF FinishBare
<1>17. CASE FinishClear
  BY <1>17 DEF FinishClear
<1>18. CASE Off
  BY <1>18 DEF Off
<1>19. CASE PublishClient
  BY <1>19 DEF PublishClient
<1>20. CASE Greet
  BY <1>20 DEF Greet
<1>21. CASE GreetFails
  BY <1>21 DEF GreetFails
<1>22. CASE Top
  BY <1>22 DEF Top
<1>23. CASE RecvEnds
  BY <1>23 DEF RecvEnds
<1>24. CASE Command
  BY <1>24 DEF Command
<1>25. CASE PasvClose
  BY <1>25 DEF PasvClose
<1>26. CASE PasvSocket
  BY <1>26 DEF PasvSocket
<1>27. CASE PasvBind
  BY <1>27 DEF PasvBind
<1>28. CASE PasvBindFails
  BY <1>28 DEF PasvBindFails
<1>29. CASE PasvClear
  BY <1>29 DEF PasvClear
<1>30. CASE DataCommand
  BY <1>30 DEF DataCommand
<1>31. CASE DataAccept
  BY <1>31 DEF DataAccept
<1>32. CASE DataAcceptFails
  BY <1>32 DEF DataAcceptFails
<1>33. CASE DataClose
  BY <1>33 DEF DataClose
<1>34. CASE DataClear
  BY <1>34 DEF DataClear
<1>35. CASE PublishXfer
  BY <1>35 DEF PublishXfer
<1>36. CASE XferLoop
  BY <1>36 DEF XferLoop
<1>37. CASE XferBlock
  BY <1>37 DEF XferBlock
<1>38. CASE XferDone
  BY <1>38 DEF XferDone
<1>39. CASE XferFails
  BY <1>39 DEF XferFails
<1>40. CASE XferClose
  BY <1>40 DEF XferClose
<1>41. CASE XferClear
  BY <1>41 DEF XferClear
<1>42. CASE EndData
  BY <1>42 DEF EndData
<1>43. CASE EndBare
  BY <1>43 DEF EndBare
<1>44. CASE EndClear
  BY <1>44 DEF EndClear
<1>45. CASE EndClient
  BY <1>45 DEF EndClient
<1>46. CASE EndPublish
  BY <1>46 DEF EndPublish
<1>47. CASE Connect
  BY <1>47 DEF Connect
<1>48. CASE ForeignOpen
  BY <1>48 DEF ForeignOpen
<1>49. CASE ForeignClose
  BY <1>49 DEF ForeignClose
<1>50. CASE UNCHANGED vars
  BY SMTT(40), <1>50
<1>51. CASE Reply
  BY <1>51 DEF Reply
<1>52. CASE ReplyFails
  BY <1>52 DEF ReplyFails
<1>. QED
  BY <1>1, <1>2, <1>3, <1>4, <1>5, <1>6, <1>7, <1>8, <1>9, <1>10, <1>11, <1>12, <1>13, <1>14,
    <1>15, <1>16, <1>17, <1>18, <1>19, <1>20, <1>21, <1>22, <1>23, <1>24, <1>25, <1>26, <1>27,
    <1>28, <1>29, <1>30, <1>31, <1>32, <1>33, <1>34, <1>35, <1>36, <1>37, <1>38, <1>39, <1>40,
    <1>41, <1>42, <1>43, <1>44, <1>45, <1>46, <1>47, <1>48, <1>49, <1>50, <1>51, <1>52 DEF Next, UI, Server,
    Fserve, Session, Pasv, DataPhase, SessionEnd

\* Every step keeps Numbers.
LEMMA NumbersStep == (TypeOK /\ Control /\ Numbers) /\ [Next]_vars => Numbers'
<1> SUFFICES ASSUME (TypeOK /\ Control /\ Numbers), [Next]_vars PROVE Numbers'
  OBVIOUS
<1> USE NoFdAssumption, BoundsAssumption DEF vars, uiVars, srvVars, fdVars, Goto, Keep, Alloc,
  CloseFd, Open, Advance, TypeOK, Slots, Kinds, DataCmds, Control, Stopping, Numbers, Passed,
  NoSession, Published, InTransfer, XferShown
<1>1. CASE Start
  BY <1>1 DEF Start
<1>2. CASE StartFails
  BY <1>2 DEF StartFails
<1>3. CASE StartReturns
  BY <1>3 DEF StartReturns
<1>4. CASE Stop
  BY <1>4 DEF Stop
<1>5. CASE StopRead
  BY <1>5 DEF StopRead
<1>6. CASE StopClose
  BY <1>6 DEF StopClose
<1>7. CASE StopClear
  BY <1>7 DEF StopClear
<1>8. CASE StopJoin
  BY <1>8 DEF StopJoin
<1>9. CASE Boot
  BY <1>9 DEF Boot
<1>10. CASE Bind
  BY <1>10 DEF Bind
<1>11. CASE BindFails
  BY <1>11 DEF BindFails
<1>12. CASE Loop
  BY <1>12 DEF Loop
<1>13. CASE Accept
  BY <1>13 DEF Accept
<1>14. CASE AcceptFails
  BY <1>14 DEF AcceptFails
<1>15. CASE Finish
  BY <1>15 DEF Finish
<1>16. CASE FinishBare
  BY <1>16 DEF FinishBare
<1>17. CASE FinishClear
  BY <1>17 DEF FinishClear
<1>18. CASE Off
  BY <1>18 DEF Off
<1>19. CASE PublishClient
  BY <1>19 DEF PublishClient
<1>20. CASE Greet
  BY <1>20 DEF Greet
<1>21. CASE GreetFails
  BY <1>21 DEF GreetFails
<1>22. CASE Top
  BY <1>22 DEF Top
<1>23. CASE RecvEnds
  BY <1>23 DEF RecvEnds
<1>24. CASE Command
  BY <1>24 DEF Command
<1>25. CASE PasvClose
  BY <1>25 DEF PasvClose
<1>26. CASE PasvSocket
  BY <1>26 DEF PasvSocket
<1>27. CASE PasvBind
  BY <1>27 DEF PasvBind
<1>28. CASE PasvBindFails
  BY <1>28 DEF PasvBindFails
<1>29. CASE PasvClear
  BY <1>29 DEF PasvClear
<1>30. CASE DataCommand
  BY <1>30 DEF DataCommand
<1>31. CASE DataAccept
  BY <1>31 DEF DataAccept
<1>32. CASE DataAcceptFails
  BY <1>32 DEF DataAcceptFails
<1>33. CASE DataClose
  BY <1>33 DEF DataClose
<1>34. CASE DataClear
  BY <1>34 DEF DataClear
<1>35. CASE PublishXfer
  BY <1>35 DEF PublishXfer
<1>36. CASE XferLoop
  BY <1>36 DEF XferLoop
<1>37. CASE XferBlock
  BY <1>37 DEF XferBlock
<1>38. CASE XferDone
  BY <1>38 DEF XferDone
<1>39. CASE XferFails
  BY <1>39 DEF XferFails
<1>40. CASE XferClose
  BY <1>40 DEF XferClose
<1>41. CASE XferClear
  BY <1>41 DEF XferClear
<1>42. CASE EndData
  BY <1>42 DEF EndData
<1>43. CASE EndBare
  BY <1>43 DEF EndBare
<1>44. CASE EndClear
  BY <1>44 DEF EndClear
<1>45. CASE EndClient
  BY <1>45 DEF EndClient
<1>46. CASE EndPublish
  BY <1>46 DEF EndPublish
<1>47. CASE Connect
  BY <1>47 DEF Connect
<1>48. CASE ForeignOpen
  BY <1>48 DEF ForeignOpen
<1>49. CASE ForeignClose
  BY <1>49 DEF ForeignClose
<1>50. CASE UNCHANGED vars
  BY <1>50
<1>51. CASE Reply
  BY <1>51 DEF Reply
<1>52. CASE ReplyFails
  BY <1>52 DEF ReplyFails
<1>. QED
  BY <1>1, <1>2, <1>3, <1>4, <1>5, <1>6, <1>7, <1>8, <1>9, <1>10, <1>11, <1>12, <1>13, <1>14,
    <1>15, <1>16, <1>17, <1>18, <1>19, <1>20, <1>21, <1>22, <1>23, <1>24, <1>25, <1>26, <1>27,
    <1>28, <1>29, <1>30, <1>31, <1>32, <1>33, <1>34, <1>35, <1>36, <1>37, <1>38, <1>39, <1>40,
    <1>41, <1>42, <1>43, <1>44, <1>45, <1>46, <1>47, <1>48, <1>49, <1>50, <1>51, <1>52 DEF Next, UI, Server,
    Fserve, Session, Pasv, DataPhase, SessionEnd

\* Every step keeps Kept.
LEMMA KeptStep == (TypeOK /\ Control /\ Numbers /\ Kept) /\ [Next]_vars => Kept'
<1> SUFFICES ASSUME (TypeOK /\ Control /\ Numbers /\ Kept), [Next]_vars PROVE Kept'
  OBVIOUS
<1> USE NoFdAssumption, BoundsAssumption DEF vars, uiVars, srvVars, fdVars, Goto, Keep, Alloc,
  CloseFd, Open, Advance, TypeOK, Slots, Kinds, DataCmds, Control, Stopping, Numbers, Kept,
  Passed, NoSession, Published, InTransfer, XferShown
<1>1. CASE Start
  BY <1>1 DEF Start
<1>2. CASE StartFails
  BY <1>2 DEF StartFails
<1>3. CASE StartReturns
  BY <1>3 DEF StartReturns
<1>4. CASE Stop
  BY <1>4 DEF Stop
<1>5. CASE StopRead
  BY <1>5 DEF StopRead
<1>6. CASE StopClose
  BY <1>6 DEF StopClose
<1>7. CASE StopClear
  BY <1>7 DEF StopClear
<1>8. CASE StopJoin
  BY <1>8 DEF StopJoin
<1>9. CASE Boot
  BY <1>9 DEF Boot
<1>10. CASE Bind
  BY <1>10 DEF Bind
<1>11. CASE BindFails
  BY <1>11 DEF BindFails
<1>12. CASE Loop
  BY <1>12 DEF Loop
<1>13. CASE Accept
  BY <1>13 DEF Accept
<1>14. CASE AcceptFails
  BY <1>14 DEF AcceptFails
<1>15. CASE Finish
  BY <1>15 DEF Finish
<1>16. CASE FinishBare
  BY <1>16 DEF FinishBare
<1>17. CASE FinishClear
  BY <1>17 DEF FinishClear
<1>18. CASE Off
  BY <1>18 DEF Off
<1>19. CASE PublishClient
  BY <1>19 DEF PublishClient
<1>20. CASE Greet
  BY <1>20 DEF Greet
<1>21. CASE GreetFails
  BY <1>21 DEF GreetFails
<1>22. CASE Top
  BY <1>22 DEF Top
<1>23. CASE RecvEnds
  BY <1>23 DEF RecvEnds
<1>24. CASE Command
  BY <1>24 DEF Command
<1>25. CASE PasvClose
  BY <1>25 DEF PasvClose
<1>26. CASE PasvSocket
  BY <1>26 DEF PasvSocket
<1>27. CASE PasvBind
  BY <1>27 DEF PasvBind
<1>28. CASE PasvBindFails
  BY <1>28 DEF PasvBindFails
<1>29. CASE PasvClear
  BY <1>29 DEF PasvClear
<1>30. CASE DataCommand
  BY <1>30 DEF DataCommand
<1>31. CASE DataAccept
  BY <1>31 DEF DataAccept
<1>32. CASE DataAcceptFails
  BY <1>32 DEF DataAcceptFails
<1>33. CASE DataClose
  BY <1>33 DEF DataClose
<1>34. CASE DataClear
  BY <1>34 DEF DataClear
<1>35. CASE PublishXfer
  BY <1>35 DEF PublishXfer
<1>36. CASE XferLoop
  BY <1>36 DEF XferLoop
<1>37. CASE XferBlock
  BY <1>37 DEF XferBlock
<1>38. CASE XferDone
  BY <1>38 DEF XferDone
<1>39. CASE XferFails
  BY <1>39 DEF XferFails
<1>40. CASE XferClose
  BY <1>40 DEF XferClose
<1>41. CASE XferClear
  BY <1>41 DEF XferClear
<1>42. CASE EndData
  BY <1>42 DEF EndData
<1>43. CASE EndBare
  BY <1>43 DEF EndBare
<1>44. CASE EndClear
  BY <1>44 DEF EndClear
<1>45. CASE EndClient
  BY <1>45 DEF EndClient
<1>46. CASE EndPublish
  BY <1>46 DEF EndPublish
<1>47. CASE Connect
  BY <1>47 DEF Connect
<1>48. CASE ForeignOpen
  BY <1>48 DEF ForeignOpen
<1>49. CASE ForeignClose
  BY <1>49 DEF ForeignClose
<1>50. CASE UNCHANGED vars
  BY SMTT(40), <1>50
<1>51. CASE Reply
  BY <1>51 DEF Reply
<1>52. CASE ReplyFails
  BY <1>52 DEF ReplyFails
<1>. QED
  BY <1>1, <1>2, <1>3, <1>4, <1>5, <1>6, <1>7, <1>8, <1>9, <1>10, <1>11, <1>12, <1>13, <1>14,
    <1>15, <1>16, <1>17, <1>18, <1>19, <1>20, <1>21, <1>22, <1>23, <1>24, <1>25, <1>26, <1>27,
    <1>28, <1>29, <1>30, <1>31, <1>32, <1>33, <1>34, <1>35, <1>36, <1>37, <1>38, <1>39, <1>40,
    <1>41, <1>42, <1>43, <1>44, <1>45, <1>46, <1>47, <1>48, <1>49, <1>50, <1>51, <1>52 DEF Next, UI, Server,
    Fserve, Session, Pasv, DataPhase, SessionEnd

\* Every step keeps Woken.
LEMMA WokenStep == (TypeOK /\ Control /\ Numbers /\ Kept /\ Woken) /\ [Next]_vars => Woken'
<1> SUFFICES ASSUME (TypeOK /\ Control /\ Numbers /\ Kept /\ Woken), [Next]_vars PROVE Woken'
  OBVIOUS
<1> USE NoFdAssumption, BoundsAssumption DEF vars, uiVars, srvVars, fdVars, Goto, Keep, Alloc,
  CloseFd, Open, Advance, TypeOK, Slots, Kinds, DataCmds, Control, Stopping, Numbers, Kept,
  Woken, Passed, Handled, Listening, NoSession, Published, InTransfer, XferShown, InCommand,
  BeforeXfer, InXfer, FoundXfer, ClosedXfer
<1>1. CASE Start
  BY <1>1 DEF Start
<1>2. CASE StartFails
  BY <1>2 DEF StartFails
<1>3. CASE StartReturns
  BY <1>3 DEF StartReturns
<1>4. CASE Stop
  BY <1>4 DEF Stop
<1>5. CASE StopRead
  BY <1>5 DEF StopRead
<1>6. CASE StopClose
  BY <1>6 DEF StopClose
<1>7. CASE StopClear
  BY <1>7 DEF StopClear
<1>8. CASE StopJoin
  BY <1>8 DEF StopJoin
<1>9. CASE Boot
  BY <1>9 DEF Boot
<1>10. CASE Bind
  BY <1>10 DEF Bind
<1>11. CASE BindFails
  BY <1>11 DEF BindFails
<1>12. CASE Loop
  BY <1>12 DEF Loop
<1>13. CASE Accept
  BY <1>13 DEF Accept
<1>14. CASE AcceptFails
  BY <1>14 DEF AcceptFails
<1>15. CASE Finish
  BY <1>15 DEF Finish
<1>16. CASE FinishBare
  BY <1>16 DEF FinishBare
<1>17. CASE FinishClear
  BY <1>17 DEF FinishClear
<1>18. CASE Off
  BY <1>18 DEF Off
<1>19. CASE PublishClient
  BY <1>19 DEF PublishClient
<1>20. CASE Greet
  BY <1>20 DEF Greet
<1>21. CASE GreetFails
  BY <1>21 DEF GreetFails
<1>22. CASE Top
  BY <1>22 DEF Top
<1>23. CASE RecvEnds
  BY <1>23 DEF RecvEnds
<1>24. CASE Command
  BY <1>24 DEF Command
<1>25. CASE PasvClose
  BY <1>25 DEF PasvClose
<1>26. CASE PasvSocket
  BY <1>26 DEF PasvSocket
<1>27. CASE PasvBind
  BY <1>27 DEF PasvBind
<1>28. CASE PasvBindFails
  BY <1>28 DEF PasvBindFails
<1>29. CASE PasvClear
  BY <1>29 DEF PasvClear
<1>30. CASE DataCommand
  BY <1>30 DEF DataCommand
<1>31. CASE DataAccept
  BY <1>31 DEF DataAccept
<1>32. CASE DataAcceptFails
  BY <1>32 DEF DataAcceptFails
<1>33. CASE DataClose
  BY <1>33 DEF DataClose
<1>34. CASE DataClear
  BY <1>34 DEF DataClear
<1>35. CASE PublishXfer
  BY <1>35 DEF PublishXfer
<1>36. CASE XferLoop
  BY <1>36 DEF XferLoop
<1>37. CASE XferBlock
  BY <1>37 DEF XferBlock
<1>38. CASE XferDone
  BY <1>38 DEF XferDone
<1>39. CASE XferFails
  BY <1>39 DEF XferFails
<1>40. CASE XferClose
  BY <1>40 DEF XferClose
<1>41. CASE XferClear
  BY <1>41 DEF XferClear
<1>42. CASE EndData
  BY <1>42 DEF EndData
<1>43. CASE EndBare
  BY <1>43 DEF EndBare
<1>44. CASE EndClear
  BY <1>44 DEF EndClear
<1>45. CASE EndClient
  BY <1>45 DEF EndClient
<1>46. CASE EndPublish
  BY <1>46 DEF EndPublish
<1>47. CASE Connect
  BY <1>47 DEF Connect
<1>48. CASE ForeignOpen
  BY <1>48 DEF ForeignOpen
<1>49. CASE ForeignClose
  BY <1>49 DEF ForeignClose
<1>50. CASE UNCHANGED vars
  BY <1>50
<1>51. CASE Reply
  BY <1>51 DEF Reply
<1>52. CASE ReplyFails
  BY <1>52 DEF ReplyFails
<1>. QED
  BY <1>1, <1>2, <1>3, <1>4, <1>5, <1>6, <1>7, <1>8, <1>9, <1>10, <1>11, <1>12, <1>13, <1>14,
    <1>15, <1>16, <1>17, <1>18, <1>19, <1>20, <1>21, <1>22, <1>23, <1>24, <1>25, <1>26, <1>27,
    <1>28, <1>29, <1>30, <1>31, <1>32, <1>33, <1>34, <1>35, <1>36, <1>37, <1>38, <1>39, <1>40,
    <1>41, <1>42, <1>43, <1>44, <1>45, <1>46, <1>47, <1>48, <1>49, <1>50, <1>51, <1>52 DEF Next, UI, Server,
    Fserve, Session, Pasv, DataPhase, SessionEnd

\* Every step keeps Owned.
LEMMA OwnedStep == (TypeOK /\ Control /\ Numbers /\ Kept /\ Owned) /\ [Next]_vars => Owned'
<1> SUFFICES ASSUME (TypeOK /\ Control /\ Numbers /\ Kept /\ Owned), [Next]_vars PROVE Owned'
  OBVIOUS
<1> USE NoFdAssumption, BoundsAssumption DEF vars, uiVars, srvVars, fdVars, Goto, Keep, Alloc,
  CloseFd, Open, Advance, TypeOK, Slots, Kinds, DataCmds, Control, Stopping, Numbers, Kept,
  Owned, Passed, NoSession, Published, InTransfer, XferShown
<1>1. CASE Start
  BY <1>1 DEF Start
<1>2. CASE StartFails
  BY <1>2 DEF StartFails
<1>3. CASE StartReturns
  BY <1>3 DEF StartReturns
<1>4. CASE Stop
  BY <1>4 DEF Stop
<1>5. CASE StopRead
  BY <1>5 DEF StopRead
<1>6. CASE StopClose
  BY <1>6 DEF StopClose
<1>7. CASE StopClear
  BY <1>7 DEF StopClear
<1>8. CASE StopJoin
  BY <1>8 DEF StopJoin
<1>9. CASE Boot
  BY <1>9 DEF Boot
<1>10. CASE Bind
  BY <1>10 DEF Bind
<1>11. CASE BindFails
  BY <1>11 DEF BindFails
<1>12. CASE Loop
  BY <1>12 DEF Loop
<1>13. CASE Accept
  BY <1>13 DEF Accept
<1>14. CASE AcceptFails
  BY <1>14 DEF AcceptFails
<1>15. CASE Finish
  BY <1>15 DEF Finish
<1>16. CASE FinishBare
  BY <1>16 DEF FinishBare
<1>17. CASE FinishClear
  BY <1>17 DEF FinishClear
<1>18. CASE Off
  BY <1>18 DEF Off
<1>19. CASE PublishClient
  BY <1>19 DEF PublishClient
<1>20. CASE Greet
  BY <1>20 DEF Greet
<1>21. CASE GreetFails
  BY <1>21 DEF GreetFails
<1>22. CASE Top
  BY <1>22 DEF Top
<1>23. CASE RecvEnds
  BY <1>23 DEF RecvEnds
<1>24. CASE Command
  BY <1>24 DEF Command
<1>25. CASE PasvClose
  BY <1>25 DEF PasvClose
<1>26. CASE PasvSocket
  BY <1>26 DEF PasvSocket
<1>27. CASE PasvBind
  BY <1>27 DEF PasvBind
<1>28. CASE PasvBindFails
  BY <1>28 DEF PasvBindFails
<1>29. CASE PasvClear
  BY <1>29 DEF PasvClear
<1>30. CASE DataCommand
  BY <1>30 DEF DataCommand
<1>31. CASE DataAccept
  BY <1>31 DEF DataAccept
<1>32. CASE DataAcceptFails
  BY <1>32 DEF DataAcceptFails
<1>33. CASE DataClose
  BY <1>33 DEF DataClose
<1>34. CASE DataClear
  BY <1>34 DEF DataClear
<1>35. CASE PublishXfer
  BY <1>35 DEF PublishXfer
<1>36. CASE XferLoop
  BY <1>36 DEF XferLoop
<1>37. CASE XferBlock
  BY <1>37 DEF XferBlock
<1>38. CASE XferDone
  BY <1>38 DEF XferDone
<1>39. CASE XferFails
  BY <1>39 DEF XferFails
<1>40. CASE XferClose
  BY <1>40 DEF XferClose
<1>41. CASE XferClear
  BY <1>41 DEF XferClear
<1>42. CASE EndData
  BY <1>42 DEF EndData
<1>43. CASE EndBare
  BY <1>43 DEF EndBare
<1>44. CASE EndClear
  BY <1>44 DEF EndClear
<1>45. CASE EndClient
  BY <1>45 DEF EndClient
<1>46. CASE EndPublish
  BY <1>46 DEF EndPublish
<1>47. CASE Connect
  BY <1>47 DEF Connect
<1>48. CASE ForeignOpen
  BY <1>48 DEF ForeignOpen
<1>49. CASE ForeignClose
  BY <1>49 DEF ForeignClose
<1>50. CASE UNCHANGED vars
  BY <1>50
<1>51. CASE Reply
  BY <1>51 DEF Reply
<1>52. CASE ReplyFails
  BY <1>52 DEF ReplyFails
<1>. QED
  BY <1>1, <1>2, <1>3, <1>4, <1>5, <1>6, <1>7, <1>8, <1>9, <1>10, <1>11, <1>12, <1>13, <1>14,
    <1>15, <1>16, <1>17, <1>18, <1>19, <1>20, <1>21, <1>22, <1>23, <1>24, <1>25, <1>26, <1>27,
    <1>28, <1>29, <1>30, <1>31, <1>32, <1>33, <1>34, <1>35, <1>36, <1>37, <1>38, <1>39, <1>40,
    <1>41, <1>42, <1>43, <1>44, <1>45, <1>46, <1>47, <1>48, <1>49, <1>50, <1>51, <1>52 DEF Next, UI, Server,
    Fserve, Session, Pasv, DataPhase, SessionEnd

Inv == TypeOK /\ Control /\ Numbers /\ Kept /\ Woken /\ Owned

\* The layers together are an invariant of the server.
THEOREM Invariance == Spec => []Inv
<1>1. Init => Inv
  <2> SUFFICES ASSUME Init PROVE Inv
    OBVIOUS
  <2> USE DEF Init
  <2>1. TypeOK
    BY InitType
  <2>2. Control
    BY DEF Control, Stopping
  <2>3. Numbers
    BY DEF Numbers, Slots, NoSession, Published, InTransfer, XferShown
  <2>4. Kept
    BY DEF Kept
  <2>5. Woken
    BY DEF Woken, InCommand, InXfer, FoundXfer, ClosedXfer
  <2>6. Owned
    BY DEF Owned
  <2>. QED
    BY <2>1, <2>2, <2>3, <2>4, <2>5, <2>6 DEF Inv
<1>2. Inv /\ [Next]_vars => Inv'
  BY TypeStep, ControlStep, NumbersStep, KeptStep, WokenStep, OwnedStep DEF Inv
<1>. QED
  BY <1>1, <1>2, PTL DEF Spec

-----------------------------------------------------------------------------
(* What follows for the code.                                              *)

\* ftp_start never runs beside the thread of an earlier server: ftp_on alone is a
\* sufficient test (line 4303).
THEOREM NoSecondThread == Spec => []StartFindsNoThread
<1>1. Inv => StartFindsNoThread
  BY DEF Inv, Control, StartFindsNoThread
<1>. QED
  BY <1>1, Invariance, PTL

\* ftp_stop waits for a thread whose handle is open (line 4365).
THEOREM JoinIsLegal == Spec => []JoinHasHandle
<1>1. Inv => JoinHasHandle
  BY DEF Inv, Control, Stopping, JoinHasHandle
<1>. QED
  BY <1>1, Invariance, PTL

\* All four published numbers are -1 between two servers.
THEOREM NumbersReset == Spec => []QuiescentNumbers
<1>1. Inv => QuiescentNumbers
  BY DEF Inv, Numbers, QuiescentNumbers, Slots, NoSession, XferShown
<1>. QED
  BY <1>1, Invariance, PTL

\* While the server is on, ftp_stop can find the number of the socket its thread
\* is blocked on.
THEOREM StopFindsThread == Spec => []BlockedIsPublished
<1>1. Inv => BlockedIsPublished
  BY DEF Inv, Control, Numbers, BlockedIsPublished, Passed, Stopping, Published, XferShown
<1>. QED
  BY <1>1, Invariance, PTL

\* When ftp_stop waits for the thread, the thread is not asleep on an open socket,
\* a listing of the one race excepted.
THEOREM StopWakesThread == Spec => []JoinWakes
<1>1. Inv => JoinWakes
  <2> SUFFICES ASSUME Inv, ui = "join" PROVE JoinWakes
    BY DEF JoinWakes
  <2>1. \A s \in Slots : Handled(s)
    BY DEF Handled, Passed
  <2>2. TypeOK /\ Woken
    BY DEF Inv
  <2>3. CASE pc # "xfer"
    BY <2>1, <2>2, <2>3 DEF JoinWakes, Woken, Slots, InCommand
  <2>4. CASE pc = "xfer"
    <3>1. slot = "xfer"
      BY <2>2 DEF Woken
    <3>2. snap # NoFd => ~Open(dfd, "xfer")
      BY <2>2, <2>4, <3>1 DEF Woken, ClosedXfer, InXfer
    <3>3. op # "LIST" => ~Open(dfd, "xfer")
      BY <2>1, <2>2, <2>4 DEF Woken, Slots
    <3>. QED
      BY <2>4, <3>1, <3>2, <3>3 DEF JoinWakes, MissedListing
  <2>. QED
    BY <2>3, <2>4
<1>. QED
  BY <1>1, Invariance, PTL

\* No control or transfer socket and no control listener outlives its thread.
THEOREM NothingButListenersLeft == Spec => []NoSocketLeft
<1>1. Inv => NoSocketLeft
  BY NoFdAssumption DEF Inv, Numbers, Kept, NoSocketLeft, Published, InTransfer
<1>. QED
  BY <1>1, Invariance, PTL

\* The first descriptor of another thread that FTP code closes is closed in a
\* stop: while ftp_on is set, every close() in the two threads hits its own socket.
THEOREM FirstStrayInStop == Spec => StrayOnlyInStop
<1>1. Inv /\ [Next]_vars => (~stray /\ stray' => ~on)
  <2> SUFFICES ASSUME Inv, [Next]_vars, ~stray, on PROVE ~stray'
    BY Zenon DEF Inv
  <2> USE NoFdAssumption DEF Inv, TypeOK, Control, Numbers, Owned, Slots, vars, uiVars,
          fdVars, Goto, Keep, Alloc, CloseFd, Open, NoSession, Published, InTransfer
  <2>1. CASE Start
    BY <2>1 DEF Start
  <2>2. CASE StartFails
    BY <2>2 DEF StartFails
  <2>3. CASE StartReturns
    BY <2>3 DEF StartReturns
  <2>4. CASE Stop
    BY <2>4 DEF Stop
  <2>5. CASE StopRead
    BY <2>5 DEF StopRead
  <2>6. CASE StopClose
    BY <2>6 DEF StopClose
  <2>7. CASE StopClear
    BY <2>7 DEF StopClear
  <2>8. CASE StopJoin
    BY <2>8 DEF StopJoin
  <2>9. CASE Boot
    BY <2>9 DEF Boot
  <2>10. CASE Bind
    BY <2>10 DEF Bind
  <2>11. CASE BindFails
    BY <2>11 DEF BindFails
  <2>12. CASE Loop
    BY <2>12 DEF Loop
  <2>13. CASE Accept
    BY <2>13 DEF Accept
  <2>14. CASE AcceptFails
    BY <2>14 DEF AcceptFails
  <2>15. CASE Finish
    BY <2>15 DEF Finish
  <2>16. CASE FinishBare
    BY <2>16 DEF FinishBare
  <2>17. CASE FinishClear
    BY <2>17 DEF FinishClear
  <2>18. CASE Off
    BY <2>18 DEF Off
  <2>19. CASE PublishClient
    BY <2>19 DEF PublishClient
  <2>20. CASE Greet
    BY <2>20 DEF Greet
  <2>21. CASE GreetFails
    BY <2>21 DEF GreetFails
  <2>22. CASE Top
    BY <2>22 DEF Top
  <2>23. CASE RecvEnds
    BY <2>23 DEF RecvEnds
  <2>24. CASE Command
    BY <2>24 DEF Command
  <2>25. CASE PasvClose
    BY <2>25 DEF PasvClose
  <2>26. CASE PasvSocket
    BY <2>26 DEF PasvSocket
  <2>27. CASE PasvBind
    BY <2>27 DEF PasvBind
  <2>28. CASE PasvBindFails
    BY <2>28 DEF PasvBindFails
  <2>29. CASE PasvClear
    BY <2>29 DEF PasvClear
  <2>30. CASE DataCommand
    BY <2>30 DEF DataCommand
  <2>31. CASE DataAccept
    BY <2>31 DEF DataAccept
  <2>32. CASE DataAcceptFails
    BY <2>32 DEF DataAcceptFails
  <2>33. CASE DataClose
    BY <2>33 DEF DataClose
  <2>34. CASE DataClear
    BY <2>34 DEF DataClear
  <2>35. CASE PublishXfer
    BY <2>35 DEF PublishXfer
  <2>36. CASE XferLoop
    BY <2>36 DEF XferLoop
  <2>37. CASE XferBlock
    BY <2>37 DEF XferBlock
  <2>38. CASE XferDone
    BY <2>38 DEF XferDone
  <2>39. CASE XferFails
    BY <2>39 DEF XferFails
  <2>40. CASE XferClose
    BY <2>40 DEF XferClose
  <2>41. CASE XferClear
    BY <2>41 DEF XferClear
  <2>42. CASE EndData
    BY <2>42 DEF EndData
  <2>43. CASE EndBare
    BY <2>43 DEF EndBare
  <2>44. CASE EndClear
    BY <2>44 DEF EndClear
  <2>45. CASE EndClient
    BY <2>45 DEF EndClient
  <2>46. CASE EndPublish
    BY <2>46 DEF EndPublish
  <2>47. CASE Connect
    BY <2>47 DEF Connect
  <2>48. CASE ForeignOpen
    BY <2>48 DEF ForeignOpen
  <2>49. CASE ForeignClose
    BY <2>49 DEF ForeignClose
  <2>50. CASE UNCHANGED vars
    BY <2>50
  <2>51. CASE Reply
    BY <2>51 DEF Reply
  <2>52. CASE ReplyFails
    BY <2>52 DEF ReplyFails
  <2>. QED
    BY <2>1, <2>2, <2>3, <2>4, <2>5, <2>6, <2>7, <2>8, <2>9, <2>10, <2>11, <2>12, <2>13, <2>14,
      <2>15, <2>16, <2>17, <2>18, <2>19, <2>20, <2>21, <2>22, <2>23, <2>24, <2>25, <2>26,
      <2>27, <2>28, <2>29, <2>30, <2>31, <2>32, <2>33, <2>34, <2>35, <2>36, <2>37, <2>38,
      <2>39, <2>40, <2>41, <2>42, <2>43, <2>44, <2>45, <2>46, <2>47, <2>48, <2>49, <2>50, <2>51, <2>52 DEF
      Next, UI, Server, Fserve, Session, Pasv, DataPhase, SessionEnd
<1>. QED
  BY <1>1, Invariance, PTL DEF Spec, StrayOnlyInStop

-----------------------------------------------------------------------------
(* No live descriptor is forgotten, but for one race of a stop.            *)

\* What keeps a live descriptor's number from being overwritten: the thread closes its
\* data listener before it resets ftp_data; and what ftp_stop is about to close, or has
\* closed and is about to reset, is all there is of that kind, except for the listener of
\* a PASV that was already under way.
Resetting == {"pasvsock", "pasvclear", "dclear", "endclear"}
PasvDone  == {"pasvbind", "reply", "top", "enddata"}

Closed ==
  /\ pc \in Resetting => \A f \in Fds : ~(pub["data"] = f /\ tab[f] = "data")
  /\ slot = "cli" /\ ui = "close" => \A f \in Fds : tab[f] = "cli" => f = snap
  /\ slot = "cli" /\ ui = "clear" => \A f \in Fds : tab[f] # "cli"
  /\ slot = "xfer" /\ ui = "close" => \A f \in Fds : tab[f] = "xfer" => f = snap
  /\ slot = "xfer" /\ ui = "clear" => \A f \in Fds : tab[f] # "xfer"
  /\ slot = "data" /\ ui = "close" /\ pc \notin PasvDone =>
       \A f \in Fds : pub["data"] = f /\ tab[f] = "data" => f = snap
  /\ slot = "data" /\ ui = "clear" /\ pc \notin PasvDone =>
       \A f \in Fds : ~(pub["data"] = f /\ tab[f] = "data")

\* Every step keeps Closed.
LEMMA ClosedStep == (Inv /\ Closed) /\ [Next]_vars => Closed'
<1> SUFFICES ASSUME Inv, Closed, [Next]_vars PROVE Closed'
  OBVIOUS
<1> USE NoFdAssumption DEF vars, uiVars, srvVars, fdVars, Goto, Keep, Alloc, CloseFd, Open,
  Advance, TypeOK, Slots, Kinds, DataCmds, Control, Stopping, Numbers, Kept, Woken, Passed,
  Handled, Listening, NoSession, Published, InTransfer, XferShown, Inv, Closed, Resetting,
  PasvDone, InCommand, BeforeXfer, InXfer, FoundXfer, ClosedXfer
<1>1. CASE Start
  BY <1>1 DEF Start
<1>2. CASE StartFails
  BY <1>2 DEF StartFails
<1>3. CASE StartReturns
  BY <1>3 DEF StartReturns
<1>4. CASE Stop
  BY <1>4 DEF Stop
<1>5. CASE StopRead
  BY <1>5 DEF StopRead
<1>6. CASE StopClose
  BY <1>6 DEF StopClose
<1>7. CASE StopClear
  BY <1>7 DEF StopClear
<1>8. CASE StopJoin
  BY <1>8 DEF StopJoin
<1>9. CASE Boot
  BY <1>9 DEF Boot
<1>10. CASE Bind
  BY <1>10 DEF Bind
<1>11. CASE BindFails
  BY <1>11 DEF BindFails
<1>12. CASE Loop
  BY <1>12 DEF Loop
<1>13. CASE Accept
  BY <1>13 DEF Accept
<1>14. CASE AcceptFails
  BY <1>14 DEF AcceptFails
<1>15. CASE Finish
  BY <1>15 DEF Finish
<1>16. CASE FinishBare
  BY <1>16 DEF FinishBare
<1>17. CASE FinishClear
  BY <1>17 DEF FinishClear
<1>18. CASE Off
  BY <1>18 DEF Off
<1>19. CASE PublishClient
  BY <1>19 DEF PublishClient
<1>20. CASE Greet
  BY <1>20 DEF Greet
<1>21. CASE GreetFails
  BY <1>21 DEF GreetFails
<1>22. CASE Top
  BY <1>22 DEF Top
<1>23. CASE RecvEnds
  BY <1>23 DEF RecvEnds
<1>24. CASE Command
  BY <1>24 DEF Command
<1>25. CASE PasvClose
  BY <1>25 DEF PasvClose
<1>26. CASE PasvSocket
  BY <1>26 DEF PasvSocket
<1>27. CASE PasvBind
  BY <1>27 DEF PasvBind
<1>28. CASE PasvBindFails
  BY <1>28 DEF PasvBindFails
<1>29. CASE PasvClear
  BY <1>29 DEF PasvClear
<1>30. CASE DataCommand
  BY <1>30 DEF DataCommand
<1>31. CASE DataAccept
  BY <1>31 DEF DataAccept
<1>32. CASE DataAcceptFails
  BY <1>32 DEF DataAcceptFails
<1>33. CASE DataClose
  BY <1>33 DEF DataClose
<1>34. CASE DataClear
  BY <1>34 DEF DataClear
<1>35. CASE PublishXfer
  BY <1>35 DEF PublishXfer
<1>36. CASE XferLoop
  BY <1>36 DEF XferLoop
<1>37. CASE XferBlock
  BY <1>37 DEF XferBlock
<1>38. CASE XferDone
  BY <1>38 DEF XferDone
<1>39. CASE XferFails
  BY <1>39 DEF XferFails
<1>40. CASE XferClose
  BY <1>40 DEF XferClose
<1>41. CASE XferClear
  BY <1>41 DEF XferClear
<1>42. CASE EndData
  BY <1>42 DEF EndData
<1>43. CASE EndBare
  BY <1>43 DEF EndBare
<1>44. CASE EndClear
  BY <1>44 DEF EndClear
<1>45. CASE EndClient
  BY <1>45 DEF EndClient
<1>46. CASE EndPublish
  BY <1>46 DEF EndPublish
<1>47. CASE Connect
  BY <1>47 DEF Connect
<1>48. CASE ForeignOpen
  BY <1>48 DEF ForeignOpen
<1>49. CASE ForeignClose
  BY <1>49 DEF ForeignClose
<1>50. CASE UNCHANGED vars
  BY <1>50
<1>51. CASE Reply
  BY <1>51 DEF Reply
<1>52. CASE ReplyFails
  BY <1>52 DEF ReplyFails
<1>. QED
  BY <1>1, <1>2, <1>3, <1>4, <1>5, <1>6, <1>7, <1>8, <1>9, <1>10, <1>11, <1>12, <1>13, <1>14,
    <1>15, <1>16, <1>17, <1>18, <1>19, <1>20, <1>21, <1>22, <1>23, <1>24, <1>25, <1>26, <1>27,
    <1>28, <1>29, <1>30, <1>31, <1>32, <1>33, <1>34, <1>35, <1>36, <1>37, <1>38, <1>39, <1>40,
    <1>41, <1>42, <1>43, <1>44, <1>45, <1>46, <1>47, <1>48, <1>49, <1>50, <1>51, <1>52 DEF Next, UI, Server,
    Fserve, Session, Pasv, DataPhase, SessionEnd

\* Closed holds in every state of the server.
LEMMA ClosedInvariance == Spec => []Closed
<1>1. Init => Closed
  BY DEF Init, Closed, Resetting
<1>. QED
  BY <1>1, ClosedStep, Invariance, PTL DEF Spec

\* A step that overwrites the number of a live descriptor, and when one may.
Forgets(s, f) == pub[s] = f /\ tab[f] = s /\ tab'[f] = s /\ pub'[s] # f
MayForget(s) == s = "data" /\ ui = "clear" /\ slot = "data" /\ pc \in PasvDone

\* A live descriptor is forgotten in one case only, whatever the two threads and the
\* others do: a stop resets ftp_data after the PASV under way published its listener.
THEOREM ForgottenOnlyByStop == Spec => ForgottenOnlyInStop
<1>1. Inv /\ Closed /\ [Next]_vars => \A s \in Slots, f \in Fds : Forgets(s, f) => MayForget(s)
  <2> SUFFICES ASSUME Inv, Closed, [Next]_vars, NEW s \in Slots, NEW f \in Fds, Forgets(s, f)
               PROVE  MayForget(s)
    OBVIOUS
  <2> USE NoFdAssumption DEF Inv, Closed, TypeOK, Control, Numbers, Kept, Slots, vars, uiVars,
          fdVars, Goto, Keep, Alloc, CloseFd, Open, NoSession, Published, InTransfer, XferShown,
          Resetting, PasvDone, Forgets, MayForget
  <2>1. CASE Start
    BY <2>1 DEF Start
  <2>2. CASE StartFails
    BY <2>2 DEF StartFails
  <2>3. CASE StartReturns
    BY <2>3 DEF StartReturns
  <2>4. CASE Stop
    BY <2>4 DEF Stop
  <2>5. CASE StopRead
    BY <2>5 DEF StopRead
  <2>6. CASE StopClose
    BY <2>6 DEF StopClose
  <2>7. CASE StopClear
    BY <2>7 DEF StopClear
  <2>8. CASE StopJoin
    BY <2>8 DEF StopJoin
  <2>9. CASE Boot
    BY <2>9 DEF Boot
  <2>10. CASE Bind
    BY <2>10 DEF Bind
  <2>11. CASE BindFails
    BY <2>11 DEF BindFails
  <2>12. CASE Loop
    BY <2>12 DEF Loop
  <2>13. CASE Accept
    BY <2>13 DEF Accept
  <2>14. CASE AcceptFails
    BY <2>14 DEF AcceptFails
  <2>15. CASE Finish
    BY <2>15 DEF Finish
  <2>16. CASE FinishBare
    BY <2>16 DEF FinishBare
  <2>17. CASE FinishClear
    BY <2>17 DEF FinishClear
  <2>18. CASE Off
    BY <2>18 DEF Off
  <2>19. CASE PublishClient
    BY <2>19 DEF PublishClient
  <2>20. CASE Greet
    BY <2>20 DEF Greet
  <2>21. CASE GreetFails
    BY <2>21 DEF GreetFails
  <2>22. CASE Top
    BY <2>22 DEF Top
  <2>23. CASE RecvEnds
    BY <2>23 DEF RecvEnds
  <2>24. CASE Command
    BY <2>24 DEF Command
  <2>25. CASE PasvClose
    BY <2>25 DEF PasvClose
  <2>26. CASE PasvSocket
    BY <2>26 DEF PasvSocket
  <2>27. CASE PasvBind
    BY <2>27 DEF PasvBind
  <2>28. CASE PasvBindFails
    BY <2>28 DEF PasvBindFails
  <2>29. CASE PasvClear
    BY <2>29 DEF PasvClear
  <2>30. CASE DataCommand
    BY <2>30 DEF DataCommand
  <2>31. CASE DataAccept
    BY <2>31 DEF DataAccept
  <2>32. CASE DataAcceptFails
    BY <2>32 DEF DataAcceptFails
  <2>33. CASE DataClose
    BY <2>33 DEF DataClose
  <2>34. CASE DataClear
    BY <2>34 DEF DataClear
  <2>35. CASE PublishXfer
    BY <2>35 DEF PublishXfer
  <2>36. CASE XferLoop
    BY <2>36 DEF XferLoop
  <2>37. CASE XferBlock
    BY <2>37 DEF XferBlock
  <2>38. CASE XferDone
    BY <2>38 DEF XferDone
  <2>39. CASE XferFails
    BY <2>39 DEF XferFails
  <2>40. CASE XferClose
    BY <2>40 DEF XferClose
  <2>41. CASE XferClear
    BY <2>41 DEF XferClear
  <2>42. CASE EndData
    BY <2>42 DEF EndData
  <2>43. CASE EndBare
    BY <2>43 DEF EndBare
  <2>44. CASE EndClear
    BY <2>44 DEF EndClear
  <2>45. CASE EndClient
    BY <2>45 DEF EndClient
  <2>46. CASE EndPublish
    BY <2>46 DEF EndPublish
  <2>47. CASE Connect
    BY <2>47 DEF Connect
  <2>48. CASE ForeignOpen
    BY <2>48 DEF ForeignOpen
  <2>49. CASE ForeignClose
    BY <2>49 DEF ForeignClose
  <2>50. CASE UNCHANGED vars
    BY <2>50
  <2>51. CASE Reply
    BY <2>51 DEF Reply
  <2>52. CASE ReplyFails
    BY <2>52 DEF ReplyFails
  <2>. QED
    BY <2>1, <2>2, <2>3, <2>4, <2>5, <2>6, <2>7, <2>8, <2>9, <2>10, <2>11, <2>12, <2>13, <2>14,
      <2>15, <2>16, <2>17, <2>18, <2>19, <2>20, <2>21, <2>22, <2>23, <2>24, <2>25, <2>26,
      <2>27, <2>28, <2>29, <2>30, <2>31, <2>32, <2>33, <2>34, <2>35, <2>36, <2>37, <2>38,
      <2>39, <2>40, <2>41, <2>42, <2>43, <2>44, <2>45, <2>46, <2>47, <2>48, <2>49, <2>50, <2>51, <2>52 DEF
      Next, UI, Server, Fserve, Session, Pasv, DataPhase, SessionEnd
<1>2. Inv /\ Closed /\ [Next]_vars =>
        [\A s \in Slots, f \in Fds :
           pub[s] = f /\ tab[f] = s /\ tab'[f] = s /\ pub'[s] # f
             => /\ s = "data" /\ ui = "clear" /\ slot = "data"
                /\ pc \in {"pasvbind", "reply", "top", "enddata"}]_vars
  BY <1>1, Zenon DEF Forgets, MayForget, PasvDone
<1>. QED
  BY <1>2, Invariance, ClosedInvariance, PTL DEF Spec, ForgottenOnlyInStop

-----------------------------------------------------------------------------
(* The server implements a service.                                        *)

Waits == ui \in {"read", "close", "clear", "join"}
Holds == \E f \in Fds : tab[f] \in {"srv", "cli", "xfer"}

\* What a step of the server thread, of the descriptor table or within a stop does to the
\* switch, the stop and the thread: nothing, except for the thread's last step.
LEMMA QuietStep ==
  ASSUME TypeOK,
         StartFails \/ StartReturns \/ StopRead \/ StopClose \/ StopClear \/ (Server /\ ~Off)
           \/ Connect \/ ForeignOpen \/ ForeignClose
  PROVE  on' = on /\ Waits' = Waits /\ (pc' = "none" <=> pc = "none")
<1> USE DEF Waits, Goto, Keep, uiVars, srvVars
<1>1. CASE StartFails \/ StartReturns \/ StopClose \/ Connect \/ ForeignOpen \/ ForeignClose
  BY <1>1 DEF StartFails, StartReturns, StopClose, Connect, ForeignOpen, ForeignClose
<1>2. CASE StopRead \/ StopClear
  BY <1>2 DEF StopRead, StopClear, Advance
<1>3. CASE Fserve /\ ~Off
  BY <1>3 DEF Fserve, Boot, Bind, BindFails, Loop, Accept, AcceptFails, Finish, FinishBare, FinishClear
<1>4. CASE Session
  BY <1>4 DEF Session, PublishClient, Greet, GreetFails, Top, RecvEnds, Command,
    Reply, ReplyFails
<1>5. CASE Pasv
  BY <1>5 DEF Pasv, PasvClose, PasvSocket, PasvBind, PasvBindFails, PasvClear
<1>6. CASE DataPhase
  BY <1>6 DEF DataPhase, DataCommand, DataAccept, DataAcceptFails, DataClose, DataClear, PublishXfer,
    XferLoop, XferBlock, XferDone, XferFails, XferClose, XferClear
<1>7. CASE SessionEnd
  BY <1>7 DEF SessionEnd, EndData, EndBare, EndClear, EndClient, EndPublish
<1>. QED
  BY <1>1, <1>2, <1>3, <1>4, <1>5, <1>6, <1>7 DEF Server

\* The server starts as a service does.
LEMMA ServerInit == Init => FtpService!ServiceInit
BY DEF Init, FtpService!ServiceInit

\* Every step is a step of a service, or none.  A quiet one only changes what the thread
\* holds, and without a thread that is nothing.
LEMMA ServerStep ==
  (Inv /\ NoSocketLeft) /\ NoSocketLeft' /\ [Next]_vars => [FtpService!ServiceNext]_(FtpService!serviceVars)
<1> SUFFICES ASSUME Inv, NoSocketLeft, NoSocketLeft', [Next]_vars
             PROVE  [FtpService!ServiceNext]_(FtpService!serviceVars)
  OBVIOUS
<1>1. pc = "none" => ~Holds
  BY DEF NoSocketLeft, Holds
<1>2. pc' = "none" => ~Holds'
  BY DEF NoSocketLeft, Holds
<1>3. ASSUME on' = on, Waits' = Waits, pc' = "none" <=> pc = "none"
      PROVE  FtpService!Take \/ FtpService!Drop
  BY <1>2, <1>3 DEF FtpService!Take, FtpService!Drop, Waits, Holds
<1>4. CASE Start
  <2>1. ~on /\ ui = "idle" /\ pc = "none" /\ on' /\ pc' = "boot" /\ ui' = "sleep" /\ tab' = tab
    BY <1>4 DEF Start, Inv, Control, fdVars
  <2>. QED
    BY <2>1 DEF FtpService!Begin, FtpService!ServiceNext
<1>5. CASE Stop
  <2>1. on /\ ~on' /\ ui' = "read" /\ pc' = pc /\ tab' = tab
    BY <1>5 DEF Stop, fdVars, srvVars
  <2>. QED
    BY <2>1 DEF FtpService!BeginStop, FtpService!ServiceNext
<1>6. CASE StopJoin
  <2>1. ui = "join" /\ pc = "none" /\ ui' = "idle" /\ pc' = pc /\ on' = on /\ tab' = tab
    BY <1>6 DEF StopJoin, fdVars, srvVars
  <2>. QED
    BY <2>1 DEF FtpService!EndStop, FtpService!ServiceNext
<1>7. CASE Off
  <2>1. pc = "off" /\ pc' = "none" /\ ~on' /\ ui' = ui
    BY <1>7 DEF Off, Goto, Keep, uiVars
  <2>. QED
    BY <1>2, <2>1 DEF FtpService!End, FtpService!ServiceNext, Holds
<1>8. CASE StartFails \/ StartReturns \/ StopRead \/ StopClose \/ StopClear \/ (Server /\ ~Off)
             \/ Connect \/ ForeignOpen \/ ForeignClose
  <2>1. TypeOK
    BY DEF Inv
  <2>. QED
    BY <1>3, <1>8, <2>1, QuietStep DEF FtpService!ServiceNext
<1>9. CASE UNCHANGED vars
  BY <1>9 DEF vars, uiVars, srvVars, fdVars, FtpService!serviceVars
<1>. QED
  BY <1>4, <1>5, <1>6, <1>7, <1>8, <1>9 DEF Next, UI

\* The FTP server implements the service the UI thread counts on, for any descriptor
\* table, clients and bounds: one thread at a time, a stop that waits for it, nothing but
\* data listeners held when it is gone.
THEOREM ServerIsService == Spec => IsService
BY ServerInit, ServerStep, Invariance, NothingButListenersLeft, PTL
  DEF Spec, IsService, FtpService!ServiceSpec
=============================================================================
