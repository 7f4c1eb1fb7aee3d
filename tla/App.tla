--------------------------------- MODULE App ---------------------------------
(***************************************************************************)
(* The application around its UI thread: the MTP worker beside the fan     *)
(* that the UI thread has to look after.  The UI thread does one thing at  *)
(* a time: while mtp_server_stop waits for the worker, the loop of main    *)
(* stands still.  What the worker does in a data phase is in MtpTransfer.  *)
(***************************************************************************)
EXTENDS MtpWrapper, Fan

appVars == <<mtpVars, fanVars>>

AppTypeOK == MtpTypeOK /\ FanTypeOK
AppInit   == MtpInit /\ FanInit

\* exit_app, its first step: fan_service_restore.
LeaveProgram ==
  /\ Exit
  /\ Restore
  /\ UNCHANGED <<user, temp, heat, popup>>

Worker   == (Work \/ Requests) /\ UNCHANGED fanVars
Switches == Control /\ UNCHANGED fanVars
FanLoop  == ui = "idle" /\ FanUI /\ UNCHANGED mtpVars
World    == (Heat \/ Second(ui # "idle")) /\ UNCHANGED mtpVars

AppNext == Worker \/ Switches \/ LeaveProgram \/ FanLoop \/ World
AppSpec == AppInit /\ [][AppNext]_appVars

\* The fan is in the system's hands before anything on the way out can wait for a thread
\* (exit_app, main.c:11070-11076), whatever popup was open when it began.
FanGivenBack == quit => ~open /\ ~manual
=============================================================================
