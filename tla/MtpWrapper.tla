------------------------------ MODULE MtpWrapper ------------------------------
(***************************************************************************)
(* The life of the MTP worker thread (source/mtp/mtp_wrapper.cpp): the UI  *)
(* thread starts and stops it (mtp_start_local and mtp_stop_local of       *)
(* source/main.c, mtp_server_start and mtp_server_stop), the worker sets   *)
(* USB up, publishes its server object and serves the host until told to   *)
(* stop.                                                                   *)
(*                                                                         *)
(* The two threads share g_running and g_stop_requested (atomics), g_server*)
(* under g_server_mutex, and the server's mRunning.  A step is one access  *)
(* to shared state; what is done under the mutex is one step.              *)
(***************************************************************************)

VARIABLES
  on,        \* mtp_on
  running,   \* g_running
  stopping,  \* g_stop_requested
  handle,    \* g_thread is not NULL
  server,    \* g_server is not NULL
  alive,     \* the server object, with its storage and database, exists
  serve,     \* its mRunning
  usb,       \* the USB device session is open (g_usbCommsInitialized)
  pc,        \* where the worker is; "none": there is no thread
  ui,        \* where the UI thread is
  quit       \* the program is on its way out

mtpVars == <<on, running, stopping, handle, server, alive, serve, usb, pc, ui, quit>>

\* From the first test of mRunning to the last.
InRun == {"loop", "wait", "transfer", "answer"}

MtpTypeOK ==
  /\ {on, running, stopping, handle, server, alive, serve, usb, quit} \subseteq BOOLEAN
  /\ pc \in {"none", "usb", "build", "publish", "flag", "check", "leave", "delete", "exit", "ended"} \cup InRun
  /\ ui \in {"idle", "clear", "tell", "join", "exit", "exited"}

MtpInit ==
  /\ on = FALSE /\ running = FALSE /\ stopping = FALSE /\ handle = FALSE
  /\ server = FALSE /\ alive = FALSE /\ serve = FALSE /\ usb = FALSE
  /\ pc = "none" /\ ui = "idle" /\ quit = FALSE

-----------------------------------------------------------------------------
(* The UI thread.                                                          *)

\* mtp_start_local and mtp_server_start: a thread that was left is joined first.
MtpStart ==
  /\ ui = "idle" /\ ~on /\ ~running
  /\ handle => pc = "ended"
  /\ stopping' = FALSE
  /\ handle' = TRUE /\ pc' = "usb" /\ on' = TRUE
  /\ UNCHANGED <<running, server, alive, serve, usb, ui, quit>>

\* The same when std::thread throws.
MtpStartFails ==
  /\ ui = "idle" /\ ~on /\ ~running
  /\ handle => pc = "ended"
  /\ stopping' = FALSE
  /\ handle' = FALSE /\ pc' = "none"
  /\ UNCHANGED <<on, running, server, alive, serve, usb, ui, quit>>

\* exit_app.
Exit ==
  /\ ui = "idle"
  /\ quit' = TRUE /\ ui' = "exit"
  /\ UNCHANGED <<on, running, stopping, handle, server, alive, serve, usb, pc>>

\* MTP is off by now: main goes on to its end.
ExitDone ==
  /\ ui = "exit" /\ ~on
  /\ ui' = "exited"
  /\ UNCHANGED <<on, running, stopping, handle, server, alive, serve, usb, pc, quit>>

\* mtp_stop_local or exit_app (which clears mtp_on after the call), and mtp_server_stop
\* up to its first store.
MtpStop ==
  /\ ui \in {"idle", "exit"} /\ on
  /\ on' = FALSE
  /\ stopping' = TRUE
  /\ ui' = "clear"
  /\ UNCHANGED <<running, handle, server, alive, serve, usb, pc, quit>>

StopClear ==
  /\ ui = "clear"
  /\ running' = FALSE
  /\ ui' = "tell"
  /\ UNCHANGED <<on, stopping, handle, server, alive, serve, usb, pc, quit>>

\* MtpServer::stop, under g_server_mutex.
StopTell ==
  /\ ui = "tell"
  /\ serve' = IF server THEN FALSE ELSE serve
  /\ ui' = "join"
  /\ UNCHANGED <<on, running, stopping, handle, server, alive, usb, pc, quit>>

\* Mutant: the worker is not waited for.
StopJoinNot ==
  /\ ui = "join"
  /\ handle' = FALSE /\ ui' = "idle"
  /\ UNCHANGED <<on, running, stopping, server, alive, serve, usb, pc, quit>>

StopJoin ==
  /\ ui = "join"
  /\ handle => pc = "ended"
  /\ handle' = FALSE /\ pc' = "none" /\ ui' = IF quit THEN "exit" ELSE "idle"
  /\ UNCHANGED <<on, running, stopping, server, alive, serve, usb, quit>>

-----------------------------------------------------------------------------
(* The worker: mtp_thread_func and MtpServer::run.                         *)

OpenUsb ==
  /\ pc = "usb"
  /\ usb' = TRUE /\ pc' = "build"
  /\ UNCHANGED <<on, running, stopping, handle, server, alive, serve, ui, quit>>

\* usbInitialize fails, and has called usbExit itself.
OpenUsbFails ==
  /\ pc = "usb"
  /\ running' = FALSE /\ pc' = "ended"
  /\ UNCHANGED <<on, stopping, handle, server, alive, serve, usb, ui, quit>>

Build ==
  /\ pc = "build"
  /\ alive' = TRUE /\ serve' = TRUE /\ pc' = "publish"
  /\ UNCHANGED <<on, running, stopping, handle, server, usb, ui, quit>>

\* There is no memory for the server.
BuildFails ==
  /\ pc = "build"
  /\ usb' = FALSE /\ running' = FALSE /\ pc' = "ended"
  /\ UNCHANGED <<on, stopping, handle, server, alive, serve, ui, quit>>

Publish ==
  /\ pc = "publish"
  /\ server' = TRUE /\ pc' = "flag"
  /\ UNCHANGED <<on, running, stopping, handle, alive, serve, usb, ui, quit>>

Flag ==
  /\ pc = "flag"
  /\ running' = TRUE /\ pc' = "check"
  /\ UNCHANGED <<on, stopping, handle, server, alive, serve, usb, ui, quit>>

\* Mutant: a stop that came before the server was published is forgotten.
CheckNot ==
  /\ pc = "check"
  /\ pc' = "loop"
  /\ UNCHANGED <<on, running, stopping, handle, server, alive, serve, usb, ui, quit>>

Check ==
  /\ pc = "check"
  /\ pc' = IF stopping THEN "leave" ELSE "loop"
  /\ UNCHANGED <<on, running, stopping, handle, server, alive, serve, usb, ui, quit>>

\* The test of the loop of run().
Loop ==
  /\ pc = "loop"
  /\ pc' = IF serve THEN "wait" ELSE "leave"
  /\ UNCHANGED <<on, running, stopping, handle, server, alive, serve, usb, ui, quit>>

\* Reading a request times out after a second.
ReadNothing ==
  /\ pc = "wait"
  /\ pc' = "loop"
  /\ UNCHANGED <<on, running, stopping, handle, server, alive, serve, usb, ui, quit>>

\* A request that is carried out without the host.
Serve ==
  /\ pc = "wait"
  /\ pc' = "answer"
  /\ UNCHANGED <<on, running, stopping, handle, server, alive, serve, usb, ui, quit>>

\* A request with a data phase: the worker is with the host until that is over.
BeginTransfer ==
  /\ pc = "wait"
  /\ pc' = "transfer"
  /\ UNCHANGED <<on, running, stopping, handle, server, alive, serve, usb, ui, quit>>

EndTransfer ==
  /\ pc = "transfer"
  /\ pc' = "answer"
  /\ UNCHANGED <<on, running, stopping, handle, server, alive, serve, usb, ui, quit>>

\* The host has read the data container, if there is one, and the response, or the
\* connection broke.  USBMtpInterface::write has no timeout.
Answer ==
  /\ pc = "answer"
  /\ pc' = "loop"
  /\ UNCHANGED <<on, running, stopping, handle, server, alive, serve, usb, ui, quit>>

\* g_server is cleared, under g_server_mutex.
Leave ==
  /\ pc = "leave"
  /\ server' = FALSE /\ pc' = "delete"
  /\ UNCHANGED <<on, running, stopping, handle, alive, serve, usb, ui, quit>>

Remove ==
  /\ pc = "delete"
  /\ alive' = FALSE /\ pc' = "exit"
  /\ UNCHANGED <<on, running, stopping, handle, server, serve, usb, ui, quit>>

Finish ==
  /\ pc = "exit"
  /\ usb' = FALSE /\ running' = FALSE /\ pc' = "ended"
  /\ UNCHANGED <<on, stopping, handle, server, alive, serve, ui, quit>>

\* The parts of the worker that need neither the host nor the UI thread.
Work == OpenUsb \/ OpenUsbFails \/ Build \/ BuildFails \/ Publish \/ Flag \/ Check \/ Loop
          \/ ReadNothing \/ Leave \/ Remove \/ Finish
Stopping == StopClear \/ StopTell \/ StopJoin
Control == MtpStart \/ MtpStartFails \/ MtpStop \/ Stopping \/ ExitDone
Requests == Serve \/ BeginTransfer \/ EndTransfer \/ Answer
MtpNext == Control \/ Exit \/ Work \/ Requests

MtpSpec == MtpInit /\ [][MtpNext]_mtpVars

-----------------------------------------------------------------------------
(* Properties.                                                             *)

\* The responder as the UI thread sees it.
Responder == INSTANCE Service WITH
  asked <- on, waits <- ui \in {"clear", "tell", "join"},
  worker <- pc \notin {"none", "ended"}, holds <- usb \/ alive \/ server

\* The responder keeps the promises of a service (mtp_server_start, mtp_server_stop):
\* one worker at a time, a stop that waits for it, nothing held when it is gone.
IsService == Responder!ServiceSpec

\* When mtp_server_stop waits for the worker, the worker knows: it is told by the
\* flag if it has not published its server yet, by the server if it has, and cannot
\* slip between the two into a loop nobody ends (mtp_wrapper.cpp:90-96, 136-142).
NoLostStop ==
  ui = "join" =>
    /\ pc \in InRun => ~serve
    /\ pc \in {"usb", "build", "publish", "flag", "check"} => stopping

\* The object mtp_server_stop calls through g_server exists.
TellsLiveServer == server => alive

\* While MTP is off and the UI thread is not stopping it, nothing of the last session
\* is left: no thread, no server, no USB session, and nothing that would make the next
\* start believe it is running (mtp_start_local looks at mtp_on and g_running only).
NothingLeft ==
  (ui \in {"idle", "exit"} /\ ~on) \/ ui = "exited" =>
    /\ ~handle /\ pc = "none" /\ ~running
    /\ ~server /\ ~alive /\ ~usb
=============================================================================
