------------------------------- MODULE Service -------------------------------
(***************************************************************************)
(* What a service with a thread of its own (the FTP server, the MTP        *)
(* responder) promises the UI thread that starts and stops it: there is    *)
(* one worker at a time, a stop returns only when the worker is gone, and  *)
(* a worker that is gone holds nothing.                                    *)
(***************************************************************************)

VARIABLES
  asked,    \* the switch the user sees
  waits,    \* the UI thread is stopping the service
  worker,   \* a thread is at work
  holds     \* it holds sockets, the USB session or the objects it works with

serviceVars == <<asked, waits, worker, holds>>

ServiceInit == ~asked /\ ~waits /\ ~worker /\ ~holds

Begin ==
  /\ ~asked /\ ~waits /\ ~worker
  /\ asked' /\ worker'
  /\ UNCHANGED <<waits, holds>>

Take == worker /\ holds' /\ UNCHANGED <<asked, waits, worker>>
Drop == ~holds' /\ UNCHANGED <<asked, waits, worker>>

\* The worker ends, told to or on its own; it may turn the switch off.
End ==
  /\ worker /\ ~worker' /\ ~holds'
  /\ asked' => asked
  /\ UNCHANGED waits

BeginStop == asked /\ ~asked' /\ waits' /\ UNCHANGED <<worker, holds>>
EndStop   == waits /\ ~worker /\ ~waits' /\ UNCHANGED <<asked, worker, holds>>

ServiceNext == Begin \/ Take \/ Drop \/ End \/ BeginStop \/ EndStop
ServiceSpec == ServiceInit /\ [][ServiceNext]_serviceVars
=============================================================================
