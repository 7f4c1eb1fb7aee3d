------------------------------- MODULE Alerts --------------------------------
(***************************************************************************)
(* add_alert of source/main.c: the ring of toast notifications that the UI *)
(* thread, the FTP server thread and the telemetry check's thread all      *)
(* write without a lock.  A step is one access to notif_count, or one pass *)
(* over the slots between two of them.                                     *)
(***************************************************************************)
EXTENDS Naturals

CONSTANTS Callers,     \* threads that call add_alert
          NOTIF_MAX    \* slots

VARIABLES
  count,   \* notif_count
  pc,      \* pc[t]: "idle", "shift", "write", "incr", "store"
  loaded   \* loaded[t]: the notif_count that notif_count++ has read

vars == <<count, pc, loaded>>

TypeOK ==
  /\ count \in Nat
  /\ pc \in [Callers -> {"idle", "shift", "write", "incr", "store"}]
  /\ loaded \in [Callers -> Nat]

Init ==
  /\ count = 0
  /\ pc = [t \in Callers |-> "idle"]
  /\ loaded = [t \in Callers |-> 0]

Goto(t, from, to) == pc[t] = from /\ pc' = [pc EXCEPT ![t] = to]

\* notif_count >= NOTIF_MAX ?
Enter(t) ==
  /\ Goto(t, "idle", IF count >= NOTIF_MAX THEN "shift" ELSE "write")
  /\ UNCHANGED <<count, loaded>>

\* Every slot but the first moves down; the last becomes free.
Shift(t) ==
  /\ Goto(t, "shift", "write")
  /\ count' = NOTIF_MAX - 1
  /\ UNCHANGED loaded

\* The message and its tick go into slot notif_count.
Write(t) ==
  /\ Goto(t, "write", "incr")
  /\ UNCHANGED <<count, loaded>>

\* notif_count++ reads, then writes.
Load(t) ==
  /\ Goto(t, "incr", "store")
  /\ loaded' = [loaded EXCEPT ![t] = count]
  /\ UNCHANGED count

Store(t) ==
  /\ Goto(t, "store", "idle")
  /\ count' = loaded[t] + 1
  /\ UNCHANGED loaded

Next == \E t \in Callers : Enter(t) \/ Shift(t) \/ Write(t) \/ Load(t) \/ Store(t)

Spec == Init /\ [][Next]_vars

-----------------------------------------------------------------------------

\* "Shift older notifications to make room" (line 3652): a message is written to one
\* of the slots.
RoomMade == \A t \in Callers : pc[t] = "write" => count < NOTIF_MAX
=============================================================================
