------------------------------- MODULE Traffic -------------------------------
(***************************************************************************)
(* The traffic counters: the kernel's byte counters of each interface, the *)
(* reading of them (source/network_counters.c), the system module that     *)
(* reads them for others (network_sysmodule/source/main.c), and the two    *)
(* that sample them once a second: the overlay (overlay/source/main.cpp),  *)
(* which asks the system module over UDP and reads for itself if there is  *)
(* no answer within 250 ms, and the application (network_sample_traffic of *)
(* source/main.c).                                                         *)
(*                                                                         *)
(* One direction is modelled, the other is the same.  Rates are left out;  *)
(* a history holds what came in between two samples.                       *)
(***************************************************************************)
EXTENDS Integers, Sequences, FiniteSetsExt, Functions

CONSTANTS Ifaces,       \* interfaces, the loopback aside
          None,
          HistorySize,  \* HistorySize and NETWORK_TRAFFIC_HISTORY, 60
          MaxBytes,     \* bound: bytes an interface has counted
          MaxSamples,   \* bound: samples of a session
          MaxAsks       \* bound: sockets the overlay opens

ASSUME TrafficBounds == {HistorySize, MaxBytes, MaxSamples, MaxAsks} \subseteq Nat \ {0}
ASSUME IfacesAssumption == IsFiniteSet(Ifaces)
ASSUME NoneAssumption == None \notin Nat

VARIABLES
  bytes,   \* ifi_ibytes of each interface
  up,      \* the interfaces with IFF_UP
  watched, \* which of the two is watched; they do not affect one another
  s,       \* what it keeps
  h,       \* its session: was everything read, from where on, what was missed (history)
  ready,   \* socketReady
  ask,     \* where the overlay is in sampleTraffic
  sock,    \* the number of its latest client socket
  inbox,   \* the answer at that socket
  runs,    \* the system module runs
  mod,     \* the answer it has made and not sent yet
  queue    \* requests at its socket, by the socket they come from

trafficVars == <<bytes, up, watched, s, h, ready, ask, sock, inbox, runs, mod, queue>>

Fresh   == [base |-> FALSE, prev |-> 0, total |-> 0, ring |-> [i \in 0..HistorySize - 1 |-> 0],
            pos |-> 0, count |-> 0]
Session == [exact |-> TRUE, start |-> None, missed |-> 0, deltas |-> <<>>]

TrafficInit ==
  /\ bytes = [i \in Ifaces |-> 0] /\ up = Ifaces
  /\ watched \in {"overlay", "app"} /\ s = Fresh /\ h = Session
  /\ ready \in BOOLEAN /\ ask = "idle" /\ sock = 0 /\ inbox = None
  /\ runs \in BOOLEAN /\ mod = None /\ queue = <<>>

-----------------------------------------------------------------------------
(* The kernel.                                                             *)

sampling == <<watched, s, ready, ask, sock, inbox, runs, mod, queue>>

Count ==
  /\ \E i \in up : bytes[i] < MaxBytes /\ bytes' = [bytes EXCEPT ![i] = @ + 1]
  /\ UNCHANGED <<up, h, sampling>>

\* An interface goes up or down, or its counter begins again: sums no longer tell what
\* came in between.
Disturb ==
  /\ \/ \E i \in Ifaces : up' = (up \ {i}) \cup ({i} \ up) /\ UNCHANGED bytes
     \/ \E i \in Ifaces : bytes[i] > 0 /\ bytes' = [bytes EXCEPT ![i] = 0] /\ UNCHANGED up
  /\ h' = [h EXCEPT !.exact = @ /\ h.start = None]
  /\ inbox' = IF inbox = None THEN None ELSE [inbox EXCEPT !.whole = FALSE]
  /\ mod' = IF mod = None THEN None ELSE [mod EXCEPT !.answer.whole = FALSE]
  /\ UNCHANGED <<watched, s, ready, ask, sock, runs, queue>>

Total(S) == MapThenSumSet(LAMBDA i : bytes[i], S)

\* read_route_type with sum_legacy_messages or sum_long_messages: all or nothing.
RouteSum == Total(up)

\* read_ioctl_counters: interfaces that give an error are left out.  Of none at all it
\* makes a sum, too, if it can tell from loopback that flags can be read.
IoctlSums == {Total(S) : S \in SUBSET up}

\* network_counters_read: one of the three ways works, or none.
Reading(value, whole) == value \in IoctlSums \cup {RouteSum} /\ whole = (value = RouteSum)
Unread == [available |-> FALSE, value |-> 0, whole |-> TRUE]

-----------------------------------------------------------------------------
(* A sample.                                                               *)

\* sampleTraffic from the delta on, and network_sample_traffic; next, where the history
\* goes on.
Keep(value, whole, next) ==
  /\ Len(h.deltas) < MaxSamples
  /\ LET delta == IF ~s.base THEN 0 ELSE IF value >= s.prev THEN value - s.prev ELSE value
     IN  /\ s' = [base |-> TRUE, prev |-> value, total |-> s.total + delta,
                  ring |-> [s.ring EXCEPT ![s.pos] = delta], pos |-> next,
                  count |-> Min({s.count + 1, HistorySize})]
         /\ h' = [exact |-> h.exact /\ whole,
                  start |-> IF h.start = None THEN value ELSE h.start,
                  missed |-> IF s.base \/ h.start = None THEN h.missed ELSE h.missed + value - s.prev,
                  deltas |-> Append(h.deltas, delta)]

\* Mutant: the place of the next entry is taken from the number of entries.
SampleByCount(value, whole) == Keep(value, whole, Min({s.count + 1, HistorySize}) % HistorySize)

Sample(value, whole) == Keep(value, whole, (s.pos + 1) % HistorySize)

\* No counters: the next sample has nothing to compare with.
NoSample == s' = [s EXCEPT !.base = FALSE] /\ UNCHANGED h

\* What a direct read comes to.
SampleDirectly ==
  \/ \E value \in IoctlSums, whole \in BOOLEAN : Reading(value, whole) /\ Sample(value, whole)
  \/ NoSample

\* network_sample_traffic.
AppSample ==
  /\ watched = "app"
  /\ SampleDirectly
  /\ UNCHANGED <<bytes, up, watched, ready, ask, sock, inbox, runs, mod, queue>>

-----------------------------------------------------------------------------
(* The overlay.                                                            *)

kernel == <<bytes, up, watched>>

\* resetHistory, and the overlay opened anew.
ResetHistory ==
  /\ watched = "overlay" /\ ask = "idle"
  /\ s' = Fresh /\ h' = Session
  /\ ready' \in BOOLEAN
  /\ UNCHANGED <<kernel, ask, sock, inbox, runs, mod, queue>>

\* The BSD service could not be had.
NotReady ==
  /\ watched = "overlay" /\ ask = "idle" /\ ~ready
  /\ NoSample
  /\ UNCHANGED <<kernel, ready, ask, sock, inbox, runs, mod, queue>>

\* Mutant: one client socket serves all requests.
AskAgain ==
  /\ watched = "overlay" /\ ask = "idle" /\ ready /\ sock < MaxAsks
  /\ sock' = 1 /\ inbox' = None /\ Len(queue) < MaxAsks
  /\ ask' = "poll"
  /\ queue' = IF ~runs THEN queue ELSE Append(queue, sock')
  /\ UNCHANGED <<kernel, s, h, ready, runs, mod>>

\* readSystemModuleCounters: a socket of its own for every request.
Ask ==
  /\ watched = "overlay" /\ ask = "idle" /\ ready /\ sock < MaxAsks
  /\ sock' = sock + 1 /\ inbox' = None
  /\ ask' = "poll"
  /\ queue' = IF ~runs THEN queue ELSE Append(queue, sock')
  /\ UNCHANGED <<kernel, s, h, ready, runs, mod>>

\* An answer with counters.
Answered ==
  /\ ask = "poll" /\ inbox # None /\ inbox.available
  /\ Sample(inbox.value, inbox.whole)
  /\ ask' = "idle" /\ inbox' = None
  /\ UNCHANGED <<kernel, ready, sock, runs, mod, queue>>

\* No answer within 250 ms, no socket, or an answer without counters.
Unanswered ==
  /\ ask = "poll"
  /\ inbox # None => ~inbox.available
  /\ ask' = "direct" /\ inbox' = None
  /\ UNCHANGED <<kernel, s, h, ready, sock, runs, mod, queue>>

Direct ==
  /\ ask = "direct"
  /\ SampleDirectly
  /\ ask' = "idle"
  /\ UNCHANGED <<kernel, ready, sock, inbox, runs, mod, queue>>

-----------------------------------------------------------------------------
(* The system module: main.                                                *)

\* A request is received, and network_counters_read.
Receive ==
  /\ runs /\ mod = None /\ queue # <<>>
  /\ \E answer \in {Unread} \cup {[available |-> TRUE, value |-> v, whole |-> v = RouteSum] : v \in IoctlSums} :
       mod' = [to |-> Head(queue), answer |-> answer]
  /\ queue' = Tail(queue)
  /\ UNCHANGED <<kernel, s, h, ready, ask, sock, inbox, runs>>

\* sendto: what goes to a socket that was closed is lost.
Respond ==
  /\ runs /\ mod # None
  /\ inbox' = IF mod.to = sock /\ ask = "poll" THEN mod.answer ELSE inbox
  /\ mod' = None
  /\ UNCHANGED <<kernel, s, h, ready, ask, sock, runs, queue>>

\* The module is started; when it ends its socket goes, with the requests in it.
Boot ==
  /\ runs' = ~runs
  /\ mod' = None /\ queue' = <<>>
  /\ UNCHANGED <<kernel, s, h, ready, ask, sock, inbox>>

Overlay == ResetHistory \/ NotReady \/ Ask \/ Answered \/ Unanswered \/ Direct
Module  == Receive \/ Respond \/ Boot
TrafficNext == Count \/ Disturb \/ Overlay \/ Module \/ AppSample
TrafficSpec == TrafficInit /\ [][TrafficNext]_trafficVars

-----------------------------------------------------------------------------
(* Properties.                                                             *)

\* While every interface stays up and keeps counting and all of them are read, the
\* session totals of the overlay and of the application lose and repeat nothing,
\* whoever the counters came from in between (the system module in time, too late or
\* not at all, or a direct read): they are what the counters went up by since the
\* first sample, less what passed while nothing could be read.
TotalsAccount ==
  h.exact /\ h.start # None => s.prev = h.start + s.total + h.missed /\ h.missed >= 0

\* What exportHistory writes and the graphs draw, oldest first.
Exported == [i \in 1..s.count |-> s.ring[(s.pos - s.count + i - 1 + HistorySize) % HistorySize]]

\* The exported history is the latest samples of this session in their order, across
\* any number of turns of the ring, failed samples and resets.
HistoryIsLatest ==
  LET n == Len(h.deltas)
  IN  s.count = Min({n, HistorySize}) /\ Exported = SubSeq(h.deltas, n - s.count + 1, n)
=============================================================================
