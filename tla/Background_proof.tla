--------------------------- MODULE Background_proof ---------------------------
(***************************************************************************)
(* What the application keeps doing while the user goes on: the background *)
(* workers, and the samples of the traffic counters.                       *)
(*                                                                         *)
(* The workers, for any hosts and any size of the SD card's root: who is   *)
(* at work (Threads), what the telemetry check has found so far (Asked),   *)
(* what a scan has counted (Counts) and what is listed of it (Listed).     *)
(*                                                                         *)
(* The samples, for a ring of any size, any number of samples, any         *)
(* interfaces and whatever the counters do: seen from the place the next   *)
(* sample goes to, the entry k places back is the k-th latest sample       *)
(* (Ring); and a session's totals account for the counters (Accounts),     *)
(* because an answer that will be read was made after its request, so it   *)
(* is neither behind the last sample nor ahead of the counters.            *)
(***************************************************************************)
EXTENDS Workers, Traffic, SequenceTheorems, FiniteSetTheorems, WellFoundedInduction, TLAPS

\* Until the exit a thread exists exactly while its handle is open; nobody starts one over it.
Threads ==
  /\ \A w \in Workers : handle[w] = "open" => thr[w] # "none"
  /\ \A w \in Workers : thr[w] # "none" =>
       Exiting \/ (handle[w] = "open" /\ (started[w] \/ (ui = "launch" /\ who = w)))
  /\ ui = "create" => thr[who] = "none"
  /\ ui = "launch" => thr[who] = "ready"

\* Until the exit the check is only ever stopped by its own last store, and it has no
\* verdict before it is told.
Asked ==
  /\ thr["antiban"] \in {"ready", "work", "told"} /\ ~Exiting => flag["antiban"]
  /\ thr["antiban"] \in {"ready", "work"} => overall = "testing"
  /\ \A name \in asked : host[name] \in {"blocked", "unblocked"}
  /\ ShieldMeansBlocked

\* A scan's tallies agree with what it has visited.
Counts ==
  /\ scan.bytes = scan.seen
  /\ scan.kept = (IF scan.seen < MaxKept THEN scan.seen ELSE MaxKept)
  /\ scan.truncated = (scan.seen > MaxKept)

\* No list is shown while a scan is at work, and the sorted one covers what is kept.
Listed ==
  /\ thr["scan"] \in {"ready", "work"} => scan.state = "idle" /\ ~scan.cached /\ ~detail
  /\ scan.cached => scan.sorted = scan.kept
  /\ DetailIsSorted

WorkersInv == TypeOK /\ Threads /\ Asked /\ Counts /\ Listed
-----------------------------------------------------------------------------

\* A scan that has just been reset, in either state, has the right type and tallies.
LEMMA EmptyScan ==
  ASSUME NEW st \in {"idle", "failed"}, scan \in Scan,
         scan' = [scan EXCEPT !.state = st, !.kept = 0, !.bytes = 0, !.truncated = FALSE,
                              !.cancel = FALSE, !.cached = FALSE, !.seen = 0]
  PROVE  scan' \in Scan /\ Counts'
<1>1. scan' = [state |-> st, kept |-> 0, bytes |-> 0, truncated |-> FALSE, cancel |-> FALSE,
               cached |-> FALSE, sorted |-> scan.sorted, seen |-> 0]
  BY DEF Scan
<1>2. 0 \in 0..MaxKept /\ 0 \in 0..MaxFound /\ scan.sorted \in 0..MaxKept
  BY BoundsAssumption DEF Scan
<1>3. scan' \in Scan
  BY <1>1, <1>2 DEF Scan
<1>4. (0 > MaxKept) = FALSE /\ (IF 0 < MaxKept THEN 0 ELSE MaxKept) = 0
  BY BoundsAssumption
<1>5. scan'.truncated = FALSE /\ scan'.seen = 0 /\ scan'.bytes = 0 /\ scan'.kept = 0
  BY <1>1
<1>6. Counts'
  BY <1>4, <1>5, Zenon DEF Counts
<1>. QED
  BY <1>3, <1>6

\* One more entry is added up: the tallies follow.
LEMMA OneMoreEntry ==
  ASSUME scan \in Scan, Counts, ScanEntry
  PROVE  scan' \in Scan /\ Counts'
<1> USE BoundsAssumption DEF Scan
<1>1. scan.seen \in Nat /\ scan.seen + 1 \in 0..MaxFound /\ scan.bytes = scan.seen
  BY DEF ScanEntry, Counts
<1>2. scan.kept \in 0..MaxKept /\ scan.kept = (IF scan.seen < MaxKept THEN scan.seen ELSE MaxKept)
  BY DEF Counts
<1>3. scan'.seen = scan.seen + 1 /\ scan'.bytes = scan.seen + 1
  BY <1>1 DEF ScanEntry
<1>4. scan'.kept = (IF scan.kept < MaxKept THEN scan.kept + 1 ELSE scan.kept)
  BY DEF ScanEntry
<1>5. scan'.truncated = (scan.truncated \/ scan.kept = MaxKept)
  BY DEF ScanEntry
<1>6. scan'.kept \in 0..MaxKept
      /\ scan'.kept = (IF scan.seen + 1 < MaxKept THEN scan.seen + 1 ELSE MaxKept)
  BY <1>1, <1>2, <1>4
<1>7. (scan.seen > MaxKept \/ scan.kept = MaxKept) <=> scan.seen + 1 > MaxKept
  BY <1>1, <1>2
<1>8. scan'.truncated = (scan'.seen > MaxKept)
  <2>1. scan.truncated = (scan.seen > MaxKept)
    BY DEF Counts
  <2>. QED
    BY <1>3, <1>5, <1>7, <2>1
<1>9. Counts'
  BY <1>3, <1>6, <1>8 DEF Counts
<1>10. scan'.truncated \in BOOLEAN
  BY <1>8
<1>11. scan' = [scan EXCEPT !.seen = scan'.seen, !.bytes = scan'.bytes, !.kept = scan'.kept,
                            !.truncated = scan'.truncated]
  BY <1>3, <1>4, <1>5 DEF ScanEntry
<1>12. scan' \in Scan
  BY <1>1, <1>3, <1>6, <1>10, <1>11
<1>. QED
  BY <1>9, <1>12

\* A failed launch and the start of a cleanup clear at most one flag, mark at most one
\* worker as started.
LEMMA FlagTypes ==
  ASSUME TypeOK, LaunchFails \/ TestFlag
  PROVE  flag' \in [Workers -> BOOLEAN] /\ started' \in [Workers -> BOOLEAN]
<1>1. flag \in [Workers -> BOOLEAN] /\ started \in [Workers -> BOOLEAN]
  BY DEF TypeOK
<1>2. flag' = flag \/ flag' = [flag EXCEPT ![who] = FALSE]
  BY DEF LaunchFails, TestFlag, Set
<1>3. started' = started \/ started' = [started EXCEPT ![who] = TRUE]
  BY DEF LaunchFails, TestFlag, Set
<1>4. flag' \in [Workers -> BOOLEAN]
  BY <1>1, <1>2
<1>5. started' \in [Workers -> BOOLEAN]
  BY <1>1, <1>3
<1>. QED
  BY <1>4, <1>5

\* The initial state satisfies the invariant.
LEMMA WorkersInitial == Init => WorkersInv
<1> SUFFICES ASSUME Init PROVE WorkersInv
  OBVIOUS
<1> USE BoundsAssumption DEF Init
<1>1. scan \in Scan
  BY DEF Scan
<1>2. TypeOK
  BY <1>1 DEF TypeOK, Workers, HostStates
<1>3. Threads
  BY DEF Threads
<1>4. Asked
  BY DEF Asked, ShieldMeansBlocked, Workers
<1>5. Counts
  <2>1. (0 > MaxKept) = FALSE /\ (IF 0 < MaxKept THEN 0 ELSE MaxKept) = 0
    OBVIOUS
  <2>2. scan.truncated = FALSE /\ scan.seen = 0 /\ scan.bytes = 0 /\ scan.kept = 0
    OBVIOUS
  <2>. QED
    BY <2>1, <2>2, Zenon DEF Counts
<1>6. Listed
  BY DEF Listed, DetailIsSorted, Workers
<1>. QED
  BY <1>2, <1>3, <1>4, <1>5, <1>6 DEF WorkersInv

\* Every step keeps the types; that a tally stays in its range needs the counts.
LEMMA TypeStep == (TypeOK /\ Counts) /\ [Next]_vars => TypeOK'
<1> SUFFICES ASSUME TypeOK, Counts, [Next]_vars PROVE TypeOK'
  OBVIOUS
<1> USE BoundsAssumption DEF TypeOK, HostStates, Scan, Counts, Set, Close, Exited, Reset,
    ResetScan, Onwards, Enter, threads, uiVars, banVars, sdVars, Workers
<1>1. CASE Reap
  BY <1>1 DEF Reap
<1>2. CASE Create
  <2>1. flag' \in [Workers -> BOOLEAN] /\ started' \in [Workers -> BOOLEAN]
    BY <1>2 DEF Create
  <2>2. handle' \in [Workers -> {"none", "open", "stale"}]
    BY <1>2 DEF Create
  <2>3. thr' \in [Workers -> {"none", "ready", "work", "told", "ending", "exited"}]
    BY <1>2 DEF Create
  <2>4. ui' \in {"idle", "reap", "create", "launch", "test", "wait", "close", "gone"} /\ who' \in Workers
    BY <1>2 DEF Create
  <2>5. host' \in [Hosts -> HostStates] /\ asked' \in SUBSET Hosts /\ overall' \in HostStates
    BY <1>2 DEF Create
  <2>6. scan' \in Scan
    <3>1. CASE who = "scan"
      BY <1>2, <3>1, EmptyScan DEF Create
    <3>2. CASE who # "scan"
      BY <1>2, <3>2 DEF Create
    <3>. QED
      BY <3>1, <3>2
  <2>7. detail' \in BOOLEAN /\ picked' \in BOOLEAN
    BY <1>2 DEF Create
  <2>. QED
    BY <2>1, <2>2, <2>3, <2>4, <2>5, <2>6, <2>7
<1>3. CASE CreateFails
  <2>1. flag' \in [Workers -> BOOLEAN] /\ started' \in [Workers -> BOOLEAN]
    BY <1>3 DEF CreateFails
  <2>2. handle' \in [Workers -> {"none", "open", "stale"}]
    BY <1>3 DEF CreateFails
  <2>3. thr' \in [Workers -> {"none", "ready", "work", "told", "ending", "exited"}]
    BY <1>3 DEF CreateFails
  <2>4. ui' \in {"idle", "reap", "create", "launch", "test", "wait", "close", "gone"} /\ who' \in Workers
    BY <1>3 DEF CreateFails
  <2>5. host' \in [Hosts -> HostStates] /\ asked' \in SUBSET Hosts /\ overall' \in HostStates
    BY <1>3 DEF CreateFails
  <2>6. scan' \in Scan
    <3>1. CASE who = "scan"
      BY <1>3, <3>1, EmptyScan DEF CreateFails
    <3>2. CASE who # "scan"
      BY <1>3, <3>2 DEF CreateFails
    <3>. QED
      BY <3>1, <3>2
  <2>7. detail' \in BOOLEAN /\ picked' \in BOOLEAN
    BY <1>3 DEF CreateFails
  <2>. QED
    BY <2>1, <2>2, <2>3, <2>4, <2>5, <2>6, <2>7
<1>4. CASE Launch
  BY <1>4 DEF Launch
<1>5. CASE LaunchFails
  <2>1. flag' \in [Workers -> BOOLEAN] /\ started' \in [Workers -> BOOLEAN]
    BY <1>5, FlagTypes
  <2>2. handle' \in [Workers -> {"none", "open", "stale"}]
    BY <1>5 DEF LaunchFails
  <2>3. thr' \in [Workers -> {"none", "ready", "work", "told", "ending", "exited"}]
    BY <1>5 DEF LaunchFails
  <2>4. ui' \in {"idle", "reap", "create", "launch", "test", "wait", "close", "gone"} /\ who' \in Workers
    BY <1>5 DEF LaunchFails
  <2>5. host' \in [Hosts -> HostStates] /\ asked' \in SUBSET Hosts /\ overall' \in HostStates
    BY <1>5 DEF LaunchFails
  <2>6. scan' \in Scan
    BY <1>5 DEF LaunchFails
  <2>7. detail' \in BOOLEAN /\ picked' \in BOOLEAN
    BY <1>5 DEF LaunchFails
  <2>. QED
    BY <2>1, <2>2, <2>3, <2>4, <2>5, <2>6, <2>7
<1>6. CASE Draw
  BY <1>6 DEF Draw
<1>7. CASE Pick
  BY <1>7 DEF Pick
<1>8. CASE Exit
  BY <1>8 DEF Exit
<1>9. CASE TestFlag
  <2>1. flag' \in [Workers -> BOOLEAN] /\ started' \in [Workers -> BOOLEAN]
    BY <1>9, FlagTypes
  <2>2. handle' \in [Workers -> {"none", "open", "stale"}]
    BY <1>9 DEF TestFlag
  <2>3. thr' \in [Workers -> {"none", "ready", "work", "told", "ending", "exited"}]
    BY <1>9 DEF TestFlag
  <2>4. ui' \in {"idle", "reap", "create", "launch", "test", "wait", "close", "gone"} /\ who' \in Workers
    BY <1>9 DEF TestFlag
  <2>5. host' \in [Hosts -> HostStates] /\ asked' \in SUBSET Hosts /\ overall' \in HostStates
    BY <1>9 DEF TestFlag
  <2>6. scan' \in Scan
    BY ZenonT(40), <1>9 DEF TestFlag
  <2>7. detail' \in BOOLEAN /\ picked' \in BOOLEAN
    BY <1>9 DEF TestFlag
  <2>. QED
    BY <2>1, <2>2, <2>3, <2>4, <2>5, <2>6, <2>7
<1>10. CASE Wait
  BY <1>10 DEF Wait
<1>11. CASE CloseAtExit
  <2>1. flag' \in [Workers -> BOOLEAN] /\ started' \in [Workers -> BOOLEAN]
    <3>1. flag' = flag
      BY <1>11 DEF CloseAtExit
    <3>2. CASE started[who] /\ who = "net"
      <4>1. started' = [started EXCEPT ![who] = TRUE]
        BY <1>11, <3>2 DEF CloseAtExit
      <4>. QED
        BY <3>1, <4>1
    <3>3. CASE started[who] /\ who # "net"
      <4>1. started' = [started EXCEPT ![who] = FALSE]
        BY <1>11, <3>3 DEF CloseAtExit
      <4>. QED
        BY <3>1, <4>1
    <3>4. CASE ~started[who]
      BY <1>11, <3>1, <3>4 DEF CloseAtExit
    <3>. QED
      BY <3>2, <3>3, <3>4
  <2>2. handle' \in [Workers -> {"none", "open", "stale"}]
    BY <1>11 DEF CloseAtExit
  <2>3. thr' \in [Workers -> {"none", "ready", "work", "told", "ending", "exited"}]
    BY <1>11 DEF CloseAtExit
  <2>4. ui' \in {"idle", "reap", "create", "launch", "test", "wait", "close", "gone"} /\ who' \in Workers
    BY <1>11 DEF CloseAtExit
  <2>5. host' \in [Hosts -> HostStates] /\ asked' \in SUBSET Hosts /\ overall' \in HostStates
    BY <1>11 DEF CloseAtExit
  <2>6. scan' \in Scan
    BY <1>11 DEF CloseAtExit
  <2>7. detail' \in BOOLEAN /\ picked' \in BOOLEAN
    BY <1>11 DEF CloseAtExit
  <2>. QED
    BY <2>1, <2>2, <2>3, <2>4, <2>5, <2>6, <2>7
<1>12. CASE NetTest
  BY <1>12 DEF NetTest
<1>13. CASE AskHost
  BY <1>13 DEF AskHost
<1>14. CASE Verdict
  BY <1>14 DEF Verdict
<1>15. CASE BanDone
  BY <1>15 DEF BanDone
<1>16. CASE ScanEntry
  <2>1. flag' \in [Workers -> BOOLEAN] /\ started' \in [Workers -> BOOLEAN]
    BY <1>16 DEF ScanEntry
  <2>2. handle' \in [Workers -> {"none", "open", "stale"}]
    BY <1>16 DEF ScanEntry
  <2>3. thr' \in [Workers -> {"none", "ready", "work", "told", "ending", "exited"}]
    BY <1>16 DEF ScanEntry
  <2>4. ui' \in {"idle", "reap", "create", "launch", "test", "wait", "close", "gone"} /\ who' \in Workers
    BY <1>16 DEF ScanEntry
  <2>5. host' \in [Hosts -> HostStates] /\ asked' \in SUBSET Hosts /\ overall' \in HostStates
    BY <1>16 DEF ScanEntry
  <2>6. scan' \in Scan
    BY <1>16, OneMoreEntry
  <2>7. detail' \in BOOLEAN /\ picked' \in BOOLEAN
    BY <1>16 DEF ScanEntry
  <2>. QED
    BY <2>1, <2>2, <2>3, <2>4, <2>5, <2>6, <2>7
<1>17. CASE ScanDone
  BY <1>17 DEF ScanDone, ScanEnds
<1>18. CASE ScanFails
  BY <1>18 DEF ScanFails, ScanEnds
<1>19. ASSUME NEW w \in Workers, Begin(w) PROVE TypeOK'
  BY <1>19 DEF Begin
<1>20. ASSUME NEW w \in Workers, End(w) PROVE TypeOK'
  BY <1>20 DEF End
<1>21. CASE UNCHANGED vars
  BY <1>21 DEF vars
<1>. QED
  BY <1>1, <1>2, <1>3, <1>4, <1>5, <1>6, <1>7, <1>8, <1>9, <1>10, <1>11, <1>12, <1>13,
    <1>14, <1>15, <1>16, <1>17, <1>18, <1>19, <1>20, <1>21 DEF Next, StartWorker, ExitSteps,
    Thread

\* Every step keeps threads and handles together.
LEMMA ThreadsStep == (TypeOK /\ Threads) /\ [Next]_vars => Threads'
<1> SUFFICES ASSUME TypeOK, Threads, [Next]_vars PROVE Threads'
  OBVIOUS
<1> USE DEF TypeOK, Threads, Exiting, Set, Close, Exited, Reset, ResetScan, Onwards, Enter, threads,
    uiVars, banVars, sdVars, Workers
<1>1. CASE Reap
  BY <1>1 DEF Reap
<1>2. CASE Create
  BY <1>2 DEF Create
<1>3. CASE CreateFails
  BY <1>3 DEF CreateFails
<1>4. CASE Launch
  BY <1>4 DEF Launch
<1>5. CASE LaunchFails
  BY <1>5 DEF LaunchFails
<1>6. CASE Draw
  BY <1>6 DEF Draw
<1>7. CASE Pick
  BY <1>7 DEF Pick
<1>8. CASE Exit
  BY <1>8 DEF Exit
<1>9. CASE TestFlag
  BY <1>9 DEF TestFlag
<1>10. CASE Wait
  BY <1>10 DEF Wait
<1>11. CASE CloseAtExit
  <2>1. CASE started[who]
    <3>1. \A w \in Workers : handle'[w] = IF w = who THEN "stale" ELSE handle[w]
      BY <1>11, <2>1 DEF CloseAtExit
    <3>4. \A w \in Workers : w # who => thr'[w] = thr[w]
      BY <1>11, <2>1 DEF CloseAtExit
    <3>2. \A w \in Workers : w # who => started'[w] = started[w]
      BY <1>11, <2>1 DEF CloseAtExit
    <3>3. ui = "close" /\ ui' \in {"test", "gone"}
      BY <1>11 DEF CloseAtExit
    <3>. QED
      BY <3>1, <3>2, <3>3, <3>4
  <2>2. CASE ~started[who]
    BY <1>11, <2>2 DEF CloseAtExit
  <2>. QED
    BY <2>1, <2>2
<1>12. CASE NetTest
  BY <1>12 DEF NetTest
<1>13. CASE AskHost
  BY <1>13 DEF AskHost
<1>14. CASE Verdict
  BY <1>14 DEF Verdict
<1>15. CASE BanDone
  BY <1>15 DEF BanDone
<1>16. CASE ScanEntry
  BY <1>16 DEF ScanEntry
<1>17. CASE ScanDone
  BY <1>17 DEF ScanDone, ScanEnds
<1>18. CASE ScanFails
  BY <1>18 DEF ScanFails, ScanEnds
<1>19. ASSUME NEW w \in Workers, Begin(w) PROVE Threads'
  BY <1>19 DEF Begin
<1>20. ASSUME NEW w \in Workers, End(w) PROVE Threads'
  BY <1>20 DEF End
<1>21. CASE UNCHANGED vars
  BY <1>21 DEF vars
<1>. QED
  BY <1>1, <1>2, <1>3, <1>4, <1>5, <1>6, <1>7, <1>8, <1>9, <1>10, <1>11, <1>12, <1>13,
    <1>14, <1>15, <1>16, <1>17, <1>18, <1>19, <1>20, <1>21 DEF Next, StartWorker, ExitSteps,
    Thread

\* Every step keeps what the check has found.
LEMMA AskedStep == (TypeOK /\ Threads /\ Asked) /\ [Next]_vars => Asked'
<1> SUFFICES ASSUME TypeOK, Threads, Asked, [Next]_vars PROVE Asked'
  OBVIOUS
<1> USE DEF TypeOK, Threads, Asked, ShieldMeansBlocked, Exiting, HostStates, Set, Close,
    Exited, Reset, ResetScan, Onwards, Enter, threads, uiVars, banVars, sdVars, Workers
<1>1. CASE Reap
  BY <1>1 DEF Reap
<1>2. CASE Create
  BY <1>2 DEF Create
<1>3. CASE CreateFails
  BY <1>3 DEF CreateFails
<1>4. CASE Launch
  BY <1>4 DEF Launch
<1>5. CASE LaunchFails
  BY <1>5 DEF LaunchFails
<1>6. CASE Draw
  BY <1>6 DEF Draw
<1>7. CASE Pick
  BY <1>7 DEF Pick
<1>8. CASE Exit
  BY <1>8 DEF Exit
<1>9. CASE TestFlag
  BY <1>9 DEF TestFlag
<1>10. CASE Wait
  BY <1>10 DEF Wait
<1>11. CASE CloseAtExit
  BY ZenonT(40), <1>11 DEF CloseAtExit
<1>12. CASE NetTest
  BY <1>12 DEF NetTest
<1>13. CASE AskHost
  BY <1>13 DEF AskHost
<1>14. CASE Verdict
  BY <1>14 DEF Verdict
<1>15. CASE BanDone
  BY <1>15 DEF BanDone
<1>16. CASE ScanEntry
  BY <1>16 DEF ScanEntry
<1>17. CASE ScanDone
  BY <1>17 DEF ScanDone, ScanEnds
<1>18. CASE ScanFails
  BY <1>18 DEF ScanFails, ScanEnds
<1>19. ASSUME NEW w \in Workers, Begin(w) PROVE Asked'
  BY <1>19 DEF Begin
<1>20. ASSUME NEW w \in Workers, End(w) PROVE Asked'
  BY <1>20 DEF End
<1>21. CASE UNCHANGED vars
  BY <1>21 DEF vars
<1>. QED
  BY <1>1, <1>2, <1>3, <1>4, <1>5, <1>6, <1>7, <1>8, <1>9, <1>10, <1>11, <1>12, <1>13,
    <1>14, <1>15, <1>16, <1>17, <1>18, <1>19, <1>20, <1>21 DEF Next, StartWorker, ExitSteps,
    Thread

\* Every step keeps the tallies.
LEMMA CountsStep == (TypeOK /\ Counts) /\ [Next]_vars => Counts'
<1> SUFFICES ASSUME TypeOK, Counts, [Next]_vars PROVE Counts'
  OBVIOUS
<1> USE BoundsAssumption DEF TypeOK, Counts, Scan, Set, Close, Exited, Reset, ResetScan,
    Onwards, Enter, threads, uiVars, banVars, sdVars, Workers
<1>1. CASE Reap
  BY <1>1 DEF Reap
<1>2. CASE Create
  <2>1. CASE who = "scan"
    BY <1>2, <2>1, EmptyScan DEF Create
  <2>2. CASE who # "scan"
    BY <1>2, <2>2 DEF Create
  <2>. QED
    BY <2>1, <2>2
<1>3. CASE CreateFails
  <2>1. CASE who = "scan"
    BY <1>3, <2>1, EmptyScan DEF CreateFails
  <2>2. CASE who # "scan"
    BY <1>3, <2>2 DEF CreateFails
  <2>. QED
    BY <2>1, <2>2
<1>4. CASE Launch
  BY <1>4 DEF Launch
<1>5. CASE LaunchFails
  BY <1>5 DEF LaunchFails
<1>6. CASE Draw
  BY <1>6 DEF Draw
<1>7. CASE Pick
  BY <1>7 DEF Pick
<1>8. CASE Exit
  BY <1>8 DEF Exit
<1>9. CASE TestFlag
  BY <1>9 DEF TestFlag
<1>10. CASE Wait
  BY <1>10 DEF Wait
<1>11. CASE CloseAtExit
  BY <1>11 DEF CloseAtExit
<1>12. CASE NetTest
  BY <1>12 DEF NetTest
<1>13. CASE AskHost
  BY <1>13 DEF AskHost
<1>14. CASE Verdict
  BY <1>14 DEF Verdict
<1>15. CASE BanDone
  BY <1>15 DEF BanDone
<1>16. CASE ScanEntry
  BY <1>16, OneMoreEntry
<1>17. CASE ScanDone
  BY <1>17 DEF ScanDone, ScanEnds
<1>18. CASE ScanFails
  BY <1>18 DEF ScanFails, ScanEnds
<1>19. ASSUME NEW w \in Workers, Begin(w) PROVE Counts'
  BY <1>19 DEF Begin
<1>20. ASSUME NEW w \in Workers, End(w) PROVE Counts'
  BY <1>20 DEF End
<1>21. CASE UNCHANGED vars
  BY <1>21 DEF vars
<1>. QED
  BY <1>1, <1>2, <1>3, <1>4, <1>5, <1>6, <1>7, <1>8, <1>9, <1>10, <1>11, <1>12, <1>13,
    <1>14, <1>15, <1>16, <1>17, <1>18, <1>19, <1>20, <1>21 DEF Next, StartWorker, ExitSteps,
    Thread

\* Every step keeps what is listed of a scan.
LEMMA ListedStep == (TypeOK /\ Threads /\ Listed) /\ [Next]_vars => Listed'
<1> SUFFICES ASSUME TypeOK, Threads, Listed, [Next]_vars PROVE Listed'
  OBVIOUS
<1> USE DEF TypeOK, Threads, Listed, DetailIsSorted, Scan, Set, Close, Exited, Reset,
    ResetScan, Onwards, Enter, threads, uiVars, banVars, sdVars, Workers
<1>1. CASE Reap
  BY <1>1 DEF Reap
<1>2. CASE Create
  <2>1. CASE who = "net"
    BY <1>2, <2>1 DEF Create
  <2>2. CASE who = "antiban"
    BY <1>2, <2>2 DEF Create
  <2>3. CASE who = "scan"
    BY <1>2, <2>3 DEF Create
  <2>. QED
    BY <2>1, <2>2, <2>3
<1>3. CASE CreateFails
  <2>1. CASE who = "net"
    BY <1>3, <2>1 DEF CreateFails
  <2>2. CASE who = "antiban"
    BY <1>3, <2>2 DEF CreateFails
  <2>3. CASE who = "scan"
    BY <1>3, <2>3 DEF CreateFails
  <2>. QED
    BY <2>1, <2>2, <2>3
<1>4. CASE Launch
  BY <1>4 DEF Launch
<1>5. CASE LaunchFails
  BY <1>5 DEF LaunchFails
<1>6. CASE Draw
  BY <1>6 DEF Draw
<1>7. CASE Pick
  BY <1>7 DEF Pick
<1>8. CASE Exit
  BY <1>8 DEF Exit
<1>9. CASE TestFlag
  BY <1>9 DEF TestFlag
<1>10. CASE Wait
  BY <1>10 DEF Wait
<1>11. CASE CloseAtExit
  BY <1>11 DEF CloseAtExit
<1>12. CASE NetTest
  BY <1>12 DEF NetTest
<1>13. CASE AskHost
  BY <1>13 DEF AskHost
<1>14. CASE Verdict
  BY <1>14 DEF Verdict
<1>15. CASE BanDone
  BY <1>15 DEF BanDone
<1>16. CASE ScanEntry
  BY <1>16 DEF ScanEntry
<1>17. CASE ScanDone
  BY <1>17 DEF ScanDone, ScanEnds
<1>18. CASE ScanFails
  BY <1>18 DEF ScanFails, ScanEnds
<1>19. ASSUME NEW w \in Workers, Begin(w) PROVE Listed'
  BY <1>19 DEF Begin
<1>20. ASSUME NEW w \in Workers, End(w) PROVE Listed'
  BY <1>20 DEF End
<1>21. CASE UNCHANGED vars
  BY <1>21 DEF vars
<1>. QED
  BY <1>1, <1>2, <1>3, <1>4, <1>5, <1>6, <1>7, <1>8, <1>9, <1>10, <1>11, <1>12, <1>13,
    <1>14, <1>15, <1>16, <1>17, <1>18, <1>19, <1>20, <1>21 DEF Next, StartWorker, ExitSteps,
    Thread

\* The invariant holds in every reachable state.
THEOREM WorkersInvariance == Spec => []WorkersInv
<1>1. WorkersInv /\ [Next]_vars => WorkersInv'
  BY TypeStep, ThreadsStep, AskedStep, CountsStep, ListedStep DEF WorkersInv
<1>. QED
  BY WorkersInitial, <1>1, PTL DEF Spec

-----------------------------------------------------------------------------
(* What follows for the code.                                              *)

\* Every variable of the workers keeps its type; a scan keeps at most the entries its table has room for.
THEOREM WorkersTypeCorrect == Spec => []TypeOK
<1>1. WorkersInv => TypeOK
  BY DEF WorkersInv
<1>. QED
  BY <1>1, WorkersInvariance, PTL

\* A Thread structure is only given to threadCreate when its last thread is gone and its
\* handle closed (net_test_start, antiban_start_test, storage_scan_start).
THEOREM ThreadNeverLost == Spec => []NoLostThread
<1>1. WorkersInv => NoLostThread
  BY DEF WorkersInv, Threads, NoLostThread, TypeOK
<1>. QED
  BY <1>1, WorkersInvariance, PTL

\* "Protected" is only shown when every host was found blocked in one check, for any hosts.
THEOREM ShieldIsTrue == Spec => []ShieldMeansBlocked
<1>1. WorkersInv => ShieldMeansBlocked
  BY DEF WorkersInv, Asked
<1>. QED
  BY <1>1, WorkersInvariance, PTL

\* A complete scan shows its own tallies and the sorted list of its own entries, for any
\* size of the root and of the table.
THEOREM ScanIsItsOwn == Spec => []ScanResult
<1>1. WorkersInv => ScanResult
  BY DEF WorkersInv, Counts, Listed, ScanResult
<1>. QED
  BY <1>1, WorkersInvariance, PTL

\* A category's list is read through the sorted indices of the scan that is shown.
THEOREM DetailReadsSorted == Spec => []DetailIsSorted
<1>1. WorkersInv => DetailIsSorted
  BY DEF WorkersInv, Listed
<1>. QED
  BY <1>1, WorkersInvariance, PTL

-----------------------------------------------------------------------------
(* The samples of the traffic counters.                                    *)

N == HistorySize

\* The place k places before pos.
Back(pos, k) == IF pos < k THEN pos - k + N ELSE pos - k

Lesser(a, b) == IF a <= b THEN a ELSE b

Ring ==
  /\ s.pos \in 0..N - 1
  /\ s = [base |-> s.base, prev |-> s.prev, total |-> s.total, ring |-> s.ring,
          pos |-> s.pos, count |-> s.count]
  /\ s.ring = [i \in 0..N - 1 |-> s.ring[i]]
  /\ h = [exact |-> h.exact, start |-> h.start, missed |-> h.missed, deltas |-> h.deltas]
  /\ \E S : h.deltas \in Seq(S)
  /\ s.count = Lesser(Len(h.deltas), N)
  /\ \A k \in 1..s.count : s.ring[Back(s.pos, k)] = h.deltas[Len(h.deltas) - k + 1]

-----------------------------------------------------------------------------
(* Arithmetic.                                                             *)

\* The ring has a place.
LEMMA Size == N \in Nat \ {0}
BY TrafficBounds DEF N

\* The lesser of two numbers is the minimum of their set.
LEMMA MinOfTwo ==
  ASSUME NEW a \in Nat, NEW b \in Nat
  PROVE  Min({a, b}) = Lesser(a, b)
<1> DEFINE Least(x) == \A y \in {a, b} : x <= y
<1>1. Min({a, b}) = CHOOSE x \in {a, b} : Least(x)
  BY DEF Min
<1>2. Lesser(a, b) \in {a, b} /\ Least(Lesser(a, b))
  BY DEF Lesser
<1>3. Min({a, b}) \in {a, b} /\ Least(Min({a, b}))
  BY <1>1, <1>2
<1>. QED
  BY <1>2, <1>3

\* A remainder below twice the divisor is one subtraction away.
LEMMA Wrap ==
  ASSUME NEW n \in Nat \ {0}, NEW a \in 0..n + n - 1
  PROVE  a % n = IF a < n THEN a ELSE a - n
OBVIOUS

\* k places before the next place is k - 1 places before this one.
LEMMA BackFromNext ==
  ASSUME NEW pos \in 0..N - 1, NEW next, next = (IF pos + 1 = N THEN 0 ELSE pos + 1),
         NEW k \in 1..N, k > 1
  PROVE  Back(next, k) = Back(pos, k - 1)
<1>1. CASE pos + 1 = N
  BY <1>1, Size DEF Back
<1>2. CASE pos + 1 # N
  BY <1>2, Size DEF Back
<1>. QED
  BY <1>1, <1>2

\* Less than a turn back is another place.
LEMMA BackElsewhere ==
  ASSUME NEW pos \in 0..N - 1, NEW k \in 1..N, k > 1
  PROVE  Back(pos, k - 1) # pos /\ Back(pos, k - 1) \in 0..N - 1
<1>1. CASE pos < k - 1
  BY <1>1, Size DEF Back
<1>2. CASE pos >= k - 1
  BY <1>2, Size DEF Back
<1>. QED
  BY <1>1, <1>2

-----------------------------------------------------------------------------
(* Every step keeps the ring.                                              *)

\* A sample goes to its place, and everything before it is one place further back.
LEMMA SampleKeeps ==
  ASSUME Ring, NEW value, NEW whole, Sample(value, whole)
  PROVE  Ring'
<1> DEFINE delta == IF ~s.base THEN 0 ELSE IF value >= s.prev THEN value - s.prev ELSE value
           n == Len(h.deltas)
<1>1. /\ s' = [base |-> TRUE, prev |-> value, total |-> s.total + delta,
               ring |-> [s.ring EXCEPT ![s.pos] = delta], pos |-> (s.pos + 1) % N,
               count |-> Min({s.count + 1, N})]
      /\ h' = [exact |-> h.exact /\ whole,
               start |-> IF h.start = None THEN value ELSE h.start,
               missed |-> IF s.base \/ h.start = None THEN h.missed ELSE h.missed + value - s.prev,
               deltas |-> Append(h.deltas, delta)]
  BY DEF Sample, Keep, N
<1> HIDE DEF delta
<1>2. s.pos \in 0..N - 1 /\ s.ring = [i \in 0..N - 1 |-> s.ring[i]] /\ s.count = Lesser(n, N)
      /\ \A k \in 1..s.count : s.ring[Back(s.pos, k)] = h.deltas[n - k + 1]
  BY DEF Ring
<1>3. PICK S : h.deltas \in Seq(S)
  BY DEF Ring
<1> DEFINE T == S \cup {delta}
<1>4. /\ n \in Nat /\ h'.deltas \in Seq(T) /\ Len(h'.deltas) = n + 1
      /\ h'.deltas[n + 1] = delta /\ \A j \in 1..n : h'.deltas[j] = h.deltas[j]
  <2>1. h.deltas \in Seq(T) /\ delta \in T
    BY <1>3
  <2>2. h'.deltas = Append(h.deltas, delta)
    BY <1>1
  <2> HIDE DEF T
  <2>. QED
    BY <2>1, <2>2
<1>5. s'.pos = (IF s.pos + 1 = N THEN 0 ELSE s.pos + 1)
  <2> DEFINE next == s.pos + 1
  <2>1. next \in 0..N + N - 1
    BY <1>2, Size
  <2> HIDE DEF next
  <2>2. next % N = IF next < N THEN next ELSE next - N
    BY <2>1, Size, Wrap
  <2> USE DEF next
  <2>. QED
    BY <1>1, <1>2, <2>2, Size
<1>6. s'.pos \in 0..N - 1
  BY <1>2, <1>5, Size
<1>7. s'.count = Lesser(n + 1, N)
  <2>1. s.count + 1 \in Nat
    BY <1>2, <1>4, Size DEF Lesser
  <2>2. s'.count = Lesser(s.count + 1, N)
    BY <1>1, <2>1, Size, MinOfTwo
  <2>. QED
    BY <1>2, <1>4, <2>2, Size DEF Lesser
<1>8. s'.ring[s.pos] = delta /\ \A i \in 0..N - 1 : i # s.pos => s'.ring[i] = s.ring[i]
  BY <1>1, <1>2
<1>9. s'.ring = [i \in 0..N - 1 |-> s'.ring[i]]
  BY <1>1, <1>2
<1>10. ASSUME NEW k \in 1..s'.count
       PROVE  s'.ring[Back(s'.pos, k)] = h'.deltas[Len(h'.deltas) - k + 1]
  <2>1. k \in 1..N /\ k <= n + 1
    BY <1>4, <1>7, Size DEF Lesser
  <2>2. CASE k = 1
    <3>1. Back(s'.pos, k) = s.pos
      BY <1>2, <1>5, <2>2, Size DEF Back
    <3>. QED
      BY <1>4, <1>8, <2>2, <3>1
  <2>3. CASE k > 1
    <3>1. k - 1 \in 1..s.count
      BY <1>2, <1>4, <1>7, <2>1, <2>3, Size DEF Lesser
    <3>2. Back(s'.pos, k) = Back(s.pos, k - 1)
      BY <1>2, <1>5, <2>1, <2>3, Size, BackFromNext
    <3>3. Back(s.pos, k - 1) # s.pos /\ Back(s.pos, k - 1) \in 0..N - 1
      BY <1>2, <2>1, <2>3, Size, BackElsewhere
    <3>4. s.ring[Back(s.pos, k - 1)] = h.deltas[n - (k - 1) + 1]
      BY <1>2, <3>1
    <3>5. n - (k - 1) + 1 = n + 1 - k + 1 /\ n + 1 - k + 1 \in 1..n
      BY <1>4, <2>1, <2>3
    <3>6. s'.ring[Back(s.pos, k - 1)] = s.ring[Back(s.pos, k - 1)]
      BY <1>8, <3>3
    <3>7. h'.deltas[n + 1 - k + 1] = h.deltas[n + 1 - k + 1]
      BY <1>4, <3>5
    <3>. QED
      BY <1>4, <3>2, <3>4, <3>5, <3>6, <3>7
  <2>. QED
    BY <2>1, <2>2, <2>3
<1>11. /\ s' = [base |-> s'.base, prev |-> s'.prev, total |-> s'.total, ring |-> s'.ring,
                pos |-> s'.pos, count |-> s'.count]
       /\ h' = [exact |-> h'.exact, start |-> h'.start, missed |-> h'.missed, deltas |-> h'.deltas]
  BY <1>1
<1>12. \E U : h'.deltas \in Seq(U)
  BY <1>4
<1>. QED
  BY <1>4, <1>6, <1>7, <1>9, <1>10, <1>11, <1>12 DEF Ring

\* Nothing to sample: the ring is left alone.
LEMMA NoSampleKeeps == Ring /\ NoSample => Ring'
<1> SUFFICES ASSUME Ring, NoSample PROVE Ring'
  OBVIOUS
<1>1. h' = h /\ s' = [s EXCEPT !.base = FALSE]
  BY DEF NoSample
<1>2. /\ s'.pos = s.pos /\ s'.ring = s.ring /\ s'.count = s.count
      /\ s' = [base |-> s'.base, prev |-> s'.prev, total |-> s'.total, ring |-> s'.ring,
               pos |-> s'.pos, count |-> s'.count]
  BY <1>1 DEF Ring
<1>. QED
  BY <1>1, <1>2 DEF Ring

\* A direct read, a sample or none.
LEMMA DirectKeeps == Ring /\ SampleDirectly => Ring'
BY SampleKeeps, NoSampleKeeps DEF SampleDirectly

\* An empty ring is a ring.
LEMMA FreshRing == s = Fresh /\ h = Session => Ring
<1> SUFFICES ASSUME s = Fresh, h = Session PROVE Ring
  OBVIOUS
<1>1. s.pos = 0 /\ s.count = 0 /\ h.deltas = <<>> /\ s.ring = [i \in 0..N - 1 |-> 0]
  BY DEF Fresh, Session, N
<1>2. s.pos \in 0..N - 1 /\ s.count = Lesser(Len(h.deltas), N)
  BY <1>1, Size DEF Lesser
<1>3. h.deltas \in Seq({})
  BY <1>1
<1>4. s.ring = [i \in 0..N - 1 |-> s.ring[i]]
  BY <1>1
<1>5. /\ s = [base |-> s.base, prev |-> s.prev, total |-> s.total, ring |-> s.ring,
              pos |-> s.pos, count |-> s.count]
      /\ h = [exact |-> h.exact, start |-> h.start, missed |-> h.missed, deltas |-> h.deltas]
  BY DEF Fresh, Session
<1>6. \A k \in 1..s.count : s.ring[Back(s.pos, k)] = h.deltas[Len(h.deltas) - k + 1]
  BY <1>1
<1>7. \E S : h.deltas \in Seq(S)
  BY <1>3
<1>. QED
  BY <1>2, <1>4, <1>5, <1>6, <1>7 DEF Ring

\* Every step keeps the ring.
LEMMA RingStep == Ring /\ [TrafficNext]_trafficVars => Ring'
<1> SUFFICES ASSUME Ring, [TrafficNext]_trafficVars PROVE Ring'
  OBVIOUS
<1>1. CASE UNCHANGED <<s, h>>
  BY <1>1 DEF Ring
<1>2. CASE Disturb
  <2>1. s' = s /\ h' = [h EXCEPT !.exact = @ /\ h.start = None]
    BY <1>2 DEF Disturb, sampling
  <2>2. h'.deltas = h.deltas
        /\ h' = [exact |-> h'.exact, start |-> h'.start, missed |-> h'.missed, deltas |-> h'.deltas]
    BY <2>1 DEF Ring
  <2>. QED
    BY <2>1, <2>2 DEF Ring
<1>3. CASE AppSample \/ Direct
  BY <1>3, DirectKeeps DEF AppSample, Direct
<1>4. CASE NotReady
  BY <1>4, NoSampleKeeps DEF NotReady
<1>5. CASE Answered
  BY <1>5, SampleKeeps DEF Answered
<1>6. CASE ResetHistory
  <2>1. s' = Fresh /\ h' = Session
    BY <1>6 DEF ResetHistory
  <2>2. (s = Fresh /\ h = Session => Ring)'
    BY FreshRing, PTL
  <2>. QED
    BY <2>1, <2>2 DEF Fresh, Session
<1>7. CASE Count \/ Ask \/ Unanswered \/ Module
  BY <1>1, <1>7 DEF Count, sampling, Ask, Unanswered, Module, Receive, Respond, Boot, kernel
<1>. QED
  BY <1>1, <1>2, <1>3, <1>4, <1>5, <1>6, <1>7 DEF TrafficNext, Overlay, trafficVars

-----------------------------------------------------------------------------
(* The account of a session.                                               *)

Answers == [available : BOOLEAN, value : Nat, whole : BOOLEAN]

\* The figures a session is made of.
Figures ==
  /\ bytes \in [Ifaces -> Nat] /\ up \in SUBSET Ifaces
  /\ s.base \in BOOLEAN /\ s.prev \in Nat /\ s.total \in Nat
  /\ h.exact \in BOOLEAN /\ h.start \in Nat \cup {None} /\ h.missed \in Int
  /\ h.start = None => ~s.base /\ s.total = 0 /\ h.missed = 0

\* There is a sum to account for: nothing has disturbed it since the first sample.
Exact == h.exact /\ h.start # None

\* The totals account for what the counters show, which only goes up.
Account == Exact => /\ s.prev = h.start + s.total + h.missed /\ h.missed >= 0
                    /\ s.prev <= RouteSum

\* An answer with all the counters is not ahead of them, and one to this request is not
\* behind the sample before it.
NotAhead(a) == a.available /\ a.whole => a.value <= RouteSum
NotBehind(a) == a.available /\ a.whole /\ Exact => s.prev <= a.value

Inbox ==
  /\ inbox \in Answers \cup {None}
  /\ inbox # None => ask = "poll" /\ NotAhead(inbox) /\ NotBehind(inbox)

\* An answer still to be sent: one to an earlier request will not be read.
InModule ==
  /\ mod \in [to : Nat, answer : Answers] \cup {None}
  /\ mod # None => /\ mod.to <= sock /\ NotAhead(mod.answer)
                   /\ mod.to = sock /\ ask = "poll" => NotBehind(mod.answer)

\* Requests, of this socket and of the earlier ones.
Requests ==
  /\ sock \in Nat /\ queue \in Seq(0..sock)
  /\ watched = "app" => ask = "idle"

Accounts == Figures /\ Account /\ Inbox /\ InModule /\ Requests

-----------------------------------------------------------------------------
(* The sum of the counters: MapThenSumSet takes the elements of a set one  *)
(* at a time.                                                              *)

\* One more element of the sum over T, f being the sums over its subsets.
Add(f, n, T) == LET x == CHOOSE y \in T : TRUE IN IF T = {} THEN 0 ELSE n[x] + f[T \ {x}]
Sums(f, n, S) == f = [T \in SUBSET S |-> Add(f, n, T)]
Small(S, k) == {T \in SUBSET S : Cardinality(T) <= k}

\* A set of numbers has a least one.
LEMMA LeastOf ==
  ASSUME NEW T \in SUBSET Nat, T # {}
  PROVE  \E x \in T : \A y \in T : ~(y < x)
<1>1. \E x \in T : \A y \in T : ~(<<y, x>> \in OpToRel(<, Nat))
  BY NatLessThanWellFounded, WFMin
<1>. QED
  BY <1>1 DEF OpToRel

\* The sum is the value of such a function.
LEMMA TotalIs ==
  ASSUME NEW S
  PROVE  Total(S) = (CHOOSE f : Sums(f, bytes, S))[S]
BY DEF Total, MapThenSumSet, MapThenFoldSet, Sums, Add

\* Taking an element out of a finite set makes it smaller.
LEMMA Smaller ==
  ASSUME NEW S, IsFiniteSet(S), NEW T \in SUBSET S, T # {}, NEW x, x = CHOOSE y \in T : TRUE
  PROVE  /\ x \in T /\ T \ {x} \in SUBSET S
         /\ Cardinality(T) \in Nat /\ Cardinality(T \ {x}) \in Nat
         /\ Cardinality(T \ {x}) < Cardinality(T)
<1>1. IsFiniteSet(T) /\ x \in T
  BY FS_Subset
<1>2. IsFiniteSet(T \ {x}) /\ Cardinality(T \ {x}) = Cardinality(T) - 1
  BY <1>1, FS_RemoveElement
<1>. QED
  BY <1>1, <1>2, FS_CardinalityType

\* There is one for a finite set: it is made for the smaller subsets first.
LEMMA SumsExist ==
  ASSUME NEW S, IsFiniteSet(S), NEW n
  PROVE  \E f : Sums(f, n, S)
<1>. DEFINE Made(k) == \E f : f = [T \in Small(S, k) |-> Add(f, n, T)]
            Bad == {k \in Nat : ~Made(k)}
<1>1. Made(0)
  <2>1. \A T \in Small(S, 0) : T = {}
    BY FS_Subset, FS_CardinalityType, FS_EmptySet DEF Small
  <2>. DEFINE f == [T \in Small(S, 0) |-> 0]
  <2>2. \A T \in Small(S, 0) : Add(f, n, T) = 0
    BY <2>1 DEF Add
  <2>3. f = [T \in Small(S, 0) |-> Add(f, n, T)]
    BY <2>2
  <2>. QED BY <2>3
<1>2. ASSUME NEW k \in Nat, Made(k)
      PROVE  Made(k + 1)
  <2>1. PICK f : f = [T \in Small(S, k) |-> Add(f, n, T)]
    BY <1>2
  <2>. DEFINE g == [T \in Small(S, k + 1) |-> Add(f, n, T)]
  <2>2. ASSUME NEW T \in Small(S, k + 1)
        PROVE  Add(g, n, T) = Add(f, n, T)
    <3>1. CASE T = {}
      BY <3>1 DEF Add
    <3>2. CASE T # {}
      <4>1. PICK x : x = CHOOSE y \in T : TRUE
        OBVIOUS
      <4>2. T \ {x} \in Small(S, k) /\ T \ {x} \in Small(S, k + 1)
        <5>1. T \in SUBSET S /\ Cardinality(T) <= k + 1
          BY DEF Small
        <5>2. T \ {x} \in SUBSET S /\ Cardinality(T) \in Nat /\ Cardinality(T \ {x}) \in Nat
              /\ Cardinality(T \ {x}) < Cardinality(T)
          BY <3>2, <4>1, <5>1, Smaller
        <5>3. Cardinality(T \ {x}) <= k /\ Cardinality(T \ {x}) <= k + 1
          BY <5>1, <5>2
        <5>. QED BY <5>2, <5>3 DEF Small
      <4>3. g[T \ {x}] = f[T \ {x}]
        <5>1. g[T \ {x}] = Add(f, n, T \ {x})
          BY <4>2
        <5>. QED BY <2>1, <4>2, <5>1
      <4>. HIDE DEF g
      <4>. QED BY <4>1, <4>3 DEF Add
    <3>. QED BY <3>1, <3>2
  <2>3. g = [T \in Small(S, k + 1) |-> Add(g, n, T)]
    BY <2>2
  <2>. QED BY <2>3
<1>3. \A k \in Nat : Made(k)
  <2>1. SUFFICES ASSUME Bad # {} PROVE FALSE
    OBVIOUS
  <2>. HIDE DEF Made
  <2>2. PICK b \in Bad : \A y \in Bad : ~(y < b)
    BY <2>1, LeastOf
  <2>3. b # 0 /\ b \in Nat
    BY <1>1, <2>2
  <2>4. b - 1 \in Nat /\ b - 1 < b /\ b - 1 + 1 = b
    BY <2>3
  <2>5. Made(b - 1)
    BY <2>2, <2>4
  <2>6. Made(b)
    BY <1>2, <2>4, <2>5
  <2>. QED BY <2>2, <2>6
<1>4. Small(S, Cardinality(S)) = SUBSET S
  <2>1. \A T \in SUBSET S : Cardinality(T) <= Cardinality(S)
    BY FS_Subset
  <2>. QED BY <2>1 DEF Small
<1>5. Made(Cardinality(S))
  BY <1>3, FS_CardinalityType
<1>. QED
  BY <1>4, <1>5 DEF Sums

\* A sum of numbers is a number, and does not go down when none of them does.
LEMMA SumsGrow ==
  ASSUME NEW S, IsFiniteSet(S), NEW n, NEW m, NEW f, NEW g, Sums(f, n, S), Sums(g, m, S),
         \A x \in S : n[x] \in Nat /\ m[x] \in Nat /\ n[x] <= m[x]
  PROVE  \A T \in SUBSET S : f[T] \in Nat /\ g[T] \in Nat /\ f[T] <= g[T]
<1>. DEFINE Ok(T) == f[T] \in Nat /\ g[T] \in Nat /\ f[T] <= g[T]
            Bad == {k \in Nat : \E T \in SUBSET S : Cardinality(T) = k /\ ~Ok(T)}
<1>1. \A T \in SUBSET S : f[T] = Add(f, n, T) /\ g[T] = Add(g, m, T)
  BY DEF Sums
<1>2. \A T \in SUBSET S : Cardinality(T) \in Nat
  BY FS_Subset, FS_CardinalityType
<1>3. SUFFICES ASSUME Bad # {} PROVE FALSE
  BY <1>2
<1>4. PICK b \in Bad : \A y \in Bad : ~(y < b)
  BY <1>3, LeastOf
<1>5. PICK T \in SUBSET S : Cardinality(T) = b /\ ~Ok(T)
  BY <1>4
<1>6. T # {}
  <2>1. SUFFICES ASSUME T = {} PROVE Ok(T)
    BY <1>5
  <2>2. Add(f, n, T) = 0 /\ Add(g, m, T) = 0
    BY <2>1 DEF Add
  <2>3. f[T] = 0 /\ g[T] = 0
    BY <1>1, <2>2
  <2>. QED BY <2>3
<1>7. PICK x : x = CHOOSE y \in T : TRUE
  OBVIOUS
<1>8. x \in T /\ T \ {x} \in SUBSET S /\ Cardinality(T \ {x}) \in Nat /\ Cardinality(T \ {x}) < b
  <2>1. T \in SUBSET S /\ Cardinality(T) = b
    BY <1>5
  <2>. HIDE DEF Bad
  <2>2. /\ x \in T /\ T \ {x} \in SUBSET S /\ Cardinality(T \ {x}) \in Nat
        /\ Cardinality(T \ {x}) < Cardinality(T)
    BY <1>6, <1>7, Smaller
  <2>. QED BY <2>1, <2>2
<1>9. Ok(T \ {x})
  BY <1>4, <1>8
<1>10. f[T] = n[x] + f[T \ {x}] /\ g[T] = m[x] + g[T \ {x}]
  BY <1>1, <1>6, <1>7 DEF Add
<1>11. n[x] \in Nat /\ m[x] \in Nat /\ n[x] <= m[x]
  BY <1>8
<1>12. Ok(T)
  BY <1>9, <1>10, <1>11
<1>. QED
  BY <1>5, <1>12

\* What the counters of some interfaces come to.
LEMMA TotalNat ==
  ASSUME bytes \in [Ifaces -> Nat], NEW S \in SUBSET Ifaces
  PROVE  Total(S) \in Nat
<1>1. IsFiniteSet(S)
  BY IfacesAssumption, FS_Subset
<1>. DEFINE f == CHOOSE f : Sums(f, bytes, S)
<1>2. Sums(f, bytes, S)
  BY <1>1, SumsExist
<1>3. \A x \in S : bytes[x] \in Nat /\ bytes[x] <= bytes[x]
  OBVIOUS
<1>. HIDE DEF f
<1>4. f[S] \in Nat
  BY <1>1, <1>2, <1>3, SumsGrow
<1>. QED
  BY <1>4, TotalIs DEF f

\* While the interfaces stay as they are and none counts backwards, the sum does not go down.
LEMMA RouteSumGrows ==
  ASSUME bytes \in [Ifaces -> Nat], bytes' \in [Ifaces -> Nat], up \in SUBSET Ifaces, up' = up,
         \A i \in Ifaces : bytes[i] <= bytes'[i]
  PROVE  RouteSum <= RouteSum'
<1>1. IsFiniteSet(up)
  BY IfacesAssumption, FS_Subset
<1>. DEFINE f == CHOOSE f : Sums(f, bytes, up)
            g == CHOOSE g : Sums(g, bytes', up)
<1>2. Sums(f, bytes, up) /\ Sums(g, bytes', up)
  BY <1>1, SumsExist
<1>3. \A x \in up : bytes[x] \in Nat /\ bytes'[x] \in Nat /\ bytes[x] <= bytes'[x]
  OBVIOUS
<1>4. RouteSum = f[up]
  BY TotalIs DEF RouteSum
<1>5. RouteSum' = g[up]
  BY DEF RouteSum, Total, MapThenSumSet, MapThenFoldSet, Sums, Add
<1>. HIDE DEF f, g
<1>6. f[up] <= g[up]
  BY <1>1, <1>2, <1>3, SumsGrow
<1>. QED
  BY <1>4, <1>5, <1>6

\* The same counters of the same interfaces have the same sum.
LEMMA SameSum ==
  ASSUME bytes' = bytes, up' = up
  PROVE  RouteSum' = RouteSum
BY DEF RouteSum, Total, MapThenSumSet, MapThenFoldSet

\* A direct reading is a number, and is the whole sum if it says so.
LEMMA ReadingFacts ==
  ASSUME Figures
  PROVE  /\ RouteSum \in Nat /\ IoctlSums \in SUBSET Nat
         /\ \A value, whole : Reading(value, whole) =>
              value \in Nat /\ whole \in BOOLEAN /\ (whole => value = RouteSum)
<1>1. bytes \in [Ifaces -> Nat] /\ up \in SUBSET Ifaces
  BY DEF Figures
<1>2. \A S \in SUBSET up : Total(S) \in Nat
  BY <1>1, TotalNat
<1>3. RouteSum \in Nat
  BY <1>2 DEF RouteSum
<1>4. IoctlSums \in SUBSET Nat
  BY <1>2 DEF IoctlSums
<1>5. ASSUME NEW value, NEW whole, Reading(value, whole)
      PROVE  value \in Nat /\ whole \in BOOLEAN /\ (whole => value = RouteSum)
  BY <1>3, <1>4, <1>5 DEF Reading
<1>. QED
  BY <1>3, <1>4, <1>5

\* The sum is a number.
LEMMA RouteSumNat == Figures => RouteSum \in Nat
BY ReadingFacts

-----------------------------------------------------------------------------
(* Every step keeps the account.                                           *)

\* A sample is added to the account: what has come in since the last one, or what was
\* missed while nothing could be read.
LEMMA SampleAccounts ==
  ASSUME Figures, Account, NEW value \in Nat, NEW whole \in BOOLEAN, Sample(value, whole),
         whole => value <= RouteSum, whole /\ Exact => s.prev <= value,
         bytes' = bytes, up' = up
  PROVE  Figures' /\ Account'
<1>. DEFINE delta == IF ~s.base THEN 0 ELSE IF value >= s.prev THEN value - s.prev ELSE value
            missed == IF s.base \/ h.start = None THEN h.missed ELSE h.missed + value - s.prev
<1>1. /\ s'.base = TRUE /\ s'.prev = value /\ s'.total = s.total + delta
      /\ h'.exact = (h.exact /\ whole) /\ h'.start = (IF h.start = None THEN value ELSE h.start)
      /\ h'.missed = missed
  BY DEF Sample, Keep
<1>2. /\ s.base \in BOOLEAN /\ s.prev \in Nat /\ s.total \in Nat
      /\ h.exact \in BOOLEAN /\ h.start \in Nat \cup {None} /\ h.missed \in Int
      /\ h.start = None => ~s.base /\ s.total = 0 /\ h.missed = 0
  BY DEF Figures
<1>3. delta \in Nat /\ missed \in Int
  BY <1>2
<1>4. h'.start \in Nat /\ h'.start # None
  BY <1>1, <1>2, NoneAssumption
<1>5. Figures'
  <2>1. bytes' \in [Ifaces -> Nat] /\ up' \in SUBSET Ifaces
    BY DEF Figures
  <2>2. s'.total \in Nat
    BY <1>1, <1>2, <1>3
  <2>. HIDE DEF delta, missed
  <2>. QED BY <1>1, <1>2, <1>3, <1>4, <2>1, <2>2 DEF Figures
<1>6. ASSUME Exact'
      PROVE  /\ s'.prev = h'.start + s'.total + h'.missed /\ h'.missed >= 0
             /\ s'.prev <= RouteSum'
  <2>1. h.exact /\ whole
    BY <1>1, <1>6 DEF Exact
  <2>2. s'.prev <= RouteSum'
    BY <1>1, <2>1, SameSum
  <2>3. CASE h.start = None
    BY <1>1, <1>2, <2>2, <2>3
  <2>4. CASE h.start # None
    <3>1. s.prev = h.start + s.total + h.missed /\ h.missed >= 0 /\ s.prev <= value
      BY <2>1, <2>4 DEF Exact, Account
    <3>2. CASE s.base
      BY <1>1, <1>2, <2>2, <2>4, <3>1, <3>2
    <3>3. CASE ~s.base
      BY <1>1, <1>2, <2>2, <2>4, <3>1, <3>3
    <3>. QED BY <3>2, <3>3
  <2>. QED BY <2>3, <2>4
<1>. QED
  BY <1>5, <1>6 DEF Account

\* A direct reading is sampled, or nothing is.
LEMMA DirectAccounts ==
  ASSUME Ring, Figures, Account, SampleDirectly, bytes' = bytes, up' = up
  PROVE  Figures' /\ Account'
<1>1. CASE NoSample
  <2>1. h' = h /\ s' = [s EXCEPT !.base = FALSE]
    BY <1>1 DEF NoSample
  <2>2. s'.base = FALSE /\ s'.prev = s.prev /\ s'.total = s.total
    BY <2>1 DEF Ring
  <2>. QED BY <2>1, <2>2, SameSum DEF Figures, Account, Exact
<1>2. ASSUME NEW value, NEW whole \in BOOLEAN, Reading(value, whole), Sample(value, whole)
      PROVE  Figures' /\ Account'
  <2>1. /\ value \in Nat /\ RouteSum \in Nat /\ s.prev \in Nat
        /\ whole => value = RouteSum
    BY <1>2, ReadingFacts DEF Figures
  <2>2. whole => value <= RouteSum
    BY <2>1
  <2>3. whole /\ Exact => s.prev <= value
    BY <2>1 DEF Account
  <2>. QED BY <1>2, <2>1, <2>2, <2>3, SampleAccounts
<1>. QED
  BY <1>1, <1>2 DEF SampleDirectly

\* What neither the figures nor the answers depend on.
LEMMA SameAccount ==
  ASSUME bytes' = bytes, up' = up, s' = s, h' = h
  PROVE  /\ Figures => Figures'
         /\ Account => Account'
         /\ Exact' = Exact
         /\ \A a : NotAhead(a)' = NotAhead(a) /\ NotBehind(a)' = NotBehind(a)
BY SameSum DEF Figures, Account, Exact, NotAhead, NotBehind

\* Counting goes up, so no answer and no sample gets ahead of the counters.
LEMMA CountAccounts == Accounts /\ Count => Accounts'
<1>. SUFFICES ASSUME Accounts, Count PROVE Accounts'
  OBVIOUS
<1>1. PICK i \in up : bytes' = [bytes EXCEPT ![i] = @ + 1]
  BY DEF Count
<1>2. up' = up /\ h' = h /\ s' = s /\ ask' = ask /\ sock' = sock /\ inbox' = inbox /\ mod' = mod
      /\ queue' = queue /\ watched' = watched
  BY DEF Count, sampling
<1>3. bytes \in [Ifaces -> Nat] /\ up \in SUBSET Ifaces
  BY DEF Accounts, Figures
<1>4. bytes' \in [Ifaces -> Nat] /\ \A x \in Ifaces : bytes[x] <= bytes'[x]
  BY <1>1, <1>3
<1>5. RouteSum <= RouteSum'
  BY <1>2, <1>3, <1>4, RouteSumGrows
<1>6. RouteSum \in Nat
  BY ReadingFacts DEF Accounts
<1>7. RouteSum' \in Nat
  <2>1. Figures'
    BY <1>2, <1>4 DEF Accounts, Figures
  <2>2. (Figures => RouteSum \in Nat)'
    BY RouteSumNat, PTL
  <2>. QED BY <2>1, <2>2
<1>8. Figures'
  BY <1>2, <1>4 DEF Accounts, Figures
<1>9. Account'
  BY <1>2, <1>5, <1>6, <1>7 DEF Accounts, Account, Exact, Figures
<1>10. Inbox'
  <2>1. inbox # None => inbox.value \in Nat
    BY DEF Accounts, Inbox, Answers
  <2>. QED BY <1>2, <1>5, <1>6, <1>7, <2>1 DEF Accounts, Inbox, NotAhead, NotBehind, Exact
<1>11. InModule'
  <2>1. mod # None => mod.answer.value \in Nat
    BY DEF Accounts, InModule, Answers
  <2>. QED BY <1>2, <1>5, <1>6, <1>7, <2>1 DEF Accounts, InModule, NotAhead, NotBehind, Exact
<1>12. Requests'
  BY <1>2 DEF Accounts, Requests
<1>. QED
  BY <1>8, <1>9, <1>10, <1>11, <1>12 DEF Accounts

\* After a disturbance there is nothing to account for until the next session, and no
\* answer under way is whole.
LEMMA DisturbAccounts == Ring /\ Accounts /\ Disturb => Accounts'
<1>. SUFFICES ASSUME Ring, Accounts, Disturb PROVE Accounts'
  OBVIOUS
<1>1. s' = s /\ ask' = ask /\ sock' = sock /\ queue' = queue /\ watched' = watched
  BY DEF Disturb
<1>2. h'.start = h.start /\ h'.missed = h.missed /\ h'.exact = (h.exact /\ h.start = None)
  BY DEF Disturb, Ring
<1>3. bytes' \in [Ifaces -> Nat] /\ up' \in SUBSET Ifaces
  BY DEF Disturb, Accounts, Figures
<1>4. Figures'
  BY <1>1, <1>2, <1>3 DEF Accounts, Figures
<1>5. ~Exact'
  BY <1>2 DEF Exact
<1>6. ASSUME NEW a \in Answers
      PROVE  [a EXCEPT !.whole = FALSE] \in Answers /\ [a EXCEPT !.whole = FALSE].whole = FALSE
  BY DEF Answers
<1>7. Inbox'
  <2>1. CASE inbox = None
    BY <2>1 DEF Disturb, Inbox
  <2>2. CASE inbox # None
    <3>1. inbox' = [inbox EXCEPT !.whole = FALSE] /\ inbox \in Answers /\ ask = "poll"
      BY <2>2 DEF Disturb, Accounts, Inbox
    <3>2. inbox' \in Answers /\ inbox'.whole = FALSE
      BY <1>6, <3>1
    <3>. QED BY <1>1, <3>1, <3>2 DEF Inbox, NotAhead, NotBehind
  <2>. QED BY <2>1, <2>2
<1>8. InModule'
  <2>1. CASE mod = None
    BY <2>1 DEF Disturb, InModule
  <2>2. CASE mod # None
    <3>1. mod' = [mod EXCEPT !.answer.whole = FALSE] /\ mod \in [to : Nat, answer : Answers]
          /\ mod.to <= sock
      BY <2>2 DEF Disturb, Accounts, InModule
    <3>2. mod' = [mod EXCEPT !.answer = [mod.answer EXCEPT !.whole = FALSE]]
      BY <3>1
    <3>3. [mod.answer EXCEPT !.whole = FALSE] \in Answers
          /\ [mod.answer EXCEPT !.whole = FALSE].whole = FALSE
      BY <1>6, <3>1
    <3>4. mod' \in [to : Nat, answer : Answers] /\ mod'.to = mod.to /\ mod'.answer.whole = FALSE
      BY <3>1, <3>2, <3>3
    <3>. QED BY <1>1, <3>1, <3>4 DEF InModule, NotAhead, NotBehind
  <2>. QED BY <2>1, <2>2
<1>9. Requests'
  BY <1>1 DEF Accounts, Requests
<1>. QED
  BY <1>4, <1>5, <1>7, <1>8, <1>9 DEF Accounts, Account

\* Whoever samples on its own does so with no answer at the socket and none awaited.
LEMMA AloneAccounts ==
  ASSUME Ring, Accounts, Figures', Account', bytes' = bytes, up' = up, watched' = watched,
         ask \in {"idle", "direct"}, ask' = "idle", sock' = sock, inbox' = inbox, mod' = mod,
         queue' = queue
  PROVE  Accounts'
<1>1. Inbox'
  BY DEF Accounts, Inbox
<1>2. InModule'
  BY SameSum DEF Accounts, InModule, NotAhead
<1>3. Requests'
  BY DEF Accounts, Requests
<1>. QED
  BY <1>1, <1>2, <1>3 DEF Accounts

\* The application samples, or the overlay does without the system module.
LEMMA DirectlyAccounts == Ring /\ Accounts /\ (AppSample \/ NotReady \/ Direct) => Accounts'
<1>. SUFFICES ASSUME Ring, Accounts, AppSample \/ NotReady \/ Direct PROVE Accounts'
  OBVIOUS
<1>1. SampleDirectly /\ bytes' = bytes /\ up' = up /\ watched' = watched
      /\ ask \in {"idle", "direct"} /\ ask' = "idle" /\ sock' = sock /\ inbox' = inbox
      /\ mod' = mod /\ queue' = queue
  BY DEF AppSample, NotReady, Direct, SampleDirectly, kernel, Accounts, Requests
<1>2. Figures' /\ Account'
  BY <1>1, DirectAccounts DEF Accounts
<1>. QED
  BY <1>1, <1>2, AloneAccounts

\* A new session has nothing to account for yet.
LEMMA ResetAccounts == Ring /\ Accounts /\ ResetHistory => Accounts'
<1>. SUFFICES ASSUME Ring, Accounts, ResetHistory PROVE Accounts'
  OBVIOUS
<1>1. s' = Fresh /\ h' = Session /\ ask = "idle" /\ ask' = ask /\ sock' = sock /\ inbox' = inbox
      /\ mod' = mod /\ queue' = queue /\ bytes' = bytes /\ up' = up /\ watched' = watched
  BY DEF ResetHistory, kernel
<1>2. Figures' /\ Account'
  BY <1>1 DEF Accounts, Figures, Account, Exact, Fresh, Session
<1>. QED
  BY <1>1, <1>2, AloneAccounts

\* A request has a socket that no answer under way is for.
LEMMA AskAccounts == Accounts /\ Ask => Accounts'
<1>. SUFFICES ASSUME Accounts, Ask PROVE Accounts'
  OBVIOUS
<1>1. /\ sock' = sock + 1 /\ inbox' = None /\ ask' = "poll"
      /\ queue' = IF ~runs THEN queue ELSE Append(queue, sock')
      /\ watched = "overlay" /\ watched' = watched
      /\ bytes' = bytes /\ up' = up /\ s' = s /\ h' = h /\ mod' = mod
  BY DEF Ask, kernel
<1>2. Figures' /\ Account'
  BY <1>1, SameAccount DEF Accounts
<1>3. Inbox'
  BY <1>1 DEF Inbox
<1>4. sock \in Nat /\ queue \in Seq(0..sock)
  BY DEF Accounts, Requests
<1>5. InModule'
  <2>1. mod # None => mod.to \in Nat /\ mod.to <= sock + 1 /\ mod.to # sock + 1
    BY <1>4 DEF Accounts, InModule
  <2>. QED BY <1>1, <2>1, SameSum DEF Accounts, InModule, NotAhead
<1>6. queue' \in Seq(0..sock')
  <2>1. 0..sock \subseteq 0..sock' /\ sock' \in 0..sock'
    BY <1>1, <1>4
  <2>2. queue \in Seq(0..sock')
    BY <1>4, <2>1
  <2>3. Append(queue, sock') \in Seq(0..sock')
    BY <2>1, <2>2, AppendProperties
  <2>. QED BY <1>1, <2>2, <2>3, Zenon
<1>7. Requests'
  BY <1>1, <1>4, <1>6 DEF Requests
<1>. QED
  BY <1>2, <1>3, <1>5, <1>7 DEF Accounts

\* An answer that is read is one to this request, so it is not behind the last sample.
LEMMA AnsweredAccounts == Ring /\ Accounts /\ Answered => Accounts'
<1>. SUFFICES ASSUME Ring, Accounts, Answered PROVE Accounts'
  OBVIOUS
<1>1. /\ inbox # None /\ inbox.available /\ Sample(inbox.value, inbox.whole)
      /\ ask' = "idle" /\ inbox' = None /\ sock' = sock /\ mod' = mod /\ queue' = queue
      /\ bytes' = bytes /\ up' = up /\ watched' = watched
  BY DEF Answered, kernel
<1>2. inbox \in Answers /\ NotAhead(inbox) /\ NotBehind(inbox)
  BY <1>1 DEF Accounts, Inbox
<1>3. /\ inbox.value \in Nat /\ inbox.whole \in BOOLEAN
      /\ inbox.whole => inbox.value <= RouteSum
      /\ inbox.whole /\ Exact => s.prev <= inbox.value
  BY <1>1, <1>2 DEF Answers, NotAhead, NotBehind
<1>4. Figures' /\ Account'
  BY <1>1, <1>3, SampleAccounts DEF Accounts
<1>5. Inbox'
  BY <1>1 DEF Inbox
<1>6. InModule'
  BY <1>1, SameSum DEF Accounts, InModule, NotAhead
<1>7. Requests'
  BY <1>1 DEF Accounts, Requests
<1>. QED
  BY <1>4, <1>5, <1>6, <1>7 DEF Accounts

\* The overlay gives up on an answer.
LEMMA UnansweredAccounts == Accounts /\ Unanswered => Accounts'
<1>. SUFFICES ASSUME Accounts, Unanswered PROVE Accounts'
  OBVIOUS
<1>1. /\ ask = "poll" /\ ask' = "direct" /\ inbox' = None /\ sock' = sock /\ mod' = mod
      /\ queue' = queue /\ bytes' = bytes /\ up' = up /\ s' = s /\ h' = h /\ watched' = watched
  BY DEF Unanswered, kernel
<1>2. Figures' /\ Account'
  BY <1>1, SameAccount DEF Accounts
<1>3. Inbox'
  BY <1>1 DEF Inbox
<1>4. InModule'
  BY <1>1, SameSum DEF Accounts, InModule, NotAhead
<1>5. Requests'
  BY <1>1 DEF Accounts, Requests
<1>. QED
  BY <1>2, <1>3, <1>4, <1>5 DEF Accounts

\* The system module reads the counters after the request, which came after the sample.
LEMMA ReceiveAccounts == Accounts /\ Receive => Accounts'
<1>. SUFFICES ASSUME Accounts, Receive PROVE Accounts'
  OBVIOUS
<1>1. PICK answer \in {Unread} \cup {[available |-> TRUE, value |-> v, whole |-> v = RouteSum] :
                                       v \in IoctlSums} :
        mod' = [to |-> Head(queue), answer |-> answer]
  BY DEF Receive
<1>2. /\ queue # <<>> /\ queue' = Tail(queue) /\ ask' = ask /\ sock' = sock /\ inbox' = inbox
      /\ bytes' = bytes /\ up' = up /\ s' = s /\ h' = h /\ watched' = watched
  BY DEF Receive, kernel
<1>3. Figures' /\ Account' /\ Exact' = Exact /\ RouteSum' = RouteSum
  BY <1>2, SameAccount, SameSum DEF Accounts
<1>4. RouteSum \in Nat /\ IoctlSums \in SUBSET Nat
  BY ReadingFacts DEF Accounts
<1>5. /\ answer \in Answers
      /\ answer.available /\ answer.whole => answer.value = RouteSum
  <2>1. CASE answer = Unread
    BY <2>1 DEF Unread, Answers
  <2>2. ASSUME NEW v \in IoctlSums,
               answer = [available |-> TRUE, value |-> v, whole |-> v = RouteSum]
        PROVE  /\ answer \in Answers
               /\ answer.available /\ answer.whole => answer.value = RouteSum
    BY <1>4, <2>2 DEF Answers
  <2>. QED BY <2>1, <2>2
<1>6. Head(queue) \in 0..sock /\ Tail(queue) \in Seq(0..sock) /\ sock \in Nat
  BY <1>2 DEF Accounts, Requests
<1>7. Inbox'
  BY <1>2, <1>3 DEF Accounts, Inbox, NotAhead, NotBehind
<1>8. InModule'
  <2>1. mod' \in [to : Nat, answer : Answers] /\ mod'.to <= sock' /\ mod'.answer = answer
    BY <1>1, <1>2, <1>5, <1>6
  <2>2. answer.available /\ answer.whole => answer.value <= RouteSum
    BY <1>4, <1>5
  <2>3. answer.available /\ answer.whole /\ Exact => s.prev <= answer.value
    BY <1>5 DEF Accounts, Account
  <2>. QED BY <1>2, <1>3, <2>1, <2>2, <2>3 DEF InModule, NotAhead, NotBehind
<1>9. Requests'
  BY <1>2, <1>6 DEF Accounts, Requests
<1>. QED
  BY <1>3, <1>7, <1>8, <1>9 DEF Accounts

\* An answer goes to the socket of its request, if that is still open.
LEMMA RespondAccounts == Accounts /\ Respond => Accounts'
<1>. SUFFICES ASSUME Accounts, Respond PROVE Accounts'
  OBVIOUS
<1>1. /\ mod # None /\ mod' = None /\ ask' = ask /\ sock' = sock /\ queue' = queue
      /\ inbox' = IF mod.to = sock /\ ask = "poll" THEN mod.answer ELSE inbox
      /\ bytes' = bytes /\ up' = up /\ s' = s /\ h' = h /\ watched' = watched
  BY DEF Respond, kernel
<1>2. Figures' /\ Account' /\ Exact' = Exact /\ RouteSum' = RouteSum
  BY <1>1, SameAccount, SameSum DEF Accounts
<1>3. Inbox'
  <2>1. CASE mod.to = sock /\ ask = "poll"
    <3>1. mod.answer \in Answers /\ NotAhead(mod.answer) /\ NotBehind(mod.answer)
      BY <1>1, <2>1 DEF Accounts, InModule
    <3>. QED BY <1>1, <1>2, <2>1, <3>1 DEF Inbox, NotAhead, NotBehind
  <2>2. CASE ~(mod.to = sock /\ ask = "poll")
    BY <1>1, <1>2, <2>2 DEF Accounts, Inbox, NotAhead, NotBehind
  <2>. QED BY <2>1, <2>2
<1>4. InModule'
  BY <1>1 DEF InModule
<1>5. Requests'
  BY <1>1 DEF Accounts, Requests
<1>. QED
  BY <1>2, <1>3, <1>4, <1>5 DEF Accounts

\* The system module starts, or ends with what was asked of it.
LEMMA BootAccounts == Accounts /\ Boot => Accounts'
<1>. SUFFICES ASSUME Accounts, Boot PROVE Accounts'
  OBVIOUS
<1>1. /\ mod' = None /\ queue' = <<>> /\ ask' = ask /\ sock' = sock /\ inbox' = inbox
      /\ bytes' = bytes /\ up' = up /\ s' = s /\ h' = h /\ watched' = watched
  BY DEF Boot, kernel
<1>2. Figures' /\ Account' /\ Exact' = Exact /\ RouteSum' = RouteSum
  BY <1>1, SameAccount, SameSum DEF Accounts
<1>3. Inbox'
  BY <1>1, <1>2 DEF Accounts, Inbox, NotAhead, NotBehind
<1>4. InModule' /\ Requests'
  BY <1>1 DEF InModule, Accounts, Requests
<1>. QED
  BY <1>2, <1>3, <1>4 DEF Accounts

\* Every step keeps the account.
LEMMA AccountStep == Ring /\ Accounts /\ [TrafficNext]_trafficVars => Accounts'
<1>. SUFFICES ASSUME Ring, Accounts, [TrafficNext]_trafficVars PROVE Accounts'
  OBVIOUS
<1>1. CASE UNCHANGED trafficVars
  <2>1. /\ bytes' = bytes /\ up' = up /\ s' = s /\ h' = h /\ watched' = watched /\ ask' = ask
        /\ sock' = sock /\ inbox' = inbox /\ mod' = mod /\ queue' = queue
    BY <1>1 DEF trafficVars
  <2>2. Figures' /\ Account' /\ Exact' = Exact /\ RouteSum' = RouteSum
    BY <2>1, SameAccount, SameSum DEF Accounts
  <2>3. Inbox' /\ InModule' /\ Requests'
    BY <2>1, <2>2 DEF Accounts, Inbox, InModule, Requests, NotAhead, NotBehind
  <2>. QED BY <2>2, <2>3 DEF Accounts
<1>2. CASE TrafficNext
  BY <1>2, CountAccounts, DisturbAccounts, ResetAccounts, DirectlyAccounts, AskAccounts,
     AnsweredAccounts, UnansweredAccounts, ReceiveAccounts, RespondAccounts, BootAccounts
     DEF TrafficNext, Overlay, Module
<1>. QED
  BY <1>1, <1>2

\* The ring and the account hold in every reachable state.
THEOREM TrafficInvariance == TrafficSpec => [](Ring /\ Accounts)
<1>1. TrafficInit => Ring /\ Accounts
  <2>. SUFFICES ASSUME TrafficInit PROVE Ring /\ Accounts
    OBVIOUS
  <2>1. Ring
    BY FreshRing DEF TrafficInit
  <2>2. Figures /\ Account
    <3>1. bytes \in [Ifaces -> Nat] /\ up \in SUBSET Ifaces
      BY DEF TrafficInit
    <3>. QED BY <3>1 DEF TrafficInit, Fresh, Session, Figures, Account, Exact
  <2>3. Inbox /\ InModule /\ Requests
    BY DEF TrafficInit, Inbox, InModule, Requests
  <2>. QED BY <2>1, <2>2, <2>3 DEF Accounts
<1>. QED
  BY <1>1, RingStep, AccountStep, PTL DEF TrafficSpec

-----------------------------------------------------------------------------
(* What follows for the code.                                              *)

\* The order of the exported history.
LEMMA RingIsLatest == Ring => HistoryIsLatest
<1> SUFFICES ASSUME Ring PROVE HistoryIsLatest
  OBVIOUS
<1> DEFINE n == Len(h.deltas)
           c == s.count
<1>1. PICK S : h.deltas \in Seq(S)
  BY DEF Ring
<1>2. n \in Nat /\ c = Lesser(n, N) /\ c \in 0..n /\ c <= N
  <2>1. n \in Nat
    BY <1>1
  <2>. QED
    BY <2>1, Size DEF Ring, Lesser
<1>3. c = Min({n, HistorySize})
  BY <1>2, Size, MinOfTwo DEF N
<1>4. ASSUME NEW i \in 1..c
      PROVE  s.ring[(s.pos - c + i - 1 + N) % N] = h.deltas[n - c + i]
  <2> DEFINE k == c - i + 1
             place == s.pos - c + i - 1 + N
  <2>1. k \in 1..c /\ n - k + 1 = n - c + i
    BY <1>2
  <2>2. s.pos \in 0..N - 1 /\ place = s.pos - k + N
    BY <1>2, Size DEF Ring
  <2>3. place \in 0..N + N - 1
    <3>1. k \in 1..N
      BY <1>2, <2>1, Size
    <3> HIDE DEF k, place
    <3>. QED
      BY <2>2, <3>1, Size
  <2>4. place % N = IF place < N THEN place ELSE place - N
    <3> HIDE DEF place
    <3>. QED
      BY <2>3, Size, Wrap
  <2>5. place % N = Back(s.pos, k)
    BY <1>2, <2>1, <2>2, <2>4, Size DEF Back
  <2>6. s.ring[Back(s.pos, k)] = h.deltas[n - k + 1]
    BY <2>1 DEF Ring
  <2>. QED
    BY <2>1, <2>5, <2>6
<1>5. Exported = [i \in 1..c |-> h.deltas[n - c + i]]
  BY <1>4 DEF Exported, N
<1>6. SubSeq(h.deltas, n - c + 1, n) = [i \in 1..c |-> h.deltas[n - c + i]]
  <2> DEFINE from == n - c + 1
             part == SubSeq(h.deltas, from, n)
  <2>1. from \in Nat /\ from >= 1 /\ from <= n + 1
    BY <1>2
  <2>2. n - from + 1 = c
    BY <1>2
  <2> HIDE DEF from
  <2>3. part \in Seq(S) /\ Len(part) = n - from + 1
        /\ \A i \in 1..(n - from + 1) : part[i] = h.deltas[from + i - 1]
    BY <1>1, <1>2, <2>1
  <2>4. part = [i \in 1..Len(part) |-> part[i]]
    BY <2>3
  <2>5. \A i \in 1..c : from + i - 1 = n - c + i
    BY <1>2 DEF from
  <2> HIDE DEF part
  <2>6. part = [i \in 1..c |-> h.deltas[n - c + i]]
    BY <2>2, <2>3, <2>4, <2>5
  <2>. QED
    BY <2>6 DEF part, from
<1>. QED
  BY <1>3, <1>5, <1>6 DEF HistoryIsLatest

\* What exportHistory writes and the graphs draw is the latest samples in their order, for a
\* ring of any size (sampleTraffic, network_sample_traffic).
THEOREM ExportIsLatest == TrafficSpec => []HistoryIsLatest
BY RingIsLatest, TrafficInvariance, PTL

\* The session totals lose and repeat nothing, whoever the counters came from and however late
\* an answer of the system module is (readSystemModuleCounters, sampleTraffic,
\* network_sample_traffic).
THEOREM TotalsAreAccounted == TrafficSpec => []TotalsAccount
<1>1. Accounts => TotalsAccount
  BY DEF Accounts, Account, Exact, TotalsAccount
<1>. QED
  BY <1>1, TrafficInvariance, PTL
=============================================================================
