------------------------------- MODULE Workers -------------------------------
(***************************************************************************)
(* The background threads the UI thread of source/main.c starts one at a   *)
(* time of each kind: the network test, the telemetry ("anti-ban") check   *)
(* and the SD card scan; how a finished one is reaped, how all are stopped *)
(* at exit, and what the UI may conclude from the results they leave.      *)
(*                                                                         *)
(* The network test and the telemetry check tell the UI they are done with *)
(* a volatile flag, the scan with storage_scan_state under a mutex.  A     *)
(* step is one access to what both sides share, or one critical section.   *)
(***************************************************************************)
EXTENDS Naturals, FiniteSets

CONSTANTS Hosts,     \* names the telemetry check resolves (3 in the code)
          MaxFound,  \* bound: entries of the SD card's root
          MaxKept    \* STORAGE_SCAN_MAX_ENTRIES

ASSUME BoundsAssumption == MaxFound \in Nat /\ MaxKept \in Nat
ASSUME HostsAssumption == IsFiniteSet(Hosts)

Workers == {"net", "antiban", "scan"}

VARIABLES
  flag,     \* net_test_running, antiban_running, storage_scan_state = RUNNING
  started,  \* net_test_started, antiban_thr_started, storage_scan_thread_started
  handle,   \* the Thread structures: "none", "open", or "stale" once closed
  thr,      \* the threads: "none", "ready" (created), "work", "told" (the verdict is
            \* out), "ending" (the last store is done, the thread is not), "exited"
  ui,       \* where the UI thread is in a start or in the exit sequence
  who,      \* the worker it is at
  host,     \* antiban_targets[h].state
  asked,    \* the hosts the check is done with
  overall,  \* antiban_overall
  scan,     \* storage_scan_state when it is not RUNNING, and the tallies
  detail,   \* storage_scan_detail_category >= 0
  picked    \* a category was picked since the page was last drawn (history)

threads == <<flag, started, handle, thr>>
uiVars  == <<ui, who>>
banVars == <<host, asked, overall>>
sdVars  == <<scan, detail, picked>>
vars    == <<threads, uiVars, banVars, sdVars>>

HostStates == {"not_tested", "testing", "blocked", "unblocked"}

\* The results of a scan, guarded by storage_scan_mutex: state, the entries kept and
\* the bytes counted (an entry counts one), the truncated mark, the cancel request,
\* the sorted cache with the entries it covers; seen is history: entries visited.
Scan == [state : {"idle", "complete", "failed"}, kept : 0..MaxKept,
         bytes : 0..MaxFound, truncated : BOOLEAN, cancel : BOOLEAN,
         cached : BOOLEAN, sorted : 0..MaxKept, seen : 0..MaxFound]

TypeOK ==
  /\ flag \in [Workers -> BOOLEAN]
  /\ started \in [Workers -> BOOLEAN]
  /\ handle \in [Workers -> {"none", "open", "stale"}]
  /\ thr \in [Workers -> {"none", "ready", "work", "told", "ending", "exited"}]
  /\ ui \in {"idle", "reap", "create", "launch", "test", "wait", "close", "gone"}
  /\ who \in Workers
  /\ host \in [Hosts -> HostStates]
  /\ asked \in SUBSET Hosts
  /\ overall \in HostStates
  /\ scan \in Scan
  /\ detail \in BOOLEAN /\ picked \in BOOLEAN

Init ==
  /\ flag = [w \in Workers |-> FALSE]
  /\ started = [w \in Workers |-> FALSE]
  /\ handle = [w \in Workers |-> "none"]
  /\ thr = [w \in Workers |-> "none"]
  /\ ui = "idle" /\ who = "net"
  /\ host = [h \in Hosts |-> "not_tested"] /\ asked = {} /\ overall = "not_tested"
  /\ scan = [state |-> "idle", kept |-> 0, bytes |-> 0, truncated |-> FALSE,
             cancel |-> FALSE, cached |-> FALSE, sorted |-> 0, seen |-> 0]
  /\ detail = FALSE /\ picked = FALSE

Set(f, w, v) == f' = [f EXCEPT ![w] = v]

-----------------------------------------------------------------------------
(* The UI thread: net_test_start, antiban_start_test, storage_scan_start.  *)

\* Mutant: the previous thread is not reaped.
BeginNoReap(w) ==
  /\ ui = "idle" /\ ~flag[w]
  /\ ui' = "create"
  /\ who' = w
  /\ UNCHANGED <<threads, banVars, sdVars>>

\* A button is touched.  Nothing happens while the worker's flag is set.
Begin(w) ==
  /\ ui = "idle" /\ ~flag[w]
  /\ ui' = IF started[w] THEN "reap" ELSE "create"
  /\ who' = w
  /\ UNCHANGED <<threads, banVars, sdVars>>

\* threadWaitForExit returns when the thread has exited, or at once (with an error)
\* when the handle is stale; threadClose.
Exited(w) == handle[w] = "open" => thr[w] = "exited"
Close(w) == Set(handle, w, "stale") /\ Set(thr, w, "none")

\* The previous thread is waited for and closed; net_test_started stays set.
Reap ==
  /\ ui = "reap" /\ Exited(who)
  /\ Close(who)
  /\ Set(started, who, started[who] /\ who = "net")
  /\ ui' = "create"
  /\ UNCHANGED <<flag, who, banVars, sdVars>>

\* Mutant: the entries, tallies and the cache of the last scan are kept.
ResetScanKeepsTallies ==
  /\ scan' = [scan EXCEPT !.state = "idle", !.cancel = FALSE, !.cached = FALSE,
                          !.truncated = FALSE, !.seen = 0]
  /\ detail' = FALSE /\ picked' = FALSE

\* Mutant: the category shown is not reset.
ResetScanKeepsDetail ==
  /\ scan' = [scan EXCEPT !.state = "idle", !.kept = 0, !.bytes = 0,
                          !.truncated = FALSE, !.cancel = FALSE, !.cached = FALSE,
                          !.seen = 0]
  /\ picked' = FALSE /\ UNCHANGED detail

\* The reset at the start of a scan.  The sorted indices are left as they are.
ResetScan ==
  /\ scan' = [scan EXCEPT !.state = "idle", !.kept = 0, !.bytes = 0,
                          !.truncated = FALSE, !.cancel = FALSE, !.cached = FALSE,
                          !.seen = 0]
  /\ detail' = FALSE /\ picked' = FALSE

\* What each start resets before it creates its thread.
Reset(w) ==
  /\ IF w = "antiban"
     THEN host' = [h \in Hosts |-> "testing"] /\ overall' = "testing" /\ asked' = {}
     ELSE UNCHANGED banVars
  /\ IF w = "scan" THEN ResetScan ELSE UNCHANGED sdVars

\* The flag is set and threadCreate succeeds.
Create ==
  /\ ui = "create"
  /\ Set(flag, who, TRUE) /\ Set(handle, who, "open") /\ Set(thr, who, "ready")
  /\ Reset(who)
  /\ ui' = "launch"
  /\ UNCHANGED <<started, who>>

\* The flag is set, threadCreate fails, the flag is cleared.
CreateFails ==
  /\ ui = "create"
  /\ IF who = "antiban"
     THEN host' = [h \in Hosts |-> "testing"] /\ overall' = "not_tested" /\ asked' = {}
     ELSE UNCHANGED banVars
  /\ IF who = "scan"
     THEN /\ scan' = [scan EXCEPT !.state = "failed", !.kept = 0, !.bytes = 0,
                                  !.truncated = FALSE, !.cancel = FALSE, !.cached = FALSE,
                                  !.seen = 0]
          /\ detail' = FALSE /\ picked' = FALSE
     ELSE UNCHANGED sdVars
  /\ ui' = "idle"
  /\ UNCHANGED <<flag, started, handle, thr, who>>

\* threadStart succeeds.
Launch ==
  /\ ui = "launch"
  /\ Set(thr, who, "work") /\ Set(started, who, TRUE)
  /\ ui' = "idle"
  /\ UNCHANGED <<flag, handle, who, banVars, sdVars>>

\* Mutant: nobody looks at the result of threadStart.
LaunchFailsUnseen ==
  /\ ui = "launch"
  /\ Set(started, who, TRUE)
  /\ ui' = "idle"
  /\ UNCHANGED <<flag, handle, thr, who, banVars, sdVars>>

\* threadStart fails: the test and the scan close the handle and clear the flag
\* again; the telemetry check does not look at the result.
LaunchFails ==
  /\ ui = "launch"
  /\ IF who = "antiban"
     THEN Set(started, who, TRUE) /\ UNCHANGED <<flag, handle, thr>>
     ELSE Close(who) /\ Set(flag, who, FALSE) /\ UNCHANGED started
  /\ scan' = IF who = "scan" THEN [scan EXCEPT !.state = "failed"] ELSE scan
  /\ ui' = "idle"
  /\ UNCHANGED <<who, banVars, detail, picked>>

-----------------------------------------------------------------------------
(* The UI thread between starts.                                           *)

\* Drawing the storage page: storage_scan_prepare_cache.
Draw ==
  /\ ui = "idle"
  /\ scan' = IF scan.state = "complete" /\ ~scan.cached
             THEN [scan EXCEPT !.cached = TRUE, !.sorted = scan.kept] ELSE scan
  /\ picked' = FALSE
  /\ UNCHANGED <<threads, uiVars, banVars, detail>>

\* A category of a complete scan is touched, ...
Pick ==
  /\ ui = "idle" /\ scan.state = "complete"
  /\ detail' = TRUE /\ picked' = TRUE
  /\ UNCHANGED <<threads, uiVars, banVars, scan>>

-----------------------------------------------------------------------------
(* The exit sequence: net_test_cleanup, antiban_cleanup,                   *)
(* storage_scan_cleanup.                                                   *)

\* The next worker to clean up, from the state of the flags.
Enter(w) == who' = w /\ ui' = "test"
Onwards ==
  CASE who = "net"     -> Enter("antiban")
    [] who = "antiban" -> Enter("scan")
    [] who = "scan"    -> ui' = "gone" /\ who' = who

Exit ==
  /\ ui = "idle"
  /\ Enter("net")
  /\ UNCHANGED <<threads, banVars, sdVars>>

\* The cleanup of the test and of the check wait only if the flag is set; that of
\* the scan always does.
TestFlag ==
  /\ ui = "test"
  /\ CASE who = "scan" ->
            /\ IF started[who]
               THEN ui' = "wait" /\ who' = who /\ scan' = [scan EXCEPT !.cancel = TRUE]
               ELSE Onwards /\ scan' = scan
            /\ flag' = flag
       [] who = "net" /\ ~started[who] -> Onwards /\ UNCHANGED <<flag, scan>>
       [] OTHER ->
            /\ ui' = IF flag[who] THEN "wait" ELSE "close"
            /\ Set(flag, who, FALSE)
            /\ UNCHANGED <<who, scan>>
  /\ UNCHANGED <<started, handle, thr, banVars, detail, picked>>

Wait ==
  /\ ui = "wait" /\ Exited(who)
  /\ ui' = "close"
  /\ UNCHANGED <<threads, who, banVars, sdVars>>

\* The cleanup of the test and of the check may close the handle of a thread that has
\* made its last store and is still ending.
CloseAtExit ==
  /\ ui = "close"
  /\ IF started[who]
     THEN /\ Set(handle, who, "stale")
          /\ Set(thr, who, IF thr[who] = "ending" THEN "ending" ELSE "none")
          /\ Set(started, who, started[who] /\ who = "net")
     ELSE UNCHANGED <<handle, thr, started>>
  /\ Onwards
  /\ UNCHANGED <<flag, banVars, sdVars>>

Exiting == ui \in {"test", "wait", "close", "gone"}

-----------------------------------------------------------------------------
(* The threads.                                                            *)

\* The network test runs to its end, or finds the flag cleared; its last store.
NetTest ==
  /\ thr["net"] = "work"
  /\ Set(flag, "net", FALSE) /\ Set(thr, "net", "ending")
  /\ UNCHANGED <<started, handle, uiVars, banVars, sdVars>>

\* The check resolves one more host and tries to connect to it.
AskHost ==
  /\ thr["antiban"] = "work" /\ flag["antiban"]
  /\ \E h \in Hosts \ asked, verdict \in {"blocked", "unblocked"} :
       Set(host, h, verdict) /\ asked' = asked \cup {h}
  /\ UNCHANGED <<threads, uiVars, overall, sdVars>>

\* Mutant: one blocked host is taken for all.
VerdictOfOne ==
  /\ thr["antiban"] = "work" /\ (asked = Hosts \/ ~flag["antiban"])
  /\ overall' = IF \A h \in asked : host[h] = "unblocked" THEN "unblocked" ELSE "blocked"
  /\ Set(thr, "antiban", "told")
  /\ UNCHANGED <<flag, started, handle, uiVars, host, asked, sdVars>>

\* Its verdict, also when it was stopped before the last host.
Verdict ==
  /\ thr["antiban"] = "work" /\ (asked = Hosts \/ ~flag["antiban"])
  /\ overall' = IF \E h \in asked : host[h] = "unblocked" THEN "unblocked" ELSE "blocked"
  /\ Set(thr, "antiban", "told")
  /\ UNCHANGED <<flag, started, handle, uiVars, host, asked, sdVars>>

BanDone ==
  /\ thr["antiban"] = "told"
  /\ Set(flag, "antiban", FALSE) /\ Set(thr, "antiban", "ending")
  /\ UNCHANGED <<started, handle, uiVars, banVars, sdVars>>

\* One entry of the root, with what is below it, is added up under the mutex.
ScanEntry ==
  /\ thr["scan"] = "work" /\ ~scan.cancel /\ scan.seen < MaxFound
  /\ scan' = [scan EXCEPT !.seen = @ + 1, !.bytes = @ + 1,
                          !.kept = IF @ < MaxKept THEN @ + 1 ELSE @,
                          !.truncated = @ \/ scan.kept = MaxKept]
  /\ UNCHANGED <<threads, uiVars, banVars, detail, picked>>

\* The root has been read or the scan was cancelled; or it cannot be opened.
ScanEnds(state) ==
  /\ thr["scan"] = "work"
  /\ scan' = [scan EXCEPT !.state = state]
  /\ Set(flag, "scan", FALSE) /\ Set(thr, "scan", "ending")
  /\ UNCHANGED <<started, handle, uiVars, banVars, detail, picked>>

ScanDone  == ScanEnds(IF scan.cancel THEN "idle" ELSE "complete")
ScanFails == scan.seen = 0 /\ ScanEnds("failed")

End(w) ==
  /\ thr[w] = "ending"
  /\ Set(thr, w, "exited")
  /\ UNCHANGED <<flag, started, handle, uiVars, banVars, sdVars>>

StartWorker == Reap \/ Create \/ CreateFails \/ Launch \/ LaunchFails
ExitSteps   == TestFlag \/ Wait \/ CloseAtExit
Thread(w) ==
  \/ w = "net" /\ NetTest
  \/ w = "antiban" /\ (AskHost \/ Verdict \/ BanDone)
  \/ w = "scan" /\ (ScanEntry \/ ScanDone \/ ScanFails)
  \/ End(w)
Next ==
  \/ \E w \in Workers : Begin(w) \/ Thread(w)
  \/ StartWorker \/ Draw \/ Pick \/ Exit \/ ExitSteps

\* Threads are scheduled and their system calls time out; the UI thread goes on with
\* what it has begun.  Nobody has to touch a button.
Fairness ==
  /\ \A w \in Workers : WF_vars(Thread(w))
  /\ WF_vars(StartWorker) /\ WF_vars(ExitSteps)

Spec == Init /\ [][Next]_vars
FairSpec == Spec /\ Fairness

-----------------------------------------------------------------------------
(* Properties.                                                             *)

\* A Thread structure is given to threadCreate only when the thread it described
\* is gone and its handle closed: no two tests of a kind, no leaked handle.
NoLostThread == ui = "create" => handle[who] # "open" /\ thr[who] = "none"

\* "Protected" is only ever shown when every host was found blocked in the same
\* check (at exit a cancelled check says so too, when nobody looks any more).
ShieldMeansBlocked ==
  overall = "blocked" /\ ~Exiting => \A h \in Hosts : host[h] = "blocked"

\* A complete scan shows what it saw itself, nothing of an earlier one: every byte,
\* as many entries as are kept, the truncation mark exactly when some were left out,
\* and a sorted list of just these entries.
ScanResult ==
  scan.state = "complete" =>
    /\ scan.bytes = scan.seen
    /\ scan.kept = (IF scan.seen < MaxKept THEN scan.seen ELSE MaxKept)
    /\ scan.truncated = (scan.seen > MaxKept)
    /\ scan.cached => scan.sorted = scan.kept

\* An entry is opened through the sorted list of the scan that is shown, unless the
\* category was picked since the page was last drawn: two touches in one frame read
\* the indices of the scan before.
DetailIsSorted == detail /\ scan.state = "complete" => scan.cached \/ picked

\* Every test that begins ends, and so does the exit, unless the telemetry check's
\* thread was created and could not be started: its flag stays set and
\* antiban_cleanup waits for a thread that will never run.
NeverStarted == thr["antiban"] = "ready" /\ ui # "launch"
EverythingEnds ==
  /\ \A w \in Workers : flag[w] ~> (~flag[w] \/ NeverStarted)
  /\ Exiting ~> (ui = "gone" \/ NeverStarted)
=============================================================================
