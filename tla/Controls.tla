------------------------------- MODULE Controls -------------------------------
(***************************************************************************)
(* What the tools and the controller page drive: the two motors of the     *)
(* controllers, the clocks of CPU and GPU, and the brightness.             *)
(***************************************************************************)
EXTENDS Settings

CONSTANTS Rates,       \* per module "cpu", "gpu", "emc": how its rates are listed, and the rates in kHz
          Taps,        \* bound: where a clock's slider is touched
          Handles      \* motors the controllers that are connected may have: a set of 1 and 2

\* Each of the three clocks has at least one rate, and a target asked for is in whole MHz.
ASSUME ControlsAssumption ==
  /\ {"cpu", "gpu", "emc"} \subseteq DOMAIN Rates
  /\ \A m \in DOMAIN Rates : Rates[m].rates \in Seq(Nat) \ {<<>>}
  /\ Taps["cpu"] \subseteq Nat /\ Taps["gpu"] \subseteq Nat
  /\ Handles \subseteq {1, 2}

VARIABLES
  vibe,      \* vibe_init_ok and vibe_handle_count, vibe_active, vibe_stop_retries, and whether
             \* ctrl_rumble_until is still ahead
  turning,   \* the motors that turn
  held,      \* those the last frame meant to turn (history)
  lost,      \* those that turn though the program believes they do not, after a failed call (history)
  hw,        \* the clock rates in kHz
  current,   \* the targets that were set since the start and outlived no half reset (history)
  light      \* ctrl_brightness in hundredths, -1 until it is read; what the screen has; whether it
             \* sets itself; whether the last setting worked (history)

motors == <<vibe, turning, held, lost>>
clocks == <<hw, current, light>>

-----------------------------------------------------------------------------
(* Motors.  A frame asks for several things of them, each of which may     *)
(* fail: an operation here gives the states it may leave, of what the      *)
(* program knows, what turns, and the failures that may still come.        *)

Motors == {0, 1}
Rumble == [v |-> vibe, on |-> turning, lost |-> lost, rare |-> rare]
Failing(s) == IF s.rare > 0 THEN {[s EXCEPT !.rare = @ - 1]} ELSE {}

\* init_vibration_for_pad
Readied(s) ==
  IF s.v.ready THEN {s}
  ELSE {[s EXCEPT !.v.ready = TRUE, !.v.count = n] : n \in Handles} \cup Failing(s)

\* Mutant: a stop that could not be sent counts.
StoppedOnce(s, i) ==
  LET tries == IF s.v.active[i] /\ s.v.retries[i] = 0 THEN 3 ELSE s.v.retries[i]
      count(t) == [t EXCEPT !.v.retries[i] = 0, !.v.active[i] = FALSE]
  IN  IF tries = 0 THEN {s}
      ELSE {count([s EXCEPT !.on = @ \ {i}])} \cup {count(t) : t \in Failing(s)}

\* vibration_stop: the stop is sent three times, and one that fails does not count.
Stopped(s, i) ==
  LET tries == IF s.v.active[i] /\ s.v.retries[i] = 0 THEN 3 ELSE s.v.retries[i]
      sent  == [s EXCEPT !.v.retries[i] = tries - 1, !.v.active[i] = @ /\ tries > 1, !.on = @ \ {i}]
  IN  IF tries = 0 THEN {s}
      ELSE {sent} \cup {[t EXCEPT !.v.retries[i] = tries] : t \in Failing(s)}

\* vibration_hold of a pressed button; a motor that turns is told again eight times a second.
Pressed(s, i) ==
  IF ~s.v.ready \/ i >= s.v.count THEN {s}
  ELSE {[s EXCEPT !.v.active[i] = TRUE, !.v.retries[i] = 0, !.on = @ \cup {i}]}
       \cup {t \in {s} : s.v.active[i]}
       \cup {[t EXCEPT !.v.active[i] = FALSE, !.lost = @ \cup ({i} \cap t.on)] : t \in Failing(s)}

\* ctrl_trigger_rumble
Triggered(s, which) ==
  LET timed(t) == [t EXCEPT !.v.until = [i \in Motors |-> i \in which \/ @[i]]]
      one(S, i) == IF i \in which THEN UNION {Pressed(t, i) : t \in S} ELSE S
  IN  one(one({timed(t) : t \in Readied(s)}, 0), 1)

\* A frame of the main loop: the controllers are tried again while none is ready, motors are started
\* for their time by touch or, later in it, by X, and each turns while its button is held on the
\* tools page or its time lasts.
MotorFrame(touched, buttons, over, x) ==
  LET hold(s) == (IF cur' = ToolsPage THEN buttons ELSE {})
                   \cup {i \in Motors : s.v.until[i] /\ i \notin over}
      due(s)  == [s EXCEPT !.v.until = [i \in Motors |-> @[i] /\ i \notin over]]
      keep(s, i) == IF i \in held' THEN Pressed(s, i) ELSE Stopped(s, i)
  IN  \E s \in Readied(Rumble) \cup {Rumble} :
      \E t \in IF touched = {} THEN {s} ELSE Triggered(s, touched) :
        /\ held' = hold(t)
        /\ \E u \in keep(due(t), 0) : \E w \in keep(u, 1) :
           \E z \in IF x THEN Triggered(w, Motors) ELSE {w} :
             /\ vibe' = z.v /\ turning' = z.on /\ rare' = z.rare
             /\ lost' = {i \in z.lost \cap z.on : ~z.v.active[i]}

NoVibe == [ready |-> FALSE, count |-> 0, active |-> [i \in Motors |-> FALSE],
           retries |-> [i \in Motors |-> 0], until |-> [i \in Motors |-> FALSE]]

\* exit_app stops each motor once more, and a new start knows of none.
ExitStops ==
  /\ \E s \in Stopped(Rumble, 0) : \E t \in Stopped(s, 1) :
       /\ turning' = t.on /\ rare' = t.rare
       /\ lost' = IF t.rare = rare THEN lost ELSE t.on
  /\ vibe' = NoVibe /\ held' = {}

-----------------------------------------------------------------------------
(* Clocks.                                                                 *)

Distance(a, b) == IF a > b THEN a - b ELSE b - a

\* The rate scale_set_clock selects: the first of the nearest ones, or the one asked for, within the
\* range there is.
SelectedRate(list, khz) ==
  LET R == list.rates
      low == Min(ToSet(R))
      high == Max(ToSet(R))
  IN  IF list.kind = "range" THEN IF khz < low THEN low ELSE IF khz > high THEN high ELSE khz
      ELSE R[Min({i \in DOMAIN R : \A j \in DOMAIN R : Distance(R[i], khz) <= Distance(R[j], khz)})]

\* Mutant: the target is what was asked for.
SetClockAsked(module, mhz) ==
  \/ /\ hw' = [hw EXCEPT ![module] = SelectedRate(Rates[module], mhz * 1000)]
     /\ current' = current \cup {module} /\ Confirm([cfg EXCEPT ![module] = mhz], shown)
  \/ Rare /\ UNCHANGED <<hw, current, cfg, shown, want, file, sure, beneath, tutorial, tuto>>

\* scale_set_clock; the target becomes what the clock was set to, in whole MHz, and is saved.
SetClock(module, mhz) ==
  \/ /\ hw' = [hw EXCEPT ![module] = SelectedRate(Rates[module], mhz * 1000)]
     /\ current' = current \cup {module} /\ Confirm([cfg EXCEPT ![module] = hw'[module] \div 1000], shown)
  \/ Rare /\ UNCHANGED <<hw, current, cfg, shown, want, file, sure, beneath, tutorial, tuto>>

\* scale_reset_all: when one of the three fails, those before it have changed and the targets stay.
ResetClocks(docked) ==
  LET mhz  == IF docked THEN <<1785, 768, 1600>> ELSE <<1020, 307, 1600>>
      of   == <<"cpu", "gpu", "emc">>
      done(n) == [m \in DOMAIN hw |-> IF \E i \in 1..n : of[i] = m
                                      THEN SelectedRate(Rates[m], mhz[CHOOSE i \in 1..n : of[i] = m] * 1000)
                                      ELSE hw[m]]
  IN  \/ hw' = done(3) /\ UNCHANGED current /\ Confirm([cfg EXCEPT !.cpu = 0, !.gpu = 0], shown)
      \/ /\ Rare /\ \E n \in 0..2 : hw' = done(n) /\ current' = current \ {of[i] : i \in 1..n}
         /\ UNCHANGED <<cfg, shown, want, file, sure, beneath, tutorial, tuto>>

-----------------------------------------------------------------------------
(* Brightness.                                                             *)

\* brightness_apply
Apply(known) ==
  \/ light' = [light EXCEPT !.known = known, !.screen = known, !.sure = TRUE] /\ Fine
  \/ Rare /\ light' = [light EXCEPT !.known = known, !.sure = FALSE]

\* The directions, in steps of five from what is known or, the first time, read.
Brighter(step) ==
  \E from \in IF light.known >= 0 THEN {light.known} ELSE {light.screen, 50} :
    LET to == from + step IN Apply(IF to > 100 THEN 100 ELSE IF to < 0 THEN 0 ELSE to)

\* The page reads it when it is drawn first.
ReadLight == light.known = -1 /\ light' = [light EXCEPT !.known = light.screen] /\ Fine

\* A touch or A: the screen sets itself, or does no longer.
ToggleAuto == (light' = [light EXCEPT !.auto = ~@] /\ Fine) \/ (Rare /\ UNCHANGED light)

AutoChanges(level) == light.auto /\ light' = [light EXCEPT !.screen = level, !.sure = FALSE] /\ Fine

ControlsInit ==
  /\ vibe = NoVibe /\ turning = {} /\ held = {} /\ lost = {}
  /\ hw = [m \in DOMAIN Rates |-> Rates[m].rates[1]] /\ current = {}
  /\ light = [known |-> -1, screen |-> 40, auto |-> FALSE, sure |-> TRUE]

-----------------------------------------------------------------------------
(* Properties.                                                             *)

\* A motor turns only while its button is held or its time lasts, or until the stop that failed is
\* sent again; unless a call to keep it turning failed, after which the program believes it stands.
MotorStops ==
  \A i \in turning : i \in held \/ vibe.until[i] \/ (vibe.active[i] /\ vibe.retries[i] > 0) \/ i \in lost

\* A target that shows is the rate its clock has, and the brightness that shows is the screen's;
\* unless it was loaded only, a reset stopped half way, the setting failed, or the screen sets itself.
ControlsTrue ==
  /\ \A m \in current : cfg[m] # 0 => hw[m] \div 1000 = cfg[m]
  /\ light.sure /\ light.known >= 0 => light.known = light.screen

=============================================================================
