--------------------------------- MODULE Fan ---------------------------------
(***************************************************************************)
(* The manual fan control of source/main.c (fan_service_start,             *)
(* fan_apply_safe_level, fan_service_restore, fan_safety_update and the    *)
(* fan popup).  It all runs on the UI thread; the console heats up and     *)
(* time passes beside it.                                                  *)
(***************************************************************************)
EXTENDS Integers

CONSTANTS Picks   \* levels, in percent, that the popup's slider may be left at

ASSUME PicksAssumption == Picks \subseteq 30..100

VARIABLES
  open,     \* fan_service_open
  manual,   \* fan_manual_active
  user,     \* fan_user_pct
  level,    \* what the fan was last told, 0 if the system controls it
  temp,     \* the skin temperature
  age,      \* seconds since fan_safety_tick; Period if that is 0
  heat,     \* seconds since temp changed (history)
  popup     \* popup_active and popup_type

fanVars == <<open, manual, user, level, temp, age, heat, popup>>

Period  == 2
MaxAge  == Period + 1   \* bound: time is told apart up to here
Temps   == {"cool", "warm", "hot", "unknown"}
Users   == Picks \cup {45}
Levels  == Picks \cup {0, 70, 100}

\* Below 55, from 55 and from 65 degrees, and when it cannot be read.
Floor(t) == CASE t = "cool" -> 0 [] t = "warm" -> 70 [] t \in {"hot", "unknown"} -> 100
Safe(pct) == IF pct < Floor(temp) THEN Floor(temp) ELSE pct
Longer(n) == IF n < MaxAge THEN n + 1 ELSE n

FanTypeOK ==
  /\ open \in BOOLEAN /\ manual \in BOOLEAN
  /\ user \in Users /\ level \in Levels
  /\ temp \in Temps /\ age \in 0..MaxAge /\ heat \in 0..MaxAge
  /\ popup \in {"none", "fan", "info"}

FanInit ==
  /\ open = FALSE /\ manual = FALSE /\ user = 45 /\ level = 0
  /\ temp \in Temps /\ age = Period /\ heat = 0 /\ popup = "none"

-----------------------------------------------------------------------------

\* The outside world.
Heat ==
  /\ \E t \in Temps \ {temp} : temp' = t
  /\ heat' = 0
  /\ UNCHANGED <<open, manual, user, level, age, popup>>

\* A second passes.  The loop of the UI thread calls fan_safety_update every 16 ms, if it
\* is not held up: then no second passes over an update that is due.
Second(heldUp) ==
  /\ heldUp \/ ~manual \/ age < Period
  /\ age' = Longer(age) /\ heat' = Longer(heat)
  /\ UNCHANGED <<open, manual, user, level, temp, popup>>

\* fan_service_restore, which is also the end of manual control after an error.
Restore ==
  /\ open' = FALSE /\ manual' = FALSE
  /\ level' = IF open THEN 0 ELSE level
  /\ age' = IF open \/ manual THEN Period ELSE age

\* fan_apply_safe_level when it succeeds.
Apply(pct) == open /\ manual' = TRUE /\ user' = pct /\ level' = Safe(pct) /\ open' = open

\* fan_service_start for the popup; the level the fan already has, if it can be read, is
\* its first pick.
OpenPopup ==
  /\ popup # "fan"
  /\ open' = TRUE /\ popup' = "fan"
  /\ user' \in IF open THEN {user} ELSE Picks \cup {user}
  /\ UNCHANGED <<manual, level, temp, age, heat>>

OpenPopupFails ==
  /\ popup # "fan" /\ ~open
  /\ popup' = "info"
  /\ UNCHANGED <<open, manual, user, level, temp, age, heat>>

\* APPLY.
ApplyPick ==
  /\ popup = "fan" /\ popup' = "none"
  /\ \E pct \in Picks : \/ Apply(pct) /\ age' = 0
                        \/ Restore /\ user' = IF open THEN pct ELSE user
  /\ UNCHANGED <<temp, heat>>

\* AUTO.
AutoMode ==
  /\ popup = "fan" /\ popup' = "none"
  /\ Restore
  /\ UNCHANGED <<user, temp, heat>>

\* The X, a tap outside or 100 s: a manual level stays.
Dismiss ==
  /\ popup = "fan" /\ popup' = "none"
  /\ IF manual THEN UNCHANGED <<open, manual, level, age>> ELSE Restore
  /\ UNCHANGED <<user, temp, heat>>

\* A control that the popup does not cover, or does not swallow the tap for, opens
\* another popup in its place: the service stays open.
ReplacePopup ==
  /\ popup' = "info"
  /\ UNCHANGED <<open, manual, user, level, temp, age, heat>>

DismissInfo ==
  /\ popup = "info" /\ popup' = "none"
  /\ UNCHANGED <<open, manual, user, level, temp, age, heat>>

\* Mutant: the update only watches, it does not raise the level.
UpdateOnlyLooks ==
  /\ manual /\ open /\ age >= Period
  /\ age' = 0
  /\ UNCHANGED <<open, manual, user, level, temp, heat, popup>>

\* fan_safety_update when it is due: the level is applied again, or control is given
\* back.
Update ==
  /\ manual /\ open /\ age >= Period
  /\ \/ Apply(user) /\ age' = 0
     \/ Restore /\ UNCHANGED user
  /\ UNCHANGED <<temp, heat, popup>>

FanUI == OpenPopup \/ OpenPopupFails \/ ApplyPick \/ AutoMode \/ Dismiss \/ ReplacePopup \/ DismissInfo \/ Update

-----------------------------------------------------------------------------

\* A manual level is watched, and meets the floor of any temperature that has lasted for
\* longer than the period of fan_safety_update ("Never reduce cooling as the console
\* heats up", main.c:6086), unless the UI thread has been held up since (age > Period).
FanFollowsHeat ==
  manual => open /\ (heat > Period => level >= Floor(temp) \/ age > Period)
=============================================================================
