--------------------------- MODULE MtpWorker_proof ---------------------------
(***************************************************************************)
(* The MTP worker, by itself (MtpWrapper), beside the fan that the same UI *)
(* thread looks after (App), and with its data phases (MtpTransfer).       *)
(*                                                                         *)
(* Life: the worker is never lost and nothing of it is left behind, proved *)
(* from which of the flags each point of the two threads goes with         *)
(* (Stages), and that a stop which has done all it can has been seen or    *)
(* will be (NoLostStop).                                                   *)
(*                                                                         *)
(* Application: its worker is that one, so all of this holds beside the    *)
(* fan; and the fan follows the temperature for any set of levels a user   *)
(* may pick.  Watched says when a level may be too low: only if the        *)
(* temperature changed after it was applied.                               *)
(*                                                                         *)
(* Transfers: what the host was told is there is what is on the card, for  *)
(* files of any size.  Expected says of a data phase that may still end    *)
(* well that the card holds what the host should see, cut off at the       *)
(* blocks written so far.                                                  *)
(***************************************************************************)
EXTENDS App, MtpTransfer, TLAPS

StopPoints == {"clear", "tell", "join"}

Stages ==
  /\ on => ui \in {"idle", "exit"}
  /\ quit => ui # "idle"
  /\ handle <=> on \/ ui \in StopPoints
  /\ handle <=> pc # "none"
  /\ ui \in StopPoints => stopping
  /\ running => pc \in InRun \cup {"check", "leave", "delete", "exit"}
  /\ server <=> pc \in InRun \cup {"flag", "check", "leave"}
  /\ alive <=> pc \in InRun \cup {"publish", "flag", "check", "leave", "delete"}
  /\ usb <=> pc \notin {"none", "usb", "ended"}

MtpInv == MtpTypeOK /\ Stages /\ NoLostStop
-----------------------------------------------------------------------------

\* The initial state satisfies the invariant.
LEMMA MtpInitial == MtpInit => MtpInv
BY DEF MtpInit, MtpInv, MtpTypeOK, Stages, NoLostStop, StopPoints, InRun

\* Every step keeps the types.
LEMMA MtpTypeStep == MtpTypeOK /\ [MtpNext]_mtpVars => MtpTypeOK'
<1> SUFFICES ASSUME MtpTypeOK, [MtpNext]_mtpVars PROVE MtpTypeOK'
  OBVIOUS
<1> USE DEF MtpTypeOK, InRun
<1>1. CASE MtpStart
  BY <1>1 DEF MtpStart
<1>2. CASE MtpStartFails
  BY <1>2 DEF MtpStartFails
<1>3. CASE Exit
  BY <1>3 DEF Exit
<1>4. CASE ExitDone
  BY <1>4 DEF ExitDone
<1>5. CASE MtpStop
  BY <1>5 DEF MtpStop
<1>6. CASE StopClear
  BY <1>6 DEF StopClear
<1>7. CASE StopTell
  BY <1>7 DEF StopTell
<1>8. CASE StopJoin
  BY <1>8 DEF StopJoin
<1>9. CASE OpenUsb
  BY <1>9 DEF OpenUsb
<1>10. CASE OpenUsbFails
  BY <1>10 DEF OpenUsbFails
<1>11. CASE Build
  BY <1>11 DEF Build
<1>12. CASE BuildFails
  BY <1>12 DEF BuildFails
<1>13. CASE Publish
  BY <1>13 DEF Publish
<1>14. CASE Flag
  BY <1>14 DEF Flag
<1>15. CASE Check
  BY <1>15 DEF Check
<1>16. CASE Loop
  BY <1>16 DEF Loop
<1>17. CASE Serve
  BY <1>17 DEF Serve
<1>18. CASE BeginTransfer
  BY <1>18 DEF BeginTransfer
<1>19. CASE EndTransfer
  BY <1>19 DEF EndTransfer
<1>20. CASE Leave
  BY <1>20 DEF Leave
<1>21. CASE Remove
  BY <1>21 DEF Remove
<1>22. CASE Finish
  BY <1>22 DEF Finish
<1>23. CASE ReadNothing
  BY <1>23 DEF ReadNothing
<1>24. CASE Answer
  BY <1>24 DEF Answer
<1>25. CASE UNCHANGED mtpVars
  BY <1>25 DEF mtpVars
<1>. QED
  BY <1>1, <1>2, <1>3, <1>4, <1>5, <1>6, <1>7, <1>8, <1>9, <1>10, <1>11, <1>12, <1>13,
    <1>14, <1>15, <1>16, <1>17, <1>18, <1>19, <1>20, <1>21, <1>22, <1>23, <1>24, <1>25 DEF MtpNext,
    Control, Stopping, Work, Requests

\* Every step keeps the stages.
LEMMA StagesStep == MtpTypeOK /\ Stages /\ [MtpNext]_mtpVars => Stages'
<1> SUFFICES ASSUME MtpTypeOK, Stages, [MtpNext]_mtpVars PROVE Stages'
  OBVIOUS
<1> USE DEF MtpTypeOK, Stages, StopPoints, InRun
<1>1. CASE MtpStart
  BY <1>1 DEF MtpStart
<1>2. CASE MtpStartFails
  BY <1>2 DEF MtpStartFails
<1>3. CASE Exit
  BY <1>3 DEF Exit
<1>4. CASE ExitDone
  BY <1>4 DEF ExitDone
<1>5. CASE MtpStop
  BY <1>5 DEF MtpStop
<1>6. CASE StopClear
  BY <1>6 DEF StopClear
<1>7. CASE StopTell
  BY <1>7 DEF StopTell
<1>8. CASE StopJoin
  BY <1>8 DEF StopJoin
<1>9. CASE OpenUsb
  BY <1>9 DEF OpenUsb
<1>10. CASE OpenUsbFails
  BY <1>10 DEF OpenUsbFails
<1>11. CASE Build
  BY <1>11 DEF Build
<1>12. CASE BuildFails
  BY <1>12 DEF BuildFails
<1>13. CASE Publish
  BY <1>13 DEF Publish
<1>14. CASE Flag
  BY <1>14 DEF Flag
<1>15. CASE Check
  BY <1>15 DEF Check
<1>16. CASE Loop
  BY <1>16 DEF Loop
<1>17. CASE Serve
  BY <1>17 DEF Serve
<1>18. CASE BeginTransfer
  BY <1>18 DEF BeginTransfer
<1>19. CASE EndTransfer
  BY <1>19 DEF EndTransfer
<1>20. CASE Leave
  BY <1>20 DEF Leave
<1>21. CASE Remove
  BY <1>21 DEF Remove
<1>22. CASE Finish
  BY <1>22 DEF Finish
<1>23. CASE ReadNothing
  BY <1>23 DEF ReadNothing
<1>24. CASE Answer
  BY <1>24 DEF Answer
<1>25. CASE UNCHANGED mtpVars
  BY <1>25 DEF mtpVars
<1>. QED
  BY <1>1, <1>2, <1>3, <1>4, <1>5, <1>6, <1>7, <1>8, <1>9, <1>10, <1>11, <1>12, <1>13,
    <1>14, <1>15, <1>16, <1>17, <1>18, <1>19, <1>20, <1>21, <1>22, <1>23, <1>24, <1>25 DEF MtpNext,
    Control, Stopping, Work, Requests

\* Every step keeps a stop from being lost.
LEMMA NoLostStopStep == MtpInv /\ [MtpNext]_mtpVars => NoLostStop'
<1> SUFFICES ASSUME MtpInv, [MtpNext]_mtpVars PROVE NoLostStop'
  OBVIOUS
<1> USE DEF MtpInv, MtpTypeOK, Stages, NoLostStop, StopPoints, InRun
<1>1. CASE MtpStart
  BY <1>1 DEF MtpStart
<1>2. CASE MtpStartFails
  BY <1>2 DEF MtpStartFails
<1>3. CASE Exit
  BY <1>3 DEF Exit
<1>4. CASE ExitDone
  BY <1>4 DEF ExitDone
<1>5. CASE MtpStop
  BY <1>5 DEF MtpStop
<1>6. CASE StopClear
  BY <1>6 DEF StopClear
<1>7. CASE StopTell
  BY <1>7 DEF StopTell
<1>8. CASE StopJoin
  BY <1>8 DEF StopJoin
<1>9. CASE OpenUsb
  BY <1>9 DEF OpenUsb
<1>10. CASE OpenUsbFails
  BY <1>10 DEF OpenUsbFails
<1>11. CASE Build
  BY <1>11 DEF Build
<1>12. CASE BuildFails
  BY <1>12 DEF BuildFails
<1>13. CASE Publish
  BY <1>13 DEF Publish
<1>14. CASE Flag
  BY <1>14 DEF Flag
<1>15. CASE Check
  BY <1>15 DEF Check
<1>16. CASE Loop
  BY <1>16 DEF Loop
<1>17. CASE Serve
  BY <1>17 DEF Serve
<1>18. CASE BeginTransfer
  BY <1>18 DEF BeginTransfer
<1>19. CASE EndTransfer
  BY <1>19 DEF EndTransfer
<1>20. CASE Leave
  BY <1>20 DEF Leave
<1>21. CASE Remove
  BY <1>21 DEF Remove
<1>22. CASE Finish
  BY <1>22 DEF Finish
<1>23. CASE ReadNothing
  BY <1>23 DEF ReadNothing
<1>24. CASE Answer
  BY <1>24 DEF Answer
<1>25. CASE UNCHANGED mtpVars
  BY <1>25 DEF mtpVars
<1>. QED
  BY <1>1, <1>2, <1>3, <1>4, <1>5, <1>6, <1>7, <1>8, <1>9, <1>10, <1>11, <1>12, <1>13,
    <1>14, <1>15, <1>16, <1>17, <1>18, <1>19, <1>20, <1>21, <1>22, <1>23, <1>24, <1>25 DEF MtpNext,
    Control, Stopping, Work, Requests

\* The invariant holds in every reachable state.
THEOREM MtpInvariance == MtpSpec => []MtpInv
<1>1. MtpInv /\ [MtpNext]_mtpVars => MtpInv'
  BY MtpTypeStep, StagesStep, NoLostStopStep DEF MtpInv
<1>. QED
  BY MtpInitial, <1>1, PTL DEF MtpSpec

-----------------------------------------------------------------------------
(* What follows for the code.                                              *)

\* Every variable of the worker's life keeps its type.
THEOREM MtpTypeCorrect == MtpSpec => []MtpTypeOK
<1>1. MtpInv => MtpTypeOK
  BY DEF MtpInv
<1>. QED
  BY <1>1, MtpInvariance, PTL

\* A worker that mtp_server_stop waits for knows that it has to stop
\* (mtp_wrapper.cpp:90-96, 136-142).
THEOREM MtpStopsAreSeen == MtpSpec => []NoLostStop
<1>1. MtpInv => NoLostStop
  BY DEF MtpInv
<1>. QED
  BY <1>1, MtpInvariance, PTL

\* mtp_server_stop calls stop() of an object that exists.
THEOREM MtpTellsLiveServer == MtpSpec => []TellsLiveServer
<1>1. MtpInv => TellsLiveServer
  BY DEF MtpInv, MtpTypeOK, Stages, TellsLiveServer
<1>. QED
  BY <1>1, MtpInvariance, PTL

\* With MTP off nothing of the last session is left.
THEOREM MtpNothingLeft == MtpSpec => []NothingLeft
<1>1. MtpInv => NothingLeft
  BY DEF MtpInv, MtpTypeOK, Stages, NothingLeft, StopPoints, InRun
<1>. QED
  BY <1>1, MtpInvariance, PTL

-----------------------------------------------------------------------------
(* The worker implements a service.                                        *)

\* The responder starts as a service does.
LEMMA ResponderInit == MtpInit => Responder!ServiceInit
BY SMTT(40) DEF MtpInit, Responder!ServiceInit

\* Every step of the worker or the UI thread is a step of a service, or none.
LEMMA ResponderStep == MtpInv /\ [MtpNext]_mtpVars => [Responder!ServiceNext]_(Responder!serviceVars)
<1> SUFFICES ASSUME MtpInv, [MtpNext]_mtpVars
             PROVE  [Responder!ServiceNext]_(Responder!serviceVars)
  OBVIOUS
<1> USE DEF MtpInv, MtpTypeOK, Stages, StopPoints, InRun, Responder!serviceVars, Responder!ServiceNext,
  Responder!Begin, Responder!Take, Responder!Drop, Responder!End, Responder!BeginStop, Responder!EndStop
<1>1. CASE MtpStart
  BY <1>1 DEF MtpStart
<1>2. CASE MtpStartFails
  BY <1>2 DEF MtpStartFails
<1>3. CASE Exit
  BY <1>3 DEF Exit
<1>4. CASE ExitDone
  BY <1>4 DEF ExitDone
<1>5. CASE MtpStop
  BY <1>5 DEF MtpStop
<1>6. CASE StopClear
  BY <1>6 DEF StopClear
<1>7. CASE StopTell
  BY <1>7 DEF StopTell
<1>8. CASE StopJoin
  BY <1>8 DEF StopJoin
<1>9. CASE OpenUsb
  BY <1>9 DEF OpenUsb
<1>10. CASE OpenUsbFails
  BY <1>10 DEF OpenUsbFails
<1>11. CASE Build
  BY <1>11 DEF Build
<1>12. CASE BuildFails
  BY <1>12 DEF BuildFails
<1>13. CASE Publish
  BY <1>13 DEF Publish
<1>14. CASE Flag
  BY <1>14 DEF Flag
<1>15. CASE Check
  BY <1>15 DEF Check
<1>16. CASE Loop
  BY <1>16 DEF Loop
<1>17. CASE Serve
  BY <1>17 DEF Serve
<1>18. CASE BeginTransfer
  BY <1>18 DEF BeginTransfer
<1>19. CASE EndTransfer
  BY <1>19 DEF EndTransfer
<1>20. CASE Leave
  BY <1>20 DEF Leave
<1>21. CASE Remove
  BY <1>21 DEF Remove
<1>22. CASE Finish
  BY <1>22 DEF Finish
<1>23. CASE ReadNothing
  BY <1>23 DEF ReadNothing
<1>24. CASE Answer
  BY <1>24 DEF Answer
<1>25. CASE UNCHANGED mtpVars
  BY <1>25 DEF mtpVars
<1>. QED
  BY <1>1, <1>2, <1>3, <1>4, <1>5, <1>6, <1>7, <1>8, <1>9, <1>10, <1>11, <1>12, <1>13,
    <1>14, <1>15, <1>16, <1>17, <1>18, <1>19, <1>20, <1>21, <1>22, <1>23, <1>24, <1>25 DEF MtpNext,
    Control, Stopping, Work, Requests

\* The MTP responder implements the service the UI thread counts on.
THEOREM MtpIsService == MtpSpec => IsService
BY ResponderInit, ResponderStep, MtpInvariance, PTL DEF MtpSpec, IsService, Responder!ServiceSpec

Watched ==
  /\ manual => open /\ user \in Picks
  /\ manual /\ heat > age => level >= Floor(temp)

FanInv == FanTypeOK /\ Watched
-----------------------------------------------------------------------------
(* The MTP worker in the application.                                      *)

\* Every step of the application is a step of the MTP worker's life, or none.
LEMMA AppStep == [AppNext]_appVars => [MtpNext]_mtpVars
BY DEF AppNext, appVars, mtpVars, Worker, Switches, LeaveProgram, FanLoop, World, MtpNext

\* The application contains the MTP worker of MtpWrapper, whatever else the UI thread does.
THEOREM AppHasWorker == AppSpec => MtpSpec
<1>1. AppInit => MtpInit
  BY DEF AppInit
<1>. QED
  BY <1>1, AppStep, PTL DEF AppSpec, MtpSpec

\* A worker the UI thread waits for in mtp_server_stop knows that it has to stop
\* (mtp_wrapper.cpp:90-96, 136-142).
THEOREM AppStopsAreSeen == AppSpec => []NoLostStop
BY AppHasWorker, MtpStopsAreSeen, PTL

\* When MTP is off, and when the program has ended, no thread, server or USB session is
\* left of it (mtp_wrapper.cpp:114-148, exit_app).
THEOREM AppNothingLeft == AppSpec => []NothingLeft
BY AppHasWorker, MtpNothingLeft, PTL

\* The responder is the service the UI thread counts on.
THEOREM AppIsService == AppSpec => IsService
BY AppHasWorker, MtpIsService, PTL

-----------------------------------------------------------------------------
(* The fan.                                                                *)

\* A level at or above the floor is what fan_apply_safe_level makes of a pick.
LEMMA SafeLevel ==
  ASSUME temp \in Temps, NEW pct \in Picks
  PROVE  Safe(pct) \in Levels /\ Safe(pct) >= Floor(temp)
<1>1. Floor(temp) \in {0, 70, 100}
  BY DEF Temps, Floor
<1>2. pct \in 30..100
  BY PicksAssumption
<1>. QED
  BY <1>1, <1>2 DEF Safe, Levels

\* The initial state satisfies the fan's invariant.
LEMMA FanInitial == FanInit => FanInv
<1> SUFFICES ASSUME FanInit PROVE FanInv
  OBVIOUS
<1>1. user \in Users /\ level \in Levels
  BY DEF FanInit, Users, Levels
<1>2. age \in 0..MaxAge /\ heat \in 0..MaxAge
  BY DEF FanInit, MaxAge, Period
<1>3. open \in BOOLEAN /\ manual \in BOOLEAN /\ temp \in Temps /\ popup \in {"none", "fan", "info"}
  BY DEF FanInit
<1>4. Watched
  BY DEF FanInit, Watched
<1>. QED
  BY <1>1, <1>2, <1>3, <1>4 DEF FanInv, FanTypeOK

\* Giving control back is always safe.
LEMMA RestoreStep ==
  ASSUME FanInv, Restore, temp' = temp, heat' = heat, user' \in Users, popup' \in {"none", "fan", "info"}
  PROVE  FanInv'
<1>1. level' \in Levels
  BY DEF Restore, FanInv, FanTypeOK, Levels
<1>2. age' \in 0..MaxAge
  BY DEF Restore, FanInv, FanTypeOK, MaxAge, Period
<1>3. ~open' /\ ~manual' /\ open' \in BOOLEAN /\ manual' \in BOOLEAN
  BY DEF Restore
<1>. QED
  BY <1>1, <1>2, <1>3 DEF FanInv, FanTypeOK, Watched

\* So is a level that has just been applied.
LEMMA ApplyStep ==
  ASSUME FanInv, NEW pct \in Picks, Apply(pct), age' = 0,
         temp' = temp, heat' = heat, popup' \in {"none", "fan", "info"}
  PROVE  FanInv'
<1>1. level' \in Levels /\ level' >= Floor(temp')
  BY SafeLevel DEF Apply, FanInv, FanTypeOK
<1>2. user' \in Picks /\ user' \in Users
  BY DEF Apply, Users
<1>3. open' /\ manual' /\ open' \in BOOLEAN /\ manual' \in BOOLEAN
  BY DEF Apply, FanInv, FanTypeOK
<1>4. age' \in 0..MaxAge
  BY DEF MaxAge, Period
<1>. QED
  BY <1>1, <1>2, <1>3, <1>4 DEF FanInv, FanTypeOK, Watched

\* Every step of the fan, the temperature or the clock keeps the invariant.
LEMMA FanStep ==
  ASSUME FanInv,
         FanUI \/ Heat \/ (\E h \in BOOLEAN : Second(h)) \/ (Restore /\ UNCHANGED <<user, temp, heat, popup>>)
                \/ UNCHANGED fanVars
  PROVE  FanInv'
<1> USE DEF FanInv, FanTypeOK, Watched
<1>1. CASE OpenPopup
  <2>1. user' \in Users /\ (manual => user' = user)
    BY <1>1 DEF OpenPopup, Users
  <2>. QED
    BY <1>1, <2>1 DEF OpenPopup
<1>2. CASE OpenPopupFails
  BY <1>2 DEF OpenPopupFails
<1>3. CASE ApplyPick
  <2>1. popup' = "none" /\ temp' = temp /\ heat' = heat
    BY <1>3 DEF ApplyPick
  <2>2. ASSUME NEW pct \in Picks, Apply(pct), age' = 0 PROVE FanInv'
    BY <2>1, <2>2, ApplyStep
  <2>3. ASSUME NEW pct \in Picks, Restore, user' = IF open THEN pct ELSE user PROVE FanInv'
    <3>1. user' \in Users
      BY <2>3 DEF Users
    <3>. QED
      BY <2>1, <2>3, <3>1, RestoreStep
  <2>. QED
    BY <1>3, <2>2, <2>3, Zenon DEF ApplyPick
<1>4. CASE AutoMode
  BY <1>4, RestoreStep DEF AutoMode
<1>5. CASE Dismiss
  <2>1. CASE manual
    BY <1>5, <2>1 DEF Dismiss
  <2>2. CASE ~manual
    BY <1>5, <2>2, RestoreStep DEF Dismiss
  <2>. QED
    BY <2>1, <2>2
<1>6. CASE ReplacePopup
  BY <1>6 DEF ReplacePopup
<1>7. CASE DismissInfo
  BY <1>7 DEF DismissInfo
<1>8. CASE Update
  <2>1. user \in Picks /\ temp' = temp /\ heat' = heat /\ popup' = popup
    BY <1>8 DEF Update
  <2>2. CASE Apply(user) /\ age' = 0
    BY <2>1, <2>2, ApplyStep
  <2>3. CASE Restore /\ UNCHANGED user
    BY <2>1, <2>3, RestoreStep
  <2>. QED
    BY <1>8, <2>2, <2>3 DEF Update
<1>9. CASE Heat
  <2>1. temp' \in Temps /\ heat' = 0
    BY <1>9 DEF Heat
  <2>2. UNCHANGED <<open, manual, user, level, age, popup>>
    BY <1>9 DEF Heat
  <2>3. heat' \in 0..MaxAge /\ ~(heat' > age')
    BY <2>1, <2>2 DEF MaxAge, Period
  <2>. QED
    BY <2>1, <2>2, <2>3
<1>10. ASSUME NEW h \in BOOLEAN, Second(h) PROVE FanInv'
  <2>1. age' \in 0..MaxAge /\ heat' \in 0..MaxAge /\ (heat' > age' => heat > age)
    BY <1>10 DEF Second, Longer, MaxAge, Period
  <2>2. UNCHANGED <<open, manual, user, level, temp, popup>>
    BY <1>10 DEF Second
  <2>. QED
    BY <2>1, <2>2
<1>11. CASE Restore /\ UNCHANGED <<user, temp, heat, popup>>
  BY <1>11, RestoreStep
<1>12. CASE UNCHANGED fanVars
  BY <1>12 DEF fanVars
<1>. QED
  BY <1>1, <1>2, <1>3, <1>4, <1>5, <1>6, <1>7, <1>8, <1>9, <1>10, <1>11, <1>12 DEF FanUI

\* The fan's invariant holds in every reachable state.
THEOREM FanInvariance == AppSpec => []FanInv
<1>1. AppInit => FanInv
  BY FanInitial DEF AppInit
<1>2. FanInv /\ [AppNext]_appVars => FanInv'
  <2> SUFFICES ASSUME FanInv, [AppNext]_appVars PROVE FanInv'
    OBVIOUS
  <2>1. CASE Worker \/ Switches
    BY <2>1, FanStep DEF Worker, Switches
  <2>2. CASE LeaveProgram
    BY <2>2, FanStep DEF LeaveProgram
  <2>3. CASE FanLoop
    BY <2>3, FanStep DEF FanLoop
  <2>4. CASE World
    <3>1. (ui # "idle") \in BOOLEAN
      OBVIOUS
    <3>. QED
      BY <2>4, <3>1, FanStep DEF World
  <2>5. CASE UNCHANGED appVars
    BY <2>5, FanStep DEF appVars
  <2>. QED
    BY <2>1, <2>2, <2>3, <2>4, <2>5 DEF AppNext
<1>. QED
  BY <1>1, <1>2, PTL DEF AppSpec

-----------------------------------------------------------------------------
(* What follows for the code.                                              *)

\* Every variable of the application keeps its type.
THEOREM AppTypeCorrect == AppSpec => []AppTypeOK
<1>1. FanInv /\ MtpTypeOK => AppTypeOK
  BY DEF FanInv, AppTypeOK
<1>. QED
  BY <1>1, FanInvariance, AppHasWorker, MtpTypeCorrect, PTL

\* A manual fan level follows a temperature that lasts (fan_safety_update,
\* fan_apply_safe_level), for any levels the user may pick.
THEOREM FanFollows == AppSpec => []FanFollowsHeat
<1>1. FanInv => FanFollowsHeat
  BY DEF FanInv, FanTypeOK, Watched, FanFollowsHeat, MaxAge, Period
<1>. QED
  BY <1>1, FanInvariance, PTL

\* exit_app gives the fan back before it waits for a thread, and nothing takes it again.
THEOREM FanIsGivenBack == AppSpec => []FanGivenBack
<1> DEFINE Given == quit => ui # "idle" /\ ~open /\ ~manual
<1>1. AppInit => Given
  BY DEF AppInit, MtpInit
<1>2. FanInv /\ Given /\ MtpInv' /\ [AppNext]_appVars => Given'
  <2> SUFFICES ASSUME FanInv, Given, MtpInv', [AppNext]_appVars PROVE Given'
    OBVIOUS
  <2>1. quit' => ui' # "idle"
    BY DEF MtpInv, Stages
  <2>2. CASE Worker \/ Switches
    <3>1. UNCHANGED <<open, manual>> /\ UNCHANGED quit
      BY <2>2 DEF Worker, Switches, fanVars, Work, Requests, Serve, BeginTransfer, EndTransfer, Answer,
        ReadNothing, OpenUsb, OpenUsbFails, Build, BuildFails, Publish, Flag, Check, Loop, Leave, Remove, Finish, Control,
        MtpStart, MtpStartFails, MtpStop, Stopping, StopClear, StopTell, StopJoin, ExitDone
    <3>. QED
      BY <2>1, <3>1
  <2>3. CASE LeaveProgram
    BY <2>1, <2>3 DEF LeaveProgram, Restore
  <2>4. CASE FanLoop
    BY <2>4 DEF FanLoop, mtpVars
  <2>5. CASE World
    BY <2>5 DEF World, Heat, Second, mtpVars
  <2>6. CASE UNCHANGED appVars
    BY <2>6 DEF appVars, mtpVars, fanVars
  <2>. QED
    BY <2>2, <2>3, <2>4, <2>5, <2>6 DEF AppNext
<1>3. Given => FanGivenBack
  BY DEF FanGivenBack
<1>4. AppSpec => []MtpInv
  BY AppHasWorker, MtpInvariance, PTL
<1>. QED
  BY <1>1, <1>2, <1>3, <1>4, FanInvariance, PTL DEF AppSpec

-----------------------------------------------------------------------------
\* A file after the blocks from place from + 1 to place to were written into data.
Written(data, from, to, version) == WriteAt(data, from, Run(from + 1, to - from, version))

\* The block of a version at a place.
Block(place, version) == <<place, version>>

Expected ==
  rx # None /\ rx.op # "download" /\ rx.goal # None =>
    /\ ~rx.late /\ ~rx.undo /\ rx.got <= rx.want
    /\ rx.end = rx.from + (rx.want - rx.got)
    /\ \E data \in Seq(Blocks), from \in Nat :
         /\ from <= rx.from
         /\ file = Written(data, from, rx.from, rx.version)
         /\ rx.goal = Written(data, from, rx.end, rx.version)

\* There is a file to write to, and an upload is not of an open one.
Present ==
  /\ edit # None => file \in Seq(Blocks)
  /\ rx # None /\ rx.op # "download" => file \in Seq(Blocks) /\ rx.version \in Versions
  /\ rx # None /\ rx.op = "upload" => edit = None
  /\ rx # None /\ rx.op = "edit" => edit # None

\* What the host was told stays right until the data phase that changes the file is over.
Told ==
  /\ known # None /\ (rx = None \/ rx.op = "download") => file = known

CardInv == TypeOK /\ Present /\ Expected /\ Told
-----------------------------------------------------------------------------
(* The worker's life.                                                      *)

\* Every step of a data phase is a step of the worker's life, or none.
LEMMA TransferStep == [Next]_vars => [MtpNext]_mtpVars
BY DEF Next, vars, mtpVars, Transfer, Reception, Edits, SendObject, SendObjectDone, Receiving,
  ReceiveBlock, ReceiveNothing, ReceiveRequest, BeginEdit, SendPartial, SendPartialDone, Truncate,
  EndEdit, Download, SendBlock, DownloadDone, CommitEdits, ReadCard, Alone, Others, MtpNext, Work,
  Requests

\* The worker that transfers files is the worker of MtpWrapper.
THEOREM TransferHasWorker == Spec => MtpSpec
<1>1. Init => MtpInit
  BY DEF Init
<1>. QED
  BY <1>1, TransferStep, PTL DEF Spec, MtpSpec

\* A stop is not lost to a worker in a data phase either.
THEOREM TransferStopsAreSeen == Spec => []NoLostStop
BY TransferHasWorker, MtpStopsAreSeen, PTL

-----------------------------------------------------------------------------
(* Blocks.                                                                 *)

\* Blocks of one version are blocks, as many as asked for, each at its place.
LEMMA RunType ==
  ASSUME NEW from \in Nat, NEW n \in Nat, NEW version \in Versions
  PROVE  /\ Run(from + 1, n, version) \in Seq(Blocks)
         /\ Len(Run(from + 1, n, version)) = n
         /\ \A i \in 1..n : Run(from + 1, n, version)[i] = Block(from + i, version)
<1> DEFINE block(i) == Block(from + i, version)
<1>1. \A i \in 1..n : from + 1 + i - 1 = from + i /\ block(i) \in Blocks
  BY DEF Blocks, Block
<1>2. Run(from + 1, n, version) = [i \in 1..n |-> block(i)]
  BY <1>1 DEF Run, Block
<1> HIDE DEF block
<1>3. /\ [i \in 1..n |-> block(i)] \in Seq(Blocks) /\ Len([i \in 1..n |-> block(i)]) = n
      /\ \A j \in 1..n : [i \in 1..n |-> block(i)][j] = block(j)
  BY <1>1
<1>. QED
  BY <1>2, <1>3 DEF block

\* A write puts its blocks at their places and leaves the others alone.
LEMMA WriteType ==
  ASSUME NEW data \in Seq(Blocks), NEW at \in Nat, NEW blocks \in Seq(Blocks), blocks # <<>>
  PROVE  /\ WriteAt(data, at, blocks) \in Seq(Blocks)
         /\ Len(WriteAt(data, at, blocks)) = Greatest(Len(data), at + Len(blocks))
         /\ \A i \in 1..Greatest(Len(data), at + Len(blocks)) :
              WriteAt(data, at, blocks)[i] = IF at < i /\ i <= at + Len(blocks) THEN blocks[i - at]
                                             ELSE IF i <= Len(data) THEN data[i] ELSE Blank
<1> DEFINE n == Greatest(Len(data), at + Len(blocks))
           block(i) == IF at < i /\ i <= at + Len(blocks) THEN blocks[i - at]
                       ELSE IF i <= Len(data) THEN data[i] ELSE Blank
<1>1. n \in Nat
  BY DEF Greatest
<1>2. \A i \in 1..n : block(i) \in Blocks
  BY DEF Blocks
<1>3. WriteAt(data, at, blocks) = [i \in 1..n |-> block(i)]
  BY DEF WriteAt
<1> HIDE DEF n, block
<1>4. /\ [i \in 1..n |-> block(i)] \in Seq(Blocks) /\ Len([i \in 1..n |-> block(i)]) = n
      /\ \A j \in 1..n : [i \in 1..n |-> block(i)][j] = block(j)
  BY <1>1, <1>2
<1>. QED
  BY <1>3, <1>4 DEF n, block

\* Writing nothing changes nothing.
LEMMA WriteNothing ==
  ASSUME NEW data \in Seq(Blocks), NEW at \in Nat
  PROVE  WriteAt(data, at, <<>>) = data
<1>1. WriteAt(data, at, <<>>) = [i \in 1..Len(data) |-> data[i]]
  BY DEF WriteAt, Greatest
<1>. QED
  BY <1>1

\* No blocks are written where the writing begins.
LEMMA WrittenNone ==
  ASSUME NEW data \in Seq(Blocks), NEW from \in Nat, NEW version \in Versions
  PROVE  Written(data, from, from, version) = data
<1>1. Run(from + 1, from - from, version) = <<>>
  BY DEF Run
<1>. QED
  BY <1>1, WriteNothing DEF Written

\* What has been written is a file with the blocks at their places.
LEMMA WrittenBlocks ==
  ASSUME NEW data \in Seq(Blocks), NEW from \in Nat, NEW to \in Nat, from < to, NEW version \in Versions
  PROVE  /\ Written(data, from, to, version) \in Seq(Blocks)
         /\ Len(Written(data, from, to, version)) = Greatest(Len(data), to)
         /\ \A i \in 1..Greatest(Len(data), to) :
              Written(data, from, to, version)[i] = IF from < i /\ i <= to THEN Block(i, version)
                                                    ELSE IF i <= Len(data) THEN data[i] ELSE Blank
<1> DEFINE run == Run(from + 1, to - from, version)
<1>1. to - from \in Nat /\ to - from > 0
  OBVIOUS
<1>2. /\ run \in Seq(Blocks) /\ Len(run) = to - from
      /\ \A i \in 1..to - from : run[i] = Block(from + i, version)
  BY <1>1, RunType
<1>3. Written(data, from, to, version) = WriteAt(data, from, run)
  BY DEF Written
<1> HIDE DEF run
<1>4. run # <<>> /\ from + Len(run) = to
  BY <1>1, <1>2
<1>5. /\ WriteAt(data, from, run) \in Seq(Blocks)
      /\ Len(WriteAt(data, from, run)) = Greatest(Len(data), to)
      /\ \A i \in 1..Greatest(Len(data), to) :
           WriteAt(data, from, run)[i] = IF from < i /\ i <= to THEN run[i - from]
                                         ELSE IF i <= Len(data) THEN data[i] ELSE Blank
  BY <1>2, <1>4, WriteType
<1>6. \A i \in Nat : from < i /\ i <= to => run[i - from] = Block(i, version)
  <2> SUFFICES ASSUME NEW i \in Nat, from < i, i <= to PROVE run[i - from] = Block(i, version)
    OBVIOUS
  <2>1. i - from \in 1..to - from /\ from + (i - from) = i
    OBVIOUS
  <2>. QED
    BY <1>2, <2>1
<1>7. \A i \in 1..Greatest(Len(data), to) : i \in Nat
  BY DEF Greatest
<1>8. ASSUME NEW i \in 1..Greatest(Len(data), to)
      PROVE  WriteAt(data, from, run)[i] = IF from < i /\ i <= to THEN Block(i, version)
                                           ELSE IF i <= Len(data) THEN data[i] ELSE Blank
  BY <1>5, <1>6, <1>7
<1>. QED
  BY <1>3, <1>5, <1>8

\* Its type, also when nothing has been written yet.
LEMMA WrittenType ==
  ASSUME NEW data \in Seq(Blocks), NEW from \in Nat, NEW to \in Nat, from <= to, NEW version \in Versions
  PROVE  Written(data, from, to, version) \in Seq(Blocks)
<1>1. CASE from = to
  BY <1>1, WrittenNone
<1>2. CASE from < to
  BY <1>2, WrittenBlocks
<1>. QED
  BY <1>1, <1>2

\* The next block behind what has been written continues it.
LEMMA WrittenNext ==
  ASSUME NEW data \in Seq(Blocks), NEW from \in Nat, NEW to \in Nat, from <= to, NEW version \in Versions
  PROVE  WriteAt(Written(data, from, to, version), to, Run(to + 1, 1, version))
           = Written(data, from, to + 1, version)
<1>1. CASE from = to
  <2>1. to + 1 - from = 1
    BY <1>1
  <2>. QED
    BY <1>1, <2>1, WrittenNone DEF Written
<1>2. CASE from < to
  <2> DEFINE old  == Written(data, from, to, version)
             both == WriteAt(old, to, Run(to + 1, 1, version))
             all  == Written(data, from, to + 1, version)
  <2>1. to + 1 \in Nat /\ from < to + 1 /\ to < to + 1 /\ to + 1 - to = 1
    OBVIOUS
  <2>2. /\ old \in Seq(Blocks) /\ Len(old) = Greatest(Len(data), to)
        /\ \A i \in 1..Greatest(Len(data), to) :
             old[i] = IF from < i /\ i <= to THEN Block(i, version)
                      ELSE IF i <= Len(data) THEN data[i] ELSE Blank
    BY <1>2, WrittenBlocks
  <2>3. /\ all \in Seq(Blocks) /\ Len(all) = Greatest(Len(data), to + 1)
        /\ \A i \in 1..Greatest(Len(data), to + 1) :
             all[i] = IF from < i /\ i <= to + 1 THEN Block(i, version)
                      ELSE IF i <= Len(data) THEN data[i] ELSE Blank
    BY <2>1, WrittenBlocks
  <2>4. both = Written(old, to, to + 1, version)
    BY <2>1 DEF Written
  <2> HIDE DEF old, both, all
  <2>5. /\ both \in Seq(Blocks) /\ Len(both) = Greatest(Len(old), to + 1)
        /\ \A i \in 1..Greatest(Len(old), to + 1) :
             both[i] = IF to < i /\ i <= to + 1 THEN Block(i, version)
                       ELSE IF i <= Len(old) THEN old[i] ELSE Blank
    <3>1. old \in Seq(Blocks)
      BY <2>2
    <3>2. /\ Written(old, to, to + 1, version) \in Seq(Blocks)
          /\ Len(Written(old, to, to + 1, version)) = Greatest(Len(old), to + 1)
          /\ \A i \in 1..Greatest(Len(old), to + 1) :
               Written(old, to, to + 1, version)[i] =
                 IF to < i /\ i <= to + 1 THEN Block(i, version) ELSE IF i <= Len(old) THEN old[i] ELSE Blank
      BY <2>1, <3>1, WrittenBlocks, ZenonT(30)
    <3>. QED
      BY <2>4, <3>2
  <2>6. Len(both) = Len(all)
    BY <2>2, <2>3, <2>5 DEF Greatest
  <2>7. ASSUME NEW i \in 1..Len(all) PROVE both[i] = all[i]
    <3>1. i \in Nat /\ i \in 1..Greatest(Len(data), to + 1) /\ i \in 1..Greatest(Len(old), to + 1)
      BY <2>3, <2>5, <2>6
    <3>2. CASE i > to
      <4>1. i > Len(old) => i = to + 1
        BY <2>2, <2>5, <3>1, <3>2 DEF Greatest
      <4>2. i <= Len(old) => i <= Len(data) /\ i \in 1..Greatest(Len(data), to)
        BY <2>2, <3>1, <3>2 DEF Greatest
      <4>3. i <= Len(data) => i <= Len(old)
        BY <2>2 DEF Greatest
      <4>4. both[i] = IF i <= to + 1 THEN Block(i, version) ELSE IF i <= Len(old) THEN old[i] ELSE Blank
        BY <2>5, <3>1, <3>2
      <4>5. all[i] = IF i <= to + 1 THEN Block(i, version) ELSE IF i <= Len(data) THEN data[i] ELSE Blank
        BY <1>2, <2>3, <3>1, <3>2
      <4>6. i <= Len(old) => old[i] = data[i]
        BY <2>2, <3>1, <3>2, <4>2
      <4>. QED
        BY <4>1, <4>2, <4>3, <4>4, <4>5, <4>6
    <3>3. CASE i <= to
      <4>1. i \in 1..Greatest(Len(data), to) /\ i <= Len(old)
        BY <2>2, <3>1, <3>3 DEF Greatest
      <4>2. both[i] = old[i]
        BY <2>5, <3>1, <3>3, <4>1
      <4>3. all[i] = old[i]
        BY <2>2, <2>3, <3>1, <3>3, <4>1
      <4>. QED
        BY <4>2, <4>3
    <3>. QED
      BY <3>1, <3>2, <3>3
  <2>. QED
    BY <2>3, <2>5, <2>6, <2>7 DEF all, both, old
<1>. QED
  BY <1>1, <1>2

\* A new file is one that was written into an empty one.
LEMMA RunWritten ==
  ASSUME NEW n \in Nat, NEW version \in Versions
  PROVE  Run(1, n, version) = Written(<<>>, 0, n, version) /\ Run(1, n, version) \in Seq(Blocks)
<1>1. CASE n = 0
  <2>1. Run(1, n, version) = <<>> /\ <<>> \in Seq(Blocks)
    BY <1>1 DEF Run
  <2>. QED
    BY <1>1, <2>1, WrittenNone
<1>2. CASE n > 0
  <2> DEFINE run == Run(1, n, version)
             empty == <<>>
             all == Written(empty, 0, n, version)
  <2>1. run \in Seq(Blocks) /\ Len(run) = n /\ \A i \in 1..n : run[i] = Block(i, version)
    <3>1. 0 + 1 = 1 /\ \A i \in 1..n : 0 + i = i
      OBVIOUS
    <3>. QED
      BY <3>1, RunType
  <2>2. empty \in Seq(Blocks) /\ Len(empty) = 0 /\ 0 \in Nat /\ 0 < n
    BY <1>2
  <2> HIDE DEF empty
  <2>3. /\ all \in Seq(Blocks) /\ Len(all) = Greatest(Len(empty), n)
        /\ \A i \in 1..Greatest(Len(empty), n) : all[i] = IF 0 < i /\ i <= n THEN Block(i, version)
                                                 ELSE IF i <= Len(empty) THEN empty[i] ELSE Blank
    BY <2>2, WrittenBlocks, ZenonT(30)
  <2>4. Greatest(Len(empty), n) = n
    BY <2>2 DEF Greatest
  <2> HIDE DEF run, all
  <2>5. \A i \in 1..n : run[i] = all[i]
    BY <2>1, <2>3, <2>4
  <2>6. run = all
    BY <2>1, <2>3, <2>4, <2>5
  <2>. QED
    BY <2>1, <2>6 DEF run, all, empty
<1>. QED
  BY <1>1, <1>2

-----------------------------------------------------------------------------
(* The card and the host.                                                  *)

\* A file is data, and so is no file.
LEMMA FileIsData == Seq(Blocks) \subseteq Data /\ None \in Data
BY DEF Data

\* A new data phase is one, and has the fields it was given.
LEMMA PhaseType ==
  ASSUME NEW op \in {"upload", "edit", "download"}, NEW from \in Nat, NEW want \in Nat,
         NEW version \in Versions \cup {None}, NEW undo \in BOOLEAN, NEW goal \in Data,
         NEW r, r = Phase(op, from, want, version, undo, goal)
  PROVE  /\ r \in Phases /\ r # None
         /\ r.op = op /\ r.from = from /\ r.got = 0 /\ r.want = want /\ r.end = from + want
         /\ r.version = version /\ r.late = FALSE /\ r.undo = undo /\ r.goal = goal
<1>1. r \in Phases
  BY DEF Phase, Phases
<1>. QED
  BY <1>1, NoneAssumption DEF Phase

\* What is known of a data phase.
LEMMA PhaseFields ==
  ASSUME NEW r \in Phases
  PROVE  /\ r.op \in {"upload", "edit", "download"} /\ r.from \in Nat /\ r.got \in Nat /\ r.want \in Nat
         /\ r.end \in Nat /\ r.version \in Versions \cup {None} /\ r.late \in BOOLEAN
         /\ r.undo \in BOOLEAN /\ r.goal \in Data
BY DEF Phases

\* A data phase that moves on is one too.
LEMMA PhaseMoves ==
  ASSUME NEW r \in Phases, NEW got \in Nat, NEW from \in Nat, NEW late \in BOOLEAN, NEW goal \in Data,
         NEW q, q = [r EXCEPT !.got = got, !.from = from, !.late = late, !.goal = goal]
  PROVE  /\ q \in Phases /\ q # None
         /\ q.op = r.op /\ q.from = from /\ q.got = got /\ q.want = r.want /\ q.end = r.end
         /\ q.version = r.version /\ q.late = late /\ q.undo = r.undo /\ q.goal = goal
<1>1. q \in Phases
  BY DEF Phases
<1>. QED
  BY <1>1, NoneAssumption DEF Phases

\* A data phase that ends well has brought what the host meant.
LEMMA DoneRight ==
  ASSUME CardInv, rx # None, rx.op # "download", rx.goal # None, Counted
  PROVE  file = rx.goal /\ ~rx.undo
<1>1. rx \in Phases
  BY DEF CardInv, TypeOK, TransferTypeOK
<1>2. rx.got = rx.want /\ rx.from = rx.end
  BY <1>1, PhaseFields DEF CardInv, Expected, Counted
<1>. QED
  BY <1>2 DEF CardInv, Expected

\* The initial state satisfies the invariant.
LEMMA CardInitial == Init => CardInv
<1> SUFFICES ASSUME Init PROVE CardInv
  OBVIOUS
<1>1. MtpTypeOK /\ pc # "transfer"
  BY MtpInitial DEF Init, MtpInv, MtpInit
<1>2. file = None /\ size = 0 /\ edit = None /\ rx = None /\ known = None
  BY DEF Init, TransferInit
<1>. QED
  BY <1>1, <1>2, FileIsData DEF CardInv, TypeOK, TransferTypeOK, Present, Expected, Told

CardRest == TransferTypeOK /\ Present /\ Expected /\ Told

\* The beginning of an upload keeps the invariant.
LEMMA SendObjectStep == ASSUME CardInv, SendObject PROVE CardRest'
<1>1. PICK n \in 1..MaxSize, initial \in 0..1, version \in Versions, written \in BOOLEAN :
        /\ file' = IF written THEN Run(1, initial, version) ELSE <<>>
        /\ rx' = Phase("upload", initial, n - initial, version, initial = 1 /\ ~written,
                       IF initial = 1 /\ ~written THEN None ELSE Run(1, n, version))
  BY DEF SendObject
<1>2. edit' = None /\ known' = None /\ size' = size /\ pc' = "transfer"
  BY DEF SendObject, BeginTransfer
<1> DEFINE undo == initial = 1 /\ ~written
           goal == IF undo THEN None ELSE Run(1, n, version)
<1>3. n \in Nat /\ initial \in Nat /\ n - initial \in Nat /\ initial <= n /\ undo \in BOOLEAN
  BY SizeAssumption
<1>4. goal \in Data
  BY <1>3, RunWritten, FileIsData
<1>5. rx' = Phase("upload", initial, n - initial, version, undo, goal)
  BY <1>1
<1>6. file' \in Seq(Blocks) /\ (~undo => file' = Written(<<>>, 0, initial, version))
  <2>1. CASE written
    BY <1>1, <1>3, <2>1, RunWritten
  <2>2. CASE ~written
    <3>1. file' = <<>> /\ <<>> \in Seq(Blocks)
      BY <1>1, <2>2
    <3>2. ~undo => initial = 0
      BY <2>2
    <3>. QED
      BY <3>1, <3>2, WrittenNone
  <2>. QED
    BY <2>1, <2>2
<1>7. ~undo => goal = Written(<<>>, 0, n, version)
  BY <1>3, RunWritten
<1> HIDE DEF undo, goal
<1>8. /\ rx' \in Phases /\ rx' # None /\ rx'.op = "upload" /\ rx'.from = initial /\ rx'.got = 0
      /\ rx'.want = n - initial /\ rx'.end = initial + (n - initial) /\ rx'.version = version
      /\ rx'.late = FALSE /\ rx'.undo = undo /\ rx'.goal = goal
  <2>1. "upload" \in {"upload", "edit", "download"} /\ version \in Versions \cup {None}
    OBVIOUS
  <2>2. initial + (n - initial) \in Nat
    BY <1>3
  <2>3. rx' = [op |-> "upload", from |-> initial, got |-> 0, want |-> n - initial,
               end |-> initial + (n - initial), version |-> version, late |-> FALSE,
               undo |-> undo, goal |-> goal]
    BY <1>5 DEF Phase
  <2>4. rx' \in Phases
    BY <1>3, <1>4, <2>1, <2>2, <2>3 DEF Phases
  <2>. QED
    BY <2>3, <2>4, NoneAssumption
<1>9. TransferTypeOK'
  BY <1>2, <1>6, <1>8, FileIsData DEF CardInv, TypeOK, TransferTypeOK
<1>10. Present' /\ Told'
  BY <1>2, <1>6, <1>8 DEF Present, Told
<1>11. Expected'
  <2> SUFFICES ASSUME goal # None PROVE Expected'
    BY <1>8 DEF Expected
  <2>1. ~undo
    BY DEF undo, goal
  <2> DEFINE empty == <<>>
  <2>2. empty \in Seq(Blocks) /\ file' = Written(empty, 0, rx'.from, rx'.version)
    BY <1>6, <1>8, <2>1
  <2>3. rx'.end = n
    BY <1>3, <1>8
  <2>4. rx'.goal = Written(empty, 0, rx'.end, rx'.version)
    BY <1>7, <1>8, <2>1, <2>3
  <2> HIDE DEF empty
  <2>5. 0 \in Nat /\ 0 <= rx'.from /\ rx'.got <= rx'.want /\ rx'.end = rx'.from + (rx'.want - rx'.got)
    BY <1>3, <1>8
  <2>. QED
    BY <1>8, <2>1, <2>2, <2>4, <2>5 DEF Expected
<1>. QED
  BY <1>9, <1>10, <1>11 DEF CardRest

\* The end of an upload keeps it.
LEMMA SendObjectDoneStep == ASSUME CardInv, SendObjectDone PROVE CardRest'
<1>1. /\ rx # None /\ rx \in Phases /\ rx.op = "upload" /\ Counted /\ edit = None
      /\ file \in Seq(Blocks)
  BY DEF SendObjectDone, EndTransfer, CardInv, TypeOK, TransferTypeOK, Present
<1>2. /\ file' = (IF rx.undo THEN None ELSE file) /\ size' = (IF rx.undo THEN size ELSE Len(file))
      /\ known' = rx.goal /\ rx' = None /\ edit' = edit /\ pc' # "transfer"
  BY DEF SendObjectDone, EndTransfer
<1>3. TransferTypeOK'
  <2>1. Len(file) \in Nat /\ size \in Nat
    BY <1>1 DEF CardInv, TypeOK, TransferTypeOK
  <2>2. file' \in Data /\ known' \in Data /\ size' \in Nat
    BY <1>1, <1>2, <2>1, FileIsData, PhaseFields
  <2>. QED
    BY <1>1, <1>2, <2>2 DEF TransferTypeOK
<1>4. Told'
  BY <1>1, <1>2, DoneRight DEF Told
<1>. QED
  BY <1>1, <1>2, <1>3, <1>4 DEF CardRest, Present, Expected

\* A block that arrives continues what is expected, or nothing is expected any more.
LEMMA ReceiveBlockStep == ASSUME CardInv, ReceiveBlock PROVE CardRest'
<1>1. PICK written \in BOOLEAN :
        /\ file' = IF written THEN WriteAt(file, rx.from, Run(rx.from + 1, 1, rx.version)) ELSE file
        /\ rx' = [rx EXCEPT !.got = @ + 1, !.from = IF written THEN @ + 1 ELSE @,
                            !.goal = IF written THEN @ ELSE None]
  BY DEF ReceiveBlock
<1>2. /\ pc = "transfer" /\ rx.op \in {"upload", "edit"} /\ rx.got < rx.want
      /\ pc' = pc /\ size' = size /\ edit' = edit /\ known' = known
  BY DEF ReceiveBlock, Receiving, mtpVars
<1>3. rx \in Phases /\ rx # None /\ rx.op # "download" /\ file \in Seq(Blocks) /\ rx.version \in Versions
  BY <1>2 DEF CardInv, TypeOK, TransferTypeOK, Present
<1>4. rx.from \in Nat /\ rx.got \in Nat /\ rx.want \in Nat /\ rx.end \in Nat /\ rx.goal \in Data /\ rx.late \in BOOLEAN
  BY <1>3, PhaseFields
<1> DEFINE from == IF written THEN rx.from + 1 ELSE rx.from
           goal == IF written THEN rx.goal ELSE None
<1>5. from \in Nat /\ goal \in Data /\ rx.got + 1 \in Nat
  BY <1>4, FileIsData
<1>6. rx' = [rx EXCEPT !.got = rx.got + 1, !.from = from, !.late = rx.late, !.goal = goal]
  BY <1>1, <1>3 DEF Phases
<1> HIDE DEF from, goal
<1>7. /\ rx' \in Phases /\ rx' # None /\ rx'.op = rx.op /\ rx'.from = from /\ rx'.got = rx.got + 1
      /\ rx'.want = rx.want /\ rx'.end = rx.end /\ rx'.version = rx.version /\ rx'.late = rx.late
      /\ rx'.undo = rx.undo /\ rx'.goal = goal
  BY ZenonT(40), <1>3, <1>4, <1>5, <1>6, NoneAssumption DEF Phases
<1>8. file' \in Seq(Blocks)
  <2>1. Run(rx.from + 1, 1, rx.version) \in Seq(Blocks) /\ Len(Run(rx.from + 1, 1, rx.version)) = 1
    <3>1. 1 \in Nat /\ rx.from \in Nat /\ rx.version \in Versions
      BY <1>3, <1>4
    <3>. QED
      BY <3>1, RunType, ZenonT(30)
  <2>2. Run(rx.from + 1, 1, rx.version) # <<>>
    BY <2>1
  <2>. QED
    BY <1>1, <1>3, <1>4, <2>1, <2>2, WriteType
<1>9. TransferTypeOK'
  BY <1>2, <1>7, <1>8, FileIsData DEF CardInv, TypeOK, TransferTypeOK
<1>10. Present' /\ Told'
  BY <1>2, <1>3, <1>7, <1>8 DEF CardInv, Present, Told
<1>11. Expected'
  <2> SUFFICES ASSUME goal # None PROVE Expected'
    BY <1>7 DEF Expected
  <2>1. written /\ from = rx.from + 1 /\ goal = rx.goal
    BY DEF from, goal
  <2>2. ~rx.late /\ ~rx.undo /\ rx.end = rx.from + (rx.want - rx.got)
    BY <1>3, <2>1 DEF CardInv, Expected
  <2>3. PICK data \in Seq(Blocks), begin \in Nat :
          /\ begin <= rx.from
          /\ file = Written(data, begin, rx.from, rx.version)
          /\ rx.goal = Written(data, begin, rx.end, rx.version)
    BY <1>3, <2>1 DEF CardInv, Expected
  <2>4. file' = Written(data, begin, rx.from + 1, rx.version)
    <3>1. file' = WriteAt(file, rx.from, Run(rx.from + 1, 1, rx.version))
      BY <1>1, <2>1
    <3>2. WriteAt(Written(data, begin, rx.from, rx.version), rx.from, Run(rx.from + 1, 1, rx.version))
            = Written(data, begin, rx.from + 1, rx.version)
      BY <1>3, <1>4, <2>3, WrittenNext, ZenonT(30)
    <3>. QED
      BY <2>3, <3>1, <3>2
  <2>5. begin <= from /\ rx.got + 1 <= rx.want /\ rx.end = from + (rx.want - (rx.got + 1))
    <3>1. begin <= from
      BY <1>4, <2>1, <2>3
    <3>2. rx.got + 1 <= rx.want
      BY <1>2, <1>4
    <3>3. rx.end = from + (rx.want - (rx.got + 1))
      BY <1>4, <2>1, <2>2
    <3>. QED
      BY <3>1, <3>2, <3>3
  <2>. QED
    BY <1>7, <2>1, <2>2, <2>3, <2>4, <2>5 DEF Expected
<1>. QED
  BY <1>9, <1>10, <1>11 DEF CardRest

\* After a pause nothing is expected any more.
LEMMA ReceiveNothingStep == ASSUME CardInv, ReceiveNothing PROVE CardRest'
<1>1. rx' = [rx EXCEPT !.late = TRUE, !.goal = None] /\ file' = file
  BY DEF ReceiveNothing
<1>2. /\ pc = "transfer" /\ rx.op \in {"upload", "edit"}
      /\ pc' = pc /\ size' = size /\ edit' = edit /\ known' = known
  BY DEF ReceiveNothing, Receiving, mtpVars
<1>3. rx \in Phases /\ rx # None /\ rx.op # "download" /\ file \in Seq(Blocks) /\ rx.version \in Versions
  BY <1>2 DEF CardInv, TypeOK, TransferTypeOK, Present
<1>4. rx' = [rx EXCEPT !.got = rx.got, !.from = rx.from, !.late = TRUE, !.goal = None]
  BY <1>1, <1>3 DEF Phases
<1>5. rx' \in Phases /\ rx' # None /\ rx'.op = rx.op /\ rx'.version = rx.version /\ rx'.goal = None
  <2>1. rx.got \in Nat /\ rx.from \in Nat /\ TRUE \in BOOLEAN /\ None \in Data
    BY <1>3, PhaseFields, FileIsData
  <2>. QED
    BY <1>3, <1>4, <2>1, NoneAssumption DEF Phases
<1>. QED
  BY <1>1, <1>2, <1>3, <1>5 DEF CardRest, CardInv, TypeOK, TransferTypeOK, Present, Told, Expected

\* A request swallowed as data is in the file, but the pause before it was noticed.
LEMMA ReceiveRequestStep == ASSUME CardInv, ReceiveRequest PROVE CardRest'
<1>1. file' = WriteAt(file, rx.from, <<Blank>>) /\ rx' = [rx EXCEPT !.got = @ + 1, !.from = @ + 1]
  BY DEF ReceiveRequest
<1>2. /\ pc = "transfer" /\ rx.op \in {"upload", "edit"} /\ rx.late
      /\ pc' = pc /\ size' = size /\ edit' = edit /\ known' = known
  BY DEF ReceiveRequest, Receiving, mtpVars
<1>3. rx \in Phases /\ rx # None /\ rx.op # "download" /\ file \in Seq(Blocks) /\ rx.version \in Versions
  BY <1>2 DEF CardInv, TypeOK, TransferTypeOK, Present
<1>4. /\ rx.got + 1 \in Nat /\ rx.from + 1 \in Nat /\ rx.from \in Nat /\ rx.late \in BOOLEAN
      /\ rx.goal \in Data
  BY <1>3, PhaseFields
<1>5. rx' = [rx EXCEPT !.got = rx.got + 1, !.from = rx.from + 1, !.late = rx.late, !.goal = rx.goal]
  BY <1>1, <1>3 DEF Phases
<1>6. /\ rx' \in Phases /\ rx' # None /\ rx'.op = rx.op /\ rx'.version = rx.version /\ rx'.goal = rx.goal
      /\ rx'.late = rx.late
  BY <1>3, <1>4, <1>5, NoneAssumption DEF Phases
<1>7. file' \in Seq(Blocks)
  <2>1. <<Blank>> \in Seq(Blocks) /\ <<Blank>> # <<>>
    BY DEF Blocks
  <2>. QED
    BY <1>1, <1>3, <1>4, <2>1, WriteType
<1>8. rx.goal = None
  BY <1>2, <1>3 DEF CardInv, Expected
<1>9. TransferTypeOK'
  BY <1>2, <1>6, <1>7, FileIsData DEF CardInv, TypeOK, TransferTypeOK
<1>. QED
  BY <1>2, <1>3, <1>6, <1>7, <1>8, <1>9 DEF CardRest, CardInv, Present, Told, Expected

\* Opening the file for writing in place keeps the invariant.
LEMMA BeginEditStep == ASSUME CardInv, BeginEdit PROVE CardRest'
<1>1. pc' = "answer" /\ pc = "wait" /\ file # None /\ edit' = [pos |-> 0, size |-> size]
  BY DEF BeginEdit, Serve
<1>2. UNCHANGED <<file, size, rx, known>>
  BY DEF BeginEdit
<1>3. file \in Seq(Blocks) /\ size \in Nat
  BY <1>1 DEF CardInv, TypeOK, TransferTypeOK, Data
<1>4. edit' \in [pos : Nat, size : Nat] /\ rx = None
  BY <1>1, <1>3 DEF CardInv, TypeOK, TransferTypeOK
<1>. QED
  BY <1>1, <1>2, <1>3, <1>4 DEF CardRest, CardInv, TypeOK, TransferTypeOK, Present, Told, Expected

\* The beginning of a partial write keeps it: what is expected is what the host was told
\* with its new blocks in place, if the descriptor stands where the first of them goes.
LEMMA SendPartialStep == ASSUME CardInv, SendPartial PROVE CardRest'
<1>1. /\ edit # None /\ edit \in [pos : Nat, size : Nat] /\ file \in Seq(Blocks) /\ rx = None
      /\ edit.pos \in Nat /\ edit.size \in Nat
  BY DEF SendPartial, BeginTransfer, CardInv, TypeOK, TransferTypeOK, Present
<1>2. pc' = "transfer" /\ size' = size /\ known' = known
  BY DEF SendPartial, BeginTransfer
<1>3. PICK offset \in 0..Least(edit.size, MaxSize - 1), initial \in 0..1, version \in Versions, written \in BOOLEAN :
      \E n \in 1..MaxSize - offset :
        LET put == IF written THEN Run(offset + 1, initial, version) ELSE <<>>
            sure == known # None /\ (initial = 1 => written /\ edit.pos = offset)
        IN  /\ file' = WriteAt(file, edit.pos, put)
            /\ edit' = [edit EXCEPT !.pos = @ + Len(put)]
            /\ rx' = Phase("edit", offset + initial, n - initial, version, initial = 1 /\ ~written /\ n = 1,
                           IF sure THEN WriteAt(known, offset, Run(offset + 1, n, version)) ELSE None)
  BY DEF SendPartial
<1> DEFINE put == IF written THEN Run(offset + 1, initial, version) ELSE <<>>
           sure == known # None /\ (initial = 1 => written /\ edit.pos = offset)
<1>4. PICK n \in 1..MaxSize - offset :
        /\ file' = WriteAt(file, edit.pos, put)
        /\ edit' = [edit EXCEPT !.pos = @ + Len(put)]
        /\ rx' = Phase("edit", offset + initial, n - initial, version, initial = 1 /\ ~written /\ n = 1,
                       IF sure THEN WriteAt(known, offset, Run(offset + 1, n, version)) ELSE None)
  BY <1>3
<1> DEFINE undo == initial = 1 /\ ~written /\ n = 1
           goal == IF sure THEN WriteAt(known, offset, Run(offset + 1, n, version)) ELSE None
<1>5. /\ n \in Nat /\ n > 0 /\ initial \in Nat /\ n - initial \in Nat /\ offset \in Nat /\ offset + initial \in Nat
      /\ undo \in BOOLEAN /\ (initial = 0 \/ initial = 1) /\ offset + initial + (n - initial) = offset + n
      /\ offset + n \in Nat /\ offset < offset + n
  BY SizeAssumption, <1>1 DEF Least
<1>6. put \in Seq(Blocks) /\ Len(put) \in Nat
  BY <1>5, RunType
<1>7. file' \in Seq(Blocks)
  <2>1. CASE put = <<>>
    BY <1>1, <1>4, <2>1, WriteNothing
  <2>2. CASE put # <<>>
    BY <1>1, <1>4, <1>6, <2>2, WriteType
  <2>. QED
    BY <2>1, <2>2
<1>8. sure => file = known
  BY <1>1 DEF CardInv, Told
<1>9. sure => file' = Written(file, offset, offset + initial, version)
  <2>1. CASE initial = 0
    <3>1. put = <<>> /\ offset + initial = offset
      BY <1>5, <2>1 DEF Run
    <3>2. file' = WriteAt(file, edit.pos, <<>>)
      BY <1>4, <3>1
    <3>3. file' = file
      BY <1>1, <3>2, WriteNothing
    <3>4. Written(file, offset, offset, version) = file
      BY <1>1, <1>5, WrittenNone
    <3>. QED
      BY <3>1, <3>3, <3>4
  <2>2. CASE initial = 1
    <3>1. offset + initial - offset = initial
      BY <1>5
    <3>. QED
      BY <1>4, <2>2, <3>1 DEF Written
  <2>. QED
    BY <1>5, <2>1, <2>2
<1>10. sure => goal = Written(file, offset, offset + n, version)
  <2>1. offset + n - offset = n
    BY <1>5
  <2>. QED
    BY <1>8, <2>1 DEF Written
<1>11. goal \in Data
  <2>1. sure => Written(file, offset, offset + n, version) \in Seq(Blocks)
    BY <1>1, <1>5, WrittenBlocks
  <2>. QED
    BY <1>10, <2>1, FileIsData
<1>12. sure => ~undo
  OBVIOUS
<1>13. rx' = [op |-> "edit", from |-> offset + initial, got |-> 0, want |-> n - initial,
              end |-> offset + initial + (n - initial), version |-> version, late |-> FALSE,
              undo |-> undo, goal |-> goal]
  BY <1>4 DEF Phase
<1>14. edit' \in [pos : Nat, size : Nat]
  BY <1>1, <1>4, <1>6
<1>15. goal # None => sure
  OBVIOUS
<1> HIDE DEF put, sure, undo, goal
<1>16. rx' \in Phases
  <2>1. version \in Versions \cup {None} /\ offset + initial + (n - initial) \in Nat
    BY <1>5
  <2>. QED
    BY <1>5, <1>11, <1>13, <2>1 DEF Phases
<1>17. /\ rx' # None /\ rx'.op = "edit" /\ rx'.from = offset + initial /\ rx'.got = 0
       /\ rx'.want = n - initial /\ rx'.end = offset + n /\ rx'.version = version /\ rx'.late = FALSE
       /\ rx'.undo = undo /\ rx'.goal = goal
  BY <1>5, <1>13, <1>16, NoneAssumption
<1>18. edit' # None
  BY <1>14, NoneAssumption
<1>19. TransferTypeOK'
  BY <1>2, <1>7, <1>14, <1>16, <1>17, FileIsData DEF CardInv, TypeOK, TransferTypeOK
<1>20. Present' /\ Told'
  BY <1>7, <1>17, <1>18 DEF Present, Told
<1>21. Expected'
  <2> SUFFICES ASSUME sure PROVE Expected'
    BY <1>15, <1>17 DEF Expected
  <2>1. file' = Written(file, offset, rx'.from, rx'.version) /\ rx'.goal = Written(file, offset, rx'.end, rx'.version)
    BY <1>9, <1>10, <1>17
  <2>2. offset <= rx'.from /\ rx'.got <= rx'.want /\ rx'.end = rx'.from + (rx'.want - rx'.got)
    BY <1>5, <1>17
  <2>. QED
    BY <1>1, <1>5, <1>12, <1>17, <2>1, <2>2 DEF Expected
<1>. QED
  BY <1>19, <1>20, <1>21 DEF CardRest

\* The end of a partial write keeps it.
LEMMA SendPartialDoneStep == ASSUME CardInv, SendPartialDone PROVE CardRest'
<1>1. /\ rx # None /\ rx \in Phases /\ rx.op = "edit" /\ Counted
      /\ file \in Seq(Blocks) /\ edit # None /\ edit \in [pos : Nat, size : Nat]
  BY DEF SendPartialDone, EndTransfer, CardInv, TypeOK, TransferTypeOK, Present
<1>2. /\ edit' = [pos  |-> IF rx.want = 0 THEN edit.pos ELSE rx.from,
                  size |-> IF rx.undo THEN edit.size ELSE Greatest(edit.size, rx.end)]
      /\ known' = rx.goal /\ rx' = None /\ file' = file /\ size' = size /\ pc' # "transfer"
  BY DEF SendPartialDone, EndTransfer
<1>3. edit' \in [pos : Nat, size : Nat] /\ rx.goal \in Data
  <2>1. edit.pos \in Nat /\ edit.size \in Nat /\ rx.from \in Nat /\ rx.end \in Nat /\ rx.goal \in Data
    BY <1>1, PhaseFields
  <2>2. Greatest(edit.size, rx.end) \in Nat
    BY <2>1 DEF Greatest
  <2>. QED
    BY <1>2, <2>1, <2>2
<1>4. TransferTypeOK'
  BY <1>2, <1>3 DEF CardInv, TypeOK, TransferTypeOK
<1>5. Told'
  BY <1>1, <1>2, DoneRight DEF Told
<1>. QED
  BY <1>1, <1>2, <1>4, <1>5 DEF CardRest, Present, Expected

\* Truncation does to the file what the host is told.
LEMMA TruncateStep == ASSUME CardInv, Truncate PROVE CardRest'
<1>1. /\ pc' = "answer" /\ rx = None /\ rx' = rx /\ size' = size /\ edit # None
      /\ edit \in [pos : Nat, size : Nat] /\ file \in Seq(Blocks)
  BY DEF Truncate, Serve, CardInv, TypeOK, TransferTypeOK, Present
<1>2. PICK n \in 0..MaxSize :
        /\ file' = Cut(file, n)
        /\ edit' = [edit EXCEPT !.size = n]
        /\ known' = IF known = None THEN None ELSE Cut(known, n)
  BY DEF Truncate
<1>3. n \in Nat
  BY SizeAssumption
<1>4. Cut(file, n) \in Seq(Blocks)
  <2> DEFINE block(i) == IF i <= Len(file) THEN file[i] ELSE Blank
  <2>1. \A i \in 1..n : block(i) \in Blocks
    BY <1>1, <1>3 DEF Blocks
  <2>2. Cut(file, n) = [i \in 1..n |-> block(i)]
    BY DEF Cut
  <2> HIDE DEF block
  <2>. QED
    BY <1>3, <2>1, <2>2
<1>5. edit' \in [pos : Nat, size : Nat]
  BY <1>1, <1>2, <1>3
<1>6. known # None => known = file
  BY <1>1 DEF CardInv, Told
<1>7. TransferTypeOK'
  BY <1>1, <1>2, <1>4, <1>5, <1>6, FileIsData DEF CardInv, TypeOK, TransferTypeOK
<1>. QED
  BY <1>1, <1>2, <1>4, <1>6, <1>7 DEF CardRest, Present, Told, Expected

\* So does closing the file, with or without the size on the card.
LEMMA CommitStep ==
  ASSUME CardInv, Commit, UNCHANGED <<file, rx, known>>, pc # "transfer", pc' # "transfer",
         edit = None \/ file \in Seq(Blocks)
  PROVE  CardRest'
<1>1. edit' = None /\ size' \in Nat
  BY DEF Commit, CardInv, TypeOK, TransferTypeOK
<1>. QED
  BY <1>1 DEF CardRest, CardInv, TypeOK, TransferTypeOK, Present, Told, Expected

\* A download changes nothing.
LEMMA DownloadStep == ASSUME CardInv, Download PROVE CardRest'
<1>1. /\ pc' = "transfer" /\ rx = None /\ UNCHANGED <<file, size, edit, known>>
      /\ rx' = Phase("download", 0, size, None, FALSE, None)
  BY DEF Download, BeginTransfer, CardInv, TypeOK, TransferTypeOK
<1>2. size \in Nat
  BY DEF CardInv, TypeOK, TransferTypeOK
<1>3. rx' = [op |-> "download", from |-> 0, got |-> 0, want |-> size, end |-> 0 + size, version |-> None,
             late |-> FALSE, undo |-> FALSE, goal |-> None]
  BY <1>1 DEF Phase
<1>4. rx' \in Phases /\ rx'.op = "download"
  BY <1>2, <1>3, FileIsData DEF Phases
<1>5. rx' # None
  BY <1>4, NoneAssumption
<1>. QED
  BY <1>1, <1>4, <1>5 DEF CardRest, CardInv, TypeOK, TransferTypeOK, Present, Told, Expected

\* Nor does a block of it.
LEMMA SendBlockStep == ASSUME CardInv, SendBlock PROVE CardRest'
<1>1. /\ pc = "transfer" /\ pc' = pc /\ rx.op = "download" /\ UNCHANGED <<file, size, edit, known>>
      /\ rx' = [rx EXCEPT !.got = @ + 1]
  BY DEF SendBlock, Receiving, mtpVars
<1>2. rx \in Phases /\ rx # None
  BY <1>1 DEF CardInv, TypeOK, TransferTypeOK
<1>3. rx' \in Phases /\ rx'.op = "download"
  BY <1>1, <1>2 DEF Phases
<1>4. rx' # None
  BY <1>3, NoneAssumption
<1>. QED
  BY <1>1, <1>2, <1>3, <1>4 DEF CardRest, CardInv, TypeOK, TransferTypeOK, Present, Told, Expected

\* Nor does its end.
LEMMA DownloadDoneStep == ASSUME CardInv, DownloadDone PROVE CardRest'
<1>1. /\ pc = "transfer" /\ pc' # "transfer" /\ rx # None /\ rx.op = "download" /\ rx' = None
      /\ UNCHANGED <<file, size, edit, known>>
  BY DEF DownloadDone, EndTransfer, CardInv, TypeOK, TransferTypeOK
<1>. QED
  BY <1>1 DEF CardRest, CardInv, TypeOK, TransferTypeOK, Present, Told, Expected

\* The invariant holds in every reachable state.
THEOREM CardInvariance == Spec => []CardInv
<1>1. CardInv /\ MtpInv /\ [Next]_vars => CardInv'
  <2> SUFFICES ASSUME CardInv, MtpInv, [Next]_vars PROVE CardInv'
    OBVIOUS
  <2>1. MtpTypeOK'
    BY TransferStep, MtpTypeStep DEF CardInv, TypeOK
  <2>2. CardRest => Expected /\ Present /\ Told /\ TransferTypeOK
    BY DEF CardRest
  <2>3. CASE Transfer
    <3>1. CASE EndEdit
      <4>1. /\ pc # "transfer" /\ pc' # "transfer" /\ Commit /\ UNCHANGED <<file, rx, known>>
            /\ file \in Seq(Blocks)
        BY <3>1 DEF EndEdit, Serve, CardInv, Present
      <4>2. CardRest'
        BY <4>1, CommitStep
      <4>. QED
        BY <2>1, <4>2 DEF CardInv, TypeOK, CardRest
    <3>2. CASE ~EndEdit
      <4>1. CardRest'
        BY <2>3, <3>2, SendObjectStep, SendObjectDoneStep, ReceiveBlockStep, ReceiveNothingStep,
          ReceiveRequestStep, BeginEditStep, SendPartialStep, SendPartialDoneStep, TruncateStep,
          DownloadStep, SendBlockStep, DownloadDoneStep DEF Transfer, Reception, Edits
      <4>. QED
        BY <2>1, <4>1 DEF CardInv, TypeOK, CardRest
    <3>. QED
      BY <3>1, <3>2
  <2>4. CASE CommitEdits
    <3>1. /\ pc # "transfer" /\ pc' # "transfer" /\ Commit /\ UNCHANGED <<file, rx, known>>
          /\ edit = None \/ file \in Seq(Blocks)
      BY <2>4 DEF CommitEdits, Leave, CardInv, Present
    <3>2. CardRest'
      BY <3>1, CommitStep
    <3>. QED
      BY <2>1, <3>2 DEF CardInv, TypeOK, CardRest
  <2>5. CASE ReadCard
    <3>1. /\ pc # "transfer" /\ pc' # "transfer" /\ UNCHANGED <<file, edit, rx, known>>
          /\ size' = IF file = None THEN 0 ELSE Len(file)
      BY <2>5 DEF ReadCard, Build
    <3>2. file # None => Len(file) \in Nat
      BY DEF CardInv, TypeOK, TransferTypeOK, Data
    <3>. QED
      BY <2>1, <3>1, <3>2 DEF CardInv, TypeOK, TransferTypeOK, Present, Told, Expected
  <2>6. CASE (Alone \/ Others \/ Control \/ Exit) /\ UNCHANGED fileVars
    <3>1. UNCHANGED <<file, size, edit, rx, known>>
      BY <2>6 DEF fileVars
    <3>2. pc # "transfer" <=> pc' # "transfer"
      BY <2>6 DEF MtpInv, Stages, Alone, Others, Control, Stopping, Exit, OpenUsb, OpenUsbFails, BuildFails, Publish, Flag, Check,
        Loop, ReadNothing, Serve, Answer, Remove, Finish, MtpStart, MtpStartFails, MtpStop, StopClear, StopTell, StopJoin, ExitDone
    <3>. QED
      BY <2>1, <3>1, <3>2 DEF CardInv, TypeOK, TransferTypeOK, Present, Told, Expected
  <2>7. CASE UNCHANGED vars
    BY <2>1, <2>7 DEF vars, mtpVars, fileVars, CardInv, TypeOK, TransferTypeOK, Present, Told, Expected
  <2>. QED
    BY <2>3, <2>4, <2>5, <2>6, <2>7 DEF Next
<1>. QED
  BY CardInitial, <1>1, TransferHasWorker, MtpInvariance, PTL DEF Spec

\* Every variable of the worker and its data phase keeps its type, and there is a data
\* phase exactly while the worker is in one, for files of any size.
THEOREM TransferTypeCorrect == Spec => []TypeOK
<1>1. CardInv => TypeOK
  BY DEF CardInv
<1>. QED
  BY <1>1, CardInvariance, PTL

\* What the host was told is there is there, for files of any size (doSendObject,
\* doSendPartialObject, doTruncateObject, receive_file).
THEOREM HostIsAlwaysRight == Spec => []HostIsRight
<1>1. CardInv => HostIsRight
  BY DEF CardInv, Told, HostIsRight
<1>. QED
  BY <1>1, CardInvariance, PTL
=============================================================================
