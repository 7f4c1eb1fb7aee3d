----------------------------------- MODULE Ui -----------------------------------
(***************************************************************************)
(* The user interface: its pages, and on them the file browser, the        *)
(* settings, the motors, clocks and brightness.  The user reaches each     *)
(* through the pages, and a key that turns the page also works on the page *)
(* it leaves or arrives at.                                                *)
(*                                                                         *)
(* Each of these parts keeps state of its own, so a behaviour uses one of  *)
(* them.  How far the pages are scrolled is followed in behaviours that    *)
(* use none, on a machine without motors and backlight (lbl_emulator).     *)
(***************************************************************************)
EXTENDS FileBrowser, Controls, Pages

CONSTANTS MaxActs,  \* bound: keys and touches, by the part that is used
          MaxRare,  \* bound: failures, and changes by other users of the card, likewise
          Visited   \* bound: the pages the user goes to, likewise

\* The bounds are numbers, and the pages that are visited there are.
ASSUME UiAssumption ==
  \A part \in DOMAIN MaxActs :
    MaxActs[part] \in Nat /\ MaxRare[part] \in Nat /\ Visited[part] \subseteq Pgs

VARIABLES used

vars == <<used, cur, acts, rare, browser, settings, motors, clocks, pages>>

Keys    == {"L", "R", "ZL", "ZR"}
StepOf(key) == IF key \in {"L", "ZL"} THEN -1 ELSE 1
Using(part) == used = part /\ UNCHANGED used

-----------------------------------------------------------------------------
(* The storage page.                                                       *)

\* L, R, ZL, ZR: in the open browser they copy, cut and paste; elsewhere they turn the page, and if
\* that leads to the browser they do both.
BrowserKeys(key) ==
  /\ cur' = IF Showing THEN cur ELSE Turned(cur, StepOf(key))
  /\ IF cur' = StoragePage /\ fb.active THEN ClipKey(key) ELSE Idle

\* Minus, with any question open.
CloseBrowser ==
  /\ Showing /\ fb' = [fb EXCEPT !.active = FALSE] /\ cur' = Home
  /\ UNCHANGED <<mode, asked>> /\ OnlyList

BrowserTab(p) == p # cur /\ cur' = p /\ Idle

OnStorage ==
  \/ \E i \in -1..MaxEntries : OpenRoot(i)
  \/ \E b \in Bases, dir \in BOOLEAN : OpenDetail(<<b, 0>>, dir)
  \/ \E i \in 1..MaxEntries : Touch(i)
  \/ OpenRow \/ Back \/ Sort
  \/ \E step \in {-1, 1} : MoveRow(step)
  \/ \E question \in {"delete", "rename"} : Ask(question)
  \/ Decline \/ Delete
  \/ \E name \in Names : RenameTo(name)

BrowserInput ==
  \/ OnStorage /\ cur' = cur
  \/ CloseBrowser
  \/ \E key \in Keys : BrowserKeys(key)
  \/ \E p \in Pgs : BrowserTab(p)

BrowserNext ==
  /\ Using("browser") /\ UNCHANGED <<settings, motors, clocks, pages>>
  /\ \/ Waiting /\ Act /\ BrowserInput /\ cur' \in Visited["browser"]
     \/ CopySteps /\ UNCHANGED <<cur, acts>>
     \/ OutsideRemove /\ UNCHANGED <<cur, acts>>

-----------------------------------------------------------------------------
(* The settings page.                                                      *)

SettingsTouch ==
  \/ \E l \in 0..Languages - 1 : TouchLanguage(l)
  \/ \E t \in 0..Themes - 1 : TouchTheme(t)
  \/ \E i \in 1..5 : TouchRefresh(i)
  \/ \E s \in {3, 4}, step \in {-1, 1} : TouchAlert(s, step)
  \/ TouchEditor

EditorInput ==
  \/ \E by, turn \in {-1, 0, 1} : (by = 0 \/ turn = 0) /\ by # turn /\ ChooseKey(by, turn)
  \/ \E slot \in DOMAIN cfg.colors : Choose(slot, editor.chan)
  \/ \E chan \in 1..3 : Choose(editor.slot, chan)
  \/ \E step \in {-1, 1} : Nudge(step)
  \/ \E chan \in 1..3, level \in Levels : Slide(chan, level)
  \/ \E i \in DOMAIN Palettes : UsePalette(i)
  \/ SaveEditor \/ CancelEditor

\* X at home and B on the page, which are not for an open editor; the page forgets its selection
\* when it is left.
TurnSettings ==
  /\ ~tutorial.active /\ ~editor.open
  /\ \/ cur = Home /\ cur' = SettingsPage
     \/ cur = SettingsPage /\ cur' = Home
  /\ sel' = 0
  /\ UNCHANGED <<cfg, shown, editor, file, tutorial, tuto, want, sure, beneath, rare>>

SettingsNext ==
  /\ used \in {"settings", "tutorial"} /\ UNCHANGED <<used, browser, motors, clocks, pages>>
  /\ Act
  /\ \/ /\ used = "settings" /\ cur' = cur
        /\ (\E step \in {-1, 1} : ChangeKey(step) \/ SelectKey(step)) \/ SettingsTouch \/ EditorInput
     \/ (TouchTutorial \/ TutorialInput) /\ cur' = cur
     \/ TurnSettings
     \/ Restart /\ cur' = Home

-----------------------------------------------------------------------------
(* The controller page and the tools page.                                 *)

\* A frame with buttons held and rumble asked for, on this page or the next.
MotorInput ==
  /\ cur' \in {cur} \cup {Turned(cur, step) : step \in {-1, 1}} /\ cur' \in Visited["motors"]
  /\ \E touched \in {{}} \cup (IF cur = PadPage THEN {{0}, {1}, Motors} ELSE {}),
        buttons \in SUBSET Motors, ending \in SUBSET {i \in Motors : vibe.until[i]},
        x \in {b \in BOOLEAN : b => cur' = PadPage} :
       ending \cap touched = {} /\ MotorFrame(touched, buttons, ending, x)

MotorsNext ==
  /\ Using("motors") /\ UNCHANGED <<browser, settings, clocks, pages>>
  /\ Act /\ (MotorInput \/ (ExitStops /\ cur' = Home))

ClockInput ==
  \/ \E m \in {"cpu", "gpu"} : \E mhz \in Taps[m] : SetClock(m, mhz) /\ cur' = cur
  \/ \E m \in {"cpu", "gpu"} :  \* ZR or ZL, which turn the page too
       cfg[m] > 0 /\ SetClock(m, cfg[m]) /\ cur' = Turned(cur, IF m = "cpu" THEN 1 ELSE -1)
  \/ \E docked \in BOOLEAN : ResetClocks(docked) /\ cur' = cur

LightInput ==
  \/ ReadLight \/ ToggleAuto
  \/ \E step \in {-5, 5} : Brighter(step)
  \/ \E level \in Levels \cap 0..100 : Apply(level)

ClocksNext ==
  /\ Using("clocks") /\ UNCHANGED <<browser, motors, pages>>
  /\ \/ /\ cur = ToolsPage /\ Act /\ ClockInput /\ cur' \in Visited["clocks"]
        /\ UNCHANGED <<light, sel, editor>>
     \/ cur = ToolsPage /\ Act /\ LightInput /\ UNCHANGED <<cur, hw, current, settings>>
     \/ cur # ToolsPage /\ Act /\ cur' = ToolsPage /\ UNCHANGED <<rare, clocks, settings>>
     \/ /\ Act /\ Restart /\ cur' = Home
        /\ current' = {} /\ light' = [light EXCEPT !.known = -1] /\ UNCHANGED hw
     \/ (\E level \in Levels \cap 0..100 : AutoChanges(level)) /\ UNCHANGED <<cur, acts, hw, current, settings>>

-----------------------------------------------------------------------------
(* The pages.                                                              *)

PagesNext ==
  /\ Using("pages") /\ UNCHANGED <<browser, settings, motors, clocks>>
  /\ \/ /\ Act /\ Fine
        /\ \/ \E step \in {-1, 1} : KeyPage(Turned(cur, step)) \/ (cur # SettingsPage /\ Direction(step))
           \/ \E by \in {-16, 1} : Stick(by)
           \/ \E y \in Places, on \in {"page", "games", "button"} : Down(y, on)
           \/ \E y \in Places : Move(y)
           \/ Up \/ OpenGuide \/ GuideInput \/ StartTest \/ NextColour \/ BackKey
           \/ \E p \in Pgs : TouchTab(p)
           \/ cur = Home /\ KeyPage(SettingsPage)
        /\ cur' \in Visited["pages"]
     \/ /\ UNCHANGED acts
        /\ \/ \E p \in Visited["pages"], h \in Overhangs : ContentChanges(p, h)
           \/ \E n \in Games : GamesChange(n)

-----------------------------------------------------------------------------
Init ==
  /\ used \in DOMAIN MaxActs /\ cur \in Visited[used] /\ acts = MaxActs[used] /\ rare = MaxRare[used]
  /\ BrowserInit /\ SettingsInit /\ ControlsInit /\ PagesInit
  /\ used \notin {"settings", "tutorial"} => tutorial.done
  /\ used # "pages" => \A p \in Pgs : over[p] = 0

Next == BrowserNext \/ SettingsNext \/ MotorsNext \/ ClocksNext \/ PagesNext

Spec == Init /\ [][Next]_vars

-----------------------------------------------------------------------------
(* Properties.                                                             *)

\* Every page is scrolled within its height, and only the one that shows is scrolled at all; the
\* selections and thresholds are ones the page can show.
TypeOK ==
  /\ used \in DOMAIN MaxActs /\ cur \in Pgs /\ acts \in 0..MaxActs[used] /\ rare \in 0..MaxRare[used]
  /\ \A p \in Pgs : scroll[p] \in 0..limit[p] /\ (p # cur => scroll[p] = 0)
  /\ list.scroll \in 0..Hidden(list.count) /\ guide.step \in 0..4 /\ screen \in 0..4
  /\ fb.count \in 0..Min({MaxEntries, Len(fb.rows)}) /\ fb.row >= 1
  /\ mode \in {"browse", "delete", "rename"}
  /\ sel \in 0..4 /\ cfg.lang \in 0..Languages - 1 /\ cfg.theme \in 0..Themes - 1
  /\ cfg.refresh \in ToSet(Intervals) /\ cfg.temp \in 0..Hottest /\ cfg.mem \in 0..95
  /\ \A i \in DOMAIN cfg.colors : \A c \in 1..3 : cfg.colors[i][c] \in 0..255
  /\ tutorial.step \in 0..4 /\ editor.open => cur = SettingsPage
  /\ light.known \in -1..100

=============================================================================
