--------------------------------- MODULE Pages ---------------------------------
(***************************************************************************)
(* The nine pages: how far each is scrolled, by keys, stick and finger,    *)
(* with the list of games on the tools page that scrolls within it; the    *)
(* guide and the screen test that lie over them.                           *)
(***************************************************************************)
EXTENDS Frame, FiniteSets

CONSTANTS Overhangs,  \* how much taller than the window the content of a page may be
          Places,     \* bound: where a finger is on the screen, as its height
          Games,      \* numbers of installed games
          RowHeight,  \* INSTALLED_GAME_ROW_HEIGHT
          VisibleRows \* VISIBLE_INSTALLED_GAMES

\* Heights and numbers, and rows that have a height.
ASSUME PagesAssumption ==
  /\ Overhangs \subseteq Nat /\ Places \subseteq Nat /\ Games \subseteq Nat
  /\ RowHeight \in Nat \ {0} /\ VisibleRows \in Nat

VARIABLES
  scroll,  \* system_scroll to settings_scroll
  limit,   \* system_scroll_max to settings_scroll_max
  over,    \* what they are when the page is drawn now
  finger,  \* touch_start_y, touch_scroll_active with touch_scroll_blocked; tools_game_touch_y, or -1
  list,    \* tools_game_scroll and installed_game_count
  guide,   \* tesla_guide_active, tesla_guide_step
  screen   \* screen_test_active

pages == <<scroll, limit, over, finger, list, guide, screen>>

Pgs == 0..PGS - 1

Within(v, high)  == IF v < 0 THEN 0 ELSE IF v > high THEN high ELSE v
Turned(p, step)  == (p + step) % PGS
Hidden(count)    == IF count > VisibleRows THEN count - VisibleRows ELSE 0

\* Mutant: a page that has become shorter stays where it was.
FrameEndsFar(s) ==
  /\ scroll' = [p \in Pgs |-> IF p = cur' THEN s[p] ELSE 0]
  /\ limit' = IF screen' # 0 THEN limit ELSE [limit EXCEPT ![cur'] = over[cur']]

\* The end of a frame: the pages that do not show go back to their top, the one that shows is drawn
\* and kept within its height, unless the screen test covers it.
FrameEnds(s) ==
  /\ scroll' = [p \in Pgs |-> IF p # cur' THEN 0 ELSE IF screen' # 0 THEN s[p] ELSE Within(s[p], over[p])]
  /\ limit' = IF screen' # 0 THEN limit ELSE [limit EXCEPT ![cur'] = over[cur']]

\* The page that shows moves, up to the height it had when it was drawn.
Moved(by) == [scroll EXCEPT ![cur] = IF limit[cur] > 0 THEN Within(@ + by, limit[cur]) ELSE @]

Direct == ~guide.active

\* A direction, 24 at a time.
Direction(step) ==
  /\ Direct /\ cur' = cur /\ UNCHANGED <<over, finger, list, guide, screen>>
  /\ FrameEnds(Moved(24 * step))

\* The right stick.
Stick(by) ==
  /\ Direct /\ screen = 0 /\ cur' = cur /\ UNCHANGED <<over, finger, list, guide, screen>>
  /\ FrameEnds(Moved(by))

\* A finger is put on the page: on the list of games it drags the list, on a button nothing.
Down(y, on) ==
  /\ Direct /\ cur' = cur /\ (on = "games" => cur = ToolsPage)
  /\ finger' = IF limit[cur] = 0 THEN finger
               ELSE [y |-> y, drags |-> on = "page" /\ y \in 140..650,
                     game |-> IF on = "games" THEN y ELSE finger.game]
  /\ UNCHANGED <<over, list, guide, screen>> /\ FrameEnds(scroll)

\* It moves.  What the list of games cannot scroll is left to the page.
Move(y) ==
  LET by    == finger.y - y
      far   == finger.drags /\ (by > 4 \/ by < -4)
      s     == IF far THEN Moved(by) ELSE scroll
      dy    == finger.game - y
      drags == cur = ToolsPage /\ limit[cur] > 0 /\ finger.game >= 0 /\ (dy > 8 \/ dy < -8)
      whole == IF dy >= 0 THEN dy \div RowHeight ELSE -((-dy) \div RowHeight)
      steps == IF whole # 0 THEN whole ELSE IF dy > 0 THEN 1 ELSE -1
      asked == list.scroll + steps
      rest  == asked - Within(asked, Hidden(list.count))
  IN  /\ Direct /\ cur' = cur
      /\ finger' = [finger EXCEPT !.y = IF far /\ limit[cur] > 0 THEN y ELSE @, !.game = IF drags THEN y ELSE @]
      /\ list' = IF drags THEN [list EXCEPT !.scroll = Within(asked, Hidden(list.count))] ELSE list
      /\ UNCHANGED <<over, guide, screen>>
      /\ FrameEnds(IF drags THEN [s EXCEPT ![cur] = Within(@ + rest * RowHeight, limit[cur])] ELSE s)

\* It is lifted, even over the guide.
Up ==
  /\ cur' = cur /\ finger' = [finger EXCEPT !.drags = FALSE, !.game = -1]
  /\ UNCHANGED <<over, list, guide, screen>> /\ FrameEnds(scroll)

\* Another page: a tab is touched, which ends a drag if the page it leads to can scroll; or L, R, ZL,
\* ZR, X at home, B on the settings page, which do not.
TouchTab(p) ==
  /\ Direct /\ cur' = p /\ finger' = IF limit[p] = 0 THEN finger ELSE [finger EXCEPT !.drags = FALSE]
  /\ UNCHANGED <<over, list, guide, screen>> /\ FrameEnds(scroll)

GoTo(p) == Direct /\ cur' = p /\ UNCHANGED <<over, finger, list, guide>> /\ FrameEnds(scroll)

KeyPage(p) == UNCHANGED screen /\ GoTo(p)

\* The guide is opened by a touch on the tools page and keeps all input to itself.
OpenGuide ==
  /\ Direct /\ cur = ToolsPage /\ cur' = cur /\ guide' = [active |-> TRUE, step |-> 0]
  /\ UNCHANGED <<over, finger, list, screen>> /\ FrameEnds(scroll)

GuideInput ==
  /\ guide.active /\ cur' = cur
  /\ guide' \in {IF guide.step < 4 THEN [guide EXCEPT !.step = @ + 1] ELSE [guide EXCEPT !.active = FALSE],
                 IF guide.step > 0 THEN [guide EXCEPT !.step = @ - 1] ELSE guide,
                 [guide EXCEPT !.active = FALSE]}
  /\ UNCHANGED <<over, finger, list, screen>> /\ FrameEnds(scroll)

\* The screen test: started by touch on the tools page, A shows its next colour, B ends it and goes
\* home from the settings page.
StartTest ==
  /\ Direct /\ cur = ToolsPage /\ cur' = cur /\ screen' = 1
  /\ UNCHANGED <<over, finger, list, guide>> /\ FrameEnds(scroll)

NextColour ==
  /\ Direct /\ screen # 0 /\ cur' = cur /\ screen' = (IF screen + 1 >= 5 THEN 1 ELSE screen + 1)
  /\ UNCHANGED <<over, finger, list, guide>> /\ FrameEnds(scroll)

BackKey == screen' = 0 /\ GoTo(IF cur = SettingsPage THEN Home ELSE cur)

\* The content of a page grows or shrinks, the games are read again; the next frame draws it.
ContentChanges(p, h) ==
  /\ over' = [over EXCEPT ![p] = h] /\ Rare
  /\ UNCHANGED <<cur, scroll, limit, finger, list, guide, screen>>

GamesChange(n) ==
  /\ Rare /\ list' = [scroll |-> Within(list.scroll, Hidden(n)), count |-> n]
  /\ UNCHANGED <<cur, scroll, limit, over, finger, guide, screen>>

PagesInit ==
  /\ over \in {[p \in Pgs |-> h] : h \in Overhangs}
  /\ scroll = [p \in Pgs |-> 0] /\ limit = scroll
  /\ finger = [y |-> 0, drags |-> FALSE, game |-> -1] /\ list = [scroll |-> 0, count |-> 0]
  /\ guide = [active |-> FALSE, step |-> 0] /\ screen = 0

=============================================================================
