------------------------------- MODULE Settings -------------------------------
(***************************************************************************)
(* The settings page with its editor of custom colours, config.txt, and    *)
(* the tutorial with its file.                                             *)
(***************************************************************************)
EXTENDS Frame, SequencesExt

CONSTANTS Languages, Themes,  \* LANG_MAX, THEME_MAX; the last theme is the custom one
          CustomColors,       \* the custom colours at the start: a sequence of <<r, g, b>>
          Palettes,           \* sequences of colours like it
          Levels              \* what a touch of a channel's slider sets

Colour == [1..3 -> 0..255]

\* There are languages and themes, and each palette has a colour for each place.
ASSUME SettingsAssumption ==
  /\ Languages \in Nat \ {0} /\ Themes \in Nat \ {0}
  /\ CustomColors \in Seq(Colour) \ {<<>>}
  /\ \A i \in DOMAIN Palettes : Palettes[i] \in [DOMAIN CustomColors -> Colour]
  /\ Levels \subseteq 0..255

VARIABLES
  cfg,      \* the settings in memory
  shown,    \* the colours the screen is drawn with
  sel,      \* settings_sel
  editor,   \* custom_theme_editing, cte_sel, cte_chan, cte_backup
  file,     \* config.txt: its lines, none if there is no file
  tutorial, \* tutorial_active, tutorial_step, tutorial_completed, tutorial_write_failed
  tuto,     \* tutorial.json: what it says, or "none" or "garbled"
  want,     \* what the user has set and not taken back (history)
  sure,     \* which of the two files took its last write (history)
  beneath   \* what was touched beneath the open editor and counts since (history)

settings == <<cfg, shown, sel, editor, file, tutorial, tuto, want, sure, beneath>>

Custom    == Themes - 1
Intervals == <<0, 1, 3, 5, 10>>

Defaults == [lang |-> 0, theme |-> 0, refresh |-> 3, colors |-> CustomColors,
             temp |-> 70000, mem |-> 85, cpu |-> 0, gpu |-> 0]

\* apply_theme
ShownAs(c) == [theme |-> c.theme, colors |-> IF c.theme = Custom THEN c.colors ELSE <<>>]

-----------------------------------------------------------------------------
(* config.txt.  A line has a key, for a colour its place, and numbers; mem *)
(* is written as a fraction, here as hundredths.                           *)

Line(key, v) == [key |-> key, slot |-> 0, numbers |-> <<v>>]

Lines(c) ==
  <<Line("language", c.lang), Line("theme", c.theme), Line("autorefresh", c.refresh)>>
    \o [i \in DOMAIN c.colors |-> [key |-> "custom", slot |-> i, numbers |-> c.colors[i]]]
    \o <<Line("temp_alert_millic", c.temp), Line("mem_alert_frac", c.mem),
         Line("cpu_scale_target", c.cpu), Line("gpu_scale_target", c.gpu)>>

\* What can be read of a number that was not written to its end.
Heads(key, v) ==
  IF key = "mem_alert_frac" THEN {0, (v \div 10) * 10, v}
  ELSE {v \div 10, v \div 100, v \div 1000, v \div 10000} \ {0}

\* The file after a write that failed on the way: its lines up to one that may be cut short.
CutShort(ls) ==
  {SubSeq(ls, 1, n) : n \in 0..Len(ls) - 1} \cup
  UNION {{Append(SubSeq(ls, 1, n - 1), [ls[n] EXCEPT !.numbers = Append(Front(@), v)])
            : v \in Heads(ls[n].key, Last(ls[n].numbers))} : n \in 1..Len(ls)}

\* save_config, whose failures nobody hears of.
SaveConfig(c) ==
  \/ file' = Lines(c) /\ sure' = [sure EXCEPT !.config = TRUE] /\ Fine
  \/ Rare /\ file' \in CutShort(Lines(c)) \cup {file} /\ sure' = [sure EXCEPT !.config = FALSE]

\* Mutant: an interval that can be chosen is not one that can be loaded.
ValidShort == [language |-> 0..Languages - 1, theme |-> 0..Themes - 1, autorefresh |-> {0, 1, 3, 5}]

\* What load_config takes for these keys; it takes anything for the others.
Valid == [language |-> 0..Languages - 1, theme |-> 0..Themes - 1, autorefresh |-> {0, 1, 3, 5, 10}]

Taking(c, line) ==
  LET v == line.numbers[1] IN
  CASE line.key = "language" -> IF v \in Valid.language THEN [c EXCEPT !.lang = v] ELSE c
    [] line.key = "theme" -> IF v \in Valid.theme THEN [c EXCEPT !.theme = v] ELSE c
    [] line.key = "autorefresh" -> [c EXCEPT !.refresh = IF v \in Valid.autorefresh THEN v ELSE 3]
    [] line.key = "custom" -> [c EXCEPT !.colors[line.slot] = line.numbers]
    [] line.key = "temp_alert_millic" -> [c EXCEPT !.temp = v]
    [] line.key = "mem_alert_frac" -> [c EXCEPT !.mem = v]
    [] line.key = "cpu_scale_target" -> [c EXCEPT !.cpu = v]
    [] line.key = "gpu_scale_target" -> [c EXCEPT !.gpu = v]

\* load_config
Loaded(f) == FoldLeft(Taking, Defaults, f)

-----------------------------------------------------------------------------
(* The tutorial.                                                           *)

\* tutorial_save_state: what is in tutorial.json then, and whether it says it worked.
SaveState(says) ==
  \/ tuto' = says /\ sure' = [sure EXCEPT !.tuto = TRUE] /\ Fine
  \/ Rare /\ tuto' \in {tuto, "garbled", says} /\ sure' = [sure EXCEPT !.tuto = FALSE]

\* tutorial_finish, which leaves the tutorial up when it cannot be noted.
Finish ==
  /\ SaveState("true")
  /\ tutorial' = IF sure'.tuto THEN [tutorial EXCEPT !.done = TRUE, !.active = FALSE, !.failed = FALSE]
                 ELSE [tutorial EXCEPT !.failed = TRUE]

StepTo(n) == tutorial' = [tutorial EXCEPT !.step = n] /\ UNCHANGED <<tuto, sure, rare>>

Later   == IF tutorial.step < 4 THEN StepTo(tutorial.step + 1) ELSE Finish
Earlier == tutorial.step > 0 /\ StepTo(tutorial.step - 1)
Leave   == IF tutorial.step > 0 THEN Earlier ELSE Finish

\* A or Right or the button for the next step; Left or its button; B; the button to skip.
TutorialInput ==
  /\ tutorial.active
  /\ Later \/ Earlier \/ Leave \/ Finish
  /\ UNCHANGED <<cfg, shown, sel, editor, file, want, beneath>>

-----------------------------------------------------------------------------
(* Start.                                                                  *)

ClosedEditor == [open |-> FALSE, slot |-> 1, chan |-> 1, backup |-> <<>>]

\* main, up to its loop: the two files are read, and a tutorial.json that says nothing is written.
Start(f, t) ==
  /\ cfg' = Loaded(f) /\ shown' = ShownAs(cfg') /\ sel' = 0 /\ editor' = ClosedEditor
  /\ file' = f /\ want' = cfg' /\ beneath' = {}
  /\ IF t \in {"true", "false"}
     THEN tuto' = t /\ sure' = [config |-> TRUE, tuto |-> TRUE] /\ Fine
     ELSE \/ tuto' = "false" /\ sure' = [config |-> TRUE, tuto |-> TRUE] /\ Fine
          \/ Rare /\ tuto' \in {t, "garbled", "false"} /\ sure' = [config |-> TRUE, tuto |-> FALSE]
  /\ tutorial' = [active |-> t # "true", step |-> 0, done |-> t = "true", failed |-> ~sure'.tuto]

Restart == Start(file, tuto)

SettingsInit ==
  /\ cfg = Defaults /\ shown = ShownAs(Defaults) /\ sel = 0 /\ editor = ClosedEditor /\ file = <<>>
  /\ tuto \in {"true", "false"}
  /\ tutorial = [active |-> tuto = "false", step |-> 0, done |-> tuto = "true", failed |-> FALSE]
  /\ want = Defaults /\ sure = [config |-> TRUE, tuto |-> TRUE] /\ beneath = {}

-----------------------------------------------------------------------------
(* The page.                                                               *)

AtPage == cur = SettingsPage /\ ~tutorial.active

\* Which settings a save confirms: in the open editor not the colours.
Confirm(c, drawn) ==
  /\ cfg' = c /\ shown' = drawn /\ want' = [c EXCEPT !.colors = want.colors] /\ SaveConfig(c)
  /\ beneath' = IF editor.open THEN beneath \cup {"saved"} ELSE beneath \ {"saved"}
  /\ UNCHANGED <<tutorial, tuto>>

Next5(v, step) ==
  LET i == IF \E k \in 1..5 : Intervals[k] = v THEN CHOOSE k \in 1..5 : Intervals[k] = v ELSE 1
  IN  Intervals[((i - 1 + step) % 5) + 1]

\* A threshold moves by one step unless it is at its limit.
Stepped(v, step, by, low, high) ==
  IF step < 0 THEN IF v > low THEN v - by ELSE v ELSE IF v < high THEN v + by ELSE v

\* Left or Right on the selected setting.
Altered(s, step) ==
  CASE s = 0 -> [cfg EXCEPT !.lang = (@ + step) % Languages]
    [] s = 1 -> [cfg EXCEPT !.theme = (@ + step) % Themes]
    [] s = 2 -> [cfg EXCEPT !.refresh = Next5(@, step)]
    [] s = 3 -> [cfg EXCEPT !.temp = Stepped(@, step, 5000, 30000, 90000)]
    [] s = 4 -> [cfg EXCEPT !.mem = Stepped(@, step, 5, 50, 95)]

ChangeKey(step) ==
  /\ AtPage /\ ~editor.open
  /\ Confirm(Altered(sel, step), IF sel = 1 THEN ShownAs(Altered(1, step)) ELSE shown)
  /\ UNCHANGED <<sel, editor>>

SelectKey(step) ==
  /\ AtPage /\ ~editor.open /\ sel' = (sel + step) % 5
  /\ UNCHANGED <<cfg, shown, editor, file, tutorial, tuto, want, sure, beneath, rare>>

\* Controls touched, which the open editor does not keep from it.
TouchLanguage(l) ==
  AtPage /\ Confirm([cfg EXCEPT !.lang = l], shown) /\ UNCHANGED <<sel, editor>>
TouchTheme(t) ==
  /\ AtPage /\ Confirm([cfg EXCEPT !.theme = t], ShownAs([cfg EXCEPT !.theme = t]))
  /\ UNCHANGED <<sel, editor>>
TouchRefresh(i) ==
  AtPage /\ Confirm([cfg EXCEPT !.refresh = Intervals[i]], shown) /\ sel' = 2 /\ UNCHANGED editor
TouchAlert(s, step) ==
  AtPage /\ Confirm(Altered(s, step), shown) /\ sel' = s /\ UNCHANGED editor

TouchTutorial ==
  /\ AtPage /\ tutorial' = [tutorial EXCEPT !.active = TRUE, !.step = 0, !.failed = FALSE]
  /\ UNCHANGED <<cfg, shown, sel, editor, file, tuto, want, sure, beneath, rare>>

\* The button of the editor: the colours as they are become the backup.
TouchEditor ==
  /\ AtPage /\ cfg.theme = Custom
  /\ editor' = [editor EXCEPT !.open = TRUE, !.backup = cfg.colors]
  /\ beneath' = IF editor.open THEN beneath \cup {"reopened"} ELSE beneath
  /\ UNCHANGED <<cfg, shown, sel, file, tutorial, tuto, want, sure, rare>>

-----------------------------------------------------------------------------
(* The editor.                                                             *)

Editing  == AtPage /\ editor.open
NotSaved == UNCHANGED <<sel, file, tutorial, tuto, want, sure, rare, beneath>>

\* The colour and the channel that are worked on, by keys and by touch.
Choose(slot, chan) ==
  /\ Editing /\ editor' = [editor EXCEPT !.slot = slot, !.chan = chan]
  /\ UNCHANGED <<cfg, shown>> /\ NotSaved

ChooseKey(by, turn) ==
  Choose(((editor.slot - 1 + by) % Len(cfg.colors)) + 1, ((editor.chan - 1 + turn) % 3) + 1)

\* ZL and ZR, within a byte.
Nudge(step) ==
  /\ Editing
  /\ cfg' = [cfg EXCEPT !.colors[editor.slot][editor.chan] =
               IF step < 0 THEN IF @ >= 5 THEN @ - 5 ELSE 0 ELSE IF @ <= 250 THEN @ + 5 ELSE 255]
  /\ UNCHANGED <<shown, editor>> /\ NotSaved

Slide(chan, level) ==
  /\ Editing /\ editor' = [editor EXCEPT !.chan = chan]
  /\ cfg' = [cfg EXCEPT !.colors[editor.slot][chan] = level] /\ UNCHANGED shown /\ NotSaved

\* apply_custom_theme_palette
UsePalette(i) ==
  /\ Editing /\ cfg' = [cfg EXCEPT !.colors = Palettes[i]] /\ shown' = ShownAs(cfg')
  /\ UNCHANGED editor /\ NotSaved

SaveEditor ==
  /\ Editing /\ editor' = [editor EXCEPT !.open = FALSE] /\ shown' = ShownAs(cfg) /\ want' = cfg
  /\ SaveConfig(cfg) /\ beneath' = {} /\ UNCHANGED <<cfg, sel, tutorial, tuto>>

\* Mutant: the screen keeps the colours that were tried.
CancelUnseen ==
  /\ Editing /\ editor' = [editor EXCEPT !.open = FALSE]
  /\ cfg' = [cfg EXCEPT !.colors = editor.backup] /\ UNCHANGED shown /\ NotSaved

CancelEditor ==
  /\ Editing /\ editor' = [editor EXCEPT !.open = FALSE]
  /\ cfg' = [cfg EXCEPT !.colors = editor.backup] /\ shown' = ShownAs(cfg') /\ NotSaved

-----------------------------------------------------------------------------
(* Properties.                                                             *)

\* The highest a temperature threshold gets: one step above the last that may be raised.
Hottest == 89999 + 5000

\* Outside the editor the screen has the colours of the theme, and the custom colours are those that
\* were last saved from it or loaded, not ones that were tried and given up; unless its button was
\* touched again beneath it, which makes the tried colours the backup.
EditorUndone ==
  ~editor.open => shown = ShownAs(cfg) /\ ("reopened" \notin beneath => cfg.colors = want.colors)

\* Killed now, the program would start with every setting as the user left it, and with the tutorial
\* exactly if it was not finished or skipped; unless the last write failed, or colours that were
\* tried got into the file through a control beneath the editor.
RestartKeeps ==
  /\ sure.config =>
       LET next == Loaded(file) IN
       /\ [next EXCEPT !.colors = <<>>] = [want EXCEPT !.colors = <<>>]
       /\ beneath = {} => next.colors = want.colors
  /\ sure.tuto => (tutorial.done <=> tuto = "true")

=============================================================================
