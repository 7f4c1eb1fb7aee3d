------------------------------- MODULE Ui_proof -------------------------------
(***************************************************************************)
(* Proofs about the user interface.  Its parts, of which a behaviour uses  *)
(* one, have an inductive invariant each; UiInv at the end joins them.    *)
(*                                                                         *)
(* Induction over data (what a fold of load_config, a sort or a search for *)
(* a minimum gives) goes through Least: of the indices at which a claim    *)
(* would fail there is a least one, and the step that leads to it is       *)
(* refuted.                                                                *)
(***************************************************************************)
EXTENDS Ui, WellFoundedInduction, SequenceTheorems, FiniteSetTheorems, TLAPS

\* A set of numbers has a least member: what induction over indices goes through.
LEMMA Least ==
  ASSUME NEW T \in SUBSET Nat, T # {}
  PROVE  \E x \in T : \A y \in T : x <= y
<1>. DEFINE R == {ss \in Nat \X Nat : ss[1] < ss[2]}
<1>1. IsWellFoundedOn(R, Nat)
  <2>1. OpToRel(<, Nat) = R
    BY DEF OpToRel
  <2>2. IsWellFoundedOn(OpToRel(<, Nat), Nat)
    BY NatLessThanWellFounded
  <2>. QED BY <2>1, <2>2
<1>2. \A x, y \in Nat : y < x => <<y, x>> \in R
  OBVIOUS
<1>. HIDE DEF R
<1>3. \E x \in T : \A y \in T : ~ (<<y, x>> \in R)
  BY <1>1, WFMin
<1>4. PICK x \in T : \A y \in T : ~ (<<y, x>> \in R)
  BY <1>3
<1>5. ASSUME NEW y \in T PROVE x <= y
  <2>1. x \in Nat /\ y \in Nat
    OBVIOUS
  <2>2. ~(y < x)
    BY <1>2, <1>4, <2>1
  <2>. QED BY <2>1, <2>2
<1>. QED
  BY <1>5

\* The greatest member of a set with a bound.
LEMMA MaxOf ==
  ASSUME NEW n \in Nat, NEW s \in SUBSET (0..n), s # {}
  PROVE  Max(s) \in s /\ \A y \in s : y <= Max(s)
<1>. DEFINE T == {n - x : x \in s}
<1>1. T \in SUBSET Nat /\ T # {}
  <2>1. \A x \in s : n - x \in Nat
    OBVIOUS
  <2>2. T # {}
    OBVIOUS
  <2>. QED BY <2>1, <2>2
<1>2. PICK t \in T : \A y \in T : t <= y
  BY <1>1, Least
<1>3. PICK x \in s : t = n - x
  BY <1>2
<1>4. \A y \in s : x >= y
  <2>1. ASSUME NEW y \in s PROVE x >= y
    <3>1. n - y \in T
      OBVIOUS
    <3>2. t <= n - y
      BY <3>1, <1>2
    <3>. QED BY <3>2, <1>3
  <2>. QED BY <2>1
<1>5. Max(s) \in s /\ \A y \in s : Max(s) >= y
  BY <1>4 DEF Max
<1>. QED
  BY <1>5

\* load_config as a sequence of states: the defaults, and one line taken after the other.
LEMMA LoadedSteps ==
  ASSUME NEW f, Len(f) \in Nat, DOMAIN f = 1..Len(f)
  PROVE  \E h : /\ h[0] = Defaults
                /\ \A n \in 1..Len(f) : h[n] = Taking(h[n - 1], f[n])
                /\ Loaded(f) = h[Len(f)]
<1>. DEFINE TakeLine(g, s) == IF s = {} THEN Defaults ELSE Taking(g[s \ {Max(s)}], f[Max(s)])
            Folds(g, k) == g = [s \in SUBSET (1..k) |-> TakeLine(g, s)]
            Bad == {k \in Nat : ~ \E g : Folds(g, k)}
            N == Len(f)
<1>1. Bad = {}
  <2>1. SUFFICES ASSUME Bad # {} PROVE FALSE
    OBVIOUS
  <2>2. PICK k \in Bad : \A j \in Bad : k <= j
    <3>1. Bad \in SUBSET Nat
      OBVIOUS
    <3>. HIDE DEF Bad
    <3>. QED BY <2>1, <3>1, Least
  <2>3. CASE k = 0
    <3>1. Folds([s \in SUBSET (1..0) |-> Defaults], 0)
      <4>1. \A s \in SUBSET (1..0) : s = {}
        OBVIOUS
      <4>. QED BY <4>1
    <3>. QED BY <2>2, <2>3, <3>1
  <2>4. CASE k # 0
    <3>1. k \in Nat /\ k - 1 \in Nat
      BY <2>2, <2>4
    <3>0. k - 1 \notin Bad
      <4>. HIDE DEF Bad
      <4>1. ~(k <= k - 1)
        BY <3>1
      <4>. QED BY <2>2, <4>1
    <3>2. PICK g : Folds(g, k - 1)
      BY <3>0, <3>1
    <3>. DEFINE G == [s \in SUBSET (1..k) |-> TakeLine(g, s)]
    <3>3. \A t \in SUBSET (1..k-1) : G[t] = g[t]
      <4>1. SUBSET (1..k-1) \subseteq SUBSET (1..k)
        BY <3>1
      <4>. QED BY <3>2, <4>1
    <3>4. \A s \in SUBSET (1..k) : s # {} => s \ {Max(s)} \in SUBSET (1..k-1)
      <4>1. ASSUME NEW s \in SUBSET (1..k), s # {} PROVE s \ {Max(s)} \in SUBSET (1..k-1)
        <5>1. Max(s) \in s /\ \A y \in s : y <= Max(s)
          <6>1. s \in SUBSET (0..k)
            BY <3>1, <4>1
          <6>. QED BY <3>1, <4>1, <6>1, MaxOf
        <5>2. Max(s) \in 1..k
          BY <5>1
        <5>3. ASSUME NEW y \in s \ {Max(s)} PROVE y \in 1..k-1
          <6>1. y \in s /\ y # Max(s)
            OBVIOUS
          <6>2. y \in 1..k /\ y <= Max(s)
            BY <5>1, <6>1
          <6>. HIDE DEF Max
          <6>. QED BY <3>1, <5>2, <6>1, <6>2
        <5>. QED BY <5>3
      <4>. QED BY <4>1
    <3>5. \A s \in SUBSET (1..k) : TakeLine(G, s) = TakeLine(g, s)
      <4>. HIDE DEF G
      <4>. QED BY <3>3, <3>4
    <3>6. Folds(G, k)
      BY <3>5
    <3>. QED BY <2>2, <3>6
  <2>. QED BY <2>3, <2>4
<1>. DEFINE iter == CHOOSE g : Folds(g, N)
<1>2. Folds(iter, N)
  <2>1. \E g : Folds(g, N)
    BY <1>1
  <2>. QED BY <2>1
<1>3. Loaded(f) = iter[1..N]
  BY DEF Loaded, FoldLeft, MapThenFoldSet
<1>. HIDE DEF iter
<1>. DEFINE h == [n \in 0..N |-> iter[1..n]]
<1>4. h[0] = Defaults
  <2>1. iter[{}] = Defaults
    BY <1>2
  <2>2. 1..0 = {}
    OBVIOUS
  <2>. QED BY <2>1, <2>2
<1>5. ASSUME NEW n \in 1..N PROVE h[n] = Taking(h[n - 1], f[n])
  <2>1. n \in Nat /\ n \in 1..n /\ 1..n \in SUBSET (1..n) /\ 1..n \in SUBSET (1..N) /\ 1..n # {}
    <3>1. n \in Nat /\ 1 <= n /\ n <= N
      OBVIOUS
    <3>2. N \in Nat
      OBVIOUS
    <3>. HIDE DEF N
    <3>3. n \in 1..n
      BY <3>1
    <3>5. 1..n # {}
      BY <3>3
    <3>4. \A y \in 1..n : y \in 1..N
      BY <3>1, <3>2
    <3>. QED BY <3>1, <3>3, <3>4, <3>5
  <2>2. Max(1..n) = n
    <3>0. 1..n \in SUBSET (0..n)
      BY <2>1
    <3>1. Max(1..n) \in 1..n /\ n <= Max(1..n)
      BY <2>1, <3>0, MaxOf
    <3>. QED BY <2>1, <3>1
  <2>3. (1..n) \ {n} = 1..(n - 1)
    OBVIOUS
  <2>4. iter[1..n] = Taking(iter[1..(n - 1)], f[n])
    BY <1>2, <2>1, <2>2, <2>3
  <2>. QED BY <2>4
<1>. QED
  <2>1. Loaded(f) = h[Len(f)]
    BY <1>3
  <2>. HIDE DEF h
  <2>. QED BY <1>4, <1>5, <2>1

Slots == DOMAIN CustomColors
LanguageSet == 0..Languages - 1
ThemeSet    == 0..Themes - 1
RefreshSet  == {0, 1, 3, 5, 10}
Palette     == [Slots -> Colour]
TempLevels  == 0..Hottest
MemLevels   == {v \in 0..95 : v % 5 = 0}

\* What the settings are in the program, ...
Config == [lang : LanguageSet, theme : ThemeSet, refresh : RefreshSet, colors : Palette,
           temp : TempLevels, mem : MemLevels, cpu : Int, gpu : Int]

\* ... and what a line of config.txt is.
Keyed(key, slots, numbers) == [key : {key}, slot : slots, numbers : numbers]
Written ==
  Keyed("language", {0}, [{1} -> Int]) \cup Keyed("theme", {0}, [{1} -> Int])
  \cup Keyed("autorefresh", {0}, [{1} -> Int]) \cup Keyed("custom", Slots, Colour)
  \cup Keyed("temp_alert_millic", {0}, [{1} -> TempLevels]) \cup Keyed("mem_alert_frac", {0}, [{1} -> MemLevels])
  \cup Keyed("cpu_scale_target", {0}, [{1} -> Int]) \cup Keyed("gpu_scale_target", {0}, [{1} -> Int])

\* The bound on a threshold, as a number whose size the provers need not look at.
LEMMA HottestIs == Hottest \in Nat /\ 70000 <= Hottest /\ 89999 + 5000 = Hottest
BY DEF Hottest

\* The places of the custom colours.
LEMMA SlotsAre == Slots = 1..Len(CustomColors) /\ Len(CustomColors) \in Nat \ {0}
                  /\ CustomColors \in [Slots -> Colour]
BY SettingsAssumption DEF Slots

\* The initial settings are settings.
LEMMA DefaultsConfig == Defaults \in Config
<1>1. 0 \in LanguageSet /\ 0 \in ThemeSet
  BY SettingsAssumption DEF LanguageSet, ThemeSet
<1>2. 85 \in MemLevels /\ 70000 \in TempLevels /\ 3 \in RefreshSet
  BY HottestIs DEF MemLevels, TempLevels, RefreshSet
<1>3. CustomColors \in Palette
  BY SlotsAre DEF Palette
<1>. QED
  BY <1>1, <1>2, <1>3 DEF Config, Defaults

\* What load_config does with a line of each key.
LEMMA Takes ==
  ASSUME NEW c, NEW l, NEW v, l.numbers[1] = v
  PROVE  /\ l.key = "language" => Taking(c, l) = IF v \in LanguageSet THEN [c EXCEPT !.lang = v] ELSE c
         /\ l.key = "theme" => Taking(c, l) = IF v \in ThemeSet THEN [c EXCEPT !.theme = v] ELSE c
         /\ l.key = "autorefresh" =>
              Taking(c, l) = [c EXCEPT !.refresh = IF v \in RefreshSet THEN v ELSE 3]
         /\ l.key = "temp_alert_millic" => Taking(c, l) = [c EXCEPT !.temp = v]
         /\ l.key = "mem_alert_frac" => Taking(c, l) = [c EXCEPT !.mem = v]
         /\ l.key = "cpu_scale_target" => Taking(c, l) = [c EXCEPT !.cpu = v]
         /\ l.key = "gpu_scale_target" => Taking(c, l) = [c EXCEPT !.gpu = v]
<1>1. /\ Valid.language = LanguageSet /\ Valid.theme = ThemeSet /\ Valid.autorefresh = RefreshSet
  BY DEF Valid, LanguageSet, ThemeSet, RefreshSet
<1>3. l.key = "language" => Taking(c, l) = IF v \in LanguageSet THEN [c EXCEPT !.lang = v] ELSE c
  BY <1>1, Zenon DEF Taking
<1>4. l.key = "theme" => Taking(c, l) = IF v \in ThemeSet THEN [c EXCEPT !.theme = v] ELSE c
  BY <1>1, Zenon DEF Taking
<1>5. l.key = "autorefresh" => Taking(c, l) = [c EXCEPT !.refresh = IF v \in RefreshSet THEN v ELSE 3]
  BY <1>1, Zenon DEF Taking
<1>6. l.key = "temp_alert_millic" => Taking(c, l) = [c EXCEPT !.temp = v]
  BY Zenon DEF Taking
<1>7. l.key = "mem_alert_frac" => Taking(c, l) = [c EXCEPT !.mem = v]
  BY Zenon DEF Taking
<1>8. l.key = "cpu_scale_target" => Taking(c, l) = [c EXCEPT !.cpu = v]
  BY Zenon DEF Taking
<1>9. l.key = "gpu_scale_target" => Taking(c, l) = [c EXCEPT !.gpu = v]
  BY Zenon DEF Taking
<1>. QED
  BY <1>3, <1>4, <1>5, <1>6, <1>7, <1>8, <1>9, Zenon

\* A line that save_config may have written, whole or cut short, leaves settings that are in range.
LEMMA TakingConfig ==
  ASSUME NEW c \in Config, NEW l \in Written
  PROVE  Taking(c, l) \in Config
<1>. DEFINE v == l.numbers[1]
<1>1. CASE l \in Keyed("language", {0}, [{1} -> Int])
  <2>1. Taking(c, l) = IF v \in Valid.language THEN [c EXCEPT !.lang = v] ELSE c
    BY <1>1, Zenon DEF Taking, Keyed
  <2>2. Valid.language = LanguageSet
    BY DEF Valid, LanguageSet
  <2>. HIDE DEF v
  <2>. QED BY <2>1, <2>2 DEF Config
<1>2. CASE l \in Keyed("theme", {0}, [{1} -> Int])
  <2>1. Taking(c, l) = IF v \in Valid.theme THEN [c EXCEPT !.theme = v] ELSE c
    BY <1>2, Zenon DEF Taking, Keyed
  <2>2. Valid.theme = ThemeSet
    BY DEF Valid, ThemeSet
  <2>. HIDE DEF v
  <2>. QED BY <2>1, <2>2 DEF Config
<1>3. CASE l \in Keyed("autorefresh", {0}, [{1} -> Int])
  <2>1. Taking(c, l) = [c EXCEPT !.refresh = IF v \in Valid.autorefresh THEN v ELSE 3]
    BY <1>3, Zenon DEF Taking, Keyed
  <2>2. Valid.autorefresh = RefreshSet /\ 3 \in RefreshSet
    BY DEF Valid, RefreshSet
  <2>. HIDE DEF v
  <2>. QED BY <2>1, <2>2 DEF Config
<1>4. CASE l \in Keyed("custom", Slots, Colour)
  <2>. DEFINE w == [c.colors EXCEPT ![l.slot] = l.numbers]
  <2>1. Taking(c, l) = [c EXCEPT !.colors = w]
    BY <1>4, Zenon DEF Taking, Keyed
  <2>2. w \in Palette
    <3>1. c.colors \in [Slots -> Colour]
      BY DEF Config, Palette
    <3>2. l.slot \in Slots /\ l.numbers \in Colour
      BY <1>4 DEF Keyed
    <3>. QED BY <3>1, <3>2 DEF Palette
  <2>. HIDE DEF w
  <2>. QED BY <2>1, <2>2 DEF Config
<1>5. CASE l \in Keyed("temp_alert_millic", {0}, [{1} -> TempLevels])
  <2>1. Taking(c, l) = [c EXCEPT !.temp = v]
    BY <1>5, Zenon DEF Taking, Keyed
  <2>2. v \in TempLevels
    BY <1>5 DEF Keyed
  <2>. HIDE DEF v
  <2>. QED BY <2>1, <2>2 DEF Config
<1>6. CASE l \in Keyed("mem_alert_frac", {0}, [{1} -> MemLevels])
  <2>1. Taking(c, l) = [c EXCEPT !.mem = v]
    BY <1>6, Zenon DEF Taking, Keyed
  <2>2. v \in MemLevels
    BY <1>6 DEF Keyed
  <2>. HIDE DEF v
  <2>. QED BY <2>1, <2>2 DEF Config
<1>7. CASE l \in Keyed("cpu_scale_target", {0}, [{1} -> Int])
  <2>1. Taking(c, l) = [c EXCEPT !.cpu = v]
    BY <1>7, Zenon DEF Taking, Keyed
  <2>2. v \in Int
    BY <1>7 DEF Keyed
  <2>. HIDE DEF v
  <2>. QED BY <2>1, <2>2 DEF Config
<1>8. CASE l \in Keyed("gpu_scale_target", {0}, [{1} -> Int])
  <2>1. Taking(c, l) = [c EXCEPT !.gpu = v]
    BY <1>8, Zenon DEF Taking, Keyed
  <2>2. v \in Int
    BY <1>8 DEF Keyed
  <2>. HIDE DEF v
  <2>. QED BY <2>1, <2>2 DEF Config
<1>. QED
  BY <1>1, <1>2, <1>3, <1>4, <1>5, <1>6, <1>7, <1>8, Zenon DEF Written

\* So does a whole file of such lines.
LEMMA LoadedConfig ==
  ASSUME NEW f \in Seq(Written)
  PROVE  Loaded(f) \in Config
<1>1. PICK h : /\ h[0] = Defaults
               /\ \A n \in 1..Len(f) : h[n] = Taking(h[n - 1], f[n])
               /\ Loaded(f) = h[Len(f)]
  BY LoadedSteps
<1>. DEFINE Bad == {n \in Nat : n <= Len(f) /\ h[n] \notin Config}
<1>2. Bad = {}
  <2>1. SUFFICES ASSUME Bad # {} PROVE FALSE
    OBVIOUS
  <2>2. PICK n \in Bad : \A m \in Bad : n <= m
    <3>1. Bad \in SUBSET Nat
      OBVIOUS
    <3>. HIDE DEF Bad
    <3>. QED BY <2>1, <3>1, Least
  <2>3. n # 0
    BY <1>1, <2>2, DefaultsConfig
  <2>4. n - 1 \in Nat /\ n \in 1..Len(f) /\ Len(f) \in Nat
    BY <2>2, <2>3
  <2>5. h[n - 1] \in Config
    <3>1. n - 1 \notin Bad
      <4>1. ~(n <= n - 1)
        BY <2>4
      <4>. HIDE DEF Bad
      <4>. QED BY <2>2, <4>1
    <3>. QED BY <2>4, <3>1
  <2>6. h[n] \in Config
    BY <1>1, <2>4, <2>5, TakingConfig
  <2>. QED BY <2>2, <2>6
<1>. QED
  <2>1. Len(f) \in Nat /\ Len(f) <= Len(f)
    OBVIOUS
  <2>. QED BY <1>1, <1>2, <2>1

\* The parts of two sequences that are put behind each other.
LEMMA Joined ==
  ASSUME NEW S, NEW s \in Seq(S), NEW t \in Seq(S)
  PROVE  /\ s \o t \in Seq(S) /\ Len(s \o t) = Len(s) + Len(t)
         /\ \A i \in 1..Len(s) + Len(t) : (s \o t)[i] = IF i <= Len(s) THEN s[i] ELSE t[i - Len(s)]
OBVIOUS

\* A line with one number.
LEMMA SingleLine ==
  ASSUME NEW key, NEW S, NEW v \in S
  PROVE  Line(key, v) \in Keyed(key, {0}, [{1} -> S])
<1>1. <<v>> \in [{1} -> S]
  <2>1. DOMAIN <<v>> = {1}
    OBVIOUS
  <2>2. <<v>>[1] \in S
    OBVIOUS
  <2>3. <<v>> = [i \in {1} |-> v]
    OBVIOUS
  <2>. QED BY <2>3
<1>. QED
  BY <1>1 DEF Line, Keyed

\* Which line of the file is which.
LEMMA LinesAre ==
  ASSUME NEW c \in Config
  PROVE  LET N == Len(CustomColors) IN
         /\ Lines(c) \in Seq(Written) /\ Len(Lines(c)) = N + 7
         /\ Lines(c)[1] = Line("language", c.lang)
         /\ Lines(c)[2] = Line("theme", c.theme)
         /\ Lines(c)[3] = Line("autorefresh", c.refresh)
         /\ \A i \in 1..N : Lines(c)[3 + i] = [key |-> "custom", slot |-> i, numbers |-> c.colors[i]]
         /\ Lines(c)[N + 4] = Line("temp_alert_millic", c.temp)
         /\ Lines(c)[N + 5] = Line("mem_alert_frac", c.mem)
         /\ Lines(c)[N + 6] = Line("cpu_scale_target", c.cpu)
         /\ Lines(c)[N + 7] = Line("gpu_scale_target", c.gpu)
<1>. DEFINE N == Len(CustomColors)
            l1 == Line("language", c.lang)
            l2 == Line("theme", c.theme)
            l3 == Line("autorefresh", c.refresh)
            colour(i) == [key |-> "custom", slot |-> i, numbers |-> c.colors[i]]
            l4 == Line("temp_alert_millic", c.temp)
            l5 == Line("mem_alert_frac", c.mem)
            l6 == Line("cpu_scale_target", c.cpu)
            l7 == Line("gpu_scale_target", c.gpu)
            first == <<l1, l2, l3>>
            mid   == [i \in 1..N |-> colour(i)]
            last  == <<l4, l5, l6, l7>>
<1>1. /\ c.lang \in Int /\ c.theme \in Int /\ c.refresh \in Int /\ c.colors \in Palette
      /\ c.temp \in TempLevels /\ c.mem \in MemLevels /\ c.cpu \in Int /\ c.gpu \in Int
  <2>1. /\ c.lang \in LanguageSet /\ c.theme \in ThemeSet /\ c.refresh \in RefreshSet /\ c.colors \in Palette
        /\ c.temp \in TempLevels /\ c.mem \in MemLevels /\ c.cpu \in Int /\ c.gpu \in Int
    BY DEF Config
  <2>2. LanguageSet \subseteq Int /\ ThemeSet \subseteq Int /\ RefreshSet \subseteq Int
    BY SettingsAssumption DEF LanguageSet, ThemeSet, RefreshSet
  <2>. QED BY <2>1, <2>2
<1>2. N \in Nat /\ Slots = 1..N /\ DOMAIN c.colors = 1..N /\ \A i \in 1..N : c.colors[i] \in Colour
  BY <1>1, SlotsAre DEF Palette
<1>3. l1 \in Written /\ l2 \in Written /\ l3 \in Written
  BY <1>1, SingleLine, Zenon DEF Written
<1>4. l4 \in Written /\ l5 \in Written /\ l6 \in Written /\ l7 \in Written
  BY <1>1, SingleLine, Zenon DEF Written
<1>5. \A i \in 1..N : colour(i) \in Written
  <2>1. ASSUME NEW i \in 1..N PROVE colour(i) \in Keyed("custom", Slots, Colour)
    BY <1>2, <2>1 DEF Keyed
  <2>. HIDE DEF colour
  <2>. QED BY <2>1 DEF Written
<1>6. Lines(c) = (first \o mid) \o last
  BY <1>2, Zenon DEF Lines
<1>. HIDE DEF l1, l2, l3, l4, l5, l6, l7, colour
<1>7. first \in Seq(Written) /\ Len(first) = 3 /\ first[1] = l1 /\ first[2] = l2 /\ first[3] = l3
  BY <1>3
<1>8. last \in Seq(Written) /\ Len(last) = 4 /\ last[1] = l4 /\ last[2] = l5 /\ last[3] = l6 /\ last[4] = l7
  BY <1>4
<1>9. mid \in Seq(Written) /\ Len(mid) = N /\ \A i \in 1..N : mid[i] = colour(i)
  <2>. HIDE DEF N
  <2>. QED BY <1>2, <1>5
<1>. HIDE DEF first, mid, last
<1>10. /\ first \o mid \in Seq(Written) /\ Len(first \o mid) = 3 + N
       /\ \A i \in 1..3 + N : (first \o mid)[i] = IF i <= 3 THEN first[i] ELSE mid[i - 3]
  <2>0. first \in Seq(Written) /\ mid \in Seq(Written)
    BY <1>7, <1>9
  <2>1. /\ first \o mid \in Seq(Written) /\ Len(first \o mid) = Len(first) + Len(mid)
        /\ \A i \in 1..Len(first) + Len(mid) :
             (first \o mid)[i] = IF i <= Len(first) THEN first[i] ELSE mid[i - Len(first)]
    BY <2>0, Joined, Zenon
  <2>. QED BY <1>7, <1>9, <2>1, Zenon
<1>11. /\ Lines(c) \in Seq(Written) /\ Len(Lines(c)) = N + 7
       /\ \A i \in 1..N + 7 : Lines(c)[i] = IF i <= 3 + N THEN (first \o mid)[i] ELSE last[i - (3 + N)]
  <2>1. (3 + N) + 4 = N + 7
    BY <1>2
  <2>. DEFINE most == first \o mid
  <2>2. most \in Seq(Written) /\ Len(most) = 3 + N
    BY <1>10
  <2>. HIDE DEF most
  <2>0. most \in Seq(Written) /\ last \in Seq(Written)
    BY <1>8, <2>2
  <2>3. /\ most \o last \in Seq(Written) /\ Len(most \o last) = Len(most) + Len(last)
        /\ \A i \in 1..Len(most) + Len(last) :
             (most \o last)[i] = IF i <= Len(most) THEN most[i] ELSE last[i - Len(most)]
    BY <2>0, Joined, Zenon
  <2>4. /\ most \o last \in Seq(Written) /\ Len(most \o last) = N + 7
        /\ \A i \in 1..N + 7 : (most \o last)[i] = IF i <= 3 + N THEN most[i] ELSE last[i - (3 + N)]
    BY <1>8, <2>1, <2>2, <2>3, Zenon
  <2>. QED BY <1>6, <2>4, Zenon DEF most
<1>. HIDE DEF N
<1>12. Lines(c)[1] = l1 /\ Lines(c)[2] = l2 /\ Lines(c)[3] = l3
  <2>1. ASSUME NEW k \in 1..3 PROVE Lines(c)[k] = first[k]
    <3>1. k \in 1..N + 7 /\ k <= 3 + N /\ k \in 1..3 + N /\ k <= 3
      BY <1>2
    <3>2. Lines(c)[k] = (first \o mid)[k]
      BY <1>11, <3>1, Zenon
    <3>. QED BY <1>10, <3>1, <3>2, Zenon
  <2>. QED BY <1>7, <2>1
<1>13. \A i \in 1..N : Lines(c)[3 + i] = colour(i)
  <2>1. ASSUME NEW i \in 1..N PROVE Lines(c)[3 + i] = colour(i)
    <3>1. 3 + i \in 1..N + 7 /\ 3 + i <= 3 + N /\ 3 + i \in 1..3 + N /\ ~(3 + i <= 3) /\ (3 + i) - 3 = i
      BY <1>2
    <3>. QED BY <1>9, <1>10, <1>11, <3>1
  <2>. QED BY <2>1
<1>14. Lines(c)[N + 4] = l4 /\ Lines(c)[N + 5] = l5 /\ Lines(c)[N + 6] = l6 /\ Lines(c)[N + 7] = l7
  <2>1. ASSUME NEW k \in 1..4 PROVE Lines(c)[N + 3 + k] = last[k]
    <3>1. N + 3 + k \in 1..N + 7 /\ ~(N + 3 + k <= 3 + N) /\ (N + 3 + k) - (3 + N) = k
      BY <1>2
    <3>. QED BY <1>11, <3>1
  <2>2. N + 3 + 1 = N + 4 /\ N + 3 + 2 = N + 5 /\ N + 3 + 3 = N + 6 /\ N + 3 + 4 = N + 7
    BY <1>2
  <2>. QED BY <1>8, <2>1, <2>2
<1>. QED
  BY <1>11, <1>12, <1>13, <1>14 DEF N, l1, l2, l3, l4, l5, l6, l7, colour

\* What the settings are, spelt out.
Rec(lang, theme, refresh, colors, temp, mem, cpu, gpu) ==
  [lang |-> lang, theme |-> theme, refresh |-> refresh, colors |-> colors,
   temp |-> temp, mem |-> mem, cpu |-> cpu, gpu |-> gpu]

\* The key and the number of such a line.
LEMMA Named ==
  ASSUME NEW key, NEW v
  PROVE  Line(key, v).key = key /\ Line(key, v).numbers[1] = v
BY DEF Line

\* Taking the line of the language back.
LEMMA TakesLanguage ==
  ASSUME NEW l, NEW t, NEW r, NEW k, NEW a, NEW m, NEW p, NEW g, NEW v \in LanguageSet
  PROVE  Taking(Rec(l, t, r, k, a, m, p, g), Line("language", v)) = Rec(v, t, r, k, a, m, p, g)
<1>. DEFINE x == Line("language", v)
            c == Rec(l, t, r, k, a, m, p, g)
<1>1. x.key = "language" /\ x.numbers[1] = v
  BY Named
<1>. HIDE DEF x
<1>2. Taking(c, x) = [c EXCEPT !.lang = v]
  BY <1>1, Takes
<1>3. [c EXCEPT !.lang = v] = Rec(v, t, r, k, a, m, p, g)
  BY DEF Rec
<1>. QED
  BY <1>2, <1>3 DEF x

\* Taking the line of the theme back.
LEMMA TakesTheme ==
  ASSUME NEW l, NEW t, NEW r, NEW k, NEW a, NEW m, NEW p, NEW g, NEW v \in ThemeSet
  PROVE  Taking(Rec(l, t, r, k, a, m, p, g), Line("theme", v)) = Rec(l, v, r, k, a, m, p, g)
<1>. DEFINE x == Line("theme", v)
            c == Rec(l, t, r, k, a, m, p, g)
<1>1. x.key = "theme" /\ x.numbers[1] = v
  BY Named
<1>. HIDE DEF x
<1>2. Taking(c, x) = [c EXCEPT !.theme = v]
  BY <1>1, Takes
<1>3. [c EXCEPT !.theme = v] = Rec(l, v, r, k, a, m, p, g)
  BY DEF Rec
<1>. QED
  BY <1>2, <1>3 DEF x

\* Taking the line of the interval back.
LEMMA TakesRefresh ==
  ASSUME NEW l, NEW t, NEW r, NEW k, NEW a, NEW m, NEW p, NEW g, NEW v \in RefreshSet
  PROVE  Taking(Rec(l, t, r, k, a, m, p, g), Line("autorefresh", v)) = Rec(l, t, v, k, a, m, p, g)
<1>. DEFINE x == Line("autorefresh", v)
            c == Rec(l, t, r, k, a, m, p, g)
<1>1. x.key = "autorefresh" /\ x.numbers[1] = v
  BY Named
<1>. HIDE DEF x
<1>2. Taking(c, x) = [c EXCEPT !.refresh = v]
  BY <1>1, Takes
<1>3. [c EXCEPT !.refresh = v] = Rec(l, t, v, k, a, m, p, g)
  BY DEF Rec
<1>. QED
  BY <1>2, <1>3 DEF x

\* Taking the line of the temperature back.
LEMMA TakesTemp ==
  ASSUME NEW l, NEW t, NEW r, NEW k, NEW a, NEW m, NEW p, NEW g, NEW v
  PROVE  Taking(Rec(l, t, r, k, a, m, p, g), Line("temp_alert_millic", v)) = Rec(l, t, r, k, v, m, p, g)
<1>. DEFINE x == Line("temp_alert_millic", v)
            c == Rec(l, t, r, k, a, m, p, g)
<1>1. x.key = "temp_alert_millic" /\ x.numbers[1] = v
  BY Named
<1>. HIDE DEF x
<1>2. Taking(c, x) = [c EXCEPT !.temp = v]
  BY <1>1, Takes
<1>3. [c EXCEPT !.temp = v] = Rec(l, t, r, k, v, m, p, g)
  BY DEF Rec
<1>. QED
  BY <1>2, <1>3 DEF x

\* Taking the line of the memory's share back.
LEMMA TakesMem ==
  ASSUME NEW l, NEW t, NEW r, NEW k, NEW a, NEW m, NEW p, NEW g, NEW v
  PROVE  Taking(Rec(l, t, r, k, a, m, p, g), Line("mem_alert_frac", v)) = Rec(l, t, r, k, a, v, p, g)
<1>. DEFINE x == Line("mem_alert_frac", v)
            c == Rec(l, t, r, k, a, m, p, g)
<1>1. x.key = "mem_alert_frac" /\ x.numbers[1] = v
  BY Named
<1>. HIDE DEF x
<1>2. Taking(c, x) = [c EXCEPT !.mem = v]
  BY <1>1, Takes
<1>3. [c EXCEPT !.mem = v] = Rec(l, t, r, k, a, v, p, g)
  BY DEF Rec
<1>. QED
  BY <1>2, <1>3 DEF x

\* Taking the line of the CPU's target back.
LEMMA TakesCpu ==
  ASSUME NEW l, NEW t, NEW r, NEW k, NEW a, NEW m, NEW p, NEW g, NEW v
  PROVE  Taking(Rec(l, t, r, k, a, m, p, g), Line("cpu_scale_target", v)) = Rec(l, t, r, k, a, m, v, g)
<1>. DEFINE x == Line("cpu_scale_target", v)
            c == Rec(l, t, r, k, a, m, p, g)
<1>1. x.key = "cpu_scale_target" /\ x.numbers[1] = v
  BY Named
<1>. HIDE DEF x
<1>2. Taking(c, x) = [c EXCEPT !.cpu = v]
  BY <1>1, Takes
<1>3. [c EXCEPT !.cpu = v] = Rec(l, t, r, k, a, m, v, g)
  BY DEF Rec
<1>. QED
  BY <1>2, <1>3 DEF x

\* Taking the line of the GPU's target back.
LEMMA TakesGpu ==
  ASSUME NEW l, NEW t, NEW r, NEW k, NEW a, NEW m, NEW p, NEW g, NEW v
  PROVE  Taking(Rec(l, t, r, k, a, m, p, g), Line("gpu_scale_target", v)) = Rec(l, t, r, k, a, m, p, v)
<1>. DEFINE x == Line("gpu_scale_target", v)
            c == Rec(l, t, r, k, a, m, p, g)
<1>1. x.key = "gpu_scale_target" /\ x.numbers[1] = v
  BY Named
<1>. HIDE DEF x
<1>2. Taking(c, x) = [c EXCEPT !.gpu = v]
  BY <1>1, Takes
<1>3. [c EXCEPT !.gpu = v] = Rec(l, t, r, k, a, m, p, v)
  BY DEF Rec
<1>. QED
  BY <1>2, <1>3 DEF x

\* Taking the line of one colour.
LEMMA TakesColour ==
  ASSUME NEW c, NEW l, l.key = "custom"
  PROVE  Taking(c, l) = [c EXCEPT !.colors = [c.colors EXCEPT ![l.slot] = l.numbers]]
BY Zenon DEF Taking

\* What save_config writes is what load_config reads: by induction over the lines, through Least.
THEOREM ConfigReadsBack ==
  ASSUME NEW c \in Config
  PROVE  Loaded(Lines(c)) = c
<1>. DEFINE N == Len(CustomColors)
            f == Lines(c)
            d == Defaults
            Mixed(i) == [j \in Slots |-> IF j <= i THEN c.colors[j] ELSE CustomColors[j]]
            At(i) == Rec(c.lang, c.theme, c.refresh, Mixed(i), d.temp, d.mem, d.cpu, d.gpu)
<1>1. N \in Nat /\ Slots = 1..N /\ CustomColors \in [Slots -> Colour]
  BY SlotsAre
<1>2. /\ c.lang \in LanguageSet /\ c.theme \in ThemeSet /\ c.refresh \in RefreshSet
      /\ c.colors \in [Slots -> Colour]
      /\ c = Rec(c.lang, c.theme, c.refresh, c.colors, c.temp, c.mem, c.cpu, c.gpu)
  <2>1. /\ c.lang \in LanguageSet /\ c.theme \in ThemeSet /\ c.refresh \in RefreshSet /\ c.colors \in Palette
        /\ c = Rec(c.lang, c.theme, c.refresh, c.colors, c.temp, c.mem, c.cpu, c.gpu)
    BY DEF Config, Rec
  <2>. QED BY <2>1 DEF Palette
<1>3. f \in Seq(Written) /\ Len(f) = N + 7
  BY LinesAre
<1>4. PICK h : /\ h[0] = Defaults
               /\ \A n \in 1..N + 7 : h[n] = Taking(h[n - 1], f[n])
               /\ Loaded(f) = h[N + 7]
  <2>1. DOMAIN f = 1..Len(f) /\ Len(f) \in Nat
    BY <1>3
  <2>2. \E h : /\ h[0] = Defaults
               /\ \A n \in 1..Len(f) : h[n] = Taking(h[n - 1], f[n])
               /\ Loaded(f) = h[Len(f)]
    BY <2>1, LoadedSteps
  <2>. QED BY <1>3, <2>2
<1>5. h[0] = Rec(d.lang, d.theme, d.refresh, CustomColors, d.temp, d.mem, d.cpu, d.gpu)
  <2>1. Defaults = Rec(d.lang, d.theme, d.refresh, CustomColors, d.temp, d.mem, d.cpu, d.gpu)
    BY DEF Defaults, Rec
  <2>. QED BY <1>4, <2>1
<1>. HIDE DEF d
<1>6. h[1] = Rec(c.lang, d.theme, d.refresh, CustomColors, d.temp, d.mem, d.cpu, d.gpu)
  <2>1. 1 \in 1..N + 7 /\ 1 - 1 = 0 /\ f[1] = Line("language", c.lang)
    BY <1>1, LinesAre
  <2>2. h[1] = Taking(h[0], Line("language", c.lang))
    BY <1>4, <2>1
  <2>. QED BY <1>2, <1>5, <2>2, TakesLanguage
<1>7. h[2] = Rec(c.lang, c.theme, d.refresh, CustomColors, d.temp, d.mem, d.cpu, d.gpu)
  <2>1. 2 \in 1..N + 7 /\ 2 - 1 = 1 /\ f[2] = Line("theme", c.theme)
    BY <1>1, LinesAre
  <2>2. h[2] = Taking(h[1], Line("theme", c.theme))
    BY <1>4, <2>1
  <2>. QED BY <1>2, <1>6, <2>2, TakesTheme
<1>8. h[3] = At(0)
  <2>1. 3 \in 1..N + 7 /\ 3 - 1 = 2 /\ f[3] = Line("autorefresh", c.refresh)
    BY <1>1, LinesAre
  <2>2. h[3] = Taking(h[2], Line("autorefresh", c.refresh))
    BY <1>4, <2>1
  <2>3. h[3] = Rec(c.lang, c.theme, c.refresh, CustomColors, d.temp, d.mem, d.cpu, d.gpu)
    BY <1>2, <1>7, <2>2, TakesRefresh
  <2>4. Mixed(0) = CustomColors
    BY <1>1
  <2>. QED BY <2>3, <2>4
<1>9. ASSUME NEW i \in 1..N, h[3 + (i - 1)] = At(i - 1)
      PROVE  h[3 + i] = At(i)
  <2>. DEFINE l == [key |-> "custom", slot |-> i, numbers |-> c.colors[i]]
  <2>1. h[3 + i] = Taking(h[3 + (i - 1)], l)
    <3>1. 3 + i \in 1..N + 7 /\ (3 + i) - 1 = 3 + (i - 1)
      BY <1>1
    <3>2. f[3 + i] = l
      BY LinesAre
    <3>. QED BY <1>4, <3>1, <3>2
  <2>2. l.key = "custom" /\ l.slot = i /\ l.numbers = c.colors[i]
    OBVIOUS
  <2>. HIDE DEF l
  <2>3. Taking(h[3 + (i - 1)], l) =
          [h[3 + (i - 1)] EXCEPT !.colors = [(h[3 + (i - 1)]).colors EXCEPT ![i] = c.colors[i]]]
    BY <2>2, TakesColour
  <2>4. [Mixed(i - 1) EXCEPT ![i] = c.colors[i]] = Mixed(i)
    <3>1. \A j \in Slots : j <= i <=> j <= i - 1 \/ j = i
      BY <1>1
    <3>2. i \in Slots
      BY <1>1
    <3>. QED BY <3>1, <3>2
  <2>. HIDE DEF Mixed
  <2>5. (At(i - 1)).colors = Mixed(i - 1) /\ [At(i - 1) EXCEPT !.colors = Mixed(i)] = At(i)
    BY DEF Rec
  <2>. HIDE DEF At
  <2>. QED BY <1>9, <2>1, <2>3, <2>4, <2>5
<1>10. h[N + 3] = At(N)
  <2>. DEFINE Bad == {i \in Nat : i <= N /\ h[3 + i] # At(i)}
  <2>1. Bad = {}
    <3>1. SUFFICES ASSUME Bad # {} PROVE FALSE
      OBVIOUS
    <3>2. PICK i \in Bad : \A j \in Bad : i <= j
      <4>1. Bad \in SUBSET Nat
        OBVIOUS
      <4>. HIDE DEF Bad
      <4>. QED BY <3>1, <4>1, Least
    <3>. HIDE DEF At
    <3>3. i # 0
      BY <1>8, <3>2
    <3>4. i \in 1..N /\ i - 1 \in Nat /\ i - 1 <= N
      BY <1>1, <3>2, <3>3
    <3>5. i - 1 \notin Bad
      <4>1. ~(i <= i - 1)
        BY <3>4
      <4>. HIDE DEF Bad
      <4>. QED BY <3>2, <4>1
    <3>6. h[3 + i] = At(i)
      BY <1>9, <3>4, <3>5
    <3>. QED BY <3>2, <3>6
  <2>. HIDE DEF At
  <2>2. h[3 + N] = At(N) /\ 3 + N = N + 3
    BY <1>1, <2>1
  <2>. QED BY <2>2
<1>11. At(N) = Rec(c.lang, c.theme, c.refresh, c.colors, d.temp, d.mem, d.cpu, d.gpu)
  <2>1. Mixed(N) = c.colors
    BY <1>1, <1>2
  <2>. HIDE DEF Mixed
  <2>. QED BY <2>1
<1>. HIDE DEF At
<1>12. h[N + 4] = Rec(c.lang, c.theme, c.refresh, c.colors, c.temp, d.mem, d.cpu, d.gpu)
  <2>1. N + 4 \in 1..N + 7 /\ (N + 4) - 1 = N + 3 /\ f[N + 4] = Line("temp_alert_millic", c.temp)
    BY <1>1, LinesAre
  <2>2. h[N + 4] = Taking(h[N + 3], Line("temp_alert_millic", c.temp))
    BY <1>4, <2>1
  <2>. QED BY <1>10, <1>11, <2>2, TakesTemp
<1>13. h[N + 5] = Rec(c.lang, c.theme, c.refresh, c.colors, c.temp, c.mem, d.cpu, d.gpu)
  <2>1. N + 5 \in 1..N + 7 /\ (N + 5) - 1 = N + 4 /\ f[N + 5] = Line("mem_alert_frac", c.mem)
    BY <1>1, LinesAre
  <2>2. h[N + 5] = Taking(h[N + 4], Line("mem_alert_frac", c.mem))
    BY <1>4, <2>1
  <2>. QED BY <1>12, <2>2, TakesMem
<1>14. h[N + 6] = Rec(c.lang, c.theme, c.refresh, c.colors, c.temp, c.mem, c.cpu, d.gpu)
  <2>1. N + 6 \in 1..N + 7 /\ (N + 6) - 1 = N + 5 /\ f[N + 6] = Line("cpu_scale_target", c.cpu)
    BY <1>1, LinesAre
  <2>2. h[N + 6] = Taking(h[N + 5], Line("cpu_scale_target", c.cpu))
    BY <1>4, <2>1
  <2>. QED BY <1>13, <2>2, TakesCpu
<1>15. h[N + 7] = Rec(c.lang, c.theme, c.refresh, c.colors, c.temp, c.mem, c.cpu, c.gpu)
  <2>1. N + 7 \in 1..N + 7 /\ (N + 7) - 1 = N + 6 /\ f[N + 7] = Line("gpu_scale_target", c.gpu)
    BY <1>1, LinesAre
  <2>2. h[N + 7] = Taking(h[N + 6], Line("gpu_scale_target", c.gpu))
    BY <1>4, <2>1
  <2>. QED BY <1>14, <2>2, TakesGpu
<1>. QED
  BY <1>2, <1>4, <1>15

\* A sequence whose last number is another one.
LEMMA LastReplaced ==
  ASSUME NEW S, NEW n \in Nat \ {0}, NEW s \in [1..n -> S], NEW v \in S
  PROVE  Append(Front(s), v) \in [1..n -> S] /\ Last(s) \in S
<1>1. s \in Seq(S) /\ Len(s) = n
  OBVIOUS
<1>2. Front(s) \in Seq(S) /\ Len(Front(s)) = n - 1
  <2>1. \A i \in 1..n - 1 : s[i] \in S
    OBVIOUS
  <2>. QED BY <1>1, <2>1, SubSeqProperties DEF Front
<1>3. Append(Front(s), v) \in Seq(S) /\ Len(Append(Front(s), v)) = n
  BY <1>2
<1>4. Append(Front(s), v) \in [1..n -> S]
  <2>. DEFINE t == Append(Front(s), v)
  <2>1. t \in [1..Len(t) -> S]
    BY <1>3, LenProperties
  <2>. HIDE DEF t
  <2>2. Len(t) = n
    BY <1>3 DEF t
  <2>. QED BY <2>1, <2>2 DEF t
<1>5. Last(s) \in S
  BY <1>1 DEF Last
<1>. QED
  BY <1>4, <1>5

\* The same of a single number.
LEMMA OneReplaced ==
  ASSUME NEW S, NEW s \in [{1} -> S], NEW v \in S
  PROVE  Append(Front(s), v) \in [{1} -> S] /\ Last(s) \in S
<1>1. {1} = 1..1
  OBVIOUS
<1>2. s \in [1..1 -> S] /\ 1 \in Nat \ {0}
  BY <1>1
<1>3. Append(Front(s), v) \in [1..1 -> S] /\ Last(s) \in S
  BY <1>2, LastReplaced, Zenon
<1>. QED
  BY <1>1, <1>3

\* A number that was cut short is a number.
LEMMA HeadsInt ==
  ASSUME NEW key, NEW v \in Int, key # "mem_alert_frac"
  PROVE  Heads(key, v) \subseteq Int
BY DEF Heads

\* It is none above the one that was meant.
LEMMA HeadsNat ==
  ASSUME NEW key, NEW n \in Nat, NEW v \in 0..n, key # "mem_alert_frac"
  PROVE  Heads(key, v) \subseteq 0..n
<1>1. v \div 10 \in 0..n /\ v \div 100 \in 0..n /\ v \div 1000 \in 0..n /\ v \div 10000 \in 0..n
  OBVIOUS
<1>. QED
  BY <1>1 DEF Heads

\* The share of memory that was cut short is a multiple of five hundredths still.
LEMMA HeadsMem ==
  ASSUME NEW v \in MemLevels
  PROVE  Heads("mem_alert_frac", v) \subseteq MemLevels
<1>1. v \in 0..95 /\ (v \div 10) * 10 \in 0..95 /\ ((v \div 10) * 10) % 5 = 0
  BY DEF MemLevels
<1>2. 0 \in MemLevels /\ (v \div 10) * 10 \in MemLevels
  BY <1>1 DEF MemLevels
<1>. QED
  BY <1>2 DEF Heads

\* A line that was cut short is one load_config can take.
LEMMA CutLine ==
  ASSUME NEW l \in Written, NEW v \in Heads(l.key, Last(l.numbers))
  PROVE  [l EXCEPT !.numbers = Append(Front(@), v)] \in Written
<1>. DEFINE cut == Append(Front(l.numbers), v)
            m == [l EXCEPT !.numbers = cut]
<1>1. ASSUME NEW key, NEW slots, NEW numbers, l \in Keyed(key, slots, numbers), cut \in numbers
      PROVE  m \in Keyed(key, slots, numbers)
  <2>. HIDE DEF cut
  <2>. QED BY <1>1 DEF Keyed
<1>2. ASSUME NEW key, NEW slots, NEW S, l \in Keyed(key, slots, [{1} -> S]), Heads(key, Last(l.numbers)) \subseteq S
      PROVE  m \in Keyed(key, slots, [{1} -> S])
  <2>1. l.key = key /\ l.numbers \in [{1} -> S]
    BY <1>2 DEF Keyed
  <2>2. v \in S
    BY <1>2, <2>1
  <2>3. cut \in [{1} -> S]
    BY <2>1, <2>2, OneReplaced
  <2>. QED BY <1>1, <1>2, <2>3
<1>3. ASSUME NEW key, NEW slots, NEW numbers, l \in Keyed(key, slots, numbers)
      PROVE  l.key = key /\ l.numbers \in numbers
  BY <1>3 DEF Keyed
<1>. HIDE DEF m, cut
<1>4. ASSUME NEW key, key # "mem_alert_frac", l \in Keyed(key, {0}, [{1} -> Int])
      PROVE  m \in Keyed(key, {0}, [{1} -> Int])
  <2>1. Last(l.numbers) \in Int
    <3>1. l.numbers \in [{1} -> Int] /\ 0 \in Int
      BY <1>3, <1>4
    <3>. QED BY <3>1, OneReplaced
  <2>2. Heads(key, Last(l.numbers)) \subseteq Int
    BY <1>4, <2>1, HeadsInt
  <2>. QED BY <1>2, <1>4, <2>2
<1>5. CASE l \in Keyed("temp_alert_millic", {0}, [{1} -> TempLevels])
  <2>1. Last(l.numbers) \in TempLevels
    <3>1. l.numbers \in [{1} -> TempLevels] /\ 0 \in TempLevels
      BY <1>3, <1>5, HottestIs DEF TempLevels
    <3>. QED BY <3>1, OneReplaced
  <2>2. Heads("temp_alert_millic", Last(l.numbers)) \subseteq TempLevels
    BY <2>1, HeadsNat, HottestIs DEF TempLevels
  <2>3. m \in Keyed("temp_alert_millic", {0}, [{1} -> TempLevels])
    BY <1>2, <1>5, <2>2
  <2>. QED BY <2>3, Zenon DEF Written, m, cut
<1>6. CASE l \in Keyed("mem_alert_frac", {0}, [{1} -> MemLevels])
  <2>1. Last(l.numbers) \in MemLevels
    <3>1. l.numbers \in [{1} -> MemLevels] /\ 0 \in MemLevels
      BY <1>3, <1>6 DEF MemLevels
    <3>. QED BY <3>1, OneReplaced
  <2>2. Heads("mem_alert_frac", Last(l.numbers)) \subseteq MemLevels
    BY <2>1, HeadsMem
  <2>3. m \in Keyed("mem_alert_frac", {0}, [{1} -> MemLevels])
    BY <1>2, <1>6, <2>2
  <2>. QED BY <2>3, Zenon DEF Written, m, cut
<1>7. CASE l \in Keyed("custom", Slots, Colour)
  <2>1. l.key = "custom" /\ l.numbers \in [1..3 -> 0..255]
    BY <1>3, <1>7 DEF Colour
  <2>0. 3 \in Nat \ {0} /\ 0 \in 0..255 /\ 255 \in Nat
    OBVIOUS
  <2>2. Last(l.numbers) \in 0..255
    BY <2>0, <2>1, LastReplaced, Zenon
  <2>3. v \in 0..255
    <3>1. Heads("custom", Last(l.numbers)) \subseteq 0..255
      BY <2>0, <2>2, HeadsNat
    <3>. QED BY <2>1, <3>1
  <2>4. cut \in Colour
    BY ZenonT(40), <2>0, <2>1, <2>3, LastReplaced DEF Colour, cut
  <2>5. m \in Keyed("custom", Slots, Colour)
    BY <1>1, <1>7, <2>4
  <2>. QED BY <2>5, Zenon DEF Written, m, cut
<1>8. CASE l \in Keyed("language", {0}, [{1} -> Int])
  BY <1>4, <1>8, Zenon DEF Written, m, cut
<1>9. CASE l \in Keyed("theme", {0}, [{1} -> Int])
  BY <1>4, <1>9, Zenon DEF Written, m, cut
<1>10. CASE l \in Keyed("autorefresh", {0}, [{1} -> Int])
  BY <1>4, <1>10, Zenon DEF Written, m, cut
<1>11. CASE l \in Keyed("cpu_scale_target", {0}, [{1} -> Int])
  BY <1>4, <1>11, Zenon DEF Written, m, cut
<1>12. CASE l \in Keyed("gpu_scale_target", {0}, [{1} -> Int])
  BY <1>4, <1>12, Zenon DEF Written, m, cut
<1>. QED
  BY <1>5, <1>6, <1>7, <1>8, <1>9, <1>10, <1>11, <1>12, Zenon DEF Written

\* So is every line of a file whose write failed on the way.
LEMMA CutFile ==
  ASSUME NEW ls \in Seq(Written), NEW f \in CutShort(ls)
  PROVE  f \in Seq(Written)
<1>. DEFINE N == Len(ls)
<1>1. N \in Nat /\ \A i \in 1..N : ls[i] \in Written
  OBVIOUS
<1>2. ASSUME NEW n \in 0..N PROVE SubSeq(ls, 1, n) \in Seq(Written)
  <2>1. n \in Int /\ 1 \in Int /\ \A i \in 1..n : ls[i] \in Written
    BY <1>1
  <2>. QED BY <2>1, SubSeqProperties
<1>3. CASE \E n \in 0..N - 1 : f = SubSeq(ls, 1, n)
  <2>1. PICK n \in 0..N - 1 : f = SubSeq(ls, 1, n)
    BY <1>3
  <2>2. n \in 0..N
    BY <1>1
  <2>. QED BY <1>2, <2>1, <2>2
<1>4. CASE \E n \in 1..N : \E v \in Heads(ls[n].key, Last(ls[n].numbers)) :
             f = Append(SubSeq(ls, 1, n - 1), [ls[n] EXCEPT !.numbers = Append(Front(@), v)])
  <2>0. PICK n \in 1..N : \E v \in Heads(ls[n].key, Last(ls[n].numbers)) :
               f = Append(SubSeq(ls, 1, n - 1), [ls[n] EXCEPT !.numbers = Append(Front(@), v)])
    BY <1>4, Zenon
  <2>1. PICK v \in Heads(ls[n].key, Last(ls[n].numbers)) :
               f = Append(SubSeq(ls, 1, n - 1), [ls[n] EXCEPT !.numbers = Append(Front(@), v)])
    BY <2>0, Zenon
  <2>. DEFINE m == [ls[n] EXCEPT !.numbers = Append(Front(@), v)]
  <2>2. m \in Written
    BY <1>1, CutLine
  <2>. HIDE DEF m
  <2>3. SubSeq(ls, 1, n - 1) \in Seq(Written)
    <3>1. n - 1 \in 0..N
      BY <1>1
    <3>. QED BY <1>2, <3>1
  <2>4. f = Append(SubSeq(ls, 1, n - 1), m)
    BY <2>1, Zenon DEF m
  <2>. QED BY <2>2, <2>3, <2>4
<1>. QED
  BY <1>3, <1>4, Zenon DEF CutShort

TutorialSteps == 0..4
Tutorials     == [active : BOOLEAN, step : TutorialSteps, done : BOOLEAN, failed : BOOLEAN]

SettingsType ==
  /\ cfg \in Config /\ want \in Config /\ file \in Seq(Written)
  /\ sure \in [config : BOOLEAN, tuto : BOOLEAN] /\ beneath \subseteq {"saved", "reopened"}
  /\ tutorial \in Tutorials

EditorType ==
  /\ editor \in [open : BOOLEAN, slot : Slots, chan : 1..3, backup : Palette \cup {<<>>}]
  /\ editor.open => editor.backup \in Palette

EditorPlace == editor.open => used \in {"settings", "tutorial"} /\ cur = SettingsPage

BackupKeeps == editor.open /\ "reopened" \notin beneath => editor.backup = want.colors

ConfigKeeps ==
  sure.config => /\ [Loaded(file) EXCEPT !.colors = <<>>] = [want EXCEPT !.colors = <<>>]
                 /\ beneath = {} => Loaded(file).colors = want.colors
TutorialKeeps == sure.tuto => (tutorial.done <=> tuto = "true")

\* Other colours change nothing else of the settings.
LEMMA Recolour ==
  ASSUME NEW c \in Config, NEW k
  PROVE  /\ [[c EXCEPT !.colors = k] EXCEPT !.colors = <<>>] = [c EXCEPT !.colors = <<>>]
         /\ [c EXCEPT !.colors = k].colors = k
         /\ k \in Palette => [c EXCEPT !.colors = k] \in Config
<1>1. [[c EXCEPT !.colors = k] EXCEPT !.colors = <<>>] = [c EXCEPT !.colors = <<>>]
  BY DEF Config
<1>2. [c EXCEPT !.colors = k].colors = k
  BY DEF Config
<1>3. k \in Palette => [c EXCEPT !.colors = k] \in Config
  BY DEF Config
<1>. QED
  BY <1>1, <1>2, <1>3

\* save_config leaves a file that can be taken, and the settings in it if nothing failed.
LEMMA SaveConfigKeeps ==
  ASSUME SettingsType, NEW c \in Config, SaveConfig(c)
  PROVE  /\ file' \in Seq(Written) /\ sure' \in [config : BOOLEAN, tuto : BOOLEAN]
         /\ sure'.tuto = sure.tuto
         /\ sure'.config => Loaded(file') = c
<1>1. CASE file' = Lines(c) /\ sure' = [sure EXCEPT !.config = TRUE]
  <2>1. file' \in Seq(Written) /\ Loaded(file') = c
    BY <1>1, LinesAre, ConfigReadsBack
  <2>2. sure' \in [config : BOOLEAN, tuto : BOOLEAN] /\ sure'.tuto = sure.tuto
    BY <1>1 DEF SettingsType
  <2>. QED BY <2>1, <2>2
<1>2. CASE file' \in CutShort(Lines(c)) \cup {file} /\ sure' = [sure EXCEPT !.config = FALSE]
  <2>1. file' \in Seq(Written)
    BY <1>2, LinesAre, CutFile DEF SettingsType
  <2>2. sure' \in [config : BOOLEAN, tuto : BOOLEAN] /\ sure'.tuto = sure.tuto /\ sure'.config = FALSE
    BY <1>2 DEF SettingsType
  <2>. QED BY <2>1, <2>2
<1>. QED
  BY <1>1, <1>2 DEF SaveConfig

\* What a control's touch leaves of the settings' part of the invariant.
SettingsInv == /\ SettingsType /\ EditorType /\ EditorUndone /\ BackupKeeps /\ ConfigKeeps /\ TutorialKeeps

\* A control that changes a setting and saves.
LEMMA ConfirmKeeps ==
  ASSUME SettingsInv, NEW c \in Config, NEW drawn, Confirm(c, drawn), UNCHANGED editor,
         ~editor.open => drawn = ShownAs(c) /\ c.colors = cfg.colors
  PROVE  SettingsInv'
<1>1. /\ cfg' = c /\ shown' = drawn /\ want' = [c EXCEPT !.colors = want.colors] /\ SaveConfig(c)
      /\ beneath' = IF editor.open THEN beneath \cup {"saved"} ELSE beneath \ {"saved"}
      /\ tutorial' = tutorial /\ tuto' = tuto
  BY Zenon DEF Confirm
<1>2. /\ file' \in Seq(Written) /\ sure' \in [config : BOOLEAN, tuto : BOOLEAN]
      /\ sure'.tuto = sure.tuto /\ (sure'.config => Loaded(file') = c)
  BY <1>1, SaveConfigKeeps, Zenon DEF SettingsInv
<1>3. want.colors \in Palette
  BY DEF SettingsInv, SettingsType, Config
<1>4. want' \in Config /\ want'.colors = want.colors
  BY <1>1, <1>3, Recolour
<1>5. SettingsType'
  <2>1. beneath' \subseteq {"saved", "reopened"}
    BY <1>1 DEF SettingsInv, SettingsType
  <2>. QED BY <1>1, <1>2, <1>4, <2>1, Zenon DEF SettingsInv, SettingsType
<1>6. EditorType'
  BY Zenon DEF SettingsInv, EditorType
<1>7. EditorUndone'
  <2>1. SUFFICES ASSUME ~editor.open PROVE shown' = ShownAs(cfg)' /\ ("reopened" \notin beneath' => cfg'.colors = want'.colors)
    BY Zenon DEF EditorUndone
  <2>2. shown' = ShownAs(cfg)'
    BY <1>1, <2>1, Zenon DEF ShownAs
  <2>3. "reopened" \notin beneath' => cfg.colors = want.colors
    BY <1>1, <2>1 DEF SettingsInv, EditorUndone
  <2>. QED BY <1>1, <1>4, <2>1, <2>2, <2>3, Zenon
<1>8. BackupKeeps'
  <2>1. "reopened" \notin beneath' => "reopened" \notin beneath
    BY <1>1
  <2>. QED BY <1>4, <2>1, Zenon DEF SettingsInv, BackupKeeps
<1>9. ConfigKeeps'
  <2>1. SUFFICES ASSUME sure'.config PROVE /\ [c EXCEPT !.colors = <<>>] = [want' EXCEPT !.colors = <<>>]
                                           /\ beneath' = {} => c.colors = want.colors
    BY <1>2, <1>4, Zenon DEF ConfigKeeps
  <2>2. [c EXCEPT !.colors = <<>>] = [want' EXCEPT !.colors = <<>>]
    BY <1>1, Recolour, Zenon
  <2>3. beneath' = {} => ~editor.open /\ "reopened" \notin beneath
    BY <1>1
  <2>. QED BY <2>2, <2>3, Zenon DEF SettingsInv, EditorUndone
<1>10. TutorialKeeps'
  BY <1>1, <1>2, Zenon DEF SettingsInv, TutorialKeeps
<1>. QED
  BY <1>5, <1>6, <1>7, <1>8, <1>9, <1>10, Zenon DEF SettingsInv

\* A restart, with whatever is in the two files.
LEMMA StartKeeps ==
  ASSUME SettingsInv, Restart
  PROVE  SettingsInv' /\ ~editor'.open /\ sel' = 0
<1>1. /\ cfg' = Loaded(file) /\ shown' = ShownAs(cfg') /\ sel' = 0 /\ editor' = ClosedEditor
      /\ file' = file /\ want' = cfg' /\ beneath' = {}
      /\ tutorial' = [active |-> tuto # "true", step |-> 0, done |-> tuto = "true", failed |-> ~sure'.tuto]
  BY Zenon DEF Restart, Start
<1>2. \/ tuto' = tuto /\ tuto \in {"true", "false"} /\ sure' = [config |-> TRUE, tuto |-> TRUE]
      \/ tuto' = "false" /\ tuto \notin {"true", "false"} /\ sure' = [config |-> TRUE, tuto |-> TRUE]
      \/ sure' = [config |-> TRUE, tuto |-> FALSE]
  BY Zenon DEF Restart, Start
<1>3. cfg' \in Config
  BY <1>1, LoadedConfig DEF SettingsInv, SettingsType
<1>4. sure' \in [config : BOOLEAN, tuto : BOOLEAN]
  <2>1. /\ [config |-> TRUE, tuto |-> TRUE] \in [config : BOOLEAN, tuto : BOOLEAN]
        /\ [config |-> TRUE, tuto |-> FALSE] \in [config : BOOLEAN, tuto : BOOLEAN]
    OBVIOUS
  <2>. QED BY <1>2, <2>1, Zenon
<1>5. SettingsType'
  <2>1. tutorial' \in Tutorials
    <3>1. sure'.tuto \in BOOLEAN
      BY <1>4
    <3>2. (tuto # "true") \in BOOLEAN /\ (tuto = "true") \in BOOLEAN /\ (~sure'.tuto) \in BOOLEAN
      OBVIOUS
    <3>3. 0 \in TutorialSteps
      BY DEF TutorialSteps
    <3>. QED BY <1>1, <3>2, <3>3 DEF Tutorials
  <2>. QED BY <1>1, <1>3, <1>4, <2>1 DEF SettingsInv, SettingsType
<1>6. EditorType' /\ ~editor'.open
  BY <1>1, SlotsAre DEF EditorType, ClosedEditor
<1>7. EditorUndone'
  BY <1>1, <1>6, Zenon DEF EditorUndone, ShownAs
<1>8. BackupKeeps'
  BY <1>6, Zenon DEF BackupKeeps
<1>9. ConfigKeeps'
  BY <1>1, Zenon DEF ConfigKeeps
<1>10. TutorialKeeps'
  <2>1. tutorial'.done <=> tuto = "true"
    BY <1>1
  <2>. QED BY <1>2, <2>1 DEF TutorialKeeps
<1>. QED
  BY <1>1, <1>5, <1>6, <1>7, <1>8, <1>9, <1>10, Zenon DEF SettingsInv

\* A step left or right leaves the selected setting in range, and the colours alone.
LEMMA AlteredConfig ==
  ASSUME cfg \in Config, NEW s \in 0..4, NEW step \in {-1, 1}
  PROVE  /\ Altered(s, step) \in Config /\ Altered(s, step).colors = cfg.colors
         /\ s # 1 => Altered(s, step).theme = cfg.theme
<1>1. CASE s = 0
  <2>. DEFINE v == (cfg.lang + step) % Languages
  <2>1. v \in LanguageSet
    <3>1. cfg.lang + step \in Int /\ Languages \in Nat /\ Languages > 0
      BY SettingsAssumption DEF Config, LanguageSet
    <3>. QED BY <3>1 DEF LanguageSet
  <2>2. Altered(s, step) = [cfg EXCEPT !.lang = v]
    BY <1>1 DEF Altered
  <2>. HIDE DEF v
  <2>. QED BY <2>1, <2>2, <1>1 DEF Config
<1>2. CASE s = 1
  <2>. DEFINE v == (cfg.theme + step) % Themes
  <2>1. v \in ThemeSet
    <3>1. cfg.theme + step \in Int /\ Themes \in Nat /\ Themes > 0
      BY SettingsAssumption DEF Config, ThemeSet
    <3>. QED BY <3>1 DEF ThemeSet
  <2>2. Altered(s, step) = [cfg EXCEPT !.theme = v]
    BY <1>2 DEF Altered
  <2>. HIDE DEF v
  <2>. QED BY <2>1, <2>2, <1>2 DEF Config
<1>3. CASE s = 2
  <2>. DEFINE v == Next5(cfg.refresh, step)
  <2>1. v \in RefreshSet
    <3>. DEFINE i == IF \E k \in 1..5 : Intervals[k] = cfg.refresh
                     THEN CHOOSE k \in 1..5 : Intervals[k] = cfg.refresh ELSE 1
                n == ((i - 1 + step) % 5) + 1
    <3>1. i \in 1..5
      OBVIOUS
    <3>2. n \in 1..5
      <4>. HIDE DEF i
      <4>. QED BY <3>1
    <3>3. v = Intervals[n]
      BY DEF Next5
    <3>. HIDE DEF n
    <3>. QED BY <3>2, <3>3 DEF Intervals, RefreshSet
  <2>2. Altered(s, step) = [cfg EXCEPT !.refresh = v]
    BY <1>3 DEF Altered
  <2>. HIDE DEF v
  <2>. QED BY <2>1, <2>2, <1>3 DEF Config
<1>4. CASE s = 3
  <2>. DEFINE v == Stepped(cfg.temp, step, 5000, 30000, 90000)
  <2>1. v \in TempLevels
    <3>1. cfg.temp \in Int /\ 0 <= cfg.temp /\ cfg.temp <= Hottest
      BY HottestIs DEF Config, TempLevels
    <3>2. v \in Int /\ 0 <= v /\ v <= Hottest
      BY <3>1, HottestIs DEF Stepped
    <3>. HIDE DEF v
    <3>. QED BY <3>2, HottestIs DEF TempLevels
  <2>2. Altered(s, step) = [cfg EXCEPT !.temp = v]
    BY <1>4, SMT DEF Altered
  <2>. HIDE DEF v
  <2>. QED BY <2>1, <2>2, <1>4 DEF Config
<1>5. CASE s = 4
  <2>. DEFINE v == Stepped(cfg.mem, step, 5, 50, 95)
  <2>1. v \in MemLevels
    <3>1. cfg.mem \in 0..95 /\ cfg.mem % 5 = 0
      BY DEF Config, MemLevels
    <3>2. v \in 0..95 /\ v % 5 = 0
      BY <3>1 DEF Stepped
    <3>. HIDE DEF v
    <3>. QED BY <3>2 DEF MemLevels
  <2>2. Altered(s, step) = [cfg EXCEPT !.mem = v]
    BY <1>5 DEF Altered
  <2>. HIDE DEF v
  <2>. QED BY <2>1, <2>2, <1>5 DEF Config
<1>. QED
  BY <1>1, <1>2, <1>3, <1>4, <1>5

Places3 == [open : BOOLEAN, slot : Slots, chan : 1..3, backup : Palette \cup {<<>>}]

\* A step that changes none of it.
LEMMA SettingsSame ==
  ASSUME SettingsInv, UNCHANGED <<cfg, shown, editor, file, tutorial, tuto, want, sure, beneath>>
  PROVE  SettingsInv'
<1>1. SettingsType'
  BY Zenon DEF SettingsInv, SettingsType
<1>2. EditorType' /\ BackupKeeps'
  BY Zenon DEF SettingsInv, EditorType, BackupKeeps
<1>3. EditorUndone'
  BY Zenon DEF SettingsInv, EditorUndone, ShownAs
<1>4. ConfigKeeps' /\ TutorialKeeps'
  BY Zenon DEF SettingsInv, ConfigKeeps, TutorialKeeps
<1>. QED
  BY <1>1, <1>2, <1>3, <1>4, Zenon DEF SettingsInv

\* The open editor tries colours, or another place or channel.
LEMMA TriedKeeps ==
  ASSUME SettingsInv, editor.open, NEW k \in Palette, NEW slot \in Slots, NEW chan \in 1..3,
         cfg' = [cfg EXCEPT !.colors = k], editor' = [editor EXCEPT !.slot = slot, !.chan = chan],
         UNCHANGED <<file, tutorial, tuto, want, sure, beneath>>
  PROVE  SettingsInv' /\ editor'.open
<1>1. editor \in Places3 /\ editor.backup \in Palette
  BY DEF SettingsInv, EditorType, Places3
<1>2. editor' \in Places3 /\ editor'.open = editor.open /\ editor'.backup = editor.backup
  BY <1>1 DEF Places3
<1>3. cfg' \in Config
  BY Recolour DEF SettingsInv, SettingsType
<1>4. SettingsType'
  BY <1>3, Zenon DEF SettingsInv, SettingsType
<1>5. EditorType' /\ BackupKeeps'
  BY <1>1, <1>2, Zenon DEF SettingsInv, EditorType, BackupKeeps, Places3
<1>6. EditorUndone'
  BY <1>2, Zenon DEF EditorUndone
<1>7. ConfigKeeps' /\ TutorialKeeps'
  BY Zenon DEF SettingsInv, ConfigKeeps, TutorialKeeps
<1>. QED
  BY <1>2, <1>4, <1>5, <1>6, <1>7, Zenon DEF SettingsInv

\* What is open to the editor.
LEMMA ColoursAre ==
  ASSUME SettingsInv
  PROVE  /\ cfg \in Config /\ cfg.colors \in Palette /\ DOMAIN cfg.colors = Slots /\ Len(cfg.colors) \in Nat \ {0}
         /\ Slots = 1..Len(cfg.colors) /\ editor.slot \in Slots /\ editor.chan \in 1..3
         /\ \A i \in Slots : cfg.colors[i] \in [1..3 -> 0..255]
         /\ cfg = [cfg EXCEPT !.colors = cfg.colors]
<1>1. cfg \in Config /\ cfg.colors \in Palette /\ cfg = [cfg EXCEPT !.colors = cfg.colors]
  BY DEF SettingsInv, SettingsType, Config
<1>2. cfg.colors \in [1..Len(CustomColors) -> Colour] /\ Slots = 1..Len(CustomColors) /\ Len(CustomColors) \in Nat \ {0}
  BY <1>1, SlotsAre DEF Palette
<1>3. Len(cfg.colors) = Len(CustomColors)
  BY <1>2
<1>4. editor.slot \in Slots /\ editor.chan \in 1..3
  BY DEF SettingsInv, EditorType
<1>. QED
  BY <1>1, <1>2, <1>3, <1>4 DEF Colour

\* An editor in which nothing is chosen anew.
LEMMA SameEditor ==
  ASSUME SettingsInv
  PROVE  editor = [editor EXCEPT !.slot = editor.slot, !.chan = editor.chan]
<1>1. editor \in Places3
  BY DEF SettingsInv, EditorType, Places3
<1>. QED
  BY <1>1 DEF Places3

\* A colour or a channel is chosen.
LEMMA ChooseKeeps ==
  ASSUME SettingsInv, NEW slot \in Slots, NEW chan \in 1..3, Choose(slot, chan)
  PROVE  SettingsInv' /\ editor'.open /\ sel' = sel /\ cur = SettingsPage
<1>1. /\ editor.open /\ cur = SettingsPage /\ editor' = [editor EXCEPT !.slot = slot, !.chan = chan] /\ cfg' = cfg
      /\ UNCHANGED <<sel, file, tutorial, tuto, want, sure, beneath>>
  BY Zenon DEF Choose, Editing, NotSaved, AtPage
<1>2. cfg' = [cfg EXCEPT !.colors = cfg.colors] /\ cfg.colors \in Palette
  BY <1>1, ColoursAre, Zenon
<1>. QED
  BY <1>1, <1>2, TriedKeeps, Zenon

\* ZL and ZR.
LEMMA NudgeKeeps ==
  ASSUME SettingsInv, NEW step \in {-1, 1}, Nudge(step)
  PROVE  SettingsInv' /\ editor'.open /\ sel' = sel /\ cur = SettingsPage
<1>. DEFINE slot == editor.slot
            chan == editor.chan
            was == cfg.colors[slot][chan]
            level == IF step < 0 THEN IF was >= 5 THEN was - 5 ELSE 0 ELSE IF was <= 250 THEN was + 5 ELSE 255
            k == [cfg.colors EXCEPT ![slot] = [cfg.colors[slot] EXCEPT ![chan] = level]]
<1>1. /\ editor.open /\ cur = SettingsPage /\ cfg' = [cfg EXCEPT !.colors = k]
      /\ UNCHANGED <<editor, sel, file, tutorial, tuto, want, sure, beneath>>
  BY Zenon DEF Nudge, Editing, NotSaved, AtPage
<1>2. slot \in Slots /\ chan \in 1..3 /\ cfg.colors[slot] \in [1..3 -> 0..255] /\ cfg.colors \in Palette
  BY ColoursAre, Zenon
<1>3. level \in 0..255
  <2>1. was \in 0..255
    BY <1>2
  <2>. HIDE DEF was
  <2>. QED BY <2>1
<1>. HIDE DEF level
<1>4. k \in Palette
  <2>1. [cfg.colors[slot] EXCEPT ![chan] = level] \in Colour
    BY <1>2, <1>3 DEF Colour
  <2>. QED BY SMTT(40), <1>2, <2>1 DEF Palette
<1>. HIDE DEF k
<1>5. editor' = [editor EXCEPT !.slot = slot, !.chan = chan]
  BY <1>1, SameEditor, Zenon
<1>. HIDE DEF slot, chan
<1>. QED
  BY <1>1, <1>2, <1>4, <1>5, TriedKeeps, Zenon

\* A touch of a slider.
LEMMA SlideKeeps ==
  ASSUME SettingsInv, NEW chan \in 1..3, NEW level \in 0..255, Slide(chan, level)
  PROVE  SettingsInv' /\ editor'.open /\ sel' = sel /\ cur = SettingsPage
<1>. DEFINE slot == editor.slot
            k == [cfg.colors EXCEPT ![slot] = [cfg.colors[slot] EXCEPT ![chan] = level]]
<1>1. /\ editor.open /\ cur = SettingsPage /\ cfg' = [cfg EXCEPT !.colors = k]
      /\ editor' = [editor EXCEPT !.chan = chan]
      /\ UNCHANGED <<sel, file, tutorial, tuto, want, sure, beneath>>
  BY Zenon DEF Slide, Editing, NotSaved, AtPage
<1>2. slot \in Slots /\ cfg.colors[slot] \in [1..3 -> 0..255] /\ cfg.colors \in Palette
  BY ColoursAre, Zenon
<1>3. k \in Palette
  <2>1. [cfg.colors[slot] EXCEPT ![chan] = level] \in Colour
    BY <1>2 DEF Colour
  <2>. QED BY SMTT(40), <1>2, <2>1 DEF Palette
<1>. HIDE DEF k
<1>4. editor' = [editor EXCEPT !.slot = slot, !.chan = chan]
  <2>1. editor \in Places3
    BY DEF SettingsInv, EditorType, Places3
  <2>. QED BY <1>1, <2>1 DEF Places3
<1>. HIDE DEF slot
<1>. QED
  BY <1>1, <1>2, <1>3, <1>4, TriedKeeps, Zenon

\* apply_custom_theme_palette.
LEMMA PaletteKeeps ==
  ASSUME SettingsInv, NEW i \in DOMAIN Palettes, UsePalette(i)
  PROVE  SettingsInv' /\ editor'.open /\ sel' = sel /\ cur = SettingsPage
<1>1. /\ editor.open /\ cur = SettingsPage /\ cfg' = [cfg EXCEPT !.colors = Palettes[i]]
      /\ UNCHANGED <<editor, sel, file, tutorial, tuto, want, sure, beneath>>
  BY Zenon DEF UsePalette, Editing, NotSaved, AtPage
<1>2. Palettes[i] \in Palette
  BY SettingsAssumption DEF Palette, Slots
<1>3. editor' = [editor EXCEPT !.slot = editor.slot, !.chan = editor.chan]
  BY <1>1, SameEditor, Zenon
<1>. QED
  BY <1>1, <1>2, <1>3, ColoursAre, TriedKeeps, Zenon

\* Save: the colours become the ones the user wants.
LEMMA SaveEditorKeeps ==
  ASSUME SettingsInv, SaveEditor
  PROVE  SettingsInv' /\ ~editor'.open /\ sel' = sel
<1>1. /\ editor.open /\ editor' = [editor EXCEPT !.open = FALSE] /\ shown' = ShownAs(cfg) /\ want' = cfg
      /\ SaveConfig(cfg) /\ beneath' = {} /\ UNCHANGED <<cfg, sel, tutorial, tuto>>
  BY Zenon DEF SaveEditor, Editing
<1>2. cfg \in Config /\ SettingsType
  BY DEF SettingsInv, SettingsType
<1>3. /\ file' \in Seq(Written) /\ sure' \in [config : BOOLEAN, tuto : BOOLEAN]
      /\ sure'.tuto = sure.tuto /\ (sure'.config => Loaded(file') = cfg)
  BY <1>1, <1>2, SaveConfigKeeps, Zenon
<1>4. editor' \in Places3 /\ ~editor'.open
  <2>1. editor \in Places3
    BY DEF SettingsInv, EditorType, Places3
  <2>. QED BY <1>1, <2>1 DEF Places3
<1>5. SettingsType'
  <2>1. beneath' \subseteq {"saved", "reopened"}
    BY <1>1
  <2>. QED BY <1>1, <1>2, <1>3, <2>1, Zenon DEF SettingsType
<1>6. EditorType' /\ BackupKeeps'
  BY <1>4, Zenon DEF EditorType, BackupKeeps, Places3
<1>7. EditorUndone'
  BY <1>1, Zenon DEF EditorUndone, ShownAs
<1>8. ConfigKeeps'
  BY <1>1, <1>3, Zenon DEF ConfigKeeps
<1>9. TutorialKeeps'
  BY <1>1, <1>3, Zenon DEF SettingsInv, TutorialKeeps
<1>. QED
  BY <1>1, <1>4, <1>5, <1>6, <1>7, <1>8, <1>9, Zenon DEF SettingsInv

\* Cancel: the backup is what the user wants, unless the button was touched beneath.
LEMMA CancelEditorKeeps ==
  ASSUME SettingsInv, CancelEditor
  PROVE  SettingsInv' /\ ~editor'.open /\ sel' = sel
<1>1. /\ editor.open /\ editor' = [editor EXCEPT !.open = FALSE] /\ cfg' = [cfg EXCEPT !.colors = editor.backup]
      /\ shown' = ShownAs(cfg') /\ UNCHANGED <<sel, file, tutorial, tuto, want, sure, beneath>>
  BY Zenon DEF CancelEditor, Editing, NotSaved
<1>2. cfg \in Config /\ SettingsType /\ editor.backup \in Palette
  BY <1>1 DEF SettingsInv, SettingsType, EditorType
<1>3. cfg' \in Config /\ cfg'.colors = editor.backup
  BY <1>1, <1>2, Recolour
<1>4. editor' \in Places3 /\ ~editor'.open
  <2>1. editor \in Places3
    BY DEF SettingsInv, EditorType, Places3
  <2>. QED BY <1>1, <2>1 DEF Places3
<1>5. SettingsType'
  BY <1>1, <1>2, <1>3, Zenon DEF SettingsType
<1>6. EditorType' /\ BackupKeeps'
  BY <1>4, Zenon DEF EditorType, BackupKeeps, Places3
<1>7. EditorUndone'
  <2>1. shown' = ShownAs(cfg)'
    BY <1>1, Zenon DEF ShownAs
  <2>. QED BY <1>1, <1>3, <2>1, Zenon DEF EditorUndone, SettingsInv, BackupKeeps
<1>8. ConfigKeeps' /\ TutorialKeeps'
  BY <1>1, Zenon DEF SettingsInv, ConfigKeeps, TutorialKeeps
<1>. QED
  BY <1>1, <1>4, <1>5, <1>6, <1>7, <1>8, Zenon DEF SettingsInv

\* The editor's button: the colours as they are become the backup.
LEMMA TouchEditorKeeps ==
  ASSUME SettingsInv, TouchEditor
  PROVE  SettingsInv' /\ sel' = sel /\ cur = SettingsPage
<1>1. /\ cur = SettingsPage /\ editor' = [editor EXCEPT !.open = TRUE, !.backup = cfg.colors]
      /\ beneath' = (IF editor.open THEN beneath \cup {"reopened"} ELSE beneath)
      /\ UNCHANGED <<cfg, shown, sel, file, tutorial, tuto, want, sure>>
  BY Zenon DEF TouchEditor, AtPage
<1>2. cfg.colors \in Palette
  BY ColoursAre
<1>3. editor' \in Places3 /\ editor'.open /\ editor'.backup = cfg.colors
  <2>1. editor \in Places3
    BY DEF SettingsInv, EditorType, Places3
  <2>. QED BY <1>1, <1>2, <2>1 DEF Places3
<1>4. SettingsType'
  <2>1. beneath' \subseteq {"saved", "reopened"}
    BY <1>1 DEF SettingsInv, SettingsType
  <2>. QED BY <1>1, <2>1, Zenon DEF SettingsInv, SettingsType
<1>5. EditorType' /\ EditorUndone'
  BY <1>2, <1>3, Zenon DEF EditorType, EditorUndone, Places3
<1>6. BackupKeeps'
  <2>1. "reopened" \notin beneath' => ~editor.open /\ beneath' = beneath
    BY <1>1
  <2>. QED BY <1>1, <1>3, <2>1, Zenon DEF SettingsInv, EditorUndone, BackupKeeps
<1>7. ConfigKeeps' /\ TutorialKeeps'
  <2>1. beneath' = {} => beneath = {}
    BY <1>1
  <2>. QED BY <1>1, <2>1, Zenon DEF SettingsInv, ConfigKeeps, TutorialKeeps
<1>. QED
  BY <1>1, <1>4, <1>5, <1>6, <1>7, Zenon DEF SettingsInv

\* The tutorial, and its file.
LEMMA TutorialStepKeeps ==
  ASSUME SettingsInv, tutorial' \in Tutorials,
         sure' \in [config : BOOLEAN, tuto : BOOLEAN], sure'.config = sure.config,
         sure'.tuto => (tutorial'.done <=> tuto' = "true"),
         UNCHANGED <<cfg, shown, editor, file, want, beneath>>
  PROVE  SettingsInv'
<1>2. SettingsType'
  BY Zenon DEF SettingsInv, SettingsType
<1>3. EditorType' /\ BackupKeeps'
  BY Zenon DEF SettingsInv, EditorType, BackupKeeps
<1>4. EditorUndone'
  BY Zenon DEF SettingsInv, EditorUndone, ShownAs
<1>5. ConfigKeeps' /\ TutorialKeeps'
  BY Zenon DEF SettingsInv, ConfigKeeps, TutorialKeeps
<1>. QED
  BY <1>2, <1>3, <1>4, <1>5, Zenon DEF SettingsInv

\* The tutorial has a step.
LEMMA TutorialIs ==
  ASSUME SettingsInv
  PROVE  tutorial \in Tutorials /\ tutorial.step \in TutorialSteps
BY DEF SettingsInv, SettingsType, Tutorials

\* Another step of the tutorial.
LEMMA StepToKeeps ==
  ASSUME SettingsInv, NEW n \in TutorialSteps, StepTo(n),
         UNCHANGED <<cfg, shown, editor, file, want, beneath>>
  PROVE  SettingsInv'
<1>1. tutorial' = [tutorial EXCEPT !.step = n] /\ tuto' = tuto /\ sure' = sure
  BY Zenon DEF StepTo
<1>2. tutorial' \in Tutorials /\ tutorial'.done = tutorial.done
  BY <1>1, TutorialIs DEF Tutorials
<1>3. sure' \in [config : BOOLEAN, tuto : BOOLEAN] /\ sure'.config = sure.config
      /\ (sure'.tuto => (tutorial'.done <=> tuto' = "true"))
  BY <1>1, <1>2, Zenon DEF SettingsInv, SettingsType, TutorialKeeps
<1>. QED
  BY <1>2, <1>3, TutorialStepKeeps, Zenon

\* tutorial_finish, which may fail.
LEMMA FinishKeeps ==
  ASSUME SettingsInv, Finish, UNCHANGED <<cfg, shown, editor, file, want, beneath>>
  PROVE  SettingsInv'
<1>1. /\ \/ tuto' = "true" /\ sure' = [sure EXCEPT !.tuto = TRUE]
         \/ sure' = [sure EXCEPT !.tuto = FALSE]
      /\ tutorial' = IF sure'.tuto THEN [tutorial EXCEPT !.done = TRUE, !.active = FALSE, !.failed = FALSE]
                     ELSE [tutorial EXCEPT !.failed = TRUE]
  BY Zenon DEF Finish, SaveState
<1>2. sure \in [config : BOOLEAN, tuto : BOOLEAN]
  BY DEF SettingsInv, SettingsType
<1>3. CASE tuto' = "true" /\ sure' = [sure EXCEPT !.tuto = TRUE]
  <2>1. sure' \in [config : BOOLEAN, tuto : BOOLEAN] /\ sure'.config = sure.config /\ sure'.tuto
    BY <1>2, <1>3
  <2>2. tutorial' = [tutorial EXCEPT !.done = TRUE, !.active = FALSE, !.failed = FALSE]
    BY <1>1, <2>1, Zenon
  <2>3. tutorial' \in Tutorials /\ tutorial'.done
    BY <2>2, TutorialIs DEF Tutorials
  <2>. QED BY <1>3, <2>1, <2>3, TutorialStepKeeps, Zenon
<1>4. CASE sure' = [sure EXCEPT !.tuto = FALSE]
  <2>1. sure' \in [config : BOOLEAN, tuto : BOOLEAN] /\ sure'.config = sure.config /\ ~sure'.tuto
    BY <1>2, <1>4
  <2>2. tutorial' = [tutorial EXCEPT !.failed = TRUE]
    BY <1>1, <2>1, Zenon
  <2>3. tutorial' \in Tutorials
    BY <2>2, TutorialIs DEF Tutorials
  <2>. QED BY <2>1, <2>3, TutorialStepKeeps, Zenon
<1>. QED
  BY <1>1, <1>3, <1>4, Zenon

\* The keys of the tutorial.
LEMMA TutorialInputKeeps ==
  ASSUME SettingsInv, TutorialInput
  PROVE  SettingsInv' /\ sel' = sel /\ editor' = editor
<1>1. UNCHANGED <<cfg, shown, editor, file, want, beneath>> /\ sel' = sel
  BY Zenon DEF TutorialInput
<1>2. \/ tutorial.step < 4 /\ StepTo(tutorial.step + 1)
      \/ tutorial.step > 0 /\ StepTo(tutorial.step - 1)
      \/ Finish
  BY Zenon DEF TutorialInput, Later, Earlier, Leave
<1>3. tutorial.step \in TutorialSteps
  BY TutorialIs
<1>4. CASE tutorial.step < 4 /\ StepTo(tutorial.step + 1)
  <2>1. tutorial.step + 1 \in TutorialSteps
    BY <1>3, <1>4 DEF TutorialSteps
  <2>. QED BY <1>1, <1>4, <2>1, StepToKeeps, Zenon
<1>5. CASE tutorial.step > 0 /\ StepTo(tutorial.step - 1)
  <2>1. tutorial.step - 1 \in TutorialSteps
    BY <1>3, <1>5 DEF TutorialSteps
  <2>. QED BY <1>1, <1>5, <2>1, StepToKeeps, Zenon
<1>6. CASE Finish
  BY <1>1, <1>6, FinishKeeps, Zenon
<1>. QED
  BY <1>1, <1>2, <1>4, <1>5, <1>6, Zenon

\* The button that starts it.
LEMMA TouchTutorialKeeps ==
  ASSUME SettingsInv, TouchTutorial
  PROVE  SettingsInv' /\ sel' = sel /\ editor' = editor
<1>1. tutorial' = [tutorial EXCEPT !.active = TRUE, !.step = 0, !.failed = FALSE]
      /\ UNCHANGED <<cfg, shown, sel, editor, file, tuto, want, sure, beneath>>
  BY Zenon DEF TouchTutorial
<1>2. 0 \in TutorialSteps
  BY DEF TutorialSteps
<1>3. tutorial' \in Tutorials /\ tutorial'.done = tutorial.done
  BY <1>1, <1>2, TutorialIs DEF Tutorials
<1>4. sure' \in [config : BOOLEAN, tuto : BOOLEAN] /\ sure'.config = sure.config
      /\ (sure'.tuto => (tutorial'.done <=> tuto' = "true"))
  BY <1>1, <1>3, Zenon DEF SettingsInv, SettingsType, TutorialKeeps
<1>. QED
  BY <1>1, <1>3, <1>4, TutorialStepKeeps, Zenon

\* The page's settings by key and by touch.
LEMMA ChangeKeyKeeps ==
  ASSUME SettingsInv, sel \in 0..4, NEW step \in {-1, 1}, ChangeKey(step)
  PROVE  SettingsInv' /\ sel' = sel /\ editor' = editor
<1>. DEFINE c == Altered(sel, step)
            drawn == IF sel = 1 THEN ShownAs(Altered(1, step)) ELSE shown
<1>1. ~editor.open /\ Confirm(c, drawn) /\ sel' = sel /\ editor' = editor
  BY Zenon DEF ChangeKey
<1>2. cfg \in Config /\ shown = ShownAs(cfg)
  BY <1>1, Zenon DEF SettingsInv, SettingsType, EditorUndone
<1>3. c \in Config /\ c.colors = cfg.colors /\ (sel # 1 => c.theme = cfg.theme)
  BY <1>2, AlteredConfig, Zenon
<1>4. drawn = ShownAs(c)
  BY <1>2, <1>3, Zenon DEF ShownAs
<1>. HIDE DEF c, drawn
<1>. QED
  BY <1>1, <1>3, <1>4, ConfirmKeeps, Zenon

\* Up and Down.
LEMMA SelectKeyKeeps ==
  ASSUME SettingsInv, sel \in 0..4, NEW step \in {-1, 1}, SelectKey(step)
  PROVE  SettingsInv' /\ sel' \in 0..4 /\ editor' = editor
<1>1. sel' = (sel + step) % 5 /\ UNCHANGED <<cfg, shown, editor, file, tutorial, tuto, want, sure, beneath>>
  BY Zenon DEF SelectKey
<1>2. sel' \in 0..4
  BY <1>1
<1>. QED
  BY <1>1, <1>2, SettingsSame, Zenon

\* A language is touched.
LEMMA TouchLanguageKeeps ==
  ASSUME SettingsInv, NEW l \in 0..Languages - 1, TouchLanguage(l)
  PROVE  SettingsInv' /\ sel' = sel /\ editor' = editor
<1>. DEFINE c == [cfg EXCEPT !.lang = l]
<1>1. Confirm(c, shown) /\ sel' = sel /\ editor' = editor
  BY Zenon DEF TouchLanguage
<1>2. cfg \in Config /\ l \in LanguageSet
  BY DEF SettingsInv, SettingsType, LanguageSet
<1>3. c \in Config /\ c.colors = cfg.colors /\ c.theme = cfg.theme
  BY <1>2 DEF Config
<1>4. ~editor.open => shown = ShownAs(c)
  BY <1>3, Zenon DEF SettingsInv, EditorUndone, ShownAs
<1>. HIDE DEF c
<1>. QED
  BY <1>1, <1>3, <1>4, ConfirmKeeps, Zenon

\* A theme is touched.
LEMMA TouchThemeKeeps ==
  ASSUME SettingsInv, NEW t \in 0..Themes - 1, TouchTheme(t)
  PROVE  SettingsInv' /\ sel' = sel /\ editor' = editor
<1>. DEFINE c == [cfg EXCEPT !.theme = t]
<1>1. Confirm(c, ShownAs(c)) /\ sel' = sel /\ editor' = editor
  BY Zenon DEF TouchTheme
<1>2. cfg \in Config /\ t \in ThemeSet
  BY DEF SettingsInv, SettingsType, ThemeSet
<1>3. c \in Config /\ c.colors = cfg.colors
  BY <1>2 DEF Config
<1>. HIDE DEF c
<1>. QED
  BY <1>1, <1>3, ConfirmKeeps, Zenon

\* An interval is touched.
LEMMA TouchRefreshKeeps ==
  ASSUME SettingsInv, NEW i \in 1..5, TouchRefresh(i)
  PROVE  SettingsInv' /\ sel' = 2 /\ editor' = editor
<1>. DEFINE c == [cfg EXCEPT !.refresh = Intervals[i]]
<1>1. Confirm(c, shown) /\ sel' = 2 /\ editor' = editor
  BY Zenon DEF TouchRefresh
<1>2. cfg \in Config /\ Intervals[i] \in RefreshSet
  BY DEF SettingsInv, SettingsType, Intervals, RefreshSet
<1>3. c \in Config /\ c.colors = cfg.colors /\ c.theme = cfg.theme
  BY <1>2 DEF Config
<1>4. ~editor.open => shown = ShownAs(c)
  BY <1>3, Zenon DEF SettingsInv, EditorUndone, ShownAs
<1>. HIDE DEF c
<1>. QED
  BY <1>1, <1>3, <1>4, ConfirmKeeps, Zenon

\* The buttons of the thresholds.
LEMMA TouchAlertKeeps ==
  ASSUME SettingsInv, NEW s \in {3, 4}, NEW step \in {-1, 1}, TouchAlert(s, step)
  PROVE  SettingsInv' /\ sel' = s /\ editor' = editor
<1>. DEFINE c == Altered(s, step)
<1>1. Confirm(c, shown) /\ sel' = s /\ editor' = editor
  BY Zenon DEF TouchAlert
<1>2. cfg \in Config /\ s \in 0..4 /\ s # 1
  BY DEF SettingsInv, SettingsType
<1>3. c \in Config /\ c.colors = cfg.colors /\ c.theme = cfg.theme
  BY <1>2, AlteredConfig, Zenon
<1>4. ~editor.open => shown = ShownAs(c)
  BY <1>3, Zenon DEF SettingsInv, EditorUndone, ShownAs
<1>. HIDE DEF c
<1>. QED
  BY <1>1, <1>3, <1>4, ConfirmKeeps, Zenon

\* What else of the settings the page needs: the selection, and that the editor is open on its page only.
SettingsAll == SettingsInv /\ sel \in 0..4 /\ EditorPlace

\* An editor that opens does so on its page.
LEMMA PlaceKeeps ==
  ASSUME SettingsAll, SettingsInv', sel' \in 0..4, UNCHANGED <<used, cur>>,
         editor' = editor \/ ~editor'.open \/ (cur = SettingsPage /\ used \in {"settings", "tutorial"})
  PROVE  SettingsAll'
BY Zenon DEF SettingsAll, EditorPlace

\* Every step of the settings page and of the tutorial.
LEMMA SettingsNextKeeps ==
  ASSUME SettingsAll, SettingsNext
  PROVE  SettingsAll'
<1>1. SettingsInv /\ sel \in 0..4
  BY DEF SettingsAll
<1>2. used \in {"settings", "tutorial"} /\ used' = used
  BY Zenon DEF SettingsNext
<1>3. \/ cur' = cur /\ \E step \in {-1, 1} : ChangeKey(step) \/ SelectKey(step)
      \/ cur' = cur /\ SettingsTouch
      \/ cur' = cur /\ EditorInput
      \/ cur' = cur /\ (TouchTutorial \/ TutorialInput)
      \/ TurnSettings
      \/ Restart /\ cur' = Home
  BY Zenon DEF SettingsNext
<1>4. CASE cur' = cur /\ \E step \in {-1, 1} : ChangeKey(step) \/ SelectKey(step)
  BY <1>1, <1>2, <1>4, ChangeKeyKeeps, SelectKeyKeeps, PlaceKeeps, Zenon
<1>5. CASE cur' = cur /\ SettingsTouch
  <2>1. CASE \E l \in 0..Languages - 1 : TouchLanguage(l)
    BY <1>1, <1>2, <1>5, <2>1, TouchLanguageKeeps, PlaceKeeps, Zenon
  <2>2. CASE \E t \in 0..Themes - 1 : TouchTheme(t)
    BY <1>1, <1>2, <1>5, <2>2, TouchThemeKeeps, PlaceKeeps, Zenon
  <2>3. CASE \E i \in 1..5 : TouchRefresh(i)
    <3>1. 2 \in 0..4
      OBVIOUS
    <3>. QED BY <1>1, <1>2, <1>5, <2>3, <3>1, TouchRefreshKeeps, PlaceKeeps, Zenon
  <2>4. CASE \E s \in {3, 4}, step \in {-1, 1} : TouchAlert(s, step)
    <3>1. \A s \in {3, 4} : s \in 0..4
      OBVIOUS
    <3>. QED BY <1>1, <1>2, <1>5, <2>4, <3>1, TouchAlertKeeps, PlaceKeeps, Zenon
  <2>5. CASE TouchEditor
    BY <1>1, <1>2, <1>5, <2>5, TouchEditorKeeps, PlaceKeeps, Zenon
  <2>. QED BY <1>5, <2>1, <2>2, <2>3, <2>4, <2>5, Zenon DEF SettingsTouch
<1>6. CASE cur' = cur /\ EditorInput
  <2>0. /\ DOMAIN cfg.colors = Slots /\ editor.slot \in Slots /\ editor.chan \in 1..3
        /\ Len(cfg.colors) \in Nat \ {0} /\ Slots = 1..Len(cfg.colors)
    BY <1>1, ColoursAre, Zenon
  <2>1. CASE \E by, turn \in {-1, 0, 1} : ChooseKey(by, turn)
    <3>1. PICK by \in {-1, 0, 1}, turn \in {-1, 0, 1} : ChooseKey(by, turn)
      BY <2>1, Zenon
    <3>. DEFINE slot == ((editor.slot - 1 + by) % Len(cfg.colors)) + 1
                chan == ((editor.chan - 1 + turn) % 3) + 1
    <3>2. Choose(slot, chan)
      BY <3>1, Zenon DEF ChooseKey
    <3>3. slot \in Slots
      <4>1. editor.slot - 1 + by \in Int
        BY <2>0
      <4>. QED BY <2>0, <4>1
    <3>4. chan \in 1..3
      BY <2>0
    <3>. HIDE DEF slot, chan
    <3>. QED BY <1>1, <1>2, <1>6, <3>2, <3>3, <3>4, ChooseKeeps, PlaceKeeps, Zenon
  <2>2. CASE \E slot \in DOMAIN cfg.colors : Choose(slot, editor.chan)
    BY <1>1, <1>2, <1>6, <2>0, <2>2, ChooseKeeps, PlaceKeeps, Zenon
  <2>3. CASE \E chan \in 1..3 : Choose(editor.slot, chan)
    BY <1>1, <1>2, <1>6, <2>0, <2>3, ChooseKeeps, PlaceKeeps, Zenon
  <2>4. CASE \E step \in {-1, 1} : Nudge(step)
    BY <1>1, <1>2, <1>6, <2>4, NudgeKeeps, PlaceKeeps, Zenon
  <2>5. CASE \E chan \in 1..3, level \in Levels : Slide(chan, level)
    <3>1. \A level \in Levels : level \in 0..255
      BY SettingsAssumption
    <3>. QED BY <1>1, <1>2, <1>6, <2>5, <3>1, SlideKeeps, PlaceKeeps, Zenon
  <2>6. CASE \E i \in DOMAIN Palettes : UsePalette(i)
    BY <1>1, <1>2, <1>6, <2>6, PaletteKeeps, PlaceKeeps, Zenon
  <2>7. CASE SaveEditor
    BY <1>1, <1>2, <1>6, <2>7, SaveEditorKeeps, PlaceKeeps, Zenon
  <2>8. CASE CancelEditor
    BY <1>1, <1>2, <1>6, <2>8, CancelEditorKeeps, PlaceKeeps, Zenon
  <2>. QED BY <1>6, <2>1, <2>2, <2>3, <2>4, <2>5, <2>6, <2>7, <2>8, Zenon DEF EditorInput
<1>7. CASE cur' = cur /\ (TouchTutorial \/ TutorialInput)
  BY <1>1, <1>2, <1>7, TouchTutorialKeeps, TutorialInputKeeps, PlaceKeeps, Zenon
<1>8. CASE TurnSettings
  <2>1. ~editor.open /\ sel' = 0 /\ UNCHANGED <<cfg, shown, editor, file, tutorial, tuto, want, sure, beneath>>
    BY <1>8, Zenon DEF TurnSettings
  <2>2. SettingsInv'
    BY <1>1, <2>1, SettingsSame, Zenon
  <2>3. 0 \in 0..4
    OBVIOUS
  <2>. QED BY <2>1, <2>2, <2>3, Zenon DEF SettingsAll, EditorPlace
<1>9. CASE Restart /\ cur' = Home
  <2>1. SettingsInv' /\ ~editor'.open /\ sel' = 0
    BY <1>1, <1>9, StartKeeps, Zenon
  <2>2. 0 \in 0..4
    OBVIOUS
  <2>. QED BY <2>1, <2>2, Zenon DEF SettingsAll, EditorPlace
<1>. QED
  BY <1>3, <1>4, <1>5, <1>6, <1>7, <1>8, <1>9, Zenon

\* A set of numbers has its minimum in it.
LEMMA MinOf ==
  ASSUME NEW s \in SUBSET Nat, s # {}
  PROVE  Min(s) \in s
<1>1. \E x \in s : \A y \in s : x <= y
  BY Least
<1>. QED
  BY <1>1 DEF Min

\* The least and the greatest rate of a list.
LEMMA MaxOfSeq ==
  ASSUME NEW R \in Seq(Nat), R # <<>>
  PROVE  Max(ToSet(R)) \in Nat /\ Min(ToSet(R)) \in Nat
<1>. DEFINE N == Len(R)
            Bounded(i) == \E b \in Nat : \A j \in 1..i : R[j] <= b
            Bad == {i \in Nat : i <= N /\ ~Bounded(i)}
<1>1. N \in Nat /\ N # 0 /\ DOMAIN R = 1..N /\ \A j \in 1..N : R[j] \in Nat
  OBVIOUS
<1>. HIDE DEF N
<1>2. Bounded(0)
  OBVIOUS
<1>3. ASSUME NEW i \in 1..N, Bounded(i - 1) PROVE Bounded(i)
  <2>1. PICK b \in Nat : \A j \in 1..i - 1 : R[j] <= b
    BY <1>3
  <2>. DEFINE d == IF b > R[i] THEN b ELSE R[i]
  <2>2. R[i] \in Nat
    BY <1>1
  <2>3. d \in Nat /\ b <= d /\ R[i] <= d
    BY <2>2
  <2>4. \A j \in 1..i : j \in 1..i - 1 \/ j = i
    BY <1>1
  <2>5. \A j \in 1..i : R[j] \in Nat
    BY <1>1
  <2>. HIDE DEF d
  <2>6. \A j \in 1..i : R[j] <= d
    BY <2>1, <2>3, <2>4, <2>5
  <2>. QED BY <2>3, <2>6
<1>. HIDE DEF Bounded
<1>4. Bad = {}
  <2>1. SUFFICES ASSUME Bad # {} PROVE FALSE
    OBVIOUS
  <2>2. PICK i \in Bad : \A j \in Bad : i <= j
    <3>1. Bad \in SUBSET Nat
      OBVIOUS
    <3>. HIDE DEF Bad
    <3>. QED BY <2>1, <3>1, Least
  <2>3. i # 0
    BY <1>2, <2>2
  <2>4. i \in 1..N /\ i - 1 \in Nat /\ i - 1 <= N
    BY <1>1, <2>2, <2>3
  <2>5. i - 1 \notin Bad
    <3>1. ~(i <= i - 1)
      BY <2>4
    <3>. HIDE DEF Bad
    <3>. QED BY <2>2, <3>1
  <2>6. Bounded(i)
    BY <1>3, <2>4, <2>5
  <2>. QED BY <2>2, <2>6
<1>5. PICK b \in Nat : \A j \in 1..N : R[j] <= b
  <2>1. N \in Nat /\ N <= N
    BY <1>1
  <2>2. Bounded(N)
    BY <1>4, <2>1
  <2>. QED BY <2>2 DEF Bounded
<1>6. ToSet(R) \in SUBSET (0..b) /\ ToSet(R) # {}
  BY <1>1, <1>5 DEF ToSet
<1>. HIDE DEF Bad
<1>7. Max(ToSet(R)) \in ToSet(R)
  BY <1>6, MaxOf, Zenon
<1>8. Min(ToSet(R)) \in ToSet(R)
  <2>1. ToSet(R) \in SUBSET Nat
    BY <1>6
  <2>. QED BY <1>6, <2>1, MinOf, Zenon
<1>. QED
  BY <1>6, <1>7, <1>8

\* scale_set_clock selects a rate.
LEMMA SelectedRateInt ==
  ASSUME NEW m \in DOMAIN Rates, NEW khz \in Int
  PROVE  SelectedRate(Rates[m], khz) \in Int
<1>. DEFINE R == Rates[m].rates
            low == Min(ToSet(R))
            high == Max(ToSet(R))
<1>1. R \in Seq(Nat) /\ R # <<>>
  BY ControlsAssumption
<1>2. low \in Nat /\ high \in Nat
  BY <1>1, MaxOfSeq
<1>. DEFINE near == {i \in DOMAIN R : \A j \in DOMAIN R : Distance(R[i], khz) <= Distance(R[j], khz)}
<1>3. R[Min(near)] \in Nat
  <2>. DEFINE D == {Distance(R[j], khz) : j \in DOMAIN R}
  <2>1. \A j \in DOMAIN R : R[j] \in Nat /\ Distance(R[j], khz) \in Nat
    <3>1. \A j \in DOMAIN R : R[j] \in Nat
      BY <1>1
    <3>. QED BY <3>1 DEF Distance
  <2>2. D \in SUBSET Nat /\ D # {}
    <3>1. Len(R) \in Nat /\ Len(R) # 0 /\ DOMAIN R = 1..Len(R)
      BY <1>1
    <3>. HIDE DEF R
    <3>2. 1 \in DOMAIN R
      BY <3>1
    <3>. QED BY <2>1, <3>2
  <2>3. PICK d \in D : \A e \in D : d <= e
    <3>. HIDE DEF D
    <3>. QED BY <2>2, Least
  <2>4. near # {} /\ near \in SUBSET Nat
    <3>1. DOMAIN R \subseteq Nat
      BY <1>1
    <3>. QED BY <2>3, <3>1
  <2>5. Min(near) \in near
    <3>. HIDE DEF near
    <3>. QED BY <2>4, MinOf
  <2>. QED BY <2>1, <2>5
<1>4. SelectedRate(Rates[m], khz) = IF Rates[m].kind = "range"
                                    THEN IF khz < low THEN low ELSE IF khz > high THEN high ELSE khz
                                    ELSE R[Min(near)]
  BY DEF SelectedRate
<1>. HIDE DEF R, low, high, near
<1>. QED
  BY <1>2, <1>3, <1>4

-----------------------------------------------------------------------------
(* The clocks and the brightness.                                          *)

Brightness == 0..100
Lights == [known : Brightness \cup {-1}, screen : Brightness, auto : BOOLEAN, sure : BOOLEAN]

InMHz(khz)  == khz \div 1000
TargetsTrue == \A m \in current : cfg[m] # 0 => InMHz(hw[m]) = cfg[m]
LightTrue   == light.sure /\ light.known >= 0 => light.known = light.screen

ClocksInv ==
  /\ hw \in [DOMAIN Rates -> Int] /\ light \in Lights
  /\ current \subseteq {"cpu", "gpu"} /\ (current # {} => used = "clocks")
  /\ TargetsTrue /\ LightTrue

\* The invariant is about the same as the property, in whole MHz.
LEMMA ControlsParts ==
  ASSUME ClocksInv
  PROVE  ControlsTrue
<1>1. \A m \in current : cfg[m] # 0 => hw[m] \div 1000 = cfg[m]
  BY SMT DEF ClocksInv, TargetsTrue, InMHz
<1>2. light.sure /\ light.known >= 0 => light.known = light.screen
  BY Zenon DEF ClocksInv, LightTrue
<1>. QED
  BY <1>1, <1>2, SMT DEF ControlsTrue

\* A target changes nothing else of the settings.
LEMMA TargetSet ==
  ASSUME NEW c \in Config, NEW m \in {"cpu", "gpu"}, NEW v \in Int
  PROVE  /\ [c EXCEPT ![m] = v] \in Config /\ [c EXCEPT ![m] = v].colors = c.colors
         /\ [c EXCEPT ![m] = v].theme = c.theme /\ [c EXCEPT ![m] = v][m] = v
         /\ \A k \in {"cpu", "gpu"} \ {m} : [c EXCEPT ![m] = v][k] = c[k]
<1>1. CASE m = "cpu"
  <2>1. /\ [c EXCEPT !.cpu = v] \in Config /\ [c EXCEPT !.cpu = v].colors = c.colors
        /\ [c EXCEPT !.cpu = v].theme = c.theme /\ [c EXCEPT !.cpu = v].cpu = v
        /\ [c EXCEPT !.cpu = v].gpu = c.gpu
    BY DEF Config
  <2>. QED BY <1>1, <2>1
<1>2. CASE m = "gpu"
  <2>1. /\ [c EXCEPT !.gpu = v] \in Config /\ [c EXCEPT !.gpu = v].colors = c.colors
        /\ [c EXCEPT !.gpu = v].theme = c.theme /\ [c EXCEPT !.gpu = v].gpu = v
        /\ [c EXCEPT !.gpu = v].cpu = c.cpu
    BY DEF Config
  <2>. QED BY <1>2, <2>1
<1>. QED
  BY <1>1, <1>2

\* A target that is set is what the clock has.
LEMMA SetClockKeeps ==
  ASSUME SettingsAll, ClocksInv, used = "clocks", used' = used, NEW m \in {"cpu", "gpu"}, NEW mhz \in Int,
         SetClock(m, mhz), UNCHANGED <<light, sel, editor>>
  PROVE  SettingsInv' /\ ClocksInv'
<1>1. SettingsInv /\ ~editor.open /\ cfg \in Config /\ shown = ShownAs(cfg)
  BY Zenon DEF SettingsAll, EditorPlace, SettingsInv, SettingsType, EditorUndone
<1>. DEFINE rate == SelectedRate(Rates[m], mhz * 1000)
            c == [cfg EXCEPT ![m] = InMHz(hw'[m])]
<1>2. \/ hw' = [hw EXCEPT ![m] = rate] /\ current' = current \cup {m} /\ Confirm(c, shown)
      \/ UNCHANGED <<hw, current, cfg, shown, want, file, sure, beneath, tutorial, tuto>>
  BY SMT DEF SetClock, InMHz
<1>3. m \in DOMAIN Rates /\ rate \in Int
  <2>1. m \in DOMAIN Rates /\ mhz * 1000 \in Int
    BY ControlsAssumption
  <2>. QED BY <2>1, SelectedRateInt
<1>. HIDE DEF rate
<1>4. CASE hw' = [hw EXCEPT ![m] = rate] /\ current' = current \cup {m} /\ Confirm(c, shown)
  <2>1. hw' \in [DOMAIN Rates -> Int] /\ hw'[m] = rate /\ \A k \in DOMAIN Rates \ {m} : hw'[k] = hw[k]
    BY <1>3, <1>4 DEF ClocksInv
  <2>2. InMHz(hw'[m]) \in Int
    BY <1>3, <2>1 DEF InMHz
  <2>3. c \in Config /\ c.colors = cfg.colors /\ c.theme = cfg.theme /\ c[m] = InMHz(hw'[m])
        /\ \A k \in {"cpu", "gpu"} \ {m} : c[k] = cfg[k]
    <3>. DEFINE v == InMHz(hw'[m])
    <3>. HIDE DEF v
    <3>1. v \in Int
      BY <2>2 DEF v
    <3>2. c = [cfg EXCEPT ![m] = v]
      BY DEF v
    <3>. HIDE DEF c
    <3>3. /\ c \in Config /\ c.colors = cfg.colors /\ c.theme = cfg.theme /\ c[m] = v
          /\ \A k \in {"cpu", "gpu"} \ {m} : c[k] = cfg[k]
      <4>1. cfg \in Config
        BY <1>1
      <4>2. /\ [cfg EXCEPT ![m] = v] \in Config /\ [cfg EXCEPT ![m] = v].colors = cfg.colors
            /\ [cfg EXCEPT ![m] = v].theme = cfg.theme /\ [cfg EXCEPT ![m] = v][m] = v
            /\ \A k \in {"cpu", "gpu"} \ {m} : [cfg EXCEPT ![m] = v][k] = cfg[k]
        BY <3>1, <4>1, TargetSet
      <4>. QED BY <3>2, <4>2
    <3>. QED BY <3>3, Zenon DEF v
  <2>. HIDE DEF c
  <2>4. SettingsInv'
    <3>1. shown = ShownAs(c)
      BY <1>1, <2>3, Zenon DEF ShownAs
    <3>. QED BY <1>1, <1>4, <2>3, <3>1, ConfirmKeeps, Zenon
  <2>5. cfg' = c
    BY <1>4, Zenon DEF Confirm
  <2>6. TargetsTrue'
    <3>1. SUFFICES ASSUME NEW k \in current', cfg'[k] # 0 PROVE InMHz(hw'[k]) = cfg'[k]
      BY Zenon DEF TargetsTrue
    <3>2. CASE k = m
      BY <2>3, <2>5, <3>2
    <3>3. CASE k # m
      <4>1. k \in current /\ k \in {"cpu", "gpu"}
        BY <1>4, <3>3 DEF ClocksInv
      <4>2. k \in DOMAIN Rates
        BY <4>1, ControlsAssumption
      <4>3. cfg'[k] = cfg[k] /\ hw'[k] = hw[k]
        BY <2>1, <2>3, <2>5, <3>3, <4>1, <4>2
      <4>. QED BY <3>1, <4>1, <4>3, Zenon DEF ClocksInv, TargetsTrue
    <3>. QED BY <3>2, <3>3
  <2>7. LightTrue' /\ light' \in Lights
    BY Zenon DEF ClocksInv, LightTrue
  <2>8. current' \subseteq {"cpu", "gpu"} /\ used' = "clocks"
    BY <1>4 DEF ClocksInv
  <2>. QED BY <2>1, <2>4, <2>6, <2>7, <2>8, Zenon DEF ClocksInv
<1>5. CASE UNCHANGED <<hw, current, cfg, shown, want, file, sure, beneath, tutorial, tuto>>
  <2>1. SettingsInv'
    BY <1>1, <1>5, SettingsSame, Zenon
  <2>. QED BY <1>5, <2>1, Zenon DEF ClocksInv, TargetsTrue, LightTrue
<1>. QED
  BY <1>2, <1>4, <1>5, Zenon

\* A reset forgets the targets, or, when it fails on the way, which of them still hold.
LEMMA ResetClocksKeeps ==
  ASSUME SettingsAll, ClocksInv, used = "clocks", used' = used, NEW docked \in BOOLEAN, ResetClocks(docked),
         UNCHANGED <<light, sel, editor>>
  PROVE  SettingsInv' /\ ClocksInv'
<1>1. SettingsInv /\ ~editor.open /\ cfg \in Config /\ shown = ShownAs(cfg)
  BY Zenon DEF SettingsAll, EditorPlace, SettingsInv, SettingsType, EditorUndone
<1>. DEFINE mhz == IF docked THEN <<1785, 768, 1600>> ELSE <<1020, 307, 1600>>
            of == <<"cpu", "gpu", "emc">>
            rate(m, n) == SelectedRate(Rates[m], mhz[CHOOSE i \in 1..n : of[i] = m] * 1000)
            done(n) == [m \in DOMAIN hw |-> IF \E i \in 1..n : of[i] = m THEN rate(m, n) ELSE hw[m]]
            c == [cfg EXCEPT !.cpu = 0, !.gpu = 0]
<1>2. \/ hw' = done(3) /\ UNCHANGED current /\ Confirm(c, shown)
      \/ /\ \E n \in 0..2 : hw' = done(n) /\ current' = current \ {of[i] : i \in 1..n}
         /\ UNCHANGED <<cfg, shown, want, file, sure, beneath, tutorial, tuto>>
  BY Zenon DEF ResetClocks
<1>3. DOMAIN hw = DOMAIN Rates /\ \A m \in DOMAIN Rates : hw[m] \in Int
  BY DEF ClocksInv
<1>4. ASSUME NEW n \in 0..3 PROVE done(n) \in [DOMAIN Rates -> Int]
  <2>1. ASSUME NEW m \in DOMAIN Rates, \E i \in 1..n : of[i] = m PROVE rate(m, n) \in Int
    <3>. DEFINE i == CHOOSE i \in 1..n : of[i] = m
    <3>1. i \in 1..n
      BY <2>1
    <3>2. i \in 1..3
      BY <3>1
    <3>3. mhz[i] \in Int
      <4>. HIDE DEF i
      <4>. QED BY <3>2
    <3>. HIDE DEF i, mhz
    <3>4. mhz[i] * 1000 \in Int
      BY <3>3
    <3>. QED BY <3>4, SelectedRateInt DEF i
  <2>. HIDE DEF rate, of
  <2>. QED BY <1>3, <2>1
<1>5. LightTrue' /\ light' \in Lights
  BY Zenon DEF ClocksInv, LightTrue
<1>6. CASE hw' = done(3) /\ UNCHANGED current /\ Confirm(c, shown)
  <2>1. c \in Config /\ c.colors = cfg.colors /\ c.theme = cfg.theme /\ c.cpu = 0 /\ c.gpu = 0
    <3>. DEFINE z == 0
    <3>1. z \in Int
      OBVIOUS
    <3>. HIDE DEF z
    <3>2. LET d == [cfg EXCEPT !.cpu = z, !.gpu = z] IN
          d \in Config /\ d.colors = cfg.colors /\ d.theme = cfg.theme /\ d.cpu = z /\ d.gpu = z
      BY <1>1, <3>1 DEF Config
    <3>. QED BY <3>2 DEF z
  <2>2. cfg' = c
    BY <1>6, Zenon DEF Confirm
  <2>. HIDE DEF c
  <2>3. SettingsInv'
    <3>1. shown = ShownAs(c)
      BY <1>1, <2>1, Zenon DEF ShownAs
    <3>. QED BY <1>1, <1>6, <2>1, <3>1, ConfirmKeeps, Zenon
  <2>4. TargetsTrue' /\ current' \subseteq {"cpu", "gpu"}
    BY <1>6, <2>1, <2>2 DEF ClocksInv, TargetsTrue
  <2>5. hw' \in [DOMAIN Rates -> Int]
    <3>. HIDE DEF done
    <3>. QED BY <1>4, <1>6
  <2>. QED BY <1>5, <2>3, <2>4, <2>5, Zenon DEF ClocksInv, TargetsTrue, LightTrue
<1>7. CASE /\ \E n \in 0..2 : hw' = done(n) /\ current' = current \ {of[i] : i \in 1..n}
           /\ UNCHANGED <<cfg, shown, want, file, sure, beneath, tutorial, tuto>>
  <2>1. PICK n \in 0..2 : hw' = done(n) /\ current' = current \ {of[i] : i \in 1..n}
    BY <1>7, Zenon
  <2>2. SettingsInv'
    BY <1>1, <1>7, SettingsSame, Zenon
  <2>3. hw' \in [DOMAIN Rates -> Int]
    <3>. HIDE DEF done
    <3>. QED BY <1>4, <2>1
  <2>4. current' \subseteq current
    BY <2>1
  <2>5. \A m \in current' : hw'[m] = hw[m]
    <3>1. ASSUME NEW m \in current' PROVE hw'[m] = hw[m]
      <4>1. m \in DOMAIN hw
        BY <1>3, <2>4, ControlsAssumption DEF ClocksInv
      <4>2. ~ \E i \in 1..n : of[i] = m
        BY <2>1
      <4>. HIDE DEF rate, of
      <4>. QED BY <2>1, <4>1, <4>2
    <3>. QED BY <3>1
  <2>6. TargetsTrue'
    <3>. HIDE DEF done, of
    <3>. QED BY <1>7, <2>4, <2>5 DEF ClocksInv, TargetsTrue
  <2>7. current' \subseteq {"cpu", "gpu"}
    BY <2>4 DEF ClocksInv
  <2>. QED BY <1>5, <2>2, <2>3, <2>6, <2>7, Zenon DEF ClocksInv, TargetsTrue, LightTrue
<1>. HIDE DEF done, c, of, mhz, rate
<1>. QED
  BY <1>2, <1>6, <1>7, Zenon

\* brightness_apply.
LEMMA ApplyKeeps ==
  ASSUME light \in Lights, LightTrue, NEW known \in Brightness, Apply(known)
  PROVE  light' \in Lights /\ LightTrue'
<1>1. CASE light' = [light EXCEPT !.known = known, !.screen = known, !.sure = TRUE]
  <2>1. light' \in Lights /\ light'.known = known /\ light'.screen = known
    BY <1>1 DEF Lights
  <2>. QED BY <2>1 DEF LightTrue
<1>2. CASE light' = [light EXCEPT !.known = known, !.sure = FALSE]
  <2>1. light' \in Lights /\ ~light'.sure
    BY <1>2 DEF Lights
  <2>. QED BY <2>1 DEF LightTrue
<1>. QED
  BY <1>1, <1>2, Zenon DEF Apply

\* What the tools page does to the brightness.
LEMMA LightInputKeeps ==
  ASSUME light \in Lights, LightTrue, LightInput
  PROVE  light' \in Lights /\ LightTrue'
<1>1. CASE ReadLight
  <2>1. light.screen \in Brightness
    BY DEF Lights
  <2>2. light' \in Lights /\ light'.known = light.screen /\ light'.screen = light.screen
    BY <1>1, <2>1 DEF ReadLight, Lights
  <2>. QED BY <2>2 DEF LightTrue
<1>2. CASE ToggleAuto
  <2>1. light' = light \/ light' = [light EXCEPT !.auto = ~@]
    BY <1>2, Zenon DEF ToggleAuto
  <2>2. CASE light' = [light EXCEPT !.auto = ~@]
    <3>1. light' \in Lights /\ light'.known = light.known /\ light'.screen = light.screen
          /\ light'.sure = light.sure
      BY <2>2 DEF Lights
    <3>. QED BY <3>1 DEF LightTrue
  <2>3. CASE light' = light
    BY <2>3, Zenon DEF LightTrue
  <2>. QED BY <2>1, <2>2, <2>3
<1>3. ASSUME NEW step \in {-5, 5}, Brighter(step) PROVE light' \in Lights /\ LightTrue'
  <2>0. light.known \in Int /\ light.screen \in Int
    BY DEF Lights, Brightness
  <2>1. PICK from \in (IF light.known >= 0 THEN {light.known} ELSE {light.screen, 50}) :
               Apply(IF from + step > 100 THEN 100 ELSE IF from + step < 0 THEN 0 ELSE from + step)
    BY <1>3, Zenon DEF Brighter
  <2>2. from \in Int
    BY <2>0
  <2>. DEFINE to == IF from + step > 100 THEN 100 ELSE IF from + step < 0 THEN 0 ELSE from + step
  <2>3. to \in Brightness
    BY <2>2 DEF Brightness
  <2>4. Apply(to)
    BY <2>1
  <2>. HIDE DEF to
  <2>. QED BY <2>3, <2>4, ApplyKeeps
<1>4. ASSUME NEW level \in Levels \cap 0..100, Apply(level) PROVE light' \in Lights /\ LightTrue'
  <2>1. level \in Brightness
    BY DEF Brightness
  <2>. QED BY <1>4, <2>1, ApplyKeeps
<1>. QED
  BY <1>1, <1>2, <1>3, <1>4, Zenon DEF LightInput

\* Every step of the tools page, a restart, and the system's own changes.
LEMMA ClocksNextKeeps ==
  ASSUME SettingsAll, ClocksInv, ClocksNext
  PROVE  SettingsAll' /\ ClocksInv'
<1>1. used = "clocks" /\ used' = used /\ ~editor.open
  BY Zenon DEF ClocksNext, Using, SettingsAll, EditorPlace
<1>2. SettingsInv /\ sel \in 0..4 /\ light \in Lights /\ LightTrue /\ TargetsTrue
  BY Zenon DEF SettingsAll, ClocksInv
<1>3. CASE ClockInput /\ UNCHANGED <<light, sel, editor>>
  <2>1. SettingsInv' /\ ClocksInv'
    <3>1. \A m \in {"cpu", "gpu"} : \A mhz \in Taps[m] : mhz \in Int
      BY ControlsAssumption
    <3>2. \A m \in {"cpu", "gpu"} : cfg[m] \in Int
      BY <1>2 DEF SettingsInv, SettingsType, Config
    <3>. QED BY <1>1, <1>3, <3>1, <3>2, SetClockKeeps, ResetClocksKeeps, Zenon DEF ClockInput
  <2>. QED BY <1>1, <1>2, <1>3, <2>1, Zenon DEF SettingsAll, EditorPlace
<1>4. CASE LightInput /\ UNCHANGED <<cur, hw, current, settings>>
  <2>1. light' \in Lights /\ LightTrue'
    BY <1>2, <1>4, LightInputKeeps
  <2>2. SettingsInv'
    BY <1>2, <1>4, SettingsSame, Zenon DEF settings
  <2>. QED BY <1>1, <1>2, <1>4, <2>1, <2>2, Zenon
           DEF SettingsAll, EditorPlace, ClocksInv, TargetsTrue, settings
<1>5. CASE UNCHANGED <<clocks, settings>>
  <2>2. SettingsInv'
    BY <1>2, <1>5, SettingsSame, Zenon DEF settings
  <2>. QED BY <1>1, <1>2, <1>5, <2>2, Zenon
           DEF SettingsAll, EditorPlace, ClocksInv, TargetsTrue, LightTrue, settings, clocks
<1>6. CASE Restart /\ current' = {} /\ light' = [light EXCEPT !.known = -1] /\ UNCHANGED hw
  <2>1. SettingsInv' /\ ~editor'.open /\ sel' \in 0..4
    BY <1>2, <1>6, StartKeeps
  <2>2. light' \in Lights /\ LightTrue'
    <3>1. light' \in Lights /\ light'.known = -1
      BY <1>2, <1>6 DEF Lights
    <3>. QED BY <3>1 DEF LightTrue
  <2>3. TargetsTrue' /\ current' \subseteq {"cpu", "gpu"} /\ current' = {}
    BY <1>6 DEF TargetsTrue
  <2>. QED BY <1>6, <2>1, <2>2, <2>3, Zenon
           DEF SettingsAll, EditorPlace, ClocksInv
<1>7. CASE (\E level \in Levels \cap 0..100 : AutoChanges(level)) /\ UNCHANGED <<cur, acts, hw, current, settings>>
  <2>0. PICK level \in Levels \cap 0..100 : light' = [light EXCEPT !.screen = level, !.sure = FALSE]
    BY <1>7, Zenon DEF AutoChanges
  <2>1. light' \in Lights /\ LightTrue'
    <3>1. level \in Brightness
      BY DEF Brightness
    <3>2. light' \in Lights /\ ~light'.sure
      BY <1>2, <2>0, <3>1 DEF Lights
    <3>. QED BY <3>2 DEF LightTrue
  <2>2. SettingsInv'
    BY <1>2, <1>7, SettingsSame, Zenon DEF settings
  <2>. QED BY <1>1, <1>2, <1>7, <2>1, <2>2, Zenon
           DEF SettingsAll, EditorPlace, ClocksInv, TargetsTrue, settings
<1>. QED
  BY <1>3, <1>4, <1>5, <1>6, <1>7, Zenon DEF ClocksNext

\* Where the clocks are not used nothing is said of them.
LEMMA ClocksApart ==
  ASSUME ClocksInv, UNCHANGED <<used, clocks>>, used # "clocks"
  PROVE  ClocksInv'
<1>1. current = {} /\ hw' = hw /\ current' = current /\ light' = light
  BY Zenon DEF ClocksInv, clocks
<1>2. TargetsTrue'
  BY <1>1, Zenon DEF TargetsTrue
<1>3. LightTrue'
  BY <1>1, Zenon DEF LightTrue, ClocksInv
<1>. QED
  BY <1>1, <1>2, <1>3, Zenon DEF ClocksInv

\* The parts that leave settings and clocks alone.
LEMMA SettingsApart ==
  ASSUME SettingsAll, ClocksInv, UNCHANGED <<used, settings, clocks>>,
         used \notin {"settings", "tutorial"} \/ cur' = cur
  PROVE  SettingsAll' /\ ClocksInv'
<1>1. SettingsInv'
  BY SettingsSame, Zenon DEF SettingsAll, settings
<1>2. hw' = hw /\ current' = current /\ light' = light /\ cfg' = cfg /\ sel' = sel /\ editor' = editor
  BY Zenon DEF clocks, settings
<1>3. ClocksInv'
  BY <1>2, Zenon DEF ClocksInv, TargetsTrue, LightTrue
<1>. QED
  BY <1>1, <1>2, <1>3, Zenon DEF SettingsAll, EditorPlace

\* The invariant of settings and clocks holds at the start, ...
LEMMA SettingsStart ==
  ASSUME Init
  PROVE  SettingsAll /\ ClocksInv
<1>1. SettingsAll
  <2>1. SettingsInit
    BY Zenon DEF Init
  <2>2. Defaults \in Config /\ editor = ClosedEditor /\ ~editor.open
    BY <2>1, DefaultsConfig DEF SettingsInit, ClosedEditor
  <2>3. SettingsType
    <3>1. tutorial \in Tutorials
      BY <2>1 DEF SettingsInit, Tutorials, TutorialSteps
    <3>2. sure \in [config : BOOLEAN, tuto : BOOLEAN] /\ beneath \subseteq {"saved", "reopened"}
      BY <2>1, SMT DEF SettingsInit
    <3>3. file \in Seq(Written)
      BY <2>1, SMT DEF SettingsInit
    <3>. QED BY <2>1, <2>2, <3>1, <3>2, <3>3, Zenon DEF SettingsType, SettingsInit
  <2>4. EditorType
    <3>1. 1 \in Slots
      BY SlotsAre DEF Slots
    <3>. QED BY <2>2, <3>1 DEF EditorType, ClosedEditor
  <2>5. EditorUndone
    BY <2>1, Zenon DEF SettingsInit, EditorUndone
  <2>6. BackupKeeps
    BY <2>2, Zenon DEF BackupKeeps
  <2>7. ConfigKeeps
    <3>1. Loaded(file) = Defaults
      BY <2>1, LoadedSteps DEF SettingsInit
    <3>. QED BY <2>1, <3>1, Zenon DEF SettingsInit, ConfigKeeps
  <2>8. TutorialKeeps
    BY <2>1 DEF SettingsInit, TutorialKeeps
  <2>9. sel \in 0..4
    BY <2>1, SMT DEF SettingsInit
  <2>. QED BY <2>2, <2>3, <2>4, <2>5, <2>6, <2>7, <2>8, <2>9, Zenon DEF SettingsAll, SettingsInv, EditorPlace
<1>2. ClocksInv
  <2>1. ControlsInit
    BY Zenon DEF Init
  <2>2. hw \in [DOMAIN Rates -> Int]
    <3>1. ASSUME NEW m \in DOMAIN Rates PROVE Rates[m].rates[1] \in Int
      <4>. DEFINE R == Rates[m].rates
      <4>1. R \in Seq(Nat) /\ R # <<>>
        BY ControlsAssumption
      <4>. HIDE DEF R
      <4>2. R[1] \in Nat
        BY <4>1
      <4>. QED BY <4>2 DEF R
    <3>. QED BY <2>1, <3>1 DEF ControlsInit
  <2>3. light \in Lights /\ light.known = -1
    BY <2>1 DEF ControlsInit, Lights, Brightness
  <2>4. current = {}
    BY <2>1, Zenon DEF ControlsInit
  <2>5. LightTrue
    BY <2>3 DEF LightTrue
  <2>6. TargetsTrue
    BY <2>4, Zenon DEF TargetsTrue
  <2>. QED BY <2>2, <2>3, <2>4, <2>5, <2>6, Zenon DEF ClocksInv
<1>. QED
  BY <1>1, <1>2

\* ... is kept by every step, ...
LEMMA SettingsStep ==
  ASSUME SettingsAll, ClocksInv, [Next]_vars
  PROVE  SettingsAll' /\ ClocksInv'
<1>1. CASE BrowserNext
  <2>1. used = "browser" /\ UNCHANGED <<used, settings, clocks>>
    BY <1>1, Zenon DEF BrowserNext, Using
  <2>. QED BY <2>1, SettingsApart
<1>2. CASE SettingsNext
  <2>1. used \in {"settings", "tutorial"} /\ UNCHANGED <<used, clocks>>
    BY <1>2, Zenon DEF SettingsNext
  <2>. QED BY <1>2, <2>1, SettingsNextKeeps, ClocksApart
<1>3. CASE MotorsNext
  <2>1. used = "motors" /\ UNCHANGED <<used, settings, clocks>>
    BY <1>3, Zenon DEF MotorsNext, Using
  <2>. QED BY <2>1, SettingsApart
<1>4. CASE ClocksNext
  BY <1>4, ClocksNextKeeps, Zenon
<1>5. CASE PagesNext
  <2>1. used = "pages" /\ UNCHANGED <<used, settings, clocks>>
    BY <1>5, Zenon DEF PagesNext, Using
  <2>. QED BY <2>1, SettingsApart
<1>6. CASE UNCHANGED vars
  <2>1. UNCHANGED <<used, cur, settings, clocks>>
    BY <1>6, Zenon DEF vars
  <2>. QED BY <2>1, SettingsApart, Zenon
<1>. QED
  BY <1>1, <1>2, <1>3, <1>4, <1>5, <1>6, Zenon DEF Next

\* ... and so holds always.
LEMMA SettingsAlways == Spec => [](SettingsAll /\ ClocksInv)
<1>1. Init => SettingsAll /\ ClocksInv
  BY SettingsStart
<1>2. (SettingsAll /\ ClocksInv) /\ [Next]_vars => (SettingsAll /\ ClocksInv)'
  BY SettingsStep
<1>. QED
  BY <1>1, <1>2, PTL DEF Spec

\* Outside the editor nothing that was tried in it is left, on the screen or in the settings: the
\* cancel of custom_theme_cancel and the save of the editor undo or keep the whole of it.
THEOREM EditorIsUndone == Spec => []EditorUndone
<1>1. SettingsAll /\ ClocksInv => EditorUndone
  BY Zenon DEF SettingsAll, SettingsInv
<1>. QED
  BY <1>1, SettingsAlways, PTL

\* A start finds the settings and the tutorial as the user left them, whenever save_config and
\* tutorial_save_state took their last write.
THEOREM ARestartKeeps == Spec => []RestartKeeps
<1>1. SettingsAll /\ ClocksInv => RestartKeeps
  BY Zenon DEF SettingsAll, SettingsInv, ConfigKeeps, TutorialKeeps, RestartKeeps
<1>. QED
  BY <1>1, SettingsAlways, PTL

\* The clock targets and the brightness that are shown are what clocks and screen have.
THEOREM ControlsAreTrue == Spec => []ControlsTrue
<1>1. SettingsAll /\ ClocksInv => ControlsTrue
  BY ControlsParts
<1>. QED
  BY <1>1, SettingsAlways, PTL

-----------------------------------------------------------------------------
(* The motors.                                                             *)

Bits   == BOOLEAN
Flags  == [Motors -> BOOLEAN]
Tries  == 0..3
Counts == [Motors -> Tries]
MotorSets == SUBSET Motors
Vibes  == [ready : BOOLEAN, count : Nat, active : Flags, retries : Counts, until : Flags]
Rumbles == [v : Vibes, on : MotorSets, lost : MotorSets, rare : Nat]

\* What turns is what the program believes turns, or what it lost.
Known(s) == \A i \in s.on : s.v.active[i] \/ i \in s.lost
Stands(s, i) == i \in s.on => IF s.v.active[i] THEN s.v.retries[i] > 0 ELSE i \in s.lost

\* A call that fails changes nothing but how many may still fail.
LEMMA FailingIs ==
  ASSUME NEW s \in Rumbles, NEW t \in Failing(s)
  PROVE  t \in Rumbles /\ t.v = s.v /\ t.on = s.on /\ t.lost = s.lost /\ t.rare < s.rare
<1>1. s.rare > 0 /\ t = [s EXCEPT !.rare = s.rare - 1] /\ s.rare \in Nat
  BY DEF Failing, Rumbles
<1>. QED
  BY <1>1 DEF Rumbles

\* init_vibration_for_pad changes no motor.
LEMMA ReadiedIs ==
  ASSUME NEW s \in Rumbles, NEW t \in Readied(s)
  PROVE  t \in Rumbles /\ t.v.active = s.v.active /\ t.v.retries = s.v.retries /\ t.v.until = s.v.until
         /\ t.on = s.on /\ t.lost = s.lost /\ t.rare <= s.rare
<1>0. s.rare \in Nat
  BY DEF Rumbles
<1>1. CASE t = s \/ t \in Failing(s)
  <2>1. t \in Failing(s) => t.rare \in Nat /\ t.rare < s.rare
    BY FailingIs DEF Rumbles
  <2>. QED BY <1>0, <1>1, <2>1, FailingIs
<1>2. ASSUME NEW n \in Handles, t = [s EXCEPT !.v.ready = TRUE, !.v.count = n]
      PROVE  t \in Rumbles /\ t.v.active = s.v.active /\ t.v.retries = s.v.retries /\ t.v.until = s.v.until
             /\ t.on = s.on /\ t.lost = s.lost /\ t.rare <= s.rare
  <2>. DEFINE w == [s.v EXCEPT !.ready = TRUE, !.count = n]
  <2>1. s.v \in Vibes /\ n \in Nat
    BY ControlsAssumption DEF Rumbles
  <2>2. w \in Vibes /\ w.active = s.v.active /\ w.retries = s.v.retries /\ w.until = s.v.until
    BY <2>1 DEF Vibes
  <2>3. t = [s EXCEPT !.v = w]
    BY <1>2, Zenon
  <2>. HIDE DEF w
  <2>. QED BY <1>0, <2>2, <2>3 DEF Rumbles
<1>. QED
  BY <1>1, <1>2 DEF Readied

\* A change of one motor's state.
WithMotor(s, i, a, n, on, away) ==
  [s EXCEPT !.v = [s.v EXCEPT !.active = [s.v.active EXCEPT ![i] = a],
                              !.retries = [s.v.retries EXCEPT ![i] = n]],
            !.on = on, !.lost = away]

Changed(t, s, i, a, n, on, away) ==
  /\ t \in Rumbles /\ t.on = on /\ t.lost = away /\ t.rare = s.rare
  /\ t.v.active[i] = a /\ t.v.retries[i] = n /\ t.v.until = s.v.until
  /\ \A j \in Motors \ {i} : t.v.active[j] = s.v.active[j] /\ t.v.retries[j] = s.v.retries[j]

\* A change of one motor's state leaves the other one's.
LEMMA MotorSet ==
  ASSUME NEW s \in Rumbles, NEW i \in Motors, NEW a \in Bits, NEW n \in Tries,
         NEW on \in MotorSets, NEW away \in MotorSets
  PROVE  Changed(WithMotor(s, i, a, n, on, away), s, i, a, n, on, away)
<1>. DEFINE ac == [s.v.active EXCEPT ![i] = a]
            re == [s.v.retries EXCEPT ![i] = n]
            w == [s.v EXCEPT !.active = ac, !.retries = re]
            t == WithMotor(s, i, a, n, on, away)
<1>1. s.v \in Vibes
  BY DEF Rumbles
<1>2. s.v.active \in Flags /\ s.v.retries \in Counts
  BY <1>1 DEF Vibes
<1>3. ac \in Flags /\ ac[i] = a /\ \A j \in Motors \ {i} : ac[j] = s.v.active[j]
  BY <1>2 DEF Flags, Bits
<1>4. re \in Counts /\ re[i] = n /\ \A j \in Motors \ {i} : re[j] = s.v.retries[j]
  BY <1>2 DEF Counts
<1>. HIDE DEF ac, re
<1>5. w \in Vibes /\ w.active = ac /\ w.retries = re /\ w.until = s.v.until
  BY <1>1, <1>3, <1>4 DEF Vibes
<1>6. t = [s EXCEPT !.v = w, !.on = on, !.lost = away]
  BY Zenon DEF ac, re, WithMotor
<1>. HIDE DEF w, t
<1>7. t \in Rumbles /\ t.v = w /\ t.on = on /\ t.lost = away /\ t.rare = s.rare
  BY <1>5, <1>6 DEF Rumbles
<1>8. Changed(t, s, i, a, n, on, away)
  BY <1>3, <1>4, <1>5, <1>7, Zenon DEF Changed
<1>. QED
  BY <1>8 DEF t

\* The parts of a motor's state.
LEMMA MotorIs ==
  ASSUME NEW s \in Rumbles, NEW i \in Motors
  PROVE  s.v.active[i] \in Bits /\ s.v.active[i] \in BOOLEAN /\ s.v.retries[i] \in Tries /\ s.on \in MotorSets /\ s.lost \in MotorSets
         /\ s.v.active \in Flags /\ s.v.retries \in Counts /\ s.v \in Vibes
<1>1. s.v \in Vibes /\ s.on \in MotorSets /\ s.lost \in MotorSets
  BY DEF Rumbles
<1>2. s.v.active \in Flags /\ s.v.retries \in Counts
  BY <1>1 DEF Vibes
<1>. QED
  BY <1>1, <1>2 DEF Flags, Counts, Bits

\* vibration_stop: the motor stands, or is told again, or was lost before.
LEMMA StoppedIs ==
  ASSUME NEW s \in Rumbles, NEW i \in Motors, Known(s), NEW t \in Stopped(s, i)
  PROVE  /\ t \in Rumbles /\ Known(t) /\ Stands(t, i) /\ t.lost = s.lost /\ t.v.until = s.v.until
         /\ t.rare <= s.rare /\ (t.rare = s.rare /\ i \in t.on => i \in s.lost)
         /\ \A j \in Motors \ {i} : t.v.active[j] = s.v.active[j] /\ t.v.retries[j] = s.v.retries[j]
                                    /\ (j \in t.on <=> j \in s.on)
<1>. DEFINE tries == IF s.v.active[i] /\ s.v.retries[i] = 0 THEN 3 ELSE s.v.retries[i]
<1>0. s.v.active[i] \in Bits /\ s.v.active[i] \in BOOLEAN /\ s.v.retries[i] \in Tries /\ s.on \in MotorSets /\ s.lost \in MotorSets
  BY MotorIs
<1>1. tries \in Tries /\ s.rare \in Nat
  BY <1>0 DEF Tries, Rumbles
<1>2. CASE tries = 0
  <2>1. t = s /\ ~s.v.active[i]
    BY <1>2 DEF Stopped
  <2>. QED BY <1>1, <2>1 DEF Known, Stands
<1>. DEFINE on == s.on \ {i}
            a == s.v.active[i] /\ tries > 1
<1>3. CASE tries # 0 /\ t = [s EXCEPT !.v.retries[i] = tries - 1, !.v.active[i] = @ /\ tries > 1, !.on = @ \ {i}]
  <2>1. on \in MotorSets /\ tries - 1 \in Tries /\ a \in Bits /\ s.lost \in MotorSets
    BY <1>0, <1>1, <1>3 DEF MotorSets, Tries, Bits
  <2>. DEFINE n == tries - 1
  <2>2. t = WithMotor(s, i, a, n, on, s.lost)
    BY ZenonT(40), <1>3 DEF Rumbles, Vibes, WithMotor
  <2>. HIDE DEF n
  <2>5. n \in Tries
    BY <2>1 DEF n
  <2>. HIDE DEF a, on, tries
  <2>3. /\ t \in Rumbles /\ t.on = on /\ t.lost = s.lost /\ t.rare = s.rare /\ t.v.until = s.v.until
        /\ \A j \in Motors \ {i} : t.v.active[j] = s.v.active[j] /\ t.v.retries[j] = s.v.retries[j]
    <3>1. Changed(t, s, i, a, n, on, s.lost)
      BY <2>1, <2>2, <2>5, MotorSet
    <3>. QED BY <3>1, Zenon DEF Changed
  <2>4. t.on = s.on \ {i} /\ t.on \in MotorSets
    BY <2>1, <2>3 DEF on
  <2>6. Known(t)
    BY <2>3, <2>4 DEF Known, MotorSets
  <2>. QED BY <1>1, <2>3, <2>4, <2>6 DEF Stands, MotorSets
<1>4. CASE tries # 0 /\ \E u \in Failing(s) : t = [u EXCEPT !.v.retries[i] = tries]
  <2>1. PICK u \in Failing(s) : t = [u EXCEPT !.v.retries[i] = tries]
    BY <1>4
  <2>2. u \in Rumbles /\ u.v = s.v /\ u.on = s.on /\ u.lost = s.lost /\ u.rare < s.rare /\ u.rare \in Nat
    BY <2>1, FailingIs DEF Rumbles
  <2>3. t = WithMotor(u, i, s.v.active[i], tries, u.on, u.lost)
    <3>1. u.v.active = [u.v.active EXCEPT ![i] = s.v.active[i]]
      BY <2>2, MotorIs DEF Flags
    <3>. QED BY <2>1, <2>2, <3>1 DEF Rumbles, Vibes, WithMotor
  <2>. HIDE DEF tries
  <2>4. /\ t \in Rumbles /\ t.on = s.on /\ t.lost = s.lost /\ t.rare = u.rare /\ t.v.until = s.v.until
        /\ t.v.active[i] = s.v.active[i] /\ t.v.retries[i] = tries
        /\ \A j \in Motors \ {i} : t.v.active[j] = s.v.active[j] /\ t.v.retries[j] = s.v.retries[j]
    <3>1. /\ t \in Rumbles /\ t.on = u.on /\ t.lost = u.lost /\ t.rare = u.rare /\ t.v.until = u.v.until
          /\ t.v.active[i] = s.v.active[i] /\ t.v.retries[i] = tries
          /\ \A j \in Motors \ {i} : t.v.active[j] = u.v.active[j] /\ t.v.retries[j] = u.v.retries[j]
      <4>1. u.on \in MotorSets /\ u.lost \in MotorSets
        BY <2>2, MotorIs
      <4>2. Changed(t, u, i, s.v.active[i], tries, u.on, u.lost)
        BY <1>0, <1>1, <2>2, <2>3, <4>1, MotorSet
      <4>. QED BY <2>2, <4>2, Zenon DEF Changed
    <3>. QED BY <2>2, <3>1
  <2>5. tries > 0
    BY <1>1, <1>4 DEF Tries
  <2>. QED BY <1>0, <1>1, <2>2, <2>4, <2>5 DEF Known, Stands, MotorSets
<1>. HIDE DEF a, on
<1>. QED
  BY <1>2, <1>3, <1>4 DEF Stopped

\* vibration_hold: what turns is known to turn, or lost.
LEMMA PressedIs ==
  ASSUME NEW s \in Rumbles, NEW i \in Motors, Known(s), NEW t \in Pressed(s, i)
  PROVE  /\ t \in Rumbles /\ Known(t) /\ t.v.until = s.v.until /\ t.rare <= s.rare
         /\ \A j \in Motors \ {i} : t.v.active[j] = s.v.active[j] /\ t.v.retries[j] = s.v.retries[j]
                                    /\ (j \in t.on <=> j \in s.on) /\ (j \in t.lost <=> j \in s.lost)
<1>0. s.v.active[i] \in Bits /\ s.v.active[i] \in BOOLEAN /\ s.v.retries[i] \in Tries /\ s.on \in MotorSets /\ s.lost \in MotorSets
  BY MotorIs
<1>a. s.rare \in Nat
  BY DEF Rumbles
<1>1. CASE t = s
  BY <1>1, <1>a
<1>. DEFINE on == s.on \cup {i}
            yes == TRUE
            none == 0
<1>2. CASE t = [s EXCEPT !.v.active[i] = TRUE, !.v.retries[i] = 0, !.on = @ \cup {i}]
  <2>1. on \in MotorSets /\ none \in Tries /\ yes \in Bits
    BY <1>0 DEF MotorSets, Tries, Bits
  <2>2. t = WithMotor(s, i, yes, none, on, s.lost)
    BY <1>2 DEF Rumbles, Vibes, WithMotor
  <2>. HIDE DEF on, yes, none
  <2>3. /\ t \in Rumbles /\ t.on = on /\ t.lost = s.lost /\ t.v.until = s.v.until /\ t.v.active[i] = yes /\ t.rare = s.rare
        /\ \A j \in Motors \ {i} : t.v.active[j] = s.v.active[j] /\ t.v.retries[j] = s.v.retries[j]
    <3>1. Changed(t, s, i, yes, none, on, s.lost)
      BY <1>0, <2>1, <2>2, MotorSet
    <3>. QED BY <3>1, Zenon DEF Changed
  <2>4. t.on = s.on \cup {i} /\ t.v.active[i]
    BY <2>3 DEF on, yes
  <2>5. Known(t)
    BY <1>0, <2>3, <2>4 DEF Known, MotorSets
  <2>. QED BY <1>a, <2>3, <2>4, <2>5
<1>3. CASE \E u \in Failing(s) : t = [u EXCEPT !.v.active[i] = FALSE, !.lost = @ \cup ({i} \cap u.on)]
  <2>1. PICK u \in Failing(s) : t = [u EXCEPT !.v.active[i] = FALSE, !.lost = @ \cup ({i} \cap u.on)]
    BY <1>3
  <2>2. u \in Rumbles /\ u.v = s.v /\ u.on = s.on /\ u.lost = s.lost /\ u.rare < s.rare /\ u.rare \in Nat
    BY <2>1, FailingIs DEF Rumbles
  <2>. DEFINE no == FALSE
              gone == u.lost \cup ({i} \cap u.on)
  <2>3. t = WithMotor(u, i, no, s.v.retries[i], u.on, gone)
    <3>1. u.v.retries = [u.v.retries EXCEPT ![i] = s.v.retries[i]]
      BY <2>2, MotorIs DEF Counts
    <3>. QED BY <2>1, <2>2, <3>1 DEF Rumbles, Vibes, WithMotor
  <2>4. no \in Bits /\ gone \in MotorSets /\ u.on \in MotorSets
    BY <1>0, <2>2 DEF MotorSets, Bits
  <2>. HIDE DEF no, gone
  <2>5. /\ t \in Rumbles /\ t.on = u.on /\ t.lost = gone /\ t.v.until = u.v.until /\ t.rare = u.rare
        /\ \A j \in Motors \ {i} : t.v.active[j] = u.v.active[j] /\ t.v.retries[j] = u.v.retries[j]
    <3>1. Changed(t, u, i, no, s.v.retries[i], u.on, gone)
      BY <1>0, <2>2, <2>3, <2>4, MotorSet
    <3>. QED BY <3>1, Zenon DEF Changed
  <2>6. t.on = s.on /\ t.lost = s.lost \cup ({i} \cap s.on)
    BY <2>2, <2>5 DEF gone
  <2>7. Known(t)
    BY <1>0, <2>2, <2>5, <2>6 DEF Known, MotorSets
  <2>. QED BY <1>a, <2>2, <2>5, <2>6, <2>7
<1>. HIDE DEF on, yes, none
<1>. QED
  BY <1>1, <1>2, <1>3 DEF Pressed

\* The times of the motors.
WithUntil(s, until) == [s EXCEPT !.v.until = until]

\* New times change nothing else.
LEMMA UntilSet ==
  ASSUME NEW s \in Rumbles, NEW until \in Flags, NEW t, t = WithUntil(s, until)
  PROVE  /\ t \in Rumbles /\ t.v.until = until /\ t.v.active = s.v.active /\ t.v.retries = s.v.retries
         /\ t.on = s.on /\ t.lost = s.lost /\ t.rare = s.rare
<1>. DEFINE w == [s.v EXCEPT !.until = until]
<1>1. s.v \in Vibes
  BY DEF Rumbles
<1>2. w \in Vibes /\ w.until = until /\ w.active = s.v.active /\ w.retries = s.v.retries
  BY <1>1 DEF Vibes
<1>3. t = [s EXCEPT !.v = w]
  BY Zenon DEF WithUntil
<1>. HIDE DEF w
<1>. QED BY <1>2, <1>3 DEF Rumbles

\* ctrl_trigger_rumble gives the motors their time and loses none unseen.
LEMMA TriggeredIs ==
  ASSUME NEW s \in Rumbles, Known(s), NEW which \in MotorSets, NEW t \in Triggered(s, which)
  PROVE  t \in Rumbles /\ Known(t) /\ t.rare <= s.rare
         /\ \A i \in Motors : t.v.until[i] <=> (i \in which \/ s.v.until[i])
<1>. DEFINE timed(r) == [r EXCEPT !.v.until = [i \in Motors |-> i \in which \/ @[i]]]
            one(S, i) == IF i \in which THEN UNION {Pressed(r, i) : r \in S} ELSE S
            A == {timed(r) : r \in Readied(s)}
            Good(r) == /\ r \in Rumbles /\ Known(r) /\ r.rare <= s.rare
                       /\ \A i \in Motors : r.v.until[i] <=> (i \in which \/ s.v.until[i])
<1>0. s.v.until \in Flags
  BY DEF Rumbles, Vibes
<1>1. ASSUME NEW r \in Readied(s) PROVE Good(timed(r))
  <2>1. r \in Rumbles /\ Known(r) /\ r.v.until = s.v.until /\ r.rare <= s.rare
    BY ReadiedIs DEF Known
  <2>. DEFINE until == [i \in Motors |-> i \in which \/ r.v.until[i]]
              q == WithUntil(r, until)
  <2>2. until \in Flags
    BY DEF Flags
  <2>3. timed(r) = q
    BY Zenon DEF WithUntil
  <2>4. \A i \in Motors : until[i] <=> (i \in which \/ s.v.until[i])
    BY <2>1
  <2>. HIDE DEF until
  <2>5. q \in Rumbles /\ q.v.until = until /\ q.v.active = r.v.active /\ q.on = r.on /\ q.lost = r.lost /\ q.rare = r.rare
    BY <2>1, <2>2, UntilSet
  <2>. HIDE DEF q
  <2>6. Good(q)
    BY <2>1, <2>4, <2>5 DEF Known
  <2>. HIDE DEF timed, Good
  <2>. QED BY <2>3, <2>6
<1>2. ASSUME NEW S, \A r \in S : Good(r), NEW i \in Motors PROVE \A r \in one(S, i) : Good(r)
  <2>1. ASSUME NEW r \in S, NEW q \in Pressed(r, i) PROVE Good(q)
    <3>1. Good(r)
      BY <1>2
    <3>2. q \in Rumbles /\ Known(q) /\ q.v.until = r.v.until /\ q.rare <= r.rare
      BY <3>1, PressedIs
    <3>3. q.rare \in Nat /\ r.rare \in Nat /\ s.rare \in Nat
      BY <3>1, <3>2 DEF Rumbles
    <3>. QED BY <3>1, <3>2, <3>3
  <2>. HIDE DEF Good
  <2>. QED BY <1>2, <2>1
<1>3. t \in one(one(A, 0), 1)
  BY Zenon DEF Triggered
<1>4. \A r \in A : Good(r)
  <2>. HIDE DEF Good, timed
  <2>. QED BY <1>1
<1>. HIDE DEF A, one
<1>5. \A r \in one(A, 0) : Good(r)
  <2>. HIDE DEF Good
  <2>1. 0 \in Motors
    BY DEF Motors
  <2>. QED BY <1>2, <1>4, <2>1, Zenon
<1>6. \A r \in one(one(A, 0), 1) : Good(r)
  <2>. HIDE DEF Good
  <2>1. 1 \in Motors
    BY DEF Motors
  <2>. QED BY <1>2, <1>5, <2>1, Zenon
<1>. QED
  BY <1>3, <1>6, Zenon

MotorsInv == Rumble \in Rumbles /\ Known(Rumble) /\ MotorStops

\* The state of the motors by its parts.
LEMMA RumbleIs ==
  /\ Rumble.v = vibe /\ Rumble.on = turning /\ Rumble.lost = lost /\ Rumble.rare = rare
  /\ Rumble'.v = vibe' /\ Rumble'.on = turning' /\ Rumble'.lost = lost' /\ Rumble'.rare = rare'
BY DEF Rumble

\* A frame: each motor that should not turn is stopped, after all it was told before.
LEMMA MotorFrameKeeps ==
  ASSUME MotorsInv, NEW touched \in MotorSets, NEW buttons \in MotorSets, NEW ending \in MotorSets,
         NEW x \in BOOLEAN, MotorFrame(touched, buttons, ending, x)
  PROVE  MotorsInv' /\ rare' <= rare
<1>. DEFINE hold(s) == (IF cur' = ToolsPage THEN buttons ELSE {}) \cup {i \in Motors : s.v.until[i] /\ i \notin ending}
            due(s)  == [s EXCEPT !.v.until = [i \in Motors |-> @[i] /\ i \notin ending]]
            keep(s, i) == IF i \in held' THEN Pressed(s, i) ELSE Stopped(s, i)
            End(z) == /\ vibe' = z.v /\ turning' = z.on /\ rare' = z.rare
                      /\ lost' = {i \in z.lost \cap z.on : ~z.v.active[i]}
<1>1. PICK s \in Readied(Rumble) \cup {Rumble} :
        \E t \in IF touched = {} THEN {s} ELSE Triggered(s, touched) :
          /\ held' = hold(t)
          /\ \E u \in keep(due(t), 0) : \E w \in keep(u, 1) :
             \E z \in IF x THEN Triggered(w, Motors) ELSE {w} : End(z)
  BY Zenon DEF MotorFrame
<1>. HIDE DEF keep, due, hold, End
<1>2. PICK t \in IF touched = {} THEN {s} ELSE Triggered(s, touched) :
          /\ held' = hold(t)
          /\ \E u \in keep(due(t), 0) : \E w \in keep(u, 1) :
             \E z \in IF x THEN Triggered(w, Motors) ELSE {w} : End(z)
  BY <1>1, Zenon
<1>3. PICK u \in keep(due(t), 0) : \E w \in keep(u, 1) :
             \E z \in IF x THEN Triggered(w, Motors) ELSE {w} : End(z)
  BY <1>2, Zenon
<1>4. PICK w \in keep(u, 1) : \E z \in IF x THEN Triggered(w, Motors) ELSE {w} : End(z)
  BY <1>3, Zenon
<1>5. PICK z \in IF x THEN Triggered(w, Motors) ELSE {w} : End(z)
  BY <1>4, Zenon
<1>r. rare \in Nat
  BY RumbleIs DEF MotorsInv, Rumbles
<1>6. s \in Rumbles /\ Known(s) /\ s.rare <= rare
  <2>1. CASE s = Rumble
    BY <1>r, <2>1, RumbleIs DEF MotorsInv
  <2>2. CASE s \in Readied(Rumble)
    BY <2>2, ReadiedIs, RumbleIs DEF MotorsInv, Known
  <2>. QED BY <1>1, <2>1, <2>2, Zenon
<1>7. t \in Rumbles /\ Known(t) /\ t.rare <= rare
  <2>1. t \in Rumbles /\ Known(t) /\ (t = s \/ t.rare <= s.rare)
    BY <1>2, <1>6, TriggeredIs, Zenon
  <2>. QED BY <1>r, <1>6, <2>1 DEF Rumbles
<1>8. due(t) \in Rumbles /\ Known(due(t)) /\ due(t).rare = t.rare
  <2>. DEFINE until == [i \in Motors |-> t.v.until[i] /\ i \notin ending]
              q == WithUntil(t, until)
  <2>1. due(t) = q
    BY Zenon DEF due, WithUntil
  <2>2. until \in Flags
    BY DEF Flags
  <2>. HIDE DEF until
  <2>3. q \in Rumbles /\ q.v.active = t.v.active /\ q.on = t.on /\ q.lost = t.lost /\ q.rare = t.rare
    BY <1>7, <2>2, UntilSet
  <2>. HIDE DEF q
  <2>4. Known(q)
    BY <1>7, <2>3, Zenon DEF Known
  <2>. QED BY <2>1, <2>3, <2>4, Zenon
<1>. DEFINE Right(r, i) == i \in held' \/ Stands(r, i)
<1>9. u \in Rumbles /\ Known(u) /\ Right(u, 0) /\ u.rare <= due(t).rare
  <2>1. 0 \in Motors
    BY DEF Motors
  <2>. QED BY <1>3, <1>8, <2>1, PressedIs, StoppedIs, Zenon DEF keep
<1>10. w \in Rumbles /\ Known(w) /\ w.rare <= u.rare /\ \A i \in Motors : Right(w, i)
  <2>1. Motors = {0, 1} /\ 1 \in Motors /\ 0 \in Motors \ {1}
    BY DEF Motors
  <2>2. CASE w \in Pressed(u, 1) /\ 1 \in held'
    <3>1. w \in Rumbles /\ Known(w) /\ w.rare <= u.rare
      BY <1>9, <2>1, <2>2, PressedIs, Zenon
    <3>2. /\ w.v.active[0] = u.v.active[0] /\ w.v.retries[0] = u.v.retries[0]
          /\ (0 \in w.on <=> 0 \in u.on) /\ (0 \in w.lost <=> 0 \in u.lost)
      BY ZenonT(40), <1>9, <2>1, <2>2, PressedIs
    <3>3. Right(w, 0)
      BY <1>9, <3>2 DEF Stands
    <3>. QED BY <2>1, <2>2, <3>1, <3>3
  <2>3. CASE w \in Stopped(u, 1) /\ 1 \notin held'
    <3>1. w \in Rumbles /\ Known(w) /\ Stands(w, 1) /\ w.rare <= u.rare
      BY <1>9, <2>1, <2>3, StoppedIs, Zenon
    <3>2. /\ w.v.active[0] = u.v.active[0] /\ w.v.retries[0] = u.v.retries[0]
          /\ (0 \in w.on <=> 0 \in u.on) /\ w.lost = u.lost
      BY ZenonT(40), <1>9, <2>1, <2>3, StoppedIs
    <3>3. Right(w, 0)
      BY <1>9, <3>2 DEF Stands
    <3>. QED BY <2>1, <2>3, <3>1, <3>3
  <2>. QED BY <1>4, <2>2, <2>3, Zenon DEF keep
<1>11. z \in Rumbles /\ Known(z) /\ z.rare <= w.rare /\ \A i \in Motors : Right(z, i) \/ z.v.until[i]
  <2>1. CASE x
    <3>1. z \in Triggered(w, Motors) /\ Motors \in MotorSets
      BY <1>5, <2>1 DEF MotorSets
    <3>. QED BY <1>10, <3>1, TriggeredIs
  <2>2. CASE ~x
    BY <1>5, <1>10, <2>2 DEF Rumbles
  <2>. QED BY <2>1, <2>2
<1>12. /\ vibe' = z.v /\ turning' = z.on /\ rare' = z.rare
       /\ lost' = {i \in z.lost \cap z.on : ~z.v.active[i]}
  BY <1>5, Zenon DEF End
<1>13. z.on \subseteq Motors /\ z.lost \subseteq Motors /\ z.v \in Vibes /\ z.rare \in Nat /\ z.rare <= rare
  BY <1>r, <1>7, <1>8, <1>9, <1>10, <1>11 DEF Rumbles, MotorSets
<1>14. Rumble' \in Rumbles
  <2>1. lost' \in MotorSets /\ z.on \in MotorSets
    BY <1>12, <1>13 DEF MotorSets
  <2>. QED BY <1>12, <1>13, <2>1 DEF Rumble, Rumbles
<1>15. Known(Rumble)'
  <2>1. SUFFICES ASSUME NEW i \in turning' PROVE vibe'.active[i] \/ i \in lost'
    BY RumbleIs, Zenon DEF Known
  <2>. QED BY <1>11, <1>12, <2>1 DEF Known
<1>16. MotorStops'
  <2>1. SUFFICES ASSUME NEW i \in turning'
                 PROVE  i \in held' \/ vibe'.until[i] \/ (vibe'.active[i] /\ vibe'.retries[i] > 0) \/ i \in lost'
    BY Zenon DEF MotorStops
  <2>2. i \in Motors /\ i \in z.on
    BY <1>12, <1>13
  <2>3. Right(z, i) \/ z.v.until[i]
    BY <1>11, <2>2
  <2>4. CASE Stands(z, i)
    BY <1>11, <1>12, <2>2, <2>4 DEF Known, Stands
  <2>. QED BY <1>12, <2>3, <2>4
<1>. QED
  BY <1>12, <1>13, <1>14, <1>15, <1>16, Zenon DEF MotorsInv

\* exit_app: what turns afterwards was lost, or a stop failed.
LEMMA ExitKeeps ==
  ASSUME MotorsInv, ExitStops
  PROVE  MotorsInv' /\ rare' <= rare
<1>1. PICK s \in Stopped(Rumble, 0) : \E t \in Stopped(s, 1) :
        turning' = t.on /\ rare' = t.rare /\ lost' = (IF t.rare = rare THEN lost ELSE t.on)
  BY Zenon DEF ExitStops
<1>2. PICK t \in Stopped(s, 1) :
        turning' = t.on /\ rare' = t.rare /\ lost' = (IF t.rare = rare THEN lost ELSE t.on)
  BY <1>1, Zenon
<1>3. Motors = {0, 1} /\ 0 \in Motors /\ 1 \in Motors /\ 0 \in Motors \ {1}
  BY DEF Motors
<1>4. Rumble \in Rumbles /\ Known(Rumble)
  BY Zenon DEF MotorsInv
<1>5. s \in Rumbles /\ Known(s) /\ s.lost = lost /\ s.rare <= rare
      /\ (s.rare = rare /\ 0 \in s.on => 0 \in lost)
  BY <1>1, <1>3, <1>4, StoppedIs, RumbleIs, Zenon
<1>6. t \in Rumbles /\ t.lost = lost /\ t.rare <= s.rare /\ (t.rare = s.rare /\ 1 \in t.on => 1 \in lost)
      /\ (0 \in t.on <=> 0 \in s.on)
  BY <1>2, <1>3, <1>5, StoppedIs, Zenon
<1>7. s.rare \in Nat /\ t.rare \in Nat /\ rare \in Nat /\ t.on \subseteq Motors /\ lost \in MotorSets
  BY <1>4, <1>5, <1>6, RumbleIs DEF Rumbles, MotorSets
<1>8. turning' \subseteq lost' /\ turning' \in MotorSets /\ lost' \in MotorSets
  <2>1. CASE t.rare = rare
    <3>1. s.rare = rare /\ t.rare = s.rare
      BY <1>5, <1>6, <1>7, <2>1
    <3>. QED BY <1>2, <1>3, <1>5, <1>6, <1>7, <2>1, <3>1 DEF MotorSets
  <2>2. CASE t.rare # rare
    BY <1>2, <1>7, <2>2 DEF MotorSets
  <2>. QED BY <2>1, <2>2
<1>9. vibe' = NoVibe /\ NoVibe \in Vibes
  <2>1. [i \in Motors |-> FALSE] \in Flags /\ [i \in Motors |-> 0] \in Counts
    BY DEF Flags, Counts, Tries
  <2>. QED BY <2>1 DEF ExitStops, NoVibe, Vibes
<1>10. Rumble' \in Rumbles
  BY <1>2, <1>7, <1>8, <1>9 DEF Rumble, Rumbles
<1>11. Known(Rumble)' /\ MotorStops'
  BY <1>8, RumbleIs, Zenon DEF Known, MotorStops
<1>. QED
  <2>1. rare' <= rare
    BY <1>2, <1>5, <1>6, <1>7
  <2>. QED BY <1>10, <1>11, <2>1, Zenon DEF MotorsInv

MotorsAll == MotorStops /\ (used = "motors" => MotorsInv)

\* The invariant of the motors holds at the start ...
LEMMA MotorsStart ==
  ASSUME Init
  PROVE  MotorsAll
<1>1. /\ vibe = NoVibe /\ turning = {} /\ held = {} /\ lost = {}
      /\ used \in DOMAIN MaxActs /\ rare = MaxRare[used]
  BY Zenon DEF Init, ControlsInit
<1>2. NoVibe \in Vibes
  <2>1. [i \in Motors |-> FALSE] \in Flags /\ [i \in Motors |-> 0] \in Counts
    BY DEF Flags, Counts, Tries
  <2>. QED BY <2>1 DEF NoVibe, Vibes
<1>3. rare \in Nat /\ {} \in MotorSets
  BY <1>1, UiAssumption DEF MotorSets
<1>4. Rumble \in Rumbles
  BY <1>1, <1>2, <1>3 DEF Rumble, Rumbles
<1>5. Known(Rumble) /\ MotorStops
  BY <1>1, RumbleIs, Zenon DEF Known, MotorStops
<1>. QED
  BY <1>4, <1>5, Zenon DEF MotorsAll, MotorsInv

\* ... and is kept by every step, of this part or of another.
LEMMA MotorsStep ==
  ASSUME MotorsAll, [Next]_vars
  PROVE  MotorsAll'
<1>1. CASE MotorsNext
  <2>1. used = "motors" /\ used' = used /\ MotorsInv
    BY <1>1, Zenon DEF MotorsNext, Using, MotorsAll
  <2>2. CASE MotorInput
    <3>1. PICK touched \in {{}} \cup (IF cur = PadPage THEN {{0}, {1}, Motors} ELSE {}),
               buttons \in SUBSET Motors, ending \in SUBSET {i \in Motors : vibe.until[i]},
               x \in {b \in BOOLEAN : b => cur' = PadPage} : MotorFrame(touched, buttons, ending, x)
      BY <2>2, Zenon DEF MotorInput
    <3>2. touched \in MotorSets /\ buttons \in MotorSets /\ ending \in MotorSets /\ x \in BOOLEAN
      BY <3>1 DEF MotorSets, Motors
    <3>3. MotorsInv'
      BY <2>1, <3>1, <3>2, MotorFrameKeeps
    <3>. QED BY <3>3, Zenon DEF MotorsAll, MotorsInv
  <2>3. CASE ExitStops
    <3>1. MotorsInv'
      BY <2>1, <2>3, ExitKeeps
    <3>. QED BY <3>1, Zenon DEF MotorsAll, MotorsInv
  <2>. QED BY <1>1, <2>2, <2>3, Zenon DEF MotorsNext
<1>2. CASE UNCHANGED <<used, motors>> /\ used # "motors"
  BY <1>2, Zenon DEF motors, MotorsAll, MotorStops
<1>3. CASE UNCHANGED vars
  <2>1. UNCHANGED <<used, rare, vibe, turning, held, lost>>
    BY <1>3, Zenon DEF vars, motors
  <2>2. Rumble' = Rumble
    BY <2>1, Zenon DEF Rumble
  <2>. QED BY <2>1, <2>2, Zenon DEF MotorsAll, MotorStops, MotorsInv, Known
<1>4. CASE BrowserNext \/ SettingsNext \/ ClocksNext \/ PagesNext
  <2>1. UNCHANGED <<used, motors>> /\ used \in {"browser", "settings", "tutorial", "clocks", "pages"}
    BY <1>4, Zenon DEF BrowserNext, SettingsNext, ClocksNext, PagesNext, Using
  <2>. QED BY <1>2, <2>1
<1>. QED
  BY <1>1, <1>3, <1>4, Zenon DEF Next

\* A motor that was let go, whose time is over, or whose stop failed is told again until it stands:
\* vibration_stop of every frame and of the exit, with its three tries that must succeed.
THEOREM MotorsStop == Spec => []MotorStops
<1>1. Init => MotorsAll
  BY MotorsStart
<1>2. MotorsAll /\ [Next]_vars => MotorsAll'
  BY MotorsStep
<1>3. MotorsAll => MotorStops
  BY Zenon DEF MotorsAll
<1>. QED
  BY <1>1, <1>2, <1>3, PTL DEF Spec

-----------------------------------------------------------------------------
(* The pages.                                                              *)

Heights == [Pgs -> Nat]
Lists   == [scroll : Nat, count : Nat]
Guides  == [active : BOOLEAN, step : 0..4]
Fingers == [y : Int, drags : BOOLEAN, game : Int]

\* A page is scrolled within what was drawn of it.
Fits(s) == s \in Heights /\ \A p \in Pgs : s[p] <= limit[p]

PagesType ==
  /\ over \in Heights /\ list \in Lists /\ list.scroll <= Hidden(list.count)
  /\ guide \in Guides /\ screen \in 0..4 /\ finger \in Fingers

Scrolled ==
  /\ cur \in Pgs /\ limit \in Heights /\ Fits(scroll)
  /\ \A p \in Pgs : p # cur => scroll[p] = 0

PagesInv == PagesType /\ Scrolled

\* A place that is kept within a height.
LEMMA WithinIs ==
  ASSUME NEW v \in Int, NEW high \in Nat
  PROVE  Within(v, high) \in Nat /\ Within(v, high) <= high
BY DEF Within

\* The games that do not fit are a number.
LEMMA HiddenIs ==
  ASSUME NEW n \in Nat
  PROVE  Hidden(n) \in Nat
BY PagesAssumption DEF Hidden

\* L and R lead from page to page.
LEMMA TurnedIs ==
  ASSUME NEW p \in Pgs, NEW step \in {-1, 1}
  PROVE  Turned(p, step) \in Pgs
BY DEF Turned, Pgs, PGS

\* Whatever a frame does, at its end the page that shows is scrolled within its height, the others not at all.
LEMMA FrameEndsKeeps ==
  ASSUME PagesInv, NEW s, Fits(s), cur' \in Pgs, FrameEnds(s)
  PROVE  Scrolled'
<1>1. scroll' = [p \in Pgs |-> IF p # cur' THEN 0 ELSE IF screen' # 0 THEN s[p] ELSE Within(s[p], over[p])]
  BY Zenon DEF FrameEnds
<1>2. limit' = IF screen' # 0 THEN limit ELSE [limit EXCEPT ![cur'] = over[cur']]
  BY Zenon DEF FrameEnds
<1>3. limit \in Heights /\ over \in Heights /\ s \in Heights
  BY Zenon DEF PagesInv, PagesType, Scrolled, Fits
<1>4. \A p \in Pgs : s[p] \in Nat /\ limit[p] \in Nat /\ over[p] \in Nat /\ s[p] <= limit[p]
  BY <1>3 DEF Heights, Fits
<1>5. \A p \in Pgs : Within(s[p], over[p]) \in Nat /\ Within(s[p], over[p]) <= over[p]
  BY <1>4, WithinIs
<1>6. limit' \in Heights /\ (screen' # 0 => limit' = limit) /\ (screen' = 0 => limit'[cur'] = over[cur'])
  BY <1>2, <1>3, <1>4 DEF Heights
<1>7. scroll' \in Heights /\ \A p \in Pgs : p # cur' => scroll'[p] = 0
  BY <1>1, <1>4, <1>5 DEF Heights
<1>8. \A p \in Pgs : scroll'[p] <= limit'[p]
  <2>1. SUFFICES ASSUME NEW p \in Pgs PROVE scroll'[p] <= limit'[p]
    OBVIOUS
  <2>2. CASE p # cur'
    <3>1. limit'[p] \in Nat
      BY <1>6 DEF Heights
    <3>. QED BY <1>7, <2>2, <3>1
  <2>3. CASE p = cur'
    BY <1>1, <1>4, <1>5, <1>6, <2>3
  <2>. QED BY <2>2, <2>3
<1>. QED
  BY <1>6, <1>7, <1>8, Zenon DEF Scrolled, Fits

\* Stick and directions keep within what was drawn.
LEMMA MovedFits ==
  ASSUME PagesInv, NEW by \in Int
  PROVE  Fits(Moved(by))
<1>1. cur \in Pgs /\ scroll \in Heights /\ limit \in Heights /\ \A p \in Pgs : scroll[p] <= limit[p]
  BY Zenon DEF PagesInv, Scrolled, Fits
<1>2. scroll[cur] + by \in Int /\ limit[cur] \in Nat
  BY <1>1 DEF Heights
<1>3. Within(scroll[cur] + by, limit[cur]) \in Nat /\ Within(scroll[cur] + by, limit[cur]) <= limit[cur]
  BY <1>2, WithinIs
<1>. QED
  BY <1>1, <1>3 DEF Moved, Fits, Heights

\* A finger that moves scrolls the games and passes the rest on to the page.
LEMMA MoveKeeps ==
  ASSUME PagesInv, NEW y \in Int, Move(y)
  PROVE  PagesInv' /\ cur' = cur
<1>0. /\ finger \in Fingers /\ list \in Lists /\ cur \in Pgs /\ scroll \in Heights /\ limit \in Heights
      /\ list.scroll <= Hidden(list.count) /\ Fits(scroll)
  BY Zenon DEF PagesInv, PagesType, Scrolled, Fits
<1>a. finger.y \in Int /\ finger.game \in Int /\ list.scroll \in Nat /\ list.count \in Nat /\ limit[cur] \in Nat
  BY <1>0 DEF Fingers, Lists, Heights
<1>. DEFINE by    == finger.y - y
            far   == finger.drags /\ (by > 4 \/ by < -4)
            s     == IF far THEN Moved(by) ELSE scroll
            dy    == finger.game - y
            drags == cur = ToolsPage /\ limit[cur] > 0 /\ finger.game >= 0 /\ (dy > 8 \/ dy < -8)
            whole == IF dy >= 0 THEN dy \div RowHeight ELSE -((-dy) \div RowHeight)
            steps == IF whole # 0 THEN whole ELSE IF dy > 0 THEN 1 ELSE -1
            asks  == list.scroll + steps
            rest  == asks - Within(asks, Hidden(list.count))
            far2  == far /\ limit[cur] > 0
            q     == [s EXCEPT ![cur] = Within(@ + rest * RowHeight, limit[cur])]
<1>1. /\ cur' = cur /\ UNCHANGED <<over, guide, screen>>
      /\ finger' = [finger EXCEPT !.y = IF far2 THEN y ELSE @, !.game = IF drags THEN y ELSE @]
      /\ list' = IF drags THEN [list EXCEPT !.scroll = Within(asks, Hidden(list.count))] ELSE list
      /\ FrameEnds(IF drags THEN q ELSE s)
  BY Zenon DEF Move
<1>2. by \in Int /\ dy \in Int
  BY <1>a
<1>3. Fits(s)
  <2>. HIDE DEF far, by
  <2>. QED BY <1>0, <1>2, MovedFits
<1>. HIDE DEF by, far, far2, drags, s
<1>4. asks \in Int
  <2>1. whole \in Int
    <3>. HIDE DEF dy
    <3>. QED BY <1>2, PagesAssumption
  <2>. HIDE DEF whole
  <2>2. steps \in Int
    BY <2>1
  <2>. HIDE DEF steps
  <2>. QED BY <1>a, <2>2
<1>. HIDE DEF asks
<1>5. Hidden(list.count) \in Nat
  BY <1>a, HiddenIs
<1>6. Within(asks, Hidden(list.count)) \in Nat /\ Within(asks, Hidden(list.count)) <= Hidden(list.count)
  BY <1>4, <1>5, WithinIs
<1>7. rest \in Int
  BY <1>4, <1>6
<1>. HIDE DEF rest
<1>8. Fits(q)
  <2>1. s \in Heights /\ \A p \in Pgs : s[p] <= limit[p]
    BY <1>3 DEF Fits
  <2>. DEFINE v == s[cur] + rest * RowHeight
  <2>2. v \in Int
    BY <1>0, <1>7, <2>1, PagesAssumption DEF Heights
  <2>. HIDE DEF v
  <2>3. Within(v, limit[cur]) \in Nat /\ Within(v, limit[cur]) <= limit[cur]
    BY <1>a, <2>2, WithinIs
  <2>4. q = [s EXCEPT ![cur] = Within(v, limit[cur])]
    BY Zenon DEF v
  <2>. HIDE DEF q
  <2>. QED BY <1>0, <2>1, <2>3, <2>4 DEF Fits, Heights
<1>. HIDE DEF q
<1>9. Scrolled'
  <2>. DEFINE e == IF drags THEN q ELSE s
  <2>1. FrameEnds(e) /\ Fits(e)
    BY <1>1, <1>3, <1>8
  <2>. HIDE DEF e
  <2>. QED BY <1>0, <1>1, <2>1, FrameEndsKeeps
<1>10. finger' \in Fingers
  BY <1>0, <1>1 DEF Fingers
<1>11. list' \in Lists /\ list'.scroll <= Hidden(list'.count)
  <2>. DEFINE w == Within(asks, Hidden(list.count))
  <2>1. w \in Nat /\ w <= Hidden(list.count)
    BY <1>6
  <2>. HIDE DEF w
  <2>2. list' = [list EXCEPT !.scroll = w] \/ list' = list
    BY <1>1, Zenon DEF w
  <2>3. CASE list' = [list EXCEPT !.scroll = w]
    <3>1. list' \in Lists /\ list'.scroll = w /\ list'.count = list.count
      BY <1>0, <2>1, <2>3 DEF Lists
    <3>. QED BY <2>1, <3>1
  <2>. QED BY <1>0, <2>2, <2>3
<1>. QED
  BY <1>1, <1>9, <1>10, <1>11, Zenon DEF PagesInv, PagesType

\* A frame without a change of the page's place.
LEMMA StillKeeps ==
  ASSUME PagesInv, cur' \in Pgs, FrameEnds(scroll), UNCHANGED <<over, list>>,
         guide' \in Guides, screen' \in 0..4, finger' \in Fingers
  PROVE  PagesInv'
<1>1. Scrolled'
  BY FrameEndsKeeps, Zenon DEF PagesInv, Scrolled
<1>. QED
  BY <1>1, Zenon DEF PagesInv, PagesType

\* The steps of the guide.
LEMMA GuideIs ==
  ASSUME guide \in Guides
  PROVE  /\ [guide EXCEPT !.active = FALSE] \in Guides
         /\ guide.step < 4 => [guide EXCEPT !.step = @ + 1] \in Guides
         /\ guide.step > 0 => [guide EXCEPT !.step = @ - 1] \in Guides
         /\ [active |-> TRUE, step |-> 0] \in Guides
<1>1. [guide EXCEPT !.active = FALSE] \in Guides
  BY DEF Guides
<1>4. [active |-> TRUE, step |-> 0] \in Guides
  BY DEF Guides
<1>2. guide.step < 4 => [guide EXCEPT !.step = @ + 1] \in Guides
  BY DEF Guides
<1>3. guide.step > 0 => [guide EXCEPT !.step = @ - 1] \in Guides
  BY DEF Guides
<1>. QED
  BY <1>1, <1>2, <1>3, <1>4

\* A finger that is put down.
LEMMA FingerIs ==
  ASSUME finger \in Fingers, NEW y \in Int, NEW b \in BOOLEAN, NEW c \in BOOLEAN
  PROVE  [y |-> y, drags |-> b, game |-> IF c THEN y ELSE finger.game] \in Fingers
<1>1. (IF c THEN y ELSE finger.game) \in Int
  BY DEF Fingers
<1>. DEFINE game == IF c THEN y ELSE finger.game
<1>2. [y |-> y, drags |-> b, game |-> game] \in Fingers
  <2>1. game \in Int
    BY <1>1
  <2>. HIDE DEF game
  <2>. QED BY <2>1 DEF Fingers
<1>. QED
  BY <1>2

\* A finger that is lifted.
LEMMA LiftIs ==
  ASSUME finger \in Fingers
  PROVE  /\ [finger EXCEPT !.drags = FALSE, !.game = -1] \in Fingers
         /\ [finger EXCEPT !.drags = FALSE] \in Fingers
<1>1. [finger EXCEPT !.drags = FALSE] \in Fingers
  BY DEF Fingers
<1>. DEFINE g == [finger EXCEPT !.drags = FALSE]
            none == -1
<1>2. g \in Fingers /\ none \in Int
  BY <1>1
<1>3. [finger EXCEPT !.drags = FALSE, !.game = -1] = [g EXCEPT !.game = none]
  BY Zenon
<1>. HIDE DEF g, none
<1>4. [g EXCEPT !.game = none] \in Fingers
  BY <1>2 DEF Fingers
<1>. QED
  BY <1>1, <1>3, <1>4, Zenon

\* Every step of the pages.
LEMMA PagesNextKeeps ==
  ASSUME PagesInv, PagesNext
  PROVE  PagesInv' /\ (Rare \/ Fine)
<1>0. /\ finger \in Fingers /\ list \in Lists /\ cur \in Pgs /\ guide \in Guides /\ screen \in 0..4
      /\ over \in Heights
  BY Zenon DEF PagesInv, PagesType, Scrolled
<1>19. Rare \/ Fine
  BY Zenon DEF PagesNext, ContentChanges, GamesChange
<1>. SUFFICES PagesInv'
  BY <1>19
<1>1. ASSUME NEW by \in Int, cur' = cur, UNCHANGED <<over, finger, list, guide, screen>>, FrameEnds(Moved(by))
      PROVE  PagesInv'
  <2>1. Scrolled'
    BY <1>0, <1>1, MovedFits, FrameEndsKeeps
  <2>. QED BY <1>1, <2>1, Zenon DEF PagesInv, PagesType
<1>2. ASSUME NEW step \in {-1, 1}, Direction(step) PROVE PagesInv'
  <2>. DEFINE by == 24 * step
  <2>1. by \in Int
    OBVIOUS
  <2>2. cur' = cur /\ UNCHANGED <<over, finger, list, guide, screen>> /\ FrameEnds(Moved(by))
    BY <1>2, Zenon DEF Direction
  <2>. HIDE DEF by
  <2>. QED BY <1>1, <2>1, <2>2
<1>3. ASSUME NEW by \in {-16, 1}, Stick(by) PROVE PagesInv'
  <2>1. by \in Int
    OBVIOUS
  <2>2. cur' = cur /\ UNCHANGED <<over, finger, list, guide, screen>> /\ FrameEnds(Moved(by))
    BY <1>3, Zenon DEF Stick
  <2>. QED BY <1>1, <2>1, <2>2
<1>4. ASSUME NEW y \in Places, NEW on, Down(y, on) PROVE PagesInv'
  <2>1. y \in Int
    BY PagesAssumption
  <2>. DEFINE drags == on = "page" /\ y \in 140..650
              games == on = "games"
              f == [y |-> y, drags |-> drags, game |-> IF games THEN y ELSE finger.game]
  <2>2. f \in Fingers
    <3>. HIDE DEF drags, games
    <3>1. drags \in BOOLEAN /\ games \in BOOLEAN
      BY DEF drags, games
    <3>. QED BY <1>0, <2>1, <3>1, FingerIs
  <2>3. /\ cur' = cur /\ UNCHANGED <<over, list, guide, screen>> /\ FrameEnds(scroll)
        /\ finger' = f \/ finger' = finger
    BY <1>4, Zenon DEF Down
  <2>. HIDE DEF f
  <2>. QED BY <1>0, <2>2, <2>3, StillKeeps, Zenon
<1>5. ASSUME NEW y \in Places, Move(y) PROVE PagesInv'
  BY <1>5, PagesAssumption, MoveKeeps
<1>6. CASE Up
  BY <1>0, <1>6, LiftIs, StillKeeps, Zenon DEF Up
<1>7. CASE OpenGuide
  BY <1>0, <1>7, GuideIs, StillKeeps, Zenon DEF OpenGuide
<1>8. CASE GuideInput
  <2>1. guide' \in Guides
    <3>1. \/ guide.step < 4 /\ guide' = [guide EXCEPT !.step = @ + 1]
          \/ guide.step > 0 /\ guide' = [guide EXCEPT !.step = @ - 1]
          \/ guide' = guide
          \/ guide' = [guide EXCEPT !.active = FALSE]
      BY <1>8, Zenon DEF GuideInput
    <3>. QED BY <1>0, <3>1, GuideIs, Zenon
  <2>2. cur' = cur /\ UNCHANGED <<over, finger, list, screen>> /\ FrameEnds(scroll)
    BY <1>8, Zenon DEF GuideInput
  <2>. QED BY <1>0, <2>1, <2>2, StillKeeps, Zenon
<1>9. CASE StartTest
  <2>1. screen' \in 0..4
    BY <1>9, SMT DEF StartTest
  <2>. QED BY <1>0, <1>9, <2>1, StillKeeps, Zenon DEF StartTest
<1>10. CASE NextColour
  <2>1. screen' = (IF screen + 1 >= 5 THEN 1 ELSE screen + 1)
    BY <1>10, Zenon DEF NextColour
  <2>2. screen' \in 0..4
    BY <1>0, <2>1
  <2>. QED BY <1>0, <1>10, <2>2, StillKeeps, Zenon DEF NextColour
<1>11. ASSUME NEW p \in Pgs, GoTo(p), screen' \in 0..4 PROVE PagesInv'
  BY <1>0, <1>11, StillKeeps, Zenon DEF GoTo
<1>12. CASE BackKey
  <2>1. Home \in Pgs /\ 0 \in 0..4
    BY DEF Home, Pgs, PGS
  <2>. DEFINE p == IF cur = SettingsPage THEN Home ELSE cur
  <2>2. p \in Pgs
    BY <1>0, <2>1
  <2>3. GoTo(p) /\ screen' \in 0..4
    BY <1>12, <2>1, Zenon DEF BackKey
  <2>. HIDE DEF p
  <2>. QED BY <1>11, <2>2, <2>3
<1>13. ASSUME NEW p \in Pgs, KeyPage(p) PROVE PagesInv'
  BY <1>0, <1>11, <1>13, Zenon DEF KeyPage
<1>14. ASSUME NEW p \in Pgs, TouchTab(p) PROVE PagesInv'
  BY <1>0, <1>14, LiftIs, StillKeeps, Zenon DEF TouchTab
<1>15. ASSUME NEW p, NEW h \in Overhangs, ContentChanges(p, h) PROVE PagesInv'
  <2>1. over' = [over EXCEPT ![p] = h] /\ UNCHANGED <<cur, scroll, limit, finger, list, guide, screen>>
    BY <1>15, Zenon DEF ContentChanges
  <2>2. over' \in Heights
    BY <1>0, <2>1, PagesAssumption DEF Heights
  <2>. QED BY <2>1, <2>2, Zenon DEF PagesInv, PagesType, Scrolled, Fits
<1>16. ASSUME NEW n \in Games, GamesChange(n) PROVE PagesInv'
  <2>. DEFINE w == Within(list.scroll, Hidden(n))
  <2>1. n \in Nat /\ list.scroll \in Int
    BY <1>0, PagesAssumption DEF Lists
  <2>2. w \in Nat /\ w <= Hidden(n)
    BY <2>1, HiddenIs, WithinIs
  <2>3. list' = [scroll |-> w, count |-> n] /\ UNCHANGED <<cur, scroll, limit, over, finger, guide, screen>>
    BY <1>16, Zenon DEF GamesChange
  <2>. HIDE DEF w
  <2>4. list' \in Lists /\ list'.scroll <= Hidden(list'.count)
    BY <2>1, <2>2, <2>3 DEF Lists
  <2>. QED BY <2>3, <2>4, Zenon DEF PagesInv, PagesType, Scrolled, Fits
<1>17. SettingsPage \in Pgs
  BY DEF SettingsPage, Pgs, PGS
<1>18. \A step \in {-1, 1} : Turned(cur, step) \in Pgs
  BY <1>0, TurnedIs
<1>. QED
  BY <1>2, <1>3, <1>4, <1>5, <1>6, <1>7, <1>8, <1>9, <1>10, <1>12, <1>13, <1>14, <1>15, <1>16, <1>17,
     <1>18, Zenon DEF PagesNext

\* The pages at the start.
LEMMA PagesStart ==
  ASSUME PagesInit, cur \in Pgs
  PROVE  PagesInv /\ \A p \in Pgs : scroll[p] = 0
<1>1. over \in Heights
  BY PagesAssumption DEF PagesInit, Heights
<1>2. scroll = [p \in Pgs |-> 0] /\ limit = [p \in Pgs |-> 0]
  BY Zenon DEF PagesInit
<1>3. limit \in Heights /\ Fits(scroll) /\ \A p \in Pgs : scroll[p] = 0
  BY <1>2 DEF Heights, Fits
<1>4. list \in Lists /\ list.scroll <= Hidden(list.count)
  BY HiddenIs DEF PagesInit, Lists
<1>5. guide \in Guides /\ screen \in 0..4 /\ finger \in Fingers
  BY DEF PagesInit, Guides, Fingers
<1>. QED
  BY <1>1, <1>3, <1>4, <1>5, Zenon DEF PagesInv, PagesType, Scrolled

-----------------------------------------------------------------------------
(* The file browser.                                                       *)

\* An image of a finite set is finite.
LEMMA FiniteImage ==
  ASSUME NEW S, IsFiniteSet(S), NEW g, DOMAIN g = S
  PROVE  IsFiniteSet({g[x] : x \in S})
<1>. DEFINE T == {g[x] : x \in S}
            h == [x \in S |-> g[x]]
<1>1. h \in Surjection(S, T)
  BY DEF Surjection
<1>. QED
  BY <1>1, FS_Surjection, Zenon

\* A card from which something is removed stays finite.
LEMMA WithoutFinite ==
  ASSUME NEW t, IsFiniteSet(DOMAIN t), NEW top
  PROVE  IsFiniteSet(DOMAIN Without(t, top))
<1>1. DOMAIN Without(t, top) \in SUBSET DOMAIN t
  BY DEF Without
<1>. QED
  BY <1>1, FS_Subset, Zenon

\* What is below a path is finite.
LEMMA BelowFinite ==
  ASSUME NEW t, IsFiniteSet(DOMAIN t), NEW top
  PROVE  IsFiniteSet(DOMAIN Below(t, top))
<1>. DEFINE S == {r \in DOMAIN t : Under(r, top)}
            g == [p \in S |-> SubSeq(p, Len(top) + 1, Len(p))]
<1>1. IsFiniteSet(S)
  <2>1. S \in SUBSET DOMAIN t
    OBVIOUS
  <2>. QED BY <2>1, FS_Subset, Zenon
<1>2. DOMAIN Below(t, top) = {g[p] : p \in S}
  BY DEF Below
<1>3. DOMAIN g = S
  OBVIOUS
<1>. HIDE DEF g, S
<1>. QED
  BY <1>1, <1>2, <1>3, FiniteImage

\* A card to which something is added stays finite.
LEMMA AddingFinite ==
  ASSUME NEW t, IsFiniteSet(DOMAIN t), NEW top, NEW sub, IsFiniteSet(DOMAIN sub)
  PROVE  IsFiniteSet(DOMAIN Adding(t, top, sub))
<1>. DEFINE S == DOMAIN sub
            g == [q \in S |-> top \o q]
            new == {g[q] : q \in S}
<1>1. DOMAIN g = S /\ IsFiniteSet(S)
  OBVIOUS
<1>2. DOMAIN Adding(t, top, sub) = DOMAIN t \cup new
  BY DEF Adding
<1>. HIDE DEF g, S
<1>3. IsFiniteSet(new)
  BY <1>1, FiniteImage
<1>. HIDE DEF new
<1>. QED
  BY <1>2, <1>3, FS_Union

\* So does one on which something is moved.
LEMMA RenamedFinite ==
  ASSUME NEW t, IsFiniteSet(DOMAIN t), NEW p, NEW q
  PROVE  IsFiniteSet(DOMAIN Renamed(t, p, q))
BY WithoutFinite, BelowFinite, AddingFinite, Zenon DEF Renamed

\* One new path.
LEMMA SingleFinite == \A what : IsFiniteSet(DOMAIN Single(what))
<1>1. \A what : DOMAIN Single(what) = {<<>>}
  BY DEF Single
<1>. QED
  BY <1>1, FS_Singleton

\* A sequence of anything.
IsSeq(s) == s \in Seq({s[i] : i \in DOMAIN s})

\* A function on 1..n is a sequence.
LEMMA AsSeq ==
  ASSUME NEW s, NEW n \in Nat, DOMAIN s = 1..n, s = [i \in DOMAIN s |-> s[i]]
  PROVE  IsSeq(s) /\ Len(s) = n
<1>. DEFINE R == {s[i] : i \in DOMAIN s}
<1>1. s \in [1..n -> R]
  BY Zenon
<1>. HIDE DEF R
<1>2. s \in Seq(R) /\ Len(s) = n
  BY <1>1
<1>. QED
  BY <1>2 DEF IsSeq, R

\* Two sequences behind each other.
LEMMA Concat ==
  ASSUME NEW s, IsSeq(s), NEW t, IsSeq(t)
  PROVE  IsSeq(s \o t) /\ Len(s \o t) = Len(s) + Len(t)
<1>. DEFINE A == {s[i] : i \in DOMAIN s} \cup {t[i] : i \in DOMAIN t}
<1>1. s \in Seq(A) /\ t \in Seq(A)
  BY DEF IsSeq
<1>. HIDE DEF A
<1>. DEFINE u == s \o t
<1>2. u \in Seq(A) /\ Len(u) = Len(s) + Len(t) /\ Len(s) + Len(t) \in Nat
  BY <1>1
<1>. HIDE DEF u
<1>3. DOMAIN u = 1..Len(u) /\ u = [i \in DOMAIN u |-> u[i]]
  BY <1>2
<1>4. IsSeq(u)
  BY <1>2, <1>3, AsSeq
<1>. QED
  BY <1>2, <1>4 DEF u

\* The rows behind the count.
LEMMA Tail1 ==
  ASSUME NEW s, IsSeq(s), NEW n \in Nat
  PROVE  IsSeq(SubSeq(s, n + 1, Len(s))) /\ Len(SubSeq(s, n + 1, Len(s))) \in Nat
         /\ (n <= Len(s) => Len(SubSeq(s, n + 1, Len(s))) = Len(s) - n)
<1>. DEFINE R == {s[i] : i \in DOMAIN s}
            u == SubSeq(s, n + 1, Len(s))
<1>1. s \in Seq(R)
  BY DEF IsSeq
<1>. HIDE DEF R
<1>2. u \in Seq(R) /\ (n <= Len(s) => Len(u) = Len(s) - n)
  BY <1>1
<1>. HIDE DEF u
<1>3. DOMAIN u = 1..Len(u) /\ u = [i \in DOMAIN u |-> u[i]] /\ Len(u) \in Nat
  BY <1>2
<1>4. IsSeq(u)
  BY <1>3, AsSeq
<1>. QED
  BY <1>2, <1>3, <1>4 DEF u

\* A sequence without its last element, ...
LEMMA PopIs ==
  ASSUME NEW s, IsSeq(s), s # <<>>
  PROVE  /\ Len(s) \in Nat \ {0} /\ Last(s) = s[Len(s)]
         /\ IsSeq(Front(s)) /\ Len(Front(s)) = Len(s) - 1 /\ \A i \in 1..Len(s) - 1 : Front(s)[i] = s[i]
<1>. DEFINE R == {s[i] : i \in DOMAIN s}
            f == SubSeq(s, 1, Len(s) - 1)
<1>1. s \in Seq(R)
  BY DEF IsSeq
<1>. HIDE DEF R
<1>2. Len(s) \in Nat \ {0} /\ Last(s) = s[Len(s)]
  BY <1>1 DEF Last
<1>3. f \in Seq(R) /\ Len(f) = Len(s) - 1 /\ \A i \in 1..Len(s) - 1 : f[i] = s[i]
  <2>. DEFINE n == Len(s) - 1
  <2>1. n \in Nat /\ n <= Len(s)
    BY <1>2
  <2>. HIDE DEF n
  <2>2. /\ SubSeq(s, 1, n) \in Seq(R) /\ Len(SubSeq(s, 1, n)) = n
        /\ \A i \in 1..n : SubSeq(s, 1, n)[i] = s[i]
    BY <1>1, <2>1
  <2>. QED BY <2>2 DEF n
<1>. HIDE DEF f
<1>4. DOMAIN f = 1..Len(f) /\ f = [i \in DOMAIN f |-> f[i]] /\ Len(f) \in Nat
  BY <1>3
<1>5. IsSeq(f)
  BY <1>4, AsSeq
<1>6. f = Front(s)
  BY DEF Front, f
<1>. QED
  BY <1>2, <1>3, <1>5, <1>6

\* ... and with one more.
LEMMA PushIs ==
  ASSUME NEW s, IsSeq(s), NEW x
  PROVE  /\ Len(s) \in Nat /\ IsSeq(Append(s, x)) /\ Len(Append(s, x)) = Len(s) + 1
         /\ Append(s, x) # <<>> /\ Last(Append(s, x)) = x
         /\ Append(s, x)[Len(s) + 1] = x /\ (\A i \in 1..Len(s) : Append(s, x)[i] = s[i])
         /\ Front(Append(s, x)) = s
<1>. DEFINE R == {s[i] : i \in DOMAIN s} \cup {x}
            f == Append(s, x)
<1>1. s \in Seq(R) /\ x \in R
  BY DEF IsSeq
<1>. HIDE DEF R
<1>2. /\ f \in Seq(R) /\ Len(f) = Len(s) + 1 /\ Len(s) \in Nat
      /\ f[Len(s) + 1] = x /\ \A i \in 1..Len(s) : f[i] = s[i]
  BY <1>1
<1>. HIDE DEF f
<1>3. DOMAIN f = 1..Len(f) /\ f = [i \in DOMAIN f |-> f[i]] /\ Len(f) \in Nat
  BY <1>2
<1>4. IsSeq(f)
  BY <1>3, AsSeq
<1>5. f # <<>> /\ Last(f) = x
  BY <1>2 DEF Last
<1>6. Front(f) = s
  <2>. DEFINE g == SubSeq(f, 1, Len(f) - 1)
  <2>1. g = [i \in 1..Len(s) |-> f[i]]
    BY <1>2
  <2>2. g = [i \in 1..Len(s) |-> s[i]]
    BY <1>2, <2>1
  <2>3. s = [i \in 1..Len(s) |-> s[i]]
    BY <1>1
  <2>. QED BY <2>2, <2>3 DEF Front
<1>. QED
  BY <1>2, <1>4, <1>5, <1>6 DEF f

\* fb_sort_entries leaves as many rows as there were.
LEMMA SortedIs ==
  ASSUME NEW S, NEW n \in Nat, NEW sort
  PROVE  IsSeq(Sorted(S, n, sort)) /\ Len(Sorted(S, n, sort)) = n
<1>. DEFINE u == Sorted(S, n, sort)
            at(i) == CHOOSE x \in S : Cardinality({y \in S : Before(y, x, sort)}) = i - 1
<1>1. u = [i \in 1..n |-> at(i)]
  BY Zenon DEF Sorted
<1>. HIDE DEF at, u
<1>2. DOMAIN u = 1..n /\ u = [i \in DOMAIN u |-> u[i]]
  BY <1>1
<1>3. IsSeq(u) /\ Len(u) = n
  BY <1>2, AsSeq
<1>. QED
  BY <1>3 DEF u

\* What fb_count and fb_selected are in any list.
Fields == {"dir", "rows", "count", "row", "sort", "active", "short"}
ListOK(f) ==
  /\ f = [x \in Fields |-> f[x]] /\ IsSeq(f.rows) /\ IsSeq(f.dir)
  /\ f.count \in 0..MaxEntries /\ f.count <= Len(f.rows)
  /\ f.row \in Nat \ {0} /\ (f.count > 0 => f.row <= f.count)

\* readdir gives no more than the list takes.
LEMMA ListingIs ==
  ASSUME NEW t, IsFiniteSet(DOMAIN t), NEW d, NEW S \in Listings(t, d)
  PROVE  Cardinality(S) \in 0..MaxEntries
<1>. DEFINE C == ChildrenOf(t, d)
            g == [p \in C |-> EntryOf(t, p)]
            all == {g[p] : p \in C}
<1>1. IsFiniteSet(C) /\ DOMAIN g = C
  <2>1. C \in SUBSET DOMAIN t
    BY DEF ChildrenOf
  <2>. QED BY <2>1, FS_Subset, Zenon
<1>2. S \in IF Cardinality(all) <= MaxEntries THEN {all} ELSE kSubset(MaxEntries, all)
  BY DEF Listings
<1>. HIDE DEF g, C
<1>3. IsFiniteSet(all)
  BY <1>1, FiniteImage
<1>. HIDE DEF all
<1>4. Cardinality(all) \in Nat
  BY <1>3, FS_CardinalityType
<1>. QED
  BY <1>2, <1>4, FileBrowserAssumption DEF kSubset

IsList(f) == f = [x \in Fields |-> f[x]]

\* A change of one part of the list leaves the others.
LEMMA ListSet ==
  ASSUME NEW f, IsList(f), NEW k \in Fields, NEW v
  PROVE  /\ IsList([f EXCEPT ![k] = v]) /\ [f EXCEPT ![k] = v][k] = v
         /\ \A x \in Fields \ {k} : [f EXCEPT ![k] = v][x] = f[x]
<1>1. DOMAIN f = Fields
  BY DEF IsList
<1>2. IsList([f EXCEPT ![k] = v])
  BY <1>1, Zenon DEF IsList
<1>. QED
  BY <1>1, <1>2

\* fb_open leaves a list whose selection is in it, or an empty one.
LEMMA OpenedIs ==
  ASSUME NEW f, ListOK(f), NEW t, IsFiniteSet(DOMAIN t), NEW d, IsSeq(d), NEW g \in Opened(f, t, d)
  PROVE  ListOK(g)
<1>. DEFINE m1 == [f EXCEPT !["dir"] = d]
            m2 == [m1 EXCEPT !["count"] = 0]
            m == [m2 EXCEPT !["row"] = 1]
            R(S) == Sorted(S, Cardinality(S), f.sort) \o SubSeq(f.rows, Cardinality(S) + 1, Len(f.rows))
            n1(S) == [m EXCEPT !["rows"] = R(S)]
            n2(S) == [n1(S) EXCEPT !["count"] = Cardinality(S)]
            n(S) == [n2(S) EXCEPT !["active"] = TRUE]
<1>1. IsList(f)
  BY DEF ListOK, IsList
<1>2. IsList(m1) /\ m1["dir"] = d /\ m1["rows"] = f["rows"] /\ m1["sort"] = f["sort"]
  BY <1>1, ListSet DEF Fields
<1>. HIDE DEF m1
<1>3. IsList(m2) /\ m2["dir"] = d /\ m2["rows"] = f["rows"] /\ m2["sort"] = f["sort"] /\ m2["count"] = 0
  BY <1>2, ListSet DEF Fields
<1>. HIDE DEF m2
<1>4. IsList(m) /\ m["dir"] = d /\ m["rows"] = f["rows"] /\ m["sort"] = f["sort"] /\ m["count"] = 0 /\ m["row"] = 1
  BY <1>3, ListSet DEF Fields
<1>. HIDE DEF m
<1>5. ListOK(m)
  BY <1>4, FileBrowserAssumption DEF ListOK, IsList
<1>. HIDE DEF R
<1>6. ASSUME NEW S \in Listings(t, d) PROVE ListOK(n(S))
  <2>1. Cardinality(S) \in 0..MaxEntries /\ Cardinality(S) \in Nat
    BY ListingIs, FileBrowserAssumption
  <2>2. IsSeq(R(S)) /\ Len(R(S)) \in Nat /\ Cardinality(S) <= Len(R(S))
    <3>. DEFINE a == Sorted(S, Cardinality(S), f.sort)
                b == SubSeq(f.rows, Cardinality(S) + 1, Len(f.rows))
    <3>1. IsSeq(a) /\ Len(a) = Cardinality(S)
      BY <2>1, SortedIs
    <3>2. IsSeq(f.rows)
      BY DEF ListOK
    <3>3. IsSeq(b) /\ Len(b) \in Nat
      BY <2>1, <3>2, Tail1
    <3>4. R(S) = a \o b
      BY Zenon DEF R
    <3>. HIDE DEF a, b
    <3>5. IsSeq(a \o b) /\ Len(a \o b) = Len(a) + Len(b)
      BY <3>1, <3>3, Concat
    <3>. QED BY <2>1, <3>1, <3>3, <3>4, <3>5
  <2>3. IsList(n1(S)) /\ n1(S)["rows"] = R(S) /\ n1(S)["row"] = 1 /\ n1(S)["dir"] = d
    BY <1>4, ListSet DEF Fields
  <2>. HIDE DEF n1
  <2>4. IsList(n2(S)) /\ n2(S)["rows"] = R(S) /\ n2(S)["row"] = 1 /\ n2(S)["count"] = Cardinality(S)
        /\ n2(S)["dir"] = d
    BY <2>3, ListSet DEF Fields
  <2>. HIDE DEF n2
  <2>5. IsList(n(S)) /\ n(S)["rows"] = R(S) /\ n(S)["row"] = 1 /\ n(S)["count"] = Cardinality(S)
        /\ n(S)["dir"] = d
    BY <2>4, ListSet DEF Fields
  <2>. HIDE DEF n
  <2>. QED BY <2>1, <2>2, <2>5 DEF ListOK, IsList
<1>7. \/ g = m
      \/ \E S \in Listings(t, d) : g = n(S)
  <2>1. [f EXCEPT !.dir = d, !.count = 0, !.row = 1] = m
    BY Zenon DEF m, m1, m2
  <2>. DEFINE q == [f EXCEPT !.dir = d, !.count = 0, !.row = 1]
  <2>2. g \in IF ~IsDir(t, d) THEN {q}
              ELSE {[q EXCEPT !.rows = Sorted(S, Cardinality(S), f.sort) \o SubSeq(@, Cardinality(S) + 1, Len(@)),
                      !.count = Cardinality(S), !.active = TRUE] : S \in Listings(t, d)}
    BY Zenon DEF Opened
  <2>3. q = m
    BY <2>1
  <2>. HIDE DEF q
  <2>4. \A S : [m EXCEPT !.rows = Sorted(S, Cardinality(S), f.sort) \o SubSeq(@, Cardinality(S) + 1, Len(@)),
                      !.count = Cardinality(S), !.active = TRUE] = n(S)
    BY <1>4, Zenon DEF n, n1, n2, R
  <2>5. CASE ~IsDir(t, d)
    BY <2>2, <2>3, <2>5, Zenon
  <2>6. CASE IsDir(t, d)
    <3>1. PICK S \in Listings(t, d) :
            g = [m EXCEPT !.rows = Sorted(S, Cardinality(S), f.sort) \o SubSeq(@, Cardinality(S) + 1, Len(@)),
                          !.count = Cardinality(S), !.active = TRUE]
      BY <2>2, <2>3, <2>6, Zenon
    <3>2. g = n(S)
      BY <2>4, <3>1, Zenon
    <3>. HIDE DEF n
    <3>. QED BY <3>2
  <2>. QED BY <2>5, <2>6
<1>. HIDE DEF n
<1>. QED
  BY <1>5, <1>6, <1>7

\* Another row is selected.
LEMMA RowSet ==
  ASSUME NEW f, ListOK(f), NEW i \in 1..f.count
  PROVE  ListOK([f EXCEPT !.row = i])
<1>. DEFINE g == [f EXCEPT !["row"] = i]
<1>1. IsList(g) /\ g["row"] = i /\ g["rows"] = f["rows"] /\ g["count"] = f["count"] /\ g["dir"] = f["dir"]
  BY ListSet DEF ListOK, IsList, Fields
<1>2. g = [f EXCEPT !.row = i]
  BY Zenon
<1>3. i \in Nat \ {0} /\ i <= f.count
  BY DEF ListOK
<1>. HIDE DEF g
<1>4. ListOK(g)
  BY <1>1, <1>3 DEF ListOK, IsList
<1>. QED
  BY <1>2, <1>4, Zenon

\* A row is opened.
LEMMA EnteredIs ==
  ASSUME NEW f, ListOK(f), NEW t, IsFiniteSet(DOMAIN t), NEW g \in Entered(f, t)
  PROVE  ListOK(g)
<1>1. IsSeq(Selected(f))
  BY PushIs DEF ListOK, Selected
<1>. QED
  BY <1>1, OpenedIs, Zenon DEF Entered

\* A row is touched.
LEMMA TouchedIs ==
  ASSUME NEW f, ListOK(f), NEW t, IsFiniteSet(DOMAIN t), NEW i, NEW g \in Touched(f, t, i)
  PROVE  ListOK(g)
<1>1. CASE i \in 1..f.count
  <2>. DEFINE q == [f EXCEPT !.row = i]
  <2>1. ListOK(q)
    BY <1>1, RowSet
  <2>2. g \in Entered(q, t)
    BY <1>1, Zenon DEF Touched
  <2>. HIDE DEF q
  <2>. QED BY <2>1, <2>2, EnteredIs
<1>2. CASE i \notin 1..f.count
  BY <1>2, Zenon DEF Touched
<1>. QED
  BY <1>1, <1>2

\* The rows are sorted another way.
LEMMA ResortedIs ==
  ASSUME NEW f, ListOK(f)
  PROVE  ListOK(Resorted(f))
<1>. DEFINE sort == (f.sort + 1) % 3
            a == Sorted({f.rows[i] : i \in 1..f.count}, f.count, sort)
            b == SubSeq(f.rows, f.count + 1, Len(f.rows))
            g1 == [f EXCEPT !["sort"] = sort]
            r == a \o b
            g == [g1 EXCEPT !["rows"] = r]
<1>1. f.count \in Nat /\ f.count <= Len(f.rows) /\ IsSeq(f.rows) /\ IsList(f)
  BY FileBrowserAssumption DEF ListOK, IsList
<1>2. IsSeq(a) /\ Len(a) = f.count
  BY <1>1, SortedIs
<1>3. IsSeq(b) /\ Len(b) \in Nat
  BY <1>1, Tail1
<1>4. Resorted(f) = g
  <2>1. [f EXCEPT !.sort = sort,
                  !.rows = Sorted({@[i] : i \in 1..f.count}, f.count, sort) \o SubSeq(@, f.count + 1, Len(@))] = g
    BY <1>1, Zenon
  <2>. QED BY <2>1, Zenon DEF Resorted
<1>. HIDE DEF a, b
<1>5. IsSeq(r) /\ Len(r) = Len(a) + Len(b)
  BY <1>2, <1>3, Concat
<1>. HIDE DEF r
<1>6. IsList(g1) /\ g1["row"] = f["row"] /\ g1["count"] = f["count"] /\ g1["dir"] = f["dir"]
  BY <1>1, ListSet DEF Fields
<1>. HIDE DEF g1
<1>7. IsList(g) /\ g["rows"] = r /\ g["row"] = f["row"] /\ g["count"] = f["count"] /\ g["dir"] = f["dir"]
  BY <1>6, ListSet DEF Fields
<1>. HIDE DEF g
<1>8. ListOK(g)
  <2>1. f.count <= Len(r)
    BY <1>1, <1>2, <1>3, <1>5
  <2>2. f["count"] \in 0..MaxEntries /\ f["row"] \in Nat \ {0} /\ (f["count"] > 0 => f["row"] <= f["count"])
        /\ IsSeq(f["dir"])
    BY DEF ListOK
  <2>. QED BY <1>5, <1>7, <2>1, <2>2 DEF ListOK, IsList
<1>. QED
  BY <1>4, <1>8, Zenon

\* The list that shows, the question about it, and the copy that runs.
BrowserInv ==
  /\ IsFiniteSet(DOMAIN tree) /\ ListOK(fb) /\ mode \in {"browse", "delete", "rename"}
  /\ mode # "browse" => fb.count > 0 /\ asked = Selected(fb)
  /\ ~Waiting => mode = "browse"

\* A step uses up one failure at most.
Falls == rare' = rare \/ (rare > 0 /\ rare' = rare - 1)

\* A step in which something fails, and one in which nothing does.
LEMMA RareFalls == Rare \/ Fine => Falls
BY Zenon DEF Rare, Fine, Falls

\* The browser closes, or opens from the scan's details: the list stays what it was.
LEMMA ActiveSet ==
  ASSUME NEW f, ListOK(f), NEW k \in {"active", "short"}, NEW v
  PROVE  ListOK([f EXCEPT ![k] = v]) /\ [f EXCEPT ![k] = v].count = f.count
         /\ Selected([f EXCEPT ![k] = v]) = Selected(f)
<1>. DEFINE g == [f EXCEPT ![k] = v]
<1>1. IsList(f) /\ k \in Fields
  BY DEF ListOK, IsList, Fields
<1>2. /\ IsList(g) /\ g["row"] = f["row"] /\ g["rows"] = f["rows"] /\ g["count"] = f["count"]
      /\ g["dir"] = f["dir"]
  BY <1>1, ListSet DEF Fields
<1>. HIDE DEF g
<1>3. ListOK(g)
  BY <1>2 DEF ListOK, IsList
<1>4. Selected(g) = Selected(f)
  BY <1>2, Zenon DEF Selected, Entry
<1>. QED
  BY <1>2, <1>3, <1>4 DEF g

\* The paths that fb_open is given at first.
LEMMA RootIs == IsSeq(<<>>) /\ \A name : IsSeq(<<name>>)
BY DEF IsSeq

\* What the operations on the storage page leave.
LEMMA Settled ==
  ASSUME IsFiniteSet(DOMAIN tree'), ListOK(fb'), Waiting', mode' = "browse"
  PROVE  BrowserInv'
BY Zenon DEF BrowserInv

\* What the controls of the list leave alone.
LEMMA ListKeeps ==
  ASSUME BrowserInv, Waiting, OnlyList
  PROVE  Waiting' /\ IsFiniteSet(DOMAIN tree') /\ tree' = tree /\ Falls
BY Zenon DEF BrowserInv, Waiting, Free, OnlyList, NoPaste, Falls

\* Every control of the storage page: a question is about what is selected, and it is answered or dropped before the list changes.
LEMMA OnStorageKeeps ==
  ASSUME BrowserInv, Waiting, OnStorage
  PROVE  BrowserInv' /\ Falls
<1>0. IsFiniteSet(DOMAIN tree) /\ ListOK(fb) /\ mode \in {"browse", "delete", "rename"}
  BY Zenon DEF BrowserInv
<1>. DEFINE long == [fb EXCEPT !.short = FALSE]
            brief == [fb EXCEPT !.short = TRUE]
<1>a. ListOK(long) /\ ListOK(brief)
  <2>. DEFINE l == [fb EXCEPT !["short"] = FALSE]
              b == [fb EXCEPT !["short"] = TRUE]
  <2>1. ListOK(l) /\ ListOK(b)
    BY <1>0, ActiveSet
  <2>2. long = l /\ brief = b
    BY Zenon
  <2>. HIDE DEF l, b, long, brief
  <2>. QED BY <2>1, <2>2
<1>. HIDE DEF long, brief
<1>1. ASSUME NEW i \in -1..MaxEntries, OpenRoot(i) PROVE BrowserInv' /\ Falls
  <2>1. OnlyList /\ mode' = "browse"
    BY <1>1, Zenon DEF OpenRoot
  <2>2. PICK f \in Opened(long, tree, <<>>) : IF i = 0 /\ f.active THEN fb' = Resorted(f) ELSE fb' \in Touched(f, tree, i)
    BY <1>1, Zenon DEF OpenRoot, long
  <2>3. ListOK(f)
    BY <1>0, <1>a, RootIs, OpenedIs
  <2>4. ListOK(fb')
    BY <1>0, <2>2, <2>3, TouchedIs, ResortedIs, Zenon
  <2>. QED BY <2>1, <2>4, ListKeeps, Settled
<1>2. ASSUME NEW name, NEW dir \in BOOLEAN, OpenDetail(name, dir) PROVE BrowserInv' /\ Falls
  <2>1. OnlyList /\ mode' = "browse"
    BY <1>2, Zenon DEF OpenDetail
  <2>2. CASE dir
    <3>1. fb' \in Opened(brief, tree, <<name>>)
      BY <1>2, <2>2, Zenon DEF OpenDetail, brief
    <3>2. ListOK(fb')
      BY <1>0, <1>a, <3>1, RootIs, OpenedIs
    <3>. QED BY <2>1, <3>2, ListKeeps, Settled
  <2>3. CASE ~dir
    <3>. DEFINE here(f) == {i \in 1..f.count : f.rows[i].name = name /\ ~f.rows[i].dir}
                row(f) == IF here(f) = {} THEN 1 ELSE CHOOSE i \in here(f) : TRUE
    <3>1. PICK f \in Opened(long, tree, <<>>) : fb' = [f EXCEPT !.row = row(f)]
      BY <1>2, <2>3, Zenon DEF OpenDetail, long
    <3>2. ListOK(f)
      BY <1>0, <1>a, RootIs, OpenedIs
    <3>3. CASE here(f) = {}
      <4>. DEFINE g == [f EXCEPT !["row"] = 1]
      <4>1. fb' = g
        BY <3>1, <3>3, Zenon
      <4>2. IsList(g) /\ g["row"] = 1 /\ g["rows"] = f["rows"] /\ g["count"] = f["count"]
            /\ g["dir"] = f["dir"]
        BY <3>2, ListSet DEF ListOK, IsList, Fields
      <4>. HIDE DEF g
      <4>3. ListOK(g)
        BY <3>2, <4>2 DEF ListOK, IsList
      <4>. QED BY <2>1, <4>1, <4>3, ListKeeps, Settled
    <3>4. CASE here(f) # {}
      <4>. DEFINE i == CHOOSE i \in here(f) : TRUE
      <4>1. i \in here(f)
        BY <3>4
      <4>2. i \in 1..f.count
        BY <4>1
      <4>3. fb' = [f EXCEPT !.row = i]
        BY <3>1, <3>4, Zenon
      <4>. HIDE DEF i
      <4>4. ListOK(fb')
        BY <3>2, <4>2, <4>3, RowSet
      <4>. QED BY <2>1, <4>4, ListKeeps, Settled
    <3>. QED BY <3>3, <3>4
  <2>. QED BY <2>2, <2>3
<1>3. ASSUME NEW i, Touch(i) PROVE BrowserInv' /\ Falls
  <2>1. OnlyList /\ mode' = "browse" /\ fb' \in Touched(fb, tree, i)
    BY <1>3, Zenon DEF Touch
  <2>2. ListOK(fb')
    BY <1>0, <2>1, TouchedIs
  <2>. QED BY <2>1, <2>2, ListKeeps, Settled
<1>4. CASE OpenRow
  <2>1. /\ mode' = "browse" /\ Rare /\ paste' = NoPaste /\ UNCHANGED <<tree, job>>
        /\ fb' \in Entered(fb, tree) \/ fb' = fb
    BY <1>4, Zenon DEF OpenRow
  <2>2. ListOK(fb')
    BY <1>0, <2>1, EnteredIs, Zenon
  <2>3. Waiting' /\ tree' = tree
    BY <2>1, Zenon DEF Waiting, Free, NoPaste
  <2>. QED BY <1>0, <2>1, <2>2, <2>3, RareFalls, Settled, Zenon
<1>5. CASE Back
  <2>1. OnlyList /\ mode' = "browse"
        /\ \/ fb' \in Opened(fb, tree, Front(fb.dir)) /\ (Len(fb.dir) > 1 \/ Len(fb.dir) > 0)
           \/ fb' = [fb EXCEPT !.active = FALSE]
    BY <1>5, Zenon DEF Back
  <2>2. CASE fb' \in Opened(fb, tree, Front(fb.dir)) /\ (Len(fb.dir) > 1 \/ Len(fb.dir) > 0)
    <3>1. fb.dir # <<>> /\ IsSeq(fb.dir)
      BY <1>0, <2>2 DEF ListOK
    <3>2. IsSeq(Front(fb.dir))
      BY <3>1, PopIs
    <3>3. ListOK(fb')
      BY <1>0, <2>2, <3>2, OpenedIs
    <3>. QED BY <2>1, <3>3, ListKeeps, Settled
  <2>3. CASE fb' = [fb EXCEPT !.active = FALSE]
    <3>. DEFINE g == [fb EXCEPT !["active"] = FALSE]
    <3>1. fb' = g
      BY <2>3, Zenon
    <3>2. ListOK(g)
      BY <1>0, ActiveSet
    <3>. HIDE DEF g
    <3>. QED BY <2>1, <3>1, <3>2, ListKeeps, Settled
  <2>. QED BY <2>1, <2>2, <2>3
<1>6. CASE Sort
  <2>1. OnlyList /\ mode' = "browse" /\ fb' = Resorted(fb)
    BY <1>6, Zenon DEF Sort
  <2>2. ListOK(fb')
    BY <1>0, <2>1, ResortedIs, Zenon
  <2>. QED BY <2>1, <2>2, ListKeeps, Settled
<1>7. ASSUME NEW step \in {-1, 1}, MoveRow(step) PROVE BrowserInv' /\ Falls
  <2>. DEFINE i == fb.row + step
  <2>1. OnlyList /\ mode' = "browse" /\ i \in 1..fb.count /\ fb' = [fb EXCEPT !.row = i]
    BY <1>7, Zenon DEF MoveRow
  <2>. HIDE DEF i
  <2>2. ListOK(fb')
    BY <1>0, <2>1, RowSet
  <2>. QED BY <2>1, <2>2, ListKeeps, Settled
<1>8. ASSUME NEW question \in {"delete", "rename"}, Ask(question) PROVE BrowserInv' /\ Falls
  <2>1. OnlyList /\ mode' = question /\ asked' = Selected(fb) /\ fb' = fb /\ fb.count > 0
    BY <1>8, Zenon DEF Ask
  <2>2. Selected(fb') = Selected(fb)
    BY <2>1, Zenon
  <2>3. mode' \in {"browse", "delete", "rename"}
    BY <2>1
  <2>. QED BY <1>0, <2>1, <2>2, <2>3, ListKeeps, Zenon DEF BrowserInv
<1>9. CASE Decline
  <2>1. OnlyList /\ mode' = "browse" /\ fb' = fb
    BY <1>9, Zenon DEF Decline
  <2>. QED BY <1>0, <2>1, ListKeeps, Settled, Zenon
<1>10. ASSUME mode' = "browse", paste' = NoPaste, UNCHANGED job, Rare \/ Fine,
              \/ IsFiniteSet(DOMAIN tree') /\ fb' \in Opened(fb, tree', fb.dir)
              \/ UNCHANGED <<tree, fb>>
       PROVE  BrowserInv' /\ Falls
  <2>1. Waiting'
    BY <1>10, Zenon DEF Waiting, Free, NoPaste
  <2>2. ListOK(fb') /\ IsFiniteSet(DOMAIN tree')
    <3>1. IsSeq(fb.dir)
      BY <1>0, Zenon DEF ListOK
    <3>. QED BY <1>0, <1>10, <3>1, OpenedIs, Zenon
  <2>. QED BY <1>10, <2>1, <2>2, RareFalls, Settled, Zenon
<1>11. CASE Delete
  <2>1. /\ mode' = "browse" /\ paste' = NoPaste /\ UNCHANGED job /\ (Rare \/ Fine)
        /\ \/ tree' = Without(tree, Selected(fb)) /\ fb' \in Opened(fb, tree', fb.dir)
           \/ UNCHANGED <<tree, fb>>
    BY <1>11, Zenon DEF Delete
  <2>2. IsFiniteSet(DOMAIN Without(tree, Selected(fb)))
    BY <1>0, WithoutFinite
  <2>. QED BY <1>10, <2>1, <2>2, Zenon
<1>12. ASSUME NEW name, RenameTo(name) PROVE BrowserInv' /\ Falls
  <2>. DEFINE q == Append(fb.dir, name)
  <2>1. /\ mode' = "browse" /\ paste' = NoPaste /\ UNCHANGED job /\ (Rare \/ Fine)
        /\ \/ tree' = Renamed(tree, Selected(fb), q) /\ fb' \in Opened(fb, tree', fb.dir)
           \/ UNCHANGED <<tree, fb>>
    BY <1>12, Zenon DEF RenameTo
  <2>. HIDE DEF q
  <2>2. IsFiniteSet(DOMAIN Renamed(tree, Selected(fb), q))
    BY <1>0, RenamedFinite
  <2>. QED BY <1>10, <2>1, <2>2, Zenon
<1>. QED
  BY <1>1, <1>2, <1>3, <1>4, <1>5, <1>6, <1>7, <1>8, <1>9, <1>11, <1>12, Zenon DEF OnStorage

\* A key that does nothing.
LEMMA IdleKeeps ==
  ASSUME BrowserInv, Waiting, Idle
  PROVE  BrowserInv' /\ Falls
<1>1. OnlyList /\ UNCHANGED <<fb, mode, asked>>
  BY Zenon DEF Idle
<1>2. Selected(fb') = Selected(fb)
  BY <1>1, Zenon
<1>. QED
  BY <1>1, <1>2, ListKeeps, Zenon DEF BrowserInv

\* While the question is open nothing moves the list; while a copy runs no question is open.
LEMMA BrowseKeeps ==
  ASSUME BrowserInv, mode' = "browse", Rare \/ Fine, IsFiniteSet(DOMAIN tree'),
         \/ fb' \in Opened(fb, tree', fb.dir)
         \/ UNCHANGED fb
  PROVE  BrowserInv' /\ Falls
<1>1. ListOK(fb')
  <2>1. ListOK(fb) /\ IsSeq(fb.dir)
    BY Zenon DEF BrowserInv, ListOK
  <2>. QED BY <2>1, OpenedIs, Zenon
<1>. QED
  BY <1>1, RareFalls, Zenon DEF BrowserInv

\* R, ZL and L: no question is open when they paste.
LEMMA ClipKeyKeeps ==
  ASSUME BrowserInv, Waiting, NEW key, ClipKey(key)
  PROVE  BrowserInv' /\ Falls
<1>0. IsFiniteSet(DOMAIN tree)
  BY Zenon DEF BrowserInv
<1>1. ASSUME NEW cut, Copy(cut) PROVE BrowserInv' /\ Falls
  <2>1. paste' = NoPaste /\ UNCHANGED <<tree, fb, mode, job, asked, rare>>
    BY <1>1, Zenon DEF Copy
  <2>2. Waiting' /\ Selected(fb') = Selected(fb)
    BY <2>1, Zenon DEF Waiting, Free, NoPaste
  <2>. QED BY <2>1, <2>2, Zenon DEF BrowserInv, Falls
<1>2. CASE mode = "browse" /\ PasteCut
  <2>1. /\ mode' = "browse" /\ (Rare \/ Fine)
        /\ \/ tree' = Renamed(tree, clip.path, Destination) /\ fb' \in Opened(fb, tree', fb.dir)
           \/ UNCHANGED <<tree, fb>>
    BY <1>2, Zenon DEF PasteCut
  <2>2. IsFiniteSet(DOMAIN Renamed(tree, clip.path, Destination))
    BY <1>0, RenamedFinite
  <2>. QED BY <1>0, <2>1, <2>2, BrowseKeeps, Zenon
<1>3. CASE mode = "browse" /\ Paste
  <2>1. mode' = "browse" /\ UNCHANGED <<tree, fb, rare>>
    BY <1>3, Zenon DEF Paste
  <2>. QED BY <1>0, <2>1, BrowseKeeps, Zenon DEF Fine
<1>. QED
  BY <1>1, <1>2, <1>3, IdleKeeps, Zenon DEF ClipKey

\* A copy runs while no question is open.
LEMMA CopyKeeps ==
  ASSUME BrowserInv, CopySteps
  PROVE  BrowserInv' /\ Falls
<1>0. IsFiniteSet(DOMAIN tree)
  BY Zenon DEF BrowserInv
<1>1. mode' = mode /\ ~Waiting
  BY Zenon DEF CopySteps, EnterDir, EnterFile, EnterFails, NextEntry, ListEnds, Block, BlockFails,
               FileEnds, Pasted, Step, GiveUp, Waiting
<1>2. mode' = "browse"
  BY <1>1, Zenon DEF BrowserInv
<1>3. /\ Rare \/ Fine
      /\ \/ \E what : tree' = Adding(tree, Top.dst, Single(what)) /\ fb' = fb
         \/ DOMAIN tree' = DOMAIN tree /\ fb' = fb
         \/ tree' = tree /\ fb' \in Opened(fb, tree', fb.dir)
  <2>1. CASE EnterDir \/ EnterFile
    BY <2>1, Zenon DEF EnterDir, EnterFile, Fine
  <2>2. CASE EnterFails \/ BlockFails
    BY <2>2, Zenon DEF EnterFails, BlockFails, GiveUp, Fine
  <2>3. CASE NextEntry \/ ListEnds \/ FileEnds
    BY <2>3, Zenon DEF NextEntry, ListEnds, FileEnds, Fine
  <2>4. CASE Block
    BY <2>4 DEF Block, Fine
  <2>5. CASE Pasted
    BY <2>5, Zenon DEF Pasted, Fine
  <2>. QED BY <2>1, <2>2, <2>3, <2>4, <2>5, Zenon DEF CopySteps
<1>4. IsFiniteSet(DOMAIN tree')
  BY <1>0, <1>3, SingleFinite, AddingFinite, Zenon
<1>. QED
  BY <1>2, <1>3, <1>4, BrowseKeeps, Zenon

\* Every step of the file browser, the other users of the card included.
LEMMA BrowserNextKeeps ==
  ASSUME BrowserInv, BrowserNext
  PROVE  BrowserInv' /\ Falls
<1>1. CASE Waiting /\ Act /\ BrowserInput
  <2>1. CASE OnStorage
    BY <1>1, <2>1, OnStorageKeeps
  <2>2. CASE CloseBrowser
    <3>. DEFINE g == [fb EXCEPT !["active"] = FALSE]
    <3>1. fb' = g /\ UNCHANGED <<mode, asked>> /\ OnlyList
      BY <2>2, Zenon DEF CloseBrowser
    <3>2. ListOK(g) /\ g.count = fb.count /\ Selected(g) = Selected(fb)
      BY ActiveSet DEF BrowserInv
    <3>. HIDE DEF g
    <3>. QED BY <1>1, <3>1, <3>2, ListKeeps, Zenon DEF BrowserInv
  <2>3. ASSUME NEW key, BrowserKeys(key) PROVE BrowserInv' /\ Falls
    BY <1>1, <2>3, ClipKeyKeeps, IdleKeeps, Zenon DEF BrowserKeys
  <2>4. ASSUME NEW p, BrowserTab(p) PROVE BrowserInv' /\ Falls
    BY <1>1, <2>4, IdleKeeps, Zenon DEF BrowserTab
  <2>. QED BY <1>1, <2>1, <2>2, <2>3, <2>4, Zenon DEF BrowserInput
<1>2. CASE CopySteps
  BY <1>2, CopyKeeps
<1>3. CASE OutsideRemove
  <2>1. PICK p : tree' = Without(tree, p)
    BY <1>3, Zenon DEF OutsideRemove
  <2>2. IsFiniteSet(DOMAIN tree')
    BY <2>1, WithoutFinite DEF BrowserInv
  <2>3. UNCHANGED <<fb, mode, asked>> /\ Waiting' /\ Falls
    BY <1>3, RareFalls, Zenon DEF OutsideRemove, Waiting, Free, NoPaste
  <2>4. Selected(fb') = Selected(fb)
    BY <2>3, Zenon
  <2>. QED BY <2>2, <2>3, <2>4, Zenon DEF BrowserInv
<1>. QED
  BY <1>1, <1>2, <1>3, Zenon DEF BrowserNext

\* The browser at the start.
LEMMA BrowserStart ==
  ASSUME BrowserInit
  PROVE  BrowserInv
<1>1. tree \in CardTrees /\ fb = Closed /\ mode = "browse"
  BY Zenon DEF BrowserInit
<1>2. IsFiniteSet(DOMAIN tree)
  BY <1>1, FileBrowserAssumption DEF IsCard
<1>3. ListOK(Closed)
  <2>1. Closed = [x \in Fields |-> Closed[x]]
    BY DEF Closed, Fields
  <2>2. IsSeq(<<>>)
    BY DEF IsSeq
  <2>. QED BY <2>1, <2>2, FileBrowserAssumption DEF ListOK, Closed
<1>. QED
  BY <1>1, <1>2, <1>3, Zenon DEF BrowserInv

\* So what is asked is what will be done.
LEMMA AskedFollows == BrowserInv => AskedIsDone
<1>. SUFFICES ASSUME BrowserInv, mode # "browse" PROVE fb.row <= fb.count /\ asked = Selected(fb)
  BY Zenon DEF AskedIsDone
<1>. QED
  BY DEF BrowserInv, ListOK

-----------------------------------------------------------------------------
(* Paths and cards.                                                        *)

\* Paths of any length, of names with any number of "_copy".
Naming == Bases \X Nat
Whole == Seq(Naming)

\* What it is to be under a path, name by name.
LEMMA PrefixIs ==
  ASSUME NEW p \in Whole, NEW q \in Whole
  PROVE  IsPrefix(q, p) <=> Len(q) <= Len(p) /\ \A i \in 1..Len(q) : p[i] = q[i]
<1>. DEFINE P == SubSeq(p, 1, Len(q))
            Q == SubSeq(q, 1, Len(q))
<1>1. ASSUME Len(q) <= Len(p)
      PROVE  P = Q <=> \A i \in 1..Len(q) : p[i] = q[i]
  <2>1. /\ DOMAIN P = 1..Len(q) /\ DOMAIN Q = 1..Len(q) /\ P \in Whole /\ Q \in Whole
        /\ Len(P) = Len(q) /\ Len(Q) = Len(q)
        /\ \A i \in 1..Len(q) : P[i] = p[i] /\ Q[i] = q[i]
    BY <1>1 DEF Whole
  <2>. HIDE DEF P, Q
  <2>2. (\A i \in 1..Len(q) : p[i] = q[i]) => P = Q
    BY <2>1, SeqEqual DEF Whole
  <2>. QED BY <2>1, <2>2
<1>. QED
  BY <1>1 DEF IsPrefix

\* Two paths joined: the names of the one, then those of the other.
LEMMA JoinIs ==
  ASSUME NEW p \in Whole, NEW w \in Whole
  PROVE  /\ p \o w \in Whole /\ Len(p \o w) = Len(p) + Len(w) /\ Len(p) \in Nat /\ Len(w) \in Nat
         /\ \A i \in 1..Len(p) + Len(w) : (p \o w)[i] = IF i <= Len(p) THEN p[i] ELSE w[i - Len(p)]
BY ConcatProperties DEF Whole

\* Paths of the same names are the same.
LEMMA SamePath ==
  ASSUME NEW p \in Whole, NEW q \in Whole, Len(p) = Len(q), \A i \in 1..Len(p) : p[i] = q[i]
  PROVE  p = q
BY SeqEqual DEF Whole

\* A path is above whatever is joined to it.
LEMMA PrefixJoin ==
  ASSUME NEW p \in Whole, NEW w \in Whole
  PROVE  IsPrefix(p, p \o w)
<1>1. p \o w \in Whole /\ Len(p) <= Len(p \o w)
  BY JoinIs
<1>2. ASSUME NEW i \in 1..Len(p) PROVE (p \o w)[i] = p[i]
  <2>1. i \in 1..Len(p) + Len(w) /\ i <= Len(p)
    BY SMTT(40), JoinIs
  <2>. QED BY <2>1, JoinIs
<1>. QED
  BY <1>1, <1>2, PrefixIs

\* A path is one above it, joined to the rest.
LEMMA PrefixSplit ==
  ASSUME NEW p \in Whole, NEW q \in Whole, IsPrefix(q, p)
  PROVE  /\ SubSeq(p, Len(q) + 1, Len(p)) \in Whole /\ p = q \o SubSeq(p, Len(q) + 1, Len(p))
<1>. DEFINE w == SubSeq(p, Len(q) + 1, Len(p))
<1>1. Len(q) <= Len(p) /\ SubSeq(q, 1, Len(q)) = SubSeq(p, 1, Len(q)) /\ Len(p) \in Nat /\ Len(q) \in Nat
  BY DEF Whole, IsPrefix
<1>2. w \in Whole
  <2>1. \A i \in Len(q) + 1..Len(p) : p[i] \in Naming
    BY <1>1 DEF Whole
  <2>2. Len(q) + 1 \in Int /\ Len(p) \in Int
    BY <1>1
  <2>. QED BY <2>1, <2>2, SubSeqProperties DEF Whole
<1>3. SubSeq(p, 1, Len(q)) \o w = SubSeq(p, 1, Len(p))
  <2>1. 1 \in 1..Len(p) + 1 /\ Len(q) \in 1 - 1..Len(p) /\ Len(p) \in Len(q)..Len(p)
    BY <1>1
  <2>. QED BY <2>1, ConcatAdjacentSubSeq DEF Whole
<1>4. SubSeq(p, 1, Len(p)) = p /\ SubSeq(q, 1, Len(q)) = q
  BY SubSeqFull DEF Whole
<1>. QED
  BY <1>1, <1>2, <1>3, <1>4

\* Being above orders the paths, and what is above one path is in a line.
LEMMA PrefixOrder ==
  /\ \A p \in Whole : IsPrefix(p, p) /\ IsPrefix(<<>>, p)
  /\ \A p, q, r \in Whole : IsPrefix(q, p) /\ IsPrefix(r, q) => IsPrefix(r, p)
  /\ \A p, q \in Whole : IsPrefix(q, p) /\ IsPrefix(p, q) => p = q
  /\ \A p, q, r \in Whole : IsPrefix(q, p) /\ IsPrefix(r, p) => IsPrefix(r, q) \/ IsPrefix(q, r)
<1>0. \A p \in Whole : Len(p) \in Nat
  BY DEF Whole
<1>1. \A p \in Whole : IsPrefix(p, p) /\ IsPrefix(<<>>, p)
  <2>1. <<>> \in Whole /\ Len(<<>>) = 0
    BY DEF Whole
  <2>. QED BY <1>0, <2>1, PrefixIs
<1>2. ASSUME NEW p \in Whole, NEW q \in Whole, NEW r \in Whole, IsPrefix(q, p), IsPrefix(r, q) PROVE IsPrefix(r, p)
  <2>1. Len(q) <= Len(p) /\ \A i \in 1..Len(q) : p[i] = q[i]
    BY <1>2, PrefixIs
  <2>2. Len(r) <= Len(q) /\ \A i \in 1..Len(r) : q[i] = r[i]
    BY <1>2, PrefixIs
  <2>3. Len(r) <= Len(p) /\ \A i \in 1..Len(r) : p[i] = r[i]
    BY <1>0, <2>1, <2>2
  <2>. QED BY <2>3, PrefixIs
<1>3. ASSUME NEW p \in Whole, NEW q \in Whole, IsPrefix(q, p), IsPrefix(p, q) PROVE p = q
  <2>1. Len(q) <= Len(p) /\ (\A i \in 1..Len(q) : p[i] = q[i]) /\ Len(p) <= Len(q)
    BY <1>3, PrefixIs
  <2>2. Len(p) = Len(q)
    BY <1>0, <2>1
  <2>. QED BY <2>1, <2>2, SamePath
<1>4. ASSUME NEW p \in Whole, NEW q \in Whole, NEW r \in Whole, IsPrefix(q, p), IsPrefix(r, p)
      PROVE  IsPrefix(r, q) \/ IsPrefix(q, r)
  <2>1. \A i \in 1..Len(q) : p[i] = q[i]
    BY <1>4, PrefixIs
  <2>2. \A i \in 1..Len(r) : p[i] = r[i]
    BY <1>4, PrefixIs
  <2>3. CASE Len(q) <= Len(r)
    <3>1. \A i \in 1..Len(q) : r[i] = q[i]
      BY <1>0, <2>1, <2>2, <2>3
    <3>. QED BY <2>3, <3>1, PrefixIs
  <2>4. CASE Len(r) <= Len(q)
    <3>1. \A i \in 1..Len(r) : q[i] = r[i]
      BY <1>0, <2>1, <2>2, <2>4
    <3>. QED BY <2>4, <3>1, PrefixIs
  <2>. QED BY <1>0, <2>3, <2>4
<1>. QED
  BY <1>1, <1>2, <1>3, <1>4

\* A path and one name more.
LEMMA ChildIs ==
  ASSUME NEW p \in Whole, NEW n
  PROVE  /\ Front(Append(p, n)) = p /\ Last(Append(p, n)) = n /\ Append(p, n) # <<>>
         /\ n \in Naming => Append(p, n) \in Whole /\ IsPrefix(p, Append(p, n))
<1>. DEFINE a == Append(p, n)
<1>1. /\ Len(p) \in Nat /\ Len(a) = Len(p) + 1 /\ a[Len(p) + 1] = n
      /\ \A i \in 1..Len(p) : a[i] = p[i]
  BY DEF Whole
<1>2. a # <<>> /\ Last(a) = n
  BY <1>1 DEF Last
<1>3. Front(a) = p
  <2>. DEFINE s == SubSeq(a, 1, Len(a) - 1)
  <2>1. s = [i \in 1..Len(p) |-> a[i]]
    BY <1>1
  <2>2. s = [i \in 1..Len(p) |-> p[i]]
    BY <1>1, <2>1
  <2>3. p = [i \in 1..Len(p) |-> p[i]]
    BY DEF Whole
  <2>. QED BY <2>2, <2>3 DEF Front
<1>4. n \in Naming => a \in Whole
  BY DEF Whole
<1>5. n \in Naming => IsPrefix(p, a)
  <2>. HIDE DEF a
  <2>. QED BY <1>1, <1>4, PrefixIs
<1>. QED
  BY <1>2, <1>3, <1>4, <1>5

\* A path that is not the root is its parent's and a name.
LEMMA FrontIs ==
  ASSUME NEW p \in Whole, p # <<>>
  PROVE  /\ Front(p) \in Whole /\ Last(p) \in Naming /\ p = Append(Front(p), Last(p))
         /\ Len(Front(p)) = Len(p) - 1 /\ Len(p) \in Nat \ {0} /\ IsPrefix(Front(p), p) /\ Front(p) # p
<1>1. Len(p) \in Nat \ {0} /\ Last(p) = p[Len(p)] /\ Last(p) \in Naming
  BY DEF Whole, Last
<1>. DEFINE f == SubSeq(p, 1, Len(p) - 1)
<1>2. f \in Whole /\ Len(f) = Len(p) - 1 /\ \A i \in 1..Len(p) - 1 : f[i] = p[i]
  <2>1. \A i \in 1..Len(p) - 1 : p[i] \in Naming
    BY <1>1 DEF Whole
  <2>2. /\ f \in Whole /\ Len(f) = IF 1 <= Len(p) - 1 THEN Len(p) - 1 - 1 + 1 ELSE 0
        /\ \A i \in 1..Len(p) - 1 - 1 + 1 : f[i] = p[1 + i - 1]
    <3>1. 1 \in Int /\ Len(p) - 1 \in Int
      BY <1>1
    <3>. QED BY <2>1, <3>1, SubSeqProperties DEF Whole
  <2>. HIDE DEF f
  <2>3. Len(f) = Len(p) - 1
    <3>1. \A k \in Nat \ {0} : (IF 1 <= k - 1 THEN k - 1 - 1 + 1 ELSE 0) = k - 1
      OBVIOUS
    <3>2. Len(f) = IF 1 <= Len(p) - 1 THEN Len(p) - 1 - 1 + 1 ELSE 0
      BY <2>2
    <3>3. Len(p) \in Nat \ {0}
      BY <1>1
    <3>. QED BY <3>1, <3>2, <3>3, Zenon
  <2>4. ASSUME NEW i \in 1..Len(p) - 1 PROVE f[i] = p[i]
    <3>1. i \in 1..Len(p) - 1 - 1 + 1 /\ 1 + i - 1 = i
      BY <1>1
    <3>. QED BY <2>2, <3>1
  <2>. QED BY <2>2, <2>3, <2>4
<1>3. f = Front(p)
  BY DEF Front
<1>. HIDE DEF f
<1>4. Append(f, Last(p)) = p
  <2>1. Append(f, Last(p)) \in Whole /\ Len(Append(f, Last(p))) = Len(p)
    BY <1>1, <1>2 DEF Whole
  <2>2. \A i \in 1..Len(p) : Append(f, Last(p))[i] = p[i]
    BY <1>1, <1>2 DEF Whole
  <2>. QED BY <2>1, <2>2, SamePath
<1>5. IsPrefix(f, p)
  BY <1>1, <1>2, PrefixIs
<1>6. f # p
  BY <1>1, <1>2
<1>. QED
  BY <1>1, <1>2, <1>3, <1>4, <1>5, <1>6

\* Who is above a path is above its directory, or is the path.
LEMMA AboveFront ==
  ASSUME NEW p \in Whole, NEW a \in Whole, IsPrefix(a, p), a # p
  PROVE  p # <<>> /\ IsPrefix(a, Front(p))
<1>1. Len(a) <= Len(p) /\ (\A i \in 1..Len(a) : p[i] = a[i]) /\ Len(a) \in Nat /\ Len(p) \in Nat
  BY PrefixIs DEF Whole
<1>2. Len(a) # Len(p)
  BY <1>1, SamePath
<1>3. p # <<>>
  BY <1>1, <1>2
<1>4. Front(p) \in Whole /\ Len(Front(p)) = Len(p) - 1 /\ p = Append(Front(p), Last(p))
  BY <1>3, FrontIs
<1>5. \A i \in 1..Len(a) : Front(p)[i] = a[i]
  <2>. DEFINE f == Front(p)
              n == Last(p)
  <2>1. f \in Whole /\ Len(f) = Len(p) - 1 /\ p = Append(f, n)
    BY <1>4
  <2>. HIDE DEF f, n
  <2>2. \A i \in 1..Len(f) : p[i] = f[i]
    BY <2>1 DEF Whole
  <2>. QED BY <1>1, <1>2, <2>1, <2>2 DEF f
<1>. QED
  BY <1>1, <1>2, <1>3, <1>4, <1>5, PrefixIs

\* Joining.
LEMMA JoinLaws ==
  ASSUME NEW p \in Whole, NEW v \in Whole, NEW w \in Whole
  PROVE  /\ p \o <<>> = p /\ <<>> \in Whole
         /\ p \o v = p \o w => v = w
         /\ IsPrefix(p \o w, p \o v) <=> IsPrefix(w, v)
<1>1. <<>> \in Whole /\ Len(<<>>) = 0 /\ p \o <<>> = p
  BY DEF Whole
<1>2. /\ p \o v \in Whole /\ Len(p \o v) = Len(p) + Len(v) /\ Len(p) \in Nat /\ Len(v) \in Nat
      /\ \A i \in 1..Len(p) + Len(v) : (p \o v)[i] = IF i <= Len(p) THEN p[i] ELSE v[i - Len(p)]
  BY JoinIs
<1>3. /\ p \o w \in Whole /\ Len(p \o w) = Len(p) + Len(w) /\ Len(w) \in Nat
      /\ \A i \in 1..Len(p) + Len(w) : (p \o w)[i] = IF i <= Len(p) THEN p[i] ELSE w[i - Len(p)]
  BY JoinIs
<1>. DEFINE V == p \o v
            W == p \o w
<1>4. \A i \in 1..Len(v) : V[Len(p) + i] = v[i]
  <2>1. SUFFICES ASSUME NEW i \in 1..Len(v) PROVE V[Len(p) + i] = v[i]
    OBVIOUS
  <2>. DEFINE j == Len(p) + i
  <2>2. j \in 1..Len(p) + Len(v) /\ ~(j <= Len(p)) /\ j - Len(p) = i
    BY <1>2
  <2>. HIDE DEF j
  <2>. QED BY <1>2, <2>2 DEF j
<1>5. \A i \in 1..Len(w) : W[Len(p) + i] = w[i]
  <2>1. SUFFICES ASSUME NEW i \in 1..Len(w) PROVE W[Len(p) + i] = w[i]
    OBVIOUS
  <2>. DEFINE j == Len(p) + i
  <2>2. j \in 1..Len(p) + Len(w) /\ ~(j <= Len(p)) /\ j - Len(p) = i
    BY <1>3
  <2>. HIDE DEF j
  <2>. QED BY <1>3, <2>2 DEF j
<1>. HIDE DEF V, W
<1>6. p \o v = p \o w => v = w
  <2>1. SUFFICES ASSUME V = W PROVE v = w
    BY DEF V, W
  <2>2. Len(v) = Len(w)
    BY <1>2, <1>3, <2>1 DEF V, W
  <2>3. \A i \in 1..Len(v) : v[i] = w[i]
    BY <1>4, <1>5, <2>1, <2>2
  <2>. QED BY <2>2, <2>3, SamePath
<1>7. IsPrefix(W, V) => IsPrefix(w, v)
  <2>1. SUFFICES ASSUME IsPrefix(W, V) PROVE IsPrefix(w, v)
    OBVIOUS
  <2>2. Len(W) <= Len(V) /\ \A i \in 1..Len(W) : V[i] = W[i]
    BY <1>2, <1>3, <2>1, PrefixIs DEF V, W
  <2>3. Len(V) = Len(p) + Len(v) /\ Len(W) = Len(p) + Len(w)
    BY <1>2, <1>3 DEF V, W
  <2>4. Len(w) <= Len(v)
    BY <1>2, <1>3, <2>2, <2>3
  <2>5. ASSUME NEW i \in 1..Len(w) PROVE v[i] = w[i]
    <3>1. Len(p) + i \in 1..Len(W) /\ i \in 1..Len(v)
      BY <1>2, <1>3, <2>3, <2>4
    <3>. QED BY <1>4, <1>5, <2>2, <3>1
  <2>. QED BY <2>4, <2>5, PrefixIs
<1>8. IsPrefix(w, v) => IsPrefix(W, V)
  <2>1. SUFFICES ASSUME IsPrefix(w, v) PROVE IsPrefix(W, V)
    OBVIOUS
  <2>2. Len(w) <= Len(v) /\ \A i \in 1..Len(w) : v[i] = w[i]
    BY <2>1, PrefixIs
  <2>3. V \in Whole /\ W \in Whole /\ Len(V) = Len(p) + Len(v) /\ Len(W) = Len(p) + Len(w)
    BY <1>2, <1>3 DEF V, W
  <2>4. Len(W) <= Len(V)
    BY <1>2, <1>3, <2>2, <2>3
  <2>5. ASSUME NEW i \in 1..Len(W) PROVE V[i] = W[i]
    <3>0. i \in 1..Len(p) + Len(w) /\ i \in 1..Len(p) + Len(v)
      BY <1>2, <1>3, <2>2, <2>3
    <3>1. CASE i <= Len(p)
      BY <1>2, <1>3, <3>0, <3>1 DEF V, W
    <3>2. CASE ~(i <= Len(p))
      <4>. DEFINE j == i - Len(p)
      <4>1. j \in 1..Len(w) /\ V[i] = v[j] /\ W[i] = w[j]
        BY <1>2, <1>3, <3>0, <3>2 DEF V, W
      <4>. HIDE DEF j
      <4>. QED BY <2>2, <4>1
    <3>. QED BY <3>1, <3>2
  <2>. QED BY <2>3, <2>4, <2>5, PrefixIs
<1>. QED
  BY <1>1, <1>6, <1>7, <1>8 DEF V, W

\* A name may be put behind the whole or behind the second part.
LEMMA JoinAppend ==
  ASSUME NEW p \in Whole, NEW v \in Whole, NEW n \in Naming
  PROVE  Append(p \o v, n) = p \o Append(v, n)
<1>1. Append(v, n) \in Whole /\ p \o v \in Whole
  BY ChildIs, JoinIs
<1>. DEFINE a == Append(p \o v, n)
            b == p \o Append(v, n)
<1>2. a \in Whole /\ b \in Whole
  BY <1>1, ChildIs, JoinIs
<1>3. a = b
  BY DEF Whole
<1>. QED
  BY <1>3

\* What a card is, part by part.
LEMMA CardIs ==
  ASSUME NEW t, IsCard(t)
  PROVE  /\ IsFiniteSet(DOMAIN t) /\ DOMAIN t \subseteq Whole
         /\ \A p \in DOMAIN t : (t[p] = Folder \/ t[p] \in Seq(Blocks)) /\ (p # <<>> => IsDir(t, Front(p)))
BY DEF IsCard, Whole, Naming

\* What is above anything on the card is a directory.
LEMMA AboveIsDir ==
  ASSUME NEW t, IsCard(t), NEW p \in DOMAIN t, NEW a \in Whole, IsPrefix(a, p), a # p
  PROVE  IsDir(t, a)
<1>. SUFFICES ASSUME ~IsDir(t, a) PROVE FALSE
  OBVIOUS
<1>. DEFINE Bad(q) == q \in DOMAIN t /\ IsPrefix(a, q) /\ a # q
            T == {k \in Nat : \E q \in DOMAIN t : Bad(q) /\ Len(q) = k}
<1>1. DOMAIN t \subseteq Whole /\ \A q \in DOMAIN t : q # <<>> => IsDir(t, Front(q))
  BY CardIs
<1>2. T \in SUBSET Nat /\ T # {}
  <2>1. Len(p) \in Nat
    BY <1>1 DEF Whole
  <2>. QED BY <2>1
<1>3. PICK k \in T : \A j \in T : k <= j
  BY <1>2, Least
<1>4. PICK q \in DOMAIN t : Bad(q) /\ Len(q) = k
  BY <1>3
<1>5. q \in Whole /\ q # <<>> /\ IsPrefix(a, Front(q))
  BY <1>1, <1>4, AboveFront
<1>6. Front(q) \in DOMAIN t /\ Front(q) # a
  BY <1>1, <1>4, <1>5 DEF IsDir
<1>7. Len(Front(q)) = k - 1 /\ k - 1 \in Nat
  BY <1>4, <1>5, FrontIs
<1>8. k - 1 \in T
  BY <1>5, <1>6, <1>7
<1>. QED
  BY <1>3, <1>7, <1>8

\* What is below a file or a path that is free: nothing.
LEMMA NothingBelow ==
  ASSUME NEW t, IsCard(t), NEW a \in Whole, ~IsDir(t, a), NEW p \in DOMAIN t, IsPrefix(a, p)
  PROVE  p = a
BY AboveIsDir

\* The part of a card below a path.
LEMMA BelowIs ==
  ASSUME NEW t, DOMAIN t \subseteq Whole, NEW top \in Whole
  PROVE  /\ \A w : w \in DOMAIN Below(t, top) <=> w \in Whole /\ top \o w \in DOMAIN t
         /\ \A w \in DOMAIN Below(t, top) : Below(t, top)[w] = t[top \o w]
         /\ Below(t, top) = [w \in DOMAIN Below(t, top) |-> Below(t, top)[w]]
<1>. DEFINE rest(p) == SubSeq(p, Len(top) + 1, Len(p))
            S == {r \in DOMAIN t : Under(r, top)}
            D == {rest(p) : p \in S}
<1>1. Below(t, top) = [q \in D |-> t[top \o q]]
  BY Zenon DEF Below
<1>2. ASSUME NEW w \in Whole, top \o w \in DOMAIN t PROVE w \in D
  <2>. DEFINE p == top \o w
  <2>1. p \in S
    BY <1>2, PrefixJoin DEF Under
  <2>2. p \in Whole /\ IsPrefix(top, p)
    BY <1>2, PrefixJoin
  <2>3. rest(p) \in Whole /\ p = top \o rest(p)
    <3>. HIDE DEF p
    <3>. QED BY <2>2, PrefixSplit
  <2>. DEFINE v == rest(p)
  <2>4. v \in Whole /\ top \o w = top \o v
    BY <2>3
  <2>. HIDE DEF v
  <2>5. v = w
    BY <2>4, JoinLaws
  <2>6. rest(p) = w
    BY <2>5 DEF v
  <2>. HIDE DEF p, rest, S
  <2>. QED BY <2>1, <2>6
<1>3. ASSUME NEW w \in D PROVE w \in Whole /\ top \o w \in DOMAIN t
  <2>1. PICK p \in S : w = rest(p)
    BY <1>3
  <2>2. p \in Whole /\ IsPrefix(top, p) /\ p \in DOMAIN t
    BY <2>1 DEF Under
  <2>3. rest(p) \in Whole /\ p = top \o rest(p)
    BY <2>2, PrefixSplit
  <2>. QED BY <2>1, <2>2, <2>3
<1>. HIDE DEF D
<1>4. DOMAIN Below(t, top) = D
  BY <1>1
<1>5. \A w \in D : Below(t, top)[w] = t[top \o w]
  BY <1>1
<1>6. Below(t, top) = [w \in DOMAIN Below(t, top) |-> Below(t, top)[w]]
  BY <1>1
<1>. QED
  BY <1>2, <1>3, <1>4, <1>5, <1>6, Zenon

\* A card with a part put below a path.
IsAdded(u, t, top, sub) ==
  /\ \A p : p \in DOMAIN u <=> p \in DOMAIN t \/ \E w \in DOMAIN sub : p = top \o w
  /\ \A w \in DOMAIN sub : u[top \o w] = sub[w]
  /\ \A p \in DOMAIN t : (\A w \in DOMAIN sub : p # top \o w) => u[p] = t[p]

\* So does Adding.
LEMMA AddingIs ==
  ASSUME NEW t, NEW top \in Whole, NEW sub, DOMAIN sub \subseteq Whole
  PROVE  IsAdded(Adding(t, top, sub), t, top, sub)
<1>. DEFINE new == {top \o q : q \in DOMAIN sub}
            rest(p) == SubSeq(p, Len(top) + 1, Len(p))
            A == Adding(t, top, sub)
<1>1. A = [p \in DOMAIN t \cup new |-> IF p \in new THEN sub[rest(p)] ELSE t[p]]
  BY Zenon DEF Adding
<1>2. ASSUME NEW w \in DOMAIN sub PROVE rest(top \o w) = w
  <2>. DEFINE p == top \o w
  <2>2. p \in Whole /\ IsPrefix(top, p)
    BY <1>2, PrefixJoin, JoinIs
  <2>3. rest(p) \in Whole /\ p = top \o rest(p)
    <3>. HIDE DEF p
    <3>. QED BY <2>2, PrefixSplit
  <2>. DEFINE v == rest(p)
  <2>4. v \in Whole /\ top \o w = top \o v
    BY <2>3
  <2>. HIDE DEF v
  <2>5. v = w
    BY <2>4, JoinLaws
  <2>. QED BY <2>5 DEF v
<1>. HIDE DEF A, rest
<1>3. \A p : p \in DOMAIN A <=> p \in DOMAIN t \/ \E w \in DOMAIN sub : p = top \o w
  BY <1>1
<1>4. ASSUME NEW w \in DOMAIN sub PROVE A[top \o w] = sub[w]
  <2>1. top \o w \in new
    OBVIOUS
  <2>. QED BY <1>1, <1>2, <2>1
<1>5. ASSUME NEW p \in DOMAIN t, \A w \in DOMAIN sub : p # top \o w PROVE A[p] = t[p]
  <2>1. p \notin new
    BY <1>5
  <2>. QED BY <1>1, <2>1
<1>. QED
  BY <1>3, <1>4, <1>5 DEF A, IsAdded

\* A card from which what is below a path is taken.
LEMMA WithoutIs ==
  ASSUME NEW t, NEW top
  PROVE  /\ \A p : p \in DOMAIN Without(t, top) <=> p \in DOMAIN t /\ ~Under(p, top)
         /\ \A p \in DOMAIN Without(t, top) : Without(t, top)[p] = t[p]
BY DEF Without

\* One thing is put at a path, new or in place of what is there.
IsPut(u, t, d, x) ==
  DOMAIN u = DOMAIN t \cup {d} /\ u[d] = x /\ \A p \in DOMAIN t \ {d} : u[p] = t[p]

\* What mkdir and fopen do to the card, ...
LEMMA PutIs ==
  ASSUME NEW t, NEW d \in Whole, NEW x
  PROVE  IsPut(Adding(t, d, Single(x)), t, d, x)
<1>. DEFINE s == Single(x)
            u == Adding(t, d, s)
<1>1. DOMAIN s = {<<>>} /\ s[<<>>] = x /\ <<>> \in Whole /\ d \o <<>> = d
  BY JoinLaws DEF Single
<1>. HIDE DEF s
<1>2. DOMAIN s \subseteq Whole
  BY <1>1
<1>. HIDE DEF u
<1>i. /\ \A p : p \in DOMAIN u <=> p \in DOMAIN t \/ \E w \in DOMAIN s : p = d \o w
      /\ \A w \in DOMAIN s : u[d \o w] = s[w]
      /\ \A p \in DOMAIN t : (\A w \in DOMAIN s : p # d \o w) => u[p] = t[p]
  <2>1. IsAdded(u, t, d, s)
    BY <1>2, AddingIs, Zenon DEF u
  <2>. QED BY <2>1, Zenon DEF IsAdded
<1>3. \A p : p \in DOMAIN u <=> p \in DOMAIN t \/ \E w \in DOMAIN s : p = d \o w
  BY <1>i
<1>4. \A w \in DOMAIN s : u[d \o w] = s[w]
  BY <1>i
<1>5. \A p \in DOMAIN t : (\A w \in DOMAIN s : p # d \o w) => u[p] = t[p]
  BY <1>i
<1>6. DOMAIN u = DOMAIN t \cup {d}
  BY <1>1, <1>3
<1>7. u[d] = x
  BY <1>1, <1>4
<1>8. \A p \in DOMAIN t \ {d} : u[p] = t[p]
  BY <1>1, <1>5
<1>9. IsPut(u, t, d, x)
  BY <1>6, <1>7, <1>8 DEF IsPut
<1>. QED
  BY <1>9 DEF u, s

\* ... and fwrite.
LEMMA GrownIs ==
  ASSUME NEW t, NEW d \in DOMAIN t, NEW x
  PROVE  IsPut([t EXCEPT ![d] = x], t, d, x)
BY DEF IsPut

\* Deleting leaves a card.
LEMMA CardWithout ==
  ASSUME NEW t, IsCard(t), NEW top \in Whole
  PROVE  IsCard(Without(t, top))
<1>. DEFINE u == Without(t, top)
<1>1. IsFiniteSet(DOMAIN t) /\ DOMAIN t \subseteq Whole
  BY CardIs
<1>2. \A p : p \in DOMAIN u <=> p \in DOMAIN t /\ ~Under(p, top)
  BY WithoutIs
<1>3. \A p \in DOMAIN u : u[p] = t[p]
  BY WithoutIs
<1>4. IsFiniteSet(DOMAIN u)
  BY <1>1, WithoutFinite
<1>. HIDE DEF u
<1>5. ASSUME NEW p \in DOMAIN u
      PROVE  (u[p] = Folder \/ u[p] \in Seq(Blocks)) /\ (p # <<>> => IsDir(u, Front(p)))
  <2>1. p \in DOMAIN t /\ ~IsPrefix(top, p) /\ u[p] = t[p] /\ p \in Whole
    BY <1>1, <1>2, <1>3 DEF Under
  <2>2. (t[p] = Folder \/ t[p] \in Seq(Blocks)) /\ (p # <<>> => IsDir(t, Front(p)))
    BY <2>1, CardIs
  <2>3. ASSUME p # <<>> PROVE IsDir(u, Front(p))
    <3>1. Front(p) \in Whole /\ IsPrefix(Front(p), p) /\ IsDir(t, Front(p))
      BY <2>1, <2>2, <2>3, FrontIs
    <3>2. ~IsPrefix(top, Front(p))
      BY <2>1, <3>1, PrefixOrder
    <3>. QED BY <1>2, <1>3, <3>1, <3>2 DEF IsDir, Under
  <2>. QED BY <2>1, <2>2, <2>3
<1>. QED
  BY <1>1, <1>2, <1>4, <1>5 DEF IsCard, u, Whole, Naming

\* Putting leaves a card, unless a directory is replaced or none is there.
LEMMA CardPut ==
  ASSUME NEW t, IsCard(t), NEW d \in Whole, d # <<>>, IsDir(t, Front(d)), ~IsDir(t, d),
         NEW x, x = Folder \/ x \in Seq(Blocks), NEW u, IsPut(u, t, d, x)
  PROVE  IsCard(u)
<1>1. IsFiniteSet(DOMAIN t) /\ DOMAIN t \subseteq Whole
  BY CardIs
<1>2. DOMAIN u = DOMAIN t \cup {d} /\ u[d] = x /\ \A p \in DOMAIN t \ {d} : u[p] = t[p]
  BY DEF IsPut
<1>3. IsFiniteSet(DOMAIN u)
  BY <1>1, <1>2, FS_AddElement
<1>4. ASSUME NEW p, IsDir(t, p) PROVE IsDir(u, p)
  BY <1>2, <1>4 DEF IsDir
<1>5. ASSUME NEW p \in DOMAIN u
      PROVE  (u[p] = Folder \/ u[p] \in Seq(Blocks)) /\ (p # <<>> => IsDir(u, Front(p)))
  <2>1. CASE p = d
    BY <1>2, <1>4, <2>1
  <2>2. CASE p # d
    <3>1. p \in DOMAIN t /\ u[p] = t[p]
      BY <1>2, <2>2
    <3>. QED BY <1>4, <3>1, CardIs
  <2>. QED BY <2>1, <2>2
<1>. QED
  BY <1>1, <1>2, <1>3, <1>5 DEF IsCard, Whole, Naming

\* Two names below each other's directories: what a rename needs of the paths.
LEMMA Below2 ==
  ASSUME NEW t, IsCard(t), NEW p \in DOMAIN t, NEW q \in Whole, q \notin DOMAIN t
  PROVE  ~IsPrefix(q, p)
<1>1. DOMAIN t \subseteq Whole
  BY CardIs
<1>. QED
  BY <1>1, AboveIsDir DEF IsDir

\* What rename() makes of a card: all below the one path is below the other.
LEMMA RenamedIs ==
  ASSUME NEW t, IsCard(t), NEW p \in Whole, NEW q \in Whole, q \notin DOMAIN t
  PROVE  /\ \A r : r \in DOMAIN Renamed(t, p, q) <=>
              (r \in DOMAIN t /\ ~IsPrefix(p, r)) \/ \E w \in Whole : p \o w \in DOMAIN t /\ r = q \o w
         /\ \A w \in Whole : p \o w \in DOMAIN t => Renamed(t, p, q)[q \o w] = t[p \o w]
         /\ \A r \in DOMAIN t : ~IsPrefix(p, r) => Renamed(t, p, q)[r] = t[r]
<1>. DEFINE u == Without(t, p)
            s == Below(t, p)
            v == Renamed(t, p, q)
<1>1. DOMAIN t \subseteq Whole
  BY CardIs
<1>2. \A r : r \in DOMAIN u <=> r \in DOMAIN t /\ ~IsPrefix(p, r)
  BY WithoutIs DEF Under
<1>3. \A r \in DOMAIN u : u[r] = t[r]
  BY WithoutIs
<1>4. /\ \A w : w \in DOMAIN s <=> w \in Whole /\ p \o w \in DOMAIN t
      /\ \A w \in DOMAIN s : s[w] = t[p \o w]
  BY <1>1, BelowIs
<1>. HIDE DEF u, s
<1>5. DOMAIN s \subseteq Whole
  BY <1>4
<1>. DEFINE a == Adding(u, q, s)
<1>. HIDE DEF a
<1>6. /\ \A r : r \in DOMAIN a <=> r \in DOMAIN u \/ \E w \in DOMAIN s : r = q \o w
      /\ \A w \in DOMAIN s : a[q \o w] = s[w]
      /\ \A r \in DOMAIN u : (\A w \in DOMAIN s : r # q \o w) => a[r] = u[r]
  <2>1. IsAdded(a, u, q, s)
    BY <1>5, AddingIs, Zenon DEF a
  <2>. QED BY <2>1, Zenon DEF IsAdded
<1>7. v = a
  BY Zenon DEF Renamed, a, u, s
<1>. HIDE DEF v
<1>8. \A r : r \in DOMAIN v <=>
             (r \in DOMAIN t /\ ~IsPrefix(p, r)) \/ \E w \in Whole : p \o w \in DOMAIN t /\ r = q \o w
  BY <1>2, <1>4, <1>6, <1>7, Zenon
<1>9. \A w \in Whole : p \o w \in DOMAIN t => v[q \o w] = t[p \o w]
  BY <1>4, <1>6, <1>7, Zenon
<1>10. ASSUME NEW r \in DOMAIN t, ~IsPrefix(p, r) PROVE v[r] = t[r]
  <2>1. ~IsPrefix(q, r)
    BY <1>10, Below2
  <2>2. \A w \in DOMAIN s : r # q \o w
    BY <1>5, <2>1, PrefixJoin
  <2>. QED BY <1>2, <1>3, <1>6, <1>7, <1>10, <2>2
<1>. QED
  BY <1>8, <1>9, <1>10, Zenon DEF v

\* A name more behind two paths joined.
LEMMA ChildJoin ==
  ASSUME NEW p \in Whole, NEW w \in Whole, w # <<>>
  PROVE  /\ p \o w # <<>> /\ Front(p \o w) = p \o Front(w) /\ Last(p \o w) = Last(w)
         /\ Front(w) \in Whole /\ Last(w) \in Naming
<1>. DEFINE v == Front(w)
            n == Last(w)
<1>1. v \in Whole /\ n \in Naming /\ w = Append(v, n)
  BY FrontIs
<1>. HIDE DEF v, n
<1>2. p \o w = Append(p \o v, n) /\ p \o v \in Whole
  BY <1>1, JoinAppend, JoinIs
<1>3. Front(Append(p \o v, n)) = p \o v /\ Last(Append(p \o v, n)) = n /\ Append(p \o v, n) # <<>>
  BY <1>2, ChildIs
<1>. QED
  BY <1>1, <1>2, <1>3 DEF v, n

\* Renaming leaves a card.
LEMMA CardRenamed ==
  ASSUME NEW t, IsCard(t), NEW p \in Whole, NEW q \in Whole, q # <<>>, q \notin DOMAIN t,
         IsDir(t, Front(q)), ~IsPrefix(p, q)
  PROVE  IsCard(Renamed(t, p, q))
<1>. DEFINE v == Renamed(t, p, q)
            Old(r) == r \in DOMAIN t /\ ~IsPrefix(p, r)
<1>1. DOMAIN t \subseteq Whole /\ IsFiniteSet(DOMAIN t)
  BY CardIs
<1>2. IsFiniteSet(DOMAIN v)
  BY <1>1, RenamedFinite
<1>. HIDE DEF v
<1>i. /\ \A r : r \in DOMAIN v <=> Old(r) \/ \E w \in Whole : p \o w \in DOMAIN t /\ r = q \o w
      /\ \A w \in Whole : p \o w \in DOMAIN t => v[q \o w] = t[p \o w]
      /\ \A r \in DOMAIN t : ~IsPrefix(p, r) => v[r] = t[r]
  BY RenamedIs, Zenon DEF v
<1>3. \A r : r \in DOMAIN v <=> Old(r) \/ \E w \in Whole : p \o w \in DOMAIN t /\ r = q \o w
  BY <1>i, Zenon
<1>4. \A w \in Whole : p \o w \in DOMAIN t => v[q \o w] = t[p \o w]
  BY <1>i
<1>5. \A r : Old(r) => r \in DOMAIN v /\ v[r] = t[r]
  BY <1>i, Zenon
<1>6. DOMAIN v \subseteq Whole
  <2>1. \A w \in Whole : q \o w \in Whole
    BY JoinIs
  <2>. QED BY <1>1, <1>3, <2>1
<1>7. ASSUME NEW r, Old(r)
      PROVE  (v[r] = Folder \/ v[r] \in Seq(Blocks)) /\ (r # <<>> => IsDir(v, Front(r)))
  <2>1. (v[r] = Folder \/ v[r] \in Seq(Blocks)) /\ (r # <<>> => IsDir(t, Front(r)))
    BY <1>5, <1>7, CardIs
  <2>2. ASSUME r # <<>> PROVE IsDir(v, Front(r))
    <3>1. r \in Whole /\ Front(r) \in Whole /\ IsPrefix(Front(r), r)
      BY <1>1, <1>7, <2>2, FrontIs
    <3>2. Old(Front(r))
      BY <1>7, <2>1, <2>2, <3>1, PrefixOrder DEF IsDir
    <3>. QED BY <1>5, <2>1, <2>2, <3>2 DEF IsDir
  <2>. QED BY <2>1, <2>2
<1>8. ASSUME NEW w \in Whole, p \o w \in DOMAIN t
      PROVE  (v[q \o w] = Folder \/ v[q \o w] \in Seq(Blocks)) /\ IsDir(v, Front(q \o w))
  <2>1. v[q \o w] = t[p \o w]
    BY <1>4, <1>8
  <2>2. t[p \o w] = Folder \/ t[p \o w] \in Seq(Blocks)
    BY <1>8, CardIs
  <2>3. CASE w = <<>>
    <3>1. q \o w = q
      BY <2>3, JoinLaws
    <3>2. Front(q) \in Whole /\ IsPrefix(Front(q), q)
      BY FrontIs
    <3>3. Old(Front(q))
      BY <3>2, PrefixOrder DEF IsDir
    <3>. QED BY <1>5, <2>1, <2>2, <3>1, <3>3 DEF IsDir
  <2>4. CASE w # <<>>
    <3>1. /\ p \o w # <<>> /\ Front(p \o w) = p \o Front(w) /\ Front(w) \in Whole
          /\ Front(q \o w) = q \o Front(w)
      BY <2>4, ChildJoin
    <3>2. IsDir(t, p \o Front(w))
      BY <1>8, <3>1, CardIs
    <3>3. IsDir(v, q \o Front(w))
      BY <1>3, <1>4, <3>1, <3>2 DEF IsDir
    <3>. QED BY <2>1, <2>2, <3>1, <3>3
  <2>. QED BY <2>3, <2>4
<1>9. \A r \in DOMAIN v : (v[r] = Folder \/ v[r] \in Seq(Blocks)) /\ (r # <<>> => IsDir(v, Front(r)))
  BY <1>3, <1>7, <1>8, Zenon
<1>. QED
  BY <1>2, <1>6, <1>9 DEF IsCard, v, Whole, Naming

\* What is below s in t is what is below d in u.
SameBelow(t, s, u, d) ==
  \A w \in Whole : /\ s \o w \in DOMAIN t <=> d \o w \in DOMAIN u
                   /\ s \o w \in DOMAIN t => u[d \o w] = t[s \o w]

\* Then the parts below them are equal.
LEMMA BelowSame ==
  ASSUME NEW t, DOMAIN t \subseteq Whole, NEW s \in Whole, NEW u, DOMAIN u \subseteq Whole, NEW d \in Whole,
         SameBelow(t, s, u, d)
  PROVE  Below(u, d) = Below(t, s)
<1>. DEFINE a == Below(u, d)
            b == Below(t, s)
<1>1. /\ \A w : w \in DOMAIN a <=> w \in Whole /\ d \o w \in DOMAIN u
      /\ \A w \in DOMAIN a : a[w] = u[d \o w]
      /\ a = [w \in DOMAIN a |-> a[w]]
  BY BelowIs
<1>2. /\ \A w : w \in DOMAIN b <=> w \in Whole /\ s \o w \in DOMAIN t
      /\ \A w \in DOMAIN b : b[w] = t[s \o w]
      /\ b = [w \in DOMAIN b |-> b[w]]
  BY BelowIs
<1>. HIDE DEF a, b
<1>3. DOMAIN a = DOMAIN b
  BY <1>1, <1>2 DEF SameBelow
<1>4. \A w \in DOMAIN a : a[w] = b[w]
  BY <1>1, <1>2, <1>3 DEF SameBelow
<1>5. a = b
  BY <1>1, <1>2, <1>3, <1>4
<1>. QED
  BY <1>5 DEF a, b

\* Two cards that agree but for what is below some paths.
AgreeBut(t, u, tops) ==
  \A r : (\A top \in tops : ~IsPrefix(top, r)) =>
           (r \in DOMAIN t <=> r \in DOMAIN u) /\ (r \in DOMAIN t => t[r] = u[r])

\* That is what Untouched says.
LEMMA UntouchedIs ==
  ASSUME NEW t, NEW u, NEW tops
  PROVE  Untouched(t, tops) = Untouched(u, tops) <=> AgreeBut(t, u, tops)
<1>. DEFINE a == Untouched(t, tops)
            b == Untouched(u, tops)
            Free1(r) == \A top \in tops : ~IsPrefix(top, r)
<1>1. /\ \A r : r \in DOMAIN a <=> r \in DOMAIN t /\ Free1(r)
      /\ \A r \in DOMAIN a : a[r] = t[r]
      /\ a = [r \in DOMAIN a |-> a[r]]
  BY DEF Untouched, Under
<1>2. /\ \A r : r \in DOMAIN b <=> r \in DOMAIN u /\ Free1(r)
      /\ \A r \in DOMAIN b : b[r] = u[r]
      /\ b = [r \in DOMAIN b |-> b[r]]
  BY DEF Untouched, Under
<1>3. AgreeBut(t, u, tops) <=>
        \A r : Free1(r) => (r \in DOMAIN t <=> r \in DOMAIN u) /\ (r \in DOMAIN t => t[r] = u[r])
  BY Zenon DEF AgreeBut
<1>. HIDE DEF a, b, Free1
<1>4. ASSUME a = b
      PROVE  \A r : Free1(r) => (r \in DOMAIN t <=> r \in DOMAIN u) /\ (r \in DOMAIN t => t[r] = u[r])
  BY <1>1, <1>2, <1>4, Zenon
<1>5. ASSUME \A r : Free1(r) => (r \in DOMAIN t <=> r \in DOMAIN u) /\ (r \in DOMAIN t => t[r] = u[r])
      PROVE  a = b
  <2>1. DOMAIN a = DOMAIN b
    BY <1>1, <1>2, <1>5
  <2>2. \A r \in DOMAIN a : a[r] = b[r]
    BY <1>1, <1>2, <1>5, <2>1
  <2>. QED BY <1>1, <1>2, <2>1, <2>2
<1>. QED
  BY <1>3, <1>4, <1>5 DEF a, b

\* What is put below a path changes nothing elsewhere.
LEMMA AgreePut ==
  ASSUME NEW b, NEW t, NEW top, AgreeBut(t, b, {top}), NEW u, NEW d, NEW x, IsPut(u, t, d, x),
         IsPrefix(top, d)
  PROVE  AgreeBut(u, b, {top})
BY DEF AgreeBut, IsPut

\* A rename moves the whole, and nothing else.
LEMMA MovedWhole ==
  ASSUME NEW t, IsCard(t), NEW p \in Whole, NEW q \in Whole, p \in DOMAIN t, q \notin DOMAIN t,
         ~IsPrefix(p, q)
  PROVE  /\ DOMAIN Renamed(t, p, q) \subseteq Whole => Below(Renamed(t, p, q), q) = Below(t, p)
         /\ AgreeBut(Renamed(t, p, q), t, {p, q})
         /\ p \notin DOMAIN Renamed(t, p, q)
<1>. DEFINE v == Renamed(t, p, q)
            Old(r) == r \in DOMAIN t /\ ~IsPrefix(p, r)
<1>1. DOMAIN t \subseteq Whole
  BY CardIs
<1>. HIDE DEF v
<1>i. /\ \A r : r \in DOMAIN v <=> Old(r) \/ \E w \in Whole : p \o w \in DOMAIN t /\ r = q \o w
      /\ \A w \in Whole : p \o w \in DOMAIN t => v[q \o w] = t[p \o w]
      /\ \A r \in DOMAIN t : ~IsPrefix(p, r) => v[r] = t[r]
  BY RenamedIs, Zenon DEF v
<1>2. \A r \in DOMAIN t : ~IsPrefix(q, r)
  BY Below2
<1>3. SameBelow(t, p, v, q)
  <2>1. ASSUME NEW w \in Whole, q \o w \in DOMAIN v PROVE p \o w \in DOMAIN t
    <3>1. ~Old(q \o w)
      BY <1>2, PrefixJoin
    <3>2. PICK z \in Whole : p \o z \in DOMAIN t /\ q \o w = q \o z
      BY <1>i, <2>1, <3>1, Zenon
    <3>3. z = w
      BY <3>2, JoinLaws
    <3>. QED BY <3>2, <3>3
  <2>2. ASSUME NEW w \in Whole, p \o w \in DOMAIN t PROVE q \o w \in DOMAIN v /\ v[q \o w] = t[p \o w]
    BY <1>i, <2>2, Zenon
  <2>. QED BY <2>1, <2>2, Zenon DEF SameBelow
<1>4. AgreeBut(v, t, {p, q})
  <2>1. ASSUME NEW r, ~IsPrefix(p, r), ~IsPrefix(q, r)
        PROVE  (r \in DOMAIN v <=> r \in DOMAIN t) /\ (r \in DOMAIN v => v[r] = t[r])
    <3>1. \A w \in Whole : r # q \o w
      BY <2>1, PrefixJoin
    <3>. QED BY <1>i, <2>1, <3>1, Zenon
  <2>. QED BY <2>1 DEF AgreeBut
<1>5. p \notin DOMAIN v
  <2>1. IsPrefix(p, p) /\ ~IsPrefix(q, p)
    BY <1>2, PrefixOrder
  <2>2. \A w \in Whole : p # q \o w
    BY <2>1, PrefixJoin
  <2>. QED BY <1>i, <2>1, <2>2, Zenon
<1>6. DOMAIN v \subseteq Whole => Below(v, q) = Below(t, p)
  BY <1>1, <1>3, BelowSame
<1>. QED
  BY <1>4, <1>5, <1>6 DEF v

-----------------------------------------------------------------------------
(* The calls of fb_copy_recursive.                                          *)

\* A call for an entry of the directory that another one reads.
Linked(f, g) ==
  /\ f.at = "list" /\ g.src \in f.seen
  /\ g.src # <<>> /\ g.dst # <<>> /\ Front(g.src) = f.src /\ Front(g.dst) = f.dst
  /\ Last(g.src) = Last(g.dst)

\* One call of fb_copy_recursive.
IsCall(f) ==
  /\ f.src \in Whole /\ f.dst \in Whole
  /\ f.at = "list" => DOMAIN f = {"src", "dst", "at", "seen", "first"}

\* The calls go down in step: each is for an entry of the one below it, outermost the whole paste.
Shape(j, from, to) ==
  /\ IsSeq(j)
  /\ \A i \in 1..Len(j) : IsCall(j[i])
  /\ j # <<>> => j[1].src = from /\ j[1].dst = to
  /\ \A i \in 1..Len(j) - 1 : Linked(j[i], j[i + 1])
  /\ \A i, k \in 1..Len(j) : i <= k => IsPrefix(j[i].src, j[k].src) /\ IsPrefix(j[i].dst, j[k].dst)

\* The call that runs moves on.
LEMMA ShapeTop ==
  ASSUME NEW j, NEW from, NEW to, Shape(j, from, to), j # <<>>,
         NEW x, x.src = Last(j).src, x.dst = Last(j).dst, IsCall(x)
  PROVE  /\ Shape(Append(Front(j), x), from, to) /\ Append(Front(j), x) # <<>>
         /\ Len(Append(Front(j), x)) = Len(j) /\ Last(Append(Front(j), x)) = x
         /\ Append(Front(j), x)[Len(j)] = x
         /\ \A i \in 1..Len(j) - 1 : Append(Front(j), x)[i] = j[i]
<1>. DEFINE k == Append(Front(j), x)
            n == Len(j)
<1>1. /\ n \in Nat \ {0} /\ Last(j) = j[n] /\ IsSeq(Front(j)) /\ Len(Front(j)) = n - 1
      /\ \A i \in 1..n - 1 : Front(j)[i] = j[i]
  BY PopIs DEF Shape
<1>. HIDE DEF n
<1>2. /\ IsSeq(k) /\ Len(k) = n /\ k # <<>> /\ Last(k) = x /\ k[n] = x
      /\ \A i \in 1..n - 1 : k[i] = j[i]
  <2>1. /\ IsSeq(k) /\ Len(k) = Len(Front(j)) + 1 /\ k # <<>> /\ Last(k) = x
        /\ k[Len(Front(j)) + 1] = x /\ \A i \in 1..Len(Front(j)) : k[i] = Front(j)[i]
    BY <1>1, PushIs
  <2>. QED BY <1>1, <2>1
<1>. HIDE DEF k
<1>3. \A i \in 1..n : k[i].src = j[i].src /\ k[i].dst = j[i].dst
  <2>1. ASSUME NEW i \in 1..n PROVE k[i].src = j[i].src /\ k[i].dst = j[i].dst
    <3>1. CASE i = n
      BY <1>1, <1>2, <3>1
    <3>2. CASE i # n
      BY <1>1, <1>2, <3>2
    <3>. QED BY <3>1, <3>2
  <2>. QED BY <2>1
<1>4. \A i \in 1..n : IsCall(k[i])
  <2>1. ASSUME NEW i \in 1..n PROVE IsCall(k[i])
    <3>1. CASE i = n
      BY <1>2, <3>1
    <3>2. CASE i # n
      <4>1. i \in 1..n - 1
        BY <1>1, <3>2
      <4>. QED BY <1>2, <4>1 DEF Shape, n
    <3>. QED BY <3>1, <3>2
  <2>. QED BY <2>1
<1>5. k[1].src = from /\ k[1].dst = to
  BY <1>1, <1>3 DEF Shape
<1>6. ASSUME NEW i \in 1..n - 1 PROVE Linked(k[i], k[i + 1])
  <2>1. k[i] = j[i] /\ k[i + 1].src = j[i + 1].src /\ k[i + 1].dst = j[i + 1].dst
    BY <1>1, <1>2, <1>3
  <2>2. Linked(j[i], j[i + 1])
    BY DEF Shape, n
  <2>. QED BY <2>1, <2>2, Zenon DEF Linked
<1>7. \A i, h \in 1..n : i <= h => IsPrefix(k[i].src, k[h].src) /\ IsPrefix(k[i].dst, k[h].dst)
  <2>1. \A i, h \in 1..n : i <= h => IsPrefix(j[i].src, j[h].src) /\ IsPrefix(j[i].dst, j[h].dst)
    BY DEF Shape, n
  <2>. QED BY <1>3, <2>1
<1>8. Shape(k, from, to)
  BY <1>2, <1>4, <1>5, <1>6, <1>7 DEF Shape
<1>. QED
  BY <1>2, <1>8, Zenon DEF k, n

\* An entry is begun.
LEMMA ShapePush ==
  ASSUME NEW j, NEW from, NEW to, Shape(j, from, to), j # <<>>,
         NEW y, Linked(Last(j), y), IsCall(y)
  PROVE  /\ Shape(Append(j, y), from, to) /\ Append(j, y) # <<>> /\ Len(Append(j, y)) = Len(j) + 1
         /\ Last(Append(j, y)) = y /\ Append(j, y)[Len(j) + 1] = y
         /\ \A i \in 1..Len(j) : Append(j, y)[i] = j[i]
<1>. DEFINE k == Append(j, y)
            n == Len(j)
<1>1. n \in Nat \ {0} /\ Last(j) = j[n]
  BY PopIs DEF Shape
<1>2. /\ IsSeq(k) /\ Len(k) = n + 1 /\ k # <<>> /\ Last(k) = y /\ k[n + 1] = y
      /\ \A i \in 1..n : k[i] = j[i]
  BY PushIs DEF Shape
<1>. HIDE DEF k
<1>3. /\ \A i \in 1..n : IsCall(j[i])
      /\ j[1].src = from /\ j[1].dst = to
      /\ \A i \in 1..n - 1 : Linked(j[i], j[i + 1])
      /\ \A i, h \in 1..n : i <= h => IsPrefix(j[i].src, j[h].src) /\ IsPrefix(j[i].dst, j[h].dst)
  BY DEF Shape
<1>. HIDE DEF n
<1>4. \A i \in 1..n + 1 : IsCall(k[i])
  <2>1. \A i \in 1..n + 1 : i = n + 1 \/ i \in 1..n
    BY <1>1
  <2>. QED BY <1>2, <1>3, <2>1, Zenon
<1>5. k[1].src = from /\ k[1].dst = to
  BY <1>1, <1>2, <1>3
<1>6. ASSUME NEW i \in 1..n PROVE Linked(k[i], k[i + 1])
  <2>1. CASE i = n
    BY <1>1, <1>2, <2>1
  <2>2. CASE i # n
    <3>1. i \in 1..n - 1 /\ i + 1 \in 1..n
      BY <1>1, <2>2
    <3>. QED BY <1>2, <1>3, <3>1
  <2>. QED BY <2>1, <2>2
<1>7. \A i \in 1..n : IsPrefix(j[i].src, y.src) /\ IsPrefix(j[i].dst, y.dst)
  <2>1. IsPrefix(j[n].src, y.src) /\ IsPrefix(j[n].dst, y.dst)
    BY <1>1, FrontIs DEF Linked, IsCall
  <2>2. \A i \in 1..n : i <= n /\ n \in 1..n
    BY <1>1
  <2>3. \A i \in 1..n : IsPrefix(j[i].src, j[n].src) /\ IsPrefix(j[i].dst, j[n].dst)
    BY <1>3, <2>2
  <2>4. \A i \in 1..n : j[i].src \in Whole /\ j[i].dst \in Whole
    BY <1>3 DEF IsCall
  <2>5. y.src \in Whole /\ y.dst \in Whole /\ n \in 1..n
    BY <1>1 DEF IsCall
  <2>. QED BY <2>1, <2>3, <2>4, <2>5, PrefixOrder
<1>8. ASSUME NEW i \in 1..n + 1, NEW h \in 1..n + 1, i <= h
      PROVE  IsPrefix(k[i].src, k[h].src) /\ IsPrefix(k[i].dst, k[h].dst)
  <2>1. CASE h = n + 1 /\ i = n + 1
    BY <1>2, <2>1, PrefixOrder DEF IsCall
  <2>2. CASE h = n + 1 /\ i # n + 1
    <3>1. i \in 1..n
      BY <1>1, <2>2
    <3>. QED BY <1>2, <1>7, <2>2, <3>1
  <2>3. CASE h # n + 1
    <3>1. i \in 1..n /\ h \in 1..n
      BY <1>1, <1>8, <2>3
    <3>. QED BY <1>2, <1>3, <1>8, <3>1
  <2>. QED BY <2>1, <2>2, <2>3
<1>9. Shape(k, from, to)
  <2>1. Len(k) = n + 1 /\ \A i \in 1..Len(k) - 1 : i \in 1..n
    BY <1>1, <1>2
  <2>. QED BY <1>2, <1>4, <1>5, <1>6, <1>8, <2>1 DEF Shape
<1>. QED
  BY <1>2, <1>9, Zenon DEF k, n

\* The call that runs returns.
LEMMA ShapePop ==
  ASSUME NEW j, NEW from, NEW to, Shape(j, from, to), j # <<>>
  PROVE  /\ Shape(Front(j), from, to) /\ Len(Front(j)) = Len(j) - 1 /\ Len(j) \in Nat \ {0}
         /\ \A i \in 1..Len(j) - 1 : Front(j)[i] = j[i]
<1>. DEFINE k == Front(j)
            n == Len(j)
<1>1. n \in Nat \ {0} /\ IsSeq(k) /\ Len(k) = n - 1 /\ \A i \in 1..n - 1 : k[i] = j[i]
  BY PopIs DEF Shape
<1>. HIDE DEF k
<1>2. /\ \A i \in 1..n : IsCall(j[i])
      /\ j[1].src = from /\ j[1].dst = to
      /\ \A i \in 1..n - 1 : Linked(j[i], j[i + 1])
      /\ \A i, h \in 1..n : i <= h => IsPrefix(j[i].src, j[h].src) /\ IsPrefix(j[i].dst, j[h].dst)
  BY DEF Shape
<1>. HIDE DEF n
<1>3. /\ \A i \in 1..n - 1 : i \in 1..n
      /\ \A i \in 1..(n - 1) - 1 : i \in 1..n - 1 /\ i + 1 \in 1..n - 1
  BY <1>1
<1>4. \A i \in 1..n - 1 : IsCall(k[i])
  BY <1>1, <1>2, <1>3, Zenon
<1>5. k # <<>> => k[1].src = from /\ k[1].dst = to
  <2>1. ASSUME k # <<>> PROVE 1 \in 1..n - 1
    <3>1. Len(k) # 0
      BY <1>1, <2>1 DEF IsSeq
    <3>. QED BY <1>1, <3>1
  <2>. QED BY <1>1, <1>2, <2>1
<1>6. \A i \in 1..(n - 1) - 1 : Linked(k[i], k[i + 1])
  BY <1>1, <1>2, <1>3
<1>7. \A i, h \in 1..n - 1 : i <= h => IsPrefix(k[i].src, k[h].src) /\ IsPrefix(k[i].dst, k[h].dst)
  BY <1>1, <1>2, <1>3
<1>8. Shape(k, from, to)
  BY <1>1, <1>4, <1>5, <1>6, <1>7 DEF Shape
<1>. QED
  BY <1>1, <1>8, Zenon DEF k, n

\* The call that runs.
LEMMA TopIs ==
  ASSUME NEW j, NEW from, NEW to, Shape(j, from, to), j # <<>>
  PROVE  IsCall(Last(j)) /\ IsPrefix(from, Last(j).src) /\ IsPrefix(to, Last(j).dst)
<1>1. Len(j) \in Nat \ {0} /\ Last(j) = j[Len(j)]
  BY PopIs DEF Shape
<1>2. 1 \in 1..Len(j) /\ Len(j) \in 1..Len(j) /\ 1 <= Len(j)
  BY <1>1
<1>. QED
  BY <1>1, <1>2 DEF Shape

Strictly(a, b) == IsPrefix(a, b) /\ a # b

\* The entry of the directory a call reads that leads to where it copies to.
Inward(f) == SubSeq(f.dst, 1, Len(f.src) + 1)

\* A call that copies a directory into itself: it has its destination still to copy, or is at it.
IntoCall(f, now) ==
  Strictly(f.src, f.dst) =>
    /\ f.at # "blocks"
    /\ f.at = "list" => Inward(f) \in f.first /\ (Inward(f) \in f.seen => now = Inward(f))

\* A call that reads a directory elsewhere: what it has seen is copied, but for what is copied now,
\* and nothing else is in the copy.
ListSoFar(f, now, t, b) ==
  /\ IsDir(b, f.src) /\ IsDir(t, f.dst)
  /\ f.seen \subseteq ChildrenOf(b, f.src) /\ ChildrenOf(b, f.src) \subseteq f.first
  /\ \A c \in f.seen : c = now \/ SameBelow(b, c, t, Append(f.dst, Last(c)))
  /\ \A w \in Whole : w # <<>> /\ f.dst \o w \in DOMAIN t => Append(f.src, w[1]) \in f.seen

\* A call that copies a file elsewhere: the copy is the beginning of the file.
FileSoFar(f, t, b) ==
  /\ f.src \in DOMAIN b /\ b[f.src] \in Seq(Blocks) /\ f.dst \in DOMAIN t /\ t[f.dst] \in Seq(Blocks)
  /\ Len(t[f.dst]) <= Len(b[f.src]) /\ \A k \in 1..Len(t[f.dst]) : t[f.dst][k] = b[f.src][k]

\* What holds of each call, into: whether the directory is copied into itself.
Right(f, now, t, b, into) ==
  IF into THEN IntoCall(f, now)
  ELSE /\ f.at = "list" => ListSoFar(f, now, t, b)
       /\ f.at = "blocks" => FileSoFar(f, t, b)
Rights(j, t, b, into) == \A i \in 1..Len(j) - 1 : Right(j[i], j[i + 1].src, t, b, into)

\* A call that has copied all it was for; one that copies into itself never has.
Done(f, t, b, into) ==
  IF into THEN ~Strictly(f.src, f.dst) ELSE SameBelow(b, f.src, t, f.dst)

\* All calls while the card has not failed without a word.
Unspoiled(j, t, b, from, to) ==
  IF j = <<>> THEN ~IsPrefix(from, to) /\ SameBelow(b, from, t, to)
  ELSE Rights(j, t, b, IsPrefix(from, to)) /\ Right(Last(j), <<>>, t, b, IsPrefix(from, to))

\* The calls below the one that runs do not see it move on, ...
LEMMA RightsTop ==
  ASSUME NEW j, NEW from, NEW to, Shape(j, from, to), j # <<>>,
         NEW x, x.src = Last(j).src, x.dst = Last(j).dst, IsCall(x),
         NEW t, NEW b, NEW into, Rights(j, t, b, into)
  PROVE  Rights(Append(Front(j), x), t, b, into)
<1>. DEFINE k == Append(Front(j), x)
            n == Len(j)
<1>1. n \in Nat \ {0} /\ Last(j) = j[n]
  BY PopIs DEF Shape
<1>2. Len(k) = n /\ k[n] = x /\ \A i \in 1..n - 1 : k[i] = j[i]
  BY ShapeTop
<1>. HIDE DEF k
<1>3. \A i \in 1..n - 1 : Right(j[i], j[i + 1].src, t, b, into)
  BY DEF Rights
<1>. HIDE DEF n
<1>4. ASSUME NEW i \in 1..n - 1 PROVE Right(k[i], k[i + 1].src, t, b, into)
  <2>1. k[i + 1].src = j[i + 1].src
    <3>1. CASE i + 1 = n
      BY <1>1, <1>2, <3>1
    <3>2. CASE i + 1 # n
      <4>1. i + 1 \in 1..n - 1
        BY <1>1, <3>2
      <4>. QED BY <1>2, <4>1
    <3>. QED BY <3>1, <3>2
  <2>. QED BY <1>2, <1>3, <2>1
<1>. QED
  BY <1>2, <1>4 DEF Rights, k

\* ... nor one above them begin, ...
LEMMA RightsPush ==
  ASSUME NEW j, NEW from, NEW to, Shape(j, from, to), j # <<>>,
         NEW y, Linked(Last(j), y), IsCall(y),
         NEW t, NEW b, NEW into, Rights(j, t, b, into), Right(Last(j), y.src, t, b, into)
  PROVE  Rights(Append(j, y), t, b, into)
<1>. DEFINE k == Append(j, y)
            n == Len(j)
<1>1. n \in Nat \ {0} /\ Last(j) = j[n]
  BY PopIs DEF Shape
<1>2. Len(k) = n + 1 /\ k[n + 1] = y /\ \A i \in 1..n : k[i] = j[i]
  BY ShapePush
<1>. HIDE DEF k
<1>3. \A i \in 1..n - 1 : Right(j[i], j[i + 1].src, t, b, into)
  BY DEF Rights
<1>. HIDE DEF n
<1>4. ASSUME NEW i \in 1..n PROVE Right(k[i], k[i + 1].src, t, b, into)
  <2>1. CASE i = n
    BY <1>1, <1>2, <2>1
  <2>2. CASE i # n
    <3>1. i \in 1..n - 1 /\ i + 1 \in 1..n
      BY <1>1, <2>2
    <3>. QED BY <1>2, <1>3, <3>1
  <2>. QED BY <2>1, <2>2
<1>5. \A i \in 1..Len(k) - 1 : i \in 1..n
  BY <1>1, <1>2
<1>. QED
  BY <1>4, <1>5 DEF Rights, k

\* ... but the next one sees it return.
LEMMA RightsPop ==
  ASSUME NEW j, NEW from, NEW to, Shape(j, from, to), j # <<>>,
         NEW t, NEW b, NEW into, Rights(j, t, b, into)
  PROVE  /\ Rights(Front(j), t, b, into)
         /\ Front(j) # <<>> => Linked(Last(Front(j)), Last(j))
                               /\ Right(Last(Front(j)), Last(j).src, t, b, into)
         /\ Front(j) = <<>> => Last(j).src = from /\ Last(j).dst = to
<1>. DEFINE k == Front(j)
            n == Len(j)
<1>1. n \in Nat \ {0} /\ Last(j) = j[n]
  BY PopIs DEF Shape
<1>2. Shape(k, from, to) /\ Len(k) = n - 1 /\ \A i \in 1..n - 1 : k[i] = j[i]
  BY ShapePop
<1>. HIDE DEF k
<1>3. /\ \A i \in 1..n - 1 : Right(j[i], j[i + 1].src, t, b, into)
      /\ \A i \in 1..n - 1 : Linked(j[i], j[i + 1])
      /\ j[1].src = from /\ j[1].dst = to
  BY DEF Rights, Shape
<1>. HIDE DEF n
<1>4. \A i \in 1..(n - 1) - 1 : i \in 1..n - 1 /\ i + 1 \in 1..n - 1
  BY <1>1
<1>5. Rights(k, t, b, into)
  BY <1>2, <1>3, <1>4 DEF Rights
<1>6. ASSUME k # <<>> PROVE Linked(Last(k), Last(j)) /\ Right(Last(k), Last(j).src, t, b, into)
  <2>1. Len(k) \in Nat \ {0} /\ Last(k) = k[Len(k)]
    BY <1>2, <1>6, PopIs DEF Shape
  <2>2. n - 1 \in 1..n - 1 /\ (n - 1) + 1 = n
    BY <1>1, <1>2, <2>1
  <2>3. Last(k) = j[n - 1]
    BY <1>2, <2>1, <2>2
  <2>4. Right(j[n - 1], j[(n - 1) + 1].src, t, b, into) /\ Linked(j[n - 1], j[(n - 1) + 1])
    BY <1>3, <2>2
  <2>. QED BY <1>1, <2>2, <2>3, <2>4
<1>7. ASSUME k = <<>> PROVE Last(j).src = from /\ Last(j).dst = to
  <2>1. n = 1
    BY <1>1, <1>2, <1>7
  <2>. QED BY <1>1, <1>3, <2>1
<1>. QED
  BY <1>5, <1>6, <1>7 DEF k

\* Two paths as long as each other, above the same path, are the same.
LEMMA SameHeight ==
  ASSUME NEW p \in Whole, NEW q \in Whole, NEW r \in Whole, IsPrefix(p, r), IsPrefix(q, r), Len(p) = Len(q)
  PROVE  p = q
<1>1. Len(p) \in Nat /\ Len(p) <= Len(r) /\ (\A i \in 1..Len(p) : r[i] = p[i]) /\ \A i \in 1..Len(q) : r[i] = q[i]
  BY PrefixIs DEF Whole
<1>. QED
  BY <1>1, SamePath

\* What is below a path one name further down.
LEMMA ChildAbove ==
  ASSUME NEW d \in Whole, NEW w \in Whole, NEW e \in Whole, e # <<>>, Front(e) = d, IsPrefix(e, d \o w)
  PROVE  w # <<>> /\ w[1] = Last(e)
<1>1. /\ Len(d) \in Nat /\ Len(w) \in Nat /\ Len(d \o w) = Len(d) + Len(w) /\ d \o w \in Whole
      /\ \A i \in 1..Len(d) + Len(w) : (d \o w)[i] = IF i <= Len(d) THEN d[i] ELSE w[i - Len(d)]
  BY JoinIs
<1>2. Len(e) = Len(d) + 1 /\ Last(e) = e[Len(e)]
  <2>1. Len(e) \in Nat \ {0} /\ Len(d) = Len(e) - 1
    BY FrontIs
  <2>. QED BY <2>1, <1>1 DEF Last
<1>. DEFINE p == d \o w
<1>3. p \in Whole /\ IsPrefix(e, p)
  BY <1>1
<1>. HIDE DEF p
<1>4. Len(e) <= Len(p) /\ \A i \in 1..Len(e) : p[i] = e[i]
  BY <1>3, PrefixIs
<1>5. Len(w) >= 1 /\ p[Len(d) + 1] = e[Len(d) + 1]
  BY <1>1, <1>2, <1>4 DEF p
<1>6. p[Len(d) + 1] = w[1]
  <2>. DEFINE i == Len(d) + 1
  <2>1. i \in 1..Len(d) + Len(w) /\ ~(i <= Len(d)) /\ i - Len(d) = 1
    BY <1>1, <1>5
  <2>. HIDE DEF i
  <2>2. p[i] = w[i - Len(d)]
    BY <1>1, <2>1 DEF p
  <2>. QED BY <2>1, <2>2 DEF i
<1>7. w # <<>>
  BY <1>1, <1>5
<1>. QED
  BY <1>2, <1>5, <1>6, <1>7

\* What is put above a call that waits leaves what holds of it.
LEMMA RightPut ==
  ASSUME NEW f, NEW g, Linked(f, g), f.src \in Whole, f.dst \in Whole, g.src \in Whole, g.dst \in Whole,
         NEW t, NEW b, IsCard(b), NEW into, Right(f, g.src, t, b, into),
         NEW u, NEW d \in Whole, NEW x, IsPut(u, t, d, x), IsPrefix(g.dst, d)
  PROVE  Right(f, g.src, u, b, into)
<1>1. CASE into
  BY <1>1 DEF Right
<1>2. CASE ~into
  <2>. DEFINE now == g.src
              m == Last(g.src)
  <2>0. /\ f.at = "list" /\ now \in f.seen /\ g.src # <<>> /\ g.dst # <<>> /\ Front(g.src) = f.src
        /\ Front(g.dst) = f.dst /\ m = Last(g.dst)
    BY DEF Linked
  <2>1. ListSoFar(f, now, t, b)
    BY <1>2, <2>0 DEF Right
  <2>2. g.dst = Append(f.dst, m) /\ g.src = Append(f.src, m) /\ Len(g.dst) = Len(f.dst) + 1 /\ Len(f.dst) \in Nat
    <3>1. Len(f.dst) \in Nat /\ Len(g.dst) \in Nat /\ Len(f.dst) = Len(g.dst) - 1
      BY <2>0, FrontIs DEF Whole
    <3>. QED BY <2>0, <3>1, FrontIs
  <2>. HIDE DEF m, now
  <2>3. DOMAIN u = DOMAIN t \cup {d} /\ \A p \in DOMAIN t \ {d} : u[p] = t[p]
    BY DEF IsPut
  <2>4. IsDir(u, f.dst)
    <3>1. Len(g.dst) <= Len(d)
      BY PrefixIs
    <3>2. f.dst # d
      BY <2>2, <3>1
    <3>. QED BY <2>1, <2>3, <3>2 DEF ListSoFar, IsDir
  <2>5. ASSUME NEW c \in f.seen, c # now, SameBelow(b, c, t, Append(f.dst, Last(c)))
        PROVE  SameBelow(b, c, u, Append(f.dst, Last(c)))
    <3>. DEFINE e == Append(f.dst, Last(c))
    <3>1. c \in DOMAIN b /\ c # <<>> /\ Front(c) = f.src
      BY <2>1 DEF ListSoFar, ChildrenOf
    <3>2. c \in Whole
      BY <3>1, CardIs
    <3>3. Last(c) \in Naming /\ c = Append(f.src, Last(c))
      BY <3>1, <3>2, FrontIs
    <3>4. e \in Whole /\ Last(e) = Last(c) /\ Front(e) = f.dst /\ e # <<>>
      BY <3>3, ChildIs
    <3>5. Last(c) # m
      BY <2>2, <2>5, <3>3 DEF now
    <3>. HIDE DEF e
    <3>6. ~IsPrefix(e, d)
      <4>1. SUFFICES ASSUME IsPrefix(e, d) PROVE FALSE
        OBVIOUS
      <4>2. Len(e) = Len(g.dst)
        <5>1. Len(e) \in Nat /\ Len(f.dst) = Len(e) - 1
          BY <3>4, FrontIs
        <5>. QED BY <2>2, <5>1
      <4>3. e = g.dst
        BY <3>4, <4>1, <4>2, SameHeight
      <4>. QED BY <2>0, <3>4, <3>5, <4>3
    <3>7. \A w \in Whole : e \o w # d
      BY <3>4, <3>6, PrefixJoin
    <3>8. SameBelow(b, c, u, e)
      <4>1. SameBelow(b, c, t, e)
        BY <2>5 DEF e
      <4>2. \A w \in Whole : /\ e \o w \in DOMAIN u <=> e \o w \in DOMAIN t
                             /\ e \o w \in DOMAIN t => u[e \o w] = t[e \o w]
        BY <2>3, <3>7
      <4>. QED BY <4>1, <4>2, Zenon DEF SameBelow
    <3>. QED BY <3>8 DEF e
  <2>6. ASSUME NEW w \in Whole, w # <<>>, f.dst \o w \in DOMAIN u PROVE Append(f.src, w[1]) \in f.seen
    <3>1. CASE f.dst \o w = d
      <4>0. IsPrefix(g.dst, f.dst \o w)
        BY <3>1
      <4>1. w[1] = m
        <5>1. w[1] = Last(g.dst)
          BY <2>0, <2>6, <4>0, ChildAbove
        <5>. QED BY <2>0, <5>1
      <4>. QED BY <2>0, <2>2, <4>1 DEF now
    <3>2. CASE f.dst \o w # d
      <4>1. f.dst \o w \in DOMAIN t
        BY <2>3, <2>6, <3>2
      <4>. QED BY <2>1, <2>6, <4>1, Zenon DEF ListSoFar
    <3>. QED BY <3>1, <3>2
  <2>7. ListSoFar(f, now, u, b)
    BY <2>1, <2>4, <2>5, <2>6, Zenon DEF ListSoFar
  <2>. QED BY <1>2, <2>0, <2>7, Zenon DEF Right, now
<1>. QED
  BY <1>1, <1>2

\* So the card changes only above the calls that wait.
LEMMA RightsPut ==
  ASSUME NEW j, NEW from, NEW to, Shape(j, from, to), j # <<>>,
         NEW t, NEW b, IsCard(b), NEW into, Rights(j, t, b, into),
         NEW u, NEW x, IsPut(u, t, Last(j).dst, x)
  PROVE  Rights(j, u, b, into)
<1>. DEFINE n == Len(j)
            d == Last(j).dst
<1>1. n \in Nat \ {0} /\ Last(j) = j[n]
  BY PopIs DEF Shape
<1>2. /\ \A i \in 1..n : j[i].src \in Whole /\ j[i].dst \in Whole
      /\ \A i \in 1..n - 1 : Linked(j[i], j[i + 1])
      /\ \A i, h \in 1..n : i <= h => IsPrefix(j[i].src, j[h].src) /\ IsPrefix(j[i].dst, j[h].dst)
  BY DEF Shape, IsCall
<1>. HIDE DEF n
<1>3. ASSUME NEW i \in 1..n - 1 PROVE Right(j[i], j[i + 1].src, u, b, into)
  <2>1. i \in 1..n /\ i + 1 \in 1..n /\ n \in 1..n /\ i + 1 <= n
    BY <1>1
  <2>2. IsPrefix(j[i + 1].dst, d) /\ d \in Whole
    BY <1>1, <1>2, <2>1
  <2>3. Linked(j[i], j[i + 1]) /\ Right(j[i], j[i + 1].src, t, b, into)
    BY <1>2 DEF Rights, n
  <2>4. j[i].src \in Whole /\ j[i].dst \in Whole /\ j[i + 1].src \in Whole /\ j[i + 1].dst \in Whole
    BY <1>2, <2>1
  <2>. HIDE DEF d
  <2>5. IsPut(u, t, d, x)
    BY DEF d
  <2>. QED BY <2>2, <2>3, <2>4, <2>5, RightPut
<1>. QED
  BY <1>3 DEF Rights, n

\* The entry towards the destination.
LEMMA InwardIs ==
  ASSUME NEW f, f.src \in Whole, f.dst \in Whole, Strictly(f.src, f.dst)
  PROVE  /\ Inward(f) \in Whole /\ Inward(f) # <<>> /\ Front(Inward(f)) = f.src
         /\ IsPrefix(Inward(f), f.dst)
<1>. DEFINE s == f.src
            d == f.dst
            n == Len(s) + 1
<1>1. s \in Whole /\ d \in Whole /\ IsPrefix(s, d) /\ s # d
  BY DEF Strictly
<1>. HIDE DEF s, d
<1>2. Len(s) \in Nat /\ Len(d) \in Nat /\ Len(s) <= Len(d) /\ \A i \in 1..Len(s) : d[i] = s[i]
  BY <1>1, PrefixIs DEF Whole
<1>3. n \in Nat \ {0} /\ n <= Len(d)
  <2>1. Len(s) # Len(d)
    BY <1>1, <1>2, SamePath
  <2>. QED BY <1>2, <2>1
<1>4. n - 1 = Len(s)
  BY <1>2
<1>. HIDE DEF n
<1>. DEFINE e == SubSeq(d, 1, n)
<1>5. e \in Whole /\ Len(e) = n /\ \A i \in 1..n : e[i] = d[i]
  BY <1>1, <1>3 DEF Whole
<1>. HIDE DEF e
<1>6. e # <<>> /\ IsPrefix(e, d)
  BY <1>1, <1>3, <1>5, PrefixIs
<1>7. Front(e) = s
  <2>1. Front(e) \in Whole /\ Len(Front(e)) = n - 1 /\ IsPrefix(Front(e), e)
    BY <1>5, <1>6, FrontIs
  <2>2. IsPrefix(Front(e), d)
    BY <1>1, <1>5, <1>6, <2>1, PrefixOrder
  <2>. QED BY <1>1, <1>4, <2>1, <2>2, SameHeight
<1>8. e = Inward(f)
  BY DEF Inward, e, s, d, n
<1>. QED
  BY <1>5, <1>6, <1>7, <1>8 DEF s, d

\* A call that returns with all it was for is off the list of the one that made it.
LEMMA Returned ==
  ASSUME NEW f, NEW g, Linked(f, g), f.src \in Whole, f.dst \in Whole, g.src \in Whole, g.dst \in Whole,
         NEW t, NEW b, NEW into, Right(f, g.src, t, b, into), Done(g, t, b, into)
  PROVE  Right(f, <<>>, t, b, into)
<1>0. /\ f.at = "list" /\ g.src \in f.seen /\ g.src # <<>> /\ g.dst # <<>> /\ Front(g.src) = f.src
      /\ Front(g.dst) = f.dst /\ Last(g.src) = Last(g.dst)
  BY DEF Linked
<1>1. CASE into
  <2>1. IntoCall(f, g.src) /\ ~Strictly(g.src, g.dst)
    BY <1>1 DEF Right, Done
  <2>2. ASSUME Strictly(f.src, f.dst), Inward(f) \in f.seen PROVE FALSE
    <3>1. g.src = Inward(f)
      BY <1>0, <2>1, <2>2 DEF IntoCall
    <3>2. IsPrefix(g.src, f.dst)
      BY <2>2, <3>1, InwardIs
    <3>3. IsPrefix(f.dst, g.dst) /\ f.dst # g.dst
      BY <1>0, FrontIs
    <3>4. IsPrefix(g.src, g.dst) /\ g.src # g.dst
      BY <3>2, <3>3, PrefixOrder
    <3>. QED BY <2>1, <3>4 DEF Strictly
  <2>3. IntoCall(f, <<>>)
    BY <2>1, <2>2 DEF IntoCall
  <2>. QED BY <1>1, <2>3 DEF Right
<1>2. CASE ~into
  <2>1. ListSoFar(f, g.src, t, b) /\ SameBelow(b, g.src, t, g.dst)
    BY <1>0, <1>2 DEF Right, Done
  <2>2. g.dst = Append(f.dst, Last(g.src))
    BY <1>0, FrontIs
  <2>3. \A c \in f.seen : SameBelow(b, c, t, Append(f.dst, Last(c)))
    BY <2>1, <2>2, Zenon DEF ListSoFar
  <2>4. ListSoFar(f, <<>>, t, b)
    BY <2>1, <2>3, Zenon DEF ListSoFar
  <2>. QED BY <1>0, <1>2, <2>4, Zenon DEF Right
<1>. QED
  BY <1>1, <1>2

\* So the calls go on, and the outermost one returns with the whole.
LEMMA UnspoiledPop ==
  ASSUME NEW j, NEW from, NEW to, Shape(j, from, to), j # <<>>, ~IsPrefix(to, from), from \in Whole,
         NEW t, NEW b, Unspoiled(j, t, b, from, to), Done(Last(j), t, b, IsPrefix(from, to))
  PROVE  Unspoiled(Front(j), t, b, from, to)
<1>. DEFINE into == IsPrefix(from, to)
            k == Front(j)
<1>1. Rights(j, t, b, into) /\ Done(Last(j), t, b, into)
  BY DEF Unspoiled
<1>2. /\ Rights(k, t, b, into)
      /\ k # <<>> => Linked(Last(k), Last(j)) /\ Right(Last(k), Last(j).src, t, b, into)
      /\ k = <<>> => Last(j).src = from /\ Last(j).dst = to
  BY <1>1, RightsPop, Zenon
<1>3. Shape(k, from, to)
  BY ShapePop
<1>. HIDE DEF k
<1>4. CASE k = <<>>
  <2>1. Last(j).src = from /\ Last(j).dst = to
    BY <1>2, <1>4
  <2>2. IsPrefix(from, from)
    BY PrefixOrder
  <2>3. ~into
    BY <1>1, <2>1, <2>2 DEF Done, Strictly
  <2>4. SameBelow(b, from, t, to)
    BY <1>1, <2>1, <2>3 DEF Done
  <2>. QED BY <1>4, <2>3, <2>4 DEF Unspoiled, k
<1>5. CASE k # <<>>
  <2>1. Last(k).src \in Whole /\ Last(k).dst \in Whole /\ Last(j).src \in Whole /\ Last(j).dst \in Whole
    BY <1>3, <1>5, TopIs DEF IsCall
  <2>. HIDE DEF into
  <2>2. Right(Last(k), <<>>, t, b, into)
    BY <1>1, <1>2, <1>5, <2>1, Returned
  <2>. QED BY <1>2, <1>5, <2>2 DEF Unspoiled, into, k
<1>. QED
  BY <1>4, <1>5

\* A directory of which all entries were seen is copied.
LEMMA ListIsDone ==
  ASSUME NEW f, f.at = "list", f.src \in Whole, f.dst \in Whole, NEW t, NEW b, IsCard(b),
         NEW into, Right(f, <<>>, t, b, into), f.first \subseteq f.seen
  PROVE  Done(f, t, b, into)
<1>1. CASE into
  <2>1. ASSUME Strictly(f.src, f.dst) PROVE FALSE
    <3>1. Inward(f) \in f.first /\ (Inward(f) \in f.seen => <<>> = Inward(f))
      BY <1>1, <2>1 DEF Right, IntoCall
    <3>2. Inward(f) # <<>>
      BY <2>1, InwardIs
    <3>. QED BY <3>1, <3>2
  <2>. QED BY <1>1, <2>1 DEF Done
<1>2. CASE ~into
  <2>. DEFINE s == f.src
              d == f.dst
              Same(w) == /\ s \o w \in DOMAIN b <=> d \o w \in DOMAIN t
                         /\ s \o w \in DOMAIN b => t[d \o w] = b[s \o w]
  <2>1. ListSoFar(f, <<>>, t, b) /\ s \in Whole /\ d \in Whole
    BY <1>2 DEF Right
  <2>2. /\ IsDir(b, s) /\ IsDir(t, d) /\ f.seen \subseteq ChildrenOf(b, s)
        /\ ChildrenOf(b, s) \subseteq f.seen
        /\ \A c \in f.seen : c = <<>> \/ SameBelow(b, c, t, Append(d, Last(c)))
        /\ \A w \in Whole : w # <<>> /\ d \o w \in DOMAIN t => Append(s, w[1]) \in f.seen
    BY <2>1 DEF ListSoFar
  <2>. HIDE DEF s, d
  <2>3. Same(<<>>)
    <3>1. s \o <<>> = s /\ d \o <<>> = d
      BY <2>1, JoinLaws
    <3>. QED BY <2>2, <3>1 DEF IsDir
  <2>4. ASSUME NEW w \in Whole, w # <<>> PROVE Same(w)
    <3>. DEFINE m == w[1]
                v == Tail(w)
                c == Append(s, m)
                e == Append(d, m)
    <3>1. m \in Naming /\ v \in Whole /\ w = <<m>> \o v
      BY <2>4 DEF Whole
    <3>. HIDE DEF m, v
    <3>2. <<m>> \in Whole /\ c = s \o <<m>> /\ e = d \o <<m>> /\ c \in Whole /\ e \in Whole
      <4>1. <<m>> \in Whole
        BY <3>1 DEF Whole
      <4>2. c = s \o <<m>> /\ e = d \o <<m>>
        BY <2>1, <3>1, AppendIsConcat DEF Whole
      <4>3. c \in Whole /\ e \in Whole
        BY <2>1, <3>1, ChildIs
      <4>. QED BY <4>1, <4>2, <4>3
    <3>3. c # <<>> /\ Front(c) = s /\ Last(c) = m /\ e # <<>>
      BY <2>1, ChildIs
    <3>. HIDE DEF c, e
    <3>4. s \o w = c \o v /\ d \o w = e \o v
      <4>1. (s \o <<m>>) \o v = s \o (<<m>> \o v)
        BY <2>1, <3>1, <3>2, ConcatAssociative DEF Whole
      <4>2. (d \o <<m>>) \o v = d \o (<<m>> \o v)
        BY <2>1, <3>1, <3>2, ConcatAssociative DEF Whole
      <4>. QED BY <3>1, <3>2, <4>1, <4>2
    <3>5. CASE c \in f.seen
      <4>1. SameBelow(b, c, t, e)
        BY <2>2, <3>3, <3>5 DEF e
      <4>. QED BY <3>1, <3>4, <4>1 DEF SameBelow
    <3>6. CASE c \notin f.seen
      <4>1. d \o w \notin DOMAIN t
        BY <2>2, <2>4, <3>6 DEF c, m
      <4>2. c \notin DOMAIN b
        BY <2>2, <3>3, <3>6 DEF ChildrenOf
      <4>3. ASSUME c \o v \in DOMAIN b PROVE FALSE
        <5>1. IsPrefix(c, c \o v)
          BY <3>1, <3>2, PrefixJoin
        <5>2. c = c \o v \/ IsDir(b, c)
          BY <3>2, <4>3, <5>1, AboveIsDir
        <5>. QED BY <4>2, <4>3, <5>2 DEF IsDir
      <4>. QED BY <3>4, <4>1, <4>3
    <3>. QED BY <3>5, <3>6
  <2>5. SameBelow(b, s, t, d)
    BY <2>3, <2>4 DEF SameBelow
  <2>. QED BY <1>2, <2>5 DEF Done, s, d
<1>. QED
  BY <1>1, <1>2

\* A file of which all blocks were written is copied.
LEMMA FileIsDone ==
  ASSUME NEW f, f.at = "blocks", f.src \in Whole, f.dst \in Whole, NEW t, IsCard(t), NEW b, IsCard(b),
         NEW into, Right(f, <<>>, t, b, into), into \/ Len(t[f.dst]) = Len(b[f.src])
  PROVE  Done(f, t, b, into)
<1>1. CASE into
  BY <1>1 DEF Right, IntoCall, Done
<1>2. CASE ~into
  <2>. DEFINE s == f.src
              d == f.dst
  <2>1. FileSoFar(f, t, b)
    BY <1>2 DEF Right
  <2>2. /\ s \in DOMAIN b /\ b[s] \in Seq(Blocks) /\ d \in DOMAIN t /\ t[d] \in Seq(Blocks)
        /\ Len(t[d]) = Len(b[s]) /\ \A k \in 1..Len(t[d]) : t[d][k] = b[s][k]
    BY <1>2, <2>1 DEF FileSoFar
  <2>3. s \in Whole /\ d \in Whole
    OBVIOUS
  <2>. HIDE DEF s, d
  <2>4. t[d] = b[s]
    <3>. DEFINE x == t[d]
                y == b[s]
    <3>1. x \in Seq(Blocks) /\ y \in Seq(Blocks) /\ Len(x) = Len(y) /\ \A k \in 1..Len(x) : x[k] = y[k]
      BY <2>2
    <3>. HIDE DEF x, y
    <3>2. x = y
      BY <3>1, SeqEqual
    <3>. QED BY <3>2 DEF x, y
  <2>5. ~IsDir(t, d) /\ ~IsDir(b, s)
    BY <2>2, FileBrowserAssumption DEF IsDir
  <2>6. ASSUME NEW w \in Whole, w # <<>> PROVE s \o w \notin DOMAIN b /\ d \o w \notin DOMAIN t
    <3>1. IsPrefix(s, s \o w) /\ IsPrefix(d, d \o w)
      BY <2>3, PrefixJoin
    <3>2. s \o w # s /\ d \o w # d
      <4>1. s \o <<>> = s /\ d \o <<>> = d /\ <<>> \in Whole
        BY <2>3, JoinLaws
      <4>2. s \o w = s \o <<>> => w = <<>>
        BY <2>3, <4>1, JoinLaws
      <4>3. d \o w = d \o <<>> => w = <<>>
        BY <2>3, <4>1, JoinLaws
      <4>. QED BY <2>6, <4>1, <4>2, <4>3
    <3>. QED BY <2>3, <2>5, <3>1, <3>2, NothingBelow
  <2>7. SameBelow(b, s, t, d)
    <3>1. s \o <<>> = s /\ d \o <<>> = d
      BY <2>3, JoinLaws
    <3>. QED BY <2>2, <2>4, <2>6, <3>1 DEF SameBelow
  <2>. QED BY <1>2, <2>7 DEF Done, s, d
<1>. QED
  BY <1>1, <1>2

\* What is below the source is not below the copy, unless the directory is copied into itself.
LEMMA NotBelowCopy ==
  ASSUME NEW from \in Whole, NEW to \in Whole, ~IsPrefix(to, from), ~IsPrefix(from, to),
         NEW s \in Whole, IsPrefix(from, s)
  PROVE  ~IsPrefix(to, s)
BY PrefixOrder

\* mkdir has made the copy of a directory, and opendir has listed the directory.
LEMMA ListBegun ==
  ASSUME NEW t, IsCard(t), NEW b, IsCard(b), NEW u, IsCard(u),
         NEW from \in Whole, NEW to \in Whole, ~IsPrefix(to, from), AgreeBut(t, b, {to}),
         NEW f, f.at = "list", f.src \in Whole, f.dst \in Whole, IsPrefix(from, f.src), IsPrefix(to, f.dst),
         IsDir(t, f.src), f.dst \notin DOMAIN t, IsPut(u, t, f.dst, Folder),
         f.seen = {}, f.first = ChildrenOf(u, f.src)
  PROVE  Right(f, <<>>, u, b, IsPrefix(from, to))
<1>. DEFINE s == f.src
            d == f.dst
<1>1. DOMAIN u = DOMAIN t \cup {d} /\ u[d] = Folder /\ \A p \in DOMAIN t \ {d} : u[p] = t[p]
  BY DEF IsPut
<1>2. CASE IsPrefix(from, to)
  <2>1. ASSUME Strictly(s, d) PROVE Inward(f) \in f.first
    <3>1. Inward(f) \in Whole /\ Inward(f) # <<>> /\ Front(Inward(f)) = s /\ IsPrefix(Inward(f), d)
      BY <2>1, InwardIs
    <3>2. Inward(f) = d \/ IsDir(u, Inward(f))
      BY <1>1, <3>1, AboveIsDir
    <3>3. Inward(f) \in DOMAIN u
      BY <1>1, <3>2 DEF IsDir
    <3>. QED BY <3>1, <3>3 DEF ChildrenOf
  <2>2. IntoCall(f, <<>>)
    BY <2>1 DEF IntoCall
  <2>. QED BY <1>2, <2>2 DEF Right
<1>3. CASE ~IsPrefix(from, to)
  <2>1. ~IsPrefix(to, s)
    BY <1>3, NotBelowCopy
  <2>2. IsDir(b, s)
    BY <2>1 DEF AgreeBut, IsDir
  <2>3. IsDir(u, d)
    BY <1>1 DEF IsDir
  <2>4. ASSUME NEW c \in ChildrenOf(b, s) PROVE c \in ChildrenOf(u, s)
    <3>1. c \in DOMAIN b /\ c # <<>> /\ Front(c) = s
      BY DEF ChildrenOf
    <3>2. c \in Whole /\ IsPrefix(s, c)
      BY <3>1, CardIs, FrontIs
    <3>3. ~IsPrefix(to, c)
      BY <1>3, <3>2, PrefixOrder, NotBelowCopy
    <3>4. c \in DOMAIN t
      BY <3>1, <3>3 DEF AgreeBut
    <3>. QED BY <1>1, <3>1, <3>4 DEF ChildrenOf
  <2>5. ASSUME NEW w \in Whole, w # <<>>, d \o w \in DOMAIN u PROVE FALSE
    <3>1. d \o w # d
      <4>1. d \o <<>> = d /\ (d \o w = d \o <<>> => w = <<>>)
        BY JoinLaws
      <4>. QED BY <2>5, <4>1
    <3>2. d \o w \in DOMAIN t /\ IsPrefix(d, d \o w) /\ ~IsDir(t, d)
      BY <1>1, <2>5, <3>1, PrefixJoin DEF IsDir
    <3>. QED BY <3>1, <3>2, NothingBelow
  <2>6. ListSoFar(f, <<>>, u, b)
    BY <2>2, <2>3, <2>4, <2>5 DEF ListSoFar
  <2>. QED BY <1>3, <2>6 DEF Right
<1>. QED
  BY <1>2, <1>3

\* fopen has made the copy of a file.
LEMMA FileBegun ==
  ASSUME NEW t, IsCard(t), NEW b, NEW u,
         NEW from \in Whole, NEW to \in Whole, ~IsPrefix(to, from), AgreeBut(t, b, {to}),
         NEW f, f.at = "blocks", f.src \in Whole, f.dst \in Whole, IsPrefix(from, f.src), IsPrefix(to, f.dst),
         f.src \in DOMAIN t, ~IsDir(t, f.src), f.dst # <<>>, IsDir(t, Front(f.dst)), IsPut(u, t, f.dst, <<>>)
  PROVE  Right(f, <<>>, u, b, IsPrefix(from, to))
<1>. DEFINE s == f.src
            d == f.dst
<1>1. DOMAIN u = DOMAIN t \cup {d} /\ u[d] = <<>>
  BY DEF IsPut
<1>2. ~Strictly(s, d)
  <2>1. SUFFICES ASSUME IsPrefix(s, d), s # d PROVE FALSE
    BY DEF Strictly
  <2>2. IsPrefix(s, Front(d)) /\ Front(d) \in DOMAIN t
    BY <2>1, AboveFront DEF IsDir
  <2>3. s = Front(d) \/ IsDir(t, s)
    BY <2>2, AboveIsDir
  <2>. QED BY <2>3
<1>3. CASE IsPrefix(from, to)
  BY <1>2, <1>3 DEF Right, IntoCall
<1>4. CASE ~IsPrefix(from, to)
  <2>1. ~IsPrefix(to, s)
    BY <1>4, NotBelowCopy
  <2>2. s \in DOMAIN b /\ b[s] = t[s]
    BY <2>1 DEF AgreeBut
  <2>3. b[s] \in Seq(Blocks)
    BY <2>2, CardIs DEF IsDir
  <2>4. <<>> \in Seq(Blocks) /\ Len(<<>>) = 0 /\ Len(b[s]) \in Nat
    BY <2>3
  <2>5. Len(u[d]) <= Len(b[s]) /\ \A k \in 1..Len(u[d]) : u[d][k] = b[s][k]
    BY <1>1, <2>4
  <2>6. FileSoFar(f, u, b)
    BY <1>1, <2>2, <2>3, <2>4, <2>5 DEF FileSoFar
  <2>. QED BY <1>4, <2>6 DEF Right
<1>. QED
  BY <1>3, <1>4

\* readdir gives an entry.
LEMMA EntryBegun ==
  ASSUME NEW t, NEW b, NEW from \in Whole, NEW to \in Whole, ~IsPrefix(to, from), AgreeBut(t, b, {to}),
         NEW f, f.at = "list", f.src \in Whole, f.dst \in Whole, IsPrefix(from, f.src),
         Right(f, <<>>, t, b, IsPrefix(from, to)),
         NEW c \in ChildrenOf(t, f.src), c \in Whole,
         NEW g, g.at = "list", g.src = f.src, g.dst = f.dst, g.first = f.first, g.seen = f.seen \cup {c}
  PROVE  Right(g, c, t, b, IsPrefix(from, to))
<1>0. c \in DOMAIN t /\ c # <<>> /\ Front(c) = f.src
  BY DEF ChildrenOf
<1>1. CASE IsPrefix(from, to)
  <2>1. IntoCall(f, <<>>) /\ Inward(g) = Inward(f)
    BY <1>1 DEF Right, Inward
  <2>2. ASSUME Strictly(f.src, f.dst) PROVE Inward(f) \in f.first /\ Inward(f) \notin f.seen
    <3>1. Inward(f) # <<>>
      BY <2>2, InwardIs
    <3>. QED BY <2>1, <2>2, <3>1 DEF IntoCall
  <2>3. IntoCall(g, c)
    BY <2>1, <2>2 DEF IntoCall
  <2>. QED BY <1>1, <2>3 DEF Right
<1>2. CASE ~IsPrefix(from, to)
  <2>1. /\ IsDir(b, f.src) /\ IsDir(t, f.dst)
        /\ f.seen \subseteq ChildrenOf(b, f.src) /\ ChildrenOf(b, f.src) \subseteq f.first
        /\ \A e \in f.seen : e = <<>> \/ SameBelow(b, e, t, Append(f.dst, Last(e)))
        /\ \A w \in Whole : w # <<>> /\ f.dst \o w \in DOMAIN t => Append(f.src, w[1]) \in f.seen
    BY <1>2 DEF Right, ListSoFar
  <2>2. IsPrefix(from, c)
    BY <1>0, FrontIs, PrefixOrder
  <2>3. ~IsPrefix(to, c)
    BY <1>2, <2>2, NotBelowCopy
  <2>4. c \in ChildrenOf(b, f.src)
    BY <1>0, <2>3 DEF AgreeBut, ChildrenOf
  <2>5. \A e \in f.seen : e # <<>>
    BY <2>1 DEF ChildrenOf
  <2>6. \A e \in g.seen : e = c \/ SameBelow(b, e, t, Append(g.dst, Last(e)))
    BY <2>1, <2>5, Zenon
  <2>7. ListSoFar(g, c, t, b)
    BY <2>1, <2>4, <2>6 DEF ListSoFar
  <2>. QED BY <1>2, <2>7 DEF Right
<1>. QED
  BY <1>1, <1>2

\* fwrite puts the next block into the copy.
LEMMA BlockWritten ==
  ASSUME NEW t, NEW b, NEW u, NEW from \in Whole, NEW to \in Whole, ~IsPrefix(to, from),
         AgreeBut(t, b, {to}),
         NEW f, f.at = "blocks", f.src \in Whole, IsPrefix(from, f.src),
         Right(f, <<>>, t, b, IsPrefix(from, to)), Len(t[f.dst]) < Len(t[f.src]), f.src \in DOMAIN t,
         NEW x, x = Append(t[f.dst], t[f.src][Len(t[f.dst]) + 1]), x \in Seq(Blocks), IsPut(u, t, f.dst, x)
  PROVE  Right(f, <<>>, u, b, IsPrefix(from, to))
<1>1. CASE IsPrefix(from, to)
  BY <1>1 DEF Right
<1>2. CASE ~IsPrefix(from, to)
  <2>. DEFINE old == t[f.dst]
              all == b[f.src]
  <2>1. /\ f.src \in DOMAIN b /\ all \in Seq(Blocks) /\ f.dst \in DOMAIN t /\ old \in Seq(Blocks)
        /\ Len(old) <= Len(all) /\ \A k \in 1..Len(old) : old[k] = all[k]
    BY <1>2 DEF Right, FileSoFar
  <2>2. ~IsPrefix(to, f.src)
    BY <1>2, NotBelowCopy
  <2>3. t[f.src] = all
    BY <2>2 DEF AgreeBut
  <2>4. Len(old) < Len(all) /\ x = Append(old, all[Len(old) + 1])
    BY <2>3
  <2>5. u[f.dst] = x /\ f.dst \in DOMAIN u
    BY DEF IsPut
  <2>. HIDE DEF old, all
  <2>6. Len(x) = Len(old) + 1 /\ \A k \in 1..Len(x) : x[k] = all[k]
    BY <2>1, <2>4
  <2>7. Len(x) <= Len(all)
    BY <2>1, <2>4, <2>6
  <2>8. FileSoFar(f, u, b)
    BY <2>1, <2>5, <2>6, <2>7 DEF FileSoFar, all
  <2>. QED BY <1>2, <2>8 DEF Right
<1>. QED
  BY <1>1, <1>2

-----------------------------------------------------------------------------
(* The paste.                                                               *)

\* What is kept of a paste, and a change of one part of it.
OfPaste == {"state", "from", "to", "before", "spoiled"}
LEMMA PasteSet ==
  ASSUME NEW p, p = [x \in OfPaste |-> p[x]], NEW k \in OfPaste, NEW v
  PROVE  /\ [p EXCEPT ![k] = v] = [x \in OfPaste |-> [p EXCEPT ![k] = v][x]]
         /\ [p EXCEPT ![k] = v][k] = v /\ \A x \in OfPaste \ {k} : [p EXCEPT ![k] = v][x] = p[x]
<1>1. DOMAIN p = OfPaste
  OBVIOUS
<1>2. [p EXCEPT ![k] = v] = [x \in OfPaste |-> [p EXCEPT ![k] = v][x]]
  BY <1>1, Zenon
<1>. QED
  BY <1>1, <1>2

\* What a paste set out to do: fb_paste's names, and the card as it found it.
Aims(p) ==
  /\ p = [x \in OfPaste |-> p[x]]
  /\ p.from # <<>> /\ p.to # <<>> /\ (p.from \in Whole /\ Front(p.to) \in Whole => p.to \in Whole)
  /\ p.to = p.from => p.from \notin DOMAIN p.before
  /\ IsCard(p.before)
  /\ p.to \in DOMAIN p.before => Append(Front(p.to), Last(p.from)) \in DOMAIN p.before

\* Nothing has been made yet, ...
Still(j, t, p) == t = p.before /\ j = <<[src |-> p.from, dst |-> p.to, at |-> "enter"]>>

\* ... or the copy runs, which changes nothing but what is below its destination.
Running(j, t, p) ==
  /\ p.from \in Whole /\ p.to \in Whole /\ ~IsPrefix(p.to, p.from)
  /\ Shape(j, p.from, p.to) /\ AgreeBut(t, p.before, {p.to})
  /\ j # <<>> /\ Last(j).at = "blocks" =>
       /\ Last(j).src \in DOMAIN t /\ t[Last(j).src] \in Seq(Blocks)
       /\ Last(j).dst \in DOMAIN t /\ t[Last(j).dst] \in Seq(Blocks)
  /\ ~p.spoiled => Unspoiled(j, t, p.before, p.from, p.to)

\* A paste whose first call may begin runs.
LEMMA StillRuns ==
  ASSUME Aims(paste), Still(job, tree, paste), IsCard(tree),
         Top.src \in DOMAIN tree, Creatable(tree, Top.dst),
         ~IsDir(tree, Top.dst), IsDir(tree, Top.src) => Top.dst \notin DOMAIN tree
  PROVE  Running(job, tree, paste)
<1>. DEFINE f == [src |-> paste.from, dst |-> paste.to, at |-> "enter"]
            s == paste.from
            d == paste.to
<1>1. job = <<f>> /\ tree = paste.before
  BY DEF Still
<1>2. Len(job) = 1 /\ job[1] = f /\ Top = f /\ job # <<>> /\ IsSeq(job)
  <2>1. Len(job) = 1 /\ job[1] = f /\ job # <<>> /\ DOMAIN job = 1..1 /\ job = [i \in DOMAIN job |-> job[i]]
    BY <1>1
  <2>2. IsSeq(job)
    BY <2>1, AsSeq
  <2>. QED BY <2>1, <2>2 DEF Top, Last
<1>3. f.src = s /\ f.dst = d /\ f.at = "enter"
  OBVIOUS
<1>. HIDE DEF f
<1>4. s \in DOMAIN tree /\ s \in Whole /\ s # <<>> /\ IsDir(tree, Front(d)) /\ d # <<>>
  BY <1>2, <1>3, CardIs DEF Creatable, Aims
<1>5. d \in Whole
  BY <1>4, CardIs DEF Aims, IsDir
<1>6. ~IsPrefix(d, s)
  <2>1. SUFFICES ASSUME IsPrefix(d, s) PROVE FALSE
    OBVIOUS
  <2>2. d # s
    BY <1>1, <1>4 DEF Aims
  <2>3. IsDir(tree, d)
    BY <1>4, <1>5, <2>1, <2>2, AboveIsDir
  <2>. QED BY <1>2, <1>3, <2>3
<1>7. Shape(job, s, d)
  <2>1. IsCall(f)
    BY <1>3, <1>4, <1>5 DEF IsCall
  <2>2. \A i \in 1..1 : i = 1
    OBVIOUS
  <2>3. \A i \in 1..1 - 1 : FALSE
    OBVIOUS
  <2>4. IsPrefix(s, s) /\ IsPrefix(d, d)
    BY <1>4, <1>5, PrefixOrder
  <2>. QED BY <1>2, <1>3, <2>1, <2>2, <2>3, <2>4 DEF Shape
<1>8. AgreeBut(tree, paste.before, {d})
  BY <1>1 DEF AgreeBut
<1>9. Unspoiled(job, tree, paste.before, s, d)
  <2>1. Rights(job, tree, paste.before, IsPrefix(s, d))
    <3>1. \A i \in 1..1 - 1 : FALSE
      OBVIOUS
    <3>. QED BY <1>2, <3>1 DEF Rights
  <2>2. Right(f, <<>>, tree, paste.before, IsPrefix(s, d))
    BY <1>3 DEF Right, IntoCall
  <2>. QED BY <1>2, <2>1, <2>2 DEF Unspoiled, Top
<1>. QED
  BY <1>2, <1>3, <1>4, <1>5, <1>6, <1>7, <1>8, <1>9 DEF Running, Top

\* What the call that runs is for.
LEMMA RunningTop ==
  ASSUME Running(job, tree, paste), job # <<>>
  PROVE  /\ Shape(job, paste.from, paste.to) /\ IsCall(Top)
         /\ IsPrefix(paste.from, Top.src) /\ IsPrefix(paste.to, Top.dst)
         /\ Top.src \in Whole /\ Top.dst \in Whole
         /\ paste.from \in Whole /\ paste.to \in Whole /\ ~IsPrefix(paste.to, paste.from)
BY TopIs DEF Running, Top, IsCall

\* A call that moves on and may have changed the card.
LEMMA MovesOn ==
  ASSUME Aims(paste), Running(job, tree, paste), job # <<>>, NEW x, x.src = Top.src, x.dst = Top.dst, IsCall(x),
         NEW u, NEW v, IsPut(u, tree, Top.dst, v),
         job' = Append(Front(job), x) \/ (x = Top /\ job' = job), tree' = u, paste' = paste,
         x.at = "blocks" => /\ x.src \in DOMAIN u /\ u[x.src] \in Seq(Blocks)
                            /\ x.dst \in DOMAIN u /\ u[x.dst] \in Seq(Blocks),
         ~paste.spoiled => Right(x, <<>>, u, paste.before, IsPrefix(paste.from, paste.to))
  PROVE  Running(job', tree', paste')
<1>. DEFINE from == paste.from
            to == paste.to
            b == paste.before
<1>1. /\ Shape(job, from, to) /\ IsPrefix(to, Top.dst)
      /\ from \in Whole /\ to \in Whole /\ ~IsPrefix(to, from)
  BY RunningTop
<1>2. Shape(job', from, to) /\ Last(job') = x /\ job' # <<>>
  <2>1. CASE job' = Append(Front(job), x)
    <3>. DEFINE k == Append(Front(job), x)
    <3>1. Shape(k, from, to) /\ Last(k) = x /\ k # <<>>
      BY <1>1, ShapeTop DEF Top
    <3>. QED BY <2>1, <3>1
  <2>2. CASE x = Top /\ job' = job
    BY <1>1, <2>2 DEF Top
  <2>. QED BY <2>1, <2>2
<1>3. AgreeBut(u, b, {to})
  BY <1>1, AgreePut DEF Running
<1>4. ASSUME ~paste.spoiled PROVE Unspoiled(job', u, b, from, to)
  <2>1. Rights(job, tree, b, IsPrefix(from, to))
    BY <1>4 DEF Running, Unspoiled
  <2>2. IsCard(b)
    BY DEF Aims
  <2>3. Rights(job, u, b, IsPrefix(from, to))
    BY <1>1, <2>1, <2>2, RightsPut DEF Top
  <2>4. Rights(job', u, b, IsPrefix(from, to))
    <3>1. CASE job' = Append(Front(job), x)
      <4>. DEFINE k == Append(Front(job), x)
                  into == IsPrefix(from, to)
      <4>1. Rights(k, u, b, into)
        BY <1>1, <2>3, RightsTop DEF Top
      <4>. QED BY <3>1, <4>1
    <3>2. CASE x = Top /\ job' = job
      BY <2>3, <3>2
    <3>. QED BY <3>1, <3>2
  <2>. QED BY <1>2, <1>4, <2>4 DEF Unspoiled
<1>. QED
  BY <1>1, <1>2, <1>3, <1>4 DEF Running

\* mkdir, opendir.
LEMMA EnterDirRuns ==
  ASSUME IsCard(tree), Aims(paste), Running(job, tree, paste), EnterDir
  PROVE  IsCard(tree') /\ Running(job', tree', paste')
<1>. DEFINE u == Adding(tree, Top.dst, Single(Folder))
            x == [src |-> Top.src, dst |-> Top.dst, at |-> "list", seen |-> {}, first |-> ChildrenOf(u, Top.src)]
<1>1. /\ job # <<>> /\ IsDir(tree, Top.src) /\ Top.dst \notin DOMAIN tree /\ Creatable(tree, Top.dst)
      /\ tree' = u /\ paste' = paste
  BY Zenon DEF EnterDir, Free
<1>2. job' = Append(Front(job), x)
  BY DEF EnterDir
<1>3. /\ Shape(job, paste.from, paste.to)
      /\ IsPrefix(paste.from, Top.src) /\ IsPrefix(paste.to, Top.dst)
      /\ Top.src \in Whole /\ Top.dst \in Whole
      /\ paste.from \in Whole /\ paste.to \in Whole /\ ~IsPrefix(paste.to, paste.from)
  BY <1>1, RunningTop
<1>4. IsPut(u, tree, Top.dst, Folder)
  BY <1>3, PutIs
<1>5. IsDir(tree, Front(Top.dst)) /\ Top.dst # <<>> /\ ~IsDir(tree, Top.dst)
  BY <1>1, FileBrowserAssumption DEF Creatable, IsDir
<1>. HIDE DEF u
<1>6. IsCard(u)
  BY <1>3, <1>4, <1>5, CardPut
<1>7. /\ x.src = Top.src /\ x.dst = Top.dst /\ x.at = "list" /\ x.seen = {}
      /\ x.first = ChildrenOf(u, Top.src) /\ DOMAIN x = {"src", "dst", "at", "seen", "first"}
  BY Zenon
<1>. HIDE DEF x
<1>8. IsCall(x)
  BY <1>3, <1>7 DEF IsCall
<1>9. Right(x, <<>>, u, paste.before, IsPrefix(paste.from, paste.to))
  BY <1>1, <1>3, <1>4, <1>6, <1>7, ListBegun DEF Aims, Running
<1>10. Running(job', tree', paste')
  BY <1>1, <1>2, <1>4, <1>7, <1>8, <1>9, MovesOn
<1>. QED
  BY <1>1, <1>6, <1>10

\* fopen, fopen.
LEMMA EnterFileRuns ==
  ASSUME IsCard(tree), Aims(paste), Running(job, tree, paste), EnterFile
  PROVE  IsCard(tree') /\ Running(job', tree', paste')
<1>. DEFINE u == Adding(tree, Top.dst, Single(<<>>))
            x == [src |-> Top.src, dst |-> Top.dst, at |-> "blocks"]
<1>1. /\ job # <<>> /\ Top.src \in DOMAIN tree /\ ~IsDir(tree, Top.src) /\ ~IsDir(tree, Top.dst)
      /\ Creatable(tree, Top.dst)
      /\ tree' = u /\ paste' = paste /\ job' = Append(Front(job), x)
  BY Zenon DEF EnterFile, Free
<1>3. /\ Shape(job, paste.from, paste.to)
      /\ IsPrefix(paste.from, Top.src) /\ IsPrefix(paste.to, Top.dst)
      /\ Top.src \in Whole /\ Top.dst \in Whole
      /\ paste.from \in Whole /\ paste.to \in Whole /\ ~IsPrefix(paste.to, paste.from)
  BY <1>1, RunningTop
<1>4. IsPut(u, tree, Top.dst, <<>>)
  BY <1>3, PutIs
<1>5. IsDir(tree, Front(Top.dst)) /\ Top.dst # <<>>
  BY <1>1, FileBrowserAssumption DEF Creatable, IsDir
<1>. HIDE DEF u
<1>6. IsCard(u)
  <2>1. <<>> \in Seq(Blocks)
    OBVIOUS
  <2>. QED BY <1>1, <1>3, <1>4, <1>5, <2>1, CardPut
<1>7. x.src = Top.src /\ x.dst = Top.dst /\ x.at = "blocks" /\ x.at # "list"
  OBVIOUS
<1>. HIDE DEF x
<1>8. IsCall(x)
  BY <1>3, <1>7 DEF IsCall
<1>9. Right(x, <<>>, u, paste.before, IsPrefix(paste.from, paste.to))
  BY <1>1, <1>3, <1>4, <1>5, <1>7, FileBegun DEF Running
<1>10. /\ x.src \in DOMAIN u /\ u[x.src] \in Seq(Blocks)
       /\ x.dst \in DOMAIN u /\ u[x.dst] \in Seq(Blocks)
  <2>1. tree[Top.src] \in Seq(Blocks)
    BY <1>1, CardIs DEF IsDir
  <2>2. <<>> \in Seq(Blocks)
    OBVIOUS
  <2>3. /\ Top.src \in DOMAIN u /\ Top.dst \in DOMAIN u /\ u[Top.dst] = <<>>
        /\ Top.src # Top.dst => u[Top.src] = tree[Top.src]
    BY <1>1, <1>4 DEF IsPut
  <2>4. u[Top.src] \in Seq(Blocks)
    <3>1. CASE Top.src = Top.dst
      BY <2>2, <2>3, <3>1
    <3>2. CASE Top.src # Top.dst
      BY <2>1, <2>3, <3>2
    <3>. QED BY <3>1, <3>2
  <2>. QED BY <1>7, <2>2, <2>3, <2>4
<1>11. Running(job', tree', paste')
  BY <1>1, <1>4, <1>7, <1>8, <1>9, <1>10, MovesOn
<1>. QED
  BY <1>1, <1>6, <1>11

\* fread, fwrite.
LEMMA BlockRuns ==
  ASSUME IsCard(tree), Aims(paste), Running(job, tree, paste), Block
  PROVE  IsCard(tree') /\ Running(job', tree', paste')
<1>. DEFINE x == Append(tree[Top.dst], tree[Top.src][Len(tree[Top.dst]) + 1])
            u == [tree EXCEPT ![Top.dst] = x]
<1>1. /\ job # <<>> /\ Top.at = "blocks" /\ Len(tree[Top.dst]) < Len(tree[Top.src])
      /\ paste' = paste /\ job' = job
  BY Zenon DEF Block, Free
<1>2. /\ Shape(job, paste.from, paste.to) /\ IsCall(Top)
      /\ IsPrefix(paste.from, Top.src) /\ IsPrefix(paste.to, Top.dst)
      /\ Top.src \in Whole /\ Top.dst \in Whole
      /\ paste.from \in Whole /\ paste.to \in Whole /\ ~IsPrefix(paste.to, paste.from)
  BY <1>1, RunningTop
<1>3. /\ Top.src \in DOMAIN tree /\ tree[Top.src] \in Seq(Blocks)
      /\ Top.dst \in DOMAIN tree /\ tree[Top.dst] \in Seq(Blocks)
  BY <1>1 DEF Running, Top
<1>4. tree' = u
  BY DEF Block
<1>5. x \in Seq(Blocks)
  <2>. DEFINE old == tree[Top.dst]
              all == tree[Top.src]
  <2>1. old \in Seq(Blocks) /\ all \in Seq(Blocks) /\ Len(old) < Len(all)
    BY <1>1, <1>3
  <2>. HIDE DEF old, all
  <2>2. Append(old, all[Len(old) + 1]) \in Seq(Blocks)
    BY <2>1
  <2>. QED BY <2>2 DEF old, all
<1>6. IsPut(u, tree, Top.dst, x)
  BY <1>3, GrownIs
<1>. HIDE DEF u
<1>7. IsCard(u)
  <2>1. ~IsDir(tree, Top.dst)
    BY <1>3, FileBrowserAssumption DEF IsDir
  <2>2. ASSUME Top.dst = <<>> PROVE FALSE
    <3>1. IsPrefix(paste.to, <<>>)
      BY <1>2, <2>2
    <3>2. IsPrefix(<<>>, paste.to) /\ <<>> \in Whole
      BY <1>2, PrefixOrder, JoinLaws
    <3>3. paste.to = <<>>
      BY <1>2, <3>1, <3>2, PrefixOrder
    <3>. QED BY <3>3 DEF Aims
  <2>3. IsDir(tree, Front(Top.dst))
    BY <1>3, <2>2, CardIs
  <2>. HIDE DEF x
  <2>. QED BY <1>2, <1>5, <1>6, <2>1, <2>2, <2>3, CardPut
<1>8. ~paste.spoiled => Right(Top, <<>>, u, paste.before, IsPrefix(paste.from, paste.to))
  <2>1. SUFFICES ASSUME ~paste.spoiled PROVE Right(Top, <<>>, u, paste.before, IsPrefix(paste.from, paste.to))
    OBVIOUS
  <2>2. Right(Top, <<>>, tree, paste.before, IsPrefix(paste.from, paste.to))
    BY <1>1, <2>1 DEF Running, Unspoiled, Top
  <2>3. AgreeBut(tree, paste.before, {paste.to})
    BY DEF Running
  <2>. QED BY <1>1, <1>2, <1>3, <1>5, <1>6, <2>2, <2>3, BlockWritten
<1>. HIDE DEF x
<1>9. /\ Top.src \in DOMAIN u /\ u[Top.src] \in Seq(Blocks)
      /\ Top.dst \in DOMAIN u /\ u[Top.dst] \in Seq(Blocks)
  BY <1>3, <1>5, <1>6 DEF IsPut
<1>10. Running(job', tree', paste')
  BY <1>1, <1>2, <1>4, <1>6, <1>8, <1>9, MovesOn
<1>. QED
  BY <1>4, <1>7, <1>10

\* readdir gives an entry, and the copy of it begins.
LEMMA NextEntryRuns ==
  ASSUME IsCard(tree), Aims(paste), Running(job, tree, paste), NextEntry
  PROVE  IsCard(tree') /\ Running(job', tree', paste')
<1>1. job # <<>> /\ Top.at = "list" /\ tree' = tree /\ paste' = paste
  BY Zenon DEF NextEntry, Free
<1>2. PICK c \in ChildrenOf(tree, Top.src) \ Top.seen :
        job' = Append(Append(Front(job), [Top EXCEPT !.seen = @ \cup {c}]),
                      [src |-> c, dst |-> Append(Top.dst, Last(c)), at |-> "enter"])
  BY Zenon DEF NextEntry
<1>. DEFINE x == [Top EXCEPT !.seen = @ \cup {c}]
            y == [src |-> c, dst |-> Append(Top.dst, Last(c)), at |-> "enter"]
            k == Append(Front(job), x)
            from == paste.from
            to == paste.to
            b == paste.before
            into == IsPrefix(paste.from, paste.to)
<1>3. /\ Shape(job, from, to) /\ IsCall(Top) /\ IsPrefix(from, Top.src)
      /\ Top.src \in Whole /\ Top.dst \in Whole /\ from \in Whole /\ to \in Whole /\ ~IsPrefix(to, from)
  BY <1>1, RunningTop
<1>4. AgreeBut(tree, b, {to})
  BY DEF Running
<1>5. c \in Whole /\ c # <<>> /\ Front(c) = Top.src /\ c \in ChildrenOf(tree, Top.src)
  BY <1>2, CardIs DEF ChildrenOf
<1>6. DOMAIN Top = {"src", "dst", "at", "seen", "first"}
  BY <1>1, <1>3 DEF IsCall
<1>7. /\ x.src = Top.src /\ x.dst = Top.dst /\ x.at = "list" /\ x.first = Top.first
      /\ x.seen = Top.seen \cup {c} /\ DOMAIN x = {"src", "dst", "at", "seen", "first"}
  BY <1>1, <1>6
<1>8. y.src = c /\ y.dst = Append(Top.dst, Last(c)) /\ y.at = "enter"
  OBVIOUS
<1>. HIDE DEF x, y
<1>9. Last(c) \in Naming
  BY <1>5, FrontIs
<1>10. y.dst \in Whole /\ y.dst # <<>> /\ Front(y.dst) = Top.dst /\ Last(y.dst) = Last(c)
  BY <1>3, <1>8, <1>9, ChildIs
<1>11. Linked(x, y)
  BY <1>5, <1>7, <1>8, <1>10 DEF Linked
<1>12. IsCall(x) /\ IsCall(y)
  BY <1>3, <1>5, <1>7, <1>8, <1>10 DEF IsCall
<1>13. Shape(k, from, to) /\ k # <<>> /\ Last(k) = x
  BY <1>1, <1>3, <1>7, <1>12, ShapeTop DEF Top
<1>14. job' = Append(k, y)
  BY <1>2 DEF x, y
<1>15. Rights(job, tree, b, into) /\ Right(Top, <<>>, tree, b, into) => Rights(k, tree, b, into)
  BY <1>1, <1>3, <1>7, <1>12, RightsTop DEF Top
<1>. HIDE DEF k
<1>16. Shape(job', from, to) /\ Last(job') = y
  BY <1>11, <1>12, <1>13, <1>14, ShapePush
<1>17. ASSUME ~paste.spoiled PROVE Unspoiled(job', tree, b, from, to)
  <2>1. Rights(job, tree, b, into) /\ Right(Top, <<>>, tree, b, into)
    BY <1>1, <1>17 DEF Running, Unspoiled, Top
  <2>2. Right(x, c, tree, b, into)
    BY <1>1, <1>3, <1>4, <1>5, <1>7, <2>1, EntryBegun
  <2>3. Right(y, <<>>, tree, b, into)
    BY <1>8 DEF Right, IntoCall
  <2>. HIDE DEF into
  <2>4. Rights(job', tree, b, into)
    BY <1>8, <1>11, <1>12, <1>13, <1>14, <1>15, <2>1, <2>2, RightsPush
  <2>5. job' # <<>>
    BY <1>11, <1>12, <1>13, <1>14, ShapePush
  <2>. QED BY <1>16, <2>3, <2>4, <2>5 DEF Unspoiled, into
<1>18. Running(job', tree, paste)
  BY <1>3, <1>4, <1>8, <1>16, <1>17 DEF Running
<1>. QED
  BY <1>1, <1>18

\* A call that another one made returns to a directory's list.
LEMMA ReturnsToList ==
  ASSUME NEW j, NEW from, NEW to, Shape(j, from, to), j # <<>>, Front(j) # <<>>
  PROVE  Last(Front(j)).at = "list"
<1>. DEFINE k == Front(j)
            n == Len(j)
<1>1. n \in Nat \ {0} /\ Shape(k, from, to) /\ Len(k) = n - 1 /\ \A i \in 1..n - 1 : k[i] = j[i]
  BY ShapePop
<1>. HIDE DEF k
<1>2. Len(k) \in Nat \ {0} /\ Last(k) = k[Len(k)]
  BY <1>1, PopIs DEF Shape, k
<1>3. \A i \in 1..n - 1 : Linked(j[i], j[i + 1])
  BY DEF Shape
<1>. HIDE DEF n
<1>4. n - 1 \in 1..n - 1
  BY <1>1, <1>2
<1>5. Last(k) = j[n - 1] /\ Linked(j[n - 1], j[(n - 1) + 1])
  BY <1>1, <1>2, <1>3, <1>4
<1>. QED
  BY <1>5 DEF Linked, k

\* A return, with all that the call was for or on an error nobody sees.
LEMMA ReturnRuns ==
  ASSUME Aims(paste), Running(job, tree, paste), job # <<>>, job' = Front(job), tree' = tree,
         \/ paste' = paste /\ (~paste.spoiled => Done(Top, tree, paste.before, IsPrefix(paste.from, paste.to)))
         \/ paste' = [paste EXCEPT !.spoiled = TRUE]
  PROVE  Aims(paste') /\ Running(job', tree', paste') /\ paste'.state = paste.state
<1>1. /\ Shape(job, paste.from, paste.to) /\ paste.from \in Whole /\ paste.to \in Whole
      /\ ~IsPrefix(paste.to, paste.from) /\ AgreeBut(tree, paste.before, {paste.to})
  BY DEF Running
<1>2. Shape(Front(job), paste.from, paste.to)
  BY <1>1, ShapePop
<1>3. Front(job) # <<>> => Last(Front(job)).at # "blocks"
  BY <1>1, ReturnsToList
<1>4. CASE paste' = paste /\ (~paste.spoiled => Done(Top, tree, paste.before, IsPrefix(paste.from, paste.to)))
  <2>1. ASSUME ~paste.spoiled PROVE Unspoiled(Front(job), tree, paste.before, paste.from, paste.to)
    <3>1. Unspoiled(job, tree, paste.before, paste.from, paste.to)
      BY <2>1 DEF Running
    <3>2. Done(Last(job), tree, paste.before, IsPrefix(paste.from, paste.to))
      BY <1>4, <2>1 DEF Top
    <3>. QED BY <1>1, <3>1, <3>2, UnspoiledPop
  <2>2. Running(Front(job), tree, paste)
    BY <1>1, <1>2, <1>3, <2>1 DEF Running
  <2>. QED BY <1>4, <2>2
<1>5. CASE paste' = [paste EXCEPT !.spoiled = TRUE]
  <2>. DEFINE p == [paste EXCEPT !["spoiled"] = TRUE]
  <2>1. paste = [x \in OfPaste |-> paste[x]]
    BY DEF Aims
  <2>2. p = [x \in OfPaste |-> p[x]] /\ p["spoiled"] = TRUE
        /\ p["state"] = paste["state"] /\ p["from"] = paste["from"] /\ p["to"] = paste["to"]
        /\ p["before"] = paste["before"]
    BY <2>1, PasteSet DEF OfPaste
  <2>3. p = [x \in OfPaste |-> p[x]] /\ p.spoiled = TRUE
        /\ p.state = paste.state /\ p.from = paste.from /\ p.to = paste.to /\ p.before = paste.before
    BY <2>2
  <2>. HIDE DEF p
  <2>5. Aims(p)
    BY <2>3 DEF Aims
  <2>6. Running(Front(job), tree, p)
    BY <1>1, <1>2, <1>3, <2>3 DEF Running
  <2>7. paste' = p
    BY <1>5 DEF p
  <2>. QED BY <2>3, <2>5, <2>6, <2>7
<1>. QED
  BY <1>4, <1>5

\* readdir gives none: a directory's call returns.
LEMMA ListEndsRuns ==
  ASSUME IsCard(tree), Aims(paste), Running(job, tree, paste), ListEnds
  PROVE  IsCard(tree') /\ Aims(paste') /\ Running(job', tree', paste') /\ paste'.state = paste.state
<1>1. /\ job # <<>> /\ Top.at = "list" /\ tree' = tree /\ job' = Front(job)
      /\ (Top.first \subseteq Top.seen /\ paste' = paste) \/ paste' = [paste EXCEPT !.spoiled = TRUE]
  BY Zenon DEF ListEnds, Return, Free
<1>2. Top.src \in Whole /\ Top.dst \in Whole
  BY <1>1, RunningTop
<1>3. ASSUME Top.first \subseteq Top.seen, ~paste.spoiled
      PROVE  Done(Top, tree, paste.before, IsPrefix(paste.from, paste.to))
  <2>. DEFINE into == IsPrefix(paste.from, paste.to)
  <2>1. Right(Top, <<>>, tree, paste.before, into)
    BY <1>1, <1>3 DEF Running, Unspoiled, Top
  <2>2. IsCard(paste.before)
    BY DEF Aims
  <2>. HIDE DEF into
  <2>3. Done(Top, tree, paste.before, into)
    BY <1>1, <1>2, <1>3, <2>1, <2>2, ListIsDone
  <2>. QED BY <2>3 DEF into
<1>. QED
  BY <1>1, <1>3, ReturnRuns

\* fread gives nothing: a file's call returns.
LEMMA FileEndsRuns ==
  ASSUME IsCard(tree), Aims(paste), Running(job, tree, paste), FileEnds
  PROVE  IsCard(tree') /\ Aims(paste') /\ Running(job', tree', paste') /\ paste'.state = paste.state
<1>1. /\ job # <<>> /\ Top.at = "blocks" /\ tree' = tree /\ job' = Front(job)
      /\ (Len(tree[Top.dst]) = Len(tree[Top.src]) /\ paste' = paste) \/ paste' = [paste EXCEPT !.spoiled = TRUE]
  BY Zenon DEF FileEnds, Return, Free
<1>2. /\ Top.src \in Whole /\ Top.dst \in Whole /\ IsPrefix(paste.from, Top.src)
      /\ paste.from \in Whole /\ paste.to \in Whole /\ ~IsPrefix(paste.to, paste.from)
  BY <1>1, RunningTop
<1>3. ASSUME Len(tree[Top.dst]) = Len(tree[Top.src]), ~paste.spoiled
      PROVE  Done(Top, tree, paste.before, IsPrefix(paste.from, paste.to))
  <2>. DEFINE into == IsPrefix(paste.from, paste.to)
              f == Top
              b == paste.before
  <2>1. Right(f, <<>>, tree, b, into)
    BY <1>1, <1>3 DEF Running, Unspoiled, Top
  <2>2. IsCard(b)
    BY DEF Aims
  <2>3. Top.src \in DOMAIN tree /\ AgreeBut(tree, b, {paste.to})
    BY <1>1 DEF Running, Top
  <2>4. into \/ tree[f.src] = b[f.src]
    <3>1. CASE ~into
      <4>1. ~IsPrefix(paste.to, f.src)
        BY <1>2, <3>1, NotBelowCopy
      <4>. QED BY <2>3, <4>1 DEF AgreeBut
    <3>. QED BY <3>1
  <2>5. into \/ Len(tree[f.dst]) = Len(b[f.src])
    BY <1>3, <2>4
  <2>6. f.at = "blocks" /\ f.src \in Whole /\ f.dst \in Whole
    BY <1>1, <1>2
  <2>. HIDE DEF into, f, b
  <2>7. Done(f, tree, b, into)
    BY <2>1, <2>2, <2>5, <2>6, FileIsDone
  <2>. QED BY <2>7 DEF into, f, b
<1>. QED
  BY <1>1, <1>3, ReturnRuns

\* What PasteIsWhole says, of any card and paste.
WholeOf(t, p) ==
  p # NoPaste =>
    /\ p.state \in {"copied", "moved"} /\ ~p.spoiled => Below(t, p.to) = Below(p.before, p.from)
    /\ AgreeBut(t, p.before, IF p.state = "moved" THEN {p.from, p.to} ELSE {p.to})
    /\ p.state = "moved" => p.from \notin DOMAIN t
    /\ p.to \in DOMAIN p.before => Append(Front(p.to), Last(p.from)) \in DOMAIN p.before /\ p.state # "moved"

\* What was copied or cut is below the root.
ClipOK(c) == "path" \in DOMAIN c /\ (c.path = Nothing \/ c.path # <<>>)

\* The invariant of the paste: what was done so far, call by call.
PasteInv ==
  /\ IsCard(tree) /\ ClipOK(clip) /\ WholeOf(tree, paste)
  /\ job # <<>> => paste.state = "copying"
  /\ paste.state = "copying" => Aims(paste) /\ (Still(job, tree, paste) \/ Running(job, tree, paste))

\* It is PasteIsWhole and more.
LEMMA PasteFollows == PasteInv => PasteIsWhole
<1>. SUFFICES ASSUME PasteInv, paste # NoPaste
     PROVE /\ paste.state \in {"copied", "moved"} /\ ~paste.spoiled => Below(tree, paste.to) = Below(paste.before, paste.from)
           /\ LET tops == IF paste.state = "moved" THEN {paste.from, paste.to} ELSE {paste.to} IN
              Untouched(tree, tops) = Untouched(paste.before, tops)
           /\ paste.state = "moved" => paste.from \notin DOMAIN tree
           /\ paste.to \in DOMAIN paste.before => Append(Front(paste.to), Last(paste.from)) \in DOMAIN paste.before /\ paste.state # "moved"
  BY Zenon DEF PasteIsWhole
<1>1. WholeOf(tree, paste)
  BY DEF PasteInv
<1>2. \A tops : AgreeBut(tree, paste.before, tops) => Untouched(tree, tops) = Untouched(paste.before, tops)
  BY UntouchedIs
<1>. QED
  BY <1>1, <1>2, Zenon DEF WholeOf

\* A paste that ends by copying, or has not ended, leaves the rest of the card.
LEMMA CopyingWhole ==
  ASSUME NEW t, NEW p, Aims(p), p.state # "moved", AgreeBut(t, p.before, {p.to}),
         p.state = "copied" /\ ~p.spoiled => Below(t, p.to) = Below(p.before, p.from)
  PROVE  WholeOf(t, p)
BY DEF WholeOf, Aims

\* What is said of a paste that goes on to another state.
LEMMA StateSet ==
  ASSUME NEW p, Aims(p), NEW s, NEW q, q = [p EXCEPT !.state = s]
  PROVE  Aims(q) /\ q.state = s /\ q.from = p.from /\ q.to = p.to /\ q.before = p.before /\ q.spoiled = p.spoiled
<1>. DEFINE r == [p EXCEPT !["state"] = s]
<1>1. q = r /\ p = [x \in OfPaste |-> p[x]]
  BY DEF Aims
<1>2. /\ r = [x \in OfPaste |-> r[x]] /\ r["state"] = s /\ r["from"] = p["from"] /\ r["to"] = p["to"]
      /\ r["before"] = p["before"] /\ r["spoiled"] = p["spoiled"]
  BY <1>1, PasteSet DEF OfPaste
<1>. HIDE DEF r
<1>3. /\ q = [x \in OfPaste |-> q[x]] /\ q.state = s /\ q.from = p.from /\ q.to = p.to
      /\ q.before = p.before /\ q.spoiled = p.spoiled
  BY <1>1, <1>2
<1>4. Aims(q)
  BY <1>3 DEF Aims
<1>. QED
  BY <1>3, <1>4

\* The card, but for what is below the destination, is as it was while a paste copies.
LEMMA CopyingApart ==
  ASSUME PasteInv, paste.state = "copying"
  PROVE  Aims(paste) /\ AgreeBut(tree, paste.before, {paste.to})
BY DEF PasteInv, Still, Running, AgreeBut

\* The whole of fb_copy_recursive returns -1: what is there stays.
LEMMA GiveUpKeeps ==
  ASSUME PasteInv, job # <<>>, GiveUp
  PROVE  PasteInv'
<1>1. /\ job' = <<>> /\ paste' = [paste EXCEPT !.state = "failed"] /\ tree' = tree /\ clip' = clip
  BY Zenon DEF GiveUp, Step
<1>2. Aims(paste) /\ AgreeBut(tree, paste.before, {paste.to})
  BY CopyingApart DEF PasteInv
<1>3. /\ Aims(paste') /\ paste'.state = "failed" /\ paste'.to = paste.to /\ paste'.before = paste.before
  BY <1>1, <1>2, StateSet
<1>4. WholeOf(tree, paste')
  BY <1>2, <1>3, CopyingWhole
<1>. QED
  BY <1>1, <1>3, <1>4 DEF PasteInv

\* "Pasted": the outermost call has returned with the whole.
LEMMA PastedKeeps ==
  ASSUME PasteInv, Pasted
  PROVE  PasteInv'
<1>1. /\ job = <<>> /\ job' = job /\ paste' = [paste EXCEPT !.state = "copied"] /\ tree' = tree /\ clip' = clip
      /\ paste.state = "copying"
  BY Zenon DEF Pasted, Step, Free
<1>2. Aims(paste) /\ AgreeBut(tree, paste.before, {paste.to}) /\ IsCard(tree)
  BY <1>1, CopyingApart DEF PasteInv
<1>3. Running(job, tree, paste)
  <2>1. ~Still(job, tree, paste)
    BY <1>1 DEF Still
  <2>. QED BY <1>1, <2>1 DEF PasteInv
<1>4. ASSUME ~paste.spoiled PROVE Below(tree, paste.to) = Below(paste.before, paste.from)
  <2>1. SameBelow(paste.before, paste.from, tree, paste.to)
    BY <1>1, <1>3, <1>4 DEF Running, Unspoiled
  <2>2. DOMAIN tree \subseteq Whole /\ DOMAIN paste.before \subseteq Whole
    BY <1>2, CardIs DEF Aims
  <2>3. paste.from \in Whole /\ paste.to \in Whole
    BY <1>3 DEF Running
  <2>. QED BY <2>1, <2>2, <2>3, BelowSame
<1>5. /\ Aims(paste') /\ paste'.state = "copied" /\ paste'.to = paste.to /\ paste'.before = paste.before
      /\ paste'.from = paste.from /\ paste'.spoiled = paste.spoiled
  <2>1. paste' = [paste EXCEPT !.state = "copied"] /\ Aims(paste)
    BY <1>1, <1>2
  <2>2. Aims(paste') /\ paste'.state = "copied" /\ paste'.to = paste.to /\ paste'.before = paste.before
    BY <2>1, StateSet
  <2>3. paste'.from = paste.from /\ paste'.spoiled = paste.spoiled
    BY <2>1, StateSet
  <2>. QED BY <2>2, <2>3
<1>6. WholeOf(tree, paste')
  BY <1>2, <1>4, <1>5, CopyingWhole
<1>. QED
  BY <1>1, <1>2, <1>5, <1>6 DEF PasteInv

\* A step of the copy that leaves it running keeps the invariant.
LEMMA StillGoing ==
  ASSUME PasteInv, paste.state = "copying", IsCard(tree'), clip' = clip,
         Aims(paste'), paste'.state = paste.state, Running(job', tree', paste')
  PROVE  PasteInv'
<1>1. AgreeBut(tree', paste'.before, {paste'.to})
  BY DEF Running
<1>2. paste'.state # "moved" /\ paste'.state # "copied"
  OBVIOUS
<1>3. WholeOf(tree', paste')
  BY <1>1, <1>2, CopyingWhole
<1>. QED
  BY <1>3 DEF PasteInv

\* Every step of fb_copy_recursive.
LEMMA CopyStepsKeep ==
  ASSUME PasteInv, CopySteps
  PROVE  PasteInv'
<1>1. CASE Pasted
  BY <1>1, PastedKeeps
<1>2. CASE EnterFails \/ BlockFails
  <2>1. job # <<>> /\ GiveUp
    BY <1>2, Zenon DEF EnterFails, BlockFails, Free
  <2>. QED BY <2>1, GiveUpKeeps
<1>3. CASE EnterDir \/ EnterFile \/ NextEntry \/ ListEnds \/ Block \/ FileEnds
  <2>1. job # <<>> /\ clip' = clip
    BY <1>3, Zenon DEF EnterDir, EnterFile, NextEntry, ListEnds, Block, FileEnds, Free, Step
  <2>2. paste.state = "copying" /\ IsCard(tree) /\ Aims(paste)
        /\ (Still(job, tree, paste) \/ Running(job, tree, paste))
    BY <2>1, Zenon DEF PasteInv
  <2>3. Still(job, tree, paste) => Top.at = "enter"
    <3>1. SUFFICES ASSUME Still(job, tree, paste) PROVE Top.at = "enter"
      OBVIOUS
    <3>. DEFINE f == [src |-> paste.from, dst |-> paste.to, at |-> "enter"]
    <3>2. job = <<f>> /\ f.at = "enter"
      BY <3>1 DEF Still
    <3>. HIDE DEF f
    <3>3. Len(<<f>>) = 1 /\ <<f>>[1] = f
      OBVIOUS
    <3>. QED BY <3>2, <3>3 DEF Top, Last
  <2>4. Running(job, tree, paste)
    <3>1. CASE EnterDir
      BY <2>2, <3>1, StillRuns DEF EnterDir, Creatable, IsDir
    <3>2. CASE EnterFile
      BY <2>2, <3>2, StillRuns DEF EnterFile
    <3>3. CASE NextEntry \/ ListEnds \/ Block \/ FileEnds
      <4>1. Top.at # "enter"
        BY <3>3 DEF NextEntry, ListEnds, Block, FileEnds
      <4>. QED BY <2>2, <2>3, <4>1
    <3>. QED BY <1>3, <3>1, <3>2, <3>3
  <2>5. IsCard(tree') /\ Aims(paste') /\ paste'.state = paste.state /\ Running(job', tree', paste')
    <3>1. CASE EnterDir
      <4>1. paste' = paste
        BY <3>1, Zenon DEF EnterDir
      <4>. QED BY <2>2, <2>4, <3>1, <4>1, EnterDirRuns
    <3>2. CASE EnterFile
      <4>1. paste' = paste
        BY <3>2, Zenon DEF EnterFile
      <4>. QED BY <2>2, <2>4, <3>2, <4>1, EnterFileRuns
    <3>3. CASE NextEntry
      <4>1. paste' = paste
        BY <3>3, Zenon DEF NextEntry
      <4>. QED BY <2>2, <2>4, <3>3, <4>1, NextEntryRuns
    <3>4. CASE ListEnds
      BY <2>2, <2>4, <3>4, ListEndsRuns
    <3>5. CASE Block
      <4>1. paste' = paste
        BY <3>5, Zenon DEF Block
      <4>. QED BY <2>2, <2>4, <3>5, <4>1, BlockRuns
    <3>6. CASE FileEnds
      BY <2>2, <2>4, <3>6, FileEndsRuns
    <3>. QED BY <1>3, <3>1, <3>2, <3>3, <3>4, <3>5, <3>6
  <2>. QED BY <2>1, <2>2, <2>5, StillGoing
<1>. QED
  BY <1>1, <1>2, <1>3 DEF CopySteps

\* fb_paste picks a name that is free, or with one "_copy" more than one that is taken.
LEMMA PastingAims ==
  ASSUME IsCard(tree), IsSeq(fb.dir), clip.path # <<>>, NEW state, NEW p, p = Pasting(state)
  PROVE  /\ Aims(p) /\ p.state = state /\ p.from = clip.path /\ p.to = Destination /\ p.before = tree
         /\ p.spoiled = FALSE
<1>. DEFINE from == clip.path
            dir == fb.dir
            n == Last(from)
            own == Append(dir, n)
            more == <<n[1], n[2] + 1>>
            to == IF own \in DOMAIN tree THEN Append(dir, more) ELSE own
<1>1. /\ p = [x \in OfPaste |-> p[x]] /\ p.state = state /\ p.from = from /\ p.to = to /\ p.before = tree
      /\ p.spoiled = FALSE
  <2>. DEFINE q == [state |-> state, from |-> from, to |-> Destination, before |-> tree, spoiled |-> FALSE]
  <2>1. p = q
    BY Zenon DEF Pasting
  <2>2. Destination = to
    BY Zenon DEF Destination
  <2>. HIDE DEF to, from
  <2>3. /\ q.state = state /\ q.from = from /\ q.to = Destination /\ q.before = tree /\ q.spoiled = FALSE
        /\ q = [x \in OfPaste |-> q[x]]
    BY DEF OfPaste
  <2>. QED BY <2>1, <2>2, <2>3
<1>2. Destination = to
  BY Zenon DEF Destination
<1>3. IsSeq(dir) /\ IsCard(tree) /\ from # <<>>
  OBVIOUS
<1>. HIDE DEF dir, from
<1>4. \A m : Front(Append(dir, m)) = dir /\ Last(Append(dir, m)) = m /\ Append(dir, m) # <<>>
  BY <1>3, PushIs
<1>5. to # <<>> /\ Front(to) = dir
  BY <1>4
<1>6. ASSUME from \in Whole PROVE n \in Naming /\ more \in Naming /\ n # more
  <2>1. n \in Naming
    BY <1>3, <1>6, FrontIs
  <2>. HIDE DEF n
  <2>. QED BY <2>1 DEF Naming
<1>. HIDE DEF n, more
<1>7. ASSUME from \in Whole, Front(to) \in Whole PROVE to \in Whole
  BY <1>5, <1>6, <1>7, ChildIs
<1>8. ASSUME to = from, from \in DOMAIN tree PROVE FALSE
  <2>1. from \in Whole
    BY <1>3, <1>8, CardIs
  <2>2. own \in DOMAIN tree
    BY <1>8
  <2>3. Last(from) = more
    BY <1>4, <1>8, <2>2
  <2>. QED BY <1>6, <2>1, <2>3 DEF n
<1>9. to \in DOMAIN tree => Append(Front(to), Last(from)) \in DOMAIN tree
  BY <1>5 DEF n
<1>. HIDE DEF to
<1>10. Aims(p)
  BY <1>1, <1>3, <1>5, <1>7, <1>8, <1>9 DEF Aims
<1>. QED
  BY <1>1, <1>2, <1>10 DEF from

\* Nothing is said of a card on which nothing was pasted.
LEMMA NothingPasted ==
  ASSUME IsCard(tree'), paste' = NoPaste, job' = <<>>, ClipOK(clip')
  PROVE  PasteInv'
<1>1. WholeOf(tree', paste')
  BY DEF WholeOf
<1>2. paste'.state # "copying"
  BY DEF NoPaste
<1>. QED
  BY <1>1, <1>2 DEF PasteInv

\* Only the outermost call has been made.
LEMMA PasteBegins ==
  ASSUME PasteInv, IsSeq(fb.dir), clip.path # Nothing, Paste
  PROVE  PasteInv'
<1>1. /\ job' = <<[src |-> clip.path, dst |-> Destination, at |-> "enter"]>> /\ paste' = Pasting("copying")
      /\ tree' = tree /\ clip' = clip
  BY Zenon DEF Paste
<1>2. IsCard(tree) /\ clip.path # <<>> /\ ClipOK(clip)
  BY DEF PasteInv, ClipOK
<1>3. /\ Aims(paste') /\ paste'.state = "copying" /\ paste'.from = clip.path /\ paste'.to = Destination
      /\ paste'.before = tree /\ paste'.spoiled = FALSE
  BY <1>1, <1>2, PastingAims
<1>4. Still(job', tree', paste')
  BY <1>1, <1>3, Zenon DEF Still
<1>5. WholeOf(tree', paste')
  <2>1. AgreeBut(tree', paste'.before, {paste'.to})
    BY <1>1, <1>3 DEF AgreeBut
  <2>. QED BY <1>3, <2>1, CopyingWhole
<1>. QED
  BY <1>1, <1>2, <1>3, <1>4, <1>5 DEF PasteInv

\* rename() of the card keeps it a card.
LEMMA RenamableIs ==
  ASSUME NEW t, IsCard(t), NEW p, NEW q, Renamable(t, p, q), p \in Whole /\ Front(q) \in Whole => q \in Whole
  PROVE  /\ IsCard(Renamed(t, p, q)) /\ p \in Whole /\ q \in Whole /\ p \in DOMAIN t /\ q \notin DOMAIN t
         /\ ~IsPrefix(p, q)
<1>1. p \in DOMAIN t /\ p # <<>> /\ q \notin DOMAIN t /\ Len(q) \in 1..MaxDepth /\ IsDir(t, Front(q)) /\ ~IsPrefix(p, q)
  BY Zenon DEF Renamable, Creatable, Under
<1>2. q # <<>>
  BY <1>1, FileBrowserAssumption
<1>3. p \in Whole /\ q \in Whole
  BY <1>1, CardIs DEF IsDir
<1>. QED
  BY <1>1, <1>2, <1>3, CardRenamed

\* What was cut moves, or stays.
LEMMA CutMoves ==
  ASSUME PasteInv, IsSeq(fb.dir), clip.path # Nothing, job = <<>>, PasteCut
  PROVE  PasteInv'
<1>1. IsCard(tree) /\ clip.path # <<>> /\ job' = <<>> /\ ClipOK(clip)
  BY Zenon DEF PasteInv, PasteCut, ClipOK
<1>2. CASE /\ Renamable(tree, clip.path, Destination) /\ tree' = Renamed(tree, clip.path, Destination)
           /\ paste' = Pasting("moved") /\ clip' = [clip EXCEPT !.path = Nothing]
  <2>1. /\ Aims(paste') /\ paste'.state = "moved" /\ paste'.from = clip.path /\ paste'.to = Destination
        /\ paste'.before = tree
    BY <1>1, <1>2, PastingAims
  <2>2. clip.path \in Whole /\ Front(Destination) \in Whole => Destination \in Whole
    BY <2>1 DEF Aims
  <2>3. /\ IsCard(tree') /\ clip.path \in Whole /\ Destination \in Whole /\ clip.path \in DOMAIN tree
        /\ Destination \notin DOMAIN tree /\ ~IsPrefix(clip.path, Destination)
    BY <1>1, <1>2, <2>2, RenamableIs
  <2>4. DOMAIN tree' \subseteq Whole
    BY <2>3, CardIs
  <2>5. /\ Below(tree', Destination) = Below(tree, clip.path)
        /\ AgreeBut(tree', tree, {clip.path, Destination})
        /\ clip.path \notin DOMAIN tree'
    BY <1>1, <1>2, <2>3, <2>4, MovedWhole
  <2>6. WholeOf(tree', paste')
    BY <2>1, <2>3, <2>5 DEF WholeOf
  <2>7. ClipOK(clip')
    BY <1>1, <1>2 DEF ClipOK
  <2>. QED BY <1>1, <2>1, <2>3, <2>6, <2>7 DEF PasteInv
<1>3. CASE tree' = tree /\ paste' = Pasting("failed") /\ clip' = clip
  <2>1. Aims(paste') /\ paste'.state = "failed" /\ paste'.before = tree
    BY <1>1, <1>3, PastingAims
  <2>2. AgreeBut(tree', paste'.before, {paste'.to})
    BY <1>3, <2>1 DEF AgreeBut
  <2>3. WholeOf(tree', paste')
    BY <2>1, <2>2, CopyingWhole
  <2>. QED BY <1>1, <1>3, <2>1, <2>3 DEF PasteInv
<1>. QED
  BY <1>2, <1>3, Zenon DEF PasteCut

\* R, ZL and L.
LEMMA ClipKeyPastes ==
  ASSUME PasteInv, ListOK(fb), Waiting, NEW key, ClipKey(key)
  PROVE  PasteInv'
<1>0. job = <<>> /\ IsSeq(fb.dir) /\ IsCard(tree) /\ ClipOK(clip)
  BY Zenon DEF Waiting, Free, ListOK, PasteInv
<1>1. ASSUME NEW cut, Copy(cut) PROVE PasteInv'
  <2>1. clip' = [path |-> Selected(fb), cut |-> cut] /\ paste' = NoPaste /\ tree' = tree /\ job' = job
    BY <1>1, Zenon DEF Copy
  <2>2. Selected(fb) # <<>>
    BY <1>0, PushIs DEF Selected
  <2>3. ClipOK(clip')
    BY <2>1, <2>2 DEF ClipOK
  <2>. QED BY <1>0, <2>1, <2>3, NothingPasted
<1>2. CASE Idle
  <2>1. tree' = tree /\ clip' = clip /\ job' = job /\ paste' = NoPaste
    BY <1>2, Zenon DEF Idle, OnlyList
  <2>. QED BY <1>0, <2>1, NothingPasted
<1>3. CASE clip.path # Nothing /\ PasteCut
  BY <1>0, <1>3, CutMoves
<1>4. CASE clip.path # Nothing /\ Paste
  BY <1>0, <1>4, PasteBegins
<1>. QED
  BY <1>1, <1>2, <1>3, <1>4, Zenon DEF ClipKey

\* The operations on the storage page are over before a paste, or begin after it.
LEMMA OnStoragePastes ==
  ASSUME PasteInv, ListOK(fb), Waiting, OnStorage
  PROVE  PasteInv'
<1>0. job = <<>> /\ IsSeq(fb.dir) /\ IsCard(tree) /\ ClipOK(clip)
  BY Zenon DEF Waiting, Free, ListOK, PasteInv
<1>1. CASE tree' = tree /\ clip' = clip /\ job' = job /\ paste' = NoPaste
  BY <1>0, <1>1, NothingPasted
<1>2. CASE Delete
  <2>1. /\ clip' = clip /\ job' = job /\ paste' = NoPaste
        /\ tree' = tree \/ (Selected(fb) \in DOMAIN tree /\ tree' = Without(tree, Selected(fb)))
    BY <1>2, Zenon DEF Delete
  <2>2. Selected(fb) \in DOMAIN tree => IsCard(Without(tree, Selected(fb)))
    BY <1>0, CardIs, CardWithout
  <2>. QED BY <1>0, <2>1, <2>2, NothingPasted
<1>3. ASSUME NEW name \in Names, RenameTo(name) PROVE PasteInv'
  <2>. DEFINE p == Selected(fb)
              q == Append(fb.dir, name)
  <2>1. /\ clip' = clip /\ job' = job /\ paste' = NoPaste
        /\ tree' = tree \/ (Renamable(tree, p, q) /\ tree' = Renamed(tree, p, q))
    BY <1>3, Zenon DEF RenameTo
  <2>2. name \in Naming /\ Front(q) = fb.dir
    BY <1>0, PushIs, FileBrowserAssumption DEF Names, Naming
  <2>3. Front(q) \in Whole => q \in Whole
    BY <2>2, ChildIs
  <2>. HIDE DEF p, q
  <2>4. Renamable(tree, p, q) => IsCard(Renamed(tree, p, q))
    BY <1>0, <2>3, RenamableIs
  <2>. QED BY <1>0, <2>1, <2>4, NothingPasted
<1>4. \/ tree' = tree /\ clip' = clip /\ job' = job /\ paste' = NoPaste
      \/ Delete
      \/ \E name \in Names : RenameTo(name)
  BY Zenon DEF OnStorage, OnlyList, OpenRoot, OpenDetail, Touch, OpenRow, Back, Sort, MoveRow, Ask, Decline
<1>. QED
  BY <1>1, <1>2, <1>3, <1>4

\* Every step of the file browser.
LEMMA BrowserPastes ==
  ASSUME PasteInv, ListOK(fb), BrowserNext
  PROVE  PasteInv'
<1>1. CASE Waiting /\ BrowserInput
  <2>1. CASE OnStorage
    BY <1>1, <2>1, OnStoragePastes
  <2>2. ASSUME NEW key, ClipKey(key) PROVE PasteInv'
    BY <1>1, <2>2, ClipKeyPastes
  <2>3. CASE OnlyList
    <3>1. tree' = tree /\ clip' = clip /\ job' = job /\ paste' = NoPaste
      BY <2>3, Zenon DEF OnlyList
    <3>2. job = <<>> /\ IsCard(tree) /\ ClipOK(clip)
      BY <1>1, Zenon DEF Waiting, Free, PasteInv
    <3>. QED BY <3>1, <3>2, NothingPasted
  <2>4. OnStorage \/ OnlyList \/ \E key \in Keys : ClipKey(key)
    BY <1>1, Zenon DEF BrowserInput, CloseBrowser, BrowserKeys, BrowserTab, Idle
  <2>. QED BY <2>1, <2>2, <2>3, <2>4
<1>2. CASE CopySteps
  BY <1>2, CopyStepsKeep
<1>3. CASE OutsideRemove
  <2>1. /\ job' = <<>> /\ clip' = clip /\ paste' = NoPaste
        /\ \E p \in DOMAIN tree : tree' = Without(tree, p)
    BY <1>3, Zenon DEF OutsideRemove, Waiting, Free
  <2>2. IsCard(tree) /\ ClipOK(clip)
    BY DEF PasteInv
  <2>3. IsCard(tree')
    BY <2>1, <2>2, CardIs, CardWithout
  <2>. QED BY <2>1, <2>2, <2>3, NothingPasted
<1>. QED
  BY <1>1, <1>2, <1>3, Zenon DEF BrowserNext

\* The paste at the start: there is none.
LEMMA PasteStart ==
  ASSUME BrowserInit
  PROVE  PasteInv
<1>1. tree \in CardTrees /\ clip = [path |-> Nothing, cut |-> FALSE] /\ job = <<>> /\ paste = NoPaste
  BY Zenon DEF BrowserInit
<1>2. IsCard(tree)
  BY <1>1, FileBrowserAssumption
<1>3. WholeOf(tree, paste)
  BY <1>1 DEF WholeOf
<1>4. ClipOK(clip) /\ paste.state # "copying"
  BY <1>1 DEF NoPaste, ClipOK
<1>. QED
  BY <1>1, <1>2, <1>3, <1>4 DEF PasteInv

\* The parts that leave the browser alone.
LEMMA PasteApart ==
  ASSUME PasteInv, UNCHANGED browser
  PROVE  PasteInv'
<1>1. UNCHANGED <<tree, clip, job, paste>>
  BY Zenon DEF browser
<1>2. WholeOf(tree', paste') /\ ClipOK(clip') /\ paste'.state = paste.state
  BY <1>1 DEF PasteInv
<1>3. /\ Aims(paste) => Aims(paste')
      /\ Still(job, tree, paste) => Still(job', tree', paste')
      /\ Running(job, tree, paste) => Running(job', tree', paste')
  BY <1>1
<1>. QED
  BY <1>1, <1>2, <1>3 DEF PasteInv

-----------------------------------------------------------------------------
(* The whole.                                                              *)

\* Inputs and failures are counted down.
Counted == used \in DOMAIN MaxActs /\ acts \in 0..MaxActs[used] /\ rare \in 0..MaxRare[used]

\* Where the pages are not what is used, none is scrolled.
PagesAll == PagesInv /\ (used # "pages" => \A p \in Pgs : scroll[p] = 0)

\* The inductive invariant of the whole.
UiInv ==
  /\ Counted /\ PagesAll /\ BrowserInv /\ PasteInv /\ MotorsAll /\ SettingsAll /\ ClocksInv

\* A step is at most one key or touch.
LEMMA ActsCount ==
  ASSUME Next
  PROVE  UNCHANGED used /\ (Act \/ UNCHANGED acts)
<1>1. CASE BrowserNext
  BY <1>1, Zenon DEF BrowserNext, Using
<1>2. CASE SettingsNext
  BY <1>2, Zenon DEF SettingsNext
<1>3. CASE MotorsNext
  BY <1>3, Zenon DEF MotorsNext, Using
<1>4. CASE ClocksNext
  BY <1>4, Zenon DEF ClocksNext, Using
<1>5. CASE PagesNext
  BY <1>5, Zenon DEF PagesNext, Using
<1>. QED
  BY <1>1, <1>2, <1>3, <1>4, <1>5, Zenon DEF Next

\* A save fails at most once.
LEMMA ConfirmFalls ==
  ASSUME NEW c, NEW drawn, Confirm(c, drawn)
  PROVE  Falls
BY RareFalls, Zenon DEF Confirm, SaveConfig

\* Settings and tutorial: one failure a step at most.
LEMMA SettingsFalls ==
  ASSUME SettingsNext
  PROVE  Falls
<1>1. CASE \E step \in {-1, 1} : ChangeKey(step) \/ SelectKey(step)
  BY <1>1, ConfirmFalls, Zenon DEF ChangeKey, SelectKey, Falls
<1>2. CASE SettingsTouch
  BY <1>2, ConfirmFalls, Zenon DEF SettingsTouch, TouchLanguage, TouchTheme, TouchRefresh, TouchAlert, TouchEditor, Falls
<1>3. CASE EditorInput
  <2>1. NotSaved => Falls
    BY Zenon DEF NotSaved, Falls
  <2>2. \A slot, chan : Choose(slot, chan) => Falls
    BY <2>1, Zenon DEF Choose
  <2>3. SaveEditor => Falls
    BY RareFalls, Zenon DEF SaveEditor, SaveConfig
  <2>. QED BY <1>3, <2>1, <2>2, <2>3, Zenon DEF EditorInput, ChooseKey, Nudge, Slide, UsePalette, CancelEditor
<1>4. CASE TouchTutorial \/ TutorialInput
  <2>1. Finish => Falls
    BY RareFalls, Zenon DEF Finish, SaveState
  <2>2. \A n : StepTo(n) => Falls
    BY Zenon DEF StepTo, Falls
  <2>. QED BY <1>4, <2>1, <2>2, Zenon DEF TouchTutorial, TutorialInput, Later, Earlier, Leave, Falls
<1>5. CASE TurnSettings
  BY <1>5, Zenon DEF TurnSettings, Falls
<1>6. CASE Restart
  BY <1>6, RareFalls, Zenon DEF Restart, Start
<1>. QED
  BY <1>1, <1>2, <1>3, <1>4, <1>5, <1>6, Zenon DEF SettingsNext

\* Clocks and brightness: one failure a step at most.
LEMMA ClocksFall ==
  ASSUME ClocksNext
  PROVE  Falls
<1>1. CASE ClockInput
  <2>1. ASSUME NEW m, NEW mhz, SetClock(m, mhz) PROVE Falls
    <3>1. (\E c, drawn : Confirm(c, drawn)) \/ Rare
      BY <2>1, SMT DEF SetClock
    <3>. QED BY <3>1, ConfirmFalls, RareFalls, Zenon
  <2>2. \A docked : ResetClocks(docked) => Falls
    BY ConfirmFalls, RareFalls, Zenon DEF ResetClocks
  <2>. QED BY <1>1, <2>1, <2>2, Zenon DEF ClockInput
<1>2. CASE LightInput
  <2>1. \A level : Apply(level) => Falls
    BY RareFalls, Zenon DEF Apply
  <2>. QED BY <1>2, <2>1, RareFalls, Zenon DEF LightInput, ReadLight, ToggleAuto, Brighter
<1>3. CASE Restart
  BY <1>3, RareFalls, Zenon DEF Restart, Start
<1>4. CASE \E level \in Levels \cap 0..100 : AutoChanges(level)
  BY <1>4, RareFalls, Zenon DEF AutoChanges
<1>. QED
  BY <1>1, <1>2, <1>3, <1>4, Zenon DEF ClocksNext, Falls

\* The bounds on inputs and failures are counted down.
LEMMA CountedKeeps ==
  ASSUME Counted, UNCHANGED used, Act \/ UNCHANGED acts, rare' \in Nat, rare' <= rare
  PROVE  Counted'
<1>1. MaxActs[used] \in Nat /\ MaxRare[used] \in Nat
  BY UiAssumption DEF Counted
<1>. QED
  BY <1>1 DEF Counted, Act

\* A failure that happened may not happen again.
LEMMA FallsDown ==
  ASSUME Counted, Falls
  PROVE  rare' \in Nat /\ rare' <= rare
<1>1. MaxRare[used] \in Nat
  BY UiAssumption DEF Counted
<1>. QED
  BY <1>1 DEF Counted, Falls

\* Every key and touch leads to a page there is.
LEMMA CurStays ==
  ASSUME Counted, cur \in Pgs, BrowserNext \/ SettingsNext \/ MotorsNext \/ ClocksNext
  PROVE  cur' \in Pgs
<1>1. Home \in Pgs /\ ToolsPage \in Pgs /\ SettingsPage \in Pgs
  BY DEF Home, ToolsPage, SettingsPage, Pgs, PGS
<1>2. used \in DOMAIN MaxActs
  BY DEF Counted
<1>3. \A p \in Visited[used] : p \in Pgs
  BY <1>2, UiAssumption
<1>4. CASE BrowserNext
  <2>1. used = "browser" /\ (cur' \in Visited["browser"] \/ cur' = cur)
    BY <1>4, Zenon DEF BrowserNext, Using
  <2>. QED BY <1>3, <2>1
<1>5. CASE SettingsNext
  BY <1>1, <1>5, Zenon DEF SettingsNext, TurnSettings
<1>6. CASE MotorsNext
  <2>1. used = "motors" /\ (cur' \in Visited["motors"] \/ cur' = Home)
    BY <1>6, Zenon DEF MotorsNext, Using, MotorInput
  <2>. QED BY <1>1, <1>3, <2>1
<1>7. CASE ClocksNext
  <2>1. used = "clocks" /\ (cur' \in Visited["clocks"] \/ cur' = Home \/ cur' = ToolsPage \/ cur' = cur)
    BY <1>7, Zenon DEF ClocksNext, Using
  <2>. QED BY <1>1, <1>3, <2>1
<1>. QED
  BY <1>4, <1>5, <1>6, <1>7

\* The parts that do not scroll leave every page at its top.
LEMMA PagesApart ==
  ASSUME PagesAll, cur' \in Pgs, UNCHANGED <<used, pages>>, used # "pages" \/ cur' = cur
  PROVE  PagesAll'
BY Zenon DEF PagesAll, PagesInv, PagesType, Scrolled, Fits, pages

\* The parts that leave the browser alone.
LEMMA BrowserApart ==
  ASSUME BrowserInv, UNCHANGED browser
  PROVE  BrowserInv'
<1>1. UNCHANGED <<tree, fb, mode, job, paste, asked>>
  BY Zenon DEF browser
<1>2. Selected(fb') = Selected(fb)
  BY <1>1, Zenon
<1>. QED
  BY <1>1, <1>2, Zenon DEF BrowserInv, Waiting, Free

\* No step uses up more failures than there are.
LEMMA RareCounts ==
  ASSUME UiInv, Next
  PROVE  rare' \in Nat /\ rare' <= rare
<1>0. Counted
  BY Zenon DEF UiInv
<1>1. CASE BrowserNext
  <2>1. Falls
    BY <1>1, BrowserNextKeeps, Zenon DEF UiInv
  <2>. QED BY <1>0, <2>1, FallsDown
<1>2. CASE SettingsNext
  BY <1>0, <1>2, SettingsFalls, FallsDown
<1>3. CASE MotorsNext
  <2>1. MotorsInv /\ used = "motors"
    BY <1>3, Zenon DEF UiInv, MotorsAll, MotorsNext, Using
  <2>2. MotorsInv' /\ rare' <= rare
    <3>1. CASE MotorInput
      <4>1. PICK touched \in {{}} \cup (IF cur = PadPage THEN {{0}, {1}, Motors} ELSE {}),
                 buttons \in SUBSET Motors, ending \in SUBSET {i \in Motors : vibe.until[i]},
                 x \in {b \in BOOLEAN : b => cur' = PadPage} : MotorFrame(touched, buttons, ending, x)
        BY <3>1, Zenon DEF MotorInput
      <4>2. touched \in MotorSets /\ buttons \in MotorSets /\ ending \in MotorSets /\ x \in BOOLEAN
        BY <4>1 DEF MotorSets, Motors
      <4>. QED BY <2>1, <4>1, <4>2, MotorFrameKeeps
    <3>2. CASE ExitStops
      BY <2>1, <3>2, ExitKeeps
    <3>. QED BY <1>3, <3>1, <3>2, Zenon DEF MotorsNext
  <2>3. rare' \in Nat
    BY <2>2, RumbleIs DEF MotorsInv, Rumbles
  <2>. QED BY <2>2, <2>3
<1>4. CASE ClocksNext
  BY <1>0, <1>4, ClocksFall, FallsDown
<1>5. CASE PagesNext
  <2>1. Falls
    BY <1>5, PagesNextKeeps, RareFalls, Zenon DEF UiInv, PagesAll
  <2>. QED BY <1>0, <2>1, FallsDown
<1>. QED
  BY <1>1, <1>2, <1>3, <1>4, <1>5, Zenon DEF Next

\* The invariant holds at the start ...
LEMMA UiStart ==
  ASSUME Init
  PROVE  UiInv
<1>1. /\ used \in DOMAIN MaxActs /\ cur \in Visited[used] /\ acts = MaxActs[used] /\ rare = MaxRare[used]
      /\ BrowserInit /\ PagesInit
  BY Zenon DEF Init
<1>2. Counted
  BY <1>1, UiAssumption DEF Counted
<1>3. cur \in Pgs
  BY <1>1, UiAssumption
<1>4. PagesAll
  BY <1>1, <1>3, PagesStart DEF PagesAll
<1>. QED
  BY <1>1, <1>2, <1>4, BrowserStart, PasteStart, MotorsStart, SettingsStart, Zenon DEF UiInv

\* ... and is kept by every step.
LEMMA UiStep ==
  ASSUME UiInv, [Next]_vars
  PROVE  UiInv'
<1>0. Counted /\ PagesAll /\ BrowserInv /\ PasteInv /\ cur \in Pgs
  BY Zenon DEF UiInv, PagesAll, PagesInv, Scrolled
<1>1. MotorsAll' /\ SettingsAll' /\ ClocksInv'
  BY MotorsStep, SettingsStep DEF UiInv
<1>2. CASE UNCHANGED vars
  <2>1. UNCHANGED <<used, cur, acts, rare, browser, pages>>
    BY <1>2, Zenon DEF vars
  <2>2. Counted'
    BY <1>0, <2>1, Zenon DEF Counted
  <2>3. PagesAll' /\ BrowserInv' /\ PasteInv'
    BY <1>0, <2>1, PagesApart, BrowserApart, PasteApart
  <2>. QED BY <1>1, <2>2, <2>3, Zenon DEF UiInv
<1>3. CASE Next
  <2>1. Counted'
    BY <1>0, <1>3, ActsCount, RareCounts, CountedKeeps
  <2>2. PagesAll'
    <3>1. CASE PagesNext
      <4>1. used = "pages" /\ used' = used
        BY <3>1, Zenon DEF PagesNext, Using
      <4>2. PagesInv'
        BY <1>0, <3>1, PagesNextKeeps, Zenon DEF PagesAll
      <4>. QED BY <4>1, <4>2 DEF PagesAll
    <3>2. CASE BrowserNext \/ SettingsNext \/ MotorsNext \/ ClocksNext
      <4>1. cur' \in Pgs
        BY <1>0, <3>2, CurStays
      <4>2. UNCHANGED <<used, pages>> /\ used \in {"browser", "settings", "tutorial", "motors", "clocks"}
        BY <3>2, Zenon DEF BrowserNext, SettingsNext, MotorsNext, ClocksNext, Using
      <4>3. used # "pages"
        BY <4>2
      <4>. QED BY <1>0, <4>1, <4>2, <4>3, PagesApart
    <3>. QED BY <1>3, <3>1, <3>2, Zenon DEF Next
  <2>3. BrowserInv' /\ PasteInv'
    <3>1. CASE BrowserNext
      <4>1. ListOK(fb)
        BY <1>0, Zenon DEF BrowserInv
      <4>. QED BY <1>0, <3>1, <4>1, BrowserNextKeeps, BrowserPastes
    <3>2. CASE SettingsNext \/ MotorsNext \/ ClocksNext \/ PagesNext
      <4>1. UNCHANGED browser
        BY <3>2, Zenon DEF SettingsNext, MotorsNext, ClocksNext, PagesNext
      <4>. QED BY <1>0, <4>1, BrowserApart, PasteApart
    <3>. QED BY <1>3, <3>1, <3>2, Zenon DEF Next
  <2>. QED BY <1>1, <2>1, <2>2, <2>3, Zenon DEF UiInv
<1>. QED
  BY <1>2, <1>3

\* The inductive invariant of the user interface, for every part that may be used.
THEOREM UiInvariance == Spec => []UiInv
<1>1. Init => UiInv
  BY UiStart
<1>2. UiInv /\ [Next]_vars => UiInv'
  BY UiStep
<1>. QED
  BY <1>1, <1>2, PTL DEF Spec

\* Every page is scrolled within its height and only the one that shows; lists, selections, settings
\* and the counted inputs stay within their bounds: main's limits, and those load_config tests.
THEOREM UiTypeCorrect == Spec => []TypeOK
<1>. SUFFICES ASSUME UiInv PROVE TypeOK
  BY UiInvariance, PTL
<1>1. used \in DOMAIN MaxActs /\ acts \in 0..MaxActs[used] /\ rare \in 0..MaxRare[used]
  BY Zenon DEF UiInv, Counted
<1>2. PagesType /\ Scrolled
  BY Zenon DEF UiInv, PagesAll, PagesInv
<1>3. \A p \in Pgs : scroll[p] \in 0..limit[p] /\ (p # cur => scroll[p] = 0)
  BY <1>2 DEF Scrolled, Fits, Heights
<1>4. list.scroll \in 0..Hidden(list.count) /\ guide.step \in 0..4 /\ screen \in 0..4
  <2>1. list.scroll \in Nat /\ list.count \in Nat /\ guide.step \in 0..4
    BY <1>2 DEF PagesType, Lists, Guides
  <2>. QED BY <1>2, <2>1, HiddenIs DEF PagesType
<1>5. fb.count \in 0..Min({MaxEntries, Len(fb.rows)}) /\ fb.row >= 1
  <2>1. fb.count \in 0..MaxEntries /\ fb.count <= Len(fb.rows) /\ fb.row \in Nat \ {0} /\ IsSeq(fb.rows)
    BY Zenon DEF UiInv, BrowserInv, ListOK
  <2>2. Len(fb.rows) \in Nat /\ MaxEntries \in Nat
    BY <2>1, FileBrowserAssumption DEF IsSeq
  <2>3. Min({MaxEntries, Len(fb.rows)}) \in {MaxEntries, Len(fb.rows)}
    BY <2>2, MinOf
  <2>. QED BY <2>1, <2>2, <2>3
<1>6. mode \in {"browse", "delete", "rename"}
  BY Zenon DEF UiInv, BrowserInv
<1>7. SettingsType /\ sel \in 0..4 /\ (editor.open => cur = SettingsPage)
  BY Zenon DEF UiInv, SettingsAll, SettingsInv, EditorPlace
<1>8. /\ cfg.lang \in LanguageSet /\ cfg.theme \in ThemeSet /\ cfg.refresh \in RefreshSet
      /\ cfg.temp \in TempLevels /\ cfg.mem \in MemLevels /\ cfg.colors \in Palette
      /\ tutorial.step \in TutorialSteps
  BY <1>7 DEF SettingsType, Config, Tutorials
<1>9. /\ cfg.lang \in 0..Languages - 1 /\ cfg.theme \in 0..Themes - 1
      /\ cfg.temp \in 0..Hottest /\ cfg.mem \in 0..95 /\ tutorial.step \in 0..4
  BY <1>8, SMT DEF LanguageSet, ThemeSet, TempLevels, MemLevels, TutorialSteps
<1>10. cfg.refresh \in ToSet(Intervals)
  <2>1. Intervals \in [1..5 -> Int] /\ DOMAIN Intervals = 1..5 /\ Intervals[1] = 0 /\ Intervals[2] = 1 /\ Intervals[3] = 3 /\ Intervals[4] = 5 /\ Intervals[5] = 10
    BY DEF Intervals
  <2>2. \A v \in RefreshSet : \E i \in 1..5 : Intervals[i] = v
    BY <2>1 DEF RefreshSet
  <2>. QED BY <1>8, <2>1, <2>2 DEF ToSet
<1>11. \A i \in DOMAIN cfg.colors : \A c \in 1..3 : cfg.colors[i][c] \in 0..255
  <2>1. DOMAIN cfg.colors = Slots /\ \A i \in Slots : cfg.colors[i] \in Colour
    BY <1>8 DEF Palette
  <2>. QED BY <2>1 DEF Colour
<1>12. light.known \in -1..100
  BY DEF UiInv, ClocksInv, Lights, Brightness
<1>13. cur \in Pgs
  BY <1>2, Zenon DEF Scrolled
<1>. QED
  BY <1>1, <1>3, <1>4, <1>5, <1>6, <1>7, <1>9, <1>10, <1>11, <1>12, <1>13, Zenon DEF TypeOK

\* fb_delete_selected and fb_rename_selected act on what the question was about: nothing changes the
\* list or its selection while a question is open.
THEOREM AskedIsAlwaysDone == Spec => []AskedIsDone
<1>1. UiInv => AskedIsDone
  BY AskedFollows, Zenon DEF UiInv
<1>. QED
  BY <1>1, UiInvariance, PTL

\* fb_paste: a paste that says it succeeded has put the whole there, unless the card failed without a
\* word, and nothing else on the card changes, whether it succeeds, fails or still runs; this for
\* every card, every depth of directories and any length of files.
THEOREM PasteIsAlwaysWhole == Spec => []PasteIsWhole
<1>1. UiInv => PasteIsWhole
  BY PasteFollows, Zenon DEF UiInv
<1>. QED
  BY <1>1, UiInvariance, PTL

=============================================================================
