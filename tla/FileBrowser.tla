------------------------------ MODULE FileBrowser ------------------------------
(***************************************************************************)
(* The file browser of the storage page: listing, moving about, deleting,  *)
(* renaming, copying, cutting and pasting on the SD card.  Each operation  *)
(* is one call on the UI thread, which does nothing else meanwhile; only a *)
(* copy takes steps of its own here, because it may fail at each of them.  *)
(* Which page shows, and which keys reach the browser, is in Ui.           *)
(*                                                                         *)
(* A path is a sequence of names.  A name <<n, k>> is a base and how many  *)
(* times "_copy" was put behind it (before its extension, if it is a       *)
(* file's).  Rows of the list count from 1.                                *)
(***************************************************************************)
EXTENDS Frame, SequencesExt

CONSTANTS Bases,       \* names without "_copy", as numbers in the order of strcasecmp
          CardTrees,   \* what is on the card at the start
          Nothing,
          MaxEntries,  \* FB_MAX_ENTRIES
          MaxDepth,    \* names in the longest path the card's file system takes
          MaxCopies,   \* bound: times "_copy" is put behind a name
          Folder,      \* what is at a path: this, or a file as a sequence of blocks
          Blocks       \* what a block can hold

VARIABLES
  tree,   \* the card: paths to what is there
  fb,     \* fb_path, fb_entries with fb_is_dir and fb_sizes, fb_count, fb_selected, fb_sort_mode,
          \* fb_active, and whether fb_path has one slash behind "sdmc:"
  mode,   \* fb_mode
  clip,   \* fb_clipboard_path and fb_clipboard_is_cut
  job,    \* the calls of fb_copy_recursive, outermost first
  paste,  \* the paste that runs or was the last operation (history)
  asked   \* what the question on the screen is about (history)

browser == <<tree, fb, mode, clip, job, paste, asked>>

-----------------------------------------------------------------------------
(* The card.                                                               *)

Names == Bases \X (0..MaxCopies)

IsDir(t, p)     == p \in DOMAIN t /\ t[p] = Folder

\* A card holds finitely many files and directories, each in a directory.
IsCard(t) ==
  /\ IsFiniteSet(DOMAIN t) /\ DOMAIN t \subseteq Seq(Bases \X Nat)
  /\ \A p \in DOMAIN t : (t[p] = Folder \/ t[p] \in Seq(Blocks)) /\ (p # <<>> => IsDir(t, Front(p)))

\* The bounds are numbers, no file is taken for a directory, and what is there at the start is a card.
ASSUME FileBrowserAssumption ==
  /\ MaxEntries \in Nat /\ MaxDepth \in Nat /\ MaxCopies \in Nat /\ Folder \notin Seq(Blocks)
  /\ \A t \in CardTrees : IsCard(t)

Under(p, top)   == IsPrefix(top, p)
ChildrenOf(t, d) == {p \in DOMAIN t : p # <<>> /\ Front(p) = d}
Below(t, top)   == [q \in {SubSeq(p, Len(top) + 1, Len(p)) : p \in {r \in DOMAIN t : Under(r, top)}} |->
                      t[top \o q]]
Without(t, top) == [p \in {q \in DOMAIN t : ~Under(q, top)} |-> t[p]]
Adding(t, top, sub) ==
  LET new == {top \o q : q \in DOMAIN sub} IN
  [p \in DOMAIN t \cup new |-> IF p \in new THEN sub[SubSeq(p, Len(top) + 1, Len(p))] ELSE t[p]]
Single(what) == [q \in {<<>>} |-> what]

\* mkdir, or fopen for writing, finds a place for a new name.
Creatable(t, p) == Len(p) \in 1..MaxDepth /\ IsDir(t, Front(p))

\* rename() of the card: nothing is replaced, and no directory goes into itself.
Renamable(t, p, q) ==
  p \in DOMAIN t /\ p # <<>> /\ q \notin DOMAIN t /\ Creatable(t, q) /\ ~Under(q, p)
Renamed(t, p, q) == Adding(Without(t, p), q, Below(t, p))

-----------------------------------------------------------------------------
(* The list.                                                               *)

EntryOf(t, p) == [name |-> Last(p), dir |-> IsDir(t, p), size |-> IF IsDir(t, p) THEN 0 ELSE Len(t[p])]

NameBefore(m, n) == m[1] < n[1] \/ (m[1] = n[1] /\ m[2] < n[2])

\* fb_sort_entries puts the n rows of the list in order: directories first, by name; files by name,
\* or by size one way or the other.
Before(x, y, sort) ==
  IF x.dir # y.dir THEN x.dir
  ELSE IF x.dir \/ sort = 0 \/ x.size = y.size THEN NameBefore(x.name, y.name)
  ELSE IF sort = 1 THEN x.size > y.size ELSE x.size < y.size

Sorted(S, n, sort) ==
  [i \in 1..n |-> CHOOSE x \in S : Cardinality({y \in S : Before(y, x, sort)}) = i - 1]

\* readdir gives the entries in any order, and the list takes the first ones.
Listings(t, d) ==
  LET all == {EntryOf(t, p) : p \in ChildrenOf(t, d)} IN
  IF Cardinality(all) <= MaxEntries THEN {all} ELSE kSubset(MaxEntries, all)

\* fb_open: what the browser may be afterwards.  The rows behind the count keep what they held.
Opened(f, t, d) ==
  LET moved == [f EXCEPT !.dir = d, !.count = 0, !.row = 1] IN
  IF ~IsDir(t, d) THEN {moved}
  ELSE {[moved EXCEPT !.rows = Sorted(S, Cardinality(S), f.sort) \o SubSeq(@, Cardinality(S) + 1, Len(@)),
                      !.count = Cardinality(S), !.active = TRUE] : S \in Listings(t, d)}

Entry(f)    == f.rows[f.row]
Selected(f) == Append(f.dir, Entry(f).name)

\* A row is touched or opened: a directory is entered.
Entered(f, t) == IF Entry(f).dir THEN Opened(f, t, Selected(f)) ELSE {f}
Touched(f, t, i) == IF i \in 1..f.count THEN Entered([f EXCEPT !.row = i], t) ELSE {f}

\* The rows are sorted another way; the selected place stays.
Resorted(f) ==
  LET sort == (f.sort + 1) % 3 IN
  [f EXCEPT !.sort = sort,
            !.rows = Sorted({@[i] : i \in 1..f.count}, f.count, sort) \o SubSeq(@, f.count + 1, Len(@))]

-----------------------------------------------------------------------------
(* Operations.                                                             *)

NoPaste == [state |-> "none"]
Closed  == [dir |-> <<>>, rows |-> <<>>, count |-> 0, row |-> 1, sort |-> 0, active |-> FALSE,
            short |-> FALSE]

BrowserInit ==
  /\ tree \in CardTrees /\ fb = Closed /\ mode = "browse" /\ clip = [path |-> Nothing, cut |-> FALSE]
  /\ job = <<>> /\ paste = NoPaste /\ asked = Nothing

Free     == job = <<>>
Waiting  == Free /\ paste.state # "copying"
Showing  == cur = StoragePage /\ fb.active
OnlyList == paste' = NoPaste /\ UNCHANGED <<tree, clip, job, rare>>
Idle     == OnlyList /\ UNCHANGED <<fb, mode, asked>>

\* Mutant: a list that is opened anew keeps the question of the old one.
OpenRootAsking(i) ==
  /\ cur = StoragePage /\ ~fb.active
  /\ \E f \in Opened([fb EXCEPT !.short = FALSE], tree, <<>>) :
       IF i = 0 /\ f.active THEN fb' = Resorted(f) ELSE fb' \in Touched(f, tree, i)
  /\ UNCHANGED <<mode, asked>> /\ OnlyList

\* The button, or Y: the card's root.  The touch of the button goes on to what shows there now: row
\* i of the list, if there is one, or for 0 the control that sorts it.
OpenRoot(i) ==
  /\ cur = StoragePage /\ ~fb.active
  /\ \E f \in Opened([fb EXCEPT !.short = FALSE], tree, <<>>) :
       IF i = 0 /\ f.active THEN fb' = Resorted(f) ELSE fb' \in Touched(f, tree, i)
  /\ mode' = "browse" /\ asked' = Nothing /\ OnlyList

\* A row of the scan's details: a directory is opened, a file is looked for in the root.
OpenDetail(name, dir) ==
  /\ cur = StoragePage /\ ~fb.active
  /\ IF dir THEN fb' \in Opened([fb EXCEPT !.short = TRUE], tree, <<name>>)
     ELSE \E f \in Opened([fb EXCEPT !.short = FALSE], tree, <<>>) :
            LET here == {i \in 1..f.count : f.rows[i].name = name /\ ~f.rows[i].dir} IN
            fb' = [f EXCEPT !.row = IF here = {} THEN 1 ELSE CHOOSE i \in here : TRUE]
  /\ mode' = "browse" /\ asked' = Nothing /\ OnlyList

Touch(i) ==
  /\ Showing /\ mode = "browse" /\ fb' \in Touched(fb, tree, i)
  /\ UNCHANGED <<mode, asked>> /\ OnlyList

\* A as a key, which it is when its click could not be queued: the row is opened, on an empty list
\* one that an earlier list left.
OpenRow ==
  /\ Showing /\ mode = "browse" /\ Rare
  /\ fb' \in IF fb.row <= Len(fb.rows) THEN Entered(fb, tree) ELSE {fb}
  /\ paste' = NoPaste /\ UNCHANGED <<tree, mode, clip, job, asked>>

\* B: one directory up; from the root, and from a path with one slash, out.
Back ==
  /\ Showing /\ mode = "browse"
  /\ IF Len(fb.dir) > IF fb.short THEN 1 ELSE 0 THEN fb' \in Opened(fb, tree, Front(fb.dir))
     ELSE fb' = [fb EXCEPT !.active = FALSE]
  /\ UNCHANGED <<mode, asked>> /\ OnlyList

Sort ==
  /\ Showing /\ mode = "browse" /\ fb' = Resorted(fb)
  /\ UNCHANGED <<mode, asked>> /\ OnlyList

MoveRow(step) ==
  /\ Showing /\ mode = "browse" /\ fb.row + step \in 1..fb.count
  /\ fb' = [fb EXCEPT !.row = @ + step]
  /\ UNCHANGED <<mode, asked>> /\ OnlyList

\* X and Y: the question whether to delete, the field for a new name.
Ask(question) ==
  /\ Showing /\ mode = "browse" /\ fb.count > 0
  /\ mode' = question /\ asked' = Selected(fb) /\ UNCHANGED fb /\ OnlyList

Decline ==
  /\ Showing /\ mode # "browse"
  /\ mode' = "browse" /\ asked' = Nothing /\ UNCHANGED fb /\ OnlyList

\* fb_delete_selected
Delete ==
  /\ Showing /\ mode = "delete"
  /\ LET p == Selected(fb)
         may == p \in DOMAIN tree /\ IsDir(tree, p) = Entry(fb).dir /\ ChildrenOf(tree, p) = {}
     IN  \/ may /\ tree' = Without(tree, p) /\ fb' \in Opened(fb, tree', fb.dir) /\ Fine
         \/ (IF may THEN Rare ELSE Fine) /\ UNCHANGED <<tree, fb>>
  /\ mode' = "browse" /\ asked' = Nothing /\ paste' = NoPaste /\ UNCHANGED <<clip, job>>

\* fb_rename_selected, with the name that was typed.
RenameTo(name) ==
  /\ Showing /\ mode = "rename"
  /\ LET p == Selected(fb)
         q == Append(fb.dir, name)
         may == Renamable(tree, p, q)
     IN  \/ may /\ tree' = Renamed(tree, p, q) /\ fb' \in Opened(fb, tree', fb.dir) /\ Fine
         \/ (IF may THEN Rare ELSE Fine) /\ UNCHANGED <<tree, fb>>
  /\ mode' = "browse" /\ asked' = Nothing /\ paste' = NoPaste /\ UNCHANGED <<clip, job>>

\* fb_copy_selected
Copy(cut) ==
  /\ clip' = [path |-> Selected(fb), cut |-> cut]
  /\ paste' = NoPaste /\ UNCHANGED <<tree, fb, mode, job, asked, rare>>

-----------------------------------------------------------------------------
(* fb_paste.                                                               *)

\* Mutant: a name that is taken is used as it is.
DestinationTaken == Append(fb.dir, Last(clip.path))

\* Where it goes: under its own name, or, if that is taken, with "_copy".
Destination ==
  LET own == Append(fb.dir, Last(clip.path)) IN
  IF own \in DOMAIN tree THEN Append(fb.dir, <<Last(clip.path)[1], Last(clip.path)[2] + 1>>) ELSE own

Pasting(state) ==
  [state |-> state, from |-> clip.path, to |-> Destination, before |-> tree, spoiled |-> FALSE]

\* The copy starts, ...
Paste ==
  /\ job' = <<[src |-> clip.path, dst |-> Destination, at |-> "enter"]>> /\ paste' = Pasting("copying")
  /\ UNCHANGED <<tree, fb, mode, clip, asked, rare>>

\* ... but what was cut moves by rename(), and can be pasted once.
PasteCut ==
  /\ LET may == Renamable(tree, clip.path, Destination) IN
     \/ /\ may /\ tree' = Renamed(tree, clip.path, Destination) /\ paste' = Pasting("moved")
        /\ clip' = [clip EXCEPT !.path = Nothing] /\ fb' \in Opened(fb, tree', fb.dir) /\ Fine
     \/ (IF may THEN Rare ELSE Fine) /\ paste' = Pasting("failed") /\ UNCHANGED <<tree, clip, fb>>
  /\ UNCHANGED <<mode, job, asked>>

\* What R, ZL and L do to a list that shows, ZR nothing.
ClipKey(key) ==
  LET selects == mode = "browse" /\ fb.count > 0
      pastes  == mode = "browse" /\ key = "L" /\ clip.path # Nothing
  IN  \/ key = "R" /\ selects /\ Copy(FALSE)
      \/ key = "ZL" /\ selects /\ Copy(TRUE)
      \/ pastes /\ Last(Destination)[2] <= MaxCopies /\ IF clip.cut THEN PasteCut ELSE Paste
      \/ ~(key \in {"R", "ZL"} /\ selects) /\ ~pastes /\ Idle

Top    == Last(job)
Return == job' = Front(job)
Step   == UNCHANGED <<mode, clip, asked>>

\* The whole of fb_copy_recursive returns -1.
GiveUp == job' = <<>> /\ paste' = [paste EXCEPT !.state = "failed"] /\ UNCHANGED <<tree, fb>> /\ Step

\* fb_copy_recursive and fb_copy_file are entered.
EnterDir ==
  /\ ~Free /\ Top.at = "enter" /\ IsDir(tree, Top.src)
  /\ Top.dst \notin DOMAIN tree /\ Creatable(tree, Top.dst)
  /\ tree' = Adding(tree, Top.dst, Single(Folder))
  /\ job' = Append(Front(job), [src |-> Top.src, dst |-> Top.dst, at |-> "list", seen |-> {},
                                first |-> ChildrenOf(tree', Top.src)])
  /\ UNCHANGED <<fb, paste, rare>> /\ Step

EnterFile ==
  /\ ~Free /\ Top.at = "enter" /\ Top.src \in DOMAIN tree /\ ~IsDir(tree, Top.src)
  /\ Creatable(tree, Top.dst) /\ ~IsDir(tree, Top.dst)
  /\ tree' = Adding(tree, Top.dst, Single(<<>>))
  /\ job' = Append(Front(job), [src |-> Top.src, dst |-> Top.dst, at |-> "blocks"])
  /\ UNCHANGED <<fb, paste, rare>> /\ Step

\* The source is gone, the directory is there already, the path is too long, or the card fails.
EnterFails ==
  /\ ~Free /\ Top.at = "enter"
  /\ \/ Rare
     \/ /\ UNCHANGED rare
        /\ \/ Top.src \notin DOMAIN tree \/ ~Creatable(tree, Top.dst)
           \/ IsDir(tree, Top.src) /\ Top.dst \in DOMAIN tree
           \/ ~IsDir(tree, Top.src) /\ IsDir(tree, Top.dst)
  /\ GiveUp

\* readdir gives one more entry: one that was there when the directory was opened, or a new one.
NextEntry ==
  /\ ~Free /\ Top.at = "list"
  /\ \E p \in ChildrenOf(tree, Top.src) \ Top.seen :
       job' = Append(Append(Front(job), [Top EXCEPT !.seen = @ \cup {p}]),
                     [src |-> p, dst |-> Append(Top.dst, Last(p)), at |-> "enter"])
  /\ UNCHANGED <<tree, fb, paste, rare>> /\ Step

\* readdir gives none: at the end, or on an error.
ListEnds ==
  /\ ~Free /\ Top.at = "list"
  /\ IF Top.first \subseteq Top.seen THEN UNCHANGED <<rare, paste>>
     ELSE Rare /\ paste' = [paste EXCEPT !.spoiled = TRUE]
  /\ Return /\ UNCHANGED <<tree, fb>> /\ Step

Block ==
  /\ ~Free /\ Top.at = "blocks" /\ Len(tree[Top.dst]) < Len(tree[Top.src])
  /\ tree' = [tree EXCEPT ![Top.dst] = Append(@, tree[Top.src][Len(@) + 1])]
  /\ UNCHANGED <<fb, job, paste, rare>> /\ Step

BlockFails ==
  /\ ~Free /\ Top.at = "blocks" /\ Len(tree[Top.dst]) < Len(tree[Top.src]) /\ Rare /\ GiveUp

\* fread gives nothing: at the end, or on an error, or what fclose still has to write is lost.
FileEnds ==
  /\ ~Free /\ Top.at = "blocks"
  /\ IF Len(tree[Top.dst]) = Len(tree[Top.src]) THEN UNCHANGED <<rare, paste>>
     ELSE Rare /\ paste' = [paste EXCEPT !.spoiled = TRUE]
  /\ Return /\ UNCHANGED <<tree, fb>> /\ Step

\* "Pasted": the outermost call has returned 0 and the list is read again.
Pasted ==
  /\ Free /\ paste.state = "copying"
  /\ paste' = [paste EXCEPT !.state = "copied"] /\ fb' \in Opened(fb, tree, fb.dir)
  /\ UNCHANGED <<tree, job, rare>> /\ Step

CopySteps ==
  EnterDir \/ EnterFile \/ EnterFails \/ NextEntry \/ ListEnds \/ Block \/ BlockFails \/ FileEnds \/ Pasted

\* The FTP server or the MTP responder removes what the list still shows.
OutsideRemove ==
  /\ Waiting /\ Rare /\ paste' = NoPaste
  /\ \E p \in DOMAIN tree \ {<<>>} : tree' = Without(tree, p)
  /\ UNCHANGED <<fb, mode, clip, job, asked>>

-----------------------------------------------------------------------------
(* Properties.                                                             *)

Untouched(t, tops) == [p \in {q \in DOMAIN t : \A top \in tops : ~Under(q, top)} |-> t[p]]

\* A paste that says it succeeded has put there the whole of what was copied or cut, unless the card
\* failed without a word, and while it runs, afterwards, and when it fails nothing else on the card
\* changes; what was there under the name it pastes to goes only when "_copy" was taken too.
PasteIsWhole ==
  LET p == paste IN
  p # NoPaste =>
    /\ p.state \in {"copied", "moved"} /\ ~p.spoiled => Below(tree, p.to) = Below(p.before, p.from)
    /\ LET tops == IF p.state = "moved" THEN {p.from, p.to} ELSE {p.to} IN
       Untouched(tree, tops) = Untouched(p.before, tops)
    /\ p.state = "moved" => p.from \notin DOMAIN tree
    /\ p.to \in DOMAIN p.before => Append(Front(p.to), Last(p.from)) \in DOMAIN p.before /\ p.state # "moved"

\* The question that shows is about the row that shows as selected, and so is what its answer does.
AskedIsDone == fb.active /\ mode # "browse" => fb.row <= fb.count /\ asked = Selected(fb)

=============================================================================
