----------------------------- MODULE BaobabScan -----------------------------
(***************************************************************************)
(* The disk usage analyser: scanning a folder into the tree that the       *)
(* window shows.                                                           *)
(*                                                                         *)
(* The scan is one recursion on the main thread.  Whenever it touches the  *)
(* tree or the status bar it dispatches the pending events, and with them  *)
(* whatever the user does: stop, quit, trash a folder, change the excluded *)
(* folders, switch charts, or ask for another scan.  The recursion and the *)
(* tree are joined by nothing but the order of calls: the row of each open *)
(* folder is on iterstack, and the place of the next row is found from the *)
(* row and the depth of the last one.                                      *)
(***************************************************************************)
EXTENDS Integers, Sequences, FiniteSets, SequencesExt, FiniteSetsExt

CONSTANTS
  Dirs, Files,
  Kids,        (* the entries of each folder in the order they are read    *)
  Size,        (* of each folder by itself and of each file                *)
  Inode,       (* of each file                                             *)
  Linked,      (* the files with several links                             *)
  Virtual,     (* folders in a virtual file system, or in .gvfs            *)
  Excludable,  (* folders the user may exclude                             *)
  InHome,      (* folders inside the user's home folder                    *)
  RootDir,     (* file:///                                                 *)
  Unreadable,  (* folders whose entries may not be read                    *)
  Locations,   (* the folders a scan can be asked for                      *)
  NoDir, Capacity, Usage,
  MaxUpsets    (* bound: what the user does, and failures of the disk      *)

ASSUME TreeAssumption ==
  /\ Virtual \cup Excludable \cup InHome \cup Unreadable \cup Locations \subseteq Dirs
  /\ Locations \cap Virtual = {} /\ Linked \subseteq Files
  /\ MaxUpsets \in Nat

(* There are finitely many folders and files.  An entry of a folder is in  *)
(* no other place: what has several links has several entries; and no      *)
(* folder is inside itself.  The links of a file are of one size.          *)
ASSUME EntriesAssumption ==
  /\ IsFiniteSet(Dirs \cup Files) /\ Dirs \cap Files = {} /\ NoDir \notin Dirs \cup Files
  /\ \A d \in Dirs : Kids[d] \in Seq(Range(Kids[d]))
  /\ \A d, e \in Dirs : \A i \in DOMAIN Kids[d], j \in DOMAIN Kids[e] :
       Kids[d][i] = Kids[e][j] /\ Kids[d][i] \in Dirs \cup Files => d = e /\ i = j
  /\ \A set \in (SUBSET Dirs) \ {{}} : \E d \in set : \A e \in set : d \notin Range(Kids[e])
  /\ \A x \in Dirs \cup Files : Size[x] \in Nat
  /\ \A f, g \in Linked : Inode[f] = Inode[g] => Size[f] = Size[g]

VARIABLES
  stage,            (* where the main thread is                            *)
  calls,            (* the locations of the calls of baobab_scan_location  *)
  current_location,
  STOP_SCANNING,
  opening,          (* the folder loopdir has just been called for         *)
  frames,           (* the open calls of loopdir                           *)
  hla,              (* the inodes of linked files that have been counted   *)
  model_max_depth,  (* how deep the charts may go                          *)
  rows,             (* the rows of the tree, those removed included        *)
  iterstack, currentdepth, currentiter, firstiter,
  busy, sens,       (* the busy state; "Scan..." rather than "Stop"        *)
  frozen,           (* the charts that are frozen                          *)
  current_chart,    (* the one in the window                               *)
  excluded,         (* excluded_locations                                  *)
  monitored,        (* monitor_home                                        *)
  CONTENTS_CHANGED_DELAYED,
  quit,
  calm,             (* history: nothing has interfered with this scan      *)
  upsets

monitor == <<monitored, CONTENTS_CHANGED_DELAYED>>
control == <<stage, calls, current_location, STOP_SCANNING, excluded, monitor, quit,
             calm, upsets>>
walk    == <<opening, frames, hla, model_max_depth>>
tree    == <<rows, iterstack, currentdepth, currentiter, firstiter>>
window  == <<busy, sens, frozen, current_chart>>
scanvars    == <<control, walk, tree, window>>

ChartKinds == {"rings", "treemap"}
Top    == Last(frames)
(* The main thread dispatches events here. *)
EventPoints == {"idle", "starting", "events", "finishing", "ready"}
InWalk == stage \in {"walking", "events"}

(* A row: the folder it names, its parent, and what has been filled in.    *)
Row(d, p, s, e) ==
  [of |-> d, parent |-> p, size |-> s, elements |-> e, hl |-> 0, live |-> TRUE]
Frame(d) ==
  [dir |-> d, next |-> 1, size |-> Size[d], elements |-> 0, hl |-> 0,
   depth |-> 0]

(* first_row: what the tree shows before the first scan. *)
FirstRows(n) == <<Row(Capacity, 0, 0, -1), Row(Usage, n + 1, 0, -1)>>

(* sanity_check_excluded_locations, at the start of the program only.      *)
SanityChecked(uris) == uris \ {RootDir}

Skipped == excluded \cup Virtual

ScanInit ==
  /\ excluded \in {SanityChecked(uris) : uris \in SUBSET Excludable}
  /\ stage = "idle" /\ calls = <<>> /\ current_location = NoDir
  /\ monitored \in BOOLEAN /\ CONTENTS_CHANGED_DELAYED = FALSE
  /\ STOP_SCANNING = TRUE /\ quit = FALSE /\ calm = FALSE /\ upsets = 0
  /\ opening = NoDir /\ frames = <<>> /\ hla = {}
  /\ model_max_depth = 1
  /\ rows = FirstRows(0) /\ firstiter = 2
  /\ iterstack = <<>> /\ currentdepth = -1 /\ currentiter = 0
  /\ busy = FALSE /\ sens = TRUE
  /\ current_chart \in ChartKinds /\ frozen = ChartKinds \ {current_chart}

-----------------------------------------------------------------------------
(* The calls of baobab_scan_location.  The events dispatched before        *)
(* iterstack exists may ask for another scan, which then runs whole inside *)
(* the first; later ones are refused.                                      *)

BeginsScan(l) ==
  /\ stage \in {"idle", "starting"} /\ l \notin excluded
  /\ calls' = Append(calls, l) /\ current_location' = l
  /\ STOP_SCANNING' = FALSE
  /\ busy' = TRUE /\ frozen' = ChartKinds
  /\ stage' = "starting"
  /\ UNCHANGED <<excluded, monitored, quit, calm, walk, tree, sens, current_chart>>

RequestScan(l) ==
  /\ upsets < MaxUpsets /\ upsets' = upsets + 1
  /\ BeginsScan(l) /\ UNCHANGED CONTENTS_CHANGED_DELAYED

(* The folder is gone when it is asked about: failed.  A scan whose flag   *)
(* is raised before it begins is not calm.                                 *)
BeginWalk(failed) ==
  /\ stage = "starting"
  /\ failed => upsets < MaxUpsets
  /\ sens' = FALSE
  /\ rows' = <<>> /\ iterstack' = <<>> /\ currentdepth' = -1
  /\ currentiter' = 0 /\ firstiter' = 0
  /\ hla' = {} /\ frames' = <<>>
  /\ opening' = IF failed THEN NoDir ELSE Last(calls)
  /\ stage' = IF failed THEN "finishing" ELSE "walking"
  /\ calm' = (~STOP_SCANNING /\ ~failed)
  /\ upsets' = IF failed THEN upsets + 1 ELSE upsets
  /\ UNCHANGED <<calls, current_location, STOP_SCANNING, excluded, monitor, quit,
                 model_max_depth, busy, frozen, current_chart>>

(* Mutant: only the rings chart is thawed. *)
FinishThawsRings ==
  /\ stage = "finishing"
  /\ stage' = "ready"
  /\ busy' = FALSE /\ frozen' = frozen \ {"rings"} /\ sens' = TRUE
  /\ UNCHANGED <<calls, current_location, STOP_SCANNING, excluded, monitor, quit,
                 calm, upsets, walk, tree, current_chart>>

(* Mutant: the menus are left as they are during a scan. *)
FinishInsensitive ==
  /\ stage = "finishing"
  /\ stage' = "ready"
  /\ busy' = FALSE /\ frozen' = {}
  /\ UNCHANGED <<calls, current_location, STOP_SCANNING, excluded, monitor, quit,
                 calm, upsets, walk, tree, sens, current_chart>>

Finish ==
  /\ stage = "finishing"
  /\ stage' = "ready"
  /\ busy' = FALSE /\ frozen' = {} /\ sens' = TRUE
  /\ UNCHANGED <<calls, current_location, STOP_SCANNING, excluded, monitor, quit,
                 calm, upsets, walk, tree, current_chart>>

(* The call returns: into the one it was made from, or to the main loop.   *)
Return ==
  /\ stage = "ready"
  /\ STOP_SCANNING' = TRUE /\ iterstack' = <<>>
  /\ calls' = Front(calls) /\ CONTENTS_CHANGED_DELAYED' = FALSE
  /\ stage' = IF Len(calls) > 1 THEN "starting" ELSE IF quit THEN "exit" ELSE "idle"
  /\ UNCHANGED <<current_location, excluded, monitored, quit, calm, upsets, walk,
                 rows, currentdepth, currentiter, firstiter, window>>

-----------------------------------------------------------------------------
(* loopdir.  What a call returns is added to the frame below.              *)

Returned(fs, s, dep) ==
  IF fs = <<>> THEN fs
  ELSE LET f == Last(fs)
       IN  Append(Front(fs),
                  [f EXCEPT !.size = @ + s, !.elements = @ + 1,
                            !.depth = IF dep + 1 > @ THEN dep + 1 ELSE @])

Leave(fs, s, dep) ==
  /\ frames' = Returned(fs, s, dep)
  /\ model_max_depth' = IF fs = <<>> THEN dep ELSE model_max_depth
WalkOn(fs) == IF fs = <<>> THEN "finishing" ELSE "walking"

(* A freed row was read or written: nothing is known of what follows.      *)
Undefined ==
  /\ stage' = "undefined"
  /\ calls' = <<>> /\ opening' = NoDir /\ frames' = <<>> /\ hla' = {}
  /\ rows' = <<>> /\ iterstack' = <<>> /\ currentdepth' = -1
  /\ currentiter' = 0 /\ firstiter' = 0 /\ calm' = FALSE
  /\ UNCHANGED <<current_location, STOP_SCANNING, excluded, monitor, quit, upsets,
                 model_max_depth, window>>

Live(r) == r \in DOMAIN rows /\ rows[r].live

(* Row r and its ancestors, k of them; 0 above the top. *)
Ancestor(r, k) ==
  LET up[i \in 0..k] ==
        IF i = 0 THEN r ELSE IF up[i - 1] = 0 THEN 0 ELSE rows[up[i - 1]].parent
  IN  up[k]

(* The parent of a new row at a depth: the root, or the last row, or as    *)
(* many rows up from it as its depth is deeper.                            *)
(* Mutant: one row too few. *)
ClimbTooShort(depth) == IF depth < currentdepth THEN currentdepth - depth
                        ELSE currentdepth - depth + 1

Climb(depth) == currentdepth - depth + 1

PlaceIsLive(depth) ==
  \/ currentdepth = -1
  \/ depth = 1 /\ Live(firstiter)
  \/ depth > 1 /\ \A k \in 0..Climb(depth) : Live(Ancestor(currentiter, k))
Place(depth) ==
  IF currentdepth = -1 THEN 0
  ELSE IF depth = 1 THEN firstiter
  ELSE Ancestor(currentiter, Climb(depth))

PrefillModel(d, depth) ==
  LET new == Len(rows) + 1
  IN  /\ rows' = Append(rows, Row(d, Place(depth), 1, -1))
      /\ firstiter' = IF currentdepth = -1 THEN new ELSE firstiter
      /\ currentdepth' = depth /\ currentiter' = new
      /\ iterstack' = Append(iterstack, new)

LoopdirSkips ==
  /\ InWalk /\ opening \in Skipped
  /\ Leave(frames, 0, 0) /\ opening' = NoDir
  /\ stage' = WalkOn(frames)
  /\ UNCHANGED <<calls, current_location, STOP_SCANNING, excluded, monitor, quit,
                 calm, upsets, hla, tree, window>>

LoopdirCannotRead ==
  /\ InWalk /\ opening \in Unreadable \ Skipped
  /\ Leave(frames, Size[opening], 0) /\ opening' = NoDir
  /\ stage' = WalkOn(frames)
  /\ UNCHANGED <<calls, current_location, STOP_SCANNING, excluded, monitor, quit,
                 calm, upsets, hla, tree, window>>

LoopdirOpens ==
  /\ InWalk /\ opening \in Dirs \ (Skipped \cup Unreadable)
  /\ LET depth == Len(frames)
     IN  IF PlaceIsLive(depth)
         THEN /\ PrefillModel(opening, depth)
              /\ frames' = Append(frames, Frame(opening)) /\ opening' = NoDir
              /\ stage' = "events"
              /\ UNCHANGED <<calls, current_location, STOP_SCANNING, excluded,
                             monitor, quit, calm, upsets, hla, model_max_depth,
                             window>>
         ELSE Undefined

Reading == InWalk /\ opening = NoDir /\ frames # <<>>
AtEntry(set) ==
  /\ Reading /\ Top.next <= Len(Kids[Top.dir])
  /\ Kids[Top.dir][Top.next] \in set
Entry == Kids[Top.dir][Top.next]
NextEntry(f) == Append(Front(frames), [f EXCEPT !.next = @ + 1])

(* The flag is looked at when an entry has been read: the folder is left   *)
(* without a word to its row.                                              *)
StopSeen ==
  /\ Reading /\ Top.next <= Len(Kids[Top.dir]) /\ STOP_SCANNING
  /\ Leave(Front(frames), Top.size, Top.depth)
  /\ stage' = WalkOn(Front(frames))
  /\ UNCHANGED <<calls, current_location, STOP_SCANNING, excluded, monitor, quit,
                 calm, upsets, opening, hla, tree, window>>

EnterDir ==
  /\ AtEntry(Dirs) /\ ~STOP_SCANNING
  /\ opening' = Entry /\ frames' = NextEntry(Top)
  /\ stage' = "walking"
  /\ UNCHANGED <<calls, current_location, STOP_SCANNING, excluded, monitor, quit,
                 calm, upsets, hla, model_max_depth, tree, window>>

Counted(f) == f \notin Linked \/ Inode[f] \notin hla

CountFile ==
  /\ AtEntry(Files) /\ ~STOP_SCANNING
  /\ IF Counted(Entry)
     THEN /\ frames' = NextEntry([Top EXCEPT !.size = @ + Size[Entry],
                                             !.elements = @ + 1])
          /\ hla' = IF Entry \in Linked THEN hla \cup {Inode[Entry]} ELSE hla
     ELSE /\ frames' = NextEntry([Top EXCEPT !.hl = @ + Size[Entry]])
          /\ hla' = hla
  /\ stage' = "walking"
  /\ UNCHANGED <<calls, current_location, STOP_SCANNING, excluded, monitor, quit,
                 calm, upsets, opening, model_max_depth, tree, window>>

IgnoreOther ==
  /\ Reading /\ Top.next <= Len(Kids[Top.dir]) /\ ~STOP_SCANNING
  /\ Entry \notin Dirs \cup Files
  /\ frames' = NextEntry(Top) /\ stage' = "walking"
  /\ UNCHANGED <<calls, current_location, STOP_SCANNING, excluded, monitor, quit,
                 calm, upsets, opening, hla, model_max_depth, tree, window>>

(* All entries have been read, or reading them failed half way: the row on *)
(* top of iterstack is filled.                                             *)
FillModel(failed) ==
  /\ Reading
  /\ IF failed THEN Top.next <= Len(Kids[Top.dir]) /\ upsets < MaxUpsets
               ELSE Top.next > Len(Kids[Top.dir])
  /\ LET r == Last(iterstack)
     IN  IF Live(r)
         THEN /\ rows' = [rows EXCEPT ![r].of = Top.dir, ![r].size = Top.size,
                                      ![r].elements = Top.elements, ![r].hl = Top.hl]
              /\ iterstack' = Front(iterstack)
              /\ Leave(Front(frames), Top.size, Top.depth)
              /\ stage' = IF Len(frames) = 1 THEN "finishing" ELSE "events"
              /\ calm' = (calm /\ ~failed)
              /\ upsets' = IF failed THEN upsets + 1 ELSE upsets
              /\ UNCHANGED <<calls, current_location, STOP_SCANNING, excluded,
                             monitor, quit, opening, hla, currentdepth, currentiter,
                             firstiter, window>>
         ELSE Undefined

-----------------------------------------------------------------------------
(* What the user does when events are dispatched.                          *)

MayAct == stage \in EventPoints /\ upsets < MaxUpsets /\ upsets' = upsets + 1

Stop ==
  /\ MayAct /\ ~sens
  /\ STOP_SCANNING' = TRUE /\ calm' = FALSE
  /\ UNCHANGED <<stage, calls, current_location, excluded, monitor, quit, walk, tree,
                 window>>

(* ctk_main_quit ends the main loop, not the loops the scan runs. *)
Quit ==
  /\ MayAct
  /\ STOP_SCANNING' = TRUE /\ calm' = FALSE /\ quit' = TRUE
  /\ stage' = IF stage = "idle" THEN "exit" ELSE stage
  /\ UNCHANGED <<calls, current_location, excluded, monitor, walk, tree, window>>

(* Its item stays sensitive during a scan; it ends the busy state. *)
ToggleAllocatedSpace ==
  /\ MayAct
  /\ busy' = FALSE /\ frozen' = {}
  /\ UNCHANGED <<stage, calls, current_location, STOP_SCANNING, excluded, monitor,
                 quit, calm, walk, tree, sens, current_chart>>

SwitchChart(c) ==
  /\ MayAct /\ ~busy /\ c # current_chart
  /\ frozen' = (frozen \cup {current_chart}) \ {c} /\ current_chart' = c
  /\ UNCHANGED <<stage, calls, current_location, STOP_SCANNING, excluded, monitor,
                 quit, calm, walk, tree, busy, sens>>

Under(r) == {x \in DOMAIN rows : \E k \in 0..Len(rows) : Ancestor(x, k) = r}

(* A row has a path, and with it a menu, once it has been filled. *)
TrashDir(r) ==
  /\ MayAct /\ Live(r) /\ rows[r].elements >= 0
  /\ rows' = [x \in DOMAIN rows |->
                IF x \in Under(r) THEN [rows[x] EXCEPT !.live = FALSE] ELSE rows[x]]
  /\ calm' = FALSE
  /\ UNCHANGED <<stage, calls, current_location, STOP_SCANNING, excluded, monitor,
                 quit, walk, iterstack, currentdepth, currentiter, firstiter, window>>

(* The preferences were opened before; the tree goes back to the first     *)
(* rows.  Nothing keeps the root folder from being excluded here.          *)
ExcludedUrisChanged(uris) ==
  /\ MayAct /\ excluded' = uris
  /\ rows' = [x \in DOMAIN rows |-> [rows[x] EXCEPT !.live = FALSE]]
               \o FirstRows(Len(rows))
  /\ firstiter' = Len(rows) + 2
  /\ calm' = FALSE
  /\ UNCHANGED <<stage, calls, current_location, STOP_SCANNING, monitor, quit, walk,
                 iterstack, currentdepth, currentiter, window>>

(* The setting, and a change the file monitor reports, of a file that is   *)
(* not one of the four it is told to overlook.                             *)
MonitorHome(enable) ==
  /\ MayAct /\ monitored' = enable
  /\ UNCHANGED <<stage, calls, current_location, STOP_SCANNING, excluded,
                 CONTENTS_CHANGED_DELAYED, quit, calm, walk, tree, window>>

HomeContentsChanged ==
  /\ MayAct /\ monitored
  /\ CONTENTS_CHANGED_DELAYED' = TRUE
  /\ UNCHANGED <<stage, calls, current_location, STOP_SCANNING, excluded, monitored,
                 quit, calm, walk, tree, window>>

(* A row inside the home folder is pressed after a change: the user is     *)
(* asked whether to scan again, but not during a scan, and a scan that was *)
(* stopped and has not ended refuses the request.                          *)
PressRow(r) ==
  /\ MayAct /\ CONTENTS_CHANGED_DELAYED
  /\ Live(r) /\ rows[r].elements >= 0 /\ rows[r].of \in InHome
  /\ CONTENTS_CHANGED_DELAYED' = FALSE
  /\ \/ STOP_SCANNING /\ BeginsScan(current_location)
     \/ UNCHANGED <<stage, calls, current_location, STOP_SCANNING, excluded,
                    monitored, quit, calm, walk, tree, window>>

-----------------------------------------------------------------------------
Loopdir ==
  \/ LoopdirSkips \/ LoopdirCannotRead \/ LoopdirOpens
  \/ StopSeen \/ EnterDir \/ CountFile \/ IgnoreOther \/ FillModel(FALSE)
ScanStep == BeginWalk(FALSE) \/ Loopdir \/ Finish \/ Return

UserStep ==
  \/ \E l \in Locations : RequestScan(l)
  \/ Stop \/ Quit \/ ToggleAllocatedSpace
  \/ \E uris \in SUBSET Excludable : uris # excluded /\ ExcludedUrisChanged(uris)
  \/ \E c \in ChartKinds : SwitchChart(c)
  \/ \E r \in DOMAIN rows : TrashDir(r) \/ PressRow(r)
  \/ MonitorHome(~monitored) \/ HomeContentsChanged

ScanNext == ScanStep \/ UserStep \/ BeginWalk(TRUE) \/ FillModel(TRUE)

(* The main thread goes on: the events that are pending come to an end.    *)
ScanSpec == ScanInit /\ [][ScanNext]_scanvars /\ WF_scanvars(ScanStep)

-----------------------------------------------------------------------------
(* What lies below a folder, as far as it can be read.                     *)
Closed == Skipped \cup Unreadable
KidsOf(d) == IF d \in Closed THEN {} ELSE Range(Kids[d])
At(d) ==
  LET level[k \in 0..Cardinality(Dirs)] ==
        IF k = 0 THEN {d} ELSE UNION {KidsOf(x) : x \in level[k - 1] \cap Dirs}
  IN  level
Beneath(d)  == UNION Range(At(d))
Height(d) == Max({k \in DOMAIN At(d) : At(d)[k] \cap Dirs # {}})
Measured(d) == (Beneath(d) \cap (Dirs \cup Files)) \ Skipped
TotalSize(set) == MapThenSumSet(LAMBDA x : Size[x], set)
EachInodeOnce(set) ==
  TotalSize(set \ Linked)
    + MapThenSumSet(LAMBDA i : Size[CHOOSE f \in Linked : Inode[f] = i],
                    {Inode[f] : f \in set \cap Linked})
HlUnder(r) == MapThenSumSet(LAMBDA x : rows[x].hl, Under(r))

(* A scan nobody interfered with shows the whole tree: one row for each    *)
(* folder that could be read, below the row of its parent, with a size     *)
(* that, with the linked files it leaves out, is that of everything below; *)
(* the first row counts every inode once; the depth given to the charts is *)
(* that of the tree; and the location kept for a rescan is the one shown.  *)
(* It takes the recursion, the stack of rows, the search for the place of  *)
(* a row and the list of inodes to agree.                                  *)
TreeIsWhole ==
  stage = "idle" /\ calm =>
    LET top == current_location
        shownDirs == (Beneath(top) \cap Dirs) \ Closed
    IN  /\ {rows[r].of : r \in DOMAIN rows} = shownDirs
        /\ Len(rows) = Cardinality(shownDirs)
        /\ \A r \in DOMAIN rows :
             /\ rows[r].size + HlUnder(r) = TotalSize(Measured(rows[r].of))
             /\ IF rows[r].of = top THEN rows[r].parent = 0
                ELSE rows[r].of \in KidsOf(rows[rows[r].parent].of)
        /\ rows # <<>> => rows[1].size = EachInodeOnce(Measured(top))
        /\ model_max_depth = Height(top)

(* The chart in the window is not left frozen when no scan runs, however   *)
(* busy states and changes of the chart follow each other.                 *)
ShownChartFollows == stage \in {"idle", "ready"} /\ ~busy => current_chart \notin frozen

(* A scan that was asked for ends, with the window ready for the next one  *)
(* or the program at its end.                                              *)
Over == stage \in {"exit", "undefined"} \/ (stage = "idle" /\ sens /\ ~busy)
ScanEnds == stage = "starting" ~> Over
=============================================================================
