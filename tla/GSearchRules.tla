---------------------------- MODULE GSearchRules ----------------------------
(***************************************************************************)
(* What a window of cafe-search-tool searches for: the name, the folder    *)
(* and the rows of "more options", how they become the tests of a find     *)
(* command, and how they become command line options and rows again.       *)
(*                                                                         *)
(* A window is [name, folder, box, rows]: box is 1 while the options are   *)
(* visible, and rows maps each constraint in available_options_selected_   *)
(* list to its value.  The order of the rows is left out, since the tests  *)
(* of one find command are a conjunction.                                  *)
(***************************************************************************)
EXTENDS Naturals, FiniteSets, Functions

CONSTANTS
  Constraints,   (* the entries of GSearchOptionTemplates, no separators   *)
  Kind,          (* the type of each entry                                 *)
  Texts,         (* the texts a user types, the empty one among them       *)
  Numbers,       (* the numbers a spin button is set to                    *)
  Folders,       (* the folders looked in                                  *)
  Home,          (* the folder a new window looks in                      *)
  Links,         (* the folders that are symbolic links                   *)
  QuickExcluded, (* quick-search-excluded-paths: of each path or pattern, *)
                 (* the folders it matches                                *)
  ScanExcluded   (* quick-search-second-scan-excluded-paths, likewise     *)

Kinds == {"boolean", "text", "regex", "number", "date"}

ASSUME KindAssumption    == Kind \in [Constraints -> Kinds]
ASSUME ValuesAssumption  == "" \in Texts /\ Numbers \subseteq Nat /\ 0 \in Numbers
ASSUME FoldersAssumption ==
  /\ Home \in Folders /\ Links \subseteq Folders
  /\ QuickExcluded \cup ScanExcluded \subseteq SUBSET Folders

IsText(c) == Kind[c] \in {"text", "regex"}

(* What the entry of a row may hold.                                       *)
Values(c) == CASE IsText(c)              -> Texts
               [] Kind[c] = "boolean"    -> {"set"}
               [] OTHER                  -> Numbers

DefaultValue(c) == CASE IsText(c)           -> ""
                     [] Kind[c] = "boolean" -> "set"
                     [] OTHER               -> 0

EmptyWindow == [name |-> "", folder |-> Home, box |-> 0, rows |-> <<>>]

With(rows, c, v)  == [d \in DOMAIN rows \cup {c} |-> IF d = c THEN v ELSE rows[d]]
WithoutRow(rows, c) == Restrict(rows, DOMAIN rows \ {c})
-----------------------------------------------------------------------------
(***************************************************************************)
(* The find command.  A number of kilobytes is multiplied by 1024 in 32    *)
(* bits and printed unsigned, which is the number modulo 2^22.             *)
(***************************************************************************)
Wraps == 4194304

Additional(w) == {c \in DOMAIN w.rows : IsText(c) => w.rows[c] # ""}

TestOf(c, v) == IF Kind[c] = "number" THEN <<c, v % Wraps>> ELSE <<c, v>>

NameAlone(w) == w.box = 0 \/ Additional(w) = {}

Tests(w) ==
  IF NameAlone(w) THEN {}
  ELSE {TestOf(c, w.rows[c]) : c \in {d \in DOMAIN w.rows : Kind[d] = "text" => w.rows[d] # ""}}

(* A path without a wild-card matches one folder, and nothing below it.    *)
is_quick_search_excluded_path(folder) ==
  folder \in Links \/ \E matches \in QuickExcluded : folder \in matches

is_second_scan_excluded_path(folder) ==
  folder \in Links \/ \E matches \in ScanExcluded : folder \in matches

(* The commands that are run for the name alone, when locate and its data  *)
(* base are there and neither way of searching is disabled.                *)
Passes(folder) ==
  IF is_quick_search_excluded_path(folder)     THEN <<"find">>
  ELSE IF is_second_scan_excluded_path(folder) THEN <<"locate">>
  ELSE <<"locate", "find">>

Searches(w) ==
  [name |-> w.name, folder |-> w.folder, tests |-> Tests(w),
   passes |-> IF NameAlone(w) THEN Passes(w.folder) ELSE <<"find">>]
-----------------------------------------------------------------------------
(***************************************************************************)
(* The command line.  NoOptions is the program's name alone.               *)
(***************************************************************************)
NoOptions == [given |-> 0, name |-> "", folder |-> Home, options |-> <<>>]

(* Mutant: the rows are written although their box is hidden.             *)
CloneCommandOfHidden(w) ==
  [given |-> 1, name |-> w.name, folder |-> w.folder, options |-> w.rows]

CloneCommand(w) ==
  [given |-> 1, name |-> w.name, folder |-> w.folder,
   options |-> IF w.box = 1 THEN w.rows ELSE <<>>]

(* Options given on the command line open the box; without any, the rows   *)
(* are those of the settings, and box is the setting for the box.          *)
WindowOf(cmd, show, flags) ==
  IF cmd.given = 1
  THEN [name |-> cmd.name, folder |-> cmd.folder, rows |-> cmd.options,
        box |-> IF DOMAIN cmd.options = {} THEN 0 ELSE 1]
  ELSE [EmptyWindow EXCEPT !.box = show, !.rows = [c \in flags |-> DefaultValue(c)]]

-----------------------------------------------------------------------------
(***************************************************************************)
(* What the user does to the rows: the window after it.                    *)
(***************************************************************************)
AddConstraint(w, c)       == [w EXCEPT !.rows = With(@, c, DefaultValue(c))]
RemoveConstraint(w, c)    == [w EXCEPT !.rows = WithoutRow(@, c)]
UpdateConstraint(w, c, v) == [w EXCEPT !.rows = With(@, c, v)]

(* A constraint is offered once: its template is marked as selected.       *)
Offered(w) == IF w.box = 1 THEN Constraints \ DOMAIN w.rows ELSE {}

Toggled(w) == [w EXCEPT !.box = 1 - @]

(* The windows one act of the user leads to.                               *)
Edits(w) ==
  {[w EXCEPT !.name = n] : n \in Texts} \cup {[w EXCEPT !.folder = f] : f \in Folders}
  \cup {Toggled(w)}
  \cup {AddConstraint(w, c) : c \in Offered(w)}
  \cup (IF w.box = 0 THEN {}
        ELSE {RemoveConstraint(w, c) : c \in DOMAIN w.rows}
             \cup UNION {{UpdateConstraint(w, c, v) : v \in Values(c)} : c \in DOMAIN w.rows})
=============================================================================
