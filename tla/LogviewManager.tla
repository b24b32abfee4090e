--------------------------- MODULE LogviewManager ---------------------------
(***************************************************************************)
(* The log viewer's manager: which logs are open and which one is active,  *)
(* the loads in worker threads that open them, the list of logs in the     *)
(* side pane, and the settings the next start opens its logs from; with    *)
(* the window's filters, because a new active log gets a new buffer and    *)
(* new lines are filtered.  Reading the lines is LogviewReader.            *)
(*                                                                         *)
(* A file is its place in the order of the list; a log is a number, the    *)
(* place of its load among those that succeeded.  The program starts from  *)
(* the stored names, or from the names of the command line, or, the first  *)
(* time, from the system's logs, which it has to look for while the window *)
(* is already there.                                                       *)
(***************************************************************************)
EXTENDS LogviewFilters

CONSTANTS
  Files,         (* the files, numbers in the order of their names         *)
  CommandLines,  (* what may be given on the command line                  *)
  None           (* no file, no operation                                  *)

ASSUME FilesAssumption ==
  IsFiniteSet(Files) /\ Files \subseteq Nat \ {0} /\ None \notin Files

Op == [total : Nat, current : Nat, errors : SUBSET Files]

ASSUME NoneAssumption == None \notin Op

ASSUME CommandLinesAssumption == CommandLines \subseteq Seq(Files)

VARIABLES
  stored,        (* the names in the settings                              *)
  active_file,   (* the name of the active log there                       *)
  file_of,       (* the file of each log                                   *)
  logs,          (* the manager's table: the log of each file, or 0        *)
  active_log,    (* the active log, or 0                                   *)
  loads,         (* the loads in threads                                   *)
  op,            (* the creation of several logs at once                   *)
  rows,          (* the logs in the list                                   *)
  bold,          (* those shown in bold                                    *)
  dated,         (* those whose days are listed                            *)
  day,           (* has_day_selection, and 1 if the view shows one day     *)
  enumerating,   (* 1: the system's logs are being looked for              *)
  named,         (* history: the files the program started with            *)
  hurried        (* history: files opened or closed while a load was under  *)
                 (* way, and files closed twice                            *)

settings == <<stored, active_file>>
manager  == <<file_of, logs, active_log, loads, op>>
list     == <<rows, bold, dated, day>>
history  == <<named, hurried>>
managerVars == <<settings, manager, list, enumerating, history>>
vars == <<filterVars, managerVars, asked>>

-----------------------------------------------------------------------------
NewOp(total) == [total |-> total, current |-> 0, errors |-> {}]

Load(f, set_active, is_multiple) ==
  [file |-> f, set_active |-> set_active, is_multiple |-> is_multiple]

(* add_log_from_gfile_internal for each name, one load each unless the log *)
(* exists.                                                                 *)
Loads(names, active) ==
  [i \in DOMAIN names |-> Load(names[i], IF names[i] = active THEN 1 ELSE 0, 1)]

Twice(names) ==
  {f \in Range(names) : \E i, j \in DOMAIN names : i # j /\ names[i] = f /\ names[j] = f}

(* logview_app_initialize. *)
Init ==
  /\ FiltersInit
  /\ stored \in SUBSET Files
  /\ active_file \in stored \cup {None}
  /\ file_of = <<>> /\ logs = [f \in Files |-> 0] /\ active_log = 0
  /\ rows = {} /\ bold = {} /\ dated = {}
  /\ day = [has_selection |-> 0, shown |-> 0]
  /\ \/ \E names \in CommandLines :
          /\ loads = Loads(names, None) /\ op = NewOp(Len(names))
          /\ enumerating = 0 /\ named = Range(names) /\ hurried = Twice(names)
     \/ /\ stored # {}
        /\ loads = Loads(SetToSeq(stored), active_file)
        /\ op = NewOp(Cardinality(stored))
        /\ enumerating = 0 /\ named = stored /\ hurried = {}
     \/ /\ stored = {} /\ loads = <<>> /\ op = None
        /\ enumerating = 1 /\ named = {} /\ hurried = {}

Loading(f) == \E i \in DOMAIN loads : loads[i].file = f

-----------------------------------------------------------------------------
(* The manager and what its signals do.                                    *)

(* manager_active_changed_cb, after the window has its new buffer: a day   *)
(* that was clicked is shown.                                              *)
ShowDay(one_day) ==
  day' = [has_selection |-> IF one_day = 1 THEN 1 ELSE day.has_selection,
          shown |-> one_day]

(* logview_manager_set_active_log and what its signal does.                *)
SetActiveLog(l, of, one_day) ==
  /\ active_log' = l
  /\ active_file' = of[l]
  /\ NewBuffer
  /\ ShowDay(one_day)

ShowsSame == UNCHANGED <<active_log, active_file, day, tagged, hidden>>

(* logview_prefs_store_log and logview_prefs_remove_stored_log. *)
StoreLog(f) == stored \cup {f}
RemoveStoredLog(f) == stored \ {f}

Counted(ended, failed) ==
  [ended EXCEPT !.current = @ + 1, !.errors = @ \cup failed]

(* Mutant: the files that failed stay in the settings. *)
KeptAll(names, errors) == names

(* check_error_prefs on each error. *)
Kept(names, errors) == names \ errors

(* The end of one load of several; when all have ended logview_app_add_    *)
(* errors removes the files that failed from the settings.                 *)
EndOfOne(load, failed, names) ==
  IF load.is_multiple = 0
  THEN op' = op /\ stored' = names
  ELSE LET next == Counted(op, failed)
       IN  IF next.current = next.total
           THEN /\ op' = None
                /\ stored' = Kept(names, next.errors)
           ELSE op' = next /\ stored' = names

(* manager_log_added_cb. *)
LogAdded(l) == rows' = rows \cup {l}

(* create_log_cb.  A log of the same file that is *)
(* in the table already is replaced there.                                 *)
LoadDone(i) ==
  /\ wild = 0
  /\ loads' = RemoveAt(loads, i)
  /\ LET load == loads[i]
         l    == Len(file_of) + 1
     IN  /\ file_of' = Append(file_of, load.file)
         /\ logs' = [logs EXCEPT ![load.file] = l]
         /\ LogAdded(l)
         /\ EndOfOne(load, {}, StoreLog(load.file))
         /\ IF load.set_active = 1 THEN SetActiveLog(l, file_of', 0) ELSE ShowsSame
  /\ UNCHANGED <<table, dialog, switch, wild, bold, dated, enumerating, history, asked>>

(* The file cannot be read, or is not a text file: log_load, create_log_cb. *)
LoadFailed(i) ==
  /\ wild = 0
  /\ loads' = RemoveAt(loads, i)
  /\ EndOfOne(loads[i], {loads[i].file}, stored)
  /\ UNCHANGED <<filterVars, active_file, file_of, logs, active_log, list,
                 enumerating, history, asked>>

(* enumerate_job_finish: the files found, the first of them active; any    *)
(* may come first.  Files that are open already are counted and never      *)
(* loaded.  With no file at all the program reads through a null pointer.  *)
EnumerateDone(found) ==
  /\ wild = 0 /\ enumerating = 1
  /\ enumerating' = 0 /\ named' = found
  /\ \/ /\ found = {} /\ wild' = 1
        /\ UNCHANGED <<manager, settings, list, view, hurried>>
     \/ \E first \in found :
          /\ op' = NewOp(Cardinality(found))
          /\ loads' = loads \o Loads(SetToSeq({f \in found : logs[f] = 0}), first)
          /\ hurried' = hurried \cup {f \in found : Loading(f) \/ logs[f] # 0}
          /\ IF logs[first] # 0
             THEN SetActiveLog(logs[first], file_of, 0)
             ELSE ShowsSame
          /\ UNCHANGED <<wild, stored, file_of, logs, rows, bold, dated>>
  /\ UNCHANGED <<table, dialog, switch, asked>>

(* open_file_selected_cb. *)
OpenFile(f) ==
  /\ wild = 0 /\ Ask /\ dialog.at = "closed"
  /\ hurried' = IF Loading(f) \/ op # None THEN hurried \cup {f} ELSE hurried
  /\ IF logs[f] # 0
     THEN SetActiveLog(logs[f], file_of, 0) /\ UNCHANGED loads
     ELSE /\ loads' = Append(loads, Load(f, 1, 0))
          /\ ShowsSame
  /\ UNCHANGED <<table, dialog, switch, wild, stored, file_of, logs, op,
                 rows, bold, dated, enumerating, named>>

(* Mutant: the log stays in the manager's table. *)
StillInTable(f) == logs

OutOfTable(f) == [logs EXCEPT ![f] = 0]

(* manager_log_closed_cb: the rows that may come next in the list's order. *)
NextRows(l) ==
  LET after == {r \in rows \ {l} : file_of[r] >= file_of[l]}
  IN  {r \in after : \A s \in after : file_of[r] <= file_of[s]}

(* logview_manager_close_active_log and manager_log_closed_cb: the next    *)
(* row is selected; when the last one goes the toolkit may select another, *)
(* or none and the closed log stays active.                                *)
CloseActiveLog ==
  /\ wild = 0 /\ Ask /\ dialog.at = "closed"
  /\ active_log # 0
  /\ LET f == file_of[active_log]
     IN  /\ rows' = rows \ {active_log}
         /\ dated' = dated \ {active_log}
         /\ stored' = RemoveStoredLog(f)
         /\ logs' = OutOfTable(f)
         /\ hurried' = IF Loading(f) \/ op # None \/ active_log \notin rows
                       THEN hurried \cup {f} ELSE hurried
  /\ \/ \E r \in rows' :
          /\ active_log \in rows
          /\ r \in NextRows(active_log) \/ NextRows(active_log) = {}
          /\ SetActiveLog(r, file_of, 0)
          /\ bold' = bold \ {r, active_log}
     \/ /\ active_log \in rows => NextRows(active_log) = {}
        /\ ShowsSame /\ bold' = bold \ {active_log}
  /\ UNCHANGED <<table, dialog, switch, wild, file_of, loads, op, enumerating, named>>

-----------------------------------------------------------------------------
(* The list.                                                               *)

(* tree_selection_changed_cb on the row of a log. *)
SelectLog(l) ==
  /\ wild = 0 /\ Ask /\ dialog.at = "closed"
  /\ l \in rows
  /\ bold' = bold \ {l}
  /\ IF l # active_log THEN SetActiveLog(l, file_of, 0)
     ELSE /\ day' = IF day.has_selection = 1
                    THEN [has_selection |-> 0, shown |-> 0] ELSE day
          /\ UNCHANGED <<active_log, active_file, view>>
  /\ UNCHANGED <<table, dialog, switch, wild, stored, file_of, logs, loads, op,
                 rows, dated, enumerating, history>>

(* tree_selection_changed_cb on the row of a day. *)
SelectDay(l) ==
  /\ wild = 0 /\ Ask /\ dialog.at = "closed"
  /\ l \in dated
  /\ IF l # active_log THEN SetActiveLog(l, file_of, 1)
     ELSE /\ day' = [has_selection |-> 1, shown |-> 1]
          /\ UNCHANGED <<active_log, active_file, view>>
  /\ UNCHANGED <<table, dialog, switch, wild, stored, file_of, logs, loads, op,
                 rows, bold, dated, enumerating, history>>

(* row_expanded_cb. *)
ExpandRow(l) ==
  /\ wild = 0 /\ Ask /\ dialog.at = "closed"
  /\ l \in rows /\ l # active_log
  /\ SetActiveLog(l, file_of, 0)
  /\ UNCHANGED <<table, dialog, switch, wild, stored, file_of, logs, loads, op,
                 rows, bold, dated, enumerating, history>>

(* log_changed_cb of the list: a log that is not active gets bold. *)
LogChanged(l) ==
  /\ wild = 0
  /\ l \in rows /\ l # active_log
  /\ bold' = bold \cup {l}
  /\ UNCHANGED <<filterVars, settings, manager, rows, dated, day,
                 enumerating, history, asked>>

(* read_new_lines_cb: the new lines are filtered and the days listed anew; *)
(* the row of a day that was selected goes, and the toolkit may select the *)
(* log's row instead.                                                      *)
ReadNewLines ==
  /\ wild = 0
  /\ active_log # 0
  /\ FilterBuffer(active_filters, matches_only)
  /\ dated' = dated \cup ({active_log} \cap rows)
  /\ day' = day \/ day' = [has_selection |-> 0, shown |-> 0]
  /\ UNCHANGED <<table, dialog, switch, settings, manager, rows, bold,
                 enumerating, history, asked>>

-----------------------------------------------------------------------------
(* Where the program is undefined the behaviours end. *)
Undefined == wild = 1 /\ UNCHANGED vars

Next ==
  \/ FiltersNext /\ UNCHANGED managerVars
  \/ \E i \in DOMAIN loads : LoadDone(i) \/ LoadFailed(i)
  \/ \E found \in SUBSET Files : EnumerateDone(found)
  \/ \E f \in Files : OpenFile(f)
  \/ CloseActiveLog
  \/ \E l \in rows : SelectLog(l) \/ SelectDay(l) \/ ExpandRow(l) \/ LogChanged(l)
  \/ ReadNewLines
  \/ Undefined

Spec == Init /\ [][Next]_vars

-----------------------------------------------------------------------------
(* Every row of the list is the log the manager has of its file and every  *)
(* log of the manager has a row, however logs are opened, replaced and     *)
(* closed, unless one was opened or closed while the start's loads or one  *)
(* of the same file were under way, or closed when it had no row any more. *)
RowsAreTheManagers ==
  \A f \in Files \ hurried :
    {l \in rows : file_of[l] = f} = {logs[f]} \ {0}

(* Once the loads have ended the next start opens the logs that are open   *)
(* now: every open log is stored, and a file this start was given is       *)
(* stored only if it is open, so one that could not be loaded is not tried *)
(* again for ever.                                                         *)
NextStartOpensThese ==
  op = None /\ loads = <<>> /\ enumerating = 0 =>
    LET open == {file_of[l] : l \in rows}
    IN  /\ open \subseteq hurried \cup stored
        /\ named \cap stored \subseteq hurried \cup open

=============================================================================
