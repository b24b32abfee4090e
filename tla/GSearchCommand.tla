--------------------------- MODULE GSearchCommand ---------------------------
(***************************************************************************)
(* The search of cafe-search-tool: one child process (locate, then find),  *)
(* its two pipes, and the callbacks of the main loop that share the        *)
(* command status.                                                         *)
(*                                                                         *)
(* The pipe handlers run the main loop from inside their read loops, so    *)
(* any other callback may run while a handler is half way through.  The    *)
(* variable stack holds the calls that wait in such a nested loop, the     *)
(* innermost last: only the last one may continue, and a source that is on *)
(* the stack is not dispatched again.  Everything between two turns of the *)
(* main loop is one step; a handler that reads several lines without such  *)
(* a turn is several steps.                                                *)
(***************************************************************************)
EXTENDS Naturals, Sequences, FiniteSets

CONSTANTS
  Files,         (* the files a search may find                            *)
  MaxSearches,   (* bound: times Find is clicked                           *)
  MaxPipe,       (* bound: lines written and not read                      *)
  Env            (* what may go wrong or change outside                    *)

AllEnv == {"convert", "spawn", "respawn", "deleted", "trashed"}

ASSUME FilesAssumption  == "none" \notin Files
ASSUME SearchesAssumption == MaxSearches \in Nat /\ MaxPipe \in Nat \ {0}
ASSUME EnvAssumption    == Env \subseteq AllEnv

VARIABLES
  status,        (* command_status                                         *)
  delay,         (* is_command_timeout_enabled                             *)
  timers,        (* the 500 ms sources attached                            *)
  pass,          (* 1 while is_command_first_pass, 2 after                 *)
  quick,         (* is_command_using_quick_mode                            *)
  second,        (* second pass enabled and the folder not excluded        *)
  locate,        (* the check of the locate data base                      *)
  look_in,       (* look_in_folder_string: "null", "set" or "freed"        *)
  misused,       (* history: a freed look_in_folder_string was used        *)
  failed,        (* history: some command could not be started             *)
  buttons,       (* "find", "stop", or "stopping": Stop is insensitive     *)
  stack,         (* the calls that wait in a nested main loop              *)
  out,           (* the watch on the child's stdout is attached            *)
  errs,          (* the children whose stderr is watched                   *)
  error_msgs,    (* some message was collected                             *)
  children,      (* the child processes alive                              *)
  spawned,       (* the number of children so far, the last one's name     *)
  searches,      (* times Find was accepted                                *)
  pipe,          (* lines on stdout, not read                              *)
  known,         (* search_results_filename_hash_table                     *)
  rows,          (* the list: files, or "none" for "No files found"        *)
  life           (* "running", "quitting" after ctk_main_quit, "exited"    *)

passes  == <<pass, quick, second>>
sources == <<out, errs, error_msgs>>
process == <<children, spawned, pipe>>
results == <<known, rows>>
string  == <<look_in, misused, failed>>
gvars == <<status, delay, timers, passes, locate, string, buttons, stack,
          sources, process, searches, results, life>>

(* The calls that run a nested main loop: the check of locate, the stdout  *)
(* handler after a line or while the line is incomplete, the stderr        *)
(* handler, and the dialog about a command that cannot be run.             *)
Calls  == {"check", "out_line", "out_again", "dialog", "err"}
Frames == [call : Calls, child : Nat]    (* whose stderr it is, or 0       *)

Waits(call, child) == [call |-> call, child |-> child]
Top     == stack[Len(stack)]
Under   == SubSeq(stack, 1, Len(stack) - 1)
TopIs(call) == stack # <<>> /\ Top.call = call
OnStack(calls) == \E i \in 1..Len(stack) : stack[i].call \in calls

(* Some main loop, the outer one or a nested one, dispatches sources.      *)
Dispatching == life # "exited" /\ (life = "running" \/ stack # <<>>)

(* The main window gets no input while a modal dialog runs.                *)
UserInput == Dispatching /\ ~OnStack({"dialog"})

-----------------------------------------------------------------------------
GInit ==
  /\ status = "STOPPED" /\ delay = 0 /\ timers = 0
  /\ pass = 1 /\ quick = 0 /\ second = 0
  /\ locate = "unchecked" /\ look_in = "null" /\ misused = 0 /\ failed = 0
  /\ buttons = "find" /\ stack = <<>>
  /\ out = 0 /\ errs = {} /\ error_msgs = 0
  /\ children = {} /\ spawned = 0 /\ searches = 0 /\ pipe = 0
  /\ known = {} /\ rows = <<>> /\ life = "running"

(* update_search_counts on the list r: an empty list gets the message row. *)
Counted(r) == IF r = <<>> THEN <<"none">> ELSE r

Uses == misused' = IF look_in = "freed" THEN 1 ELSE misused

(* build_search_command replaces the folder, then spawn_search_command     *)
(* starts the child and watches its pipes.                                 *)
Started ==
  /\ spawned' = spawned + 1
  /\ children' = children \cup {spawned + 1}
  /\ out' = 1 /\ errs' = errs \cup {spawned + 1} /\ pipe' = 0
  /\ look_in' = "set" /\ Uses
  /\ UNCHANGED <<error_msgs, failed>>

(* The child cannot be started: the dialog runs first, the strings are     *)
(* freed after it (DialogCloses).                                          *)
NotStarted(st) ==
  /\ buttons' = "find"
  /\ stack' = Append(st, Waits("dialog", 0))
  /\ look_in' = "set" /\ Uses /\ failed' = 1

(* The first pass, from click_find_cb once the data base is checked.       *)
FirstPass(st) ==
  \/ /\ "convert" \in Env
     /\ buttons' = "find" /\ stack' = st
     /\ UNCHANGED <<status, passes, string, sources, process, results>>
  \/ /\ pass' = 1 /\ quick' \in 0..1 /\ second' \in 0..1
     /\ quick' = 1 => locate' = "available"
     /\ \/ /\ Started
           /\ status' = "RUNNING" /\ known' = {} /\ rows' = <<>>
           /\ buttons' = "stop" /\ stack' = st
        \/ /\ "spawn" \in Env
           /\ NotStarted(st)
           /\ UNCHANGED <<status, sources, process, results>>

(* Find is clicked; the first time, the data base is checked in a nested   *)
(* main loop while the window shows Stop.                                  *)
ClickFind ==
  /\ UserInput
  /\ buttons = "find" /\ delay = 0 /\ status \in {"STOPPED", "ABORTED"}
  /\ searches < MaxSearches
  /\ searches' = searches + 1
  /\ IF locate = "unchecked"
     THEN /\ locate' = "checking"
          /\ buttons' = "stop" /\ stack' = Append(stack, Waits("check", 0))
          /\ UNCHANGED <<status, passes, string, sources, process, results>>
     ELSE locate' = locate /\ FirstPass(stack)
  /\ UNCHANGED <<delay, timers, life>>

LocateChecked ==
  /\ TopIs("check")
  /\ locate' \in {"available", "missing"}
  /\ FirstPass(Under)
  /\ UNCHANGED <<delay, timers, searches, life>>

DialogCloses ==
  /\ TopIs("dialog")
  /\ stack' = Under /\ look_in' = "freed"
  /\ UNCHANGED <<status, delay, timers, passes, locate, misused, failed,
                 buttons, sources, process, searches, results, life>>

(* Mutant: the child is not killed.                                        *)
KillNothing == children' = children

(* SIGKILL to the process group of command_pid, the last child.            *)
Kill == children' = children \ {spawned}

(* Stop, or Escape while the search runs.                                  *)
ClickStop ==
  /\ UserInput
  /\ status = "RUNNING"
  /\ status' = "MAKE_IT_STOP"
  /\ buttons' = IF buttons = "stop" THEN "stopping" ELSE buttons
  /\ Kill
  /\ UNCHANGED <<delay, timers, passes, locate, string, stack, sources,
                 spawned, pipe, searches, results, life>>

(* The window is closed, the session ends, or Escape while nothing runs.   *)
Quit ==
  /\ Dispatching /\ life = "running"
  /\ life' = "quitting"
  /\ IF status = "RUNNING"
     THEN status' = "MAKE_IT_QUIT" /\ Kill
     ELSE UNCHANGED <<status, children>>
  /\ UNCHANGED <<delay, timers, passes, locate, string, buttons, stack,
                 sources, spawned, pipe, searches, results>>

(* ctk_main returns once every nested loop has.                            *)
Exit ==
  /\ life = "quitting" /\ stack = <<>>
  /\ life' = "exited"
  /\ UNCHANGED <<status, delay, timers, passes, locate, string, buttons, stack,
                 sources, process, searches, results>>

(* not_running_timeout_cb                                                  *)
TimerFires ==
  /\ Dispatching /\ timers > 0
  /\ timers' = timers - 1 /\ delay' = 0
  /\ UNCHANGED <<status, passes, locate, string, buttons, stack, sources,
                 process, searches, results, life>>

-----------------------------------------------------------------------------
(* handle_search_command_stdout_io                                         *)

(* Mutant: the result of the hash table is ignored.                        *)
IsNewAlways(f) == TRUE

IsNew(f) == f \notin known

(* One line: the file is added, or it is known, hidden, gone or no match.  *)
ReadLine(st) ==
  /\ pipe > 0 /\ pipe' = pipe - 1
  /\ \/ UNCHANGED results
     \/ \E f \in Files :
          IsNew(f) /\ known' = known \cup {f} /\ rows' = Append(rows, f)
  /\ stack' \in {st, Append(st, Waits("out_line", 0)),
                     Append(st, Waits("out_again", 0))}
  /\ UNCHANGED <<status, delay, timers, passes, string, buttons, sources,
                 children, spawned>>

SecondPassFollows == status # "MAKE_IT_STOP" /\ quick = 1 /\ pass = 1 /\ second = 1

EndStatus == IF status = "MAKE_IT_STOP" THEN "ABORTED" ELSE "STOPPED"

(* Mutant: the folder is freed with the other strings.                     *)
EndFreesFolder == look_in' = "freed" /\ UNCHANGED <<misused, failed>>

(* The strings freed at the end of a search do not include the folder.     *)
EndFrees == UNCHANGED string

(* The end of the stream: the second pass, or the end of the search.       *)
OutEnds(st) ==
  /\ UNCHANGED <<quick, second>>
  /\ IF SecondPassFollows
     THEN /\ pass' = 2
          /\ \/ Started /\ stack' = st /\ UNCHANGED buttons
             \/ /\ "respawn" \in Env
                /\ NotStarted(st)
                /\ out' = 0 /\ UNCHANGED <<errs, error_msgs, process>>
          /\ UNCHANGED <<status, delay, timers, results>>
     ELSE /\ status' = EndStatus
          /\ delay' = 1 /\ timers' = timers + 1
          /\ known' = {} /\ rows' = Counted(rows)
          /\ buttons' = "find" /\ stack' = st
          /\ out' = 0 /\ EndFrees
          /\ UNCHANGED <<pass, errs, error_msgs, process>>

(* The handler leaves without having reached the end of the stream.        *)
OutReturns(st, keep) ==
  /\ stack' = st /\ out' = (IF keep THEN out ELSE 0)
  /\ UNCHANGED <<status, delay, timers, passes, string, buttons, errs,
                 error_msgs, process, results>>

AtEof == pipe = 0 /\ spawned \notin children

(* Mutant: a stopped search is treated like one that quits.                *)
NextLineNoStop(st) ==
  \/ status = "RUNNING" /\ ReadLine(st)
  \/ status \notin {"RUNNING"} /\ OutReturns(st, TRUE)

(* The top of the read loop.                                               *)
NextLine(st) ==
  \/ status = "MAKE_IT_STOP" /\ OutEnds(st)
  \/ status = "RUNNING" /\ ReadLine(st)
  \/ status \notin {"MAKE_IT_STOP", "RUNNING"} /\ OutReturns(st, TRUE)

StdoutReady ==
  /\ Dispatching
  /\ out = 1 /\ ~OnStack({"out_line", "out_again"})
  /\ \/ AtEof /\ OutEnds(stack)
     \/ pipe > 0 /\ NextLine(stack)
     \/ /\ pipe > 0 /\ status = "RUNNING"      (* the line is incomplete   *)
        /\ OutReturns(Append(stack, Waits("out_again", 0)), TRUE)
  /\ UNCHANGED <<locate, searches, life>>

(* After a line the main loop ran; the handler goes on with what it has    *)
(* buffered or returns.                                                    *)
StdoutContinues ==
  /\ TopIs("out_line")
  /\ \/ pipe > 0 /\ NextLine(Under)
     \/ OutReturns(Under, TRUE)
     \/ status = "MAKE_IT_QUIT" /\ OutReturns(Under, FALSE)
  /\ UNCHANGED <<locate, searches, life>>

(* In the middle of a line the status is looked at only for MAKE_IT_QUIT,  *)
(* and only while more events are pending.                                 *)
StdoutReadsOn ==
  /\ TopIs("out_again")
  /\ \/ ReadLine(Under)
     \/ AtEof /\ OutEnds(Under)
     \/ status = "MAKE_IT_QUIT" /\ OutReturns(Under, FALSE)
  /\ UNCHANGED <<locate, searches, life>>

-----------------------------------------------------------------------------
(* handle_search_command_stderr_io                                         *)

(* The end of the stream: with messages the handler may look the folder up *)
(* to decide which dialog it shows.                                        *)
ErrEnds(r, st) ==
  /\ r \notin children
  /\ errs' = errs \ {r} /\ error_msgs' = 0
  /\ IF error_msgs = 1 /\ quick = 1 /\ second = 1 THEN Uses ELSE UNCHANGED misused
  /\ stack' = st

(* A line, or a part of one.  A dead child has left one message at most.   *)
ErrLine(r, st) ==
  /\ error_msgs' \in {error_msgs, 1}
  /\ r \in children \/ error_msgs' # error_msgs
  /\ stack' = st
  /\ UNCHANGED <<errs, misused>>

StderrReady(r) ==
  /\ Dispatching
  /\ r \in errs /\ Waits("err", r) \notin {stack[i] : i \in 1..Len(stack)}
  /\ \/ ErrEnds(r, stack)
     \/ ErrLine(r, stack)
     \/ ErrLine(r, Append(stack, Waits("err", r)))
  /\ UNCHANGED <<status, delay, timers, passes, locate, look_in, failed, buttons,
                 out, process, searches, results, life>>

StderrContinues ==
  /\ TopIs("err")
  /\ ErrEnds(Top.child, Under) \/ ErrLine(Top.child, Under)
  /\ UNCHANGED <<status, delay, timers, passes, locate, look_in, failed, buttons,
                 out, process, searches, results, life>>

-----------------------------------------------------------------------------
(* The environment: the child, and the files.                              *)
ChildWrites ==
  /\ spawned \in children /\ pipe < MaxPipe
  /\ pipe' = pipe + 1
  /\ UNCHANGED <<status, delay, timers, passes, locate, string, buttons, stack,
                 sources, children, spawned, searches, results, life>>

ChildExits ==
  /\ \E r \in children : children' = children \ {r}
  /\ UNCHANGED <<status, delay, timers, passes, locate, string, buttons, stack,
                 sources, spawned, pipe, searches, results, life>>

(* ctk_list_store_remove of one row.                                       *)
Without(at) == [i \in 1..(Len(rows) - 1) |-> rows[IF i < at THEN i ELSE i + 1]]
RowsOfFiles == {at \in 1..Len(rows) : rows[at] # "none"}

(* file_changed_cb: the file of a row is deleted.                          *)
FileDeleted ==
  /\ Dispatching /\ "deleted" \in Env
  /\ \E at \in RowsOfFiles : rows' = Counted(Without(at))
  /\ UNCHANGED <<status, delay, timers, passes, locate, string, buttons, stack,
                 sources, process, searches, known, life>>

(* move_to_trash_cb on one row.  The message row makes the list            *)
(* insensitive.                                                            *)
MoveToTrash ==
  /\ UserInput /\ "trashed" \in Env
  /\ \A i \in 1..Len(rows) : rows[i] # "none"
  /\ \E at \in RowsOfFiles :
       rows' = IF status # "RUNNING" THEN Counted(Without(at)) ELSE Without(at)
  /\ UNCHANGED <<status, delay, timers, passes, locate, string, buttons, stack,
                 sources, process, searches, known, life>>

GNext ==
  \/ ClickFind \/ LocateChecked \/ DialogCloses
  \/ ClickStop \/ Quit \/ Exit \/ TimerFires
  \/ StdoutReady \/ StdoutContinues \/ StdoutReadsOn
  \/ \E r \in errs : StderrReady(r)
  \/ StderrContinues
  \/ ChildWrites \/ ChildExits
  \/ FileDeleted \/ MoveToTrash

GSpec == GInit /\ [][GNext]_gvars

(* The main loop dispatches what is ready and nested loops return; locate  *)
(* and find come to an end.  Nothing is assumed of the user.               *)
Fairness ==
  /\ WF_gvars(LocateChecked) /\ WF_gvars(ChildExits)
  /\ WF_gvars(StdoutReady) /\ WF_gvars(StdoutContinues) /\ WF_gvars(StdoutReadsOn)
  /\ WF_gvars(\E r \in errs : StderrReady(r)) /\ WF_gvars(StderrContinues)

FairGSpec == GSpec /\ Fairness

-----------------------------------------------------------------------------
(* One search at a time: neither a second Find, nor Stop followed by Find, *)
(* nor the second pass ever leaves two child processes running.            *)
OneChild == Cardinality(children) <= 1

(* spawn_search_command, called twice per search and from inside nested    *)
(* loops, never lists a file twice, although locate and find both report   *)
(* it and the hash table lives from the first pass to the end of the last. *)
NoDuplicateRows ==
  \A i, j \in 1..Len(rows) : rows[i] = rows[j] => i = j

(* A search told to stop does stop, although its handlers look at the      *)
(* status only between lines.                                              *)
StopEnds ==
  status = "MAKE_IT_STOP" ~> status = "ABORTED" \/ life # "running" \/ failed = 1

(* The folder's name, read by both handlers and freed when it is replaced  *)
(* or its command fails, is never used after that as long as every command *)
(* could be started.                                                       *)
StringsAlive == misused = 1 => failed = 1

=============================================================================
