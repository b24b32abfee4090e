----------------------------- MODULE Screenshot -----------------------------
(***************************************************************************)
(* The screenshot tool: taking a shot, the child process that writes it to *)
(* a temporary file, and the thread that copies that file to the place the *)
(* user chose.                                                             *)
(*                                                                         *)
(* Each shot forks a child.  The child saves the image, closes the pipe to *)
(* tell the parent, and waits for the end of the pipe the parent holds:    *)
(* whichever of the two is left removes the temporary directory.  "Take    *)
(* new screenshot" takes the next shot in the same process, whose          *)
(* directory, file name and flags are those of the first.  A file is the   *)
(* shot its bytes are of (Mixed if they are of several) and whether they   *)
(* are all there.                                                          *)
(***************************************************************************)
EXTENDS ScreenshotGrab, SequencesExt

CONSTANTS
  MaxShots,      (* bound: shots taken in one run                          *)
  MaxTransfers,  (* bound: copies started in one run                       *)
  MaxDeaths,     (* bound: children that die before their time             *)
  NoFile

ASSUME BoundsAssumption ==
  MaxShots \in Nat \ {0} /\ MaxTransfers \in Nat /\ MaxDeaths \in Nat

VARIABLES
  phase,            (* where the parent is; "gone" once it has exited      *)
  shot,             (* the number of shots saved                           *)
  take_area_shot, take_window_shot,
  selection,        (* the area being selected, or selected                *)
  clipboard,        (* --clipboard: the shot goes there and nowhere else   *)
  busy,             (* the dialog is insensitive                           *)
  modal,            (* the dialogs the parent waits for, latest last       *)
  temporary_file,   (* TRUE once a child said it had saved its file        *)
  save_immediately, (* the user pressed Save before that                   *)
  child,            (* what the child of each shot does                    *)
  pipe,             (* what its pipe tells the parent                      *)
  tmp_usable,       (* a directory can be made in the temporary directory  *)
  dir,              (* the parent_dir of the shots exists                  *)
  file,             (* tmp_filename, in it                                 *)
  dest,             (* the file of the name in the dialog                  *)
  jobs,             (* the copies, in the order they were started          *)
  died              (* history: what children were doing when they died    *)

flags    == <<temporary_file, save_immediately>>
shown    == <<busy, modal, flags, jobs>>
process  == <<phase, selection, shown>>
options  == <<take_area_shot, take_window_shot, clipboard>>
children == <<child, pipe, died>>
temp     == <<tmp_usable, dir, file>>
vars == <<process, shot, options, children, temp, dest>>

Shots == 1..MaxShots
Mixed == 0
Old   == MaxShots + 1     (* what was in the file before *)
Bytes(s, w) == [shot |-> s, whole |-> w]
ASSUME NoFileAssumption == NoFile \notin [shot : Nat, whole : BOOLEAN]
Alive(c)  == child[c] \in {"opening", "writing", "waiting"}
Messages  == {"save_failed", "child_died"}

-----------------------------------------------------------------------------
(* The parent: taking a shot.                                              *)

(* main and load_options: --interactive and --clipboard exclude each other, *)
(* and so do --area and --window.                                          *)
Init ==
  /\ take_area_shot \in BOOLEAN /\ take_window_shot \in BOOLEAN
  /\ ~(take_area_shot /\ take_window_shot)
  /\ clipboard \in BOOLEAN
  /\ phase \in {"options", "delay"} /\ (phase = "options" => ~clipboard)
  /\ shot = 0 /\ busy = FALSE /\ modal = <<>> /\ selection = NoSelection
  /\ temporary_file = FALSE /\ save_immediately = FALSE
  /\ child = [c \in Shots |-> "none"] /\ pipe = [c \in Shots |-> "open"]
  /\ tmp_usable \in BOOLEAN /\ dir = FALSE /\ file = NoFile
  /\ dest = NoFile /\ jobs = <<>> /\ died = {}

(* The parent's memory, its threads and its sources end with it. *)
Exit ==
  /\ phase' = "gone" /\ busy' = FALSE /\ modal' = <<>> /\ jobs' = <<>>
  /\ temporary_file' = FALSE /\ save_immediately' = FALSE /\ selection' = NoSelection

(* ctk_main_quit.  The program ends when the handlers that wait for a      *)
(* dialog have returned; a confirmation goes away with its parent window.  *)
(* A message that is left ends in exit, and nothing else happens before.   *)
Quit ==
  LET left == SelectSeq(modal, LAMBDA d : d.kind \in Messages)
  IN  IF left = <<>> THEN Exit
      ELSE /\ phase' = "closing" /\ modal' = left /\ busy' = FALSE /\ jobs' = <<>>
           /\ selection' = NoSelection /\ UNCHANGED flags

(* The interactive dialog is answered, and loop_dialog_screenshot starts   *)
(* the timer or returns, and with it, at the end, main.                    *)
OptionsOk ==
  /\ phase = "options" /\ modal = <<>>
  /\ phase' = "delay"
  /\ take_area_shot' \in BOOLEAN /\ take_window_shot' \in BOOLEAN
  /\ ~(take_area_shot' /\ take_window_shot')
  /\ UNCHANGED <<shown, selection, shot, clipboard, children, temp, dest>>

OptionsCancel ==
  /\ phase = "options" /\ modal = <<>> /\ Quit
  /\ UNCHANGED <<shot, options, children, temp, dest>>

-----------------------------------------------------------------------------
(* The parent: what the shot is of.                                        *)

IsEmpty(rectangle) == rectangle.width = 0 \/ rectangle.height = 0

(* push_check_file_job.  find_current_window exits when another instance   *)
(* holds the lock, and takes the whole screen when the active window is    *)
(* the desktop.  An area that is empty ends the program.                   *)
PushCheckFileJob ==
  \/ Exit /\ UNCHANGED options
  \/ /\ take_window_shot' \in {take_window_shot, FALSE}
     /\ IF phase = "found" /\ IsEmpty(selection.rect)
          THEN Quit
          ELSE phase' = "check" /\ UNCHANGED <<selection, shown>>
     /\ UNCHANGED <<take_area_shot, clipboard>>

(* prepare_screenshot_timeout, which ends in save_options.  The pointer    *)
(* may not be had for a selection: then the area is empty.                 *)
Prepare ==
  /\ phase = "delay"
  /\ IF take_area_shot
       THEN phase' \in {"area", "found"} /\ UNCHANGED <<selection, shown, options>>
       ELSE PushCheckFileJob
  /\ UNCHANGED <<shot, children, temp, dest>>

Selecting(selection_, phase_) ==
  /\ phase = "area" /\ selection' = selection_ /\ phase' = phase_
  /\ UNCHANGED <<shown, shot, options, children, temp, dest>>

AreaPress   == \E p \in Points : Selecting(Press(selection, p), "area")
AreaMotion  == \E p \in Points : Selecting(Motion(selection, p), "area")
AreaRelease == selection.pressed /\ \E p \in Points : Selecting(Release(selection, p), "found")
AreaEscape  == Selecting(NoSelection, "found")

(* emit_select_callback_in_idle and rectangle_found_cb, 200 ms later.      *)
RectangleFound ==
  /\ phase = "found" /\ PushCheckFileJob
  /\ UNCHANGED <<shot, children, temp, dest>>

(* What the shot is of, when check_file_done takes it: the root window, or *)
(* the window that is active now.                                          *)
Subjects == IF take_window_shot THEN Windows ELSE {Root}

(* finish_prepare_screenshot: a window is taken with its border if that is *)
(* asked for.                                                              *)
Picture(window, include_border) ==
  GetPixbuf(window, selection.rect, take_window_shot /\ include_border,
            ~take_window_shot /\ ~take_area_shot)

(* screenshot_save_start.  When the directory cannot be made it returns    *)
(* without a child.  The second shot finds the directory of the first, and *)
(* in it the file: g_mkdir_with_parents does not mind.                     *)
SaveStart ==
  /\ shot' = shot + 1
  /\ dir' = (dir \/ tmp_usable)
  /\ child' = IF tmp_usable THEN [child EXCEPT ![shot + 1] = "opening"] ELSE child

(* check_file_done: the screen is read, which may fail, the lock released, *)
(* and the dialog shown with a name no file has.                           *)
FinishPrepareScreenshot ==
  /\ phase = "check"
  /\ \/ Exit /\ UNCHANGED <<shot, dir, child, dest>>
     \/ /\ \E window \in Subjects : HasPicture(window, selection.rect)
        /\ \/ clipboard /\ Quit /\ UNCHANGED <<shot, dir, child, dest>>
           \/ /\ ~clipboard /\ SaveStart
              /\ phase' = "dialog" /\ dest' = NoFile /\ selection' = NoSelection
              /\ UNCHANGED shown
  /\ UNCHANGED <<options, pipe, died, tmp_usable, file>>

-----------------------------------------------------------------------------
(* The parent: the dialog.                                                 *)

(* The user can act on the dialog: nothing modal is over it.  An           *)
(* insensitive dialog can still be closed.                                 *)
CanClose == phase = "dialog" /\ modal = <<>>
CanUse   == CanClose /\ ~busy

(* screenshot_xfer_uri: overwrite is job->flags, from the source as it was *)
(* opened, agreed (history) whether the user said Replace.                 *)
NewJob == [state |-> "queued", overwrite |-> FALSE, agreed |-> FALSE,
           cancelled |-> FALSE, from |-> NoFile, result |-> "none"]

(* Mutant: a copy starts whether or not the child has saved the file. *)
RespondOkAtOnce ==
  /\ jobs' = Append(jobs, NewJob) /\ busy' = TRUE
  /\ UNCHANGED flags

(* The response OK: copy the temporary file, or wait for it to be saved. *)
RespondOk ==
  /\ busy' = TRUE
  /\ IF temporary_file
       THEN jobs' = Append(jobs, NewJob) /\ UNCHANGED flags
       ELSE /\ save_immediately' = TRUE
            /\ UNCHANGED <<temporary_file, jobs>>

Save ==
  /\ CanUse /\ Len(jobs) < MaxTransfers /\ RespondOk
  /\ UNCHANGED <<phase, selection, modal, shot, options, children, temp, dest>>

(* The response NEW: the dialog goes, and loop_dialog_screenshot runs      *)
(* again inside the handler.  The flags of the first shot stay as they     *)
(* are.                                                                    *)
New ==
  /\ CanUse /\ shot < MaxShots
  /\ phase' = "options"
  /\ UNCHANGED <<selection, shown, shot, options, children, temp, dest>>

Close ==
  /\ CanClose /\ Quit
  /\ UNCHANGED <<shot, options, children, temp, dest>>

(* Another program makes a file of the name in the dialog, or the user     *)
(* types the name of one that exists.                                      *)
NameIsTaken ==
  /\ phase = "dialog" /\ dest = NoFile /\ dest' = Bytes(Old, TRUE)
  /\ UNCHANGED <<process, shot, options, children, temp>>

-----------------------------------------------------------------------------
(* The parent and its children.                                            *)

(* Mutant: whether the user waits for the file is not looked at. *)
SaveDoneUnnoticed == temporary_file' = TRUE /\ UNCHANGED <<busy, save_immediately, jobs>>

(* save_done_notification, which presses Save if the user did before. *)
SaveDone ==
  /\ temporary_file' = TRUE /\ UNCHANGED save_immediately
  /\ IF save_immediately
       THEN Len(jobs) < MaxTransfers /\ busy' = TRUE /\ jobs' = Append(jobs, NewJob)
       ELSE UNCHANGED <<busy, jobs>>

(* read_pipe_from_child. *)
ReadPipe(c) ==
  /\ phase \notin {"closing", "gone"}
  /\ pipe[c] \in {"message", "hup"}
  /\ pipe' = [pipe EXCEPT ![c] = "read"]
  /\ \/ /\ pipe[c] = "message"
        /\ modal' = Append(modal, [kind |-> "save_failed", of |-> c])
        /\ UNCHANGED <<busy, flags, jobs>>
     \/ /\ pipe[c] = "hup" /\ SaveDone /\ UNCHANGED modal
  /\ UNCHANGED <<phase, selection, shot, options, child, died, temp, dest>>

(* child_done_notification. *)
ChildDone(c) ==
  /\ phase \notin {"closing", "gone"} /\ child[c] = "killed"
  /\ child' = [child EXCEPT ![c] = "noticed"]
  /\ modal' = Append(modal, [kind |-> "child_died", of |-> c])
  /\ UNCHANGED <<phase, selection, busy, flags, jobs, shot, options, pipe, died, temp, dest>>

CleanUpTemporaryDir == dir' = FALSE /\ file' = NoFile

(* The user dismisses the latest message, and the program exits. *)
Dismiss ==
  /\ modal # <<>> /\ Last(modal).kind \in Messages
  /\ Exit
  /\ IF Last(modal).kind = "child_died" THEN CleanUpTemporaryDir ELSE UNCHANGED <<dir, file>>
  /\ UNCHANGED <<shot, options, children, tmp_usable, dest>>

(* The parent is killed or crashes. *)
Crash ==
  /\ phase # "gone" /\ Exit
  /\ UNCHANGED <<shot, options, children, temp, dest>>

-----------------------------------------------------------------------------
(* A child.                                                                *)

ChildUnchanged == UNCHANGED <<process, shot, options, tmp_usable, dest>>

(* cdk_pixbuf_save truncates the file, and two children write to one. *)
ChildOpens(c) ==
  /\ child[c] = "opening" /\ dir
  /\ child' = [child EXCEPT ![c] = "writing"]
  /\ file' = Bytes(IF \E d \in Shots : child[d] = "writing" THEN Mixed ELSE c, FALSE)
  /\ UNCHANGED <<dir, pipe, died>> /\ ChildUnchanged

ChildSaves(c) ==
  /\ child[c] = "writing"
  /\ child' = [child EXCEPT ![c] = "waiting"]
  /\ pipe' = [pipe EXCEPT ![c] = "hup"]
  /\ file' = IF file = Bytes(c, FALSE) THEN Bytes(c, TRUE) ELSE file
  /\ UNCHANGED <<dir, died>> /\ ChildUnchanged

(* The directory is not there, or the image cannot be written; then        *)
(* cdk_pixbuf_save removes the file.  The message is always sent, with or  *)
(* without the text the misplaced else adds; when the parent has gone the  *)
(* write fails, SIGPIPE being ignored, and the child goes on.              *)
ChildFails(c) ==
  /\ \/ child[c] = "opening" /\ UNCHANGED file
     \/ child[c] = "writing" /\ file' = NoFile
  /\ child' = [child EXCEPT ![c] = "waiting"]
  /\ pipe' = [pipe EXCEPT ![c] = "message"]
  /\ UNCHANGED <<dir, died>> /\ ChildUnchanged

(* Mutant: the child keeps its own end of the pipe it waits on open. *)
ParentIsGoneHeldOpen(c) == phase = "gone" /\ \A d \in Shots : d >= c => ~Alive(d)

(* The end of the parent_exit_notification of child c: the parent holds    *)
(* the other end, and so do the children forked after c.                   *)
ParentIsGone(c) == phase = "gone" /\ \A d \in Shots : d > c => ~Alive(d)

ChildEnds(c) ==
  /\ child[c] = "waiting" /\ ParentIsGone(c)
  /\ child' = [child EXCEPT ![c] = "done"]
  /\ CleanUpTemporaryDir
  /\ UNCHANGED <<pipe, died>> /\ ChildUnchanged

(* A child dies: signal_handler cleans up first, any other death does not. *)
ChildDies(c) ==
  /\ Alive(c)
  /\ Cardinality({d \in Shots : child[d] \in {"killed", "noticed"}}) < MaxDeaths
  /\ child' = [child EXCEPT ![c] = "killed"]
  /\ pipe' = IF pipe[c] = "open" THEN [pipe EXCEPT ![c] = "hup"] ELSE pipe
  /\ died' = died \cup {IF child[c] = "waiting" THEN "waiting" ELSE "saving"}
  /\ CleanUpTemporaryDir \/ UNCHANGED <<dir, file>>
  /\ ChildUnchanged

-----------------------------------------------------------------------------
(* A copy: transfer_file, in a thread that ends with the parent.           *)

JobUnchanged == UNCHANGED <<phase, selection, flags, shot, options, children, temp>>

Running(j) == phase # "gone" /\ j \in DOMAIN jobs

Finish(j, how) == jobs' = [jobs EXCEPT ![j].state = "finished", ![j].result = how]

(* The size of the source is read, and the copy begins. *)
JobStarts(j) ==
  /\ Running(j) /\ jobs[j].state = "queued"
  /\ IF file = NoFile THEN Finish(j, "error")
                      ELSE jobs' = [jobs EXCEPT ![j].state = "copying"]
  /\ UNCHANGED <<busy, modal, dest>> /\ JobUnchanged

(* g_file_copy opens both files; it makes a new one, or writes a copy that *)
(* will take the place of the one there.                                   *)
CopyOpens(j) ==
  /\ Running(j) /\ jobs[j].state = "copying"
  /\ file # NoFile /\ ~jobs[j].cancelled
  /\ dest = NoFile \/ jobs[j].overwrite
  /\ jobs' = [jobs EXCEPT ![j].state = "writing", ![j].from = file]
  /\ dest' = IF dest = NoFile THEN Bytes(file.shot, FALSE) ELSE dest
  /\ UNCHANGED <<busy, modal>> /\ JobUnchanged

(* G_IO_ERROR_EXISTS: the thread waits while the main loop asks the user. *)
CopyFindsFile(j) ==
  /\ Running(j) /\ jobs[j].state = "copying"
  /\ file # NoFile /\ ~jobs[j].cancelled
  /\ dest # NoFile /\ ~jobs[j].overwrite
  /\ jobs' = [jobs EXCEPT ![j].state = "asking"]
  /\ modal' = Append(modal, [kind |-> "confirm", of |-> j])
  /\ UNCHANGED <<busy, dest>> /\ JobUnchanged

(* The user answers the confirmation, the latest of the modal dialogs. *)
Answer ==
  /\ modal # <<>> /\ Last(modal).kind = "confirm"
  /\ modal' = Front(modal)
  /\ LET j == Last(modal).of
     IN  \/ jobs' = [jobs EXCEPT ![j].state = "copying", ![j].overwrite = TRUE,
                                 ![j].agreed = TRUE]
         \/ jobs' = [jobs EXCEPT ![j].state = "finished", ![j].result = "overwrite",
                                 ![j].cancelled = TRUE]
  /\ UNCHANGED <<busy, dest>> /\ JobUnchanged

(* The copy is the file that was opened, unless a child has written to it *)
(* since; a file that was only removed can still be read.                 *)
Copied(j) ==
  LET from == jobs[j].from
  IN  Bytes(IF file = NoFile \/ file.shot = from.shot THEN from.shot ELSE Mixed,
            from.whole /\ file \in {NoFile, from})

CopyEnds(j) ==
  /\ Running(j) /\ jobs[j].state = "writing" /\ ~jobs[j].cancelled
  /\ dest' = Copied(j)
  /\ Finish(j, "ok")
  /\ UNCHANGED <<busy, modal>> /\ JobUnchanged

(* The copy is cancelled, the source is gone, or either file fails; what   *)
(* has been written of a new file may stay.                                *)
CopyFails(j) ==
  /\ Running(j) /\ jobs[j].state \in {"copying", "writing"}
  /\ Finish(j, IF jobs[j].cancelled THEN "cancelled" ELSE "error")
  /\ dest' = dest \/ (jobs[j].state = "writing" /\ ~jobs[j].overwrite /\ dest' = NoFile)
  /\ UNCHANGED <<busy, modal>> /\ JobUnchanged

(* The Cancel of the progress dialog, which is shown a second after the    *)
(* start.                                                                  *)
CancelTransfer(j) ==
  /\ Running(j) /\ jobs[j].state \in {"copying", "writing"} /\ modal = <<>>
  /\ ~jobs[j].cancelled
  /\ jobs' = [jobs EXCEPT ![j].cancelled = TRUE]
  /\ UNCHANGED <<busy, modal, dest>> /\ JobUnchanged

(* transfer_job_done and save_callback.  Success closes the dialog and     *)
(* ends the program; after anything else the user may try again.           *)
TransferDone(j) ==
  /\ Running(j) /\ phase = "dialog" /\ jobs[j].state = "finished"
  /\ IF jobs[j].result = "ok"
       THEN Quit
       ELSE /\ jobs' = [jobs EXCEPT ![j] = [NewJob EXCEPT !.state = "done"]]
            /\ busy' = FALSE /\ UNCHANGED <<phase, selection, modal, flags>>
  /\ UNCHANGED <<shot, options, children, temp, dest>>

-----------------------------------------------------------------------------
Select == AreaPress \/ AreaMotion \/ AreaRelease \/ AreaEscape

User ==
  OptionsOk \/ OptionsCancel \/ Select \/ Save \/ New \/ Close \/ NameIsTaken \/ Dismiss \/ Answer

Child(c) == ChildOpens(c) \/ ChildSaves(c) \/ ChildFails(c) \/ ChildEnds(c)

Copy(j) == JobStarts(j) \/ CopyOpens(j) \/ CopyFindsFile(j) \/ CopyEnds(j) \/ CopyFails(j)

Next ==
  \/ User \/ Prepare \/ RectangleFound \/ FinishPrepareScreenshot \/ Crash
  \/ \E c \in Shots : ReadPipe(c) \/ ChildDone(c) \/ Child(c) \/ ChildDies(c)
  \/ \E j \in 1..MaxTransfers :
       Copy(j) \/ CancelTransfer(j) \/ TransferDone(j)

(* The main loop dispatches what is ready, children and threads run.       *)
(* Nothing is assumed of the user.                                         *)
Fairness ==
  /\ \A c \in Shots : WF_vars(ReadPipe(c)) /\ WF_vars(ChildDone(c)) /\ WF_vars(Child(c))
  /\ \A j \in 1..MaxTransfers : WF_vars(Copy(j)) /\ WF_vars(TransferDone(j))

Spec == Init /\ [][Next]_vars /\ Fairness

-----------------------------------------------------------------------------
(* The picture shows what was asked for: of an area, every pixel between   *)
(* the corners, whichever way the mouse was dragged; of the screen, what   *)
(* the monitors show; of a window, nothing that is not of its shape, and   *)
(* all of that is on the screen, wherever the window hangs over an edge.   *)
(* (A shaped window that hangs over the left or the upper edge loses more  *)
(* than what is off the screen.)                                           *)
ShotShowsWhatWasAsked ==
  phase = "check" =>
    IF take_area_shot THEN
      Picture(Root, FALSE) =
        {p \in Pixels(Screen) : \A i \in 1..2 : Between(p[i], selection.from[i], selection.to[i])}
    ELSE IF ~take_window_shot THEN
      Picture(Root, FALSE) = UNION {Pixels(m) : m \in Monitors}
    ELSE \A window \in Windows, include_border \in BOOLEAN :
      LET wanted  == WindowPixels(window, include_border)
          picture == Picture(window, include_border)
      IN  HasPicture(window, selection.rect) =>
            /\ picture \subseteq wanted
            /\ ~include_border \/ (window.x >= 0 /\ window.y >= 0) => picture = wanted

(* A save that succeeded left the whole of the first shot at the place the *)
(* user chose, however the answers of the user, the end of the child's     *)
(* work and the copy fell, unless the child died while it was writing.     *)
(* (After "Take new screenshot" this does not hold: temporary_file still   *)
(* says that a file was saved, and it is the one of the first shot.)       *)
SavedIsWhole ==
  \A j \in DOMAIN jobs :
     jobs[j].result = "ok" /\ shot = 1 /\ "saving" \notin died => dest = Bytes(1, TRUE)

(* When the parent is gone, by whatever way, the temporary directory goes  *)
(* too, as long as one of the children lived to see it: the strategy       *)
(* described above clean_up_temporary_dir.                                 *)
TempDirGoes ==
  phase = "gone" ~> ~dir \/ \A c \in Shots : child[c] \in {"none", "killed", "noticed"}

(* The dialog does not stay insensitive: the save ends, or the user is     *)
(* asked or told something, or the program is over.  It needs a temporary  *)
(* directory: without one screenshot_save_start returns in silence.        *)
BusyEnds == busy /\ tmp_usable ~> ~busy \/ modal # <<>> \/ phase = "gone"

=============================================================================
