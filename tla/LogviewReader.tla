--------------------------- MODULE LogviewReader ---------------------------
(***************************************************************************)
(* The log viewer: the logs that are opened, their file monitors, the      *)
(* worker threads that read new lines from them, and the window that shows *)
(* the active one.                                                         *)
(*                                                                         *)
(* A read is pushed to a thread, takes lines from the log's stream until   *)
(* its end, and sends its result to the main loop, where a callback shows  *)
(* it.  The thread and the main loop share the log object and no lock, so  *)
(* the steps of a thread are taken one line at a time: whatever the main   *)
(* loop does may fall between them.  When two threads use the array of     *)
(* lines of one log at the same time what the program does is undefined,   *)
(* and the behaviours of the model end there.  Line n of a file is the     *)
(* number n, and 0 is the NULL that ends the array.                        *)
(***************************************************************************)
EXTENDS Naturals, Sequences, FiniteSets, SequencesExt

CONSTANTS
  Logs,          (* the logs that are opened                               *)
  None,          (* no log                                                 *)
  MaxLines,      (* bound: lines written to all files together             *)
  MaxReads,      (* bound: reads that wait or run at once                  *)
  Dates          (* the date of each line a log may get, 0 if it has none  *)

ASSUME LogsAssumption   == None \notin Logs
ASSUME BoundsAssumption == MaxLines \in Nat /\ MaxReads \in Nat

(* A log is written forward, within a year, and a line without a date is   *)
(* not between two of one date: log_read_dates would begin a day of the    *)
(* next year there.                                                        *)
ASSUME DatesAssumption  ==
  /\ Dates \in [Logs -> Seq(Nat)]
  /\ \A l \in Logs : \A i, j \in DOMAIN Dates[l] :
       i <= j /\ Dates[l][i] # 0 /\ Dates[l][j] # 0 =>
         /\ Dates[l][i] <= Dates[l][j]
         /\ Dates[l][i] = Dates[l][j] => \A k \in i..j : Dates[l][k] = Dates[l][i]

VARIABLES
  file,          (* lines written to each file                             *)
  monitor,       (* none: not loaded; due: the callback of its load runs;  *)
                 (* on, off: the monitor was made, or could not be         *)
  told,          (* 1: its monitor has a change event to dispatch          *)
  taken,         (* lines taken from its stream                            *)
  cached,        (* the logs whose array of lines exists                   *)
  lines,         (* that array                                             *)
  lines_no,      (* how many of its lines reads have returned              *)
  has_new_lines, (* 1: the monitor reported a change no read has seen      *)
  days,          (* the cached days                                        *)
  reads,         (* the reads in threads, the latest pushed last           *)
  idle,          (* the results the main loop has to dispatch              *)
  active,        (* the log the manager says is active                     *)
  shown,         (* the text view: pairs of log and line                   *)
  monitor_id,    (* the log the window's handler id belongs to             *)
  handlers,      (* how often the window is connected to each log          *)
  given,         (* history: the lines the reads of each log returned      *)
  missed,        (* history, 1: the last line of a loaded log was written  *)
                 (* when it had no monitor, and no read has come to it     *)
  raced,         (* 1: two threads used one array at the same time         *)
  calm           (* history: 1 until someone acts on a log while it is     *)
                 (* read, or a read fails                                  *)

disk    == <<file, told, missed>>
array   == <<cached, lines>>
cache   == <<lines_no, has_new_lines, days>>
window  == <<active, shown, monitor_id, handlers>>
history == <<given, raced, calm>>
vars == <<disk, monitor, taken, array, cache, reads, idle, window, history>>

-----------------------------------------------------------------------------
(* The data of a log.                                                      *)

At(l, ls, d)    == {i \in DOMAIN ls : Dates[l][ls[i]] = d}
After(l, ls, d) == {i \in DOMAIN ls : Dates[l][ls[i]] > d} \cup {Len(ls) + 1}

(* log_read_dates: one record for each date, with offsets into the lines   *)
(* given.  A day ends before the next one begins; lines without a date     *)
(* belong to the day they follow, and without a date there are no days.    *)
LogReadDates(l, ls) ==
  {[date |-> d, first_line |-> Min(At(l, ls, d)) - 1, last_line |-> Min(After(l, ls, d)) - 2] :
     d \in {Dates[l][ls[i]] : i \in DOMAIN ls} \ {0}}

LastDay(ds) == CHOOSE d \in ds : \A e \in ds : e.date <= d.date

Shift(day, n) ==
  [date |-> day.date, first_line |-> day.first_line + n, last_line |-> day.last_line + n]

(* Mutant: the offsets of the new days stay relative to the new lines. *)
AddNewDaysUnshifted(old, new, lines_offset) ==
  old \cup {d \in new : old = {} \/ d.date > LastDay(old).date}

(* add_new_days_to_cache.  If there are none yet, the days are copied as   *)
(* they are, whether or not lines were read before; a day that goes on has *)
(* its last line advanced by the offset of its last line in the new ones.  *)
AddNewDays(old, new, lines_offset) ==
  IF old = {} THEN new
  ELSE LET last == LastDay(old)
           more == {d.last_line : d \in {e \in new : e.date = last.date}}
       IN  (old \ {last})
             \cup {[last EXCEPT !.last_line = @ + (IF more = {} THEN 0 ELSE Max(more))]}
             \cup {Shift(d, lines_offset) : d \in {e \in new : e.date > last.date}}

(* The strings from position from on, up to the NULL. *)
From(ls, from) ==
  [i \in {j \in 1..Len(ls) - from : \A k \in 1..j : ls[from + k] # 0} |-> ls[from + i]]

Outstanding(l) ==
  (\E i \in DOMAIN reads : reads[i].log = l) \/ (\E i \in DOMAIN idle : idle[i].log = l)

(* A thread is between taking the NULL off the array and putting it back.  *)
Unterminated(l) ==
  \E i \in DOMAIN reads : reads[i].log = l /\ reads[i].at # "pushed"

Use(l) == raced' = IF Unterminated(l) THEN 1 ELSE raced
Unless(hurry) == calm' = IF hurry THEN 0 ELSE calm

-----------------------------------------------------------------------------
Init ==
  /\ file = [l \in Logs |-> 0] /\ told = [l \in Logs |-> 0]
  /\ missed = [l \in Logs |-> 0] /\ monitor = [l \in Logs |-> "none"]
  /\ taken = [l \in Logs |-> 0]
  /\ cached = {} /\ lines = [l \in Logs |-> <<>>]
  /\ lines_no = [l \in Logs |-> 0]
  /\ has_new_lines = [l \in Logs |-> 0]
  /\ days = [l \in Logs |-> {}]
  /\ reads = <<>> /\ idle = <<>>
  /\ active = None /\ shown = <<>>
  /\ monitor_id = None /\ handlers = [l \in Logs |-> 0]
  /\ given = [l \in Logs |-> <<>>] /\ raced = 0 /\ calm = 1

-----------------------------------------------------------------------------
(* The window.                                                             *)

NewRead(l) == [log |-> l, at |-> "pushed", cancelled |-> 0]

(* read_cancellable belongs to the read pushed last; if that one has       *)
(* ended, the reads before it were cancelled when it was pushed.           *)
Cancel(rs) == IF rs = <<>> THEN rs ELSE [rs EXCEPT ![Len(rs)].cancelled = 1]

(* logview_window_schedule_log_read. *)
ScheduleLogRead(l) == Append(Cancel(reads), NewRead(l))

(* The window's handlers of "log-changed" push one read each, and each     *)
(* cancels the one before.                                                 *)
LogChanged(l) ==
  IF handlers[l] = 0 THEN reads
  ELSE Append(Cancel(reads) \o [k \in 1..(handlers[l] - 1) |->
                                   [NewRead(l) EXCEPT !.cancelled = 1]],
              NewRead(l))

Pending(rs) == Len(rs) + Len(idle)

(* Mutant: the handler stays connected to the log that was active. *)
DisconnectedNot == handlers

(* The handler goes from the log that was active; if it was connected to   *)
(* another one GLib warns and leaves it there.                             *)
Disconnected ==
  IF monitor_id # None /\ monitor_id = active
  THEN [handlers EXCEPT ![active] = @ - 1]
  ELSE handlers

(* Mutant: a log with cached lines is never read again. *)
MustReadOnce(l) == l \notin cached

MustRead(l) == l \notin cached \/ has_new_lines[l] = 1

(* logview_manager_set_active_log and active_log_changed_cb: show what is  *)
(* cached, then read, or start listening at once.                          *)
SetActiveLog(l) ==
  /\ raced = 0
  /\ active' = l
  /\ shown' = LET ls == From(lines[l], 0) IN [i \in DOMAIN ls |-> <<l, ls[i]>>]
  /\ IF MustRead(l)
     THEN /\ Pending(reads) < MaxReads
          /\ reads' = ScheduleLogRead(l)
          /\ handlers' = Disconnected /\ monitor_id' = None
     ELSE /\ handlers' = [Disconnected EXCEPT ![l] = @ + 1]
          /\ monitor_id' = l
          /\ UNCHANGED reads
  /\ Use(l)
  /\ Unless(reads # <<>> \/ idle # <<>>)
  /\ UNCHANGED <<disk, taken, array, cache, idle, given>>

(* The main loop is not in the callback of a load. *)
MainLoopFree == raced = 0 /\ \A l \in Logs : monitor[l] # "due"

(* The user selects a log in the list, or opens it again. *)
Select ==
  /\ MainLoopFree
  /\ \E l \in Logs : monitor[l] # "none" /\ SetActiveLog(l)
  /\ UNCHANGED monitor

(* log_load_done calls create_log_cb, which lists the log and may make it  *)
(* the active one.  Its first read is pushed before it has a monitor.      *)
LoadDone(l) ==
  /\ MainLoopFree
  /\ monitor[l] = "none"
  /\ monitor' = [monitor EXCEPT ![l] = "due"]
  /\ \/ SetActiveLog(l)
     \/ UNCHANGED <<disk, taken, array, cache, reads, idle, window, history>>

(* setup_file_monitor, which may fail. *)
SetupFileMonitor(l) ==
  /\ raced = 0
  /\ monitor[l] = "due"
  /\ \E on \in {"on", "off"} : monitor' = [monitor EXCEPT ![l] = on]
  /\ UNCHANGED <<disk, taken, array, cache, reads, idle, window, history>>

Flagged(l) == [has_new_lines EXCEPT ![l] = 1]

(* monitor_changed_cb and log_monitor_changed_cb. *)
MonitorChanged(l) ==
  /\ MainLoopFree
  /\ told[l] = 1
  /\ Pending(LogChanged(l)) <= MaxReads
  /\ told' = [told EXCEPT ![l] = 0]
  /\ has_new_lines' = Flagged(l)
  /\ reads' = LogChanged(l)
  /\ Unless(Outstanding(l))
  /\ UNCHANGED <<file, missed, monitor, taken, array, lines_no, days, idle, window, given,
                 raced>>

(* The result points into the array, which may have been moved if it has   *)
(* grown since.                                                            *)
MayBeMoved(r) == Len(lines[r.log]) > r.len

(* new_lines_job_done and read_new_lines_cb, which never asks whether the  *)
(* result is of the active log.                                            *)
ReadNewLines ==
  /\ MainLoopFree
  /\ idle # <<>>
  /\ idle' = Tail(idle)
  /\ LET r  == Head(idle)
         ls == From(lines[r.log], r.from)
     IN  IF r.err = 1
         THEN UNCHANGED <<shown, monitor_id, handlers, raced>>
         ELSE /\ shown' = shown \o [i \in DOMAIN ls |-> <<r.log, ls[i]>>]
              /\ IF monitor_id = None
                 THEN /\ monitor_id' = r.log
                      /\ handlers' = [handlers EXCEPT ![r.log] = @ + 1]
                 ELSE UNCHANGED <<monitor_id, handlers>>
              /\ Use(r.log) \/ (MayBeMoved(r) /\ raced' = 1)
  /\ UNCHANGED <<disk, monitor, taken, array, cache, reads, active, given, calm>>

-----------------------------------------------------------------------------
(* The threads: do_read_new_lines.                                         *)

IsRead(i, at) == raced = 0 /\ i \in DOMAIN reads /\ reads[i].at = at
Moves(i, at) == reads' = [reads EXCEPT ![i].at = at]

(* The NULL is taken off. *)
StartRead(i) ==
  /\ IsRead(i, "pushed")
  /\ LET l == reads[i].log
     IN  /\ cached' = cached \cup {l}
         /\ lines' = [lines EXCEPT ![l] = IF @ = <<>> THEN @ ELSE Front(@)]
         /\ Use(l)
  /\ Moves(i, "reading")
  /\ UNCHANGED <<disk, monitor, taken, cache, idle, window, given, calm>>

ReadLine(i) ==
  /\ IsRead(i, "reading")
  /\ LET l == reads[i].log
     IN  /\ taken[l] < file[l]
         /\ taken' = [taken EXCEPT ![l] = @ + 1]
         /\ lines' = [lines EXCEPT ![l] = Append(@, taken[l] + 1)]
  /\ UNCHANGED <<disk, monitor, cached, cache, reads, idle, window, history>>

(* A cancelled read cannot find out that it is at the end: the fill of the *)
(* buffer that would tell fails instead.                                   *)
ReachEnd(i) ==
  /\ IsRead(i, "reading")
  /\ reads[i].cancelled = 0
  /\ taken[reads[i].log] = file[reads[i].log]
  /\ missed' = [missed EXCEPT ![reads[i].log] = 0]
  /\ Moves(i, "end")
  /\ UNCHANGED <<file, told, monitor, taken, array, cache, idle, window, history>>

SendToMainloop(i, err) ==
  /\ reads' = RemoveAt(reads, i)
  /\ idle' = Append(idle, [log |-> reads[i].log, err |-> err,
                           from |-> lines_no[reads[i].log],
                           len |-> Len(lines'[reads[i].log])])

(* Mutant: the lines of a failed read are counted as returned. *)
CountedAlways(l) == [lines_no EXCEPT ![l] = Len(lines[l])]

CountedOnError(l) == lines_no

(* Cancelled, or an error of the file system: what was read stays in the   *)
(* array and is not counted.                                               *)
FailRead(i) ==
  /\ IsRead(i, "reading")
  /\ LET l == reads[i].log
     IN  /\ lines' = [lines EXCEPT ![l] = Append(@, 0)]
         /\ lines_no' = CountedOnError(l)
  /\ SendToMainloop(i, 1)
  /\ Unless(reads[i].cancelled = 0)
  /\ UNCHANGED <<disk, monitor, taken, cached, has_new_lines, days, window, given, raced>>

EndRead(i) ==
  /\ IsRead(i, "end")
  /\ LET l   == reads[i].log
         new == From(Append(lines[l], 0), lines_no[l])
     IN  /\ lines' = [lines EXCEPT ![l] = Append(@, 0)]
         /\ has_new_lines' = [has_new_lines EXCEPT ![l] = 0]
         /\ days' = [days EXCEPT ![l] = AddNewDays(@, LogReadDates(l, new), lines_no[l])]
         /\ lines_no' = [lines_no EXCEPT ![l] = Len(lines[l])]
         /\ given' = [given EXCEPT ![l] = @ \o new]
  /\ SendToMainloop(i, 0)
  /\ UNCHANGED <<disk, monitor, taken, cached, window, raced, calm>>

Thread(i) ==
  StartRead(i) \/ ReadLine(i) \/ ReachEnd(i) \/ FailRead(i) \/ EndRead(i)

-----------------------------------------------------------------------------
Written == FoldFunction(+, 0, file)

(* Another program writes to the log.  Only a monitor can tell. *)
Write(l) ==
  /\ raced = 0
  /\ Written < MaxLines /\ file[l] < Len(Dates[l])
  /\ file' = [file EXCEPT ![l] = @ + 1]
  /\ told' = [told EXCEPT ![l] = IF monitor[l] = "on" THEN 1 ELSE @]
  /\ missed' = [missed EXCEPT ![l] = IF monitor[l] \in {"due", "off"} THEN 1 ELSE 0]
  /\ UNCHANGED <<monitor, taken, array, cache, reads, idle, window, history>>

(* Where the program is undefined the behaviours end. *)
Undefined == raced = 1 /\ UNCHANGED vars

Next ==
  \/ Select
  \/ \E l \in Logs : LoadDone(l) \/ SetupFileMonitor(l) \/ MonitorChanged(l) \/ Write(l)
  \/ ReadNewLines
  \/ \E i \in DOMAIN reads : Thread(i)
  \/ Undefined

(* The main loop dispatches what is ready, threads run, and a cancelled    *)
(* read notices; nothing is assumed of the user, of the programs that      *)
(* write, or of the errors of the file system.                             *)
Fairness ==
  /\ WF_vars(ReadNewLines)
  /\ \A l \in Logs : WF_vars(SetupFileMonitor(l)) /\ WF_vars(MonitorChanged(l))
  /\ \A i \in 1..MaxReads :
       WF_vars(\/ StartRead(i) \/ ReadLine(i) \/ ReachEnd(i) \/ EndRead(i)
               \/ FailRead(i) /\ reads[i].cancelled = 1)

Spec == Init /\ [][Next]_vars /\ Fairness

-----------------------------------------------------------------------------
Upto(n) == [i \in 1..n |-> i]

(* The reads of one log return its lines in order, each once, although any *)
(* of them may fail or be cancelled half way, as long as no two of them    *)
(* run at once.                                                            *)
NoLineLost ==
  raced = 0 =>
    \A l \in Logs : given[l] = Upto(lines_no[l]) /\ From(lines[l], 0) = Upto(taken[l])

BeginsWithDate(l) == Dates[l] = <<>> \/ Dates[l][1] # 0

(* A cached day begins at a line of its date and none of its lines has     *)
(* another one, so selecting a day never shows a line of another day, and  *)
(* no day is listed twice, in a log whose first line has a date.           *)
DaysPointAtTheirLines ==
  \A l \in Logs : BeginsWithDate(l) =>
    \A d \in days[l] :
      /\ d.first_line..d.last_line \subseteq {n - 1 : n \in 1..lines_no[l]}
      /\ d.first_line <= d.last_line /\ Dates[l][given[l][d.first_line + 1]] = d.date
      /\ \A n \in d.first_line..d.last_line : Dates[l][given[l][n + 1]] \in {0, d.date}
      /\ \A e \in days[l] : e.date = d.date => e = d

(* When nothing is being read the view holds the cached lines of the       *)
(* active log, each once, and it is the only log the window listens to, as *)
(* long as nobody acted on a log while it was read.                        *)
ViewIsCache ==
  calm = 1 /\ reads = <<>> /\ idle = <<>> /\ active # None =>
    /\ shown = [i \in 1..lines_no[active] |-> <<active, i>>]
    /\ handlers = [l \in Logs |-> IF l = active THEN 1 ELSE 0]

(* "Any change appears automatically in the main window", unless the log   *)
(* had no monitor when it was written.                                     *)
FollowsLog ==
  \A l \in Logs :
    active = l /\ missed[l] = 0 /\ Len(shown) < file[l]
      ~> calm = 0 \/ raced = 1 \/ active # l \/ missed[l] = 1 \/ Len(shown) = file[l]

=============================================================================
