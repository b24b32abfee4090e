-------------------------- MODULE GSearchToolProofs --------------------------
(***************************************************************************)
(* Proofs about the two parts of cafe-search-tool that talk to a partner   *)
(* of their own: the search process and the session client.  Neither part  *)
(* is used in the proofs about the other.                                  *)
(*                                                                         *)
(* 1. The search tool never has two child processes, and no row twice, for *)
(* any number of searches, lines and files, and whatever fails: however    *)
(* the handlers and the main loops they run follow one another.            *)
(*                                                                         *)
(* 2. Neither end of the conversation between the session client and the   *)
(* session manager receives a message it does not expect, and the next     *)
(* session searches for what was saved, for any number of saves, sessions  *)
(* and acts of the user, whoever listens.                                  *)
(*                                                                         *)
(* ConversationHolds says nothing about what is on its way, so it is not   *)
(* inductive.  The strengthening describes a round: a SaveYourself, what   *)
(* the client answers, and what ends it.  For each state of the manager it *)
(* says which messages may be on their way to the client, which answers    *)
(* may be on their way back, and in which state the client is then.        *)
(* The theorem about the next session also needs what the RestartCommand   *)
(* properties that are on their way leave the manager with; its part is at *)
(* the end.                                                                *)
(***************************************************************************)
EXTENDS GSearchCommand, SessionClient, FiniteSetTheorems, SequenceTheorems, TLAPS

-----------------------------------------------------------------------------
(* The search process.                                                     *)

Reads(f)      == f.call \in {"out_line", "out_again"}
NoCheck(st)   == \A i \in 1..Len(st) : st[i].call # "check"
NoReader(st)  == \A i \in 1..Len(st) : ~Reads(st[i])
OneReader(st) == \A i, j \in 1..Len(st) : Reads(st[i]) /\ Reads(st[j]) => i = j

Unchecked == locate \in {"unchecked", "checking"}
Rest      == {"STOPPED", "ABORTED"}

(* What makes OneChild inductive.  A child that lives is the one the       *)
(* command_pid names, and none lives when the status lets a new search     *)
(* begin or says that this one was stopped.                                *)
LastOnly    == children \subseteq {spawned}
AloneAtRest == status \in Rest \cup {"MAKE_IT_STOP"} => children = {}

(* A search that is at rest is not read from: the stdout handler waits in  *)
(* one nested loop at most, and only while its watch is attached, so it    *)
(* cannot come back to an end of the stream it has seen already and start  *)
(* a second pass of a search that is over.                                 *)
ReadWhileWatched == OneReader(stack) /\ (NoReader(stack) \/ out = 1)
WatchedIsRunning == out \in {0, 1} /\ (out = 1 => status \notin Rest)

(* Until the data base is checked, which happens once, nothing has been    *)
(* started and nothing but the check waits.                                *)
BeforeCheck   == locate = "unchecked" => stack = <<>>
DuringCheck   == locate = "checking" => stack = <<Waits("check", 0)>> /\ buttons = "stop"
NothingBefore == Unchecked => status = "STOPPED" /\ out = 0 /\ errs = {}
CheckedOnce   == ~Unchecked => NoCheck(stack)

Typed == stack \in Seq(Frames) /\ spawned \in Nat /\ errs \subseteq Nat

Inv ==
  /\ Typed
  /\ LastOnly /\ AloneAtRest
  /\ ReadWhileWatched /\ WatchedIsRunning
  /\ BeforeCheck /\ DuringCheck /\ NothingBefore /\ CheckedOnce

-----------------------------------------------------------------------------
(* Stacks of waiting calls.                                                *)

Safe(st) == st \in Seq(Frames) /\ NoCheck(st) /\ OneReader(st)

LEMMA Pushed ==
  ASSUME NEW st \in Seq(Frames), NEW c \in Calls, NEW n \in Nat
  PROVE  LET more == Append(st, Waits(c, n))
         IN  /\ more \in Seq(Frames)
             /\ \A i \in 1..Len(more) : \/ i \in 1..Len(st) /\ more[i] = st[i]
                                        \/ i = Len(st) + 1 /\ more[i].call = c
<1> DEFINE more == Append(st, Waits(c, n))
<1>1. Waits(c, n) \in Frames /\ Waits(c, n).call = c
  BY DEF Waits, Frames
<1>2. more \in Seq(Frames) /\ Len(more) = Len(st) + 1 /\ more[Len(st) + 1] = Waits(c, n)
  BY <1>1
<1>3. \A i \in 1..Len(st) : more[i] = st[i]
  BY <1>1
<1>4. Len(st) \in Nat
  OBVIOUS
<1> HIDE DEF more
<1>5. \A i \in 1..Len(more) : \/ i \in 1..Len(st) /\ more[i] = st[i]
                              \/ i = Len(st) + 1 /\ more[i].call = c
  BY <1>1, <1>2, <1>3, <1>4
<1> QED
  BY <1>2, <1>5 DEF more

(* The dialog and the stderr handler are neither a check nor a reader of   *)
(* stdout.                                                                 *)
LEMMA PushOther ==
  ASSUME NEW st, Safe(st), NEW c \in {"dialog", "err"}, NEW n \in Nat
  PROVE  LET more == Append(st, Waits(c, n))
         IN  Safe(more) /\ (NoReader(st) => NoReader(more))
<1> DEFINE more == Append(st, Waits(c, n))
<1>1. /\ more \in Seq(Frames)
      /\ \A i \in 1..Len(more) : \/ i \in 1..Len(st) /\ more[i] = st[i]
                                 \/ i = Len(st) + 1 /\ more[i].call = c
  BY Pushed DEF Safe, Calls
<1> HIDE DEF more
<1>2. NoCheck(more)
  BY <1>1 DEF Safe, NoCheck
<1>3. \A i \in 1..Len(more) : Reads(more[i]) => i \in 1..Len(st) /\ Reads(st[i])
  BY <1>1 DEF Reads
<1> QED
  BY <1>1, <1>2, <1>3 DEF Safe, OneReader, NoReader, more

(* The stdout handler waits, and no other call of it does.                 *)
LEMMA PushReader ==
  ASSUME NEW st, Safe(st), NoReader(st), NEW c \in {"out_line", "out_again"}
  PROVE  Safe(Append(st, Waits(c, 0)))
<1> DEFINE more == Append(st, Waits(c, 0))
<1>1. /\ more \in Seq(Frames)
      /\ \A i \in 1..Len(more) : \/ i \in 1..Len(st) /\ more[i] = st[i]
                                 \/ i = Len(st) + 1 /\ more[i].call = c
  BY Pushed DEF Safe, Calls
<1> HIDE DEF more
<1>2. NoCheck(more)
  BY <1>1 DEF Safe, NoCheck
<1>3. \A i \in 1..Len(more) : Reads(more[i]) => i = Len(st) + 1
  BY <1>1 DEF NoReader
<1> QED
  BY <1>1, <1>2, <1>3 DEF Safe, OneReader, more

LEMMA UnderIs ==
  ASSUME stack \in Seq(Frames), stack # <<>>
  PROVE  /\ Len(stack) \in Nat \ {0} /\ Top \in Frames
         /\ Under \in Seq(Frames)
         /\ \A i \in 1..Len(Under) : Under[i] = stack[i] /\ i \in 1..Len(stack) /\ i # Len(stack)
<1>1. Len(stack) \in Nat \ {0} /\ Top \in Frames
  BY DEF Top
<1>2. /\ Under \in Seq(Frames)
      /\ Len(Under) = Len(stack) - 1
      /\ \A i \in 1..(Len(stack) - 1) : Under[i] = stack[i]
  <2> DEFINE n == Len(stack) - 1
  <2>1. n \in Nat /\ \A i \in 1..n : stack[i] \in Frames
    BY <1>1
  <2>2. /\ SubSeq(stack, 1, n) \in Seq(Frames)
        /\ Len(SubSeq(stack, 1, n)) = IF 1 <= n THEN n - 1 + 1 ELSE 0
        /\ \A i \in 1..(n - 1 + 1) : SubSeq(stack, 1, n)[i] = stack[1 + i - 1]
    <3> HIDE DEF n
    <3> QED
      BY <2>1, SubSeqProperties
  <2>3. Under = SubSeq(stack, 1, n)
    BY DEF Under
  <2>4. Len(Under) = n /\ \A i \in 1..n : Under[i] = stack[i]
    <3> HIDE DEF n
    <3> QED
      BY <2>1, <2>2, <2>3
  <2> QED
    BY <2>2, <2>3, <2>4
<1>3. \A i \in 1..Len(Under) : Under[i] = stack[i] /\ i \in 1..Len(stack) /\ i # Len(stack)
  BY <1>1, <1>2
<1> QED
  BY <1>1, <1>2, <1>3

LEMMA Popped ==
  ASSUME Safe(stack), stack # <<>>
  PROVE  /\ Safe(Under) /\ Top \in Frames
         /\ NoReader(stack) => NoReader(Under)
         /\ Reads(Top) => NoReader(Under)
<1>1. Len(stack) \in Nat \ {0} /\ Top \in Frames /\ Under \in Seq(Frames)
  BY UnderIs DEF Safe
<1>2. \A i \in 1..Len(Under) : Under[i] = stack[i] /\ i \in 1..Len(stack) /\ i # Len(stack)
  BY UnderIs DEF Safe
<1>4. NoCheck(Under) /\ OneReader(Under)
  BY <1>2 DEF Safe, NoCheck, OneReader
<1>5. NoReader(stack) => NoReader(Under)
  BY <1>2 DEF NoReader
<1>6. Reads(Top) => NoReader(Under)
  BY <1>1, <1>2 DEF Safe, OneReader, NoReader, Top
<1> QED
  BY <1>1, <1>4, <1>5, <1>6 DEF Safe

(* When a call other than the check waits, the check is over.              *)
LEMMA OtherTop ==
  ASSUME Inv, NEW c \in Calls \ {"check"}, TopIs(c)
  PROVE  ~Unchecked /\ Safe(stack) /\ stack # <<>>
<1>1. stack # <<>> /\ Top.call # "check"
  BY DEF TopIs
<1>2. locate # "unchecked"
  BY <1>1 DEF Inv, BeforeCheck
<1>3. locate # "checking"
  <2> SUFFICES ASSUME locate = "checking" PROVE FALSE
    OBVIOUS
  <2>1. stack = <<Waits("check", 0)>>
    BY DEF Inv, DuringCheck
  <2>2. Top = Waits("check", 0)
    BY <2>1 DEF Top
  <2> QED
    BY <2>2, <1>1 DEF Waits
<1> QED
  BY <1>1, <1>2, <1>3 DEF Unchecked, Inv, Typed, CheckedOnce, ReadWhileWatched, Safe

LEMMA ReaderOnTop ==
  ASSUME Inv, TopIs("out_line") \/ TopIs("out_again")
  PROVE  ~Unchecked /\ Safe(Under) /\ NoReader(Under) /\ out = 1 /\ status \notin Rest
<1>1. ~Unchecked /\ Safe(stack) /\ stack # <<>> /\ Reads(Top)
  BY OtherTop DEF Calls, TopIs, Reads
<1>2. Safe(Under) /\ NoReader(Under)
  BY <1>1, Popped
<1>3. Len(stack) \in 1..Len(stack)
  BY <1>1 DEF Safe
<1>4. ~NoReader(stack)
  BY <1>1, <1>3 DEF NoReader, Top
<1> QED
  BY <1>1, <1>2, <1>4 DEF Inv, ReadWhileWatched, WatchedIsRunning

(* Once the data base is checked, this is what remains to be shown of a    *)
(* step.                                                                   *)
LEMMA Afterwards ==
  ASSUME ~Unchecked', Safe(stack)', spawned' \in Nat, errs' \subseteq Nat,
         LastOnly', AloneAtRest', NoReader(stack)' \/ out' = 1, WatchedIsRunning'
  PROVE  Inv'
BY DEF Inv, Typed, Unchecked, Safe, ReadWhileWatched, BeforeCheck, DuringCheck,
       NothingBefore, CheckedOnce

-----------------------------------------------------------------------------
(* The parts the handlers are made of.                                     *)

LEMMA StartedOne ==
  ASSUME Started, children = {}, Typed
  PROVE  spawned' \in Nat /\ errs' \subseteq Nat /\ LastOnly' /\ out' = 1
BY DEF Started, LastOnly, Typed

(* click_find_cb is only entered at rest, and so is what it leaves when a  *)
(* command cannot be made or started.                                      *)
LEMMA FirstPassKeeps ==
  ASSUME Inv, NEW st, Safe(st), NoReader(st) \/ out = 1,
         FirstPass(st), status \in Rest, ~Unchecked'
  PROVE  Inv'
<1>1. children = {}
  BY DEF Inv, AloneAtRest
<1>2. CASE UNCHANGED <<status, passes, string, sources, process, results>> /\ stack' = st
  <2>1. UNCHANGED <<status, out, errs, children, spawned>>
    BY <1>2 DEF sources, process
  <2> QED
    BY <1>2, <2>1, <1>1, Afterwards
       DEF Inv, Typed, LastOnly, AloneAtRest, Safe, NoReader, NoCheck, OneReader, WatchedIsRunning
<1>3. CASE Started /\ status' = "RUNNING" /\ stack' = st
  <2>1. spawned' \in Nat /\ errs' \subseteq Nat /\ LastOnly' /\ out' = 1
    BY <1>3, <1>1, StartedOne DEF Inv
  <2>2. Safe(stack)' /\ AloneAtRest' /\ WatchedIsRunning'
    BY <1>3, <2>1 DEF Safe, NoCheck, OneReader, AloneAtRest, WatchedIsRunning, Rest
  <2> QED
    BY <2>1, <2>2, Afterwards
<1>4. CASE NotStarted(st) /\ UNCHANGED <<status, sources, process, results>>
  <2>1. UNCHANGED <<status, out, errs, children, spawned>>
    BY <1>4 DEF sources, process
  <2>2. Safe(stack)' /\ (NoReader(stack)' \/ out' = 1)
    BY <1>4, <2>1, PushOther DEF NotStarted, Safe, NoCheck, OneReader, NoReader
  <2> QED
    BY <2>1, <2>2, <1>1, Afterwards DEF Inv, Typed, LastOnly, AloneAtRest, WatchedIsRunning
<1> QED
  BY <1>2, <1>3, <1>4 DEF FirstPass

(* A line read changes neither the children nor the status.                *)
LEMMA ReadLineKeeps ==
  ASSUME Inv, ~Unchecked, locate' = locate, NEW st, Safe(st), NoReader(st), out = 1,
         ReadLine(st)
  PROVE  Inv'
<1>1. Safe(Append(st, Waits("out_line", 0))) /\ Safe(Append(st, Waits("out_again", 0)))
  BY PushReader
<1>2. Safe(stack)'
  BY <1>1 DEF ReadLine, Safe, NoCheck, OneReader
<1>3. UNCHANGED <<status, children, spawned, errs, out>>
  BY DEF ReadLine, sources
<1> QED
  BY <1>2, <1>3, Afterwards DEF Inv, Typed, Unchecked, LastOnly, AloneAtRest, WatchedIsRunning

LEMMA OutReturnsKeeps ==
  ASSUME Inv, ~Unchecked, locate' = locate, NEW st, Safe(st),
         NEW keep \in BOOLEAN, out = 1, NoReader(st) \/ keep, OutReturns(st, keep)
  PROVE  Inv'
<1>1. UNCHANGED <<status, children, spawned, errs>> /\ stack' = st
  BY DEF OutReturns, process
<1>2. out' = (IF keep THEN 1 ELSE 0)
  BY DEF OutReturns
<1>3. Safe(stack)' /\ (NoReader(stack)' \/ out' = 1)
  BY <1>1, <1>2 DEF Safe, NoCheck, OneReader, NoReader
<1> QED
  BY <1>1, <1>2, <1>3, Afterwards
     DEF Inv, Typed, Unchecked, LastOnly, AloneAtRest, WatchedIsRunning

(* The stream ends when the child is dead, or is taken to end when Stop    *)
(* has killed it: then no second pass follows.                             *)
LEMMA OutEndsKeeps ==
  ASSUME Inv, ~Unchecked, locate' = locate, NEW st, Safe(st), NoReader(st),
         status \notin Rest, OutEnds(st), AtEof \/ status = "MAKE_IT_STOP"
  PROVE  Inv'
<1>1. children = {} /\ Typed
  BY DEF Inv, AtEof, LastOnly, AloneAtRest
<1>2. ~Unchecked'
  BY DEF Unchecked
<1>3. CASE SecondPassFollows
  <2>1. status' = status /\ status \notin Rest \cup {"MAKE_IT_STOP"} /\ AloneAtRest'
    BY <1>3 DEF OutEnds, SecondPassFollows, AloneAtRest, Rest
  <2>2. CASE Started /\ stack' = st
    <3>1. spawned' \in Nat /\ errs' \subseteq Nat /\ LastOnly' /\ out' = 1
      BY <2>2, <1>1, StartedOne
    <3>2. Safe(stack)' /\ WatchedIsRunning'
      BY <2>1, <2>2, <3>1 DEF Safe, NoCheck, OneReader, WatchedIsRunning
    <3> QED
      BY <2>1, <3>1, <3>2, <1>2, Afterwards
  <2>3. CASE NotStarted(st) /\ out' = 0 /\ UNCHANGED <<errs, error_msgs, process>>
    <3>1. Safe(stack)' /\ NoReader(stack)'
      BY <2>3, PushOther DEF NotStarted, Safe, NoCheck, OneReader, NoReader
    <3>2. UNCHANGED <<errs, children, spawned>>
      BY <2>3 DEF process
    <3> QED
      BY <2>1, <2>3, <3>1, <3>2, <1>1, <1>2, Afterwards
         DEF Typed, LastOnly, WatchedIsRunning
  <2> QED
    BY <1>3, <2>2, <2>3 DEF OutEnds
<1>4. CASE ~SecondPassFollows
  <2>1. UNCHANGED <<children, spawned, errs>> /\ stack' = st /\ out' = 0
    BY <1>4 DEF OutEnds, process
  <2>2. Safe(stack)' /\ NoReader(stack)'
    BY <2>1 DEF Safe, NoCheck, OneReader, NoReader
  <2> QED
    BY <2>1, <2>2, <1>1, <1>2, Afterwards DEF Typed, LastOnly, AloneAtRest, WatchedIsRunning
<1> QED
  BY <1>3, <1>4

LEMMA NextLineKeeps ==
  ASSUME Inv, ~Unchecked, locate' = locate, NEW st, Safe(st), NoReader(st), out = 1,
         status \notin Rest, NextLine(st)
  PROVE  Inv'
<1>1. CASE status = "MAKE_IT_STOP" /\ OutEnds(st)
  BY <1>1, OutEndsKeeps
<1>2. CASE ReadLine(st)
  BY <1>2, ReadLineKeeps
<1>3. CASE OutReturns(st, TRUE)
  BY <1>3, OutReturnsKeeps
<1> QED
  BY <1>1, <1>2, <1>3 DEF NextLine

(* A line or the end of stderr changes what the stderr handler has.        *)
LEMMA ErrorKeeps ==
  ASSUME Inv, ~Unchecked, Safe(stack)', NoReader(stack) => NoReader(stack)',
         UNCHANGED <<status, locate, out, children, spawned>>, errs' \subseteq errs
  PROVE  Inv'
<1>1. NoReader(stack)' \/ out' = 1
  BY DEF Inv, ReadWhileWatched
<1> QED
  BY <1>1, Afterwards DEF Inv, Typed, Unchecked, LastOnly, AloneAtRest, WatchedIsRunning

-----------------------------------------------------------------------------
(* The steps.                                                              *)

LEMMA InvInit == GInit => Inv
BY DEF GInit, Inv, Typed, LastOnly, AloneAtRest, ReadWhileWatched, OneReader, NoReader,
       WatchedIsRunning, BeforeCheck, DuringCheck, NothingBefore, CheckedOnce, Unchecked, Rest

(* What a step leaves alone that changes only the results, the timers, the *)
(* life of the program or what is in the pipe, or ends a child.            *)
LEMMA OthersKeep ==
  ASSUME Inv, UNCHANGED <<status, locate, buttons, stack, out, errs, spawned>>,
         children' \subseteq children
  PROVE  Inv'
BY DEF Inv, Typed, LastOnly, AloneAtRest, ReadWhileWatched, OneReader, NoReader,
       WatchedIsRunning, BeforeCheck, DuringCheck, NothingBefore, CheckedOnce, NoCheck, Unchecked

LEMMA InvNext == Inv /\ [GNext]_gvars => Inv'
<1> SUFFICES ASSUME Inv, [GNext]_gvars PROVE Inv'
  OBVIOUS
<1>1. CASE ClickFind
  <2>1. status \in Rest /\ buttons = "find"
    BY <1>1 DEF ClickFind, Rest
  <2>2. CASE locate = "unchecked"
    <3>1. stack = <<>> /\ status = "STOPPED" /\ out = 0 /\ errs = {} /\ children = {}
      BY <2>1, <2>2 DEF Inv, BeforeCheck, NothingBefore, Unchecked, AloneAtRest
    <3>2. /\ locate' = "checking" /\ buttons' = "stop" /\ stack' = <<Waits("check", 0)>>
          /\ UNCHANGED <<status, out, errs, children, spawned>>
      BY <1>1, <2>2, <3>1 DEF ClickFind, sources, process
    <3>3. stack' \in Seq(Frames) /\ OneReader(stack)' /\ NoReader(stack)'
      BY <3>2 DEF Waits, Frames, Calls, OneReader, NoReader, Reads
    <3> QED
      BY <3>1, <3>2, <3>3 DEF Inv, Typed, LastOnly, AloneAtRest, ReadWhileWatched,
         WatchedIsRunning, BeforeCheck, DuringCheck, NothingBefore, CheckedOnce, Unchecked
  <2>3. CASE locate # "unchecked"
    <3>1. locate # "checking"
      BY <2>1 DEF Inv, DuringCheck
    <3>2. locate' = locate /\ FirstPass(stack)
      BY <1>1, <2>3 DEF ClickFind
    <3>3. Safe(stack) /\ (NoReader(stack) \/ out = 1) /\ ~Unchecked'
      BY <2>3, <3>1, <3>2 DEF Inv, Typed, CheckedOnce, Unchecked, ReadWhileWatched, Safe
    <3> QED
      BY <2>1, <3>2, <3>3, FirstPassKeeps
  <2> QED
    BY <2>2, <2>3
<1>2. CASE LocateChecked
  <2>1. locate = "checking"
    <3>1. Len(stack) \in 1..Len(stack) /\ stack[Len(stack)].call = "check"
      BY <1>2 DEF LocateChecked, TopIs, Top, Inv, Typed
    <3> QED
      BY <1>2, <3>1 DEF LocateChecked, TopIs, Inv, BeforeCheck, CheckedOnce, NoCheck, Unchecked
  <2>2. stack = <<Waits("check", 0)>> /\ status \in Rest
    BY <2>1 DEF Inv, DuringCheck, NothingBefore, Unchecked, Rest
  <2>3. Under = <<>>
    BY <2>2 DEF Under
  <2>4. Safe(Under) /\ NoReader(Under)
    BY <2>3 DEF Safe, NoCheck, OneReader, NoReader
  <2> QED
    BY <1>2, <2>2, <2>4, FirstPassKeeps DEF LocateChecked, Unchecked
<1>3. CASE DialogCloses
  <2>1. ~Unchecked /\ Safe(stack) /\ stack # <<>>
    BY <1>3, OtherTop DEF DialogCloses, Calls
  <2>2. Safe(stack)' /\ (NoReader(stack) => NoReader(stack)')
    BY <1>3, <2>1, Popped DEF DialogCloses, Safe, NoCheck, OneReader, NoReader
  <2> QED
    BY <1>3, <2>1, <2>2, ErrorKeeps DEF DialogCloses, sources, process
<1>4. CASE ClickStop
  <2>1. status = "RUNNING" /\ status' = "MAKE_IT_STOP" /\ children' = {}
    BY <1>4 DEF ClickStop, Kill, Inv, LastOnly
  <2>2. ~Unchecked
    BY <2>1 DEF Inv, NothingBefore
  <2>3. UNCHANGED <<locate, stack, out, errs, spawned>>
    BY <1>4 DEF ClickStop, sources
  <2> QED
    BY <2>1, <2>2, <2>3 DEF Inv, Typed, LastOnly, AloneAtRest, ReadWhileWatched, OneReader,
       NoReader, WatchedIsRunning, BeforeCheck, DuringCheck, NothingBefore, CheckedOnce,
       NoCheck, Unchecked, Rest
<1>5. CASE Quit
  <2>1. CASE status = "RUNNING"
    <3>1. status' = "MAKE_IT_QUIT" /\ children' = {}
      BY <1>5, <2>1 DEF Quit, Kill, Inv, LastOnly
    <3>2. ~Unchecked
      BY <2>1 DEF Inv, NothingBefore
    <3>3. UNCHANGED <<locate, stack, out, errs, spawned>>
      BY <1>5 DEF Quit, sources
    <3> QED
      BY <3>1, <3>2, <3>3 DEF Inv, Typed, LastOnly, AloneAtRest, ReadWhileWatched, OneReader,
         NoReader, WatchedIsRunning, BeforeCheck, DuringCheck, NothingBefore, CheckedOnce,
         NoCheck, Unchecked, Rest
  <2>2. CASE status # "RUNNING"
    BY <1>5, <2>2, OthersKeep DEF Quit, sources
  <2> QED
    BY <2>1, <2>2
<1>6. CASE Exit
  BY <1>6, OthersKeep DEF Exit, sources, process
<1>7. CASE TimerFires
  BY <1>7, OthersKeep DEF TimerFires, sources, process
<1>8. CASE StdoutReady
  <2>1. out = 1 /\ locate' = locate
    BY <1>8 DEF StdoutReady
  <2>2. ~Unchecked /\ status \notin Rest /\ Safe(stack)
    BY <2>1 DEF Inv, Typed, NothingBefore, WatchedIsRunning, CheckedOnce, ReadWhileWatched, Safe
  <2>3. NoReader(stack)
    BY <1>8 DEF StdoutReady, OnStack, NoReader, Reads
  <2>4. CASE AtEof /\ OutEnds(stack)
    BY <2>1, <2>2, <2>3, <2>4, OutEndsKeeps
  <2>5. CASE NextLine(stack)
    BY <2>1, <2>2, <2>3, <2>5, NextLineKeeps
  <2>6. CASE OutReturns(Append(stack, Waits("out_again", 0)), TRUE)
    <3>1. Safe(Append(stack, Waits("out_again", 0)))
      BY <2>2, <2>3, PushReader
    <3> QED
      BY <2>1, <2>2, <2>6, <3>1, OutReturnsKeeps
  <2> QED
    BY <1>8, <2>4, <2>5, <2>6 DEF StdoutReady
<1>9. CASE StdoutContinues
  <2>1. ~Unchecked /\ Safe(Under) /\ NoReader(Under) /\ out = 1 /\ status \notin Rest
    BY <1>9, ReaderOnTop DEF StdoutContinues
  <2>2. locate' = locate
    BY <1>9 DEF StdoutContinues
  <2>3. CASE NextLine(Under)
    BY <2>1, <2>2, <2>3, NextLineKeeps
  <2>4. CASE OutReturns(Under, TRUE)
    BY <2>1, <2>2, <2>4, OutReturnsKeeps
  <2>5. CASE OutReturns(Under, FALSE)
    BY <2>1, <2>2, <2>5, OutReturnsKeeps
  <2> QED
    BY <1>9, <2>3, <2>4, <2>5 DEF StdoutContinues
<1>10. CASE StdoutReadsOn
  <2>1. ~Unchecked /\ Safe(Under) /\ NoReader(Under) /\ out = 1 /\ status \notin Rest
    BY <1>10, ReaderOnTop DEF StdoutReadsOn
  <2>2. locate' = locate
    BY <1>10 DEF StdoutReadsOn
  <2>3. CASE ReadLine(Under)
    BY <2>1, <2>2, <2>3, ReadLineKeeps
  <2>4. CASE AtEof /\ OutEnds(Under)
    BY <2>1, <2>2, <2>4, OutEndsKeeps
  <2>5. CASE OutReturns(Under, FALSE)
    BY <2>1, <2>2, <2>5, OutReturnsKeeps
  <2> QED
    BY <1>10, <2>3, <2>4, <2>5 DEF StdoutReadsOn
<1>11. CASE \E r \in errs : StderrReady(r)
  <2>1. PICK r \in errs : StderrReady(r)
    BY <1>11
  <2>2. r \in Nat /\ ~Unchecked /\ Safe(stack)
    BY DEF Inv, Typed, NothingBefore, CheckedOnce, ReadWhileWatched, Safe
  <2>3. UNCHANGED <<status, locate, out, children, spawned>>
    BY <2>1 DEF StderrReady, process
  <2>4. stack' \in {stack, Append(stack, Waits("err", r))} /\ errs' \subseteq errs
    BY <2>1 DEF StderrReady, ErrEnds, ErrLine
  <2>5. Safe(stack)' /\ (NoReader(stack) => NoReader(stack)')
    BY <2>2, <2>4, PushOther DEF Safe, NoCheck, OneReader, NoReader
  <2> QED
    BY <2>2, <2>3, <2>4, <2>5, ErrorKeeps
<1>12. CASE StderrContinues
  <2>1. ~Unchecked /\ Safe(stack) /\ stack # <<>>
    BY <1>12, OtherTop DEF StderrContinues, Calls
  <2>2. UNCHANGED <<status, locate, out, children, spawned>>
    BY <1>12 DEF StderrContinues, process
  <2>3. stack' = Under /\ errs' \subseteq errs
    BY <1>12 DEF StderrContinues, ErrEnds, ErrLine
  <2>4. Safe(stack)' /\ (NoReader(stack) => NoReader(stack)')
    BY <2>1, <2>3, Popped DEF Safe, NoCheck, OneReader, NoReader
  <2> QED
    BY <2>1, <2>2, <2>3, <2>4, ErrorKeeps
<1>13. CASE ChildWrites
  BY <1>13, OthersKeep DEF ChildWrites, sources
<1>14. CASE ChildExits
  BY <1>14, OthersKeep DEF ChildExits, sources
<1>15. CASE FileDeleted
  BY <1>15, OthersKeep DEF FileDeleted, sources, process
<1>16. CASE MoveToTrash
  BY <1>16, OthersKeep DEF MoveToTrash, sources, process
<1>17. CASE UNCHANGED gvars
  BY <1>17, OthersKeep DEF gvars, sources, process
<1> QED
  BY <1>1, <1>2, <1>3, <1>4, <1>5, <1>6, <1>7, <1>8, <1>9, <1>10, <1>11, <1>12,
     <1>13, <1>14, <1>15, <1>16, <1>17 DEF GNext

(* The children are known by their number: the tool never loses one to     *)
(* the next, so one pid and one pair of pipes are enough (command_pid).    *)
THEOREM NeverTwoChildren == GSpec => []OneChild
<1>1. Inv => OneChild
  <2> SUFFICES ASSUME Inv PROVE OneChild
    OBVIOUS
  <2>1. children = {} \/ children = {spawned}
    BY DEF Inv, LastOnly
  <2>2. Cardinality({}) = 0 /\ Cardinality({spawned}) = 1
    BY FS_EmptySet, FS_Singleton
  <2> QED
    BY <2>1, <2>2 DEF OneChild
<1> QED
  BY <1>1, InvInit, InvNext, PTL DEF GSpec

-----------------------------------------------------------------------------
(* The folder's string.  Until a command fails to start, nothing frees it  *)
(* and no dialog waits that will.                                          *)

NoDialog(st) == \A i \in 1..Len(st) : st[i].call # "dialog"
Kept         == look_in # "freed" /\ misused # 1 /\ NoDialog(stack)
FreedByDialog == failed = 1 \/ Kept

LEMMA UsesNothingFreed ==
  ASSUME Kept, Uses \/ UNCHANGED misused
  PROVE  misused' # 1
BY DEF Kept, Uses

LEMMA PushNoDialog ==
  ASSUME NEW st \in Seq(Frames), NoDialog(st), NEW c \in Calls \ {"dialog"}, NEW n \in Nat
  PROVE  NoDialog(Append(st, Waits(c, n)))
<1> DEFINE more == Append(st, Waits(c, n))
<1>1. /\ more \in Seq(Frames)
      /\ \A i \in 1..Len(more) : \/ i \in 1..Len(st) /\ more[i] = st[i]
                                 \/ i = Len(st) + 1 /\ more[i].call = c
  BY Pushed
<1> HIDE DEF more
<1>2. NoDialog(more)
  BY <1>1 DEF NoDialog
<1> QED
  BY <1>2 DEF more

LEMMA PopNoDialog ==
  ASSUME stack \in Seq(Frames), stack # <<>>, NoDialog(stack)
  PROVE  Under \in Seq(Frames) /\ NoDialog(Under)
BY UnderIs DEF NoDialog

(* The parts of the handlers, entered with no command failed yet.          *)
LEMMA FirstPassFrees ==
  ASSUME Kept, NEW st, NoDialog(st), FirstPass(st)
  PROVE  FreedByDialog'
<1>1. CASE UNCHANGED <<status, passes, string, sources, process, results>> /\ stack' = st
  BY <1>1 DEF string, Kept, FreedByDialog, NoDialog
<1>2. CASE Started /\ stack' = st
  BY <1>2, UsesNothingFreed DEF Started, Kept, FreedByDialog, NoDialog
<1>3. CASE NotStarted(st)
  BY <1>3 DEF NotStarted, FreedByDialog
<1> QED
  BY <1>1, <1>2, <1>3 DEF FirstPass

LEMMA ReadLineFrees ==
  ASSUME Kept, NEW st \in Seq(Frames), NoDialog(st), ReadLine(st)
  PROVE  FreedByDialog'
<1>1. NoDialog(Append(st, Waits("out_line", 0))) /\ NoDialog(Append(st, Waits("out_again", 0)))
  BY PushNoDialog DEF Calls
<1>2. NoDialog(stack)'
  BY <1>1 DEF ReadLine, NoDialog
<1> QED
  BY <1>2 DEF ReadLine, string, Kept, FreedByDialog

LEMMA OutEndsFrees ==
  ASSUME Kept, NEW st, NoDialog(st), OutEnds(st)
  PROVE  FreedByDialog'
<1>1. CASE Started /\ stack' = st
  BY <1>1, UsesNothingFreed DEF Started, Kept, FreedByDialog, NoDialog
<1>2. CASE NotStarted(st)
  BY <1>2 DEF NotStarted, FreedByDialog
<1>3. CASE EndFrees /\ stack' = st
  BY <1>3 DEF EndFrees, string, Kept, FreedByDialog, NoDialog
<1> QED
  BY <1>1, <1>2, <1>3 DEF OutEnds

LEMMA OutReturnsFrees ==
  ASSUME Kept, NEW st, NoDialog(st), NEW keep, OutReturns(st, keep)
  PROVE  FreedByDialog'
BY DEF OutReturns, string, Kept, FreedByDialog, NoDialog

LEMMA NextLineFrees ==
  ASSUME Kept, NEW st \in Seq(Frames), NoDialog(st), NextLine(st)
  PROVE  FreedByDialog'
BY OutEndsFrees, ReadLineFrees, OutReturnsFrees DEF NextLine

LEMMA StringKept ==
  ASSUME Kept, UNCHANGED string, stack' = stack
  PROVE  FreedByDialog'
BY DEF string, Kept, FreedByDialog, NoDialog

(* failed is history: it is never taken back.                              *)
LEMMA FailedForGood ==
  ASSUME failed = 1, [GNext]_gvars
  PROVE  failed' = 1
BY DEF GNext, gvars, string, ClickFind, FirstPass, Started, NotStarted, LocateChecked,
       DialogCloses, ClickStop, Quit, Exit, TimerFires, StdoutReady, StdoutContinues,
       StdoutReadsOn, NextLine, ReadLine, OutReturns, OutEnds, EndFrees, StderrReady,
       StderrContinues, ChildWrites, ChildExits, FileDeleted, MoveToTrash

LEMMA FreedNext == Inv /\ FreedByDialog /\ [GNext]_gvars => FreedByDialog'
<1> SUFFICES ASSUME Inv, FreedByDialog, [GNext]_gvars PROVE FreedByDialog'
  OBVIOUS
<1>1. CASE failed = 1
  BY <1>1, FailedForGood DEF FreedByDialog
<1>2. CASE failed # 1
  <2> USE <1>2
  <2>1. Kept /\ NoDialog(stack) /\ stack \in Seq(Frames)
    BY DEF FreedByDialog, Kept, Inv, Typed
  <2>2. \A c : TopIs(c) => NoDialog(Under) /\ Under \in Seq(Frames) /\ Top \in Frames /\ c # "dialog"
    <3> SUFFICES ASSUME NEW c, TopIs(c)
                 PROVE  NoDialog(Under) /\ Under \in Seq(Frames) /\ Top \in Frames /\ c # "dialog"
      OBVIOUS
    <3>1. Len(stack) \in 1..Len(stack) /\ Top.call = c
      BY <2>1, UnderIs DEF TopIs
    <3> QED
      BY <2>1, <3>1, PopNoDialog, UnderIs DEF TopIs, NoDialog, Top
  <2>3. CASE ClickFind
    <3>1. CASE FirstPass(stack)
      BY <2>1, <3>1, FirstPassFrees
    <3>2. CASE UNCHANGED string /\ stack' = Append(stack, Waits("check", 0))
      <4>1. NoDialog(stack)'
        BY <2>1, <3>2, PushNoDialog DEF Calls, NoDialog
      <4> QED
        BY <2>1, <3>2, <4>1 DEF string, Kept, FreedByDialog
    <3> QED
      BY <2>3, <3>1, <3>2 DEF ClickFind
  <2>4. CASE LocateChecked
    BY <2>1, <2>2, <2>4, FirstPassFrees DEF LocateChecked
  <2>5. CASE DialogCloses
    BY <2>2, <2>5 DEF DialogCloses
  <2>6. CASE StdoutReady
    <3>1. CASE OutEnds(stack)
      BY <2>1, <3>1, OutEndsFrees
    <3>2. CASE NextLine(stack)
      BY <2>1, <3>2, NextLineFrees
    <3>3. CASE OutReturns(Append(stack, Waits("out_again", 0)), TRUE)
      BY <2>1, <3>3, PushNoDialog, OutReturnsFrees DEF Calls
    <3> QED
      BY <2>6, <3>1, <3>2, <3>3 DEF StdoutReady
  <2>7. CASE StdoutContinues
    BY <2>1, <2>2, <2>7, NextLineFrees, OutReturnsFrees DEF StdoutContinues
  <2>8. CASE StdoutReadsOn
    BY <2>1, <2>2, <2>8, ReadLineFrees, OutEndsFrees, OutReturnsFrees DEF StdoutReadsOn
  <2>9. CASE \E r \in errs : StderrReady(r)
    <3>1. PICK r \in errs : StderrReady(r)
      BY <2>9
    <3>2. UNCHANGED <<look_in, failed>> /\ (Uses \/ UNCHANGED misused)
      BY <3>1 DEF StderrReady, ErrEnds, ErrLine
    <3>3. stack' \in {stack, Append(stack, Waits("err", r))} /\ r \in Nat
      BY <3>1 DEF StderrReady, ErrEnds, ErrLine, Inv, Typed
    <3>4. NoDialog(stack)'
      BY <2>1, <3>3, PushNoDialog DEF Calls, NoDialog
    <3> QED
      BY <2>1, <3>2, <3>4, UsesNothingFreed DEF Kept, FreedByDialog
  <2>10. CASE StderrContinues
    <3>1. UNCHANGED <<look_in, failed>> /\ (Uses \/ UNCHANGED misused)
      BY <2>10 DEF StderrContinues, ErrEnds, ErrLine
    <3>2. NoDialog(stack)'
      BY <2>2, <2>10 DEF StderrContinues, ErrEnds, ErrLine, NoDialog
    <3> QED
      BY <2>1, <3>1, <3>2, UsesNothingFreed DEF Kept, FreedByDialog
  <2>11. CASE \/ ClickStop \/ Quit \/ Exit \/ TimerFires \/ ChildWrites \/ ChildExits
              \/ FileDeleted \/ MoveToTrash \/ UNCHANGED gvars
    <3>1. UNCHANGED string /\ stack' = stack
      BY <2>11 DEF ClickStop, Quit, Exit, TimerFires, ChildWrites, ChildExits, FileDeleted,
                   MoveToTrash, gvars
    <3> QED
      BY <2>1, <3>1, StringKept
  <2> QED
    BY <2>3, <2>4, <2>5, <2>6, <2>7, <2>8, <2>9, <2>10, <2>11 DEF GNext
<1> QED
  BY <1>1, <1>2

(* While every command can be started nothing frees look_in_folder_string: *)
(* only the return from the dialog about one that cannot does.  So neither *)
(* pass, and no handler in whatever loop it waited, uses a freed one.      *)
THEOREM FolderStaysAlive == GSpec => []StringsAlive
<1>1. GInit => FreedByDialog
  BY DEF GInit, FreedByDialog, Kept, NoDialog
<1>2. FreedByDialog => StringsAlive
  BY DEF FreedByDialog, Kept, StringsAlive
<1> QED
  BY <1>1, <1>2, InvInit, InvNext, FreedNext, PTL DEF GSpec

-----------------------------------------------------------------------------
(* The rows.  As long as stdout is watched, what is listed is in the hash   *)
(* table; the table is emptied only when the list is or the watch goes.     *)

Once(r) == \A i, j \in 1..Len(r) : r[i] = r[j] => i = j
Listed(r, table) == \A i \in 1..Len(r) : r[i] = "none" \/ r[i] \in table

RowsTyped  == rows \in Seq(Files \cup {"none"})
RowsKnown  == out = 1 => Listed(rows, known)
RowsInv    == RowsTyped /\ Once(rows) /\ RowsKnown

LEMMA RowAdded ==
  ASSUME NEW f \in Files, f \notin known, RowsTyped, Once(rows), Listed(rows, known)
  PROVE  LET more == Append(rows, f)
         IN  /\ more \in Seq(Files \cup {"none"})
             /\ Once(more) /\ Listed(more, known \cup {f})
<1> DEFINE more == Append(rows, f)
<1>1. Len(rows) \in Nat /\ rows \in Seq(Files \cup {"none"})
  BY DEF RowsTyped
<1>2. more \in Seq(Files \cup {"none"}) /\ Len(more) = Len(rows) + 1
      /\ more[Len(rows) + 1] = f /\ \A i \in 1..Len(rows) : more[i] = rows[i]
  BY <1>1
<1> HIDE DEF more
<1>3. \A i \in 1..Len(more) : \/ i \in 1..Len(rows) /\ more[i] = rows[i]
                              \/ i = Len(rows) + 1 /\ more[i] = f
  BY <1>1, <1>2
<1>4. \A i \in 1..Len(rows) : rows[i] # f
  BY FilesAssumption DEF Listed
<1>5. Once(more)
  BY <1>3, <1>4 DEF Once
<1>6. Listed(more, known \cup {f})
  BY <1>3 DEF Listed
<1> QED
  BY <1>2, <1>5, <1>6 DEF more

LEMMA RowRemoved ==
  ASSUME RowsTyped, Once(rows), NEW at \in RowsOfFiles, NEW table
  PROVE  LET less == Without(at)
         IN  /\ less \in Seq(Files \cup {"none"})
             /\ Once(less) /\ (Listed(rows, table) => Listed(less, table))
<1> DEFINE less == Without(at)
           from(i) == IF i < at THEN i ELSE i + 1
<1>1. Len(rows) \in Nat /\ at \in 1..Len(rows) /\ \A i \in 1..Len(rows) : rows[i] \in Files \cup {"none"}
  BY DEF RowsOfFiles, RowsTyped
<1>2. Len(rows) - 1 \in Nat
  BY <1>1
<1>3. \A i \in 1..(Len(rows) - 1) : from(i) \in 1..Len(rows)
  BY <1>1
<1>4. less = [i \in 1..(Len(rows) - 1) |-> rows[from(i)]]
  BY DEF Without
<1>5. less \in Seq(Files \cup {"none"}) /\ Len(less) = Len(rows) - 1
  <2> HIDE DEF from, less
  <2> DEFINE n == Len(rows) - 1
  <2>1. n \in Nat /\ less = [i \in 1..n |-> rows[from(i)]] /\ \A i \in 1..n : rows[from(i)] \in Files \cup {"none"}
    BY <1>1, <1>2, <1>3, <1>4
  <2> HIDE DEF n
  <2>2. less \in [1..n -> Files \cup {"none"}]
    BY <2>1
  <2>3. less \in Seq(Files \cup {"none"}) /\ Len(less) = n
    BY <2>1, <2>2, SeqDef, LenProperties
  <2> QED
    BY <2>3 DEF n
<1>6. \A i, j \in 1..(Len(rows) - 1) : from(i) = from(j) => i = j
  BY <1>1
<1> HIDE DEF less, from
<1>7. Once(less)
  BY <1>3, <1>4, <1>5, <1>6 DEF Once
<1>8. Listed(rows, table) => Listed(less, table)
  BY <1>3, <1>4, <1>5 DEF Listed
<1> QED
  BY <1>5, <1>7, <1>8 DEF less

(* The message row appears only in an empty list.                           *)
LEMMA MessageRow ==
  ASSUME NEW r \in Seq(Files \cup {"none"}), Once(r), NEW table
  PROVE  /\ Counted(r) \in Seq(Files \cup {"none"})
         /\ Once(Counted(r)) /\ (Listed(r, table) => Listed(Counted(r), table))
<1> DEFINE only == <<"none">>
<1>1. only \in Seq(Files \cup {"none"}) /\ Len(only) = 1 /\ only[1] = "none"
  OBVIOUS
<1> HIDE DEF only
<1>2. Once(only) /\ Listed(only, table)
  BY <1>1 DEF Once, Listed
<1>3. Counted(r) = r \/ Counted(r) = only
  BY DEF Counted, only
<1> QED
  BY <1>1, <1>2, <1>3

LEMMA ReadLineRows ==
  ASSUME RowsInv, out = 1, NEW st, ReadLine(st)
  PROVE  RowsInv'
<1>1. CASE UNCHANGED results
  BY <1>1 DEF ReadLine, results, sources, RowsInv, RowsTyped, RowsKnown, Once, Listed
<1>2. ASSUME NEW f \in Files, IsNew(f), known' = known \cup {f}, rows' = Append(rows, f)
      PROVE  RowsInv'
  <2>1. /\ Append(rows, f) \in Seq(Files \cup {"none"})
        /\ Once(Append(rows, f)) /\ Listed(Append(rows, f), known \cup {f})
    BY <1>2, RowAdded DEF RowsInv, RowsKnown, IsNew
  <2> QED
    BY <1>2, <2>1 DEF RowsInv, RowsTyped, RowsKnown, Once, Listed
<1> QED
  BY <1>1, <1>2 DEF ReadLine

(* A start with an empty list, or one that goes on with the table there is. *)
LEMMA SameRows ==
  ASSUME RowsInv, UNCHANGED <<known, rows>>, out' = 1 => out = 1
  PROVE  RowsInv'
BY DEF RowsInv, RowsTyped, RowsKnown, Once, Listed

LEMMA FirstPassRows ==
  ASSUME RowsInv, NEW st, FirstPass(st)
  PROVE  RowsInv'
<1>1. CASE UNCHANGED <<results, sources>>
  BY <1>1, SameRows DEF results, sources
<1>2. CASE known' = {} /\ rows' = <<>>
  <2>1. rows' \in Seq(Files \cup {"none"}) /\ Len(rows') = 0
    BY <1>2
  <2> QED
    BY <2>1 DEF RowsInv, RowsTyped, RowsKnown, Once, Listed
<1> QED
  BY <1>1, <1>2 DEF FirstPass

LEMMA OutEndsRows ==
  ASSUME RowsInv, out = 1, NEW st, OutEnds(st)
  PROVE  RowsInv'
<1>1. CASE UNCHANGED results
  BY <1>1, SameRows DEF results
<1>2. CASE rows' = Counted(rows) /\ out' = 0
  BY <1>2, MessageRow DEF RowsInv, RowsTyped, RowsKnown, Once
<1> QED
  BY <1>1, <1>2 DEF OutEnds

LEMMA OutReturnsRows ==
  ASSUME RowsInv, out = 1, NEW st, NEW keep, OutReturns(st, keep)
  PROVE  RowsInv'
BY SameRows DEF OutReturns, results

LEMMA NextLineRows ==
  ASSUME RowsInv, out = 1, NEW st, NextLine(st)
  PROVE  RowsInv'
BY OutEndsRows, ReadLineRows, OutReturnsRows DEF NextLine

LEMMA RowsNext == Inv /\ RowsInv /\ [GNext]_gvars => RowsInv'
<1> SUFFICES ASSUME Inv, RowsInv, [GNext]_gvars PROVE RowsInv'
  OBVIOUS
<1>1. CASE ClickFind
  <2>1. CASE UNCHANGED <<sources, results>>
    BY <2>1, SameRows DEF sources, results
  <2>2. CASE FirstPass(stack)
    BY <2>2, FirstPassRows
  <2> QED
    BY <1>1, <2>1, <2>2 DEF ClickFind
<1>2. CASE LocateChecked
  BY <1>2, FirstPassRows DEF LocateChecked
<1>3. CASE StdoutReady
  BY <1>3, OutEndsRows, NextLineRows, OutReturnsRows DEF StdoutReady
<1>4. CASE StdoutContinues \/ StdoutReadsOn
  <2>1. out = 1
    BY <1>4, ReaderOnTop DEF StdoutContinues, StdoutReadsOn
  <2> QED
    BY <1>4, <2>1, OutEndsRows, NextLineRows, ReadLineRows, OutReturnsRows
       DEF StdoutContinues, StdoutReadsOn
<1>5. CASE FileDeleted \/ MoveToTrash
  <2>1. PICK at \in RowsOfFiles : rows' = Counted(Without(at)) \/ rows' = Without(at)
    BY <1>5 DEF FileDeleted, MoveToTrash
  <2>2. UNCHANGED <<known, out>>
    BY <1>5 DEF FileDeleted, MoveToTrash, sources
  <2> DEFINE less == Without(at)
  <2>3. /\ less \in Seq(Files \cup {"none"})
        /\ Once(less) /\ (Listed(rows, known) => Listed(less, known))
    BY RowRemoved DEF RowsInv
  <2> HIDE DEF less
  <2>4. /\ Counted(less) \in Seq(Files \cup {"none"})
        /\ Once(Counted(less)) /\ (Listed(less, known) => Listed(Counted(less), known))
    BY <2>3, MessageRow
  <2>5. rows' = Counted(less) \/ rows' = less
    BY <2>1 DEF less
  <2>6. rows' \in Seq(Files \cup {"none"}) /\ Once(rows') /\ (Listed(rows, known) => Listed(rows', known))
    BY <2>3, <2>4, <2>5
  <2> QED
    BY <2>2, <2>6 DEF RowsInv, RowsTyped, RowsKnown, Once, Listed
<1>6. CASE \/ DialogCloses \/ ClickStop \/ Quit \/ Exit \/ TimerFires \/ StderrContinues
           \/ ChildWrites \/ ChildExits \/ UNCHANGED gvars \/ \E r \in errs : StderrReady(r)
  <2>1. UNCHANGED <<known, rows, out>>
    BY <1>6 DEF DialogCloses, ClickStop, Quit, Exit, TimerFires, StderrContinues, StderrReady,
                ChildWrites, ChildExits, gvars, sources, results
  <2> QED
    BY <2>1, SameRows
<1> QED
  BY <1>1, <1>2, <1>3, <1>4, <1>5, <1>6 DEF GNext

(* spawn_search_command's table keeps what the first pass has listed until  *)
(* the last handler has gone, and rows are only ever added through it (the  *)
(* handler of stdout) or taken away: no file is listed twice, whatever is   *)
(* deleted, trashed or reported again meanwhile.                            *)
THEOREM NoFileTwice == GSpec => []NoDuplicateRows
<1>1. GInit => RowsInv
  BY DEF GInit, RowsInv, RowsTyped, RowsKnown, Once, Listed
<1>2. RowsInv => NoDuplicateRows
  BY DEF RowsInv, Once, NoDuplicateRows
<1> QED
  BY <1>1, <1>2, InvInit, InvNext, RowsNext, PTL DEF GSpec

-----------------------------------------------------------------------------
(* The session client.                                                     *)

(* The messages in a queue that is a sequence.                             *)
IsQueue(q) == Len(q) \in Nat /\ q = [i \in 1..Len(q) |-> q[i]]
KindsOf(q) == [i \in 1..Len(q) |-> q[i].kind]

(* What the manager is told at any time, and takes at any time.            *)
News == {"SetProperties", "SaveYourselfRequest"}

(* The answers in a queue, between the news, are those of the list al.     *)
Places(q, al) ==
  {f \in [1..Len(al) -> 1..Len(q)] :
     /\ \A i, j \in 1..Len(al) : i < j => f[i] < f[j]
     /\ \A i \in 1..Len(al) : q[f[i]].kind = al[i]
     /\ \A p \in 1..Len(q) : q[p].kind \notin News => \E i \in 1..Len(al) : f[i] = p}
Answers(q, al) ==
  /\ IsQueue(q)
  /\ \A i \in 1..Len(al) : al[i] \notin News
  /\ Places(q, al) # {}
AnswerKinds == {"SaveYourselfDone", "InteractRequest", "InteractDone"}
AnswerLists == {<<>>, <<"SaveYourselfDone">>, <<"InteractRequest">>,
                <<"InteractDone", "SaveYourselfDone">>,
                <<"InteractRequest", "SaveYourselfDone">>}

(* The client's record.                                                    *)
Fields == DOMAIN FreshClient(0)
IsClient(x) == x = [f \in Fields |-> x[f]]

In(x, s) == x.state = s /\ x.save_myself = 0

(* The client may be asked to save; a request that came during a question  *)
(* to the user is put off.                                                 *)
Ready(x)  == In(x, "idle") \/ In(x, "shutdown-cancelled")
PutOff(x) == x.state = "shutdown-cancelled" /\ x.save_myself = 1

(* Between two rounds: the end of the last one may not have arrived yet.   *)
AtRest(x, k) ==
  \/ k = <<>> /\ Ready(x)
  \/ k \in {<<"SaveComplete">>, <<"ShutdownCancelled">>} /\ In(x, "save-yourself-done")

(* A round that is on, when the manager is in state m.                     *)
Saving(x, k, a) ==
  \/ k = <<"SaveYourself">> /\ Ready(x) /\ a = <<>>
  \/ /\ k \in {<<"SaveComplete", "SaveYourself">>, <<"ShutdownCancelled", "SaveYourself">>}
     /\ In(x, "save-yourself-done") /\ a = <<>>
  \/ k = <<>> /\ PutOff(x) /\ a = <<>>
  \/ k = <<>> /\ In(x, "interact-request") /\ a = <<"InteractRequest">>
  \/ k = <<>> /\ In(x, "save-yourself-done") /\ a = <<"SaveYourselfDone">>
Granted(x, k, a) ==
  \/ k = <<"Interact">> /\ In(x, "interact-request") /\ a = <<>>
  \/ k = <<>> /\ In(x, "interact") /\ a = <<>>
  \/ k = <<>> /\ In(x, "save-yourself-done") /\ a = <<"InteractDone", "SaveYourselfDone">>
InRound(m, x, k, a) ==
  \/ m = "saving" /\ Saving(x, k, a)
  \/ m = "asked" /\ k = <<>> /\ In(x, "interact-request") /\ a = <<>>
  \/ m = "granted" /\ Granted(x, k, a)
  \/ m = "finishing" /\ k = <<>> /\ In(x, "save-yourself-done") /\ a = <<"SaveYourselfDone">>

(* A round that was cancelled: the client does not know yet, or knows.     *)
Unread == {<<>>, <<"SaveYourself">>, <<"SaveComplete", "SaveYourself">>,
           <<"ShutdownCancelled", "SaveYourself">>, <<"Interact">>}
Cancelled(x, k, a) ==
  \/ \E j \in Unread, m \in Owing :
       k = Append(j, "ShutdownCancelled") /\ InRound(m, x, j, a)
  \/ k = <<>> /\ Ready(x) /\ a # <<"InteractRequest">>

Talk(m, x, k, a) ==
  \/ m = "registering" /\ k = <<>> /\ Ready(x) /\ a = <<>>
  \/ m = "idle" /\ AtRest(x, k) /\ a = <<>>
  \/ InRound(m, x, k, a)
  \/ m = "cancelled" /\ Cancelled(x, k, a)
  \/ m = "saved" /\ k = <<>> /\ In(x, "save-yourself-done") /\ a = <<>>
  \/ m = "closed" /\ k = <<"Die">> /\ In(x, "save-yourself-done") /\ a = <<>>

(* What the flags of the client say about its state.                       *)
Flags(x) ==
  /\ x.emit_quit = 0
  /\ x.emit_quit_cancelled = 1 => x.state = "shutdown-cancelled"
  /\ x.expecting_initial_save_yourself = 1 => x.state = "idle"

(* The conversation goes on, with the answers a on their way.              *)
Talking(a) ==
  /\ connected = 1 /\ app # "gone" /\ Answers(toManager, a)
  /\ Talk(manager, xsmp, KindsOf(toClient), a) /\ Flags(xsmp)

(* The manager has said "Die", and the client is gone or about to go.      *)
Over ==
  /\ manager = "closed" /\ connected = 0 /\ toClient = <<>> /\ Answers(toManager, <<>>)
  /\ In(xsmp, "connection-closed") /\ xsmp.emit_quit_cancelled # 1

Dead == manager = "dead" /\ toClient = <<>>

Good ==
  /\ broken = 0 /\ connected \in 0..1 /\ IsClient(xsmp) /\ IsQueue(toClient)
  /\ Dead \/ Over \/ \E a \in AnswerLists : Talking(a)
-----------------------------------------------------------------------------
(***************************************************************************)
(* Queues.                                                                 *)
(***************************************************************************)

(* A queue is a sequence of what is in it.                                 *)
LEMMA QueueIsSeq ==
  ASSUME NEW q, IsQueue(q)
  PROVE  /\ q \in Seq({q[i] : i \in 1..Len(q)})
         /\ DOMAIN q = 1..Len(q) /\ Len(q) \in Nat
<1>1. q \in [1..Len(q) -> {q[i] : i \in 1..Len(q)}]
  BY DEF IsQueue
<1>2. QED
  BY <1>1 DEF IsQueue

LEMMA SeqIsQueue ==
  ASSUME NEW S, NEW q \in Seq(S)
  PROVE  IsQueue(q)
BY DEF IsQueue

(* Adding a message at the end.                                            *)
LEMMA QueueAppend ==
  ASSUME NEW q, IsQueue(q), NEW m
  PROVE  /\ IsQueue(Append(q, m)) /\ Append(q, m) # <<>>
         /\ KindsOf(Append(q, m)) = Append(KindsOf(q), m.kind)
<1> DEFINE S == {q[i] : i \in 1..Len(q)} \cup {m}
           r == Append(q, m)
<1>1. q \in Seq(S)
  BY QueueIsSeq DEF IsQueue
<1>2. m \in S
  OBVIOUS
<1> HIDE DEF S
<1>3. /\ r \in Seq(S) /\ Len(r) = Len(q) + 1 /\ r # <<>>
      /\ \A i \in 1..Len(r) : r[i] = IF i = Len(q) + 1 THEN m ELSE q[i]
  <2>1. r \in Seq(S)
    BY <1>1, <1>2
  <2>2. Len(q) \in Nat /\ Len(r) = Len(q) + 1
    BY <1>1, <1>2
  <2>3. \A i \in 1..Len(q) + 1 : r[i] = IF i = Len(q) + 1 THEN m ELSE q[i]
    BY <1>1, <1>2
  <2>4. r # <<>>
    <3>1. Len(<<>>) = 0
      OBVIOUS
    <3> HIDE DEF r
    <3> QED BY <2>2, <3>1
  <2> HIDE DEF r
  <2> QED BY <2>1, <2>2, <2>3, <2>4
<1> DEFINE kq == KindsOf(q)
           T  == {q[i].kind : i \in 1..Len(q)} \cup {m.kind}
<1>4. kq \in Seq(T) /\ Len(kq) = Len(q) /\ \A i \in 1..Len(q) : kq[i] = q[i].kind
  BY <1>1 DEF KindsOf
<1>5. m.kind \in T
  OBVIOUS
<1>6. Append(kq, m.kind) = [i \in 1..Len(q) + 1 |-> IF i = Len(q) + 1 THEN m.kind ELSE kq[i]]
  <2> HIDE DEF kq, T
  <2> QED BY <1>4, <1>5
<1>7. KindsOf(r) = [i \in 1..Len(q) + 1 |-> IF i = Len(q) + 1 THEN m.kind ELSE kq[i]]
  <2>1. \A i \in 1..Len(q) + 1 : r[i].kind = IF i = Len(q) + 1 THEN m.kind ELSE kq[i]
    <3> HIDE DEF r
    <3> QED BY <1>1, <1>3 DEF KindsOf
  <2> HIDE DEF r, kq
  <2> QED BY <1>3, <2>1 DEF KindsOf
<1>8. IsQueue(r)
  BY <1>3, SeqIsQueue
<1> QED BY <1>3, <1>6, <1>7, <1>8

(* Taking the first message.                                               *)
LEMMA QueueTail ==
  ASSUME NEW q, IsQueue(q), q # <<>>
  PROVE  /\ IsQueue(Tail(q)) /\ Len(Tail(q)) = Len(q) - 1 /\ Len(q) >= 1
         /\ \A i \in 1..Len(q) - 1 : Tail(q)[i] = q[i + 1]
         /\ Head(q) = q[1]
         /\ KindsOf(q) # <<>> /\ Head(q).kind = Head(KindsOf(q))
         /\ KindsOf(Tail(q)) = Tail(KindsOf(q))
<1> DEFINE S == {q[i] : i \in 1..Len(q)}
           t == Tail(q)
<1>1. q \in Seq(S)
  BY QueueIsSeq
<1> HIDE DEF S
<1>2. /\ t \in Seq(S) /\ Len(t) = Len(q) - 1 /\ Len(q) \in Nat /\ Len(q) >= 1
      /\ \A i \in 1..Len(q) - 1 : t[i] = q[i + 1]
      /\ Head(q) = q[1]
  BY <1>1
<1> DEFINE kq == KindsOf(q)
           T  == {q[i].kind : i \in 1..Len(q)}
<1>3. kq \in Seq(T) /\ Len(kq) = Len(q) /\ \A i \in 1..Len(q) : kq[i] = q[i].kind
  BY <1>2 DEF KindsOf
<1>4. /\ Tail(kq) = [i \in 1..Len(q) - 1 |-> kq[i + 1]]
      /\ Head(kq) = q[1].kind /\ kq # <<>>
  <2> HIDE DEF kq, T
  <2>1. Len(kq) >= 1 /\ Len(kq) \in Nat /\ kq \in Seq(T) /\ kq[1] = q[1].kind
    BY <1>2, <1>3
  <2>2. kq # <<>>
    BY <2>1
  <2>3. Head(kq) = kq[1]
    BY <2>1, <2>2
  <2>4. Tail(kq) = [i \in 1..Len(kq) - 1 |-> kq[i + 1]]
    <3>1. Tail(kq) \in Seq(T) /\ Len(Tail(kq)) = Len(kq) - 1
      BY <2>1, <2>2
    <3>2. \A i \in 1..Len(kq) - 1 : Tail(kq)[i] = kq[i + 1]
      BY <2>1, <2>2
    <3> DEFINE tk == Tail(kq)
               n  == Len(kq) - 1
    <3> HIDE DEF tk
    <3>3. tk = [i \in 1..n |-> tk[i]]
      <4>1. tk \in Seq(T) /\ Len(tk) = n
        BY <3>1 DEF tk
      <4> QED BY <4>1
    <3>4. \A i \in 1..n : tk[i] = kq[i + 1]
      BY <3>2 DEF tk
    <3> HIDE DEF n
    <3>5. tk = [i \in 1..n |-> kq[i + 1]]
      BY <3>3, <3>4
    <3> QED BY <3>5 DEF tk, n
  <2> QED BY <2>1, <2>2, <2>3, <2>4, <1>3
<1>5. KindsOf(t) = [i \in 1..Len(q) - 1 |-> kq[i + 1]]
  <2>1. \A i \in 1..Len(q) - 1 : t[i].kind = kq[i + 1]
    <3> HIDE DEF t, kq
    <3>1. SUFFICES ASSUME NEW i \in 1..Len(q) - 1
                   PROVE  t[i].kind = kq[i + 1]
      OBVIOUS
    <3>2. i \in 1..Len(q) - 1 /\ i + 1 \in 1..Len(q)
      BY <1>2
    <3>3. t[i] = q[i + 1]
      BY <1>2
    <3> QED BY <3>2, <3>3, <1>3
  <2> HIDE DEF t, kq
  <2> QED BY <1>2, <2>1 DEF KindsOf
<1>6. IsQueue(t)
  BY <1>2, SeqIsQueue
<1> QED BY <1>2, <1>4, <1>5, <1>6

LEMMA NoKinds == KindsOf(<<>>) = <<>> /\ IsQueue(<<>>)
BY DEF KindsOf, IsQueue
-----------------------------------------------------------------------------
(***************************************************************************)
(* The answers in a queue.                                                 *)
(***************************************************************************)

(* Two sequences, one behind the other, position by position.              *)
LEMMA Joined ==
  ASSUME NEW S, NEW q \in Seq(S), NEW r \in Seq(S)
  PROVE  /\ q \o r \in Seq(S) /\ Len(q) \in Nat /\ Len(r) \in Nat
         /\ Len(q \o r) = Len(q) + Len(r)
         /\ \A i \in 1..Len(q) : (q \o r)[i] = q[i]
         /\ \A i \in 1..Len(r) : (q \o r)[Len(q) + i] = r[i]
<1>1. q \o r \in Seq(S) /\ Len(q) \in Nat /\ Len(r) \in Nat
  OBVIOUS
<1>2. Len(q \o r) = Len(q) + Len(r)
  OBVIOUS
<1>3. \A i \in 1..Len(q) : (q \o r)[i] = q[i]
  OBVIOUS
<1>4. \A i \in 1..Len(r) : (q \o r)[Len(q) + i] = r[i]
  <2>1. SUFFICES ASSUME NEW i \in 1..Len(r)
                 PROVE  (q \o r)[Len(q) + i] = r[i]
    OBVIOUS
  <2>2. Len(q) + i \in 1..Len(q) + Len(r) /\ ~(Len(q) + i <= Len(q))
    BY <1>1
  <2>3. (Len(q) + i) - Len(q) = i
    BY <1>1
  <2> QED BY <2>2, <2>3
<1> QED BY <1>1, <1>2, <1>3, <1>4

(* What is sent adds its answers to those on their way.                    *)
LEMMA AnswersJoined ==
  ASSUME NEW q, NEW al \in Seq(AnswerKinds), Answers(q, al),
         NEW r, NEW bs \in Seq(AnswerKinds), Answers(r, bs)
  PROVE  Answers(q \o r, al \o bs) /\ IsQueue(q \o r)
<1> DEFINE S  == {q[i] : i \in 1..Len(q)} \cup {r[i] : i \in 1..Len(r)}
           t  == q \o r
           cs == al \o bs
           n  == Len(q)
           k  == Len(al)
<1>1. q \in Seq(S) /\ r \in Seq(S)
  <2>1. q \in Seq({q[i] : i \in 1..Len(q)}) /\ r \in Seq({r[i] : i \in 1..Len(r)})
    BY QueueIsSeq DEF Answers
  <2> QED BY <2>1
<1> HIDE DEF S
<1>2. /\ t \in Seq(S) /\ n \in Nat /\ Len(r) \in Nat /\ Len(t) = n + Len(r)
      /\ \A i \in 1..n : t[i] = q[i]
      /\ \A i \in 1..Len(r) : t[n + i] = r[i]
  BY <1>1, Joined
<1>3. /\ cs \in Seq(AnswerKinds) /\ k \in Nat /\ Len(bs) \in Nat /\ Len(cs) = k + Len(bs)
      /\ \A i \in 1..k : cs[i] = al[i]
      /\ \A i \in 1..Len(bs) : cs[k + i] = bs[i]
  <2> DEFINE S2 == AnswerKinds
  <2>1. al \in Seq(S2) /\ bs \in Seq(S2)
    OBVIOUS
  <2> HIDE DEF S2
  <2>2. /\ cs \in Seq(S2) /\ k \in Nat /\ Len(bs) \in Nat /\ Len(cs) = k + Len(bs)
        /\ \A i \in 1..k : cs[i] = al[i]
        /\ \A i \in 1..Len(bs) : cs[k + i] = bs[i]
    BY <2>1, Joined
  <2> QED BY <2>2 DEF S2
<1>4. PICK f \in Places(q, al) : TRUE
  BY DEF Answers
<1>5. PICK h \in Places(r, bs) : TRUE
  BY DEF Answers
<1> HIDE DEF t, cs
<1> DEFINE g == [i \in 1..Len(cs) |-> IF i <= k THEN f[i] ELSE n + h[i - k]]
<1>6. /\ f \in [1..k -> 1..n] /\ h \in [1..Len(bs) -> 1..Len(r)]
      /\ \A i, j \in 1..k : i < j => f[i] < f[j]
      /\ \A i, j \in 1..Len(bs) : i < j => h[i] < h[j]
      /\ \A i \in 1..k : q[f[i]].kind = al[i]
      /\ \A i \in 1..Len(bs) : r[h[i]].kind = bs[i]
      /\ \A p \in 1..n : q[p].kind \notin News => \E i \in 1..k : f[i] = p
      /\ \A p \in 1..Len(r) : r[p].kind \notin News => \E i \in 1..Len(bs) : h[i] = p
  BY <1>4, <1>5 DEF Places
<1> HIDE DEF n, k
<1>7. \A i \in 1..k : i \in 1..Len(cs) /\ g[i] = f[i] /\ g[i] \in 1..n
  BY <1>2, <1>3, <1>6
<1>8. \A i \in 1..Len(bs) : k + i \in 1..Len(cs) /\ g[k + i] = n + h[i] /\ h[i] \in 1..Len(r)
  <2>1. SUFFICES ASSUME NEW i \in 1..Len(bs)
                 PROVE  k + i \in 1..Len(cs) /\ g[k + i] = n + h[i] /\ h[i] \in 1..Len(r)
    OBVIOUS
  <2>2. k + i \in 1..Len(cs) /\ ~(k + i <= k) /\ (k + i) - k = i
    BY <1>3
  <2>3. h[i] \in 1..Len(r)
    BY <1>6
  <2> QED BY <2>2, <2>3
<1>9. \A i \in 1..Len(cs) : i \in 1..k \/ \E j \in 1..Len(bs) : i = k + j
  <2>1. SUFFICES ASSUME NEW i \in 1..Len(cs), i \notin 1..k
                 PROVE  \E j \in 1..Len(bs) : i = k + j
    OBVIOUS
  <2>2. i - k \in 1..Len(bs) /\ i = k + (i - k)
    BY <1>3, <2>1
  <2> QED BY <2>2
<1>10. \A p \in 1..Len(t) : p \in 1..n \/ \E j \in 1..Len(r) : p = n + j
  <2>1. SUFFICES ASSUME NEW p \in 1..Len(t), p \notin 1..n
                 PROVE  \E j \in 1..Len(r) : p = n + j
    OBVIOUS
  <2>2. p - n \in 1..Len(r) /\ p = n + (p - n)
    BY <1>2, <2>1
  <2> QED BY <2>2
<1> HIDE DEF g
<1>11. g \in [1..Len(cs) -> 1..Len(t)]
  <2>1. \A i \in 1..Len(cs) : g[i] \in 1..Len(t)
    <3>1. SUFFICES ASSUME NEW i \in 1..Len(cs)
                   PROVE  g[i] \in 1..Len(t)
      OBVIOUS
    <3>2. CASE i \in 1..k
      BY <3>2, <1>7, <1>2
    <3>3. ASSUME NEW j \in 1..Len(bs), i = k + j
          PROVE  g[i] \in 1..Len(t)
      <4>1. g[i] = n + h[j] /\ h[j] \in 1..Len(r)
        BY <3>3, <1>8
      <4> QED BY <4>1, <1>2
    <3> QED BY <3>2, <3>3, <1>9
  <2> QED BY <2>1 DEF g
<1>12. \A i, j \in 1..Len(cs) : i < j => g[i] < g[j]
  <2>1. SUFFICES ASSUME NEW i \in 1..Len(cs), NEW j \in 1..Len(cs), i < j
                 PROVE  g[i] < g[j]
    OBVIOUS
  <2>2. CASE j \in 1..k
    <3>1. i \in 1..k
      BY <2>1, <2>2, <1>3
    <3>2. g[i] = f[i] /\ g[j] = f[j] /\ f[i] < f[j]
      BY <3>1, <2>1, <2>2, <1>6, <1>7
    <3> QED BY <3>2
  <2>3. ASSUME NEW b \in 1..Len(bs), j = k + b
        PROVE  g[i] < g[j]
    <3>1. g[j] = n + h[b] /\ h[b] \in 1..Len(r)
      BY <2>3, <1>8
    <3>2. CASE i \in 1..k
      <4>1. g[i] \in 1..n
        BY <3>2, <1>7
      <4> QED BY <3>1, <4>1, <1>2
    <3>3. ASSUME NEW a \in 1..Len(bs), i = k + a
          PROVE  g[i] < g[j]
      <4>1. g[i] = n + h[a] /\ h[a] \in 1..Len(r)
        BY <3>3, <1>8
      <4>2. a < b
        BY <2>1, <2>3, <3>3, <1>3
      <4>3. h[a] < h[b]
        BY <4>2, <1>6
      <4> QED BY <3>1, <4>1, <4>3, <1>2
    <3> QED BY <3>2, <3>3, <1>9
  <2> QED BY <2>2, <2>3, <1>9
<1>13. \A i \in 1..Len(cs) : t[g[i]].kind = cs[i]
  <2>1. SUFFICES ASSUME NEW i \in 1..Len(cs)
                 PROVE  t[g[i]].kind = cs[i]
    OBVIOUS
  <2>2. CASE i \in 1..k
    <3>1. g[i] = f[i] /\ g[i] \in 1..n /\ cs[i] = al[i] /\ q[f[i]].kind = al[i]
      BY <2>2, <1>7, <1>3, <1>6
    <3>2. t[g[i]] = q[g[i]]
      BY <3>1, <1>2
    <3> QED BY <3>1, <3>2
  <2>3. ASSUME NEW j \in 1..Len(bs), i = k + j
        PROVE  t[g[i]].kind = cs[i]
    <3>1. g[i] = n + h[j] /\ h[j] \in 1..Len(r) /\ cs[i] = bs[j] /\ r[h[j]].kind = bs[j]
      BY <2>3, <1>8, <1>3, <1>6
    <3>2. t[n + h[j]] = r[h[j]]
      BY <3>1, <1>2
    <3> QED BY <3>1, <3>2
  <2> QED BY <2>2, <2>3, <1>9
<1>14. \A p \in 1..Len(t) : t[p].kind \notin News => \E i \in 1..Len(cs) : g[i] = p
  <2>1. SUFFICES ASSUME NEW p \in 1..Len(t), t[p].kind \notin News
                 PROVE  \E i \in 1..Len(cs) : g[i] = p
    OBVIOUS
  <2>2. CASE p \in 1..n
    <3>1. t[p] = q[p]
      BY <2>2, <1>2
    <3>2. PICK i \in 1..k : f[i] = p
      BY <3>1, <2>1, <2>2, <1>6
    <3> QED BY <3>2, <1>7
  <2>3. ASSUME NEW j \in 1..Len(r), p = n + j
        PROVE  \E i \in 1..Len(cs) : g[i] = p
    <3>1. t[p] = r[j]
      BY <2>3, <1>2
    <3>2. PICK i \in 1..Len(bs) : h[i] = j
      BY <3>1, <2>1, <1>6
    <3> QED BY <3>2, <2>3, <1>8
  <2> QED BY <2>2, <2>3, <1>10
<1>15. g \in Places(t, cs)
  BY <1>11, <1>12, <1>13, <1>14 DEF Places
<1>16. \A i \in 1..Len(cs) : cs[i] \notin News
  <2>1. SUFFICES ASSUME NEW i \in 1..Len(cs)
                 PROVE  cs[i] \notin News
    OBVIOUS
  <2>2. /\ \A j \in 1..k : al[j] \notin News
        /\ \A j \in 1..Len(bs) : bs[j] \notin News
    BY DEF Answers, k
  <2> QED BY <2>2, <1>3, <1>9
<1>17. IsQueue(t)
  BY <1>2, SeqIsQueue
<1>18. Answers(t, cs) /\ IsQueue(t)
  BY <1>15, <1>16, <1>17 DEF Answers
<1> QED BY <1>18 DEF t, cs

LEMMA AnswersOfOne ==
  ASSUME NEW m
  PROVE  /\ m.kind \in News => Answers(<<m>>, <<>>)
         /\ m.kind \notin News => Answers(<<m>>, <<m.kind>>)
         /\ Answers(<<>>, <<>>)
<1> DEFINE q == <<m>>
<1>1. /\ IsQueue(q) /\ Len(q) = 1 /\ q[1] = m
      /\ Len(<<>>) = 0 /\ IsQueue(<<>>)
  BY DEF IsQueue
<1> HIDE DEF q
<1>2. ASSUME m.kind \in News PROVE Answers(q, <<>>)
  <2> DEFINE f == [i \in 1..0 |-> 1]
  <2>1. f \in Places(q, <<>>)
    BY <1>1, <1>2 DEF Places
  <2> QED BY <2>1, <1>1 DEF Answers
<1>3. ASSUME m.kind \notin News PROVE Answers(q, <<m.kind>>)
  <2> DEFINE f  == [i \in 1..1 |-> 1]
             al == <<m.kind>>
  <2>1. Len(al) = 1 /\ al[1] = m.kind
    OBVIOUS
  <2> HIDE DEF al
  <2>2. f \in Places(q, al)
    BY <1>1, <2>1 DEF Places
  <2>3. Answers(q, al)
    BY <2>2, <2>1, <1>1, <1>3 DEF Answers
  <2> QED BY <2>3 DEF al
<1>4. Answers(<<>>, <<>>)
  <2> DEFINE f == [i \in 1..0 |-> 1]
  <2>1. f \in Places(<<>>, <<>>)
    BY <1>1 DEF Places
  <2> QED BY <2>1, <1>1 DEF Answers
<1> QED BY <1>2, <1>3, <1>4 DEF q

(* News that are taken leave the answers as they are.                      *)
LEMMA NewsTaken ==
  ASSUME NEW q, NEW al \in Seq(AnswerKinds), Answers(q, al), q # <<>>, Head(q).kind \in News
  PROVE  Answers(Tail(q), al)
<1> DEFINE t == Tail(q)
<1>1. /\ IsQueue(t) /\ Len(t) = Len(q) - 1 /\ Len(q) >= 1 /\ Len(q) \in Nat
      /\ \A i \in 1..Len(q) - 1 : t[i] = q[i + 1]
      /\ Head(q) = q[1]
  BY QueueTail DEF Answers, IsQueue
<1>2. PICK f \in Places(q, al) : TRUE
  BY DEF Answers
<1>3. /\ f \in [1..Len(al) -> 1..Len(q)] /\ Len(al) \in Nat
      /\ \A i, j \in 1..Len(al) : i < j => f[i] < f[j]
      /\ \A i \in 1..Len(al) : q[f[i]].kind = al[i]
      /\ \A i \in 1..Len(al) : al[i] \notin News
      /\ \A p \in 1..Len(q) : q[p].kind \notin News => \E i \in 1..Len(al) : f[i] = p
  <2>1. Len(al) \in Nat /\ \A i \in 1..Len(al) : al[i] \notin News
    BY DEF Answers
  <2> DEFINE k == Len(al)
             n == Len(q)
  <2>2. k \in Nat
    BY <2>1
  <2>3. /\ f \in [1..k -> 1..n]
        /\ \A i, j \in 1..k : i < j => f[i] < f[j]
        /\ \A i \in 1..k : q[f[i]].kind = al[i]
        /\ \A p \in 1..n : q[p].kind \notin News => \E i \in 1..k : f[i] = p
    BY <1>2 DEF Places
  <2> QED BY <2>1, <2>3
<1> HIDE DEF t
<1>4. \A i \in 1..Len(al) : f[i] # 1 /\ f[i] \in 1..Len(q) /\ f[i] - 1 \in 1..Len(t)
  <2>1. SUFFICES ASSUME NEW i \in 1..Len(al)
                 PROVE  f[i] # 1 /\ f[i] \in 1..Len(q) /\ f[i] - 1 \in 1..Len(t)
    OBVIOUS
  <2>2. f[i] \in 1..Len(q) /\ q[f[i]].kind \notin News
    BY <1>3
  <2>3. f[i] # 1
    BY <2>2, <1>1
  <2> QED BY <2>2, <2>3, <1>1
<1> DEFINE g == [i \in 1..Len(al) |-> f[i] - 1]
<1>5. g \in [1..Len(al) -> 1..Len(t)]
  BY <1>4
<1>6. \A i \in 1..Len(al) : t[g[i]] = q[f[i]]
  <2>1. SUFFICES ASSUME NEW i \in 1..Len(al)
                 PROVE  t[g[i]] = q[f[i]]
    OBVIOUS
  <2>2. g[i] = f[i] - 1 /\ g[i] \in 1..Len(q) - 1 /\ g[i] + 1 = f[i]
    BY <1>1, <1>4
  <2>3. t[g[i]] = q[g[i] + 1]
    BY <2>2, <1>1
  <2> QED BY <2>2, <2>3
<1>7. \A i, j \in 1..Len(al) : i < j => g[i] < g[j]
  BY <1>3, <1>4
<1>8. \A p \in 1..Len(t) : t[p].kind \notin News => \E i \in 1..Len(al) : g[i] = p
  <2>1. SUFFICES ASSUME NEW p \in 1..Len(t), t[p].kind \notin News
                 PROVE  \E i \in 1..Len(al) : g[i] = p
    OBVIOUS
  <2>2. p + 1 \in 1..Len(q) /\ p \in 1..Len(q) - 1 /\ (p + 1) - 1 = p
    BY <1>1
  <2>3. t[p] = q[p + 1]
    BY <2>2, <1>1
  <2>4. PICK i \in 1..Len(al) : f[i] = p + 1
    BY <2>1, <2>2, <2>3, <1>3
  <2>5. g[i] = p
    BY <2>2, <2>4
  <2> QED BY <2>5
<1> HIDE DEF g
<1>9. g \in Places(t, al)
  BY <1>3, <1>5, <1>6, <1>7, <1>8 DEF Places
<1>10. Answers(t, al)
  BY <1>1, <1>3, <1>9 DEF Answers
<1> QED BY <1>10 DEF t

(* The first message that is no news is the first answer.                  *)
LEMMA AnswerTaken ==
  ASSUME NEW q, NEW al \in Seq(AnswerKinds), Answers(q, al), q # <<>>, Head(q).kind \notin News
  PROVE  al # <<>> /\ Head(al) = Head(q).kind /\ Answers(Tail(q), Tail(al))
<1> DEFINE t  == Tail(q)
           bs == Tail(al)
<1>1. /\ IsQueue(t) /\ Len(t) = Len(q) - 1 /\ Len(q) >= 1 /\ Len(q) \in Nat
      /\ \A i \in 1..Len(q) - 1 : t[i] = q[i + 1]
      /\ Head(q) = q[1]
  BY QueueTail DEF Answers, IsQueue
<1>2. PICK f \in Places(q, al) : TRUE
  BY DEF Answers
<1>3. /\ f \in [1..Len(al) -> 1..Len(q)] /\ Len(al) \in Nat
      /\ \A i, j \in 1..Len(al) : i < j => f[i] < f[j]
      /\ \A i \in 1..Len(al) : q[f[i]].kind = al[i]
      /\ \A i \in 1..Len(al) : al[i] \notin News
      /\ \A p \in 1..Len(q) : q[p].kind \notin News => \E i \in 1..Len(al) : f[i] = p
  <2>1. Len(al) \in Nat /\ \A i \in 1..Len(al) : al[i] \notin News
    BY DEF Answers
  <2> DEFINE k == Len(al)
             n == Len(q)
  <2>2. k \in Nat
    BY <2>1
  <2>3. /\ f \in [1..k -> 1..n]
        /\ \A i, j \in 1..k : i < j => f[i] < f[j]
        /\ \A i \in 1..k : q[f[i]].kind = al[i]
        /\ \A p \in 1..n : q[p].kind \notin News => \E i \in 1..k : f[i] = p
    BY <1>2 DEF Places
  <2> QED BY <2>1, <2>3
<1>4. PICK first \in 1..Len(al) : f[first] = 1
  <2>1. 1 \in 1..Len(q) /\ q[1].kind \notin News
    BY <1>1
  <2> QED BY <2>1, <1>3
<1>5. Len(al) >= 1 /\ f[1] = 1
  <2>1. Len(al) >= 1 /\ 1 \in 1..Len(al)
    BY <1>3, <1>4
  <2>2. f[1] \in 1..Len(q) /\ f[first] \in 1..Len(q)
    BY <1>3, <2>1
  <2>3. CASE first = 1
    BY <2>1, <2>3, <1>4
  <2>4. CASE first # 1
    <3>1. 1 < first
      BY <2>4, <1>3
    <3>2. f[1] < f[first]
      BY <3>1, <2>1, <1>3
    <3> QED BY <3>2, <2>2, <1>4
  <2> QED BY <2>1, <2>3, <2>4
<1>6. /\ al # <<>> /\ Head(al) = al[1] /\ Len(bs) = Len(al) - 1
      /\ \A i \in 1..Len(al) - 1 : bs[i] = al[i + 1]
  <2>1. al # <<>>
    BY <1>5
  <2> QED BY <2>1
<1>7. Head(al) = Head(q).kind
  BY <1>1, <1>3, <1>5, <1>6
<1> HIDE DEF t, bs
<1> DEFINE g == [i \in 1..Len(bs) |-> f[i + 1] - 1]
<1>8. \A i \in 1..Len(bs) : /\ i \in 1..Len(al) /\ i + 1 \in 1..Len(al)
                            /\ f[i + 1] \in 2..Len(q) /\ f[i + 1] - 1 \in 1..Len(t)
                            /\ g[i] = f[i + 1] - 1
  <2>1. SUFFICES ASSUME NEW i \in 1..Len(bs)
                 PROVE  /\ i \in 1..Len(al) /\ i + 1 \in 1..Len(al)
                        /\ f[i + 1] \in 2..Len(q) /\ f[i + 1] - 1 \in 1..Len(t)
                        /\ g[i] = f[i + 1] - 1
    OBVIOUS
  <2>2. i \in 1..Len(al) /\ i + 1 \in 1..Len(al) /\ 1 \in 1..Len(al) /\ 1 < i + 1
    BY <1>3, <1>5, <1>6
  <2>3. f[1] < f[i + 1] /\ f[i + 1] \in 1..Len(q)
    BY <2>2, <1>3
  <2>4. f[i + 1] \in 2..Len(q) /\ f[i + 1] - 1 \in 1..Len(t)
    BY <2>3, <1>5, <1>1
  <2> QED BY <2>2, <2>4
<1>9. g \in [1..Len(bs) -> 1..Len(t)]
  BY <1>8
<1> HIDE DEF g
<1>10. \A i \in 1..Len(bs) : t[g[i]] = q[f[i + 1]]
  <2>1. SUFFICES ASSUME NEW i \in 1..Len(bs)
                 PROVE  t[g[i]] = q[f[i + 1]]
    OBVIOUS
  <2>2. g[i] \in 1..Len(q) - 1 /\ g[i] + 1 = f[i + 1]
    BY <1>1, <1>8
  <2>3. t[g[i]] = q[g[i] + 1]
    BY <2>2, <1>1
  <2> QED BY <2>2, <2>3
<1>11. \A i, j \in 1..Len(bs) : i < j => g[i] < g[j]
  <2>1. SUFFICES ASSUME NEW i \in 1..Len(bs), NEW j \in 1..Len(bs), i < j
                 PROVE  g[i] < g[j]
    OBVIOUS
  <2>2. f[i + 1] < f[j + 1]
    BY <2>1, <1>8, <1>3
  <2> QED BY <2>2, <1>8
<1>12. \A i \in 1..Len(bs) : t[g[i]].kind = bs[i] /\ bs[i] \notin News
  <2>1. SUFFICES ASSUME NEW i \in 1..Len(bs)
                 PROVE  t[g[i]].kind = bs[i] /\ bs[i] \notin News
    OBVIOUS
  <2>2. bs[i] = al[i + 1] /\ i + 1 \in 1..Len(al)
    BY <1>6, <1>8
  <2> QED BY <2>2, <1>3, <1>10
<1>13. \A p \in 1..Len(t) : t[p].kind \notin News => \E i \in 1..Len(bs) : g[i] = p
  <2>1. SUFFICES ASSUME NEW p \in 1..Len(t), t[p].kind \notin News
                 PROVE  \E i \in 1..Len(bs) : g[i] = p
    OBVIOUS
  <2>2. p + 1 \in 1..Len(q) /\ p \in 1..Len(q) - 1 /\ (p + 1) - 1 = p /\ p + 1 # 1
    BY <1>1
  <2>3. t[p] = q[p + 1]
    BY <2>2, <1>1
  <2>4. PICK i \in 1..Len(al) : f[i] = p + 1
    BY <2>1, <2>2, <2>3, <1>3
  <2>5. i # 1
    BY <2>2, <2>4, <1>5
  <2>6. i - 1 \in 1..Len(bs) /\ (i - 1) + 1 = i
    BY <2>5, <1>3, <1>6
  <2>7. g[i - 1] = p
    BY <2>2, <2>4, <2>6, <1>8
  <2> QED BY <2>6, <2>7
<1>14. g \in Places(t, bs)
  BY <1>9, <1>11, <1>12, <1>13 DEF Places
<1>15. Answers(t, bs)
  BY <1>1, <1>12, <1>14 DEF Answers
<1> QED BY <1>6, <1>7, <1>15 DEF t, bs
-----------------------------------------------------------------------------
(***************************************************************************)
(* The lists of kinds.                                                     *)
(***************************************************************************)
LEMMA Pair ==
  ASSUME NEW S, NEW r \in Seq(S), Len(r) = 2
  PROVE  r = <<r[1], r[2]>>
OBVIOUS

LEMMA Triple ==
  ASSUME NEW S, NEW r \in Seq(S), Len(r) = 3
  PROVE  r = <<r[1], r[2], r[3]>>
OBVIOUS

LEMMA Single ==
  ASSUME NEW u
  PROVE  /\ Head(<<u>>) = u /\ Tail(<<u>>) = <<>> /\ <<u>> # <<>>
         /\ Append(<<>>, u) = <<u>>
OBVIOUS

LEMMA Double ==
  ASSUME NEW u, NEW v
  PROVE  /\ Head(<<u, v>>) = u /\ Tail(<<u, v>>) = <<v>> /\ <<u, v>> # <<>>
         /\ Append(<<u>>, v) = <<u, v>>
<1>1. Head(<<u, v>>) = u /\ Tail(<<u, v>>) = <<v>> /\ <<u, v>> # <<>>
  OBVIOUS
<1>2. Append(<<u>>, v) = <<u, v>>
  <2> DEFINE r == Append(<<u>>, v)
  <2>1. r \in Seq({u, v}) /\ Len(r) = 2 /\ r[1] = u /\ r[2] = v
    OBVIOUS
  <2> HIDE DEF r
  <2>2. r = <<r[1], r[2]>>
    BY <2>1, Pair
  <2>3. r = <<u, v>>
    BY <2>1, <2>2
  <2> QED BY <2>3 DEF r
<1> QED BY <1>1, <1>2

LEMMA Treble ==
  ASSUME NEW u, NEW v, NEW w
  PROVE  /\ Head(<<u, v, w>>) = u /\ Tail(<<u, v, w>>) = <<v, w>> /\ <<u, v, w>> # <<>>
         /\ Append(<<u, v>>, w) = <<u, v, w>>
<1>1. Head(<<u, v, w>>) = u /\ Tail(<<u, v, w>>) = <<v, w>> /\ <<u, v, w>> # <<>>
  OBVIOUS
<1>2. Append(<<u, v>>, w) = <<u, v, w>>
  <2> DEFINE r == Append(<<u, v>>, w)
  <2>1. r \in Seq({u, v, w}) /\ Len(r) = 3 /\ r[1] = u /\ r[2] = v /\ r[3] = w
    OBVIOUS
  <2> HIDE DEF r
  <2>2. r = <<r[1], r[2], r[3]>>
    BY <2>1, Triple
  <2>3. r = <<u, v, w>>
    BY <2>1, <2>2
  <2> QED BY <2>3 DEF r
<1> QED BY <1>1, <1>2

LEMMA Joins ==
  ASSUME NEW u, NEW v
  PROVE  /\ <<>> \o <<>> = <<>>
         /\ <<>> \o <<u>> = <<u>> /\ <<>> \o <<u, v>> = <<u, v>>
         /\ <<u>> \o <<v>> = <<u, v>> /\ <<u>> \o <<>> = <<u>> /\ <<u, v>> \o <<>> = <<u, v>>
<1>1. <<>> \o <<>> = <<>>
  OBVIOUS
<1>2. <<>> \o <<u>> = <<u>> /\ <<>> \o <<u, v>> = <<u, v>>
  OBVIOUS
<1>3. <<u>> \o <<v>> = <<u, v>>
  <2> DEFINE r == <<u>> \o <<v>>
  <2>1. r \in Seq({u, v}) /\ Len(r) = 2 /\ r[1] = u /\ r[2] = v
    OBVIOUS
  <2> HIDE DEF r
  <2>2. r = <<r[1], r[2]>>
    BY <2>1, Pair
  <2>3. r = <<u, v>>
    BY <2>1, <2>2
  <2> QED BY <2>3 DEF r
<1>4. <<u>> \o <<>> = <<u>> /\ <<u, v>> \o <<>> = <<u, v>>
  OBVIOUS
<1> QED BY <1>1, <1>2, <1>3, <1>4

LEMMA UnreadLists ==
  ASSUME NEW j \in Unread
  PROVE  LET k == Append(j, "ShutdownCancelled")
         IN /\ k # <<>>
            /\ j = <<>> => k = <<"ShutdownCancelled">>
            /\ j # <<>> => /\ Head(k) = Head(j)
                           /\ Tail(k) = Append(Tail(j), "ShutdownCancelled")
                           /\ Tail(j) \in Unread
<1> DEFINE c == "ShutdownCancelled"
<1>1. CASE j = <<>>
  BY <1>1, Single, Double, Treble
<1>2. CASE j \in {<<"SaveYourself">>, <<"Interact">>}
  <2>1. PICK u : j = <<u>>
    BY <1>2
  <2>2. j # <<>> /\ Head(j) = u /\ Tail(j) = <<>>
    BY <2>1, Single, Double, Treble
  <2>3. Append(j, c) = <<u, c>> /\ Append(Tail(j), c) = <<c>>
    BY <2>1, <2>2, Single, Double, Treble
  <2>4. Head(<<u, c>>) = u /\ Tail(<<u, c>>) = <<c>> /\ <<u, c>> # <<>>
    BY Single, Double, Treble
  <2>5. Tail(j) \in Unread
    BY <2>2 DEF Unread
  <2> HIDE DEF c
  <2> QED BY <2>2, <2>3, <2>4, <2>5 DEF c
<1>3. CASE j \in {<<"SaveComplete", "SaveYourself">>, <<"ShutdownCancelled", "SaveYourself">>}
  <2>1. PICK u : j = <<u, "SaveYourself">>
    BY <1>3
  <2> DEFINE s == "SaveYourself"
  <2>2. j # <<>> /\ Head(j) = u /\ Tail(j) = <<s>>
    BY <2>1, Single, Double, Treble
  <2>3. Append(j, c) = <<u, s, c>> /\ Append(Tail(j), c) = <<s, c>>
    <3>1. Append(<<u, s>>, c) = <<u, s, c>>
      BY Treble
    <3>2. Append(<<s>>, c) = <<s, c>>
      BY Double
    <3> QED BY <3>1, <3>2, <2>1, <2>2
  <2>4. Head(<<u, s, c>>) = u /\ Tail(<<u, s, c>>) = <<s, c>> /\ <<u, s, c>> # <<>>
    BY Single, Double, Treble
  <2>5. Tail(j) \in Unread
    BY <2>2 DEF Unread
  <2> HIDE DEF c, s
  <2> QED BY <2>2, <2>3, <2>4, <2>5 DEF c
<1> QED BY <1>1, <1>2, <1>3 DEF Unread

LEMMA AnswerListsAreSeqs ==
  ASSUME NEW a \in AnswerLists
  PROVE  a \in Seq(AnswerKinds)
<1>1. ASSUME NEW S, NEW u \in S, NEW v \in S
      PROVE  <<>> \in Seq(S) /\ <<u>> \in Seq(S) /\ <<u, v>> \in Seq(S)
  OBVIOUS
<1>2. \/ a = <<>> \/ \E u \in AnswerKinds : a = <<u>>
      \/ \E u, v \in AnswerKinds : a = <<u, v>>
  BY DEF AnswerLists, AnswerKinds
<1>3. CASE a = <<>>
  BY <1>3
<1>4. ASSUME NEW u \in AnswerKinds, a = <<u>>
      PROVE  a \in Seq(AnswerKinds)
  BY <1>1, <1>4
<1>5. ASSUME NEW u \in AnswerKinds, NEW v \in AnswerKinds, a = <<u, v>>
      PROVE  a \in Seq(AnswerKinds)
  BY <1>1, <1>5
<1> QED BY <1>2, <1>3, <1>4, <1>5
-----------------------------------------------------------------------------
(***************************************************************************)
(* What a round becomes.  First without a cancellation.                    *)
(***************************************************************************)
LEMMA RoundSaves ==
  ASSUME NEW m, NEW x, NEW j, NEW a, InRound(m, x, j, a), j # <<>>, Head(j) = "SaveYourself"
  PROVE  /\ Ready(x) /\ a = <<>>
         /\ \A y : /\ PutOff(y) => InRound(m, y, Tail(j), <<>>)
                   /\ In(y, "interact-request") => InRound(m, y, Tail(j), <<"InteractRequest">>)
                   /\ In(y, "save-yourself-done") => InRound(m, y, Tail(j), <<"SaveYourselfDone">>)
<1>1. m = "saving" /\ j = <<"SaveYourself">> /\ Ready(x) /\ a = <<>>
  BY Single, Double, Treble DEF InRound, Saving, Granted
<1>2. Tail(j) = <<>>
  BY <1>1, Single, Double, Treble
<1> QED BY <1>1, <1>2 DEF InRound, Saving

LEMMA RoundInteracts ==
  ASSUME NEW m, NEW x, NEW j, NEW a, InRound(m, x, j, a), j # <<>>, Head(j) = "Interact"
  PROVE  /\ In(x, "interact-request") /\ a = <<>>
         /\ \A y : In(y, "interact") => InRound(m, y, Tail(j), <<>>)
<1>1. m = "granted" /\ j = <<"Interact">> /\ In(x, "interact-request") /\ a = <<>>
  BY Single, Double, Treble DEF InRound, Saving, Granted
<1>2. Tail(j) = <<>>
  BY <1>1, Single, Double, Treble
<1> QED BY <1>1, <1>2 DEF InRound, Granted

(* The end of the round before.                                            *)
LEMMA RoundBegins ==
  ASSUME NEW m, NEW x, NEW j, NEW a, InRound(m, x, j, a), j # <<>>,
         Head(j) \in {"SaveComplete", "ShutdownCancelled"}
  PROVE  /\ In(x, "save-yourself-done") /\ a = <<>>
         /\ \A y : In(y, "idle") => InRound(m, y, Tail(j), a)
<1>1. /\ m = "saving" /\ In(x, "save-yourself-done") /\ a = <<>>
      /\ j \in {<<"SaveComplete", "SaveYourself">>, <<"ShutdownCancelled", "SaveYourself">>}
  BY Single, Double, Treble DEF InRound, Saving, Granted
<1>2. Tail(j) = <<"SaveYourself">>
  <2>1. PICK u : j = <<u, "SaveYourself">>
    BY <1>1
  <2> QED BY <2>1, Single, Double, Treble
<1> QED BY <1>1, <1>2 DEF InRound, Saving, Ready

(* What a round has to say of the client when nothing is left to be read.  *)
LEMMA RoundRead ==
  ASSUME NEW m, NEW x, NEW a, InRound(m, x, <<>>, a)
  PROVE  \/ PutOff(x) /\ a = <<>>
         \/ In(x, "interact-request") /\ a \in {<<>>, <<"InteractRequest">>}
         \/ In(x, "interact") /\ a = <<>>
         \/ /\ In(x, "save-yourself-done")
            /\ a \in {<<"SaveYourselfDone">>, <<"InteractDone", "SaveYourselfDone">>}
BY Single, Double, Treble DEF InRound, Saving, Granted

LEMMA RoundKinds ==
  ASSUME NEW m, NEW x, NEW j, NEW a, InRound(m, x, j, a)
  PROVE  /\ j \in Unread /\ m \in Owing
         /\ j # <<>> => Head(j) \in {"SaveYourself", "Interact", "SaveComplete", "ShutdownCancelled"}
         /\ x.state \in {"idle", "shutdown-cancelled", "save-yourself-done", "interact-request",
                         "interact"}
         /\ x.save_myself = 0 \/ PutOff(x)
BY Single, Double, Treble DEF InRound, Saving, Granted, Unread, Owing, Ready, PutOff, In

(* Rounds end, or go on, for a client that has put a request off.          *)
LEMMA RoundResumes ==
  ASSUME NEW m, NEW x, NEW j, NEW a, InRound(m, x, j, a), x.save_myself = 1
  PROVE  /\ x.state = "shutdown-cancelled" /\ a = <<>>
         /\ \A y : /\ PutOff(y) => InRound(m, y, j, <<>>)
                   /\ In(y, "interact-request") => InRound(m, y, j, <<"InteractRequest">>)
                   /\ In(y, "save-yourself-done") => InRound(m, y, j, <<"SaveYourselfDone">>)
<1>1. m = "saving" /\ j = <<>> /\ PutOff(x) /\ a = <<>>
  BY DEF InRound, Saving, Granted, In, Ready
<1> QED BY <1>1 DEF InRound, Saving, PutOff

LEMMA RoundAnswers ==
  ASSUME NEW m, NEW x, NEW j, NEW a, InRound(m, x, j, a), x.state = "interact"
  PROVE  /\ In(x, "interact") /\ a = <<>>
         /\ \A y : In(y, "save-yourself-done") =>
              InRound(m, y, j, <<"InteractDone", "SaveYourselfDone">>)
<1>1. m = "granted" /\ j = <<>> /\ In(x, "interact") /\ a = <<>>
  BY DEF InRound, Saving, Granted, In, Ready, PutOff
<1> QED BY <1>1 DEF InRound, Granted

LEMMA RoundWakes ==
  ASSUME NEW m, NEW x, NEW j, NEW a, InRound(m, x, j, a), In(x, "shutdown-cancelled")
  PROVE  \A y : In(y, "idle") => InRound(m, y, j, a)
<1>1. m = "saving" /\ j = <<"SaveYourself">> /\ a = <<>>
  BY DEF InRound, Saving, Granted, In, Ready, PutOff
<1> QED BY <1>1 DEF InRound, Saving, Ready

LEMMA RoundSame ==
  ASSUME NEW m, NEW x, NEW j, NEW a, InRound(m, x, j, a),
         NEW y, y.state = x.state, y.save_myself = x.save_myself
  PROVE  InRound(m, y, j, a)
BY DEF InRound, Saving, Granted, In, Ready, PutOff
-----------------------------------------------------------------------------
(***************************************************************************)
(* What the conversation becomes when the client acts.                     *)
(***************************************************************************)

(* A client that acts within a cancelled round, before it has read that it *)
(* is cancelled.                                                           *)
LEMMA StillCancelled ==
  ASSUME NEW j \in Unread, NEW m \in Owing, NEW y, NEW b, InRound(m, y, j, b)
  PROVE  Talk("cancelled", y, Append(j, "ShutdownCancelled"), b)
BY DEF Talk, Cancelled

(* What is the next message for the client, and what is it about?          *)
LEMMA NextMessage ==
  ASSUME NEW m, NEW x, NEW k, NEW a, Talk(m, x, k, a), k # <<>>
  PROVE  \/ m = "idle" /\ AtRest(x, k) /\ Tail(k) = <<>> /\ a = <<>>
            /\ In(x, "save-yourself-done") /\ Head(k) \in {"SaveComplete", "ShutdownCancelled"}
         \/ m \in Owing /\ InRound(m, x, k, a)
         \/ m = "closed" /\ k = <<"Die">> /\ a = <<>> /\ Head(k) = "Die" /\ Tail(k) = <<>>
            /\ In(x, "save-yourself-done")
         \/ /\ m = "cancelled" /\ k = <<"ShutdownCancelled">> /\ Head(k) = "ShutdownCancelled"
            /\ Tail(k) = <<>> /\ \E o \in Owing : InRound(o, x, <<>>, a)
         \/ /\ m = "cancelled"
            /\ \E j \in Unread, o \in Owing :
                 /\ j # <<>> /\ InRound(o, x, j, a) /\ Head(k) = Head(j)
                 /\ Tail(j) \in Unread /\ Tail(k) = Append(Tail(j), "ShutdownCancelled")
<1>1. CASE m = "idle" /\ AtRest(x, k) /\ a = <<>>
  <2>1. PICK u \in {"SaveComplete", "ShutdownCancelled"} : k = <<u>> /\ In(x, "save-yourself-done")
    BY <1>1 DEF AtRest
  <2>2. Head(k) = u /\ Tail(k) = <<>>
    BY <2>1, Single
  <2> QED BY <1>1, <2>1, <2>2
<1>2. CASE InRound(m, x, k, a)
  BY <1>2, RoundKinds
<1>3. CASE m = "cancelled" /\ Cancelled(x, k, a)
  <2>1. PICK j \in Unread, o \in Owing : k = Append(j, "ShutdownCancelled") /\ InRound(o, x, j, a)
    BY <1>3 DEF Cancelled
  <2>2. CASE j = <<>>
    <3>1. k = <<"ShutdownCancelled">>
      BY <2>1, <2>2, UnreadLists
    <3>2. Head(k) = "ShutdownCancelled" /\ Tail(k) = <<>>
      BY <3>1, Single
    <3> QED BY <1>3, <2>1, <2>2, <3>1, <3>2
  <2>3. CASE j # <<>>
    <3>1. /\ Head(k) = Head(j) /\ Tail(j) \in Unread
          /\ Tail(k) = Append(Tail(j), "ShutdownCancelled")
      BY <2>1, <2>3, UnreadLists
    <3> QED BY <1>3, <2>1, <2>3, <3>1
  <2> QED BY <2>2, <2>3
<1>4. CASE m = "closed" /\ k = <<"Die">> /\ In(x, "save-yourself-done") /\ a = <<>>
  BY <1>4, Single
<1> QED BY <1>1, <1>2, <1>3, <1>4 DEF Talk

LEMMA TalkSaves ==
  ASSUME NEW m, NEW x, NEW k, NEW a, Talk(m, x, k, a), k # <<>>, Head(k) = "SaveYourself"
  PROVE  /\ Ready(x) /\ a = <<>>
         /\ \A y : /\ PutOff(y) => Talk(m, y, Tail(k), <<>>)
                   /\ In(y, "interact-request") => Talk(m, y, Tail(k), <<"InteractRequest">>)
                   /\ In(y, "save-yourself-done") => Talk(m, y, Tail(k), <<"SaveYourselfDone">>)
<1>1. CASE InRound(m, x, k, a)
  BY <1>1, RoundSaves DEF Talk
<1>2. ASSUME m = "cancelled", NEW j \in Unread, NEW o \in Owing, j # <<>>, InRound(o, x, j, a),
             Head(k) = Head(j), Tail(j) \in Unread,
             Tail(k) = Append(Tail(j), "ShutdownCancelled")
      PROVE  /\ Ready(x) /\ a = <<>>
             /\ \A y : /\ PutOff(y) => Talk(m, y, Tail(k), <<>>)
                       /\ In(y, "interact-request") => Talk(m, y, Tail(k), <<"InteractRequest">>)
                       /\ In(y, "save-yourself-done") => Talk(m, y, Tail(k), <<"SaveYourselfDone">>)
  <2>1. /\ Ready(x) /\ a = <<>>
        /\ \A y : /\ PutOff(y) => InRound(o, y, Tail(j), <<>>)
                  /\ In(y, "interact-request") => InRound(o, y, Tail(j), <<"InteractRequest">>)
                  /\ In(y, "save-yourself-done") => InRound(o, y, Tail(j), <<"SaveYourselfDone">>)
    BY <1>2, RoundSaves
  <2> QED BY <1>2, <2>1, StillCancelled
<1> QED BY <1>1, <1>2, NextMessage

LEMMA TalkInteracts ==
  ASSUME NEW m, NEW x, NEW k, NEW a, Talk(m, x, k, a), k # <<>>, Head(k) = "Interact"
  PROVE  /\ In(x, "interact-request") /\ a = <<>>
         /\ \A y : In(y, "interact") => Talk(m, y, Tail(k), <<>>)
<1>1. CASE InRound(m, x, k, a)
  BY <1>1, RoundInteracts DEF Talk
<1>2. ASSUME m = "cancelled", NEW j \in Unread, NEW o \in Owing, j # <<>>, InRound(o, x, j, a),
             Head(k) = Head(j), Tail(j) \in Unread,
             Tail(k) = Append(Tail(j), "ShutdownCancelled")
      PROVE  /\ In(x, "interact-request") /\ a = <<>>
             /\ \A y : In(y, "interact") => Talk(m, y, Tail(k), <<>>)
  <2>1. /\ In(x, "interact-request") /\ a = <<>>
        /\ \A y : In(y, "interact") => InRound(o, y, Tail(j), <<>>)
    BY <1>2, RoundInteracts
  <2> QED BY <1>2, <2>1, StillCancelled
<1> QED BY <1>1, <1>2, NextMessage

(* The end of a round that the client has answered.                        *)
LEMMA TalkEnds ==
  ASSUME NEW m, NEW x, NEW k, NEW a, Talk(m, x, k, a), k # <<>>,
         \/ Head(k) = "SaveComplete"
         \/ Head(k) = "ShutdownCancelled" /\ x.state = "save-yourself-done"
  PROVE  In(x, "save-yourself-done") /\ \A y : In(y, "idle") => Talk(m, y, Tail(k), a)
<1>1. CASE m = "idle" /\ In(x, "save-yourself-done") /\ Tail(k) = <<>> /\ a = <<>>
  BY <1>1 DEF Talk, AtRest, Ready
<1>2. CASE InRound(m, x, k, a)
  BY <1>2, RoundBegins DEF Talk
<1>3. ASSUME m = "cancelled", NEW j \in Unread, NEW o \in Owing, j # <<>>, InRound(o, x, j, a),
             Head(k) = Head(j), Tail(j) \in Unread,
             Tail(k) = Append(Tail(j), "ShutdownCancelled")
      PROVE  In(x, "save-yourself-done") /\ \A y : In(y, "idle") => Talk(m, y, Tail(k), a)
  <2>1. In(x, "save-yourself-done") /\ \A y : In(y, "idle") => InRound(o, y, Tail(j), a)
    BY <1>3, RoundBegins
  <2> QED BY <1>3, <2>1, StillCancelled
<1>4. ASSUME m = "cancelled", k = <<"ShutdownCancelled">>, Tail(k) = <<>>,
             Head(k) = "ShutdownCancelled", NEW o \in Owing, InRound(o, x, <<>>, a)
      PROVE  In(x, "save-yourself-done") /\ \A y : In(y, "idle") => Talk(m, y, Tail(k), a)
  <2>1. /\ In(x, "save-yourself-done")
        /\ a \in {<<"SaveYourselfDone">>, <<"InteractDone", "SaveYourselfDone">>}
    BY <1>4, RoundRead DEF In, PutOff
  <2>2. a # <<"InteractRequest">>
    BY <2>1, Single, Double
  <2> QED BY <1>4, <2>1, <2>2 DEF Talk, Cancelled, Ready
<1> QED BY <1>1, <1>2, <1>3, <1>4, NextMessage

(* A cancellation of what the client has not answered yet.                 *)
LEMMA TalkCancelled ==
  ASSUME NEW m, NEW x, NEW k, NEW a, Talk(m, x, k, a), k # <<>>,
         Head(k) = "ShutdownCancelled", x.state # "save-yourself-done"
  PROVE  \/ /\ PutOff(x) /\ a = <<>>
            /\ \A y : In(y, "shutdown-cancelled") => Talk(m, y, Tail(k), a)
         \/ /\ In(x, "interact-request") \/ In(x, "interact")
            /\ a \in {<<>>, <<"InteractRequest">>}
            /\ \A y : Ready(y) => Talk(m, y, Tail(k), a \o <<"SaveYourselfDone">>)
<1>1. /\ m = "cancelled" /\ Tail(k) = <<>>
      /\ \E o \in Owing : InRound(o, x, <<>>, a)
  <2>1. ASSUME InRound(m, x, k, a) PROVE FALSE
    BY <2>1, RoundBegins DEF In
  <2>2. ASSUME NEW j, NEW o, j # <<>>, InRound(o, x, j, a), Head(k) = Head(j)
        PROVE  FALSE
    BY <2>2, RoundBegins DEF In
  <2> QED BY <2>1, <2>2, NextMessage DEF In
<1>2. \/ PutOff(x) /\ a = <<>>
      \/ (In(x, "interact-request") \/ In(x, "interact")) /\ a \in {<<>>, <<"InteractRequest">>}
  BY <1>1, RoundRead DEF In
<1>3. CASE PutOff(x) /\ a = <<>>
  <2>1. a # <<"InteractRequest">>
    BY <1>3, Single
  <2> QED BY <1>1, <1>3, <2>1 DEF Talk, Cancelled, Ready
<1>4. CASE (In(x, "interact-request") \/ In(x, "interact")) /\ a \in {<<>>, <<"InteractRequest">>}
  <2> DEFINE b == a \o <<"SaveYourselfDone">>
  <2>1. b \in {<<"SaveYourselfDone">>, <<"InteractRequest", "SaveYourselfDone">>}
    BY <1>4, Joins
  <2>2. b # <<"InteractRequest">>
    BY <2>1, Single, Double
  <2> HIDE DEF b
  <2>3. \A y : Ready(y) => Talk(m, y, Tail(k), b)
    BY <1>1, <2>2 DEF Talk, Cancelled
  <2> QED BY <1>4, <2>3 DEF b
<1> QED BY <1>2, <1>3, <1>4

LEMMA TalkDies ==
  ASSUME NEW m, NEW x, NEW k, NEW a, Talk(m, x, k, a), k # <<>>, Head(k) = "Die"
  PROVE  m = "closed" /\ In(x, "save-yourself-done") /\ a = <<>>
<1>1. ASSUME NEW j, NEW o, j # <<>>, InRound(o, x, j, a) PROVE Head(j) # "Die"
  BY <1>1, RoundKinds
<1> QED BY <1>1, NextMessage

LEMMA TalkKinds ==
  ASSUME NEW m, NEW x, NEW k, NEW a, Talk(m, x, k, a)
  PROVE  /\ x.state \in {"idle", "shutdown-cancelled", "save-yourself-done", "interact-request",
                         "interact"}
         /\ x.save_myself = 0 \/ PutOff(x)
BY RoundKinds DEF Talk, Cancelled, AtRest, Ready, In

LEMMA TalkSame ==
  ASSUME NEW m, NEW x, NEW k, NEW a, Talk(m, x, k, a),
         NEW y, y.state = x.state, y.save_myself = x.save_myself
  PROVE  Talk(m, y, k, a)
<1>1. /\ Ready(x) <=> Ready(y)
      /\ PutOff(x) <=> PutOff(y)
      /\ In(x, "save-yourself-done") <=> In(y, "save-yourself-done")
  BY DEF Ready, PutOff, In
<1>2. AtRest(x, k) <=> AtRest(y, k)
  BY <1>1 DEF AtRest
<1>3. \A o, j : InRound(o, x, j, a) => InRound(o, y, j, a)
  BY RoundSame
<1>4. Cancelled(x, k, a) => Cancelled(y, k, a)
  BY <1>1, <1>3 DEF Cancelled
<1> QED BY <1>1, <1>2, <1>3, <1>4 DEF Talk

(* The application answers the question.                                   *)
LEMMA TalkAnswers ==
  ASSUME NEW m, NEW x, NEW k, NEW a, Talk(m, x, k, a), x.state = "interact"
  PROVE  /\ In(x, "interact") /\ a = <<>>
         /\ \A y : In(y, "save-yourself-done") =>
              Talk(m, y, k, <<"InteractDone", "SaveYourselfDone">>)
<1>1. CASE InRound(m, x, k, a)
  BY <1>1, RoundAnswers DEF Talk
<1>2. ASSUME m = "cancelled", NEW j \in Unread, NEW o \in Owing,
             k = Append(j, "ShutdownCancelled"), InRound(o, x, j, a)
      PROVE  /\ In(x, "interact") /\ a = <<>>
             /\ \A y : In(y, "save-yourself-done") =>
                  Talk(m, y, k, <<"InteractDone", "SaveYourselfDone">>)
  <2>1. /\ In(x, "interact") /\ a = <<>>
        /\ \A y : In(y, "save-yourself-done") =>
             InRound(o, y, j, <<"InteractDone", "SaveYourselfDone">>)
    BY <1>2, RoundAnswers
  <2> QED BY <1>2, <2>1, StillCancelled
<1> QED BY <1>1, <1>2 DEF Talk, Cancelled, AtRest, Ready, In

(* The client wakes up from a cancelled question.                          *)
LEMMA TalkWakes ==
  ASSUME NEW m, NEW x, NEW k, NEW a, Talk(m, x, k, a), In(x, "shutdown-cancelled")
  PROVE  \A y : In(y, "idle") => Talk(m, y, k, a)
<1>1. CASE InRound(m, x, k, a)
  BY <1>1, RoundWakes DEF Talk
<1>2. ASSUME m = "cancelled", NEW j \in Unread, NEW o \in Owing,
             k = Append(j, "ShutdownCancelled"), InRound(o, x, j, a)
      PROVE  \A y : In(y, "idle") => Talk(m, y, k, a)
  <2>1. \A y : In(y, "idle") => InRound(o, y, j, a)
    BY <1>2, RoundWakes
  <2> QED BY <1>2, <2>1, StillCancelled
<1>3. CASE m = "cancelled" /\ k = <<>> /\ a # <<"InteractRequest">>
  BY <1>3 DEF Talk, Cancelled, Ready
<1>4. CASE m \in {"registering", "idle"} /\ k = <<>> /\ a = <<>>
  BY <1>4 DEF Talk, AtRest, Ready
<1> QED BY <1>1, <1>2, <1>3, <1>4 DEF Talk, Cancelled, AtRest, In

(* The client turns to a request that was put off.                         *)
LEMMA TalkResumes ==
  ASSUME NEW m, NEW x, NEW k, NEW a, Talk(m, x, k, a), x.save_myself = 1
  PROVE  /\ x.state = "shutdown-cancelled" /\ a = <<>>
         /\ \A y : /\ PutOff(y) => Talk(m, y, k, <<>>)
                   /\ In(y, "interact-request") => Talk(m, y, k, <<"InteractRequest">>)
                   /\ In(y, "save-yourself-done") => Talk(m, y, k, <<"SaveYourselfDone">>)
<1>1. CASE InRound(m, x, k, a)
  BY <1>1, RoundResumes DEF Talk
<1>2. ASSUME m = "cancelled", NEW j \in Unread, NEW o \in Owing,
             k = Append(j, "ShutdownCancelled"), InRound(o, x, j, a)
      PROVE  /\ x.state = "shutdown-cancelled" /\ a = <<>>
             /\ \A y : /\ PutOff(y) => Talk(m, y, k, <<>>)
                       /\ In(y, "interact-request") => Talk(m, y, k, <<"InteractRequest">>)
                       /\ In(y, "save-yourself-done") => Talk(m, y, k, <<"SaveYourselfDone">>)
  <2>1. /\ x.state = "shutdown-cancelled" /\ a = <<>>
        /\ \A y : /\ PutOff(y) => InRound(o, y, j, <<>>)
                  /\ In(y, "interact-request") => InRound(o, y, j, <<"InteractRequest">>)
                  /\ In(y, "save-yourself-done") => InRound(o, y, j, <<"SaveYourselfDone">>)
    BY <1>2, RoundResumes
  <2> QED BY <1>2, <2>1, StillCancelled
<1> QED BY <1>1, <1>2 DEF Talk, Cancelled, AtRest, Ready, In
-----------------------------------------------------------------------------
(***************************************************************************)
(* What the conversation becomes when the manager acts.                    *)
(***************************************************************************)

(* An answer is expected, and the round goes on or ends.                   *)
LEMMA RoundHears ==
  ASSUME NEW m, NEW x, NEW j, NEW a, InRound(m, x, j, a), a # <<>>
  PROVE  \/ /\ m \in {"saving", "finishing"} /\ Head(a) = "SaveYourselfDone"
            /\ j = <<>> /\ In(x, "save-yourself-done") /\ Tail(a) = <<>>
         \/ m = "saving" /\ Head(a) = "InteractRequest" /\ InRound("asked", x, j, Tail(a))
         \/ m = "granted" /\ Head(a) = "InteractDone" /\ InRound("finishing", x, j, Tail(a))
<1>1. \/ m \in {"saving", "finishing"} /\ a = <<"SaveYourselfDone">> /\ j = <<>>
         /\ In(x, "save-yourself-done")
      \/ m = "saving" /\ a = <<"InteractRequest">> /\ j = <<>> /\ In(x, "interact-request")
      \/ m = "granted" /\ a = <<"InteractDone", "SaveYourselfDone">> /\ j = <<>>
         /\ In(x, "save-yourself-done")
  BY DEF InRound, Saving, Granted
<1>2. CASE a = <<"SaveYourselfDone">>
  <2>1. Head(a) = "SaveYourselfDone" /\ Tail(a) = <<>> /\ a # <<"InteractRequest">>
    BY <1>2, Single
  <2>2. a # <<"InteractDone", "SaveYourselfDone">>
    BY <1>2, Single, Double
  <2> QED BY <1>1, <2>1, <2>2
<1>3. CASE m = "saving" /\ a = <<"InteractRequest">> /\ j = <<>> /\ In(x, "interact-request")
  <2>1. Head(a) = "InteractRequest" /\ Tail(a) = <<>>
    BY <1>3, Single
  <2> QED BY <1>3, <2>1 DEF InRound
<1>4. CASE /\ m = "granted" /\ a = <<"InteractDone", "SaveYourselfDone">> /\ j = <<>>
           /\ In(x, "save-yourself-done")
  <2>1. Head(a) = "InteractDone" /\ Tail(a) = <<"SaveYourselfDone">>
    BY <1>4, Double
  <2> QED BY <1>4, <2>1 DEF InRound
<1> QED BY <1>1, <1>2, <1>3, <1>4

LEMMA TalkHears ==
  ASSUME NEW m, NEW x, NEW k, NEW a \in AnswerLists, Talk(m, x, k, a), a # <<>>,
         NEW w, w.kind = Head(a)
  PROVE  Answered(m, w)[2] = 0 /\ Talk(Answered(m, w)[1], x, k, Tail(a))
<1>1. CASE InRound(m, x, k, a)
  <2>1. CASE /\ m \in {"saving", "finishing"} /\ Head(a) = "SaveYourselfDone"
             /\ k = <<>> /\ In(x, "save-yourself-done") /\ Tail(a) = <<>>
    <3>1. Answered(m, w) = <<"saved", 0>>
      BY <2>1 DEF Answered
    <3> QED BY <2>1, <3>1 DEF Talk
  <2>2. CASE m = "saving" /\ Head(a) = "InteractRequest" /\ InRound("asked", x, k, Tail(a))
    <3>1. Answered(m, w) = <<"asked", 0>>
      BY <2>2 DEF Answered
    <3> QED BY <2>2, <3>1 DEF Talk
  <2>3. CASE m = "granted" /\ Head(a) = "InteractDone" /\ InRound("finishing", x, k, Tail(a))
    <3>1. Answered(m, w) = <<"finishing", 0>>
      BY <2>3 DEF Answered
    <3> QED BY <2>3, <3>1 DEF Talk
  <2> QED BY <1>1, <2>1, <2>2, <2>3, RoundHears
<1>2. ASSUME m = "cancelled", NEW j \in Unread, NEW o \in Owing,
             k = Append(j, "ShutdownCancelled"), InRound(o, x, j, a)
      PROVE  Answered(m, w)[2] = 0 /\ Talk(Answered(m, w)[1], x, k, Tail(a))
  <2>1. CASE /\ Head(a) = "SaveYourselfDone"
             /\ j = <<>> /\ In(x, "save-yourself-done") /\ Tail(a) = <<>>
    <3>1. Answered(m, w) = <<"idle", 0>>
      BY <1>2, <2>1 DEF Answered
    <3>2. k = <<"ShutdownCancelled">>
      BY <1>2, <2>1, UnreadLists
    <3> QED BY <2>1, <3>1, <3>2 DEF Talk, AtRest
  <2>2. ASSUME Head(a) # "SaveYourselfDone", Head(a) \notin News, NEW p \in Owing,
               InRound(p, x, j, Tail(a))
        PROVE  Answered(m, w)[2] = 0 /\ Talk(Answered(m, w)[1], x, k, Tail(a))
    <3>1. Answered(m, w) = <<"cancelled", 0>>
      BY <1>2, <2>2 DEF Answered, News
    <3> QED BY <1>2, <2>2, <3>1, StillCancelled
  <2> QED BY <1>2, <2>1, <2>2, RoundHears DEF Owing, News
<1>3. CASE m = "cancelled" /\ k = <<>> /\ Ready(x) /\ a # <<"InteractRequest">>
  <2>1. \/ a = <<"SaveYourselfDone">>
        \/ \E u \in {"InteractDone", "InteractRequest"} : a = <<u, "SaveYourselfDone">>
    BY <1>3 DEF AnswerLists
  <2>2. CASE a = <<"SaveYourselfDone">>
    <3>1. Head(a) = "SaveYourselfDone" /\ Tail(a) = <<>>
      BY <2>2, Single
    <3>2. Answered(m, w) = <<"idle", 0>>
      BY <1>3, <3>1 DEF Answered
    <3> QED BY <1>3, <3>1, <3>2 DEF Talk, AtRest
  <2>3. ASSUME NEW u \in {"InteractDone", "InteractRequest"}, a = <<u, "SaveYourselfDone">>
        PROVE  Answered(m, w)[2] = 0 /\ Talk(Answered(m, w)[1], x, k, Tail(a))
    <3>1. Head(a) = u /\ Tail(a) = <<"SaveYourselfDone">>
      BY <2>3, Double
    <3>2. Answered(m, w) = <<"cancelled", 0>>
      BY <1>3, <3>1 DEF Answered
    <3> QED BY <1>3, <3>1, <3>2 DEF Talk, Cancelled
  <2> QED BY <2>1, <2>2, <2>3
<1> QED BY <1>1, <1>2, <1>3 DEF Talk, Cancelled

LEMMA TailOfAnswers ==
  ASSUME NEW a \in AnswerLists, a # <<>>
  PROVE  Tail(a) \in AnswerLists
<1>1. \/ \E u : a = <<u>>
      \/ \E u : a = <<u, "SaveYourselfDone">>
  BY DEF AnswerLists
<1>2. Tail(a) \in {<<>>, <<"SaveYourselfDone">>}
  BY <1>1, Single, Double
<1> QED BY <1>2 DEF AnswerLists

LEMMA NewsHeard ==
  ASSUME NEW m, NEW w, w.kind \in News
  PROVE  Answered(m, w)[1] = m /\ Answered(m, w)[2] = 0
BY DEF Answered, News

(* The manager speaks.                                                     *)
LEMMA TalkAsks ==
  ASSUME NEW m \in {"registering", "idle"}, NEW x, NEW k, NEW a, Talk(m, x, k, a)
  PROVE  a = <<>> /\ Talk("saving", x, Append(k, "SaveYourself"), <<>>)
<1>1. a = <<>> /\ AtRest(x, k)
  BY DEF Talk, AtRest, InRound
<1>2. CASE k = <<>> /\ Ready(x)
  <2>1. Append(k, "SaveYourself") = <<"SaveYourself">>
    BY <1>2, Single
  <2> QED BY <1>1, <1>2, <2>1 DEF Talk, InRound, Saving
<1>3. ASSUME NEW u \in {"SaveComplete", "ShutdownCancelled"}, k = <<u>>,
             In(x, "save-yourself-done")
      PROVE  Talk("saving", x, Append(k, "SaveYourself"), <<>>)
  <2>1. Append(k, "SaveYourself") = <<u, "SaveYourself">>
    BY <1>3, Double
  <2> QED BY <1>3, <2>1 DEF Talk, InRound, Saving
<1> QED BY <1>1, <1>2, <1>3 DEF AtRest

LEMMA TalkGrants ==
  ASSUME NEW x, NEW k, NEW a, Talk("asked", x, k, a)
  PROVE  Talk("granted", x, Append(k, "Interact"), a)
<1>1. k = <<>> /\ In(x, "interact-request") /\ a = <<>>
  BY DEF Talk, InRound
<1>2. Append(k, "Interact") = <<"Interact">>
  BY <1>1, Single
<1> QED BY <1>1, <1>2 DEF Talk, InRound, Granted

LEMMA TalkCloses ==
  ASSUME NEW x, NEW k, NEW a, Talk("saved", x, k, a)
  PROVE  /\ Talk("idle", x, Append(k, "SaveComplete"), a)
         /\ Talk("idle", x, Append(k, "ShutdownCancelled"), a)
         /\ Talk("closed", x, Append(k, "Die"), a)
<1>1. k = <<>> /\ In(x, "save-yourself-done") /\ a = <<>>
  BY DEF Talk, InRound
<1>2. /\ Append(k, "SaveComplete") = <<"SaveComplete">>
      /\ Append(k, "ShutdownCancelled") = <<"ShutdownCancelled">>
      /\ Append(k, "Die") = <<"Die">>
  BY <1>1, Single
<1> QED BY <1>1, <1>2 DEF Talk, AtRest

LEMMA TalkBreaksOff ==
  ASSUME NEW m \in Owing, NEW x, NEW k, NEW a, Talk(m, x, k, a)
  PROVE  Talk("cancelled", x, Append(k, "ShutdownCancelled"), a)
<1>1. InRound(m, x, k, a)
  BY DEF Talk, Owing
<1> QED BY <1>1, RoundKinds, StillCancelled
-----------------------------------------------------------------------------
(***************************************************************************)
(* The client's record and its messages.                                   *)
(***************************************************************************)

(* x and y differ in nothing that Good speaks of.                          *)
Like(x, y) ==
  /\ IsClient(y)
  /\ y.state = x.state /\ y.save_myself = x.save_myself
  /\ y.emit_quit = x.emit_quit /\ y.emit_quit_cancelled = x.emit_quit_cancelled
  /\ y.expecting_initial_save_yourself = x.expecting_initial_save_yourself

LEMMA FieldNames ==
  /\ "state" \in Fields /\ "save_myself" \in Fields /\ "emit_quit" \in Fields
  /\ "emit_quit_cancelled" \in Fields /\ "expecting_initial_save_yourself" \in Fields
  /\ "idle" \in Fields /\ "set_initial_properties" \in Fields /\ "ending" \in Fields
  /\ "shutting_down" \in Fields /\ "need_save_state" \in Fields
  /\ "need_quit_requested" \in Fields
BY DEF Fields, FreshClient

LEMMA FreshIsClient ==
  ASSUME NEW e
  PROVE  LET x == FreshClient(e)
         IN /\ IsClient(x) /\ In(x, "idle") /\ x.emit_quit = 0 /\ x.emit_quit_cancelled = 0
BY DEF IsClient, Fields, FreshClient, In

LEMMA PendingLike ==
  ASSUME NEW x, IsClient(x)
  PROVE  Like(x, Pending(x))
<1> DEFINE v == IF ~WantIdle(x) THEN "none" ELSE IF x.idle = "none" THEN "events" ELSE x.idle
           y == [x EXCEPT !.idle = v]
<1>1. Pending(x) = y
  BY DEF Pending
<1> HIDE DEF v
<1>2. Like(x, y)
  BY FieldNames DEF Like, IsClient
<1> QED BY <1>1, <1>2

LEMMA PropertiesLike ==
  ASSUME NEW x, IsClient(x)
  PROVE  Like(x, WithProperties(x))
<1> DEFINE y == [x EXCEPT !.idle = "none"]
           z == [y EXCEPT !.set_initial_properties = 0]
<1>1. Like(x, y)
  BY FieldNames DEF Like, IsClient
<1>2. Like(y, z)
  <2> HIDE DEF y
  <2> QED BY <1>1, FieldNames DEF Like, IsClient
<1>3. WithProperties(x) = Pending(z)
  <2>1. [x EXCEPT !.idle = "none", !.set_initial_properties = 0] = z
    BY FieldNames DEF IsClient
  <2> QED BY <2>1 DEF WithProperties
<1> HIDE DEF y, z
<1>4. Like(z, Pending(z))
  BY <1>2, PendingLike DEF Like
<1> QED BY <1>1, <1>2, <1>3, <1>4 DEF Like

LEMMA Messages ==
  ASSUME NEW cmd, NEW s, NEW c
  PROVE  /\ Answers(<<Property(cmd)>>, <<>>)
         /\ Answers(<<[kind |-> "SaveYourselfRequest"]>>, <<>>)
         /\ Answers(<<Done(s)>>, <<"SaveYourselfDone">>)
         /\ Answers(<<InteractRequest>>, <<"InteractRequest">>)
         /\ Answers(<<InteractDone(c)>>, <<"InteractDone">>)
<1>1. /\ Property(cmd).kind = "SetProperties" /\ Done(s).kind = "SaveYourselfDone"
      /\ InteractRequest.kind = "InteractRequest" /\ InteractDone(c).kind = "InteractDone"
      /\ [kind |-> "SaveYourselfRequest"].kind = "SaveYourselfRequest"
  BY DEF Property, Done, InteractRequest, InteractDone
<1> QED BY <1>1, AnswersOfOne DEF News

LEMMA ShortAnswers ==
  /\ <<>> \in Seq(AnswerKinds) /\ <<"SaveYourselfDone">> \in Seq(AnswerKinds)
  /\ <<"InteractRequest">> \in Seq(AnswerKinds) /\ <<"InteractDone">> \in Seq(AnswerKinds)
  /\ <<"InteractDone", "SaveYourselfDone">> \in Seq(AnswerKinds)
<1>1. <<>> \in AnswerLists /\ <<"SaveYourselfDone">> \in AnswerLists
      /\ <<"InteractRequest">> \in AnswerLists
      /\ <<"InteractDone", "SaveYourselfDone">> \in AnswerLists
  BY DEF AnswerLists
<1>2. <<"InteractDone">> \in Seq(AnswerKinds)
  BY DEF AnswerKinds
<1> QED BY <1>1, <1>2, AnswerListsAreSeqs

(* Whatever the news before it, what is sent is answered once.             *)
LEMMA AfterNews ==
  ASSUME NEW before, Answers(before, <<>>), NEW r, NEW b \in Seq(AnswerKinds), Answers(r, b)
  PROVE  Answers(before \o r, b)
<1>1. <<>> \o b = b
  OBVIOUS
<1> QED BY <1>1, AnswersJoined, ShortAnswers

LEMMA JoinThree ==
  ASSUME NEW u, NEW v, NEW w
  PROVE  <<u, v, w>> = <<u>> \o <<v, w>>
<1> DEFINE r == <<u>> \o <<v, w>>
<1>1. r \in Seq({u, v, w}) /\ Len(r) = 3 /\ r[1] = u /\ r[2] = v /\ r[3] = w
  OBVIOUS
<1> HIDE DEF r
<1>2. r = <<r[1], r[2], r[3]>>
  BY <1>1, Triple
<1>3. r = <<u, v, w>>
  BY <1>1, <1>2
<1> QED BY <1>3 DEF r

LEMMA SavedMessages ==
  ASSUME NEW cmd, NEW s, NEW c
  PROVE  /\ Answers(<<Property(cmd), Done(s)>>, <<"SaveYourselfDone">>)
         /\ Answers(<<InteractDone(c), Done(s)>>, <<"InteractDone", "SaveYourselfDone">>)
         /\ Answers(<<InteractDone(c), Property(cmd), Done(s)>>,
                    <<"InteractDone", "SaveYourselfDone">>)
<1>1. /\ <<Property(cmd), Done(s)>> = <<Property(cmd)>> \o <<Done(s)>>
      /\ <<InteractDone(c), Done(s)>> = <<InteractDone(c)>> \o <<Done(s)>>
      /\ <<"InteractDone">> \o <<"SaveYourselfDone">> = <<"InteractDone", "SaveYourselfDone">>
  BY Joins
<1>2. <<InteractDone(c), Property(cmd), Done(s)>>
        = <<InteractDone(c)>> \o <<Property(cmd), Done(s)>>
  BY JoinThree
<1>3. Answers(<<Property(cmd), Done(s)>>, <<"SaveYourselfDone">>)
  BY <1>1, Messages, AfterNews, ShortAnswers
<1>4. Answers(<<InteractDone(c), Done(s)>>, <<"InteractDone", "SaveYourselfDone">>)
  BY <1>1, Messages, AnswersJoined, ShortAnswers
<1>5. Answers(<<InteractDone(c), Property(cmd), Done(s)>>, <<"InteractDone", "SaveYourselfDone">>)
  BY <1>1, <1>2, <1>3, Messages, AnswersJoined, ShortAnswers
<1> QED BY <1>3, <1>4, <1>5

(* The client takes its part in the conversation.                          *)
LEMMA ClientSpeaks ==
  ASSUME Good, NEW a \in AnswerLists, Talking(a),
         NEW ms, NEW b \in Seq(AnswerKinds), Answers(ms, b), toManager' = Send(ms),
         NEW c \in AnswerLists, c = a \o b, Talk(manager, xsmp', KindsOf(toClient'), c),
         Flags(xsmp'), IsClient(xsmp'), IsQueue(toClient'),
         manager' = manager, connected' = connected, broken' = broken, app' # "gone"
  PROVE  Good'
<1>1. connected = 1 /\ Answers(toManager, a) /\ toManager' = toManager \o ms
  BY DEF Talking, Send
<1>2. Answers(toManager', c)
  BY <1>1, AnswersJoined, AnswerListsAreSeqs
<1>3. Talking(c)'
  BY <1>1, <1>2 DEF Talking
<1> QED BY <1>3 DEF Good

LEMMA ClientSilent ==
  ASSUME Good, NEW a \in AnswerLists, Talking(a), toManager' = toManager,
         Talk(manager, xsmp', KindsOf(toClient'), a),
         Flags(xsmp'), IsClient(xsmp'), IsQueue(toClient'),
         manager' = manager, connected' = connected, broken' = broken, app' # "gone"
  PROVE  Good'
<1>1. Talking(a)'
  BY DEF Talking
<1> QED BY <1>1 DEF Good
-----------------------------------------------------------------------------
(***************************************************************************)
(* The steps of the client.                                                *)
(***************************************************************************)

(* What do_save_yourself leads to.                                         *)
LEMMA DoSaveYourselfEffect ==
  ASSUME NEW x, IsClient(x), x.save_myself = 0, NEW before, Answers(before, <<>>),
         DoSaveYourself(x, before)
  PROVE  /\ IsClient(xsmp')
         /\ xsmp'.emit_quit = x.emit_quit /\ xsmp'.emit_quit_cancelled = x.emit_quit_cancelled
         /\ xsmp'.expecting_initial_save_yourself = x.expecting_initial_save_yourself
         /\ \E ms :
              /\ toManager' = Send(ms)
              /\ \/ x.state = "shutdown-cancelled" /\ PutOff(xsmp') /\ Answers(ms, <<>>)
                 \/ /\ x.state # "shutdown-cancelled"
                    /\ \/ In(xsmp', "interact-request") /\ Answers(ms, <<"InteractRequest">>)
                       \/ In(xsmp', "save-yourself-done") /\ Answers(ms, <<"SaveYourselfDone">>)
<1>1. CASE /\ x.state = "shutdown-cancelled"
           /\ xsmp' = Pending([x EXCEPT !.save_myself = 1])
           /\ toManager' = Send(before)
  <2> DEFINE y == [x EXCEPT !.save_myself = 1]
  <2>1. /\ IsClient(y) /\ y.state = x.state /\ y.save_myself = 1
        /\ y.emit_quit = x.emit_quit /\ y.emit_quit_cancelled = x.emit_quit_cancelled
        /\ y.expecting_initial_save_yourself = x.expecting_initial_save_yourself
    BY FieldNames DEF IsClient
  <2> HIDE DEF y
  <2>2. Like(y, xsmp')
    BY <1>1, <2>1, PendingLike DEF y
  <2> QED BY <1>1, <2>1, <2>2 DEF Like, PutOff
<1>2. CASE /\ x.state # "shutdown-cancelled"
           /\ xsmp' = [x EXCEPT !.state = "interact-request"]
           /\ toManager' = Send(before \o <<InteractRequest>>)
  <2>1. Answers(before \o <<InteractRequest>>, <<"InteractRequest">>)
    BY Messages, AfterNews, ShortAnswers
  <2>2. /\ IsClient(xsmp') /\ In(xsmp', "interact-request")
        /\ xsmp'.emit_quit = x.emit_quit /\ xsmp'.emit_quit_cancelled = x.emit_quit_cancelled
        /\ xsmp'.expecting_initial_save_yourself = x.expecting_initial_save_yourself
    BY <1>2, FieldNames DEF IsClient, In
  <2> QED BY <1>2, <2>1, <2>2
<1>3. ASSUME x.state # "shutdown-cancelled", xsmp' = [x EXCEPT !.state = "save-yourself-done"],
             NEW cmd,
             \/ toManager' = Send(before \o <<Property(cmd), Done(1)>>)
             \/ toManager' = Send(before \o <<Done(1)>>)
      PROVE  /\ IsClient(xsmp')
             /\ xsmp'.emit_quit = x.emit_quit
             /\ xsmp'.emit_quit_cancelled = x.emit_quit_cancelled
             /\ xsmp'.expecting_initial_save_yourself = x.expecting_initial_save_yourself
             /\ In(xsmp', "save-yourself-done")
             /\ \E ms : toManager' = Send(ms) /\ Answers(ms, <<"SaveYourselfDone">>)
  <2>1. /\ Answers(before \o <<Property(cmd), Done(1)>>, <<"SaveYourselfDone">>)
        /\ Answers(before \o <<Done(1)>>, <<"SaveYourselfDone">>)
    BY Messages, SavedMessages, AfterNews, ShortAnswers
  <2>2. /\ IsClient(xsmp') /\ In(xsmp', "save-yourself-done")
        /\ xsmp'.emit_quit = x.emit_quit /\ xsmp'.emit_quit_cancelled = x.emit_quit_cancelled
        /\ xsmp'.expecting_initial_save_yourself = x.expecting_initial_save_yourself
    BY <1>3, FieldNames DEF IsClient, In
  <2>3. \E ms : toManager' = Send(ms) /\ Answers(ms, <<"SaveYourselfDone">>)
    BY <1>3, <2>1
  <2> QED BY <2>2, <2>3
<1> QED BY <1>1, <1>2, <1>3 DEF DoSaveYourself

(* Nothing is received from a manager that is dead or when it is over.     *)
LEMMA Received ==
  ASSUME Good, NEW kind, Receives(kind)
  PROVE  \E a \in AnswerLists :
           /\ Talking(a) /\ Talk(manager, xsmp, KindsOf(toClient), a) /\ Flags(xsmp)
           /\ KindsOf(toClient) # <<>> /\ Head(KindsOf(toClient)) = kind
           /\ KindsOf(Tail(toClient)) = Tail(KindsOf(toClient)) /\ IsQueue(Tail(toClient))
<1>1. connected = 1 /\ toClient # <<>> /\ Head(toClient).kind = kind
  BY DEF Receives
<1>2. PICK a \in AnswerLists : Talking(a)
  BY <1>1 DEF Good, Dead, Over
<1>3. /\ KindsOf(toClient) # <<>> /\ Head(KindsOf(toClient)) = kind
      /\ KindsOf(Tail(toClient)) = Tail(KindsOf(toClient)) /\ IsQueue(Tail(toClient))
  BY <1>1, QueueTail DEF Good
<1> QED BY <1>2, <1>3 DEF Talking

LEMMA XsmpSaveYourselfStep ==
  ASSUME Good, XsmpSaveYourself
  PROVE  Good'
<1>1. /\ Receives("SaveYourself") /\ toClient' = Tail(toClient)
      /\ connected' = connected /\ manager' = manager
  BY DEF XsmpSaveYourself, Taken, server
<1>2. PICK a \in AnswerLists :
        /\ Talking(a) /\ Talk(manager, xsmp, KindsOf(toClient), a) /\ Flags(xsmp)
        /\ KindsOf(toClient) # <<>> /\ Head(KindsOf(toClient)) = "SaveYourself"
        /\ KindsOf(Tail(toClient)) = Tail(KindsOf(toClient)) /\ IsQueue(Tail(toClient))
  BY <1>1, Received
<1> DEFINE k == KindsOf(toClient')
<1>3. IsQueue(toClient')
  BY <1>1, <1>2
<1>4. /\ Ready(xsmp) /\ a = <<>>
      /\ \A y : /\ PutOff(y) => Talk(manager, y, k, <<>>)
                /\ In(y, "interact-request") => Talk(manager, y, k, <<"InteractRequest">>)
                /\ In(y, "save-yourself-done") => Talk(manager, y, k, <<"SaveYourselfDone">>)
  <2> DEFINE t == Tail(KindsOf(toClient))
  <2>1. k = t
    BY <1>1, <1>2
  <2> HIDE DEF k
  <2>2. /\ Ready(xsmp) /\ a = <<>>
        /\ \A y : /\ PutOff(y) => Talk(manager, y, t, <<>>)
                  /\ In(y, "interact-request") => Talk(manager, y, t, <<"InteractRequest">>)
                  /\ In(y, "save-yourself-done") => Talk(manager, y, t, <<"SaveYourselfDone">>)
    BY <1>2, TalkSaves
  <2> QED BY <2>1, <2>2
<1> DEFINE p == xsmp.set_initial_properties = 1
           x == IF p THEN WithProperties(xsmp) ELSE xsmp
           before == IF p THEN <<Property(restart)>> ELSE <<>>
<1>5. Like(xsmp, x) /\ Answers(before, <<>>)
  <2>1. IsClient(xsmp)
    BY DEF Good
  <2>2. CASE p
    BY <2>1, <2>2, PropertiesLike, Messages
  <2>3. CASE ~p
    BY <2>1, <2>3, AnswersOfOne DEF Like
  <2> QED BY <2>2, <2>3
<1>6. app # "gone" /\ xsmp.state \in {"idle", "shutdown-cancelled"}
  BY <1>2, <1>4 DEF Talking, Ready, In
<1>7. /\ <<>> \in AnswerLists /\ <<"SaveYourselfDone">> \in AnswerLists
      /\ <<"InteractRequest">> \in AnswerLists
      /\ \A b : b \in AnswerLists => b \in Seq(AnswerKinds)
  BY AnswerListsAreSeqs DEF AnswerLists
<1>8. /\ a \o <<>> = <<>> /\ a \o <<"SaveYourselfDone">> = <<"SaveYourselfDone">>
      /\ a \o <<"InteractRequest">> = <<"InteractRequest">>
  BY <1>4, Joins
<1> DEFINE expected == x.expecting_initial_save_yourself = 1 /\ Head(toClient).req = Initial
           y1 == [x EXCEPT !.expecting_initial_save_yourself = 0, !.state = "save-yourself-done"]
           nq == IF Head(toClient).req.shutdown = 1 /\ listens = 1 /\ Head(toClient).req.interact = 1
                 THEN 1 ELSE 0
           ns == IF Head(toClient).req.save = "global" THEN 0 ELSE 1
           sd == Head(toClient).req.shutdown
           y2 == [x EXCEPT !.expecting_initial_save_yourself = 0, !.shutting_down = sd,
                           !.need_save_state = ns, !.need_quit_requested = nq]
<1>9. \/ /\ expected /\ xsmp' = y1 /\ toManager' = Send(before \o <<Done(1)>>)
         /\ UNCHANGED <<app, broken>>
      \/ DoSaveYourself(y2, before) /\ UNCHANGED <<app, broken>>
  BY <1>6 DEF XsmpSaveYourself
<1> HIDE DEF x, before, nq, ns, sd, k
<1>10. CASE /\ expected /\ xsmp' = y1 /\ toManager' = Send(before \o <<Done(1)>>)
            /\ UNCHANGED <<app, broken>>
  <2>1. /\ IsClient(xsmp') /\ xsmp'.state = "save-yourself-done"
        /\ xsmp'.save_myself = x.save_myself /\ xsmp'.emit_quit = x.emit_quit
        /\ xsmp'.emit_quit_cancelled = x.emit_quit_cancelled
        /\ xsmp'.expecting_initial_save_yourself = 0
    BY <1>5, <1>10, FieldNames DEF IsClient, Like
  <2>2. In(xsmp', "save-yourself-done")
    BY <1>4, <1>5, <2>1 DEF In, Like, Ready
  <2>3. xsmp.expecting_initial_save_yourself = 1
    BY <1>5, <1>10 DEF Like
  <2>4. Flags(xsmp')
    BY <1>2, <1>5, <2>1, <2>3 DEF Flags, Like
  <2>5. Answers(before \o <<Done(1)>>, <<"SaveYourselfDone">>)
    BY <1>5, Messages, AfterNews, ShortAnswers
  <2>6. Talk(manager, xsmp', k, <<"SaveYourselfDone">>)
    BY <1>4, <2>2
  <2> DEFINE ms == before \o <<Done(1)>>
             c  == <<"SaveYourselfDone">>
  <2>7. toManager' = Send(ms) /\ Answers(ms, c) /\ c \in Seq(AnswerKinds) /\ c \in AnswerLists
        /\ c = a \o c /\ Talk(manager, xsmp', KindsOf(toClient'), c) /\ app' # "gone"
    BY <1>6, <1>7, <1>8, <1>10, <2>5, <2>6 DEF k
  <2> HIDE DEF ms, c
  <2> QED BY <1>1, <1>2, <1>3, <1>10, <2>1, <2>4, <2>7, ClientSpeaks
<1>11. CASE DoSaveYourself(y2, before) /\ UNCHANGED <<app, broken>>
  <2>1. /\ IsClient(y2) /\ y2.state = x.state
        /\ y2.save_myself = x.save_myself /\ y2.emit_quit = x.emit_quit
        /\ y2.emit_quit_cancelled = x.emit_quit_cancelled
        /\ y2.expecting_initial_save_yourself = 0
    BY <1>5, FieldNames DEF IsClient, Like
  <2> HIDE DEF y2
  <2>2. y2.save_myself = 0
    BY <1>4, <1>5, <2>1 DEF In, Like, Ready
  <2>3. /\ IsClient(xsmp')
        /\ xsmp'.emit_quit = y2.emit_quit /\ xsmp'.emit_quit_cancelled = y2.emit_quit_cancelled
        /\ xsmp'.expecting_initial_save_yourself = 0
        /\ \E ms :
             /\ toManager' = Send(ms)
             /\ \/ y2.state = "shutdown-cancelled" /\ PutOff(xsmp') /\ Answers(ms, <<>>)
                \/ /\ y2.state # "shutdown-cancelled"
                   /\ \/ In(xsmp', "interact-request") /\ Answers(ms, <<"InteractRequest">>)
                      \/ In(xsmp', "save-yourself-done") /\ Answers(ms, <<"SaveYourselfDone">>)
    BY <1>5, <1>11, <2>1, <2>2, DoSaveYourselfEffect
  <2>4. Flags(xsmp')
    BY <1>2, <1>5, <2>1, <2>3 DEF Flags, Like, PutOff
  <2>5. \E ms, c :
          /\ toManager' = Send(ms) /\ Answers(ms, c) /\ c \in AnswerLists /\ c = a \o c
          /\ Talk(manager, xsmp', k, c)
    BY <1>4, <1>7, <1>8, <2>3
  <2>6. PICK ms, c :
          /\ toManager' = Send(ms) /\ Answers(ms, c) /\ c \in AnswerLists /\ c = a \o c
          /\ Talk(manager, xsmp', k, c)
    BY <2>5
  <2>7. c \in Seq(AnswerKinds) /\ Talk(manager, xsmp', KindsOf(toClient'), c) /\ app' # "gone"
    BY <1>6, <1>7, <1>11, <2>6 DEF k
  <2> QED BY <1>1, <1>2, <1>3, <1>11, <2>3, <2>4, <2>6, <2>7, ClientSpeaks
<1> QED BY <1>9, <1>10, <1>11

LEMMA XsmpInteractStep ==
  ASSUME Good, XsmpInteract
  PROVE  Good'
<1>1. /\ Receives("Interact") /\ toClient' = Tail(toClient)
      /\ connected' = connected /\ manager' = manager
  BY DEF XsmpInteract, Taken, server
<1>2. PICK a \in AnswerLists :
        /\ Talking(a) /\ Talk(manager, xsmp, KindsOf(toClient), a) /\ Flags(xsmp)
        /\ KindsOf(toClient) # <<>> /\ Head(KindsOf(toClient)) = "Interact"
        /\ KindsOf(Tail(toClient)) = Tail(KindsOf(toClient)) /\ IsQueue(Tail(toClient))
  BY <1>1, Received
<1>3. /\ In(xsmp, "interact-request") /\ a = <<>>
      /\ \A y : In(y, "interact") => Talk(manager, y, Tail(KindsOf(toClient)), <<>>)
  BY <1>2, TalkInteracts
<1>4. /\ xsmp' = [xsmp EXCEPT !.state = "interact"] /\ app' = "asked"
      /\ UNCHANGED <<broken, toManager>>
  BY <1>3 DEF XsmpInteract, In
<1>5. /\ IsClient(xsmp') /\ In(xsmp', "interact") /\ Flags(xsmp')
  BY <1>2, <1>3, <1>4, FieldNames DEF Good, IsClient, In, Flags
<1>6. Talk(manager, xsmp', KindsOf(toClient'), a) /\ IsQueue(toClient')
  BY <1>1, <1>2, <1>3, <1>5
<1> QED BY <1>1, <1>2, <1>4, <1>5, <1>6, ClientSilent

LEMMA XsmpSaveCompleteStep ==
  ASSUME Good, XsmpSaveComplete
  PROVE  Good'
<1>1. /\ Receives("SaveComplete") /\ toClient' = Tail(toClient)
      /\ connected' = connected /\ manager' = manager
  BY DEF XsmpSaveComplete, Taken, server
<1>2. PICK a \in AnswerLists :
        /\ Talking(a) /\ Talk(manager, xsmp, KindsOf(toClient), a) /\ Flags(xsmp)
        /\ KindsOf(toClient) # <<>> /\ Head(KindsOf(toClient)) = "SaveComplete"
        /\ KindsOf(Tail(toClient)) = Tail(KindsOf(toClient)) /\ IsQueue(Tail(toClient))
  BY <1>1, Received
<1>3. /\ In(xsmp, "save-yourself-done")
      /\ \A y : In(y, "idle") => Talk(manager, y, Tail(KindsOf(toClient)), a)
  BY <1>2, TalkEnds
<1>4. xsmp' = [xsmp EXCEPT !.state = "idle"] /\ UNCHANGED <<app, broken, toManager>>
  BY <1>3 DEF XsmpSaveComplete, In
<1>5. /\ IsClient(xsmp') /\ In(xsmp', "idle") /\ Flags(xsmp')
  BY <1>2, <1>3, <1>4, FieldNames DEF Good, IsClient, In, Flags
<1>6. Talk(manager, xsmp', KindsOf(toClient'), a) /\ IsQueue(toClient') /\ app' # "gone"
  BY <1>1, <1>2, <1>3, <1>4, <1>5 DEF Talking
<1> QED BY <1>1, <1>2, <1>4, <1>5, <1>6, ClientSilent

LEMMA XsmpShutdownCancelledStep ==
  ASSUME Good, XsmpShutdownCancelled
  PROVE  Good'
<1>1. /\ Receives("ShutdownCancelled") /\ toClient' = Tail(toClient)
      /\ connected' = connected /\ manager' = manager /\ broken' = broken
  BY DEF XsmpShutdownCancelled, Taken, server
<1>2. PICK a \in AnswerLists :
        /\ Talking(a) /\ Talk(manager, xsmp, KindsOf(toClient), a) /\ Flags(xsmp)
        /\ KindsOf(toClient) # <<>> /\ Head(KindsOf(toClient)) = "ShutdownCancelled"
        /\ KindsOf(Tail(toClient)) = Tail(KindsOf(toClient)) /\ IsQueue(Tail(toClient))
  BY <1>1, Received
<1> DEFINE t == Tail(KindsOf(toClient))
<1>3. IsQueue(toClient') /\ KindsOf(toClient') = t /\ app # "gone" /\ IsClient(xsmp)
  BY <1>1, <1>2 DEF Talking, Good
<1>4. CASE /\ xsmp.state = "save-yourself-done"
           /\ xsmp' = [xsmp EXCEPT !.state = "idle", !.shutting_down = 0] /\ app' = "working"
           /\ UNCHANGED toManager
  <2>1. In(xsmp, "save-yourself-done") /\ \A y : In(y, "idle") => Talk(manager, y, t, a)
    BY <1>2, <1>4, TalkEnds
  <2>2. IsClient(xsmp') /\ In(xsmp', "idle") /\ Flags(xsmp')
    BY <1>2, <1>3, <1>4, <2>1, FieldNames DEF IsClient, In, Flags
  <2>3. Talk(manager, xsmp', KindsOf(toClient'), a) /\ app' # "gone"
    BY <1>3, <1>4, <2>1, <2>2
  <2> QED BY <1>1, <1>2, <1>3, <1>4, <2>2, <2>3, ClientSilent
<1>5. CASE /\ xsmp.state = "shutdown-cancelled"
           /\ xsmp' = Pending([xsmp EXCEPT !.save_myself = 0, !.shutting_down = 0])
           /\ UNCHANGED <<toManager, app>>
  <2> DEFINE y == [xsmp EXCEPT !.save_myself = 0, !.shutting_down = 0]
  <2>1. IsClient(y) /\ In(y, "shutdown-cancelled") /\ Flags(y)
    BY <1>2, <1>3, <1>5, FieldNames DEF IsClient, In, Flags
  <2>2. Like(y, xsmp')
    <3> HIDE DEF y
    <3> QED BY <1>5, <2>1, PendingLike DEF y
  <2> HIDE DEF y
  <2>3. IsClient(xsmp') /\ In(xsmp', "shutdown-cancelled") /\ Flags(xsmp')
    BY <2>1, <2>2 DEF Like, In, Flags
  <2>4. Talk(manager, xsmp', t, a)
    BY <1>2, <1>5, <2>3, TalkCancelled DEF In
  <2> QED BY <1>1, <1>2, <1>3, <1>5, <2>3, <2>4, ClientSilent
<1>6. CASE /\ xsmp.state \notin {"save-yourself-done", "shutdown-cancelled"}
           /\ CancelledWhileSaving
  <2>1. /\ In(xsmp, "interact-request") \/ In(xsmp, "interact")
        /\ a \in {<<>>, <<"InteractRequest">>}
        /\ \A y : Ready(y) => Talk(manager, y, t, a \o <<"SaveYourselfDone">>)
    BY <1>2, <1>6, TalkCancelled DEF PutOff
  <2>2. /\ xsmp' = [xsmp EXCEPT !.state = IF xsmp.state = "interact" THEN "shutdown-cancelled"
                                          ELSE "idle",
                                !.shutting_down = 0]
        /\ toManager' = Send(<<Done(0)>>) /\ app' = app
    BY <1>6 DEF CancelledWhileSaving
  <2>3. IsClient(xsmp') /\ Ready(xsmp') /\ Flags(xsmp')
    BY <1>2, <1>3, <2>1, <2>2, FieldNames DEF IsClient, In, Flags, Ready
  <2> DEFINE ms == <<Done(0)>>
             b  == <<"SaveYourselfDone">>
             c  == a \o b
  <2>4. Answers(ms, b) /\ b \in Seq(AnswerKinds) /\ c \in AnswerLists
    BY <2>1, Messages, ShortAnswers, Joins DEF AnswerLists
  <2>5. Talk(manager, xsmp', KindsOf(toClient'), c)
    BY <1>3, <2>1, <2>3
  <2> HIDE DEF ms, b
  <2>6. toManager' = Send(ms) /\ app' # "gone"
    BY <1>3, <2>2 DEF ms
  <2> QED BY <1>1, <1>2, <1>3, <2>3, <2>4, <2>5, <2>6, ClientSpeaks
<1> QED BY <1>4, <1>5, <1>6 DEF XsmpShutdownCancelled

(* sm_client_xsmp_disconnect                                               *)
LEMMA DisconnectEffect ==
  ASSUME IsClient(xsmp), Disconnect
  PROVE  /\ connected' = 0 /\ toClient' = <<>> /\ IsClient(xsmp') /\ In(xsmp', "connection-closed")
         /\ xsmp'.emit_quit_cancelled = xsmp.emit_quit_cancelled
<1> DEFINE y == [xsmp EXCEPT !.state = "connection-closed", !.save_myself = 0]
<1>1. /\ IsClient(y) /\ In(y, "connection-closed")
      /\ y.emit_quit_cancelled = xsmp.emit_quit_cancelled
  BY FieldNames DEF IsClient, In
<1>2. xsmp' = Pending(y)
  BY DEF Disconnect
<1> HIDE DEF y
<1>3. Like(y, xsmp')
  BY <1>1, <1>2, PendingLike
<1> QED BY <1>1, <1>3 DEF Disconnect, Like, In

LEMMA XsmpDieStep ==
  ASSUME Good, XsmpDie
  PROVE  Good'
<1>1. PICK a \in AnswerLists :
        /\ Talking(a) /\ Talk(manager, xsmp, KindsOf(toClient), a) /\ Flags(xsmp)
        /\ KindsOf(toClient) # <<>> /\ Head(KindsOf(toClient)) = "Die"
  BY Received DEF XsmpDie
<1>2. manager = "closed" /\ In(xsmp, "save-yourself-done") /\ a = <<>>
  BY <1>1, TalkDies
<1>3. UNCHANGED <<broken, manager, toManager>> /\ Disconnect
  BY DEF XsmpDie, server
<1>4. /\ connected' = 0 /\ toClient' = <<>> /\ IsClient(xsmp') /\ In(xsmp', "connection-closed")
      /\ xsmp'.emit_quit_cancelled = xsmp.emit_quit_cancelled
  BY <1>3, DisconnectEffect DEF Good
<1>5. Answers(toManager', <<>>)
  BY <1>1, <1>2, <1>3 DEF Talking
<1>6. xsmp.emit_quit_cancelled # 1
  BY <1>1, <1>2 DEF Flags, In
<1>7. Over'
  BY <1>2, <1>3, <1>4, <1>5, <1>6 DEF Over
<1> QED BY <1>3, <1>4, <1>7, NoKinds DEF Good

LEMMA ConnectionFailsStep ==
  ASSUME Good, ConnectionFails
  PROVE  Good'
<1>1. manager = "dead" /\ UNCHANGED <<broken, manager>> /\ Disconnect
  BY DEF ConnectionFails, server
<1>2. connected' = 0 /\ toClient' = <<>> /\ IsClient(xsmp')
  BY <1>1, DisconnectEffect DEF Good
<1> QED BY <1>1, <1>2, NoKinds DEF Good, Dead

(* Whatever the client does by itself once it is over, or the manager is   *)
(* dead.                                                                   *)
LEMMA ClientAlone ==
  ASSUME Good, ~\E a \in AnswerLists : Talking(a),
         manager' = manager, connected' = connected, broken' = broken, toClient' = toClient,
         \E ms : toManager' = Send(ms),
         IsClient(xsmp'),
         Over => In(xsmp', "connection-closed") /\ xsmp'.emit_quit_cancelled # 1
  PROVE  Good'
<1>1. CASE Dead
  BY <1>1 DEF Good, Dead
<1>2. CASE Over
  <2>1. toManager' = toManager
    BY <1>2 DEF Over, Send
  <2> QED BY <1>2, <2>1 DEF Good, Over
<1> QED BY <1>1, <1>2 DEF Good

(* Only news are sent, and nothing that matters changes.                   *)
LEMMA ClientTells ==
  ASSUME Good, Like(xsmp, xsmp'), NEW ms, Answers(ms, <<>>), toManager' = Send(ms),
         manager' = manager, connected' = connected, broken' = broken, toClient' = toClient,
         app' = app
  PROVE  Good'
<1>1. ASSUME NEW a \in AnswerLists, Talking(a) PROVE Good'
  <2>1. Talk(manager, xsmp', KindsOf(toClient'), a) /\ Flags(xsmp') /\ IsClient(xsmp')
    BY <1>1, TalkSame DEF Talking, Like, Flags
  <2>2. a \o <<>> = a /\ <<>> \in Seq(AnswerKinds) /\ IsQueue(toClient') /\ app' # "gone"
    BY <1>1, AnswerListsAreSeqs, ShortAnswers DEF Talking, Good
  <2> QED BY <1>1, <2>1, <2>2, ClientSpeaks
<1>2. CASE ~\E a \in AnswerLists : Talking(a)
  <2>1. Over => In(xsmp', "connection-closed") /\ xsmp'.emit_quit_cancelled # 1
    BY DEF Over, In, Like
  <2> QED BY <1>2, <2>1, ClientAlone DEF Like
<1> QED BY <1>1, <1>2

LEMMA NothingSent ==
  ASSUME toManager' = toManager
  PROVE  IsQueue(toManager) => toManager' = Send(<<>>)
<1>1. IsQueue(toManager) => toManager \o <<>> = toManager
  BY QueueIsSeq
<1> QED BY <1>1 DEF Send

LEMMA SetInitialPropertiesStep ==
  ASSUME Good, SetInitialProperties
  PROVE  Good'
<1>1. /\ Like(xsmp, xsmp') /\ toManager' = Send(<<Property(restart)>>)
      /\ UNCHANGED <<manager, connected, broken, toClient, app>>
  BY PropertiesLike DEF SetInitialProperties, Good, server
<1> QED BY <1>1, Messages, ClientTells

LEMMA EndSessionStep ==
  ASSUME Good, EndSession
  PROVE  Good'
<1> DEFINE how   == EndsHow(xsmp)
           first == how = "wait" /\ xsmp.state = "idle" /\ xsmp.set_initial_properties = 1
           x     == IF first THEN WithProperties(xsmp) ELSE xsmp
           v     == IF how = "wait" THEN 1 ELSE 0
           ms    == IF how = "send" THEN <<[kind |-> "SaveYourselfRequest"]>>
                    ELSE IF first THEN <<Property(restart)>> ELSE <<>>
<1>1. /\ xsmp' = [x EXCEPT !.ending = v] /\ toManager' = Send(ms)
      /\ UNCHANGED <<manager, connected, broken, toClient, app>>
  BY DEF EndSession, server
<1>2. Like(xsmp, x)
  <2>1. IsClient(xsmp)
    BY DEF Good
  <2> QED BY <2>1, PropertiesLike DEF Like
<1>3. Answers(ms, <<>>)
  BY Messages, AnswersOfOne
<1> HIDE DEF x, v, ms
<1>4. Like(xsmp, xsmp')
  BY <1>1, <1>2, FieldNames DEF Like, IsClient
<1> QED BY <1>1, <1>3, <1>4, ClientTells

LEMMA EditStep ==
  ASSUME Good, Edit
  PROVE  Good'
<1>1. /\ UNCHANGED <<xsmp, connected, app, broken, manager, toClient, toManager>>
  BY DEF Edit, client, server, channels
<1> QED BY <1>1 DEF Good, Dead, Over, Talking

LEMMA WillQuitStep ==
  ASSUME Good, NEW will \in 0..1, WillQuit(will)
  PROVE  Good'
<1>1. /\ UNCHANGED <<connected, broken, manager, toClient>> /\ app' = "answered"
  BY DEF WillQuit, server
<1>2. CASE /\ xsmp.state = "connection-closed"
           /\ xsmp' = Pending([xsmp EXCEPT !.emit_quit = 1])
           /\ toManager' = toManager
  <2> DEFINE y == [xsmp EXCEPT !.emit_quit = 1]
  <2>1. /\ IsClient(y) /\ y.state = xsmp.state /\ y.save_myself = xsmp.save_myself
        /\ y.emit_quit_cancelled = xsmp.emit_quit_cancelled
    BY FieldNames DEF Good, IsClient
  <2>2. Like(y, xsmp')
    <3> HIDE DEF y
    <3> QED BY <1>2, <2>1, PendingLike DEF y
  <2> HIDE DEF y
  <2>3. ~\E a \in AnswerLists : Talking(a)
    BY <1>2, TalkKinds DEF Talking
  <2>4. Over \/ Dead
    BY <2>3 DEF Good
  <2>5. CASE Over
    <3>1. In(xsmp', "connection-closed") /\ xsmp'.emit_quit_cancelled # 1
      BY <2>1, <2>2, <2>5 DEF Over, In, Like
    <3>2. \E ms : toManager' = Send(ms)
      BY <1>2, <2>5 DEF Over, Send
    <3> QED BY <1>1, <2>2, <2>3, <3>1, <3>2, ClientAlone DEF Like
  <2>6. CASE Dead
    BY <1>1, <2>2, <2>6 DEF Good, Dead, Like
  <2> QED BY <2>4, <2>5, <2>6
<1>3. CASE /\ xsmp.state = "shutdown-cancelled"
           /\ xsmp' = Pending([xsmp EXCEPT !.emit_quit_cancelled = 1])
           /\ toManager' = toManager
  <2> DEFINE y == [xsmp EXCEPT !.emit_quit_cancelled = 1]
  <2>1. /\ IsClient(y) /\ y.state = xsmp.state /\ y.save_myself = xsmp.save_myself
        /\ y.emit_quit = xsmp.emit_quit
        /\ y.expecting_initial_save_yourself = xsmp.expecting_initial_save_yourself
    BY FieldNames DEF Good, IsClient
  <2>2. Like(y, xsmp')
    <3> HIDE DEF y
    <3> QED BY <1>3, <2>1, PendingLike DEF y
  <2> HIDE DEF y
  <2>3. ASSUME NEW a \in AnswerLists, Talking(a) PROVE Good'
    <3>1. Flags(xsmp')
      BY <1>3, <2>1, <2>2, <2>3 DEF Talking, Flags, Like
    <3>2. Talk(manager, xsmp', KindsOf(toClient'), a) /\ IsQueue(toClient')
      BY <1>1, <2>1, <2>2, <2>3, TalkSame DEF Talking, Like, Good
    <3> QED BY <1>1, <1>3, <2>2, <2>3, <3>1, <3>2, ClientSilent DEF Like
  <2>4. CASE Dead
    BY <1>1, <2>2, <2>4 DEF Good, Dead, Like
  <2>5. CASE Over
    BY <1>3, <2>5 DEF Over, In
  <2> QED BY <2>3, <2>4, <2>5 DEF Good
<1>4. ASSUME xsmp.state = "interact", xsmp' = [xsmp EXCEPT !.state = "save-yourself-done"],
             NEW ms, toManager' = Send(ms),
             Answers(ms, <<"InteractDone", "SaveYourselfDone">>)
      PROVE  Good'
  <2>1. /\ IsClient(xsmp') /\ xsmp'.state = "save-yourself-done"
        /\ xsmp'.save_myself = xsmp.save_myself /\ xsmp'.emit_quit = xsmp.emit_quit
        /\ xsmp'.emit_quit_cancelled = xsmp.emit_quit_cancelled
        /\ xsmp'.expecting_initial_save_yourself = xsmp.expecting_initial_save_yourself
    BY <1>4, FieldNames DEF Good, IsClient
  <2>2. ASSUME NEW a \in AnswerLists, Talking(a) PROVE Good'
    <3>1. Flags(xsmp')
      BY <1>4, <2>1, <2>2 DEF Talking, Flags
    <3> DEFINE c == <<"InteractDone", "SaveYourselfDone">>
    <3>2. /\ In(xsmp, "interact") /\ a = <<>>
          /\ \A y : In(y, "save-yourself-done") => Talk(manager, y, KindsOf(toClient), c)
      BY <1>4, <2>2, TalkAnswers DEF Talking
    <3>3. Talk(manager, xsmp', KindsOf(toClient'), c) /\ IsQueue(toClient')
      BY <1>1, <2>1, <3>2 DEF In, Good
    <3>4. c \in AnswerLists /\ c \in Seq(AnswerKinds) /\ c = a \o c /\ app' # "gone"
      BY <1>1, <3>2, ShortAnswers, Joins DEF AnswerLists
    <3> HIDE DEF c
    <3>5. Answers(ms, c)
      BY <1>4 DEF c
    <3> QED BY <1>1, <1>4, <2>1, <2>2, <3>1, <3>3, <3>4, <3>5, ClientSpeaks
  <2>3. CASE Dead
    BY <1>1, <2>1, <2>3 DEF Good, Dead
  <2>4. CASE Over
    BY <1>4, <2>4 DEF Over, In
  <2> QED BY <2>2, <2>3, <2>4 DEF Good
<1>5. CASE /\ xsmp.state = "interact" /\ xsmp' = [xsmp EXCEPT !.state = "save-yourself-done"]
           /\ \/ toManager' = Send(<<InteractDone(0), Property(CloneCommand(window)), Done(1)>>)
              \/ toManager' = Send(<<InteractDone(1 - will), Done(will)>>)
  <2>1. CASE toManager' = Send(<<InteractDone(0), Property(CloneCommand(window)), Done(1)>>)
    BY <1>4, <1>5, <2>1, SavedMessages
  <2>2. CASE toManager' = Send(<<InteractDone(1 - will), Done(will)>>)
    BY <1>4, <1>5, <2>2, SavedMessages
  <2> QED BY <1>5, <2>1, <2>2
<1> QED BY <1>2, <1>3, <1>5 DEF WillQuit

LEMMA EmitQuitStep ==
  ASSUME Good, EmitQuit
  PROVE  Good'
<1>1. /\ xsmp' = [xsmp EXCEPT !.idle = "none", !.emit_quit = 0] /\ xsmp.emit_quit = 1
      /\ UNCHANGED <<connected, broken, manager, toClient, toManager>>
  BY DEF EmitQuit, server, channels
<1>2. /\ IsClient(xsmp') /\ xsmp'.state = xsmp.state /\ xsmp'.save_myself = xsmp.save_myself
      /\ xsmp'.emit_quit_cancelled = xsmp.emit_quit_cancelled
  BY <1>1, FieldNames DEF Good, IsClient
<1>3. Dead \/ Over
  BY <1>1 DEF Good, Talking, Flags
<1>4. CASE Dead
  BY <1>1, <1>2, <1>4 DEF Good, Dead
<1>5. CASE Over
  BY <1>1, <1>2, <1>5 DEF Good, Over, In
<1> QED BY <1>3, <1>4, <1>5

LEMMA IdleDoPendingEventsStep ==
  ASSUME Good, IdleDoPendingEvents
  PROVE  Good'
<1> DEFINE s == IF xsmp.emit_quit_cancelled = 1 THEN "idle" ELSE xsmp.state
           x == [xsmp EXCEPT !.idle = "none", !.emit_quit_cancelled = 0, !.save_myself = 0,
                             !.state = s]
<1>1. /\ \/ xsmp.save_myself = 1 /\ DoSaveYourself(x, <<>>)
         \/ xsmp.save_myself = 0 /\ xsmp' = x /\ toManager' = toManager
      /\ UNCHANGED <<connected, broken, manager, toClient>>
      /\ app' = "working" \/ app' = app
  BY DEF IdleDoPendingEvents, server
<1>2. /\ IsClient(x) /\ x.save_myself = 0 /\ x.emit_quit = xsmp.emit_quit
      /\ x.emit_quit_cancelled = 0 /\ x.state = s
      /\ x.expecting_initial_save_yourself = xsmp.expecting_initial_save_yourself
  BY FieldNames DEF Good, IsClient
<1> HIDE DEF x
<1>3. ASSUME DoSaveYourself(x, <<>>)
      PROVE  /\ IsClient(xsmp')
             /\ xsmp'.emit_quit = x.emit_quit /\ xsmp'.emit_quit_cancelled = 0
             /\ xsmp'.expecting_initial_save_yourself = xsmp.expecting_initial_save_yourself
             /\ \E ms :
                  /\ toManager' = Send(ms)
                  /\ \/ x.state = "shutdown-cancelled" /\ PutOff(xsmp') /\ Answers(ms, <<>>)
                     \/ /\ x.state # "shutdown-cancelled"
                        /\ \/ In(xsmp', "interact-request") /\ Answers(ms, <<"InteractRequest">>)
                           \/ In(xsmp', "save-yourself-done") /\ Answers(ms, <<"SaveYourselfDone">>)
  BY <1>2, <1>3, AnswersOfOne, DoSaveYourselfEffect
<1>4. CASE Dead
  BY <1>1, <1>2, <1>3, <1>4 DEF Good, Dead
<1>5. CASE Over
  <2>1. xsmp.save_myself = 0 /\ s = "connection-closed"
    BY <1>5 DEF Over, In
  <2>2. In(xsmp', "connection-closed") /\ xsmp'.emit_quit_cancelled # 1 /\ IsClient(xsmp')
        /\ toManager' = toManager
    BY <1>1, <1>2, <2>1 DEF In
  <2> QED BY <1>1, <1>5, <2>2 DEF Good, Over
<1>6. ASSUME NEW a \in AnswerLists, Talking(a) PROVE Good'
  <2>1. /\ Talk(manager, xsmp, KindsOf(toClient), a) /\ Flags(xsmp) /\ app' # "gone"
        /\ IsQueue(toClient') /\ KindsOf(toClient') = KindsOf(toClient)
    BY <1>1, <1>6 DEF Talking, Good
  <2>2. CASE xsmp.save_myself = 1 /\ DoSaveYourself(x, <<>>)
    <3>1. /\ xsmp.state = "shutdown-cancelled" /\ a = <<>>
          /\ \A y : /\ PutOff(y) => Talk(manager, y, KindsOf(toClient), <<>>)
                    /\ In(y, "interact-request") =>
                         Talk(manager, y, KindsOf(toClient), <<"InteractRequest">>)
                    /\ In(y, "save-yourself-done") =>
                         Talk(manager, y, KindsOf(toClient), <<"SaveYourselfDone">>)
      BY <2>1, <2>2, TalkResumes
    <3>2. Flags(xsmp') /\ IsClient(xsmp')
      BY <1>2, <1>3, <2>1, <2>2, <3>1 DEF Flags
    <3>3. /\ <<>> \in AnswerLists /\ <<"SaveYourselfDone">> \in AnswerLists
          /\ <<"InteractRequest">> \in AnswerLists
          /\ \A b : b \in AnswerLists => b \in Seq(AnswerKinds)
      BY AnswerListsAreSeqs DEF AnswerLists
    <3>4. /\ a \o <<>> = <<>> /\ a \o <<"SaveYourselfDone">> = <<"SaveYourselfDone">>
          /\ a \o <<"InteractRequest">> = <<"InteractRequest">>
      BY <3>1, Joins
    <3> DEFINE k == KindsOf(toClient')
    <3>5. \E ms, c :
            /\ toManager' = Send(ms) /\ Answers(ms, c) /\ c \in AnswerLists /\ c = a \o c
            /\ Talk(manager, xsmp', k, c)
      BY <1>3, <2>1, <2>2, <3>1, <3>3, <3>4
    <3>6. PICK ms, c :
            /\ toManager' = Send(ms) /\ Answers(ms, c) /\ c \in AnswerLists /\ c = a \o c
            /\ Talk(manager, xsmp', k, c)
      BY <3>5
    <3>7. c \in Seq(AnswerKinds)
      BY <3>3, <3>6
    <3> QED BY <1>1, <1>6, <2>1, <3>2, <3>6, <3>7, ClientSpeaks
  <2>3. CASE xsmp.save_myself = 0 /\ xsmp' = x /\ toManager' = toManager
    <3>1. CASE xsmp.emit_quit_cancelled = 1
      <4>1. In(xsmp, "shutdown-cancelled") /\ In(xsmp', "idle") /\ Flags(xsmp')
        BY <1>2, <2>1, <2>3, <3>1 DEF Flags, In
      <4>2. Talk(manager, xsmp', KindsOf(toClient'), a)
        BY <2>1, <4>1, TalkWakes
      <4> QED BY <1>1, <1>2, <1>6, <2>1, <2>3, <4>1, <4>2, ClientSilent
    <3>2. CASE xsmp.emit_quit_cancelled # 1
      <4>1. xsmp'.state = xsmp.state /\ xsmp'.save_myself = xsmp.save_myself /\ Flags(xsmp')
        BY <1>2, <2>1, <2>3, <3>2 DEF Flags
      <4>2. Talk(manager, xsmp', KindsOf(toClient'), a)
        BY <2>1, <4>1, TalkSame
      <4> QED BY <1>1, <1>2, <1>6, <2>1, <2>3, <4>1, <4>2, ClientSilent
    <3> QED BY <3>1, <3>2
  <2> QED BY <1>1, <2>2, <2>3
<1> QED BY <1>4, <1>5, <1>6 DEF Good
-----------------------------------------------------------------------------
(***************************************************************************)
(* The steps of the manager, and the theorems.                             *)
(***************************************************************************)

(* The manager tells the client something.                                 *)
LEMMA ManagerSpeaks ==
  ASSUME Good, NEW a \in AnswerLists, Talking(a), NEW m, toClient' = Append(toClient, m),
         Talk(manager', xsmp, Append(KindsOf(toClient), m.kind), a),
         UNCHANGED client, Answers(toManager', a)
  PROVE  Good'
<1>1. IsQueue(toClient') /\ KindsOf(toClient') = Append(KindsOf(toClient), m.kind)
  BY QueueAppend DEF Good
<1>2. Talking(a)'
  BY <1>1 DEF Talking, client
<1> QED BY <1>1, <1>2 DEF Good, client

LEMMA ManagerTalks ==
  ASSUME Good, manager \notin {"dead", "closed"}
  PROVE  \E a \in AnswerLists : Talking(a) /\ Talk(manager, xsmp, KindsOf(toClient), a)
BY DEF Good, Dead, Over, Talking

LEMMA AsksStep ==
  ASSUME Good, manager \in {"registering", "idle"}, NEW req, Asks(req), UNCHANGED client,
         \/ toManager' = toManager
         \/ /\ toManager # <<>> /\ Head(toManager).kind = "SaveYourselfRequest"
            /\ toManager' = Tail(toManager)
  PROVE  Good'
<1>1. PICK a \in AnswerLists : Talking(a) /\ Talk(manager, xsmp, KindsOf(toClient), a)
  BY ManagerTalks
<1>2. a = <<>> /\ Talk("saving", xsmp, Append(KindsOf(toClient), "SaveYourself"), a)
  BY <1>1, TalkAsks
<1>3. Answers(toManager', a)
  BY <1>1, NewsTaken, AnswerListsAreSeqs DEF Talking, News
<1> DEFINE m == [kind |-> "SaveYourself", req |-> req]
<1>4. manager' = "saving" /\ toClient' = Append(toClient, m) /\ m.kind = "SaveYourself"
  BY DEF Asks
<1> HIDE DEF m
<1> QED BY <1>1, <1>2, <1>3, <1>4, ManagerSpeaks

LEMMA TellStep ==
  ASSUME Good, manager \notin {"dead", "closed"}, NEW kind, Tell(kind), UNCHANGED client,
         toManager' = toManager,
         \A x, k, a : Talk(manager, x, k, a) => Talk(manager', x, Append(k, kind), a)
  PROVE  Good'
<1>1. PICK a \in AnswerLists : Talking(a) /\ Talk(manager, xsmp, KindsOf(toClient), a)
  BY ManagerTalks
<1>2. Answers(toManager', a) /\ Talk(manager', xsmp, Append(KindsOf(toClient), kind), a)
  BY <1>1 DEF Talking
<1> DEFINE m == [kind |-> kind]
<1>3. toClient' = Append(toClient, m) /\ m.kind = kind
  BY DEF Tell
<1> HIDE DEF m
<1> QED BY <1>1, <1>2, <1>3, ManagerSpeaks

LEMMA ManagerReceivesStep ==
  ASSUME Good, ManagerReceives
  PROVE  Good'
<1> DEFINE w == Head(toManager)
<1>1. /\ manager # "dead" /\ toManager # <<>>
      /\ manager' = Answered(manager, w)[1]
      /\ broken' = IF Answered(manager, w)[2] = 1 THEN 1 ELSE broken
      /\ toManager' = Tail(toManager)
      /\ UNCHANGED <<xsmp, connected, app, toClient>>
  BY DEF ManagerReceives
<1> HIDE DEF w
<1>2. CASE Over
  <2>1. w.kind \in News /\ Answers(Tail(toManager), <<>>)
    <3>1. w.kind \in News
      BY <1>1, <1>2, AnswerTaken, ShortAnswers DEF Over, w
    <3> QED BY <1>1, <1>2, <3>1, NewsTaken, ShortAnswers DEF Over, w
  <2>2. manager' = manager /\ broken' = broken
    BY <1>1, <2>1, NewsHeard
  <2>3. Over'
    BY <1>1, <1>2, <2>1, <2>2 DEF Over
  <2> QED BY <1>1, <2>2, <2>3 DEF Good
<1>3. ASSUME NEW a \in AnswerLists, Talking(a) PROVE Good'
  <2>1. a \in Seq(AnswerKinds) /\ Answers(toManager, a)
        /\ Talk(manager, xsmp, KindsOf(toClient), a)
    BY <1>3, AnswerListsAreSeqs DEF Talking
  <2>2. CASE w.kind \in News
    <3>1. Answers(Tail(toManager), a)
      BY <1>1, <2>1, <2>2, NewsTaken DEF w
    <3>2. manager' = manager /\ broken' = broken
      BY <1>1, <2>2, NewsHeard
    <3>3. Talking(a)'
      BY <1>1, <1>3, <3>1, <3>2 DEF Talking
    <3> QED BY <1>1, <3>2, <3>3 DEF Good
  <2>3. CASE w.kind \notin News
    <3>1. a # <<>> /\ Head(a) = w.kind /\ Answers(Tail(toManager), Tail(a))
      BY <1>1, <2>1, <2>3, AnswerTaken DEF w
    <3>2. /\ Answered(manager, w)[2] = 0
          /\ Talk(Answered(manager, w)[1], xsmp, KindsOf(toClient), Tail(a))
      BY <2>1, <3>1, TalkHears
    <3>3. Tail(a) \in AnswerLists
      BY <3>1, TailOfAnswers
    <3>4. Talking(Tail(a))'
      BY <1>1, <1>3, <3>1, <3>2 DEF Talking
    <3> QED BY <1>1, <3>2, <3>3, <3>4 DEF Good
  <2> QED BY <2>2, <2>3
<1> QED BY <1>1, <1>2, <1>3 DEF Good, Dead

LEMMA CancelStep ==
  ASSUME Good, Cancel
  PROVE  Good'
<1>1. Tell("ShutdownCancelled") /\ UNCHANGED client /\ toManager' = toManager
  BY DEF Cancel, MgrUnchanged
<1>2. CASE manager = "saved" /\ manager' = "idle"
  BY <1>1, <1>2, TalkCloses, TellStep
<1>3. CASE manager \in Owing /\ manager' = "cancelled"
  <2>1. manager \notin {"dead", "closed"}
    BY <1>3 DEF Owing
  <2>2. \A x, k, a : Talk(manager, x, k, a) =>
          Talk(manager', x, Append(k, "ShutdownCancelled"), a)
    BY <1>3, TalkBreaksOff
  <2> QED BY <1>1, <2>1, <2>2, TellStep
<1> QED BY <1>2, <1>3 DEF Cancel

LEMMA ManagerDiesStep ==
  ASSUME Good, ManagerDies
  PROVE  Good'
<1>1. Dead' /\ UNCHANGED <<xsmp, connected, broken>>
  BY DEF ManagerDies, Dead, client
<1>2. IsQueue(toClient')
  BY <1>1, NoKinds DEF Dead
<1> QED BY <1>1, <1>2 DEF Good

LEMMA RestartStep ==
  ASSUME Good, Restart
  PROVE  Good'
<1>1. /\ manager = "closed" /\ app = "gone"
      /\ xsmp' = FreshClient(0) /\ connected' = 1 /\ app' = "working" /\ manager' = "idle"
      /\ UNCHANGED <<broken, toClient, toManager>>
  BY DEF Restart, channels
<1>2. Over
  BY <1>1 DEF Good, Dead, Talking
<1>3. toClient' = <<>> /\ Answers(toManager', <<>>) /\ <<>> \in AnswerLists
  BY <1>1, <1>2 DEF Over, AnswerLists
<1>4. /\ IsClient(xsmp') /\ In(xsmp', "idle") /\ xsmp'.emit_quit = 0
      /\ xsmp'.emit_quit_cancelled = 0 /\ xsmp'.state = "idle"
  BY <1>1, FreshIsClient DEF In
<1>5. Talk(manager', xsmp', KindsOf(toClient'), <<>>)
  BY <1>1, <1>3, <1>4, NoKinds DEF Talk, AtRest, Ready
<1>6. Flags(xsmp')
  BY <1>4 DEF Flags
<1>7. app' # "gone"
  BY <1>1
<1>8. Talking(<<>>)'
  BY <1>1, <1>3, <1>5, <1>6, <1>7 DEF Talking
<1> QED BY <1>1, <1>3, <1>4, <1>8, NoKinds DEF Good

LEMMA GoodInit ==
  ASSUME Init
  PROVE  Good
<1>1. /\ xsmp = FreshClient(1) /\ connected = 1 /\ broken = 0 /\ app = "working"
      /\ manager = "registering" /\ toClient = <<>> /\ toManager = <<>>
  BY DEF Init
<1>2. IsClient(xsmp) /\ In(xsmp, "idle") /\ Flags(xsmp)
  BY <1>1, FreshIsClient DEF In, Flags
<1>3. Talk(manager, xsmp, KindsOf(toClient), <<>>) /\ IsQueue(toClient)
  BY <1>1, <1>2, NoKinds DEF Talk, Ready
<1>4. Answers(toManager, <<>>) /\ <<>> \in AnswerLists
  BY <1>1, AnswersOfOne DEF AnswerLists
<1>5. Talking(<<>>)
  BY <1>1, <1>2, <1>3, <1>4 DEF Talking
<1> QED BY <1>1, <1>2, <1>3, <1>4, <1>5 DEF Good

LEMMA GoodNext ==
  ASSUME Good, [Next]_vars
  PROVE  Good'
<1>1. CASE Receive
  BY <1>1, XsmpSaveYourselfStep, XsmpInteractStep, XsmpDieStep, XsmpSaveCompleteStep,
     XsmpShutdownCancelledStep, ConnectionFailsStep DEF Receive
<1>2. CASE Pend
  BY <1>2, SetInitialPropertiesStep, EmitQuitStep, IdleDoPendingEventsStep DEF Pend
<1>3. CASE Answer
  BY <1>3, WillQuitStep DEF Answer
<1>4. CASE EndSession
  BY <1>4, EndSessionStep
<1>5. CASE Manage
  <2>1. CASE Register
    <3>1. manager = "registering" /\ Asks(Initial) /\ UNCHANGED client /\ toManager' = toManager
      BY <2>1 DEF Register, MgrUnchanged
    <3> QED BY <3>1, AsksStep
  <2>2. CASE ManagerReceives
    BY <2>2, ManagerReceivesStep
  <2>3. CASE Grant
    <3>1. /\ manager = "asked" /\ manager' = "granted" /\ Tell("Interact")
          /\ UNCHANGED client /\ toManager' = toManager
      BY <2>3 DEF Grant, MgrUnchanged
    <3> QED BY <3>1, TalkGrants, TellStep
  <2>4. CASE SaveComplete
    <3>1. /\ manager = "saved" /\ manager' = "idle" /\ Tell("SaveComplete")
          /\ UNCHANGED client /\ toManager' = toManager
      BY <2>4 DEF SaveComplete, MgrUnchanged
    <3> QED BY <3>1, TalkCloses, TellStep
  <2>5. ASSUME NEW req \in SaveRequest, EndRequested(req) PROVE Good'
    <3>1. /\ manager = "idle" /\ toManager # <<>> /\ Head(toManager).kind = "SaveYourselfRequest"
          /\ Asks(req) /\ toManager' = Tail(toManager) /\ UNCHANGED client
      BY <2>5 DEF EndRequested
    <3> QED BY <3>1, AsksStep
  <2> QED BY <1>5, <2>1, <2>2, <2>3, <2>4, <2>5 DEF Manage
<1>6. CASE Decide
  <2>1. CASE Die
    <3>1. /\ manager = "saved" /\ manager' = "closed" /\ Tell("Die")
          /\ UNCHANGED client /\ toManager' = toManager
      BY <2>1 DEF Die, MgrUnchanged
    <3> QED BY <3>1, TalkCloses, TellStep
  <2>2. CASE Cancel
    BY <2>2, CancelStep
  <2> QED BY <1>6, <2>1, <2>2 DEF Decide
<1>7. ASSUME NEW req \in SaveRequest, SaveYourself(req) PROVE Good'
  <2>1. manager = "idle" /\ Asks(req) /\ UNCHANGED client /\ toManager' = toManager
    BY <1>7 DEF SaveYourself, MgrUnchanged
  <2> QED BY <2>1, AsksStep
<1>8. CASE Edit
  BY <1>8, EditStep
<1>9. CASE ManagerDies
  BY <1>9, ManagerDiesStep
<1>10. CASE Restart
  BY <1>10, RestartStep
<1>11. CASE UNCHANGED vars
  BY <1>11 DEF vars, client, server, channels, Good, Dead, Over, Talking
<1> QED BY <1>1, <1>2, <1>3, <1>4, <1>5, <1>6, <1>7, <1>8, <1>9, <1>10, <1>11 DEF Next

(* Neither end ever receives a message it does not expect, whatever        *)
(* crosses on the way: fix_broken_state of eggsmclient-xsmp.c is never     *)
(* reached, and no SaveYourself is answered twice.                         *)
THEOREM NoMessageUnexpected == Spec => []ConversationHolds
<1>1. Init => Good
  BY GoodInit
<1>2. Good /\ [Next]_vars => Good'
  BY GoodNext
<1>3. Good => ConversationHolds
  BY DEF Good, ConversationHolds
<1> QED BY <1>1, <1>2, <1>3, PTL DEF Spec
-----------------------------------------------------------------------------
(***************************************************************************)
(* What is saved is what is restored.  The property the manager restarts   *)
(* the program with is the last one it was sent, once all has arrived; so  *)
(* the invariant follows the properties on their way.                      *)
(***************************************************************************)
IsProperty(m) == m.kind = "SetProperties"

(* A manager that knows c knows d when it has received all of q.           *)
Leaves(q, c, d) ==
  \/ d = c /\ \A i \in 1..Len(q) : ~IsProperty(q[i])
  \/ \E i \in 1..Len(q) :
       /\ IsProperty(q[i]) /\ d = q[i].restart
       /\ \A j \in i + 1..Len(q) : ~IsProperty(q[j])

(* The program that is started with the command c searches for what the    *)
(* window searched for when it was saved.                                  *)
Restores(c) == c.given = 1 => Searches(WindowOf(c, 0, {})) = saved

IsWindow(w) == w = [f \in {"name", "folder", "box", "rows"} |-> w[f]] /\ w.box \in 0..1

Saved ==
  /\ IsWindow(window) /\ Restores(restart)
  /\ manager # "dead" => \E d : Leaves(toManager, property, d) /\ Restores(d)

(* The command line keeps what is searched for: hidden rows take no part,  *)
(* and a box without rows is as good as a closed one.                      *)
LEMMA CloneSearchesTheSame ==
  ASSUME NEW w, w.box \in 0..1, NEW show, NEW flags
  PROVE  Searches(WindowOf(CloneCommand(w), show, flags)) = Searches(w)
<1> DEFINE c == CloneCommand(w)
           v == WindowOf(c, show, flags)
<1>1. /\ v.name = w.name /\ v.folder = w.folder
      /\ v.rows = IF w.box = 1 THEN w.rows ELSE <<>>
      /\ v.box = IF DOMAIN (IF w.box = 1 THEN w.rows ELSE <<>>) = {} THEN 0 ELSE 1
  BY DEF CloneCommand, WindowOf
<1> HIDE DEF v
<1>2. NameAlone(v) <=> NameAlone(w)
  <2>1. CASE w.box = 1 /\ DOMAIN w.rows = {}
    <3>1. Additional(w) = {} /\ v.box = 0
      BY <1>1, <2>1 DEF Additional
    <3> QED BY <3>1 DEF NameAlone
  <2>2. CASE w.box = 1 /\ DOMAIN w.rows # {}
    <3>1. v.box = 1 /\ v.rows = w.rows
      BY <1>1, <2>2
    <3>2. Additional(v) = Additional(w)
      BY <3>1 DEF Additional
    <3> QED BY <2>2, <3>1, <3>2 DEF NameAlone
  <2>3. CASE w.box = 0
    <3>1. v.rows = <<>> /\ DOMAIN <<>> = {}
      BY <1>1, <2>3
    <3>2. v.box = 0
      BY <1>1, <2>3, <3>1
    <3> QED BY <2>3, <3>2 DEF NameAlone
  <2> QED BY <2>1, <2>2, <2>3
<1>3. Tests(v) = Tests(w)
  <2>1. CASE NameAlone(w)
    BY <1>2, <2>1 DEF Tests
  <2>2. CASE ~NameAlone(w)
    <3>1. v.rows = w.rows
      BY <1>1, <2>2 DEF NameAlone
    <3> QED BY <1>2, <2>2, <3>1 DEF Tests
  <2> QED BY <2>1, <2>2
<1>4. Searches(v) = Searches(w)
  BY <1>1, <1>2, <1>3 DEF Searches
<1> QED BY <1>4 DEF v

LEMMA LeavesJoined ==
  ASSUME NEW q, IsQueue(q), NEW r, IsQueue(r), NEW c, NEW d, NEW e,
         Leaves(q, c, d), Leaves(r, d, e)
  PROVE  Leaves(q \o r, c, e)
<1> DEFINE S == {q[i] : i \in 1..Len(q)} \cup {r[i] : i \in 1..Len(r)}
           t == q \o r
           n == Len(q)
<1>1. q \in Seq(S) /\ r \in Seq(S)
  <2>1. q \in Seq({q[i] : i \in 1..Len(q)}) /\ r \in Seq({r[i] : i \in 1..Len(r)})
    BY QueueIsSeq
  <2> QED BY <2>1
<1> HIDE DEF S
<1>2. /\ n \in Nat /\ Len(r) \in Nat /\ Len(t) = n + Len(r)
      /\ \A i \in 1..n : t[i] = q[i]
      /\ \A i \in 1..Len(r) : t[n + i] = r[i]
  BY <1>1, Joined
<1> HIDE DEF t, n
<1>3. \A p \in 1..Len(t) : p \in 1..n \/ (p - n \in 1..Len(r) /\ p = n + (p - n) /\ t[p] = r[p - n])
  <2>1. SUFFICES ASSUME NEW p \in 1..Len(t), p \notin 1..n
                 PROVE  p - n \in 1..Len(r) /\ p = n + (p - n) /\ t[p] = r[p - n]
    OBVIOUS
  <2>2. p - n \in 1..Len(r) /\ p = n + (p - n)
    BY <1>2, <2>1
  <2>3. t[n + (p - n)] = r[p - n]
    BY <1>2, <2>2
  <2> QED BY <2>2, <2>3
<1>4. CASE e = d /\ \A i \in 1..Len(r) : ~IsProperty(r[i])
  <2>1. CASE d = c /\ \A i \in 1..n : ~IsProperty(q[i])
    <3>1. \A i \in 1..Len(t) : ~IsProperty(t[i])
      BY <1>2, <1>3, <1>4, <2>1
    <3> QED BY <1>4, <2>1, <3>1 DEF Leaves, t
  <2>2. ASSUME NEW i \in 1..n, IsProperty(q[i]), d = q[i].restart,
               \A j \in i + 1..n : ~IsProperty(q[j])
        PROVE  Leaves(t, c, e)
    <3>1. i \in 1..Len(t) /\ t[i] = q[i]
      BY <1>2, <2>2
    <3>2. \A j \in i + 1..Len(t) : ~IsProperty(t[j])
      <4>1. SUFFICES ASSUME NEW j \in i + 1..Len(t)
                     PROVE  ~IsProperty(t[j])
        OBVIOUS
      <4>2. j \in 1..Len(t)
        BY <1>2
      <4>3. CASE j \in 1..n
        <5>1. j \in i + 1..n
          BY <4>3
        <5> QED BY <1>2, <2>2, <4>3, <5>1
      <4>4. CASE j \notin 1..n
        BY <1>3, <1>4, <4>2, <4>4
      <4> QED BY <4>3, <4>4
    <3> QED BY <1>4, <2>2, <3>1, <3>2 DEF Leaves
  <2> QED BY <2>1, <2>2 DEF Leaves, t, n
<1>5. ASSUME NEW i \in 1..Len(r), IsProperty(r[i]), e = r[i].restart,
             \A j \in i + 1..Len(r) : ~IsProperty(r[j])
      PROVE  Leaves(t, c, e)
  <2>1. n + i \in 1..Len(t) /\ t[n + i] = r[i]
    BY <1>2, <1>5
  <2>2. \A j \in n + i + 1..Len(t) : ~IsProperty(t[j])
    <3>1. SUFFICES ASSUME NEW j \in n + i + 1..Len(t)
                   PROVE  ~IsProperty(t[j])
      OBVIOUS
    <3>2. j \in 1..Len(t) /\ j \notin 1..n /\ j - n \in i + 1..Len(r)
      BY <1>2
    <3> QED BY <1>3, <1>5, <3>2
  <2> DEFINE p == n + i
  <2>3. p \in 1..Len(t) /\ IsProperty(t[p]) /\ e = t[p].restart
        /\ \A j \in p + 1..Len(t) : ~IsProperty(t[j])
    BY <1>5, <2>1, <2>2
  <2> HIDE DEF p
  <2> QED BY <2>3 DEF Leaves
<1> QED BY <1>4, <1>5 DEF Leaves, t

LEMMA LeavesTaken ==
  ASSUME NEW q, IsQueue(q), q # <<>>, NEW c, NEW d, Leaves(q, c, d)
  PROVE  Leaves(Tail(q), IF IsProperty(Head(q)) THEN Head(q).restart ELSE c, d)
<1> DEFINE t == Tail(q)
           b == IF IsProperty(Head(q)) THEN Head(q).restart ELSE c
<1>1. /\ IsQueue(t) /\ Len(t) = Len(q) - 1 /\ Len(q) >= 1 /\ Len(q) \in Nat
      /\ \A i \in 1..Len(q) - 1 : t[i] = q[i + 1]
      /\ Head(q) = q[1]
  BY QueueTail DEF IsQueue
<1> HIDE DEF t
<1>2. \A i \in 1..Len(t) : i + 1 \in 1..Len(q) /\ t[i] = q[i + 1]
  BY <1>1
<1>3. CASE d = c /\ \A i \in 1..Len(q) : ~IsProperty(q[i])
  <2>1. \A i \in 1..Len(t) : ~IsProperty(t[i])
    BY <1>2, <1>3
  <2>2. b = c
    BY <1>1, <1>3
  <2> QED BY <1>3, <2>1, <2>2 DEF Leaves, t
<1>4. ASSUME NEW i \in 1..Len(q), IsProperty(q[i]), d = q[i].restart,
             \A j \in i + 1..Len(q) : ~IsProperty(q[j])
      PROVE  Leaves(t, b, d)
  <2>1. CASE i = 1
    <3>1. \A j \in 1..Len(t) : ~IsProperty(t[j])
      BY <1>1, <1>2, <1>4, <2>1
    <3>2. b = d
      BY <1>1, <1>4, <2>1
    <3> QED BY <3>1, <3>2 DEF Leaves
  <2>2. CASE i # 1
    <3> DEFINE p == i - 1
    <3>1. p \in 1..Len(t) /\ p + 1 = i
      BY <1>1, <2>2
    <3> HIDE DEF p
    <3>2. t[p] = q[i]
      BY <1>2, <3>1
    <3>3. \A j \in p + 1..Len(t) : ~IsProperty(t[j])
      <4>1. SUFFICES ASSUME NEW j \in p + 1..Len(t)
                     PROVE  ~IsProperty(t[j])
        OBVIOUS
      <4>2. j \in 1..Len(t) /\ j + 1 \in i + 1..Len(q)
        BY <1>1, <3>1
      <4> QED BY <1>2, <1>4, <4>2
    <3> QED BY <1>4, <3>1, <3>2, <3>3 DEF Leaves
  <2> QED BY <2>1, <2>2
<1> QED BY <1>3, <1>4 DEF Leaves, t
-----------------------------------------------------------------------------
(* What the client sends leaves the property as it is, or brings it up to  *)
(* date with the restart command.                                          *)
Quiet(r)   == IsQueue(r) /\ \A d : Leaves(r, d, d)
Updates(r, cmd) == IsQueue(r) /\ \A d : Leaves(r, d, cmd)

LEMMA QuietMessages ==
  ASSUME NEW m, NEW n
  PROVE  /\ Quiet(<<>>)
         /\ ~IsProperty(m) => Quiet(<<m>>)
         /\ ~IsProperty(m) /\ ~IsProperty(n) => Quiet(<<m, n>>)
<1>1. /\ IsQueue(<<>>) /\ IsQueue(<<m>>) /\ IsQueue(<<m, n>>)
      /\ Len(<<>>) = 0 /\ Len(<<m>>) = 1 /\ Len(<<m, n>>) = 2
      /\ <<m>>[1] = m /\ <<m, n>>[1] = m /\ <<m, n>>[2] = n
  BY DEF IsQueue
<1>2. Quiet(<<>>)
  BY <1>1 DEF Quiet, Leaves
<1>3. ASSUME ~IsProperty(m) PROVE Quiet(<<m>>)
  <2> DEFINE r == <<m>>
  <2>1. \A i \in 1..Len(r) : ~IsProperty(r[i])
    BY <1>1, <1>3
  <2> HIDE DEF r
  <2>2. \A d : Leaves(r, d, d)
    BY <2>1 DEF Leaves
  <2> QED BY <1>1, <2>2 DEF Quiet, r
<1>4. ASSUME ~IsProperty(m), ~IsProperty(n) PROVE Quiet(<<m, n>>)
  <2> DEFINE r == <<m, n>>
  <2>1. \A i \in 1..Len(r) : ~IsProperty(r[i])
    BY <1>1, <1>4
  <2> HIDE DEF r
  <2>2. \A d : Leaves(r, d, d)
    BY <2>1 DEF Leaves
  <2> QED BY <1>1, <2>2 DEF Quiet, r
<1> QED BY <1>2, <1>3, <1>4

LEMMA PropertyUpdates ==
  ASSUME NEW cmd
  PROVE  Updates(<<Property(cmd)>>, cmd)
<1> DEFINE m == Property(cmd)
           r == <<m>>
<1>1. IsProperty(m) /\ m.restart = cmd
  BY DEF Property, IsProperty
<1> HIDE DEF m
<1>2. IsQueue(r) /\ Len(r) = 1 /\ r[1] = m
  BY DEF IsQueue
<1> HIDE DEF r
<1>3. \A d : Leaves(r, d, cmd)
  BY <1>1, <1>2 DEF Leaves
<1>4. Updates(r, cmd)
  BY <1>2, <1>3 DEF Updates
<1> QED BY <1>4 DEF r, m

LEMMA QueuesJoined ==
  ASSUME NEW q, IsQueue(q), NEW r, IsQueue(r)
  PROVE  IsQueue(q \o r)
<1> DEFINE S == {q[i] : i \in 1..Len(q)} \cup {r[i] : i \in 1..Len(r)}
<1>1. q \in Seq(S) /\ r \in Seq(S)
  <2>1. q \in Seq({q[i] : i \in 1..Len(q)}) /\ r \in Seq({r[i] : i \in 1..Len(r)})
    BY QueueIsSeq
  <2> QED BY <2>1
<1> HIDE DEF S
<1>2. q \o r \in Seq(S)
  BY <1>1
<1> QED BY <1>2, SeqIsQueue

LEMMA UpdatesJoined ==
  ASSUME NEW q, NEW r, NEW cmd
  PROVE  /\ Quiet(q) /\ Quiet(r) => Quiet(q \o r)
         /\ Quiet(q) /\ Updates(r, cmd) => Updates(q \o r, cmd)
         /\ Updates(q, cmd) /\ Quiet(r) => Updates(q \o r, cmd)
         /\ \A b : Updates(q, b) /\ Updates(r, cmd) => Updates(q \o r, cmd)
BY QueuesJoined, LeavesJoined DEF Quiet, Updates

LEMMA ClientMessages ==
  ASSUME NEW s, NEW c, NEW cmd
  PROVE  /\ Quiet(<<Done(s)>>) /\ Quiet(<<InteractRequest>>)
         /\ Quiet(<<[kind |-> "SaveYourselfRequest"]>>)
         /\ Quiet(<<InteractDone(c), Done(s)>>)
         /\ Updates(<<Property(cmd), Done(s)>>, cmd)
         /\ Updates(<<InteractDone(c), Property(cmd), Done(s)>>, cmd)
<1>1. /\ ~IsProperty(Done(s)) /\ ~IsProperty(InteractRequest) /\ ~IsProperty(InteractDone(c))
      /\ ~IsProperty([kind |-> "SaveYourselfRequest"])
  BY DEF IsProperty, Done, InteractRequest, InteractDone
<1>2. /\ Quiet(<<Done(s)>>) /\ Quiet(<<InteractRequest>>) /\ Quiet(<<InteractDone(c)>>)
      /\ Quiet(<<[kind |-> "SaveYourselfRequest"]>>)
      /\ Quiet(<<InteractDone(c), Done(s)>>)
  BY <1>1, QuietMessages
<1>3. <<Property(cmd), Done(s)>> = <<Property(cmd)>> \o <<Done(s)>>
  BY Joins
<1>4. Updates(<<Property(cmd), Done(s)>>, cmd)
  BY <1>2, <1>3, PropertyUpdates, UpdatesJoined
<1>5. <<InteractDone(c), Property(cmd), Done(s)>>
        = <<InteractDone(c)>> \o <<Property(cmd), Done(s)>>
  BY JoinThree
<1>6. Updates(<<InteractDone(c), Property(cmd), Done(s)>>, cmd)
  <2> DEFINE u == <<InteractDone(c)>>
             v == <<Property(cmd), Done(s)>>
  <2>1. Quiet(u) /\ Updates(v, cmd)
    BY <1>2, <1>4
  <2> HIDE DEF u, v
  <2>2. Updates(u \o v, cmd)
    BY <2>1, UpdatesJoined
  <2> QED BY <1>5, <2>2 DEF u, v
<1> QED BY <1>2, <1>4, <1>6

(* What a step of the client may do to what is saved.                      *)
Sends(cmd) == \E r : toManager' = Send(r) /\ (Quiet(r) \/ Updates(r, cmd))
KeepsSaved == NoSave /\ Sends(restart)
SavesNow   ==
  /\ SaveState
  /\ \E r : toManager' = Send(r) /\ Updates(r, CloneCommand(window))

LEMMA ClientKeepsSaved ==
  ASSUME Good, Saved, KeepsSaved, UNCHANGED <<window, manager, property>>
  PROVE  Saved'
<1>1. IsWindow(window)' /\ Restores(restart)' /\ \A c : Restores(c)' <=> Restores(c)
  BY DEF KeepsSaved, NoSave, Saved, Restores, IsWindow
<1>2. ASSUME manager' # "dead"
      PROVE  \E d : Leaves(toManager', property', d) /\ Restores(d)'
  <2>1. manager # "dead" /\ IsQueue(toManager)
    BY <1>2 DEF Good, Dead, Over, Talking, Answers
  <2>2. PICK d : Leaves(toManager, property, d) /\ Restores(d)
    BY <2>1 DEF Saved
  <2>3. PICK r : toManager' = Send(r) /\ (Quiet(r) \/ Updates(r, restart))
    BY DEF KeepsSaved, Sends
  <2>4. CASE connected # 1
    BY <1>1, <2>2, <2>3, <2>4 DEF Send
  <2>5. CASE connected = 1 /\ Quiet(r)
    <3>1. Leaves(toManager \o r, property, d)
      BY <2>1, <2>2, <2>5, LeavesJoined DEF Quiet
    <3> QED BY <1>1, <2>2, <2>3, <2>5, <3>1 DEF Send
  <2>6. CASE connected = 1 /\ Updates(r, restart)
    <3>1. Leaves(toManager \o r, property, restart)
      BY <2>1, <2>2, <2>6, LeavesJoined DEF Updates
    <3>2. Restores(restart)
      BY DEF Saved
    <3> QED BY <1>1, <2>3, <2>6, <3>1, <3>2 DEF Send
  <2> QED BY <2>3, <2>4, <2>5, <2>6
<1> QED BY <1>1, <1>2 DEF Saved

LEMMA ClientSavesNow ==
  ASSUME Good, Saved, SavesNow, connected = 1 \/ manager = "dead",
         UNCHANGED <<window, manager, property>>
  PROVE  Saved'
<1>1. restart' = CloneCommand(window) /\ saved' = Searches(window)
  BY DEF SavesNow, SaveState
<1>2. Searches(WindowOf(CloneCommand(window), 0, {})) = Searches(window)
  BY CloneSearchesTheSame DEF Saved, IsWindow
<1>3. IsWindow(window)' /\ Restores(restart)' /\ Restores(CloneCommand(window))'
  BY <1>1, <1>2 DEF Saved, Restores, IsWindow
<1>4. ASSUME manager' # "dead"
      PROVE  \E d : Leaves(toManager', property', d) /\ Restores(d)'
  <2>1. manager # "dead" /\ IsQueue(toManager) /\ connected = 1
    BY <1>4 DEF Good, Dead, Over, Talking, Answers
  <2>2. PICK d : Leaves(toManager, property, d)
    BY <2>1 DEF Saved
  <2>3. PICK r : toManager' = Send(r) /\ Updates(r, CloneCommand(window))
    BY DEF SavesNow
  <2>4. Leaves(toManager \o r, property, CloneCommand(window))
    BY <2>1, <2>2, <2>3, LeavesJoined DEF Updates
  <2>5. Leaves(toManager', property', CloneCommand(window))
    BY <2>1, <2>3, <2>4 DEF Send
  <2> QED BY <1>1, <1>3, <2>5
<1> QED BY <1>3, <1>4 DEF Saved

(* Steps that send and save nothing.                                       *)
LEMMA QuietSteps ==
  ASSUME toManager' = toManager, NoSave, Good, Saved,
         UNCHANGED <<window, manager, property>>
  PROVE  Saved'
BY DEF Saved, NoSave, Restores, IsWindow

(* do_save_yourself saves, with the command on its way, or does not.       *)
LEMMA DoSaveYourselfSaves ==
  ASSUME NEW x, NEW before, DoSaveYourself(x, before),
         Quiet(before) \/ Updates(before, restart)
  PROVE  KeepsSaved \/ SavesNow
<1>1. CASE toManager' = Send(before) /\ NoSave
  BY <1>1 DEF KeepsSaved, Sends
<1>2. CASE toManager' = Send(before \o <<InteractRequest>>) /\ NoSave
  BY <1>2, ClientMessages, UpdatesJoined DEF KeepsSaved, Sends
<1>3. CASE toManager' = Send(before \o <<Done(1)>>) /\ NoSave
  BY <1>3, ClientMessages, UpdatesJoined DEF KeepsSaved, Sends
<1>4. CASE /\ SaveState
           /\ toManager' = Send(before \o <<Property(CloneCommand(window)), Done(1)>>)
  <2> DEFINE cmd == CloneCommand(window)
             r   == <<Property(cmd), Done(1)>>
  <2>1. Updates(r, cmd)
    BY ClientMessages
  <2> HIDE DEF r, cmd
  <2>2. Updates(before \o r, cmd)
    BY <2>1, UpdatesJoined
  <2> QED BY <1>4, <2>2 DEF SavesNow, cmd, r
<1> QED BY <1>1, <1>2, <1>3, <1>4 DEF DoSaveYourself

(* Whatever the command line, the window it opens is one.                  *)
LEMMA StartedWindow ==
  ASSUME NEW cmd, NEW show \in 0..1, NEW flags
  PROVE  IsWindow(WindowOf(cmd, show, flags))
<1> DEFINE w == WindowOf(cmd, show, flags)
           box == IF DOMAIN cmd.options = {} THEN 0 ELSE 1
           defaults == [c \in flags |-> DefaultValue(c)]
<1>1. box \in 0..1
  OBVIOUS
<1> HIDE DEF box, defaults
<1>2. CASE cmd.given = 1
  <2>1. w = [name |-> cmd.name, folder |-> cmd.folder, rows |-> cmd.options, box |-> box]
    BY <1>2 DEF WindowOf, box
  <2> HIDE DEF w
  <2>2. IsWindow(w)
    BY <1>1, <2>1 DEF IsWindow
  <2> QED BY <2>2 DEF w
<1>3. CASE cmd.given # 1
  <2>1. w = [EmptyWindow EXCEPT !.box = show, !.rows = defaults]
    BY <1>3 DEF WindowOf, defaults
  <2> HIDE DEF w
  <2>2. IsWindow(w)
    BY <2>1 DEF IsWindow, EmptyWindow
  <2> QED BY <2>2 DEF w
<1> QED BY <1>2, <1>3

(* Every step keeps Saved.                                                 *)
LEMMA SavedNext ==
  ASSUME Good, Saved, [Next]_vars
  PROVE  Saved'
<1>1. CASE Receive
  <2> USE DEF server
  <2>1. CASE XsmpSaveYourself
    <3> DEFINE p == xsmp.set_initial_properties = 1
               x == IF p THEN WithProperties(xsmp) ELSE xsmp
               before == IF p THEN <<Property(restart)>> ELSE <<>>
    <3>1. Quiet(before) \/ Updates(before, restart)
      BY QuietMessages, PropertyUpdates
    <3>2. connected = 1 /\ UNCHANGED <<window, manager, property>>
      BY <2>1 DEF XsmpSaveYourself, Receives, Taken
    <3>3. \/ NoSave /\ toManager' = Send(before \o <<Done(1)>>)
          \/ \E y : DoSaveYourself(y, before)
          \/ NoSave /\ toManager' = Send(<<>> \o <<Done(1)>>)
      BY <2>1 DEF XsmpSaveYourself, FixBrokenState
    <3> HIDE DEF before
    <3>4. CASE NoSave /\ toManager' = Send(before \o <<Done(1)>>)
      <4>1. KeepsSaved
        BY <3>1, <3>4, ClientMessages, UpdatesJoined DEF KeepsSaved, Sends
      <4> QED BY <3>2, <4>1, ClientKeepsSaved
    <3>5. CASE \E y : DoSaveYourself(y, before)
      BY <3>1, <3>2, <3>5, DoSaveYourselfSaves, ClientKeepsSaved, ClientSavesNow
    <3>6. CASE NoSave /\ toManager' = Send(<<>> \o <<Done(1)>>)
      <4>1. Quiet(<<>> \o <<Done(1)>>)
        BY QuietMessages, ClientMessages, UpdatesJoined
      <4>2. KeepsSaved
        BY <3>6, <4>1 DEF KeepsSaved, Sends
      <4> QED BY <3>2, <4>2, ClientKeepsSaved
    <3> QED BY <3>3, <3>4, <3>5, <3>6
  <2>2. CASE XsmpInteract
    <3>1. In(xsmp, "interact-request")
      BY <2>2, Received, TalkInteracts DEF XsmpInteract
    <3>2. NoSave /\ toManager' = toManager /\ UNCHANGED <<window, manager, property>>
      BY <2>2, <3>1 DEF XsmpInteract, Taken, NoSave, In
    <3> QED BY <3>2, QuietSteps
  <2>3. CASE XsmpDie
    BY <2>3, QuietSteps DEF XsmpDie, search, NoSave
  <2>4. CASE XsmpSaveComplete
    <3>1. In(xsmp, "save-yourself-done")
      BY <2>4, Received, TalkEnds DEF XsmpSaveComplete
    <3>2. NoSave /\ toManager' = toManager /\ UNCHANGED <<window, manager, property>>
      BY <2>4, <3>1 DEF XsmpSaveComplete, Taken, NoSave, In
    <3> QED BY <3>2, QuietSteps
  <2>5. CASE XsmpShutdownCancelled
    <3>1. NoSave /\ UNCHANGED <<window, manager, property>>
      BY <2>5 DEF XsmpShutdownCancelled, Taken, NoSave
    <3>2. CASE toManager' = toManager
      BY <3>1, <3>2, QuietSteps
    <3>3. CASE toManager' = Send(<<Done(0)>>)
      <4>1. KeepsSaved
        BY <3>1, <3>3, ClientMessages DEF KeepsSaved, Sends
      <4> QED BY <3>1, <4>1, ClientKeepsSaved
    <3> QED BY <2>5, <3>2, <3>3 DEF XsmpShutdownCancelled, CancelledWhileSaving
  <2>6. CASE ConnectionFails
    BY <2>6, QuietSteps DEF ConnectionFails, search, NoSave
  <2> QED BY <1>1, <2>1, <2>2, <2>3, <2>4, <2>5, <2>6 DEF Receive
<1>2. CASE Pend
  <2>1. CASE SetInitialProperties
    <3>1. KeepsSaved /\ UNCHANGED <<window, manager, property>>
      BY <2>1, PropertyUpdates DEF SetInitialProperties, KeepsSaved, Sends, NoSave, search, server
    <3> QED BY <3>1, ClientKeepsSaved
  <2>2. CASE EmitQuit
    BY <2>2, QuietSteps DEF EmitQuit, search, server, channels, NoSave
  <2>3. CASE IdleDoPendingEvents
    <3>1. UNCHANGED <<window, manager, property>>
      BY <2>3 DEF IdleDoPendingEvents, server
    <3>2. CASE xsmp.save_myself = 1 /\ \E y : DoSaveYourself(y, <<>>)
      <4>1. connected = 1 \/ manager = "dead"
        BY <3>2 DEF Good, Dead, Over, Talking, In
      <4>2. KeepsSaved \/ SavesNow
        BY <3>2, QuietMessages, DoSaveYourselfSaves
      <4> QED BY <3>1, <4>1, <4>2, ClientKeepsSaved, ClientSavesNow
    <3>3. CASE NoSave /\ toManager' = toManager
      BY <3>1, <3>3, QuietSteps
    <3> QED BY <2>3, <3>2, <3>3 DEF IdleDoPendingEvents
  <2> QED BY <1>2, <2>1, <2>2, <2>3 DEF Pend
<1>3. CASE Answer
  <2>1. PICK will \in 0..1 : WillQuit(will)
    BY <1>3 DEF Answer
  <2>2. UNCHANGED <<window, manager, property>>
    BY <2>1 DEF WillQuit, server
  <2>3. CASE NoSave /\ toManager' = toManager
    BY <2>2, <2>3, QuietSteps
  <2>4. CASE NoSave /\ toManager' = Send(<<InteractDone(1 - will), Done(will)>>)
    <3>1. KeepsSaved
      BY <2>4, ClientMessages DEF KeepsSaved, Sends
    <3> QED BY <2>2, <3>1, ClientKeepsSaved
  <2>5. CASE /\ xsmp.state = "interact" /\ SaveState
             /\ toManager' = Send(<<InteractDone(0), Property(CloneCommand(window)), Done(1)>>)
    <3>1. connected = 1 \/ manager = "dead"
      BY <2>5 DEF Good, Dead, Over, Talking, In
    <3>2. SavesNow
      BY <2>5, ClientMessages DEF SavesNow
    <3> QED BY <2>2, <3>1, <3>2, ClientSavesNow
  <2> QED BY <2>1, <2>3, <2>4, <2>5 DEF WillQuit, NoSave
<1>4. CASE EndSession
  <2>1. NoSave /\ UNCHANGED <<window, manager, property>>
    BY <1>4 DEF EndSession, search, server, NoSave
  <2>2. \/ toManager' = Send(<<[kind |-> "SaveYourselfRequest"]>>)
        \/ toManager' = Send(<<Property(restart)>>) \/ toManager' = Send(<<>>)
    BY <1>4 DEF EndSession
  <2>3. KeepsSaved
    BY <2>1, <2>2, ClientMessages, PropertyUpdates, QuietMessages DEF KeepsSaved, Sends
  <2> QED BY <2>1, <2>3, ClientKeepsSaved
<1>5. ASSUME ManagerReceives PROVE Saved'
  <2> DEFINE m == Head(toManager)
             b == IF IsProperty(m) THEN m.restart ELSE property
  <2>1. /\ toManager # <<>> /\ toManager' = Tail(toManager) /\ property' = b
        /\ manager # "dead" /\ UNCHANGED <<window, restart, saved>>
    BY <1>5 DEF ManagerReceives, IsProperty, search
  <2>2. IsQueue(toManager)
    BY <2>1 DEF Good, Dead, Over, Talking, Answers
  <2>3. PICK d : Leaves(toManager, property, d) /\ Restores(d)
    BY <2>1 DEF Saved
  <2>4. Leaves(toManager', property', d)
    BY <2>1, <2>2, <2>3, LeavesTaken
  <2>5. IsWindow(window)' /\ Restores(restart)' /\ Restores(d)'
    BY <2>1, <2>3 DEF Saved, Restores, IsWindow
  <2> QED BY <2>4, <2>5 DEF Saved
<1>6. ASSUME NEW req, EndRequested(req) PROVE Saved'
  <2>1. /\ toManager # <<>> /\ toManager' = Tail(toManager) /\ ~IsProperty(Head(toManager))
        /\ manager # "dead" /\ UNCHANGED <<window, restart, saved, property>>
    BY <1>6 DEF EndRequested, search, IsProperty
  <2>2. IsQueue(toManager)
    BY <2>1 DEF Good, Dead, Over, Talking, Answers
  <2>3. PICK d : Leaves(toManager, property, d) /\ Restores(d)
    BY <2>1 DEF Saved
  <2>4. Leaves(toManager', property', d)
    BY <2>1, <2>2, <2>3, LeavesTaken
  <2>5. IsWindow(window)' /\ Restores(restart)' /\ Restores(d)'
    BY <2>1, <2>3 DEF Saved, Restores, IsWindow
  <2> QED BY <2>4, <2>5 DEF Saved
<1>7. ASSUME manager # "dead", UNCHANGED <<window, restart, saved, property, toManager>>
      PROVE  Saved'
  BY <1>7 DEF Saved, Restores, IsWindow
<1>8. CASE Register \/ Grant \/ SaveComplete \/ Die \/ Cancel
           \/ \E req \in SaveRequest : SaveYourself(req)
  BY <1>7, <1>8 DEF Register, Grant, SaveComplete, Die, Cancel, SaveYourself, MgrUnchanged,
     search, Owing
<1>9. CASE Edit
  <2>1. /\ window' \in Edits(window)
        /\ UNCHANGED <<restart, saved, property, toManager, manager>>
    BY <1>9 DEF Edit, server, channels
  <2>2. IsWindow(window')
    <3>1. IsWindow(window)
      BY DEF Saved
    <3>2. \A v : /\ IsWindow([window EXCEPT !.name = v])
                 /\ IsWindow([window EXCEPT !.folder = v])
                 /\ IsWindow([window EXCEPT !.rows = v])
                 /\ v \in 0..1 => IsWindow([window EXCEPT !.box = v])
      BY <3>1 DEF IsWindow
    <3>3. 1 - window.box \in 0..1
      BY <3>1 DEF IsWindow
    <3>4. CASE \E n \in Texts : window' = [window EXCEPT !.name = n]
      BY <3>2, <3>4
    <3>5. CASE \E f \in Folders : window' = [window EXCEPT !.folder = f]
      BY <3>2, <3>5
    <3>6. CASE window' = Toggled(window)
      BY <3>2, <3>3, <3>6 DEF Toggled
    <3>7. CASE \E c : window' = AddConstraint(window, c) \/ window' = RemoveConstraint(window, c)
                     \/ \E v : window' = UpdateConstraint(window, c, v)
      BY <3>2, <3>7 DEF AddConstraint, RemoveConstraint, UpdateConstraint
    <3> QED BY <2>1, <3>4, <3>5, <3>6, <3>7 DEF Edits
  <2> QED BY <2>1, <2>2 DEF Saved, Restores
<1>10. CASE ManagerDies
  BY <1>10 DEF ManagerDies, search, Saved, Restores, IsWindow
<1>11. CASE Restart
  <2>1. /\ manager = "closed"
        /\ restart' = NoOptions /\ UNCHANGED <<saved, property, toManager>>
        /\ \E show \in 0..1 : window' = WindowOf(property, show, select)
    BY <1>11 DEF Restart, channels
  <2>2. \A show \in 0..1 : IsWindow(WindowOf(property, show, select))
    BY StartedWindow
  <2>3. IsWindow(window')
    BY <2>1, <2>2
  <2>4. Restores(restart)' /\ \A c : Restores(c) => Restores(c)'
    <3>1. restart'.given = 0
      BY <2>1 DEF NoOptions
    <3> QED BY <2>1, <3>1 DEF Restores
  <2>5. PICK d : Leaves(toManager, property, d) /\ Restores(d)
    BY <2>1 DEF Saved
  <2>6. Leaves(toManager', property', d) /\ Restores(d)'
    BY <2>1, <2>4, <2>5
  <2>7. IsWindow(window)'
    BY <2>3
  <2> QED BY <2>4, <2>6, <2>7 DEF Saved
<1>12. CASE UNCHANGED vars
  BY <1>12 DEF vars, search, server, channels, Saved, Restores, IsWindow
<1> QED BY <1>1, <1>2, <1>3, <1>4, <1>5, <1>6, <1>8, <1>9, <1>10, <1>11, <1>12
      DEF Next, Manage, Decide

LEMMA SavedInit ==
  ASSUME Init
  PROVE  Saved
<1>1. \A show \in 0..1 : IsWindow(WindowOf(NoOptions, show, {}))
  BY StartedWindow
<1>2. IsWindow(window)
  BY <1>1 DEF Init, InitWindows
<1>3. Restores(NoOptions)
  <2>1. NoOptions.given = 0
    BY DEF NoOptions
  <2> HIDE DEF NoOptions
  <2> QED BY <2>1 DEF Restores
<1>4. Leaves(<<>>, property, property)
  BY QuietMessages DEF Quiet
<1> QED BY <1>2, <1>3, <1>4 DEF Init, Saved

(* The window of the next session searches for what the window searched    *)
(* for when it was saved, whatever was sent and cancelled in between.      *)
THEOREM NextSessionSearchesTheSame == Spec => SessionRestored
<1>1. Init => Good /\ Saved
  BY GoodInit, SavedInit
<1>2. Good /\ Saved /\ [Next]_vars => (Good /\ Saved)'
  BY GoodNext, SavedNext
<1>3. Good /\ Saved /\ [Next]_vars
        => [Restart /\ property.given = 1 => Searches(window') = saved]_vars
  <2>1. SUFFICES ASSUME Good, Saved, Restart, property.given = 1
                 PROVE  Searches(window') = saved
    OBVIOUS
  <2>2. manager = "closed" /\ toManager = <<>>
    BY <2>1 DEF Restart
  <2>3. PICK d : Leaves(toManager, property, d) /\ Restores(d)
    BY <2>1, <2>2 DEF Saved
  <2>4. d = property
    <3>1. Len(<<>>) = 0
      OBVIOUS
    <3> QED BY <2>2, <2>3, <3>1 DEF Leaves
  <2>5. Searches(WindowOf(property, 0, {})) = saved
    BY <2>1, <2>3, <2>4 DEF Restores
  <2>6. PICK show \in 0..1 : window' = WindowOf(property, show, select)
    BY <2>1 DEF Restart
  <2>7. window' = WindowOf(property, 0, {})
    BY <2>1, <2>6 DEF WindowOf
  <2> QED BY <2>5, <2>7
<1> QED BY <1>1, <1>2, <1>3, PTL DEF Spec, SessionRestored
=============================================================================
