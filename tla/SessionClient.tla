--------------------------- MODULE SessionClient ---------------------------
(***************************************************************************)
(* The session client of cafe-search-tool (libeggsmclient over XSMP), the  *)
(* application behind it, and a session manager.                           *)
(*                                                                         *)
(* Client and manager exchange messages over one connection, in order      *)
(* each way, and each may write while the other's message is on its way:   *)
(* a shutdown may be cancelled while the application is being asked, while *)
(* its answer travels, or before the question arrived.  The manager is not *)
(* part of the repository: it is a manager that keeps to the protocol as   *)
(* the comments of eggsmclient-xsmp.c read it.  It may break down at any   *)
(* time, and after a shutdown it starts the program again with the command *)
(* the client left in its RestartCommand property.                         *)
(*                                                                         *)
(* The handlers of the library run to their end within one turn of the     *)
(* main loop, so each is one step.  An application that listens to         *)
(* quit_requested answers in a step of its own; cafe-search-tool does not  *)
(* listen.                                                                 *)
(***************************************************************************)
EXTENDS GSearchRules, Sequences

CONSTANTS
  MaxSaves,      (* bound: SaveYourself messages after the first           *)
  MaxEdits,      (* bound: acts of the user in the window                  *)
  MaxEnds,       (* bound: calls of egg_sm_client_end_session              *)
  MaxRestarts    (* bound: sessions after the first                        *)

ASSUME BoundsAssumption == {MaxSaves, MaxEdits, MaxEnds, MaxRestarts} \subseteq Nat

VARIABLES
  xsmp,          (* the client's record: see FreshClient                   *)
  connected,     (* connection # NULL                                      *)
  listens,       (* somebody is connected to quit_requested                *)
  app,           (* the application: "working", "asked", "answered" or "gone" *)
  broken,        (* history: a message came that its receiver did not expect *)
  window,        (* the search window                                      *)
  select,        (* the constraints set in org.cafe.search-tool.select     *)
  restart,       (* restart_command                                        *)
  manager,       (* "registering", "idle", or what it waits for            *)
  request,       (* its latest SaveYourself                                *)
  refused,       (* the client asked it to cancel                          *)
  property,      (* RestartCommand as the manager knows it                 *)
  toClient, toManager,
  saved,         (* history: what the window searched for when it was saved *)
  counts         (* the counters of the three bounds                       *)

client  == <<xsmp, connected, listens, app, broken>>
search  == <<window, select, restart, saved>>
server  == <<manager, request, refused, property>>
channels == <<toClient, toManager>>
vars == <<client, search, server, channels, counts>>

(* The fields of EggSMClientXSMP that decide something; waiting_to_ is cut *)
(* from the names of the todo list.  While ending is 1 the application     *)
(* waits in sm_client_xsmp_end_session, which reads messages itself and    *)
(* lets nothing else run.                                                  *)
FreshClient(expecting) ==
  [state |-> "idle", expecting_initial_save_yourself |-> expecting,
   need_save_state |-> 0, need_quit_requested |-> 0, shutting_down |-> 0, ending |-> 0,
   set_initial_properties |-> 1, emit_quit |-> 0, emit_quit_cancelled |-> 0,
   save_myself |-> 0, idle |-> "properties"]

SaveRequest == [save : {"global", "local"}, shutdown : 0..1, interact : 0..1]
Initial == [save |-> "local", shutdown |-> 0, interact |-> 0]

InitWindows == {WindowOf(NoOptions, show, {}) : show \in 0..1}

Init ==
  /\ xsmp = FreshClient(1) /\ connected = 1 /\ listens \in 0..1
  /\ app = "working" /\ broken = 0
  /\ window \in InitWindows /\ select = {} /\ restart = NoOptions
  /\ manager = "registering" /\ request = Initial /\ refused = 0 /\ property = NoOptions
  /\ toClient = <<>> /\ toManager = <<>>
  /\ saved = Searches(window)
  /\ counts = [saves |-> 0, edits |-> 0, ends |-> 0, restarts |-> 0]
-----------------------------------------------------------------------------
(***************************************************************************)
(* The client.  Its idle source is "none", "properties" (set_initial_      *)
(* properties) or "events" (idle_do_pending_events).                       *)
(***************************************************************************)
WantIdle(x) == x.emit_quit = 1 \/ x.emit_quit_cancelled = 1 \/ x.save_myself = 1

(* update_pending_events: an idle source that is there is left alone.      *)
Pending(x) ==
  [x EXCEPT !.idle = IF ~WantIdle(x) THEN "none" ELSE IF @ = "none" THEN "events" ELSE @]

Send(ms) == IF connected = 1 THEN toManager \o ms ELSE toManager

Done(success) == [kind |-> "SaveYourselfDone", success |-> success]
Property(cmd) == [kind |-> "SetProperties", restart |-> cmd]
InteractRequest == [kind |-> "InteractRequest"]
InteractDone(cancel) == [kind |-> "InteractDone", cancel |-> cancel]

(* sm_client_xsmp_set_initial_properties: removes the idle source.         *)
WithProperties(x) == Pending([x EXCEPT !.idle = "none", !.set_initial_properties = 0])

SetInitialProperties ==
  /\ xsmp.idle = "properties" /\ xsmp.ending = 0
  /\ xsmp' = WithProperties(xsmp)
  /\ toManager' = Send(<<Property(restart)>>)
  /\ UNCHANGED <<connected, listens, app, broken, search, server, toClient, counts>>

(* save_state: the application puts its state into the restart command.    *)
SaveState ==
  /\ restart' = CloneCommand(window)
  /\ saved' = Searches(window)
NoSave == UNCHANGED <<restart, saved>>

(* do_save_yourself after the messages before: what x becomes, and what is *)
(* sent.                                                                   *)
DoSaveYourself(x, before) ==
  \/ /\ x.state = "shutdown-cancelled"
     /\ xsmp' = Pending([x EXCEPT !.save_myself = 1])
     /\ toManager' = Send(before) /\ NoSave
  \/ /\ x.state # "shutdown-cancelled" /\ x.need_quit_requested = 1
     /\ xsmp' = [x EXCEPT !.state = "interact-request"]
     /\ toManager' = Send(before \o <<InteractRequest>>) /\ NoSave
  \/ /\ x.state # "shutdown-cancelled" /\ x.need_quit_requested = 0
     /\ xsmp' = [x EXCEPT !.state = "save-yourself-done"]
     /\ \/ x.need_save_state = 1 /\ SaveState
           /\ toManager' = Send(before \o <<Property(CloneCommand(window)), Done(1)>>)
        \/ x.need_save_state = 0 /\ NoSave
           /\ toManager' = Send(before \o <<Done(1)>>)

FixBrokenState(interactDone, saveDone) ==
  /\ broken' = 1 /\ NoSave
  /\ xsmp' = [Pending([xsmp EXCEPT !.save_myself = 0])
                EXCEPT !.state = IF saveDone THEN "save-yourself-done" ELSE "idle"]
  /\ toManager' = Send((IF interactDone THEN <<InteractDone(0)>> ELSE <<>>)
                       \o (IF saveDone THEN <<Done(1)>> ELSE <<>>))
  /\ UNCHANGED app

(* Mutant: the loop waits for the answer to a question it does not let the *)
(* application answer.                                                     *)
EndsHowWithoutInteraction(x) ==
  CASE x.state = "idle" /\ x.expecting_initial_save_yourself = 0 -> "send"
    [] x.state = "connection-closed" \/ x.shutting_down = 1 -> "return"
    [] OTHER -> "wait"

(* The loop of sm_client_xsmp_end_session: the request can be sent, or     *)
(* there is no need or no way to, or a message has to be waited for.       *)
EndsHow(x) ==
  CASE x.state = "idle" /\ x.expecting_initial_save_yourself = 0 -> "send"
    [] x.shutting_down = 1
       \/ x.state \in {"interact-request", "interact", "shutdown-cancelled", "connection-closed"} -> "return"
    [] OTHER -> "wait"

(* The main loop runs, or the loop that waits for a message.               *)
Reading == xsmp.ending = 0 \/ EndsHow(xsmp) = "wait"

(* The head of the queue is a message m of this kind.                      *)
Receives(kind) == connected = 1 /\ Reading /\ toClient # <<>> /\ Head(toClient).kind = kind
Taken == /\ toClient' = Tail(toClient)
         /\ UNCHANGED <<connected, listens, window, select, server, counts>>

(* xsmp_save_yourself.  The first request of a new client is answered      *)
(* without saving, when it is the one the protocol announces.              *)
XsmpSaveYourself ==
  /\ Receives("SaveYourself") /\ Taken
  /\ LET m == Head(toClient)
         x == IF xsmp.set_initial_properties = 1 THEN WithProperties(xsmp) ELSE xsmp
         before == IF xsmp.set_initial_properties = 1 THEN <<Property(restart)>> ELSE <<>>
         expected == x.expecting_initial_save_yourself = 1 /\ m.req = Initial
     IN \/ /\ xsmp.state \notin {"idle", "shutdown-cancelled"}
           /\ FixBrokenState(FALSE, TRUE)
        \/ /\ xsmp.state \in {"idle", "shutdown-cancelled"} /\ expected
           /\ xsmp' = [x EXCEPT !.expecting_initial_save_yourself = 0,
                                !.state = "save-yourself-done"]
           /\ toManager' = Send(before \o <<Done(1)>>) /\ NoSave
           /\ UNCHANGED <<app, broken>>
        \/ /\ xsmp.state \in {"idle", "shutdown-cancelled"} /\ ~expected
           /\ DoSaveYourself(
                [x EXCEPT !.expecting_initial_save_yourself = 0,
                          !.shutting_down = m.req.shutdown,
                          !.need_save_state = IF m.req.save = "global" THEN 0 ELSE 1,
                          !.need_quit_requested =
                             IF m.req.shutdown = 1 /\ listens = 1 /\ m.req.interact = 1
                             THEN 1 ELSE 0], before)
           /\ UNCHANGED <<app, broken>>

(* xsmp_interact: quit_requested is emitted; whoever listens answers.      *)
XsmpInteract ==
  /\ Receives("Interact") /\ Taken
  /\ \/ /\ xsmp.state # "interact-request" /\ FixBrokenState(TRUE, TRUE)
     \/ /\ xsmp.state = "interact-request"
        /\ xsmp' = [xsmp EXCEPT !.state = "interact"] /\ app' = "asked"
        /\ UNCHANGED <<broken, restart, saved, toManager>>

(* egg_sm_client_will_quit                                                 *)
WillQuit(will) ==
  /\ app = "asked" /\ app' = "answered" /\ xsmp.ending = 0
  /\ \/ /\ xsmp.state = "connection-closed"
        /\ xsmp' = Pending([xsmp EXCEPT !.emit_quit = 1])
        /\ UNCHANGED <<restart, saved, toManager>>
     \/ /\ xsmp.state = "shutdown-cancelled"
        /\ xsmp' = Pending([xsmp EXCEPT !.emit_quit_cancelled = 1])
        /\ UNCHANGED <<restart, saved, toManager>>
     \/ /\ xsmp.state = "interact"
        /\ xsmp' = [xsmp EXCEPT !.state = "save-yourself-done"]
        /\ \/ will = 1 /\ xsmp.need_save_state = 1 /\ SaveState
              /\ toManager' = Send(<<InteractDone(0), Property(CloneCommand(window)), Done(1)>>)
           \/ (will = 0 \/ xsmp.need_save_state = 0) /\ NoSave
              /\ toManager' = Send(<<InteractDone(1 - will), Done(will)>>)
  /\ UNCHANGED <<connected, listens, broken, window, select, server, toClient, counts>>

(* sm_client_xsmp_disconnect                                               *)
Disconnect ==
  /\ connected' = 0
  /\ xsmp' = Pending([xsmp EXCEPT !.state = "connection-closed", !.save_myself = 0])
  /\ toClient' = <<>>

XsmpDie ==
  /\ Receives("Die") /\ Disconnect
  /\ app' = "gone"
  /\ UNCHANGED <<listens, broken, search, server, toManager, counts>>

XsmpSaveComplete ==
  /\ Receives("SaveComplete") /\ Taken
  /\ \/ /\ xsmp.state = "save-yourself-done"
        /\ xsmp' = [xsmp EXCEPT !.state = "idle"]
        /\ UNCHANGED <<app, broken, restart, saved, toManager>>
     \/ xsmp.state # "save-yourself-done" /\ FixBrokenState(FALSE, FALSE)

CancelledWhileSaving ==
  /\ xsmp' = [xsmp EXCEPT !.state = IF @ = "interact" THEN "shutdown-cancelled" ELSE "idle",
                          !.shutting_down = 0]
  /\ toManager' = Send(<<Done(0)>>) /\ UNCHANGED app

(* Mutant: a save that is already answered is answered again.              *)
CancelledAnswersAgain ==
  /\ Receives("ShutdownCancelled") /\ Taken /\ UNCHANGED <<broken, restart, saved>>
  /\ xsmp.state # "shutdown-cancelled" /\ CancelledWhileSaving

(* xsmp_shutdown_cancelled                                                 *)
XsmpShutdownCancelled ==
  /\ Receives("ShutdownCancelled") /\ Taken /\ UNCHANGED <<broken, restart, saved>>
  /\ \/ /\ xsmp.state = "save-yourself-done"
        /\ xsmp' = [xsmp EXCEPT !.state = "idle", !.shutting_down = 0] /\ app' = "working"
        /\ UNCHANGED toManager
     \/ /\ xsmp.state = "shutdown-cancelled"
        /\ xsmp' = Pending([xsmp EXCEPT !.save_myself = 0, !.shutting_down = 0])
        /\ UNCHANGED <<toManager, app>>
     \/ /\ xsmp.state \notin {"save-yourself-done", "shutdown-cancelled"}
        /\ CancelledWhileSaving

(* idle_do_pending_events: a quit goes before everything else.             *)
EmitQuit ==
  /\ xsmp.idle = "events" /\ xsmp.emit_quit = 1 /\ xsmp.ending = 0
  /\ xsmp' = [xsmp EXCEPT !.idle = "none", !.emit_quit = 0]
  /\ app' = "gone"
  /\ UNCHANGED <<connected, listens, broken, search, server, channels, counts>>

(* Mutant: the save that waited is forgotten with the cancelled quit.      *)
IdleDoOnePendingEvent ==
  /\ xsmp.idle = "events" /\ xsmp.emit_quit = 0 /\ xsmp.ending = 0
  /\ xsmp' = [xsmp EXCEPT !.idle = "none", !.emit_quit_cancelled = 0, !.save_myself = 0,
                          !.state = IF xsmp.emit_quit_cancelled = 1 THEN "idle" ELSE @]
  /\ app' = IF xsmp.emit_quit_cancelled = 1 THEN "working" ELSE app
  /\ NoSave
  /\ UNCHANGED <<connected, listens, broken, window, select, server, channels, counts>>

IdleDoPendingEvents ==
  /\ xsmp.idle = "events" /\ xsmp.emit_quit = 0 /\ xsmp.ending = 0
  /\ LET x == [xsmp EXCEPT !.idle = "none", !.emit_quit_cancelled = 0, !.save_myself = 0,
                           !.state = IF xsmp.emit_quit_cancelled = 1 THEN "idle" ELSE @]
     IN \/ xsmp.save_myself = 1 /\ DoSaveYourself(x, <<>>)
        \/ xsmp.save_myself = 0 /\ xsmp' = x /\ NoSave /\ UNCHANGED toManager
  /\ app' = IF xsmp.emit_quit_cancelled = 1 THEN "working" ELSE app
  /\ UNCHANGED <<connected, listens, broken, window, select, server, toClient, counts>>

(* process_ice_messages fails: the application is not told.                *)
ConnectionFails ==
  /\ connected = 1 /\ Reading /\ manager = "dead" /\ toClient = <<>> /\ Disconnect
  /\ UNCHANGED <<listens, app, broken, search, server, toManager, counts>>

(* egg_sm_client_end_session is called, sends the request, or waits until  *)
(* the client has nothing else to do.                                      *)
EndSession ==
  LET asks == app # "gone" /\ xsmp.ending = 0 /\ counts.ends < MaxEnds
      how  == EndsHow(xsmp)
      first == how = "wait" /\ xsmp.state = "idle" /\ xsmp.set_initial_properties = 1
  IN /\ asks \/ (xsmp.ending = 1 /\ how # "wait")
     /\ xsmp' = [IF first THEN WithProperties(xsmp) ELSE xsmp
                   EXCEPT !.ending = IF how = "wait" THEN 1 ELSE 0]
     /\ toManager' = Send(IF how = "send" THEN <<[kind |-> "SaveYourselfRequest"]>>
                          ELSE IF first THEN <<Property(restart)>> ELSE <<>>)
     /\ counts' = IF asks THEN [counts EXCEPT !.ends = @ + 1] ELSE counts
     /\ UNCHANGED <<connected, listens, app, broken, search, server, toClient>>

(* The user changes what the window searches for; a row that is added or   *)
(* removed is noted in the settings.                                       *)
Edit ==
  /\ app = "working" /\ xsmp.ending = 0 /\ counts.edits < MaxEdits
  /\ window' \in Edits(window) /\ window' # window
  /\ select' = (select \ DOMAIN window.rows) \cup DOMAIN window'.rows
  /\ counts' = [counts EXCEPT !.edits = @ + 1]
  /\ UNCHANGED <<client, restart, saved, server, channels>>
-----------------------------------------------------------------------------
(***************************************************************************)
(* The session manager.                                                    *)
(***************************************************************************)
Tell(kind) == toClient' = Append(toClient, [kind |-> kind])

MgrUnchanged == UNCHANGED <<client, search, property, toManager>>

Asks(req) ==
  /\ manager' = "saving" /\ request' = req /\ refused' = 0
  /\ toClient' = Append(toClient, [kind |-> "SaveYourself", req |-> req])

Register ==
  /\ manager = "registering" /\ Asks(Initial)
  /\ MgrUnchanged /\ UNCHANGED counts

SaveYourself(req) ==
  /\ manager = "idle" /\ counts.saves < MaxSaves /\ Asks(req)
  /\ counts' = [counts EXCEPT !.saves = @ + 1]
  /\ MgrUnchanged

(* A client has asked for the end of the session, which the manager only   *)
(* notices when it is idle; what is to be saved depends on the manager.    *)
EndRequested(req) ==
  /\ manager = "idle" /\ toManager # <<>> /\ Head(toManager).kind = "SaveYourselfRequest"
  /\ req.shutdown = 1 /\ Asks(req)
  /\ toManager' = Tail(toManager)
  /\ UNCHANGED <<client, search, property, counts>>

Grant ==
  /\ manager = "asked" /\ manager' = "granted" /\ Tell("Interact")
  /\ MgrUnchanged /\ UNCHANGED <<request, refused, counts>>

(* All clients have saved.                                                 *)
SaveComplete ==
  /\ manager = "saved" /\ request.shutdown = 0
  /\ manager' = "idle" /\ Tell("SaveComplete")
  /\ MgrUnchanged /\ UNCHANGED <<request, refused, counts>>

Die ==
  /\ manager = "saved" /\ request.shutdown = 1 /\ refused = 0
  /\ manager' = "closed" /\ Tell("Die")
  /\ MgrUnchanged /\ UNCHANGED <<request, refused, counts>>

Owing == {"saving", "asked", "granted", "finishing"}

Cancel ==
  /\ request.shutdown = 1
  /\ \/ manager = "saved" /\ manager' = "idle"
     \/ manager \in Owing /\ manager' = "cancelled"
  /\ Tell("ShutdownCancelled")
  /\ MgrUnchanged /\ UNCHANGED <<request, refused, counts>>

(* What the manager does with a message m when it is in state s: a pair    *)
(* <<new state, unexpected>>.                                              *)
Answered(s, m) ==
  CASE m.kind \in {"SetProperties", "SaveYourselfRequest"} -> <<s, 0>>
    [] m.kind = "InteractRequest" /\ s = "saving"     -> <<"asked", 0>>
    [] m.kind = "InteractDone" /\ s = "granted"       -> <<"finishing", 0>>
    [] m.kind = "SaveYourselfDone" /\ s \in {"saving", "finishing"} -> <<"saved", 0>>
    [] m.kind = "SaveYourselfDone" /\ s = "cancelled" -> <<"idle", 0>>
    [] m.kind # "SaveYourselfDone" /\ s = "cancelled" -> <<"cancelled", 0>>
    [] OTHER                                          -> <<s, 1>>

ManagerReceives ==
  /\ manager # "dead" /\ toManager # <<>>
  /\ manager = "idle" => Head(toManager).kind # "SaveYourselfRequest"
  /\ LET m == Head(toManager)
     IN /\ manager' = Answered(manager, m)[1]
        /\ broken' = IF Answered(manager, m)[2] = 1 THEN 1 ELSE broken
        /\ property' = IF m.kind = "SetProperties" THEN m.restart ELSE property
        /\ refused' = IF m.kind = "InteractDone" THEN m.cancel ELSE refused
  /\ toManager' = Tail(toManager)
  /\ UNCHANGED <<xsmp, connected, listens, app, search, request, toClient, counts>>

ManagerDies ==
  /\ manager \notin {"dead", "closed"} /\ manager' = "dead"
  /\ toClient' = <<>> /\ toManager' = <<>>
  /\ UNCHANGED <<client, search, request, refused, property, counts>>

(* The next session: the program is started with its RestartCommand, under *)
(* its client id, so that no first SaveYourself follows.                   *)
Restart ==
  /\ manager = "closed" /\ app = "gone" /\ toManager = <<>> /\ counts.restarts < MaxRestarts
  /\ \E show \in 0..1 : window' = WindowOf(property, show, select)
  /\ select' = select \cup DOMAIN property.options
  /\ xsmp' = FreshClient(0) /\ connected' = 1 /\ app' = "working" /\ restart' = NoOptions
  /\ manager' = "idle"
  /\ counts' = [counts EXCEPT !.restarts = @ + 1]
  /\ UNCHANGED <<listens, broken, saved, request, refused, property, channels>>
-----------------------------------------------------------------------------
Receive == XsmpSaveYourself \/ XsmpInteract \/ XsmpDie \/ XsmpSaveComplete
           \/ XsmpShutdownCancelled \/ ConnectionFails
Pend    == SetInitialProperties \/ EmitQuit \/ IdleDoPendingEvents
Answer  == \E will \in 0..1 : WillQuit(will)
Manage  == Register \/ ManagerReceives \/ Grant \/ SaveComplete
           \/ \E req \in SaveRequest : EndRequested(req)
Decide  == Die \/ Cancel

Next ==
  \/ Receive \/ Pend \/ Answer \/ EndSession \/ Manage \/ Decide
  \/ \E req \in SaveRequest : SaveYourself(req)
  \/ Edit \/ ManagerDies \/ Restart

(* The main loop runs every source that is ready; the application answers  *)
(* in the end, and so does the manager.                                    *)
Spec == /\ Init /\ [][Next]_vars
        /\ WF_vars(Receive) /\ WF_vars(Pend) /\ WF_vars(Answer) /\ WF_vars(Manage)
        /\ WF_vars(manager = "saved" /\ Decide) /\ WF_vars(xsmp.ending = 1 /\ EndSession)
-----------------------------------------------------------------------------
(* Neither end ever receives a message it does not expect in the state it  *)
(* is in: fix_broken_state is never reached, each SaveYourself gets one    *)
(* SaveYourselfDone, and none comes that was not asked for, however        *)
(* cancellations, questions and answers cross.                             *)
ConversationHolds == broken = 0

(* The next session's window searches for what the window searched for     *)
(* when it was last saved: what is written into the restart command, and   *)
(* what is read from it, agree, hidden rows and empty texts included.      *)
SessionRestored ==
  [][Restart /\ property.given = 1 => Searches(window') = saved]_vars

(* A SaveYourself the manager waits for is answered or cancelled.          *)
SaveIsAnswered == manager \in Owing ~> manager \notin Owing

(* Asking for the end of the session does not hang: the messages it waits  *)
(* for, with nothing else running, come, whatever the client was doing.    *)
EndSessionReturns == xsmp.ending = 1 ~> xsmp.ending = 0
=============================================================================
