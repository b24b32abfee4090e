------------------------- MODULE GdictClientContext -------------------------
(***************************************************************************)
(* The DICT (RFC 2229) client of libgdict, gdict-client-context.c: the     *)
(* connection, the queue of commands, the one command in flight and the    *)
(* parser that drives them from the lines the server sends.                *)
(*                                                                         *)
(* The object lives on the CTK main loop, so one action is one call from   *)
(* the application or one dispatch of a main loop source.  A dispatch of   *)
(* io_watch_cb that reads several lines is several IoLine steps: a server  *)
(* that sends the lines one by one gives the same behaviour.               *)
(*                                                                         *)
(* In this module the server is arbitrary: any line may arrive next.  What *)
(* is proved here therefore holds against every server.  DictSession       *)
(* composes these actions with a server that follows the RFC.              *)
(***************************************************************************)
EXTENDS Naturals, Sequences

CONSTANTS
  MaxRequests,   (* bound: lookups the application issues                  *)
  MaxWire,       (* bound: commands written that the server has not read   *)
  Faults         (* the failures of the environment that may happen        *)

AllFaults == {"nohost", "lookup", "socket", "flags", "refused",
              "timeout", "ioerr", "readerr", "write"}

ASSUME MaxRequestsAssumption == MaxRequests \in Nat
ASSUME MaxWireAssumption     == MaxWire \in Nat
ASSUME FaultsAssumption      == Faults \subseteq AllFaults

-----------------------------------------------------------------------------
(* Status codes, gdict-utils.h *)
INVALID       == 0
N_DATABASES   == 110
N_STRATEGIES  == 111
N_DEFINITIONS == 150
WORD_DB_NAME  == 151
N_MATCHES     == 152
CONNECT       == 220
QUIT_OK       == 221
OK            == 250
SERVER_DOWN   == 420
SHUTDOWN      == 421

(* Mutant: the case GDICT_STATUS_NO_DATABASES_PRESENT is forgotten.        *)
ErrorCodesNoDatabases == {500, 501, 550, 551, 552, 555}

(* The codes parse_line reports as an "error" that finishes the command.   *)
ErrorCodes == {500, 501, 550, 551, 552, 554, 555}
OtherCodes == {112, 502, 503, 530}
Codes == {INVALID, N_DATABASES, N_STRATEGIES, N_DEFINITIONS, WORD_DB_NAME,
          N_MATCHES, CONNECT, QUIT_OK, OK, SERVER_DOWN, SHUTDOWN}
         \cup ErrorCodes \cup OtherCodes

(* A line as the parser tells lines apart: "code" is the number its first  *)
(* three characters spell when a blank follows them, else 0; "dot" is the  *)
(* line that holds a single period; "body" says whether the server meant   *)
(* it as text, which the parser cannot see.                                *)
Line == {l \in [code: Codes, dot: BOOLEAN, body: BOOLEAN] :
            l.dot => l.code = INVALID /\ ~l.body}

UserKinds == {"SHOW_DB", "SHOW_STRAT", "MATCH", "DEFINE"}
OwnKinds  == {"CLIENT", "QUIT"}

Command == [type:   UserKinds \cup OwnKinds,
            id:     0..MaxRequests,
            state:  {"START", "STATUS", "DATA", "FINISH"},
            data:   BOOLEAN,        (* data # NULL: a definition is open   *)
            buffer: BOOLEAN]        (* buffer # NULL: it has some text     *)

NoCommand == [type |-> "NONE", id |-> 0, state |-> "START",
              data |-> FALSE, buffer |-> FALSE]

(* The commands the context issues by itself, CLIENT and QUIT, are created *)
(* in state S_FINISH: any reply completes them.                            *)
NewCommand(type, id) ==
  [type |-> type, id |-> id,
   state |-> IF type \in OwnKinds THEN "FINISH" ELSE "START",
   data |-> FALSE, buffer |-> FALSE]

Signals == {"lookup-start", "lookup-end", "error", "database-found",
            "strategy-found", "match-found", "definition-found"}

VARIABLES
  life,           (* "alive", "finalized", or "aborted" by a failed g_assert *)
  channel,        (* "none", "open", or "dangling": unreferenced, not NULLed *)
  sources,        (* the main loop sources attached: "watch", "timer"        *)
  source_id,      (* the id of the watch, 1, or 0                            *)
  timeout_id,     (* the id of the timer, 1, or 0                            *)
  is_connecting,  (* a field of one bit                                      *)
  command,        (* priv->command, or NoCommand                             *)
  queue,          (* priv->commands_queue, next to run first                 *)
  status_code,
  wire,           (* commands written to the socket and not read by the peer *)
  signals,        (* the signals the last step emitted, in order             *)
  issued,         (* history: number of "lookup-start"                       *)
  ended,          (* history: number of "lookup-end"                         *)
  lost,           (* history: lookups freed by a forced disconnection        *)
  ran             (* history: ids of the user commands written, in order     *)

conn   == <<channel, sources, source_id, timeout_id, is_connecting>>
counts == <<issued, ended, lost>>
vars   == <<life, conn, command, queue, status_code, wire, signals, counts, ran>>

-----------------------------------------------------------------------------
Idle == command = NoCommand

(* The lookups announced by "lookup-start" that wait for "lookup-end".     *)
Ids(q) == [i \in 1..Len(q) |-> q[i].id]
Waiting(c, q) == (IF c.id # 0 THEN <<c.id>> ELSE <<>>) \o Ids(q)
Pending == Waiting(command, queue)

IsConnected == is_connecting = 1 \/ (channel # "none" /\ source_id # 0)

(* Mutant: no white list.                                                  *)
NewStatusUnchecked(line) == line.code

(* get_status_code, with the white list that depends on the last status,   *)
(* and the test on the result in io_watch_cb: every code of Codes is valid.*)
NewStatus(line) ==
  CASE status_code \in {WORD_DB_NAME, N_MATCHES} ->
         IF line.code = OK THEN OK ELSE INVALID
    [] status_code = N_DEFINITIONS ->
         IF line.code = WORD_DB_NAME THEN WORD_DB_NAME ELSE INVALID
    [] OTHER -> line.code

(* run_command: the command becomes the current one and is written; when   *)
(* the write fails it stays current all the same.  emit says whether the   *)
(* caller reports the failure.                                             *)
RunCommand(c, before, emit) ==
  /\ command' = c
  /\ \/ /\ wire' = Append(wire, c)
        /\ ran' = IF c.id # 0 THEN Append(ran, c.id) ELSE ran
        /\ signals' = before
     \/ /\ "write" \in Faults
        /\ wire' = wire
        /\ ran' = ran
        /\ signals' = IF emit THEN Append(before, "error") ELSE before

(* Mutant: force_disconnect forgets to free the current command.           *)
ForceDisconnectKeepsCommand ==
  /\ sources' = {} /\ source_id' = 0 /\ timeout_id' = 0 /\ channel' = "none"
  /\ command' = command
  /\ queue' = <<>> /\ wire' = <<>>
  /\ lost' = lost + Len(Pending)

(* force_disconnect: is_connecting is the one field it leaves alone.       *)
ForceDisconnect ==
  /\ sources' = {}
  /\ source_id' = 0
  /\ timeout_id' = 0
  /\ channel' = "none"
  /\ command' = NoCommand
  /\ queue' = <<>>
  /\ wire' = <<>>
  /\ lost' = lost + Len(Pending)

-----------------------------------------------------------------------------
(* Calls from the application *)

Init ==
  /\ life = "alive"
  /\ channel = "none" /\ sources = {} /\ source_id = 0 /\ timeout_id = 0
  /\ is_connecting = 0
  /\ command = NoCommand /\ queue = <<>> /\ status_code = INVALID
  /\ wire = <<>> /\ signals = <<>>
  /\ issued = 0 /\ ended = 0 /\ lost = 0 /\ ran = <<>>

(* get_databases, get_strategies, match_word, define_word: announce the    *)
(* lookup, connect when there is no connection, queue the command.         *)
Announce ==
  /\ life = "alive"
  /\ issued < MaxRequests
  /\ issued' = issued + 1

(* Mutant: the command is pushed at the end commands are popped from.      *)
PushCommandFirst(kind) ==
  /\ queue' = <<NewCommand(kind, issued + 1)>> \o queue
  /\ signals' = <<"lookup-start">>
  /\ UNCHANGED <<life, command, status_code, wire, ended, lost, ran>>

PushCommand(kind) ==
  /\ queue' = Append(queue, NewCommand(kind, issued + 1))
  /\ signals' = <<"lookup-start">>
  /\ UNCHANGED <<life, command, status_code, wire, ended, lost, ran>>

RequestQueued(kind) ==
  /\ Announce
  /\ IsConnected
  /\ PushCommand(kind)
  /\ UNCHANGED conn

RequestConnecting(kind) ==
  /\ Announce
  /\ ~IsConnected
  /\ is_connecting' = 1
  /\ channel' = "open"
  /\ timeout_id' = 1
  /\ source_id' = 1
  /\ sources' = sources \cup {"watch", "timer"}
  /\ PushCommand(kind)

(* connect () fails: no host name, failed look-up, no socket, the socket   *)
(* cannot be made non-blocking, connect(2) refuses at once.                *)
RequestRefused(fault) ==
  /\ Announce
  /\ ~IsConnected
  /\ fault \in Faults
  /\ is_connecting' = IF fault = "nohost" THEN 0 ELSE 1
  /\ channel' = CASE fault = "flags"   -> "dangling"
                  [] fault = "refused" -> "open"
                  [] OTHER             -> channel
  /\ ended' = ended + 1
  /\ signals' = <<"lookup-start", "lookup-end">>
  /\ UNCHANGED <<life, sources, source_id, timeout_id, command, queue,
                 status_code, wire, lost, ran>>

(* gdict_client_context_lookup_server: what fails is the look-up of the    *)
(* name, before anything is created; an address that was found in the last *)
(* five minutes only spares the query.                                     *)
LookupFaults == {"lookup"}

ConnectFaults == {"nohost"} \cup LookupFaults \cup {"socket", "flags", "refused"}

Finalize ==
  /\ life = "alive"
  /\ life' = "finalized"
  /\ ForceDisconnect
  /\ signals' = <<>>
  /\ UNCHANGED <<is_connecting, status_code, issued, ended, ran>>

-----------------------------------------------------------------------------
(* The watch on the socket, io_watch_cb *)

(* Every dispatch ends the connection attempt and cancels its timer.       *)
Dispatched ==
  /\ life = "alive"
  /\ "watch" \in sources
  /\ is_connecting' = 0

(* Mutant: the id is cleared and g_source_remove forgotten.                *)
TimerForgotten ==
  /\ sources' = sources
  /\ timeout_id' = IF is_connecting = 1 THEN 0 ELSE timeout_id
  /\ UNCHANGED <<channel, source_id>>

TimerCancelled ==
  /\ sources' = IF is_connecting = 1 THEN sources \ {"timer"} ELSE sources
  /\ timeout_id' = IF is_connecting = 1 THEN 0 ELSE timeout_id
  /\ UNCHANGED <<channel, source_id>>

(* G_IO_ERR: the callback returns FALSE, so the watch is gone, but neither *)
(* source_id nor channel is reset.                                         *)
IoError ==
  /\ "ioerr" \in Faults
  /\ Dispatched
  /\ timeout_id' = IF is_connecting = 1 THEN 0 ELSE timeout_id
  /\ sources' = IF is_connecting = 1 THEN {} ELSE sources \ {"watch"}
  /\ signals' = <<"error">>
  /\ UNCHANGED <<life, channel, source_id, command, queue, status_code, wire,
                 counts, ran>>

IoReadError ==
  /\ "readerr" \in Faults
  /\ Dispatched
  /\ ForceDisconnect
  /\ signals' = <<"error">>
  /\ UNCHANGED <<life, status_code, issued, ended, ran>>

(* Nothing to read yet, or end of file: the loop is left at once.          *)
IoNoLine ==
  /\ Dispatched
  /\ is_connecting = 1
  /\ TimerCancelled
  /\ signals' = <<>>
  /\ UNCHANGED <<life, command, queue, status_code, wire, counts, ran>>

ReadLine(line) ==
  /\ Dispatched
  /\ status_code' = NewStatus(line)
  /\ UNCHANGED issued

(* parse_line without a command: the greeting.                             *)
Greeting(line) ==
  /\ ReadLine(line)
  /\ Idle
  /\ status_code' = CONNECT
  /\ TimerCancelled
  /\ RunCommand(NewCommand("CLIENT", 0), <<>>, FALSE)
  /\ UNCHANGED <<life, queue, ended, lost>>

ServerDown(line) ==
  /\ ReadLine(line)
  /\ Idle
  /\ status_code' \in {SERVER_DOWN, SHUTDOWN}
  /\ TimerCancelled
  /\ signals' = <<"error">>
  /\ UNCHANGED <<life, command, queue, wire, ended, lost, ran>>

BadGreeting(line) ==
  /\ ReadLine(line)
  /\ Idle
  /\ status_code' \notin {CONNECT, SERVER_DOWN, SHUTDOWN}
  /\ ForceDisconnect
  /\ signals' = <<"error">>
  /\ UNCHANGED <<life, ended, ran>>

(* Mutant: 250 is taken for the end of the session.                        *)
DisconnectedByOk(line) ==
  /\ ReadLine(line)
  /\ ~Idle
  /\ status_code' \in {QUIT_OK, OK}
  /\ ForceDisconnect
  /\ signals' = <<>>
  /\ UNCHANGED <<life, ended, ran>>

(* 221 ends the session whatever the command was.                          *)
Disconnected(line) ==
  /\ ReadLine(line)
  /\ ~Idle
  /\ status_code' = QUIT_OK
  /\ ForceDisconnect
  /\ signals' = <<>>
  /\ UNCHANGED <<life, ended, ran>>

(* An error code, 250, or any line once the command is in S_FINISH: the    *)
(* command is freed and the next one is run, QUIT when there is none.      *)
Finishes(status) ==
  /\ status # QUIT_OK
  /\ \/ status \in ErrorCodes \cup {OK}
     \/ command.state = "FINISH"

NextCommand == IF queue = <<>> THEN NewCommand("QUIT", 0) ELSE Head(queue)

CommandEnds(line) ==
  /\ ReadLine(line)
  /\ ~Idle
  /\ Finishes(status_code')
  /\ TimerCancelled
  /\ ended' = IF command.type \in OwnKinds THEN ended ELSE ended + 1
  /\ queue' = IF queue = <<>> THEN <<>> ELSE Tail(queue)
  /\ RunCommand(NextCommand,
                (IF status_code' \in ErrorCodes THEN <<"error">> ELSE <<>>) \o
                (IF command.type \in OwnKinds THEN <<>> ELSE <<"lookup-end">>),
                TRUE)
  /\ UNCHANGED <<life, lost>>

-----------------------------------------------------------------------------
(* The reply to a user command, the switch at the end of parse_line *)

OpenCode(type) ==
  CASE type = "SHOW_DB"    -> N_DATABASES
    [] type = "SHOW_STRAT" -> N_STRATEGIES
    [] type = "DEFINE"     -> N_DEFINITIONS
    [] OTHER               -> N_MATCHES

Reply(line) ==
  /\ ReadLine(line)
  /\ ~Idle
  /\ status_code' # QUIT_OK
  /\ ~Finishes(status_code')
  /\ TimerCancelled
  /\ UNCHANGED <<queue, wire, ended, lost, ran>>

Opens(status)    == status = OpenCode(command.type)
WordHead(status) == command.type = "DEFINE" /\ status = WORD_DB_NAME
IsText(line, status) == ~Opens(status) /\ ~WordHead(status) /\ ~line.dot

ReplyOpens(line) ==
  /\ Reply(line)
  /\ Opens(status_code')
  /\ command' = IF command.type = "DEFINE"
                THEN [command EXCEPT !.state = "STATUS", !.data = TRUE]
                ELSE [command EXCEPT !.state = "DATA"]
  /\ signals' = <<>>
  /\ UNCHANGED life

DefinitionOpens(line) ==
  /\ Reply(line)
  /\ WordHead(status_code')
  /\ command.data
  /\ command' = [command EXCEPT !.state = "DATA"]
  /\ signals' = <<>>
  /\ UNCHANGED life

ListEnds(line) ==
  /\ Reply(line)
  /\ line.dot
  /\ command.type # "DEFINE"
  /\ command' = [command EXCEPT !.state = "FINISH"]
  /\ signals' = <<>>
  /\ UNCHANGED life

DefinitionEnds(line) ==
  /\ Reply(line)
  /\ line.dot
  /\ command.type = "DEFINE"
  /\ command.state = "DATA"
  /\ command' = [command EXCEPT !.state = "STATUS", !.buffer = FALSE]
  /\ signals' = <<"definition-found">>
  /\ UNCHANGED life

FoundSignal(type) ==
  CASE type = "SHOW_DB"    -> <<"database-found">>
    [] type = "SHOW_STRAT" -> <<"strategy-found">>
    [] type = "MATCH"      -> <<"match-found">>
    [] OTHER               -> <<>>

Text(line) ==
  /\ Reply(line)
  /\ IsText(line, status_code')
  /\ command.state = "DATA"
  /\ command' = [command EXCEPT !.buffer = (command.type = "DEFINE")]
  /\ signals' = FoundSignal(command.type)
  /\ UNCHANGED life

(* A line the state of the command does not allow: g_assert (state ==      *)
(* S_DATA) fails, or a 151 finds no definition to fill in.                 *)
Aborts(line) ==
  /\ Reply(line)
  /\ \/ IsText(line, status_code') /\ command.state # "DATA"
     \/ line.dot /\ command.type = "DEFINE" /\ command.state # "DATA"
     \/ WordHead(status_code') /\ ~command.data
  /\ life' = "aborted"
  /\ signals' = <<>>
  /\ UNCHANGED command

IoLine(line) ==
  \/ Greeting(line) \/ ServerDown(line) \/ BadGreeting(line)
  \/ Disconnected(line) \/ CommandEnds(line)
  \/ ReplyOpens(line) \/ DefinitionOpens(line) \/ ListEnds(line)
  \/ DefinitionEnds(line) \/ Text(line) \/ Aborts(line)

-----------------------------------------------------------------------------
(* check_for_connection, 30 seconds after connect ().  The timer only runs *)
(* while is_connecting holds (SourcesOwned): the other branch is dead.     *)
ConnectionTimeout ==
  /\ "timeout" \in Faults
  /\ life = "alive"
  /\ "timer" \in sources
  /\ is_connecting = 1
  /\ ForceDisconnect
  /\ signals' = <<"error">>
  /\ UNCHANGED <<life, is_connecting, status_code, issued, ended, ran>>

(* The peer takes a command off the socket.                                *)
PeerReads ==
  /\ wire # <<>>
  /\ wire' = Tail(wire)
  /\ signals' = <<>>
  /\ UNCHANGED <<life, conn, command, queue, status_code, counts, ran>>

Request(kind) == RequestQueued(kind) \/ RequestConnecting(kind)

Next ==
  \/ \E kind \in UserKinds : Request(kind)
  \/ \E fault \in ConnectFaults : RequestRefused(fault)
  \/ \E line \in Line : Len(wire) < MaxWire /\ IoLine(line)
  \/ IoError \/ IoReadError \/ IoNoLine
  \/ ConnectionTimeout
  \/ Finalize
  \/ PeerReads

Spec == Init /\ [][Next]_vars

Lookups == INSTANCE LookupQueue WITH pending <- Pending

-----------------------------------------------------------------------------
(* Properties *)

(* Types of the context's fields and of the histories.                     *)
TypeOK ==
  /\ life \in {"alive", "finalized", "aborted"}
  /\ channel \in {"none", "open", "dangling"}
  /\ sources \in SUBSET {"watch", "timer"}
  /\ source_id \in 0..1 /\ timeout_id \in 0..1 /\ is_connecting \in 0..1
  /\ command \in Command \cup {NoCommand}
  /\ queue \in Seq(Command)
  /\ status_code \in Codes
  /\ wire \in Seq(Command)
  /\ signals \in Seq(Signals)
  /\ issued \in 0..MaxRequests /\ ended \in Nat /\ lost \in Nat
  /\ ran \in Seq(1..MaxRequests)

(* Every announced lookup is completed, dropped by a forced disconnection, *)
(* or still in the context: none is counted twice or leaks, whatever the   *)
(* server sends and whatever fails.                                        *)
EveryLookupAccounted == issued = ended + lost + Len(Pending)

(* Lookups reach the server in the order the application asked for them    *)
(* and at most once each (push_command and pop_command, a FIFO).           *)
ServedInOrder ==
  \A i, j \in 1..Len(ran) : i < j => ran[i] < ran[j]

(* A source the main loop may still dispatch belongs to a live connection  *)
(* whose id the context holds, so that force_disconnect can remove it: the *)
(* callbacks never run on a closed channel, on a finalized object or with  *)
(* a connection timer that outlives its attempt.  And a channel is never   *)
(* left behind where is_connected () does not see it.                      *)
SourcesOwned ==
  /\ channel # "none" => IsConnected
  /\ "watch" \in sources => source_id = 1 /\ channel = "open"
  /\ "timer" \in sources => timeout_id = 1 /\ is_connecting = 1 /\ "watch" \in sources
  /\ life = "finalized" => sources = {}

(* The context implements the queue of lookups its users rely on: FIFO,    *)
(* each lookup completed at most once or dropped with the whole queue.     *)
ImplementsLookupQueue == Lookups!LSpec

=============================================================================
