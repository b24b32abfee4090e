---------------------------- MODULE DictSession ----------------------------
(***************************************************************************)
(* The DICT client composed with a dictionary server that follows RFC 2229 *)
(* as far as this client uses it.  The server is external code: it greets, *)
(* answers each command with one reply, sent line by line, and closes      *)
(* after QUIT.  Under ServerFaults it may also refuse to serve or break    *)
(* the connection at any moment, half way through a reply too.             *)
(***************************************************************************)
EXTENDS GdictClientContext

CONSTANTS
  ServerFaults,  (* subset of {"down", "crash"}                            *)
  MaxItems,      (* bound: entries of a list reply                         *)
  MaxDefs,       (* bound: definitions in a reply to DEFINE                *)
  MaxText,       (* bound: text lines of one definition                    *)
  FirstCodes,    (* what the first text line of a body may spell, 0 = text *)
  RestCodes      (* the same for the other lines                           *)

(* The codes by which the parser tells the lines of a reply apart.          *)
ReplyCodes == {N_DATABASES, N_STRATEGIES, N_DEFINITIONS, WORD_DB_NAME, N_MATCHES,
               QUIT_OK, OK} \cup ErrorCodes

(* The white list of get_status_code protects the first line of a body     *)
(* only, and not from 250: a text that spells a status elsewhere is        *)
(* misread, and such texts are left out.                                   *)
ASSUME SessionAssumption ==
  /\ MaxWire # 0 /\ ServerFaults \subseteq {"down", "crash"}
  /\ MaxItems \in Nat \ {0} /\ MaxDefs \in Nat \ {0} /\ MaxText \in Nat
  /\ FirstCodes \subseteq Codes \ {OK} /\ RestCodes \subseteq Codes \ ReplyCodes

VARIABLES
  peer,      (* "none", "accepting", "up", "closed"                        *)
  serving,   (* the part of a reply the server is in, or "nothing"         *)
  inbox,     (* lines sent by the server and not read yet                  *)
  announced, (* history: text lines of each entry of the latest reply      *)
  got,       (* history: text lines of each entry the client has emitted   *)
  text,      (* history: text lines of the entry being received            *)
  failed     (* history: 1 when anything has gone wrong on the way         *)

svars == <<peer, serving, inbox, announced, got, text, failed>>
allvars == <<vars, svars>>

-----------------------------------------------------------------------------
Status(c)   == [code |-> c, dot |-> FALSE, body |-> FALSE]
TextLine(c) == [code |-> c, dot |-> FALSE, body |-> TRUE]
Dot         == [code |-> INVALID, dot |-> TRUE, body |-> FALSE]

Refusals(type) ==
  {500, 501} \cup
  (CASE type = "SHOW_DB"    -> {554}
     [] type = "SHOW_STRAT" -> {555}
     [] type = "MATCH"      -> {550, 551, 552}
     [] OTHER               -> {550, 552})

(* The first line of a reply; for the client's own commands it is all.     *)
FirstLines(type) ==
  CASE type = "CLIENT" -> {OK}
    [] type = "QUIT"   -> {QUIT_OK}
    [] OTHER           -> {OpenCode(type)} \cup Refusals(type)

(* What follows the first line.                                            *)
Parts == {"nothing", "list", "matches", "definitions", "definition"}
Follows(type, code) ==
  IF type \in OwnKinds \/ code # OpenCode(type) THEN "nothing"
  ELSE IF type = "DEFINE" THEN "definitions"
  ELSE IF type = "MATCH" THEN "matches" ELSE "list"

-----------------------------------------------------------------------------
(* The server *)

ServerGreets ==
  /\ peer = "accepting"
  /\ \/ peer' = "up" /\ inbox' = <<Status(CONNECT)>> /\ UNCHANGED failed
     \/ /\ "down" \in ServerFaults
        /\ peer' = "closed" /\ failed' = 1
        /\ \E c \in {SERVER_DOWN, SHUTDOWN} : inbox' = <<Status(c)>>
  /\ UNCHANGED <<vars, serving, announced, got, text>>

ServerAnswers ==
  /\ peer = "up" /\ serving = "nothing"
  /\ PeerReads
  /\ LET type == Head(wire).type
     IN  /\ \E c \in FirstLines(type) : /\ inbox' = Append(inbox, Status(c))
                                        /\ serving' = Follows(type, c)
         /\ peer' = IF type = "QUIT" THEN "closed" ELSE "up"
  /\ announced' = <<>>
  /\ UNCHANGED <<got, text, failed>>

Sends(lines) ==
  /\ peer = "up"
  /\ inbox' = inbox \o lines
  /\ UNCHANGED <<vars, peer, got, text, failed>>

ServerLists ==
  /\ serving \in {"list", "matches"} /\ Len(announced) < MaxItems
  /\ \E c \in IF announced # <<>> THEN RestCodes
              ELSE IF serving = "matches" THEN FirstCodes ELSE {INVALID} :
        Sends(<<TextLine(c)>>)
  /\ announced' = Append(announced, 0)
  /\ UNCHANGED serving

ServerEndsList ==
  /\ serving \in {"list", "matches"} /\ announced # <<>>
  /\ Sends(<<Dot, Status(OK)>>)
  /\ serving' = "nothing"
  /\ UNCHANGED announced

ServerDefines ==
  /\ serving = "definitions" /\ Len(announced) < MaxDefs
  /\ Sends(<<Status(WORD_DB_NAME)>>)
  /\ announced' = Append(announced, 0) /\ serving' = "definition"

ServerWrites ==
  LET n == Len(announced)
  IN  /\ serving = "definition" /\ announced[n] < MaxText
      /\ \E c \in IF announced[n] = 0 THEN FirstCodes ELSE RestCodes :
            Sends(<<TextLine(c)>>)
      /\ announced' = [announced EXCEPT ![n] = @ + 1]
      /\ UNCHANGED serving

ServerEndsDefinition ==
  /\ serving = "definition"
  /\ Sends(<<Dot>>)
  /\ serving' = "definitions"
  /\ UNCHANGED announced

ServerEndsDefinitions ==
  /\ serving = "definitions" /\ announced # <<>>
  /\ Sends(<<Status(OK)>>)
  /\ serving' = "nothing"
  /\ UNCHANGED announced

ServerGoesOn ==
  \/ ServerLists \/ ServerEndsList
  \/ ServerDefines \/ ServerWrites \/ ServerEndsDefinition \/ ServerEndsDefinitions

(* The connection breaks: any suffix of what was under way may be lost.    *)
ServerCrashes ==
  /\ "crash" \in ServerFaults
  /\ peer \in {"accepting", "up"}
  /\ peer' = "closed" /\ serving' = "nothing" /\ failed' = 1
  /\ \E n \in 0..Len(inbox) : inbox' = SubSeq(inbox, 1, n)
  /\ UNCHANGED <<vars, announced, got, text>>

-----------------------------------------------------------------------------
(* The client, each action together with what it does to the connection *)

(* A command that became the current one and was not written.              *)
WriteFailed ==
  /\ ~ Idle' /\ wire' = wire
  /\ <<command'.type, command'.id>> # <<command.type, command.id>>

NotesWrite == failed' = IF WriteFailed THEN 1 ELSE failed

UserQueues(kind) ==
  /\ RequestQueued(kind)
  /\ NotesWrite
  /\ UNCHANGED <<peer, serving, inbox, announced, got, text>>

UserConnects(kind) ==
  /\ RequestConnecting(kind)
  /\ peer' = "accepting" /\ serving' = "nothing"
  /\ inbox' = <<>>
  /\ UNCHANGED <<announced, got, text, failed>>

UserRefused(fault) ==
  /\ RequestRefused(fault)
  /\ failed' = 1
  /\ UNCHANGED <<peer, serving, inbox, announced, got, text>>

(* With the channel closed nothing of the connection is left; otherwise    *)
(* rest is what has not been read.                                         *)
ConnectionFollows(rest) ==
  IF channel' = "none" THEN peer' = "none" /\ serving' = "nothing" /\ inbox' = <<>>
                       ELSE inbox' = rest /\ UNCHANGED <<peer, serving>>

(* What a line read adds to the histories, which begin anew with a lookup. *)
Received(line) ==
  /\ got' = IF command'.state = "START" THEN <<>>
            ELSE IF signals' = <<"definition-found">> THEN Append(got, text)
            ELSE IF signals' # <<>> THEN Append(got, 0) ELSE got
  /\ text' = IF command'.state = "START" \/ signals' # <<>> THEN 0
             ELSE IF /\ command.type = "DEFINE" /\ command.state = "DATA"
                     /\ IsText(line, status_code')
             THEN text + 1 ELSE text

ClientReads ==
  /\ inbox # <<>>
  /\ IoLine(Head(inbox))
  /\ ConnectionFollows(Tail(inbox))
  /\ Received(Head(inbox))
  /\ NotesWrite
  /\ UNCHANGED announced

(* Part of a line, or the end of the stream.                               *)
ClientFindsNoLine ==
  /\ inbox = <<>>
  /\ IoNoLine
  /\ UNCHANGED svars

ClientFails ==
  /\ \/ peer = "closed" /\ inbox = <<>>
     \/ peer = "accepting"
  /\ IoError \/ IoReadError
  /\ ConnectionFollows(inbox)
  /\ failed' = 1
  /\ UNCHANGED <<announced, got, text>>

ClientTimesOut ==
  /\ ConnectionTimeout
  /\ ConnectionFollows(inbox)
  /\ failed' = 1
  /\ UNCHANGED <<announced, got, text>>

SInit ==
  /\ Init
  /\ peer = "none" /\ serving = "nothing" /\ inbox = <<>>
  /\ announced = <<>> /\ got = <<>> /\ text = 0 /\ failed = 0

SNext ==
  \/ \E kind \in UserKinds : UserQueues(kind) \/ UserConnects(kind)
  \/ \E fault \in ConnectFaults : UserRefused(fault)
  \/ ServerGreets \/ ServerAnswers \/ ServerGoesOn \/ ServerCrashes
  \/ ClientReads \/ ClientFindsNoLine \/ ClientFails \/ ClientTimesOut

(* The server answers what it has read and comes to the end of its reply,  *)
(* and the main loop dispatches a source that stays ready; the user owes   *)
(* nothing.                                                                *)
Fairness ==
  /\ WF_allvars(ServerGreets)
  /\ WF_allvars(ServerAnswers)
  /\ WF_allvars(ServerGoesOn)
  /\ WF_allvars(ClientReads)

SSpec == SInit /\ [][SNext]_allvars
FairSession == SSpec /\ Fairness

-----------------------------------------------------------------------------
(* Properties *)

(* No reply of such a server makes the parser fail an assertion, and when  *)
(* a lookup is reported as completed, every entry of the server's reply    *)
(* has been emitted, each definition with all of its text lines, and an    *)
(* error reply has emitted nothing: no text line has been taken for a      *)
(* status and no status for text.                                          *)
RepliesIntact ==
  [][/\ life' # "aborted"
     /\ ended' # ended /\ issued' = issued => got = announced]_allvars

(* Every lookup is completed or dropped: as long as nothing fails, none    *)
(* waits for ever, and each command that ends starts the next one.         *)
EveryLookupLeaves ==
  \A i \in 1..MaxRequests : issued >= i ~> ended + lost >= i \/ failed = 1

(* As long as nothing fails nothing is lost, except the lookups that were  *)
(* queued while the QUIT the context sends itself was under way.           *)
OnlyQuitLoses ==
  [][lost' # lost /\ failed' = 0 =>
       command.type = "QUIT" /\ status_code' = QUIT_OK]_allvars

=============================================================================
