---------------------- MODULE GdictClientContextProofs ----------------------
(***************************************************************************)
(* Proofs about the DICT client, for every bound and every set of          *)
(* failures: first against an arbitrary server, then in a session with one *)
(* that follows the RFC.                                                   *)
(***************************************************************************)
EXTENDS DictSession, SequenceTheorems, TLAPS

Assumptions == MaxRequests \in Nat /\ MaxWire \in Nat /\ Faults \subseteq AllFaults

LEMMA ConstantsTyped == Assumptions
BY MaxRequestsAssumption, MaxWireAssumption, FaultsAssumption DEF Assumptions

-----------------------------------------------------------------------------
(* What the operators of the model return *)

LEMMA AppendTyped ==
  ASSUME NEW S, NEW s \in Seq(S), NEW e \in S
  PROVE  Append(s, e) \in Seq(S)
OBVIOUS

(* A command made by gdict_command_new for an announced lookup, or by the  *)
(* context itself with id 0, is well formed.                               *)
LEMMA NewCommandTyped ==
  ASSUME NEW type \in UserKinds \cup OwnKinds, NEW id \in 0..MaxRequests
  PROVE  NewCommand(type, id) \in Command
BY DEF NewCommand, Command, UserKinds, OwnKinds

LEMMA OwnCommandTyped == NewCommand("CLIENT", 0) \in Command /\ NewCommand("QUIT", 0) \in Command
<1>1. 0 \in 0..MaxRequests
  BY ConstantsTyped DEF Assumptions
<1>2. {"CLIENT", "QUIT"} \subseteq UserKinds \cup OwnKinds
  BY DEF OwnKinds
<1> QED BY <1>1, <1>2, NewCommandTyped

LEMMA CommandFields ==
  ASSUME NEW c \in Command
  PROVE  c.id \in 0..MaxRequests /\ c.type \in UserKinds \cup OwnKinds
BY DEF Command

LEMMA CommandUpdated ==
  ASSUME NEW c \in Command, NEW b \in BOOLEAN,
         NEW s \in {"START", "STATUS", "DATA", "FINISH"}
  PROVE  /\ [c EXCEPT !.state = s] \in Command
         /\ [c EXCEPT !.state = s, !.data = b] \in Command
         /\ [c EXCEPT !.state = s, !.buffer = b] \in Command
         /\ [c EXCEPT !.buffer = b] \in Command
BY DEF Command

LEMMA SignalSequences ==
  /\ <<>> \in Seq(Signals)
  /\ \A s \in Signals : <<s>> \in Seq(Signals)
  /\ \A s, t \in Signals : <<s, t>> \in Seq(Signals)
  /\ {"lookup-start", "lookup-end", "error", "database-found",
      "strategy-found", "match-found", "definition-found"} \subseteq Signals
BY DEF Signals

LEMMA IdsLen ==
  ASSUME NEW q \in Seq(Command)
  PROVE  /\ Ids(q) \in Seq(0..MaxRequests)
         /\ Len(Ids(q)) = Len(q)
         /\ \A i \in 1..Len(q) : Ids(q)[i] = q[i].id
<1>1. ASSUME NEW i \in 1..Len(q) PROVE q[i].id \in 0..MaxRequests
  <2>1. q[i] \in Command
    OBVIOUS
  <2> QED BY <2>1, CommandFields
<1>2. Len(q) \in Nat
  OBVIOUS
<1>3. Ids(q) \in [1..Len(q) -> 0..MaxRequests]
  BY <1>1 DEF Ids
<1> QED BY <1>1, <1>2, <1>3 DEF Ids

LEMMA IdsAppend ==
  ASSUME NEW q \in Seq(Command), NEW c \in Command
  PROVE  Ids(Append(q, c)) = Append(Ids(q), c.id)
<1>1. Append(q, c) \in Seq(Command) /\ Len(Append(q, c)) = Len(q) + 1
  OBVIOUS
<1>2. Ids(q) \in Seq(0..MaxRequests) /\ Len(Ids(q)) = Len(q)
  BY IdsLen
<1> QED BY <1>1, <1>2 DEF Ids

LEMMA IdsTail ==
  ASSUME NEW q \in Seq(Command), q # <<>>
  PROVE  Ids(q) = <<Head(q).id>> \o Ids(Tail(q))
<1>1. Tail(q) \in Seq(Command) /\ Len(Tail(q)) = Len(q) - 1 /\ Len(q) \in Nat \ {0}
  OBVIOUS
<1>2. Len(Ids(Tail(q))) = Len(q) - 1 /\ Ids(Tail(q)) \in Seq(0..MaxRequests)
  BY <1>1, IdsLen
<1>3. \A i \in 1..Len(q) - 1 : Tail(q)[i] = q[i + 1]
  OBVIOUS
<1>4. Head(q) = q[1]
  OBVIOUS
<1> QED BY <1>1, <1>2, <1>3, <1>4 DEF Ids

(* What waits in a context whose current command is c and whose queue is q. *)
LEMMA WaitingTyped ==
  ASSUME NEW c \in Command \cup {NoCommand}, NEW q \in Seq(Command)
  PROVE  /\ Waiting(c, q) \in Seq(0..MaxRequests)
         /\ c.id = 0 => Waiting(c, q) = Ids(q)
         /\ c.id # 0 => Waiting(c, q) # <<>> /\ Tail(Waiting(c, q)) = Ids(q)
<1>1. Ids(q) \in Seq(0..MaxRequests)
  BY IdsLen
<1>2. c.id \in 0..MaxRequests
  BY ConstantsTyped, CommandFields DEF NoCommand, Assumptions
<1>3. CASE c.id = 0
  BY <1>1, <1>3, ConcatEmptySeq DEF Waiting
<1>4. CASE c.id # 0
  <2> DEFINE first == <<c.id>>
  <2>1. first \in Seq(0..MaxRequests) /\ Len(first) = 1 /\ first[1] = c.id
    BY <1>2
  <2>2. Waiting(c, q) = first \o Ids(q)
    BY <1>4 DEF Waiting
  <2> HIDE DEF first
  <2>3. /\ first \o Ids(q) \in Seq(0..MaxRequests)
        /\ Len(first \o Ids(q)) = 1 + Len(Ids(q))
        /\ \A i \in 1..1 + Len(Ids(q)) :
              (first \o Ids(q))[i] = IF i <= 1 THEN first[i] ELSE Ids(q)[i - 1]
    <3> DEFINE ids == Ids(q)
    <3> HIDE DEF ids
    <3>1. ids \in Seq(0..MaxRequests)
      BY <1>1 DEF ids
    <3>2. /\ first \o ids \in Seq(0..MaxRequests)
          /\ Len(first \o ids) = Len(first) + Len(ids)
          /\ \A i \in 1..Len(first) + Len(ids) :
                (first \o ids)[i] = IF i <= Len(first) THEN first[i]
                                                     ELSE ids[i - Len(first)]
      BY <2>1, <3>1, ConcatProperties
    <3> QED BY <2>1, <3>2 DEF ids
  <2>4. Len(Ids(q)) \in Nat
    BY <1>1
  <2>5. first \o Ids(q) # <<>>
    BY <2>3, <2>4
  <2> DEFINE rest == Tail(first \o Ids(q))
  <2>6. /\ rest \in Seq(0..MaxRequests) /\ Len(rest) = Len(Ids(q))
        /\ \A i \in 1..Len(rest) : rest[i] = (first \o Ids(q))[i + 1]
    BY <2>3, <2>4, <2>5, HeadTailProperties
  <2> HIDE DEF rest
  <2>7. \A i \in 1..Len(rest) : rest[i] = Ids(q)[i]
    <3> TAKE i \in 1..Len(rest)
    <3>1. i \in Nat /\ i + 1 \in 1..1 + Len(Ids(q)) /\ ~(i + 1 <= 1) /\ i + 1 - 1 = i
      BY <2>4, <2>6
    <3>2. (first \o Ids(q))[i + 1] = Ids(q)[i + 1 - 1]
      BY <2>3, <3>1
    <3> QED BY <2>6, <3>1, <3>2
  <2>8. rest = Ids(q)
    BY <1>1, <2>6, <2>7, SeqEqual
  <2> QED BY <1>4, <2>2, <2>3, <2>5, <2>8 DEF rest
<1> QED BY <1>3, <1>4

LEMMA WaitingAppend ==
  ASSUME NEW c \in Command \cup {NoCommand}, NEW q \in Seq(Command),
         NEW d \in Command
  PROVE  Waiting(c, Append(q, d)) = Append(Waiting(c, q), d.id)
<1> DEFINE first == IF c.id # 0 THEN <<c.id>> ELSE <<>>
<1>1. c.id \in 0..MaxRequests /\ d.id \in 0..MaxRequests
  BY ConstantsTyped, CommandFields DEF NoCommand, Assumptions
<1>2. first \in Seq(0..MaxRequests)
  <2>1. <<c.id>> \in Seq(0..MaxRequests)
    BY <1>1
  <2> QED BY <2>1, EmptySeq
<1>3. Ids(q) \in Seq(0..MaxRequests) /\ Ids(Append(q, d)) = Append(Ids(q), d.id)
  BY IdsLen, IdsAppend
<1> HIDE DEF first
<1> DEFINE ids == Ids(q)
           last == <<d.id>>
<1>4. ids \in Seq(0..MaxRequests) /\ last \in Seq(0..MaxRequests)
      /\ first \o ids \in Seq(0..MaxRequests)
  BY <1>1, <1>2, <1>3, ConcatProperties
<1>5. \A s \in Seq(0..MaxRequests) : Append(s, d.id) = s \o last
  BY <1>1, AppendIsConcat
<1>6. /\ Append(ids, d.id) = ids \o last
      /\ Append(first \o ids, d.id) = (first \o ids) \o last
  BY <1>4, <1>5
<1>7. first \o (ids \o last) = (first \o ids) \o last
  <2> HIDE DEF ids, last
  <2> QED BY <1>2, <1>4, ConcatAssociative
<1>8. first \o Append(Ids(q), d.id) = Append(first \o Ids(q), d.id)
  BY <1>6, <1>7
<1> QED BY <1>3, <1>8 DEF Waiting, first

LEMMA WaitingNext ==
  ASSUME NEW q \in Seq(Command), q # <<>>, Head(q).id # 0
  PROVE  Waiting(Head(q), Tail(q)) = Ids(q)
BY IdsTail DEF Waiting

LEMMA PendingTyped ==
  ASSUME command \in Command \cup {NoCommand}, queue \in Seq(Command)
  PROVE  Pending \in Seq(0..MaxRequests)
BY WaitingTyped DEF Pending

LEMMA NewStatusTyped ==
  ASSUME NEW line \in Line, status_code \in Codes
  PROVE  NewStatus(line) \in Codes
<1>1. line.code \in Codes
  BY DEF Line
<1>2. {INVALID, OK, WORD_DB_NAME} \subseteq Codes
  BY DEF Codes
<1> QED BY <1>1, <1>2 DEF NewStatus

-----------------------------------------------------------------------------
(* Type correctness *)

LEMMA ForceDisconnectTyped ==
  ASSUME TypeOK, ForceDisconnect
  PROVE  /\ channel' = "none" /\ sources' = {} /\ source_id' = 0
         /\ timeout_id' = 0 /\ command' = NoCommand
         /\ queue' \in Seq(Command) /\ wire' \in Seq(Command) /\ lost' \in Nat
<1>1. Len(Pending) \in Nat
  BY PendingTyped DEF TypeOK
<1> QED BY <1>1 DEF ForceDisconnect, TypeOK

LEMMA RunCommandTyped ==
  ASSUME TypeOK, NEW c \in Command, NEW before \in Seq(Signals),
         NEW emit \in BOOLEAN, RunCommand(c, before, emit)
  PROVE  /\ command' = c /\ wire' \in Seq(Command)
         /\ ran' \in Seq(1..MaxRequests) /\ signals' \in Seq(Signals)
<1>1. c.id # 0 => Append(ran, c.id) \in Seq(1..MaxRequests)
  <2>1. c.id # 0 => c.id \in 1..MaxRequests
    BY CommandFields, ConstantsTyped DEF Assumptions
  <2> QED BY <2>1 DEF TypeOK
<1>2. Append(wire, c) \in Seq(Command) /\ wire \in Seq(Command)
  BY DEF TypeOK
<1>3. Append(before, "error") \in Seq(Signals)
  BY AppendTyped DEF Signals
<1>4. ran \in Seq(1..MaxRequests)
  BY DEF TypeOK
<1> QED BY <1>1, <1>2, <1>3, <1>4 DEF RunCommand

LEMMA InitTyped == Init => TypeOK
BY ConstantsTyped DEF Init, TypeOK, Codes, INVALID, Assumptions

LEMMA TypingStep ==
  ASSUME TypeOK, [Next]_vars
  PROVE  TypeOK'
<1> USE ConstantsTyped, SignalSequences DEF Assumptions
<1>1. ASSUME NEW kind \in UserKinds, RequestQueued(kind) PROVE TypeOK'
  <2>1. issued + 1 \in 0..MaxRequests
    BY <1>1 DEF RequestQueued, Announce, TypeOK
  <2>2. NewCommand(kind, issued + 1) \in Command
    BY <2>1, NewCommandTyped
  <2>3. queue' \in Seq(Command)
    BY <1>1, <2>2, AppendTyped DEF RequestQueued, PushCommand, TypeOK
  <2> QED BY <1>1, <2>1, <2>3 DEF RequestQueued, Announce, PushCommand, conn, TypeOK
<1>2. ASSUME NEW kind \in UserKinds, RequestConnecting(kind) PROVE TypeOK'
  <2>1. issued + 1 \in 0..MaxRequests
    BY <1>2 DEF RequestConnecting, Announce, TypeOK
  <2>2. NewCommand(kind, issued + 1) \in Command
    BY <2>1, NewCommandTyped
  <2>3. queue' \in Seq(Command)
    BY <1>2, <2>2, AppendTyped DEF RequestConnecting, PushCommand, TypeOK
  <2> QED BY <1>2, <2>1, <2>3 DEF RequestConnecting, Announce, PushCommand, TypeOK
<1>3. ASSUME NEW fault \in ConnectFaults, RequestRefused(fault) PROVE TypeOK'
  BY <1>3 DEF RequestRefused, Announce, TypeOK
<1>4. ASSUME NEW line \in Line, IoLine(line) PROVE TypeOK'
  <2>1. NewStatus(line) \in Codes
    BY NewStatusTyped DEF TypeOK
  <2> USE <2>1 DEF ReadLine, Dispatched, TimerCancelled
  <2>2. CASE Greeting(line)
    <3>1. NewCommand("CLIENT", 0) \in Command
      BY OwnCommandTyped
    <3>2. RunCommand(NewCommand("CLIENT", 0), <<>>, FALSE)
      BY <2>2 DEF Greeting
    <3>3. /\ command' \in Command /\ wire' \in Seq(Command)
          /\ ran' \in Seq(1..MaxRequests) /\ signals' \in Seq(Signals)
      BY <3>1, <3>2, RunCommandTyped
    <3> QED BY <2>2, <3>3 DEF Greeting, TypeOK
  <2>3. CASE ServerDown(line)
    BY <2>3 DEF ServerDown, TypeOK
  <2>4. CASE BadGreeting(line)
    BY <2>4, ForceDisconnectTyped DEF BadGreeting, TypeOK
  <2>5. CASE Disconnected(line)
    BY <2>5, ForceDisconnectTyped DEF Disconnected, TypeOK
  <2>6. CASE CommandEnds(line)
    <3> DEFINE before ==
          (IF status_code' \in ErrorCodes THEN <<"error">> ELSE <<>>) \o
          (IF command.type \in OwnKinds THEN <<>> ELSE <<"lookup-end">>)
    <3>1. before \in Seq(Signals)
      OBVIOUS
    <3>2. NextCommand \in Command /\ queue' \in Seq(Command)
      BY <2>6, OwnCommandTyped DEF CommandEnds, NextCommand, TypeOK
    <3>3. RunCommand(NextCommand, before, TRUE)
      BY <2>6 DEF CommandEnds
    <3>4. /\ command' = NextCommand /\ wire' \in Seq(Command)
          /\ ran' \in Seq(1..MaxRequests) /\ signals' \in Seq(Signals)
      <4> HIDE DEF before
      <4> QED BY <3>1, <3>2, <3>3, RunCommandTyped
    <3> HIDE DEF before
    <3> QED BY <2>6, <3>2, <3>4 DEF CommandEnds, TypeOK
  <2> USE DEF Reply
  <2>13. ASSUME Reply(line) PROVE command \in Command
    BY <2>13 DEF Idle, TypeOK
  <2>7. CASE ReplyOpens(line)
    <3>1. command' \in Command
      BY <2>7, <2>13, CommandUpdated DEF ReplyOpens
    <3> QED BY <2>7, <3>1 DEF ReplyOpens, TypeOK
  <2>8. CASE DefinitionOpens(line)
    <3>1. command' \in Command
      BY <2>8, <2>13, CommandUpdated DEF DefinitionOpens
    <3> QED BY <2>8, <3>1 DEF DefinitionOpens, TypeOK
  <2>9. CASE ListEnds(line)
    <3>1. command' \in Command
      BY <2>9, <2>13, CommandUpdated DEF ListEnds
    <3> QED BY <2>9, <3>1 DEF ListEnds, TypeOK
  <2>10. CASE DefinitionEnds(line)
    <3>1. command' \in Command
      BY <2>10, <2>13, CommandUpdated DEF DefinitionEnds
    <3> QED BY <2>10, <3>1 DEF DefinitionEnds, TypeOK
  <2>11. CASE Text(line)
    <3>1. FoundSignal(command.type) \in Seq(Signals)
      BY DEF FoundSignal
    <3>2. command' \in Command
      BY <2>11, <2>13, CommandUpdated DEF Text
    <3> QED BY <2>11, <3>1, <3>2 DEF Text, TypeOK
  <2>12. CASE Aborts(line)
    BY <2>12 DEF Aborts, TypeOK
  <2> QED BY <1>4, <2>2, <2>3, <2>4, <2>5, <2>6, <2>7, <2>8, <2>9, <2>10,
             <2>11, <2>12 DEF IoLine
<1>5. CASE IoError
  BY <1>5 DEF IoError, Dispatched, TypeOK, counts
<1>6. CASE IoReadError
  BY <1>6, ForceDisconnectTyped DEF IoReadError, Dispatched, TypeOK
<1>7. CASE IoNoLine
  BY <1>7 DEF IoNoLine, Dispatched, TimerCancelled, TypeOK, counts
<1>8. CASE ConnectionTimeout
  BY <1>8, ForceDisconnectTyped DEF ConnectionTimeout, TypeOK
<1>9. CASE Finalize
  BY <1>9, ForceDisconnectTyped DEF Finalize, TypeOK
<1>10. CASE PeerReads
  BY <1>10 DEF PeerReads, TypeOK, conn, counts
<1>11. CASE UNCHANGED vars
  BY <1>11 DEF vars, conn, counts, TypeOK
<1> QED BY <1>1, <1>2, <1>3, <1>4, <1>5, <1>6, <1>7, <1>8, <1>9, <1>10, <1>11
        DEF Next, Request

(* Every field keeps its type, whatever the server sends and what fails.   *)
THEOREM Typing == Spec => []TypeOK
<1>1. Init => TypeOK
  BY InitTyped
<1>2. TypeOK /\ [Next]_vars => TypeOK'
  BY TypingStep
<1> QED BY <1>1, <1>2, PTL DEF Spec

(* The flat form of a step: the ways in which the connection's fields move. *)
LEMMA StepCases ==
  ASSUME [Next]_vars
  PROVE  \/ \E kind \in UserKinds : RequestQueued(kind)
         \/ \E kind \in UserKinds : RequestConnecting(kind)
         \/ \E fault \in ConnectFaults : RequestRefused(fault)
         \/ \E line \in Line : IoLine(line)
         \/ IoError \/ IoReadError \/ IoNoLine
         \/ ConnectionTimeout \/ Finalize \/ PeerReads \/ UNCHANGED vars
BY DEF Next, Request

-----------------------------------------------------------------------------
(* The main loop sources and the channel *)

(* A line read either forces a disconnection or ends the attempt under way *)
(* and leaves channel and watch as they are.                               *)
LEMMA LineConnection ==
  ASSUME NEW line \in Line, IoLine(line)
  PROVE  /\ life = "alive" /\ "watch" \in sources /\ is_connecting' = 0
         /\ ForceDisconnect \/ (TimerCancelled /\ life' \in {"alive", "aborted"})
<1> USE DEF ReadLine, Dispatched, Reply
<1>1. CASE Greeting(line)
  BY <1>1 DEF Greeting
<1>2. CASE ServerDown(line)
  BY <1>2 DEF ServerDown
<1>3. CASE BadGreeting(line)
  BY <1>3 DEF BadGreeting
<1>4. CASE Disconnected(line)
  BY <1>4 DEF Disconnected
<1>5. CASE CommandEnds(line)
  BY <1>5 DEF CommandEnds
<1>6. CASE ReplyOpens(line)
  BY <1>6 DEF ReplyOpens
<1>7. CASE DefinitionOpens(line)
  BY <1>7 DEF DefinitionOpens
<1>8. CASE ListEnds(line)
  BY <1>8 DEF ListEnds
<1>9. CASE DefinitionEnds(line)
  BY <1>9 DEF DefinitionEnds
<1>10. CASE Text(line)
  BY <1>10 DEF Text
<1>11. CASE Aborts(line)
  BY <1>11 DEF Aborts
<1> QED BY <1>1, <1>2, <1>3, <1>4, <1>5, <1>6, <1>7, <1>8, <1>9, <1>10, <1>11
        DEF IoLine

LEMMA SourcesOwnedStep ==
  ASSUME TypeOK, SourcesOwned, [Next]_vars
  PROVE  SourcesOwned'
<1> USE DEF TypeOK, SourcesOwned, IsConnected
<1>1. ASSUME NEW kind \in UserKinds, RequestQueued(kind) PROVE SourcesOwned'
  BY <1>1 DEF RequestQueued, PushCommand, conn
<1>2. ASSUME NEW kind \in UserKinds, RequestConnecting(kind) PROVE SourcesOwned'
  BY <1>2 DEF RequestConnecting, PushCommand, Announce
<1>3. ASSUME NEW fault \in ConnectFaults, RequestRefused(fault) PROVE SourcesOwned'
  BY <1>3 DEF RequestRefused, Announce
<1>4. ASSUME NEW line \in Line, IoLine(line) PROVE SourcesOwned'
  <2>1. CASE ForceDisconnect
    BY <2>1 DEF ForceDisconnect
  <2>2. CASE TimerCancelled /\ life' \in {"alive", "aborted"}
    BY <1>4, <2>2, LineConnection DEF TimerCancelled
  <2> QED BY <1>4, <2>1, <2>2, LineConnection
<1>5. CASE IoError
  BY <1>5 DEF IoError, Dispatched
<1>6. CASE IoReadError
  BY <1>6 DEF IoReadError, ForceDisconnect
<1>7. CASE IoNoLine
  BY <1>7 DEF IoNoLine, Dispatched, TimerCancelled
<1>8. CASE ConnectionTimeout
  BY <1>8 DEF ConnectionTimeout, ForceDisconnect
<1>9. CASE Finalize
  BY <1>9 DEF Finalize, ForceDisconnect
<1>10. CASE PeerReads
  BY <1>10 DEF PeerReads, conn
<1>11. CASE UNCHANGED vars
  BY <1>11 DEF vars, conn
<1> QED BY <1>1, <1>2, <1>3, <1>4, <1>5, <1>6, <1>7, <1>8, <1>9, <1>10, <1>11,
           StepCases

(* The main loop never dispatches a source of a closed channel or of a     *)
(* finalized context, and no channel is left where is_connected () does    *)
(* not see it, whatever the server and the network do.                     *)
THEOREM SourcesStayOwned == Spec => []SourcesOwned
<1>1. Init => SourcesOwned
  BY DEF Init, SourcesOwned
<1>2. TypeOK /\ SourcesOwned /\ [Next]_vars => SourcesOwned'
  BY SourcesOwnedStep
<1> QED BY <1>1, <1>2, Typing, PTL DEF Spec

-----------------------------------------------------------------------------
(* The queue of lookups *)

(* Only the commands of the user carry a number, and only they are queued. *)
WellNumbered ==
  /\ command.id # 0 <=> command.type \in UserKinds
  /\ \A i \in 1..Len(queue) : queue[i].id # 0 /\ queue[i].type \in UserKinds

(* A line read drops the whole queue, completes the current command and    *)
(* runs the next one, or leaves number and queue as they are.              *)
LEMMA LineQueue ==
  ASSUME TypeOK, NEW line \in Line, IoLine(line)
  PROVE  /\ issued' = issued
         /\ \/ ForceDisconnect /\ ended' = ended
            \/ /\ command \in Command
               /\ ended' = IF command.type \in OwnKinds THEN ended ELSE ended + 1
               /\ queue' = IF queue = <<>> THEN <<>> ELSE Tail(queue)
               /\ command' = NextCommand
               /\ lost' = lost
            \/ /\ command'.id = command.id
               /\ command'.type \in UserKinds <=> command.type \in UserKinds
               /\ command' \in Command \cup {NoCommand}
               /\ UNCHANGED <<queue, ended, lost>>
<1> USE DEF ReadLine, Reply
<1>1. CASE Greeting(line)
  <2>1. command = NoCommand /\ command' = NewCommand("CLIENT", 0)
    BY <1>1 DEF Greeting, RunCommand, Idle
  <2>2. "NONE" \notin UserKinds /\ "CLIENT" \notin UserKinds
    BY DEF UserKinds
  <2>3. command.id = 0 /\ command.type = "NONE"
        /\ command'.id = 0 /\ command'.type = "CLIENT"
    BY <2>1 DEF NoCommand, NewCommand
  <2> QED BY <1>1, <2>1, <2>2, <2>3, OwnCommandTyped DEF Greeting
<1>2. CASE ServerDown(line)
  BY <1>2 DEF ServerDown, TypeOK
<1>3. CASE BadGreeting(line)
  BY <1>3 DEF BadGreeting
<1>4. CASE Disconnected(line)
  BY <1>4 DEF Disconnected
<1>5. CASE CommandEnds(line)
  <2>1. command \in Command
    BY <1>5 DEF CommandEnds, Idle, TypeOK
  <2> QED BY <1>5, <2>1 DEF CommandEnds, RunCommand
<1>6. ASSUME Reply(line) PROVE command \in Command
  BY <1>6 DEF Idle, TypeOK
<1>7. ASSUME Reply(line), NEW b \in BOOLEAN,
             NEW s \in {"START", "STATUS", "DATA", "FINISH"},
             \/ command' = [command EXCEPT !.state = s]
             \/ command' = [command EXCEPT !.state = s, !.data = b]
             \/ command' = [command EXCEPT !.state = s, !.buffer = b]
             \/ command' = [command EXCEPT !.buffer = b]
             \/ command' = command
      PROVE  /\ command'.id = command.id /\ command'.type = command.type
             /\ command' \in Command
  <2>1. command \in Command
    BY <1>7, <1>6
  <2>2. command' \in Command
    BY <1>7, <2>1, CommandUpdated
  <2> QED BY <1>7, <2>1, <2>2 DEF Command
<1>8. CASE ReplyOpens(line)
  BY <1>7, <1>8 DEF ReplyOpens
<1>9. CASE DefinitionOpens(line)
  BY <1>7, <1>9 DEF DefinitionOpens
<1>10. CASE ListEnds(line)
  BY <1>7, <1>10 DEF ListEnds
<1>11. CASE DefinitionEnds(line)
  BY <1>7, <1>11 DEF DefinitionEnds
<1>12. CASE Text(line)
  BY <1>7, <1>12 DEF Text
<1>13. CASE Aborts(line)
  BY <1>6, <1>13 DEF Aborts
<1> QED BY <1>1, <1>2, <1>3, <1>4, <1>5, <1>8, <1>9, <1>10, <1>11, <1>12, <1>13
        DEF IoLine

LEMMA NothingWaits == Waiting(NoCommand, <<>>) = <<>>
<1>1. <<>> \in Seq(Command) /\ NoCommand.id = 0
  BY EmptySeq DEF NoCommand
<1>2. Ids(<<>>) \in Seq(0..MaxRequests) /\ Len(Ids(<<>>)) = 0
  BY <1>1, EmptySeq, IdsLen
<1>3. Ids(<<>>) = <<>>
  BY <1>2, EmptySeq
<1> QED BY <1>1, <1>3, WaitingTyped

LEMMA QueueInit == Init => Lookups!LInit
BY NothingWaits DEF Init, Pending, Lookups!LInit

(* One step of the context against the numbering and the abstract queue.   *)
LEMMA QueueStep ==
  ASSUME TypeOK, WellNumbered, [Next]_vars
  PROVE  WellNumbered' /\ [Lookups!LNext]_<<Pending, issued, ended, lost>>
<1> USE DEF Lookups!LNext
<1>1. command \in Command \cup {NoCommand} /\ queue \in Seq(Command)
      /\ issued \in 0..MaxRequests /\ lost \in Nat /\ ended \in Nat
  BY DEF TypeOK
<1>2. ASSUME ForceDisconnect, UNCHANGED <<issued, ended>>
      PROVE  WellNumbered' /\ Lookups!DropAll
  <2>1. NoCommand.id = 0 /\ NoCommand.type \notin UserKinds
    BY DEF NoCommand, UserKinds
  <2>2. queue' = <<>> /\ command' = NoCommand /\ lost' = lost + Len(Pending)
    BY <1>2 DEF ForceDisconnect
  <2>5. Pending' = <<>>
    BY <2>2, NothingWaits DEF Pending
  <2>6. WellNumbered'
    BY <2>1, <2>2 DEF WellNumbered
  <2> QED BY <1>2, <2>2, <2>5, <2>6 DEF Lookups!DropAll
<1>3. ASSUME command'.id = command.id,
             command'.type \in UserKinds <=> command.type \in UserKinds,
             queue' = queue
      PROVE  WellNumbered' /\ Pending' = Pending
  BY <1>3 DEF WellNumbered, Pending, Waiting
<1>4. ASSUME NEW kind \in UserKinds, Announce, PushCommand(kind)
      PROVE  WellNumbered' /\ Lookups!Issue
  <2> DEFINE c == NewCommand(kind, issued + 1)
  <2>1. issued + 1 \in 0..MaxRequests /\ issued + 1 # 0 /\ issued < MaxRequests
    BY <1>1, <1>4, ConstantsTyped DEF Announce, Assumptions
  <2>2. c \in Command /\ c.id = issued + 1 /\ c.type = kind
    BY <2>1, NewCommandTyped DEF NewCommand
  <2>3. queue' = Append(queue, c) /\ command' = command
        /\ issued' = issued + 1 /\ ended' = ended /\ lost' = lost
    BY <1>4 DEF Announce, PushCommand
  <2> HIDE DEF c
  <2>4. Pending' = Append(Pending, issued + 1)
    BY <1>1, <2>2, <2>3, WaitingAppend DEF Pending
  <2>5. /\ Len(Append(queue, c)) = Len(queue) + 1
        /\ \A i \in 1..Len(queue) : Append(queue, c)[i] = queue[i]
        /\ Append(queue, c)[Len(queue) + 1] = c
        /\ Len(queue) \in Nat
    BY <1>1, <2>2, AppendProperties
  <2>6. ASSUME NEW i \in 1..Len(queue) + 1
        PROVE  queue'[i].id # 0 /\ queue'[i].type \in UserKinds
    <3>1. CASE i = Len(queue) + 1
      BY <2>1, <2>2, <2>3, <2>5, <3>1
    <3>2. CASE i \in 1..Len(queue)
      BY <2>3, <2>5, <3>2 DEF WellNumbered
    <3> QED BY <2>5, <3>1, <3>2
  <2>7. WellNumbered'
    BY <2>3, <2>5, <2>6 DEF WellNumbered
  <2> QED BY <2>1, <2>3, <2>4, <2>7 DEF Lookups!Issue
<1>5. ASSUME NEW fault \in ConnectFaults, RequestRefused(fault)
      PROVE  WellNumbered' /\ Lookups!Refuse
  <2>1. command' = command /\ queue' = queue /\ lost' = lost
        /\ issued < MaxRequests /\ issued' = issued + 1 /\ ended' = ended + 1
    BY <1>5 DEF RequestRefused, Announce
  <2> QED BY <1>3, <2>1 DEF Lookups!Refuse
<1>6. ASSUME command \in Command, issued' = issued, lost' = lost,
             ended' = IF command.type \in OwnKinds THEN ended ELSE ended + 1,
             queue' = IF queue = <<>> THEN <<>> ELSE Tail(queue),
             command' = NextCommand
      PROVE  WellNumbered' /\ [Lookups!LNext]_<<Pending, issued, ended, lost>>
  <2>1. Pending' = Ids(queue) /\ WellNumbered'
    <3>1. CASE queue = <<>>
      <4>1. command' = NewCommand("QUIT", 0) /\ queue' = queue
        BY <1>6, <3>1 DEF NextCommand
      <4>2. command'.id = 0 /\ command'.type \notin UserKinds
        BY <4>1 DEF NewCommand, UserKinds
      <4> QED BY <1>1, <3>1, <4>1, <4>2, OwnCommandTyped, WaitingTyped
              DEF Pending, WellNumbered
    <3>2. CASE queue # <<>>
      <4>1. command' = Head(queue) /\ queue' = Tail(queue)
        BY <1>6, <3>2 DEF NextCommand
      <4>2. /\ Len(queue) \in Nat \ {0} /\ Len(Tail(queue)) = Len(queue) - 1
            /\ \A i \in 1..Len(queue) - 1 : Tail(queue)[i] = queue[i + 1]
            /\ Head(queue) = queue[1]
        BY <1>1, <3>2
      <4>3. Head(queue).id # 0 /\ Head(queue).type \in UserKinds
        BY <4>2 DEF WellNumbered
      <4>4. WellNumbered'
        BY <4>1, <4>2, <4>3 DEF WellNumbered
      <4> QED BY <1>1, <3>2, <4>1, <4>3, <4>4, WaitingNext DEF Pending
    <3> QED BY <3>1, <3>2
  <2>2. CASE command.type \in OwnKinds
    <3>1. command.id = 0
      BY <2>2 DEF WellNumbered, OwnKinds, UserKinds
    <3>2. Pending = Ids(queue)
      BY <1>1, <3>1, WaitingTyped DEF Pending
    <3> QED BY <1>6, <2>1, <2>2, <3>2
  <2>3. CASE command.type \notin OwnKinds
    <3>1. command.id # 0
      BY <1>6, <2>3, CommandFields DEF WellNumbered
    <3>2. Pending # <<>> /\ Tail(Pending) = Ids(queue)
      BY <1>1, <3>1, WaitingTyped DEF Pending
    <3> QED BY <1>6, <2>1, <2>3, <3>2 DEF Lookups!Complete
  <2> QED BY <2>2, <2>3
<1>7. ASSUME NEW line \in Line, IoLine(line)
      PROVE  WellNumbered' /\ [Lookups!LNext]_<<Pending, issued, ended, lost>>
  BY <1>2, <1>3, <1>6, <1>7, LineQueue
<1>8. CASE IoError
  BY <1>3, <1>8 DEF IoError, counts
<1>9. CASE IoReadError
  BY <1>2, <1>9 DEF IoReadError
<1>10. CASE IoNoLine
  BY <1>3, <1>10 DEF IoNoLine, counts
<1>11. CASE ConnectionTimeout
  BY <1>2, <1>11 DEF ConnectionTimeout
<1>12. CASE Finalize
  BY <1>2, <1>12 DEF Finalize
<1>13. CASE PeerReads
  BY <1>3, <1>13 DEF PeerReads, counts
<1>14. CASE UNCHANGED vars
  BY <1>3, <1>14 DEF vars, counts
<1>15. ASSUME NEW kind \in UserKinds, RequestQueued(kind) \/ RequestConnecting(kind)
       PROVE  WellNumbered' /\ Lookups!Issue
  BY <1>4, <1>15 DEF RequestQueued, RequestConnecting
<1> QED BY <1>5, <1>7, <1>8, <1>9, <1>10, <1>11, <1>12, <1>13, <1>14, <1>15,
           StepCases

THEOREM Numbering == Spec => []WellNumbered
<1>1. Init => WellNumbered
  BY DEF Init, WellNumbered, NoCommand, UserKinds
<1>2. TypeOK /\ WellNumbered /\ [Next]_vars => WellNumbered'
  BY QueueStep
<1> QED BY <1>1, <1>2, Typing, PTL DEF Spec

(* The context implements the queue of lookups: whatever the server sends  *)
(* and whatever fails, each lookup is completed once and in its turn, or   *)
(* dropped together with all the others.                                   *)
THEOREM QueueImplemented == Spec => ImplementsLookupQueue
<1>1. Init => Lookups!LInit
  BY QueueInit
<1>2. TypeOK /\ WellNumbered /\ [Next]_vars
      => [Lookups!LNext]_<<Pending, issued, ended, lost>>
  BY QueueStep
<1> QED BY <1>1, <1>2, Typing, Numbering, PTL
        DEF Spec, ImplementsLookupQueue, Lookups!LSpec, Lookups!lvars

(* No lookup is counted twice and none leaks out of the context.           *)
THEOREM LookupsAccounted == Spec => []EveryLookupAccounted
<1>1. Init => EveryLookupAccounted
  BY QueueInit DEF Lookups!LInit, EveryLookupAccounted
<1>2. TypeOK /\ EveryLookupAccounted /\ [Lookups!LNext]_<<Pending, issued, ended, lost>>
      => EveryLookupAccounted'
  <2> SUFFICES ASSUME TypeOK, EveryLookupAccounted,
                      [Lookups!LNext]_<<Pending, issued, ended, lost>>
               PROVE  EveryLookupAccounted'
    OBVIOUS
  <2>1. Pending \in Seq(0..MaxRequests) /\ Len(Pending) \in Nat
        /\ issued \in 0..MaxRequests /\ ended \in Nat /\ lost \in Nat
    BY PendingTyped DEF TypeOK
  <2>2. CASE Lookups!Issue
    <3>1. issued + 1 \in 0..MaxRequests
      BY <2>1, <2>2, ConstantsTyped DEF Lookups!Issue, Assumptions
    <3>2. Len(Append(Pending, issued + 1)) = Len(Pending) + 1
      BY <2>1, <3>1, AppendProperties
    <3> QED BY <2>1, <2>2, <3>2 DEF Lookups!Issue, EveryLookupAccounted
  <2>3. CASE Lookups!Refuse
    BY <2>1, <2>3 DEF Lookups!Refuse, EveryLookupAccounted
  <2>4. CASE Lookups!Complete
    <3>1. Len(Tail(Pending)) = Len(Pending) - 1
      BY <2>1, <2>4, HeadTailProperties DEF Lookups!Complete
    <3>2. /\ Len(Pending') = Len(Pending) - 1 /\ ended' = ended + 1
          /\ UNCHANGED <<issued, lost>>
      BY <2>4, <3>1 DEF Lookups!Complete
    <3> QED BY <2>1, <3>2 DEF EveryLookupAccounted
  <2>5. CASE Lookups!DropAll
    <3>1. Len(<<>>) = 0
      BY EmptySeq
    <3>2. /\ Len(Pending') = 0 /\ lost' = lost + Len(Pending)
          /\ UNCHANGED <<issued, ended>>
      BY <2>5, <3>1 DEF Lookups!DropAll
    <3> QED BY <2>1, <3>2 DEF EveryLookupAccounted
  <2>6. CASE UNCHANGED <<Pending, issued, ended, lost>>
    BY <2>6 DEF EveryLookupAccounted
  <2> QED BY <2>2, <2>3, <2>4, <2>5, <2>6 DEF Lookups!LNext
<1>3. TypeOK /\ WellNumbered /\ EveryLookupAccounted /\ [Next]_vars
      => EveryLookupAccounted'
  BY <1>2, QueueStep
<1> QED BY <1>1, <1>3, Typing, Numbering, PTL DEF Spec

-----------------------------------------------------------------------------
(* The order in which lookups are served *)

(* The numbers grow along the queue, and every lookup already written has  *)
(* a smaller one than every lookup still queued.                           *)
Ordered ==
  /\ ServedInOrder
  /\ \A i, j \in 1..Len(queue) : i < j => queue[i].id < queue[j].id
  /\ \A i \in 1..Len(queue) : queue[i].id <= issued
  /\ \A i \in 1..Len(ran) : ran[i] <= issued
  /\ \A i \in 1..Len(ran), j \in 1..Len(queue) : ran[i] < queue[j].id

(* What a line read does to the queue and to the record of what was run.   *)
LEMMA LineRan ==
  ASSUME TypeOK, NEW line \in Line, IoLine(line)
  PROVE  /\ issued' = issued
         /\ \/ ran' = ran /\ queue' \in {queue, <<>>}
            \/ /\ queue # <<>> /\ queue' = Tail(queue)
               /\ ran' \in {ran, Append(ran, Head(queue).id)}
<1> USE DEF ReadLine, Reply
<1>1. CASE Greeting(line)
  BY <1>1 DEF Greeting, RunCommand, NewCommand
<1>2. CASE ServerDown(line)
  BY <1>2 DEF ServerDown
<1>3. CASE BadGreeting(line)
  BY <1>3 DEF BadGreeting, ForceDisconnect
<1>4. CASE Disconnected(line)
  BY <1>4 DEF Disconnected, ForceDisconnect
<1>5. CASE CommandEnds(line)
  <2>1. CASE queue = <<>>
    BY <1>5, <2>1 DEF CommandEnds, RunCommand, NextCommand, NewCommand
  <2>2. CASE queue # <<>>
    BY <1>5, <2>2 DEF CommandEnds, RunCommand, NextCommand
  <2> QED BY <2>1, <2>2
<1>6. CASE ReplyOpens(line)
  BY <1>6 DEF ReplyOpens
<1>7. CASE DefinitionOpens(line)
  BY <1>7 DEF DefinitionOpens
<1>8. CASE ListEnds(line)
  BY <1>8 DEF ListEnds
<1>9. CASE DefinitionEnds(line)
  BY <1>9 DEF DefinitionEnds
<1>10. CASE Text(line)
  BY <1>10 DEF Text
<1>11. CASE Aborts(line)
  BY <1>11 DEF Aborts
<1> QED BY <1>1, <1>2, <1>3, <1>4, <1>5, <1>6, <1>7, <1>8, <1>9, <1>10, <1>11
        DEF IoLine

LEMMA OrderedStep ==
  ASSUME TypeOK, Ordered, [Next]_vars
  PROVE  Ordered'
<1>1. queue \in Seq(Command) /\ issued \in 0..MaxRequests
      /\ ran \in Seq(1..MaxRequests)
  BY DEF TypeOK
<1>2. /\ Len(queue) \in Nat /\ Len(ran) \in Nat
      /\ \A i \in 1..Len(ran) : ran[i] \in Nat
      /\ issued \in Nat
  <2>1. ASSUME NEW i \in 1..Len(ran) PROVE ran[i] \in 1..MaxRequests
    BY <1>1, ElementOfSeq
  <2>2. Len(queue) \in Nat /\ Len(ran) \in Nat
    BY <1>1
  <2>3. issued \in Nat /\ 1..MaxRequests \subseteq Nat
    BY <1>1, ConstantsTyped DEF Assumptions
  <2> QED BY <2>1, <2>2, <2>3
<1>3. ASSUME NEW i \in 1..Len(queue) PROVE queue[i].id \in Nat
  BY <1>1, ElementOfSeq, CommandFields
<1>4. ASSUME ran' = ran, issued' = issued, queue' \in {queue, <<>>}
      PROVE  Ordered'
  BY <1>4 DEF Ordered, ServedInOrder
<1>5. ASSUME ForceDisconnect, UNCHANGED <<issued, ran>>
      PROVE  Ordered'
  BY <1>4, <1>5 DEF ForceDisconnect
<1>6. ASSUME NEW kind \in UserKinds, Announce, PushCommand(kind)
      PROVE  Ordered'
  <2> DEFINE c == NewCommand(kind, issued + 1)
  <2>1. issued + 1 \in 0..MaxRequests
    BY <1>1, <1>6, ConstantsTyped DEF Announce, Assumptions
  <2>2. c \in Command /\ c.id = issued + 1
    BY <2>1, NewCommandTyped DEF NewCommand
  <2>3. queue' = Append(queue, c) /\ issued' = issued + 1 /\ ran' = ran
    BY <1>6 DEF Announce, PushCommand
  <2> HIDE DEF c
  <2>4. /\ Len(queue') = Len(queue) + 1
        /\ \A i \in 1..Len(queue) : queue'[i] = queue[i]
        /\ queue'[Len(queue) + 1] = c
    BY <1>1, <2>2, <2>3, AppendProperties
  <2>5. \A i \in 1..Len(queue') :
           \/ i \in 1..Len(queue) /\ queue'[i].id = queue[i].id
           \/ i = Len(queue) + 1 /\ queue'[i].id = issued + 1
    BY <1>2, <2>2, <2>4
  <2>6. ASSUME NEW i \in 1..Len(queue'), NEW j \in 1..Len(queue'), i < j
        PROVE  queue'[i].id < queue'[j].id
    <3>1. i \in 1..Len(queue) /\ queue'[i].id = queue[i].id
      BY <1>2, <2>4, <2>5, <2>6
    <3>2. CASE j \in 1..Len(queue) /\ queue'[j].id = queue[j].id
      BY <2>6, <3>1, <3>2 DEF Ordered
    <3>3. CASE queue'[j].id = issued + 1
      BY <1>2, <1>3, <3>1, <3>3 DEF Ordered
    <3> QED BY <2>5, <3>2, <3>3
  <2>7. ASSUME NEW i \in 1..Len(queue') PROVE queue'[i].id <= issued'
    <3>1. CASE i \in 1..Len(queue) /\ queue'[i].id = queue[i].id
      BY <1>2, <1>3, <2>3, <3>1 DEF Ordered
    <3>2. CASE queue'[i].id = issued + 1
      BY <1>2, <2>3, <3>2
    <3> QED BY <2>5, <3>1, <3>2
  <2>8. ASSUME NEW i \in 1..Len(ran'), NEW j \in 1..Len(queue')
        PROVE  ran'[i] < queue'[j].id
    <3>1. CASE j \in 1..Len(queue) /\ queue'[j].id = queue[j].id
      BY <2>3, <3>1 DEF Ordered
    <3>2. CASE queue'[j].id = issued + 1
      BY <1>2, <2>3, <3>2 DEF Ordered
    <3> QED BY <2>5, <3>1, <3>2
  <2>9. ServedInOrder' /\ \A i \in 1..Len(ran') : ran'[i] <= issued'
    BY <1>2, <2>3 DEF Ordered, ServedInOrder
  <2> QED BY <2>6, <2>7, <2>8, <2>9 DEF Ordered
<1>7. ASSUME queue # <<>>, queue' = Tail(queue), issued' = issued,
             ran' \in {ran, Append(ran, Head(queue).id)}
      PROVE  Ordered'
  <2>1. /\ Len(queue) \in Nat \ {0} /\ Len(queue') = Len(queue) - 1
        /\ \A i \in 1..Len(queue') : queue'[i] = queue[i + 1]
        /\ Head(queue) = queue[1]
    BY <1>1, <1>7
  <2>4. ASSUME NEW i \in 1..Len(queue')
        PROVE  i + 1 \in 1..Len(queue) /\ queue'[i].id = queue[i + 1].id
    BY <2>1
  <2>5. /\ \A i, j \in 1..Len(queue') : i < j => queue'[i].id < queue'[j].id
        /\ \A i \in 1..Len(queue') : queue'[i].id <= issued'
    <3>1. ASSUME NEW i \in 1..Len(queue'), NEW j \in 1..Len(queue'), i < j
          PROVE  queue'[i].id < queue'[j].id
      <4>1. i + 1 < j + 1
        BY <3>1, <2>1
      <4> QED BY <2>4, <4>1 DEF Ordered
    <3> QED BY <1>7, <2>4, <3>1 DEF Ordered
  <2>2. CASE ran' = ran
    BY <1>7, <2>2, <2>4, <2>5 DEF Ordered, ServedInOrder
  <2>3. CASE ran' = Append(ran, Head(queue).id)
    <3>1. queue[1].id \in Nat
      BY <1>3, <2>1
    <3>2. /\ Len(ran') = Len(ran) + 1
          /\ \A i \in 1..Len(ran) : ran'[i] = ran[i]
          /\ ran'[Len(ran) + 1] = queue[1].id
      <4>1. ran \in Seq(Nat)
        <5>1. 1..MaxRequests \subseteq Nat
          OBVIOUS
        <5> QED BY <1>1, <5>1, SeqMonotonic
      <4> QED BY <2>1, <2>3, <3>1, <4>1, AppendProperties
    <3>3. \A i \in 1..Len(ran') :
             \/ i \in 1..Len(ran) /\ ran'[i] = ran[i]
             \/ i = Len(ran) + 1 /\ ran'[i] = queue[1].id
      BY <1>2, <3>2
    <3>4. 1 \in 1..Len(queue)
      BY <2>1
    <3>5. ServedInOrder' /\ \A i \in 1..Len(ran') : ran'[i] <= issued'
      BY <1>2, <1>7, <3>1, <3>3, <3>4 DEF Ordered, ServedInOrder
    <3>6. ASSUME NEW i \in 1..Len(ran'), NEW j \in 1..Len(queue')
          PROVE  ran'[i] < queue'[j].id
      <4>1. 1 < j + 1
        BY <2>1
      <4>2. queue[1].id < queue[j + 1].id
        BY <2>4, <3>4, <4>1 DEF Ordered
      <4> QED BY <2>4, <3>3, <4>2 DEF Ordered
    <3> QED BY <2>5, <3>5, <3>6 DEF Ordered
  <2> QED BY <1>7, <2>2, <2>3
<1>8. ASSUME NEW line \in Line, IoLine(line) PROVE Ordered'
  BY <1>4, <1>7, <1>8, LineRan
<1>9. ASSUME NEW kind \in UserKinds, RequestQueued(kind) \/ RequestConnecting(kind)
      PROVE  Ordered'
  BY <1>6, <1>9 DEF RequestQueued, RequestConnecting
<1>10. ASSUME NEW fault \in ConnectFaults, RequestRefused(fault) PROVE Ordered'
  <2>1. queue' = queue /\ ran' = ran /\ issued' = issued + 1
    BY <1>10 DEF RequestRefused, Announce
  <2> QED BY <1>2, <1>3, <2>1 DEF Ordered, ServedInOrder
<1>11. CASE IoError
  BY <1>4, <1>11 DEF IoError, counts
<1>12. CASE IoReadError
  BY <1>5, <1>12 DEF IoReadError
<1>13. CASE IoNoLine
  BY <1>4, <1>13 DEF IoNoLine, counts
<1>14. CASE ConnectionTimeout
  BY <1>5, <1>14 DEF ConnectionTimeout
<1>15. CASE Finalize
  BY <1>5, <1>15 DEF Finalize
<1>16. CASE PeerReads
  BY <1>4, <1>16 DEF PeerReads, counts
<1>17. CASE UNCHANGED vars
  BY <1>4, <1>17 DEF vars, counts
<1> QED BY <1>8, <1>9, <1>10, <1>11, <1>12, <1>13, <1>14, <1>15, <1>16, <1>17,
           StepCases

(* The server receives the lookups in the order of the calls that made     *)
(* them and none twice, whatever it answers and however often the          *)
(* connection is lost and made again.                                      *)
THEOREM LookupsServedInOrder == Spec => []ServedInOrder
<1>1. Init => Ordered
  BY EmptySeq DEF Init, Ordered, ServedInOrder
<1>2. TypeOK /\ Ordered /\ [Next]_vars => Ordered'
  BY OrderedStep
<1>3. Ordered => ServedInOrder
  BY DEF Ordered
<1> QED BY <1>1, <1>2, <1>3, Typing, PTL DEF Spec

-----------------------------------------------------------------------------
(* The conversation with a server that follows the RFC *)

White == {N_DEFINITIONS, WORD_DB_NAME, N_MATCHES}
ListKinds == {"SHOW_DB", "SHOW_STRAT", "MATCH"}

(* A place in a reply: the part and the text lines of each entry so far.   *)
Place == [at: Parts \cup {"wait", "closing"}, lens: Seq(Nat)]
At(part, lens) == [at |-> part, lens |-> lens]

MayOpen(p) == IF p.lens # <<>> THEN RestCodes
              ELSE IF p.at = "matches" THEN FirstCodes ELSE {INVALID}

(* How a line of a reply to a command of that type leads from p to q.      *)
Answers(type, p, line, q) ==
  /\ p.at = "wait"
  /\ \E c \in FirstLines(type) : line = Status(c) /\ q = At(Follows(type, c), <<>>)
Lists(p, line, q) ==
  /\ p.at \in {"list", "matches"}
  /\ \E c \in MayOpen(p) : line = TextLine(c)
  /\ q = At(p.at, Append(p.lens, 0))
Closes(p, line, q) ==
  /\ p.at \in {"list", "matches"} /\ line = Dot /\ q = At("closing", p.lens)
Ends(p, line, q) ==
  /\ \/ p.at = "closing"
     \/ p.at = "definitions" /\ p.lens # <<>>
  /\ line = Status(OK) /\ q = At("nothing", p.lens)
Defines(p, line, q) ==
  /\ p.at = "definitions" /\ line = Status(WORD_DB_NAME)
  /\ q = At("definition", Append(p.lens, 0))
Writes(p, line, q) ==
  LET n == Len(p.lens)
  IN  /\ p.at = "definition"
      /\ \E c \in IF p.lens[n] = 0 THEN FirstCodes ELSE RestCodes :
            line = TextLine(c)
      /\ q = At("definition", [p.lens EXCEPT ![n] = @ + 1])
EndsOne(p, line, q) ==
  /\ p.at = "definition" /\ line = Dot /\ q = At("definitions", p.lens)

Goes(type, p, line, q) ==
  \/ Answers(type, p, line, q)
  \/ Lists(p, line, q) \/ Closes(p, line, q) \/ Ends(p, line, q)
  \/ Defines(p, line, q) \/ Writes(p, line, q) \/ EndsOne(p, line, q)

Leads(type, p, lines, q) ==
  \E f \in [0..Len(lines) -> Place] :
     /\ f[0] = p /\ f[Len(lines)] = q
     /\ \A i \in 1..Len(lines) : Goes(type, f[i-1], lines[i], f[i])

LEMMA LeadsNowhere ==
  ASSUME NEW type, NEW p \in Place
  PROVE  Leads(type, p, <<>>, p)
<1> DEFINE f == [i \in 0..0 |-> p]
<1>1. Len(<<>>) = 0
  BY EmptySeq
<1>2. f \in [0..0 -> Place] /\ f[0] = p
  OBVIOUS
<1> HIDE DEF f
<1> QED BY <1>1, <1>2 DEF Leads

LEMMA LeadsBack ==
  ASSUME NEW type, NEW p, NEW q, Leads(type, p, <<>>, q)
  PROVE  p = q
BY EmptySeq DEF Leads

LEMMA LeadsOn ==
  ASSUME NEW type, NEW p, NEW q, NEW lines \in Seq(Line), NEW line \in Line,
         Leads(type, p, lines, q), NEW r \in Place, Goes(type, q, line, r)
  PROVE  Leads(type, p, Append(lines, line), r)
<1> DEFINE n == Len(lines)
           more == Append(lines, line)
<1>1. /\ n \in Nat /\ Len(more) = n + 1
      /\ \A i \in 1..n : more[i] = lines[i]
      /\ more[n + 1] = line
  BY AppendProperties
<1>2. PICK f \in [0..n -> Place] :
        /\ f[0] = p /\ f[n] = q
        /\ \A i \in 1..n : Goes(type, f[i-1], lines[i], f[i])
  BY DEF Leads
<1> HIDE DEF n, more
<1> DEFINE g == [i \in 0..n + 1 |-> IF i = n + 1 THEN r ELSE f[i]]
<1>3. g \in [0..n + 1 -> Place]
  BY <1>1, <1>2
<1>4. g[0] = p /\ g[n + 1] = r /\ \A i \in 0..n : g[i] = f[i]
  BY <1>1, <1>2
<1> HIDE DEF g
<1>5. ASSUME NEW i \in 1..n + 1
      PROVE  Goes(type, g[i-1], more[i], g[i])
  <2>1. CASE i = n + 1
    <3>1. g[i - 1] = q /\ more[i] = line /\ g[i] = r
      BY <1>1, <1>2, <1>4, <2>1
    <3> QED BY <3>1
  <2>2. CASE i \in 1..n
    <3>1. g[i - 1] = f[i - 1] /\ more[i] = lines[i] /\ g[i] = f[i]
      BY <1>1, <1>4, <2>2
    <3> QED BY <1>2, <2>2, <3>1
  <2> QED BY <1>1, <2>1, <2>2
<1>6. Leads(type, p, more, r)
  BY <1>1, <1>3, <1>4, <1>5 DEF Leads
<1> QED BY <1>6 DEF more

LEMMA LeadsIn ==
  ASSUME NEW type, NEW p, NEW q, NEW lines \in Seq(Line), lines # <<>>,
         Leads(type, p, lines, q)
  PROVE  \E r \in Place : /\ Goes(type, p, Head(lines), r)
                          /\ Leads(type, r, Tail(lines), q)
<1> DEFINE n == Len(lines)
           rest == Tail(lines)
<1>1. /\ n \in Nat \ {0} /\ Len(rest) = n - 1 /\ Head(lines) = lines[1]
      /\ \A i \in 1..n - 1 : rest[i] = lines[i + 1]
  OBVIOUS
<1>2. PICK f \in [0..n -> Place] :
        /\ f[0] = p /\ f[n] = q
        /\ \A i \in 1..n : Goes(type, f[i-1], lines[i], f[i])
  BY DEF Leads
<1> HIDE DEF n, rest
<1> DEFINE g == [i \in 0..n - 1 |-> f[i + 1]]
<1>3. g \in [0..n - 1 -> Place] /\ f[1] \in Place
  BY <1>1, <1>2
<1>4. g[0] = f[1] /\ g[n - 1] = q /\ \A i \in 0..n - 1 : g[i] = f[i + 1]
  BY <1>1, <1>2
<1> HIDE DEF g
<1>5. ASSUME NEW i \in 1..n - 1
      PROVE  Goes(type, g[i-1], rest[i], g[i])
  <2>1. g[i - 1] = f[i] /\ rest[i] = lines[i + 1] /\ g[i] = f[i + 1]
    BY <1>1, <1>4
  <2>2. i + 1 \in 1..n /\ i + 1 - 1 = i
    BY <1>1
  <2> QED BY <1>2, <2>1, <2>2
<1>6. Leads(type, f[1], rest, q)
  BY <1>1, <1>3, <1>4, <1>5 DEF Leads
<1>7. Goes(type, p, Head(lines), f[1])
  <2>1. 1 \in 1..n /\ 1 - 1 = 0
    BY <1>1
  <2> QED BY <1>1, <1>2, <2>1
<1> QED BY <1>3, <1>6, <1>7 DEF rest

LEMMA NothingGoesOn ==
  ASSUME NEW type, NEW p, NEW line, NEW q, Goes(type, p, line, q)
  PROVE  p.at # "nothing" /\ q.at # "wait"
BY DEF Goes, Answers, Lists, Closes, Ends, Defines, Writes, EndsOne, At, Follows

LEMMA LeadsPart ==
  ASSUME NEW type, NEW p, NEW q, NEW lines \in Seq(Line),
         Leads(type, p, lines, q), NEW k \in 0..Len(lines)
  PROVE  \E r \in Place : /\ Leads(type, p, SubSeq(lines, 1, k), r)
                          /\ r = q \/ (lines # <<>> /\ r.at # "nothing")
<1> DEFINE n == Len(lines)
           part == SubSeq(lines, 1, k)
<1>1. /\ n \in Nat /\ k \in 0..n /\ Len(part) = k
      /\ \A i \in 1..k : part[i] = lines[i]
      /\ n # 0 => lines # <<>>
  OBVIOUS
<1>2. PICK f \in [0..n -> Place] :
        /\ f[0] = p /\ f[n] = q
        /\ \A i \in 1..n : Goes(type, f[i-1], lines[i], f[i])
  BY DEF Leads
<1> HIDE DEF n, part
<1> DEFINE g == [i \in 0..k |-> f[i]]
<1>3. g \in [0..k -> Place] /\ f[k] \in Place
  BY <1>1, <1>2
<1>4. g[0] = p /\ g[k] = f[k] /\ \A i \in 0..k : g[i] = f[i]
  BY <1>1, <1>2
<1> HIDE DEF g
<1>5. ASSUME NEW i \in 1..k
      PROVE  Goes(type, g[i-1], part[i], g[i])
  <2>1. g[i - 1] = f[i - 1] /\ part[i] = lines[i] /\ g[i] = f[i] /\ i \in 1..n
    BY <1>1, <1>4
  <2> QED BY <1>2, <2>1
<1>6. Leads(type, p, part, f[k])
  BY <1>1, <1>3, <1>4, <1>5 DEF Leads
<1>7. f[k] = q \/ (lines # <<>> /\ f[k].at # "nothing")
  <2>1. CASE k = n
    BY <1>2, <2>1
  <2>2. CASE k # n
    <3>1. k + 1 \in 1..n /\ k + 1 - 1 = k
      BY <1>1, <2>2
    <3>2. Goes(type, f[k], lines[k + 1], f[k + 1])
      BY <1>2, <3>1
    <3> QED BY <1>1, <2>2, <3>2, NothingGoesOn
  <2> QED BY <2>1, <2>2
<1> QED BY <1>3, <1>6, <1>7 DEF part

LEMMA LeadsEnd ==
  ASSUME NEW type, NEW p, NEW q, NEW lines \in Seq(Line),
         Leads(type, p, lines, q), p.at = "nothing" \/ q.at = "wait"
  PROVE  lines = <<>> /\ p = q
<1> DEFINE n == Len(lines)
<1>1. n \in Nat /\ (n = 0 => lines = <<>>)
  OBVIOUS
<1>2. PICK f \in [0..n -> Place] :
        /\ f[0] = p /\ f[n] = q
        /\ \A i \in 1..n : Goes(type, f[i-1], lines[i], f[i])
  BY DEF Leads
<1> HIDE DEF n
<1>3. ASSUME n # 0 PROVE FALSE
  <2>1. 1 \in 1..n /\ n \in 1..n /\ 1 - 1 = 0
    BY <1>1, <1>3
  <2>2. Goes(type, p, lines[1], f[1]) /\ Goes(type, f[n - 1], lines[n], q)
    BY <1>2, <2>1
  <2> QED BY <2>2, NothingGoesOn
<1> QED BY <1>1, <1>2, <1>3

-----------------------------------------------------------------------------
(* What the client makes of a line while a command is in flight *)

(* The parser is deterministic: which branch it takes.                     *)
LEMMA LineJudged ==
  ASSUME NEW line \in Line, IoLine(line), ~Idle
  PROVE  LET status == NewStatus(line)
         IN  /\ status_code' = status /\ ReadLine(line)
             /\ status = QUIT_OK => Disconnected(line)
             /\ Finishes(status) => CommandEnds(line)
             /\ status # QUIT_OK /\ ~Finishes(status) =>
                  /\ Reply(line)
                  /\ Opens(status) => ReplyOpens(line)
                  /\ WordHead(status) /\ command.data => DefinitionOpens(line)
                  /\ line.dot /\ command.type # "DEFINE" => ListEnds(line)
                  /\ line.dot /\ command.type = "DEFINE" /\ command.state = "DATA"
                       => DefinitionEnds(line)
                  /\ IsText(line, status) /\ command.state = "DATA" => Text(line)
<1> DEFINE status == NewStatus(line)
<1>1. status_code' = status /\ ReadLine(line)
  BY DEF IoLine, Greeting, ServerDown, BadGreeting, Disconnected, CommandEnds,
         ReplyOpens, DefinitionOpens, ListEnds, DefinitionEnds, Text, Aborts,
         Reply, ReadLine
<1>2. line.dot => status = INVALID
  BY DEF NewStatus, Line, INVALID, OK, WORD_DB_NAME
<1>3. ~(Opens(status) /\ WordHead(status)) /\ ~(Opens(INVALID) \/ WordHead(INVALID))
  BY DEF Opens, WordHead, OpenCode, INVALID, WORD_DB_NAME, N_DATABASES,
         N_STRATEGIES, N_DEFINITIONS, N_MATCHES
<1> HIDE DEF status
<1>4. Finishes(status) => status # QUIT_OK
  BY DEF Finishes
<1>5. ~Greeting(line) /\ ~ServerDown(line) /\ ~BadGreeting(line)
  BY DEF Greeting, ServerDown, BadGreeting
<1>6. CASE status = QUIT_OK
  BY <1>1, <1>4, <1>5, <1>6
     DEF IoLine, CommandEnds, ReplyOpens, DefinitionOpens, ListEnds,
         DefinitionEnds, Text, Aborts, Reply, status
<1>7. CASE Finishes(status)
  BY <1>1, <1>4, <1>5, <1>7
     DEF IoLine, Disconnected, ReplyOpens, DefinitionOpens, ListEnds,
         DefinitionEnds, Text, Aborts, Reply, status
<1>8. CASE status # QUIT_OK /\ ~Finishes(status)
  <2>1. \/ ReplyOpens(line) \/ DefinitionOpens(line) \/ ListEnds(line)
        \/ DefinitionEnds(line) \/ Text(line) \/ Aborts(line)
    BY <1>1, <1>5, <1>8 DEF IoLine, Disconnected, CommandEnds
  <2>2. Reply(line)
    BY <2>1 DEF ReplyOpens, DefinitionOpens, ListEnds, DefinitionEnds, Text, Aborts
  <2>3. /\ ReplyOpens(line) => Opens(status)
        /\ DefinitionOpens(line) => WordHead(status) /\ command.data
        /\ ListEnds(line) => line.dot /\ command.type # "DEFINE"
        /\ DefinitionEnds(line) => /\ line.dot /\ command.type = "DEFINE"
                                   /\ command.state = "DATA"
        /\ Text(line) => IsText(line, status) /\ command.state = "DATA"
        /\ Aborts(line) =>
             \/ IsText(line, status) /\ command.state # "DATA"
             \/ line.dot /\ command.type = "DEFINE" /\ command.state # "DATA"
             \/ WordHead(status) /\ ~command.data
    BY <1>1 DEF ReplyOpens, DefinitionOpens, ListEnds, DefinitionEnds, Text, Aborts
  <2>4. IsText(line, status) => ~line.dot /\ ~Opens(status) /\ ~WordHead(status)
    BY DEF IsText
  <2>5. line.dot => ~Opens(status) /\ ~WordHead(status)
    BY <1>2, <1>3 DEF status
  <2>6. ~(Opens(status) /\ WordHead(status))
    BY <1>3 DEF status
  <2> QED BY <1>1, <1>8, <2>1, <2>2, <2>3, <2>4, <2>5, <2>6 DEF status
<1> QED BY <1>1, <1>6, <1>7, <1>8 DEF status

(* The place at which the client takes the reply to be.                    *)
ListPart(type) == IF type = "MATCH" THEN "matches" ELSE "list"

ReadsOwn(p) ==
  /\ command.type \in OwnKinds /\ command.state = "FINISH"
  /\ p = At("wait", <<>>) /\ status_code \notin White
ReadsFirst(p) ==
  /\ command.type \in UserKinds /\ command.state = "START"
  /\ p = At("wait", <<>>) /\ status_code \notin White
  /\ got = <<>> /\ text = 0
ReadsList(p) ==
  /\ command.type \in ListKinds /\ command.state = "DATA"
  /\ p = At(ListPart(command.type), got) /\ text = 0
  /\ IF command.type = "MATCH" /\ got = <<>> THEN status_code = N_MATCHES
                                             ELSE status_code \notin White
ReadsListEnd(p) ==
  /\ command.type \in ListKinds /\ command.state = "FINISH"
  /\ p = At("closing", got) /\ status_code \notin White
ReadsDefinitions(p) ==
  /\ command.type = "DEFINE" /\ command.data /\ command.state = "STATUS"
  /\ p = At("definitions", got) /\ text = 0
  /\ IF got = <<>> THEN status_code = N_DEFINITIONS ELSE status_code \notin White
ReadsDefinition(p) ==
  /\ command.type = "DEFINE" /\ command.data /\ command.state = "DATA"
  /\ p = At("definition", Append(got, text))
  /\ IF text = 0 THEN status_code = WORD_DB_NAME ELSE status_code \notin White

Reads(p) ==
  \/ ReadsOwn(p) \/ ReadsFirst(p) \/ ReadsList(p) \/ ReadsListEnd(p)
  \/ ReadsDefinitions(p) \/ ReadsDefinition(p)

LEMMA PlaceOfPart ==
  ASSUME NEW p
  PROVE  /\ ReadsOwn(p) \/ ReadsFirst(p) => p.at = "wait" /\ p.lens = <<>>
         /\ ReadsList(p) => p.at \in {"list", "matches"} /\ p.lens = got
         /\ ReadsListEnd(p) => p.at = "closing" /\ p.lens = got
         /\ ReadsDefinitions(p) => p.at = "definitions" /\ p.lens = got
         /\ ReadsDefinition(p) => p.at = "definition" /\ p.lens = Append(got, text)
<1>1. \A part, lens : At(part, lens).at = part /\ At(part, lens).lens = lens
  BY DEF At
<1>2. ReadsOwn(p) \/ ReadsFirst(p) => p.at = "wait" /\ p.lens = <<>>
  BY <1>1 DEF ReadsOwn, ReadsFirst
<1>3. ReadsList(p) => p.at \in {"list", "matches"} /\ p.lens = got
  BY <1>1 DEF ReadsList, ListPart
<1>4. ReadsListEnd(p) => p.at = "closing" /\ p.lens = got
  BY <1>1 DEF ReadsListEnd
<1>5. ReadsDefinitions(p) => p.at = "definitions" /\ p.lens = got
  BY <1>1 DEF ReadsDefinitions
<1>6. ReadsDefinition(p) => p.at = "definition" /\ p.lens = Append(got, text)
  <2>1. ReadsDefinition(p) => p = At("definition", Append(got, text))
    BY DEF ReadsDefinition
  <2> QED BY <1>1, <2>1
<1> QED BY <1>2, <1>3, <1>4, <1>5, <1>6

LEMMA StatusRead ==
  ASSUME NEW line \in Line
  PROVE  /\ status_code \notin White => NewStatus(line) = line.code
         /\ line.dot => NewStatus(line) = INVALID
         /\ status_code \in {WORD_DB_NAME, N_MATCHES} /\ line.code # OK
              => NewStatus(line) = INVALID
         /\ status_code = N_DEFINITIONS /\ line.code = WORD_DB_NAME
              => NewStatus(line) = WORD_DB_NAME
<1>1. White = {N_DEFINITIONS, WORD_DB_NAME, N_MATCHES} /\ N_DEFINITIONS # WORD_DB_NAME
      /\ N_DEFINITIONS # N_MATCHES /\ INVALID # OK /\ INVALID # WORD_DB_NAME
  BY DEF White, INVALID, OK, WORD_DB_NAME, N_MATCHES, N_DEFINITIONS
<1>2. line.dot => line.code = INVALID
  BY DEF Line
<1>3. CASE status_code \in {WORD_DB_NAME, N_MATCHES}
  <2>1. NewStatus(line) = IF line.code = OK THEN OK ELSE INVALID
    BY <1>1, <1>3 DEF NewStatus
  <2> QED BY <1>1, <1>2, <1>3, <2>1
<1>4. CASE status_code = N_DEFINITIONS
  <2>1. NewStatus(line) = IF line.code = WORD_DB_NAME THEN WORD_DB_NAME ELSE INVALID
    BY <1>1, <1>4 DEF NewStatus
  <2> QED BY <1>1, <1>2, <1>4, <2>1
<1>5. CASE status_code \notin White
  <2>1. NewStatus(line) = line.code
    BY <1>1, <1>5 DEF NewStatus
  <2> QED BY <1>1, <1>2, <1>5, <2>1
<1> QED BY <1>1, <1>3, <1>4, <1>5

LEMMA LinesSent ==
  ASSUME NEW c \in Codes
  PROVE  /\ Status(c) \in Line /\ TextLine(c) \in Line /\ Dot \in Line
         /\ Status(c).code = c /\ ~Status(c).dot
         /\ TextLine(c).code = c /\ ~TextLine(c).dot
         /\ Dot.dot
<1>1. INVALID \in Codes
  BY DEF Codes
<1> QED BY <1>1 DEF Status, TextLine, Dot, Line

(* The codes differ as the parser needs them to.                           *)
LEMMA CodesDiffer ==
  /\ White \subseteq ReplyCodes
  /\ INVALID \notin ReplyCodes /\ {OK, QUIT_OK} \cup ErrorCodes \subseteq ReplyCodes
  /\ \A type \in UserKinds : OpenCode(type) \in ReplyCodes
  /\ White \cap ({OK, QUIT_OK, INVALID, CONNECT} \cup ErrorCodes) = {}
  /\ \A type \in UserKinds :
        OpenCode(type) \notin {OK, QUIT_OK, INVALID, WORD_DB_NAME} \cup ErrorCodes
  /\ ReplyCodes \subseteq Codes /\ {INVALID, CONNECT, SERVER_DOWN, SHUTDOWN} \subseteq Codes
  /\ OK # QUIT_OK /\ OK \notin ErrorCodes /\ QUIT_OK \notin ErrorCodes
  /\ \A type \in UserKinds : Refusals(type) \subseteq ErrorCodes
<1>1. UserKinds = {"SHOW_DB", "SHOW_STRAT", "MATCH", "DEFINE"}
  BY DEF UserKinds
<1>2. /\ OpenCode("SHOW_DB") = N_DATABASES /\ OpenCode("SHOW_STRAT") = N_STRATEGIES
      /\ OpenCode("DEFINE") = N_DEFINITIONS /\ OpenCode("MATCH") = N_MATCHES
  BY DEF OpenCode
<1>3. \A type \in UserKinds : OpenCode(type) \in
         {N_DATABASES, N_STRATEGIES, N_DEFINITIONS, N_MATCHES}
  BY <1>1, <1>2
<1>4. \A type \in UserKinds : Refusals(type) \subseteq ErrorCodes
  BY <1>1 DEF Refusals, ErrorCodes
<1> QED BY <1>3, <1>4
        DEF White, ReplyCodes, Codes, ErrorCodes, INVALID, N_DATABASES, N_STRATEGIES,
            N_DEFINITIONS, WORD_DB_NAME, N_MATCHES, CONNECT, QUIT_OK, OK,
            SERVER_DOWN, SHUTDOWN

LEMMA FoundDiffers ==
  /\ \A type \in ListKinds : /\ FoundSignal(type) # <<>>
                             /\ FoundSignal(type) # <<"definition-found">>
  /\ FoundSignal("DEFINE") = <<>>
<1>1. /\ FoundSignal("SHOW_DB") = <<"database-found">>
      /\ FoundSignal("SHOW_STRAT") = <<"strategy-found">>
      /\ FoundSignal("MATCH") = <<"match-found">>
      /\ FoundSignal("DEFINE") = <<>>
  BY DEF FoundSignal
<1>2. \A s : <<s>> # <<>>
  OBVIOUS
<1>3. <<"database-found">> # <<"definition-found">>
      /\ <<"strategy-found">> # <<"definition-found">>
      /\ <<"match-found">> # <<"definition-found">>
  OBVIOUS
<1> QED BY <1>1, <1>2, <1>3 DEF ListKinds

LEMMA LastChanged ==
  ASSUME NEW s \in Seq(Nat), NEW t \in Nat
  PROVE  LET l == Append(s, t)
         IN  /\ l # <<>> /\ l[Len(l)] = t
             /\ [l EXCEPT ![Len(l)] = @ + 1] = Append(s, t + 1)
<1> DEFINE l == Append(s, t)
           m == [l EXCEPT ![Len(l)] = @ + 1]
           r == Append(s, t + 1)
<1>1. /\ Len(s) \in Nat /\ Len(l) = Len(s) + 1 /\ Len(r) = Len(s) + 1
      /\ l[Len(s) + 1] = t /\ r[Len(s) + 1] = t + 1
      /\ \A i \in 1..Len(s) : l[i] = s[i] /\ r[i] = s[i]
      /\ l \in Seq(Nat) /\ r \in Seq(Nat)
  BY AppendProperties
<1> HIDE DEF l, r
<1>2. m \in Seq(Nat) /\ Len(m) = Len(l)
      /\ \A i \in 1..Len(l) : m[i] = IF i = Len(l) THEN l[i] + 1 ELSE l[i]
  BY <1>1
<1> HIDE DEF m
<1>3. \A i \in 1..Len(s) + 1 : m[i] = r[i]
  <2> TAKE i \in 1..Len(s) + 1
  <2>1. CASE i = Len(s) + 1
    BY <1>1, <1>2, <2>1
  <2>2. CASE i \in 1..Len(s)
    BY <1>1, <1>2, <2>2
  <2> QED BY <1>1, <2>1, <2>2
<1>4. m = r
  BY <1>1, <1>2, <1>3, SeqEqual
<1>5. l # <<>>
  BY <1>1, EmptySeq
<1> QED BY <1>1, <1>4, <1>5 DEF l, m, r

(* The histories that a line read adds to are numbers of text lines.       *)
Histories ==
  /\ announced \in Seq(Nat) /\ got \in Seq(Nat) /\ text \in Nat

(* What a line read leads to: the reply goes on, is complete, or the       *)
(* session is over.                                                        *)
Continues(line, q) ==
  /\ q.at # "nothing"
  /\ Reply(line) /\ life' = life
  /\ command' \in Command /\ command'.type = command.type /\ command'.id = command.id
  /\ Reads(q)'
Completes(line, q) ==
  /\ q.at = "nothing" /\ command.type # "QUIT"
  /\ CommandEnds(line) /\ status_code' \notin White
  /\ command.type \in UserKinds => got = q.lens
Leaves(line, q) ==
  /\ q.at = "nothing" /\ command.type = "QUIT"
  /\ Disconnected(line) /\ status_code' = QUIT_OK

LEMMA Updated ==
  ASSUME NEW c \in Command, NEW s \in {"START", "STATUS", "DATA", "FINISH"},
         NEW b \in BOOLEAN
  PROVE  /\ \A d \in {[c EXCEPT !.state = s], [c EXCEPT !.state = s, !.buffer = b]} :
               /\ d \in Command /\ d.type = c.type /\ d.id = c.id
               /\ d.state = s /\ d.data = c.data
         /\ LET d == [c EXCEPT !.state = s, !.data = TRUE]
            IN  /\ d \in Command /\ d.type = c.type /\ d.id = c.id
                /\ d.state = s /\ d.data = TRUE
<1>1. /\ [c EXCEPT !.state = s] \in Command
      /\ [c EXCEPT !.state = s, !.data = TRUE] \in Command
      /\ [c EXCEPT !.state = s, !.buffer = b] \in Command
  BY CommandUpdated
<1>2. c = [type |-> c.type, id |-> c.id, state |-> c.state, data |-> c.data,
           buffer |-> c.buffer]
  BY DEF Command
<1> QED BY <1>1, <1>2 DEF Command

LEMMA Buffered ==
  ASSUME NEW c \in Command, NEW b \in BOOLEAN
  PROVE  LET d == [c EXCEPT !.buffer = b]
         IN  /\ d \in Command /\ d.type = c.type /\ d.id = c.id
             /\ d.state = c.state /\ d.data = c.data
BY DEF Command

LEMMA CommandKinds ==
  ASSUME TypeOK, ~Idle
  PROVE  /\ command \in Command
         /\ command.type \in UserKinds \cup OwnKinds
         /\ command.state \in {"START", "STATUS", "DATA", "FINISH"}
BY DEF TypeOK, Idle, Command

(* The branch taken by a line, in the terms of the session.                *)
LEMMA FirstLineRead ==
  ASSUME TypeOK, NEW line \in Line, NEW p, NEW q, ~Idle, Histories,
         ReadsOwn(p) \/ ReadsFirst(p), Answers(command.type, p, line, q),
         IoLine(line), Received(line)
  PROVE  Continues(line, q) \/ Completes(line, q) \/ Leaves(line, q)
<1>1. PICK c \in FirstLines(command.type) :
         line = Status(c) /\ q = At(Follows(command.type, c), <<>>)
  BY DEF Answers
<1>2. q.at = Follows(command.type, c) /\ q.lens = <<>>
  BY <1>1 DEF At
<1>3. command \in Command /\ command.type \in UserKinds \cup OwnKinds
      /\ status_code \notin White
  BY CommandKinds DEF ReadsOwn, ReadsFirst
<1>4. command.type \in OwnKinds => command.type \notin UserKinds
  BY DEF OwnKinds, UserKinds
<1>5. line.code = c /\ NewStatus(line) = c
  BY <1>1, <1>3, StatusRead DEF Status
<1>6. CASE command.type = "CLIENT"
  <2>1. c = OK /\ q.at = "nothing"
    BY <1>1, <1>2, <1>6 DEF FirstLines, Follows, OwnKinds
  <2>2. Finishes(OK) /\ command.type \in OwnKinds
    BY <1>6, CodesDiffer DEF Finishes, OwnKinds
  <2>3. CommandEnds(line) /\ status_code' = OK
    BY <1>5, <2>1, <2>2, LineJudged
  <2> QED BY <1>4, <1>6, <2>1, <2>2, <2>3, CodesDiffer DEF Completes
<1>7. CASE command.type = "QUIT"
  <2>1. c = QUIT_OK /\ q.at = "nothing"
    BY <1>1, <1>2, <1>7 DEF FirstLines, Follows, OwnKinds
  <2>2. Disconnected(line) /\ status_code' = QUIT_OK
    BY <1>5, <2>1, LineJudged
  <2> QED BY <1>7, <2>1, <2>2 DEF Leaves
<1>8. CASE command.type \in UserKinds
  <2>1. /\ command.state = "START" /\ got = <<>> /\ text = 0
        /\ command.type \notin OwnKinds /\ command.type # "QUIT"
    BY <1>4, <1>8 DEF ReadsOwn, ReadsFirst, UserKinds
  <2>2. c \in {OpenCode(command.type)} \cup Refusals(command.type)
    BY <1>1, <1>8 DEF FirstLines, UserKinds
  <2>3. CASE c = OpenCode(command.type)
    <3>1. c # QUIT_OK /\ ~Finishes(c) /\ Opens(c)
      BY <1>8, <2>1, <2>3, CodesDiffer DEF Finishes, Opens
    <3>2. ReplyOpens(line) /\ Reply(line) /\ status_code' = c
      BY <1>5, <3>1, LineJudged
    <3>3. CASE command.type = "DEFINE"
      <4>1. /\ command' \in Command /\ command'.type = "DEFINE"
            /\ command'.id = command.id /\ command'.state = "STATUS"
            /\ command'.data = TRUE
        BY <1>3, <3>2, <3>3, Updated DEF ReplyOpens
      <4>2. got' = got /\ text' = text
        BY <2>1, <3>2, <4>1 DEF Received, ReplyOpens
      <4>3. c = N_DEFINITIONS /\ q = At("definitions", <<>>)
        BY <1>1, <2>1, <2>3, <3>3 DEF OpenCode, Follows
      <4>4. ReadsDefinitions(q)'
        BY <2>1, <3>2, <4>1, <4>2, <4>3 DEF ReadsDefinitions
      <4>5. q.at # "nothing"
        BY <4>3 DEF At
      <4> QED BY <3>2, <3>3, <4>1, <4>4, <4>5 DEF Continues, Reads, ReplyOpens
    <3>4. CASE command.type # "DEFINE"
      <4>1. /\ command' \in Command /\ command'.type = command.type
            /\ command'.id = command.id /\ command'.state = "DATA"
        BY <1>3, <3>2, <3>4, Updated DEF ReplyOpens
      <4>2. got' = got /\ text' = text
        BY <2>1, <3>2, <4>1 DEF Received, ReplyOpens
      <4>3. q = At(ListPart(command.type), <<>>) /\ command.type \in ListKinds
        BY <1>1, <1>8, <2>1, <2>3, <3>4 DEF Follows, ListPart, ListKinds, UserKinds
      <4>4. IF command.type = "MATCH" THEN c = N_MATCHES ELSE c \notin White
        BY <1>8, <2>3, <3>4
           DEF OpenCode, UserKinds, White, N_MATCHES, N_DEFINITIONS, WORD_DB_NAME,
               N_DATABASES, N_STRATEGIES
      <4>5. ReadsList(q)'
        BY <2>1, <3>2, <4>1, <4>2, <4>3, <4>4 DEF ReadsList
      <4>6. q.at # "nothing"
        BY <4>3 DEF At, ListPart
      <4> QED BY <3>2, <4>1, <4>5, <4>6 DEF Continues, Reads, ReplyOpens
    <3> QED BY <3>3, <3>4
  <2>4. CASE c \in Refusals(command.type)
    <3>1. c \in ErrorCodes /\ c # OpenCode(command.type)
      BY <1>8, <2>4, CodesDiffer
    <3>2. Finishes(c) /\ c \notin White
      BY <3>1, CodesDiffer DEF Finishes
    <3>3. CommandEnds(line) /\ status_code' = c
      BY <1>5, <3>2, LineJudged
    <3>4. q.at = "nothing"
      BY <1>2, <3>1 DEF Follows
    <3> QED BY <1>2, <2>1, <3>2, <3>3, <3>4 DEF Completes
  <2> QED BY <2>2, <2>3, <2>4
<1> QED BY <1>3, <1>6, <1>7, <1>8 DEF OwnKinds

(* A line in the middle of a list.                                         *)
LEMMA ListLineRead ==
  ASSUME TypeOK, NEW line \in Line, NEW p, NEW q, ~Idle, Histories,
         ReadsList(p), Lists(p, line, q) \/ Closes(p, line, q),
         IoLine(line), Received(line)
  PROVE  Continues(line, q)
<1>1. /\ command \in Command /\ command.type \in ListKinds
      /\ command.type \in UserKinds /\ command.type \notin OwnKinds
      /\ command.type # "DEFINE" /\ command.state = "DATA" /\ text = 0
      /\ p = At(ListPart(command.type), got)
  BY CommandKinds DEF ReadsList, ListKinds, UserKinds, OwnKinds
<1>2. p.at = ListPart(command.type) /\ p.lens = got
  BY <1>1 DEF At
<1>3. CASE Lists(p, line, q)
  <2>1. PICK c \in MayOpen(p) : line = TextLine(c)
    BY <1>3 DEF Lists
  <2>2. q = At(ListPart(command.type), Append(got, 0))
    BY <1>2, <1>3 DEF Lists
  <2>3. line.code = c /\ ~line.dot
    BY <2>1 DEF TextLine
  <2>4. NewStatus(line) \notin ReplyCodes
    <3>1. CASE got # <<>>
      <4>1. c \in RestCodes /\ status_code \notin White
        BY <1>2, <2>1, <3>1 DEF MayOpen, ReadsList
      <4>2. NewStatus(line) = c
        BY <2>3, <4>1, StatusRead
      <4> QED BY <4>1, <4>2, SessionAssumption
    <3>2. CASE got = <<>> /\ command.type = "MATCH"
      <4>1. c \in FirstCodes /\ status_code = N_MATCHES
        BY <1>2, <2>1, <3>2 DEF MayOpen, ReadsList, ListPart
      <4>2. NewStatus(line) = INVALID
        BY <2>3, <4>1, StatusRead, SessionAssumption
      <4> QED BY <4>2, CodesDiffer
    <3>3. CASE got = <<>> /\ command.type # "MATCH"
      <4>1. c = INVALID /\ status_code \notin White
        BY <1>2, <2>1, <3>3 DEF MayOpen, ReadsList, ListPart
      <4>2. NewStatus(line) = INVALID
        BY <2>3, <4>1, StatusRead
      <4> QED BY <4>2, CodesDiffer
    <3> QED BY <3>1, <3>2, <3>3
  <2> DEFINE status == NewStatus(line)
  <2>5. status # QUIT_OK /\ ~Finishes(status) /\ ~Opens(status) /\ ~WordHead(status)
        /\ status \notin White
    <3> HIDE DEF status
    <3> QED BY <1>1, <2>4, CodesDiffer DEF Finishes, Opens, WordHead, status
  <2> HIDE DEF status
  <2>6. IsText(line, status)
    BY <2>3, <2>5 DEF IsText
  <2>7. Text(line) /\ Reply(line) /\ status_code' = status
    BY <1>1, <2>5, <2>6, LineJudged DEF status
  <2>8. /\ command' \in Command /\ command'.type = command.type
        /\ command'.id = command.id /\ command'.state = "DATA"
    <3>1. PICK b \in BOOLEAN : b = (command.type = "DEFINE")
      OBVIOUS
    <3>2. command' = [command EXCEPT !.buffer = b] /\ command.state = "DATA"
      BY <2>7, <3>1 DEF Text
    <3> QED BY <1>1, <3>2, Buffered
  <2>9. got' = Append(got, 0) /\ text' = 0
    <3>1. signals' = FoundSignal(command.type)
      BY <2>7 DEF Text
    <3> QED BY <1>1, <2>8, <3>1, FoundDiffers DEF Received
  <2>10. Append(got, 0) # <<>>
    BY LastChanged DEF Histories
  <2>11. ReadsList(q)'
    BY <1>1, <2>2, <2>5, <2>7, <2>8, <2>9, <2>10 DEF ReadsList
  <2>12. q.at # "nothing"
    BY <2>2 DEF At, ListPart
  <2> QED BY <2>7, <2>8, <2>11, <2>12 DEF Continues, Reads, Text
<1>4. CASE Closes(p, line, q)
  <2>1. line.dot /\ q = At("closing", got)
    BY <1>2, <1>4 DEF Closes, Dot
  <2>2. NewStatus(line) = INVALID
    BY <2>1, StatusRead
  <2>3. INVALID # QUIT_OK /\ ~Finishes(INVALID) /\ INVALID \notin White
    BY <1>1, CodesDiffer DEF Finishes
  <2>4. ListEnds(line) /\ Reply(line) /\ status_code' = INVALID
    BY <1>1, <2>1, <2>2, <2>3, LineJudged
  <2>5. /\ command' \in Command /\ command'.type = command.type
        /\ command'.id = command.id /\ command'.state = "FINISH"
    BY <1>1, <2>4, Updated DEF ListEnds
  <2>6. got' = got /\ text' = 0
    BY <1>1, <2>4, <2>5 DEF ListEnds, Received
  <2>7. ReadsListEnd(q)'
    BY <1>1, <2>1, <2>3, <2>4, <2>5, <2>6 DEF ReadsListEnd
  <2>8. q.at # "nothing"
    BY <2>1 DEF At
  <2> QED BY <2>4, <2>5, <2>7, <2>8 DEF Continues, Reads, ListEnds
<1> QED BY <1>3, <1>4

(* The 250 that ends a reply.                                              *)
LEMMA LastLineRead ==
  ASSUME TypeOK, NEW line \in Line, NEW p, NEW q, ~Idle,
         ReadsListEnd(p) \/ ReadsDefinitions(p), Ends(p, line, q), IoLine(line)
  PROVE  Completes(line, q)
<1>1. p.lens = got /\ status_code \notin White
  BY PlaceOfPart DEF Ends, ReadsListEnd, ReadsDefinitions
<1>2. line.code = OK /\ q.at = "nothing" /\ q.lens = got
  BY <1>1 DEF Ends, Status, At
<1>3. NewStatus(line) = OK
  BY <1>1, <1>2, StatusRead
<1>4. Finishes(OK) /\ OK \notin White
  BY CodesDiffer DEF Finishes
<1>5. CommandEnds(line) /\ status_code' = OK
  BY <1>3, <1>4, LineJudged
<1>6. command.type # "QUIT"
  BY DEF ReadsListEnd, ReadsDefinitions, ListKinds
<1> QED BY <1>2, <1>4, <1>5, <1>6 DEF Completes

(* A line in the middle of the reply to DEFINE.                            *)
LEMMA DefineLineRead ==
  ASSUME TypeOK, NEW line \in Line, NEW p, NEW q, ~Idle, Histories,
         \/ ReadsDefinitions(p) /\ Defines(p, line, q)
         \/ ReadsDefinition(p) /\ (Writes(p, line, q) \/ EndsOne(p, line, q)),
         IoLine(line), Received(line)
  PROVE  Continues(line, q)
<1>1. /\ command \in Command /\ command.type = "DEFINE" /\ command.data
      /\ command.type \in UserKinds /\ command.type \notin OwnKinds
      /\ OpenCode(command.type) = N_DEFINITIONS
  BY CommandKinds DEF ReadsDefinitions, ReadsDefinition, UserKinds, OwnKinds, OpenCode
<1>2. CASE ReadsDefinitions(p) /\ Defines(p, line, q)
  <2>1. line.code = WORD_DB_NAME /\ q = At("definition", Append(got, 0))
    BY <1>2, PlaceOfPart DEF Defines, Status
  <2>2. command.state = "STATUS" /\ text = 0
        /\ (status_code = N_DEFINITIONS \/ status_code \notin White)
    BY <1>2 DEF ReadsDefinitions
  <2>3. NewStatus(line) = WORD_DB_NAME
    BY <2>1, <2>2, StatusRead
  <2>4. WORD_DB_NAME # QUIT_OK /\ ~Finishes(WORD_DB_NAME) /\ WordHead(WORD_DB_NAME)
    BY <1>1, <2>2, CodesDiffer DEF Finishes, WordHead, White
  <2>5. DefinitionOpens(line) /\ Reply(line) /\ status_code' = WORD_DB_NAME
    BY <1>1, <2>3, <2>4, LineJudged
  <2>6. /\ command' \in Command /\ command'.type = command.type
        /\ command'.id = command.id /\ command'.state = "DATA"
        /\ command'.data = command.data
    BY <1>1, <2>5, Updated DEF DefinitionOpens
  <2>7. got' = got /\ text' = 0
    BY <2>2, <2>5, <2>6 DEF DefinitionOpens, Received
  <2>8. ReadsDefinition(q)'
    BY <1>1, <2>1, <2>5, <2>6, <2>7 DEF ReadsDefinition
  <2>9. q.at # "nothing"
    BY <2>1 DEF At
  <2> QED BY <2>5, <2>6, <2>8, <2>9 DEF Continues, Reads, DefinitionOpens
<1>3. ASSUME ReadsDefinition(p)
      PROVE  /\ command.state = "DATA" /\ p.lens = Append(got, text)
             /\ IF text = 0 THEN status_code = WORD_DB_NAME
                            ELSE status_code \notin White
  BY <1>3, PlaceOfPart DEF ReadsDefinition
<1>4. CASE ReadsDefinition(p) /\ Writes(p, line, q)
  <2> DEFINE lens == p.lens
             n == Len(lens)
  <2>1. lens = Append(got, text)
    BY <1>3, <1>4
  <2>2. lens[n] = text /\ [lens EXCEPT ![n] = @ + 1] = Append(got, text + 1)
    BY <2>1, LastChanged DEF Histories
  <2>3. PICK c \in IF lens[n] = 0 THEN FirstCodes ELSE RestCodes : line = TextLine(c)
    BY <1>4 DEF Writes
  <2>4. q = At("definition", Append(got, text + 1))
    BY <1>4, <2>2 DEF Writes
  <2>5. line.code = c /\ ~line.dot
    BY <2>3 DEF TextLine
  <2> HIDE DEF lens, n
  <2>6. NewStatus(line) \notin ReplyCodes
    <3>1. CASE text = 0
      <4>1. c \in FirstCodes /\ status_code = WORD_DB_NAME
        BY <1>3, <1>4, <2>2, <2>3, <3>1
      <4>2. NewStatus(line) = INVALID
        BY <2>5, <4>1, StatusRead, SessionAssumption
      <4> QED BY <4>2, CodesDiffer
    <3>2. CASE text # 0
      <4>1. c \in RestCodes /\ status_code \notin White
        BY <1>3, <1>4, <2>2, <2>3, <3>2
      <4>2. NewStatus(line) = c
        BY <2>5, <4>1, StatusRead
      <4> QED BY <4>1, <4>2, SessionAssumption
    <3> QED BY <3>1, <3>2
  <2> DEFINE status == NewStatus(line)
  <2>7. status # QUIT_OK /\ ~Finishes(status) /\ ~Opens(status) /\ ~WordHead(status)
        /\ status \notin White
    <3>1. command.state # "FINISH" /\ WORD_DB_NAME \in White
      BY <1>3, <1>4 DEF White
    <3> HIDE DEF status
    <3> QED BY <1>1, <2>6, <3>1, CodesDiffer DEF Finishes, Opens, WordHead, status
  <2> HIDE DEF status
  <2>8. IsText(line, status)
    BY <2>5, <2>7 DEF IsText
  <2>9. Text(line) /\ Reply(line) /\ status_code' = status
    BY <1>3, <1>4, <2>7, <2>8, LineJudged DEF status
  <2>10. /\ command' \in Command /\ command'.type = command.type
         /\ command'.id = command.id /\ command'.state = "DATA"
         /\ command'.data = command.data
    <3>1. PICK b \in BOOLEAN : b = (command.type = "DEFINE")
      OBVIOUS
    <3>2. command' = [command EXCEPT !.buffer = b] /\ command.state = "DATA"
      BY <2>9, <3>1 DEF Text
    <3> QED BY <1>1, <3>2, Buffered
  <2>11. got' = got /\ text' = text + 1
    <3>1. signals' = <<>>
      BY <1>1, <2>9, FoundDiffers DEF Text
    <3> QED BY <1>1, <1>3, <1>4, <2>8, <2>9, <2>10, <3>1 DEF Received
  <2>12. ReadsDefinition(q)'
    <3>1. text + 1 # 0
      BY DEF Histories
    <3> QED BY <1>1, <2>4, <2>7, <2>9, <2>10, <2>11, <3>1 DEF ReadsDefinition
  <2>13. q.at # "nothing"
    BY <2>4 DEF At
  <2> QED BY <2>9, <2>10, <2>12, <2>13 DEF Continues, Reads, Text
<1>5. CASE ReadsDefinition(p) /\ EndsOne(p, line, q)
  <2>1. line.dot /\ q = At("definitions", Append(got, text))
    BY <1>3, <1>5 DEF EndsOne, Dot
  <2>2. NewStatus(line) = INVALID
    BY <2>1, StatusRead
  <2>3. INVALID # QUIT_OK /\ ~Finishes(INVALID) /\ INVALID \notin White
    BY <1>3, <1>5, CodesDiffer DEF Finishes
  <2>4. DefinitionEnds(line) /\ Reply(line) /\ status_code' = INVALID
    BY <1>1, <1>3, <1>5, <2>1, <2>2, <2>3, LineJudged
  <2>5. /\ command' \in Command /\ command'.type = command.type
        /\ command'.id = command.id /\ command'.state = "STATUS"
        /\ command'.data = command.data
    BY <1>1, <2>4, Updated DEF DefinitionEnds
  <2>6. got' = Append(got, text) /\ text' = 0
    BY <2>4, <2>5 DEF DefinitionEnds, Received
  <2>7. Append(got, text) # <<>>
    BY LastChanged DEF Histories
  <2>8. ReadsDefinitions(q)'
    BY <1>1, <2>1, <2>3, <2>4, <2>5, <2>6, <2>7 DEF ReadsDefinitions
  <2>9. q.at # "nothing"
    BY <2>1 DEF At
  <2> QED BY <2>4, <2>5, <2>8, <2>9 DEF Continues, Reads, DefinitionEnds
<1> QED BY <1>2, <1>4, <1>5

(* Whatever the place, a line that follows it is understood.               *)
LEMMA LineUnderstood ==
  ASSUME TypeOK, NEW line \in Line, NEW p, NEW q, ~Idle, Histories,
         Reads(p), Goes(command.type, p, line, q), IoLine(line), Received(line)
  PROVE  Continues(line, q) \/ Completes(line, q) \/ Leaves(line, q)
<1>1. CASE ReadsOwn(p) \/ ReadsFirst(p)
  <2>1. Answers(command.type, p, line, q)
    BY <1>1, PlaceOfPart DEF Goes, Lists, Closes, Ends, Defines, Writes, EndsOne
  <2> QED BY <1>1, <2>1, FirstLineRead
<1>2. CASE ReadsList(p)
  <2>1. Lists(p, line, q) \/ Closes(p, line, q)
    BY <1>2, PlaceOfPart DEF Goes, Answers, Ends, Defines, Writes, EndsOne
  <2> QED BY <1>2, <2>1, ListLineRead
<1>3. CASE ReadsListEnd(p)
  <2>1. Ends(p, line, q)
    BY <1>3, PlaceOfPart DEF Goes, Answers, Lists, Closes, Defines, Writes, EndsOne
  <2> QED BY <1>3, <2>1, LastLineRead
<1>4. CASE ReadsDefinitions(p)
  <2>1. Ends(p, line, q) \/ Defines(p, line, q)
    BY <1>4, PlaceOfPart DEF Goes, Answers, Lists, Closes, Writes, EndsOne
  <2> QED BY <1>4, <2>1, LastLineRead, DefineLineRead
<1>5. CASE ReadsDefinition(p)
  <2>1. Writes(p, line, q) \/ EndsOne(p, line, q)
    BY <1>5, PlaceOfPart DEF Goes, Answers, Lists, Closes, Ends, Defines
  <2> QED BY <1>5, <2>1, DefineLineRead
<1> QED BY <1>1, <1>2, <1>3, <1>4, <1>5 DEF Reads

-----------------------------------------------------------------------------
(* The invariant of a session *)

(* What the server has said, when the lines not yet read lead to p.        *)
Says(p) ==
  /\ p.at = "nothing" => p.lens = announced
  /\ wire # <<>> => wire = <<command>> /\ p.at = "wait"
  /\ p.at = "wait" \/ peer # "up" => serving = "nothing"
  /\ peer = "up" /\ p.at # "wait" => serving = p.at /\ announced = p.lens

(* With a command in flight, the lines that are under way lead from the    *)
(* place where the client is to the place where the server is.             *)
Talking ==
  ~Idle => \E p, q \in Place : /\ Reads(p) /\ Says(q)
                               /\ Leads(command.type, p, inbox, q)

(* Without one, at most the greeting is.                                   *)
Unspoken ==
  Idle =>
    /\ wire = <<>> /\ serving = "nothing"
    /\ inbox # <<>> =>
         /\ peer \in {"up", "closed"}
         /\ \/ inbox = <<Status(CONNECT)>>
            \/ failed = 1 /\ \E c \in {SERVER_DOWN, SHUTDOWN} : inbox = <<Status(c)>>
    /\ failed = 0 => status_code \notin White

Fresh == \A i \in 1..Len(queue) : queue[i].state = "START" /\ queue[i].type \in UserKinds

(* No connection, no conversation.                                         *)
Shut ==
  /\ channel = "none" => Idle /\ peer = "none"
  /\ peer \in {"none", "accepting"} => Idle /\ inbox = <<>>

SessionTypeOK ==
  /\ peer \in {"none", "accepting", "up", "closed"} /\ serving \in Parts
  /\ inbox \in Seq(Line) /\ Histories /\ failed \in {0, 1}

Conversation == SessionTypeOK /\ Fresh /\ Shut /\ Unspoken /\ Talking

LEMMA ConversationStarts == SInit => Conversation
<1> SUFFICES ASSUME SInit PROVE Conversation
  OBVIOUS
<1>1. /\ peer = "none" /\ serving = "nothing" /\ inbox = <<>> /\ queue = <<>>
      /\ announced = <<>> /\ got = <<>> /\ text = 0 /\ failed = 0
      /\ command = NoCommand /\ wire = <<>> /\ status_code = INVALID
  BY DEF SInit, Init
<1>2. Idle
  BY <1>1 DEF Idle
<1>3. INVALID \notin White
  BY CodesDiffer
<1>4. SessionTypeOK
  BY <1>1, EmptySeq DEF SessionTypeOK, Histories, Parts
<1>5. Fresh
  BY <1>1, EmptySeq DEF Fresh
<1> QED BY <1>1, <1>2, <1>3, <1>4, <1>5 DEF Conversation, Shut, Unspoken, Talking

LEMMA ReadsKept ==
  ASSUME NEW p, Reads(p), UNCHANGED <<command, status_code, got, text>>
  PROVE  Reads(p)'
<1>1. /\ ReadsOwn(p) => ReadsOwn(p)'
      /\ ReadsFirst(p) => ReadsFirst(p)'
      /\ ReadsList(p) => ReadsList(p)'
      /\ ReadsListEnd(p) => ReadsListEnd(p)'
      /\ ReadsDefinitions(p) => ReadsDefinitions(p)'
      /\ ReadsDefinition(p) => ReadsDefinition(p)'
  BY DEF ReadsOwn, ReadsFirst, ReadsList, ReadsListEnd, ReadsDefinitions,
         ReadsDefinition
<1> QED BY <1>1 DEF Reads

LEMMA StillTalking ==
  ASSUME NEW p \in Place, NEW q \in Place, Reads(p),
         UNCHANGED <<command, status_code, got, text>>,
         Leads(command.type, p, inbox', q), Says(q)'
  PROVE  Talking'
<1>1. Reads(p)' /\ Leads(command'.type, p, inbox', q)
  BY ReadsKept
<1> QED BY <1>1 DEF Talking

(* A command that has just become the current one.                         *)
LEMMA CommandWaits ==
  ASSUME TypeOK, wire = <<>>, NEW c, NEW before, NEW emit, RunCommand(c, before, emit),
         Reads(At("wait", <<>>))', inbox' = <<>>, serving' = "nothing"
  PROVE  Talking'
<1> DEFINE p == At("wait", <<>>)
<1>1. p \in Place /\ p.at = "wait"
  BY EmptySeq DEF Place, At
<1> HIDE DEF p
<1>2. Leads(command'.type, p, inbox', p)
  BY <1>1, LeadsNowhere
<1>3. command' = c /\ wire' \in {wire, Append(wire, c)}
  BY DEF RunCommand
<1>4. wire' \in {<<>>, <<command'>>}
  BY <1>3
<1>5. Says(p)'
  BY <1>1, <1>4 DEF Says
<1>6. Reads(p)'
  BY DEF p
<1> QED BY <1>1, <1>2, <1>5, <1>6 DEF Talking

LEMMA LastRead ==
  ASSUME NEW p \in Place, NEW q \in Place, Leads(command.type, p, inbox, q), Says(q),
         inbox \in Seq(Line), inbox # <<>>
  PROVE  wire = <<>>
BY LeadsEnd DEF Says

LEMMA ReceivedTyped ==
  ASSUME SessionTypeOK, NEW line, Received(line)
  PROVE  got' \in Seq(Nat) /\ text' \in Nat
<1>1. got \in Seq(Nat) /\ text \in Nat /\ 0 \in Nat
  BY DEF SessionTypeOK, Histories
<1>2. Append(got, text) \in Seq(Nat) /\ Append(got, 0) \in Seq(Nat) /\ <<>> \in Seq(Nat)
      /\ text + 1 \in Nat
  BY <1>1
<1> QED BY <1>1, <1>2 DEF Received

LEMMA FreshTail ==
  ASSUME TypeOK, Fresh, queue' = IF queue = <<>> THEN <<>> ELSE Tail(queue)
  PROVE  Fresh'
<1>1. queue \in Seq(Command)
  BY DEF TypeOK
<1>2. CASE queue = <<>>
  BY <1>2 DEF Fresh
<1>3. CASE queue # <<>>
  <2>1. /\ Len(queue) \in Nat \ {0} /\ Len(queue') = Len(queue) - 1
        /\ \A i \in 1..Len(queue) - 1 : queue'[i] = queue[i + 1]
    BY <1>1, <1>3
  <2>2. \A i \in 1..Len(queue) - 1 : i + 1 \in 1..Len(queue)
    BY <2>1
  <2> QED BY <2>1, <2>2 DEF Fresh
<1> QED BY <1>2, <1>3

(* When the session closes, nothing is left of it.                         *)
LEMMA NothingLeft ==
  ASSUME TypeOK, SessionTypeOK, ForceDisconnect, NEW rest, ConnectionFollows(rest),
         announced' = announced, got' \in Seq(Nat), text' \in Nat, failed' \in {0, 1},
         failed' = 0 => status_code' \notin White
  PROVE  Conversation'
<1>1. /\ channel' = "none" /\ command' = NoCommand /\ queue' = <<>> /\ wire' = <<>>
      /\ peer' = "none" /\ serving' = "nothing" /\ inbox' = <<>>
  BY DEF ForceDisconnect, ConnectionFollows
<1>2. Idle'
  BY <1>1 DEF Idle
<1>3. Fresh'
  BY <1>1, EmptySeq DEF Fresh
<1>4. SessionTypeOK'
  BY <1>1, EmptySeq DEF SessionTypeOK, Histories, Parts
<1> QED BY <1>1, <1>2, <1>3, <1>4 DEF Conversation, Shut, Unspoken, Talking

LEMMA WatchedIsOpen ==
  ASSUME SourcesOwned, Dispatched
  PROVE  channel # "none"
BY DEF SourcesOwned, Dispatched

LEMMA NotesTyped ==
  ASSUME SessionTypeOK, NotesWrite
  PROVE  failed' \in {0, 1} /\ (failed' = 0 => failed = 0)
BY DEF SessionTypeOK, NotesWrite

(* The greeting.                                                           *)
LEMMA GreetingRead ==
  ASSUME TypeOK, SourcesOwned, Conversation, ClientReads, Idle
  PROVE  /\ Conversation'
         /\ life' = life /\ ended' = ended
         /\ lost' # lost => failed' # 0
<1> DEFINE line == Head(inbox)
<1>1. /\ inbox # <<>> /\ IoLine(line) /\ ConnectionFollows(Tail(inbox))
      /\ Received(line) /\ NotesWrite /\ announced' = announced
  BY DEF ClientReads
<1>2. /\ wire = <<>> /\ serving = "nothing" /\ peer \in {"up", "closed"}
      /\ failed = 0 => status_code \notin White
      /\ SessionTypeOK /\ Fresh /\ Shut
  BY <1>1 DEF Conversation, Unspoken
<1>3. PICK c \in {CONNECT, SERVER_DOWN, SHUTDOWN} : inbox = <<Status(c)>>
  BY <1>1 DEF Conversation, Unspoken
<1>4. line = Status(c) /\ Tail(inbox) = <<>>
  BY <1>3
<1>5. line \in Line /\ line.code = c
  BY <1>4, LinesSent, CodesDiffer
<1> HIDE DEF line
<1>6. got' \in Seq(Nat) /\ text' \in Nat /\ failed' \in {0, 1}
      /\ (failed' = 0 => failed = 0)
  BY <1>1, <1>2, ReceivedTyped, NotesTyped
<1>7. {CONNECT, SERVER_DOWN, SHUTDOWN} \cap White = {}
  BY DEF CONNECT, SERVER_DOWN, SHUTDOWN, White, N_DEFINITIONS, WORD_DB_NAME, N_MATCHES
<1>8. \/ Greeting(line) \/ ServerDown(line) \/ BadGreeting(line)
  BY <1>1 DEF IoLine, Disconnected, CommandEnds, ReplyOpens, DefinitionOpens, ListEnds,
              DefinitionEnds, Text, Aborts, Reply
<1>9. ReadLine(line) /\ status_code' = NewStatus(line)
  BY <1>8 DEF Greeting, ServerDown, BadGreeting, ReadLine
<1>10. channel # "none"
  BY <1>9, WatchedIsOpen DEF ReadLine
<1>11. ASSUME channel' = channel
       PROVE  inbox' = <<>> /\ peer' = peer /\ serving' = serving
  BY <1>1, <1>4, <1>10, <1>11 DEF ConnectionFollows
<1>12. CASE Greeting(line)
  <2>1. /\ channel' = channel /\ queue' = queue /\ status_code' = CONNECT
        /\ UNCHANGED <<life, ended, lost>>
        /\ RunCommand(NewCommand("CLIENT", 0), <<>>, FALSE)
    BY <1>12 DEF Greeting, TimerCancelled
  <2>2. command' = NewCommand("CLIENT", 0)
    BY <2>1 DEF RunCommand
  <2>3. command'.type = "CLIENT" /\ command'.state = "FINISH"
    BY <2>2 DEF NewCommand, OwnKinds
  <2>4. Reads(At("wait", <<>>))'
    <3>1. status_code' \notin White /\ command'.type \in OwnKinds
      BY <1>7, <2>1, <2>3 DEF OwnKinds
    <3>2. ReadsOwn(At("wait", <<>>))'
      BY <2>3, <3>1 DEF ReadsOwn
    <3> QED BY <3>2 DEF Reads
  <2>5. Talking'
    BY <1>2, <1>11, <2>1, <2>4, CommandWaits
  <2>6. ~Idle'
    BY <2>3 DEF Idle, NoCommand
  <2>7. SessionTypeOK' /\ Fresh' /\ Shut'
    BY <1>1, <1>2, <1>6, <1>10, <1>11, <2>1, EmptySeq DEF SessionTypeOK, Histories, Fresh, Shut
  <2> QED BY <2>1, <2>5, <2>6, <2>7 DEF Conversation, Unspoken
<1>13. CASE ServerDown(line)
  <2>1. /\ channel' = channel /\ queue' = queue /\ command' = command /\ wire' = wire
        /\ status_code' \in {SERVER_DOWN, SHUTDOWN} /\ UNCHANGED <<life, ended, lost>>
    BY <1>13 DEF ServerDown, TimerCancelled
  <2>2. Idle'
    BY <2>1 DEF Idle
  <2>3. SessionTypeOK' /\ Fresh' /\ Shut'
    BY <1>1, <1>2, <1>6, <1>10, <1>11, <2>1, <2>2, EmptySeq
       DEF SessionTypeOK, Histories, Fresh, Shut
  <2> QED BY <1>2, <1>7, <1>11, <2>1, <2>2, <2>3 DEF Conversation, Unspoken, Talking
<1>14. CASE BadGreeting(line)
  <2>1. ForceDisconnect /\ UNCHANGED <<life, ended>>
        /\ status_code' \notin {CONNECT, SERVER_DOWN, SHUTDOWN}
    BY <1>14 DEF BadGreeting
  <2>2. status_code \in White
    BY <1>3, <1>5, <1>9, <2>1, StatusRead
  <2>3. failed' # 0
    BY <1>2, <1>6, <2>2
  <2> QED BY <1>1, <1>2, <1>6, <2>1, <2>3, NothingLeft
<1> QED BY <1>8, <1>12, <1>13, <1>14

(* A line while a command is in flight: the client makes of it what the    *)
(* server meant.                                                           *)
LEMMA ReplyRead ==
  ASSUME TypeOK, SourcesOwned, Conversation, ClientReads, ~Idle
  PROVE  /\ Conversation'
         /\ life' = life
         /\ ended' # ended => got = announced
         /\ lost' # lost => command.type = "QUIT" /\ status_code' = QUIT_OK
<1> DEFINE line == Head(inbox)
           rest == Tail(inbox)
<1>1. /\ inbox # <<>> /\ IoLine(line) /\ ConnectionFollows(rest)
      /\ Received(line) /\ NotesWrite /\ announced' = announced
  BY DEF ClientReads
<1>2. SessionTypeOK /\ Fresh /\ Shut /\ inbox \in Seq(Line)
  BY DEF Conversation, SessionTypeOK
<1>3. PICK p \in Place, q \in Place : Reads(p) /\ Says(q) /\ Leads(command.type, p, inbox, q)
  BY DEF Conversation, Talking
<1>4. PICK r \in Place : Goes(command.type, p, line, r) /\ Leads(command.type, r, rest, q)
  BY <1>1, <1>2, <1>3, LeadsIn
<1>5. line \in Line /\ rest \in Seq(Line) /\ wire = <<>>
  BY <1>1, <1>2, <1>3, LastRead
<1> HIDE DEF line, rest
<1>6. got' \in Seq(Nat) /\ text' \in Nat /\ failed' \in {0, 1}
  BY <1>1, <1>2, ReceivedTyped, NotesTyped
<1>7. Continues(line, r) \/ Completes(line, r) \/ Leaves(line, r)
  <2>1. Histories
    BY <1>2 DEF SessionTypeOK
  <2> QED BY <1>1, <1>3, <1>4, <1>5, <2>1, LineUnderstood
<1>8. r.at = "nothing" => rest = <<>> /\ r = q
  BY <1>4, <1>5, LeadsEnd
<1>9. ASSUME Dispatched, channel' = channel
      PROVE  inbox' = rest /\ peer' = peer /\ serving' = serving /\ Shut'
  <2>1. channel # "none"
    BY <1>9, WatchedIsOpen
  <2>2. inbox' = rest /\ peer' = peer /\ serving' = serving
    BY <1>1, <1>9, <2>1 DEF ConnectionFollows
  <2> QED BY <1>2, <1>9, <2>1, <2>2 DEF Shut
<1>10. CASE Continues(line, r)
  <2>1. /\ Dispatched /\ channel' = channel /\ life' = life
        /\ UNCHANGED <<queue, wire, ended, lost>>
        /\ command' \in Command /\ command'.type = command.type /\ Reads(r)'
    BY <1>10 DEF Continues, Reply, ReadLine, TimerCancelled
  <2>2. inbox' = rest /\ peer' = peer /\ serving' = serving /\ Shut'
    BY <1>9, <2>1
  <2>3. Says(q)'
    BY <1>1, <1>3, <1>5, <2>1, <2>2 DEF Says
  <2>4. Leads(command'.type, r, inbox', q)
    BY <1>4, <2>1, <2>2
  <2>5. Talking'
    BY <2>1, <2>3, <2>4 DEF Talking
  <2>6. ~Idle'
    <3>1. NoCommand \notin Command
      BY DEF NoCommand, Command, UserKinds, OwnKinds
    <3> QED BY <2>1, <3>1 DEF Idle
  <2>7. SessionTypeOK' /\ Fresh'
    BY <1>1, <1>2, <1>5, <1>6, <2>1, <2>2 DEF SessionTypeOK, Histories, Fresh
  <2> QED BY <2>1, <2>2, <2>5, <2>6, <2>7 DEF Conversation, Unspoken
<1>11. CASE Completes(line, r)
  <2>1. /\ Dispatched /\ channel' = channel /\ life' = life /\ lost' = lost
        /\ ended' # ended => command.type \notin OwnKinds
        /\ queue' = IF queue = <<>> THEN <<>> ELSE Tail(queue)
        /\ status_code' \notin White
    BY <1>11 DEF Completes, CommandEnds, ReadLine, TimerCancelled
  <2>2. PICK before : RunCommand(NextCommand, before, TRUE)
    BY <1>11 DEF Completes, CommandEnds
  <2>3. inbox' = <<>> /\ peer' = peer /\ serving' = serving /\ Shut'
        /\ r.at = "nothing" /\ r = q
    BY <1>8, <1>9, <1>11, <2>1 DEF Completes
  <2>4. serving' = "nothing" /\ announced = r.lens
    BY <1>3, <2>3 DEF Says
  <2>5. command' = NextCommand
    BY <2>2 DEF RunCommand
  <2>6. Reads(At("wait", <<>>))'
    <3>1. CASE queue = <<>>
      <4>1. command'.type = "QUIT" /\ command'.state = "FINISH"
        BY <2>5, <3>1 DEF NextCommand, NewCommand, OwnKinds
      <4>2. ReadsOwn(At("wait", <<>>))'
        BY <2>1, <4>1 DEF ReadsOwn, OwnKinds
      <4> QED BY <4>2 DEF Reads
    <3>2. CASE queue # <<>>
      <4>1. 1 \in 1..Len(queue) /\ command' = queue[1]
        BY <2>5, <3>2 DEF NextCommand, TypeOK
      <4>2. command'.type \in UserKinds /\ command'.state = "START"
        BY <1>2, <4>1 DEF Fresh
      <4>3. got' = <<>> /\ text' = 0
        BY <1>1, <4>2 DEF Received
      <4>4. ReadsFirst(At("wait", <<>>))'
        BY <2>1, <4>2, <4>3 DEF ReadsFirst
      <4> QED BY <4>4 DEF Reads
    <3> QED BY <3>1, <3>2
  <2>7. Talking'
    BY <1>5, <2>2, <2>3, <2>4, <2>6, CommandWaits
  <2>8. ~Idle'
    <3>1. NextCommand \in Command
      BY OwnCommandTyped DEF NextCommand, TypeOK
    <3>2. NoCommand \notin Command
      BY DEF NoCommand, Command, UserKinds, OwnKinds
    <3> QED BY <2>5, <3>1, <3>2 DEF Idle
  <2>9. Fresh'
    BY <1>2, <2>1, FreshTail
  <2>10. SessionTypeOK'
    BY <1>1, <1>2, <1>6, <2>3, EmptySeq DEF SessionTypeOK, Histories
  <2>11. ended' # ended => got = announced
    <3>1. command.type \notin OwnKinds => command.type \in UserKinds
      BY CommandKinds
    <3> QED BY <1>11, <2>1, <2>4, <3>1 DEF Completes
  <2> QED BY <2>1, <2>3, <2>7, <2>8, <2>9, <2>10, <2>11 DEF Conversation, Unspoken
<1>12. CASE Leaves(line, r)
  <2>1. /\ ForceDisconnect /\ life' = life /\ ended' = ended
        /\ command.type = "QUIT" /\ status_code' = QUIT_OK
    BY <1>12 DEF Leaves, Disconnected
  <2>2. Conversation'
    BY <1>1, <1>2, <1>6, <2>1, CodesDiffer, NothingLeft
  <2> QED BY <2>1, <2>2
<1> QED BY <1>7, <1>10, <1>11, <1>12

(* Only the queue of lookups, the connection and the failures noted move.  *)
LEMMA NothingSaid ==
  ASSUME Conversation, Fresh', Shut', failed' \in {0, 1}, failed' = 0 => failed = 0,
         UNCHANGED <<command, status_code, wire, svars>>
           \/ UNCHANGED <<command, status_code, wire, peer, serving, inbox, announced,
                          got, text>>
  PROVE  Conversation'
<1>1. /\ UNCHANGED <<command, status_code, wire, peer, serving, inbox, announced>>
      /\ UNCHANGED <<command, status_code, got, text>> /\ UNCHANGED <<got, text>>
  BY DEF svars
<1>2. Idle' = Idle
  BY <1>1 DEF Idle
<1>3. SessionTypeOK'
  BY <1>1 DEF Conversation, SessionTypeOK, Histories
<1>4. Unspoken'
  <2>1. failed = 1 => failed' = 1
    BY DEF Conversation, SessionTypeOK
  <2> QED BY <1>1, <1>2, <2>1 DEF Conversation, Unspoken
<1>5. Talking'
  <2>1. CASE Idle
    BY <1>2, <2>1 DEF Talking
  <2>2. CASE ~Idle
    <3>1. PICK p \in Place, q \in Place :
            Reads(p) /\ Says(q) /\ Leads(command.type, p, inbox, q)
      BY <2>2 DEF Conversation, Talking
    <3>2. Says(q)' /\ Leads(command.type, p, inbox', q)
      BY <1>1, <3>1 DEF Says
    <3> QED BY <1>1, <3>1, <3>2, StillTalking
  <2> QED BY <2>1, <2>2
<1> QED BY <1>3, <1>4, <1>5 DEF Conversation

LEMMA LookupQueued ==
  ASSUME TypeOK, Conversation, NEW kind \in UserKinds, Announce, PushCommand(kind)
  PROVE  Fresh'
<1>1. issued + 1 \in 0..MaxRequests /\ queue \in Seq(Command)
  BY ConstantsTyped DEF Announce, TypeOK, Assumptions
<1> DEFINE c == NewCommand(kind, issued + 1)
<1>2. c \in Command /\ c.type = kind /\ c.state = "START"
  <2>1. kind \notin OwnKinds
    BY DEF UserKinds, OwnKinds
  <2> QED BY <1>1, <2>1, NewCommandTyped DEF NewCommand
<1>3. queue' = Append(queue, c)
  BY DEF PushCommand
<1> HIDE DEF c
<1>4. /\ Len(queue) \in Nat /\ Len(queue') = Len(queue) + 1
      /\ \A i \in 1..Len(queue) : queue'[i] = queue[i]
      /\ queue'[Len(queue) + 1] = c
  BY <1>1, <1>2, <1>3, AppendProperties
<1>5. ASSUME NEW i \in 1..Len(queue')
      PROVE  queue'[i].state = "START" /\ queue'[i].type \in UserKinds
  <2>1. CASE i = Len(queue) + 1
    BY <1>2, <1>4, <2>1
  <2>2. CASE i \in 1..Len(queue)
    BY <1>4, <2>2 DEF Conversation, Fresh
  <2> QED BY <1>4, <2>1, <2>2
<1> QED BY <1>5 DEF Fresh

LEMMA UserStep ==
  ASSUME TypeOK, SourcesOwned, Conversation,
         \/ \E kind \in UserKinds : UserQueues(kind) \/ UserConnects(kind)
         \/ \E fault \in ConnectFaults : UserRefused(fault)
  PROVE  Conversation'
<1>1. ASSUME NEW kind \in UserKinds, UserQueues(kind) PROVE Conversation'
  <2>1. /\ Fresh'
        /\ UNCHANGED <<command, status_code, wire, peer, serving, inbox, announced, got, text>>
        /\ channel' = channel
    BY <1>1, LookupQueued DEF UserQueues, RequestQueued, PushCommand, conn
  <2>2. failed' = failed
    BY <1>1, <2>1 DEF UserQueues, NotesWrite, WriteFailed
  <2>3. Shut' /\ failed' \in {0, 1}
    BY <2>1, <2>2 DEF Conversation, Shut, Idle, SessionTypeOK
  <2> QED BY <2>1, <2>2, <2>3, NothingSaid
<1>2. ASSUME NEW kind \in UserKinds, UserConnects(kind) PROVE Conversation'
  <2>1. /\ ~IsConnected /\ Announce /\ PushCommand(kind)
        /\ channel' = "open" /\ UNCHANGED <<command, status_code, wire>>
        /\ peer' = "accepting" /\ serving' = "nothing" /\ inbox' = <<>>
        /\ UNCHANGED <<announced, got, text, failed>>
    BY <1>2 DEF UserConnects, RequestConnecting, PushCommand
  <2>2. Idle /\ Idle'
    <3>1. channel = "none"
      BY <2>1 DEF SourcesOwned
    <3> QED BY <2>1, <3>1 DEF Conversation, Shut, Idle
  <2>3. Fresh'
    BY <2>1, LookupQueued
  <2>4. SessionTypeOK'
    BY <2>1, EmptySeq DEF Conversation, SessionTypeOK, Histories, Parts
  <2>5. Shut' /\ Unspoken' /\ Talking'
    BY <2>1, <2>2 DEF Conversation, Shut, Unspoken, Talking
  <2> QED BY <2>3, <2>4, <2>5 DEF Conversation
<1>3. ASSUME NEW fault \in ConnectFaults, UserRefused(fault) PROVE Conversation'
  <2>1. /\ ~IsConnected /\ failed' = 1
        /\ UNCHANGED <<command, queue, status_code, wire>>
        /\ UNCHANGED <<peer, serving, inbox, announced, got, text>>
    BY <1>3 DEF UserRefused, RequestRefused
  <2>2. channel = "none" /\ Idle' = Idle
    BY <2>1 DEF SourcesOwned, Idle
  <2>3. Fresh' /\ Shut'
    BY <2>1, <2>2 DEF Conversation, Fresh, Shut
  <2> QED BY <2>1, <2>3, NothingSaid
<1> QED BY <1>1, <1>2, <1>3

LEMMA PlaceMade ==
  ASSUME NEW part \in Parts \cup {"wait", "closing"}, NEW lens \in Seq(Nat)
  PROVE  \E r \in Place : r = At(part, lens) /\ r.at = part /\ r.lens = lens
<1>1. At(part, lens) \in Place /\ At(part, lens).at = part /\ At(part, lens).lens = lens
  BY DEF Place, At
<1> QED BY <1>1

(* What the server says next is understood from where it is.               *)
LEMMA ServerSpeaks ==
  ASSUME Conversation, ~Idle, peer = "up" \/ wire # <<>>
  PROVE  \E p, q \in Place :
           /\ Reads(p) /\ Says(q) /\ Leads(command.type, p, inbox, q)
           /\ wire # <<>> => q.at = "wait" /\ wire = <<command>>
           /\ serving # "nothing" =>
                wire = <<>> /\ serving = q.at /\ announced = q.lens
BY DEF Conversation, Talking, Says

LEMMA ReplyBegun ==
  ASSUME TypeOK, Conversation, ServerAnswers
  PROVE  Conversation'
<1>1. wire # <<>> /\ ~Idle
  BY DEF ServerAnswers, PeerReads, Conversation, Unspoken
<1>2. PICK p \in Place, q \in Place :
        /\ Reads(p) /\ Says(q) /\ Leads(command.type, p, inbox, q)
        /\ q.at = "wait" /\ wire = <<command>>
  BY <1>1, ServerSpeaks
<1>3. command \in Command /\ Head(wire) = command /\ Tail(wire) = <<>>
  BY <1>1, <1>2, CommandKinds
<1>4. PICK c \in FirstLines(command.type) :
        /\ inbox' = Append(inbox, Status(c))
        /\ serving' = Follows(command.type, c)
        /\ peer' = IF command.type = "QUIT" THEN "closed" ELSE "up"
  BY <1>3 DEF ServerAnswers
<1>5. /\ UNCHANGED <<command, status_code, got, text>> /\ wire' = <<>>
      /\ UNCHANGED <<queue, channel, failed>> /\ announced' = <<>>
  BY <1>3 DEF ServerAnswers, PeerReads, conn
<1>6. c \in Codes
  <2>1. command.type \in UserKinds \cup OwnKinds
    BY <1>3, CommandFields
  <2>2. CASE command.type = "CLIENT"
    BY <2>2, CodesDiffer DEF FirstLines, OwnKinds
  <2>3. CASE command.type = "QUIT"
    BY <2>3, CodesDiffer DEF FirstLines, OwnKinds
  <2>4. CASE command.type \in UserKinds
    <3>1. c \in {OpenCode(command.type)} \cup Refusals(command.type)
      BY <2>4 DEF FirstLines, UserKinds
    <3> QED BY <2>4, <3>1, CodesDiffer
  <2> QED BY <2>1, <2>2, <2>3, <2>4 DEF OwnKinds
<1>7. Follows(command.type, c) \in Parts
      /\ (command.type = "QUIT" => Follows(command.type, c) = "nothing")
  BY DEF Follows, Parts, OwnKinds
<1>8. PICK r \in Place :
        /\ r = At(Follows(command.type, c), <<>>) /\ r.lens = <<>>
        /\ r.at = Follows(command.type, c) /\ r.at # "wait"
  <2>1. "wait" \notin Parts /\ <<>> \in Seq(Nat)
    BY EmptySeq DEF Parts
  <2>2. PICK r \in Place : /\ r = At(Follows(command.type, c), <<>>)
                           /\ r.at = Follows(command.type, c) /\ r.lens = <<>>
    BY <1>7, <2>1, PlaceMade
  <2>3. r.at # "wait"
    BY <1>7, <2>1, <2>2
  <2> QED BY <2>2, <2>3
<1>9. Goes(command.type, q, Status(c), r)
  BY <1>2, <1>8 DEF Goes, Answers
<1>10. Leads(command.type, p, inbox', r)
  <2>1. inbox \in Seq(Line) /\ Status(c) \in Line
    BY <1>6, LinesSent DEF Conversation, SessionTypeOK
  <2> QED BY <1>2, <1>4, <1>8, <1>9, <2>1, LeadsOn
<1>11. Says(r)'
  BY <1>4, <1>5, <1>7, <1>8 DEF Says
<1>12. Talking'
  BY <1>2, <1>5, <1>8, <1>10, <1>11, StillTalking
<1>13. SessionTypeOK'
  <2>1. inbox' \in Seq(Line)
    <3>1. inbox \in Seq(Line) /\ Status(c) \in Line
      BY <1>6, LinesSent DEF Conversation, SessionTypeOK
    <3> QED BY <1>4, <3>1
  <2> QED BY <1>4, <1>5, <1>7, <2>1, EmptySeq DEF Conversation, SessionTypeOK, Histories
<1>14. Fresh' /\ Shut' /\ ~Idle'
  <2>1. peer' \notin {"none", "accepting"} /\ channel # "none" /\ ~Idle'
    BY <1>1, <1>4, <1>5 DEF Conversation, Shut, Idle
  <2> QED BY <1>5, <2>1 DEF Conversation, Fresh, Shut
<1> QED BY <1>12, <1>13, <1>14 DEF Conversation, Unspoken

(* The server sends one line or two and is then at r.                      *)
LEMMA ReplyFollows ==
  ASSUME TypeOK, Conversation, peer = "up", serving # "nothing",
         NEW p \in Place, NEW q \in Place, Reads(p), Says(q), wire = <<>>,
         NEW lines \in Seq(Line), Sends(lines), NEW r \in Place,
         r.at = serving', r.lens = announced', serving' \in Parts,
         Leads(command.type, p, inbox \o lines, r)
  PROVE  Conversation'
<1>1. /\ inbox' = inbox \o lines /\ peer' = peer
      /\ UNCHANGED <<command, status_code, got, text>>
      /\ UNCHANGED <<queue, channel, failed, wire>>
  BY DEF Sends, vars, conn
<1>2. ~Idle /\ ~Idle'
  BY <1>1 DEF Conversation, Unspoken, Idle
<1>3. Says(r)'
  <2>1. r.at # "wait" /\ r.at = serving'
    BY DEF Parts
  <2> QED BY <1>1, <2>1 DEF Says
<1>4. Talking'
  BY <1>1, <1>3, StillTalking
<1>5. SessionTypeOK'
  <2>1. inbox' \in Seq(Line)
    <3>1. inbox \in Seq(Line)
      BY DEF Conversation, SessionTypeOK
    <3> QED BY <1>1, <3>1, ConcatProperties
  <2>2. announced' \in Seq(Nat)
    BY DEF Place
  <2> QED BY <1>1, <2>1, <2>2 DEF Conversation, SessionTypeOK, Histories
<1>6. Fresh' /\ Shut'
  BY <1>1, <1>2 DEF Conversation, Fresh, Shut
<1> QED BY <1>2, <1>4, <1>5, <1>6 DEF Conversation, Unspoken

LEMMA EntryGrows ==
  ASSUME NEW s \in Seq(Nat), NEW n \in Nat
  PROVE  [s EXCEPT ![n] = @ + 1] \in Seq(Nat)
<1>1. CASE n \in 1..Len(s)
  <2>1. s[n] + 1 \in Nat
    BY <1>1
  <2> QED BY <1>1, <2>1
<1>2. CASE n \notin 1..Len(s)
  <2>1. [s EXCEPT ![n] = @ + 1] = s
    BY <1>2
  <2> QED BY <2>1
<1> QED BY <1>1, <1>2

LEMMA TwoLines ==
  ASSUME NEW s \in Seq(Line), NEW a \in Line, NEW b \in Line
  PROVE  <<a, b>> \in Seq(Line) /\ s \o <<a, b>> = Append(Append(s, a), b)
<1> DEFINE t == <<a, b>>
           l == s \o t
           r == Append(Append(s, a), b)
<1>1. t \in Seq(Line) /\ Len(t) = 2 /\ t[1] = a /\ t[2] = b
  OBVIOUS
<1> HIDE DEF t
<1>2. /\ l \in Seq(Line) /\ Len(s) \in Nat /\ Len(l) = Len(s) + 2
      /\ \A i \in 1..Len(s) + 2 : l[i] = IF i <= Len(s) THEN s[i] ELSE t[i - Len(s)]
  <2>1. /\ l \in Seq(Line) /\ Len(l) = Len(s) + Len(t)
        /\ \A i \in 1..Len(s) + Len(t) :
              l[i] = IF i <= Len(s) THEN s[i] ELSE t[i - Len(s)]
    BY <1>1, ConcatProperties
  <2> QED BY <1>1, <2>1
<1>3. /\ r \in Seq(Line) /\ Len(r) = Len(s) + 2
      /\ \A i \in 1..Len(s) : r[i] = s[i]
      /\ r[Len(s) + 1] = a /\ r[Len(s) + 2] = b
  BY AppendProperties
<1> HIDE DEF l, r
<1>4. ASSUME NEW i \in 1..Len(s) + 2 PROVE l[i] = r[i]
  <2>1. CASE i \in 1..Len(s)
    BY <1>2, <1>3, <2>1
  <2>2. CASE i = Len(s) + 1
    <3>1. i - Len(s) = 1 /\ ~(i <= Len(s))
      BY <1>2, <2>2
    <3> QED BY <1>1, <1>2, <1>3, <2>2, <3>1
  <2>3. CASE i = Len(s) + 2
    <3>1. i - Len(s) = 2 /\ ~(i <= Len(s))
      BY <1>2, <2>3
    <3> QED BY <1>1, <1>2, <1>3, <2>3, <3>1
  <2> QED BY <1>2, <2>1, <2>2, <2>3
<1>5. l = r
  BY <1>2, <1>3, <1>4, SeqEqual
<1> QED BY <1>1, <1>5 DEF l, r, t

LEMMA ReplyGoesOn ==
  ASSUME TypeOK, Conversation, ServerGoesOn
  PROVE  Conversation'
<1>1. serving # "nothing" /\ peer = "up" /\ ~Idle
  <2>1. serving # "nothing" /\ peer = "up"
    BY DEF ServerGoesOn, ServerLists, ServerEndsList, ServerDefines, ServerWrites,
           ServerEndsDefinition, ServerEndsDefinitions, Sends
  <2> QED BY <2>1 DEF Conversation, Unspoken
<1>2. PICK p \in Place, q \in Place :
        /\ Reads(p) /\ Says(q) /\ Leads(command.type, p, inbox, q)
        /\ wire = <<>> /\ serving = q.at /\ announced = q.lens
  BY <1>1, ServerSpeaks
<1>3. inbox \in Seq(Line) /\ announced \in Seq(Nat) /\ q.lens \in Seq(Nat)
  BY DEF Conversation, SessionTypeOK, Histories, Place
<1>4. /\ Append(announced, 0) \in Seq(Nat) /\ Dot \in Line
      /\ Status(OK) \in Line /\ Status(WORD_DB_NAME) \in Line
      /\ \A c \in FirstCodes \cup RestCodes \cup {INVALID} : TextLine(c) \in Line
  <2>1. {OK, WORD_DB_NAME, INVALID} \cup FirstCodes \cup RestCodes \subseteq Codes
    BY CodesDiffer, SessionAssumption DEF White
  <2>2. Append(announced, 0) \in Seq(Nat)
    BY <1>3
  <2> QED BY <2>1, <2>2, LinesSent
<1>5. ASSUME NEW line \in Line, Sends(<<line>>), serving' \in Parts,
             NEW lens \in Seq(Nat), announced' = lens,
             Goes(command.type, q, line, At(serving', lens))
      PROVE  Conversation'
  <2>1. PICK r \in Place : r = At(serving', lens) /\ r.at = serving' /\ r.lens = lens
    BY <1>5, PlaceMade
  <2>2. Leads(command.type, p, Append(inbox, line), r)
    BY <1>2, <1>3, <1>5, <2>1, LeadsOn
  <2>3. <<line>> \in Seq(Line) /\ inbox \o <<line>> = Append(inbox, line)
    BY <1>3, AppendIsConcat
  <2> QED BY <1>1, <1>2, <1>5, <2>1, <2>2, <2>3, ReplyFollows
<1>6. CASE ServerLists
  <2>1. PICK c \in IF announced # <<>> THEN RestCodes
                   ELSE IF serving = "matches" THEN FirstCodes ELSE {INVALID} :
          Sends(<<TextLine(c)>>)
    BY <1>6 DEF ServerLists
  <2>2. /\ serving \in {"list", "matches"} /\ serving' = serving
        /\ announced' = Append(announced, 0)
    BY <1>6 DEF ServerLists
  <2>3. c \in MayOpen(q) /\ TextLine(c) \in Line
    BY <1>2, <1>4, <2>1 DEF MayOpen
  <2>4. Goes(command.type, q, TextLine(c), At(serving', Append(announced, 0)))
    BY <1>2, <2>2, <2>3 DEF Goes, Lists
  <2> QED BY <1>4, <1>5, <2>1, <2>2, <2>3, <2>4 DEF Parts
<1>7. CASE ServerEndsList
  <2>1. /\ serving \in {"list", "matches"} /\ serving' = "nothing"
        /\ announced' = announced /\ Sends(<<Dot, Status(OK)>>)
    BY <1>7 DEF ServerEndsList
  <2>2. PICK r \in Place : /\ r = At("closing", q.lens)
                           /\ r.at = "closing" /\ r.lens = q.lens
    BY <1>3, PlaceMade
  <2>3. PICK s \in Place : /\ s = At("nothing", q.lens)
                           /\ s.at = "nothing" /\ s.lens = q.lens
    BY <1>3, PlaceMade DEF Parts
  <2>4. Goes(command.type, q, Dot, r) /\ Goes(command.type, r, Status(OK), s)
    BY <1>2, <2>1, <2>2, <2>3 DEF Goes, Closes, Ends
  <2> DEFINE more == Append(inbox, Dot)
  <2>5. more \in Seq(Line)
    BY <1>3, <1>4
  <2>6. Leads(command.type, p, more, r)
    BY <1>2, <1>3, <1>4, <2>2, <2>4, LeadsOn
  <2> HIDE DEF more
  <2>7. Leads(command.type, p, Append(more, Status(OK)), s)
    BY <1>4, <2>3, <2>4, <2>5, <2>6, LeadsOn
  <2>8. /\ <<Dot, Status(OK)>> \in Seq(Line)
        /\ inbox \o <<Dot, Status(OK)>> = Append(more, Status(OK))
    BY <1>3, <1>4, TwoLines DEF more
  <2>9. Leads(command.type, p, inbox \o <<Dot, Status(OK)>>, s)
    BY <2>7, <2>8
  <2>10. s.at = serving' /\ s.lens = announced' /\ serving' \in Parts
    BY <1>2, <2>1, <2>3 DEF Parts
  <2> QED BY <1>1, <1>2, <2>1, <2>8, <2>9, <2>10, ReplyFollows
<1>8. CASE ServerDefines
  <2>1. /\ serving = "definitions" /\ serving' = "definition"
        /\ announced' = Append(announced, 0) /\ Sends(<<Status(WORD_DB_NAME)>>)
    BY <1>8 DEF ServerDefines
  <2>2. Goes(command.type, q, Status(WORD_DB_NAME), At(serving', Append(announced, 0)))
    BY <1>2, <2>1 DEF Goes, Defines
  <2> QED BY <1>4, <1>5, <2>1, <2>2 DEF Parts
<1>9. CASE ServerWrites
  <2> DEFINE n == Len(announced)
  <2>1. PICK c \in IF announced[n] = 0 THEN FirstCodes ELSE RestCodes :
          Sends(<<TextLine(c)>>)
    BY <1>9 DEF ServerWrites
  <2>2. /\ serving = "definition" /\ serving' = serving
        /\ announced' = [announced EXCEPT ![n] = @ + 1] /\ announced[n] < MaxText
    BY <1>9 DEF ServerWrites
  <2>3. c \in FirstCodes \cup RestCodes /\ TextLine(c) \in Line
    BY <1>4, <2>1
  <2>4. announced' \in Seq(Nat)
    <3>1. n \in Nat
      BY <1>3
    <3> QED BY <1>3, <2>2, <3>1, EntryGrows
  <2>5. Goes(command.type, q, TextLine(c), At(serving', announced'))
    BY <1>2, <2>1, <2>2 DEF Goes, Writes
  <2> QED BY <1>5, <2>1, <2>2, <2>3, <2>4, <2>5 DEF Parts
<1>10. CASE ServerEndsDefinition
  <2>1. /\ serving = "definition" /\ serving' = "definitions"
        /\ announced' = announced /\ Sends(<<Dot>>)
    BY <1>10 DEF ServerEndsDefinition
  <2>2. Goes(command.type, q, Dot, At(serving', announced))
    BY <1>2, <2>1 DEF Goes, EndsOne
  <2> QED BY <1>3, <1>4, <1>5, <2>1, <2>2 DEF Parts
<1>11. CASE ServerEndsDefinitions
  <2>1. /\ serving = "definitions" /\ serving' = "nothing" /\ announced # <<>>
        /\ announced' = announced /\ Sends(<<Status(OK)>>)
    BY <1>11 DEF ServerEndsDefinitions
  <2>2. Goes(command.type, q, Status(OK), At(serving', announced))
    BY <1>2, <2>1 DEF Goes, Ends
  <2> QED BY <1>3, <1>4, <1>5, <2>1, <2>2 DEF Parts
<1> QED BY <1>6, <1>7, <1>8, <1>9, <1>10, <1>11 DEF ServerGoesOn

LEMMA ServerStep ==
  ASSUME TypeOK, Conversation,
         ServerGreets \/ ServerAnswers \/ ServerGoesOn \/ ServerCrashes
  PROVE  Conversation'
<1>1. CASE ServerGreets
  <2>1. /\ UNCHANGED <<command, queue, status_code, wire, channel>>
        /\ UNCHANGED <<serving, announced, got, text>>
        /\ peer = "accepting" /\ peer' \in {"up", "closed"}
        /\ \/ inbox' = <<Status(CONNECT)>> /\ failed' = failed
           \/ /\ failed' = 1
              /\ \E c \in {SERVER_DOWN, SHUTDOWN} : inbox' = <<Status(c)>>
    BY <1>1 DEF ServerGreets, vars, conn
  <2>2. Idle /\ Idle' /\ wire' = <<>> /\ serving' = "nothing"
        /\ (failed' = 0 => failed = 0)
    BY <2>1 DEF Conversation, Shut, Unspoken, Idle
  <2>3. /\ Status(CONNECT) \in Line /\ Status(SERVER_DOWN) \in Line
        /\ Status(SHUTDOWN) \in Line
    BY LinesSent, CodesDiffer
  <2>4. inbox' \in Seq(Line)
    BY <2>1, <2>3
  <2>5. SessionTypeOK'
    BY <2>1, <2>4 DEF Conversation, SessionTypeOK, Histories
  <2>6. Fresh' /\ Shut' /\ Unspoken' /\ Talking'
    BY <2>1, <2>2 DEF Conversation, Fresh, Shut, Unspoken, Talking
  <2> QED BY <2>5, <2>6 DEF Conversation
<1>2. CASE ServerCrashes
  <2>1. /\ UNCHANGED <<command, queue, status_code, wire, channel>>
        /\ UNCHANGED <<announced, got, text>>
        /\ peer \in {"accepting", "up"} /\ peer' = "closed"
        /\ serving' = "nothing" /\ failed' = 1
    BY <1>2 DEF ServerCrashes, vars, conn
  <2>2. PICK n \in 0..Len(inbox) : inbox' = SubSeq(inbox, 1, n)
    BY <1>2 DEF ServerCrashes
  <2>3. inbox \in Seq(Line) /\ inbox' \in Seq(Line) /\ Idle' = Idle
    BY <2>1, <2>2 DEF Conversation, SessionTypeOK, Idle
  <2>4. SessionTypeOK'
    BY <2>1, <2>3 DEF Conversation, SessionTypeOK, Histories, Parts
  <2>5. Fresh'
    BY <2>1 DEF Conversation, Fresh
  <2>6. Shut'
    <3>1. channel = "none" => FALSE
      <4>1. channel = "none" => peer = "none"
        BY DEF Conversation, Shut
      <4> QED BY <2>1, <4>1
    <3> QED BY <2>1, <3>1 DEF Shut
  <2>7. Unspoken'
    <3> SUFFICES ASSUME Idle PROVE Unspoken'
      BY <2>3 DEF Unspoken
    <3>1. inbox' = <<>> \/ inbox' = inbox
      <4>1. inbox = <<>> \/ Len(inbox) = 1
        BY DEF Conversation, Unspoken
      <4> QED BY <2>2, <2>3, <4>1
    <3> QED BY <2>1, <3>1 DEF Conversation, Unspoken
  <2>8. Talking'
    <3>1. CASE Idle
      BY <2>3, <3>1 DEF Talking
    <3>2. CASE ~Idle
      <4>1. PICK p \in Place, q \in Place :
              Reads(p) /\ Says(q) /\ Leads(command.type, p, inbox, q)
        BY <3>2 DEF Conversation, Talking
      <4>2. PICK r \in Place : /\ Leads(command.type, p, inbox', r)
                               /\ r = q \/ (inbox # <<>> /\ r.at # "nothing")
        BY <2>2, <2>3, <4>1, LeadsPart
      <4>3. Says(r)'
        <5>1. CASE r = q
          BY <2>1, <4>1, <5>1 DEF Says
        <5>2. CASE inbox # <<>> /\ r.at # "nothing"
          <6>1. wire = <<>>
            BY <2>3, <4>1, <5>2, LastRead
          <6> QED BY <2>1, <5>2, <6>1 DEF Says
        <5> QED BY <4>2, <5>1, <5>2
      <4> QED BY <2>1, <4>1, <4>2, <4>3, StillTalking
    <3> QED BY <3>1, <3>2
  <2> QED BY <2>4, <2>5, <2>6, <2>7, <2>8 DEF Conversation
<1> QED BY <1>1, <1>2, ReplyBegun, ReplyGoesOn

LEMMA ClientStep ==
  ASSUME TypeOK, SourcesOwned, Conversation,
         ClientReads \/ ClientFindsNoLine \/ ClientFails \/ ClientTimesOut
  PROVE  Conversation'
<1>1. CASE ClientReads
  BY <1>1, GreetingRead, ReplyRead
<1>2. CASE ClientFindsNoLine
  <2>1. /\ UNCHANGED <<command, status_code, wire, svars>>
        /\ UNCHANGED <<queue, channel, peer, inbox, failed>>
    BY <1>2 DEF ClientFindsNoLine, IoNoLine, TimerCancelled, svars
  <2>2. Fresh' /\ Shut' /\ failed' \in {0, 1}
    BY <2>1 DEF Conversation, Fresh, Shut, SessionTypeOK, Idle
  <2> QED BY <2>1, <2>2, NothingSaid
<1>3. ASSUME ForceDisconnect, ConnectionFollows(inbox), failed' = 1,
             UNCHANGED <<announced, got, text>>
      PROVE  Conversation'
  BY <1>3, NothingLeft DEF Conversation, SessionTypeOK, Histories
<1>4. CASE ClientFails
  <2>1. CASE IoError
    <3>1. /\ UNCHANGED <<command, status_code, wire, channel, queue>>
          /\ Dispatched /\ ConnectionFollows(inbox) /\ failed' = 1
          /\ UNCHANGED <<announced, got, text>>
      BY <1>4, <2>1 DEF ClientFails, IoError
    <3>2. UNCHANGED <<peer, serving, inbox>>
      BY <3>1, WatchedIsOpen DEF ConnectionFollows
    <3>3. Fresh' /\ Shut'
      BY <3>1, <3>2 DEF Conversation, Fresh, Shut, Idle
    <3> QED BY <3>1, <3>2, <3>3, NothingSaid
  <2>2. CASE IoReadError
    BY <1>3, <1>4, <2>2 DEF ClientFails, IoReadError
  <2> QED BY <1>4, <2>1, <2>2 DEF ClientFails
<1>5. CASE ClientTimesOut
  BY <1>3, <1>5 DEF ClientTimesOut, ConnectionTimeout
<1> QED BY <1>1, <1>2, <1>4, <1>5

(* Whatever happens in a session, the client does what it does against an  *)
(* arbitrary server.                                                       *)
LEMMA SessionRefines ==
  ASSUME TypeOK, Conversation, [SNext]_allvars
  PROVE  [Next]_vars
<1>1. ASSUME ClientReads PROVE Next
  <2>1. inbox # <<>> /\ IoLine(Head(inbox))
    BY <1>1 DEF ClientReads
  <2>2. Head(inbox) \in Line
    BY <2>1 DEF Conversation, SessionTypeOK
  <2>3. wire = <<>>
    <3>1. CASE Idle
      BY <3>1 DEF Conversation, Unspoken
    <3>2. CASE ~Idle
      BY <2>1, <3>2, LastRead DEF Conversation, SessionTypeOK, Talking
    <3> QED BY <3>1, <3>2
  <2>4. Len(wire) < MaxWire
    BY <2>3, EmptySeq, ConstantsTyped, SessionAssumption DEF Assumptions
  <2> QED BY <2>1, <2>2, <2>4 DEF Next
<1>2. ASSUME NEW kind \in UserKinds, UserQueues(kind) \/ UserConnects(kind)
      PROVE  Next
  BY <1>2 DEF UserQueues, UserConnects, Next, Request
<1>3. ASSUME NEW fault \in ConnectFaults, UserRefused(fault) PROVE Next
  BY <1>3 DEF UserRefused, Next
<1>4. ASSUME ServerAnswers PROVE Next
  BY <1>4 DEF ServerAnswers, Next
<1>5. ASSUME ServerGreets \/ ServerGoesOn \/ ServerCrashes PROVE UNCHANGED vars
  BY <1>5 DEF ServerGreets, ServerGoesOn, ServerLists, ServerEndsList, ServerDefines,
              ServerWrites, ServerEndsDefinition, ServerEndsDefinitions, Sends,
              ServerCrashes
<1>6. ASSUME ClientFindsNoLine \/ ClientFails \/ ClientTimesOut PROVE Next
  BY <1>6 DEF ClientFindsNoLine, ClientFails, ClientTimesOut, Next
<1>7. CASE UNCHANGED allvars
  BY <1>7 DEF allvars
<1> QED BY <1>1, <1>2, <1>3, <1>4, <1>5, <1>6, <1>7 DEF SNext

LEMMA ConversationStep ==
  ASSUME TypeOK, SourcesOwned, Conversation, [SNext]_allvars
  PROVE  Conversation'
<1>1. CASE UNCHANGED allvars
  <2>1. /\ UNCHANGED <<command, status_code, wire, svars>>
        /\ UNCHANGED <<queue, channel, peer, inbox, failed>>
    BY <1>1 DEF allvars, vars, conn, svars
  <2>2. Fresh' /\ Shut' /\ failed' \in {0, 1}
    BY <2>1 DEF Conversation, Fresh, Shut, SessionTypeOK, Idle
  <2> QED BY <2>1, <2>2, NothingSaid
<1> QED BY <1>1, UserStep, ServerStep, ClientStep DEF SNext

(* Against a server that follows the RFC, and whatever fails on the way,   *)
(* every step of the client is one it may take against any server: all     *)
(* that is proved above holds of its sessions too.                         *)
SessionInvariant == TypeOK /\ SourcesOwned /\ Conversation

THEOREM SessionIsASession == SSpec => Spec /\ []SessionInvariant
<1>1. SInit => Init /\ SessionInvariant
  <2>1. SInit => Init
    BY DEF SInit
  <2>2. Init => TypeOK /\ SourcesOwned
    BY InitTyped DEF Init, SourcesOwned
  <2> QED BY <2>1, <2>2, ConversationStarts DEF SessionInvariant
<1>2. SessionInvariant /\ [SNext]_allvars => SessionInvariant' /\ [Next]_vars
  BY SessionRefines, ConversationStep, TypingStep, SourcesOwnedStep
     DEF SessionInvariant
<1> QED BY <1>1, <1>2, PTL DEF SSpec, Spec

(* What a step of a session does to the histories and to the object.       *)
LEMMA SessionCounts ==
  ASSUME SessionInvariant, [SNext]_allvars
  PROVE  /\ life' = life
         /\ ended' # ended /\ issued' = issued => got = announced
         /\ lost' # lost /\ failed' = 0 =>
              command.type = "QUIT" /\ status_code' = QUIT_OK
<1> USE DEF SessionInvariant
<1>1. CASE ClientReads
  BY <1>1, GreetingRead, ReplyRead
<1>2. ASSUME NEW kind \in UserKinds, UserQueues(kind) \/ UserConnects(kind)
      PROVE  UNCHANGED <<life, ended, lost>>
  BY <1>2 DEF UserQueues, RequestQueued, UserConnects, RequestConnecting, PushCommand
<1>3. ASSUME NEW fault \in ConnectFaults, UserRefused(fault)
      PROVE  UNCHANGED <<life, lost>> /\ issued' # issued
  <2>1. issued' = issued + 1 /\ UNCHANGED <<life, lost>>
    BY <1>3 DEF UserRefused, RequestRefused, Announce
  <2>2. issued \in Nat
    BY ConstantsTyped DEF TypeOK, Assumptions
  <2> QED BY <2>1, <2>2
<1>4. ASSUME ServerGreets \/ ServerAnswers \/ ServerGoesOn \/ ServerCrashes
      PROVE  UNCHANGED <<life, ended, lost>>
  BY <1>4 DEF ServerGreets, ServerGoesOn, ServerLists, ServerEndsList, ServerDefines,
              ServerWrites, ServerEndsDefinition, ServerEndsDefinitions, Sends,
              ServerCrashes, ServerAnswers, PeerReads, vars, counts
<1>5. ASSUME ClientFindsNoLine
      PROVE  UNCHANGED <<life, ended, lost>>
  BY <1>5 DEF ClientFindsNoLine, IoNoLine, counts
<1>6. ASSUME ClientFails \/ ClientTimesOut
      PROVE  UNCHANGED <<life, ended>> /\ failed' = 1
  BY <1>6 DEF ClientFails, ClientTimesOut, IoError, IoReadError, ConnectionTimeout,
              counts
<1>7. CASE UNCHANGED allvars
  BY <1>7 DEF allvars, vars, counts
<1> QED BY <1>1, <1>2, <1>3, <1>4, <1>5, <1>6, <1>7 DEF SNext

(* A server that follows the RFC never makes the client fail an assertion, *)
(* however its replies are cut into lines and whenever the connection goes. *)
THEOREM NoAssertionFails == SSpec => [](life = "alive")
<1>1. SInit => life = "alive"
  BY DEF SInit, Init
<1>2. SessionInvariant /\ life = "alive" /\ [SNext]_allvars => (life = "alive")'
  BY SessionCounts
<1> QED BY <1>1, <1>2, SessionIsASession, PTL DEF SSpec

(* No step of a session fails an assertion, and a lookup that completes    *)
(* has emitted the reply as the server meant it: each entry, each with all *)
(* of its text, and nothing else.                                          *)
THEOREM RepliesArriveIntact == SSpec => RepliesIntact
<1>1. SessionInvariant /\ life = "alive" /\ [SNext]_allvars =>
        [/\ life' # "aborted"
         /\ ended' # ended /\ issued' = issued => got = announced]_allvars
  BY SessionCounts
<1> QED BY <1>1, SessionIsASession, NoAssertionFails, PTL DEF SSpec, RepliesIntact

(* As long as nothing fails only the session's own end drops lookups.      *)
THEOREM NothingElseLoses == SSpec => OnlyQuitLoses
<1>1. SessionInvariant /\ [SNext]_allvars =>
        [lost' # lost /\ failed' = 0 =>
           command.type = "QUIT" /\ status_code' = QUIT_OK]_allvars
  BY SessionCounts
<1> QED BY <1>1, SessionIsASession, PTL DEF SSpec, OnlyQuitLoses
=============================================================================
