----------------------------- MODULE DictWidgets -----------------------------
(***************************************************************************)
(* A window of the dictionary: the definition box, the list of similar     *)
(* words, the two choosers, and the contexts they look things up in.       *)
(*                                                                         *)
(* The window, the box and the choosers use one context; the speller is    *)
(* given one of its own when a lookup ends.  A context tells everybody who *)
(* is connected to it of every lookup, whoever asked for it, window first. *)
(* Each widget connects when it first asks, and holds its own idea of      *)
(* whether a search is in progress.  The handlers run one in another: the  *)
(* window's handler of a definition runs the main loop.  A context here is *)
(* what the widgets see of GdictClientContext: lookups in the order they   *)
(* were asked for, the first one being answered.  When a handler returns   *)
(* into a context that is gone, or a pointer to one is used, what happens  *)
(* is undefined, and the behaviours of the model end there.                *)
(***************************************************************************)
EXTENDS Integers, Sequences, FiniteSets, SequencesExt

CONSTANTS
  Ctxs,          (* the contexts, numbered: more than are alive at once    *)
  Words,         (* the words the user looks up                            *)
  None,          (* NULL, for a word and for a context                     *)
  Stale,         (* a pointer that was not reset when its context went     *)
  Choosers,      (* the database chooser and the strategy chooser          *)
  MaxFound,      (* bound: definitions, words or rows found by one lookup  *)
  MaxQueue,      (* bound: lookups a context holds                         *)
  MaxNested,     (* bound: main loops that run inside one another          *)
  MaxAsked       (* bound: lookups and sources the user asks for           *)

ASSUME NoneAssumption   == None \notin Words \cup Ctxs /\ Stale \notin Ctxs \cup {None}
ASSUME CtxsAssumption   ==
  Ctxs \subseteq Nat /\ IsFiniteSet(Ctxs) /\ Cardinality(Ctxs) >= 3 + MaxNested
ASSUME BoundsAssumption == MaxFound \in Nat \ {0} /\ MaxQueue \in Nat \ {0} /\ MaxNested \in Nat

VARIABLES
  queue,         (* the lookups of each context, the one answered first    *)
  win,           (* the window                                             *)
  box,           (* the definition box                                     *)
  spell,         (* the speller                                            *)
  choosers,      (* the choosers                                           *)
  dialog,        (* "Another search is in progress" waits for an answer:   *)
                 (* the number of main loops it runs in, and itself        *)
  nested,        (* the main loops run by the window, the innermost last   *)
  past,          (* history: which of the disturbances below have happened *)
  asked,         (* how often the user has asked for something             *)
  undefined      (* 1: a context that is gone was used                     *)

vars == <<queue, win, box, spell, choosers, dialog, nested, past, asked, undefined>>

(* The whole state as a record: the handlers below are composed, in the    *)
(* order they are called, as functions from states to states.              *)
Now == [queue |-> queue, win |-> win, box |-> box, spell |-> spell,
        choosers |-> choosers, dialog |-> dialog,
        nested |-> nested, past |-> past, asked |-> asked, undefined |-> undefined]

-----------------------------------------------------------------------------
(* Contexts.                                                               *)

(* Who holds a reference: a signal being emitted holds one too. *)
Held(s) ==
  ({s.win.ctx, s.box.ctx, s.spell.ctx} \cup {s.choosers[k].ctx : k \in Choosers}
     \cup {s.nested[i].ctx : i \in DOMAIN s.nested}) \cap Ctxs

(* gdict_source_get_context makes a new context each time. *)
NewContext(s) == CHOOSE c \in Ctxs \ Held(s) : \A d \in Ctxs \ Held(s) : c <= d

(* A context without references is finalized, and its lookups go with it. *)
Becomes(s) ==
  /\ queue' = [c \in Ctxs |-> IF c \in Held(s) THEN s.queue[c] ELSE <<>>]
  /\ win' = s.win /\ box' = s.box /\ spell' = s.spell /\ choosers' = s.choosers
  /\ dialog' = s.dialog /\ nested' = s.nested
  /\ past' = s.past /\ asked' = s.asked /\ undefined' = s.undefined

Lookup(kind, word) == [kind |-> kind, word |-> word, found |-> 0]

(* A lookup fails at once only if the context has to connect first. *)
MayAnswer(s, c, ok) == ok = 1 \/ s.queue[c] = <<>>

Pushed(s, c, l) == [s EXCEPT !.queue[c] = Append(@, l)]

Popped(s, c) == [s EXCEPT !.queue[c] = Tail(@)]

Disturbed(s, what, if) == IF if THEN [s EXCEPT !.past = @ \cup {what}] ELSE s

-----------------------------------------------------------------------------
(* The handlers of "lookup-start".                                         *)

(* gdict_window_lookup_start_cb. *)
WindowStart(s, c) ==
  IF s.win.ctx # c \/ s.win.word = None THEN s
  ELSE [s EXCEPT !.win = [@ EXCEPT !.busy = 1, !.max = -1, !.last = 0, !.current = 0]]

BoxStart(s, c) ==
  IF s.box.ctx = c /\ s.box.on = 1 THEN [s EXCEPT !.box.busy = 1] ELSE s

SpellerStart(s, c) ==
  IF s.spell.ctx = c /\ s.spell.on = 1 THEN [s EXCEPT !.spell.busy = 1] ELSE s

ChooserStart(s, c) ==
  [s EXCEPT !.choosers = [k \in Choosers |->
     IF @[k].ctx = c /\ @[k].on = 1 THEN [@[k] EXCEPT !.busy = 1] ELSE @[k]]]

Started(s, c) == ChooserStart(SpellerStart(BoxStart(WindowStart(s, c), c), c), c)

-----------------------------------------------------------------------------
(* The speller.                                                            *)

(* set_gdict_context.  Neither is_searching nor the list is reset. *)
SpellerSetContext(s, c) == [s EXCEPT !.spell.ctx = c, !.spell.on = 0]

SpellerClear(s) == [s EXCEPT !.spell.rows = {}]

(* gdict_speller_match, up to the request to the context.  The dialog of a *)
(* refused search has no parent and is not shown.                          *)
SpellerMayMatch(s, w) == w # None /\ s.spell.ctx # None /\ s.spell.busy = 0

SpellerAsks(s, w) ==
  LET t == SpellerClear(s) IN [t EXCEPT !.spell.on = 1, !.spell.word = w]

(* gdict_speller_match on a context nobody else uses. *)
SpellerMatch(s, w, ok) ==
  IF ~ SpellerMayMatch(s, w) THEN s
  ELSE LET t == SpellerAsks(s, w)
           c == t.spell.ctx
       IN  IF ok = 1 THEN Pushed(SpellerStart(t, c), c, Lookup("match", w))
           ELSE [t EXCEPT !.spell.word = None]

(* lookup_end_cb of gdict-speller.c *)
SpellerEnd(s, c) ==
  IF s.spell.ctx = c /\ s.spell.on = 1
  THEN [s EXCEPT !.spell.busy = 0, !.spell.word = None] ELSE s

(* error_cb of gdict-speller.c *)
SpellerError(s, c) ==
  IF s.spell.ctx = c /\ s.spell.on = 1
  THEN LET t == SpellerClear(s) IN [t EXCEPT !.spell.busy = 0, !.spell.word = None]
  ELSE s

-----------------------------------------------------------------------------
(* The handlers of "lookup-end" and "error" of the others.                 *)

(* Mutant: the last definition is taken to be the one counted last. *)
WindowEndOneMore(s, c, ok) ==
  LET count == s.win.current
      ended == [s EXCEPT !.win.max = count, !.win.busy = 0]
      other == SpellerSetContext(ended, NewContext(ended))
      match == IF count # 0 THEN SpellerMatch(other, other.win.word, ok) ELSE other
  IN  IF s.win.ctx # c THEN s
      ELSE IF count = 0 THEN [match EXCEPT !.win.word = None] ELSE match

(* gdict_window_lookup_end_cb. *)
WindowEnd(s, c, ok) ==
  LET count == s.win.current
      ended == [s EXCEPT !.win.max = count - 1, !.win.busy = 0]
      other == SpellerSetContext(ended, NewContext(ended))
      match == IF count # 0 THEN SpellerMatch(other, other.win.word, ok) ELSE other
  IN  IF s.win.ctx # c THEN s
      ELSE IF count = 0 THEN [match EXCEPT !.win.word = None] ELSE match

(* lookup_end_cb of gdict-defbox.c *)
BoxEnd(s, c) ==
  IF s.box.ctx = c /\ s.box.on = 1 THEN [s EXCEPT !.box.busy = 0] ELSE s

(* lookup_end_cb of the choosers. *)
ChooserEnd(s, c) ==
  [s EXCEPT !.choosers = [k \in Choosers |->
     IF @[k].ctx = c /\ @[k].on = 1 THEN [@[k] EXCEPT !.busy = 0] ELSE @[k]]]

Ended(s, c, ok) == ChooserEnd(SpellerEnd(BoxEnd(WindowEnd(s, c, ok), c), c), c)

(* gdict_window_error_cb.  On "no match" similar words are looked for. *)
WindowError(s, c, no_match, ok) ==
  LET shown == [s EXCEPT !.win.busy = 0]
      other == SpellerSetContext(shown, NewContext(shown))
      match == IF no_match THEN SpellerMatch(other, other.win.word, ok) ELSE shown
  IN  IF s.win.ctx # c THEN s
      ELSE [match EXCEPT !.win.word = None]

(* gdict_defbox_clear. *)
BoxClear(s) == [s EXCEPT !.box.defs = <<>>]

(* Mutant: after an error the box stays busy. *)
BoxErrorBusy(s, c) ==
  IF s.box.ctx = c /\ s.box.on = 1
  THEN LET t == BoxClear(s) IN [t EXCEPT !.box.word = None] ELSE s

(* error_cb of gdict-defbox.c *)
BoxError(s, c) ==
  IF s.box.ctx = c /\ s.box.on = 1
  THEN LET t == BoxClear(s) IN [t EXCEPT !.box.word = None, !.box.busy = 0] ELSE s

(* error_cb of the choosers. *)
ChooserError(s, c) ==
  [s EXCEPT !.choosers = [k \in Choosers |->
     IF @[k].ctx = c /\ @[k].on = 1 THEN [@[k] EXCEPT !.busy = 0] ELSE @[k]]]

Failed(s, c, no_match, ok) ==
  ChooserError(SpellerError(BoxError(WindowError(s, c, no_match, ok), c), c), c)

(* gdict_client_context_define_word and its like: "lookup-start", then the *)
(* connection; if that fails "lookup-end" and nothing in the queue.        *)
Request(s, c, l, ok, again) ==
  IF ok = 1 THEN Pushed(Started(s, c), c, l) ELSE Ended(Started(s, c), c, again)

-----------------------------------------------------------------------------
(* What the user does.                                                     *)

Input == dialog = 0 /\ undefined = 0

Asks(s) == asked < MaxAsked /\ Becomes([s EXCEPT !.asked = @ + 1])

Room(c) == Len(queue[c]) < MaxQueue

(* Mutant: the box looks up whether it is busy or not. *)
BoxLookupBusy(s, w, ok, again) ==
  IF s.box.ctx = None THEN s
  ELSE IF s.box.ctx = Stale THEN [s EXCEPT !.undefined = 1]
  ELSE LET t == BoxClear(s)
           asks == [t EXCEPT !.box.on = 1, !.box.word = w]
       IN  Request(asks, asks.box.ctx, Lookup("define", w), ok, again)

(* gdict_defbox_lookup. *)
BoxLookup(s, w, ok, again) ==
  IF s.box.ctx = None THEN s
  ELSE IF s.box.ctx = Stale THEN [s EXCEPT !.undefined = 1]
  ELSE IF s.box.busy = 1 THEN [s EXCEPT !.dialog = Len(s.nested) + 1]
  ELSE LET t == BoxClear(s)
           asks == [t EXCEPT !.box.on = 1, !.box.word = w]
       IN  Request(asks, asks.box.ctx, Lookup("define", w), ok, again)

(* gdict_window_set_word: the word changes whether or not the box agrees. *)
SetWord(s, w, ok, again) == BoxLookup([s EXCEPT !.win.word = w], w, ok, again)

(* lookup_word, from the entry, and gdict_window_drag_data_received_cb and *)
(* speller_word_activated_cb, which do not look at the context.            *)
LookupWord ==
  \E w \in Words, from \in {"entry", "drag", "speller"}, ok, again \in 0..1 :
    /\ Input
    /\ from = "entry" => win.ctx # None
    /\ from = "speller" => w \in spell.rows
    /\ box.ctx \in Ctxs => Room(box.ctx) /\ MayAnswer(Now, box.ctx, ok)
    /\ Asks(SetWord(Now, w, ok, again))

CloseDialog ==
  /\ dialog = Len(nested) + 1 /\ undefined = 0
  /\ Becomes([Now EXCEPT !.dialog = 0])

(* The speller's page comes up while the speller and the window use one    *)
(* context, which hears of the search.                                     *)
SharedMatch(s, w, ok, again) ==
  Disturbed(Request(SpellerAsks(s, w), s.spell.ctx, Lookup("match", w), ok, again),
            "shared", TRUE)

(* The speller's page comes up. *)
ViewSpeller(ok, again) ==
  /\ SpellerMayMatch(Now, win.word)
  /\ Room(spell.ctx) /\ MayAnswer(Now, spell.ctx, ok)
  /\ Asks(IF spell.ctx = win.ctx THEN SharedMatch(Now, win.word, ok, again)
             ELSE SpellerMatch(Now, win.word, ok))

(* gdict_database_chooser_refresh, gdict_strategy_chooser_refresh; the     *)
(* rows of the choosers are left out.                                      *)
ChooserRefresh(s, k, ok, again) ==
  LET c == s.choosers[k].ctx
      t == [s EXCEPT !.choosers[k].on = 1]
  IN  IF c = None \/ s.choosers[k].busy = 1 THEN s
      ELSE Disturbed(Request(t, c, Lookup(k, None), ok, again), "shared", TRUE)

(* The page of a chooser comes up, or its refresh button is pressed. *)
ViewChooser(k, ok, again) ==
  /\ choosers[k].ctx \in Ctxs =>
       Room(choosers[k].ctx) /\ MayAnswer(Now, choosers[k].ctx, ok)
  /\ Asks(ChooserRefresh(Now, k, ok, again))

(* sidebar_page_changed_cb. *)
PageChanged ==
  /\ Input
  /\ \E ok, again \in 0..1 :
       \/ ViewSpeller(ok, again)
       \/ \E k \in Choosers : ViewChooser(k, ok, again)

(* The clear button of the speller. *)
ClearSpeller == Input /\ spell.rows # {} /\ Becomes(SpellerClear(Now))

(* set_gdict_context of gdict-defbox.c.  Given NULL it keeps the pointer   *)
(* it has dropped its reference to, and drops it again the next time.      *)
BoxSetContext(s, c) ==
  [s EXCEPT !.undefined = IF s.box.ctx = Stale THEN 1 ELSE @,
            !.box.on = 0,
            !.box.ctx = IF c # None THEN c ELSE IF @ = None THEN None ELSE Stale]

(* set_gdict_context of the choosers. *)
ChooserSetContext(s, c) ==
  [s EXCEPT !.choosers = [k \in Choosers |->
     [@[k] EXCEPT !.ctx = c, !.on = 0]]]

(* gdict_window_set_context. *)
SetContext(s, c) == [ChooserSetContext(BoxSetContext(s, c), c) EXCEPT !.win.ctx = c]

Busy(s) == s.win.busy = 1 \/ s.box.busy = 1 \/ \E k \in Choosers : s.choosers[k].busy = 1

(* gdict_window_set_source_name: another source was chosen; there may be   *)
(* none left to make a context of.                                         *)
SetSourceName ==
  \E c \in {NewContext(Now), None} :
    /\ Input
    /\ Asks(SetContext(Disturbed(Now, "moved", Busy(Now)), c))

(* The four "Go" commands. *)
Count == IF box.defs = <<>> THEN -1 ELSE Len(box.defs)

Go(last, max) ==
  Becomes([Disturbed(Now, "hurried", win.max = -1)
             EXCEPT !.win.last = last, !.win.max = max])

GoNext ==
  LET max == IF win.max = -1 THEN Count - 1 ELSE win.max
  IN  /\ win.last < MaxFound
      /\ Go(IF win.last = max THEN win.last ELSE win.last + 1, max)

GoPrevious == win.last > -2 /\ win.last # 0 /\ Go(win.last - 1, win.max)

GoLast == Go(win.max, win.max)

GoFirst == Go(0, win.max)

GoDefinition ==
  /\ Input
  /\ GoFirst \/ GoPrevious \/ GoNext \/ GoLast

-----------------------------------------------------------------------------
(* What the contexts do.                                                   *)

(* A context is not dispatched again while it emits a signal. *)
Answers(c) ==
  /\ undefined = 0 /\ queue[c] # <<>>
  /\ \A i \in DOMAIN nested : nested[i].ctx # c

Found(s, c) == [s EXCEPT !.queue[c][1].found = @ + 1]

(* gdict_window_definition_cb up to the main loop; n is taken before it.   *)
(* If the window has gone to another context nobody hears of it.           *)
DefinitionFound(c) ==
  /\ Answers(c) /\ queue[c][1].kind = "define" /\ queue[c][1].found < MaxFound
  /\ IF win.ctx # c THEN Becomes(Found(Now, c))
     ELSE /\ Len(nested) < MaxNested
          /\ Becomes([Now EXCEPT !.nested =
                        Append(@, [ctx |-> c, n |-> win.current + 1])])

(* definition_found_cb of gdict-defbox.c *)
BoxFound(s, c) ==
  IF s.box.ctx = c /\ s.box.on = 1
  THEN [s EXCEPT !.box.defs = Append(@, s.queue[c][1].word)] ELSE s

(* The main loop has nothing left to do: the window's handler goes on, the *)
(* box hears of the definition, and the context reads on, if it is there.  *)
DefinitionShown ==
  /\ undefined = 0 /\ nested # <<>> /\ dialog <= Len(nested)
  /\ LET c == Last(nested).ctx
         s == [Now EXCEPT !.nested = Front(@), !.win.current = Last(nested).n]
     IN  Becomes(IF c \in Held(s) THEN Found(BoxFound(s, c), c)
                 ELSE [s EXCEPT !.undefined = 1])

(* match_found_cb, database_found_cb and strategy_found_cb. *)
SpellerFound(s, c) ==
  IF s.spell.ctx = c /\ s.spell.on = 1
  THEN [s EXCEPT !.spell.rows = @ \cup {s.queue[c][1].word}] ELSE s

RowFound(c) ==
  /\ Answers(c) /\ queue[c][1].kind # "define" /\ queue[c][1].found < MaxFound
  /\ LET kind == queue[c][1].kind
     IN  Becomes(Found(IF kind = "match" THEN SpellerFound(Now, c) ELSE Now, c))

(* "250 ok": the lookup ends. *)
LookupEnd(c) ==
  /\ Answers(c)
  /\ queue[c][1].kind = "define" => queue[c][1].found > 0
  /\ \E ok \in 0..1 : Becomes(Ended(Popped(Now, c), c, ok))

(* An error reply: "error" and then "lookup-end".  "No match" is one. *)
ErrorReply(c) ==
  /\ Answers(c) /\ queue[c][1].found = 0
  /\ \E no_match \in BOOLEAN, ok, again \in 0..1 :
       /\ no_match => queue[c][1].kind \in {"define", "match"}
       /\ Becomes(Ended(Popped(Failed(Now, c, no_match, ok), c), c, again))

(* The connection fails, or the server does not answer: "error", and the   *)
(* lookups are dropped.                                                    *)
Broken(c) ==
  /\ Answers(c)
  /\ Becomes([Failed(Now, c, FALSE, 0) EXCEPT !.queue[c] = <<>>])

(* The server says goodbye: the lookups are dropped, and nobody is told. *)
Dropped(c) ==
  /\ Answers(c)
  /\ Becomes([Disturbed(Now, "lost", TRUE) EXCEPT !.queue[c] = <<>>])

Undefined == undefined = 1 /\ UNCHANGED vars

-----------------------------------------------------------------------------
(* gdict_window_set_context in the constructor, and what it sets the       *)
(* widgets to; the speller starts on the window's context.                 *)

InitWindow(c) == [ctx |-> c, word |-> None, busy |-> 0, max |-> -1, last |-> 0, current |-> 0]
InitBox(c) == [ctx |-> c, on |-> 0, busy |-> 0, word |-> None, defs |-> <<>>]
InitSpeller(c) == [ctx |-> c, on |-> 0, busy |-> 0, word |-> None, rows |-> {}]
InitChooser(c) == [ctx |-> c, on |-> 0, busy |-> 0]

Init ==
  /\ queue = [c \in Ctxs |-> <<>>]
  /\ \E c \in Ctxs :
       /\ \A d \in Ctxs : c <= d
       /\ win = InitWindow(c) /\ box = InitBox(c) /\ spell = InitSpeller(c)
       /\ choosers = [k \in Choosers |-> InitChooser(c)]
  /\ dialog = 0 /\ nested = <<>> /\ past = {} /\ asked = 0 /\ undefined = 0

User ==
  LookupWord \/ CloseDialog \/ PageChanged \/ ClearSpeller
    \/ SetSourceName \/ GoDefinition

Context(c) ==
  DefinitionFound(c) \/ RowFound(c) \/ LookupEnd(c) \/ ErrorReply(c)
    \/ Broken(c) \/ Dropped(c)

Next == User \/ DefinitionShown \/ (\E c \in Ctxs : Context(c)) \/ Undefined

Spec == Init /\ [][Next]_vars

-----------------------------------------------------------------------------
(* A widget that shows a search in progress has one: a lookup of its       *)
(* context is still to be answered.  Otherwise it refuses every search to  *)
(* come, for ever.                                                         *)
BusyIsPending ==
  (undefined = 0 /\ past \cap {"moved", "lost"} = {}) =>
    /\ box.busy = 1 => queue[box.ctx] # <<>>
    /\ \A k \in Choosers : choosers[k].busy = 1 => queue[choosers[k].ctx] # <<>>

(* The definitions shown are those of the word looked up last, and as many *)
(* as have come, unless another widget used the same context.              *)
OneLookupShown ==
  (undefined = 0 /\ "shared" \notin past) =>
    \A i \in DOMAIN box.defs : box.defs[i] = box.word

(* After a lookup the window counts the definitions that are shown, and    *)
(* the one gone to last is one of them.                                    *)
GoesToDefinitions ==
  (undefined = 0 /\ past = {} /\ win.busy = 0 /\ win.max >= 0) =>
    win.max + 1 = Len(box.defs) /\ win.last \in 0..win.max

=============================================================================
