-------------------------- MODULE DictWidgetsProofs --------------------------
(***************************************************************************)
(* What a window of the dictionary shows is one lookup, the one it waits   *)
(* for.                                                                    *)
(*                                                                         *)
(* Handlers are functions from states to states, run one after another.    *)
(* The lemmas say what each call does to those who use the window's        *)
(* context; the speller is given a context that nobody else holds, so what *)
(* it does with it leaves them alone.                                      *)
(***************************************************************************)
EXTENDS DictWidgets, FiniteSetTheorems, WellFoundedInduction, TLAPS

-----------------------------------------------------------------------------
(* The inductive invariant.                                                *)

Kinds   == {"define", "match"} \cup Choosers
Lookups == [kind : Kinds, word : Words \cup {None}, found : Nat]

WindowT  == [ctx : Ctxs \cup {None}, word : Words \cup {None}, busy : 0..1,
             max : Int, last : Int, current : Nat]
BoxT     == [ctx : Ctxs \cup {None, Stale}, on : 0..1, busy : 0..1,
             word : Words \cup {None}, defs : Seq(Words \cup {None})]
SpellerT == [ctx : Ctxs \cup {None}, on : 0..1, busy : 0..1,
             word : Words \cup {None}, rows : SUBSET (Words \cup {None})]
ChooserT == [ctx : Ctxs \cup {None}, on : 0..1, busy : 0..1]
NestedT  == [ctx : Ctxs, n : Nat]

Fields == {"queue", "win", "box", "spell", "choosers", "dialog", "nested", "past", "asked", "undefined"}

(* The parts of the state have their types, and the window, the box and the *)
(* choosers are on one context or on none.                                  *)
IsState(s) ==
  /\ s = [f \in Fields |-> s[f]]
  /\ s.queue \in [Ctxs -> Seq(Lookups)]
  /\ s.win \in WindowT /\ s.box \in BoxT /\ s.spell \in SpellerT
  /\ s.choosers \in [Choosers -> ChooserT]
  /\ s.nested \in Seq(NestedT) /\ Len(s.nested) <= MaxNested
  /\ s.win.ctx = s.box.ctx \/ (s.win.ctx = None /\ s.box.ctx = Stale)
  /\ \A k \in Choosers : s.choosers[k].ctx = s.win.ctx

(* A definition is shown in the middle of its lookup.                       *)
ShowsInTurn(s) ==
  \A i \in DOMAIN s.nested :
    s.queue[s.nested[i].ctx] # <<>> /\ s.queue[s.nested[i].ctx][1].kind = "define"

(* What shows a search in progress is connected to a context that has one.  *)
Pends(s) ==
  /\ s.box.busy = 1 => s.box.ctx \in Ctxs /\ s.box.on = 1 /\ s.queue[s.box.ctx] # <<>>
  /\ \A k \in Choosers :
       s.choosers[k].busy = 1 =>
         /\ s.choosers[k].ctx \in Ctxs /\ s.choosers[k].on = 1
         /\ s.queue[s.choosers[k].ctx] # <<>>

(* The context of the box has one lookup at most, and it is the box's.      *)
OneOfTheBox(s) ==
  /\ s.box.ctx \in Ctxs /\ s.queue[s.box.ctx] # <<>> =>
       /\ Len(s.queue[s.box.ctx]) = 1 /\ s.box.on = 1 /\ s.box.busy = 1
       /\ s.queue[s.box.ctx][1].kind = "define"
       /\ s.queue[s.box.ctx][1].word = s.box.word
  /\ \A i \in DOMAIN s.box.defs : s.box.defs[i] = s.box.word

(* The window counts what the box shows.                                    *)
Counts(s) ==
  /\ s.win.ctx \in Ctxs /\ s.queue[s.win.ctx] # <<>> =>
       /\ s.win.busy = 1 /\ s.win.max = -1 /\ s.win.last = 0
       /\ s.win.current = Len(s.box.defs) /\ s.queue[s.win.ctx][1].found = s.win.current
  /\ s.win.busy = 0 /\ s.win.max >= 0 =>
       s.win.max + 1 = Len(s.box.defs) /\ s.win.last \in 0..s.win.max
  /\ s.win.max >= -1 /\ Len(s.nested) <= 1
  /\ \A i \in DOMAIN s.nested :
       s.nested[i].ctx = s.win.ctx /\ s.nested[i].n = s.win.current + 1

Fits(s) ==
  /\ IsState(s)
  /\ s.undefined = 0 =>
       /\ ShowsInTurn(s)
       /\ s.past \cap {"moved", "lost"} = {} => Pends(s)
       /\ "shared" \notin s.past => OneOfTheBox(s)
       /\ s.past = {} => Counts(s)

(* A context that nobody holds has no lookups.                              *)
Good(s) == Fits(s) /\ \A c \in Ctxs \ Held(s) : s.queue[c] = <<>>

-----------------------------------------------------------------------------
(* A new context is one that nobody holds.                                 *)

LEMMA LeastOf ==
  ASSUME NEW S \in SUBSET Nat, S # {}
  PROVE  \E c \in S : \A d \in S : c <= d
<1>1. PICK c \in S : \A d \in S : <<d, c>> \notin OpToRel(<, Nat)
  BY NatLessThanWellFounded, WFMin
<1>2. \A d \in S : ~(d < c)
  BY <1>1 DEF OpToRel
<1>3. \A d \in S : c <= d
  BY <1>2
<1> QED BY <1>3

LEMMA NewContextIsFree ==
  ASSUME NEW s, IsState(s)
  PROVE  NewContext(s) \in Ctxs /\ NewContext(s) \notin Held(s)
<1> DEFINE n  == Len(s.nested)
           at == [i \in 1..n |-> s.nested[i].ctx]
           inner == {at[i] : i \in 1..n}
           held == ({s.win.ctx} \cup {s.spell.ctx}) \cup inner
<1>1. n \in Nat /\ n <= MaxNested /\ MaxNested \in Nat /\ DOMAIN s.nested = 1..n
  BY BoundsAssumption DEF IsState
<1> HIDE DEF n
<1>2. IsFiniteSet(inner) /\ Cardinality(inner) <= n
  <2>1. IsFiniteSet(1..n) /\ Cardinality(1..n) <= n
    <3>1. IsFiniteSet(1..n) /\ Cardinality(1..n) = IF 1 > n THEN 0 ELSE n - 1 + 1
      BY <1>1, FS_Interval
    <3> QED BY <1>1, <3>1
  <2>2. at \in Surjection(1..n, inner)
    <3>1. at \in [1..n -> inner]
      OBVIOUS
    <3>2. \A c \in inner : \E i \in 1..n : at[i] = c
      OBVIOUS
    <3> QED BY <3>1, <3>2 DEF Surjection
  <2> HIDE DEF at, inner
  <2>3. IsFiniteSet(inner) /\ Cardinality(inner) <= Cardinality(1..n)
    BY <2>1, <2>2, FS_Surjection
  <2>4. Cardinality(inner) \in Nat /\ Cardinality(1..n) \in Nat
    BY <2>1, <2>3, FS_CardinalityType
  <2> QED BY <1>1, <2>1, <2>3, <2>4
<1> HIDE DEF inner
<1>3. IsFiniteSet(held) /\ Cardinality(held) <= 2 + n
  <2>1. IsFiniteSet({s.win.ctx}) /\ Cardinality({s.win.ctx}) = 1
    BY FS_Singleton
  <2>2. IsFiniteSet({s.win.ctx} \cup {s.spell.ctx}) /\ Cardinality({s.win.ctx} \cup {s.spell.ctx}) <= 2
    BY <2>1, FS_AddElement
  <2>3. Cardinality({s.win.ctx} \cup {s.spell.ctx}) \in Nat /\ Cardinality(inner) \in Nat
    BY <1>2, <2>2, FS_CardinalityType
  <2>4. IsFiniteSet(held) /\ Cardinality(({s.win.ctx} \cup {s.spell.ctx}) \cap inner) \in Nat
    <3>1. ({s.win.ctx} \cup {s.spell.ctx}) \cap inner \in SUBSET inner
      OBVIOUS
    <3>2. IsFiniteSet(({s.win.ctx} \cup {s.spell.ctx}) \cap inner)
      BY <1>2, <3>1, FS_Subset
    <3> QED BY <1>2, <2>2, <3>2, FS_Union, FS_CardinalityType
  <2>5. Cardinality(held) = Cardinality({s.win.ctx} \cup {s.spell.ctx}) + Cardinality(inner)
                              - Cardinality(({s.win.ctx} \cup {s.spell.ctx}) \cap inner)
    BY <1>2, <2>2, FS_Union
  <2> QED BY <1>1, <1>2, <2>2, <2>3, <2>4, <2>5
<1>4. Held(s) \subseteq held
  <2>1. {s.nested[i].ctx : i \in DOMAIN s.nested} = inner
    BY <1>1 DEF inner
  <2>2. s.box.ctx \in Ctxs => s.box.ctx = s.win.ctx
    BY NoneAssumption DEF IsState
  <2>3. {s.choosers[k].ctx : k \in Choosers} \subseteq {s.win.ctx}
    BY DEF IsState
  <2> QED BY <2>1, <2>2, <2>3 DEF Held
<1> HIDE DEF held
<1>5. Ctxs \ Held(s) # {}
  <2> SUFFICES ASSUME Ctxs \subseteq held PROVE FALSE
    BY <1>4
  <2>1. IsFiniteSet(Ctxs) /\ Cardinality(Ctxs) <= Cardinality(held)
    BY <1>3, FS_Subset
  <2>2. Cardinality(Ctxs) \in Nat /\ Cardinality(held) \in Nat
    BY <1>3, <2>1, FS_CardinalityType
  <2> QED BY <1>1, <1>3, <2>1, <2>2, CtxsAssumption
<1>6. \E c \in Ctxs \ Held(s) : \A d \in Ctxs \ Held(s) : c <= d
  BY <1>5, LeastOf, CtxsAssumption
<1> QED BY <1>6 DEF NewContext

-----------------------------------------------------------------------------
(* Writing one field of the state.                                         *)

(* What the others see of the queues: the lookups of the window's context, *)
(* and the one a definition of which is being shown.                       *)
SameQueues(s, t) ==
  /\ s.win.ctx \in Ctxs => t.queue[s.win.ctx] = s.queue[s.win.ctx]
  /\ \A i \in DOMAIN s.nested :
       s.queue[s.nested[i].ctx] # <<>> =>
         /\ t.queue[s.nested[i].ctx] # <<>>
         /\ t.queue[s.nested[i].ctx][1] = s.queue[s.nested[i].ctx][1]

SameRest(s, t) == t.nested = s.nested /\ t.past = s.past /\ t.undefined = s.undefined

SameWidgets(s, t) == t.win = s.win /\ t.box = s.box /\ t.choosers = s.choosers

(* Widgets of the window's context have changed, and other lookups. *)
Touches(s, t) ==
  IsState(t) /\ SameQueues(s, t) /\ SameRest(s, t) /\ t.win.ctx = s.win.ctx

(* Nothing has happened but to the speller and its context. *)
SpellerOnly(s, t) == IsState(t) /\ SameQueues(s, t) /\ SameWidgets(s, t) /\ SameRest(s, t)

LEMMA SpellerOnlySelf ==
  ASSUME NEW s, IsState(s)
  PROVE  SpellerOnly(s, s)
  BY DEF SpellerOnly, SameQueues, SameRest, SameWidgets

LEMMA TouchesChain ==
  ASSUME NEW s, NEW t, NEW u, Touches(s, t), Touches(t, u)
  PROVE  Touches(s, u)
<1>1. SameRest(s, u) /\ IsState(u) /\ u.win.ctx = s.win.ctx
  BY DEF Touches, SameRest
<1>2. t.win.ctx = s.win.ctx /\ t.nested = s.nested /\ SameQueues(s, t) /\ SameQueues(t, u)
  BY DEF Touches, SameRest
<1>3. SameQueues(s, u)
  <2>1. s.win.ctx \in Ctxs => u.queue[s.win.ctx] = s.queue[s.win.ctx]
    BY <1>2 DEF SameQueues
  <2>2. ASSUME NEW i \in DOMAIN s.nested, s.queue[s.nested[i].ctx] # <<>>
        PROVE  /\ u.queue[s.nested[i].ctx] # <<>>
               /\ u.queue[s.nested[i].ctx][1] = s.queue[s.nested[i].ctx][1]
    <3>1. /\ t.queue[s.nested[i].ctx] # <<>>
          /\ t.queue[s.nested[i].ctx][1] = s.queue[s.nested[i].ctx][1]
      BY <1>2, <2>2 DEF SameQueues
    <3>2. i \in DOMAIN t.nested /\ t.nested[i] = s.nested[i]
      BY <1>2
    <3> QED BY <1>2, <3>1, <3>2 DEF SameQueues
  <2> QED BY <2>1, <2>2 DEF SameQueues
<1> QED BY <1>1, <1>3 DEF Touches

LEMMA SpellerTouches ==
  ASSUME NEW s, NEW t, SpellerOnly(s, t)
  PROVE  Touches(s, t)
  BY DEF SpellerOnly, SameWidgets, Touches

LEMMA SpellerOnlyChain ==
  ASSUME NEW s, NEW t, NEW u, SpellerOnly(s, t), SpellerOnly(t, u)
  PROVE  SpellerOnly(s, u)
<1>1. Touches(s, u)
  BY SpellerTouches, TouchesChain
<1> QED BY <1>1 DEF SpellerOnly, SameWidgets, Touches

LEMMA SpellerSet ==
  ASSUME NEW s, IsState(s), NEW x \in SpellerT
  PROVE  SpellerOnly(s, [s EXCEPT !.spell = x]) /\ [s EXCEPT !.spell = x].spell = x
<1>1. [s EXCEPT !.spell = x].spell = x
  BY DEF IsState, Fields
<1>2. /\ [s EXCEPT !.spell = x] = [f \in Fields |-> [s EXCEPT !.spell = x][f]]
      /\ \A f \in Fields \ {"spell"} : [s EXCEPT !.spell = x][f] = s[f]
  BY DEF IsState, Fields
<1> DEFINE t == [s EXCEPT !.spell = x]
<1>3. /\ t.queue = s.queue /\ t.win = s.win /\ t.box = s.box /\ t.choosers = s.choosers
      /\ t.nested = s.nested /\ t.past = s.past /\ t.undefined = s.undefined
  BY <1>2 DEF Fields
<1> HIDE DEF t
<1>4. IsState(t)
  BY <1>1, <1>2, <1>3 DEF IsState, t
<1> QED BY <1>1, <1>3, <1>4 DEF SpellerOnly, SameQueues, SameWidgets, SameRest, t

LEMMA QueueSet ==
  ASSUME NEW s, IsState(s), NEW c \in Ctxs, NEW q \in Seq(Lookups)
  PROVE  /\ IsState([s EXCEPT !.queue[c] = q])
         /\ [s EXCEPT !.queue[c] = q].queue = [s.queue EXCEPT ![c] = q]
         /\ [s EXCEPT !.queue[c] = q].queue[c] = q
         /\ \A d \in Ctxs \ {c} : [s EXCEPT !.queue[c] = q].queue[d] = s.queue[d]
         /\ SameWidgets(s, [s EXCEPT !.queue[c] = q]) /\ SameRest(s, [s EXCEPT !.queue[c] = q])
         /\ [s EXCEPT !.queue[c] = q].spell = s.spell
<1> DEFINE t == [s EXCEPT !.queue[c] = q]
<1>1. /\ t = [f \in Fields |-> t[f]]
      /\ t.win = s.win /\ t.box = s.box /\ t.choosers = s.choosers /\ t.spell = s.spell
      /\ t.nested = s.nested /\ t.past = s.past /\ t.undefined = s.undefined
      /\ t.queue = [s.queue EXCEPT ![c] = q]
  BY DEF IsState, Fields
<1> HIDE DEF t
<1>2. s.queue \in [Ctxs -> Seq(Lookups)]
  BY DEF IsState
<1>3. /\ t.queue \in [Ctxs -> Seq(Lookups)] /\ t.queue[c] = q
      /\ \A d \in Ctxs \ {c} : t.queue[d] = s.queue[d]
  BY <1>1, <1>2
<1>4. IsState(t)
  BY <1>1, <1>3 DEF IsState
<1> QED BY <1>1, <1>3, <1>4 DEF SameWidgets, SameRest, t

LEMMA BoxSet ==
  ASSUME NEW s, IsState(s), NEW x \in BoxT, x.ctx = s.box.ctx
  PROVE  /\ IsState([s EXCEPT !.box = x])
         /\ [s EXCEPT !.box = x].box = x
         /\ [s EXCEPT !.box = x].queue = s.queue /\ [s EXCEPT !.box = x].win = s.win
         /\ [s EXCEPT !.box = x].choosers = s.choosers /\ [s EXCEPT !.box = x].spell = s.spell
         /\ SameRest(s, [s EXCEPT !.box = x])
<1> DEFINE t == [s EXCEPT !.box = x]
<1>1. /\ t = [f \in Fields |-> t[f]]
      /\ t.win = s.win /\ t.queue = s.queue /\ t.choosers = s.choosers /\ t.spell = s.spell
      /\ t.nested = s.nested /\ t.past = s.past /\ t.undefined = s.undefined
      /\ t.box = x
  BY DEF IsState, Fields
<1> HIDE DEF t
<1>2. IsState(t)
  BY <1>1 DEF IsState
<1> QED BY <1>1, <1>2 DEF SameRest, t

LEMMA WinSet ==
  ASSUME NEW s, IsState(s), NEW x \in WindowT, x.ctx = s.win.ctx
  PROVE  /\ IsState([s EXCEPT !.win = x])
         /\ [s EXCEPT !.win = x].win = x
         /\ [s EXCEPT !.win = x].queue = s.queue /\ [s EXCEPT !.win = x].box = s.box
         /\ [s EXCEPT !.win = x].choosers = s.choosers /\ [s EXCEPT !.win = x].spell = s.spell
         /\ SameRest(s, [s EXCEPT !.win = x])
<1> DEFINE t == [s EXCEPT !.win = x]
<1>1. /\ t = [f \in Fields |-> t[f]]
      /\ t.box = s.box /\ t.queue = s.queue /\ t.choosers = s.choosers /\ t.spell = s.spell
      /\ t.nested = s.nested /\ t.past = s.past /\ t.undefined = s.undefined
      /\ t.win = x
  BY DEF IsState, Fields
<1> HIDE DEF t
<1>2. IsState(t)
  BY <1>1 DEF IsState
<1> QED BY <1>1, <1>2 DEF SameRest, t

LEMMA ChoosersSet ==
  ASSUME NEW s, IsState(s), NEW x \in [Choosers -> ChooserT],
         \A k \in Choosers : x[k].ctx = s.choosers[k].ctx
  PROVE  /\ IsState([s EXCEPT !.choosers = x])
         /\ [s EXCEPT !.choosers = x].choosers = x
         /\ [s EXCEPT !.choosers = x].queue = s.queue /\ [s EXCEPT !.choosers = x].box = s.box
         /\ [s EXCEPT !.choosers = x].win = s.win /\ [s EXCEPT !.choosers = x].spell = s.spell
         /\ SameRest(s, [s EXCEPT !.choosers = x])
<1> DEFINE t == [s EXCEPT !.choosers = x]
<1>1. /\ t = [f \in Fields |-> t[f]]
      /\ t.box = s.box /\ t.queue = s.queue /\ t.win = s.win /\ t.spell = s.spell
      /\ t.nested = s.nested /\ t.past = s.past /\ t.undefined = s.undefined
      /\ t.choosers = x
  BY DEF IsState, Fields
<1> HIDE DEF t
<1>2. IsState(t)
  BY <1>1 DEF IsState
<1> QED BY <1>1, <1>2 DEF SameRest, t

-----------------------------------------------------------------------------
(* The speller.                                                            *)

Asked(s, t, c, l) ==
  /\ IsState(t) /\ SameWidgets(s, t) /\ SameRest(s, t)
  /\ t.queue[c] = Append(s.queue[c], l)

(* A lookup asked of a context is answered after those it has. *)
LEMMA QueuePushed ==
  ASSUME NEW s, IsState(s), NEW c \in Ctxs, NEW l \in Lookups
  PROVE  /\ IsState(Pushed(s, c, l)) /\ Pushed(s, c, l).spell = s.spell
         /\ SameWidgets(s, Pushed(s, c, l)) /\ SameRest(s, Pushed(s, c, l))
         /\ Asked(s, Pushed(s, c, l), c, l)
         /\ \A d \in Ctxs \ {c} : Pushed(s, c, l).queue[d] = s.queue[d]
         /\ \A d \in Ctxs : s.queue[d] # <<>> =>
              Pushed(s, c, l).queue[d] # <<>> /\ Pushed(s, c, l).queue[d][1] = s.queue[d][1]
<1> DEFINE q == Append(s.queue[c], l)
<1>1. s.queue \in [Ctxs -> Seq(Lookups)]
  BY DEF IsState
<1>2. s.queue[c] \in Seq(Lookups)
  BY <1>1
<1>3. q \in Seq(Lookups) /\ q # <<>> /\ (s.queue[c] # <<>> => q[1] = s.queue[c][1])
  <2> DEFINE r == s.queue[c]
  <2>1. r \in Seq(Lookups)
    BY <1>2
  <2> HIDE DEF r
  <2>2. /\ Append(r, l) \in Seq(Lookups) /\ Len(Append(r, l)) = Len(r) + 1
        /\ Len(r) \in Nat /\ (r # <<>> => Len(r) > 0)
    BY <2>1
  <2>3. r # <<>> => Append(r, l)[1] = r[1]
    BY <2>1, <2>2
  <2>4. Append(r, l) # <<>>
    <3>1. Len(<<>>) = 0
      OBVIOUS
    <3>2. Len(Append(r, l)) # 0
      BY <2>2
    <3> QED BY <3>1, <3>2
  <2> QED BY <2>2, <2>3, <2>4 DEF r
<1> DEFINE t == [s EXCEPT !.queue[c] = q]
<1>4. Pushed(s, c, l) = t
  BY <1>1 DEF Pushed, IsState, Fields
<1> HIDE DEF q
<1>5. /\ IsState(t) /\ t.spell = s.spell /\ SameWidgets(s, t) /\ SameRest(s, t)
      /\ t.queue[c] = q /\ \A d \in Ctxs \ {c} : t.queue[d] = s.queue[d]
  BY <1>3, QueueSet
<1> HIDE DEF t
<1>6. \A d \in Ctxs : s.queue[d] # <<>> => t.queue[d] # <<>> /\ t.queue[d][1] = s.queue[d][1]
  BY <1>3, <1>5
<1>7. Asked(s, t, c, l)
  BY <1>5 DEF Asked, q
<1> QED BY <1>4, <1>5, <1>6, <1>7

LEMMA NestedTyped ==
  ASSUME NEW s, IsState(s), NEW i \in DOMAIN s.nested
  PROVE  s.nested[i].ctx \in Ctxs /\ s.nested[i].n \in Nat
<1>1. s.nested \in Seq(NestedT)
  BY DEF IsState
<1>2. s.nested[i] \in NestedT
  BY <1>1
<1> QED BY <1>2 DEF NestedT

LEMMA PushedElsewhere ==
  ASSUME NEW s, IsState(s), NEW c \in Ctxs, c # s.win.ctx, NEW l \in Lookups
  PROVE  SpellerOnly(s, Pushed(s, c, l))
<1> DEFINE t == Pushed(s, c, l)
<1>1. /\ IsState(t) /\ SameWidgets(s, t) /\ SameRest(s, t)
      /\ \A d \in Ctxs \ {c} : t.queue[d] = s.queue[d]
      /\ \A d \in Ctxs : s.queue[d] # <<>> => t.queue[d] # <<>> /\ t.queue[d][1] = s.queue[d][1]
  BY QueuePushed
<1> HIDE DEF t
<1>2. \A i \in DOMAIN s.nested : s.nested[i].ctx \in Ctxs
  BY NestedTyped
<1>3. SameQueues(s, t)
  BY <1>1, <1>2 DEF SameQueues
<1> QED BY <1>1, <1>3 DEF SpellerOnly, t

LEMMA MatchElsewhere ==
  ASSUME NEW s, IsState(s), s.spell.ctx # s.win.ctx, NEW w \in Words \cup {None}, NEW ok
  PROVE  SpellerOnly(s, SpellerMatch(s, w, ok))
<1> DEFINE cleared == SpellerClear(s)
           asks == SpellerAsks(s, w)
           c == asks.spell.ctx
           starts == SpellerStart(asks, c)
<1>1. SpellerOnly(s, s)
  BY SpellerOnlySelf
<1>2. SpellerOnly(s, cleared) /\ cleared.spell = [s.spell EXCEPT !.rows = {}] /\ IsState(cleared)
  <2>1. [s.spell EXCEPT !.rows = {}] \in SpellerT
    BY DEF IsState, SpellerT
  <2>2. cleared = [s EXCEPT !.spell = [s.spell EXCEPT !.rows = {}]]
    BY DEF SpellerClear
  <2>3. SpellerOnly(s, cleared) /\ cleared.spell = [s.spell EXCEPT !.rows = {}]
    BY <2>1, <2>2, SpellerSet
  <2> QED BY <2>3 DEF SpellerOnly
<1>a. cleared.spell \in SpellerT /\ cleared.spell.ctx = s.spell.ctx
  <2>1. s.spell \in SpellerT
    BY DEF IsState
  <2> QED BY <1>2, <2>1 DEF SpellerT
<1>3. SpellerOnly(s, asks) /\ asks.spell.ctx = s.spell.ctx /\ asks.spell \in SpellerT /\ IsState(asks)
  <2> DEFINE x == [cleared.spell EXCEPT !.on = 1, !.word = w]
  <2>2. asks = [cleared EXCEPT !.spell = x]
    BY <1>2 DEF SpellerAsks, SpellerOnly, IsState, Fields
  <2> HIDE DEF cleared
  <2>1. x \in SpellerT /\ x.ctx = s.spell.ctx
    <3> DEFINE y == cleared.spell
    <3>1. y \in SpellerT /\ y.ctx = s.spell.ctx
      BY <1>a
    <3> HIDE DEF y
    <3>2. [y EXCEPT !.on = 1, !.word = w] \in SpellerT
      <4>1. [y EXCEPT !.on = 1] \in SpellerT
        BY <3>1 DEF SpellerT
      <4>2. [y EXCEPT !.on = 1, !.word = w] = [[y EXCEPT !.on = 1] EXCEPT !.word = w]
        OBVIOUS
      <4>3. w \in Words \cup {None}
        OBVIOUS
      <4> QED BY <4>1, <4>2, <4>3 DEF SpellerT
    <3>3. [y EXCEPT !.on = 1, !.word = w].ctx = y.ctx
      BY <3>1 DEF SpellerT
    <3> QED BY <3>1, <3>2, <3>3 DEF y
  <2> HIDE DEF x, asks
  <2>3. SpellerOnly(cleared, asks) /\ asks.spell = x
    BY <1>2, <2>1, <2>2, SpellerSet
  <2>4. SpellerOnly(s, asks)
    BY <1>2, <2>3, SpellerOnlyChain
  <2> QED BY <2>1, <2>3, <2>4 DEF SpellerOnly
<1> HIDE DEF asks, cleared
<1>4. SpellerOnly(s, starts) /\ IsState(starts)
  <2>1. starts = asks \/ starts = [asks EXCEPT !.spell = [asks.spell EXCEPT !.busy = 1]]
    BY DEF SpellerStart
  <2>2. [asks.spell EXCEPT !.busy = 1] \in SpellerT
    BY <1>3 DEF SpellerT
  <2>3. SpellerOnly(asks, [asks EXCEPT !.spell = [asks.spell EXCEPT !.busy = 1]])
    BY <1>3, <2>2, SpellerSet
  <2> HIDE DEF starts
  <2>4. SpellerOnly(s, starts)
    BY <1>3, <2>1, <2>3, SpellerOnlyChain
  <2> QED BY <2>4 DEF SpellerOnly
<1> HIDE DEF starts
<1>5. CASE SpellerMayMatch(s, w) /\ ok = 1
  <2>1. c \in Ctxs /\ c # starts.win.ctx
    <3>1. s.spell \in SpellerT
      BY DEF IsState
    <3>2. starts.win = s.win
      BY <1>4 DEF SpellerOnly, SameWidgets
    <3> QED BY <1>3, <1>5, <3>1, <3>2 DEF SpellerMayMatch, SpellerT
  <2>2. Lookup("match", w) \in Lookups
    BY DEF Lookup, Lookups, Kinds
  <2> HIDE DEF c
  <2>4. SpellerOnly(starts, Pushed(starts, c, Lookup("match", w)))
    BY <1>4, <2>1, <2>2, PushedElsewhere
  <2>5. SpellerMatch(s, w, ok) = Pushed(starts, c, Lookup("match", w))
    BY <1>5 DEF SpellerMatch, starts, asks, c
  <2> QED BY <1>4, <2>4, <2>5, SpellerOnlyChain
<1>6. CASE SpellerMayMatch(s, w) /\ ok # 1
  <2>1. SpellerMatch(s, w, ok) = [asks EXCEPT !.spell = [asks.spell EXCEPT !.word = None]]
    BY <1>6 DEF SpellerMatch, asks
  <2>2. [asks.spell EXCEPT !.word = None] \in SpellerT
    BY <1>3 DEF SpellerT
  <2>3. SpellerOnly(asks, [asks EXCEPT !.spell = [asks.spell EXCEPT !.word = None]])
    BY <1>3, <2>2, SpellerSet
  <2> QED BY <1>3, <2>1, <2>3, SpellerOnlyChain
<1>7. CASE ~SpellerMayMatch(s, w)
  BY <1>1, <1>7 DEF SpellerMatch
<1> QED BY <1>5, <1>6, <1>7

-----------------------------------------------------------------------------
(* The handlers, one by one.                                               *)

WinStarted(s, c) ==
  IF s.win.ctx # c \/ s.win.word = None THEN s.win
  ELSE [s.win EXCEPT !.busy = 1, !.max = -1, !.last = 0, !.current = 0]

BoxHas(s, c, busy) ==
  IF s.box.ctx = c /\ s.box.on = 1 THEN [s.box EXCEPT !.busy = busy] ELSE s.box

ChoosersHave(s, c, busy) ==
  [k \in Choosers |-> IF s.choosers[k].ctx = c /\ s.choosers[k].on = 1
                      THEN [s.choosers[k] EXCEPT !.busy = busy] ELSE s.choosers[k]]

(* A handler that touches no queue. *)
Heard(s, t) == IsState(t) /\ t.queue = s.queue /\ SameRest(s, t)

LEMMA HeardChain ==
  ASSUME NEW s, NEW t, NEW u, Heard(s, t), Heard(t, u)
  PROVE  Heard(s, u)
  BY DEF Heard, SameRest

LEMMA WindowStartIs ==
  ASSUME NEW s, IsState(s), NEW c \in Ctxs
  PROVE  LET t == WindowStart(s, c)
         IN  Heard(s, t) /\ t.win = WinStarted(s, c) /\ t.box = s.box /\ t.choosers = s.choosers
<1> DEFINE x == [s.win EXCEPT !.busy = 1, !.max = -1, !.last = 0, !.current = 0]
           t == WindowStart(s, c)
<1>1. x \in WindowT /\ x.ctx = s.win.ctx
  <2>1. s.win \in WindowT
    BY DEF IsState
  <2>2. x = [[[[s.win EXCEPT !.busy = 1] EXCEPT !.max = -1] EXCEPT !.last = 0] EXCEPT !.current = 0]
    OBVIOUS
  <2>3. \A w \in WindowT :
          /\ [w EXCEPT !.busy = 1] \in WindowT /\ [w EXCEPT !.busy = 1].ctx = w.ctx
          /\ [w EXCEPT !.max = -1] \in WindowT /\ [w EXCEPT !.max = -1].ctx = w.ctx
          /\ [w EXCEPT !.last = 0] \in WindowT /\ [w EXCEPT !.last = 0].ctx = w.ctx
          /\ [w EXCEPT !.current = 0] \in WindowT /\ [w EXCEPT !.current = 0].ctx = w.ctx
    BY DEF WindowT
  <2> HIDE DEF x
  <2> DEFINE w1 == [s.win EXCEPT !.busy = 1]
             w2 == [w1 EXCEPT !.max = -1]
             w3 == [w2 EXCEPT !.last = 0]
  <2>4. w1 \in WindowT /\ w1.ctx = s.win.ctx
    BY <2>1, <2>3
  <2> HIDE DEF w1
  <2>5. w2 \in WindowT /\ w2.ctx = s.win.ctx
    BY <2>3, <2>4
  <2> HIDE DEF w2
  <2>6. w3 \in WindowT /\ w3.ctx = s.win.ctx
    BY <2>3, <2>5
  <2> HIDE DEF w3
  <2>7. [w3 EXCEPT !.current = 0] \in WindowT /\ [w3 EXCEPT !.current = 0].ctx = s.win.ctx
    BY <2>3, <2>6
  <2>8. x = [w3 EXCEPT !.current = 0]
    BY <2>2 DEF w1, w2, w3
  <2> QED BY <2>7, <2>8
<1>2. CASE s.win.ctx # c \/ s.win.word = None
  <2>1. t = s /\ WinStarted(s, c) = s.win
    BY <1>2 DEF WindowStart, WinStarted
  <2> QED BY <2>1 DEF Heard, SameRest
<1>3. CASE ~(s.win.ctx # c \/ s.win.word = None)
  <2>1. t = [s EXCEPT !.win = x] /\ WinStarted(s, c) = x
    BY <1>3 DEF WindowStart, WinStarted
  <2> HIDE DEF x, t
  <2> QED BY <1>1, <2>1, WinSet DEF Heard, t
<1> QED BY <1>2, <1>3

LEMMA BoxStartIs ==
  ASSUME NEW s, IsState(s), NEW c \in Ctxs
  PROVE  LET t == BoxStart(s, c)
         IN  Heard(s, t) /\ t.win = s.win /\ t.box = BoxHas(s, c, 1) /\ t.choosers = s.choosers
<1> DEFINE x == [s.box EXCEPT !.busy = 1]
           t == BoxStart(s, c)
<1>1. x \in BoxT /\ x.ctx = s.box.ctx
  <2>1. s.box \in BoxT
    BY DEF IsState
  <2> QED BY <2>1 DEF BoxT
<1>2. CASE ~(s.box.ctx = c /\ s.box.on = 1)
  <2>1. t = s /\ BoxHas(s, c, 1) = s.box
    BY <1>2 DEF BoxStart, BoxHas
  <2> QED BY <2>1 DEF Heard, SameRest
<1>3. CASE s.box.ctx = c /\ s.box.on = 1
  <2>1. t = [s EXCEPT !.box = x] /\ BoxHas(s, c, 1) = x
    BY <1>3 DEF BoxStart, BoxHas
  <2> HIDE DEF x, t
  <2> QED BY <1>1, <2>1, BoxSet DEF Heard, t
<1> QED BY <1>2, <1>3

LEMMA BoxEndIs ==
  ASSUME NEW s, IsState(s), NEW c \in Ctxs
  PROVE  LET t == BoxEnd(s, c)
         IN  Heard(s, t) /\ t.win = s.win /\ t.box = BoxHas(s, c, 0) /\ t.choosers = s.choosers
<1> DEFINE x == [s.box EXCEPT !.busy = 0]
           t == BoxEnd(s, c)
<1>1. x \in BoxT /\ x.ctx = s.box.ctx
  <2>1. s.box \in BoxT
    BY DEF IsState
  <2> QED BY <2>1 DEF BoxT
<1>2. CASE ~(s.box.ctx = c /\ s.box.on = 1)
  <2>1. t = s /\ BoxHas(s, c, 0) = s.box
    BY <1>2 DEF BoxEnd, BoxHas
  <2> QED BY <2>1 DEF Heard, SameRest
<1>3. CASE s.box.ctx = c /\ s.box.on = 1
  <2>1. t = [s EXCEPT !.box = x] /\ BoxHas(s, c, 0) = x
    BY <1>3 DEF BoxEnd, BoxHas
  <2> HIDE DEF x, t
  <2> QED BY <1>1, <2>1, BoxSet DEF Heard, t
<1> QED BY <1>2, <1>3

BoxFailed(s, c) ==
  IF s.box.ctx = c /\ s.box.on = 1
  THEN [s.box EXCEPT !.busy = 0, !.word = None, !.defs = <<>>] ELSE s.box

LEMMA BoxErrorIs ==
  ASSUME NEW s, IsState(s), NEW c \in Ctxs
  PROVE  LET t == BoxError(s, c)
         IN  Heard(s, t) /\ t.win = s.win /\ t.box = BoxFailed(s, c) /\ t.choosers = s.choosers
<1> DEFINE x == [s.box EXCEPT !.busy = 0, !.word = None, !.defs = <<>>]
           t == BoxError(s, c)
<1>0. s.box \in BoxT
  BY DEF IsState
<1>1. x \in BoxT /\ x.ctx = s.box.ctx
  <2>1. <<>> \in Seq(Words \cup {None})
    OBVIOUS
  <2>2. x = [[[s.box EXCEPT !.busy = 0] EXCEPT !.word = None] EXCEPT !.defs = <<>>]
    OBVIOUS
  <2>3. \A b \in BoxT :
          /\ [b EXCEPT !.busy = 0] \in BoxT /\ [b EXCEPT !.busy = 0].ctx = b.ctx
          /\ [b EXCEPT !.word = None] \in BoxT /\ [b EXCEPT !.word = None].ctx = b.ctx
    BY DEF BoxT
  <2>4. \A b \in BoxT, q \in Seq(Words \cup {None}) :
          [b EXCEPT !.defs = q] \in BoxT /\ [b EXCEPT !.defs = q].ctx = b.ctx
    BY DEF BoxT
  <2> HIDE DEF x
  <2> DEFINE b1 == [s.box EXCEPT !.busy = 0]
             b2 == [b1 EXCEPT !.word = None]
  <2>5. b1 \in BoxT /\ b1.ctx = s.box.ctx
    BY <1>0, <2>3
  <2> HIDE DEF b1
  <2>6. b2 \in BoxT /\ b2.ctx = s.box.ctx
    BY <2>3, <2>5
  <2> HIDE DEF b2
  <2>7. [b2 EXCEPT !.defs = <<>>] \in BoxT /\ [b2 EXCEPT !.defs = <<>>].ctx = s.box.ctx
    BY <2>1, <2>4, <2>6
  <2>8. x = [b2 EXCEPT !.defs = <<>>]
    BY <2>2 DEF b1, b2
  <2> QED BY <2>7, <2>8
<1>2. CASE ~(s.box.ctx = c /\ s.box.on = 1)
  <2>1. t = s /\ BoxFailed(s, c) = s.box
    BY <1>2 DEF BoxError, BoxFailed
  <2> QED BY <2>1 DEF Heard, SameRest
<1>3. CASE s.box.ctx = c /\ s.box.on = 1
  <2>1. s = [f \in Fields |-> s[f]]
    BY DEF IsState
  <2>2. t = [s EXCEPT !.box = x]
    BY <1>0, <1>3, <2>1 DEF BoxError, BoxClear, Fields, BoxT
  <2>3. BoxFailed(s, c) = x
    BY <1>3 DEF BoxFailed
  <2> HIDE DEF x, t
  <2> QED BY <1>1, <2>2, <2>3, BoxSet DEF Heard, t
<1> QED BY <1>2, <1>3

LEMMA ChoosersHaveTyped ==
  ASSUME NEW s, IsState(s), NEW c, NEW busy \in 0..1
  PROVE  /\ ChoosersHave(s, c, busy) \in [Choosers -> ChooserT]
         /\ \A k \in Choosers : ChoosersHave(s, c, busy)[k].ctx = s.choosers[k].ctx
<1>1. \A k \in Choosers : s.choosers[k] \in ChooserT
  BY DEF IsState
<1>2. ASSUME NEW k \in Choosers
      PROVE  [s.choosers[k] EXCEPT !.busy = busy] \in ChooserT
             /\ [s.choosers[k] EXCEPT !.busy = busy].ctx = s.choosers[k].ctx
  BY <1>1 DEF ChooserT
<1> QED BY <1>1, <1>2 DEF ChoosersHave

LEMMA ChooserStartIs ==
  ASSUME NEW s, IsState(s), NEW c \in Ctxs
  PROVE  LET t == ChooserStart(s, c)
         IN  Heard(s, t) /\ t.win = s.win /\ t.box = s.box /\ t.choosers = ChoosersHave(s, c, 1)
<1> DEFINE t == ChooserStart(s, c)
<1>1. t = [s EXCEPT !.choosers = ChoosersHave(s, c, 1)]
  BY DEF ChooserStart, ChoosersHave
<1> HIDE DEF t
<1> QED BY <1>1, ChoosersHaveTyped, ChoosersSet DEF Heard, t

LEMMA ChooserEndIs ==
  ASSUME NEW s, IsState(s), NEW c \in Ctxs
  PROVE  LET t == ChooserEnd(s, c)
         IN  Heard(s, t) /\ t.win = s.win /\ t.box = s.box /\ t.choosers = ChoosersHave(s, c, 0)
<1> DEFINE t == ChooserEnd(s, c)
<1>1. t = [s EXCEPT !.choosers = ChoosersHave(s, c, 0)]
  BY DEF ChooserEnd, ChoosersHave
<1> HIDE DEF t
<1> QED BY <1>1, ChoosersHaveTyped, ChoosersSet DEF Heard, t

(* The handlers of the speller touch nobody else's fields. *)
LEMMA SpellerHears ==
  ASSUME NEW s, IsState(s), NEW c
  PROVE  /\ SpellerOnly(s, SpellerStart(s, c)) /\ SpellerStart(s, c).queue = s.queue
         /\ SpellerOnly(s, SpellerEnd(s, c)) /\ SpellerEnd(s, c).queue = s.queue
         /\ SpellerOnly(s, SpellerError(s, c)) /\ SpellerError(s, c).queue = s.queue
<1>0. s.spell \in SpellerT /\ s = [f \in Fields |-> s[f]]
  BY DEF IsState
<1>1. /\ [s.spell EXCEPT !.busy = 1] \in SpellerT
      /\ [s.spell EXCEPT !.busy = 0, !.word = None] \in SpellerT
      /\ [s.spell EXCEPT !.rows = {}, !.busy = 0, !.word = None] \in SpellerT
  <2> DEFINE ends == [s.spell EXCEPT !.busy = 0, !.word = None]
             fails == [s.spell EXCEPT !.rows = {}, !.busy = 0, !.word = None]
  <2>1. \A x \in SpellerT :
          /\ [x EXCEPT !.busy = 0] \in SpellerT /\ [x EXCEPT !.word = None] \in SpellerT
          /\ [x EXCEPT !.rows = {}] \in SpellerT
    BY DEF SpellerT
  <2>2. /\ ends = [[s.spell EXCEPT !.busy = 0] EXCEPT !.word = None]
        /\ fails = [[[s.spell EXCEPT !.rows = {}] EXCEPT !.busy = 0] EXCEPT !.word = None]
    OBVIOUS
  <2> HIDE DEF ends, fails
  <2>3. ends \in SpellerT /\ fails \in SpellerT
    BY <1>0, <2>1, <2>2
  <2>4. [s.spell EXCEPT !.busy = 1] \in SpellerT
    BY <1>0 DEF SpellerT
  <2> QED BY <2>3, <2>4 DEF ends, fails
<1>2. /\ SpellerStart(s, c) \in {s, [s EXCEPT !.spell = [s.spell EXCEPT !.busy = 1]]}
      /\ SpellerEnd(s, c) \in {s, [s EXCEPT !.spell = [s.spell EXCEPT !.busy = 0, !.word = None]]}
  BY DEF SpellerStart, SpellerEnd
<1>3. SpellerError(s, c) \in
        {s, [s EXCEPT !.spell = [s.spell EXCEPT !.rows = {}, !.busy = 0, !.word = None]]}
  BY <1>0 DEF SpellerError, SpellerClear, Fields, SpellerT
<1>4. ASSUME NEW t, t = s \/ \E x \in SpellerT : t = [s EXCEPT !.spell = x]
      PROVE  SpellerOnly(s, t) /\ t.queue = s.queue
  <2>1. CASE t = s
    BY <2>1, SpellerOnlySelf
  <2>2. ASSUME NEW x \in SpellerT, t = [s EXCEPT !.spell = x]
        PROVE  SpellerOnly(s, t) /\ t.queue = s.queue
    BY <1>0, <2>2, SpellerSet DEF Fields
  <2> QED BY <1>4, <2>1, <2>2
<1>6. SpellerOnly(s, SpellerStart(s, c)) /\ SpellerStart(s, c).queue = s.queue
  BY <1>1, <1>2, <1>4
<1>7. SpellerOnly(s, SpellerEnd(s, c)) /\ SpellerEnd(s, c).queue = s.queue
  BY <1>1, <1>2, <1>4
<1>8. SpellerOnly(s, SpellerError(s, c)) /\ SpellerError(s, c).queue = s.queue
  BY <1>1, <1>3, <1>4
<1> QED BY <1>6, <1>7, <1>8

LEMMA SpellerHeard ==
  ASSUME NEW s, NEW t, SpellerOnly(s, t), t.queue = s.queue
  PROVE  Heard(s, t) /\ t.win = s.win /\ t.box = s.box /\ t.choosers = s.choosers
  BY DEF SpellerOnly, SameWidgets, Heard

-----------------------------------------------------------------------------
(* The signals.                                                            *)

LEMMA StartedIs ==
  ASSUME NEW s, IsState(s), NEW c \in Ctxs
  PROVE  LET t == Started(s, c)
         IN  /\ Heard(s, t)
             /\ t.win = WinStarted(s, c) /\ t.box = BoxHas(s, c, 1)
             /\ t.choosers = ChoosersHave(s, c, 1)
<1> DEFINE t1 == WindowStart(s, c)
           t2 == BoxStart(t1, c)
           t3 == SpellerStart(t2, c)
           t4 == ChooserStart(t3, c)
<1>0. Started(s, c) = t4
  BY DEF Started
<1>1. Heard(s, t1) /\ t1.win = WinStarted(s, c) /\ t1.box = s.box /\ t1.choosers = s.choosers /\ IsState(t1)
  BY WindowStartIs DEF Heard
<1> HIDE DEF t1
<1>2. /\ Heard(t1, t2) /\ t2.win = t1.win /\ t2.box = BoxHas(t1, c, 1)
      /\ t2.choosers = t1.choosers /\ IsState(t2)
  BY <1>1, BoxStartIs DEF Heard
<1> HIDE DEF t2
<1>3. Heard(t2, t3) /\ t3.win = t2.win /\ t3.box = t2.box /\ t3.choosers = t2.choosers /\ IsState(t3)
  BY <1>2, SpellerHears, SpellerHeard DEF SpellerOnly
<1> HIDE DEF t3
<1>4. Heard(t3, t4) /\ t4.win = t3.win /\ t4.box = t3.box /\ t4.choosers = ChoosersHave(t3, c, 1)
  BY <1>3, ChooserStartIs
<1> HIDE DEF t4
<1>5. Heard(s, t4)
  BY <1>1, <1>2, <1>3, <1>4, HeardChain
<1>6. t2.box = BoxHas(s, c, 1) /\ ChoosersHave(t3, c, 1) = ChoosersHave(s, c, 1)
  BY <1>1, <1>2, <1>3 DEF BoxHas, ChoosersHave
<1> QED BY <1>0, <1>1, <1>2, <1>3, <1>4, <1>5, <1>6

EndsWindow(s, c, w) ==
  IF s.win.ctx # c THEN w = s.win
  ELSE /\ w.ctx = c /\ w.busy = 0 /\ w.max = s.win.current - 1
       /\ w.last = s.win.last /\ w.current = s.win.current

FailsWindow(s, c, w) ==
  IF s.win.ctx # c THEN w = s.win
  ELSE /\ w.ctx = c /\ w.busy = 0 /\ w.max = s.win.max
       /\ w.last = s.win.last /\ w.current = s.win.current

LEMMA WinSetTouches ==
  ASSUME NEW s, IsState(s), NEW x \in WindowT, x.ctx = s.win.ctx
  PROVE  LET t == [s EXCEPT !.win = x]
         IN  Touches(s, t) /\ t.win = x /\ t.box = s.box /\ t.choosers = s.choosers
<1> DEFINE t == [s EXCEPT !.win = x]
<1>1. /\ IsState(t) /\ t.win = x /\ t.queue = s.queue /\ t.box = s.box
      /\ t.choosers = s.choosers /\ SameRest(s, t)
  BY WinSet
<1> HIDE DEF t
<1> QED BY <1>1 DEF Touches, SameQueues, t

LEMMA HeardTouches ==
  ASSUME NEW s, NEW t, Heard(s, t), t.win.ctx = s.win.ctx
  PROVE  Touches(s, t)
  BY DEF Heard, Touches, SameQueues

(* The speller gets a context of its own, and may look a word up in it. *)
LEMMA SpellerMoves ==
  ASSUME NEW s, IsState(s), NEW w \in Words \cup {None}, NEW ok
  PROVE  LET other == SpellerSetContext(s, NewContext(s))
         IN  SpellerOnly(s, other) /\ SpellerOnly(s, SpellerMatch(other, w, ok))
<1> DEFINE c == NewContext(s)
           other == SpellerSetContext(s, c)
           x == [s.spell EXCEPT !.ctx = c, !.on = 0]
<1>1. c \in Ctxs /\ c # s.win.ctx
  <2>1. NewContext(s) \in Ctxs /\ NewContext(s) \notin Held(s)
    BY NewContextIsFree
  <2> QED BY <2>1 DEF Held
<1> HIDE DEF c
<1>2. x \in SpellerT /\ x.ctx = c
  <2>1. s.spell \in SpellerT
    BY DEF IsState
  <2>2. [s.spell EXCEPT !.ctx = c] \in SpellerT /\ [s.spell EXCEPT !.ctx = c].ctx = c
    BY <1>1, <2>1 DEF SpellerT
  <2>3. x = [[s.spell EXCEPT !.ctx = c] EXCEPT !.on = 0]
    OBVIOUS
  <2>4. \A y \in SpellerT : [y EXCEPT !.on = 0] \in SpellerT /\ [y EXCEPT !.on = 0].ctx = y.ctx
    BY DEF SpellerT
  <2> HIDE DEF x
  <2> DEFINE y == [s.spell EXCEPT !.ctx = c]
  <2>5. y \in SpellerT /\ y.ctx = c /\ x = [y EXCEPT !.on = 0]
    BY <2>2, <2>3
  <2> HIDE DEF y
  <2> QED BY <2>4, <2>5
<1>3. other = [s EXCEPT !.spell = x]
  BY DEF SpellerSetContext, IsState, Fields
<1> HIDE DEF x, other
<1>4. SpellerOnly(s, other) /\ other.spell = x
  BY <1>2, <1>3, SpellerSet
<1>5. IsState(other) /\ other.spell.ctx # other.win.ctx
  BY <1>1, <1>2, <1>4 DEF SpellerOnly, SameWidgets
<1>6. SpellerOnly(other, SpellerMatch(other, w, ok))
  BY <1>5, MatchElsewhere
<1>7. SpellerOnly(s, SpellerMatch(other, w, ok))
  BY <1>4, <1>6, SpellerOnlyChain
<1> QED BY <1>4, <1>7 DEF other, c

LEMMA WordReset ==
  ASSUME NEW s, IsState(s)
  PROVE  LET t == [s EXCEPT !.win.word = None]
         IN  /\ Touches(s, t) /\ t.box = s.box /\ t.choosers = s.choosers
             /\ t.win.ctx = s.win.ctx /\ t.win.busy = s.win.busy /\ t.win.max = s.win.max
             /\ t.win.last = s.win.last /\ t.win.current = s.win.current
<1> DEFINE x == [s.win EXCEPT !.word = None]
<1>1. s.win \in WindowT
  BY DEF IsState
<1>2. /\ x \in WindowT /\ x.ctx = s.win.ctx /\ x.busy = s.win.busy /\ x.max = s.win.max
      /\ x.last = s.win.last /\ x.current = s.win.current
  BY <1>1 DEF WindowT
<1>3. [s EXCEPT !.win.word = None] = [s EXCEPT !.win = x]
  OBVIOUS
<1> HIDE DEF x
<1> DEFINE t == [s EXCEPT !.win = x]
<1>4. Touches(s, t) /\ t.win = x /\ t.box = s.box /\ t.choosers = s.choosers
  BY <1>2, WinSetTouches
<1> HIDE DEF t
<1>5. [s EXCEPT !.win.word = None] = t
  BY <1>3 DEF t
<1> QED BY <1>2, <1>4, <1>5

LEMMA WindowEndIs ==
  ASSUME NEW s, IsState(s), NEW c \in Ctxs, NEW ok
  PROVE  LET t == WindowEnd(s, c, ok)
         IN  /\ Touches(s, t) /\ t.box = s.box /\ t.choosers = s.choosers
             /\ EndsWindow(s, c, t.win)
<1> DEFINE t == WindowEnd(s, c, ok)
           x == [s.win EXCEPT !.max = s.win.current - 1, !.busy = 0]
           ended == [s EXCEPT !.win.max = s.win.current - 1, !.win.busy = 0]
           other == SpellerSetContext(ended, NewContext(ended))
           match == IF s.win.current # 0 THEN SpellerMatch(other, other.win.word, ok) ELSE other
<1>1. CASE s.win.ctx # c
  <2>1. t = s
    BY <1>1 DEF WindowEnd
  <2> HIDE DEF t
  <2> QED BY <1>1, <2>1, SpellerOnlySelf, SpellerTouches DEF EndsWindow, t
<1>2. CASE s.win.ctx = c
  <2>1. /\ x \in WindowT /\ x.ctx = s.win.ctx /\ x.busy = 0 /\ x.max = s.win.current - 1
        /\ x.last = s.win.last /\ x.current = s.win.current /\ x.word = s.win.word
        /\ s.win.word \in Words \cup {None}
    <3>1. s.win \in WindowT
      BY DEF IsState
    <3>2. [s.win EXCEPT !.max = s.win.current - 1] \in WindowT
      BY <3>1 DEF WindowT
    <3>3. x = [[s.win EXCEPT !.max = s.win.current - 1] EXCEPT !.busy = 0]
      OBVIOUS
    <3>4. x \in WindowT
      <4> DEFINE y == [s.win EXCEPT !.max = s.win.current - 1]
      <4>1. y \in WindowT /\ x = [y EXCEPT !.busy = 0]
        BY <3>2, <3>3
      <4> HIDE DEF x, y
      <4> QED BY <4>1 DEF WindowT
    <3> QED BY <3>1, <3>4 DEF WindowT
  <2>2. ended = [s EXCEPT !.win = x]
    BY DEF IsState, Fields
  <2> HIDE DEF x, ended
  <2>3. Touches(s, ended) /\ ended.win = x /\ ended.box = s.box /\ ended.choosers = s.choosers
    BY <2>1, <2>2, WinSetTouches
  <2>4. IsState(ended)
    BY <2>3 DEF Touches
  <2>5. other.win.word = s.win.word
    <3>1. SpellerOnly(ended, other)
      BY <2>1, <2>4, SpellerMoves
    <3> QED BY <2>1, <2>3, <3>1 DEF SpellerOnly, SameWidgets
  <2>6. SpellerOnly(ended, match)
    BY <2>1, <2>4, <2>5, SpellerMoves
  <2>7. t = IF s.win.current = 0 THEN [match EXCEPT !.win.word = None] ELSE match
    BY <1>2 DEF WindowEnd, ended
  <2> HIDE DEF match, t
  <2>8. /\ Touches(s, match) /\ IsState(match) /\ match.win = x /\ match.box = s.box
        /\ match.choosers = s.choosers
    <3>1. Touches(ended, match)
      BY <2>6, SpellerTouches
    <3>2. Touches(s, match)
      BY <2>3, <3>1, TouchesChain
    <3> QED BY <2>3, <2>6, <3>2 DEF SpellerOnly, SameWidgets
  <2>9. CASE s.win.current # 0
    <3>1. t = match
      BY <2>7, <2>9
    <3> QED BY <1>2, <2>1, <2>8, <3>1 DEF EndsWindow, t
  <2>10. CASE s.win.current = 0
    <3>1. t = [match EXCEPT !.win.word = None]
      BY <2>7, <2>10
    <3>2. /\ Touches(match, t) /\ t.box = match.box /\ t.choosers = match.choosers
          /\ t.win.ctx = x.ctx /\ t.win.busy = x.busy /\ t.win.max = x.max
          /\ t.win.last = x.last /\ t.win.current = x.current
      BY <2>8, <3>1, WordReset
    <3>3. Touches(s, t)
      BY <2>8, <3>2, TouchesChain
    <3> QED BY <1>2, <2>1, <2>8, <3>2, <3>3 DEF EndsWindow, t
  <2> QED BY <2>9, <2>10
<1> QED BY <1>1, <1>2

LEMMA WindowErrorIs ==
  ASSUME NEW s, IsState(s), NEW c \in Ctxs, NEW no_match, NEW ok
  PROVE  LET t == WindowError(s, c, no_match, ok)
         IN  /\ Touches(s, t) /\ t.box = s.box /\ t.choosers = s.choosers
             /\ FailsWindow(s, c, t.win) /\ (s.win.ctx # c => t.queue = s.queue)
<1> DEFINE t == WindowError(s, c, no_match, ok)
           x == [s.win EXCEPT !.busy = 0]
           shown == [s EXCEPT !.win.busy = 0]
           other == SpellerSetContext(shown, NewContext(shown))
           match == IF no_match THEN SpellerMatch(other, other.win.word, ok) ELSE shown
<1>1. CASE s.win.ctx # c
  <2>1. t = s
    BY <1>1 DEF WindowError
  <2> HIDE DEF t
  <2> QED BY <1>1, <2>1, SpellerOnlySelf, SpellerTouches DEF FailsWindow, t
<1>2. CASE s.win.ctx = c
  <2>1. /\ x \in WindowT /\ x.ctx = s.win.ctx /\ x.busy = 0 /\ x.max = s.win.max
        /\ x.last = s.win.last /\ x.current = s.win.current /\ x.word = s.win.word
        /\ s.win.word \in Words \cup {None}
    <3>1. s.win \in WindowT
      BY DEF IsState
    <3> QED BY <3>1 DEF WindowT
  <2>2. shown = [s EXCEPT !.win = x]
    BY DEF IsState, Fields
  <2> HIDE DEF x, shown
  <2>3. Touches(s, shown) /\ shown.win = x /\ shown.box = s.box /\ shown.choosers = s.choosers
    BY <2>1, <2>2, WinSetTouches
  <2>4. IsState(shown)
    BY <2>3 DEF Touches
  <2>5. other.win.word = s.win.word
    <3>1. SpellerOnly(shown, other)
      BY <2>1, <2>4, SpellerMoves
    <3> QED BY <2>1, <2>3, <3>1 DEF SpellerOnly, SameWidgets
  <2>6. SpellerOnly(shown, match)
    <3>1. SpellerOnly(shown, SpellerMatch(other, other.win.word, ok))
      BY <2>1, <2>4, <2>5, SpellerMoves
    <3> QED BY <2>4, <3>1, SpellerOnlySelf
  <2>7. t = [match EXCEPT !.win.word = None]
    BY <1>2 DEF WindowError, shown
  <2> HIDE DEF match, t
  <2>8. /\ Touches(s, match) /\ IsState(match) /\ match.win = x /\ match.box = s.box
        /\ match.choosers = s.choosers
    <3>1. Touches(shown, match)
      BY <2>6, SpellerTouches
    <3>2. Touches(s, match)
      BY <2>3, <3>1, TouchesChain
    <3> QED BY <2>3, <2>6, <3>2 DEF SpellerOnly, SameWidgets
  <2>9. /\ Touches(match, t) /\ t.box = match.box /\ t.choosers = match.choosers
        /\ t.win.ctx = x.ctx /\ t.win.busy = x.busy /\ t.win.max = x.max
        /\ t.win.last = x.last /\ t.win.current = x.current
    BY <2>7, <2>8, WordReset
  <2>10. Touches(s, t)
    BY <2>8, <2>9, TouchesChain
  <2> QED BY <1>2, <2>1, <2>8, <2>9, <2>10 DEF FailsWindow, t
<1> QED BY <1>1, <1>2

LEMMA EndedIs ==
  ASSUME NEW s, IsState(s), NEW c \in Ctxs, NEW ok
  PROVE  LET t == Ended(s, c, ok)
         IN  /\ Touches(s, t) /\ EndsWindow(s, c, t.win)
             /\ t.box = BoxHas(s, c, 0) /\ t.choosers = ChoosersHave(s, c, 0)
<1> DEFINE t1 == WindowEnd(s, c, ok)
           t2 == BoxEnd(t1, c)
           t3 == SpellerEnd(t2, c)
           t4 == ChooserEnd(t3, c)
<1>0. Ended(s, c, ok) = t4
  BY DEF Ended
<1>1. /\ Touches(s, t1) /\ EndsWindow(s, c, t1.win) /\ t1.box = s.box
      /\ t1.choosers = s.choosers /\ IsState(t1)
  BY WindowEndIs DEF Touches
<1> HIDE DEF t1
<1>2. /\ Heard(t1, t2) /\ t2.win = t1.win /\ t2.box = BoxHas(t1, c, 0)
      /\ t2.choosers = t1.choosers /\ IsState(t2)
  BY <1>1, BoxEndIs DEF Heard
<1> HIDE DEF t2
<1>3. Heard(t2, t3) /\ t3.win = t2.win /\ t3.box = t2.box /\ t3.choosers = t2.choosers /\ IsState(t3)
  BY <1>2, SpellerHears, SpellerHeard DEF SpellerOnly
<1> HIDE DEF t3
<1>4. Heard(t3, t4) /\ t4.win = t3.win /\ t4.box = t3.box /\ t4.choosers = ChoosersHave(t3, c, 0)
  BY <1>3, ChooserEndIs
<1> HIDE DEF t4
<1>5. Touches(s, t4)
  <2>1. Heard(t1, t4) /\ t4.win = t1.win
    BY <1>2, <1>3, <1>4, HeardChain
  <2>2. Touches(t1, t4)
    BY <2>1, HeardTouches
  <2> QED BY <1>1, <2>2, TouchesChain
<1>6. t2.box = BoxHas(s, c, 0) /\ ChoosersHave(t3, c, 0) = ChoosersHave(s, c, 0)
  BY <1>1, <1>2, <1>3 DEF BoxHas, ChoosersHave
<1> QED BY <1>0, <1>1, <1>2, <1>3, <1>4, <1>5, <1>6

LEMMA FailedIs ==
  ASSUME NEW s, IsState(s), NEW c \in Ctxs, NEW no_match, NEW ok
  PROVE  LET t == Failed(s, c, no_match, ok)
         IN  /\ Touches(s, t) /\ FailsWindow(s, c, t.win)
             /\ s.win.ctx # c => t.queue = s.queue
             /\ t.box = BoxFailed(s, c) /\ t.choosers = ChoosersHave(s, c, 0)
<1> DEFINE t1 == WindowError(s, c, no_match, ok)
           t2 == BoxError(t1, c)
           t3 == SpellerError(t2, c)
           t4 == ChooserError(t3, c)
<1>0. Failed(s, c, no_match, ok) = t4
  BY DEF Failed
<1>1. /\ Touches(s, t1) /\ FailsWindow(s, c, t1.win) /\ t1.box = s.box
      /\ t1.choosers = s.choosers /\ IsState(t1) /\ (s.win.ctx # c => t1.queue = s.queue)
  BY WindowErrorIs DEF Touches
<1> HIDE DEF t1
<1>2. /\ Heard(t1, t2) /\ t2.win = t1.win /\ t2.box = BoxFailed(t1, c)
      /\ t2.choosers = t1.choosers /\ IsState(t2)
  BY <1>1, BoxErrorIs DEF Heard
<1> HIDE DEF t2
<1>3. Heard(t2, t3) /\ t3.win = t2.win /\ t3.box = t2.box /\ t3.choosers = t2.choosers /\ IsState(t3)
  BY <1>2, SpellerHears, SpellerHeard DEF SpellerOnly
<1> HIDE DEF t3
<1>4. Heard(t3, t4) /\ t4.win = t3.win /\ t4.box = t3.box /\ t4.choosers = ChoosersHave(t3, c, 0)
  <2>1. t4 = ChooserEnd(t3, c)
    BY DEF ChooserError, ChooserEnd
  <2> QED BY <1>3, <2>1, ChooserEndIs
<1> HIDE DEF t4
<1>5. Touches(s, t4)
  <2>1. Heard(t1, t4) /\ t4.win = t1.win
    BY <1>2, <1>3, <1>4, HeardChain
  <2>2. Touches(t1, t4)
    BY <2>1, HeardTouches
  <2> QED BY <1>1, <2>2, TouchesChain
<1>6. t2.box = BoxFailed(s, c) /\ ChoosersHave(t3, c, 0) = ChoosersHave(s, c, 0)
  BY <1>1, <1>2, <1>3 DEF BoxFailed, ChoosersHave
<1>7. s.win.ctx # c => t4.queue = s.queue
  BY <1>1, <1>2, <1>3, <1>4 DEF Heard
<1> QED BY <1>0, <1>1, <1>2, <1>3, <1>4, <1>5, <1>6, <1>7

-----------------------------------------------------------------------------
(* The fields after a signal.                                              *)

LEMMA OneContext ==
  ASSUME NEW s, IsState(s)
  PROVE  /\ s.box.ctx \in Ctxs => s.win.ctx = s.box.ctx
         /\ s.win.ctx \in Ctxs => s.win.ctx = s.box.ctx
         /\ \A k \in Choosers : s.choosers[k].ctx = s.win.ctx
  BY NoneAssumption DEF IsState

LEMMA BoxFields ==
  ASSUME NEW s, IsState(s), NEW c, NEW busy
  PROVE  LET b == BoxHas(s, c, busy)
         IN  /\ b.ctx = s.box.ctx /\ b.on = s.box.on /\ b.word = s.box.word /\ b.defs = s.box.defs
             /\ b.busy = IF s.box.ctx = c /\ s.box.on = 1 THEN busy ELSE s.box.busy
<1>1. s.box \in BoxT
  BY DEF IsState
<1> QED BY <1>1 DEF BoxHas, BoxT

LEMMA BoxFailedFields ==
  ASSUME NEW s, IsState(s), NEW c
  PROVE  LET b == BoxFailed(s, c)
         IN  /\ b.ctx = s.box.ctx /\ b.on = s.box.on
             /\ b.busy = IF s.box.ctx = c /\ s.box.on = 1 THEN 0 ELSE s.box.busy
             /\ b.word = IF s.box.ctx = c /\ s.box.on = 1 THEN None ELSE s.box.word
             /\ b.defs = IF s.box.ctx = c /\ s.box.on = 1 THEN <<>> ELSE s.box.defs
<1>1. s.box \in BoxT
  BY DEF IsState
<1> QED BY <1>1 DEF BoxFailed, BoxT

LEMMA ChooserFields ==
  ASSUME NEW s, IsState(s), NEW c, NEW busy, NEW k \in Choosers
  PROVE  LET x == ChoosersHave(s, c, busy)[k]
         IN  /\ x.ctx = s.choosers[k].ctx /\ x.on = s.choosers[k].on
             /\ x.busy = IF s.choosers[k].ctx = c /\ s.choosers[k].on = 1
                         THEN busy ELSE s.choosers[k].busy
<1>1. s.choosers[k] \in ChooserT
  BY DEF IsState
<1> QED BY <1>1 DEF ChoosersHave, ChooserT

(* A context of the speller's own is nobody else's. *)
LEMMA Unconnected ==
  ASSUME NEW s, IsState(s), NEW c \in Ctxs, c # s.win.ctx, NEW busy
  PROVE  /\ BoxHas(s, c, busy) = s.box /\ BoxFailed(s, c) = s.box
         /\ ChoosersHave(s, c, busy) = s.choosers
<1>1. s.box.ctx # c /\ \A k \in Choosers : s.choosers[k].ctx # c
  BY OneContext
<1>2. s.choosers = [k \in Choosers |-> s.choosers[k]]
  BY DEF IsState
<1> QED BY <1>1, <1>2 DEF BoxHas, BoxFailed, ChoosersHave

LEMMA QueueElsewhere ==
  ASSUME NEW s, IsState(s), NEW c \in Ctxs, c # s.win.ctx, NEW q \in Seq(Lookups),
         \A i \in DOMAIN s.nested : s.nested[i].ctx # c
  PROVE  SpellerOnly(s, [s EXCEPT !.queue[c] = q])
<1> DEFINE t == [s EXCEPT !.queue[c] = q]
<1>1. /\ IsState(t) /\ \A d \in Ctxs \ {c} : t.queue[d] = s.queue[d]
      /\ SameWidgets(s, t) /\ SameRest(s, t)
  BY QueueSet
<1> HIDE DEF t
<1>2. \A i \in DOMAIN s.nested : s.nested[i].ctx \in Ctxs \ {c}
  BY NestedTyped
<1>3. SameQueues(s, t)
  BY <1>1, <1>2 DEF SameQueues
<1> QED BY <1>1, <1>3 DEF SpellerOnly, t

-----------------------------------------------------------------------------
(* What the speller does is nobody else's business.                        *)

LEMMA ShowsStill ==
  ASSUME NEW s, NEW t, SameQueues(s, t), t.nested = s.nested, ShowsInTurn(s)
  PROVE  ShowsInTurn(t)
<1> SUFFICES ASSUME NEW i \in DOMAIN s.nested
             PROVE  /\ t.queue[s.nested[i].ctx] # <<>>
                    /\ t.queue[s.nested[i].ctx][1].kind = "define"
  BY DEF ShowsInTurn
<1>1. s.queue[s.nested[i].ctx] # <<>> /\ s.queue[s.nested[i].ctx][1].kind = "define"
  BY DEF ShowsInTurn
<1> QED BY <1>1 DEF SameQueues

LEMMA QuietFits ==
  ASSUME NEW s, NEW t, Fits(s), SpellerOnly(s, t)
  PROVE  Fits(t)
<1>1. /\ IsState(s) /\ IsState(t) /\ SameQueues(s, t) /\ SameRest(s, t)
      /\ t.win = s.win /\ t.box = s.box /\ t.choosers = s.choosers
  BY DEF SpellerOnly, SameWidgets, Fits
<1>2. t.nested = s.nested /\ t.past = s.past /\ t.undefined = s.undefined
  BY <1>1 DEF SameRest
<1>3. /\ s.win.ctx \in Ctxs => t.queue[s.win.ctx] = s.queue[s.win.ctx]
      /\ s.box.ctx \in Ctxs => t.queue[s.box.ctx] = s.queue[s.box.ctx]
      /\ \A k \in Choosers : s.choosers[k].ctx = s.win.ctx
  BY <1>1, OneContext DEF SameQueues
<1>4. ShowsInTurn(s) => ShowsInTurn(t)
  BY <1>1, <1>2, ShowsStill
<1>5. Pends(s) => Pends(t)
  BY <1>1, <1>3 DEF Pends
<1>6. OneOfTheBox(s) => OneOfTheBox(t)
  BY <1>1, <1>3 DEF OneOfTheBox
<1>7. Counts(s) => Counts(t)
  BY <1>1, <1>2, <1>3 DEF Counts
<1> QED BY <1>1, <1>2, <1>4, <1>5, <1>6, <1>7 DEF Fits

(* Contexts let go of are emptied; nobody looks at them. *)
Settles(s, t) ==
  /\ t.queue = [c \in Ctxs |-> IF c \in Held(s) THEN s.queue[c] ELSE <<>>]
  /\ t.win = s.win /\ t.box = s.box /\ t.spell = s.spell /\ t.choosers = s.choosers
  /\ t.nested = s.nested /\ t.past = s.past /\ t.undefined = s.undefined
  /\ t = [f \in Fields |-> t[f]]

LEMMA SettlesGood ==
  ASSUME NEW s, NEW t, Fits(s), Settles(s, t)
  PROVE  Good(t)
<1>1. IsState(s)
  BY DEF Fits
<1>2. Held(t) = Held(s)
  BY DEF Settles, Held
<1>3. \A c \in Ctxs \ Held(t) : t.queue[c] = <<>>
  BY <1>2 DEF Settles
<1>4. \A c \in Ctxs : c \in Held(s) => t.queue[c] = s.queue[c]
  BY DEF Settles
<1>5. IsState(t)
  <2>1. \A c \in Ctxs : s.queue[c] \in Seq(Lookups)
    BY <1>1 DEF IsState
  <2>2. <<>> \in Seq(Lookups)
    OBVIOUS
  <2>3. t.queue \in [Ctxs -> Seq(Lookups)]
    BY <2>1, <2>2 DEF Settles
  <2> QED BY <1>1, <2>3 DEF Settles, IsState
<1>6. SameQueues(s, t)
  <2>1. s.win.ctx \in Ctxs => s.win.ctx \in Held(s)
    BY DEF Held
  <2>2. \A i \in DOMAIN s.nested : s.nested[i].ctx \in Ctxs /\ s.nested[i].ctx \in Held(s)
    BY <1>1, NestedTyped DEF Held
  <2> QED BY <1>4, <2>1, <2>2 DEF SameQueues
<1>7. SpellerOnly(s, t)
  BY <1>5, <1>6 DEF SpellerOnly, SameWidgets, SameRest, Settles
<1>8. Fits(t)
  BY <1>7, QuietFits
<1> QED BY <1>3, <1>8 DEF Good

LEMMA BecomesGood ==
  ASSUME NEW s, Fits(s), Becomes(s)
  PROVE  Good(Now')
<1>1. Settles(s, Now')
  BY DEF Becomes, Settles, Now, Fields
<1> QED BY <1>1, SettlesGood

-----------------------------------------------------------------------------
(* A context answers.                                                      *)

Answering(s, c) ==
  /\ s.undefined = 0 /\ s.queue[c] # <<>>
  /\ \A i \in DOMAIN s.nested : s.nested[i].ctx # c

LEMMA AnsweringTyped ==
  ASSUME NEW s, IsState(s), NEW c \in Ctxs, s.queue[c] # <<>>
  PROVE  /\ s.queue[c] \in Seq(Lookups) /\ Len(s.queue[c]) \in Nat /\ Len(s.queue[c]) > 0
         /\ Head(s.queue[c]) = s.queue[c][1] /\ s.queue[c][1] \in Lookups
         /\ Tail(s.queue[c]) \in Seq(Lookups) /\ (Len(s.queue[c]) = 1 => Tail(s.queue[c]) = <<>>)
<1> DEFINE q == s.queue[c]
<1>1. q \in Seq(Lookups) /\ q # <<>>
  BY DEF IsState
<1> HIDE DEF q
<1>2. Len(q) \in Nat /\ Len(q) > 0 /\ Head(q) = q[1] /\ q[1] \in Lookups
  BY <1>1
<1>3. Tail(q) \in Seq(Lookups) /\ Len(Tail(q)) = Len(q) - 1
  BY <1>1, <1>2
<1>4. Len(q) = 1 => Tail(q) = <<>>
  <2> DEFINE r == Tail(q)
  <2>1. r \in Seq(Lookups) /\ Len(r) = Len(q) - 1
    BY <1>3
  <2> HIDE DEF r
  <2>2. Len(r) = 0 => r = <<>>
    BY <2>1
  <2> QED BY <1>2, <2>1, <2>2 DEF r
<1> QED BY <1>1, <1>2, <1>3, <1>4 DEF q

(* Another queue for the context of the window. *)
LEMMA QueueOfWindow ==
  ASSUME NEW s, IsState(s), NEW c \in Ctxs, c = s.win.ctx, NEW q \in Seq(Lookups),
         \A i \in DOMAIN s.nested : s.nested[i].ctx # c
  PROVE  LET t == [s EXCEPT !.queue[c] = q]
         IN  /\ IsState(t) /\ t.queue[c] = q /\ SameWidgets(s, t) /\ SameRest(s, t)
             /\ ShowsInTurn(s) => ShowsInTurn(t)
<1> DEFINE t == [s EXCEPT !.queue[c] = q]
<1>1. /\ IsState(t) /\ t.queue[c] = q /\ \A d \in Ctxs \ {c} : t.queue[d] = s.queue[d]
      /\ SameWidgets(s, t) /\ SameRest(s, t)
  BY QueueSet
<1> HIDE DEF t
<1>2. \A i \in DOMAIN s.nested : s.nested[i].ctx \in Ctxs \ {c}
  BY NestedTyped
<1>3. t.nested = s.nested
  BY <1>1 DEF SameRest
<1>4. ShowsInTurn(s) => ShowsInTurn(t)
  BY <1>1, <1>2, <1>3 DEF ShowsInTurn
<1> QED BY <1>1, <1>4 DEF t

LEMMA TouchesKeeps ==
  ASSUME NEW s, NEW t, Touches(s, t), s.win.ctx \in Ctxs
  PROVE  /\ t.queue[s.win.ctx] = s.queue[s.win.ctx] /\ t.win.ctx = s.win.ctx
         /\ t.nested = s.nested /\ t.past = s.past /\ t.undefined = s.undefined
         /\ IsState(t)
         /\ ShowsInTurn(s) => ShowsInTurn(t)
<1>1. SameQueues(s, t) /\ SameRest(s, t) /\ IsState(t) /\ t.win.ctx = s.win.ctx
  BY DEF Touches
<1>2. ShowsInTurn(s) => ShowsInTurn(t)
  BY <1>1, ShowsStill DEF SameRest
<1> QED BY <1>1, <1>2 DEF SameQueues, SameRest

LEMMA EndFits ==
  ASSUME NEW s, Fits(s), NEW c \in Ctxs, Answering(s, c), NEW ok
  PROVE  Fits(Ended(Popped(s, c), c, ok))
<1> DEFINE p == Popped(s, c)
           t == Ended(p, c, ok)
           q == Tail(s.queue[c])
<1>1. IsState(s) /\ s.undefined = 0 /\ s.queue[c] # <<>> /\ \A i \in DOMAIN s.nested : s.nested[i].ctx # c
  BY DEF Fits, Answering
<1>2. q \in Seq(Lookups) /\ (Len(s.queue[c]) = 1 => q = <<>>)
  BY <1>1, AnsweringTyped
<1>3. p = [s EXCEPT !.queue[c] = q]
  BY <1>1 DEF Popped, IsState, Fields
<1> HIDE DEF p, q
<1>4. CASE c # s.win.ctx
  <2>1. SpellerOnly(s, p)
    BY <1>1, <1>2, <1>3, <1>4, QueueElsewhere
  <2>2. IsState(p) /\ p.win = s.win
    BY <2>1 DEF SpellerOnly, SameWidgets
  <2>3. Touches(p, t) /\ t.win = p.win /\ t.box = p.box /\ t.choosers = p.choosers
    BY <1>4, <2>2, EndedIs, Unconnected DEF EndsWindow
  <2> HIDE DEF t
  <2>4. SpellerOnly(p, t)
    BY <2>3 DEF SpellerOnly, Touches, SameWidgets
  <2>5. Fits(t)
    BY <2>1, <2>4, SpellerOnlyChain, QuietFits
  <2> QED BY <2>5 DEF t, p
<1>5. CASE c = s.win.ctx
  <2>1. /\ IsState(p) /\ p.queue[c] = q /\ p.win = s.win /\ p.box = s.box /\ p.choosers = s.choosers
        /\ p.nested = s.nested /\ p.past = s.past /\ p.undefined = s.undefined
        /\ ShowsInTurn(s) => ShowsInTurn(p)
    BY <1>1, <1>2, <1>3, <1>5, QueueOfWindow DEF SameWidgets, SameRest
  <2>2. /\ Touches(p, t) /\ EndsWindow(p, c, t.win)
        /\ t.box = BoxHas(p, c, 0) /\ t.choosers = ChoosersHave(p, c, 0)
    BY <2>1, EndedIs
  <2> HIDE DEF t
  <2>3. /\ t.queue[c] = q /\ t.win.ctx = c
        /\ t.nested = s.nested /\ t.past = s.past /\ t.undefined = s.undefined
        /\ IsState(t)
        /\ ShowsInTurn(s) => ShowsInTurn(t)
    BY <1>5, <2>1, <2>2, TouchesKeeps
  <2>4. s.box.ctx = c /\ t.box.ctx = c /\ \A k \in Choosers : s.choosers[k].ctx = c /\ t.choosers[k].ctx = c
    <3>1. s.box.ctx = c /\ \A k \in Choosers : s.choosers[k].ctx = c
      BY <1>1, <1>5, OneContext
    <3>2. t.box.ctx = c /\ \A k \in Choosers : t.choosers[k].ctx = c
      BY <2>3, OneContext
    <3> QED BY <3>1, <3>2
  <2>5. /\ t.box.on = s.box.on /\ t.box.word = s.box.word /\ t.box.defs = s.box.defs
        /\ t.box.busy = IF s.box.on = 1 THEN 0 ELSE s.box.busy
    BY <2>1, <2>2, <2>4, BoxFields
  <2>6. \A k \in Choosers :
          /\ t.choosers[k].on = s.choosers[k].on
          /\ t.choosers[k].busy = IF s.choosers[k].on = 1 THEN 0 ELSE s.choosers[k].busy
    BY <2>1, <2>2, <2>4, ChooserFields
  <2>7. Pends(s) => Pends(t)
    BY <1>5, <2>4, <2>5, <2>6 DEF Pends
  <2>8. OneOfTheBox(s) => OneOfTheBox(t)
    BY <1>1, <1>2, <2>3, <2>4, <2>5 DEF OneOfTheBox
  <2>9. Counts(s) /\ OneOfTheBox(s) => Counts(t)
    <3> SUFFICES ASSUME Counts(s), OneOfTheBox(s) PROVE Counts(t)
      OBVIOUS
    <3>1. s.win.current = Len(s.box.defs) /\ s.win.last = 0 /\ Len(s.nested) <= 1
      BY <1>1, <1>5 DEF Counts
    <3>2. Len(s.queue[c]) = 1
      BY <1>1, <2>4 DEF OneOfTheBox
    <3>3. t.win.busy = 0 /\ t.win.max = s.win.current - 1 /\ t.win.last = 0
      BY <1>5, <2>1, <2>2, <3>1 DEF EndsWindow
    <3>4. s.win.current \in Nat
      BY <1>1 DEF IsState, WindowT
    <3>5. t.queue[c] = <<>> /\ DOMAIN t.nested = {}
      <4>1. DOMAIN s.nested = {}
        BY <1>1, <1>5 DEF Counts
      <4> QED BY <1>2, <2>3, <3>2, <4>1
    <3> QED BY <2>3, <2>5, <3>1, <3>3, <3>4, <3>5 DEF Counts
  <2>10. Fits(t)
    <3>1. s.past = {} => "shared" \notin s.past
      OBVIOUS
    <3>2. /\ ShowsInTurn(s)
          /\ s.past \cap {"moved", "lost"} = {} => Pends(s)
          /\ "shared" \notin s.past => OneOfTheBox(s)
          /\ s.past = {} => Counts(s)
      BY <1>1 DEF Fits
    <3> QED BY <2>3, <2>7, <2>8, <2>9, <3>1, <3>2 DEF Fits
  <2> QED BY <2>10 DEF t, p
<1> QED BY <1>4, <1>5

LEMMA ErrorFits ==
  ASSUME NEW s, Fits(s), NEW c \in Ctxs, Answering(s, c), s.queue[c][1].found = 0,
         NEW no_match, NEW ok, NEW again
  PROVE  Fits(Ended(Popped(Failed(s, c, no_match, ok), c), c, again))
<1> DEFINE f == Failed(s, c, no_match, ok)
           p == Popped(f, c)
           t == Ended(p, c, again)
           q == Tail(f.queue[c])
<1>1. IsState(s) /\ s.undefined = 0 /\ s.queue[c] # <<>> /\ \A i \in DOMAIN s.nested : s.nested[i].ctx # c
  BY DEF Fits, Answering
<1>2. /\ Touches(s, f) /\ FailsWindow(s, c, f.win) /\ (s.win.ctx # c => f.queue = s.queue)
      /\ f.box = BoxFailed(s, c) /\ f.choosers = ChoosersHave(s, c, 0)
  BY <1>1, FailedIs
<1> HIDE DEF f
<1>3. /\ IsState(f) /\ f.queue[c] = s.queue[c] /\ f.win.ctx = s.win.ctx
      /\ \A i \in DOMAIN f.nested : f.nested[i].ctx # c
  <2>1. f.nested = s.nested /\ IsState(f) /\ f.win.ctx = s.win.ctx
    BY <1>2 DEF Touches, SameRest
  <2>2. f.queue[c] = s.queue[c]
    BY <1>2 DEF Touches, SameQueues
  <2> QED BY <1>1, <2>1, <2>2
<1>4. q \in Seq(Lookups) /\ (Len(s.queue[c]) = 1 => q = <<>>)
  BY <1>1, <1>3, AnsweringTyped
<1>5. p = [f EXCEPT !.queue[c] = q]
  BY <1>3 DEF Popped, IsState, Fields
<1> HIDE DEF p, q
<1>6. CASE c # s.win.ctx
  <2>1. SpellerOnly(s, f)
    BY <1>1, <1>2, <1>6, Unconnected DEF SpellerOnly, Touches, SameWidgets, FailsWindow
  <2>2. SpellerOnly(f, p)
    BY <1>3, <1>4, <1>5, <1>6, QueueElsewhere
  <2>3. IsState(p) /\ p.win.ctx = s.win.ctx
    BY <1>3, <2>2 DEF SpellerOnly, SameWidgets
  <2>4. Touches(p, t) /\ t.win = p.win /\ t.box = p.box /\ t.choosers = p.choosers
    BY <1>6, <2>3, EndedIs, Unconnected DEF EndsWindow
  <2> HIDE DEF t
  <2>5. SpellerOnly(p, t)
    BY <2>4 DEF SpellerOnly, Touches, SameWidgets
  <2>6. SpellerOnly(s, p)
    BY <2>1, <2>2, SpellerOnlyChain
  <2>7. Fits(t)
    BY <2>5, <2>6, SpellerOnlyChain, QuietFits
  <2> QED BY <2>7 DEF t, p, f
<1>7. CASE c = s.win.ctx
  <2>0. /\ f.nested = s.nested /\ f.past = s.past /\ f.undefined = s.undefined
        /\ ShowsInTurn(s) => ShowsInTurn(f)
    BY <1>2, <1>7, TouchesKeeps
  <2>1. /\ IsState(p) /\ p.queue[c] = q /\ p.win = f.win /\ p.box = f.box /\ p.choosers = f.choosers
        /\ p.nested = s.nested /\ p.past = s.past /\ p.undefined = s.undefined
        /\ ShowsInTurn(s) => ShowsInTurn(p)
    BY <1>3, <1>4, <1>5, <1>7, <2>0, QueueOfWindow DEF SameWidgets, SameRest
  <2>2. /\ Touches(p, t) /\ EndsWindow(p, c, t.win)
        /\ t.box = BoxHas(p, c, 0) /\ t.choosers = ChoosersHave(p, c, 0)
    BY <2>1, EndedIs
  <2> HIDE DEF t
  <2>3. /\ t.queue[c] = q /\ t.win.ctx = c
        /\ t.nested = s.nested /\ t.past = s.past /\ t.undefined = s.undefined
        /\ IsState(t)
        /\ ShowsInTurn(s) => ShowsInTurn(t)
    BY <1>3, <1>7, <2>1, <2>2, TouchesKeeps
  <2>4. /\ s.box.ctx = c /\ p.box.ctx = c /\ t.box.ctx = c
        /\ \A k \in Choosers : s.choosers[k].ctx = c /\ p.choosers[k].ctx = c /\ t.choosers[k].ctx = c
    <3>1. s.box.ctx = c /\ \A k \in Choosers : s.choosers[k].ctx = c
      BY <1>1, <1>7, OneContext
    <3>2. t.box.ctx = c /\ \A k \in Choosers : t.choosers[k].ctx = c
      BY <2>3, OneContext
    <3>3. p.box.ctx = c /\ \A k \in Choosers : p.choosers[k].ctx = c
      BY <1>3, <1>7, <2>1, OneContext
    <3> QED BY <3>1, <3>2, <3>3
  <2>5. /\ t.box.on = s.box.on
        /\ t.box.busy = IF s.box.on = 1 THEN 0 ELSE s.box.busy
        /\ t.box.word = IF s.box.on = 1 THEN None ELSE s.box.word
        /\ t.box.defs = IF s.box.on = 1 THEN <<>> ELSE s.box.defs
    <3>1. /\ p.box.on = s.box.on
          /\ p.box.busy = IF s.box.on = 1 THEN 0 ELSE s.box.busy
          /\ p.box.word = IF s.box.on = 1 THEN None ELSE s.box.word
          /\ p.box.defs = IF s.box.on = 1 THEN <<>> ELSE s.box.defs
      BY <1>1, <1>2, <2>1, <2>4, BoxFailedFields
    <3>2. /\ t.box.on = p.box.on /\ t.box.word = p.box.word /\ t.box.defs = p.box.defs
          /\ t.box.busy = IF p.box.on = 1 THEN 0 ELSE p.box.busy
      BY <2>1, <2>2, <2>4, BoxFields
    <3> QED BY <3>1, <3>2
  <2>6. ASSUME NEW k \in Choosers
        PROVE  /\ t.choosers[k].on = s.choosers[k].on
               /\ t.choosers[k].busy = IF s.choosers[k].on = 1 THEN 0 ELSE s.choosers[k].busy
    <3>1. /\ p.choosers[k].on = s.choosers[k].on
          /\ p.choosers[k].busy = IF s.choosers[k].on = 1 THEN 0 ELSE s.choosers[k].busy
      BY <1>1, <1>2, <2>1, <2>4, ChooserFields
    <3>2. /\ t.choosers[k].on = p.choosers[k].on
          /\ t.choosers[k].busy = IF p.choosers[k].on = 1 THEN 0 ELSE p.choosers[k].busy
      BY <2>1, <2>2, <2>4, ChooserFields
    <3> QED BY <3>1, <3>2
  <2>7. Pends(s) => Pends(t)
    BY <1>7, <2>4, <2>5, <2>6 DEF Pends
  <2>8. OneOfTheBox(s) => OneOfTheBox(t)
    BY <1>1, <1>4, <2>3, <2>4, <2>5 DEF OneOfTheBox
  <2>9. Counts(s) /\ OneOfTheBox(s) => Counts(t)
    <3> SUFFICES ASSUME Counts(s), OneOfTheBox(s) PROVE Counts(t)
      OBVIOUS
    <3>1. s.win.current = 0 /\ s.win.last = 0 /\ Len(s.nested) <= 1
      BY <1>1, <1>7 DEF Counts
    <3>2. Len(s.queue[c]) = 1
      BY <1>1, <2>4 DEF OneOfTheBox
    <3>3. t.win.busy = 0 /\ t.win.max = -1 /\ t.win.last = 0
      <4>1. p.win.current = 0 /\ p.win.last = 0
        BY <1>2, <1>7, <2>1, <3>1 DEF FailsWindow
      <4> QED BY <1>3, <1>7, <2>1, <2>2, <4>1 DEF EndsWindow
    <3>5. t.queue[c] = <<>> /\ DOMAIN t.nested = {}
      <4>1. DOMAIN s.nested = {}
        BY <1>1, <1>7 DEF Counts
      <4> QED BY <1>4, <2>3, <3>2, <4>1
    <3> QED BY <2>3, <3>1, <3>3, <3>5 DEF Counts
  <2>10. Fits(t)
    <3>1. s.past = {} => "shared" \notin s.past
      OBVIOUS
    <3>2. /\ ShowsInTurn(s)
          /\ s.past \cap {"moved", "lost"} = {} => Pends(s)
          /\ "shared" \notin s.past => OneOfTheBox(s)
          /\ s.past = {} => Counts(s)
      BY <1>1 DEF Fits
    <3> QED BY <2>3, <2>7, <2>8, <2>9, <3>1, <3>2 DEF Fits
  <2> QED BY <2>10 DEF t, p, f
<1> QED BY <1>6, <1>7

LEMMA BrokenFits ==
  ASSUME NEW s, Fits(s), NEW c \in Ctxs, Answering(s, c), NEW no_match, NEW ok
  PROVE  Fits([Failed(s, c, no_match, ok) EXCEPT !.queue[c] = <<>>])
<1> DEFINE f == Failed(s, c, no_match, ok)
           t == [f EXCEPT !.queue[c] = <<>>]
<1>1. IsState(s) /\ s.undefined = 0 /\ s.queue[c] # <<>> /\ \A i \in DOMAIN s.nested : s.nested[i].ctx # c
  BY DEF Fits, Answering
<1>2. /\ Touches(s, f) /\ FailsWindow(s, c, f.win)
      /\ f.box = BoxFailed(s, c) /\ f.choosers = ChoosersHave(s, c, 0)
  BY <1>1, FailedIs
<1> HIDE DEF f
<1>3. /\ IsState(f) /\ f.win.ctx = s.win.ctx
      /\ f.nested = s.nested /\ f.past = s.past /\ f.undefined = s.undefined
      /\ \A i \in DOMAIN f.nested : f.nested[i].ctx # c
  BY <1>1, <1>2 DEF Touches, SameRest
<1>4. <<>> \in Seq(Lookups)
  OBVIOUS
<1>6. CASE c # s.win.ctx
  <2>1. SpellerOnly(s, f)
    BY <1>1, <1>2, <1>6, Unconnected DEF SpellerOnly, Touches, SameWidgets, FailsWindow
  <2>2. SpellerOnly(f, t)
    BY <1>3, <1>4, <1>6, QueueElsewhere
  <2> HIDE DEF t
  <2>3. Fits(t)
    BY <2>1, <2>2, SpellerOnlyChain, QuietFits
  <2> QED BY <2>3 DEF t, f
<1>7. CASE c = s.win.ctx
  <2>1. ShowsInTurn(s) => ShowsInTurn(f)
    BY <1>2, <1>7, TouchesKeeps
  <2>3. /\ IsState(t) /\ t.queue[c] = <<>> /\ t.win = f.win /\ t.box = f.box /\ t.choosers = f.choosers
        /\ t.nested = s.nested /\ t.past = s.past /\ t.undefined = s.undefined
        /\ ShowsInTurn(s) => ShowsInTurn(t)
    <3>1. /\ IsState(t) /\ t.queue[c] = <<>> /\ SameWidgets(f, t) /\ SameRest(f, t)
          /\ ShowsInTurn(f) => ShowsInTurn(t)
      BY <1>3, <1>4, <1>7, QueueOfWindow
    <3> QED BY <1>3, <2>1, <3>1 DEF SameWidgets, SameRest
  <2> HIDE DEF t
  <2>4. s.box.ctx = c /\ t.box.ctx = c /\ \A k \in Choosers : s.choosers[k].ctx = c /\ t.choosers[k].ctx = c
    <3>1. s.box.ctx = c /\ \A k \in Choosers : s.choosers[k].ctx = c
      BY <1>1, <1>7, OneContext
    <3>2. t.box.ctx = c /\ \A k \in Choosers : t.choosers[k].ctx = c
      BY <1>3, <1>7, <2>3, OneContext
    <3> QED BY <3>1, <3>2
  <2>5. /\ t.box.on = s.box.on
        /\ t.box.busy = IF s.box.on = 1 THEN 0 ELSE s.box.busy
        /\ t.box.word = IF s.box.on = 1 THEN None ELSE s.box.word
        /\ t.box.defs = IF s.box.on = 1 THEN <<>> ELSE s.box.defs
    BY <1>1, <1>2, <2>3, <2>4, BoxFailedFields
  <2>6. \A k \in Choosers :
          /\ t.choosers[k].on = s.choosers[k].on
          /\ t.choosers[k].busy = IF s.choosers[k].on = 1 THEN 0 ELSE s.choosers[k].busy
    BY <1>1, <1>2, <2>3, <2>4, ChooserFields
  <2>7. Pends(s) => Pends(t)
    BY <1>7, <2>4, <2>5, <2>6 DEF Pends
  <2>8. OneOfTheBox(s) => OneOfTheBox(t)
    BY <1>1, <2>3, <2>4, <2>5 DEF OneOfTheBox
  <2>9. Counts(s) => Counts(t)
    <3> SUFFICES ASSUME Counts(s) PROVE Counts(t)
      OBVIOUS
    <3>1. s.win.max = -1 /\ Len(s.nested) <= 1 /\ DOMAIN s.nested = {}
      BY <1>1, <1>7 DEF Counts
    <3>2. t.win.max = -1 /\ t.win.ctx = c
      BY <1>2, <1>7, <2>3, <3>1 DEF FailsWindow
    <3> QED BY <2>3, <3>1, <3>2 DEF Counts
  <2>10. Fits(t)
    <3>2. /\ ShowsInTurn(s)
          /\ s.past \cap {"moved", "lost"} = {} => Pends(s)
          /\ "shared" \notin s.past => OneOfTheBox(s)
          /\ s.past = {} => Counts(s)
      BY <1>1 DEF Fits
    <3> QED BY <2>3, <2>7, <2>8, <2>9, <3>2 DEF Fits
  <2> QED BY <2>10 DEF t, f
<1> QED BY <1>6, <1>7

-----------------------------------------------------------------------------
(* Disturbances, and what a lookup finds.                                  *)

LEMMA PastSet ==
  ASSUME NEW s, IsState(s), NEW x
  PROVE  LET t == [s EXCEPT !.past = x]
         IN  /\ IsState(t) /\ t.queue = s.queue /\ SameWidgets(s, t) /\ t.spell = s.spell
             /\ t.nested = s.nested /\ t.past = x /\ t.undefined = s.undefined
<1> DEFINE t == [s EXCEPT !.past = x]
<1>1. /\ t = [f \in Fields |-> t[f]]
      /\ t.win = s.win /\ t.box = s.box /\ t.choosers = s.choosers /\ t.spell = s.spell
      /\ t.nested = s.nested /\ t.past = x /\ t.undefined = s.undefined /\ t.queue = s.queue
  BY DEF IsState, Fields
<1> HIDE DEF t
<1>2. IsState(t)
  BY <1>1 DEF IsState
<1> QED BY <1>1, <1>2 DEF SameWidgets, t

(* The past counts against a state, never for it. *)
LEMMA PastFits ==
  ASSUME NEW s, Fits(s), NEW x, s.past \subseteq x
  PROVE  Fits([s EXCEPT !.past = x])
<1> DEFINE t == [s EXCEPT !.past = x]
<1>1. /\ IsState(t) /\ t.queue = s.queue /\ t.win = s.win /\ t.box = s.box /\ t.choosers = s.choosers
      /\ t.nested = s.nested /\ t.past = x /\ t.undefined = s.undefined
  BY PastSet DEF Fits, SameWidgets
<1> HIDE DEF t
<1>2. /\ ShowsInTurn(s) => ShowsInTurn(t)
      /\ Pends(s) => Pends(t)
  BY <1>1 DEF ShowsInTurn, Pends
<1>3. OneOfTheBox(s) => OneOfTheBox(t)
  BY <1>1 DEF OneOfTheBox
<1>4. Counts(s) => Counts(t)
  BY <1>1 DEF Counts
<1>5. /\ t.past \cap {"moved", "lost"} = {} => s.past \cap {"moved", "lost"} = {}
      /\ "shared" \notin t.past => "shared" \notin s.past
      /\ t.past = {} => s.past = {}
  BY <1>1
<1> QED BY <1>1, <1>2, <1>3, <1>4, <1>5 DEF Fits, t

LEMMA DroppedFits ==
  ASSUME NEW s, Fits(s), NEW c \in Ctxs, Answering(s, c)
  PROVE  Fits([[s EXCEPT !.past = s.past \cup {"lost"}] EXCEPT !.queue[c] = <<>>])
<1> DEFINE d == [s EXCEPT !.past = s.past \cup {"lost"}]
           t == [d EXCEPT !.queue[c] = <<>>]
<1>1. /\ IsState(d) /\ d.win = s.win /\ d.nested = s.nested /\ "lost" \in d.past
      /\ d.undefined = s.undefined
  BY PastSet DEF Fits, SameWidgets
<1>2. Fits(d)
  BY PastFits
<1> HIDE DEF d
<1>3. s.undefined = 0 /\ \A i \in DOMAIN d.nested : d.nested[i].ctx # c
  BY <1>1 DEF Answering
<1>4. <<>> \in Seq(Lookups)
  OBVIOUS
<1>5. CASE c # d.win.ctx
  <2>1. SpellerOnly(d, t)
    BY <1>1, <1>3, <1>4, <1>5, QueueElsewhere
  <2> HIDE DEF t
  <2>2. Fits(t)
    BY <1>2, <2>1, QuietFits
  <2> QED BY <2>2 DEF t, d
<1>6. CASE c = d.win.ctx
  <2>1. /\ IsState(t) /\ t.queue[c] = <<>> /\ SameWidgets(d, t) /\ SameRest(d, t)
        /\ ShowsInTurn(d) => ShowsInTurn(t)
    <3>1. IsState(d) /\ c = d.win.ctx /\ \A i \in DOMAIN d.nested : d.nested[i].ctx # c
      BY <1>1, <1>3, <1>6
    <3> QED BY <1>4, <3>1, QueueOfWindow
  <2> HIDE DEF t
  <2>2. t.box = d.box /\ t.past = d.past /\ t.undefined = d.undefined
    BY <2>1 DEF SameWidgets, SameRest
  <2>3. d.box.ctx = c
    BY <1>1, <1>6, OneContext
  <2>4. OneOfTheBox(d) => OneOfTheBox(t)
    BY <2>1, <2>2, <2>3 DEF OneOfTheBox
  <2>5. t.past # {} /\ t.past \cap {"moved", "lost"} # {}
    BY <1>1, <2>2
  <2>6. Fits(t)
    BY <1>2, <2>1, <2>2, <2>4, <2>5 DEF Fits
  <2> QED BY <2>6 DEF t, d
<1> QED BY <1>5, <1>6

LEMMA FoundIs ==
  ASSUME NEW s, IsState(s), NEW c \in Ctxs, s.queue[c] # <<>>
  PROVE  LET q == [s.queue[c] EXCEPT ![1] = [s.queue[c][1] EXCEPT !.found = s.queue[c][1].found + 1]]
         IN  /\ Found(s, c) = [s EXCEPT !.queue[c] = q]
             /\ q \in Seq(Lookups) /\ Len(q) = Len(s.queue[c]) /\ q # <<>>
             /\ q[1].kind = s.queue[c][1].kind /\ q[1].word = s.queue[c][1].word
             /\ q[1].found = s.queue[c][1].found + 1
<1> DEFINE r == s.queue[c]
           l == [r[1] EXCEPT !.found = r[1].found + 1]
           q == [r EXCEPT ![1] = l]
<1>1. r \in Seq(Lookups) /\ Len(r) \in Nat /\ Len(r) > 0 /\ r[1] \in Lookups
  BY AnsweringTyped
<1>2. Found(s, c) = [s EXCEPT !.queue[c] = q]
  <2>1. s.queue = [d \in Ctxs |-> s.queue[d]] /\ s = [f \in Fields |-> s[f]]
    BY DEF IsState
  <2> QED BY <2>1 DEF Found, Fields
<1> HIDE DEF r
<1>3. l \in Lookups /\ l.kind = r[1].kind /\ l.word = r[1].word /\ l.found = r[1].found + 1
  BY <1>1 DEF Lookups
<1> HIDE DEF l
<1>4. q \in Seq(Lookups) /\ Len(q) = Len(r) /\ q[1] = l
  BY <1>1, <1>3
<1> HIDE DEF q
<1>5. q # <<>>
  BY <1>1, <1>4
<1> QED BY <1>2, <1>3, <1>4, <1>5 DEF q, l, r

(* One more found for a lookup, whoever heard of it. *)
LEMMA FoundFits ==
  ASSUME NEW s, Fits(s), NEW c \in Ctxs, Answering(s, c),
         c = s.win.ctx => s.queue[c][1].kind # "define"
  PROVE  Fits(Found(s, c))
<1> DEFINE q == [s.queue[c] EXCEPT ![1] = [s.queue[c][1] EXCEPT !.found = s.queue[c][1].found + 1]]
           t == [s EXCEPT !.queue[c] = q]
<1>1. IsState(s) /\ s.undefined = 0 /\ s.queue[c] # <<>> /\ \A i \in DOMAIN s.nested : s.nested[i].ctx # c
  BY DEF Fits, Answering
<1>2. Found(s, c) = t /\ q \in Seq(Lookups) /\ q # <<>>
  BY <1>1, FoundIs
<1> HIDE DEF q
<1>3. CASE c # s.win.ctx
  <2>1. SpellerOnly(s, t)
    BY <1>1, <1>2, <1>3, QueueElsewhere
  <2> HIDE DEF t
  <2> QED BY <1>2, <2>1, QuietFits
<1>4. CASE c = s.win.ctx
  <2>1. /\ IsState(t) /\ t.queue[c] = q /\ SameWidgets(s, t) /\ SameRest(s, t)
        /\ ShowsInTurn(s) => ShowsInTurn(t)
    BY <1>1, <1>2, <1>4, QueueOfWindow
  <2> HIDE DEF t
  <2>2. /\ t.box = s.box /\ t.win = s.win /\ t.choosers = s.choosers
        /\ t.past = s.past /\ t.undefined = s.undefined
    BY <2>1 DEF SameWidgets, SameRest
  <2>3. s.box.ctx = c /\ \A k \in Choosers : s.choosers[k].ctx = c
    BY <1>1, <1>4, OneContext
  <2>4. Pends(s) => Pends(t)
    BY <1>2, <2>1, <2>2, <2>3 DEF Pends
  <2>5. ~OneOfTheBox(s)
    BY <1>1, <1>4, <2>3 DEF OneOfTheBox
  <2>6. "shared" \in s.past
    BY <1>1, <2>5 DEF Fits
  <2> QED BY <1>1, <1>2, <2>1, <2>2, <2>4, <2>6 DEF Fits
<1> QED BY <1>3, <1>4

LEMMA RowFits ==
  ASSUME NEW s, Fits(s), NEW c \in Ctxs, Answering(s, c), s.queue[c][1].kind # "define"
  PROVE  Fits(Found(IF s.queue[c][1].kind = "match" THEN SpellerFound(s, c) ELSE s, c))
<1> DEFINE t == SpellerFound(s, c)
           x == [s.spell EXCEPT !.rows = s.spell.rows \cup {s.queue[c][1].word}]
<1>1. IsState(s) /\ s.queue[c] # <<>>
  BY DEF Fits, Answering
<1>2. x \in SpellerT
  <2>1. s.spell \in SpellerT /\ s.queue[c][1].word \in Words \cup {None}
    BY <1>1, AnsweringTyped DEF IsState, Lookups
  <2>2. s.spell.rows \cup {s.queue[c][1].word} \in SUBSET (Words \cup {None})
    BY <2>1 DEF SpellerT
  <2> DEFINE y == s.spell
             z == s.spell.rows \cup {s.queue[c][1].word}
  <2>3. y \in SpellerT /\ z \in SUBSET (Words \cup {None}) /\ x = [y EXCEPT !.rows = z]
    BY <2>1, <2>2
  <2> HIDE DEF x, y, z
  <2> QED BY <2>3 DEF SpellerT
<1>3. t = s \/ t = [s EXCEPT !.spell = x]
  BY DEF SpellerFound
<1>4. t = s \/ (SpellerOnly(s, t) /\ t.queue = s.queue)
  <2>1. SpellerOnly(s, [s EXCEPT !.spell = x]) /\ [s EXCEPT !.spell = x].queue = s.queue
    <3> HIDE DEF x
    <3>1. [s EXCEPT !.spell = x].queue = s.queue
      BY <1>1 DEF IsState, Fields
    <3> QED BY <1>1, <1>2, <3>1, SpellerSet
  <2> HIDE DEF t, x
  <2> QED BY <1>3, <2>1
<1> HIDE DEF t
<1>5. Fits(t)
  BY <1>4, QuietFits
<1>6. Answering(t, c) /\ t.queue[c][1].kind # "define"
  BY <1>4 DEF SpellerOnly, SameRest, Answering
<1>7. Fits(Found(t, c)) /\ Fits(Found(s, c))
  BY <1>5, <1>6, FoundFits
<1> QED BY <1>7 DEF t

(* The window begins to show a definition. *)
LEMMA NestedSet ==
  ASSUME NEW s, IsState(s), NEW x \in Seq(NestedT), Len(x) <= MaxNested
  PROVE  LET t == [s EXCEPT !.nested = x]
         IN  /\ IsState(t) /\ t.queue = s.queue /\ SameWidgets(s, t)
             /\ t.nested = x /\ t.past = s.past /\ t.undefined = s.undefined
<1> DEFINE t == [s EXCEPT !.nested = x]
<1>1. /\ t = [f \in Fields |-> t[f]]
      /\ t.win = s.win /\ t.box = s.box /\ t.choosers = s.choosers /\ t.spell = s.spell
      /\ t.nested = x /\ t.past = s.past /\ t.undefined = s.undefined /\ t.queue = s.queue
  BY DEF IsState, Fields
<1> HIDE DEF t
<1>2. IsState(t)
  BY <1>1 DEF IsState
<1> QED BY <1>1, <1>2 DEF SameWidgets, t

LEMMA DefinitionFits ==
  ASSUME NEW s, Fits(s), NEW c \in Ctxs, Answering(s, c), s.queue[c][1].kind = "define",
         c = s.win.ctx, Len(s.nested) < MaxNested
  PROVE  Fits([s EXCEPT !.nested = Append(s.nested, [ctx |-> c, n |-> s.win.current + 1])])
<1> DEFINE l == [ctx |-> c, n |-> s.win.current + 1]
           x == Append(s.nested, l)
           t == [s EXCEPT !.nested = x]
<1>1. IsState(s) /\ s.undefined = 0 /\ s.queue[c] # <<>> /\ \A i \in DOMAIN s.nested : s.nested[i].ctx # c
  BY DEF Fits, Answering
<1>2. s.nested \in Seq(NestedT) /\ l \in NestedT /\ l.ctx = c /\ l.n = s.win.current + 1
  <2>1. s.win.current \in Nat /\ s.nested \in Seq(NestedT)
    BY <1>1 DEF IsState, WindowT
  <2> QED BY <2>1 DEF NestedT
<1> HIDE DEF l
<1>3. /\ x \in Seq(NestedT) /\ Len(x) = Len(s.nested) + 1 /\ Len(x) <= MaxNested
      /\ DOMAIN x = 1..(Len(s.nested) + 1) /\ x[Len(s.nested) + 1] = l
      /\ \A i \in DOMAIN s.nested : x[i] = s.nested[i]
      /\ DOMAIN s.nested = 1..Len(s.nested) /\ Len(s.nested) \in Nat
  BY <1>2, BoundsAssumption
<1> HIDE DEF x
<1>4. /\ IsState(t) /\ t.queue = s.queue /\ t.win = s.win /\ t.box = s.box /\ t.choosers = s.choosers
      /\ t.nested = x /\ t.past = s.past /\ t.undefined = s.undefined
  BY <1>1, <1>3, NestedSet DEF SameWidgets
<1> HIDE DEF t
<1>5. \A i \in DOMAIN x : (i \in DOMAIN s.nested /\ x[i] = s.nested[i]) \/ x[i] = l
  BY <1>3
<1>6. ShowsInTurn(s) => ShowsInTurn(t)
  BY <1>1, <1>2, <1>4, <1>5 DEF ShowsInTurn
<1>7. (Pends(s) => Pends(t)) /\ (OneOfTheBox(s) => OneOfTheBox(t))
  BY <1>4 DEF Pends, OneOfTheBox
<1>8. Counts(s) => Counts(t)
  <2> SUFFICES ASSUME Counts(s) PROVE Counts(t)
    OBVIOUS
  <2>1. DOMAIN s.nested = {}
    BY <1>1 DEF Counts
  <2>2. Len(s.nested) = 0
    BY <1>3, <2>1
  <2>3. Len(x) <= 1 /\ \A i \in DOMAIN x : x[i].ctx = s.win.ctx /\ x[i].n = s.win.current + 1
    BY <1>2, <1>3, <1>5, <2>1, <2>2
  <2> QED BY <1>4, <2>3 DEF Counts
<1> QED BY <1>4, <1>6, <1>7, <1>8 DEF Fits, t, x, l

(* The main loop returns into the window's handler. *)
Returned(s) ==
  [s EXCEPT !.nested = Front(s.nested), !.win.current = Last(s.nested).n]

LEMMA ReturnedIs ==
  ASSUME NEW s, IsState(s), s.nested # <<>>
  PROVE  LET r == Returned(s)
             l == Last(s.nested)
         IN  /\ IsState(r) /\ r.queue = s.queue /\ r.box = s.box /\ r.choosers = s.choosers
             /\ r.past = s.past /\ r.undefined = s.undefined
             /\ r.win.ctx = s.win.ctx /\ r.win.busy = s.win.busy /\ r.win.max = s.win.max
             /\ r.win.last = s.win.last /\ r.win.current = l.n
             /\ l.ctx \in Ctxs /\ l = s.nested[Len(s.nested)] /\ Len(s.nested) \in DOMAIN s.nested
             /\ Len(r.nested) = Len(s.nested) - 1 /\ Len(s.nested) \in Nat
             /\ DOMAIN r.nested \subseteq DOMAIN s.nested
             /\ \A i \in DOMAIN r.nested : r.nested[i] = s.nested[i]
<1> DEFINE n == Len(s.nested)
           l == Last(s.nested)
           x == Front(s.nested)
           w == [s.win EXCEPT !.current = l.n]
           a == [s EXCEPT !.nested = x]
           r == [a EXCEPT !.win = w]
<1>1. s.nested \in Seq(NestedT) /\ s.win \in WindowT /\ n <= MaxNested
  BY DEF IsState
<1>2. n \in Nat /\ n > 0 /\ l = s.nested[n] /\ n \in DOMAIN s.nested /\ l \in NestedT
  BY <1>1 DEF Last
<1>3. l.ctx \in Ctxs /\ l.n \in Nat
  BY <1>2 DEF NestedT
<1>4. /\ x \in Seq(NestedT) /\ Len(x) = n - 1 /\ DOMAIN x \subseteq DOMAIN s.nested
      /\ \A i \in DOMAIN x : x[i] = s.nested[i]
  <2>1. x = SubSeq(s.nested, 1, n - 1)
    BY DEF Front
  <2> HIDE DEF x, n
  <2>2. x \in Seq(NestedT) /\ Len(x) = n - 1
    BY <1>1, <1>2, <2>1 DEF n
  <2>3. DOMAIN x = 1..(n - 1) /\ DOMAIN s.nested = 1..n
    BY <1>1, <1>2, <2>2 DEF n
  <2>4. \A i \in 1..(n - 1) : x[i] = s.nested[i]
    BY <1>1, <1>2, <2>1 DEF n
  <2> QED BY <1>2, <2>2, <2>3, <2>4
<1>5. /\ w \in WindowT /\ w.ctx = s.win.ctx /\ w.busy = s.win.busy /\ w.max = s.win.max
      /\ w.last = s.win.last /\ w.current = l.n
  <2> DEFINE v == s.win
             k == l.n
  <2>1. v \in WindowT /\ k \in Nat /\ w = [v EXCEPT !.current = k]
    BY <1>1, <1>3
  <2> HIDE DEF w
  <2>2. \A y \in WindowT, j \in Nat :
          /\ [y EXCEPT !.current = j] \in WindowT
          /\ [y EXCEPT !.current = j].ctx = y.ctx /\ [y EXCEPT !.current = j].busy = y.busy
          /\ [y EXCEPT !.current = j].max = y.max /\ [y EXCEPT !.current = j].last = y.last
          /\ [y EXCEPT !.current = j].current = j
    BY DEF WindowT
  <2> QED BY <2>1, <2>2
<1>6. Returned(s) = r
  BY DEF Returned, IsState, Fields
<1> HIDE DEF w, x, l, n
<1>7. /\ IsState(a) /\ a.queue = s.queue /\ a.win = s.win /\ a.box = s.box /\ a.choosers = s.choosers
      /\ a.nested = x /\ a.past = s.past /\ a.undefined = s.undefined
  BY <1>1, <1>2, <1>4, NestedSet, BoundsAssumption DEF SameWidgets
<1> HIDE DEF a
<1>8. /\ IsState(r) /\ r.win = w /\ r.queue = a.queue /\ r.box = a.box
      /\ r.choosers = a.choosers /\ SameRest(a, r)
  BY <1>5, <1>7, WinSet
<1> HIDE DEF r
<1> QED BY <1>2, <1>3, <1>4, <1>5, <1>6, <1>7, <1>8 DEF SameRest, n, l

(* The box hears of a definition. *)
LEMMA BoxFoundIs ==
  ASSUME NEW s, IsState(s), NEW c \in Ctxs, s.queue[c] # <<>>
  PROVE  LET t == BoxFound(s, c)
         IN  /\ Heard(s, t) /\ t.win = s.win /\ t.choosers = s.choosers
             /\ t.box.ctx = s.box.ctx /\ t.box.on = s.box.on /\ t.box.busy = s.box.busy
             /\ t.box.word = s.box.word
             /\ t.box.defs = IF s.box.ctx = c /\ s.box.on = 1
                             THEN Append(s.box.defs, s.queue[c][1].word) ELSE s.box.defs
<1> DEFINE q == Append(s.box.defs, s.queue[c][1].word)
           x == [s.box EXCEPT !.defs = q]
           t == BoxFound(s, c)
<1>1. s.box \in BoxT /\ s.queue[c][1].word \in Words \cup {None}
  BY AnsweringTyped DEF IsState, Lookups
<1>2. q \in Seq(Words \cup {None})
  <2>1. s.box.defs \in Seq(Words \cup {None})
    BY <1>1 DEF BoxT
  <2> QED BY <1>1, <2>1
<1>3. t = IF s.box.ctx = c /\ s.box.on = 1 THEN [s EXCEPT !.box = x] ELSE s
  BY DEF BoxFound
<1> HIDE DEF q, t
<1>4. /\ x \in BoxT /\ x.ctx = s.box.ctx /\ x.on = s.box.on /\ x.busy = s.box.busy
      /\ x.word = s.box.word /\ x.defs = q
  <2> DEFINE b == s.box
  <2>1. b \in BoxT /\ x = [b EXCEPT !.defs = q]
    BY <1>1
  <2> HIDE DEF x, b
  <2>2. x \in BoxT /\ x.ctx = b.ctx /\ x.on = b.on /\ x.busy = b.busy /\ x.word = b.word /\ x.defs = q
    BY <1>2, <2>1 DEF BoxT
  <2> QED BY <2>2 DEF b
<1> HIDE DEF x
<1>5. CASE s.box.ctx = c /\ s.box.on = 1
  <2>1. t = [s EXCEPT !.box = x]
    BY <1>3, <1>5
  <2>2. /\ IsState(t) /\ t.box = x /\ t.queue = s.queue /\ t.win = s.win
        /\ t.choosers = s.choosers /\ SameRest(s, t)
    BY <1>4, <2>1, BoxSet
  <2> QED BY <1>4, <1>5, <2>2 DEF Heard, t, q
<1>6. CASE ~(s.box.ctx = c /\ s.box.on = 1)
  <2>1. t = s
    BY <1>3, <1>6
  <2> QED BY <1>6, <2>1 DEF Heard, SameRest, t
<1> QED BY <1>5, <1>6

LEMMA ShownFits ==
  ASSUME NEW s, Fits(s), s.undefined = 0, s.nested # <<>>
  PROVE  Fits(Found(BoxFound(Returned(s), Last(s.nested).ctx), Last(s.nested).ctx))
<1> DEFINE l == Last(s.nested)
           c == l.ctx
           r == Returned(s)
           b == BoxFound(r, c)
           q == [b.queue[c] EXCEPT ![1] = [b.queue[c][1] EXCEPT !.found = b.queue[c][1].found + 1]]
           t == Found(b, c)
           n == Len(s.nested)
<1>1. IsState(s) /\ ShowsInTurn(s)
  BY DEF Fits
<1>2. /\ IsState(r) /\ r.queue = s.queue /\ r.box = s.box /\ r.choosers = s.choosers
      /\ r.past = s.past /\ r.undefined = s.undefined
      /\ r.win.ctx = s.win.ctx /\ r.win.busy = s.win.busy /\ r.win.max = s.win.max
      /\ r.win.last = s.win.last /\ r.win.current = l.n
      /\ c \in Ctxs /\ l = s.nested[n] /\ n \in DOMAIN s.nested /\ n \in Nat
      /\ Len(r.nested) = n - 1 /\ DOMAIN r.nested \subseteq DOMAIN s.nested
      /\ \A i \in DOMAIN r.nested : r.nested[i] = s.nested[i]
  BY <1>1, ReturnedIs
<1>3. s.queue[c] # <<>> /\ s.queue[c][1].kind = "define"
  BY <1>1, <1>2 DEF ShowsInTurn
<1> HIDE DEF l, r, n
<1> HIDE DEF c
<1>4. /\ Heard(r, b) /\ b.win = r.win /\ b.choosers = r.choosers
      /\ b.box.ctx = r.box.ctx /\ b.box.on = r.box.on /\ b.box.busy = r.box.busy
      /\ b.box.word = r.box.word
      /\ b.box.defs = IF r.box.ctx = c /\ r.box.on = 1
                      THEN Append(r.box.defs, r.queue[c][1].word) ELSE r.box.defs
  BY <1>2, <1>3, BoxFoundIs
<1> HIDE DEF b
<1>5. IsState(b) /\ b.queue = s.queue /\ b.nested = r.nested /\ b.past = s.past /\ b.undefined = 0
  BY <1>2, <1>4 DEF Heard, SameRest
<1>6. /\ t = [b EXCEPT !.queue[c] = q]
      /\ q \in Seq(Lookups) /\ Len(q) = Len(s.queue[c]) /\ q # <<>>
      /\ q[1].kind = "define" /\ q[1].word = s.queue[c][1].word
      /\ q[1].found = s.queue[c][1].found + 1
  BY <1>2, <1>3, <1>5, FoundIs
<1> HIDE DEF q, t
<1>7. /\ IsState(t) /\ t.queue[c] = q /\ \A d \in Ctxs \ {c} : t.queue[d] = s.queue[d]
      /\ SameWidgets(b, t) /\ SameRest(b, t)
  <2>1. IsState(b) /\ c \in Ctxs /\ q \in Seq(Lookups) /\ t = [b EXCEPT !.queue[c] = q]
    BY <1>2, <1>5, <1>6
  <2>2. b.queue = s.queue
    BY <1>5
  <2>3. /\ IsState(t) /\ t.queue[c] = q /\ \A d \in Ctxs \ {c} : t.queue[d] = b.queue[d]
        /\ SameWidgets(b, t) /\ SameRest(b, t)
    BY <2>1, QueueSet
  <2> QED BY <2>2, <2>3
<1>8. /\ t.win = r.win /\ t.box = b.box /\ t.choosers = s.choosers
      /\ t.nested = r.nested /\ t.past = s.past /\ t.undefined = 0
  BY <1>2, <1>4, <1>5, <1>7 DEF SameWidgets, SameRest
<1>9. \A d \in Ctxs : s.queue[d] # <<>> => t.queue[d] # <<>>
  BY <1>6, <1>7
<1>10. ShowsInTurn(t)
  <2> SUFFICES ASSUME NEW i \in DOMAIN r.nested
               PROVE  /\ t.queue[r.nested[i].ctx] # <<>>
                      /\ t.queue[r.nested[i].ctx][1].kind = "define"
    BY <1>8 DEF ShowsInTurn
  <2>1. i \in DOMAIN s.nested /\ r.nested[i] = s.nested[i]
    BY <1>2
  <2>2. s.nested[i].ctx \in Ctxs
    BY <1>1, <2>1, NestedTyped
  <2>3. s.queue[s.nested[i].ctx] # <<>> /\ s.queue[s.nested[i].ctx][1].kind = "define"
    BY <1>1, <2>1 DEF ShowsInTurn
  <2> QED BY <1>6, <1>7, <2>1, <2>2, <2>3
<1>11. Pends(s) => Pends(t)
  BY <1>2, <1>4, <1>8, <1>9 DEF Pends
<1>12. OneOfTheBox(s) => OneOfTheBox(t)
  <2> SUFFICES ASSUME OneOfTheBox(s) PROVE OneOfTheBox(t)
    OBVIOUS
  <2>1. t.box.ctx = s.box.ctx /\ t.box.on = s.box.on /\ t.box.busy = s.box.busy /\ t.box.word = s.box.word
    BY <1>2, <1>4, <1>8
  <2>2. CASE s.box.ctx # c
    <3>1. t.box.defs = s.box.defs /\ (s.box.ctx \in Ctxs => t.queue[s.box.ctx] = s.queue[s.box.ctx])
      BY <1>2, <1>4, <1>7, <1>8, <2>2
    <3> QED BY <2>1, <3>1 DEF OneOfTheBox
  <2>3. CASE s.box.ctx = c
    <3>1. /\ Len(s.queue[c]) = 1 /\ s.box.on = 1 /\ s.box.busy = 1 /\ s.queue[c][1].word = s.box.word
          /\ \A i \in DOMAIN s.box.defs : s.box.defs[i] = s.box.word
      BY <1>2, <1>3, <2>3 DEF OneOfTheBox
    <3>2. t.box.defs = Append(s.box.defs, s.box.word)
      BY <1>2, <1>4, <1>8, <2>3, <3>1
    <3>3. \A i \in DOMAIN t.box.defs : t.box.defs[i] = s.box.word
      <4> DEFINE d == s.box.defs
                 w == s.box.word
      <4>1. d \in Seq(Words \cup {None}) /\ w \in Words \cup {None}
        BY <1>1 DEF IsState, BoxT
      <4>2. \A i \in DOMAIN d : d[i] = w
        BY <3>1
      <4> HIDE DEF d, w
      <4>3. \A i \in DOMAIN Append(d, w) : Append(d, w)[i] = w
        BY <4>1, <4>2
      <4> QED BY <3>2, <4>3 DEF d, w
    <3> QED BY <1>6, <1>7, <2>1, <2>3, <3>1, <3>3 DEF OneOfTheBox
  <2> QED BY <2>2, <2>3
<1>13. OneOfTheBox(s) /\ Counts(s) => Counts(t)
  <2> SUFFICES ASSUME OneOfTheBox(s), Counts(s) PROVE Counts(t)
    OBVIOUS
  <2>1. Len(s.nested) <= 1 /\ c = s.win.ctx /\ l.n = s.win.current + 1
    BY <1>2 DEF Counts, c
  <2>2. s.box.ctx = c
    BY <1>1, <1>2, <2>1, OneContext
  <2>3. /\ s.win.busy = 1 /\ s.win.max = -1 /\ s.win.last = 0 /\ s.win.current = Len(s.box.defs)
        /\ s.queue[c][1].found = s.win.current /\ s.box.on = 1
    BY <1>2, <1>3, <2>1, <2>2 DEF Counts, OneOfTheBox
  <2>4. Len(t.box.defs) = Len(s.box.defs) + 1
    <3> DEFINE d == s.box.defs
               w == s.queue[c][1].word
    <3>1. d \in Seq(Words \cup {None}) /\ w \in Words \cup {None}
      BY <1>1, <1>2, <1>3, AnsweringTyped DEF IsState, BoxT, Lookups
    <3>2. t.box.defs = Append(d, w)
      BY <1>2, <1>4, <1>8, <2>2, <2>3
    <3> HIDE DEF d, w
    <3>3. Len(Append(d, w)) = Len(d) + 1
      BY <3>1
    <3> QED BY <3>2, <3>3 DEF d
  <2>5. DOMAIN t.nested = {} /\ Len(t.nested) = 0
    <3>1. t.nested \in Seq(NestedT) /\ Len(t.nested) = 0
      BY <1>2, <1>7, <1>8, <2>1 DEF IsState, n
    <3> QED BY <3>1
  <2>6. t.queue[c][1].found = s.win.current + 1 /\ t.win.current = s.win.current + 1
    BY <1>2, <1>6, <1>7, <1>8, <2>1, <2>3
  <2>7. t.win.busy = 1 /\ t.win.max = -1 /\ t.win.last = 0 /\ t.win.ctx = c
    BY <1>2, <1>8, <2>1, <2>3
  <2> QED BY <2>3, <2>4, <2>5, <2>6, <2>7 DEF Counts
<1>14. Fits(t)
  <2>1. s.past = {} => "shared" \notin s.past
    OBVIOUS
  <2>2. /\ s.past \cap {"moved", "lost"} = {} => Pends(s)
        /\ "shared" \notin s.past => OneOfTheBox(s)
        /\ s.past = {} => Counts(s)
    BY DEF Fits
  <2> QED BY <1>7, <1>8, <1>10, <1>11, <1>12, <1>13, <2>1, <2>2 DEF Fits
<1> QED BY <1>14 DEF t, b, r, c, l

-----------------------------------------------------------------------------
(* The user asks.                                                          *)

(* What a request does to who is connected to the context it is asked of:  *)
(* they show a search in progress, which there is, or none.                *)
Connected(s, t) ==
  /\ t.box.ctx = s.box.ctx /\ t.box.on = s.box.on
  /\ t.box.word = s.box.word /\ t.box.defs = s.box.defs
  /\ \A k \in Choosers : t.choosers[k].on = s.choosers[k].on

Requested(s, t, c, l, ok) ==
  /\ IsState(t) /\ SameRest(s, t) /\ t.win.ctx = c /\ Connected(s, t)
  /\ ShowsInTurn(s) => ShowsInTurn(t)
  /\ ok = 1 =>
       /\ t.queue[c] = Append(s.queue[c], l) /\ t.queue[c] # <<>>
       /\ s.box.on = 1 => t.box.busy = 1
       /\ t.win = WinStarted(s, c)
  /\ ok # 1 =>
       /\ t.queue[c] = <<>>
       /\ s.box.on = 1 => t.box.busy = 0
       /\ \A k \in Choosers : s.choosers[k].on = 1 => t.choosers[k].busy = 0
       /\ t.win.busy = 0 /\ t.win.max = WinStarted(s, c).current - 1
       /\ t.win.last = WinStarted(s, c).last
  /\ s.box.on # 1 => t.box.busy = s.box.busy
  /\ \A k \in Choosers : s.choosers[k].on # 1 => t.choosers[k].busy = s.choosers[k].busy

LEMMA RequestIs ==
  ASSUME NEW s, IsState(s), NEW c \in Ctxs, c = s.win.ctx, NEW l \in Lookups,
         NEW ok, NEW again, MayAnswer(s, c, ok)
  PROVE  Requested(s, Request(s, c, l, ok, again), c, l, ok)
<1> DEFINE a == Started(s, c)
           t == Request(s, c, l, ok, again)
<1>0. s.box.ctx = c /\ \A k \in Choosers : s.choosers[k].ctx = c
  BY OneContext
<1>1. /\ Heard(s, a) /\ a.win = WinStarted(s, c) /\ a.box = BoxHas(s, c, 1)
      /\ a.choosers = ChoosersHave(s, c, 1)
  BY StartedIs
<1> HIDE DEF a
<1>2. IsState(a) /\ a.queue = s.queue /\ SameRest(s, a) /\ a.nested = s.nested
  BY <1>1 DEF Heard, SameRest
<1>3. /\ a.box.ctx = c /\ a.box.on = s.box.on /\ a.box.word = s.box.word /\ a.box.defs = s.box.defs
      /\ a.box.busy = IF s.box.on = 1 THEN 1 ELSE s.box.busy
  BY <1>0, <1>1, BoxFields
<1>4. \A k \in Choosers :
        /\ a.choosers[k].ctx = c /\ a.choosers[k].on = s.choosers[k].on
        /\ a.choosers[k].busy = IF s.choosers[k].on = 1 THEN 1 ELSE s.choosers[k].busy
  BY <1>0, <1>1, ChooserFields
<1>5. a.win.ctx = c
  BY <1>2, <1>3, OneContext
<1>6. ShowsInTurn(s) => ShowsInTurn(a)
  BY <1>2 DEF ShowsInTurn
<1>7. CASE ok = 1
  <2>1. t = Pushed(a, c, l)
    BY <1>7 DEF Request, a
  <2>2. /\ IsState(t) /\ SameWidgets(a, t) /\ SameRest(a, t) /\ t.queue[c] = Append(a.queue[c], l)
        /\ \A d \in Ctxs : a.queue[d] # <<>> => t.queue[d] # <<>> /\ t.queue[d][1] = a.queue[d][1]
    <3> DEFINE p == Pushed(a, c, l)
    <3>1. /\ IsState(p) /\ SameWidgets(a, p) /\ SameRest(a, p) /\ p.queue[c] = Append(a.queue[c], l)
          /\ \A d \in Ctxs : a.queue[d] # <<>> => p.queue[d] # <<>> /\ p.queue[d][1] = a.queue[d][1]
      <4>1. IsState(a)
        BY <1>2
      <4>2. p.queue[c] = Append(a.queue[c], l)
        <5>1. Asked(a, p, c, l)
          BY <4>1, QueuePushed
        <5> QED BY <5>1 DEF Asked
      <4>3. /\ IsState(p) /\ SameWidgets(a, p) /\ SameRest(a, p)
            /\ \A d \in Ctxs : a.queue[d] # <<>> => p.queue[d] # <<>> /\ p.queue[d][1] = a.queue[d][1]
        BY <4>1, QueuePushed
      <4> QED BY <4>2, <4>3
    <3> HIDE DEF p, t
    <3>2. t = p
      BY <2>1 DEF p
    <3> QED BY <3>1, <3>2
  <2> HIDE DEF t
  <2>4. ShowsInTurn(a) => ShowsInTurn(t)
    <3> SUFFICES ASSUME ShowsInTurn(a), NEW i \in DOMAIN a.nested
                 PROVE  /\ t.queue[a.nested[i].ctx] # <<>>
                        /\ t.queue[a.nested[i].ctx][1].kind = "define"
      BY <2>2 DEF ShowsInTurn, SameRest
    <3>1. a.nested[i].ctx \in Ctxs
      BY <1>2, NestedTyped
    <3> QED BY <2>2, <3>1 DEF ShowsInTurn
  <2>5. t.queue[c] # <<>>
    <3> DEFINE r == a.queue[c]
    <3>1. r \in Seq(Lookups)
      BY <1>2 DEF IsState
    <3> HIDE DEF r
    <3>2. Len(Append(r, l)) # 0
      BY <3>1
    <3>3. Len(<<>>) = 0
      OBVIOUS
    <3>4. Append(r, l) # <<>>
      BY <3>2, <3>3
    <3> QED BY <2>2, <3>4 DEF r
  <2>6. SameRest(s, t)
    BY <1>2, <2>2 DEF SameRest
  <2> QED BY <1>0, <1>1, <1>2, <1>3, <1>4, <1>5, <1>6, <1>7, <2>2, <2>4, <2>5, <2>6
          DEF SameWidgets, Connected, Requested, t
<1>8. CASE ok # 1
  <2>1. t = Ended(a, c, again)
    BY <1>8 DEF Request, a
  <2>2. /\ Touches(a, t) /\ EndsWindow(a, c, t.win)
        /\ t.box = BoxHas(a, c, 0) /\ t.choosers = ChoosersHave(a, c, 0)
    BY <1>2, <2>1, EndedIs
  <2> HIDE DEF t
  <2>3. /\ t.queue[c] = a.queue[c] /\ t.win.ctx = c
        /\ t.nested = a.nested /\ t.past = a.past /\ t.undefined = a.undefined
        /\ IsState(t)
        /\ ShowsInTurn(a) => ShowsInTurn(t)
    BY <1>5, <2>2, TouchesKeeps
  <2>4. t.queue[c] = <<>>
    BY <1>2, <1>8, <2>3 DEF MayAnswer
  <2>5. /\ t.box.ctx = a.box.ctx /\ t.box.on = a.box.on /\ t.box.word = a.box.word
        /\ t.box.defs = a.box.defs /\ t.box.busy = IF a.box.on = 1 THEN 0 ELSE a.box.busy
    BY <1>2, <1>3, <2>2, BoxFields
  <2>6. \A k \in Choosers :
          /\ t.choosers[k].on = a.choosers[k].on
          /\ t.choosers[k].busy = IF a.choosers[k].on = 1 THEN 0 ELSE a.choosers[k].busy
    BY <1>2, <1>4, <2>2, ChooserFields
  <2>7. /\ t.win.busy = 0 /\ t.win.max = WinStarted(s, c).current - 1
        /\ t.win.last = WinStarted(s, c).last
    BY <1>1, <1>5, <2>2 DEF EndsWindow
  <2>8. Connected(s, t)
    BY <1>0, <1>3, <1>4, <2>5, <2>6 DEF Connected
  <2>9. SameRest(s, t) /\ (ShowsInTurn(s) => ShowsInTurn(t))
    BY <1>2, <1>6, <2>3 DEF SameRest
  <2>10. s.box.on = 1 => t.box.busy = 0
    BY <1>3, <2>5
  <2>11. s.box.on # 1 => t.box.busy = s.box.busy
    BY <1>3, <2>5
  <2>12. \A k \in Choosers : /\ s.choosers[k].on = 1 => t.choosers[k].busy = 0
                             /\ s.choosers[k].on # 1 => t.choosers[k].busy = s.choosers[k].busy
    BY <1>4, <2>6
  <2> QED BY <1>8, <2>3, <2>4, <2>7, <2>8, <2>9, <2>10, <2>11, <2>12 DEF Requested, t
<1> QED BY <1>7, <1>8

(* Whoever shows a search in progress after a request has one. *)
LEMMA RequestPends ==
  ASSUME NEW s, IsState(s), NEW c \in Ctxs, c = s.win.ctx, NEW l \in Lookups,
         NEW ok, NEW again, MayAnswer(s, c, ok), Pends(s)
  PROVE  Pends(Request(s, c, l, ok, again))
<1> DEFINE t == Request(s, c, l, ok, again)
<1>0. Requested(s, t, c, l, ok)
  BY RequestIs
<1> HIDE DEF t
<1>1. /\ IsState(t) /\ t.win.ctx = c /\ Connected(s, t)
      /\ ok = 1 => t.queue[c] # <<>>
      /\ ok # 1 =>
           /\ s.box.on = 1 => t.box.busy = 0
           /\ \A k \in Choosers : s.choosers[k].on = 1 => t.choosers[k].busy = 0
      /\ s.box.on # 1 => t.box.busy = s.box.busy
      /\ \A k \in Choosers : s.choosers[k].on # 1 => t.choosers[k].busy = s.choosers[k].busy
  BY <1>0 DEF Requested
<1>2. s.box.ctx = c /\ t.box.ctx = c /\ \A k \in Choosers : s.choosers[k].ctx = c /\ t.choosers[k].ctx = c
  <2>1. s.box.ctx = c /\ \A k \in Choosers : s.choosers[k].ctx = c
    BY OneContext
  <2>2. t.box.ctx = c /\ \A k \in Choosers : t.choosers[k].ctx = c
    BY <1>1, OneContext
  <2> QED BY <2>1, <2>2
<1>3. t.box.busy = 1 => t.box.on = 1 /\ t.queue[c] # <<>>
  <2>1. s.box.on # 1 => s.box.busy # 1
    BY DEF Pends
  <2> QED BY <1>1, <2>1 DEF Connected
<1>4. \A k \in Choosers : t.choosers[k].busy = 1 => t.choosers[k].on = 1 /\ t.queue[c] # <<>>
  <2>1. \A k \in Choosers : s.choosers[k].on # 1 => s.choosers[k].busy # 1
    BY DEF Pends
  <2> QED BY <1>1, <2>1 DEF Connected
<1> QED BY <1>2, <1>3, <1>4 DEF Pends, t

LEMMA FitsParts ==
  ASSUME NEW s, Fits(s), s.undefined = 0
  PROVE  /\ IsState(s) /\ ShowsInTurn(s)
         /\ s.past \cap {"moved", "lost"} = {} => Pends(s)
         /\ "shared" \notin s.past => OneOfTheBox(s)
         /\ s.past = {} => OneOfTheBox(s) /\ Counts(s)
<1>1. s.past = {} => "shared" \notin s.past
  OBVIOUS
<1> QED BY <1>1 DEF Fits

(* Fields nobody looks at. *)
LEMMA AsideFits ==
  ASSUME NEW s, Fits(s), NEW x
  PROVE  Fits([s EXCEPT !.asked = x]) /\ Fits([s EXCEPT !.dialog = x])
<1>1. ASSUME NEW t, t \in {[s EXCEPT !.asked = x], [s EXCEPT !.dialog = x]}
      PROVE  Fits(t)
  <2>1. /\ t = [f \in Fields |-> t[f]]
        /\ t.queue = s.queue /\ t.win = s.win /\ t.box = s.box /\ t.choosers = s.choosers
        /\ t.spell = s.spell /\ t.nested = s.nested /\ t.past = s.past /\ t.undefined = s.undefined
    BY <1>1 DEF Fits, IsState, Fields
  <2>2. IsState(t)
    BY <2>1 DEF Fits, IsState
  <2>3. SpellerOnly(s, t)
    BY <2>1, <2>2 DEF SpellerOnly, SameQueues, SameWidgets, SameRest
  <2> QED BY <2>3, QuietFits
<1> QED BY <1>1

LEMMA UndefinedFits ==
  ASSUME NEW s, IsState(s)
  PROVE  Fits([s EXCEPT !.undefined = 1])
<1> DEFINE t == [s EXCEPT !.undefined = 1]
<1>1. /\ t = [f \in Fields |-> t[f]]
      /\ t.queue = s.queue /\ t.win = s.win /\ t.box = s.box /\ t.choosers = s.choosers
      /\ t.spell = s.spell /\ t.nested = s.nested /\ t.undefined = 1
  BY DEF IsState, Fields
<1> HIDE DEF t
<1>2. IsState(t)
  BY <1>1 DEF IsState
<1> QED BY <1>1, <1>2 DEF Fits, t

LEMMA WordFits ==
  ASSUME NEW s, Fits(s), NEW w \in Words \cup {None}
  PROVE  LET t == [s EXCEPT !.win.word = w]
         IN  /\ Fits(t) /\ t.queue = s.queue /\ t.box = s.box /\ t.nested = s.nested
             /\ t.undefined = s.undefined /\ t.win.word = w /\ t.past = s.past
             /\ t.win.ctx = s.win.ctx
<1> DEFINE x == [s.win EXCEPT !.word = w]
           t == [s EXCEPT !.win = x]
<1>1. IsState(s)
  BY DEF Fits
<1>2. s.win \in WindowT
  BY <1>1 DEF IsState
<1>3. /\ x \in WindowT /\ x.ctx = s.win.ctx /\ x.busy = s.win.busy /\ x.max = s.win.max
      /\ x.last = s.win.last /\ x.current = s.win.current /\ x.word = w
  BY <1>2 DEF WindowT
<1>4. [s EXCEPT !.win.word = w] = t
  OBVIOUS
<1> HIDE DEF x
<1>5. /\ IsState(t) /\ t.win = x /\ t.queue = s.queue /\ t.box = s.box
      /\ t.choosers = s.choosers /\ SameRest(s, t)
  BY <1>1, <1>3, WinSet
<1> HIDE DEF t
<1>6. t.nested = s.nested /\ t.past = s.past /\ t.undefined = s.undefined
  BY <1>5 DEF SameRest
<1>7. /\ ShowsInTurn(s) => ShowsInTurn(t)
      /\ Pends(s) => Pends(t)
      /\ OneOfTheBox(s) => OneOfTheBox(t)
  BY <1>5, <1>6 DEF ShowsInTurn, Pends, OneOfTheBox
<1>8. Counts(s) => Counts(t)
  BY <1>3, <1>5, <1>6 DEF Counts
<1>9. Fits(t)
  BY <1>5, <1>6, <1>7, <1>8 DEF Fits
<1> QED BY <1>3, <1>4, <1>5, <1>6, <1>9

(* gdict_defbox_lookup. *)
LEMMA BoxAsksFits ==
  ASSUME NEW s, Fits(s), s.undefined = 0, NEW w \in Words, s.win.word = w,
         s.box.ctx \in Ctxs, s.box.busy # 1, NEW ok, NEW again, MayAnswer(s, s.box.ctx, ok)
  PROVE  LET t    == BoxClear(s)
             asks == [t EXCEPT !.box.on = 1, !.box.word = w]
         IN  Fits(Request(asks, asks.box.ctx, Lookup("define", w), ok, again))
<1> DEFINE cleared == BoxClear(s)
           a == [cleared EXCEPT !.box.on = 1, !.box.word = w]
           c == s.box.ctx
           l == Lookup("define", w)
           x == [s.box EXCEPT !.defs = <<>>, !.on = 1, !.word = w]
           t == Request(a, c, l, ok, again)
<1>1. /\ IsState(s) /\ ShowsInTurn(s)
      /\ s.past \cap {"moved", "lost"} = {} => Pends(s)
      /\ "shared" \notin s.past => OneOfTheBox(s)
      /\ s.past = {} => OneOfTheBox(s) /\ Counts(s)
  BY FitsParts
<1>2. c \in Ctxs /\ c = s.win.ctx /\ \A k \in Choosers : s.choosers[k].ctx = c
  BY <1>1, OneContext
<1>3. /\ x \in BoxT /\ x.ctx = c /\ x.on = 1 /\ x.busy = s.box.busy /\ x.word = w /\ x.defs = <<>>
  <2> DEFINE b == s.box
             b1 == [b EXCEPT !.defs = <<>>]
             b2 == [b1 EXCEPT !.on = 1]
             b3 == [b2 EXCEPT !.word = w]
  <2>1. b \in BoxT /\ <<>> \in Seq(Words \cup {None}) /\ w \in Words \cup {None}
    BY <1>1 DEF IsState
  <2>2. x = b3 /\ c = b.ctx
    OBVIOUS
  <2> HIDE DEF x, b
  <2>3. b1 \in BoxT /\ b1.ctx = b.ctx /\ b1.busy = b.busy /\ b1.defs = <<>>
    BY <2>1 DEF BoxT
  <2> HIDE DEF b1
  <2>4. b2 \in BoxT /\ b2.ctx = b.ctx /\ b2.busy = b.busy /\ b2.defs = <<>> /\ b2.on = 1
    BY <2>3 DEF BoxT
  <2> HIDE DEF b2
  <2>5. b3 \in BoxT /\ b3.ctx = b.ctx /\ b3.busy = b.busy /\ b3.defs = <<>> /\ b3.on = 1 /\ b3.word = w
    BY <2>1, <2>4 DEF BoxT
  <2> HIDE DEF b3
  <2> QED BY <2>2, <2>5 DEF b
<1>4. a = [s EXCEPT !.box = x]
  <2>1. s = [f \in Fields |-> s[f]] /\ s.box \in BoxT
    BY <1>1 DEF IsState
  <2> QED BY <2>1 DEF BoxClear, Fields, BoxT
<1>5. l \in Lookups /\ l.kind = "define" /\ l.word = w /\ l.found = 0
  BY DEF Lookup, Lookups, Kinds
<1> HIDE DEF x, a, l, c
<1>6. /\ IsState(a) /\ a.box = x /\ a.queue = s.queue /\ a.win = s.win
      /\ a.choosers = s.choosers /\ SameRest(s, a)
  BY <1>1, <1>3, <1>4, BoxSet DEF c
<1>7. a.nested = s.nested /\ a.past = s.past /\ a.undefined = 0
  BY <1>6 DEF SameRest
<1>8. MayAnswer(a, c, ok)
  BY <1>6 DEF MayAnswer, c
<1>9. Requested(a, t, c, l, ok)
  BY <1>2, <1>5, <1>6, <1>8, RequestIs
<1>10. Pends(s) => Pends(t)
  <2> SUFFICES ASSUME Pends(s) PROVE Pends(t)
    OBVIOUS
  <2>1. Pends(a)
    BY <1>3, <1>6 DEF Pends
  <2>2. IsState(a) /\ c \in Ctxs /\ c = a.win.ctx
    BY <1>2, <1>6
  <2> QED BY <1>5, <1>8, <2>1, <2>2, RequestPends
<1> HIDE DEF t
<1>11. /\ IsState(t) /\ t.win.ctx = c /\ t.nested = s.nested /\ t.past = s.past /\ t.undefined = 0
       /\ ShowsInTurn(a) => ShowsInTurn(t)
       /\ t.box.ctx = c /\ t.box.on = 1 /\ t.box.word = w /\ t.box.defs = <<>>
       /\ ok = 1 => t.queue[c] = Append(s.queue[c], l) /\ t.box.busy = 1 /\ t.win = WinStarted(a, c)
       /\ ok # 1 => /\ t.queue[c] = <<>> /\ t.win.busy = 0
                    /\ t.win.max = WinStarted(a, c).current - 1
  BY <1>3, <1>6, <1>7, <1>9 DEF Requested, SameRest, Connected
<1>12. ShowsInTurn(t)
  <2>1. ShowsInTurn(a)
    BY <1>1, <1>6, <1>7 DEF ShowsInTurn
  <2> QED BY <1>11, <2>1
<1>13. OneOfTheBox(s) => s.queue[c] = <<>>
  BY <1>2 DEF OneOfTheBox, c
<1>14. s.queue[c] = <<>> => Append(s.queue[c], l) = <<l>>
  OBVIOUS
<1>15. OneOfTheBox(s) => OneOfTheBox(t)
  <2> SUFFICES ASSUME OneOfTheBox(s) PROVE OneOfTheBox(t)
    OBVIOUS
  <2>1. DOMAIN t.box.defs = {}
    BY <1>11
  <2>2. CASE ok = 1
    <3>1. t.queue[c] = <<l>>
      BY <1>11, <1>13, <1>14, <2>2
    <3>2. Len(t.queue[c]) = 1 /\ t.queue[c][1] = l
      BY <3>1
    <3> QED BY <1>5, <1>11, <2>1, <2>2, <3>2 DEF OneOfTheBox
  <2>3. CASE ok # 1
    BY <1>11, <2>1, <2>3 DEF OneOfTheBox
  <2> QED BY <2>2, <2>3
<1>16. OneOfTheBox(s) /\ Counts(s) => Counts(t)
  <2> SUFFICES ASSUME OneOfTheBox(s), Counts(s) PROVE Counts(t)
    OBVIOUS
  <2>1. DOMAIN s.nested = {} /\ Len(s.nested) <= 1
    BY <1>1, <1>2, <1>13 DEF Counts, ShowsInTurn
  <2>2. /\ WinStarted(a, c).busy = 1 /\ WinStarted(a, c).max = -1
        /\ WinStarted(a, c).last = 0 /\ WinStarted(a, c).current = 0
    <3>1. a.win \in WindowT /\ a.win.ctx = c /\ a.win.word # None
      BY <1>2, <1>6, NoneAssumption DEF IsState
    <3> QED BY <3>1 DEF WinStarted, WindowT
  <2>3. Len(t.box.defs) = 0
    BY <1>11
  <2>4. CASE ok = 1
    <3>1. t.queue[c] = <<l>> /\ t.win = WinStarted(a, c)
      BY <1>11, <1>13, <1>14, <2>4
    <3>2. t.queue[c][1] = l
      BY <3>1
    <3> QED BY <1>5, <1>11, <2>1, <2>2, <2>3, <3>1, <3>2 DEF Counts
  <2>5. CASE ok # 1
    BY <1>11, <2>1, <2>2, <2>3, <2>5 DEF Counts
  <2> QED BY <2>4, <2>5
<1>17. Fits(t)
  BY <1>1, <1>10, <1>11, <1>12, <1>15, <1>16 DEF Fits
<1>18. a.box.ctx = c
  BY <1>3, <1>6
<1> QED BY <1>17, <1>18 DEF t, a, l

LEMMA SetWordFits ==
  ASSUME NEW s, Fits(s), s.undefined = 0, NEW w \in Words, NEW ok, NEW again,
         s.box.ctx \in Ctxs => MayAnswer(s, s.box.ctx, ok)
  PROVE  Fits(SetWord(s, w, ok, again))
<1> DEFINE t == [s EXCEPT !.win.word = w]
<1>1. /\ Fits(t) /\ t.queue = s.queue /\ t.box = s.box /\ t.nested = s.nested
      /\ t.undefined = 0 /\ t.win.word = w
  BY WordFits
<1> HIDE DEF t
<1>2. IsState(t) /\ t.box.ctx \in Ctxs \cup {None, Stale}
  BY <1>1 DEF Fits, IsState, BoxT
<1>3. SetWord(s, w, ok, again) = BoxLookup(t, w, ok, again)
  BY DEF SetWord, t
<1>4. CASE t.box.ctx = None
  BY <1>1, <1>3, <1>4 DEF BoxLookup
<1>5. CASE t.box.ctx = Stale
  BY <1>2, <1>3, <1>5, UndefinedFits, NoneAssumption DEF BoxLookup
<1>6. CASE t.box.ctx \in Ctxs /\ t.box.busy = 1
  <2> DEFINE x == Len(t.nested) + 1
  <2>1. BoxLookup(t, w, ok, again) = [t EXCEPT !.dialog = x]
    BY <1>6, NoneAssumption DEF BoxLookup
  <2> HIDE DEF x
  <2>2. Fits([t EXCEPT !.dialog = x])
    BY <1>1, AsideFits
  <2> QED BY <1>3, <2>1, <2>2
<1>7. CASE t.box.ctx \in Ctxs /\ t.box.busy # 1
  <2>1. MayAnswer(t, t.box.ctx, ok)
    BY <1>1, <1>7 DEF MayAnswer
  <2> DEFINE a == [BoxClear(t) EXCEPT !.box.on = 1, !.box.word = w]
  <2>2. BoxLookup(t, w, ok, again) = Request(a, a.box.ctx, Lookup("define", w), ok, again)
    BY <1>7, NoneAssumption DEF BoxLookup
  <2>3. Fits(Request(a, a.box.ctx, Lookup("define", w), ok, again))
    BY <1>1, <1>7, <2>1, BoxAsksFits
  <2> QED BY <1>3, <2>2, <2>3
<1> QED BY <1>2, <1>4, <1>5, <1>6, <1>7

(* A request on behalf of another widget than the box. *)
LEMMA SharedFits ==
  ASSUME NEW s, Fits(s), s.undefined = 0, NEW c \in Ctxs, c = s.win.ctx, NEW l \in Lookups,
         NEW ok, NEW again, MayAnswer(s, c, ok)
  PROVE  Fits(Disturbed(Request(s, c, l, ok, again), "shared", TRUE))
<1> DEFINE r == Request(s, c, l, ok, again)
           t == [r EXCEPT !.past = r.past \cup {"shared"}]
<1>1. /\ IsState(s) /\ ShowsInTurn(s)
      /\ s.past \cap {"moved", "lost"} = {} => Pends(s)
  BY FitsParts
<1>2. Requested(s, r, c, l, ok)
  BY <1>1, RequestIs
<1>3. Pends(s) => Pends(r)
  BY <1>1, RequestPends
<1> HIDE DEF r
<1>4. IsState(r) /\ ShowsInTurn(r) /\ r.past = s.past /\ r.undefined = 0
  BY <1>1, <1>2 DEF Requested, SameRest
<1>5. /\ IsState(t) /\ t.queue = r.queue /\ t.box = r.box /\ t.choosers = r.choosers
      /\ t.nested = r.nested /\ t.past = r.past \cup {"shared"} /\ t.undefined = 0
  BY <1>4, PastSet DEF SameWidgets
<1> HIDE DEF t
<1>6. ShowsInTurn(t) /\ (Pends(r) => Pends(t))
  BY <1>4, <1>5 DEF ShowsInTurn, Pends
<1>7. /\ "shared" \in t.past /\ t.past # {}
      /\ t.past \cap {"moved", "lost"} = {} => s.past \cap {"moved", "lost"} = {}
  BY <1>4, <1>5
<1>8. Fits(t)
  BY <1>1, <1>3, <1>5, <1>6, <1>7 DEF Fits
<1>9. Disturbed(r, "shared", TRUE) = t
  BY DEF Disturbed, t
<1> QED BY <1>8, <1>9 DEF r

LEMMA SpellerAsksIs ==
  ASSUME NEW s, IsState(s), NEW w \in Words \cup {None}
  PROVE  /\ SpellerOnly(s, SpellerAsks(s, w)) /\ SpellerAsks(s, w).queue = s.queue
         /\ SpellerAsks(s, w).spell.ctx = s.spell.ctx
<1> DEFINE x == [s.spell EXCEPT !.rows = {}, !.on = 1, !.word = w]
           t == SpellerAsks(s, w)
<1>1. x \in SpellerT /\ x.ctx = s.spell.ctx
  <2> DEFINE b == s.spell
             b1 == [b EXCEPT !.rows = {}]
             b2 == [b1 EXCEPT !.on = 1]
             b3 == [b2 EXCEPT !.word = w]
  <2>1. b \in SpellerT /\ w \in Words \cup {None}
    BY DEF IsState
  <2>2. x = b3 /\ s.spell.ctx = b.ctx
    OBVIOUS
  <2> HIDE DEF x, b
  <2>3. b1 \in SpellerT /\ b1.ctx = b.ctx
    BY <2>1 DEF SpellerT
  <2> HIDE DEF b1
  <2>4. b2 \in SpellerT /\ b2.ctx = b.ctx
    BY <2>3 DEF SpellerT
  <2> HIDE DEF b2
  <2>5. b3 \in SpellerT /\ b3.ctx = b.ctx
    BY <2>1, <2>4 DEF SpellerT
  <2> QED BY <2>2, <2>5
<1>2. t = [s EXCEPT !.spell = x]
  <2>1. s = [f \in Fields |-> s[f]] /\ s.spell \in SpellerT
    BY DEF IsState
  <2> QED BY <2>1 DEF SpellerAsks, SpellerClear, Fields, SpellerT
<1> HIDE DEF x, t
<1>3. SpellerOnly(s, t) /\ t.spell = x
  BY <1>1, <1>2, SpellerSet
<1>4. t.queue = s.queue
  BY <1>2 DEF IsState, Fields
<1> QED BY <1>1, <1>3, <1>4 DEF t

(* The speller looks for words on the window's context. *)
LEMMA SharedMatchFits ==
  ASSUME NEW s, Fits(s), s.undefined = 0, NEW w \in Words \cup {None},
         s.spell.ctx = s.win.ctx, s.spell.ctx \in Ctxs,
         NEW ok, NEW again, MayAnswer(s, s.spell.ctx, ok)
  PROVE  Fits(SharedMatch(s, w, ok, again))
<1> DEFINE a == SpellerAsks(s, w)
           c == s.spell.ctx
           l == Lookup("match", w)
<1>1. IsState(s)
  BY DEF Fits
<1>2. SpellerOnly(s, a) /\ a.queue = s.queue
  BY <1>1, SpellerAsksIs
<1> HIDE DEF a
<1>3. Fits(a) /\ a.undefined = 0 /\ c = a.win.ctx /\ MayAnswer(a, c, ok) /\ c \in Ctxs
  BY <1>2, QuietFits DEF SpellerOnly, SameWidgets, SameRest, MayAnswer
<1>4. l \in Lookups
  BY DEF Lookup, Lookups, Kinds
<1> HIDE DEF c, l
<1>5. Fits(Disturbed(Request(a, c, l, ok, again), "shared", TRUE))
  BY <1>3, <1>4, SharedFits
<1> QED BY <1>5 DEF SharedMatch, a, c, l

(* And on its own. *)
LEMMA OwnMatchFits ==
  ASSUME NEW s, Fits(s), s.spell.ctx # s.win.ctx, NEW w \in Words \cup {None}, NEW ok
  PROVE  Fits(SpellerMatch(s, w, ok))
<1>1. SpellerOnly(s, SpellerMatch(s, w, ok))
  BY MatchElsewhere DEF Fits
<1> QED BY <1>1, QuietFits

LEMMA RefreshFits ==
  ASSUME NEW s, Fits(s), s.undefined = 0, NEW k \in Choosers, NEW ok, NEW again,
         s.choosers[k].ctx \in Ctxs => MayAnswer(s, s.choosers[k].ctx, ok)
  PROVE  Fits(ChooserRefresh(s, k, ok, again))
<1> DEFINE c == s.choosers[k].ctx
           y == [s.choosers[k] EXCEPT !.on = 1]
           x == [s.choosers EXCEPT ![k] = y]
           t == [s EXCEPT !.choosers = x]
           l == Lookup(k, None)
<1>1. /\ IsState(s) /\ ShowsInTurn(s)
      /\ s.past \cap {"moved", "lost"} = {} => Pends(s)
      /\ "shared" \notin s.past => OneOfTheBox(s)
      /\ s.past = {} => OneOfTheBox(s) /\ Counts(s)
  BY FitsParts
<1>2. s.choosers \in [Choosers -> ChooserT] /\ c \in Ctxs \cup {None} /\ c = s.win.ctx
  BY <1>1, OneContext DEF IsState, ChooserT
<1>3. CASE c = None \/ s.choosers[k].busy = 1
  BY <1>3 DEF ChooserRefresh
<1>4. CASE c \in Ctxs /\ s.choosers[k].busy # 1
  <2>1. y \in ChooserT /\ y.ctx = c /\ y.busy = s.choosers[k].busy
    BY <1>2 DEF ChooserT
  <2>2. [s EXCEPT !.choosers[k].on = 1] = t
    BY <1>1 DEF IsState, Fields
  <2> HIDE DEF y
  <2>3. /\ x \in [Choosers -> ChooserT] /\ \A j \in Choosers : x[j].ctx = s.choosers[j].ctx
        /\ \A j \in Choosers : x[j].busy = 1 => x[j] = s.choosers[j]
    BY <1>2, <1>4, <2>1
  <2> HIDE DEF x
  <2>4. /\ IsState(t) /\ t.choosers = x /\ t.queue = s.queue /\ t.box = s.box
        /\ t.win = s.win /\ SameRest(s, t)
    BY <1>1, <2>3, ChoosersSet
  <2> HIDE DEF t
  <2>5. t.nested = s.nested /\ t.past = s.past /\ t.undefined = 0
    BY <2>4 DEF SameRest
  <2>6. Fits(t)
    <3>1. ShowsInTurn(t) /\ (OneOfTheBox(s) => OneOfTheBox(t))
      BY <1>1, <2>4, <2>5 DEF ShowsInTurn, OneOfTheBox
    <3>2. Counts(s) => Counts(t)
      BY <2>4, <2>5 DEF Counts
    <3>3. Pends(s) => Pends(t)
      BY <2>3, <2>4 DEF Pends
    <3> QED BY <1>1, <2>4, <2>5, <3>1, <3>2, <3>3 DEF Fits
  <2>7. l \in Lookups
    BY DEF Lookup, Lookups, Kinds
  <2>8. c = t.win.ctx /\ MayAnswer(t, c, ok) /\ c \in Ctxs
    BY <1>2, <1>4, <2>4 DEF MayAnswer
  <2>9. ChooserRefresh(s, k, ok, again) = Disturbed(Request(t, c, l, ok, again), "shared", TRUE)
    <3>1. c # None
      BY <1>4, NoneAssumption
    <3> QED BY <1>4, <2>2, <3>1 DEF ChooserRefresh
  <2> HIDE DEF c, l
  <2>10. Fits(Disturbed(Request(t, c, l, ok, again), "shared", TRUE))
    BY <2>5, <2>6, <2>7, <2>8, SharedFits
  <2> QED BY <2>9, <2>10
<1> QED BY <1>2, <1>3, <1>4

LEMMA ClearFits ==
  ASSUME NEW s, Fits(s)
  PROVE  Fits(SpellerClear(s))
<1> DEFINE x == [s.spell EXCEPT !.rows = {}]
<1>1. IsState(s) /\ x \in SpellerT
  BY DEF Fits, IsState, SpellerT
<1>2. SpellerClear(s) = [s EXCEPT !.spell = x]
  BY DEF SpellerClear
<1> HIDE DEF x
<1> QED BY <1>1, <1>2, SpellerSet, QuietFits

(* Another source: everybody goes to a new context, or to none. *)
LEMMA MovedFits ==
  ASSUME NEW s, Good(s), s.undefined = 0, NEW c \in {NewContext(s), None}
  PROVE  Fits(SetContext(Disturbed(s, "moved", Busy(s)), c))
<1> DEFINE d == Disturbed(s, "moved", Busy(s))
           t == SetContext(d, c)
           e == IF c # None THEN c ELSE IF s.box.ctx = None THEN None ELSE Stale
           u == IF s.box.ctx = Stale THEN 1 ELSE s.undefined
           x == [s.box EXCEPT !.on = 0, !.ctx = e]
           y == [k \in Choosers |-> [s.choosers[k] EXCEPT !.ctx = c, !.on = 0]]
           z == [s.win EXCEPT !.ctx = c]
<1>1. /\ IsState(s) /\ ShowsInTurn(s)
      /\ "shared" \notin s.past => OneOfTheBox(s)
      /\ s.past = {} => OneOfTheBox(s) /\ Counts(s)
      /\ \A n \in Ctxs \ Held(s) : s.queue[n] = <<>>
  BY FitsParts DEF Good
<1>2. s.win \in WindowT /\ s.box \in BoxT /\ \A k \in Choosers : s.choosers[k] \in ChooserT
  BY <1>1 DEF IsState
<1>3. /\ c \in Ctxs \cup {None} /\ e \in Ctxs \cup {None, Stale}
      /\ c \in Ctxs => s.queue[c] = <<>> /\ e = c
      /\ c \notin Ctxs => c = None /\ e \notin Ctxs
      /\ c = e \/ (c = None /\ e = Stale)
  <2>1. NewContext(s) \in Ctxs /\ s.queue[NewContext(s)] = <<>>
    BY <1>1, NewContextIsFree
  <2> QED BY <2>1, NoneAssumption
<1>4. /\ d = [f \in Fields |-> d[f]]
      /\ d.queue = s.queue /\ d.win = s.win /\ d.box = s.box /\ d.choosers = s.choosers
      /\ d.spell = s.spell /\ d.nested = s.nested /\ d.undefined = s.undefined
      /\ d.past = IF Busy(s) THEN s.past \cup {"moved"} ELSE s.past
  BY <1>1 DEF Disturbed, IsState, Fields
<1> HIDE DEF d
<1>5. /\ t = [f \in Fields |-> t[f]]
      /\ t.queue = s.queue /\ t.win = z /\ t.box = x /\ t.choosers = y
      /\ t.spell = s.spell /\ t.nested = s.nested /\ t.undefined = u /\ t.past = d.past
  <2> DEFINE b == BoxSetContext(d, c)
             h == ChooserSetContext(b, c)
  <2>1. /\ b = [f \in Fields |-> b[f]]
        /\ b.queue = s.queue /\ b.win = s.win /\ b.choosers = s.choosers
        /\ b.spell = s.spell /\ b.nested = s.nested /\ b.undefined = u /\ b.past = d.past
    BY <1>4 DEF BoxSetContext, Fields
  <2>2. b.box = x
    <3>1. b.box = [[s.box EXCEPT !.on = 0] EXCEPT !.ctx = e]
      BY <1>2, <1>4 DEF BoxSetContext, Fields, BoxT
    <3> QED BY <3>1
  <2> HIDE DEF b
  <2>3. /\ h = [f \in Fields |-> h[f]]
        /\ h.queue = s.queue /\ h.win = s.win /\ h.box = x /\ h.choosers = y
        /\ h.spell = s.spell /\ h.nested = s.nested /\ h.undefined = u /\ h.past = d.past
    BY <2>1, <2>2 DEF ChooserSetContext, Fields
  <2> HIDE DEF h, x, y, u
  <2>4. t = [h EXCEPT !.win.ctx = c]
    BY DEF SetContext, h, b
  <2> HIDE DEF t
  <2> QED BY <2>3, <2>4 DEF Fields
<1> HIDE DEF t, e, u
<1>6. /\ x \in BoxT /\ x.ctx = e /\ x.busy = s.box.busy /\ x.word = s.box.word /\ x.defs = s.box.defs
  <2> DEFINE b == s.box
             b1 == [b EXCEPT !.on = 0]
             b2 == [b1 EXCEPT !.ctx = e]
  <2>1. b \in BoxT
    BY <1>2
  <2>2. x = b2
    OBVIOUS
  <2> HIDE DEF x, b
  <2>3. b1 \in BoxT /\ b1.busy = b.busy /\ b1.word = b.word /\ b1.defs = b.defs
    BY <2>1 DEF BoxT
  <2> HIDE DEF b1
  <2>4. b2 \in BoxT /\ b2.ctx = e /\ b2.busy = b.busy /\ b2.word = b.word /\ b2.defs = b.defs
    BY <1>3, <2>3 DEF BoxT
  <2> QED BY <2>2, <2>4 DEF b
<1>7. y \in [Choosers -> ChooserT] /\ \A k \in Choosers : y[k].ctx = c /\ y[k].busy = s.choosers[k].busy
  <2> SUFFICES ASSUME NEW k \in Choosers
               PROVE  y[k] \in ChooserT /\ y[k].ctx = c /\ y[k].busy = s.choosers[k].busy
    OBVIOUS
  <2> DEFINE v == s.choosers[k]
  <2>1. v \in ChooserT
    BY <1>2
  <2>2. y[k] = [v EXCEPT !.ctx = c, !.on = 0]
    OBVIOUS
  <2> HIDE DEF v
  <2> DEFINE v1 == [v EXCEPT !.ctx = c]
  <2>3. v1 \in ChooserT /\ v1.ctx = c /\ v1.busy = v.busy
    BY <1>3, <2>1 DEF ChooserT
  <2>4. y[k] = [v1 EXCEPT !.on = 0]
    BY <2>2
  <2> HIDE DEF v1, y
  <2>5. y[k] \in ChooserT /\ y[k].ctx = c /\ y[k].busy = v.busy
    BY <2>3, <2>4 DEF ChooserT
  <2> QED BY <2>5 DEF v
<1>8. /\ z \in WindowT /\ z.ctx = c /\ z.busy = s.win.busy /\ z.max = s.win.max
      /\ z.last = s.win.last /\ z.current = s.win.current
  BY <1>2, <1>3 DEF WindowT
<1> HIDE DEF x, y, z
<1>9. IsState(t)
  BY <1>1, <1>3, <1>5, <1>6, <1>7, <1>8 DEF IsState
<1>10. ShowsInTurn(t)
  BY <1>1, <1>5 DEF ShowsInTurn
<1>11. t.past \cap {"moved", "lost"} = {} => Pends(t)
  <2> SUFFICES ASSUME t.past \cap {"moved", "lost"} = {} PROVE Pends(t)
    OBVIOUS
  <2>1. ~Busy(s)
    BY <1>4, <1>5
  <2>2. s.box.busy # 1 /\ \A k \in Choosers : s.choosers[k].busy # 1
    BY <2>1 DEF Busy
  <2> QED BY <1>5, <1>6, <1>7, <2>2 DEF Pends
<1>12. "shared" \notin t.past => OneOfTheBox(t)
  <2> SUFFICES ASSUME "shared" \notin t.past PROVE OneOfTheBox(t)
    OBVIOUS
  <2>1. OneOfTheBox(s)
    BY <1>1, <1>4, <1>5
  <2>2. e \in Ctxs => t.queue[e] = <<>>
    BY <1>3, <1>5
  <2> QED BY <1>5, <1>6, <2>1, <2>2 DEF OneOfTheBox
<1>13. t.past = {} => Counts(t)
  <2> SUFFICES ASSUME t.past = {} PROVE Counts(t)
    OBVIOUS
  <2>1. ~Busy(s) /\ s.past = {}
    BY <1>4, <1>5
  <2>2. s.win.busy # 1 /\ Counts(s)
    BY <1>1, <2>1 DEF Busy
  <2>3. DOMAIN s.nested = {}
    <3> SUFFICES ASSUME NEW i \in DOMAIN s.nested PROVE FALSE
      OBVIOUS
    <3>1. s.nested[i].ctx = s.win.ctx /\ s.nested[i].ctx \in Ctxs /\ s.queue[s.nested[i].ctx] # <<>>
      BY <1>1, <2>2, NestedTyped DEF Counts, ShowsInTurn
    <3> QED BY <2>2, <3>1 DEF Counts
  <2>4. c \in Ctxs => t.queue[c] = <<>>
    BY <1>3, <1>5
  <2> QED BY <1>5, <1>6, <1>8, <2>2, <2>3, <2>4 DEF Counts
<1> QED BY <1>9, <1>10, <1>11, <1>12, <1>13 DEF Fits, t, d

(* The four ways to go to a definition. *)
LEMMA GoFits ==
  ASSUME NEW s, Fits(s), s.undefined = 0, NEW last \in Int, NEW max \in Int,
         s.win.max # -1 =>
           /\ max = s.win.max
           /\ s.win.max >= 0 /\ s.win.last \in 0..s.win.max => last \in 0..s.win.max
  PROVE  Fits([Disturbed(s, "hurried", s.win.max = -1) EXCEPT !.win.last = last, !.win.max = max])
<1> DEFINE d == Disturbed(s, "hurried", s.win.max = -1)
           x == [s.win EXCEPT !.last = last, !.max = max]
           t == [d EXCEPT !.win = x]
<1>1. d = s \/ d = [s EXCEPT !.past = s.past \cup {"hurried"}]
  BY DEF Disturbed
<1>2. /\ Fits(d) /\ d.win = s.win /\ d.undefined = s.undefined
  <2>1. Fits([s EXCEPT !.past = s.past \cup {"hurried"}])
    BY PastFits
  <2>2. /\ [s EXCEPT !.past = s.past \cup {"hurried"}].win = s.win
        /\ [s EXCEPT !.past = s.past \cup {"hurried"}].undefined = s.undefined
    BY DEF Fits, IsState, Fields
  <2> HIDE DEF d
  <2> QED BY <1>1, <2>1, <2>2
<1>3. d.past = {} => s.win.max # -1
  BY DEF Disturbed, Fits, IsState, Fields
<1>4. /\ x \in WindowT /\ x.ctx = s.win.ctx /\ x.busy = s.win.busy /\ x.current = s.win.current
      /\ x.last = last /\ x.max = max
  <2> DEFINE b == s.win
             b1 == [b EXCEPT !.last = last]
             b2 == [b1 EXCEPT !.max = max]
  <2>1. b \in WindowT
    BY DEF Fits, IsState
  <2>2. x = b2
    OBVIOUS
  <2> HIDE DEF x, b
  <2>3. b1 \in WindowT /\ b1.ctx = b.ctx /\ b1.busy = b.busy /\ b1.current = b.current /\ b1.last = last
    BY <2>1 DEF WindowT
  <2> HIDE DEF b1
  <2>4. /\ b2 \in WindowT /\ b2.ctx = b.ctx /\ b2.busy = b.busy /\ b2.current = b.current
        /\ b2.last = last /\ b2.max = max
    BY <2>3 DEF WindowT
  <2> QED BY <2>2, <2>4 DEF b
<1>5. [d EXCEPT !.win.last = last, !.win.max = max] = t
  <2> HIDE DEF d
  <2>1. d = [f \in Fields |-> d[f]] /\ d.win \in WindowT
    BY <1>2 DEF Fits, IsState
  <2> QED BY <1>2, <2>1 DEF Fields, WindowT
<1> HIDE DEF x, d
<1>6. /\ IsState(t) /\ t.win = x /\ t.queue = d.queue /\ t.box = d.box
      /\ t.choosers = d.choosers /\ SameRest(d, t)
  BY <1>2, <1>4, WinSet DEF Fits
<1> HIDE DEF t
<1>7. t.nested = d.nested /\ t.past = d.past /\ t.undefined = d.undefined
  BY <1>6 DEF SameRest
<1>8. /\ ShowsInTurn(d) => ShowsInTurn(t)
      /\ Pends(d) => Pends(t)
      /\ OneOfTheBox(d) => OneOfTheBox(t)
  BY <1>6, <1>7 DEF ShowsInTurn, Pends, OneOfTheBox
<1>9. d.past = {} /\ Counts(d) => Counts(t)
  <2> SUFFICES ASSUME d.past = {}, Counts(d) PROVE Counts(t)
    OBVIOUS
  <2>1. max = d.win.max /\ d.win.max # -1
        /\ (d.win.max >= 0 /\ d.win.last \in 0..d.win.max => last \in 0..d.win.max)
    BY <1>2, <1>3
  <2>2. ~(d.win.ctx \in Ctxs /\ d.queue[d.win.ctx] # <<>>)
    BY <2>1 DEF Counts
  <2> QED BY <1>2, <1>4, <1>6, <1>7, <2>1, <2>2 DEF Counts
<1>10. Fits(t)
  BY <1>2, <1>6, <1>7, <1>8, <1>9 DEF Fits
<1> QED BY <1>5, <1>10 DEF d

-----------------------------------------------------------------------------
(* The steps.                                                              *)

LEMMA NowFields ==
  /\ Now.queue = queue /\ Now.win = win /\ Now.box = box /\ Now.spell = spell
  /\ Now.choosers = choosers /\ Now.dialog = dialog /\ Now.nested = nested
  /\ Now.past = past /\ Now.asked = asked /\ Now.undefined = undefined
  BY DEF Now

LEMMA AsksGood ==
  ASSUME NEW t, Fits(t), Asks(t)
  PROVE  Good(Now')
<1> DEFINE u == [t EXCEPT !.asked = t.asked + 1]
           x == t.asked + 1
<1>1. Becomes(u)
  BY DEF Asks
<1>2. Fits(u)
  <2>1. Fits([t EXCEPT !.asked = x])
    <3> HIDE DEF x
    <3> QED BY AsideFits
  <2> QED BY <2>1
<1> HIDE DEF u
<1> QED BY <1>1, <1>2, BecomesGood

LEMMA AnsweringNow ==
  ASSUME NEW c \in Ctxs, Answers(c)
  PROVE  Answering(Now, c)
  BY NowFields DEF Answers, Answering

LEMMA LookupGood ==
  ASSUME Good(Now), LookupWord
  PROVE  Good(Now')
<1>1. PICK w \in Words, from \in {"entry", "drag", "speller"}, ok \in 0..1, again \in 0..1 :
        /\ Input
        /\ box.ctx \in Ctxs => Room(box.ctx) /\ MayAnswer(Now, box.ctx, ok)
        /\ Asks(SetWord(Now, w, ok, again))
  BY DEF LookupWord
<1>2. Fits(Now) /\ Now.undefined = 0 /\ (Now.box.ctx \in Ctxs => MayAnswer(Now, Now.box.ctx, ok))
  BY <1>1, NowFields DEF Good, Input
<1>3. Fits(SetWord(Now, w, ok, again))
  BY <1>2, SetWordFits
<1> QED BY <1>1, <1>3, AsksGood

LEMMA PageGood ==
  ASSUME Good(Now), PageChanged
  PROVE  Good(Now')
<1>0. Fits(Now) /\ Now.undefined = 0 /\ IsState(Now)
  BY NowFields DEF Good, Fits, PageChanged, Input
<1>1. ASSUME NEW ok \in 0..1, NEW again \in 0..1, ViewSpeller(ok, again)
      PROVE  Good(Now')
  <2> DEFINE w == win.word
  <2>1. w \in Words \cup {None} /\ spell.ctx \in Ctxs
    <3>1. win \in WindowT /\ spell \in SpellerT
      BY <1>0, NowFields DEF IsState
    <3> QED BY <1>1, <3>1, NowFields DEF ViewSpeller, SpellerMayMatch, WindowT, SpellerT
  <2> HIDE DEF w
  <2>2. CASE spell.ctx = win.ctx
    <3>1. MayAnswer(Now, spell.ctx, ok) /\ Asks(SharedMatch(Now, w, ok, again))
      BY <1>1, <2>2 DEF ViewSpeller, w
    <3>2. Fits(SharedMatch(Now, w, ok, again))
      BY <1>0, <2>1, <2>2, <3>1, SharedMatchFits, NowFields
    <3> QED BY <3>1, <3>2, AsksGood
  <2>3. CASE spell.ctx # win.ctx
    <3>1. Asks(SpellerMatch(Now, w, ok))
      BY <1>1, <2>3 DEF ViewSpeller, w
    <3>2. Fits(SpellerMatch(Now, w, ok))
      BY <1>0, <2>1, <2>3, OwnMatchFits, NowFields
    <3> QED BY <3>1, <3>2, AsksGood
  <2> QED BY <2>2, <2>3
<1>2. ASSUME NEW ok \in 0..1, NEW again \in 0..1, NEW k \in Choosers, ViewChooser(k, ok, again)
      PROVE  Good(Now')
  <2>1. Now.choosers[k].ctx \in Ctxs => MayAnswer(Now, Now.choosers[k].ctx, ok)
    BY <1>2, NowFields DEF ViewChooser
  <2>2. Fits(ChooserRefresh(Now, k, ok, again))
    BY <1>0, <2>1, RefreshFits
  <2> QED BY <1>2, <2>2, AsksGood DEF ViewChooser
<1> QED BY <1>1, <1>2 DEF PageChanged

LEMMA MoveGood ==
  ASSUME Good(Now), SetSourceName
  PROVE  Good(Now')
<1>1. PICK c \in {NewContext(Now), None} :
        Asks(SetContext(Disturbed(Now, "moved", Busy(Now)), c))
  BY DEF SetSourceName
<1>2. Now.undefined = 0
  BY NowFields DEF SetSourceName, Input
<1>3. Fits(SetContext(Disturbed(Now, "moved", Busy(Now)), c))
  BY <1>2, MovedFits
<1> QED BY <1>1, <1>3, AsksGood

LEMMA GoesGood ==
  ASSUME Good(Now), undefined = 0, NEW last \in Int, NEW max \in Int, Go(last, max),
         win.max # -1 =>
           /\ max = win.max
           /\ win.max >= 0 /\ win.last \in 0..win.max => last \in 0..win.max
  PROVE  Good(Now')
<1> DEFINE t == [Disturbed(Now, "hurried", Now.win.max = -1) EXCEPT !.win.last = last, !.win.max = max]
<1>1. Becomes(t)
  BY NowFields DEF Go
<1>2. /\ Fits(Now) /\ Now.undefined = 0
      /\ Now.win.max # -1 =>
           /\ max = Now.win.max
           /\ Now.win.max >= 0 /\ Now.win.last \in 0..Now.win.max => last \in 0..Now.win.max
  BY NowFields DEF Good
<1>3. Fits(t)
  BY <1>2, GoFits
<1> HIDE DEF t
<1> QED BY <1>1, <1>3, BecomesGood

LEMMA GoGood ==
  ASSUME Good(Now), GoDefinition
  PROVE  Good(Now')
<1>1. /\ undefined = 0 /\ win.max \in Int /\ win.last \in Int /\ Count \in Int
  <2>1. IsState(Now)
    BY DEF Good, Fits
  <2>2. win \in WindowT /\ box \in BoxT
    BY <2>1, NowFields DEF IsState
  <2>3. box.defs \in Seq(Words \cup {None}) /\ win.max \in Int /\ win.last \in Int
    BY <2>2 DEF BoxT, WindowT
  <2>4. Count \in Int
    BY <2>3 DEF Count
  <2> QED BY <2>3, <2>4 DEF GoDefinition, Input
<1>2. CASE GoFirst
  BY <1>1, <1>2, GoesGood DEF GoFirst
<1>3. CASE GoPrevious
  <2>1. win.last - 1 \in Int /\ Go(win.last - 1, win.max) /\ win.last # 0
    BY <1>1, <1>3 DEF GoPrevious
  <2>2. win.max >= 0 /\ win.last \in 0..win.max => win.last - 1 \in 0..win.max
    BY <1>1, <2>1
  <2> DEFINE last == win.last - 1
  <2> HIDE DEF last
  <2>3. last \in Int /\ Go(last, win.max) /\ (win.max >= 0 /\ win.last \in 0..win.max => last \in 0..win.max)
    BY <2>1, <2>2 DEF last
  <2> QED BY <1>1, <2>3, GoesGood
<1>4. CASE GoNext
  <2> DEFINE max == IF win.max = -1 THEN Count - 1 ELSE win.max
             last == IF win.last = max THEN win.last ELSE win.last + 1
  <2>1. Go(last, max)
    BY <1>4 DEF GoNext
  <2>2. max \in Int /\ (win.max # -1 => max = win.max)
    BY <1>1
  <2>3. last \in Int /\ (win.max # -1 /\ win.max >= 0 /\ win.last \in 0..win.max => last \in 0..win.max)
    BY <1>1, <2>2
  <2> HIDE DEF max, last
  <2> QED BY <1>1, <2>1, <2>2, <2>3, GoesGood
<1>5. CASE GoLast
  <2>1. Go(win.max, win.max)
    BY <1>5 DEF GoLast
  <2>2. win.max >= 0 /\ win.last \in 0..win.max => win.max \in 0..win.max
    BY <1>1
  <2> QED BY <1>1, <2>1, <2>2, GoesGood
<1> QED BY <1>2, <1>3, <1>4, <1>5 DEF GoDefinition

LEMMA UserGood ==
  ASSUME Good(Now), User
  PROVE  Good(Now')
<1>1. CASE CloseDialog
  <2>1. Becomes([Now EXCEPT !.dialog = 0])
    BY <1>1 DEF CloseDialog
  <2>2. Fits([Now EXCEPT !.dialog = 0])
    BY AsideFits DEF Good
  <2> QED BY <2>1, <2>2, BecomesGood
<1>2. CASE ClearSpeller
  <2>1. Becomes(SpellerClear(Now)) /\ Fits(SpellerClear(Now))
    BY <1>2, ClearFits DEF ClearSpeller, Good
  <2> QED BY <2>1, BecomesGood
<1> QED BY <1>1, <1>2, LookupGood, PageGood, MoveGood, GoGood DEF User

LEMMA ContextGood ==
  ASSUME Good(Now), NEW c \in Ctxs, Context(c)
  PROVE  Good(Now')
<1>0. Fits(Now) /\ IsState(Now)
  BY DEF Good, Fits
<1>1. CASE DefinitionFound(c)
  <2>1. Answering(Now, c) /\ Now.queue[c][1].kind = "define"
    BY <1>1, AnsweringNow, NowFields DEF DefinitionFound
  <2>2. CASE win.ctx # c
    <3>1. Becomes(Found(Now, c))
      BY <1>1, <2>2 DEF DefinitionFound
    <3>2. c # Now.win.ctx
      BY <2>2, NowFields
    <3>3. Fits(Found(Now, c))
      BY <1>0, <2>1, <3>2, FoundFits
    <3> QED BY <3>1, <3>3, BecomesGood
  <2>3. CASE win.ctx = c
    <3> DEFINE t == [Now EXCEPT !.nested = Append(Now.nested, [ctx |-> c, n |-> Now.win.current + 1])]
    <3>1. Becomes(t)
      BY <1>1, <2>3, NowFields DEF DefinitionFound
    <3>2. c = Now.win.ctx /\ Len(Now.nested) < MaxNested
      BY <1>1, <2>3, NowFields DEF DefinitionFound
    <3>3. Fits(t)
      BY <1>0, <2>1, <3>2, DefinitionFits
    <3> HIDE DEF t
    <3> QED BY <3>1, <3>3, BecomesGood
  <2> QED BY <2>2, <2>3
<1>2. CASE RowFound(c)
  <2> DEFINE t == Found(IF Now.queue[c][1].kind = "match" THEN SpellerFound(Now, c) ELSE Now, c)
  <2>1. Answering(Now, c) /\ Now.queue[c][1].kind # "define" /\ Becomes(t)
    BY <1>2, AnsweringNow, NowFields DEF RowFound
  <2>2. Fits(t)
    BY <1>0, <2>1, RowFits
  <2> HIDE DEF t
  <2> QED BY <2>1, <2>2, BecomesGood
<1>3. CASE LookupEnd(c)
  <2>1. PICK ok \in 0..1 : Answering(Now, c) /\ Becomes(Ended(Popped(Now, c), c, ok))
    BY <1>3, AnsweringNow DEF LookupEnd
  <2>2. Fits(Ended(Popped(Now, c), c, ok))
    BY <1>0, <2>1, EndFits
  <2> QED BY <2>1, <2>2, BecomesGood
<1>4. CASE ErrorReply(c)
  <2>1. PICK no_match \in BOOLEAN, ok \in 0..1, again \in 0..1 :
          Becomes(Ended(Popped(Failed(Now, c, no_match, ok), c), c, again))
    BY <1>4 DEF ErrorReply
  <2>2. Answering(Now, c) /\ Now.queue[c][1].found = 0
    BY <1>4, AnsweringNow, NowFields DEF ErrorReply
  <2>3. Fits(Ended(Popped(Failed(Now, c, no_match, ok), c), c, again))
    BY <1>0, <2>2, ErrorFits
  <2> QED BY <2>1, <2>3, BecomesGood
<1>5. CASE Broken(c)
  <2> DEFINE no_match == FALSE
  <2>1. Answering(Now, c) /\ Becomes([Failed(Now, c, no_match, 0) EXCEPT !.queue[c] = <<>>])
    BY <1>5, AnsweringNow DEF Broken
  <2> HIDE DEF no_match
  <2>2. Fits([Failed(Now, c, no_match, 0) EXCEPT !.queue[c] = <<>>])
    BY <1>0, <2>1, BrokenFits
  <2> QED BY <2>1, <2>2, BecomesGood
<1>6. CASE Dropped(c)
  <2> DEFINE t == [[Now EXCEPT !.past = Now.past \cup {"lost"}] EXCEPT !.queue[c] = <<>>]
  <2>1. Answering(Now, c) /\ Becomes(t)
    BY <1>6, AnsweringNow DEF Dropped, Disturbed
  <2>2. Fits(t)
    BY <1>0, <2>1, DroppedFits
  <2> HIDE DEF t
  <2> QED BY <2>1, <2>2, BecomesGood
<1> QED BY <1>1, <1>2, <1>3, <1>4, <1>5, <1>6 DEF Context

LEMMA DefinitionGood ==
  ASSUME Good(Now), DefinitionShown
  PROVE  Good(Now')
<1> DEFINE c == Last(Now.nested).ctx
           r == Returned(Now)
<1>1. Fits(Now) /\ IsState(Now) /\ Now.undefined = 0 /\ Now.nested # <<>>
  BY NowFields DEF Good, Fits, DefinitionShown
<1>2. Becomes(IF c \in Held(r) THEN Found(BoxFound(r, c), c) ELSE [r EXCEPT !.undefined = 1])
  BY NowFields DEF DefinitionShown, Returned
<1>3. CASE c \in Held(r)
  <2>1. Fits(Found(BoxFound(r, c), c))
    BY <1>1, ShownFits
  <2>2. Becomes(Found(BoxFound(r, c), c))
    BY <1>2, <1>3
  <2> QED BY <2>1, <2>2, BecomesGood
<1>4. CASE c \notin Held(r)
  <2>1. IsState(r)
    BY <1>1, ReturnedIs
  <2> HIDE DEF r, c
  <2>2. Becomes([r EXCEPT !.undefined = 1])
    BY <1>2, <1>4
  <2>3. Fits([r EXCEPT !.undefined = 1])
    BY <2>1, UndefinedFits
  <2> QED BY <2>2, <2>3, BecomesGood
<1> QED BY <1>3, <1>4

LEMMA GoodInit == Init => Good(Now)
<1> SUFFICES ASSUME Init PROVE Good(Now)
  OBVIOUS
<1>1. PICK c \in Ctxs :
        /\ win = InitWindow(c) /\ box = InitBox(c) /\ spell = InitSpeller(c)
        /\ choosers = [k \in Choosers |-> InitChooser(c)]
  BY DEF Init
<1>2. queue = [d \in Ctxs |-> <<>>] /\ nested = <<>> /\ past = {} /\ undefined = 0
  BY DEF Init
<1>3. /\ win \in WindowT /\ box \in BoxT /\ spell \in SpellerT
      /\ choosers \in [Choosers -> ChooserT]
  <2>1. <<>> \in Seq(Words \cup {None})
    OBVIOUS
  <2>2. win \in WindowT
    BY <1>1 DEF InitWindow, WindowT
  <2>3. box \in BoxT
    BY <1>1, <2>1 DEF InitBox, BoxT
  <2>4. spell \in SpellerT
    BY <1>1 DEF InitSpeller, SpellerT
  <2>5. InitChooser(c) \in ChooserT
    BY DEF InitChooser, ChooserT
  <2> QED BY <1>1, <2>2, <2>3, <2>4, <2>5
<1>4. /\ win.ctx = c /\ box.ctx = c /\ \A k \in Choosers : choosers[k].ctx = c /\ choosers[k].busy = 0
      /\ box.busy = 0 /\ box.defs = <<>> /\ win.max = -1
  BY <1>1 DEF InitWindow, InitBox, InitChooser
<1>5. queue \in [Ctxs -> Seq(Lookups)]
  <2>1. <<>> \in Seq(Lookups)
    OBVIOUS
  <2> QED BY <1>2, <2>1
<1>6. nested \in Seq(NestedT) /\ Len(nested) = 0 /\ DOMAIN nested = {} /\ MaxNested \in Nat
  BY <1>2, BoundsAssumption
<1>7. Now = [f \in Fields |-> Now[f]]
  BY DEF Now, Fields
<1>8. IsState(Now)
  <2>1. Len(Now.nested) <= MaxNested /\ Now.nested \in Seq(NestedT)
    BY <1>6, NowFields
  <2>2. Now.win.ctx = Now.box.ctx /\ \A k \in Choosers : Now.choosers[k].ctx = Now.win.ctx
    BY <1>4, NowFields
  <2>3. /\ Now.queue \in [Ctxs -> Seq(Lookups)] /\ Now.win \in WindowT /\ Now.box \in BoxT
        /\ Now.spell \in SpellerT /\ Now.choosers \in [Choosers -> ChooserT]
    BY <1>3, <1>5, NowFields
  <2> QED BY <1>7, <2>1, <2>2, <2>3 DEF IsState
<1>9. ShowsInTurn(Now)
  BY <1>6, NowFields DEF ShowsInTurn
<1>10. Pends(Now)
  BY <1>4, NowFields DEF Pends
<1>11. OneOfTheBox(Now)
  BY <1>2, <1>4, NowFields DEF OneOfTheBox
<1>12. Counts(Now)
  BY <1>2, <1>4, <1>6, NowFields DEF Counts
<1>13. \A d \in Ctxs \ Held(Now) : Now.queue[d] = <<>>
  BY <1>2, NowFields
<1> QED BY <1>8, <1>9, <1>10, <1>11, <1>12, <1>13 DEF Good, Fits

(* In every state the widgets' types hold and what they show fits what     *)
(* their contexts have: the strengthening of the three properties below.   *)
THEOREM StateIsGood == Spec => []Good(Now)
<1>1. Good(Now) /\ [Next]_vars => Good(Now')
  <2> SUFFICES ASSUME Good(Now), [Next]_vars PROVE Good(Now')
    OBVIOUS
  <2>1. CASE UNCHANGED vars
    <3>1. Now' = Now
      BY <2>1 DEF vars, Now
    <3> QED BY <3>1
  <2>2. CASE Undefined
    <3>1. Now' = Now
      BY <2>2 DEF Undefined, vars, Now
    <3> QED BY <3>1
  <2>3. CASE \E c \in Ctxs : Context(c)
    BY <2>3, ContextGood
  <2> QED BY <2>1, <2>2, <2>3, UserGood, DefinitionGood DEF Next
<1>2. Good(Now)' <=> Good(Now')
  OBVIOUS
<1> QED BY <1>1, <1>2, GoodInit, PTL DEF Spec

(* BusyIsPending: unless the source was changed under a search or the      *)
(* server hung up, the box and the choosers show a search in progress only *)
(* while their context has one to answer.                                  *)
THEOREM NobodyWaitsInVain == Spec => []BusyIsPending
<1>1. Good(Now) => BusyIsPending
  BY NowFields DEF Good, Fits, Pends, BusyIsPending
<1> QED BY <1>1, StateIsGood, PTL

(* OneLookupShown: while no other widget asked on the context of the box,  *)
(* the definitions it shows are of the word it looked up last.             *)
THEOREM DefinitionsOfOneWord == Spec => []OneLookupShown
<1>1. Good(Now) => OneLookupShown
  BY NowFields DEF Good, Fits, OneOfTheBox, OneLookupShown
<1> QED BY <1>1, StateIsGood, PTL

(* GoesToDefinitions: undisturbed, the window has counted the definitions  *)
(* the box shows, and the "Go" commands stay among them.                   *)
THEOREM WindowCountsTheBox == Spec => []GoesToDefinitions
<1>1. Good(Now) => GoesToDefinitions
  BY NowFields DEF Good, Fits, Counts, GoesToDefinitions
<1> QED BY <1>1, StateIsGood, PTL
=============================================================================
