------------------------------ MODULE DictFind ------------------------------
(***************************************************************************)
(* The text of the definition box: how definitions are laid out in it, how *)
(* its links are followed, and how the find pane searches it.              *)
(*                                                                         *)
(* The buffer is a sequence of characters, each in a link or not; a        *)
(* position is the number of characters before it.  Searches compare       *)
(* characters that are case-folded and decomposed, and give positions in   *)
(* the text as it is.  Two marks remember the last result; like all marks  *)
(* of the buffer they follow the text, and what is inserted at a mark goes *)
(* before it.  The pane hides itself when a timer runs out, which every    *)
(* search starts anew.                                                     *)
(***************************************************************************)
EXTENDS Integers, Sequences, FiniteSets, SequencesExt

CONSTANTS
  Folded,        (* each character, case-folded and decomposed             *)
  Title,         (* the word looked up, as a definition gives it           *)
  Bodies,        (* the texts of definitions: words, between single spaces *)
  Patterns,      (* what is typed into the find entry                      *)
  Accent,        (* a mark that belongs to the letter before it            *)
  MaxLookups,    (* bound: lookups                                         *)
  MaxFound,      (* bound: definitions of one lookup                       *)
  MaxActs        (* bound: what the user does in the box and its pane      *)

Newline == "nl"
Space   == "sp"
From    == "from"        (* "-- From" and the name of the database         *)
Failure == "failure"     (* the title and the message of an error          *)

(* The characters {, } and \ of the markup. *)
LinkOpens  == "open"
LinkCloses == "close"
Slash      == "slash"

Chars == DOMAIN Folded

(* A word that begins with a backslash has another one: without it the     *)
(* code reads past the end of the word.  Nobody types a lone accent.       *)
ASSUME CharsAssumption ==
  /\ {Newline, Space, From, Failure, LinkOpens, LinkCloses, Slash} \subseteq Chars
  /\ \A c \in Chars : Folded[c] # <<>> /\ Folded[c][1] # Accent
  /\ Title \in Seq(Chars) /\ Bodies \subseteq Seq(Seq(Chars))
  /\ Patterns \subseteq Seq(Chars) /\ <<>> \in Patterns
  /\ \A body \in Bodies : \A i \in DOMAIN body :
       (body[i] # <<>> /\ body[i][1] = Slash) => \E j \in 2..Len(body[i]) : body[i][j] = Slash

VARIABLES
  text,          (* the characters of the buffer                           *)
  linked,        (* for each character: 1 if it has the tag "link"         *)
  definitions,   (* where each definition begins, and its text             *)
  prev, next,    (* the marks "last-search-prev" and "last-search-next":   *)
                 (* a position, or -1 before they are made                 *)
  cursor,        (* the marks "insert" and "selection_bound"               *)
  is_searching,  (* 1 during a lookup                                      *)
  entry,         (* the text of the find entry                             *)
  label,         (* "Not found": never said, hidden or shown               *)
  show_find,     (* 1: the pane is shown                                   *)
  hide_timeout,  (* 1: the box knows a timer that hides the pane           *)
  forgotten,     (* timers that run and are not known any more             *)
  lookups, acts, (* counted for the bounds                                 *)
  result,        (* history: the last result in this text, or NoMatch      *)
  outlived,      (* history: 1 if the marks are older than the text        *)
  did            (* history: the last thing the user asked for             *)

buffer == <<text, linked, definitions, is_searching, lookups>>
pane   == <<show_find, hide_timeout, forgotten>>
marks  == <<prev, next, result, outlived>>
boxvars   == <<buffer, marks, cursor, entry, label, pane, acts, did>>

NoMatch == [start |-> -1, end |-> -1]

-----------------------------------------------------------------------------
(* Characters and lines.                                                   *)

Normal(s) == FlattenSeq([i \in DOMAIN s |-> Folded[s[i]]])

(* The positions after the line ends, and the line a position is in. *)
LineStarts(s) == {0} \cup {p \in 1..Len(s) : s[p] = Newline}

LineStart(s, p) == CHOOSE q \in LineStarts(s) : q <= p /\ \A r \in LineStarts(s) : r > q => r > p

NextLine(s, p) ==
  LET after == {q \in LineStarts(s) \cup {Len(s)} : q > p}
  IN  IF after = {} THEN p ELSE CHOOSE q \in after : \A r \in after : q <= r

PreviousLine(s, p) == LineStart(s, p - 1)

(* Mutant: an accented letter counts as one character. *)
Mutant_NoDecomposition(s, from, count) ==
  IF from + count <= Len(s) THEN from + count ELSE Len(s)

(* pointer_from_offset_skipping_decomp, and forward_chars_with_skipping    *)
(* with skip_decomp: the first position at which so many decomposed        *)
(* characters have been passed.                                            *)
Skipping(s, from, count) ==
  LET Passed(p) == Len(Normal(SubSeq(s, from + 1, p)))
      far == {p \in from..Len(s) : Passed(p) >= count}
  IN  IF far = {} THEN Len(s) ELSE CHOOSE p \in far : \A q \in far : p <= q

(* exact_prefix_cmp. *)
ExactPrefix(hay, i, needle) ==
  /\ i + Len(needle) <= Len(hay)
  /\ SubSeq(hay, i + 1, i + Len(needle)) = needle
  /\ i + Len(needle) < Len(hay) => hay[i + Len(needle) + 1] # Accent

Hits(s, needle) ==
  LET hay == Normal(s)
  IN  {i \in 0..Len(hay) - Len(needle) : ExactPrefix(hay, i, needle)}

(* utf8_strcasestr and utf8_strrcasestr: the offset of a hit in s, or -1. *)
StrCaseStr(s, needle) ==
  LET hits == Hits(s, needle)
  IN  IF hits = {} THEN -1
      ELSE Skipping(s, 0, CHOOSE i \in hits : \A j \in hits : i <= j)

StrRCaseStr(s, needle) ==
  LET hits == Hits(s, needle)
  IN  IF hits = {} THEN -1
      ELSE Skipping(s, 0, CHOOSE i \in hits : \A j \in hits : i >= j)

(* utf8_caselessnmatch. *)
CaselessNMatch(s, needle) == IsPrefix(needle, Normal(s))

(* breakup_string: the lines of a pattern, each with its line end. *)
Lines(pattern) ==
  LET ends == (LineStarts(pattern) \cup {Len(pattern)}) \ {0}
      Nth(k) == CHOOSE q \in ends : Cardinality({r \in ends : r <= q}) = k
      Begin(k) == IF k = 1 THEN 0 ELSE Nth(k - 1)
  IN  [k \in 1..Cardinality(ends) |-> Normal(SubSeq(pattern, Begin(k) + 1, Nth(k)))]

-----------------------------------------------------------------------------
(* The search.                                                             *)

(* lines_match for the lines after the first: each has to begin where the  *)
(* line before it ended.  The position they end at, or -1.                 *)
RestMatches(s, pos, lines) ==
  FoldLeft(LAMBDA p, line :
             IF p = -1 \/ p = Len(s) THEN -1
             ELSE IF CaselessNMatch(SubSeq(s, p + 1, NextLine(s, p)), line)
                  THEN Skipping(s, p, Len(line)) ELSE -1,
           pos, lines)

(* A match of the first line of the pattern at an offset from a position. *)
MatchFrom(s, p, offset, lines) ==
  IF offset = -1 THEN NoMatch
  ELSE LET last == RestMatches(s, Skipping(s, p + offset, Len(lines[1])), Tail(lines))
       IN  IF last = -1 THEN NoMatch ELSE [start |-> p + offset, end |-> last]

(* lines_match and backward_lines_match, for the first line. *)
LinesMatch(s, p, lines) ==
  MatchFrom(s, p, StrCaseStr(SubSeq(s, p + 1, NextLine(s, p)), lines[1]), lines)

BackwardLinesMatch(s, p, lines) ==
  IF p = 0 THEN NoMatch
  ELSE LET begin == IF p \in LineStarts(s) THEN PreviousLine(s, p) ELSE LineStart(s, p)
       IN  MatchFrom(s, begin, StrRCaseStr(SubSeq(s, begin + 1, p), lines[1]), lines)

(* gdict_defbox_iter_forward_search and _backward_search: line after line, *)
(* and no further than the first match.  An empty pattern moves by one.    *)
ForwardSearch(s, from, pattern) ==
  IF pattern = <<>>
  THEN IF from + 1 < Len(s) THEN [start |-> from + 1, end |-> from + 1] ELSE NoMatch
  ELSE LET tries == {p \in {from} \cup LineStarts(s) :
                       p >= from /\ LinesMatch(s, p, Lines(pattern)) # NoMatch}
       IN  IF tries = {} THEN NoMatch
           ELSE LinesMatch(s, CHOOSE p \in tries : \A q \in tries : p <= q, Lines(pattern))

BackwardSearch(s, from, pattern) ==
  IF pattern = <<>>
  THEN IF from > 0 THEN [start |-> from - 1, end |-> from - 1] ELSE NoMatch
  ELSE LET tries == {p \in {from} \cup LineStarts(s) :
                       p <= from /\ BackwardLinesMatch(s, p, Lines(pattern)) # NoMatch}
       IN  IF tries = {} THEN NoMatch
           ELSE BackwardLinesMatch(s, CHOOSE p \in tries : \A q \in tries : p >= q, Lines(pattern))

-----------------------------------------------------------------------------
(* The text of definitions.                                                *)

Tagged(s, tag) == [i \in DOMAIN s |-> [char |-> s[i], link |-> tag]]
Blank == Tagged(<<Space>>, 0)

At(w, c) == {i \in 2..Len(w) : w[i] = c}

(* escape_link and escape_phonethic: what is between the first character   *)
(* and the next c, and what follows.                                       *)
Escaped(w, c, tag) ==
  LET i == CHOOSE k \in At(w, c) : \A j \in At(w, c) : k <= j
  IN  Tagged(SubSeq(w, 2, i - 1), tag) \o Tagged(SubSeq(w, i + 1, Len(w)), 0) \o Blank

OpensLink(w) == w # <<>> /\ w[1] = LinkOpens /\ At(w, LinkCloses) = {}

OneWord(w) ==
  CASE w = <<>> -> <<>>
    [] w # <<>> /\ w[1] = LinkOpens -> Escaped(w, LinkCloses, 1)
    [] w # <<>> /\ w[1] = Slash     -> Escaped(w, Slash, 0)
    [] OTHER -> Tagged(w, 0) \o Blank

(* A link may end in a later word; the word after that one is passed over. *)
NextWord(done, w) ==
  CASE done.skip = 1 -> [done EXCEPT !.skip = 0]
    [] done.skip = 0 /\ done.open # <<>> /\ LinkCloses \in ToSet(w) ->
         [out |-> done.out \o Escaped(done.open \o <<Space>> \o w, LinkCloses, 1),
          open |-> <<>>, skip |-> 1]
    [] done.skip = 0 /\ done.open # <<>> /\ LinkCloses \notin ToSet(w) ->
         [done EXCEPT !.open = @ \o <<Space>> \o w]
    [] done.skip = 0 /\ done.open = <<>> /\ OpensLink(w) -> [done EXCEPT !.open = w]
    [] OTHER -> [done EXCEPT !.out = @ \o OneWord(w)]

(* gdict_defbox_insert_body. *)
NoWords == [out |-> <<>>, open |-> <<>>, skip |-> 0]
InsertBody(body) == FoldLeft(NextWord, NoWords, body).out \o Tagged(<<Newline>>, 0)

(* gdict_defbox_insert_from. *)
InsertFrom == Tagged(<<From, Newline, Newline>>, 0)

(* A mark has right gravity: what is inserted where it is goes before it.  *)
Pushed(mark, at, n) == IF mark >= at THEN mark + n ELSE mark

(* Everything is inserted at the end of the buffer, which is its beginning *)
(* when the word and the errors are inserted.                              *)
Insert(s) ==
  LET end == Len(text)
      n == Len(s)
  IN  /\ text' = text \o [i \in DOMAIN s |-> s[i].char]
      /\ linked' = linked \o [i \in DOMAIN s |-> s[i].link]
      /\ prev' = Pushed(prev, end, n) /\ next' = Pushed(next, end, n)
      /\ outlived' = IF prev' # prev \/ next' # next THEN 1 ELSE outlived
      /\ cursor' = [insert |-> Pushed(cursor.insert, end, n),
                    bound  |-> Pushed(cursor.bound, end, n)]

(* gdict_defbox_clear, and what is inserted then: marks fall to the        *)
(* beginning, and are pushed by what comes.                                *)
ClearAndInsert(s) ==
  LET n == Len(s)
      Left(mark) == IF mark = -1 THEN -1 ELSE n
  IN  /\ text' = [i \in DOMAIN s |-> s[i].char]
      /\ linked' = [i \in DOMAIN s |-> s[i].link]
      /\ definitions' = <<>>
      /\ prev' = Left(prev) /\ next' = Left(next)
      /\ outlived' = IF prev # -1 THEN 1 ELSE outlived
      /\ result' = NoMatch
      /\ cursor' = [insert |-> n, bound |-> n]

ErrorText == Tagged(<<Failure, Newline, Newline, Failure>>, 0)

-----------------------------------------------------------------------------
BoxInit ==
  /\ text = <<>> /\ linked = <<>> /\ definitions = <<>>
  /\ prev = -1 /\ next = -1 /\ result = NoMatch /\ outlived = 0
  /\ cursor = [insert |-> 0, bound |-> 0]
  /\ is_searching = 0 /\ lookups = 0
  /\ entry = <<>> /\ label = "never"
  /\ show_find = 0 /\ hide_timeout = 0 /\ forgotten = 0
  /\ acts = 0 /\ did = [kind |-> "nothing"]

(* gdict_defbox_lookup, followed by "lookup-start". *)
Lookup ==
  /\ is_searching = 0 /\ lookups < MaxLookups
  /\ ClearAndInsert(<<>>)
  /\ is_searching' = 1 /\ lookups' = lookups + 1
  /\ UNCHANGED <<entry, label, pane, acts, did>>

(* Mutant: where a definition begins is read before the word is inserted. *)
Mutant_BeginsAtWord(body) ==
  LET word == IF definitions = <<>> THEN Tagged(Title \o <<Newline>>, 0) ELSE <<>>
  IN  /\ is_searching = 1 /\ Len(definitions) < MaxFound
      /\ Insert(word \o InsertBody(body) \o InsertFrom)
      /\ definitions' = Append(definitions, [begin |-> Len(text), body |-> body])
      /\ UNCHANGED <<result, is_searching, lookups, entry, label, pane, acts, did>>

(* definition_found_cb: the word before the first definition, then the     *)
(* definition and where it is from.                                        *)
DefinitionFound(body) ==
  LET word == IF definitions = <<>> THEN Tagged(Title \o <<Newline>>, 0) ELSE <<>>
  IN  /\ is_searching = 1 /\ Len(definitions) < MaxFound
      /\ Insert(word \o InsertBody(body) \o InsertFrom)
      /\ definitions' = Append(definitions, [begin |-> Len(text) + Len(word), body |-> body])
      /\ UNCHANGED <<result, is_searching, lookups, entry, label, pane, acts, did>>

(* lookup_end_cb. *)
LookupEnd ==
  /\ is_searching = 1
  /\ is_searching' = 0
  /\ cursor' = [insert |-> 0, bound |-> 0]
  /\ UNCHANGED <<text, linked, definitions, lookups, marks, entry, label, pane, acts, did>>

(* error_cb. *)
Error ==
  /\ is_searching = 1
  /\ ClearAndInsert(ErrorText)
  /\ is_searching' = 0
  /\ UNCHANGED <<lookups, entry, label, pane, acts, did>>

-----------------------------------------------------------------------------
(* The find pane.                                                          *)

Does(what) == acts < MaxActs /\ acts' = acts + 1 /\ did' = what

(* gdict_defbox_find_forward and _backward, and what the handlers do with  *)
(* the outcome: the label, and the timer if there is one.                  *)
Where(dir) ==
  CASE dir = "typing"   -> IF prev # -1 THEN prev ELSE 0
    [] dir = "forward"  -> IF next # -1 THEN next ELSE 0
    [] dir = "backward" -> IF prev # -1 THEN prev ELSE Len(text)

Found(dir, pattern) ==
  IF dir = "backward" THEN BackwardSearch(text, Where(dir), pattern)
  ELSE ForwardSearch(text, Where(dir), pattern)

Find(dir, pattern) ==
  LET match == Found(dir, pattern)
  IN  /\ Does([kind |-> dir])
      /\ IF match = NoMatch
         THEN label' = "shown" /\ UNCHANGED <<marks, cursor>>
         ELSE /\ label' = IF label = "never" THEN "never" ELSE "hidden"
              /\ cursor' = [insert |-> match.end, bound |-> match.start]
              /\ prev' = match.start /\ next' = match.end
              /\ result' = match /\ outlived' = 0
      /\ UNCHANGED <<buffer, pane>>

(* find_entry_changed_cb, find_next_clicked_cb and find_prev_clicked_cb,   *)
(* the buttons or the keys that click them.                                *)
EntryChanged == \E p \in Patterns \ {entry} : entry' = p /\ Find("typing", p)
FindNext     == entry' = entry /\ Find("forward", entry)
FindPrevious == entry' = entry /\ Find("backward", entry)

(* ctk_widget_show_all shows the label too, whatever it says. *)
ShownLabel == IF label = "never" THEN "never" ELSE "shown"

(* gdict_defbox_set_show_find, from the menu; the window hides the pane by *)
(* it on Escape.                                                           *)
SetShowFind(show) ==
  /\ show_find # show
  /\ Does([kind |-> "pane"])
  /\ show_find' = show
  /\ hide_timeout' = show
  /\ label' = IF show = 1 THEN ShownLabel ELSE label
  /\ UNCHANGED <<buffer, marks, cursor, entry, forgotten>>

(* gdict_defbox_real_show_find, by its key: a new timer in any case. *)
ShowFindKey ==
  /\ Does([kind |-> "pane"])
  /\ show_find' = 1
  /\ hide_timeout' = 1 /\ forgotten' = forgotten + hide_timeout
  /\ label' = ShownLabel
  /\ UNCHANGED <<buffer, marks, cursor, entry>>

(* close_button_clicked, and gdict_defbox_real_hide_find by its key. *)
HideFind ==
  /\ Does([kind |-> "pane"])
  /\ show_find' = 0 /\ hide_timeout' = 0
  /\ UNCHANGED <<buffer, marks, cursor, entry, label, forgotten>>

(* hide_find_pane, called by the timer the box knows or by another one. *)
HideTimeout ==
  /\ \/ hide_timeout = 1 /\ forgotten' = forgotten
     \/ forgotten > 0 /\ forgotten' = forgotten - 1 + hide_timeout
  /\ show_find' = 0 /\ hide_timeout' = 0
  /\ UNCHANGED <<buffer, marks, cursor, entry, label, acts, did>>

-----------------------------------------------------------------------------
(* Links.                                                                  *)

(* ctk_text_iter_backward_to_tag_toggle and _forward_: the nearest place   *)
(* before or after a position where the tag begins or ends.                *)
Toggles(tags) ==
  {q \in 1..Len(tags) - 1 : tags[q] # tags[q + 1]}
    \cup {q \in {0} : tags # <<>> /\ tags[1] = 1}
    \cup {q \in {Len(tags)} : tags # <<>> /\ tags[Len(tags)] = 1}

BackwardToToggle(tags, p) ==
  LET before == {q \in Toggles(tags) \cup {0} : q < p}
  IN  IF before = {} THEN 0 ELSE CHOOSE q \in before : \A r \in before : q >= r

ForwardToToggle(tags, p) ==
  LET after == {q \in Toggles(tags) \cup {Len(tags)} : q > p}
  IN  IF after = {} THEN Len(tags) ELSE CHOOSE q \in after : \A r \in after : q <= r

(* defbox_event_after_cb and follow_if_is_link: the press has moved the    *)
(* cursor; the text around the character that was clicked is looked up.    *)
Click(p) ==
  /\ Does([kind |-> "link", at |-> p,
           word |-> SubSeq(text, BackwardToToggle(linked, p) + 1, ForwardToToggle(linked, p))])
  /\ linked[p + 1] = 1
  /\ cursor' = [insert |-> p, bound |-> p]
  /\ UNCHANGED <<buffer, marks, entry, label, pane>>

(* gdict_defbox_select_all. *)
SelectAll ==
  /\ Does([kind |-> "select"])
  /\ cursor' = [insert |-> 0, bound |-> Len(text)]
  /\ UNCHANGED <<buffer, marks, entry, label, pane>>

BoxNext ==
  \/ Lookup
  \/ \E body \in Bodies : DefinitionFound(body)
  \/ LookupEnd
  \/ Error
  \/ EntryChanged \/ FindNext \/ FindPrevious
  \/ \E show \in 0..1 : SetShowFind(show)
  \/ ShowFindKey
  \/ HideFind
  \/ HideTimeout
  \/ \E p \in 0..Len(text) - 1 : Click(p)
  \/ SelectAll

BoxSpec == BoxInit /\ [][BoxNext]_boxvars

-----------------------------------------------------------------------------
(* Properties.                                                             *)

Occurs(a, b, pattern) ==
  /\ b - a \in 1..Len(Normal(pattern))
  /\ Normal(SubSeq(text, a + 1, b)) = Normal(pattern)

(* Where a search should begin: at the last result in this text.           *)
ResultAt(dir) ==
  CASE dir = "typing"   -> IF result # NoMatch THEN result.start ELSE 0
    [] dir = "forward"  -> IF result # NoMatch THEN result.end ELSE 0
    [] dir = "backward" -> IF result # NoMatch THEN result.start ELSE Len(text)

(* Folding makes of a character one with accents, and a line end of a line *)
(* end only.  What it makes several letters of is selected too far.        *)
AccentsOnly ==
  \A c \in Chars :
    /\ Folded[c] \in Seq(Chars \cup {Accent})
    /\ \A i \in 2..Len(Folded[c]) : Folded[c][i] = Accent
    /\ (\E i \in 1..Len(Folded[c]) : Folded[c][i] = Newline) <=> c = Newline

(* The place the code shows is the nearest one in the direction of the     *)
(* search, and it says "Not found" only if there is none                   *)
(* (gdict_defbox_find_forward, _backward and the search below them): for   *)
(* patterns within a line, and unless the marks are older than the text.   *)
FindsTheNearest ==
  [][ AccentsOnly /\ acts' # acts /\ did'.kind \in {"typing", "forward", "backward"}
        /\ entry' # <<>> /\ Newline \notin ToSet(entry') /\ outlived = 0
      => LET dir   == did'.kind
             from  == ResultAt(dir)
             spots == {ab \in (0..Len(text)) \X (0..Len(text)) :
                         /\ Occurs(ab[1], ab[2], entry')
                         /\ IF dir = "backward" THEN ab[2] <= from ELSE ab[1] >= from}
         IN  IF spots = {} THEN label' = "shown" /\ cursor' = cursor
             ELSE /\ label' # "shown"
                  /\ <<cursor'.bound, cursor'.insert>> \in spots
                  /\ \A ab \in spots : IF dir = "backward" THEN ab[1] <= cursor'.bound
                                       ELSE ab[1] >= cursor'.bound ]_boxvars

(* What is left of a word, and of a body, without markup.                  *)
Markup == {LinkOpens, LinkCloses, Slash}
Marks(w) == {i \in 1..Len(w) : w[i] \in Markup}
Bare(w) == FlattenSeq([i \in 1..Len(w) |-> IF i \in Marks(w) THEN <<>> ELSE <<w[i]>>])
Plain(body) ==
  FlattenSeq([k \in 1..Len(body) |-> IF body[k] = <<>> THEN <<>> ELSE Bare(body[k]) \o <<Space>>])

(* A word without markup, or one that begins with a link or a phonetic     *)
(* transcription and has no other.                                         *)
Whole(w) ==
  \/ Marks(w) = {}
  \/ \E i \in 2..Len(w) : /\ Marks(w) = {1, i}
                          /\ <<w[1], w[i]>> \in {<<LinkOpens, LinkCloses>>, <<Slash, Slash>>}

(* The word k begins a link that the last one ends.                        *)
LinkFrom(body, k) ==
  /\ k < Len(body)
  /\ Marks(body[k]) = {1} /\ body[k][1] = LinkOpens
  /\ \A j \in k + 1..Len(body) - 1 : body[j] # <<>> /\ Marks(body[j]) = {}
  /\ \E i \in 1..Len(Last(body)) : Marks(Last(body)) = {i} /\ Last(body)[i] = LinkCloses

(* A body that loses no words and keeps no markup: a link over several     *)
(* words may only be at the end.                                           *)
Kept(body) ==
  \E k \in 1..Len(body) + 1 :
    (\A j \in 1..k - 1 : Whole(body[j])) /\ (k = Len(body) + 1 \/ LinkFrom(body, k))

(* Between where one definition begins and the next begins, and nowhere    *)
(* else, is the text of that definition without its markup                 *)
(* (definition_found_cb, gdict_defbox_insert_body): it is where            *)
(* gdict_defbox_jump_to_definition goes.                                   *)
DefinitionsBeginThere ==
  \A i \in DOMAIN definitions :
    LET d     == definitions[i]
        after == IF i = Len(definitions) THEN Len(text) ELSE definitions[i + 1].begin
    IN  Kept(d.body) => SubSeq(text, d.begin + 1, after)
                          = Plain(d.body) \o <<Newline, From, Newline, Newline>>

=============================================================================
