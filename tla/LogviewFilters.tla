--------------------------- MODULE LogviewFilters ---------------------------
(***************************************************************************)
(* The filters of the log viewer: the table of them in the preferences and *)
(* the strings it is saved as, the dialog that edits it, and the window,   *)
(* which has a menu entry and a text tag for each filter and a list of the *)
(* ones that are switched on.                                              *)
(*                                                                         *)
(* The list holds no references.  A filter is a number, the place of its   *)
(* construction; the ones loaded from the settings get a reference too     *)
(* many and are never freed, the ones made in the dialog live as long as   *)
(* the table holds them.  A string is a sequence of characters of which    *)
(* only the delimiter ":" is told from the others.                         *)
(*                                                                         *)
(* The table of tags has one tag for a name, and the window's own tags are *)
(* in it from the start: the tag of a filter of that name is refused, and  *)
(* when the menu is made anew the one that is there is taken for it.       *)
(***************************************************************************)
EXTENDS Naturals, Sequences, FiniteSets, SequencesExt

CONSTANTS
  Characters,    (* of strings                                             *)
  Typed,         (* what the user may type as a name                       *)
  Regexes,       (* and as a regular expression                            *)
  Looks,         (* what may be chosen: invisible, foreground, background  *)
  Loaded,        (* the filters the settings hold at the start             *)
  BuiltIn,       (* the names of the window's own tags                     *)
  InvisibleFilter, (* the one of them that hides lines no filter matches   *)
  MaxAsked       (* bound: requests of the user but opening a dialog       *)

(* A look is a digit and two colours, and what g_strsplit leaves in front  *)
(* of a delimiter has none: only an expression may.                        *)
Has(string, c) == \E i \in DOMAIN string : string[i] = c

Texts   == Seq(Characters)
Layouts == [invisible : Texts, foreground : Texts, background : Texts]

IsLook(look) == look \in Layouts /\ \A k \in DOMAIN look : ~ Has(look[k], ":")

IsFilter(f) ==
  /\ f \in [name : Texts, regex : Texts, look : Layouts]
  /\ ~ Has(f.name, ":") /\ IsLook(f.look)

ASSUME TextsAssumption ==
  /\ ":" \in Characters
  /\ Typed \cup Regexes \subseteq Texts
  /\ \A look \in Looks : IsLook(look)

(* What the program saved: no two of one name. *)
ASSUME LoadedAssumption ==
  /\ IsFiniteSet(Loaded) /\ \A f \in Loaded : IsFilter(f)
  /\ \A f, g \in Loaded : f.name = g.name => f = g

ASSUME BuiltInAssumption == BuiltIn \subseteq Texts /\ InvisibleFilter \in BuiltIn

ASSUME BoundAssumption == MaxAsked \in Nat

VARIABLES
  made,          (* the filters ever constructed                           *)
  filters,       (* the table of the preferences                           *)
  saved,         (* the strings in the settings                            *)
  dialog,        (* closed, open, or at the form of one filter             *)
  menu,          (* the names in the window's filter menu                  *)
  tag_table,     (* the tags in the table of tags                          *)
  active_filters,
  matches_only,  (* 1: hide the lines no filter matches                    *)
  tagged,        (* the filters whose tag the text of the view carries,    *)
                 (* but for those named like one of the window's tags      *)
  hidden,        (* 1: lines of the view carry the window's tag that hides *)
  wild,          (* 1: a filter was used after it was freed                *)
  asked          (* requests made so far                                   *)

table   == <<made, filters, saved>>
switch  == <<menu, tag_table, active_filters, matches_only>>
view    == <<tagged, hidden>>
filterVars == <<table, dialog, switch, view, wild>>

-----------------------------------------------------------------------------
(* Settings.                                                               *)

DELIMITER == <<":">>
MAX_TOKENS == 5

(* save_filter_foreach_func. *)
Written(f) ==
  f.name \o DELIMITER \o f.look.invisible \o DELIMITER \o f.look.foreground
    \o DELIMITER \o f.look.background \o DELIMITER \o f.regex

(* The n-th delimiter of a string. *)
Cut(string, n) ==
  LET cuts == {i \in DOMAIN string : <<string[i]>> = DELIMITER}
  IN  CHOOSE i \in cuts : Cardinality({j \in cuts : j <= i}) = n

(* g_strsplit with MAX_TOKENS: the last token keeps what is left. *)
End(string, n) == IF n = MAX_TOKENS THEN Len(string) + 1 ELSE Cut(string, n)

Token(string, n) ==
  SubSeq(string, IF n = 1 THEN 1 ELSE End(string, n - 1) + 1, End(string, n) - 1)

(* load_filters. *)
Read(string) ==
  [name |-> Token(string, 1), regex |-> Token(string, 5),
   look |-> [invisible |-> Token(string, 2), foreground |-> Token(string, 3),
             background |-> Token(string, 4)]]

(* save_filters. *)
Saved(fs, all) == {Written(all[f]) : f \in fs}

-----------------------------------------------------------------------------
Alive(f) == f \in filters \/ f <= Cardinality(Loaded)

Named(name) == {f \in filters : made[f].name = name}

(* A tag is its name and whose it is: a filter's, or 0 for the window's.   *)
TagOf(f)    == <<made[f].name, f>>
BuiltInTags == {<<name, 0>> : name \in BuiltIn}

Ask == asked < MaxAsked /\ asked' = asked + 1

(* filter_buffer: a tag that is not in the table cannot be applied.        *)
FilterBuffer(active, matches) ==
  /\ wild' = IF \A f \in active : Alive(f) THEN wild ELSE 1
  /\ tagged' = tagged \cup {f \in active : made[f].name \notin BuiltIn /\ TagOf(f) \in tag_table}
  /\ hidden' = IF <<InvisibleFilter, 0>> \in tag_table THEN matches ELSE 0

(* active_log_changed_cb puts the cached lines into a new buffer and does  *)
(* not filter them.                                                        *)
NewBuffer == tagged' = {} /\ hidden' = 0

(* What is left of some tags when the menu has gone: every one it named is *)
(* taken off, and with it off every text.                                  *)
Unlisted(tags) == {t \in tags : t[1] \notin menu}

(* ctk_text_tag_table_add for every filter. *)
Added(tags) ==
  tags \cup {t \in {TagOf(f) : f \in filters} : \A u \in tags : u[1] # t[1]}

FiltersInit ==
  /\ made = SetToSeq(Loaded)
  /\ filters = DOMAIN made
  /\ saved = Saved(filters, made)
  /\ dialog = [at |-> "closed", old_name |-> <<>>]
  /\ menu = {f.name : f \in Loaded} /\ tag_table = Added(BuiltInTags)
  /\ active_filters = {} /\ matches_only = 0
  /\ tagged = {} /\ hidden = 0
  /\ wild = 0 /\ asked = 0

-----------------------------------------------------------------------------
(* The window.                                                             *)

(* on_filter_toggled.  The lines it does not match stay hidden.            *)
FilterToggled(name) ==
  /\ wild = 0 /\ Ask /\ dialog.at = "closed"
  /\ name \in menu
  /\ LET fs == Named(name)
     IN  IF fs \subseteq active_filters
         THEN /\ active_filters' = active_filters \ fs
              /\ tagged' = tagged \ fs
              /\ UNCHANGED <<hidden, wild>>
         ELSE /\ active_filters' = active_filters \cup fs
              /\ FilterBuffer(active_filters', matches_only)
  /\ UNCHANGED <<table, dialog, menu, tag_table, matches_only>>

(* logview_toggle_match_filters. *)
ToggleMatchFilters ==
  /\ wild = 0 /\ Ask /\ dialog.at = "closed"
  /\ matches_only' = 1 - matches_only
  /\ FilterBuffer(active_filters, matches_only')
  /\ UNCHANGED <<table, dialog, menu, tag_table, active_filters>>

(* logview_manage_filters. *)
ManageFilters ==
  /\ wild = 0 /\ dialog.at = "closed"
  /\ dialog' = [dialog EXCEPT !.at = "open"]
  /\ UNCHANGED <<table, switch, view, wild, asked>>

(* update_filter_menu. *)
TagsRenewed == Added(Unlisted(tag_table))

(* Mutant: the list still has the filters that were on. *)
StillActive == active_filters

NoneActive == {}

(* on_logview_filter_manager_response. *)
CloseManager ==
  /\ wild = 0 /\ dialog.at = "open"
  /\ dialog' = [dialog EXCEPT !.at = "closed"]
  /\ menu' = {made[f].name : f \in filters}
  /\ tag_table' = TagsRenewed
  /\ tagged' = {f \in tagged : TagOf(f) \in Unlisted(tag_table)}
  /\ hidden' = IF <<InvisibleFilter, 0>> \in Unlisted(tag_table) THEN hidden ELSE 0
  /\ active_filters' = NoneActive
  /\ UNCHANGED <<table, matches_only, wild, asked>>

-----------------------------------------------------------------------------
(* The dialog.                                                             *)

(* on_add_clicked and on_edit_clicked. *)
EditFilter(old_name) ==
  /\ wild = 0 /\ dialog.at = "open"
  /\ old_name = <<>> \/ Named(old_name) # {}
  /\ dialog' = [at |-> "form", old_name |-> old_name]
  /\ UNCHANGED <<table, switch, view, wild, asked>>

CheckName(name) == name # <<>> /\ ~ Has(name, ":")

(* check_regex, for expressions that compile. *)
CheckRegex(regex) == regex # <<>>

(* logview_prefs_remove_filter of the old name, and the filter that        *)
(* logview_prefs_add_filter replaces.                                      *)
LeftBy(name) == filters \ (Named(name) \cup Named(dialog.old_name))

(* on_dialog_add_edit_reponse; what it refuses leaves the form open. *)
Apply(name, regex, look) ==
  /\ wild = 0 /\ Ask /\ dialog.at = "form"
  /\ CheckName(name) /\ CheckRegex(regex)
  /\ made' = Append(made, [name |-> name, regex |-> regex, look |-> look])
  /\ filters' = LeftBy(name) \cup {Len(made')}
  /\ saved' = Saved(filters', made')
  /\ dialog' = [at |-> "open", old_name |-> <<>>]
  /\ UNCHANGED <<switch, view, wild>>

CancelForm ==
  /\ wild = 0 /\ dialog.at = "form"
  /\ dialog' = [at |-> "open", old_name |-> <<>>]
  /\ UNCHANGED <<table, switch, view, wild, asked>>

(* on_remove_clicked. *)
RemoveFilter(name) ==
  /\ wild = 0 /\ Ask /\ dialog.at = "open"
  /\ Named(name) # {}
  /\ filters' = filters \ Named(name)
  /\ saved' = Saved(filters', made)
  /\ UNCHANGED <<made, dialog, switch, view, wild>>

FiltersNext ==
  \/ \E name \in menu : FilterToggled(name)
  \/ ToggleMatchFilters \/ ManageFilters \/ CloseManager \/ CancelForm
  \/ \E name \in Typed :
       \/ EditFilter(name) \/ RemoveFilter(name)
       \/ \E regex \in Regexes, look \in Looks : Apply(name, regex, look)

-----------------------------------------------------------------------------
(* However filters are added, renamed onto one another and removed, the    *)
(* ones a restart will read from the settings are the ones of the table,   *)
(* and every entry of the menu has one tag, so taking it off finds one;    *)
(* and while the dialog is closed every filter that is switched on is      *)
(* alive and in the menu, and, but for filters named like one of the       *)
(* window's own tags, every filter has its tag in the table and no other   *)
(* has, and no text carries the tag of a filter that is off, although the  *)
(* list of active filters holds no references and the dialog replaces and  *)
(* frees filters.                                                          *)
FiltersInStep ==
  /\ {Read(s) : s \in saved} = {made[f] : f \in filters}
  /\ \A name \in menu : \E t \in tag_table : t[1] = name
  /\ \A t, u \in tag_table : t[1] = u[1] => t = u
  /\ dialog.at = "closed" =>
       /\ active_filters \subseteq filters
       /\ menu = {made[f].name : f \in filters}
       /\ {t \in tag_table : t[1] \notin BuiltIn} =
            {TagOf(f) : f \in {g \in filters : made[g].name \notin BuiltIn}}
       /\ tagged \subseteq active_filters

=============================================================================
