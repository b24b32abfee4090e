----------------------------- MODULE DictSources -----------------------------
(***************************************************************************)
(* The dictionary sources: files in two directories, the loader that keeps *)
(* them in memory, the dialogs that add, edit and remove them, and the     *)
(* windows and the panel applet that use the one the settings name.        *)
(*                                                                         *)
(* The application and the applet are two processes with a loader each.    *)
(* The windows of the application share its loader; each window, and the   *)
(* applet, has a preferences dialog of its own, which stays as it is when  *)
(* it is closed and shown again.  A window is bound to the settings in     *)
(* both directions, the applet only follows them.  A setting reaches the   *)
(* windows of the process that changes it at once and those of the other   *)
(* process later.  Handlers are functions from states to states, composed  *)
(* in the order they are called.                                           *)
(***************************************************************************)
EXTENDS Integers

CONSTANTS
  Windows,       (* the windows of the application                         *)
  Applet,        (* the applet                                             *)
  Names,         (* names of sources                                       *)
  Default,       (* the name GDICT_DEFAULT_SOURCE_NAME                     *)
  Keys,          (* what a source may say: its database, its strategy      *)
  Values,        (* what it may say of them                                *)
  None,          (* NULL                                                   *)
  Stale,         (* a pointer to a source that has been freed              *)
  MaxAsked       (* bound: what the user does                              *)

Users == Windows \cup {Applet}
Contents == [Keys -> Values \cup {None}]

ASSUME NamesAssumption ==
  Default \in Names /\ Applet \notin Windows /\ "source" \notin Keys
ASSUME NoneAssumption ==
  /\ None \notin Names \cup Values \cup Contents \cup {"sys", "user"}
  /\ Stale \notin {None, "sys", "user"}

VARIABLES
  files,         (* the files of the two directories, None: there is none  *)
  junk,          (* 1: the user's directory has a file that is no source,  *)
                 (* as window.ini                                          *)
  loader,        (* the loader of each process                             *)
  settings,      (* the settings: the source, and a value for each key     *)
  using,         (* what each window, and the applet, uses                 *)
  pending,       (* who has not heard of which setting yet                 *)
  prefs,         (* the preferences dialogs, None: never opened            *)
  saved,         (* history: what each process has saved last, by name     *)
  disturbed,     (* history: the processes whose files another process has  *)
                 (* changed since they started                               *)
  asked,         (* how often the user has done something                  *)
  undefined      (* 1: a source that has been freed was used               *)

vars == <<files, junk, loader, settings, using, pending, prefs, saved, disturbed,
          asked, undefined>>

Now == [files |-> files, junk |-> junk, loader |-> loader, settings |-> settings,
        using |-> using, pending |-> pending, prefs |-> prefs, saved |-> saved,
        disturbed |-> disturbed, asked |-> asked, undefined |-> undefined]

Becomes(s) ==
  /\ files' = s.files /\ junk' = s.junk /\ loader' = s.loader
  /\ settings' = s.settings /\ using' = s.using /\ pending' = s.pending
  /\ prefs' = s.prefs /\ saved' = s.saved /\ disturbed' = s.disturbed
  /\ asked' = s.asked /\ undefined' = s.undefined

Processes == {"app", "applet"}
ProcessOf(u) == IF u = Applet THEN "applet" ELSE "app"

-----------------------------------------------------------------------------
(* The loader.                                                             *)

(* gdict_source_loader_init, with the user's directory added: the list is  *)
(* what was loaded from each directory, the table points into it by name.  *)
InitLoader ==
  [list |-> [d \in {"sys", "user"} |-> [n \in Names |-> None]],
   table |-> [n \in Names |-> None], dirty |-> 1]

(* build_source_filenames stops reading a directory at the first file that *)
(* is not a ".desktop": with one there, any part of it may be missed.      *)
Scans(s) ==
  {[sys |-> s.files["sys"], user |-> [n \in Names |-> IF n \in seen THEN s.files["user"][n] ELSE None]] :
     seen \in IF s.junk = 1 THEN SUBSET Names ELSE {Names}}

(* Mutant: the user's directory is searched first. *)
NamedUserFirst(list, n) ==
  IF list["sys"][n] # None THEN "sys" ELSE IF list["user"][n] # None THEN "user" ELSE None

(* The directories are read in the order they were added: of two sources   *)
(* of one name the table keeps the later.                                  *)
Named(list, n) ==
  IF list["user"][n] # None THEN "user" ELSE IF list["sys"][n] # None THEN "sys" ELSE None

(* gdict_source_loader_update_sources.  The table is not cleared: a name   *)
(* that is not found again keeps pointing to the source just freed.        *)
UpdateSources(s, p, scan) ==
  [s EXCEPT !.loader[p] =
     [list |-> scan, dirty |-> 0,
      table |-> [n \in Names |->
        IF Named(scan, n) # None THEN Named(scan, n)
        ELSE IF @.table[n] # None THEN Stale ELSE None]]]

(* What every reader of the loader does first. *)
Updated(s, p, scan) == IF s.loader[p].dirty = 1 THEN UpdateSources(s, p, scan) ELSE s

(* gdict_source_loader_get_source. *)
GetSource(s, p, n) ==
  LET at == s.loader[p].table[n]
  IN  IF at \in {None, Stale} THEN at ELSE s.loader[p].list[at][n]

(* Mutant: the name stays in the table. *)
RemoveSourceFromList(s, p, n) ==
  IF s.loader[p].list["sys"][n] # None \/ s.loader[p].list["user"][n] = None
     \/ s.files["user"][n] = None
  THEN s
  ELSE [s EXCEPT !.files["user"][n] = None,
                 !.loader[p].list["user"][n] = None]

(* gdict_source_loader_remove_source: the first source of that name, whose *)
(* file can be removed only from the user's own directory.                 *)
RemoveSource(s, p, n) ==
  IF s.loader[p].list["sys"][n] # None \/ s.loader[p].list["user"][n] = None
     \/ s.files["user"][n] = None
  THEN s
  ELSE [s EXCEPT !.files["user"][n] = None,
                 !.loader[p].list["user"][n] = None,
                 !.loader[p].table[n] = None]

-----------------------------------------------------------------------------
(* Windows and settings.                                                   *)

(* Mutant: the setting is not told of a window's own choice. *)
WrittenByNobody(s, p, us, content) == {}

(* What users us make of what a source says: one that says nothing leaves  *)
(* what the settings have from another source.                             *)
Value(s, content, k) == IF content[k] # None THEN content[k] ELSE s.settings[k]
Sets(s, u, content, k) == k \in DOMAIN content /\ s.using[u].keys[k] # content[k]
Written(s, p, us, content) ==
  {k \in DOMAIN content : /\ p = "app" /\ \E u \in us : Sets(s, u, content, k)
                          /\ s.settings[k] # Value(s, content, k)}

OpenIn(s, p) == {u \in Users : ProcessOf(u) = p /\ s.using[u].open = 1}
OpenElsewhere(s, p) == {u \in Users : ProcessOf(u) # p /\ s.using[u].open = 1}

(* gdict_window_set_database and gdict_window_set_strategy of the users us *)
(* of a process, the same for all of them.  When a window sets a setting,  *)
(* the windows bound to it in this process have it at once, the others are *)
(* still to be told.                                                       *)
SetKeys(s, p, us, content) ==
  LET written == Written(s, p, us, content)
      has(u, k) == (u \in us /\ Sets(s, u, content, k)) \/ (k \in written /\ u \in OpenIn(s, p))
  IN  [s EXCEPT
    !.settings = [k \in Keys \cup {"source"} |->
      IF k \in written THEN Value(s, content, k) ELSE s.settings[k]],
    !.using = [u \in Users |->
      [s.using[u] EXCEPT !.keys = [k \in Keys |->
        IF has(u, k) THEN Value(s, content, k) ELSE s.using[u].keys[k]]]],
    !.pending = @ \cup (OpenElsewhere(s, p) \X written)]

SetKey(s, w, k, v) == SetKeys(s, "app", {w}, [x \in {k} |-> v])

Turned(s, us, name, ctx) ==
  [s EXCEPT !.using = [u \in Users |->
    IF u \in us THEN [s.using[u] EXCEPT !.source = name, !.ctx = ctx[u]] ELSE s.using[u]]]

(* get_context_from_loader of the users us of a process; only a window     *)
(* turns to the default source.  A context is known by the source it is    *)
(* made from.                                                              *)
GetContext(s, p, us, n) ==
  LET asked_for == GetSource(s, p, n)
      name == IF p = "app" /\ asked_for = None THEN Default ELSE n
      source == GetSource(s, p, name)
      keeps == [u \in us |-> s.using[u].ctx]
  IN  IF Stale \in {asked_for, source}
      THEN [Turned(s, us, name, keeps) EXCEPT !.undefined = 1]
      ELSE IF source = None THEN Turned(s, us, name, [u \in us |-> None])
      ELSE SetKeys(Turned(s, us, name, [u \in us |-> source]), p, us, source)

(* gdict_window_set_source_name of those of the users us of a process that *)
(* do not use the source yet, told by the settings.                        *)
Follow(s, p, us, n) ==
  LET those == {u \in us : u = Applet \/ s.using[u].source # n}
  IN  IF those = {} THEN s ELSE GetContext(s, p, those, n)

(* The windows of this process hear of a new source at once, but not the   *)
(* one it comes from.                                                      *)
WriteSource(s, p, n, but) ==
  IF s.settings.source = n THEN s
  ELSE [Follow([s EXCEPT !.settings.source = n], p, OpenIn(s, p) \ but, n) EXCEPT
    !.pending = @ \cup (OpenElsewhere(s, p) \X {"source"})]

(* gdict_window_set_source_name, told by the user. *)
SetSourceName(s, w, n) ==
  IF s.using[w].source = n THEN s
  ELSE LET t == GetContext(s, "app", {w}, n)
       IN  WriteSource(t, "app", t.using[w].source, {w})

-----------------------------------------------------------------------------
(* The user.                                                               *)

Asks(s) == asked < MaxAsked /\ Becomes([s EXCEPT !.asked = @ + 1])

(* The windows of a process are one group: a dialog that runs holds all.   *)
Free(u) ==
  /\ undefined = 0
  /\ \A x \in Users : (ProcessOf(x) = ProcessOf(u) /\ prefs[x] # None) => prefs[x].doing = "nothing"

(* gdict_window_constructor, gdict_applet_build_window: what is bound to   *)
(* the settings is set from them, the source last.                         *)
Opened(s, u) ==
  GetContext([s EXCEPT !.using[u] =
     [open |-> 1, source |-> None, keys |-> [k \in Keys |-> s.settings[k]], ctx |-> None]],
     ProcessOf(u), {u}, s.settings.source)

(* gdict_window_store_state writes window.ini into the directory where the *)
(* user's sources are.  It may fail.                                       *)
StoresState(s) == {s, [s EXCEPT !.junk = 1]}

(* A window opened from another one, by File, New or a link, comes after   *)
(* that one has stored its state.                                          *)
OpenWindow(u) ==
  LET from_another == \E w \in Windows \ {u} : u # Applet /\ using[w].open = 1
  IN  /\ Free(u) /\ using[u].open = 0
      /\ \E s \in IF from_another THEN StoresState(Now) ELSE {Now} :
         \E scan \in Scans(s) : Becomes(Opened(Updated(s, ProcessOf(u), scan), u))

Closed == [open |-> 0, source |-> None, keys |-> [k \in Keys |-> None], ctx |-> None]

(* gdict_window_cmd_file_close_window, gdict_window_destroy_cb: the        *)
(* program ends with its last window.                                      *)
CloseWindow(w) ==
  LET last == \A x \in Windows \ {w} : using[x].open = 0
  IN  /\ Free(w) /\ using[w].open = 1
      /\ \E s \in StoresState(Now) : Asks([s EXCEPT
           !.using[w] = Closed, !.prefs[w] = None, !.pending = {x \in @ : x[1] # w},
           !.loader["app"] = IF last THEN InitLoader ELSE @,
           !.saved["app"] = IF last THEN [n \in Names |-> None] ELSE @,
           !.disturbed = IF last THEN @ \ {"app"} ELSE @])

(* row_activated_cb of the source chooser, whose rows may be old. *)
ActivateSource(w, n) ==
  /\ Free(w) /\ using[w].open = 1
  /\ LET source == GetSource(Now, "app", n)
     IN  /\ source # None
         /\ Asks(IF source = Stale THEN [Now EXCEPT !.undefined = 1]
                 ELSE SetSourceName(Now, w, n))

(* database_activated_cb, strategy_activated_cb. *)
ActivateValue(w, k, v) ==
  /\ Free(w) /\ using[w].open = 1
  /\ Asks(SetKey(Now, w, k, v))

(* The other process hears of a setting, as it is then. *)
Deliver ==
  \E x \in pending :
    LET u == x[1]
        told == [Now EXCEPT !.pending = @ \ {x}]
    IN  /\ undefined = 0
        /\ Becomes(IF x[2] = "source" THEN Follow(told, ProcessOf(u), {u}, settings.source)
                   ELSE [told EXCEPT !.using[u].keys[x[2]] = settings[x[2]]])

-----------------------------------------------------------------------------
(* The preferences.                                                        *)

(* update_sources_view: the loader reads its directories again. *)
UpdateView(s, u, scan) ==
  LET t == UpdateSources(s, ProcessOf(u), scan)
  IN  [t EXCEPT !.prefs[u].rows =
         {n \in Names : \E d \in {"sys", "user"} : t.loader[ProcessOf(u)].list[d][n] # None}]

(* gdict_show_pref_dialog, the first time. *)
ShowPreferences(u) ==
  /\ Free(u) /\ using[u].open = 1 /\ prefs[u] = None
  /\ \E scan \in Scans(Now) :
       Asks(UpdateView([Now EXCEPT !.prefs[u] =
         [rows |-> {}, active |-> settings.source, doing |-> "nothing", name |-> None]], u, scan))

InPreferences(u, doing) ==
  undefined = 0 /\ using[u].open = 1 /\ prefs[u] # None /\ prefs[u].doing = doing

(* source_renderer_toggled_cb. *)
ToggleSource(u, n) ==
  /\ Free(u) /\ InPreferences(u, "nothing")
  /\ n \in prefs[u].rows /\ n # prefs[u].active
  /\ LET t == WriteSource([Now EXCEPT !.prefs[u].active = n], ProcessOf(u), n, {})
     IN  \E scan \in Scans(t) : Asks(UpdateView(t, u, scan))

(* A dialog runs; the other process goes on. *)
Begin(u, doing, n) ==
  /\ Free(u) /\ InPreferences(u, "nothing")
  /\ Asks([Now EXCEPT !.prefs[u].doing = doing, !.prefs[u].name = n])

Done(s, u) == [s EXCEPT !.prefs[u].doing = "nothing", !.prefs[u].name = None]

(* Another process may change the files a loader has read. *)
Disturbs(s, p) == [s EXCEPT !.disturbed = @ \cup (Processes \ {p})]

(* g_file_set_contents into the user's directory.  It may fail, and if the *)
(* process dies meanwhile the temporary file is left.                      *)
WriteFile(s, p, n, content) ==
  Disturbs([s EXCEPT !.files["user"][n] = content, !.saved[p][n] = content], p)

(* build_new_source and the update that follows.  The name is new. *)
AddSource(u) ==
  /\ InPreferences(u, "add")
  /\ \E n \in Names \ {Default}, content \in Contents, ok \in 0..1 :
       /\ \A d \in {"sys", "user"} : files[d][n] = None
       /\ LET t == IF ok = 1 THEN WriteFile(Now, ProcessOf(u), n, content) ELSE Now
          IN  \E scan \in Scans(t) : Becomes(Done(UpdateView(t, u, scan), u))

(* save_source and the update that follows.  What the choosers have not    *)
(* been made to select is taken out of the source.                         *)
SaveSource(u) ==
  LET p == ProcessOf(u)
      n == prefs[u].name
      source == GetSource(Now, p, n)
  IN  /\ InPreferences(u, "edit")
      /\ \E content \in Contents, ok \in 0..1 :
           LET t == IF source = None \/ ok = 0 THEN Now
                    ELSE IF source = Stale THEN [Now EXCEPT !.undefined = 1]
                    ELSE WriteFile(Now, p, n, content)
           IN  \E scan \in Scans(t) : Becomes(Done(UpdateView(t, u, scan), u))

(* source_remove_clicked_cb, after the confirmation. *)
RemoveClicked(u) ==
  LET p == ProcessOf(u)
      n == prefs[u].name
      t == RemoveSource(Now, p, n)
      told == IF t = Now THEN Now ELSE Disturbs([t EXCEPT !.saved[p][n] = None], p)
  IN  /\ InPreferences(u, "remove")
      /\ \E scan \in Scans(told) : Becomes(Done(UpdateView(told, u, scan), u))

CancelDialog(u) ==
  /\ undefined = 0 /\ prefs[u] # None /\ prefs[u].doing # "nothing"
  /\ \E scan \in Scans(Now) : Becomes(Done(UpdateView(Now, u, scan), u))

(* The process dies while it writes a source, and is not there any more. *)
DiesSaving(u) ==
  LET p == ProcessOf(u)
      gone == {x \in Users : ProcessOf(x) = p}
  IN  /\ undefined = 0 /\ prefs[u] # None /\ prefs[u].doing \in {"add", "edit"}
      /\ Becomes([Now EXCEPT
           !.junk = 1, !.loader[p] = InitLoader,
           !.using = [x \in Users |->
              IF x \in gone THEN Closed ELSE @[x]],
           !.prefs = [x \in Users |-> IF x \in gone THEN None ELSE @[x]],
           !.pending = {x \in @ : x[1] \notin gone},
           !.saved[p] = [n \in Names |-> None], !.disturbed = @ \ {p}])

Undefined == undefined = 1 /\ UNCHANGED vars

-----------------------------------------------------------------------------
Init ==
  /\ files \in {[sys |-> [n \in Names |-> IF n = Default THEN c ELSE None],
                 user |-> [n \in Names |-> None]] : c \in Contents}
  /\ junk \in 0..1
  /\ loader = [p \in Processes |-> InitLoader]
  /\ settings \in {[k \in Keys \cup {"source"} |-> IF k = "source" THEN Default ELSE v] : v \in Values}
  /\ using = [u \in Users |-> Closed]
  /\ pending = {} /\ prefs = [u \in Users |-> None]
  /\ saved = [p \in Processes |-> [n \in Names |-> None]]
  /\ disturbed = {} /\ asked = 0 /\ undefined = 0

Preferences(u) ==
  \/ ShowPreferences(u) \/ \E n \in Names : ToggleSource(u, n)
  \/ Begin(u, "add", None)
  \/ prefs[u] # None /\ \E n \in prefs[u].rows, doing \in {"edit", "remove"} : Begin(u, doing, n)
  \/ AddSource(u) \/ SaveSource(u) \/ RemoveClicked(u) \/ CancelDialog(u) \/ DiesSaving(u)

Window(w) ==
  \/ CloseWindow(w)
  \/ \E n \in Names : ActivateSource(w, n)
  \/ \E k \in Keys, v \in Values : ActivateValue(w, k, v)

Next ==
  \/ \E u \in Users : OpenWindow(u) \/ Preferences(u)
  \/ \E w \in Windows : Window(w)
  \/ Deliver \/ Undefined

Spec == Init /\ [][Next]_vars

-----------------------------------------------------------------------------
(* A source in the user's directory that the last reading of it missed,    *)
(* because it came upon a file that is no source before.                   *)
Missed(p, n) == junk = 1 /\ files["user"][n] # None /\ loader[p].list["user"][n] = None

(* A name leads to a source that was freed only when its file is there and *)
(* was missed: adding, editing, failing to save and removing from several  *)
(* preferences dialogs, each with a list of its own, leave no such pointer *)
(* in the loader's table, unless another process removed the file.         *)
NamesAreAlive ==
  \A p \in Processes \ disturbed, n \in Names :
    loader[p].table[n] = Stale => Missed(p, n)

(* All windows use what the settings say once they have heard of it, even  *)
(* when the choice was made in another window, a dialog or the applet and  *)
(* the source is not there: then they use the default source.              *)
WindowsAgree ==
  \A w \in Windows :
    (undefined = 0 /\ using[w].open = 1 /\ {x \in pending : x[1] = w} = {}) =>
      /\ using[w].source \in {settings.source, Default}
      /\ \A k \in Keys : using[w].keys[k] = settings[k]
      /\ using[w].ctx # None

(* What was saved is in the file, and is what the next context is made     *)
(* from unless the file was missed, also when the source edited was a      *)
(* system one, of which the user now has a copy.                           *)
EditIsUsed ==
  \A p \in Processes \ disturbed, n \in Names :
    (loader[p].dirty = 0 /\ saved[p][n] # None) =>
      /\ files["user"][n] = saved[p][n]
      /\ GetSource(Now, p, n) = saved[p][n] \/ Missed(p, n)

=============================================================================
