----------------------------- MODULE DictProofs -----------------------------
(***************************************************************************)
(* Sources: the loader of a process never points to a source that was      *)
(* freed, as long as no other process interferes, and serves what was      *)
(* saved last; and the windows use what the settings say.  Handlers are    *)
(* functions from states to states, so the lemmas are about one call each: *)
(* what it does to the store (the files and the loaders) and to those who  *)
(* use it (the windows, the applet and the settings).                      *)
(*                                                                         *)
(* The definition box: the text of each definition is where it begins, and *)
(* nothing else is.  A body is laid out by a fold over its words, and what *)
(* it should be is a concatenation; both are recursive functions, followed *)
(* word by word by an induction over the numbers.                          *)
(*                                                                         *)
(* The find pane: a search shows the nearest place.  Every position of the *)
(* text is a cut of what the text is folded to, and a hit lies between two *)
(* of them; a place without line ends is found in its line, and the first  *)
(* or the last line that has one is the nearest.                           *)
(***************************************************************************)
EXTENDS DictSources, DictFind, SequenceTheorems, FiniteSetTheorems, WellFoundedInduction, TLAPS


Dirs      == {"sys", "user"}
Known     == Contents \cup {None}
Directory == [Names -> Known]
Fields    == {"files", "junk", "loader", "settings", "using", "pending", "prefs", "saved",
              "disturbed", "asked", "undefined"}

IsState(s) == s = [f \in Fields |-> s[f]]

LEMMA BecomesIs ==
  ASSUME NEW s, IsState(s), Becomes(s)
  PROVE  Now' = s
<1>1. s = [files |-> s.files, junk |-> s.junk, loader |-> s.loader, settings |-> s.settings,
           using |-> s.using, pending |-> s.pending, prefs |-> s.prefs, saved |-> s.saved,
           disturbed |-> s.disturbed, asked |-> s.asked, undefined |-> s.undefined]
  BY DEF IsState, Fields
<1> QED BY <1>1 DEF Becomes, Now

LEMMA NowIs == IsState(Now)
BY DEF IsState, Fields, Now

-----------------------------------------------------------------------------
(* The store: the files, and what each loader has in memory.               *)

Loader == [list : [Dirs -> Directory], table : [Names -> Dirs \cup {None, Stale}], dirty : {0, 1}]

StoreTyped(s) ==
  /\ s.files \in [Dirs -> Directory] /\ s.junk \in {0, 1}
  /\ s.loader \in [Processes -> Loader]
  /\ s.saved \in [Processes -> Directory] /\ s.disturbed \subseteq Processes

(* A table entry that is not stale leads to a source in the list, and the   *)
(* default source, in a directory nobody can write to, always is there.     *)
Leads(l) == \A n \in Names : l.table[n] \in Dirs => l.list[l.table[n]][n] # None
HasDefault(l) ==
  l.dirty = 0 => l.list["sys"][Default] # None /\ l.table[Default] \in Dirs

(* What a reading of the directories may find: the user's may be cut short  *)
(* when there is a file that is no source.                                  *)
Reading(s, scan) ==
  /\ scan["sys"] = s.files["sys"]
  /\ \A n \in Names : \/ scan["user"][n] = s.files["user"][n]
                      \/ s.junk = 1 /\ scan["user"][n] = None

(* A loader nobody has interfered with knows the files as they are, but for *)
(* those it missed, from the first reading on; a name that leads nowhere is *)
(* that of a file it missed.  What its process has saved is in the files.   *)
TableFits(s, p, n) ==
  LET l == s.loader[p]
  IN  /\ Named(l.list, n) # None => l.table[n] = Named(l.list, n)
      /\ Named(l.list, n) = None /\ l.table[n] # None =>
           l.table[n] = Stale /\ s.junk = 1 /\ s.files["user"][n] # None
Current(s, p) ==
  /\ s.loader[p].dirty = 1 => s.loader[p] = InitLoader
  /\ s.loader[p].dirty = 0 =>
       Reading(s, s.loader[p].list) /\ \A n \in Names : TableFits(s, p, n)
SavedIsThere(s, p) ==
  \A n \in Names : s.saved[p][n] # None => s.files["user"][n] = s.saved[p][n]

Store(s) ==
  /\ StoreTyped(s)
  /\ s.files["sys"][Default] # None
  /\ \A p \in Processes : Leads(s.loader[p]) /\ HasDefault(s.loader[p])
  /\ \A p \in Processes \ s.disturbed : Current(s, p) /\ SavedIsThere(s, p)

SameStore(s, t) ==
  /\ t.files = s.files /\ t.junk = s.junk /\ t.loader = s.loader
  /\ t.saved = s.saved /\ t.disturbed = s.disturbed

LEMMA SameStoreHolds ==
  ASSUME NEW s, NEW t, Store(s), SameStore(s, t)
  PROVE  Store(t)
BY DEF Store, SameStore, StoreTyped, Current, Reading, TableFits, SavedIsThere

LEMMA ScansAre ==
  ASSUME NEW s, StoreTyped(s), NEW scan \in Scans(s)
  PROVE  scan \in [Dirs -> Directory] /\ Reading(s, scan)
<1>1. PICK seen \in (IF s.junk = 1 THEN SUBSET Names ELSE {Names}) :
        scan = [sys |-> s.files["sys"],
                user |-> [n \in Names |-> IF n \in seen THEN s.files["user"][n] ELSE None]]
  BY DEF Scans
<1> DEFINE user == [n \in Names |-> IF n \in seen THEN s.files["user"][n] ELSE None]
<1>2. s.files["sys"] \in Directory /\ s.files["user"] \in Directory
  BY DEF StoreTyped, Dirs
<1>3. user \in Directory /\ (seen = Names => user = s.files["user"])
  BY <1>2 DEF Directory, Known
<1> HIDE DEF user
<1>4. scan = [d \in Dirs |-> IF d = "sys" THEN s.files["sys"] ELSE user]
  BY <1>1 DEF Dirs, user
<1>5. scan \in [Dirs -> Directory] /\ scan["sys"] = s.files["sys"] /\ scan["user"] = user
  BY <1>2, <1>3, <1>4 DEF Dirs
<1>6. ASSUME NEW n \in Names
      PROVE  user[n] = s.files["user"][n] \/ (s.junk = 1 /\ user[n] = None)
  BY <1>1, <1>6 DEF user
<1> QED BY <1>5, <1>6 DEF Reading

(* update_sources, from a store that is current but for the source a file   *)
(* of which was just written or removed.  It forgets no name it should      *)
(* know: a name whose source is gone was taken out of the table before.     *)
Nearly(s, p) ==
  /\ StoreTyped(s)
  /\ s.files["sys"][Default] # None
  /\ \A q \in Processes \ {p} : Leads(s.loader[q]) /\ HasDefault(s.loader[q])
  /\ \A q \in Processes \ s.disturbed : SavedIsThere(s, q) /\ (q # p => Current(s, q))
  /\ p \notin s.disturbed =>
       \A n \in Names : s.loader[p].table[n] # None => Named(s.files, n) # None

LEMMA NamedIs ==
  ASSUME NEW l \in [Dirs -> Directory], NEW n \in Names
  PROVE  /\ Named(l, n) \in Dirs \cup {None}
         /\ Named(l, n) # None => Named(l, n) \in Dirs /\ l[Named(l, n)][n] # None
         /\ l["sys"][n] # None => Named(l, n) # None
BY NoneAssumption DEF Named, Dirs

LEMMA StoreIsNearly ==
  ASSUME NEW s, Store(s), NEW p \in Processes
  PROVE  Nearly(s, p)
<1>1. ASSUME p \notin s.disturbed, NEW n \in Names, s.loader[p].table[n] # None
      PROVE  Named(s.files, n) # None
  <2>1. Current(s, p) /\ s.loader[p] \in Loader
    BY <1>1 DEF Store, StoreTyped
  <2>2. CASE s.loader[p].dirty = 1
    BY <1>1, <2>1, <2>2 DEF Current, InitLoader
  <2>3. CASE s.loader[p].dirty = 0
    <3>1. Reading(s, s.loader[p].list) /\ TableFits(s, p, n)
      BY <2>1, <2>3 DEF Current
    <3>2. CASE Named(s.loader[p].list, n) # None
      BY <3>1, <3>2, NoneAssumption DEF Named, Reading
    <3>3. CASE Named(s.loader[p].list, n) = None
      BY <1>1, <3>1, <3>3, NoneAssumption DEF TableFits, Named
    <3> QED BY <3>2, <3>3
  <2> QED BY <2>1, <2>2, <2>3 DEF Loader
<1> QED BY <1>1 DEF Store, Nearly

LEMMA UpdateStore ==
  ASSUME NEW s, IsState(s), NEW p \in Processes, Nearly(s, p), NEW scan \in [Dirs -> Directory],
         Reading(s, scan)
  PROVE  LET t == UpdateSources(s, p, scan)
         IN  IsState(t) /\ Store(t) /\ t.loader[p].dirty = 0
             /\ (\A f \in Fields \ {"loader"} : t[f] = s[f])
             /\ \A q \in Processes : t.loader[q].dirty = 0 \/ t.loader[q] = s.loader[q]
<1> DEFINE old == s.loader[p]
           new == [list |-> scan, dirty |-> 0,
                   table |-> [n \in Names |->
                      IF Named(scan, n) # None THEN Named(scan, n)
                      ELSE IF old.table[n] # None THEN Stale ELSE None]]
           t   == UpdateSources(s, p, scan)
<1>1. s.loader \in [Processes -> Loader] /\ old \in Loader
  BY DEF Nearly, StoreTyped
<1>2. t = [s EXCEPT !.loader = [s.loader EXCEPT ![p] = new]]
  BY DEF UpdateSources, IsState, Fields
<1>3. IsState(t) /\ \A f \in Fields \ {"loader"} : t[f] = s[f]
  BY <1>2 DEF IsState, Fields
<1>4. t.loader = [s.loader EXCEPT ![p] = new]
  BY <1>2 DEF IsState, Fields
<1>5. new \in Loader
  <2>1. [n \in Names |-> IF Named(scan, n) # None THEN Named(scan, n)
                         ELSE IF old.table[n] # None THEN Stale ELSE None]
          \in [Names -> Dirs \cup {None, Stale}]
    BY NamedIs
  <2> QED BY <2>1 DEF Loader
<1>6. Leads(new)
  BY NamedIs, NoneAssumption DEF Leads, Dirs
<1>7. HasDefault(new)
  <2>1. scan["sys"][Default] # None /\ Default \in Names
    BY NamesAssumption DEF Nearly, Reading
  <2>2. Named(scan, Default) # None /\ Named(scan, Default) \in Dirs
    BY <2>1, NamedIs
  <2> QED BY <2>1, <2>2 DEF HasDefault
<1>8. ASSUME p \notin s.disturbed, NEW n \in Names
      PROVE  /\ Named(scan, n) # None => new.table[n] = Named(scan, n)
             /\ Named(scan, n) = None /\ new.table[n] # None =>
                  new.table[n] = Stale /\ s.junk = 1 /\ s.files["user"][n] # None
  <2>1. new.table[n] = IF Named(scan, n) # None THEN Named(scan, n)
                       ELSE IF old.table[n] # None THEN Stale ELSE None
    OBVIOUS
  <2>2. ASSUME Named(scan, n) = None, old.table[n] # None
        PROVE  s.junk = 1 /\ s.files["user"][n] # None
    <3>1. Named(s.files, n) # None
      BY <1>8, <2>2 DEF Nearly
    <3>2. scan["sys"][n] = None /\ scan["user"][n] = None
      BY <2>2, NoneAssumption DEF Named
    <3>3. s.files["user"][n] # None
      BY <3>1, <3>2 DEF Named, Reading
    <3> QED BY <3>2, <3>3 DEF Reading
  <2> HIDE DEF new, old
  <2> QED BY <2>1, <2>2
<1>10. new.list = scan /\ new.dirty = 0
  OBVIOUS
<1> HIDE DEF new, t, old
<1>11. t.loader[p] = new /\ \A q \in Processes \ {p} : t.loader[q] = s.loader[q]
  BY <1>1, <1>4
<1>12. t.loader \in [Processes -> Loader]
  BY <1>1, <1>4, <1>5
<1>13. /\ t.files = s.files /\ t.junk = s.junk /\ t.saved = s.saved /\ t.disturbed = s.disturbed
  BY <1>3 DEF Fields
<1>14. StoreTyped(t)
  BY <1>12, <1>13 DEF Nearly, StoreTyped
<1>15. \A q \in Processes \ t.disturbed : SavedIsThere(t, q)
  BY <1>13 DEF Nearly, SavedIsThere
<1>16. \A q \in Processes \ t.disturbed : Current(t, q)
  <2>1. ASSUME NEW q \in Processes \ t.disturbed, q # p PROVE Current(t, q)
    BY <1>11, <1>13, <2>1 DEF Nearly, Current, Reading, TableFits
  <2>2. p \notin t.disturbed => Current(t, p)
    <3> SUFFICES ASSUME p \notin t.disturbed PROVE Current(t, p)
      OBVIOUS
    <3>1. Reading(t, scan)
      BY <1>13 DEF Reading
    <3>2. \A n \in Names : TableFits(t, p, n)
      BY <1>8, <1>10, <1>11, <1>13 DEF TableFits
    <3> QED BY <1>10, <1>11, <3>1, <3>2 DEF Current
  <2> QED BY <2>1, <2>2
<1>17. \A q \in Processes : Leads(t.loader[q]) /\ HasDefault(t.loader[q])
  BY <1>6, <1>7, <1>11 DEF Nearly
<1>18. Store(t)
  BY <1>13, <1>14, <1>15, <1>16, <1>17 DEF Store, Nearly
<1> QED BY <1>3, <1>10, <1>11, <1>18 DEF t

SameUse(s, t) ==
  /\ t.settings = s.settings /\ t.using = s.using
  /\ t.pending = s.pending /\ t.undefined = s.undefined

(* The reading that ends every dialog: the rest is about the dialog.        *)
LEMMA ViewStore ==
  ASSUME NEW s, IsState(s), NEW u \in Users, Nearly(s, ProcessOf(u)), NEW scan \in Scans(s)
  PROVE  LET t == UpdateView(s, u, scan)
         IN  /\ IsState(t) /\ Store(t) /\ SameUse(s, t)
             /\ \A p \in Processes : t.loader[p].dirty = 0 \/ t.loader[p] = s.loader[p]
<1> DEFINE p == ProcessOf(u)
           v == UpdateSources(s, p, scan)
           rows == {n \in Names : \E d \in {"sys", "user"} : v.loader[p].list[d][n] # None}
           t == UpdateView(s, u, scan)
<1>1. p \in Processes
  BY DEF ProcessOf, Processes
<1>2. scan \in [Dirs -> Directory] /\ Reading(s, scan)
  BY ScansAre DEF Nearly
<1>3. /\ IsState(v) /\ Store(v) /\ v.loader[p].dirty = 0
      /\ \A f \in Fields \ {"loader"} : v[f] = s[f]
      /\ \A q \in Processes : v.loader[q].dirty = 0 \/ v.loader[q] = s.loader[q]
  BY <1>1, <1>2, UpdateStore
<1>5. t = [v EXCEPT !.prefs[u].rows = rows]
  BY DEF UpdateView
<1> HIDE DEF v, rows
<1>6. /\ IsState(t) /\ SameStore(v, t) /\ SameUse(v, t)
  BY <1>3, <1>5 DEF IsState, Fields, SameStore, SameUse
<1>7. SameUse(v, t) => SameUse(s, t)
  BY <1>3 DEF SameUse, Fields
<1> HIDE DEF t
<1>8. Store(t)
  BY <1>3, <1>6, SameStoreHolds
<1> QED BY <1>3, <1>6, <1>7, <1>8 DEF SameStore, t

LEMMA DoneKeeps ==
  ASSUME NEW s, IsState(s), NEW u
  PROVE  IsState(Done(s, u)) /\ SameStore(s, Done(s, u)) /\ SameUse(s, Done(s, u))
<1> DEFINE v == [s EXCEPT !.prefs[u].doing = "nothing"]
<1>1. IsState(v) /\ SameStore(s, v) /\ SameUse(s, v)
  BY DEF IsState, Fields, SameStore, SameUse
<1>2. Done(s, u) = [v EXCEPT !.prefs[u].name = None]
  BY DEF Done, IsState, Fields
<1> HIDE DEF v
<1>3. IsState(Done(s, u)) /\ SameStore(v, Done(s, u)) /\ SameUse(v, Done(s, u))
  BY <1>1, <1>2 DEF IsState, Fields, SameStore, SameUse
<1> QED BY <1>1, <1>3 DEF SameStore, SameUse

(* g_file_set_contents: the store is to be read again, and the others do    *)
(* not know of it.                                                          *)
LEMMA WriteNearly ==
  ASSUME NEW s, IsState(s), Store(s), NEW p \in Processes, NEW n,
         NEW content \in Contents
  PROVE  LET t == WriteFile(s, p, n, content)
         IN  IsState(t) /\ Nearly(t, p) /\ SameUse(s, t) /\ t.loader = s.loader
<1> DEFINE t        == WriteFile(s, p, n, content)
           disk     == [s.files EXCEPT !["user"][n] = content]
           kept     == [s.saved EXCEPT ![p][n] = content]
           troubled == s.disturbed \cup (Processes \ {p})
<1>1. t = [s EXCEPT !.files = disk, !.saved = kept, !.disturbed = troubled]
  BY DEF WriteFile, Disturbs, IsState, Fields
<1>2. StoreTyped(s) /\ content \in Known /\ content # None
  BY NoneAssumption DEF Store, Known
<1>3. /\ disk \in [Dirs -> Directory] /\ disk["sys"] = s.files["sys"]
      /\ n \in Names => disk["user"][n] = content
      /\ \A m \in Names : m # n => disk["user"][m] = s.files["user"][m]
  BY <1>2 DEF StoreTyped, Dirs, Directory
<1>4. /\ kept \in [Processes -> Directory] /\ (n \in Names => kept[p][n] = content)
      /\ \A m \in Names : m # n => kept[p][m] = s.saved[p][m]
  BY <1>2 DEF StoreTyped, Directory
<1>5. troubled \subseteq Processes /\ (p \notin troubled => p \notin s.disturbed)
      /\ (\A q \in Processes \ troubled : q = p)
  BY <1>2 DEF StoreTyped
<1> HIDE DEF disk, kept, troubled
<1>6. /\ IsState(t) /\ t.files = disk /\ t.saved = kept /\ t.disturbed = troubled
      /\ t.junk = s.junk /\ t.loader = s.loader /\ SameUse(s, t)
  BY <1>1 DEF IsState, Fields, SameUse
<1> HIDE DEF t
<1>7. StoreTyped(t)
  BY <1>2, <1>3, <1>4, <1>5, <1>6 DEF StoreTyped
<1>8. ASSUME p \notin t.disturbed
      PROVE  SavedIsThere(t, p)
  <2>1. SavedIsThere(s, p)
    BY <1>5, <1>6, <1>8 DEF Store
  <2> QED BY <2>1, <1>3, <1>4, <1>6 DEF SavedIsThere
<1>9. ASSUME p \notin t.disturbed, NEW m \in Names
      PROVE  t.loader[p].table[m] # None => Named(t.files, m) # None
  <2>1. s.loader[p].table[m] # None => Named(s.files, m) # None
    BY <1>5, <1>6, <1>9, StoreIsNearly DEF Nearly
  <2>2. Named(s.files, m) # None => Named(t.files, m) # None
    BY <1>2, <1>3, <1>6, NoneAssumption DEF Named
  <2> QED BY <2>1, <2>2, <1>6
<1>10. Nearly(t, p)
  BY <1>3, <1>5, <1>6, <1>7, <1>8, <1>9 DEF Nearly, Store
<1> QED BY <1>6, <1>10 DEF t

(* remove_source: the file, the source and its name go together.            *)
Removed(s, p, n) ==
  LET r == RemoveSource(s, p, n)
  IN  IF r = s THEN s ELSE Disturbs([r EXCEPT !.saved[p][n] = None], p)

LEMMA RemoveNearly ==
  ASSUME NEW s, IsState(s), Store(s), NEW p \in Processes, NEW n, NEW to, to = Removed(s, p, n)
  PROVE  /\ IsState(to) /\ Nearly(to, p) /\ SameUse(s, to)
         /\ \A q \in Processes : to.loader[q].dirty = s.loader[q].dirty
<1> DEFINE r == RemoveSource(s, p, n)
           t == IF r = s THEN s ELSE Disturbs([r EXCEPT !.saved[p][n] = None], p)
<1> SUFFICES /\ IsState(t) /\ Nearly(t, p) /\ SameUse(s, t)
             /\ \A q \in Processes : t.loader[q].dirty = s.loader[q].dirty
  <2>1. to = t
    BY DEF Removed
  <2> HIDE DEF t
  <2> QED BY <2>1
<1>1. CASE r = s
  BY <1>1, StoreIsNearly DEF SameUse
<1>2. CASE r # s
  <2> DEFINE disk     == [s.files EXCEPT !["user"][n] = None]
             kept     == [s.saved EXCEPT ![p][n] = None]
             l        == s.loader[p]
             new      == [l EXCEPT !.list["user"][n] = None, !.table[n] = None]
             troubled == s.disturbed \cup (Processes \ {p})
             reader   == [s.loader EXCEPT ![p] = new]
  <2>1. StoreTyped(s) /\ l \in Loader
    BY DEF Store, StoreTyped
  <2>2. r = [s EXCEPT !.files = disk, !.loader = reader]
    <3>1. r = [s EXCEPT !.files["user"][n] = None,
                        !.loader[p].list["user"][n] = None,
                        !.loader[p].table[n] = None]
      BY <1>2 DEF RemoveSource
    <3> DEFINE a == [s EXCEPT !.files["user"][n] = None]
               b == [a EXCEPT !.loader[p].list["user"][n] = None]
               k == [l EXCEPT !.list["user"][n] = None]
    <3>2. r = [b EXCEPT !.loader[p].table[n] = None]
      BY <3>1
    <3>3. /\ IsState(a) /\ a.loader = s.loader /\ a.files = disk
          /\ \A f \in Fields \ {"files"} : a[f] = s[f]
      BY DEF IsState, Fields
    <3> HIDE DEF a, disk
    <3>4. IsState(b) /\ b.loader = [s.loader EXCEPT ![p] = k]
          /\ \A f \in Fields \ {"loader"} : b[f] = a[f]
      BY <3>3 DEF IsState, Fields
    <3> HIDE DEF b, k
    <3>5. b.loader[p] = k
      BY <2>1, <3>4 DEF StoreTyped
    <3>6. [b.loader EXCEPT ![p].table[n] = None] = [s.loader EXCEPT ![p] = [k EXCEPT !.table[n] = None]]
      BY <2>1, <3>4, <3>5 DEF StoreTyped
    <3>7. [k EXCEPT !.table[n] = None] = new
      BY DEF k
    <3> HIDE DEF r, new, l
    <3>8. r = [b EXCEPT !.loader = reader]
      BY <3>2, <3>6, <3>7
    <3> HIDE DEF reader
    <3> QED BY <3>3, <3>4, <3>8 DEF IsState, Fields
  <2>3. t = [s EXCEPT !.files = disk, !.loader = reader, !.saved = kept, !.disturbed = troubled]
    <3>1. t = Disturbs([r EXCEPT !.saved[p][n] = None], p)
      BY <1>2
    <3> HIDE DEF t, r, disk, reader
    <3> QED BY <2>2, <3>1 DEF Disturbs, IsState, Fields
  <2>4. /\ disk \in [Dirs -> Directory] /\ disk["sys"] = s.files["sys"]
        /\ \A m \in Names : m # n => disk["user"][m] = s.files["user"][m]
    BY <2>1 DEF StoreTyped, Dirs, Directory, Known
  <2>5. /\ kept \in [Processes -> Directory] /\ (n \in Names => kept[p][n] = None)
        /\ \A m \in Names : m # n => kept[p][m] = s.saved[p][m]
    BY <2>1 DEF StoreTyped, Directory, Known
  <2>6. troubled \subseteq Processes /\ (p \notin troubled => p \notin s.disturbed)
        /\ (\A q \in Processes \ troubled : q = p)
    BY <2>1 DEF StoreTyped
  <2>7. new \in Loader /\ (n \in Names => new.table[n] = None) /\ new.dirty = l.dirty
        /\ \A m \in Names : m # n => new.table[m] = l.table[m]
    BY <2>1 DEF Loader, Dirs, Directory, Known
  <2> HIDE DEF new
  <2>8. /\ reader \in [Processes -> Loader] /\ reader[p] = new
        /\ \A q \in Processes : q # p => reader[q] = s.loader[q]
    BY <2>1, <2>7 DEF StoreTyped
  <2> HIDE DEF disk, kept, troubled, reader
  <2>9. /\ IsState(t) /\ t.files = disk /\ t.saved = kept /\ t.disturbed = troubled
        /\ t.junk = s.junk /\ t.loader = reader /\ SameUse(s, t)
    <3> HIDE DEF t
    <3> QED BY <2>3 DEF IsState, Fields, SameUse
  <2> HIDE DEF t, r
  <2>10. StoreTyped(t)
    BY <2>1, <2>4, <2>5, <2>6, <2>8, <2>9 DEF StoreTyped
  <2>11. ASSUME p \notin t.disturbed
         PROVE  SavedIsThere(t, p)
    <3>1. SavedIsThere(s, p)
      BY <2>6, <2>9, <2>11 DEF Store
    <3> QED BY <3>1, <2>4, <2>5, <2>9 DEF SavedIsThere
  <2>12. ASSUME p \notin t.disturbed, NEW m \in Names
         PROVE  t.loader[p].table[m] # None => Named(t.files, m) # None
    <3>1. CASE m = n
      BY <3>1, <2>7, <2>8, <2>9, NoneAssumption
    <3>2. CASE m # n
      <4>1. s.loader[p].table[m] # None => Named(s.files, m) # None
        BY <2>6, <2>9, <2>12, StoreIsNearly DEF Nearly
      <4>2. Named(s.files, m) = Named(t.files, m)
        BY <2>4, <2>9, <3>2 DEF Named
      <4> QED BY <4>1, <4>2, <2>7, <2>8, <2>9, <3>2
    <3> QED BY <3>1, <3>2
  <2>13. Nearly(t, p)
    BY <2>4, <2>6, <2>8, <2>9, <2>10, <2>11, <2>12 DEF Nearly, Store
  <2>14. \A q \in Processes : t.loader[q].dirty = s.loader[q].dirty
    BY <2>7, <2>8, <2>9
  <2> QED BY <2>9, <2>13, <2>14 DEF t, r
<1> QED BY <1>1, <1>2

-----------------------------------------------------------------------------
(* Those who use the sources.                                              *)

Settings == Keys \cup {"source"}
IsUser(r) ==
  /\ r = [f \in {"open", "source", "keys", "ctx"} |-> r[f]]
  /\ r.keys = [k \in Keys |-> r.keys[k]]

UseTyped(s) ==
  /\ s.settings = [k \in Settings |-> s.settings[k]]
  /\ s.using = [u \in Users |-> s.using[u]]
  /\ \A u \in Users : IsUser(s.using[u])
  /\ s.pending \subseteq Users \X Settings
  /\ s.settings.source \in Names

(* What a window has heard of, it has taken over: a value as it is, a       *)
(* source too, or the default one.                                          *)
KeysAgree(s) ==
  \A w \in Windows, k \in Keys :
    s.using[w].open = 1 /\ <<w, k>> \notin s.pending => s.using[w].keys[k] = s.settings[k]
SourceAgrees(s, w) ==
  s.using[w].open = 1 /\ <<w, "source">> \notin s.pending =>
    s.using[w].source \in {s.settings.source, Default}
HasContext(s, w) == s.using[w].open = 1 /\ s.undefined # 1 => s.using[w].ctx # None

(* The loader has been read when a window is open.                          *)
HasRead(s) == (\E w \in Windows : s.using[w].open = 1) => s.loader["app"].dirty = 0

Serves(s) ==
  UseTyped(s) /\ KeysAgree(s) /\ HasRead(s) /\ \A w \in Windows : HasContext(s, w)
Use(s) == Serves(s) /\ \A w \in Windows : SourceAgrees(s, w)

LEMMA QuietHolds ==
  ASSUME NEW s, NEW t, Store(s), Use(s), SameStore(s, t),
         t.settings = s.settings, t.using = s.using, t.pending = s.pending,
         t.undefined = s.undefined \/ t.undefined = 1
  PROVE  Store(t) /\ Use(t)
<1>1. Store(t)
  BY SameStoreHolds
<1>2. UseTyped(t) /\ KeysAgree(t) /\ \A w \in Windows : SourceAgrees(t, w)
  BY DEF Use, Serves, UseTyped, KeysAgree, SourceAgrees
<1>3. HasRead(t) /\ \A w \in Windows : HasContext(t, w)
  BY DEF Use, Serves, HasRead, HasContext, SameStore
<1> QED BY <1>1, <1>2, <1>3 DEF Use, Serves

(* What no call about keys changes.                                         *)
SameSources(s, t) ==
  /\ SameStore(s, t) /\ t.undefined = s.undefined /\ t.settings.source = s.settings.source
  /\ \A u \in Users : /\ t.using[u].open = s.using[u].open
                      /\ t.using[u].source = s.using[u].source
                      /\ t.using[u].ctx = s.using[u].ctx
                      /\ <<u, "source">> \in t.pending <=> <<u, "source">> \in s.pending

LEMMA SetKeysUse ==
  ASSUME NEW s, IsState(s), UseTyped(s), KeysAgree(s), NEW p \in Processes,
         NEW us \in SUBSET Users, \A u \in us : ProcessOf(u) = p,
         NEW content, DOMAIN content \subseteq Keys
  PROVE  LET t == SetKeys(s, p, us, content)
         IN  IsState(t) /\ UseTyped(t) /\ KeysAgree(t) /\ SameSources(s, t)
<1> DEFINE written == Written(s, p, us, content)
           value(k) == Value(s, content, k)
           has(u, k) == (u \in us /\ Sets(s, u, content, k))
                        \/ (k \in written /\ u \in OpenIn(s, p))
           chosen   == [k \in Settings |-> IF k \in written THEN value(k) ELSE s.settings[k]]
           keys(u)  == [k \in Keys |-> IF has(u, k) THEN value(k) ELSE s.using[u].keys[k]]
           used     == [u \in Users |-> [s.using[u] EXCEPT !.keys = keys(u)]]
           waiting  == s.pending \cup (OpenElsewhere(s, p) \X written)
           t        == SetKeys(s, p, us, content)
<1>1. t = [s EXCEPT !.settings = chosen, !.using = used, !.pending = waiting]
  BY DEF SetKeys, Settings
<1>2. /\ IsState(t) /\ t.settings = chosen /\ t.using = used /\ t.pending = waiting
      /\ SameStore(s, t) /\ t.undefined = s.undefined
  <2> HIDE DEF chosen, used, waiting, t
  <2> QED BY <1>1 DEF IsState, Fields, SameStore
<1>3. written \subseteq Keys /\ (p = "applet" => written = {})
  BY DEF Written
<1>4. "source" \notin written
  BY <1>3, NamesAssumption
<1>5. \A u \in Users : /\ IsUser(used[u]) /\ used[u].keys = keys(u)
                       /\ used[u].open = s.using[u].open
                       /\ used[u].source = s.using[u].source
                       /\ used[u].ctx = s.using[u].ctx
  <2> SUFFICES ASSUME NEW u \in Users
      PROVE  /\ IsUser(used[u]) /\ used[u].keys = keys(u)
             /\ used[u].open = s.using[u].open
             /\ used[u].source = s.using[u].source
             /\ used[u].ctx = s.using[u].ctx
    OBVIOUS
  <2>1. keys(u) = [k \in Keys |-> keys(u)[k]]
    OBVIOUS
  <2>2. used[u] = [s.using[u] EXCEPT !.keys = keys(u)] /\ IsUser(s.using[u])
    BY DEF UseTyped
  <2> HIDE DEF keys, used
  <2> QED BY <2>1, <2>2 DEF IsUser
<1>6. OpenElsewhere(s, p) \subseteq Users
  BY DEF OpenElsewhere
<1>7. waiting \subseteq Users \X Settings
  <2>1. written \subseteq Settings
    BY <1>3 DEF Settings
  <2> HIDE DEF written
  <2> QED BY <2>1, <1>6 DEF UseTyped
<1>8. \A k \in Settings : chosen[k] = IF k \in written THEN value(k) ELSE s.settings[k]
  OBVIOUS
<1>9. chosen["source"] = s.settings["source"]
  BY <1>4, <1>8 DEF Settings
<1>10. \A u \in Users : <<u, "source">> \in waiting <=> <<u, "source">> \in s.pending
  BY <1>4
<1>11. ASSUME NEW w \in Windows, NEW k \in Keys, used[w].open = 1, <<w, k>> \notin waiting
       PROVE  used[w].keys[k] = chosen[k]
  <2>1. w \in Users /\ ProcessOf(w) = "app" /\ k \in Settings
    BY NamesAssumption DEF Users, ProcessOf, Settings
  <2>2. used[w].keys[k] = IF has(w, k) THEN value(k) ELSE s.using[w].keys[k]
    <3>1. keys(w)[k] = IF has(w, k) THEN value(k) ELSE s.using[w].keys[k]
      <4> HIDE DEF has, value
      <4> QED BY DEF keys
    <3> HIDE DEF has, value, used, keys
    <3> QED BY <1>5, <2>1, <3>1
  <2>3. s.using[w].keys[k] = s.settings[k]
    BY <1>5, <1>11, <2>1 DEF KeysAgree
  <2>4. CASE k \in written
    <3>1. p = "app"
      BY <1>3, <2>4 DEF Processes
    <3>2. has(w, k)
      BY <3>1, <2>1, <2>4, <1>5, <1>11 DEF OpenIn
    <3> HIDE DEF has, value, used, chosen, written
    <3> QED BY <3>2, <2>1, <2>2, <2>4, <1>8
  <2>5. CASE k \notin written /\ has(w, k)
    <3>1. w \in us /\ Sets(s, w, content, k) /\ p = "app"
      BY <2>1, <2>5
    <3>2. s.settings[k] = value(k)
      BY <3>1, <2>5 DEF Written, Sets
    <3> HIDE DEF has, value, used, chosen, written
    <3> QED BY <3>2, <2>1, <2>2, <2>5, <1>8
  <2>6. CASE k \notin written /\ ~has(w, k)
    <3> HIDE DEF has, value, used, chosen, written
    <3> QED BY <2>1, <2>2, <2>3, <2>6, <1>8
  <2> QED BY <2>4, <2>5, <2>6
<1>12. chosen = [k \in Settings |-> chosen[k]] /\ used = [u \in Users |-> used[u]]
  OBVIOUS
<1> HIDE DEF chosen, used, waiting, t, keys, written
<1>13. UseTyped(t)
  BY <1>2, <1>5, <1>7, <1>9, <1>12 DEF UseTyped
<1>14. KeysAgree(t)
  BY <1>2, <1>11 DEF KeysAgree
<1>15. SameSources(s, t)
  BY <1>2, <1>5, <1>9, <1>10 DEF SameSources
<1> QED BY <1>2, <1>13, <1>14, <1>15 DEF t

LEMMA SourceIs ==
  ASSUME NEW s, Store(s), NEW p \in Processes, NEW n \in Names
  PROVE  /\ GetSource(s, p, n) \in Contents \cup {None, Stale}
         /\ s.loader[p].dirty = 0 => GetSource(s, p, Default) \in Contents \/ n # Default
<1> DEFINE l == s.loader[p]
<1>1. l \in Loader /\ Leads(l) /\ HasDefault(l)
  BY DEF Store, StoreTyped
<1>2. \A m \in Names : l.table[m] \in Dirs => l.list[l.table[m]][m] \in Contents
  BY <1>1 DEF Loader, Leads, Directory, Known
<1>3. None \notin Dirs /\ Default \in Names
  BY NoneAssumption, NamesAssumption DEF Dirs
<1>4. \A m \in Names : l.table[m] \in Dirs \cup {None, Stale}
  BY <1>1 DEF Loader
<1> HIDE DEF l
<1>5. GetSource(s, p, n) = IF l.table[n] \in {None, Stale} THEN l.table[n] ELSE l.list[l.table[n]][n]
  BY DEF GetSource, l
<1>6. GetSource(s, p, n) \in Contents \cup {None, Stale}
  BY <1>2, <1>4, <1>5
<1>7. ASSUME l.dirty = 0, n = Default PROVE GetSource(s, p, n) \in Contents
  <2>1. l.table[n] \in Dirs /\ Stale \notin Dirs
    BY <1>1, <1>7, NoneAssumption DEF HasDefault, Dirs
  <2> QED BY <1>2, <1>3, <1>5, <1>7, <2>1
<1> QED BY <1>6, <1>7 DEF l

IsTurned(s, v, us, name, ctx) ==
  /\ IsState(v) /\ UseTyped(v) /\ KeysAgree(v) /\ SameStore(s, v)
  /\ v.settings = s.settings /\ v.undefined = s.undefined /\ v.pending = s.pending
  /\ \A u \in Users : /\ v.using[u].open = s.using[u].open
                      /\ u \notin us => v.using[u] = s.using[u]
                      /\ u \in us => /\ v.using[u].source = name
                                     /\ v.using[u].ctx = ctx[u]

LEMMA TurnedUse ==
  ASSUME NEW s, IsState(s), UseTyped(s), KeysAgree(s), NEW us \in SUBSET Users,
         NEW name, NEW ctx
  PROVE  IsTurned(s, Turned(s, us, name, ctx), us, name, ctx)
<1> DEFINE used == [u \in Users |->
             IF u \in us THEN [s.using[u] EXCEPT !.source = name, !.ctx = ctx[u]] ELSE s.using[u]]
           v == Turned(s, us, name, ctx)
<1>1. ASSUME NEW u \in Users
      PROVE  /\ IsUser(used[u]) /\ used[u].keys = s.using[u].keys
             /\ used[u].open = s.using[u].open
             /\ u \notin us => used[u] = s.using[u]
             /\ u \in us => used[u].source = name /\ used[u].ctx = ctx[u]
  <2>1. IsUser(s.using[u])
    BY DEF UseTyped
  <2>2. used[u] = IF u \in us THEN [s.using[u] EXCEPT !.source = name, !.ctx = ctx[u]] ELSE s.using[u]
    OBVIOUS
  <2> HIDE DEF used
  <2> QED BY <2>1, <2>2 DEF IsUser
<1>2. v = [s EXCEPT !.using = used]
  BY DEF Turned
<1>3. used = [u \in Users |-> used[u]]
  OBVIOUS
<1> HIDE DEF used, v
<1>4. /\ IsState(v) /\ SameStore(s, v) /\ v.using = used
      /\ v.settings = s.settings /\ v.undefined = s.undefined /\ v.pending = s.pending
  BY <1>2 DEF IsState, Fields, SameStore
<1>5. UseTyped(v)
  BY <1>1, <1>3, <1>4 DEF UseTyped
<1>6. KeysAgree(v)
  BY <1>1, <1>4 DEF KeysAgree, Users
<1> QED BY <1>1, <1>4, <1>5, <1>6 DEF v, IsTurned

(* Who asks for a context has the source, or the default one, afterwards,   *)
(* and a window has one, as the default source always is there.             *)
Got(s, t, p, us, name) ==
  /\ IsState(t) /\ UseTyped(t) /\ KeysAgree(t) /\ SameStore(s, t)
  /\ t.settings.source = s.settings.source
  /\ s.undefined = 1 => t.undefined = 1
  /\ \A u \in Users : /\ t.using[u].open = s.using[u].open
                      /\ <<u, "source">> \in t.pending <=> <<u, "source">> \in s.pending
  /\ \A u \in Users \ us : /\ t.using[u].source = s.using[u].source
                           /\ t.using[u].ctx = s.using[u].ctx
  /\ \A u \in us : t.using[u].source = name
  /\ p = "app" /\ s.loader["app"].dirty = 0 /\ t.undefined # 1 =>
       \A u \in us : t.using[u].ctx # None

LEMMA GetContextUse ==
  ASSUME NEW s, IsState(s), Store(s), UseTyped(s), KeysAgree(s), NEW p \in Processes,
         NEW us \in SUBSET Users, \A u \in us : ProcessOf(u) = p, NEW n \in Names
  PROVE  \E name \in {n, Default} : Got(s, GetContext(s, p, us, n), p, us, name)
<1> DEFINE asked_for == GetSource(s, p, n)
           name == IF p = "app" /\ asked_for = None THEN Default ELSE n
           source == GetSource(s, p, name)
           keeps == [u \in us |-> s.using[u].ctx]
           t == GetContext(s, p, us, n)
           stale == [Turned(s, us, name, keeps) EXCEPT !.undefined = 1]
<1>1. t = IF Stale \in {asked_for, source} THEN stale
          ELSE IF source = None THEN Turned(s, us, name, [u \in us |-> None])
          ELSE SetKeys(Turned(s, us, name, [u \in us |-> source]), p, us, source)
  BY DEF GetContext
<1>2. name \in {n, Default} /\ name \in Names
  BY NamesAssumption
<1>3. /\ source \in Contents \cup {None, Stale}
      /\ p = "app" /\ s.loader[p].dirty = 0 => source # None
  <2>1. asked_for \in Contents \cup {None, Stale}
    BY SourceIs
  <2>2. source \in Contents \cup {None, Stale}
    BY <1>2, SourceIs
  <2>3. ASSUME p = "app", s.loader[p].dirty = 0 PROVE source # None
    <3>1. CASE asked_for = None
      <4>1. name = Default
        BY <2>3, <3>1
      <4>2. GetSource(s, p, Default) \in Contents
        BY <2>3, SourceIs, NamesAssumption
      <4> QED BY <4>1, <4>2, NoneAssumption
    <3>2. CASE asked_for # None
      BY <3>2
    <3> QED BY <3>1, <3>2
  <2> QED BY <2>2, <2>3
<1> HIDE DEF asked_for, name, source
<1> DEFINE nothing == [u \in us |-> None]
           made == [u \in us |-> source]
<1>4. /\ IsTurned(s, Turned(s, us, name, keeps), us, name, keeps)
      /\ IsTurned(s, Turned(s, us, name, nothing), us, name, nothing)
      /\ IsTurned(s, Turned(s, us, name, made), us, name, made)
  <2> HIDE DEF keeps, nothing, made
  <2> QED BY TurnedUse
<1>8. \A u \in us : u \in Users
  OBVIOUS
<1>5. CASE Stale \in {asked_for, source}
  <2> DEFINE v == Turned(s, us, name, keeps)
  <2>1. IsTurned(s, v, us, name, keeps)
    BY <1>4
  <2>2. t = [v EXCEPT !.undefined = 1]
    BY <1>1, <1>5
  <2> HIDE DEF v, t
  <2>3. /\ IsState(t) /\ SameStore(s, t) /\ t.undefined = 1 /\ t.using = v.using
        /\ t.settings = v.settings /\ t.pending = v.pending
    BY <2>1, <2>2 DEF IsState, Fields, SameStore, IsTurned
  <2>4. UseTyped(t) /\ KeysAgree(t)
    BY <2>1, <2>3 DEF UseTyped, KeysAgree, IsTurned
  <2>5. Got(s, t, p, us, name)
    BY <1>8, <2>1, <2>3, <2>4 DEF Got, IsTurned
  <2> QED BY <1>2, <2>5 DEF t
<1>6. CASE Stale \notin {asked_for, source} /\ source = None
  <2>1. IsTurned(s, t, us, name, nothing)
    BY <1>1, <1>4, <1>6
  <2> HIDE DEF t
  <2>2. ~(p = "app" /\ s.loader["app"].dirty = 0)
    BY <1>3, <1>6
  <2>3. Got(s, t, p, us, name)
    BY <1>8, <2>1, <2>2 DEF Got, IsTurned
  <2> QED BY <1>2, <2>3 DEF t
<1>7. CASE Stale \notin {asked_for, source} /\ source # None
  <2> DEFINE v == Turned(s, us, name, made)
  <2>1. IsTurned(s, v, us, name, made)
    BY <1>4
  <2>2. t = SetKeys(v, p, us, source)
    BY <1>1, <1>7
  <2>3. source \in Contents /\ DOMAIN source \subseteq Keys
    BY <1>3, <1>7 DEF Contents
  <2>4. \A u \in us : v.using[u].ctx = source
    BY <1>8, <2>1 DEF IsTurned
  <2> HIDE DEF v, t, made
  <2>5. IsState(t) /\ UseTyped(t) /\ KeysAgree(t) /\ SameSources(v, t)
    BY <2>1, <2>2, <2>3, SetKeysUse DEF IsTurned
  <2>6. Got(s, t, p, us, name)
    BY <1>7, <1>8, <2>1, <2>4, <2>5 DEF SameSources, SameStore, Got, IsTurned
  <2> QED BY <1>2, <2>6 DEF t
<1> QED BY <1>5, <1>6, <1>7

(* gdict_window_set_source_name, told by the settings.                      *)
Followed(s, t, us, n) ==
  /\ IsState(t) /\ Serves(t) /\ SameStore(s, t) /\ t.settings.source = s.settings.source
  /\ \A u \in Users : /\ t.using[u].open = s.using[u].open
                      /\ <<u, "source">> \in t.pending <=> <<u, "source">> \in s.pending
  /\ \A w \in Windows : IF w \in us THEN t.using[w].source \in {n, Default}
                        ELSE t.using[w].source = s.using[w].source

LEMMA FollowUse ==
  ASSUME NEW s, IsState(s), Store(s), Serves(s), NEW p \in Processes,
         NEW us \in SUBSET Users, \A u \in us : ProcessOf(u) = p, NEW n \in Names
  PROVE  Followed(s, Follow(s, p, us, n), us, n)
<1> DEFINE those == {u \in us : u = Applet \/ s.using[u].source # n}
           t == Follow(s, p, us, n)
<1>1. CASE those = {}
  <2>1. t = s
    BY <1>1 DEF Follow
  <2>2. \A w \in Windows : w \in us => s.using[w].source = n
    BY <1>1
  <2> HIDE DEF t
  <2>3. /\ IsState(t) /\ Serves(t) /\ SameStore(s, t)
    BY <2>1 DEF SameStore
  <2> QED BY <2>1, <2>2, <2>3 DEF t, Followed
<1>2. CASE those # {}
  <2>1. t = GetContext(s, p, those, n)
    BY <1>2 DEF Follow
  <2>2. /\ those \in SUBSET Users /\ \A u \in those : ProcessOf(u) = p
        /\ \A w \in Windows : w \in us /\ w \notin those => s.using[w].source = n
        /\ \A w \in those : w \in us
    OBVIOUS
  <2> HIDE DEF those, t
  <2>3. PICK name \in {n, Default} : Got(s, t, p, those, name)
    BY <2>1, <2>2, GetContextUse DEF Serves
  <2>4. \A w \in Windows : w \in Users /\ (w \in those => p = "app")
    BY <2>2, NamesAssumption DEF Users, ProcessOf
  <2>5. HasRead(t)
    BY <2>3, <2>4 DEF Got, Serves, HasRead, SameStore
  <2>6. ASSUME NEW w \in Windows, t.using[w].open = 1, t.undefined # 1
        PROVE  t.using[w].ctx # None
    <3>1. s.using[w].open = 1 /\ s.undefined # 1
      BY <2>3, <2>4, <2>6 DEF Got
    <3>2. s.using[w].ctx # None /\ s.loader["app"].dirty = 0
      BY <3>1 DEF Serves, HasContext, HasRead
    <3>3. CASE w \in those
      BY <2>3, <2>4, <2>6, <3>2, <3>3 DEF Got
    <3>4. CASE w \notin those
      BY <2>3, <2>4, <3>2, <3>4 DEF Got
    <3> QED BY <3>3, <3>4
  <2>7. Serves(t)
    BY <2>3, <2>5, <2>6 DEF Got, Serves, HasContext
  <2> QED BY <2>2, <2>3, <2>4, <2>7 DEF Got, Followed, t
<1> QED BY <1>1, <1>2

(* What becomes the source of the settings: the windows that are not told   *)
(* now either have it, or will be told.                                     *)
LEMMA WriteUse ==
  ASSUME NEW s, IsState(s), Store(s), Serves(s), NEW p \in Processes, NEW n \in Names, NEW but,
         \A w \in Windows : IF w \in but THEN s.using[w].source \in {n, Default}
                            ELSE SourceAgrees(s, w)
  PROVE  LET t == WriteSource(s, p, n, but)
         IN  IsState(t) /\ SameStore(s, t) /\ Use(t)
<1> DEFINE set == [s EXCEPT !.settings.source = n]
           us == OpenIn(s, p) \ but
           v == Follow(set, p, us, n)
           t == WriteSource(s, p, n, but)
           elsewhere == OpenElsewhere(s, p) \X {"source"}
<1>1. CASE s.settings.source = n
  <2>1. t = s
    BY <1>1 DEF WriteSource
  <2>2. \A w \in Windows : SourceAgrees(s, w)
    BY <1>1 DEF SourceAgrees
  <2> HIDE DEF t
  <2>3. Use(t) /\ SameStore(s, t) /\ IsState(t)
    BY <2>1, <2>2 DEF Use, SameStore
  <2> QED BY <2>3 DEF t
<1>2. CASE s.settings.source # n
  <2>1. t = [v EXCEPT !.pending = @ \cup elsewhere]
    BY <1>2 DEF WriteSource
  <2>2. /\ IsState(set) /\ SameStore(s, set) /\ set.using = s.using
        /\ set.settings = [s.settings EXCEPT !.source = n]
        /\ set.pending = s.pending /\ set.undefined = s.undefined
    BY DEF IsState, Fields, SameStore
  <2>3. us \in SUBSET Users /\ \A u \in us : ProcessOf(u) = p
    BY DEF OpenIn
  <2>4. /\ OpenElsewhere(s, p) \subseteq Users
        /\ \A w \in Windows : w \in Users
        /\ \A w \in Windows : s.using[w].open = 1 =>
              w \in OpenElsewhere(s, p) \/ w \in us \/ w \in but
    BY DEF OpenElsewhere, OpenIn, Users
  <2>12. elsewhere \subseteq Users \X Settings
    BY <2>4 DEF Settings
  <2>13. \A w \in OpenElsewhere(s, p) : <<w, "source">> \in elsewhere
    OBVIOUS
  <2>14. \A w \in Users, k \in Keys : <<w, k>> \notin elsewhere
    BY NamesAssumption
  <2> HIDE DEF set, us, v, t, elsewhere
  <2>5. Store(set)
    BY <2>2, SameStoreHolds
  <2>6. /\ \A k \in Settings : set.settings[k] = IF k = "source" THEN n ELSE s.settings[k]
        /\ set.settings = [k \in Settings |-> set.settings[k]]
    BY <2>2 DEF Serves, UseTyped, Settings
  <2>7. Serves(set)
    <3>1. UseTyped(set)
      BY <2>2, <2>6 DEF Serves, UseTyped, Settings
    <3>2. KeysAgree(set)
      BY <2>2, <2>6, NamesAssumption DEF Serves, KeysAgree, Settings
    <3>3. HasRead(set) /\ \A w \in Windows : HasContext(set, w)
      BY <2>2 DEF Serves, HasRead, HasContext, SameStore
    <3> QED BY <3>1, <3>2, <3>3 DEF Serves
  <2>8. /\ IsState(v) /\ Serves(v) /\ SameStore(set, v) /\ v.settings.source = set.settings.source
        /\ \A u \in Users : v.using[u].open = set.using[u].open
        /\ \A w \in Windows : IF w \in us THEN v.using[w].source \in {n, Default}
                              ELSE v.using[w].source = set.using[w].source
    <3>1. n \in Names /\ us \in SUBSET Users /\ \A u \in us : ProcessOf(u) = p
      BY <2>3
    <3>2. Followed(set, Follow(set, p, us, n), us, n)
      BY <2>2, <2>5, <2>7, <3>1, FollowUse
    <3> QED BY <3>2 DEF v, Followed
  <2>9. /\ IsState(t) /\ SameStore(v, t) /\ t.settings = v.settings /\ t.using = v.using
        /\ t.pending = v.pending \cup elsewhere /\ t.undefined = v.undefined
    BY <2>1, <2>8 DEF IsState, Fields, SameStore
  <2>10. Serves(t)
    <3>1. UseTyped(t)
      BY <2>8, <2>9, <2>12 DEF Serves, UseTyped
    <3>2. KeysAgree(t)
      BY <2>8, <2>9 DEF Serves, KeysAgree
    <3>3. HasRead(t) /\ \A w \in Windows : HasContext(t, w)
      BY <2>8, <2>9 DEF Serves, HasRead, HasContext, SameStore
    <3> QED BY <3>1, <3>2, <3>3 DEF Serves
  <2>11. ASSUME NEW w \in Windows, t.using[w].open = 1, <<w, "source">> \notin t.pending
         PROVE  t.using[w].source \in {t.settings.source, Default}
    <3>1. t.settings.source = n
      BY <2>6, <2>8, <2>9 DEF Settings
    <3>2. s.using[w].open = 1 /\ w \notin OpenElsewhere(s, p)
      BY <2>2, <2>4, <2>8, <2>9, <2>11, <2>13
    <3>3. CASE w \in us
      BY <2>8, <2>9, <3>1, <3>3
    <3>4. CASE w \notin us /\ w \in but
      BY <2>2, <2>8, <2>9, <3>1, <3>4
    <3> QED BY <2>4, <3>2, <3>3, <3>4
  <2> QED BY <2>2, <2>8, <2>9, <2>10, <2>11 DEF Use, SourceAgrees, SameStore, t
<1> QED BY <1>1, <1>2

(* A window makes its choice: the settings and the other windows follow.    *)
LEMMA SetSourceNameUse ==
  ASSUME NEW s, IsState(s), Store(s), Use(s), NEW w \in Windows, NEW n \in Names,
         s.using[w].open = 1
  PROVE  LET t == SetSourceName(s, w, n)
         IN  IsState(t) /\ Store(t) /\ Use(t)
<1> DEFINE v == GetContext(s, "app", {w}, n)
           t == SetSourceName(s, w, n)
<1>1. CASE s.using[w].source = n
  BY <1>1 DEF SetSourceName
<1>2. CASE s.using[w].source # n
  <2>1. t = WriteSource(v, "app", v.using[w].source, {w})
    BY <1>2 DEF SetSourceName
  <2>2. /\ "app" \in Processes /\ {w} \in SUBSET Users /\ \A u \in {w} : ProcessOf(u) = "app"
        /\ \A x \in Windows : x \in Users
    BY NamesAssumption DEF Processes, Users, ProcessOf
  <2> HIDE DEF v, t
  <2>3. PICK name \in {n, Default} : Got(s, v, "app", {w}, name)
    BY <2>2, GetContextUse DEF v, Use, Serves
  <2>4. s.loader["app"].dirty = 0
    BY DEF Use, Serves, HasRead
  <2>5. Serves(v)
    <3>1. HasRead(v)
      BY <2>3, <2>4 DEF Got, HasRead, SameStore
    <3>2. \A x \in Windows : HasContext(v, x)
      BY <2>2, <2>3, <2>4 DEF Got, HasContext, Use, Serves
    <3> QED BY <2>3, <3>1, <3>2 DEF Got, Serves
  <2>6. \A x \in Windows : IF x \in {w} THEN v.using[x].source \in {name, Default}
                           ELSE SourceAgrees(v, x)
    BY <2>2, <2>3 DEF Got, SourceAgrees, Use
  <2>7. IsState(v) /\ Store(v) /\ v.using[w].source = name /\ name \in Names
    BY <2>3, SameStoreHolds, NamesAssumption DEF Got
  <2>8. IsState(t) /\ SameStore(v, t) /\ Use(t)
    BY <2>1, <2>2, <2>5, <2>6, <2>7, WriteUse
  <2> QED BY <2>7, <2>8, SameStoreHolds DEF t
<1> QED BY <1>1, <1>2

(* gdict_window_store_state: another file that is no source, for a reading  *)
(* to end at.                                                               *)
LEMMA JunkStore ==
  ASSUME NEW s, NEW t, Store(s), t.files = s.files, t.junk \in {s.junk, 1}, t.loader = s.loader,
         t.saved = s.saved, t.disturbed = s.disturbed
  PROVE  Store(t)
<1>1. StoreTyped(t)
  BY DEF Store, StoreTyped
<1>2. ASSUME NEW p \in Processes \ t.disturbed PROVE Current(t, p) /\ SavedIsThere(t, p)
  BY <1>2 DEF Store, Current, Reading, TableFits, SavedIsThere
<1> QED BY <1>1, <1>2 DEF Store

(* A process that ends forgets what it read and what it saved.              *)
LEMMA ForgetStore ==
  ASSUME NEW s, NEW t, Store(s), NEW p \in Processes,
         t.files = s.files, t.loader = [s.loader EXCEPT ![p] = InitLoader],
         t.saved = [s.saved EXCEPT ![p] = [n \in Names |-> None]],
         t.junk \in {s.junk, 1}, t.disturbed = s.disturbed \ {p}
  PROVE  Store(t)
<1>1. StoreTyped(s)
  BY DEF Store
<1>2. InitLoader \in Loader /\ Leads(InitLoader) /\ HasDefault(InitLoader) /\ InitLoader.dirty = 1
  BY NoneAssumption DEF InitLoader, Loader, Dirs, Directory, Known, Leads, HasDefault
<1>3. [n \in Names |-> None] \in Directory
  BY DEF Directory, Known
<1>4. t.loader[p] = InitLoader /\ \A q \in Processes : q # p => t.loader[q] = s.loader[q]
  BY <1>1 DEF StoreTyped
<1>5. /\ \A n \in Names : t.saved[p][n] = None
      /\ \A q \in Processes : q # p => t.saved[q] = s.saved[q]
  BY <1>1 DEF StoreTyped
<1>6. StoreTyped(t)
  BY <1>1, <1>2, <1>3 DEF StoreTyped
<1>7. \A q \in Processes : Leads(t.loader[q]) /\ HasDefault(t.loader[q])
  BY <1>2, <1>4 DEF Store
<1>8. \A q \in Processes \ t.disturbed : q # p => q \notin s.disturbed
  OBVIOUS
<1>9. ASSUME NEW q \in Processes \ t.disturbed PROVE Current(t, q) /\ SavedIsThere(t, q)
  <2>1. CASE q = p
    BY <1>2, <1>4, <1>5, <2>1 DEF Current, SavedIsThere
  <2>2. CASE q # p
    <3>1. Current(s, q) /\ SavedIsThere(s, q) /\ t.loader[q] = s.loader[q] /\ t.saved[q] = s.saved[q]
      BY <1>4, <1>5, <1>8, <1>9, <2>2 DEF Store
    <3> QED BY <3>1 DEF Current, Reading, TableFits, SavedIsThere
  <2> QED BY <2>1, <2>2
<1> QED BY <1>6, <1>7, <1>9 DEF Store

(* Nor is it told of anything any more.                                     *)
LEMMA GoneUse ==
  ASSUME NEW s, NEW t, Use(s), NEW gone,
         t.using = [x \in Users |-> IF x \in gone THEN Closed ELSE s.using[x]],
         t.pending = {x \in s.pending : x[1] \notin gone},
         t.settings = s.settings, t.undefined = s.undefined,
         \/ t.loader["app"] = s.loader["app"]
         \/ \A w \in Windows \ gone : s.using[w].open = 0
  PROVE  Use(t)
<1>1. UseTyped(s) /\ \A w \in Windows : w \in Users
  BY DEF Use, Serves, Users
<1>2. IsUser(Closed) /\ Closed.open = 0
  BY DEF IsUser, Closed
<1>3. UseTyped(t)
  <2>1. t.pending \subseteq Users \X Settings
    BY <1>1 DEF UseTyped
  <2> QED BY <1>1, <1>2, <2>1 DEF UseTyped
<1>4. ASSUME NEW w \in Windows, t.using[w].open = 1
      PROVE  /\ w \notin gone /\ t.using[w] = s.using[w]
             /\ \A k : <<w, k>> \notin t.pending => <<w, k>> \notin s.pending
  BY <1>1, <1>2, <1>4
<1>5. HasRead(t)
  BY <1>4 DEF Use, Serves, HasRead
<1>6. KeysAgree(t)
  BY <1>4 DEF Use, Serves, KeysAgree
<1>7. \A w \in Windows : SourceAgrees(t, w) /\ HasContext(t, w)
  BY <1>4 DEF Use, Serves, SourceAgrees, HasContext
<1> QED BY <1>3, <1>5, <1>6, <1>7 DEF Use, Serves

LEMMA UpdatedUse ==
  ASSUME NEW s, IsState(s), Store(s), Use(s), NEW p \in Processes, NEW scan \in Scans(s)
  PROVE  LET t == Updated(s, p, scan)
         IN  /\ IsState(t) /\ Store(t) /\ Use(t)
             /\ t.loader[p].dirty = 0 /\ t.using = s.using
<1> DEFINE t == Updated(s, p, scan)
<1>1. CASE s.loader[p].dirty = 1
  <2>1. t = UpdateSources(s, p, scan)
    BY <1>1 DEF Updated
  <2>2. scan \in [Dirs -> Directory] /\ Reading(s, scan)
    BY ScansAre DEF Store
  <2> HIDE DEF t
  <2>3. /\ IsState(t) /\ Store(t) /\ t.loader[p].dirty = 0
        /\ \A f \in Fields \ {"loader"} : t[f] = s[f]
        /\ \A q \in Processes : t.loader[q].dirty = 0 \/ t.loader[q] = s.loader[q]
    BY <2>1, <2>2, StoreIsNearly, UpdateStore
  <2>4. SameUse(s, t)
    BY <2>3 DEF SameUse, Fields
  <2>5. UseTyped(t) /\ KeysAgree(t) /\ \A w \in Windows : SourceAgrees(t, w) /\ HasContext(t, w)
    BY <2>4 DEF SameUse, Use, Serves, UseTyped, KeysAgree, SourceAgrees, HasContext
  <2>6. HasRead(t)
    BY <2>3, <2>4 DEF SameUse, Use, Serves, HasRead, Processes
  <2> QED BY <2>3, <2>4, <2>5, <2>6 DEF SameUse, Use, Serves, t
<1>2. CASE s.loader[p].dirty # 1
  <2>1. s.loader[p].dirty = 0
    BY <1>2 DEF Store, StoreTyped, Loader
  <2> QED BY <1>2, <2>1 DEF Updated
<1> QED BY <1>1, <1>2

(* What is bound to the settings is set from them, the source last.         *)
LEMMA OpenedUse ==
  ASSUME NEW s, IsState(s), Store(s), Use(s), NEW u \in Users,
         s.loader[ProcessOf(u)].dirty = 0
  PROVE  LET t == Opened(s, u)
         IN  IsState(t) /\ Store(t) /\ Use(t)
<1> DEFINE new == [open |-> 1, source |-> None, keys |-> [k \in Keys |-> s.settings[k]], ctx |-> None]
           v == [s EXCEPT !.using[u] = new]
           n == s.settings.source
           p == ProcessOf(u)
           t == Opened(s, u)
<1>1. t = GetContext(v, p, {u}, n)
  BY DEF Opened
<1>2. /\ IsUser(new) /\ \A k \in Keys : new.keys[k] = s.settings[k]
      /\ new.open = 1
  BY DEF IsUser
<1>3. /\ UseTyped(s) /\ KeysAgree(s) /\ HasRead(s) /\ n \in Names
      /\ \A w \in Windows : SourceAgrees(s, w) /\ HasContext(s, w)
  BY DEF Use, Serves, UseTyped
<1>4. /\ p \in Processes /\ \A w \in Windows : w \in Users /\ ProcessOf(w) = "app"
  BY NamesAssumption DEF ProcessOf, Processes, Users
<1> HIDE DEF new
<1>5. /\ IsState(v) /\ SameStore(s, v) /\ v.using = [s.using EXCEPT ![u] = new]
      /\ v.settings = s.settings /\ v.pending = s.pending /\ v.undefined = s.undefined
  BY DEF IsState, Fields, SameStore
<1> HIDE DEF v, t, p, n
<1>6. \A x \in Users : v.using[x] = IF x = u THEN new ELSE s.using[x]
  BY <1>3, <1>5 DEF UseTyped
<1>7. UseTyped(v) /\ KeysAgree(v) /\ Store(v)
  <2>1. UseTyped(v)
    BY <1>2, <1>3, <1>5, <1>6 DEF UseTyped
  <2>2. KeysAgree(v)
    BY <1>2, <1>3, <1>4, <1>5, <1>6 DEF KeysAgree
  <2> QED BY <2>1, <2>2, <1>5, SameStoreHolds
<1>8. {u} \in SUBSET Users /\ \A x \in {u} : ProcessOf(x) = p
  BY DEF p
<1>9. PICK name \in {n, Default} : Got(v, t, p, {u}, name)
  BY <1>1, <1>3, <1>4, <1>5, <1>7, <1>8, GetContextUse
<1>10. /\ \A x \in Users : t.using[x].open = v.using[x].open
       /\ \A x \in Users : x # u => t.using[x].source = v.using[x].source
                                   /\ t.using[x].ctx = v.using[x].ctx
       /\ \A x \in Users : <<x, "source">> \in t.pending <=> <<x, "source">> \in v.pending
       /\ t.using[u].source = name /\ t.settings.source = n
       /\ t.undefined # 1 => s.undefined # 1
       /\ p = "app" /\ v.loader["app"].dirty = 0 /\ t.undefined # 1 => t.using[u].ctx # None
       /\ t.loader = s.loader
  BY <1>5, <1>9 DEF Got, SameStore, n
<1>11. u \in Windows => p = "app"
  BY <1>4 DEF p
<1>12. s.loader[p].dirty = 0 /\ v.loader = s.loader
  BY <1>5 DEF p, SameStore
<1>13. \A w \in Windows : SourceAgrees(t, w) /\ HasContext(t, w)
  <2> SUFFICES ASSUME NEW w \in Windows PROVE SourceAgrees(t, w) /\ HasContext(t, w)
    OBVIOUS
  <2>1. CASE w = u
    BY <1>4, <1>10, <1>11, <1>12, <2>1 DEF SourceAgrees, HasContext
  <2>2. CASE w # u
    BY <1>3, <1>4, <1>5, <1>6, <1>10, <2>2 DEF SourceAgrees, HasContext, n
  <2> QED BY <2>1, <2>2
<1>14. HasRead(t)
  BY <1>3, <1>4, <1>6, <1>10, <1>11, <1>12 DEF HasRead
<1>15. IsState(t) /\ Store(t) /\ UseTyped(t) /\ KeysAgree(t)
  BY <1>7, <1>9, SameStoreHolds DEF Got
<1> QED BY <1>13, <1>14, <1>15 DEF t, Use, Serves

-----------------------------------------------------------------------------
(* One lemma per handler that does more than a call: what it makes of a     *)
(* state, and then what the action that runs it does.                       *)

Good(s) == IsState(s) /\ Store(s) /\ Use(s)

LEMMA GoodHolds ==
  ASSUME NEW s, Good(s), NEW t, IsState(t), SameStore(s, t),
         t.settings = s.settings, t.using = s.using, t.pending = s.pending,
         t.undefined = s.undefined \/ t.undefined = 1
  PROVE  Good(t)
BY QuietHolds DEF Good

LEMMA AsksHolds ==
  ASSUME NEW s, Good(s), Asks(s)
  PROVE  Good(Now')
<1> DEFINE t == [s EXCEPT !.asked = @ + 1]
<1>1. IsState(t) /\ SameStore(s, t) /\ SameUse(s, t)
  BY DEF Good, IsState, Fields, SameStore, SameUse
<1>2. Becomes(t)
  BY DEF Asks
<1> HIDE DEF t
<1>3. Good(t)
  BY <1>1, GoodHolds DEF SameUse
<1> QED BY <1>1, <1>2, <1>3, BecomesIs

LEMMA BecomesHolds ==
  ASSUME NEW s, Good(s), Becomes(s)
  PROVE  Good(Now')
BY BecomesIs DEF Good

(* The directories are read again, and the dialog ends.                     *)
LEMMA ViewHolds ==
  ASSUME NEW s, NEW t, Good(s), IsState(t), SameUse(s, t), NEW u \in Users, Nearly(t, ProcessOf(u)),
         \A p \in Processes : t.loader[p].dirty = s.loader[p].dirty, NEW scan \in Scans(t)
  PROVE  Good(UpdateView(t, u, scan)) /\ Good(Done(UpdateView(t, u, scan), u))
<1> DEFINE v == UpdateView(t, u, scan)
<1>1. /\ IsState(v) /\ Store(v) /\ SameUse(t, v)
      /\ \A p \in Processes : v.loader[p].dirty = 0 \/ v.loader[p] = t.loader[p]
  BY ViewStore
<1> HIDE DEF v
<1>2. SameUse(s, v)
  BY <1>1 DEF SameUse
<1>3. UseTyped(v) /\ KeysAgree(v) /\ \A w \in Windows : SourceAgrees(v, w) /\ HasContext(v, w)
  BY <1>2 DEF Good, SameUse, Use, Serves, UseTyped, KeysAgree, SourceAgrees, HasContext
<1>4. HasRead(v)
  BY <1>1, <1>2 DEF Good, SameUse, Use, Serves, HasRead, Processes
<1>5. Good(v)
  BY <1>1, <1>3, <1>4 DEF Good, Use, Serves
<1>6. IsState(Done(v, u)) /\ SameStore(v, Done(v, u)) /\ SameUse(v, Done(v, u))
  BY <1>1, DoneKeeps
<1>7. Good(Done(v, u))
  BY <1>5, <1>6, GoodHolds DEF SameUse
<1> QED BY <1>5, <1>7 DEF v

LEMMA GoodIsNearly ==
  ASSUME NEW s, Good(s), NEW u \in Users
  PROVE  Nearly(s, ProcessOf(u)) /\ ProcessOf(u) \in Processes
<1>1. ProcessOf(u) \in Processes
  BY DEF ProcessOf, Processes
<1> QED BY <1>1, StoreIsNearly DEF Good

LEMMA StoresStateHolds ==
  ASSUME NEW s, Good(s), NEW t \in StoresState(s)
  PROVE  /\ Good(t) /\ t.junk \in {s.junk, 1}
         /\ \A f \in Fields \ {"junk"} : t[f] = s[f]
<1>1. t = s \/ t = [s EXCEPT !.junk = 1]
  BY DEF StoresState
<1>2. IsState(t) /\ t.junk \in {s.junk, 1} /\ \A f \in Fields \ {"junk"} : t[f] = s[f]
  BY <1>1 DEF Good, IsState, Fields
<1>3. Store(t)
  BY <1>2, JunkStore DEF Good, Fields
<1>4. Use(t)
  <2>1. SameUse(s, t) /\ t.loader = s.loader
    BY <1>2 DEF SameUse, Fields
  <2> QED BY <2>1 DEF SameUse, Good, Use, Serves, UseTyped, KeysAgree, SourceAgrees, HasContext, HasRead
<1> QED BY <1>2, <1>3, <1>4 DEF Good

LEMMA OpenWindowHolds ==
  ASSUME Good(Now), NEW u \in Users, OpenWindow(u)
  PROVE  Good(Now')
<1>1. PICK s \in StoresState(Now) : \E scan \in Scans(s) : Becomes(Opened(Updated(s, ProcessOf(u), scan), u))
  BY DEF OpenWindow, StoresState
<1>2. Good(s)
  BY StoresStateHolds
<1>3. PICK scan \in Scans(s) : Becomes(Opened(Updated(s, ProcessOf(u), scan), u))
  BY <1>1
<1> DEFINE v == Updated(s, ProcessOf(u), scan)
<1>4. Good(v) /\ v.loader[ProcessOf(u)].dirty = 0
  BY <1>2, GoodIsNearly, UpdatedUse DEF Good
<1> HIDE DEF v
<1>5. Good(Opened(v, u))
  BY <1>4, OpenedUse DEF Good
<1> QED BY <1>3, <1>5, BecomesHolds DEF v

LEMMA CloseWindowHolds ==
  ASSUME Good(Now), NEW w \in Windows, CloseWindow(w)
  PROVE  Good(Now')
<1> DEFINE last == \A x \in Windows \ {w} : using[x].open = 0
           none == [n \in Names |-> None]
           closed(s) == [s EXCEPT
              !.using[w] = Closed, !.prefs[w] = None, !.pending = {x \in @ : x[1] # w},
              !.loader["app"] = IF last THEN InitLoader ELSE @,
              !.saved["app"] = IF last THEN none ELSE @,
              !.disturbed = IF last THEN @ \ {"app"} ELSE @]
<1>1. PICK s \in StoresState(Now) : Asks(closed(s))
  BY DEF CloseWindow
<1> DEFINE t == closed(s)
<1>2. /\ Good(s) /\ s.junk \in {Now.junk, 1} /\ s.using = using
  BY StoresStateHolds DEF Fields, Now
<1>3. /\ IsState(t) /\ t.files = s.files /\ t.junk = s.junk /\ t.settings = s.settings
      /\ t.undefined = s.undefined /\ t.using = [s.using EXCEPT ![w] = Closed]
      /\ t.pending = {x \in s.pending : x[1] # w}
      /\ t.loader = [s.loader EXCEPT !["app"] = IF last THEN InitLoader ELSE @]
      /\ t.saved = [s.saved EXCEPT !["app"] = IF last THEN none ELSE @]
      /\ t.disturbed = IF last THEN s.disturbed \ {"app"} ELSE s.disturbed
  <2> HIDE DEF last, none
  <2> QED BY <1>2 DEF Good, IsState, Fields
<1>4. "app" \in Processes /\ StoreTyped(s) /\ UseTyped(s)
  BY <1>2 DEF Processes, Good, Store, Use, Serves
<1> HIDE DEF t
<1>5. Store(t)
  <2>1. CASE last
    <3>1. t.loader = [s.loader EXCEPT !["app"] = InitLoader]
          /\ t.saved = [s.saved EXCEPT !["app"] = [n \in Names |-> None]]
          /\ t.disturbed = s.disturbed \ {"app"}
      BY <1>3, <2>1
    <3> HIDE DEF last
    <3> QED BY <1>2, <1>3, <1>4, <3>1, ForgetStore DEF Good
  <2>2. CASE ~last
    <3>1. SameStore(s, t)
      <4> HIDE DEF last
      <4> QED BY <1>3, <1>4, <2>2 DEF SameStore, StoreTyped
    <3> QED BY <1>2, <3>1, SameStoreHolds DEF Good
  <2> QED BY <2>1, <2>2
<1>6. Use(t)
  <2>1. t.using = [x \in Users |-> IF x \in {w} THEN Closed ELSE s.using[x]]
    BY <1>3, <1>4 DEF UseTyped, Users
  <2>2. t.pending = {x \in s.pending : x[1] \notin {w}}
    BY <1>3
  <2>3. \/ t.loader["app"] = s.loader["app"]
        \/ \A x \in Windows \ {w} : s.using[x].open = 0
    BY <1>2, <1>3, <1>4 DEF StoreTyped
  <2>4. Use(s) /\ t.settings = s.settings /\ t.undefined = s.undefined
    BY <1>2, <1>3 DEF Good
  <2> HIDE DEF last
  <2> QED BY <2>1, <2>2, <2>3, <2>4, GoneUse
<1> QED BY <1>1, <1>3, <1>5, <1>6, AsksHolds DEF Good, t

LEMMA ActivateSourceHolds ==
  ASSUME Good(Now), NEW w \in Windows, NEW n \in Names, ActivateSource(w, n)
  PROVE  Good(Now')
<1> DEFINE source == GetSource(Now, "app", n)
           stale == [Now EXCEPT !.undefined = 1]
<1>1. Asks(IF source = Stale THEN stale ELSE SetSourceName(Now, w, n)) /\ using[w].open = 1
  BY DEF ActivateSource
<1>2. IsState(stale) /\ SameStore(Now, stale) /\ stale.undefined = 1 /\ stale.settings = Now.settings
      /\ stale.using = Now.using /\ stale.pending = Now.pending
  BY DEF IsState, Fields, Now, SameStore
<1>3. Now.using = using
  BY DEF Now
<1> HIDE DEF source, stale
<1>4. Good(stale)
  BY <1>2, GoodHolds
<1>5. Good(SetSourceName(Now, w, n))
  BY <1>1, <1>3, SetSourceNameUse DEF Good
<1> QED BY <1>1, <1>4, <1>5, AsksHolds

LEMMA ActivateValueHolds ==
  ASSUME Good(Now), NEW w \in Windows, NEW k \in Keys, NEW v, ActivateValue(w, k, v)
  PROVE  Good(Now')
<1> DEFINE content == [x \in {k} |-> v]
           t == SetKeys(Now, "app", {w}, content)
<1>1. Asks(t)
  BY DEF ActivateValue, SetKey
<1>2. "app" \in Processes /\ {w} \in SUBSET Users /\ \A u \in {w} : ProcessOf(u) = "app"
  BY NamesAssumption DEF Processes, Users, ProcessOf
<1>3. DOMAIN content \subseteq Keys /\ \A x \in Windows : x \in Users
  BY DEF Users
<1> HIDE DEF content
<1>4. IsState(t) /\ UseTyped(t) /\ KeysAgree(t) /\ SameSources(Now, t)
  BY <1>2, <1>3, SetKeysUse DEF Good, Use, Serves
<1> HIDE DEF t
<1>5. HasRead(t) /\ \A x \in Windows : SourceAgrees(t, x) /\ HasContext(t, x)
  BY <1>3, <1>4 DEF Good, Use, Serves, SameSources, SameStore, HasRead, SourceAgrees, HasContext
<1>6. Store(t)
  BY <1>4, SameStoreHolds DEF Good, SameSources
<1> QED BY <1>1, <1>4, <1>5, <1>6, AsksHolds DEF Good, Use, Serves

LEMMA DeliverHolds ==
  ASSUME Good(Now), Deliver
  PROVE  Good(Now')
<1>1. PICK x \in pending :
        Becomes(IF x[2] = "source"
                THEN Follow([Now EXCEPT !.pending = @ \ {x}], ProcessOf(x[1]), {x[1]}, settings.source)
                ELSE [[Now EXCEPT !.pending = @ \ {x}] EXCEPT !.using[x[1]].keys[x[2]] = settings[x[2]]])
  BY DEF Deliver
<1> DEFINE told == [Now EXCEPT !.pending = @ \ {x}]
           u == x[1]
           k == x[2]
           n == settings.source
           heard == [told EXCEPT !.using[u].keys[k] = settings[k]]
           t == Follow(told, ProcessOf(u), {u}, n)
<1>2. Becomes(IF k = "source" THEN t ELSE heard)
  BY <1>1
<1>3. /\ Now.settings = settings /\ Now.using = using /\ Now.pending = pending
  BY DEF Now
<1>4. /\ UseTyped(Now) /\ KeysAgree(Now) /\ HasRead(Now)
      /\ \A w \in Windows : SourceAgrees(Now, w) /\ HasContext(Now, w)
  BY DEF Good, Use, Serves
<1>5. u \in Users /\ k \in Settings /\ x = <<u, k>> /\ n \in Names
  BY <1>3, <1>4 DEF UseTyped
<1>6. /\ IsState(told) /\ SameStore(Now, told) /\ told.pending = pending \ {x}
      /\ told.settings = settings /\ told.using = using /\ told.undefined = Now.undefined
  BY DEF IsState, Fields, Now, SameStore
<1>7. \A w \in Windows : w \in Users
  BY DEF Users
<1>8. ASSUME NEW w \in Windows, NEW j, <<w, j>> \notin told.pending, w # u \/ j # k
      PROVE  <<w, j>> \notin pending
  BY <1>5, <1>6, <1>8
<1> HIDE DEF told, u, k, n
<1>9. Store(told) /\ UseTyped(told)
  <2>1. UseTyped(told)
    BY <1>3, <1>4, <1>6 DEF UseTyped
  <2> QED BY <2>1, <1>6, SameStoreHolds DEF Good
<1>10. HasRead(told) /\ \A w \in Windows : HasContext(told, w)
  BY <1>3, <1>4, <1>6 DEF HasRead, HasContext, SameStore
<1>11. CASE k = "source"
  <2>1. KeysAgree(told)
    BY <1>3, <1>4, <1>6, <1>8, <1>11, NamesAssumption DEF KeysAgree
  <2>2. Serves(told)
    BY <1>9, <1>10, <2>1 DEF Serves
  <2>3. ProcessOf(u) \in Processes /\ {u} \in SUBSET Users /\ \A y \in {u} : ProcessOf(y) = ProcessOf(u)
    BY <1>5 DEF ProcessOf, Processes
  <2> HIDE DEF t
  <2>4. Followed(told, t, {u}, n)
    BY <1>5, <1>6, <1>9, <2>2, <2>3, FollowUse DEF t
  <2>5. ASSUME NEW w \in Windows PROVE SourceAgrees(t, w)
    <3>1. CASE w = u
      BY <1>6, <2>4, <3>1 DEF Followed, SourceAgrees, n
    <3>2. CASE w # u
      BY <1>3, <1>4, <1>6, <1>7, <1>8, <2>4, <3>2 DEF Followed, SourceAgrees
    <3> QED BY <3>1, <3>2
  <2>6. Good(t)
    BY <1>9, <2>4, <2>5, SameStoreHolds DEF Followed, Good, Use
  <2> QED BY <1>2, <1>11, <2>6, BecomesHolds
<1>12. CASE k # "source"
  <2> DEFINE keys == [using[u].keys EXCEPT ![k] = settings[k]]
             r == [using[u] EXCEPT !.keys = keys]
  <2>1. heard = [told EXCEPT !.using = [using EXCEPT ![u] = r]]
    BY <1>6 DEF IsState, Fields
  <2>2. k \in Keys
    BY <1>5, <1>12 DEF Settings
  <2>3. IsUser(using[u])
    BY <1>3, <1>4, <1>5 DEF UseTyped
  <2>4. keys = [j \in Keys |-> IF j = k THEN settings[k] ELSE using[u].keys[j]]
    BY <2>2, <2>3 DEF IsUser
  <2> HIDE DEF keys
  <2>5. /\ IsUser(r) /\ r.open = using[u].open /\ r.source = using[u].source
        /\ r.ctx = using[u].ctx /\ r.keys = keys
    BY <2>3, <2>4 DEF IsUser
  <2> HIDE DEF r, heard
  <2>6. /\ IsState(heard) /\ SameStore(told, heard) /\ heard.using = [using EXCEPT ![u] = r]
        /\ heard.settings = settings /\ heard.pending = told.pending
        /\ heard.undefined = told.undefined
    BY <1>6, <2>1 DEF IsState, Fields, SameStore
  <2>7. \A y \in Users : heard.using[y] = IF y = u THEN r ELSE using[y]
    BY <1>3, <1>4, <2>6 DEF UseTyped
  <2>8. UseTyped(heard)
    BY <1>6, <1>9, <2>5, <2>6, <2>7 DEF UseTyped
  <2>9. ASSUME NEW w \in Windows, NEW j \in Keys, heard.using[w].open = 1, <<w, j>> \notin heard.pending
        PROVE  heard.using[w].keys[j] = heard.settings[j]
    <3>1. CASE w = u /\ j = k
      BY <1>7, <2>4, <2>5, <2>6, <2>7, <3>1
    <3>2. CASE w # u \/ j # k
      <4>1. <<w, j>> \notin pending
        BY <1>8, <2>6, <2>9, <3>2
      <4>2. using[w].open = 1 /\ heard.using[w].keys[j] = using[w].keys[j]
        BY <1>7, <2>4, <2>5, <2>7, <2>9, <3>2
      <4> QED BY <1>3, <1>4, <2>6, <4>1, <4>2 DEF KeysAgree
    <3> QED BY <3>1, <3>2
  <2>10. \A w \in Windows : /\ heard.using[w].open = using[w].open
                            /\ heard.using[w].source = using[w].source
                            /\ heard.using[w].ctx = using[w].ctx
    BY <1>7, <2>5, <2>7
  <2>11. HasRead(heard) /\ \A w \in Windows : HasContext(heard, w)
    BY <1>6, <1>10, <2>6, <2>10 DEF HasRead, HasContext, SameStore
  <2>12. ASSUME NEW w \in Windows PROVE SourceAgrees(heard, w)
    BY <1>3, <1>4, <1>8, <1>12, <2>6, <2>10 DEF SourceAgrees
  <2>13. Store(heard)
    BY <1>9, <2>6, SameStoreHolds
  <2>14. Good(heard)
    BY <2>6, <2>8, <2>9, <2>11, <2>12, <2>13 DEF Good, Use, Serves, KeysAgree
  <2> QED BY <1>2, <1>12, <2>14, BecomesHolds
<1> QED BY <1>11, <1>12

LEMMA ShowPreferencesHolds ==
  ASSUME Good(Now), NEW u \in Users, ShowPreferences(u)
  PROVE  Good(Now')
<1> DEFINE shown == [rows |-> {}, active |-> settings.source, doing |-> "nothing", name |-> None]
           s == [Now EXCEPT !.prefs[u] = shown]
<1>1. PICK scan \in Scans(Now) : Asks(UpdateView(s, u, scan))
  BY DEF ShowPreferences
<1> HIDE DEF shown
<1>2. IsState(s) /\ SameStore(Now, s) /\ SameUse(Now, s)
  BY DEF IsState, Fields, Now, SameStore, SameUse
<1> HIDE DEF s
<1>3. Good(s) /\ SameUse(s, s)
  BY <1>2, GoodHolds DEF SameUse
<1>4. scan \in Scans(s)
  BY <1>2 DEF Scans, SameStore
<1>5. Good(UpdateView(s, u, scan))
  BY <1>3, <1>4, GoodIsNearly, ViewHolds DEF Good
<1> QED BY <1>1, <1>5, AsksHolds

LEMMA ToggleSourceHolds ==
  ASSUME Good(Now), NEW u \in Users, NEW n \in Names, ToggleSource(u, n)
  PROVE  Good(Now')
<1> DEFINE s == [Now EXCEPT !.prefs[u].active = n]
           t == WriteSource(s, ProcessOf(u), n, {})
<1>1. PICK scan \in Scans(t) : Asks(UpdateView(t, u, scan))
  BY DEF ToggleSource
<1>2. IsState(s) /\ SameStore(Now, s) /\ SameUse(Now, s)
  BY DEF IsState, Fields, Now, SameStore, SameUse
<1> HIDE DEF s, t
<1>3. Good(s)
  BY <1>2, GoodHolds DEF SameUse
<1>4. IsState(t) /\ SameStore(s, t) /\ Use(t)
  BY <1>3, GoodIsNearly, WriteUse DEF Good, Use, t
<1>5. Good(t) /\ SameUse(t, t)
  BY <1>3, <1>4, SameStoreHolds DEF Good, SameUse
<1>6. Good(UpdateView(t, u, scan))
  BY <1>5, GoodIsNearly, ViewHolds DEF Good
<1> QED BY <1>1, <1>6, AsksHolds

LEMMA BeginHolds ==
  ASSUME Good(Now), NEW u, NEW doing, NEW n, Begin(u, doing, n)
  PROVE  Good(Now')
<1> DEFINE s == [Now EXCEPT !.prefs[u].doing = doing]
           t == [s EXCEPT !.prefs[u].name = n]
<1>1. Asks([Now EXCEPT !.prefs[u].doing = doing, !.prefs[u].name = n])
  BY DEF Begin
<1>2. IsState(s) /\ SameStore(Now, s) /\ SameUse(Now, s)
  BY DEF IsState, Fields, Now, SameStore, SameUse
<1>3. [Now EXCEPT !.prefs[u].doing = doing, !.prefs[u].name = n] = t
  BY DEF IsState, Fields, Now
<1> HIDE DEF s
<1>4. IsState(t) /\ SameStore(s, t) /\ SameUse(s, t)
  BY <1>2 DEF IsState, Fields, SameStore, SameUse
<1> HIDE DEF t
<1>5. Good(s)
  BY <1>2, GoodHolds DEF SameUse
<1>6. Good(t)
  BY <1>4, <1>5, GoodHolds DEF SameUse
<1> QED BY <1>1, <1>3, <1>6, AsksHolds

(* A source is written, and the preferences read the store again.           *)
LEMMA WriteHolds ==
  ASSUME Good(Now), NEW u \in Users, NEW n, NEW content \in Contents,
         NEW scan \in Scans(WriteFile(Now, ProcessOf(u), n, content)),
         Becomes(Done(UpdateView(WriteFile(Now, ProcessOf(u), n, content), u, scan), u))
  PROVE  Good(Now')
<1> DEFINE t == WriteFile(Now, ProcessOf(u), n, content)
<1>1. IsState(t) /\ Nearly(t, ProcessOf(u)) /\ SameUse(Now, t) /\ t.loader = Now.loader
  BY GoodIsNearly, WriteNearly DEF Good
<1> HIDE DEF t
<1>2. Good(Done(UpdateView(t, u, scan), u))
  BY <1>1, ViewHolds DEF t
<1> QED BY <1>2, BecomesHolds DEF t

LEMMA OnlyViewHolds ==
  ASSUME Good(Now), NEW u \in Users, NEW t, Good(t), NEW scan \in Scans(t),
         Becomes(Done(UpdateView(t, u, scan), u))
  PROVE  Good(Now')
<1>1. SameUse(t, t)
  BY DEF SameUse
<1>2. Good(Done(UpdateView(t, u, scan), u))
  BY <1>1, GoodIsNearly, ViewHolds DEF Good
<1> QED BY <1>2, BecomesHolds

LEMMA AddSourceHolds ==
  ASSUME Good(Now), NEW u \in Users, AddSource(u)
  PROVE  Good(Now')
<1>1. PICK n \in Names \ {Default}, content \in Contents, ok \in 0..1 :
        \E scan \in Scans(IF ok = 1 THEN WriteFile(Now, ProcessOf(u), n, content) ELSE Now) :
          Becomes(Done(UpdateView(IF ok = 1 THEN WriteFile(Now, ProcessOf(u), n, content) ELSE Now,
                                  u, scan), u))
  BY DEF AddSource
<1>2. CASE ok = 1
  BY <1>1, <1>2, WriteHolds
<1>3. CASE ok # 1
  BY <1>1, <1>3, OnlyViewHolds
<1> QED BY <1>2, <1>3

LEMMA SaveSourceHolds ==
  ASSUME Good(Now), NEW u \in Users, SaveSource(u)
  PROVE  Good(Now')
<1> DEFINE p == ProcessOf(u)
           n == prefs[u].name
           source == GetSource(Now, p, n)
           stale == [Now EXCEPT !.undefined = 1]
           t(content, ok) == IF source = None \/ ok = 0 THEN Now
                             ELSE IF source = Stale THEN stale ELSE WriteFile(Now, p, n, content)
<1>1. PICK content \in Contents, ok \in 0..1 :
        \E scan \in Scans(t(content, ok)) : Becomes(Done(UpdateView(t(content, ok), u, scan), u))
  BY DEF SaveSource
<1>2. Good(stale)
  <2>1. IsState(stale) /\ SameStore(Now, stale) /\ stale.undefined = 1 /\ stale.settings = Now.settings
        /\ stale.using = Now.using /\ stale.pending = Now.pending
    BY DEF IsState, Fields, Now, SameStore
  <2> HIDE DEF stale
  <2> QED BY <2>1, GoodHolds
<1> DEFINE s == t(content, ok)
<1>3. s = Now \/ s = stale \/ s = WriteFile(Now, p, n, content)
  OBVIOUS
<1>4. PICK scan \in Scans(s) : Becomes(Done(UpdateView(s, u, scan), u))
  BY <1>1
<1> HIDE DEF s, stale, p, n
<1>5. CASE s = WriteFile(Now, p, n, content)
  BY <1>4, <1>5, WriteHolds DEF p
<1>6. CASE s = Now \/ s = stale
  BY <1>2, <1>4, <1>6, OnlyViewHolds
<1> QED BY <1>3, <1>5, <1>6

LEMMA RemoveClickedHolds ==
  ASSUME Good(Now), NEW u \in Users, RemoveClicked(u)
  PROVE  Good(Now')
<1> DEFINE p == ProcessOf(u)
           t == Removed(Now, p, prefs[u].name)
<1>1. PICK scan \in Scans(t) : Becomes(Done(UpdateView(t, u, scan), u))
  BY DEF RemoveClicked, Removed
<1> HIDE DEF t
<1>2. t = Removed(Now, p, prefs[u].name)
  BY DEF t
<1>3. p \in Processes /\ IsState(Now) /\ Store(Now)
  BY GoodIsNearly DEF Good
<1>4. /\ IsState(t) /\ Nearly(t, p) /\ SameUse(Now, t)
      /\ \A q \in Processes : t.loader[q].dirty = Now.loader[q].dirty
  BY <1>2, <1>3, RemoveNearly
<1>5. Good(Done(UpdateView(t, u, scan), u))
  BY <1>4, ViewHolds
<1> QED BY <1>1, <1>5, BecomesHolds

LEMMA DiesSavingHolds ==
  ASSUME Good(Now), NEW u \in Users, DiesSaving(u)
  PROVE  Good(Now')
<1> DEFINE p == ProcessOf(u)
           gone == {x \in Users : ProcessOf(x) = p}
           none == [n \in Names |-> None]
           t == [Now EXCEPT
                   !.junk = 1, !.loader = [loader EXCEPT ![p] = InitLoader],
                   !.using = [x \in Users |-> IF x \in gone THEN Closed ELSE using[x]],
                   !.prefs = [x \in Users |-> IF x \in gone THEN None ELSE prefs[x]],
                   !.pending = {x \in pending : x[1] \notin gone},
                   !.saved = [saved EXCEPT ![p] = none], !.disturbed = disturbed \ {p}]
<1>1. Becomes(t)
  BY DEF DiesSaving, Now
<1>2. /\ IsState(t) /\ t.files = files /\ t.junk = 1 /\ t.settings = settings
      /\ t.undefined = undefined /\ t.loader = [loader EXCEPT ![p] = InitLoader]
      /\ t.using = [x \in Users |-> IF x \in gone THEN Closed ELSE using[x]]
      /\ t.pending = {x \in pending : x[1] \notin gone}
      /\ t.saved = [saved EXCEPT ![p] = none] /\ t.disturbed = disturbed \ {p}
  BY DEF IsState, Fields, Now
<1>3. /\ Now.files = files /\ Now.settings = settings /\ Now.using = using
      /\ Now.pending = pending /\ Now.loader = loader /\ Now.saved = saved
      /\ Now.undefined = undefined /\ Now.disturbed = disturbed
  BY DEF Now
<1>4. p \in Processes /\ StoreTyped(Now)
  BY GoodIsNearly DEF Good, Store
<1>5. \A w \in Windows \ gone : p = "applet"
  BY NamesAssumption DEF ProcessOf, Users
<1> HIDE DEF t, gone, p
<1>6. Store(t)
  BY <1>2, <1>3, <1>4, ForgetStore DEF Good
<1>7. \/ t.loader["app"] = Now.loader["app"]
      \/ \A w \in Windows \ gone : Now.using[w].open = 0
  BY <1>2, <1>3, <1>4, <1>5 DEF StoreTyped, Processes
<1>8. Use(t)
  <2>1. /\ t.using = [x \in Users |-> IF x \in gone THEN Closed ELSE Now.using[x]]
        /\ t.pending = {x \in Now.pending : x[1] \notin gone}
        /\ t.settings = Now.settings /\ t.undefined = Now.undefined
    BY <1>2, <1>3
  <2> QED BY <1>7, <2>1, GoneUse DEF Good
<1> QED BY <1>1, <1>2, <1>6, <1>8, BecomesHolds DEF Good

LEMMA CancelDialogHolds ==
  ASSUME Good(Now), NEW u \in Users, CancelDialog(u)
  PROVE  Good(Now')
BY OnlyViewHolds DEF CancelDialog

-----------------------------------------------------------------------------
(* All handlers keep the store and its use in order.                        *)

LEMMA InitGood == Init => Good(Now)
<1> SUFFICES ASSUME Init PROVE Good(Now)
  OBVIOUS
<1>1. PICK c \in Contents : files = [sys |-> [n \in Names |-> IF n = Default THEN c ELSE None],
                                    user |-> [n \in Names |-> None]]
  BY DEF Init
<1>2. PICK v \in Values : settings = [k \in Keys \cup {"source"} |-> IF k = "source" THEN Default ELSE v]
  BY DEF Init
<1>3. /\ Now.files = files /\ Now.settings = settings /\ Now.using = using
      /\ Now.pending = pending /\ Now.loader = loader /\ Now.saved = saved
      /\ Now.undefined = undefined /\ Now.junk = junk /\ Now.disturbed = disturbed
  BY DEF Now
<1>4. c # None /\ Default \in Names
  BY NoneAssumption, NamesAssumption
<1>5. InitLoader \in Loader /\ Leads(InitLoader) /\ HasDefault(InitLoader) /\ InitLoader.dirty = 1
  BY NoneAssumption DEF InitLoader, Loader, Dirs, Directory, Known, Leads, HasDefault
<1>6. /\ files = [d \in Dirs |-> IF d = "sys" THEN [n \in Names |-> IF n = Default THEN c ELSE None]
                               ELSE [n \in Names |-> None]]
  BY <1>1 DEF Dirs
<1>7. files \in [Dirs -> Directory] /\ files["sys"][Default] = c
  BY <1>4, <1>6 DEF Dirs, Directory, Known
<1>8. Store(Now)
  <2>1. /\ loader = [p \in Processes |-> InitLoader] /\ junk \in {0, 1} /\ disturbed = {}
        /\ saved = [p \in Processes |-> [n \in Names |-> None]]
    BY DEF Init
  <2>2. StoreTyped(Now)
    BY <1>3, <1>5, <1>7, <2>1 DEF StoreTyped, Directory, Known
  <2>3. \A p \in Processes : Current(Now, p) /\ SavedIsThere(Now, p)
    BY <1>3, <1>5, <2>1 DEF Current, SavedIsThere
  <2> QED BY <1>3, <1>4, <1>5, <1>7, <2>1, <2>2, <2>3 DEF Store
<1>9. Use(Now)
  <2>1. using = [u \in Users |-> Closed] /\ pending = {}
    BY DEF Init
  <2>2. IsUser(Closed) /\ Closed.open = 0
    BY DEF IsUser, Closed
  <2>3. \A w \in Windows : using[w].open = 0
    BY <2>1, <2>2 DEF Users
  <2>4. settings = [k \in Settings |-> settings[k]] /\ settings.source = Default
    BY <1>2 DEF Settings
  <2>5. UseTyped(Now)
    BY <1>3, <1>4, <2>1, <2>2, <2>4 DEF UseTyped
  <2>6. KeysAgree(Now) /\ HasRead(Now) /\ \A w \in Windows : SourceAgrees(Now, w) /\ HasContext(Now, w)
    BY <1>3, <2>3 DEF KeysAgree, HasRead, SourceAgrees, HasContext
  <2> QED BY <2>5, <2>6 DEF Use, Serves
<1> QED BY <1>8, <1>9, NowIs DEF Good

LEMMA NextGood ==
  ASSUME Good(Now), [Next]_vars
  PROVE  Good(Now')
<1>1. ASSUME NEW u \in Users, Preferences(u) PROVE Good(Now')
  <2>1. CASE ShowPreferences(u)
    BY <2>1, ShowPreferencesHolds
  <2>2. CASE \E n \in Names : ToggleSource(u, n)
    BY <2>2, ToggleSourceHolds
  <2>3. CASE Begin(u, "add", None)
    BY <2>3, BeginHolds
  <2>4. CASE \E n \in prefs[u].rows, doing \in {"edit", "remove"} : Begin(u, doing, n)
    BY <2>4, BeginHolds
  <2>5. CASE AddSource(u)
    BY <2>5, AddSourceHolds
  <2>6. CASE SaveSource(u)
    BY <2>6, SaveSourceHolds
  <2>7. CASE RemoveClicked(u)
    BY <2>7, RemoveClickedHolds
  <2>8. CASE CancelDialog(u)
    BY <2>8, CancelDialogHolds
  <2>9. CASE DiesSaving(u)
    BY <2>9, DiesSavingHolds
  <2> QED BY <1>1, <2>1, <2>2, <2>3, <2>4, <2>5, <2>6, <2>7, <2>8, <2>9 DEF Preferences
<1>2. ASSUME NEW w \in Windows, Window(w) PROVE Good(Now')
  BY <1>2, CloseWindowHolds, ActivateSourceHolds, ActivateValueHolds DEF Window
<1>3. ASSUME UNCHANGED vars PROVE Good(Now')
  BY <1>3 DEF vars, Now
<1> QED BY <1>1, <1>2, <1>3, OpenWindowHolds, DeliverHolds DEF Next, Undefined

(* The inductive invariant: files, loaders, settings and windows fit.       *)
THEOREM StoreAndUse == Spec => []Good(Now)
<1>1. Good(Now) /\ [Next]_vars => Good(Now)'
  <2> SUFFICES ASSUME Good(Now), [Next]_vars PROVE Good(Now')
    OBVIOUS
  <2> QED BY NextGood
<1> QED BY <1>1, InitGood, PTL DEF Spec

LEMMA NowFields ==
  /\ Now.files = files /\ Now.settings = settings /\ Now.using = using
  /\ Now.pending = pending /\ Now.loader = loader /\ Now.saved = saved
  /\ Now.undefined = undefined /\ Now.disturbed = disturbed /\ Now.junk = junk
BY DEF Now

(* gdict_source_loader_update_sources keeps the table of names when it      *)
(* frees the sources: a name leads to one of them only when the reading was *)
(* cut short before its file, which is there, as long as only the loader's  *)
(* own process changes the sources.                                         *)
THEOREM NoDeadName == Spec => []NamesAreAlive
<1>1. Good(Now) => NamesAreAlive
  <2> SUFFICES ASSUME Good(Now), NEW p \in Processes \ disturbed, NEW n \in Names,
                      loader[p].table[n] = Stale
               PROVE  Missed(p, n)
    BY DEF NamesAreAlive
  <2>1. Current(Now, p) /\ loader[p] \in Loader
    BY NowFields DEF Good, Store, StoreTyped
  <2>2. loader[p].dirty = 0
    BY <2>1, NowFields, NoneAssumption DEF Current, InitLoader, Loader
  <2>3. TableFits(Now, p, n)
    BY <2>1, <2>2, NowFields DEF Current
  <2>4. loader[p].list \in [Dirs -> Directory]
    BY <2>1 DEF Loader
  <2>5. Named(loader[p].list, n) = None
    BY <2>3, <2>4, NamedIs, NowFields, NoneAssumption DEF TableFits, Dirs
  <2>6. loader[p].list["user"][n] = None
    BY <2>5, NoneAssumption DEF Named
  <2> QED BY <2>3, <2>5, <2>6, NowFields, NoneAssumption DEF TableFits, Missed
<1> QED BY <1>1, StoreAndUse, PTL

(* What save_source has written is in the file and is what the next context *)
(* is made from unless the reading was cut short before that file, whatever *)
(* was added, edited and removed before and whatever the other sources are. *)
THEOREM SavedIsServed == Spec => []EditIsUsed
<1>1. Good(Now) => EditIsUsed
  <2> SUFFICES ASSUME Good(Now), NEW p \in Processes \ disturbed, NEW n \in Names,
                      loader[p].dirty = 0, saved[p][n] # None
               PROVE  /\ files["user"][n] = saved[p][n]
                      /\ GetSource(Now, p, n) = saved[p][n] \/ Missed(p, n)
    BY DEF EditIsUsed
  <2>1. Current(Now, p) /\ SavedIsThere(Now, p)
    BY NowFields DEF Good, Store
  <2>2. files["user"][n] = saved[p][n]
    BY <2>1, NowFields DEF SavedIsThere
  <2>3. Reading(Now, loader[p].list) /\ TableFits(Now, p, n)
    BY <2>1, NowFields DEF Current
  <2>4. CASE loader[p].list["user"][n] = None
    BY <2>2, <2>3, <2>4, NowFields DEF Reading, Missed
  <2>5. CASE loader[p].list["user"][n] # None
    <3>1. loader[p].list["user"][n] = saved[p][n]
      BY <2>2, <2>3, <2>5, NowFields DEF Reading
    <3>2. Named(loader[p].list, n) = "user" /\ "user" \notin {None, Stale}
      BY <2>5, NoneAssumption DEF Named
    <3>3. loader[p].table[n] = "user"
      BY <2>3, <3>2, NowFields DEF TableFits
    <3> QED BY <2>2, <3>1, <3>2, <3>3, NowFields DEF GetSource
  <2> QED BY <2>4, <2>5
<1> QED BY <1>1, StoreAndUse, PTL

(* Every window uses the source, the database and the strategy the settings *)
(* name, or the default source, as soon as it has been told of them all.    *)
THEOREM WindowsUseTheSettings == Spec => []WindowsAgree
<1>1. Good(Now) => WindowsAgree
  <2> SUFFICES ASSUME Good(Now), NEW w \in Windows, undefined = 0, using[w].open = 1,
                      {x \in pending : x[1] = w} = {}
               PROVE  /\ using[w].source \in {settings.source, Default}
                      /\ \A k \in Keys : using[w].keys[k] = settings[k]
                      /\ using[w].ctx # None
    BY DEF WindowsAgree
  <2>1. \A k : <<w, k>> \notin pending
    <3>1. \A x \in pending : x[1] # w
      OBVIOUS
    <3>2. ASSUME NEW k, <<w, k>> \in pending PROVE FALSE
      <4>1. <<w, k>>[1] # w
        BY ONLY <3>1, <3>2
      <4> QED BY <4>1
    <3> QED BY <3>2
  <2>2. KeysAgree(Now) /\ SourceAgrees(Now, w) /\ HasContext(Now, w)
    BY DEF Good, Use, Serves
  <2>3. \A k \in Keys : using[w].keys[k] = settings[k]
    BY <2>1, <2>2, NowFields DEF KeysAgree
  <2>4. using[w].source \in {settings.source, Default}
    BY <2>1, <2>2, NowFields DEF SourceAgrees
  <2>5. using[w].ctx # None
    BY <2>2, NowFields DEF HasContext
  <2> QED BY <2>3, <2>4, <2>5
<1> QED BY <1>1, StoreAndUse, PTL

-----------------------------------------------------------------------------
(* Recursion over the numbers up to n.                                     *)
LEMMA LeastOf ==
  ASSUME NEW S \in SUBSET Nat, S # {}
  PROVE  \E c \in S : \A d \in S : c <= d
<1>1. PICK c \in S : \A d \in S : <<d, c>> \notin OpToRel(<, Nat)
  BY NatLessThanWellFounded, WFMin
<1>2. \A d \in S : ~(d < c)
  BY <1>1 DEF OpToRel
<1>3. \A d \in S : c <= d
  BY <1>2
<1> QED BY <1>3

LEMMA AllNumbers ==
  ASSUME NEW P \in SUBSET Nat, 0 \in P, \A n \in P : n + 1 \in P
  PROVE  P = Nat
<1> SUFFICES ASSUME Nat \ P # {}
             PROVE  FALSE
  OBVIOUS
<1>1. PICK c \in Nat \ P : \A d \in Nat \ P : c <= d
  BY LeastOf
<1>2. c # 0 /\ c - 1 \in Nat /\ ~(c <= c - 1)
  BY <1>1
<1>3. c - 1 \in P
  BY <1>1, <1>2
<1>4. (c - 1) + 1 = c
  OBVIOUS
<1> QED BY <1>1, <1>3, <1>4

(* r goes from v on by what G makes of a value and a number.               *)
Steps(V, v, G, n, r) ==
  /\ r \in [0..n -> V]
  /\ r[0] = v /\ \A k \in 1..n : r[k] = G[k][r[k - 1]]

LEMMA StepsExist ==
  ASSUME NEW n \in Nat, NEW V, NEW v \in V, NEW G, \A u \in V : \A k \in 1..n : G[k][u] \in V
  PROVE  \E r : Steps(V, v, G, n, r)
<1> DEFINE P == {m \in Nat : m <= n => \E r : Steps(V, v, G, m, r)}
<1>1. 0 \in P
  <2>1. Steps(V, v, G, 0, [k \in 0..0 |-> v])
    BY DEF Steps
  <2> QED BY <2>1
<1>2. ASSUME NEW m \in P PROVE m + 1 \in P
  <2> SUFFICES ASSUME m + 1 <= n PROVE \E r : Steps(V, v, G, m + 1, r)
    OBVIOUS
  <2>1. m \in Nat /\ m <= n /\ m + 1 \in 1..n
    OBVIOUS
  <2>2. PICK r : Steps(V, v, G, m, r)
    BY <2>1
  <2> DEFINE h == [k \in 0..(m + 1) |-> IF k = m + 1 THEN G[m + 1][r[m]] ELSE r[k]]
  <2>3. r \in [0..m -> V] /\ r[0] = v /\ \A k \in 1..m : r[k] = G[k][r[k - 1]]
    BY <2>2 DEF Steps
  <2>4. h \in [0..(m + 1) -> V]
    <3>1. G[m + 1][r[m]] \in V
      BY <2>1, <2>3
    <3>2. ASSUME NEW k \in 0..(m + 1), k # m + 1 PROVE r[k] \in V
      BY <2>1, <2>3, <3>2
    <3> QED BY <3>1, <3>2
  <2>5. h[0] = v
    BY <2>1, <2>3
  <2>6. ASSUME NEW k \in 1..(m + 1) PROVE h[k] = G[k][h[k - 1]]
    <3>1. k - 1 \in 0..(m + 1) /\ k - 1 # m + 1 /\ h[k - 1] = r[k - 1]
      BY <2>1
    <3>2. CASE k = m + 1
      <4>1. k - 1 = m /\ h[k] = G[m + 1][r[m]]
        BY <3>2, <2>1
      <4> QED BY <3>1, <3>2, <4>1
    <3>3. CASE k # m + 1
      BY <2>1, <2>3, <3>1, <3>3
    <3> QED BY <3>2, <3>3
  <2> HIDE DEF h
  <2>7. Steps(V, v, G, m + 1, h)
    BY <2>4, <2>5, <2>6 DEF Steps
  <2> QED BY <2>7
<1>3. P = Nat
  <2>1. P \in SUBSET Nat
    OBVIOUS
  <2> HIDE DEF P
  <2> QED BY <1>1, <1>2, <2>1, AllNumbers
<1>4. n \in P
  <2> HIDE DEF P
  <2> QED BY <1>3
<1> QED BY <1>4

LEMMA MaxIn ==
  ASSUME NEW n \in Nat, NEW s \in SUBSET (1..n), s # {}
  PROVE  Max(s) \in s /\ Max(s) \in 1..n /\ \A x \in s : x <= Max(s)
<1> DEFINE B == {b \in Nat : \A x \in s : x <= b}
<1>1. n \in B
  OBVIOUS
<1>2. PICK c \in B : \A b \in B : c <= b
  <2>1. B \in SUBSET Nat /\ B # {}
    BY <1>1
  <2> HIDE DEF B
  <2> QED BY <2>1, LeastOf
<1>3. c \in s
  <2> SUFFICES ASSUME c \notin s PROVE FALSE
    OBVIOUS
  <2>1. PICK y \in s : TRUE
    OBVIOUS
  <2>2. y <= c /\ y # c /\ y \in 1..n /\ c \in Nat
    BY <1>2, <2>1
  <2>3. c - 1 \in Nat
    BY <2>2
  <2>4. \A x \in s : x <= c - 1
    BY <1>2
  <2>5. c - 1 \in B
    BY <2>3, <2>4
  <2>6. c <= c - 1
    BY <1>2, <2>5
  <2> QED BY <2>2, <2>6
<1>4. \A y \in s : c >= y
  BY <1>2
<1>5. Max(s) \in s /\ \A y \in s : Max(s) >= y
  BY <1>3, <1>4, Zenon DEF Max
<1> QED BY <1>5

(* What a fold over a sequence of length n evaluates.                      *)
Folds(it, n, base, G) ==
  it = [s \in SUBSET (1..n) |-> IF s = {} THEN base ELSE G[Max(s)][it[s \ {Max(s)}]]]

LEMMA FoldsExist ==
  ASSUME NEW n \in Nat, NEW V, NEW base \in V, NEW G, \A u \in V : \A k \in 1..n : G[k][u] \in V
  PROVE  \E it \in [SUBSET (1..n) -> V] : Folds(it, n, base, G)
<1> DEFINE T == SUBSET (1..n)
           W == [T -> V]
           F(w) == [s \in T |-> IF s = {} THEN base ELSE G[Max(s)][w[s \ {Max(s)}]]]
           H == [k \in 1..n + 1 |-> [w \in W |-> F(w)]]
           w0 == [s \in T |-> base]
<1>1. \A w \in W : F(w) \in W
  <2> SUFFICES ASSUME NEW w \in W, NEW s \in T, s # {} PROVE G[Max(s)][w[s \ {Max(s)}]] \in V
    OBVIOUS
  <2>1. Max(s) \in 1..n /\ s \ {Max(s)} \in T
    BY MaxIn
  <2> QED BY <2>1
<1>2. w0 \in W /\ n + 1 \in Nat
  OBVIOUS
<1>3. PICK g : Steps(W, w0, H, n + 1, g)
  <2>1. \A w \in W : \A k \in 1..n + 1 : H[k][w] \in W
    BY <1>1
  <2> HIDE DEF W, H, w0
  <2> QED BY <1>2, <2>1, StepsExist
<1>4. /\ g \in [0..n + 1 -> W] /\ g[0] = w0
      /\ \A k \in 1..n + 1 : g[k] = F(g[k - 1])
  <2>1. /\ g \in [0..n + 1 -> W] /\ g[0] = w0
        /\ \A k \in 1..n + 1 : g[k] = H[k][g[k - 1]]
    BY <1>3 DEF Steps
  <2>2. ASSUME NEW k \in 1..n + 1 PROVE g[k] = F(g[k - 1])
    <3>1. k - 1 \in 0..n + 1
      OBVIOUS
    <3>2. g[k - 1] \in W
      BY <3>1, <2>1
    <3> HIDE DEF W, F
    <3>3. H[k][g[k - 1]] = F(g[k - 1])
      BY <3>2
    <3> QED BY <2>1, <3>3
  <2> QED BY <2>1, <2>2
<1> DEFINE P == {k \in Nat : k <= n => \A s \in SUBSET (1..k) : g[k][s] = g[k + 1][s]}
<1>5. 0 \in P
  <2> SUFFICES ASSUME NEW s \in SUBSET (1..0) PROVE g[0][s] = g[0 + 1][s]
    OBVIOUS
  <2>1. s = {} /\ s \in T /\ 1 \in 1..n + 1
    OBVIOUS
  <2>2. g[1] = F(g[0])
    <3>1. 1 - 1 = 0
      OBVIOUS
    <3> HIDE DEF F
    <3> QED BY <2>1, <3>1, <1>4
  <2>3. g[0][s] = base /\ g[1][s] = base
    BY <2>1, <2>2, <1>4
  <2> QED BY <2>3
<1>6. ASSUME NEW k \in P PROVE k + 1 \in P
  <2> SUFFICES ASSUME k + 1 <= n, NEW s \in SUBSET (1..k + 1)
               PROVE  g[k + 1][s] = g[(k + 1) + 1][s]
    OBVIOUS
  <2>1. /\ k \in Nat /\ k <= n /\ k + 1 \in 1..n + 1 /\ (k + 1) + 1 \in 1..n + 1 /\ s \in T
        /\ (k + 1) - 1 = k /\ ((k + 1) + 1) - 1 = k + 1
    OBVIOUS
  <2>2. g[k + 1] = F(g[k]) /\ g[(k + 1) + 1] = F(g[k + 1])
    <3> HIDE DEF F
    <3> QED BY <2>1, <1>4
  <2>3. CASE s = {}
    BY <2>1, <2>2, <2>3
  <2>4. CASE s # {}
    <3> DEFINE m == Max(s)
    <3>1. m \in s /\ m \in 1..n /\ \A x \in s : x <= m
      BY <2>1, <2>4, MaxIn
    <3>2. m <= k + 1 /\ s \ {m} \in SUBSET (1..k)
      <4> HIDE DEF m
      <4>1. m \in 1..k + 1
        BY <3>1
      <4>2. ASSUME NEW x \in s, x # m PROVE x \in 1..k
        <5>1. x <= m /\ x \in 1..k + 1
          BY <3>1
        <5> QED BY <4>1, <4>2, <5>1, <2>1
      <4> QED BY <4>1, <4>2, <2>1
    <3>3. g[k][s \ {m}] = g[k + 1][s \ {m}]
      <4> HIDE DEF m
      <4> QED BY <2>1, <3>2
    <3>4. g[k + 1][s] = G[m][g[k][s \ {m}]] /\ g[(k + 1) + 1][s] = G[m][g[k + 1][s \ {m}]]
      BY <2>1, <2>2, <2>4
    <3> QED BY <3>3, <3>4
  <2> QED BY <2>3, <2>4
<1>7. n \in P
  <2>1. P \in SUBSET Nat
    OBVIOUS
  <2> HIDE DEF P
  <2> QED BY <1>5, <1>6, <2>1, AllNumbers
<1>8. g[n] = F(g[n])
  <2>1. n \in 0..n + 1 /\ n + 1 \in 1..n + 1 /\ (n + 1) - 1 = n /\ n <= n
    OBVIOUS
  <2>2. \A s \in T : g[n][s] = g[n + 1][s]
    BY <1>7, <2>1
  <2>3. g[n + 1] = F(g[n])
    <3> HIDE DEF F
    <3> QED BY <2>1, <1>4
  <2>4. g[n] \in W /\ g[n + 1] \in W
    <3>1. n + 1 \in 0..n + 1
      OBVIOUS
    <3> HIDE DEF W, F
    <3> QED BY <2>1, <3>1, <1>4
  <2>5. g[n] = g[n + 1]
    BY <2>2, <2>4
  <2> QED BY <2>3, <2>5
<1>9. Folds(g[n], n, base, G)
  BY <1>8 DEF Folds
<1>10. g[n] \in W
  <2>1. n \in 0..n + 1
    OBVIOUS
  <2> HIDE DEF W
  <2> QED BY <2>1, <1>4
<1> QED BY <1>9, <1>10

LEMMA FoldsStep ==
  ASSUME NEW n \in Nat, NEW V, NEW base, NEW G, NEW it, Folds(it, n, base, G),
         NEW r, Steps(V, base, G, n, r)
  PROVE  it[1..n] = r[n]
<1> DEFINE P == {k \in Nat : k <= n => it[1..k] = r[k]}
<1>0. r[0] = base /\ \A k \in 1..n : r[k] = G[k][r[k - 1]]
  BY DEF Steps
<1>1. 0 \in P
  <2>1. 1..0 = {} /\ {} \in SUBSET (1..n)
    OBVIOUS
  <2>2. it[{}] = base
    BY <2>1 DEF Folds
  <2> QED BY <1>0, <2>1, <2>2
<1>2. ASSUME NEW k \in P PROVE k + 1 \in P
  <2> SUFFICES ASSUME k + 1 <= n PROVE it[1..k + 1] = r[k + 1]
    OBVIOUS
  <2>1. k \in Nat /\ k <= n /\ k + 1 \in 1..n /\ (k + 1) - 1 = k /\ k + 1 \in Nat
    OBVIOUS
  <2>2. PICK s : s = 1..k + 1
    OBVIOUS
  <2>3. s \in SUBSET (1..n) /\ s # {} /\ k + 1 \in s
    BY <2>1, <2>2
  <2>4. Max(s) \in s /\ \A x \in s : x <= Max(s)
    BY <2>3, MaxIn
  <2>5. Max(s) = k + 1
    BY <2>1, <2>2, <2>3, <2>4
  <2>6. s \ {Max(s)} = 1..k
    BY <2>1, <2>2, <2>5
  <2>7. it[s] = G[Max(s)][it[s \ {Max(s)}]]
    BY <2>3 DEF Folds
  <2>8. it[1..k] = r[k] /\ r[k + 1] = G[k + 1][r[k]]
    BY <1>0, <2>1
  <2> QED BY <2>2, <2>5, <2>6, <2>7, <2>8
<1>3. n \in P
  <2>1. P \in SUBSET Nat
    OBVIOUS
  <2> HIDE DEF P
  <2> QED BY <1>1, <1>2, <2>1, AllNumbers
<1> QED BY <1>3

-----------------------------------------------------------------------------
(* Sequences put together.                                                 *)
LEMMA FlattenIs ==
  ASSUME NEW V, NEW n \in Nat, NEW s \in [1..n -> Seq(V)], NEW r \in [0..n -> Seq(V)],
         r[0] = <<>>, \A k \in 1..n : r[k] = r[k - 1] \o s[k]
  PROVE  FlattenSeq(s) = r[n]
<1>1. s \in Seq(Seq(V)) /\ Len(s) = n
  <2>1. s \in Seq(Seq(V))
    BY SeqDef
  <2>2. DOMAIN s = 1..Len(s) /\ Len(s) \in Nat /\ DOMAIN s = 1..n
    BY <2>1, LenProperties
  <2> QED BY <2>1, <2>2
<1>2. CASE n = 0
  <2>1. s = <<>>
    BY <1>1, <1>2, EmptySeq
  <2> QED BY <2>1, <1>1, <1>2 DEF FlattenSeq
<1>3. CASE n # 0
  <2> DEFINE IsFlat(f) == f = [i \in 1..n |-> IF i = 1 THEN s[i] ELSE f[i - 1] \o s[i]]
             fl == CHOOSE f : IsFlat(f)
             g == [i \in 1..n |-> r[i]]
  <2>1. ASSUME NEW i \in 1..n PROVE g[i] = IF i = 1 THEN s[i] ELSE g[i - 1] \o s[i]
    <3>1. s[i] \in Seq(V) /\ r[i] = r[i - 1] \o s[i] /\ g[i] = r[i]
      OBVIOUS
    <3>2. CASE i = 1
      <4>0. i - 1 = 0
        BY <3>2
      <4>1. r[i] = <<>> \o s[i]
        BY <3>1, <4>0
      <4> QED BY <3>1, <3>2, <4>1, ConcatEmptySeq
    <3>3. CASE i # 1
      <4>1. g[i - 1] = r[i - 1]
        BY <3>3
      <4> QED BY <3>1, <3>3, <4>1
    <3> QED BY <3>2, <3>3
  <2>2. IsFlat(g)
    <3>1. g = [i \in 1..n |-> g[i]]
      OBVIOUS
    <3> HIDE DEF g
    <3> QED BY <2>1, <3>1
  <2>3. IsFlat(fl)
    <3> HIDE DEF IsFlat, g
    <3> QED BY <2>2
  <2>4. FlattenSeq(s) = fl[n]
    BY <1>1, <1>3 DEF FlattenSeq
  <2> DEFINE P == {k \in Nat : k \in 1..n => fl[k] = g[k]}
  <2> HIDE DEF fl, g
  <2>5. 0 \in P
    OBVIOUS
  <2>6. ASSUME NEW k \in P PROVE k + 1 \in P
    <3> SUFFICES ASSUME k + 1 \in 1..n PROVE fl[k + 1] = g[k + 1]
      OBVIOUS
    <3>1. /\ fl[k + 1] = IF k + 1 = 1 THEN s[k + 1] ELSE fl[(k + 1) - 1] \o s[k + 1]
          /\ g[k + 1] = IF k + 1 = 1 THEN s[k + 1] ELSE g[(k + 1) - 1] \o s[k + 1]
      BY <2>2, <2>3
    <3>2. (k + 1) - 1 = k /\ (k + 1 # 1 => k \in 1..n)
      OBVIOUS
    <3> QED BY <3>1, <3>2
  <2>7. P = Nat
    <3>1. P \in SUBSET Nat
      OBVIOUS
    <3> HIDE DEF P
    <3> QED BY <2>5, <2>6, <3>1, AllNumbers
  <2>8. n \in P /\ n \in 1..n
    <3>1. n \in 1..n
      BY <1>3
    <3> HIDE DEF P
    <3> QED BY <2>7, <3>1
  <2>9. fl[n] = g[n] /\ g[n] = r[n]
    BY <2>8 DEF g
  <2> QED BY <2>4, <2>9
<1> QED BY <1>2, <1>3

LEMMA FlattenExists ==
  ASSUME NEW V, NEW n \in Nat, NEW s \in [1..n -> Seq(V)]
  PROVE  \E r \in [0..n -> Seq(V)] :
           /\ r[0] = <<>> /\ \A k \in 1..n : r[k] = r[k - 1] \o s[k]
           /\ FlattenSeq(s) = r[n]
<1> DEFINE G == [k \in 1..n |-> [t \in Seq(V) |-> t \o s[k]]]
<1>1. \A t \in Seq(V) : \A k \in 1..n : G[k][t] = t \o s[k] /\ G[k][t] \in Seq(V)
  BY ConcatProperties
<1> HIDE DEF G
<1>2. <<>> \in Seq(V)
  BY EmptySeq
<1>3. PICK r : Steps(Seq(V), <<>>, G, n, r)
  BY <1>1, <1>2, StepsExist
<1>4. r \in [0..n -> Seq(V)] /\ r[0] = <<>> /\ \A k \in 1..n : r[k] = r[k - 1] \o s[k]
  <2>1. r \in [0..n -> Seq(V)] /\ r[0] = <<>> /\ \A k \in 1..n : r[k] = G[k][r[k - 1]]
    BY <1>3 DEF Steps
  <2>2. ASSUME NEW k \in 1..n PROVE r[k] = r[k - 1] \o s[k]
    <3>1. k - 1 \in 0..n
      OBVIOUS
    <3> QED BY <2>1, <3>1, <1>1
  <2> QED BY <2>1, <2>2
<1> QED BY <1>4, FlattenIs

-----------------------------------------------------------------------------
(* Parts of a sequence.                                                    *)
LEMMA Assoc ==
  ASSUME NEW S
  PROVE  \A x, y, z \in Seq(S) : (x \o y) \o z = x \o (y \o z)
BY ConcatAssociative

LEMMA Part ==
  ASSUME NEW S, NEW s \in Seq(S), NEW a \in 1..Len(s) + 1, NEW b \in 0..Len(s), a <= b + 1
  PROVE  /\ SubSeq(s, a, b) \in Seq(S) /\ Len(SubSeq(s, a, b)) = b - a + 1
         /\ \A i \in 1..b - a + 1 : SubSeq(s, a, b)[i] = s[a + i - 1]
<1>1. Len(s) \in Nat /\ \A i \in a..b : s[i] \in S
  BY LenProperties
<1>2. a \in Int /\ b \in Int /\ b - a + 1 \in Nat
  BY <1>1
<1> QED BY <1>1, <1>2, SubSeqProperties

(* One more.                                                               *)
LEMMA PartGrows ==
  ASSUME NEW S, NEW s \in Seq(S), NEW a \in 1..Len(s), NEW b \in 1..Len(s), a <= b
  PROVE  SubSeq(s, a, b) = SubSeq(s, a, b - 1) \o <<s[b]>>
<1>1. b \in a..Len(s)
  BY LenProperties
<1> QED BY <1>1, SubSeqRecursiveSecond

LEMMA FrontOfConcat ==
  ASSUME NEW S, NEW s \in Seq(S), NEW t \in Seq(S), NEW a \in 1..Len(s) + 1, NEW b \in 0..Len(s),
         a <= b + 1
  PROVE  SubSeq(s \o t, a, b) = SubSeq(s, a, b)
<1>1. /\ s \o t \in Seq(S) /\ Len(s \o t) = Len(s) + Len(t) /\ Len(s) \in Nat /\ Len(t) \in Nat
      /\ \A i \in 1..Len(s) : (s \o t)[i] = s[i]
  BY ConcatProperties, LenProperties
<1>2. a \in 1..Len(s \o t) + 1 /\ b \in 0..Len(s \o t)
  BY <1>1
<1>3. /\ SubSeq(s \o t, a, b) \in Seq(S) /\ Len(SubSeq(s \o t, a, b)) = b - a + 1
      /\ \A i \in 1..b - a + 1 : SubSeq(s \o t, a, b)[i] = (s \o t)[a + i - 1]
  BY <1>1, <1>2, Part
<1>4. /\ SubSeq(s, a, b) \in Seq(S) /\ Len(SubSeq(s, a, b)) = b - a + 1
      /\ \A i \in 1..b - a + 1 : SubSeq(s, a, b)[i] = s[a + i - 1]
  BY Part
<1>5. \A i \in 1..b - a + 1 : a + i - 1 \in 1..Len(s)
  BY <1>1
<1> QED BY <1>1, <1>3, <1>4, <1>5, SeqEqual

LEMMA BackOfConcat ==
  ASSUME NEW S, NEW s \in Seq(S), NEW t \in Seq(S), NEW a \in 1..Len(t) + 1, NEW b \in 0..Len(t),
         a <= b + 1
  PROVE  SubSeq(s \o t, Len(s) + a, Len(s) + b) = SubSeq(t, a, b)
<1>1. /\ s \o t \in Seq(S) /\ Len(s \o t) = Len(s) + Len(t) /\ Len(s) \in Nat /\ Len(t) \in Nat
      /\ \A i \in 1..Len(t) : (s \o t)[Len(s) + i] = t[i]
  <2>1. /\ s \o t \in Seq(S) /\ Len(s \o t) = Len(s) + Len(t) /\ Len(s) \in Nat /\ Len(t) \in Nat
        /\ \A i \in 1..Len(s) + Len(t) : (s \o t)[i] = IF i <= Len(s) THEN s[i] ELSE t[i - Len(s)]
    BY ConcatProperties, LenProperties
  <2>2. ASSUME NEW i \in 1..Len(t) PROVE (s \o t)[Len(s) + i] = t[i]
    <3>1. Len(s) + i \in 1..Len(s) + Len(t) /\ ~(Len(s) + i <= Len(s)) /\ (Len(s) + i) - Len(s) = i
      BY <2>1
    <3> QED BY <2>1, <3>1
  <2> QED BY <2>1, <2>2
<1>2. /\ Len(s) + a \in 1..Len(s \o t) + 1 /\ Len(s) + b \in 0..Len(s \o t)
      /\ Len(s) + a <= Len(s) + b + 1
  BY <1>1
<1>3. PICK u : u = SubSeq(s \o t, Len(s) + a, Len(s) + b)
  OBVIOUS
<1>4. /\ u \in Seq(S) /\ Len(u) = b - a + 1
      /\ \A i \in 1..b - a + 1 : u[i] = (s \o t)[(Len(s) + a) + i - 1]
  <2>1. (Len(s) + b) - (Len(s) + a) + 1 = b - a + 1
    BY <1>1
  <2>2. PICK w \in Seq(S), c \in Int, d \in Int : w = s \o t /\ c = Len(s) + a /\ d = Len(s) + b
    <3>1. Len(s) + a \in Int /\ Len(s) + b \in Int
      BY <1>1
    <3> QED BY <1>1, <3>1
  <2>3. c \in 1..Len(w) + 1 /\ d \in 0..Len(w) /\ c <= d + 1
    BY <1>2, <2>2
  <2>4. /\ SubSeq(w, c, d) \in Seq(S) /\ Len(SubSeq(w, c, d)) = d - c + 1
        /\ \A i \in 1..d - c + 1 : SubSeq(w, c, d)[i] = w[c + i - 1]
    BY ONLY w \in Seq(S), <2>3, Part
  <2> QED BY <1>3, <2>1, <2>2, <2>4
<1>5. /\ SubSeq(t, a, b) \in Seq(S) /\ Len(SubSeq(t, a, b)) = b - a + 1
      /\ \A i \in 1..b - a + 1 : SubSeq(t, a, b)[i] = t[a + i - 1]
  BY Part
<1>6. ASSUME NEW i \in 1..b - a + 1 PROVE u[i] = t[a + i - 1]
  <2>1. a + i - 1 \in 1..Len(t) /\ (Len(s) + a) + i - 1 = Len(s) + (a + i - 1)
    BY <1>1
  <2> QED BY <2>1, <1>1, <1>4
<1> QED BY <1>3, <1>4, <1>5, <1>6, SeqEqual

-----------------------------------------------------------------------------
(* Letters with their tags.                                                *)
Letter == [char : Chars, link : 0..1]
Letters(s) == [i \in DOMAIN s |-> s[i].char]

LEMMA CharsKnown == 
  /\ Newline \in Chars /\ Space \in Chars /\ From \in Chars
  /\ Failure \in Chars
BY CharsAssumption

LEMMA OfOne ==
  ASSUME NEW S, NEW c \in S
  PROVE  <<c>> \in Seq(S) /\ Len(<<c>>) = 1 /\ <<c>>[1] = c
OBVIOUS

LEMMA LettersAre ==
  ASSUME NEW s \in Seq(Letter)
  PROVE  /\ Letters(s) \in Seq(Chars) /\ Len(Letters(s)) = Len(s)
         /\ \A i \in 1..Len(s) : Letters(s)[i] = s[i].char
<1>1. Len(s) \in Nat /\ DOMAIN s = 1..Len(s) /\ \A i \in 1..Len(s) : s[i] \in Letter
  BY LenProperties, ElementOfSeq
<1>2. Letters(s) \in [1..Len(s) -> Chars]
  BY <1>1 DEF Letters, Letter
<1>3. Letters(s) \in Seq(Chars)
  BY <1>1, <1>2, SeqDef
<1>4. Len(Letters(s)) = Len(s)
  <2>1. DOMAIN Letters(s) = 1..Len(Letters(s)) /\ Len(Letters(s)) \in Nat
    BY <1>3, LenProperties
  <2>2. DOMAIN Letters(s) = 1..Len(s)
    BY <1>2
  <2>3. PICK a, n : a = Letters(s) /\ n = Len(s)
    OBVIOUS
  <2>4. 1..Len(a) = 1..n /\ Len(a) \in Nat /\ n \in Nat
    BY <2>1, <2>2, <2>3, <1>1
  <2>5. Len(a) = n
    BY <2>4
  <2> QED BY <2>3, <2>5
<1> QED BY <1>1, <1>3, <1>4 DEF Letters

LEMMA LettersOfConcat ==
  ASSUME NEW s \in Seq(Letter), NEW t \in Seq(Letter)
  PROVE  s \o t \in Seq(Letter) /\ Letters(s \o t) = Letters(s) \o Letters(t)
<1>1. /\ s \o t \in Seq(Letter) /\ Len(s \o t) = Len(s) + Len(t)
      /\ Len(s) \in Nat /\ Len(t) \in Nat
      /\ \A i \in 1..Len(s) + Len(t) : (s \o t)[i] = IF i <= Len(s) THEN s[i] ELSE t[i - Len(s)]
  BY ConcatProperties, LenProperties
<1>2. PICK a \in Seq(Chars) : a = Letters(s) /\ Len(a) = Len(s) /\ \A i \in 1..Len(s) : a[i] = s[i].char
  BY LettersAre
<1>3. PICK b \in Seq(Chars) : b = Letters(t) /\ Len(b) = Len(t) /\ \A i \in 1..Len(t) : b[i] = t[i].char
  BY LettersAre
<1>4. PICK c \in Seq(Chars) : /\ c = Letters(s \o t) /\ Len(c) = Len(s) + Len(t)
                              /\ \A i \in 1..Len(s) + Len(t) : c[i] = (s \o t)[i].char
  BY <1>1, LettersAre
<1>5. /\ a \o b \in Seq(Chars) /\ Len(a \o b) = Len(s) + Len(t)
      /\ \A i \in 1..Len(s) + Len(t) : (a \o b)[i] = IF i <= Len(s) THEN a[i] ELSE b[i - Len(s)]
  <2>1. /\ a \o b \in Seq(Chars) /\ Len(a \o b) = Len(a) + Len(b)
        /\ \A i \in 1..Len(a) + Len(b) : (a \o b)[i] = IF i <= Len(a) THEN a[i] ELSE b[i - Len(a)]
    BY ONLY a \in Seq(Chars), b \in Seq(Chars), ConcatProperties
  <2> QED BY <2>1, <1>2, <1>3
<1>6. ASSUME NEW i \in 1..Len(s) + Len(t) PROVE c[i] = (a \o b)[i]
  <2>1. CASE i <= Len(s)
    <3>1. i \in 1..Len(s)
      BY <1>1, <2>1
    <3> QED BY <1>1, <1>2, <1>4, <1>5, <2>1, <3>1
  <2>2. CASE ~(i <= Len(s))
    <3>1. i - Len(s) \in 1..Len(t)
      BY <1>1, <2>2
    <3> QED BY <1>1, <1>3, <1>4, <1>5, <2>2, <3>1
  <2> QED BY <2>1, <2>2
<1>7. c = a \o b
  BY <1>4, <1>5, <1>6, SeqEqual
<1> QED BY <1>1, <1>2, <1>3, <1>4, <1>7

LEMMA TaggedIs ==
  ASSUME NEW w \in Seq(Chars), NEW tag \in 0..1
  PROVE  Tagged(w, tag) \in Seq(Letter) /\ Letters(Tagged(w, tag)) = w
<1>1. /\ Len(w) \in Nat /\ DOMAIN w = 1..Len(w) /\ w \in [1..Len(w) -> Chars]
      /\ \A i \in 1..Len(w) : w[i] \in Chars
  BY LenProperties, ElementOfSeq
<1>2. Tagged(w, tag) \in [1..Len(w) -> Letter]
  BY <1>1 DEF Tagged, Letter
<1>3. Tagged(w, tag) \in Seq(Letter)
  BY <1>1, <1>2, SeqDef
<1>4. Letters(Tagged(w, tag)) = [i \in 1..Len(w) |-> w[i]]
  BY <1>1, <1>2 DEF Letters, Tagged
<1> QED BY <1>1, <1>3, <1>4

LEMMA BlankIs == Blank \in Seq(Letter) /\ Letters(Blank) = <<Space>>
<1>1. <<Space>> \in Seq(Chars)
  BY CharsKnown, OfOne
<1>2. PICK w \in Seq(Chars) : w = <<Space>>
  BY <1>1
<1>3. Tagged(w, 0) \in Seq(Letter) /\ Letters(Tagged(w, 0)) = w
  BY TaggedIs
<1> QED BY <1>2, <1>3 DEF Blank

LEMMA EmptyLetters == <<>> \in Seq(Letter) /\ Letters(<<>>) = <<>>
<1>1. <<>> \in Seq(Letter) /\ Len(<<>>) = 0
  BY EmptySeq
<1>2. PICK a \in Seq(Chars) : a = Letters(<<>>) /\ Len(a) = 0
  BY <1>1, LettersAre
<1> QED BY <1>1, <1>2, EmptySeq

(* A word without its first character and the i-th.                        *)
Around(w, i) == (SubSeq(w, 2, i - 1) \o SubSeq(w, i + 1, Len(w))) \o <<Space>>

LEMMA EscapedIs ==
  ASSUME NEW w \in Seq(Chars), NEW c, NEW tag \in 0..1, NEW i \in 2..Len(w), w[i] = c,
         \A j \in 2..Len(w) : w[j] = c => i <= j
  PROVE  /\ Escaped(w, c, tag) \in Seq(Letter)
         /\ Letters(Escaped(w, c, tag)) = Around(w, i)
<1>0. Len(w) \in Nat
  BY LenProperties
<1> DEFINE k == CHOOSE k \in At(w, c) : \A j \in At(w, c) : k <= j
<1>1. k = i
  <2>1. i \in At(w, c) /\ \A j \in At(w, c) : i <= j
    BY DEF At
  <2>2. k \in At(w, c) /\ \A j \in At(w, c) : k <= j
    BY <2>1
  <2>3. k <= i /\ i <= k /\ k \in 2..Len(w)
    <3> HIDE DEF k
    <3>1. k \in 2..Len(w)
      BY <2>2 DEF At
    <3> QED BY <2>1, <2>2, <3>1
  <2> HIDE DEF k
  <2> QED BY <2>3
<1>2. PICK u \in Seq(Chars) : u = SubSeq(w, 2, i - 1)
  <2>1. 2 \in 1..Len(w) + 1 /\ i - 1 \in 0..Len(w) /\ 2 <= (i - 1) + 1
    BY <1>0
  <2> QED BY <2>1, Part
<1>3. PICK v \in Seq(Chars) : v = SubSeq(w, i + 1, Len(w))
  <2>1. i + 1 \in 1..Len(w) + 1 /\ Len(w) \in 0..Len(w) /\ i + 1 <= Len(w) + 1
    BY <1>0
  <2> QED BY <2>1, Part
<1>4. Escaped(w, c, tag) = Tagged(u, tag) \o Tagged(v, 0) \o Blank
  <2>1. Escaped(w, c, tag) = Tagged(SubSeq(w, 2, k - 1), tag) \o Tagged(SubSeq(w, k + 1, Len(w)), 0) \o Blank
    BY DEF Escaped
  <2> HIDE DEF k
  <2> QED BY <2>1, <1>1, <1>2, <1>3
<1>5. /\ Tagged(u, tag) \in Seq(Letter) /\ Letters(Tagged(u, tag)) = u
      /\ Tagged(v, 0) \in Seq(Letter) /\ Letters(Tagged(v, 0)) = v
  BY TaggedIs
<1>6. /\ Tagged(u, tag) \o Tagged(v, 0) \in Seq(Letter)
      /\ Letters(Tagged(u, tag) \o Tagged(v, 0)) = u \o v
  BY <1>5, LettersOfConcat
<1>7. /\ Tagged(u, tag) \o Tagged(v, 0) \o Blank \in Seq(Letter)
      /\ Letters(Tagged(u, tag) \o Tagged(v, 0) \o Blank) = (u \o v) \o <<Space>>
  BY <1>6, BlankIs, LettersOfConcat
<1> QED BY <1>2, <1>3, <1>4, <1>7 DEF Around

LEMMA EscapedTyped ==
  ASSUME NEW w \in Seq(Chars), NEW c, NEW tag \in 0..1, \E j \in 2..Len(w) : w[j] = c
  PROVE  Escaped(w, c, tag) \in Seq(Letter)
<1>0. Len(w) \in Nat
  BY LenProperties
<1>1. At(w, c) \in SUBSET Nat /\ At(w, c) # {}
  BY <1>0 DEF At
<1>2. PICK i \in At(w, c) : \A j \in At(w, c) : i <= j
  BY <1>1, LeastOf
<1>3. i \in 2..Len(w) /\ w[i] = c /\ \A j \in 2..Len(w) : w[j] = c => i <= j
  BY <1>2 DEF At
<1> QED BY <1>3, EscapedIs
-----------------------------------------------------------------------------
(* The words of a body, one after the other.                               *)
Laid == [out : Seq(Letter), open : Seq(Chars), skip : 0..1]

LEMMA NextWordTyped ==
  ASSUME NEW d \in Laid, NEW w \in Seq(Chars),
         (w # <<>> /\ w[1] = Slash) => \E j \in 2..Len(w) : w[j] = Slash
  PROVE  NextWord(d, w) \in Laid
<1>0. d.out \in Seq(Letter) /\ d.open \in Seq(Chars) /\ d.skip \in 0..1 /\ <<>> \in Seq(Chars)
  BY EmptySeq DEF Laid
<1>1. CASE d.skip = 1
  <2>1. NextWord(d, w) = [d EXCEPT !.skip = 0]
    BY <1>1 DEF NextWord
  <2> QED BY <2>1 DEF Laid
<1>2. CASE d.skip = 0 /\ d.open # <<>>
  <2>1. PICK o \in Seq(Chars) : o = d.open \o <<Space>> \o w
    <3>1. d.open \o <<Space>> \in Seq(Chars)
      BY <1>0, CharsKnown, OfOne, ConcatProperties
    <3> QED BY <3>1, ConcatProperties
  <2>2. CASE LinkCloses \in ToSet(w)
    <3>1. PICK i \in 1..Len(w) : w[i] = LinkCloses
      BY <2>2, LenProperties DEF ToSet
    <3>2. Len(d.open) \in Nat /\ Len(d.open) # 0 /\ Len(w) \in Nat
      BY <1>0, <1>2, EmptySeq, LenProperties
    <3>3. Len(o) = Len(d.open) + 1 + Len(w) /\ o[Len(d.open) + 1 + i] = LinkCloses
      <4>1. PICK p \in Seq(Chars) : p = d.open /\ Len(p) = Len(d.open)
        BY <1>0
      <4>2. PICK q \in Seq(Chars) : q = p \o <<Space>> /\ Len(q) = Len(p) + 1
        <5>1. PICK z \in Seq(Chars) : z = <<Space>> /\ Len(z) = 1
          BY CharsKnown, OfOne
        <5>2. p \o z \in Seq(Chars) /\ Len(p \o z) = Len(p) + Len(z)
          BY ConcatProperties
        <5> QED BY <5>1, <5>2
      <4>3. /\ Len(q \o w) = Len(q) + Len(w)
            /\ \A j \in 1..Len(q) + Len(w) : (q \o w)[j] = IF j <= Len(q) THEN q[j] ELSE w[j - Len(q)]
        BY ConcatProperties
      <4>4. /\ Len(q) + i \in 1..Len(q) + Len(w) /\ ~(Len(q) + i <= Len(q)) /\ (Len(q) + i) - Len(q) = i
            /\ Len(q) \in Nat
        BY <3>1, <3>2, <4>1, <4>2
      <4>5. (q \o w)[Len(q) + i] = LinkCloses
        BY <3>1, <4>3, <4>4
      <4> QED BY <2>1, <4>1, <4>2, <4>3, <4>5
    <3>4. Len(d.open) + 1 + i \in 2..Len(o)
      BY <3>2, <3>3
    <3>5. Escaped(o, LinkCloses, 1) \in Seq(Letter)
      <4>1. \E j \in 2..Len(o) : o[j] = LinkCloses
        BY <3>3, <3>4
      <4> QED BY <4>1, EscapedTyped
    <3>6. d.out \o Escaped(o, LinkCloses, 1) \in Seq(Letter)
      BY <1>0, <3>5, ConcatProperties
    <3>7. NextWord(d, w) = [out |-> d.out \o Escaped(o, LinkCloses, 1), open |-> <<>>, skip |-> 1]
      BY <1>2, <2>1, <2>2 DEF NextWord
    <3> QED BY <1>0, <3>6, <3>7 DEF Laid
  <2>3. CASE LinkCloses \notin ToSet(w)
    <3>1. NextWord(d, w) = [d EXCEPT !.open = o]
      BY <1>2, <2>1, <2>3 DEF NextWord
    <3> QED BY <3>1 DEF Laid
  <2> QED BY <2>2, <2>3
<1>3. CASE d.skip = 0 /\ d.open = <<>> /\ OpensLink(w)
  <2>1. NextWord(d, w) = [d EXCEPT !.open = w]
    BY <1>3 DEF NextWord
  <2> QED BY <2>1 DEF Laid
<1>4. CASE d.skip = 0 /\ d.open = <<>> /\ ~OpensLink(w)
  <2>1. NextWord(d, w) = [d EXCEPT !.out = d.out \o OneWord(w)]
    BY <1>4 DEF NextWord
  <2>2. OneWord(w) \in Seq(Letter)
    <3>1. CASE w = <<>>
      BY <3>1, EmptyLetters DEF OneWord, LinkOpens, Slash
    <3>2. CASE w # <<>> /\ w[1] = LinkOpens
      <4>1. At(w, LinkCloses) # {}
        BY <1>4, <3>2 DEF OpensLink
      <4>2. OneWord(w) = Escaped(w, LinkCloses, 1)
        BY <3>2 DEF OneWord, LinkOpens, Slash
      <4>3. \E j \in 2..Len(w) : w[j] = LinkCloses
        BY <4>1 DEF At
      <4> QED BY <4>2, <4>3, EscapedTyped
    <3>3. CASE w # <<>> /\ w[1] = Slash
      <4>1. OneWord(w) = Escaped(w, Slash, 0)
        BY <3>3 DEF OneWord, LinkOpens, Slash
      <4> QED BY <3>3, <4>1, EscapedTyped
    <3>4. CASE w # <<>> /\ w[1] # LinkOpens /\ w[1] # Slash
      <4>1. OneWord(w) = Tagged(w, 0) \o Blank
        BY <3>4 DEF OneWord, LinkOpens, Slash
      <4> QED BY <4>1, TaggedIs, BlankIs, LettersOfConcat
    <3> QED BY <3>1, <3>2, <3>3, <3>4
  <2>3. d.out \o OneWord(w) \in Seq(Letter)
    BY <1>0, <2>2, ConcatProperties
  <2> HIDE DEF Laid
  <2> QED BY <2>1, <2>3 DEF Laid
<1> QED BY <1>0, <1>1, <1>2, <1>3, <1>4

LEMMA BodyTyped ==
  ASSUME NEW body \in Bodies
  PROVE  /\ body \in Seq(Seq(Chars)) /\ Len(body) \in Nat /\ DOMAIN body = 1..Len(body)
         /\ \A k \in 1..Len(body) :
              /\ body[k] \in Seq(Chars)
              /\ \A u \in Laid : NextWord(u, body[k]) \in Laid
<1>1. /\ body \in Seq(Seq(Chars)) /\ Len(body) \in Nat /\ DOMAIN body = 1..Len(body)
      /\ \A k \in 1..Len(body) : body[k] \in Seq(Chars)
  BY CharsAssumption, LenProperties, ElementOfSeq
<1>2. ASSUME NEW k \in 1..Len(body), NEW u \in Laid PROVE NextWord(u, body[k]) \in Laid
  <2>1. PICK w \in Seq(Chars) : w = body[k]
    BY <1>1
  <2>2. (w # <<>> /\ w[1] = Slash) => \E j \in 2..Len(w) : w[j] = Slash
    BY <1>1, <2>1, CharsAssumption
  <2> QED BY <2>1, <2>2, NextWordTyped
<1> QED BY <1>1, <1>2

LEMMA BodyIs ==
  ASSUME NEW body \in Bodies
  PROVE  \E r \in [0..Len(body) -> Laid] :
           /\ r[0] = NoWords /\ \A k \in 1..Len(body) : r[k] = NextWord(r[k - 1], body[k])
           /\ InsertBody(body) = r[Len(body)].out \o Tagged(<<Newline>>, 0)
<1>1. PICK n \in Nat : n = Len(body) /\ DOMAIN body = 1..n
  BY BodyTyped
<1>2. \A u \in Laid : \A k \in 1..n : NextWord(u, body[k]) \in Laid
  BY <1>1, BodyTyped
<1>3. NoWords \in Laid
  BY EmptySeq DEF NoWords, Laid
<1> DEFINE T == SUBSET (1..n)
           IsFold(it) == it = [s \in T |-> IF s = {} THEN NoWords
                                           ELSE NextWord(it[s \ {Max(s)}], body[Max(s)])]
           fold == CHOOSE it : IsFold(it)
           U == Laid \cup {fold[s] : s \in T}
           G == [k \in 1..n |-> [u \in U |-> NextWord(u, body[k])]]
           G1 == [k \in 1..n |-> [u \in Laid |-> NextWord(u, body[k])]]
<1>4. FoldLeft(NextWord, NoWords, body) = fold[1..n]
  BY <1>1 DEF FoldLeft, MapThenFoldSet
<1>5. \E it : IsFold(it)
  <2>1. \A u \in Laid : \A k \in 1..n : G1[k][u] = NextWord(u, body[k]) /\ G1[k][u] \in Laid
    BY <1>2
  <2> HIDE DEF G1
  <2>2. PICK it \in [T -> Laid] : Folds(it, n, NoWords, G1)
    BY <1>3, <2>1, FoldsExist
  <2>3. ASSUME NEW s \in T, s # {} PROVE G1[Max(s)][it[s \ {Max(s)}]] = NextWord(it[s \ {Max(s)}], body[Max(s)])
    <3>1. Max(s) \in 1..n /\ s \ {Max(s)} \in T
      BY <2>3, MaxIn
    <3> QED BY <2>1, <2>2, <3>1
  <2>4. IsFold(it)
    BY <2>2, <2>3 DEF Folds
  <2> QED BY <2>4
<1>6. IsFold(fold)
  BY <1>5
<1> HIDE DEF fold
<1>7. \A u \in U : \A k \in 1..n : G[k][u] = NextWord(u, body[k])
  OBVIOUS
<1>8. Folds(fold, n, NoWords, G)
  <2>1. ASSUME NEW s \in T, s # {} PROVE G[Max(s)][fold[s \ {Max(s)}]] = NextWord(fold[s \ {Max(s)}], body[Max(s)])
    <3>1. Max(s) \in 1..n /\ s \ {Max(s)} \in T
      BY <2>1, MaxIn
    <3>2. fold[s \ {Max(s)}] \in U
      BY <3>1
    <3> HIDE DEF G, U
    <3> QED BY <1>7, <3>1, <3>2
  <2> HIDE DEF G
  <2> QED BY <1>6, <2>1 DEF Folds
<1>9. \A u \in Laid : \A k \in 1..n : G[k][u] = NextWord(u, body[k]) /\ G[k][u] \in Laid
  BY <1>2, <1>7
<1> HIDE DEF G
<1>10. PICK r : Steps(Laid, NoWords, G, n, r)
  BY <1>3, <1>9, StepsExist
<1>11. fold[1..n] = r[n]
  BY <1>8, <1>10, FoldsStep
<1>12. /\ r \in [0..n -> Laid] /\ r[0] = NoWords
       /\ \A k \in 1..n : r[k] = NextWord(r[k - 1], body[k])
  <2>1. r \in [0..n -> Laid] /\ r[0] = NoWords /\ \A k \in 1..n : r[k] = G[k][r[k - 1]]
    BY <1>10 DEF Steps
  <2>2. ASSUME NEW k \in 1..n PROVE r[k] = NextWord(r[k - 1], body[k])
    <3>1. k - 1 \in 0..n
      OBVIOUS
    <3> QED BY <2>1, <3>1, <1>9
  <2> QED BY <2>1, <2>2
<1>13. InsertBody(body) = r[n].out \o Tagged(<<Newline>>, 0)
  BY <1>4, <1>11 DEF InsertBody
<1> QED BY <1>1, <1>12, <1>13

-----------------------------------------------------------------------------
(* Words without their markup.                                             *)
LEMMA CharsAssoc == \A x, y, z \in Seq(Chars) : (x \o y) \o z = x \o (y \o z)
BY Assoc

LEMMA BareTyped ==
  ASSUME NEW w \in Seq(Chars)
  PROVE  \E r \in [0..Len(w) -> Seq(Chars)] :
           /\ r[0] = <<>> /\ Bare(w) = r[Len(w)]
           /\ \A k \in 1..Len(w) : r[k] = r[k - 1] \o (IF k \in Marks(w) THEN <<>> ELSE <<w[k]>>)
<1> DEFINE s == [i \in 1..Len(w) |-> IF i \in Marks(w) THEN <<>> ELSE <<w[i]>>]
<1>0. Len(w) \in Nat /\ \A i \in 1..Len(w) : w[i] \in Chars
  BY LenProperties, ElementOfSeq
<1>1. s \in [1..Len(w) -> Seq(Chars)]
  <2>1. ASSUME NEW i \in 1..Len(w) PROVE s[i] \in Seq(Chars)
    BY <1>0, EmptySeq
  <2> QED BY <2>1
<1>2. \A k \in 1..Len(w) : s[k] = IF k \in Marks(w) THEN <<>> ELSE <<w[k]>>
  OBVIOUS
<1>3. Bare(w) = FlattenSeq(s)
  BY DEF Bare
<1> HIDE DEF s
<1>4. PICK r \in [0..Len(w) -> Seq(Chars)] :
        /\ r[0] = <<>> /\ \A k \in 1..Len(w) : r[k] = r[k - 1] \o s[k]
        /\ FlattenSeq(s) = r[Len(w)]
  <2>1. PICK n \in Nat : n = Len(w)
    BY <1>0
  <2>2. s \in [1..n -> Seq(Chars)]
    BY <1>1, <2>1
  <2>3. PICK r \in [0..n -> Seq(Chars)] :
          /\ r[0] = <<>> /\ \A k \in 1..n : r[k] = r[k - 1] \o s[k]
          /\ FlattenSeq(s) = r[n]
    BY ONLY n \in Nat, <2>2, FlattenExists
  <2> QED BY <2>1, <2>3
<1> QED BY <1>2, <1>3, <1>4

LEMMA BareInSeq ==
  ASSUME NEW w \in Seq(Chars)
  PROVE  Bare(w) \in Seq(Chars)
<1>1. Len(w) \in 0..Len(w)
  BY LenProperties
<1>2. PICK r \in [0..Len(w) -> Seq(Chars)] : Bare(w) = r[Len(w)]
  BY BareTyped
<1> QED BY <1>1, <1>2

LEMMA BareIs ==
  ASSUME NEW w \in Seq(Chars), NEW b \in 1..2, NEW i \in b..Len(w) + 1, b - 1 <= Len(w),
         \A j \in 1..Len(w) : j \in Marks(w) <=> (j < b \/ j = i)
  PROVE  Bare(w) = SubSeq(w, b, i - 1) \o SubSeq(w, i + 1, Len(w))
<1>0. Len(w) \in Nat /\ i \in Nat /\ b \in Nat /\ \A k \in 1..Len(w) : w[k] \in Chars
  BY LenProperties, ElementOfSeq
<1>00. \A x, y, z \in Seq(Chars) : (x \o y) \o z = x \o (y \o z)
  BY ONLY CharsAssoc
<1>1. PICK r \in [0..Len(w) -> Seq(Chars)] :
           /\ r[0] = <<>> /\ Bare(w) = r[Len(w)]
           /\ \A k \in 1..Len(w) : r[k] = r[k - 1] \o (IF k \in Marks(w) THEN <<>> ELSE <<w[k]>>)
  BY BareTyped
<1>2. /\ \A k \in 1..Len(w) : k < b \/ k = i => r[k] = r[k - 1]
      /\ \A k \in 1..Len(w) : ~(k < b \/ k = i) => r[k] = r[k - 1] \o <<w[k]>>
  <2>1. ASSUME NEW k \in 1..Len(w), k < b \/ k = i PROVE r[k] = r[k - 1]
    <3>1. k \in Marks(w) /\ k - 1 \in 0..Len(w)
      BY <1>0, <2>1
    <3>2. r[k] = r[k - 1] \o <<>> /\ r[k - 1] \in Seq(Chars)
      BY <1>1, <3>1
    <3> QED BY <3>2, ConcatEmptySeq
  <2> QED BY <1>1, <2>1
<1> DEFINE Upto(k) == IF k < i THEN SubSeq(w, b, k) ELSE SubSeq(w, b, i - 1) \o SubSeq(w, i + 1, k)
           P == {k \in Nat : k <= Len(w) => r[k] = Upto(k)}
<1>3. 0 \in P
  <2>1. Upto(0) = SubSeq(w, b, 0) /\ SubSeq(w, b, 0) = <<>>
    BY <1>0, SubSeqEmpty
  <2> QED BY <1>1, <2>1
<1>4. ASSUME NEW k \in P PROVE k + 1 \in P
  <2> SUFFICES ASSUME k + 1 <= Len(w) PROVE r[k + 1] = Upto(k + 1)
    OBVIOUS
  <2>0. k \in Nat /\ k + 1 \in 1..Len(w) /\ (k + 1) - 1 = k /\ r[k] = Upto(k)
    BY <1>0
  <2>1. CASE k + 1 < b
    <3>1. r[k + 1] = r[k] /\ k = 0 /\ b = 2 /\ k < i /\ k + 1 < i
      BY <1>0, <1>2, <2>0, <2>1
    <3>2. Upto(k + 1) = SubSeq(w, b, k + 1) /\ SubSeq(w, b, k + 1) = <<>>
      BY <3>1, SubSeqEmpty
    <3> QED BY <1>1, <3>1, <3>2
  <2>2. CASE b <= k + 1 /\ k + 1 < i
    <3>0. k + 1 \in 1..Len(w) /\ ~(k + 1 < b \/ k + 1 = i) /\ k < i
      BY <1>0, <2>0, <2>2
    <3>1. r[k + 1] = r[k] \o <<w[k + 1]>> /\ k < i
      <4>1. r[k + 1] = r[(k + 1) - 1] \o <<w[k + 1]>>
        BY <1>2, <3>0
      <4> QED BY <4>1, <3>0, <2>0
    <3>2. Upto(k) = SubSeq(w, b, k) /\ Upto(k + 1) = SubSeq(w, b, k + 1)
      BY <2>2, <3>1
    <3>3. SubSeq(w, b, k + 1) = SubSeq(w, b, (k + 1) - 1) \o <<w[k + 1]>>
      <4>1. b \in 1..Len(w)
        BY <1>0, <2>0, <2>2
      <4> QED BY <4>1, <2>0, <2>2, PartGrows
    <3> QED BY <2>0, <3>1, <3>2, <3>3
  <2>3. CASE k + 1 = i
    <3>1. r[k + 1] = r[k] /\ k < i /\ k = i - 1
      BY <1>0, <1>2, <2>0, <2>3
    <3>2. Upto(k) = SubSeq(w, b, i - 1) /\ Upto(k + 1) = SubSeq(w, b, i - 1) \o SubSeq(w, i + 1, k + 1)
      BY <1>0, <2>3, <3>1
    <3>3. SubSeq(w, i + 1, k + 1) = <<>>
      BY <1>0, <2>0, <2>3, SubSeqEmpty
    <3>4. SubSeq(w, b, i - 1) \in Seq(Chars)
      <4>1. b \in 1..Len(w) + 1 /\ i - 1 \in 0..Len(w) /\ b <= (i - 1) + 1
        BY <1>0
      <4> QED BY <4>1, Part
    <3> QED BY <2>0, <3>1, <3>2, <3>3, <3>4, ConcatEmptySeq
  <2>4. CASE k + 1 > i
    <3>0. k + 1 \in 1..Len(w) /\ ~(k + 1 < b \/ k + 1 = i) /\ ~(k < i) /\ ~(k + 1 < i)
      BY <1>0, <2>0, <2>4
    <3>1. r[k + 1] = r[k] \o <<w[k + 1]>> /\ ~(k < i) /\ ~(k + 1 < i)
      <4>1. r[k + 1] = r[(k + 1) - 1] \o <<w[k + 1]>>
        BY <1>2, <3>0
      <4> QED BY <4>1, <3>0, <2>0
    <3>2. /\ Upto(k) = SubSeq(w, b, i - 1) \o SubSeq(w, i + 1, k)
          /\ Upto(k + 1) = SubSeq(w, b, i - 1) \o SubSeq(w, i + 1, k + 1)
      BY <3>1
    <3>3. SubSeq(w, i + 1, k + 1) = SubSeq(w, i + 1, (k + 1) - 1) \o <<w[k + 1]>>
      <4>1. i + 1 \in 1..Len(w) /\ i + 1 <= k + 1
        BY <1>0, <2>0, <2>4
      <4> QED BY <4>1, <2>0, PartGrows
    <3>4. PICK x \in Seq(Chars) : x = SubSeq(w, b, i - 1)
      <4>1. b \in 1..Len(w) + 1 /\ i - 1 \in 0..Len(w) /\ b <= (i - 1) + 1
        BY <1>0
      <4> QED BY <4>1, Part
    <3>5. PICK y \in Seq(Chars) : y = SubSeq(w, i + 1, k)
      <4>1. i + 1 \in 1..Len(w) + 1 /\ k \in 0..Len(w) /\ i + 1 <= k + 1
        BY <1>0, <2>0, <2>4
      <4> QED BY <4>1, Part
    <3>6. PICK z \in Seq(Chars) : z = <<w[k + 1]>>
      BY <1>0, <2>0, OfOne
    <3>7. (x \o y) \o z = x \o (y \o z)
      BY <1>00
    <3>8. r[k] = x \o y /\ r[k + 1] = r[k] \o z
      BY <2>0, <3>1, <3>2, <3>4, <3>5, <3>6
    <3>9. Upto(k + 1) = x \o (y \o z)
      BY <2>0, <3>2, <3>3, <3>4, <3>5, <3>6
    <3> QED BY <3>7, <3>8, <3>9
  <2> HIDE DEF Upto
  <2> QED BY <1>0, <2>0, <2>1, <2>2, <2>3, <2>4
<1>5. Len(w) \in P
  <2>1. P \in SUBSET Nat
    OBVIOUS
  <2> HIDE DEF P
  <2> QED BY <1>0, <1>3, <1>4, <2>1, AllNumbers
<1>6. r[Len(w)] = Upto(Len(w))
  <2>1. Len(w) <= Len(w)
    BY <1>0
  <2> HIDE DEF Upto
  <2> QED BY <1>5, <2>1
<1>7. CASE Len(w) < i
  <2>1. i = Len(w) + 1 /\ i - 1 = Len(w)
    BY <1>0, <1>7
  <2>2. SubSeq(w, i + 1, Len(w)) = <<>>
    BY <1>0, <2>1, SubSeqEmpty
  <2>3. PICK x \in Seq(Chars) : x = SubSeq(w, b, Len(w))
    <3>1. b \in 1..Len(w) + 1 /\ Len(w) \in 0..Len(w) /\ b <= Len(w) + 1
      BY <1>0
    <3> QED BY <3>1, Part
  <2>4. x \o <<>> = x
    BY ConcatEmptySeq
  <2> QED BY <1>1, <1>6, <1>7, <2>1, <2>2, <2>3, <2>4
<1>8. CASE ~(Len(w) < i)
  BY <1>1, <1>6, <1>8
<1> QED BY <1>7, <1>8

LEMMA BareUnmarked ==
  ASSUME NEW w \in Seq(Chars), Marks(w) = {}
  PROVE  Bare(w) = w
<1>0. Len(w) \in Nat
  BY LenProperties
<1>1. 1 \in 1..2 /\ Len(w) + 1 \in 1..Len(w) + 1 /\ 1 - 1 <= Len(w)
  BY <1>0
<1>2. \A j \in 1..Len(w) : j \in Marks(w) <=> (j < 1 \/ j = Len(w) + 1)
  BY <1>0
<1>3. Bare(w) = SubSeq(w, 1, (Len(w) + 1) - 1) \o SubSeq(w, (Len(w) + 1) + 1, Len(w))
  BY <1>1, <1>2, BareIs
<1>4. SubSeq(w, (Len(w) + 1) + 1, Len(w)) = <<>> /\ (Len(w) + 1) - 1 = Len(w)
  BY <1>0, SubSeqEmpty
<1>5. SubSeq(w, 1, Len(w)) = w /\ w \o <<>> = w
  BY SubSeqFull, ConcatEmptySeq
<1> QED BY <1>3, <1>4, <1>5

(* One word by itself.                                                     *)
LEMMA WholeWord ==
  ASSUME NEW w \in Seq(Chars), w # <<>>, Whole(w)
  PROVE  /\ ~OpensLink(w) /\ OneWord(w) \in Seq(Letter)
         /\ Letters(OneWord(w)) = Bare(w) \o <<Space>>
<1>0. Len(w) \in Nat /\ Len(w) # 0
  BY EmptySeq, LenProperties
<1>1. CASE Marks(w) = {}
  <2>1. w[1] # LinkOpens /\ w[1] # Slash
    BY <1>0, <1>1 DEF Marks, Markup
  <2>2. OneWord(w) = Tagged(w, 0) \o Blank
    BY <2>1 DEF OneWord
  <2>3. Tagged(w, 0) \in Seq(Letter) /\ Letters(Tagged(w, 0)) = w
    BY TaggedIs
  <2>4. Tagged(w, 0) \o Blank \in Seq(Letter) /\ Letters(Tagged(w, 0) \o Blank) = w \o <<Space>>
    BY <2>3, BlankIs, LettersOfConcat
  <2>5. ~OpensLink(w)
    BY <2>1 DEF OpensLink
  <2> QED BY <1>1, <2>2, <2>4, <2>5, BareUnmarked
<1>2. ASSUME NEW i \in 2..Len(w), Marks(w) = {1, i}, NEW c, NEW tag \in 0..1, w[i] = c, c \in Markup,
             OneWord(w) = Escaped(w, c, tag), ~OpensLink(w)
      PROVE  /\ ~OpensLink(w) /\ OneWord(w) \in Seq(Letter)
             /\ Letters(OneWord(w)) = Bare(w) \o <<Space>>
  <2>1. ASSUME NEW j \in 2..Len(w), w[j] = c PROVE i <= j
    <3>1. j \in Marks(w) /\ j # 1
      BY <1>2, <2>1 DEF Marks
    <3> QED BY <3>1, <1>2
  <2>2. /\ Escaped(w, c, tag) \in Seq(Letter)
        /\ Letters(Escaped(w, c, tag)) = Around(w, i)
    <3>1. tag \in 0..1 /\ i \in 2..Len(w) /\ w[i] = c /\ \A j \in 2..Len(w) : w[j] = c => i <= j
      BY <1>2, <2>1
    <3> QED BY <3>1, EscapedIs
  <2>3. Bare(w) = SubSeq(w, 2, i - 1) \o SubSeq(w, i + 1, Len(w))
    <3>1. 2 \in 1..2 /\ i \in 2..Len(w) + 1 /\ 2 - 1 <= Len(w)
      BY <1>0
    <3>2. \A j \in 1..Len(w) : j \in Marks(w) <=> (j < 2 \/ j = i)
      BY <1>0, <1>2
    <3> QED BY <3>1, <3>2, BareIs
  <2> QED BY <1>2, <2>2, <2>3 DEF Around
<1>3. ASSUME NEW i \in 2..Len(w), Marks(w) = {1, i}, w[1] = LinkOpens, w[i] = LinkCloses
      PROVE  OneWord(w) = Escaped(w, LinkCloses, 1) /\ ~OpensLink(w)
  BY <1>3 DEF OneWord, OpensLink, At, LinkOpens, Slash
<1>4. ASSUME NEW i \in 2..Len(w), Marks(w) = {1, i}, w[1] = Slash, w[i] = Slash
      PROVE  OneWord(w) = Escaped(w, Slash, 0) /\ ~OpensLink(w)
  BY <1>4 DEF OneWord, OpensLink, LinkOpens, Slash
<1>5. CASE Marks(w) # {}
  <2>1. PICK i \in 2..Len(w) : /\ Marks(w) = {1, i}
                          /\ <<w[1], w[i]>> \in {<<LinkOpens, LinkCloses>>, <<Slash, Slash>>}
    BY <1>5 DEF Whole
  <2>2. LinkCloses \in Markup /\ Slash \in Markup
    BY DEF Markup
  <2>3. CASE w[1] = LinkOpens /\ w[i] = LinkCloses
    BY <1>2, <1>3, <2>1, <2>2, <2>3
  <2>4. CASE w[1] = Slash /\ w[i] = Slash
    BY <1>2, <1>4, <2>1, <2>2, <2>4
  <2> QED BY <2>1, <2>3, <2>4
<1> QED BY <1>1, <1>5

-----------------------------------------------------------------------------
(* What a word adds to a body that loses none.                             *)
LEMMA TailJoin ==
  ASSUME NEW S, NEW s \in Seq(S), NEW t \in Seq(S), s # <<>>
  PROVE  SubSeq(s \o t, 2, Len(s \o t)) = SubSeq(s, 2, Len(s)) \o t
<1>1. /\ s \o t \in Seq(S) /\ Len(s \o t) = Len(s) + Len(t)
      /\ Len(s) \in Nat /\ Len(s) # 0 /\ Len(t) \in Nat
  BY ConcatProperties, LenProperties, EmptySeq
<1>2. PICK u \in Seq(S) : u = s \o t /\ Len(u) = Len(s) + Len(t)
  BY <1>1
<1>3. SubSeq(u, 2, Len(s)) \o SubSeq(u, Len(s) + 1, Len(s) + Len(t)) = SubSeq(u, 2, Len(s) + Len(t))
  <2>1. /\ 2 \in 1..Len(u) + 1 /\ Len(s) \in 2 - 1..Len(u) /\ Len(s) + Len(t) \in Len(s)..Len(u)
    BY <1>1, <1>2
  <2> QED BY <2>1, ConcatAdjacentSubSeq
<1>4. SubSeq(u, 2, Len(s)) = SubSeq(s, 2, Len(s))
  <2>1. 2 \in 1..Len(s) + 1 /\ Len(s) \in 0..Len(s) /\ 2 <= Len(s) + 1
    BY <1>1
  <2> QED BY <2>1, <1>2, FrontOfConcat
<1>5. SubSeq(u, Len(s) + 1, Len(s) + Len(t)) = t
  <2>1. 1 \in 1..Len(t) + 1 /\ Len(t) \in 0..Len(t) /\ 1 <= Len(t) + 1
    BY <1>1
  <2>2. SubSeq(u, Len(s) + 1, Len(s) + Len(t)) = SubSeq(t, 1, Len(t))
    BY <2>1, <1>2, BackOfConcat
  <2> QED BY <2>2, SubSeqFull
<1> QED BY <1>2, <1>3, <1>4, <1>5

(* What a word without its markup is followed by, and what is open of a link. *)
Spaced(w) == IF w = <<>> THEN <<>> ELSE Bare(w) \o <<Space>>
Rest(o) == SubSeq(o, 2, Len(o)) \o <<Space>>

LEMMA SpacedTyped ==
  ASSUME NEW w \in Seq(Chars)
  PROVE  Spaced(w) \in Seq(Chars)
<1>1. PICK z \in Seq(Chars) : z = <<Space>>
  BY CharsKnown, OfOne
<1>2. PICK b \in Seq(Chars) : b = Bare(w)
  BY BareInSeq
<1>3. b \o z \in Seq(Chars) /\ <<>> \in Seq(Chars)
  BY ConcatProperties, EmptySeq
<1> QED BY <1>1, <1>2, <1>3 DEF Spaced

LEMMA RestTyped ==
  ASSUME NEW o \in Seq(Chars), o # <<>>
  PROVE  Rest(o) \in Seq(Chars)
<1>1. PICK z \in Seq(Chars) : z = <<Space>>
  BY CharsKnown, OfOne
<1>2. PICK t \in Seq(Chars) : t = SubSeq(o, 2, Len(o))
  <2>1. 2 \in 1..Len(o) + 1 /\ Len(o) \in 0..Len(o) /\ 2 <= Len(o) + 1
    BY EmptySeq
  <2> QED BY <2>1, Part
<1>3. t \o z \in Seq(Chars)
  BY ConcatProperties
<1> QED BY <1>1, <1>2, <1>3 DEF Rest

LEMMA PlainIs ==
  ASSUME NEW body \in Bodies
  PROVE  \E p \in [0..Len(body) -> Seq(Chars)] :
           /\ p[0] = <<>> /\ Plain(body) = p[Len(body)]
           /\ \A k \in 1..Len(body) : p[k] = p[k - 1] \o Spaced(body[k])
<1> DEFINE s == [k \in 1..Len(body) |-> IF body[k] = <<>> THEN <<>> ELSE Bare(body[k]) \o <<Space>>]
<1>1. Len(body) \in Nat /\ \A k \in 1..Len(body) : body[k] \in Seq(Chars)
  BY BodyTyped
<1>2. \A k \in 1..Len(body) : s[k] = Spaced(body[k])
  BY DEF Spaced
<1>3. s \in [1..Len(body) -> Seq(Chars)]
  <2>1. s = [k \in 1..Len(body) |-> s[k]]
    OBVIOUS
  <2>2. \A k \in 1..Len(body) : s[k] \in Seq(Chars)
    BY <1>1, <1>2, SpacedTyped
  <2> HIDE DEF s
  <2> QED BY <2>1, <2>2
<1>4. Plain(body) = FlattenSeq(s)
  BY DEF Plain
<1> HIDE DEF s
<1>5. PICK p \in [0..Len(body) -> Seq(Chars)] :
           /\ p[0] = <<>> /\ FlattenSeq(s) = p[Len(body)]
           /\ \A k \in 1..Len(body) : p[k] = p[k - 1] \o s[k]
  <2>1. PICK n \in Nat : n = Len(body)
    BY <1>1
  <2>2. s \in [1..n -> Seq(Chars)]
    BY <1>3, <2>1
  <2>3. \E p \in [0..n -> Seq(Chars)] :
          /\ p[0] = <<>> /\ \A k \in 1..n : p[k] = p[k - 1] \o s[k]
          /\ FlattenSeq(s) = p[n]
    BY ONLY n \in Nat, <2>2, FlattenExists
  <2> QED BY <2>1, <2>3
<1> QED BY <1>2, <1>4, <1>5

LEMMA WholeStep ==
  ASSUME NEW d \in Laid, NEW w \in Seq(Chars), d.open = <<>>, d.skip = 0, Whole(w)
  PROVE  /\ NextWord(d, w).open = <<>> /\ NextWord(d, w).skip = 0
         /\ Letters(NextWord(d, w).out) = Letters(d.out) \o Spaced(w)
<1>1. d.out \in Seq(Letter)
  BY DEF Laid
<1>2. ~OpensLink(w) /\ OneWord(w) \in Seq(Letter) /\ Letters(OneWord(w)) = Spaced(w)
  <2>1. CASE w = <<>>
    BY <2>1, EmptyLetters DEF OneWord, OpensLink, Spaced
  <2>2. CASE w # <<>>
    BY <2>2, WholeWord DEF Spaced
  <2> QED BY <2>1, <2>2
<1>3. NextWord(d, w) = [d EXCEPT !.out = d.out \o OneWord(w)]
  BY <1>2 DEF NextWord
<1>4. NextWord(d, w).out = d.out \o OneWord(w) /\ NextWord(d, w).open = <<>> /\ NextWord(d, w).skip = 0
  BY <1>3 DEF Laid
<1>5. Letters(d.out \o OneWord(w)) = Letters(d.out) \o Letters(OneWord(w))
  BY <1>1, <1>2, LettersOfConcat
<1> QED BY <1>2, <1>4, <1>5

LEMMA LinkBegins ==
  ASSUME NEW d \in Laid, NEW w \in Seq(Chars), d.open = <<>>, d.skip = 0,
         Marks(w) = {1}, w[1] = LinkOpens
  PROVE  /\ NextWord(d, w).open = w /\ NextWord(d, w).skip = 0 /\ NextWord(d, w).out = d.out
         /\ w # <<>> /\ At(w, LinkCloses) = {} /\ Spaced(w) = Rest(w)
<1>0. Len(w) \in Nat /\ Len(w) # 0 /\ w # <<>>
  <2>1. Len(w) \in Nat /\ 1 \in 1..Len(w)
    BY LenProperties DEF Marks
  <2> QED BY <2>1, EmptySeq
<1>1. At(w, LinkCloses) = {}
  <2> SUFFICES ASSUME NEW j \in At(w, LinkCloses) PROVE FALSE
    OBVIOUS
  <2>1. j \in 2..Len(w) /\ w[j] = LinkCloses
    BY DEF At
  <2>2. j \in Marks(w)
    BY <2>1 DEF Marks, Markup
  <2> QED BY <2>1, <2>2
<1>2. OpensLink(w)
  BY <1>0, <1>1 DEF OpensLink
<1>3. NextWord(d, w) = [d EXCEPT !.open = w]
  BY <1>2 DEF NextWord
<1>4. NextWord(d, w).open = w /\ NextWord(d, w).skip = 0 /\ NextWord(d, w).out = d.out
  BY <1>3 DEF Laid
<1>5. Bare(w) = SubSeq(w, 2, Len(w))
  <2>1. 2 \in 1..2 /\ Len(w) + 1 \in 2..Len(w) + 1 /\ 2 - 1 <= Len(w)
    BY <1>0
  <2>2. \A j \in 1..Len(w) : j \in Marks(w) <=> (j < 2 \/ j = Len(w) + 1)
    BY <1>0
  <2>3. Bare(w) = SubSeq(w, 2, (Len(w) + 1) - 1) \o SubSeq(w, (Len(w) + 1) + 1, Len(w))
    BY <2>1, <2>2, BareIs
  <2>4. SubSeq(w, (Len(w) + 1) + 1, Len(w)) = <<>> /\ (Len(w) + 1) - 1 = Len(w)
    BY <1>0, SubSeqEmpty
  <2>5. PICK x \in Seq(Chars) : x = SubSeq(w, 2, Len(w))
    <3>1. 2 \in 1..Len(w) + 1 /\ Len(w) \in 0..Len(w) /\ 2 <= Len(w) + 1
      BY <1>0
    <3> QED BY <3>1, Part
  <2>6. x \o <<>> = x
    BY ConcatEmptySeq
  <2> QED BY <2>3, <2>4, <2>5, <2>6
<1> QED BY <1>0, <1>1, <1>4, <1>5 DEF Spaced, Rest

(* A link of several words, and one more.                                  *)
LEMMA OpenJoin ==
  ASSUME NEW o \in Seq(Chars), o # <<>>, At(o, LinkCloses) = {}, NEW w \in Seq(Chars)
  PROVE  \E q \in Seq(Chars) :
           /\ q \o w = o \o <<Space>> \o w /\ q \o w \in Seq(Chars) /\ q \o w # <<>>
           /\ Len(q) \in Nat /\ Len(q) >= 2 /\ Len(w) \in Nat /\ Len(q \o w) = Len(q) + Len(w)
           /\ SubSeq(q, 2, Len(q)) = Rest(o)
           /\ At(q \o w, LinkCloses) = {Len(q) + j : j \in {j \in 1..Len(w) : w[j] = LinkCloses}}
<1>1. PICK z \in Seq(Chars) : z = <<Space>> /\ Len(z) = 1 /\ z[1] = Space
  BY CharsKnown, OfOne
<1>2. PICK q \in Seq(Chars) : q = o \o z
  BY ConcatProperties
<1>3. /\ Len(o) \in Nat /\ Len(o) # 0 /\ Len(w) \in Nat /\ Len(q) = Len(o) + 1
      /\ \A i \in 1..Len(o) + 1 : q[i] = IF i <= Len(o) THEN o[i] ELSE z[i - Len(o)]
  BY <1>1, <1>2, EmptySeq, LenProperties, ConcatProperties
<1>4. /\ q \o w \in Seq(Chars) /\ Len(q \o w) = Len(q) + Len(w)
      /\ \A i \in 1..Len(q) + Len(w) : (q \o w)[i] = IF i <= Len(q) THEN q[i] ELSE w[i - Len(q)]
  BY ConcatProperties
<1>5. q \o w # <<>>
  BY <1>3, <1>4, EmptySeq
<1>6. SubSeq(q, 2, Len(q)) = Rest(o)
  <2>1. SubSeq(o \o z, 2, Len(o \o z)) = SubSeq(o, 2, Len(o)) \o z
    BY TailJoin
  <2> QED BY <2>1, <1>1, <1>2 DEF Rest
<1>7. \A i \in 2..Len(q) : (q \o w)[i] # LinkCloses
  <2> SUFFICES ASSUME NEW i \in 2..Len(q) PROVE (q \o w)[i] # LinkCloses
    OBVIOUS
  <2>1. (q \o w)[i] = q[i] /\ q[i] = IF i <= Len(o) THEN o[i] ELSE z[i - Len(o)]
    <3>1. i \in 1..Len(q) + Len(w) /\ i <= Len(q) /\ i \in 1..Len(o) + 1
      BY <1>3
    <3> QED BY <3>1, <1>3, <1>4
  <2>2. CASE i <= Len(o)
    <3>1. i \in 2..Len(o)
      BY <1>3, <2>2
    <3> QED BY <2>1, <2>2, <3>1 DEF At
  <2>3. CASE ~(i <= Len(o))
    <3>1. i - Len(o) = 1
      BY <1>3, <2>3
    <3> QED BY <2>1, <2>3, <3>1, <1>1 DEF Space, LinkCloses
  <2> QED BY <2>2, <2>3
<1>8. \A j \in 1..Len(w) : /\ Len(q) + j \in 2..Len(q) + Len(w) /\ (q \o w)[Len(q) + j] = w[j]
  <2> SUFFICES ASSUME NEW j \in 1..Len(w)
               PROVE  Len(q) + j \in 2..Len(q) + Len(w) /\ (q \o w)[Len(q) + j] = w[j]
    OBVIOUS
  <2>1. /\ Len(q) + j \in 2..Len(q) + Len(w) /\ Len(q) + j \in 1..Len(q) + Len(w)
        /\ ~(Len(q) + j <= Len(q)) /\ (Len(q) + j) - Len(q) = j
    BY <1>3
  <2> QED BY <2>1, <1>4
<1>9. At(q \o w, LinkCloses) = {Len(q) + j : j \in {j \in 1..Len(w) : w[j] = LinkCloses}}
  <2>1. ASSUME NEW x \in At(q \o w, LinkCloses)
        PROVE  x \in {Len(q) + j : j \in {j \in 1..Len(w) : w[j] = LinkCloses}}
    <3>1. x \in 2..Len(q) + Len(w) /\ (q \o w)[x] = LinkCloses
      BY <1>4 DEF At
    <3>2. x \notin 2..Len(q)
      BY <1>7, <3>1
    <3>3. x - Len(q) \in 1..Len(w) /\ Len(q) + (x - Len(q)) = x
      BY <1>3, <3>1, <3>2
    <3> QED BY <1>8, <3>1, <3>3
  <2>2. ASSUME NEW j \in 1..Len(w), w[j] = LinkCloses PROVE Len(q) + j \in At(q \o w, LinkCloses)
    BY <1>4, <1>8, <2>2 DEF At
  <2> QED BY <2>1, <2>2
<1>10. q \o w = o \o <<Space>> \o w
  BY <1>1, <1>2
<1>11. Len(q) \in Nat /\ Len(q) >= 2
  BY <1>3
<1> QED BY <1>3, <1>4, <1>5, <1>6, <1>9, <1>10, <1>11

-----------------------------------------------------------------------------
(* Long concatenations, put another way.                                    *)
Cat(s, t) == s \o t

LEMMA CatAssoc == ASSUME NEW S PROVE \A x, y, z \in Seq(S) : Cat(Cat(x, y), z) = Cat(x, Cat(y, z))
BY Assoc DEF Cat

LEMMA CatTyped == ASSUME NEW S PROVE \A x, y \in Seq(S) : Cat(x, y) \in Seq(S)
BY ConcatProperties DEF Cat

LEMMA CatFive ==
  ASSUME NEW S, NEW a \in Seq(S), NEW r \in Seq(S), NEW f \in Seq(S), NEW g \in Seq(S), NEW z \in Seq(S)
  PROVE  Cat(a, Cat(Cat(Cat(r, f), g), z)) = Cat(Cat(a, r), Cat(Cat(f, g), z))
<1>1. Cat(f, g) \in Seq(S) /\ Cat(Cat(f, g), z) \in Seq(S)
  BY CatTyped
<1>2. Cat(Cat(r, f), g) = Cat(r, Cat(f, g))
  BY CatAssoc
<1>3. Cat(Cat(r, Cat(f, g)), z) = Cat(r, Cat(Cat(f, g), z))
  BY <1>1, CatAssoc
<1>4. Cat(a, Cat(r, Cat(Cat(f, g), z))) = Cat(Cat(a, r), Cat(Cat(f, g), z))
  BY <1>1, CatAssoc
<1> QED BY <1>2, <1>3, <1>4

LEMMA LinkGoesOn ==

  ASSUME NEW d \in Laid, NEW w \in Seq(Chars), d.open # <<>>, d.skip = 0,
         At(d.open, LinkCloses) = {}, w # <<>>, Marks(w) = {}
  PROVE  /\ NextWord(d, w).open # <<>> /\ NextWord(d, w).skip = 0 /\ NextWord(d, w).out = d.out
         /\ At(NextWord(d, w).open, LinkCloses) = {}
         /\ Rest(NextWord(d, w).open) = Rest(d.open) \o Spaced(w)
<1>1. PICK o \in Seq(Chars) : o = d.open /\ o # <<>> /\ At(o, LinkCloses) = {}
  BY DEF Laid
<1>2. PICK q \in Seq(Chars) :
           /\ q \o w = o \o <<Space>> \o w /\ q \o w \in Seq(Chars) /\ q \o w # <<>>
           /\ Len(q) \in Nat /\ Len(q) >= 2 /\ Len(w) \in Nat /\ Len(q \o w) = Len(q) + Len(w)
           /\ SubSeq(q, 2, Len(q)) = Rest(o)
           /\ At(q \o w, LinkCloses) = {Len(q) + j : j \in {j \in 1..Len(w) : w[j] = LinkCloses}}
  BY <1>1, OpenJoin
<1>3. {j \in 1..Len(w) : w[j] = LinkCloses} = {} /\ LinkCloses \notin ToSet(w)
  <2>1. \A j \in 1..Len(w) : w[j] # LinkCloses
    BY DEF Marks, Markup
  <2>2. DOMAIN w = 1..Len(w)
    BY LenProperties
  <2> QED BY <2>1, <2>2 DEF ToSet
<1>4. At(q \o w, LinkCloses) = {}
  BY <1>2, <1>3
<1>5. NextWord(d, w) = [d EXCEPT !.open = d.open \o <<Space>> \o w]
  BY <1>3 DEF NextWord
<1>6. /\ NextWord(d, w).open = d.open \o <<Space>> \o w
      /\ NextWord(d, w).skip = 0 /\ NextWord(d, w).out = d.out
  BY <1>5 DEF Laid
<1>7. NextWord(d, w).open = q \o w
  BY <1>1, <1>2, <1>6
<1>8. Rest(q \o w) = Rest(o) \o Spaced(w)
  <2>1. PICK z \in Seq(Chars) : z = <<Space>>
    BY CharsKnown, OfOne
  <2>2. q # <<>> /\ SubSeq(q, 2, Len(q)) \in Seq(Chars)
    <3>1. Len(q) \in Nat /\ Len(q) >= 2
      BY <1>2
    <3>2. q # <<>>
      BY <3>1, EmptySeq
    <3>3. 2 \in 1..Len(q) + 1 /\ Len(q) \in 0..Len(q) /\ 2 <= Len(q) + 1
      BY <3>1
    <3>4. SubSeq(q, 2, Len(q)) \in Seq(Chars)
      BY <3>3, Part
    <3> QED BY <3>2, <3>4
  <2>3. SubSeq(q \o w, 2, Len(q \o w)) = SubSeq(q, 2, Len(q)) \o w
    BY <2>2, TailJoin
  <2>4. PICK r \in Seq(Chars) : r = SubSeq(q, 2, Len(q))
    BY <2>2
  <2>5. (r \o w) \o z = r \o (w \o z)
    BY CharsAssoc
  <2>6. Rest(q \o w) = (r \o w) \o z
    BY <2>1, <2>3, <2>4 DEF Rest
  <2>7. Spaced(w) = w \o z
    BY <2>1, BareUnmarked DEF Spaced
  <2> QED BY <1>2, <2>4, <2>5, <2>6, <2>7
<1> QED BY <1>1, <1>2, <1>4, <1>6, <1>7, <1>8

LEMMA LinkEnds ==
  ASSUME NEW d \in Laid, NEW w \in Seq(Chars), d.open # <<>>, d.skip = 0,
         At(d.open, LinkCloses) = {}, NEW i \in 1..Len(w), Marks(w) = {i}, w[i] = LinkCloses
  PROVE  Letters(NextWord(d, w).out) = (Letters(d.out) \o Rest(d.open)) \o Spaced(w)
<1>1. PICK o \in Seq(Chars) : o = d.open /\ o # <<>> /\ At(o, LinkCloses) = {}
  BY DEF Laid
<1>2. PICK q \in Seq(Chars) :
           /\ q \o w = o \o <<Space>> \o w /\ q \o w \in Seq(Chars) /\ q \o w # <<>>
           /\ Len(q) \in Nat /\ Len(q) >= 2 /\ Len(w) \in Nat /\ Len(q \o w) = Len(q) + Len(w)
           /\ SubSeq(q, 2, Len(q)) = Rest(o)
           /\ At(q \o w, LinkCloses) = {Len(q) + j : j \in {j \in 1..Len(w) : w[j] = LinkCloses}}
  BY <1>1, OpenJoin
<1>3. PICK W \in Seq(Chars) : W = q \o w /\ Len(W) = Len(q) + Len(w)
  BY <1>2
<1>4. {j \in 1..Len(w) : w[j] = LinkCloses} = {i} /\ LinkCloses \in ToSet(w)
  <2>1. \A j \in 1..Len(w) : w[j] = LinkCloses => j \in Marks(w)
    BY DEF Marks, Markup
  <2>2. DOMAIN w = 1..Len(w)
    BY LenProperties
  <2> QED BY <2>1, <2>2 DEF ToSet
<1>5. PICK m \in Nat : m = Len(q) + i
  BY <1>2
<1>6. At(W, LinkCloses) = {m}
  BY <1>2, <1>3, <1>4, <1>5
<1>7. NextWord(d, w).out = d.out \o Escaped(W, LinkCloses, 1)
  <2>1. NextWord(d, w) = [out |-> d.out \o Escaped(d.open \o <<Space>> \o w, LinkCloses, 1),
                          open |-> <<>>, skip |-> 1]
    BY <1>4 DEF NextWord
  <2>2. d.open \o <<Space>> \o w = W
    BY <1>1, <1>2, <1>3
  <2> HIDE DEF Letter
  <2>3. [out |-> d.out \o Escaped(W, LinkCloses, 1), open |-> <<>>, skip |-> 1].out
          = d.out \o Escaped(W, LinkCloses, 1)
    OBVIOUS
  <2> QED BY <2>1, <2>2, <2>3, Zenon
<1>8. Escaped(W, LinkCloses, 1) \in Seq(Letter) /\ Letters(Escaped(W, LinkCloses, 1)) = Around(W, m)
  <2>1. m \in 2..Len(W) /\ W[m] = LinkCloses /\ \A j \in 2..Len(W) : W[j] = LinkCloses => m <= j
    <3>1. m \in At(W, LinkCloses)
      BY <1>6
    <3>2. ASSUME NEW j \in 2..Len(W), W[j] = LinkCloses PROVE m <= j
      <4>1. j \in At(W, LinkCloses)
        BY <3>2 DEF At
      <4>2. j = m
        BY <4>1, <1>6
      <4> QED BY <4>2
    <3> QED BY <3>1, <3>2 DEF At
  <2>2. \A c : \A t \in 0..1 : (W[m] = c /\ \A j \in 2..Len(W) : W[j] = c => m <= j) =>
               Escaped(W, c, t) \in Seq(Letter) /\ Letters(Escaped(W, c, t)) = Around(W, m)
    BY <2>1, EscapedIs
  <2>3. 1 \in 0..1
    OBVIOUS
  <2> QED BY <2>1, <2>2, <2>3
<1>9. PICK z \in Seq(Chars) : z = <<Space>>
  BY CharsKnown, OfOne
<1>10. PICK r \in Seq(Chars) : r = SubSeq(q, 2, Len(q)) /\ r = Rest(o)
  <2>1. Len(q) \in Nat /\ Len(q) >= 2
    BY <1>2
  <2>2. 2 \in 1..Len(q) + 1 /\ Len(q) \in 0..Len(q) /\ 2 <= Len(q) + 1
    BY <2>1
  <2>3. SubSeq(q, 2, Len(q)) \in Seq(Chars)
    BY <2>2, Part
  <2> QED BY <2>3, <1>2
<1>11. PICK f \in Seq(Chars) : f = SubSeq(w, 1, i - 1)
  <2>1. 1 \in 1..Len(w) + 1 /\ i - 1 \in 0..Len(w) /\ 1 <= (i - 1) + 1
    BY <1>2
  <2> QED BY <2>1, Part
<1>12. PICK g \in Seq(Chars) : g = SubSeq(w, i + 1, Len(w))
  <2>1. i + 1 \in 1..Len(w) + 1 /\ Len(w) \in 0..Len(w) /\ i + 1 <= Len(w) + 1
    BY <1>2
  <2> QED BY <2>1, Part
<1>13. SubSeq(W, 2, m - 1) = r \o f
  <2>1. SubSeq(W, 2, Len(q)) \o SubSeq(W, Len(q) + 1, m - 1) = SubSeq(W, 2, m - 1)
    <3>1. 2 \in 1..Len(W) + 1 /\ Len(q) \in 2 - 1..Len(W) /\ m - 1 \in Len(q)..Len(W)
      BY <1>2, <1>3, <1>5
    <3> QED BY <3>1, ConcatAdjacentSubSeq
  <2>2. SubSeq(W, 2, Len(q)) = SubSeq(q, 2, Len(q))
    <3>1. 2 \in 1..Len(q) + 1 /\ Len(q) \in 0..Len(q) /\ 2 <= Len(q) + 1
      BY <1>2
    <3>2. SubSeq(q \o w, 2, Len(q)) = SubSeq(q, 2, Len(q))
      BY <3>1, FrontOfConcat
    <3> QED BY <3>2, <1>3
  <2>3. SubSeq(W, Len(q) + 1, Len(q) + (i - 1)) = SubSeq(w, 1, i - 1)
    <3>1. 1 \in 1..Len(w) + 1 /\ i - 1 \in 0..Len(w) /\ 1 <= (i - 1) + 1
      BY <1>2
    <3>2. PICK a, b : a = 1 /\ b = i - 1
      OBVIOUS
    <3>3. a \in 1..Len(w) + 1 /\ b \in 0..Len(w) /\ a <= b + 1
      BY <3>1, <3>2
    <3>4. SubSeq(q \o w, Len(q) + a, Len(q) + b) = SubSeq(w, a, b)
      BY ONLY q \in Seq(Chars), w \in Seq(Chars), <3>3, BackOfConcat
    <3> QED BY <3>2, <3>4, <1>3
  <2>4. Len(q) + (i - 1) = m - 1
    BY <1>2, <1>5
  <2> QED BY <2>1, <2>2, <2>3, <2>4, <1>10, <1>11
<1>14. SubSeq(W, m + 1, Len(W)) = g
  <2>1. SubSeq(W, Len(q) + (i + 1), Len(q) + Len(w)) = SubSeq(w, i + 1, Len(w))
    <3>1. i + 1 \in 1..Len(w) + 1 /\ Len(w) \in 0..Len(w) /\ i + 1 <= Len(w) + 1
      BY <1>2
    <3>2. PICK a, b : a = i + 1 /\ b = Len(w)
      OBVIOUS
    <3>3. a \in 1..Len(w) + 1 /\ b \in 0..Len(w) /\ a <= b + 1
      BY <3>1, <3>2
    <3>4. SubSeq(q \o w, Len(q) + a, Len(q) + b) = SubSeq(w, a, b)
      BY ONLY q \in Seq(Chars), w \in Seq(Chars), <3>3, BackOfConcat
    <3> QED BY <3>2, <3>4, <1>3
  <2>2. Len(q) + (i + 1) = m + 1
    BY <1>2, <1>5
  <2> QED BY <2>1, <2>2, <1>3, <1>12
<1>15. Around(W, m) = ((r \o f) \o g) \o z
  BY <1>9, <1>13, <1>14 DEF Around
<1>16. Bare(w) = f \o g
  <2>1. 1 \in 1..2 /\ i \in 1..Len(w) + 1 /\ 1 - 1 <= Len(w)
    BY <1>2
  <2>2. \A j \in 1..Len(w) : j \in Marks(w) <=> (j < 1 \/ j = i)
    OBVIOUS
  <2>3. PICK b \in 1..2 : b = 1
    OBVIOUS
  <2>4. i \in b..Len(w) + 1 /\ b - 1 <= Len(w)
    BY <2>1, <2>3
  <2>5. \A j \in 1..Len(w) : j \in Marks(w) <=> (j < b \/ j = i)
    BY <2>2, <2>3
  <2>6. Bare(w) = SubSeq(w, b, i - 1) \o SubSeq(w, i + 1, Len(w))
    BY ONLY w \in Seq(Chars), b \in 1..2, <2>4, <2>5, BareIs
  <2> QED BY <2>3, <2>6, <1>11, <1>12
<1>17. Spaced(w) = (f \o g) \o z
  <2>1. w # <<>>
    BY EmptySeq, <1>2
  <2> QED BY <2>1, <1>9, <1>16 DEF Spaced
<1>18. PICK a \in Seq(Chars) : a = Letters(d.out)
  BY LettersAre DEF Laid
<1>19. Letters(NextWord(d, w).out) = a \o Around(W, m)
  <2>1. d.out \in Seq(Letter)
    BY DEF Laid
  <2>2. Letters(d.out \o Escaped(W, LinkCloses, 1)) = Letters(d.out) \o Letters(Escaped(W, LinkCloses, 1))
    BY <2>1, <1>8, LettersOfConcat
  <2> QED BY <2>2, <1>7, <1>8, <1>18
<1>20. Cat(a, Cat(Cat(Cat(r, f), g), z)) = Cat(Cat(a, r), Cat(Cat(f, g), z))
  BY CatFive
<1>21. a \o (((r \o f) \o g) \o z) = (a \o r) \o ((f \o g) \o z)
  BY <1>20, Zenon DEF Cat
<1> QED BY <1>1, <1>10, <1>15, <1>17, <1>18, <1>19, <1>21

-----------------------------------------------------------------------------
LEMMA WordsKept ==
  ASSUME NEW body \in Bodies, Kept(body),
         NEW r \in [0..Len(body) -> Laid], r[0] = NoWords,
         \A k \in 1..Len(body) : r[k] = NextWord(r[k - 1], body[k]),
         NEW p \in [0..Len(body) -> Seq(Chars)], p[0] = <<>>,
         \A k \in 1..Len(body) : p[k] = p[k - 1] \o Spaced(body[k])
  PROVE  Letters(r[Len(body)].out) = p[Len(body)]
<1>1. PICK n \in Nat : n = Len(body) /\ \A k \in 1..n : body[k] \in Seq(Chars)
  BY BodyTyped
<1>2. PICK K \in 1..n + 1 : (\A j \in 1..K - 1 : Whole(body[j])) /\ (K = n + 1 \/ LinkFrom(body, K))
  BY <1>1 DEF Kept
<1>3. LinkFrom(body, K) =>
        /\ K < n /\ Marks(body[K]) = {1} /\ body[K][1] = LinkOpens
        /\ \A j \in K + 1..n - 1 : body[j] # <<>> /\ Marks(body[j]) = {}
        /\ \E i \in 1..Len(body[n]) : Marks(body[n]) = {i} /\ body[n][i] = LinkCloses
  BY <1>1 DEF LinkFrom, Last
<1> DEFINE First(k) == r[k].open = <<>> /\ r[k].skip = 0 /\ Letters(r[k].out) = p[k]
           Open(k)  == /\ r[k].open # <<>> /\ r[k].skip = 0 /\ At(r[k].open, LinkCloses) = {}
                       /\ p[k] = Letters(r[k].out) \o Rest(r[k].open)
           Ended(k) == Letters(r[k].out) = p[k]
           Agree(k) == /\ k < K => First(k)
                       /\ (K <= k /\ k < n) => Open(k)
                       /\ (K <= k /\ k = n) => Ended(k)
           P == {k \in Nat : k <= n => Agree(k)}
<1>4. 0 \in P
  <2>1. First(0)
    BY EmptyLetters DEF NoWords
  <2> HIDE DEF First, Open, Ended
  <2> QED BY <2>1, <1>2
<1>5. ASSUME NEW k \in P PROVE k + 1 \in P
  <2> SUFFICES ASSUME k + 1 <= n PROVE Agree(k + 1)
    OBVIOUS
  <2>1. k \in Nat /\ k + 1 \in 1..n /\ (k + 1) - 1 = k /\ k <= n /\ k < n /\ Agree(k)
    BY <1>1
  <2>2. PICK d \in Laid : d = r[k]
    <3>1. k \in 0..Len(body)
      BY <2>1, <1>1
    <3> QED BY <3>1
  <2>3. PICK w \in Seq(Chars) : w = body[k + 1]
    BY <1>1, <2>1
  <2>4. r[k + 1] = NextWord(d, w) /\ p[k + 1] = p[k] \o Spaced(w)
    <3>1. r[k + 1] = NextWord(r[(k + 1) - 1], body[k + 1]) /\ p[k + 1] = p[(k + 1) - 1] \o Spaced(body[k + 1])
      BY <1>1, <2>1
    <3> QED BY <3>1, <2>1, <2>2, <2>3
  <2>5. CASE k + 1 < K
    <3>1. k + 1 \in 1..K - 1 /\ k < K
      BY <1>2, <2>1, <2>5
    <3>2. Whole(w)
      BY <1>2, <2>3, <3>1
    <3>3. First(k)
      BY <2>1, <3>1
    <3>4. First(k + 1)
      <4>1. d.open = <<>> /\ d.skip = 0
        BY <2>2, <3>3
      <4>2. /\ NextWord(d, w).open = <<>> /\ NextWord(d, w).skip = 0
            /\ Letters(NextWord(d, w).out) = Letters(d.out) \o Spaced(w)
        BY ONLY d \in Laid, w \in Seq(Chars), <4>1, <3>2, WholeStep
      <4> QED BY <4>2, <3>3, <2>2, <2>4
    <3> HIDE DEF First, Open, Ended
    <3> QED BY <3>4, <2>5, <2>1, <1>2
  <2>6. CASE k + 1 = K
    <3>1. LinkFrom(body, K) /\ k < K
      BY <1>2, <2>1, <2>6
    <3>2. K < n /\ Marks(w) = {1} /\ w[1] = LinkOpens
      BY <1>3, <2>3, <2>6, <3>1
    <3>3. First(k)
      BY <2>1, <3>1
    <3>4. Open(k + 1)
      <4>1. d.open = <<>> /\ d.skip = 0
        BY <2>2, <3>3
      <4>2. /\ NextWord(d, w).open = w /\ NextWord(d, w).skip = 0 /\ NextWord(d, w).out = d.out
            /\ w # <<>> /\ At(w, LinkCloses) = {} /\ Spaced(w) = Rest(w)
        BY ONLY d \in Laid, w \in Seq(Chars), <4>1, <3>2, LinkBegins
      <4> QED BY <4>2, <3>3, <2>2, <2>4
    <3> HIDE DEF First, Open, Ended
    <3> QED BY <3>4, <3>2, <2>6, <2>1, <1>2
  <2>7. CASE K <= k
    <3>1. LinkFrom(body, K)
      BY <1>2, <2>1, <2>7
    <3>2. Open(k)
      BY <2>1, <2>7
    <3>3. d.open # <<>> /\ d.skip = 0 /\ At(d.open, LinkCloses) = {}
      BY <3>2, <2>2
    <3>4. PICK a \in Seq(Chars) : a = Letters(d.out)
      BY LettersAre DEF Laid
    <3>5. p[k] = a \o Rest(d.open)
      BY <3>2, <3>4, <2>2
    <3>6. CASE k + 1 < n
      <4>1. k + 1 \in K + 1..n - 1
        BY <1>2, <2>1, <2>7, <3>6
      <4>2. w # <<>> /\ Marks(w) = {}
        BY <1>3, <2>3, <3>1, <4>1
      <4>3. /\ NextWord(d, w).open # <<>> /\ NextWord(d, w).skip = 0 /\ NextWord(d, w).out = d.out
            /\ At(NextWord(d, w).open, LinkCloses) = {}
            /\ Rest(NextWord(d, w).open) = Rest(d.open) \o Spaced(w)
        BY ONLY d \in Laid, w \in Seq(Chars), <3>3, <4>2, LinkGoesOn
      <4>4. Cat(Cat(a, Rest(d.open)), Spaced(w)) = Cat(a, Cat(Rest(d.open), Spaced(w)))
        <5>1. Spaced(w) \in Seq(Chars)
          BY SpacedTyped
        <5>2. Rest(d.open) \in Seq(Chars)
          BY <3>3, RestTyped DEF Laid
        <5> QED BY ONLY a \in Seq(Chars), <5>1, <5>2, CatAssoc
      <4>5. (a \o Rest(d.open)) \o Spaced(w) = a \o (Rest(d.open) \o Spaced(w))
        BY <4>4, Zenon DEF Cat
      <4>6. Open(k + 1)
        BY <4>3, <4>5, <3>4, <3>5, <2>4
      <4> HIDE DEF First, Open, Ended
      <4> QED BY <4>6, <3>6, <2>7, <2>1, <1>2
    <3>7. CASE k + 1 = n
      <4>1. PICK i \in 1..Len(w) : Marks(w) = {i} /\ w[i] = LinkCloses
        BY <1>3, <2>3, <3>1, <3>7
      <4>2. Letters(NextWord(d, w).out) = (Letters(d.out) \o Rest(d.open)) \o Spaced(w)
        BY ONLY d \in Laid, w \in Seq(Chars), i \in 1..Len(w), <3>3, <4>1, LinkEnds
      <4>3. Ended(k + 1)
        BY <4>2, <3>4, <3>5, <2>4
      <4> HIDE DEF First, Open, Ended
      <4> QED BY <4>3, <3>7, <2>7, <2>1, <1>2
    <3> QED BY <3>6, <3>7, <2>1
  <2> HIDE DEF Agree
  <2> QED BY <2>5, <2>6, <2>7, <2>1, <1>2
<1>6. n \in P
  <2>1. P \in SUBSET Nat
    OBVIOUS
  <2> HIDE DEF P
  <2> QED BY <1>4, <1>5, <2>1, AllNumbers
<1>7. Letters(r[n].out) = p[n]
  <2>1. Agree(n)
    <3> HIDE DEF Agree
    <3> QED BY <1>6
  <2> HIDE DEF Open
  <2> QED BY <2>1, <1>2
<1> QED BY <1>1, <1>7

(* A definition is laid out as its text without the markup.                *)
LEMMA InsertedIs ==
  ASSUME NEW body \in Bodies
  PROVE  /\ InsertBody(body) \in Seq(Letter)
         /\ Kept(body) => Letters(InsertBody(body)) = Plain(body) \o <<Newline>>
<1>1. PICK n \in Nat : n = Len(body)
  BY BodyTyped
<1>2. PICK r \in [0..Len(body) -> Laid] :
           /\ r[0] = NoWords /\ \A k \in 1..Len(body) : r[k] = NextWord(r[k - 1], body[k])
           /\ InsertBody(body) = r[Len(body)].out \o Tagged(<<Newline>>, 0)
  BY BodyIs
<1>3. PICK o \in Seq(Letter) : o = r[Len(body)].out
  <2>1. Len(body) \in 0..Len(body)
    BY <1>1
  <2> QED BY <2>1 DEF Laid
<1>4. PICK x \in Seq(Chars) : x = <<Newline>>
  BY CharsKnown, OfOne
<1>5. Tagged(x, 0) \in Seq(Letter) /\ Letters(Tagged(x, 0)) = x
  BY TaggedIs
<1>6. /\ o \o Tagged(x, 0) \in Seq(Letter)
      /\ Letters(o \o Tagged(x, 0)) = Letters(o) \o x
  BY <1>5, LettersOfConcat
<1>7. InsertBody(body) = o \o Tagged(x, 0)
  BY <1>2, <1>3, <1>4
<1>8. ASSUME Kept(body) PROVE Letters(o) = Plain(body)
  <2>1. PICK p \in [0..Len(body) -> Seq(Chars)] :
           /\ p[0] = <<>> /\ Plain(body) = p[Len(body)]
           /\ \A k \in 1..Len(body) : p[k] = p[k - 1] \o Spaced(body[k])
    BY PlainIs
  <2>2. Letters(r[Len(body)].out) = p[Len(body)]
    BY <1>2, <1>8, <2>1, WordsKept
  <2> QED BY <2>1, <2>2, <1>3
<1> QED BY <1>4, <1>6, <1>7, <1>8

-----------------------------------------------------------------------------
(* The text of the box: each definition is laid out where it begins.       *)
LaidOut(body) == Letters(InsertBody(body) \o InsertFrom)

Ends(i) == IF i = Len(definitions) THEN Len(text) ELSE definitions[i + 1].begin

TextInv ==
  /\ text \in Seq(Chars) /\ definitions \in Seq([begin : Nat, body : Bodies])
  /\ \A i \in 1..Len(definitions) :
       /\ definitions[i].begin <= Ends(i) /\ Ends(i) <= Len(text)
       /\ SubSeq(text, definitions[i].begin + 1, Ends(i)) = LaidOut(definitions[i].body)

LEMMA OfThree ==
  ASSUME NEW S, NEW a \in S, NEW b \in S, NEW c \in S
  PROVE  /\ <<a, b, c>> \in Seq(S) /\ Len(<<a, b, c>>) = 3
         /\ <<a, b, c>>[1] = a /\ <<a, b, c>>[2] = b /\ <<a, b, c>>[3] = c
OBVIOUS

LEMMA OfFour ==
  ASSUME NEW S, NEW a \in S, NEW b \in S, NEW c \in S, NEW d \in S
  PROVE  /\ <<a, b, c, d>> \in Seq(S) /\ Len(<<a, b, c, d>>) = 4
         /\ <<a, b, c, d>>[1] = a /\ <<a, b, c, d>>[2] = b
         /\ <<a, b, c, d>>[3] = c /\ <<a, b, c, d>>[4] = d
OBVIOUS

LEMMA FromIs == InsertFrom \in Seq(Letter) /\ Letters(InsertFrom) = <<From, Newline, Newline>>
<1>1. PICK w \in Seq(Chars) : w = <<From, Newline, Newline>>
  BY CharsKnown, OfThree
<1>2. Tagged(w, 0) \in Seq(Letter) /\ Letters(Tagged(w, 0)) = w
  BY TaggedIs
<1> QED BY <1>1, <1>2 DEF InsertFrom

LEMMA JoinOne ==
  ASSUME NEW S, NEW a \in S, NEW b \in S, NEW c \in S, NEW d \in S
  PROVE  <<a>> \o <<b, c, d>> = <<a, b, c, d>>
<1>1. PICK x \in Seq(S) : x = <<a>> /\ Len(x) = 1 /\ x[1] = a
  BY OfOne
<1>2. PICK y \in Seq(S) : y = <<b, c, d>> /\ Len(y) = 3 /\ y[1] = b /\ y[2] = c /\ y[3] = d
  <2>1. /\ <<b, c, d>> \in Seq(S) /\ Len(<<b, c, d>>) = 3
        /\ <<b, c, d>>[1] = b /\ <<b, c, d>>[2] = c /\ <<b, c, d>>[3] = d
    OBVIOUS
  <2> QED BY ONLY <2>1, Zenon
<1>3. PICK t \in Seq(S) : /\ t = <<a, b, c, d>> /\ Len(t) = 4
                          /\ t[1] = a /\ t[2] = b /\ t[3] = c /\ t[4] = d
  <2>1. /\ <<a, b, c, d>> \in Seq(S) /\ Len(<<a, b, c, d>>) = 4
        /\ <<a, b, c, d>>[1] = a /\ <<a, b, c, d>>[2] = b
        /\ <<a, b, c, d>>[3] = c /\ <<a, b, c, d>>[4] = d
    OBVIOUS
  <2> QED BY ONLY <2>1, Zenon
<1>4. /\ x \o y \in Seq(S) /\ Len(x \o y) = 4
      /\ \A i \in 1..4 : (x \o y)[i] = IF i <= 1 THEN x[i] ELSE y[i - 1]
  <2>1. /\ x \o y \in Seq(S) /\ Len(x \o y) = Len(x) + Len(y)
        /\ \A i \in 1..Len(x) + Len(y) : (x \o y)[i] = IF i <= Len(x) THEN x[i] ELSE y[i - Len(x)]
    BY ConcatProperties
  <2> QED BY <2>1, <1>1, <1>2
<1>5. ASSUME NEW i \in 1..4 PROVE (x \o y)[i] = t[i]
  <2>1. i = 1 \/ i = 2 \/ i = 3 \/ i = 4
    OBVIOUS
  <2>2. CASE i = 1
    BY <2>2, <1>1, <1>3, <1>4
  <2>3. CASE i = 2
    <3>1. i - 1 = 1 /\ ~(i <= 1)
      BY <2>3
    <3> QED BY <2>3, <3>1, <1>2, <1>3, <1>4
  <2>4. CASE i = 3
    <3>1. i - 1 = 2 /\ ~(i <= 1)
      BY <2>4
    <3> QED BY <2>4, <3>1, <1>2, <1>3, <1>4
  <2>5. CASE i = 4
    <3>1. i - 1 = 3 /\ ~(i <= 1)
      BY <2>5
    <3> QED BY <2>5, <3>1, <1>2, <1>3, <1>4
  <2> QED BY <2>1, <2>2, <2>3, <2>4, <2>5
<1>6. x \o y = t
  BY <1>3, <1>4, <1>5, SeqEqual
<1> QED BY <1>1, <1>2, <1>3, <1>6

LEMMA LaidOutIs ==
  ASSUME NEW body \in Bodies
  PROVE  /\ InsertBody(body) \in Seq(Letter) /\ InsertBody(body) \o InsertFrom \in Seq(Letter)
         /\ LaidOut(body) \in Seq(Chars)
         /\ Kept(body) => LaidOut(body) = Plain(body) \o <<Newline, From, Newline, Newline>>
<1>1. PICK b \in Seq(Letter) : b = InsertBody(body)
  BY InsertedIs
<1>2. PICK f \in Seq(Letter) : f = InsertFrom /\ Letters(f) = <<From, Newline, Newline>>
  BY FromIs
<1>3. b \o f \in Seq(Letter) /\ Letters(b \o f) = Letters(b) \o Letters(f)
  BY LettersOfConcat
<1>4. LaidOut(body) \in Seq(Chars)
  BY <1>1, <1>2, <1>3, LettersAre DEF LaidOut
<1>5. ASSUME Kept(body) PROVE LaidOut(body) = Plain(body) \o <<Newline, From, Newline, Newline>>
  <2>1. PICK x \in Seq(Chars) : x = <<Newline>> /\ Len(x) = 1 /\ x[1] = Newline
    BY CharsKnown, OfOne
  <2>2. PICK y \in Seq(Chars) : y = <<From, Newline, Newline>>
    BY CharsKnown, OfThree
  <2>3. PICK q \in Seq(Chars) : q = Plain(body)
    <3>1. Len(body) \in 0..Len(body)
      BY BodyTyped
    <3> QED BY <3>1, PlainIs
  <2>4. Letters(b) = q \o x
    BY <1>1, <1>5, <2>1, <2>3, InsertedIs
  <2>5. LaidOut(body) = (q \o x) \o y
    BY <1>1, <1>2, <1>3, <2>2, <2>4 DEF LaidOut
  <2>6. Cat(Cat(q, x), y) = Cat(q, Cat(x, y))
    BY CatAssoc
  <2>7. (q \o x) \o y = q \o (x \o y)
    BY <2>6, Zenon DEF Cat
  <2>8. x \o y = <<Newline, From, Newline, Newline>>
    BY <2>1, <2>2, CharsKnown, JoinOne
  <2> QED BY <2>3, <2>5, <2>7, <2>8
<1> QED BY <1>1, <1>2, <1>3, <1>4, <1>5

LEMMA TextInit == BoxInit => TextInv
<1> SUFFICES ASSUME BoxInit PROVE TextInv
  OBVIOUS
<1>1. text = <<>> /\ definitions = <<>>
  BY DEF BoxInit
<1>2. <<>> \in Seq(Chars) /\ <<>> \in Seq([begin : Nat, body : Bodies]) /\ Len(<<>>) = 0
  BY EmptySeq
<1>3. 1..0 = {}
  OBVIOUS
<1> QED BY <1>1, <1>2, <1>3 DEF TextInv

LEMMA TextCleared ==
  ASSUME NEW s \in Seq(Letter), ClearAndInsert(s)
  PROVE  TextInv'
<1>1. text' = Letters(s) /\ definitions' = <<>>
  BY DEF ClearAndInsert, Letters
<1>2. Letters(s) \in Seq(Chars)
  BY LettersAre
<1>3. <<>> \in Seq([begin : Nat, body : Bodies]) /\ Len(<<>>) = 0
  BY EmptySeq
<1>4. 1..0 = {}
  OBVIOUS
<1> QED BY <1>1, <1>2, <1>3, <1>4 DEF TextInv

LEMMA TextKept ==
  ASSUME TextInv, UNCHANGED <<text, definitions>>
  PROVE  TextInv'
BY DEF TextInv, Ends

LEMMA TextFound ==
  ASSUME TextInv, NEW body \in Bodies, DefinitionFound(body)
  PROVE  TextInv'
<1> DEFINE Entry == [begin : Nat, body : Bodies]
<1>1. /\ text \in Seq(Chars) /\ definitions \in Seq(Entry)
      /\ \A i \in 1..Len(definitions) :
           /\ definitions[i].begin <= Ends(i) /\ Ends(i) <= Len(text)
           /\ SubSeq(text, definitions[i].begin + 1, Ends(i)) = LaidOut(definitions[i].body)
  BY DEF TextInv
<1>2. PICK n \in Nat : n = Len(definitions)
  BY <1>1, LenProperties
<1>3. PICK word \in Seq(Letter) :
        /\ word = IF definitions = <<>> THEN Tagged(Title \o <<Newline>>, 0) ELSE <<>>
        /\ n # 0 => word = <<>>
  <2>1. PICK t \in Seq(Chars) : t = Title \o <<Newline>>
    <3>1. Title \in Seq(Chars) /\ <<Newline>> \in Seq(Chars)
      BY CharsKnown, OfOne, CharsAssumption
    <3> QED BY <3>1, ConcatProperties
  <2>2. Tagged(t, 0) \in Seq(Letter) /\ <<>> \in Seq(Letter)
    BY TaggedIs, EmptySeq
  <2>3. n # 0 => definitions # <<>>
    BY <1>2, EmptySeq
  <2> QED BY <2>1, <2>2, <2>3
<1>4. PICK s \in Seq(Chars) : s = text
  BY <1>1
<1>5. PICK v \in Seq(Chars) : v = Letters(word) /\ (n # 0 => v = <<>>)
  BY <1>3, LettersAre, EmptyLetters
<1>6. PICK l \in Seq(Chars) : l = LaidOut(body)
  BY LaidOutIs
<1>7. text' = (s \o v) \o l
  <2>1. text' = text \o Letters(word \o InsertBody(body) \o InsertFrom)
    BY <1>3 DEF DefinitionFound, Insert, Letters
  <2>2. PICK b \in Seq(Letter) : b = InsertBody(body)
    BY LaidOutIs
  <2>3. PICK f \in Seq(Letter) : f = InsertFrom
    BY FromIs
  <2>4. Cat(Cat(word, b), f) = Cat(word, Cat(b, f))
    BY CatAssoc
  <2>5. (word \o b) \o f = word \o (b \o f)
    BY <2>4, Zenon DEF Cat
  <2>6. b \o f \in Seq(Letter) /\ Letters(b \o f) = l
    BY <2>2, <2>3, <1>6, LaidOutIs DEF LaidOut
  <2>7. Letters(word \o (b \o f)) = v \o l
    BY <2>6, <1>5, LettersOfConcat
  <2>8. Cat(Cat(s, v), l) = Cat(s, Cat(v, l))
    BY CatAssoc
  <2>9. (s \o v) \o l = s \o (v \o l)
    BY <2>8, Zenon DEF Cat
  <2> QED BY <2>1, <2>2, <2>3, <2>5, <2>7, <2>9, <1>4
<1>8. PICK u \in Seq(Chars) : u = s \o v /\ Len(u) = Len(s) + Len(v)
  BY ConcatProperties
<1>9. u \o l \in Seq(Chars) /\ Len(u \o l) = Len(u) + Len(l)
  BY ConcatProperties
<1>10. Len(s) \in Nat /\ Len(v) \in Nat /\ Len(l) \in Nat /\ Len(u) \in Nat
  BY LenProperties
<1>11. n # 0 => u = s
  BY <1>5, <1>8, ConcatEmptySeq
<1>12. Len(word) = Len(v)
  BY <1>5, LettersAre
<1> DEFINE new == [begin |-> Len(u), body |-> body]
<1>13. definitions' = Append(definitions, new)
  BY <1>3, <1>4, <1>8, <1>12 DEF DefinitionFound
<1>14. new \in Entry /\ new.begin = Len(u) /\ new.body = body
  BY <1>10
<1> HIDE DEF Entry, new
<1>15. /\ definitions' \in Seq(Entry) /\ Len(definitions') = n + 1
       /\ definitions'[n + 1] = new /\ \A i \in 1..n : definitions'[i] = definitions[i]
  BY <1>1, <1>2, <1>13, <1>14
<1>16. text' = u \o l /\ text' \in Seq(Chars)
  BY <1>7, <1>8, <1>9
<1>17. ASSUME NEW i \in 1..n
       PROVE  /\ Ends(i)' = Ends(i) /\ definitions'[i] = definitions[i] /\ u = s
              /\ definitions[i].begin \in Nat /\ Ends(i) \in Nat
  <2>1. u = s /\ i + 1 \in 1..n + 1 /\ i # n + 1 /\ definitions'[i] = definitions[i]
    BY <1>2, <1>11, <1>15
  <2>2. Ends(i)' = definitions'[i + 1].begin
    BY <2>1, <1>15 DEF Ends
  <2>3. definitions[i] \in Entry
    BY <1>1, <1>2, ElementOfSeq
  <2>4. CASE i = n
    BY <2>1, <2>2, <2>3, <2>4, <1>2, <1>4, <1>10, <1>14, <1>15 DEF Ends, Entry
  <2>5. CASE i # n
    <3>1. i + 1 \in 1..n
      BY <2>5, <1>2
    <3>2. definitions'[i + 1] = definitions[i + 1] /\ definitions[i + 1] \in Entry
      BY <3>1, <1>1, <1>2, <1>15, ElementOfSeq
    <3> QED BY <2>1, <2>2, <2>3, <2>5, <3>2, <1>2 DEF Ends, Entry
  <2> QED BY <2>4, <2>5
<1>18. ASSUME NEW i \in 1..n
       PROVE  /\ definitions'[i].begin <= Ends(i)' /\ Ends(i)' <= Len(text')
              /\ SubSeq(text', definitions'[i].begin + 1, Ends(i)') = LaidOut(definitions'[i].body)
  <2>1. PICK a, b : a = definitions[i].begin + 1 /\ b = Ends(i)
    OBVIOUS
  <2>2. a \in 1..Len(u) + 1 /\ b \in 0..Len(u) /\ a <= b + 1
    BY <2>1, <1>1, <1>2, <1>4, <1>17
  <2>3. SubSeq(u \o l, a, b) = SubSeq(u, a, b)
    BY ONLY u \in Seq(Chars), l \in Seq(Chars), <2>2, FrontOfConcat
  <2>4. SubSeq(u, a, b) = LaidOut(definitions[i].body)
    <3>1. SubSeq(text, definitions[i].begin + 1, Ends(i)) = LaidOut(definitions[i].body)
      BY <1>1, <1>2
    <3>2. u = text
      BY <1>4, <1>17
    <3> QED BY <3>1, <3>2, <2>1
  <2>5. Ends(i)' <= Len(text') /\ definitions'[i].begin <= Ends(i)'
    <3>1. Len(text') = Len(u) + Len(l) /\ Ends(i)' = b /\ definitions'[i].begin = definitions[i].begin
      BY <2>1, <1>9, <1>16, <1>17
    <3>2. definitions[i].begin <= b
      BY <2>1, <1>1, <1>2
    <3>3. b <= Len(u) + Len(l)
      BY <2>2, <1>10
    <3> QED BY <3>1, <3>2, <3>3
  <2> QED BY <2>1, <2>3, <2>4, <2>5, <1>16, <1>17
<1>19. /\ new.begin <= Len(text') /\ Len(text') <= Len(text')
       /\ SubSeq(text', new.begin + 1, Len(text')) = LaidOut(new.body)
  <2>1. 1 \in 1..Len(l) + 1 /\ Len(l) \in 0..Len(l) /\ 1 <= Len(l) + 1
    BY <1>10
  <2>2. SubSeq(u \o l, Len(u) + 1, Len(u) + Len(l)) = SubSeq(l, 1, Len(l))
    BY ONLY u \in Seq(Chars), l \in Seq(Chars), <2>1, BackOfConcat
  <2>3. SubSeq(l, 1, Len(l)) = l
    BY SubSeqFull
  <2> QED BY <2>2, <2>3, <1>6, <1>9, <1>10, <1>14, <1>16
<1>20. Ends(n + 1)' = Len(text')
  BY <1>15 DEF Ends
<1>21. 1..Len(definitions') = 1..n \cup {n + 1}
  BY <1>15, <1>2
<1> QED BY <1>15, <1>16, <1>18, <1>19, <1>20, <1>21 DEF TextInv, Entry

LEMMA TextNext == TextInv /\ [BoxNext]_boxvars => TextInv'
<1> SUFFICES ASSUME TextInv, [BoxNext]_boxvars PROVE TextInv'
  OBVIOUS
<1>1. CASE Lookup
  BY <1>1, EmptyLetters, TextCleared DEF Lookup
<1>2. CASE Error
  <2>1. PICK w \in Seq(Chars) : w = <<Failure, Newline, Newline, Failure>>
    BY CharsKnown, OfFour
  <2>2. Tagged(w, 0) \in Seq(Letter)
    BY TaggedIs
  <2>3. ErrorText \in Seq(Letter)
    BY <2>1, <2>2 DEF ErrorText
  <2> QED BY <1>2, <2>3, TextCleared DEF Error
<1>3. ASSUME NEW body \in Bodies, DefinitionFound(body) PROVE TextInv'
  BY <1>3, TextFound
<1>4. ASSUME UNCHANGED <<text, definitions>> PROVE TextInv'
  BY <1>4, TextKept
<1>5. CASE LookupEnd
  BY <1>4, <1>5 DEF LookupEnd
<1>6. CASE EntryChanged \/ FindNext \/ FindPrevious
  BY <1>4, <1>6 DEF EntryChanged, FindNext, FindPrevious, Find, buffer
<1>7. CASE (\E show \in 0..1 : SetShowFind(show)) \/ ShowFindKey \/ HideFind \/ HideTimeout
  BY <1>4, <1>7 DEF SetShowFind, ShowFindKey, HideFind, HideTimeout, buffer
<1>8. CASE (\E p \in 0..Len(text) - 1 : Click(p)) \/ SelectAll
  BY <1>4, <1>8 DEF Click, SelectAll, buffer
<1>9. CASE UNCHANGED boxvars
  BY <1>4, <1>9 DEF boxvars, buffer
<1> QED BY <1>1, <1>2, <1>3, <1>5, <1>6, <1>7, <1>8, <1>9 DEF BoxNext

(* Between where one definition begins and the next begins, and nowhere    *)
(* else, is the text of that definition (definition_found_cb).             *)
THEOREM DefinitionsAreWhole == BoxSpec => []DefinitionsBeginThere
<1>1. TextInv => DefinitionsBeginThere
  <2> SUFFICES ASSUME TextInv, NEW i \in DOMAIN definitions, Kept(definitions[i].body)
               PROVE  SubSeq(text, definitions[i].begin + 1, Ends(i))
                        = Plain(definitions[i].body) \o <<Newline, From, Newline, Newline>>
    BY DEF DefinitionsBeginThere, Ends
  <2>1. /\ definitions \in Seq([begin : Nat, body : Bodies])
        /\ \A k \in 1..Len(definitions) :
             SubSeq(text, definitions[k].begin + 1, Ends(k)) = LaidOut(definitions[k].body)
    BY DEF TextInv
  <2>2. i \in 1..Len(definitions)
    BY <2>1, LenProperties
  <2>3. definitions[i] \in [begin : Nat, body : Bodies]
    BY <2>1, <2>2, ElementOfSeq
  <2>4. PICK body \in Bodies : body = definitions[i].body
    BY <2>3
  <2>5. LaidOut(body) = Plain(body) \o <<Newline, From, Newline, Newline>>
    BY <2>4, LaidOutIs
  <2> QED BY <2>1, <2>2, <2>4, <2>5
<1> QED BY TextInit, TextNext, <1>1, PTL DEF BoxSpec

-----------------------------------------------------------------------------
(* What folding and decomposing makes of a text.                           *)
Units == Chars \cup {Accent}

LEMMA UnitsAssoc == \A x, y, z \in Seq(Units) : (x \o y) \o z = x \o (y \o z)
BY Assoc

LEMMA FoldedIs ==
  ASSUME AccentsOnly, NEW c \in Chars
  PROVE  /\ Folded[c] \in Seq(Units) /\ Len(Folded[c]) \in Nat \ {0}
         /\ Folded[c][1] # Accent
         /\ \A i \in 2..Len(Folded[c]) : Folded[c][i] = Accent
         /\ (\E i \in 1..Len(Folded[c]) : Folded[c][i] = Newline) <=> c = Newline
<1>1. Folded[c] # <<>> /\ Folded[c][1] # Accent
  BY CharsAssumption
<1>2. /\ Folded[c] \in Seq(Units)
      /\ \A i \in 2..Len(Folded[c]) : Folded[c][i] = Accent
      /\ (\E i \in 1..Len(Folded[c]) : Folded[c][i] = Newline) <=> c = Newline
  BY DEF AccentsOnly, Units
<1>3. Len(Folded[c]) \in Nat \ {0}
  BY <1>1, <1>2, EmptySeq
<1> QED BY <1>1, <1>2, <1>3

FoldedTo(s, r) ==
  /\ r \in [0..Len(s) -> Seq(Units)]
  /\ r[0] = <<>> /\ \A k \in 1..Len(s) : r[k] = r[k - 1] \o Folded[s[k]]

LEMMA NormalIs ==
  ASSUME AccentsOnly, NEW s \in Seq(Chars)
  PROVE  /\ \E r : FoldedTo(s, r)
         /\ \A r : FoldedTo(s, r) => Normal(s) = r[Len(s)]
<1>1. PICK n \in Nat : n = Len(s) /\ DOMAIN s = 1..n /\ \A k \in 1..n : s[k] \in Chars
  BY LenProperties, ElementOfSeq
<1>2. PICK f : f = [k \in 1..n |-> Folded[s[k]]]
  OBVIOUS
<1>3. \A k \in 1..n : f[k] = Folded[s[k]] /\ f[k] \in Seq(Units)
  BY <1>1, <1>2, FoldedIs
<1>4. f \in [1..n -> Seq(Units)]
  BY <1>2, <1>3
<1>5. Normal(s) = FlattenSeq(f)
  BY <1>1, <1>2 DEF Normal
<1>6. \E r : FoldedTo(s, r)
  <2>1. PICK r \in [0..n -> Seq(Units)] :
           /\ r[0] = <<>> /\ \A k \in 1..n : r[k] = r[k - 1] \o f[k]
           /\ FlattenSeq(f) = r[n]
    BY <1>4, FlattenExists
  <2>2. \A k \in 1..n : r[k] = r[k - 1] \o Folded[s[k]]
    BY <2>1, <1>3
  <2>3. FoldedTo(s, r)
    BY <2>1, <2>2, <1>1 DEF FoldedTo
  <2> QED BY <2>3
<1>7. ASSUME NEW r, FoldedTo(s, r) PROVE Normal(s) = r[Len(s)]
  <2>1. r \in [0..n -> Seq(Units)] /\ r[0] = <<>> /\ \A k \in 1..n : r[k] = r[k - 1] \o f[k]
    BY <1>1, <1>3, <1>7 DEF FoldedTo
  <2>2. FlattenSeq(f) = r[n]
    BY ONLY n \in Nat, <1>4, <2>1, FlattenIs
  <2> QED BY <1>1, <1>5, <2>2
<1> QED BY <1>6, <1>7

LEMMA NormalInSeq ==
  ASSUME AccentsOnly, NEW s \in Seq(Chars)
  PROVE  Normal(s) \in Seq(Units)
<1>1. PICK r : FoldedTo(s, r) /\ Normal(s) = r[Len(s)]
  BY NormalIs
<1>2. Len(s) \in 0..Len(s)
  BY LenProperties
<1> QED BY <1>1, <1>2 DEF FoldedTo

LEMMA NormalOfOne ==
  ASSUME AccentsOnly, NEW c \in Chars
  PROVE  Normal(<<c>>) = Folded[c]
<1>1. PICK s \in Seq(Chars) : s = <<c>> /\ Len(s) = 1 /\ s[1] = c
  BY OfOne
<1>2. PICK f \in Seq(Units) : f = Folded[c]
  BY FoldedIs
<1>3. PICK r : r = [k \in 0..1 |-> IF k = 0 THEN <<>> ELSE f]
  OBVIOUS
<1>4. FoldedTo(s, r)
  <2>1. <<>> \in Seq(Units) /\ <<>> \o f = f
    BY EmptySeq, ConcatEmptySeq
  <2>2. r \in [0..1 -> Seq(Units)] /\ r[0] = <<>> /\ r[1] = f
    BY <1>3, <2>1
  <2>3. \A k \in 1..1 : k = 1 /\ k - 1 = 0
    OBVIOUS
  <2> QED BY <1>1, <1>2, <2>1, <2>2, <2>3 DEF FoldedTo
<1> QED BY <1>1, <1>2, <1>3, <1>4, NormalIs

LEMMA NormalOfNone ==
  ASSUME AccentsOnly
  PROVE  Normal(<<>>) = <<>>
<1>1. PICK s \in Seq(Chars) : s = <<>> /\ Len(s) = 0
  BY EmptySeq
<1>2. PICK r : FoldedTo(s, r) /\ Normal(s) = r[Len(s)]
  BY NormalIs
<1> QED BY <1>1, <1>2 DEF FoldedTo

LEMMA NormalOfConcat ==
  ASSUME AccentsOnly, NEW s \in Seq(Chars), NEW t \in Seq(Chars)
  PROVE  Normal(s \o t) = Normal(s) \o Normal(t)
<1>1. PICK n \in Nat, m \in Nat : n = Len(s) /\ m = Len(t)
  BY LenProperties
<1>2. /\ s \o t \in Seq(Chars) /\ Len(s \o t) = n + m
      /\ \A k \in 1..n + m : (s \o t)[k] = IF k <= n THEN s[k] ELSE t[k - n]
  BY <1>1, ConcatProperties
<1>3. PICK r \in [0..n -> Seq(Units)] :
        /\ r[0] = <<>> /\ Normal(s) = r[n]
        /\ \A k \in 1..n : r[k] = r[k - 1] \o Folded[s[k]]
  BY <1>1, NormalIs DEF FoldedTo
<1>4. PICK q \in [0..m -> Seq(Units)] :
        /\ q[0] = <<>> /\ Normal(t) = q[m]
        /\ \A k \in 1..m : q[k] = q[k - 1] \o Folded[t[k]]
  BY <1>1, NormalIs DEF FoldedTo
<1>5. PICK b \in Seq(Units) : b = r[n]
  BY <1>3
<1>6. PICK u : u = [k \in 0..n + m |-> IF k <= n THEN r[k] ELSE b \o q[k - n]]
  OBVIOUS
<1>7. /\ \A k \in 0..n : u[k] = r[k]
      /\ \A k \in 0..m : u[n + k] = b \o q[k] /\ u[n + k] \in Seq(Units)
  <2>1. ASSUME NEW k \in 0..n PROVE u[k] = r[k]
    <3>1. k \in 0..n + m /\ k <= n
      OBVIOUS
    <3> QED BY <1>6, <3>1
  <2>2. ASSUME NEW k \in 0..m PROVE u[n + k] = b \o q[k]
    <3>1. n + k \in 0..n + m /\ (n + k) - n = k /\ (n + k <= n <=> k = 0)
      OBVIOUS
    <3>2. CASE k = 0
      <4>1. n + k = n /\ n \in 0..n
        BY <3>2
      <4>2. b \o <<>> = b
        BY ConcatEmptySeq
      <4> QED BY <3>2, <4>1, <4>2, <2>1, <1>4, <1>5
    <3>3. CASE k # 0
      BY <1>6, <3>1, <3>3
    <3> QED BY <3>2, <3>3
  <2>3. \A k \in 0..m : b \o q[k] \in Seq(Units)
    BY <1>4, ConcatProperties
  <2> QED BY <2>1, <2>2, <2>3
<1>8. u \in [0..n + m -> Seq(Units)]
  <2>1. ASSUME NEW k \in 0..n + m PROVE u[k] \in Seq(Units)
    <3>1. CASE k <= n
      <4>1. k \in 0..n
        BY <3>1
      <4>2. r[k] \in Seq(Units)
        BY <4>1, <1>3
      <4> QED BY <4>1, <4>2, <1>7
    <3>2. CASE ~(k <= n)
      <4>1. k - n \in 0..m /\ n + (k - n) = k
        BY <3>2
      <4> QED BY <4>1, <1>7
    <3> QED BY <3>1, <3>2
  <2> QED BY <2>1, <1>6
<1>9. ASSUME NEW k \in 1..n + m PROVE u[k] = u[k - 1] \o Folded[(s \o t)[k]]
  <2>1. CASE k <= n
    <3>1. k \in 0..n /\ k - 1 \in 0..n /\ k \in 1..n
      BY <2>1
    <3>2. (s \o t)[k] = s[k]
      BY <1>2, <2>1
    <3> QED BY <3>1, <3>2, <1>3, <1>7
  <2>2. CASE ~(k <= n)
    <3>1. PICK j : j = k - n
      OBVIOUS
    <3>2. j \in 1..m /\ j \in 0..m /\ j - 1 \in 0..m /\ n + j = k /\ n + (j - 1) = k - 1
      BY <2>2, <3>1
    <3>3. (s \o t)[k] = t[j]
      BY <1>2, <2>2, <3>1
    <3>4. u[k] = b \o q[j] /\ u[k - 1] = b \o q[j - 1]
      BY <3>2, <1>7
    <3>5. t[j] \in Chars
      BY <3>2, <1>1, ElementOfSeq
    <3>6. Folded[t[j]] \in Seq(Units) /\ q[j - 1] \in Seq(Units) /\ q[j] = q[j - 1] \o Folded[t[j]]
      BY <3>2, <3>5, <1>4, FoldedIs
    <3>7. (b \o q[j - 1]) \o Folded[t[j]] = b \o (q[j - 1] \o Folded[t[j]])
      <4>1. PICK x \in Seq(Units), y \in Seq(Units) : x = q[j - 1] /\ y = Folded[t[j]]
        BY <3>6
      <4>2. (b \o x) \o y = b \o (x \o y)
        BY ONLY b \in Seq(Units), x \in Seq(Units), y \in Seq(Units), UnitsAssoc
      <4> QED BY <4>1, <4>2
    <3> QED BY <3>3, <3>4, <3>6, <3>7
  <2> QED BY <2>1, <2>2
<1>10. u[0] = <<>>
  BY <1>3, <1>7
<1>11. FoldedTo(s \o t, u)
  BY <1>2, <1>8, <1>9, <1>10 DEF FoldedTo
<1>12. Normal(s \o t) = u[n + m]
  BY <1>2, <1>11, NormalIs
<1>13. u[n + m] = b \o q[m]
  <2>1. m \in 0..m
    OBVIOUS
  <2> QED BY <2>1, <1>7
<1> QED BY <1>3, <1>4, <1>5, <1>12, <1>13

-----------------------------------------------------------------------------
(* The part of a text between two positions.                               *)
Span(s, p, q) == SubSeq(s, p + 1, q)

(* Where each character of a text begins in what it is folded to.          *)
IsCut(s, o) ==
  /\ o \in [0..Len(s) -> 0..Len(Normal(s))]
  /\ o[0] = 0 /\ o[Len(s)] = Len(Normal(s))
  /\ \A p \in 0..Len(s) : \A q \in 0..Len(s) : p < q => o[p] < o[q]
  /\ \A p \in 0..Len(s) : \A q \in 0..Len(s) :
       p <= q => Normal(Span(s, p, q)) = Span(Normal(s), o[p], o[q])
  /\ \A p \in 0..Len(s) : p < Len(s) => Normal(s)[o[p] + 1] # Accent
  /\ \A i \in 0..Len(Normal(s)) :
       (i = Len(Normal(s)) \/ Normal(s)[i + 1] # Accent) => \E p \in 0..Len(s) : o[p] = i

LEMMA SpanIs ==
  ASSUME NEW S, NEW s \in Seq(S), NEW p \in 0..Len(s), NEW q \in 0..Len(s), p <= q
  PROVE  /\ Span(s, p, q) \in Seq(S) /\ Len(Span(s, p, q)) = q - p
         /\ \A i \in 1..q - p : Span(s, p, q)[i] = s[p + i]
<1>1. Len(s) \in Nat
  BY LenProperties
<1>2. PICK a : a = p + 1
  OBVIOUS
<1>3. a \in 1..Len(s) + 1 /\ a <= q + 1 /\ q - a + 1 = q - p
  BY <1>1, <1>2
<1>4. /\ SubSeq(s, a, q) \in Seq(S) /\ Len(SubSeq(s, a, q)) = q - a + 1
      /\ \A i \in 1..q - a + 1 : SubSeq(s, a, q)[i] = s[a + i - 1]
  BY ONLY s \in Seq(S), q \in 0..Len(s), <1>3, Part
<1>5. \A i \in 1..q - p : a + i - 1 = p + i
  BY <1>1, <1>2
<1> QED BY <1>2, <1>3, <1>4, <1>5 DEF Span

LEMMA SpanJoin ==
  ASSUME NEW S, NEW s \in Seq(S), NEW p \in 0..Len(s), NEW q \in 0..Len(s), NEW r \in 0..Len(s),
         p <= q, q <= r
  PROVE  Span(s, p, r) = Span(s, p, q) \o Span(s, q, r)
<1>1. Len(s) \in Nat
  BY LenProperties
<1>2. PICK a : a = p + 1
  OBVIOUS
<1>3. a \in 1..Len(s) + 1 /\ q \in a - 1..Len(s) /\ r \in q..Len(s)
  BY <1>1, <1>2
<1>4. SubSeq(s, a, q) \o SubSeq(s, q + 1, r) = SubSeq(s, a, r)
  BY ONLY s \in Seq(S), <1>3, ConcatAdjacentSubSeq
<1> QED BY <1>2, <1>4 DEF Span

LEMMA SpanAll ==
  ASSUME NEW S, NEW s \in Seq(S)
  PROVE  /\ Span(s, 0, Len(s)) = s /\ Span(s, 0, 0) = <<>>
         /\ \A p \in 1..Len(s) : Span(s, p - 1, p) = <<s[p]>>
<1>1. SubSeq(s, 1, Len(s)) = s
  BY SubSeqFull
<1>2. SubSeq(s, 1, 0) = <<>>
  BY SubSeqEmpty
<1>3. 0 + 1 = 1
  OBVIOUS
<1>4. ASSUME NEW p \in 1..Len(s) PROVE Span(s, p - 1, p) = <<s[p]>>
  <2>1. (p - 1) + 1 = p /\ p \in Nat
    OBVIOUS
  <2>2. PICK x \in Seq(S) : x = <<s[p]>> /\ Len(x) = 1 /\ x[1] = s[p]
    BY ElementOfSeq, OfOne
  <2>3. p \in 1..Len(s) + 1 /\ p \in 0..Len(s) /\ p <= p + 1 /\ p - p + 1 = 1 /\ p + 1 - 1 = p
    BY LenProperties
  <2>4. /\ SubSeq(s, p, p) \in Seq(S) /\ Len(SubSeq(s, p, p)) = p - p + 1
        /\ \A i \in 1..p - p + 1 : SubSeq(s, p, p)[i] = s[p + i - 1]
    <3>1. PICK a, b : a = p /\ b = p
      OBVIOUS
    <3>2. a \in 1..Len(s) + 1 /\ b \in 0..Len(s) /\ a <= b + 1
      BY <2>3, <3>1
    <3>3. /\ SubSeq(s, a, b) \in Seq(S) /\ Len(SubSeq(s, a, b)) = b - a + 1
          /\ \A i \in 1..b - a + 1 : SubSeq(s, a, b)[i] = s[a + i - 1]
      BY ONLY s \in Seq(S), <3>2, Part
    <3> QED BY <3>1, <3>3
  <2>5. PICK y \in Seq(S) : y = SubSeq(s, p, p) /\ Len(y) = 1 /\ y[1] = s[p]
    <3>1. 1 \in 1..p - p + 1
      BY <2>3
    <3>2. SubSeq(s, p, p)[1] = s[p]
      BY <2>3, <2>4, <3>1
    <3> QED BY <2>3, <2>4, <3>2
  <2>6. \A i \in 1..1 : i = 1
    OBVIOUS
  <2>7. x = y
    BY <2>2, <2>5, <2>6, SeqEqual
  <2> QED BY <2>1, <2>2, <2>5, <2>7 DEF Span
<1> QED BY <1>1, <1>2, <1>3, <1>4 DEF Span

(* The middle of three sequences.                                          *)
LEMMA Middle ==
  ASSUME NEW S, NEW x \in Seq(S), NEW y \in Seq(S), NEW z \in Seq(S)
  PROVE  Span((x \o y) \o z, Len(x), Len(x \o y)) = y
<1>1. Len(x) \in Nat /\ Len(y) \in Nat /\ Len(z) \in Nat
  BY LenProperties
<1>2. PICK w \in Seq(S) : w = x \o y /\ Len(w) = Len(x) + Len(y)
  BY ConcatProperties
<1>3. PICK a, b : a = Len(x) + 1 /\ b = Len(w)
  OBVIOUS
<1>4. a \in 1..Len(w) + 1 /\ b \in 0..Len(w) /\ a <= b + 1
  BY <1>1, <1>2, <1>3
<1>5. SubSeq(w \o z, a, b) = SubSeq(w, a, b)
  BY ONLY w \in Seq(S), z \in Seq(S), <1>4, FrontOfConcat
<1>6. PICK c, d : c = 1 /\ d = Len(y)
  OBVIOUS
<1>7. c \in 1..Len(y) + 1 /\ d \in 0..Len(y) /\ c <= d + 1
  BY <1>1, <1>6
<1>8. SubSeq(x \o y, Len(x) + c, Len(x) + d) = SubSeq(y, c, d)
  BY ONLY x \in Seq(S), y \in Seq(S), <1>7, BackOfConcat
<1>9. SubSeq(y, 1, Len(y)) = y
  BY SubSeqFull
<1> QED BY <1>2, <1>3, <1>5, <1>6, <1>8, <1>9 DEF Span

LEMMA NormalNotEmpty ==
  ASSUME AccentsOnly, NEW s \in Seq(Chars), s # <<>>
  PROVE  /\ Len(Normal(s)) \in Nat \ {0}
         /\ Normal(s)[1] = Folded[s[1]][1] /\ Normal(s)[1] # Accent
<1>1. Len(s) \in Nat \ {0}
  BY EmptySeq
<1>2. PICK n \in Nat \ {0} : n = Len(s) /\ 0 \in 0..n /\ 1 \in 0..n /\ n \in 0..n /\ 1 \in 1..n
  BY <1>1
<1>3. PICK c \in Chars : c = s[1]
  BY <1>2, ElementOfSeq
<1>4. PICK u \in Seq(Chars) : u = Span(s, 1, n)
  <2>1. PICK a : a = 1
    OBVIOUS
  <2>2. a \in 0..Len(s) /\ n \in 0..Len(s) /\ a <= n
    BY <1>2, <2>1
  <2>3. Span(s, a, n) \in Seq(Chars)
    BY ONLY s \in Seq(Chars), <2>2, SpanIs
  <2> QED BY <2>1, <2>3
<1>5. s = <<c>> \o u
  <2>1. Span(s, 0, n) = Span(s, 0, 1) \o Span(s, 1, n)
    <3>1. PICK a, b : a = 0 /\ b = 1
      OBVIOUS
    <3>2. a \in 0..Len(s) /\ b \in 0..Len(s) /\ n \in 0..Len(s) /\ a <= b /\ b <= n
      BY <1>2, <3>1
    <3>3. Span(s, a, n) = Span(s, a, b) \o Span(s, b, n)
      BY ONLY s \in Seq(Chars), <3>2, SpanJoin
    <3> QED BY <3>1, <3>3
  <2>2. 1 - 1 = 0
    OBVIOUS
  <2>3. Span(s, 0, n) = s /\ Span(s, 0, 1) = <<s[1]>>
    BY <1>2, <2>2, SpanAll
  <2> QED BY <2>1, <2>3, <1>3, <1>4
<1>6. <<c>> \in Seq(Chars)
  BY OfOne
<1>7. Normal(s) = Folded[c] \o Normal(u)
  BY <1>5, <1>6, NormalOfConcat, NormalOfOne
<1>8. PICK f \in Seq(Units) : f = Folded[c] /\ Len(f) \in Nat \ {0} /\ f[1] # Accent
  BY FoldedIs
<1>9. PICK g \in Seq(Units) : g = Normal(u) /\ Len(g) \in Nat
  BY NormalInSeq, LenProperties
<1>10. /\ Len(f \o g) = Len(f) + Len(g)
       /\ \A i \in 1..Len(f) + Len(g) : (f \o g)[i] = IF i <= Len(f) THEN f[i] ELSE g[i - Len(f)]
  BY ConcatProperties
<1>11. 1 \in 1..Len(f) + Len(g) /\ 1 <= Len(f)
  BY <1>8, <1>9
<1> QED BY <1>3, <1>7, <1>8, <1>9, <1>10, <1>11

LEMMA CutExists ==
  ASSUME AccentsOnly, NEW s \in Seq(Chars)
  PROVE  \E o : IsCut(s, o)
<1>1. PICK n \in Nat : n = Len(s)
  BY LenProperties
<1>2. PICK h \in Seq(Units) : h = Normal(s) /\ Len(h) \in Nat
  BY NormalInSeq, LenProperties
<1>3. PICK o : o = [p \in 0..n |-> Len(Normal(Span(s, 0, p)))]
  OBVIOUS
<1>4. ASSUME NEW p \in 0..n, NEW q \in 0..n, p <= q
      PROVE  /\ Normal(Span(s, p, q)) = Span(h, o[p], o[q])
             /\ o[p] \in Nat /\ o[q] \in Nat /\ o[q] <= Len(h)
             /\ o[q] = o[p] + Len(Normal(Span(s, p, q)))
  <2>1. PICK a \in Seq(Chars) : a = Span(s, 0, p)
    BY <1>1, SpanIs
  <2>2. PICK b \in Seq(Chars) : b = Span(s, p, q)
    BY <1>1, <1>4, SpanIs
  <2>3. PICK c \in Seq(Chars) : c = Span(s, q, n)
    BY <1>1, SpanIs
  <2>0. 0 \in 0..Len(s) /\ n \in 0..Len(s) /\ p \in 0..Len(s) /\ q \in 0..Len(s) /\ 0 <= p /\ 0 <= q /\ q <= n
    BY <1>1
  <2>4. Span(s, 0, q) = a \o b
    BY <1>4, <2>0, <2>1, <2>2, SpanJoin
  <2>5. s = (a \o b) \o c
    <3>1. Span(s, 0, n) = Span(s, 0, q) \o Span(s, q, n)
      BY <2>0, SpanJoin
    <3> QED BY <3>1, <1>1, <2>3, <2>4, SpanAll
  <2>6. PICK x \in Seq(Units), y \in Seq(Units), z \in Seq(Units) :
          x = Normal(a) /\ y = Normal(b) /\ z = Normal(c)
    BY NormalInSeq
  <2>7. a \o b \in Seq(Chars)
    BY ConcatProperties
  <2>8. Normal(a \o b) = x \o y /\ h = (x \o y) \o z
    <3>1. PICK d \in Seq(Chars) : d = a \o b
      BY <2>7
    <3>2. Normal(d \o c) = Normal(d) \o Normal(c)
      BY NormalOfConcat
    <3>3. Normal(a \o b) = Normal(a) \o Normal(b)
      BY NormalOfConcat
    <3> QED BY <3>1, <3>2, <3>3, <1>2, <2>5, <2>6
  <2>9. o[p] = Len(x) /\ o[q] = Len(x \o y)
    BY <1>3, <2>1, <2>4, <2>6, <2>8
  <2>10. Span(h, o[p], o[q]) = y
    BY <2>8, <2>9, Middle
  <2>11. /\ Len(x) \in Nat /\ Len(y) \in Nat /\ Len(z) \in Nat
         /\ x \o y \in Seq(Units) /\ Len(x \o y) = Len(x) + Len(y)
    BY LenProperties, ConcatProperties
  <2>12. PICK w \in Seq(Units) : w = x \o y
    BY <2>11
  <2>13. Len(w \o z) = Len(w) + Len(z)
    BY ConcatProperties
  <2> QED BY <2>2, <2>6, <2>8, <2>9, <2>10, <2>11, <2>12, <2>13
<1>5. o[0] = 0 /\ o[n] = Len(h) /\ 0 \in 0..n /\ n \in 0..n
  <2>1. Span(s, 0, 0) = <<>> /\ Span(s, 0, n) = s
    BY <1>1, SpanAll
  <2>3. 0 \in 0..n /\ n \in 0..n
    BY <1>1
  <2>4. Len(<<>>) = 0
    BY EmptySeq
  <2> QED BY <1>2, <1>3, <2>1, <2>3, <2>4, NormalOfNone
<1>6. o \in [0..n -> 0..Len(h)]
  <2>1. \A p \in 0..n : o[p] \in 0..Len(h)
    BY <1>2, <1>4
  <2> QED BY <2>1, <1>3
<1>7. ASSUME NEW p \in 0..n, NEW q \in 0..n, p < q PROVE o[p] < o[q]
  <2>1. PICK b \in Seq(Chars) : b = Span(s, p, q) /\ Len(b) = q - p
    <3>1. p \in 0..Len(s) /\ q \in 0..Len(s) /\ p <= q
      BY <1>1, <1>7
    <3> QED BY ONLY s \in Seq(Chars), <3>1, SpanIs
  <2>2. b # <<>>
    <3>1. Len(b) # 0
      BY <2>1, <1>7
    <3> QED BY <3>1, EmptySeq
  <2>3. Len(Normal(b)) \in Nat \ {0}
    BY <2>2, NormalNotEmpty
  <2> QED BY <1>4, <1>7, <2>1, <2>3
<1>8. ASSUME NEW p \in 0..n, p < n PROVE h[o[p] + 1] # Accent
  <2>1. PICK b \in Seq(Chars) : b = Span(s, p, n) /\ Len(b) = n - p
    <3>1. p \in 0..Len(s) /\ n \in 0..Len(s) /\ p <= n
      BY <1>1
    <3> QED BY ONLY s \in Seq(Chars), <3>1, SpanIs
  <2>2. b # <<>>
    <3>1. Len(b) # 0
      BY <2>1, <1>8
    <3> QED BY <3>1, EmptySeq
  <2>3. Normal(b)[1] # Accent
    BY <2>2, NormalNotEmpty
  <2>4. Normal(b) = Span(h, o[p], o[n])
    BY <1>4, <1>5, <2>1
  <2>5. o[p] \in 0..Len(h) /\ o[n] \in 0..Len(h) /\ o[p] < o[n]
    BY <1>5, <1>6, <1>7, <1>8
  <2>6. PICK a, c : a = o[p] /\ c = o[n]
    OBVIOUS
  <2>7. a \in 0..Len(h) /\ c \in 0..Len(h) /\ a <= c /\ 1 \in 1..c - a
    BY <1>2, <2>5, <2>6
  <2>8. \A i \in 1..c - a : Span(h, a, c)[i] = h[a + i]
    BY ONLY h \in Seq(Units), <2>7, SpanIs
  <2> QED BY <2>3, <2>4, <2>6, <2>7, <2>8
<1>9. ASSUME NEW i \in 0..Len(h), i = Len(h) \/ h[i + 1] # Accent
      PROVE  \E p \in 0..n : o[p] = i
  <2>1. CASE i = Len(h)
    BY <2>1, <1>5
  <2>2. CASE i # Len(h)
    <3>1. PICK q \in 0..n : o[q] > i /\ \A r \in 0..n : o[r] > i => q <= r
      <4> DEFINE S == {q \in 0..n : o[q] > i}
      <4>1. n \in S /\ S \in SUBSET Nat
        BY <2>2, <1>2, <1>5
      <4>2. PICK q \in S : \A r \in S : q <= r
        BY <4>1, LeastOf
      <4> QED BY <4>2
    <3>2. q # 0
      BY <3>1, <1>5
    <3>3. PICK p \in 0..n : p = q - 1 /\ p < q /\ p + 1 = q
      BY <3>2
    <3>4. o[p] <= i
      BY <3>1, <3>3, <1>2, <1>6
    <3>5. CASE o[p] < i
      <4>1. PICK b \in Seq(Chars) : b = Span(s, p, q) /\ b = <<s[q]>>
        <5>1. q \in 1..Len(s)
          BY <1>1, <3>2
        <5>2. Span(s, q - 1, q) = <<s[q]>>
          BY <5>1, SpanAll
        <5>3. s[q] \in Chars
          BY <5>1, ElementOfSeq
        <5> QED BY <3>3, <5>2, <5>3, OfOne
      <4>2. s[q] \in Chars
        BY <1>1, <3>2, ElementOfSeq
      <4>3. PICK f \in Seq(Units) : /\ f = Folded[s[q]] /\ Len(f) \in Nat
                                    /\ \A j \in 2..Len(f) : f[j] = Accent
        BY <4>2, FoldedIs
      <4>4. f = Span(h, o[p], o[q])
        <5>1. Normal(b) = f
          BY <4>1, <4>2, <4>3, NormalOfOne
        <5>2. Normal(Span(s, p, q)) = Span(h, o[p], o[q])
          BY <1>4, <3>3
        <5> QED BY <5>1, <5>2, <4>1
      <4>5. o[p] \in 0..Len(h) /\ o[q] \in 0..Len(h)
        BY <1>6
      <4>6. PICK a, c : a = o[p] /\ c = o[q]
        OBVIOUS
      <4>7. a \in 0..Len(h) /\ c \in 0..Len(h) /\ a <= c
        BY <1>2, <4>5, <4>6, <3>1, <3>4
      <4>8. /\ Len(Span(h, a, c)) = c - a
            /\ \A j \in 1..c - a : Span(h, a, c)[j] = h[a + j]
        BY ONLY h \in Seq(Units), <4>7, SpanIs
      <4>9. PICK j : j = i + 1 - a
        OBVIOUS
      <4>10. j \in 2..c - a /\ a + j = i + 1 /\ j \in 1..c - a
        <5>1. a < i /\ i < c /\ a \in Nat /\ c \in Nat /\ i \in Nat
          BY <1>2, <3>1, <3>5, <4>6, <4>7
        <5> QED BY <5>1, <4>9
      <4>11. h[i + 1] = Accent
        BY <4>3, <4>4, <4>6, <4>8, <4>10
      <4> QED BY <4>11, <1>9, <2>2
    <3> QED BY <3>4, <3>5, <1>2, <1>6
  <2> QED BY <2>1, <2>2
<1>10. IsCut(s, o)
  BY <1>1, <1>2, <1>4, <1>5, <1>6, <1>7, <1>8, <1>9 DEF IsCut
<1> QED BY <1>10

-----------------------------------------------------------------------------
(* Where something is found in a text.                                     *)
Needles == {n \in Seq(Units) : n # <<>> /\ n[1] # Accent}

Occ(s, a, b, n) ==
  a \in 0..Len(s) /\ b \in 0..Len(s) /\ a < b /\ Normal(Span(s, a, b)) = n

LEMMA NeedleIs ==
  ASSUME NEW n \in Needles
  PROVE  n \in Seq(Units) /\ Len(n) \in Nat \ {0} /\ n[1] # Accent /\ 1 \in 1..Len(n)
<1>1. n \in Seq(Units) /\ n # <<>> /\ n[1] # Accent
  BY DEF Needles
<1>2. Len(n) \in Nat \ {0}
  BY <1>1, EmptySeq
<1>3. 1 \in 1..Len(n)
  BY <1>2
<1> QED BY <1>1, <1>2, <1>3

Aligned(s, o, h, m, k) ==
  /\ h = Normal(s) /\ m = Len(s) /\ k = Len(h)
  /\ o \in [0..m -> 0..k] /\ o[0] = 0 /\ o[m] = k
  /\ \A p \in 0..m : \A q \in 0..m : p < q <=> o[p] < o[q]
  /\ \A p \in 0..m : \A q \in 0..m : p <= q <=> o[p] <= o[q]
  /\ \A p \in 0..m : \A q \in 0..m : p <= q => Normal(Span(s, p, q)) = Span(h, o[p], o[q])
  /\ \A p \in 0..m : p < m => h[o[p] + 1] # Accent
  /\ \A i \in 0..k : (i = k \/ h[i + 1] # Accent) => \E p \in 0..m : o[p] = i

LEMMA CutIs ==
  ASSUME AccentsOnly, NEW s \in Seq(Chars), NEW o, IsCut(s, o)
  PROVE  \E h \in Seq(Units), m \in Nat, k \in Nat : Aligned(s, o, h, m, k)
<1>1. PICK h \in Seq(Units), m \in Nat, k \in Nat : h = Normal(s) /\ m = Len(s) /\ k = Len(h)
  BY NormalInSeq, LenProperties
<1>2. /\ o \in [0..m -> 0..k] /\ o[0] = 0 /\ o[m] = k
      /\ \A p \in 0..m : \A q \in 0..m : p < q => o[p] < o[q]
      /\ \A p \in 0..m : \A q \in 0..m : p <= q => Normal(Span(s, p, q)) = Span(h, o[p], o[q])
      /\ \A p \in 0..m : p < m => h[o[p] + 1] # Accent
      /\ \A i \in 0..k : (i = k \/ h[i + 1] # Accent) => \E p \in 0..m : o[p] = i
  BY <1>1 DEF IsCut
<1>3. ASSUME NEW p \in 0..m, NEW q \in 0..m
      PROVE  (p < q <=> o[p] < o[q]) /\ (p <= q <=> o[p] <= o[q])
  <2>1. o[p] \in Nat /\ o[q] \in Nat
    BY <1>2
  <2>2. (p < q => o[p] < o[q]) /\ (q < p => o[q] < o[p])
    BY <1>2
  <2>3. p < q \/ q < p \/ p = q
    OBVIOUS
  <2>4. CASE p = q
    BY <2>1, <2>4
  <2>5. CASE p < q
    BY <2>1, <2>2, <2>5
  <2>6. CASE q < p
    BY <2>1, <2>2, <2>6
  <2> QED BY <2>3, <2>4, <2>5, <2>6
<1> QED BY <1>1, <1>2, <1>3 DEF Aligned

LEMMA HitIs ==
  ASSUME AccentsOnly, NEW s \in Seq(Chars), NEW n \in Needles, NEW o, IsCut(s, o), NEW i
  PROVE  i \in Hits(s, n) <=> \E a, b : Occ(s, a, b, n) /\ o[a] = i
<1>0. PICK h \in Seq(Units), m \in Nat, k \in Nat : Aligned(s, o, h, m, k)
  BY CutIs
<1>1. /\ h = Normal(s) /\ m = Len(s) /\ k = Len(h)
      /\ o \in [0..m -> 0..k] /\ o[0] = 0 /\ o[m] = k
      /\ \A p \in 0..m : \A q \in 0..m : p < q <=> o[p] < o[q]
      /\ \A p \in 0..m : \A q \in 0..m : p <= q => Normal(Span(s, p, q)) = Span(h, o[p], o[q])
      /\ \A p \in 0..m : p < m => h[o[p] + 1] # Accent
      /\ \A j \in 0..k : (j = k \/ h[j + 1] # Accent) => \E p \in 0..m : o[p] = j
  BY <1>0 DEF Aligned
<1>len. k = Len(h)
  BY <1>1
<1>2. PICK l \in Nat \ {0} : l = Len(n)
  BY NeedleIs
<1>3. n \in Seq(Units) /\ n[1] # Accent /\ 1 \in 1..l
  BY <1>2, NeedleIs
<1>4. i \in Hits(s, n) <=>
        /\ i \in 0..k - l /\ i + l <= k /\ Span(h, i, i + l) = n
        /\ i + l < k => h[i + l + 1] # Accent
  BY <1>1, <1>2 DEF Hits, ExactPrefix, Span
<1>5. ASSUME i \in Hits(s, n) PROVE \E a, b : Occ(s, a, b, n) /\ o[a] = i
  <2>1. PICK j : j = i + l
    OBVIOUS
  <2>2. i \in 0..k /\ j \in 0..k /\ i <= j /\ i < j /\ j - i = l /\ i < k
    <3>1. i \in 0..k - l /\ i + l <= k
      BY <1>4, <1>5
    <3> QED BY <2>1, <3>1
  <2>3. \A x \in 1..j - i : Span(h, i, j)[x] = h[i + x]
    BY ONLY h \in Seq(Units), <2>2, <1>len, SpanIs
  <2>4. h[i + 1] = n[1]
    BY <1>3, <1>4, <1>5, <2>1, <2>2, <2>3
  <2>5. PICK a \in 0..m : o[a] = i
    BY <1>1, <1>3, <2>2, <2>4
  <2>6. j = k \/ h[j + 1] # Accent
    BY <1>4, <1>5, <2>1, <2>2
  <2>7. PICK b \in 0..m : o[b] = j
    BY <1>1, <2>2, <2>6
  <2>8. a < b /\ a <= b
    BY <1>1, <2>2, <2>5, <2>7
  <2>9. Normal(Span(s, a, b)) = n
    BY <1>1, <1>4, <1>5, <2>1, <2>5, <2>7, <2>8
  <2> QED BY <1>1, <2>5, <2>8, <2>9 DEF Occ
<1>6. ASSUME NEW a, NEW b, Occ(s, a, b, n), o[a] = i PROVE i \in Hits(s, n)
  <2>1. a \in 0..m /\ b \in 0..m /\ a < b /\ a <= b /\ Normal(Span(s, a, b)) = n
    BY <1>1, <1>6 DEF Occ
  <2>2. PICK j : j = o[b]
    OBVIOUS
  <2>3. i \in 0..k /\ j \in 0..k /\ i < j /\ i <= j
    BY <1>1, <1>6, <2>1, <2>2
  <2>4. Span(h, i, j) = n
    BY <1>1, <1>6, <2>1, <2>2
  <2>5. Len(Span(h, i, j)) = j - i
    BY ONLY h \in Seq(Units), <2>3, <1>len, SpanIs
  <2>6. i + l = j /\ i \in 0..k - l /\ i + l <= k
    BY <1>2, <2>3, <2>4, <2>5
  <2>7. ASSUME j < k PROVE h[j + 1] # Accent
    <3>1. b < m
      BY <1>1, <2>1, <2>2, <2>7
    <3> QED BY <1>1, <2>1, <2>2, <3>1
  <2> QED BY <1>4, <2>4, <2>6, <2>7
<1> QED BY <1>5, <1>6

LEMMA SkippingIs ==
  ASSUME AccentsOnly, NEW s \in Seq(Chars), NEW o, IsCut(s, o),
         NEW from \in 0..Len(s), NEW b \in 0..Len(s), from <= b
  PROVE  Skipping(s, from, o[b] - o[from]) = b
<1>0. PICK h \in Seq(Units), m \in Nat, k \in Nat : Aligned(s, o, h, m, k)
  BY CutIs
<1>1. /\ h = Normal(s) /\ m = Len(s) /\ k = Len(h)
      /\ o \in [0..m -> 0..k] /\ o[0] = 0 /\ o[m] = k
      /\ \A p \in 0..m : \A q \in 0..m : p <= q <=> o[p] <= o[q]
      /\ \A p \in 0..m : \A q \in 0..m : p <= q => Normal(Span(s, p, q)) = Span(h, o[p], o[q])
  BY <1>0 DEF Aligned
<1>len. k = Len(h)
  BY <1>1
<1>2. ASSUME NEW p \in from..m PROVE Len(Normal(SubSeq(s, from + 1, p))) = o[p] - o[from]
  <2>1. p \in 0..m /\ from \in 0..m /\ from <= p
    BY <1>1
  <2>2. PICK i, j : i = o[from] /\ j = o[p]
    OBVIOUS
  <2>3. i \in 0..k /\ j \in 0..k /\ i <= j
    BY <1>1, <2>1, <2>2
  <2>4. Len(Span(h, i, j)) = j - i
    BY ONLY h \in Seq(Units), <2>3, <1>len, SpanIs
  <2> QED BY <1>1, <2>1, <2>2, <2>4 DEF Span
<1> DEFINE far == {p \in from..m : Len(Normal(SubSeq(s, from + 1, p))) >= o[b] - o[from]}
<1>3. \A p \in from..m : p \in far <=> b <= p
  <2>1. ASSUME NEW p \in from..m PROVE p \in far <=> b <= p
    <3>1. p \in 0..m /\ b \in 0..m /\ from \in 0..m
      BY <1>1
    <3>2. o[p] \in Nat /\ o[b] \in Nat /\ o[from] \in Nat /\ (b <= p <=> o[b] <= o[p])
      BY <1>1, <3>1
    <3> QED BY <1>2, <3>2
  <2> QED BY <2>1
<1>4. far \subseteq from..m /\ b \in from..m
  BY <1>1
<1>5. Skipping(s, from, o[b] - o[from]) = IF far = {} THEN m ELSE CHOOSE p \in far : \A q \in far : p <= q
  BY <1>1 DEF Skipping
<1> HIDE DEF far
<1>6. b \in far /\ \A q \in far : b <= q
  BY <1>1, <1>3, <1>4
<1>7. \A p \in far : (\A q \in far : p <= q) => p = b
  BY <1>1, <1>4, <1>6
<1> QED BY <1>5, <1>6, <1>7

LEMMA SkippingTyped ==
  ASSUME NEW s, NEW m \in Nat, m = Len(s), NEW from \in 0..m, NEW count
  PROVE  Skipping(s, from, count) \in from..m
<1> DEFINE far == {p \in from..m : Len(Normal(SubSeq(s, from + 1, p))) >= count}
<1>1. Skipping(s, from, count) = IF far = {} THEN m ELSE CHOOSE p \in far : \A q \in far : p <= q
  BY DEF Skipping
<1>2. far \subseteq from..m /\ far \subseteq Nat
  OBVIOUS
<1> HIDE DEF far
<1>3. CASE far = {}
  BY <1>1, <1>3
<1>4. CASE far # {}
  <2>1. \E p \in far : \A q \in far : p <= q
    BY <1>2, <1>4, LeastOf
  <2> QED BY <1>1, <1>2, <1>4, <2>1
<1> QED BY <1>3, <1>4

-----------------------------------------------------------------------------
(* The first and the last place in a text.                                 *)
FirstAt(s, n, a) ==
  (\E b : Occ(s, a, b, n)) /\ \A c, d : Occ(s, c, d, n) => a <= c

LastAt(s, n, a) ==
  (\E b : Occ(s, a, b, n)) /\ \A c, d : Occ(s, c, d, n) => c <= a

LEMMA FirstFound ==
  ASSUME AccentsOnly, NEW s \in Seq(Chars), NEW n \in Needles
  PROVE  IF \E a, b : Occ(s, a, b, n)
         THEN StrCaseStr(s, n) \in 0..Len(s) /\ FirstAt(s, n, StrCaseStr(s, n))
         ELSE StrCaseStr(s, n) = -1
<1>1. PICK o : IsCut(s, o)
  BY CutExists
<1>2. PICK h \in Seq(Units), m \in Nat, k \in Nat : Aligned(s, o, h, m, k)
  BY <1>1, CutIs
<1>3. /\ m = Len(s) /\ o \in [0..m -> 0..k] /\ o[0] = 0 /\ 0 \in 0..m
      /\ \A p \in 0..m : \A q \in 0..m : p <= q <=> o[p] <= o[q]
  BY <1>2 DEF Aligned
<1>4. PICK hits : hits = Hits(s, n)
  OBVIOUS
<1>5. \A i : i \in hits <=> \E a, b : Occ(s, a, b, n) /\ o[a] = i
  BY <1>1, <1>4, HitIs
<1>6. \A a, b : Occ(s, a, b, n) => a \in 0..m /\ o[a] \in Nat
  BY <1>3 DEF Occ
<1>7. CASE hits = {}
  <2>1. StrCaseStr(s, n) = -1
    BY <1>4, <1>7 DEF StrCaseStr
  <2> QED BY <1>5, <1>7, <2>1
<1>8. CASE hits # {}
  <2>1. hits \in SUBSET Nat
    BY <1>5, <1>6
  <2>2. \E i \in hits : \A j \in hits : i <= j
    BY <1>8, <2>1, LeastOf
  <2>3. PICK i : i = CHOOSE x \in hits : \A j \in hits : x <= j
    OBVIOUS
  <2>4. i \in hits /\ \A j \in hits : i <= j
    BY <2>2, <2>3
  <2>5. StrCaseStr(s, n) = Skipping(s, 0, i)
    BY <1>4, <1>8, <2>3 DEF StrCaseStr
  <2>6. PICK a, b : Occ(s, a, b, n) /\ o[a] = i
    BY <1>5, <2>4
  <2>7. a \in 0..m /\ o[a] \in Nat /\ o[a] - o[0] = i /\ 0 <= a
    BY <1>3, <1>6, <2>6
  <2>8. Skipping(s, 0, i) = a
    <3>1. 0 \in 0..Len(s) /\ a \in 0..Len(s)
      BY <1>3, <2>7
    <3>2. Skipping(s, 0, o[a] - o[0]) = a
      BY <1>1, <2>7, <3>1, SkippingIs
    <3> QED BY <2>7, <3>2
  <2>9. ASSUME NEW c, NEW d, Occ(s, c, d, n) PROVE a <= c
    <3>1. o[c] \in hits /\ c \in 0..m
      BY <1>5, <1>6, <2>9
    <3>2. o[a] <= o[c]
      BY <2>4, <2>6, <3>1
    <3> QED BY <1>3, <2>7, <3>1, <3>2
  <2> QED BY <1>3, <2>5, <2>6, <2>7, <2>8, <2>9 DEF FirstAt
<1> QED BY <1>7, <1>8

LEMMA GreatestOf ==
  ASSUME NEW m \in Nat, NEW S \in SUBSET (0..m), S # {}
  PROVE  \E c \in S : \A d \in S : d <= c
<1> DEFINE T == {x \in Nat : m - x \in S}
<1>1. T \in SUBSET Nat /\ T # {}
  <2>1. PICK c \in S : TRUE
    OBVIOUS
  <2>2. m - c \in Nat /\ m - (m - c) = c
    BY <2>1
  <2> QED BY <2>1, <2>2
<1>2. PICK x \in T : \A y \in T : x <= y
  <2> HIDE DEF T
  <2> QED BY <1>1, LeastOf
<1>3. m - x \in S /\ x \in Nat
  BY <1>2
<1>4. ASSUME NEW d \in S PROVE d <= m - x
  <2>1. d \in Nat /\ m - d \in Nat /\ m - (m - d) = d
    OBVIOUS
  <2>2. m - d \in T
    BY <2>1
  <2>3. x <= m - d
    BY <1>2, <2>2
  <2> QED BY <1>3, <2>1, <2>3
<1> QED BY <1>3, <1>4

LEMMA LastFound ==
  ASSUME AccentsOnly, NEW s \in Seq(Chars), NEW n \in Needles
  PROVE  IF \E a, b : Occ(s, a, b, n)
         THEN StrRCaseStr(s, n) \in 0..Len(s) /\ LastAt(s, n, StrRCaseStr(s, n))
         ELSE StrRCaseStr(s, n) = -1
<1>1. PICK o : IsCut(s, o)
  BY CutExists
<1>2. PICK h \in Seq(Units), m \in Nat, k \in Nat : Aligned(s, o, h, m, k)
  BY <1>1, CutIs
<1>3. /\ m = Len(s) /\ o \in [0..m -> 0..k] /\ o[0] = 0 /\ 0 \in 0..m
      /\ \A p \in 0..m : \A q \in 0..m : p <= q <=> o[p] <= o[q]
  BY <1>2 DEF Aligned
<1>4. PICK hits : hits = Hits(s, n)
  OBVIOUS
<1>5. \A i : i \in hits <=> \E a, b : Occ(s, a, b, n) /\ o[a] = i
  BY <1>1, <1>4, HitIs
<1>6. \A a, b : Occ(s, a, b, n) => a \in 0..m /\ o[a] \in 0..k
  BY <1>3 DEF Occ
<1>7. CASE hits = {}
  <2>1. StrRCaseStr(s, n) = -1
    BY <1>4, <1>7 DEF StrRCaseStr
  <2> QED BY <1>5, <1>7, <2>1
<1>8. CASE hits # {}
  <2>1. hits \in SUBSET (0..k)
    BY <1>5, <1>6
  <2>2. \E i \in hits : \A j \in hits : i >= j
    <3>1. PICK i \in hits : \A j \in hits : j <= i
      BY <1>8, <2>1, GreatestOf
    <3>2. \A j \in hits : i >= j
      BY <2>1, <3>1
    <3> QED BY <3>2
  <2>3. PICK i : i = CHOOSE x \in hits : \A j \in hits : x >= j
    OBVIOUS
  <2>4. i \in hits /\ \A j \in hits : i >= j
    BY <2>2, <2>3
  <2>5. StrRCaseStr(s, n) = Skipping(s, 0, i)
    BY <1>4, <1>8, <2>3 DEF StrRCaseStr
  <2>6. PICK a, b : Occ(s, a, b, n) /\ o[a] = i
    BY <1>5, <2>4
  <2>7. a \in 0..m /\ o[a] \in Nat /\ o[a] - o[0] = i /\ 0 <= a
    BY <1>3, <1>6, <2>6
  <2>8. Skipping(s, 0, i) = a
    <3>1. 0 \in 0..Len(s) /\ a \in 0..Len(s)
      BY <1>3, <2>7
    <3>2. Skipping(s, 0, o[a] - o[0]) = a
      BY <1>1, <2>7, <3>1, SkippingIs
    <3> QED BY <2>7, <3>2
  <2>9. ASSUME NEW c, NEW d, Occ(s, c, d, n) PROVE c <= a
    <3>1. o[c] \in hits /\ c \in 0..m /\ o[c] \in Nat
      BY <1>3, <1>5, <1>6, <2>9
    <3>2. o[c] <= o[a]
      BY <2>4, <2>6, <2>7, <3>1
    <3> QED BY <1>3, <2>7, <3>1, <3>2
  <2> QED BY <1>3, <2>5, <2>6, <2>7, <2>8, <2>9 DEF LastAt
<1> QED BY <1>7, <1>8

LEMMA OccInSpan ==
  ASSUME NEW s \in Seq(Chars), NEW p \in 0..Len(s), NEW q \in 0..Len(s), p <= q, NEW n,
         NEW a \in Int, NEW b \in Int
  PROVE  Occ(Span(s, p, q), a, b, n) <=> p <= p + a /\ p + b <= q /\ Occ(s, p + a, p + b, n)
<1>1. PICK m \in Nat : m = Len(s)
  BY LenProperties
<1>2. PICK t \in Seq(Chars) : t = Span(s, p, q) /\ Len(t) = q - p /\ \A i \in 1..q - p : t[i] = s[p + i]
  <2>1. /\ Span(s, p, q) \in Seq(Chars) /\ Len(Span(s, p, q)) = q - p
        /\ \A i \in 1..q - p : Span(s, p, q)[i] = s[p + i]
    BY ONLY s \in Seq(Chars), p \in 0..Len(s), q \in 0..Len(s), p <= q, SpanIs
  <2> QED BY <2>1
<1>3. ASSUME 0 <= a, a < b, b <= q - p PROVE Span(t, a, b) = Span(s, p + a, p + b)
  <2>1. PICK c, d : c = p + a /\ d = p + b
    OBVIOUS
  <2>2. c \in 0..Len(s) /\ d \in 0..Len(s) /\ c <= d /\ d - c = b - a
    BY <1>1, <1>3, <2>1
  <2>3. PICK u \in Seq(Chars) : /\ u = Span(s, c, d) /\ Len(u) = d - c
                                /\ \A i \in 1..d - c : u[i] = s[c + i]
    BY ONLY s \in Seq(Chars), <2>2, SpanIs
  <2>4. a \in 0..Len(t) /\ b \in 0..Len(t) /\ a <= b
    BY <1>2, <1>3
  <2>5. PICK v \in Seq(Chars) : /\ v = Span(t, a, b) /\ Len(v) = b - a
                                /\ \A i \in 1..b - a : v[i] = t[a + i]
    BY ONLY t \in Seq(Chars), <2>4, SpanIs
  <2>6. ASSUME NEW i \in 1..b - a PROVE v[i] = u[i]
    <3>1. a + i \in 1..q - p /\ p + (a + i) = c + i /\ i \in 1..d - c
      BY <1>1, <1>3, <2>1, <2>2
    <3> QED BY <3>1, <1>2, <2>3, <2>5
  <2>7. u = v
    BY <2>2, <2>3, <2>5, <2>6, SeqEqual
  <2> QED BY <2>1, <2>3, <2>5, <2>7
<1>4. Occ(t, a, b, n) <=> 0 <= a /\ a < b /\ b <= q - p /\ Normal(Span(t, a, b)) = n
  BY <1>1, <1>2 DEF Occ
<1>5. Occ(s, p + a, p + b, n) <=>
        /\ 0 <= p + a /\ p + a < p + b /\ p + b <= m
        /\ Normal(Span(s, p + a, p + b)) = n
  BY <1>1 DEF Occ
<1>6. (p <= p + a <=> 0 <= a) /\ (p + b <= q <=> b <= q - p) /\ (p + a < p + b <=> a < b) /\ p <= m /\ q <= m
  BY <1>1
<1>7. 0 <= a /\ a < b /\ b <= q - p => 0 <= p + a /\ p + a < p + b /\ p + b <= m
  BY <1>1
<1> QED BY <1>2, <1>3, <1>4, <1>5, <1>6, <1>7

-----------------------------------------------------------------------------
(* The lines of a text.                                                    *)
LEMMA StartsIn ==
  ASSUME NEW s \in Seq(Chars), NEW m \in Nat, m = Len(s)
  PROVE  /\ LineStarts(s) \subseteq 0..m /\ 0 \in LineStarts(s)
         /\ \A p \in 1..m : p \in LineStarts(s) <=> s[p] = Newline
BY DEF LineStarts

LEMMA NextLineIs ==
  ASSUME NEW s \in Seq(Chars), NEW m \in Nat, m = Len(s), NEW p \in 0..m
  PROVE  /\ NextLine(s, p) \in p..m
         /\ p < m => /\ p < NextLine(s, p)
                     /\ NextLine(s, p) = m \/ NextLine(s, p) \in LineStarts(s)
                     /\ \A r \in LineStarts(s) : r > p => NextLine(s, p) <= r
<1> DEFINE after == {q \in LineStarts(s) \cup {m} : q > p}
<1>1. NextLine(s, p) = IF after = {} THEN p ELSE CHOOSE q \in after : \A r \in after : q <= r
  BY DEF NextLine
<1>2. after \subseteq (p + 1)..m /\ after \subseteq Nat
  BY StartsIn
<1>3. CASE after = {}
  <2>1. ~(p < m)
    BY <1>3
  <2>2. NextLine(s, p) = p
    BY <1>1, <1>3
  <2> QED BY <2>1, <2>2
<1>4. CASE after # {}
  <2> DEFINE least == CHOOSE q \in after : \A r \in after : q <= r
  <2>1. least \in after /\ \A r \in after : least <= r
    <3> HIDE DEF after
    <3> QED BY <1>2, <1>4, LeastOf
  <2>2. NextLine(s, p) = least
    BY <1>1, <1>4
  <2> HIDE DEF least
  <2> QED BY <1>2, <2>1, <2>2
<1> QED BY <1>3, <1>4

LEMMA LineStartIs ==
  ASSUME NEW s \in Seq(Chars), NEW m \in Nat, m = Len(s), NEW p \in 0..m
  PROVE  /\ LineStart(s, p) \in LineStarts(s) /\ LineStart(s, p) \in 0..p
         /\ \A r \in LineStarts(s) : r <= p => r <= LineStart(s, p)
<1> DEFINE before == {q \in LineStarts(s) : q <= p}
<1>1. LineStarts(s) \subseteq 0..m /\ 0 \in LineStarts(s)
  BY StartsIn
<1>2. before \in SUBSET (0..p) /\ before # {}
  BY <1>1
<1>3. PICK c \in before : \A d \in before : d <= c
  <2>1. p \in Nat
    OBVIOUS
  <2> HIDE DEF before
  <2> QED BY <1>2, <2>1, GreatestOf
<1>4. c \in LineStarts(s) /\ c <= p /\ \A r \in LineStarts(s) : r > c => r > p
  BY <1>1, <1>3
<1>5. PICK q : q = LineStart(s, p)
  OBVIOUS
<1>6. q \in LineStarts(s) /\ q <= p /\ \A r \in LineStarts(s) : r > q => r > p
  BY <1>4, <1>5 DEF LineStart
<1> QED BY <1>1, <1>5, <1>6

(* What follows the first line of a pattern.                               *)
LEMMA RestIs ==
  ASSUME NEW s, NEW m \in Nat, m = Len(s), NEW X, NEW lines \in Seq(X), NEW pos \in -1..m
  PROVE  /\ RestMatches(s, pos, lines) \in -1..m
         /\ Len(lines) = 0 => RestMatches(s, pos, lines) = pos
<1> DEFINE Go(p, line) ==
             IF p = -1 \/ p = Len(s) THEN -1
             ELSE IF CaselessNMatch(SubSeq(s, p + 1, NextLine(s, p)), line)
                  THEN Skipping(s, p, Len(line)) ELSE -1
<1>1. PICK n \in Nat : n = Len(lines) /\ DOMAIN lines = 1..n
  BY LenProperties
<1> DEFINE T == SUBSET (1..n)
           IsFold(it) == it = [t \in T |-> IF t = {} THEN pos
                                           ELSE Go(it[t \ {Max(t)}], lines[Max(t)])]
           fold == CHOOSE it : IsFold(it)
           V == -1..m
           U == V \cup {fold[t] : t \in T}
           G == [k \in 1..n |-> [u \in U |-> Go(u, lines[k])]]
           G1 == [k \in 1..n |-> [u \in V |-> Go(u, lines[k])]]
<1>2. \A u \in V : \A k \in 1..n : Go(u, lines[k]) \in V
  <2>1. ASSUME NEW u \in V, NEW k \in 1..n, u # -1
        PROVE  Skipping(s, u, Len(lines[k])) \in V
    <3>1. u \in 0..m
      BY <2>1
    <3>2. Skipping(s, u, Len(lines[k])) \in u..m
      BY <3>1, SkippingTyped
    <3> QED BY <3>1, <3>2
  <2> QED BY <2>1
<1>4. RestMatches(s, pos, lines) = fold[1..n]
  BY <1>1 DEF RestMatches, FoldLeft, MapThenFoldSet
<1> HIDE DEF Go
<1>5. \E it : IsFold(it)
  <2>1. \A u \in V : \A k \in 1..n : G1[k][u] = Go(u, lines[k]) /\ G1[k][u] \in V
    BY <1>2
  <2> HIDE DEF G1, V
  <2>2. pos \in V
    BY DEF V
  <2>3. PICK it \in [T -> V] : Folds(it, n, pos, G1)
    BY <2>1, <2>2, FoldsExist
  <2>4. ASSUME NEW t \in T, t # {} PROVE G1[Max(t)][it[t \ {Max(t)}]] = Go(it[t \ {Max(t)}], lines[Max(t)])
    <3>1. Max(t) \in 1..n /\ t \ {Max(t)} \in T
      BY <2>4, MaxIn
    <3> QED BY <2>1, <2>3, <3>1
  <2>5. IsFold(it)
    BY <2>3, <2>4 DEF Folds
  <2> QED BY <2>5
<1>6. IsFold(fold)
  BY <1>5
<1> HIDE DEF fold
<1>7. \A u \in U : \A k \in 1..n : G[k][u] = Go(u, lines[k])
  OBVIOUS
<1>8. Folds(fold, n, pos, G)
  <2>1. ASSUME NEW t \in T, t # {} PROVE G[Max(t)][fold[t \ {Max(t)}]] = Go(fold[t \ {Max(t)}], lines[Max(t)])
    <3>1. Max(t) \in 1..n /\ t \ {Max(t)} \in T
      BY <2>1, MaxIn
    <3>2. fold[t \ {Max(t)}] \in U
      BY <3>1
    <3> HIDE DEF G, U
    <3> QED BY <1>7, <3>1, <3>2
  <2> HIDE DEF G
  <2> QED BY <1>6, <2>1 DEF Folds
<1>9. \A u \in V : \A k \in 1..n : G[k][u] = Go(u, lines[k]) /\ G[k][u] \in V
  BY <1>2, <1>7
<1> HIDE DEF G
<1>10. PICK r : Steps(V, pos, G, n, r)
  <2>1. pos \in V
    OBVIOUS
  <2> HIDE DEF V
  <2> QED BY <1>9, <2>1, StepsExist
<1>11. fold[1..n] = r[n]
  BY <1>8, <1>10, FoldsStep
<1>12. r \in [0..n -> V] /\ r[0] = pos /\ n \in 0..n
  BY <1>10 DEF Steps
<1> QED BY <1>1, <1>4, <1>11, <1>12

-----------------------------------------------------------------------------
(* The place of a match.                                                   *)
LEMMA OccIn ==
  ASSUME NEW s \in Seq(Chars), NEW a, NEW b, NEW n, Occ(s, a, b, n)
  PROVE  a \in 0..Len(s) /\ b \in 0..Len(s) /\ a \in Nat /\ b \in Nat /\ a < b
<1>1. Len(s) \in Nat
  BY LenProperties
<1> QED BY <1>1 DEF Occ

LEMMA MatchIs ==
  ASSUME AccentsOnly, NEW s \in Seq(Chars), NEW n \in Needles, NEW a, NEW b, Occ(s, a, b, n),
         NEW p \in Nat, NEW offset \in Nat, p + offset = a
  PROVE  MatchFrom(s, p, offset, <<n>>) = [start |-> a, end |-> b]
<1>1. PICK o : IsCut(s, o)
  BY CutExists
<1>2. PICK h \in Seq(Units), m \in Nat, k \in Nat : Aligned(s, o, h, m, k)
  BY <1>1, CutIs
<1>3. /\ m = Len(s) /\ k = Len(h) /\ o \in [0..m -> 0..k]
      /\ \A x \in 0..m : \A y \in 0..m : x <= y <=> o[x] <= o[y]
      /\ \A x \in 0..m : \A y \in 0..m : x <= y => Normal(Span(s, x, y)) = Span(h, o[x], o[y])
  BY <1>2 DEF Aligned
<1>4. a \in 0..m /\ b \in 0..m /\ a <= b /\ Normal(Span(s, a, b)) = n
  BY <1>3 DEF Occ
<1>5. PICK i, j : i = o[a] /\ j = o[b]
  OBVIOUS
<1>6. i \in 0..k /\ j \in 0..k /\ i <= j
  BY <1>3, <1>4, <1>5
<1>7. Len(Span(h, i, j)) = j - i
  BY ONLY h \in Seq(Units), <1>3, <1>6, SpanIs
<1>8. Len(n) = o[b] - o[a]
  BY <1>3, <1>4, <1>5, <1>7
<1>9. Skipping(s, a, Len(n)) = b
  BY <1>1, <1>3, <1>4, <1>8, SkippingIs
<1>10. PICK rest \in Seq(Needles) : rest = Tail(<<n>>) /\ Len(rest) = 0
  <2>1. PICK w \in Seq(Needles) : w = <<n>> /\ Len(w) = 1
    BY OfOne
  <2>2. w # <<>>
    BY <2>1, EmptySeq
  <2>3. Tail(w) \in Seq(Needles) /\ Len(Tail(w)) = Len(w) - 1
    BY ONLY w \in Seq(Needles), <2>2, HeadTailProperties
  <2>4. Len(Tail(w)) = 0
    BY <2>1, <2>3
  <2>5. PICK rest : rest = Tail(w)
    OBVIOUS
  <2>6. rest = Tail(<<n>>)
    BY <2>1, <2>5, Zenon
  <2> QED BY <2>3, <2>4, <2>5, <2>6, Zenon
<1>11. b \in -1..m /\ b # -1
  BY <1>3, <1>4
<1>12. RestMatches(s, b, rest) = b
  BY <1>3, <1>10, <1>11, RestIs
<1>13. offset # -1 /\ <<n>>[1] = n
  OBVIOUS
<1> QED BY <1>9, <1>10, <1>11, <1>12, <1>13 DEF MatchFrom

(* The match at the first, or at the last, place between p and q, if there *)
(* is one.                                                                 *)
FirstIn(s, p, q, n, match) ==
  \/ /\ match = NoMatch
     /\ \A c, d : ~(Occ(s, c, d, n) /\ p <= c /\ d <= q)
  \/ \E a, b : /\ match = [start |-> a, end |-> b] /\ match # NoMatch
               /\ Occ(s, a, b, n) /\ p <= a /\ b <= q
               /\ \A c, d : Occ(s, c, d, n) /\ p <= c /\ d <= q => a <= c

LastIn(s, p, q, n, match) ==
  \/ /\ match = NoMatch
     /\ \A c, d : ~(Occ(s, c, d, n) /\ p <= c /\ d <= q)
  \/ \E a, b : /\ match = [start |-> a, end |-> b] /\ match # NoMatch
               /\ Occ(s, a, b, n) /\ p <= a /\ b <= q
               /\ \A c, d : Occ(s, c, d, n) /\ p <= c /\ d <= q => c <= a

LEMMA PlaceIsMatch ==
  ASSUME NEW a \in Nat, NEW b
  PROVE  [start |-> a, end |-> b] # NoMatch
<1>1. [start |-> a, end |-> b].start # NoMatch.start
  BY DEF NoMatch
<1> QED BY <1>1

(* Places in a part of a text, as places of the text. *)
LEMMA PartPlaces ==
  ASSUME NEW s \in Seq(Chars), NEW p \in 0..Len(s), NEW q \in 0..Len(s), p <= q, NEW n
  PROVE  /\ \A a, b : Occ(Span(s, p, q), a, b, n) =>
                        a \in Nat /\ b \in Nat /\ Occ(s, p + a, p + b, n) /\ p + b <= q
         /\ \A c, d : Occ(s, c, d, n) /\ p <= c /\ d <= q =>
                        c - p \in Nat /\ Occ(Span(s, p, q), c - p, d - p, n)
<1>0. Len(s) \in Nat
  BY LenProperties
<1>1. ASSUME NEW a, NEW b, Occ(Span(s, p, q), a, b, n)
      PROVE  a \in Nat /\ b \in Nat /\ Occ(s, p + a, p + b, n) /\ p + b <= q
  <2>1. Span(s, p, q) \in Seq(Chars)
    BY SpanIs
  <2>2. a \in Nat /\ b \in Nat
    BY <1>1, <2>1, OccIn
  <2>3. a \in Int /\ b \in Int
    BY <2>2
  <2> QED BY <1>1, <2>2, <2>3, OccInSpan
<1>2. ASSUME NEW c, NEW d, Occ(s, c, d, n), p <= c, d <= q
      PROVE  c - p \in Nat /\ Occ(Span(s, p, q), c - p, d - p, n)
  <2>1. c \in Nat /\ d \in Nat
    BY <1>2, OccIn
  <2>2. PICK a \in Int, b \in Int : a = c - p /\ b = d - p /\ p + a = c /\ p + b = d
    <3>1. c - p \in Int /\ d - p \in Int /\ p + (c - p) = c /\ p + (d - p) = d
      BY <1>0, <2>1
    <3> QED BY <3>1
  <2>3. Occ(Span(s, p, q), a, b, n)
    BY <1>2, <2>2, OccInSpan
  <2>4. c - p \in Nat
    BY <1>0, <1>2, <2>1
  <2> QED BY <2>2, <2>3, <2>4
<1> QED BY <1>1, <1>2

LEMMA FirstInLine ==
  ASSUME AccentsOnly, NEW s \in Seq(Chars), NEW n \in Needles,
         NEW p \in 0..Len(s), NEW q \in 0..Len(s), p <= q
  PROVE  FirstIn(s, p, q, n, MatchFrom(s, p, StrCaseStr(Span(s, p, q), n), <<n>>))
<1>1. Len(s) \in Nat /\ p \in Nat
  BY LenProperties
<1>2. PICK t \in Seq(Chars) : t = Span(s, p, q)
  BY SpanIs
<1>3. PICK i : i = StrCaseStr(t, n)
  OBVIOUS
<1>4. IF \E a, b : Occ(t, a, b, n) THEN i \in 0..Len(t) /\ FirstAt(t, n, i) ELSE i = -1
  BY <1>3, FirstFound
<1>5. /\ \A a, b : Occ(t, a, b, n) =>
                     a \in Nat /\ b \in Nat /\ Occ(s, p + a, p + b, n) /\ p + b <= q
      /\ \A c, d : Occ(s, c, d, n) /\ p <= c /\ d <= q =>
                     c - p \in Nat /\ Occ(t, c - p, d - p, n)
  BY <1>2, PartPlaces
<1>6. CASE \E a, b : Occ(t, a, b, n)
  <2>1. PICK j : Occ(t, i, j, n)
    BY <1>4, <1>6 DEF FirstAt
  <2>2. i \in Nat /\ j \in Nat /\ Occ(s, p + i, p + j, n) /\ p + j <= q
    BY <1>5, <2>1
  <2>3. MatchFrom(s, p, i, <<n>>) = [start |-> p + i, end |-> p + j]
    BY <1>1, <2>2, MatchIs
  <2>4. ASSUME NEW c, NEW d, Occ(s, c, d, n), p <= c, d <= q PROVE p + i <= c
    <3>1. c - p \in Nat /\ i <= c - p
      BY <1>4, <1>5, <1>6, <2>4 DEF FirstAt
    <3>2. c \in Nat
      BY <2>4, OccIn
    <3> QED BY <1>1, <2>2, <3>1, <3>2
  <2>5. p <= p + i /\ p + i \in Nat
    BY <1>1, <2>2
  <2>6. [start |-> p + i, end |-> p + j] # NoMatch
    BY <2>5, PlaceIsMatch
  <2> QED BY <1>2, <1>3, <2>2, <2>3, <2>4, <2>5, <2>6 DEF FirstIn
<1>7. CASE ~\E a, b : Occ(t, a, b, n)
  <2>1. i = -1
    BY <1>4, <1>7
  <2>2. MatchFrom(s, p, i, <<n>>) = NoMatch
    BY <2>1 DEF MatchFrom
  <2> QED BY <1>2, <1>3, <1>5, <1>7, <2>2 DEF FirstIn
<1> QED BY <1>6, <1>7

LEMMA LastInLine ==
  ASSUME AccentsOnly, NEW s \in Seq(Chars), NEW n \in Needles,
         NEW p \in 0..Len(s), NEW q \in 0..Len(s), p <= q
  PROVE  LastIn(s, p, q, n, MatchFrom(s, p, StrRCaseStr(Span(s, p, q), n), <<n>>))
<1>1. Len(s) \in Nat /\ p \in Nat
  BY LenProperties
<1>2. PICK t \in Seq(Chars) : t = Span(s, p, q)
  BY SpanIs
<1>3. PICK i : i = StrRCaseStr(t, n)
  OBVIOUS
<1>4. IF \E a, b : Occ(t, a, b, n) THEN i \in 0..Len(t) /\ LastAt(t, n, i) ELSE i = -1
  BY <1>3, LastFound
<1>5. /\ \A a, b : Occ(t, a, b, n) =>
                     a \in Nat /\ b \in Nat /\ Occ(s, p + a, p + b, n) /\ p + b <= q
      /\ \A c, d : Occ(s, c, d, n) /\ p <= c /\ d <= q =>
                     c - p \in Nat /\ Occ(t, c - p, d - p, n)
  BY <1>2, PartPlaces
<1>6. CASE \E a, b : Occ(t, a, b, n)
  <2>1. PICK j : Occ(t, i, j, n)
    BY <1>4, <1>6 DEF LastAt
  <2>2. i \in Nat /\ j \in Nat /\ Occ(s, p + i, p + j, n) /\ p + j <= q
    BY <1>5, <2>1
  <2>3. MatchFrom(s, p, i, <<n>>) = [start |-> p + i, end |-> p + j]
    BY <1>1, <2>2, MatchIs
  <2>4. ASSUME NEW c, NEW d, Occ(s, c, d, n), p <= c, d <= q PROVE c <= p + i
    <3>1. c - p \in Nat /\ c - p <= i
      BY <1>4, <1>5, <1>6, <2>4 DEF LastAt
    <3>2. c \in Nat
      BY <2>4, OccIn
    <3> QED BY <1>1, <2>2, <3>1, <3>2
  <2>5. p <= p + i /\ p + i \in Nat
    BY <1>1, <2>2
  <2>6. [start |-> p + i, end |-> p + j] # NoMatch
    BY <2>5, PlaceIsMatch
  <2> QED BY <1>2, <1>3, <2>2, <2>3, <2>4, <2>5, <2>6 DEF LastIn
<1>7. CASE ~\E a, b : Occ(t, a, b, n)
  <2>1. i = -1
    BY <1>4, <1>7
  <2>2. MatchFrom(s, p, i, <<n>>) = NoMatch
    BY <2>1 DEF MatchFrom
  <2> QED BY <1>2, <1>3, <1>5, <1>7, <2>2 DEF LastIn
<1> QED BY <1>6, <1>7

(* A place of a text without line ends has none in it. *)
OneLine(n) == \A i \in 1..Len(n) : n[i] # Newline

LEMMA PlaceInLine ==
  ASSUME AccentsOnly, NEW s \in Seq(Chars), NEW a, NEW b, NEW n, Occ(s, a, b, n), OneLine(n),
         NEW r \in Nat, a < r, r <= b
  PROVE  s[r] # Newline
<1> SUFFICES ASSUME s[r] = Newline PROVE FALSE
  OBVIOUS
<1>1. PICK m \in Nat : m = Len(s)
  BY LenProperties
<1>2. a \in 0..m /\ b \in 0..m /\ Normal(Span(s, a, b)) = n
  BY <1>1 DEF Occ
<1>3. PICK e : e = r - 1
  OBVIOUS
<1>4. e \in 0..Len(s) /\ r \in 0..Len(s) /\ r \in 1..Len(s) /\ a \in 0..Len(s) /\ b \in 0..Len(s)
      /\ a <= e /\ e <= r /\ a <= r /\ e <= b
  BY <1>1, <1>2, <1>3
<1>5. PICK x \in Seq(Chars) : x = Span(s, a, e)
  BY <1>4, SpanIs
<1>6. PICK z \in Seq(Chars) : z = Span(s, r, b)
  BY <1>4, SpanIs
<1>7. PICK y \in Seq(Chars) : y = <<Newline>> /\ y = Span(s, e, r)
  <2>1. Span(s, r - 1, r) = <<s[r]>>
    BY <1>4, SpanAll
  <2> QED BY <1>3, <2>1, CharsKnown, OfOne
<1>8. Span(s, a, b) = x \o (y \o z)
  <2>1. Span(s, a, b) = Span(s, a, e) \o Span(s, e, b)
    BY <1>4, SpanJoin
  <2>2. Span(s, e, b) = Span(s, e, r) \o Span(s, r, b)
    BY <1>4, SpanJoin
  <2> QED BY <2>1, <2>2, <1>5, <1>6, <1>7
<1>9. PICK X \in Seq(Units), Y \in Seq(Units), Z \in Seq(Units) :
        X = Normal(x) /\ Y = Normal(y) /\ Z = Normal(z)
  BY NormalInSeq
<1>10. y \o z \in Seq(Chars)
  BY ConcatProperties
<1>11. n = X \o (Y \o Z)
  BY <1>2, <1>8, <1>9, <1>10, NormalOfConcat
<1>12. PICK i \in 1..Len(Y) : Y[i] = Newline
  <2>1. Y = Folded[Newline]
    BY <1>7, <1>9, CharsKnown, NormalOfOne
  <2> QED BY <2>1, CharsKnown, FoldedIs
<1>13. PICK u \in Nat, v \in Nat, w \in Nat : u = Len(X) /\ v = Len(Y) /\ w = Len(Z)
  BY LenProperties
<1>14. PICK W \in Seq(Units) : W = Y \o Z /\ Len(W) = v + w /\ W[i] = Y[i] /\ i \in 1..v
  <2>1. PICK j : j = i
    OBVIOUS
  <2>2. j \in 1..v /\ j \in 1..v + w
    BY <1>13, <2>1
  <2>3. /\ Y \o Z \in Seq(Units) /\ Len(Y \o Z) = Len(Y) + Len(Z)
        /\ \A c \in 1..Len(Y) + Len(Z) : (Y \o Z)[c] = IF c <= Len(Y) THEN Y[c] ELSE Z[c - Len(Y)]
    BY ONLY Y \in Seq(Units), Z \in Seq(Units), ConcatProperties
  <2>4. (Y \o Z)[j] = Y[j]
    BY <1>13, <2>2, <2>3
  <2> QED BY <1>13, <2>1, <2>2, <2>3, <2>4
<1>15. /\ Len(X \o W) = u + Len(W)
       /\ \A j \in 1..u + Len(W) : (X \o W)[j] = IF j <= u THEN X[j] ELSE W[j - u]
  <2>1. /\ Len(X \o W) = Len(X) + Len(W)
        /\ \A j \in 1..Len(X) + Len(W) : (X \o W)[j] = IF j <= Len(X) THEN X[j] ELSE W[j - Len(X)]
    BY ONLY X \in Seq(Units), W \in Seq(Units), ConcatProperties
  <2> QED BY <1>13, <2>1
<1>16. u + i \in 1..u + Len(W) /\ ~(u + i <= u) /\ u + i - u = i
  BY <1>13, <1>14
<1>17. n = X \o W
  BY <1>11, <1>14
<1>18. PICK j : j = u + i
  OBVIOUS
<1>19. n[j] = Newline /\ j \in 1..Len(n)
  <2>0. j - u = i /\ j \in 1..u + Len(W) /\ ~(j <= u)
    BY <1>16, <1>18
  <2>3. (X \o W)[j] = W[j - u]
    BY <1>15, <2>0
  <2>1. n[j] = W[j - u] /\ j - u = i
    BY <1>17, <2>0, <2>3, Zenon
  <2>2. Len(n) = u + Len(W)
    BY <1>15, <1>17
  <2> QED BY <1>12, <1>14, <1>16, <1>18, <2>1, <2>2
<1> QED BY <1>19 DEF OneLine

-----------------------------------------------------------------------------
(* The lines of a pattern.                                                 *)
LEMMA FoldedOneLine ==
  ASSUME AccentsOnly, NEW s \in Seq(Chars), \A i \in 1..Len(s) : s[i] # Newline
  PROVE  OneLine(Normal(s))
<1>1. PICK n \in Nat : n = Len(s) /\ \A k \in 1..n : s[k] \in Chars
  BY LenProperties, ElementOfSeq
<1>2. PICK r \in [0..n -> Seq(Units)] :
        /\ r[0] = <<>> /\ Normal(s) = r[n]
        /\ \A k \in 1..n : r[k] = r[k - 1] \o Folded[s[k]]
  BY <1>1, NormalIs DEF FoldedTo
<1> DEFINE P == {k \in Nat : k <= n => OneLine(r[k])}
<1>3. 0 \in P
  <2>1. Len(<<>>) = 0
    BY EmptySeq
  <2> QED BY <1>2, <2>1 DEF OneLine
<1>4. ASSUME NEW k \in P PROVE k + 1 \in P
  <2> SUFFICES ASSUME k + 1 <= n PROVE OneLine(r[k + 1])
    OBVIOUS
  <2>1. k \in 0..n /\ k + 1 \in 1..n /\ k + 1 - 1 = k /\ OneLine(r[k])
    OBVIOUS
  <2>2. PICK x \in Seq(Units) : x = r[k]
    BY <2>1
  <2>3. PICK c \in Chars : c = s[k + 1] /\ c # Newline
    BY <1>1, <2>1
  <2>4. PICK y \in Seq(Units) : y = Folded[c] /\ \A i \in 1..Len(y) : y[i] # Newline
    BY <2>3, FoldedIs
  <2>5. r[k + 1] = x \o y
    <3>1. PICK j : j = k + 1
      OBVIOUS
    <3>2. j \in 1..n /\ j - 1 = k
      BY <2>1, <3>1
    <3>3. r[j] = r[j - 1] \o Folded[s[j]]
      BY <1>2, <3>2
    <3> QED BY <2>2, <2>3, <2>4, <3>1, <3>2, <3>3, Zenon
  <2>6. /\ Len(x) \in Nat /\ Len(y) \in Nat /\ Len(x \o y) = Len(x) + Len(y)
        /\ \A i \in 1..Len(x) + Len(y) : (x \o y)[i] = IF i <= Len(x) THEN x[i] ELSE y[i - Len(x)]
    BY ConcatProperties, LenProperties
  <2>7. ASSUME NEW i \in 1..Len(x) + Len(y) PROVE (x \o y)[i] # Newline
    <3>1. CASE i <= Len(x)
      <4>1. i \in 1..Len(x) /\ x[i] # Newline
        BY <2>1, <2>2, <2>6, <3>1 DEF OneLine
      <4> QED BY <2>6, <3>1, <4>1
    <3>2. CASE ~(i <= Len(x))
      <4>1. i - Len(x) \in 1..Len(y)
        BY <2>6, <3>2
      <4> QED BY <2>4, <2>6, <3>2, <4>1
    <3> QED BY <3>1, <3>2
  <2>8. OneLine(x \o y)
    BY <2>6, <2>7 DEF OneLine
  <2> QED BY <2>5, <2>8
<1>5. P = Nat
  <2>1. P \in SUBSET Nat
    OBVIOUS
  <2> HIDE DEF P
  <2> QED BY <1>3, <1>4, <2>1, AllNumbers
<1>6. OneLine(r[n])
  <2>1. n \in P
    BY <1>5, Zenon
  <2> QED BY <2>1
<1> QED BY <1>2, <1>6

LEMMA LinesTyped ==
  ASSUME NEW pattern \in Seq(Chars), pattern # <<>>
  PROVE  \E X : Lines(pattern) \in Seq(X) /\ Lines(pattern) # <<>>
<1>1. PICK m \in Nat : m = Len(pattern) /\ m # 0
  BY EmptySeq
<1> DEFINE ends == (LineStarts(pattern) \cup {m}) \ {0}
           c == Cardinality(ends)
<1>2. ends \in SUBSET (0..m) /\ m \in ends
  BY <1>1, StartsIn
<1>3. c \in Nat /\ c # 0
  <2>1. IsFiniteSet(0..m)
    BY FS_Interval
  <2> HIDE DEF ends
  <2>2. IsFiniteSet(ends)
    BY <1>2, <2>1, FS_Subset
  <2> QED BY <1>2, <2>2, FS_CardinalityType, FS_EmptySet
<1>4. PICK f : f = Lines(pattern)
  OBVIOUS
<1>5. DOMAIN f = 1..c /\ f = [k \in 1..c |-> f[k]]
  BY <1>1, <1>4 DEF Lines
<1> HIDE DEF c
<1> DEFINE X == {f[k] : k \in 1..c}
<1>6. f \in [1..c -> X]
  BY <1>5
<1>7. f \in Seq(X)
  BY <1>3, <1>6, SeqDef
<1>8. f # <<>>
  <2>1. 1 \in DOMAIN f
    BY <1>3, <1>5
  <2>2. DOMAIN f = 1..Len(f)
    BY <1>7, LenProperties
  <2>3. Len(f) # 0
    BY <2>1, <2>2
  <2> QED BY <2>3, EmptySeq
<1> QED BY <1>4, <1>7, <1>8

LEMMA LinesIs ==
  ASSUME NEW pattern \in Seq(Chars), pattern # <<>>,
         \A i \in 1..Len(pattern) : pattern[i] # Newline
  PROVE  Lines(pattern) = <<Normal(pattern)>>
<1>1. PICK m \in Nat : m = Len(pattern) /\ m # 0
  BY EmptySeq
<1> DEFINE ends == (LineStarts(pattern) \cup {m}) \ {0}
           Nth(k) == CHOOSE q \in ends : Cardinality({r \in ends : r <= q}) = k
           Beg(k) == IF k = 1 THEN 0 ELSE Nth(k - 1)
<1>2. ends = {m}
  BY <1>1 DEF LineStarts
<1>3. Cardinality(ends) = 1
  BY <1>2, FS_Singleton
<1>4. Nth(1) = m
  <2>1. {r \in ends : r <= m} = {m}
    BY <1>1, <1>2
  <2>2. Cardinality({r \in ends : r <= m}) = 1
    BY <2>1, FS_Singleton
  <2> HIDE DEF ends
  <2> QED BY <1>2, <2>2
<1>5. Lines(pattern) = [k \in 1..Cardinality(ends) |-> Normal(SubSeq(pattern, Beg(k) + 1, Nth(k)))]
  BY <1>1 DEF Lines
<1> HIDE DEF ends, Nth
<1>6. PICK n : n = Normal(pattern)
  OBVIOUS
<1>7. \A k \in 1..1 : Normal(SubSeq(pattern, Beg(k) + 1, Nth(k))) = n
  <2> SUFFICES ASSUME NEW k \in 1..1
               PROVE  Normal(SubSeq(pattern, Beg(k) + 1, Nth(k))) = n
    OBVIOUS
  <2>1. k = 1 /\ Beg(k) + 1 = 1
    OBVIOUS
  <2>2. SubSeq(pattern, 1, m) = pattern
    BY <1>1, SubSeqFull
  <2> QED BY <1>4, <1>6, <2>1, <2>2
<1>8. Lines(pattern) = [k \in 1..1 |-> n]
  BY <1>3, <1>5, <1>7
<1>9. [k \in 1..1 |-> n] = <<n>>
  OBVIOUS
<1> QED BY <1>6, <1>8, <1>9

LEMMA PatternIs ==
  ASSUME AccentsOnly, NEW pattern \in Seq(Chars), pattern # <<>>,
         \A i \in 1..Len(pattern) : pattern[i] # Newline
  PROVE  /\ Lines(pattern) = <<Normal(pattern)>>
         /\ Normal(pattern) \in Needles /\ OneLine(Normal(pattern))
<1>1. Normal(pattern) \in Seq(Units)
  BY NormalInSeq
<1>2. Len(Normal(pattern)) # 0 /\ Normal(pattern)[1] # Accent
  BY NormalNotEmpty
<1>3. Normal(pattern) \in Needles
  BY <1>1, <1>2, EmptySeq DEF Needles
<1> QED BY <1>3, LinesIs, FoldedOneLine

-----------------------------------------------------------------------------
(* Whatever is searched, what is selected is in the text.                  *)
Places(m) == {NoMatch} \cup [start : 0..m, end : 0..m]

LEMMA StrTyped ==
  ASSUME NEW t \in Seq(Chars), NEW needle
  PROVE  StrCaseStr(t, needle) \in -1..Len(t) /\ StrRCaseStr(t, needle) \in -1..Len(t)
<1>1. PICK m \in Nat : m = Len(t)
  BY LenProperties
<1>2. \A count : Skipping(t, 0, count) \in 0..m
  BY <1>1, SkippingTyped
<1>3. 0..m \subseteq -1..m /\ -1 \in -1..m
  OBVIOUS
<1>4. StrCaseStr(t, needle) \in -1..m
  BY <1>2, <1>3 DEF StrCaseStr
<1>5. StrRCaseStr(t, needle) \in -1..m
  BY <1>2, <1>3 DEF StrRCaseStr
<1> QED BY <1>1, <1>4, <1>5

LEMMA MatchTyped ==
  ASSUME NEW s, NEW m \in Nat, m = Len(s), NEW X, NEW lines \in Seq(X), lines # <<>>,
         NEW p \in 0..m, NEW q \in p..m, NEW offset \in -1..q - p
  PROVE  MatchFrom(s, p, offset, lines) \in Places(m)
<1>1. CASE offset = -1
  BY <1>1 DEF MatchFrom, Places
<1>2. CASE offset # -1
  <2>1. PICK c : c = p + offset
    OBVIOUS
  <2>2. c \in 0..m
    BY <1>2, <2>1
  <2>3. PICK b : b = Skipping(s, c, Len(lines[1]))
    OBVIOUS
  <2>4. b \in c..m
    BY <2>2, <2>3, SkippingTyped
  <2>5. b \in -1..m
    BY <2>2, <2>4
  <2>6. PICK rest \in Seq(X) : rest = Tail(lines)
    BY HeadTailProperties
  <2>7. PICK last \in -1..m : last = RestMatches(s, b, rest)
    BY <2>5, RestIs
  <2>8. MatchFrom(s, p, offset, lines)
          = IF last = -1 THEN NoMatch ELSE [start |-> c, end |-> last]
    BY <1>2, <2>1, <2>3, <2>6, <2>7 DEF MatchFrom
  <2>9. last # -1 => last \in 0..m
    OBVIOUS
  <2> QED BY <2>2, <2>8, <2>9 DEF Places
<1> QED BY <1>1, <1>2

(* The line a backward search looks at first. *)
LEMMA LineBefore ==
  ASSUME NEW s \in Seq(Chars), NEW m \in Nat, m = Len(s), NEW p \in 1..m
  PROVE  \E begin \in 0..p - 1 :
           /\ begin \in LineStarts(s) /\ \A r \in LineStarts(s) : r < p => r <= begin
           /\ \A lines : BackwardLinesMatch(s, p, lines)
                = MatchFrom(s, begin, StrRCaseStr(Span(s, begin, p), lines[1]), lines)
<1>1. PICK b : b = IF p \in LineStarts(s) THEN PreviousLine(s, p) ELSE LineStart(s, p)
  OBVIOUS
<1>2. LineStarts(s) \subseteq 0..m
  BY StartsIn
<1>3. b \in 0..p - 1 /\ b \in LineStarts(s) /\ \A r \in LineStarts(s) : r < p => r <= b
  <2>1. CASE p \in LineStarts(s)
    <3>1. PICK e \in 0..m : e = p - 1
      OBVIOUS
    <3>2. b = LineStart(s, e)
      BY <1>1, <2>1, <3>1 DEF PreviousLine
    <3>3. b \in LineStarts(s) /\ b \in 0..e /\ \A r \in LineStarts(s) : r <= e => r <= b
      BY <3>2, LineStartIs
    <3>4. \A r \in LineStarts(s) : r < p => r <= e
      BY <1>2, <3>1
    <3> QED BY <3>1, <3>3, <3>4
  <2>2. CASE p \notin LineStarts(s)
    <3>1. b = LineStart(s, p)
      BY <1>1, <2>2
    <3>2. b \in LineStarts(s) /\ b \in 0..p /\ \A r \in LineStarts(s) : r <= p => r <= b
      BY <3>1, LineStartIs
    <3>3. b # p
      BY <2>2, <3>2
    <3> QED BY <1>2, <3>2, <3>3
  <2> QED BY <2>1, <2>2
<1>4. ASSUME NEW lines
      PROVE  BackwardLinesMatch(s, p, lines)
               = MatchFrom(s, b, StrRCaseStr(Span(s, b, p), lines[1]), lines)
  BY <1>1 DEF BackwardLinesMatch, Span
<1> QED BY <1>3, <1>4

LEMMA LineTyped ==
  ASSUME NEW s \in Seq(Chars), NEW m \in Nat, m = Len(s), NEW X, NEW lines \in Seq(X), lines # <<>>,
         NEW p \in 0..m
  PROVE  LinesMatch(s, p, lines) \in Places(m) /\ BackwardLinesMatch(s, p, lines) \in Places(m)
<1>1. LinesMatch(s, p, lines) \in Places(m)
  <2>1. PICK q \in p..m : q = NextLine(s, p)
    BY NextLineIs
  <2>2. q \in 0..Len(s) /\ p \in 0..Len(s) /\ p <= q
    OBVIOUS
  <2>3. PICK t \in Seq(Chars) : t = Span(s, p, q) /\ Len(t) = q - p
    BY <2>2, SpanIs
  <2>4. PICK i \in -1..q - p : i = StrCaseStr(t, lines[1])
    BY <2>3, StrTyped
  <2>5. LinesMatch(s, p, lines) = MatchFrom(s, p, i, lines)
    BY <2>1, <2>3, <2>4 DEF LinesMatch, Span
  <2>6. MatchFrom(s, p, i, lines) \in Places(m)
    BY MatchTyped
  <2> QED BY <2>5, <2>6
<1>2. CASE p = 0
  BY <1>1, <1>2 DEF BackwardLinesMatch, Places
<1>3. CASE p # 0
  <2>1. p \in 1..m
    BY <1>3
  <2>2. PICK c \in 0..p - 1 :
          BackwardLinesMatch(s, p, lines)
            = MatchFrom(s, c, StrRCaseStr(Span(s, c, p), lines[1]), lines)
    BY <2>1, LineBefore
  <2>3. c \in 0..m /\ p \in c..m /\ c \in 0..Len(s) /\ p \in 0..Len(s) /\ c <= p
    BY <2>1
  <2>4. PICK t \in Seq(Chars) : t = Span(s, c, p) /\ Len(t) = p - c
    BY <2>3, SpanIs
  <2>5. PICK i \in -1..p - c : i = StrRCaseStr(t, lines[1])
    BY <2>4, StrTyped
  <2>6. MatchFrom(s, c, i, lines) \in Places(m)
    BY <2>3, MatchTyped
  <2> QED BY <1>1, <2>2, <2>4, <2>5, <2>6
<1> QED BY <1>1, <1>2, <1>3

(* The first line, or the last, at which there is a match.                 *)
TryForward(s, from, pattern) ==
  {p \in {from} \cup LineStarts(s) : p >= from /\ LinesMatch(s, p, Lines(pattern)) # NoMatch}

TryBackward(s, from, pattern) ==
  {p \in {from} \cup LineStarts(s) : p <= from /\ BackwardLinesMatch(s, p, Lines(pattern)) # NoMatch}

LEMMA ForwardTries ==
  ASSUME NEW s \in Seq(Chars), NEW m \in Nat, m = Len(s), NEW from \in 0..m,
         NEW pattern \in Seq(Chars), pattern # <<>>
  PROVE  \/ TryForward(s, from, pattern) = {} /\ ForwardSearch(s, from, pattern) = NoMatch
         \/ \E p \in TryForward(s, from, pattern) :
              /\ p \in from..m /\ \A q \in TryForward(s, from, pattern) : p <= q
              /\ ForwardSearch(s, from, pattern) = LinesMatch(s, p, Lines(pattern))
<1>1. PICK tries : tries = TryForward(s, from, pattern)
  OBVIOUS
<1>2. tries \subseteq from..m
  BY <1>1, StartsIn DEF TryForward
<1>3. ForwardSearch(s, from, pattern)
        = IF tries = {} THEN NoMatch
          ELSE LinesMatch(s, CHOOSE p \in tries : \A q \in tries : p <= q, Lines(pattern))
  BY <1>1 DEF ForwardSearch, TryForward
<1>4. CASE tries = {}
  BY <1>1, <1>3, <1>4
<1>5. CASE tries # {}
  <2>1. tries \in SUBSET Nat
    BY <1>2
  <2>2. \E p \in tries : \A q \in tries : p <= q
    BY <1>5, <2>1, LeastOf
  <2>3. PICK p : p = CHOOSE x \in tries : \A q \in tries : x <= q
    OBVIOUS
  <2>4. p \in tries /\ \A q \in tries : p <= q
    BY <2>2, <2>3
  <2>5. ForwardSearch(s, from, pattern) = LinesMatch(s, p, Lines(pattern))
    BY <1>3, <1>5, <2>3
  <2> QED BY <1>1, <1>2, <2>4, <2>5
<1> QED BY <1>4, <1>5

LEMMA BackwardTries ==
  ASSUME NEW s \in Seq(Chars), NEW m \in Nat, m = Len(s), NEW from \in 0..m,
         NEW pattern \in Seq(Chars), pattern # <<>>
  PROVE  \/ TryBackward(s, from, pattern) = {} /\ BackwardSearch(s, from, pattern) = NoMatch
         \/ \E p \in TryBackward(s, from, pattern) :
              /\ p \in 0..from /\ \A q \in TryBackward(s, from, pattern) : q <= p
              /\ BackwardSearch(s, from, pattern) = BackwardLinesMatch(s, p, Lines(pattern))
<1>1. PICK tries : tries = TryBackward(s, from, pattern)
  OBVIOUS
<1>2. tries \subseteq 0..from
  BY <1>1, StartsIn DEF TryBackward
<1>3. BackwardSearch(s, from, pattern)
        = IF tries = {} THEN NoMatch
          ELSE BackwardLinesMatch(s, CHOOSE p \in tries : \A q \in tries : p >= q, Lines(pattern))
  BY <1>1 DEF BackwardSearch, TryBackward
<1>4. CASE tries = {}
  BY <1>1, <1>3, <1>4
<1>5. CASE tries # {}
  <2>1. tries \in SUBSET (0..from) /\ from \in Nat
    BY <1>2
  <2>2. PICK c \in tries : \A q \in tries : q <= c
    BY <1>5, <2>1, GreatestOf
  <2>3. c \in tries /\ \A q \in tries : c >= q
    BY <2>1, <2>2
  <2>4. PICK p : p = CHOOSE x \in tries : \A q \in tries : x >= q
    OBVIOUS
  <2>5. p \in tries /\ \A q \in tries : p >= q
    BY <2>3, <2>4
  <2>6. BackwardSearch(s, from, pattern) = BackwardLinesMatch(s, p, Lines(pattern))
    BY <1>3, <1>5, <2>4
  <2>7. \A q \in tries : q <= p
    BY <2>1, <2>5
  <2> QED BY <1>1, <1>2, <2>5, <2>6, <2>7
<1> QED BY <1>4, <1>5

LEMMA SearchTyped ==
  ASSUME NEW s \in Seq(Chars), NEW m \in Nat, m = Len(s), NEW from \in 0..m,
         NEW pattern \in Seq(Chars)
  PROVE  ForwardSearch(s, from, pattern) \in Places(m) /\ BackwardSearch(s, from, pattern) \in Places(m)
<1>1. CASE pattern = <<>>
  <2>1. ForwardSearch(s, from, pattern) \in Places(m)
    <3>1. from + 1 < m => from + 1 \in 0..m
      OBVIOUS
    <3> QED BY <1>1, <3>1 DEF ForwardSearch, Places
  <2>2. BackwardSearch(s, from, pattern) \in Places(m)
    <3>1. from > 0 => from - 1 \in 0..m
      OBVIOUS
    <3> QED BY <1>1, <3>1 DEF BackwardSearch, Places
  <2> QED BY <2>1, <2>2
<1>2. CASE pattern # <<>>
  <2>1. PICK X : Lines(pattern) \in Seq(X) /\ Lines(pattern) # <<>>
    BY <1>2, LinesTyped
  <2>2. \A p \in 0..m : LinesMatch(s, p, Lines(pattern)) \in Places(m)
                          /\ BackwardLinesMatch(s, p, Lines(pattern)) \in Places(m)
    BY <2>1, LineTyped
  <2>3. NoMatch \in Places(m)
    BY DEF Places
  <2>4. from..m \subseteq 0..m /\ 0..from \subseteq 0..m
    OBVIOUS
  <2>5. ForwardSearch(s, from, pattern) \in Places(m)
    BY <1>2, <2>2, <2>3, <2>4, ForwardTries
  <2>6. BackwardSearch(s, from, pattern) \in Places(m)
    BY <1>2, <2>2, <2>3, <2>4, BackwardTries
  <2> QED BY <2>5, <2>6
<1> QED BY <1>1, <1>2

-----------------------------------------------------------------------------
(* A search finds the nearest place: places within a line are found by the *)
(* first line, or the last, that has one.                                  *)
OneLinePattern(pattern) ==
  /\ pattern \in Seq(Chars) /\ pattern # <<>>
  /\ \A i \in 1..Len(pattern) : pattern[i] # Newline

(* Between a place and the end of its line there is no line end but there. *)
LEMMA EndsAfter ==
  ASSUME AccentsOnly, NEW s \in Seq(Chars), NEW n, OneLine(n), NEW a, NEW b, Occ(s, a, b, n),
         NEW r \in LineStarts(s), a < r
  PROVE  b <= r
<1>1. PICK m \in Nat : m = Len(s)
  BY LenProperties
<1>2. a \in Nat /\ b \in Nat
  BY OccIn
<1>3. r \in 0..m
  BY <1>1, StartsIn
<1>4. SUFFICES ASSUME r <= b PROVE FALSE
  BY <1>2, <1>3
<1>5. r \in Nat /\ r \in 1..m
  BY <1>2, <1>3
<1>6. s[r] = Newline
  BY <1>1, <1>5, StartsIn
<1> QED BY <1>4, <1>5, <1>6, PlaceInLine

LEMMA ForwardLine ==
  ASSUME AccentsOnly, NEW s \in Seq(Chars), NEW n \in Needles, NEW p \in 0..Len(s)
  PROVE  FirstIn(s, p, NextLine(s, p), n, LinesMatch(s, p, <<n>>))
<1>1. PICK q : q = NextLine(s, p)
  OBVIOUS
<1>2. q \in 0..Len(s) /\ p <= q
  <2>1. PICK m \in Nat : m = Len(s)
    BY LenProperties
  <2>2. p \in 0..m /\ q \in p..m
    BY <1>1, <2>1, NextLineIs
  <2> QED BY <2>1, <2>2
<1>3. FirstIn(s, p, q, n, MatchFrom(s, p, StrCaseStr(Span(s, p, q), n), <<n>>))
  BY <1>2, FirstInLine
<1>4. LinesMatch(s, p, <<n>>) = MatchFrom(s, p, StrCaseStr(Span(s, p, q), n), <<n>>)
  <2>1. <<n>>[1] = n
    OBVIOUS
  <2> QED BY <1>1, <2>1 DEF LinesMatch, Span
<1> QED BY <1>1, <1>3, <1>4

LEMMA ForwardIs ==
  ASSUME AccentsOnly, NEW s \in Seq(Chars), NEW from \in 0..Len(s),
         NEW pattern, OneLinePattern(pattern)
  PROVE  FirstIn(s, from, Len(s), Normal(pattern), ForwardSearch(s, from, pattern))
<1>0. PICK m \in Nat : m = Len(s) /\ from \in 0..m
  BY LenProperties
<1>1. PICK n \in Needles : n = Normal(pattern) /\ OneLine(n) /\ Lines(pattern) = <<n>>
  BY PatternIs DEF OneLinePattern
<1>2. PICK match : match = ForwardSearch(s, from, pattern)
  OBVIOUS
<1>3. PICK tries : tries = TryForward(s, from, pattern)
  OBVIOUS
<1>4. LineStarts(s) \subseteq 0..m
  BY <1>0, StartsIn
<1>5. \A p : p \in tries <=>
        p \in {from} \cup LineStarts(s) /\ p >= from /\ LinesMatch(s, p, <<n>>) # NoMatch
  BY <1>1, <1>3 DEF TryForward
<1>6. \A p \in 0..m : FirstIn(s, p, NextLine(s, p), n, LinesMatch(s, p, <<n>>))
  BY <1>0, ForwardLine
<1>7. ASSUME NEW c, NEW d, Occ(s, c, d, n), from <= c
      PROVE  \E p \in tries : p <= c /\ d <= NextLine(s, p)
  <2>1. c \in 0..m /\ d \in 0..m /\ c < d
    BY <1>0, <1>7 DEF Occ
  <2> DEFINE before == {p \in {from} \cup LineStarts(s) : from <= p /\ p <= c}
  <2>2. before \in SUBSET (0..m) /\ before # {}
    BY <1>0, <1>4, <1>7
  <2>3. PICK p \in before : \A r \in before : r <= p
    <3> HIDE DEF before
    <3> QED BY <2>2, GreatestOf
  <2>4. p \in 0..m /\ p <= c /\ p >= from /\ p \in {from} \cup LineStarts(s) /\ p < m
    BY <1>0, <2>1, <2>2, <2>3
  <2>5. PICK q : q = NextLine(s, p)
    OBVIOUS
  <2>6. q \in p..m /\ p < q /\ (q = m \/ q \in LineStarts(s))
    BY <1>0, <2>4, <2>5, NextLineIs
  <2>7. d <= q
    <3>1. CASE q = m
      BY <2>1, <3>1
    <3>2. CASE q # m
      <4>1. q \in LineStarts(s)
        BY <2>6, <3>2
      <4>2. ~(q <= c)
        BY <1>0, <2>3, <2>4, <2>6, <4>1
      <4>3. c < q
        BY <2>1, <2>6, <4>2
      <4> QED BY <1>1, <1>7, <4>1, <4>3, EndsAfter
    <3> QED BY <3>1, <3>2
  <2>8. LinesMatch(s, p, <<n>>) # NoMatch
    <3>1. FirstIn(s, p, q, n, LinesMatch(s, p, <<n>>))
      BY <1>6, <2>4, <2>5
    <3> QED BY <1>7, <2>4, <2>7, <3>1 DEF FirstIn
  <2> QED BY <1>5, <2>4, <2>5, <2>7, <2>8
<1>8. CASE tries = {}
  <2>1. match = NoMatch
    BY <1>0, <1>2, <1>3, <1>8, ForwardTries DEF OneLinePattern
  <2>2. \A c, d : ~(Occ(s, c, d, n) /\ from <= c)
    BY <1>7, <1>8
  <2> QED BY <1>1, <1>2, <2>1, <2>2 DEF FirstIn
<1>9. CASE tries # {}
  <2>1. PICK p \in tries : /\ p \in from..m /\ \A q \in tries : p <= q
                           /\ match = LinesMatch(s, p, <<n>>)
    BY <1>0, <1>1, <1>2, <1>3, <1>9, ForwardTries DEF OneLinePattern
  <2>2. p \in 0..m /\ p >= from /\ match # NoMatch
    BY <1>0, <1>5, <2>1
  <2>3. FirstIn(s, p, NextLine(s, p), n, match)
    BY <1>6, <2>1, <2>2
  <2>4. PICK q : q = NextLine(s, p)
    OBVIOUS
  <2>5. PICK a, b : /\ match = [start |-> a, end |-> b]
                    /\ Occ(s, a, b, n) /\ p <= a /\ b <= q
                    /\ \A c, d : Occ(s, c, d, n) /\ p <= c /\ d <= q => a <= c
    BY <2>2, <2>3, <2>4 DEF FirstIn
  <2>6. a \in 0..m /\ b \in 0..m /\ a < b
    BY <1>0, <2>5 DEF Occ
  <2>7. ASSUME NEW c, NEW d, Occ(s, c, d, n), from <= c PROVE a <= c
    <3>1. PICK r \in tries : r <= c /\ d <= NextLine(s, r)
      BY <1>7, <2>7
    <3>2. r \in 0..m /\ c \in 0..m /\ p <= r
      BY <1>0, <1>4, <1>5, <2>1, <2>7 DEF Occ
    <3>3. CASE r = p
      BY <2>4, <2>5, <2>7, <3>1, <3>3
    <3>4. CASE r # p
      <4>1. r > p /\ p < m
        BY <2>2, <3>2, <3>4
      <4>2. r \in LineStarts(s)
        BY <1>0, <1>5, <2>2, <3>1, <4>1
      <4>3. q \in p..m /\ q <= r
        BY <1>0, <2>2, <2>4, <4>1, <4>2, NextLineIs
      <4> QED BY <2>2, <2>5, <2>6, <3>1, <3>2, <4>3
    <3> QED BY <3>3, <3>4
  <2>8. from <= a /\ b <= m
    BY <1>0, <2>2, <2>5, <2>6
  <2> QED BY <1>0, <1>1, <1>2, <2>2, <2>5, <2>7, <2>8 DEF FirstIn
<1> QED BY <1>8, <1>9

LEMMA BackwardLine ==
  ASSUME AccentsOnly, NEW s \in Seq(Chars), NEW m \in Nat, m = Len(s), NEW n \in Needles,
         NEW p \in 1..m
  PROVE  \E begin \in 0..p - 1 :
           /\ begin \in LineStarts(s) /\ \A r \in LineStarts(s) : r < p => r <= begin
           /\ LastIn(s, begin, p, n, BackwardLinesMatch(s, p, <<n>>))
<1>1. PICK c \in 0..p - 1 :
        /\ c \in LineStarts(s) /\ \A r \in LineStarts(s) : r < p => r <= c
        /\ \A lines : BackwardLinesMatch(s, p, lines)
             = MatchFrom(s, c, StrRCaseStr(Span(s, c, p), lines[1]), lines)
  BY LineBefore
<1>2. c \in 0..Len(s) /\ p \in 0..Len(s) /\ c <= p
  OBVIOUS
<1>3. LastIn(s, c, p, n, MatchFrom(s, c, StrRCaseStr(Span(s, c, p), n), <<n>>))
  BY <1>2, LastInLine
<1>4. BackwardLinesMatch(s, p, <<n>>) = MatchFrom(s, c, StrRCaseStr(Span(s, c, p), n), <<n>>)
  <2>1. PICK lines : lines = <<n>>
    OBVIOUS
  <2>2. lines[1] = n
    BY <2>1
  <2> QED BY <1>1, <2>1, <2>2
<1> QED BY <1>1, <1>3, <1>4

LEMMA BackwardIs ==
  ASSUME AccentsOnly, NEW s \in Seq(Chars), NEW from \in 0..Len(s),
         NEW pattern, OneLinePattern(pattern)
  PROVE  LastIn(s, 0, from, Normal(pattern), BackwardSearch(s, from, pattern))
<1>0. PICK m \in Nat : m = Len(s) /\ from \in 0..m
  BY LenProperties
<1>1. PICK n \in Needles : n = Normal(pattern) /\ OneLine(n) /\ Lines(pattern) = <<n>>
  BY PatternIs DEF OneLinePattern
<1>2. PICK match : match = BackwardSearch(s, from, pattern)
  OBVIOUS
<1>3. PICK tries : tries = TryBackward(s, from, pattern)
  OBVIOUS
<1>4. LineStarts(s) \subseteq 0..m
  BY <1>0, StartsIn
<1>5. \A p : p \in tries <=>
        p \in {from} \cup LineStarts(s) /\ p <= from /\ BackwardLinesMatch(s, p, <<n>>) # NoMatch
  BY <1>1, <1>3 DEF TryBackward
<1>6. ASSUME NEW c, NEW d, Occ(s, c, d, n), d <= from
      PROVE  \E p \in tries : d <= p
  <2>1. c \in 0..m /\ d \in 0..m /\ c < d
    BY <1>0, <1>6 DEF Occ
  <2> DEFINE after == {p \in {from} \cup LineStarts(s) : d <= p /\ p <= from}
  <2>2. after \in SUBSET Nat /\ after # {}
    BY <1>0, <1>4, <1>6
  <2>3. PICK p \in after : \A r \in after : p <= r
    <3> HIDE DEF after
    <3> QED BY <2>2, LeastOf
  <2>4. p \in 1..m /\ d <= p /\ p <= from /\ p \in {from} \cup LineStarts(s)
    BY <1>0, <1>4, <2>1, <2>3
  <2>5. PICK e \in 0..p - 1 :
          /\ e \in LineStarts(s) /\ \A r \in LineStarts(s) : r < p => r <= e
          /\ LastIn(s, e, p, n, BackwardLinesMatch(s, p, <<n>>))
    BY <1>0, <2>4, BackwardLine
  <2>6. e <= c
    <3>1. SUFFICES ASSUME c < e PROVE FALSE
      BY <2>1, <2>4
    <3>2. d <= e
      BY <1>1, <1>6, <2>5, <3>1, EndsAfter
    <3>3. e \in after
      BY <1>0, <2>4, <2>5, <3>2
    <3> QED BY <2>3, <2>4, <2>5, <3>3
  <2>7. BackwardLinesMatch(s, p, <<n>>) # NoMatch
    BY <1>6, <2>4, <2>5, <2>6 DEF LastIn
  <2>8. p \in tries
    BY <1>5, <2>4, <2>7
  <2> QED BY <2>4, <2>8
<1>8. CASE tries = {}
  <2>1. match = NoMatch
    BY <1>0, <1>2, <1>3, <1>8, BackwardTries DEF OneLinePattern
  <2>2. \A c, d : ~(Occ(s, c, d, n) /\ d <= from)
    BY <1>6, <1>8
  <2> QED BY <1>1, <1>2, <2>1, <2>2 DEF LastIn
<1>9. CASE tries # {}
  <2>1. PICK p \in tries : /\ p \in 0..from /\ \A q \in tries : q <= p
                           /\ match = BackwardLinesMatch(s, p, <<n>>)
    BY <1>0, <1>1, <1>2, <1>3, <1>9, BackwardTries DEF OneLinePattern
  <2>2. p \in 1..m /\ p <= from /\ match # NoMatch
    <3>1. match # NoMatch
      BY <1>5, <2>1
    <3>2. p # 0
      BY <2>1, <3>1 DEF BackwardLinesMatch
    <3> QED BY <1>0, <2>1, <3>1, <3>2
  <2>3. PICK e \in 0..p - 1 :
          /\ e \in LineStarts(s) /\ \A r \in LineStarts(s) : r < p => r <= e
          /\ LastIn(s, e, p, n, match)
    BY <1>0, <2>1, <2>2, BackwardLine
  <2>5. PICK a, b : /\ match = [start |-> a, end |-> b]
                    /\ Occ(s, a, b, n) /\ e <= a /\ b <= p
                    /\ \A c, d : Occ(s, c, d, n) /\ e <= c /\ d <= p => c <= a
    BY <2>2, <2>3 DEF LastIn
  <2>6. a \in 0..m /\ b \in 0..m /\ a < b
    BY <1>0, <2>5 DEF Occ
  <2>7. ASSUME NEW c, NEW d, Occ(s, c, d, n), d <= from PROVE c <= a
    <3>0. c \in 0..m /\ d \in 0..m /\ c < d
      BY <1>0, <2>7 DEF Occ
    <3>1. PICK r \in tries : d <= r
      BY <1>6, <2>7
    <3>2. r \in 0..m /\ r <= p
      BY <1>0, <1>4, <1>5, <2>1, <3>1
    <3>3. CASE e <= c
      <4>1. d <= p
        BY <2>2, <3>0, <3>1, <3>2
      <4> QED BY <2>5, <2>7, <3>3, <4>1
    <3>4. CASE ~(e <= c)
      BY <2>2, <2>3, <2>5, <2>6, <3>0, <3>4
    <3> QED BY <3>3, <3>4
  <2>8. 0 <= a /\ b <= from
    BY <1>0, <2>2, <2>5, <2>6
  <2> QED BY <1>1, <1>2, <2>2, <2>5, <2>7, <2>8 DEF LastIn
<1> QED BY <1>8, <1>9

-----------------------------------------------------------------------------
(* The marks are in the text, and at the last result unless they are older *)
(* than the text.                                                          *)
MarksInv ==
  /\ text \in Seq(Chars) /\ entry \in Seq(Chars)
  /\ prev \in -1..Len(text) /\ next \in -1..Len(text)
  /\ result \in Places(Len(text))
  /\ outlived = 0 => prev = result.start /\ next = result.end

LEMMA NoMatchIs == NoMatch.start = -1 /\ NoMatch.end = -1
BY DEF NoMatch

LEMMA MarksInit == BoxInit => MarksInv
<1> SUFFICES ASSUME BoxInit PROVE MarksInv
  OBVIOUS
<1>1. /\ text = <<>> /\ entry = <<>> /\ prev = -1 /\ next = -1 /\ result = NoMatch
  BY DEF BoxInit
<1>2. <<>> \in Seq(Chars) /\ Len(<<>>) = 0
  BY EmptySeq
<1>3. -1 \in -1..0 /\ NoMatch \in Places(0)
  BY DEF Places
<1> QED BY <1>1, <1>2, <1>3, NoMatchIs DEF MarksInv

LEMMA MarksCleared ==
  ASSUME MarksInv, NEW s \in Seq(Letter), ClearAndInsert(s), entry' = entry
  PROVE  MarksInv'
<1>1. PICK n \in Nat : n = Len(s)
  BY LenProperties
<1>2. text' = Letters(s) /\ text' \in Seq(Chars) /\ Len(text') = n
  BY <1>1, LettersAre DEF ClearAndInsert, Letters
<1>3. /\ prev' = (IF prev = -1 THEN -1 ELSE n) /\ next' = (IF next = -1 THEN -1 ELSE n)
      /\ outlived' = (IF prev # -1 THEN 1 ELSE outlived) /\ result' = NoMatch
  BY <1>1 DEF ClearAndInsert
<1>4. prev' \in -1..n /\ next' \in -1..n /\ result' \in Places(n)
  BY <1>3 DEF Places
<1>5. ASSUME outlived' = 0 PROVE prev' = result'.start /\ next' = result'.end
  <2>1. outlived = 0 /\ prev = -1
    BY <1>3, <1>5
  <2>2. result.start = -1 /\ next = result.end /\ result \in Places(Len(text)) /\ Len(text) \in Nat
    BY <2>1, LenProperties DEF MarksInv
  <2>3. result = NoMatch
    BY <2>2 DEF Places
  <2>4. next = -1
    BY <2>2, <2>3, NoMatchIs
  <2> QED BY <1>3, <2>1, <2>4, NoMatchIs
<1> QED BY <1>2, <1>4, <1>5 DEF MarksInv

LEMMA MarksPushed ==
  ASSUME MarksInv, NEW s \in Seq(Letter), Insert(s), entry' = entry, result' = result
  PROVE  MarksInv'
<1>1. PICK n \in Nat : n = Len(s)
  BY LenProperties
<1>2. PICK m \in Nat : m = Len(text)
  BY LenProperties DEF MarksInv
<1>3. text' \in Seq(Chars) /\ Len(text') = m + n
  <2>1. PICK t \in Seq(Chars) : t = Letters(s) /\ Len(t) = n
    BY <1>1, LettersAre
  <2>2. text' = text \o t
    BY <2>1 DEF Insert, Letters
  <2>3. text \in Seq(Chars)
    BY DEF MarksInv
  <2>4. text \o t \in Seq(Chars) /\ Len(text \o t) = Len(text) + Len(t)
    BY ONLY t \in Seq(Chars), <2>3, ConcatProperties
  <2> QED BY <1>2, <2>1, <2>2, <2>4
<1>4. /\ prev' = Pushed(prev, m, n) /\ next' = Pushed(next, m, n)
      /\ outlived' = IF prev' # prev \/ next' # next THEN 1 ELSE outlived
  BY <1>1, <1>2 DEF Insert
<1>5. prev' \in -1..m + n /\ next' \in -1..m + n
  BY <1>2, <1>4 DEF MarksInv, Pushed
<1>6. result' \in Places(m + n)
  <2>1. 0..m \subseteq 0..m + n
    OBVIOUS
  <2> QED BY <1>2, <2>1 DEF MarksInv, Places
<1>7. ASSUME outlived' = 0 PROVE prev' = result'.start /\ next' = result'.end
  <2>1. outlived = 0 /\ prev' = prev /\ next' = next
    BY <1>4, <1>7
  <2> QED BY <2>1 DEF MarksInv
<1> QED BY <1>3, <1>5, <1>6, <1>7 DEF MarksInv

Directions == {"typing", "forward", "backward"}

LEMMA WhereIs ==
  ASSUME MarksInv, NEW dir \in Directions
  PROVE  /\ Where(dir) \in 0..Len(text)
         /\ outlived = 0 => Where(dir) = ResultAt(dir)
<1>1. PICK m \in Nat : m = Len(text)
  BY LenProperties DEF MarksInv
<1>2. prev \in -1..m /\ next \in -1..m /\ result \in Places(m)
  BY <1>1 DEF MarksInv
<1>3. Where(dir) \in 0..m
  <2>1. CASE dir = "backward"
    BY <1>1, <1>2, <2>1 DEF Where
  <2>2. CASE dir = "typing"
    BY <1>2, <2>2 DEF Where
  <2>3. CASE dir = "forward"
    BY <1>2, <2>3 DEF Where
  <2> QED BY <2>1, <2>2, <2>3 DEF Directions
<1>4. ASSUME outlived = 0 PROVE Where(dir) = ResultAt(dir)
  <2>1. prev = result.start /\ next = result.end
    BY <1>4 DEF MarksInv
  <2>2. (prev # -1 <=> result # NoMatch) /\ (next # -1 <=> result # NoMatch)
    <3>1. CASE result = NoMatch
      BY <2>1, <3>1, NoMatchIs
    <3>2. CASE result # NoMatch
      <4>1. result.start \in 0..m /\ result.end \in 0..m
        BY <1>2, <3>2 DEF Places
      <4> QED BY <2>1, <3>2, <4>1
    <3> QED BY <3>1, <3>2
  <2>3. CASE dir = "backward"
    BY <2>1, <2>2, <2>3 DEF Where, ResultAt
  <2>4. CASE dir = "typing"
    BY <2>1, <2>2, <2>4 DEF Where, ResultAt
  <2>5. CASE dir = "forward"
    BY <2>1, <2>2, <2>5 DEF Where, ResultAt
  <2> QED BY <2>3, <2>4, <2>5 DEF Directions
<1> QED BY <1>1, <1>3, <1>4

LEMMA MarksFound ==
  ASSUME MarksInv, NEW dir \in Directions, NEW pattern \in Seq(Chars),
         Find(dir, pattern), entry' = pattern
  PROVE  MarksInv'
<1>1. PICK m \in Nat : m = Len(text)
  BY LenProperties DEF MarksInv
<1>2. text \in Seq(Chars)
  BY DEF MarksInv
<1>3. PICK from \in 0..m : from = Where(dir)
  BY <1>1, WhereIs
<1>4. ForwardSearch(text, from, pattern) \in Places(m) /\ BackwardSearch(text, from, pattern) \in Places(m)
  BY <1>1, <1>2, SearchTyped
<1>5. PICK match : match = Found(dir, pattern)
  OBVIOUS
<1>6. match \in Places(m)
  BY <1>3, <1>4, <1>5 DEF Found
<1>7. text' = text
  BY DEF Find, buffer
<1>8. CASE match = NoMatch
  <2>1. UNCHANGED <<prev, next, result, outlived>>
    BY <1>5, <1>8 DEF Find, marks
  <2> QED BY <1>7, <2>1 DEF MarksInv
<1>9. CASE match # NoMatch
  <2>1. prev' = match.start /\ next' = match.end /\ result' = match
    BY <1>5, <1>9 DEF Find
  <2>2. match.start \in 0..m /\ match.end \in 0..m
    BY <1>6, <1>9 DEF Places
  <2>3. prev' \in -1..m /\ next' \in -1..m
    BY <2>1, <2>2
  <2> QED BY <1>1, <1>2, <1>6, <1>7, <2>1, <2>3 DEF MarksInv
<1> QED BY <1>8, <1>9

LEMMA MarksNext == MarksInv /\ [BoxNext]_boxvars => MarksInv'
<1> SUFFICES ASSUME MarksInv, [BoxNext]_boxvars PROVE MarksInv'
  OBVIOUS
<1>1. CASE Lookup
  BY <1>1, EmptyLetters, MarksCleared DEF Lookup
<1>2. CASE Error
  <2>1. PICK w \in Seq(Chars) : w = <<Failure, Newline, Newline, Failure>>
    BY CharsKnown, OfFour
  <2>2. Tagged(w, 0) \in Seq(Letter)
    BY TaggedIs
  <2>3. ErrorText \in Seq(Letter)
    BY <2>1, <2>2 DEF ErrorText
  <2> QED BY <1>2, <2>3, MarksCleared DEF Error
<1>3. ASSUME NEW body \in Bodies, DefinitionFound(body) PROVE MarksInv'
  <2>1. PICK word : word = IF definitions = <<>> THEN Tagged(Title \o <<Newline>>, 0) ELSE <<>>
    OBVIOUS
  <2>2. word \in Seq(Letter)
    <3>1. PICK t \in Seq(Chars), w \in Seq(Chars) : t = Title /\ w = <<Newline>>
      BY CharsAssumption, CharsKnown, OfOne
    <3>2. PICK x \in Seq(Chars) : x = t \o w
      BY ConcatProperties
    <3>3. Tagged(x, 0) \in Seq(Letter)
      BY TaggedIs
    <3> QED BY <2>1, <3>1, <3>2, <3>3, EmptyLetters
  <2>3. PICK b \in Seq(Letter), f \in Seq(Letter) : b = InsertBody(body) /\ f = InsertFrom
    BY LaidOutIs, FromIs
  <2>4. PICK x \in Seq(Letter) : x = (word \o b) \o f
    <3>1. PICK y \in Seq(Letter) : y = word \o b
      BY <2>2, ConcatProperties
    <3>2. y \o f \in Seq(Letter)
      BY ConcatProperties
    <3> QED BY <3>1, <3>2
  <2>5. Insert(x) /\ result' = result /\ entry' = entry
    BY <1>3, <2>1, <2>3, <2>4 DEF DefinitionFound
  <2> QED BY <2>5, MarksPushed
<1>4. ASSUME UNCHANGED <<text, entry, marks>> PROVE MarksInv'
  BY <1>4 DEF MarksInv, marks
<1>5. CASE LookupEnd
  BY <1>4, <1>5 DEF LookupEnd
<1>6. CASE EntryChanged \/ FindNext \/ FindPrevious
  <2>1. entry \in Seq(Chars) /\ Patterns \subseteq Seq(Chars)
    BY CharsAssumption DEF MarksInv
  <2>2. "typing" \in Directions /\ "forward" \in Directions /\ "backward" \in Directions
    BY DEF Directions
  <2> QED BY <1>6, <2>1, <2>2, MarksFound DEF EntryChanged, FindNext, FindPrevious
<1>7. CASE (\E show \in 0..1 : SetShowFind(show)) \/ ShowFindKey \/ HideFind \/ HideTimeout
  BY <1>4, <1>7 DEF SetShowFind, ShowFindKey, HideFind, HideTimeout, buffer
<1>8. CASE (\E p \in 0..Len(text) - 1 : Click(p)) \/ SelectAll
  BY <1>4, <1>8 DEF Click, SelectAll, buffer
<1>9. CASE UNCHANGED boxvars
  BY <1>4, <1>9 DEF boxvars, buffer
<1> QED BY <1>1, <1>2, <1>3, <1>5, <1>6, <1>7, <1>8, <1>9 DEF BoxNext

(* What a place is, in the words of the property. *)
LEMMA OccursIs ==
  ASSUME AccentsOnly, text \in Seq(Chars), NEW a \in 0..Len(text), NEW b \in 0..Len(text), NEW pattern
  PROVE  Occurs(a, b, pattern) <=> Occ(text, a, b, Normal(pattern))
<1>1. PICK o : IsCut(text, o)
  BY CutExists
<1>2. PICK h \in Seq(Units), m \in Nat, k \in Nat : Aligned(text, o, h, m, k)
  BY <1>1, CutIs
<1>3. /\ m = Len(text) /\ k = Len(h) /\ o \in [0..m -> 0..k]
      /\ \A x \in 0..m : \A y \in 0..m : x < y <=> o[x] < o[y]
      /\ \A x \in 0..m : \A y \in 0..m : x <= y => Normal(Span(text, x, y)) = Span(h, o[x], o[y])
  BY <1>2 DEF Aligned
<1>4. a \in 0..m /\ b \in 0..m /\ a \in Nat /\ b \in Nat
  BY <1>3
<1>5. ASSUME Occurs(a, b, pattern) PROVE Occ(text, a, b, Normal(pattern))
  <2>1. b - a \in 1..Len(Normal(pattern)) /\ Normal(Span(text, a, b)) = Normal(pattern)
    BY <1>5 DEF Occurs, Span
  <2>2. a < b
    BY <1>4, <2>1
  <2> QED BY <2>1, <2>2 DEF Occ
<1>6. ASSUME Occ(text, a, b, Normal(pattern)) PROVE Occurs(a, b, pattern)
  <2>1. a < b /\ Normal(Span(text, a, b)) = Normal(pattern)
    BY <1>6 DEF Occ
  <2> DEFINE P == {i \in Nat : a + i <= m => o[a] + i <= o[a + i]}
  <2>2. 0 \in P
    BY <1>3, <1>4
  <2>3. ASSUME NEW i \in P PROVE i + 1 \in P
    <3> SUFFICES ASSUME a + (i + 1) <= m PROVE o[a] + (i + 1) <= o[a + (i + 1)]
      OBVIOUS
    <3>1. PICK x \in 0..m, y \in 0..m : x = a + i /\ y = a + (i + 1) /\ x < y
      <4>1. a + i \in 0..m /\ a + (i + 1) \in 0..m /\ a + i < a + (i + 1)
        BY <1>4
      <4> QED BY <4>1
    <3>2. o[a] \in Nat /\ o[x] \in Nat /\ o[y] \in Nat /\ o[x] < o[y]
      BY <1>3, <1>4, <3>1
    <3>3. o[a] + i <= o[x]
      BY <3>1
    <3>4. o[a] + (i + 1) <= o[y]
      BY <3>2, <3>3
    <3> QED BY <3>1, <3>4
  <2>4. P = Nat
    <3>1. P \in SUBSET Nat
      OBVIOUS
    <3> HIDE DEF P
    <3> QED BY <2>2, <2>3, <3>1, AllNumbers
  <2>5. PICK l \in Nat : l = b - a /\ a + l = b /\ l # 0
    <3>1. b - a \in Nat /\ a + (b - a) = b /\ b - a # 0
      BY <1>4, <2>1
    <3> QED BY <3>1
  <2>6. l \in P
    BY <2>4, Zenon
  <2>7. o[a] + l <= o[b]
    BY <1>4, <2>5, <2>6
  <2>8. PICK i, j : i = o[a] /\ j = o[b]
    OBVIOUS
  <2>9. i \in 0..k /\ j \in 0..k /\ i <= j /\ l <= j - i
    <3>1. i \in 0..k /\ j \in 0..k
      BY <1>3, <1>4, <2>8
    <3>2. i + l <= j
      BY <2>7, <2>8
    <3> HIDE DEF P
    <3> QED BY <3>1, <3>2
  <2>10. Len(Span(h, i, j)) = j - i
    BY ONLY h \in Seq(Units), <1>3, <2>9, SpanIs
  <2>11. Len(Normal(pattern)) = j - i
    BY <1>3, <1>4, <2>1, <2>8, <2>10
  <2>12. b - a \in 1..Len(Normal(pattern))
    BY <2>5, <2>9, <2>11
  <2> QED BY <2>1, <2>12 DEF Occurs, Span
<1> QED BY <1>5, <1>6

Spots(from, dir, pattern) ==
  {ab \in (0..Len(text)) \X (0..Len(text)) :
     /\ Occurs(ab[1], ab[2], pattern)
     /\ IF dir = "backward" THEN ab[2] <= from ELSE ab[1] >= from}

LEMMA SpotIs ==
  ASSUME AccentsOnly, text \in Seq(Chars), NEW from \in Nat, NEW dir, NEW pattern, NEW a, NEW b
  PROVE  <<a, b>> \in Spots(from, dir, pattern) <=>
           /\ Occ(text, a, b, Normal(pattern))
           /\ IF dir = "backward" THEN b <= from ELSE from <= a
<1>1. PICK m \in Nat : m = Len(text)
  BY LenProperties
<1>2. <<a, b>> \in Spots(from, dir, pattern) <=>
        /\ a \in 0..m /\ b \in 0..m /\ Occurs(a, b, pattern)
        /\ IF dir = "backward" THEN b <= from ELSE a >= from
  BY <1>1 DEF Spots
<1>3. Occ(text, a, b, Normal(pattern)) => a \in 0..m /\ b \in 0..m
  BY <1>1 DEF Occ
<1>4. a \in 0..m /\ b \in 0..m =>
        (Occurs(a, b, pattern) <=> Occ(text, a, b, Normal(pattern)))
  BY <1>1, OccursIs
<1>5. a \in 0..m => (a >= from <=> from <= a)
  OBVIOUS
<1> QED BY <1>2, <1>3, <1>4, <1>5

-----------------------------------------------------------------------------
Nearest(from, dir, pattern) ==
  IF Spots(from, dir, pattern) = {} THEN label' = "shown" /\ cursor' = cursor
  ELSE /\ label' # "shown"
       /\ <<cursor'.bound, cursor'.insert>> \in Spots(from, dir, pattern)
       /\ \A ab \in Spots(from, dir, pattern) :
            IF dir = "backward" THEN ab[1] <= cursor'.bound ELSE ab[1] >= cursor'.bound

LEMMA NearestIs ==
  ASSUME AccentsOnly, MarksInv, outlived = 0, NEW dir \in Directions,
         NEW pattern, OneLinePattern(pattern), Find(dir, pattern)
  PROVE  Nearest(ResultAt(dir), dir, pattern)
<1>1. PICK m \in Nat : m = Len(text)
  BY LenProperties DEF MarksInv
<1>2. text \in Seq(Chars)
  BY DEF MarksInv
<1>3. PICK from \in 0..m : from = Where(dir) /\ from = ResultAt(dir)
  BY <1>1, WhereIs
<1>4. PICK n : n = Normal(pattern)
  OBVIOUS
<1>5. PICK match : match = Found(dir, pattern)
  OBVIOUS
<1>6. PICK spots : spots = Spots(from, dir, pattern)
  OBVIOUS
<1>7. \A a, b : <<a, b>> \in spots <=>
        Occ(text, a, b, n) /\ IF dir = "backward" THEN b <= from ELSE from <= a
  <2>1. from \in Nat
    OBVIOUS
  <2>2. \A a, b : <<a, b>> \in Spots(from, dir, pattern) <=>
          /\ Occ(text, a, b, Normal(pattern))
          /\ IF dir = "backward" THEN b <= from ELSE from <= a
    BY <1>2, <2>1, SpotIs
  <2> QED BY <1>4, <1>6, <2>2
<1>8. \A ab \in spots : ab = <<ab[1], ab[2]>> /\ ab[1] \in 0..m
  BY <1>1, <1>6 DEF Spots
<1>9. \/ match = NoMatch /\ spots = {}
      \/ \E a, b : /\ match = [start |-> a, end |-> b] /\ match # NoMatch /\ <<a, b>> \in spots
                   /\ \A ab \in spots : IF dir = "backward" THEN ab[1] <= a ELSE ab[1] >= a
  <2>1. from \in 0..Len(text)
    BY <1>1
  <2>2. \A a, b : Occ(text, a, b, n) => a \in 0..m /\ b \in 0..m /\ 0 <= a /\ b <= m
    BY <1>1 DEF Occ
  <2>3. CASE dir = "backward"
    <3>1. LastIn(text, 0, from, n, match)
      BY <1>2, <1>3, <1>4, <1>5, <2>1, <2>3, BackwardIs DEF Found
    <3>2. \A c, d : <<c, d>> \in spots <=> Occ(text, c, d, n) /\ 0 <= c /\ d <= from
      BY <1>7, <2>2, <2>3
    <3>3. CASE match = NoMatch /\ \A c, d : ~(Occ(text, c, d, n) /\ 0 <= c /\ d <= from)
      BY <1>8, <3>2, <3>3
    <3>4. ASSUME NEW a, NEW b, match = [start |-> a, end |-> b], match # NoMatch,
                 Occ(text, a, b, n), 0 <= a, b <= from,
                 \A c, d : Occ(text, c, d, n) /\ 0 <= c /\ d <= from => c <= a
          PROVE  <<a, b>> \in spots /\ \A ab \in spots : ab[1] <= a
      BY <1>8, <3>2, <3>4
    <3> QED BY <2>3, <3>1, <3>3, <3>4 DEF LastIn
  <2>4. CASE dir # "backward"
    <3>1. FirstIn(text, from, Len(text), n, match)
      BY <1>2, <1>3, <1>4, <1>5, <2>1, <2>4, ForwardIs DEF Found
    <3>2. \A c, d : <<c, d>> \in spots <=> Occ(text, c, d, n) /\ from <= c /\ d <= Len(text)
      BY <1>1, <1>7, <2>2, <2>4
    <3>3. CASE match = NoMatch /\ \A c, d : ~(Occ(text, c, d, n) /\ from <= c /\ d <= Len(text))
      BY <1>8, <3>2, <3>3
    <3>4. ASSUME NEW a, NEW b, match = [start |-> a, end |-> b], match # NoMatch,
                 Occ(text, a, b, n), from <= a, b <= Len(text),
                 \A c, d : Occ(text, c, d, n) /\ from <= c /\ d <= Len(text) => a <= c
          PROVE  <<a, b>> \in spots /\ \A ab \in spots : ab[1] >= a
      <4>1. <<a, b>> \in spots /\ a \in 0..m
        BY <2>2, <3>2, <3>4
      <4>2. ASSUME NEW ab \in spots PROVE ab[1] >= a
        <5>1. PICK c, d : ab = <<c, d>> /\ c = ab[1] /\ c \in 0..m
          BY <1>8
        <5>2. a <= c
          BY <3>2, <3>4, <5>1
        <5> QED BY <4>1, <5>1, <5>2
      <4> QED BY <4>1, <4>2
    <3> QED BY <2>4, <3>1, <3>3, <3>4 DEF FirstIn
  <2> QED BY <2>3, <2>4
<1>10. CASE match = NoMatch
  <2>1. label' = "shown" /\ cursor' = cursor
    BY <1>5, <1>10 DEF Find
  <2>2. spots = {}
    BY <1>9, <1>10
  <2> QED BY <1>3, <1>6, <2>1, <2>2 DEF Nearest
<1>11. CASE match # NoMatch
  <2>1. PICK a, b : /\ match = [start |-> a, end |-> b] /\ <<a, b>> \in spots
                    /\ \A ab \in spots : IF dir = "backward" THEN ab[1] <= a ELSE ab[1] >= a
    BY <1>9, <1>11
  <2>2. label' # "shown" /\ cursor' = [insert |-> match.end, bound |-> match.start]
    BY <1>5, <1>11 DEF Find
  <2>3. cursor'.bound = a /\ cursor'.insert = b
    BY <2>1, <2>2
  <2>4. spots # {}
    BY <2>1
  <2> QED BY <1>3, <1>6, <2>1, <2>2, <2>3, <2>4 DEF Nearest
<1> QED BY <1>10, <1>11

LEMMA NearestStep ==
  ASSUME AccentsOnly, MarksInv, MarksInv', [BoxNext]_boxvars, acts' # acts, did'.kind \in Directions,
         entry' # <<>>, Newline \notin ToSet(entry'), outlived = 0
  PROVE  Nearest(ResultAt(did'.kind), did'.kind, entry')
<1>1. OneLinePattern(entry')
  <2>1. PICK p \in Seq(Chars) : p = entry'
    BY DEF MarksInv
  <2>2. \A i \in 1..Len(p) : p[i] \in ToSet(p)
    BY LenProperties DEF ToSet
  <2> QED BY <2>1, <2>2 DEF OneLinePattern
<1>2. \E dir \in Directions : did'.kind = dir /\ Find(dir, entry')
  <2>1. "typing" \in Directions /\ "forward" \in Directions /\ "backward" \in Directions
    BY DEF Directions
  <2>2. ASSUME NEW dir \in Directions, NEW p, Find(dir, p), entry' = p
        PROVE  did'.kind = dir /\ Find(dir, entry')
    <3>1. did' = [kind |-> dir]
      BY <2>2 DEF Find, Does
    <3> QED BY <2>2, <3>1
  <2>3. CASE EntryChanged \/ FindNext \/ FindPrevious
    <3>1. CASE EntryChanged
      BY <2>1, <2>2, <3>1 DEF EntryChanged
    <3>2. CASE FindNext
      BY <2>1, <2>2, <3>2 DEF FindNext
    <3>3. CASE FindPrevious
      BY <2>1, <2>2, <3>3 DEF FindPrevious
    <3> QED BY <2>3, <3>1, <3>2, <3>3
  <2>4. ASSUME did'.kind \in {"pane", "link", "select"} PROVE FALSE
    BY <2>4 DEF Directions
  <2>5. ~SetShowFind(0) /\ ~SetShowFind(1) /\ ~ShowFindKey /\ ~HideFind /\ ~SelectAll
    BY <2>4 DEF SetShowFind, ShowFindKey, HideFind, SelectAll, Does
  <2>6. \A p : ~Click(p)
    BY <2>4 DEF Click, Does
  <2>7. /\ ~Lookup /\ (\A body : ~DefinitionFound(body)) /\ ~LookupEnd /\ ~Error /\ ~HideTimeout
        /\ ~UNCHANGED boxvars
    BY DEF Lookup, DefinitionFound, LookupEnd, Error, HideTimeout, boxvars
  <2>8. \A show \in 0..1 : ~SetShowFind(show)
    <3>1. \A show \in 0..1 : show = 0 \/ show = 1
      OBVIOUS
    <3> QED BY <2>5, <3>1
  <2> QED BY <2>3, <2>5, <2>6, <2>7, <2>8 DEF BoxNext
<1> QED BY <1>1, <1>2, NearestIs

(* The place the code shows is the nearest one in the direction of the     *)
(* search, and it says "Not found" only if there is none                   *)
(* (gdict_defbox_find_forward and _backward).                              *)
THEOREM NearestIsFound == BoxSpec => FindsTheNearest
<1>1. ASSUME MarksInv, MarksInv', [BoxNext]_boxvars
      PROVE  AccentsOnly /\ acts' # acts /\ did'.kind \in {"typing", "forward", "backward"}
               /\ entry' # <<>> /\ Newline \notin ToSet(entry') /\ outlived = 0
             => LET dir   == did'.kind
                    from  == ResultAt(dir)
                    spots == {ab \in (0..Len(text)) \X (0..Len(text)) :
                                /\ Occurs(ab[1], ab[2], entry')
                                /\ IF dir = "backward" THEN ab[2] <= from ELSE ab[1] >= from}
                IN  IF spots = {} THEN label' = "shown" /\ cursor' = cursor
                    ELSE /\ label' # "shown"
                         /\ <<cursor'.bound, cursor'.insert>> \in spots
                         /\ \A ab \in spots : IF dir = "backward" THEN ab[1] <= cursor'.bound
                                              ELSE ab[1] >= cursor'.bound
  BY <1>1, NearestStep DEF Nearest, Spots, Directions
<1>2. BoxSpec => []MarksInv
  BY MarksInit, MarksNext, PTL DEF BoxSpec
<1> QED BY <1>1, <1>2, PTL DEF BoxSpec, FindsTheNearest

=============================================================================
