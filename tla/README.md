# TLA+ models of cafe-utils

cafe-utils is the set of desktop utilities of the CAFE desktop: a dictionary
client, a file search tool, a log viewer, a screenshot tool, a disk usage
analyser and a disk image mounter.  They are C programs on GLib and CTK.  What
they have in common is also what makes them hard: everything happens on a main
loop that interleaves user calls, timers, sockets, pipes, child processes and
the results of worker threads, and state is kept in flags and ids that many
callbacks read and write.

This directory models the parts of that code that carry protocol and state,
checks the models with TLC on small instances and proves the most important
results with TLAPS for every instance.

## Inventory

| Component | State it keeps | Operations and events | What is hard about it | What makes it correct |
|---|---|---|---|---|
| DICT client (`GdictClientContext`) | channel, watch and timer ids, `is_connecting`, current command, queue, last status | lookups (SHOW DB, SHOW STRAT, MATCH, DEFINE), lines from the server, timeout, socket errors, finalize | lines drive a state machine per command; lookups arrive at any time, also while the context says QUIT; failures half way through `connect ()` | no lookup is lost or answered out of turn; replies reach the right command whole; no source outlives what it uses |
| dictionary widgets (window, definition box, speller, choosers) | `is_searching`, definitions, counts, idle ids, the contexts | share one context, whose signals reach all of them; the window runs the main loop inside a handler | one widget's `lookup-end` ends another's search; a context goes while its handlers run | a widget that shows a search has one; definitions shown are of one word |
| definition box: text and find pane | buffer, links, marks, a timer | lay out definitions, follow links, search while typing, forward, backward | positions in folded and decomposed text; marks that outlive the text | a search shows the nearest occurrence; a definition is where the list of definitions says |
| dictionary sources and loader | key files, list and table of sources, `paths_dirty`, settings | load, add, edit, remove, choose, in two processes | each dialog has a list of its own; one source object in two places | a name leads to a source that is there; what was saved is used |
| search process (gsearchtool) | command status, child, pipes, timers, result list | start, stop, quit, output of `locate` and `find`, monitor events | two passes, nested main loops in the pipe callbacks, stop and quit racing the end of the child | one child at a time, no row twice, every stop ends |
| search rules (gsearchtool) | constraints, folder, settings | rows of options, the command, the session's command line | three representations of one search | the next session searches for what this one did |
| session client (libeggsmclient) | XSMP state and flags | SaveYourself, interact, save-complete, shutdown-cancelled, die, `end_session` | a dozen states and messages that cross | each SaveYourself is answered once, nobody waits for what will not come |
| log viewer: one log and the window | lines, days, `has_new_lines`, monitor, stream; active log, view, handler ids | read new lines in a thread, monitor events, select | threads and main loop share the object without a lock | no line is lost or shown twice, the view is that of the active log and follows it |
| log viewer: manager, list, loading | table of logs, active log, creation operation, stored names | start, open, close, select | loads in threads, counted completions, three copies of the list | list, table and settings agree |
| log viewer: filters | table, settings, menu, tags, active filters | add, edit, remove, switch | the active list holds no references | filters that are on exist; no stale tag |
| screenshot tool | options, dialog, children and pipes, temporary directory, copies in threads | take, save, take again, close; child and copy events | either process may die first; the dialog is answered in any order with the child | the saved file is whole, no directory stays behind |
| screenshot tool: grabbing | area, window rectangles, monitors, shape | select, read the root window, trim | edges of the screen, drags in every direction | the picture shows what was asked for |
| baobab: scan | tree, stack of rows, `STOP_SCANNING`, busy state, home monitor | scan, stop, rescan, trash, exclude, change charts | events are dispatched from inside the recursion; hard links | the tree shown is the tree on disk, each inode once |
| baobab: charts | items, root, depth, frozen flag, highlight | draw, root, zoom, hover, click | caches of a tree that changes, drawn later | no item of a removed row is used; what is drawn is what the tree says |
| disk image mounter | none that outlives an iteration | attach each image, synchronously | little | - |
| preferences, cell renderers, printing, about | settings | editing, drawing | almost only presentation | - |

`PROJECT.json` lists the components with the files they stand for and, line by
line, the hazards: what in this code is hard to test, with the properties that
would catch it going wrong or the reason why none does.

## Plan

Done: 1 the DICT client (`GdictClientContext`, the abstract `LookupQueue` it
implements, `DictSession` with a server, the proofs); 2 the search process;
3 reading logs; 4 the screenshot tool; 5 the scan of baobab; 6 the log manager,
its list and the filters (`LogviewManager`, `LogviewFilters`); 7 the dictionary
widgets (`DictWidgets`), their sources (`DictSources`) and the definition box's
text and search (`DictFind`); 8 the session client with the search rules it
saves (`SessionClient`, `GSearchRules`); 9 the charts (`BaobabChart`) and the
grabbing of pictures (`ScreenshotGrab`).

Proved since: 10 the safety of the search process, the sources, the widgets, the
screenshot tool, the session client, the charts, the log manager, the reads, and
the sessions of the DICT client with a server; 11 the tree of a scan and the
layout of the definition box, so that every invariant the runs check is a theorem.

Left, in this order:

12. The result list and the dialogs of the search tool, as far as they keep
    state (`gsearchtool-support.c`).
13. A session with an application that asks its user twice; an XSMP manager
    that saves two clients at once.

## Modules

In all modules one action is what the main loop (or a thread, or a process)
does in one go.  Code that can be interrupted, by another thread or by a nested
main loop, is split at the places where it can be.  Where handlers call one
another, the handlers are functions from states to states, composed in the
order of the calls (`DictWidgets`, `DictSources`).  History variables are
marked as such; they are read by properties and guards of bounds only.  Where
the code uses memory it has freed, the model takes a step to `undefined`, ends
there, and claims nothing about what follows.  Operators marked "Mutant" are
alternative definitions that show what a property is able to catch; no
specification uses them.

### GdictClientContext, LookupQueue

gdict-client-context.c: the connection, the queue of commands, the one command
in flight and the parser that the lines of the server drive.  One action is one
call from the application or one dispatch of a main loop source; reading
several lines in one dispatch is several `IoLine` steps.  `IoLine` is the switch
of `parse_line`, one action per branch.  A line is abstracted to what the parser
can tell apart: the number it starts with, whether it is a single period, and
(invisible to the parser) whether the server meant it as text.  The server is
arbitrary here.

`LookupQueue` states what the context promises: lookups are numbered as they are
announced, wait in that order, and leave once, completed from the front or
dropped with all the others.  `ImplementsLookupQueue` is the refinement, with
the pending lookups computed from the current command and the queue.

### DictSession

The same actions composed with a server that follows RFC 2229 as far as this
client uses it.  The server is external; the first lines of its replies are
enumerated from the codes the client lists.  It sends a reply line by line
(`serving` is the part of a reply it is in), so that the client reads while it
writes, and it may refuse to serve and break the connection at any moment, half
way through a reply too.  `FirstCodes` and `RestCodes` are the numbers that text
may begin with: the first line of a definition or of a list of matches any but
250, against which the white list of `get_status_code` protects; the other lines
only numbers that `parse_line` does not act on.  Text that begins with one that
it does act on is misread (see below), and `RepliesIntact` does not hold for it.

### DictWidgets

gdict-window.c, gdict-defbox.c, gdict-speller.c and the choosers over the
contexts they share.  A context is what the widgets see of the client: lookups
in the order they were asked for, the first being answered.  Each widget has
its own flag, connects when it first asks, and hears of every lookup of its
context, whoever asked.  `DefinitionShown` is the return from the main loop the
window runs in its handler of a definition; `nested` counts the loops.

### DictSources

gdict-source.c, gdict-source-loader.c, gdict-source-chooser.c, the two dialogs,
the window's and the applet's side of the settings.  Two processes with a
loader each; a setting reaches the other process later (`Deliver`).  The text of
a source file is one value per key; a process may die while it writes.  The
directory of the user's sources is where windows store their state when they are
closed or open another one (`StoresState`): `junk` says that `window.ini`, or what a
process left that died, is there, from the beginning perhaps.  The loader stops
reading a directory at such a file, and in which order a directory is read is not
said, so any of the user's sources may be missed then (`Scans`).
`NamesAreAlive` and `EditIsUsed` allow for a missed file (`Missed`) and for changes by
another process (`disturbed`), and for nothing else.  A
handler of a setting's change runs in every window of the process before the
next event, so `SetKeys` and `Turned` give the state after all of them: `Value`
is what a window reads after the writes it has seen (`Sets`, `Written`).

### DictFind

The buffer of gdict-defbox.c as a sequence of characters with links, the marks
of the last search, the find pane and its timer.  `InsertBody` is the layout, a
fold of `NextWord` over the words, which carries a link that is still open and
whether the next word will be lost; searches compare folded and decomposed
characters and return positions in the text as it is.  The references are
`Occurs` and `Plain`, the text of a body without its markup.  `AccentsOnly` is what
`FindsTheNearest` asks of folding: a character becomes one with accents.  Where it
becomes several letters, too much is selected.  `Kept` are the bodies
of which the code neither loses a word nor shows markup: in every word no
markup, or one link or transcription at its beginning; and a link over several
words only at the end.  For the others see below.

### GSearchCommand

The search process of gsearchtool.c and gsearchtool-callbacks.c.  The two pipe
handlers, the check of the locate data base and the dialog about a command that
cannot be run all run the main loop from inside; `stack` holds the calls that
wait in such a loop, and only the innermost one may go on.  `StdoutReady` enters
the stdout handler, `StdoutContinues` and `StdoutReadsOn` are its two ways back
from the nested loop.  A file is a model value; the text of the command is left
out, but not who owns the folder's string (`look_in`).  A row is its place in the
list; removing the rows of a file that is gone is removing places (`Without`).

### GSearchRules, SessionClient

`GSearchRules` is what a window searches for, three times: the rows of "more
options", the tests of the find command, and the command line the session is
restored from.  `SessionClient` is eggsmclient-xsmp.c, message handler by
message handler, with the application's answer, `end_session`, the idle source,
a connection that breaks, a session manager (external, modelled from the
comments of the client), and the restart with the `RestartCommand` property the
client left: it composes the two.

### LogviewReader

The reads of logview-log.c with the part of logview-window.c that asks for them
and shows them, and the days of logview-utils.c.  `StartRead`, `ReadLine`,
`ReachEnd`, `EndRead`, `FailRead` are the steps of a thread, one line at a time,
because the thread shares the log with the main loop and no lock;
`ReadNewLines` is the idle callback that shows a result.  `LoadDone` is the
callback of a load, which may make the log active and so push its first read; only
then `SetupFileMonitor` makes its monitor, or fails, and the main loop does nothing
else between the two (`MainLoopFree`) while threads and writers go on.  `missed` says that
the last line of a log was written when it had no monitor and that no read has
come to it.  Line n of a file is the number n, and `Dates` gives the date each line
carries, if it does.  Dates rise, within one year, and a line without a date is not
between two of one date: there `log_read_dates` begins a day of the next year, which
is left out.  Two threads that use the array of one log at once are undefined
behaviour: `raced`.  A result is a pointer into the array, so it is shown as the
array then is, and if a later read has added lines the array may have been moved
(`MayBeMoved`).  `calm` stays 1 until somebody acts on a log while it is
being read, or a read fails.

### LogviewManager, LogviewFilters

`LogviewManager` is logview-manager.c, logview-loglist.c and the start of
logview-app.c: loads that end in any order, the operation that counts them, the
table, the active log, the list's rows and the stored names (a set: no code
depends on their order, and loads end in any).  The first of the files that the
first start finds may be any of them.  It extends
`LogviewFilters`, because a new active log gets a new buffer and new lines are
filtered: the preferences' table and its saved form, the dialog, the menu, the
tags and the list of active filters, which holds no references.  A string is a
sequence of `Characters`; a filter is saved as fields between delimiters and read
back by `g_strsplit` (`Cut`, `Token`), and of the fields only the expression, the
last one, may hold a delimiter (`IsFilter`).

A tag is a pair of its name and its owner, a filter or the window (0).  The table
of tags has the window's own from the start (`BuiltInTags`: "bold", "invisible",
"invisible-filter", "gray") and refuses a second tag of a name (`Added`), and making
the menu anew takes off whatever tag has a name of the old menu (`Unlisted`), the
window's too.  So a filter named like one of them has no tag of its own at first,
and after the next close of the manager it is the window that has none: its
"Show matches only" then hides nothing (`hidden`).  For such names `FiltersInStep` claims
only that the name has one tag, whosesoever it is.  Left out is what the window
does under those names when a filter owns one: the lines of the other days or the
lines that do not match get that filter's looks, and a change of the theme
takes "gray" back (`populate_style_tag_table`).

### Screenshot, ScreenshotGrab

`ScreenshotGrab` is screenshot-utils.c: the selection of an area and the trimmed
picture, with pixels as pairs.  `Screenshot` extends it with the process: the
responses of the dialog, `ReadPipe` and `ChildDone`, the child's steps and the
copies' steps.  Exit forgets the parent's memory and keeps what is the
system's: children, their pipes and directories.  A file is the shot its bytes
are of and whether they are all there.  Simplified: a copy has one progress
dialog; whether a name is taken is an action of the world; `fork` succeeds.
`ChildFails` after the parent's end assumes that SIGPIPE is ignored, as GLib does for
the process once it has used a socket (the session bus): otherwise the write of
the message kills the child and the directory stays, like after any other death of
a child that is saving (`died`).

### BaobabScan

baobab.c and baobab-scan.c from the request for a scan to its end.  `frames` is
the C stack of `loopdir`, `iterstack` the rows that wait to be filled, `rows` the
tree; a row keeps the folder it was made for as history.  One action is one
entry, one call of `loopdir` or one end of it.  Events are dispatched where `stage`
is an event point; there the user may stop, quit, trash, exclude, toggle, switch
the charts, press a row or ask again, and the monitor of the home folder may
report a change.  Before `iterstack` exists a second request starts a scan
inside the first (`calls`).  Which size column is shown and the bars are left
out; "allocated" sizes are summed by the same lines and are not kept apart.

### BaobabChart

baobab-chart.c with the geometry of the two charts: items with the iter of
their row, made again only when the chart is drawn and `model_changed` says so;
root, depth, zoom, highlight, the names beside the rings; freezing and thawing
around a scan and a change of chart.  The tree is the set of folders with a row;
geometry is which folders are too small to be seen, in which size of window.

## Runs

| Run | Bounds | Distinct states | What it shows |
|---|---|---|---|
| `client_any_server` | 3 lookups, 1 line on the wire, all failures | 117 066 | lookups are accounted for and served in turn, `LookupQueue` is implemented, sources and channel do not leak, whatever the server sends |
| `session` | 3 lookups, 2 lines, lists of 2, 2 definitions of 2 lines, all failures of client and server | 395 693 | no assertion of the parser fails; replies arrive whole; until something fails only the client's own QUIT drops lookups and every lookup leaves |
| `dict_widgets` | 4 contexts, 2 words, 3 requests, 2 lookups in a queue, 1 nested loop | 335 832 | unless a source changed or a connection was lost, a widget that shows a search has one; definitions shown are of the word last looked up; the count and the place of Go are those of the definitions |
| `dict_sources` | 2 windows and the applet, 2 names, 2 values, 5 requests | 1 145 835 (with symmetry) | a freed source is found only under a name the scan misses, windows follow the settings, what was saved and can be read is used |
| `dict_find` | 3 bodies with links in and over words, 4 patterns, 2 lookups, 3 acts | 95 728 | definitions begin where the list says; a search shows the nearest occurrence or says there is none |
| `search_process` | 1 file, 2 searches, all of `Env` | 221 987 | one child, no row twice, no freed string used, stops end |
| `search_session` | 2 saves, 2 edits, 1 `end_session`, 1 restart | 568 116 | neither end gets a message it does not expect; the next session searches for the same; saves are answered; `end_session` returns |
| `log_reads` | 2 logs, 3 lines with and without a date, 2 reads at once, monitors that may fail | 1 557 938 | no line lost or doubled, days point at their lines; calm: the view is the active log and follows it |
| `log_manager` | 2 files, 3 ways to start, 3 requests, expressions with and without the delimiter, one name of the window's own | 4 101 036 | list, table and settings agree; filters that are on are alive and in the menu; every name of the menu has one tag, its filter's unless it is a name of the window's own |
| `screenshot` | 2 shots, 2 copies, 1 child that dies early, a screen of 4 by 3 with an L of monitors | 318 798 | the picture is the one asked for, the first save is whole, the temporary directory goes, the dialog does not stay insensitive |
| `baobab_scan` | 9 folders, 4 acts | 661 330 | an undisturbed scan shows the whole tree, each inode counted once; scans end; the chart shown is thawed |
| `baobab_chart` | 4 folders, 3 levels, 1 scan, 3 acts, 2 sizes of window | 1 459 531 | items of removed rows are marked, the chart ends up showing the tree |

Every property has a mutant in `PROJECT.json`: a plausible bug in one definition
with which the same run finds the property violated.

Why the bounds are enough: two lookups make a queue behind a command in flight,
the third one arrives while the context quits or reconnects.  Three requests to
the widgets are a lookup, one that interferes, and one that meets what the two
left; five to the sources are choose, edit, save, and two in another window.
Two searches show what one leaves behind for the next, and one file is enough to
be found by both passes and deleted between.  Two saves are one that is
cancelled or answered late and the one after it.  Two logs and two reads are the
least in which a read ends under another log or another read; three lines make a
day that goes on and a second one that starts in a later read, and the other log
begins with a line that has no date.  Two files and three requests are a
start, a load that races it, and a close.  Two shots share a process and two
copies overlap.  Four acts of the user in baobab are a nested scan, something
done to it, and a rescan; rows go down, stay, and climb one and two levels, and
a hard link joins folders of different depth.  A chart of three levels with
`max_depth` 2 has a level that is made and not drawn.

Deadlock is checked in `dict_widgets` and `log_reads`; the other configurations
say `CHECK_DEADLOCK FALSE` because the program exits, or because the bounds on
lookups, searches and acts are used up.

## Fairness

- `FairSession`: the main loop dispatches the readable socket, and a server that
  is up greets, answers and comes to the end of its replies.  `EveryLookupLeaves` is claimed until something
  fails.  Nothing is assumed of the user.
- `FairGSpec`: the check of locate and the child end, the main loop dispatches
  pipes that are readable, and a handler whose nested loop has nothing to
  dispatch goes on.  The child is `locate` or `find`, which end by themselves
  or by SIGKILL.
- `SessionClient`: both ends read and answer; the application answers when it
  was asked; a manager that has all answers decides.
- `LogviewReader`: the main loop dispatches results and monitor events, threads
  run, a callback that has begun ends, and a cancelled read notices the next time it
  reads.  A read that is not
  cancelled may, but need not, fail.
- `Screenshot`: watches are dispatched, the children and the copying threads run.
- `BaobabScan`: the main thread goes on.  The loops `while
  (ctk_events_pending ())` are taken to end, which holds when events come slower
  than they are handled.
- The other modules have safety properties only and assume nothing.

## Proofs

`GdictClientContextProofs` proves, for every number of lookups and lines and
every set of failures, and for a server that sends any line at any time:

- `Typing`: the type invariant, one lemma per operator and one step per action.
  `IoLine` is split by `StepCases` into the branches of the parser.
- `SourcesStayOwned`: `SourcesOwned` is inductive with the types.  It also says
  that connect () is only entered with nothing of a previous connection left:
  where `IsConnected` is false there is no channel, and so no source.
- `Numbering`: `WellNumbered`, the strengthening the others need: the ids of the
  current command and of the queue are, in order, the numbers after those that
  have left.  `LookupsAccounted` and `QueueImplemented` follow from it: every
  step of the client is a step of `LookupQueue` or a stutter, because
  `Waiting` (command, queue) changes at its ends only.
- `LookupsServedInOrder`: from `Ordered`, that what has been written is an
  initial part of what was asked, and that nothing in the queue was written.

And of `DictSession`, for every length of lists, definitions and texts and every
failure of client, server and network:

- `SessionIsASession`: a step of a session is a step of the client alone or leaves
  it as it is, so that all of the above holds of sessions too; with it the
  invariant of a session.  `RepliesIntact` says nothing of the lines between the
  server and the client, so it is far from inductive.  `Conversation` adds that,
  while a command is in flight, the lines in `inbox` lead from the place in the
  reply where the client is (`Reads`: what its command, the last status and the
  entries emitted so far say) to the place where the server is (`Says`), by the
  grammar of the replies (`Goes`); that a command is written only when no line is
  under way; and that without a command at most the greeting is.  `Leads` is a
  path through the grammar, so that no induction is needed: a line sent makes it
  longer at its end, a line read shorter at its beginning, a connection that
  breaks cuts it off.  `LineUnderstood` is the heart: a line that leads from p to
  q brings a client that is at p to q, whatever number the line begins with.
- `NoAssertionFails`, `RepliesArriveIntact` and `NothingElseLoses` (the last two
  state `RepliesIntact` and `OnlyQuitLoses`) follow: when a lookup ends the path is at the
  end of the reply, where the client's entries are the server's.

`GSearchToolProofs` proves of `GSearchCommand`, for every number of searches, lines and files
and every set of failures:

- `NeverTwoChildren`: `OneChild`.  By itself it is not inductive; `Inv` adds that
  a child that lives is the last one started (`LastOnly`), that none lives when
  a search may begin or was stopped (`AloneAtRest`), that the stdout handler
  waits in one nested loop at most, with its watch attached, and never when the
  search is at rest (`ReadWhileWatched`, `WatchedIsRunning`: without them a
  handler could come back to an end of the stream after the end and start a
  second pass), and that nothing runs or waits before the data base is checked.
  One lemma per part of a handler, one step per action.
- `FolderStaysAlive`: `StringsAlive`.  Until a command fails to start, no dialog
  waits that frees the string when it returns, and nothing else frees it.
- `NoFileTwice`: `NoDuplicateRows`.  The handler looks a file up in its table of
  the files it has added, not in the list, so the strengthening is `RowsKnown`:
  while stdout is watched every file in the list is in the table, which is emptied
  only with the list or when the watch goes.  Monitors only take away; that a
  handler which waited goes on only while stdout is watched is a part of `Inv`.

It proves of `SessionClient`, for any numbers of saves, edits and restarts:

- `NoMessageUnexpected`: `ConversationHolds`.  `Good` describes the rounds of the
  conversation: for each state of the manager which messages may be on the way,
  in which order, and which states the client may have reached by then.  One
  lemma per message handler.
- `NextSessionSearchesTheSame`: `SessionRestored`, an action property.  A save is
  answered after the property was set, but the answer can be overtaken by an
  edit; so `Saved` says what every `RestartCommand` on its way, and the one the
  manager has, would restore, compared with the search when it was written.

`DictWidgetsProofs` proves, for any finite set of contexts, any words and
requests and any depth of nested loops, `NobodyWaitsInVain` (`BusyIsPending`),
`DefinitionsOfOneWord` (`OneLookupShown`) and `WindowCountsTheBox`
(`GoesToDefinitions`).  They need one another, so one invariant `Good` carries
all: a widget that is busy is connected to a context that has a lookup
(`Pends`), the context of the box has one lookup at most, the box's, and its
definitions are of that word (`OneOfTheBox`), the window counts what the box shows
(`Counts`), and a context that nobody holds has no lookups, so that a new one begins
empty.  Each part is given up by what the property gives it up for, a change of
the context for the first, a shared context for the second, either for the third.
The handlers are functions; a lemma per handler says what it preserves, a
lemma per signal composes them in the order of connection.

`DictProofs` proves of `DictSources`, for any names, values and numbers of windows and
requests, the invariant `StoreAndUse`, and from it `NoDeadName`
(`NamesAreAlive`), `SavedIsServed` (`EditIsUsed`) and `WindowsUseTheSettings`
(`WindowsAgree`).  `Store` is about the loaders: a name in the table leads to a source
in the list, and in a process no other has interfered with (`Current`) list and
table are those of the files once they were read, but for files that were missed
(`Reading`); a name that leads nowhere is that of such a file (`TableFits`), and what
was saved is in the files (`SavedIsThere`).  `Use` is about the windows: they have the settings they
were told of (`KeysAgree`, `SourceAgrees`) and a context.  `Nearly` is what is left
of `Store` between the writing of a file and the reading of the directories.

And of `DictFind`, for any characters, words, links and numbers of lookups and
definitions, `DefinitionsAreWhole` (`DefinitionsBeginThere`).  `TextInv` is the
invariant: between where a definition begins and where the next one does is what
`InsertBody` made of it; a definition that comes is put at the end of the text, a
lookup and an error empty the list with it.  The rest is about `InsertBody`.  Folds
and flattened sequences are recursive functions of the library; `FoldsStep` and
`FlattenExists` replace them by the sequence of their partial results, over which
the argument goes word by word (`WordsKept`).  Induction is used in a first-order
form: a set of numbers with 0 and the successors of its members is `Nat`
(`AllNumbers`, from the least element of a set).  `WholeStep` is a word that is laid
out by itself; `LinkBegins`, `LinkGoesOn` and `LinkEnds` follow a link through several
words: what is laid out when it ends is the plain text of all of them.

Then `NearestIsFound` (`FindsTheNearest`), for any text, any folding with
`AccentsOnly` and any pattern within a line.  `IsCut` gives each position of the
text the number of decomposed characters before it (`CutExists`), so hits in the
folded text are places in the text (`HitIs`) and `Skipping` comes back to where a
place begins and ends (`SkippingIs`): `FirstFound` and `LastFound` are the two string
functions.  A place has no line end in it (`PlaceInLine`), so it is in its line or in
what is left of the first one, and the first line with a match has the nearest
(`ForwardIs`, `BackwardIs`).  `MarksInv` is the invariant: the marks are in the text,
and at the last result unless they are older than the text; that the result of
any search, of several lines too, is in the text is `SearchTyped`.

`ScreenshotProofs` proves, for screens of any size with any monitors and window
shapes: `PictureIsRight` (`ShotShowsWhatWasAsked`), by arithmetic on the
rectangles of `ScreenshotGrab` (`SelectionHolds`: a drag in any direction selects
the same pixels, and none off the screen), and `WholeShotIsSaved`
(`SavedIsWhole`), from `SaveHolds`: a child says nothing before its file is whole,
no copy begins before it did, and none while another goes on or waits for an
answer; after a second shot, or the death of a child while it saves, nothing of
this is claimed, as in the property.

`BaobabProofs` proves of `BaobabChart`, for any finite set of folders and any order of
events: `NoStaleItemIsDrawn` (`StaleItemsAreMarked`; `Sound`: an item of a removed row
is in a chart that is frozen or marked `model_changed`, and the names beside the
rings are of items that are there) and `ChartShowsTheTree` (`ShowsTheTree`).
`TreeInv` says of the chart in the window that, once thawed, it shows the rows or
is marked `model_changed`, and is right if no drawing is queued (`Kept`), and of the other
one that it is frozen or will be made again when it is drawn (`Waits`).
Items that are too deep may be there or not, which is why it compares the shallow
ones only (`Shallow`, `Due`); that the depths a chart computes are numbers is an
argument on maxima and minima of sets (`LeastOf`, `MaxIn`).

And of `BaobabScan`, for any finite tree of folders, files and links, any folders
that are excluded, virtual or unreadable, and any number of interferences:

- `TreeComesOutWhole`: `TreeIsWhole`.  The invariant is `WholeInv`; its heart,
  `WalkHolds`, says while an undisturbed scan goes on that there is a set
  `missed` of links, those that are not counted because another link of their inode
  was (`InodesHold`), such that: the open calls of `loopdir` are a way down from the
  folder that was asked for (`FramesHold`); each has summed what it has seen
  without what was skipped and missed, and knows how deep that is (`AmountsHold`);
  there is one row for each folder that was met and may be read, under the row of the
  folder that holds it (`RowsHold`), filled in unless its folder is open
  (`FilledHold`); `iterstack` holds the rows of the open folders in their order
  (`StackHolds`); and the walk up from the last row passes them (`PlaceHolds`), so
  that the next row comes under the right one, however far the scan has climbed.
  `CalmDone` keeps what this gives when the last call returns.  The sizes are sums over
  sets, for which the library has a fold; that it adds up over disjoint sets is
  proved first (`SumJoin`).  That what is inside a folder is reached by going
  down uses that no folder is inside itself (`EntriesAssumption`).
- `WindowChartFollows`: `ShownChartFollows`, from `ChartInv`: the chart in the window
  is frozen only while the window is busy.

`LogviewManagerProofs` proves, for any finite set of files, any command lines,
names and expressions:

- `FiltersStayInStep`: `FiltersInStep`.  `ReadAsWritten` is about the saved form: the
  positions of the first four delimiters are computed from the lengths of the
  fields (`WrittenFields`, `CutsAt`), whatever the expression holds.  While the
  dialog is open the menu lags behind the table; `TagsInv` keeps that it names the
  filters that are on and every tag that is not the window's own, so that closing
  the dialog takes all of those off, and `TagsAdded` that the filters' tags then
  find their names free, but for the window's own.  That two filters never have
  one name (`TableInv`) is what `LeftBy` is for.  A filter used after it was freed
  ends a behaviour (`wild`): the theorem is about what is left after closing.
- `RowsStayTheManagers` and `NextStartIsRight`: `RowsAreTheManagers`,
  `NextStartOpensThese`.  `InStep` says of a file nobody touched at a bad moment
  that one thread at most loads it, only while it is not open; that a stored file
  the start was given is open, being loaded for the start or among the errors the
  operation will drop; `EndsWithItsLoads` bounds the loads that count by what the
  operation still expects, so it ends with the last of them and not before.
  `OneEnds`, `OneBegins` and `ManyBegin` are about the sequence of loads.

`LogviewReaderProofs` proves, for any logs, any numbers of lines and reads and any
dates of the lines that satisfy `DatesAssumption`:

- `LinesComeInOrder`: `NoLineLost`.  As long as nothing raced, one read of a log at
  most has taken the NULL off its array (`Running`); the array is then what was
  taken from the stream, and has the NULL behind it at any other time
  (`ArrayHolds`); what was counted was taken, and is what was returned
  (`CountHolds`).  A read that fails leaves its lines in the array, not
  counted, where the next one finds them.
- `DaysStayTrue`: `DaysPointAtTheirLines`, of the logs whose first line has a date.
  A day is of lines that were counted, begins with a line of its date and has lines
  of no other, and no two are of one date (`DaysHold`).  In such a log no day means
  no line, so that days are copied unmoved only where nothing was read before; the
  lines of a day that goes on lie between two of its date, and dates rise.
- `ViewHoldsTheActiveLog`: `ViewIsCache`.  `Quiet` says that as long as everybody
  waits for reads to end there is one read or one result, of the active log, and
  the view shows what was counted before it.

All rest on the assumptions about the constants that the modules declare, and on
nothing else.  Each is what the code or the system it runs on gives: finite sets
of folders, files and contexts; monitors that lie in the root window; rectangles
of a shape counted from the corner of its window; saved filters that were split
at delimiters; an entry of a folder that is in no other place, and links of one
file that have one size; a word that begins with a backslash and has another; `None` and the like distinct from the values they stand beside.
The inductive invariants were checked by TLC on the configurations above before
they were proved.

Only model-checked: all liveness, and what needs ENABLED, which is out of the
prover's reach.

## Known disagreements

Seen while reading and modelling, where the code does not do what a comment, the
help or its own purpose suggests.  The models do what the code does; the
properties above are stated so that they hold beside these.

Dictionary client.  A connection attempt that fails or times out leaves
`is_connecting` set with no source left (gdict-client-context.c:1852, 2015).
G_IO_ERR removes the watch and keeps channel and `source_id` (:1741).  Error
replies that are not listed (502, 420) reach `g_assert (state == S_DATA)`
(:1398), though :1210 says that all error codes are caught.  Lookups queued
between the context's own QUIT (:1206) and the 221 are dropped (:1999-2003).
Text that starts with a number, after the first line of a reply, may be taken
for a status (:1687), 250 in the first one too.  `status_code` is not reset by a
disconnection (:393, :916-964): after a connection that was lost behind a 150, 151
or 152 line the greeting of the next one is judged by the white list (:1672),
read as 0 and refused.  With IPv6, setting the host name does not clear both
caches (:985, :529), so the address of the previous host is used for up to 300
seconds; a NULL host name is not the default the comment at :530 promises.

Dictionary widgets.  A search of the speller without a match leaves it busy, as
do two lookups that end before its first search (comment gdict-window.c:372).
The choosers share the window's context, so their `lookup-start` and
`lookup-end` reach the window (comment :362) and the box, whose flag is cleared
while a lookup of its own is queued: definitions of two lookups are then mixed.
Changing the source during a lookup leaves `is_searching` set for ever, and
inside the window's nested main loop (:296) it frees what the handler uses
afterwards.  `set_word` replaces the window's word although the box refuses.
221 and end of file drop the queue in silence.

Definition box.  The marks of a search outlive the text: after a new lookup
typing or Next finds nothing until Previous is used.  `insert_body` loses the
word after a link that spans words and everything after an unclosed "{", and
reads past the end of a word that begins with a single backslash.  A click on
the first character of a link looks up text from the end of the previous link.
The key that shows the find pane starts a second timer and forgets the first;
no timer is removed in dispose; "Not found" is never reset.  The last line of a
pattern of several lines is compared as a prefix.  Folding that changes the
length of a character selects one too many.

Dictionary sources.  `build_source_filenames` ends at the first file that is not
`.desktop` (gdict-source-loader.c:334; comment :302), and `gdict_window_store_state`
puts `window.ini` into the directory it reads (gdict-window.c:806) whenever a window
is closed or opens another: what is read after it is not listed (without its last
disjunct, `Missed`, TLC finds `EditIsUsed` violated by it).  `update_sources` does not clear the table by name, so a name
that was listed before and is missed now leads to a source that was freed, in
ordinary use.  A saved source takes database and strategy from
the selections of choosers that may be empty, and a failed save drops a
reference it does not own.  An edited system source cannot be removed.  Opening
a window writes the database of its source over the one that was chosen.  The
lists of other windows' dialogs, and the applet's loader, are not updated.

Search process.  `file_changed_cb` updates the counts whatever the status, so
"No files found" stays beside files found later (gsearchtool-callbacks.c:678,
gsearchtool.c:962).  Quit while a handler waits in its nested loop lets the next
pass start a child that nobody ends (callbacks.c:74).  A second pass that cannot
be started leaves the status at RUNNING while Find is offered.

Search rules.  The sort order, and constraints while the box is hidden, are not
saved in the session.  A size above 4194303 KB wraps (gsearchtool.c:791).
Restored rows are in a fixed order, and `-follow` is positional.

Session client.  A second cancellation leaves the second SaveYourself without an
answer.  A cancellation that is pending when the connection breaks sets the
state to IDLE without a connection.  `quit` is emitted after a disconnection
whatever the application answered, and an application that has answered before
it is never told.  `end_session` from `save_state` sends SaveYourselfDone twice;
it returns TRUE where no request was sent.  A shutdown of type Global leaves the
old RestartCommand.  The search tool never calls `end_session` or `will_quit`.

Log viewer.  `read_new_lines_cb` inserts the lines of a log that is no longer
active (logview-window.c:996, :1049; help index.docbook:285).  A day that goes
on is extended one line short (logview-log.c:234).  If the first read finds no
line with a date, the days of the next one are stored without the lines before them
(:211; without `BeginsWithDate` TLC finds `DaysPointAtTheirLines` violated by it); a line without a date between two of one date begins a day of
the next year (logview-utils.c:252).  A line written after the first read of a log and
before its monitor is made (:329) is shown with the next change only.  Overlapping reads of one log
race for its array (:285), and a result that is shown after a later read added
lines points into an array that may have been moved (:305); a change between end of file and the reset of
`has_new_lines` is forgotten (:301).  A start from the command line makes no log
active (logview-manager.c:229, comment :228); a file opened while the first
start enumerates is never counted, and an empty enumeration dereferences NULL
(logview-app.c:143).  Two loads of a file make two rows and one entry; closing
the last row leaves the closed log active.  A truncated `.gz` hangs its thread.
Lines that arrive while the preferences are open are filtered with filters that
may have been freed; a new buffer is not filtered until lines come; renaming a
filter onto another replaces it.  The tag of a filter named "bold", "invisible",
"invisible-filter" or "gray" is refused (logview-window.c:713), and the next close of
the manager takes the window's own tag of that name out of the table (:683-684):
after it "Show matches only", or the choice of a day, has no tag to hide lines with
or uses the filter's.

Screenshot tool.  `temporary_file` and `save_immediately` are not reset by "Take
new screenshot" (cafe-screenshot.c:737).  `dialog_timeout_id` is stale after its
timer has fired (screenshot-xfer.c:167).  Without a temporary directory the
program stays busy.  The shape of a window over the left or upper edge loses
more than is off the screen, and the pointer is drawn at the window's and not
the picture's coordinates.  With no active window a NULL is dereferenced.

Disk usage analyser.  A second request before `iterstack` is set (baobab.c:223)
runs whole and leaves `STOP_SCANNING` raised: the first scan ends at once with an
empty tree under the location of the second.  After a stop, rows left on the
stack let a folder take the name and numbers of another (baobab-scan.c:264,
baobab.c:448; index.docbook:402).  "Allocated" is sensitive during the scan
(:238) and ends the busy state.  Trashing or excluding during a scan leaves
pointers to freed rows.  A change of the home folder reported during a scan is
forgotten at its end (:261), and a press on a row during the scan clears the
flag without asking (baobab-treeview.c:122).  The root of a scan can become
excluded at run time.

Charts.  A click between the removal of a row and the next drawing activates the
row's iter.  Enlarging the window shows folders that were too small without what
is in them.  The outermost ring vanishes for some sizes with a depth of five or
more, by rounding (baobab-ringschart.c:247).  `tips_timeout_event` is not
cleared when it fires.  Zooming in the treemap uses the depth of the tree before
the scan.

## Not modelled

What has no module is listed in `PROJECT.json` with the reason.  In short: the
result list, dialogs and desktop files of the search tool, the find bar and fonts
of the log viewer, printing, sidebars, preferences that only pass a setting on,
cell renderers and drawing have no state that several callbacks share, or are
calls of GIO and CTK; of the name resolution only the outcome is modelled.  The
disk image mounter is one loop of synchronous calls.
