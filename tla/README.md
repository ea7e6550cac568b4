# A TLA+ model of newsraft

newsraft is a feed reader for the terminal. It is difficult in two ways. Three
worker threads and the user share one update queue, one database connection and
one screen. And everything it shows comes from documents of strangers, which
callbacks turn into items, and items into lines, one event at a time, with much
state between two events. This directory models both in TLA+, checks small
instances with TLC, and proves what matters most for all instances with TLAPS.

Paths below are relative to `src/src/` unless they start with `src/`.

## 1. Inventory

| Part | State | Operations | Talks to |
|---|---|---|---|
| Update queue (`queue.c`) | the list `update_queue` of `struct feed_update_state` under `update_queue_lock`; flags in each entry | `queue_updates`, `queue_pull`, `queue_examine`, `queue_destroy`, `queue_wait_finish` | all threads; database (begin, commit); status line; curl handles |
| Downloader (`downloader.c`) | the curl multi stack, running transfers, per-entry parser | `downloader_worker`, header and stream callbacks, conditional downloads | queue, parsers, inserter (wake-up) |
| Shell runner (`executor.c`) | none of its own | `executor_worker`, `execute_feed` | queue, parsers, inserter |
| Inserter (`inserter.c`) | time of the last automatic update | `inserter_worker` | queue, database, feeds' errors and counters, the visible menu |
| Threads (`threads.c`) | thread handles, conditions | start, nap (at most a second), wake up, stop | — |
| Scenario (`newsraft.c`, `signal.c`) | the stage reached, `they_want_us_to_stop` | stages forwards, destructors backwards; signal handler | everything |
| Database (`db.c`, `db-items.c`) | one SQLite connection, one transaction flag, two tables | begin, commit, close; queries | inserter, downloader, main thread |
| Stored feeds and items (`insert_feed/`) | rows of `feeds` and `items` | replace a feed, insert or update items, item limit | inserter |
| Sections, feeds file (`sections.c`, `feeds-parse.c`) | sections, feeds in them, counters | parse, refresh statistics, sort, automatic updates | menus, queue |
| Menu stack (`interface-list.c`, `interface.c`) | list of `struct menu_state`, the started `menu`, `menu_age` | `menu_setup`, `menu_start`, `menu_close`, `menu_read` | menus' loops, inserter |
| List view (`interface-list.c`) | `view_sel`, `view_min`, `view_max`, `scrolloff`, the rows painted | moves, jumps, redraws, exposures, resizes | menus' loops, inserter |
| Menus (`sections.c`, `feeds.c`, `items.c`, `items-list.c`, `items-pager.c`, `interface-errors-pager.c`) | lists shown, sorting, filters | one loop per menu | menu stack, queue, database |
| Status line and input (`interface-status.c`, `binds.c`) | message, count digits, search text, queued action | `get_input`, `status_write` | menus' loops, queue |
| Parsers (`parse_xml/`, `parse_json/`, `string-serialize.c`) | position in the document, feed being built | callbacks of expat, rows of SQLite's `json_tree`, serialization | downloader, inserter |
| Settings (`load_config/`) | global, section and feed contexts | parse, look up | everything |
| Rendering, metadata, OPML, commands, terminal, helpers | per call | sequential conversions | menus |

What makes each part right, and what is hard about it:

* **Queue and workers.** A feed is updated once per batch however often it is
  requested; no update is lost, forgotten or done by two workers; a batch ends
  when all of it is finished, and only then is it committed and freed. Hard:
  workers hold pointers into the queue without the lock; the verdict on an
  entry and the last access to it are different writes; any thread that
  examines the queue may be the one to free it.
* **Database.** What leaves the queue is durable; closing loses unfinished
  fetches at most. Hard: one transaction for all threads, the user's included.
* **Shutdown.** The program ends once asked to, in an order in which nobody
  uses what is already gone. Hard: signals at any time, a main thread that waits.
* **List view.** The selected entry exists and is visible, with its margin; no
  row is wasted; every row shows what it should. Hard: three ways of repainting,
  positions of an unsigned type, views that change while they are not shown.
* **Menu stack.** The started menu is the top of the stack; a menu that was
  closed or freed is not shown. Hard: `MENU_SWALLOW`, menus closed two at a
  time, another thread exposing entries.
* **Items and counters.** Updating a feed keeps what the user did to its items;
  counters agree with the tables in the end. Hard: counted in two threads.
* **Input.** Counts, searches and chained actions never mix up commands.
* **Parsers.** Every text ends up in the element it belongs to; what is
  serialized can be read back. Hard: one path, one buffer and the newest item
  serve elements of all namespaces, in any order and depth.
* **Rendering.** No text is lost, lines fit, numbers of links and list items are
  right, columns stand below each other. Hard: lines are broken after the fact
  and table cells moved once their row is known; each block looks at what the
  ones before it left.

The complete list of components with their status, and of hazards with their
lines, is in `PROJECT.json`.

## 2. Modules

| Module | Models | State and actions |
|---|---|---|
| `FeedUpdates` | abstract specification of a batch of updates | `pending`, `settled`, `unsaved`; request, store, settle, complete, abandon |
| `UpdateQueue` | `queue.c`, the loops of `downloader.c`, `executor.c`, `inserter.c`, `threads.c`, transactions of `db.c`, shutdown in `newsraft.c`, `signal.c` | see below |
| `MCUpdateQueue` | instances for TLC | replies that a server may give |
| `UpdateQueueProofs` | theorems about `UpdateQueue` | |
| `ListView` | `interface-list.c`, with resizes, rebuilt lists and pagers | see below |
| `MCListView` | an instance for TLC | sizes |
| `ListViewProofs` | theorems about `ListView` | |
| `Menus` | the stack of `interface-list.c`, the loops of `sections.c`, `feeds.c`, `items.c`, `items-pager.c`, `interface-errors-pager.c`, `run_menu_loop` of `interface.c` | see below |
| `MCMenus` | instances for TLC | settings and feeds files |
| `MenusProofs` | theorems about `Menus` | |
| `Input` | `get_input` of `interface-status.c`, `binds.c`, lines of `config-parse.c` that bind keys, the loops of `items.c` and `items-pager.c` as far as they read keys | see below |
| `MCInput` | an instance for TLC | bindings |
| `InputProofs` | theorems about `Input` | |
| `ItemsStore` | `insert_feed/`, `db-items.c`, the transactions and purges of `db.c`, statistics of `sections.c`, marks and edits of the menus, `inserter.c` statement by statement, the conditions of `downloader.c` | see below |
| `MCItemsStore` | an instance for TLC | documents of two servers, seven settings |
| `ItemsStoreProofs` | theorems about `ItemsStore`: which items there are, which updates are skipped, what tables, counters and tags hold | |
| `Serialized` | `string-serialize.c` and its readers `items-metadata-*.c` | operators only |
| `FeedParser` | `parse_xml/` without OPML, `parse_json/`, the choice between them | see below |
| `MCFeedParser` | instances for TLC | grammars of documents |
| `FeedParserProofs` | theorems about `Serialized`: reading inverts writing; about `FeedParser`: types, paths, and where text goes | |
| `FeedReadProofs` | theorems about `FeedParser`: what it stores is read back | |
| `RenderLine` | `render_data/line.c` | operators only |
| `RenderHtml` | `render-text-html.c`, `render-text-plain.c`, `render-block.c`, the blocks of `items-metadata.c`, the list of links | see below |
| `MCRenderHtml` | instances for TLC | pages |
| `NumberLemmas` | lemmas the proofs share: largest and least numbers, sums and folds over finite sets of indexes | |

`UpdateQueue` implements `FeedUpdates`. `FeedParser` extends `Serialized`,
`RenderHtml` extends `RenderLine`. The other modules meet at narrow
interfaces and are checked one by one: `Menus` sees of the update queue only that
the inserter exposes entries and raises the age, and of `ListView` only
that a menu has contents, which may be older than the age; `ItemsStore` keeps of
`UpdateQueue` only the order in which a feed is requested, downloaded, inserted
and finished, and of `FeedParser` only that a document has items; `Input` keeps
of `Menus` two menus, because what a key does depends on the menu and the feed.

### UpdateQueue

An entry of the queue is identified with its feed, which is sound because
`queue_updates` skips feeds that are present. `flags[f]` are the booleans of
`struct feed_update_state`, plus `"errors"` for a nonempty `new_errors`.
`pc[t]` and `target[t]` are the place of a worker in its loop and the pointer
it holds; `main` is the place of the main thread. A section under
`update_queue_lock` is one action (`AddToQueue` in `Reload` and `AutoUpdate`,
`ExamineQueue` in `MainExamine` and `InserterExamine`, `Engage`); every write to
an entry outside of the lock is an action of its own (`Receive`,
`NoteCurlResult`, `ParseRest`, `MarkDownloaded`, `ExecuteFeed`, `InsertFeed`,
`FinishFeed`), and so is the accounting under `interface_lock`
(`AccountErrors`). `queue_updates` releases the lock before it calls
`queue_examine`, therefore `Reload` and `MainExamine` are two steps.

When a queue is destroyed, workers that still point to one of its entries join
`dangling`. A write through a dangling pointer sets `used_after_free` and lands
nowhere or, with `BlockReuse`, in any entry of the present queue (`Landing`):
all that a reused block can do to this program's own state. What libcurl makes
of a freed entry is not followed further.

`transaction`, `uncommitted`, `unsaved_edits` and `lost_edits` stand for the
connection's transaction and whose writes it holds.

Abstracted: the order of the queue (a worker may be given any entry it would
accept, the code gives it the first), dates, contents, counts, notifications,
and what is printed on the status line.

### ListView

`list` holds `view_sel`, `view_min` and `view_max` of a list menu, `pager` the
range of a pager over it, `count` and `lines` how many entries they have, and
`screen` what each row (`windows[i]`) was painted with last. `Stale` marks the
rows whose content an action has made obsolete before it repaints (or fails to
repaint) them, so `ScreenIsCurrent` notices a forgotten row. Everything happens
under `interface_lock`; a command, a resize or an exposure is one action.
`Moved` and `RepaintMoved` are `change_list_view_unprotected`, split in what it
does to the view and what it does to the rows; `AdjustList` and `AdjustPager`
are `adjust_view_range_unprotected`. Subtractions of `size_t` wrap around at
`SizeLimit` (`Minus`). They really do: after a jump within a pager that was
resized, `view_min` of the list wraps around, and the redraw on return repairs
it, which `ListViewFits` shows and `ViewIsRight` proves.

Abstracted: colours, text, horizontal shifts (a repaint, as `Refresh`), which
entries are unread or important (jumps may go anywhere they could).

### Menus

`menus` is the stack with its top last (the code's list starts at the top). A
menu is known by its position, `menu` is the started one as in the code, and
`current` the one that `run_menu_loop` calls, which differ from the moment
`menu_setup` or `menu_close` returns until `menu_start`. `loop` is the place of
the main thread: a loop function begins (`"run"`: `RunSections`, `RunFeeds`,
`RunItems`, `RunItemPager`, `RunErrorsPager`), calls `menu_start` (`"start"`),
and goes through `menu_read` (`"read"`, `"catch_up"`, `"note_age"`, `"wait"`,
`"yield"`), which waits for a key in `get_input`; the commands of the user are
one action each. The places in `menu_read` are as many because the age is read
under `interface_lock`, the list caught up with, and the age noted, each by
itself, and the request to yield is tested and taken back without a lock.

Ages are only compared, so a menu is `fresh` if it has noted the present age.
Its `contents` are `"new"` if they were put together after the age rose last,
and `"old"` otherwise. A list of items may also be `"kept"`: its query was made
anew since then, but could not be prepared or found no items, and
`update_menu_item_list` left the old list in its place (`items-list.c:190`,
`items-list.c:213`), while `menu_read` notes the age all the same. `Rebuilt` has
both outcomes, for every call that makes a query: catching up, marking all items
(`Stay`), and the commands that sort or filter (`RebuildNow`); a new menu without
items closes instead (`RunItems`). Sections and feeds are put together from
memory, which does not fail. `flags` are `MENU_IS_EXPLORE` and its like, together
with a `find_filter`, as `"find"`. `size` is the number of feeds a menu shows or
shows the items of. The texts of searches, and which menu takes them, are
part of `Input`.

Every step of the main thread that needs `interface_lock` waits for the inserter
to be done `"exposing"`. `free_menus` does not, as in the code. Taken as
one step, since the main thread is alone in between: two closes in a row
(leaving explore mode), and raising the age and loading the items in
`items_menu_loop`.

Abstracted: names, the selection, sorting, messages, which items a query finds
(it may find some or none, whenever it is made), which menus have errors to show.

### Input

`key`, `queued`, `count_buf` and `search` are the static variables of
`get_input`, `count` the variable of the pager, `Undefined` while nothing has
set it. `pc` is the place of the main thread: `MenuRead` begins a call,
`NextQueued` gives the next action of the key read before, `NoKey` and
`NoticeStop` end a call without one, and `SearchKey`, `DigitKey` and `ActionKey`
are what a key does; `Handle` is what a menu does with the action it got. `ctx`
is the feed whose bindings the menu passed, read before the call, while an
action may select another one. `Yield` and `Signal` come from other threads at
any time. `process_config_line` gives the bindings from the lines of the
config file and of the feeds file.

`digits`, `press` and `finished` are history: what was really typed, against
which the statics are compared. `MenuRead` may change the selected feed, as the
list may have been rebuilt; it does so more often than the code would.

Abstracted: what an action does beyond its menu, selection and count; the echo
of digits and search text in the status line.

### ItemsStore

`db` holds the rows as the connection sees them and `saved` those in the file,
which differ within a transaction; `Restart` after a crash reads the second.
`job` is the place of the inserter between two statements: `InsertFeed` replaces
the feed's row, `InsertItem` looks for an item and inserts or updates it,
then excess items are deleted, counters counted, stored with the feed and the
sections refreshed, each a step. `main` is the place of the main thread in
the commands that mark and count, which share no lock with those steps. `menus`
are the open menus with copies of their items. `Download` applies expiry,
time-to-live, period and the tag of the stored row to what the server has
(`published` of `Documents`).

Rows have ascending numbers as `rowid` without AUTOINCREMENT gives them. `fresh`
(until when the answers of the server forbid a download), `doubtful`
(feeds counted by both threads at once) and `db.incomplete` (feeds
whose items were not all stored or were purged) are history.

Abstracted: strings are numbers, of an item only what decides whether it
is the same, newer or changed; the lists' order and filters; `item-rule`.

### Serialized and FeedParser

A string is a sequence of tokens: a piece of text is the number of the element
(or JSON row) it was written in, and the negative tokens are what the code
compares with (white space, the delimiter, keys and words). The document is
generated while it is parsed: `document` lists the elements met so far with
their attributes and `open` those that are open; `Start`, `Characters` and `End`
are the callbacks of expat, `Row` is the step over a row of SQLite's
`json_tree`. So any document the grammar allows is parsed, and a property can
ask of each piece of text where it came from (`Home`, `Around`). `data` is
`struct feed_update_state` with its path, depth, decoy and newest item. The
grammar says which elements are on each level, how many, and how much text. The
text of an element is in the buffer once at most, so an element with text on both sides
of an inner one comes up only where the code has emptied the buffer in
between, and not where both pieces are to be joined.

Two conditions on documents name what the code takes for granted. `IsFeed` says
that items and feeds are within nothing but feeds and the root of RSS, as all
formats have it. `FitsPath` says that no element is nested deeper than the path
is long; what becomes of the path in a deeper document is in section 5.

Elements whose entries in the table of `gperf-data.c` have the same position
and handlers are grouped under the name of one. Readers of the serialized
fields are applied to what was built, as the menus do later.

### RenderLine and RenderHtml

A character is a number: positive ones are letters of the text, each once, so
that a property can find them on the page; negative ones are those `line_char`
looks at; from `Decoration` on they belong to the renderer. A line is a sequence
of characters with their styles. `RenderLine` is a translation of `line.c`:
`line_char` breaks a line where `end` says, or where it must.

`events` are the nodes of Gumbo's tree in the order `render_html` visits them,
generated while they are rendered: entering an element, a letter, leaving it.
`render` is `struct html_render` with its line, its lists, its table (`rows`
of cells, each with a line of its own) and the list of links. `blocks` are the
blocks of the page that are still to come. A page with links is rendered twice,
as the pager does once the list of links is known.

The properties compare the page with `Reference`, which goes through the same
events and knows nothing of lines: the letters in their order with their styles,
the block each is part of, and the items and links.

## 3. Runs

| Run | Question | Bounds |
|---|---|---|
| `queue_http` | Are entries freed only after their verdict, and are transfers removed with them? Is the invariant of the proofs an invariant? | two feeds over HTTP, all replies, no batch transactions, signals, reused blocks |
| `queue_live` | Does the queue implement `FeedUpdates`, do transactions bracket it, is what leaves it saved? Does every queue drain, does every shutdown complete? | one feed over HTTP and one from a command that may fail, success or failure, batch transactions, edits, signals |
| `queue_reload` | Does `-e reload-all` end? | one feed of each kind, all replies, no signals, reused blocks |
| `use_after_free` | Is an entry never used after it is freed? (it is) | one feed |
| `user_edits_lost` | Do edits of the user survive the end of the program? (no) | one feed |
| `list_view` | Is what is in view in place, and is all of it shown? | heights 0 to 4, 0 to 6 entries, 0 to 5 lines, scrolloff 0, 1 and "as much as possible" |
| `menus` | Is the started menu the top of the stack, over the menu it belongs to? Does going back only go back? Does no list wait for a key that was not looked for anew? | six settings and feeds files (`AllConfigs`), lists opened on fewer than three menus, pagers on one more |
| `menus_live` | Are lists on the screen refreshed, or their items at least looked for, does the program end? | the two settings that open most menus by themselves, lists opened on one menu |
| `input` | Does each key give its actions, all and in order, with its own count? Do only entered searches search? Is a request to yield answered? | five events of the terminal (`MaxTyped`), two digits (`MaxDigits`), two feeds with bindings of their own |
| `store` | Do items and their marks survive updates? Does a stored tag imply stored items, are counters right, is an update skipped only with reason? | two feeds, seven settings (`MCConfigs`), clock up to 3, five rows |
| `parser` | Does every value land where it was written, whole and by itself, and can it be read back? | grammars of RSS, Atom, RDF, Media RSS and JSON Feed; two to six elements or rows, two pieces of text, a path of eight (`PathSize`) |
| `render` | Do lines fit, is no text lost, are blocks apart, numbers right and columns aligned? | nine kinds of pages, widths 3 to 34; up to eight elements, five letters; lists two deep (`MaxListsDepth`) |

A type invariant is part of one property of each module (`InductiveInvariant`,
`StackIsSound`, `KeysAreObeyed`, `CountersAreSound`, `PathFollowsDocument`,
`LinesAreSound`). That of `ListView` is part of `ViewInvariant`, which is proved.

Two feeds are enough for the queue: interference needs one entry that a worker
holds and another whose completion frees the queue, and there are two kinds of
fetching workers. No state but that of the feeds grows, so all runs of
`UpdateQueue` explore their complete state space without a bound on steps. For
`ListView` the largest terminal has an even, the next one an odd number of rows,
lists and texts are shorter, as long, and longer than it, and the largest
scrolloff is cut to half of the height in both. `SizeLimit` is only a number out
of reach; the proof holds for any.

The stack of `Menus` grows as long as the user opens menus (a find in a find, a
search in a search), so its runs bound what the user opens, not what opens by
itself. Three menus hold every pair that the code relates: explore mode
over feeds over sections is the deepest one that is closed two at a time, and a
pager, or a menu that opens by itself, fits on top. With two feeds a section may
have none, one (its items open instead) or several.

`Input` keeps nothing from a key beyond the next one that is not a digit, but
for the actions queued, so five events hold a key, a number too long, a key with
a chain that moves between feeds and menus, and a search in the middle. The
settings of `ItemsStore` each put one difficulty in the foreground (both
threads counting, edits, losses, limits, expiry), because their product is too
large; one feed's server changes an item, sends one without a tag, and has the
first document again. `MaxRow` has room for the four items of both servers and
one that is inserted again. The grammars of `FeedParser` and the pages of
`RenderHtml` do the same: any two leaves of an item, or the few elements that
share one piece of state, four or five deep where depth matters. `MaxListsDepth`
is 10 in the code and only a number; pages go beyond it, where section 5 says
what becomes of the numbers of list items. `PathSize` is 256 in the code.

The program ends in the state `main = "closed"` (in `Menus`, `loop =
"stopped"`, in `Input`, `pc = "ended"`), where `Terminated` stutters; documents
and pages end likewise. Deadlock is checked in all runs.

### Fairness

`queue_live` and `queue_reload` use `FairSpec`: weak fairness
of each worker and of what the main thread does by itself, strong fairness of
the end of each transfer. The code justifies it: naps and polls are timed
(`threads.c:41-48`, `downloader.c:289`, `queue.c:166`), so no wake-up is needed
for progress, and no wake-up is modelled; `CURLOPT_TIMEOUT` ends each transfer
(`downloader.c:207`), and each perform reads all messages (`downloader.c:298`).
The command of a shell feed and the notification command are assumed to end.
Nothing is assumed of the user or of signals.

`menus_live` assumes weak fairness of the inserter once it works on an update,
and strong fairness of the main thread: its steps are disabled while the
inserter is exposing, which may happen again and again, and a mutex that is
released again and again is granted in the end. Whether there are updates
is up to `InserterPull`, of which nothing is assumed.

`input` assumes weak fairness of what `get_input` and the menus do by
themselves, which the main thread does alone; `get_input` polls every 30 ms when
there is no key (`interface-status.c:19`). Keys, resizes and other threads need
not come. A request to yield is then answered unless the program stops.

### Findings

* `user_edits_lost`: with `database-batch-transactions` the user's read and
  important marks are part of the open transaction and are rolled back by
  `db_stop` with it, while the manual names only fetched content.
* `use_after_free`: `is_canceled` (downloader) and `is_failed` (executor) hand
  an entry to the inserter before its worker is done with it. With one feed in
  the queue the inserter can finish and free it under the worker.

Because of this one some invariants of `UpdateQueue` hold only until a
freed entry has been used (`used_after_free \/ ...`); the others hold whatever
such a write hits.

More deviations that the models show, or were made not to count, are in section 5.

## 4. Proofs

All constants are arbitrary, subject to an assumption of each module, which TLC
evaluates in every run: `QueueAssumption`, `ViewAssumption`, `MenusAssumption`,
`InputAssumption`, `StoreAssumption` and `ParserAssumption`. They give the
constants their types; besides, there are at least two menus on the stack, at
least two places on the path and one to nine digits in a count, and text that is
no piece of an element is white space or the delimiter.

**UpdateQueue.** `InductiveInvariant` is checked by `queue_http` and proved by
`Invariance`, one lemma per action or group of actions. What the properties
need and do not say by themselves: where a worker can be while it holds a
target (`PlacesOK`); that a target which does not dangle is in the queue, and
the inserter's never dangles (`PointersOK`), which rests on the inserter
holding an unfinished entry while others examine the queue (`EntriesOK`); that
an entry owned by a fetching worker has the flags that its place allows, and a
running transfer's entry none but `in_progress` (`OwnersOK`). From it follow
`TypeCorrect`, `TransactionsBracket`, `DequeuedIsSaved`, `LiveTransfers`,
`FailuresCanBeLookedUp`, and the action property `FreedAfterVerdict`.
`QueueImplementsBatch` proves the refinement of `FeedUpdates` under the mapping
`pending` = entries not finished, `settled` = finished entries, `unsaved` =
`uncommitted`: every step is a step of the batch or a stutter.

**ListView.** The conjunction `ViewInvariant` of the checked invariants is
inductive as it stands; `Sorted` only regroups it by the menu in view.
`ViewIsRight` rests on lemmas about the arithmetic (`Lowered`, `AdjustFits`,
`MoveFits`: whatever the view was before, a redraw makes it fit; a fitting view
still fits after any move) and on lemmas about the rows (`ListShown`: if the
range fills the rows, an exposure paints all of them; `RepaintedSelection`: if
the view stays, repainting two rows suffices). `ListAlwaysFits`,
`PagerAlwaysFits`, `ScreenShowsView` and `ScrolloffIsKept` follow.
`ScrollingIsSmooth` is an action property on top of it.

**Menus.** `MenusSound` proves `MenusInvariant`, from which the other theorems
follow. `SoundStack` says what each live menu stands on (`Founded`): only the
menus that replace the sections menu of a single section, and then the feeds
menu of a single feed, may stand on nothing; explore mode stands on the list
whose feeds it shows; the pager of an item stands on a started list of items.
This is stronger than `StackIsSound`, because what lies below a menu must be
known before it is closed two at a time. `LoopInvariant` says where the top of
the stack is while the main thread is between `menu_setup`, `menu_close` and
`menu_start` (`IsTop`), and that a menu that may open another one by itself was
not left before and has nothing upon it (`IsNew`), which is why such menus open
once. `AgeInvariant` says what `menu_read` knows at each of its places of the
rises it has missed: as long as the contents of its menu are `"old"`, it is
behind, or it does not believe to be up to date and was asked to yield. With
`KnowsAge`, by which a `fresh` menu is not `"old"` and only items are `"kept"`,
`RefreshNoticed` follows: not that each list is up to date, but that each has
been looked for anew, and that nothing but items may not have been found.
`ComingBackOnce` and
`OnlyQuittingEnds` are action properties.

**ItemsStore, items and updates.** `StoredOnce` follows from `UniqueInvariant`:
rows have numbers of their own and an item of a feed is in the tables, and in
the file, once. Its one real step is the inserter's: it inserts only what it did
not find in the statement before, and no other thread inserts.
`SkippedWithReason` follows from `FreshInvariant`: what a stored row says of
expiry and of its last download is no later than what its server really
answered, in the tables, in the file (a crash goes back to older answers, which
forbid less), and in replies on their way to the inserter; and nothing was
updated in the future. It needs that what is requested are feeds, which
`MenusInvariant` says of what the menus show. These theorems hold for any feeds,
documents, settings, commands, crashes and purges.

**ItemsStore, contents.** `ContentsInvariant` adds types, of which the numbers of
rows are the difficult part: there must be room for all items the inserter has
left (`HasRoom`).

* `UpdatesSpareItems` is about each step of the inserter. Marks survive by
  cases; what `delete_excess_items` deletes has at least as many newer items
  *that stay* as the limit asks for, while the code counts the newer items
  *there are*, some of which it deletes, too. `LimitIsReached` closes the gap: if
  one row is over the limit, the rows `Within` the limit, which stay, are as
  many as it allows.
* `CountersAgreeWithRows` follows from `CountersInvariant`. A counter is not
  right at all times; it is right, or somebody is going to count again
  (`WillBeCounted`), or both threads counted (`doubtful`). `StatisticsAreKnown`
  says the same of the sections with `WillBeRefreshed`; that their statistics are
  sums over their feeds needs that the main thread does not count a feed twice
  (`MarkedOnce`).
* `TagsMeanStored` follows from `ValidatorInvariant`: rows are of documents the
  server had (`RowsAreServed`); while the inserter works, the items of the
  document it has stored the tag of are stored or still in its hands
  (`JobIsInsertion`); everything else is whole, in the tables and, with batch
  transactions, in the file. Its hypothesis `ServersAreConsistent` says that the
  same tag stands for the same items, the items of a document have identities of
  their own, and the date of an item changes only with its content. TLC evaluates
  it as an assumption of `MCItemsStore`.

**Input.** `SearchesAreEntered` follows from `SearchInvariant`: outside of the
typing of a search, a text that is left in `get_input` was entered.
`KeysDoAsBound` follows from `KeysInvariant`: the actions of the last key that
were given, and those still queued, make up its binding (`ActionsAreQueued`); the
count is made of the digits since the last overflow (`CountIsTyped`). Which
bindings there are is the fold of any number of lines of the config file and of
the feeds file, typed by induction over the lines.

**FeedParser.** What a handler does is said once, by one lemma per handler, for a
set of tokens that the text and the attributes are made of (T), one that the feed
is made of (F) and one that the newest item is made of (C). The lemmas are used
three times: with all integers, for types; with the tokens of a place of the
document, for where text goes; and with what may have been collected since an
element was opened, for values. The lemmas also say which single value a
handler writes, and from what.

* `PathIsFollowed` follows from `PathInvariant`: the document is a tree, what
  is open is a path in it, the parser's path has the meaning of each, and there
  is an item wherever the path says so.
* `TextStaysHome` follows from `HomeInvariant`. What is around an open element
  is what is open above it (`AroundIsOpen`); there are as many items in `data`
  as in the document, so that the newest one is the one that is open
  (`ItemsAreCounted`); text that a handler could read is of the place it would be
  written to (`TextIsOfHere`); indexes of JSON items are counted
  (`IndexesAreCounted`).
* `TextsAreOfOne` follows from `ValuesInvariant`: the buffer holds text from
  inside the innermost open element or, while content of an item is collected,
  from inside that content (`TextIsInside`), and values are text of one element
  (`ValuesAreOfOne`). The proof did not go through as first stated: a Dublin Core
  title or an update date within XHTML content is looked for in no place of its
  own, so it takes in what precedes it. TLC showed the document once the grammar
  had one; the property names the exception now, and so does section 5.

**FeedParser, what is read back.** The properties above say which tokens a value
is made of; these say that what was collected is there, whole and in order, when
the menus read it. `EntryIsReadBack` says it of the format alone, for any data and
fields: a new entry is read as the last one, each value without its delimiters,
and the entries before it as they were. It rests on `Form`: data begin with the
delimiter or are empty, since `deserialize` takes the first token for the
delimiter, whatever it is. `ListsAreFormed` says that all lists have this form.
The steps of the parser are then reduced to two: a handler begins an entry, or
completes the last one, in one list of one home (`Changes`), and an entry that
is not the last one never changes. An invariant has to say why the last
one, which a later element completes, does not lose what is claimed of it.

* `AttachmentsStay`, from `LinksInvariant`. In XML what completes the last
  attachment never is a URL, so the claim about the URLs is inductive. In JSON
  the rows of one attachment complete its entry: the invariant adds that a URL is
  in an earlier entry, or its row is of the attachment that is read (`IsLatest`).
* The names of persons, from `PersonsInvariant`. A person is shown only with a type, so
  the last person of a home has one while an element of a person is open
  (`PersonsAreTyped`; `LastsAreTyped` in JSON), and a name is in an earlier entry,
  or no element that could replace it is open (`IsLastPerson`; in JSON, its author
  is the current one, `IsCurrent`). The hypothesis of the property for XML is that
  there are no strays, data of someone who is no person of an item or feed;
  section 5 says what becomes of them. `MetadataStays` is the conjunction of the two.
* `ContentStays`, from `ContentInvariant`. What is read at an end tag must be what
  was written: `OpenInvariant` (the open elements are the last children of each
  other) and `TextInvariant` (the buffer is the text of the innermost element as
  long as that has no children, and in XHTML content that of the whole content,
  `ContentIsRead`) say that the buffer is the text of the element that ends. Then a
  text is in an earlier entry, or it is in the last one and nothing is open
  whose end will write to it (`LastTextIsSafe`). At first this was false: an
  element inside of content may begin an entry of its own, and the end of the
  outer element writes to that one. `IsContentElement` excepts elements within such
  content, and section 5 names the deviation.

**Lemmas.** `NumberLemmas` replaces induction over numbers, whose theorems take an
operator as a parameter. Finite sets are well-founded under inclusion, and so
sets of numbers have a least and a largest one; `FoldExists` and
`IndexInduction` do for the folds of the community modules what induction over
indexes would do. With them the lemmas say what counting the unread and reading
lines of a config file keep to. `FeedParserProofs` begins with the same for
`FoldLeft`: a run of a fold exists for any step that is a function (`RunsExist`),
whatever takes its steps is that run (`RunIs`), and it takes one step for one
element more (`RunAppend`). The lemmas about `deserialize`, `Entries`, the readers
of links and persons, and what of a text is in a set of tokens (`Only`) follow.

Only model-checked: the properties of `RenderHtml`, because `RenderLine` and the
widening of tables are `RECURSIVE` operators, which the provers cannot reason
about (`LinesAreSound`, besides, holds only of pages wide enough for what is
indented on them: section 5); and liveness (`QueueDrains`, `ShutdownCompletes`, `ReloadCompletes`,
`ListsRefresh`, `StopEnds`, `YieldIsAnswered`), which TLAPS cannot prove under
fairness.

## 5. Not modelled, and known deviations

Not modelled:

* Failures of BEGIN and COMMIT. The database is locked exclusively, so they
  need a broken disk.
* The thread safety of libcurl calls made from other threads, data races on
  strings (`feed->errors`, `new_errors`), torn or reordered writes of flags:
  writes to flags are atomic and seen in program order.
* Lock acquisition as steps. The sections under locks are atomic; whether the
  order of locks can deadlock is planned as a module of its own.
* The text buffers of pagers (a jump renders into the one on the screen), and an
  inserter that finishes an update before the first menu is started
  (`interface-list.c:66`).
* Stages of `run_scenario` that fail, and threads of which only some start.
* OPML conversion, commands and the terminal layer: conversions and output
  without shared state. `termbox2.h` is third-party code.
* The syntax of the feeds file, merging of sections and inheritance of settings;
  an empty menu of sections (`sections.c:22`).
* The lists of items are copied in one step; the code steps the query of a
  list lazily (`items-list.c:110`), so its rest is read after later changes.
* Drawing of the status line, sorting, `item-rule`.

Known deviations. Properties are stated so that these do not count, or the model
has them in an abstracted form; each is what the code does:

* Scheduling. `queue_wait_finish` ignores `they_want_us_to_stop`
  (`queue.c:172`): after SIGINT during `-e reload-all` the workers exit and the
  main thread polls forever a queue nobody empties. `run_scenario` calls
  `free_menus` before `threads_stop` (`newsraft.c:160`), so an
  inserter that is working on an update can expose a menu that was freed. A
  search text typed in a pager is refused as a command, but is
  taken by the next menu that is set up (`interface-status.c:184`), which narrows
  explore mode by it.
* Refreshes. A list of items whose refresh finds nothing, or whose query fails,
  stays as it is, and the age is noted nevertheless (`interface-list.c:526`), so
  nothing tries again before the age rises once more. With read items hidden, for
  example, the items are still listed as before once all are marked as read. `CaughtUp`,
  which `NoRefreshMissed` and `ListsRefresh` demand, allows such contents
  for items, and for nothing else.
* Input. `count` of the pager is not initialized when an action that
  opened it is followed by one that uses it (`items-pager.c:54`). A chain goes on
  in the bindings of another feed when one of its actions selects an entry of
  that. `start-search` does nothing as a later action of a chain, and drops the
  rest of it as the first.
* Counters. When both threads count a feed at the same time, the older count may
  win and stays until the next change of menus (`doubtful`). The news of a
  feed are counted from such a counter. Marks of all items of a feed do not
  heed its `item-rule`.
* Tags. The row of a feed, with its ETag, is written before its items: an item
  the database refuses, or a crash without batch transactions, leaves a tag whose
  items are missing, and a 304 keeps them away. A purge of abandoned feeds
  deletes items only (`sections.c:211`), so a feed that is added again
  stays empty until its document changes. `IsWhole` excepts these feeds.
* Rows. Replacing a feed's row drops its `user_data`. An item of which only the
  title changed is not stored anew. Items over the limit that a document still
  has are inserted and deleted by each update. A row number can be used
  again, so a mark in a list that is out of date may hit another item. Addresses
  with and without a trailing slash are two feeds that share their rows. The
  date of a failed attempt is not stored, although `db.c:111` says so.
  `db_perform_user_edit` drops the last eight characters of an edit that
  does not end in `@selected` (`db.c:413`).
* Parsers. `current_author_index` is shared by authors of the feed and of items
  (`setup-json-parser.c:66`), so authors of the feed that come after items may be
  joined with another person. Name, address and email of the author of an
  entry's `source` go to the last person before it (`IsStray`), and a description
  within `media:content` without an address to the attachment before it. The
  `author` of an item of
  JSON Feed 1.0 replaces the link of the item; tags of items are never read.
  The end of an Atom text, a subtitle or a `media:description` writes to the last entry
  of content there is: when an element inside of it has begun one, it is
  the inner text that is replaced (`LastEntryTexts`).
  White space before inner end tags of XHTML is dropped, as is text before a
  child in an element that is no content. A Dublin Core title or a date of an
  update within XHTML content is read with the text of the content before it. The
  depth of the path wraps around at 256, and is then kept from falling below 0 at
  the end of the outer elements, so the path stays off for the rest of the
  document.
* Rendering. `line_char` adds lines for ever when an indentation leaves one
  column and a wide character comes (`stuck`, where the model stops). A line whose
  indentation reaches the limit is not broken at all (`IsForced`), so it is wider
  than the page; the pages of `MCRenderHtml` are wider than their indentations.
  Text of a list item is joined with a paragraph that follows it. A text that
  begins with a star or a number and a dot is taken for the mark of a list item.
  In lists deeper than 10 the depth is decremented more often than incremented. A
  quote in a list item indents a line already begun. Widths of cells
  are counted in characters, not columns; cells that span columns and grow
  longer in later lines lose the alignment. Text before a table is joined with
  its first row. Tables in tables are printed as tags. The place of a break
  is not reset when white space is trimmed.

## 6. Plan

Done, in this order: `FeedUpdates`, `UpdateQueue` with refinement and proofs;
`ListView` with proofs; `Menus`; `Input`, `ItemsStore` (with conditional
downloads); `Serialized`, `FeedParser`; `RenderLine`, `RenderHtml`; proofs of all
safety properties of `ItemsStore`, `Menus` and `Input`; proofs of where
`FeedParser` puts text, and that what it stores is read back whole.

Left:

1. `RenderLine` without recursion, so that `LinesAreSound` can be proved for
   indentations below the limit.
2. Pagers' buffers: a second buffer per pager in `Menus`, exposed by the inserter
   while a jump renders into it.
3. `Scenario`: stages that fail, partial start of threads; teardown touches only
   what was set up.
4. `Locks`: the acquisition order of the locks, with deadlock checking.
5. `Settings`, `Sections`, `FeedsFile`: precedence of settings, sections and
   duplicates; OPML on top.
