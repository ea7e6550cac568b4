------------------------------ MODULE ItemsStore ------------------------------
(* What newsraft keeps of its feeds: the rows of the tables feeds and items, *)
(* what the database file has of them after a crash, and the counters that   *)
(* the menus show.  The inserter (inserter.c, insert_feed/) writes one       *)
(* statement at a time; meanwhile the user marks items, opens menus and      *)
(* requests updates, and feeds are downloaded only when what the server said *)
(* of them, which is stored with them, allows it.                            *)
(*                                                                           *)
(* Of UpdateQueue only the order of things is kept: a feed is requested,     *)
(* downloaded, inserted and finished, and a transaction lasts from the first *)
(* request to the end of the last update.                                    *)
EXTENDS Integers, FiniteSets, Sequences, FiniteSetsExt, SequencesExt

CONSTANTS
    Feeds,
    Sections,      \* sets of feeds; the global section is Feeds
    Documents,     \* of each feed, what its server has one after the other
    Configs,       \* the settings, and what may happen under them
    MaxTime,       \* bound: the clock stops
    MaxRow         \* bound: rowids

ASSUME StoreAssumption ==
    /\ IsFiniteSet(Feeds) /\ Feeds \in Sections /\ Sections \subseteq SUBSET Feeds
    /\ Documents \in [Feeds -> Seq([etag : Nat, ttl : Nat, life : Nat,
                                    items : Seq([guid : Nat, content : Nat, date : Nat])])]
    /\ \A f \in Feeds : Documents[f] # <<>>
    /\ MaxTime \in Nat /\ MaxRow \in Nat
    /\ \A c \in Configs : c.limit \in Nat /\ c.until \in 1 .. MaxTime

VARIABLES
    cfg,           \* the settings in force; bounds: the commands the user gives,
                   \* what is not updated by command, the number of documents
                   \* of a server, the stop of the clock
    now,           \* the clock
    published,     \* of each feed, the number of the document its server has
    db,            \* the tables, as the connection of newsraft sees them, and
                   \* (history) the feeds whose items were not all stored
    saved,         \* the tables as the file has them
    queue,         \* of the feeds that are queued, how far they are
    job,           \* the inserter
    entry,         \* struct feed_entry of each feed
    section,       \* struct feed_section
    menus,         \* the open menus, the visible one last
    main,          \* what the main thread is about
    fresh,         \* history: until when what servers answered is up to date
    doubtful       \* history: feeds whose counters need not be right

vars == <<cfg, now, published, db, saved, queue, job, entry, section, menus, main,
          fresh, doubtful>>
-----------------------------------------------------------------------------
(* Tables.                                                                   *)

NoRow == [etag |-> 0, expires |-> 0, ttl |-> 0, download |-> 0, update |-> 0]

Of(items, f) == {r \in items : r.feed = f}

db_count_items(d, f, only_unread) ==
    Cardinality({r \in Of(d.items, f) : only_unread => r.unread})

\* A statement is committed at once unless a transaction is under way.
Write(d) ==
    /\ db' = d
    /\ saved' = IF cfg.batch /\ queue # <<>> THEN saved ELSE d

\* ORDER BY publication_date DESC, update_date DESC, download_date DESC, rowid DESC
Newer(r, s) ==
    \/ r.date > s.date
    \/ r.date = s.date /\ r.download > s.download
    \/ r.date = s.date /\ r.download = s.download /\ r.rowid > s.rowid

Excess(items, f) ==
    {r \in Of(items, f) :
        /\ Cardinality({s \in Of(items, f) : Newer(s, r)}) >= cfg.limit
        /\ cfg.limit_unread \/ ~r.unread
        /\ cfg.limit_important \/ ~r.important}
-----------------------------------------------------------------------------
(* Requests, downloads.                                                      *)

queue_updates(fs) ==
    LET new == fs \ DOMAIN queue
    IN  /\ queue' = [f \in DOMAIN queue \cup new |->
                        IF f \in new THEN [state |-> "requested"] ELSE queue[f]]
        /\ entry' = [f \in Feeds |-> IF f \in new THEN [entry[f] EXCEPT !.tried = now]
                                     ELSE entry[f]]

\* Expiry and time to live of what is stored may forbid the download.
IsPremature(f) ==
    LET row == db.feeds[f]
    IN  \/ cfg.respect_expires /\ row.expires > 0 /\ entry[f].tried < row.expires
        \/ /\ cfg.respect_ttl /\ row.download > 0 /\ row.ttl > 0
           /\ row.download + row.ttl > entry[f].tried

Document(f) == Documents[f][published[f]]

\* A server that is shown the tag of what it has says that it is not modified.
Reply(f) ==
    LET doc == Document(f)
        tag == db.feeds[f].etag
    IN  [ state   |-> IF tag # 0 /\ tag = doc.etag THEN "not_modified" ELSE "downloaded",
          version |-> published[f],
          expires |-> IF doc.life > 0 THEN now + doc.life ELSE 0 ]

Download(f) ==
    /\ f \in DOMAIN queue /\ queue[f].state = "requested"
    /\ \/ /\ IsPremature(f)
          /\ queue' = [queue EXCEPT ![f] = [state |-> "skipped"]]
          /\ UNCHANGED fresh
       \/ /\ ~IsPremature(f)
          /\ queue' = [queue EXCEPT ![f] = Reply(f)]
          /\ fresh' = [fresh EXCEPT ![f] = Max({@, now + Document(f).ttl, Reply(f).expires})]
       \/ /\ ~IsPremature(f) /\ cfg.failures
          /\ queue' = [queue EXCEPT ![f] = [state |-> "failed"]]
          /\ UNCHANGED fresh
    /\ UNCHANGED <<cfg, now, published, db, saved, job, entry, section, menus, main, doubtful>>
-----------------------------------------------------------------------------
(* The inserter.                                                             *)

Idle == [pc |-> "idle"]
At(pc, f) == [pc |-> pc, feed |-> f]
JobOn(f) == job # Idle /\ job.feed = f

Takes(f, states) == job = Idle /\ f \in DOMAIN queue /\ queue[f].state \in states

(* Mutant: a tag that the server no longer sends is kept. *)
TagKept(f, reply) ==
    LET doc == Documents[f][reply.version]
    IN  [ etag |-> IF doc.etag = 0 THEN db.feeds[f].etag ELSE doc.etag,
          expires |-> reply.expires, ttl |-> doc.ttl,
          download |-> entry[f].tried, update |-> entry[f].tried ]

\* INSERT OR REPLACE: nothing of the old row stays.
insert_feed_data(f, reply) ==
    LET doc == Documents[f][reply.version]
    IN  [ etag |-> doc.etag, expires |-> reply.expires, ttl |-> doc.ttl,
          download |-> entry[f].tried, update |-> entry[f].tried ]

(* Mutant: an item whose content changes is no duplicate. *)
DuplicatesOfSameContent(f, item) ==
    {r \in Of(db.items, f) : r.guid = item.guid /\ r.content = item.content}

Duplicates(f, item) == {r \in Of(db.items, f) : r.guid = item.guid}

\* Rowids are handed out again once the rows with the highest ones are gone.
NewRowid == Max({r.rowid : r \in db.items} \cup {0}) + 1

\* Bound: new rows get numbers up to MaxRow.
HasRoom(f, items) ==
    LET new == {i \in DOMAIN items : Duplicates(f, items[i]) = {}}
    IN  NewRowid + Cardinality(new) <= MaxRow + 1

InsertFeedData(f) ==
    /\ Takes(f, {"downloaded"})
    /\ HasRoom(f, Documents[f][queue[f].version].items)
    /\ Write([db EXCEPT !.feeds[f] = insert_feed_data(f, queue[f])])
    /\ job' = [pc |-> "items", feed |-> f, failed |-> FALSE,
               items |-> Documents[f][queue[f].version].items]
    /\ UNCHANGED <<cfg, now, published, queue, entry, section, menus, main, fresh, doubtful>>

(* Mutant: the row is replaced as a whole. *)
ReplacedItem(old, item, f) ==
    [ old EXCEPT !.content = item.content, !.date = item.date, !.download = entry[f].tried,
                 !.unread = ~cfg.on_arrival, !.important = FALSE ]

\* An update leaves the marks alone, except that it may make the item unread.
updated_item(old, item, f) ==
    [ old EXCEPT !.content = item.content, !.date = item.date, !.download = entry[f].tried,
                 !.unread = @ \/ cfg.on_change ]

new_item(item, f) ==
    [ rowid |-> NewRowid, feed |-> f, guid |-> item.guid, content |-> item.content,
      date |-> item.date, download |-> entry[f].tried, unread |-> ~cfg.on_arrival,
      important |-> FALSE ]

\* Only a change of the content is worth an update.
insert_item_data(f, item) ==
    LET same == {r \in Duplicates(f, item) : r.content = item.content}
        old  == Duplicates(f, item) \ same
    IN  IF same # {} THEN db.items
        ELSE (db.items \ old) \cup IF old = {} THEN {new_item(item, f)}
                                   ELSE {updated_item(r, item, f) : r \in old}

\* The list of items has the last of the document first.
InsertItemData ==
    /\ job.pc = "items" /\ job.items # <<>>
    /\ Write([db EXCEPT !.items = insert_item_data(job.feed, Last(job.items))])
    /\ job' = [job EXCEPT !.items = Front(@)]
    /\ UNCHANGED <<cfg, now, published, queue, entry, section, menus, main, fresh, doubtful>>

\* The database refuses an item: the rest is given up.
ItemRefused ==
    /\ job.pc = "items" /\ job.items # <<>> /\ cfg.failures
    /\ job' = [pc |-> "count", feed |-> job.feed, failed |-> TRUE]
    /\ Write([db EXCEPT !.incomplete = @ \cup {job.feed}])
    /\ UNCHANGED <<cfg, now, published, queue, entry, section, menus, main,
                   fresh, doubtful>>

DeleteExcessItems ==
    /\ job.pc = "items" /\ job.items = <<>>
    /\ Write([db EXCEPT !.items = IF cfg.limit > 0 THEN @ \ Excess(@, job.feed) ELSE @,
                        !.incomplete = @ \ {job.feed}])
    /\ job' = [pc |-> "count", feed |-> job.feed, failed |-> FALSE]
    /\ UNCHANGED <<cfg, now, published, queue, entry, section, menus, main, fresh, doubtful>>

(* Mutant: an update that was skipped counts as a download. *)
SkippedAsDownloaded(f) ==
    [ db.feeds[f] EXCEPT
        !.update = entry[f].tried, !.download = entry[f].tried,
        !.expires = IF queue[f].state = "not_modified" /\ queue[f].expires > 0
                    THEN queue[f].expires ELSE @ ]

\* An UPDATE without a row of the feed has nothing to update.  Tag and expiry
\* are those of the reply, when it has them.
canceled_feed(f) ==
    [ db.feeds[f] EXCEPT
        !.update = entry[f].tried,
        !.expires = IF queue[f].state = "not_modified" /\ queue[f].expires > 0
                    THEN queue[f].expires ELSE @ ]

UpdateCanceledFeed(f) ==
    /\ Takes(f, {"skipped", "not_modified"})
    /\ Write([db EXCEPT !.feeds[f] = IF @ = NoRow THEN @ ELSE canceled_feed(f)])
    /\ job' = [pc |-> "count", feed |-> f, failed |-> FALSE]
    /\ UNCHANGED <<cfg, now, published, queue, entry, section, menus, main, fresh, doubtful>>

TakeFailedFeed(f) ==
    /\ Takes(f, {"failed"})
    /\ job' = [pc |-> "count", feed |-> f, failed |-> TRUE]
    /\ UNCHANGED <<cfg, now, published, db, saved, queue, entry, section, menus, main,
                   fresh, doubtful>>

\* From here to StoreCounters the inserter holds interface_lock; the main
\* thread counts and stores without it.
InterfaceIsLocked == job.pc = "store"

Overlapping(f) ==
    \/ job.pc = "store" /\ job.feed = f
    \/ main.pc = "store" /\ main.feed = f

Doubt(f) == IF Overlapping(f) THEN doubtful \cup {f} ELSE doubtful \ {f}

CountItems ==
    /\ job.pc = "count"
    /\ job' = [pc |-> "store", feed |-> job.feed, failed |-> job.failed,
               unread |-> db_count_items(db, job.feed, TRUE),
               total |-> db_count_items(db, job.feed, FALSE)]
    /\ doubtful' = Doubt(job.feed)
    /\ UNCHANGED <<cfg, now, published, db, saved, queue, entry, section, menus, main,
                   fresh>>

(* Mutant: only counters that grow are stored. *)
GrownOnly(old) ==
    [ old EXCEPT !.unread = IF job.unread > @ THEN job.unread ELSE @,
                 !.total = job.total, !.errors = job.failed ]

Counted(old) ==
    [ old EXCEPT !.unread = job.unread, !.total = job.total, !.errors = job.failed ]

NeedRedraw(old) == Counted(old) # old

StoreCounters ==
    /\ job.pc = "store"
    /\ entry' = [entry EXCEPT ![job.feed] = Counted(@)]
    /\ job' = At(IF NeedRedraw(entry[job.feed]) THEN "refresh" ELSE "finish", job.feed)
    /\ UNCHANGED <<cfg, now, published, db, saved, queue, section, menus, main, fresh, doubtful>>

\* refresh_sections_statistics_about_underlying_feeds
Statistics ==
    [ s \in Sections |-> [ unread |-> SumFunctionOnSet([f \in Feeds |-> entry[f].unread], s),
                           has_errors |-> \E f \in s : entry[f].errors ] ]

RefreshByInserter ==
    /\ job.pc = "refresh"
    /\ section' = Statistics
    /\ job' = At("finish", job.feed)
    /\ UNCHANGED <<cfg, now, published, db, saved, queue, entry, menus, main, fresh, doubtful>>

\* queue_examine: with the last feed the transaction is committed.
Finish ==
    /\ job.pc = "finish"
    /\ LET examined == [queue EXCEPT ![job.feed] = [state |-> "finished"]]
       IN  IF \A f \in DOMAIN examined : examined[f].state = "finished"
           THEN queue' = <<>> /\ saved' = db
           ELSE queue' = examined /\ UNCHANGED saved
    /\ job' = Idle
    /\ UNCHANGED <<cfg, now, published, db, entry, section, menus, main, fresh, doubtful>>

\* process_auto_updating_feeds, called by the inserter between two feeds.
AutoUpdate(f) ==
    /\ job = Idle /\ cfg.period > 0 /\ now - entry[f].tried > cfg.period
    /\ f \notin DOMAIN queue
    /\ queue_updates({f})
    /\ UNCHANGED <<cfg, now, published, db, saved, job, section, menus, main, fresh, doubtful>>

Inserter ==
    \/ \E f \in Feeds : InsertFeedData(f) \/ UpdateCanceledFeed(f) \/ TakeFailedFeed(f)
                          \/ AutoUpdate(f)
    \/ InsertItemData \/ ItemRefused \/ DeleteExcessItems
    \/ CountItems \/ StoreCounters \/ RefreshByInserter \/ Finish
-----------------------------------------------------------------------------
(* The main thread.                                                          *)

Menu(kind, fs) == [kind |-> kind, feeds |-> fs]
Top == Last(menus)
Waits == main.pc = "idle"
Gives(command) == Waits /\ command \in cfg.commands

\* What a command for the selected entry, or for all entries, is about.
Selectable ==
    CASE Top.kind = "sections" -> Sections
      [] Top.kind = "feeds"    -> {{f} : f \in Top.feeds} \cup {Top.feeds}
      [] Top.kind = "items"    -> {Top.feeds}

\* Menus are opened and closed under interface_lock, and the feeds of the one
\* that is left are counted.
Recount(fs) ==
    [f \in Feeds |-> IF f \in fs THEN [entry[f] EXCEPT !.unread = db_count_items(db, f, TRUE)]
                     ELSE entry[f]]

\* The sections menu refreshes the statistics when it runs.
SwitchTo(stack) ==
    /\ Waits /\ ~InterfaceIsLocked
    /\ entry' = Recount(Top.feeds)
    /\ doubtful' = doubtful \ Top.feeds
    /\ menus' = stack
    /\ main' = [pc |-> IF Last(stack).kind = "sections" THEN "refresh" ELSE "idle"]
    /\ UNCHANGED <<cfg, now, published, db, saved, queue, job, section, fresh>>

OpenMenu ==
    \/ /\ Top.kind = "sections" /\ Gives("open_section")
       /\ \E s \in Sections : SwitchTo(Append(menus, Menu("feeds", s)))
    \/ /\ Top.kind = "sections" /\ Gives("explore")
       /\ SwitchTo(Append(menus, Menu("items", Feeds)))
    \/ /\ Top.kind = "feeds" /\ Gives("open_feed")
       /\ \E f \in Top.feeds : SwitchTo(Append(menus, Menu("items", {f})))

CloseMenu == Len(menus) > 1 /\ SwitchTo(Front(menus))

\* mark_feeds_read: the rows, then every counter, then the statistics.
MarkFeedsRead(fs, status) ==
    /\ Gives("mark_feeds") /\ fs # {}
    /\ Write([db EXCEPT !.items = {IF r.feed \in fs THEN [r EXCEPT !.unread = ~status] ELSE r :
                                   r \in @}])
    /\ main' = [pc |-> "count", left |-> fs]
    /\ UNCHANGED <<cfg, now, published, queue, job, entry, section, menus, fresh, doubtful>>

CountMarked ==
    /\ main.pc = "count"
    /\ \E f \in main.left :
         /\ main' = [pc |-> "store", left |-> main.left \ {f}, feed |-> f,
                     unread |-> db_count_items(db, f, TRUE)]
         /\ doubtful' = Doubt(f)
    /\ UNCHANGED <<cfg, now, published, db, saved, queue, job, entry, section, menus,
                   fresh>>

StoreMarked ==
    /\ main.pc = "store"
    /\ entry' = [entry EXCEPT ![main.feed].unread = main.unread]
    /\ main' = IF main.left = {} THEN [pc |-> "refresh"]
               ELSE [pc |-> "count", left |-> main.left]
    /\ UNCHANGED <<cfg, now, published, db, saved, queue, job, section, menus, fresh, doubtful>>

RefreshByMain ==
    /\ main.pc = "refresh" /\ ~InterfaceIsLocked
    /\ section' = Statistics
    /\ main' = [pc |-> "idle"]
    /\ UNCHANGED <<cfg, now, published, db, saved, queue, job, entry, menus, fresh, doubtful>>

\* mark_item_read and mark_item_important; counters wait for the menu's end.
MarkItem ==
    /\ Top.kind = "items"
    /\ \E r \in {r \in db.items : r.feed \in Top.feeds} :
         \E new \in {[r EXCEPT !.unread = ~@], [r EXCEPT !.important = ~@]} :
             /\ Gives(IF new.unread = r.unread THEN "mark_important" ELSE "mark_read")
             /\ Write([db EXCEPT !.items = (@ \ {r}) \cup {new}])
    /\ UNCHANGED <<cfg, now, published, queue, job, entry, section, menus, main, fresh,
                   doubtful>>

\* db_perform_user_edit with the command that marks the selected entry read.
UserEdit ==
    /\ Gives("edit")
    /\ \E fs \in Selectable :
         /\ Write([db EXCEPT !.items = {IF r.feed \in fs THEN [r EXCEPT !.unread = FALSE]
                                        ELSE r : r \in @}])
         /\ doubtful' = doubtful \cup fs
    /\ UNCHANGED <<cfg, now, published, queue, job, entry, section, menus, main, fresh>>

RequestUpdates ==
    /\ Gives("update")
    /\ \E fs \in Selectable \ cfg.unwanted : fs \ DOMAIN queue # {} /\ queue_updates(fs)
    /\ UNCHANGED <<cfg, now, published, db, saved, job, section, menus, main, fresh, doubtful>>

Main ==
    \/ OpenMenu \/ CloseMenu
    \/ \E fs \in Selectable, status \in BOOLEAN : MarkFeedsRead(fs, status)
    \/ CountMarked \/ StoreMarked \/ RefreshByMain
    \/ MarkItem \/ UserEdit \/ RequestUpdates
-----------------------------------------------------------------------------
(* A start of the program with the given tables (parse_feeds_file).          *)

Entries(d) ==
    [f \in Feeds |-> [ tried  |-> d.feeds[f].update, errors |-> FALSE,
                       unread |-> db_count_items(d, f, TRUE),
                       total  |-> db_count_items(d, f, FALSE) ]]

NoStatistics == [s \in Sections |-> [unread |-> 0, has_errors |-> FALSE]]

Init ==
    /\ cfg \in Configs /\ now = 1 /\ published = [f \in Feeds |-> 1]
    /\ db = [feeds |-> [f \in Feeds |-> NoRow], items |-> {}, incomplete |-> {}]
    /\ saved = db
    /\ queue = <<>> /\ job = Idle
    /\ entry = Entries(db) /\ section = NoStatistics
    /\ menus = <<Menu("sections", {})>> /\ main = [pc |-> "refresh"]
    /\ fresh = [f \in Feeds |-> 0] /\ doubtful = {}

\* The program is killed, or left while a transaction is under way, and
\* started again.  It may be between the feed and the last of its items.
Restart ==
    /\ cfg.crashes /\ (queue # <<>> \/ job # Idle)
    /\ saved' = IF job.pc = "items" /\ ~cfg.batch
                THEN [saved EXCEPT !.incomplete = @ \cup {job.feed}] ELSE saved
    /\ db' = saved'
    /\ queue' = <<>> /\ job' = Idle
    /\ entry' = Entries(saved) /\ section' = NoStatistics
    /\ menus' = <<Menu("sections", {})>> /\ main' = [pc |-> "refresh"]
    /\ doubtful' = {}
    /\ UNCHANGED <<cfg, now, published, fresh>>

\* newsraft -e purge-abandoned while f is not in the feeds file, into which it
\* is put again later.  (purge_abandoned_feeds: items only.)
PurgeAbandoned(f) ==
    /\ cfg.purges /\ queue = <<>> /\ job = Idle /\ Waits
    /\ Write([db EXCEPT !.items = @ \ Of(@, f), !.incomplete = @ \cup {f}])
    /\ entry' = Entries(db') /\ section' = NoStatistics
    /\ menus' = <<Menu("sections", {})>> /\ main' = [pc |-> "refresh"]
    /\ doubtful' = {}
    /\ UNCHANGED <<cfg, now, published, queue, job, fresh>>

Publish(f) ==
    /\ published[f] < Len(Documents[f]) /\ published[f] < cfg.documents
    /\ published' = [published EXCEPT ![f] = @ + 1]
    /\ UNCHANGED <<cfg, now, db, saved, queue, job, entry, section, menus, main, fresh, doubtful>>

Tick ==
    /\ now < cfg.until
    /\ now' = now + 1
    /\ UNCHANGED <<cfg, published, db, saved, queue, job, entry, section, menus, main,
                   fresh, doubtful>>

Environment ==
    Restart \/ Tick \/ \E f \in Feeds : Publish(f) \/ PurgeAbandoned(f) \/ Download(f)

Next == Inserter \/ Main \/ Environment

Spec == Init /\ [][Next]_vars
-----------------------------------------------------------------------------
(* Properties.                                                               *)

Row == [ rowid : 1..MaxRow, feed : Feeds, guid : Nat, content : Nat, date : Nat,
         download : 0..MaxTime, unread : BOOLEAN, important : BOOLEAN ]

\* What the tables, the counters and the queue are made of: rows have numbers
\* of their own, and nothing counts below zero.
TypeOK ==
    /\ now \in 1..MaxTime
    /\ \A d \in {db, saved} :
         /\ d.items \subseteq Row
         /\ \A r, s \in d.items : r.rowid = s.rowid => r = s
         /\ \A f \in Feeds : d.feeds[f] \in
                [etag : Nat, expires : Nat, ttl : Nat, download : Nat, update : Nat]
    /\ DOMAIN queue \subseteq Feeds
    /\ entry \in [Feeds -> [tried : 0..MaxTime, unread : Nat, total : Nat, errors : BOOLEAN]]
    /\ section \in [Sections -> [unread : Nat, has_errors : BOOLEAN]]
    /\ doubtful \subseteq Feeds

\* The items of the document whose tag is stored; what is over the limit is
\* not expected.
IsWhole(d, f) ==
    \A v \in DOMAIN Documents[f] :
        d.feeds[f].etag # 0 /\ d.feeds[f].etag = Documents[f][v].etag =>
            \A i \in DOMAIN Documents[f][v].items :
                LET item == Documents[f][v].items[i]
                IN  \/ \E r \in Of(d.items, f) : r.guid = item.guid /\ r.content = item.content
                    \/ /\ cfg.limit > 0
                       /\ Cardinality({r \in Of(d.items, f) : r.date >= item.date}) >= cfg.limit

\* What servers are expected to do, without which a tag says nothing: the same
\* tag stands for the same items, the items of a document have names of their
\* own, and the date of an item changes only together with its content.
ServersAreConsistent ==
    \A f \in Feeds :
        /\ \A v, w \in DOMAIN Documents[f] :
             Documents[f][v].etag # 0 /\ Documents[f][v].etag = Documents[f][w].etag =>
                 Documents[f][v].items = Documents[f][w].items
        /\ \A v \in DOMAIN Documents[f] : \A i, j \in DOMAIN Documents[f][v].items :
             Documents[f][v].items[i].guid = Documents[f][v].items[j].guid => i = j
        /\ \A x, y \in UNION {Range(Documents[f][v].items) : v \in DOMAIN Documents[f]} :
             x.guid = y.guid /\ x.content = y.content => x.date = y.date

\* A stored tag keeps the document it stands for from being sent again, so the
\* items of that document are stored, too: after an update, and in the file
\* even while one is under way.  Left out are feeds for which the database
\* refused an item or was purged, and crashes without batch transactions.
ValidatorMeansStored ==
    \A f \in Feeds :
        /\ JobOn(f) \/ f \in db.incomplete \/ IsWhole(db, f)
        /\ cfg.batch => f \in saved.incomplete \/ IsWhole(saved, f)

\* An item is stored once, however often its feed has it and changes it.
NoDuplicates ==
    \A r, s \in db.items : r.feed = s.feed /\ r.guid = s.guid => r = s

\* Updates of feeds leave items alone: the marks of the user stay, except that
\* a changed item may become unread, no item turns into another one, and items
\* vanish only over the limit, with as many newer ones as it allows, and not
\* those that the settings protect.
MarkSurvives(r, s) ==
    /\ s.feed = r.feed /\ s.guid = r.guid /\ s.important = r.important
    /\ s.unread # r.unread => cfg.on_change /\ s.unread /\ s.content # r.content

IsExcess(r, items) ==
    /\ cfg.limit > 0
    /\ cfg.limit_unread \/ ~r.unread
    /\ cfg.limit_important \/ ~r.important
    /\ Cardinality({s \in Of(items, r.feed) : s.date >= r.date}) >= cfg.limit

ItemsSurvive ==
    [][ job # job' /\ job' # Idle =>
          \A r \in db.items :
             LET same == {s \in db'.items : s.rowid = r.rowid}
             IN  IF same = {} THEN IsExcess(r, db'.items)
                 ELSE \A s \in same : MarkSurvives(r, s) ]_vars

\* The counters of a feed agree with its rows whenever neither an update nor a
\* command is under way, except while a menu of items is open, after an edit,
\* and where both threads counted the feed at the same time.
CountersAgree ==
    Waits /\ Top.kind # "items" =>
        \A f \in Feeds \ doubtful : ~JobOn(f) =>
            /\ entry[f].unread = db_count_items(db, f, TRUE)
            /\ entry[f].total = db_count_items(db, f, FALSE)

\* The statistics of the sections add up to those of their feeds, both threads
\* storing and refreshing them in any order.
SectionsAddUp ==
    Waits /\ Top.kind = "sections" /\ job.pc # "refresh" => section = Statistics

CountersAreSound == TypeOK /\ CountersAgree /\ SectionsAddUp

\* An update is skipped only while an answer of the server forbids it.
SkipsAreJustified ==
    \A f \in DOMAIN queue : queue[f].state = "skipped" =>
        fresh[f] > entry[f].tried
=============================================================================
