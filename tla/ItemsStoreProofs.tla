--------------------------- MODULE ItemsStoreProofs ---------------------------
(* Proofs about ItemsStore, for any feeds, documents, settings and commands:  *)
(* which items there are and which updates are skipped, then what the tables, *)
(* counters and statistics hold.                                              *)
EXTENDS ItemsStore, NumberLemmas, SequenceTheorems, TLAPS

(* What every step of the state machine is: one that may write to the tables *)
(* or one that leaves them alone.                                            *)
Writing ==
    \/ \E f \in Feeds : InsertFeedData(f) \/ UpdateCanceledFeed(f) \/ PurgeAbandoned(f)
    \/ InsertItemData \/ ItemRefused \/ DeleteExcessItems
    \/ \E fs \in Selectable, status \in BOOLEAN : MarkFeedsRead(fs, status)
    \/ MarkItem \/ UserEdit
    \/ Finish \/ Restart

Leaving ==
    \/ \E f \in Feeds : Download(f) \/ TakeFailedFeed(f) \/ AutoUpdate(f) \/ Publish(f)
    \/ CountItems \/ StoreCounters \/ RefreshByInserter
    \/ OpenMenu \/ CloseMenu \/ CountMarked \/ StoreMarked \/ RefreshByMain \/ RequestUpdates
    \/ Tick

(* Next has no other steps. *)
LEMMA NextIsStep == Next => Writing \/ Leaving
BY DEF Next, Inserter, Main, Environment, Writing, Leaving

-----------------------------------------------------------------------------
(* No duplicates.                                                            *)

IsItem(r) == {"feed", "guid"} \subseteq DOMAIN r

Unique(items) ==
    /\ \A r \in items : IsItem(r)
    /\ \A r, s \in items : r.feed = s.feed /\ r.guid = s.guid => r = s

IsTables(d) ==
    /\ {"feeds", "items", "incomplete"} \subseteq DOMAIN d
    /\ Unique(d.items)

(* Both what the program sees and what the file has. *)
UniqueInvariant == IsTables(db) /\ IsTables(saved)

(* The search for duplicates keeps an item from being stored twice.          *)
LEMMA InsertionIsUnique ==
    ASSUME Unique(db.items), NEW f, NEW item
    PROVE  Unique(insert_item_data(f, item))
<1> DEFINE same == {r \in Duplicates(f, item) : r.content = item.content}
           old  == Duplicates(f, item) \ same
<1>1. CASE same # {}
  BY <1>1 DEF insert_item_data
<1>2. CASE same = {} /\ old = {}
  <2>1. insert_item_data(f, item) = db.items \cup {new_item(item, f)}
    BY <1>2 DEF insert_item_data
  <2>2. \A r \in db.items : ~(r.feed = f /\ r.guid = item.guid)
    BY <1>2 DEF Duplicates, Of
  <2>3. /\ IsItem(new_item(item, f))
        /\ new_item(item, f).feed = f /\ new_item(item, f).guid = item.guid
    BY DEF new_item, IsItem
  <2> QED BY <2>1, <2>2, <2>3 DEF Unique
<1>3. CASE same = {} /\ old # {}
  <2>1. PICK r \in db.items : old = {r} /\ r.feed = f /\ r.guid = item.guid
    BY <1>3 DEF Duplicates, Of, Unique
  <2>2. insert_item_data(f, item) = (db.items \ {r}) \cup {updated_item(r, item, f)}
    BY <1>3, <2>1 DEF insert_item_data
  <2>3. /\ IsItem(updated_item(r, item, f))
        /\ updated_item(r, item, f).feed = r.feed /\ updated_item(r, item, f).guid = r.guid
    <3>1. IsItem(r)
      BY <2>1 DEF Unique
    <3> QED BY <3>1 DEF updated_item, IsItem
  <2> QED BY <2>2, <2>3 DEF Unique
<1> QED BY <1>1, <1>2, <1>3

(* Rows with the mark that a command gives to the items of some feeds.       *)
Marked(items, fs, unread) ==
    {IF r.feed \in fs THEN [r EXCEPT !.unread = unread] ELSE r : r \in items}

(* Marks do not make two items one, or one two.                              *)
LEMMA MarkingIsUnique ==
    ASSUME NEW items, Unique(items), NEW fs, NEW unread
    PROVE  Unique(Marked(items, fs, unread))
<1> DEFINE New(r) == IF r.feed \in fs THEN [r EXCEPT !.unread = unread] ELSE r
<1>1. \A r \in items : IsItem(New(r)) /\ New(r).feed = r.feed /\ New(r).guid = r.guid
  BY DEF Unique, IsItem
<1> HIDE DEF New
<1>2. Unique({New(r) : r \in items})
  BY <1>1 DEF Unique
<1> QED BY <1>2 DEF New, Marked

(* A statement leaves tables without duplicates if it writes such.           *)
LEMMA WriteIsUnique ==
    ASSUME UniqueInvariant, NEW d, IsTables(d), Write(d)
    PROVE  UniqueInvariant'
<1>1. db' = d /\ saved' \in {saved, d}
  BY DEF Write
<1> QED BY <1>1 DEF UniqueInvariant, IsTables

LEMMA UniqueInit == Init => UniqueInvariant
BY DEF Init, UniqueInvariant, IsTables, Unique

LEMMA UniqueNext == UniqueInvariant /\ [Next]_vars => UniqueInvariant'
<1> SUFFICES ASSUME UniqueInvariant, [Next]_vars PROVE UniqueInvariant'
  OBVIOUS
<1>0. /\ IsTables(db) /\ {"feeds", "items", "incomplete"} \subseteq DOMAIN db
      /\ Unique(db.items)
  BY DEF UniqueInvariant, IsTables
<1>1. CASE UNCHANGED <<db, saved>>
  BY <1>1 DEF UniqueInvariant, IsTables
<1>2. CASE Leaving
  BY <1>1, <1>2 DEF Leaving, Download, TakeFailedFeed, AutoUpdate, Publish, CountItems, StoreCounters,
     RefreshByInserter, OpenMenu, CloseMenu, SwitchTo, CountMarked, StoreMarked, RefreshByMain,
     RequestUpdates, Tick
<1>3. ASSUME NEW items, Unique(items), Write([db EXCEPT !.items = items])
      PROVE  UniqueInvariant'
  <2>1. IsTables([db EXCEPT !.items = items])
    BY <1>0, <1>3 DEF IsTables
  <2> QED BY <1>3, <2>1, WriteIsUnique
<1>4. ASSUME NEW items, Unique(items), NEW incomplete,
             Write([db EXCEPT !.items = items, !.incomplete = incomplete])
      PROVE  UniqueInvariant'
  <2>1. IsTables([db EXCEPT !.items = items, !.incomplete = incomplete])
    BY <1>0, <1>4 DEF IsTables
  <2> QED BY <1>4, <2>1, WriteIsUnique
<1>5. ASSUME NEW d, Write(d), d.items = db.items, DOMAIN d = DOMAIN db
      PROVE  UniqueInvariant'
  <2>1. IsTables(d)
    BY <1>0, <1>5 DEF IsTables
  <2> QED BY <1>5, <2>1, WriteIsUnique
<1>6. CASE Writing
  <2>1. ASSUME NEW f \in Feeds, InsertFeedData(f) PROVE UniqueInvariant'
    <3> DEFINE d == [db EXCEPT !.feeds[f] = insert_feed_data(f, queue[f])]
    <3>1. Write(d)
      BY <2>1 DEF InsertFeedData
    <3> QED BY <1>0, <1>5, <3>1
  <2>2. ASSUME NEW f \in Feeds, UpdateCanceledFeed(f) PROVE UniqueInvariant'
    <3> DEFINE d == [db EXCEPT !.feeds[f] = IF @ = NoRow THEN @ ELSE canceled_feed(f)]
    <3>1. Write(d)
      BY <2>2 DEF UpdateCanceledFeed
    <3> QED BY <1>0, <1>5, <3>1
  <2>3. ASSUME NEW f \in Feeds, PurgeAbandoned(f) PROVE UniqueInvariant'
    <3> DEFINE items == db.items \ Of(db.items, f)
    <3>1. Write([db EXCEPT !.items = items, !.incomplete = db.incomplete \cup {f}])
      BY <2>3 DEF PurgeAbandoned
    <3>2. Unique(items)
      BY <1>0 DEF Unique
    <3> HIDE DEF items
    <3> QED BY <1>4, <3>1, <3>2
  <2>4. CASE InsertItemData
    <3>1. Write([db EXCEPT !.items = insert_item_data(job.feed, Last(job.items))])
      BY <2>4 DEF InsertItemData
    <3> QED BY <1>0, <1>3, <3>1, InsertionIsUnique
  <2>5. CASE ItemRefused
    <3> DEFINE d == [db EXCEPT !.incomplete = @ \cup {job.feed}]
    <3>1. Write(d)
      BY <2>5 DEF ItemRefused
    <3> QED BY <1>0, <1>5, <3>1
  <2>6. CASE DeleteExcessItems
    <3> DEFINE items == IF cfg.limit > 0 THEN db.items \ Excess(db.items, job.feed) ELSE db.items
    <3>1. Write([db EXCEPT !.items = items, !.incomplete = db.incomplete \ {job.feed}])
      BY <2>6 DEF DeleteExcessItems
    <3>2. Unique(items)
      BY <1>0 DEF Unique
    <3> HIDE DEF items
    <3> QED BY <1>4, <3>1, <3>2
  <2>7. ASSUME NEW fs, NEW status, MarkFeedsRead(fs, status) PROVE UniqueInvariant'
    <3>1. Write([db EXCEPT !.items = Marked(db.items, fs, ~status)])
      BY <2>7 DEF MarkFeedsRead, Marked
    <3> QED BY <1>0, <1>3, <3>1, MarkingIsUnique
  <2>8. CASE MarkItem
    <3>0. PICK r \in db.items :
            \E new \in {[r EXCEPT !.unread = ~@], [r EXCEPT !.important = ~@]} :
              Write([db EXCEPT !.items = (@ \ {r}) \cup {new}])
      BY <2>8 DEF MarkItem
    <3>1. PICK new \in {[r EXCEPT !.unread = ~@], [r EXCEPT !.important = ~@]} :
            Write([db EXCEPT !.items = (@ \ {r}) \cup {new}])
      BY <3>0
    <3>2. IsItem(new) /\ new.feed = r.feed /\ new.guid = r.guid
      <4>1. IsItem(r)
        BY <1>0 DEF Unique
      <4> QED BY <3>1, <4>1 DEF IsItem
    <3>3. Unique((db.items \ {r}) \cup {new})
      BY <1>0, <3>2 DEF Unique
    <3> QED BY <1>3, <3>1, <3>3
  <2>9. CASE UserEdit
    <3>1. PICK fs : Write([db EXCEPT !.items = Marked(db.items, fs, FALSE)])
      BY <2>9 DEF UserEdit, Marked
    <3> QED BY <1>0, <1>3, <3>1, MarkingIsUnique
  <2>10. CASE Finish
    BY <2>10 DEF Finish, UniqueInvariant, IsTables
  <2>11. CASE Restart
    <3>1. /\ DOMAIN saved' = DOMAIN saved /\ saved'.items = saved.items
          /\ db' = saved'
      BY <2>11 DEF Restart, UniqueInvariant, IsTables
    <3> QED BY <3>1 DEF UniqueInvariant, IsTables
  <2> QED BY <1>6, <2>1, <2>2, <2>3, <2>4, <2>5, <2>6, <2>7, <2>8, <2>9, <2>10, <2>11 DEF Writing
<1> QED BY <1>1, <1>2, <1>6, NextIsStep DEF vars

(* An item is stored once, however often its feed has it and changes it, and *)
(* whatever updates, marks, crashes and purges come in between.              *)
THEOREM StoredOnce == Spec => []NoDuplicates
<1>1. UniqueInvariant => NoDuplicates
  BY DEF UniqueInvariant, IsTables, Unique, NoDuplicates
<1> QED BY <1>1, UniqueInit, UniqueNext, PTL DEF Spec

-----------------------------------------------------------------------------
(* Updates that are skipped.                                                 *)

(* What a row of the table feeds says is not later than what the server said *)
(* (until limit); it was written before time.                                *)
RowIsKnown(row, time, limit) ==
    /\ {"etag", "expires", "ttl", "download", "update"} \subseteq DOMAIN row
    /\ row.expires \in Nat /\ row.ttl \in Nat /\ row.download \in Nat /\ row.update \in Nat
    /\ row.update <= time /\ row.expires <= limit /\ row.download + row.ttl <= limit

RowsAreKnown(d, time, limits) ==
    /\ {"feeds", "items", "incomplete"} \subseteq DOMAIN d
    /\ DOMAIN d.feeds = Feeds
    /\ \A f \in Feeds : RowIsKnown(d.feeds[f], time, limits[f])

(* So is what was answered to a feed in the queue; nothing is skipped without. *)
ReplyIsKnown(f, q, tried, limit) ==
    /\ q.state \in {"downloaded", "not_modified"} => q.expires \in Nat /\ q.expires <= limit
    /\ q.state = "downloaded" => /\ q.version \in DOMAIN Documents[f]
                                 /\ tried + Documents[f][q.version].ttl <= limit
    /\ q.state = "skipped" => tried < limit

EntriesAreTried ==
    /\ DOMAIN entry = Feeds
    /\ \A f \in Feeds : /\ "tried" \in DOMAIN entry[f]
                        /\ entry[f].tried \in Nat /\ entry[f].tried <= now

QueueIsKnown ==
    /\ DOMAIN queue \subseteq Feeds
    /\ \A f \in DOMAIN queue : ReplyIsKnown(f, queue[f], entry[f].tried, fresh[f])

FreshInvariant ==
    /\ now \in Nat /\ fresh \in [Feeds -> Nat]
    /\ published \in [Feeds -> Nat] /\ \A f \in Feeds : published[f] \in DOMAIN Documents[f]
    /\ EntriesAreTried /\ QueueIsKnown
    /\ RowsAreKnown(db, now, fresh) /\ RowsAreKnown(saved, now, fresh)

LEMMA MaxOfThree ==
    ASSUME NEW a \in Nat, NEW b \in Nat, NEW c \in Nat
    PROVE  /\ Max({a, b, c}) \in Nat
           /\ Max({a, b, c}) >= a /\ Max({a, b, c}) >= b /\ Max({a, b, c}) >= c
<1>1. \E x \in {a, b, c} : \A y \in {a, b, c} : x >= y
  OBVIOUS
<1>2. /\ Max({a, b, c}) \in {a, b, c}
      /\ \A y \in {a, b, c} : Max({a, b, c}) >= y
  BY <1>1 DEF Max
<1> QED BY <1>2

LEMMA DocumentTypes ==
    ASSUME NEW f \in Feeds, NEW v \in DOMAIN Documents[f]
    PROVE  Documents[f][v].ttl \in Nat /\ Documents[f][v].life \in Nat
<1> DEFINE D == [etag : Nat, ttl : Nat, life : Nat,
                 items : Seq([guid : Nat, content : Nat, date : Nat])]
<1>1. Documents[f] \in Seq(D)
  BY StoreAssumption
<1> HIDE DEF D
<1>2. Documents[f][v] \in D
  BY <1>1
<1> QED BY <1>2 DEF D

(* Time and answers only make more of the tables known.                      *)
LEMMA RowsStayKnown ==
    ASSUME NEW d, NEW t \in Nat, NEW u \in Nat, t <= u,
           NEW l \in [Feeds -> Nat], NEW m \in [Feeds -> Nat], \A f \in Feeds : l[f] <= m[f],
           RowsAreKnown(d, t, l)
    PROVE  RowsAreKnown(d, u, m)
BY DEF RowsAreKnown, RowIsKnown

(* The steps of neither the clock nor the queue nor a server.                *)
QuietStep ==
    /\ UNCHANGED <<now, fresh, published, queue>>
    /\ DOMAIN entry' = Feeds
    /\ \A f \in Feeds : "tried" \in DOMAIN entry'[f] /\ entry'[f].tried = entry[f].tried
    /\ RowsAreKnown(db', now, fresh) /\ RowsAreKnown(saved', now, fresh)

LEMMA QuietStepsAreFresh == FreshInvariant /\ QuietStep => FreshInvariant'
BY DEF FreshInvariant, QuietStep, EntriesAreTried, QueueIsKnown

(* Writing to the items, or to a row what is known.                          *)
LEMMA WriteIsKnown ==
    ASSUME FreshInvariant, NEW d, Write(d), RowsAreKnown(d, now, fresh),
           UNCHANGED <<now, fresh, published, queue, entry>>
    PROVE  FreshInvariant'
<1>1. db' = d /\ saved' \in {saved, d}
  BY DEF Write
<1>2. QuietStep
  BY <1>1 DEF QuietStep, FreshInvariant, EntriesAreTried
<1> QED BY <1>2, QuietStepsAreFresh

LEMMA RequestsAreFresh ==
    ASSUME FreshInvariant, NEW fs \in SUBSET Feeds, queue_updates(fs),
           UNCHANGED <<now, fresh, published, db, saved>>
    PROVE  FreshInvariant'
<1> DEFINE new == fs \ DOMAIN queue
<1>1. /\ DOMAIN queue' = DOMAIN queue \cup new
      /\ \A f \in DOMAIN queue' : queue'[f] = IF f \in new THEN [state |-> "requested"]
                                              ELSE queue[f]
      /\ DOMAIN entry' = Feeds
      /\ \A f \in Feeds : entry'[f] = IF f \in new THEN [entry[f] EXCEPT !.tried = now]
                                      ELSE entry[f]
  BY DEF queue_updates
<1>2. \A f \in Feeds : /\ "tried" \in DOMAIN entry'[f]
                       /\ entry'[f].tried = IF f \in new THEN now ELSE entry[f].tried
  BY <1>1 DEF FreshInvariant, EntriesAreTried
<1>3. EntriesAreTried'
  BY <1>1, <1>2 DEF FreshInvariant, EntriesAreTried
<1>4. QueueIsKnown'
  <2>1. DOMAIN queue' \subseteq Feeds
    BY <1>1 DEF FreshInvariant, QueueIsKnown
  <2>2. ASSUME NEW f \in DOMAIN queue'
        PROVE  ReplyIsKnown(f, queue'[f], entry'[f].tried, fresh[f])
    <3>1. CASE f \in new
      BY <1>1, <3>1 DEF ReplyIsKnown
    <3>2. CASE f \notin new
      BY <1>1, <1>2, <2>1, <3>2 DEF FreshInvariant, QueueIsKnown
    <3> QED BY <3>1, <3>2
  <2> QED BY <2>1, <2>2 DEF QueueIsKnown
<1> QED BY <1>3, <1>4 DEF FreshInvariant

(* An update is skipped for what the row of the feed says.                   *)
LEMMA DownloadsAreFresh ==
    ASSUME FreshInvariant, NEW f \in Feeds, Download(f)
    PROVE  FreshInvariant'
<1> DEFINE doc == Document(f)
           row == db.feeds[f]
           tried == entry[f].tried
           until == Reply(f).expires
           limit == Max({fresh[f], now + doc.ttl, until})
<1>0. /\ f \in DOMAIN queue /\ DOMAIN queue \subseteq Feeds
      /\ tried \in Nat /\ now \in Nat /\ tried <= now
      /\ RowIsKnown(row, now, fresh[f])
      /\ doc.ttl \in Nat /\ doc.life \in Nat /\ published[f] \in DOMAIN Documents[f]
  BY DocumentTypes DEF Download, FreshInvariant, QueueIsKnown, EntriesAreTried, RowsAreKnown, Document
<1>1. /\ Reply(f).version = published[f]
      /\ Reply(f).expires = IF doc.life > 0 THEN now + doc.life ELSE 0
      /\ Reply(f).state \in {"downloaded", "not_modified"}
  BY DEF Reply
<1>2. fresh[f] \in Nat /\ now + doc.ttl \in Nat /\ until \in Nat
  BY <1>0, <1>1 DEF FreshInvariant
<1>3. limit \in Nat /\ limit >= fresh[f] /\ limit >= now + doc.ttl /\ limit >= until
  <2> HIDE DEF until, doc
  <2> QED BY <1>2, MaxOfThree
<1>4. UNCHANGED fresh \/ fresh' = [fresh EXCEPT ![f] = limit]
  BY DEF Download
<1>5. fresh' \in [Feeds -> Nat] /\ \A g \in Feeds : fresh[g] <= fresh'[g]
  <2> HIDE DEF limit
  <2> QED BY <1>3, <1>4 DEF FreshInvariant
<1>6. \E q : /\ queue' = [queue EXCEPT ![f] = q]
             /\ ReplyIsKnown(f, q, tried, fresh'[f])
  <2>1. CASE queue' = [queue EXCEPT ![f] = [state |-> "skipped"]] /\ IsPremature(f) /\ UNCHANGED fresh
    <3>1. tried < fresh[f]
      BY <1>0, <2>1 DEF IsPremature, RowIsKnown, FreshInvariant
    <3> QED BY <2>1, <3>1 DEF ReplyIsKnown
  <2>2. CASE queue' = [queue EXCEPT ![f] = Reply(f)] /\ fresh' = [fresh EXCEPT ![f] = limit]
    <3>1. fresh'[f] = limit
      BY <2>2 DEF FreshInvariant
    <3>2. tried + doc.ttl <= limit
      BY <1>0, <1>3
    <3>3. ReplyIsKnown(f, Reply(f), tried, fresh'[f])
      BY <1>0, <1>1, <1>2, <1>3, <3>1, <3>2 DEF ReplyIsKnown, Document
    <3> QED BY <2>2, <3>3
  <2>3. CASE queue' = [queue EXCEPT ![f] = [state |-> "failed"]]
    <3>1. ReplyIsKnown(f, [state |-> "failed"], tried, fresh'[f])
      BY DEF ReplyIsKnown
    <3> QED BY <2>3, <3>1
  <2> QED BY <2>1, <2>2, <2>3 DEF Download
<1>7. PICK q : /\ queue' = [queue EXCEPT ![f] = q]
               /\ ReplyIsKnown(f, q, tried, fresh'[f])
  BY <1>6
<1>8. UNCHANGED <<now, published, entry, db, saved>>
  BY DEF Download
<1>9. QueueIsKnown'
  <2>1. DOMAIN queue' = DOMAIN queue
    BY <1>7
  <2>2. ASSUME NEW g \in DOMAIN queue
        PROVE  ReplyIsKnown(g, queue'[g], entry[g].tried, fresh'[g])
    <3>1. CASE g = f
      BY <1>0, <1>7, <3>1
    <3>2. CASE g # f
      <4>1. queue'[g] = queue[g] /\ ReplyIsKnown(g, queue[g], entry[g].tried, fresh[g])
        BY <1>7, <3>2 DEF FreshInvariant, QueueIsKnown
      <4>2. /\ entry[g].tried \in Nat /\ fresh[g] \in Nat /\ fresh'[g] \in Nat
            /\ fresh[g] <= fresh'[g]
        BY <1>0, <1>5 DEF FreshInvariant, EntriesAreTried
      <4>3. queue[g].state = "downloaded" => Documents[g][queue[g].version].ttl \in Nat
        BY <1>0, <4>1, DocumentTypes DEF ReplyIsKnown
      <4> QED BY <4>1, <4>2, <4>3 DEF ReplyIsKnown
    <3> QED BY <3>1, <3>2
  <2> QED BY <1>0, <1>8, <2>1, <2>2 DEF QueueIsKnown
<1>10. RowsAreKnown(db, now, fresh') /\ RowsAreKnown(saved, now, fresh')
  BY <1>0, <1>5, RowsStayKnown DEF FreshInvariant
<1> QED BY <1>5, <1>8, <1>9, <1>10 DEF FreshInvariant, EntriesAreTried

LEMMA FreshInit == Init => FreshInvariant
<1> SUFFICES ASSUME Init PROVE FreshInvariant
  OBVIOUS
<1>1. RowsAreKnown(db, now, fresh) /\ RowsAreKnown(saved, now, fresh)
  BY DEF Init, RowsAreKnown, RowIsKnown, NoRow
<1>2. EntriesAreTried
  <2>1. /\ DOMAIN entry = Feeds
        /\ \A f \in Feeds : "tried" \in DOMAIN entry[f] /\ entry[f].tried = db.feeds[f].update
    BY DEF Init, Entries
  <2> QED BY <1>1, <2>1 DEF EntriesAreTried, RowsAreKnown, RowIsKnown
<1>4. QueueIsKnown
  BY DOMAIN <<>> = {} DEF Init, QueueIsKnown
<1>3. ASSUME NEW f \in Feeds PROVE 1 \in DOMAIN Documents[f]
  <2> DEFINE D == [etag : Nat, ttl : Nat, life : Nat,
                   items : Seq([guid : Nat, content : Nat, date : Nat])]
  <2>1. Documents[f] \in Seq(D) /\ Documents[f] # <<>>
    BY StoreAssumption
  <2> HIDE DEF D
  <2> QED BY <2>1
<1> QED BY <1>1, <1>2, <1>3, <1>4 DEF Init, FreshInvariant

(* The steps that write to the rows of the feeds.                            *)
LEMMA RowWritesAreFresh ==
    ASSUME FreshInvariant, NEW f \in Feeds, InsertFeedData(f) \/ UpdateCanceledFeed(f)
    PROVE  FreshInvariant'
<1> DEFINE tried == entry[f].tried
           q == queue[f]
<1>1. /\ f \in DOMAIN queue /\ DOMAIN queue \subseteq Feeds
      /\ q.state \in {"downloaded", "skipped", "not_modified"}
      /\ ReplyIsKnown(f, q, tried, fresh[f])
      /\ RowIsKnown(db.feeds[f], now, fresh[f])
      /\ tried \in Nat /\ now \in Nat /\ tried <= now /\ fresh[f] \in Nat
  BY DEF InsertFeedData, UpdateCanceledFeed, Takes, FreshInvariant, EntriesAreTried, QueueIsKnown,
     RowsAreKnown
<1>2. ASSUME NEW row, RowIsKnown(row, now, fresh[f]), Write([db EXCEPT !.feeds[f] = row]),
             UNCHANGED <<now, fresh, published, queue, entry>>
      PROVE  FreshInvariant'
  <2>1. RowsAreKnown([db EXCEPT !.feeds[f] = row], now, fresh)
    BY <1>2 DEF FreshInvariant, RowsAreKnown
  <2> QED BY <1>2, <2>1, WriteIsKnown
<1>3. CASE InsertFeedData(f)
  <2>1. q.state = "downloaded"
    BY <1>3 DEF InsertFeedData, Takes
  <2>2. Documents[f][q.version].ttl \in Nat
    BY <1>1, <2>1, DocumentTypes DEF ReplyIsKnown
  <2>3. RowIsKnown(insert_feed_data(f, q), now, fresh[f])
    BY <1>1, <2>1, <2>2 DEF insert_feed_data, RowIsKnown, ReplyIsKnown
  <2> QED BY <1>2, <1>3, <2>3 DEF InsertFeedData
<1>4. CASE UpdateCanceledFeed(f)
  <2> DEFINE row == IF db.feeds[f] = NoRow THEN db.feeds[f] ELSE canceled_feed(f)
  <2>1. RowIsKnown(canceled_feed(f), now, fresh[f])
    BY <1>1 DEF canceled_feed, RowIsKnown, ReplyIsKnown
  <2>2. RowIsKnown(row, now, fresh[f])
    BY <1>1, <2>1
  <2>3. Write([db EXCEPT !.feeds[f] = row])
    BY <1>4 DEF UpdateCanceledFeed
  <2> QED BY <1>2, <1>4, <2>2, <2>3 DEF UpdateCanceledFeed
<1> QED BY <1>3, <1>4

(* The steps that write to items, or to the rows of feeds not at all.        *)
ItemStep ==
    \/ InsertItemData \/ ItemRefused \/ DeleteExcessItems
    \/ \E fs \in Selectable, status \in BOOLEAN : MarkFeedsRead(fs, status)
    \/ MarkItem \/ UserEdit

LEMMA ItemStepsAreFresh == FreshInvariant /\ ItemStep => FreshInvariant'
<1> SUFFICES ASSUME FreshInvariant, ItemStep PROVE FreshInvariant'
  OBVIOUS
<1>1. UNCHANGED <<now, fresh, published, queue, entry>>
  BY DEF ItemStep, InsertItemData, ItemRefused, DeleteExcessItems, MarkFeedsRead, MarkItem, UserEdit
<1>2. ASSUME NEW d, Write(d), DOMAIN d = DOMAIN db, d.feeds = db.feeds
      PROVE  FreshInvariant'
  <2>1. RowsAreKnown(d, now, fresh)
    BY <1>2 DEF FreshInvariant, RowsAreKnown
  <2> QED BY <1>1, <1>2, <2>1, WriteIsKnown
<1>3. {"feeds", "items", "incomplete"} \subseteq DOMAIN db
  BY DEF FreshInvariant, RowsAreKnown
<1>4. ASSUME NEW items, Write([db EXCEPT !.items = items]) PROVE FreshInvariant'
  BY <1>2, <1>3, <1>4
<1>5. ASSUME NEW items, NEW incomplete, Write([db EXCEPT !.items = items, !.incomplete = incomplete])
      PROVE  FreshInvariant'
  BY <1>2, <1>3, <1>5
<1>6. CASE InsertItemData
  BY <1>4, <1>6 DEF InsertItemData
<1>7. CASE ItemRefused
  <2> DEFINE incomplete == db.incomplete \cup {job.feed}
  <2>1. Write([db EXCEPT !.incomplete = incomplete])
    BY <1>7 DEF ItemRefused
  <2> HIDE DEF incomplete
  <2> QED BY <1>2, <1>3, <2>1
<1>8. CASE DeleteExcessItems
  <2> DEFINE items == IF cfg.limit > 0 THEN db.items \ Excess(db.items, job.feed) ELSE db.items
  <2>1. Write([db EXCEPT !.items = items, !.incomplete = db.incomplete \ {job.feed}])
    BY <1>8 DEF DeleteExcessItems
  <2> HIDE DEF items
  <2> QED BY <1>5, <2>1
<1>9. ASSUME NEW fs, NEW status, MarkFeedsRead(fs, status) PROVE FreshInvariant'
  <2>1. Write([db EXCEPT !.items = Marked(db.items, fs, ~status)])
    BY <1>9 DEF MarkFeedsRead, Marked
  <2> QED BY <1>4, <2>1
<1>10. CASE MarkItem
  <2>1. PICK r, new : Write([db EXCEPT !.items = (@ \ {r}) \cup {new}])
    BY <1>10 DEF MarkItem
  <2> QED BY <1>4, <2>1
<1>11. CASE UserEdit
  <2>1. PICK fs : Write([db EXCEPT !.items = Marked(db.items, fs, FALSE)])
    BY <1>11 DEF UserEdit, Marked
  <2> QED BY <1>4, <2>1
<1> QED BY <1>6, <1>7, <1>8, <1>9, <1>10, <1>11 DEF ItemStep

(* A start of the program: an empty queue, entries made of rows.             *)
LEMMA StartsAreFresh ==
    ASSUME FreshInvariant, queue' = <<>>, NEW d, RowsAreKnown(d, now, fresh), entry' = Entries(d),
           RowsAreKnown(db', now, fresh), RowsAreKnown(saved', now, fresh),
           UNCHANGED <<now, fresh, published>>
    PROVE  FreshInvariant'
<1>1. /\ DOMAIN entry' = Feeds
      /\ \A f \in Feeds : "tried" \in DOMAIN entry'[f] /\ entry'[f].tried = d.feeds[f].update
  BY DEF Entries
<1>2. EntriesAreTried'
  BY <1>1 DEF EntriesAreTried, RowsAreKnown, RowIsKnown
<1>3. QueueIsKnown'
  BY DOMAIN <<>> = {} DEF QueueIsKnown
<1> QED BY <1>2, <1>3 DEF FreshInvariant

(* Counters, menus and statistics.                                           *)
CounterStep ==
    \/ \E f \in Feeds : TakeFailedFeed(f)
    \/ CountItems \/ StoreCounters \/ RefreshByInserter
    \/ OpenMenu \/ CloseMenu \/ CountMarked \/ StoreMarked \/ RefreshByMain

LEMMA CounterStepsAreFresh == FreshInvariant /\ CounterStep => FreshInvariant'
<1> SUFFICES ASSUME FreshInvariant, CounterStep PROVE FreshInvariant'
  OBVIOUS
<1>1. UNCHANGED <<now, fresh, published, queue, db, saved>>
  BY DEF CounterStep, TakeFailedFeed, CountItems, StoreCounters, RefreshByInserter, OpenMenu,
     CloseMenu, SwitchTo, CountMarked, StoreMarked, RefreshByMain
<1>2. CASE UNCHANGED entry
  BY <1>1, <1>2, QuietStepsAreFresh DEF QuietStep, FreshInvariant, EntriesAreTried
<1>3. ASSUME DOMAIN entry' = Feeds,
             \A f \in Feeds : "tried" \in DOMAIN entry'[f] /\ entry'[f].tried = entry[f].tried
      PROVE  FreshInvariant'
  BY <1>1, <1>3, QuietStepsAreFresh DEF QuietStep, FreshInvariant
<1>4. CASE StoreCounters
  BY <1>3, <1>4 DEF StoreCounters, Counted, FreshInvariant, EntriesAreTried
<1>5. CASE StoreMarked
  BY <1>3, <1>5 DEF StoreMarked, FreshInvariant, EntriesAreTried
<1>6. CASE OpenMenu \/ CloseMenu
  <2>1. entry' = Recount(Top.feeds)
    BY <1>6 DEF OpenMenu, CloseMenu, SwitchTo
  <2> QED BY <1>3, <2>1 DEF Recount, FreshInvariant, EntriesAreTried
<1> QED BY <1>2, <1>4, <1>5, <1>6
    DEF CounterStep, TakeFailedFeed, CountItems, RefreshByInserter, CountMarked, RefreshByMain

(* What is selected in a menu are feeds.                                     *)
MenuType == [kind : {"sections", "feeds", "items"}, feeds : SUBSET Feeds]

MenusInvariant == menus \in Seq(MenuType) /\ menus # <<>>

LEMMA MenusInit == Init => MenusInvariant
BY DEF Init, MenusInvariant, MenuType, Menu

LEMMA MenusNext == MenusInvariant /\ [Next]_vars => MenusInvariant'
<1> SUFFICES ASSUME MenusInvariant, [Next]_vars PROVE MenusInvariant'
  OBVIOUS
<1>1. CASE UNCHANGED menus
  BY <1>1 DEF MenusInvariant
<1>2. CASE menus' = <<Menu("sections", {})>>
  BY <1>2 DEF MenusInvariant, MenuType, Menu
<1>3. CASE OpenMenu
  <2>1. Top \in MenuType
    BY DEF Top, Last, MenusInvariant
  <2>2. PICK m \in MenuType : menus' = Append(menus, m)
    BY <1>3, <2>1, StoreAssumption DEF OpenMenu, SwitchTo, Menu, MenuType
  <2> HIDE DEF MenuType
  <2> QED BY <2>2 DEF MenusInvariant
<1>4. CASE CloseMenu
  <2>1. menus' = SubSeq(menus, 1, Len(menus) - 1) /\ Len(menus) > 1
    BY <1>4 DEF CloseMenu, SwitchTo, Front
  <2> HIDE DEF MenuType
  <2>2. Len(menus) - 1 \in 1..Len(menus)
    BY <2>1 DEF MenusInvariant
  <2>3. menus' \in Seq(MenuType) /\ Len(menus') = Len(menus) - 1
    BY <2>1, <2>2, SubSeqProperties DEF MenusInvariant
  <2> QED BY <2>2, <2>3 DEF MenusInvariant
<1>5. CASE Writing
  BY <1>1, <1>2, <1>5 DEF Writing, InsertFeedData, UpdateCanceledFeed, PurgeAbandoned, InsertItemData,
     ItemRefused, DeleteExcessItems, MarkFeedsRead, MarkItem, UserEdit, Finish, Restart
<1>6. CASE Leaving
  BY <1>1, <1>3, <1>4, <1>6 DEF Leaving, Download, TakeFailedFeed, AutoUpdate, Publish, CountItems,
     StoreCounters, RefreshByInserter, CountMarked, StoreMarked, RefreshByMain, RequestUpdates, Tick
<1> QED BY <1>1, <1>5, <1>6, NextIsStep DEF vars

LEMMA SelectableAreFeeds == MenusInvariant => Selectable \subseteq SUBSET Feeds
<1> SUFFICES ASSUME MenusInvariant PROVE Selectable \subseteq SUBSET Feeds
  OBVIOUS
<1>1. Top \in MenuType
  <2> HIDE DEF MenuType
  <2> QED BY DEF Top, Last, MenusInvariant
<1> QED BY <1>1, StoreAssumption DEF Selectable, MenuType

LEMMA FreshNext == FreshInvariant /\ MenusInvariant /\ [Next]_vars => FreshInvariant'
<1> SUFFICES ASSUME FreshInvariant, MenusInvariant, [Next]_vars PROVE FreshInvariant'
  OBVIOUS
<1>0. /\ RowsAreKnown(db, now, fresh) /\ RowsAreKnown(saved, now, fresh)
      /\ now \in Nat /\ fresh \in [Feeds -> Nat]
  BY DEF FreshInvariant
<1>1. CASE UNCHANGED vars
  BY <1>1 DEF vars, FreshInvariant, EntriesAreTried, QueueIsKnown
<1>2. CASE ItemStep \/ CounterStep
  BY <1>2, ItemStepsAreFresh, CounterStepsAreFresh
<1>3. ASSUME NEW f \in Feeds, InsertFeedData(f) \/ UpdateCanceledFeed(f) \/ Download(f)
      PROVE  FreshInvariant'
  BY <1>3, RowWritesAreFresh, DownloadsAreFresh
<1>4. ASSUME NEW f \in Feeds, AutoUpdate(f) PROVE FreshInvariant'
  BY <1>4, RequestsAreFresh DEF AutoUpdate
<1>5. CASE RequestUpdates
  <2>1. PICK fs \in Selectable : queue_updates(fs)
    BY <1>5 DEF RequestUpdates
  <2>2. fs \in SUBSET Feeds
    BY <2>1, SelectableAreFeeds
  <2> QED BY <1>5, <2>1, <2>2, RequestsAreFresh DEF RequestUpdates
<1>6. CASE Finish
  <2>1. UNCHANGED <<now, fresh, published, db, entry>> /\ saved' \in {saved, db}
    BY <1>6 DEF Finish
  <2>2. RowsAreKnown(db', now, fresh) /\ RowsAreKnown(saved', now, fresh)
    BY <1>0, <2>1
  <2>3. QueueIsKnown'
    <3> DEFINE examined == [queue EXCEPT ![job.feed] = [state |-> "finished"]]
    <3>1. queue' \in {<<>>, examined}
      BY <1>6 DEF Finish
    <3>2. CASE queue' = <<>>
      BY <3>2, DOMAIN <<>> = {} DEF QueueIsKnown
    <3>3. CASE queue' = examined
      <4>1. DOMAIN queue' = DOMAIN queue
        BY <3>3
      <4>2. \A f \in DOMAIN queue : queue'[f] = queue[f] \/ queue'[f] = [state |-> "finished"]
        BY <3>3
      <4>3. \A f \in DOMAIN queue : ReplyIsKnown(f, queue'[f], entry[f].tried, fresh[f])
        BY <4>2 DEF FreshInvariant, QueueIsKnown, ReplyIsKnown
      <4> QED BY <2>1, <4>1, <4>3 DEF FreshInvariant, QueueIsKnown
    <3> QED BY <3>1, <3>2, <3>3
  <2> QED BY <2>1, <2>2, <2>3 DEF FreshInvariant, EntriesAreTried
<1>7. CASE Restart
  <2>1. /\ DOMAIN saved' = DOMAIN saved /\ saved'.feeds = saved.feeds
        /\ db' = saved' /\ queue' = <<>> /\ entry' = Entries(saved)
        /\ UNCHANGED <<now, fresh, published>>
    BY <1>0, <1>7 DEF Restart, RowsAreKnown
  <2>2. RowsAreKnown(db', now, fresh) /\ RowsAreKnown(saved', now, fresh)
    BY <1>0, <2>1 DEF RowsAreKnown
  <2> QED BY <1>0, <2>1, <2>2, StartsAreFresh
<1>8. ASSUME NEW f \in Feeds, PurgeAbandoned(f) PROVE FreshInvariant'
  <2> DEFINE d == [db EXCEPT !.items = db.items \ Of(db.items, f),
                             !.incomplete = db.incomplete \cup {f}]
  <2>1. RowsAreKnown(d, now, fresh)
    BY <1>0 DEF RowsAreKnown
  <2>2. Write(d) /\ queue = <<>> /\ UNCHANGED <<now, fresh, published, queue>>
    BY <1>8 DEF PurgeAbandoned
  <2> HIDE DEF d
  <2>3. db' = d /\ saved' \in {saved, d}
    BY <2>2 DEF Write
  <2>4. entry' = Entries(db')
    BY <1>8 DEF PurgeAbandoned, Entries, db_count_items
  <2>5. entry' = Entries(d)
    BY <2>3, <2>4 DEF Entries, db_count_items
  <2> QED BY <1>0, <2>1, <2>2, <2>3, <2>5, StartsAreFresh
<1>9. ASSUME NEW f \in Feeds, Publish(f) PROVE FreshInvariant'
  <2> DEFINE D == [etag : Nat, ttl : Nat, life : Nat,
                   items : Seq([guid : Nat, content : Nat, date : Nat])]
  <2>1. Documents[f] \in Seq(D)
    BY StoreAssumption
  <2>2. /\ published' = [published EXCEPT ![f] = @ + 1] /\ published[f] < Len(Documents[f])
        /\ UNCHANGED <<now, fresh, db, saved, queue, entry>>
    BY <1>9 DEF Publish
  <2> HIDE DEF D
  <2>3. \A g \in Feeds : published'[g] \in DOMAIN Documents[g]
    BY <2>1, <2>2 DEF FreshInvariant
  <2> QED BY <2>2, <2>3 DEF FreshInvariant, EntriesAreTried, QueueIsKnown
<1>10. CASE Tick
  <2>1. now' = now + 1 /\ UNCHANGED <<fresh, published, db, saved, queue, entry>>
    BY <1>10 DEF Tick
  <2>2. RowsAreKnown(db, now', fresh) /\ RowsAreKnown(saved, now', fresh)
    BY <1>0, <2>1, RowsStayKnown
  <2>3. EntriesAreTried'
    BY <1>0, <2>1 DEF FreshInvariant, EntriesAreTried
  <2> QED BY <1>0, <2>1, <2>2, <2>3 DEF FreshInvariant, QueueIsKnown
<1>11. CASE Writing
  BY <1>2, <1>3, <1>6, <1>7, <1>8, <1>11 DEF Writing, ItemStep
<1>12. CASE Leaving
  BY <1>2, <1>3, <1>4, <1>5, <1>9, <1>10, <1>12 DEF Leaving, CounterStep
<1> QED BY <1>1, <1>11, <1>12, NextIsStep

(* A feed that is skipped has been told not to come before a later time than *)
(* that of the update, by a server that answered it.                         *)
THEOREM SkippedWithReason == Spec => []SkipsAreJustified
<1>1. FreshInvariant => SkipsAreJustified
  BY DEF FreshInvariant, EntriesAreTried, QueueIsKnown, ReplyIsKnown, SkipsAreJustified
<1> QED BY <1>1, FreshInit, FreshNext, MenusInit, MenusNext, PTL DEF Spec

-----------------------------------------------------------------------------
(* Types.                                                                    *)
FeedRow == [etag : Nat, expires : Nat, ttl : Nat, download : Nat, update : Nat]
Item == [guid : Nat, content : Nat, date : Nat]
Entry == [tried : 0..MaxTime, unread : Nat, total : Nat, errors : BOOLEAN]

NumbersAreUnique(items) == \A r, s \in items : r.rowid = s.rowid => r = s

TablesAreTyped(d) ==
    /\ d \in [feeds : [Feeds -> FeedRow], items : SUBSET Row, incomplete : SUBSET Feeds]
    /\ NumbersAreUnique(d.items)

(* There are numbers for all items that the inserter is about to store.      *)
JobIsTyped ==
    \/ job = Idle
    \/ /\ job \in [pc : {"items"}, feed : Feeds, failed : BOOLEAN, items : Seq(Item)]
       /\ HasRoom(job.feed, job.items)
    \/ job \in [pc : {"count"}, feed : Feeds, failed : BOOLEAN]
    \/ job \in [pc : {"store"}, feed : Feeds, failed : BOOLEAN, unread : Nat, total : Nat]
    \/ job \in [pc : {"refresh", "finish"}, feed : Feeds]

MainIsTyped ==
    \/ main \in [pc : {"idle", "refresh"}]
    \/ main \in [pc : {"count"}, left : SUBSET Feeds]
    \/ main \in [pc : {"store"}, left : SUBSET Feeds, feed : Feeds, unread : Nat]

ContentsAreTyped ==
    /\ cfg \in Configs /\ now \in 1..cfg.until
    /\ TablesAreTyped(db) /\ TablesAreTyped(saved)
    /\ entry \in [Feeds -> Entry]
    /\ section \in [Sections -> [unread : Nat, has_errors : BOOLEAN]]
    /\ doubtful \subseteq Feeds
    /\ JobIsTyped /\ MainIsTyped

-----------------------------------------------------------------------------
(* Rows and their numbers.                                                   *)
RowsAreTyped(items) == items \subseteq Row /\ NumbersAreUnique(items)

Numbers(items) == {r.rowid : r \in items} \cup {0}

LEMMA RowTypes ==
    ASSUME NEW items, RowsAreTyped(items), NEW r \in items
    PROVE  /\ r \in Row
           /\ r.rowid \in 1..MaxRow /\ r.rowid \in Nat /\ r.feed \in Feeds /\ r.guid \in Nat
           /\ r.content \in Nat /\ r.date \in Nat /\ r.download \in 0..MaxTime
           /\ r.download \in Nat /\ r.unread \in BOOLEAN /\ r.important \in BOOLEAN
<1>1. r \in Row /\ MaxRow \in Nat /\ MaxTime \in Nat
  BY StoreAssumption DEF RowsAreTyped
<1> QED BY <1>1 DEF Row

(* There is a highest number.                                                *)
LEMMA MaxIsHighest ==
    ASSUME NEW items, RowsAreTyped(items)
    PROVE  /\ Max(Numbers(items)) \in Numbers(items) /\ Max(Numbers(items)) \in Nat
           /\ \A x \in Numbers(items) : x <= Max(Numbers(items))
<1> DEFINE T == Numbers(items)
<1>1. T \subseteq Nat /\ T # {} /\ MaxRow \in Nat /\ \A x \in T : x <= MaxRow
  BY RowTypes, StoreAssumption DEF Numbers
<1> HIDE DEF T
<1>2. PICK m \in T : \A x \in T : x <= m
  BY <1>1, LargestNumber
<1>3. Max(T) \in T /\ \A x \in T : Max(T) >= x
  BY <1>1, <1>2 DEF Max
<1> QED BY <1>1, <1>3 DEF T

(* What identifies a row.                                                    *)
Keys(items) == {<<r.rowid, r.feed, r.guid>> : r \in items}

LEMMA SameKeys ==
    ASSUME NEW s, NEW t, Keys(s) = Keys(t)
    PROVE  /\ Numbers(s) = Numbers(t)
           /\ \A f, g : (\E r \in s : r.feed = f /\ r.guid = g)
                        <=> (\E r \in t : r.feed = f /\ r.guid = g)
<1>1. ASSUME NEW a, NEW b, Keys(a) = Keys(b), NEW r \in a
      PROVE  \E q \in b : q.rowid = r.rowid /\ q.feed = r.feed /\ q.guid = r.guid
  <2>1. <<r.rowid, r.feed, r.guid>> \in Keys(b)
    BY <1>1 DEF Keys
  <2> QED BY <2>1 DEF Keys
<1>2. ASSUME NEW a, NEW b, Keys(a) = Keys(b) PROVE Numbers(a) \subseteq Numbers(b)
  <2>1. ASSUME NEW r \in a PROVE r.rowid \in Numbers(b)
    <3>1. PICK q \in b : q.rowid = r.rowid
      BY <1>1, <1>2
    <3> QED BY <3>1 DEF Numbers
  <2> QED BY <2>1 DEF Numbers
<1>3. ASSUME NEW a, NEW b, Keys(a) = Keys(b), NEW f, NEW g,
             NEW r \in a, r.feed = f, r.guid = g
      PROVE  \E q \in b : q.feed = f /\ q.guid = g
  BY <1>1, <1>3
<1>4. Numbers(s) = Numbers(t)
  BY <1>2
<1>5. ASSUME NEW f, NEW g
      PROVE  (\E r \in s : r.feed = f /\ r.guid = g) <=> (\E r \in t : r.feed = f /\ r.guid = g)
  <2>1. ASSUME NEW r \in s, r.feed = f, r.guid = g PROVE \E q \in t : q.feed = f /\ q.guid = g
    BY <1>3, <2>1
  <2>2. ASSUME NEW r \in t, r.feed = f, r.guid = g PROVE \E q \in s : q.feed = f /\ q.guid = g
    BY <1>3, <2>2
  <2> QED BY <2>1, <2>2
<1> QED BY <1>4, <1>5

(* Statements that change rows in place.                                     *)
Rewritten(items, new) == {new[r] : r \in items}

KeepsKeys(items, new) ==
    /\ new \in [items -> Row]
    /\ \A r \in items : new[r].rowid = r.rowid /\ new[r].feed = r.feed /\ new[r].guid = r.guid

(* What an item is, apart from its marks.                                    *)
KeepsContents(items, new) ==
    \A r \in items : new[r].content = r.content /\ new[r].date = r.date

LEMMA RewritingKeeps ==
    ASSUME NEW items, RowsAreTyped(items), NEW new, KeepsKeys(items, new)
    PROVE  RowsAreTyped(Rewritten(items, new)) /\ Keys(Rewritten(items, new)) = Keys(items)
<1> DEFINE t == Rewritten(items, new)
<1>1. t \subseteq Row
  BY DEF Rewritten, KeepsKeys
<1>2. NumbersAreUnique(t)
  BY DEF Rewritten, KeepsKeys, RowsAreTyped, NumbersAreUnique
<1>3. Keys(t) = {<<new[r].rowid, new[r].feed, new[r].guid>> : r \in items}
  BY DEF Keys, Rewritten
<1>4. Keys(t) = Keys(items)
  BY <1>3 DEF Keys, KeepsKeys
<1> QED BY <1>1, <1>2, <1>4 DEF RowsAreTyped

(* The commands that mark items change rows in place.                        *)
MarkAs(items, fs, unread) ==
    [r \in items |-> IF r.feed \in fs THEN [r EXCEPT !.unread = unread] ELSE r]

LEMMA MarkingKeeps ==
    ASSUME NEW items, RowsAreTyped(items), NEW fs, NEW unread \in BOOLEAN
    PROVE  /\ Marked(items, fs, unread) = Rewritten(items, MarkAs(items, fs, unread))
           /\ KeepsKeys(items, MarkAs(items, fs, unread))
           /\ KeepsContents(items, MarkAs(items, fs, unread))
<1> DEFINE new == MarkAs(items, fs, unread)
<1>1. ASSUME NEW r \in items
      PROVE  /\ new[r] \in Row /\ new[r].rowid = r.rowid /\ new[r].feed = r.feed
             /\ new[r].guid = r.guid /\ new[r].content = r.content /\ new[r].date = r.date
  BY RowTypes DEF MarkAs, Row
<1>2. new = [r \in items |-> new[r]]
  BY DEF MarkAs
<1>3. KeepsKeys(items, new) /\ KeepsContents(items, new)
  <2> HIDE DEF new
  <2> QED BY <1>1, <1>2 DEF KeepsKeys, KeepsContents
<1> QED BY <1>3 DEF Marked, Rewritten, MarkAs

ReplaceBy(items, old, row) == [r \in items |-> IF r = old THEN row ELSE r]

LEMMA ReplacingKeeps ==
    ASSUME NEW items, RowsAreTyped(items), NEW old \in items, NEW row \in Row,
           row.rowid = old.rowid, row.feed = old.feed, row.guid = old.guid
    PROVE  /\ (items \ {old}) \cup {row} = Rewritten(items, ReplaceBy(items, old, row))
           /\ KeepsKeys(items, ReplaceBy(items, old, row))
<1>1. KeepsKeys(items, ReplaceBy(items, old, row))
  BY DEF RowsAreTyped, KeepsKeys, ReplaceBy
<1> QED BY <1>1 DEF Rewritten, ReplaceBy

(* A new item gets a number of its own; an updated one keeps its.            *)
LEMMA InsertionIs ==
    ASSUME RowsAreTyped(db.items), Unique(db.items), NEW f \in Feeds, NEW item \in Item,
           entry[f].tried \in 0..MaxTime, Duplicates(f, item) = {} => NewRowid <= MaxRow
    PROVE  LET t == insert_item_data(f, item)
           IN  /\ RowsAreTyped(t)
               /\ Duplicates(f, item) = {} =>
                    /\ t = db.items \cup {new_item(item, f)}
                    /\ Numbers(t) = Numbers(db.items) \cup {NewRowid}
                    /\ \A r \in db.items : r.rowid < NewRowid
               /\ Duplicates(f, item) # {} =>
                    /\ Keys(t) = Keys(db.items)
                    /\ \/ t = db.items
                       \/ \E old \in db.items :
                            /\ old.feed = f /\ old.guid = item.guid /\ old.content # item.content
                            /\ t = (db.items \ {old}) \cup {updated_item(old, item, f)}
<1> DEFINE items == db.items
           same == {r \in Duplicates(f, item) : r.content = item.content}
           old  == Duplicates(f, item) \ same
           t == insert_item_data(f, item)
<1>0. /\ NewRowid = Max(Numbers(items)) + 1 /\ NewRowid \in Nat /\ NewRowid # 0
      /\ \A r \in items : r.rowid < NewRowid
  <2>1. NewRowid = Max(Numbers(items)) + 1
    BY DEF NewRowid, Numbers
  <2>2. \A r \in items : r.rowid <= Max(Numbers(items)) /\ r.rowid \in Nat
    BY MaxIsHighest, RowTypes DEF Numbers
  <2> QED BY <2>1, <2>2, MaxIsHighest
<1>1. item.guid \in Nat /\ item.content \in Nat /\ item.date \in Nat
  BY DEF Item
<1>2. CASE same # {}
  <2>1. t = items /\ Duplicates(f, item) # {}
    BY <1>2 DEF insert_item_data
  <2> QED BY <2>1
<1>3. CASE same = {} /\ old = {}
  <2> DEFINE row == new_item(item, f)
  <2>1. t = items \cup {row} /\ Duplicates(f, item) = {}
    BY <1>3 DEF insert_item_data
  <2>2. NewRowid \in 1..MaxRow
    BY <1>0, <2>1, StoreAssumption
  <2>3. row \in Row /\ row.rowid = NewRowid
    BY <1>1, <2>2 DEF new_item, Row
  <2> HIDE DEF row
  <2>4. RowsAreTyped(t)
    BY <1>0, <2>1, <2>3, RowTypes DEF RowsAreTyped, NumbersAreUnique
  <2>5. Numbers(t) = Numbers(items) \cup {NewRowid}
    BY <2>1, <2>3 DEF Numbers
  <2> QED BY <1>0, <2>1, <2>4, <2>5 DEF row
<1>4. CASE same = {} /\ old # {}
  <2>1. PICK r \in items : old = {r} /\ r.feed = f /\ r.guid = item.guid /\ r.content # item.content
    BY <1>4 DEF Duplicates, Of, Unique
  <2> DEFINE row == updated_item(r, item, f)
  <2>2. t = (items \ {r}) \cup {row} /\ Duplicates(f, item) # {}
    BY <1>4, <2>1 DEF insert_item_data
  <2>3. /\ r \in Row /\ r.rowid \in 1..MaxRow /\ r.feed \in Feeds /\ r.guid \in Nat
        /\ r.unread \in BOOLEAN /\ r.important \in BOOLEAN
    BY RowTypes
  <2>4. row.rowid = r.rowid /\ row.feed = r.feed /\ row.guid = r.guid
    BY <2>3 DEF updated_item, Row
  <2>5. (r.unread \/ cfg.on_change) \in BOOLEAN
    OBVIOUS
  <2>6. row \in Row
    <3> DEFINE b == r.unread \/ cfg.on_change
    <3>1. row = [r EXCEPT !.content = item.content, !.date = item.date,
                          !.download = entry[f].tried, !.unread = b]
      BY DEF updated_item
    <3>2. b \in BOOLEAN
      OBVIOUS
    <3> HIDE DEF b, row
    <3> QED BY <1>1, <2>3, <3>1, <3>2 DEF Row
  <2> HIDE DEF row
  <2>7. KeepsKeys(items, ReplaceBy(items, r, row)) /\ t = Rewritten(items, ReplaceBy(items, r, row))
    <3>1. t = (items \ {r}) \cup {row}
      BY <2>2
    <3> HIDE DEF t
    <3> QED BY <2>4, <2>6, <3>1, ReplacingKeeps
  <2>8. RowsAreTyped(t) /\ Keys(t) = Keys(items)
    <3> HIDE DEF t
    <3> QED BY <2>7, RewritingKeeps
  <2> QED BY <2>1, <2>2, <2>8 DEF row
<1> QED BY <1>2, <1>3, <1>4
-----------------------------------------------------------------------------
(* Numbers of rows.                                                          *)

(* There are not more rows than numbers for them.                            *)
LEMMA RowsAreFinite ==
    ASSUME NEW items, RowsAreTyped(items)
    PROVE  IsFiniteSet(items)
<1> DEFINE number == [r \in items |-> r.rowid]
<1>1. number \in [items -> 1..MaxRow]
  BY RowTypes
<1>2. \A r, s \in items : number[r] = number[s] => r = s
  BY DEF RowsAreTyped, NumbersAreUnique
<1> HIDE DEF number
<1>3. number \in Injection(items, 1..MaxRow)
  BY <1>1, <1>2 DEF Injection, IsInjective
<1>4. IsFiniteSet(1..MaxRow)
  BY StoreAssumption, FS_Interval
<1> QED BY <1>3, <1>4, FS_Injection

LEMMA CountsAreNumbers ==
    ASSUME NEW d, RowsAreTyped(d.items), NEW f, NEW only_unread
    PROVE  db_count_items(d, f, only_unread) \in Nat
<1> DEFINE counted == {r \in Of(d.items, f) : only_unread => r.unread}
<1>1. IsFiniteSet(d.items) /\ counted \in SUBSET d.items
  BY RowsAreFinite DEF Of
<1> HIDE DEF counted
<1>2. Cardinality(counted) \in Nat
  BY <1>1, FS_Subset, FS_CardinalityType
<1> QED BY <1>2 DEF counted, db_count_items

(* Rows of one number have one key.                                          *)
LEMMA RewritingIsBijective ==
    ASSUME NEW s, RowsAreTyped(s), NEW new, KeepsKeys(s, new), NEW part \in SUBSET s
    PROVE  Cardinality({new[r] : r \in part}) = Cardinality(part)
<1> DEFINE image == {new[r] : r \in part}
           map == [r \in part |-> new[r]]
<1>1. \A r, q \in part : new[r] = new[q] => r = q
  BY DEF KeepsKeys, RowsAreTyped, NumbersAreUnique
<1>2. map \in [part -> image] /\ \A x \in image : \E r \in part : map[r] = x
  OBVIOUS
<1>3. \A r, q \in part : map[r] = map[q] => r = q
  BY <1>1
<1> HIDE DEF map, image
<1>4. map \in Bijection(part, image)
  BY <1>2, <1>3 DEF Bijection, Injection, Surjection, IsInjective
<1>5. IsFiniteSet(part)
  BY RowsAreFinite, FS_Subset
<1>6. Cardinality(image) = Cardinality(part)
  BY <1>4, <1>5, FS_Bijection DEF ExistsBijection
<1> QED BY <1>6 DEF image

(* The total of a feed does not depend on what its rows hold.                *)
LEMMA RewritingKeepsTotals ==
    ASSUME NEW items, RowsAreTyped(items), NEW new, KeepsKeys(items, new), NEW f
    PROVE  Cardinality(Of(Rewritten(items, new), f)) = Cardinality(Of(items, f))
<1>1. Of(Rewritten(items, new), f) = {new[r] : r \in Of(items, f)}
  BY DEF Of, Rewritten, KeepsKeys
<1>2. Of(items, f) \in SUBSET items
  BY DEF Of
<1> QED BY <1>1, <1>2, RewritingIsBijective

(* Counts of a feed are those of its rows.                                   *)
LEMMA CountsOfSameRows ==
    ASSUME NEW d, NEW e, NEW f, Of(d.items, f) = Of(e.items, f), NEW only_unread
    PROVE  db_count_items(d, f, only_unread) = db_count_items(e, f, only_unread)
BY DEF db_count_items

-----------------------------------------------------------------------------
(* Room for items.                                                           *)
NewItems(f, items) == {i \in DOMAIN items : Duplicates(f, items[i]) = {}}

LEMMA NewItemsAreFinite ==
    ASSUME NEW f, NEW items \in Seq(Item), NEW part \in SUBSET DOMAIN items
    PROVE  IsFiniteSet(part) /\ Cardinality(part) \in Nat
<1>1. IsFiniteSet(DOMAIN items)
  <2>1. DOMAIN items = 1..Len(items) /\ Len(items) \in Nat
    OBVIOUS
  <2> QED BY <2>1, FS_Interval
<1> QED BY <1>1, FS_Subset, FS_CardinalityType

LEMMA NewRowidIs ==
    ASSUME RowsAreTyped(db.items)
    PROVE  NewRowid = Max(Numbers(db.items)) + 1 /\ NewRowid \in Nat \ {0}
<1>1. NewRowid = Max(Numbers(db.items)) + 1
  BY DEF NewRowid, Numbers
<1> QED BY <1>1, MaxIsHighest

(* The room does not depend on what the rows hold.                           *)
LEMMA RoomStays ==
    ASSUME Keys(db'.items) = Keys(db.items), NEW f, NEW items, HasRoom(f, items)
    PROVE  HasRoom(f, items)'
<1>1. /\ Numbers(db'.items) = Numbers(db.items)
      /\ \A e, g : (\E r \in db'.items : r.feed = e /\ r.guid = g)
                   <=> (\E r \in db.items : r.feed = e /\ r.guid = g)
  BY SameKeys
<1>2. NewRowid' = NewRowid
  BY <1>1 DEF NewRowid, Numbers
<1>3. ASSUME NEW item PROVE (Duplicates(f, item) = {})' <=> Duplicates(f, item) = {}
  BY <1>1 DEF Duplicates, Of
<1>4. NewItems(f, items)' = NewItems(f, items)
  BY <1>3 DEF NewItems
<1> QED BY <1>2, <1>4 DEF HasRoom, NewItems

LEMMA ItemsBeforeTheLast ==
    ASSUME NEW items \in Seq(Item), items # <<>>
    PROVE  /\ Last(items) \in Item
           /\ Front(items) \in Seq(Item) /\ DOMAIN Front(items) = DOMAIN items \ {Len(items)}
           /\ \A i \in DOMAIN Front(items) : Front(items)[i] = items[i]
<1> DEFINE n == Len(items) - 1
           rest == Front(items)
<1>1. rest = SubSeq(items, 1, n)
  BY DEF Front
<1>2. n \in Nat /\ Len(items) \in Nat /\ \A i \in 1..n : items[i] \in Item
  OBVIOUS
<1>3. 1..n = (1..Len(items)) \ {Len(items)}
  BY <1>2
<1>4. Last(items) \in Item
  BY DEF Last
<1> HIDE DEF rest, n
<1>5. /\ rest \in Seq(Item) /\ Len(rest) = n
      /\ \A i \in 1..n : rest[i] = items[i]
  <2>1. /\ rest \in Seq(Item) /\ Len(rest) = IF 1 <= n THEN n - 1 + 1 ELSE 0
        /\ \A i \in 1..(n - 1 + 1) : rest[i] = items[1 + i - 1]
    BY <1>1, <1>2, SubSeqProperties
  <2>2. n - 1 + 1 = n /\ \A i \in 1..n : 1 + i - 1 = i
    BY <1>2
  <2>3. Len(rest) = n
    BY <1>2, <2>1
  <2> QED BY <2>1, <2>2, <2>3
<1>6. DOMAIN rest = 1..n /\ DOMAIN items = 1..Len(items)
  BY <1>5
<1> QED BY <1>3, <1>4, <1>5, <1>6 DEF rest

(* The item that is stored next has its number; the others keep theirs.      *)
LEMMA RoomForTheNext ==
    ASSUME RowsAreTyped(db.items), NEW f, NEW items \in Seq(Item), items # <<>>, HasRoom(f, items)
    PROVE  Duplicates(f, Last(items)) = {} => NewRowid <= MaxRow
<1> SUFFICES ASSUME Duplicates(f, Last(items)) = {} PROVE NewRowid <= MaxRow
  OBVIOUS
<1>1. Len(items) \in NewItems(f, items)
  BY DEF Last, NewItems
<1>2. NewItems(f, items) \in SUBSET DOMAIN items
  BY DEF NewItems
<1>3. Cardinality(NewItems(f, items)) \in Nat \ {0}
  BY <1>1, <1>2, NewItemsAreFinite, FS_EmptySet
<1>4. NewRowid + Cardinality(NewItems(f, items)) <= MaxRow + 1
  BY DEF HasRoom, NewItems
<1> QED BY <1>3, <1>4, NewRowidIs, StoreAssumption

LEMMA RoomForTheOthers ==
    ASSUME RowsAreTyped(db.items), RowsAreTyped(db'.items), Unique(db.items),
           NEW f \in Feeds, NEW items \in Seq(Item), items # <<>>, HasRoom(f, items),
           entry[f].tried \in 0..MaxTime,
           db'.items = insert_item_data(f, Last(items))
    PROVE  HasRoom(f, Front(items))'
<1> DEFINE item == Last(items)
           rest == Front(items)
<1>1. /\ item \in Item /\ item = items[Len(items)] /\ Len(items) \in DOMAIN items
      /\ Len(items) \in Nat \ {0}
  BY DEF Last
<1>2. /\ rest \in Seq(Item) /\ DOMAIN rest = DOMAIN items \ {Len(items)}
      /\ \A i \in DOMAIN rest : rest[i] = items[i]
  BY ItemsBeforeTheLast
<1>3. Duplicates(f, item) = {} => NewRowid <= MaxRow
  BY RoomForTheNext
<1> HIDE DEF rest, item
<1>4. /\ Duplicates(f, item) = {} =>
           /\ db'.items = db.items \cup {new_item(item, f)}
           /\ Numbers(db'.items) = Numbers(db.items) \cup {NewRowid}
      /\ Duplicates(f, item) # {} => Keys(db'.items) = Keys(db.items)
  BY <1>1, <1>3, InsertionIs DEF item
<1>5. /\ NewItems(f, items) \in SUBSET DOMAIN items
      /\ NewItems(f, rest)' \in SUBSET DOMAIN rest
  BY DEF NewItems
<1>6. /\ IsFiniteSet(NewItems(f, items)) /\ Cardinality(NewItems(f, items)) \in Nat
      /\ Cardinality(NewItems(f, rest)') \in Nat
  BY <1>2, <1>5, NewItemsAreFinite
<1>7. NewRowid + Cardinality(NewItems(f, items)) <= MaxRow + 1
  BY DEF HasRoom, NewItems
<1> SUFFICES HasRoom(f, rest)'
  BY DEF rest
<1>8. CASE Duplicates(f, item) = {}
  <2>1. NewRowid' = NewRowid + 1
    <3>1. Max(Numbers(db'.items)) = NewRowid
      <4>1. /\ NewRowid = Max(Numbers(db.items)) + 1
            /\ \A x \in Numbers(db.items) : x <= Max(Numbers(db.items))
            /\ Max(Numbers(db.items)) \in Nat
        BY NewRowidIs, MaxIsHighest
      <4>2. /\ Max(Numbers(db'.items)) \in Numbers(db'.items) /\ Max(Numbers(db'.items)) \in Nat
            /\ \A x \in Numbers(db'.items) : x <= Max(Numbers(db'.items))
        BY MaxIsHighest
      <4>3. \A x \in Numbers(db.items) : x \in Nat
        BY RowTypes DEF Numbers
      <4>4. /\ Max(Numbers(db'.items)) >= NewRowid
            /\ Max(Numbers(db'.items)) \in Numbers(db.items) \cup {NewRowid}
        BY <1>4, <1>8, <4>2
      <4>5. ASSUME Max(Numbers(db'.items)) \in Numbers(db.items) PROVE FALSE
        BY <4>1, <4>3, <4>4, <4>5
      <4> QED BY <4>4, <4>5
    <3> QED BY <3>1 DEF NewRowid, Numbers
  <2>2. \A g : Duplicates(f, g)' = {} => Duplicates(f, g) = {}
    BY <1>4, <1>8 DEF Duplicates, Of
  <2>3. NewItems(f, rest)' \subseteq NewItems(f, items) \ {Len(items)}
    BY <1>2, <2>2 DEF NewItems
  <2>4. Len(items) \in NewItems(f, items)
    BY <1>1, <1>8 DEF NewItems
  <2>5. /\ IsFiniteSet(NewItems(f, items) \ {Len(items)})
        /\ Cardinality(NewItems(f, items) \ {Len(items)}) = Cardinality(NewItems(f, items)) - 1
    BY <1>6, <2>4, FS_RemoveElement
  <2>6. Cardinality(NewItems(f, rest)') <= Cardinality(NewItems(f, items)) - 1
    BY <2>3, <2>5, FS_Subset
  <2>7. NewRowid' + Cardinality(NewItems(f, rest)') <= MaxRow + 1
    BY <1>6, <1>7, <2>1, <2>6, NewRowidIs, StoreAssumption
  <2>8. HasRoom(f, rest)'
    BY <2>7 DEF HasRoom, NewItems
  <2> QED BY <2>8
<1>9. CASE Duplicates(f, item) # {}
  <2>1. HasRoom(f, items)'
    BY <1>4, <1>9, RoomStays
  <2>2. NewItems(f, rest)' \subseteq NewItems(f, items)'
    BY <1>2 DEF NewItems
  <2>3. NewItems(f, items)' \in SUBSET DOMAIN items
    BY DEF NewItems
  <2>4. IsFiniteSet(NewItems(f, items)') /\ Cardinality(NewItems(f, items)') \in Nat
    BY <2>3, NewItemsAreFinite
  <2>5. Cardinality(NewItems(f, rest)') <= Cardinality(NewItems(f, items)')
    BY <2>2, <2>4, FS_Subset
  <2>6. NewRowid' \in Nat
    <3>1. NewRowid' = Max(Numbers(db'.items)) + 1
      BY DEF NewRowid, Numbers
    <3> QED BY <3>1, MaxIsHighest
  <2>7. NewRowid' + Cardinality(NewItems(f, items)') <= MaxRow + 1
    BY <2>1 DEF HasRoom, NewItems
  <2>8. NewRowid' + Cardinality(NewItems(f, rest)') <= MaxRow + 1
    BY <1>6, <2>4, <2>5, <2>6, <2>7, StoreAssumption
  <2>9. HasRoom(f, rest)'
    BY <2>8 DEF HasRoom, NewItems
  <2> QED BY <2>9
<1> QED BY <1>8, <1>9
-----------------------------------------------------------------------------
(* Tables are typed.                                                         *)
LEMMA DocumentHas ==
    ASSUME NEW f \in Feeds, NEW v \in DOMAIN Documents[f]
    PROVE  /\ Documents[f][v].etag \in Nat /\ Documents[f][v].ttl \in Nat
           /\ Documents[f][v].items \in Seq(Item)
<1> DEFINE D == [etag : Nat, ttl : Nat, life : Nat, items : Seq(Item)]
<1>1. Documents[f] \in Seq(D)
  BY StoreAssumption DEF Item
<1> HIDE DEF D
<1>2. Documents[f][v] \in D
  BY <1>1
<1> QED BY <1>2 DEF D

LEMMA WritesAreTyped ==
    ASSUME TablesAreTyped(saved), NEW d, TablesAreTyped(d), Write(d)
    PROVE  TablesAreTyped(db') /\ TablesAreTyped(saved')
BY DEF Write

LEMMA TypedTables ==
    ASSUME NEW d, TablesAreTyped(d)
    PROVE  /\ RowsAreTyped(d.items)
           /\ \A items : RowsAreTyped(items) => TablesAreTyped([d EXCEPT !.items = items])
           /\ \A items, fs : RowsAreTyped(items) /\ fs \subseteq Feeds =>
                 TablesAreTyped([d EXCEPT !.items = items, !.incomplete = fs])
           /\ \A fs : fs \subseteq Feeds => TablesAreTyped([d EXCEPT !.incomplete = fs])
           /\ \A f \in Feeds, row \in FeedRow : TablesAreTyped([d EXCEPT !.feeds[f] = row])
<1> USE DEF TablesAreTyped, RowsAreTyped
<1>1. RowsAreTyped(d.items)
  OBVIOUS
<1>2. ASSUME NEW items, RowsAreTyped(items) PROVE TablesAreTyped([d EXCEPT !.items = items])
  BY <1>2
<1>3. ASSUME NEW items, RowsAreTyped(items), NEW fs, fs \subseteq Feeds
      PROVE  TablesAreTyped([d EXCEPT !.items = items, !.incomplete = fs])
  BY <1>3
<1>4. ASSUME NEW fs, fs \subseteq Feeds PROVE TablesAreTyped([d EXCEPT !.incomplete = fs])
  BY <1>4
<1>5. ASSUME NEW f \in Feeds, NEW row \in FeedRow PROVE TablesAreTyped([d EXCEPT !.feeds[f] = row])
  BY <1>5
<1> QED BY <1>1, <1>2, <1>3, <1>4, <1>5

(* The commands about items change them in place.                            *)
Command ==
    \/ \E fs \in Selectable, status \in BOOLEAN : MarkFeedsRead(fs, status)
    \/ MarkItem \/ UserEdit

RewritingStep ==
    \E new : /\ KeepsKeys(db.items, new) /\ KeepsContents(db.items, new)
            /\ Write([db EXCEPT !.items = Rewritten(db.items, new)])

LEMMA CommandsRewrite ==
    ASSUME RowsAreTyped(db.items), Command
    PROVE  RewritingStep
<1>1. ASSUME NEW fs, NEW unread \in BOOLEAN, Write([db EXCEPT !.items = Marked(db.items, fs, unread)])
      PROVE  RewritingStep
  BY <1>1, MarkingKeeps DEF RewritingStep
<1>2. ASSUME NEW fs, NEW status \in BOOLEAN, MarkFeedsRead(fs, status) PROVE RewritingStep
  <2>1. Write([db EXCEPT !.items = Marked(db.items, fs, ~status)])
    BY <1>2 DEF MarkFeedsRead, Marked
  <2>2. (~status) \in BOOLEAN
    OBVIOUS
  <2> QED BY <1>1, <2>1, <2>2
<1>3. CASE UserEdit
  <2>1. PICK fs : Write([db EXCEPT !.items = Marked(db.items, fs, FALSE)])
    BY <1>3 DEF UserEdit, Marked
  <2> QED BY <1>1, <2>1
<1>4. CASE MarkItem
  <2>1. PICK r \in db.items :
          \E new \in {[r EXCEPT !.unread = ~@], [r EXCEPT !.important = ~@]} :
            Write([db EXCEPT !.items = (@ \ {r}) \cup {new}])
    BY <1>4 DEF MarkItem
  <2>2. PICK new \in {[r EXCEPT !.unread = ~@], [r EXCEPT !.important = ~@]} :
          Write([db EXCEPT !.items = (db.items \ {r}) \cup {new}])
    BY <2>1
  <2>3. /\ r \in Row /\ r.unread \in BOOLEAN /\ r.important \in BOOLEAN
    BY RowTypes
  <2>4. /\ new \in Row /\ new.rowid = r.rowid /\ new.feed = r.feed /\ new.guid = r.guid
        /\ new.content = r.content /\ new.date = r.date
    BY <2>2, <2>3 DEF Row
  <2>5. /\ KeepsKeys(db.items, ReplaceBy(db.items, r, new))
        /\ (db.items \ {r}) \cup {new} = Rewritten(db.items, ReplaceBy(db.items, r, new))
    BY <2>4, ReplacingKeeps
  <2>6. Write([db EXCEPT !.items = Rewritten(db.items, ReplaceBy(db.items, r, new))])
    BY <2>2, <2>5
  <2>7. KeepsContents(db.items, ReplaceBy(db.items, r, new))
    BY <2>4 DEF KeepsContents, ReplaceBy
  <2> QED BY <2>5, <2>6, <2>7 DEF RewritingStep
<1> QED BY <1>2, <1>3, <1>4 DEF Command

LEMMA RewritingIsTyped ==
    ASSUME TablesAreTyped(db), TablesAreTyped(saved), RewritingStep
    PROVE  /\ TablesAreTyped(db') /\ TablesAreTyped(saved')
           /\ Keys(db'.items) = Keys(db.items)
<1>1. PICK new : KeepsKeys(db.items, new) /\ Write([db EXCEPT !.items = Rewritten(db.items, new)])
  BY DEF RewritingStep
<1>2. RowsAreTyped(Rewritten(db.items, new)) /\ Keys(Rewritten(db.items, new)) = Keys(db.items)
  BY <1>1, TypedTables, RewritingKeeps
<1>3. db'.items = Rewritten(db.items, new)
  BY <1>1 DEF Write, TablesAreTyped
<1> QED BY <1>1, <1>2, <1>3, TypedTables, WritesAreTyped
(* What the job of the inserter has to be at its steps.                      *)
LEMMA JobHas ==
    ASSUME JobIsTyped
    PROVE  /\ job # Idle => job.feed \in Feeds
           /\ job.pc = "items" => /\ job.items \in Seq(Item) /\ HasRoom(job.feed, job.items)
                                  /\ job # Idle /\ job.failed \in BOOLEAN
           /\ job.pc = "count" => job.failed \in BOOLEAN /\ job # Idle
           /\ job.pc = "store" => /\ job.failed \in BOOLEAN /\ job # Idle
                                  /\ job.unread \in Nat /\ job.total \in Nat
           /\ job.pc \in {"refresh", "finish"} => job # Idle
           /\ job.pc \in {"idle", "items", "count", "store", "refresh", "finish"}
BY DEF JobIsTyped, Idle

(* An item that is inserted.                                                 *)
LEMMA ItemStepIs ==
    ASSUME ContentsAreTyped, UniqueInvariant, InsertItemData
    PROVE  /\ job.feed \in Feeds /\ Last(job.items) \in Item /\ job.items \in Seq(Item)
           /\ job.items # <<>> /\ HasRoom(job.feed, job.items)
           /\ entry[job.feed].tried \in 0..MaxTime
           /\ RowsAreTyped(db.items) /\ Unique(db.items)
           /\ Duplicates(job.feed, Last(job.items)) = {} => NewRowid <= MaxRow
           /\ db'.items = insert_item_data(job.feed, Last(job.items))
           /\ RowsAreTyped(db'.items)
<1>1. job.pc = "items" /\ job.items # <<>> /\ job # Idle
  BY DEF InsertItemData, ContentsAreTyped, JobIsTyped, Idle
<1>2. job.feed \in Feeds /\ job.items \in Seq(Item) /\ HasRoom(job.feed, job.items)
  BY <1>1, JobHas DEF ContentsAreTyped
<1>3. /\ RowsAreTyped(db.items) /\ Unique(db.items) /\ entry[job.feed].tried \in 0..MaxTime
  BY <1>2, TypedTables DEF ContentsAreTyped, Entry, UniqueInvariant, IsTables
<1>4. Last(job.items) \in Item
  BY <1>1, <1>2, ItemsBeforeTheLast
<1>5. Duplicates(job.feed, Last(job.items)) = {} => NewRowid <= MaxRow
  BY <1>1, <1>2, <1>3, RoomForTheNext
<1>6. db'.items = insert_item_data(job.feed, Last(job.items))
  BY DEF InsertItemData, Write, ContentsAreTyped, TablesAreTyped
<1>7. RowsAreTyped(insert_item_data(job.feed, Last(job.items)))
  BY <1>2, <1>3, <1>4, <1>5, InsertionIs
<1> QED BY <1>1, <1>2, <1>3, <1>4, <1>5, <1>6, <1>7

(* Rows of feeds that updates write.                                         *)
LEMMA FeedRowsAreTyped ==
    ASSUME ContentsAreTyped, FreshInvariant, NEW f \in Feeds, f \in DOMAIN queue
    PROVE  /\ queue[f].state = "downloaded" => insert_feed_data(f, queue[f]) \in FeedRow
           /\ queue[f].state = "not_modified" \/ queue[f].state = "skipped" =>
                 canceled_feed(f) \in FeedRow
<1>1. ReplyIsKnown(f, queue[f], entry[f].tried, fresh[f]) /\ entry[f].tried \in Nat
  BY DEF FreshInvariant, QueueIsKnown, EntriesAreTried
<1>2. CASE queue[f].state = "downloaded"
  <2>1. queue[f].version \in DOMAIN Documents[f] /\ queue[f].expires \in Nat
    BY <1>1, <1>2 DEF ReplyIsKnown
  <2>2. insert_feed_data(f, queue[f]) \in FeedRow
    BY <1>1, <2>1, DocumentHas DEF insert_feed_data, FeedRow
  <2> QED BY <1>2, <2>2
<1>3. CASE queue[f].state \in {"not_modified", "skipped"}
  <2>1. queue[f].state = "not_modified" => queue[f].expires \in Nat
    BY <1>1 DEF ReplyIsKnown
  <2>2. db.feeds[f] \in FeedRow
    BY DEF ContentsAreTyped, TablesAreTyped
  <2>3. canceled_feed(f) \in FeedRow
    BY <1>1, <2>1, <2>2 DEF canceled_feed, FeedRow
  <2> QED BY <1>3, <2>3
<1> QED BY <1>2, <1>3

LEMMA TablesNext ==
    ASSUME ContentsAreTyped, FreshInvariant, UniqueInvariant, [Next]_vars
    PROVE  TablesAreTyped(db') /\ TablesAreTyped(saved')
<1>0. /\ TablesAreTyped(db) /\ TablesAreTyped(saved) /\ RowsAreTyped(db.items)
      /\ db.incomplete \subseteq Feeds /\ saved.incomplete \subseteq Feeds
      /\ JobIsTyped
  BY TypedTables DEF ContentsAreTyped, TablesAreTyped
<1>1. CASE UNCHANGED <<db, saved>>
  BY <1>0, <1>1
<1>2. CASE Leaving
  BY <1>1, <1>2 DEF Leaving, Download, TakeFailedFeed, AutoUpdate, Publish, CountItems, StoreCounters,
     RefreshByInserter, OpenMenu, CloseMenu, SwitchTo, CountMarked, StoreMarked, RefreshByMain,
     RequestUpdates, Tick
<1>3. ASSUME NEW f \in Feeds, InsertFeedData(f) PROVE TablesAreTyped(db') /\ TablesAreTyped(saved')
  <2>1. /\ f \in DOMAIN queue /\ queue[f].state = "downloaded"
        /\ Write([db EXCEPT !.feeds[f] = insert_feed_data(f, queue[f])])
    BY <1>3 DEF InsertFeedData, Takes
  <2>2. insert_feed_data(f, queue[f]) \in FeedRow
    BY <2>1, FeedRowsAreTyped
  <2>3. TablesAreTyped([db EXCEPT !.feeds[f] = insert_feed_data(f, queue[f])])
    BY <1>0, <2>2, TypedTables
  <2> QED BY <1>0, <2>1, <2>3, WritesAreTyped
<1>4. ASSUME NEW f \in Feeds, UpdateCanceledFeed(f)
      PROVE  TablesAreTyped(db') /\ TablesAreTyped(saved')
  <2> DEFINE row == IF db.feeds[f] = NoRow THEN db.feeds[f] ELSE canceled_feed(f)
  <2>1. /\ f \in DOMAIN queue /\ queue[f].state \in {"skipped", "not_modified"}
        /\ Write([db EXCEPT !.feeds[f] = row])
    BY <1>4 DEF UpdateCanceledFeed, Takes
  <2>2. row \in FeedRow
    BY <1>0, <2>1, FeedRowsAreTyped DEF TablesAreTyped
  <2> HIDE DEF row
  <2>3. TablesAreTyped([db EXCEPT !.feeds[f] = row])
    BY <1>0, <2>2, TypedTables
  <2> QED BY <1>0, <2>1, <2>3, WritesAreTyped
<1>5. ASSUME NEW f \in Feeds, PurgeAbandoned(f) PROVE TablesAreTyped(db') /\ TablesAreTyped(saved')
  <2> DEFINE items == db.items \ Of(db.items, f)
             fs == db.incomplete \cup {f}
  <2>1. Write([db EXCEPT !.items = items, !.incomplete = fs])
    BY <1>5 DEF PurgeAbandoned
  <2>2. RowsAreTyped(items) /\ fs \subseteq Feeds
    BY <1>0 DEF RowsAreTyped, NumbersAreUnique
  <2> HIDE DEF items, fs
  <2>3. TablesAreTyped([db EXCEPT !.items = items, !.incomplete = fs])
    BY <1>0, <2>2, TypedTables
  <2> QED BY <1>0, <2>1, <2>3, WritesAreTyped
<1>6. CASE InsertItemData
  <2> DEFINE items == insert_item_data(job.feed, Last(job.items))
  <2>1. Write([db EXCEPT !.items = items])
    BY <1>6 DEF InsertItemData
  <2>2. RowsAreTyped(items)
    BY <1>6, ItemStepIs
  <2> HIDE DEF items
  <2>3. TablesAreTyped([db EXCEPT !.items = items])
    BY <1>0, <2>2, TypedTables
  <2> QED BY <1>0, <2>1, <2>3, WritesAreTyped
<1>7. CASE ItemRefused
  <2> DEFINE fs == db.incomplete \cup {job.feed}
  <2>1. Write([db EXCEPT !.incomplete = fs]) /\ job.pc = "items"
    BY <1>7 DEF ItemRefused
  <2>2. fs \subseteq Feeds
    BY <1>0, <2>1, JobHas
  <2> HIDE DEF fs
  <2>3. TablesAreTyped([db EXCEPT !.incomplete = fs])
    BY <1>0, <2>2, TypedTables
  <2> QED BY <1>0, <2>1, <2>3, WritesAreTyped
<1>8. CASE DeleteExcessItems
  <2> DEFINE items == IF cfg.limit > 0 THEN db.items \ Excess(db.items, job.feed) ELSE db.items
             fs == db.incomplete \ {job.feed}
  <2>1. Write([db EXCEPT !.items = items, !.incomplete = fs])
    BY <1>8 DEF DeleteExcessItems
  <2>2. RowsAreTyped(items) /\ fs \subseteq Feeds
    BY <1>0 DEF RowsAreTyped, NumbersAreUnique
  <2> HIDE DEF items, fs
  <2>3. TablesAreTyped([db EXCEPT !.items = items, !.incomplete = fs])
    BY <1>0, <2>2, TypedTables
  <2> QED BY <1>0, <2>1, <2>3, WritesAreTyped
<1>9. CASE Command
  BY <1>0, <1>9, CommandsRewrite, RewritingIsTyped
<1>10. CASE Finish
  BY <1>0, <1>10 DEF Finish
<1>11. CASE Restart
  <2> DEFINE fs == saved.incomplete \cup {job.feed}
  <2>1. /\ saved' = saved \/ (job.pc = "items" /\ saved' = [saved EXCEPT !.incomplete = fs])
        /\ db' = saved'
    BY <1>11 DEF Restart
  <2>2. job.pc = "items" => fs \subseteq Feeds
    BY <1>0, JobHas
  <2> HIDE DEF fs
  <2>3. fs \subseteq Feeds => TablesAreTyped([saved EXCEPT !.incomplete = fs])
    BY <1>0, TypedTables
  <2>4. TablesAreTyped(saved')
    BY <1>0, <2>1, <2>2, <2>3
  <2> QED BY <2>1, <2>4
<1>12. CASE Writing
  BY <1>3, <1>4, <1>5, <1>6, <1>7, <1>8, <1>9, <1>10, <1>11, <1>12 DEF Writing, Command
<1> QED BY <1>1, <1>2, <1>12, NextIsStep DEF vars
-----------------------------------------------------------------------------
(* Counters, statistics, the inserter and the main thread are typed.         *)
EntriesAreTyped == entry \in [Feeds -> Entry]

LEMMA TimeIsBounded ==
    ASSUME ContentsAreTyped
    PROVE  now \in 0..MaxTime /\ now \in 1..MaxTime /\ 0 \in 0..MaxTime
BY StoreAssumption DEF ContentsAreTyped

LEMMA NewEntriesAreTyped ==
    ASSUME NEW d, TablesAreTyped(d), \A f \in Feeds : d.feeds[f].update \in 0..MaxTime
    PROVE  Entries(d) \in [Feeds -> Entry]
<1>1. ASSUME NEW f \in Feeds
      PROVE  [ tried  |-> d.feeds[f].update, errors |-> FALSE,
               unread |-> db_count_items(d, f, TRUE),
               total  |-> db_count_items(d, f, FALSE) ] \in Entry
  <2>1. db_count_items(d, f, TRUE) \in Nat /\ db_count_items(d, f, FALSE) \in Nat
    BY TypedTables, CountsAreNumbers
  <2> QED BY <2>1 DEF Entry
<1> QED BY <1>1 DEF Entries

LEMMA StatisticsAreTyped ==
    ASSUME entry \in [Feeds -> Entry]
    PROVE  Statistics \in [Sections -> [unread : Nat, has_errors : BOOLEAN]]
<1> DEFINE unread == [f \in Feeds |-> entry[f].unread]
<1>1. ASSUME NEW s \in Sections PROVE SumFunctionOnSet(unread, s) \in Nat
  <2>1. IsFiniteSet(s) /\ s \subseteq Feeds
    BY StoreAssumption, FS_Subset
  <2>2. \A f \in s : unread[f] \in Nat
    BY <2>1 DEF Entry
  <2> HIDE DEF unread
  <2> QED BY <2>1, <2>2, SumIsNatural
<1>2. ASSUME NEW s \in Sections PROVE (\E f \in s : entry[f].errors) \in BOOLEAN
  OBVIOUS
<1> HIDE DEF unread
<1>3. Statistics = [s \in Sections |-> [ unread |-> SumFunctionOnSet(unread, s),
                                         has_errors |-> \E f \in s : entry[f].errors ]]
  BY DEF Statistics, unread
<1> QED BY <1>1, <1>2, <1>3

LEMMA RequestsAreTyped ==
    ASSUME ContentsAreTyped, NEW fs, queue_updates(fs)
    PROVE  EntriesAreTyped'
<1>1. \A f \in Feeds : [entry[f] EXCEPT !.tried = now] \in Entry
  BY TimeIsBounded DEF ContentsAreTyped, Entry
<1> QED BY <1>1 DEF queue_updates, ContentsAreTyped, EntriesAreTyped

LEMMA EntriesNext ==
    ASSUME ContentsAreTyped, FreshInvariant, [Next]_vars,
           TablesAreTyped(db'), TablesAreTyped(saved')
    PROVE  EntriesAreTyped'
<1>0. /\ entry \in [Feeds -> Entry] /\ JobIsTyped /\ MainIsTyped
      /\ TablesAreTyped(db) /\ TablesAreTyped(saved) /\ RowsAreTyped(db.items)
  BY TypedTables DEF ContentsAreTyped
<1>1. CASE UNCHANGED entry
  BY <1>0, <1>1 DEF EntriesAreTyped
<1>2. CASE OpenMenu \/ CloseMenu
  <2>1. entry' = Recount(Top.feeds)
    BY <1>2 DEF OpenMenu, CloseMenu, SwitchTo
  <2>2. \A f \in Feeds : [entry[f] EXCEPT !.unread = db_count_items(db, f, TRUE)] \in Entry
    BY <1>0, CountsAreNumbers DEF Entry
  <2> QED BY <1>0, <2>1, <2>2 DEF Recount, EntriesAreTyped
<1>3. CASE StoreCounters
  <2>1. /\ job.unread \in Nat /\ job.total \in Nat /\ job.failed \in BOOLEAN
    BY <1>0, <1>3, JobHas DEF StoreCounters
  <2>2. \A f \in Feeds : Counted(entry[f]) \in Entry
    BY <1>0, <2>1 DEF Counted, Entry
  <2> QED BY <1>0, <1>3, <2>2 DEF StoreCounters, EntriesAreTyped
<1>4. CASE StoreMarked
  <2>1. main.unread \in Nat
    BY <1>0, <1>4 DEF StoreMarked, MainIsTyped
  <2>2. \A f \in Feeds : [entry[f] EXCEPT !.unread = main.unread] \in Entry
    BY <1>0, <2>1 DEF Entry
  <2> QED BY <1>0, <1>4, <2>2 DEF StoreMarked, EntriesAreTyped
<1>5. CASE RequestUpdates \/ \E f \in Feeds : AutoUpdate(f)
  BY <1>5, RequestsAreTyped DEF RequestUpdates, AutoUpdate
<1>6. ASSUME NEW d, RowsAreKnown(d, now, fresh) PROVE \A f \in Feeds : d.feeds[f].update \in 0..MaxTime
  BY <1>6, TimeIsBounded, StoreAssumption DEF RowsAreKnown, RowIsKnown
<1>7. CASE Restart
  <2>1. entry' = Entries(saved)
    BY <1>7 DEF Restart
  <2> QED BY <1>0, <1>6, <2>1, NewEntriesAreTyped DEF FreshInvariant, EntriesAreTyped
<1>8. ASSUME NEW f \in Feeds, PurgeAbandoned(f) PROVE EntriesAreTyped'
  <2>1. entry' = Entries(db') /\ db'.feeds = db.feeds
    BY <1>0, <1>8 DEF PurgeAbandoned, Write, Entries, db_count_items, TablesAreTyped
  <2>2. \A g \in Feeds : db'.feeds[g].update \in 0..MaxTime
    BY <1>6, <2>1 DEF FreshInvariant
  <2> QED BY <2>1, <2>2, NewEntriesAreTyped DEF EntriesAreTyped
<1>9. CASE Writing
  BY <1>1, <1>7, <1>8, <1>9 DEF Writing, InsertFeedData, UpdateCanceledFeed, InsertItemData,
     ItemRefused, DeleteExcessItems, MarkFeedsRead, MarkItem, UserEdit, Finish
<1>10. CASE Leaving
  BY <1>1, <1>2, <1>3, <1>4, <1>5, <1>10 DEF Leaving, Download, TakeFailedFeed, Publish, CountItems,
     RefreshByInserter, CountMarked, RefreshByMain, Tick
<1> QED BY <1>1, <1>9, <1>10, NextIsStep DEF vars
LEMMA JobNext ==
    ASSUME ContentsAreTyped, FreshInvariant, UniqueInvariant, [Next]_vars,
           TablesAreTyped(db'), TablesAreTyped(saved')
    PROVE  JobIsTyped'
<1>0. /\ JobIsTyped /\ TablesAreTyped(db) /\ RowsAreTyped(db.items)
      /\ RowsAreTyped(db'.items)
  BY TypedTables DEF ContentsAreTyped
<1>1. ASSUME UNCHANGED job, Keys(db'.items) = Keys(db.items) PROVE JobIsTyped'
  <2>1. CASE job.pc = "items"
    <3>1. HasRoom(job.feed, job.items)
      BY <1>0, <2>1, JobHas
    <3>2. \A f, items : HasRoom(f, items) => HasRoom(f, items)'
      BY <1>1, RoomStays
    <3>3. HasRoom(job.feed, job.items)'
      BY <1>1, <3>1, <3>2
    <3> QED BY <1>0, <1>1, <2>1, <3>3 DEF JobIsTyped, Idle
  <2>2. CASE job.pc # "items"
    BY <1>0, <1>1, <2>2 DEF JobIsTyped, Idle
  <2> QED BY <2>1, <2>2
<1>2. CASE UNCHANGED <<job, db>>
  BY <1>1, <1>2
<1>3. CASE Command
  <2>1. UNCHANGED job
    BY <1>3 DEF Command, MarkFeedsRead, MarkItem, UserEdit
  <2> QED BY <1>0, <1>1, <1>3, <2>1, CommandsRewrite, RewritingIsTyped DEF ContentsAreTyped
<1>4. ASSUME NEW f \in Feeds, InsertFeedData(f) PROVE JobIsTyped'
  <2> DEFINE items == Documents[f][queue[f].version].items
  <2>1. /\ f \in DOMAIN queue /\ queue[f].state = "downloaded" /\ HasRoom(f, items)
        /\ job' = [pc |-> "items", feed |-> f, failed |-> FALSE, items |-> items]
        /\ Write([db EXCEPT !.feeds[f] = insert_feed_data(f, queue[f])])
    BY <1>4 DEF InsertFeedData, Takes
  <2>2. db'.items = db.items
    BY <1>0, <2>1 DEF Write, TablesAreTyped
  <2>3. items \in Seq(Item)
    BY <2>1, DocumentHas DEF FreshInvariant, QueueIsKnown, ReplyIsKnown
  <2> HIDE DEF items
  <2>4. \A g, s : HasRoom(g, s) => HasRoom(g, s)'
    BY <2>2, RoomStays
  <2>5. HasRoom(job.feed, job.items)'
    <3>1. job'.feed = f /\ job'.items = items
      BY <2>1
    <3> QED BY <2>1, <2>4, <3>1
  <2>6. job' \in [pc : {"items"}, feed : Feeds, failed : BOOLEAN, items : Seq(Item)]
    BY <2>1, <2>3
  <2> QED BY <2>5, <2>6 DEF JobIsTyped
<1>5. CASE InsertItemData
  <2> DEFINE rest == Front(job.items)
  <2>1. /\ job' = [job EXCEPT !.items = rest] /\ job.pc = "items"
    BY <1>5 DEF InsertItemData
  <2>2. rest \in Seq(Item)
    BY <1>5, ItemStepIs, ItemsBeforeTheLast
  <2>3. \A g, s : g = job.feed /\ s = job.items => HasRoom(g, Front(s))'
    BY <1>0, <1>5, ItemStepIs, RoomForTheOthers
  <2> HIDE DEF rest
  <2>4. job' \in [pc : {"items"}, feed : Feeds, failed : BOOLEAN, items : Seq(Item)]
    BY <1>0, <2>1, <2>2 DEF JobIsTyped, Idle
  <2>5. job'.feed = job.feed /\ job'.items = rest
    BY <1>0, <2>1 DEF JobIsTyped, Idle
  <2>6. HasRoom(job.feed, job.items)'
    BY <2>3, <2>5 DEF rest
  <2> QED BY <2>4, <2>6 DEF JobIsTyped
<1>14. ASSUME NEW f \in Feeds, NEW failed \in BOOLEAN,
              job' = [pc |-> "count", feed |-> f, failed |-> failed]
       PROVE  JobIsTyped'
  <2>1. job' \in [pc : {"count"}, feed : Feeds, failed : BOOLEAN]
    BY <1>14
  <2> QED BY <2>1 DEF JobIsTyped
<1>6. CASE ItemRefused \/ DeleteExcessItems
  <2>1. job.feed \in Feeds
    BY <1>0, <1>6, JobHas DEF ItemRefused, DeleteExcessItems
  <2> QED BY <1>6, <1>14, <2>1 DEF ItemRefused, DeleteExcessItems
<1>7. ASSUME NEW f \in Feeds, UpdateCanceledFeed(f) \/ TakeFailedFeed(f) PROVE JobIsTyped'
  BY <1>7, <1>14 DEF UpdateCanceledFeed, TakeFailedFeed
<1>8. CASE CountItems
  <2>1. job.feed \in Feeds /\ job.failed \in BOOLEAN
    BY <1>0, <1>8, JobHas DEF CountItems
  <2>2. db_count_items(db, job.feed, TRUE) \in Nat /\ db_count_items(db, job.feed, FALSE) \in Nat
    BY <1>0, CountsAreNumbers
  <2>3. job' \in [pc : {"store"}, feed : Feeds, failed : BOOLEAN, unread : Nat, total : Nat]
    BY <1>8, <2>1, <2>2 DEF CountItems
  <2> QED BY <2>3 DEF JobIsTyped
<1>9. CASE StoreCounters \/ RefreshByInserter
  BY <1>0, <1>9, JobHas DEF StoreCounters, RefreshByInserter, At, JobIsTyped
<1>10. CASE job' = Idle
  BY <1>10 DEF JobIsTyped
<1>11. ASSUME NEW f \in Feeds, PurgeAbandoned(f) PROVE JobIsTyped'
  BY <1>10, <1>11 DEF PurgeAbandoned
<1>12. CASE Writing
  BY <1>3, <1>4, <1>5, <1>6, <1>7, <1>10, <1>11, <1>12 DEF Writing, Command, Finish, Restart
<1>13. CASE Leaving
  BY <1>2, <1>7, <1>8, <1>9, <1>13 DEF Leaving, Download, AutoUpdate, Publish,
     OpenMenu, CloseMenu, SwitchTo, CountMarked, StoreMarked, RefreshByMain, RequestUpdates, Tick
<1> QED BY <1>2, <1>12, <1>13, NextIsStep DEF vars

LEMMA MainNext ==
    ASSUME ContentsAreTyped, MenusInvariant, [Next]_vars
    PROVE  MainIsTyped'
<1>0. MainIsTyped /\ RowsAreTyped(db.items)
  BY TypedTables DEF ContentsAreTyped
<1>1. CASE UNCHANGED main
  BY <1>0, <1>1 DEF MainIsTyped
<1>2. CASE \E pc \in {"idle", "refresh"} : main' = [pc |-> pc]
  BY <1>2 DEF MainIsTyped
<1>3. ASSUME NEW fs \in Selectable, NEW status, MarkFeedsRead(fs, status) PROVE MainIsTyped'
  <2>1. fs \subseteq Feeds
    BY SelectableAreFeeds
  <2> QED BY <1>3, <2>1 DEF MarkFeedsRead, MainIsTyped
<1>4. CASE CountMarked
  <2>1. PICK f \in main.left :
          main' = [pc |-> "store", left |-> main.left \ {f}, feed |-> f,
                   unread |-> db_count_items(db, f, TRUE)]
    BY <1>4 DEF CountMarked
  <2>2. main.left \subseteq Feeds
    BY <1>0, <1>4 DEF CountMarked, MainIsTyped
  <2>3. db_count_items(db, f, TRUE) \in Nat
    BY <1>0, CountsAreNumbers
  <2> QED BY <2>1, <2>2, <2>3 DEF MainIsTyped
<1>5. CASE StoreMarked
  BY <1>0, <1>5 DEF StoreMarked, MainIsTyped
<1>6. CASE OpenMenu \/ CloseMenu
  BY <1>2, <1>6 DEF OpenMenu, CloseMenu, SwitchTo
<1>7. CASE Writing
  BY <1>1, <1>2, <1>3, <1>7 DEF Writing, InsertFeedData, UpdateCanceledFeed, PurgeAbandoned,
     InsertItemData, ItemRefused, DeleteExcessItems, MarkItem, UserEdit, Finish, Restart
<1>8. CASE Leaving
  BY <1>1, <1>2, <1>4, <1>5, <1>6, <1>8 DEF Leaving, Download, TakeFailedFeed, AutoUpdate, Publish,
     CountItems, StoreCounters, RefreshByInserter, RefreshByMain, RequestUpdates, Tick
<1> QED BY <1>1, <1>7, <1>8, NextIsStep DEF vars

(* The settings are read once.                                               *)
LEMMA SettingsStay == [Next]_vars => UNCHANGED cfg
BY DEF Next, Inserter, Main, Environment, vars, Download, InsertFeedData, UpdateCanceledFeed,
   PurgeAbandoned, InsertItemData, ItemRefused, DeleteExcessItems, MarkFeedsRead, MarkItem, UserEdit,
   Finish, Restart, TakeFailedFeed, AutoUpdate, Publish, CountItems, StoreCounters,
   RefreshByInserter, OpenMenu, CloseMenu, SwitchTo, CountMarked, StoreMarked, RefreshByMain,
   RequestUpdates, Tick

LEMMA HistoryNext ==
    ASSUME ContentsAreTyped, MenusInvariant, [Next]_vars
    PROVE  cfg' \in Configs /\ now' \in 1..cfg'.until /\ doubtful' \subseteq Feeds
<1>0. /\ cfg \in Configs /\ now \in 1..cfg.until /\ doubtful \subseteq Feeds
      /\ cfg.until \in Nat /\ JobIsTyped /\ MainIsTyped
  BY StoreAssumption DEF ContentsAreTyped
<1>1. UNCHANGED cfg
  BY SettingsStay
<1>2. UNCHANGED now \/ Tick
  BY DEF Next, Inserter, Main, Environment, vars, Writing, Leaving, Download, InsertFeedData,
     UpdateCanceledFeed, PurgeAbandoned, InsertItemData, ItemRefused, DeleteExcessItems,
     MarkFeedsRead, MarkItem, UserEdit, Finish, Restart, TakeFailedFeed, AutoUpdate, Publish,
     CountItems, StoreCounters, RefreshByInserter, OpenMenu, CloseMenu, SwitchTo, CountMarked,
     StoreMarked, RefreshByMain, RequestUpdates
<1>3. now' \in 1..cfg'.until
  BY <1>0, <1>1, <1>2 DEF Tick
<1>4. ASSUME UNCHANGED doubtful \/ doubtful' = {} \/ doubtful' = doubtful \ Top.feeds PROVE doubtful' \subseteq Feeds
  BY <1>0, <1>4
<1>5. ASSUME NEW f \in Feeds, doubtful' = Doubt(f) PROVE doubtful' \subseteq Feeds
  BY <1>0, <1>5 DEF Doubt
<1>6. ASSUME CountItems PROVE doubtful' \subseteq Feeds
  <2>1. job.feed \in Feeds
    BY <1>0, <1>6, JobHas DEF CountItems
  <2> QED BY <1>5, <1>6, <2>1 DEF CountItems
<1>7. ASSUME CountMarked PROVE doubtful' \subseteq Feeds
  <2>1. main.left \subseteq Feeds
    BY <1>0, <1>7 DEF CountMarked, MainIsTyped
  <2> QED BY <1>5, <1>7, <2>1 DEF CountMarked
<1>8. ASSUME UserEdit PROVE doubtful' \subseteq Feeds
  <2>1. PICK fs \in Selectable : doubtful' = doubtful \cup fs
    BY <1>8 DEF UserEdit
  <2>2. fs \subseteq Feeds
    BY SelectableAreFeeds
  <2> QED BY <1>0, <2>1, <2>2
<1>9. ASSUME Writing PROVE doubtful' \subseteq Feeds
  BY <1>4, <1>8, <1>9 DEF Writing, InsertFeedData, UpdateCanceledFeed, PurgeAbandoned,
     InsertItemData, ItemRefused, DeleteExcessItems, MarkFeedsRead, MarkItem, Finish, Restart
<1>10. ASSUME Leaving PROVE doubtful' \subseteq Feeds
  BY <1>4, <1>6, <1>7, <1>10 DEF Leaving, Download, TakeFailedFeed, AutoUpdate, Publish,
     StoreCounters, RefreshByInserter, OpenMenu, CloseMenu, SwitchTo, StoreMarked,
     RefreshByMain, RequestUpdates, Tick
<1>11. doubtful' \subseteq Feeds
  BY <1>4, <1>9, <1>10, NextIsStep DEF vars
<1> QED BY <1>0, <1>1, <1>3, <1>11

LEMMA SectionNext ==
    ASSUME ContentsAreTyped, [Next]_vars
    PROVE  section' \in [Sections -> [unread : Nat, has_errors : BOOLEAN]]
<1>1. \/ section' \in {section, Statistics, NoStatistics}
  BY DEF Next, Inserter, Main, Environment, vars, Writing, Leaving, Download, InsertFeedData,
     UpdateCanceledFeed, PurgeAbandoned, InsertItemData, ItemRefused, DeleteExcessItems,
     MarkFeedsRead, MarkItem, UserEdit, Finish, Restart, TakeFailedFeed, AutoUpdate, Publish,
     CountItems, StoreCounters, RefreshByInserter, OpenMenu, CloseMenu, SwitchTo, CountMarked,
     StoreMarked, RefreshByMain, RequestUpdates, Tick
<1>2. NoStatistics \in [Sections -> [unread : Nat, has_errors : BOOLEAN]]
  BY DEF NoStatistics
<1> QED BY <1>1, <1>2, StatisticsAreTyped DEF ContentsAreTyped
(* Every step keeps the types, at the first of all, too.                     *)
ContentsInvariant ==
    ContentsAreTyped /\ FreshInvariant /\ UniqueInvariant /\ MenusInvariant

LEMMA ContentsInit == Init => ContentsInvariant
<1> SUFFICES ASSUME Init PROVE ContentsAreTyped
  BY FreshInit, UniqueInit, MenusInit DEF ContentsInvariant
<1>1. cfg \in Configs /\ now \in 1..cfg.until
  BY StoreAssumption DEF Init
<1>2. NoRow \in FeedRow
  BY DEF NoRow, FeedRow
<1>3. TablesAreTyped(db) /\ TablesAreTyped(saved)
  BY <1>2 DEF Init, TablesAreTyped, NumbersAreUnique
<1>4. entry \in [Feeds -> Entry]
  <2>1. 0 \in 0..MaxTime
    BY StoreAssumption
  <2>2. \A f \in Feeds : db.feeds[f].update \in 0..MaxTime
    BY <2>1 DEF Init, NoRow
  <2> QED BY <1>3, <2>2, NewEntriesAreTyped DEF Init
<1>5. section \in [Sections -> [unread : Nat, has_errors : BOOLEAN]]
  BY DEF Init, NoStatistics
<1>6. JobIsTyped /\ MainIsTyped /\ doubtful \subseteq Feeds
  BY DEF Init, JobIsTyped, MainIsTyped
<1> QED BY <1>1, <1>3, <1>4, <1>5, <1>6 DEF ContentsAreTyped

LEMMA ContentsNext == ContentsInvariant /\ [Next]_vars => ContentsInvariant'
<1> SUFFICES ASSUME ContentsInvariant, [Next]_vars PROVE ContentsInvariant'
  OBVIOUS
<1> USE DEF ContentsInvariant
<1>1. FreshInvariant' /\ UniqueInvariant' /\ MenusInvariant'
  BY FreshNext, UniqueNext, MenusNext
<1>2. TablesAreTyped(db') /\ TablesAreTyped(saved')
  BY TablesNext
<1>3. entry' \in [Feeds -> Entry]
  BY <1>2, EntriesNext DEF EntriesAreTyped
<1>4. JobIsTyped' /\ MainIsTyped'
  BY <1>2, JobNext, MainNext
<1>5. /\ cfg' \in Configs /\ now' \in 1..cfg'.until /\ doubtful' \subseteq Feeds
      /\ section' \in [Sections -> [unread : Nat, has_errors : BOOLEAN]]
  BY HistoryNext, SectionNext
<1> QED BY <1>1, <1>2, <1>3, <1>4, <1>5 DEF ContentsAreTyped

(* Rows have numbers of their own within the bound, and nothing that the     *)
(* menus show of a feed or of a section counts below zero.                   *)
LEMMA ContentsAreOfType == ContentsInvariant => TypeOK
<1> SUFFICES ASSUME ContentsInvariant PROVE TypeOK
  OBVIOUS
<1>1. ContentsAreTyped /\ DOMAIN queue \subseteq Feeds /\ now \in 1..MaxTime
  BY TimeIsBounded DEF ContentsInvariant, FreshInvariant, QueueIsKnown
<1> QED BY <1>1
    DEF ContentsAreTyped, TypeOK, TablesAreTyped, NumbersAreUnique, FeedRow, Entry
-----------------------------------------------------------------------------
(* Items survive updates.                                                    *)

(* Rows are in a strict order, which that of their dates refines.            *)
LEMMA RowsAreOrdered ==
    ASSUME NEW items, RowsAreTyped(items), NEW x \in items, NEW y \in items
    PROVE  /\ ~Newer(x, x)
           /\ x # y => Newer(x, y) \/ Newer(y, x)
           /\ Newer(x, y) => x.date >= y.date
           /\ \A z \in items : Newer(x, y) /\ Newer(y, z) => Newer(x, z)
<1>1. \A z \in items : z.date \in Nat /\ z.download \in Nat /\ z.rowid \in Nat
  BY RowTypes
<1>2. x # y => x.rowid # y.rowid
  BY DEF RowsAreTyped, NumbersAreUnique
<1> QED BY <1>1, <1>2 DEF Newer

(* The rows of a feed that are newer than one of them.                       *)
NewerOnes(items, f, x) == {s \in Of(items, f) : Newer(s, x)}

LEMMA NewerOnesAreFewer ==
    ASSUME NEW items, RowsAreTyped(items), NEW f, NEW x \in Of(items, f), NEW y \in Of(items, f),
           Newer(x, y)
    PROVE  /\ Cardinality(NewerOnes(items, f, x)) \in Nat
           /\ Cardinality(NewerOnes(items, f, y)) \in Nat
           /\ Cardinality(NewerOnes(items, f, x)) < Cardinality(NewerOnes(items, f, y))
<1> DEFINE newer(z) == NewerOnes(items, f, z)
<1>1. IsFiniteSet(items) /\ x \in items /\ y \in items
      /\ newer(x) \in SUBSET items /\ newer(y) \in SUBSET items
  BY RowsAreFinite DEF Of, NewerOnes
<1>2. /\ IsFiniteSet(newer(x)) /\ Cardinality(newer(x)) \in Nat
      /\ IsFiniteSet(newer(y)) /\ Cardinality(newer(y)) \in Nat
  BY <1>1, FS_Subset, FS_CardinalityType
<1>3. newer(x) \in SUBSET newer(y) /\ x \in newer(y) /\ x \notin newer(x)
  BY <1>1, RowsAreOrdered DEF NewerOnes, Of
<1> HIDE DEF newer
<1>4. Cardinality(newer(x)) <= Cardinality(newer(y)) /\ Cardinality(newer(x)) # Cardinality(newer(y))
  BY <1>2, <1>3, FS_Subset
<1>5. Cardinality(newer(x)) < Cardinality(newer(y))
  BY <1>2, <1>4
<1> QED BY <1>2, <1>5 DEF newer

(* Where a row is over the limit, as many rows as it allows are within it,   *)
(* all of them as new as this one.                                           *)
Within(items, f) == {x \in Of(items, f) : Cardinality(NewerOnes(items, f, x)) < cfg.limit}

LEMMA LimitIsReached ==
    ASSUME cfg.limit \in Nat, NEW items, RowsAreTyped(items), NEW f, NEW r \in Of(items, f),
           Cardinality(NewerOnes(items, f, r)) >= cfg.limit
    PROVE  /\ Cardinality(Within(items, f)) >= cfg.limit
           /\ \A x \in Within(items, f) : x.date >= r.date
<1> DEFINE count(x) == Cardinality(NewerOnes(items, f, x))
           over == {x \in Of(items, f) : count(x) >= cfg.limit}
<1>1. IsFiniteSet(items) /\ Of(items, f) \in SUBSET items
  BY RowsAreFinite DEF Of
<1>2. ASSUME NEW x \in Of(items, f)
      PROVE  NewerOnes(items, f, x) \in SUBSET items /\ count(x) \in Nat
  <2>1. NewerOnes(items, f, x) \in SUBSET items
    BY DEF NewerOnes, Of
  <2> QED BY <1>1, <2>1, FS_Subset, FS_CardinalityType
<1>3. ASSUME NEW x \in Within(items, f) PROVE x.date >= r.date
  <2>1. x \in Of(items, f) /\ count(x) < cfg.limit
    BY <1>3 DEF Within
  <2>2. count(r) \in Nat /\ count(x) \in Nat
    BY <1>2, <2>1
  <2>3. x # r
    BY <2>1, <2>2
  <2>4. ~Newer(r, x)
    <3>1. Newer(r, x) => count(r) < count(x)
      BY <2>1, NewerOnesAreFewer
    <3> QED BY <2>1, <2>2, <3>1
  <2> QED BY <1>1, <2>1, <2>3, <2>4, RowsAreOrdered
<1>4. PICK y \in over : \A x \in over : count(y) <= count(x)
  <2> DEFINE counts == {count(x) : x \in over}
  <2>1. counts \subseteq Nat /\ counts # {}
    BY <1>2
  <2>2. PICK n \in counts : \A m \in counts : n <= m
    <3> HIDE DEF counts
    <3> QED BY <2>1, LeastNumber
  <2>3. PICK y \in over : n = count(y)
    OBVIOUS
  <2>4. ASSUME NEW x \in over PROVE count(y) <= count(x)
    <3>1. count(x) \in counts
      OBVIOUS
    <3> HIDE DEF counts
    <3> QED BY <2>2, <2>3, <3>1
  <2> HIDE DEF count
  <2> QED BY <2>4
<1>5. NewerOnes(items, f, y) \in SUBSET Within(items, f)
  <2>1. ASSUME NEW z \in NewerOnes(items, f, y) PROVE z \in Within(items, f)
    <3>1. z \in Of(items, f) /\ Newer(z, y) /\ y \in Of(items, f)
      BY DEF NewerOnes
    <3>2. count(z) < count(y) /\ count(z) \in Nat /\ count(y) \in Nat
      BY <3>1, NewerOnesAreFewer
    <3>3. z \notin over
      BY <1>4, <3>2
    <3>4. ~(count(z) >= cfg.limit)
      BY <3>1, <3>3
    <3> HIDE DEF over
    <3> QED BY <3>1, <3>2, <3>4 DEF Within
  <2> QED BY <2>1
<1>6. IsFiniteSet(Within(items, f)) /\ Cardinality(Within(items, f)) \in Nat
  <2>1. Within(items, f) \in SUBSET items
    BY DEF Within, Of
  <2> QED BY <1>1, <2>1, FS_Subset, FS_CardinalityType
<1>7. count(y) <= Cardinality(Within(items, f)) /\ count(y) >= cfg.limit /\ count(y) \in Nat
  BY <1>2, <1>5, <1>6, FS_Subset
<1>8. Cardinality(Within(items, f)) >= cfg.limit
  <2> HIDE DEF count
  <2> QED BY <1>6, <1>7
<1> QED BY <1>3, <1>8

Same(r, items) == {s \in items : s.rowid = r.rowid}

Survives(r, items) ==
    IF Same(r, items) = {} THEN IsExcess(r, items)
    ELSE \A s \in Same(r, items) : MarkSurvives(r, s)

(* A row that is still there has survived.                                   *)
LEMMA KeptRowsSurvive ==
    ASSUME NEW items, NumbersAreUnique(items), NEW r \in items
    PROVE  Survives(r, items)
<1>1. Same(r, items) = {r}
  BY DEF Same, NumbersAreUnique
<1> QED BY <1>1 DEF Survives, MarkSurvives

LEMMA InsertionSurvives ==
    ASSUME ContentsInvariant, InsertItemData, NEW r \in db.items
    PROVE  Survives(r, db'.items)
<1> DEFINE f == job.feed
           item == Last(job.items)
           t == db'.items
<1>1. /\ f \in Feeds /\ item \in Item /\ RowsAreTyped(db.items) /\ Unique(db.items)
      /\ entry[f].tried \in 0..MaxTime /\ t = insert_item_data(f, item)
      /\ Duplicates(f, item) = {} => NewRowid <= MaxRow
      /\ RowsAreTyped(t)
  BY ItemStepIs DEF ContentsInvariant
<1> HIDE DEF f, item
<1>2. /\ Duplicates(f, item) = {} => t = db.items \cup {new_item(item, f)}
      /\ Duplicates(f, item) # {} =>
           \/ t = db.items
           \/ \E old \in db.items :
                /\ old.feed = f /\ old.guid = item.guid /\ old.content # item.content
                /\ t = (db.items \ {old}) \cup {updated_item(old, item, f)}
  BY <1>1, InsertionIs
<1>3. CASE r \in t
  BY <1>1, <1>3, KeptRowsSurvive DEF RowsAreTyped
<1>4. CASE r \notin t
  <2>1. /\ r.feed = f /\ r.guid = item.guid /\ r.content # item.content
        /\ t = (db.items \ {r}) \cup {updated_item(r, item, f)}
    BY <1>2, <1>4
  <2> DEFINE row == updated_item(r, item, f)
  <2>2. r \in Row /\ r.unread \in BOOLEAN
    BY <1>1, RowTypes
  <2>3. /\ row.rowid = r.rowid /\ row.feed = r.feed /\ row.guid = r.guid
        /\ row.important = r.important /\ row.content = item.content
        /\ row.unread = (r.unread \/ cfg.on_change)
    BY <2>2 DEF updated_item, Row
  <2> HIDE DEF row
  <2>4. Same(r, t) = {row}
    <3>1. row \in t /\ t = (db.items \ {r}) \cup {row}
      BY <2>1 DEF row
    <3> HIDE DEF t
    <3> QED BY <1>1, <2>3, <3>1 DEF Same, RowsAreTyped, NumbersAreUnique
  <2>5. MarkSurvives(r, row)
    BY <2>1, <2>2, <2>3 DEF MarkSurvives
  <2> HIDE DEF t
  <2>6. Survives(r, t)
    BY <2>4, <2>5 DEF Survives
  <2> QED BY <2>6 DEF t
<1> QED BY <1>3, <1>4

LEMMA DeletionSurvives ==
    ASSUME ContentsInvariant, DeleteExcessItems, NEW r \in db.items
    PROVE  Survives(r, db'.items)
<1> DEFINE f == job.feed
           t == db'.items
<1>1. /\ RowsAreTyped(db.items) /\ cfg.limit \in Nat
      /\ t = IF cfg.limit > 0 THEN db.items \ Excess(db.items, f) ELSE db.items
  BY TypedTables, StoreAssumption
     DEF ContentsInvariant, ContentsAreTyped, DeleteExcessItems, Write, TablesAreTyped
<1>2. RowsAreTyped(t) /\ t \subseteq db.items
  BY <1>1 DEF RowsAreTyped, NumbersAreUnique
<1> HIDE DEF t
<1>3. CASE r \in t
  <2>1. Survives(r, t)
    BY <1>2, <1>3, KeptRowsSurvive DEF RowsAreTyped
  <2> QED BY <2>1 DEF t
<1>4. CASE r \notin t
  <2>1. cfg.limit > 0 /\ r \in Excess(db.items, f)
    BY <1>1, <1>4
  <2>2. /\ r \in Of(db.items, f) /\ r.feed = f
        /\ Cardinality(NewerOnes(db.items, f, r)) >= cfg.limit
        /\ cfg.limit_unread \/ ~r.unread
        /\ cfg.limit_important \/ ~r.important
    BY <2>1 DEF Excess, NewerOnes, Of
  <2>3. Same(r, t) = {}
    BY <1>1, <1>2, <1>4 DEF Same, RowsAreTyped, NumbersAreUnique
  <2> DEFINE K == Within(db.items, f)
             newest == {s \in Of(t, r.feed) : s.date >= r.date}
  <2>4. Cardinality(K) >= cfg.limit /\ \A x \in K : x.date >= r.date
    BY <1>1, <2>2, LimitIsReached
  <2>5. ASSUME NEW x \in K PROVE x \in newest
    <3>1. x \in Of(db.items, f) /\ Cardinality(NewerOnes(db.items, f, x)) < cfg.limit
      BY DEF Within
    <3>2. NewerOnes(db.items, f, x) \in SUBSET db.items
      BY DEF NewerOnes, Of
    <3>3. Cardinality(NewerOnes(db.items, f, x)) \in Nat
      BY <1>1, <3>2, RowsAreFinite, FS_Subset, FS_CardinalityType
    <3>4. x \notin Excess(db.items, f)
      <4>1. ~(Cardinality(NewerOnes(db.items, f, x)) >= cfg.limit)
        BY <1>1, <3>1, <3>3
      <4> QED BY <4>1 DEF Excess, NewerOnes
    <3> QED BY <1>1, <2>2, <2>4, <3>1, <3>4 DEF Of
  <2>6. newest \in SUBSET db.items /\ K \in SUBSET newest
    BY <1>2, <2>5 DEF Of
  <2>7. IsFiniteSet(newest) /\ Cardinality(newest) \in Nat /\ Cardinality(K) \in Nat
    <3> HIDE DEF newest, K
    <3>1. IsFiniteSet(newest)
      BY <1>1, <2>6, RowsAreFinite, FS_Subset
    <3>2. IsFiniteSet(K)
      BY <2>6, <3>1, FS_Subset
    <3> QED BY <3>1, <3>2, FS_CardinalityType
  <2>8. Cardinality(newest) >= cfg.limit
    <3> HIDE DEF newest, K
    <3>1. Cardinality(K) <= Cardinality(newest)
      BY <2>6, <2>7, FS_Subset
    <3> QED BY <1>1, <2>4, <2>7, <3>1
  <2>9. IsExcess(r, t)
    BY <2>1, <2>2, <2>8 DEF IsExcess
  <2>10. Survives(r, t)
    BY <2>3, <2>9 DEF Survives
  <2> QED BY <2>10 DEF t
<1> QED BY <1>3, <1>4

(* Whatever an update does between its first and its last step, the marks of *)
(* the user stay, no item turns into another one, and what is deleted is     *)
(* over the limit: as many newer items as it allows are still there.         *)
THEOREM UpdatesSpareItems == Spec => ItemsSurvive
<1> DEFINE Spares == job # job' /\ job' # Idle => \A r \in db.items : Survives(r, db'.items)
<1>1. ASSUME ContentsInvariant, [Next]_vars PROVE Spares
  <2>0. NumbersAreUnique(db.items) /\ DOMAIN db = {"feeds", "items", "incomplete"}
    BY <1>1 DEF ContentsInvariant, ContentsAreTyped, TablesAreTyped
  <2>1. CASE db'.items = db.items
    BY <2>0, <2>1, KeptRowsSurvive
  <2>2. CASE UNCHANGED job \/ job' = Idle
    BY <2>2
  <2>3. CASE InsertItemData \/ DeleteExcessItems
    BY <1>1, <2>3, InsertionSurvives, DeletionSurvives
  <2>4. ASSUME NEW f \in Feeds, InsertFeedData(f) \/ UpdateCanceledFeed(f) \/ TakeFailedFeed(f)
        PROVE  Spares
    <3>1. db'.items = db.items
      BY <2>0, <2>4 DEF InsertFeedData, UpdateCanceledFeed, TakeFailedFeed, Write
    <3> QED BY <2>1, <3>1
  <2>5. CASE ItemRefused \/ CountItems \/ StoreCounters \/ RefreshByInserter
    <3>1. db'.items = db.items
      BY <2>0, <2>5 DEF ItemRefused, CountItems, StoreCounters, RefreshByInserter, Write
    <3> QED BY <2>1, <3>1
  <2>6. CASE Writing
    BY <2>2, <2>3, <2>4, <2>5, <2>6 DEF Writing, PurgeAbandoned, MarkFeedsRead, MarkItem, UserEdit,
       Finish, Restart
  <2>7. CASE Leaving
    BY <2>2, <2>4, <2>5, <2>7 DEF Leaving, Download, AutoUpdate, Publish, OpenMenu, CloseMenu,
       SwitchTo, CountMarked, StoreMarked, RefreshByMain, RequestUpdates, Tick
  <2> QED BY <1>1, <2>1, <2>6, <2>7, NextIsStep DEF vars
<1>2. ASSUME ContentsInvariant, [Next]_vars
      PROVE  [job # job' /\ job' # Idle =>
                 \A r \in db.items :
                    LET same == {s \in db'.items : s.rowid = r.rowid}
                    IN  IF same = {} THEN IsExcess(r, db'.items)
                        ELSE \A s \in same : MarkSurvives(r, s)]_vars
  BY <1>1, <1>2 DEF Survives, Same
<1> QED BY <1>2, ContentsInit, ContentsNext, PTL DEF Spec, ItemsSurvive
-----------------------------------------------------------------------------
(* Counters.                                                                 *)
Unread(f) == db_count_items(db, f, TRUE)
Total(f) == db_count_items(db, f, FALSE)

(* The inserter is at the items of the feed, or at its counters; the main    *)
(* thread is at its counter.                                                 *)
Busy(f) == job.pc \in {"items", "count"} /\ job.feed = f
Storing(f) == job.pc = "store" /\ job.feed = f
Marking(f) == main.pc = "store" /\ main.feed = f

(* Somebody is going to count the unread items of the feed.                  *)
WillBeCounted(f) ==
    \/ Top.kind = "items" /\ f \in Top.feeds
    \/ main.pc \in {"count", "store"} /\ f \in main.left
    \/ Busy(f)

(* What was counted last, stored or about to be, is what there is.           *)
TotalIsKnown(f) == (IF Storing(f) THEN job.total ELSE entry[f].total) = Total(f)

UnreadIsKnown(f) ==
    (IF Marking(f) THEN main.unread ELSE IF Storing(f) THEN job.unread ELSE entry[f].unread)
        = Unread(f)

FeedIsKnown(f) ==
    /\ Busy(f) \/ TotalIsKnown(f)
    /\ f \in doubtful \/ WillBeCounted(f) \/ UnreadIsKnown(f)
    /\ Marking(f) /\ Storing(f) => f \in doubtful

(* The main thread or the inserter is going to refresh the statistics.       *)
WillBeRefreshed == Top.kind # "sections" \/ main.pc # "idle" \/ job.pc = "refresh"

StatisticsAreKnown == WillBeRefreshed \/ section = Statistics

(* A feed that the main thread has counted is not counted again.             *)
MarkedOnce == main.pc = "store" => main.feed \notin main.left

CountersInvariant ==
    /\ \A f \in Feeds : FeedIsKnown(f)
    /\ StatisticsAreKnown
    /\ MarkedOnce

(* What the counters are about stays as it is.                               *)
CountsStay(f) == Total(f)' = Total(f) /\ Unread(f)' = Unread(f)

EntryStays(f) == entry'[f].total = entry[f].total /\ entry'[f].unread = entry[f].unread

LEMMA SameRowsSameCounts ==
    ASSUME NEW f, Of(db'.items, f) = Of(db.items, f)
    PROVE  CountsStay(f)
<1>1. \A only_unread : db_count_items(db', f, only_unread) = db_count_items(db, f, only_unread)
  BY CountsOfSameRows
<1>2. Unread(f)' = db_count_items(db', f, TRUE) /\ Total(f)' = db_count_items(db', f, FALSE)
  BY DEF Unread, Total, db_count_items
<1> QED BY <1>1, <1>2 DEF CountsStay, Unread, Total

(* Updates leave the rows of other feeds alone.                              *)
LEMMA OthersKeepRows ==
    ASSUME ContentsInvariant, InsertItemData \/ DeleteExcessItems \/ ItemRefused,
           NEW f, f # job.feed
    PROVE  Of(db'.items, f) = Of(db.items, f)
<1>1. TablesAreTyped(db)
  BY DEF ContentsInvariant, ContentsAreTyped
<1>2. CASE InsertItemData
  <2> DEFINE g == job.feed
             item == Last(job.items)
             t == db'.items
  <2>1. /\ g \in Feeds /\ item \in Item /\ RowsAreTyped(db.items) /\ Unique(db.items)
        /\ entry[g].tried \in 0..MaxTime /\ t = insert_item_data(g, item)
        /\ Duplicates(g, item) = {} => NewRowid <= MaxRow
    BY <1>2, ItemStepIs DEF ContentsInvariant
  <2> HIDE DEF g, item
  <2>2. \/ t = db.items \cup {new_item(item, g)}
        \/ t = db.items
        \/ \E old \in db.items :
             old.feed = g /\ t = (db.items \ {old}) \cup {updated_item(old, item, g)}
    BY <2>1, InsertionIs
  <2>3. new_item(item, g).feed = g
    BY DEF new_item
  <2>4. \A old \in db.items : updated_item(old, item, g).feed = old.feed
    BY <2>1, RowTypes DEF updated_item, Row
  <2>5. Of(t, f) = Of(db.items, f)
    <3> HIDE DEF t
    <3> QED BY <2>2, <2>3, <2>4 DEF Of, g
  <2> QED BY <2>5
<1>3. CASE DeleteExcessItems
  <2>1. db'.items = IF cfg.limit > 0 THEN db.items \ Excess(db.items, job.feed) ELSE db.items
    BY <1>1, <1>3 DEF DeleteExcessItems, Write, TablesAreTyped
  <2> QED BY <2>1 DEF Of, Excess
<1>4. CASE ItemRefused
  BY <1>1, <1>4 DEF ItemRefused, Write, TablesAreTyped
<1> QED BY <1>2, <1>3, <1>4

(* Commands leave the totals alone, and the rows of feeds that they are not  *)
(* about.                                                                    *)
LEMMA CommandsKeepTotals ==
    ASSUME ContentsInvariant, Command, NEW f
    PROVE  Total(f)' = Total(f)
<1>1. TablesAreTyped(db) /\ RowsAreTyped(db.items)
  BY TypedTables DEF ContentsInvariant, ContentsAreTyped
<1>2. PICK new : KeepsKeys(db.items, new) /\ Write([db EXCEPT !.items = Rewritten(db.items, new)])
  BY <1>1, CommandsRewrite DEF RewritingStep
<1>3. db'.items = Rewritten(db.items, new)
  BY <1>1, <1>2 DEF Write, TablesAreTyped
<1>4. Cardinality(Of(db'.items, f)) = Cardinality(Of(db.items, f))
  BY <1>1, <1>2, <1>3, RewritingKeepsTotals
<1> QED BY <1>4 DEF Total, db_count_items

LEMMA MarksOfOthers ==
    ASSUME ContentsInvariant, NEW fs, NEW unread \in BOOLEAN,
           Write([db EXCEPT !.items = Marked(db.items, fs, unread)]), NEW f, f \notin fs
    PROVE  CountsStay(f)
<1>1. RowsAreTyped(db.items) /\ db'.items = Marked(db.items, fs, unread)
  BY TypedTables DEF ContentsInvariant, ContentsAreTyped, Write, TablesAreTyped
<1> DEFINE New(r) == IF r.feed \in fs THEN [r EXCEPT !.unread = unread] ELSE r
<1>2. ASSUME NEW r \in db.items PROVE New(r).feed = r.feed /\ (r.feed \notin fs => New(r) = r)
  BY <1>1, RowTypes DEF Row
<1>3. db'.items = {New(r) : r \in db.items}
  BY <1>1 DEF Marked
<1> HIDE DEF New
<1>4. Of(db'.items, f) = Of(db.items, f)
  BY <1>2, <1>3 DEF Of
<1> QED BY <1>4, SameRowsSameCounts

LEMMA SameStatistics ==
    ASSUME \A f \in Feeds : entry'[f].unread = entry[f].unread /\ entry'[f].errors = entry[f].errors
    PROVE  Statistics' = Statistics
<1>1. [f \in Feeds |-> entry'[f].unread] = [f \in Feeds |-> entry[f].unread]
  OBVIOUS
<1>2. ASSUME NEW s \in Sections
      PROVE  (\E f \in s : entry'[f].errors) <=> (\E f \in s : entry[f].errors)
  BY StoreAssumption
<1> DEFINE errors(s) == \E f \in s : entry[f].errors
<1>3. \A s \in Sections : errors(s)' = errors(s)
  BY <1>2
<1> HIDE DEF errors
<1>4. Statistics = [s \in Sections |->
          [ unread |-> SumFunctionOnSet([f \in Feeds |-> entry[f].unread], s),
            has_errors |-> errors(s) ]]
  BY DEF Statistics, errors
<1>5. Statistics' = [s \in Sections |->
          [ unread |-> SumFunctionOnSet([f \in Feeds |-> entry'[f].unread], s),
            has_errors |-> errors(s)' ]]
  BY DEF Statistics, errors
<1> QED BY <1>1, <1>3, <1>4, <1>5
LEMMA RequestsKeepEntries ==
    ASSUME ContentsInvariant, NEW fs, queue_updates(fs), NEW f \in Feeds
    PROVE  EntryStays(f) /\ entry'[f].errors = entry[f].errors
<1>1. entry[f] \in Entry
  BY DEF ContentsInvariant, ContentsAreTyped
<1> QED BY <1>1 DEF queue_updates, EntryStays, Entry

(* The threads count a feed and store what they counted in any order: what   *)
(* is shown of it is right, will be counted again, or is known to be stale.  *)
LEMMA KnownFeedsNext ==
    ASSUME ContentsInvariant, CountersInvariant, [Next]_vars, NEW f \in Feeds
    PROVE  FeedIsKnown(f)'
<1>0. /\ FeedIsKnown(f) /\ MarkedOnce /\ JobIsTyped /\ MainIsTyped
      /\ entry \in [Feeds -> Entry] /\ entry[f] \in Entry
      /\ TablesAreTyped(db) /\ TablesAreTyped(saved)
  BY DEF CountersInvariant, ContentsInvariant, ContentsAreTyped
<1>1. ASSUME db'.items = db.items PROVE CountsStay(f)
  BY <1>1, SameRowsSameCounts
<1>2. ASSUME CountsStay(f), EntryStays(f), UNCHANGED <<job, main, menus>>,
             f \in doubtful => f \in doubtful'
      PROVE  FeedIsKnown(f)'
  BY <1>0, <1>2 DEF FeedIsKnown, Busy, Storing, Marking, WillBeCounted, TotalIsKnown, UnreadIsKnown,
     CountsStay, EntryStays, Top
<1>3. ASSUME ~Storing(f), ~Storing(f)', Busy(f) => Busy(f)',
             Busy(f)' \/ (CountsStay(f) /\ EntryStays(f)),
             UNCHANGED <<main, menus, doubtful>>
      PROVE  FeedIsKnown(f)'
  <2>1. Marking(f)' = Marking(f) /\ Top' = Top
    BY <1>3 DEF Marking, Top
  <2>2. CASE Busy(f)'
    BY <1>3, <2>2 DEF FeedIsKnown, WillBeCounted
  <2>3. CASE ~Busy(f)' /\ CountsStay(f) /\ EntryStays(f)
    BY <1>0, <1>3, <2>1, <2>3 DEF FeedIsKnown, WillBeCounted, TotalIsKnown, UnreadIsKnown,
       CountsStay, EntryStays
  <2> QED BY <1>3, <2>2, <2>3
(* Steps about something else. *)
<1>4. CASE UNCHANGED vars
  <2>1. CountsStay(f) /\ EntryStays(f)
    BY <1>1, <1>4 DEF vars, EntryStays
  <2> QED BY <1>2, <1>4, <2>1 DEF vars
<1>5. CASE Tick \/ RequestUpdates \/ \E g \in Feeds : Download(g) \/ Publish(g) \/ AutoUpdate(g)
  <2>1. UNCHANGED <<db, job, main, menus, doubtful>>
    BY <1>5 DEF Tick, RequestUpdates, Download, Publish, AutoUpdate
  <2>2. EntryStays(f)
    <3>1. CASE UNCHANGED entry
      BY <3>1 DEF EntryStays
    <3> QED BY <1>5, <3>1, RequestsKeepEntries
            DEF Tick, RequestUpdates, Download, Publish, AutoUpdate
  <2> QED BY <1>1, <1>2, <2>1, <2>2
<1>6. ASSUME NEW g \in Feeds, InsertFeedData(g) \/ UpdateCanceledFeed(g) \/ TakeFailedFeed(g)
      PROVE  FeedIsKnown(f)'
  <2>1. /\ db'.items = db.items /\ UNCHANGED <<entry, main, menus, doubtful>>
        /\ job = Idle /\ job'.pc \in {"items", "count"} /\ job'.feed = g
    BY <1>0, <1>6 DEF InsertFeedData, UpdateCanceledFeed, TakeFailedFeed, Write, Takes, TablesAreTyped
  <2>2. ~Storing(f) /\ ~Storing(f)' /\ ~Busy(f)
    BY <2>1 DEF Storing, Busy, Idle
  <2>3. EntryStays(f)
    BY <2>1 DEF EntryStays
  <2> QED BY <1>1, <1>3, <2>1, <2>2, <2>3
<1>7. CASE InsertItemData \/ ItemRefused \/ DeleteExcessItems
  <2>1. /\ UNCHANGED <<entry, main, menus, doubtful>>
        /\ job.pc = "items" /\ job'.pc \in {"items", "count"} /\ job'.feed = job.feed
    BY <1>0, <1>7 DEF InsertItemData, ItemRefused, DeleteExcessItems, JobIsTyped, Idle
  <2>2. ~Storing(f) /\ ~Storing(f)' /\ Busy(f)' = Busy(f)
    BY <2>1 DEF Storing, Busy
  <2>3. EntryStays(f)
    BY <2>1 DEF EntryStays
  <2>4. ~Busy(f) => CountsStay(f)
    BY <1>7, <2>1, OthersKeepRows, SameRowsSameCounts DEF Busy
  <2> QED BY <1>3, <2>1, <2>2, <2>3, <2>4
<1>8. CASE RefreshByInserter \/ Finish
  <2>1. /\ UNCHANGED <<db, entry, main, menus, doubtful>>
        /\ job.pc \in {"refresh", "finish"} /\ job'.pc \in {"idle", "finish"}
    BY <1>8 DEF RefreshByInserter, Finish, At, Idle
  <2>2. ~Storing(f) /\ ~Storing(f)' /\ ~Busy(f)
    BY <2>1 DEF Storing, Busy
  <2>3. EntryStays(f)
    BY <2>1 DEF EntryStays
  <2> QED BY <1>1, <1>3, <2>1, <2>2, <2>3
(* The inserter counts and stores. *)
<1>9. CASE CountItems
  <2>1. /\ job.pc = "count" /\ job'.pc = "store" /\ job'.feed = job.feed
        /\ job'.unread = Unread(job.feed) /\ job'.total = Total(job.feed)
        /\ doubtful' = Doubt(job.feed)
        /\ UNCHANGED <<db, entry, main, menus>>
    BY <1>9 DEF CountItems, Unread, Total
  <2>2. CountsStay(f) /\ EntryStays(f) /\ Marking(f)' = Marking(f) /\ Top' = Top
    BY <1>1, <2>1 DEF EntryStays, Marking, Top
  <2>3. CASE job.feed = f
    <3>1. Marking(f) => f \in doubtful'
      BY <2>1, <2>3 DEF Doubt, Overlapping, Marking
    <3>2. Storing(f)' /\ job'.unread = Unread(f) /\ job'.total = Total(f)
      BY <2>1, <2>3 DEF Storing
    <3> QED BY <2>2, <3>1, <3>2 DEF FeedIsKnown, TotalIsKnown, UnreadIsKnown, CountsStay
  <2>4. CASE job.feed # f
    <3>1. f \in doubtful' <=> f \in doubtful
      BY <2>1, <2>4 DEF Doubt
    <3>2. ~Storing(f) /\ ~Storing(f)' /\ ~Busy(f) /\ ~Busy(f)'
      BY <2>1, <2>4 DEF Storing, Busy
    <3> QED BY <1>0, <2>1, <2>2, <3>1, <3>2
            DEF FeedIsKnown, WillBeCounted, TotalIsKnown, UnreadIsKnown, CountsStay, EntryStays
  <2> QED BY <2>3, <2>4
<1>10. CASE StoreCounters
  <2>1. /\ job.pc = "store" /\ job'.pc \in {"refresh", "finish"}
        /\ entry' = [entry EXCEPT ![job.feed] = Counted(@)]
        /\ UNCHANGED <<db, main, menus, doubtful>>
    BY <1>10 DEF StoreCounters, At
  <2>2. CountsStay(f) /\ Marking(f)' = Marking(f) /\ Top' = Top /\ ~Storing(f)' /\ ~Busy(f)' /\ ~Busy(f)
    BY <1>1, <2>1 DEF Marking, Top, Storing, Busy
  <2>3. CASE job.feed = f
    <3>1. entry'[f].unread = job.unread /\ entry'[f].total = job.total
      BY <1>0, <2>1, <2>3 DEF Counted, Entry
    <3>2. Storing(f)
      BY <2>1, <2>3 DEF Storing
    <3> QED BY <1>0, <2>1, <2>2, <3>1, <3>2
            DEF FeedIsKnown, WillBeCounted, TotalIsKnown, UnreadIsKnown, CountsStay
  <2>4. CASE job.feed # f
    <3>1. EntryStays(f)
      BY <1>0, <2>1, <2>4 DEF EntryStays
    <3>2. ~Storing(f)
      BY <2>4 DEF Storing
    <3> QED BY <1>0, <2>1, <2>2, <3>1, <3>2
            DEF FeedIsKnown, WillBeCounted, TotalIsKnown, UnreadIsKnown, CountsStay, EntryStays
  <2> QED BY <2>3, <2>4
(* So does the main thread. *)
<1>11. CASE CountMarked
  <2>1. PICK g \in main.left :
          /\ main' = [pc |-> "store", left |-> main.left \ {g}, feed |-> g, unread |-> Unread(g)]
          /\ doubtful' = Doubt(g)
    BY <1>11 DEF CountMarked, Unread
  <2>2. main.pc = "count" /\ UNCHANGED <<db, entry, job, menus>>
    BY <1>11 DEF CountMarked
  <2>3. /\ CountsStay(f) /\ EntryStays(f) /\ Storing(f)' = Storing(f) /\ Busy(f)' = Busy(f)
        /\ Top' = Top /\ ~Marking(f)
    BY <1>1, <2>2 DEF EntryStays, Storing, Busy, Top, Marking
  <2>4. CASE f = g
    <3>1. Marking(f)' /\ main'.unread = Unread(f)
      BY <2>1, <2>4 DEF Marking
    <3>2. Storing(f) => f \in doubtful'
      BY <2>1, <2>4 DEF Doubt, Overlapping, Storing
    <3> QED BY <1>0, <2>2, <2>3, <3>1, <3>2
            DEF FeedIsKnown, TotalIsKnown, UnreadIsKnown, CountsStay, EntryStays
  <2>5. CASE f # g
    <3>1. ~Marking(f)' /\ (f \in main'.left <=> f \in main.left) /\ main'.pc = "store"
      BY <2>1, <2>5 DEF Marking
    <3>2. f \in doubtful' <=> f \in doubtful
      BY <2>1, <2>5 DEF Doubt
    <3> QED BY <1>0, <2>2, <2>3, <3>1, <3>2
            DEF FeedIsKnown, WillBeCounted, TotalIsKnown, UnreadIsKnown, CountsStay, EntryStays
  <2> QED BY <2>4, <2>5
<1>12. CASE StoreMarked
  <2>1. /\ main.pc = "store" /\ main.feed \notin main.left
        /\ entry' = [entry EXCEPT ![main.feed].unread = main.unread]
        /\ main' = IF main.left = {} THEN [pc |-> "refresh"] ELSE [pc |-> "count", left |-> main.left]
        /\ UNCHANGED <<db, job, menus, doubtful>>
    BY <1>0, <1>12 DEF StoreMarked, MarkedOnce
  <2>2. /\ CountsStay(f) /\ Storing(f)' = Storing(f) /\ Busy(f)' = Busy(f) /\ Top' = Top
        /\ ~Marking(f)' /\ (f \in main.left => main'.pc = "count" /\ f \in main'.left)
    BY <1>1, <2>1 DEF Storing, Busy, Top, Marking
  <2>3. entry'[f].total = entry[f].total
    BY <1>0, <2>1 DEF Entry
  <2>4. CASE main.feed = f
    <3>1. entry'[f].unread = main.unread /\ Marking(f)
      BY <1>0, <2>1, <2>4 DEF Marking, Entry
    <3>2. Storing(f) => job'.total = job.total
      BY <2>1
    <3> QED BY <1>0, <2>1, <2>2, <2>3, <2>4, <3>1, <3>2
            DEF FeedIsKnown, WillBeCounted, TotalIsKnown, UnreadIsKnown, CountsStay
  <2>5. CASE main.feed # f
    <3>1. entry'[f].unread = entry[f].unread /\ ~Marking(f)
      BY <1>0, <2>1, <2>5 DEF Marking
    <3> QED BY <1>0, <2>1, <2>2, <2>3, <3>1
            DEF FeedIsKnown, WillBeCounted, TotalIsKnown, UnreadIsKnown, CountsStay
  <2> QED BY <2>4, <2>5
<1>13. CASE RefreshByMain
  <2>1. main.pc = "refresh" /\ main'.pc = "idle" /\ UNCHANGED <<db, entry, job, menus, doubtful>>
    BY <1>13 DEF RefreshByMain
  <2>2. /\ CountsStay(f) /\ EntryStays(f) /\ Storing(f)' = Storing(f) /\ Busy(f)' = Busy(f)
        /\ Top' = Top /\ ~Marking(f) /\ ~Marking(f)'
    BY <1>1, <2>1 DEF EntryStays, Storing, Busy, Top, Marking
  <2> QED BY <1>0, <2>1, <2>2
          DEF FeedIsKnown, WillBeCounted, TotalIsKnown, UnreadIsKnown, CountsStay, EntryStays
<1>14. CASE OpenMenu \/ CloseMenu
  <2>1. /\ main.pc = "idle" /\ job.pc # "store" /\ main'.pc \in {"idle", "refresh"}
        /\ entry' = Recount(Top.feeds) /\ doubtful' = doubtful \ Top.feeds
        /\ UNCHANGED <<db, job>>
    <3>1. PICK stack : SwitchTo(stack)
      BY <1>14 DEF OpenMenu, CloseMenu
    <3> QED BY <3>1 DEF SwitchTo, Waits, InterfaceIsLocked
  <2>2. /\ CountsStay(f) /\ ~Storing(f) /\ ~Storing(f)' /\ Busy(f)' = Busy(f)
        /\ ~Marking(f) /\ ~Marking(f)'
    BY <1>1, <2>1 DEF Storing, Busy, Marking
  <2>3. entry'[f].total = entry[f].total
    BY <1>0, <2>1 DEF Recount, Entry
  <2>4. CASE f \in Top.feeds
    <3>1. entry'[f].unread = Unread(f)
      BY <1>0, <2>1, <2>4 DEF Recount, Entry, Unread
    <3> QED BY <1>0, <2>2, <2>3, <3>1 DEF FeedIsKnown, TotalIsKnown, UnreadIsKnown, CountsStay
  <2>5. CASE f \notin Top.feeds
    <3>1. entry'[f].unread = entry[f].unread /\ (f \in doubtful' <=> f \in doubtful)
      BY <2>1, <2>5 DEF Recount
    <3> QED BY <1>0, <2>1, <2>2, <2>3, <2>5, <3>1
            DEF FeedIsKnown, WillBeCounted, TotalIsKnown, UnreadIsKnown, CountsStay
  <2> QED BY <2>4, <2>5
(* Commands. *)
<1>15. ASSUME NEW fs \in Selectable, NEW status \in BOOLEAN, MarkFeedsRead(fs, status)
       PROVE  FeedIsKnown(f)'
  <2>1. /\ Write([db EXCEPT !.items = Marked(db.items, fs, ~status)])
        /\ main.pc = "idle" /\ main' = [pc |-> "count", left |-> fs]
        /\ UNCHANGED <<job, entry, menus, doubtful>>
    BY <1>15 DEF MarkFeedsRead, Marked, Gives, Waits
  <2>2. /\ Total(f)' = Total(f) /\ EntryStays(f) /\ Storing(f)' = Storing(f)
        /\ Busy(f)' = Busy(f) /\ Top' = Top /\ ~Marking(f) /\ ~Marking(f)'
    <3>1. Command
      BY <1>15 DEF Command
    <3> QED BY <2>1, <3>1, CommandsKeepTotals DEF EntryStays, Storing, Busy, Top, Marking
  <2>3. CASE f \in fs
    BY <1>0, <2>1, <2>2, <2>3 DEF FeedIsKnown, WillBeCounted, TotalIsKnown, EntryStays
  <2>4. CASE f \notin fs
    <3>1. (~status) \in BOOLEAN
      OBVIOUS
    <3>2. CountsStay(f)
      BY <2>1, <2>4, <3>1, MarksOfOthers
    <3> QED BY <1>0, <2>1, <2>2, <3>2
            DEF FeedIsKnown, WillBeCounted, TotalIsKnown, UnreadIsKnown, CountsStay, EntryStays
  <2> QED BY <2>3, <2>4
<1>16. CASE UserEdit
  <2>1. PICK fs \in Selectable :
          /\ Write([db EXCEPT !.items = Marked(db.items, fs, FALSE)])
          /\ doubtful' = doubtful \cup fs
    BY <1>16 DEF UserEdit, Marked
  <2>2. main.pc = "idle" /\ UNCHANGED <<job, entry, menus, main>>
    BY <1>16 DEF UserEdit, Gives, Waits
  <2>3. /\ Total(f)' = Total(f) /\ EntryStays(f) /\ Storing(f)' = Storing(f)
        /\ Busy(f)' = Busy(f) /\ ~Marking(f)'
    BY <1>16, <2>2, CommandsKeepTotals DEF Command, EntryStays, Storing, Busy, Marking
  <2>4. CASE f \in fs
    BY <1>0, <2>1, <2>2, <2>3, <2>4 DEF FeedIsKnown, TotalIsKnown, EntryStays
  <2>5. CASE f \notin fs
    BY <1>2, <2>1, <2>2, <2>3, <2>5, MarksOfOthers
  <2> QED BY <2>4, <2>5
<1>17. CASE MarkItem
  <2>1. /\ Top.kind = "items" /\ main.pc = "idle"
        /\ UNCHANGED <<job, entry, menus, main, doubtful>>
    BY <1>17 DEF MarkItem, Gives, Waits
  <2>2. /\ Total(f)' = Total(f) /\ EntryStays(f) /\ Storing(f)' = Storing(f)
        /\ Busy(f)' = Busy(f) /\ Top' = Top /\ ~Marking(f)'
    BY <1>17, <2>1, CommandsKeepTotals DEF Command, EntryStays, Storing, Busy, Top, Marking
  <2>3. CASE f \in Top.feeds
    BY <1>0, <2>1, <2>2, <2>3 DEF FeedIsKnown, WillBeCounted, TotalIsKnown, EntryStays
  <2>4. CASE f \notin Top.feeds
    <3>1. PICK r \in db.items :
            /\ r.feed \in Top.feeds
            /\ \E new \in {[r EXCEPT !.unread = ~@], [r EXCEPT !.important = ~@]} :
                 Write([db EXCEPT !.items = (@ \ {r}) \cup {new}])
      BY <1>17 DEF MarkItem
    <3>2. PICK new \in {[r EXCEPT !.unread = ~@], [r EXCEPT !.important = ~@]} :
            Write([db EXCEPT !.items = (db.items \ {r}) \cup {new}])
      BY <3>1
    <3>3. new.feed = r.feed
      BY <1>0, <3>2, TypedTables, RowTypes DEF Row
    <3>4. db'.items = (db.items \ {r}) \cup {new}
      BY <1>0, <3>2 DEF Write, TablesAreTyped
    <3>5. Of(db'.items, f) = Of(db.items, f)
      BY <2>4, <3>1, <3>3, <3>4 DEF Of
    <3>6. CountsStay(f)
      BY <3>5, SameRowsSameCounts
    <3> QED BY <1>2, <2>1, <2>2, <3>6
  <2> QED BY <2>3, <2>4
(* The program starts. *)
<1>18. ASSUME entry' = Entries(db'), job' = Idle, main' = [pc |-> "refresh"] PROVE FeedIsKnown(f)'
  <2>1. entry'[f].unread = Unread(f)' /\ entry'[f].total = Total(f)'
    BY <1>18 DEF Entries, Unread, Total
  <2>2. ~Storing(f)' /\ ~Marking(f)'
    BY <1>18 DEF Storing, Marking, Idle
  <2> QED BY <2>1, <2>2 DEF FeedIsKnown, TotalIsKnown, UnreadIsKnown
<1>19. CASE Restart
  <2>1. /\ db' = saved' /\ saved'.items = saved.items /\ saved'.feeds = saved.feeds
        /\ entry' = Entries(saved) /\ job' = Idle /\ main' = [pc |-> "refresh"]
    BY <1>0, <1>19 DEF Restart, TablesAreTyped
  <2>2. entry' = Entries(db')
    BY <2>1 DEF Entries, db_count_items
  <2> QED BY <1>18, <2>1, <2>2
<1>20. ASSUME NEW g \in Feeds, PurgeAbandoned(g) PROVE FeedIsKnown(f)'
  <2>1. entry' = Entries(db') /\ job' = Idle /\ main' = [pc |-> "refresh"]
    BY <1>20 DEF PurgeAbandoned, Entries, db_count_items
  <2> QED BY <1>18, <2>1
<1>21. CASE Writing
  BY <1>6, <1>7, <1>8, <1>15, <1>16, <1>17, <1>19, <1>20, <1>21 DEF Writing
<1>22. CASE Leaving
  BY <1>5, <1>6, <1>8, <1>9, <1>10, <1>11, <1>12, <1>13, <1>14, <1>22 DEF Leaving
<1> QED BY <1>4, <1>21, <1>22, NextIsStep
(* The statistics of the sections are refreshed after each change of what    *)
(* they are made of, before they are shown.                                  *)
LEMMA KnownStatisticsNext ==
    ASSUME ContentsInvariant, CountersInvariant, [Next]_vars
    PROVE  StatisticsAreKnown'
<1>0. StatisticsAreKnown /\ JobIsTyped /\ entry \in [Feeds -> Entry]
  BY DEF CountersInvariant, ContentsInvariant, ContentsAreTyped
<1>1. ASSUME WillBeRefreshed => WillBeRefreshed', UNCHANGED section, Statistics' = Statistics
      PROVE  StatisticsAreKnown'
  BY <1>0, <1>1 DEF StatisticsAreKnown
<1>2. ASSUME UNCHANGED entry PROVE Statistics' = Statistics
  BY <1>2, SameStatistics
<1>3. CASE WillBeRefreshed'
  BY <1>3 DEF StatisticsAreKnown
<1>4. ASSUME section' = Statistics, UNCHANGED entry PROVE StatisticsAreKnown'
  BY <1>2, <1>4 DEF StatisticsAreKnown
<1>5. ASSUME UNCHANGED <<entry, section, menus, main>>, job.pc # "refresh" \/ UNCHANGED job
      PROVE  StatisticsAreKnown'
  <2>1. WillBeRefreshed => WillBeRefreshed'
    BY <1>5 DEF WillBeRefreshed, Top
  <2> QED BY <1>1, <1>2, <1>5, <2>1
<1>6. CASE UNCHANGED vars
  BY <1>5, <1>6 DEF vars
<1>7. CASE RequestUpdates \/ \E f \in Feeds : AutoUpdate(f)
  <2>1. UNCHANGED <<section, menus, main, job>> /\ \E fs : queue_updates(fs)
    BY <1>7 DEF RequestUpdates, AutoUpdate
  <2>2. Statistics' = Statistics
    <3>1. \A f \in Feeds : entry'[f].unread = entry[f].unread /\ entry'[f].errors = entry[f].errors
      BY <2>1, RequestsKeepEntries DEF EntryStays
    <3> QED BY <3>1, SameStatistics
  <2>3. WillBeRefreshed => WillBeRefreshed'
    BY <2>1 DEF WillBeRefreshed, Top
  <2> QED BY <1>1, <2>1, <2>2, <2>3
<1>8. CASE StoreCounters
  <2>1. CASE NeedRedraw(entry[job.feed])
    <3>1. job'.pc = "refresh"
      BY <1>8, <2>1 DEF StoreCounters, At
    <3> QED BY <1>3, <3>1 DEF WillBeRefreshed
  <2>2. CASE ~NeedRedraw(entry[job.feed])
    <3>1. Counted(entry[job.feed]) = entry[job.feed] /\ entry' = [entry EXCEPT ![job.feed] = Counted(@)]
      BY <1>8, <2>2 DEF StoreCounters, NeedRedraw
    <3>2. UNCHANGED entry
      BY <1>0, <3>1
    <3> QED BY <1>5, <1>8, <3>2 DEF StoreCounters
  <2> QED BY <2>1, <2>2
<1>9. CASE RefreshByInserter \/ RefreshByMain
  BY <1>4, <1>9 DEF RefreshByInserter, RefreshByMain
<1>10. CASE OpenMenu \/ CloseMenu
  <2>1. PICK stack : SwitchTo(stack)
    BY <1>10 DEF OpenMenu, CloseMenu
  <2>2. /\ main' = [pc |-> IF Last(stack).kind = "sections" THEN "refresh" ELSE "idle"]
        /\ menus' = stack
    BY <2>1 DEF SwitchTo
  <2>3. WillBeRefreshed'
    BY <2>2 DEF WillBeRefreshed, Top
  <2> QED BY <1>3, <2>3
<1>11. CASE main'.pc # "idle"
  BY <1>3, <1>11 DEF WillBeRefreshed
<1>12. CASE CountMarked \/ StoreMarked
  <2>1. CountMarked => main'.pc = "store"
    BY DEF CountMarked
  <2>2. StoreMarked => main'.pc \in {"refresh", "count"}
    BY DEF StoreMarked
  <2> QED BY <1>11, <1>12, <2>1, <2>2
<1>13. ASSUME NEW fs, NEW status, MarkFeedsRead(fs, status) PROVE StatisticsAreKnown'
  BY <1>11, <1>13 DEF MarkFeedsRead
<1>14. CASE Restart \/ \E f \in Feeds : PurgeAbandoned(f)
  <2>1. main' = [pc |-> "refresh"]
    BY <1>14 DEF Restart, PurgeAbandoned
  <2> QED BY <1>11, <2>1
<1>15. ASSUME NEW f \in Feeds, InsertFeedData(f) \/ UpdateCanceledFeed(f) \/ TakeFailedFeed(f)
       PROVE  StatisticsAreKnown'
  BY <1>5, <1>15 DEF InsertFeedData, UpdateCanceledFeed, TakeFailedFeed, Takes, Idle
<1>16. CASE Writing
  BY <1>5, <1>13, <1>14, <1>15, <1>16 DEF Writing, InsertItemData, ItemRefused, DeleteExcessItems,
     MarkItem, UserEdit, Finish
<1>17. CASE Leaving
  BY <1>5, <1>7, <1>8, <1>9, <1>10, <1>12, <1>15, <1>17 DEF Leaving, Download, Publish, CountItems, Tick
<1> QED BY <1>6, <1>16, <1>17, NextIsStep

LEMMA MarkedOnceNext ==
    ASSUME ContentsInvariant, CountersInvariant, [Next]_vars
    PROVE  MarkedOnce'
<1>0. MarkedOnce
  BY DEF CountersInvariant
<1>1. CASE UNCHANGED main
  BY <1>0, <1>1 DEF MarkedOnce
<1>2. CASE main'.pc # "store"
  BY <1>2 DEF MarkedOnce
<1>3. CASE CountMarked
  <2>1. PICK g \in main.left :
          main' = [pc |-> "store", left |-> main.left \ {g}, feed |-> g,
                   unread |-> db_count_items(db, g, TRUE)]
    BY <1>3 DEF CountMarked
  <2> QED BY <2>1 DEF MarkedOnce
<1>4. CASE OpenMenu \/ CloseMenu
  <2>1. PICK stack : SwitchTo(stack)
    BY <1>4 DEF OpenMenu, CloseMenu
  <2>2. main'.pc \in {"idle", "refresh"}
    BY <2>1 DEF SwitchTo
  <2> QED BY <1>2, <2>2
<1>5. CASE StoreMarked \/ RefreshByMain \/ Restart \/ \E f \in Feeds : PurgeAbandoned(f)
  <2>1. main'.pc \in {"count", "refresh", "idle"}
    <3>1. StoreMarked => main'.pc \in {"refresh", "count"}
      BY DEF StoreMarked
    <3>2. RefreshByMain => main'.pc = "idle"
      BY DEF RefreshByMain
    <3>3. Restart \/ (\E f \in Feeds : PurgeAbandoned(f)) => main' = [pc |-> "refresh"]
      BY DEF Restart, PurgeAbandoned
    <3> QED BY <1>5, <3>1, <3>2, <3>3
  <2> QED BY <1>2, <2>1
<1>6. ASSUME NEW fs, NEW status, MarkFeedsRead(fs, status) PROVE MarkedOnce'
  BY <1>2, <1>6 DEF MarkFeedsRead
<1>7. CASE Writing
  BY <1>1, <1>5, <1>6, <1>7 DEF Writing, InsertFeedData, UpdateCanceledFeed, InsertItemData,
     ItemRefused, DeleteExcessItems, MarkItem, UserEdit, Finish
<1>8. CASE Leaving
  BY <1>1, <1>3, <1>4, <1>5, <1>8 DEF Leaving, Download, TakeFailedFeed, AutoUpdate, Publish, CountItems,
     StoreCounters, RefreshByInserter, RequestUpdates, Tick
<1> QED BY <1>1, <1>7, <1>8, NextIsStep DEF vars

LEMMA CountersInit == Init => CountersInvariant
<1> SUFFICES ASSUME Init PROVE CountersInvariant
  OBVIOUS
<1>1. ASSUME NEW f \in Feeds PROVE FeedIsKnown(f)
  <2>1. entry[f].unread = Unread(f) /\ entry[f].total = Total(f)
    BY DEF Init, Entries, Unread, Total
  <2>2. ~Storing(f) /\ ~Marking(f)
    BY DEF Init, Storing, Marking, Idle
  <2> QED BY <2>1, <2>2 DEF FeedIsKnown, TotalIsKnown, UnreadIsKnown
<1>2. StatisticsAreKnown /\ MarkedOnce
  BY DEF Init, StatisticsAreKnown, WillBeRefreshed, MarkedOnce
<1> QED BY <1>1, <1>2 DEF CountersInvariant

LEMMA CountersNext == ContentsInvariant /\ CountersInvariant /\ [Next]_vars => CountersInvariant'
BY KnownFeedsNext, KnownStatisticsNext, MarkedOnceNext DEF CountersInvariant

(* What the menus show of feeds and sections agrees with the rows and adds   *)
(* up, whatever both threads count and store in any order.                   *)
THEOREM CountersAgreeWithRows == Spec => []CountersAreSound
<1>1. ASSUME ContentsInvariant, CountersInvariant PROVE CountersAgree
  <2> SUFFICES ASSUME Waits, Top.kind # "items", NEW f \in Feeds \ doubtful, ~JobOn(f)
               PROVE  entry[f].unread = Unread(f) /\ entry[f].total = Total(f)
    BY DEF CountersAgree, Unread, Total
  <2>1. ~Busy(f) /\ ~Storing(f) /\ ~Marking(f) /\ main.pc = "idle"
    BY DEF Waits, JobOn, Busy, Storing, Marking, Idle
  <2>2. FeedIsKnown(f) /\ f \notin doubtful
    BY <1>1 DEF CountersInvariant
  <2> QED BY <2>1, <2>2 DEF FeedIsKnown, WillBeCounted, TotalIsKnown, UnreadIsKnown
<1>2. ASSUME CountersInvariant PROVE SectionsAddUp
  BY <1>2 DEF CountersInvariant, StatisticsAreKnown, WillBeRefreshed, SectionsAddUp, Waits
<1>3. ContentsInvariant /\ CountersInvariant => CountersAreSound
  BY <1>1, <1>2, ContentsAreOfType DEF CountersAreSound
<1> QED BY <1>3, ContentsInit, ContentsNext, CountersInit, CountersNext, PTL DEF Spec
-----------------------------------------------------------------------------
(* Tags that are stored.                                                     *)
Served(f) == UNION {Range(Documents[f][v].items) : v \in DOMAIN Documents[f]}

(* Rows are what a server had at some time.                                  *)
RowsAreServed(items) ==
    \A r \in items : \E x \in Served(r.feed) :
        x.guid = r.guid /\ x.content = r.content /\ x.date = r.date

IsStored(items, f, item) == \E r \in Of(items, f) : r.guid = item.guid /\ r.content = item.content

AsNew(items, f, date) == {r \in Of(items, f) : r.date >= date}

IsKept(items, f, item) ==
    IsStored(items, f, item) \/ (cfg.limit > 0 /\ Cardinality(AsNew(items, f, item.date)) >= cfg.limit)

(* The feed whose items are not all stored yet.                              *)
InProgress == IF job.pc = "items" THEN {job.feed} ELSE {}

AreWhole(d, fs) == \A f \in Feeds : f \in fs \/ f \in d.incomplete \/ IsWhole(d, f)

(* The inserter is at a document whose tag it has stored, the last of whose  *)
(* items it has stored, and the first of whose items are left.               *)
IsRest(items, doc) == /\ items \in Seq(Item) /\ Len(items) <= Len(doc.items)
                      /\ \A i \in DOMAIN items : items[i] = doc.items[i]

IsInsertion(v) ==
    LET doc == Documents[job.feed][v]
    IN  /\ db.feeds[job.feed].etag = doc.etag
        /\ IsRest(job.items, doc)
        /\ \A i \in DOMAIN doc.items \ DOMAIN job.items : IsStored(db.items, job.feed, doc.items[i])

JobIsInsertion == job.pc = "items" => \E v \in DOMAIN Documents[job.feed] : IsInsertion(v)

ValidatorInvariant ==
    /\ RowsAreServed(db.items) /\ RowsAreServed(saved.items)
    /\ job # Idle => job.feed \in DOMAIN queue
    /\ JobIsInsertion
    /\ AreWhole(db, InProgress)
    /\ cfg.batch => AreWhole(saved, {})
    /\ ~cfg.batch => saved = db

(* What is stored of a document.                                             *)
LEMMA WholeIs ==
    ASSUME NEW d, NEW f
    PROVE  IsWhole(d, f) <=>
             \A v \in DOMAIN Documents[f] :
                d.feeds[f].etag # 0 /\ d.feeds[f].etag = Documents[f][v].etag =>
                   \A i \in DOMAIN Documents[f][v].items : IsKept(d.items, f, Documents[f][v].items[i])
BY DEF IsWhole, IsKept, IsStored, AsNew

LEMMA SameRowsStayWhole ==
    ASSUME NEW d, NEW e, NEW f, Of(e.items, f) = Of(d.items, f),
           e.feeds[f].etag = d.feeds[f].etag, IsWhole(d, f)
    PROVE  IsWhole(e, f)
<1>1. \A item : IsKept(d.items, f, item) <=> IsKept(e.items, f, item)
  BY DEF IsKept, IsStored, AsNew
<1> QED BY <1>1, WholeIs

LEMMA RewrittenStayStored ==
    ASSUME NEW items, RowsAreTyped(items), NEW new, KeepsKeys(items, new), KeepsContents(items, new),
           NEW f, NEW item
    PROVE  /\ IsStored(items, f, item) => IsStored(Rewritten(items, new), f, item)
           /\ IsKept(items, f, item) => IsKept(Rewritten(items, new), f, item)
<1> DEFINE t == Rewritten(items, new)
<1>1. ASSUME IsStored(items, f, item) PROVE IsStored(t, f, item)
  <2>1. PICK r \in items : r.feed = f /\ r.guid = item.guid /\ r.content = item.content
    BY <1>1 DEF IsStored, Of
  <2>2. new[r] \in t /\ new[r].feed = f /\ new[r].guid = item.guid /\ new[r].content = item.content
    BY <2>1 DEF Rewritten, KeepsKeys, KeepsContents
  <2> QED BY <2>2 DEF IsStored, Of
<1>2. Cardinality(AsNew(t, f, item.date)) = Cardinality(AsNew(items, f, item.date))
  <2>1. AsNew(t, f, item.date) = {new[r] : r \in AsNew(items, f, item.date)}
    BY DEF AsNew, Of, Rewritten, KeepsKeys, KeepsContents
  <2>2. AsNew(items, f, item.date) \in SUBSET items
    BY DEF AsNew, Of
  <2> QED BY <2>1, <2>2, RewritingIsBijective
<1> QED BY <1>1, <1>2 DEF IsKept

LEMMA RewrittenStayWhole ==
    ASSUME NEW d, RowsAreTyped(d.items), NEW new, KeepsKeys(d.items, new), KeepsContents(d.items, new),
           NEW e, e.items = Rewritten(d.items, new), NEW f, e.feeds[f].etag = d.feeds[f].etag,
           IsWhole(d, f)
    PROVE  IsWhole(e, f)
<1>1. \A item : IsKept(d.items, f, item) => IsKept(e.items, f, item)
  BY RewrittenStayStored
<1> QED BY <1>1, WholeIs

LEMMA RewrittenAreServed ==
    ASSUME NEW items, NEW new, KeepsKeys(items, new), KeepsContents(items, new), RowsAreServed(items)
    PROVE  RowsAreServed(Rewritten(items, new))
BY DEF RowsAreServed, Rewritten, KeepsKeys, KeepsContents

(* An item that is inserted is stored, and takes nothing from the others.    *)
LEMMA InsertionStores ==
    ASSUME RowsAreTyped(db.items), NEW f, NEW item
    PROVE  /\ IsStored(insert_item_data(f, item), f, item)
           /\ \A other : other.guid # item.guid /\ IsStored(db.items, f, other) =>
                 IsStored(insert_item_data(f, item), f, other)
<1> DEFINE same == {r \in Duplicates(f, item) : r.content = item.content}
           old  == Duplicates(f, item) \ same
           t == insert_item_data(f, item)
<1>1. \A r \in Duplicates(f, item) : r \in db.items /\ r.feed = f /\ r.guid = item.guid
  BY DEF Duplicates, Of
<1>2. CASE same # {}
  <2>1. t = db.items
    BY <1>2 DEF insert_item_data
  <2> QED BY <1>1, <1>2, <2>1 DEF IsStored, Of
<1>3. CASE same = {} /\ old = {}
  <2>1. t = db.items \cup {new_item(item, f)}
    BY <1>3 DEF insert_item_data
  <2>2. /\ new_item(item, f).feed = f /\ new_item(item, f).guid = item.guid
        /\ new_item(item, f).content = item.content
    BY DEF new_item
  <2> QED BY <2>1, <2>2 DEF IsStored, Of
<1>4. CASE same = {} /\ old # {}
  <2>1. t = (db.items \ old) \cup {updated_item(r, item, f) : r \in old}
    BY <1>4 DEF insert_item_data
  <2>2. ASSUME NEW r \in old
        PROVE  /\ updated_item(r, item, f).feed = f /\ updated_item(r, item, f).guid = item.guid
               /\ updated_item(r, item, f).content = item.content
    BY <1>1, RowTypes DEF updated_item, Row
  <2>3. PICK r \in old : TRUE
    BY <1>4
  <2>4. IsStored(t, f, item)
    <3>1. updated_item(r, item, f) \in t
      BY <2>1
    <3> QED BY <2>2, <3>1 DEF IsStored, Of
  <2>5. ASSUME NEW other, other.guid # item.guid, IsStored(db.items, f, other)
        PROVE  IsStored(t, f, other)
    BY <1>1, <2>1, <2>5 DEF IsStored, Of
  <2> QED BY <2>4, <2>5
<1> QED BY <1>2, <1>3, <1>4

LEMMA InsertionIsServed ==
    ASSUME RowsAreTyped(db.items), RowsAreServed(db.items), NEW f, NEW item \in Served(f)
    PROVE  RowsAreServed(insert_item_data(f, item))
<1> DEFINE t == insert_item_data(f, item)
           Is(r) == r.feed = f /\ r.guid = item.guid /\ r.content = item.content /\ r.date = item.date
<1>1. Is(new_item(item, f))
  BY DEF new_item
<1>2. ASSUME NEW r \in Duplicates(f, item) PROVE Is(updated_item(r, item, f))
  BY RowTypes DEF updated_item, Row, Duplicates, Of
<1>3. \A r \in t : r \in db.items \/ Is(r)
  BY <1>1, <1>2 DEF insert_item_data
<1> HIDE DEF t
<1>4. RowsAreServed(t)
  BY <1>3 DEF RowsAreServed
<1> QED BY <1>4 DEF t

LEMMA PartsAreServed ==
    ASSUME NEW items, RowsAreServed(items), NEW part \in SUBSET items
    PROVE  RowsAreServed(part)
BY DEF RowsAreServed

(* What is deleted of a document leaves it whole up to the limit.            *)
LEMMA DeletionLeavesWhole ==
    ASSUME ServersAreConsistent, ContentsInvariant, ValidatorInvariant, DeleteExcessItems
    PROVE  IsWhole(db', job.feed)
<1> DEFINE f == job.feed
           t == db'.items
<1>1. /\ job.pc = "items" /\ job.items = <<>> /\ f \in Feeds /\ RowsAreTyped(db.items)
      /\ db'.feeds = db.feeds /\ t \subseteq db.items
  BY JobHas, TypedTables
     DEF DeleteExcessItems, ContentsInvariant, ContentsAreTyped, Write, TablesAreTyped
<1>2. PICK v \in DOMAIN Documents[f] : IsInsertion(v)
  BY <1>1 DEF ValidatorInvariant, JobIsInsertion
<1>3. /\ db.feeds[f].etag = Documents[f][v].etag
      /\ \A i \in DOMAIN Documents[f][v].items : IsStored(db.items, f, Documents[f][v].items[i])
  BY <1>1, <1>2 DEF IsInsertion
<1>4. ASSUME NEW item \in Served(f), IsStored(db.items, f, item) PROVE IsKept(t, f, item)
  <2>1. PICK r \in db.items : r.feed = f /\ r.guid = item.guid /\ r.content = item.content
    BY <1>4 DEF IsStored, Of
  <2>2. Survives(r, t)
    BY DeletionSurvives
  <2>3. CASE Same(r, t) = {}
    <3>1. cfg.limit > 0 /\ Cardinality(AsNew(t, f, r.date)) >= cfg.limit
      BY <2>1, <2>2, <2>3 DEF Survives, IsExcess, AsNew
    <3>2. PICK x \in Served(f) : x.guid = r.guid /\ x.content = r.content /\ x.date = r.date
      BY <2>1 DEF ValidatorInvariant, RowsAreServed
    <3>3. x.date = item.date
      BY <1>1, <1>4, <2>1, <3>2 DEF ServersAreConsistent, Served
    <3> QED BY <3>1, <3>2, <3>3 DEF IsKept
  <2>4. CASE Same(r, t) # {}
    <3>1. r \in t
      BY <1>1, <2>4 DEF Same, RowsAreTyped, NumbersAreUnique
    <3> QED BY <2>1, <3>1 DEF IsKept, IsStored, Of
  <2> QED BY <2>3, <2>4
<1>5. ASSUME NEW w \in DOMAIN Documents[f], db.feeds[f].etag # 0,
             db.feeds[f].etag = Documents[f][w].etag, NEW i \in DOMAIN Documents[f][w].items
      PROVE  IsKept(t, f, Documents[f][w].items[i])
  <2>0. \A x, y \in DOMAIN Documents[f] :
            Documents[f][x].etag # 0 /\ Documents[f][x].etag = Documents[f][y].etag =>
                Documents[f][x].items = Documents[f][y].items
    BY <1>1 DEF ServersAreConsistent
  <2>1. Documents[f][v].items = Documents[f][w].items
    BY <1>2, <1>3, <1>5, <2>0
  <2>2. Documents[f][w].items[i] \in Served(f)
    BY DEF Served, Range
  <2> QED BY <1>3, <1>4, <1>5, <2>1, <2>2
<1>6. IsWhole(db', f)
  BY <1>1, <1>5, WholeIs
<1> QED BY <1>6
(* Statements are committed at once, or when all updates are finished.       *)
LEMMA WritesKeepWhole ==
    ASSUME ValidatorInvariant, UNCHANGED cfg, NEW d, Write(d), RowsAreServed(d.items),
           AreWhole(d, InProgress'), InProgress' # {} => queue # <<>>,
           JobIsInsertion', (job # Idle => job.feed \in DOMAIN queue)'
    PROVE  ValidatorInvariant'
<1>1. db' = d /\ saved' = (IF cfg.batch /\ queue # <<>> THEN saved ELSE d)
  BY DEF Write
<1>2. RowsAreServed(db'.items) /\ RowsAreServed(saved'.items)
  BY <1>1 DEF ValidatorInvariant
<1>3. cfg.batch => AreWhole(saved', {})
  BY <1>1 DEF ValidatorInvariant
<1>4. ~cfg.batch => saved' = db'
  BY <1>1
<1>5. AreWhole(db', InProgress')
  BY <1>1
<1>6. \A d1, fs : AreWhole(d1, fs)' <=> AreWhole(d1, fs)
  BY DEF AreWhole, IsWhole
<1>7. AreWhole(db, InProgress)' /\ (cfg.batch => AreWhole(saved, {}))'
  BY <1>3, <1>5, <1>6
<1> QED BY <1>2, <1>4, <1>7 DEF ValidatorInvariant, RowsAreServed

LEMMA QueuedNext ==
    ASSUME ContentsInvariant, ValidatorInvariant, [Next]_vars
    PROVE  (job # Idle => job.feed \in DOMAIN queue)'
<1>0. job # Idle => job.feed \in DOMAIN queue
  BY DEF ValidatorInvariant
<1>1. CASE UNCHANGED <<job, queue>>
  BY <1>0, <1>1
<1>2. CASE job' = Idle
  BY <1>2
<1>3. ASSUME NEW f, Takes(f, {"downloaded"}) \/ Takes(f, {"skipped", "not_modified"}) \/ Takes(f, {"failed"}),
             job'.feed = f, UNCHANGED queue
      PROVE  job'.feed \in DOMAIN queue'
  BY <1>3 DEF Takes
<1>4. ASSUME NEW f, InsertFeedData(f) \/ UpdateCanceledFeed(f) \/ TakeFailedFeed(f)
      PROVE  job'.feed \in DOMAIN queue'
  <2>1. f \in DOMAIN queue /\ UNCHANGED queue /\ job'.feed = f
    BY <1>4 DEF InsertFeedData, UpdateCanceledFeed, TakeFailedFeed, Takes
  <2> QED BY <2>1
<1>5. ASSUME job # Idle, job'.feed = job.feed, UNCHANGED queue PROVE job'.feed \in DOMAIN queue'
  BY <1>0, <1>5
<1>6. ASSUME InsertItemData \/ ItemRefused \/ DeleteExcessItems \/ CountItems
             \/ StoreCounters \/ RefreshByInserter
      PROVE  job'.feed = job.feed /\ UNCHANGED queue /\ job # Idle
  <2>1. CASE InsertItemData \/ ItemRefused \/ DeleteExcessItems
    BY <2>1 DEF InsertItemData, ItemRefused, DeleteExcessItems, ContentsInvariant, ContentsAreTyped,
       JobIsTyped, Idle
  <2>2. CASE CountItems
    BY <2>2 DEF CountItems, Idle
  <2>3. CASE StoreCounters
    BY <2>3 DEF StoreCounters, At, Idle
  <2>4. CASE RefreshByInserter
    BY <2>4 DEF RefreshByInserter, At, Idle
  <2> QED BY <1>6, <2>1, <2>2, <2>3, <2>4
<1>7. ASSUME UNCHANGED job, NEW fs, queue_updates(fs)
      PROVE  (job # Idle => job.feed \in DOMAIN queue)'
  BY <1>0, <1>7 DEF queue_updates
<1>8. ASSUME NEW f, Download(f) PROVE (job # Idle => job.feed \in DOMAIN queue)'
  BY <1>0, <1>8 DEF Download
<1>9. CASE Writing
  BY <1>1, <1>2, <1>4, <1>5, <1>6, <1>9 DEF Writing, PurgeAbandoned, MarkFeedsRead, MarkItem, UserEdit,
     Finish, Restart
<1>10. CASE Leaving
  BY <1>1, <1>4, <1>5, <1>6, <1>7, <1>8, <1>10 DEF Leaving, AutoUpdate, Publish, OpenMenu, CloseMenu,
     SwitchTo, CountMarked, StoreMarked, RefreshByMain, RequestUpdates, Tick
<1> QED BY <1>1, <1>9, <1>10, NextIsStep DEF vars

(* A document whose insertion has begun.                                     *)
LEMMA InsertionBegins ==
    ASSUME ContentsInvariant, ValidatorInvariant, NEW f \in Feeds, InsertFeedData(f)
    PROVE  /\ RowsAreServed(db'.items) /\ AreWhole(db', InProgress') /\ InProgress' = {f}
           /\ JobIsInsertion' /\ queue # <<>>
<1> DEFINE v == queue[f].version
           doc == Documents[f][v]
<1>1. /\ f \in DOMAIN queue /\ queue[f].state = "downloaded" /\ job = Idle
      /\ job' = [pc |-> "items", feed |-> f, failed |-> FALSE, items |-> doc.items]
      /\ Write([db EXCEPT !.feeds[f] = insert_feed_data(f, queue[f])])
  BY DEF InsertFeedData, Takes
<1>2. v \in DOMAIN Documents[f]
  BY <1>1 DEF ContentsInvariant, FreshInvariant, QueueIsKnown, ReplyIsKnown
<1>3. /\ db'.items = db.items /\ db'.incomplete = db.incomplete
      /\ db'.feeds[f].etag = doc.etag
      /\ \A g \in Feeds \ {f} : db'.feeds[g] = db.feeds[g]
  BY <1>1 DEF Write, ContentsInvariant, ContentsAreTyped, TablesAreTyped, insert_feed_data
<1>4. doc.items \in Seq(Item)
  BY <1>2, DocumentHas
<1> HIDE DEF v
<1>5. JobIsInsertion'
  <2>1. job'.feed = f /\ job'.items = doc.items
    BY <1>1
  <2>2. IsRest(doc.items, doc)
    BY <1>4 DEF IsRest
  <2>3. db'.feeds[job'.feed].etag = Documents[job'.feed][v].etag
    BY <1>3, <2>1
  <2>4. IsRest(job'.items, Documents[job'.feed][v])
    BY <2>1, <2>2
  <2>5. DOMAIN Documents[job'.feed][v].items \ DOMAIN job'.items = {}
    BY <2>1
  <2> QED BY <1>2, <2>1, <2>3, <2>4, <2>5 DEF JobIsInsertion, IsInsertion, IsRest
<1>6. InProgress' = {f} /\ InProgress = {}
  BY <1>1 DEF InProgress, Idle
<1>7. ASSUME NEW g \in Feeds \ {f} PROVE g \in db'.incomplete \/ IsWhole(db', g)
  <2>1. g \in db.incomplete \/ IsWhole(db, g)
    BY <1>6 DEF ValidatorInvariant, AreWhole
  <2> QED BY <1>3, <2>1, SameRowsStayWhole
<1>8. AreWhole(db', InProgress')
  BY <1>6, <1>7 DEF AreWhole
<1>9. queue # <<>>
  BY <1>1, DOMAIN <<>> = {}
<1> QED BY <1>3, <1>5, <1>6, <1>8, <1>9 DEF ValidatorInvariant

(* One of its items that is stored.                                          *)
LEMMA InsertionGoesOn ==
    ASSUME ServersAreConsistent, ContentsInvariant, ValidatorInvariant, InsertItemData
    PROVE  /\ RowsAreServed(db'.items) /\ AreWhole(db', InProgress') /\ JobIsInsertion'
<1> DEFINE f == job.feed
           item == Last(job.items)
           rest == Front(job.items)
<1>1. /\ f \in Feeds /\ job.items \in Seq(Item) /\ job.items # <<>> /\ RowsAreTyped(db.items)
      /\ Unique(db.items) /\ item \in Item /\ entry[f].tried \in 0..MaxTime
      /\ Duplicates(f, item) = {} => NewRowid <= MaxRow
      /\ db'.items = insert_item_data(f, item)
  BY ItemStepIs DEF ContentsInvariant
<1>2. /\ job.pc = "items" /\ job'.pc = "items" /\ job'.feed = f /\ job'.items = rest
      /\ db'.feeds = db.feeds /\ db'.incomplete = db.incomplete
  BY DEF InsertItemData, ContentsInvariant, ContentsAreTyped, JobIsTyped, Idle, Write, TablesAreTyped
<1>3. PICK v \in DOMAIN Documents[f] : IsInsertion(v)
  BY <1>2 DEF ValidatorInvariant, JobIsInsertion
<1> DEFINE doc == Documents[f][v]
           n == Len(job.items)
<1>4. /\ db.feeds[f].etag = doc.etag /\ IsRest(job.items, doc)
      /\ \A i \in DOMAIN doc.items \ DOMAIN job.items : IsStored(db.items, f, doc.items[i])
  BY <1>3 DEF IsInsertion
<1>5. doc.items \in Seq(Item)
  BY <1>1, DocumentHas
<1>6. /\ rest \in Seq(Item) /\ DOMAIN rest = DOMAIN job.items \ {n}
      /\ \A i \in DOMAIN rest : rest[i] = job.items[i]
  BY <1>1, ItemsBeforeTheLast
<1>7. /\ item = doc.items[n] /\ n \in DOMAIN doc.items /\ n \in DOMAIN job.items
      /\ Len(rest) <= Len(doc.items)
  <2>1. n \in Nat \ {0} /\ n <= Len(doc.items) /\ item = job.items[n] /\ DOMAIN job.items = 1..n
    BY <1>1, <1>4 DEF IsRest, Last
  <2>2. Len(rest) = n - 1
    BY <2>1 DEF Front
  <2> QED BY <1>4, <1>5, <2>1, <2>2 DEF IsRest
<1>8. item \in Served(f)
  BY <1>7 DEF Served, Range
<1> HIDE DEF item, rest, n
<1>9. RowsAreServed(db'.items)
  BY <1>1, <1>8, InsertionIsServed DEF ValidatorInvariant
<1>10. ASSUME NEW i \in DOMAIN doc.items \ DOMAIN rest PROVE IsStored(db'.items, f, doc.items[i])
  <2>1. CASE i = n
    BY <1>1, <1>7, <2>1, InsertionStores
  <2>2. CASE i # n
    <3>1. IsStored(db.items, f, doc.items[i])
      BY <1>4, <1>6, <2>2
    <3>2. doc.items[i].guid # item.guid
      BY <1>1, <1>7, <2>2 DEF ServersAreConsistent
    <3> QED BY <1>1, <3>1, <3>2, InsertionStores
  <2> QED BY <2>1, <2>2
<1>11. JobIsInsertion'
  <2>1. IsRest(rest, doc)
    BY <1>4, <1>6, <1>7 DEF IsRest
  <2>2. /\ db'.feeds[job'.feed].etag = Documents[job'.feed][v].etag
        /\ IsRest(job'.items, Documents[job'.feed][v])
        /\ \A i \in DOMAIN Documents[job'.feed][v].items \ DOMAIN job'.items :
              IsStored(db'.items, job'.feed, Documents[job'.feed][v].items[i])
        /\ v \in DOMAIN Documents[job'.feed]
    BY <1>2, <1>4, <1>10, <2>1
  <2> QED BY <2>2 DEF JobIsInsertion, IsInsertion, IsRest, IsStored, Of
<1>12. InProgress = {f} /\ InProgress' = {f}
  BY <1>2 DEF InProgress
<1>13. ASSUME NEW g \in Feeds \ {f} PROVE g \in db'.incomplete \/ IsWhole(db', g)
  <2>1. g \in db.incomplete \/ IsWhole(db, g)
    BY <1>12 DEF ValidatorInvariant, AreWhole
  <2>2. Of(db'.items, g) = Of(db.items, g)
    BY OthersKeepRows
  <2> QED BY <1>2, <2>1, <2>2, SameRowsStayWhole
<1>14. AreWhole(db', InProgress')
  BY <1>12, <1>13 DEF AreWhole
<1> QED BY <1>9, <1>11, <1>14

(* Every other write.                                                        *)
LEMMA OtherWrites ==
    ASSUME ServersAreConsistent, ContentsInvariant, ValidatorInvariant,
           \/ \E f \in Feeds : UpdateCanceledFeed(f) \/ PurgeAbandoned(f)
           \/ ItemRefused \/ DeleteExcessItems
    PROVE  RowsAreServed(db'.items) /\ AreWhole(db', {}) /\ InProgress' = {} /\ JobIsInsertion'
<1>0. /\ TablesAreTyped(db) /\ JobIsTyped /\ RowsAreServed(db.items)
      /\ \A f \in Feeds : f \in InProgress \/ f \in db.incomplete \/ IsWhole(db, f)
  BY DEF ContentsInvariant, ContentsAreTyped, ValidatorInvariant, AreWhole
<1>1. job'.pc # "items" => InProgress' = {} /\ JobIsInsertion'
  BY DEF InProgress, JobIsInsertion
<1>2. ASSUME NEW f \in Feeds, UpdateCanceledFeed(f)
      PROVE  RowsAreServed(db'.items) /\ AreWhole(db', {}) /\ job'.pc # "items"
  <2>1. /\ db'.items = db.items /\ db'.incomplete = db.incomplete /\ job = Idle /\ job'.pc = "count"
        /\ \A g \in Feeds : db'.feeds[g].etag = db.feeds[g].etag
    BY <1>0, <1>2 DEF UpdateCanceledFeed, Takes, Write, TablesAreTyped, FeedRow, canceled_feed
  <2>2. InProgress = {}
    BY <2>1 DEF InProgress, Idle
  <2>3. \A g \in Feeds : IsWhole(db, g) => IsWhole(db', g)
    BY <2>1, SameRowsStayWhole
  <2> QED BY <1>0, <2>1, <2>2, <2>3 DEF AreWhole
<1>3. ASSUME NEW f \in Feeds, PurgeAbandoned(f)
      PROVE  RowsAreServed(db'.items) /\ AreWhole(db', {}) /\ job'.pc # "items"
  <2>1. /\ db'.items = db.items \ Of(db.items, f) /\ db'.incomplete = db.incomplete \cup {f}
        /\ job = Idle /\ job' = Idle /\ db'.feeds = db.feeds
    BY <1>0, <1>3 DEF PurgeAbandoned, Write, TablesAreTyped
  <2>2. InProgress = {} /\ job'.pc # "items"
    BY <2>1 DEF InProgress, Idle
  <2>3. ASSUME NEW g \in Feeds \ {f}, IsWhole(db, g) PROVE IsWhole(db', g)
    <3>1. Of(db'.items, g) = Of(db.items, g)
      BY <2>1 DEF Of
    <3> QED BY <2>1, <2>3, <3>1, SameRowsStayWhole
  <2>4. RowsAreServed(db'.items)
    BY <1>0, <2>1, PartsAreServed
  <2> QED BY <1>0, <2>1, <2>2, <2>3, <2>4 DEF AreWhole
<1>4. CASE ItemRefused \/ DeleteExcessItems
  <2> DEFINE f == job.feed
  <2>1. /\ db'.items \in SUBSET db.items /\ db'.feeds = db.feeds
        /\ \A g \in Feeds \ {f} : g \in db.incomplete => g \in db'.incomplete
        /\ job.pc = "items" /\ job'.pc = "count"
    <3>1. CASE ItemRefused
      BY <1>0, <3>1 DEF ItemRefused, Write, TablesAreTyped
    <3>2. CASE DeleteExcessItems
      <4>1. db'.items = db.items \/ db'.items = db.items \ Excess(db.items, f)
        BY <1>0, <3>2 DEF DeleteExcessItems, Write, TablesAreTyped
      <4>2. db'.incomplete = db.incomplete \ {f}
        BY <1>0, <3>2 DEF DeleteExcessItems, Write, TablesAreTyped
      <4>3. db'.feeds = db.feeds /\ job.pc = "items" /\ job'.pc = "count"
        BY <1>0, <3>2 DEF DeleteExcessItems, Write, TablesAreTyped
      <4> HIDE DEF f
      <4> QED BY <4>1, <4>2, <4>3
    <3> QED BY <1>4, <3>1, <3>2
  <2>2. InProgress = {f}
    BY <2>1 DEF InProgress
  <2>3. ASSUME NEW g \in Feeds \ {f}, IsWhole(db, g) PROVE IsWhole(db', g)
    <3>1. Of(db'.items, g) = Of(db.items, g)
      BY <1>4, OthersKeepRows
    <3> QED BY <2>1, <2>3, <3>1, SameRowsStayWhole
  <2>4. f \in db'.incomplete \/ IsWhole(db', f)
    <3>1. CASE ItemRefused
      BY <1>0, <3>1 DEF ItemRefused, Write, TablesAreTyped
    <3>2. CASE DeleteExcessItems
      BY <3>2, DeletionLeavesWhole
    <3> QED BY <1>4, <3>1, <3>2
  <2>5. AreWhole(db', {})
    BY <1>0, <2>1, <2>2, <2>3, <2>4 DEF AreWhole
  <2>6. RowsAreServed(db'.items)
    BY <1>0, <2>1, PartsAreServed
  <2> QED BY <1>1, <2>1, <2>5, <2>6
<1> QED BY <1>1, <1>2, <1>3, <1>4

LEMMA ValidatorInit == Init => ValidatorInvariant
<1> SUFFICES ASSUME Init PROVE ValidatorInvariant
  OBVIOUS
<1>1. /\ db.items = {} /\ saved = db /\ db.feeds = [f \in Feeds |-> NoRow] /\ job = Idle
  BY DEF Init
<1>2. \A f \in Feeds : IsWhole(db, f)
  BY <1>1 DEF IsWhole, NoRow
<1>3. job.pc # "items"
  BY <1>1 DEF Idle
<1> QED BY <1>1, <1>2, <1>3 DEF ValidatorInvariant, RowsAreServed, JobIsInsertion, AreWhole

(* Steps that write nothing.                                                 *)
LEMMA ReadingKeepsWhole ==
    ASSUME ValidatorInvariant, UNCHANGED <<cfg, db, saved>>,
           UNCHANGED job \/ (job.pc # "items" /\ job'.pc # "items"),
           (job # Idle => job.feed \in DOMAIN queue)'
    PROVE  ValidatorInvariant'
<1>1. InProgress' = InProgress
  BY DEF InProgress
<1>2. \A fs : (AreWhole(db, fs)' <=> AreWhole(db, fs)) /\ (AreWhole(saved, fs)' <=> AreWhole(saved, fs))
  BY DEF AreWhole, IsWhole
<1>3. AreWhole(db, InProgress)' /\ (cfg.batch => AreWhole(saved, {}))'
  BY <1>1, <1>2 DEF ValidatorInvariant
<1>4. JobIsInsertion'
  <2>1. CASE UNCHANGED job
    BY <2>1 DEF ValidatorInvariant, JobIsInsertion, IsInsertion, IsRest, IsStored, Of
  <2>2. CASE job'.pc # "items"
    BY <2>2 DEF JobIsInsertion
  <2> QED BY <2>1, <2>2
<1> QED BY <1>3, <1>4 DEF ValidatorInvariant, RowsAreServed

LEMMA ValidatorNext ==
    ASSUME ServersAreConsistent, ContentsInvariant, ValidatorInvariant, [Next]_vars
    PROVE  ValidatorInvariant'
<1>0. /\ UNCHANGED cfg /\ (job # Idle => job.feed \in DOMAIN queue)'
      /\ TablesAreTyped(db) /\ RowsAreTyped(db.items) /\ JobIsTyped
      /\ RowsAreServed(db.items) /\ RowsAreServed(saved.items)
      /\ AreWhole(db, InProgress) /\ (cfg.batch => AreWhole(saved, {}))
      /\ (~cfg.batch => saved = db) /\ JobIsInsertion
  BY SettingsStay, QueuedNext, TypedTables DEF ContentsInvariant, ContentsAreTyped, ValidatorInvariant
<1>1. ASSUME NEW d, Write(d), RowsAreServed(db'.items), AreWhole(db', InProgress'),
             InProgress' # {} => queue # <<>>, JobIsInsertion'
      PROVE  ValidatorInvariant'
  <2>1. d = db'
    BY <1>1 DEF Write
  <2> QED BY <1>0, <1>1, <2>1, WritesKeepWhole
<1>2. ASSUME NEW f \in Feeds, InsertFeedData(f) PROVE ValidatorInvariant'
  <2>1. PICK d : Write(d)
    BY <1>2 DEF InsertFeedData
  <2> QED BY <1>1, <1>2, <2>1, InsertionBegins
<1>3. CASE InsertItemData
  <2>1. PICK d : Write(d)
    BY <1>3 DEF InsertItemData
  <2>2. job # Idle
    BY <1>0, <1>3 DEF InsertItemData, Idle
  <2>3. queue # <<>>
    <3>1. job.feed \in DOMAIN queue
      BY <2>2 DEF ValidatorInvariant
    <3> QED BY <3>1, DOMAIN <<>> = {}
  <2> QED BY <1>1, <1>3, <2>1, <2>3, InsertionGoesOn
<1>4. ASSUME \/ \E f \in Feeds : UpdateCanceledFeed(f) \/ PurgeAbandoned(f)
             \/ ItemRefused \/ DeleteExcessItems
      PROVE  ValidatorInvariant'
  <2>1. PICK d : Write(d)
    BY <1>4 DEF UpdateCanceledFeed, PurgeAbandoned, ItemRefused, DeleteExcessItems
  <2>2. RowsAreServed(db'.items) /\ AreWhole(db', {}) /\ InProgress' = {} /\ JobIsInsertion'
    BY <1>4, OtherWrites
  <2> QED BY <1>1, <2>1, <2>2
<1>5. CASE Command
  <2>1. PICK new : /\ KeepsKeys(db.items, new) /\ KeepsContents(db.items, new)
                   /\ Write([db EXCEPT !.items = Rewritten(db.items, new)])
    BY <1>0, <1>5, CommandsRewrite DEF RewritingStep
  <2>2. db'.items = Rewritten(db.items, new) /\ db'.feeds = db.feeds /\ db'.incomplete = db.incomplete
    BY <1>0, <2>1 DEF Write, TablesAreTyped
  <2>3. RowsAreServed(db'.items)
    BY <1>0, <2>1, <2>2, RewrittenAreServed
  <2>4. \A f \in Feeds : IsWhole(db, f) => IsWhole(db', f)
    BY <1>0, <2>1, <2>2, RewrittenStayWhole
  <2>5. UNCHANGED <<job, queue>>
    BY <1>5 DEF Command, MarkFeedsRead, MarkItem, UserEdit
  <2>6. InProgress' = InProgress /\ (InProgress # {} => job.pc = "items")
    BY <2>5 DEF InProgress
  <2>7. AreWhole(db', InProgress')
    BY <1>0, <2>2, <2>4, <2>6 DEF AreWhole
  <2>8. InProgress' # {} => queue # <<>>
    <3>1. job.pc = "items" => job # Idle
      BY DEF Idle
    <3>2. job # Idle => queue # <<>>
      BY DOMAIN <<>> = {} DEF ValidatorInvariant
    <3> QED BY <2>6, <3>1, <3>2
  <2>9. JobIsInsertion'
    <3> SUFFICES ASSUME job.pc = "items" PROVE JobIsInsertion'
      BY <2>5 DEF JobIsInsertion
    <3>1. PICK v \in DOMAIN Documents[job.feed] : IsInsertion(v)
      BY <1>0 DEF JobIsInsertion
    <3>2. \A item : IsStored(db.items, job.feed, item) => IsStored(db'.items, job.feed, item)
      BY <1>0, <2>1, <2>2, RewrittenStayStored
    <3>3. IsInsertion(v)'
      BY <2>2, <2>5, <3>1, <3>2 DEF IsInsertion, IsStored, IsRest, Of
    <3> QED BY <2>5, <3>1, <3>3 DEF JobIsInsertion
  <2> QED BY <1>1, <2>1, <2>3, <2>7, <2>8, <2>9
<1>6. CASE Finish
  <2>1. /\ job.pc = "finish" /\ job' = Idle /\ db' = db /\ saved' \in {saved, db}
    BY <1>6 DEF Finish
  <2>2. InProgress = {} /\ InProgress' = {} /\ JobIsInsertion'
    BY <2>1 DEF InProgress, JobIsInsertion, Idle
  <2>3. \A d, fs : AreWhole(d, fs)' <=> AreWhole(d, fs)
    BY <1>0 DEF AreWhole, IsWhole
  <2>4. AreWhole(db', {}) /\ (cfg.batch => AreWhole(saved', {}))
    BY <1>0, <2>1, <2>2
  <2>5. AreWhole(db, InProgress)' /\ (cfg.batch => AreWhole(saved, {}))'
    BY <1>0, <2>2, <2>3, <2>4
  <2>6. RowsAreServed(db.items)' /\ RowsAreServed(saved.items)'
    BY <1>0, <2>1 DEF RowsAreServed
  <2> QED BY <1>0, <2>1, <2>2, <2>5, <2>6 DEF ValidatorInvariant
<1>7. CASE Restart
  <2>1. /\ job' = Idle /\ db' = saved'
        /\ saved' = IF job.pc = "items" /\ ~cfg.batch
                    THEN [saved EXCEPT !.incomplete = @ \cup {job.feed}] ELSE saved
    BY <1>7 DEF Restart
  <2>2. InProgress' = {} /\ JobIsInsertion'
    BY <2>1 DEF InProgress, JobIsInsertion, Idle
  <2>3. AreWhole(saved', {})
    <3>1. CASE cfg.batch
      BY <1>0, <2>1, <3>1
    <3>2. CASE ~cfg.batch /\ job.pc # "items"
      BY <1>0, <2>1, <3>2 DEF InProgress
    <3>3. CASE ~cfg.batch /\ job.pc = "items"
      <4>1. /\ saved'.items = db.items /\ saved'.feeds = db.feeds
            /\ saved'.incomplete = db.incomplete \cup {job.feed}
        BY <1>0, <2>1, <3>3 DEF TablesAreTyped
      <4>2. \A f \in Feeds : IsWhole(db, f) => IsWhole(saved', f)
        BY <4>1, SameRowsStayWhole
      <4>3. InProgress = {job.feed}
        BY <3>3 DEF InProgress
      <4> QED BY <1>0, <4>1, <4>2, <4>3 DEF AreWhole
    <3> QED BY <3>1, <3>2, <3>3
  <2>4. \A d, fs : AreWhole(d, fs)' <=> AreWhole(d, fs)
    BY <1>0 DEF AreWhole, IsWhole
  <2>5. AreWhole(db, InProgress)' /\ (cfg.batch => AreWhole(saved, {}))'
    BY <2>1, <2>2, <2>3, <2>4
  <2>6. saved'.items = saved.items
    BY <1>0, <2>1 DEF ContentsInvariant, ContentsAreTyped, TablesAreTyped
  <2>7. RowsAreServed(db.items)' /\ RowsAreServed(saved.items)'
    BY <1>0, <2>1, <2>6 DEF RowsAreServed
  <2> QED BY <1>0, <2>1, <2>2, <2>5, <2>7 DEF ValidatorInvariant
<1>8. CASE Writing
  BY <1>2, <1>3, <1>4, <1>5, <1>6, <1>7, <1>8 DEF Writing, Command
<1>9. ASSUME UNCHANGED <<db, saved>>, UNCHANGED job \/ (job.pc # "items" /\ job'.pc # "items")
      PROVE  ValidatorInvariant'
  BY <1>0, <1>9, ReadingKeepsWhole
<1>10. CASE Leaving
  <2>1. UNCHANGED <<db, saved>>
    BY <1>10 DEF Leaving, Download, TakeFailedFeed, AutoUpdate, Publish, CountItems, StoreCounters,
       RefreshByInserter, OpenMenu, CloseMenu, SwitchTo, CountMarked, StoreMarked, RefreshByMain,
       RequestUpdates, Tick
  <2>2. CountItems \/ StoreCounters \/ RefreshByInserter \/ (\E f \in Feeds : TakeFailedFeed(f)) =>
           job.pc # "items" /\ job'.pc # "items"
    <3>1. CountItems => job.pc # "items" /\ job'.pc # "items"
      BY DEF CountItems
    <3>2. StoreCounters => job.pc # "items" /\ job'.pc # "items"
      BY DEF StoreCounters, At
    <3>3. RefreshByInserter => job.pc # "items" /\ job'.pc # "items"
      BY DEF RefreshByInserter, At
    <3>4. ASSUME NEW f, TakeFailedFeed(f) PROVE job.pc # "items" /\ job'.pc # "items"
      BY <3>4 DEF TakeFailedFeed, Takes, Idle
    <3> QED BY <3>1, <3>2, <3>3, <3>4
  <2>3. UNCHANGED job \/ (job.pc # "items" /\ job'.pc # "items")
    BY <1>10, <2>2 DEF Leaving, Download, AutoUpdate, Publish, OpenMenu, CloseMenu, SwitchTo, CountMarked,
       StoreMarked, RefreshByMain, RequestUpdates, Tick
  <2> QED BY <1>9, <2>1, <2>3
<1> QED BY <1>8, <1>9, <1>10, NextIsStep DEF vars

(* The items of a document whose tag is stored are stored, so that asking    *)
(* the server for changes only misses none, whatever was interrupted: for    *)
(* servers that use tags for what they are for.                              *)
THEOREM TagsMeanStored == ServersAreConsistent => (Spec => []ValidatorMeansStored)
<1> SUFFICES ASSUME ServersAreConsistent PROVE Spec => []ValidatorMeansStored
  OBVIOUS
<1>1. ASSUME ContentsInvariant, ValidatorInvariant PROVE ValidatorMeansStored
  <2> SUFFICES ASSUME NEW f \in Feeds
               PROVE  /\ JobOn(f) \/ f \in db.incomplete \/ IsWhole(db, f)
                      /\ cfg.batch => f \in saved.incomplete \/ IsWhole(saved, f)
    BY DEF ValidatorMeansStored
  <2>1. f \in InProgress => JobOn(f)
    BY DEF InProgress, JobOn, Idle
  <2> QED BY <1>1, <2>1 DEF ValidatorInvariant, AreWhole
<1>2. ContentsInvariant /\ ValidatorInvariant /\ [Next]_vars => ValidatorInvariant'
  BY ValidatorNext
<1>3. ContentsInvariant /\ ValidatorInvariant => ValidatorMeansStored
  BY <1>1
<1> QED BY <1>2, <1>3, ContentsInit, ContentsNext, ValidatorInit, PTL DEF Spec

==============================================================================
