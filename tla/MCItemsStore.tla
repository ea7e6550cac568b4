---------------------------- MODULE MCItemsStore ----------------------------
(* Small instances of ItemsStore for TLC. *)
EXTENDS ItemsStore

Item(guid, content, date) == [guid |-> guid, content |-> content, date |-> date]
Doc(etag, ttl, life, items) == [etag |-> etag, ttl |-> ttl, life |-> life, items |-> items]

\* The second document of f1 changes an item, has a new one and comes without a
\* tag; then the first one is there again.  f2 has an item of the same name.
MCDocuments ==
    ("f1" :> << Doc(1, 0, 0, <<Item(1, 1, 1), Item(2, 1, 2)>>),
               Doc(0, 0, 0, <<Item(3, 1, 3), Item(1, 2, 1)>>),
               Doc(1, 0, 0, <<Item(1, 1, 1), Item(2, 1, 2)>>) >>) @@
    ("f2" :> << Doc(0, 2, 0, <<Item(1, 2, 1)>>), Doc(2, 0, 1, <<Item(1, 2, 1)>>) >>)

Config == [ batch |-> TRUE, limit |-> 0, limit_unread |-> TRUE, limit_important |-> FALSE,
            respect_expires |-> TRUE, respect_ttl |-> TRUE, on_arrival |-> FALSE,
            on_change |-> FALSE, period |-> 0, failures |-> FALSE, crashes |-> FALSE,
            purges |-> FALSE, commands |-> {"update"}, unwanted |-> {}, documents |-> 3, until |-> 2 ]

\* Both threads at the counters; crashes, refusals and purges; limits of items
\* and marks; expiry.
Counting == [Config EXCEPT !.commands = {"update", "open_section", "mark_feeds"},
                           !.unwanted = {{"f1"}, {"f2"}}, !.documents = 1, !.until = 1]
Editing  == [Config EXCEPT !.commands = {"update", "open_section", "open_feed", "edit"},
                           !.documents = 1, !.until = 1]
Losing   == [Config EXCEPT !.crashes = TRUE, !.failures = TRUE, !.purges = TRUE,
                           !.documents = 2, !.until = 1]
Limiting == [Config EXCEPT !.commands = {"update", "explore", "mark_important"}, !.limit = 1,
                           !.unwanted = {{"f2"}, Feeds}, !.documents = 2, !.until = 1]
Expiring == [Config EXCEPT !.period = 1, !.documents = 2, !.until = 3]

MCConfigs == { Counting, Editing, Losing, [Losing EXCEPT !.batch = FALSE, !.purges = FALSE],
               Limiting, [Limiting EXCEPT !.commands = {"update", "explore", "mark_read"},
                                  !.limit_unread = FALSE, !.on_change = TRUE],
               Expiring }

\* What the theorem about stored tags expects of servers is so here.
ASSUME MCServers == ServersAreConsistent
=============================================================================
