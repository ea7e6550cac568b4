---------------------------- MODULE MCFeedParser ----------------------------
(* Grammars of small documents: names allowed on each level, how many       *)
(* elements or rows, how much visible text, and what noise is in it.        *)
EXTENDS FeedParser

Xml(levels, size, texts, noise) ==
  [levels |-> levels, size |-> size, texts |-> texts, noise |-> noise, rows |-> {}]

Json(rows, size) ==
  [levels |-> <<>>, size |-> size, texts |-> 0, noise |-> {}, rows |-> rows]

RssLeaves  == {"title", "link", "guid", "rbc:full-text", "description", "category",
               "pubDate", "author", "comments", "source", "enclosure", "dc:title",
               "dc:creator", "dc:contributor", "georss:point", "media:player",
               "media:peerLink", "media:description", "dc:date"}
AtomLeaves == {"atom:title", "atom:id", "atom:link", "atom:content", "atom:category",
               "atom:updated", "atom:published"}

\* Any two leaves of an item.
Leaves == << Xml(<<{"channel"}, {"item"}, RssLeaves>>, 4, 2, {Delimiter}),
            Xml(<<{"atom:feed"}, {"atom:entry"}, AtomLeaves \cup {"media:content"}>>, 4, 2, {}) >>

\* Items among leaves of the feed.
Feeds == << Xml(<<{"channel"}, {"item", "title", "link", "ttl", "managingEditor",
                             "dc:creator", "generator"}, {"title"}>>, 4, 2, {}),
           Xml(<<{"atom:feed"}, {"atom:entry", "atom:subtitle", "atom:author"},
                 {"atom:updated", "atom:name"}>>, 5, 2, {}),
           Xml(<<{"rdf:RDF"}, {"channel", "rss1:item"}, {"rss1:title", "rss1:item"}>>, 6, 2, {}) >>

\* Persons, also of the source of an entry.
Persons == Xml(<<{"atom:feed"}, {"atom:entry"}, {"atom:author", "atom:contributor", "unknown"},
                   {"atom:name", "atom:email", "atom:uri", "atom:author"}, {"atom:name"}>>,
                 6, 2, {})

\* Content with markup or a date in it, and what follows it.
Contents == Xml(<<{"atom:feed"}, {"atom:entry"}, {"atom:content", "atom:title"},
                    {"xhtml", "dc:date", "dc:description"}, {"xhtml"}>>, 6, 2, {Space})

\* Groups of media.
Media == Xml(<<{"channel"}, {"item"}, {"media:content", "unknown", "description"},
                 {"media:description", "media:content"}>>, 5, 2, {})

JsonRow(place, item, index, key) ==
  [place |-> place, item |-> item, index |-> index, key |-> key]

Rows == { JsonRow("feed", -1, -1, k) : k \in {"title", "description"} }
   \cup { JsonRow("feed_authors", -1, i, "name") : i \in 0..1 }
   \cup { JsonRow("item", i, -1, k) : i \in 0..1, k \in {"id", "content_html", "external_url", "0"} }
   \cup { JsonRow("authors", i, j, k) : i \in 0..1, j \in 0..1, k \in {"name", "url"} }
   \cup { JsonRow("attachments", i, j, k) : i \in 0..1, j \in 0..1, k \in {"url", "mime_type"} }

MoreRows == { JsonRow("item", 0, -1, k) : k \in {"url", "title", "summary", "date_published",
                                               "date_modified", "tags"} }
       \cup { JsonRow("feed", -1, -1, "home_page_url") }
       \cup { JsonRow("attachments", 0, 0, k) : k \in {"size_in_bytes", "duration_in_seconds"} }

MCGrammars == Leaves \o Feeds \o <<Persons, Contents, Media, Json(Rows, 4), Json(MoreRows, 2)>>
=============================================================================
