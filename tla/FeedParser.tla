----------------------------- MODULE FeedParser -----------------------------
(***************************************************************************)
(* Parsing of one downloaded feed: parse_xml/, parse_json/ and the choice  *)
(* between them in downloader.c.                                           *)
(*                                                                         *)
(* data is the part of struct feed_update_state that the parsers use.  The *)
(* document is generated while it is parsed, by actions that stand for the *)
(* callbacks of expat and for the rows of json_tree: each element, and     *)
(* each row, has a number, its place in document, and a piece of text is   *)
(* the number of the element or row it was written in.                     *)
(***************************************************************************)
EXTENDS Serialized, FiniteSets

CONSTANTS Grammars,    \* a sequence of what a document may be made of
          PathSize     \* elements of the array path (256 in the code)

ASSUME ParserAssumption ==
  /\ PathSize \in Nat \ {0, 1}
  /\ \A k \in DOMAIN Grammars :
       /\ Grammars[k].levels \in Seq(SUBSET STRING)
       /\ Grammars[k].noise \subseteq {Space, Delimiter}
       /\ \A row \in Grammars[k].rows :
            /\ row \in [place : {"feed", "feed_authors", "item", "authors", "attachments"},
                       item : Int, index : Int, key : STRING]
            /\ IF row.place \in {"feed", "feed_authors"} THEN row.item = -1 ELSE row.item >= 0
            /\ row.place \notin {"feed", "item"} => row.index >= 0

VARIABLES data,        \* struct feed_update_state
          kind,        \* the one chosen
          document,    \* elements or rows met so far
          open,        \* numbers of the elements that are open, innermost last
          written,     \* pieces of visible text met so far, in their order
          state        \* "idle", "xml", "json", "finished"

grammar == Grammars[kind]

vars == <<data, kind, document, open, written, state>>
-----------------------------------------------------------------------------
(* The table of known elements (gperf-data.c).  Names that lead to the same *)
(* position and handlers are grouped.                                       *)

ItemElements    == {"item", "rss1:item", "atom:entry"}
FeedElements    == {"channel", "Channel", "atom:feed", "rdf:RDF"}
PersonElements  == {"atom:author", "atom:contributor"}
TitleElements   == {"title", "rss1:title", "atom:title"}
LinkElements    == {"link", "rss1:link"}
GuidElements    == {"guid", "atom:id"}
PlainElements   == {"rbc:full-text", "dc:description"}
HtmlElements    == {"description", "rss1:description", "content:encoded",
                    "turbo:content", "yandex:full-text"}
SubjectElements == {"category", "dc:subject"}
UpdateElements  == {"atom:updated", "dc:date"}
AtomTexts       == {"atom:content", "atom:summary"}
PlayerElements  == {"media:player", "media:embed"}
PointElements   == {"georss:point", "gml:pos"}
DatumElements   == {"atom:name", "atom:uri", "atom:email"}

Position(name) ==
  CASE name \in ItemElements    -> "GENERIC_ITEM"
    [] name \in FeedElements    -> "GENERIC_FEED"
    [] name \in PersonElements  -> "ATOM_AUTHOR"
    [] name = "media:content"   -> "MEDIARSS_CONTENT"
    [] OTHER                    -> "XML_UNKNOWN_POS"
-----------------------------------------------------------------------------
(* Where a handler writes: to the newest item or to the feed, decided by   *)
(* the parent element (At) or by in_item (Within).                         *)

At(d) == CASE d.path[d.depth] = "GENERIC_ITEM" -> "item"
           [] d.path[d.depth] = "GENERIC_FEED" -> "feed"
           [] OTHER -> "none"

Within(d) == IF d.in_item THEN "item" ELSE "feed"

Get(d, where, field) ==
  IF where = "item" THEN d.items[1][field] ELSE d.feed[field]

Put(d, where, field, value) ==
  CASE where = "item" -> [d EXCEPT !.items[1][field] = value]
    [] where = "feed" -> [d EXCEPT !.feed[field] = value]
    [] OTHER -> d

\* Fields added to the last entry of a list, and a new entry with them.
More(d, where, field, fields) ==
  IF where = "none" THEN d
  ELSE Put(d, where, field, serialize_fields(Get(d, where, field), fields))

Entry(d, where, field, fields) ==
  IF where = "none" THEN d
  ELSE Put(d, where, field,
           serialize_fields(serialize_caret(Get(d, where, field)), fields))

\* Falls back to the URL of an attachment when an item has no link yet.
LinkFallback(d, url) ==
  IF d.items[1].link = <<>> THEN Put(d, "item", "link", url) ELSE d

NoItem == [guid |-> <<>>, guid_is_link |-> FALSE, title |-> <<>>,
           link |-> <<>>, content |-> <<>>, attachments |-> <<>>,
           persons |-> <<>>, extras |-> <<>>, publication_date |-> <<>>,
           update_date |-> <<>>]

NoFeed == [title |-> <<>>, link |-> <<>>, content |-> <<>>,
           attachments |-> <<>>, persons |-> <<>>, extras |-> <<>>,
           time_to_live |-> 0]

prepend_item(d) == [d EXCEPT !.items = <<NoItem>> \o @]

Attr(attrs, key) == IF key \in DOMAIN attrs THEN attrs[key] ELSE <<>>

\* parse_date: a date is known by its text, none is 0 in the code.
parse_date(text) == text

trim_whitespace(text) ==
  LET solid == {i \in DOMAIN text : text[i] # Space}
  IN  IF solid = {} THEN <<>>
      ELSE SubSeq(text, CHOOSE i \in solid : \A j \in solid : i <= j,
                        CHOOSE i \in solid : \A j \in solid : j <= i)
-----------------------------------------------------------------------------
(* Handlers of start tags.  d.path[d.depth] is the parent of the element.   *)

generic_item_starter(d) == [prepend_item(d) EXCEPT !.in_item = TRUE]

rss_guid_start(d, attrs) ==
  IF At(d) # "item" THEN d
  ELSE Put(d, "item", "guid_is_link",
           "isPermaLink" \notin DOMAIN attrs
             \/ attrs["isPermaLink"] = <<Word.true>>)

rss_enclosure_start(d, attrs) ==
  IF At(d) # "item" \/ Attr(attrs, "url") = <<>> THEN d
  ELSE LinkFallback(
         Entry(d, "item", "attachments",
               << <<Key.url, attrs["url"]>>,
                  <<Key.type, Attr(attrs, "type")>>,
                  <<Key.size, Attr(attrs, "length")>> >>),
         attrs["url"])

rss_source_start(d, attrs) ==
  IF At(d) # "item" \/ Attr(attrs, "url") = <<>> THEN d
  ELSE Entry(d, "item", "attachments",
             << <<Key.url, attrs["url"]>>,
                <<Key.content, <<Word.source>>>> >>)

atom_link_start(d, attrs) ==
  LET href == Attr(attrs, "href")
      rel  == Attr(attrs, "rel")
  IN  CASE href = <<>> \/ rel = <<Word.self>> -> d
        [] href # <<>> /\ ("rel" \notin DOMAIN attrs \/ rel = <<Word.alternate>>)
             -> Put(d, At(d), "link", href)
        [] OTHER ->
             IF At(d) # "item" THEN d
             ELSE LinkFallback(
                    Entry(d, "item", "attachments",
                          << <<Key.url, href>>,
                             <<Key.type, Attr(attrs, "type")>>,
                             <<Key.size, Attr(attrs, "length")>> >>),
                    href)

\* From here to its end tag, XHTML content is collected with its markup.
atom_content_start(d, attrs) ==
  IF At(d) # "item" THEN d
  ELSE LET e == Entry(d, "item", "content", << <<Key.type, Attr(attrs, "type")>> >>)
       IN  IF Attr(attrs, "type") = <<Word.xhtml>>
           THEN [e EXCEPT !.decoy = TRUE, !.text = <<>>] ELSE e

atom_subtitle_start(d, attrs) ==
  IF At(d) # "feed" THEN d
  ELSE Entry(d, "feed", "content", << <<Key.type, Attr(attrs, "type")>> >>)

(* Mutant: a person is no entry of its own. *)
PersonWithoutCaret(d, type) ==
  More(d, At(d), "persons", << <<Key.type, <<type>>>> >>)

person_start(d, type) ==
  Entry(d, At(d), "persons", << <<Key.type, <<type>>>> >>)

atom_category_start(d, attrs) ==
  LET attr == IF "label" \in DOMAIN attrs THEN attrs["label"] ELSE Attr(attrs, "term")
  IN  IF attr = <<>> THEN d
      ELSE Entry(d, At(d), "extras", << <<Key.category, attr>> >>)

mediarss_content_start(d, attrs) ==
  IF Attr(attrs, "url") = <<>> THEN d
  ELSE LET e == Entry(d, Within(d), "attachments",
                      << <<Key.url, attrs["url"]>>,
                         <<Key.type, Attr(attrs, "type")>>,
                         <<Key.size, Attr(attrs, "fileSize")>>,
                         <<Key.duration, Attr(attrs, "duration")>> >>)
       IN  IF d.in_item THEN LinkFallback(e, attrs["url"]) ELSE e

embed_or_player_start(d, attrs) ==
  IF Attr(attrs, "url") = <<>> THEN d
  ELSE LET e == Entry(d, Within(d), "attachments", << <<Key.url, attrs["url"]>> >>)
       IN  IF d.in_item THEN LinkFallback(e, attrs["url"]) ELSE e

peerlink_start(d, attrs) ==
  IF Attr(attrs, "href") = <<>> THEN d
  ELSE Entry(d, Within(d), "attachments",
             << <<Key.url, attrs["href"]>>, <<Key.type, Attr(attrs, "type")>> >>)

description_start(d, attrs) ==
  CASE ~d.in_item -> d
    [] d.in_item /\ d.path[d.depth] = "MEDIARSS_CONTENT" ->
         More(d, "item", "attachments",
              << <<Key.description_type, Attr(attrs, "type")>> >>)
    [] OTHER ->
         Entry(d, "item", "content", << <<Key.type, Attr(attrs, "type")>> >>)

StartHandle(d, name, attrs) ==
  CASE name \in ItemElements       -> generic_item_starter(d)
    [] name = "guid"               -> rss_guid_start(d, attrs)
    [] name = "enclosure"          -> rss_enclosure_start(d, attrs)
    [] name = "source"             -> rss_source_start(d, attrs)
    [] name = "atom:link"          -> atom_link_start(d, attrs)
    [] name \in AtomTexts          -> atom_content_start(d, attrs)
    [] name = "atom:subtitle"      -> atom_subtitle_start(d, attrs)
    [] name = "atom:author"        -> person_start(d, Word.author)
    [] name = "atom:contributor"   -> person_start(d, Word.contributor)
    [] name = "atom:category"      -> atom_category_start(d, attrs)
    [] name = "media:content"      -> mediarss_content_start(d, attrs)
    [] name \in PlayerElements     -> embed_or_player_start(d, attrs)
    [] name = "media:peerLink"     -> peerlink_start(d, attrs)
    [] name = "media:description"  -> description_start(d, attrs)
    [] OTHER                       -> d
-----------------------------------------------------------------------------
(* Handlers of end tags.  The text is what was written since the last start *)
(* tag, or since the start of XHTML content.                                *)

(* Mutant: an item never ends. *)
ItemNeverEnds(d) == d

generic_item_ender(d) == [d EXCEPT !.in_item = FALSE]

generic_guid_end(d) == IF At(d) = "item" THEN Put(d, "item", "guid", d.text) ELSE d

generic_title_end(d) == Put(d, At(d), "title", d.text)

rss_link_end(d) == Put(d, At(d), "link", d.text)

content_end(d, type) ==
  Entry(d, Within(d), "content", << <<Key.type, <<type>>>>, <<Key.text, d.text>> >>)

generic_category_end(d) ==
  Entry(d, Within(d), "extras", << <<Key.category, d.text>> >>)

update_date_end(d) ==
  IF d.in_item THEN Put(d, "item", "update_date", parse_date(d.text)) ELSE d

publication_date_end(d) ==
  IF At(d) = "item" THEN Put(d, "item", "publication_date", parse_date(d.text)) ELSE d

rss_author_end(d) ==
  Entry(d, At(d), "persons",
        << <<Key.type, <<Word.author>>>>, <<Key.email, d.text>> >>)

rss_managingeditor_end(d) ==
  IF At(d) # "feed" THEN d
  ELSE Entry(d, "feed", "persons",
             << <<Key.type, <<Word.editor>>>>, <<Key.email, d.text>> >>)

rss_comments_end(d) ==
  IF At(d) # "item" THEN d
  ELSE Entry(d, "item", "attachments",
             << <<Key.url, d.text>>, <<Key.content, <<Word.comments>>>> >>)

rss_source_end(d) ==
  IF At(d) # "item" THEN d
  ELSE More(d, "item", "attachments", << <<Key.title, d.text>> >>)

\* Only text that begins with a number sets the time to live.
rss_ttl_end(d) ==
  IF At(d) # "feed" \/ d.text = <<>> \/ Head(d.text) < 0 THEN d
  ELSE Put(d, "feed", "time_to_live", Head(d.text) * 60)

(* Mutant: markup is collected after the content, too. *)
ContentNeverEnds(d) ==
  IF At(d) # "item" THEN d
  ELSE More(d, "item", "content", << <<Key.text, d.text>> >>)

atom_content_end(d) ==
  IF At(d) # "item" THEN d
  ELSE [More(d, "item", "content", << <<Key.text, d.text>> >>) EXCEPT !.decoy = FALSE]

atom_subtitle_end(d) ==
  IF At(d) # "feed" THEN d
  ELSE More(d, "feed", "content", << <<Key.text, d.text>> >>)

\* name_end, uri_end, email_end: to the last person there is.
datum_end(d, key) ==
  IF d.path[d.depth] # "ATOM_AUTHOR" THEN d
  ELSE More(d, Within(d), "persons", << <<key, d.text>> >>)

dublincore_title_end(d) ==
  IF Get(d, Within(d), "title") # <<>> THEN d
  ELSE Put(d, Within(d), "title", d.text)

dublincore_person_end(d, type) ==
  Entry(d, Within(d), "persons", << <<Key.type, <<type>>>>, <<Key.name, d.text>> >>)

georss_point_end(d) ==
  IF ~d.in_item THEN d
  ELSE Entry(d, "item", "extras", << <<Key.coordinates, d.text>> >>)

description_end(d) ==
  CASE ~d.in_item -> d
    [] d.in_item /\ d.path[d.depth] = "MEDIARSS_CONTENT" ->
         More(d, "item", "attachments", << <<Key.description_text, d.text>> >>)
    [] OTHER -> More(d, "item", "content", << <<Key.text, d.text>> >>)

EndHandle(d, name) ==
  CASE name \in ItemElements       -> generic_item_ender(d)
    [] name \in TitleElements      -> generic_title_end(d)
    [] name \in GuidElements       -> generic_guid_end(d)
    [] name \in LinkElements       -> rss_link_end(d)
    [] name \in PlainElements      -> content_end(d, Word.plain)
    [] name \in HtmlElements       -> content_end(d, Word.html)
    [] name \in SubjectElements    -> generic_category_end(d)
    [] name \in UpdateElements     -> update_date_end(d)
    [] name \in {"pubDate", "atom:published"} -> publication_date_end(d)
    [] name = "author"             -> rss_author_end(d)
    [] name = "managingEditor"     -> rss_managingeditor_end(d)
    [] name = "comments"           -> rss_comments_end(d)
    [] name = "source"             -> rss_source_end(d)
    [] name = "ttl"                -> rss_ttl_end(d)
    [] name \in AtomTexts          -> atom_content_end(d)
    [] name = "atom:subtitle"      -> atom_subtitle_end(d)
    [] name = "atom:name"          -> datum_end(d, Key.name)
    [] name = "atom:uri"           -> datum_end(d, Key.url)
    [] name = "atom:email"         -> datum_end(d, Key.email)
    [] name = "dc:title"           -> dublincore_title_end(d)
    [] name = "dc:creator"         -> dublincore_person_end(d, Word.author)
    [] name = "dc:contributor"     -> dublincore_person_end(d, Word.contributor)
    [] name \in PointElements      -> georss_point_end(d)
    [] name = "media:description"  -> description_end(d)
    [] OTHER                       -> d
-----------------------------------------------------------------------------
(* The callbacks of expat.                                                 *)

IsXhtml(name) == name = "xhtml"

\* Markup of an element that newsraft does not know, passed on by
\* XML_DefaultCurrent, joins the text of XHTML content.
xml_default_handler(d, markup) ==
  IF d.decoy THEN [d EXCEPT !.text = Append(@, markup)] ELSE d

(* Mutant: XHTML content loses what precedes an inner element. *)
TextEmptiedAlways(d) == [d EXCEPT !.text = <<>>]

\* Text before an element within an element is dropped, but for XHTML.
TextEmptied(d) == IF d.decoy THEN d ELSE [d EXCEPT !.text = <<>>]

start_element_handler(d, name, attrs, number) ==
  LET parent  == d.depth
      depth   == (parent + 1) % PathSize
      entered == [TextEmptied(d) EXCEPT !.path[depth] = Position(name)]
  IN  IF IsXhtml(name)
      THEN [xml_default_handler(entered, number) EXCEPT !.depth = depth]
      ELSE [StartHandle(entered, name, attrs) EXCEPT !.depth = depth]

character_data_handler(d, token) == [d EXCEPT !.text = Append(@, token)]

(* Mutant: elements of XHTML content are not left. *)
MarkupNotLeft(d, name, number) ==
  LET trimmed == [d EXCEPT !.text = trim_whitespace(@)]
      left    == [trimmed EXCEPT !.depth = IF @ > 0 THEN @ - 1 ELSE @]
  IN  IF IsXhtml(name) THEN xml_default_handler(trimmed, number)
      ELSE EndHandle(left, name)

end_element_handler(d, name, number) ==
  LET trimmed == [d EXCEPT !.text = trim_whitespace(@)]
      left    == [trimmed EXCEPT !.depth = IF @ > 0 THEN @ - 1 ELSE @]
  IN  IF IsXhtml(name) THEN xml_default_handler(left, number)
      ELSE EndHandle(left, name)
-----------------------------------------------------------------------------
(* The rows of json_tree, one for each value that is neither an object nor *)
(* an array.  place is where the value is: "feed", "feed_authors", "item", *)
(* "authors", "attachments" (of an item), with the indexes of the item and *)
(* of the author or attachment.                                            *)

JsonPerson(d, where, row, value) ==
  LET fresh == IF row.index # d.author_index
               THEN Entry([d EXCEPT !.author_index = row.index], where, "persons",
                          << <<Key.type, <<Word.author>>>> >>)
               ELSE d
  IN  CASE row.key = "name" -> More(fresh, where, "persons", << <<Key.name, value>> >>)
        [] row.key = "url"  -> More(fresh, where, "persons", << <<Key.url, value>> >>)
        [] OTHER -> fresh

JsonAttachment(d, row, value) ==
  LET fresh == IF row.index # d.attachment_index
               THEN Entry([d EXCEPT !.attachment_index = row.index], "item",
                          "attachments", <<>>)
               ELSE d
      key   == CASE row.key = "url" -> Key.url
                 [] row.key = "mime_type" -> Key.type
                 [] row.key = "size_in_bytes" -> Key.size
                 [] row.key = "duration_in_seconds" -> Key.duration
                 [] OTHER -> 0
  IN  IF key = 0 THEN fresh
      ELSE More(fresh, "item", "attachments", << <<key, value>> >>)

JsonItemValue(d, row, value) ==
  CASE row.key = "id"    -> Put(d, "item", "guid", value)
    [] row.key = "url"   -> Put(d, "item", "link", value)
    [] row.key = "title" -> Put(d, "item", "title", value)
    [] row.key = "content_html" ->
         Entry(d, "item", "content",
               << <<Key.type, <<Word.html>>>>, <<Key.text, value>> >>)
    [] row.key \in {"content_text", "summary"} ->
         Entry(d, "item", "content", << <<Key.text, value>> >>)
    [] row.key = "date_published" -> Put(d, "item", "publication_date", parse_date(value))
    [] row.key = "date_modified"  -> Put(d, "item", "update_date", parse_date(value))
    [] row.key = "external_url" ->
         Entry(d, "item", "attachments", << <<Key.url, value>> >>)
    [] row.key = "tags" -> Entry(d, "item", "extras", << <<Key.category, value>> >>)
    [] OTHER -> d

\* A new index of an item begins an item, and its lists begin anew.
JsonItem(d, row, value) ==
  LET fresh == IF row.item # d.item_index
               THEN [prepend_item(d) EXCEPT !.item_index = row.item,
                                            !.author_index = -1,
                                            !.attachment_index = -1]
               ELSE d
  IN  CASE row.place = "authors"     -> JsonPerson(fresh, "item", row, value)
        [] row.place = "attachments" -> JsonAttachment(fresh, row, value)
        [] OTHER                     -> JsonItemValue(fresh, row, value)

JsonFeedValue(d, row, value) ==
  CASE row.key = "home_page_url" -> Put(d, "feed", "link", value)
    [] row.key = "title"         -> Put(d, "feed", "title", value)
    [] row.key = "description"   ->
         Entry(d, "feed", "content", << <<Key.text, value>> >>)
    [] OTHER -> d

newsraft_json_row(d, row, value) ==
  CASE row.place = "feed"         -> JsonFeedValue(d, row, value)
    [] row.place = "feed_authors" -> JsonPerson(d, "feed", row, value)
    [] OTHER                      -> JsonItem(d, row, value)
-----------------------------------------------------------------------------
(* Documents.  External: what a feed may look like.                        *)

Attributes(name, n) ==
  CASE name = "guid" -> {<<>>, [isPermaLink |-> <<Word.false>>]}
    [] name \in {"enclosure", "source", "media:content", "media:player", "media:embed"}
         -> {<<>>, [url |-> <<n>>]}
    [] name = "media:peerLink" -> {[href |-> <<>>], [href |-> <<n>>, type |-> <<n>>]}
    [] name = "atom:link" ->
         {[href |-> <<>>], [href |-> <<n>>],
          [href |-> <<n>>, rel |-> <<Word.self>>],
          [href |-> <<n>>, rel |-> <<Word.enclosure>>, length |-> <<n>>]}
    [] name = "atom:category" -> {<<>>, [term |-> <<n>>], [term |-> <<n>>, label |-> <<>>]}
    [] name \in AtomTexts -> {<<>>, [type |-> <<Word.html>>], [type |-> <<Word.xhtml>>]}
    [] name = "media:description" -> {<<>>, [type |-> <<Word.html>>]}
    [] OTHER -> {<<>>}

\* Members of an object come in any order, those of an array in theirs, and
\* an object or array is traversed before what follows it.
InItems(row) == row.place \in {"item", "authors", "attachments"}

CanFollow(row) ==
  \A i \in DOMAIN document :
    LET met == document[i]
    IN  /\ InItems(met) /\ InItems(row) =>
             met.item <= row.item /\ \A j \in i..Len(document) : InItems(document[j])
        /\ met.place = row.place /\ met.item = row.item /\ row.place \notin {"feed", "item"} =>
             met.index <= row.index /\ \A j \in i..Len(document) : document[j].place = row.place

Init ==
  /\ kind \in DOMAIN Grammars
  /\ document = <<>> /\ open = <<>> /\ written = <<>>
  /\ state = "idle"
  /\ data = [feed |-> NoFeed, items |-> <<>>, in_item |-> FALSE, text |-> <<>>,
             path |-> [i \in 0..PathSize - 1 |-> "XML_UNKNOWN_POS"], depth |-> 0,
             decoy |-> FALSE, item_index |-> -1, author_index |-> -1,
             attachment_index |-> -1]

\* The first chunk that has a "<" or a "{" decides, those before are dropped.
Engage ==
  /\ state = "idle"
  /\ state' = IF grammar.rows = {} THEN "xml" ELSE "json"
  /\ UNCHANGED <<data, kind, document, open, written>>

Start(name, attrs) ==
  LET n == Len(document) + 1
  IN  /\ state = "xml" /\ n <= grammar.size
      /\ open = <<>> => document = <<>>
      /\ Len(open) < Len(grammar.levels) /\ name \in grammar.levels[Len(open) + 1]
      /\ data' = start_element_handler(data, name, attrs, n)
      /\ document' = Append(document, [name |-> name, attrs |-> attrs, open |-> TRUE,
                                       parent |-> IF open = <<>> THEN 0 ELSE Last(open)])
      /\ open' = Append(open, n)
      /\ written' = IF IsXhtml(name) THEN Append(written, n) ELSE written
      /\ UNCHANGED <<kind, state>>

\* A piece of text is the number of its element, or white space, or has a
\* delimiter in it.  The bounds of the grammar keep documents short.
Characters(token) ==
  /\ state = "xml" /\ open # <<>>
  /\ token \in {Last(open)} \cup grammar.noise
  /\ Len(SelectSeq(data.text, LAMBDA c : c = token)) < 1
  /\ Len(written) < grammar.texts
  /\ data' = character_data_handler(data, token)
  /\ written' = IF token > 0 THEN Append(written, token) ELSE written
  /\ UNCHANGED <<kind, document, open, state>>

End ==
  LET n == Last(open)
  IN  /\ state = "xml" /\ open # <<>>
      /\ data' = end_element_handler(data, document[n].name, n)
      /\ document' = [document EXCEPT ![n].open = FALSE]
      /\ open' = Front(open)
      /\ written' = IF IsXhtml(document[n].name) THEN Append(written, n) ELSE written
      /\ UNCHANGED <<kind, state>>

Row(row) ==
  LET n == Len(document) + 1
  IN  /\ state = "json" /\ n <= grammar.size
      /\ CanFollow(row)
      /\ data' = newsraft_json_row(data, row, <<n>>)
      /\ document' = Append(document, row)
      /\ UNCHANGED <<kind, open, written, state>>

Finish ==
  /\ state \in {"xml", "json"} /\ open = <<>> /\ document # <<>>
  /\ state' = "finished"
  /\ UNCHANGED <<data, kind, document, open, written>>

Terminated == state = "finished" /\ UNCHANGED vars

Next ==
  \/ Engage
  \/ \E name \in UNION {grammar.levels[i] : i \in DOMAIN grammar.levels} :
       \E attrs \in Attributes(name, Len(document) + 1) : Start(name, attrs)
  \/ \E token \in {Space, Delimiter} \cup 1..Len(document) : Characters(token)
  \/ End
  \/ \E row \in grammar.rows : Row(row)
  \/ Finish
  \/ Terminated

Spec == Init /\ [][Next]_vars
-----------------------------------------------------------------------------
(* What is said of the result is said in terms of the document.            *)

Numbers == DOMAIN document
IsXml   == grammar.rows = {}

\* The element n and those it is in.
Around == LET around[n \in 0..Len(document)] ==
                IF n = 0 THEN {} ELSE {n} \cup around[document[n].parent]
          IN  around

Childless(n) == \A m \in Numbers : document[m].parent # n

\* Visible text of element n with all that is inside of it.
TextOf(n) == Only(written, {t \in Numbers : n \in Around[t]})

PlaceOf(n) == IF document[n].parent = 0 THEN "XML_UNKNOWN_POS"
              ELSE Position(document[document[n].parent].name)

\* The item, counted in the order of the document, that n is part of, or 0.
Home(n) ==
  IF IsXml
  THEN LET items == {i \in Numbers : document[i].name \in ItemElements}
       IN  IF Around[n] \cap items = {} THEN 0
           ELSE Cardinality({i \in items : i <= n})
  ELSE IF InItems(document[n])
       THEN Cardinality({document[i].item : i \in {j \in 1..n : InItems(document[j])}})
       ELSE 0

\* All formats have items and feeds in nothing but feeds and the root of RSS.
IsFeed ==
  IsXml => \A n \in Numbers :
             document[n].name \in ItemElements \cup FeedElements
               => \A m \in Around[n] \ {n} : document[m].name \in FeedElements \cup {"rss"}

\* No element is nested too deep for the path, which is off for the rest of a
\* document that has one (README, section 5).
FitsPath == Len(grammar.levels) < PathSize

Item(k) == data.items[Len(data.items) + 1 - k]
Owner(n) == IF Home(n) = 0 THEN data.feed ELSE Item(Home(n))
Pieces(string) == {t \in ToSet(string) : t > 0}
Visible(string) == Only(string, Nat \ {0})

Texts == {"title", "link", "content", "attachments", "persons", "extras"}

TypeOK ==
  /\ state \in {"idle", "xml", "json", "finished"}
  /\ data.depth \in 0..PathSize - 1
  /\ data.path \in [0..PathSize - 1 -> {"XML_UNKNOWN_POS", "GENERIC_ITEM", "GENERIC_FEED",
                                        "ATOM_AUTHOR", "MEDIARSS_CONTENT"}]
  /\ data.in_item \in BOOLEAN /\ data.decoy \in BOOLEAN
  /\ data.in_item \/ At(data) = "item" => data.items # <<>>
  /\ data.feed.time_to_live \in Nat

\* The path that the handlers decide by is that of the elements that are open
\* (setup-xml-parser.c:6-52), and there is an item where they write to one.
PathFollowsDocument ==
  /\ TypeOK
  /\ FitsPath =>
       /\ data.depth = Len(open)
       /\ \A i \in DOMAIN open : data.path[i] = Position(document[open[i]].name)

\* Every piece of text ends up in the item it was written in, or in the feed
\* if it was written outside of all items, though most handlers know only
\* the newest item (common.c:28-41, setup-json-parser.c:75-85).
FieldsStayHome ==
  IsFeed /\ FitsPath =>
    /\ \A k \in DOMAIN data.items :
         \A f \in Texts \cup {"guid", "publication_date", "update_date"} :
           \A t \in Pieces(Item(k)[f]) : Home(t) = k
    /\ \A f \in Texts : \A t \in Pieces(data.feed[f]) : Home(t) = 0

Named(names) == {n \in Numbers : document[n].name \in names}

\* Content of which an element so named is a part.
ContentAround(names) == {n \in Named(AtomTexts) : \E m \in Named(names) : n \in Around[m]}

FromOne(value, elements) ==
  Pieces(value) # {} => \E n \in elements : \A t \in Pieces(value) : n \in Around[t]

\* A value holds text of one element only, although one buffer serves them
\* all and XHTML content switches the emptying of it off: only what is not
\* looked for in a place of its own, a title of Dublin Core and a date of an
\* update, may take in what precedes it in such content (README, section 5).
ValuesOfOneElement ==
  IsXml /\ IsFeed /\ FitsPath =>
    LET titles == TitleElements \cup {"dc:title"}
    IN  /\ \A k \in DOMAIN data.items :
             LET item == data.items[k]
             IN  /\ FromOne(item.title, Named(titles) \cup ContentAround(titles))
                 /\ FromOne(item.update_date, Named(UpdateElements) \cup ContentAround(UpdateElements))
                 /\ FromOne(item.guid, Named(GuidElements))
                 /\ FromOne(item.publication_date, Named({"pubDate", "atom:published"}))
        /\ FromOne(data.feed.title, Named(titles))

\* Data of a person who is not a person of an item or feed, as those of the
\* source of an entry, go to the last person before it (README, section 5).
IsStray(n) ==
  /\ document[n].name \in DatumElements
  /\ PlaceOf(n) = "ATOM_AUTHOR"
  /\ PlaceOf(document[n].parent) \notin {"GENERIC_ITEM", "GENERIC_FEED"}

\* A row that no later row repeats.
IsLastSuch(n) == \A m \in Numbers : m > n => document[m] # document[n]

\* An element whose text, and nothing else, is the last name of a person of an
\* item or feed.
IsNameElement(n) ==
  /\ document[n].name = "atom:name" /\ ~document[n].open
  /\ PlaceOf(n) = "ATOM_AUTHOR" /\ ~IsStray(n)
  /\ TextOf(n) = <<n>> /\ Childless(n)
  /\ \A m \in Numbers : m > n /\ document[m].name = "atom:name"
                       => document[m].parent # document[n].parent

\* Authors of a feed that come after items are not told apart from those of
\* the last item (README, section 5).
IsNameRow(n) ==
  /\ document[n].place \in {"authors", "feed_authors"} /\ document[n].key = "name"
  /\ document[n].place = "feed_authors" => \A m \in 1..n : ~InItems(document[m])
  /\ IsLastSuch(n)

\* The name of each author is read back as the name of a person of the item
\* or feed (of the feed in JSON: unless its authors come after items, see the
\* README), from the document through the serialized form to the reader
\* (format-atom.c:76-100, string-serialize.c, items-metadata-persons.c:79-106).
PersonsAreRead ==
  IsFeed /\ FitsPath /\ (IsXml => \A n \in Numbers : ~IsStray(n)) =>
    \A n \in Numbers : (IF IsXml THEN IsNameElement(n) ELSE IsNameRow(n)) =>
      LET persons == deserialize_persons(Owner(n).persons)
      IN  \E p \in DOMAIN persons : Visible(persons[p][Key.name]) = <<n>>

IsAttachmentElement(n) ==
  LET attrs == document[n].attrs
  IN  \/ /\ document[n].name \in {"enclosure", "source"}
         /\ PlaceOf(n) = "GENERIC_ITEM" /\ Attr(attrs, "url") # <<>>
      \/ /\ document[n].name \in PlayerElements \cup {"media:content"}
         /\ Attr(attrs, "url") # <<>>
      \/ document[n].name = "media:peerLink" /\ Attr(attrs, "href") # <<>>

IsAttachmentRow(n) ==
  document[n].place = "attachments" /\ document[n].key = "url" /\ IsLastSuch(n)

\* The URL of every attachment is among the links of its item that the pager
\* lists (items-metadata-links.c:117-148).
AttachmentsAreRead ==
  IsFeed /\ FitsPath =>
    \A n \in Numbers : (IF IsXml THEN IsAttachmentElement(n) ELSE IsAttachmentRow(n)) =>
      <<n>> \in ToSet(add_item_attachments_to_links_list(<<>>, Owner(n).attachments))

\* Persons and attachments survive the way through their serialized forms.
MetadataIsRead == PersonsAreRead /\ AttachmentsAreRead

\* Elements whose text goes to the last entry of content there is, be it one
\* that an element inside of them has made (README, section 5).
LastEntryTexts == AtomTexts \cup {"media:description", "atom:subtitle"}

\* An element that has ended and whose text, nothing but it, is content.
IsContentElement(n) ==
  /\ document[n].name \in HtmlElements \cup PlainElements \cup AtomTexts
  /\ document[n].name \in AtomTexts => PlaceOf(n) = "GENERIC_ITEM"
  /\ ~document[n].open /\ TextOf(n) # <<>>
  /\ Around[n] \cap Named(LastEntryTexts) \subseteq {n}
  /\ \/ Childless(n)
     \/ document[n].name \in AtomTexts /\ Attr(document[n].attrs, "type") = <<Word.xhtml>>

\* The text of an element with content is one of the texts of its item, all of
\* it and in order: also for XHTML, whose inner elements are part of the text
\* (format-atom.c:44-65, setup-xml-parser.c:60-70).
ContentIsWhole ==
  IsXml /\ IsFeed /\ FitsPath =>
    \A n \in Numbers : IsContentElement(n) =>
      LET texts == Entries(Owner(n).content, {Key.text})
      IN  \E e \in DOMAIN texts : Visible(texts[e][Key.text]) = TextOf(n)
=============================================================================
