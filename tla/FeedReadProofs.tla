---------------------------- MODULE FeedReadProofs ----------------------------
(* Proofs about FeedParser for documents of any size: the names of persons,   *)
(* the URLs of attachments and the texts of content are read back from the   *)
(* lists in which the parsers store them.                                     *)
(*                                                                            *)
(* A handler begins an entry of one list of one home, or completes the last   *)
(* one there is; the entries before it do not change.  An invariant says for  *)
(* each kind of list why what is in the last entry is not lost.               *)
EXTENDS FeedParserProofs

(* The list f of item k, counted in the order of the document, or of the feed. *)
ListOf(d, k, f) == IF k = 0 THEN d.feed[f] ELSE d.items[Len(d.items) + 1 - k][f]

HomeOf(d, where) == CASE where = "item" -> Len(d.items) [] where = "feed" -> 0 [] OTHER -> -1

(* Fields that join the last entry of a list, or a new one.                   *)
Made(old, new, fields) == serialize_fields(IF new THEN serialize_caret(old) ELSE old, fields)

(* Of the lists f that of home h alone has changed, in that way.              *)
Changes(d, e, f, h, new, fields) ==
    /\ Len(e.items) = Len(d.items)
    /\ \A k \in 0..Len(d.items) :
         ListOf(e, k, f) = IF k = h THEN Made(ListOf(d, k, f), new, fields) ELSE ListOf(d, k, f)

Untouched(d, e, f) ==
    Len(e.items) = Len(d.items) /\ \A k \in 0..Len(d.items) : ListOf(e, k, f) = ListOf(d, k, f)

LEMMA UntouchedIs ==
    ASSUME NEW d, NEW f
    PROVE  /\ Untouched(d, d, f)
           /\ \A e, g : Untouched(d, e, f) /\ Untouched(e, g, f) => Untouched(d, g, f)
           /\ \A e, new, fields : Changes(d, e, f, -1, new, fields) <=> Untouched(d, e, f)
           /\ \A e, g, h, new, fields :
                Untouched(d, e, f) /\ Changes(e, g, f, h, new, fields) => Changes(d, g, f, h, new, fields)
           /\ \A e, g, h, new, fields :
                Changes(d, e, f, h, new, fields) /\ Untouched(e, g, f) => Changes(d, g, f, h, new, fields)
<1>1. \A k \in 0..Len(d.items) : k # -1
  OBVIOUS
<1> HIDE DEF ListOf, Made
<1> QED BY <1>1 DEF Untouched, Changes

(* What does not look at feed and items.                                      *)
LEMMA NothingTouched ==
    ASSUME NEW d, NEW e, e.items = d.items, e.feed = d.feed
    PROVE  \A f : Untouched(d, e, f)
BY DEF Untouched, ListOf

LEMMA HomeIsOf ==
    ASSUME NEW d \in Data, NEW where \in {"item", "feed"}, where = "item" => d.items # <<>>, NEW f
    PROVE  /\ HomeOf(d, where) \in 0..Len(d.items)
           /\ Get(d, where, f) = ListOf(d, HomeOf(d, where), f)
<1>1. Len(d.items) \in Nat /\ DOMAIN d.items = 1..Len(d.items) /\ (d.items # <<>> => Len(d.items) > 0)
  <2> DEFINE I == ItemRow(Int)
  <2>1. d.items \in Seq(I)
    BY DEF Data
  <2> HIDE DEF I
  <2> QED BY <2>1
<1>2. CASE where = "item"
  <2>1. Len(d.items) # 0 /\ Len(d.items) + 1 - Len(d.items) = 1
    BY <1>1, <1>2
  <2> QED BY <1>1, <1>2, <2>1 DEF HomeOf, Get, ListOf
<1>3. CASE where = "feed"
  BY <1>1, <1>3 DEF HomeOf, Get, ListOf
<1> QED BY <1>2, <1>3

LEMMA PutLists ==
    ASSUME NEW d \in Data, NEW where \in {"item", "feed", "none"}, where = "item" => d.items # <<>>,
           NEW f, NEW v, NEW g \in Lists
    PROVE  LET e == Put(d, where, f, v)
           IN  /\ Len(e.items) = Len(d.items)
               /\ \A k \in 0..Len(d.items) :
                    ListOf(e, k, g) = IF f = g /\ k = HomeOf(d, where) THEN v ELSE ListOf(d, k, g)
<1> DEFINE e == Put(d, where, f, v)
           K == Len(d.items)
<1>1. K \in Nat /\ DOMAIN d.items = 1..K /\ (d.items # <<>> => K > 0)
  <2> DEFINE I == ItemRow(Int)
  <2>1. d.items \in Seq(I)
    BY DEF Data
  <2> HIDE DEF I
  <2> QED BY <2>1
<1>2. CASE where = "feed"
  <2> DEFINE r == [d.feed EXCEPT ![f] = v]
  <2>1. e = [d EXCEPT !.feed = r]
    BY <1>2 DEF Put
  <2>2. r[g] = IF f = g THEN v ELSE d.feed[g]
    BY DEF Data, FeedRow, Lists
  <2> HIDE DEF r
  <2>3. e.items = d.items /\ e.feed = r
    BY <2>1 DEF Data
  <2> HIDE DEF e, K
  <2>4. ASSUME NEW k \in 0..K
        PROVE  ListOf(e, k, g) = IF f = g /\ k = HomeOf(d, where) THEN v ELSE ListOf(d, k, g)
    BY <1>1, <1>2, <2>2, <2>3 DEF ListOf, HomeOf
  <2> QED BY <2>3, <2>4 DEF e, K
<1>3. CASE where = "item"
  <2> DEFINE r == [d.items[1] EXCEPT ![f] = v]
             items == [d.items EXCEPT ![1] = r]
  <2>1. e = [d EXCEPT !.items = items]
    BY <1>3 DEF Put
  <2>2. r[g] = IF f = g THEN v ELSE d.items[1][g]
    <3>1. d.items[1] \in ItemRow(Int)
      <4> DEFINE I == ItemRow(Int)
      <4>1. d.items \in Seq(I)
        BY DEF Data
      <4> HIDE DEF I
      <4> QED BY <1>1, <1>3, <4>1 DEF I
    <3> QED BY <3>1 DEF ItemRow, Lists
  <2> HIDE DEF r
  <2>3. Len(items) = K /\ \A j \in 1..K : items[j] = IF j = 1 THEN r ELSE d.items[j]
    <3> DEFINE I == ItemRow(Int)
    <3>1. d.items \in Seq(I)
      BY DEF Data
    <3> HIDE DEF I
    <3> QED BY <1>1, <3>1
  <2> HIDE DEF items
  <2>4. e.items = items /\ e.feed = d.feed
    BY <2>1 DEF Data
  <2> HIDE DEF e
  <2>5. Len(e.items) = K
    BY <2>3, <2>4
  <2>6. ASSUME NEW k \in 0..K
        PROVE  ListOf(e, k, g) = IF f = g /\ k = HomeOf(d, where) THEN v ELSE ListOf(d, k, g)
    <3>1. CASE k = 0
      BY <1>1, <1>3, <2>4, <3>1 DEF ListOf, HomeOf
    <3>2. CASE k # 0
      <4> DEFINE j == K + 1 - k
      <4>1. j \in 1..K /\ (j = 1 <=> k = K)
        BY <1>1, <3>2
      <4>2. ListOf(e, k, g) = items[j][g] /\ ListOf(d, k, g) = d.items[j][g]
        BY <2>3, <2>4, <3>2 DEF ListOf
      <4>3. HomeOf(d, where) = K
        BY <1>3 DEF HomeOf
      <4> HIDE DEF j, K
      <4> QED BY <2>2, <2>3, <4>1, <4>2, <4>3
    <3> QED BY <3>1, <3>2
  <2> QED BY <2>5, <2>6 DEF e
<1>4. CASE where = "none"
  <2>1. e = d /\ HomeOf(d, where) = -1
    BY <1>4 DEF Put, HomeOf
  <2> QED BY <2>1
<1> QED BY <1>2, <1>3, <1>4

LEMMA PutTouches ==
    ASSUME NEW d \in Data, NEW where \in {"item", "feed", "none"}, where = "item" => d.items # <<>>,
           NEW f, NEW v, NEW g \in Lists, f # g
    PROVE  Untouched(d, Put(d, where, f, v), g)
BY PutLists DEF Untouched

LEMMA MadeChanges ==
    ASSUME NEW d \in Data, NEW where \in {"item", "feed"}, where = "item" => d.items # <<>>,
           NEW f \in Lists, NEW new, NEW fields, NEW e,
           e = Put(d, where, f, Made(Get(d, where, f), new, fields))
    PROVE  /\ Changes(d, e, f, HomeOf(d, where), new, fields)
           /\ \A g \in Lists : g # f => Untouched(d, e, g)
<1> DEFINE h == HomeOf(d, where)
           v == Made(Get(d, where, f), new, fields)
<1>1. Get(d, where, f) = ListOf(d, h, f)
  BY HomeIsOf
<1>2. /\ Len(e.items) = Len(d.items)
      /\ \A k \in 0..Len(d.items) : ListOf(e, k, f) = IF k = h THEN v ELSE ListOf(d, k, f)
  BY PutLists
<1>3. \A g \in Lists : g # f => Untouched(d, e, g)
  BY PutTouches
<1> HIDE DEF h
<1>4. Changes(d, e, f, h, new, fields)
  BY <1>1, <1>2 DEF Changes
<1> QED BY <1>3, <1>4 DEF h

LEMMA EntryChanges ==
    ASSUME NEW d \in Data, NEW where \in {"item", "feed", "none"}, where = "item" => d.items # <<>>,
           NEW f \in Lists, NEW fields, NEW e, e = Entry(d, where, f, fields)
    PROVE  /\ Changes(d, e, f, HomeOf(d, where), TRUE, fields)
           /\ \A g \in Lists : g # f => Untouched(d, e, g)
<1>1. CASE where = "none"
  <2>1. e = d /\ HomeOf(d, where) = -1
    BY <1>1 DEF Entry, HomeOf
  <2>2. Untouched(d, e, f) /\ \A g \in Lists : Untouched(d, e, g)
    BY <2>1, UntouchedIs
  <2>3. Changes(d, e, f, -1, TRUE, fields)
    BY <2>2, UntouchedIs
  <2> QED BY <2>1, <2>2, <2>3
<1>2. CASE where # "none"
  <2>1. e = Put(d, where, f, Made(Get(d, where, f), TRUE, fields))
    BY <1>2 DEF Entry, Made
  <2> QED BY <1>2, <2>1, MadeChanges
<1> QED BY <1>1, <1>2

LEMMA MoreChanges ==
    ASSUME NEW d \in Data, NEW where \in {"item", "feed", "none"}, where = "item" => d.items # <<>>,
           NEW f \in Lists, NEW fields, NEW e, e = More(d, where, f, fields)
    PROVE  /\ Changes(d, e, f, HomeOf(d, where), FALSE, fields)
           /\ \A g \in Lists : g # f => Untouched(d, e, g)
<1>1. CASE where = "none"
  <2>1. e = d /\ HomeOf(d, where) = -1
    BY <1>1 DEF More, HomeOf
  <2>2. Untouched(d, e, f) /\ \A g \in Lists : Untouched(d, e, g)
    BY <2>1, UntouchedIs
  <2>3. Changes(d, e, f, -1, FALSE, fields)
    BY <2>2, UntouchedIs
  <2> QED BY <2>1, <2>2, <2>3
<1>2. CASE where # "none"
  <2>1. e = Put(d, where, f, Made(Get(d, where, f), FALSE, fields))
    BY <1>2 DEF More, Made
  <2> QED BY <1>2, <2>1, MadeChanges
<1> QED BY <1>1, <1>2

LEMMA LinkTouches ==
    ASSUME NEW d \in Data, d.items # <<>>, NEW url, NEW f \in Lists
    PROVE  Untouched(d, LinkFallback(d, url), f)
<1>1. f # "link"
  BY DEF Lists
<1>2. Untouched(d, Put(d, "item", "link", url), f)
  BY <1>1, PutTouches
<1> QED BY <1>2, UntouchedIs DEF LinkFallback

(* Fields without one of that key, and with one.                              *)
Lacks(fields, k) == \A i \in DOMAIN fields : fields[i][1] # k
Has(fields, k, v) ==
    \E i \in DOMAIN fields : fields[i] = <<k, v>> /\ \A j \in DOMAIN fields : j # i => fields[j][1] # k

LEMMA StrippedOne ==
    ASSUME NEW c \in Letters
    PROVE  WithoutDelimiters(<<c>>) = <<c>>
<1> DEFINE e == <<>>
           A == Int \ {Delimiter}
           s == Append(e, c)
<1>1. e \in Seq(Int) /\ c \in Int /\ c \in A /\ s = <<c>>
  BY DEF Letters
<1>2. Only(e, A) = e
  BY OnlyEmpty
<1> HIDE DEF e, A
<1>3. Only(s, A) = Append(Only(e, A), c)
  BY <1>1, OnlyAppend
<1>4. Only(s, A) = <<c>>
  BY <1>1, <1>2, <1>3
<1> QED BY <1>1, <1>4 DEF WithoutDelimiters, A

LEMMA KeysAreNames ==
    /\ \A k \in {Key.type, Key.text, Key.category, Key.name, Key.email, Key.url, Key.size, Key.title,
                 Key.content, Key.duration, Key.coordinates, Key.description_type,
                 Key.description_text} : k \in Names
    /\ \A w \in {Word.author, Word.contributor, Word.editor, Word.html, Word.xhtml, Word.plain,
                 Word.self, Word.alternate, Word.enclosure, Word.comments, Word.source, Word.true,
                 Word.false} : w \in Letters
<1>1. \A k \in {Key.type, Key.text, Key.category, Key.name, Key.email, Key.url, Key.size, Key.title,
                 Key.content, Key.duration, Key.coordinates, Key.description_type,
                 Key.description_text} : k \in Names
  BY DEF Key, Names, Letters, Delimiter, Caret
<1>2. \A w \in {Word.author, Word.contributor, Word.editor, Word.html, Word.xhtml, Word.plain,
                 Word.self, Word.alternate, Word.enclosure, Word.comments, Word.source, Word.true,
                 Word.false} : w \in Letters
  BY DEF Word, Letters, Delimiter
<1> QED BY <1>1, <1>2

(* What is read of a list with more fields, G, when E was read before.        *)
Extends(E, G, new, fields, keys) ==
    /\ G \in EntryLists(keys) /\ Len(G) = IF new THEN Len(E) + 1 ELSE Len(E)
    /\ \A i \in 1..Len(E) : new \/ i # Len(E) => G[i] = E[i]
    /\ \A k \in keys : Lacks(fields, k) => G[Len(G)][k] = IF new THEN <<>> ELSE E[Len(E)][k]
    /\ \A k \in keys : \A v : Has(fields, k, v) =>
         G[Len(G)][k] = IF WithoutDelimiters(v) # <<>> THEN WithoutDelimiters(v)
                        ELSE IF new THEN <<>> ELSE E[Len(E)][k]

LEMMA GivenIs ==
    ASSUME NEW fields, NEW k
    PROVE  /\ Lacks(fields, k) => Given(fields, k) = {}
           /\ \A v : Has(fields, k, v) =>
                \E i \in DOMAIN fields : /\ fields[i][2] = v
                                         /\ Given(fields, k) = IF WithoutDelimiters(v) # <<>> THEN {i} ELSE {}
<1>1. Lacks(fields, k) => Given(fields, k) = {}
  BY DEF Lacks, Given
<1>2. ASSUME NEW v, Has(fields, k, v)
      PROVE  \E i \in DOMAIN fields : /\ fields[i][2] = v
                                      /\ Given(fields, k) = IF WithoutDelimiters(v) # <<>> THEN {i} ELSE {}
  <2>1. PICK i \in DOMAIN fields : fields[i] = <<k, v>> /\ \A j \in DOMAIN fields : j # i => fields[j][1] # k
    BY <1>2 DEF Has
  <2>2. fields[i][1] = k /\ fields[i][2] = v
    BY <2>1
  <2>3. \A j \in Given(fields, k) : j = i
    BY <2>1 DEF Given
  <2>4. i \in Given(fields, k) <=> WithoutDelimiters(v) # <<>>
    BY <2>2 DEF Given
  <2>5. Given(fields, k) = IF WithoutDelimiters(v) # <<>> THEN {i} ELSE {}
    BY <2>3, <2>4
  <2> QED BY <2>2, <2>5
<1> QED BY <1>1, <1>2

LEMMA ReadsExtend ==
    ASSUME NEW keys, NEW E \in EntryLists(keys), NEW G, NEW fields, Reads(E, G, fields, keys)
    PROVE  Extends(E, G, FALSE, fields, keys)
<1>1. G \in EntryLists(keys) /\ Len(G) = Len(E) /\ \A i \in 1..Len(E) : i # Len(E) => G[i] = E[i]
  BY DEF Reads
<1>2. ASSUME NEW k \in keys, Lacks(fields, k) PROVE G[Len(G)][k] = E[Len(E)][k]
  BY <1>1, <1>2, GivenIs DEF Reads
<1>3. ASSUME NEW k \in keys, NEW v, Has(fields, k, v)
      PROVE  G[Len(G)][k] = IF WithoutDelimiters(v) # <<>> THEN WithoutDelimiters(v) ELSE E[Len(E)][k]
  <2>1. PICK i \in DOMAIN fields : /\ fields[i][2] = v
                                   /\ Given(fields, k) = IF WithoutDelimiters(v) # <<>> THEN {i} ELSE {}
    BY <1>3, GivenIs
  <2> QED BY <1>1, <2>1 DEF Reads
<1> QED BY <1>1, <1>2, <1>3 DEF Extends

LEMMA MadeReads ==
    ASSUME NEW keys, NEW old \in Form, NEW new \in BOOLEAN, NEW fields \in Seq(Field)
    PROVE  /\ Made(old, new, fields) \in Form
           /\ Extends(Entries(old, keys), Entries(Made(old, new, fields), keys), new, fields, keys)
<1> DEFINE E == Entries(old, keys)
           u == serialize_caret(old)
           F == Entries(u, keys)
           b == Blank(keys)
<1>1. u \in Form /\ E \in EntryLists(keys) /\ F = Append(E, b)
  BY CaretReads
<1>2. CASE ~new
  <2> DEFINE m == Made(old, new, fields)
  <2>1. m = serialize_fields(old, fields)
    BY <1>2 DEF Made
  <2>2. m \in Form /\ Reads(E, Entries(m, keys), fields, keys)
    BY <2>1, FieldsRead
  <2> HIDE DEF E, m
  <2>3. Extends(E, Entries(m, keys), FALSE, fields, keys)
    BY <1>1, <2>2, ReadsExtend
  <2>4. Extends(E, Entries(m, keys), new, fields, keys)
    BY <1>2, <2>3 DEF Extends
  <2> QED BY <2>2, <2>4 DEF E, m
<1>3. CASE new
  <2> DEFINE m == Made(old, new, fields)
             G == Entries(m, keys)
  <2>1. m = serialize_fields(u, fields)
    BY <1>3 DEF Made
  <2>2. m \in Form /\ Reads(F, G, fields, keys)
    BY <1>1, <2>1, FieldsRead
  <2>3. /\ F \in EntryLists(keys) /\ Len(F) = Len(E) + 1 /\ \A i \in 1..Len(E) : F[i] = E[i] /\ i # Len(F)
        /\ F[Len(F)] = b /\ \A k \in keys : b[k] = <<>>
        /\ \A i \in 1..Len(E) : i \in 1..Len(F)
    <3> DEFINE R == Records(keys)
    <3>1. b \in R /\ \A k \in keys : b[k] = <<>>
      BY DEF Blank, Records
    <3>2. E \in Seq(R)
      BY <1>1 DEF EntryLists
    <3>3. F \in EntryLists(keys)
      BY <1>1, CaretReads
    <3> HIDE DEF R, b, E, F
    <3> QED BY <1>1, <3>1, <3>2, <3>3
  <2> HIDE DEF E, F, m, G, b
  <2>4. Extends(F, G, FALSE, fields, keys)
    BY <2>2, <2>3, ReadsExtend
  <2>5. G \in EntryLists(keys) /\ Len(G) = Len(E) + 1 /\ \A i \in 1..Len(E) : G[i] = E[i]
    BY <2>3, <2>4 DEF Extends
  <2>6. \A k \in keys : Lacks(fields, k) => G[Len(G)][k] = <<>>
    BY <2>3, <2>4 DEF Extends
  <2>7. \A k \in keys : \A v : Has(fields, k, v) => G[Len(G)][k] = WithoutDelimiters(v)
    BY <2>3, <2>4 DEF Extends
  <2>8. Extends(E, G, new, fields, keys)
    BY <1>3, <2>5, <2>6, <2>7 DEF Extends
  <2> QED BY <2>2, <2>8 DEF E, G, m
<1> QED BY <1>2, <1>3

(* There is a link of that URL among the entries.                             *)
Linked(t, url) == \E i \in DOMAIN Entries(t, LinkKeys) : Entries(t, LinkKeys)[i][Key.url] = url

LEMMA EntriesAre ==
    ASSUME NEW keys, NEW E \in EntryLists(keys)
    PROVE  /\ Len(E) \in Nat /\ Len(E) >= 1 /\ DOMAIN E = 1..Len(E)
           /\ \A i \in 1..Len(E) : E[i] \in [keys -> Seq(Int)]
<1> DEFINE R == [keys -> Seq(Int)]
<1>1. E \in Seq(R) /\ E # <<>>
  BY DEF EntryLists, Records
<1> HIDE DEF R
<1>2. Len(E) \in Nat /\ Len(E) >= 1 /\ DOMAIN E = 1..Len(E) /\ \A i \in 1..Len(E) : E[i] \in R
  BY <1>1
<1> QED BY <1>2 DEF R

LEMMA LinkStays ==
    ASSUME NEW old \in Form, NEW new \in BOOLEAN, NEW fields \in Seq(Field), new \/ Lacks(fields, Key.url),
           NEW url, Linked(old, url)
    PROVE  Linked(Made(old, new, fields), url)
<1> DEFINE E == Entries(old, LinkKeys)
           G == Entries(Made(old, new, fields), LinkKeys)
<1>1. E \in EntryLists(LinkKeys) /\ Extends(E, G, new, fields, LinkKeys)
  BY CaretReads, MadeReads
<1>2. PICK i \in DOMAIN E : E[i][Key.url] = url
  BY DEF Linked
<1>3. Key.url \in LinkKeys
  BY DEF LinkKeys
<1> HIDE DEF E, G
<1>4. /\ Len(E) \in Nat /\ DOMAIN E = 1..Len(E) /\ DOMAIN G = 1..Len(G)
      /\ Len(G) = IF new THEN Len(E) + 1 ELSE Len(E)
  BY <1>1, EntriesAre DEF Extends
<1>5. i \in DOMAIN G /\ G[i][Key.url] = url
  <2>1. i \in DOMAIN G
    BY <1>2, <1>4
  <2>2. CASE new \/ i # Len(E)
    <3>1. \A j \in 1..Len(E) : new \/ j # Len(E) => G[j] = E[j]
      BY <1>1 DEF Extends
    <3>2. G[i] = E[i]
      BY <1>4, <2>2, <3>1
    <3> QED BY <1>2, <2>1, <3>2
  <2>3. CASE ~new /\ i = Len(E)
    BY <1>1, <1>2, <1>3, <1>4, <2>3 DEF Extends
  <2> QED BY <2>1, <2>2, <2>3
<1> QED BY <1>5 DEF Linked, G

LEMMA LinkMade ==
    ASSUME NEW old \in Form, NEW new \in BOOLEAN, NEW fields \in Seq(Field), NEW url,
           Has(fields, Key.url, url), WithoutDelimiters(url) # <<>>
    PROVE  Linked(Made(old, new, fields), WithoutDelimiters(url))
<1> DEFINE E == Entries(old, LinkKeys)
           G == Entries(Made(old, new, fields), LinkKeys)
<1>1. E \in EntryLists(LinkKeys) /\ Extends(E, G, new, fields, LinkKeys)
  BY CaretReads, MadeReads
<1>2. Key.url \in LinkKeys
  BY DEF LinkKeys
<1> HIDE DEF E, G
<1>3. Len(G) \in DOMAIN G /\ G[Len(G)][Key.url] = WithoutDelimiters(url)
  <2>1. Len(G) \in DOMAIN G
    BY <1>1, EntriesAre DEF Extends
  <2> QED BY <1>1, <1>2, <2>1 DEF Extends
<1> QED BY <1>3 DEF Linked, G

LEMMA FieldIs ==
    ASSUME NEW k \in Names, NEW v \in Seq(Int)
    PROVE  <<k, v>> \in Field /\ <<k, v>>[1] = k /\ <<k, v>>[2] = v
BY DEF Field

LEMMA FieldsLead ==
    ASSUME NEW k, NEW v, NEW p \in Field, p = <<k, v>>, NEW q \in Field, NEW r \in Field, NEW s \in Field,
           q[1] # k, r[1] # k, s[1] # k
    PROVE  /\ <<p>> \in Seq(Field) /\ Has(<<p>>, k, v)
           /\ <<p, q>> \in Seq(Field) /\ Has(<<p, q>>, k, v)
           /\ <<p, q, r>> \in Seq(Field) /\ Has(<<p, q, r>>, k, v)
           /\ <<p, q, r, s>> \in Seq(Field) /\ Has(<<p, q, r, s>>, k, v)
<1> HIDE DEF Field
<1>1. <<p>> \in Seq(Field) /\ <<p, q>> \in Seq(Field) /\ <<p, q, r>> \in Seq(Field) /\ <<p, q, r, s>> \in Seq(Field)
  OBVIOUS
<1>2. Has(<<p>>, k, v)
  BY DEF Has
<1>3. Has(<<p, q>>, k, v)
  <2> DEFINE f == <<p, q>>
  <2>1. DOMAIN f = 1..2 /\ f[1] = p /\ f[2] = q
    OBVIOUS
  <2> HIDE DEF f
  <2>2. \A j \in DOMAIN f : j # 1 => f[j] = q
    BY <2>1
  <2>3. Has(f, k, v)
    BY <2>1, <2>2 DEF Has
  <2> QED BY <2>3 DEF f
<1>4. Has(<<p, q, r>>, k, v)
  <2> DEFINE f == <<p, q, r>>
  <2>1. DOMAIN f = 1..3 /\ f[1] = p /\ f[2] = q /\ f[3] = r
    OBVIOUS
  <2> HIDE DEF f
  <2>2. \A j \in DOMAIN f : j # 1 => f[j] = q \/ f[j] = r
    BY <2>1
  <2>3. Has(f, k, v)
    BY <2>1, <2>2 DEF Has
  <2> QED BY <2>3 DEF f
<1>5. Has(<<p, q, r, s>>, k, v)
  <2> DEFINE f == <<p, q, r, s>>
  <2>1. DOMAIN f = 1..4 /\ f[1] = p /\ f[2] = q /\ f[3] = r /\ f[4] = s
    OBVIOUS
  <2> HIDE DEF f
  <2>2. \A j \in DOMAIN f : j # 1 => f[j] = q \/ f[j] = r \/ f[j] = s
    BY <2>1
  <2>3. Has(f, k, v)
    BY <2>1, <2>2 DEF Has
  <2> QED BY <2>3 DEF f
<1> QED BY <1>1, <1>2, <1>3, <1>4, <1>5

LEMMA FieldsLack ==
    ASSUME NEW k, NEW p \in Field, NEW q \in Field, p[1] # k, q[1] # k
    PROVE  /\ <<p>> \in Seq(Field) /\ Lacks(<<p>>, k)
           /\ <<p, q>> \in Seq(Field) /\ Lacks(<<p, q>>, k)
<1> HIDE DEF Field
<1>1. <<p>> \in Seq(Field) /\ <<p, q>> \in Seq(Field)
  OBVIOUS
<1> QED BY <1>1 DEF Lacks

LEMMA KeysAreApart ==
    /\ Key.url # Key.type /\ Key.url # Key.size /\ Key.url # Key.duration /\ Key.url # Key.content
    /\ Key.url # Key.title /\ Key.url # Key.description_type /\ Key.url # Key.description_text
    /\ Key.type # Key.name /\ Key.type # Key.email /\ Key.type # Key.url /\ Key.type # Key.text
    /\ Key.name # Key.email /\ Key.name # Key.url
BY DEF Key

(* A home of lists gets an attachment of that URL, if there is one, and all    *)
(* keep those they have.                                                      *)
Attaches(d, e, url, home) ==
    \E h \in Int, new \in BOOLEAN, fields \in Seq(Field) :
      /\ Changes(d, e, "attachments", h, new, fields)
      /\ new \/ Lacks(fields, Key.url)
      /\ url # <<>> => h = home /\ Has(fields, Key.url, url)

LEMMA NoneAttached ==
    ASSUME NEW d, NEW e, Untouched(d, e, "attachments"), NEW home
    PROVE  Attaches(d, e, <<>>, home)
<1> DEFINE F == <<>>
<1>1. F \in Seq(Field) /\ TRUE \in BOOLEAN /\ -1 \in Int
  OBVIOUS
<1>2. Changes(d, e, "attachments", -1, TRUE, F)
  BY UntouchedIs
<1> HIDE DEF F
<1> QED BY <1>1, <1>2 DEF Attaches

(* What is done to data between which nothing else happens.                   *)
LEMMA AttachesBetween ==
    ASSUME NEW d, NEW a, NEW b, NEW e, Untouched(d, a, "attachments"), Untouched(b, e, "attachments"),
           NEW url, NEW home, Attaches(a, b, url, home)
    PROVE  Attaches(d, e, url, home)
<1>1. PICK h \in Int, new \in BOOLEAN, fields \in Seq(Field) :
        /\ Changes(a, b, "attachments", h, new, fields)
        /\ new \/ Lacks(fields, Key.url)
        /\ url # <<>> => h = home /\ Has(fields, Key.url, url)
  BY DEF Attaches
<1>2. Changes(d, b, "attachments", h, new, fields)
  BY <1>1, UntouchedIs
<1>3. Changes(d, e, "attachments", h, new, fields)
  BY <1>2, UntouchedIs
<1> QED BY <1>1, <1>3 DEF Attaches

LEMMA HomesAreInt ==
    ASSUME NEW d \in Data, NEW where
    PROVE  HomeOf(d, where) \in Int
BY DataItems DEF HomeOf

LEMMA EntryAttaches ==
    ASSUME NEW d \in Data, NEW where \in {"item", "feed", "none"}, where = "item" => d.items # <<>>,
           NEW fields \in Seq(Field), NEW url, NEW e, e = Entry(d, where, "attachments", fields),
           url # <<>> => Has(fields, Key.url, url)
    PROVE  Attaches(d, e, url, HomeOf(d, where))
<1>1. "attachments" \in Lists
  BY DEF Lists
<1>2. Changes(d, e, "attachments", HomeOf(d, where), TRUE, fields)
  BY <1>1, EntryChanges
<1> QED BY <1>2, HomesAreInt DEF Attaches

LEMMA MoreAttaches ==
    ASSUME NEW d \in Data, NEW where \in {"item", "feed", "none"}, where = "item" => d.items # <<>>,
           NEW fields \in Seq(Field), NEW e, e = More(d, where, "attachments", fields),
           Lacks(fields, Key.url), NEW home
    PROVE  Attaches(d, e, <<>>, home)
<1>1. "attachments" \in Lists
  BY DEF Lists
<1>2. Changes(d, e, "attachments", HomeOf(d, where), FALSE, fields)
  BY <1>1, MoreChanges
<1> QED BY <1>2, HomesAreInt DEF Attaches

(* The handlers of the start tags of attachments.                             *)
AttachedUrl(d, name, attrs) ==
    CASE name \in {"enclosure", "source"} -> IF At(d) = "item" THEN Attr(attrs, "url") ELSE <<>>
      [] name \in PlayerElements \cup {"media:content"} -> Attr(attrs, "url")
      [] name = "media:peerLink" -> Attr(attrs, "href")
      [] OTHER -> <<>>

AttachedHome(d, name) ==
    IF name \in {"enclosure", "source"} THEN HomeOf(d, "item") ELSE HomeOf(d, Within(d))

LEMMA LinkedEntryAttaches ==
    ASSUME NEW d, Targets(d, Int, Int, Int), NEW where \in {At(d), Within(d)}, where = "item",
           NEW fields \in Seq(Field), fields \in Seq(Int \X Seq(Int)), NEW url \in Seq(Int),
           url # <<>> => Has(fields, Key.url, url), NEW e,
           e = LinkFallback(Entry(d, where, "attachments", fields), url)
    PROVE  Attaches(d, e, url, HomeOf(d, "item"))
<1> DEFINE m == Entry(d, where, "attachments", fields)
<1>1. d \in Data /\ (where = "item" => d.items # <<>>) /\ "attachments" \in Lists
  BY Targeting DEF Targets, Holds, Lists
<1>2. Targets(m, Int, Int, Int) /\ Same(d, m)
  BY <1>1, EntryAt
<1>3. m \in Data /\ m.items # <<>>
  BY <1>1, <1>2, DataItems DEF Targets, Holds, Same
<1>4. Attaches(d, m, url, HomeOf(d, "item"))
  BY <1>1, EntryAttaches
<1> HIDE DEF m
<1>5. Untouched(m, e, "attachments")
  BY <1>1, <1>3, LinkTouches DEF m
<1>6. Untouched(d, d, "attachments")
  BY UntouchedIs
<1> QED BY <1>4, <1>5, <1>6, AttachesBetween

(* A list that gets an entry of those fields, or more of the last one.        *)
Enters(d, e, f, h, new, k, v) ==
    \E fields \in Seq(Field) : Changes(d, e, f, h, new, fields) /\ Has(fields, k, v)

(* Elements whose text goes to an entry made at their start.                  *)
ContentHome(d, name) ==
    CASE name \in AtomTexts /\ At(d) = "item" -> Len(d.items)
      [] name = "atom:subtitle" /\ At(d) = "feed" -> 0
      [] name = "media:description" /\ d.in_item /\ d.path[d.depth] # "MEDIARSS_CONTENT" -> Len(d.items)
      [] OTHER -> -1

PersonHome(d, name) == IF name \in PersonElements THEN HomeOf(d, At(d)) ELSE -1

IsWord(v) == \E w \in Letters : v = <<w>>

PersonEntered(d, e, h) ==
    \E fields \in Seq(Field) : /\ Changes(d, e, "persons", h, TRUE, fields)
                               /\ \E v : IsWord(v) /\ Has(fields, Key.type, v)

ContentEntered(d, e, h) ==
    \E fields \in Seq(Field) : Changes(d, e, "content", h, TRUE, fields) /\ Lacks(fields, Key.text)

ListsStart(d, name, attrs, e) ==
    /\ Attaches(d, e, AttachedUrl(d, name, attrs), AttachedHome(d, name))
    /\ PersonEntered(d, e, PersonHome(d, name))
    /\ ContentEntered(d, e, ContentHome(d, name))

NoneOf(d, e) == /\ Untouched(d, e, "persons") /\ Untouched(d, e, "content")

FieldsRows == Seq(Field) \subseteq Seq(Int \X Seq(Int))

LEMMA FieldsAreRows == FieldsRows
<1> DEFINE P == Int \X Seq(Int)
<1>1. Field \subseteq P
  BY DEF Field, Names, Letters
<1> HIDE DEF P
<1>2. Seq(Field) \subseteq Seq(P)
  BY <1>1, SeqMonotonic
<1> QED BY <1>2 DEF FieldsRows, P

LEMMA PersonNone ==
    ASSUME NEW d, NEW e, Untouched(d, e, "persons")
    PROVE  PersonEntered(d, e, -1)
<1> DEFINE w == <<Word.author>>
           p == <<Key.type, w>>
           F == <<p>>
<1>1. w \in Seq(Int) /\ IsWord(w) /\ Key.type \in Names /\ Key.type # Key.name
  <2>1. Word.author \in Letters
    BY KeysAreNames
  <2>2. Word.author \in Int
    BY <2>1 DEF Letters
  <2> QED BY <2>1, <2>2, KeysAreNames, KeysAreApart DEF IsWord
<1> HIDE DEF w
<1>2. p \in Field /\ p = <<Key.type, w>> /\ p[1] # Key.name
  BY <1>1, FieldIs
<1> HIDE DEF p
<1>3. F \in Seq(Field) /\ Lacks(F, Key.name)
  BY <1>2, FieldsLack
<1>4. Has(F, Key.type, w)
  BY <1>2 DEF Has
<1> HIDE DEF F
<1>5. Changes(d, e, "persons", -1, TRUE, F)
  BY UntouchedIs
<1> QED BY <1>1, <1>3, <1>4, <1>5 DEF PersonEntered

LEMMA ContentNone ==
    ASSUME NEW d, NEW e, Untouched(d, e, "content")
    PROVE  ContentEntered(d, e, -1)
<1> DEFINE F == <<>>
<1>1. F \in Seq(Field) /\ Lacks(F, Key.text)
  BY DEF Lacks
<1> HIDE DEF F
<1>2. Changes(d, e, "content", -1, TRUE, F)
  BY UntouchedIs
<1> QED BY <1>1, <1>2 DEF ContentEntered

LEMMA NothingStarts ==
    ASSUME NEW d, NEW e, Untouched(d, e, "attachments"), NoneOf(d, e), NEW name, NEW attrs,
           AttachedUrl(d, name, attrs) = <<>>, PersonHome(d, name) = -1, ContentHome(d, name) = -1
    PROVE  ListsStart(d, name, attrs, e)
BY NoneAttached, PersonNone, ContentNone DEF ListsStart, NoneOf

LEMMA AttachmentStarts ==
    ASSUME NEW d, Targets(d, Int, Int, Int), NEW where \in {At(d), Within(d)},
           NEW fields \in Seq(Field), NEW name, NEW attrs, NEW url, url \in Seq(Int),
           Has(fields, Key.url, url), NEW h, h = HomeOf(d, where), NEW m,
           m = Entry(d, where, "attachments", fields), NEW e,
           e = m \/ (where = "item" /\ e = LinkFallback(m, url))
    PROVE  Attaches(d, e, url, h) /\ NoneOf(d, e)
<1>1. /\ d \in Data /\ where \in {"item", "feed", "none"} /\ (where = "item" => d.items # <<>>)
      /\ "attachments" \in Lists /\ "persons" \in Lists /\ "content" \in Lists
      /\ fields \in Seq(Int \X Seq(Int))
  BY Targeting, FieldsAreRows DEF Targets, Holds, Lists, FieldsRows
<1>2. Attaches(d, m, url, h)
  BY <1>1, EntryAttaches
<1>3. Untouched(d, m, "persons") /\ Untouched(d, m, "content")
  <2> DEFINE f == "attachments"
  <2>0. d \in Data /\ where \in {"item", "feed", "none"} /\ (where = "item" => d.items # <<>>) /\ f \in Lists
        /\ m = Entry(d, where, f, fields)
    BY <1>1
  <2> HIDE DEF f
  <2>1. \A g \in Lists : g # f => Untouched(d, m, g)
    BY <2>0, EntryChanges
  <2> QED BY <1>1, <2>1 DEF f
<1>4. CASE e = m
  BY <1>2, <1>3, <1>4 DEF NoneOf
<1>5. CASE where = "item" /\ e = LinkFallback(m, url)
  <2>1. Attaches(d, e, url, h)
    BY <1>1, <1>5, LinkedEntryAttaches
  <2>2. Targets(m, Int, Int, Int) /\ Same(d, m)
    BY <1>1, EntryAt
  <2>3. m \in Data /\ m.items # <<>>
    BY <1>1, <1>5, <2>2, DataItems DEF Targets, Holds, Same
  <2>4. Untouched(m, e, "persons") /\ Untouched(m, e, "content")
    BY <1>1, <1>5, <2>3, LinkTouches
  <2>5. Untouched(d, e, "persons") /\ Untouched(d, e, "content")
    BY <1>3, <2>4, UntouchedIs
  <2> QED BY <2>1, <2>5 DEF NoneOf
<1> QED BY <1>4, <1>5

(* The tags of attachments.                                                   *)
LEMMA AttachmentTags ==
    ASSUME NEW d, Targets(d, Int, Int, Int), NEW attrs, AttrsOf(attrs, Int)
    PROVE  LET url  == Attr(attrs, "url")
               href == Attr(attrs, "href")
               in   == HomeOf(d, Within(d))
               it   == HomeOf(d, "item")
           IN  /\ At(d) = "item" /\ url # <<>> =>
                    LET e == rss_enclosure_start(d, attrs) IN Attaches(d, e, url, it) /\ NoneOf(d, e)
               /\ At(d) = "item" /\ url # <<>> =>
                    LET e == rss_source_start(d, attrs) IN Attaches(d, e, url, it) /\ NoneOf(d, e)
               /\ url # <<>> =>
                    LET e == mediarss_content_start(d, attrs) IN Attaches(d, e, url, in) /\ NoneOf(d, e)
               /\ url # <<>> =>
                    LET e == embed_or_player_start(d, attrs) IN Attaches(d, e, url, in) /\ NoneOf(d, e)
               /\ href # <<>> =>
                    LET e == peerlink_start(d, attrs) IN Attaches(d, e, href, in) /\ NoneOf(d, e)
<1> DEFINE A(key) == Attr(attrs, key)
           url  == A("url")
           href == A("href")
           in   == HomeOf(d, Within(d))
           it   == HomeOf(d, "item")
<1>1. \A key : A(key) \in Seq(Int) /\ (A(key) # <<>> => attrs[key] = A(key))
  BY AttrIs DEF Attr
<1> HIDE DEF A
<1>2. \A v \in Seq(Int), k \in {Key.url, Key.type, Key.size, Key.content, Key.duration} :
         <<k, v>> \in Field /\ <<k, v>>[1] = k
  BY KeysAreNames, FieldIs
<1> DEFINE u == <<Key.url, url>>
           r == <<Key.url, href>>
           t == <<Key.type, A("type")>>
           s == <<Key.size, A("length")>>
           z == <<Key.size, A("fileSize")>>
           l == <<Key.duration, A("duration")>>
           c == <<Key.content, <<Word.source>> >>
<1>3. /\ u \in Field /\ r \in Field /\ t \in Field /\ s \in Field /\ z \in Field /\ l \in Field /\ c \in Field
      /\ t[1] # Key.url /\ s[1] # Key.url /\ z[1] # Key.url /\ l[1] # Key.url /\ c[1] # Key.url
      /\ u = <<Key.url, url>> /\ r = <<Key.url, href>>
  <2>1. <<Word.source>> \in Seq(Int)
    BY KeysAreNames DEF Letters
  <2> QED BY <1>1, <1>2, <2>1, KeysAreApart
<1> HIDE DEF u, r, t, s, z, l, c
<1>4. /\ <<u, t, s>> \in Seq(Field) /\ Has(<<u, t, s>>, Key.url, url)
      /\ <<u, c>> \in Seq(Field) /\ Has(<<u, c>>, Key.url, url)
      /\ <<u, t, z, l>> \in Seq(Field) /\ Has(<<u, t, z, l>>, Key.url, url)
      /\ <<u>> \in Seq(Field) /\ Has(<<u>>, Key.url, url)
      /\ <<r, t>> \in Seq(Field) /\ Has(<<r, t>>, Key.url, href)
  <2> HIDE DEF url, href
  <2>1. <<u, t, s>> \in Seq(Field) /\ Has(<<u, t, s>>, Key.url, url)
    BY <1>3, FieldsLead
  <2>2. <<u, c>> \in Seq(Field) /\ Has(<<u, c>>, Key.url, url)
    <3>1. u \in Field /\ c \in Field /\ u = <<Key.url, url>> /\ c[1] # Key.url
      BY <1>3
    <3> QED BY <3>1, FieldsLead
  <2>3. <<u, t, z, l>> \in Seq(Field) /\ Has(<<u, t, z, l>>, Key.url, url)
    <3>1. /\ u \in Field /\ t \in Field /\ z \in Field /\ l \in Field
          /\ u = <<Key.url, url>> /\ t[1] # Key.url /\ z[1] # Key.url /\ l[1] # Key.url
      BY <1>3
    <3> QED BY <3>1, FieldsLead
  <2>4. <<u>> \in Seq(Field) /\ Has(<<u>>, Key.url, url)
    <3>1. <<u>> \in Seq(Field)
      BY <1>3
    <3>2. Has(<<u>>, Key.url, url)
      BY <1>3 DEF Has
    <3> QED BY <3>1, <3>2
  <2>5. <<r, t>> \in Seq(Field) /\ Has(<<r, t>>, Key.url, href)
    BY <1>3, FieldsLead
  <2> QED BY <2>1, <2>2, <2>3, <2>4, <2>5
<1>5. d.in_item => Within(d) = "item"
  BY DEF Within
<1>6. ASSUME At(d) = "item", url # <<>>
      PROVE  LET e == rss_enclosure_start(d, attrs) IN Attaches(d, e, url, it) /\ NoneOf(d, e)
  <2> DEFINE m == Entry(d, "item", "attachments", <<u, t, s>>)
             e == rss_enclosure_start(d, attrs)
  <2>1. e = LinkFallback(m, url)
    BY <1>1, <1>6 DEF rss_enclosure_start, u, t, s, A
  <2> HIDE DEF e
  <2>2. Attaches(d, e, url, it) /\ NoneOf(d, e)
    BY <1>1, <1>4, <1>6, <2>1, AttachmentStarts
  <2> QED BY <2>2 DEF e
<1>7. ASSUME At(d) = "item", url # <<>>
      PROVE  LET e == rss_source_start(d, attrs) IN Attaches(d, e, url, it) /\ NoneOf(d, e)
  <2> DEFINE m == Entry(d, "item", "attachments", <<u, c>>)
             e == rss_source_start(d, attrs)
  <2>1. e = m
    BY <1>1, <1>7 DEF rss_source_start, u, c, A
  <2> HIDE DEF e
  <2>2. Attaches(d, e, url, it) /\ NoneOf(d, e)
    BY <1>1, <1>4, <1>7, <2>1, AttachmentStarts
  <2> QED BY <2>2 DEF e
<1>8. ASSUME url # <<>>
      PROVE  LET e == mediarss_content_start(d, attrs) IN Attaches(d, e, url, in) /\ NoneOf(d, e)
  <2> DEFINE m == Entry(d, Within(d), "attachments", <<u, t, z, l>>)
             e == mediarss_content_start(d, attrs)
  <2>1. e = IF d.in_item THEN LinkFallback(m, url) ELSE m
    BY <1>1, <1>8 DEF mediarss_content_start, u, t, z, l, A
  <2> HIDE DEF e
  <2>2. Attaches(d, e, url, in) /\ NoneOf(d, e)
    BY <1>1, <1>4, <1>5, <2>1, AttachmentStarts
  <2> QED BY <2>2 DEF e
<1>9. ASSUME url # <<>>
      PROVE  LET e == embed_or_player_start(d, attrs) IN Attaches(d, e, url, in) /\ NoneOf(d, e)
  <2> DEFINE m == Entry(d, Within(d), "attachments", <<u>>)
             e == embed_or_player_start(d, attrs)
  <2>1. e = IF d.in_item THEN LinkFallback(m, url) ELSE m
    BY <1>1, <1>9 DEF embed_or_player_start, u, A
  <2> HIDE DEF e
  <2>2. Attaches(d, e, url, in) /\ NoneOf(d, e)
    BY <1>1, <1>4, <1>5, <2>1, AttachmentStarts
  <2> QED BY <2>2 DEF e
<1>10. ASSUME href # <<>>
      PROVE  LET e == peerlink_start(d, attrs) IN Attaches(d, e, href, in) /\ NoneOf(d, e)
  <2> DEFINE m == Entry(d, Within(d), "attachments", <<r, t>>)
             e == peerlink_start(d, attrs)
  <2>1. e = m
    BY <1>1, <1>10 DEF peerlink_start, r, t, A
  <2> HIDE DEF e
  <2>2. Attaches(d, e, href, in) /\ NoneOf(d, e)
    BY <1>1, <1>4, <2>1, AttachmentStarts
  <2> QED BY <2>2 DEF e
<1> QED BY <1>6, <1>7, <1>8, <1>9, <1>10 DEF A

LEMMA PersonTag ==
    ASSUME NEW d, Targets(d, Int, Int, Int), NEW type \in Letters, NEW e, e = person_start(d, type)
    PROVE  /\ PersonEntered(d, e, HomeOf(d, At(d)))
           /\ Untouched(d, e, "attachments") /\ Untouched(d, e, "content")
<1> DEFINE w == <<type>>
           p == <<Key.type, w>>
           f == "persons"
<1>1. w \in Seq(Int) /\ IsWord(w) /\ Key.type \in Names /\ Key.type # Key.name
  <2>1. type \in Int
    BY DEF Letters
  <2> QED BY <2>1, KeysAreNames, KeysAreApart DEF IsWord
<1> HIDE DEF w
<1>2. p \in Field /\ p = <<Key.type, w>> /\ p[1] # Key.name
  BY <1>1, FieldIs
<1>3. e = Entry(d, At(d), f, <<p>>)
  BY DEF person_start, p, w
<1> HIDE DEF p
<1>4. <<p>> \in Seq(Field) /\ Lacks(<<p>>, Key.name)
  BY <1>2, FieldsLack
<1>5. Has(<<p>>, Key.type, w)
  BY <1>2 DEF Has
<1>6. /\ d \in Data /\ At(d) \in {"item", "feed", "none"} /\ (At(d) = "item" => d.items # <<>>)
      /\ f \in Lists
  BY Targeting DEF Targets, Holds, Lists
<1>8. "attachments" \in Lists /\ "content" \in Lists /\ "attachments" # f /\ "content" # f
  BY DEF Lists
<1>9. \A x : Changes(d, e, f, HomeOf(d, At(d)), TRUE, x) =
             Changes(d, e, "persons", HomeOf(d, At(d)), TRUE, x)
  OBVIOUS
<1> HIDE DEF f
<1>7. Changes(d, e, f, HomeOf(d, At(d)), TRUE, <<p>>) /\ \A g \in Lists : g # f => Untouched(d, e, g)
  BY <1>3, <1>6, EntryChanges
<1>10. PersonEntered(d, e, HomeOf(d, At(d)))
  BY <1>1, <1>4, <1>5, <1>7, <1>9 DEF PersonEntered
<1> QED BY <1>7, <1>8, <1>10

(* The tags of elements whose text is content.                                *)
LEMMA ContentTags ==
    ASSUME NEW d, Targets(d, Int, Int, Int), NEW attrs, AttrsOf(attrs, Int),
           NEW where \in {At(d), Within(d)}, where \in {"item", "feed"}, NEW e,
           e = Entry(d, where, "content", << <<Key.type, Attr(attrs, "type")>> >>)
    PROVE  /\ ContentEntered(d, e, HomeOf(d, where))
           /\ Untouched(d, e, "attachments") /\ Untouched(d, e, "persons")
<1> DEFINE w == Attr(attrs, "type")
           p == <<Key.type, w>>
           f == "content"
<1>1. w \in Seq(Int) /\ Key.type \in Names /\ Key.type # Key.text
  BY AttrIs, KeysAreNames, KeysAreApart
<1> HIDE DEF w
<1>2. p \in Field /\ p[1] # Key.text
  BY <1>1, FieldIs
<1>3. e = Entry(d, where, f, <<p>>)
  BY DEF p, w
<1> HIDE DEF p
<1>4. <<p>> \in Seq(Field) /\ Lacks(<<p>>, Key.text)
  BY <1>2, FieldsLack
<1>6. d \in Data /\ (where = "item" => d.items # <<>>) /\ f \in Lists /\ where \in {"item", "feed", "none"}
  BY Targeting DEF Targets, Holds, Lists
<1>8. "attachments" \in Lists /\ "persons" \in Lists /\ "attachments" # f /\ "persons" # f
  BY DEF Lists
<1>9. \A x : Changes(d, e, f, HomeOf(d, where), TRUE, x) =
             Changes(d, e, "content", HomeOf(d, where), TRUE, x)
  OBVIOUS
<1> HIDE DEF f
<1>7. Changes(d, e, f, HomeOf(d, where), TRUE, <<p>>) /\ \A g \in Lists : g # f => Untouched(d, e, g)
  BY <1>3, <1>6, EntryChanges
<1>10. ContentEntered(d, e, HomeOf(d, where))
  BY <1>4, <1>7, <1>9 DEF ContentEntered
<1> QED BY <1>7, <1>8, <1>10

(* Tags that touch none of the three lists.                                   *)
LEMMA OtherTags ==
    ASSUME NEW d, Targets(d, Int, Int, Int), NEW attrs, AttrsOf(attrs, Int), NEW e,
           \/ e = d \/ e = rss_guid_start(d, attrs) \/ e = Put(d, At(d), "link", Attr(attrs, "href"))
           \/ e = atom_category_start(d, attrs)
    PROVE  Untouched(d, e, "attachments") /\ NoneOf(d, e)
<1>1. /\ d \in Data /\ At(d) \in {"item", "feed", "none"} /\ (At(d) = "item" => d.items # <<>>)
  BY Targeting DEF Targets, Holds
<1>2. "attachments" \in Lists /\ "content" \in Lists /\ "persons" \in Lists /\ "extras" \in Lists
  BY DEF Lists
<1>3. CASE e = d
  BY <1>3, UntouchedIs DEF NoneOf
<1>4. ASSUME NEW f, f \in {"link", "guid_is_link"}, NEW v, e = Put(d, At(d), f, v)
      PROVE  Untouched(d, e, "attachments") /\ NoneOf(d, e)
  <2>1. f # "attachments" /\ f # "content" /\ f # "persons"
    BY <1>4
  <2> QED BY <1>1, <1>2, <1>4, <2>1, PutTouches DEF NoneOf
<1>5. CASE e = rss_guid_start(d, attrs)
  <2>1. CASE At(d) = "item"
    BY <1>4, <1>5, <2>1 DEF rss_guid_start
  <2>2. CASE At(d) # "item"
    BY <1>3, <1>5, <2>2 DEF rss_guid_start
  <2> QED BY <2>1, <2>2
<1>6. CASE e = atom_category_start(d, attrs)
  <2>1. e = d \/ \E fields : e = Entry(d, At(d), "extras", fields)
    BY <1>6 DEF atom_category_start
  <2>2. ASSUME NEW fields, e = Entry(d, At(d), "extras", fields)
        PROVE  Untouched(d, e, "attachments") /\ NoneOf(d, e)
    <3> DEFINE f == "extras"
               where == At(d)
    <3>0. /\ f # "attachments" /\ f # "content" /\ f # "persons" /\ f \in Lists
          /\ e = Entry(d, where, f, fields)
      BY <1>2, <2>2
    <3>2. /\ d \in Data /\ where \in {"item", "feed", "none"} /\ (where = "item" => d.items # <<>>)
      BY <1>1
    <3> HIDE DEF f, where
    <3>1. \A g \in Lists : g # f => Untouched(d, e, g)
      BY <3>0, <3>2, EntryChanges
    <3> QED BY <1>2, <3>0, <3>1 DEF NoneOf
  <2> QED BY <1>3, <2>1, <2>2
<1> QED BY <1>3, <1>4, <1>5, <1>6

LEMMA LinkTag ==
    ASSUME NEW d, Targets(d, Int, Int, Int), NEW attrs, AttrsOf(attrs, Int), NEW e,
           e = atom_link_start(d, attrs), NEW home
    PROVE  Attaches(d, e, <<>>, home) /\ NoneOf(d, e)
<1> DEFINE A(key) == Attr(attrs, key)
           href == A("href")
           u == <<Key.url, href>>
           t == <<Key.type, A("type")>>
           s == <<Key.size, A("length")>>
           m == Entry(d, "item", "attachments", <<u, t, s>>)
<1>1. \A key : A(key) \in Seq(Int)
  BY AttrIs
<1>2. \/ e = d \/ e = Put(d, At(d), "link", href)
      \/ At(d) = "item" /\ href # <<>> /\ e = LinkFallback(m, href)
  BY DEF atom_link_start
<1>3. CASE e = d \/ e = Put(d, At(d), "link", href)
  BY <1>3, OtherTags, NoneAttached
<1>4. CASE At(d) = "item" /\ href # <<>> /\ e = LinkFallback(m, href)
  <2> HIDE DEF A
  <2>1. u \in Field /\ t \in Field /\ s \in Field /\ t[1] # Key.url /\ s[1] # Key.url /\ u = <<Key.url, href>>
    BY <1>1, KeysAreNames, KeysAreApart, FieldIs
  <2> HIDE DEF u, t, s, href
  <2>2. <<u, t, s>> \in Seq(Field) /\ Has(<<u, t, s>>, Key.url, href)
    BY <2>1, FieldsLead
  <2>3. Attaches(d, e, href, HomeOf(d, "item")) /\ NoneOf(d, e)
    BY <1>1, <1>4, <2>2, AttachmentStarts DEF href
  <2>4. Attaches(d, e, <<>>, home)
    BY <2>3 DEF Attaches
  <2> QED BY <2>3, <2>4
<1> QED BY <1>2, <1>3, <1>4

LEMMA DescriptionTag ==
    ASSUME NEW d, Targets(d, Int, Int, Int), NEW attrs, AttrsOf(attrs, Int), d.in_item,
           d.path[d.depth] = "MEDIARSS_CONTENT", NEW e, e = description_start(d, attrs), NEW home
    PROVE  Attaches(d, e, <<>>, home) /\ NoneOf(d, e)
<1> DEFINE w == Attr(attrs, "type")
           p == <<Key.description_type, w>>
           f == "attachments"
<1>1. w \in Seq(Int) /\ Key.description_type \in Names /\ Key.description_type # Key.url
  BY AttrIs, KeysAreNames, KeysAreApart
<1> HIDE DEF w
<1>2. p \in Field /\ p[1] # Key.url
  BY <1>1, FieldIs
<1>3. e = More(d, "item", f, <<p>>)
  BY DEF p, w, description_start
<1> HIDE DEF p
<1>4. <<p>> \in Seq(Field) /\ Lacks(<<p>>, Key.url)
  BY <1>2, FieldsLack
<1>5. d \in Data /\ d.items # <<>> /\ f \in Lists
  BY DEF Targets, Holds, Lists
<1>6. "persons" \in Lists /\ "content" \in Lists /\ "persons" # f /\ "content" # f
  BY DEF Lists
<1>7. Attaches(d, e, <<>>, home)
  BY <1>3, <1>4, <1>5, MoreAttaches
<1> HIDE DEF f
<1>8. \A g \in Lists : g # f => Untouched(d, e, g)
  BY <1>3, <1>5, MoreChanges
<1> QED BY <1>6, <1>7, <1>8 DEF NoneOf

(* What handler is called for a tag.                                          *)
LEMMA TagsAre ==
    ASSUME NEW d, NEW attrs, NEW name, name \notin ItemElements, NEW e, e = StartHandle(d, name, attrs)
    PROVE  /\ name = "enclosure" => e = rss_enclosure_start(d, attrs)
           /\ name = "source" => e = rss_source_start(d, attrs)
           /\ name = "media:content" => e = mediarss_content_start(d, attrs)
           /\ name \in PlayerElements => e = embed_or_player_start(d, attrs)
           /\ name = "media:peerLink" => e = peerlink_start(d, attrs)
           /\ name = "atom:author" => e = person_start(d, Word.author)
           /\ name = "atom:contributor" => e = person_start(d, Word.contributor)
           /\ name \in AtomTexts => e = atom_content_start(d, attrs)
           /\ name = "atom:subtitle" => e = atom_subtitle_start(d, attrs)
           /\ name = "media:description" => e = description_start(d, attrs)
           /\ name = "atom:link" => e = atom_link_start(d, attrs)
           /\ name \notin {"enclosure", "source", "media:content", "media:peerLink", "atom:author",
                           "atom:contributor", "atom:subtitle", "media:description", "atom:link"}
                            \cup PlayerElements \cup AtomTexts =>
                e = d \/ e = rss_guid_start(d, attrs) \/ e = atom_category_start(d, attrs)
<1> USE DEF ItemElements, PlayerElements, AtomTexts
<1>1. /\ name = "enclosure" => e = rss_enclosure_start(d, attrs)
      /\ name = "source" => e = rss_source_start(d, attrs)
      /\ name = "atom:link" => e = atom_link_start(d, attrs)
      /\ name \in AtomTexts => e = atom_content_start(d, attrs)
  BY DEF StartHandle
<1>2. /\ name = "media:content" => e = mediarss_content_start(d, attrs)
      /\ name \in PlayerElements => e = embed_or_player_start(d, attrs)
      /\ name = "media:peerLink" => e = peerlink_start(d, attrs)
      /\ name = "media:description" => e = description_start(d, attrs)
  BY DEF StartHandle
<1>3. /\ name = "atom:author" => e = person_start(d, Word.author)
      /\ name = "atom:contributor" => e = person_start(d, Word.contributor)
      /\ name = "atom:subtitle" => e = atom_subtitle_start(d, attrs)
  BY DEF StartHandle
<1>4. name \notin {"enclosure", "source", "media:content", "media:peerLink", "atom:author",
                   "atom:contributor", "atom:subtitle", "media:description", "atom:link"}
                    \cup PlayerElements \cup AtomTexts =>
        e = d \/ e = rss_guid_start(d, attrs) \/ e = atom_category_start(d, attrs)
  BY DEF StartHandle
<1> QED BY <1>1, <1>2, <1>3, <1>4

(* Which of the three lists a tag is of.                                      *)
LEMMA TagsAreOf ==
    ASSUME NEW d, NEW attrs, NEW name
    PROVE  /\ name \in {"enclosure", "source"} =>
                /\ AttachedUrl(d, name, attrs) = (IF At(d) = "item" THEN Attr(attrs, "url") ELSE <<>>)
                /\ AttachedHome(d, name) = HomeOf(d, "item")
           /\ name \in PlayerElements \cup {"media:content"} =>
                AttachedUrl(d, name, attrs) = Attr(attrs, "url") /\ AttachedHome(d, name) = HomeOf(d, Within(d))
           /\ name = "media:peerLink" =>
                AttachedUrl(d, name, attrs) = Attr(attrs, "href") /\ AttachedHome(d, name) = HomeOf(d, Within(d))
           /\ name \notin {"enclosure", "source", "media:content", "media:peerLink"} \cup PlayerElements =>
                AttachedUrl(d, name, attrs) = <<>>
           /\ PersonHome(d, name) = IF name \in {"atom:author", "atom:contributor"} THEN HomeOf(d, At(d)) ELSE -1
           /\ name \notin {"atom:subtitle", "media:description"} \cup AtomTexts => ContentHome(d, name) = -1
BY DEF AttachedUrl, AttachedHome, PersonHome, ContentHome, PersonElements, PlayerElements, AtomTexts

LEMMA AttachmentHandled ==
    ASSUME NEW d, Targets(d, Int, Int, Int), NEW attrs, AttrsOf(attrs, Int), NEW name,
           name \in {"enclosure", "source", "media:content", "media:peerLink"} \cup PlayerElements,
           NEW e, e = StartHandle(d, name, attrs)
    PROVE  ListsStart(d, name, attrs, e)
<1>1. /\ name \notin ItemElements /\ PersonHome(d, name) = -1 /\ ContentHome(d, name) = -1
      /\ name \notin {"atom:author", "atom:contributor"}
  BY TagsAreOf DEF ItemElements, PlayerElements, AtomTexts
<1> DEFINE u == AttachedUrl(d, name, attrs)
           h == AttachedHome(d, name)
<1>2. CASE u = <<>>
  <2>1. e = d
    <3>1. CASE name = "enclosure"
      <4>1. e = rss_enclosure_start(d, attrs)
        BY <1>1, <3>1, TagsAre
      <4>2. At(d) # "item" \/ Attr(attrs, "url") = <<>>
        BY <1>2, <3>1, TagsAreOf
      <4> QED BY <4>1, <4>2 DEF rss_enclosure_start
    <3>2. CASE name = "source"
      <4>1. e = rss_source_start(d, attrs)
        BY <1>1, <3>2, TagsAre
      <4>2. At(d) # "item" \/ Attr(attrs, "url") = <<>>
        BY <1>2, <3>2, TagsAreOf
      <4> QED BY <4>1, <4>2 DEF rss_source_start
    <3>3. CASE name = "media:content"
      <4>1. e = mediarss_content_start(d, attrs)
        BY <1>1, <3>3, TagsAre
      <4>2. Attr(attrs, "url") = <<>>
        BY <1>2, <3>3, TagsAreOf
      <4> QED BY <4>1, <4>2 DEF mediarss_content_start
    <3>4. CASE name = "media:peerLink"
      <4>1. e = peerlink_start(d, attrs)
        BY <1>1, <3>4, TagsAre
      <4>2. Attr(attrs, "href") = <<>>
        BY <1>2, <3>4, TagsAreOf
      <4> QED BY <4>1, <4>2 DEF peerlink_start
    <3>5. CASE name \in PlayerElements
      <4>1. e = embed_or_player_start(d, attrs)
        BY <1>1, <3>5, TagsAre
      <4>2. Attr(attrs, "url") = <<>>
        BY <1>2, <3>5, TagsAreOf
      <4> QED BY <4>1, <4>2 DEF embed_or_player_start
    <3> QED BY <3>1, <3>2, <3>3, <3>4, <3>5
  <2>2. Untouched(d, e, "attachments") /\ NoneOf(d, e)
    BY <2>1, UntouchedIs DEF NoneOf
  <2> QED BY <1>1, <1>2, <2>2, NothingStarts
<1>3. CASE u # <<>>
  <2>1. Attaches(d, e, u, h) /\ NoneOf(d, e)
    <3>0. name \in {"enclosure", "source"} => At(d) = "item"
      BY <1>3, TagsAreOf
    <3>1. CASE name = "enclosure"
      <4>1. u = Attr(attrs, "url") /\ h = HomeOf(d, "item") /\ e = rss_enclosure_start(d, attrs)
        BY <1>1, <3>0, <3>1, TagsAre, TagsAreOf
      <4> HIDE DEF u, h
      <4> QED BY <1>3, <3>0, <3>1, <4>1, AttachmentTags
    <3>2. CASE name = "source"
      <4>1. u = Attr(attrs, "url") /\ h = HomeOf(d, "item") /\ e = rss_source_start(d, attrs)
        BY <1>1, <3>0, <3>2, TagsAre, TagsAreOf
      <4> HIDE DEF u, h
      <4> QED BY <1>3, <3>0, <3>2, <4>1, AttachmentTags
    <3>3. CASE name = "media:content"
      <4>1. u = Attr(attrs, "url") /\ h = HomeOf(d, Within(d)) /\ e = mediarss_content_start(d, attrs)
        BY <1>1, <3>3, TagsAre, TagsAreOf
      <4> HIDE DEF u, h
      <4> QED BY <1>3, <4>1, AttachmentTags
    <3>4. CASE name = "media:peerLink"
      <4>1. u = Attr(attrs, "href") /\ h = HomeOf(d, Within(d)) /\ e = peerlink_start(d, attrs)
        BY <1>1, <3>4, TagsAre, TagsAreOf
      <4> HIDE DEF u, h
      <4> QED BY <1>3, <4>1, AttachmentTags
    <3>5. CASE name \in PlayerElements
      <4>1. u = Attr(attrs, "url") /\ h = HomeOf(d, Within(d)) /\ e = embed_or_player_start(d, attrs)
        BY <1>1, <3>5, TagsAre, TagsAreOf
      <4> HIDE DEF u, h
      <4> QED BY <1>3, <4>1, AttachmentTags
    <3> QED BY <3>1, <3>2, <3>3, <3>4, <3>5
  <2>2. PersonEntered(d, e, -1) /\ ContentEntered(d, e, -1)
    BY <2>1, PersonNone, ContentNone DEF NoneOf
  <2> QED BY <1>1, <2>1, <2>2 DEF ListsStart
<1> QED BY <1>2, <1>3

LEMMA ContentHandled ==
    ASSUME NEW d, Targets(d, Int, Int, Int), NEW attrs, AttrsOf(attrs, Int), NEW name,
           name \in {"atom:subtitle", "media:description"} \cup AtomTexts,
           NEW e, e = StartHandle(d, name, attrs)
    PROVE  ListsStart(d, name, attrs, e)
<1> DEFINE ty == << <<Key.type, Attr(attrs, "type")>> >>
           m(where) == Entry(d, where, "content", ty)
           c == ContentHome(d, name)
           h == AttachedHome(d, name)
<1>1. /\ name \notin ItemElements /\ PersonHome(d, name) = -1 /\ AttachedUrl(d, name, attrs) = <<>>
  BY TagsAreOf DEF ItemElements, PlayerElements, AtomTexts
<1>2. ASSUME Attaches(d, e, <<>>, h), ContentEntered(d, e, c), Untouched(d, e, "persons")
      PROVE  ListsStart(d, name, attrs, e)
  BY <1>1, <1>2, PersonNone DEF ListsStart
<1>3. ASSUME e = d, c = -1 PROVE ListsStart(d, name, attrs, e)
  <2>1. Untouched(d, e, "attachments") /\ NoneOf(d, e)
    BY <1>3, UntouchedIs DEF NoneOf
  <2> QED BY <1>1, <1>3, <2>1, NothingStarts
<1>4. ASSUME NEW where \in {At(d), Within(d)}, where \in {"item", "feed"}, c = HomeOf(d, where),
             Untouched(m(where), e, "attachments"), NoneOf(m(where), e)
      PROVE  ListsStart(d, name, attrs, e)
  <2> DEFINE x == m(where)
  <2>1. ContentEntered(d, x, c) /\ Untouched(d, x, "attachments") /\ Untouched(d, x, "persons")
    BY <1>4, ContentTags
  <2> HIDE DEF x
  <2>2. Untouched(d, e, "attachments") /\ Untouched(d, e, "persons")
    BY <1>4, <2>1, UntouchedIs DEF NoneOf, x
  <2>3. ContentEntered(d, e, c)
    <3>1. PICK fields \in Seq(Field) : Changes(d, x, "content", c, TRUE, fields) /\ Lacks(fields, Key.text)
      BY <2>1 DEF ContentEntered
    <3>2. Untouched(x, e, "content")
      BY <1>4 DEF NoneOf, x
    <3> HIDE DEF c
    <3>3. Changes(d, e, "content", c, TRUE, fields)
      BY <3>1, <3>2, UntouchedIs
    <3> QED BY <3>1, <3>3 DEF ContentEntered
  <2> QED BY <1>2, <2>2, <2>3, NoneAttached
<1>5. CASE name \in AtomTexts
  <2>1. e = atom_content_start(d, attrs) /\ name \notin {"atom:subtitle", "media:description"}
    BY <1>1, <1>5, TagsAre DEF AtomTexts
  <2>2. CASE At(d) # "item"
    <3>1. e = d /\ c = -1
      BY <2>1, <2>2 DEF atom_content_start, ContentHome
    <3> QED BY <1>3, <3>1
  <2>3. CASE At(d) = "item"
    <3>1. c = HomeOf(d, "item")
      BY <1>5, <2>3 DEF ContentHome, HomeOf
    <3>2. e = m("item") \/ e = [m("item") EXCEPT !.decoy = TRUE, !.text = <<>>]
      BY <2>1, <2>3 DEF atom_content_start
    <3>3. m("item") \in Data
      <4>1. ty \in Seq(Int \X Seq(Int))
        <5> DEFINE w == Attr(attrs, "type")
                   p == <<Key.type, w>>
        <5>1. w \in Seq(Int) /\ Key.type \in Int
          BY AttrIs DEF Key
        <5>2. p \in Int \X Seq(Int)
          BY <5>1
        <5> HIDE DEF p
        <5>3. <<p>> \in Seq(Int \X Seq(Int))
          BY <5>2
        <5> QED BY <5>3 DEF p
      <4>2. "content" \in Lists
        BY DEF Lists
      <4> HIDE DEF ty
      <4>3. Targets(m("item"), Int, Int, Int)
        BY <2>3, <4>1, <4>2, EntryAt
      <4> QED BY <4>3 DEF Targets, Holds
    <3>4. e.items = m("item").items /\ e.feed = m("item").feed
      <4> DEFINE x == m("item")
      <4> HIDE DEF x
      <4>1. x \in Data
        BY <3>3 DEF x
      <4>2. e = x \/ e = [x EXCEPT !.decoy = TRUE, !.text = <<>>]
        BY <3>2 DEF x
      <4>3. e.items = x.items /\ e.feed = x.feed
        BY <4>1, <4>2 DEF Data
      <4> QED BY <4>3 DEF x
    <3> HIDE DEF m
    <3>5. \A f : Untouched(m("item"), e, f)
      BY <3>4, NothingTouched
    <3> QED BY <1>4, <2>3, <3>1, <3>5 DEF NoneOf
  <2> QED BY <2>2, <2>3
<1>6. ASSUME NEW where \in {At(d), Within(d)}, where \in {"item", "feed"}, c = HomeOf(d, where), e = m(where)
      PROVE  ListsStart(d, name, attrs, e)
  <2>1. \A f : Untouched(m(where), e, f)
    BY <1>6, UntouchedIs
  <2> QED BY <1>4, <1>6, <2>1 DEF NoneOf
<1>7. CASE name = "atom:subtitle"
  <2>1. e = atom_subtitle_start(d, attrs)
    BY <1>1, <1>7, TagsAre
  <2>2. CASE At(d) # "feed"
    <3>1. e = d /\ c = -1
      BY <1>7, <2>1, <2>2 DEF atom_subtitle_start, ContentHome, AtomTexts
    <3> QED BY <1>3, <3>1
  <2>3. CASE At(d) = "feed"
    <3>1. e = m("feed") /\ c = HomeOf(d, "feed")
      BY <1>7, <2>1, <2>3 DEF atom_subtitle_start, ContentHome, AtomTexts, HomeOf
    <3> QED BY <1>6, <2>3, <3>1
  <2> QED BY <2>2, <2>3
<1>8. CASE name = "media:description"
  <2>1. e = description_start(d, attrs)
    BY <1>1, <1>8, TagsAre
  <2>2. CASE ~d.in_item
    <3>1. e = d /\ c = -1
      BY <1>8, <2>1, <2>2 DEF description_start, ContentHome, AtomTexts
    <3> QED BY <1>3, <3>1
  <2>3. CASE d.in_item /\ d.path[d.depth] = "MEDIARSS_CONTENT"
    <3>1. c = -1
      BY <1>8, <2>3 DEF ContentHome, AtomTexts
    <3>2. Attaches(d, e, <<>>, h) /\ NoneOf(d, e)
      BY <2>1, <2>3, DescriptionTag
    <3> QED BY <1>2, <3>1, <3>2, ContentNone DEF NoneOf
  <2>4. CASE d.in_item /\ d.path[d.depth] # "MEDIARSS_CONTENT"
    <3>1. e = m("item") /\ c = HomeOf(d, "item") /\ Within(d) = "item"
      BY <1>8, <2>1, <2>4 DEF description_start, ContentHome, AtomTexts, HomeOf, Within
    <3> QED BY <1>6, <3>1
  <2> QED BY <2>2, <2>3, <2>4
<1> QED BY <1>5, <1>7, <1>8

LEMMA ListsHandled ==
    ASSUME NEW d, Targets(d, Int, Int, Int), NEW attrs, AttrsOf(attrs, Int), NEW name,
           name \notin ItemElements, NEW e, e = StartHandle(d, name, attrs)
    PROVE  ListsStart(d, name, attrs, e)
<1> DEFINE A == {"enclosure", "source", "media:content", "media:peerLink"} \cup PlayerElements
           C == {"atom:subtitle", "media:description"} \cup AtomTexts
           P == {"atom:author", "atom:contributor"}
<1>1. CASE name \in A
  BY <1>1, AttachmentHandled
<1>2. CASE name \in C
  BY <1>2, ContentHandled
<1>3. CASE name \in P
  <2>1. name \notin A /\ name \notin C
    BY <1>3 DEF PlayerElements, AtomTexts
  <2>2. AttachedUrl(d, name, attrs) = <<>> /\ PersonHome(d, name) = HomeOf(d, At(d))
        /\ ContentHome(d, name) = -1
    BY <1>3, <2>1, TagsAreOf
  <2>3. \E w \in Letters : e = person_start(d, w)
    BY <1>3, TagsAre, KeysAreNames
  <2>4. /\ PersonEntered(d, e, HomeOf(d, At(d)))
        /\ Untouched(d, e, "attachments") /\ Untouched(d, e, "content")
    BY <2>3, PersonTag
  <2> QED BY <2>2, <2>4, NoneAttached, ContentNone DEF ListsStart
<1>4. CASE name = "atom:link"
  <2>1. name \notin A /\ name \notin C /\ name \notin P
    BY <1>4 DEF PlayerElements, AtomTexts
  <2>2. AttachedUrl(d, name, attrs) = <<>> /\ PersonHome(d, name) = -1 /\ ContentHome(d, name) = -1
    BY <2>1, TagsAreOf
  <2>3. e = atom_link_start(d, attrs)
    BY <1>4, TagsAre
  <2>4. Attaches(d, e, <<>>, AttachedHome(d, name)) /\ NoneOf(d, e)
    BY <2>3, LinkTag
  <2> QED BY <2>2, <2>4, PersonNone, ContentNone DEF ListsStart, NoneOf
<1>5. CASE name \notin A \cup C \cup P \cup {"atom:link"}
  <2>1. AttachedUrl(d, name, attrs) = <<>> /\ PersonHome(d, name) = -1 /\ ContentHome(d, name) = -1
    BY <1>5, TagsAreOf
  <2>2. e = d \/ e = rss_guid_start(d, attrs) \/ e = atom_category_start(d, attrs)
    BY <1>5, TagsAre
  <2>3. Untouched(d, e, "attachments") /\ NoneOf(d, e)
    BY <2>2, OtherTags
  <2> QED BY <2>1, <2>3, NothingStarts
<1> QED BY <1>1, <1>2, <1>3, <1>4, <1>5

PersonEnded(d, name, e) ==
    IF name \in DatumElements /\ d.path[d.depth] = "ATOM_AUTHOR"
    THEN \E fields \in Seq(Field) :
           /\ Changes(d, e, "persons", HomeOf(d, Within(d)), FALSE, fields)
           /\ Lacks(fields, Key.type)
           /\ IF name = "atom:name" THEN Has(fields, Key.name, d.text) ELSE Lacks(fields, Key.name)
    ELSE \E h \in Int : PersonEntered(d, e, h)

ContentEnded(d, name, e) ==
    IF name \in PlainElements \cup HtmlElements
    THEN Enters(d, e, "content", HomeOf(d, Within(d)), TRUE, Key.text, d.text)
    ELSE IF ContentHome(d, name) # -1
    THEN Enters(d, e, "content", ContentHome(d, name), FALSE, Key.text, d.text)
    ELSE Untouched(d, e, "content")

ListsEnded(d, name, e) ==
    /\ Attaches(d, e, <<>>, -1) /\ PersonEnded(d, name, e) /\ ContentEnded(d, name, e)

(* An entry, and more of one, made of two fields at most.                     *)
LEMMA ListEntry ==
    ASSUME NEW d, Targets(d, Int, Int, Int), NEW where \in {At(d), Within(d)}, NEW f \in Lists,
           NEW fields, NEW e
    PROVE  /\ e = Entry(d, where, f, fields) => /\ Changes(d, e, f, HomeOf(d, where), TRUE, fields)
                                                /\ \A g \in Lists : g # f => Untouched(d, e, g)
           /\ e = More(d, where, f, fields) => /\ Changes(d, e, f, HomeOf(d, where), FALSE, fields)
                                               /\ \A g \in Lists : g # f => Untouched(d, e, g)
           /\ HomeOf(d, where) \in Int
<1>1. d \in Data /\ where \in {"item", "feed", "none"} /\ (where = "item" => d.items # <<>>)
  BY Targeting DEF Targets, Holds
<1>2. ASSUME e = Entry(d, where, f, fields)
      PROVE  /\ Changes(d, e, f, HomeOf(d, where), TRUE, fields)
             /\ \A g \in Lists : g # f => Untouched(d, e, g)
  BY <1>1, <1>2, EntryChanges
<1>3. ASSUME e = More(d, where, f, fields)
      PROVE  /\ Changes(d, e, f, HomeOf(d, where), FALSE, fields)
             /\ \A g \in Lists : g # f => Untouched(d, e, g)
  BY <1>1, <1>3, MoreChanges
<1>4. HomeOf(d, where) \in Int
  BY <1>1, HomesAreInt
<1> QED BY <1>2, <1>3, <1>4

ThreeLists == "attachments" \in Lists /\ "persons" \in Lists /\ "content" \in Lists /\ "extras" \in Lists

LEMMA ListsAre == ThreeLists
BY DEF ThreeLists, Lists

(* One or two fields that are led by one of a key.                            *)
LEMMA TwoFields ==
    ASSUME NEW k \in Names, NEW v \in Seq(Int), NEW l \in Names, NEW w \in Seq(Int), k # l
    PROVE  /\ << <<k, v>> >> \in Seq(Field) /\ Has(<< <<k, v>> >>, k, v)
           /\ << <<k, v>>, <<l, w>> >> \in Seq(Field)
           /\ Has(<< <<k, v>>, <<l, w>> >>, k, v) /\ Has(<< <<k, v>>, <<l, w>> >>, l, w)
           /\ \A j : j # k => Lacks(<< <<k, v>> >>, j)
           /\ \A j : j # k /\ j # l => Lacks(<< <<k, v>>, <<l, w>> >>, j)
<1> DEFINE p == <<k, v>>
           q == <<l, w>>
<1>1. p \in Field /\ q \in Field /\ p[1] = k /\ q[1] = l /\ p = <<k, v>> /\ q = <<l, w>>
  BY FieldIs
<1> HIDE DEF p, q
<1> DEFINE F == <<p, q>>
<1>2. DOMAIN F = 1..2 /\ F[1] = p /\ F[2] = q /\ 1 \in DOMAIN F /\ 2 \in DOMAIN F
  OBVIOUS
<1>3. <<p>> \in Seq(Field) /\ F \in Seq(Field) /\ \A j : j # k => Lacks(<<p>>, j)
  <2>1. <<p>> \in Seq(Field) /\ F \in Seq(Field)
    BY <1>1
  <2>2. \A j : j # k => Lacks(<<p>>, j)
    BY <1>1 DEF Lacks
  <2> QED BY <2>1, <2>2
<1>4. Has(<<p>>, k, v)
  BY <1>1 DEF Has
<1> HIDE DEF F
<1>5. \A j : j # k /\ j # l => Lacks(F, j)
  BY <1>1, <1>2 DEF Lacks
<1>6. Has(F, k, v)
  <2>1. \A j \in DOMAIN F : j # 1 => F[j][1] # k
    BY <1>1, <1>2
  <2> QED BY <1>1, <1>2, <2>1 DEF Has
<1>7. Has(F, l, w)
  <2>1. \A j \in DOMAIN F : j # 2 => F[j][1] # l
    BY <1>1, <1>2
  <2> QED BY <1>1, <1>2, <2>1 DEF Has
<1> QED BY <1>3, <1>4, <1>5, <1>6, <1>7 DEF F, p, q

LEMMA OneField ==
    ASSUME NEW k \in Names, NEW v \in Seq(Int)
    PROVE  /\ << <<k, v>> >> \in Seq(Field) /\ Has(<< <<k, v>> >>, k, v)
           /\ \A j : j # k => Lacks(<< <<k, v>> >>, j)
<1>1. PICK l : l \in Names /\ l # k
  <2>1. Key.url \in Names /\ Key.type \in Names /\ Key.url # Key.type
    BY KeysAreNames, KeysAreApart
  <2> QED BY <2>1
<1> QED BY <1>1, TwoFields

LEMMA OthersEnded ==
    ASSUME NEW d, NEW e, Untouched(d, e, "attachments"), NoneOf(d, e), NEW name,
           ~(name \in DatumElements /\ d.path[d.depth] = "ATOM_AUTHOR"),
           name \notin PlainElements \cup HtmlElements, ContentHome(d, name) = -1
    PROVE  ListsEnded(d, name, e)
<1>1. PersonEntered(d, e, -1) /\ -1 \in Int /\ Attaches(d, e, <<>>, -1)
  BY PersonNone, NoneAttached DEF NoneOf
<1> QED BY <1>1 DEF ListsEnded, PersonEnded, ContentEnded, NoneOf

(* Ends that touch none of the three lists.                                   *)
LEMMA PutsNothing ==
    ASSUME NEW d, Targets(d, Int, Int, Int), NEW where \in {At(d), Within(d)}, NEW e,
           \/ e = d
           \/ \E f, v : f \notin Lists /\ e = Put(d, where, f, v)
           \/ \E fields : e = Entry(d, where, "extras", fields)
    PROVE  Untouched(d, e, "attachments") /\ NoneOf(d, e)
<1>1. d \in Data /\ where \in {"item", "feed", "none"} /\ (where = "item" => d.items # <<>>)
  BY Targeting DEF Targets, Holds
<1>2. CASE e = d
  BY <1>2, UntouchedIs DEF NoneOf
<1>3. ASSUME NEW f, NEW v, f \notin Lists, e = Put(d, where, f, v)
      PROVE  Untouched(d, e, "attachments") /\ NoneOf(d, e)
  <2>1. \A g \in Lists : Untouched(d, e, g)
    BY <1>1, <1>3, PutTouches
  <2> QED BY <2>1, ListsAre DEF ThreeLists, NoneOf
<1>4. ASSUME NEW fields, e = Entry(d, where, "extras", fields)
      PROVE  Untouched(d, e, "attachments") /\ NoneOf(d, e)
  <2> DEFINE f == "extras"
  <2>1. f # "attachments" /\ f # "content" /\ f # "persons" /\ f \in Lists /\ e = Entry(d, where, f, fields)
    BY <1>4, ListsAre DEF ThreeLists
  <2> HIDE DEF f
  <2>2. \A g \in Lists : g # f => Untouched(d, e, g)
    BY <2>1, ListEntry
  <2> QED BY <2>1, <2>2, ListsAre DEF ThreeLists, NoneOf
<1> QED BY <1>2, <1>3, <1>4

(* Ends of elements that are persons, or parts of them.                       *)
LEMMA PersonEnds ==
    ASSUME NEW d, Targets(d, Int, Int, Int), NEW where \in {At(d), Within(d)}, NEW type \in Letters,
           NEW k \in {Key.name, Key.email}, NEW e,
           e = Entry(d, where, "persons", << <<Key.type, <<type>> >>, <<k, d.text>> >>)
    PROVE  /\ Untouched(d, e, "attachments") /\ Untouched(d, e, "content")
           /\ \E h \in Int : PersonEntered(d, e, h)
<1> DEFINE f == "persons"
           w == <<type>>
           F == << <<Key.type, w>>, <<k, d.text>> >>
<1>1. w \in Seq(Int) /\ IsWord(w) /\ k \in Names /\ k # Key.type /\ Key.type \in Names
  <2>1. type \in Int
    BY DEF Letters
  <2> QED BY <2>1, KeysAreNames, KeysAreApart DEF IsWord
<1>2. d.text \in Seq(Int)
  BY DEF Targets, Holds, Data
<1>3. e = Entry(d, where, f, F) /\ f \in Lists /\ "attachments" # f /\ "content" # f
  BY ListsAre DEF ThreeLists
<1> HIDE DEF w
<1>4. F \in Seq(Field) /\ Has(F, Key.type, w)
  BY <1>1, <1>2, TwoFields
<1>5. \A h, x : Changes(d, e, f, h, TRUE, x) = Changes(d, e, "persons", h, TRUE, x)
  OBVIOUS
<1> HIDE DEF f, F
<1>6. /\ Changes(d, e, f, HomeOf(d, where), TRUE, F) /\ HomeOf(d, where) \in Int
      /\ \A g \in Lists : g # f => Untouched(d, e, g)
  BY <1>3, ListEntry
<1>7. PersonEntered(d, e, HomeOf(d, where))
  BY <1>1, <1>4, <1>5, <1>6 DEF PersonEntered
<1> QED BY <1>3, <1>6, <1>7, ListsAre DEF ThreeLists

(* Elements whose end tags write to one of the three lists, and what others do. *)
ListEnds == PlainElements \cup HtmlElements \cup AtomTexts \cup {"atom:subtitle", "media:description", "comments",
              "source", "author", "managingEditor", "dc:creator", "dc:contributor", "atom:name", "atom:uri",
              "atom:email"}

EndsPlainly(d, e) ==
    e \in {d, generic_title_end(d), generic_guid_end(d), rss_link_end(d), generic_category_end(d),
           update_date_end(d), publication_date_end(d), rss_ttl_end(d), dublincore_title_end(d),
           georss_point_end(d)}

(* What handler is called for an end tag.                                     *)
LEMMA EndTagsAre ==
    ASSUME NEW d, NEW name, NEW e, e = EndHandle(d, name)
    PROVE  /\ name \in PlainElements => e = content_end(d, Word.plain)
           /\ name \in HtmlElements => e = content_end(d, Word.html)
           /\ name \in AtomTexts => e = atom_content_end(d)
           /\ name = "atom:subtitle" => e = atom_subtitle_end(d)
           /\ name = "media:description" => e = description_end(d)
           /\ name = "comments" => e = rss_comments_end(d)
           /\ name = "source" => e = rss_source_end(d)
           /\ name = "author" => e = rss_author_end(d)
           /\ name = "managingEditor" => e = rss_managingeditor_end(d)
           /\ name = "dc:creator" => e = dublincore_person_end(d, Word.author)
           /\ name = "dc:contributor" => e = dublincore_person_end(d, Word.contributor)
           /\ name = "atom:name" => e = datum_end(d, Key.name)
           /\ name = "atom:uri" => e = datum_end(d, Key.url)
           /\ name = "atom:email" => e = datum_end(d, Key.email)
           /\ name \notin ListEnds \cup ItemElements => EndsPlainly(d, e)
<1> USE DEF ItemElements, TitleElements, GuidElements, LinkElements, SubjectElements, UpdateElements,
        PointElements, PlainElements, HtmlElements, AtomTexts
<1>1. name \in PlainElements => e = content_end(d, Word.plain)
  BY DEF EndHandle
<1>2. name \in HtmlElements => e = content_end(d, Word.html)
  BY DEF EndHandle
<1>3. name \in AtomTexts => e = atom_content_end(d)
  BY DEF EndHandle
<1>4. name = "atom:subtitle" => e = atom_subtitle_end(d)
  BY DEF EndHandle
<1>5. name = "media:description" => e = description_end(d)
  BY DEF EndHandle
<1>6. name = "comments" => e = rss_comments_end(d)
  BY DEF EndHandle
<1>7. name = "source" => e = rss_source_end(d)
  BY DEF EndHandle
<1>8. name = "author" => e = rss_author_end(d)
  BY DEF EndHandle
<1>9. name = "managingEditor" => e = rss_managingeditor_end(d)
  BY DEF EndHandle
<1>10. name = "dc:creator" => e = dublincore_person_end(d, Word.author)
  BY DEF EndHandle
<1>11. name = "dc:contributor" => e = dublincore_person_end(d, Word.contributor)
  BY DEF EndHandle
<1>12. name = "atom:name" => e = datum_end(d, Key.name)
  BY DEF EndHandle
<1>13. name = "atom:uri" => e = datum_end(d, Key.url)
  BY DEF EndHandle
<1>14. name = "atom:email" => e = datum_end(d, Key.email)
  BY DEF EndHandle
<1>15. name \notin ListEnds \cup ItemElements => EndsPlainly(d, e)
  BY DEF EndHandle, ListEnds, EndsPlainly
<1> QED BY <1>15, <1>1, <1>2, <1>3, <1>4, <1>5, <1>6, <1>7, <1>8, <1>9, <1>10, <1>11, <1>12, <1>13, <1>14

LEMMA DatumEnds ==
    ASSUME NEW d, Targets(d, Int, Int, Int), d.path[d.depth] = "ATOM_AUTHOR", NEW name \in DatumElements,
           NEW e, e = EndHandle(d, name)
    PROVE  /\ Untouched(d, e, "attachments") /\ Untouched(d, e, "content") /\ PersonEnded(d, name, e)
<1>1. PICK k \in {Key.name, Key.url, Key.email} :
        e = datum_end(d, k) /\ (name = "atom:name" <=> k = Key.name)
  <2>1. /\ name = "atom:name" => e = datum_end(d, Key.name)
        /\ name = "atom:uri" => e = datum_end(d, Key.url)
        /\ name = "atom:email" => e = datum_end(d, Key.email)
    BY EndTagsAre
  <2>2. name \in {"atom:name", "atom:uri", "atom:email"}
    BY DEF DatumElements
  <2>3. Key.name # Key.url /\ Key.name # Key.email
    BY KeysAreApart
  <2> HIDE DEF datum_end
  <2> QED BY <2>1, <2>2, <2>3
<1> DEFINE f == "persons"
           F == << <<k, d.text>> >>
           where == Within(d)
<1>2. d.text \in Seq(Int) /\ k \in Names /\ k # Key.type
  BY KeysAreNames, KeysAreApart DEF Targets, Holds, Data
<1>3. e = More(d, where, f, F) /\ f \in Lists /\ "attachments" # f /\ "content" # f
  <2>1. e = datum_end(d, k)
    BY <1>1
  <2>2. e = More(d, Within(d), "persons", << <<k, d.text>> >>)
    BY <2>1 DEF datum_end
  <2> QED BY <2>2, ListsAre DEF ThreeLists
<1>4. /\ F \in Seq(Field) /\ Has(F, k, d.text) /\ Lacks(F, Key.type)
      /\ k # Key.name => Lacks(F, Key.name)
  <2>1. PICK v : v = d.text
    OBVIOUS
  <2>2. /\ << <<k, v>> >> \in Seq(Field) /\ Has(<< <<k, v>> >>, k, v)
        /\ \A j : j # k => Lacks(<< <<k, v>> >>, j)
    BY <1>2, <2>1, OneField
  <2> QED BY <1>2, <2>1, <2>2
<1>5. \A h, x : Changes(d, e, f, h, FALSE, x) = Changes(d, e, "persons", h, FALSE, x)
  OBVIOUS
<1> HIDE DEF f, F
<1>6. /\ Changes(d, e, f, HomeOf(d, where), FALSE, F)
      /\ \A g \in Lists : g # f => Untouched(d, e, g)
  BY <1>3, ListEntry
<1>7. PersonEnded(d, name, e)
  <2>1. Changes(d, e, "persons", HomeOf(d, Within(d)), FALSE, F)
    BY <1>5, <1>6
  <2>2. IF name = "atom:name" THEN Has(F, Key.name, d.text) ELSE Lacks(F, Key.name)
    <3>1. CASE name = "atom:name"
      <4>1. k = Key.name
        BY <1>1, <3>1
      <4> QED BY <1>4, <3>1, <4>1
    <3>2. CASE name # "atom:name"
      <4>1. k # Key.name
        BY <1>1, <3>2
      <4> QED BY <1>4, <3>2, <4>1
    <3> QED BY <3>1, <3>2
  <2> QED BY <1>4, <2>1, <2>2 DEF PersonEnded
<1> QED BY <1>3, <1>6, <1>7, ListsAre DEF ThreeLists

LEMMA PlainlyEnds ==
    ASSUME NEW d, Targets(d, Int, Int, Int), NEW e, EndsPlainly(d, e)
    PROVE  Untouched(d, e, "attachments") /\ NoneOf(d, e)
<1> DEFINE Q == Untouched(d, e, "attachments") /\ NoneOf(d, e)
<1>1. e = d => Q
  BY PutsNothing
<1>2. ASSUME NEW where \in {At(d), Within(d)}, NEW f, f \notin Lists, NEW v, e = Put(d, where, f, v) PROVE Q
  BY <1>2, PutsNothing
<1>3. ASSUME NEW where \in {At(d), Within(d)}, NEW fields, e = Entry(d, where, "extras", fields) PROVE Q
  BY <1>3, PutsNothing
<1>4. /\ "title" \notin Lists /\ "guid" \notin Lists /\ "link" \notin Lists /\ "update_date" \notin Lists
      /\ "publication_date" \notin Lists /\ "time_to_live" \notin Lists
  BY DEF Lists
<1>5. d.in_item => Within(d) = "item"
  BY DEF Within
<1> HIDE DEF Q
<1>6. e = generic_title_end(d) => Q
  BY <1>2, <1>4 DEF generic_title_end
<1>7. e = generic_guid_end(d) => Q
  BY <1>1, <1>2, <1>4 DEF generic_guid_end
<1>8. e = rss_link_end(d) => Q
  BY <1>2, <1>4 DEF rss_link_end
<1>9. e = generic_category_end(d) => Q
  BY <1>3 DEF generic_category_end
<1>10. e = update_date_end(d) => Q
  BY <1>1, <1>2, <1>4, <1>5 DEF update_date_end
<1>11. e = publication_date_end(d) => Q
  BY <1>1, <1>2, <1>4 DEF publication_date_end
<1>12. e = rss_ttl_end(d) => Q
  BY <1>1, <1>2, <1>4 DEF rss_ttl_end
<1>13. e = dublincore_title_end(d) => Q
  BY <1>1, <1>2, <1>4 DEF dublincore_title_end
<1>14. e = georss_point_end(d) => Q
  BY <1>1, <1>3, <1>5 DEF georss_point_end
<1>15. Q
  BY <1>1, <1>6, <1>7, <1>8, <1>9, <1>10, <1>11, <1>12, <1>13, <1>14 DEF EndsPlainly
<1> QED BY <1>15 DEF Q

(* Ends that write to the attachments.                                        *)
LEMMA AttachmentEnds ==
    ASSUME NEW d, Targets(d, Int, Int, Int), NEW e,
           \/ e = rss_comments_end(d) \/ e = rss_source_end(d)
           \/ e = description_end(d) /\ (~d.in_item \/ d.path[d.depth] = "MEDIARSS_CONTENT")
    PROVE  Attaches(d, e, <<>>, -1) /\ NoneOf(d, e)
<1> DEFINE f == "attachments"
           w == <<Word.comments>>
           C == << <<Key.url, d.text>>, <<Key.content, w>> >>
           S == << <<Key.title, d.text>> >>
           D == << <<Key.description_text, d.text>> >>
<1>1. /\ Key.url \in Names /\ Key.content \in Names /\ Key.title \in Names /\ Key.description_text \in Names
      /\ Key.title # Key.url /\ Key.description_text # Key.url /\ Key.content # Key.url
  BY KeysAreNames, KeysAreApart
<1>2. w \in Seq(Int) /\ d.text \in Seq(Int)
  <2>1. Word.comments \in Int
    BY DEF Word
  <2>2. d.text \in Seq(Int)
    BY DEF Targets, Holds, Data
  <2> QED BY <2>1, <2>2
<1> HIDE DEF w
<1>3. C \in Seq(Field) /\ S \in Seq(Field) /\ D \in Seq(Field) /\ Lacks(S, Key.url) /\ Lacks(D, Key.url)
  <2>1. C \in Seq(Field)
    BY <1>1, <1>2, TwoFields
  <2>2. S \in Seq(Field) /\ Lacks(S, Key.url)
    BY <1>1, <1>2, OneField
  <2>3. D \in Seq(Field) /\ Lacks(D, Key.url)
    BY <1>1, <1>2, OneField
  <2> QED BY <2>1, <2>2, <2>3
<1>4. \/ e = d
      \/ At(d) = "item" /\ e = Entry(d, "item", f, C)
      \/ At(d) = "item" /\ e = More(d, "item", f, S)
      \/ d.in_item /\ e = More(d, "item", f, D)
  BY DEF rss_comments_end, rss_source_end, description_end, w
<1>5. d \in Data /\ f \in Lists /\ (At(d) = "item" \/ d.in_item => d.items # <<>>)
  BY ListsAre DEF ThreeLists, Targets, Holds
<1>6. "persons" \in Lists /\ "content" \in Lists /\ "persons" # f /\ "content" # f
  BY ListsAre DEF ThreeLists
<1> HIDE DEF C, S, D
<1>8. CASE e = d
  <2>1. Untouched(d, e, "attachments") /\ NoneOf(d, e)
    BY <1>8, UntouchedIs DEF NoneOf
  <2> QED BY <2>1, NoneAttached
<1>9. CASE At(d) = "item" /\ e = Entry(d, "item", f, C)
  <2>1. /\ Changes(d, e, f, HomeOf(d, "item"), TRUE, C) /\ HomeOf(d, "item") \in Int
        /\ \A g \in Lists : g # f => Untouched(d, e, g)
    <3> HIDE DEF f
    <3> QED BY <1>5, <1>9, EntryChanges, HomesAreInt
  <2>2. Attaches(d, e, <<>>, -1)
    BY <1>3, <2>1 DEF Attaches
  <2> QED BY <1>6, <2>1, <2>2 DEF NoneOf
<1>10. ASSUME NEW F \in Seq(Field), Lacks(F, Key.url), d.items # <<>>, e = More(d, "item", f, F)
       PROVE  Attaches(d, e, <<>>, -1) /\ NoneOf(d, e)
  <2>1. Attaches(d, e, <<>>, -1)
    BY <1>5, <1>10, MoreAttaches
  <2>2. \A g \in Lists : g # f => Untouched(d, e, g)
    <3> HIDE DEF f
    <3>1. PICK where : where = "item"
      OBVIOUS
    <3>2. /\ d \in Data /\ where \in {"item", "feed", "none"} /\ f \in Lists /\ d.items # <<>>
          /\ e = More(d, where, f, F)
      BY <1>5, <1>10, <3>1
    <3> QED BY <3>2, MoreChanges
  <2> QED BY <1>6, <2>1, <2>2 DEF NoneOf
<1> QED BY <1>3, <1>4, <1>5, <1>8, <1>9, <1>10

(* Ends that write text to the content.                                       *)
LEMMA ContentEnds ==
    ASSUME NEW d, Targets(d, Int, Int, Int), NEW where \in {At(d), Within(d)}, where \in {"item", "feed"},
           NEW e
    PROVE  /\ \A w \in Letters :
                e = Entry(d, where, "content", << <<Key.type, <<w>> >>, <<Key.text, d.text>> >>) =>
                  /\ Enters(d, e, "content", HomeOf(d, where), TRUE, Key.text, d.text)
                  /\ Untouched(d, e, "attachments") /\ Untouched(d, e, "persons")
           /\ e = More(d, where, "content", << <<Key.text, d.text>> >>) =>
                  /\ Enters(d, e, "content", HomeOf(d, where), FALSE, Key.text, d.text)
                  /\ Untouched(d, e, "attachments") /\ Untouched(d, e, "persons")
<1> DEFINE f == "content"
           M == << <<Key.text, d.text>> >>
<1>1. /\ Key.text \in Names /\ Key.type \in Names /\ Key.type # Key.text /\ d.text \in Seq(Int)
  BY KeysAreNames, KeysAreApart DEF Targets, Holds, Data
<1>2. M \in Seq(Field) /\ Has(M, Key.text, d.text)
  BY <1>1, TwoFields
<1>3. f \in Lists /\ "attachments" # f /\ "persons" # f /\ "attachments" \in Lists /\ "persons" \in Lists
  BY ListsAre DEF ThreeLists
<1>4. \A F, h, new : Changes(d, e, f, h, new, F) = Changes(d, e, "content", h, new, F)
  OBVIOUS
<1>5. ASSUME NEW w \in Letters, e = Entry(d, where, f, << <<Key.type, <<w>> >>, <<Key.text, d.text>> >>)
      PROVE  /\ Enters(d, e, "content", HomeOf(d, where), TRUE, Key.text, d.text)
             /\ Untouched(d, e, "attachments") /\ Untouched(d, e, "persons")
  <2> DEFINE v == <<w>>
             F == << <<Key.type, v>>, <<Key.text, d.text>> >>
  <2>1. v \in Seq(Int)
    BY DEF Letters
  <2>2. e = Entry(d, where, f, F)
    BY <1>5
  <2> HIDE DEF v
  <2>3. F \in Seq(Field) /\ Has(F, Key.text, d.text)
    BY <1>1, <2>1, TwoFields
  <2> HIDE DEF F, f
  <2>4. Changes(d, e, f, HomeOf(d, where), TRUE, F) /\ \A g \in Lists : g # f => Untouched(d, e, g)
    BY <1>3, <2>2, ListEntry
  <2>5. Changes(d, e, "content", HomeOf(d, where), TRUE, F)
    BY <1>4, <2>4
  <2> QED BY <1>3, <2>3, <2>4, <2>5 DEF Enters
<1>6. ASSUME e = More(d, where, f, M)
      PROVE  /\ Enters(d, e, "content", HomeOf(d, where), FALSE, Key.text, d.text)
             /\ Untouched(d, e, "attachments") /\ Untouched(d, e, "persons")
  <2> HIDE DEF f, M
  <2>4. Changes(d, e, f, HomeOf(d, where), FALSE, M) /\ \A g \in Lists : g # f => Untouched(d, e, g)
    BY <1>3, <1>6, ListEntry
  <2>5. Changes(d, e, "content", HomeOf(d, where), FALSE, M)
    BY <1>4, <2>4
  <2> QED BY <1>2, <1>3, <2>4, <2>5 DEF Enters
<1> QED BY <1>5, <1>6

LEMMA EndTagsAreOf ==
    ASSUME NEW d, NEW name
    PROVE  /\ name \in PlainElements \cup HtmlElements => name \notin DatumElements /\ ContentHome(d, name) = -1
           /\ name \in AtomTexts \cup {"atom:subtitle", "media:description"} =>
                name \notin DatumElements /\ name \notin PlainElements \cup HtmlElements
           /\ name \notin AtomTexts \cup {"atom:subtitle", "media:description"} => ContentHome(d, name) = -1
           /\ name \in {"comments", "source", "author", "managingEditor", "dc:creator", "dc:contributor"}
                         \cup DatumElements =>
                /\ name \notin PlainElements \cup HtmlElements /\ ContentHome(d, name) = -1
           /\ name \in {"comments", "source", "author", "managingEditor", "dc:creator", "dc:contributor"} =>
                name \notin DatumElements
           /\ name \notin ListEnds => /\ name \notin DatumElements /\ name \notin PlainElements \cup HtmlElements
                                      /\ ContentHome(d, name) = -1
           /\ name \in AtomTexts => ContentHome(d, name) = IF At(d) = "item" THEN HomeOf(d, "item") ELSE -1
           /\ name = "atom:subtitle" => ContentHome(d, name) = IF At(d) = "feed" THEN HomeOf(d, "feed") ELSE -1
           /\ name = "media:description" =>
                ContentHome(d, name) = IF d.in_item /\ d.path[d.depth] # "MEDIARSS_CONTENT"
                                       THEN HomeOf(d, "item") ELSE -1
<1> USE DEF ContentHome, HomeOf, PlainElements, HtmlElements, AtomTexts, DatumElements, ListEnds
<1>1. name \in PlainElements \cup HtmlElements => name \notin DatumElements /\ ContentHome(d, name) = -1
  OBVIOUS
<1>2. name \in AtomTexts \cup {"atom:subtitle", "media:description"} =>
                name \notin DatumElements /\ name \notin PlainElements \cup HtmlElements
  OBVIOUS
<1>3. name \notin AtomTexts \cup {"atom:subtitle", "media:description"} => ContentHome(d, name) = -1
  OBVIOUS
<1>4. name \in {"comments", "source", "author", "managingEditor", "dc:creator", "dc:contributor"}
                         \cup DatumElements =>
                /\ name \notin PlainElements \cup HtmlElements /\ ContentHome(d, name) = -1
  OBVIOUS
<1>5. name \in {"comments", "source", "author", "managingEditor", "dc:creator", "dc:contributor"} =>
                name \notin DatumElements
  OBVIOUS
<1>6. name \notin ListEnds => /\ name \notin DatumElements /\ name \notin PlainElements \cup HtmlElements
                                      /\ ContentHome(d, name) = -1
  OBVIOUS
<1>7. name \in AtomTexts => ContentHome(d, name) = IF At(d) = "item" THEN HomeOf(d, "item") ELSE -1
  OBVIOUS
<1>8. name = "atom:subtitle" => ContentHome(d, name) = IF At(d) = "feed" THEN HomeOf(d, "feed") ELSE -1
  OBVIOUS
<1>9. name = "media:description" =>
                ContentHome(d, name) = IF d.in_item /\ d.path[d.depth] # "MEDIARSS_CONTENT"
                                       THEN HomeOf(d, "item") ELSE -1
  OBVIOUS
<1> QED BY <1>1, <1>2, <1>3, <1>4, <1>5, <1>6, <1>7, <1>8, <1>9

(* What an end tag of anything but an item does to the three lists.           *)
LEMMA ListsEndHandled ==
    ASSUME NEW d, Targets(d, Int, Int, Int), NEW name, name \notin ItemElements,
           NEW e, e = EndHandle(d, name)
    PROVE  ListsEnded(d, name, e)
<1> DEFINE h == ContentHome(d, name)
<1>1. /\ Word.plain \in Letters /\ Word.html \in Letters /\ Word.author \in Letters
      /\ Word.contributor \in Letters /\ Word.editor \in Letters /\ Key.email \in {Key.name, Key.email}
  BY KeysAreNames
<1>2. d.in_item => Within(d) = "item"
  BY DEF Within
<1>3. CASE name \in PlainElements \cup HtmlElements
  <2>1. \E w \in Letters : e = content_end(d, w)
    BY <1>1, <1>3, EndTagsAre
  <2>2. PICK w \in Letters :
          e = Entry(d, Within(d), "content", << <<Key.type, <<w>> >>, <<Key.text, d.text>> >>)
    BY <2>1 DEF content_end
  <2>3. Within(d) \in {"item", "feed"}
    BY DEF Within
  <2>4. /\ Enters(d, e, "content", HomeOf(d, Within(d)), TRUE, Key.text, d.text)
        /\ Untouched(d, e, "attachments") /\ Untouched(d, e, "persons")
    BY <2>2, <2>3, ContentEnds
  <2>5. name \notin DatumElements
    BY <1>3, EndTagsAreOf
  <2>6. PersonEntered(d, e, -1) /\ -1 \in Int /\ Attaches(d, e, <<>>, -1)
    BY <2>4, PersonNone, NoneAttached
  <2> QED BY <1>3, <2>4, <2>5, <2>6 DEF ListsEnded, PersonEnded, ContentEnded
<1>4. CASE name \in AtomTexts \cup {"atom:subtitle", "media:description"}
  <2>1. name \notin DatumElements /\ name \notin PlainElements \cup HtmlElements
    BY <1>4, EndTagsAreOf
  <2>2. ASSUME NEW where \in {At(d), Within(d)}, where \in {"item", "feed"}, h = HomeOf(d, where),
               e = More(d, where, "content", << <<Key.text, d.text>> >>) \/
               \E x : /\ x = More(d, where, "content", << <<Key.text, d.text>> >>)
                      /\ e.items = x.items /\ e.feed = x.feed
        PROVE  ListsEnded(d, name, e)
    <3> DEFINE x == More(d, where, "content", << <<Key.text, d.text>> >>)
    <3>1. e.items = x.items /\ e.feed = x.feed
      BY <2>2
    <3>2. x = More(d, where, "content", << <<Key.text, d.text>> >>)
      OBVIOUS
    <3> HIDE DEF x
    <3>3. /\ Enters(d, x, "content", h, FALSE, Key.text, d.text)
          /\ Untouched(d, x, "attachments") /\ Untouched(d, x, "persons")
      BY <2>2, <3>2, ContentEnds
    <3>4. \A f : Untouched(x, e, f)
      BY <3>1, NothingTouched
    <3>5. Untouched(d, e, "attachments") /\ Untouched(d, e, "persons")
      BY <3>3, <3>4, UntouchedIs
    <3>6. Enters(d, e, "content", h, FALSE, Key.text, d.text)
      <4> HIDE DEF h
      <4>1. PICK F \in Seq(Field) : Changes(d, x, "content", h, FALSE, F) /\ Has(F, Key.text, d.text)
        BY <3>3 DEF Enters
      <4>2. Changes(d, e, "content", h, FALSE, F)
        BY <3>4, <4>1, UntouchedIs
      <4> QED BY <4>1, <4>2 DEF Enters
    <3>7. h # -1
      <4>1. d \in Data /\ (where = "item" => d.items # <<>>)
        BY <2>2, Targeting DEF Targets, Holds
      <4>2. HomeOf(d, where) \in 0..Len(d.items) /\ Len(d.items) \in Nat
        BY <2>2, <4>1, HomeIsOf, DataItems
      <4> HIDE DEF h
      <4> QED BY <2>2, <4>2
    <3>8. PersonEntered(d, e, -1) /\ -1 \in Int /\ Attaches(d, e, <<>>, -1)
      BY <3>5, PersonNone, NoneAttached
    <3> QED BY <2>1, <3>6, <3>7, <3>8 DEF ListsEnded, PersonEnded, ContentEnded
  <2>3. ASSUME e = d, h = -1 PROVE ListsEnded(d, name, e)
    <3>1. Untouched(d, e, "attachments") /\ NoneOf(d, e)
      BY <2>3, UntouchedIs DEF NoneOf
    <3> QED BY <2>1, <2>3, <3>1, OthersEnded
  <2>4. CASE name \in AtomTexts
    <3>1. e = atom_content_end(d)
      BY <2>4, EndTagsAre
    <3>2. CASE At(d) # "item"
      <4>1. e = d /\ h = -1
        BY <2>4, <3>1, <3>2, EndTagsAreOf DEF atom_content_end
      <4> QED BY <2>3, <4>1
    <3>3. CASE At(d) = "item"
      <4> DEFINE x == More(d, "item", "content", << <<Key.text, d.text>> >>)
      <4>1. e = [x EXCEPT !.decoy = FALSE]
        BY <3>1, <3>3 DEF atom_content_end
      <4>2. x \in Data
        <5> DEFINE P == Int \X Seq(Int)
                   F == << <<Key.text, d.text>> >>
        <5>1. F \in Seq(Field)
          <6>1. d.text \in Seq(Int) /\ Key.text \in Names
            BY KeysAreNames DEF Targets, Holds, Data
          <6> QED BY <6>1, OneField
        <5>2. F \in Seq(Int \X Seq(Int)) /\ "content" \in Lists
          BY <5>1, FieldsAreRows, ListsAre DEF FieldsRows, ThreeLists
        <5> HIDE DEF F
        <5>3. Targets(More(d, "item", "content", F), Int, Int, Int)
          BY <3>3, <5>2, EntryAt
        <5> QED BY <5>3 DEF F, Targets, Holds
      <4>3. e.items = x.items /\ e.feed = x.feed
        <5> HIDE DEF x
        <5> QED BY <4>1, <4>2 DEF Data
      <4>4. h = HomeOf(d, "item")
        BY <2>4, <3>3, EndTagsAreOf
      <4> QED BY <2>2, <3>3, <4>3, <4>4
    <3> QED BY <3>2, <3>3
  <2>5. CASE name = "atom:subtitle"
    <3>1. e = atom_subtitle_end(d)
      BY <2>5, EndTagsAre
    <3>2. CASE At(d) # "feed"
      <4>1. e = d /\ h = -1
        BY <2>5, <3>1, <3>2, EndTagsAreOf DEF atom_subtitle_end
      <4> QED BY <2>3, <4>1
    <3>3. CASE At(d) = "feed"
      <4>1. e = More(d, "feed", "content", << <<Key.text, d.text>> >>) /\ h = HomeOf(d, "feed")
        BY <2>5, <3>1, <3>3, EndTagsAreOf DEF atom_subtitle_end
      <4> QED BY <2>2, <3>3, <4>1
    <3> QED BY <3>2, <3>3
  <2>6. CASE name = "media:description"
    <3>1. e = description_end(d)
      BY <2>6, EndTagsAre
    <3>2. CASE d.in_item /\ d.path[d.depth] # "MEDIARSS_CONTENT"
      <4>1. e = More(d, "item", "content", << <<Key.text, d.text>> >>) /\ h = HomeOf(d, "item")
        BY <2>6, <3>1, <3>2, EndTagsAreOf DEF description_end
      <4> QED BY <1>2, <2>2, <3>2, <4>1
    <3>3. CASE ~d.in_item \/ d.path[d.depth] = "MEDIARSS_CONTENT"
      <4>1. Attaches(d, e, <<>>, -1) /\ NoneOf(d, e)
        BY <3>1, <3>3, AttachmentEnds
      <4>2. h = -1
        BY <2>6, <3>3, EndTagsAreOf
      <4>3. PersonEntered(d, e, -1) /\ -1 \in Int
        BY <4>1, PersonNone DEF NoneOf
      <4> QED BY <2>1, <4>1, <4>2, <4>3 DEF ListsEnded, PersonEnded, ContentEnded, NoneOf
    <3> QED BY <3>2, <3>3
  <2> QED BY <1>4, <2>4, <2>5, <2>6
<1>5. CASE name \in {"comments", "source"}
  <2>1. Attaches(d, e, <<>>, -1) /\ NoneOf(d, e)
    BY <1>5, EndTagsAre, AttachmentEnds
  <2>2. name \notin DatumElements /\ name \notin PlainElements \cup HtmlElements /\ h = -1
    BY <1>5, EndTagsAreOf
  <2>3. PersonEntered(d, e, -1) /\ -1 \in Int
    BY <2>1, PersonNone DEF NoneOf
  <2> QED BY <2>1, <2>2, <2>3 DEF ListsEnded, PersonEnded, ContentEnded, NoneOf
<1>6. CASE name \in {"author", "managingEditor", "dc:creator", "dc:contributor"}
  <2>1. \/ e = rss_author_end(d) \/ e = rss_managingeditor_end(d)
        \/ \E w \in Letters : e = dublincore_person_end(d, w)
    BY <1>1, <1>6, EndTagsAre
  <2>2. \/ e = d
        \/ \E where \in {At(d), Within(d)}, w \in Letters, k \in {Key.name, Key.email} :
              e = Entry(d, where, "persons", << <<Key.type, <<w>> >>, <<k, d.text>> >>)
    BY <1>1, <2>1 DEF rss_author_end, rss_managingeditor_end, dublincore_person_end
  <2>3. name \notin DatumElements /\ name \notin PlainElements \cup HtmlElements /\ h = -1
    BY <1>6, EndTagsAreOf
  <2>4. CASE e = d
    <3>1. Untouched(d, e, "attachments") /\ NoneOf(d, e)
      BY <2>4, UntouchedIs DEF NoneOf
    <3> QED BY <2>3, <3>1, OthersEnded
  <2>5. ASSUME NEW where \in {At(d), Within(d)}, NEW w \in Letters, NEW k \in {Key.name, Key.email},
               e = Entry(d, where, "persons", << <<Key.type, <<w>> >>, <<k, d.text>> >>)
        PROVE  ListsEnded(d, name, e)
    <3>1. /\ Untouched(d, e, "attachments") /\ Untouched(d, e, "content")
          /\ \E x \in Int : PersonEntered(d, e, x)
      BY <2>5, PersonEnds
    <3>2. Attaches(d, e, <<>>, -1)
      BY <3>1, NoneAttached
    <3> QED BY <2>3, <3>1, <3>2 DEF ListsEnded, PersonEnded, ContentEnded
  <2> QED BY <2>2, <2>4, <2>5
<1>7. CASE name \in DatumElements
  <2>1. name \notin PlainElements \cup HtmlElements /\ h = -1
    BY <1>7, EndTagsAreOf
  <2>2. CASE d.path[d.depth] = "ATOM_AUTHOR"
    <3>1. Untouched(d, e, "attachments") /\ Untouched(d, e, "content") /\ PersonEnded(d, name, e)
      BY <1>7, <2>2, DatumEnds
    <3>2. Attaches(d, e, <<>>, -1)
      BY <3>1, NoneAttached
    <3> QED BY <2>1, <3>1, <3>2 DEF ListsEnded, ContentEnded
  <2>3. CASE d.path[d.depth] # "ATOM_AUTHOR"
    <3>1. \E k : e = datum_end(d, k)
      <4>1. name \in {"atom:name", "atom:uri", "atom:email"}
        BY <1>7 DEF DatumElements
      <4> QED BY <4>1, EndTagsAre
    <3>2. e = d
      BY <2>3, <3>1 DEF datum_end
    <3>3. Untouched(d, e, "attachments") /\ NoneOf(d, e)
      BY <3>2, UntouchedIs DEF NoneOf
    <3> QED BY <2>1, <2>3, <3>3, OthersEnded
  <2> QED BY <2>2, <2>3
<1>8. CASE name \notin ListEnds
  <2>1. EndsPlainly(d, e)
    BY <1>8, EndTagsAre
  <2>2. Untouched(d, e, "attachments") /\ NoneOf(d, e)
    BY <2>1, PlainlyEnds
  <2>3. name \notin DatumElements /\ name \notin PlainElements \cup HtmlElements /\ h = -1
    BY <1>8, EndTagsAreOf
  <2> QED BY <2>2, <2>3, OthersEnded
<1> QED BY <1>3, <1>4, <1>5, <1>6, <1>7, <1>8 DEF ListEnds, DatumElements

SameLists(d, e) == e.items = d.items /\ e.feed = d.feed

(* What is done to data between which nothing is stored.                      *)
LEMMA EntersBetween ==
    ASSUME NEW d, NEW a, NEW b, NEW e, SameLists(d, a), SameLists(b, e)
    PROVE  /\ \A url, h : Attaches(a, b, url, h) => Attaches(d, e, url, h)
           /\ \A h : PersonEntered(a, b, h) => PersonEntered(d, e, h)
           /\ \A h : ContentEntered(a, b, h) => ContentEntered(d, e, h)
<1>1. \A f : Untouched(d, a, f) /\ Untouched(b, e, f)
  BY NothingTouched DEF SameLists
<1>2. \A f, h, new, fields : Changes(a, b, f, h, new, fields) => Changes(d, e, f, h, new, fields)
  <2>1. ASSUME NEW f, NEW h, NEW new, NEW fields, Changes(a, b, f, h, new, fields)
        PROVE  Changes(d, e, f, h, new, fields)
    <3>1. Changes(d, b, f, h, new, fields)
      BY <1>1, <2>1, UntouchedIs
    <3> QED BY <1>1, <3>1, UntouchedIs
  <2> QED BY <2>1
<1>3. \A url, h : Attaches(a, b, url, h) => Attaches(d, e, url, h)
  BY <1>1, AttachesBetween
<1>4. ASSUME NEW h, PersonEntered(a, b, h) PROVE PersonEntered(d, e, h)
  BY <1>2, <1>4 DEF PersonEntered
<1>5. ASSUME NEW h, ContentEntered(a, b, h) PROVE ContentEntered(d, e, h)
  BY <1>2, <1>5 DEF ContentEntered
<1> QED BY <1>3, <1>4, <1>5

(* The markup of an element that is not known touches no list.                *)
LEMMA MarkupIsText ==
    ASSUME NEW d \in Data, NEW markup
    PROVE  SameLists(d, xml_default_handler(d, markup))
BY DEF xml_default_handler, Data, SameLists

LEMMA XhtmlHasNoLists ==
    ASSUME NEW d, NEW name, IsXhtml(name), NEW attrs
    PROVE  /\ AttachedUrl(d, name, attrs) = <<>> /\ PersonHome(d, name) = -1 /\ ContentHome(d, name) = -1
           /\ name \notin DatumElements /\ name \notin PlainElements \cup HtmlElements
BY DEF IsXhtml, AttachedUrl, PersonHome, ContentHome, PlayerElements, PersonElements, AtomTexts,
       DatumElements, PlainElements, HtmlElements

(* A start tag.                                                               *)
LEMMA ElementListsStart ==
    ASSUME NEW d, Targets(d, Int, Int, Int), NEW attrs, AttrsOf(attrs, Int), NEW number, NEW name,
           name \notin ItemElements, NEW e, e = start_element_handler(d, name, attrs, number)
    PROVE  ListsStart(d, name, attrs, e)
<1> DEFINE x == Entered(d, name)
<1>0. d \in Data /\ Holds(d, Int, Int)
  BY DEF Targets, Holds
<1>1. /\ x \in Data /\ x.path = [d.path EXCEPT ![Deeper(d)] = Position(name)]
      /\ At(x) = At(d) /\ SameLists(d, x) /\ x.depth = d.depth /\ x.in_item = d.in_item
  BY <1>0, EnteredIs DEF SameLists
<1>2. x.path[x.depth] = d.path[d.depth]
  <2>1. d.path \in [0..PathSize - 1 -> Positions] /\ d.depth \in 0..PathSize - 1 /\ Deeper(d) # d.depth
    BY <1>0, DepthIs DEF Data, Deeper
  <2> QED BY <1>1, <2>1
<1> HIDE DEF x
<1>3. Targets(x, Int, Int, Int)
  BY <1>0, <1>1, DataHolds DEF Targets, SameLists
<1>4. CASE IsXhtml(name)
  <2> DEFINE m == xml_default_handler(x, number)
  <2>1. e = [m EXCEPT !.depth = Deeper(d)]
    BY <1>4 DEF start_element_handler, x, Entered, Deeper
  <2>2. SameLists(x, m) /\ m \in Data \cup {[x EXCEPT !.text = Append(@, number)]}
    BY <1>1, MarkupIsText DEF xml_default_handler
  <2>3. SameLists(m, e)
    <3>1. m = x \/ m = [x EXCEPT !.text = Append(@, number)]
      BY DEF xml_default_handler
    <3> HIDE DEF m
    <3> QED BY <1>1, <2>1, <3>1 DEF SameLists, Data
  <2>4. SameLists(d, e)
    BY <1>1, <2>2, <2>3 DEF SameLists
  <2>5. Untouched(d, e, "attachments") /\ NoneOf(d, e)
    BY <2>4, NothingTouched DEF SameLists, NoneOf
  <2> QED BY <1>4, <2>5, XhtmlHasNoLists, NothingStarts
<1>5. CASE ~IsXhtml(name)
  <2> DEFINE m == StartHandle(x, name, attrs)
  <2>1. e = [m EXCEPT !.depth = Deeper(d)]
    BY <1>5 DEF start_element_handler, x, Entered, Deeper
  <2>2. ListsStart(x, name, attrs, m)
    BY <1>3, ListsHandled
  <2>3. Holds(m, Int, Int)
    <3>1. d.decoy => x.text \in Seq(Int)
      BY <1>1 DEF Data
    <3>2. Targets(m, Int, Int, Int)
      BY <1>1, <1>3, StartHandled DEF Data
    <3> QED BY <3>2 DEF Targets
  <2> HIDE DEF m
  <2>4. SameLists(m, e)
    <3>1. Deeper(d) \in 0..PathSize - 1
      BY <1>0, DepthIs DEF Deeper, Data
    <3> QED BY <2>1, <2>3, <3>1, DepthSet DEF SameLists
  <2>5. /\ AttachedUrl(x, name, attrs) = AttachedUrl(d, name, attrs)
        /\ AttachedHome(x, name) = AttachedHome(d, name)
        /\ PersonHome(x, name) = PersonHome(d, name) /\ ContentHome(x, name) = ContentHome(d, name)
    <3>1. x.items = d.items /\ Within(x) = Within(d)
      BY <1>1 DEF SameLists, Within
    <3>2. \A where : HomeOf(x, where) = HomeOf(d, where)
      BY <3>1 DEF HomeOf
    <3>3. AttachedUrl(x, name, attrs) = AttachedUrl(d, name, attrs)
      BY <1>1 DEF AttachedUrl
    <3>4. AttachedHome(x, name) = AttachedHome(d, name) /\ PersonHome(x, name) = PersonHome(d, name)
      BY <1>1, <3>1, <3>2 DEF AttachedHome, PersonHome
    <3>5. ContentHome(x, name) = ContentHome(d, name)
      BY <1>1, <1>2, <3>1 DEF ContentHome
    <3> QED BY <3>3, <3>4, <3>5
  <2> QED BY <1>1, <2>2, <2>4, <2>5, EntersBetween DEF ListsStart
<1> QED BY <1>4, <1>5

(* The start tag of an item: its lists are empty, those there are stay.       *)
LEMMA ItemListsStart ==
    ASSUME NEW d \in Data, NEW attrs, NEW number, NEW name \in ItemElements,
           NEW e, e = start_element_handler(d, name, attrs, number), NEW f \in Lists
    PROVE  /\ Len(e.items) = Len(d.items) + 1
           /\ \A k \in 0..Len(d.items) : ListOf(e, k, f) = ListOf(d, k, f)
           /\ ListOf(e, Len(d.items) + 1, f) = <<>>
<1>1. Holds(d, Int, Int)
  BY DataHolds
<1>2. ItemStarted(d, name, e)
  BY <1>1, StartItem
<1>3. Len(d.items) \in Nat
  BY DataItems
<1>4. NoItem[f] = <<>>
  BY DEF NoItem, Lists
<1>5. /\ Len(e.items) = Len(d.items) + 1 /\ e.items[1] = NoItem /\ e.feed = d.feed
      /\ \A k \in 2..Len(d.items) + 1 : e.items[k] = d.items[k - 1]
  BY <1>2 DEF ItemStarted
<1>6. ASSUME NEW k \in 0..Len(d.items) PROVE ListOf(e, k, f) = ListOf(d, k, f)
  <2>1. CASE k = 0
    BY <1>5, <2>1 DEF ListOf
  <2>2. CASE k # 0
    <3>1. PICK L \in Nat : L = Len(d.items)
      BY <1>3
    <3>2. k \in 1..L
      BY <2>2, <3>1
    <3>3. PICK j \in 2..L + 1 : j = L + 1 + 1 - k /\ j - 1 = L + 1 - k
      BY <3>2
    <3>4. e.items[j] = d.items[j - 1]
      BY <1>5, <3>1
    <3> QED BY <1>5, <2>2, <3>1, <3>3, <3>4 DEF ListOf
  <2> QED BY <2>1, <2>2
<1>7. ListOf(e, Len(d.items) + 1, f) = <<>>
  <2>1. Len(e.items) + 1 - (Len(d.items) + 1) = 1 /\ Len(d.items) + 1 # 0
    BY <1>3, <1>5
  <2> QED BY <1>4, <1>5, <2>1 DEF ListOf
<1> QED BY <1>5, <1>6, <1>7

(* An end tag.                                                                *)
LEMMA ElementListsEnd ==
    ASSUME NEW d \in Data, Targets(Left(d), Int, Int, Int), NEW number, NEW name,
           name \notin ItemElements, NEW e, e = end_element_handler(d, name, number)
    PROVE  ListsEnded(Left(d), name, e)
<1> DEFINE x == Left(d)
<1> HIDE DEF x
<1>1. Targets(x, Int, Int, Int) /\ x \in Data
  BY DEF x, Targets, Holds
<1>2. CASE IsXhtml(name)
  <2>1. e = xml_default_handler(x, number)
    BY <1>2 DEF end_element_handler, x, Left, Trimmed
  <2>2. SameLists(x, e)
    BY <1>1, <2>1, MarkupIsText
  <2>3. Untouched(x, e, "attachments") /\ NoneOf(x, e)
    BY <2>2, NothingTouched DEF SameLists, NoneOf
  <2> QED BY <1>2, <2>3, XhtmlHasNoLists, OthersEnded DEF x
<1>3. CASE ~IsXhtml(name)
  <2>1. e = EndHandle(x, name)
    BY <1>3 DEF end_element_handler, x, Left, Trimmed
  <2> QED BY <1>1, <2>1, ListsEndHandled DEF x
<1> QED BY <1>2, <1>3

(* All lists f are of the form that is read.                                  *)
FormedList(d, f) == \A k \in 0..Len(d.items) : ListOf(d, k, f) \in Form

LEMMA FormedChanges ==
    ASSUME NEW d, NEW e, NEW f, FormedList(d, f), NEW h, NEW new \in BOOLEAN, NEW fields \in Seq(Field),
           Changes(d, e, f, h, new, fields)
    PROVE  FormedList(e, f)
<1>1. ASSUME NEW k \in 0..Len(d.items) PROVE ListOf(e, k, f) \in Form
  <2>1. ListOf(d, k, f) \in Form
    BY DEF FormedList
  <2>2. Made(ListOf(d, k, f), new, fields) \in Form
    BY <2>1, MadeReads
  <2> QED BY <2>1, <2>2 DEF Changes
<1> QED BY <1>1 DEF FormedList, Changes

LEMMA FormedUntouched ==
    ASSUME NEW d, NEW e, NEW f, FormedList(d, f), Untouched(d, e, f)
    PROVE  FormedList(e, f)
BY DEF FormedList, Untouched

(* Fields that are added one after the other.                                 *)
LEMMA MadeTwice ==
    ASSUME NEW old \in Form, NEW new \in BOOLEAN, NEW fields \in Seq(Field), NEW x \in Field
    PROVE  Made(Made(old, new, fields), FALSE, <<x>>) = Made(old, new, Append(fields, x))
<1> DEFINE t == IF new THEN serialize_caret(old) ELSE old
<1>1. t \in Form
  BY CaretReads
<1> HIDE DEF t
<1> DEFINE u == serialize_fields(t, fields)
<1>2. u \in Form
  BY <1>1, FieldsAppend
<1>3. Made(old, new, fields) = u
  BY DEF Made, t
<1>4. Made(old, new, Append(fields, x)) = serialize_array(u, x[1], x[2])
  BY <1>1, FieldsAppend DEF Made, t
<1> HIDE DEF u
<1>5. serialize_fields(u, <<x>>) = serialize_array(u, x[1], x[2])
  <2>1. <<>> \in Seq(Field) /\ Append(<<>>, x) = <<x>>
    OBVIOUS
  <2>2. serialize_fields(u, Append(<<>>, x)) = serialize_array(serialize_fields(u, <<>>), x[1], x[2])
    BY <1>2, <2>1, FieldsAppend
  <2> QED BY <1>2, <2>1, <2>2, FieldsAppend
<1>6. Made(u, FALSE, <<x>>) = serialize_fields(u, <<x>>)
  BY DEF Made
<1> QED BY <1>3, <1>4, <1>5, <1>6

LEMMA ChangesTwice ==
    ASSUME NEW d, NEW m, NEW e, NEW f, FormedList(d, f), NEW h, NEW new \in BOOLEAN, NEW fields \in Seq(Field),
           NEW x \in Field, Changes(d, m, f, h, new, fields), Changes(m, e, f, h, FALSE, <<x>>)
    PROVE  Changes(d, e, f, h, new, Append(fields, x))
<1>1. ASSUME NEW k \in 0..Len(d.items)
      PROVE  ListOf(e, k, f) = IF k = h THEN Made(ListOf(d, k, f), new, Append(fields, x)) ELSE ListOf(d, k, f)
  <2>1. ListOf(m, k, f) = IF k = h THEN Made(ListOf(d, k, f), new, fields) ELSE ListOf(d, k, f)
    BY DEF Changes
  <2>2. ListOf(e, k, f) = IF k = h THEN Made(ListOf(m, k, f), FALSE, <<x>>) ELSE ListOf(m, k, f)
    BY DEF Changes
  <2>3. Made(Made(ListOf(d, k, f), new, fields), FALSE, <<x>>) = Made(ListOf(d, k, f), new, Append(fields, x))
    BY MadeTwice DEF FormedList
  <2> QED BY <2>1, <2>2, <2>3
<1> QED BY <1>1 DEF Changes

LEMMA MadeNothing ==
    ASSUME NEW d, NEW f, FormedList(d, f), NEW h
    PROVE  Changes(d, d, f, h, FALSE, <<>>)
<1>1. ASSUME NEW k \in 0..Len(d.items) PROVE Made(ListOf(d, k, f), FALSE, <<>>) = ListOf(d, k, f)
  BY FieldsAppend DEF Made, FormedList
<1> QED BY <1>1 DEF Changes

SameIndexes(d, e) ==
    /\ e.item_index = d.item_index /\ e.author_index = d.author_index
    /\ e.attachment_index = d.attachment_index

LEMMA PutIndexes ==
    ASSUME NEW d \in Data, NEW where, NEW f, NEW v
    PROVE  SameIndexes(d, Put(d, where, f, v))
BY DEF Put, Data, SameIndexes

LEMMA EntryIndexes ==
    ASSUME NEW d \in Data, NEW where, NEW f, NEW fields
    PROVE  SameIndexes(d, Entry(d, where, f, fields)) /\ SameIndexes(d, More(d, where, f, fields))
<1>1. SameIndexes(d, d)
  BY DEF SameIndexes
<1> QED BY <1>1, PutIndexes DEF Entry, More

(* A row of a person.                                                         *)
PersonRead(d, e, where, row, value) ==
    /\ Untouched(d, e, "attachments") /\ Untouched(d, e, "content")
    /\ e.author_index = row.index /\ e.item_index = d.item_index /\ e.attachment_index = d.attachment_index
    /\ \E fields \in Seq(Field) :
         /\ Changes(d, e, "persons", HomeOf(d, where), row.index # d.author_index, fields)
         /\ row.index # d.author_index => \E v : IsWord(v) /\ Has(fields, Key.type, v)
         /\ row.index = d.author_index => Lacks(fields, Key.type)
         /\ IF row.key = "name" THEN Has(fields, Key.name, value) ELSE Lacks(fields, Key.name)

LEMMA Appended ==
    ASSUME NEW S, NEW p \in S, NEW q \in S
    PROVE  Append(<<>>, q) = <<q>> /\ Append(<<p>>, q) = <<p, q>>
<1>1. ASSUME NEW s \in Seq(S) PROVE Append(s, q) \in Seq(S) /\ Len(Append(s, q)) = Len(s) + 1
                                     /\ \A i \in 1..Len(s) + 1 : Append(s, q)[i] = IF i <= Len(s) THEN s[i] ELSE q
  OBVIOUS
<1>2. <<>> \in Seq(S) /\ <<q>> \in Seq(S) /\ <<p>> \in Seq(S) /\ <<p, q>> \in Seq(S)
  OBVIOUS
<1> DEFINE a == Append(<<>>, q)
           b == Append(<<p>>, q)
           c == <<q>>
           e == <<p, q>>
<1>3. a \in Seq(S) /\ Len(a) = 1 /\ a[1] = q /\ b \in Seq(S) /\ Len(b) = 2 /\ b[1] = p /\ b[2] = q
  BY <1>1, <1>2
<1>4. c \in Seq(S) /\ Len(c) = 1 /\ c[1] = q /\ e \in Seq(S) /\ Len(e) = 2 /\ e[1] = p /\ e[2] = q
  BY <1>2
<1> HIDE DEF a, b, c, e
<1>5. a = c
  <2>1. \A i \in 1..Len(a) : i = 1
    BY <1>3
  <2>2. \A i \in 1..Len(a) : a[i] = c[i]
    BY <1>3, <1>4, <2>1
  <2> QED BY <1>3, <1>4, <2>2, SeqEqual
<1>6. b = e
  <2>1. \A i \in 1..Len(b) : i = 1 \/ i = 2
    BY <1>3
  <2>2. \A i \in 1..Len(b) : b[i] = e[i]
    BY <1>3, <1>4, <2>1
  <2> QED BY <1>3, <1>4, <2>2, SeqEqual
<1> QED BY <1>5, <1>6 DEF a, b, c, e

LEMMA PersonFields ==
    ASSUME NEW new \in BOOLEAN, NEW w \in Letters, NEW fields \in Seq(Field),
           fields = IF new THEN << <<Key.type, <<w>> >> >> ELSE <<>>, NEW value \in Seq(Int)
    PROVE  /\ new => Has(fields, Key.type, <<w>>)
           /\ ~new => Lacks(fields, Key.type)
           /\ Lacks(fields, Key.name)
           /\ \A k \in {Key.name, Key.url} :
                LET more == Append(fields, <<k, value>>)
                IN  /\ more \in Seq(Field) /\ Has(more, k, value)
                    /\ new => Has(more, Key.type, <<w>>)
                    /\ ~new => Lacks(more, Key.type)
                    /\ k # Key.name => Lacks(more, Key.name)
<1>1. Key.type \in Names /\ Key.name \in Names /\ Key.url \in Names
  BY KeysAreNames
<1>2. Key.type # Key.name /\ Key.type # Key.url /\ Key.name # Key.url
  BY KeysAreApart
<1>3. <<w>> \in Seq(Int)
  BY DEF Letters
<1> DEFINE type == Key.type
           name == Key.name
           url == Key.url
           p == <<type, <<w>> >>
<1>4. p \in Field /\ p[1] = type
  BY <1>1, <1>3, FieldIs
<1>5. ASSUME NEW k \in {name, url}
      PROVE  LET more == Append(fields, <<k, value>>)
             IN  /\ more \in Seq(Field) /\ Has(more, k, value)
                 /\ new => Has(more, type, <<w>>)
                 /\ ~new => Lacks(more, type)
                 /\ k # name => Lacks(more, name)
  <2> DEFINE q == <<k, value>>
             more == Append(fields, q)
  <2>1. q \in Field /\ q[1] = k /\ k # type
    BY <1>1, <1>2, FieldIs
  <2>2. CASE new
    <3>1. more = <<p, q>>
      <4>1. fields = <<p>>
        BY <2>2
      <4> HIDE DEF p, q
      <4> QED BY <1>4, <2>1, <4>1, Appended
    <3> HIDE DEF more
    <3>2. more \in Seq(Field) /\ DOMAIN more = {1, 2} /\ more[1] = p /\ more[2] = q
      BY <1>4, <2>1, <3>1
    <3>3. Has(more, type, <<w>>) /\ Has(more, k, value)
      <4> HIDE DEF type, p, q
      <4>1. Has(more, type, <<w>>)
        BY <1>4, <2>1, <3>2 DEF Has, p
      <4>2. Has(more, k, value)
        BY <1>4, <2>1, <3>2 DEF Has, q
      <4> QED BY <4>1, <4>2
    <3>4. k # name => Lacks(more, name)
      BY <1>2, <1>4, <2>1, <3>2 DEF Lacks
    <3> QED BY <2>2, <3>2, <3>3, <3>4 DEF more
  <2>3. CASE ~new
    <3>1. more = <<q>>
      <4>1. fields = <<>>
        BY <2>3
      <4> HIDE DEF q
      <4> QED BY <2>1, <4>1, Appended
    <3> HIDE DEF more
    <3>2. more \in Seq(Field) /\ DOMAIN more = {1} /\ more[1] = q
      BY <2>1, <3>1
    <3>3. Has(more, k, value) /\ Lacks(more, type) /\ (k # name => Lacks(more, name))
      BY <2>1, <3>2 DEF Has, Lacks
    <3> QED BY <2>3, <3>2, <3>3 DEF more
  <2> QED BY <2>2, <2>3
<1>6. new => Has(fields, type, <<w>>) /\ Lacks(fields, name)
  <2> SUFFICES ASSUME new PROVE Has(fields, type, <<w>>) /\ Lacks(fields, name)
    OBVIOUS
  <2>1. DOMAIN fields = {1} /\ fields[1] = p
    OBVIOUS
  <2> HIDE DEF type
  <2> QED BY <1>2, <1>4, <2>1 DEF Has, Lacks, type
<1>7. ~new => Lacks(fields, type) /\ Lacks(fields, name)
  BY DEF Lacks
<1> QED BY <1>5, <1>6, <1>7

LEMMA PersonRowRead ==
    ASSUME NEW d, NEW where, Aims(d, where, Int, Int, Int), FormedList(d, "persons"),
           NEW row \in Rows, NEW value \in Seq(Int), NEW e, e = JsonPerson(d, where, row, value)
    PROVE  PersonRead(d, e, where, row, value)
<1> DEFINE f == "persons"
           i == [d EXCEPT !.author_index = row.index]
           w == Word.author
           typed == << <<Key.type, <<w>> >> >>
           n == Entry(i, where, f, typed)
           new == row.index # d.author_index
           fields == IF new THEN typed ELSE <<>>
           fresh == IF new THEN n ELSE d
           h == HomeOf(d, where)
<1>0. d \in Data /\ row.index \in Int /\ where \in {"item", "feed"} /\ (where = "item" => d.items # <<>>)
  BY DEF Aims, Holds, Rows
<1>01. w \in Letters /\ <<w>> \in Seq(Int)
  BY KeysAreNames DEF Letters
<1> HIDE DEF w
<1>02. typed \in Seq(Field)
  BY <1>01, KeysAreNames, OneField
<1>03. fields \in Seq(Field)
  <2>1. <<>> \in Seq(Field)
    OBVIOUS
  <2> HIDE DEF typed
  <2> QED BY <1>02, <2>1
<1>04. f \in Lists /\ "attachments" \in Lists /\ "content" \in Lists
  BY DEF Lists
<1>1. i \in Data /\ SameLists(d, i) /\ i.author_index = row.index /\ i.item_index = d.item_index
      /\ i.attachment_index = d.attachment_index
  BY <1>0 DEF Data, SameLists
<1>2. /\ Changes(d, fresh, f, h, new, fields)
      /\ Untouched(d, fresh, "attachments") /\ Untouched(d, fresh, "content")
      /\ fresh \in Data /\ fresh.author_index = row.index /\ fresh.item_index = d.item_index
      /\ fresh.attachment_index = d.attachment_index
  <2>1. CASE new
    <3>1. Untouched(d, i, "attachments") /\ Untouched(d, i, "content") /\ Untouched(d, i, f)
      BY <1>1, NothingTouched DEF SameLists
    <3>2. HomeOf(i, where) = h /\ (where = "item" => i.items # <<>>)
      BY <1>0, <1>1 DEF HomeOf, SameLists
    <3>20. "attachments" # f /\ "content" # f
      OBVIOUS
    <3> HIDE DEF i, typed, h, f
    <3>3. /\ Changes(i, n, f, HomeOf(i, where), TRUE, typed)
          /\ Untouched(i, n, "attachments") /\ Untouched(i, n, "content")
      <4>1. \A g \in Lists : g # f => Untouched(i, n, g)
        BY <1>0, <1>04, <1>1, <3>2, EntryChanges DEF n
      <4>2. Changes(i, n, f, HomeOf(i, where), TRUE, typed)
        BY <1>0, <1>04, <1>1, <3>2, EntryChanges DEF n
      <4> QED BY <1>04, <3>20, <4>1, <4>2
    <3>4. SameIndexes(i, n)
      BY <1>1, EntryIndexes
    <3>5. n \in Data
      <4>1. Holds(i, Int, Int)
        BY <1>1, DataHolds
      <4>2. Aims(i, where, Int, Int, Int)
        BY <1>0, <3>2, <4>1, IntegersAreTokens DEF Aims, Into
      <4>3. typed \in Seq(Int \X Seq(Int))
        BY <1>02, FieldsAreRows DEF FieldsRows
      <4>4. Done(i, where, Int, Int, Int, n)
        BY <1>04, <4>2, <4>3, AimedEntry
      <4> QED BY <4>4 DEF Done, Aims, Holds
    <3> HIDE DEF n
    <3>6. Changes(d, n, f, h, TRUE, typed)
      BY <3>1, <3>2, <3>3, UntouchedIs
    <3>7. Untouched(d, n, "attachments") /\ Untouched(d, n, "content")
      BY <3>1, <3>3, UntouchedIs
    <3> QED BY <1>1, <2>1, <3>4, <3>5, <3>6, <3>7 DEF SameIndexes
  <2>2. CASE ~new
    <3>1. Changes(d, d, f, h, FALSE, <<>>)
      BY MadeNothing
    <3>2. Untouched(d, d, "attachments") /\ Untouched(d, d, "content")
      BY UntouchedIs
    <3> QED BY <1>0, <2>2, <3>1, <3>2
  <2> QED BY <2>1, <2>2
<1>3. e = CASE row.key = "name" -> More(fresh, where, f, << <<Key.name, value>> >>)
            [] row.key = "url"  -> More(fresh, where, f, << <<Key.url, value>> >>)
            [] OTHER -> fresh
  BY DEF JsonPerson, w
<1>4. HomeOf(fresh, where) = h /\ (where = "item" => fresh.items # <<>>)
  <2>1. Len(fresh.items) = Len(d.items)
    BY <1>2 DEF Changes
  <2>2. d.items # <<>> <=> fresh.items # <<>>
    BY <1>0, <1>2, <2>1, SameLength
  <2> QED BY <1>0, <2>1, <2>2 DEF HomeOf
<1> HIDE DEF fresh, h, f
<1>5. ASSUME NEW k \in {Key.name, Key.url}, e = More(fresh, where, f, << <<k, value>> >>)
      PROVE  /\ Changes(d, e, f, h, new, Append(fields, <<k, value>>))
             /\ Untouched(d, e, "attachments") /\ Untouched(d, e, "content")
             /\ e.author_index = row.index /\ e.item_index = d.item_index /\ e.attachment_index = d.attachment_index
  <2> DEFINE x == <<k, value>>
  <2>1. x \in Field
    BY KeysAreNames, FieldIs
  <2> HIDE DEF x, fields, typed
  <2>2. e = More(fresh, where, f, <<x>>)
    BY <1>5 DEF x
  <2>3. /\ Changes(fresh, e, f, h, FALSE, <<x>>)
        /\ \A g \in Lists : g # f => Untouched(fresh, e, g)
    BY <1>0, <1>04, <1>2, <1>4, <2>2, MoreChanges DEF f
  <2>4. SameIndexes(fresh, e)
    BY <1>2, <2>2, EntryIndexes
  <2>5. Untouched(fresh, e, "attachments") /\ Untouched(fresh, e, "content")
    BY <1>04, <2>3 DEF f
  <2>6. Untouched(d, e, "attachments") /\ Untouched(d, e, "content")
    BY <1>2, <2>5, UntouchedIs
  <2>7. Changes(d, e, f, h, new, Append(fields, x))
    <3>1. new \in BOOLEAN /\ FormedList(d, f)
      BY DEF f
    <3> HIDE DEF new
    <3> QED BY <1>03, <1>2, <2>1, <2>3, <3>1, ChangesTwice
  <2> QED BY <1>2, <2>4, <2>6, <2>7 DEF x, SameIndexes
<1> HIDE DEF typed
<1>6. new \in BOOLEAN /\ fields = IF new THEN << <<Key.type, <<w>> >> >> ELSE <<>>
  BY DEF typed
<1>7. IsWord(<<w>>)
  BY <1>01 DEF IsWord
<1> DEFINE r == e
           Fine(s) == /\ s \in Seq(Field)
                      /\ Changes(d, r, f, h, new, s)
                      /\ new => \E v : IsWord(v) /\ Has(s, Key.type, v)
                      /\ ~new => Lacks(s, Key.type)
                      /\ IF row.key = "name" THEN Has(s, Key.name, value) ELSE Lacks(s, Key.name)
<1>8. /\ \E s : Fine(s)
      /\ Untouched(d, e, "attachments") /\ Untouched(d, e, "content")
      /\ e.author_index = row.index /\ e.item_index = d.item_index /\ e.attachment_index = d.attachment_index
  <2> HIDE DEF fields, new
  <2>1. /\ new => Has(fields, Key.type, <<w>>)
        /\ ~new => Lacks(fields, Key.type)
        /\ Lacks(fields, Key.name)
    BY <1>01, <1>03, <1>6, PersonFields
  <2>2. \A k \in {Key.name, Key.url} :
                LET more == Append(fields, <<k, value>>)
                IN  /\ more \in Seq(Field) /\ Has(more, k, value)
                    /\ new => Has(more, Key.type, <<w>>)
                    /\ ~new => Lacks(more, Key.type)
                    /\ k # Key.name => Lacks(more, Key.name)
    BY <1>01, <1>03, <1>6, PersonFields
  <2>3. CASE row.key = "name"
    <3>1. e = More(fresh, where, f, << <<Key.name, value>> >>)
      BY <1>3, <2>3
    <3>2. Fine(Append(fields, <<Key.name, value>>))
      BY <1>5, <1>7, <2>2, <2>3, <3>1
    <3> HIDE DEF Fine
    <3> QED BY <1>5, <3>1, <3>2
  <2>4. CASE row.key = "url"
    <3>1. e = More(fresh, where, f, << <<Key.url, value>> >>)
      BY <1>3, <2>4
    <3>2. Key.url # Key.name
      BY KeysAreApart
    <3>3. Fine(Append(fields, <<Key.url, value>>))
      BY <1>5, <1>7, <2>2, <2>4, <3>1, <3>2
    <3> HIDE DEF Fine
    <3> QED BY <1>5, <3>1, <3>3
  <2>5. CASE row.key \notin {"name", "url"}
    <3>1. e = fresh
      BY <1>3, <2>5
    <3>2. Fine(fields)
      BY <1>03, <1>2, <1>7, <2>1, <2>5, <3>1
    <3> HIDE DEF Fine
    <3> QED BY <1>2, <3>1, <3>2
  <2> QED BY <2>3, <2>4, <2>5
<1> HIDE DEF fields
<1> QED BY <1>8 DEF PersonRead, f, h

(* A row of an attachment.                                                    *)
AttachmentRead(d, e, row, value) ==
    /\ Untouched(d, e, "persons") /\ Untouched(d, e, "content")
    /\ e.attachment_index = row.index /\ e.item_index = d.item_index /\ e.author_index = d.author_index
    /\ \E fields \in Seq(Field) :
         /\ Changes(d, e, "attachments", Len(d.items), row.index # d.attachment_index, fields)
         /\ IF row.key = "url" THEN Has(fields, Key.url, value) ELSE Lacks(fields, Key.url)

(* The key of a member of an attachment.                                      *)
AttachmentKey(key) ==
    CASE key = "url" -> Key.url
      [] key = "mime_type" -> Key.type
      [] key = "size_in_bytes" -> Key.size
      [] key = "duration_in_seconds" -> Key.duration
      [] OTHER -> 0

LEMMA AttachmentKeys ==
    ASSUME NEW key
    PROVE  /\ AttachmentKey(key) # 0 => AttachmentKey(key) \in Names
           /\ AttachmentKey(key) = Key.url <=> key = "url"
           /\ key = "url" => AttachmentKey(key) # 0
<1>1. /\ Key.url \in Names /\ Key.type \in Names /\ Key.size \in Names /\ Key.duration \in Names
  BY KeysAreNames
<1>2. /\ Key.url # Key.type /\ Key.url # Key.size /\ Key.url # Key.duration /\ Key.url # 0
  BY DEF Key
<1> QED BY <1>1, <1>2 DEF AttachmentKey

LEMMA AttachmentRowRead ==
    ASSUME NEW d, Aims(d, "item", Int, Int, Int), FormedList(d, "attachments"),
           NEW row \in Rows, NEW value \in Seq(Int), NEW e, e = JsonAttachment(d, row, value)
    PROVE  AttachmentRead(d, e, row, value)
<1> DEFINE f == "attachments"
           i == [d EXCEPT !.attachment_index = row.index]
           n == Entry(i, "item", f, <<>>)
           new == row.index # d.attachment_index
           fresh == IF new THEN n ELSE d
           h == Len(d.items)
           key == AttachmentKey(row.key)
<1>0. d \in Data /\ row.index \in Int /\ d.items # <<>>
  BY DEF Aims, Holds, Rows
<1>03. <<>> \in Seq(Field)
  OBVIOUS
<1>04. "persons" \in Lists /\ "attachments" \in Lists /\ "content" \in Lists
  BY DEF Lists
<1>1. i \in Data /\ SameLists(d, i) /\ i.attachment_index = row.index /\ i.item_index = d.item_index
      /\ i.author_index = d.author_index
  BY <1>0 DEF Data, SameLists
<1>2. /\ Changes(d, fresh, f, h, new, <<>>)
      /\ Untouched(d, fresh, "persons") /\ Untouched(d, fresh, "content")
      /\ fresh \in Data /\ fresh.attachment_index = row.index /\ fresh.item_index = d.item_index
      /\ fresh.author_index = d.author_index
  <2>1. CASE new
    <3>1. Untouched(d, i, "persons") /\ Untouched(d, i, "content") /\ Untouched(d, i, f)
      BY <1>1, NothingTouched DEF SameLists
    <3>2. HomeOf(i, "item") = h /\ i.items # <<>>
      BY <1>0, <1>1 DEF HomeOf, SameLists
    <3> HIDE DEF i, h
    <3>3. /\ Changes(i, n, f, HomeOf(i, "item"), TRUE, <<>>)
          /\ Untouched(i, n, "persons") /\ Untouched(i, n, "content")
      <4> DEFINE none == <<>>
      <4>3. n = Entry(i, "item", f, none) /\ f \in Lists
        BY <1>04
      <4> HIDE DEF none, n, f
      <4>1. \A g \in Lists : g # f => Untouched(i, n, g)
        <5>1. PICK where : where = "item"
          OBVIOUS
        <5>2. /\ i \in Data /\ where \in {"item", "feed", "none"} /\ f \in Lists /\ i.items # <<>>
              /\ n = Entry(i, where, f, none)
          BY <1>0, <1>1, <3>2, <4>3, <5>1
        <5> QED BY <5>2, EntryChanges
      <4>2. Changes(i, n, f, HomeOf(i, "item"), TRUE, none)
        BY <1>0, <1>1, <3>2, <4>3, EntryChanges
      <4> QED BY <1>04, <4>1, <4>2 DEF none, f
    <3>4. SameIndexes(i, n)
      BY <1>1, EntryIndexes
    <3>5. n \in Data
      <4>1. Holds(i, Int, Int)
        BY <1>1, DataHolds
      <4>2. Aims(i, "item", Int, Int, Int)
        BY <1>0, <3>2, <4>1, IntegersAreTokens DEF Aims, Into
      <4>3. <<>> \in Seq(Int \X Seq(Int))
        OBVIOUS
      <4>4. Done(i, "item", Int, Int, Int, n)
        BY <1>04, <4>2, <4>3, AimedEntry
      <4> QED BY <4>4 DEF Done, Aims, Holds
    <3> HIDE DEF n
    <3>6. Changes(d, n, f, h, TRUE, <<>>)
      BY <3>1, <3>2, <3>3, UntouchedIs
    <3>7. Untouched(d, n, "persons") /\ Untouched(d, n, "content")
      BY <3>1, <3>3, UntouchedIs
    <3> QED BY <1>1, <2>1, <3>4, <3>5, <3>6, <3>7 DEF SameIndexes
  <2>2. CASE ~new
    <3>1. Changes(d, d, f, h, FALSE, <<>>)
      BY MadeNothing
    <3>2. Untouched(d, d, "persons") /\ Untouched(d, d, "content")
      BY UntouchedIs
    <3> QED BY <1>0, <2>2, <3>1, <3>2
  <2> QED BY <2>1, <2>2
<1>3. e = IF key = 0 THEN fresh ELSE More(fresh, "item", f, << <<key, value>> >>)
  BY DEF JsonAttachment, AttachmentKey
<1>4. HomeOf(fresh, "item") = h /\ fresh.items # <<>>
  <2>1. Len(fresh.items) = Len(d.items)
    BY <1>2 DEF Changes
  <2>2. d.items # <<>> <=> fresh.items # <<>>
    BY <1>0, <1>2, <2>1, SameLength
  <2> QED BY <1>0, <2>1, <2>2 DEF HomeOf
<1> HIDE DEF fresh, h
<1>5. key # 0 => key \in Names
  BY AttachmentKeys
<1>6. key = Key.url <=> row.key = "url"
  BY AttachmentKeys
<1>7. row.key = "url" => key # 0
  BY AttachmentKeys
<1> HIDE DEF key
<1>8. CASE key = 0
  <2>1. row.key # "url" /\ e = fresh
    BY <1>3, <1>7, <1>8
  <2>2. Lacks(<<>>, Key.url)
    BY DEF Lacks
  <2>3. Changes(d, e, f, h, new, <<>>)
    BY <1>2, <2>1
  <2> HIDE DEF new
  <2> QED BY <1>03, <1>2, <2>1, <2>2, <2>3 DEF AttachmentRead, new, h
<1>9. CASE key # 0
  <2> DEFINE x == <<key, value>>
             u == Key.url
  <2>1. x \in Field /\ x[1] = key
    BY <1>5, <1>9, FieldIs
  <2>01. key \in Names
    BY <1>5, <1>9
  <2> HIDE DEF x
  <2>2. e = More(fresh, "item", f, <<x>>)
    BY <1>3, <1>9 DEF x
  <2>3. Changes(fresh, e, f, h, FALSE, <<x>>)
    BY <1>04, <1>2, <1>4, <2>2, MoreChanges
  <2>31. \A g \in Lists : g # f => Untouched(fresh, e, g)
    BY <1>04, <1>2, <1>4, <2>2, MoreChanges
  <2>4. SameIndexes(fresh, e)
    BY <1>2, <2>2, EntryIndexes
  <2>5. Untouched(fresh, e, "persons") /\ Untouched(fresh, e, "content")
    BY <1>04, <2>31
  <2>6. Untouched(d, e, "persons") /\ Untouched(d, e, "content")
    BY <1>2, <2>5, UntouchedIs
  <2>7. Changes(d, e, f, h, new, Append(<<>>, x))
    <3> DEFINE none == <<>>
    <3>1. new \in BOOLEAN /\ FormedList(d, f) /\ none \in Seq(Field) /\ Changes(d, fresh, f, h, new, none)
      BY <1>03, <1>2
    <3> HIDE DEF new, none
    <3>2. Changes(d, e, f, h, new, Append(none, x))
      BY <1>03, <2>1, <2>3, <3>1, ChangesTwice
    <3> QED BY <3>2 DEF none
  <2>8. Append(<<>>, x) = <<x>>
    BY <2>1, Appended
  <2>9. << <<key, value>> >> \in Seq(Field) /\ Has(<< <<key, value>> >>, key, value)
    BY <2>01, OneField
  <2>10. \A j : j # key => Lacks(<< <<key, value>> >>, j)
    BY <2>01, OneField
  <2>11. <<x>> \in Seq(Field) /\ IF row.key = "url" THEN Has(<<x>>, u, value) ELSE Lacks(<<x>>, u)
    BY <1>6, <2>9, <2>10 DEF x
  <2> HIDE DEF new, u
  <2>12. Changes(d, e, f, h, new, <<x>>)
    BY <2>7, <2>8
  <2> QED BY <1>2, <2>4, <2>6, <2>11, <2>12 DEF AttachmentRead, SameIndexes, new, h, u
<1> QED BY <1>8, <1>9

(* A row of another value.                                                    *)
Enlarged(d, e, f) == \E h \in Int, fields \in Seq(Field) : Changes(d, e, f, h, TRUE, fields)

ValueRead(d, e, row, value) ==
    /\ Untouched(d, e, "persons") /\ Enlarged(d, e, "attachments") /\ Enlarged(d, e, "content")
    /\ SameIndexes(d, e)

LEMMA UntouchedEnlarged ==
    ASSUME NEW d, NEW e, NEW f, Untouched(d, e, f)
    PROVE  Enlarged(d, e, f)
<1>1. Changes(d, e, f, -1, TRUE, <<>>)
  BY UntouchedIs
<1>2. -1 \in Int /\ <<>> \in Seq(Field)
  OBVIOUS
<1> QED BY <1>1, <1>2 DEF Enlarged

LEMMA ValueRowRead ==
    ASSUME NEW d, NEW where \in {"item", "feed"}, Aims(d, where, Int, Int, Int), NEW row \in Rows,
           NEW value \in Seq(Int), NEW e,
           e = IF where = "item" THEN JsonItemValue(d, row, value) ELSE JsonFeedValue(d, row, value)
    PROVE  ValueRead(d, e, row, value)
<1> DEFINE Text == << <<Key.type, <<Word.html>> >>, <<Key.text, value>> >>
           Plain == << <<Key.text, value>> >>
           Url == << <<Key.url, value>> >>
           Tag == << <<Key.category, value>> >>
<1>1. d \in Data /\ (where = "item" => d.items # <<>>)
  BY DEF Aims, Holds
<1>2. /\ "persons" \in Lists /\ "attachments" \in Lists /\ "content" \in Lists /\ "extras" \in Lists
      /\ \A f \in {"guid", "link", "title", "publication_date", "update_date"} : f \notin Lists
  BY DEF Lists
<1>3. Text \in Seq(Field) /\ Plain \in Seq(Field) /\ Url \in Seq(Field) /\ Tag \in Seq(Field)
  <2>1. <<Word.html>> \in Seq(Int)
    BY WordsAreMarks DEF Marks
  <2>2. Key.type # Key.text
    BY KeysAreApart
  <2> QED BY <2>1, <2>2, KeysAreNames, TwoFields, OneField
<1> HIDE DEF Text, Plain, Url, Tag
<1>4. ASSUME NEW f, f \notin Lists, NEW v, e = Put(d, where, f, v)
      PROVE  ValueRead(d, e, row, value)
  <2>1. Untouched(d, e, "persons") /\ Untouched(d, e, "attachments") /\ Untouched(d, e, "content")
    BY <1>1, <1>2, <1>4, PutTouches
  <2>2. SameIndexes(d, e)
    BY <1>1, <1>4, PutIndexes
  <2> QED BY <2>1, <2>2, UntouchedEnlarged DEF ValueRead
<1>5. ASSUME NEW f \in {"content", "attachments", "extras"}, NEW fields \in Seq(Field),
             e = Entry(d, where, f, fields)
      PROVE  ValueRead(d, e, row, value)
  <2>1. f \in Lists
    BY <1>2, <1>5
  <2>2. /\ Changes(d, e, f, HomeOf(d, where), TRUE, fields)
        /\ \A g \in Lists : g # f => Untouched(d, e, g)
    BY <1>1, <1>5, <2>1, EntryChanges
  <2>3. HomeOf(d, where) \in Int
    BY <1>1, HomesAreInt
  <2>4. SameIndexes(d, e)
    BY <1>1, <1>5, EntryIndexes
  <2>5. Enlarged(d, e, f)
    BY <2>2, <2>3 DEF Enlarged
  <2>6. \A g \in {"attachments", "content"} : Enlarged(d, e, g)
    BY <1>2, <2>2, <2>5, UntouchedEnlarged
  <2>7. Untouched(d, e, "persons")
    BY <1>2, <1>5, <2>2
  <2> QED BY <2>4, <2>6, <2>7 DEF ValueRead
<1>6. ASSUME e = d PROVE ValueRead(d, e, row, value)
  BY <1>6, UntouchedIs, UntouchedEnlarged DEF ValueRead, SameIndexes
<1>7. \/ e = d
      \/ \E f \in {"guid", "link", "title", "publication_date", "update_date"} : \E v : e = Put(d, where, f, v)
      \/ \E f \in {"content", "attachments", "extras"}, fields \in Seq(Field) : e = Entry(d, where, f, fields)
  <2>1. CASE where = "item"
    <3>1. e = JsonItemValue(d, row, value)
      BY <2>1
    <3>2. /\ row.key = "id" => e = Put(d, "item", "guid", value)
          /\ row.key = "url" => e = Put(d, "item", "link", value)
          /\ row.key = "title" => e = Put(d, "item", "title", value)
          /\ row.key = "content_html" => e = Entry(d, "item", "content", Text)
          /\ row.key \in {"content_text", "summary"} => e = Entry(d, "item", "content", Plain)
          /\ row.key = "date_published" => e = Put(d, "item", "publication_date", parse_date(value))
          /\ row.key = "date_modified" => e = Put(d, "item", "update_date", parse_date(value))
          /\ row.key = "external_url" => e = Entry(d, "item", "attachments", Url)
          /\ row.key = "tags" => e = Entry(d, "item", "extras", Tag)
          /\ row.key \notin {"id", "url", "title", "content_html", "content_text", "summary",
                             "date_published", "date_modified", "external_url", "tags"} => e = d
      BY <3>1 DEF JsonItemValue, Text, Plain, Url, Tag
    <3> QED BY <1>3, <2>1, <3>2
  <2>2. CASE where = "feed"
    <3>1. e = JsonFeedValue(d, row, value)
      BY <2>2
    <3>2. /\ row.key = "home_page_url" => e = Put(d, "feed", "link", value)
          /\ row.key = "title" => e = Put(d, "feed", "title", value)
          /\ row.key = "description" => e = Entry(d, "feed", "content", Plain)
          /\ row.key \notin {"home_page_url", "title", "description"} => e = d
      BY <3>1 DEF JsonFeedValue, Plain
    <3> QED BY <1>3, <2>2, <3>2
  <2> QED BY <2>1, <2>2
<1> QED BY <1>2, <1>4, <1>5, <1>6, <1>7

(* What a row is written to: the row may begin an item.                       *)
Begins(d, row) == InItems(row) /\ row.item # d.item_index
RowBase(d, row) == IF Begins(d, row) THEN Begun(d, row) ELSE d
RowWhere(row) == IF InItems(row) THEN "item" ELSE "feed"

(* There is one more item in e, and its lists are empty.                      *)
OneMore(d, e) ==
    /\ Len(e.items) = Len(d.items) + 1
    /\ \A f \in Lists : /\ \A k \in 0..Len(d.items) : ListOf(e, k, f) = ListOf(d, k, f)
                        /\ ListOf(e, Len(d.items) + 1, f) = <<>>

LEMMA OneMoreIs ==
    ASSUME NEW d \in Data, NEW e, Len(e.items) = Len(d.items) + 1, e.items[1] = NoItem, e.feed = d.feed,
           \A k \in 2..Len(d.items) + 1 : e.items[k] = d.items[k - 1]
    PROVE  OneMore(d, e)
<1>1. PICK L \in Nat : L = Len(d.items)
  BY DataItems
<1>2. ASSUME NEW f \in Lists, NEW k \in 0..L PROVE ListOf(e, k, f) = ListOf(d, k, f)
  <2>1. CASE k = 0
    BY <2>1 DEF ListOf
  <2>2. CASE k # 0
    <3>1. k \in 1..L
      BY <1>1, <2>2
    <3>2. PICK j \in 2..L + 1 : j = L + 1 + 1 - k /\ j - 1 = L + 1 - k
      BY <3>1
    <3>3. e.items[j] = d.items[j - 1]
      BY <1>1, <3>2
    <3> QED BY <1>1, <2>2, <3>2, <3>3 DEF ListOf
  <2> QED BY <2>1, <2>2
<1>3. ASSUME NEW f \in Lists PROVE ListOf(e, L + 1, f) = <<>>
  <2>1. NoItem[f] = <<>>
    BY DEF NoItem, Lists
  <2>2. Len(e.items) + 1 - (L + 1) = 1 /\ L + 1 # 0
    BY <1>1
  <2> QED BY <2>1, <2>2 DEF ListOf
<1> QED BY <1>1, <1>2, <1>3 DEF OneMore

LEMMA BegunOneMore ==
    ASSUME NEW d \in Data, NEW row \in Rows, NEW e, e = Begun(d, row)
    PROVE  OneMore(d, e) /\ e.author_index = -1 /\ e.attachment_index = -1 /\ e.item_index = row.item
<1> DEFINE m == prepend_item(d)
<1>1. Holds(d, Int, Int)
  BY DataHolds
<1>2. /\ Holds(m, Int, Int) /\ Len(m.items) = Len(d.items) + 1 /\ m.items[1] = NoItem /\ m.feed = d.feed
      /\ \A k \in 2..Len(d.items) + 1 : m.items[k] = d.items[k - 1]
  BY <1>1, Prepended
<1>3. e = [m EXCEPT !.item_index = row.item, !.author_index = -1, !.attachment_index = -1]
  BY DEF Begun
<1> HIDE DEF m
<1>4. /\ e.items = m.items /\ e.feed = m.feed /\ e.author_index = -1 /\ e.attachment_index = -1
      /\ e.item_index = row.item
  <2>1. m \in Data
    BY <1>2 DEF Holds
  <2> QED BY <1>3, <2>1 DEF Data
<1>5. OneMore(d, e)
  BY <1>2, <1>4, OneMoreIs
<1> QED BY <1>4, <1>5

LEMMA FormedOneMore ==
    ASSUME NEW d \in Data, NEW e, OneMore(d, e), NEW f \in Lists, FormedList(d, f)
    PROVE  FormedList(e, f)
<1>1. PICK L \in Nat : L = Len(d.items)
  BY DataItems
<1>2. <<>> \in Form
  BY DEF Form
<1>3. ASSUME NEW k \in 0..L + 1 PROVE ListOf(e, k, f) \in Form
  <2>1. CASE k \in 0..L
    BY <1>1, <2>1 DEF OneMore, FormedList
  <2>2. CASE k = L + 1
    BY <1>1, <1>2, <2>2 DEF OneMore
  <2> QED BY <1>1, <2>1, <2>2
<1> QED BY <1>1, <1>3 DEF FormedList, OneMore

(* Where there is something to write a row to.                                *)
LEMMA RowBaseIs ==
    ASSUME NEW d \in Data, NEW row \in Rows, d.item_index # -1 => d.items # <<>>,
           InItems(row) => row.item >= 0, NEW b, b = RowBase(d, row)
    PROVE  /\ Aims(b, RowWhere(row), Int, Int, Int) /\ (InItems(row) => b.item_index = row.item)
           /\ \A f \in Lists : FormedList(d, f) => FormedList(b, f)
<1>1. Holds(d, Int, Int) /\ row.item \in Int
  BY DataHolds DEF Rows
<1>2. CASE Begins(d, row)
  <2>1. b = Begun(d, row) /\ RowWhere(row) = "item"
    BY <1>2 DEF RowBase, RowWhere, Begins
  <2>2. OneMore(d, b) /\ b.item_index = row.item
    BY <2>1, BegunOneMore
  <2>3. Holds(b, Int, Int)
    BY <1>1, <2>1, BegunIs
  <2>4. b.items # <<>>
    <3>1. PICK L \in Nat : L = Len(d.items)
      BY DataItems
    <3>2. Len(b.items) = L + 1
      BY <2>2, <3>1 DEF OneMore
    <3> QED BY <3>1, <3>2
  <2>5. Aims(b, RowWhere(row), Int, Int, Int)
    BY <2>1, <2>3, <2>4, IntegersAreTokens DEF Aims, Into
  <2> QED BY <2>2, <2>5, FormedOneMore
<1>3. CASE ~Begins(d, row)
  <2>1. b = d /\ (InItems(row) => d.item_index = row.item)
    BY <1>3 DEF RowBase, Begins
  <2>2. InItems(row) => d.items # <<>>
    BY <1>1, <2>1
  <2>3. Aims(b, RowWhere(row), Int, Int, Int)
    BY <1>1, <2>1, <2>2, IntegersAreTokens DEF Aims, Into, RowWhere
  <2> QED BY <2>1, <2>3
<1> QED BY <1>2, <1>3

LEMMA RowListsRead ==
    ASSUME NEW d \in Data, NEW row \in Rows, d.item_index # -1 => d.items # <<>>,
           InItems(row) => row.item >= 0, FormedList(d, "persons"), FormedList(d, "attachments"),
           NEW value \in Seq(Int), NEW e, e = newsraft_json_row(d, row, value), NEW b, b = RowBase(d, row)
    PROVE  /\ row.place \in {"authors", "feed_authors"} => PersonRead(b, e, RowWhere(row), row, value)
           /\ row.place = "attachments" => AttachmentRead(b, e, row, value)
           /\ row.place \in {"feed", "item"} => ValueRead(b, e, row, value)
<1>1. Aims(b, RowWhere(row), Int, Int, Int) /\ FormedList(b, "persons") /\ FormedList(b, "attachments")
  <2>1. "persons" \in Lists /\ "attachments" \in Lists
    BY DEF Lists
  <2> QED BY <2>1, RowBaseIs
<1>2. /\ row.place = "authors" => e = JsonPerson(b, "item", row, value) /\ RowWhere(row) = "item"
      /\ row.place = "attachments" => e = JsonAttachment(b, row, value) /\ RowWhere(row) = "item"
      /\ row.place = "item" => e = JsonItemValue(b, row, value) /\ RowWhere(row) = "item"
  BY DEF newsraft_json_row, JsonItem, RowBase, Begins, Begun, RowWhere, InItems
<1>3. /\ row.place = "feed_authors" => e = JsonPerson(b, "feed", row, value) /\ RowWhere(row) = "feed"
      /\ row.place = "feed" => e = JsonFeedValue(b, row, value) /\ RowWhere(row) = "feed"
  BY DEF newsraft_json_row, RowBase, Begins, RowWhere, InItems
<1>4. row.place = "authors" => PersonRead(b, e, RowWhere(row), row, value)
  BY <1>1, <1>2, PersonRowRead
<1>5. row.place = "feed_authors" => PersonRead(b, e, RowWhere(row), row, value)
  BY <1>1, <1>3, PersonRowRead
<1>6. row.place = "attachments" => AttachmentRead(b, e, row, value)
  BY <1>1, <1>2, AttachmentRowRead
<1>7. row.place = "item" => ValueRead(b, e, row, value)
  BY <1>1, <1>2, ValueRowRead
<1>8. row.place = "feed" => ValueRead(b, e, row, value)
  BY <1>1, <1>3, ValueRowRead
<1> QED BY <1>4, <1>5, <1>6, <1>7, <1>8

(* What is done to the three lists by a step.                                 *)
Grows(d, e, f) ==
    \E h \in Int, new \in BOOLEAN, fields \in Seq(Field) : Changes(d, e, f, h, new, fields)

ListsGrow(d, e) == Grows(d, e, "attachments") /\ Grows(d, e, "persons") /\ Grows(d, e, "content")
ListsAreFormed(d) == FormedList(d, "attachments") /\ FormedList(d, "persons") /\ FormedList(d, "content")

LEMMA GrowsFormed ==
    ASSUME NEW d, NEW e, ListsAreFormed(d), ListsGrow(d, e)
    PROVE  ListsAreFormed(e)
<1>1. \A f : FormedList(d, f) /\ Grows(d, e, f) => FormedList(e, f)
  BY FormedChanges DEF Grows
<1> QED BY <1>1 DEF ListsAreFormed, ListsGrow

LEMMA UntouchedGrows ==
    ASSUME NEW d, NEW e, NEW f, Untouched(d, e, f)
    PROVE  Grows(d, e, f)
<1>1. <<>> \in Seq(Field) /\ -1 \in Int /\ TRUE \in BOOLEAN
  OBVIOUS
<1> DEFINE none == <<>>
           h == -1
<1>2. none \in Seq(Field) /\ h \in Int
  BY <1>1
<1>3. Changes(d, e, f, h, TRUE, none)
  BY UntouchedIs
<1> HIDE DEF none, h
<1> QED BY <1>2, <1>3 DEF Grows

LEMMA ContentHomeIs ==
    ASSUME NEW d \in Data, NEW name
    PROVE  ContentHome(d, name) \in Int
<1>1. Len(d.items) \in Int
  BY DataItems
<1> QED BY <1>1 DEF ContentHome

LEMMA StartedListsGrow ==
    ASSUME NEW d \in Data, NEW name, NEW attrs, NEW e, ListsStart(d, name, attrs, e)
    PROVE  ListsGrow(d, e)
<1>1. Grows(d, e, "attachments")
  BY DEF ListsStart, Attaches, Grows
<1>2. Grows(d, e, "persons")
  <2>1. PersonHome(d, name) \in Int
    BY HomesAreInt DEF PersonHome
  <2> QED BY <2>1 DEF ListsStart, PersonEntered, Grows
<1>3. Grows(d, e, "content")
  <2>1. ContentHome(d, name) \in Int
    BY ContentHomeIs
  <2> QED BY <2>1 DEF ListsStart, ContentEntered, Grows
<1> QED BY <1>1, <1>2, <1>3 DEF ListsGrow

LEMMA EndedListsGrow ==
    ASSUME NEW d \in Data, NEW name, NEW e, ListsEnded(d, name, e)
    PROVE  ListsGrow(d, e)
<1>1. Grows(d, e, "attachments")
  BY DEF ListsEnded, Attaches, Grows
<1>2. Grows(d, e, "persons")
  <2>1. HomeOf(d, Within(d)) \in Int
    BY HomesAreInt
  <2>2. \A h \in Int : PersonEntered(d, e, h) => Grows(d, e, "persons")
    BY DEF PersonEntered, Grows
  <2> QED BY <2>1, <2>2 DEF ListsEnded, PersonEnded, Grows
<1>3. Grows(d, e, "content")
  <2>1. HomeOf(d, Within(d)) \in Int
    BY HomesAreInt
  <2>2. ContentHome(d, name) \in Int
    BY ContentHomeIs
  <2>3. \A h \in Int, new \in BOOLEAN : \A k, v : Enters(d, e, "content", h, new, k, v) => Grows(d, e, "content")
    BY DEF Enters, Grows
  <2>4. ContentEnded(d, name, e)
    BY DEF ListsEnded
  <2>5. \/ Enters(d, e, "content", HomeOf(d, Within(d)), TRUE, Key.text, d.text)
        \/ Enters(d, e, "content", ContentHome(d, name), FALSE, Key.text, d.text)
        \/ Untouched(d, e, "content")
    BY <2>4 DEF ContentEnded
  <2> QED BY <2>1, <2>2, <2>3, <2>5, UntouchedGrows
<1> QED BY <1>1, <1>2, <1>3 DEF ListsGrow

LEMMA ReadListsGrow ==
    ASSUME NEW b \in Data, NEW e, NEW row, NEW where, NEW value,
           \/ PersonRead(b, e, where, row, value) \/ AttachmentRead(b, e, row, value)
           \/ ValueRead(b, e, row, value)
    PROVE  ListsGrow(b, e)
<1>1. HomeOf(b, where) \in Int /\ Len(b.items) \in Int
  BY HomesAreInt, DataItems
<1>2. \A f : Enlarged(b, e, f) => Grows(b, e, f)
  BY DEF Enlarged, Grows
<1>3. CASE PersonRead(b, e, where, row, value)
  <2>1. Grows(b, e, "persons")
    BY <1>1, <1>3 DEF PersonRead, Grows
  <2> QED BY <1>3, <2>1, UntouchedGrows DEF PersonRead, ListsGrow
<1>4. CASE AttachmentRead(b, e, row, value)
  <2>1. Grows(b, e, "attachments")
    BY <1>1, <1>4 DEF AttachmentRead, Grows
  <2> QED BY <1>4, <2>1, UntouchedGrows DEF AttachmentRead, ListsGrow
<1>5. CASE ValueRead(b, e, row, value)
  BY <1>2, <1>5, UntouchedGrows DEF ValueRead, ListsGrow
<1> QED BY <1>3, <1>4, <1>5
-----------------------------------------------------------------------------
(* The steps of a document, as the lists see them.                            *)

LEMMA ElementStep ==
    ASSUME PathInvariant, NEW name \in STRING, name \notin ItemElements,
           NEW attrs \in Attributes(name, Len(document) + 1), Start(name, attrs)
    PROVE  ListsStart(data, name, attrs, data')
<1>1. data \in Data /\ (data.in_item \/ At(data) = "item" => data.items # <<>>)
  <2>1. data \in Data
    BY DEF PathInvariant, ItemsAreThere
  <2>2. data.depth \in 0..PathSize - 1
    BY <2>1 DEF Data
  <2> QED BY <2>1, <2>2, AtIs DEF PathInvariant, ItemsAreThere
<1>2. Targets(data, Int, Int, Int)
  BY <1>1, ItemsTargeted
<1>3. AttrsOf(attrs, Int)
  <2>1. Marks \subseteq Int
    BY DEF Marks
  <2>2. Len(document) + 1 \in Int
    <3>1. IsXml
      BY DEF Start, PathInvariant, DocumentIsTree
    <3>2. Len(document) \in Nat
      BY <3>1, NumbersAre DEF PathInvariant
    <3> QED BY <3>2
  <2> QED BY <2>1, <2>2, AttributesAre
<1>4. data' = start_element_handler(data, name, attrs, Len(document) + 1)
  BY DEF Start
<1> QED BY <1>2, <1>3, <1>4, ElementListsStart

LEMMA ItemStep ==
    ASSUME PathInvariant, NEW name \in ItemElements, NEW attrs, Start(name, attrs)
    PROVE  OneMore(data, data')
<1>1. data \in Data
  BY DEF PathInvariant, ItemsAreThere
<1>2. data' = start_element_handler(data, name, attrs, Len(document) + 1)
  BY DEF Start
<1>3. Lists # {}
  BY DEF Lists
<1> QED BY <1>1, <1>2, <1>3, ItemListsStart DEF OneMore

LEMMA TextStep ==
    ASSUME PathInvariant, NEW token, Characters(token)
    PROVE  SameLists(data, data')
<1>1. data \in Data
  BY DEF PathInvariant, ItemsAreThere
<1>2. data' = [data EXCEPT !.text = Append(@, token)]
  BY DEF Characters, character_data_handler
<1> QED BY <1>1, <1>2 DEF SameLists, Data

LEMMA LeftTargets ==
    ASSUME PathInvariant, NEW d, d = Left(data)
    PROVE  /\ Targets(d, Int, Int, Int) /\ SameLists(data, d) /\ d.text \in Seq(Int) /\ d \in Data
           /\ d.depth = Shallower(data) /\ d.path = data.path /\ d.in_item = data.in_item
           /\ d.decoy = data.decoy
<1>1. data \in Data /\ data.text \in Seq(Int) /\ Holds(data, Int, Int)
  <2>1. data \in Data
    BY DEF PathInvariant, ItemsAreThere
  <2>2. data.text \in Seq(Int)
    BY <2>1 DEF Data
  <2> QED BY <2>1, <2>2, DataHolds
<1>2. /\ Holds(d, Int, Int) /\ d.depth = Shallower(data) /\ d.path = data.path /\ d.text \in Seq(Int)
      /\ d.items = data.items /\ d.in_item = data.in_item /\ d.feed = data.feed /\ d.decoy = data.decoy
  BY <1>1, LeftIs
<1>3. d \in Data
  BY <1>2 DEF Holds
<1>4. d.in_item \/ At(d) = "item" => d.items # <<>>
  <2>1. d.depth \in 0..PathSize - 1
    BY <1>3 DEF Data
  <2> QED BY <1>2, <2>1, AtIs DEF PathInvariant, ItemsAreThere
<1>5. Targets(d, Int, Int, Int)
  BY <1>3, <1>4, ItemsTargeted
<1> QED BY <1>2, <1>3, <1>5 DEF SameLists

LEMMA EndStep ==
    ASSUME PathInvariant, End, NEW name, name = document[open[Len(open)]].name, NEW d, d = Left(data)
    PROVE  IF name \in ItemElements THEN SameLists(data, data') ELSE ListsEnded(d, name, data')
<1>1. data' = end_element_handler(data, name, Last(open))
  BY DEF End, Last
<1>2. data \in Data /\ data.text \in Seq(Int) /\ Holds(data, Int, Int)
  <2>1. data \in Data
    BY DEF PathInvariant, ItemsAreThere
  <2>2. data.text \in Seq(Int)
    BY <2>1 DEF Data
  <2> QED BY <2>1, <2>2, DataHolds
<1>3. CASE name \in ItemElements
  <2>1. PICK e : e = end_element_handler(data, name, Last(open))
    OBVIOUS
  <2>2. ItemEnded(data, Int, e)
    BY <1>2, <1>3, <2>1, EndItem
  <2>3. SameLists(data, e)
    BY <2>2 DEF ItemEnded, SameLists
  <2> QED BY <1>1, <1>3, <2>1, <2>3
<1>4. CASE name \notin ItemElements
  <2>1. Targets(d, Int, Int, Int)
    BY LeftTargets
  <2> QED BY <1>1, <1>2, <1>4, <2>1, ElementListsEnd
<1> QED BY <1>3, <1>4

LEMMA RowStep ==
    ASSUME PathInvariant, ListsAreFormed(data), NEW row \in grammar.rows, Row(row),
           NEW n, n = Len(document) + 1, NEW b, b = RowBase(data, row)
    PROVE  /\ row.place \in {"authors", "feed_authors"} => PersonRead(b, data', RowWhere(row), row, <<n>>)
           /\ row.place = "attachments" => AttachmentRead(b, data', row, <<n>>)
           /\ row.place \in {"feed", "item"} => ValueRead(b, data', row, <<n>>)
           /\ Aims(b, RowWhere(row), Int, Int, Int) /\ ListsAreFormed(b)
<1>1. data \in Data /\ (data.item_index # -1 => data.items # <<>>)
  BY DEF PathInvariant, ItemsAreThere
<1>2. row \in Rows /\ (InItems(row) => row.item >= 0) /\ <<n>> \in Seq(Int)
  <2>1. row \in Rows /\ (row.place \notin {"feed", "feed_authors"} => row.item >= 0) /\ Len(document) \in Nat
    BY DocumentRows DEF PathInvariant
  <2>2. n \in Int
    BY <2>1
  <2> QED BY <2>1, <2>2 DEF InItems
<1>3. data' = newsraft_json_row(data, row, <<n>>)
  BY DEF Row
<1>4. FormedList(data, "persons") /\ FormedList(data, "attachments") /\ FormedList(data, "content")
  BY DEF ListsAreFormed
<1> DEFINE value == <<n>>
<1>5. /\ Aims(b, RowWhere(row), Int, Int, Int)
      /\ \A f \in Lists : FormedList(data, f) => FormedList(b, f)
  BY <1>1, <1>2, RowBaseIs
<1>6. ListsAreFormed(b)
  <2>1. ThreeLists
    BY ListsAre
  <2> QED BY <1>4, <1>5, <2>1 DEF ListsAreFormed, ThreeLists
<1> HIDE DEF value
<1>7. value \in Seq(Int) /\ data' = newsraft_json_row(data, row, value)
  BY <1>2, <1>3 DEF value
<1>8. /\ row.place \in {"authors", "feed_authors"} => PersonRead(b, data', RowWhere(row), row, value)
      /\ row.place = "attachments" => AttachmentRead(b, data', row, value)
      /\ row.place \in {"feed", "item"} => ValueRead(b, data', row, value)
  BY <1>1, <1>2, <1>4, <1>7, RowListsRead
<1> QED BY <1>5, <1>6, <1>8 DEF value

(* Lists are of the form that is read back.                                   *)
LEMMA FormsHold == Spec => []ListsAreFormed(data)
<1>1. Init => ListsAreFormed(data)
  <2> SUFFICES ASSUME Init PROVE ListsAreFormed(data)
    OBVIOUS
  <2>1. data.items = <<>> /\ data.feed = NoFeed
    BY DEF Init
  <2>2. \A f \in Lists : NoFeed[f] \in Form
    <3>1. <<>> \in Form
      BY DEF Form
    <3>2. \A f \in Lists : NoFeed[f] = <<>>
      BY DEF NoFeed, Lists
    <3> QED BY <3>1, <3>2
  <2>3. \A f \in Lists : FormedList(data, f)
    BY <2>1, <2>2 DEF FormedList, ListOf
  <2> QED BY <2>3, ListsAre DEF ListsAreFormed, ThreeLists
<1>2. PathInvariant /\ ListsAreFormed(data) /\ [Next]_vars => ListsAreFormed(data)'
  <2> SUFFICES ASSUME PathInvariant, ListsAreFormed(data), [Next]_vars PROVE ListsAreFormed(data')
    OBVIOUS
  <2>0. \A e : SameLists(data, e) => ListsAreFormed(e)
    <3> SUFFICES ASSUME NEW e, SameLists(data, e) PROVE ListsAreFormed(e)
      OBVIOUS
    <3>1. \A f : Untouched(data, e, f)
      BY NothingTouched DEF SameLists
    <3> QED BY <3>1, FormedUntouched DEF ListsAreFormed
  <2>1. CASE Engage \/ Finish \/ UNCHANGED vars
    BY <2>1 DEF Engage, Finish, vars
  <2>2. ASSUME NEW name \in UNION {grammar.levels[i] : i \in DOMAIN grammar.levels},
               NEW attrs \in Attributes(name, Len(document) + 1), Start(name, attrs)
        PROVE  ListsAreFormed(data')
    <3>1. name \in STRING /\ data \in Data
      BY GrammarIs DEF PathInvariant, DocumentIsTree, ItemsAreThere
    <3>2. CASE name \in ItemElements
      <4>1. OneMore(data, data')
        BY <2>2, <3>2, ItemStep
      <4>2. \A f \in Lists : FormedList(data, f) => FormedList(data', f)
        BY <3>1, <4>1, FormedOneMore
      <4> QED BY <4>2, ListsAre DEF ListsAreFormed, ThreeLists
    <3>3. CASE name \notin ItemElements
      <4>1. ListsStart(data, name, attrs, data')
        BY <2>2, <3>1, <3>3, ElementStep
      <4> QED BY <3>1, <4>1, StartedListsGrow, GrowsFormed
    <3> QED BY <3>2, <3>3
  <2>3. ASSUME NEW token \in {Space, Delimiter} \cup 1..Len(document), Characters(token)
        PROVE  ListsAreFormed(data')
    BY <2>0, <2>3, TextStep
  <2>4. CASE End
    <3>1. PICK name : name = document[open[Len(open)]].name
      OBVIOUS
    <3>2. PICK d : d = Left(data)
      OBVIOUS
    <3>3. d \in Data /\ SameLists(data, d)
      BY <3>2, LeftTargets
    <3>4. IF name \in ItemElements THEN SameLists(data, data') ELSE ListsEnded(d, name, data')
      BY <2>4, <3>1, <3>2, EndStep
    <3>5. ListsAreFormed(d)
      BY <2>0, <3>3
    <3> QED BY <2>0, <3>3, <3>4, <3>5, EndedListsGrow, GrowsFormed
  <2>5. ASSUME NEW row \in grammar.rows, Row(row) PROVE ListsAreFormed(data')
    <3>1. PICK b : b = RowBase(data, row)
      OBVIOUS
    <3>2. PICK n : n = Len(document) + 1
      OBVIOUS
    <3>3. PICK value : value = <<n>>
      OBVIOUS
    <3>4. row \in Rows
      BY <2>5, DocumentRows DEF PathInvariant
    <3>5. /\ row.place \in {"authors", "feed_authors"} => PersonRead(b, data', RowWhere(row), row, value)
          /\ row.place = "attachments" => AttachmentRead(b, data', row, value)
          /\ row.place \in {"feed", "item"} => ValueRead(b, data', row, value)
          /\ Aims(b, RowWhere(row), Int, Int, Int) /\ ListsAreFormed(b)
      BY <2>5, <3>1, <3>2, <3>3, RowStep
    <3>6. \/ PersonRead(b, data', RowWhere(row), row, value) \/ AttachmentRead(b, data', row, value)
          \/ ValueRead(b, data', row, value)
      BY <3>4, <3>5 DEF Rows, RowPlaces
    <3>7. b \in Data
      BY <3>5 DEF Aims, Holds
    <3> QED BY <3>5, <3>6, <3>7, ReadListsGrow, GrowsFormed
  <2> QED BY <2>1, <2>2, <2>3, <2>4, <2>5 DEF Next, Terminated
<1> QED BY <1>1, <1>2, PathHolds, PTL DEF Spec

(* Every home is that of the feed or of an item there is.                     *)
LEMMA HomeIsCounted ==
    ASSUME PathInvariant, HomeInvariant, IsFeed, FitsPath, NEW n \in Numbers
    PROVE  Home(n) \in 0..Len(data.items)
<1>0. data \in Data /\ DocumentIsTree /\ Len(data.items) \in Nat
  <2>1. data \in Data /\ DocumentIsTree
    BY DEF PathInvariant, ItemsAreThere
  <2> QED BY <2>1, DataItems
<1>1. CASE IsXml
  <2>1. Len(document) \in Nat /\ Numbers = 1..Len(document)
    BY <1>0, <1>1, NumbersAre
  <2>2. Home(n) = IF Around[n] \cap ItemNumbers = {} THEN 0 ELSE Cardinality({i \in ItemNumbers : i <= n})
    BY <1>1 DEF Home, ItemNumbers
  <2>3. IsFiniteSet(ItemNumbers)
    <3>1. IsFiniteSet(1..Len(document)) /\ ItemNumbers \subseteq 1..Len(document)
      BY <2>1, FS_Interval DEF ItemNumbers
    <3> QED BY <3>1, FS_Subset
  <2>4. {i \in ItemNumbers : i <= n} \subseteq ItemNumbers
    OBVIOUS
  <2>5. /\ Cardinality({i \in ItemNumbers : i <= n}) <= Cardinality(ItemNumbers)
        /\ Cardinality({i \in ItemNumbers : i <= n}) \in Nat
    <3> DEFINE met == {i \in ItemNumbers : i <= n}
    <3>1. met \subseteq ItemNumbers
      OBVIOUS
    <3> HIDE DEF met
    <3>2. IsFiniteSet(met) /\ Cardinality(met) <= Cardinality(ItemNumbers)
      BY <2>3, <3>1, FS_Subset
    <3>3. Cardinality(met) \in Nat
      BY <3>2, FS_CardinalityType
    <3> QED BY <3>2, <3>3 DEF met
  <2>6. Len(data.items) = Cardinality(ItemNumbers)
    BY <1>1 DEF HomeInvariant, ItemsAreCounted
  <2> QED BY <1>0, <2>2, <2>5, <2>6
<1>2. CASE ~IsXml
  <2>1. document \in Seq(grammar.rows)
    BY <1>0, <1>2 DEF DocumentIsTree
  <2>2. Len(document) \in Nat /\ Numbers = 1..Len(document)
    BY <2>1 DEF Numbers
  <2> DEFINE all == MetItems(Len(document))
             met == MetItems(n)
  <2>3. Home(n) = IF InItems(document[n]) THEN Cardinality(met) ELSE 0
    BY <1>2 DEF Home, MetItems
  <2>4. met \subseteq all
    BY <2>2 DEF MetItems
  <2>5. IsFiniteSet(all) /\ Len(data.items) = Cardinality(all)
    BY <1>2 DEF HomeInvariant, IndexesAreCounted
  <2> HIDE DEF met, all
  <2>6. IsFiniteSet(met) /\ Cardinality(met) <= Cardinality(all)
    BY <2>4, <2>5, FS_Subset
  <2>7. Cardinality(met) \in Nat
    BY <2>6, FS_CardinalityType
  <2> QED BY <1>0, <2>3, <2>5, <2>6, <2>7
<1> QED BY <1>1, <1>2

(* Places are kept with names and parents.                                    *)
LEMMA PlacesKept ==
    ASSUME IsXml, DocumentIsTree, Kept
    PROVE  \A m \in Numbers : PlaceOf(m)' = PlaceOf(m) /\ (IsStray(m)' <=> IsStray(m))
<1>1. Numbers = 1..Len(document) /\ \A m \in Numbers : document[m].parent \in 0..m - 1 /\ Len(document) \in Nat
  BY NumbersAre
<1>2. \A m \in Numbers : document[m].parent = 0 \/ document[m].parent \in Numbers
  BY <1>1
<1>3. \A m \in Numbers : PlaceOf(m)' = PlaceOf(m)
  BY <1>2 DEF Kept, PlaceOf
<1>4. ASSUME NEW m \in Numbers PROVE IsStray(m)' <=> IsStray(m)
  <2>1. document'[m].name = document[m].name /\ document'[m].parent = document[m].parent
    BY DEF Kept
  <2>2. CASE document[m].parent \in Numbers
    <3>1. PICK p \in Numbers : p = document[m].parent
      BY <2>2
    <3>2. PlaceOf(p)' = PlaceOf(p) /\ PlaceOf(m)' = PlaceOf(m) /\ document'[m].parent = p
      BY <1>3, <2>1, <3>1
    <3>3. IsStray(m) <=> /\ document[m].name \in DatumElements /\ PlaceOf(m) = "ATOM_AUTHOR"
                         /\ PlaceOf(p) \notin {"GENERIC_ITEM", "GENERIC_FEED"}
      BY <3>1 DEF IsStray
    <3>4. IsStray(m)' <=> /\ document'[m].name \in DatumElements /\ PlaceOf(m)' = "ATOM_AUTHOR"
                          /\ PlaceOf(p)' \notin {"GENERIC_ITEM", "GENERIC_FEED"}
      BY <3>2 DEF IsStray
    <3> QED BY <2>1, <3>2, <3>3, <3>4
  <2>3. CASE document[m].parent = 0
    <3>1. PlaceOf(m) = "XML_UNKNOWN_POS" /\ PlaceOf(m)' = "XML_UNKNOWN_POS"
      BY <1>3, <2>3 DEF PlaceOf
    <3> QED BY <3>1 DEF IsStray
  <2> QED BY <1>2, <2>2, <2>3
<1> QED BY <1>3, <1>4

(* The element n that begins, inside of the L elements that are open.         *)
NewElement(n, L, name, attrs) ==
    /\ document'[n].attrs = attrs /\ document'[n].open = TRUE /\ document'[n].name = name
    /\ document'[n].parent = (IF L = 0 THEN 0 ELSE open[L])
    /\ \A m \in Numbers : document'[m] = document[m]
    /\ PlaceOf(n)' = data.path[L] /\ data.depth = L /\ PathSize > L

LEMMA ElementBegun ==
    ASSUME PathInvariant, PathInvariant', FitsPath, NEW name \in STRING,
           NEW attrs \in Attributes(name, Len(document) + 1), Start(name, attrs),
           NEW n, n = Len(document) + 1, NEW L, L = Len(open)
    PROVE  NewElement(n, L, name, attrs)
<1>1. IsXml /\ document \in Seq(Elements) /\ open \in Seq(Nat) /\ (open = <<>> <=> L = 0) /\ L \in Nat
  <2>1. IsXml
    BY DEF Start, PathInvariant, DocumentIsTree
  <2> QED BY <2>1 DEF PathInvariant, DocumentIsTree, OpenAreNested
<1>2. /\ \A m \in Numbers : document'[m] = document[m]
      /\ document'[n].name = name
      /\ document'[n].parent = (IF open = <<>> THEN 0 ELSE open[L])
      /\ Len(open) < Len(grammar.levels)
  BY DocumentStarts DEF PathInvariant
<1>3. document'[n].attrs = attrs /\ document'[n].open = TRUE
  <2> DEFINE new == [name |-> name, attrs |-> attrs, open |-> TRUE,
                     parent |-> IF open = <<>> THEN 0 ELSE Last(open)]
             E == Elements
  <2>1. document' = Append(document, new)
    BY DEF Start
  <2>2. document'[n] = new
    <3> HIDE DEF new, E
    <3> QED BY <1>1, <2>1 DEF E
  <2> QED BY <2>2
<1>4. data.depth = L /\ data.path[0] = "XML_UNKNOWN_POS"
      /\ \A i \in DOMAIN open : data.path[i] = Position(document[open[i]].name)
  BY DEF PathInvariant, PathIsOfOpen
<1>5. PlaceOf(n)' = data.path[L]
  <2>1. CASE L = 0
    BY <1>1, <1>2, <1>4, <2>1 DEF PlaceOf
  <2>2. CASE L # 0
    <3>1. L \in DOMAIN open
      BY <1>1, <2>2
    <3>2. open[L] \in Numbers /\ open[L] # 0
      <4>1. open[L] \in Numbers
        BY <3>1 DEF PathInvariant, OpenAreNested
      <4> QED BY <1>1, <4>1 DEF Numbers
    <3> QED BY <1>1, <1>2, <1>4, <2>2, <3>1, <3>2 DEF PlaceOf
  <2> QED BY <2>1, <2>2
<1>6. PathSize > L
  <2>1. Len(grammar.levels) \in Nat
    BY GrammarIs DEF PathInvariant, DocumentIsTree
  <2> QED BY <1>1, <1>2, <2>1, ParserAssumption DEF FitsPath
<1> QED BY <1>1, <1>2, <1>3, <1>4, <1>5, <1>6 DEF NewElement

(* The home of an element that begins and is no item.                         *)
LEMMA ElementHome ==
    ASSUME PathInvariant, PathInvariant', AroundIsOpen, ItemsAreCounted, NEW name \in STRING,
           name \notin ItemElements, NEW attrs \in Attributes(name, Len(document) + 1), Start(name, attrs),
           NEW n, n = Len(document) + 1
    PROVE  Home(n)' = Here
<1>01. PICK L : L = Len(open)
  OBVIOUS
<1>1. /\ IsXml /\ IsXml' /\ n \notin Numbers
      /\ Numbers' = Numbers \cup {n} /\ Numbers = 1..n - 1 /\ n \in Nat \ {0}
      /\ DOMAIN open = 1..L /\ Around'[n] = {n} \cup {open[i] : i \in 1..L}
      /\ ItemNumbers' = ItemNumbers \cup (IF name \in ItemElements THEN {n} ELSE {})
  BY <1>01, StartsWithin
<1>2. ItemNumbers' = ItemNumbers
  BY <1>1
<1>3. Around'[n] \cap ItemNumbers' = {} <=> ~data.in_item
  <2>1. n \notin ItemNumbers'
    BY <1>1, <1>2 DEF ItemNumbers
  <2>2. data.in_item <=> \E i \in 1..L : open[i] \in ItemNumbers
    BY <1>1 DEF ItemsAreCounted
  <2> QED BY <1>1, <1>2, <2>1, <2>2
<1>4. {m \in ItemNumbers' : m <= n} = ItemNumbers
  <2>1. \A m \in ItemNumbers : m \in 1..n - 1
    BY <1>1 DEF ItemNumbers
  <2> QED BY <1>1, <1>2, <2>1
<1>5. Home(n)' = IF Around'[n] \cap ItemNumbers' = {} THEN 0
                 ELSE Cardinality({m \in ItemNumbers' : m <= n})
  BY <1>1 DEF Home, ItemNumbers
<1>6. data.in_item \in BOOLEAN
  BY DEF PathInvariant, ItemsAreThere, Data
<1> QED BY <1>3, <1>4, <1>5, <1>6 DEF Here, ItemsAreCounted

(* The element that ends.                                                     *)
LEMMA ElementClosed ==
    ASSUME PathInvariant, PathInvariant', End, NEW L, L = Len(open), NEW n, n = open[L]
    PROVE  /\ document'[n].attrs = document[n].attrs /\ document'[n].open = FALSE
           /\ document'[n].name = document[n].name /\ document'[n].parent = document[n].parent
           /\ \A m \in Numbers : m # n => document'[m] = document[m]
           /\ FitsPath => PlaceOf(n) = data.path[L - 1] /\ Shallower(data) = L - 1
<1>1. IsXml /\ document \in Seq(Elements) /\ open \in Seq(Nat) /\ L \in Nat \ {0} /\ n \in Numbers
  BY DocumentEnds DEF PathInvariant, DocumentIsTree, OpenAreNested
<1>2. document' = [document EXCEPT ![n].open = FALSE]
  BY DEF End, Last
<1>3. document[n] \in Elements /\ DOMAIN document = Numbers
  BY <1>1 DEF Numbers
<1> DEFINE E == [name : STRING, attrs : AllAttributes, open : BOOLEAN, parent : Nat]
           new == [document[n] EXCEPT !.open = FALSE]
<1>4. new.attrs = document[n].attrs /\ new.open = FALSE /\ new.name = document[n].name
      /\ new.parent = document[n].parent
  BY <1>3 DEF Elements
<1>5. document'[n] = new /\ \A m \in Numbers : m # n => document'[m] = document[m]
  <2>1. document' = [document EXCEPT ![n] = new]
    BY <1>2
  <2> HIDE DEF new
  <2> QED BY <1>1, <1>3, <2>1
<1>6. FitsPath => PlaceOf(n) = data.path[L - 1] /\ Shallower(data) = L - 1
  <2> SUFFICES ASSUME FitsPath PROVE PlaceOf(n) = data.path[L - 1] /\ Shallower(data) = L - 1
    OBVIOUS
  <2>1. data.depth = L /\ data.path[0] = "XML_UNKNOWN_POS"
      /\ \A i \in DOMAIN open : data.path[i] = Position(document[open[i]].name)
    BY DEF PathInvariant, PathIsOfOpen
  <2>2. document[n].parent = (IF L = 1 THEN 0 ELSE open[L - 1])
    <3>1. L \in DOMAIN open
      BY <1>1
    <3> QED BY <3>1 DEF PathInvariant, OpenAreNested
  <2>3. CASE L = 1
    BY <1>1, <2>1, <2>2, <2>3 DEF PlaceOf, Shallower
  <2>4. CASE L # 1
    <3>1. L - 1 \in DOMAIN open
      BY <1>1, <2>4
    <3>2. open[L - 1] # 0
      <4>1. open[L - 1] \in Numbers
        BY <3>1 DEF PathInvariant, OpenAreNested
      <4> QED BY <1>1, <4>1 DEF Numbers
    <3>3. PlaceOf(n) = Position(document[open[L - 1]].name)
      BY <2>2, <2>4, <3>2 DEF PlaceOf
    <3>4. data.path[L - 1] = Position(document[open[L - 1]].name)
      BY <2>1, <3>1
    <3>5. Shallower(data) = L - 1
      BY <1>1, <2>1 DEF Shallower
    <3> QED BY <3>3, <3>4, <3>5
  <2> QED BY <2>3, <2>4
<1> HIDE DEF new
<1> QED BY <1>4, <1>5, <1>6
-----------------------------------------------------------------------------
(* Attachments.                                                               *)

LinkOf(d, k, url) == Linked(ListOf(d, k, "attachments"), url)

LEMMA LinksAttached ==
    ASSUME NEW d, NEW e, ListsAreFormed(d), NEW url, NEW home, Attaches(d, e, url, home),
           NEW k \in 0..Len(d.items)
    PROVE  /\ \A u : LinkOf(d, k, u) => LinkOf(e, k, u)
           /\ url # <<>> /\ k = home /\ WithoutDelimiters(url) # <<>> => LinkOf(e, k, WithoutDelimiters(url))
<1> DEFINE f == "attachments"
<1>1. ListOf(d, k, f) \in Form
  BY DEF ListsAreFormed, FormedList
<1> HIDE DEF f
<1>2. PICK h \in Int, new \in BOOLEAN, fields \in Seq(Field) :
           /\ Changes(d, e, f, h, new, fields)
           /\ new \/ Lacks(fields, Key.url)
           /\ url # <<>> => h = home /\ Has(fields, Key.url, url)
  BY DEF Attaches, f
<1>3. ListOf(e, k, f) = IF k = h THEN Made(ListOf(d, k, f), new, fields) ELSE ListOf(d, k, f)
  BY <1>2 DEF Changes
<1>4. ASSUME NEW u, LinkOf(d, k, u) PROVE LinkOf(e, k, u)
  BY <1>1, <1>2, <1>3, <1>4, LinkStays DEF LinkOf, f
<1>5. url # <<>> /\ k = home /\ WithoutDelimiters(url) # <<>> => LinkOf(e, k, WithoutDelimiters(url))
  BY <1>1, <1>2, <1>3, LinkMade DEF LinkOf, f
<1> QED BY <1>4, <1>5

LinksOfElements == \A n \in Numbers : IsAttachmentElement(n) => LinkOf(data, Home(n), <<n>>)

(* An attachment is known by its attributes and its place.                    *)
LEMMA AttachmentKept ==
    ASSUME NEW m, document'[m].name = document[m].name, document'[m].attrs = document[m].attrs,
           PlaceOf(m)' = PlaceOf(m)
    PROVE  IsAttachmentElement(m)' <=> IsAttachmentElement(m)
BY DEF IsAttachmentElement

LEMMA OwnAttributes ==
    ASSUME NEW n, NEW name, NEW attrs \in Attributes(name, n)
    PROVE  /\ name \in {"enclosure", "source", "media:content"} \cup PlayerElements =>
                Attr(attrs, "url") \in {<<>>, <<n>>}
           /\ name = "media:peerLink" => Attr(attrs, "href") \in {<<>>, <<n>>}
<1> DEFINE one == <<n>>
<1>1. ASSUME name \in {"enclosure", "source", "media:content"} \cup PlayerElements
      PROVE  attrs = <<>> \/ attrs = [url |-> one]
  <2>1. name \in {"enclosure", "source", "media:content", "media:player", "media:embed"}
    BY <1>1 DEF PlayerElements
  <2>2. Attributes(name, n) = {<<>>, [url |-> one]}
    <3> HIDE DEF one
    <3>1. /\ name \notin {"guid", "media:peerLink", "atom:link", "atom:category", "media:description"}
          /\ name \notin AtomTexts
      BY <2>1 DEF AtomTexts
    <3>2. Attributes(name, n) = {<<>>, [url |-> <<n>>]}
      BY <2>1, <3>1, Zenon DEF Attributes
    <3> QED BY <3>2 DEF one
  <2> QED BY <2>2
<1>2. ASSUME name = "media:peerLink"
      PROVE  attrs = [href |-> <<>>] \/ attrs = [href |-> one, type |-> one]
  <2>1. /\ name \notin {"guid", "enclosure", "source", "media:content", "media:player", "media:embed",
                       "atom:link", "atom:category", "media:description"}
        /\ name \notin AtomTexts
    BY <1>2 DEF AtomTexts
  <2>2. Attributes(name, n) = {[href |-> <<>>], [href |-> <<n>>, type |-> <<n>>]}
    BY <1>2, <2>1, Zenon DEF Attributes
  <2> QED BY <2>2
<1>3. /\ Attr(<<>>, "url") = <<>> /\ Attr([url |-> one], "url") = one
      /\ Attr([href |-> <<>>], "href") = <<>> /\ Attr([href |-> one, type |-> one], "href") = one
  <2> HIDE DEF one
  <2> QED BY DEF Attr
<1> HIDE DEF one
<1>4. name \in {"enclosure", "source", "media:content"} \cup PlayerElements => Attr(attrs, "url") \in {<<>>, one}
  BY <1>1, <1>3
<1>5. name = "media:peerLink" => Attr(attrs, "href") \in {<<>>, one}
  BY <1>2, <1>3
<1> QED BY <1>4, <1>5 DEF one

LEMMA NumbersAreLetters == Nat \ {0} \subseteq Letters
BY DEF Letters, Delimiter, Caret

(* Links that are kept with their homes.                                      *)
LEMMA LinksKept ==
    ASSUME NEW d, NEW e, NEW k \in 0..Len(d.items), NEW u, LinkOf(d, k, u),
           \/ SameLists(d, e) \/ OneMore(d, e)
           \/ ListsAreFormed(d) /\ \E url, home : Attaches(d, e, url, home)
    PROVE  LinkOf(e, k, u)
<1>1. CASE SameLists(d, e)
  BY <1>1 DEF SameLists, LinkOf, ListOf
<1>2. CASE OneMore(d, e)
  <2> DEFINE f == "attachments"
  <2>1. f \in Lists
    BY DEF Lists
  <2>2. ListOf(e, k, f) = ListOf(d, k, f)
    <3> HIDE DEF f
    <3> QED BY <1>2, <2>1 DEF OneMore
  <2> QED BY <2>2 DEF LinkOf
<1>3. CASE ListsAreFormed(d) /\ \E url, home : Attaches(d, e, url, home)
  BY <1>3, LinksAttached
<1> QED BY <1>1, <1>2, <1>3

(* An element that begins and has a URL is attached to its home.               *)
LEMMA UrlAttached ==
    ASSUME PathInvariant, PathInvariant', HomeInvariant, IsXml, IsFeed, FitsPath, NEW name \in STRING,
           name \notin ItemElements, NEW attrs \in Attributes(name, Len(document) + 1), Start(name, attrs),
           NEW n, n = Len(document) + 1, IsAttachmentElement(n)'
    PROVE  AttachedUrl(data, name, attrs) = <<n>> /\ AttachedHome(data, name) = Here
<1>01. PICK L : L = Len(open)
  OBVIOUS
<1>1. /\ document'[n].attrs = attrs /\ document'[n].name = name
      /\ PlaceOf(n)' = data.path[L] /\ data.depth = L
  <2>1. NewElement(n, L, name, attrs)
    BY <1>01, ElementBegun
  <2> QED BY <2>1 DEF NewElement
<1>2. /\ name \in {"enclosure", "source", "media:content"} \cup PlayerElements =>
           Attr(attrs, "url") \in {<<>>, <<n>>}
      /\ name = "media:peerLink" => Attr(attrs, "href") \in {<<>>, <<n>>}
  BY OwnAttributes
<1>3. HomeOf(data, Within(data)) = Here
  BY DEF HomeOf, Within, Here
<1>4. PlayerElements \cap {"enclosure", "source", "media:peerLink"} = {}
  BY DEF PlayerElements
<1>5. CASE name \in {"enclosure", "source"}
  <2>1. PlaceOf(n)' = "GENERIC_ITEM" /\ Attr(attrs, "url") # <<>>
    BY <1>1, <1>4, <1>5 DEF IsAttachmentElement
  <2>2. At(data) = "item"
    BY <1>1, <2>1 DEF At
  <2>3. data.in_item
    <3>1. open \in Seq(Nat) /\ L \in 0..Len(open) /\ \A i \in L + 1..Len(open) : open[i] \notin ItemNumbers
      BY <1>01 DEF PathInvariant, OpenAreNested
    <3>2. AroundIsOpen /\ ItemsAreCounted
      BY DEF HomeInvariant
    <3>3. data.path[L] = "GENERIC_ITEM" => data.in_item
      BY <1>01, <3>1, <3>2, PlaceDecides
    <3> QED BY <1>1, <2>1, <3>3
  <2>4. AttachedHome(data, name) = Len(data.items)
    BY <1>5 DEF AttachedHome, HomeOf
  <2>5. AttachedUrl(data, name, attrs) = Attr(attrs, "url")
    BY <1>4, <1>5, <2>2 DEF AttachedUrl
  <2> QED BY <1>2, <1>5, <2>1, <2>3, <2>4, <2>5 DEF Here
<1>6. CASE name \in PlayerElements \cup {"media:content"}
  <2>1. Attr(attrs, "url") # <<>> /\ name \notin {"enclosure", "source", "media:peerLink"}
    BY <1>1, <1>4, <1>6 DEF IsAttachmentElement
  <2>2. AttachedUrl(data, name, attrs) = Attr(attrs, "url")
    BY <1>6, <2>1 DEF AttachedUrl
  <2>3. AttachedHome(data, name) = Here
    BY <1>3, <2>1 DEF AttachedHome
  <2> QED BY <1>2, <1>6, <2>1, <2>2, <2>3
<1>7. CASE name = "media:peerLink"
  <2>1. Attr(attrs, "href") # <<>> /\ name \notin PlayerElements
    BY <1>1, <1>4, <1>7 DEF IsAttachmentElement
  <2>2. AttachedUrl(data, name, attrs) = Attr(attrs, "href")
    BY <1>7, <2>1 DEF AttachedUrl
  <2>3. AttachedHome(data, name) = Here
    BY <1>3, <1>7 DEF AttachedHome
  <2> QED BY <1>2, <1>7, <2>1, <2>2, <2>3
<1> QED BY <1>1, <1>5, <1>6, <1>7 DEF IsAttachmentElement

LEMMA LinksStart ==
    ASSUME PathInvariant, PathInvariant', HomeInvariant, ListsAreFormed(data), IsFeed, FitsPath,
           LinksOfElements, NEW name \in STRING, NEW attrs \in Attributes(name, Len(document) + 1),
           Start(name, attrs)
    PROVE  LinksOfElements'
<1>01. PICK n : n = Len(document) + 1
  OBVIOUS
<1>02. PICK L : L = Len(open)
  OBVIOUS
<1>1. /\ IsXml /\ IsXml' /\ Kept /\ n \notin Numbers /\ Numbers' = Numbers \cup {n} /\ n \in Nat \ {0}
      /\ \A m \in Numbers : Home(m)' = Home(m)
  BY <1>01, <1>02, StartsWithin DEF HomeInvariant
<1>2. /\ document'[n].attrs = attrs /\ document'[n].name = name
      /\ \A m \in Numbers : document'[m] = document[m]
  <2>1. NewElement(n, L, name, attrs)
    BY <1>01, <1>02, ElementBegun
  <2> QED BY <2>1 DEF NewElement
<1>3. \A m \in Numbers : PlaceOf(m)' = PlaceOf(m)
  BY <1>1, PlacesKept DEF PathInvariant
<1>4. \A u : \A k \in 0..Len(data.items) : LinkOf(data, k, u) => LinkOf(data', k, u)
  <2>1. CASE name \in ItemElements
    BY <2>1, ItemStep, LinksKept
  <2>2. CASE name \notin ItemElements
    <3>1. ListsStart(data, name, attrs, data')
      BY <2>2, ElementStep
    <3> QED BY <3>1, LinksKept DEF ListsStart
  <2> QED BY <2>1, <2>2
<1>5. ASSUME NEW m \in Numbers, IsAttachmentElement(m)' PROVE LinkOf(data', Home(m)', <<m>>)
  <2>1. IsAttachmentElement(m)
    <3>1. document'[m] = document[m] /\ PlaceOf(m)' = PlaceOf(m)
      BY <1>2, <1>3
    <3> QED BY <1>5, <3>1, AttachmentKept
  <2>2. LinkOf(data, Home(m), <<m>>) /\ Home(m) \in 0..Len(data.items)
    BY <2>1, HomeIsCounted DEF LinksOfElements
  <2>3. Home(m)' = Home(m)
    BY <1>1
  <2> QED BY <1>4, <2>2, <2>3
<1>6. ASSUME IsAttachmentElement(n)' PROVE LinkOf(data', Home(n)', <<n>>)
  <2>1. name \notin ItemElements
    BY <1>2, <1>6 DEF IsAttachmentElement, ItemElements, PlayerElements
  <2>2. Home(n)' = Here
    BY <1>01, <1>1, <2>1, ElementHome DEF HomeInvariant
  <2>3. AttachedUrl(data, name, attrs) = <<n>> /\ AttachedHome(data, name) = Here
    BY <1>01, <1>1, <1>6, <2>1, UrlAttached
  <2> DEFINE url == <<n>>
  <2>4. url # <<>> /\ WithoutDelimiters(url) = url
    BY <1>1, NumbersAreLetters, StrippedOne
  <2>5. Attaches(data, data', url, Here)
    BY <2>1, <2>3, ElementStep DEF ListsStart
  <2>6. Here \in 0..Len(data.items)
    <3>1. Len(data.items) \in Nat
      BY DataItems DEF PathInvariant, ItemsAreThere
    <3> QED BY <3>1 DEF Here
  <2> HIDE DEF url
  <2>7. LinkOf(data', Here, url)
    BY <2>4, <2>5, <2>6, LinksAttached
  <2> QED BY <2>2, <2>7 DEF url
<1> QED BY <1>1, <1>5, <1>6 DEF LinksOfElements

LEMMA LinksEnd ==
    ASSUME PathInvariant, PathInvariant', HomeInvariant, ListsAreFormed(data), IsFeed, FitsPath,
           LinksOfElements, End
    PROVE  LinksOfElements'
<1>01. PICK L : L = Len(open)
  OBVIOUS
<1>02. PICK n : n = open[L]
  OBVIOUS
<1>03. PICK name : name = document[n].name
  OBVIOUS
<1>04. PICK d : d = Left(data)
  OBVIOUS
<1>1. /\ IsXml /\ IsXml' /\ Kept /\ Numbers' = Numbers
      /\ \A m \in Numbers : Home(m)' = Home(m)
  BY <1>01, <1>02, EndsWithin DEF HomeInvariant
<1>2. \A m \in Numbers : document'[m].name = document[m].name /\ document'[m].attrs = document[m].attrs
  <2>1. /\ document'[n].attrs = document[n].attrs
        /\ \A m \in Numbers : m # n => document'[m] = document[m]
    BY <1>01, <1>02, ElementClosed
  <2>2. \A m \in Numbers : document'[m].name = document[m].name
    BY <1>1 DEF Kept
  <2> QED BY <2>1, <2>2
<1>3. \A m \in Numbers : PlaceOf(m)' = PlaceOf(m)
  BY <1>1, PlacesKept DEF PathInvariant
<1>4. SameLists(data, d) /\ d \in Data
  BY <1>04, LeftTargets
<1>5. \A u : \A k \in 0..Len(data.items) : LinkOf(data, k, u) => LinkOf(data', k, u)
  <2>1. IF name \in ItemElements THEN SameLists(data, data') ELSE ListsEnded(d, name, data')
    BY <1>01, <1>02, <1>03, <1>04, EndStep
  <2>2. CASE name \in ItemElements
    BY <2>1, <2>2, LinksKept
  <2>3. CASE name \notin ItemElements
    <3>1. ListsAreFormed(d)
      <4>1. \A f : Untouched(data, d, f)
        BY <1>4, NothingTouched DEF SameLists
      <4> QED BY <4>1, FormedUntouched DEF ListsAreFormed
    <3>2. Len(d.items) = Len(data.items)
      BY <1>4 DEF SameLists
    <3>3. \A u : \A k \in 0..Len(data.items) : LinkOf(data, k, u) => LinkOf(d, k, u)
      BY <1>4, LinksKept
    <3>4. \A u : \A k \in 0..Len(d.items) : LinkOf(d, k, u) => LinkOf(data', k, u)
      <4>1. \E url, home : Attaches(d, data', url, home)
        BY <2>1, <2>3 DEF ListsEnded
      <4> QED BY <3>1, <4>1, LinksKept
    <3> QED BY <3>2, <3>3, <3>4
  <2> QED BY <2>2, <2>3
<1>6. ASSUME NEW m \in Numbers, IsAttachmentElement(m)' PROVE LinkOf(data', Home(m)', <<m>>)
  <2>1. IsAttachmentElement(m)
    <3>1. /\ document'[m].name = document[m].name /\ document'[m].attrs = document[m].attrs
          /\ PlaceOf(m)' = PlaceOf(m)
      BY <1>2, <1>3
    <3> QED BY <1>6, <3>1, AttachmentKept
  <2>2. LinkOf(data, Home(m), <<m>>) /\ Home(m) \in 0..Len(data.items)
    BY <2>1, HomeIsCounted DEF LinksOfElements
  <2>3. Home(m)' = Home(m)
    BY <1>1
  <2> QED BY <1>5, <2>2, <2>3
<1> QED BY <1>1, <1>6 DEF LinksOfElements

(* Steps that leave the document as it is.                                    *)
LEMMA LinksRest ==
    ASSUME PathInvariant, PathInvariant', HomeInvariant, IsXml, IsFeed, FitsPath, LinksOfElements,
           document' = document, kind' = kind, SameLists(data, data')
    PROVE  LinksOfElements'
<1>1. /\ IsXml' /\ DocumentIsTree /\ DocumentIsTree' /\ Numbers' = Numbers /\ Kept
  BY DEF PathInvariant, Numbers, Kept, IsXml, grammar
<1>2. \A m \in Numbers : Home(m)' = Home(m)
  BY <1>1, XmlHomesKept
<1>3. \A m \in Numbers : PlaceOf(m)' = PlaceOf(m)
  BY <1>1, PlacesKept
<1>4. ASSUME NEW m \in Numbers, IsAttachmentElement(m)' PROVE LinkOf(data', Home(m)', <<m>>)
  <2>1. IsAttachmentElement(m)
    <3>1. document'[m] = document[m] /\ PlaceOf(m)' = PlaceOf(m)
      BY <1>3
    <3> QED BY <1>4, <3>1, AttachmentKept
  <2>2. LinkOf(data, Home(m), <<m>>) /\ Home(m) \in 0..Len(data.items)
    BY <2>1, HomeIsCounted DEF LinksOfElements
  <2>3. Home(m)' = Home(m)
    BY <1>2
  <2> QED BY <2>2, <2>3, LinksKept
<1> QED BY <1>1, <1>4 DEF LinksOfElements

(* Entries of a sort S, in a list and before its last one.                    *)
Held(t, keys, S) == \E i \in DOMAIN Entries(t, keys) : Entries(t, keys)[i] \in S
HeldBefore(t, keys, S) ==
    \E i \in DOMAIN Entries(t, keys) : i < Len(Entries(t, keys)) /\ Entries(t, keys)[i] \in S
LastHeld(t, keys, S) == Entries(t, keys)[Len(Entries(t, keys))] \in S

(* Whether an entry is of the sort S is told by those of its keys.            *)
ToldBy(S, keys, told) ==
    \A r \in [keys -> Seq(Int)], s \in [keys -> Seq(Int)] :
      r \in S /\ (\A k \in told : s[k] = r[k]) => s \in S

LEMMA HeldStays ==
    ASSUME NEW keys, NEW S, NEW old \in Form, NEW new \in BOOLEAN, NEW fields \in Seq(Field),
           NEW t, t = Made(old, new, fields)
    PROVE  /\ HeldBefore(old, keys, S) => HeldBefore(t, keys, S) /\ Held(t, keys, S)
           /\ new /\ Held(old, keys, S) => HeldBefore(t, keys, S) /\ Held(t, keys, S)
           /\ \A told \in SUBSET keys :
                ToldBy(S, keys, told) /\ ~new /\ (\A k \in told : Lacks(fields, k)) =>
                  /\ Held(old, keys, S) => Held(t, keys, S)
                  /\ LastHeld(old, keys, S) => LastHeld(t, keys, S)
           /\ Held(old, keys, S) <=> HeldBefore(old, keys, S) \/ LastHeld(old, keys, S)
           /\ Held(t, keys, S) <=> HeldBefore(t, keys, S) \/ LastHeld(t, keys, S)
<1>1. PICK E : E = Entries(old, keys)
  OBVIOUS
<1>2. PICK G : G = Entries(t, keys)
  OBVIOUS
<1>3. E \in EntryLists(keys) /\ Extends(E, G, new, fields, keys)
  BY <1>1, <1>2, CaretReads, MadeReads
<1>4. /\ Len(E) \in Nat \ {0} /\ DOMAIN E = 1..Len(E) /\ DOMAIN G = 1..Len(G)
      /\ Len(G) = IF new THEN Len(E) + 1 ELSE Len(E)
      /\ \A i \in 1..Len(E) : E[i] \in [keys -> Seq(Int)]
      /\ \A i \in 1..Len(G) : G[i] \in [keys -> Seq(Int)]
  <2>1. G \in EntryLists(keys) /\ Len(G) = IF new THEN Len(E) + 1 ELSE Len(E)
    BY <1>3 DEF Extends
  <2> QED BY <1>3, <2>1, EntriesAre
<1>5. \A i \in 1..Len(E) : new \/ i # Len(E) => G[i] = E[i]
  BY <1>3 DEF Extends
<1>01. PICK p : p = Len(E)
  OBVIOUS
<1>02. PICK q : q = Len(G)
  OBVIOUS
<1>03. /\ p \in Nat \ {0} /\ q \in Nat \ {0} /\ q = IF new THEN p + 1 ELSE p
       /\ \A i \in 1..p : new \/ i # p => G[i] = E[i]
  BY <1>01, <1>02, <1>4, <1>5
<1>6. /\ Held(old, keys, S) <=> \E i \in 1..p : E[i] \in S
      /\ HeldBefore(old, keys, S) <=> \E i \in 1..p : i < p /\ E[i] \in S
      /\ LastHeld(old, keys, S) <=> E[p] \in S
  BY <1>1, <1>01, <1>4 DEF Held, HeldBefore, LastHeld
<1>7. /\ Held(t, keys, S) <=> \E i \in 1..q : G[i] \in S
      /\ HeldBefore(t, keys, S) <=> \E i \in 1..q : i < q /\ G[i] \in S
      /\ LastHeld(t, keys, S) <=> G[q] \in S
  BY <1>2, <1>02, <1>4 DEF Held, HeldBefore, LastHeld
<1>8. HeldBefore(old, keys, S) => HeldBefore(t, keys, S) /\ Held(t, keys, S)
  <2> SUFFICES ASSUME NEW i \in 1..p, i < p, E[i] \in S PROVE \E j \in 1..q : j < q /\ G[j] \in S
    BY <1>6, <1>7
  <2>1. i \in 1..q /\ i < q /\ G[i] \in S
    BY <1>03
  <2> QED BY <2>1
<1>9. new /\ Held(old, keys, S) => HeldBefore(t, keys, S) /\ Held(t, keys, S)
  <2> SUFFICES ASSUME new, NEW i \in 1..p, E[i] \in S PROVE \E j \in 1..q : j < q /\ G[j] \in S
    BY <1>6, <1>7
  <2>1. i \in 1..q /\ i < q /\ G[i] \in S
    BY <1>03
  <2> QED BY <2>1
<1>10. /\ Held(old, keys, S) <=> HeldBefore(old, keys, S) \/ LastHeld(old, keys, S)
       /\ Held(t, keys, S) <=> HeldBefore(t, keys, S) \/ LastHeld(t, keys, S)
  <2>1. Held(old, keys, S) <=> HeldBefore(old, keys, S) \/ LastHeld(old, keys, S)
    <3>1. p \in 1..p /\ \A i \in 1..p : i < p \/ i = p
      BY <1>03
    <3> QED BY <1>6, <3>1
  <2>2. Held(t, keys, S) <=> HeldBefore(t, keys, S) \/ LastHeld(t, keys, S)
    <3>1. q \in 1..q /\ \A i \in 1..q : i < q \/ i = q
      BY <1>03
    <3> QED BY <1>7, <3>1
  <2> QED BY <2>1, <2>2
<1>11. ASSUME NEW told \in SUBSET keys, ToldBy(S, keys, told), ~new, \A k \in told : Lacks(fields, k)
       PROVE  /\ Held(old, keys, S) => Held(t, keys, S)
              /\ LastHeld(old, keys, S) => LastHeld(t, keys, S)
  <2>1. \A k \in told : G[Len(G)][k] = E[Len(E)][k]
    <3>1. \A k \in keys : Lacks(fields, k) => G[Len(G)][k] = IF new THEN <<>> ELSE E[Len(E)][k]
      BY <1>3 DEF Extends
    <3> QED BY <1>11, <3>1
  <2>2. E[Len(E)] \in [keys -> Seq(Int)] /\ G[Len(G)] \in [keys -> Seq(Int)]
    <3>1. Len(E) \in 1..Len(E) /\ Len(G) \in 1..Len(G)
      BY <1>01, <1>02, <1>03
    <3> QED BY <1>4, <3>1
  <2>3. E[Len(E)] \in S => G[Len(G)] \in S
    <3>1. PICK r \in [keys -> Seq(Int)] : r = E[Len(E)]
      BY <2>2
    <3>2. PICK s \in [keys -> Seq(Int)] : s = G[Len(G)]
      BY <2>2
    <3>3. r \in S /\ (\A k \in told : s[k] = r[k]) => s \in S
      BY <1>11 DEF ToldBy
    <3> QED BY <2>1, <3>1, <3>2, <3>3
  <2>4. LastHeld(old, keys, S) => LastHeld(t, keys, S)
    BY <1>01, <1>02, <1>6, <1>7, <2>3
  <2> QED BY <1>8, <1>10, <2>4
<1> QED BY <1>8, <1>9, <1>10, <1>11

(* What an entry holds of a key whose field was added.                        *)
LEMMA LastGiven ==
    ASSUME NEW keys, NEW k \in keys, NEW v, WithoutDelimiters(v) # <<>>, NEW old \in Form,
           NEW new \in BOOLEAN, NEW fields \in Seq(Field), Has(fields, k, v), NEW t, t = Made(old, new, fields)
    PROVE  /\ Entries(t, keys)[Len(Entries(t, keys))][k] = WithoutDelimiters(v)
           /\ Entries(t, keys)[Len(Entries(t, keys))] \in [keys -> Seq(Int)]
<1>1. PICK E : E = Entries(old, keys)
  OBVIOUS
<1>2. PICK G : G = Entries(t, keys)
  OBVIOUS
<1>3. E \in EntryLists(keys) /\ Extends(E, G, new, fields, keys)
  BY <1>1, <1>2, CaretReads, MadeReads
<1>4. G[Len(G)][k] = WithoutDelimiters(v)
  BY <1>3 DEF Extends
<1>5. G[Len(G)] \in [keys -> Seq(Int)]
  <2>1. G \in EntryLists(keys)
    BY <1>3 DEF Extends
  <2>2. Len(G) \in 1..Len(G)
    BY <2>1, EntriesAre
  <2> QED BY <2>1, <2>2, EntriesAre
<1> QED BY <1>2, <1>4, <1>5
-----------------------------------------------------------------------------
(* Attachments of JSON feeds.                                                 *)

WithUrl(u) == {r \in [LinkKeys -> Seq(Int)] : r[Key.url] = u}

LEMMA UrlsTell ==
    ASSUME NEW u
    PROVE  /\ {Key.url} \in SUBSET LinkKeys /\ ToldBy(WithUrl(u), LinkKeys, {Key.url})
           /\ \A t \in Form : Held(t, LinkKeys, WithUrl(u)) <=> Linked(t, u)
<1>1. {Key.url} \in SUBSET LinkKeys
  BY DEF LinkKeys
<1>2. ToldBy(WithUrl(u), LinkKeys, {Key.url})
  BY DEF ToldBy, WithUrl
<1>3. ASSUME NEW t \in Form PROVE Held(t, LinkKeys, WithUrl(u)) <=> Linked(t, u)
  <2>1. PICK E : E = Entries(t, LinkKeys)
    OBVIOUS
  <2>2. E \in EntryLists(LinkKeys)
    BY <2>1, CaretReads
  <2>3. \A i \in DOMAIN E : E[i] \in [LinkKeys -> Seq(Int)]
    BY <2>2, EntriesAre
  <2>4. \A i \in DOMAIN E : E[i] \in WithUrl(u) <=> E[i][Key.url] = u
    BY <2>3 DEF WithUrl
  <2> QED BY <2>1, <2>4 DEF Held, Linked
<1> QED BY <1>1, <1>2, <1>3

(* The entry of a URL is not the last one, which more fields may join.         *)
EarlierLink(d, k, u) == HeldBefore(ListOf(d, k, "attachments"), LinkKeys, WithUrl(u))

IsLatest(n) == document[n].index = data.attachment_index /\ document[n].item = data.item_index

LinksOfRows ==
    \A n \in Numbers : IsAttachmentRow(n) =>
      /\ LinkOf(data, Home(n), <<n>>)
      /\ Home(n) = Len(data.items) => EarlierLink(data, Home(n), <<n>>) \/ IsLatest(n)

LinksChange(d, e, h, new, fields) == Changes(d, e, "attachments", h, new, fields)

LinksAfter(d, e, h, new, fields, k, u) ==
    /\ EarlierLink(d, k, u) => EarlierLink(e, k, u) /\ LinkOf(e, k, u)
    /\ LinkOf(d, k, u) /\ (k # h \/ new \/ Lacks(fields, Key.url)) => LinkOf(e, k, u)
    /\ LinkOf(d, k, u) /\ k = h /\ new => EarlierLink(e, k, u)

(* What a change of one list makes of the links of all.                       *)
LEMMA LinksChanged ==
    ASSUME NEW d, NEW e, ListsAreFormed(d), NEW h \in Int, NEW new \in BOOLEAN, NEW fields \in Seq(Field),
           LinksChange(d, e, h, new, fields), NEW k \in 0..Len(d.items), NEW u
    PROVE  LinksAfter(d, e, h, new, fields, k, u)
<1> DEFINE f == "attachments"
<1>1. ListOf(d, k, f) \in Form
  BY DEF ListsAreFormed, FormedList
<1> HIDE DEF f
<1>2. ListOf(e, k, f) = IF k = h THEN Made(ListOf(d, k, f), new, fields) ELSE ListOf(d, k, f)
  BY DEF LinksChange, Changes, f
<1>3. PICK old \in Form : old = ListOf(d, k, f)
  BY <1>1
<1>4. PICK t : t = ListOf(e, k, f)
  OBVIOUS
<1>5. /\ LinkOf(d, k, u) <=> Held(old, LinkKeys, WithUrl(u))
      /\ EarlierLink(d, k, u) <=> HeldBefore(old, LinkKeys, WithUrl(u))
      /\ EarlierLink(e, k, u) <=> HeldBefore(t, LinkKeys, WithUrl(u))
  BY <1>3, <1>4, UrlsTell DEF LinkOf, EarlierLink, f
<1>6. LinkOf(e, k, u) <=> Linked(t, u)
  BY <1>4 DEF LinkOf, f
<1>7. ASSUME k = h PROVE LinksAfter(d, e, h, new, fields, k, u)
  <2>1. t = Made(old, new, fields)
    BY <1>2, <1>3, <1>4, <1>7
  <2>2. t \in Form
    BY <2>1, MadeReads
  <2>3. Linked(t, u) <=> Held(t, LinkKeys, WithUrl(u))
    BY <2>2, UrlsTell
  <2>4. /\ HeldBefore(old, LinkKeys, WithUrl(u)) =>
             HeldBefore(t, LinkKeys, WithUrl(u)) /\ Held(t, LinkKeys, WithUrl(u))
        /\ new /\ Held(old, LinkKeys, WithUrl(u)) =>
             HeldBefore(t, LinkKeys, WithUrl(u)) /\ Held(t, LinkKeys, WithUrl(u))
    BY <2>1, HeldStays
  <2>5. ~new /\ Lacks(fields, Key.url) /\ Held(old, LinkKeys, WithUrl(u)) => Held(t, LinkKeys, WithUrl(u))
    <3> DEFINE told == {Key.url}
    <3>1. told \in SUBSET LinkKeys /\ ToldBy(WithUrl(u), LinkKeys, told)
      BY UrlsTell
    <3>2. Lacks(fields, Key.url) => \A key \in told : Lacks(fields, key)
      OBVIOUS
    <3> HIDE DEF told
    <3> QED BY <2>1, <3>1, <3>2, HeldStays
  <2> QED BY <1>5, <1>6, <1>7, <2>3, <2>4, <2>5 DEF LinksAfter
<1>8. ASSUME k # h PROVE LinksAfter(d, e, h, new, fields, k, u)
  <2>1. t = old
    BY <1>2, <1>3, <1>4, <1>8
  <2>2. Linked(t, u) <=> Held(t, LinkKeys, WithUrl(u))
    BY <2>1, UrlsTell
  <2>3. HeldBefore(t, LinkKeys, WithUrl(u)) => Held(t, LinkKeys, WithUrl(u))
    BY DEF HeldBefore, Held
  <2> QED BY <1>5, <1>6, <1>8, <2>1, <2>2, <2>3 DEF LinksAfter
<1> QED BY <1>7, <1>8

(* A row, what it is written to, and its home.                                *)
LEMMA RowFrom ==
    ASSUME PathInvariant, PathInvariant', HomeInvariant, HomeInvariant', FitsPath, ListsAreFormed(data),
           NEW row \in grammar.rows, Row(row), NEW n, n = Len(document) + 1, NEW b, b = RowBase(data, row)
    PROVE  /\ b \in Data /\ ListsAreFormed(b) /\ Len(data'.items) = Len(b.items)
           /\ Len(data.items) \in Nat /\ Len(b.items) \in Nat
           /\ \/ /\ Begins(data, row) /\ OneMore(data, b) /\ Len(b.items) = Len(data.items) + 1
                 /\ b.author_index = -1 /\ b.attachment_index = -1
              \/ ~Begins(data, row) /\ b = data
           /\ InItems(row) => b.item_index = row.item /\ Home(n)' = Len(b.items)
           /\ ~InItems(row) => b = data /\ Home(n)' = 0
           /\ row.place \in {"authors", "feed_authors"} => PersonRead(b, data', RowWhere(row), row, <<n>>)
           /\ row.place = "attachments" => AttachmentRead(b, data', row, <<n>>)
           /\ row.place \in {"feed", "item"} => ValueRead(b, data', row, <<n>>)
<1> DEFINE value == <<n>>
<1>1. /\ row.place \in {"authors", "feed_authors"} => PersonRead(b, data', RowWhere(row), row, value)
      /\ row.place = "attachments" => AttachmentRead(b, data', row, value)
      /\ row.place \in {"feed", "item"} => ValueRead(b, data', row, value)
      /\ Aims(b, RowWhere(row), Int, Int, Int) /\ ListsAreFormed(b)
  BY RowStep
<1> HIDE DEF value
<1>2. /\ ~IsXml /\ row \in Rows /\ Len(document') = n
      /\ row.place \notin {"feed", "feed_authors"} => row.item >= 0
      /\ Home(n)' = IF InItems(row) THEN Cardinality(MetItems(n)') ELSE 0
  BY RowsWithin
<1>3. data \in Data /\ (data.item_index # -1 => data.items # <<>>)
  BY DEF PathInvariant, ItemsAreThere
<1>4. b \in Data
  BY <1>1 DEF Aims, Holds
<1>5. Len(data.items) \in Nat /\ Len(b.items) \in Nat
  BY <1>3, <1>4, DataItems
<1>6. Len(data'.items) = Len(b.items)
  <2>1. row.place \in {"authors", "feed_authors", "attachments", "feed", "item"}
    BY <1>2 DEF Rows, RowPlaces
  <2>2. Untouched(b, data', "persons") \/ Untouched(b, data', "content")
    BY <1>1, <2>1 DEF PersonRead, AttachmentRead, ValueRead
  <2> QED BY <2>2 DEF Untouched
<1>7. ASSUME Begins(data, row)
      PROVE  OneMore(data, b) /\ b.author_index = -1 /\ b.attachment_index = -1
  <2>1. b = Begun(data, row)
    BY <1>7 DEF RowBase
  <2> QED BY <1>2, <1>3, <2>1, BegunOneMore
<1>8. ~Begins(data, row) => b = data
  BY DEF RowBase
<1>9. ASSUME InItems(row) PROVE b.item_index = row.item /\ Home(n)' = Len(b.items)
  <2>1. row.item >= 0
    BY <1>2, <1>9 DEF InItems
  <2>2. b.item_index = row.item
    BY <1>2, <1>3, <1>9, <2>1, RowBaseIs
  <2>3. IndexesAreCounted'
    <3>1. ~IsXml' /\ IsFeed' /\ FitsPath'
      <4>1. grammar' = grammar
        BY DEF Row, grammar
      <4> QED BY <1>2, <4>1 DEF IsXml, IsFeed, FitsPath
    <3> QED BY <3>1 DEF HomeInvariant
  <2>4. Len(data'.items) = Cardinality(MetItems(Len(document))')
    BY <2>3 DEF IndexesAreCounted
  <2>5. MetItems(Len(document))' = MetItems(n)'
    BY <1>2 DEF MetItems
  <2> QED BY <1>2, <1>6, <1>9, <2>2, <2>4, <2>5
<1>10. ASSUME ~InItems(row) PROVE b = data /\ Home(n)' = 0
  BY <1>2, <1>10 DEF RowBase, Begins
<1>11. \/ /\ Begins(data, row) /\ OneMore(data, b) /\ Len(b.items) = Len(data.items) + 1
          /\ b.author_index = -1 /\ b.attachment_index = -1
       \/ ~Begins(data, row) /\ b = data
  <2>1. OneMore(data, b) => Len(b.items) = Len(data.items) + 1
    BY DEF OneMore
  <2> QED BY <1>7, <1>8, <2>1
<1> QED BY <1>1, <1>4, <1>5, <1>6, <1>9, <1>10, <1>11 DEF value

(* The link that a change adds.                                               *)
LEMMA LinkGiven ==
    ASSUME NEW d, NEW e, ListsAreFormed(d), NEW h \in 0..Len(d.items), NEW new \in BOOLEAN,
           NEW fields \in Seq(Field), LinksChange(d, e, h, new, fields), NEW url,
           Has(fields, Key.url, url), WithoutDelimiters(url) = url, url # <<>>
    PROVE  LinkOf(e, h, url)
<1> DEFINE f == "attachments"
<1>1. ListOf(d, h, f) \in Form
  BY DEF ListsAreFormed, FormedList
<1> HIDE DEF f
<1>2. ListOf(e, h, f) = Made(ListOf(d, h, f), new, fields)
  BY DEF LinksChange, Changes, f
<1>3. Linked(ListOf(e, h, f), url)
  BY <1>1, <1>2, LinkMade
<1> QED BY <1>3 DEF LinkOf, f

(* A row that is not repeated, before another row.                            *)
LEMMA RowsNotRepeated ==
    ASSUME PathInvariant, PathInvariant', NEW row \in grammar.rows, Row(row), NEW m \in Numbers
    PROVE  /\ document'[m] = document[m]
           /\ IsLastSuch(m)' => IsLastSuch(m) /\ document[m] # row
<1>1. PICK n : n = Len(document) + 1
  OBVIOUS
<1>2. /\ n \in Nat \ {0} /\ n \in Numbers' /\ Numbers = 1..n - 1 /\ Numbers' = 1..n /\ document'[n] = row
      /\ \A j \in Numbers : document'[j] = document[j]
  BY <1>1, RowsWithin
<1>3. n > m
  BY <1>2
<1> QED BY <1>2, <1>3 DEF IsLastSuch

LEMMA LinksRow ==
    ASSUME PathInvariant, PathInvariant', HomeInvariant, HomeInvariant', FitsPath, ListsAreFormed(data),
           LinksOfRows, NEW row \in grammar.rows, Row(row)
    PROVE  LinksOfRows'
<1>01. PICK n : n = Len(document) + 1
  OBVIOUS
<1>02. PICK b : b = RowBase(data, row)
  OBVIOUS
<1>03. PICK L : L = Len(data.items)
  OBVIOUS
<1>04. PICK M : M = Len(b.items)
  OBVIOUS
<1> DEFINE value == <<n>>
<1>1. /\ ListsAreFormed(b) /\ Len(data'.items) = M /\ L \in Nat /\ M \in Nat
      /\ \/ Begins(data, row) /\ OneMore(data, b) /\ M = L + 1
         \/ ~Begins(data, row) /\ b = data
      /\ InItems(row) => b.item_index = row.item /\ Home(n)' = M
      /\ row.place \in {"authors", "feed_authors"} => PersonRead(b, data', RowWhere(row), row, value)
      /\ row.place = "attachments" => AttachmentRead(b, data', row, value)
      /\ row.place \in {"feed", "item"} => ValueRead(b, data', row, value)
  BY <1>01, <1>02, <1>03, <1>04, RowFrom
<1> HIDE DEF value
<1>2. /\ ~IsXml /\ n \in Nat \ {0} /\ n \in Numbers' /\ Numbers = 1..n - 1 /\ Numbers' = 1..n
      /\ document'[n] = row /\ row \in Rows
      /\ \A m \in Numbers : Home(m)' = Home(m) /\ document'[m] = document[m]
  BY <1>01, RowsWithin
<1>3. row.place \in {"authors", "feed_authors", "attachments", "feed", "item"}
  BY <1>2 DEF Rows, RowPlaces
<1>4. M = L \/ M = L + 1
  BY <1>1, <1>03, <1>04
<1>5. ASSUME NEW m \in Numbers, IsAttachmentRow(m)'
      PROVE  /\ LinkOf(data', Home(m)', <<m>>)
             /\ Home(m)' = Len(data'.items) => EarlierLink(data', Home(m)', <<m>>) \/ IsLatest(m)'
  <2>1. IsAttachmentRow(m) /\ document[m] # row /\ document'[m] = document[m]
    BY <1>5, RowsNotRepeated DEF IsAttachmentRow
  <2>2. PICK k \in 0..L : k = Home(m)
    <3>1. IsFeed
      BY <1>2 DEF IsFeed
    <3> QED BY <1>03, <3>1, HomeIsCounted
  <2>3. PICK u : u = <<m>>
    OBVIOUS
  <2>4. LinkOf(data, k, u) /\ (k = L => EarlierLink(data, k, u) \/ IsLatest(m))
    BY <1>03, <2>1, <2>2, <2>3 DEF LinksOfRows
  <2>5. Home(m)' = k
    BY <1>2, <2>2
  <2>6. LinkOf(b, k, u) /\ (k = M => b = data /\ (EarlierLink(b, k, u) \/ IsLatest(m)))
    <3>1. CASE OneMore(data, b) /\ M = L + 1
      <4>1. k # M
        BY <1>1, <3>1
      <4> QED BY <1>03, <2>4, <3>1, <4>1, LinksKept
    <3>2. CASE b = data
      BY <1>03, <1>04, <2>4, <3>2
    <3> QED BY <1>1, <3>1, <3>2
  <2>7. k \in 0..Len(b.items)
    BY <1>1, <1>4, <1>04
  <2>8. LinkOf(data', k, u) /\ (k = M => EarlierLink(data', k, u) \/ IsLatest(m)')
    <3>1. CASE row.place \in {"authors", "feed_authors"}
      <4>1. Untouched(b, data', "attachments")
        BY <1>1, <3>1 DEF PersonRead
      <4>2. ListOf(data', k, "attachments") = ListOf(b, k, "attachments")
        BY <2>7, <4>1 DEF Untouched
      <4>3. data'.item_index = b.item_index /\ data'.attachment_index = b.attachment_index
        BY <1>1, <3>1 DEF PersonRead
      <4> QED BY <2>1, <2>6, <4>2, <4>3 DEF LinkOf, EarlierLink, IsLatest
    <3>2. CASE row.place \in {"feed", "item"}
      <4>1. ValueRead(b, data', row, value)
        BY <1>1, <3>2
      <4>2. PICK h \in Int, fields \in Seq(Field) : Changes(b, data', "attachments", h, TRUE, fields)
        BY <4>1 DEF ValueRead, Enlarged
      <4>3. data'.item_index = b.item_index /\ data'.attachment_index = b.attachment_index
        BY <4>1 DEF ValueRead, SameIndexes
      <4>4. LinkOf(data', k, u) /\ (EarlierLink(b, k, u) => EarlierLink(data', k, u))
        <5>1. PICK new \in BOOLEAN : new = TRUE
          OBVIOUS
        <5>2. LinksChange(b, data', h, new, fields)
          BY <4>2, <5>1 DEF LinksChange
        <5>3. LinksAfter(b, data', h, new, fields, k, u)
          BY <1>1, <2>7, <5>2, LinksChanged
        <5> QED BY <2>6, <5>1, <5>3 DEF LinksAfter
      <4> QED BY <2>1, <2>6, <4>3, <4>4 DEF IsLatest
    <3>3. CASE row.place = "attachments"
      <4>1. AttachmentRead(b, data', row, value)
        BY <1>1, <3>3
      <4>2. PICK new \in BOOLEAN : new <=> (row.index # b.attachment_index)
        OBVIOUS
      <4>3. PICK fields \in Seq(Field) :
               /\ Changes(b, data', "attachments", M, new, fields)
               /\ IF row.key = "url" THEN Has(fields, Key.url, value) ELSE Lacks(fields, Key.url)
        <5>1. new = (row.index # b.attachment_index)
          BY <4>2
        <5> QED BY <1>04, <4>1, <5>1 DEF AttachmentRead
      <4>4. /\ EarlierLink(b, k, u) => EarlierLink(data', k, u) /\ LinkOf(data', k, u)
            /\ k # M \/ new \/ Lacks(fields, Key.url) => LinkOf(data', k, u)
            /\ k = M /\ new => EarlierLink(data', k, u)
        <5>1. M \in Int /\ ListsAreFormed(b) /\ LinkOf(b, k, u)
          BY <1>1, <2>6
        <5>2. LinksChange(b, data', M, new, fields)
          BY <4>3 DEF LinksChange
        <5>3. LinksAfter(b, data', M, new, fields, k, u)
          BY <2>7, <5>1, <5>2, LinksChanged
        <5> QED BY <5>1, <5>3 DEF LinksAfter
      <4>5. data'.attachment_index = row.index /\ data'.item_index = b.item_index
        BY <4>1 DEF AttachmentRead
      <4>6. CASE k # M \/ new \/ EarlierLink(b, k, u)
        BY <4>4, <4>6
      <4>7. CASE k = M /\ ~new /\ ~EarlierLink(b, k, u)
        <5>1. b = data /\ IsLatest(m)
          BY <2>6, <4>7
        <5>2. row.item = document[m].item /\ row.index = document[m].index
          BY <1>1, <3>3, <4>2, <4>7, <5>1 DEF IsLatest, InItems
        <5>3. row.key # "url"
          <6>1. document[m] \in Rows
            <7>1. document \in Seq(grammar.rows) /\ grammar.rows \subseteq Rows
              BY <1>2, GrammarIs DEF PathInvariant, DocumentIsTree
            <7>2. document[m] \in grammar.rows
              BY <7>1 DEF Numbers
            <7> QED BY <7>1, <7>2
          <6>2. document[m].place = row.place /\ document[m].key = "url"
            BY <2>1, <3>3 DEF IsAttachmentRow
          <6> QED BY <1>2, <2>1, <5>2, <6>1, <6>2 DEF Rows
        <5>4. LinkOf(data', k, u)
          BY <4>3, <4>4, <5>3
        <5>5. IsLatest(m)'
          BY <1>1, <2>1, <3>3, <4>5, <5>2 DEF IsLatest, InItems
        <5> QED BY <5>4, <5>5
      <4> QED BY <4>6, <4>7
    <3> QED BY <1>3, <3>1, <3>2, <3>3
  <2> QED BY <1>1, <2>3, <2>5, <2>8
<1>6. ASSUME IsAttachmentRow(n)'
      PROVE  LinkOf(data', Home(n)', <<n>>) /\ IsLatest(n)'
  <2>1. row.place = "attachments" /\ row.key = "url"
    BY <1>2, <1>6 DEF IsAttachmentRow
  <2>2. AttachmentRead(b, data', row, value)
    BY <1>1, <2>1
  <2>3. InItems(row)
    BY <2>1 DEF InItems
  <2>4. IsLatest(n)'
    BY <1>1, <1>2, <2>2, <2>3 DEF AttachmentRead, IsLatest
  <2>5. PICK new \in BOOLEAN : new <=> (row.index # b.attachment_index)
    OBVIOUS
  <2>6. PICK fields \in Seq(Field) :
           /\ LinksChange(b, data', M, new, fields) /\ Has(fields, Key.url, value)
    <3>1. new = (row.index # b.attachment_index)
      BY <2>5
    <3> QED BY <1>04, <2>1, <2>2, <3>1 DEF AttachmentRead, LinksChange
  <2>7. value # <<>> /\ WithoutDelimiters(value) = value
    BY <1>2, NumbersAreLetters, StrippedOne DEF value
  <2>8. LinkOf(data', M, value)
    <3>1. M \in 0..Len(b.items)
      BY <1>1, <1>04
    <3> QED BY <1>1, <2>6, <2>7, <3>1, LinkGiven
  <2> QED BY <1>1, <2>3, <2>4, <2>8 DEF value
<1> QED BY <1>2, <1>5, <1>6 DEF LinksOfRows

LEMMA RowLinksRest ==
    ASSUME PathInvariant, PathInvariant', HomeInvariant, ~IsXml, FitsPath, LinksOfRows,
           document' = document, kind' = kind, data' = data
    PROVE  LinksOfRows'
<1>1. ~IsXml' /\ DocumentIsTree /\ DocumentIsTree' /\ Numbers' = Numbers
  BY DEF PathInvariant, Numbers, IsXml, grammar
<1>2. \A m \in Numbers : Home(m)' = Home(m)
  BY <1>1, JsonHomesKept
<1>3. ASSUME NEW m \in Numbers, IsAttachmentRow(m)'
      PROVE  /\ LinkOf(data', Home(m)', <<m>>)
             /\ Home(m)' = Len(data'.items) => EarlierLink(data', Home(m)', <<m>>) \/ IsLatest(m)'
  <2>1. IsAttachmentRow(m)
    BY <1>1, <1>3 DEF IsAttachmentRow, IsLastSuch
  <2>2. Home(m)' = Home(m) /\ (IsLatest(m) => IsLatest(m)')
    BY <1>2 DEF IsLatest
  <2> QED BY <2>1, <2>2 DEF LinksOfRows
<1> QED BY <1>1, <1>3 DEF LinksOfRows
-----------------------------------------------------------------------------
(* The URL of every attachment is among the links of its item.                *)

LinksInvariant ==
    IsFeed /\ FitsPath => IF IsXml THEN LinksOfElements ELSE LinksOfRows

LEMMA LinksStep ==
    ASSUME PathInvariant, PathInvariant', HomeInvariant, HomeInvariant', ListsAreFormed(data),
           LinksInvariant, [Next]_vars
    PROVE  LinksInvariant'
<1>1. CASE Engage \/ Finish \/ UNCHANGED vars
  <2>1. document' = document /\ kind' = kind /\ data' = data
    BY <1>1 DEF Engage, Finish, vars
  <2>2. /\ IsXml' = IsXml /\ FitsPath' = FitsPath /\ SameLists(data, data')
        /\ DocumentIsTree /\ DocumentIsTree' /\ Numbers' = Numbers /\ Kept
    BY <2>1 DEF PathInvariant, Numbers, Kept, IsXml, FitsPath, grammar, SameLists
  <2>3. IsFeed' => IsFeed
    BY <2>2, XmlHomesKept DEF IsFeed
  <2> QED BY <2>1, <2>2, <2>3, LinksRest, RowLinksRest DEF LinksInvariant
<1>2. ASSUME NEW name \in UNION {grammar.levels[i] : i \in DOMAIN grammar.levels},
             NEW attrs \in Attributes(name, Len(document) + 1), Start(name, attrs)
      PROVE  LinksInvariant'
  <2>1. name \in STRING
    BY GrammarIs DEF PathInvariant, DocumentIsTree
  <2>2. IsXml /\ IsXml' /\ (IsFeed' => IsFeed)
    BY <1>2, <2>1, StartsWithin DEF HomeInvariant
  <2>3. FitsPath' = FitsPath
    BY <1>2 DEF Start, FitsPath, grammar
  <2> QED BY <1>2, <2>1, <2>2, <2>3, LinksStart DEF LinksInvariant
<1>3. ASSUME NEW token \in {Space, Delimiter} \cup 1..Len(document), Characters(token)
      PROVE  LinksInvariant'
  <2>1. IsXml /\ IsXml' /\ (IsFeed' => IsFeed)
    BY <1>3, TextHomes DEF HomeInvariant
  <2>2. document' = document /\ kind' = kind /\ FitsPath' = FitsPath
    BY <1>3 DEF Characters, FitsPath, grammar
  <2>3. SameLists(data, data')
    BY <1>3, TextStep
  <2> QED BY <2>1, <2>2, <2>3, LinksRest DEF LinksInvariant
<1>4. CASE End
  <2>1. IsXml /\ IsXml' /\ (IsFeed' => IsFeed)
    BY <1>4, EndsWithin DEF HomeInvariant
  <2>2. FitsPath' = FitsPath
    BY <1>4 DEF End, FitsPath, grammar
  <2> QED BY <1>4, <2>1, <2>2, LinksEnd DEF LinksInvariant
<1>5. ASSUME NEW row \in grammar.rows, Row(row) PROVE LinksInvariant'
  <2>1. ~IsXml /\ ~IsXml'
    <3>1. Len(document) + 1 = Len(document) + 1
      OBVIOUS
    <3> QED BY <1>5, <3>1, RowsWithin
  <2>2. IsFeed /\ FitsPath' = FitsPath
    BY <1>5, <2>1 DEF IsFeed, Row, FitsPath, grammar
  <2> QED BY <1>5, <2>1, <2>2, LinksRow DEF LinksInvariant
<1> QED BY <1>1, <1>2, <1>3, <1>4, <1>5 DEF Next, Terminated

LEMMA LinksHold == Spec => []LinksInvariant
<1>1. Init => LinksInvariant
  <2> SUFFICES ASSUME Init PROVE LinksInvariant
    OBVIOUS
  <2>1. Numbers = {}
    BY DEF Init, Numbers
  <2> QED BY <2>1 DEF LinksInvariant, LinksOfElements, LinksOfRows
<1>2. PathInvariant /\ PathInvariant' /\ HomeInvariant /\ HomeInvariant' /\ ListsAreFormed(data)
      /\ LinksInvariant /\ [Next]_vars => LinksInvariant'
  BY LinksStep
<1> QED BY <1>1, <1>2, PathHolds, HomeHolds, FormsHold, PTL DEF Spec

(* The URL of every attachment is read back as a link of its item, of feeds of *)
(* any size, though later elements and rows complete the last attachment or   *)
(* begin one, and an entry is shown only if it has a URL                      *)
(* (items-metadata-links.c:117-148, string-serialize.c:19-112).                *)
THEOREM AttachmentsStay == Spec => []AttachmentsAreRead
<1>1. PathInvariant /\ HomeInvariant /\ ListsAreFormed(data) /\ LinksInvariant => AttachmentsAreRead
  <2> SUFFICES ASSUME PathInvariant, HomeInvariant, ListsAreFormed(data), LinksInvariant, IsFeed, FitsPath,
                      NEW n \in Numbers, IF IsXml THEN IsAttachmentElement(n) ELSE IsAttachmentRow(n)
               PROVE  <<n>> \in ToSet(add_item_attachments_to_links_list(<<>>, Owner(n).attachments))
    BY DEF AttachmentsAreRead
  <2>1. PICK u : u = <<n>>
    OBVIOUS
  <2>2. LinkOf(data, Home(n), u)
    BY <2>1 DEF LinksInvariant, LinksOfElements, LinksOfRows
  <2>3. PICK t : t = Owner(n).attachments
    OBVIOUS
  <2>4. t = ListOf(data, Home(n), "attachments")
    BY <2>3 DEF Owner, Item, ListOf
  <2>5. t \in Form
    BY <2>4, HomeIsCounted DEF ListsAreFormed, FormedList
  <2>6. PICK i \in DOMAIN Entries(t, LinkKeys) : Entries(t, LinkKeys)[i][Key.url] = u
    BY <2>2, <2>4 DEF LinkOf, Linked
  <2>7. u # <<>>
    BY <2>1
  <2> QED BY <2>1, <2>3, <2>5, <2>6, <2>7, LinksListed
<1> QED BY <1>1, PathHolds, HomeHolds, FormsHold, LinksHold, PTL

(* Persons.                                                                   *)

Typed == {r \in [PersonKeys -> Seq(Int)] : r[Key.type] # <<>>}
NamedSo(u) == {r \in [PersonKeys -> Seq(Int)] : Visible(r[Key.name]) = u}
TypedSo(u) == Typed \cap NamedSo(u)

PersonOf(d, k, u) == Held(ListOf(d, k, "persons"), PersonKeys, TypedSo(u))
EarlierPerson(d, k, u) == HeldBefore(ListOf(d, k, "persons"), PersonKeys, TypedSo(u))
LastTyped(d, k) == LastHeld(ListOf(d, k, "persons"), PersonKeys, Typed)

PersonsChange(d, e, h, new, fields) == Changes(d, e, "persons", h, new, fields)

LEMMA PersonsTell ==
    ASSUME NEW u
    PROVE  /\ Key.type \in PersonKeys /\ Key.name \in PersonKeys
           /\ ToldBy(Typed, PersonKeys, {Key.type}) /\ ToldBy(TypedSo(u), PersonKeys, {Key.type, Key.name})
<1>1. Key.type \in PersonKeys /\ Key.name \in PersonKeys
  BY DEF PersonKeys
<1>2. ToldBy(Typed, PersonKeys, {Key.type})
  BY DEF ToldBy, Typed
<1>3. ToldBy(TypedSo(u), PersonKeys, {Key.type, Key.name})
  BY DEF ToldBy, Typed, NamedSo, TypedSo
<1> QED BY <1>1, <1>2, <1>3

(* What a change of one list of persons makes of the persons of all.          *)
PersonsAfter(d, e, h, new, fields, k, u) ==
    /\ EarlierPerson(d, k, u) => EarlierPerson(e, k, u) /\ PersonOf(e, k, u)
    /\ PersonOf(d, k, u) /\ (k # h \/ new \/ (Lacks(fields, Key.type) /\ Lacks(fields, Key.name)))
         => PersonOf(e, k, u)
    /\ PersonOf(d, k, u) /\ k = h /\ new => EarlierPerson(e, k, u)
    /\ k # h /\ LastTyped(d, k) => LastTyped(e, k)
    /\ ~new /\ Lacks(fields, Key.type) /\ LastTyped(d, k) => LastTyped(e, k)

LEMMA PersonsChanged ==
    ASSUME NEW d, NEW e, ListsAreFormed(d), NEW h \in Int, NEW new \in BOOLEAN, NEW fields \in Seq(Field),
           PersonsChange(d, e, h, new, fields), NEW k \in 0..Len(d.items), NEW u
    PROVE  PersonsAfter(d, e, h, new, fields, k, u)
<1> DEFINE f == "persons"
<1>1. ListOf(d, k, f) \in Form
  BY DEF ListsAreFormed, FormedList
<1> HIDE DEF f
<1>2. ListOf(e, k, f) = IF k = h THEN Made(ListOf(d, k, f), new, fields) ELSE ListOf(d, k, f)
  BY DEF PersonsChange, Changes, f
<1>3. PICK old \in Form : old = ListOf(d, k, f)
  BY <1>1
<1>4. PICK t : t = ListOf(e, k, f)
  OBVIOUS
<1>5. PICK keys : keys = PersonKeys
  OBVIOUS
<1>6. PICK S : S = TypedSo(u)
  OBVIOUS
<1>7. PICK T : T = Typed
  OBVIOUS
<1>8. /\ PersonOf(d, k, u) <=> Held(old, keys, S)
      /\ EarlierPerson(d, k, u) <=> HeldBefore(old, keys, S)
      /\ LastTyped(d, k) <=> LastHeld(old, keys, T)
      /\ PersonOf(e, k, u) <=> Held(t, keys, S)
      /\ EarlierPerson(e, k, u) <=> HeldBefore(t, keys, S)
      /\ LastTyped(e, k) <=> LastHeld(t, keys, T)
  BY <1>3, <1>4, <1>5, <1>6, <1>7 DEF PersonOf, EarlierPerson, LastTyped, f
<1>9. HeldBefore(t, keys, S) => Held(t, keys, S)
  BY DEF HeldBefore, Held
<1>10. ASSUME k = h PROVE PersonsAfter(d, e, h, new, fields, k, u)
  <2>1. t = Made(old, new, fields)
    BY <1>2, <1>3, <1>4, <1>10
  <2>2. HeldBefore(old, keys, S) => HeldBefore(t, keys, S) /\ Held(t, keys, S)
    BY <2>1, HeldStays
  <2>3. new /\ Held(old, keys, S) => HeldBefore(t, keys, S) /\ Held(t, keys, S)
    BY <2>1, HeldStays
  <2>4. ~new /\ Lacks(fields, Key.type) /\ Lacks(fields, Key.name) /\ Held(old, keys, S) => Held(t, keys, S)
    <3> DEFINE told == {Key.type, Key.name}
    <3>1. told \in SUBSET keys /\ ToldBy(S, keys, told)
      BY <1>5, <1>6, PersonsTell
    <3>2. Lacks(fields, Key.type) /\ Lacks(fields, Key.name) => \A key \in told : Lacks(fields, key)
      OBVIOUS
    <3> HIDE DEF told
    <3> QED BY <2>1, <3>1, <3>2, HeldStays
  <2>5. ~new /\ Lacks(fields, Key.type) /\ LastHeld(old, keys, T) => LastHeld(t, keys, T)
    <3> DEFINE told == {Key.type}
    <3>1. told \in SUBSET keys /\ ToldBy(T, keys, told)
      BY <1>5, <1>7, PersonsTell
    <3>2. Lacks(fields, Key.type) => \A key \in told : Lacks(fields, key)
      OBVIOUS
    <3> HIDE DEF told
    <3> QED BY <2>1, <3>1, <3>2, HeldStays
  <2> QED BY <1>8, <1>10, <2>2, <2>3, <2>4, <2>5 DEF PersonsAfter
<1>11. ASSUME k # h PROVE PersonsAfter(d, e, h, new, fields, k, u)
  <2>1. t = old
    BY <1>2, <1>3, <1>4, <1>11
  <2> QED BY <1>8, <1>9, <1>11, <2>1 DEF PersonsAfter
<1> QED BY <1>10, <1>11

(* A person that gets a type.                                                 *)
LEMMA PersonTyped ==
    ASSUME NEW d, NEW e, ListsAreFormed(d), NEW h \in 0..Len(d.items), NEW new \in BOOLEAN,
           NEW fields \in Seq(Field), PersonsChange(d, e, h, new, fields), NEW v, IsWord(v),
           Has(fields, Key.type, v)
    PROVE  LastTyped(e, h)
<1> DEFINE f == "persons"
<1>1. ListOf(d, h, f) \in Form
  BY DEF ListsAreFormed, FormedList
<1> HIDE DEF f
<1>2. PICK old \in Form : old = ListOf(d, h, f)
  BY <1>1
<1>3. PICK t : t = Made(old, new, fields)
  OBVIOUS
<1>4. ListOf(e, h, f) = t
  BY <1>2, <1>3 DEF PersonsChange, Changes, f
<1>5. WithoutDelimiters(v) = v /\ v # <<>>
  BY StrippedOne DEF IsWord
<1>6. PICK keys : keys = PersonKeys
  OBVIOUS
<1>7. Key.type \in keys
  BY <1>6, PersonsTell
<1>8. PICK r : r = Entries(t, keys)[Len(Entries(t, keys))]
  OBVIOUS
<1>9. r[Key.type] = v /\ r \in [keys -> Seq(Int)]
  BY <1>3, <1>5, <1>7, <1>8, LastGiven
<1> QED BY <1>4, <1>5, <1>6, <1>8, <1>9 DEF LastTyped, LastHeld, Typed, f

(* A person with a type that gets a name.                                     *)
LEMMA PersonNamed ==
    ASSUME NEW d, NEW e, ListsAreFormed(d), NEW h \in 0..Len(d.items), NEW new \in BOOLEAN,
           NEW fields \in Seq(Field), PersonsChange(d, e, h, new, fields), NEW v \in Seq(Int),
           Has(fields, Key.name, v), NEW u, u # <<>>, Visible(v) = u, LastTyped(e, h)
    PROVE  PersonOf(e, h, u)
<1> DEFINE f == "persons"
<1>1. ListOf(d, h, f) \in Form
  BY DEF ListsAreFormed, FormedList
<1> HIDE DEF f
<1>2. PICK old \in Form : old = ListOf(d, h, f)
  BY <1>1
<1>3. PICK t : t = Made(old, new, fields)
  OBVIOUS
<1>4. ListOf(e, h, f) = t
  BY <1>2, <1>3 DEF PersonsChange, Changes, f
<1>5. Visible(WithoutDelimiters(v)) = u /\ WithoutDelimiters(v) # <<>>
  <2>1. Visible(WithoutDelimiters(v)) = u
    BY VisibleStripped
  <2>2. Visible(<<>>) = <<>>
    BY OnlyEmpty DEF Visible
  <2> QED BY <2>1, <2>2
<1>6. PICK keys : keys = PersonKeys
  OBVIOUS
<1>7. Key.name \in keys
  BY <1>6, PersonsTell
<1>8. PICK r : r = Entries(t, keys)[Len(Entries(t, keys))]
  OBVIOUS
<1>9. r[Key.name] = WithoutDelimiters(v) /\ r \in [keys -> Seq(Int)]
  BY <1>3, <1>5, <1>7, <1>8, LastGiven
<1>10. r \in Typed
  BY <1>4, <1>6, <1>8 DEF LastTyped, LastHeld, f
<1>11. r \in TypedSo(u)
  BY <1>5, <1>6, <1>9, <1>10 DEF TypedSo, NamedSo
<1>12. LastHeld(t, keys, TypedSo(u))
  BY <1>8, <1>11 DEF LastHeld
<1>13. Held(t, keys, TypedSo(u)) <=> HeldBefore(t, keys, TypedSo(u)) \/ LastHeld(t, keys, TypedSo(u))
  BY <1>3, HeldStays
<1> QED BY <1>4, <1>6, <1>12, <1>13 DEF PersonOf, f

LEMMA OneIsVisible ==
    ASSUME NEW n \in Nat \ {0}
    PROVE  Visible(<<n>>) = <<n>> /\ <<n>> \in Seq(Int) /\ <<n>> # <<>>
<1> DEFINE A == Nat \ {0}
           empty == <<>>
           s == Append(empty, n)
<1>1. s = <<n>> /\ empty \in Seq(Int) /\ n \in A
  OBVIOUS
<1>2. Only(empty, A) = empty
  BY OnlyEmpty
<1> HIDE DEF A, empty, s
<1>3. Only(Append(empty, n), A) = Append(Only(empty, A), n)
  BY <1>1, OnlyAppend DEF A
<1>4. Only(s, A) = s
  BY <1>2, <1>3 DEF s
<1> QED BY <1>1, <1>4 DEF Visible, A

(* Persons of a list that is left as it is.                                   *)
LEMMA PersonsUntouched ==
    ASSUME NEW d, NEW e, NEW k, ListOf(e, k, "persons") = ListOf(d, k, "persons")
    PROVE  /\ \A u : (PersonOf(d, k, u) <=> PersonOf(e, k, u)) /\ (EarlierPerson(d, k, u) <=> EarlierPerson(e, k, u))
           /\ LastTyped(d, k) <=> LastTyped(e, k)
BY DEF PersonOf, EarlierPerson, LastTyped

(* Persons of JSON feeds.                                                     *)

IsCurrent(n) ==
    /\ Home(n) = 0 /\ document[Len(document)].place = "feed_authors" => data.author_index = document[n].index
    /\ Home(n) > 0 /\ Home(n) = Len(data.items) /\ InItems(document[Len(document)]) =>
         data.author_index = document[n].index /\ data.item_index = document[n].item

(* The last person of the item that rows are of has a type, and so has that of *)
(* the feed before the items.                                                 *)
LastsAreTyped ==
    /\ document # <<>> /\ InItems(document[Len(document)]) /\ data.author_index # -1
         => LastTyped(data, Len(data.items))
    /\ (\A n \in Numbers : ~InItems(document[n])) /\ data.author_index # -1 => LastTyped(data, 0)

PersonsOfRows ==
    \A n \in Numbers : IsNameRow(n) =>
      /\ PersonOf(data, Home(n), <<n>>)
      /\ EarlierPerson(data, Home(n), <<n>>) \/ IsCurrent(n)

(* Rows of one place come one after another.                                  *)
LEMMA RowsFollow ==
    ASSUME PathInvariant, PathInvariant', NEW row \in grammar.rows, Row(row), NEW m \in Numbers
    PROVE  /\ document[m] \in Rows /\ document # <<>> /\ document' # <<>>
           /\ document'[Len(document')] = row
           /\ InItems(document[m]) /\ InItems(row) => InItems(document[Len(document)])
           /\ row.place = "feed_authors" /\ document[m].place = "feed_authors" =>
                document[Len(document)].place = "feed_authors" /\ document[m].item = row.item
<1>1. PICK n : n = Len(document) + 1
  OBVIOUS
<1>2. /\ ~IsXml /\ row \in Rows /\ n \in Nat \ {0} /\ Numbers = 1..n - 1 /\ Len(document') = n
      /\ document'[n] = row
  BY <1>1, RowsWithin
<1>3. document \in Seq(grammar.rows) /\ grammar.rows \subseteq Rows
  BY <1>2, GrammarIs DEF PathInvariant, DocumentIsTree
<1>4. Len(document) = n - 1 /\ m \in 1..Len(document) /\ Len(document) \in m..Len(document)
  BY <1>1, <1>2, <1>3
<1>5. document[m] \in grammar.rows /\ m \in DOMAIN document
  BY <1>3, <1>4
<1>6. document # <<>> /\ document' # <<>>
  <2>1. Len(document) # 0 /\ Len(document') # 0
    BY <1>2, <1>4
  <2> QED BY <2>1
<1>7. row.place = "feed_authors" /\ document[m].place = "feed_authors" => document[m].item = row.item
  <2>1. \A r \in grammar.rows : r.place = "feed_authors" => r.item = -1
    BY <1>2, ParserAssumption DEF PathInvariant, DocumentIsTree, grammar
  <2> QED BY <1>5, <2>1
<1>8. CanFollow(row)
  BY DEF Row
<1>9. InItems(document[m]) /\ InItems(row) => InItems(document[Len(document)])
  BY <1>4, <1>5, <1>8 DEF CanFollow
<1>10. row.place = "feed_authors" /\ document[m].place = "feed_authors" =>
         document[Len(document)].place = "feed_authors"
  BY <1>4, <1>5, <1>7, <1>8 DEF CanFollow
<1> QED BY <1>2, <1>3, <1>5, <1>6, <1>7, <1>9, <1>10

LEMMA RowsAreCounted ==
    ASSUME PathInvariant, HomeInvariant, FitsPath, ~IsXml, NEW m \in Numbers
    PROVE  /\ document[m] \in grammar.rows
           /\ InItems(document[m]) => Home(m) # 0
           /\ ~InItems(document[m]) => Home(m) = 0
           /\ document[m].place \notin {"feed", "item"} => document[m].index >= 0
<1>1. document \in Seq(grammar.rows)
  BY DEF PathInvariant, DocumentIsTree
<1>2. document[m] \in grammar.rows /\ m \in Nat /\ m \in 1..m
  BY <1>1 DEF Numbers
<1>3. InItems(document[m]) => Home(m) # 0
  <2> SUFFICES ASSUME InItems(document[m]) PROVE Home(m) # 0
    OBVIOUS
  <2>1. Home(m) = Cardinality(MetItems(m))
    BY DEF Home, MetItems
  <2>2. document[m].item \in MetItems(m)
    BY <1>2 DEF MetItems
  <2>3. IsFiniteSet(MetItems(m))
    <3>1. IsFiniteSet(MetItems(Len(document)))
      BY DEF HomeInvariant, IsFeed, IndexesAreCounted
    <3>2. 1..m \subseteq 1..Len(document)
      BY <1>1 DEF Numbers
    <3>3. MetItems(m) \subseteq MetItems(Len(document))
      BY <3>2 DEF MetItems
    <3> QED BY <3>1, <3>3, FS_Subset
  <2> QED BY <2>1, <2>2, <2>3, FS_EmptySet
<1>4. ~InItems(document[m]) => Home(m) = 0
  BY DEF Home
<1>5. document[m].place \notin {"feed", "item"} => document[m].index >= 0
  BY <1>2, ParserAssumption DEF PathInvariant, DocumentIsTree, grammar
<1> QED BY <1>2, <1>3, <1>4, <1>5

(* What a row does to persons and indexes.                                    *)
LEMMA RowPersons ==
    ASSUME PathInvariant, PathInvariant', HomeInvariant, HomeInvariant', FitsPath, ListsAreFormed(data),
           NEW row \in grammar.rows, Row(row), NEW n, n = Len(document) + 1, NEW b, b = RowBase(data, row)
    PROVE  /\ data'.item_index = b.item_index
           /\ row.place \notin {"authors", "feed_authors"} =>
                data'.author_index = b.author_index /\ Untouched(b, data', "persons")
           /\ row.place \in {"authors", "feed_authors"} =>
                /\ data'.author_index = row.index /\ row.index >= 0
                /\ PersonRead(b, data', RowWhere(row), row, <<n>>)
           /\ InItems(row) => Len(b.items) # 0
           /\ row.place = "authors" => RowWhere(row) = "item" /\ InItems(row)
           /\ row.place = "feed_authors" => RowWhere(row) = "feed" /\ ~InItems(row)
<1> DEFINE value == <<n>>
<1>1. /\ row.place \in {"authors", "feed_authors"} => PersonRead(b, data', RowWhere(row), row, value)
      /\ row.place = "attachments" => AttachmentRead(b, data', row, value)
      /\ row.place \in {"feed", "item"} => ValueRead(b, data', row, value)
      /\ Aims(b, RowWhere(row), Int, Int, Int)
  BY RowStep
<1> HIDE DEF value
<1>2. row \in Rows /\ ~IsXml
  BY RowsWithin
<1>3. row.place \in {"authors", "feed_authors", "attachments", "feed", "item"}
  BY <1>2 DEF Rows, RowPlaces
<1>4. row.place \in {"authors", "feed_authors"} => row.index >= 0
  BY <1>2, ParserAssumption DEF PathInvariant, DocumentIsTree, grammar
<1>5. InItems(row) => Len(b.items) # 0
  <2> SUFFICES ASSUME InItems(row) PROVE Len(b.items) # 0
    OBVIOUS
  <2>1. b.items # <<>> /\ b \in Data
    BY <1>1 DEF Aims, RowWhere, Holds
  <2> DEFINE I == ItemRow(Int)
  <2>2. b.items \in Seq(I)
    BY <2>1 DEF Data
  <2> HIDE DEF I
  <2> QED BY <2>1, <2>2
<1>6. row.place = "authors" => RowWhere(row) = "item" /\ InItems(row)
  BY DEF RowWhere, InItems
<1>7. row.place = "feed_authors" => RowWhere(row) = "feed" /\ ~InItems(row)
  BY DEF RowWhere, InItems
<1>8. data'.item_index = b.item_index
  BY <1>1, <1>3 DEF PersonRead, AttachmentRead, ValueRead, SameIndexes
<1>9. row.place \notin {"authors", "feed_authors"} =>
        data'.author_index = b.author_index /\ Untouched(b, data', "persons")
  BY <1>1, <1>3 DEF AttachmentRead, ValueRead, SameIndexes
<1>10. row.place \in {"authors", "feed_authors"} => data'.author_index = row.index
  BY <1>1 DEF PersonRead
<1> QED BY <1>1, <1>4, <1>5, <1>6, <1>7, <1>8, <1>9, <1>10 DEF value

(* The row of a person, as a change of one list.                              *)
PersonChanged(b, e, h, new, fields, row, value) ==
    /\ PersonsChange(b, e, h, new, fields)
    /\ new => \E v : IsWord(v) /\ Has(fields, Key.type, v)
    /\ ~new => Lacks(fields, Key.type)
    /\ row.key = "name" => Has(fields, Key.name, value)
    /\ row.key # "name" => Lacks(fields, Key.name)

LEMMA PersonReadChanges ==
    ASSUME NEW b, NEW e, NEW where \in {"item", "feed"}, NEW row, NEW value, PersonRead(b, e, where, row, value),
           NEW h, h = IF where = "item" THEN Len(b.items) ELSE 0
    PROVE  \E new \in BOOLEAN, fields \in Seq(Field) :
             (new <=> (row.index # b.author_index)) /\ PersonChanged(b, e, h, new, fields, row, value)
<1>1. PICK new \in BOOLEAN : new <=> (row.index # b.author_index)
  OBVIOUS
<1>2. new = (row.index # b.author_index)
  BY <1>1
<1>3. h = HomeOf(b, where)
  BY DEF HomeOf
<1>4. PICK fields \in Seq(Field) :
         /\ Changes(b, e, "persons", h, new, fields)
         /\ row.index # b.author_index => \E v : IsWord(v) /\ Has(fields, Key.type, v)
         /\ row.index = b.author_index => Lacks(fields, Key.type)
         /\ IF row.key = "name" THEN Has(fields, Key.name, value) ELSE Lacks(fields, Key.name)
  BY <1>2, <1>3 DEF PersonRead
<1>5. PersonChanged(b, e, h, new, fields, row, value)
  BY <1>1, <1>4 DEF PersonChanged, PersonsChange
<1> QED BY <1>1, <1>5

(* When the rows of an item go on, its last person stays typed.               *)
LEMMA LastsRow ==
    ASSUME PathInvariant, PathInvariant', HomeInvariant, HomeInvariant', FitsPath, ListsAreFormed(data),
           LastsAreTyped, NEW row \in grammar.rows, Row(row)
    PROVE  LastsAreTyped'
<1>01. PICK n : n = Len(document) + 1
  OBVIOUS
<1>02. PICK b : b = RowBase(data, row)
  OBVIOUS
<1>03. PICK L : L = Len(data.items)
  OBVIOUS
<1>04. PICK M : M = Len(b.items)
  OBVIOUS
<1> DEFINE value == <<n>>
<1>05. /\ ListsAreFormed(b) /\ Len(data'.items) = M /\ L \in Nat /\ M \in Nat
       /\ \/ /\ Begins(data, row) /\ OneMore(data, b) /\ M = L + 1
             /\ b.author_index = -1
          \/ ~Begins(data, row) /\ b = data
       /\ InItems(row) => b.item_index = row.item /\ Home(n)' = M
       /\ ~InItems(row) => b = data /\ Home(n)' = 0
       /\ row.place \in {"authors", "feed_authors"} => PersonRead(b, data', RowWhere(row), row, value)
       /\ row.place = "attachments" => AttachmentRead(b, data', row, value)
       /\ row.place \in {"feed", "item"} => ValueRead(b, data', row, value)
  BY <1>01, <1>02, <1>03, <1>04, RowFrom
<1>1. /\ ListsAreFormed(b) /\ Len(data'.items) = M /\ L \in Nat /\ M \in Nat
      /\ \/ Begins(data, row) /\ OneMore(data, b) /\ M = L + 1 /\ b.author_index = -1
         \/ ~Begins(data, row) /\ b = data
      /\ InItems(row) => b.item_index = row.item
      /\ ~InItems(row) => b = data
  BY <1>05
<1>2. /\ ~IsXml /\ n \in Nat \ {0} /\ Numbers = 1..n - 1 /\ Numbers' = 1..n /\ Len(document') = n
      /\ document'[n] = row /\ row \in Rows /\ (InItems(row) => row.item >= 0)
      /\ \A m \in Numbers : document'[m] = document[m]
  BY <1>01, RowsWithin DEF InItems
<1>3. /\ row.place \notin {"authors", "feed_authors"} =>
           data'.author_index = b.author_index /\ Untouched(b, data', "persons")
      /\ row.place \in {"authors", "feed_authors"} =>
           /\ data'.author_index = row.index /\ row.index >= 0
           /\ PersonRead(b, data', RowWhere(row), row, value)
      /\ row.place = "authors" => RowWhere(row) = "item" /\ InItems(row)
      /\ row.place = "feed_authors" => RowWhere(row) = "feed" /\ ~InItems(row)
  BY <1>01, <1>02, RowPersons
<1> HIDE DEF value
<1>4. PICK h : h = IF InItems(row) THEN M ELSE 0
  OBVIOUS
<1>5. h \in 0..Len(b.items)
  BY <1>1, <1>4, <1>04
(* Where the row is not of a new person, the last one of its list was typed.   *)
<1>6. ASSUME b.author_index # -1, InItems(row) \/ \A m \in Numbers : ~InItems(document[m])
      PROVE  LastTyped(b, h)
  <2>1. b = data /\ ~Begins(data, row)
    BY <1>1, <1>6
  <2>2. CASE InItems(row)
    <3>1. data.item_index = row.item /\ row.item # -1
      BY <1>1, <1>2, <2>1, <2>2
    <3>2. data.item_index \in MetItems(Len(document))
      BY <1>2, <3>1 DEF HomeInvariant, IsFeed, IndexesAreCounted
    <3>3. PICK m \in 1..Len(document) : InItems(document[m])
      BY <3>2 DEF MetItems
    <3>4. m \in Numbers
      BY <1>01, <1>2, <3>3
    <3>5. document # <<>> /\ InItems(document[Len(document)])
      BY <2>2, <3>3, <3>4, RowsFollow
    <3> QED BY <1>03, <1>04, <1>1, <1>4, <1>6, <2>1, <2>2, <3>5 DEF LastsAreTyped
  <2>3. CASE ~InItems(row)
    BY <1>4, <1>6, <2>1, <2>3 DEF LastsAreTyped
  <2> QED BY <2>2, <2>3
<1>7. ASSUME data'.author_index # -1, InItems(row) \/ \A m \in Numbers : ~InItems(document[m])
      PROVE  LastTyped(data', h)
  <2>1. CASE row.place \in {"authors", "feed_authors"}
    <3>1. RowWhere(row) \in {"item", "feed"} /\ h = IF RowWhere(row) = "item" THEN Len(b.items) ELSE 0
      BY <1>04, <1>4 DEF RowWhere
    <3>2. PersonRead(b, data', RowWhere(row), row, value)
      BY <1>3, <2>1
    <3>3. PICK new \in BOOLEAN, fields \in Seq(Field) :
             /\ new <=> (row.index # b.author_index)
             /\ PersonChanged(b, data', h, new, fields, row, value)
      <4>1. PICK where \in {"item", "feed"} : where = RowWhere(row)
        BY <3>1
      <4> QED BY <3>1, <3>2, <4>1, PersonReadChanges
    <3>4. PersonsChange(b, data', h, new, fields) /\ h \in Int
      BY <1>1, <1>4, <3>3 DEF PersonChanged
    <3>5. CASE new
      <4>1. PICK v : IsWord(v) /\ Has(fields, Key.type, v)
        BY <3>3, <3>5 DEF PersonChanged
      <4> QED BY <1>1, <1>5, <3>4, <4>1, PersonTyped
    <3>6. CASE ~new
      <4>1. b.author_index # -1 /\ Lacks(fields, Key.type)
        BY <1>3, <2>1, <3>3, <3>6 DEF PersonChanged
      <4>2. LastTyped(b, h)
        BY <1>6, <1>7, <4>1
      <4>3. PICK u : u = <<>>
        OBVIOUS
      <4>4. PersonsAfter(b, data', h, new, fields, h, u)
        BY <1>1, <1>5, <3>4, PersonsChanged
      <4> QED BY <3>6, <4>1, <4>2, <4>4 DEF PersonsAfter
    <3> QED BY <3>5, <3>6
  <2>2. CASE row.place \notin {"authors", "feed_authors"}
    <3>1. LastTyped(b, h)
      BY <1>3, <1>6, <1>7, <2>2
    <3>2. ListOf(data', h, "persons") = ListOf(b, h, "persons")
      BY <1>3, <1>5, <2>2 DEF Untouched
    <3> QED BY <3>1, <3>2, PersonsUntouched
  <2> QED BY <2>1, <2>2
<1>8. document'[Len(document')] = row
  BY <1>2
<1>9. (\A m \in Numbers' : ~InItems(document'[m])) => ~InItems(row) /\ \A m \in Numbers : ~InItems(document[m])
  BY <1>2
<1> QED BY <1>1, <1>4, <1>7, <1>8, <1>9 DEF LastsAreTyped

(* The person of a row stays what it is when an item begins, which it is not of. *)
LEMMA PersonsBegun ==
    ASSUME NEW d, NEW b, OneMore(d, b), NEW k \in 0..Len(d.items)
    PROVE  \A u : (PersonOf(d, k, u) <=> PersonOf(b, k, u)) /\ (EarlierPerson(d, k, u) <=> EarlierPerson(b, k, u))
<1> DEFINE f == "persons"
<1>1. f \in Lists
  BY ListsAre DEF ThreeLists
<1> HIDE DEF f
<1>2. ListOf(b, k, f) = ListOf(d, k, f)
  BY <1>1 DEF OneMore
<1> QED BY <1>2, PersonsUntouched DEF f

(* The name that the person of a row, if it has that name, gets by another row. *)
LEMMA OldPersonsRow ==
    ASSUME PathInvariant, PathInvariant', HomeInvariant, HomeInvariant', FitsPath, ListsAreFormed(data),
           PersonsOfRows, NEW row \in grammar.rows, Row(row), NEW m \in Numbers, IsNameRow(m)'
    PROVE  /\ PersonOf(data', Home(m)', <<m>>)
           /\ EarlierPerson(data', Home(m)', <<m>>) \/ IsCurrent(m)'
<1>01. PICK n : n = Len(document) + 1
  OBVIOUS
<1>02. PICK b : b = RowBase(data, row)
  OBVIOUS
<1>03. PICK L : L = Len(data.items)
  OBVIOUS
<1>04. PICK M : M = Len(b.items)
  OBVIOUS
<1> DEFINE value == <<n>>
<1>1. /\ ListsAreFormed(b) /\ Len(data'.items) = M /\ L \in Nat /\ M \in Nat
      /\ \/ /\ Begins(data, row) /\ OneMore(data, b) /\ M = L + 1
            /\ b.author_index = -1
         \/ ~Begins(data, row) /\ b = data
      /\ InItems(row) => b.item_index = row.item /\ Home(n)' = M
      /\ ~InItems(row) => b = data /\ Home(n)' = 0
      /\ row.place \in {"authors", "feed_authors"} => PersonRead(b, data', RowWhere(row), row, value)
      /\ row.place = "attachments" => AttachmentRead(b, data', row, value)
      /\ row.place \in {"feed", "item"} => ValueRead(b, data', row, value)
  BY <1>01, <1>02, <1>03, <1>04, RowFrom
<1>2. /\ data'.item_index = b.item_index
      /\ row.place \notin {"authors", "feed_authors"} =>
           data'.author_index = b.author_index /\ Untouched(b, data', "persons")
      /\ row.place \in {"authors", "feed_authors"} =>
           /\ data'.author_index = row.index /\ row.index >= 0
           /\ PersonRead(b, data', RowWhere(row), row, value)
      /\ InItems(row) => Len(b.items) # 0
      /\ row.place = "authors" => RowWhere(row) = "item" /\ InItems(row)
      /\ row.place = "feed_authors" => RowWhere(row) = "feed" /\ ~InItems(row)
  BY <1>01, <1>02, RowPersons
<1> HIDE DEF value
<1>3. /\ ~IsXml /\ n \in Nat \ {0} /\ Numbers = 1..n - 1 /\ Numbers' = 1..n /\ Len(document') = n
      /\ document'[n] = row /\ row \in Rows
      /\ \A j \in Numbers : document'[j] = document[j] /\ Home(j)' = Home(j)
  BY <1>01, RowsWithin
<1>4. IsNameRow(m) /\ document[m] # row /\ document'[m] = document[m]
  <2>1. IsLastSuch(m) /\ document[m] # row /\ document'[m] = document[m]
    BY RowsNotRepeated DEF IsNameRow
  <2>2. \A j \in 1..m : document'[j] = document[j]
    BY <1>3
  <2> QED BY <2>1, <2>2 DEF IsNameRow
<1>5. /\ document[m] \in Rows /\ document'[Len(document')] = row
      /\ InItems(document[m]) /\ InItems(row) => InItems(document[Len(document)])
      /\ row.place = "feed_authors" /\ document[m].place = "feed_authors" =>
           document[Len(document)].place = "feed_authors" /\ document[m].item = row.item
  BY RowsFollow
<1>6. PICK k \in 0..L : k = Home(m)
  BY <1>03, <1>3, HomeIsCounted DEF IsFeed
<1>7. PICK u : u = <<m>>
  OBVIOUS
<1>8. PersonOf(data, k, u) /\ (EarlierPerson(data, k, u) \/ IsCurrent(m))
  BY <1>4, <1>6, <1>7 DEF PersonsOfRows
<1>9. PersonOf(b, k, u) /\ (EarlierPerson(data, k, u) <=> EarlierPerson(b, k, u))
  BY <1>03, <1>1, <1>6, <1>8, PersonsBegun
<1>10. k \in 0..Len(b.items) /\ Home(m)' = k /\ k \in 0..L
  <2>1. M = L \/ M = L + 1
    BY <1>03, <1>04, <1>1
  <2>2. Home(m)' = k
    BY <1>3, <1>6
  <2> QED BY <1>04, <1>1, <1>6, <2>1, <2>2
<1>11. document[m].place \in {"authors", "feed_authors"} /\ document[m].key = "name"
  BY <1>4 DEF IsNameRow
<1>12. (InItems(document[m]) <=> k # 0) /\ (document[m].place = "feed_authors" <=> k = 0)
  <2>1. (InItems(document[m]) => k # 0) /\ (~InItems(document[m]) => k = 0)
    BY <1>3, <1>6, RowsAreCounted
  <2> QED BY <1>11, <2>1 DEF InItems
(* What the row is of, if the person is the one of the row.                    *)
<1>13. ASSUME IsCurrent(m), InItems(row), k = M
       PROVE  b = data /\ data.author_index = document[m].index /\ row.item = document[m].item
  <2>1. b = data /\ k # 0 /\ M = L
    BY <1>03, <1>04, <1>1, <1>2, <1>13, <1>10
  <2>2. InItems(document[Len(document)])
    BY <1>5, <1>12, <1>13, <2>1
  <2>3. Home(m) > 0 /\ Home(m) = Len(data.items)
    BY <1>03, <1>6, <1>13, <2>1
  <2> QED BY <1>1, <1>13, <2>1, <2>2, <2>3 DEF IsCurrent
<1>14. ASSUME IsCurrent(m), row.place = "feed_authors", k = 0
       PROVE  b = data /\ data.author_index = document[m].index /\ row.item = document[m].item
  <2>1. b = data /\ document[m].place = "feed_authors"
    BY <1>1, <1>2, <1>12, <1>14
  <2>2. Home(m) = 0
    BY <1>6, <1>14
  <2> QED BY <1>5, <1>14, <2>1, <2>2 DEF IsCurrent
<1>15. ASSUME k # 0 /\ InItems(row) /\ k = M =>
                data'.author_index = document[m].index /\ row.item = document[m].item,
              k = 0 /\ row.place = "feed_authors" => data'.author_index = document[m].index
       PROVE  IsCurrent(m)'
  <2>1. document'[Len(document')] = row /\ Home(m)' = k /\ Len(data'.items) = M /\ document'[m] = document[m]
    BY <1>1, <1>4, <1>5, <1>10
  <2>2. InItems(row) => data'.item_index = row.item
    BY <1>1, <1>2
  <2> QED BY <1>10, <1>15, <2>1, <2>2 DEF IsCurrent, InItems
<1>16. PersonOf(data', k, u) /\ (EarlierPerson(data', k, u) \/ IsCurrent(m)')
  <2>1. CASE row.place \notin {"authors", "feed_authors"}
    <3>1. ListOf(data', k, "persons") = ListOf(b, k, "persons")
      BY <1>2, <1>10, <2>1 DEF Untouched
    <3>2. PersonOf(data', k, u) /\ (EarlierPerson(b, k, u) => EarlierPerson(data', k, u))
      BY <1>9, <3>1, PersonsUntouched
    <3>3. IsCurrent(m) => IsCurrent(m)'
      BY <1>2, <1>13, <1>15, <2>1
    <3> QED BY <1>8, <1>9, <3>2, <3>3
  <2>2. CASE row.place \in {"authors", "feed_authors"}
    <3>1. PICK h : h = IF InItems(row) THEN M ELSE 0
      OBVIOUS
    <3>2. PICK new \in BOOLEAN, fields \in Seq(Field) :
             /\ new <=> (row.index # b.author_index)
             /\ PersonChanged(b, data', h, new, fields, row, value)
      <4>1. PICK where \in {"item", "feed"} : where = RowWhere(row)
        BY DEF RowWhere
      <4>2. h = IF where = "item" THEN Len(b.items) ELSE 0
        BY <1>04, <3>1, <4>1 DEF RowWhere
      <4>3. PersonRead(b, data', where, row, value)
        BY <1>2, <2>2, <4>1
      <4> QED BY <4>2, <4>3, PersonReadChanges
    <3>3. PersonsChange(b, data', h, new, fields) /\ h \in Int
      BY <1>1, <3>1, <3>2 DEF PersonChanged
    <3>4. PersonsAfter(b, data', h, new, fields, k, u)
      BY <1>1, <1>10, <3>3, PersonsChanged
    <3>5. CASE EarlierPerson(b, k, u)
      BY <1>9, <3>4, <3>5 DEF PersonsAfter
    <3>6. CASE k # h /\ IsCurrent(m)
      <4>1. PersonOf(data', k, u)
        BY <1>9, <3>4, <3>6 DEF PersonsAfter
      <4>2. InItems(row) => k # M
        BY <3>1, <3>6
      <4>3. k = 0 => row.place # "feed_authors"
        BY <1>2, <3>1, <3>6
      <4> QED BY <1>15, <4>1, <4>2, <4>3
    <3>7. CASE k = h /\ new
      BY <1>9, <3>4, <3>7 DEF PersonsAfter
    <3>8. CASE k = h /\ ~new /\ IsCurrent(m)
      <4>1. b = data /\ data.author_index = document[m].index /\ row.item = document[m].item
        <5>1. CASE InItems(row)
          BY <1>13, <3>1, <3>8, <5>1
        <5>2. CASE ~InItems(row)
          BY <1>14, <2>2, <3>1, <3>8, <5>2 DEF InItems
        <5> QED BY <5>1, <5>2
      <4>2. row.index = document[m].index
        BY <3>2, <3>8, <4>1
      <4>3. row.place = document[m].place
        <5>1. InItems(row) <=> k # 0
          BY <1>04, <1>2, <3>1, <3>8
        <5> QED BY <1>11, <1>12, <2>2, <5>1 DEF InItems
      <4>4. row.key # "name"
        BY <1>3, <1>4, <1>5, <1>11, <4>1, <4>2, <4>3 DEF Rows
      <4>5. Lacks(fields, Key.type) /\ Lacks(fields, Key.name)
        BY <3>2, <3>8, <4>4 DEF PersonChanged
      <4>6. PersonOf(data', k, u)
        BY <1>9, <3>4, <4>5 DEF PersonsAfter
      <4>7. IsCurrent(m)'
        BY <1>2, <1>15, <2>2, <4>1, <4>2
      <4> QED BY <4>6, <4>7
    <3> QED BY <1>8, <1>9, <3>5, <3>6, <3>7, <3>8
  <2> QED BY <2>1, <2>2
<1> QED BY <1>7, <1>10, <1>16

LEMMA NewPersonsRow ==
    ASSUME PathInvariant, PathInvariant', HomeInvariant, HomeInvariant', FitsPath, ListsAreFormed(data),
           LastsAreTyped', NEW row \in grammar.rows, Row(row), NEW n, n = Len(document) + 1, IsNameRow(n)'
    PROVE  PersonOf(data', Home(n)', <<n>>) /\ IsCurrent(n)'
<1>02. PICK b : b = RowBase(data, row)
  OBVIOUS
<1>03. PICK L : L = Len(data.items)
  OBVIOUS
<1>04. PICK M : M = Len(b.items)
  OBVIOUS
<1> DEFINE value == <<n>>
<1>1. /\ ListsAreFormed(b) /\ Len(data'.items) = M /\ L \in Nat /\ M \in Nat
      /\ \/ /\ Begins(data, row) /\ OneMore(data, b) /\ M = L + 1
            /\ b.author_index = -1
         \/ ~Begins(data, row) /\ b = data
      /\ InItems(row) => b.item_index = row.item /\ Home(n)' = M
      /\ ~InItems(row) => b = data /\ Home(n)' = 0
      /\ row.place \in {"authors", "feed_authors"} => PersonRead(b, data', RowWhere(row), row, value)
      /\ row.place = "attachments" => AttachmentRead(b, data', row, value)
      /\ row.place \in {"feed", "item"} => ValueRead(b, data', row, value)
  BY <1>02, <1>03, <1>04, RowFrom
<1>2. /\ data'.item_index = b.item_index
      /\ row.place \notin {"authors", "feed_authors"} =>
           data'.author_index = b.author_index /\ Untouched(b, data', "persons")
      /\ row.place \in {"authors", "feed_authors"} =>
           /\ data'.author_index = row.index /\ row.index >= 0
           /\ PersonRead(b, data', RowWhere(row), row, value)
      /\ InItems(row) => Len(b.items) # 0
      /\ row.place = "authors" => RowWhere(row) = "item" /\ InItems(row)
      /\ row.place = "feed_authors" => RowWhere(row) = "feed" /\ ~InItems(row)
  BY <1>02, RowPersons
<1>3. /\ n \in Nat \ {0} /\ Numbers' = 1..n /\ Len(document') = n
      /\ document'[n] = row
  BY RowsWithin
<1>31. /\ Visible(value) = value /\ value \in Seq(Int) /\ value # <<>>
  BY <1>3, OneIsVisible
<1> HIDE DEF value
<1>4. row.place \in {"authors", "feed_authors"} /\ row.key = "name"
  BY <1>3 DEF IsNameRow
<1>5. PICK h : h = IF InItems(row) THEN M ELSE 0
  OBVIOUS
<1>6. h \in 0..Len(b.items) /\ Home(n)' = h /\ data'.author_index = row.index /\ row.index >= 0
      /\ row.index # -1
  BY <1>04, <1>1, <1>2, <1>4, <1>5
<1>7. LastTyped(data', h)
  <2>1. document' # <<>> /\ document'[Len(document')] = row
    <3>1. Len(document') # 0
      BY <1>3
    <3> QED BY <1>3, <3>1
  <2>2. CASE InItems(row)
    <3>1. LastTyped(data, Len(data.items))'
      BY <1>6, <2>1, <2>2 DEF LastsAreTyped
    <3> QED BY <1>1, <1>5, <2>2, <3>1
  <2>3. CASE ~InItems(row)
    <3>1. row.place = "feed_authors"
      BY <1>4, <2>3 DEF InItems
    <3>2. \A j \in Numbers' : ~InItems(document'[j])
      BY <1>3, <3>1 DEF IsNameRow
    <3>3. LastTyped(data, 0)'
      BY <1>6, <3>2 DEF LastsAreTyped
    <3> QED BY <1>5, <2>3, <3>3
  <2> QED BY <2>2, <2>3
<1>8. PICK new \in BOOLEAN, fields \in Seq(Field) :
         /\ new <=> (row.index # b.author_index)
         /\ PersonChanged(b, data', h, new, fields, row, value)
  <2>1. PICK where \in {"item", "feed"} : where = RowWhere(row)
    BY DEF RowWhere
  <2>2. h = IF where = "item" THEN Len(b.items) ELSE 0
    BY <1>04, <1>5, <2>1 DEF RowWhere
  <2>3. PersonRead(b, data', where, row, value)
    BY <1>2, <1>4, <2>1
  <2> QED BY <2>2, <2>3, PersonReadChanges
<1>9. PersonsChange(b, data', h, new, fields) /\ Has(fields, Key.name, value)
  BY <1>4, <1>8 DEF PersonChanged
<1>10. PersonOf(data', h, value)
  BY <1>1, <1>31, <1>6, <1>7, <1>9, PersonNamed
<1>11. IsCurrent(n)'
  <2>1. InItems(row) => data'.item_index = row.item
    BY <1>1, <1>2
  <2>2. document'[n] = row /\ document'[Len(document')] = row
    BY <1>3
  <2> QED BY <1>6, <2>1, <2>2 DEF IsCurrent
<1> QED BY <1>6, <1>10, <1>11 DEF value

(* The text of an element that begins.                                        *)
TextStarted(d, name, attrs, number, e) ==
    IF IsXhtml(name)
    THEN e.decoy = d.decoy /\ e.text = IF d.decoy THEN Append(d.text, number) ELSE <<>>
    ELSE /\ \/ e.decoy = d.decoy /\ e.text = IF d.decoy THEN d.text ELSE <<>>
            \/ name \in AtomTexts /\ At(d) = "item" /\ e.decoy = TRUE /\ e.text = <<>>
         /\ name \in AtomTexts /\ At(d) = "item" /\ Attr(attrs, "type") = <<Word.xhtml>> => e.decoy = TRUE

LEMMA ElementTextStarts ==
    ASSUME NEW d, Targets(d, Int, Int, Int), NEW attrs, AttrsOf(attrs, Int), NEW number \in Int,
           NEW name, name \notin ItemElements, NEW e, e = start_element_handler(d, name, attrs, number)
    PROVE  TextStarted(d, name, attrs, number, e)
<1> DEFINE x == Entered(d, name)
<1>0. d \in Data /\ Holds(d, Int, Int)
  BY DEF Targets, Holds
<1>1. /\ x \in Data /\ x.text = (IF d.decoy THEN d.text ELSE <<>>) /\ At(x) = At(d)
      /\ x.feed = d.feed /\ x.items = d.items /\ x.depth = d.depth /\ x.decoy = d.decoy
      /\ x.in_item = d.in_item
  BY <1>0, EnteredIs
<1> HIDE DEF x
<1>2. Targets(x, Int, Int, Int)
  BY <1>0, <1>1 DEF Targets, Holds
<1>3. Deeper(d) \in 0..PathSize - 1
  BY <1>0, DepthIs DEF Deeper, Data
<1>4. CASE IsXhtml(name)
  <2> DEFINE m == xml_default_handler(x, number)
  <2>1. e = [m EXCEPT !.depth = Deeper(d)]
    BY <1>4 DEF start_element_handler, x, Entered, Deeper
  <2>2. m \in Data /\ m.decoy = x.decoy /\ m.text = IF x.decoy THEN Append(x.text, number) ELSE x.text
    <3>1. CASE x.decoy
      <4>1. m = [x EXCEPT !.text = Append(@, number)]
        BY <3>1 DEF xml_default_handler
      <4>2. Append(x.text, number) \in Seq(Int)
        BY <1>1 DEF Data
      <4> HIDE DEF m
      <4> QED BY <1>1, <3>1, <4>1, <4>2 DEF Data
    <3>2. CASE ~x.decoy
      BY <1>1, <3>2 DEF xml_default_handler
    <3> QED BY <3>1, <3>2
  <2> HIDE DEF m
  <2>3. e.text = m.text /\ e.decoy = m.decoy
    BY <2>1, <2>2 DEF Data
  <2> QED BY <1>1, <1>4, <2>2, <2>3 DEF TextStarted
<1>5. CASE ~IsXhtml(name)
  <2> DEFINE m == StartHandle(x, name, attrs)
  <2>1. e = [m EXCEPT !.depth = Deeper(d)]
    BY <1>5 DEF start_element_handler, x, Entered, Deeper
  <2>2. /\ Targets(m, Int, Int, Int)
        /\ \/ m.text = x.text /\ m.decoy = x.decoy
           \/ name \in AtomTexts /\ At(x) = "item" /\ m.decoy = TRUE /\ m.text = <<>>
    BY <1>2, StartHandled
  <2>3. name \in AtomTexts /\ At(x) = "item" /\ Attr(attrs, "type") = <<Word.xhtml>> => m.decoy = TRUE
    <3> SUFFICES ASSUME name \in AtomTexts, At(x) = "item", Attr(attrs, "type") = <<Word.xhtml>>
                 PROVE  m.decoy = TRUE
      OBVIOUS
    <3>1. m = atom_content_start(x, attrs)
      BY TagsAre
    <3> DEFINE c == Entry(x, "item", "content", << <<Key.type, Attr(attrs, "type")>> >>)
    <3>2. m = [c EXCEPT !.decoy = TRUE, !.text = <<>>]
      BY <3>1 DEF atom_content_start
    <3>3. m \in Data
      BY <2>2 DEF Targets, Holds
    <3>4. c \in Data
      <4>1. << <<Key.type, Attr(attrs, "type")>> >> \in Seq(Int \X Seq(Int))
        <5>1. Attr(attrs, "type") \in Seq(Int) /\ Key.type \in Int
          BY AttrIs DEF Key
        <5> QED BY <5>1
      <4>2. Targets(c, Int, Int, Int)
        BY <1>2, <4>1, EntryAt DEF Lists
      <4> QED BY <4>2 DEF Targets, Holds
    <3> HIDE DEF c, m
    <3> QED BY <3>2, <3>4 DEF Data
  <2> HIDE DEF m
  <2>4. e.text = m.text /\ e.decoy = m.decoy
    BY <2>1, <2>2 DEF Data, Targets, Holds
  <2> QED BY <1>1, <1>5, <2>2, <2>3, <2>4 DEF TextStarted
<1> QED BY <1>4, <1>5

(* The same as a step.                                                        *)
LEMMA TextBegun ==
    ASSUME PathInvariant, NEW name \in STRING, NEW attrs \in Attributes(name, Len(document) + 1),
           Start(name, attrs), NEW n, n = Len(document) + 1
    PROVE  TextStarted(data, name, attrs, n, data')
<1>1. IsXml /\ data \in Data /\ n \in Int
  <2>1. IsXml /\ Len(document) \in Nat
    BY DocumentStarts DEF PathInvariant, DocumentIsTree
  <2> QED BY <2>1 DEF PathInvariant, ItemsAreThere
<1>2. data' = start_element_handler(data, name, attrs, n)
  BY DEF Start
<1>3. CASE name \notin ItemElements
  <2>1. data.in_item \/ At(data) = "item" => data.items # <<>>
    BY <1>1, AtIs DEF PathInvariant, ItemsAreThere, Data
  <2>2. Targets(data, Int, Int, Int)
    BY <1>1, <2>1, ItemsTargeted
  <2>3. AttrsOf(attrs, Int)
    BY <1>1, AttributesAre DEF Marks
  <2> QED BY <1>1, <1>2, <1>3, <2>2, <2>3, ElementTextStarts
<1>4. CASE name \in ItemElements
  <2>1. Holds(data, Int, Int)
    BY <1>1, DataHolds
  <2>2. Holds(data', Int, Int) /\ ItemStarted(data, name, data')
    BY <1>2, <1>4, <2>1, StartItem
  <2>4. data'.text = (IF data.decoy THEN data.text ELSE <<>>) /\ data'.decoy = data.decoy
    BY <2>2 DEF ItemStarted
  <2>3. name \notin AtomTexts /\ ~IsXhtml(name)
    BY <1>4 DEF ItemElements, AtomTexts, IsXhtml
  <2> QED BY <2>3, <2>4 DEF TextStarted
<1> QED BY <1>3, <1>4

(* The text of an element that ends.                                          *)
TextEnded(d, name, number, e) ==
    /\ e.text = (IF IsXhtml(name) /\ d.decoy THEN Append(trim_whitespace(d.text), number)
                 ELSE trim_whitespace(d.text))
    /\ e.decoy = IF name \in AtomTexts /\ At(Left(d)) = "item" THEN FALSE ELSE d.decoy

LEMMA TextLeft ==
    ASSUME PathInvariant, End, NEW n, n = open[Len(open)], NEW name, name = document[n].name
    PROVE  TextEnded(data, name, n, data')
<1>1. IsXml /\ data \in Data /\ n \in Nat
  BY DocumentEnds DEF PathInvariant, ItemsAreThere, OpenAreNested
<1>2. data' = end_element_handler(data, name, n)
  <2>1. Last(open) = open[Len(open)]
    BY DEF Last
  <2> QED BY <2>1 DEF End
<1>3. PICK d : d = Left(data)
  OBVIOUS
<1>4. Targets(d, Int, Int, Int) /\ d \in Data /\ d.decoy = data.decoy /\ d.text \in Seq(Int)
  BY <1>3, LeftTargets
<1>5. d.text = trim_whitespace(data.text)
  <2>1. Trimmed(data).text = trim_whitespace(data.text) /\ Left(data).text = Trimmed(data).text
    BY <1>1 DEF Left, Trimmed, Data
  <2> QED BY <1>3, <2>1
<1>6. CASE IsXhtml(name)
  <2>1. data' = xml_default_handler(d, n)
    BY <1>2, <1>3, <1>6 DEF end_element_handler, Left, Trimmed
  <2>2. name \notin AtomTexts
    BY <1>6 DEF AtomTexts, IsXhtml
  <2>3. data'.decoy = d.decoy /\ data'.text = IF d.decoy THEN Append(d.text, n) ELSE d.text
    <3>1. CASE d.decoy
      <4>1. data' = [d EXCEPT !.text = Append(@, n)]
        BY <2>1, <3>1 DEF xml_default_handler
      <4> QED BY <1>4, <3>1, <4>1 DEF Data
    <3>2. CASE ~d.decoy
      BY <2>1, <3>2 DEF xml_default_handler
    <3> QED BY <3>1, <3>2
  <2> QED BY <1>4, <1>5, <1>6, <2>2, <2>3 DEF TextEnded
<1>7. CASE ~IsXhtml(name)
  <2>1. data' = EndHandle(d, name)
    BY <1>2, <1>3, <1>7 DEF end_element_handler, Left, Trimmed
  <2>2. CASE name \notin ItemElements
    <3>1. /\ data'.text = d.text
          /\ data'.decoy = IF name \in AtomTexts /\ At(d) = "item" THEN FALSE ELSE d.decoy
      BY <1>4, <2>1, <2>2, EndHandled
    <3> QED BY <1>3, <1>4, <1>5, <1>7, <3>1 DEF TextEnded
  <2>3. CASE name \in ItemElements
    <3>1. data' = generic_item_ender(d)
      <4>1. EndHandle(d, name) = generic_item_ender(d)
        BY <2>3 DEF EndHandle, ItemElements, AtomTexts, TitleElements, GuidElements, LinkElements, PlainElements,
           HtmlElements, SubjectElements, UpdateElements, PointElements
      <4> QED BY <2>1, <4>1
    <3>2. data'.text = d.text /\ data'.decoy = d.decoy
      BY <1>4, <3>1 DEF generic_item_ender, Data
    <3>3. name \notin AtomTexts
      BY <2>3 DEF AtomTexts, ItemElements
    <3> QED BY <1>4, <1>5, <1>7, <3>2, <3>3 DEF TextEnded
  <2> QED BY <2>2, <2>3
<1> QED BY <1>6, <1>7

LEMMA PersonsRow ==
    ASSUME PathInvariant, PathInvariant', HomeInvariant, HomeInvariant', FitsPath, ListsAreFormed(data),
           LastsAreTyped, PersonsOfRows, NEW row \in grammar.rows, Row(row)
    PROVE  LastsAreTyped' /\ PersonsOfRows'
<1>1. PICK n : n = Len(document) + 1
  OBVIOUS
<1>2. Numbers' = Numbers \cup {n}
  <2>1. n \in Nat \ {0} /\ Numbers = 1..n - 1 /\ Numbers' = 1..n
    BY <1>1, RowsWithin
  <2> QED BY <2>1
<1>3. LastsAreTyped'
  BY LastsRow
<1>4. \A m \in Numbers : IsNameRow(m)' => PersonOf(data', Home(m)', <<m>>)
                                          /\ (EarlierPerson(data', Home(m)', <<m>>) \/ IsCurrent(m)')
  BY OldPersonsRow
<1>5. IsNameRow(n)' => PersonOf(data', Home(n)', <<n>>) /\ IsCurrent(n)'
  BY <1>1, <1>3, NewPersonsRow
<1> QED BY <1>2, <1>3, <1>4, <1>5 DEF PersonsOfRows

LEMMA RowPersonsRest ==
    ASSUME PathInvariant, PathInvariant', HomeInvariant, ~IsXml, FitsPath, LastsAreTyped, PersonsOfRows,
           document' = document, kind' = kind, data' = data
    PROVE  LastsAreTyped' /\ PersonsOfRows'
<1>1. ~IsXml' /\ DocumentIsTree /\ DocumentIsTree' /\ Numbers' = Numbers
  BY DEF PathInvariant, Numbers, IsXml, grammar
<1>2. \A m \in Numbers : Home(m)' = Home(m)
  BY <1>1, JsonHomesKept
<1>3. LastsAreTyped'
  BY <1>1 DEF LastsAreTyped
<1>4. ASSUME NEW m \in Numbers, IsNameRow(m)'
      PROVE  PersonOf(data', Home(m)', <<m>>) /\ (EarlierPerson(data', Home(m)', <<m>>) \/ IsCurrent(m)')
  <2>1. IsNameRow(m)
    BY <1>1, <1>4 DEF IsNameRow, IsLastSuch
  <2>2. Home(m)' = Home(m) /\ (IsCurrent(m) => IsCurrent(m)')
    BY <1>2 DEF IsCurrent
  <2> QED BY <2>1, <2>2 DEF PersonsOfRows
<1> QED BY <1>1, <1>3, <1>4 DEF PersonsOfRows

(* What is open and what is written.                                          *)

(* Open elements are marked as such, and each is the last child of the one it  *)
(* is in.                                                                     *)
OpenInvariant ==
    IsXml => /\ \A i \in DOMAIN open : document[open[i]].open = TRUE
             /\ \A i \in DOMAIN open, m \in Numbers :
                  i + 1 \in DOMAIN open /\ document[m].parent = open[i] => m <= open[i + 1]
             /\ written \in Seq(Numbers)

(* The elements that are open come one after the other.                       *)
LEMMA OpenAreOrdered ==
    ASSUME PathInvariant, IsXml, NEW L, L = Len(open)
    PROVE  /\ L \in Nat /\ DOMAIN open = 1..L /\ open \in Seq(Nat)
           /\ \A i \in 1..L : open[i] \in Numbers /\ open[i] \in Nat \ {0}
           /\ \A i \in 1..L, j \in 1..L : i < j => open[i] < open[j]
           /\ \A i \in 1..L, j \in 1..L : open[i] = open[j] => i = j
           /\ \A i \in 1..L : document[open[i]].parent = (IF i = 1 THEN 0 ELSE open[i - 1])
<1>1. open \in Seq(Nat)
  BY DEF PathInvariant, OpenAreNested
<1>2. L \in Nat /\ DOMAIN open = 1..L
  BY <1>1
<1>3. /\ \A i \in DOMAIN open : open[i] \in Numbers /\ document[open[i]].parent = (IF i = 1 THEN 0 ELSE open[i - 1])
      /\ \A i \in DOMAIN open, j \in DOMAIN open : i < j => open[i] < open[j]
  BY DEF PathInvariant, OpenAreNested
<1>4. Numbers = 1..Len(document)
  BY NumbersAre DEF PathInvariant
<1>5. \A i \in 1..L : open[i] \in Numbers /\ open[i] \in Nat \ {0}
  BY <1>1, <1>2, <1>3, <1>4
<1>6. \A i \in 1..L, j \in 1..L : i < j => open[i] < open[j]
  BY <1>2, <1>3
<1>7. ASSUME NEW i \in 1..L, NEW j \in 1..L, open[i] = open[j] PROVE i = j
  <2>1. open[i] \in Nat /\ open[j] \in Nat
    BY <1>5
  <2>2. ~(open[i] < open[j]) /\ ~(open[j] < open[i])
    BY <1>7, <2>1
  <2> QED BY <1>2, <1>6, <2>2
<1> QED BY <1>1, <1>2, <1>3, <1>5, <1>6, <1>7

LEMMA OpenStarts ==
    ASSUME PathInvariant, PathInvariant', HomeInvariant, OpenInvariant, NEW name \in STRING,
           NEW attrs \in Attributes(name, Len(document) + 1), Start(name, attrs)
    PROVE  OpenInvariant'
<1>1. PICK n : n = Len(document) + 1
  OBVIOUS
<1>2. PICK L : L = Len(open)
  OBVIOUS
<1>3. /\ IsXml /\ IsXml' /\ n \notin Numbers
      /\ Numbers' = Numbers \cup {n} /\ Numbers = 1..n - 1 /\ n \in Nat \ {0}
      /\ L \in Nat /\ DOMAIN open = 1..L /\ DOMAIN open' = 1..L + 1
      /\ \A i \in 1..L : open'[i] = open[i] /\ open[i] \in Numbers
      /\ open'[L + 1] = n
  BY <1>1, <1>2, StartsWithin DEF HomeInvariant
<1>4. /\ document'[n].open = TRUE /\ document'[n].parent = (IF L = 0 THEN 0 ELSE open[L])
      /\ \A m \in Numbers : document'[m] = document[m]
  <2>1. /\ \A m \in Numbers : document'[m] = document[m]
        /\ document'[n].parent = (IF open = <<>> THEN 0 ELSE open[L])
    BY <1>1, <1>2, DocumentStarts DEF PathInvariant
  <2>2. open = <<>> <=> L = 0
    BY <1>2 DEF PathInvariant, OpenAreNested
  <2>3. document'[n].open = TRUE
    <3> DEFINE new == [name |-> name, attrs |-> attrs, open |-> TRUE,
                       parent |-> IF open = <<>> THEN 0 ELSE Last(open)]
               E == Elements
    <3>1. document' = Append(document, new) /\ document \in Seq(E)
      BY <1>3 DEF Start, PathInvariant, DocumentIsTree
    <3>2. document'[n] = new
      <4> HIDE DEF new, E
      <4> QED BY <1>1, <3>1
    <3> QED BY <3>2
  <2> QED BY <2>1, <2>2, <2>3
<1>5. ASSUME NEW i \in 1..L + 1 PROVE document'[open'[i]].open = TRUE
  <2>1. CASE i = L + 1
    BY <1>3, <1>4, <2>1
  <2>2. CASE i \in 1..L
    <3>1. document[open[i]].open = TRUE
      BY <1>3, <2>2 DEF OpenInvariant
    <3>2. open'[i] = open[i] /\ document'[open[i]] = document[open[i]]
      BY <1>3, <1>4, <2>2
    <3> QED BY <3>1, <3>2
  <2>3. i = L + 1 \/ i \in 1..L
    BY <1>3
  <2> QED BY <2>1, <2>2, <2>3
<1>6. ASSUME NEW i \in 1..L + 1, NEW m \in Numbers', i + 1 \in 1..L + 1, document'[m].parent = open'[i]
      PROVE  m <= open'[i + 1]
  <2>1. i \in 1..L
    BY <1>3, <1>6
  <2>2. CASE i = L
    BY <1>3, <2>2
  <2>3. CASE i # L
    <3>1. i + 1 \in 1..L /\ i < L /\ L \in 1..L
      BY <1>3, <2>1, <2>3
    <3>2. open[i] < open[L] /\ open[i] \in Nat /\ open[L] \in Nat
      BY <1>2, <1>3, <2>1, <3>1, OpenAreOrdered
    <3>3. open'[i] = open[i] /\ document'[n].parent # open[i]
      BY <1>3, <1>4, <2>1, <3>1, <3>2
    <3>4. m \in Numbers /\ document[m].parent = open[i]
      BY <1>3, <1>4, <1>6, <3>3
    <3>5. m <= open[i + 1]
      BY <1>3, <2>1, <3>1, <3>4 DEF OpenInvariant
    <3> QED BY <1>3, <3>1, <3>5
  <2> QED BY <2>2, <2>3
<1>7. written' \in Seq(Numbers')
  <2>1. written \in Seq(Numbers')
    <3>1. Numbers \subseteq Numbers' /\ written \in Seq(Numbers)
      BY <1>3 DEF OpenInvariant
    <3> QED BY <3>1
  <2>2. n \in Numbers' /\ (written' = written \/ written' = Append(written, n))
    BY <1>1, <1>3 DEF Start
  <2> QED BY <2>1, <2>2
<1> QED BY <1>3, <1>5, <1>6, <1>7 DEF OpenInvariant

LEMMA OpenEnds ==
    ASSUME PathInvariant, PathInvariant', HomeInvariant, OpenInvariant, End
    PROVE  OpenInvariant'
<1>1. PICK L : L = Len(open)
  OBVIOUS
<1>2. PICK n : n = open[L]
  OBVIOUS
<1>3. /\ IsXml /\ IsXml' /\ n \in Numbers /\ Numbers' = Numbers
      /\ L \in Nat \ {0} /\ DOMAIN open = 1..L /\ DOMAIN open' = 1..L - 1
      /\ \A i \in 1..L - 1 : open'[i] = open[i]
      /\ \A i \in 1..L : open[i] \in Numbers
      /\ \A m \in Numbers : document'[m].parent = document[m].parent
  BY <1>1, <1>2, EndsWithin DEF HomeInvariant, Kept
<1>4. \A m \in Numbers : m # n => document'[m] = document[m]
  BY <1>1, <1>2, ElementClosed
<1>5. ASSUME NEW i \in 1..L - 1 PROVE document'[open'[i]].open = TRUE
  <2>1. i \in 1..L /\ i < L /\ L \in 1..L
    BY <1>3
  <2>2. open[i] < open[L] /\ open[i] \in Nat
    BY <1>1, <1>3, <2>1, OpenAreOrdered
  <2>3. open[i] # n
    BY <1>2, <2>2
  <2> QED BY <1>3, <1>4, <2>1, <2>3 DEF OpenInvariant
<1>6. ASSUME NEW i \in 1..L - 1, NEW m \in Numbers, i + 1 \in 1..L - 1, document'[m].parent = open'[i]
      PROVE  m <= open'[i + 1]
  <2>1. i \in 1..L /\ i + 1 \in 1..L
    BY <1>3, <1>6
  <2>2. document[m].parent = open[i]
    BY <1>3, <1>6
  <2>3. m <= open[i + 1]
    BY <1>3, <2>1, <2>2 DEF OpenInvariant
  <2> QED BY <1>3, <1>6, <2>3
<1>7. written' \in Seq(Numbers')
  <2>1. written \in Seq(Numbers)
    BY <1>3 DEF OpenInvariant
  <2>2. written' = written \/ written' = Append(written, n)
    BY <1>1, <1>2 DEF End, Last
  <2> QED BY <1>3, <2>1, <2>2
<1> QED BY <1>3, <1>5, <1>6, <1>7 DEF OpenInvariant

LEMMA OpenHold == Spec => []OpenInvariant
<1>1. Init => OpenInvariant
  BY DEF Init, OpenInvariant
<1>2. PathInvariant /\ PathInvariant' /\ HomeInvariant /\ OpenInvariant /\ [Next]_vars => OpenInvariant'
  <2> SUFFICES ASSUME PathInvariant, PathInvariant', HomeInvariant, OpenInvariant, [Next]_vars
               PROVE  OpenInvariant'
    OBVIOUS
  <2>1. CASE Engage \/ Finish \/ UNCHANGED vars
    <3>1. document' = document /\ open' = open /\ written' = written /\ kind' = kind
      BY <2>1 DEF Engage, Finish, vars
    <3>2. IsXml' = IsXml /\ Numbers' = Numbers
      BY <3>1 DEF IsXml, grammar, Numbers
    <3> QED BY <3>1, <3>2 DEF OpenInvariant
  <2>2. ASSUME NEW name \in UNION {grammar.levels[i] : i \in DOMAIN grammar.levels},
               NEW attrs \in Attributes(name, Len(document) + 1), Start(name, attrs)
        PROVE  OpenInvariant'
    <3>1. name \in STRING
      BY GrammarIs DEF PathInvariant, DocumentIsTree
    <3> QED BY <2>2, <3>1, OpenStarts
  <2>3. ASSUME NEW token \in {Space, Delimiter} \cup 1..Len(document), Characters(token)
        PROVE  OpenInvariant'
    <3>1. document' = document /\ open' = open /\ kind' = kind
      BY <2>3 DEF Characters
    <3>2. IsXml' = IsXml /\ Numbers' = Numbers
      BY <3>1 DEF IsXml, grammar, Numbers
    <3>3. IsXml => written' \in Seq(Numbers)
      <4> SUFFICES ASSUME IsXml PROVE written' \in Seq(Numbers)
        OBVIOUS
      <4>1. Numbers = 1..Len(document) /\ written \in Seq(Numbers)
        BY NumbersAre DEF OpenInvariant, PathInvariant
      <4>2. written' = written \/ (token > 0 /\ written' = Append(written, token))
        BY <2>3 DEF Characters
      <4>3. token > 0 => token \in Numbers
        BY <4>1 DEF Space, Delimiter
      <4> QED BY <4>1, <4>2, <4>3
    <3> QED BY <3>1, <3>2, <3>3 DEF OpenInvariant
  <2>4. CASE End
    BY <2>4, OpenEnds
  <2>5. ASSUME NEW row \in grammar.rows, Row(row) PROVE OpenInvariant'
    <3>1. ~IsXml'
      <4>1. Len(document) + 1 = Len(document) + 1
        OBVIOUS
      <4> QED BY <2>5, <4>1, RowsWithin
    <3> QED BY <3>1 DEF OpenInvariant
  <2> QED BY <2>1, <2>2, <2>3, <2>4, <2>5 DEF Next, Terminated
<1> QED BY <1>1, <1>2, PathHolds, HomeHolds, PTL DEF Spec
-----------------------------------------------------------------------------
(* The text of an element, as more is written.                                *)

LEMMA TextsGrow ==
    ASSUME IsXml, DocumentIsTree, IsXml', DocumentIsTree', Kept, written \in Seq(Numbers), NEW m \in Numbers
    PROVE  /\ written' = written => TextOf(m)' = TextOf(m)
           /\ \A t \in Numbers' : written' = Append(written, t) =>
                TextOf(m)' = IF m \in Around'[t] THEN Append(TextOf(m), t) ELSE TextOf(m)
           /\ TextOf(m) \in Seq(Numbers)
<1> DEFINE A == {t \in Numbers : m \in Around[t]}
           B == {t \in Numbers' : m \in Around'[t]}
<1>1. TextOf(m) = Only(written, A)
  BY DEF TextOf
<1>2. TextOf(m)' = Only(written', B)
  BY DEF TextOf
<1>3. \A t \in Numbers : t \in A <=> t \in B
  BY AroundKept DEF Kept
<1>4. \A t \in Numbers' : t \in B <=> m \in Around'[t]
  OBVIOUS
<1>5. Numbers \subseteq Numbers'
  BY DEF Kept
<1>55. A \subseteq Numbers
  OBVIOUS
<1> HIDE DEF A, B
<1>6. Only(written, B) = Only(written, A)
  BY <1>3, OnlyAlike
<1>7. ASSUME NEW t \in Numbers', written' = Append(written, t)
      PROVE  TextOf(m)' = IF m \in Around'[t] THEN Append(TextOf(m), t) ELSE TextOf(m)
  <2>1. written \in Seq(Numbers')
    BY <1>5
  <2>2. Only(Append(written, t), B) = IF t \in B THEN Append(Only(written, B), t) ELSE Only(written, B)
    BY <2>1, OnlyAppend
  <2> QED BY <1>1, <1>2, <1>4, <1>6, <1>7, <2>2
<1>8. Only(written, A) \in Seq(Numbers)
  <2>1. Only(written, A) \in Seq(Numbers \cap A)
    BY OnlyIsIn
  <2>2. Numbers \cap A = A
    BY <1>55
  <2> QED BY <1>55, <2>1, <2>2
<1> QED BY <1>1, <1>2, <1>6, <1>7, <1>8

(* An element that begins has no text.                                        *)
LEMMA NewHasNoText ==
    ASSUME IsXml, DocumentIsTree, IsXml', DocumentIsTree', Kept, written \in Seq(Numbers), NEW n \in Numbers',
           n \notin Numbers, written' = written
    PROVE  TextOf(n)' = <<>>
<1> DEFINE B == {t \in Numbers' : n \in Around'[t]}
<1>1. TextOf(n)' = Only(written, B)
  BY DEF TextOf
<1>2. Numbers \cap B = {}
  <2>1. ASSUME NEW t \in Numbers PROVE n \notin Around'[t]
    <3>1. Around[t] \subseteq 1..t /\ Around'[t] = Around[t]
      BY AroundIs, AroundKept
    <3>2. Numbers = 1..Len(document) /\ Len(document) \in Nat
      BY NumbersAre
    <3> QED BY <3>1, <3>2
  <2> QED BY <2>1
<1> HIDE DEF B
<1> QED BY <1>1, <1>2, OnlyNothing

(* The text that is collected is that of the innermost element, as long as it  *)
(* has no children, or that of XHTML content.                                 *)
LeafIsRead ==
    LET n == open[Len(open)]
    IN  ~data.decoy /\ open # <<>> /\ Childless(n) /\ ~IsXhtml(document[n].name)
          => Visible(data.text) = TextOf(n)

ContentIsRead ==
    \A i \in DOMAIN open : ContentIs(i) =>
      /\ data.decoy => Visible(data.text) = TextOf(open[i])
      /\ Attr(document[open[i]].attrs, "type") = <<Word.xhtml>> => data.decoy = TRUE

TextInvariant == IsXml /\ IsFeed /\ FitsPath => LeafIsRead /\ ContentIsRead

LEMMA VisibleAppend ==
    ASSUME NEW s \in Seq(Int), NEW c \in Int
    PROVE  Visible(Append(s, c)) = IF c > 0 THEN Append(Visible(s), c) ELSE Visible(s)
<1> DEFINE A == Nat \ {0}
<1>1. c \in A <=> c > 0
  OBVIOUS
<1> HIDE DEF A
<1>2. Only(Append(s, c), A) = IF c \in A THEN Append(Only(s, A), c) ELSE Only(s, A)
  BY OnlyAppend
<1> QED BY <1>1, <1>2 DEF Visible, A

(* Neither items nor feeds are in content.                                    *)
LEMMA NoFrameInContent ==
    ASSUME PathInvariant, IsXml, IsFeed, AroundIsOpen, NEW i, ContentIs(i), NEW k \in DOMAIN open, i <= k
    PROVE  document[open[k]].name \notin ItemElements \cup FeedElements
<1>1. PICK L : L = Len(open)
  OBVIOUS
<1>2. /\ L \in Nat /\ DOMAIN open = 1..L
      /\ \A j \in 1..L : open[j] \in Numbers
      /\ \A j \in 1..L, l \in 1..L : open[j] = open[l] => j = l
  BY <1>1, OpenAreOrdered
<1>3. i \in 1..L /\ i > 1 /\ document[open[i - 1]].name \in ItemElements
  BY <1>2 DEF ContentIs
<1>4. PICK p : p = i - 1
  OBVIOUS
<1>5. p \in 1..L /\ p \in 1..k /\ p # k /\ k \in 1..L
  BY <1>2, <1>3, <1>4
<1>6. open[p] \in Around[open[k]] \ {open[k]}
  <2>1. Around[open[k]] = {open[j] : j \in 1..k}
    BY DEF AroundIsOpen
  <2> QED BY <1>2, <1>5, <2>1
<1>7. document[open[p]].name \notin FeedElements \cup {"rss"}
  BY <1>3, <1>4, FramesAre
<1> QED BY <1>2, <1>5, <1>6, <1>7 DEF IsFeed

(* While XHTML content is collected, it is around what is open inside.        *)
LEMMA ContentCollects ==
    ASSUME TextIsOfHere, data.decoy
    PROVE  \E i \in DOMAIN open : ContentIs(i)
BY DEF TextIsOfHere, ContentIs

LEMMA ReadStarts ==
    ASSUME PathInvariant, PathInvariant', AroundIsOpen, TextIsOfHere, IsFeed, FitsPath, OpenInvariant,
           ContentIsRead, NEW name \in STRING, NEW attrs \in Attributes(name, Len(document) + 1),
           Start(name, attrs)
    PROVE  LeafIsRead' /\ ContentIsRead'
<1>1. PICK n : n = Len(document) + 1
  OBVIOUS
<1>2. PICK L : L = Len(open)
  OBVIOUS
<1>3. /\ IsXml /\ IsXml' /\ Kept /\ n \notin Numbers /\ n \in Numbers' /\ n \in Nat \ {0}
      /\ L \in Nat /\ DOMAIN open = 1..L /\ DOMAIN open' = 1..L + 1
      /\ \A i \in 1..L : open'[i] = open[i] /\ open[i] \in Numbers
      /\ open'[L + 1] = n /\ document'[n].name = name
      /\ Around'[n] = {n} \cup {open[i] : i \in 1..L}
  BY <1>1, <1>2, StartsWithin
<1>4. /\ document'[n].attrs = attrs
      /\ \A m \in Numbers : document'[m] = document[m]
      /\ data.depth = L
  <2>1. NewElement(n, L, name, attrs)
    BY <1>1, <1>2, ElementBegun
  <2> QED BY <2>1 DEF NewElement
<1>5. TextStarted(data, name, attrs, n, data')
  BY <1>1, TextBegun
<1>6. /\ DocumentIsTree /\ DocumentIsTree' /\ written \in Seq(Numbers) /\ data.text \in Seq(Int)
      /\ data'.decoy \in BOOLEAN /\ data.decoy \in BOOLEAN
  BY <1>3 DEF OpenInvariant, PathInvariant, ItemsAreThere, Data
<1>7. written' = IF IsXhtml(name) THEN Append(written, n) ELSE written
  BY <1>1 DEF Start
<1>8. At(data) = "item" <=> L > 0 /\ document[open[L]].name \in ItemElements
  <2>1. data.path[0] = "XML_UNKNOWN_POS" /\ \A i \in DOMAIN open : data.path[i] = Position(document[open[i]].name)
    BY DEF PathInvariant, PathIsOfOpen
  <2>2. CASE L = 0
    BY <1>4, <2>1, <2>2, AtIs
  <2>3. CASE L > 0
    <3>1. data.path[L] = Position(document[open[L]].name)
      BY <1>3, <2>1, <2>3
    <3> QED BY <1>4, <2>3, <3>1, AtIs, PositionIs
  <2> QED BY <1>3, <2>2, <2>3
<1>9. Visible(<<>>) = <<>>
  BY OnlyEmpty DEF Visible
<1>10. LeafIsRead'
  <2>1. Len(open') = L + 1
    BY <1>3 DEF PathInvariant, OpenAreNested
  <2> SUFFICES ASSUME ~data'.decoy, ~IsXhtml(name) PROVE Visible(data'.text) = TextOf(n)'
    BY <1>3, <2>1 DEF LeafIsRead
  <2>2. data'.text = <<>> /\ written' = written
    BY <1>5, <1>7 DEF TextStarted
  <2>3. TextOf(n)' = <<>>
    BY <1>3, <1>6, <2>2, NewHasNoText
  <2> QED BY <1>9, <2>2, <2>3
(* No item is open in the item of content.                                    *)
<1>11. ASSUME NEW i \in 1..L, ContentIs(i) PROVE At(data) # "item"
  BY <1>3, <1>8, <1>11, NoFrameInContent
<1>12. ASSUME NEW i \in 1..L + 1, ContentIs(i)'
       PROVE  /\ data'.decoy => Visible(data'.text) = TextOf(open[i])'
              /\ Attr(document'[open'[i]].attrs, "type") = <<Word.xhtml>> => data'.decoy = TRUE
  <2>1. CASE i = L + 1
    <3>1. name \in AtomTexts /\ L > 0 /\ document[open[L]].name \in ItemElements
      <4>1. name \in AtomTexts /\ L + 1 > 1 /\ document'[open'[L]].name \in ItemElements
        BY <1>3, <1>12, <2>1 DEF ContentIs
      <4>2. L \in 1..L
        BY <1>3, <4>1
      <4> QED BY <1>3, <1>4, <4>1, <4>2
    <3>2. ~IsXhtml(name) /\ written' = written
      BY <1>7, <3>1 DEF AtomTexts, IsXhtml
    <3>3. ~data.decoy
      BY <1>3, <1>8, <1>11, <3>1, ContentCollects
    <3>4. data'.decoy => data'.text = <<>>
      BY <1>5, <1>6, <3>2, <3>3 DEF TextStarted
    <3>5. TextOf(n)' = <<>>
      BY <1>3, <1>6, <3>2, NewHasNoText
    <3>6. Attr(attrs, "type") = <<Word.xhtml>> => data'.decoy = TRUE
      BY <1>5, <1>8, <3>1, <3>2 DEF TextStarted
    <3>7. TextOf(open[i])' = TextOf(n)'
      BY <1>3, <2>1
    <3> QED BY <1>3, <1>4, <1>9, <2>1, <3>4, <3>5, <3>6, <3>7
  <2>2. CASE i \in 1..L
    <3>1. ContentIs(i) /\ open'[i] = open[i] /\ document'[open[i]] = document[open[i]]
      <4>1. i > 1 /\ i \in 1..L /\ i - 1 \in 1..L
        BY <1>3, <1>12, <2>2 DEF ContentIs
      <4> QED BY <1>3, <1>4, <1>12, <4>1 DEF ContentIs
    <3>2. At(data) # "item"
      BY <1>11, <2>2, <3>1
    <3>3. data'.decoy = data.decoy
      BY <1>5, <3>2 DEF TextStarted
    <3>4. Attr(document'[open'[i]].attrs, "type") = <<Word.xhtml>> => data'.decoy = TRUE
      BY <1>3, <2>2, <3>1, <3>3 DEF ContentIsRead
    <3>5. ASSUME data'.decoy PROVE Visible(data'.text) = TextOf(open[i])'
      <4>1. PICK m \in Numbers : m = open[i]
        BY <1>3, <2>2
      <4>2. Visible(data.text) = TextOf(m) /\ data.decoy
        BY <1>3, <2>2, <3>1, <3>3, <3>5, <4>1 DEF ContentIsRead
      <4>3. m \in Around'[n]
        BY <1>3, <2>2, <4>1
      <4>4. TextOf(m)' = IF IsXhtml(name) THEN Append(TextOf(m), n) ELSE TextOf(m)
        BY <1>3, <1>6, <1>7, <4>3, TextsGrow
      <4>5. data'.text = IF IsXhtml(name) THEN Append(data.text, n) ELSE data.text
        BY <1>5, <3>2, <4>2 DEF TextStarted
      <4>6. Visible(Append(data.text, n)) = Append(Visible(data.text), n)
        <5>1. n \in Int /\ n > 0
          BY <1>3
        <5> QED BY <1>6, <5>1, VisibleAppend
      <4>7. Visible(data'.text) = TextOf(m)'
        BY <4>2, <4>4, <4>5, <4>6
      <4> QED BY <3>1, <4>1, <4>7
    <3> QED BY <3>4, <3>5
  <2>3. i = L + 1 \/ i \in 1..L
    BY <1>3
  <2> QED BY <2>1, <2>2, <2>3
<1> QED BY <1>3, <1>10, <1>12 DEF ContentIsRead

LEMMA ReadTexts ==
    ASSUME PathInvariant, PathInvariant', AroundIsOpen, OpenInvariant, LeafIsRead, ContentIsRead,
           NEW token \in {Space, Delimiter} \cup 1..Len(document), Characters(token)
    PROVE  LeafIsRead' /\ ContentIsRead'
<1>1. PICK L : L = Len(open)
  OBVIOUS
<1>2. /\ document' = document /\ open' = open /\ kind' = kind /\ open # <<>>
      /\ token \in {Last(open)} \cup grammar.noise /\ grammar.noise \subseteq {Space, Delimiter}
      /\ IsXml /\ DocumentIsTree /\ DocumentIsTree'
  BY GrammarIs DEF Characters, PathInvariant, DocumentIsTree
<1>3. IsXml' /\ Numbers' = Numbers /\ Kept
  BY <1>2 DEF IsXml, grammar, Numbers, Kept
<1>4. /\ L \in Nat /\ DOMAIN open = 1..L /\ \A i \in 1..L : open[i] \in Numbers /\ open[i] \in Nat \ {0}
  BY <1>1, <1>2, OpenAreOrdered
<1>5. L \in 1..L
  BY <1>1, <1>2, <1>4 DEF PathInvariant, OpenAreNested
<1>6. token \in Int /\ (token > 0 => token = open[L])
  BY <1>1, <1>2, <1>4, <1>5 DEF Last, Space, Delimiter
<1>7. data \in Data /\ data.text \in Seq(Int)
  BY DEF PathInvariant, ItemsAreThere, Data
<1>8. data'.text = Append(data.text, token) /\ data'.decoy = data.decoy
  <2>1. data' = [data EXCEPT !.text = Append(@, token)]
    BY DEF Characters, character_data_handler
  <2> QED BY <1>7, <2>1 DEF Data
<1>9. written' = (IF token > 0 THEN Append(written, token) ELSE written) /\ written \in Seq(Numbers)
  BY <1>2 DEF Characters, OpenInvariant
<1>10. ASSUME NEW i \in 1..L, Visible(data.text) = TextOf(open[i])
       PROVE  Visible(data'.text) = TextOf(open[i])'
  <2>1. PICK m \in Numbers : m = open[i]
    BY <1>4
  <2>2. token > 0 => token \in Numbers' /\ m \in Around'[token]
    <3>1. Around[open[L]] = {open[j] : j \in 1..L}
      BY <1>4, <1>5 DEF AroundIsOpen
    <3>2. Around'[open[L]] = Around[open[L]]
      BY <1>2, <1>3, <1>4, <1>5, AroundKept
    <3> QED BY <1>3, <1>4, <1>5, <1>6, <2>1, <3>1, <3>2
  <2>3. TextOf(m)' = IF token > 0 THEN Append(TextOf(m), token) ELSE TextOf(m)
    BY <1>2, <1>3, <1>9, <2>2, TextsGrow
  <2>4. Visible(data'.text) = IF token > 0 THEN Append(Visible(data.text), token) ELSE Visible(data.text)
    BY <1>6, <1>7, <1>8, VisibleAppend
  <2>5. TextOf(m)' = TextOf(open[i])'
    BY <1>2, <2>1
  <2> QED BY <1>10, <2>1, <2>3, <2>4, <2>5
<1>11. LeafIsRead'
  <2>1. ASSUME ~data'.decoy, Childless(open[L])', ~IsXhtml(document'[open'[L]].name)
        PROVE  Visible(data'.text) = TextOf(open[L])'
    <3>1. Childless(open[L])
      BY <1>2, <1>3, <2>1 DEF Childless
    <3>2. Visible(data.text) = TextOf(open[L])
      BY <1>1, <1>2, <1>8, <2>1, <3>1 DEF LeafIsRead
    <3> QED BY <1>5, <1>10, <3>2
  <2>2. Len(open') = L
    BY <1>1, <1>2
  <2> QED BY <2>1, <2>2 DEF LeafIsRead
<1>12. ASSUME NEW i \in 1..L, ContentIs(i)'
       PROVE  /\ data'.decoy => Visible(data'.text) = TextOf(open[i])'
              /\ Attr(document'[open'[i]].attrs, "type") = <<Word.xhtml>> => data'.decoy = TRUE
  <2>1. ContentIs(i)
    BY <1>2, <1>12 DEF ContentIs
  <2> QED BY <1>2, <1>4, <1>8, <1>10, <2>1 DEF ContentIsRead
<1> QED BY <1>2, <1>4, <1>11, <1>12 DEF ContentIsRead

(* What the element that ends is in.                                          *)
LEMMA LeftIsAt ==
    ASSUME PathInvariant, FitsPath, End, NEW L, L = Len(open)
    PROVE  /\ At(Left(data)) = "item" <=> L > 1 /\ document[open[L - 1]].name \in ItemElements
           /\ At(Left(data)) = "feed" <=> L > 1 /\ document[open[L - 1]].name \in FeedElements
<1>1. open # <<>> /\ IsXml
  BY DEF End, PathInvariant, DocumentIsTree
<1>2. L \in Nat /\ DOMAIN open = 1..L
  BY <1>1, OpenAreOrdered
<1>3. L \in Nat \ {0}
  BY <1>1, <1>2 DEF PathInvariant, OpenAreNested
<1>4. /\ data.depth = L /\ data.path[0] = "XML_UNKNOWN_POS"
      /\ \A m \in 1..L : data.path[m] = Position(document[open[m]].name)
  BY <1>2 DEF PathInvariant, PathIsOfOpen
<1>5. PICK x : x = Left(data)
  OBVIOUS
<1>6. x.path = data.path /\ x.depth = Shallower(data)
  <2>1. data \in Data
    BY DEF PathInvariant, ItemsAreThere
  <2> QED BY <1>5, <2>1 DEF Left, Trimmed, Data, Shallower
<1>7. x.depth = L - 1 /\ x.path[x.depth] = data.path[L - 1]
  BY <1>3, <1>4, <1>6 DEF Shallower
<1>8. CASE L = 1
  BY <1>4, <1>5, <1>7, <1>8, AtIs
<1>9. CASE L > 1
  <2>1. L - 1 \in 1..L
    BY <1>3, <1>9
  <2>2. data.path[L - 1] = Position(document[open[L - 1]].name)
    BY <1>4, <2>1
  <2> QED BY <1>5, <1>7, <1>9, <2>2, AtIs, PositionIs
<1> QED BY <1>3, <1>8, <1>9

LEMMA ReadEnds ==
    ASSUME PathInvariant, PathInvariant', AroundIsOpen, IsFeed, FitsPath, OpenInvariant, ContentIsRead, End
    PROVE  LeafIsRead' /\ ContentIsRead'
<1>1. PICK L : L = Len(open)
  OBVIOUS
<1>2. PICK n : n = open[L]
  OBVIOUS
<1>3. PICK name : name = document[n].name
  OBVIOUS
<1>4. /\ IsXml /\ IsXml' /\ AroundIsOpen' /\ Kept /\ n \in Numbers /\ Numbers' = Numbers
      /\ L \in Nat \ {0} /\ DOMAIN open = 1..L /\ DOMAIN open' = 1..L - 1
      /\ \A i \in 1..L - 1 : open'[i] = open[i]
  BY <1>1, <1>2, EndsWithin
<1>5. /\ \A i \in 1..L : open[i] \in Numbers /\ open[i] \in Nat \ {0}
      /\ \A i \in 1..L, j \in 1..L : i < j => open[i] < open[j]
      /\ \A i \in 1..L : document[open[i]].parent = (IF i = 1 THEN 0 ELSE open[i - 1])
  BY <1>1, <1>4, OpenAreOrdered
<1>6. /\ \A m \in Numbers : m # n => document'[m] = document[m]
      /\ document'[n].parent = document[n].parent
  BY <1>1, <1>2, ElementClosed
<1>7. TextEnded(data, name, n, data')
  BY <1>1, <1>2, <1>3, TextLeft
<1>8. /\ DocumentIsTree /\ DocumentIsTree' /\ written \in Seq(Numbers) /\ data.text \in Seq(Int)
      /\ data'.decoy \in BOOLEAN /\ data.decoy \in BOOLEAN
  BY <1>4 DEF OpenInvariant, PathInvariant, ItemsAreThere, Data
<1>9. written' = IF IsXhtml(name) THEN Append(written, n) ELSE written
  BY <1>1, <1>2, <1>3 DEF End, Last
<1>10. Len(open') = L - 1
  <2>1. open' \in Seq(Nat)
    BY DEF PathInvariant, OpenAreNested
  <2> QED BY <1>4, <2>1
<1>11. LeafIsRead'
  <2> SUFFICES ASSUME open' # <<>>, Childless(open[Len(open)])' PROVE FALSE
    BY DEF LeafIsRead
  <2>1. L > 1
    <3>1. open' \in Seq(Nat)
      BY DEF PathInvariant, OpenAreNested
    <3> QED BY <1>4, <1>10, <3>1
  <2>2. L - 1 \in 1..L - 1 /\ L \in 1..L
    BY <1>4, <2>1
  <2>3. open'[Len(open')] = open[L - 1] /\ document[open[L]].parent = open[L - 1]
    BY <1>4, <1>5, <1>10, <2>1, <2>2
  <2> QED BY <1>2, <1>4, <1>6, <2>3 DEF Childless
<1>12. ASSUME NEW i \in 1..L - 1, ContentIs(i)'
       PROVE  /\ data'.decoy => Visible(data'.text) = TextOf(open[i])'
              /\ Attr(document'[open'[i]].attrs, "type") = <<Word.xhtml>> => data'.decoy = TRUE
  <2>1. i \in 1..L /\ L \in 1..L /\ i < L /\ open'[i] = open[i]
    BY <1>4
  <2>2. open[i] \in Numbers /\ open[i] # n /\ document'[open[i]] = document[open[i]]
    BY <1>2, <1>5, <1>6, <2>1
  <2>3. ContentIs(i)
    <3>1. i > 1 /\ document'[open'[i]].name \in AtomTexts /\ document'[open'[i - 1]].name \in ItemElements
      BY <1>12 DEF ContentIs
    <3>2. i - 1 \in 1..L - 1 /\ i - 1 \in 1..L /\ i - 1 < L
      BY <1>4, <3>1
    <3>3. open'[i - 1] = open[i - 1] /\ open[i - 1] \in Numbers /\ open[i - 1] # n
      BY <1>2, <1>4, <1>5, <2>1, <3>2
    <3>4. document'[open[i - 1]] = document[open[i - 1]]
      BY <1>6, <3>3
    <3> QED BY <1>4, <2>1, <2>2, <3>1, <3>3, <3>4 DEF ContentIs
  <2>4. ~(At(Left(data)) = "item")
    <3> SUFFICES ASSUME L > 1, document[open[L - 1]].name \in ItemElements PROVE FALSE
      BY <1>1, LeftIsAt
    <3>1. PICK k : k = L - 1
      OBVIOUS
    <3>2. k \in DOMAIN open /\ i <= k
      BY <1>4, <3>1
    <3> QED BY <1>4, <2>3, <3>1, <3>2, NoFrameInContent
  <2>5. data'.decoy = data.decoy
    BY <1>7, <2>4 DEF TextEnded
  <2>6. Attr(document'[open'[i]].attrs, "type") = <<Word.xhtml>> => data'.decoy = TRUE
    BY <1>4, <2>1, <2>2, <2>3, <2>5 DEF ContentIsRead
  <2>7. ASSUME data'.decoy PROVE Visible(data'.text) = TextOf(open[i])'
    <3>1. PICK m \in Numbers : m = open[i]
      BY <2>2
    <3>2. Visible(data.text) = TextOf(m) /\ data.decoy
      BY <1>4, <2>1, <2>3, <2>5, <2>7, <3>1 DEF ContentIsRead
    <3>3. n \in Numbers' /\ m \in Around'[n]
      <4>1. Around[n] = {open[j] : j \in 1..L}
        BY <1>2, <1>4, <2>1 DEF AroundIsOpen
      <4>2. Around'[n] = Around[n]
        BY <1>4, <1>8, AroundKept
      <4> QED BY <1>4, <2>1, <3>1, <4>1, <4>2
    <3>4. TextOf(m)' = IF IsXhtml(name) THEN Append(TextOf(m), n) ELSE TextOf(m)
      BY <1>4, <1>8, <1>9, <3>3, TextsGrow
    <3>5. PICK t \in Seq(Int) : t = trim_whitespace(data.text)
      <4>1. trim_whitespace(data.text) \in Seq(Int)
        BY <1>8, Trims
      <4> QED BY <4>1
    <3>6. data'.text = IF IsXhtml(name) THEN Append(t, n) ELSE t
      BY <1>7, <3>2, <3>5 DEF TextEnded
    <3>7. Visible(t) = Visible(data.text)
      BY <1>8, <3>5, VisibleTrimmed
    <3>8. Visible(Append(t, n)) = Append(Visible(t), n)
      <4>1. n \in Int /\ n > 0
        BY <1>2, <1>5, <2>1
      <4> QED BY <3>5, <4>1, VisibleAppend
    <3>9. Visible(data'.text) = TextOf(m)'
      BY <3>2, <3>4, <3>6, <3>7, <3>8
    <3>10. TextOf(m)' = TextOf(open[i])'
      <4>1. m = open'[i] /\ open'[i] = open[i]
        BY <2>1, <3>1
      <4> QED BY <3>1, <4>1
    <3> QED BY <3>9, <3>10
  <2> QED BY <2>6, <2>7
<1>13. \A i \in 1..L - 1 : open'[i] = open[i] 
  BY <1>4
<1> QED BY <1>4, <1>11, <1>12 DEF ContentIsRead

LEMMA TextRest ==
    ASSUME TextInvariant, document' = document, open' = open, written' = written, kind' = kind,
           data'.text = data.text, data'.decoy = data.decoy
    PROVE  TextInvariant'
<1>1. Numbers' = Numbers /\ Around' = Around
  BY DEF Numbers, Around
<1>2. IsXml' = IsXml /\ FitsPath' = FitsPath
  BY DEF IsXml, FitsPath, grammar
<1>3. IsFeed' = IsFeed
  BY <1>1, <1>2 DEF IsFeed
<1>4. \A m : TextOf(m)' = TextOf(m)
  BY <1>1 DEF TextOf
<1>5. \A m : Childless(m)' = Childless(m)
  BY <1>1 DEF Childless
<1>6. \A i : ContentIs(i)' = ContentIs(i)
  BY DEF ContentIs
<1>7. LeafIsRead => LeafIsRead'
  BY <1>4, <1>5 DEF LeafIsRead
<1>8. ContentIsRead => ContentIsRead'
  BY <1>4, <1>6 DEF ContentIsRead
<1> QED BY <1>2, <1>3, <1>7, <1>8 DEF TextInvariant

LEMMA TextHold == Spec => []TextInvariant
<1>1. Init => TextInvariant
  BY DEF Init, TextInvariant, LeafIsRead, ContentIsRead, ContentIs
<1>2. /\ PathInvariant /\ PathInvariant' /\ HomeInvariant /\ OpenInvariant /\ TextInvariant /\ [Next]_vars
      => TextInvariant'
  <2> SUFFICES ASSUME PathInvariant, PathInvariant', HomeInvariant, OpenInvariant, TextInvariant, [Next]_vars
               PROVE  TextInvariant'
    OBVIOUS
  <2>1. CASE Engage \/ Finish \/ UNCHANGED vars
    <3>1. /\ document' = document /\ open' = open /\ written' = written /\ kind' = kind
          /\ data' = data
      BY <2>1 DEF Engage, Finish, vars
    <3> QED BY <3>1, TextRest
  <2>2. ASSUME NEW name \in UNION {grammar.levels[i] : i \in DOMAIN grammar.levels},
               NEW attrs \in Attributes(name, Len(document) + 1), Start(name, attrs)
        PROVE  TextInvariant'
    <3>1. name \in STRING
      BY GrammarIs DEF PathInvariant, DocumentIsTree
    <3>2. IsXml /\ AroundIsOpen /\ (IsFeed' => IsFeed)
      BY <2>2, <3>1, StartsWithin DEF HomeInvariant
    <3>3. FitsPath' = FitsPath
      BY <2>2 DEF Start, FitsPath, grammar
    <3>4. IsFeed /\ FitsPath => TextIsOfHere /\ ContentIsRead
      BY <3>2 DEF TextInvariant, HomeInvariant
    <3>5. IsFeed' /\ FitsPath => LeafIsRead' /\ ContentIsRead'
      BY <2>2, <3>1, <3>2, <3>4, ReadStarts
    <3> QED BY <3>3, <3>5 DEF TextInvariant
  <2>3. ASSUME NEW token \in {Space, Delimiter} \cup 1..Len(document), Characters(token)
        PROVE  TextInvariant'
    <3>1. IsXml /\ AroundIsOpen /\ (IsFeed' => IsFeed)
      BY <2>3, TextHomes DEF HomeInvariant, PathInvariant, DocumentIsTree, Characters
    <3>2. FitsPath' = FitsPath
      BY <2>3 DEF Characters, FitsPath, grammar
    <3>3. LeafIsRead /\ ContentIsRead => LeafIsRead' /\ ContentIsRead'
      BY <2>3, <3>1, ReadTexts
    <3> QED BY <3>1, <3>2, <3>3 DEF TextInvariant
  <2>4. CASE End
    <3>1. IsXml /\ AroundIsOpen /\ (IsFeed' => IsFeed)
      BY <2>4, EndsWithin DEF HomeInvariant
    <3>2. FitsPath' = FitsPath
      BY <2>4 DEF End, FitsPath, grammar
    <3>3. IsFeed' /\ FitsPath => LeafIsRead' /\ ContentIsRead'
      BY <2>4, <3>1, ReadEnds DEF TextInvariant
    <3> QED BY <3>2, <3>3 DEF TextInvariant
  <2>5. ASSUME NEW row \in grammar.rows, Row(row) PROVE TextInvariant'
    <3>1. ~IsXml'
      <4>1. Len(document) + 1 = Len(document) + 1
        OBVIOUS
      <4> QED BY <2>5, <4>1, RowsWithin
    <3> QED BY <3>1 DEF TextInvariant
  <2> QED BY <2>1, <2>2, <2>3, <2>4, <2>5 DEF Next, Terminated
<1> QED BY <1>1, <1>2, PathHolds, HomeHolds, OpenHold, PTL DEF Spec

(* Items and feeds are in nothing but feeds and the root of RSS.              *)
LEMMA FramesAround ==
    ASSUME PathInvariant, IsXml, IsFeed, AroundIsOpen, NEW k \in DOMAIN open, NEW j \in DOMAIN open, j < k,
           document[open[k]].name \in ItemElements \cup FeedElements
    PROVE  document[open[j]].name \in FeedElements \cup {"rss"}
<1>1. PICK L : L = Len(open)
  OBVIOUS
<1>2. /\ L \in Nat /\ DOMAIN open = 1..L
      /\ \A i \in 1..L : open[i] \in Numbers
      /\ \A i \in 1..L, l \in 1..L : open[i] = open[l] => i = l
  BY <1>1, OpenAreOrdered
<1>3. j \in 1..k /\ j # k /\ k \in 1..L /\ j \in 1..L
  BY <1>2
<1>4. open[j] \in Around[open[k]] \ {open[k]}
  <2>1. Around[open[k]] = {open[i] : i \in 1..k}
    BY DEF AroundIsOpen
  <2> QED BY <1>2, <1>3, <2>1
<1> QED BY <1>2, <1>3, <1>4 DEF IsFeed

(* A person of an item or a feed that is open.                                *)
PersonIs(j) ==
    /\ j \in DOMAIN open /\ j > 1 /\ document[open[j]].name \in PersonElements
    /\ document[open[j - 1]].name \in ItemElements \cup FeedElements

LEMMA PersonsAreNoFrames == PersonElements \cap (ItemElements \cup FeedElements \cup {"rss"}) = {}
BY DEF PersonElements, ItemElements, FeedElements

LEMMA OnePersonIs ==
    ASSUME PathInvariant, IsXml, IsFeed, AroundIsOpen, NEW j, PersonIs(j)
    PROVE  \A k : PersonIs(k) => k = j
<1>1. PICK L : L = Len(open)
  OBVIOUS
<1>2. L \in Nat /\ DOMAIN open = 1..L
  BY <1>1, OpenAreOrdered
<1>3. ASSUME NEW k, NEW l, PersonIs(k), PersonIs(l), k < l PROVE FALSE
  <2>1. k \in 1..L /\ l \in 1..L /\ l > 1
    BY <1>2, <1>3 DEF PersonIs
  <2>2. PICK p : p = l - 1
    OBVIOUS
  <2>3. p \in 1..L /\ k <= p /\ p \in Int
    BY <1>2, <1>3, <2>1, <2>2
  <2>4. document[open[p]].name \in ItemElements \cup FeedElements /\ document[open[k]].name \in PersonElements
    BY <1>3, <2>2 DEF PersonIs
  <2>5. CASE k = p
    BY <2>4, <2>5, PersonsAreNoFrames
  <2>6. CASE k < p
    <3>1. document[open[k]].name \in FeedElements \cup {"rss"}
      BY <1>2, <2>1, <2>3, <2>4, <2>6, FramesAround
    <3> QED BY <2>4, <3>1, PersonsAreNoFrames
  <2> QED BY <2>1, <2>3, <2>5, <2>6
<1>4. ASSUME NEW k, PersonIs(k) PROVE k = j
  <2>1. k \in 1..L /\ j \in 1..L
    BY <1>2, <1>4 DEF PersonIs
  <2>2. ~(k < j) /\ ~(j < k)
    BY <1>3, <1>4
  <2> QED BY <1>2, <2>1, <2>2
<1> QED BY <1>4

(* The home of persons.                                                       *)
PersonsAreTyped == \A j : PersonIs(j) => LastTyped(data, Here)

IsLastPerson(n) == \A j : PersonIs(j) /\ Home(n) = Here => document[n].parent = open[j]

PersonsOfNames ==
    \A n \in Numbers : IsNameElement(n) =>
      PersonOf(data, Home(n), <<n>>) /\ (EarlierPerson(data, Home(n), <<n>>) \/ IsLastPerson(n))

NoStrays == \A n \in Numbers : ~IsStray(n)

LEMMA HereIsCounted ==
    ASSUME PathInvariant
    PROVE  Here \in 0..Len(data.items) /\ Here \in Int
<1>1. Len(data.items) \in Nat
  BY DataItems DEF PathInvariant, ItemsAreThere
<1> QED BY <1>1 DEF Here

(* What is closed gets no more text.                                          *)
LEMMA ClosedTexts ==
    ASSUME PathInvariant, PathInvariant', HomeInvariant, OpenInvariant, NEW m \in Numbers,
           document[m].open = FALSE,
           \/ \E name \in STRING : \E attrs \in Attributes(name, Len(document) + 1) : Start(name, attrs)
           \/ End
    PROVE  TextOf(m)' = TextOf(m)
<1>1. PICK L : L = Len(open)
  OBVIOUS
<1>2. ASSUME IsXml PROVE \A i \in DOMAIN open : open[i] # m
  BY <1>2 DEF OpenInvariant
<1>3. ASSUME NEW name \in STRING, NEW attrs \in Attributes(name, Len(document) + 1), Start(name, attrs)
      PROVE  TextOf(m)' = TextOf(m)
  <2>1. PICK n : n = Len(document) + 1
    OBVIOUS
  <2>2. /\ IsXml /\ IsXml' /\ Kept /\ n \notin Numbers /\ n \in Numbers' /\ DOMAIN open = 1..L
        /\ Around'[n] = {n} \cup {open[i] : i \in 1..L}
    BY <1>1, <1>3, <2>1, StartsWithin DEF HomeInvariant
  <2>3. written' = written \/ written' = Append(written, n)
    BY <1>3, <2>1 DEF Start
  <2>4. m \notin Around'[n]
    BY <1>2, <2>2
  <2>5. written \in Seq(Numbers) /\ DocumentIsTree /\ DocumentIsTree'
    BY <2>2 DEF OpenInvariant, PathInvariant
  <2> QED BY <2>2, <2>3, <2>4, <2>5, TextsGrow
<1>4. CASE End
  <2>1. PICK n : n = open[L]
    OBVIOUS
  <2>2. /\ IsXml /\ IsXml' /\ AroundIsOpen /\ Kept /\ n \in Numbers /\ Numbers' = Numbers
        /\ L \in Nat \ {0} /\ DOMAIN open = 1..L
    BY <1>1, <1>4, <2>1, EndsWithin DEF HomeInvariant
  <2>3. written' = written \/ written' = Append(written, n)
    BY <1>1, <1>4, <2>1 DEF End, Last
  <2>4. written \in Seq(Numbers) /\ DocumentIsTree /\ DocumentIsTree'
    BY <2>2 DEF OpenInvariant, PathInvariant
  <2>5. m \notin Around'[n]
    <3>1. L \in 1..L
      BY <2>2
    <3>2. Around[n] = {open[j] : j \in 1..L}
      BY <2>1, <2>2, <3>1 DEF AroundIsOpen
    <3>3. Around'[n] = Around[n]
      BY <2>2, <2>4, AroundKept
    <3> QED BY <1>2, <2>2, <3>2, <3>3
  <2> QED BY <2>2, <2>3, <2>4, <2>5, TextsGrow
<1> QED BY <1>3, <1>4

LEMMA ClosedTextsStay ==
    ASSUME PathInvariant, PathInvariant', HomeInvariant, OpenInvariant, NEW m \in Numbers,
           document[m].open = FALSE, NEW token \in {Space, Delimiter} \cup 1..Len(document), Characters(token)
    PROVE  TextOf(m)' = TextOf(m)
<1>1. PICK L : L = Len(open)
  OBVIOUS
<1>2. /\ document' = document /\ open' = open /\ kind' = kind /\ open # <<>>
      /\ token \in {Last(open)} \cup grammar.noise /\ grammar.noise \subseteq {Space, Delimiter}
      /\ IsXml /\ DocumentIsTree /\ DocumentIsTree'
  BY GrammarIs DEF Characters, PathInvariant, DocumentIsTree
<1>3. IsXml' /\ Numbers' = Numbers /\ Kept
  BY <1>2 DEF IsXml, grammar, Numbers, Kept
<1>4. /\ L \in Nat /\ DOMAIN open = 1..L /\ \A i \in 1..L : open[i] \in Numbers /\ open[i] \in Nat \ {0}
  BY <1>1, <1>2, OpenAreOrdered
<1>5. L \in 1..L
  BY <1>1, <1>2, <1>4 DEF PathInvariant, OpenAreNested
<1>6. token \in Int /\ (token > 0 => token = open[L])
  BY <1>1, <1>2, <1>4, <1>5 DEF Last, Space, Delimiter
<1>7. written' = (IF token > 0 THEN Append(written, token) ELSE written) /\ written \in Seq(Numbers)
  BY <1>2 DEF Characters, OpenInvariant
<1>8. token > 0 => token \in Numbers' /\ m \notin Around'[token]
  <2>1. Around[open[L]] = {open[j] : j \in 1..L}
    BY <1>2, <1>4, <1>5 DEF AroundIsOpen, HomeInvariant
  <2>2. Around'[open[L]] = Around[open[L]]
    BY <1>2, <1>3, <1>4, <1>5, AroundKept
  <2>3. \A i \in DOMAIN open : open[i] # m
    BY <1>2 DEF OpenInvariant
  <2> QED BY <1>3, <1>4, <1>5, <1>6, <2>1, <2>2, <2>3
<1> QED BY <1>2, <1>3, <1>7, <1>8, TextsGrow

(* An element with a name was one when it ended.                              *)
LEMMA NameKept ==
    ASSUME IsXml, DocumentIsTree, Kept, NEW m \in Numbers, document[m].open = FALSE,
           TextOf(m)' = TextOf(m), IsNameElement(m)'
    PROVE  IsNameElement(m)
<1>1. PlaceOf(m)' = PlaceOf(m) /\ (IsStray(m)' <=> IsStray(m)) /\ document'[m].name = document[m].name
  BY PlacesKept DEF Kept
<1>2. Childless(m)' => Childless(m)
  BY DEF Childless, Kept
<1>3. ASSUME NEW k \in Numbers, k > m, document[k].name = "atom:name"
      PROVE  document[k].parent # document[m].parent
  <2>1. /\ k \in Numbers' /\ document'[k].name = document[k].name
        /\ document'[k].parent = document[k].parent /\ document'[m].parent = document[m].parent
    BY DEF Kept
  <2> QED BY <1>3, <2>1 DEF IsNameElement
<1> QED BY <1>1, <1>2, <1>3 DEF IsNameElement

LEMMA StraysKept ==
    ASSUME IsXml, DocumentIsTree, Kept, NoStrays'
    PROVE  NoStrays
BY PlacesKept DEF NoStrays, Kept

(* What an entry of persons more changes, and more of the last entry.         *)
LEMMA PersonNew ==
    ASSUME NEW d, NEW e, ListsAreFormed(d), NEW h \in Int, PersonEntered(d, e, h), NEW k \in 0..Len(d.items)
    PROVE  /\ \A u : /\ EarlierPerson(d, k, u) => EarlierPerson(e, k, u) /\ PersonOf(e, k, u)
                     /\ PersonOf(d, k, u) => PersonOf(e, k, u) /\ (k = h => EarlierPerson(e, k, u))
           /\ k = h => LastTyped(e, k)
           /\ LastTyped(d, k) => LastTyped(e, k)
<1>0. PICK fields \in Seq(Field) : /\ PersonsChange(d, e, h, TRUE, fields)
                                   /\ \E v : IsWord(v) /\ Has(fields, Key.type, v)
  BY DEF PersonEntered, PersonsChange
<1>1. PICK v : PersonsChange(d, e, h, TRUE, fields) /\ IsWord(v) /\ Has(fields, Key.type, v)
  BY <1>0
<1>2. PICK new \in BOOLEAN : new = TRUE
  OBVIOUS
<1>3. PersonsChange(d, e, h, new, fields)
  BY <1>1, <1>2
<1>4. \A u : PersonsAfter(d, e, h, new, fields, k, u)
  BY <1>3, PersonsChanged
<1>5. k = h => LastTyped(e, k)
  BY <1>1, <1>3, PersonTyped
<1> QED BY <1>2, <1>4, <1>5 DEF PersonsAfter

LEMMA PersonMore ==
    ASSUME NEW d, NEW e, ListsAreFormed(d), NEW h \in Int, NEW fields \in Seq(Field),
           PersonsChange(d, e, h, FALSE, fields), Lacks(fields, Key.type), NEW k \in 0..Len(d.items)
    PROVE  /\ \A u : /\ EarlierPerson(d, k, u) => EarlierPerson(e, k, u) /\ PersonOf(e, k, u)
                     /\ PersonOf(d, k, u) /\ (k # h \/ Lacks(fields, Key.name)) => PersonOf(e, k, u)
           /\ LastTyped(d, k) => LastTyped(e, k)
<1>1. PICK new \in BOOLEAN : new = FALSE
  OBVIOUS
<1>2. PersonsChange(d, e, h, new, fields)
  BY <1>1
<1>3. \A u : PersonsAfter(d, e, h, new, fields, k, u)
  BY <1>2, PersonsChanged
<1> QED BY <1>1, <1>3 DEF PersonsAfter

(* The home of what is met now changes with items alone.                      *)
LEMMA HereStarts ==
    ASSUME PathInvariant, PathInvariant', HomeInvariant, HomeInvariant', IsFeed', FitsPath, NEW name \in STRING,
           name \notin ItemElements, NEW attrs \in Attributes(name, Len(document) + 1), Start(name, attrs)
    PROVE  Here' = Here
<1>1. PICK n : n = Len(document) + 1
  OBVIOUS
<1>2. PICK L : L = Len(open)
  OBVIOUS
<1>3. /\ IsXml /\ IsXml' /\ Kept /\ n \notin Numbers /\ n \in Numbers' /\ IsFeed
      /\ L \in Nat /\ DOMAIN open = 1..L /\ DOMAIN open' = 1..L + 1
      /\ \A i \in 1..L : open'[i] = open[i] /\ open[i] \in Numbers
      /\ open'[L + 1] = n /\ document'[n].name = name
  BY <1>1, <1>2, StartsWithin DEF HomeInvariant
<1>4. FitsPath'
  BY DEF Start, FitsPath, grammar
<1>5. data.in_item <=> \E i \in 1..L : open[i] \in ItemNumbers
  BY <1>3 DEF HomeInvariant, ItemsAreCounted
<1>6. data'.in_item <=> \E i \in 1..L + 1 : open'[i] \in ItemNumbers'
  BY <1>3, <1>4 DEF HomeInvariant, ItemsAreCounted
<1>7. \A i \in 1..L : open'[i] \in ItemNumbers' <=> open[i] \in ItemNumbers
  BY <1>3 DEF ItemNumbers, Kept
<1>8. open'[L + 1] \notin ItemNumbers'
  BY <1>3 DEF ItemNumbers
<1>9. data'.in_item <=> data.in_item
  BY <1>3, <1>5, <1>6, <1>7, <1>8
<1>10. Len(data'.items) = Len(data.items)
  BY ElementStep DEF ListsStart, PersonEntered, Changes
<1> QED BY <1>9, <1>10 DEF Here

LEMMA HereEnds ==
    ASSUME PathInvariant, PathInvariant', HomeInvariant, HomeInvariant', IsFeed', FitsPath, End,
           document[open[Len(open)]].name \notin ItemElements
    PROVE  Here' = Here
<1>2. PICK L : L = Len(open)
  OBVIOUS
<1>1. PICK n : n = open[L]
  OBVIOUS
<1>3. /\ IsXml /\ IsXml' /\ n \in Numbers /\ Numbers' = Numbers /\ IsFeed
      /\ L \in Nat \ {0} /\ DOMAIN open = 1..L /\ DOMAIN open' = 1..L - 1
      /\ \A i \in 1..L - 1 : open'[i] = open[i]
      /\ ItemNumbers' = ItemNumbers
  BY <1>1, <1>2, EndsWithin DEF HomeInvariant
<1>4. FitsPath'
  BY DEF End, FitsPath, grammar
<1>5. data.in_item <=> \E i \in 1..L : open[i] \in ItemNumbers
  BY <1>3 DEF HomeInvariant, ItemsAreCounted
<1>6. data'.in_item <=> \E i \in 1..L - 1 : open'[i] \in ItemNumbers'
  BY <1>3, <1>4 DEF HomeInvariant, ItemsAreCounted
<1>7. open[L] \notin ItemNumbers
  BY <1>2 DEF ItemNumbers
<1>8. \A i \in 1..L : i = L \/ i \in 1..L - 1
  BY <1>3
<1>9. \A i \in 1..L - 1 : i \in 1..L
  BY <1>3
<1>10. data'.in_item <=> data.in_item
  BY <1>3, <1>5, <1>6, <1>7, <1>8, <1>9
<1>11. Len(data'.items) = Len(data.items)
  <2>1. PICK d : d = Left(data)
    OBVIOUS
  <2>2. PICK name : name = document[open[Len(open)]].name
    OBVIOUS
  <2>3. ListsEnded(d, name, data')
    BY <2>1, <2>2, EndStep
  <2>4. Len(data'.items) = Len(d.items)
    BY <2>3 DEF ListsEnded, Attaches, Changes
  <2>5. SameLists(data, d)
    BY <2>1, LeftTargets
  <2> QED BY <2>4, <2>5 DEF SameLists
<1> QED BY <1>10, <1>11 DEF Here

LEMMA OpenIsTold ==
    ASSUME PathInvariant, IsXml
    PROVE  \A m \in Numbers : document[m].open \in BOOLEAN /\ document[m].name \in STRING
<1>1. document \in Seq(Elements)
  BY DEF PathInvariant, DocumentIsTree
<1>2. \A m \in Numbers : document[m] \in Elements
  BY <1>1 DEF Numbers
<1> QED BY <1>2 DEF Elements

(* A person of an item or feed becomes one of its home.                       *)
LEMMA PersonHomeIs ==
    ASSUME PathInvariant, IsXml, AroundIsOpen, ItemsAreCounted, IsFeed, FitsPath,
           NEW L, L = Len(open), L > 0, document[open[L]].name \in ItemElements \cup FeedElements,
           NEW name \in PersonElements
    PROVE  PersonHome(data, name) = Here
<1>1. L \in Nat /\ DOMAIN open = 1..L /\ L \in 1..L /\ L \in 0..L
  BY OpenAreOrdered
<1>2. data.depth = L /\ data.path[L] = Position(document[open[L]].name)
  BY <1>1 DEF PathInvariant, PathIsOfOpen
<1>3. \A i \in L + 1..L : open[i] \notin ItemNumbers
  BY <1>1
<1>4. /\ data.path[L] = "GENERIC_ITEM" => data.in_item
      /\ data.path[L] = "GENERIC_FEED" => ~data.in_item
  BY <1>1, <1>3, PlaceDecides
<1>5. data.path[L] \in {"GENERIC_ITEM", "GENERIC_FEED"}
  BY <1>2, PositionIs
<1>6. PersonHome(data, name) = HomeOf(data, At(data))
  BY DEF PersonHome
<1>7. CASE data.path[L] = "GENERIC_ITEM"
  BY <1>2, <1>4, <1>6, <1>7 DEF At, HomeOf, Here
<1>8. CASE data.path[L] = "GENERIC_FEED"
  BY <1>2, <1>4, <1>6, <1>8 DEF At, HomeOf, Here
<1> QED BY <1>5, <1>7, <1>8

LEMMA NamesStart ==
    ASSUME PathInvariant, PathInvariant', HomeInvariant, HomeInvariant', OpenInvariant, ListsAreFormed(data),
           IsFeed', FitsPath, PersonsAreTyped, PersonsOfNames, NEW name \in STRING, name \notin ItemElements,
           NEW attrs \in Attributes(name, Len(document) + 1), Start(name, attrs)
    PROVE  PersonsAreTyped' /\ PersonsOfNames'
<1>1. PICK n : n = Len(document) + 1
  OBVIOUS
<1>2. PICK L : L = Len(open)
  OBVIOUS
<1>3. /\ IsXml /\ IsXml' /\ Kept /\ n \notin Numbers /\ n \in Numbers' /\ IsFeed
      /\ Numbers' = Numbers \cup {n} /\ L \in Nat /\ DOMAIN open = 1..L /\ DOMAIN open' = 1..L + 1
      /\ \A i \in 1..L : open'[i] = open[i] /\ open[i] \in Numbers
      /\ open'[L + 1] = n /\ document'[n].name = name /\ \A m \in Numbers : Home(m)' = Home(m)
  BY <1>1, <1>2, StartsWithin DEF HomeInvariant
<1>4. document'[n].open = TRUE /\ \A m \in Numbers : document'[m] = document[m]
  <2>1. NewElement(n, L, name, attrs)
    BY <1>1, <1>2, ElementBegun
  <2> QED BY <2>1 DEF NewElement
<1>5. Here' = Here /\ Here \in 0..Len(data.items) /\ Here \in Int /\ AroundIsOpen /\ ItemsAreCounted
  BY <1>3, HereStarts, HereIsCounted DEF HomeInvariant
<1>6. PICK h \in Int : h = PersonHome(data, name) /\ PersonEntered(data, data', h)
  <2>1. PersonHome(data, name) \in Int
    BY HomesAreInt DEF PersonHome, PathInvariant, ItemsAreThere
  <2> QED BY <2>1, ElementStep DEF ListsStart
<1>7. ASSUME NEW j, PersonIs(j)' PROVE PersonIs(j) \/ h = Here
  <2>1. /\ j \in 1..L + 1 /\ j > 1 /\ document'[open'[j]].name \in PersonElements
        /\ document'[open'[j - 1]].name \in ItemElements \cup FeedElements
    BY <1>3, <1>7 DEF PersonIs
  <2>2. j - 1 \in 1..L
    BY <1>3, <2>1
  <2>3. PICK p \in 1..L : p = j - 1
    BY <2>2
  <2>4. document[open[p]].name \in ItemElements \cup FeedElements
    BY <1>3, <1>4, <2>1, <2>3
  <2>5. CASE j \in 1..L
    BY <1>3, <1>4, <2>1, <2>3, <2>4, <2>5 DEF PersonIs
  <2>6. CASE j = L + 1
    <3>1. p = L /\ L > 0 /\ name \in PersonElements
      BY <1>3, <2>1, <2>3, <2>6
    <3> QED BY <1>2, <1>3, <1>5, <1>6, <2>4, <3>1, PersonHomeIs
  <2> QED BY <1>3, <2>1, <2>5, <2>6
<1>8. PersonsAreTyped'
  <2> SUFFICES ASSUME NEW j, PersonIs(j)' PROVE LastTyped(data', Here')
    BY DEF PersonsAreTyped
  <2>1. LastTyped(data, Here) \/ h = Here
    BY <1>7 DEF PersonsAreTyped
  <2>2. LastTyped(data', Here)
    BY <1>5, <1>6, <2>1, PersonNew
  <2> QED BY <1>5, <2>2
<1>9. ASSUME NEW m \in Numbers, IsNameElement(m)'
      PROVE  PersonOf(data', Home(m)', <<m>>) /\ (EarlierPerson(data', Home(m)', <<m>>) \/ IsLastPerson(m)')
  <2>1. document[m].open = FALSE
    <3>1. document'[m] = document[m] /\ ~document'[m].open
      BY <1>4, <1>9 DEF IsNameElement
    <3> QED BY <1>3, <3>1, OpenIsTold
  <2>2. TextOf(m)' = TextOf(m)
    BY <2>1, ClosedTexts
  <2>3. IsNameElement(m)
    BY <1>3, <1>9, <2>1, <2>2, NameKept DEF PathInvariant
  <2>4. PICK u : u = <<m>>
    OBVIOUS
  <2>5. PICK k : k = Home(m)
    OBVIOUS
  <2>6. /\ PersonOf(data, k, u) /\ (EarlierPerson(data, k, u) \/ IsLastPerson(m))
        /\ k \in 0..Len(data.items) /\ Home(m)' = k
    BY <1>3, <2>3, <2>4, <2>5, HomeIsCounted DEF PersonsOfNames
  <2>7. /\ PersonOf(data', k, u) /\ (k = h => EarlierPerson(data', k, u))
        /\ EarlierPerson(data, k, u) => EarlierPerson(data', k, u)
    BY <1>6, <2>6, PersonNew
  <2>8. ASSUME k # h, IsLastPerson(m) PROVE IsLastPerson(m)'
    <3> SUFFICES ASSUME NEW j, PersonIs(j)', Home(m)' = Here' PROVE document'[m].parent = open'[j]
      BY DEF IsLastPerson
    <3>1. PersonIs(j)
      BY <1>5, <1>7, <2>6, <2>8
    <3>2. document[m].parent = open[j] /\ j \in 1..L
      BY <1>3, <1>5, <2>5, <2>6, <2>8, <3>1 DEF IsLastPerson, PersonIs
    <3> QED BY <1>3, <1>4, <3>2
  <2> QED BY <2>4, <2>6, <2>7, <2>8
<1>10. ~IsNameElement(n)'
  BY <1>4 DEF IsNameElement
<1> QED BY <1>3, <1>8, <1>9, <1>10 DEF PersonsOfNames

LEMMA NamesStartItem ==
    ASSUME PathInvariant, PathInvariant', HomeInvariant, HomeInvariant', OpenInvariant, ListsAreFormed(data),
           IsFeed', FitsPath, PersonsOfNames, NEW name \in STRING, name \in ItemElements,
           NEW attrs \in Attributes(name, Len(document) + 1), Start(name, attrs)
    PROVE  PersonsAreTyped' /\ PersonsOfNames'
<1>1. PICK n : n = Len(document) + 1
  OBVIOUS
<1>2. PICK L : L = Len(open)
  OBVIOUS
<1>3. /\ IsXml /\ IsXml' /\ Kept /\ n \notin Numbers /\ n \in Numbers' /\ IsFeed
      /\ Numbers' = Numbers \cup {n} /\ L \in Nat /\ DOMAIN open = 1..L /\ DOMAIN open' = 1..L + 1
      /\ \A i \in 1..L : open'[i] = open[i] /\ open[i] \in Numbers
      /\ open'[L + 1] = n /\ document'[n].name = name /\ \A m \in Numbers : Home(m)' = Home(m)
      /\ Around'[n] = {n} \cup {open[i] : i \in 1..L}
  BY <1>1, <1>2, StartsWithin DEF HomeInvariant
<1>4. document'[n].open = TRUE /\ \A m \in Numbers : document'[m] = document[m]
  <2>1. NewElement(n, L, name, attrs)
    BY <1>1, <1>2, ElementBegun
  <2> QED BY <2>1 DEF NewElement
<1>5. ASSUME NEW j, PersonIs(j)' PROVE FALSE
  <2>1. j \in 1..L + 1 /\ document'[open'[j]].name \in PersonElements
    BY <1>3, <1>5 DEF PersonIs
  <2>2. CASE j \in 1..L
    <3>1. open[j] \in Around'[n] \ {n} /\ open[j] \in Numbers
      BY <1>3, <2>2
    <3>2. document'[open[j]].name \in FeedElements \cup {"rss"}
      BY <1>3, <3>1 DEF IsFeed
    <3>3. open'[j] = open[j]
      BY <1>3, <2>2
    <3> QED BY <2>1, <3>2, <3>3, PersonsAreNoFrames
  <2>3. CASE j = L + 1
    BY <1>3, <2>1, <2>3, PersonsAreNoFrames
  <2> QED BY <1>3, <2>1, <2>2, <2>3
<1>6. PersonsAreTyped'
  BY <1>5 DEF PersonsAreTyped
<1>7. ASSUME NEW m \in Numbers, IsNameElement(m)'
      PROVE  PersonOf(data', Home(m)', <<m>>) /\ (EarlierPerson(data', Home(m)', <<m>>) \/ IsLastPerson(m)')
  <2>1. document[m].open = FALSE
    <3>1. document'[m] = document[m] /\ ~document'[m].open
      BY <1>4, <1>7 DEF IsNameElement
    <3> QED BY <1>3, <3>1, OpenIsTold
  <2>2. TextOf(m)' = TextOf(m)
    BY <2>1, ClosedTexts
  <2>3. IsNameElement(m)
    BY <1>3, <1>7, <2>1, <2>2, NameKept DEF PathInvariant
  <2>4. PICK u : u = <<m>>
    OBVIOUS
  <2>5. PICK k : k = Home(m)
    OBVIOUS
  <2>6. PersonOf(data, k, u) /\ k \in 0..Len(data.items) /\ Home(m)' = k
    BY <1>3, <2>3, <2>4, <2>5, HomeIsCounted DEF PersonsOfNames
  <2>7. PersonOf(data', k, u)
    BY <2>6, ItemStep, PersonsBegun
  <2>8. IsLastPerson(m)'
    BY <1>5 DEF IsLastPerson
  <2> QED BY <2>4, <2>6, <2>7, <2>8
<1>8. ~IsNameElement(n)'
  BY <1>4 DEF IsNameElement
<1> QED BY <1>3, <1>6, <1>7, <1>8 DEF PersonsOfNames

(* Elements with a name that have ended before.                               *)
LEMMA OldNames ==
    ASSUME PathInvariant, PathInvariant', HomeInvariant, OpenInvariant, End, NEW L, L = Len(open),
           NEW m \in Numbers, m # open[L], IsNameElement(m)'
    PROVE  /\ IsNameElement(m) /\ document[m].open = FALSE /\ Home(m)' = Home(m)
           /\ document'[m].parent = document[m].parent
<1>1. PICK n : n = open[L]
  OBVIOUS
<1>2. IsXml /\ Kept /\ \A k \in Numbers : Home(k)' = Home(k)
  BY <1>1, EndsWithin DEF HomeInvariant
<1>3. document'[m] = document[m]
  BY <1>1, ElementClosed
<1>4. document[m].open = FALSE
  <2>1. ~document'[m].open
    BY DEF IsNameElement
  <2> QED BY <1>2, <1>3, <2>1, OpenIsTold
<1>5. TextOf(m)' = TextOf(m)
  BY <1>4, ClosedTexts
<1>6. IsNameElement(m)
  BY <1>2, <1>4, <1>5, NameKept DEF PathInvariant
<1> QED BY <1>2, <1>3, <1>4, <1>6

(* Persons that are still open.                                               *)
LEMMA PersonsStayOpen ==
    ASSUME PathInvariant, PathInvariant', HomeInvariant, End, NEW L, L = Len(open), NEW j, PersonIs(j)'
    PROVE  PersonIs(j) /\ j \in 1..L - 1 /\ open'[j] = open[j]
<1>1. PICK n : n = open[L]
  OBVIOUS
<1>2. /\ IsXml /\ Kept /\ L \in Nat \ {0} /\ DOMAIN open = 1..L /\ DOMAIN open' = 1..L - 1
      /\ \A i \in 1..L - 1 : open'[i] = open[i]
      /\ \A i \in 1..L : open[i] \in Numbers
  BY <1>1, EndsWithin DEF HomeInvariant
<1>3. /\ j \in 1..L - 1 /\ j > 1 /\ document'[open'[j]].name \in PersonElements
      /\ document'[open'[j - 1]].name \in ItemElements \cup FeedElements
  BY <1>2 DEF PersonIs
<1>4. j \in 1..L /\ j - 1 \in 1..L - 1 /\ j - 1 \in 1..L
  BY <1>2, <1>3
<1>5. open'[j] = open[j] /\ open'[j - 1] = open[j - 1] /\ open[j] \in Numbers /\ open[j - 1] \in Numbers
  BY <1>2, <1>3, <1>4
<1>6. document'[open[j]].name = document[open[j]].name /\ document'[open[j - 1]].name = document[open[j - 1]].name
  BY <1>2, <1>5 DEF Kept
<1> QED BY <1>2, <1>3, <1>4, <1>5, <1>6 DEF PersonIs

(* The last person of old elements stays the last one if none is begun.       *)
LEMMA LastPersonStays ==
    ASSUME PathInvariant, PathInvariant', HomeInvariant, End, NEW m \in Numbers, Home(m)' = Home(m),
           document'[m].parent = document[m].parent, Here' = Here, IsLastPerson(m)
    PROVE  IsLastPerson(m)'
<1>1. PICK L : L = Len(open)
  OBVIOUS
<1>2. SUFFICES ASSUME NEW j, PersonIs(j)', Home(m)' = Here' PROVE document'[m].parent = open'[j]
  BY DEF IsLastPerson
<1>3. PersonIs(j) /\ open'[j] = open[j]
  BY <1>1, <1>2, PersonsStayOpen
<1> QED BY <1>2, <1>3 DEF IsLastPerson

LEMMA NamesEndItem ==
    ASSUME PathInvariant, PathInvariant', HomeInvariant, OpenInvariant, IsFeed', FitsPath,
           PersonsOfNames, End, document[open[Len(open)]].name \in ItemElements
    PROVE  PersonsAreTyped' /\ PersonsOfNames'
<1>1. PICK L : L = Len(open)
  OBVIOUS
<1>2. PICK n : n = open[L]
  OBVIOUS
<1>3. /\ IsXml /\ Numbers' = Numbers /\ IsFeed /\ L \in Nat \ {0} /\ DOMAIN open = 1..L /\ AroundIsOpen
      /\ n \in Numbers /\ document'[n].name = document[n].name
  BY <1>1, <1>2, EndsWithin DEF HomeInvariant, Kept
<1>4. ASSUME NEW j, PersonIs(j)' PROVE FALSE
  <2>1. PersonIs(j) /\ j \in 1..L - 1
    BY <1>1, <1>4, PersonsStayOpen
  <2>2. j \in DOMAIN open /\ L \in DOMAIN open /\ j < L
    BY <1>3, <2>1
  <2>3. document[open[j]].name \in FeedElements \cup {"rss"}
    BY <1>1, <1>3, <2>2, FramesAround
  <2> QED BY <2>1, <2>3, PersonsAreNoFrames DEF PersonIs
<1>5. PersonsAreTyped'
  BY <1>4 DEF PersonsAreTyped
<1>6. SameLists(data, data')
  <2>1. PICK name : name = document[open[Len(open)]].name
    OBVIOUS
  <2>2. PICK d : d = Left(data)
    OBVIOUS
  <2> QED BY <2>1, <2>2, EndStep
<1>7. ASSUME NEW m \in Numbers, IsNameElement(m)'
      PROVE  PersonOf(data', Home(m)', <<m>>) /\ (EarlierPerson(data', Home(m)', <<m>>) \/ IsLastPerson(m)')
  <2>1. m # n
    BY <1>1, <1>2, <1>3, <1>7 DEF IsNameElement, ItemElements
  <2>2. IsNameElement(m) /\ Home(m)' = Home(m)
    BY <1>1, <1>2, <1>7, <2>1, OldNames
  <2>3. PICK u : u = <<m>>
    OBVIOUS
  <2>4. PICK k : k = Home(m)
    OBVIOUS
  <2>5. PersonOf(data, k, u)
    BY <2>2, <2>3, <2>4 DEF PersonsOfNames
  <2>6. PersonOf(data', k, u)
    <3>1. ListOf(data', k, "persons") = ListOf(data, k, "persons")
      BY <1>6 DEF SameLists, ListOf
    <3> QED BY <2>5, <3>1, PersonsUntouched
  <2>7. IsLastPerson(m)'
    BY <1>4 DEF IsLastPerson
  <2> QED BY <2>2, <2>3, <2>4, <2>6, <2>7
<1> QED BY <1>3, <1>5, <1>7 DEF PersonsOfNames

(* The end of an element that may add a person.                               *)
LEMMA NamesEndPerson ==
    ASSUME PathInvariant, PathInvariant', HomeInvariant, HomeInvariant', OpenInvariant, ListsAreFormed(data),
           IsFeed', FitsPath, PersonsAreTyped, PersonsOfNames, End,
           document[open[Len(open)]].name \notin ItemElements, NEW h \in Int, PersonEntered(data, data', h),
           NEW n, n = open[Len(open)], ~IsNameElement(n)'
    PROVE  PersonsAreTyped' /\ PersonsOfNames'
<1>1. PICK L : L = Len(open)
  OBVIOUS
<1>2. n = open[L]
  BY <1>1
<1>3. /\ IsXml /\ Numbers' = Numbers /\ IsFeed /\ L \in Nat \ {0} /\ DOMAIN open = 1..L
      /\ \A i \in 1..L - 1 : open'[i] = open[i]
  BY <1>1, <1>2, EndsWithin DEF HomeInvariant
<1>4. Here' = Here /\ Here \in 0..Len(data.items)
  BY HereEnds, HereIsCounted
<1>5. PersonsAreTyped'
  <2> SUFFICES ASSUME NEW j, PersonIs(j)' PROVE LastTyped(data', Here')
    BY DEF PersonsAreTyped
  <2>1. LastTyped(data, Here)
    BY <1>1, PersonsStayOpen DEF PersonsAreTyped
  <2>2. LastTyped(data', Here)
    BY <1>4, <2>1, PersonNew
  <2> QED BY <1>4, <2>2
<1>6. ASSUME NEW m \in Numbers, IsNameElement(m)'
      PROVE  PersonOf(data', Home(m)', <<m>>) /\ (EarlierPerson(data', Home(m)', <<m>>) \/ IsLastPerson(m)')
  <2>1. m # n
    BY <1>6
  <2>2. IsNameElement(m) /\ Home(m)' = Home(m) /\ document'[m].parent = document[m].parent
    BY <1>1, <1>2, <1>6, <2>1, OldNames
  <2>3. PICK u : u = <<m>>
    OBVIOUS
  <2>4. PICK k : k = Home(m)
    OBVIOUS
  <2>5. PersonOf(data, k, u) /\ (EarlierPerson(data, k, u) \/ IsLastPerson(m)) /\ k \in 0..Len(data.items)
    BY <1>3, <2>2, <2>3, <2>4, HomeIsCounted DEF PersonsOfNames
  <2>6. PersonOf(data', k, u) /\ (EarlierPerson(data, k, u) => EarlierPerson(data', k, u))
    BY <2>5, PersonNew
  <2>7. IsLastPerson(m) => IsLastPerson(m)'
    BY <1>4, <2>2, LastPersonStays
  <2> QED BY <2>2, <2>3, <2>4, <2>5, <2>6, <2>7
<1> QED BY <1>3, <1>5, <1>6 DEF PersonsOfNames

LEMMA PersonPosition ==
    ASSUME NEW name
    PROVE  Position(name) = "ATOM_AUTHOR" => name \in PersonElements
BY DEF Position

(* A datum of a person of an item or feed that ends.                          *)
LEMMA DatumIsOfPerson ==
    ASSUME PathInvariant, PathInvariant', AroundIsOpen, FitsPath, NoStrays, End, NEW L, L = Len(open),
           NEW n, n = open[L], document[n].name \in DatumElements, data.path[L - 1] = "ATOM_AUTHOR"
    PROVE  L > 2 /\ PersonIs(L - 1) /\ document[n].parent = open[L - 1]
<1>1. /\ IsXml /\ n \in Numbers /\ L \in Nat \ {0} /\ DOMAIN open = 1..L
      /\ \A i \in 1..L : document[open[i]].parent = (IF i = 1 THEN 0 ELSE open[i - 1])
      /\ \A i \in 1..L : open[i] \in Numbers /\ open[i] \in Nat \ {0}
  BY EndsWithin, OpenAreOrdered
<1>2. /\ data.path[0] = "XML_UNKNOWN_POS"
      /\ \A i \in 1..L : data.path[i] = Position(document[open[i]].name)
  BY <1>1 DEF PathInvariant, PathIsOfOpen
<1>3. L > 1
  BY <1>1, <1>2
<1>4. PICK p : p = L - 1
  OBVIOUS
<1>5. p \in 1..L /\ L \in 1..L
  BY <1>1, <1>3, <1>4
<1>6. document[open[p]].name \in PersonElements
  BY <1>2, <1>4, <1>5, PersonPosition
<1>7. PlaceOf(n) = "ATOM_AUTHOR" /\ document[n].parent = open[p]
  <2>1. PlaceOf(n) = data.path[L - 1]
    BY ElementClosed
  <2>2. document[open[L]].parent = open[L - 1]
    BY <1>1, <1>3, <1>5
  <2> QED BY <1>4, <2>1, <2>2
<1>8. PlaceOf(open[p]) \in {"GENERIC_ITEM", "GENERIC_FEED"}
  BY <1>1, <1>7 DEF NoStrays, IsStray
<1>9. PlaceOf(open[p]) = IF document[open[p]].parent = 0 THEN "XML_UNKNOWN_POS"
                         ELSE Position(document[document[open[p]].parent].name)
  BY DEF PlaceOf
<1>10. p > 1
  BY <1>1, <1>5, <1>8, <1>9
<1>11. document[open[p - 1]].name \in ItemElements \cup FeedElements
  <2>1. document[open[p]].parent = open[p - 1] /\ p - 1 \in 1..L
    BY <1>1, <1>5, <1>10
  <2>2. PlaceOf(open[p]) = Position(document[open[p - 1]].name)
    BY <1>1, <1>9, <2>1
  <2> QED BY <1>8, <2>2, PositionIs
<1>12. PersonIs(p)
  BY <1>1, <1>5, <1>6, <1>10, <1>11 DEF PersonIs
<1> QED BY <1>4, <1>5, <1>7, <1>10, <1>12

(* What it changes.                                                           *)
LEMMA DatumChanges ==
    ASSUME PathInvariant, FitsPath, End, NEW L, L = Len(open), L > 1, L \in Nat,
           NEW name \in DatumElements, name = document[open[L]].name, data.path[L - 1] = "ATOM_AUTHOR"
    PROVE  \E fields \in Seq(Field), v \in Seq(Int) :
             /\ PersonsChange(data, data', Here, FALSE, fields)
             /\ Lacks(fields, Key.type)
             /\ IF name = "atom:name" THEN Has(fields, Key.name, v) ELSE Lacks(fields, Key.name)
             /\ Visible(v) = Visible(data.text)
<1>1. PICK d : d = Left(data)
  OBVIOUS
<1>2. /\ SameLists(data, d) /\ d.path = data.path /\ d.depth = Shallower(data) /\ d.in_item = data.in_item
      /\ d.text \in Seq(Int)
  BY <1>1, LeftTargets
<1>3. d.path[d.depth] = "ATOM_AUTHOR"
  <2>1. data.depth = L
    <3>1. DOMAIN open = 1..L
      BY DEF PathInvariant, OpenAreNested
    <3> QED BY DEF PathInvariant, PathIsOfOpen
  <2> QED BY <1>2, <2>1 DEF Shallower
<1>4. name \notin ItemElements
  BY DEF DatumElements, ItemElements
<1>5. PersonEnded(d, name, data')
  BY <1>1, <1>4, EndStep DEF ListsEnded
<1>6. PICK fields \in Seq(Field) :
        /\ Changes(d, data', "persons", HomeOf(d, Within(d)), FALSE, fields)
        /\ Lacks(fields, Key.type)
        /\ IF name = "atom:name" THEN Has(fields, Key.name, d.text) ELSE Lacks(fields, Key.name)
  BY <1>3, <1>5 DEF PersonEnded
<1>7. HomeOf(d, Within(d)) = Here
  BY <1>2 DEF HomeOf, Within, Here, SameLists
<1>8. PersonsChange(data, data', Here, FALSE, fields)
  <2>1. Changes(d, data', "persons", Here, FALSE, fields)
    BY <1>6, <1>7
  <2> QED BY <1>2, <2>1 DEF PersonsChange, Changes, ListOf, SameLists
<1>9. Visible(d.text) = Visible(data.text)
  <2>1. data \in Data /\ data.text \in Seq(Int)
    BY DEF PathInvariant, ItemsAreThere, Data
  <2>2. d.text = trim_whitespace(data.text)
    BY <1>1, <2>1 DEF Left, Trimmed, Data
  <2> QED BY <2>1, <2>2, VisibleTrimmed
<1> QED BY <1>2, <1>6, <1>8, <1>9

(* The text of a datum of a person is not that of content around it.          *)
LEMMA DatumIsNoContent ==
    ASSUME PathInvariant, AroundIsOpen, TextIsOfHere, IsXml, IsFeed, NEW L, L = Len(open), L > 2,
           PersonIs(L - 1), document[open[L]].name \in DatumElements
    PROVE  data.decoy = FALSE
<1>1. L \in Nat /\ DOMAIN open = 1..L
  BY OpenAreOrdered
<1>2. PICK k : k = L - 2
  OBVIOUS
<1>3. k \in 1..L /\ L - 1 - 1 = k /\ document[open[k]].name \in ItemElements \cup FeedElements
  BY <1>1, <1>2 DEF PersonIs
<1>4. ASSUME NEW i, ContentIs(i) PROVE FALSE
  <2>1. i \in 1..L /\ document[open[i]].name \in AtomTexts
    BY <1>1, <1>4 DEF ContentIs
  <2>2. ~(i <= k)
    BY <1>1, <1>3, <1>4, NoFrameInContent
  <2>3. i = L - 1 \/ i = L
    BY <1>1, <1>2, <2>1, <2>2
  <2>4. document[open[i]].name \in PersonElements \cup DatumElements
    BY <2>3 DEF PersonIs
  <2> QED BY <2>1, <2>4 DEF AtomTexts, PersonElements, DatumElements
<1>5. data.decoy \in BOOLEAN
  BY DEF PathInvariant, ItemsAreThere, Data
<1> QED BY <1>4, <1>5, ContentCollects

LEMMA NewName ==
    ASSUME PathInvariant, PathInvariant', HomeInvariant, HomeInvariant', OpenInvariant, LeafIsRead,
           ListsAreFormed(data), IsFeed', FitsPath, NoStrays, PersonsAreTyped, End, NEW L, L = Len(open),
           NEW n, n = open[L], IsNameElement(n)'
    PROVE  PersonOf(data', Home(n)', <<n>>) /\ IsLastPerson(n)'
<1>1. /\ IsXml /\ IsXml' /\ AroundIsOpen /\ IsFeed /\ Kept /\ Numbers' = Numbers /\ n \in Numbers
      /\ L \in Nat \ {0} /\ DOMAIN open = 1..L /\ Home(n)' = Home(n)
      /\ \A i \in 1..L : open[i] \in Numbers /\ open[i] \in Nat \ {0}
      /\ document[n].name \in STRING
  BY EndsWithin, OpenAreOrdered DEF HomeInvariant
<1>2. /\ document'[n].name = document[n].name /\ document'[n].parent = document[n].parent
      /\ PlaceOf(n) = data.path[L - 1]
  BY ElementClosed
<1>3. document[n].name = "atom:name" /\ document[n].name \in DatumElements
  BY <1>2 DEF IsNameElement, DatumElements
<1>4. data.path[L - 1] = "ATOM_AUTHOR"
  <2>1. PlaceOf(n)' = PlaceOf(n)
    BY <1>1, PlacesKept DEF PathInvariant
  <2>2. PlaceOf(n)' = "ATOM_AUTHOR"
    BY DEF IsNameElement
  <2> QED BY <1>2, <2>1, <2>2
<1>5. L > 2 /\ PersonIs(L - 1) /\ document[n].parent = open[L - 1]
  BY <1>1, <1>3, <1>4, DatumIsOfPerson
<1>6. ItemsAreCounted /\ TextIsOfHere
  BY <1>1 DEF HomeInvariant
<1>7. data.decoy = FALSE
  BY <1>1, <1>3, <1>5, <1>6, DatumIsNoContent
<1>8. PICK u : u = <<n>>
  OBVIOUS
<1>9. TextOf(n) = u
  <2>1. ~IsXhtml(document[n].name)
    BY <1>3 DEF IsXhtml
  <2>2. written' = written
    BY <2>1 DEF End, Last
  <2>3. TextOf(n)' = TextOf(n)
    <3>1. DocumentIsTree /\ DocumentIsTree' /\ written \in Seq(Numbers)
      BY <1>1 DEF OpenInvariant, PathInvariant
    <3> QED BY <1>1, <2>2, <3>1, TextsGrow
  <2>4. TextOf(n)' = u
    BY <1>8 DEF IsNameElement
  <2> QED BY <2>3, <2>4
<1>10. Visible(data.text) = u
  <2>1. Childless(n)
    <3>1. Childless(n)'
      BY DEF IsNameElement
    <3> QED BY <1>1, <3>1 DEF Childless, Kept
  <2>2. ~IsXhtml(document[n].name) /\ open # <<>>
    BY <1>1, <1>3 DEF IsXhtml
  <2> QED BY <1>7, <1>9, <2>1, <2>2 DEF LeafIsRead
<1>11. PICK h : h = Here
  OBVIOUS
<1>12. /\ h \in 0..Len(data.items) /\ h \in Int /\ Here' = h
  <2>1. document[open[Len(open)]].name \notin ItemElements
    BY <1>3 DEF ItemElements
  <2> QED BY <1>11, <2>1, HereIsCounted, HereEnds
<1>13. Home(n) = h
  <2>1. open # <<>>
    BY <1>1
  <2>2. n \in Belong(Here)
    BY <1>1, <1>6, <2>1, HomeIsHere
  <2> QED BY <1>1, <1>11, <2>2 DEF Belong
<1>14. PICK name \in DatumElements : name = document[open[L]].name /\ name = "atom:name"
  BY <1>3
<1>15. PICK fields \in Seq(Field), v \in Seq(Int) :
         /\ PersonsChange(data, data', Here, FALSE, fields)
         /\ Lacks(fields, Key.type)
         /\ IF name = "atom:name" THEN Has(fields, Key.name, v) ELSE Lacks(fields, Key.name)
         /\ Visible(v) = Visible(data.text)
  <2>1. L > 1 /\ L \in Nat
    BY <1>1, <1>5
  <2> QED BY <1>4, <1>14, <2>1, DatumChanges
<1>16. PICK new \in BOOLEAN : new = FALSE
  OBVIOUS
<1>17. /\ PersonsChange(data, data', h, new, fields) /\ Has(fields, Key.name, v) /\ Visible(v) = u
  BY <1>10, <1>11, <1>14, <1>15, <1>16
<1>18. LastTyped(data', h)
  <2>1. LastTyped(data, h)
    BY <1>5, <1>11 DEF PersonsAreTyped
  <2>2. PersonsChange(data, data', h, FALSE, fields)
    BY <1>11, <1>15
  <2> QED BY <1>12, <1>15, <2>1, <2>2, PersonMore
<1>19. PersonOf(data', h, u)
  <2>1. u # <<>>
    BY <1>8
  <2> QED BY <1>12, <1>17, <1>18, <2>1, PersonNamed
<1>20. IsLastPerson(n)'
  <2> SUFFICES ASSUME NEW j, PersonIs(j)' PROVE document'[n].parent = open'[j]
    BY DEF IsLastPerson
  <2>1. PersonIs(j) /\ j \in 1..L - 1 /\ open'[j] = open[j]
    BY PersonsStayOpen
  <2>2. j = L - 1
    BY <1>1, <1>5, <2>1, OnePersonIs
  <2> QED BY <1>2, <1>5, <2>1, <2>2
<1> QED BY <1>1, <1>8, <1>13, <1>19, <1>20

LEMMA NamesEndDatum ==
    ASSUME PathInvariant, PathInvariant', HomeInvariant, HomeInvariant', OpenInvariant, LeafIsRead,
           ListsAreFormed(data), IsFeed', FitsPath, NoStrays, PersonsAreTyped, PersonsOfNames, End,
           NEW L, L = Len(open), NEW n, n = open[L], document[n].name \in DatumElements,
           data.path[L - 1] = "ATOM_AUTHOR"
    PROVE  PersonsAreTyped' /\ PersonsOfNames'
<1>1. /\ IsXml /\ AroundIsOpen /\ IsFeed /\ Numbers' = Numbers /\ n \in Numbers
      /\ L \in Nat \ {0} /\ DOMAIN open = 1..L
      /\ \A i \in 1..L : open[i] \in Numbers /\ open[i] \in Nat \ {0}
  BY EndsWithin, OpenAreOrdered DEF HomeInvariant
<1>2. L > 2 /\ PersonIs(L - 1) /\ document[n].parent = open[L - 1]
  BY <1>1, DatumIsOfPerson
<1>3. PICK h : h = Here
  OBVIOUS
<1>4. h \in 0..Len(data.items) /\ h \in Int /\ Here' = h
  <2>1. document[open[Len(open)]].name \notin ItemElements
    BY DEF DatumElements, ItemElements
  <2> QED BY <1>3, <2>1, HereIsCounted, HereEnds
<1>5. PICK name \in DatumElements : name = document[open[L]].name
  OBVIOUS
<1>6. PICK fields \in Seq(Field), v \in Seq(Int) :
         /\ PersonsChange(data, data', Here, FALSE, fields)
         /\ Lacks(fields, Key.type)
         /\ IF name = "atom:name" THEN Has(fields, Key.name, v) ELSE Lacks(fields, Key.name)
         /\ Visible(v) = Visible(data.text)
  <2>1. L > 1 /\ L \in Nat
    BY <1>1, <1>2
  <2> QED BY <1>5, <2>1, DatumChanges
<1>7. PersonsChange(data, data', h, FALSE, fields)
  BY <1>3, <1>6
<1>8. PersonsAreTyped'
  <2> SUFFICES ASSUME NEW j, PersonIs(j)' PROVE LastTyped(data', Here')
    BY DEF PersonsAreTyped
  <2>1. LastTyped(data, h)
    BY <1>2, <1>3 DEF PersonsAreTyped
  <2>2. LastTyped(data', h)
    BY <1>4, <1>6, <1>7, <2>1, PersonMore
  <2> QED BY <1>4, <2>2
<1>9. ASSUME NEW m \in Numbers, m # n, IsNameElement(m)'
      PROVE  PersonOf(data', Home(m)', <<m>>) /\ (EarlierPerson(data', Home(m)', <<m>>) \/ IsLastPerson(m)')
  <2>1. /\ IsNameElement(m) /\ Home(m)' = Home(m) /\ document'[m].parent = document[m].parent
        /\ document[m].open = FALSE
    BY <1>9, OldNames
  <2>2. PICK u : u = <<m>>
    OBVIOUS
  <2>3. PICK k : k = Home(m)
    OBVIOUS
  <2>4. PersonOf(data, k, u) /\ (EarlierPerson(data, k, u) \/ IsLastPerson(m)) /\ k \in 0..Len(data.items)
    BY <1>1, <2>1, <2>2, <2>3, HomeIsCounted DEF PersonsOfNames
  <2>5. /\ EarlierPerson(data, k, u) => EarlierPerson(data', k, u) /\ PersonOf(data', k, u)
        /\ k # h \/ Lacks(fields, Key.name) => PersonOf(data', k, u)
    BY <1>4, <1>6, <1>7, <2>4, PersonMore
  <2>6. IsLastPerson(m) => IsLastPerson(m)'
    BY <1>3, <1>4, <2>1, LastPersonStays
(* A name that comes after m in its person excludes that m is the last one.    *)
  <2>7. ASSUME IsLastPerson(m), k = h PROVE Lacks(fields, Key.name)
    <3>1. document[m].parent = open[L - 1]
      BY <1>2, <1>3, <2>3, <2>7 DEF IsLastPerson
    <3>2. m <= n
      <4>1. PICK p : p = L - 1
        OBVIOUS
      <4>2. p \in DOMAIN open /\ p + 1 \in DOMAIN open /\ p + 1 = L
        BY <1>1, <1>2, <4>1
      <4> QED BY <1>1, <3>1, <4>1, <4>2 DEF OpenInvariant
    <3>3. n > m
      <4>1. m \in Nat /\ n \in Nat
        BY <1>1, NumbersAre DEF PathInvariant
      <4> QED BY <1>9, <3>2, <4>1
    <3>4. document[n].name # "atom:name"
      BY <1>1, <1>2, <2>1, <3>1, <3>3 DEF IsNameElement
    <3> QED BY <1>5, <1>6, <3>4
  <2> QED BY <2>1, <2>2, <2>3, <2>4, <2>5, <2>6, <2>7
<1>10. ASSUME IsNameElement(n)'
       PROVE  PersonOf(data', Home(n)', <<n>>) /\ IsLastPerson(n)'
  BY <1>10, NewName
<1> QED BY <1>1, <1>8, <1>9, <1>10 DEF PersonsOfNames

LEMMA NamesEnd ==
    ASSUME PathInvariant, PathInvariant', HomeInvariant, HomeInvariant', OpenInvariant, LeafIsRead,
           ListsAreFormed(data), IsFeed', FitsPath, NoStrays, PersonsAreTyped, PersonsOfNames, End
    PROVE  PersonsAreTyped' /\ PersonsOfNames'
<1>1. PICK L : L = Len(open)
  OBVIOUS
<1>2. PICK n : n = open[L]
  OBVIOUS
<1>3. PICK name : name = document[n].name
  OBVIOUS
<1>4. PICK d : d = Left(data)
  OBVIOUS
<1>5. CASE name \in ItemElements
  BY <1>1, <1>2, <1>3, <1>5, NamesEndItem
<1>6. CASE name \in DatumElements /\ data.path[L - 1] = "ATOM_AUTHOR"
  BY <1>1, <1>2, <1>3, <1>6, NamesEndDatum
<1>7. CASE name \notin ItemElements /\ ~(name \in DatumElements /\ data.path[L - 1] = "ATOM_AUTHOR")
  <2>1. /\ IsXml /\ Kept /\ n \in Numbers /\ document'[n].name = name /\ PlaceOf(n) = data.path[L - 1]
        /\ Shallower(data) = L - 1
    BY <1>1, <1>2, <1>3, EndsWithin, ElementClosed DEF HomeInvariant
  <2>2. ~IsNameElement(n)'
    <3> SUFFICES ASSUME IsNameElement(n)' PROVE FALSE
      OBVIOUS
    <3>1. PlaceOf(n)' = PlaceOf(n)
      BY <2>1, PlacesKept DEF PathInvariant
    <3>2. PlaceOf(n)' = "ATOM_AUTHOR" /\ name = "atom:name"
      BY <2>1 DEF IsNameElement
    <3> QED BY <1>7, <2>1, <3>1, <3>2 DEF DatumElements
  <2>3. SameLists(data, d) /\ d.path = data.path /\ d.depth = L - 1
    BY <1>4, <2>1, LeftTargets
  <2>4. PersonEnded(d, name, data')
    BY <1>1, <1>2, <1>3, <1>4, <1>7, EndStep DEF ListsEnded
  <2>5. PICK h \in Int : PersonEntered(d, data', h)
    BY <1>7, <2>3, <2>4 DEF PersonEnded
  <2>6. PersonEntered(data, data', h)
    <3>1. SameLists(data', data')
      BY DEF SameLists
    <3> QED BY <2>3, <2>5, <3>1, EntersBetween
  <2> QED BY <1>1, <1>2, <1>3, <1>7, <2>2, <2>6, NamesEndPerson
<1> QED BY <1>5, <1>6, <1>7

(* Steps that leave the document and the lists as they are.                   *)
LEMMA NamesRest ==
    ASSUME PathInvariant, PathInvariant', HomeInvariant, OpenInvariant, IsXml, IsFeed, FitsPath,
           PersonsAreTyped, PersonsOfNames, document' = document, open' = open, kind' = kind,
           SameLists(data, data'), data'.in_item = data.in_item,
           \A m \in Numbers : document[m].open = FALSE => TextOf(m)' = TextOf(m)
    PROVE  PersonsAreTyped' /\ PersonsOfNames'
<1>1. /\ IsXml' /\ DocumentIsTree /\ DocumentIsTree' /\ Numbers' = Numbers /\ Kept
  BY DEF PathInvariant, Numbers, Kept, IsXml, grammar
<1>2. \A m \in Numbers : Home(m)' = Home(m)
  BY <1>1, XmlHomesKept
<1>3. Here' = Here
  BY DEF Here, SameLists
<1>4. \A j : PersonIs(j)' <=> PersonIs(j)
  BY DEF PersonIs
<1>5. \A k : ListOf(data', k, "persons") = ListOf(data, k, "persons")
  BY DEF SameLists, ListOf
<1>6. PersonsAreTyped'
  <2> SUFFICES ASSUME NEW j, PersonIs(j)' PROVE LastTyped(data', Here')
    BY DEF PersonsAreTyped
  <2>1. PICK h : h = Here
    OBVIOUS
  <2>2. LastTyped(data, h)
    BY <1>4, <2>1 DEF PersonsAreTyped
  <2>3. LastTyped(data', h)
    BY <1>5, <2>2, PersonsUntouched
  <2> QED BY <1>3, <2>1, <2>3
<1>7. ASSUME NEW m \in Numbers, IsNameElement(m)'
      PROVE  PersonOf(data', Home(m)', <<m>>) /\ (EarlierPerson(data', Home(m)', <<m>>) \/ IsLastPerson(m)')
  <2>1. document[m].open = FALSE
    <3>1. ~document[m].open
      BY <1>7 DEF IsNameElement
    <3> QED BY <3>1, OpenIsTold
  <2>2. IsNameElement(m)
    BY <1>1, <1>7, <2>1, NameKept
  <2>3. PICK u : u = <<m>>
    OBVIOUS
  <2>4. PICK k : k = Home(m)
    OBVIOUS
  <2>5. PersonOf(data, k, u) /\ (EarlierPerson(data, k, u) \/ IsLastPerson(m))
    BY <2>2, <2>3, <2>4 DEF PersonsOfNames
  <2>6. PersonOf(data', k, u) /\ (EarlierPerson(data, k, u) => EarlierPerson(data', k, u))
    BY <1>5, <2>5, PersonsUntouched
  <2>7. Home(m)' = k
    BY <1>2, <2>4
  <2>8. IsLastPerson(m) => IsLastPerson(m)'
    BY <1>3, <1>4, <2>4, <2>7 DEF IsLastPerson
  <2> QED BY <2>3, <2>5, <2>6, <2>7, <2>8
<1> QED BY <1>1, <1>6, <1>7 DEF PersonsOfNames
-----------------------------------------------------------------------------
(* The name of every author is the name of a person of its home.               *)

PersonsInvariant ==
    IsFeed /\ FitsPath => IF IsXml THEN NoStrays => PersonsAreTyped /\ PersonsOfNames
                          ELSE LastsAreTyped /\ PersonsOfRows

LEMMA PersonsStep ==
    ASSUME PathInvariant, PathInvariant', HomeInvariant, HomeInvariant', OpenInvariant, TextInvariant,
           ListsAreFormed(data), PersonsInvariant, [Next]_vars
    PROVE  PersonsInvariant'
<1>1. CASE Engage \/ Finish \/ UNCHANGED vars
  <2>1. document' = document /\ kind' = kind /\ data' = data /\ open' = open /\ written' = written
    BY <1>1 DEF Engage, Finish, vars
  <2>2. /\ IsXml' = IsXml /\ FitsPath' = FitsPath /\ SameLists(data, data')
        /\ DocumentIsTree /\ DocumentIsTree' /\ Numbers' = Numbers /\ Kept
    BY <2>1 DEF PathInvariant, Numbers, Kept, IsXml, FitsPath, grammar, SameLists
  <2>3. IsFeed' => IsFeed
    BY <2>2, XmlHomesKept DEF IsFeed
  <2>4. IsXml /\ NoStrays' => NoStrays
    BY <2>2, StraysKept
  <2>5. \A m \in Numbers : TextOf(m)' = TextOf(m)
    BY <2>1 DEF TextOf, Around, Numbers
  <2>6. IsFeed /\ FitsPath /\ IsXml /\ PersonsAreTyped /\ PersonsOfNames => PersonsAreTyped' /\ PersonsOfNames'
    BY <2>1, <2>2, <2>5, NamesRest
  <2> QED BY <2>1, <2>2, <2>3, <2>4, <2>6, RowPersonsRest DEF PersonsInvariant
<1>2. ASSUME NEW name \in UNION {grammar.levels[i] : i \in DOMAIN grammar.levels},
             NEW attrs \in Attributes(name, Len(document) + 1), Start(name, attrs)
      PROVE  PersonsInvariant'
  <2>1. name \in STRING
    BY GrammarIs DEF PathInvariant, DocumentIsTree
  <2>2. IsXml /\ IsXml' /\ Kept /\ (IsFeed' => IsFeed)
    BY <1>2, <2>1, StartsWithin DEF HomeInvariant
  <2>3. FitsPath' = FitsPath
    BY <1>2 DEF Start, FitsPath, grammar
  <2>4. NoStrays' => NoStrays
    BY <2>2, StraysKept DEF PathInvariant
  <2> SUFFICES ASSUME IsFeed', FitsPath, NoStrays PROVE PersonsAreTyped' /\ PersonsOfNames'
    BY <2>2, <2>3, <2>4 DEF PersonsInvariant
  <2>5. PersonsAreTyped /\ PersonsOfNames
    BY <2>2 DEF PersonsInvariant
  <2>6. CASE name \in ItemElements
    BY <1>2, <2>1, <2>5, <2>6, NamesStartItem
  <2>7. CASE name \notin ItemElements
    BY <1>2, <2>1, <2>5, <2>7, NamesStart
  <2> QED BY <2>6, <2>7
<1>3. ASSUME NEW token \in {Space, Delimiter} \cup 1..Len(document), Characters(token)
      PROVE  PersonsInvariant'
  <2>1. IsXml /\ IsXml' /\ (IsFeed' => IsFeed)
    BY <1>3, TextHomes DEF HomeInvariant
  <2>2. document' = document /\ kind' = kind /\ open' = open /\ FitsPath' = FitsPath
    BY <1>3 DEF Characters, FitsPath, grammar
  <2>3. SameLists(data, data')
    BY <1>3, TextStep
  <2>4. data'.in_item = data.in_item
    <3>1. data' = [data EXCEPT !.text = Append(@, token)] /\ data \in Data
      BY <1>3 DEF Characters, character_data_handler, PathInvariant, ItemsAreThere
    <3> QED BY <3>1 DEF Data
  <2>5. \A m \in Numbers : document[m].open = FALSE => TextOf(m)' = TextOf(m)
    BY <1>3, ClosedTextsStay
  <2>6. Kept
    BY <2>2 DEF Kept, Numbers
  <2>7. NoStrays' => NoStrays
    BY <2>1, <2>6, StraysKept DEF PathInvariant
  <2>8. IsFeed /\ FitsPath /\ PersonsAreTyped /\ PersonsOfNames => PersonsAreTyped' /\ PersonsOfNames'
    BY <2>1, <2>2, <2>3, <2>4, <2>5, NamesRest
  <2> QED BY <2>1, <2>2, <2>7, <2>8 DEF PersonsInvariant
<1>4. CASE End
  <2>1. IsXml /\ IsXml' /\ Kept /\ (IsFeed' => IsFeed)
    BY <1>4, EndsWithin DEF HomeInvariant
  <2>2. FitsPath' = FitsPath
    BY <1>4 DEF End, FitsPath, grammar
  <2>3. NoStrays' => NoStrays
    BY <2>1, StraysKept DEF PathInvariant
  <2> SUFFICES ASSUME IsFeed', FitsPath, NoStrays PROVE PersonsAreTyped' /\ PersonsOfNames'
    BY <2>1, <2>2, <2>3 DEF PersonsInvariant
  <2>4. PersonsAreTyped /\ PersonsOfNames /\ LeafIsRead
    BY <2>1 DEF PersonsInvariant, TextInvariant
  <2> QED BY <1>4, <2>4, NamesEnd
<1>5. ASSUME NEW row \in grammar.rows, Row(row) PROVE PersonsInvariant'
  <2>1. ~IsXml /\ ~IsXml'
    <3>1. Len(document) + 1 = Len(document) + 1
      OBVIOUS
    <3> QED BY <1>5, <3>1, RowsWithin
  <2>2. IsFeed /\ FitsPath' = FitsPath
    BY <1>5, <2>1 DEF IsFeed, Row, FitsPath, grammar
  <2> QED BY <1>5, <2>1, <2>2, PersonsRow DEF PersonsInvariant
<1> QED BY <1>1, <1>2, <1>3, <1>4, <1>5 DEF Next, Terminated

LEMMA PersonsHold == Spec => []PersonsInvariant
<1>1. Init => PersonsInvariant
  <2> SUFFICES ASSUME Init PROVE PersonsInvariant
    OBVIOUS
  <2>1. Numbers = {} /\ document = <<>> /\ DOMAIN open = {} /\ data.author_index = -1
    BY DEF Init, Numbers
  <2> QED BY <2>1 DEF PersonsInvariant, PersonsAreTyped, PersonIs, PersonsOfNames, LastsAreTyped, PersonsOfRows
<1>2. PathInvariant /\ PathInvariant' /\ HomeInvariant /\ HomeInvariant' /\ OpenInvariant /\ TextInvariant
      /\ ListsAreFormed(data) /\ PersonsInvariant /\ [Next]_vars => PersonsInvariant'
  BY PersonsStep
<1> QED BY <1>1, <1>2, PathHolds, HomeHolds, OpenHold, TextHold, FormsHold, PTL DEF Spec

LEMMA PersonIsShown ==
    ASSUME NEW t \in Form, NEW u, u # <<>>, Held(t, PersonKeys, TypedSo(u))
    PROVE  \E p \in DOMAIN deserialize_persons(t) : Visible(deserialize_persons(t)[p][Key.name]) = u
<1>1. PICK i \in DOMAIN Entries(t, PersonKeys) : Entries(t, PersonKeys)[i] \in TypedSo(u)
  BY DEF Held
<1>2. PICK r : r = Entries(t, PersonKeys)[i]
  OBVIOUS
<1>3. /\ r \in [PersonKeys -> Seq(Int)] /\ r[Key.type] # <<>> /\ Visible(r[Key.name]) = u
  BY <1>1, <1>2 DEF TypedSo, Typed, NamedSo
<1>4. r[Key.name] # <<>>
  BY <1>3, OnlyEmpty DEF Visible
<1>5. IsShown(r)
  BY <1>3, <1>4 DEF IsShown
<1>6. PICK p \in DOMAIN deserialize_persons(t) : deserialize_persons(t)[p] = r
  BY <1>2, <1>5, PersonsShown
<1> QED BY <1>3, <1>6

LEMMA PersonsStay == Spec => []PersonsAreRead
<1>1. PathInvariant /\ HomeInvariant /\ ListsAreFormed(data) /\ PersonsInvariant => PersonsAreRead
  <2> SUFFICES ASSUME PathInvariant, HomeInvariant, ListsAreFormed(data), PersonsInvariant, IsFeed, FitsPath,
                      IsXml => \A n \in Numbers : ~IsStray(n),
                      NEW n \in Numbers, IF IsXml THEN IsNameElement(n) ELSE IsNameRow(n)
               PROVE  LET persons == deserialize_persons(Owner(n).persons)
                      IN  \E p \in DOMAIN persons : Visible(persons[p][Key.name]) = <<n>>
    BY DEF PersonsAreRead
  <2>1. PICK u : u = <<n>>
    OBVIOUS
  <2>2. PICK t : t = Owner(n).persons
    OBVIOUS
  <2>3. PersonOf(data, Home(n), u)
    BY <2>1 DEF PersonsInvariant, PersonsOfNames, PersonsOfRows, NoStrays
  <2>4. t = ListOf(data, Home(n), "persons")
    BY <2>2 DEF Owner, Item, ListOf
  <2>5. t \in Form
    BY <2>4, HomeIsCounted DEF ListsAreFormed, FormedList
  <2>6. Held(t, PersonKeys, TypedSo(u))
    BY <2>3, <2>4 DEF PersonOf
  <2>7. u # <<>>
    BY <2>1
  <2> QED BY <2>1, <2>2, <2>5, <2>6, <2>7, PersonIsShown
<1> QED BY <1>1, PathHolds, HomeHolds, FormsHold, PersonsHold, PTL

(* The names of all authors and the URLs of all attachments are read back from *)
(* what is stored of an item or feed, of feeds of any size and form that is   *)
(* parsed: every step of the parser, in any order of elements, leaves each    *)
(* in an entry that later data cannot change (format-atom.c:76-100,           *)
(* string-serialize.c:19-112, items-metadata-persons.c:79-106,                 *)
(* items-metadata-links.c:117-148).                                           *)
THEOREM MetadataStays == Spec => []MetadataIsRead
<1>1. PersonsAreRead /\ AttachmentsAreRead => MetadataIsRead
  BY DEF MetadataIsRead
<1> QED BY <1>1, PersonsStay, AttachmentsStay, PTL

-----------------------------------------------------------------------------
(* Texts of content.                                                          *)

TextKeys == {Key.text}
Saying(u) == {r \in [TextKeys -> Seq(Int)] : Visible(r[Key.text]) = u}

TextList(d, k) == ListOf(d, k, "content")
TextHeld(d, k, u) == Held(TextList(d, k), TextKeys, Saying(u))
EarlierText(d, k, u) == HeldBefore(TextList(d, k), TextKeys, Saying(u))

TextsChange(d, e, h, new, fields) == Changes(d, e, "content", h, new, fields)

LEMMA TextsTell ==
    ASSUME NEW u
    PROVE  /\ TextKeys \in SUBSET TextKeys /\ ToldBy(Saying(u), TextKeys, TextKeys)
           /\ Key.text \in TextKeys /\ \A key \in TextKeys : key = Key.text
BY DEF TextKeys, ToldBy, Saying

TextsAfter(d, e, h, new, fields, k, u) ==
    /\ EarlierText(d, k, u) => EarlierText(e, k, u) /\ TextHeld(e, k, u)
    /\ TextHeld(d, k, u) /\ (k # h \/ new) => TextHeld(e, k, u)
    /\ TextHeld(d, k, u) /\ k = h /\ new => EarlierText(e, k, u)

(* What a change of one list makes of the texts of all.                        *)
LEMMA TextsChanged ==
    ASSUME NEW d, NEW e, ListsAreFormed(d), NEW h \in Int, NEW new \in BOOLEAN, NEW fields \in Seq(Field),
           TextsChange(d, e, h, new, fields), NEW k \in 0..Len(d.items), NEW u
    PROVE  TextsAfter(d, e, h, new, fields, k, u)
<1>1. TextList(d, k) \in Form
  BY DEF ListsAreFormed, FormedList, TextList
<1>2. TextList(e, k) = IF k = h THEN Made(TextList(d, k), new, fields) ELSE TextList(d, k)
  BY DEF TextsChange, Changes, TextList
<1>3. PICK old \in Form : old = TextList(d, k)
  BY <1>1
<1>4. PICK t : t = TextList(e, k)
  OBVIOUS
<1>5. /\ TextHeld(d, k, u) <=> Held(old, TextKeys, Saying(u))
      /\ EarlierText(d, k, u) <=> HeldBefore(old, TextKeys, Saying(u))
      /\ TextHeld(e, k, u) <=> Held(t, TextKeys, Saying(u))
      /\ EarlierText(e, k, u) <=> HeldBefore(t, TextKeys, Saying(u))
  BY <1>3, <1>4 DEF TextHeld, EarlierText
<1>6. ASSUME k = h PROVE TextsAfter(d, e, h, new, fields, k, u)
  <2>1. t = Made(old, new, fields)
    BY <1>2, <1>3, <1>4, <1>6
  <2>2. /\ HeldBefore(old, TextKeys, Saying(u)) =>
             HeldBefore(t, TextKeys, Saying(u)) /\ Held(t, TextKeys, Saying(u))
        /\ new /\ Held(old, TextKeys, Saying(u)) =>
             HeldBefore(t, TextKeys, Saying(u)) /\ Held(t, TextKeys, Saying(u))
    BY <2>1, HeldStays
  <2> QED BY <1>5, <1>6, <2>2 DEF TextsAfter
<1>7. ASSUME k # h PROVE TextsAfter(d, e, h, new, fields, k, u)
  <2>1. t = old
    BY <1>2, <1>3, <1>4, <1>7
  <2>2. HeldBefore(t, TextKeys, Saying(u)) => Held(t, TextKeys, Saying(u))
    BY DEF HeldBefore, Held
  <2> QED BY <1>5, <1>7, <2>1, <2>2 DEF TextsAfter
<1> QED BY <1>6, <1>7

LEMMA TextGiven ==
    ASSUME NEW d, NEW e, ListsAreFormed(d), NEW h \in 0..Len(d.items), NEW new \in BOOLEAN,
           NEW fields \in Seq(Field), TextsChange(d, e, h, new, fields), NEW v \in Seq(Int),
           Has(fields, Key.text, v), NEW u, u # <<>>, Visible(v) = u
    PROVE  TextHeld(e, h, u)
<1>1. TextList(d, h) \in Form
  BY DEF ListsAreFormed, FormedList, TextList
<1>2. PICK old \in Form : old = TextList(d, h)
  BY <1>1
<1>3. PICK t : t = Made(old, new, fields)
  OBVIOUS
<1>4. TextList(e, h) = t
  BY <1>2, <1>3 DEF TextsChange, Changes, TextList
<1>5. Visible(WithoutDelimiters(v)) = u /\ WithoutDelimiters(v) # <<>>
  <2>1. Visible(WithoutDelimiters(v)) = u
    BY VisibleStripped
  <2>2. Visible(<<>>) = <<>>
    BY OnlyEmpty DEF Visible
  <2> QED BY <2>1, <2>2
<1>6. PICK keys : keys = TextKeys
  OBVIOUS
<1>7. Key.text \in keys
  BY <1>6, TextsTell
<1>8. PICK r : r = Entries(t, keys)[Len(Entries(t, keys))]
  OBVIOUS
<1>9. r[Key.text] = WithoutDelimiters(v) /\ r \in [keys -> Seq(Int)]
  BY <1>3, <1>5, <1>7, <1>8, LastGiven
<1>10. LastHeld(t, keys, Saying(u))
  BY <1>5, <1>6, <1>8, <1>9 DEF Saying, LastHeld
<1>11. Held(t, keys, Saying(u)) <=> HeldBefore(t, keys, Saying(u)) \/ LastHeld(t, keys, Saying(u))
  BY <1>3, HeldStays
<1> QED BY <1>4, <1>6, <1>10, <1>11 DEF TextHeld

(* Texts of lists that are left as they are.                                   *)
LEMMA TextsUntouched ==
    ASSUME NEW d, NEW e, NEW k, TextList(e, k) = TextList(d, k)
    PROVE  \A u : (TextHeld(d, k, u) => TextHeld(e, k, u)) /\ (EarlierText(d, k, u) => EarlierText(e, k, u))
BY DEF TextHeld, EarlierText

(* A new entry.                                                                *)
LEMMA TextNew ==
    ASSUME NEW d, NEW e, ListsAreFormed(d), NEW h \in Int, ContentEntered(d, e, h), NEW k \in 0..Len(d.items)
    PROVE  \A u : /\ EarlierText(d, k, u) => EarlierText(e, k, u)
                  /\ TextHeld(d, k, u) => TextHeld(e, k, u) /\ (k = h => EarlierText(e, k, u))
<1>1. PICK fields \in Seq(Field) : Changes(d, e, "content", h, TRUE, fields)
  BY DEF ContentEntered
<1>2. PICK new \in BOOLEAN : new = TRUE
  OBVIOUS
<1>3. TextsChange(d, e, h, new, fields)
  BY <1>1, <1>2 DEF TextsChange
<1>4. \A u : TextsAfter(d, e, h, new, fields, k, u)
  BY <1>3, TextsChanged
<1> QED BY <1>2, <1>4 DEF TextsAfter
-----------------------------------------------------------------------------
(* An element that is open and whose text will go to the last entry of content. *)

ExtenderIs(j) ==
    /\ j \in DOMAIN open
    /\ \/ ContentIs(j)
       \/ /\ j > 1 /\ document[open[j]].name = "atom:subtitle"
          /\ document[open[j - 1]].name \in FeedElements
       \/ /\ document[open[j]].name = "media:description" /\ Here # 0
          /\ PlaceOf(open[j]) # "MEDIARSS_CONTENT"

LEMMA ExtendersAreNamed ==
    ASSUME NEW j, ExtenderIs(j)
    PROVE  document[open[j]].name \in LastEntryTexts
BY DEF ExtenderIs, ContentIs, LastEntryTexts

LEMMA ExtendersAreNoFrames ==
    /\ LastEntryTexts \cap (ItemElements \cup FeedElements \cup {"rss"}) = {}
    /\ (HtmlElements \cup PlainElements) \cap LastEntryTexts = {}
    /\ (HtmlElements \cup PlainElements \cup AtomTexts) \cap ItemElements = {}
BY DEF LastEntryTexts, AtomTexts, ItemElements, FeedElements, HtmlElements, PlainElements

LastTextIsSafe(n) == Home(n) = Here => \A j : ~ExtenderIs(j)

TextsOfContent ==
    \A n \in Numbers : IsContentElement(n) =>
      TextHeld(data, Home(n), TextOf(n)) /\ (EarlierText(data, Home(n), TextOf(n)) \/ LastTextIsSafe(n))

(* Entries of content are begun and completed in the home of what is met now.  *)
LEMMA ContentHomeStarts ==
    ASSUME PathInvariant, IsXml, AroundIsOpen, ItemsAreCounted, IsFeed, FitsPath, NEW L, L = Len(open),
           NEW name
    PROVE  /\ ContentHome(data, name) \in {-1, Here}
           /\ name \in AtomTexts /\ data.path[L] = "GENERIC_ITEM" => ContentHome(data, name) = Here
           /\ name = "atom:subtitle" /\ data.path[L] = "GENERIC_FEED" => ContentHome(data, name) = Here
           /\ name = "media:description" /\ Here # 0 /\ data.path[L] # "MEDIARSS_CONTENT" =>
                ContentHome(data, name) = Here
<1>1. L \in Nat /\ DOMAIN open = 1..L /\ L \in 0..L
  BY OpenAreOrdered
<1>2. data.depth = L
  BY <1>1 DEF PathInvariant, PathIsOfOpen
<1>3. \A i \in L + 1..L : open[i] \notin ItemNumbers
  BY <1>1
<1>4. /\ data.path[L] = "GENERIC_ITEM" => data.in_item
      /\ data.path[L] = "GENERIC_FEED" => ~data.in_item
  BY <1>1, <1>3, PlaceDecides
<1>5. /\ At(data) = "item" <=> data.path[L] = "GENERIC_ITEM"
      /\ At(data) = "feed" <=> data.path[L] = "GENERIC_FEED"
  BY <1>2, AtIs
<1>6. data.in_item \in BOOLEAN
  BY DEF PathInvariant, ItemsAreThere, Data
<1>7. CASE name \in AtomTexts
  BY <1>4, <1>5, <1>7 DEF ContentHome, Here, AtomTexts
<1>8. CASE name = "atom:subtitle"
  BY <1>4, <1>5, <1>8 DEF ContentHome, Here, AtomTexts
<1>9. CASE name = "media:description"
  BY <1>2, <1>6, <1>9 DEF ContentHome, Here, AtomTexts
<1>10. CASE name \notin AtomTexts \cup {"atom:subtitle", "media:description"}
  BY <1>10 DEF ContentHome
<1> QED BY <1>7, <1>8, <1>9, <1>10

LEMMA ContentHomeEnds ==
    ASSUME PathInvariant, PathInvariant', IsXml, AroundIsOpen, ItemsAreCounted, IsFeed, FitsPath, End,
           NEW L, L = Len(open), NEW name, name = document[open[L]].name, name \notin ItemElements,
           NEW d, d = Left(data), ContentHome(d, name) # -1
    PROVE  ContentHome(d, name) = Here /\ ExtenderIs(L)
<1>1. L \in Nat /\ DOMAIN open = 1..L /\ \A i \in 1..L : open[i] \in Numbers
  BY OpenAreOrdered
<1>2. L > 0 /\ L - 1 \in 0..L /\ L \in 1..L
  <2>1. open # <<>>
    BY DEF End
  <2>2. open \in Seq(Nat)
    BY DEF PathInvariant, OpenAreNested
  <2>3. L # 0
    BY <2>1, <2>2
  <2> QED BY <1>1, <2>3
<1>3. PlaceOf(open[L]) = data.path[L - 1] /\ Shallower(data) = L - 1
  BY ElementClosed
<1>4. /\ d.path = data.path /\ d.depth = L - 1 /\ d.in_item = data.in_item /\ d.items = data.items
  BY <1>3, LeftTargets DEF SameLists
<1>5. \A i \in L - 1 + 1..L : open[i] \notin ItemNumbers
  BY <1>1, <1>2 DEF ItemNumbers
<1>6. /\ data.path[L - 1] = "GENERIC_ITEM" => data.in_item
      /\ data.path[L - 1] = "GENERIC_FEED" => ~data.in_item
  BY <1>1, <1>2, <1>5, PlaceDecides
<1>7. /\ At(d) = "item" <=> data.path[L - 1] = "GENERIC_ITEM"
      /\ At(d) = "feed" <=> data.path[L - 1] = "GENERIC_FEED"
  BY <1>4, AtIs
<1>8. /\ At(d) = "item" <=> L > 1 /\ document[open[L - 1]].name \in ItemElements
      /\ At(d) = "feed" <=> L > 1 /\ document[open[L - 1]].name \in FeedElements
  BY LeftIsAt
<1>9. CASE name \in AtomTexts
  BY <1>1, <1>2, <1>4, <1>6, <1>7, <1>8, <1>9 DEF ContentHome, Here, ExtenderIs, ContentIs, AtomTexts
<1>10. CASE name = "atom:subtitle"
  BY <1>1, <1>2, <1>4, <1>6, <1>7, <1>8, <1>10 DEF ContentHome, Here, ExtenderIs, ContentIs, AtomTexts
<1>11. CASE name = "media:description"
  <2>1. data.in_item /\ data.path[L - 1] # "MEDIARSS_CONTENT" /\ ContentHome(d, name) = Len(data.items)
    BY <1>4, <1>11 DEF ContentHome, AtomTexts
  <2>2. data.items # <<>> /\ data \in Data
    BY <2>1 DEF PathInvariant, ItemsAreThere
  <2>3. Len(data.items) # 0
    <3> DEFINE I == ItemRow(Int)
    <3>1. data.items \in Seq(I)
      BY <2>2 DEF Data
    <3> HIDE DEF I
    <3> QED BY <2>2, <3>1
  <2>4. Here = Len(data.items)
    BY <2>1 DEF Here
  <2> QED BY <1>1, <1>2, <1>3, <1>11, <2>1, <2>3, <2>4 DEF ExtenderIs
<1>12. CASE name \notin AtomTexts \cup {"atom:subtitle", "media:description"}
  BY <1>12 DEF ContentHome
<1> QED BY <1>9, <1>10, <1>11, <1>12

(* The elements that are open when one begins.                                 *)
LEMMA ExtendersStart ==
    ASSUME PathInvariant, PathInvariant', HomeInvariant, HomeInvariant', IsFeed', FitsPath, NEW name \in STRING,
           name \notin ItemElements, NEW attrs \in Attributes(name, Len(document) + 1), Start(name, attrs),
           NEW j, ExtenderIs(j)'
    PROVE  ExtenderIs(j) \/ ContentHome(data, name) = Here
<1>1. PICK n : n = Len(document) + 1
  OBVIOUS
<1>2. PICK L : L = Len(open)
  OBVIOUS
<1>3. /\ IsXml /\ IsXml' /\ Kept /\ n \in Numbers' /\ IsFeed /\ AroundIsOpen
      /\ L \in Nat /\ DOMAIN open = 1..L /\ DOMAIN open' = 1..L + 1
      /\ \A i \in 1..L : open'[i] = open[i] /\ open[i] \in Numbers
      /\ open'[L + 1] = n /\ document'[n].name = name
  BY <1>1, <1>2, StartsWithin DEF HomeInvariant
<1>4. /\ \A m \in Numbers : document'[m] = document[m]
      /\ PlaceOf(n)' = data.path[L]
  <2>1. NewElement(n, L, name, attrs)
    BY <1>1, <1>2, ElementBegun
  <2> QED BY <2>1 DEF NewElement
<1>5. Here' = Here /\ ItemsAreCounted
  BY <1>3, HereStarts DEF HomeInvariant
<1>6. \A m \in Numbers : PlaceOf(m)' = PlaceOf(m)
  BY <1>3, PlacesKept DEF PathInvariant
<1>7. j \in 1..L + 1
  BY <1>3 DEF ExtenderIs
<1>8. ASSUME j > 1 PROVE j - 1 \in 1..L /\ document'[open'[j - 1]].name = document[open[j - 1]].name
  BY <1>3, <1>4, <1>7, <1>8
<1>9. CASE j \in 1..L
  <2>1. open'[j] = open[j] /\ document'[open'[j]] = document[open[j]] /\ PlaceOf(open[j])' = PlaceOf(open[j])
    BY <1>3, <1>4, <1>6, <1>9
  <2> QED BY <1>3, <1>5, <1>8, <1>9, <2>1 DEF ExtenderIs, ContentIs
<1>10. CASE j = L + 1
  <2>1. open'[j] = n /\ document'[open'[j]].name = name
    BY <1>3, <1>10
  <2>2. CASE ContentIs(j)'
    <3>1. name \in AtomTexts /\ j > 1 /\ document'[open'[j - 1]].name \in ItemElements
      BY <2>1, <2>2 DEF ContentIs
    <3>2. L \in 1..L /\ document[open[L]].name \in ItemElements
      BY <1>3, <1>8, <1>10, <3>1
    <3>3. data.path[L] = "GENERIC_ITEM"
      BY <1>2, <1>3, <3>2, PositionIs DEF PathInvariant, PathIsOfOpen
    <3> QED BY <1>2, <1>3, <1>5, <3>1, <3>3, ContentHomeStarts
  <2>3. CASE name = "atom:subtitle" /\ j > 1 /\ document'[open'[j - 1]].name \in FeedElements
    <3>1. L \in 1..L /\ document[open[L]].name \in FeedElements
      BY <1>3, <1>8, <1>10, <2>3
    <3>2. data.path[L] = "GENERIC_FEED"
      BY <1>2, <1>3, <3>1, PositionIs DEF PathInvariant, PathIsOfOpen
    <3> QED BY <1>2, <1>3, <1>5, <2>3, <3>2, ContentHomeStarts
  <2>4. CASE name = "media:description" /\ Here' # 0 /\ PlaceOf(n)' # "MEDIARSS_CONTENT"
    BY <1>2, <1>3, <1>4, <1>5, <2>4, ContentHomeStarts
  <2> QED BY <2>1, <2>2, <2>3, <2>4 DEF ExtenderIs
<1> QED BY <1>3, <1>7, <1>9, <1>10

(* Those that stay open when one ends.                                         *)
LEMMA ExtendersEnd ==
    ASSUME PathInvariant, PathInvariant', HomeInvariant, HomeInvariant', IsFeed', FitsPath, End,
           NEW L, L = Len(open), document[open[L]].name \notin ItemElements, NEW j, ExtenderIs(j)'
    PROVE  ExtenderIs(j) /\ j \in 1..L - 1 /\ open'[j] = open[j]
<1>1. PICK n : n = open[L]
  OBVIOUS
<1>2. /\ IsXml /\ Kept /\ L \in Nat \ {0} /\ DOMAIN open = 1..L /\ DOMAIN open' = 1..L - 1
      /\ \A i \in 1..L - 1 : open'[i] = open[i]
      /\ \A i \in 1..L : open[i] \in Numbers
  BY <1>1, EndsWithin DEF HomeInvariant
<1>3. Here' = Here
  BY HereEnds
<1>4. \A m \in Numbers : PlaceOf(m)' = PlaceOf(m) /\ document'[m].name = document[m].name
  BY <1>2, PlacesKept DEF PathInvariant, Kept
<1>5. j \in 1..L - 1 /\ j \in 1..L
  BY <1>2 DEF ExtenderIs
<1>6. open'[j] = open[j] /\ document'[open'[j]].name = document[open[j]].name /\ PlaceOf(open[j])' = PlaceOf(open[j])
  BY <1>2, <1>4, <1>5
<1>7. ASSUME j > 1 PROVE document'[open'[j - 1]].name = document[open[j - 1]].name
  <2>1. j - 1 \in 1..L - 1 /\ j - 1 \in 1..L
    BY <1>2, <1>5, <1>7
  <2> QED BY <1>2, <1>4, <2>1
<1> QED BY <1>2, <1>3, <1>5, <1>6, <1>7 DEF ExtenderIs, ContentIs

(* An element with content was one when it ended.                              *)
LEMMA ContentKept ==
    ASSUME IsXml, DocumentIsTree, IsXml', DocumentIsTree', Kept, NEW m \in Numbers, document[m].open = FALSE,
           document'[m].attrs = document[m].attrs, TextOf(m)' = TextOf(m), IsContentElement(m)'
    PROVE  IsContentElement(m)
<1>1. PlaceOf(m)' = PlaceOf(m) /\ document'[m].name = document[m].name
  BY PlacesKept DEF Kept
<1>2. Childless(m)' => Childless(m)
  BY DEF Childless, Kept
<1>3. Around[m] \cap Named(LastEntryTexts) \subseteq {m}
  <2> SUFFICES ASSUME NEW q \in Around[m], q \in Named(LastEntryTexts) PROVE q = m
    OBVIOUS
  <2>1. q \in Around'[m]
    BY AroundKept
  <2>2. q \in Numbers' /\ document'[q].name \in LastEntryTexts
    BY DEF Named, Kept
  <2> QED BY <2>1, <2>2 DEF IsContentElement, Named
<1> QED BY <1>1, <1>2, <1>3 DEF IsContentElement

LEMMA OldContent ==
    ASSUME PathInvariant, PathInvariant', HomeInvariant, OpenInvariant, NEW m \in Numbers, IsContentElement(m)',
           \/ \E name \in STRING : \E attrs \in Attributes(name, Len(document) + 1) : Start(name, attrs)
           \/ End /\ m # open[Len(open)]
    PROVE  IsContentElement(m) /\ Home(m)' = Home(m) /\ TextOf(m)' = TextOf(m)
<1>1. /\ IsXml /\ IsXml' /\ Kept /\ Home(m)' = Home(m) /\ document'[m] = document[m]
  <2>1. CASE \E name \in STRING : \E attrs \in Attributes(name, Len(document) + 1) : Start(name, attrs)
    <3>1. PICK name \in STRING : \E attrs \in Attributes(name, Len(document) + 1) : Start(name, attrs)
      BY <2>1
    <3>2. PICK attrs \in Attributes(name, Len(document) + 1) : Start(name, attrs)
      BY <3>1
    <3>3. PICK n : n = Len(document) + 1
      OBVIOUS
    <3>4. PICK L : L = Len(open)
      OBVIOUS
    <3>5. /\ IsXml /\ IsXml' /\ Kept /\ \A k \in Numbers : Home(k)' = Home(k)
      BY <3>2, <3>3, <3>4, StartsWithin DEF HomeInvariant
    <3>6. document' = Append(document, [name |-> name, parent |-> IF open = <<>> THEN 0 ELSE Last(open),
                                        open |-> TRUE, attrs |-> attrs])
      BY <3>2 DEF Start
    <3>7. Len(document) \in Nat /\ Numbers = 1..Len(document) /\ document \in Seq(Elements)
      BY <3>5, NumbersAre DEF PathInvariant, DocumentIsTree
    <3>8. document'[m] = document[m]
      BY <3>6, <3>7
    <3> QED BY <3>5, <3>8
  <2>2. CASE End /\ m # open[Len(open)]
    <3>1. PICK L : L = Len(open)
      OBVIOUS
    <3>2. PICK n : n = open[L]
      OBVIOUS
    <3>3. IsXml /\ IsXml' /\ Kept /\ \A k \in Numbers : Home(k)' = Home(k)
      BY <2>2, <3>1, <3>2, EndsWithin DEF HomeInvariant
    <3>4. End /\ m # n
      BY <2>2, <3>1, <3>2
    <3>5. \A k \in Numbers : k # n => document'[k] = document[k]
      BY <3>1, <3>2, <3>4, ElementClosed
    <3> QED BY <3>3, <3>4, <3>5
  <2> QED BY <2>1, <2>2
<1>2. document[m].open = FALSE
  <2>1. ~document'[m].open
    BY DEF IsContentElement
  <2> QED BY <1>1, <2>1, OpenIsTold
<1>3. TextOf(m)' = TextOf(m)
  BY <1>2, ClosedTexts
<1> QED BY <1>1, <1>2, <1>3, ContentKept DEF PathInvariant

LEMMA ContentStarts ==
    ASSUME PathInvariant, PathInvariant', HomeInvariant, HomeInvariant', OpenInvariant, ListsAreFormed(data),
           IsFeed', FitsPath, TextsOfContent, NEW name \in STRING, name \notin ItemElements,
           NEW attrs \in Attributes(name, Len(document) + 1), Start(name, attrs)
    PROVE  TextsOfContent'
<1>1. PICK n : n = Len(document) + 1
  OBVIOUS
<1>2. PICK L : L = Len(open)
  OBVIOUS
<1>3. /\ IsXml /\ IsXml' /\ IsFeed /\ Numbers' = Numbers \cup {n} /\ AroundIsOpen
  BY <1>1, <1>2, StartsWithin DEF HomeInvariant
<1>4. document'[n].open = TRUE
  <2>1. NewElement(n, L, name, attrs)
    BY <1>1, <1>2, ElementBegun
  <2> QED BY <2>1 DEF NewElement
<1>5. Here' = Here /\ Here \in Int /\ ItemsAreCounted
  BY <1>3, HereStarts, HereIsCounted DEF HomeInvariant
<1>6. PICK h \in Int : h = ContentHome(data, name) /\ h \in {-1, Here} /\ ContentEntered(data, data', h)
  <2>1. ContentHome(data, name) \in {-1, Here}
    BY <1>2, <1>3, <1>5, ContentHomeStarts
  <2>2. ContentEntered(data, data', ContentHome(data, name))
    BY ElementStep DEF ListsStart
  <2>3. ContentHome(data, name) \in Int
    BY ContentHomeIs DEF PathInvariant, ItemsAreThere
  <2> QED BY <2>1, <2>2, <2>3
<1>7. ASSUME NEW m \in Numbers, IsContentElement(m)'
      PROVE  /\ TextHeld(data', Home(m)', TextOf(m)')
             /\ EarlierText(data', Home(m)', TextOf(m)') \/ LastTextIsSafe(m)'
  <2>1. IsContentElement(m) /\ Home(m)' = Home(m) /\ TextOf(m)' = TextOf(m)
    BY <1>7, OldContent
  <2>2. PICK u : u = TextOf(m)
    OBVIOUS
  <2>3. PICK k : k = Home(m)
    OBVIOUS
  <2>4. TextHeld(data, k, u) /\ (EarlierText(data, k, u) \/ LastTextIsSafe(m)) /\ k \in 0..Len(data.items)
    BY <1>3, <2>1, <2>2, <2>3, HomeIsCounted DEF TextsOfContent
  <2>5. /\ EarlierText(data, k, u) => EarlierText(data', k, u)
        /\ TextHeld(data', k, u) /\ (k = h => EarlierText(data', k, u))
    BY <1>6, <2>4, TextNew
  <2>6. ASSUME k # h, LastTextIsSafe(m) PROVE LastTextIsSafe(m)'
    <3> SUFFICES ASSUME NEW j, ExtenderIs(j)', Home(m)' = Here' PROVE FALSE
      BY DEF LastTextIsSafe
    <3>1. k = Here
      BY <1>5, <2>1, <2>3
    <3>2. ExtenderIs(j)
      BY <1>6, <2>6, <3>1, ExtendersStart
    <3> QED BY <2>3, <2>6, <3>1, <3>2 DEF LastTextIsSafe
  <2> QED BY <2>1, <2>2, <2>3, <2>4, <2>5, <2>6
<1>8. ~IsContentElement(n)'
  BY <1>4 DEF IsContentElement
<1> QED BY <1>3, <1>7, <1>8 DEF TextsOfContent

(* An item begins, or ends: nothing but feeds is open around it.               *)
LEMMA ContentStartsItem ==
    ASSUME PathInvariant, PathInvariant', HomeInvariant, HomeInvariant', OpenInvariant,
           IsFeed', FitsPath, TextsOfContent, NEW name \in STRING, name \in ItemElements,
           NEW attrs \in Attributes(name, Len(document) + 1), Start(name, attrs)
    PROVE  TextsOfContent'
<1>1. PICK n : n = Len(document) + 1
  OBVIOUS
<1>2. PICK L : L = Len(open)
  OBVIOUS
<1>3. /\ IsXml /\ IsXml' /\ Kept /\ n \notin Numbers /\ n \in Numbers' /\ IsFeed
      /\ Numbers' = Numbers \cup {n} /\ L \in Nat /\ DOMAIN open = 1..L /\ DOMAIN open' = 1..L + 1
      /\ \A i \in 1..L : open'[i] = open[i] /\ open[i] \in Numbers
      /\ open'[L + 1] = n /\ document'[n].name = name
      /\ Around'[n] = {n} \cup {open[i] : i \in 1..L}
  BY <1>1, <1>2, StartsWithin DEF HomeInvariant
<1>4. document'[n].open = TRUE
  <2>1. NewElement(n, L, name, attrs)
    BY <1>1, <1>2, ElementBegun
  <2> QED BY <2>1 DEF NewElement
<1>5. ASSUME NEW j, ExtenderIs(j)' PROVE FALSE
  <2>1. j \in 1..L + 1 /\ document'[open'[j]].name \in LastEntryTexts
    BY <1>3, <1>5, ExtendersAreNamed DEF ExtenderIs, ContentIs, LastEntryTexts
  <2>2. CASE j \in 1..L
    <3>1. open[j] \in Around'[n] \ {n} /\ open[j] \in Numbers
      BY <1>3, <2>2
    <3>2. document'[open[j]].name \in FeedElements \cup {"rss"}
      BY <1>3, <3>1 DEF IsFeed
    <3>3. open'[j] = open[j]
      BY <1>3, <2>2
    <3> QED BY <2>1, <3>2, <3>3, ExtendersAreNoFrames
  <2>3. CASE j = L + 1
    BY <1>3, <2>1, <2>3, ExtendersAreNoFrames
  <2> QED BY <1>3, <2>1, <2>2, <2>3
<1>6. ASSUME NEW m \in Numbers, IsContentElement(m)'
      PROVE  /\ TextHeld(data', Home(m)', TextOf(m)')
             /\ EarlierText(data', Home(m)', TextOf(m)') \/ LastTextIsSafe(m)'
  <2>1. IsContentElement(m) /\ Home(m)' = Home(m) /\ TextOf(m)' = TextOf(m)
    BY <1>6, OldContent
  <2>2. PICK u : u = TextOf(m)
    OBVIOUS
  <2>3. PICK k : k = Home(m)
    OBVIOUS
  <2>4. TextHeld(data, k, u) /\ k \in 0..Len(data.items)
    BY <1>3, <2>1, <2>2, <2>3, HomeIsCounted DEF TextsOfContent
  <2>5. TextList(data', k) = TextList(data, k)
    BY <2>4, ItemStep DEF OneMore, TextList, Lists
  <2>6. TextHeld(data', k, u)
    BY <2>4, <2>5, TextsUntouched
  <2>7. LastTextIsSafe(m)'
    BY <1>5 DEF LastTextIsSafe
  <2> QED BY <2>1, <2>2, <2>3, <2>6, <2>7
<1>7. ~IsContentElement(n)'
  BY <1>4 DEF IsContentElement
<1> QED BY <1>3, <1>6, <1>7 DEF TextsOfContent

(* What the end of an element does to content.                                 *)
TextEntered(d, e, h, new, v) ==
    \E fields \in Seq(Field) : TextsChange(d, e, h, new, fields) /\ Has(fields, Key.text, v)

ContentTold(name, v) ==
    \/ name \in HtmlElements \cup PlainElements /\ TextEntered(data, data', Here, TRUE, v)
    \/ name \notin HtmlElements \cup PlainElements /\ TextEntered(data, data', Here, FALSE, v) /\ ExtenderIs(Len(open))
    \/ /\ name \notin HtmlElements \cup PlainElements /\ Untouched(data, data', "content")
       /\ ContentHome(Left(data), name) = -1

LEMMA EnteredSince ==
    ASSUME NEW d, NEW a, NEW e, SameLists(d, a), NEW h, NEW new, NEW v,
           Enters(a, e, "content", h, new, Key.text, v)
    PROVE  TextEntered(d, e, h, new, v)
<1>1. PICK fields \in Seq(Field) : Changes(a, e, "content", h, new, fields) /\ Has(fields, Key.text, v)
  BY DEF Enters
<1>2. TextsChange(d, e, h, new, fields)
  BY <1>1 DEF TextsChange, Changes, ListOf, SameLists
<1> QED BY <1>1, <1>2 DEF TextEntered

LEMMA ContentEndTold ==
    ASSUME PathInvariant, PathInvariant', IsXml, AroundIsOpen, ItemsAreCounted, IsFeed, FitsPath, End,
           NEW name, name = document[open[Len(open)]].name, name \notin ItemElements
    PROVE  \E v \in Seq(Int) : Visible(v) = Visible(data.text) /\ ContentTold(name, v)
<1>1. PICK d : d = Left(data)
  OBVIOUS
<1>2. PICK L : L = Len(open)
  OBVIOUS
<1>3. SameLists(data, d) /\ d.in_item = data.in_item /\ d.text \in Seq(Int)
  BY <1>1, LeftTargets
<1>4. PICK v \in Seq(Int) : v = d.text
  BY <1>3
<1>5. Visible(v) = Visible(data.text)
  <2>1. data \in Data /\ data.text \in Seq(Int)
    BY DEF PathInvariant, ItemsAreThere, Data
  <2>2. v = trim_whitespace(data.text)
    BY <1>1, <1>4, <2>1 DEF Left, Trimmed, Data
  <2> QED BY <2>1, <2>2, VisibleTrimmed
<1>6. ContentEnded(d, name, data')
  BY <1>1, EndStep DEF ListsEnded
<1>7. HomeOf(d, Within(d)) = Here
  BY <1>3 DEF HomeOf, Within, Here, SameLists
<1>8. CASE name \in HtmlElements \cup PlainElements
  <2>1. Enters(d, data', "content", Here, TRUE, Key.text, v)
    BY <1>4, <1>6, <1>7, <1>8 DEF ContentEnded
  <2>2. TextEntered(data, data', Here, TRUE, v)
    BY <1>3, <2>1, EnteredSince
  <2> QED BY <1>5, <1>8, <2>2 DEF ContentTold
<1>9. CASE name \notin HtmlElements \cup PlainElements /\ ContentHome(d, name) # -1
  <2>1. Enters(d, data', "content", ContentHome(d, name), FALSE, Key.text, v)
    BY <1>4, <1>6, <1>9 DEF ContentEnded
  <2>2. ContentHome(d, name) = Here /\ ExtenderIs(L)
    BY <1>1, <1>2, <1>9, ContentHomeEnds
  <2>3. TextEntered(data, data', Here, FALSE, v)
    BY <1>3, <2>1, <2>2, EnteredSince
  <2> QED BY <1>2, <1>5, <1>9, <2>2, <2>3 DEF ContentTold
<1>10. CASE name \notin HtmlElements \cup PlainElements /\ ContentHome(d, name) = -1
  <2>1. Untouched(d, data', "content")
    BY <1>6, <1>10 DEF ContentEnded
  <2>2. Untouched(data, data', "content")
    BY <1>3, <2>1 DEF Untouched, ListOf, SameLists
  <2> QED BY <1>1, <1>5, <1>10, <2>2 DEF ContentTold
<1> QED BY <1>8, <1>9, <1>10

(* Content that has ended before.                                              *)
LEMMA OldContentEnds ==
    ASSUME PathInvariant, PathInvariant', HomeInvariant, HomeInvariant', OpenInvariant, ListsAreFormed(data),
           IsFeed', FitsPath, TextsOfContent, End, NEW name, name = document[open[Len(open)]].name,
           name \notin ItemElements, NEW v, ContentTold(name, v),
           NEW m \in Numbers, m # open[Len(open)], IsContentElement(m)'
    PROVE  /\ TextHeld(data', Home(m)', TextOf(m)')
           /\ EarlierText(data', Home(m)', TextOf(m)') \/ LastTextIsSafe(m)'
<1>1. PICK L : L = Len(open)
  OBVIOUS
<1>2. PICK n : n = open[L]
  OBVIOUS
<1>3. IsXml /\ IsFeed /\ AroundIsOpen
  BY <1>1, <1>2, EndsWithin DEF HomeInvariant
<1>4. IsContentElement(m) /\ Home(m)' = Home(m) /\ TextOf(m)' = TextOf(m)
  BY OldContent
<1>5. PICK u : u = TextOf(m)
  OBVIOUS
<1>6. PICK k : k = Home(m)
  OBVIOUS
<1>7. PICK h \in Int : h = Here
  BY HereIsCounted
<1>8. TextHeld(data, k, u) /\ (EarlierText(data, k, u) \/ LastTextIsSafe(m)) /\ k \in 0..Len(data.items)
  BY <1>3, <1>4, <1>5, <1>6, HomeIsCounted DEF TextsOfContent
<1>9. LastTextIsSafe(m) => LastTextIsSafe(m)'
  <2> SUFFICES ASSUME LastTextIsSafe(m), NEW j, ExtenderIs(j)', Home(m)' = Here' PROVE FALSE
    BY DEF LastTextIsSafe
  <2>1. ExtenderIs(j)
    BY <1>1, ExtendersEnd
  <2>2. Here' = Here
    BY HereEnds
  <2> QED BY <1>4, <2>1, <2>2 DEF LastTextIsSafe
<1>10. ASSUME NEW new \in BOOLEAN, TextEntered(data, data', h, new, v), new \/ ExtenderIs(L)
       PROVE  /\ TextHeld(data', k, u)
              /\ EarlierText(data', k, u) \/ LastTextIsSafe(m)'
  <2>1. PICK fields \in Seq(Field) : TextsChange(data, data', h, new, fields)
    BY <1>10 DEF TextEntered
  <2>2. TextsAfter(data, data', h, new, fields, k, u)
    BY <1>8, <2>1, TextsChanged
  <2>3. k = h /\ ~new => ~LastTextIsSafe(m)
    BY <1>6, <1>7, <1>10 DEF LastTextIsSafe
  <2> QED BY <1>8, <1>9, <2>2, <2>3 DEF TextsAfter
<1>11. ASSUME Untouched(data, data', "content")
       PROVE  /\ TextHeld(data', k, u)
              /\ EarlierText(data', k, u) \/ LastTextIsSafe(m)'
  <2>1. TextList(data', k) = TextList(data, k)
    BY <1>8, <1>11 DEF Untouched, TextList
  <2> QED BY <1>8, <1>9, <2>1, TextsUntouched
<1>12. /\ TextHeld(data', k, u)
       /\ EarlierText(data', k, u) \/ LastTextIsSafe(m)'
  <2>1. CASE TextEntered(data, data', Here, TRUE, v)
    <3>1. PICK new \in BOOLEAN : new = TRUE
      OBVIOUS
    <3> QED BY <1>7, <1>10, <2>1, <3>1
  <2>2. CASE TextEntered(data, data', Here, FALSE, v) /\ ExtenderIs(L)
    <3>1. PICK new \in BOOLEAN : new = FALSE
      OBVIOUS
    <3> QED BY <1>7, <1>10, <2>2, <3>1
  <2>3. CASE Untouched(data, data', "content")
    BY <1>11, <2>3
  <2> QED BY <1>1, <2>1, <2>2, <2>3 DEF ContentTold
<1> QED BY <1>4, <1>5, <1>6, <1>12

(* The text that has been collected is that of content that ends.              *)
LEMMA ContentIsCollected ==
    ASSUME PathInvariant, PathInvariant', HomeInvariant, HomeInvariant', OpenInvariant, LeafIsRead,
           ContentIsRead, IsFeed', FitsPath, End, NEW L, L = Len(open), NEW n, n = open[L],
           IsContentElement(n)'
    PROVE  /\ Visible(data.text) = TextOf(n) /\ TextOf(n)' = TextOf(n)
           /\ document[n].name \in AtomTexts => ContentHome(Left(data), document[n].name) # -1
           /\ document[n].name \in HtmlElements \cup PlainElements \cup AtomTexts
           /\ \A j \in 1..L : document[open[j]].name \in LastEntryTexts => j = L
<1>1. /\ IsXml /\ IsXml' /\ AroundIsOpen /\ IsFeed /\ Kept /\ Numbers' = Numbers /\ n \in Numbers
      /\ L \in Nat \ {0} /\ DOMAIN open = 1..L
      /\ \A i \in 1..L : open[i] \in Numbers
      /\ \A i \in 1..L, j \in 1..L : open[i] = open[j] => i = j
  BY EndsWithin, OpenAreOrdered DEF HomeInvariant
<1>2. PICK name : name = document[n].name
  OBVIOUS
<1>3. /\ document'[n].name = name /\ document'[n].attrs = document[n].attrs /\ PlaceOf(n) = data.path[L - 1]
      /\ Shallower(data) = L - 1
  BY <1>2, ElementClosed
<1>4. name \in HtmlElements \cup PlainElements \cup AtomTexts
  BY <1>3 DEF IsContentElement
<1>5. \A j \in 1..L : document[open[j]].name \in LastEntryTexts => j = L
  <2> SUFFICES ASSUME NEW j \in 1..L, document[open[j]].name \in LastEntryTexts PROVE open[j] = n
    BY <1>1
  <2>1. open[j] \in Around[n]
    BY <1>1 DEF AroundIsOpen
  <2>2. open[j] \in Around'[n]
    BY <1>1, <2>1, AroundKept DEF PathInvariant
  <2>3. open[j] \in Numbers /\ document'[open[j]].name \in LastEntryTexts
    BY <1>1 DEF Kept
  <2>4. open[j] \in Named(LastEntryTexts)'
    BY <1>1, <2>3 DEF Named
  <2> QED BY <2>2, <2>4 DEF IsContentElement
<1>6. ~IsXhtml(name)
  BY <1>4 DEF IsXhtml, HtmlElements, PlainElements, AtomTexts
<1>7. TextOf(n)' = TextOf(n)
  <2>1. written' = written
    BY <1>2, <1>6 DEF End, Last
  <2>2. DocumentIsTree /\ DocumentIsTree' /\ written \in Seq(Numbers)
    BY <1>1 DEF OpenInvariant, PathInvariant
  <2> QED BY <1>1, <2>1, <2>2, TextsGrow
<1>8. ASSUME name \in AtomTexts PROVE ContentIs(L) /\ ContentHome(Left(data), name) # -1
  <2>1. PlaceOf(n)' = "GENERIC_ITEM"
    BY <1>3, <1>8 DEF IsContentElement
  <2>2. data.path[L - 1] = "GENERIC_ITEM"
    <3>1. PlaceOf(n)' = PlaceOf(n)
      BY <1>1, PlacesKept DEF PathInvariant
    <3> QED BY <1>3, <2>1, <3>1
  <2>3. PICK d : d = Left(data)
    OBVIOUS
  <2>4. d.path = data.path /\ d.depth = L - 1 /\ d.items = data.items
    BY <1>3, <2>3, LeftTargets DEF SameLists
  <2>5. At(d) = "item"
    BY <2>2, <2>4, AtIs
  <2>6. L > 1 /\ document[open[L - 1]].name \in ItemElements
    BY <2>3, <2>5, LeftIsAt
  <2>7. ContentHome(d, name) = Len(data.items)
    BY <1>8, <2>4, <2>5 DEF ContentHome
  <2>8. Len(data.items) \in Nat
    BY DataItems DEF PathInvariant, ItemsAreThere
  <2> QED BY <1>1, <1>2, <1>8, <2>3, <2>6, <2>7, <2>8 DEF ContentIs
<1>9. Visible(data.text) = TextOf(n)
  <2>1. CASE data.decoy
    <3>1. PICK i \in DOMAIN open : ContentIs(i)
      BY <1>1, <2>1, ContentCollects DEF HomeInvariant
    <3>2. i = L
      BY <1>1, <1>5, <3>1 DEF ContentIs, LastEntryTexts
    <3> QED BY <2>1, <3>1, <3>2 DEF ContentIsRead
  <2>2. CASE ~data.decoy
    <3>1. Childless(n)'
      <4> SUFFICES ASSUME name \in AtomTexts, Attr(document[n].attrs, "type") = <<Word.xhtml>> PROVE FALSE
        BY <1>3 DEF IsContentElement
      <4>1. ContentIs(L) /\ L \in DOMAIN open
        BY <1>1, <1>8
      <4> QED BY <2>2, <4>1 DEF ContentIsRead
    <3>2. Childless(n)
      BY <1>1, <3>1 DEF Childless, Kept
    <3>3. open # <<>>
      BY DEF End
    <3> QED BY <1>2, <1>6, <2>2, <3>2, <3>3 DEF LeafIsRead
  <2> QED BY <2>1, <2>2
<1> QED BY <1>2, <1>4, <1>5, <1>7, <1>8, <1>9

LEMMA NewContent ==
    ASSUME PathInvariant, PathInvariant', HomeInvariant, HomeInvariant', OpenInvariant, LeafIsRead,
           ContentIsRead, ListsAreFormed(data), IsFeed', FitsPath, End, NEW n, n = open[Len(open)],
           NEW name, name = document[n].name, NEW v \in Seq(Int), Visible(v) = Visible(data.text),
           ContentTold(name, v), IsContentElement(n)'
    PROVE  TextHeld(data', Home(n)', TextOf(n)') /\ LastTextIsSafe(n)'
<1>1. PICK L : L = Len(open)
  OBVIOUS
<1>2. n = open[L]
  BY <1>1
<1>3. /\ IsXml /\ AroundIsOpen /\ IsFeed /\ n \in Numbers /\ L \in Nat \ {0} /\ DOMAIN open = 1..L
      /\ Home(n)' = Home(n) /\ ItemsAreCounted
  BY <1>1, <1>2, EndsWithin DEF HomeInvariant
<1>4. PICK u : u = TextOf(n)
  OBVIOUS
<1>5. /\ Visible(data.text) = u /\ TextOf(n)' = u
      /\ name \in AtomTexts => ContentHome(Left(data), name) # -1
      /\ name \in HtmlElements \cup PlainElements \cup AtomTexts
      /\ \A j \in 1..L : document[open[j]].name \in LastEntryTexts => j = L
  BY <1>1, <1>2, <1>4, ContentIsCollected
<1>6. u # <<>>
  BY <1>5 DEF IsContentElement
<1>7. name \notin ItemElements
  BY <1>5, ExtendersAreNoFrames
<1>8. PICK h \in 0..Len(data.items) : h = Here
  BY HereIsCounted
<1>9. Home(n) = h
  <2>1. open # <<>>
    BY DEF End
  <2>2. n \in Belong(Here)
    BY <1>3, <2>1, HomeIsHere
  <2>3. n \in Nat \ {0}
    BY <1>2, <1>3, OpenAreOrdered
  <2> QED BY <1>3, <1>8, <2>2, <2>3 DEF Belong
<1>10. ASSUME NEW new \in BOOLEAN, TextEntered(data, data', h, new, v) PROVE TextHeld(data', h, u)
  <2>1. PICK fields \in Seq(Field) : TextsChange(data, data', h, new, fields) /\ Has(fields, Key.text, v)
    BY <1>10 DEF TextEntered
  <2>2. Visible(v) = u
    BY <1>5
  <2> QED BY <1>6, <2>1, <2>2, TextGiven
<1>11. TextHeld(data', h, u)
  <2>1. PICK old \in BOOLEAN : old = FALSE
    OBVIOUS
  <2>2. PICK new \in BOOLEAN : new = TRUE
    OBVIOUS
  <2>3. TextEntered(data, data', h, new, v) \/ TextEntered(data, data', h, old, v)
    BY <1>5, <1>8, <2>1, <2>2 DEF ContentTold
  <2> QED BY <1>10, <2>3
<1>12. LastTextIsSafe(n)'
  <2> SUFFICES ASSUME NEW j, ExtenderIs(j)' PROVE FALSE
    BY DEF LastTextIsSafe
  <2>1. ExtenderIs(j) /\ j \in 1..L - 1
    BY <1>1, <1>7, ExtendersEnd
  <2>2. document[open[j]].name \in LastEntryTexts
    BY <2>1, ExtendersAreNamed
  <2> QED BY <1>3, <1>5, <2>1, <2>2
<1> QED BY <1>3, <1>5, <1>9, <1>11, <1>12

LEMMA ContentElementEnds ==
    ASSUME PathInvariant, PathInvariant', HomeInvariant, HomeInvariant', OpenInvariant, LeafIsRead,
           ContentIsRead, ListsAreFormed(data), IsFeed', FitsPath, TextsOfContent, End
    PROVE  TextsOfContent'
<1>1. PICK L : L = Len(open)
  OBVIOUS
<1>2. PICK n : n = open[L]
  OBVIOUS
<1>3. PICK name : name = document[n].name
  OBVIOUS
<1>4. /\ IsXml /\ Numbers' = Numbers /\ IsFeed /\ L \in Nat \ {0} /\ DOMAIN open = 1..L /\ AroundIsOpen
      /\ n \in Numbers /\ document'[n].name = name /\ ItemsAreCounted
      /\ open' = SubSeq(open, 1, L - 1) /\ DOMAIN open' = 1..L - 1
      /\ \A i \in 1..L - 1 : open'[i] = open[i]
      /\ \A i \in 1..L : open[i] \in Numbers /\ document'[open[i]].name = document[open[i]].name
  <2>1. open' = SubSeq(open, 1, L - 1)
    BY <1>1 DEF End, Front
  <2> QED BY <1>1, <1>2, <1>3, <2>1, EndsWithin DEF HomeInvariant, Kept
<1>5. CASE name \in ItemElements
  <2>1. ASSUME NEW j, ExtenderIs(j)' PROVE FALSE
    <3>1. j \in 1..L - 1 /\ j \in 1..L /\ document'[open'[j]].name \in LastEntryTexts
      BY <1>4, <2>1 DEF ExtenderIs, ContentIs, LastEntryTexts
    <3>2. j \in DOMAIN open /\ L \in DOMAIN open /\ j < L
      BY <1>4, <3>1
    <3>3. document[open[j]].name \in FeedElements \cup {"rss"}
      BY <1>1, <1>2, <1>3, <1>4, <1>5, <3>2, FramesAround
    <3>4. document'[open'[j]].name = document[open[j]].name
      BY <1>4, <3>1
    <3> QED BY <3>1, <3>3, <3>4, ExtendersAreNoFrames
  <2>2. SameLists(data, data')
    <3>1. PICK d : d = Left(data)
      OBVIOUS
    <3> QED BY <1>1, <1>2, <1>3, <1>5, <3>1, EndStep
  <2>3. ASSUME NEW m \in Numbers, IsContentElement(m)'
        PROVE  TextHeld(data', Home(m)', TextOf(m)') /\ LastTextIsSafe(m)'
    <3>1. m # n
      BY <1>4, <1>5, <2>3, ExtendersAreNoFrames DEF IsContentElement
    <3>2. IsContentElement(m) /\ Home(m)' = Home(m) /\ TextOf(m)' = TextOf(m)
      BY <1>1, <1>2, <2>3, <3>1, OldContent
    <3>3. TextHeld(data, Home(m), TextOf(m))
      BY <3>2 DEF TextsOfContent
    <3>4. TextList(data', Home(m)) = TextList(data, Home(m))
      BY <2>2 DEF SameLists, TextList, ListOf
    <3>5. TextHeld(data', Home(m), TextOf(m))
      BY <3>3, <3>4, TextsUntouched
    <3> QED BY <2>1, <3>2, <3>5 DEF LastTextIsSafe
  <2> QED BY <1>4, <2>3 DEF TextsOfContent
<1>6. CASE name \notin ItemElements
  <2>1. name = document[open[Len(open)]].name /\ n = open[Len(open)]
    BY <1>1, <1>2, <1>3
  <2>2. PICK v \in Seq(Int) : Visible(v) = Visible(data.text) /\ ContentTold(name, v)
    BY <1>4, <1>6, <2>1, ContentEndTold
  <2>3. ASSUME NEW m \in Numbers, m # n, IsContentElement(m)'
        PROVE  /\ TextHeld(data', Home(m)', TextOf(m)')
               /\ EarlierText(data', Home(m)', TextOf(m)') \/ LastTextIsSafe(m)'
    BY <1>6, <2>1, <2>2, <2>3, OldContentEnds
  <2>4. ASSUME IsContentElement(n)'
        PROVE  TextHeld(data', Home(n)', TextOf(n)') /\ LastTextIsSafe(n)'
    BY <1>3, <2>1, <2>2, <2>4, NewContent
  <2> QED BY <1>4, <2>3, <2>4 DEF TextsOfContent
<1> QED BY <1>5, <1>6

(* Steps that leave the document and the lists as they are.                   *)
LEMMA ContentRests ==
    ASSUME PathInvariant, PathInvariant', IsXml, TextsOfContent,
           document' = document, open' = open, kind' = kind, SameLists(data, data'),
           data'.in_item = data.in_item, \A m \in Numbers : document[m].open = FALSE => TextOf(m)' = TextOf(m)
    PROVE  TextsOfContent'
<1>1. /\ IsXml' /\ DocumentIsTree /\ DocumentIsTree' /\ Numbers' = Numbers /\ Kept
  BY DEF PathInvariant, Numbers, Kept, IsXml, grammar
<1>2. \A m \in Numbers : Home(m)' = Home(m)
  BY <1>1, XmlHomesKept
<1>3. Here' = Here
  BY DEF Here, SameLists
<1>4. ASSUME NEW j, ExtenderIs(j)' PROVE ExtenderIs(j)
  <2>1. j \in DOMAIN open
    BY <1>4 DEF ExtenderIs
  <2>2. open[j] \in Numbers
    BY <1>1, <2>1 DEF PathInvariant, OpenAreNested
  <2>3. PlaceOf(open[j])' = PlaceOf(open[j])
    BY <1>1, <2>2, PlacesKept
  <2> QED BY <1>3, <1>4, <2>3 DEF ExtenderIs, ContentIs
<1>5. ASSUME NEW m \in Numbers, IsContentElement(m)'
      PROVE  /\ TextHeld(data', Home(m)', TextOf(m)')
             /\ EarlierText(data', Home(m)', TextOf(m)') \/ LastTextIsSafe(m)'
  <2>1. document[m].open = FALSE
    <3>1. ~document[m].open
      BY <1>5 DEF IsContentElement
    <3> QED BY <3>1, OpenIsTold
  <2>2. TextOf(m)' = TextOf(m)
    BY <2>1
  <2>3. IsContentElement(m)
    BY <1>1, <1>5, <2>1, <2>2, ContentKept
  <2>4. Home(m)' = Home(m)
    BY <1>2
  <2>5. TextList(data', Home(m)) = TextList(data, Home(m))
    BY DEF SameLists, TextList, ListOf
  <2>6. /\ TextHeld(data', Home(m), TextOf(m))
        /\ EarlierText(data', Home(m), TextOf(m)) \/ LastTextIsSafe(m)
    BY <2>3, <2>5, TextsUntouched DEF TextsOfContent
  <2>7. LastTextIsSafe(m) => LastTextIsSafe(m)'
    BY <1>3, <1>4, <2>4 DEF LastTextIsSafe
  <2> QED BY <2>2, <2>4, <2>6, <2>7
<1> QED BY <1>1, <1>5 DEF TextsOfContent
-----------------------------------------------------------------------------
(* The text of every element with content is a text of its home.               *)

ContentInvariant == IsXml /\ IsFeed /\ FitsPath => TextsOfContent

LEMMA ContentStep ==
    ASSUME PathInvariant, PathInvariant', HomeInvariant, HomeInvariant', OpenInvariant, TextInvariant,
           ListsAreFormed(data), ContentInvariant, [Next]_vars
    PROVE  ContentInvariant'
<1>1. CASE Engage \/ Finish \/ UNCHANGED vars
  <2>1. document' = document /\ kind' = kind /\ data' = data /\ open' = open /\ written' = written
    BY <1>1 DEF Engage, Finish, vars
  <2>2. /\ IsXml' = IsXml /\ FitsPath' = FitsPath /\ SameLists(data, data')
        /\ DocumentIsTree /\ DocumentIsTree' /\ Numbers' = Numbers /\ Kept
    BY <2>1 DEF PathInvariant, Numbers, Kept, IsXml, FitsPath, grammar, SameLists
  <2>3. IsFeed' => IsFeed
    BY <2>2, XmlHomesKept DEF IsFeed
  <2>4. \A m \in Numbers : TextOf(m)' = TextOf(m)
    BY <2>1 DEF TextOf, Around, Numbers
  <2>5. IsXml /\ TextsOfContent => TextsOfContent'
    BY <2>1, <2>2, <2>4, ContentRests
  <2> QED BY <2>2, <2>3, <2>5 DEF ContentInvariant
<1>2. ASSUME NEW name \in UNION {grammar.levels[i] : i \in DOMAIN grammar.levels},
             NEW attrs \in Attributes(name, Len(document) + 1), Start(name, attrs)
      PROVE  ContentInvariant'
  <2>1. name \in STRING
    BY GrammarIs DEF PathInvariant, DocumentIsTree
  <2>2. IsXml /\ IsXml' /\ Kept /\ (IsFeed' => IsFeed)
    BY <1>2, <2>1, StartsWithin DEF HomeInvariant
  <2>3. FitsPath' = FitsPath
    BY <1>2 DEF Start, FitsPath, grammar
  <2> SUFFICES ASSUME IsFeed', FitsPath PROVE TextsOfContent'
    BY <2>2, <2>3 DEF ContentInvariant
  <2>4. TextsOfContent
    BY <2>2 DEF ContentInvariant
  <2>5. CASE name \in ItemElements
    BY <1>2, <2>1, <2>4, <2>5, ContentStartsItem
  <2>6. CASE name \notin ItemElements
    BY <1>2, <2>1, <2>4, <2>6, ContentStarts
  <2> QED BY <2>5, <2>6
<1>3. ASSUME NEW token \in {Space, Delimiter} \cup 1..Len(document), Characters(token)
      PROVE  ContentInvariant'
  <2>1. IsXml /\ IsXml' /\ (IsFeed' => IsFeed)
    BY <1>3, TextHomes DEF HomeInvariant
  <2>2. document' = document /\ kind' = kind /\ open' = open /\ FitsPath' = FitsPath
    BY <1>3 DEF Characters, FitsPath, grammar
  <2>3. SameLists(data, data')
    BY <1>3, TextStep
  <2>4. data'.in_item = data.in_item
    <3>1. data' = [data EXCEPT !.text = Append(@, token)] /\ data \in Data
      BY <1>3 DEF Characters, character_data_handler, PathInvariant, ItemsAreThere
    <3> QED BY <3>1 DEF Data
  <2>5. \A m \in Numbers : document[m].open = FALSE => TextOf(m)' = TextOf(m)
    BY <1>3, ClosedTextsStay
  <2>6. TextsOfContent => TextsOfContent'
    BY <2>1, <2>2, <2>3, <2>4, <2>5, ContentRests
  <2> QED BY <2>1, <2>2, <2>6 DEF ContentInvariant
<1>4. CASE End
  <2>1. IsXml /\ IsXml' /\ Kept /\ (IsFeed' => IsFeed)
    BY <1>4, EndsWithin DEF HomeInvariant
  <2>2. FitsPath' = FitsPath
    BY <1>4 DEF End, FitsPath, grammar
  <2> SUFFICES ASSUME IsFeed', FitsPath PROVE TextsOfContent'
    BY <2>1, <2>2 DEF ContentInvariant
  <2>3. TextsOfContent /\ LeafIsRead /\ ContentIsRead
    BY <2>1 DEF ContentInvariant, TextInvariant
  <2> QED BY <1>4, <2>3, ContentElementEnds
<1>5. ASSUME NEW row \in grammar.rows, Row(row) PROVE ContentInvariant'
  <2>1. ~IsXml'
    <3>1. Len(document) + 1 = Len(document) + 1
      OBVIOUS
    <3> QED BY <1>5, <3>1, RowsWithin
  <2> QED BY <2>1 DEF ContentInvariant
<1> QED BY <1>1, <1>2, <1>3, <1>4, <1>5 DEF Next, Terminated

LEMMA ContentHold == Spec => []ContentInvariant
<1>1. Init => ContentInvariant
  BY DEF Init, Numbers, ContentInvariant, TextsOfContent
<1>2. PathInvariant /\ PathInvariant' /\ HomeInvariant /\ HomeInvariant' /\ OpenInvariant /\ TextInvariant
      /\ ListsAreFormed(data) /\ ContentInvariant /\ [Next]_vars => ContentInvariant'
  BY ContentStep
<1> QED BY <1>1, <1>2, PathHolds, HomeHolds, OpenHold, TextHold, FormsHold, PTL DEF Spec

(* The text of every element with content is a text of its item or feed, of   *)
(* feeds of any size whose elements fit the path, although the end tag of     *)
(* other elements writes to the last entry there is, whosever it is, and XHTML *)
(* content takes in the text of all elements inside of it                     *)
(* (format-atom.c:44-65, setup-xml-parser.c:60-70, common.c:28-41).           *)
THEOREM ContentStays == Spec => []ContentIsWhole
<1>1. PathInvariant /\ HomeInvariant /\ ListsAreFormed(data) /\ ContentInvariant => ContentIsWhole
  <2> SUFFICES ASSUME PathInvariant, HomeInvariant, ListsAreFormed(data), ContentInvariant, IsXml, IsFeed,
                      FitsPath, NEW n \in Numbers, IsContentElement(n)
               PROVE  LET texts == Entries(Owner(n).content, {Key.text})
                      IN  \E e \in DOMAIN texts : Visible(texts[e][Key.text]) = TextOf(n)
    BY DEF ContentIsWhole
  <2>1. TextList(data, Home(n)) = Owner(n).content
    BY DEF TextList, ListOf, Owner, Item
  <2>2. TextHeld(data, Home(n), TextOf(n))
    BY DEF ContentInvariant, TextsOfContent
  <2> QED BY <2>1, <2>2 DEF TextHeld, Held, Saying, TextKeys
<1> QED BY <1>1, PathHolds, HomeHolds, FormsHold, ContentHold, PTL
==============================================================================
