----------------------------- MODULE Serialized -----------------------------
(***************************************************************************)
(* The form in which lists of metadata are stored (string-serialize.c) and *)
(* what is read back from it (items-metadata-*.c).                         *)
(*                                                                         *)
(* A string is a sequence of tokens.  Tokens that are not negative stand   *)
(* for text of a feed, the negative ones for what the code compares with.  *)
(***************************************************************************)
EXTENDS Integers, Sequences, SequencesExt

Space     == -1
Delimiter == -2
Caret     == -3          \* the field "^", which begins an entry

\* The keys of fields, "type=" and its like.
Key == [type  |-> -10, text |-> -11, category |-> -12, name  |-> -13,
        email |-> -14, url  |-> -15, size     |-> -16, title |-> -17,
        content |-> -18, duration |-> -19, coordinates |-> -20,
        description_type |-> -21, description_text |-> -22]

\* Values the code compares with.
Word == [author |-> -30, contributor |-> -31, editor |-> -32, html |-> -33,
         xhtml  |-> -34, plain |-> -35, self |-> -36, alternate |-> -37,
         enclosure |-> -38, comments |-> -39, source |-> -40, true |-> -41,
         false |-> -42]

serialize_caret(target) == target \o <<Delimiter, Caret>>

\* What of s is in S, in its order.
Only(s, S) == FoldLeft(LAMBDA kept, c : IF c \in S THEN Append(kept, c) ELSE kept, <<>>, s)

\* Delimiters within a value are dropped, fields without a value left out.
WithoutDelimiters(value) == Only(value, Int \ {Delimiter})

serialize_array(target, key, value) ==
  LET kept == WithoutDelimiters(value)
  IN  IF kept = <<>> THEN target ELSE target \o <<Delimiter, key>> \o kept

\* Several fields one after another, <<key, value>> each.
serialize_fields(target, fields) ==
  FoldLeft(LAMBDA t, f : serialize_array(t, f[1], f[2]), target, fields)

\* The fields of serialized data.  The first token is the delimiter.
deserialize(data) ==
  FoldLeft(LAMBDA fields, c :
             IF c = data[1] THEN Append(fields, <<>>)
             ELSE [fields EXCEPT ![Len(fields)] = Append(@, c)],
           <<>>, data)

\* What a reader collects: one record per entry, a later field of a key
\* replacing an earlier one, entries separated by carets.
Entries(data, keys) ==
  LET blank == [k \in keys |-> <<>>]
      step(entries, field) ==
        IF field = <<Caret>> THEN Append(entries, blank)
        ELSE IF field # <<>> /\ Head(field) \in keys
        THEN [entries EXCEPT ![Len(entries)][Head(field)] = Tail(field)]
        ELSE entries
  IN  FoldLeft(step, <<blank>>, deserialize(data))

\* The persons that are shown: they need a type and a datum.
IsShown(person) ==
  /\ person[Key.type] # <<>>
  /\ \E k \in {Key.name, Key.email, Key.url} : person[k] # <<>>

deserialize_persons(data) ==
  FoldLeft(LAMBDA shown, p : IF IsShown(p) THEN Append(shown, p) ELSE shown,
           <<>>, Entries(data, {Key.type, Key.name, Key.email, Key.url}))

\* The first of the longest texts, with whether it is HTML.
get_largest_piece(data, text, type) ==
  FoldLeft(LAMBDA best, e :
             IF Len(e[text]) > Len(best.text)
             THEN [text |-> e[text],
                   html |-> \E i \in DOMAIN e[type] :
                              e[type][i] \in {Word.html, Word.xhtml}]
             ELSE best,
           [text |-> <<>>, html |-> FALSE], Entries(data, {text, type}))

get_largest_piece_from_item_content(content) ==
  get_largest_piece(content, Key.text, Key.type)

get_largest_piece_from_item_attachments(attachments) ==
  get_largest_piece(attachments, Key.description_text, Key.description_type)

\* The text of an item: its content, or else a description of an attachment.
block_max_content(item) ==
  LET content == get_largest_piece_from_item_content(item.content)
  IN  IF content.text # <<>> THEN content
      ELSE get_largest_piece_from_item_attachments(item.attachments)

\* The links of an item's attachments after those in links, each once.
add_item_attachments_to_links_list(links, attachments) ==
  FoldLeft(LAMBDA ls, e :
             IF e[Key.url] = <<>> \/ \E i \in DOMAIN ls : ls[i] = e[Key.url]
             THEN ls ELSE Append(ls, e[Key.url]),
           links,
           Entries(attachments, {Key.url, Key.type, Key.size, Key.duration}))
=============================================================================
