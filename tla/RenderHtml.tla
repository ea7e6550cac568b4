----------------------------- MODULE RenderHtml -----------------------------
(***************************************************************************)
(* Rendering of an item for the pager: the blocks it is made of            *)
(* (items-metadata.c, render-block.c), HTML (render-text-html.c) and plain *)
(* text (render-text-plain.c), and the list of links.                      *)
(*                                                                         *)
(* The content of the item is generated while it is rendered: events are   *)
(* the nodes of the tree of gumbo in the order render_html visits them.    *)
(* A page is rendered twice: first without the list of links, and with it  *)
(* as soon as it is known, as also after the screen was resized.           *)
(***************************************************************************)
EXTENDS RenderLine

CONSTANTS Pages,              \* a sequence of what may be rendered, and where
          MaxListsDepth,      \* MAX_NESTED_LISTS_DEPTH
          IndentationLevel    \* SPACES_PER_INDENTATION_LEVEL

ASSUME RenderAssumption ==
  MaxListsDepth \in Nat \ {0} /\ IndentationLevel \in Nat \ {0}

VARIABLES kind,      \* the page that is rendered, of Pages
          blocks,    \* render blocks that are still to come
          script,    \* what the content of the item was made of the first time
          events,    \* what it was made of so far, each time
          render,    \* struct html_render with its line, and struct links_list
          state      \* "blocks", "html", "plain", "done"

page == Pages[kind]
vars == <<kind, blocks, script, events, render, state>>

\* Characters of the renderer.
Mark(n)       == Decoration + n            \* the number of a link
ListNumber(n) == Decoration + 50 + n       \* the number of a list item
Bracket       == Decoration + 100
Dot           == Decoration + 101
Star          == Decoration + 102
Rule          == Decoration + 103
Quote         == Decoration + 104
Label         == Decoration + 105          \* [image], a value, a title, ...
TagText       == Decoration + 106          \* an element that is not known

ColumnSpacing == 2                         \* HTML_TABLE_COLUMN_SPACING
-----------------------------------------------------------------------------
(* Links.  An address that is negative is relative to the one of the list   *)
(* that comes first; a relative address is no base.                         *)

complete_url(links, url) ==
  IF links # <<>> /\ links[1] > 0 /\ url < 0 THEN -url ELSE url

(* Mutant: duplicates are looked for before the address is completed. *)
AddUncompleted(links, url) ==
  IF url \in ToSet(links) THEN links ELSE Append(links, complete_url(links, url))

add_url_to_links_list(links, url) ==
  LET full == complete_url(links, url)
  IN  IF full \in ToSet(links) THEN links ELSE Append(links, full)

IndexOf(links, url) ==
  CHOOSE i \in DOMAIN links : links[i] = complete_url(links, url)
-----------------------------------------------------------------------------
(* Elements (the table of renderers).  Those that look alike are grouped.   *)

Lists       == {"ul", "ol"}
Indented    == {"blockquote", "dd"}          \* and figure
Marked      == {"a", "img"}                  \* and embed, object, video, ...
Childless   == {"br", "hr", "img", "input", "svg", "script"}
Known       == {"span", "p", "br", "hr", "a", "img", "b", "i", "mark", "h1", "pre",
                "li", "ul", "ol", "blockquote", "dd", "td", "tr", "abbr", "input",
                "div", "address", "sup", "q", "button", "svg", "script"}

newlines_before(tag) ==
  CASE tag = "h1" -> 3
    [] tag \in {"p", "blockquote"} -> 2
    [] tag \in {"hr", "pre", "li", "dd", "div", "address"} -> 1
    [] OTHER -> 0

(* Mutant: one line end less. *)
NewlinesAfterShort(tag) == IF newlines_before(tag) = 0 THEN 0 ELSE newlines_before(tag) - 1

newlines_after(tag) == IF tag = "h1" THEN 2 ELSE newlines_before(tag)

prefix(tag) == CASE tag = "sup" -> <<Label>> [] tag = "q" -> <<Quote>>
                 [] tag = "button" -> <<Bracket>> [] OTHER -> <<>>

\* [image], like all of that kind, is several characters.
suffix(tag) == CASE tag \in {"img", "svg"} -> <<Label, Label, Label>> [] tag = "q" -> <<Quote>>
                 [] tag = "button" -> <<Bracket>> [] OTHER -> <<>>

video_attrs(tag) ==
  CASE tag \in Marked -> {"underline"}
    [] tag \in {"b", "h1"} -> {"bold"}
    [] tag \in {"i", "address"} -> {"italic"}
    [] tag = "mark" -> {"bold", "italic"}
    [] OTHER -> {}
-----------------------------------------------------------------------------
(* The line that is written to: that of the page or that of a table cell.   *)

Line(ctx) ==
  IF ctx.at = <<>> THEN ctx.line ELSE ctx.rows[ctx.at[1]][ctx.at[2]].line

OnLine(ctx, l) ==
  IF ctx.at = <<>> THEN [ctx EXCEPT !.line = l]
  ELSE [ctx EXCEPT !.rows[ctx.at[1]][ctx.at[2]].line = l]

Emit(ctx, str) == OnLine(ctx, line_string(Line(ctx), str))

SetIndents(ctx, of_head, of_line) ==
  LET l == Line(ctx)
  IN  OnLine(ctx, [l EXCEPT !.indent = of_line, !.lines[Len(l.lines)].indent = of_head])

BeginsList(text) ==
  \/ Len(text) > 0 /\ text[1][1] = Star
  \/ Len(text) > 1 /\ text[1][1] \in ListNumber(0)..ListNumber(49) /\ text[2][1] = Dot

\* So many line ends that the present line is the last of count empty ones.
provide_newlines(ctx, count, force) ==
  LET l     == Line(ctx)
      full  == {i \in DOMAIN l.lines : l.lines[i].text # <<>>}
      empty == Len(l.lines) - CHOOSE i \in full : \A j \in full : j <= i
  IN  IF full = {} \/ (~force /\ BeginsList(head(l).text)) THEN ctx
      ELSE Emit(ctx, [i \in 1..count - empty |-> NewLine])
-----------------------------------------------------------------------------
(* Handlers of elements.                                                    *)

url_mark_handler(ctx, url) ==
  IF url = 0 THEN ctx
  ELSE LET links  == add_url_to_links_list(ctx.links, url)
           spaced == IF head(Line(ctx)).text = <<>> THEN ctx ELSE Emit(ctx, <<Nbsp>>)
           bold   == line_style(Line(spaced), {"bold"})
           marked == line_string(bold, <<Bracket, Mark(IndexOf(links, url)), Bracket>>)
       IN  [OnLine(spaced, line_unstyle(marked)) EXCEPT !.links = links]

abbr_handler(ctx, title) ==
  IF title = 0 \/ title \in ctx.abbrs THEN ctx
  ELSE [Emit(ctx, <<Nbsp, Bracket, Label, Bracket>>) EXCEPT !.abbrs = @ \cup {title}]

hr_handler(ctx) ==
  LET flat == SetIndents(ctx, 0, Line(ctx).indent)
  IN  Emit(flat, [i \in 1..Line(flat).lim |-> Rule])

input_handler(ctx, value) ==
  IF value = 0 THEN ctx ELSE Emit(ctx, <<Bracket, Label, Bracket>>)

li_handler(ctx) ==
  LET d   == ctx.list_depth
      in  == IF d = 0 THEN ctx
             ELSE SetIndents(ctx, IndentationLevel * (d * 2 - 1), IndentationLevel * d * 2)
      n   == ctx.list_levels[d].length + 1
  IN  IF ctx.list_levels[d].is_ordered
      THEN Emit([in EXCEPT !.list_levels[d].length = n],
                 <<ListNumber(n), Dot, Space, Space>>)
      ELSE Emit(in, <<Star, Space, Space, Space>>)

list_start_handler(ctx, tag, start) ==
  LET d == ctx.list_depth + 1
  IN  IF ctx.list_depth >= MaxListsDepth THEN ctx
      ELSE [ctx EXCEPT !.list_depth = d,
                       !.list_levels[d] = [is_ordered |-> tag = "ol",
                                           length |-> IF tag = "ol" THEN start - 1 ELSE @.length]]

ul_end_handler(ctx) ==
  LET d == IF ctx.list_depth > 0 THEN ctx.list_depth - 1 ELSE 0
  IN  SetIndents([ctx EXCEPT !.list_depth = d],
                 IndentationLevel * d * 2, IndentationLevel * d * 2)

indent_start_handler(ctx) ==
  LET i == head(Line(ctx)).indent + IndentationLevel IN SetIndents(ctx, i, i)

indent_end_handler(ctx) ==
  LET l == Line(ctx)
      i == IF head(l).indent >= IndentationLevel
           THEN head(l).indent - IndentationLevel ELSE l.indent
  IN  SetIndents(ctx, IF head(l).text = <<>> THEN i ELSE head(l).indent, i)
-----------------------------------------------------------------------------
(* Tables.  A row is a sequence of cells; a cell that spans several columns *)
(* is followed by cells with colspan -1, and a place below a cell that      *)
(* spans several rows is filled by a cell with rowspan -1.                  *)

html_table_add_row(ctx) == [ctx EXCEPT !.rows = Append(@, <<>>)]

Cell(colspan, rowspan) ==
  [line |-> line_bump(NewProcessor(0)), colspan |-> colspan, rowspan |-> rowspan]

MaxOf(S) == CHOOSE x \in S \cup {0} : \A y \in S \cup {0} : y <= x

(* Mutant: after one reserved column no other is expected. *)
NextColumn(rows, column) ==
  IF \E i \in 1..Len(rows) - 1 :
       column <= Len(rows[i]) /\ rows[i][column].rowspan + i > Len(rows)
  THEN column + 1 ELSE column

\* The first column of the last row that no cell above reaches into.
FreeColumn(rows, column) ==
  LET Reserved(k) == \E i \in 1..Len(rows) - 1 :
                       k <= Len(rows[i]) /\ rows[i][k].rowspan + i > Len(rows)
      free == {k \in column..column + MaxOf({Len(rows[i]) : i \in DOMAIN rows}) : ~Reserved(k)}
  IN  CHOOSE k \in free : \A j \in free : k <= j

html_table_add_cell(ctx, attrs) ==
  LET c      == IF ctx.rows = <<>> THEN html_table_add_row(ctx) ELSE ctx
      r      == Len(c.rows)
      old    == Len(c.rows[r])
      column == FreeColumn(c.rows, old + 1)
      filled == [i \in 1..column - 1 - old |-> Cell(1, -1)]
      more   == [i \in 1..attrs.colspan - 1 |-> Cell(-1, attrs.rowspan)]
  IN  [c EXCEPT !.rows[r] = @ \o filled \o <<Cell(attrs.colspan, attrs.rowspan)>> \o more,
                !.at = <<r, column>>]

SumOver(f, S) == FoldLeft(LAMBDA sum, i : sum + f[i], 0, SetToSeq(S))

\* The narrowest of the columns grows until all of them hold the cell.
RECURSIVE Widened(_, _, _)
Widened(widths, columns, need) ==
  IF SumOver(widths, columns) >= need THEN widths
  ELSE LET least == CHOOSE j \in columns :
                      \A k \in columns :
                        \/ widths[j] < widths[k]
                        \/ widths[j] = widths[k] /\ j <= k
       IN  Widened([widths EXCEPT ![least] = @ + 1], columns, need)

adjust_column_widths(widths, rows) ==
  FoldLeft(LAMBDA ws, row :
             FoldLeft(LAMBDA w, j :
                        IF row[j].colspan > 1
                        THEN Widened(w, (j..j + row[j].colspan - 1) \cap DOMAIN w,
                                     Len(row[j].line.lines[1].text))
                        ELSE w,
                      ws, [j \in DOMAIN row |-> j]),
           widths, rows)

\* Widths of columns: in characters, not in columns of the terminal.
column_widths(rows) ==
  adjust_column_widths(
    [j \in 1..MaxOf({Len(rows[i]) : i \in DOMAIN rows}) |->
       MaxOf(UNION {{Len(rows[i][j].line.lines[k].text) : k \in DOMAIN rows[i][j].line.lines} :
                    i \in {r \in DOMAIN rows : j <= Len(rows[r]) /\ rows[r][j].colspan <= 1}})],
    rows)

Padding(n) == [i \in 1..n |-> Nbsp]

\* One line of one cell, with what separates it from the next one.
CellPrinted(l, row, j, height, widths) ==
  LET cell   == row[j]
      spans  == {k \in j + 1..Len(row) : \A n \in j + 1..k : row[n].colspan = -1}
      width  == widths[j] + SumOver([k \in spans |-> ColumnSpacing + widths[k]], spans)
      text   == IF cell.rowspan >= 0 /\ height <= Len(cell.line.lines)
                THEN cell.line.lines[height].text ELSE <<>>
      styled == FoldLeft(LAMBDA m, x : line_unstyle(line_char(line_style(m, x[2]), x[1])),
                         l, text)
  IN  IF cell.colspan <= 0 THEN l
      ELSE IF j = Len(row) THEN styled
      ELSE line_string(styled, Padding(width - Len(text) + ColumnSpacing))

print_html_table(l, rows) ==
  LET widths == column_widths(rows)
      height(row) == MaxOf({1} \cup {Len(row[j].line.lines) : j \in DOMAIN row})
      printed(m, row) ==
        FoldLeft(LAMBDA n, h :
                   line_bump(FoldLeft(LAMBDA k, j : CellPrinted(k, row, j, h, widths),
                                      n, [j \in DOMAIN row |-> j])),
                 m, [h \in 1..height(row) |-> h])
  IN  FoldLeft(printed, l, rows)
-----------------------------------------------------------------------------
(* render_html, called for the start of an element, its end, and text.      *)

start_handler(ctx, tag, attrs) ==
  CASE tag = "br" -> Emit(ctx, <<NewLine>>)
    [] tag = "hr" -> hr_handler(ctx)
    [] tag = "li" -> li_handler(ctx)
    [] tag \in Lists -> list_start_handler(ctx, tag, attrs.value)
    [] tag \in Indented -> indent_start_handler(ctx)
    [] tag = "td" -> html_table_add_cell(ctx, attrs)
    [] tag = "tr" -> html_table_add_row(ctx)
    [] tag = "input" -> input_handler(ctx, attrs.value)
    [] OTHER -> ctx

end_handler(ctx, tag, attrs) ==
  CASE tag \in Marked -> url_mark_handler(ctx, attrs.value)
    [] tag \in Lists -> ul_end_handler(ctx)
    [] tag \in Indented -> indent_end_handler(ctx)
    [] tag = "abbr" -> abbr_handler(ctx, attrs.value)
    [] OTHER -> ctx

ListNewlines(ctx) == IF ctx.list_depth = 0 THEN 2 ELSE 1

Styled(ctx, tag) ==
  IF video_attrs(tag) = {} THEN ctx
  ELSE OnLine(ctx, line_style(Line(ctx), video_attrs(tag)))

Unstyled(ctx, tag) ==
  IF video_attrs(tag) = {} THEN ctx ELSE OnLine(ctx, line_unstyle(Line(ctx)))

element_start(ctx, tag, attrs) ==
  LET entered == [ctx EXCEPT !.open = Append(@, [tag |-> tag, attrs |-> attrs,
                                                 outer |-> ~ctx.in_table])]
      broken  == IF tag \in Lists THEN provide_newlines(entered, ListNewlines(ctx), TRUE)
                 ELSE provide_newlines(entered, newlines_before(tag), FALSE)
      begun   == start_handler([broken EXCEPT !.pre = @ + IF tag = "pre" THEN 1 ELSE 0],
                               tag, attrs)
  IN  CASE tag = "table" /\ ~ctx.in_table -> [entered EXCEPT !.in_table = TRUE]
        [] tag \in Known -> Emit(Styled(begun, tag), prefix(tag))
        [] OTHER -> Emit(entered, <<TagText>>)

element_end(ctx) ==
  LET tag   == Last(ctx.open).tag
      left  == [ctx EXCEPT !.open = Front(@)]
      plain == Unstyled(Emit(left, suffix(tag)), tag)
      ended == [end_handler(plain, tag, Last(ctx.open).attrs)
                  EXCEPT !.pre = @ - IF tag = "pre" THEN 1 ELSE 0]
  IN  CASE tag = "table" /\ Last(ctx.open).outer ->
             [left EXCEPT !.line = print_html_table(ctx.line, ctx.rows), !.at = <<>>,
                          !.rows = <<>>, !.in_table = FALSE,
                          !.printed = [rows |-> ctx.rows, from |-> Len(head(ctx.line).text)]]
        [] tag \in Lists -> provide_newlines(ended, ListNewlines(ended), TRUE)
        [] tag \in Known \ Lists -> provide_newlines(ended, newlines_after(tag), TRUE)
        [] OTHER -> Emit(left, <<TagText>>)

\* Outside of pre, white space is a single space and begins no line.
html_char(ctx, c) ==
  CASE ctx.pre > 0 \/ ~IsWhite(c) -> Emit(ctx, <<c>>)
    [] ctx.pre = 0 /\ IsWhite(c) /\ EndsWith(Line(ctx), LAMBDA x : ~IsWhite(x)) ->
         Emit(ctx, <<Space>>)
    [] OTHER -> ctx

\* A token of plain text that is an address.
plain_uri(ctx, c, url) ==
  LET links  == add_url_to_links_list(ctx.links, url)
      text   == Emit(ctx, <<c>>)
      marked == line_string(line_style(Line(text), {"bold"}),
                            <<Nbsp, Bracket, Mark(IndexOf(links, url)), Bracket>>)
  IN  [OnLine(text, line_unstyle(marked)) EXCEPT !.links = links]

Handle(ctx, e) ==
  CASE e.type = "open"  -> element_start(ctx, e.tag, e.attrs)
    [] e.type = "close" -> element_end(ctx)
    [] e.type = "char"  -> html_char(ctx, e.char)
    [] e.type = "plain" -> Emit(ctx, <<e.char>>)
    [] e.type = "uri"   -> plain_uri(ctx, e.char, e.url)
-----------------------------------------------------------------------------
(* The blocks of a page.                                                    *)

Block(content, type, trim) == [content |-> content, type |-> type, trim |-> trim]

\* Entries of item-content-format.  What an item does not have is left out
\* with all of its entry; %c is the content, %L the list of links.
EntryBlocks(entry, item) ==
  CASE entry.spec = "" -> << Block(entry.before, "html", FALSE) >>
    [] entry.spec = "L" -> << Block(entry.before, "html", FALSE), Block(<<>>, "links", FALSE),
                              Block(entry.after, "html", FALSE) >>
    [] entry.spec = "c" /\ item.type # "none" ->
         << Block(entry.before, "html", FALSE), Block(<<>>, item.type, TRUE),
            Block(entry.after, "html", FALSE) >>
    [] entry.spec = "t" /\ item.title # <<>> ->
         << Block(entry.before \o item.title \o entry.after, "html", FALSE) >>
    [] OTHER -> <<>>

generate_render_blocks(format, item) ==
  SelectSeq(FoldLeft(LAMBDA bs, entry : bs \o EntryBlocks(entry, item), <<>>, format),
            LAMBDA b : b.content # <<>> \/ b.type = "links" \/ b.trim)

\* A block is rendered with a new struct html_render; the line goes on with
\* its indentation taken back, but not that of the line already begun.
NewBlock(ctx) ==
  [ctx EXCEPT !.line.indent = 0, !.line.style = {}, !.line.style_stack = <<>>,
              !.at = <<>>, !.list_depth = 0, !.in_table = FALSE, !.pre = 0,
              !.abbrs = {}, !.rows = <<>>, !.open = <<>>,
              !.list_levels = [i \in 0..MaxListsDepth |->
                                 [is_ordered |-> FALSE, length |-> 0]]]

EndBlock(ctx, block) ==
  IF block.trim
  THEN [ctx EXCEPT !.line = remove_trailing_empty_lines_except_for_first_one(@)]
  ELSE ctx

Limit == IF page.pager > 0 /\ page.pager < page.width THEN page.pager ELSE page.width

NewRender(links) ==
  NewBlock([line |-> line_bump(NewProcessor(Limit)), links |-> links, at |-> <<>>,
            list_depth |-> 0, list_levels |-> <<>>, in_table |-> FALSE, pre |-> 0,
            abbrs |-> {}, rows |-> <<>>, open |-> <<>>,
            printed |-> [rows |-> <<>>, from |-> 0]])

\* Before apply_links_render_blocks the list of links is a space.
LinksText(links) ==
  IF script = <<>> \/ links = <<>> THEN <<Space>>
  ELSE FoldLeft(LAMBDA s, i : s \o <<Label, Label, Space>>, <<>>,
                [i \in DOMAIN links |-> i])

RenderBlock(ctx, block) ==
  IF block.type = "links" /\ script = <<>> THEN Emit(NewBlock(ctx), LinksText(ctx.links))
  ELSE FoldLeft(html_char, NewBlock(ctx),
                IF block.type = "links" THEN LinksText(ctx.links) ELSE block.content)

\* Centering, the last step of render_data.
Centered(l) ==
  IF page.centering /\ Limit = page.pager
  THEN [l EXCEPT !.lines = [i \in DOMAIN @ |->
          [@[i] EXCEPT !.indent = @ + (page.width - page.pager) \div 2]]]
  ELSE l

-----------------------------------------------------------------------------
Init ==
  /\ kind \in DOMAIN Pages
  /\ blocks = generate_render_blocks(page.format, page.item)
  /\ script = <<>> /\ events = <<>>
  /\ render = NewRender(page.item.links)
  /\ state = "blocks"

\* A block with a fixed text.
RenderFixed ==
  /\ state = "blocks" /\ blocks # <<>> /\ ~Head(blocks).trim
  /\ render' = RenderBlock(render, Head(blocks))
  /\ blocks' = Tail(blocks)
  /\ UNCHANGED <<kind, script, events, state>>

BeginContent ==
  /\ state = "blocks" /\ blocks # <<>> /\ Head(blocks).trim
  /\ render' = NewBlock(render)
  /\ state' = Head(blocks).type
  /\ UNCHANGED <<kind, blocks, script, events>>

Count(type) == Len(SelectSeq(events, LAMBDA e : e.type \in type))

Inside == IF render.open = <<>> THEN "" ELSE Last(render.open).tag

\* What gumbo makes of tables: rows in tables, cells in rows.
Fits(tag) ==
  /\ tag = "tr" <=> Inside = "table"
  /\ tag = "td" <=> Inside = "tr"

Attributes(tag) ==
  CASE tag \in Marked -> [value : page.urls]
    [] tag = "ol" -> [value : {1, 3}]
    [] tag = "ul" -> [value : {1}]
    [] tag \in {"abbr", "input"} -> [value : {0, 1}]
    [] tag = "td" -> [colspan : page.spans, rowspan : page.spans]
    [] OTHER -> [value : {0}]

Openings ==
  IF Count({"open"}) = page.elements \/ Len(render.open) = Len(page.levels)
     \/ Inside \in Childless THEN {}
  ELSE UNION {[type : {"open"}, tag : {t}, attrs : Attributes(t)] :
              t \in {u \in page.levels[Len(render.open) + 1] : Fits(u)}}

NextLetter == Count({"char", "plain", "uri"}) + 1

Chars(type) ==
  IF NextLetter > page.letters \/ Inside \in Childless \cup {"table", "tr"} THEN {}
  ELSE [type : {type},
        char : {NextLetter} \cup page.noise
               \cup (IF page.wide THEN {Wide + NextLetter} ELSE {})]

\* The nodes of a tree of gumbo, of which some may be given.
HtmlEvents ==
  IF Len(events) < Len(page.begun) THEN {page.begun[Len(events) + 1]}
  ELSE Openings \cup Chars("char")
       \cup (IF render.open = <<>> THEN {} ELSE {[type |-> "close"]})

\* Tokens of a plain text: an address ends with white space.
PlainEvents ==
  LET previous == IF events = <<>> THEN Space ELSE Last(events).char
      InUri    == events # <<>> /\ Last(events).type = "uri"
  IN  {e \in Chars("plain") : InUri => IsWhite(e.char)}
        \cup (IF NextLetter > page.letters \/ ~IsWhite(previous) THEN {}
              ELSE [type : {"uri"}, char : {NextLetter}, url : page.urls \ {0}])

\* A piece of the content; the second time it is the same as the first time.
RenderContent ==
  /\ state \in {"html", "plain"} /\ ~render.line.stuck
  /\ \E e \in IF script # <<>>
              THEN {script[i] : i \in DOMAIN script \cap {Len(events) + 1}}
              ELSE IF state = "html" THEN HtmlEvents ELSE PlainEvents :
       /\ render' = Handle(render, e)
       /\ events' = Append(events, e)
  /\ UNCHANGED <<kind, blocks, script, state>>

EndContent ==
  /\ state \in {"html", "plain"} /\ render.open = <<>> /\ ~render.line.stuck
  /\ script # <<>> => Len(events) = Len(script)
  /\ render' = EndBlock(render, Head(blocks))
  /\ blocks' = Tail(blocks)
  /\ state' = "blocks"
  /\ UNCHANGED <<kind, script, events>>

Finish ==
  /\ state = "blocks" /\ blocks = <<>>
  /\ render' = [render EXCEPT !.line =
                  Centered(remove_trailing_empty_lines_except_for_first_one(@))]
  /\ state' = "done"
  /\ UNCHANGED <<kind, blocks, script, events>>

\* Of the pages without a list of links it is not looked at again.
RenderAgain ==
  /\ state = "done" /\ script = <<>> /\ events # <<>> /\ render.links # <<>> /\ page.again
  /\ script' = events /\ events' = <<>>
  /\ blocks' = generate_render_blocks(page.format, page.item)
  /\ render' = NewRender(render.links)
  /\ state' = "blocks"
  /\ UNCHANGED kind

Terminated ==
  /\ state = "done" \/ render.line.stuck
  /\ UNCHANGED vars

Next == RenderFixed \/ BeginContent \/ RenderContent \/ EndContent \/ Finish
          \/ RenderAgain \/ Terminated

Spec == Init /\ [][Next]_vars
-----------------------------------------------------------------------------
(* What a page should look like, told from its content alone: the letters   *)
(* with their styles, the part of the text and the word they belong to;     *)
(* the addresses that are marked; the marks of list items.                  *)

IsBlock(tag) == newlines_before(tag) > 0 \/ tag \in Lists \cup {"br", "table", "tr", "td"}

Opened(r, e) ==
  LET list == [tag |-> e.tag, next |-> e.attrs.value]
  IN  [r EXCEPT !.open  = Append(@, e),
                !.part  = @ + IF IsBlock(e.tag) THEN 1 ELSE 0,
                !.lists = IF e.tag \in Lists THEN Append(@, list)
                          ELSE IF e.tag = "li" /\ @ # <<>>
                          THEN [@ EXCEPT ![Len(@)].next = @ + 1] ELSE @,
                !.items = IF e.tag # "li" THEN @
                          ELSE Append(@, IF r.lists # <<>> /\ Last(r.lists).tag = "ol"
                                         THEN ListNumber(Last(r.lists).next) ELSE Star),
                !.depth = IF e.tag \in Lists /\ Len(r.lists) + 1 > @ THEN @ + 1 ELSE @,
                !.tables = @ + IF e.tag = "table" THEN 1 ELSE 0]

Closed(r) ==
  LET tag == Last(r.open).tag
  IN  [r EXCEPT !.open  = Front(@),
                !.part  = @ + IF IsBlock(tag) THEN 1 ELSE 0,
                !.lists = IF tag \in Lists THEN Front(@) ELSE @,
                !.marked = IF tag \in Marked /\ Last(r.open).attrs.value # 0
                           THEN Append(@, Last(r.open).attrs.value) ELSE @]

Wrote(r, e) ==
  IF e.char \in Letters
  THEN [r EXCEPT !.letters =
          Append(@, [char |-> e.char, part |-> r.part,
                     style |-> UNION {video_attrs(r.open[i].tag) : i \in DOMAIN r.open},
                     tabled |-> \E i \in DOMAIN r.open : r.open[i].tag = "table",
                     joined |-> r.letters # <<>> /\ r.joined]),
                 !.joined = TRUE,
                 !.marked = IF e.type = "uri" THEN Append(@, e.url) ELSE @]
  ELSE [r EXCEPT !.joined = FALSE]

Reference ==
  FoldLeft(LAMBDA r, e : CASE e.type = "open"  -> [Opened(r, e) EXCEPT !.joined = FALSE]
                           [] e.type = "close" -> [Closed(r) EXCEPT !.joined = FALSE]
                           [] OTHER -> Wrote(r, e),
           [open |-> <<>>, part |-> 0, joined |-> FALSE, lists |-> <<>>, items |-> <<>>,
            depth |-> 0, tables |-> 0, letters |-> <<>>, marked |-> <<>>],
           events)

Flat(lines) == FoldLeft(LAMBDA t, l : t \o l.text, <<>>, lines)
CharsOn(lines, S) == SelectSeq([i \in DOMAIN Flat(lines) |-> Flat(lines)[i][1]],
                            LAMBDA c : c \in S)
Written == (1..50) \cup (Wide + 1..Wide + 50)   \* fixed blocks have others

\* Where a letter is, once it is on the page.
Place(c) == CHOOSE p \in {<<i, k>> : i \in DOMAIN render.line.lines, k \in 1..60} :
              /\ p[2] \in DOMAIN render.line.lines[p[1]].text
              /\ render.line.lines[p[1]].text[p[2]][1] = c

TypeOK ==
  /\ state \in {"blocks", "html", "plain", "done"}
  /\ render.list_depth \in 0..MaxListsDepth
  /\ render.pre \in Nat
  /\ \A i \in DOMAIN render.line.lines : render.line.lines[i].indent \in Nat
  /\ render.at # <<>> => /\ render.in_table
                         /\ render.at[1] \in DOMAIN render.rows
                         /\ render.at[2] \in DOMAIN render.rows[render.at[1]]

\* No line is wider than the page, its indentation included.
LinesFit ==
  \A i \in DOMAIN render.line.lines :
    LET l == render.line.lines[i]
    IN  \/ state # "done" /\ l.indent + wcswidth(l.text) <= Limit
        \/ state = "done" /\ l.indent + wcswidth(l.text) <= page.width

\* Breaking lines, tables, trimming: each letter of the content is on the page
\* once, in the order of the text unless tables put it elsewhere.
NothingLost ==
  LET r      == Reference
      should == [i \in DOMAIN r.letters |-> r.letters[i].char]
      is     == CharsOn(render.line.lines, Written)
  IN  IF r.tables = 0 THEN is = should
      ELSE ~render.in_table => Len(is) = Len(should) /\ ToSet(is) = ToSet(should)

\* A letter has the styles of the elements it is in, wherever it was moved to.
StylesKept ==
  ~render.in_table =>
    \A i \in DOMAIN Reference.letters :
      LET x == Reference.letters[i]
      IN  \E p \in ToSet(Flat(render.line.lines)) : p = <<x.char, x.style>>

\* Texts of different blocks are on different lines, except after the mark of
\* a list item.
BlocksApart ==
  LET r == Reference
  IN  r.tables = 0 =>
        \A i, j \in DOMAIN r.letters :
          r.letters[i].part # r.letters[j].part =>
            LET line == Place(r.letters[i].char)[1]
            IN  \/ line # Place(r.letters[j].char)[1]
                \/ BeginsList(render.line.lines[line].text)

\* List items bear the numbers of their own list.
ItemsNumbered ==
  LET r == Reference
  IN  r.tables = 0 /\ r.depth <= MaxListsDepth =>
        CharsOn(render.line.lines, {Star} \cup (ListNumber(0)..ListNumber(40))) = r.items

\* The number at a link is that of its address in the list of links, each
\* address being there once, however often the page is rendered.
MarksMatchLinks ==
  LET r     == Reference
      marks == CharsOn(render.line.lines, Mark(1)..Mark(49))
  IN  r.tables = 0 =>
        /\ Len(marks) = Len(r.marked)
        /\ \A i \in DOMAIN marks :
             /\ marks[i] - Decoration \in DOMAIN render.links
             /\ render.links[marks[i] - Decoration] \in {r.marked[i], -r.marked[i]}
        /\ \A i, j \in DOMAIN render.links : render.links[i] = render.links[j] => i = j

\* A word is broken only where no other break is possible: nothing but white
\* space is before it on its line.
WordsAreWhole ==
  LET r == Reference
  IN  r.tables = 0 =>
        \A i \in DOMAIN r.letters :
          r.letters[i].joined =>
            LET before == Place(r.letters[i - 1].char)[1]
                text   == render.line.lines[before].text
            IN  before # Place(r.letters[i].char)[1] =>
                  \A k \in 2..Len(text) : IsWhite(text[k][1]) => IsWhite(text[k - 1][1])

\* Lines are filled as far as words allow and no farther.
LinesAreSound == TypeOK /\ LinesFit /\ WordsAreWhole

\* What the page is made of is the text of the content in its styles.
TextIsKept == NothingLost /\ StylesKept

\* The numbers on the page are those the reader counts by: of the items of the
\* list they are in, and of the links.
NumbersAreRight == ItemsNumbered /\ MarksMatchLinks

\* Cells of a column begin at the same place in all rows of a table of which
\* no cell spans columns; the first row continues the line before the table.
ColumnsAligned ==
  LET rows == render.printed.rows
      first(i, j) == rows[i][j].line.lines[1].text
      Shown(i, j) == first(i, j) # <<>> /\ first(i, j)[1][1] \in Letters
      At(i, j) == Place(first(i, j)[1][1])[2] - IF i = 1 THEN render.printed.from ELSE 0
  IN  (\A i \in DOMAIN rows : \A j \in DOMAIN rows[i] : rows[i][j].colspan = 1) =>
        \A i, k \in DOMAIN rows : \A j \in DOMAIN rows[i] \cap DOMAIN rows[k] :
          Shown(i, j) /\ Shown(k, j) => At(i, j) = At(k, j)

\* No cell is put where one above it reaches, though one that spans several
\* columns may run into it, as HTML allows.
CellsDoNotOverlap ==
  \A i, k \in DOMAIN render.rows :
    \A j \in DOMAIN render.rows[i] \cap DOMAIN render.rows[k] :
      i < k /\ render.rows[i][j].rowspan > k - i /\ render.rows[k][j].colspan # -1
        => render.rows[k][j].rowspan = -1

\* Rows of a table can be read from top to bottom.
TablesAreAligned == ColumnsAligned /\ CellsDoNotOverlap
=============================================================================
