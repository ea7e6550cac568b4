---------------------------- MODULE MCRenderHtml ----------------------------
(* Small pages: which elements are on each level, how many elements and    *)
(* characters, what else is written, and the width there is for it.        *)
EXTENDS RenderHtml

Entry(before, spec, after) == [before |-> before, spec |-> spec, after |-> after]

Page == [pager |-> 0, width |-> 6, centering |-> FALSE, wide |-> FALSE,
         format |-> << Entry(<<>>, "c", <<>>) >>,
         item |-> [type |-> "html", title |-> <<>>, links |-> <<>>],
         levels |-> <<>>, elements |-> 0, letters |-> 0, noise |-> {},
         urls |-> {1}, spans |-> {1}, begun |-> <<>>, again |-> FALSE]

\* Breaking of text, with styles that change within words.
Words == [Page EXCEPT !.levels = << {"b", "i", "sup"} >>, !.elements = 1, !.letters = 5,
                      !.width = 3, !.noise = {Space, SoftHyphen}]

\* Preformatted and plain text.
Preformatted == [Page EXCEPT !.levels = << {"pre"} >>, !.elements = 1, !.letters = 4,
                             !.noise = {Space, Tab, NewLine}, !.width = 4, !.wide = TRUE]

Plain == [Page EXCEPT !.item.type = "plain", !.item.links = <<1>>, !.letters = 5,
                      !.noise = {Space, NewLine}, !.urls = {1, -1, 2}, !.width = 5,
                      !.format = << Entry(<<>>, "t", <<51>>), Entry(<<>>, "c", <<52>>),
                                    Entry(<<53>>, "L", <<>>) >>, !.item.title = <<54>>,
                      !.again = TRUE]

\* Blocks in blocks.
Blocks == [Page EXCEPT !.levels = << {"p", "div", "h1", "hr", "blockquote", "br"},
                                     {"p", "address", "dd", "q"} >>,
                       !.elements = 3, !.letters = 2, !.width = 9]

\* Lists in lists, also where a list is shown in the middle of a wide screen.
ListsOfLists == [Page EXCEPT !.levels = << {"ul", "ol"}, {"li"}, {"ol", "p"}, {"li", "ol"} >>,
                             !.elements = 5, !.letters = 1, !.width = 34,
                             !.pager = 30, !.centering = TRUE]

\* Tables of many cells, and tables with more in them.
Spans == [Page EXCEPT !.levels = << {"table"}, {"tr"}, {"td"} >>,
                      !.elements = 6, !.letters = 1, !.width = 20, !.spans = {1, 2}]

Tables == [Page EXCEPT !.levels = << {"table"}, {"tr"}, {"td"}, {"b", "br", "table"} >>,
                       !.elements = 6, !.letters = 2, !.width = 20]

\* Two rows of two columns, the first of them without and with a letter.
Opening(tag) == [type |-> "open", tag |-> tag,
                 attrs |-> [value |-> 0, colspan |-> 1, rowspan |-> 1]]
Closing      == [type |-> "close"]

Columns == [Tables EXCEPT !.letters = 3, !.levels[4] = {"img"}, !.elements = 8, !.urls = {0},
              !.begun = << Opening("table"), Opening("tr"), Opening("td"), Closing,
                           Opening("td"), [type |-> "char", char |-> 1], Closing, Closing >>]

LinksToo == [Page EXCEPT !.levels = << {"a", "img", "abbr", "input", "svg", "script",
                                        "button", "mark", "unknown"}, {"img"} >>,
                         !.elements = 2, !.letters = 1, !.width = 8,
                         !.urls = {0, 1, -1, 2}, !.noise = {Space}, !.again = TRUE]

MCPages == << Words, Preformatted, Plain, Blocks, ListsOfLists, Spans, Tables, Columns, LinksToo >>
=============================================================================
