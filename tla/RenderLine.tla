----------------------------- MODULE RenderLine -----------------------------
(***************************************************************************)
(* The line processor of the renderer (render_data/line.c): breaking of    *)
(* text into lines, hyphens, tabs and the stack of styles.                 *)
(*                                                                         *)
(* A character is a number.  Positive ones are visible characters of a     *)
(* text, each with a number of its own, and what the renderer itself puts  *)
(* in a text; negative ones are those that line_char looks at.             *)
(***************************************************************************)
EXTENDS Integers, Sequences, SequencesExt, FiniteSets

Space      == -1
Nbsp       == -2
NewLine    == -3
Tab        == -4
SoftHyphen == -5
Hyphen     == -6

Wide       == 100      \* from here on, visible characters take two columns
Decoration == 200      \* from here on, they belong to the renderer

TabWidth == 4          \* characters of RENDER_TAB_DISPLAY

Letters == 1..Decoration - 1

wcwidth(c) == IF c \in Wide..Decoration - 1 THEN 2 ELSE 1

RECURSIVE wcswidth(_)
wcswidth(text) ==
  IF text = <<>> THEN 0 ELSE wcwidth(Head(text)[1]) + wcswidth(Tail(text))

IsWhite(c) == c \in {Space, NewLine, Tab}

\* A line processor with its render target.  A character of a line is a pair
\* with its style.  end counts the characters before a break, 0 is SIZE_MAX.
NewProcessor(lim) ==
  [lim |-> lim, indent |-> 0, end |-> 0, end_is_hyphenated |-> FALSE,
   style |-> {}, style_stack |-> <<>>, lines |-> <<>>, stuck |-> FALSE]

head(l) == Last(l.lines)

\* The last character of the present line, if there is one.
EndsWith(l, Test(_)) == head(l).text # <<>> /\ Test(Last(head(l).text)[1])

line_bump(l) ==
  [l EXCEPT !.lines = Append(@, [text |-> <<>>, indent |-> l.indent]),
            !.end = 0, !.end_is_hyphenated = FALSE]

line_append(l, c) ==
  [l EXCEPT !.lines[Len(l.lines)].text = Append(@, <<c, l.style>>)]

MarkEnd(l, hyphenated) ==
  [l EXCEPT !.end = Len(head(l).text), !.end_is_hyphenated = hyphenated]

\* The subtraction is unsigned, so an indentation beyond the limit is room.
line_soft_hyphen(l) ==
  IF /\ EndsWith(l, LAMBDA c : c # Space)
     /\ \/ l.lim < head(l).indent
        \/ wcswidth(head(l).text) < l.lim - head(l).indent
  THEN MarkEnd(l, TRUE) ELSE l

\* Characters are added by force to an endless line, and where the line or
\* what its indentation leaves of it is too small.
IsForced(l, c) ==
  l.lim = 0 \/ l.lim <= wcwidth(c) \/ l.lim <= head(l).indent

(* Mutant: the indentation of the line is forgotten. *)
RoomBesidesIndent(l, c) == wcswidth(head(l).text) + wcwidth(c) <= l.lim

HasRoomFor(l, c) ==
  wcswidth(head(l).text) + wcwidth(c) <= l.lim - head(l).indent

RECURSIVE line_char(_, _)

(* Mutant: all that is moved gets the style of the last character. *)
SplitWithoutStyles(l) ==
  LET n     == Len(l.lines)
      text  == head(l).text
      solid == {i \in l.end + 1..Len(text) : ~IsWhite(text[i][1])}
      rest  == SubSeq(text, CHOOSE i \in solid : \A j \in solid : i <= j, Len(text))
      moved == FoldLeft(LAMBDA m, x : line_char(m, x[1]), line_bump(l), rest)
  IN  [moved EXCEPT !.lines[n].text =
         SubSeq(text, 1, l.end)
           \o IF l.end_is_hyphenated THEN << <<Hyphen, text[l.end + 1][2]>> >> ELSE <<>>]

\* What follows the break moves to a new line, with its styles.
line_split_at_end(l) ==
  LET n     == Len(l.lines)
      text  == head(l).text
      solid == {i \in l.end + 1..Len(text) : ~IsWhite(text[i][1])}
      rest  == SubSeq(text, CHOOSE i \in solid : \A j \in solid : i <= j, Len(text))
      moved == FoldLeft(LAMBDA m, x : line_char([m EXCEPT !.style = x[2]], x[1]),
                        line_bump(l), rest)
  IN  [moved EXCEPT !.lines[n].text =
         SubSeq(text, 1, l.end)
           \o IF l.end_is_hyphenated THEN << <<Hyphen, text[l.end + 1][2]>> >> ELSE <<>>]

\* An empty line that has no room for the character is followed by another
\* one without end, for the indentation stays: then the processor is stuck.
line_visible(l, c) ==
  LET m == IF c = Space /\ EndsWith(l, LAMBDA x : x # Space)
           THEN MarkEnd(l, FALSE) ELSE l
  IN  CASE IsForced(l, c)   -> line_append(l, c)
        [] ~IsForced(l, c) /\ HasRoomFor(m, c) -> line_append(m, c)
        [] ~IsForced(l, c) /\ ~HasRoomFor(m, c) /\ c = Space -> m
        [] OTHER ->
             IF m.end # 0 THEN line_split_at_end(line_append(m, c))
             ELSE IF head(m).text = <<>> /\ head(m).indent = m.indent
             THEN [m EXCEPT !.stuck = TRUE]
             ELSE line_char(line_bump(m), c)

line_tab(l) ==
  LET previous == l.lines[Len(l.lines) - 1].text
      from     == Len(head(l).text) + 1
      aligned  == {k \in 1..TabWidth :
                     \A i \in from..from + k - 1 :
                       i \in DOMAIN previous /\ IsWhite(previous[i][1])}
      width    == IF Len(l.lines) < 2 \/ aligned = {} THEN TabWidth
                  ELSE CHOOSE k \in aligned : \A j \in aligned : j <= k
  IN  FoldLeft(LAMBDA m, i : line_visible(m, Space), l, [i \in 1..width |-> i])

line_char(l, c) ==
  CASE c = NewLine    -> line_bump(l)
    [] c = Tab        -> line_tab(l)
    [] c = SoftHyphen -> line_soft_hyphen(l)
    [] OTHER          -> line_visible(l, c)

line_string(l, str) == FoldLeft(line_char, l, str)

line_style_update(l) ==
  [l EXCEPT !.style = UNION {l.style_stack[i] : i \in DOMAIN l.style_stack}]

line_style(l, attrs) ==
  line_style_update([l EXCEPT !.style_stack = Append(@, attrs)])

line_unstyle(l) ==
  line_style_update([l EXCEPT !.style_stack = IF @ = <<>> THEN @ ELSE Front(@)])

\* Lines of white space at the end are taken back, the first line never is.
remove_trailing_empty_lines_except_for_first_one(l) ==
  LET solid == {i \in DOMAIN l.lines :
                  \E k \in DOMAIN l.lines[i].text : ~IsWhite(l.lines[i].text[k][1])}
                \cup {1}
  IN  [l EXCEPT !.lines =
         SubSeq(@, 1, CHOOSE i \in solid : \A j \in solid : j <= i)]
=============================================================================
