------------------------------- MODULE ListView -------------------------------
(***************************************************************************)
(* What the terminal shows of a list menu (sections, feeds or items) and   *)
(* of the pager opened over it: interface-list.c, with the handler of      *)
(* resizes in interface.c and the loops that replace a list (feeds.c,      *)
(* items-list.c) or leave a pager (items-pager.c).                         *)
(*                                                                         *)
(* A menu has a range of entries in view, [min, max], and a list menu also *)
(* has a selected entry.  Rows are repainted one by one, two by two or all *)
(* at once, depending on what moved; screen records what each row was      *)
(* painted with last.  All of this happens under interface_lock, so every  *)
(* command, resize or repaint is one action.                               *)
(*                                                                         *)
(* Positions are of type size_t, so a subtraction may wrap around.         *)
(***************************************************************************)
EXTENDS Integers

CONSTANTS
    Heights,        \* possible heights of the list menu, 0 for a tiny terminal
    Counts,         \* possible numbers of entries in the list
    Lines,          \* possible numbers of lines in the pager
    Scrolloffs,     \* possible values of the scrolloff setting
    SizeLimit       \* SIZE_MAX + 1

ASSUME ViewAssumption ==
    /\ Heights \subseteq Nat /\ Counts \subseteq Nat /\ Lines \subseteq Nat
    /\ Scrolloffs \subseteq Nat
    /\ SizeLimit \in Nat
    /\ \A h \in Heights : h <= SizeLimit

VARIABLES
    settings,           \* the scrolloff and scrollwrap settings
    list_menu_height,
    scrolloff,          \* the setting, cut to half of the height
    menu,               \* which menu is started: "none", "list" or "pager"
    count,              \* number of entries in the list
    list,               \* selected entry and range of the list: sel, min, max
    lines,              \* number of lines in the pager
    pager,              \* range of the pager: min, max
    screen              \* what each row shows

menuVars == <<count, list, lines, pager>>
sizeVars == <<settings, list_menu_height, scrolloff>>
vars == <<sizeVars, menu, menuVars, screen>>

-----------------------------------------------------------------------------
Smaller(a, b) == IF a < b THEN a ELSE b
Larger(a, b) == IF a > b THEN a ELSE b

(* a - b of type size_t *)
Minus(a, b) == IF b <= a THEN a - b ELSE a + SizeLimit - b

(* a - b, or 0 if that is negative *)
Cut(a, b) == IF a > b THEN a - b ELSE 0

Rows(h) == 0 .. h - 1

Blank == [shows |-> "blank", entry |-> 0, selected |-> FALSE]

(* A row whose contents are not what they should be any more. *)
Stale == [shows |-> "stale", entry |-> 0, selected |-> FALSE]

AllRows(h, content) == [r \in Rows(h) |-> content]

(* list_menu_writer and pager_menu_writer: nothing beyond the last entry. *)
ListEntry(l, c, i) ==
    IF i < c THEN [shows |-> "entry", entry |-> i, selected |-> i = l.sel] ELSE Blank

PagerLine(n, i) ==
    IF i < n THEN [shows |-> "line", entry |-> i, selected |-> FALSE] ELSE Blank

(* expose_all_visible_entries_of_the_list_menu_unprotected for either of   *)
(* the menus: rows beyond the range keep what they show.                   *)
ShowList(h, l, c, before) ==
    [r \in Rows(h) |-> IF l.min + r <= l.max THEN ListEntry(l, c, l.min + r) ELSE before[r]]

ShowPager(h, p, n, before) ==
    [r \in Rows(h) |-> IF p.min + r <= p.max THEN PagerLine(n, p.min + r) ELSE before[r]]

-----------------------------------------------------------------------------
(* Mutant: the range is cut to the entries, however few there are. *)
LowerMaxToLast(h, max, entries) ==
    IF max < entries THEN max ELSE Cut(entries, 1)

(* The loops that lower view_max while it is not the index of an entry,    *)
(* but never below the last row of a menu that shows its first entry.      *)
LowerMax(h, max, entries) ==
    IF max < h \/ max < entries THEN max ELSE Larger(entries, h) - 1

RangeUpTo(h, max) == [min |-> Minus(max, h - 1), max |-> max]

(* adjust_view_range_unprotected for a pager and for a list *)
AdjustPager(h, p, n) == RangeUpTo(h, LowerMax(h, p.min + (h - 1), n))

AdjustList(h, margin, l, c) ==
    LET min == Smaller(l.min, Cut(l.sel, margin))
        max == Larger(min + (h - 1), l.sel + margin)
        range == RangeUpTo(h, LowerMax(h, max, c))
    IN  [sel |-> l.sel, min |-> range.min, max |-> range.max]

(* What redraw_list_menu_unprotected does to the ranges of the menus. *)
RedrawnList(h, margin, l, c) == IF h > 0 THEN AdjustList(h, margin, l, c) ELSE l
RedrawnPager(h, p, n) == IF h > 0 THEN AdjustPager(h, p, n) ELSE p

-----------------------------------------------------------------------------
(* change_list_view_unprotected: where a wrappable move goes to *)
Wrapped(target) ==
    IF ~settings.scrollwrap THEN target
    ELSE IF target > list.sel /\ list.sel + 1 = count THEN 0
    ELSE IF target = 0 /\ list.sel = 0 THEN count
    ELSE target

(* The entry closest to the target, if there are any entries. *)
Nearest(target, entries) == Smaller(target, entries - 1)

(* The new selection comes too close to the end of the view, or to its     *)
(* beginning, so the view has to scroll.                                   *)
ScrollsDown(n) == n + scrolloff > list.max
ScrollsUp(n) ==
    \/ n >= scrolloff /\ n - scrolloff < list.min
    \/ n < scrolloff /\ list.min > 0

Downwards(n) ==
    LET range == RangeUpTo(list_menu_height, LowerMax(list_menu_height, n + scrolloff, count))
    IN  [sel |-> n, min |-> range.min, max |-> range.max]

(* Mutant: scrolling up does not care for an even number of rows. *)
UpwardsWithoutHalf(n) ==
    LET min == Cut(n, scrolloff)
    IN  [sel |-> n, min |-> min, max |-> min + (list_menu_height - 1)]

(* Mutant: scrolling up puts the selection at the bottom. *)
UpwardsByPage(n) ==
    LET min == Cut(n, list_menu_height - 1 - scrolloff)
    IN  [sel |-> n, min |-> min, max |-> min + (list_menu_height - 1)]

Upwards(n) ==
    LET half == scrolloff = list_menu_height \div 2 /\ list_menu_height % 2 = 0
        min == IF n < scrolloff THEN 0 ELSE n - scrolloff + (IF half THEN 1 ELSE 0)
    IN  [sel |-> n, min |-> min, max |-> min + (list_menu_height - 1)]

Moved(target) ==
    LET n == Nearest(target, count)
    IN  IF list_menu_height = 0 \/ count = 0 THEN list
        ELSE IF ScrollsDown(n) THEN Downwards(n)
        ELSE IF ScrollsUp(n) THEN Upwards(n)
        ELSE [list EXCEPT !.sel = n]

(* Mutant: the old selection stays highlighted. *)
RepaintNewOnly(n) ==
    IF n = list.sel THEN screen
    ELSE [screen EXCEPT ![Minus(n, list.min)].selected = TRUE]

(* Only the rows of the old and the new selection are repainted, in place. *)
RepaintSelection(n) ==
    IF n = list.sel THEN screen
    ELSE [screen EXCEPT ![Minus(list.sel, list.min)].selected = FALSE,
                        ![Minus(n, list.min)].selected = TRUE]

RepaintMoved(target) ==
    LET n == Nearest(target, count)
    IN  IF list_menu_height = 0 \/ count = 0 THEN screen
        ELSE IF ScrollsDown(n) \/ ScrollsUp(n)
             THEN ShowList(list_menu_height, Moved(target), count, screen)
        ELSE RepaintSelection(n)

-----------------------------------------------------------------------------
(* menu_start of the list menu, be it new or one that the user returns to. *)
StartList ==
    /\ menu = "none"
    /\ menu' = "list"
    /\ list' = RedrawnList(list_menu_height, scrolloff, list, count)
    /\ screen' = ShowList(list_menu_height, list', count, AllRows(list_menu_height, Stale))
    /\ UNCHANGED <<sizeVars, count, lines, pager>>

(* The select-* commands of handle_list_menu_control. *)
Targets ==
    LET page == list_menu_height
        half == list_menu_height \div 2
    IN  {Wrapped(list.sel + 1), Wrapped(Cut(list.sel, 1)),
         Wrapped(list.sel + page), Wrapped(Cut(list.sel, page)),
         Wrapped(list.sel + half), Wrapped(Cut(list.sel, half)),
         0, count}

(* The jump-to-* commands.  Which entries are unread, important or failed  *)
(* is arbitrary, and so is the entry a jump finds, except that only a jump *)
(* which wraps around can end where it began.                              *)
JumpTargets ==
    {Wrapped(list.sel + 1), Wrapped(Cut(list.sel, 1))} \cup
    {i \in 0 .. count - 1 : settings.scrollwrap \/ i # list.sel}

Select ==
    /\ menu = "list"
    /\ \E target \in Targets \cup JumpTargets :
        /\ list' = Moved(target)
        /\ screen' = RepaintMoved(target)
    /\ UNCHANGED <<sizeVars, menu, count, lines, pager>>

(* reset_list_menu_unprotected: the selected entry may be gone. *)
Reset(l, c) == IF l.sel < c THEN l ELSE [l EXCEPT !.sel = 0, !.min = 0]

(* rebuild_feeds, update_menu_item_list: the list is replaced, and the     *)
(* selected entry is looked for in the new one.                            *)
Rebuild ==
    /\ menu = "list"
    /\ count' \in Counts \ {0}
    /\ \E found \in {list.sel} \cup (0 .. count' - 1) :
        list' = RedrawnList(list_menu_height, scrolloff,
                            Reset([list EXCEPT !.sel = found], count'), count')
    /\ screen' = ShowList(list_menu_height, list', count', AllRows(list_menu_height, Stale))
    /\ UNCHANGED <<sizeVars, menu, lines, pager>>

(* The contents of any entries change and all visible ones are exposed:    *)
(* sorting, horizontal shifts, the inserter's updates.                     *)
Refresh ==
    /\ screen' = CASE menu = "list" -> ShowList(list_menu_height, list, count, AllRows(list_menu_height, Stale))
                   [] menu = "pager" -> ShowPager(list_menu_height, pager, lines, screen)
                   [] OTHER -> screen
    /\ UNCHANGED <<sizeVars, menu, menuVars>>

(* An entry is marked as read or important: its row alone is exposed. *)
MarkSelected ==
    /\ menu = "list"
    /\ count > 0
    /\ screen' = [r \in Rows(list_menu_height) |->
                    IF list.min + r = list.sel /\ list.sel <= list.max
                    THEN ListEntry(list, count, list.sel) ELSE screen[r]]
    /\ UNCHANGED <<sizeVars, menu, menuVars>>

-----------------------------------------------------------------------------
(* menu_start of a pager, which is always a new menu, for n lines of text. *)
StartPager(n) ==
    /\ menu' = "pager"
    /\ lines' = n
    /\ pager' = RedrawnPager(list_menu_height, [min |-> 0, max |-> 0], n)
    /\ screen' = ShowPager(list_menu_height, pager', n, AllRows(list_menu_height, Stale))

OpenPager ==
    /\ menu = "list"
    /\ count > 0
    /\ \E n \in Lines : StartPager(n)
    /\ UNCHANGED <<sizeVars, count, list>>

(* change_pager_view_unprotected: the view starts at the target unless the *)
(* text ends before the view does.                                         *)
PageStart(target) ==
    LET n == Nearest(target, lines)
    IN  IF lines - n < list_menu_height THEN Cut(lines, list_menu_height) ELSE n

(* The commands of handle_pager_menu_control. *)
PagerTargets ==
    LET page == list_menu_height
        half == list_menu_height \div 2
    IN  {pager.min + 1, Cut(pager.min, 1),
         pager.min + page, Cut(pager.min, page),
         pager.min + half, Cut(pager.min, half),
         0, lines}

ScrollPager ==
    /\ menu = "pager"
    /\ list_menu_height > 0
    /\ lines > 0
    /\ \E target \in PagerTargets :
        /\ PageStart(target) # pager.min
        /\ pager' = RangeUpTo(list_menu_height,
                        LowerMax(list_menu_height, PageStart(target) + (list_menu_height - 1), lines))
    /\ screen' = ShowPager(list_menu_height, pager', lines, screen)
    /\ UNCHANGED <<sizeVars, menu, count, list, lines>>

(* The jump-to-* commands of item_pager_loop move the selection of the     *)
(* list underneath, whose view is the one it was left with, and reopen the *)
(* pager for the newly selected item.                                      *)
JumpInPager ==
    /\ menu = "pager"
    /\ \E target \in JumpTargets :
        /\ list' = Moved(target)
        /\ \/ /\ list'.sel = list.sel
              /\ UNCHANGED <<menu, lines, pager, screen>>
           \/ /\ list'.sel # list.sel
              /\ \E n \in Lines : StartPager(n)
    /\ UNCHANGED <<sizeVars, count>>

(* Mutant: menu_start does not redraw a menu which is already initialized. *)
ReturnWithoutRedraw ==
    /\ menu = "pager"
    /\ menu' = "list"
    /\ screen' = ShowList(list_menu_height, list, count, AllRows(list_menu_height, Stale))
    /\ UNCHANGED <<sizeVars, menuVars>>

(* menu_close of the pager, menu_start of the list. *)
ClosePager ==
    /\ menu = "pager"
    /\ menu' = "list"
    /\ list' = RedrawnList(list_menu_height, scrolloff, list, count)
    /\ screen' = ShowList(list_menu_height, list', count, AllRows(list_menu_height, Stale))
    /\ UNCHANGED <<sizeVars, count, lines, pager>>

-----------------------------------------------------------------------------
(* adjust_list_menu *)
AdjustMenu(h) ==
    /\ list_menu_height' = h
    /\ scrolloff' = Smaller(settings.scrolloff, h \div 2)
    /\ UNCHANGED settings

(* resize_handler: the text of a pager is rendered again for the new width. *)
Resize ==
    /\ menu # "none"
    /\ \E h \in Heights :
        /\ AdjustMenu(h)
        /\ \/ /\ menu = "list"
              /\ list' = RedrawnList(h, scrolloff', list, count)
              /\ screen' = ShowList(h, list', count, AllRows(h, Blank))
              /\ UNCHANGED <<lines, pager>>
           \/ /\ menu = "pager"
              /\ lines' \in Lines
              /\ pager' = RedrawnPager(h, pager, lines')
              /\ screen' = ShowPager(h, pager', lines', AllRows(h, Blank))
              /\ UNCHANGED list
    /\ UNCHANGED <<menu, count>>

-----------------------------------------------------------------------------
Init ==
    /\ settings \in [scrolloff : Scrolloffs, scrollwrap : BOOLEAN]
    /\ list_menu_height \in Heights
    /\ scrolloff = Smaller(settings.scrolloff, list_menu_height \div 2)
    /\ menu = "none"
    /\ count \in Counts
    /\ list = [sel |-> 0, min |-> 0, max |-> 0]
    /\ lines = 0
    /\ pager = [min |-> 0, max |-> 0]
    /\ screen = AllRows(list_menu_height, Blank)

Next ==
    \/ StartList \/ Select \/ Rebuild \/ MarkSelected
    \/ Refresh \/ Resize
    \/ OpenPager \/ ScrollPager \/ JumpInPager \/ ClosePager

Spec == Init /\ [][Next]_vars

-----------------------------------------------------------------------------
RowContent == [shows : {"blank", "stale", "entry", "line"}, entry : Nat, selected : BOOLEAN]

TypeOK ==
    /\ settings \in [scrolloff : Scrolloffs, scrollwrap : BOOLEAN]
    /\ list_menu_height \in Heights
    /\ scrolloff = Smaller(settings.scrolloff, list_menu_height \div 2)
    /\ menu \in {"none", "list", "pager"}
    /\ count \in Counts
    /\ list \in [sel : Nat, min : Nat, max : Nat]
    /\ lines \in Lines \cup {0}
    /\ pager \in [min : Nat, max : Nat]
    /\ screen \in [Rows(list_menu_height) -> RowContent]

(* The menu m is started and there are rows to show it in. *)
InView(m) == menu = m /\ list_menu_height > 0

(* The range of h rows shows as many of the given entries as it can. *)
Fills(range, entries, h) ==
    /\ range.max = range.min + (h - 1)
    /\ range.min > 0 => range.max < entries

(* The selected entry exists, whatever a rebuild of the list or a jump of  *)
(* the pager has done to it, unless the list is empty.                     *)
SelectionExists == list.sel < count \/ (count = 0 /\ list.sel = 0)

(* A list in view shows its selected entry, and no row is left empty while *)
(* there are entries above the view; the view is made good for this after  *)
(* the pager has moved the selection under another height of the terminal. *)
ListViewFits ==
    /\ SelectionExists
    /\ InView("list") =>
        /\ list.min <= list.sel /\ list.sel <= list.max
        /\ Fills(list, count, list_menu_height)

(* The pager never scrolls past the end of its text, which may get shorter *)
(* when a resize renders it anew.                                          *)
PagerViewFits == InView("pager") => Fills(pager, lines, list_menu_height)

(* The selected entry has scrolloff entries below and above it in view,    *)
(* except near the ends of the list.  When the margin is half of an even   *)
(* number of rows there is one entry less above.                           *)
MarginsKept ==
    LET above == IF 2 * scrolloff = list_menu_height THEN Cut(scrolloff, 1) ELSE scrolloff
    IN  InView("list") =>
            /\ list.min = 0 \/ list.min + above <= list.sel
            /\ list.max + 1 >= count \/ list.sel + scrolloff <= list.max

(* However little was repainted, every row shows what the view of the menu *)
(* says, and the selected entry is the one highlighted.                    *)
ScreenIsCurrent ==
    /\ InView("list") =>
        \A r \in Rows(list_menu_height) : screen[r] = ListEntry(list, count, list.min + r)
    /\ InView("pager") =>
        \A r \in Rows(list_menu_height) : screen[r] = PagerLine(lines, pager.min + r)

(* Together they are inductive. *)
ViewInvariant == TypeOK /\ ListViewFits /\ PagerViewFits /\ MarginsKept /\ ScreenIsCurrent

(* Selecting the next or the previous entry scrolls by one row at most. *)
ScrollsSmoothly ==
    [][ InView("list") /\ InView("list")' /\ UNCHANGED <<list_menu_height, count>>
        /\ list'.sel \in {list.sel - 1, list.sel + 1}
        => list'.min \in {list.min - 1, list.min, list.min + 1} ]_vars
=============================================================================
