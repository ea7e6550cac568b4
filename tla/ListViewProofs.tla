---------------------------- MODULE ListViewProofs ----------------------------
(* Proofs about ListView for any heights, lists, texts and settings: every *)
(* invariant of the view, the screen, and how smoothly the view scrolls.   *)
EXTENDS ListView, TLAPS

(* A list as menu_state keeps it. *)
ListType == [sel : Nat, min : Nat, max : Nat]

(* The selected entry of l is one of c entries, unless there are none. *)
Exists(l, c) == l.sel < c \/ (c = 0 /\ l.sel = 0)

(* The view of l is what ListViewFits and MarginsKept ask for. *)
Fits(h, margin, l, c) ==
    /\ l.min <= l.sel /\ l.sel <= l.max
    /\ Fills(l, c, h)
    /\ l.min = 0 \/ l.min + (IF 2 * margin = h THEN Cut(margin, 1) ELSE margin) <= l.sel
    /\ l.max + 1 >= c \/ l.sel + margin <= l.max

(* adjust_list_menu cuts the margin to half of the height. *)
LEMMA MarginIsSmall ==
    ASSUME NEW h \in Nat, NEW s \in Nat
    PROVE  /\ Smaller(s, h \div 2) \in Nat
           /\ 2 * Smaller(s, h \div 2) <= h
BY DEF Smaller

(* The test for a margin of half of an even number of rows. *)
LEMMA HalfOfEven ==
    ASSUME NEW h \in Nat, NEW m \in Nat
    PROVE  (m = h \div 2 /\ h % 2 = 0) <=> 2 * m = h
OBVIOUS

(* The loop on view_max ends at an entry, or with the view at the top, and *)
(* lowers nothing without need.                                            *)
LEMMA Lowered ==
    ASSUME NEW h \in Nat, h > 0, NEW max \in Nat, max >= h - 1, NEW c \in Nat
    PROVE  LET low == LowerMax(h, max, c)
           IN  /\ low \in Nat /\ h - 1 <= low /\ low <= max
               /\ low >= h => low < c
               /\ low = max \/ low + 1 >= c
               /\ low < max => low + 1 = c \/ (low = h - 1 /\ c <= h)
               /\ RangeUpTo(h, low) = [min |-> low - (h - 1), max |-> low]
BY DEF LowerMax, Larger, RangeUpTo, Minus

(* adjust_view_range_unprotected makes any view of a list fit, even one    *)
(* that wrapped around.                                                    *)
LEMMA AdjustFits ==
    ASSUME NEW h \in Nat, h > 0, NEW m \in Nat, 2 * m <= h,
           NEW l \in ListType, NEW c \in Nat, Exists(l, c)
    PROVE  /\ AdjustList(h, m, l, c) \in ListType
           /\ AdjustList(h, m, l, c).sel = l.sel
           /\ Fits(h, m, AdjustList(h, m, l, c), c)
<1> DEFINE min == Smaller(l.min, Cut(l.sel, m))
           max == Larger(min + (h - 1), l.sel + m)
           low == LowerMax(h, max, c)
<1>1. l.sel \in Nat /\ l.min \in Nat
  BY DEF ListType
<1>2. min \in Nat /\ min <= l.sel /\ (l.sel < m => min = 0) /\ (l.sel >= m => min + m <= l.sel)
  BY <1>1 DEF Smaller, Cut
<1>3. max \in Nat /\ max >= min + (h - 1) /\ max >= l.sel + m /\ (max = min + (h - 1) \/ max = l.sel + m)
  BY <1>1, <1>2 DEF Larger
<1> HIDE DEF min, max
<1>4. /\ low \in Nat /\ h - 1 <= low /\ low <= max
      /\ low >= h => low < c
      /\ low = max \/ low + 1 >= c
      /\ low < max => low + 1 = c \/ (low = h - 1 /\ c <= h)
      /\ RangeUpTo(h, low) = [min |-> low - (h - 1), max |-> low]
  <2>1. max \in Nat /\ max >= h - 1
    BY <1>2, <1>3
  <2> QED BY <2>1, Lowered
<1>5. AdjustList(h, m, l, c) = [sel |-> l.sel, min |-> low - (h - 1), max |-> low]
  BY <1>4 DEF AdjustList, min, max
<1> HIDE DEF low
<1>6. low - (h - 1) \in Nat /\ low - (h - 1) <= l.sel /\ l.sel <= low
  BY <1>1, <1>2, <1>3, <1>4 DEF Exists
<1>7. low - (h - 1) = 0 \/ low - (h - 1) + (IF 2 * m = h THEN Cut(m, 1) ELSE m) <= l.sel
  BY <1>1, <1>2, <1>3, <1>4 DEF Cut
<1> DEFINE a == AdjustList(h, m, l, c)
<1>8. a.sel = l.sel /\ a.min = low - (h - 1) /\ a.max = low /\ a \in ListType
  BY <1>1, <1>4, <1>5, <1>6 DEF ListType
<1> HIDE DEF a
<1>9. Fits(h, m, a, c)
  BY <1>1, <1>2, <1>3, <1>4, <1>6, <1>7, <1>8 DEF Fits, Fills
<1> QED BY <1>8, <1>9 DEF a

(* The same for the text of a pager. *)
LEMMA AdjustPagerFits ==
    ASSUME NEW h \in Nat, h > 0, NEW p \in [min : Nat, max : Nat], NEW n \in Nat
    PROVE  /\ AdjustPager(h, p, n) \in [min : Nat, max : Nat]
           /\ Fills(AdjustPager(h, p, n), n, h)
<1> DEFINE low == LowerMax(h, p.min + (h - 1), n)
<1>1. p.min \in Nat /\ p.min + (h - 1) \in Nat /\ p.min + (h - 1) >= h - 1
  OBVIOUS
<1>2. low \in Nat /\ h - 1 <= low /\ (low >= h => low < n)
      /\ AdjustPager(h, p, n) = [min |-> low - (h - 1), max |-> low]
  BY <1>1, Lowered DEF AdjustPager
<1> HIDE DEF low
<1> QED BY <1>2 DEF Fills

-----------------------------------------------------------------------------
(* change_list_view_unprotected leaves a selected entry which exists, and  *)
(* a view in use that fits it.                                             *)
LEMMA MoveSelects ==
    ASSUME TypeOK, SelectionExists, NEW target \in Nat
    PROVE  Moved(target) \in ListType /\ Exists(Moved(target), count)
<1> DEFINE n == Nearest(target, count)
           h == list_menu_height
<1>0. /\ h \in Nat /\ h <= SizeLimit /\ SizeLimit \in Nat /\ scrolloff \in Nat /\ count \in Nat
      /\ list \in ListType
  BY ViewAssumption, MarginIsSmall DEF TypeOK, ListType
<1>1. CASE h = 0 \/ count = 0
  BY <1>0, <1>1 DEF Moved, SelectionExists, Exists
<1>2. CASE h > 0 /\ count > 0
  <2>1. n \in Nat /\ n < count
    BY <1>0, <1>2 DEF Nearest, Smaller
  <2> HIDE DEF n
  <2>2. Downwards(n) \in ListType /\ Downwards(n).sel = n
    <3>1. LowerMax(h, n + scrolloff, count) \in Nat
      BY <1>0, <2>1 DEF LowerMax, Larger
    <3>2. Minus(LowerMax(h, n + scrolloff, count), h - 1) \in Nat
      BY <1>0, <1>2, <3>1 DEF Minus
    <3> QED BY <2>1, <3>1, <3>2 DEF Downwards, RangeUpTo, ListType
  <2>3. ScrollsUp(n) => Upwards(n) \in ListType /\ Upwards(n).sel = n
    BY <1>0, <1>2, <2>1 DEF Upwards, ListType
  <2>4. [list EXCEPT !.sel = n] \in ListType /\ [list EXCEPT !.sel = n].sel = n
    BY <1>0, <2>1 DEF ListType
  <2> QED BY <1>0, <1>2, <2>1, <2>2, <2>3, <2>4 DEF Moved, Exists, n
<1> QED BY <1>0, <1>1, <1>2

(* A move of the selection leaves a view that fits it, and a move by one   *)
(* entry scrolls the view by one row at most.                              *)
LEMMA MoveFits ==
    ASSUME TypeOK, SelectionExists, list_menu_height > 0,
           Fits(list_menu_height, scrolloff, list, count), NEW target \in Nat
    PROVE  /\ Fits(list_menu_height, scrolloff, Moved(target), count)
           /\ Moved(target).sel \in {list.sel - 1, list.sel + 1} =>
                Moved(target).min \in {list.min - 1, list.min, list.min + 1}
<1> DEFINE n == Nearest(target, count)
           h == list_menu_height
           above == IF 2 * scrolloff = h THEN Cut(scrolloff, 1) ELSE scrolloff
<1>0. /\ h \in Nat /\ scrolloff \in Nat /\ 2 * scrolloff <= h /\ count \in Nat
      /\ list.sel \in Nat /\ list.min \in Nat /\ list.max \in Nat
      /\ list \in ListType
  BY ViewAssumption, MarginIsSmall DEF TypeOK, ListType
<1>1. CASE count = 0
  <2>1. Moved(target) = list
    BY <1>1 DEF Moved
  <2>2. Fits(h, scrolloff, Moved(target), count)
    BY <2>1
  <2>3. ~(Moved(target).sel \in {list.sel - 1, list.sel + 1})
    BY <1>0, <2>1
  <2> QED BY <2>2, <2>3
<1>2. CASE count > 0
  <2>1. n \in Nat /\ n < count
    BY <1>0, <1>2 DEF Nearest, Smaller
  <2> HIDE DEF n
  <2>2. /\ above \in Nat /\ above <= scrolloff /\ above + scrolloff <= h - 1
        /\ 2 * scrolloff = h => above = scrolloff - 1
        /\ 2 * scrolloff # h => above = scrolloff
    BY <1>0 DEF Cut
  <2>3. /\ list.min <= list.sel /\ list.sel <= list.max
        /\ list.max = list.min + (h - 1)
        /\ list.min > 0 => list.max < count
        /\ list.min = 0 \/ list.min + above <= list.sel
        /\ list.max + 1 >= count \/ list.sel + scrolloff <= list.max
    BY DEF Fits, Fills
  <2> HIDE DEF above
  <2>4. CASE ScrollsDown(n)
    <3> DEFINE low == LowerMax(h, n + scrolloff, count)
    <3>1. /\ n + scrolloff > list.max
          /\ h \in Nat /\ h > 0 /\ n + scrolloff \in Nat /\ n + scrolloff >= h - 1 /\ count \in Nat
      BY <1>0, <2>1, <2>3, <2>4 DEF ScrollsDown
    <3>2. /\ low \in Nat /\ h - 1 <= low /\ low <= n + scrolloff
          /\ low >= h => low < count
          /\ low = n + scrolloff \/ low + 1 >= count
          /\ low < n + scrolloff => low + 1 = count \/ (low = h - 1 /\ count <= h)
          /\ RangeUpTo(h, low) = [min |-> low - (h - 1), max |-> low]
      <4>1. PICK m \in Nat : m = n + scrolloff
        BY <3>1
      <4>2. PICK k : k = LowerMax(h, m, count)
        OBVIOUS
      <4>3. /\ k \in Nat /\ h - 1 <= k /\ k <= m
            /\ k >= h => k < count
            /\ k = m \/ k + 1 >= count
            /\ k < m => k + 1 = count \/ (k = h - 1 /\ count <= h)
            /\ RangeUpTo(h, k) = [min |-> k - (h - 1), max |-> k]
        BY <3>1, <4>1, <4>2, Lowered
      <4> QED BY <4>1, <4>2, <4>3
    <3>3. Moved(target) = [sel |-> n, min |-> low - (h - 1), max |-> low]
      BY <1>0, <1>2, <2>4, <3>2 DEF Moved, Downwards, n
    <3> HIDE DEF low
    <3>4. low - (h - 1) <= n /\ n <= low
      BY <1>0, <2>1, <2>2, <3>2
    <3>5. low - (h - 1) = 0 \/ low - (h - 1) + above <= n
      BY <1>0, <2>1, <2>2, <3>2
    <3>6. low + 1 >= count \/ n + scrolloff <= low
      BY <3>2
    <3>7. n \in {list.sel - 1, list.sel + 1} => low - (h - 1) \in {list.min - 1, list.min, list.min + 1}
      BY <1>0, <2>1, <2>2, <2>3, <3>1, <3>2
    <3> QED BY <1>0, <2>1, <3>2, <3>3, <3>4, <3>5, <3>6, <3>7 DEF Fits, Fills, above
  <2>5. CASE ~ScrollsDown(n) /\ ScrollsUp(n)
    <3> DEFINE top == IF n < scrolloff THEN 0 ELSE IF 2 * scrolloff = h THEN n - scrolloff + 1 ELSE n - scrolloff
    <3>1. Moved(target) = [sel |-> n, min |-> top, max |-> top + (h - 1)]
      BY <1>0, <1>2, <2>1, <2>5, HalfOfEven DEF Moved, Upwards, n
    <3>2. n + scrolloff <= list.max
      BY <1>0, <2>1, <2>5 DEF ScrollsDown
    <3>3. /\ n >= scrolloff => n - scrolloff < list.min
          /\ n < scrolloff => list.min > 0
      BY <1>0, <2>1, <2>5 DEF ScrollsUp
    <3>4. /\ top \in Nat /\ top <= n /\ n + scrolloff <= top + (h - 1)
          /\ top = 0 \/ top + above <= n
          /\ top <= list.min
      BY <1>0, <2>1, <2>2, <3>3
    <3>5. n \in {list.sel - 1, list.sel + 1} => top \in {list.min - 1, list.min, list.min + 1}
      BY <1>0, <2>1, <2>2, <2>3, <3>3, <3>2
    <3> HIDE DEF top
    <3> DEFINE l == Moved(target)
    <3>6. l.sel = n /\ l.min = top /\ l.max = top + (h - 1)
      BY <3>1
    <3> HIDE DEF l
    <3>7. Fits(h, scrolloff, l, count)
      BY <1>0, <2>1, <2>3, <3>4, <3>6 DEF Fits, Fills, above
    <3> QED BY <3>5, <3>6, <3>7 DEF l
  <2>6. CASE ~ScrollsDown(n) /\ ~ScrollsUp(n)
    <3>1. Moved(target) = [list EXCEPT !.sel = n]
      BY <1>0, <1>2, <2>6 DEF Moved, n
    <3>2. /\ n + scrolloff <= list.max
          /\ n >= scrolloff => n - scrolloff >= list.min
          /\ n < scrolloff => list.min = 0
      BY <1>0, <2>1, <2>6 DEF ScrollsDown, ScrollsUp
    <3> DEFINE l == Moved(target)
    <3>3. l.sel = n /\ l.min = list.min /\ l.max = list.max
      BY <1>0, <3>1 DEF ListType
    <3> HIDE DEF l
    <3>4. Fits(h, scrolloff, l, count)
      BY <1>0, <2>1, <2>2, <2>3, <3>2, <3>3 DEF Fits, Fills, above
    <3> QED BY <1>0, <3>3, <3>4 DEF l
  <2> QED BY <2>4, <2>5, <2>6
<1> QED BY <1>0, <1>1, <1>2

-----------------------------------------------------------------------------
(* What expose_all_visible_entries_of_the_list_menu_unprotected paints of  *)
(* a list whose view fills the rows: all of them.                          *)
LEMMA ListShown ==
    ASSUME NEW h \in Nat, NEW l \in ListType, NEW c \in Nat,
           NEW before \in [Rows(h) -> RowContent]
    PROVE  /\ ShowList(h, l, c, before) \in [Rows(h) -> RowContent]
           /\ Fills(l, c, h) =>
                \A r \in Rows(h) : ShowList(h, l, c, before)[r] = ListEntry(l, c, l.min + r)
<1>1. ASSUME NEW r \in Rows(h)
      PROVE  ListEntry(l, c, l.min + r) \in RowContent /\ r \in Nat /\ r <= h - 1
  BY DEF Rows, ListType, ListEntry, RowContent, Blank
<1>2. ASSUME Fills(l, c, h), NEW r \in Rows(h) PROVE l.min + r <= l.max
  BY <1>1, <1>2 DEF ListType, Fills
<1> QED BY <1>1, <1>2 DEF ShowList

(* And of a pager. *)
LEMMA PagerShown ==
    ASSUME NEW h \in Nat, NEW p \in [min : Nat, max : Nat], NEW n \in Nat,
           NEW before \in [Rows(h) -> RowContent]
    PROVE  /\ ShowPager(h, p, n, before) \in [Rows(h) -> RowContent]
           /\ Fills(p, n, h) =>
                \A r \in Rows(h) : ShowPager(h, p, n, before)[r] = PagerLine(n, p.min + r)
<1>1. ASSUME NEW r \in Rows(h)
      PROVE  PagerLine(n, p.min + r) \in RowContent /\ r \in Nat /\ r <= h - 1
  BY DEF Rows, PagerLine, RowContent, Blank
<1>2. ASSUME Fills(p, n, h), NEW r \in Rows(h) PROVE p.min + r <= p.max
  BY <1>1, <1>2 DEF Fills
<1> QED BY <1>1, <1>2 DEF ShowPager

(* A screen without anything of use on it is a screen. *)
LEMMA EmptyScreens ==
    ASSUME NEW h \in Nat
    PROVE  /\ AllRows(h, Stale) \in [Rows(h) -> RowContent]
           /\ AllRows(h, Blank) \in [Rows(h) -> RowContent]
BY DEF AllRows, Stale, Blank, RowContent

(* The settings and the size of the menu have their types. *)
SizeOK ==
    /\ settings \in [scrolloff : Scrolloffs, scrollwrap : BOOLEAN]
    /\ list_menu_height \in Heights
    /\ scrolloff = Smaller(settings.scrolloff, list_menu_height \div 2)

(* The variables of both menus have their types and a selection exists. *)
MenusOK ==
    /\ count \in Counts /\ list \in ListType /\ Exists(list, count)
    /\ lines \in Lines \cup {0} /\ pager \in [min : Nat, max : Nat]

ListRows == \A r \in Rows(list_menu_height) : screen[r] = ListEntry(list, count, list.min + r)
PagerRows == \A r \in Rows(list_menu_height) : screen[r] = PagerLine(lines, pager.min + r)

(* The invariant, sorted by what is in view. *)
SortedInvariant ==
    /\ SizeOK /\ MenusOK
    /\ menu \in {"none", "list", "pager"}
    /\ screen \in [Rows(list_menu_height) -> RowContent]
    /\ InView("list") => Fits(list_menu_height, scrolloff, list, count) /\ ListRows
    /\ InView("pager") => Fills(pager, lines, list_menu_height) /\ PagerRows

(* It says the same as the invariant of the module.                        *)
LEMMA Sorted == (ViewInvariant <=> SortedInvariant) /\ (ViewInvariant' <=> SortedInvariant')
BY DEF SortedInvariant, ViewInvariant, TypeOK, ListViewFits, PagerViewFits, MarginsKept,
    ScreenIsCurrent, SelectionExists, SizeOK, MenusOK, ListType, Exists, Fits, ListRows, PagerRows

(* redraw_list_menu_unprotected of a list makes it ready to be in view. *)
LEMMA RedrawnListFits ==
    ASSUME NEW h \in Nat, NEW m \in Nat, 2 * m <= h,
           NEW l \in ListType, NEW c \in Nat, Exists(l, c)
    PROVE  /\ RedrawnList(h, m, l, c) \in ListType
           /\ Exists(RedrawnList(h, m, l, c), c)
           /\ h > 0 => Fits(h, m, RedrawnList(h, m, l, c), c)
BY AdjustFits DEF RedrawnList, Exists

(* The same for a pager.                                                   *)
LEMMA RedrawnPagerFits ==
    ASSUME NEW h \in Nat, NEW p \in [min : Nat, max : Nat], NEW n \in Nat
    PROVE  /\ RedrawnPager(h, p, n) \in [min : Nat, max : Nat]
           /\ h > 0 => Fills(RedrawnPager(h, p, n), n, h)
BY AdjustPagerFits DEF RedrawnPager

(* A redrawn list shows its entries, whatever was on the screen before. *)
LEMMA ListReady ==
    ASSUME NEW h \in Nat, NEW m \in Nat, 2 * m <= h,
           NEW l \in ListType, NEW c \in Nat, Exists(l, c),
           NEW before \in [Rows(h) -> RowContent],
           NEW a, a = RedrawnList(h, m, l, c)
    PROVE  /\ a \in ListType /\ Exists(a, c)
           /\ ShowList(h, a, c, before) \in [Rows(h) -> RowContent]
           /\ h > 0 => Fits(h, m, a, c)
           /\ h > 0 => \A r \in Rows(h) : ShowList(h, a, c, before)[r] = ListEntry(a, c, a.min + r)
<1>1. a \in ListType /\ Exists(a, c) /\ (h > 0 => Fits(h, m, a, c))
  BY RedrawnListFits
<1>2. h > 0 => Fills(a, c, h)
  BY <1>1 DEF Fits
<1> QED BY <1>1, <1>2, ListShown

(* And a redrawn pager the lines of its text.                              *)
LEMMA PagerReady ==
    ASSUME NEW h \in Nat, NEW p \in [min : Nat, max : Nat], NEW n \in Nat,
           NEW before \in [Rows(h) -> RowContent],
           NEW a, a = RedrawnPager(h, p, n)
    PROVE  /\ a \in [min : Nat, max : Nat]
           /\ ShowPager(h, a, n, before) \in [Rows(h) -> RowContent]
           /\ h > 0 => Fills(a, n, h)
           /\ h > 0 => \A r \in Rows(h) : ShowPager(h, a, n, before)[r] = PagerLine(n, a.min + r)
<1>1. a \in [min : Nat, max : Nat] /\ (h > 0 => Fills(a, n, h))
  BY RedrawnPagerFits
<1>2. /\ ShowPager(h, a, n, before) \in [Rows(h) -> RowContent]
      /\ Fills(a, n, h) => \A r \in Rows(h) : ShowPager(h, a, n, before)[r] = PagerLine(n, a.min + r)
  BY <1>1, PagerShown
<1> QED BY <1>1, <1>2

(* The sizes are what the lemmas above ask for. *)
LEMMA Sizes ==
    ASSUME SizeOK, MenusOK
    PROVE  /\ list_menu_height \in Nat /\ scrolloff \in Nat /\ 2 * scrolloff <= list_menu_height
           /\ count \in Nat /\ lines \in Nat
<1>1. /\ settings.scrolloff \in Nat /\ list_menu_height \in Nat
      /\ scrolloff = Smaller(settings.scrolloff, list_menu_height \div 2)
  BY ViewAssumption DEF SizeOK
<1>2. scrolloff \in Nat /\ 2 * scrolloff <= list_menu_height
  BY <1>1, MarginIsSmall
<1> QED BY <1>1, <1>2, ViewAssumption DEF MenusOK

(* Of the steps that keep the size, those that end with the list in view.  *)
LEMMA ListComesUp ==
    ASSUME SizeOK, MenusOK, StartList \/ ClosePager
    PROVE  ViewInvariant'
<1>1. /\ menu' = "list" /\ list' = RedrawnList(list_menu_height, scrolloff, list, count)
      /\ screen' = ShowList(list_menu_height, list', count, AllRows(list_menu_height, Stale))
      /\ UNCHANGED <<settings, list_menu_height, scrolloff, count, lines, pager>>
  BY DEF StartList, ClosePager, sizeVars
<1>2. /\ list' \in ListType /\ Exists(list', count)
      /\ screen' \in [Rows(list_menu_height) -> RowContent]
      /\ list_menu_height > 0 => Fits(list_menu_height, scrolloff, list', count)
      /\ list_menu_height > 0 =>
            \A r \in Rows(list_menu_height) : screen'[r] = ListEntry(list', count, list'.min + r)
  BY <1>1, Sizes, EmptyScreens, ListReady DEF MenusOK
<1>3. SizeOK' /\ MenusOK'
  BY <1>1, <1>2 DEF SizeOK, MenusOK
<1> QED BY <1>1, <1>2, <1>3, Sorted DEF SortedInvariant, InView, ListRows

(* rebuild_feeds and update_menu_item_list preserve the invariant. *)
LEMMA RebuildKeeps ==
    ASSUME SizeOK, MenusOK, Rebuild
    PROVE  ViewInvariant'
<1>1. /\ menu' = "list" /\ count' \in Counts \ {0} /\ count' \in Nat /\ count' > 0
      /\ screen' = ShowList(list_menu_height, list', count', AllRows(list_menu_height, Stale))
      /\ UNCHANGED <<settings, list_menu_height, scrolloff, lines, pager>>
  BY ViewAssumption DEF Rebuild, sizeVars
<1>2. PICK found \in {list.sel} \cup (0 .. count' - 1) :
        list' = RedrawnList(list_menu_height, scrolloff,
                            Reset([list EXCEPT !.sel = found], count'), count')
  BY DEF Rebuild
<1> DEFINE l == Reset([list EXCEPT !.sel = found], count')
<1>3. l \in ListType /\ Exists(l, count')
  <2> DEFINE k == [list EXCEPT !.sel = found]
  <2>1. k \in ListType
    BY <1>1, <1>2 DEF ListType, MenusOK
  <2> HIDE DEF k
  <2>2. Reset(k, count') \in ListType /\ Exists(Reset(k, count'), count')
    BY <1>1, <2>1 DEF Reset, ListType, Exists
  <2> QED BY <2>2 DEF k
<1> HIDE DEF l
<1>4. /\ list' \in ListType /\ Exists(list', count')
      /\ screen' \in [Rows(list_menu_height) -> RowContent]
      /\ list_menu_height > 0 => Fits(list_menu_height, scrolloff, list', count')
      /\ list_menu_height > 0 =>
            \A r \in Rows(list_menu_height) : screen'[r] = ListEntry(list', count', list'.min + r)
  BY <1>1, <1>2, <1>3, Sizes, EmptyScreens, ListReady DEF l
<1>5. SizeOK' /\ MenusOK'
  BY <1>1, <1>4 DEF SizeOK, MenusOK
<1> QED BY <1>1, <1>4, <1>5, Sorted DEF SortedInvariant, InView, ListRows

(* Opening a pager from a list, or in place of another pager. *)
LEMMA PagerComesUp ==
    ASSUME SizeOK, MenusOK, NEW n \in Lines, StartPager(n), UNCHANGED <<sizeVars, count>>,
           list' \in ListType, Exists(list', count)
    PROVE  ViewInvariant'
<1> DEFINE top == [min |-> 0, max |-> 0]
<1>1. /\ menu' = "pager" /\ lines' = n /\ n \in Nat /\ top \in [min : Nat, max : Nat]
      /\ pager' = RedrawnPager(list_menu_height, top, n)
      /\ screen' = ShowPager(list_menu_height, pager', n, AllRows(list_menu_height, Stale))
      /\ UNCHANGED <<settings, list_menu_height, scrolloff, count>>
  BY ViewAssumption DEF StartPager, sizeVars
<1> HIDE DEF top
<1>2. /\ pager' \in [min : Nat, max : Nat]
      /\ screen' \in [Rows(list_menu_height) -> RowContent]
      /\ list_menu_height > 0 => Fills(pager', n, list_menu_height)
      /\ list_menu_height > 0 =>
            \A r \in Rows(list_menu_height) : screen'[r] = PagerLine(n, pager'.min + r)
  BY <1>1, Sizes, EmptyScreens, PagerReady
<1>3. SizeOK' /\ MenusOK'
  BY <1>1, <1>2 DEF SizeOK, MenusOK
<1> QED BY <1>1, <1>2, <1>3, Sorted DEF SortedInvariant, InView, PagerRows

(* Whatever change_list_view_unprotected repaints, it is enough. *)
LEMMA RepaintedSelection ==
    ASSUME SortedInvariant, menu = "list", list_menu_height > 0, count > 0,
           NEW n \in Nat, n < count, list.min <= n, n <= list.max
    PROVE  LET l == [list EXCEPT !.sel = n]
           IN  /\ RepaintSelection(n) \in [Rows(list_menu_height) -> RowContent]
               /\ \A r \in Rows(list_menu_height) :
                    RepaintSelection(n)[r] = ListEntry(l, count, l.min + r)
<1> DEFINE h == list_menu_height
           l == [list EXCEPT !.sel = n]
           old == list.sel - list.min
           new == n - list.min
<1>1. /\ h \in Nat /\ count \in Nat /\ list \in ListType
      /\ list.sel \in Nat /\ list.min \in Nat /\ list.max \in Nat
      /\ list.sel < count /\ list.min <= list.sel /\ list.sel <= list.max
      /\ list.max = list.min + (h - 1)
  BY Sizes DEF SortedInvariant, MenusOK, InView, Fits, Fills, ListType, Exists
<1>2. screen \in [Rows(h) -> RowContent] /\ \A r \in Rows(h) : screen[r] = ListEntry(list, count, list.min + r)
  BY DEF SortedInvariant, InView, ListRows
<1>3. l \in ListType /\ l.sel = n /\ l.min = list.min
  BY <1>1 DEF ListType
<1>4. old \in Rows(h) /\ new \in Rows(h) /\ \A r \in Rows(h) : r \in Nat
  BY <1>1 DEF Rows
<1>5. CASE n = list.sel
  <2>1. l = list
    BY <1>1, <1>5 DEF ListType
  <2> QED BY <1>2, <1>5, <2>1 DEF RepaintSelection
<1>6. CASE n # list.sel
  <2>1. RepaintSelection(n) = [screen EXCEPT ![old].selected = FALSE, ![new].selected = TRUE]
    BY <1>1, <1>6 DEF RepaintSelection, Minus
  <2>2. \A r \in Rows(h) : screen[r] \in RowContent
    BY <1>2
  <2>3. old # new
    BY <1>1, <1>6
  <2> DEFINE s == RepaintSelection(n)
  <2>4. s = [r \in Rows(h) |-> IF r = new THEN [screen[r] EXCEPT !.selected = TRUE]
                                ELSE IF r = old THEN [screen[r] EXCEPT !.selected = FALSE]
                                ELSE screen[r]]
    BY <1>2, <1>4, <2>1, <2>3
  <2> HIDE DEF s
  <2>5. s \in [Rows(h) -> RowContent]
    BY <2>2, <2>4 DEF RowContent
  <2>6. ASSUME NEW r \in Rows(h) PROVE s[r] = ListEntry(l, count, l.min + r)
    <3>1. r \in Nat /\ (r = new <=> list.min + r = n) /\ (r = old <=> list.min + r = list.sel)
      BY <1>1, <1>4
    <3>2. screen[r] = ListEntry(list, count, list.min + r)
      BY <1>2
    <3> DEFINE e(selected) == [shows |-> "entry", entry |-> list.min + r, selected |-> selected]
    <3>a. ASSUME r = old \/ r = new PROVE list.min + r < count
      BY <1>1, <3>1, <3>a
    <3>b. \A x \in BOOLEAN, y \in BOOLEAN : [e(x) EXCEPT !.selected = y] = e(y)
      OBVIOUS
    <3>3. CASE r = new
      <4>1. screen[r] = e(FALSE)
        BY <1>6, <2>3, <3>1, <3>2, <3>3, <3>a DEF ListEntry
      <4>2. s[r] = e(TRUE)
        BY <2>4, <3>3, <3>b, <4>1
      <4> QED BY <1>3, <3>1, <3>3, <3>a, <4>2 DEF ListEntry
    <3>4. CASE r = old
      <4>1. screen[r] = e(TRUE)
        BY <3>1, <3>2, <3>4, <3>a DEF ListEntry
      <4>2. s[r] = e(FALSE)
        BY <2>3, <2>4, <3>4, <3>b, <4>1
      <4> QED BY <1>3, <1>6, <2>3, <3>1, <3>4, <3>a, <4>2 DEF ListEntry
    <3>5. CASE r # old /\ r # new
      BY <1>1, <1>3, <2>4, <3>1, <3>2, <3>5 DEF ListEntry, Blank
    <3> QED BY <3>3, <3>4, <3>5
  <2> QED BY <2>5, <2>6 DEF s
<1> QED BY <1>5, <1>6

(* So every row is right after a move, repainted in whole or in part.      *)
LEMMA RepaintedMove ==
    ASSUME SortedInvariant, menu = "list", NEW target \in Nat
    PROVE  /\ RepaintMoved(target) \in [Rows(list_menu_height) -> RowContent]
           /\ list_menu_height > 0 =>
                \A r \in Rows(list_menu_height) :
                    RepaintMoved(target)[r] = ListEntry(Moved(target), count, Moved(target).min + r)
<1> DEFINE h == list_menu_height
           n == Nearest(target, count)
<1>1. /\ h \in Nat /\ count \in Nat /\ list \in ListType
      /\ TypeOK /\ SelectionExists
      /\ screen \in [Rows(h) -> RowContent]
      /\ h > 0 => Fits(h, scrolloff, list, count) /\ ListRows
  BY Sizes, Sorted DEF SortedInvariant, MenusOK, InView, ViewInvariant, ListViewFits
<1>2. CASE h = 0 \/ count = 0
  BY <1>1, <1>2 DEF RepaintMoved, Moved, ListRows
<1>3. CASE h > 0 /\ count > 0
  <2>1. n \in Nat /\ n < count
    BY <1>1, <1>3 DEF Nearest, Smaller
  <2>2. Moved(target) \in ListType /\ Fits(h, scrolloff, Moved(target), count)
    BY <1>1, <1>3, MoveSelects, MoveFits
  <2>3. CASE ScrollsDown(n) \/ ScrollsUp(n)
    <3>1. RepaintMoved(target) = ShowList(h, Moved(target), count, screen)
      BY <1>3, <2>3 DEF RepaintMoved
    <3>2. Fills(Moved(target), count, h)
      BY <2>2 DEF Fits
    <3> QED BY <1>1, <2>2, <3>1, <3>2, ListShown
  <2>4. CASE ~ScrollsDown(n) /\ ~ScrollsUp(n)
    <3>1. RepaintMoved(target) = RepaintSelection(n)
      BY <1>3, <2>4 DEF RepaintMoved
    <3>2. Moved(target) = [list EXCEPT !.sel = n]
      BY <1>3, <2>4 DEF Moved
    <3>3. list.min <= n /\ n <= list.max
      BY <1>1, <2>1, <2>2, <3>2 DEF Fits, ListType
    <3> HIDE DEF n
    <3> QED BY <1>3, <2>1, <3>1, <3>2, <3>3, RepaintedSelection
  <2> QED BY <2>3, <2>4
<1> QED BY <1>1, <1>2, <1>3

-----------------------------------------------------------------------------
(* The positions that commands aim at are natural numbers. *)
LEMMA TargetsAreNatural ==
    ASSUME SizeOK, MenusOK
    PROVE  /\ \A target \in Targets \cup JumpTargets : target \in Nat
           /\ \A target \in PagerTargets : target \in Nat
<1>1. /\ list_menu_height \in Nat /\ count \in Nat /\ lines \in Nat
      /\ list.sel \in Nat /\ pager.min \in Nat
  BY Sizes DEF MenusOK, ListType
<1>2. list_menu_height \div 2 \in Nat
  BY <1>1
<1> DEFINE h == list_menu_height
           half == list_menu_height \div 2
<1> HIDE DEF h, half
<1>3. \A a \in Nat, b \in Nat : Cut(a, b) \in Nat /\ a + b \in Nat
  BY DEF Cut
<1>4. \A target \in Nat : Wrapped(target) \in Nat
  BY <1>1 DEF Wrapped
<1>5. h \in Nat /\ half \in Nat
  BY <1>1, <1>2 DEF h, half
<1>6. /\ Cut(pager.min, 1) \in Nat /\ Cut(pager.min, h) \in Nat /\ Cut(pager.min, half) \in Nat
      /\ pager.min + 1 \in Nat /\ pager.min + h \in Nat /\ pager.min + half \in Nat
  BY <1>1, <1>3, <1>5
<1>7. PagerTargets = {pager.min + 1, Cut(pager.min, 1), pager.min + h, Cut(pager.min, h),
                      pager.min + half, Cut(pager.min, half), 0, lines}
  BY DEF PagerTargets, h, half
<1>8. /\ Cut(list.sel, 1) \in Nat /\ Cut(list.sel, h) \in Nat /\ Cut(list.sel, half) \in Nat
      /\ list.sel + 1 \in Nat /\ list.sel + h \in Nat /\ list.sel + half \in Nat
  BY <1>1, <1>3, <1>5
<1>9. /\ Wrapped(Cut(list.sel, 1)) \in Nat /\ Wrapped(list.sel + 1) \in Nat
      /\ Wrapped(Cut(list.sel, h)) \in Nat /\ Wrapped(list.sel + h) \in Nat
      /\ Wrapped(Cut(list.sel, half)) \in Nat /\ Wrapped(list.sel + half) \in Nat
  BY <1>4, <1>8
<1>10. Targets = {Wrapped(list.sel + 1), Wrapped(Cut(list.sel, 1)),
                  Wrapped(list.sel + h), Wrapped(Cut(list.sel, h)),
                  Wrapped(list.sel + half), Wrapped(Cut(list.sel, half)), 0, count}
  BY DEF Targets, h, half
<1>11. \A target \in PagerTargets : target \in Nat
  BY <1>1, <1>6, <1>7
<1>12. \A target \in Targets : target \in Nat
  BY <1>1, <1>9, <1>10
<1>13. \A target \in JumpTargets : target \in Nat
  BY <1>1, <1>9 DEF JumpTargets
<1> QED BY <1>11, <1>12, <1>13

(* Every select-* and jump-to-* command preserves the invariant. *)
LEMMA SelectKeeps ==
    ASSUME SortedInvariant, Select
    PROVE  SortedInvariant'
<1>1. /\ menu = "list" /\ SizeOK /\ MenusOK /\ TypeOK /\ SelectionExists
      /\ UNCHANGED <<settings, list_menu_height, scrolloff, menu, count, lines, pager>>
  BY Sorted DEF Select, sizeVars, SortedInvariant, ViewInvariant, ListViewFits
<1>2. PICK target \in Nat : list' = Moved(target) /\ screen' = RepaintMoved(target)
  BY <1>1, TargetsAreNatural DEF Select
<1>3. list' \in ListType /\ Exists(list', count)
  BY <1>1, <1>2, MoveSelects
<1>4. list_menu_height > 0 => Fits(list_menu_height, scrolloff, list', count)
  BY <1>1, <1>2, MoveFits DEF SortedInvariant, InView
<1>5. /\ screen' \in [Rows(list_menu_height) -> RowContent]
      /\ list_menu_height > 0 =>
            \A r \in Rows(list_menu_height) : screen'[r] = ListEntry(list', count, list'.min + r)
  BY <1>1, <1>2, RepaintedMove
<1>6. SizeOK' /\ MenusOK'
  BY <1>1, <1>3 DEF SizeOK, MenusOK
<1> QED BY <1>1, <1>4, <1>5, <1>6 DEF SortedInvariant, InView, ListRows

(* Repainting what has changed brings the screen up to date again. *)
LEMMA RefreshKeeps ==
    ASSUME SortedInvariant, Refresh
    PROVE  SortedInvariant'
<1>1. /\ SizeOK /\ MenusOK /\ menu \in {"none", "list", "pager"}
      /\ UNCHANGED <<settings, list_menu_height, scrolloff, menu, count, list, lines, pager>>
  BY DEF Refresh, sizeVars, menuVars, SortedInvariant
<1>2. /\ list_menu_height \in Nat /\ count \in Nat /\ lines \in Nat
      /\ list \in ListType /\ pager \in [min : Nat, max : Nat]
      /\ screen \in [Rows(list_menu_height) -> RowContent]
  BY <1>1, Sizes DEF MenusOK, SortedInvariant
<1>3. SizeOK' /\ MenusOK'
  BY <1>1 DEF SizeOK, MenusOK
<1>4. CASE menu = "list"
  <2>1. screen' = ShowList(list_menu_height, list, count, AllRows(list_menu_height, Stale))
    BY <1>4 DEF Refresh
  <2>2. list_menu_height > 0 => Fits(list_menu_height, scrolloff, list, count) /\ Fills(list, count, list_menu_height)
    BY <1>4 DEF SortedInvariant, InView, Fits
  <2>3. /\ screen' \in [Rows(list_menu_height) -> RowContent]
        /\ list_menu_height > 0 =>
              \A r \in Rows(list_menu_height) : screen'[r] = ListEntry(list, count, list.min + r)
    BY <1>2, <2>1, <2>2, EmptyScreens, ListShown
  <2> QED BY <1>1, <1>3, <1>4, <2>2, <2>3 DEF SortedInvariant, InView, ListRows
<1>5. CASE menu = "pager"
  <2>1. screen' = ShowPager(list_menu_height, pager, lines, screen)
    BY <1>5 DEF Refresh
  <2>2. list_menu_height > 0 => Fills(pager, lines, list_menu_height)
    BY <1>5 DEF SortedInvariant, InView
  <2>3. /\ screen' \in [Rows(list_menu_height) -> RowContent]
        /\ list_menu_height > 0 =>
              \A r \in Rows(list_menu_height) : screen'[r] = PagerLine(lines, pager.min + r)
    BY <1>2, <2>1, <2>2, PagerShown
  <2> QED BY <1>1, <1>3, <1>5, <2>2, <2>3 DEF SortedInvariant, InView, PagerRows
<1>6. CASE menu = "none"
  BY <1>1, <1>2, <1>3, <1>6 DEF Refresh, SortedInvariant, InView
<1> QED BY <1>1, <1>4, <1>5, <1>6

(* So does the exposure of the selected entry alone. *)
LEMMA MarkKeeps ==
    ASSUME SortedInvariant, MarkSelected
    PROVE  SortedInvariant'
<1>1. /\ SizeOK /\ MenusOK /\ menu = "list"
      /\ UNCHANGED <<settings, list_menu_height, scrolloff, menu, count, list, lines, pager>>
      /\ screen \in [Rows(list_menu_height) -> RowContent]
  BY DEF MarkSelected, sizeVars, menuVars, SortedInvariant
<1>2. /\ list_menu_height \in Nat /\ count \in Nat /\ list \in ListType /\ list.sel \in Nat
  BY <1>1, Sizes DEF MenusOK, ListType
<1>3. ListEntry(list, count, list.sel) \in RowContent
  BY <1>2 DEF ListEntry, RowContent, Blank
<1>4. screen' \in [Rows(list_menu_height) -> RowContent]
  BY <1>1, <1>3 DEF MarkSelected
<1>5. InView("list") => Fits(list_menu_height, scrolloff, list, count) /\ ListRows
  BY DEF SortedInvariant
<1>6. InView("list") =>
        \A r \in Rows(list_menu_height) : screen'[r] = ListEntry(list, count, list.min + r)
  BY <1>5 DEF MarkSelected, ListRows
<1>7. SizeOK' /\ MenusOK'
  BY <1>1 DEF SizeOK, MenusOK
<1> QED BY <1>1, <1>4, <1>5, <1>6, <1>7 DEF SortedInvariant, InView, ListRows

(* change_pager_view_unprotected stops where the text ends. *)
LEMMA ScrollPagerKeeps ==
    ASSUME SortedInvariant, ScrollPager
    PROVE  SortedInvariant'
<1>1. /\ SizeOK /\ MenusOK /\ menu = "pager" /\ list_menu_height > 0 /\ lines > 0
      /\ UNCHANGED <<settings, list_menu_height, scrolloff, menu, count, list, lines>>
      /\ screen' = ShowPager(list_menu_height, pager', lines, screen)
      /\ screen \in [Rows(list_menu_height) -> RowContent]
  BY DEF ScrollPager, sizeVars, SortedInvariant
<1>2. PICK target \in Nat :
        pager' = RangeUpTo(list_menu_height,
                    LowerMax(list_menu_height, PageStart(target) + (list_menu_height - 1), lines))
  BY <1>1, TargetsAreNatural DEF ScrollPager
<1>3. list_menu_height \in Nat /\ lines \in Nat
  BY <1>1, Sizes
<1>4. PageStart(target) \in Nat
  BY <1>1, <1>3 DEF PageStart, Nearest, Smaller, Cut
<1> DEFINE p == [min |-> PageStart(target), max |-> 0]
<1>5. pager' = AdjustPager(list_menu_height, p, lines) /\ p \in [min : Nat, max : Nat]
  BY <1>2, <1>4 DEF AdjustPager
<1> HIDE DEF p
<1>6. pager' \in [min : Nat, max : Nat] /\ Fills(pager', lines, list_menu_height)
  BY <1>1, <1>3, <1>5, AdjustPagerFits
<1>7. /\ screen' \in [Rows(list_menu_height) -> RowContent]
      /\ \A r \in Rows(list_menu_height) : screen'[r] = PagerLine(lines, pager'.min + r)
  BY <1>1, <1>3, <1>6, PagerShown
<1>8. SizeOK' /\ MenusOK'
  BY <1>1, <1>6 DEF SizeOK, MenusOK
<1> QED BY <1>1, <1>6, <1>7, <1>8 DEF SortedInvariant, InView, PagerRows

(* resize_handler makes the menu in view fit the new size of the terminal. *)
LEMMA ResizeKeeps ==
    ASSUME SortedInvariant, Resize
    PROVE  SortedInvariant'
<1>1. PICK h \in Heights :
        /\ AdjustMenu(h)
        /\ \/ /\ menu = "list"
              /\ list' = RedrawnList(h, scrolloff', list, count)
              /\ screen' = ShowList(h, list', count, AllRows(h, Blank))
              /\ UNCHANGED <<lines, pager>>
           \/ /\ menu = "pager"
              /\ lines' \in Lines
              /\ pager' = RedrawnPager(h, pager, lines')
              /\ screen' = ShowPager(h, pager', lines', AllRows(h, Blank))
              /\ UNCHANGED list
  BY DEF Resize
<1>2. /\ SizeOK /\ MenusOK /\ menu' = menu /\ count' = count /\ count \in Nat
      /\ h \in Nat /\ list_menu_height' = h
      /\ scrolloff' = Smaller(settings.scrolloff, h \div 2) /\ settings' = settings
      /\ settings.scrolloff \in Nat
  BY <1>1, Sizes, ViewAssumption DEF SortedInvariant, Resize, AdjustMenu, SizeOK
<1>3. SizeOK' /\ scrolloff' \in Nat /\ 2 * scrolloff' <= h
  BY <1>1, <1>2, MarginIsSmall DEF SizeOK
<1>4. CASE menu = "list"
  <2>1. /\ list' = RedrawnList(h, scrolloff', list, count)
        /\ screen' = ShowList(h, list', count, AllRows(h, Blank))
        /\ UNCHANGED <<lines, pager>>
    BY <1>1, <1>4
  <2>2. /\ list' \in ListType /\ Exists(list', count)
        /\ screen' \in [Rows(h) -> RowContent]
        /\ h > 0 => Fits(h, scrolloff', list', count)
        /\ h > 0 => \A r \in Rows(h) : screen'[r] = ListEntry(list', count, list'.min + r)
    BY <1>2, <1>3, <2>1, EmptyScreens, ListReady DEF MenusOK
  <2>3. MenusOK'
    BY <1>2, <2>1, <2>2 DEF MenusOK
  <2> QED BY <1>2, <1>3, <1>4, <2>2, <2>3 DEF SortedInvariant, InView, ListRows
<1>5. CASE menu = "pager"
  <2>1. /\ lines' \in Lines /\ lines' \in Nat
        /\ pager' = RedrawnPager(h, pager, lines')
        /\ screen' = ShowPager(h, pager', lines', AllRows(h, Blank))
        /\ UNCHANGED list
    BY <1>1, <1>5, ViewAssumption
  <2>2. /\ pager' \in [min : Nat, max : Nat]
        /\ screen' \in [Rows(h) -> RowContent]
        /\ h > 0 => Fills(pager', lines', h)
        /\ h > 0 => \A r \in Rows(h) : screen'[r] = PagerLine(lines', pager'.min + r)
    BY <1>2, <2>1, EmptyScreens, PagerReady DEF MenusOK
  <2>3. MenusOK'
    BY <1>2, <2>1, <2>2 DEF MenusOK
  <2> QED BY <1>2, <1>3, <1>5, <2>2, <2>3 DEF SortedInvariant, InView, PagerRows
<1> QED BY <1>1, <1>4, <1>5

(* No menu is started in the initial states.                               *)
LEMMA ViewInit == Init => SortedInvariant
<1> SUFFICES ASSUME Init PROVE SortedInvariant
  OBVIOUS
<1>1. SizeOK /\ count \in Counts /\ count \in Nat /\ list_menu_height \in Nat
  BY ViewAssumption DEF Init, SizeOK
<1>2. MenusOK
  BY <1>1 DEF Init, MenusOK, ListType, Exists
<1>3. screen \in [Rows(list_menu_height) -> RowContent]
  BY <1>1, EmptyScreens DEF Init
<1> QED BY <1>1, <1>2, <1>3 DEF Init, SortedInvariant, InView

(* Every step preserves the invariant. *)
LEMMA ViewNext == SortedInvariant /\ [Next]_vars => SortedInvariant'
<1> SUFFICES ASSUME SortedInvariant, [Next]_vars PROVE SortedInvariant'
  OBVIOUS
<1>0. SizeOK /\ MenusOK /\ TypeOK /\ SelectionExists
  BY Sorted DEF SortedInvariant, ViewInvariant, ListViewFits
<1>1. CASE StartList \/ ClosePager
  BY <1>0, <1>1, ListComesUp, Sorted
<1>2. CASE Select
  BY <1>2, SelectKeeps
<1>3. CASE Rebuild
  BY <1>0, <1>3, RebuildKeeps, Sorted
<1>4. CASE MarkSelected
  BY <1>4, MarkKeeps
<1>5. CASE Refresh
  BY <1>5, RefreshKeeps
<1>6. CASE Resize
  BY <1>6, ResizeKeeps
<1>7. CASE OpenPager
  <2>1. PICK n \in Lines : StartPager(n)
    BY <1>7 DEF OpenPager
  <2>2. UNCHANGED <<sizeVars, count>> /\ list' \in ListType /\ Exists(list', count)
    BY <1>0, <1>7 DEF OpenPager, MenusOK
  <2> QED BY <1>0, <2>1, <2>2, PagerComesUp, Sorted
<1>8. CASE ScrollPager
  BY <1>8, ScrollPagerKeeps
<1>9. CASE JumpInPager
  <2>1. PICK target \in Nat :
            /\ list' = Moved(target)
            /\ \/ UNCHANGED <<menu, lines, pager, screen>>
               \/ \E n \in Lines : StartPager(n)
    BY <1>0, <1>9, TargetsAreNatural DEF JumpInPager
  <2>2. list' \in ListType /\ Exists(list', count) /\ UNCHANGED <<sizeVars, count>> /\ menu = "pager"
    BY <1>0, <1>9, <2>1, MoveSelects DEF JumpInPager
  <2>3. CASE \E n \in Lines : StartPager(n)
    <3>1. PICK n \in Lines : StartPager(n)
      BY <2>3
    <3> QED BY <1>0, <2>2, <3>1, PagerComesUp, Sorted
  <2>4. CASE UNCHANGED <<menu, lines, pager, screen>>
    <3>1. SizeOK' /\ MenusOK'
      BY <1>0, <2>2, <2>4 DEF SizeOK, MenusOK, sizeVars
    <3> QED BY <2>2, <2>4, <3>1 DEF SortedInvariant, InView, PagerRows, sizeVars
  <2> QED BY <2>1, <2>3, <2>4
<1>10. CASE UNCHANGED vars
  BY <1>10 DEF vars, sizeVars, menuVars, SortedInvariant, SizeOK, MenusOK, InView, ListRows, PagerRows
<1> QED BY <1>1, <1>2, <1>3, <1>4, <1>5, <1>6, <1>7, <1>8, <1>9, <1>10 DEF Next

(* In every reachable state, for every terminal, list, text and setting,   *)
(* the menu in view fits and the screen shows it: the selection exists and *)
(* is visible, the margins are kept, no row is wasted or out of date.      *)
THEOREM ViewIsRight == Spec => []ViewInvariant
<1>1. Spec => []SortedInvariant
  BY ViewInit, ViewNext, PTL DEF Spec
<1>2. SortedInvariant => ViewInvariant
  BY Sorted
<1> QED BY <1>1, <1>2, PTL

(* What was painted last is what the view of the menu in use says.         *)
THEOREM ScreenShowsView == Spec => []ScreenIsCurrent
<1>1. ViewInvariant => ScreenIsCurrent
  BY DEF ViewInvariant
<1> QED BY <1>1, ViewIsRight, PTL

(* The selection exists and is in view, over as many entries as there are. *)
THEOREM ListAlwaysFits == Spec => []ListViewFits
<1>1. ViewInvariant => ListViewFits
  BY DEF ViewInvariant
<1> QED BY <1>1, ViewIsRight, PTL

(* A pager never scrolls past its text, not even when a resize shortens it. *)
THEOREM PagerAlwaysFits == Spec => []PagerViewFits
<1>1. ViewInvariant => PagerViewFits
  BY DEF ViewInvariant
<1> QED BY <1>1, ViewIsRight, PTL

(* The scrolloff setting is obeyed as far as the height allows.            *)
THEOREM ScrolloffIsKept == Spec => []MarginsKept
<1>1. ViewInvariant => MarginsKept
  BY DEF ViewInvariant
<1> QED BY <1>1, ViewIsRight, PTL

-----------------------------------------------------------------------------
(* A redraw for a selection one entry away moves the view by one row. *)
LEMMA AdjustIsSmooth ==
    ASSUME NEW h \in Nat, h > 0, NEW m \in Nat, 2 * m <= h,
           NEW l \in ListType, NEW c \in Nat, l.sel < c, Fits(h, m, l, c),
           NEW n \in Nat, n < c, n \in {l.sel - 1, l.sel + 1}
    PROVE  AdjustList(h, m, [l EXCEPT !.sel = n], c).min \in {l.min - 1, l.min, l.min + 1}
<1> DEFINE k == [l EXCEPT !.sel = n]
           min == Smaller(l.min, Cut(n, m))
           max == Larger(min + (h - 1), n + m)
           low == LowerMax(h, max, c)
           above == IF 2 * m = h THEN Cut(m, 1) ELSE m
<1>1. l.sel \in Nat /\ l.min \in Nat /\ l.max \in Nat /\ k.sel = n /\ k.min = l.min
  BY DEF ListType
<1>2. /\ l.min <= l.sel /\ l.sel <= l.max /\ l.max = l.min + (h - 1)
      /\ l.min > 0 => l.max < c
      /\ l.min = 0 \/ l.min + above <= l.sel
      /\ l.max + 1 >= c \/ l.sel + m <= l.max
  BY DEF Fits, Fills
<1>3. /\ above \in Nat /\ above <= m /\ above + m <= h - 1
      /\ 2 * m = h => above = m - 1
      /\ 2 * m # h => above = m
  BY DEF Cut
<1>4. /\ min \in Nat /\ min <= l.min /\ (n <= m => min = 0)
      /\ n > m => min = l.min \/ min = n - m
      /\ n > m => min + m <= n
  BY <1>1 DEF Smaller, Cut
<1>5. max \in Nat /\ max >= h - 1 /\ max >= min + (h - 1) /\ max >= n + m
      /\ (max = min + (h - 1) \/ max = n + m)
  BY <1>1, <1>4 DEF Larger
<1> HIDE DEF min, max, above
<1>6. /\ low \in Nat /\ h - 1 <= low /\ low <= max
      /\ low >= h => low < c
      /\ low = max \/ low + 1 >= c
      /\ low < max => low + 1 = c \/ (low = h - 1 /\ c <= h)
      /\ RangeUpTo(h, low) = [min |-> low - (h - 1), max |-> low]
  BY <1>5, Lowered
<1>7. AdjustList(h, m, k, c).min = low - (h - 1)
  BY <1>1, <1>6 DEF AdjustList, min, max
<1> HIDE DEF low, k
<1>8. low - (h - 1) <= l.min + 1
  BY <1>1, <1>2, <1>3, <1>4, <1>5, <1>6
<1>9. low - (h - 1) >= l.min - 1
  BY <1>1, <1>2, <1>3, <1>4, <1>5, <1>6
<1> QED BY <1>1, <1>6, <1>7, <1>8, <1>9 DEF k

(* Selecting a neighbour of the selected entry, by a command or because a  *)
(* rebuilt list is found to have moved it, scrolls by one row at most.     *)
THEOREM ScrollingIsSmooth == Spec => ScrollsSmoothly
<1> DEFINE Premise == InView("list") /\ InView("list")' /\ UNCHANGED <<list_menu_height, count>>
                      /\ list'.sel \in {list.sel - 1, list.sel + 1}
           Conclusion == list'.min \in {list.min - 1, list.min, list.min + 1}
<1>1. SortedInvariant /\ [Next]_vars => [Premise => Conclusion]_vars
  <2> SUFFICES ASSUME SortedInvariant, Next, Premise PROVE Conclusion
    BY DEF vars
  <2>1. /\ SizeOK /\ MenusOK /\ TypeOK /\ SelectionExists
        /\ menu = "list" /\ menu' = "list" /\ list_menu_height > 0
        /\ Fits(list_menu_height, scrolloff, list, count)
    BY Sorted DEF SortedInvariant, ViewInvariant, ListViewFits, InView
  <2>2. /\ list_menu_height \in Nat /\ scrolloff \in Nat /\ 2 * scrolloff <= list_menu_height
        /\ count \in Nat /\ list \in ListType /\ list.sel \in Nat
    BY <2>1, Sizes DEF MenusOK, ListType
  <2>3. CASE Select
    BY <2>1, <2>3, TargetsAreNatural, MoveFits DEF Select
  <2>4. CASE Rebuild
    <3>1. PICK found \in {list.sel} \cup (0 .. count - 1) :
            list' = RedrawnList(list_menu_height, scrolloff, Reset([list EXCEPT !.sel = found], count), count)
      BY <2>4 DEF Rebuild
    <3>2. count' = count /\ count' > 0 /\ list.sel < count
      BY <2>1, <2>2, <2>4, ViewAssumption DEF Rebuild, SelectionExists
    <3>3. found \in Nat /\ found < count
      BY <2>2, <3>1, <3>2
    <3> DEFINE k == [list EXCEPT !.sel = found]
    <3>4. k \in ListType /\ k.sel = found /\ Exists(k, count)
      BY <2>2, <3>3 DEF ListType, Exists
    <3>5. list' = AdjustList(list_menu_height, scrolloff, k, count)
      <4>1. list' = RedrawnList(list_menu_height, scrolloff, Reset(k, count), count)
        BY <3>1, <3>2
      <4> HIDE DEF k
      <4>2. Reset(k, count) = k
        BY <2>2, <3>3, <3>4 DEF Reset
      <4> QED BY <2>1, <4>1, <4>2 DEF RedrawnList
    <3> HIDE DEF k
    <3>6. list'.sel = found
      BY <3>4, <3>5 DEF AdjustList
    <3>7. found \in {list.sel - 1, list.sel + 1}
      BY <3>6
    <3>8. AdjustList(list_menu_height, scrolloff, [list EXCEPT !.sel = found], count).min
            \in {list.min - 1, list.min, list.min + 1}
      BY <2>1, <2>2, <3>2, <3>3, <3>7, AdjustIsSmooth
    <3> QED BY <3>5, <3>8 DEF k
  <2>5. ~StartList /\ ~ClosePager /\ ~OpenPager /\ ~ScrollPager /\ ~JumpInPager
    BY <2>1 DEF StartList, ClosePager, OpenPager, StartPager, ScrollPager, JumpInPager
  <2>6. CASE MarkSelected \/ Refresh
    BY <2>2, <2>6 DEF MarkSelected, Refresh, menuVars
  <2>7. CASE Resize
    <3>1. PICK h \in Heights : list' = RedrawnList(h, scrolloff', list, count)
      BY <2>1, <2>7 DEF Resize
    <3>2. list'.sel = list.sel
      BY <3>1 DEF RedrawnList, AdjustList
    <3> QED BY <2>2, <3>2
  <2> QED BY <2>3, <2>4, <2>5, <2>6, <2>7 DEF Next
<1>2. Spec => []SortedInvariant
  BY ViewInit, ViewNext, PTL DEF Spec
<1> QED BY <1>1, <1>2, PTL DEF Spec, ScrollsSmoothly

=============================================================================
