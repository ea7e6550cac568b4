--------------------------------- MODULE Menus ---------------------------------
(***************************************************************************)
(* The stack of menus (interface-list.c) and the loops that run them:      *)
(* sections.c, feeds.c, items.c, items-pager.c, interface-errors-pager.c,  *)
(* called by run_menu_loop of interface.c.  Next to the main thread there  *)
(* is the inserter, which repaints the started menu and makes lists old.   *)
(*                                                                         *)
(* Menus are known by their position in the stack.  The age of a menu is   *)
(* only ever compared with the global one, so a menu is fresh or not.      *)
(* interface_lock is held within one step of the main thread, and by the   *)
(* inserter while it is exposing.                                          *)
(***************************************************************************)
EXTENDS Integers, Sequences

CONSTANTS
    Configs,        \* possible settings and feeds files
    MaxMenus        \* the user opens no list on top of that many menus

ASSUME MenusAssumption ==
    /\ Configs \subseteq [
            total : Nat \ {0}, one_section : BOOLEAN, sections_explore : BOOLEAN,
            feeds_explore : BOOLEAN, menu_responsiveness : BOOLEAN ]
    /\ MaxMenus \in Nat \ {0, 1}

VARIABLES
    config,         \* the settings, number of feeds and of sections
    menus,          \* the stack, top last
    menu,           \* the started menu, 0 for NULL
    current,        \* the menu whose loop runs, 0 for NULL
    loop,           \* how far the main thread is
    age,            \* what menu_read remembers between its steps
    quit_waiting,   \* they_want_us_to_quit_waiting_for_input
    stop,           \* they_want_us_to_stop
    inserter        \* what the inserter thread is doing

stackVars == <<menus, menu, current>>
vars == <<config, stackVars, loop, age, quit_waiting, stop, inserter>>

-----------------------------------------------------------------------------
Pagers == {"item_pager", "errors_pager"}
Kinds == {"sections", "feeds", "items"} \cup Pagers
Flags == {"explore", "search", "find", "disable_settings"}

(* find_filter is one of the flags here.  The contents of a list are "new" *)
(* if they were put together after the last rise of the global age, "old"  *)
(* if not, and "kept" if they are old because a query for newer ones, made *)
(* after that rise, failed or found no items.                              *)
Menu == [
    kind : Kinds, size : Nat, flags : SUBSET Flags, is_deleted : BOOLEAN,
    is_initialized : BOOLEAN, items : BOOLEAN,
    fresh : BOOLEAN, contents : {"new", "old", "kept"} ]

NewMenu(kind, size, flags) == [
    kind |-> kind, size |-> size, flags |-> flags, is_deleted |-> FALSE,
    is_initialized |-> FALSE, items |-> FALSE, fresh |-> TRUE, contents |-> "new" ]

Last(positions) ==
    IF positions = {} THEN 0
    ELSE CHOOSE i \in positions : \A j \in positions : j <= i

Live(s) == {i \in DOMAIN s : ~s[i].is_deleted}
Top(s) == Last(Live(s))
Below(s) == Last(Live(s) \ {Top(s)})

(* get_menu_depth counts from the top to the first deleted menu. *)
Depth(s) == Len(s) - Last(DOMAIN s \ Live(s))

(* Mutant: one deleted menu is freed at a time. *)
FreeOneDeleted(s) == IF Top(s) = Len(s) THEN s ELSE SubSeq(s, 1, Len(s) - 1)

FreeDeleted(s) == SubSeq(s, 1, Top(s))

Pushed(s, new) == Append(s, new)

(* MENU_SWALLOW *)
Swallowed(s, new) == Append([s EXCEPT ![Len(s)].is_deleted = TRUE], new)

(* Mutant: a closed menu does not tell the one below to stay. *)
ClosedForgetting(s) == [s EXCEPT ![Top(s)].is_deleted = TRUE]

Closed(s) ==
    [i \in DOMAIN s |->
        IF i = Top(s) THEN [s[i] EXCEPT !.is_deleted = TRUE]
        ELSE IF i = Below(s) THEN [s[i] EXCEPT !.flags = @ \cup {"disable_settings"}]
        ELSE s[i]]

(* raise_menu_age *)
Aged(s) == [i \in DOMAIN s |-> [s[i] EXCEPT !.fresh = FALSE, !.contents = "old"]]

(* The menu whose selected item a pager on position i shows. *)
ItemsBelow(s, i) == Last({j \in 1 .. i - 1 : s[j].items})

Has(i, flag) == flag \in menus[i].flags
IsExplore(i) == Has(i, "explore") /\ ~Has(i, "search") /\ ~Has(i, "find")

-----------------------------------------------------------------------------
LockFree == inserter # "exposing"

(* menu_setup returns the new menu to run_menu_loop. *)
Setup(stack) ==
    /\ LockFree
    /\ menus' = stack
    /\ current' = Len(stack)
    /\ loop' = "run"
    /\ UNCHANGED <<config, menu, age, quit_waiting, stop, inserter>>

Open(kind, size, flags) == Setup(Pushed(menus, NewMenu(kind, size, flags)))
Replace(kind, size, flags) == Setup(Swallowed(menus, NewMenu(kind, size, flags)))

(* menu_close returns the menu to run_menu_loop that is on top afterwards. *)
CloseTo(stack) ==
    /\ LockFree
    /\ menus' = stack
    /\ current' = Top(stack)
    /\ loop' = "run"
    /\ UNCHANGED <<config, menu, age, quit_waiting, stop, inserter>>

Close == CloseTo(Closed(menus))

(* A loop returns NULL. *)
Quit ==
    /\ current' = 0
    /\ loop' = "run"
    /\ UNCHANGED <<config, menus, menu, age, quit_waiting, stop, inserter>>

(* A loop goes on to menu_start, its contents having been loaded if new. *)
Ready(stack) ==
    /\ LockFree
    /\ menus' = stack
    /\ loop' = "start"
    /\ UNCHANGED <<config, menu, current, age, quit_waiting, stop, inserter>>

Loaded(s, i) == [s EXCEPT ![i].contents = "new", ![i].items = s[i].kind = "items"]

(* update_menu_item_list gives up and leaves the list as it is.            *)
Kept(s, i) == [s EXCEPT ![i].contents = IF @ = "old" THEN "kept" ELSE @]

(* A list that is put together anew: sections are sorted, feeds filtered   *)
(* and sorted, whatever there is; of items there has to be one at least.   *)
Rebuilt(s, i) ==
    IF s[i].kind = "items" THEN {Loaded(s, i), Kept(s, i)} ELSE {Loaded(s, i)}

-----------------------------------------------------------------------------
(* What the loops do before they start their menu.  The number of items    *)
(* db_count_items reports may be zero or not.                              *)
Runs(kind) == loop = "run" /\ ~stop /\ current # 0 /\ menus[current].kind = kind

MayOpenAnother == ~Has(current, "disable_settings")

RunSections ==
    /\ Runs("sections")
    /\ \/ /\ MayOpenAnother /\ config.sections_explore
          /\ Open("items", config.total, {"explore"})
       \/ /\ MayOpenAnother /\ config.one_section
          /\ Replace("feeds", config.total, {})
       \/ /\ MayOpenAnother => ~config.one_section
          /\ Ready(menus)

RunFeeds ==
    /\ Runs("feeds")
    /\ LET size == menus[current].size
       IN  \/ size = 0 /\ Close
           \/ /\ size > 0 /\ MayOpenAnother /\ config.feeds_explore
              /\ Open("items", size, {"explore"})
           \/ /\ size = 1 /\ MayOpenAnother
              /\ Replace("items", size, {})
           \/ /\ size > 0
              /\ Ready(IF menus[current].is_initialized THEN menus ELSE Loaded(menus, current))

(* The items of a new menu may not be found. *)
RunItems ==
    /\ Runs("items")
    /\ LockFree
    /\ quit_waiting' = TRUE
    /\ \/ /\ menus' = IF menus[current].is_initialized THEN Aged(menus)
                      ELSE Loaded(Aged(menus), current)
          /\ loop' = "start"
          /\ UNCHANGED current
       \/ /\ ~menus[current].is_initialized
          /\ menus' = Closed(Aged(menus))
          /\ current' = Top(menus')
          /\ UNCHANGED loop
    /\ UNCHANGED <<config, menu, age, stop, inserter>>

RunItemPager ==
    /\ Runs("item_pager")
    /\ \/ ItemsBelow(menus, current) # 0 /\ Ready(menus)
       \/ Close

RunErrorsPager ==
    /\ Runs("errors_pager")
    /\ \/ menus[current].size > 0 /\ Ready(menus)
       \/ Close

Start ==
    /\ loop = "start" /\ LockFree
    /\ menus' = [FreeDeleted(menus) EXCEPT ![current].is_initialized = TRUE]
    /\ menu' = current
    /\ loop' = "read"
    /\ UNCHANGED <<config, current, age, quit_waiting, stop, inserter>>

-----------------------------------------------------------------------------
(* menu_read: the age is read under the lock and noted after catching up   *)
(* with it, when it may have risen again, and whether or not that worked.  *)
ReadAge ==
    /\ loop = "read" /\ LockFree
    /\ age' = [behind |-> ~menus[menu].fresh, latest |-> TRUE]
    /\ loop' = "catch_up"
    /\ UNCHANGED <<config, stackVars, quit_waiting, stop, inserter>>

CatchesUp(i) == config.menu_responsiveness /\ menus[i].kind \notin Pagers

CatchUp ==
    /\ loop = "catch_up" /\ LockFree
    /\ menus' \in IF age.behind /\ CatchesUp(menu) THEN Rebuilt(menus, menu) ELSE {menus}
    /\ loop' = "note_age"
    /\ UNCHANGED <<config, menu, current, age, quit_waiting, stop, inserter>>

(* Mutant: the age at this moment is noted. *)
NoteNewAge ==
    /\ loop = "note_age"
    /\ menus' = [menus EXCEPT ![menu].fresh = TRUE]
    /\ age' = [behind |-> FALSE, latest |-> TRUE]
    /\ loop' = "wait"
    /\ UNCHANGED <<config, menu, current, quit_waiting, stop, inserter>>

NoteAge ==
    /\ loop = "note_age"
    /\ menus' = [menus EXCEPT ![menu].fresh = age.latest]
    /\ age' = [behind |-> FALSE, latest |-> TRUE]
    /\ loop' = "wait"
    /\ UNCHANGED <<config, menu, current, quit_waiting, stop, inserter>>

(* The loop of a menu ends because menu_read says so. *)
Leave == IF menus[menu].kind \in {"sections", "feeds"} THEN Quit ELSE Close

(* get_input without a key: it looks at the request to yield first and     *)
(* takes it back in a second step.                                         *)
Yield ==
    /\ loop = "wait" /\ quit_waiting /\ ~stop
    /\ loop' = "yield"
    /\ UNCHANGED <<config, stackVars, age, quit_waiting, stop, inserter>>

(* Mutant: get_input goes on waiting. *)
YieldedInPlace ==
    /\ loop = "yield" /\ ~stop
    /\ quit_waiting' = FALSE
    /\ loop' = "wait"
    /\ UNCHANGED <<config, stackVars, age, stop, inserter>>

Yielded ==
    /\ loop = "yield" /\ ~stop
    /\ quit_waiting' = FALSE
    /\ loop' = "read"
    /\ UNCHANGED <<config, stackVars, age, stop, inserter>>

NoticeStop == loop \in {"wait", "yield"} /\ stop /\ Leave

-----------------------------------------------------------------------------
(* The commands of the user. *)
AtInput(kinds) == loop = "wait" /\ ~stop /\ menus[menu].kind \in kinds

Room == Len(menus) < MaxMenus
RoomForPager == Len(menus) <= MaxMenus

GoOn == loop' = "read" /\ UNCHANGED <<config, menu, current, age, stop, inserter>>

(* Commands that stay: mark_feeds_read raises the age, mark_all_items_read *)
(* also looks for the items anew, others do neither.                       *)
Stay ==
    /\ AtInput(Kinds) /\ LockFree
    /\ \/ /\ menus[menu].kind \notin Pagers
          /\ menus' \in {Aged(menus)} \cup
                (IF menus[menu].kind = "items" THEN Rebuilt(Aged(menus), menu) ELSE {})
          /\ quit_waiting' = TRUE
       \/ UNCHANGED <<menus, quit_waiting>>
    /\ GoOn

(* toggle-read-menu and similar commands rebuild the list at once. *)
RebuildNow ==
    /\ AtInput({"feeds", "items"}) /\ LockFree
    /\ menus' \in Rebuilt(menus, menu)
    /\ UNCHANGED quit_waiting
    /\ GoOn

EnterSection ==
    /\ AtInput({"sections"}) /\ Room
    /\ \E size \in IF config.one_section THEN {config.total} ELSE 0 .. config.total :
        \/ Open("feeds", size, {})
        \/ Open("errors_pager", size, {})

EnterFeed ==
    /\ AtInput({"feeds"}) /\ Room
    /\ Open("items", 1, {}) \/ Open("errors_pager", 1, {})

EnterItem == AtInput({"items"}) /\ RoomForPager /\ Open("item_pager", 0, {})

GotoFeed == AtInput({"items"}) /\ Has(menu, "explore") /\ Room /\ Open("items", 1, {})

(* The feeds that explore mode, find and search look at. *)
Context ==
    IF menus[menu].kind = "sections" THEN config.total ELSE menus[menu].size

(* Only the feeds menu lets a search look at less than all of its feeds.   *)
Visible == IF menus[menu].kind = "feeds" THEN 1 .. menus[menu].size ELSE {Context}

(* Mutant: the explore mode takes the place of its menu. *)
ExploreInstead ==
    /\ AtInput({"sections", "feeds"}) /\ Room
    /\ Replace("items", Context, {"explore"})

Explore ==
    /\ AtInput({"sections", "feeds"}) /\ Room
    /\ Open("items", Context, {"explore"})

LeaveExplore == AtInput({"items"}) /\ Has(menu, "explore") /\ Close

Find ==
    /\ AtInput({"sections", "feeds", "items"}) /\ Room
    /\ \E size \in Visible :
        IF Has(menu, "find") THEN Replace("items", size, {"explore", "find"})
        ELSE Open("items", size, {"explore", "find"})

(* What the text of a search is, and which menu takes it, is up to Input;  *)
(* the pagers do not know the command.                                     *)
Search ==
    /\ AtInput({"sections", "feeds", "items"}) /\ Room
    /\ \E size \in Visible :
        Open("items", size, {"explore", "search"} \cup (menus[menu].flags \cap {"find"}))

(* The selection of the items menu has moved to another item. *)
JumpInPager == AtInput({"item_pager"}) /\ RoomForPager /\ Replace("item_pager", 0, {})

LeavePager == AtInput(Pagers) /\ Close

(* Mutant: explore mode is left as if it were a list like any other. *)
BackAtDepthTwo ==
    \/ AtInput({"feeds"}) /\ Depth(menus) >= 2 /\ Close
    \/ AtInput({"items"}) /\ ~IsExplore(menu) /\ Close
    \/ AtInput({"items"}) /\ IsExplore(menu) /\ Depth(menus) >= 2 /\ CloseTo(Closed(Closed(menus)))

NavigateBack ==
    \/ AtInput({"feeds"}) /\ Depth(menus) >= 2 /\ Close
    \/ AtInput({"items"}) /\ ~IsExplore(menu) /\ Close
    \/ AtInput({"items"}) /\ IsExplore(menu) /\ Depth(menus) >= 3 /\ CloseTo(Closed(Closed(menus)))

QuitSoft ==
    \/ AtInput({"sections"}) /\ Quit
    \/ AtInput({"feeds"}) /\ Close
    \/ AtInput({"items"}) /\ CloseTo(IF IsExplore(menu) THEN Closed(Closed(menus)) ELSE Closed(menus))

QuitHard == AtInput(Kinds) /\ Quit

-----------------------------------------------------------------------------
(* A signal, or a resize that fails, asks the program to stop at any time. *)
Signal ==
    /\ ~stop /\ stop' = TRUE
    /\ UNCHANGED <<config, stackVars, loop, age, quit_waiting, inserter>>

(* run_menu_loop returns, and run_scenario destroys the menus, without the *)
(* lock, before it joins the threads.                                      *)
EndLoop ==
    /\ loop = "run" /\ (current = 0 \/ stop)
    /\ loop' = "ended"
    /\ UNCHANGED <<config, stackVars, age, quit_waiting, stop, inserter>>

FreeMenus ==
    /\ loop = "ended"
    /\ menus' = <<>>
    /\ current' = 0
    /\ stop' = TRUE
    /\ loop' = "freed"
    /\ UNCHANGED <<config, menu, age, quit_waiting, inserter>>

JoinInserter ==
    /\ loop = "freed" /\ inserter = "exited"
    /\ loop' = "stopped"
    /\ UNCHANGED <<config, stackVars, age, quit_waiting, stop, inserter>>

(* Mutant: the inserter empties the queue before it looks at the flag. *)
InserterPullAnyway ==
    /\ inserter = "idle" /\ menu # 0
    /\ inserter' = "working"
    /\ UNCHANGED <<config, stackVars, loop, age, quit_waiting, stop>>

(* The inserter takes an update from the queue, repaints the started menu  *)
(* when that has changed what the menu shows, and raises the age when the  *)
(* whole queue is done.  That it might do so before the first menu is      *)
(* started, when menu is NULL, is left out.                                *)
InserterPull ==
    /\ inserter = "idle" /\ ~stop /\ menu # 0
    /\ inserter' = "working"
    /\ UNCHANGED <<config, stackVars, loop, age, quit_waiting, stop>>

InserterExpose ==
    /\ \/ inserter = "working" /\ inserter' \in {"exposing", "examining"}
       \/ inserter = "exposing" /\ inserter' = "examining"
    /\ UNCHANGED <<config, stackVars, loop, age, quit_waiting, stop>>

InserterExamine ==
    /\ inserter = "examining"
    /\ inserter' = "idle"
    /\ \/ /\ menus' = Aged(menus)
          /\ age' = [age EXCEPT !.latest = FALSE]
          /\ quit_waiting' = TRUE
       \/ UNCHANGED <<menus, age, quit_waiting>>
    /\ UNCHANGED <<config, menu, current, loop, stop>>

InserterExit ==
    /\ inserter = "idle" /\ stop
    /\ inserter' = "exited"
    /\ UNCHANGED <<config, stackVars, loop, age, quit_waiting, stop>>

Terminated == loop = "stopped" /\ UNCHANGED vars

-----------------------------------------------------------------------------
Init ==
    /\ config \in Configs
    /\ menus = <<NewMenu("sections", 0, {})>>
    /\ menu = 0 /\ current = 1 /\ loop = "run"
    /\ age = [behind |-> FALSE, latest |-> TRUE]
    /\ quit_waiting = FALSE /\ stop = FALSE
    /\ inserter = "idle"

Run == RunSections \/ RunFeeds \/ RunItems \/ RunItemPager \/ RunErrorsPager \/ Start

Read == ReadAge \/ CatchUp \/ NoteAge \/ Yield \/ Yielded \/ NoticeStop

End == EndLoop \/ FreeMenus \/ JoinInserter

User ==
    \/ Stay \/ RebuildNow
    \/ EnterSection \/ EnterFeed \/ EnterItem \/ GotoFeed \/ JumpInPager
    \/ Explore \/ LeaveExplore \/ Find \/ Search
    \/ LeavePager \/ NavigateBack \/ QuitSoft \/ QuitHard

InserterGoesOn == InserterExpose \/ InserterExamine \/ InserterExit

Inserter == InserterPull \/ InserterGoesOn

Next == Run \/ Read \/ End \/ User \/ Inserter \/ Signal \/ Terminated

(* Threads do not stop by themselves, and whoever asks for interface_lock  *)
(* again and again gets it; nothing is assumed of the user.                *)
Spec == Init /\ [][Next]_vars

FairSpec ==
    /\ Spec
    /\ SF_vars(Run \/ Read \/ End)
    /\ WF_vars(InserterGoesOn)
-----------------------------------------------------------------------------
(* The types of all variables; a menu opens one other by itself at most,   *)
(* so that the stack is never higher than that.                            *)
TypeOK ==
    /\ Len(menus) <= MaxMenus + 1
    /\ config \in Configs
    /\ menus \in Seq(Menu)
    /\ menu \in Nat /\ current \in Nat
    /\ loop \in {"run", "start", "read", "catch_up", "note_age", "wait", "yield",
                 "ended", "freed", "stopped"}
    /\ age \in [behind : BOOLEAN, latest : BOOLEAN]
    /\ quit_waiting \in BOOLEAN /\ stop \in BOOLEAN
    /\ inserter \in {"idle", "working", "exposing", "examining", "exited"}

InLoop == loop \in {"read", "catch_up", "note_age", "wait", "yield"}

(* The assertion of menu_start holds: once the deleted menus above are     *)
(* freed, the menu to start is the top of the stack.  And it stays there,  *)
(* neither deleted nor freed, for as long as its loop runs or another menu *)
(* has not been started yet.                                               *)
StackIsSound ==
    /\ TypeOK
    /\ loop = "start" => current # 0 /\ current = Top(menus)
    /\ InLoop => menu = current /\ menu = Len(menus) /\ menu = Top(menus)
    /\ menu # 0 /\ loop \notin {"freed", "stopped"} => menu \in DOMAIN menus

PagerShowsListBelow ==
    InLoop /\ menus[menu].kind = "item_pager" =>
        /\ ItemsBelow(menus, menu) = Below(menus)
        /\ Below(menus) # 0 /\ menus[Below(menus)].is_initialized

ExploreCoversItsMenu ==
    InLoop /\ menus[menu].kind = "items" /\ IsExplore(menu) =>
        LET base == Below(menus)
        IN  /\ base # 0
            /\ \/ menus[base].kind = "sections" /\ menus[menu].size = config.total
               \/ menus[base].kind = "feeds" /\ menus[menu].size = menus[base].size

(* A menu lies over the one that it has its contents from: a pager over    *)
(* the very list it goes back to, explore mode over the sections or feeds  *)
(* menu whose feeds it shows, which is what leaving it at once or together *)
(* with that menu relies on.                                               *)
LiesOverItsSource == PagerShowsListBelow /\ ExploreCoversItsMenu

(* Only quitting ends the program: going back, leaving a pager or explore  *)
(* mode, or failing to open a menu does not.  The exception is a program   *)
(* with one feed only, whose items are the one menu there is.              *)
OnlyQuitEnds ==
    [][ (Run \/ NavigateBack \/ LeavePager \/ LeaveExplore) /\ current' = 0
        => config.one_section /\ config.total = 1 ]_vars

(* A menu the user has seen does not open another one by itself when the   *)
(* user comes back to it.                                                  *)
ComesBackOnce ==
    [][ loop = "run" /\ current # 0 /\ menus[current].is_initialized
        => Len(menus') <= Len(menus) ]_vars

(* The contents are as recent as the last rise of the age, or they are     *)
(* items that a query made since then has not found others for.            *)
CaughtUp(m) == m.contents = "new" \/ (m.contents = "kept" /\ m.kind = "items")

(* The main thread never waits for a key with a list that it has not tried *)
(* to bring up to date since the last rise of the age, unless it is about  *)
(* to be told.                                                             *)
NoRefreshMissed ==
    loop = "wait" /\ CatchesUp(menu) => CaughtUp(menus[menu]) \/ quit_waiting

(* A list on the screen is brought up to date without the user's help; of  *)
(* items that are not found, the search for them is what is promised.      *)
Outdated == InLoop /\ CatchesUp(menu) /\ ~CaughtUp(menus[menu])
ListsRefresh == Outdated ~> ~Outdated

(* Once the program is told to stop, all menus and threads end.            *)
StopEnds == stop ~> loop = "stopped"
=============================================================================
