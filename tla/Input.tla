--------------------------------- MODULE Input ---------------------------------
(* What becomes of the keys that the user types: get_input, its bindings and *)
(* what it keeps from one call to the next (interface-status.c, binds.c),    *)
(* the lines of a config file that bind keys (config-parse.c), and the       *)
(* menus as far as they decide which bindings count: a list, with an entry   *)
(* of some feed selected, and the pager over it (items.c, items-pager.c).    *)
EXTENDS Integers, Sequences, FiniteSets, SequencesExt

CONSTANTS
    Feeds,
    Digits, Keys,  \* the keys "0" to "9", or some of them, and all others
    Configs,       \* lines of the config file and of the lines of each feed
    MaxDigits,     \* 9 in the code
    MaxTyped       \* bound: events of the terminal

Actions == {"mark", "next", "open", "back", "link", "start_search"}
Results == Actions \cup {"apply_search", "empty", "error"}

\* What the words of a line are taken for (see process_config_line).
Tokens == [kind : {"bind"}, of : Keys \cup Digits] \cup [kind : {"action"}, of : Actions]

ASSUME InputAssumption ==
    /\ Feeds # {} /\ Keys \cap Digits = {}
    /\ Configs \subseteq [global : Seq(Seq(Tokens)), feeds : [Feeds -> Seq(Seq(Tokens))]]
    /\ Digits \subseteq {"0", "1", "2", "3", "4", "5", "6", "7", "8", "9"}
    /\ MaxDigits \in 1..9 /\ MaxTyped \in Nat

VARIABLES
    binds,         \* of each feed, and the global ones
    selected,      \* the feed of the selected entry
    menu,          \* "list" or "pager"
    ctx,           \* the feed whose bindings get_input was given
    pc,            \* "call", "wait", "handle", "ended"
    command,       \* what get_input returned last
    key, queued, count_buf, search,     \* statics of get_input
    count,         \* the variable of the pager
    quit_waiting, stop,
    typed,         \* bound: events so far
    digits,        \* history: digits since the last key that was none
    press,         \* history: the last key that stands for actions
    finished       \* history: the search texts that were entered

statics == <<key, queued, count_buf, search>>
history == <<typed, digits, press, finished>>
vars == <<binds, selected, menu, ctx, pc, command, statics, count, quit_waiting, stop, history>>
-----------------------------------------------------------------------------
(* Config files.  A line is a sequence of tokens: keys to bind or unbind,    *)
(* and actions for the key before them.                                      *)

Bind(k) == [kind |-> "bind", of |-> k]
Action(a) == [kind |-> "action", of |-> a]

\* The new binding of a key starts without actions and hides those of others.
bind_reset(b, k) == [j \in DOMAIN b \cup {k} |-> IF j = k THEN <<>> ELSE b[j]]

attach_action_to_bind(b, k, a) == [b EXCEPT ![k] = Append(@, a)]

process_config_line(b, line) ==
    LET Token(state, token) ==
            IF token.kind = "bind"
            THEN [binds |-> bind_reset(state.binds, token.of), bind |-> token.of]
            ELSE [state EXCEPT !.binds = attach_action_to_bind(@, state.bind, token.of)]
    IN  FoldLeft(Token, [binds |-> b, bind |-> ""], line).binds

Bindings(lines) == FoldLeft(process_config_line, <<>>, lines)

\* The actions of a key: those of the feed go before the global ones.
BindingOf(f, k) ==
    IF k \in DOMAIN binds.feeds[f] THEN binds.feeds[f][k]
    ELSE IF k \in DOMAIN binds.global THEN binds.global[k]
    ELSE <<>>

\* action_index counts from 0
bind_get_action(f, k, action_index) ==
    IF action_index < Len(BindingOf(f, k)) THEN BindingOf(f, k)[action_index + 1] ELSE "error"
-----------------------------------------------------------------------------
(* menu_read and get_input.                                                  *)

Undefined == -1

Value(digit) == CHOOSE n \in 0..9 : <<"0", "1", "2", "3", "4", "5", "6", "7", "8", "9">>[n + 1] = digit
Number(buf) == FoldLeft(LAMBDA n, d : 10 * n + Value(d), 0, buf)

Returns(result) == command' = result /\ pc' = "handle"

\* The bindings are looked up before the menu catches up with its age, which
\* may leave another entry selected.
MenuRead ==
    /\ pc = "call"
    /\ ctx' = selected
    /\ selected' \in IF menu = "list" THEN Feeds ELSE {selected}
    /\ pc' = "input"
    /\ UNCHANGED <<binds, menu, command, statics, count, quit_waiting, stop, history>>

\* Does the key of the last press still have the binding it was pressed for?
Steadied == [press EXCEPT !.steady = @ /\ BindingOf(ctx, key) = press.binding]

\* Of the actions of the key before, the next one.
NextQueued ==
    /\ pc = "input"
    /\ LET next == bind_get_action(ctx, key, queued)
       IN  IF queued > 0 /\ next # "error"
           THEN /\ Returns(next)
                /\ queued' = queued + 1
                /\ press' = [Steadied EXCEPT !.given = Append(@, next)]
           ELSE /\ queued' = 0
                /\ pc' = "wait"
                /\ press' = IF queued > 0 THEN Steadied ELSE press
                /\ UNCHANGED command
    /\ UNCHANGED <<binds, selected, menu, ctx, key, count_buf, search, count, quit_waiting,
                   stop, typed, digits, finished>>

Reads(k) ==
    /\ pc = "wait" /\ ~stop /\ typed < MaxTyped
    /\ key' = k /\ typed' = typed + 1

(* Mutant: a search that is given up keeps its text. *)
TextKept(k) == [on |-> FALSE, text |-> search.text]

EndOfSearch(k) == [on |-> FALSE, text |-> IF k = "enter" THEN search.text ELSE <<>>]

\* A key of the search text.
SearchKey(k) ==
    /\ Reads(k) /\ search.on
    /\ \/ /\ k \in {"enter", "escape"}
          /\ search' = EndOfSearch(k)
          /\ finished' = IF k = "enter" THEN finished \cup {search.text} ELSE finished
          /\ IF k = "enter" /\ search.text # <<>> THEN Returns("apply_search")
             ELSE UNCHANGED <<pc, command>>
       \/ /\ k = "backspace"
          /\ search' = IF search.text = <<>> THEN [search EXCEPT !.on = FALSE]
                       ELSE [search EXCEPT !.text = Front(@)]
          /\ UNCHANGED <<pc, command, finished>>
       \/ /\ k \notin {"enter", "escape", "backspace"}
          /\ search' = [search EXCEPT !.text = Append(@, k)]
          /\ UNCHANGED <<pc, command, finished>>
    /\ UNCHANGED <<binds, selected, menu, ctx, queued, count_buf, count, quit_waiting, stop,
                   digits, press>>

\* A digit too many starts the number anew.
BeforeDigit(buf) == IF Len(buf) = MaxDigits THEN <<>> ELSE buf

DigitKey(k) ==
    /\ Reads(k) /\ ~search.on /\ k \in Digits
    /\ count_buf' = Append(BeforeDigit(count_buf), k)
    /\ digits' = Append(digits, k)
    /\ UNCHANGED <<binds, selected, menu, ctx, pc, command, queued, search, count,
                   quit_waiting, stop, press, finished>>

\* Without a number the count is 1.
TypedCount == IF count_buf = <<>> THEN 1 ELSE Number(count_buf)

(* Mutant: the other actions of the key are forgotten. *)
ActionsForgotten(k) == 0

QueuedAfter(k) == 1

\* A key that stands for actions: the list has no use for the count.
ActionKey(k) ==
    /\ Reads(k) /\ ~search.on /\ k \notin Digits
    /\ count_buf' = <<>>
    /\ digits' = <<>>
    /\ LET first == bind_get_action(ctx, k, 0)
       IN  /\ press' = [binding |-> BindingOf(ctx, k), digits |-> digits, steady |-> TRUE,
                        given |-> IF first = "error" THEN <<>> ELSE <<first>>, pager |-> FALSE]
           /\ IF first = "start_search"
              THEN /\ search' = [on |-> TRUE, text |-> <<>>]
                   /\ UNCHANGED <<pc, command, queued, count>>
              ELSE /\ Returns(first)
                   /\ queued' = QueuedAfter(k)
                   /\ count' = IF menu = "pager" THEN TypedCount ELSE count
                   /\ UNCHANGED search
    /\ UNCHANGED <<binds, selected, menu, ctx, quit_waiting, stop, finished>>

(* Mutant: a search is not interrupted. *)
NoInterruptedSearch == pc = "wait" /\ ~stop /\ quit_waiting /\ ~search.on

Interruptible == pc = "wait" /\ ~stop /\ quit_waiting

\* No key, but a thread that wants the menu to have a look.
NoKey ==
    /\ Interruptible
    /\ quit_waiting' = FALSE
    /\ Returns("empty")
    /\ UNCHANGED <<binds, selected, menu, ctx, statics, count, stop, history>>

Resize ==
    /\ pc = "wait" /\ ~stop
    /\ typed < MaxTyped /\ typed' = typed + 1
    /\ Returns("error")
    /\ UNCHANGED <<binds, selected, menu, ctx, statics, count, quit_waiting, stop, digits,
                   press, finished>>

\* get_input notices it when it waits, menu_read whatever get_input returned.
NoticeStop ==
    /\ pc \in {"wait", "handle"} /\ stop
    /\ pc' = "ended"
    /\ UNCHANGED <<binds, selected, menu, ctx, command, statics, count, quit_waiting, stop,
                   history>>
-----------------------------------------------------------------------------
(* The menus.                                                                *)

\* pop_search_filter: a menu that is opened takes the text of a search, unless
\* it is still being typed.
PopSearch == search' = IF search.on THEN search ELSE [search EXCEPT !.text = <<>>]

\* A new pager has a new count.
OpenPager ==
    /\ menu' = "pager" /\ count' = Undefined
    /\ PopSearch
    /\ press' = [press EXCEPT !.pager = TRUE]

Stay == UNCHANGED <<selected, menu, count, search, press>>

HandleInList ==
    /\ menu = "list"
    /\ \/ command = "next" /\ selected' \in Feeds /\ UNCHANGED <<menu, count, search, press>>
       \/ command = "open" /\ OpenPager /\ UNCHANGED selected
       \/ /\ command = "apply_search"
          /\ PopSearch /\ selected' \in Feeds
          /\ UNCHANGED <<menu, count, press>>
       \/ command \notin {"next", "open", "apply_search"} /\ Stay

\* The pager stays if the jump has not found another item.
HandleInPager ==
    /\ menu = "pager"
    /\ \/ command = "next" /\ OpenPager /\ selected' \in Feeds
       \/ command = "next" /\ Stay
       \/ command = "back" /\ menu' = "list" /\ UNCHANGED <<selected, count, search, press>>
       \/ command \notin {"next", "back"} /\ Stay

Handle ==
    /\ pc = "handle" /\ ~stop
    /\ HandleInList \/ HandleInPager
    /\ pc' = "call"
    /\ UNCHANGED <<binds, ctx, command, key, queued, count_buf, quit_waiting, stop, typed,
                   digits, finished>>

\* yield_control_to_menu, called by any thread that raises the menu age.
Yield ==
    /\ ~quit_waiting /\ quit_waiting' = TRUE
    /\ UNCHANGED <<binds, selected, menu, ctx, pc, command, statics, count, stop, history>>

Signal ==
    /\ ~stop /\ stop' = TRUE
    /\ UNCHANGED <<binds, selected, menu, ctx, pc, command, statics, count, quit_waiting,
                   history>>

Terminated == pc = "ended" /\ UNCHANGED vars
-----------------------------------------------------------------------------
Init ==
    /\ \E c \in Configs : binds = [ global |-> Bindings(c.global),
                                    feeds |-> [f \in Feeds |-> Bindings(c.feeds[f])] ]
    /\ selected \in Feeds /\ ctx = selected /\ menu = "list"
    /\ pc = "call" /\ command = "empty"
    /\ key = "" /\ queued = 0 /\ count_buf = <<>> /\ search = [on |-> FALSE, text |-> <<>>]
    /\ count = Undefined /\ quit_waiting = FALSE /\ stop = FALSE
    /\ typed = 0 /\ digits = <<>> /\ finished = {}
    /\ press = [binding |-> <<>>, given |-> <<>>, digits |-> <<>>, steady |-> TRUE,
                pager |-> FALSE]

GetInput == MenuRead \/ NextQueued \/ NoKey \/ NoticeStop \/ Handle

User == \E k \in Keys \cup Digits : SearchKey(k) \/ DigitKey(k) \/ ActionKey(k)

Next == GetInput \/ User \/ Resize \/ Yield \/ Signal \/ Terminated

\* The main thread does not stop by itself; users and terminals may.
Spec == Init /\ [][Next]_vars /\ WF_vars(GetInput)
-----------------------------------------------------------------------------
(* Properties.                                                               *)

TypeOK ==
    /\ selected \in Feeds /\ ctx \in Feeds /\ menu \in {"list", "pager"}
    /\ pc \in {"call", "input", "wait", "handle", "ended"} /\ command \in Results
    /\ key \in Keys \cup Digits \cup {""} /\ queued \in Nat
    /\ count_buf \in Seq(Digits) /\ Len(count_buf) <= MaxDigits
    /\ search \in [on : BOOLEAN, text : Seq(Keys \cup Digits)]
    /\ count \in {Undefined} \cup 0..(10^MaxDigits - 1)
    /\ quit_waiting \in BOOLEAN /\ stop \in BOOLEAN

\* A key gives the actions of its binding, all of them and in their order,
\* before the next key is read: whatever menus they open or close, and whatever
\* happens meanwhile.  The binding is that of the feed that was selected; where
\* an action selects a feed that binds the key in another way, the rest is
\* taken from there.  A search that is not the first action does not start,
\* and one that is drops the others.
ActionsInOrder ==
    press.steady =>
        /\ IsPrefix(press.given, press.binding)
        /\ pc = "wait" => \/ press.given = press.binding
                          \/ Head(press.binding) = "start_search"

\* The number that was typed before a key; too many digits start a new one.
TypedNumber(ds) ==
    IF ds = <<>> THEN 1
    ELSE Number(SubSeq(ds, Len(ds) - ((Len(ds) - 1) % MaxDigits), Len(ds)))

\* An action on a link in the pager uses the number typed before its key, not
\* one that was meant for another key or for a search.  Left out are actions
\* after one that opened the pager, for which its count is not set.
LinksAsCounted ==
    pc = "handle" /\ menu = "pager" /\ command = "link" /\ ~press.pager =>
        count = TypedNumber(press.digits)

\* What the user types is what the menus are told.
KeysAreObeyed == TypeOK /\ ActionsInOrder /\ LinksAsCounted

\* Menus are narrowed by searches that were entered, never by one given up or
\* still being typed.
OnlyEnteredSearches ==
    [][ Handle /\ search' # search => search.text \in finished ]_vars

\* A thread that wants the menu to have a look is listened to, the user being
\* in the middle of a number or a search or not.
YieldIsAnswered == quit_waiting ~> ~quit_waiting \/ stop
=============================================================================
