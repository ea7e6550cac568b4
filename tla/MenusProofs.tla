------------------------------ MODULE MenusProofs ------------------------------
(* Proofs about Menus, for any settings, feeds files and heights of the stack. *)
EXTENDS Menus, NumberLemmas, SequenceTheorems, TLAPS

-----------------------------------------------------------------------------
(* The inductive invariant.                                                  *)

(* The live menu that closing position i goes back to.                       *)
Under(s, i) == Last({j \in 1 .. i - 1 : ~s[j].is_deleted})

IsTop(s, i) ==
    /\ i \in DOMAIN s /\ ~s[i].is_deleted
    /\ \A j \in DOMAIN s : i < j => s[j].is_deleted

(* What a live menu stands on: the menus that replace the sections menu when *)
(* there is one section, and then one feed, may stand on nothing.            *)
Founded(s, i) ==
    LET m == s[i]
        b == Under(s, i)
    IN  /\ m.kind = "sections" => i = 1 /\ "find" \notin m.flags
        /\ m.kind = "feeds" =>
             /\ "find" \notin m.flags
             /\ b = 0 => config.one_section /\ m.size = config.total
        /\ m.kind = "items" =>
             /\ {"explore", "find"} \cap m.flags # {} => b # 0
             /\ b = 0 => config.one_section /\ config.total = 1
             /\ {"explore", "search", "find"} \cap m.flags = {"explore"} =>
                  \/ s[b].kind = "sections" /\ m.size = config.total
                  \/ s[b].kind = "feeds" /\ m.size = s[b].size
        /\ m.kind \in Pagers => b # 0
        /\ m.kind = "item_pager" => ItemsBelow(s, i) = b /\ s[b].is_initialized

(* Items are in items menus, and in all that were started.                   *)
HasItems(m) ==
    /\ m.items => m.kind = "items"
    /\ m.kind = "items" /\ m.is_initialized => m.items

(* Whoever did not try to replace old contents does not believe to have the  *)
(* latest age, and only lists of items may have tried in vain.               *)
KnowsAge(m) ==
    /\ config.menu_responsiveness /\ m.kind \notin Pagers /\ m.fresh => m.contents # "old"
    /\ m.contents = "kept" => m.kind = "items"

SoundStack(s) ==
    /\ s \in Seq(Menu)
    /\ \A i \in DOMAIN s :
         /\ HasItems(s[i]) /\ KnowsAge(s[i])
         /\ ~s[i].is_deleted => Founded(s, i)

(* A menu that may open another one by itself was never left before, and     *)
(* nothing that was closed lies on it.                                       *)
IsNew(i) ==
    /\ i = Len(menus) /\ ~menus[i].is_initialized
    /\ menus[i].kind \in {"sections", "feeds"} => i <= MaxMenus

LoopInvariant ==
    /\ loop \in {"run", "start"} /\ current # 0 =>
         /\ IsTop(menus, current)
         /\ loop = "run" /\ MayOpenAnother => IsNew(current)
    /\ loop = "start" =>
         current # 0 /\ (menus[current].kind = "items" => menus[current].items)
    /\ InLoop =>
         /\ menu = current /\ menu = Len(menus) /\ menu \in DOMAIN menus
         /\ ~menus[menu].is_deleted /\ menus[menu].is_initialized
    /\ menu # 0 /\ loop \notin {"freed", "stopped"} => menu \in DOMAIN menus

(* Between its steps menu_read knows what it missed, or is about to be told. *)
AgeInvariant ==
    CatchesUp(menu) /\ menus[menu].contents = "old" =>
        /\ loop = "catch_up" => age.behind \/ (~age.latest /\ quit_waiting)
        /\ loop = "note_age" => ~age.latest /\ quit_waiting
        /\ loop = "wait" => quit_waiting

MenusInvariant ==
    TypeOK /\ SoundStack(menus) /\ LoopInvariant /\ (InLoop => AgeInvariant)

-----------------------------------------------------------------------------
(* Positions.                                                                *)

LEMMA LastIs ==
    ASSUME NEW S, S \subseteq Nat, NEW m \in S, \A j \in S : j <= m
    PROVE  Last(S) = m
<1> DEFINE IsLast(i) == \A j \in S : j <= i
<1>1. S # {} /\ IsLast(m)
  OBVIOUS
<1>2. \A i \in S : IsLast(i) => i = m
  OBVIOUS
<1>3. Last(S) = CHOOSE i \in S : IsLast(i)
  BY <1>1 DEF Last
<1> HIDE DEF IsLast
<1> QED BY <1>1, <1>2, <1>3

LEMMA LastExists ==
    ASSUME NEW n \in Nat, NEW S, S \subseteq 1 .. n, S # {}
    PROVE  Last(S) \in S /\ \A j \in S : j <= Last(S)
<1>1. S \subseteq Nat /\ \A j \in S : j <= n
  OBVIOUS
<1>2. PICK m \in S : \A j \in S : j <= m
  BY <1>1, LargestNumber
<1> QED BY <1>1, <1>2, LastIs

LEMMA LastOfNone == Last({}) = 0
BY DEF Last

(* A live menu below, or none.                                               *)
LEMMA UnderIsLive ==
    ASSUME NEW s, NEW i \in Nat
    PROVE  \/ Under(s, i) = 0 /\ \A j \in 1 .. i - 1 : s[j].is_deleted
           \/ Under(s, i) \in 1 .. i - 1 /\ ~s[Under(s, i)].is_deleted
<1> DEFINE S == {j \in 1 .. i - 1 : ~s[j].is_deleted}
<1>1. CASE S = {}
  BY <1>1, LastOfNone DEF Under
<1>2. CASE S # {}
  <2>1. S \subseteq 1 .. i /\ S \subseteq 1 .. i - 1
    OBVIOUS
  <2>2. Last(S) \in S
    <3> HIDE DEF S
    <3> QED BY <1>2, <2>1, LastExists
  <2> QED BY <2>2 DEF Under
<1> QED BY <1>1, <1>2

(* The menu right below, if it is live.                                      *)
LEMMA UnderLive ==
    ASSUME NEW s, NEW i \in Nat, i > 1, ~s[i - 1].is_deleted
    PROVE  Under(s, i) = i - 1
<1> DEFINE S == {j \in 1 .. i - 1 : ~s[j].is_deleted}
<1>1. S \subseteq Nat /\ i - 1 \in S /\ \A j \in S : j <= i - 1
  OBVIOUS
<1> HIDE DEF S
<1>2. Last(S) = i - 1
  BY <1>1, LastIs
<1> QED BY <1>2 DEF S, Under

(* A deleted menu hides nothing.                                             *)
LEMMA UnderDeleted ==
    ASSUME NEW s, NEW i \in Nat, i > 1, s[i - 1].is_deleted
    PROVE  Under(s, i) = Under(s, i - 1)
<1>1. {j \in 1 .. i - 1 : ~s[j].is_deleted} = {j \in 1 .. (i - 1) - 1 : ~s[j].is_deleted}
  OBVIOUS
<1> QED BY <1>1 DEF Under

(* Menus depend on those below them only.                                    *)
LEMMA UnderSame ==
    ASSUME NEW s, NEW t, NEW i \in Nat,
           \A j \in 1 .. i - 1 : t[j].is_deleted = s[j].is_deleted
    PROVE  Under(t, i) = Under(s, i)
<1>1. {j \in 1 .. i - 1 : ~t[j].is_deleted} = {j \in 1 .. i - 1 : ~s[j].is_deleted}
  OBVIOUS
<1> QED BY <1>1 DEF Under

LEMMA TopIs ==
    ASSUME NEW s \in Seq(Menu), NEW i, IsTop(s, i)
    PROVE  Top(s) = i /\ Below(s) = Under(s, i)
<1>0. DOMAIN s = 1 .. Len(s) /\ Len(s) \in Nat
  <2> HIDE DEF Menu
  <2> QED OBVIOUS
<1>1. Live(s) \subseteq Nat /\ i \in Live(s) /\ \A j \in Live(s) : j <= i
  BY <1>0 DEF Live, IsTop
<1>2. Top(s) = i
  BY <1>1, LastIs DEF Top
<1>3. Live(s) \ {i} = {j \in 1 .. i - 1 : ~s[j].is_deleted}
  BY <1>0, <1>1 DEF Live
<1> QED BY <1>2, <1>3 DEF Below, Under

(* Closing the top.                                                          *)
LEMMA TopOfNothing ==
    ASSUME NEW s \in Seq(Menu), \A i \in DOMAIN s : s[i].is_deleted
    PROVE  Top(s) = 0
<1>1. Live(s) = {}
  BY DEF Live
<1> QED BY <1>1, LastOfNone DEF Top

LEMMA FoundedSame ==
    ASSUME NEW s, NEW t, NEW i \in Nat, Founded(s, i),
           \A j \in 1 .. i - 1 :
             /\ t[j].is_deleted = s[j].is_deleted
             /\ t[j].items = s[j].items
             /\ t[j].kind = s[j].kind /\ t[j].size = s[j].size
             /\ s[j].is_initialized => t[j].is_initialized,
           t[i].kind = s[i].kind, t[i].size = s[i].size,
           \A f \in {"explore", "search", "find"} : f \in t[i].flags <=> f \in s[i].flags
    PROVE  Founded(t, i)
<1>1. Under(t, i) = Under(s, i)
  BY UnderSame
<1>2. Under(s, i) = 0 \/ Under(s, i) \in 1 .. i - 1
  BY UnderIsLive
<1>3. ItemsBelow(t, i) = ItemsBelow(s, i)
  <2>1. {j \in 1 .. i - 1 : t[j].items} = {j \in 1 .. i - 1 : s[j].items}
    OBVIOUS
  <2> QED BY <2>1 DEF ItemsBelow
<1>4. /\ {"explore", "find"} \cap t[i].flags = {"explore", "find"} \cap s[i].flags
      /\ {"explore", "search", "find"} \cap t[i].flags
           = {"explore", "search", "find"} \cap s[i].flags
  OBVIOUS
<1>5. "item_pager" \in Pagers
  BY DEF Pagers
<1>6. s[i].kind = "item_pager" => Under(s, i) # 0
  BY <1>5 DEF Founded
<1>7. {"explore", "search", "find"} \cap s[i].flags = {"explore"} => {"explore", "find"} \cap s[i].flags # {}
  OBVIOUS
<1> DEFINE b == Under(s, i)
<1>8. b # 0 => /\ t[b].kind = s[b].kind /\ t[b].size = s[b].size
               /\ s[b].is_initialized => t[b].is_initialized
  BY <1>2
<1> HIDE DEF b
<1> QED BY <1>1, <1>3, <1>4, <1>6, <1>7, <1>8 DEF Founded, b

-----------------------------------------------------------------------------
(* Stacks of menus.                                                          *)

LEMMA StackType ==
    ASSUME NEW s \in Seq(Menu)
    PROVE  /\ Len(s) \in Nat /\ DOMAIN s = 1 .. Len(s) /\ s \in [1 .. Len(s) -> Menu]
           /\ \A i \in DOMAIN s : s[i] \in Menu
<1> HIDE DEF Menu
<1> QED BY LenProperties

LEMMA StackOf ==
    ASSUME NEW n \in Nat, NEW t \in [1 .. n -> Menu]
    PROVE  t \in Seq(Menu) /\ Len(t) = n /\ DOMAIN t = 1 .. n
<1> HIDE DEF Menu
<1>1. t \in Seq(Menu)
  BY SeqDef
<1> QED BY <1>1, LenProperties

(* Steps that change what is known of menus, or delete the top ones, leave   *)
(* those that remain founded.                                                *)
LEMMA SoundSame ==
    ASSUME NEW s, SoundStack(s), NEW t \in Seq(Menu), Len(t) <= Len(s), NEW m \in Nat,
           \A i \in DOMAIN t :
             /\ ~t[i].is_deleted => i <= m /\ ~s[i].is_deleted
             /\ i < m => t[i].is_deleted = s[i].is_deleted /\ t[i].items = s[i].items
             /\ t[i].kind = s[i].kind /\ t[i].size = s[i].size
             /\ \A f \in {"explore", "search", "find"} : f \in t[i].flags <=> f \in s[i].flags
             /\ s[i].is_initialized => t[i].is_initialized
             /\ HasItems(t[i]) /\ KnowsAge(t[i])
    PROVE  SoundStack(t)
<1>1. /\ s \in Seq(Menu) /\ Len(s) \in Nat /\ DOMAIN s = 1 .. Len(s)
      /\ Len(t) \in Nat /\ DOMAIN t = 1 .. Len(t)
  BY StackType DEF SoundStack
<1>2. ASSUME NEW i \in DOMAIN t, ~t[i].is_deleted PROVE Founded(t, i)
  <2>1. i \in DOMAIN s /\ i <= m /\ ~s[i].is_deleted
    BY <1>1, <1>2
  <2>2. Founded(s, i)
    BY <2>1 DEF SoundStack
  <2>3. \A j \in 1 .. i - 1 : j \in DOMAIN t /\ j < m
    BY <1>1, <2>1
  <2>4. \A j \in 1 .. i - 1 :
          /\ t[j].is_deleted = s[j].is_deleted /\ t[j].items = s[j].items
          /\ t[j].kind = s[j].kind /\ t[j].size = s[j].size
          /\ s[j].is_initialized => t[j].is_initialized
    BY <2>3
  <2>5. i \in Nat
    BY <1>1
  <2> QED BY <2>2, <2>4, <2>5, FoundedSame
<1> QED BY <1>2 DEF SoundStack

(* A new menu on top.                                                        *)
LEMMA PushedSound ==
    ASSUME NEW s, SoundStack(s), s # <<>>, NEW new \in Menu,
           ~s[Len(s)].is_deleted, ~new.is_deleted, HasItems(new), KnowsAge(new),
           Founded(Pushed(s, new), Len(s) + 1)
    PROVE  SoundStack(Pushed(s, new))
<1> DEFINE t == Pushed(s, new)
           n == Len(s)
<1>1. s \in Seq(Menu) /\ n \in Nat /\ n # 0 /\ DOMAIN s = 1 .. n
  BY StackType DEF SoundStack
<1>2. /\ t \in Seq(Menu) /\ Len(t) = n + 1 /\ DOMAIN t = 1 .. n + 1 /\ t[n + 1] = new
      /\ \A i \in 1 .. n : t[i] = s[i]
  <2> HIDE DEF Menu
  <2> QED BY <1>1 DEF Pushed
<1>3. ASSUME NEW i \in 1 .. n, ~t[i].is_deleted PROVE Founded(t, i)
  <2>1. Founded(s, i)
    BY <1>1, <1>2, <1>3 DEF SoundStack
  <2>2. t[i] = s[i] /\ \A j \in 1 .. i - 1 : t[j] = s[j]
    BY <1>1, <1>2
  <2>3. i \in Nat
    BY <1>1
  <2> HIDE DEF t
  <2> QED BY <2>1, <2>2, <2>3, FoundedSame
<1>4. \A i \in 1 .. n : HasItems(t[i]) /\ KnowsAge(t[i])
  BY <1>1, <1>2 DEF SoundStack
<1> HIDE DEF t
<1> QED BY <1>1, <1>2, <1>3, <1>4 DEF SoundStack, t

LEMMA SwallowedIs ==
    ASSUME NEW s \in Seq(Menu), s # <<>>, NEW new \in Menu
    PROVE  LET t == Swallowed(s, new)
               n == Len(s)
           IN  /\ n \in Nat /\ n # 0 /\ DOMAIN s = 1 .. n
               /\ t \in Seq(Menu) /\ Len(t) = n + 1 /\ DOMAIN t = 1 .. n + 1
               /\ t[n + 1] = new
               /\ t[n] = [s[n] EXCEPT !.is_deleted = TRUE]
               /\ \A i \in 1 .. n - 1 : t[i] = s[i]
<1> DEFINE e == [s[Len(s)] EXCEPT !.is_deleted = TRUE]
           u == [s EXCEPT ![Len(s)] = e]
<1>1. Len(s) \in Nat /\ Len(s) # 0 /\ DOMAIN s = 1 .. Len(s) /\ s[Len(s)] \in Menu
  BY StackType
<1>0. \A n \in Nat : n # 0 => n \in 1 .. n /\ \A i \in 1 .. n - 1 : i \in 1 .. n /\ i # n
  OBVIOUS
<1>2. e \in Menu
  BY <1>1 DEF Menu
<1>3. /\ u \in Seq(Menu) /\ Len(u) = Len(s)
      /\ \A i \in 1 .. Len(s) : u[i] = IF i = Len(s) THEN e ELSE s[i]
  <2> HIDE DEF Menu, e
  <2> QED BY <1>1, <1>2, ExceptSeq
<1>4. Swallowed(s, new) = Append(u, new)
  BY DEF Swallowed
<1> HIDE DEF u, e, Menu
<1>5. /\ Append(u, new) \in Seq(Menu) /\ Len(Append(u, new)) = Len(s) + 1
      /\ Append(u, new)[Len(s) + 1] = new
      /\ \A i \in 1 .. Len(s) : Append(u, new)[i] = u[i]
  BY <1>3, AppendProperties
<1>6. DOMAIN Append(u, new) = 1 .. Len(s) + 1
  BY <1>5, LenProperties
<1>7. Len(s) \in 1 .. Len(s) /\ \A i \in 1 .. Len(s) - 1 : i \in 1 .. Len(s) /\ i # Len(s)
  BY <1>0, <1>1, Zenon
<1>8. Append(u, new)[Len(s)] = e /\ \A i \in 1 .. Len(s) - 1 : Append(u, new)[i] = s[i]
  BY <1>3, <1>5, <1>7
<1> QED BY <1>1, <1>4, <1>5, <1>6, <1>8 DEF e

LEMMA SwallowedSound ==
    ASSUME NEW s, SoundStack(s), s # <<>>, NEW new \in Menu,
           ~new.is_deleted, HasItems(new), KnowsAge(new),
           Founded(Swallowed(s, new), Len(s) + 1)
    PROVE  SoundStack(Swallowed(s, new))
<1> DEFINE t == Swallowed(s, new)
           n == Len(s)
<1>0. s \in Seq(Menu)
  BY DEF SoundStack
<1>1. /\ n \in Nat /\ n # 0 /\ DOMAIN s = 1 .. n
      /\ t \in Seq(Menu) /\ Len(t) = n + 1 /\ DOMAIN t = 1 .. n + 1
      /\ t[n + 1] = new
      /\ t[n] = [s[n] EXCEPT !.is_deleted = TRUE]
      /\ \A i \in 1 .. n - 1 : t[i] = s[i]
  BY <1>0, SwallowedIs
<1>2. s[n] \in Menu
  BY <1>0, <1>1, StackType
<1>3. t[n].is_deleted /\ HasItems(t[n]) /\ KnowsAge(t[n])
  <2>1. HasItems(s[n]) /\ KnowsAge(s[n])
    BY <1>1 DEF SoundStack
  <2> QED BY <1>1, <1>2, <2>1 DEF Menu, HasItems, KnowsAge
<1>4. ASSUME NEW i \in 1 .. n - 1, ~t[i].is_deleted PROVE Founded(t, i)
  <2>1. Founded(s, i)
    BY <1>1, <1>4 DEF SoundStack
  <2>2. t[i] = s[i] /\ \A j \in 1 .. i - 1 : t[j] = s[j]
    BY <1>1
  <2> HIDE DEF t
  <2> QED BY <2>1, <2>2, FoundedSame
<1> HIDE DEF t
<1>5. \A i \in 1 .. n - 1 : HasItems(t[i]) /\ KnowsAge(t[i])
  BY <1>1 DEF SoundStack
<1>6. DOMAIN t = (1 .. n - 1) \cup {n, n + 1}
  BY <1>1
<1> QED BY <1>1, <1>3, <1>4, <1>5, <1>6 DEF SoundStack, t

(* Closing the top menu.                                                     *)
LEMMA ClosedIs ==
    ASSUME NEW s \in Seq(Menu), NEW i, IsTop(s, i)
    PROVE  LET t == Closed(s)
               b == Under(s, i)
           IN  /\ t \in Seq(Menu) /\ Len(t) = Len(s) /\ DOMAIN t = DOMAIN s
               /\ t[i] = [s[i] EXCEPT !.is_deleted = TRUE]
               /\ b # 0 => t[b] = [s[b] EXCEPT !.flags = @ \cup {"disable_settings"}]
               /\ \A j \in DOMAIN s \ {i, b} : t[j] = s[j]
<1> DEFINE b == Under(s, i)
           F(j) == IF j = i THEN [s[j] EXCEPT !.is_deleted = TRUE]
                   ELSE IF j = b THEN [s[j] EXCEPT !.flags = @ \cup {"disable_settings"}]
                   ELSE s[j]
<1>1. Len(s) \in Nat /\ DOMAIN s = 1 .. Len(s) /\ \A j \in DOMAIN s : s[j] \in Menu
  BY StackType
<1>2. i \in DOMAIN s /\ i \in Nat /\ i # 0
  BY <1>1 DEF IsTop
<1>3. Closed(s) = [j \in DOMAIN s |-> F(j)]
  BY TopIs DEF Closed
<1>4. ASSUME NEW j \in DOMAIN s PROVE F(j) \in Menu
  BY <1>1 DEF Menu, Flags
<1>5. b = 0 \/ (b \in 1 .. i - 1 /\ b \in DOMAIN s)
  BY <1>1, <1>2, UnderIsLive
<1> HIDE DEF F
<1>6. Closed(s) \in [1 .. Len(s) -> Menu]
  BY <1>1, <1>3, <1>4
<1>7. Closed(s) \in Seq(Menu) /\ Len(Closed(s)) = Len(s) /\ DOMAIN Closed(s) = 1 .. Len(s)
  BY <1>1, <1>6, StackOf
<1>8. \A j \in DOMAIN s : Closed(s)[j] = F(j)
  BY <1>3
<1>9. Closed(s)[i] = [s[i] EXCEPT !.is_deleted = TRUE]
  BY <1>2, <1>8 DEF F
<1>10. b # 0 => Closed(s)[b] = [s[b] EXCEPT !.flags = @ \cup {"disable_settings"}]
  <2>1. b # 0 => b \in DOMAIN s /\ b # i
    BY <1>2, <1>5
  <2> HIDE DEF b
  <2> QED BY <1>8, <2>1 DEF F
<1>11. \A j \in DOMAIN s \ {i, b} : Closed(s)[j] = s[j]
  BY <1>8 DEF F
<1> QED BY <1>1, <1>7, <1>9, <1>10, <1>11

(* Below a closed menu is the one to go back to, and it knows that it is.    *)
LEMMA ClosedSound ==
    ASSUME NEW s, SoundStack(s), NEW i, IsTop(s, i)
    PROVE  LET t == Closed(s)
               b == Under(s, i)
           IN  /\ SoundStack(t) /\ Len(t) = Len(s) /\ Top(t) = b
               /\ b # 0 => /\ IsTop(t, b) /\ b < i
                           /\ "disable_settings" \in t[b].flags
                           /\ t[b].kind = s[b].kind
                           /\ t[b].is_initialized = s[b].is_initialized
<1> DEFINE t == Closed(s)
           b == Under(s, i)
<1>0. s \in Seq(Menu)
  BY DEF SoundStack
<1>1. Len(s) \in Nat /\ DOMAIN s = 1 .. Len(s) /\ \A j \in DOMAIN s : s[j] \in Menu
  BY <1>0, StackType
<1>2. i \in 1 .. Len(s) /\ ~s[i].is_deleted /\ \A j \in DOMAIN s : i < j => s[j].is_deleted
  BY <1>1 DEF IsTop
<1>3. \/ b = 0 /\ \A j \in 1 .. i - 1 : s[j].is_deleted
      \/ b \in 1 .. i - 1 /\ ~s[b].is_deleted
  BY <1>2, UnderIsLive
<1>4. /\ t \in Seq(Menu) /\ Len(t) = Len(s) /\ DOMAIN t = DOMAIN s
      /\ t[i] = [s[i] EXCEPT !.is_deleted = TRUE]
      /\ b # 0 => t[b] = [s[b] EXCEPT !.flags = @ \cup {"disable_settings"}]
      /\ \A j \in DOMAIN s \ {i, b} : t[j] = s[j]
  BY <1>0, ClosedIs
<1> HIDE DEF t, b
<1>5. \A j \in DOMAIN s :
        /\ j = i => t[j].is_deleted
        /\ j # i => t[j].is_deleted = s[j].is_deleted
        /\ t[j].items = s[j].items /\ t[j].kind = s[j].kind /\ t[j].size = s[j].size
        /\ t[j].fresh = s[j].fresh /\ t[j].contents = s[j].contents
        /\ t[j].is_initialized = s[j].is_initialized
        /\ \A f \in {"explore", "search", "find"} : f \in t[j].flags <=> f \in s[j].flags
  <2> SUFFICES ASSUME NEW j \in DOMAIN s
               PROVE  /\ j = i => t[j].is_deleted
                      /\ j # i => t[j].is_deleted = s[j].is_deleted
                      /\ t[j].items = s[j].items /\ t[j].kind = s[j].kind
                      /\ t[j].size = s[j].size
                      /\ t[j].fresh = s[j].fresh /\ t[j].contents = s[j].contents
                      /\ t[j].is_initialized = s[j].is_initialized
                      /\ \A f \in {"explore", "search", "find"} :
                            f \in t[j].flags <=> f \in s[j].flags
    OBVIOUS
  <2>0. s[j] \in Menu
    BY <1>1
  <2>1. CASE j = i
    BY <1>4, <2>0, <2>1 DEF Menu
  <2>2. CASE j # i /\ j = b
    <3>1. t[j] = [s[j] EXCEPT !.flags = @ \cup {"disable_settings"}]
      BY <1>1, <1>4, <2>2
    <3> QED BY <2>0, <2>2, <3>1 DEF Menu
  <2>3. CASE j # i /\ j # b
    BY <1>4, <2>3
  <2> QED BY <2>1, <2>2, <2>3
<1>6. \A j \in DOMAIN t : HasItems(t[j]) /\ KnowsAge(t[j])
  BY <1>4, <1>5 DEF SoundStack, HasItems, KnowsAge
<1>7. SoundStack(t)
  <2>1. \A j \in DOMAIN t : /\ ~t[j].is_deleted => j <= i /\ ~s[j].is_deleted
                            /\ j < i => t[j].is_deleted = s[j].is_deleted
    <3> SUFFICES ASSUME NEW j \in DOMAIN t
                 PROVE  /\ ~t[j].is_deleted => j <= i /\ ~s[j].is_deleted
                        /\ j < i => t[j].is_deleted = s[j].is_deleted
      OBVIOUS
    <3>1. j \in DOMAIN s /\ j \in Nat /\ i \in Nat
      BY <1>1, <1>2, <1>4
    <3>2. CASE j = i
      BY <1>5, <3>1, <3>2
    <3>3. CASE j # i
      <4>1. t[j].is_deleted = s[j].is_deleted /\ (i < j => s[j].is_deleted)
        BY <1>2, <1>5, <3>1, <3>3
      <4> QED BY <3>1, <3>3, <4>1
    <3> QED BY <3>2, <3>3
  <2>2. i \in Nat
    BY <1>2
  <2> QED BY <1>1, <1>4, <1>5, <1>6, <2>1, <2>2, SoundSame
<1>8. CASE b = 0
  <2>1. ASSUME NEW j \in DOMAIN t PROVE t[j].is_deleted
    <3>1. j \in DOMAIN s /\ j \in Nat /\ i \in Nat
      BY <1>1, <1>2, <1>4
    <3>2. CASE j = i
      BY <1>5, <3>1, <3>2
    <3>3. CASE j # i
      <4>1. t[j].is_deleted = s[j].is_deleted
        BY <1>5, <3>1, <3>3
      <4>2. CASE j < i
        <5>1. j \in 1 .. i - 1
          BY <1>1, <3>1, <4>2
        <5> QED BY <1>3, <1>8, <4>1, <5>1
      <4>3. CASE i < j
        BY <1>2, <3>1, <4>1, <4>3
      <4> QED BY <3>1, <3>3, <4>2, <4>3
    <3> QED BY <3>2, <3>3
  <2> QED BY <1>4, <1>7, <1>8, <2>1, TopOfNothing DEF t, b
<1>9. CASE b # 0
  <2>1. b \in 1 .. i - 1 /\ b \in DOMAIN s /\ b # i /\ b < i /\ ~s[b].is_deleted
    BY <1>1, <1>2, <1>3, <1>9
  <2>2. ASSUME NEW j \in DOMAIN t, b < j PROVE t[j].is_deleted
    <3>1. \A k \in b + 1 .. i - 1 : s[k].is_deleted
      <4> DEFINE S == {k \in 1 .. i - 1 : ~s[k].is_deleted}
      <4>1. b = Last(S) /\ S \subseteq 1 .. i - 1 /\ b \in S
        BY <2>1 DEF b, Under
      <4>2. \A k \in S : k <= b
        <5>1. i - 1 \in Nat /\ S # {}
          BY <1>2, <4>1
        <5> HIDE DEF S
        <5> QED BY <4>1, <5>1, LastExists
      <4> QED BY <1>2, <2>1, <4>2
    <3>2. j \in DOMAIN s /\ j \in Nat /\ i \in Nat /\ b \in Nat
      BY <1>1, <1>2, <1>4, <2>1
    <3>3. CASE j = i
      BY <1>5, <3>2, <3>3
    <3>4. CASE j # i
      <4>1. t[j].is_deleted = s[j].is_deleted
        BY <1>5, <3>2, <3>4
      <4>2. CASE j < i
        <5>1. j \in b + 1 .. i - 1
          BY <2>2, <3>2, <4>2
        <5> QED BY <3>1, <4>1, <5>1
      <4>3. CASE i < j
        BY <1>2, <3>2, <4>1, <4>3
      <4> QED BY <3>2, <3>4, <4>2, <4>3
    <3> QED BY <3>3, <3>4
  <2>3. IsTop(t, b)
    <3>1. ~t[b].is_deleted
      BY <1>5, <2>1
    <3> QED BY <1>4, <2>1, <2>2, <3>1 DEF IsTop
  <2>4. Top(t) = b
    BY <1>4, <2>3, TopIs
  <2>5. "disable_settings" \in t[b].flags
    <3>1. s[b] \in Menu /\ t[b] = [s[b] EXCEPT !.flags = @ \cup {"disable_settings"}]
      BY <1>1, <1>4, <1>9, <2>1
    <3> QED BY <3>1 DEF Menu
  <2>6. t[b].kind = s[b].kind /\ t[b].is_initialized = s[b].is_initialized
    BY <1>5, <2>1
  <2> QED BY <1>4, <1>7, <2>1, <2>3, <2>4, <2>5, <2>6 DEF t, b
<1> QED BY <1>8, <1>9

(* Steps that keep all menus and only change what is known of them.          *)
SameMenus(s, t) ==
    /\ t \in Seq(Menu) /\ Len(t) = Len(s)
    /\ \A i \in DOMAIN s :
         /\ t[i].is_deleted = s[i].is_deleted
         /\ t[i].kind = s[i].kind /\ t[i].size = s[i].size /\ t[i].flags = s[i].flags
         /\ s[i].is_initialized => t[i].is_initialized
         /\ HasItems(t[i]) /\ KnowsAge(t[i])

LEMMA SameSound ==
    ASSUME NEW s, SoundStack(s), NEW t, SameMenus(s, t), NEW m \in Nat,
           \A i \in DOMAIN s : ~s[i].is_deleted => i <= m,
           \A i \in DOMAIN s : i < m => t[i].items = s[i].items
    PROVE  SoundStack(t)
<1>1. /\ s \in Seq(Menu) /\ Len(s) \in Nat /\ DOMAIN s = 1 .. Len(s)
      /\ t \in Seq(Menu) /\ Len(t) <= Len(s) /\ DOMAIN t = DOMAIN s
  BY StackType DEF SoundStack, SameMenus
<1>2. \A i \in DOMAIN t :
        /\ ~t[i].is_deleted => i <= m /\ ~s[i].is_deleted
        /\ i < m => t[i].is_deleted = s[i].is_deleted /\ t[i].items = s[i].items
        /\ t[i].kind = s[i].kind /\ t[i].size = s[i].size
        /\ \A f \in {"explore", "search", "find"} : f \in t[i].flags <=> f \in s[i].flags
        /\ s[i].is_initialized => t[i].is_initialized
        /\ HasItems(t[i]) /\ KnowsAge(t[i])
  BY <1>1 DEF SameMenus
<1> QED BY <1>1, <1>2, SoundSame

LEMMA SameTop ==
    ASSUME NEW s \in Seq(Menu), NEW t, SameMenus(s, t), NEW i, IsTop(s, i)
    PROVE  IsTop(t, i)
<1>1. DOMAIN t = DOMAIN s
  BY StackType DEF SameMenus
<1> QED BY <1>1 DEF IsTop, SameMenus

(* One menu is changed.                                                      *)
LEMMA MenuChanged ==
    ASSUME NEW s, SoundStack(s), NEW i \in DOMAIN s, NEW m \in Menu,
           m.kind = s[i].kind, m.size = s[i].size, m.flags = s[i].flags,
           m.is_deleted = s[i].is_deleted, s[i].is_initialized => m.is_initialized,
           HasItems(m), KnowsAge(m)
    PROVE  LET t == [s EXCEPT ![i] = m]
           IN  /\ SameMenus(s, t) /\ t[i] = m
               /\ \A j \in DOMAIN s : j # i => t[j] = s[j]
<1> DEFINE t == [s EXCEPT ![i] = m]
<1>1. s \in Seq(Menu) /\ Len(s) \in Nat /\ DOMAIN s = 1 .. Len(s)
  BY StackType DEF SoundStack
<1>2. /\ t \in Seq(Menu) /\ Len(t) = Len(s)
      /\ \A j \in 1 .. Len(s) : t[j] = IF j = i THEN m ELSE s[j]
  <2> HIDE DEF Menu
  <2> QED BY <1>1, ExceptSeq
<1>3. t[i] = m /\ \A j \in DOMAIN s : j # i => t[j] = s[j]
  BY <1>1, <1>2
<1> HIDE DEF t
<1>4. \A j \in DOMAIN s : HasItems(s[j]) /\ KnowsAge(s[j])
  BY DEF SoundStack
<1> QED BY <1>1, <1>2, <1>3, <1>4 DEF SameMenus, t

LEMMA AgedSame ==
    ASSUME NEW s, SoundStack(s)
    PROVE  /\ SameMenus(s, Aged(s)) /\ SoundStack(Aged(s))
           /\ \A i \in DOMAIN s : /\ Aged(s)[i].items = s[i].items
                                  /\ Aged(s)[i].is_initialized = s[i].is_initialized
<1> DEFINE t == Aged(s)
           n == Len(s)
<1>1. /\ s \in Seq(Menu) /\ n \in Nat /\ DOMAIN s = 1 .. n
      /\ \A i \in DOMAIN s : s[i] \in Menu
  BY StackType DEF SoundStack
<1>2. \A i \in DOMAIN s : t[i] = [s[i] EXCEPT !.fresh = FALSE, !.contents = "old"]
  BY DEF Aged
<1>3. ASSUME NEW i \in DOMAIN s
      PROVE  /\ t[i] \in Menu
             /\ t[i].is_deleted = s[i].is_deleted
             /\ t[i].kind = s[i].kind /\ t[i].size = s[i].size /\ t[i].flags = s[i].flags
             /\ t[i].is_initialized = s[i].is_initialized
             /\ t[i].items = s[i].items /\ ~t[i].fresh /\ t[i].contents = "old"
  <2>1. s[i] \in Menu /\ t[i] = [s[i] EXCEPT !.fresh = FALSE, !.contents = "old"]
    BY <1>1, <1>2
  <2> QED BY <2>1 DEF Menu
<1>4. t \in [1 .. n -> Menu]
  <2>1. t = [i \in DOMAIN s |-> t[i]]
    BY DEF Aged
  <2> HIDE DEF t
  <2> QED BY <1>1, <1>3, <2>1
<1> HIDE DEF t
<1>5. t \in Seq(Menu) /\ Len(t) = n
  BY <1>1, <1>4, StackOf
<1>6. \A i \in DOMAIN s : HasItems(t[i]) /\ KnowsAge(t[i])
  BY <1>3 DEF SoundStack, HasItems, KnowsAge
<1>7. SameMenus(s, t)
  BY <1>3, <1>5, <1>6 DEF SameMenus
<1>8. SoundStack(t)
  <2>1. \A i \in DOMAIN s : i <= n
    BY <1>1
  <2> QED BY <1>1, <1>3, <1>7, <2>1, SameSound
<1> QED BY <1>3, <1>7, <1>8 DEF t

LEMMA LoadedSame ==
    ASSUME NEW s, SoundStack(s), NEW i, IsTop(s, i)
    PROVE  /\ SameMenus(s, Loaded(s, i)) /\ SoundStack(Loaded(s, i))
           /\ Loaded(s, i)[i].items <=> s[i].kind = "items"
           /\ Loaded(s, i)[i].is_initialized = s[i].is_initialized
           /\ Loaded(s, i)[i].contents = "new"
<1> DEFINE m == [s[i] EXCEPT !.contents = "new", !.items = s[i].kind = "items"]
           t == [s EXCEPT ![i] = m]
<1>1. /\ s \in Seq(Menu) /\ i \in DOMAIN s /\ i \in Nat /\ DOMAIN s = 1 .. Len(s)
      /\ Len(s) \in Nat /\ s[i] \in Menu
  BY StackType DEF SoundStack, IsTop
<1>2. Loaded(s, i) = t
  BY <1>1 DEF Loaded, Menu
<1>3. /\ m \in Menu
      /\ m.kind = s[i].kind /\ m.size = s[i].size /\ m.flags = s[i].flags
      /\ m.is_deleted = s[i].is_deleted /\ m.is_initialized = s[i].is_initialized
      /\ m.contents = "new" /\ m.items = (s[i].kind = "items")
  BY <1>1 DEF Menu
<1> HIDE DEF m
<1>4. HasItems(m) /\ KnowsAge(m)
  BY <1>3 DEF HasItems, KnowsAge
<1>5. SameMenus(s, t) /\ t[i] = m /\ \A j \in DOMAIN s : j # i => t[j] = s[j]
  BY <1>1, <1>3, <1>4, MenuChanged
<1>6. SoundStack(t)
  <2>1. \A j \in DOMAIN s : (~s[j].is_deleted => j <= i) /\ (j < i => t[j].items = s[j].items)
    BY <1>1, <1>5 DEF IsTop
  <2> HIDE DEF t
  <2> QED BY <1>1, <1>5, <2>1, SameSound
<1> QED BY <1>2, <1>3, <1>5, <1>6

(* A query that finds no items changes what is known of the list only.       *)
LEMMA KeptSame ==
    ASSUME NEW s, SoundStack(s), NEW i, IsTop(s, i), s[i].kind = "items"
    PROVE  /\ SameMenus(s, Kept(s, i)) /\ SoundStack(Kept(s, i))
           /\ Kept(s, i)[i].contents # "old"
<1> DEFINE m == [s[i] EXCEPT !.contents = IF @ = "old" THEN "kept" ELSE @]
           t == [s EXCEPT ![i] = m]
<1>1. /\ s \in Seq(Menu) /\ i \in DOMAIN s /\ i \in Nat /\ DOMAIN s = 1 .. Len(s)
      /\ Len(s) \in Nat /\ s[i] \in Menu /\ HasItems(s[i])
  BY StackType DEF SoundStack, IsTop
<1>2. Kept(s, i) = t
  BY <1>1 DEF Kept, Menu
<1>3. /\ m \in Menu
      /\ m.kind = s[i].kind /\ m.size = s[i].size /\ m.flags = s[i].flags
      /\ m.is_deleted = s[i].is_deleted /\ m.is_initialized = s[i].is_initialized
      /\ m.contents # "old" /\ m.items = s[i].items
  BY <1>1 DEF Menu
<1> HIDE DEF m
<1>4. HasItems(m) /\ KnowsAge(m)
  BY <1>1, <1>3 DEF HasItems, KnowsAge
<1>5. SameMenus(s, t) /\ t[i] = m /\ \A j \in DOMAIN s : j # i => t[j] = s[j]
  BY <1>1, <1>3, <1>4, MenuChanged
<1>6. SoundStack(t)
  <2>1. \A j \in DOMAIN s : (~s[j].is_deleted => j <= i) /\ (j < i => t[j].items = s[j].items)
    BY <1>1, <1>5 DEF IsTop
  <2> HIDE DEF t
  <2> QED BY <1>1, <1>5, <2>1, SameSound
<1> QED BY <1>2, <1>3, <1>5, <1>6

(* However it ends, nobody can say that the list was not looked after.       *)
LEMMA RebuiltSame ==
    ASSUME NEW s, SoundStack(s), NEW i, IsTop(s, i), NEW t \in Rebuilt(s, i)
    PROVE  SameMenus(s, t) /\ SoundStack(t) /\ t[i].contents # "old"
<1>1. CASE t = Loaded(s, i)
  BY <1>1, LoadedSame
<1>2. CASE t = Kept(s, i) /\ s[i].kind = "items"
  BY <1>2, KeptSame
<1> QED BY <1>1, <1>2 DEF Rebuilt

(* What menu_start leaves of the stack.                                      *)
LEMMA FreedSound ==
    ASSUME NEW s, SoundStack(s), NEW i, IsTop(s, i)
    PROVE  LET t == FreeDeleted(s)
           IN  /\ SoundStack(t) /\ Len(t) = i /\ IsTop(t, i)
               /\ \A j \in 1 .. i : t[j] = s[j]
<1> DEFINE t == FreeDeleted(s)
<1>1. /\ s \in Seq(Menu) /\ Len(s) \in Nat /\ DOMAIN s = 1 .. Len(s)
      /\ i \in 1 .. Len(s) /\ ~s[i].is_deleted /\ \A j \in DOMAIN s : s[j] \in Menu
  BY StackType DEF SoundStack, IsTop
<1>2. t = [j \in 1 .. i |-> s[j]]
  <2>1. t = SubSeq(s, 1, i)
    BY <1>1, TopIs DEF FreeDeleted
  <2> HIDE DEF Menu
  <2> QED BY <1>1, <2>1
<1>3. t \in [1 .. i -> Menu] /\ i \in Nat /\ \A j \in 1 .. i : t[j] = s[j]
  BY <1>1, <1>2
<1> HIDE DEF t
<1>4. t \in Seq(Menu) /\ Len(t) = i /\ DOMAIN t = 1 .. i
  BY <1>3, StackOf
<1>5. \A j \in DOMAIN t : j \in DOMAIN s /\ t[j] = s[j] /\ j <= i
  BY <1>1, <1>3, <1>4
<1>6. SoundStack(t)
  <2>1. \A j \in DOMAIN t : HasItems(t[j]) /\ KnowsAge(t[j])
    BY <1>5 DEF SoundStack
  <2>2. Len(t) <= Len(s)
    BY <1>1, <1>4
  <2> QED BY <1>3, <1>4, <1>5, <2>1, <2>2, SoundSame
<1>7. IsTop(t, i)
  BY <1>1, <1>3, <1>4 DEF IsTop
<1> QED BY <1>3, <1>4, <1>6, <1>7 DEF t

-----------------------------------------------------------------------------
(* Steps.                                                                    *)

(* The settings do not change.                                               *)
LEMMA SoundNext ==
    ASSUME NEW s, SoundStack(s), menus' = s, UNCHANGED config
    PROVE  SoundStack(menus)'
BY DEF SoundStack, Founded, KnowsAge

Ended == loop \in {"freed", "stopped"}

(* The top of the stack is started or closed to.                             *)
LEMMA TopTypes ==
    ASSUME MenusInvariant, NEW i, IsTop(menus, i)
    PROVE  /\ menus \in Seq(Menu) /\ Len(menus) \in Nat /\ DOMAIN menus = 1 .. Len(menus)
           /\ i \in 1 .. Len(menus) /\ i \in Nat /\ i # 0 /\ menus # <<>>
           /\ menus[i] \in Menu /\ ~menus[i].is_deleted
           /\ HasItems(menus[i]) /\ KnowsAge(menus[i]) /\ Founded(menus, i)
<1>1. /\ menus \in Seq(Menu) /\ Len(menus) \in Nat /\ DOMAIN menus = 1 .. Len(menus)
      /\ \A j \in DOMAIN menus : menus[j] \in Menu
  BY StackType DEF MenusInvariant, SoundStack
<1>2. i \in DOMAIN menus /\ ~menus[i].is_deleted
  BY DEF IsTop
<1>3. i \in Nat /\ i # 0 /\ menus # <<>>
  BY <1>1, <1>2
<1> QED BY <1>1, <1>2, <1>3 DEF MenusInvariant, SoundStack

LEMMA InLoopTop ==
    ASSUME MenusInvariant, InLoop
    PROVE  /\ IsTop(menus, menu) /\ menu = Len(menus) /\ menu = current
           /\ menus[menu].is_initialized
<1>1. /\ menu = current /\ menu = Len(menus) /\ menu \in DOMAIN menus
      /\ ~menus[menu].is_deleted /\ menus[menu].is_initialized
  BY DEF MenusInvariant, LoopInvariant
<1>2. Len(menus) \in Nat /\ DOMAIN menus = 1 .. Len(menus)
  BY StackType DEF MenusInvariant, SoundStack
<1> QED BY <1>1, <1>2 DEF IsTop

LEMMA AtInputTop ==
    ASSUME MenusInvariant, NEW kinds, AtInput(kinds)
    PROVE  /\ IsTop(menus, menu) /\ menu = Len(menus) /\ ~Ended /\ loop # "run"
           /\ menus[menu].is_initialized /\ menus[menu].kind \in kinds
BY InLoopTop DEF AtInput, InLoop, Ended

LEMMA RunsTop ==
    ASSUME MenusInvariant, NEW kind, Runs(kind)
    PROVE  /\ IsTop(menus, current) /\ ~Ended /\ menus[current].kind = kind
           /\ MayOpenAnother => IsNew(current)
BY DEF Runs, MenusInvariant, LoopInvariant, Ended

(* A menu that is pushed onto the stack or takes the place of the top is new. *)
LEMMA SetupKeeps ==
    ASSUME MenusInvariant, ~Ended,
           NEW stack, SoundStack(stack), Len(stack) = Len(menus) + 1,
           Len(stack) <= MaxMenus + 1,
           LET new == stack[Len(stack)]
           IN  /\ ~new.is_deleted /\ ~new.is_initialized
               /\ new.kind \in {"sections", "feeds"} => Len(stack) <= MaxMenus,
           Setup(stack)
    PROVE  MenusInvariant'
<1> DEFINE n == Len(stack)
<1>1. /\ stack \in Seq(Menu) /\ n \in Nat /\ DOMAIN stack = 1 .. n
      /\ Len(menus) \in Nat /\ DOMAIN menus = 1 .. Len(menus)
  BY StackType DEF SoundStack, MenusInvariant
<1>2. n \in DOMAIN stack /\ n # 0 /\ DOMAIN menus \subseteq DOMAIN stack
  BY <1>1
<1>3. menus' = stack /\ current' = n /\ loop' = "run" /\ UNCHANGED <<config, menu>>
  BY DEF Setup
<1>4. TypeOK'
  BY <1>1 DEF MenusInvariant, TypeOK, Setup
<1>5. SoundStack(menus)'
  BY <1>3, SoundNext
<1>6. LoopInvariant'
  <2>1. IsTop(stack, n)
    BY <1>1, <1>2 DEF IsTop
  <2>2. IsTop(menus, current)' /\ IsNew(current)'
    BY <1>3, <2>1 DEF IsTop, IsNew
  <2>3. menu # 0 => menu \in DOMAIN stack
    BY <1>2 DEF MenusInvariant, LoopInvariant, Ended
  <2> QED BY <1>3, <2>2, <2>3 DEF LoopInvariant, InLoop
<1> QED BY <1>3, <1>4, <1>5, <1>6 DEF MenusInvariant, InLoop

LEMMA NewMenuIs ==
    ASSUME NEW kind \in Kinds, NEW size \in Nat, NEW flags \in SUBSET Flags
    PROVE  LET new == NewMenu(kind, size, flags)
           IN  /\ new \in Menu /\ HasItems(new) /\ KnowsAge(new)
               /\ ~new.is_deleted /\ ~new.is_initialized
               /\ new.kind = kind /\ new.size = size /\ new.flags = flags
BY DEF NewMenu, Menu, HasItems, KnowsAge

(* The menu that a new one is opened on is the one below it.                 *)
LEMMA PushedIs ==
    ASSUME MenusInvariant, NEW n, IsTop(menus, n), n = Len(menus), NEW new \in Menu
    PROVE  LET t == Pushed(menus, new)
           IN  /\ t \in Seq(Menu) /\ Len(t) = n + 1 /\ t[n + 1] = new
               /\ \A i \in 1 .. n : t[i] = menus[i]
               /\ Under(t, n + 1) = n /\ n # 0
<1> DEFINE t == Pushed(menus, new)
<1>1. menus \in Seq(Menu) /\ n \in Nat /\ n \in 1 .. n /\ ~menus[n].is_deleted
  BY TopTypes
<1>2. /\ t \in Seq(Menu) /\ Len(t) = n + 1 /\ t[n + 1] = new
      /\ \A i \in 1 .. n : t[i] = menus[i]
  BY <1>1, AppendProperties DEF Pushed
<1> HIDE DEF t
<1>3. Under(t, n + 1) = n
  <2>1. n + 1 \in Nat /\ n + 1 > 1 /\ (n + 1) - 1 = n /\ ~t[n].is_deleted
    BY <1>1, <1>2
  <2> QED BY <2>1, UnderLive
<1> QED BY <1>1, <1>2, <1>3 DEF t

LEMMA OpenKeeps ==
    ASSUME MenusInvariant, ~Ended, NEW n, IsTop(menus, n), n = Len(menus), n <= MaxMenus,
           NEW kind \in Kinds, NEW size \in Nat, NEW flags \in SUBSET Flags,
           kind \in {"sections", "feeds"} => n < MaxMenus,
           Founded(Pushed(menus, NewMenu(kind, size, flags)), n + 1),
           Open(kind, size, flags)
    PROVE  MenusInvariant'
<1> DEFINE new == NewMenu(kind, size, flags)
           t == Pushed(menus, new)
<1>1. /\ new \in Menu /\ HasItems(new) /\ KnowsAge(new)
      /\ ~new.is_deleted /\ ~new.is_initialized /\ new.kind = kind
  BY NewMenuIs
<1> HIDE DEF new
<1>2. Len(t) = n + 1 /\ t[n + 1] = new
  BY <1>1, PushedIs
<1>3. /\ SoundStack(menus) /\ menus # <<>> /\ ~menus[n].is_deleted /\ n \in Nat
      /\ MaxMenus \in Nat
  BY TopTypes, MenusAssumption DEF MenusInvariant
<1>4. Founded(t, n + 1) /\ Setup(t)
  BY DEF Open, new
<1> HIDE DEF t
<1>5. SoundStack(t)
  BY <1>1, <1>3, <1>4, PushedSound DEF t
<1> QED BY <1>1, <1>2, <1>3, <1>4, <1>5, SetupKeeps

(* A menu that takes the place of another stands on what that one stood on.  *)
LEMMA ReplacedIs ==
    ASSUME MenusInvariant, NEW n, IsTop(menus, n), n = Len(menus), NEW new \in Menu
    PROVE  LET t == Swallowed(menus, new)
               b == Under(menus, n)
           IN  /\ t \in Seq(Menu) /\ Len(t) = n + 1 /\ t[n + 1] = new
               /\ t[n].items = menus[n].items
               /\ \A i \in 1 .. n - 1 : t[i] = menus[i]
               /\ Under(t, n + 1) = b
               /\ b = 0 \/ b \in 1 .. n - 1
<1> DEFINE t == Swallowed(menus, new)
<1>1. menus \in Seq(Menu) /\ n \in Nat /\ n # 0 /\ menus # <<>> /\ menus[n] \in Menu
  BY TopTypes
<1>2. /\ t \in Seq(Menu) /\ Len(t) = n + 1 /\ t[n + 1] = new
      /\ t[n] = [menus[n] EXCEPT !.is_deleted = TRUE]
      /\ \A i \in 1 .. n - 1 : t[i] = menus[i]
  BY <1>1, SwallowedIs
<1>3. t[n].is_deleted /\ t[n].items = menus[n].items
  BY <1>1, <1>2 DEF Menu
<1> HIDE DEF t
<1>4. Under(t, n + 1) = Under(menus, n)
  <2>1. n + 1 \in Nat /\ n + 1 > 1 /\ (n + 1) - 1 = n
    BY <1>1
  <2>2. Under(t, n + 1) = Under(t, n)
    BY <1>3, <2>1, UnderDeleted
  <2>3. Under(t, n) = Under(menus, n)
    BY <1>1, <1>2, UnderSame
  <2> QED BY <2>2, <2>3
<1>5. Under(menus, n) = 0 \/ Under(menus, n) \in 1 .. n - 1
  BY <1>1, UnderIsLive
<1> QED BY <1>2, <1>3, <1>4, <1>5 DEF t

LEMMA ReplaceKeeps ==
    ASSUME MenusInvariant, ~Ended, NEW n, IsTop(menus, n), n = Len(menus), n <= MaxMenus,
           NEW kind \in Kinds, NEW size \in Nat, NEW flags \in SUBSET Flags,
           kind \in {"sections", "feeds"} => n < MaxMenus,
           Founded(Swallowed(menus, NewMenu(kind, size, flags)), n + 1),
           Replace(kind, size, flags)
    PROVE  MenusInvariant'
<1> DEFINE new == NewMenu(kind, size, flags)
           t == Swallowed(menus, new)
<1>1. /\ new \in Menu /\ HasItems(new) /\ KnowsAge(new)
      /\ ~new.is_deleted /\ ~new.is_initialized /\ new.kind = kind
  BY NewMenuIs
<1> HIDE DEF new
<1>2. Len(t) = n + 1 /\ t[n + 1] = new
  BY <1>1, ReplacedIs
<1>3. /\ SoundStack(menus) /\ menus # <<>> /\ n \in Nat /\ MaxMenus \in Nat
  BY TopTypes, MenusAssumption DEF MenusInvariant
<1>4. Founded(t, n + 1) /\ Setup(t)
  BY DEF Replace, new
<1> HIDE DEF t
<1>5. SoundStack(t)
  BY <1>1, <1>3, <1>4, SwallowedSound DEF t
<1> QED BY <1>1, <1>2, <1>3, <1>4, <1>5, SetupKeeps

(* A loop ends for the menu that is on top after menu_close.                 *)
Returned(s) == Top(s) # 0 => IsTop(s, Top(s)) /\ "disable_settings" \in s[Top(s)].flags

LEMMA ReturnKeeps ==
    ASSUME MenusInvariant, ~Ended,
           NEW stack, SoundStack(stack), Len(stack) = Len(menus), Returned(stack),
           menus' = stack, current' = Top(stack), loop' = "run",
           UNCHANGED <<config, menu, age, stop, inserter>>, quit_waiting' \in BOOLEAN
    PROVE  MenusInvariant'
<1>1. /\ stack \in Seq(Menu) /\ DOMAIN stack = 1 .. Len(stack)
      /\ DOMAIN menus = 1 .. Len(menus)
  BY StackType DEF SoundStack, MenusInvariant
<1>2. Top(stack) \in Nat
  <2>1. Live(stack) \subseteq 1 .. Len(stack) /\ Len(stack) \in Nat
    BY <1>1, StackType DEF Live
  <2>2. CASE Live(stack) = {}
    BY <2>2, LastOfNone DEF Top
  <2>3. CASE Live(stack) # {}
    BY <2>1, <2>3, LastExists DEF Top
  <2> QED BY <2>2, <2>3
<1>3. TypeOK'
  BY <1>1, <1>2 DEF MenusInvariant, TypeOK
<1>4. SoundStack(menus)'
  BY SoundNext
<1>5. LoopInvariant'
  <2>1. current' # 0 => IsTop(menus, current)' /\ ~MayOpenAnother'
    BY DEF Returned, IsTop, MayOpenAnother, Has
  <2>2. menu # 0 => menu \in DOMAIN stack
    BY <1>1 DEF MenusInvariant, LoopInvariant, Ended
  <2> QED BY <2>1, <2>2 DEF LoopInvariant, InLoop
<1> QED BY <1>3, <1>4, <1>5 DEF MenusInvariant, InLoop

LEMMA CloseKeeps ==
    ASSUME MenusInvariant, ~Ended, NEW i, IsTop(menus, i), Close
    PROVE  MenusInvariant'
<1>1. SoundStack(menus)
  BY DEF MenusInvariant
<1>2. /\ SoundStack(Closed(menus)) /\ Len(Closed(menus)) = Len(menus)
      /\ Returned(Closed(menus))
  BY <1>1, ClosedSound DEF Returned
<1>3. quit_waiting \in BOOLEAN
  BY DEF MenusInvariant, TypeOK
<1> QED BY <1>2, <1>3, ReturnKeeps DEF Close, CloseTo

(* Explore mode ends together with the menu that it was entered from.        *)
LEMMA CloseTwiceKeeps ==
    ASSUME MenusInvariant, ~Ended, NEW i, IsTop(menus, i), Under(menus, i) # 0,
           CloseTo(Closed(Closed(menus)))
    PROVE  MenusInvariant'
<1> DEFINE s == Closed(menus)
           b == Under(menus, i)
<1>1. SoundStack(menus)
  BY DEF MenusInvariant
<1>2. SoundStack(s) /\ Len(s) = Len(menus) /\ IsTop(s, b)
  BY <1>1, ClosedSound
<1> HIDE DEF s, b
<1>3. SoundStack(Closed(s)) /\ Len(Closed(s)) = Len(menus) /\ Returned(Closed(s))
  BY <1>2, ClosedSound DEF Returned
<1>4. quit_waiting \in BOOLEAN
  BY DEF MenusInvariant, TypeOK
<1>5. CloseTo(Closed(s))
  BY DEF s
<1> QED BY <1>3, <1>4, <1>5, ReturnKeeps DEF CloseTo

LEMMA QuitKeeps ==
    ASSUME MenusInvariant, ~Ended, Quit
    PROVE  MenusInvariant'
<1>1. SoundStack(menus)'
  BY SoundNext DEF MenusInvariant, Quit
<1> QED BY <1>1 DEF MenusInvariant, TypeOK, LoopInvariant, InLoop, Ended, Quit

(* What runs next is loaded, and started.                                    *)
LEMMA ReadyKeeps ==
    ASSUME MenusInvariant, loop = "run", current # 0,
           NEW stack, SameMenus(menus, stack), SoundStack(stack),
           menus[current].kind = "items" => stack[current].items,
           menus' = stack, loop' = "start",
           UNCHANGED <<config, menu, current, age, stop, inserter>>, quit_waiting' \in BOOLEAN
    PROVE  MenusInvariant'
<1>1. IsTop(menus, current)
  BY DEF MenusInvariant, LoopInvariant
<1>2. menus \in Seq(Menu) /\ current \in DOMAIN menus
  BY <1>1 DEF MenusInvariant, SoundStack, IsTop
<1>3. stack \in Seq(Menu) /\ Len(stack) = Len(menus) /\ DOMAIN stack = DOMAIN menus
  BY <1>2, StackType DEF SameMenus
<1>4. TypeOK'
  BY <1>3 DEF MenusInvariant, TypeOK
<1>5. SoundStack(menus)'
  BY SoundNext
<1>6. LoopInvariant'
  <2>1. IsTop(stack, current)
    BY <1>1, <1>2, SameTop
  <2>2. IsTop(menus, current)'
    BY <2>1 DEF IsTop
  <2>3. stack[current].kind = menus[current].kind
    BY <1>2 DEF SameMenus
  <2>4. menu # 0 => menu \in DOMAIN stack
    BY <1>3 DEF MenusInvariant, LoopInvariant
  <2> QED BY <2>2, <2>3, <2>4 DEF LoopInvariant, InLoop
<1> QED BY <1>4, <1>5, <1>6 DEF MenusInvariant, InLoop

LEMMA SameMenusItself ==
    ASSUME NEW s, SoundStack(s)
    PROVE  SameMenus(s, s)
BY DEF SoundStack, SameMenus

LEMMA RunSectionsKeeps ==
    ASSUME MenusInvariant, RunSections
    PROVE  MenusInvariant'
<1> DEFINE n == current
<1>1. /\ IsTop(menus, n) /\ ~Ended /\ menus[n].kind = "sections"
      /\ MayOpenAnother => IsNew(n)
  BY RunsTop DEF RunSections
<1>2. MayOpenAnother => n = Len(menus) /\ n <= MaxMenus
  BY <1>1 DEF IsNew
<1>3. Founded(menus, n) /\ n \in Nat
  BY <1>1, TopTypes
<1>4. config \in Configs /\ config.total \in Nat
  BY MenusAssumption DEF MenusInvariant, TypeOK
<1>5. CASE MayOpenAnother /\ Open("items", config.total, {"explore"})
  <2> DEFINE new == NewMenu("items", config.total, {"explore"})
             t == Pushed(menus, new)
  <2>1. "items" \in Kinds /\ {"explore"} \in SUBSET Flags
    BY DEF Kinds, Flags
  <2>2. new \in Menu /\ new.kind = "items" /\ new.size = config.total /\ new.flags = {"explore"}
    BY <1>4, <2>1, NewMenuIs
  <2> HIDE DEF new
  <2>3. t[n + 1] = new /\ Under(t, n + 1) = n /\ t[n] = menus[n] /\ n # 0
    <3>1. n \in 1 .. n
      BY <1>1, TopTypes
    <3> QED BY <1>1, <1>2, <1>5, <2>2, <3>1, PushedIs
  <2> HIDE DEF t
  <2>4. Founded(t, n + 1)
    BY <1>1, <2>2, <2>3 DEF Founded, Pagers
  <2> QED BY <1>1, <1>2, <1>4, <1>5, <2>1, <2>4, OpenKeeps DEF t, new
<1>6. CASE MayOpenAnother /\ config.one_section /\ Replace("feeds", config.total, {})
  <2> DEFINE new == NewMenu("feeds", config.total, {})
             t == Swallowed(menus, new)
  <2>1. "feeds" \in Kinds /\ {} \in SUBSET Flags
    BY DEF Kinds
  <2>2. new \in Menu /\ new.kind = "feeds" /\ new.size = config.total /\ new.flags = {}
    BY <1>4, <2>1, NewMenuIs
  <2> HIDE DEF new
  <2>3. t[n + 1] = new
    BY <1>1, <1>2, <1>6, <2>2, ReplacedIs
  <2> HIDE DEF t
  <2>4. Founded(t, n + 1)
    BY <1>6, <2>2, <2>3 DEF Founded, Pagers
  <2>5. n < MaxMenus
    BY <1>1, <1>3, MenusAssumption DEF Founded
  <2> QED BY <1>1, <1>2, <1>4, <1>6, <2>1, <2>4, <2>5, ReplaceKeeps DEF t, new
<1>7. CASE Ready(menus)
  <2>1. SoundStack(menus) /\ quit_waiting \in BOOLEAN
    BY DEF MenusInvariant, TypeOK
  <2>2. SameMenus(menus, menus)
    BY <2>1, SameMenusItself
  <2> QED BY <1>1, <1>7, <2>1, <2>2, ReadyKeeps DEF Ready, RunSections, Runs
<1> QED BY <1>5, <1>6, <1>7 DEF RunSections

LEMMA RunFeedsKeeps ==
    ASSUME MenusInvariant, RunFeeds
    PROVE  MenusInvariant'
<1> DEFINE n == current
           size == menus[n].size
<1>1. /\ IsTop(menus, n) /\ ~Ended /\ menus[n].kind = "feeds"
      /\ MayOpenAnother => IsNew(n)
  BY RunsTop DEF RunFeeds
<1>2. MayOpenAnother => n = Len(menus) /\ n <= MaxMenus
  BY <1>1 DEF IsNew
<1>3. Founded(menus, n) /\ n \in Nat /\ n \in 1 .. n /\ menus[n] \in Menu
  BY <1>1, TopTypes
<1>4. size \in Nat
  BY <1>3 DEF Menu
<1>5. CASE MayOpenAnother /\ Open("items", size, {"explore"})
  <2> DEFINE new == NewMenu("items", size, {"explore"})
             t == Pushed(menus, new)
  <2>1. "items" \in Kinds /\ {"explore"} \in SUBSET Flags
    BY DEF Kinds, Flags
  <2>2. new \in Menu /\ new.kind = "items" /\ new.size = size /\ new.flags = {"explore"}
    BY <1>4, <2>1, NewMenuIs
  <2> HIDE DEF new
  <2>3. t[n + 1] = new /\ Under(t, n + 1) = n /\ t[n] = menus[n] /\ n # 0
    BY <1>1, <1>2, <1>3, <1>5, <2>2, PushedIs
  <2> HIDE DEF t
  <2>4. Founded(t, n + 1)
    BY <1>1, <2>2, <2>3 DEF Founded, Pagers
  <2> QED BY <1>1, <1>2, <1>4, <1>5, <2>1, <2>4, OpenKeeps DEF t, new
<1>6. CASE size = 1 /\ MayOpenAnother /\ Replace("items", size, {})
  <2> DEFINE new == NewMenu("items", size, {})
             t == Swallowed(menus, new)
  <2>1. "items" \in Kinds /\ {} \in SUBSET Flags
    BY DEF Kinds
  <2>2. new \in Menu /\ new.kind = "items" /\ new.size = size /\ new.flags = {}
    BY <1>4, <2>1, NewMenuIs
  <2> HIDE DEF new
  <2>3. t[n + 1] = new /\ Under(t, n + 1) = Under(menus, n)
    BY <1>1, <1>2, <1>6, <2>2, ReplacedIs
  <2> HIDE DEF t
  <2>4. Under(menus, n) = 0 => config.one_section /\ config.total = 1
    BY <1>1, <1>3, <1>6 DEF Founded
  <2>5. {"explore", "find"} \cap {} = {} /\ {"explore", "search", "find"} \cap {} # {"explore"}
    OBVIOUS
  <2>6. Founded(t, n + 1)
    BY <2>2, <2>3, <2>4, <2>5 DEF Founded, Pagers
  <2> QED BY <1>1, <1>2, <1>4, <1>6, <2>1, <2>6, ReplaceKeeps DEF t, new
<1>7. CASE Close
  BY <1>1, <1>7, CloseKeeps
<1>8. CASE Ready(IF menus[n].is_initialized THEN menus ELSE Loaded(menus, n))
  <2>1. SoundStack(menus) /\ quit_waiting \in BOOLEAN
    BY DEF MenusInvariant, TypeOK
  <2> DEFINE stack == IF menus[n].is_initialized THEN menus ELSE Loaded(menus, n)
  <2>2. SameMenus(menus, stack) /\ SoundStack(stack)
    BY <1>1, <2>1, SameMenusItself, LoadedSame
  <2>3. Ready(stack)
    BY <1>8
  <2> HIDE DEF stack
  <2> QED BY <1>1, <2>1, <2>2, <2>3, ReadyKeeps DEF Ready, RunFeeds, Runs
<1> QED BY <1>5, <1>6, <1>7, <1>8 DEF RunFeeds

LEMMA RunItemsKeeps ==
    ASSUME MenusInvariant, RunItems
    PROVE  MenusInvariant'
<1> DEFINE n == current
           s == Aged(menus)
<1>1. IsTop(menus, n) /\ ~Ended /\ menus[n].kind = "items" /\ loop = "run" /\ n # 0
  BY RunsTop DEF RunItems, Runs
<1>2. SoundStack(menus) /\ menus \in Seq(Menu) /\ n \in DOMAIN menus
  BY <1>1, TopTypes DEF MenusInvariant
<1>3. /\ SameMenus(menus, s) /\ SoundStack(s)
      /\ s[n].items = menus[n].items /\ s[n].is_initialized = menus[n].is_initialized
  BY <1>2, AgedSame
<1> HIDE DEF s
<1>4. IsTop(s, n)
  BY <1>1, <1>2, <1>3, SameTop
<1>5. UNCHANGED <<config, menu, age, stop, inserter>> /\ quit_waiting' \in BOOLEAN
  BY DEF RunItems
<1>6. CASE /\ menus' = IF menus[n].is_initialized THEN s ELSE Loaded(s, n)
           /\ loop' = "start" /\ UNCHANGED current
  <2>1. CASE menus[n].is_initialized
    <3>1. s[n].items
      BY <1>1, <1>3, <2>1, TopTypes DEF HasItems
    <3> QED BY <1>1, <1>3, <1>5, <1>6, <2>1, <3>1, ReadyKeeps
  <2>2. CASE ~menus[n].is_initialized
    <3> DEFINE t == Loaded(s, n)
    <3>1. SameMenus(s, t) /\ SoundStack(t) /\ (t[n].items <=> s[n].kind = "items")
      BY <1>3, <1>4, LoadedSame
    <3> HIDE DEF t
    <3>2. SameMenus(menus, t) /\ s[n].kind = menus[n].kind
      <4>1. DOMAIN s = DOMAIN menus
        BY <1>2, <1>3, StackType DEF SameMenus
      <4> QED BY <1>2, <1>3, <3>1, <4>1 DEF SameMenus
    <3>3. menus' = t
      BY <1>6, <2>2 DEF t
    <3> QED BY <1>1, <1>5, <1>6, <3>1, <3>2, <3>3, ReadyKeeps
  <2> QED BY <2>1, <2>2
<1>7. CASE menus' = Closed(s) /\ current' = Top(menus') /\ UNCHANGED loop
  <2>1. SoundStack(Closed(s)) /\ Len(Closed(s)) = Len(menus) /\ Returned(Closed(s))
    BY <1>3, <1>4, ClosedSound DEF Returned, SameMenus
  <2> QED BY <1>1, <1>5, <1>7, <2>1, ReturnKeeps
<1> QED BY <1>6, <1>7 DEF RunItems, s

LEMMA RunItemPagerKeeps ==
    ASSUME MenusInvariant, RunItemPager
    PROVE  MenusInvariant'
<1>1. /\ IsTop(menus, current) /\ ~Ended /\ menus[current].kind = "item_pager"
      /\ loop = "run" /\ current # 0
  BY RunsTop DEF RunItemPager, Runs
<1>2. SoundStack(menus) /\ quit_waiting \in BOOLEAN
  BY DEF MenusInvariant, TypeOK
<1>3. SameMenus(menus, menus)
  BY <1>2, SameMenusItself
<1>4. CASE Ready(menus)
  BY <1>1, <1>2, <1>3, <1>4, ReadyKeeps DEF Ready
<1> QED BY <1>1, <1>4, CloseKeeps DEF RunItemPager

LEMMA RunErrorsPagerKeeps ==
    ASSUME MenusInvariant, RunErrorsPager
    PROVE  MenusInvariant'
<1>1. /\ IsTop(menus, current) /\ ~Ended /\ menus[current].kind = "errors_pager"
      /\ loop = "run" /\ current # 0
  BY RunsTop DEF RunErrorsPager, Runs
<1>2. SoundStack(menus) /\ quit_waiting \in BOOLEAN
  BY DEF MenusInvariant, TypeOK
<1>3. SameMenus(menus, menus)
  BY <1>2, SameMenusItself
<1>4. CASE Ready(menus)
  BY <1>1, <1>2, <1>3, <1>4, ReadyKeeps DEF Ready
<1> QED BY <1>1, <1>4, CloseKeeps DEF RunErrorsPager

(* menu_start                                                                *)
LEMMA StartKeeps ==
    ASSUME MenusInvariant, Start
    PROVE  MenusInvariant'
<1> DEFINE n == current
           s == FreeDeleted(menus)
           m == [s[n] EXCEPT !.is_initialized = TRUE]
           t == [s EXCEPT ![n] = m]
<1>1. IsTop(menus, n) /\ n # 0 /\ (menus[n].kind = "items" => menus[n].items)
  BY DEF MenusInvariant, LoopInvariant, Start
<1>2. /\ menus[n] \in Menu /\ n \in Nat /\ n \in 1 .. n /\ n <= Len(menus)
      /\ Len(menus) \in Nat /\ Len(menus) <= MaxMenus + 1
      /\ HasItems(menus[n]) /\ KnowsAge(menus[n]) /\ ~menus[n].is_deleted
  BY <1>1, TopTypes DEF MenusInvariant, TypeOK
<1>3. SoundStack(s) /\ Len(s) = n /\ IsTop(s, n) /\ s[n] = menus[n]
  BY <1>1, <1>2, FreedSound DEF MenusInvariant
<1>4. n \in DOMAIN s /\ s \in Seq(Menu) /\ DOMAIN s = 1 .. n
  BY <1>3, StackType DEF IsTop, SoundStack
<1> HIDE DEF s
<1>5. /\ m \in Menu /\ m.kind = s[n].kind /\ m.size = s[n].size /\ m.flags = s[n].flags
      /\ m.is_deleted = s[n].is_deleted /\ m.is_initialized
      /\ m.items = s[n].items /\ m.fresh = s[n].fresh /\ m.contents = s[n].contents
  BY <1>2, <1>3 DEF Menu
<1> HIDE DEF m
<1>6. HasItems(m) /\ KnowsAge(m)
  BY <1>1, <1>2, <1>3, <1>5 DEF HasItems, KnowsAge
<1>7. SameMenus(s, t) /\ t[n] = m /\ \A j \in DOMAIN s : j # n => t[j] = s[j]
  BY <1>3, <1>4, <1>5, <1>6, MenuChanged
<1>8. menus' = t /\ menu' = n /\ loop' = "read" /\ UNCHANGED <<config, current>>
  BY DEF Start, s, m
<1> HIDE DEF t
<1>9. SoundStack(t)
  <2>1. \A j \in DOMAIN s : (~s[j].is_deleted => j <= n) /\ (j < n => t[j].items = s[j].items)
    BY <1>2, <1>4, <1>7
  <2> QED BY <1>2, <1>3, <1>7, <2>1, SameSound
<1>10. t \in Seq(Menu) /\ Len(t) = n /\ DOMAIN t = 1 .. n
  BY <1>3, <1>7, <1>9, StackType DEF SameMenus
<1>11. TypeOK'
  <2>1. n <= MaxMenus + 1
    BY <1>2, MenusAssumption
  <2> QED BY <1>2, <1>8, <1>10, <2>1 DEF Start, MenusInvariant, TypeOK
<1>12. SoundStack(menus)'
  BY <1>8, <1>9, SoundNext
<1>13. LoopInvariant' /\ InLoop' /\ AgeInvariant'
  BY <1>2, <1>3, <1>5, <1>7, <1>8, <1>10 DEF LoopInvariant, InLoop, AgeInvariant
<1> QED BY <1>11, <1>12, <1>13 DEF MenusInvariant

(* menu_read stays with its menu and learns of the age.                      *)
LEMMA ReadKeeps ==
    ASSUME MenusInvariant, InLoop,
           NEW m, SameMenus(menus, m), SoundStack(m), menus' = m,
           InLoop', UNCHANGED <<config, menu, current, stop>>,
           age' \in [behind : BOOLEAN, latest : BOOLEAN], quit_waiting' \in BOOLEAN,
           inserter' \in {"idle", "working", "exposing", "examining", "exited"},
           AgeInvariant'
    PROVE  MenusInvariant'
<1>1. /\ menus \in Seq(Menu) /\ m \in Seq(Menu) /\ Len(m) = Len(menus)
      /\ DOMAIN m = DOMAIN menus
  BY StackType DEF MenusInvariant, SoundStack, SameMenus
<1>2. /\ menu = current /\ menu = Len(menus) /\ menu \in DOMAIN menus
      /\ ~menus[menu].is_deleted /\ menus[menu].is_initialized
  BY DEF MenusInvariant, LoopInvariant
<1>3. TypeOK'
  BY <1>1 DEF MenusInvariant, TypeOK, InLoop
<1>4. SoundStack(menus)'
  BY SoundNext
<1>5. LoopInvariant'
  <2>1. menu \in DOMAIN m /\ ~m[menu].is_deleted /\ m[menu].is_initialized
    BY <1>1, <1>2 DEF SameMenus
  <2> QED BY <1>1, <1>2, <2>1 DEF LoopInvariant, InLoop
<1> QED BY <1>3, <1>4, <1>5 DEF MenusInvariant

LEMMA ReadAgeKeeps ==
    ASSUME MenusInvariant, ReadAge
    PROVE  MenusInvariant'
<1>1. InLoop /\ InLoop'
  BY DEF InLoop, ReadAge
<1>2. SoundStack(menus) /\ SameMenus(menus, menus) /\ IsTop(menus, menu)
  BY <1>1, InLoopTop, SameMenusItself DEF MenusInvariant
<1>3. menus[menu].fresh \in BOOLEAN /\ KnowsAge(menus[menu])
  BY <1>2, TopTypes DEF Menu
<1>4. AgeInvariant'
  BY <1>3 DEF AgeInvariant, CatchesUp, KnowsAge, ReadAge, stackVars
<1> QED BY <1>1, <1>2, <1>3, <1>4, ReadKeeps DEF ReadAge, stackVars, MenusInvariant, TypeOK

LEMMA CatchUpKeeps ==
    ASSUME MenusInvariant, CatchUp
    PROVE  MenusInvariant'
<1>1. InLoop /\ InLoop'
  BY DEF InLoop, CatchUp
<1>2. SoundStack(menus) /\ SameMenus(menus, menus) /\ IsTop(menus, menu)
  BY <1>1, InLoopTop, SameMenusItself DEF MenusInvariant
<1>3. menus' \in IF age.behind /\ CatchesUp(menu) THEN Rebuilt(menus, menu) ELSE {menus}
  BY DEF CatchUp
<1>4. /\ SameMenus(menus, menus') /\ SoundStack(menus')
      /\ age.behind /\ CatchesUp(menu) => menus'[menu].contents # "old"
  <2>1. CASE age.behind /\ CatchesUp(menu)
    <3>1. \A t \in Rebuilt(menus, menu) :
            SameMenus(menus, t) /\ SoundStack(t) /\ t[menu].contents # "old"
      BY <1>2, RebuiltSame
    <3> QED BY <1>3, <2>1, <3>1
  <2>2. CASE ~(age.behind /\ CatchesUp(menu))
    <3>1. menus' = menus
      BY <1>3, <2>2
    <3> QED BY <1>2, <2>2, <3>1
  <2> QED BY <2>1, <2>2
<1>5. AgeInvariant'
  <2>1. loop = "catch_up" /\ loop' = "note_age" /\ UNCHANGED <<config, menu, age, quit_waiting>>
    BY DEF CatchUp
  <2>2. SUFFICES ASSUME CatchesUp(menu)', menus'[menu].contents = "old"
                 PROVE  ~age.latest /\ quit_waiting
    BY <2>1 DEF AgeInvariant
  <2>3. menus'[menu].kind = menus[menu].kind
    BY <1>2, <1>4 DEF SameMenus, IsTop
  <2>4. CatchesUp(menu)
    BY <2>1, <2>2, <2>3 DEF CatchesUp
  <2>5. ~age.behind
    BY <1>4, <2>2, <2>4
  <2>6. menus[menu].contents = "old"
    BY <1>3, <2>2, <2>5
  <2>7. AgeInvariant
    BY <1>1 DEF MenusInvariant
  <2> QED BY <2>1, <2>4, <2>5, <2>6, <2>7 DEF AgeInvariant
<1> QED BY <1>1, <1>4, <1>5, ReadKeeps DEF CatchUp, MenusInvariant, TypeOK

LEMMA NoteAgeKeeps ==
    ASSUME MenusInvariant, NoteAge
    PROVE  MenusInvariant'
<1> DEFINE m == [menus[menu] EXCEPT !.fresh = age.latest]
           t == [menus EXCEPT ![menu] = m]
<1>1. InLoop /\ InLoop' /\ age.latest \in BOOLEAN
  BY DEF InLoop, NoteAge, MenusInvariant, TypeOK
<1>2. SoundStack(menus) /\ IsTop(menus, menu)
  BY <1>1, InLoopTop DEF MenusInvariant
<1>3. /\ menus[menu] \in Menu /\ menu \in DOMAIN menus /\ menu \in Nat
      /\ HasItems(menus[menu]) /\ KnowsAge(menus[menu]) /\ DOMAIN menus = 1 .. Len(menus)
  BY <1>2, TopTypes
<1>4. AgeInvariant
  BY <1>1 DEF MenusInvariant
<1>5. /\ m \in Menu /\ m.kind = menus[menu].kind /\ m.size = menus[menu].size
      /\ m.flags = menus[menu].flags /\ m.is_deleted = menus[menu].is_deleted
      /\ m.is_initialized = menus[menu].is_initialized /\ m.items = menus[menu].items
      /\ m.fresh = age.latest /\ m.contents = menus[menu].contents
  BY <1>1, <1>3 DEF Menu
<1>6. menus' = t
  BY DEF NoteAge
<1> HIDE DEF m
<1>7. HasItems(m) /\ KnowsAge(m)
  BY <1>3, <1>4, <1>5 DEF HasItems, KnowsAge, AgeInvariant, CatchesUp, NoteAge
<1>8. SameMenus(menus, t) /\ t[menu] = m /\ \A j \in DOMAIN menus : j # menu => t[j] = menus[j]
  BY <1>2, <1>3, <1>5, <1>7, MenuChanged
<1> HIDE DEF t
<1>9. SoundStack(t)
  <2>1. \A j \in DOMAIN menus :
          (~menus[j].is_deleted => j <= menu) /\ (j < menu => t[j].items = menus[j].items)
    BY <1>2, <1>3, <1>8 DEF IsTop
  <2> QED BY <1>2, <1>3, <1>8, <2>1, SameSound
<1>10. AgeInvariant'
  BY <1>4, <1>5, <1>6, <1>8 DEF AgeInvariant, CatchesUp, NoteAge
<1> QED BY <1>1, <1>6, <1>8, <1>9, <1>10, ReadKeeps DEF NoteAge, MenusInvariant, TypeOK

LEMMA WaitingKeeps ==
    ASSUME MenusInvariant, Yield \/ Yielded
    PROVE  MenusInvariant'
<1>1. InLoop /\ InLoop'
  BY DEF InLoop, Yield, Yielded
<1>2. SoundStack(menus) /\ SameMenus(menus, menus)
  BY SameMenusItself DEF MenusInvariant
<1>3. AgeInvariant'
  BY DEF AgeInvariant, Yield, Yielded
<1> QED BY <1>1, <1>2, <1>3, ReadKeeps DEF Yield, Yielded, stackVars, MenusInvariant, TypeOK

LEMMA NoticeStopKeeps ==
    ASSUME MenusInvariant, NoticeStop
    PROVE  MenusInvariant'
<1>1. InLoop /\ ~Ended
  BY DEF InLoop, Ended, NoticeStop
<1>2. IsTop(menus, menu)
  BY <1>1, InLoopTop
<1> QED BY <1>1, <1>2, QuitKeeps, CloseKeeps DEF NoticeStop, Leave

-----------------------------------------------------------------------------
(* Commands.                                                                 *)
LEMMA StayKeeps ==
    ASSUME MenusInvariant, Stay \/ RebuildNow
    PROVE  MenusInvariant'
<1>1. InLoop /\ InLoop' /\ AgeInvariant'
  BY DEF InLoop, AgeInvariant, Stay, RebuildNow, GoOn, AtInput
<1>2. SoundStack(menus) /\ SameMenus(menus, menus) /\ IsTop(menus, menu) /\ menus \in Seq(Menu)
  BY <1>1, InLoopTop, SameMenusItself DEF MenusInvariant, SoundStack
<1> DEFINE s == Aged(menus)
<1>3. SameMenus(menus, s) /\ SoundStack(s)
  BY <1>2, AgedSame
<1>4. IsTop(s, menu) /\ DOMAIN s = DOMAIN menus
  BY <1>2, <1>3, SameTop, StackType DEF SameMenus
<1>5. menus' \in {menus, s} \cup Rebuilt(s, menu) \cup Rebuilt(menus, menu)
  BY DEF Stay, RebuildNow
<1> HIDE DEF s
<1>6. \A t \in Rebuilt(s, menu) : SameMenus(menus, t) /\ SoundStack(t)
  <2>1. SUFFICES ASSUME NEW t \in Rebuilt(s, menu)
                 PROVE  SameMenus(menus, t) /\ SoundStack(t)
    OBVIOUS
  <2>2. SameMenus(s, t) /\ SoundStack(t)
    BY <1>3, <1>4, RebuiltSame
  <2> QED BY <1>3, <1>4, <2>2 DEF SameMenus
<1>7. \A t \in Rebuilt(menus, menu) : SameMenus(menus, t) /\ SoundStack(t)
  BY <1>2, RebuiltSame
<1>8. SameMenus(menus, menus') /\ SoundStack(menus')
  <2>1. ASSUME NEW t \in {menus, s} \cup Rebuilt(s, menu) \cup Rebuilt(menus, menu)
        PROVE  SameMenus(menus, t) /\ SoundStack(t)
    BY <1>2, <1>3, <1>6, <1>7, <2>1
  <2> QED BY <1>5, <2>1
<1>9. quit_waiting' \in BOOLEAN
  BY DEF Stay, RebuildNow, MenusInvariant, TypeOK
<1> QED BY <1>1, <1>8, <1>9, ReadKeeps DEF Stay, RebuildNow, GoOn, MenusInvariant, TypeOK

(* Whoever opens a menu by hand has room for it.                             *)
OpenedOn(t, kind, size, flags) ==
    /\ t[menu] = menus[menu] /\ Under(t, menu + 1) = menu /\ menu # 0 /\ menu \in Nat
    /\ t[menu + 1].kind = kind /\ t[menu + 1].size = size /\ t[menu + 1].flags = flags

LEMMA UserOpens ==
    ASSUME MenusInvariant, NEW kinds, AtInput(kinds),
           NEW kind \in Kinds, NEW size \in Nat, NEW flags \in SUBSET Flags,
           Room \/ (RoomForPager /\ kind \in Pagers),
           Open(kind, size, flags),
           \A t : OpenedOn(t, kind, size, flags) => Founded(t, menu + 1)
    PROVE  MenusInvariant'
<1>1. IsTop(menus, menu) /\ menu = Len(menus) /\ ~Ended
  BY AtInputTop
<1>2. menu \in Nat /\ menu \in 1 .. menu
  BY <1>1, TopTypes
<1> DEFINE new == NewMenu(kind, size, flags)
           t == Pushed(menus, new)
<1>3. new \in Menu /\ new.kind = kind /\ new.size = size /\ new.flags = flags
  BY NewMenuIs
<1> HIDE DEF new
<1>4. t[menu + 1] = new /\ Under(t, menu + 1) = menu /\ t[menu] = menus[menu] /\ menu # 0
  BY <1>1, <1>2, <1>3, PushedIs
<1>5. menu <= MaxMenus /\ (kind \in {"sections", "feeds"} => menu < MaxMenus)
  BY <1>1, <1>2, MenusAssumption DEF Room, RoomForPager, Pagers
<1> HIDE DEF t
<1>6. Founded(t, menu + 1)
  BY <1>2, <1>3, <1>4 DEF OpenedOn
<1> QED BY <1>1, <1>5, <1>6, OpenKeeps DEF t, new

LEMMA EnterSectionKeeps ==
    ASSUME MenusInvariant, EnterSection
    PROVE  MenusInvariant'
<1>1. config.total \in Nat
  BY MenusAssumption DEF MenusInvariant, TypeOK
<1>2. PICK size \in Nat : Open("feeds", size, {}) \/ Open("errors_pager", size, {})
  BY <1>1 DEF EnterSection
<1>3. "feeds" \in Kinds /\ "errors_pager" \in Kinds /\ {} \in SUBSET Flags
  BY DEF Kinds, Pagers
<1>4. \A t : OpenedOn(t, "feeds", size, {}) => Founded(t, menu + 1)
  BY DEF OpenedOn, Founded, Pagers
<1>5. \A t : OpenedOn(t, "errors_pager", size, {}) => Founded(t, menu + 1)
  BY DEF OpenedOn, Founded, Pagers
<1> QED BY <1>2, <1>3, <1>4, <1>5, UserOpens DEF EnterSection

(* A list of items with no mode of its own.                                  *)
LEMMA PlainItems ==
    ASSUME NEW t, NEW size, OpenedOn(t, "items", size, {})
    PROVE  Founded(t, menu + 1)
<1>1. {"explore", "find"} \cap {} = {} /\ {"explore", "search", "find"} \cap {} # {"explore"}
  OBVIOUS
<1> QED BY <1>1 DEF OpenedOn, Founded, Pagers

LEMMA EnterFeedKeeps ==
    ASSUME MenusInvariant, EnterFeed
    PROVE  MenusInvariant'
<1>1. "items" \in Kinds /\ "errors_pager" \in Kinds /\ {} \in SUBSET Flags
  BY DEF Kinds, Pagers
<1>2. \A t : OpenedOn(t, "items", 1, {}) => Founded(t, menu + 1)
  BY PlainItems
<1>3. \A t : OpenedOn(t, "errors_pager", 1, {}) => Founded(t, menu + 1)
  BY DEF OpenedOn, Founded, Pagers
<1> QED BY <1>1, <1>2, <1>3, UserOpens DEF EnterFeed

LEMMA GotoFeedKeeps ==
    ASSUME MenusInvariant, GotoFeed
    PROVE  MenusInvariant'
<1>1. "items" \in Kinds /\ {} \in SUBSET Flags
  BY DEF Kinds
<1>2. \A t : OpenedOn(t, "items", 1, {}) => Founded(t, menu + 1)
  BY PlainItems
<1> QED BY <1>1, <1>2, UserOpens DEF GotoFeed

LEMMA EnterItemKeeps ==
    ASSUME MenusInvariant, EnterItem
    PROVE  MenusInvariant'
<1>1. "item_pager" \in Kinds /\ "item_pager" \in Pagers /\ {} \in SUBSET Flags
  BY DEF Kinds, Pagers
<1>2. /\ menus[menu].is_initialized /\ menus[menu].kind = "items" /\ menus[menu].items
      /\ menu \in Nat
  <2>1. /\ IsTop(menus, menu) /\ menus[menu].is_initialized
        /\ menus[menu].kind \in {"items"}
    BY AtInputTop DEF EnterItem
  <2> QED BY <2>1, TopTypes DEF HasItems
<1>3. ASSUME NEW t, OpenedOn(t, "item_pager", 0, {}) PROVE Founded(t, menu + 1)
  <2>1. ItemsBelow(t, menu + 1) = menu
    <3> DEFINE S == {j \in 1 .. (menu + 1) - 1 : t[j].items}
    <3>1. S \subseteq Nat /\ menu \in S /\ \A j \in S : j <= menu
      BY <1>2, <1>3 DEF OpenedOn
    <3> HIDE DEF S
    <3>2. Last(S) = menu
      BY <3>1, LastIs
    <3> QED BY <3>2 DEF S, ItemsBelow
  <2> QED BY <1>2, <1>3, <2>1 DEF OpenedOn, Founded, Pagers
<1> QED BY <1>1, <1>3, UserOpens DEF EnterItem

LEMMA ContextIs ==
    ASSUME MenusInvariant, AtInput({"sections", "feeds", "items"})
    PROVE  /\ Context \in Nat /\ Visible \subseteq Nat
           /\ menus[menu].kind = "sections" => Context = config.total
           /\ menus[menu].kind = "feeds" => Context = menus[menu].size
<1>1. config.total \in Nat
  BY MenusAssumption DEF MenusInvariant, TypeOK
<1>2. menus[menu].size \in Nat
  BY AtInputTop, TopTypes DEF Menu
<1> QED BY <1>1, <1>2 DEF Context, Visible

LEMMA ExploreKeeps ==
    ASSUME MenusInvariant, Explore
    PROVE  MenusInvariant'
<1>1. "items" \in Kinds /\ {"explore"} \in SUBSET Flags
  BY DEF Kinds, Flags
<1>2. /\ Context \in Nat
      /\ menus[menu].kind = "sections" => Context = config.total
      /\ menus[menu].kind = "feeds" => Context = menus[menu].size
      /\ menus[menu].kind \in {"sections", "feeds"}
  BY ContextIs DEF Explore, AtInput
<1>3. \A t : OpenedOn(t, "items", Context, {"explore"}) => Founded(t, menu + 1)
  BY <1>2 DEF OpenedOn, Founded, Pagers
<1> QED BY <1>1, <1>2, <1>3, UserOpens DEF Explore

(* A list of found or matching items.                                        *)
LEMMA FilteredItems ==
    ASSUME NEW t, NEW size, NEW flags \in SUBSET Flags,
           "search" \in flags \/ "find" \in flags, OpenedOn(t, "items", size, flags)
    PROVE  Founded(t, menu + 1)
<1>1. {"explore", "search", "find"} \cap flags # {"explore"}
  OBVIOUS
<1> QED BY <1>1 DEF OpenedOn, Founded, Pagers

LEMMA SearchKeeps ==
    ASSUME MenusInvariant, Search
    PROVE  MenusInvariant'
<1> DEFINE flags == {"explore", "search"} \cup (menus[menu].flags \cap {"find"})
<1>1. "items" \in Kinds /\ flags \in SUBSET Flags
  BY DEF Kinds, Flags
<1>2. PICK size \in Nat : Open("items", size, flags)
  BY ContextIs DEF Search
<1>3. "search" \in flags
  OBVIOUS
<1> HIDE DEF flags
<1>4. \A t : OpenedOn(t, "items", size, flags) => Founded(t, menu + 1)
  BY <1>1, <1>3, FilteredItems
<1> QED BY <1>1, <1>2, <1>4, UserOpens DEF Search

LEMMA FindKeeps ==
    ASSUME MenusInvariant, Find
    PROVE  MenusInvariant'
<1> DEFINE flags == {"explore", "find"}
<1>1. "items" \in Kinds /\ flags \in SUBSET Flags
  BY DEF Kinds, Flags
<1>2. PICK size \in Nat : IF Has(menu, "find") THEN Replace("items", size, flags)
                          ELSE Open("items", size, flags)
  BY ContextIs DEF Find
<1>3. "find" \in flags /\ {"explore", "search", "find"} \cap flags # {"explore"}
  OBVIOUS
<1> HIDE DEF flags
<1>4. CASE ~Has(menu, "find")
  <2>1. \A t : OpenedOn(t, "items", size, flags) => Founded(t, menu + 1)
    BY <1>1, <1>3, FilteredItems
  <2> QED BY <1>1, <1>2, <1>4, <2>1, UserOpens DEF Find
<1>5. CASE Has(menu, "find")
  <2> DEFINE new == NewMenu("items", size, flags)
             t == Swallowed(menus, new)
  <2>1. /\ IsTop(menus, menu) /\ menu = Len(menus) /\ ~Ended
        /\ menus[menu].kind \in {"sections", "feeds", "items"}
    BY AtInputTop DEF Find
  <2>2. new \in Menu /\ new.kind = "items" /\ new.flags = flags
    BY <1>1, NewMenuIs
  <2> HIDE DEF new
  <2>3. t[menu + 1] = new /\ Under(t, menu + 1) = Under(menus, menu)
    BY <2>1, <2>2, ReplacedIs
  <2> HIDE DEF t
  <2>4. Under(menus, menu) # 0
    BY <1>5, <2>1, TopTypes DEF Founded, Has
  <2>5. Founded(t, menu + 1)
    BY <1>3, <2>2, <2>3, <2>4 DEF Founded, Pagers
  <2>6. menu \in Nat /\ menu <= MaxMenus
    BY <2>1, TopTypes, MenusAssumption DEF Find, Room
  <2> QED BY <1>1, <1>2, <1>5, <2>1, <2>5, <2>6, ReplaceKeeps DEF t, new
<1> QED BY <1>4, <1>5

(* The next item is shown over the same list.                                *)
LEMMA JumpInPagerKeeps ==
    ASSUME MenusInvariant, JumpInPager
    PROVE  MenusInvariant'
<1> DEFINE new == NewMenu("item_pager", 0, {})
           t == Swallowed(menus, new)
           b == Under(menus, menu)
<1>1. "item_pager" \in Kinds /\ "item_pager" \in Pagers /\ {} \in SUBSET Flags
  BY DEF Kinds, Pagers
<1>2. /\ IsTop(menus, menu) /\ menu = Len(menus) /\ ~Ended
      /\ menus[menu].kind = "item_pager"
  BY AtInputTop DEF JumpInPager
<1>3. new \in Menu /\ new.kind = "item_pager"
  BY <1>1, NewMenuIs
<1> HIDE DEF new
<1>4. /\ t[menu + 1] = new /\ t[menu].items = menus[menu].items
      /\ \A i \in 1 .. menu - 1 : t[i] = menus[i]
      /\ Under(t, menu + 1) = b
      /\ b = 0 \/ b \in 1 .. menu - 1
  BY <1>2, <1>3, ReplacedIs
<1> HIDE DEF t, b
<1>5. /\ b # 0 /\ ItemsBelow(menus, menu) = b /\ menus[b].is_initialized
      /\ ~menus[menu].items /\ menu \in Nat
  BY <1>1, <1>2, TopTypes DEF Founded, HasItems, b
<1>6. ItemsBelow(t, menu + 1) = b
  <2>1. {j \in 1 .. (menu + 1) - 1 : t[j].items} = {j \in 1 .. menu - 1 : menus[j].items}
    BY <1>4, <1>5
  <2> QED BY <1>5, <2>1 DEF ItemsBelow
<1>7. Founded(t, menu + 1)
  BY <1>3, <1>4, <1>5, <1>6 DEF Founded, Pagers
<1>8. menu <= MaxMenus
  BY <1>2 DEF JumpInPager, RoomForPager
<1> QED BY <1>1, <1>2, <1>7, <1>8, ReplaceKeeps DEF JumpInPager, t, new

LEMMA LeaveKeeps ==
    ASSUME MenusInvariant, LeaveExplore \/ LeavePager \/ NavigateBack \/ QuitSoft \/ QuitHard
    PROVE  MenusInvariant'
<1>1. IsTop(menus, menu) /\ ~Ended
  BY AtInputTop DEF LeaveExplore, LeavePager, NavigateBack, QuitSoft, QuitHard
<1>2. CASE Quit
  BY <1>1, <1>2, QuitKeeps
<1>3. CASE Close
  BY <1>1, <1>3, CloseKeeps
<1>4. CASE AtInput({"items"}) /\ IsExplore(menu) /\ CloseTo(Closed(Closed(menus)))
  <2>1. menus[menu].kind = "items"
    BY <1>4 DEF AtInput
  <2>2. "explore" \in {"explore", "find"} \cap menus[menu].flags
    BY <1>4 DEF IsExplore, Has
  <2>3. Under(menus, menu) # 0
    BY <1>1, <2>1, <2>2, TopTypes DEF Founded
  <2> QED BY <1>1, <1>4, <2>3, CloseTwiceKeeps
<1> QED BY <1>2, <1>3, <1>4 DEF LeaveExplore, LeavePager, NavigateBack, QuitSoft, QuitHard, Close

-----------------------------------------------------------------------------
(* The end, and the inserter.                                                *)
LEMMA StackUnchanged ==
    ASSUME MenusInvariant, UNCHANGED <<config, stackVars, loop, age, quit_waiting>>,
           stop' \in BOOLEAN, inserter' \in {"idle", "working", "exposing", "examining", "exited"}
    PROVE  MenusInvariant'
<1>1. SoundStack(menus)'
  BY SoundNext DEF MenusInvariant, stackVars
<1>2. TypeOK'
  BY DEF MenusInvariant, TypeOK, stackVars
<1>3. LoopInvariant' /\ (InLoop => AgeInvariant)'
  BY DEF MenusInvariant, LoopInvariant, AgeInvariant, InLoop, IsTop, IsNew, MayOpenAnother,
         Has, CatchesUp, stackVars
<1> QED BY <1>1, <1>2, <1>3 DEF MenusInvariant

LEMMA EndKeeps ==
    ASSUME MenusInvariant, EndLoop \/ JoinInserter
    PROVE  MenusInvariant'
<1>1. SoundStack(menus)'
  BY SoundNext DEF MenusInvariant, EndLoop, JoinInserter, stackVars
<1>2. TypeOK'
  BY DEF MenusInvariant, TypeOK, EndLoop, JoinInserter, stackVars
<1>3. LoopInvariant' /\ ~InLoop'
  BY DEF MenusInvariant, LoopInvariant, InLoop, EndLoop, JoinInserter, stackVars
<1> QED BY <1>1, <1>2, <1>3 DEF MenusInvariant

LEMMA FreeMenusKeeps ==
    ASSUME MenusInvariant, FreeMenus
    PROVE  MenusInvariant'
<1>1. SoundStack(<<>>)
  BY DEF SoundStack
<1>2. SoundStack(menus)'
  BY <1>1, SoundNext DEF FreeMenus
<1>3. Len(<<>>) <= MaxMenus + 1 /\ <<>> \in Seq(Menu)
  BY MenusAssumption
<1> QED BY <1>2, <1>3 DEF MenusInvariant, TypeOK, LoopInvariant, InLoop, FreeMenus

LEMMA InserterExamineKeeps ==
    ASSUME MenusInvariant, InserterExamine, menus' = Aged(menus),
           age' = [age EXCEPT !.latest = FALSE], quit_waiting' = TRUE
    PROVE  MenusInvariant'
<1> DEFINE s == Aged(menus)
<1>1. SoundStack(menus) /\ menus \in Seq(Menu)
  BY DEF MenusInvariant, SoundStack
<1>2. /\ SameMenus(menus, s) /\ SoundStack(s)
      /\ \A i \in DOMAIN menus : s[i].items = menus[i].items
                                 /\ s[i].is_initialized = menus[i].is_initialized
  BY <1>1, AgedSame
<1> HIDE DEF s
<1>3. UNCHANGED <<config, menu, current, loop, stop>> /\ inserter' = "idle" /\ menus' = s
  BY DEF InserterExamine, s
<1>4. s \in Seq(Menu) /\ Len(s) = Len(menus) /\ DOMAIN s = DOMAIN menus
  BY <1>1, <1>2, StackType DEF SameMenus
<1>5. age' \in [behind : BOOLEAN, latest : BOOLEAN] /\ ~age'.latest
  BY DEF MenusInvariant, TypeOK
<1>6. TypeOK'
  BY <1>3, <1>4, <1>5 DEF MenusInvariant, TypeOK
<1>7. SoundStack(menus)'
  BY <1>2, <1>3, SoundNext
<1>8. LoopInvariant'
  <2>1. loop \in {"run", "start"} /\ current # 0 =>
          /\ current \in DOMAIN menus
          /\ IsTop(menus, current)'
          /\ loop = "run" /\ MayOpenAnother' => IsNew(current)'
    <3>1. SUFFICES ASSUME loop \in {"run", "start"}, current # 0
                   PROVE  /\ current \in DOMAIN menus
                          /\ IsTop(menus, current)'
                          /\ loop = "run" /\ MayOpenAnother' => IsNew(current)'
      OBVIOUS
    <3>2. IsTop(menus, current) /\ (loop = "run" /\ MayOpenAnother => IsNew(current))
      BY <3>1 DEF MenusInvariant, LoopInvariant
    <3>3. IsTop(s, current) /\ current \in DOMAIN menus
      BY <1>1, <1>2, <3>2, SameTop DEF IsTop
    <3>4. IsTop(menus, current)'
      BY <1>3, <3>3 DEF IsTop
    <3>5. /\ s[current].kind = menus[current].kind /\ s[current].flags = menus[current].flags
          /\ s[current].is_initialized = menus[current].is_initialized
      BY <1>2, <3>3 DEF SameMenus
    <3> QED BY <1>3, <1>4, <3>2, <3>3, <3>4, <3>5 DEF MayOpenAnother, Has, IsNew
  <2>2. loop = "start" =>
          current # 0 /\ (menus'[current].kind = "items" => menus'[current].items)
    BY <1>2, <1>3, <2>1 DEF MenusInvariant, LoopInvariant, SameMenus
  <2>3. InLoop => /\ menu = current /\ menu = Len(s) /\ menu \in DOMAIN s
                  /\ ~s[menu].is_deleted /\ s[menu].is_initialized
    BY <1>2, <1>4 DEF MenusInvariant, LoopInvariant, SameMenus
  <2>4. menu # 0 /\ loop \notin {"freed", "stopped"} => menu \in DOMAIN s
    BY <1>4 DEF MenusInvariant, LoopInvariant
  <2> QED BY <1>3, <2>1, <2>2, <2>3, <2>4 DEF LoopInvariant, InLoop
<1>9. AgeInvariant'
  BY <1>5 DEF AgeInvariant
<1> QED BY <1>6, <1>7, <1>8, <1>9 DEF MenusInvariant

LEMMA InserterKeeps ==
    ASSUME MenusInvariant, Inserter \/ Signal \/ Terminated
    PROVE  MenusInvariant'
<1>1. CASE InserterExamine
  <2>1. stop' \in BOOLEAN
    BY <1>1 DEF InserterExamine, MenusInvariant, TypeOK
  <2>2. CASE UNCHANGED <<menus, age, quit_waiting>>
    BY <1>1, <2>1, <2>2, StackUnchanged DEF InserterExamine, stackVars
  <2> QED BY <1>1, <2>2, InserterExamineKeeps DEF InserterExamine
<1>2. CASE InserterPull \/ InserterExpose \/ InserterExit \/ Signal \/ Terminated
  <2>1. stop' \in BOOLEAN
    BY <1>2 DEF InserterPull, InserterExpose, InserterExit, Signal, Terminated, vars,
                MenusInvariant, TypeOK
  <2>2. inserter' \in {"idle", "working", "exposing", "examining", "exited"}
    BY <1>2 DEF InserterPull, InserterExpose, InserterExit, Signal, Terminated, vars,
                MenusInvariant, TypeOK
  <2>3. UNCHANGED <<config, stackVars, loop, age, quit_waiting>>
    BY <1>2 DEF InserterPull, InserterExpose, InserterExit, Signal, Terminated, vars
  <2> QED BY <2>1, <2>2, <2>3, StackUnchanged
<1> QED BY <1>1, <1>2 DEF Inserter, InserterGoesOn

-----------------------------------------------------------------------------
(* Theorems.                                                                 *)
LEMMA InitSound ==
    ASSUME Init
    PROVE  MenusInvariant
<1> DEFINE new == NewMenu("sections", 0, {})
           s == <<new>>
<1>1. "sections" \in Kinds /\ {} \in SUBSET Flags
  BY DEF Kinds
<1>2. /\ new \in Menu /\ HasItems(new) /\ KnowsAge(new) /\ ~new.is_deleted
      /\ ~new.is_initialized /\ new.kind = "sections" /\ new.flags = {}
  BY <1>1, NewMenuIs
<1>3. menus = s
  BY DEF Init
<1> HIDE DEF new
<1>4. s \in Seq(Menu) /\ Len(s) = 1 /\ DOMAIN s = 1 .. 1 /\ s[1] = new /\ DOMAIN s = {1}
  <2> HIDE DEF Menu
  <2> QED BY <1>2
<1>5. SoundStack(s)
  <2>1. Founded(s, 1)
    BY <1>2, <1>4 DEF Founded, Pagers
  <2> HIDE DEF s
  <2> QED BY <1>2, <1>4, <2>1 DEF SoundStack
<1> HIDE DEF s
<1>6. 1 <= MaxMenus + 1 /\ 1 <= MaxMenus
  BY MenusAssumption
<1>7. TypeOK
  BY <1>3, <1>4, <1>6 DEF Init, TypeOK
<1>8. IsTop(menus, 1) /\ IsNew(1)
  BY <1>2, <1>3, <1>4, <1>6 DEF IsTop, IsNew
<1>9. LoopInvariant
  BY <1>8 DEF Init, LoopInvariant, InLoop
<1> QED BY <1>3, <1>5, <1>7, <1>9 DEF MenusInvariant, Init, InLoop

LEMMA NextKeeps ==
    ASSUME MenusInvariant, [Next]_vars
    PROVE  MenusInvariant'
<1>1. CASE Run
  BY <1>1, RunSectionsKeeps, RunFeedsKeeps, RunItemsKeeps, RunItemPagerKeeps,
     RunErrorsPagerKeeps, StartKeeps DEF Run
<1>2. CASE Read
  BY <1>2, ReadAgeKeeps, CatchUpKeeps, NoteAgeKeeps, WaitingKeeps, NoticeStopKeeps DEF Read
<1>3. CASE End
  BY <1>3, EndKeeps, FreeMenusKeeps DEF End
<1>4. CASE User
  BY <1>4, StayKeeps, EnterSectionKeeps, EnterFeedKeeps, EnterItemKeeps, GotoFeedKeeps,
     JumpInPagerKeeps, ExploreKeeps, FindKeeps, SearchKeeps, LeaveKeeps DEF User
<1>5. CASE Inserter \/ Signal \/ Terminated
  BY <1>5, InserterKeeps
<1>6. CASE UNCHANGED vars
  <2>1. Terminated \/ UNCHANGED <<config, stackVars, loop, age, quit_waiting, stop, inserter>>
    BY <1>6 DEF vars
  <2>2. stop' \in BOOLEAN /\ inserter' \in {"idle", "working", "exposing", "examining", "exited"}
    BY <1>6 DEF vars, MenusInvariant, TypeOK
  <2> QED BY <1>6, <2>2, StackUnchanged DEF vars
<1> QED BY <1>1, <1>2, <1>3, <1>4, <1>5, <1>6 DEF Next

(* The invariant holds of every reachable state: every live menu stands on   *)
(* what it needs, the loop that runs is that of the top of the stack, and    *)
(* menu_read knows whether its menu is behind.                               *)
THEOREM MenusSound == Spec => []MenusInvariant
<1>1. Init => MenusInvariant
  BY InitSound
<1>2. MenusInvariant /\ [Next]_vars => MenusInvariant'
  BY NextKeeps
<1> QED BY <1>1, <1>2, PTL DEF Spec

(* menu_start always starts the top of the stack, whose loop then runs on a  *)
(* menu that is neither deleted nor freed, however high the stack is.        *)
THEOREM StackStaysSound == Spec => []StackIsSound
<1>1. MenusInvariant => StackIsSound
  <2> SUFFICES ASSUME MenusInvariant PROVE StackIsSound
    OBVIOUS
  <2>1. TypeOK /\ menus \in Seq(Menu)
    BY DEF MenusInvariant, TypeOK
  <2>2. loop = "start" => current # 0 /\ current = Top(menus)
    BY <2>1, TopIs DEF MenusInvariant, LoopInvariant
  <2>3. InLoop => menu = current /\ menu = Len(menus) /\ menu = Top(menus)
    BY <2>1, InLoopTop, TopIs
  <2> QED BY <2>1, <2>2, <2>3 DEF StackIsSound, MenusInvariant, LoopInvariant
<1> QED BY <1>1, MenusSound, PTL

(* A pager is shown over the list it goes back to and takes its item from,   *)
(* and explore mode over the menu whose feeds it shows.                      *)
THEOREM LyingOverSource == Spec => []LiesOverItsSource
<1>1. MenusInvariant => LiesOverItsSource
  <2> SUFFICES ASSUME MenusInvariant, InLoop PROVE LiesOverItsSource
    BY DEF LiesOverItsSource, PagerShowsListBelow, ExploreCoversItsMenu
  <2>1. IsTop(menus, menu)
    BY InLoopTop
  <2>2. Below(menus) = Under(menus, menu) /\ Founded(menus, menu)
    BY <2>1, TopIs, TopTypes
  <2>3. PagerShowsListBelow
    BY <2>2 DEF PagerShowsListBelow, Founded, Pagers
  <2>4. ExploreCoversItsMenu
    <3> SUFFICES ASSUME menus[menu].kind = "items", IsExplore(menu)
                 PROVE  LET base == Below(menus)
                        IN  /\ base # 0
                            /\ \/ menus[base].kind = "sections" /\ menus[menu].size = config.total
                               \/ menus[base].kind = "feeds" /\ menus[menu].size = menus[base].size
      BY DEF ExploreCoversItsMenu
    <3>1. /\ {"explore", "find"} \cap menus[menu].flags # {}
          /\ {"explore", "search", "find"} \cap menus[menu].flags = {"explore"}
      BY DEF IsExplore, Has
    <3> QED BY <2>2, <3>1 DEF Founded
  <2> QED BY <2>3, <2>4 DEF LiesOverItsSource
<1> QED BY <1>1, MenusSound, PTL

(* Between reading the age, catching up and noting it, no rise of the age is *)
(* lost: a list that waits for a key has been looked for anew since the last *)
(* one, or is about to be woken, and only items may not have been found.     *)
THEOREM RefreshNoticed == Spec => []NoRefreshMissed
<1>1. MenusInvariant => NoRefreshMissed
  <2>1. SUFFICES ASSUME MenusInvariant, loop = "wait", CatchesUp(menu), ~quit_waiting
                 PROVE  CaughtUp(menus[menu])
    BY DEF NoRefreshMissed
  <2>2. InLoop /\ AgeInvariant /\ SoundStack(menus)
    BY <2>1 DEF MenusInvariant, InLoop
  <2>3. menus[menu] \in Menu /\ KnowsAge(menus[menu])
    BY <2>1, <2>2, InLoopTop, TopTypes
  <2>4. menus[menu].contents # "old"
    BY <2>1, <2>2 DEF AgeInvariant
  <2> QED BY <2>3, <2>4 DEF Menu, KnowsAge, CaughtUp
<1> QED BY <1>1, MenusSound, PTL

(* A menu that was seen opens no other by itself when it is gone back to.    *)
THEOREM ComingBackOnce == Spec => ComesBackOnce
<1> DEFINE A == loop = "run" /\ current # 0 /\ menus[current].is_initialized
                => Len(menus') <= Len(menus)
<1>1. ASSUME MenusInvariant, [Next]_vars PROVE A
  <2> SUFFICES ASSUME loop = "run", current # 0, menus[current].is_initialized
               PROVE  Len(menus') <= Len(menus)
    OBVIOUS
  <2>1. /\ IsTop(menus, current) /\ ~MayOpenAnother /\ Len(menus) \in Nat
        /\ SoundStack(menus)
    <3>1. IsTop(menus, current) /\ (MayOpenAnother => IsNew(current)) /\ SoundStack(menus)
      BY <1>1 DEF MenusInvariant, LoopInvariant
    <3> QED BY <1>1, <3>1, TopTypes DEF IsNew
  <2> DEFINE s == Aged(menus)
  <2>2. /\ Len(Closed(menus)) = Len(menus) /\ Len(Loaded(menus, current)) = Len(menus)
        /\ Len(s) = Len(menus)
    BY <2>1, ClosedSound, LoadedSame, AgedSame DEF SameMenus
  <2>3. Len(Closed(s)) = Len(menus) /\ Len(Loaded(s, current)) = Len(menus)
    <3>1. menus \in Seq(Menu) /\ SameMenus(menus, s) /\ SoundStack(s)
      BY <2>1, AgedSame DEF SoundStack
    <3>2. IsTop(s, current)
      BY <2>1, <3>1, SameTop
    <3> HIDE DEF s
    <3> QED BY <2>2, <3>1, <3>2, ClosedSound, LoadedSame DEF SameMenus
  <2>4. menus' \in {menus, Closed(menus), Loaded(menus, current), s, Closed(s), Loaded(s, current)}
    <3>1. CASE Run
      BY <2>1, <3>1 DEF Run, RunSections, RunFeeds, RunItems, RunItemPager, RunErrorsPager,
                        Start, Close, CloseTo, Ready
    <3>2. CASE Read
      BY <3>2 DEF Read, ReadAge, CatchUp, NoteAge, Yield, Yielded, NoticeStop
    <3>3. CASE End
      BY <3>3 DEF End, EndLoop, FreeMenus, JoinInserter, stackVars
    <3>4. CASE User
      BY <3>4 DEF User, AtInput, Stay, RebuildNow, EnterSection, EnterFeed, EnterItem, GotoFeed,
                  JumpInPager, Explore, LeaveExplore, Find, Search, LeavePager, NavigateBack,
                  QuitSoft, QuitHard
    <3>5. CASE Inserter \/ Signal \/ Terminated \/ UNCHANGED vars
      BY <3>5 DEF Inserter, InserterGoesOn, InserterPull, InserterExpose, InserterExamine,
                  InserterExit, Signal, Terminated, vars, stackVars
    <3> QED BY <1>1, <3>1, <3>2, <3>3, <3>4, <3>5 DEF Next
  <2> HIDE DEF s
  <2> QED BY <2>1, <2>2, <2>3, <2>4
<1> QED BY <1>1, MenusSound, PTL DEF Spec, ComesBackOnce

LEMMA DepthIsInt ==
    ASSUME NEW s \in Seq(Menu)
    PROVE  Depth(s) \in Int
<1> DEFINE D == DOMAIN s \ Live(s)
           n == Len(s)
<1>1. n \in Nat /\ D \subseteq 1 .. n /\ D \subseteq Int
  BY StackType
<1>2. Last(D) \in Int
  <2> HIDE DEF D, n
  <2>1. CASE D = {}
    BY <2>1, LastOfNone
  <2>2. CASE D # {}
    <3>1. Last(D) \in D
      BY <1>1, <2>2, LastExists
    <3> QED BY <1>1, <3>1
  <2> QED BY <2>1, <2>2
<1> QED BY <1>1, <1>2 DEF Depth

(* get_menu_depth counts live menus only.                                    *)
LEMMA DeepIsLive ==
    ASSUME NEW s \in Seq(Menu), NEW k \in Nat, Depth(s) > k
    PROVE  Len(s) - k \in 1 .. Len(s) /\ ~s[Len(s) - k].is_deleted
<1> DEFINE D == DOMAIN s \ Live(s)
           n == Len(s)
<1>1. n \in Nat /\ DOMAIN s = 1 .. n
  BY StackType
<1>2. D \subseteq 1 .. n /\ n - Last(D) > k
  BY <1>1 DEF Depth
<1>3. (D = {} => Last(D) = 0) /\ (D # {} => Last(D) \in 1 .. n /\ \A j \in D : j <= Last(D))
  <2> HIDE DEF D, n
  <2>1. D # {} => Last(D) \in D /\ \A j \in D : j <= Last(D)
    BY <1>1, <1>2, LastExists
  <2> QED BY <1>2, <2>1, LastOfNone
<1>4. n - k \in 1 .. n /\ n - k \notin D
  <2> HIDE DEF D, n
  <2> QED BY <1>1, <1>2, <1>3
<1> QED BY <1>1, <1>4 DEF Live

(* Closing the top ends the loops only if it stands on nothing.              *)
LEMMA CloseEnds ==
    ASSUME MenusInvariant, NEW i, IsTop(menus, i), Close, current' = 0
    PROVE  Under(menus, i) = 0
BY ClosedSound DEF MenusInvariant, Close, CloseTo

LEMMA CloseTwiceEnds ==
    ASSUME MenusInvariant, NEW i, IsTop(menus, i), Under(menus, i) # 0,
           CloseTo(Closed(Closed(menus))), current' = 0
    PROVE  Under(Closed(menus), Under(menus, i)) = 0
<1> DEFINE s == Closed(menus)
           b == Under(menus, i)
<1>1. SoundStack(s) /\ IsTop(s, b)
  BY ClosedSound DEF MenusInvariant
<1>2. Top(Closed(s)) = 0
  BY DEF CloseTo
<1> HIDE DEF s, b
<1>3. Top(Closed(s)) = Under(s, b)
  BY <1>1, ClosedSound
<1> QED BY <1>2, <1>3 DEF s, b

LEMMA NewOnTop ==
    ASSUME NEW s \in Seq(Menu), s # <<>>, NEW new \in Menu
    PROVE  Len(Pushed(s, new)) # 0 /\ Len(Swallowed(s, new)) # 0
<1>1. Len(s) \in Nat
  BY StackType
<1>2. Len(Pushed(s, new)) = Len(s) + 1
  BY AppendProperties DEF Pushed
<1>3. Len(Swallowed(s, new)) = Len(s) + 1
  BY SwallowedIs
<1> QED BY <1>1, <1>2, <1>3

(* A feeds menu knows one feed at least, so that it is not the first menu    *)
(* when it turns out to be empty; all other lists but the items of the one   *)
(* feed there is stand on another.                                           *)
LEMMA RunEnds ==
    ASSUME MenusInvariant, Run, current' = 0
    PROVE  config.one_section /\ config.total = 1
<1>0. config.total \in Nat \ {0}
  BY MenusAssumption DEF MenusInvariant, TypeOK
<1>2. CASE RunSections
  <2>1. IsTop(menus, current) /\ current # 0
    BY <1>2, RunsTop DEF RunSections, Runs
  <2>2. Len(menus) \in Nat /\ menus \in Seq(Menu) /\ menus # <<>>
    BY <2>1, TopTypes
  <2>3. ASSUME NEW new \in Menu
        PROVE  Len(Pushed(menus, new)) # 0 /\ Len(Swallowed(menus, new)) # 0
    BY <2>2, <2>3, NewOnTop
  <2>4. /\ NewMenu("items", config.total, {"explore"}) \in Menu
        /\ NewMenu("feeds", config.total, {}) \in Menu
    BY <1>0, NewMenuIs DEF Kinds, Flags
  <2> QED BY <1>2, <2>1, <2>3, <2>4 DEF RunSections, Open, Replace, Setup, Ready
<1>3. CASE RunFeeds
  <2>1. IsTop(menus, current) /\ current # 0 /\ menus[current].kind = "feeds"
    BY <1>3, RunsTop DEF RunFeeds, Runs
  <2>2. /\ Len(menus) \in Nat /\ menus \in Seq(Menu) /\ menus # <<>>
        /\ Founded(menus, current) /\ menus[current].size \in Nat
    BY <2>1, TopTypes DEF Menu
  <2>3. ASSUME NEW new \in Menu
        PROVE  Len(Pushed(menus, new)) # 0 /\ Len(Swallowed(menus, new)) # 0
    BY <2>2, <2>3, NewOnTop
  <2>4. /\ NewMenu("items", menus[current].size, {"explore"}) \in Menu
        /\ NewMenu("items", menus[current].size, {}) \in Menu
    BY <2>2, NewMenuIs DEF Kinds, Flags
  <2>5. ASSUME menus[current].size = 0, Close PROVE FALSE
    BY <1>0, <2>1, <2>2, <2>5, CloseEnds DEF Founded
  <2> QED BY <1>3, <2>1, <2>3, <2>4, <2>5 DEF RunFeeds, Open, Replace, Setup, Ready
<1>4. CASE RunItems
  <2> DEFINE s == Aged(menus)
  <2>1. IsTop(menus, current) /\ current # 0 /\ menus[current].kind = "items"
    BY <1>4, RunsTop DEF RunItems, Runs
  <2>2. /\ SoundStack(menus) /\ menus \in Seq(Menu) /\ Founded(menus, current)
        /\ current \in Nat /\ DOMAIN menus = 1 .. Len(menus) /\ current <= Len(menus)
        /\ Len(menus) \in Nat
    BY <2>1, TopTypes DEF MenusInvariant
  <2>3. SameMenus(menus, s) /\ SoundStack(s)
    BY <2>2, AgedSame
  <2>4. Top(Closed(s)) = 0
    BY <1>4, <2>1 DEF RunItems
  <2> HIDE DEF s
  <2>5. IsTop(s, current)
    BY <2>1, <2>2, <2>3, SameTop
  <2>6. Under(s, current) = 0
    BY <2>3, <2>4, <2>5, ClosedSound
  <2>7. Under(menus, current) = 0
    <3>1. \A j \in 1 .. current - 1 : s[j].is_deleted = menus[j].is_deleted
      BY <2>2, <2>3 DEF SameMenus
    <3> QED BY <2>2, <2>6, <3>1, UnderSame
  <2> QED BY <2>1, <2>2, <2>7 DEF Founded
<1>5. CASE RunItemPager \/ RunErrorsPager
  <2>1. IsTop(menus, current) /\ current # 0 /\ menus[current].kind \in Pagers
    BY <1>5, RunsTop DEF RunItemPager, RunErrorsPager, Runs, Pagers
  <2>2. Under(menus, current) # 0
    BY <2>1, TopTypes DEF Founded
  <2> QED BY <1>5, <2>1, <2>2, CloseEnds DEF RunItemPager, RunErrorsPager, Ready
<1>6. CASE Start
  BY <1>6 DEF Start, MenusInvariant, LoopInvariant
<1> QED BY <1>2, <1>3, <1>4, <1>5, <1>6 DEF Run

LEMMA LeavingEnds ==
    ASSUME MenusInvariant, NavigateBack \/ LeavePager \/ LeaveExplore, current' = 0
    PROVE  config.one_section /\ config.total = 1
<1> DEFINE n == menu
           b == Under(menus, n)
<1>1. /\ IsTop(menus, n) /\ n = Len(menus)
      /\ menus[n].kind \in {"feeds", "items"} \cup Pagers
  BY AtInputTop DEF NavigateBack, LeavePager, LeaveExplore
<1>2. /\ Founded(menus, n) /\ menus \in Seq(Menu) /\ n \in Nat /\ n # 0
      /\ SoundStack(menus)
  BY <1>1, TopTypes DEF MenusInvariant
<1>3. CASE LeavePager
  <2>1. menus[n].kind \in Pagers /\ Close
    BY <1>3 DEF LeavePager, AtInput
  <2> QED BY <1>1, <1>2, <2>1, CloseEnds DEF Founded
<1>4. CASE LeaveExplore
  <2>1. menus[n].kind = "items" /\ Close
    BY <1>4 DEF LeaveExplore, AtInput
  <2>2. b = 0
    BY <1>1, <2>1, CloseEnds
  <2> QED BY <1>2, <2>1, <2>2 DEF Founded
<1>5. CASE AtInput({"feeds"}) /\ Depth(menus) >= 2 /\ Close
  <2>1. Len(menus) - 1 \in 1 .. Len(menus) /\ ~menus[Len(menus) - 1].is_deleted
    <3>1. Depth(menus) > 1
      BY <1>2, <1>5, DepthIsInt
    <3> QED BY <1>2, <3>1, DeepIsLive
  <2>2. b = n - 1
    BY <1>1, <1>2, <2>1, UnderLive
  <2>3. b # 0
    BY <1>1, <1>2, <2>1, <2>2
  <2> QED BY <1>1, <1>5, <2>3, CloseEnds
<1>6. CASE AtInput({"items"}) /\ ~IsExplore(menu) /\ Close
  <2>1. menus[n].kind = "items" /\ b = 0
    BY <1>1, <1>6, CloseEnds DEF AtInput
  <2> QED BY <1>2, <2>1 DEF Founded
<1>7. CASE AtInput({"items"}) /\ Depth(menus) >= 3 /\ CloseTo(Closed(Closed(menus)))
  <2>1. /\ n - 1 \in 1 .. n /\ ~menus[n - 1].is_deleted
        /\ n - 2 \in 1 .. n /\ ~menus[n - 2].is_deleted
    <3>1. Depth(menus) > 1 /\ Depth(menus) > 2
      BY <1>2, <1>7, DepthIsInt
    <3> QED BY <1>1, <1>2, <3>1, DeepIsLive
  <2>2. b = n - 1 /\ n - 1 \in Nat /\ n - 1 > 1 /\ b # 0 /\ n - 1 # n
    BY <1>1, <1>2, <2>1, UnderLive
  <2>3. Under(Closed(menus), n - 1) = (n - 1) - 1
    <3>0. \A j \in DOMAIN menus \ {n, b} : Closed(menus)[j] = menus[j]
      BY <1>1, <1>2, ClosedIs
    <3>1. n - 2 \in DOMAIN menus /\ n - 2 # n /\ n - 2 # b
      BY <1>1, <1>2, <2>1, <2>2, StackType
    <3>2. ~Closed(menus)[(n - 1) - 1].is_deleted
      BY <1>2, <2>1, <3>0, <3>1
    <3> QED BY <2>2, <3>2, UnderLive
  <2>4. Under(Closed(menus), b) = 0
    BY <1>1, <1>7, <2>2, CloseTwiceEnds
  <2> QED BY <2>2, <2>3, <2>4
<1> QED BY <1>3, <1>4, <1>5, <1>6, <1>7 DEF NavigateBack

(* Going back, leaving a pager or explore mode, or failing to open a menu    *)
(* does not end the program, unless it has no more than one feed.            *)
THEOREM OnlyQuittingEnds == Spec => OnlyQuitEnds
<1>1. ASSUME MenusInvariant, [Next]_vars
      PROVE  (Run \/ NavigateBack \/ LeavePager \/ LeaveExplore) /\ current' = 0
             => config.one_section /\ config.total = 1
  BY <1>1, RunEnds, LeavingEnds
<1> QED BY <1>1, MenusSound, PTL DEF Spec, OnlyQuitEnds

===============================================================================
