------------------------------ MODULE InputProofs ------------------------------
(* Proofs about Input, for any feeds, keys, bindings and number of events.   *)
EXTENDS Input, NumberLemmas, SequenceTheorems, TLAPS

(* A text that is left in get_input was entered: a search that is given up   *)
(* takes its text with it, and one that starts begins without any.           *)
SearchInvariant ==
    /\ search \in [on : BOOLEAN, text : Seq(Keys \cup Digits)]
    /\ ~search.on /\ search.text # <<>> => search.text \in finished

LEMMA NoText == <<>> \in Seq(Keys \cup Digits)
<1> DEFINE K == Keys \cup Digits
<1> HIDE DEF K
<1>1. <<>> \in Seq(K)
  OBVIOUS
<1> QED BY <1>1 DEF K

LEMMA SearchInit == Init => SearchInvariant
<1> SUFFICES ASSUME Init PROVE SearchInvariant
  OBVIOUS
<1>1. search = [on |-> FALSE, text |-> <<>>]
  BY DEF Init
<1> QED BY <1>1, NoText DEF SearchInvariant

(* Reading a key of the search text.                                         *)
LEMMA SearchKeysAreKnown ==
    ASSUME SearchInvariant, NEW k \in Keys \cup Digits, SearchKey(k)
    PROVE  SearchInvariant'
<1> DEFINE K == Keys \cup Digits
<1>0. search.on = TRUE /\ search.text \in Seq(K)
  BY DEF SearchKey, SearchInvariant
<1>1. CASE k \in {"enter", "escape"} /\ search' = EndOfSearch(k)
           /\ finished' = IF k = "enter" THEN finished \cup {search.text} ELSE finished
  <2>1. EndOfSearch(k) = [on |-> FALSE, text |-> IF k = "enter" THEN search.text ELSE <<>>]
    BY DEF EndOfSearch
  <2> QED BY <1>0, <1>1, <2>1 DEF SearchInvariant
<1>2. CASE search.text = <<>> /\ search' = [search EXCEPT !.on = FALSE] /\ UNCHANGED finished
  BY <1>2 DEF SearchInvariant
<1>3. CASE search.text # <<>> /\ search' = [search EXCEPT !.text = Front(@)]
  <2>1. Front(search.text) \in Seq(K)
    <3> HIDE DEF K
    <3> QED BY <1>0, <1>3 DEF Front
  <2> QED BY <1>0, <1>3, <2>1 DEF SearchInvariant
<1>4. CASE search' = [search EXCEPT !.text = Append(@, k)]
  <2>1. Append(search.text, k) \in Seq(K)
    <3> k \in K
      OBVIOUS
    <3> HIDE DEF K
    <3> QED BY <1>0
  <2> QED BY <1>0, <1>4, <2>1 DEF SearchInvariant
<1> QED BY <1>1, <1>2, <1>3, <1>4 DEF SearchKey

LEMMA SearchNext == SearchInvariant /\ [Next]_vars => SearchInvariant'
<1> SUFFICES ASSUME SearchInvariant, [Next]_vars PROVE SearchInvariant'
  OBVIOUS
<1>1. CASE UNCHANGED <<search, finished>>
  BY <1>1 DEF SearchInvariant
<1>2. ASSUME NEW k \in Keys \cup Digits, SearchKey(k) PROVE SearchInvariant'
  BY <1>2, SearchKeysAreKnown
<1>3. ASSUME NEW k, DigitKey(k) PROVE SearchInvariant'
  BY <1>1, <1>3 DEF DigitKey
<1>4. ASSUME NEW k, ActionKey(k) PROVE SearchInvariant'
  <2>1. search' \in {search, [on |-> TRUE, text |-> <<>>]} /\ UNCHANGED finished
    BY <1>4 DEF ActionKey
  <2>2. CASE search' = search
    BY <1>1, <2>1, <2>2
  <2>3. CASE search' = [on |-> TRUE, text |-> <<>>]
    BY <2>3, NoText DEF SearchInvariant
  <2> QED BY <2>1, <2>2, <2>3
<1>5. CASE Handle
  <2>1. search' \in {search, [search EXCEPT !.text = <<>>]} /\ UNCHANGED finished
    BY <1>5 DEF Handle, HandleInList, HandleInPager, OpenPager, PopSearch, Stay
  <2>2. CASE search' = search
    BY <1>1, <2>1, <2>2
  <2>3. CASE search' = [search EXCEPT !.text = <<>>]
    <3>1. /\ search' \in [on : BOOLEAN, text : Seq(Keys \cup Digits)]
          /\ search'.text = <<>>
      BY <2>3, NoText DEF SearchInvariant
    <3> QED BY <3>1 DEF SearchInvariant
  <2> QED BY <2>1, <2>2, <2>3
<1>6. CASE MenuRead \/ NextQueued \/ NoKey \/ NoticeStop \/ Resize \/ Yield \/ Signal \/ Terminated
  BY <1>1, <1>6 DEF MenuRead, NextQueued, NoKey, NoticeStop, Resize, Yield, Signal, Terminated, vars,
     statics, history
<1>7. CASE UNCHANGED vars
  BY <1>1, <1>7 DEF vars, statics, history
<1> QED BY <1>2, <1>3, <1>4, <1>5, <1>6, <1>7 DEF Next, GetInput, User

(* What a menu takes as its search is a text that the user has entered.      *)
THEOREM SearchesAreEntered == Spec => OnlyEnteredSearches
<1>1. ASSUME SearchInvariant, Handle, search' # search
      PROVE  search.text \in finished
  <2>1. ~search.on /\ search' = [search EXCEPT !.text = <<>>]
    BY <1>1 DEF Handle, HandleInList, HandleInPager, OpenPager, PopSearch, Stay
  <2>2. search.text # <<>>
    BY <1>1, <2>1 DEF SearchInvariant
  <2> QED BY <1>1, <2>1, <2>2 DEF SearchInvariant
<1>2. SearchInvariant /\ [Next]_vars => [Handle /\ search' # search => search.text \in finished]_vars
  BY <1>1
<1> QED BY <1>2, SearchInit, SearchNext, PTL DEF Spec, OnlyEnteredSearches
-----------------------------------------------------------------------------
(* Numbers that are typed have no more digits than fit in.                   *)
NextDigit(buf, g) ==
    g = [s \in SUBSET (DOMAIN buf) |->
            IF s = {} THEN 0 ELSE 10 * g[s \ {Max(s)}] + Value(buf[Max(s)])]

LEMMA ValueIs == \A d \in Digits : Value(d) \in 0..9
<1> DEFINE All == <<"0", "1", "2", "3", "4", "5", "6", "7", "8", "9">>
<1>1. SUFFICES ASSUME NEW d \in Digits PROVE \E n \in 0..9 : All[n + 1] = d
  BY <1>1 DEF Value
<1>2. d \in {"0", "1", "2", "3", "4", "5", "6", "7", "8", "9"}
  BY InputAssumption
<1>3. /\ All[0 + 1] = "0" /\ All[1 + 1] = "1" /\ All[2 + 1] = "2" /\ All[3 + 1] = "3"
      /\ All[4 + 1] = "4" /\ All[5 + 1] = "5" /\ All[6 + 1] = "6" /\ All[7 + 1] = "7"
      /\ All[8 + 1] = "8" /\ All[9 + 1] = "9"
  OBVIOUS
<1> HIDE DEF All
<1> QED BY <1>2, <1>3

LEMMA PowersOfTen == \A n \in 0..8 : 10^n \in Nat /\ 10^n >= 1 /\ 10^(n + 1) = 10 * 10^n
<1>1. /\ 10^0 = 1 /\ 10^1 = 10 /\ 10^2 = 100 /\ 10^3 = 1000 /\ 10^4 = 10000
      /\ 10^5 = 100000 /\ 10^6 = 1000000 /\ 10^7 = 10000000 /\ 10^8 = 100000000
      /\ 10^9 = 1000000000
  OBVIOUS
<1> SUFFICES ASSUME NEW n \in 0..8 PROVE 10^n \in Nat /\ 10^n >= 1 /\ 10^(n + 1) = 10 * 10^n
  OBVIOUS
<1>2. \/ n = 0 \/ n = 1 \/ n = 2 \/ n = 3 \/ n = 4 \/ n = 5 \/ n = 6 \/ n = 7 \/ n = 8
  OBVIOUS
<1>3. CASE n = 0
  BY <1>1, <1>3
<1>4. CASE n = 1
  BY <1>1, <1>4
<1>5. CASE n = 2
  BY <1>1, <1>5
<1>6. CASE n = 3
  BY <1>1, <1>6
<1>7. CASE n = 4
  BY <1>1, <1>7
<1>8. CASE n = 5
  BY <1>1, <1>8
<1>9. CASE n = 6
  BY <1>1, <1>9
<1>10. CASE n = 7
  BY <1>1, <1>10
<1>11. CASE n = 8
  BY <1>1, <1>11
<1> QED BY <1>2, <1>3, <1>4, <1>5, <1>6, <1>7, <1>8, <1>9, <1>10, <1>11

LEMMA PowersGrow == \A n \in 1..9 : \A m \in 0..n : 10^n \in Nat /\ 10^m \in Nat /\ 10^m <= 10^n
<1> DEFINE P(k) == 10^k
<1>1. \A k \in 0..8 : P(k) \in Nat /\ P(k) >= 1 /\ P(k + 1) = 10 * P(k)
  BY PowersOfTen
<1> HIDE DEF P
<1>2. /\ P(0) \in Nat /\ P(1) = 10 * P(0) /\ P(2) = 10 * P(1) /\ P(3) = 10 * P(2)
      /\ P(4) = 10 * P(3) /\ P(5) = 10 * P(4) /\ P(6) = 10 * P(5) /\ P(7) = 10 * P(6)
      /\ P(8) = 10 * P(7) /\ P(9) = 10 * P(8)
  BY <1>1
<1>3. \A n \in 1..9 : \A m \in 0..n : P(n) \in Nat /\ P(m) \in Nat /\ P(m) <= P(n)
  <2> SUFFICES ASSUME NEW n \in 1..9, NEW m \in 0..n
               PROVE  P(n) \in Nat /\ P(m) \in Nat /\ P(m) <= P(n)
    OBVIOUS
  <2>1. /\ n = 1 \/ n = 2 \/ n = 3 \/ n = 4 \/ n = 5 \/ n = 6 \/ n = 7 \/ n = 8 \/ n = 9
        /\ m = 0 \/ m = 1 \/ m = 2 \/ m = 3 \/ m = 4 \/ m = 5 \/ m = 6 \/ m = 7 \/ m = 8
           \/ m = 9
        /\ m <= n
    OBVIOUS
  <2> QED BY <1>2, <2>1
<1> QED BY <1>3 DEF P

LEMMA IntervalHas == \A n \in Nat : IsFiniteSet(1..n) /\ Cardinality(1..n) = n
BY FS_Interval

LEMMA NumberFits ==
    ASSUME NEW buf \in Seq(Digits), Len(buf) <= MaxDigits
    PROVE  Number(buf) \in 0..(10^MaxDigits - 1)
<1> DEFINE n == Len(buf)
<1>1. /\ n \in Nat /\ DOMAIN buf = 1..n /\ \A i \in 1..n : buf[i] \in Digits
      /\ MaxDigits \in 1..9 /\ n \in 0..9
  <2>1. n \in Nat /\ DOMAIN buf = 1..n /\ \A i \in 1..n : buf[i] \in Digits
    OBVIOUS
  <2>2. MaxDigits \in 1..9 /\ n <= MaxDigits
    BY InputAssumption
  <2> HIDE DEF n
  <2>3. n \in 0..9
    BY <2>1, <2>2
  <2> QED BY <2>1, <2>2, <2>3
<1> DEFINE g == CHOOSE h : NextDigit(buf, h)
           step == [p \in (1..n) \X Nat |-> 10 * p[2] + Value(buf[p[1]])]
<1>2. \A i \in 1..n : Value(buf[i]) \in 0..9
  BY <1>1, ValueIs
<1>3. \E h : NextDigit(buf, h)
  <2>1. step \in [(1..n) \X Nat -> Nat]
    <3>1. ASSUME NEW p \in (1..n) \X Nat PROVE 10 * p[2] + Value(buf[p[1]]) \in Nat
      <4>1. p[1] \in 1..n /\ p[2] \in Nat
        OBVIOUS
      <4>2. Value(buf[p[1]]) \in 0..9
        BY <1>2, <4>1
      <4> QED BY <4>1, <4>2
    <3> QED BY <3>1
  <2>2. \A i \in 1..n, k \in Nat : step[<<i, k>>] = 10 * k + Value(buf[i])
    OBVIOUS
  <2> HIDE DEF step, n
  <2>3. PICK h \in [SUBSET (1..n) -> Nat] : Folded(step, 0, h, 1..n)
    BY <1>1, <2>1, FoldExists
  <2>4. ASSUME NEW s \in SUBSET (1..n), s # {}
        PROVE  step[<<Max(s), h[s \ {Max(s)}]>>] = 10 * h[s \ {Max(s)}] + Value(buf[Max(s)])
    <3>1. Max(s) \in 1..n /\ s \ {Max(s)} \in SUBSET (1..n)
      BY <1>1, <2>4, MaxIs
    <3> QED BY <2>2, <3>1
  <2>5. NextDigit(buf, h)
    BY <1>1, <2>3, <2>4 DEF Folded, NextDigit
  <2> QED BY <2>5
<1>4. NextDigit(buf, g)
  BY <1>3
<1>5. Number(buf) = g[DOMAIN buf]
  BY DEF Number, FoldLeft, MapThenFoldSet, NextDigit
<1> HIDE DEF g, step
<1> DEFINE Good == {s \in SUBSET (1..n) : g[s] \in 0..(10^Cardinality(s) - 1)}
<1>6. {} \in Good
  <2>1. g[{}] = 0 /\ Cardinality({}) = 0 /\ 10^0 = 1
    BY <1>4, FS_EmptySet DEF NextDigit
  <2>2. 10^Cardinality({}) - 1 = 0
    <3>1. 10^0 - 1 = 0
      OBVIOUS
    <3> QED BY <2>1, <3>1, Zenon
  <2>3. g[{}] \in 0..(10^Cardinality({}) - 1)
    BY <2>1, <2>2
  <2> QED BY <2>3
<1>7. ASSUME NEW s \in SUBSET (1..n), s # {}, s \ {Max(s)} \in Good PROVE s \in Good
  <2> DEFINE m == Max(s)
             r == s \ {m}
             c == Cardinality(r)
  <2>1. m \in s /\ m \in 1..n
    BY <1>1, <1>7, MaxIs
  <2>2. IsFiniteSet(s) /\ Cardinality(s) <= n
    <3>1. IsFiniteSet(1..n) /\ Cardinality(1..n) = n
      BY <1>1, IntervalHas
    <3> HIDE DEF n
    <3> QED BY <3>1, FS_Subset
  <2>3. c \in Nat /\ Cardinality(s) = c + 1 /\ c \in 0..8
    <3>1. c = Cardinality(s) - 1 /\ Cardinality(s) \in Nat
      BY <2>1, <2>2, FS_RemoveElement, FS_CardinalityType
    <3>2. Cardinality(s) # 0
      BY <1>7, <2>2, FS_EmptySet
    <3> QED BY <1>1, <2>2, <3>1, <3>2
  <2>4. g[s] = 10 * g[r] + Value(buf[m])
    BY <1>1, <1>4, <1>7 DEF NextDigit
  <2>5. g[r] \in 0..(10^c - 1) /\ Value(buf[m]) \in 0..9
    BY <1>2, <1>7, <2>1
  <2>6. 10^c \in Nat /\ 10^(c + 1) = 10 * 10^c
    BY <2>3, PowersOfTen
  <2> HIDE DEF m, r, c
  <2>7. g[s] \in 0..(10^(c + 1) - 1)
    <3>1. \A a \in Nat : \A x \in 0..(a - 1), d \in 0..9 : 10 * x + d \in 0..(10 * a - 1)
      OBVIOUS
    <3>2. 10 * g[r] + Value(buf[m]) \in 0..(10 * 10^c - 1)
      BY <2>5, <2>6, <3>1
    <3> QED BY <2>4, <2>6, <3>2
  <2> QED BY <2>3, <2>7
<1>8. SUBSET (1..n) \subseteq Good
  <2> HIDE DEF Good
  <2> QED BY <1>1, <1>6, <1>7, IndexInduction
<1>9. Number(buf) \in 0..(10^n - 1)
  <2>1. 1..n \in Good /\ Cardinality(1..n) = n
    BY <1>1, <1>8, IntervalHas
  <2> QED BY <1>1, <1>5, <2>1
<1>10. 10^n <= 10^MaxDigits /\ 10^n \in Nat /\ 10^MaxDigits \in Nat
  <2>1. n <= MaxDigits
    OBVIOUS
  <2> HIDE DEF n
  <2>2. n \in 0..MaxDigits
    BY <1>1, <2>1
  <2> QED BY <1>1, <2>2, PowersGrow, Zenon
<1> HIDE DEF n
<1> QED BY <1>9, <1>10
-----------------------------------------------------------------------------
(* Whatever the lines of a config file say, keys get sequences of actions.   *)
Binds == UNION {[D -> Seq(Actions)] : D \in SUBSET (Keys \cup Digits)}

LEMMA BindsAre ==
    ASSUME NEW b
    PROVE  b \in Binds <=> /\ b = [k \in DOMAIN b |-> b[k]]
                           /\ DOMAIN b \subseteq Keys \cup Digits
                           /\ \A k \in DOMAIN b : b[k] \in Seq(Actions)
<1> DEFINE A == Seq(Actions)
           K == Keys \cup Digits
<1> HIDE DEF A, K
<1>1. ASSUME b \in UNION {[D -> A] : D \in SUBSET K}
      PROVE  /\ b = [k \in DOMAIN b |-> b[k]] /\ DOMAIN b \subseteq K
             /\ \A k \in DOMAIN b : b[k] \in A
  <2>1. PICK D \in SUBSET K : b \in [D -> A]
    BY <1>1
  <2> QED BY <2>1
<1>2. ASSUME b = [k \in DOMAIN b |-> b[k]], DOMAIN b \subseteq K, \A k \in DOMAIN b : b[k] \in A
      PROVE  b \in UNION {[D -> A] : D \in SUBSET K}
  <2>1. b \in [DOMAIN b -> A]
    BY <1>2
  <2> QED BY <1>2, <2>1
<1> QED BY <1>1, <1>2 DEF Binds, A, K

LEMMA NoBinds == <<>> \in Binds
<1>1. DOMAIN <<>> = {} /\ <<>> = [k \in DOMAIN <<>> |-> <<>>[k]]
  OBVIOUS
<1> QED BY <1>1, BindsAre

LEMMA ResettingBinds ==
    ASSUME NEW b \in Binds, NEW k \in Keys \cup Digits
    PROVE  bind_reset(b, k) \in Binds
<1> DEFINE r == bind_reset(b, k)
<1>1. /\ DOMAIN r = DOMAIN b \cup {k} /\ r = [j \in DOMAIN r |-> r[j]]
      /\ \A j \in DOMAIN r : r[j] = IF j = k THEN <<>> ELSE b[j]
  BY DEF bind_reset
<1>2. DOMAIN b \subseteq Keys \cup Digits /\ \A j \in DOMAIN b : b[j] \in Seq(Actions)
  BY BindsAre
<1>3. <<>> \in Seq(Actions)
  <2> HIDE DEF Actions
  <2> QED OBVIOUS
<1> HIDE DEF r
<1>4. r \in Binds
  BY <1>1, <1>2, <1>3, BindsAre
<1> QED BY <1>4 DEF r

LEMMA AttachingBinds ==
    ASSUME NEW b \in Binds, NEW k, NEW a \in Actions
    PROVE  attach_action_to_bind(b, k, a) \in Binds
<1> DEFINE r == attach_action_to_bind(b, k, a)
<1>1. /\ DOMAIN r = DOMAIN b /\ r = [j \in DOMAIN r |-> r[j]]
      /\ \A j \in DOMAIN r : r[j] = b[j] \/ r[j] = Append(b[j], a)
  BY DEF attach_action_to_bind
<1>2. DOMAIN b \subseteq Keys \cup Digits /\ \A j \in DOMAIN b : b[j] \in Seq(Actions)
  BY BindsAre
<1>3. \A s \in Seq(Actions) : Append(s, a) \in Seq(Actions)
  <2> HIDE DEF Actions
  <2> QED OBVIOUS
<1> HIDE DEF r
<1>4. r \in Binds
  BY <1>1, <1>2, <1>3, BindsAre
<1> QED BY <1>4 DEF r

(* The tokens of a line, and the lines, are folds.                           *)
Reading == [binds : Binds, bind : Keys \cup Digits \cup {""}]

NextToken(read, token) ==
    IF token.kind = "bind"
    THEN [binds |-> bind_reset(read.binds, token.of), bind |-> token.of]
    ELSE [read EXCEPT !.binds = attach_action_to_bind(@, read.bind, token.of)]

Tokenwise(b, line, g) ==
    g = [s \in SUBSET (DOMAIN line) |->
            IF s = {} THEN [binds |-> b, bind |-> ""]
            ELSE NextToken(g[s \ {Max(s)}], line[Max(s)])]

LEMMA TokensAreRead ==
    ASSUME NEW read \in Reading, NEW token \in Tokens
    PROVE  NextToken(read, token) \in Reading
<1>0. read.binds \in Binds /\ read.bind \in Keys \cup Digits \cup {""}
  BY DEF Reading
<1>1. CASE token.kind = "bind"
  <2>1. token.of \in Keys \cup Digits
    BY <1>1 DEF Tokens
  <2> QED BY <1>0, <1>1, <2>1, ResettingBinds DEF NextToken, Reading
<1>2. CASE token.kind # "bind"
  <2>1. token.of \in Actions
    BY <1>2 DEF Tokens
  <2>2. attach_action_to_bind(read.binds, read.bind, token.of) \in Binds
    BY <1>0, <2>1, AttachingBinds
  <2> QED BY <1>0, <1>2, <2>2 DEF NextToken, Reading
<1> QED BY <1>1, <1>2

LEMMA LinesBind ==
    ASSUME NEW b \in Binds, NEW line \in Seq(Tokens)
    PROVE  process_config_line(b, line) \in Binds
<1> DEFINE n == Len(line)
           base == [binds |-> b, bind |-> ""]
           g == CHOOSE h : Tokenwise(b, line, h)
           step == [p \in (1..n) \X Reading |-> NextToken(p[2], line[p[1]])]
<1>1. n \in Nat /\ DOMAIN line = 1..n /\ \A i \in 1..n : line[i] \in Tokens
  <2> HIDE DEF Tokens
  <2> QED OBVIOUS
<1>2. base \in Reading
  BY DEF Reading
<1> HIDE DEF n
<1>3. PICK h \in [SUBSET (1..n) -> Reading] : Folded(step, base, h, 1..n)
  <2>1. \A i \in 1..n, r \in Reading : NextToken(r, line[i]) \in Reading
    BY <1>1, TokensAreRead
  <2>2. step \in [(1..n) \X Reading -> Reading]
    BY <2>1
  <2> HIDE DEF step, base
  <2> QED BY <1>1, <1>2, <2>2, FoldExists
<1>4. ASSUME NEW s \in SUBSET (1..n), s # {}
      PROVE  step[<<Max(s), h[s \ {Max(s)}]>>] = NextToken(h[s \ {Max(s)}], line[Max(s)])
  <2>1. Max(s) \in 1..n /\ s \ {Max(s)} \in SUBSET (1..n)
    BY <1>1, <1>4, MaxIs
  <2>2. h[s \ {Max(s)}] \in Reading
    BY <2>1
  <2>3. <<Max(s), h[s \ {Max(s)}]>> \in (1..n) \X Reading
    BY <2>1, <2>2
  <2> QED BY <2>3
<1> HIDE DEF step, base
<1>5. Tokenwise(b, line, h)
  BY <1>1, <1>3, <1>4 DEF Folded, Tokenwise, base
<1>6. Tokenwise(b, line, g)
  BY <1>5
<1>7. process_config_line(b, line) = g[DOMAIN line].binds
  BY DEF process_config_line, FoldLeft, MapThenFoldSet, Tokenwise, NextToken
<1> HIDE DEF g
<1> DEFINE Good == {s \in SUBSET (1..n) : g[s] \in Reading}
<1>8. {} \in Good
  BY <1>1, <1>2, <1>6 DEF Tokenwise, base
<1>9. ASSUME NEW s \in SUBSET (1..n), s # {}, s \ {Max(s)} \in Good PROVE s \in Good
  <2>1. Max(s) \in 1..n
    BY <1>1, <1>9, MaxIs
  <2>2. g[s] = NextToken(g[s \ {Max(s)}], line[Max(s)])
    BY <1>1, <1>6, <1>9 DEF Tokenwise
  <2>3. g[s] \in Reading
    BY <1>1, <1>9, <2>1, <2>2, TokensAreRead
  <2> QED BY <2>3
<1>10. SUBSET (1..n) \subseteq Good
  <2> HIDE DEF Good
  <2> QED BY <1>1, <1>8, <1>9, IndexInduction
<1>11. g[DOMAIN line] \in Reading
  BY <1>1, <1>10
<1> QED BY <1>7, <1>11 DEF Reading
Linewise(lines, g) ==
    g = [s \in SUBSET (DOMAIN lines) |->
            IF s = {} THEN <<>> ELSE process_config_line(g[s \ {Max(s)}], lines[Max(s)])]

LEMMA BindingsAreBinds ==
    ASSUME NEW lines \in Seq(Seq(Tokens))
    PROVE  Bindings(lines) \in Binds
<1> DEFINE n == Len(lines)
           g == CHOOSE h : Linewise(lines, h)
           step == [p \in (1..n) \X Binds |-> process_config_line(p[2], lines[p[1]])]
<1>1. n \in Nat /\ DOMAIN lines = 1..n /\ \A i \in 1..n : lines[i] \in Seq(Tokens)
  <2> DEFINE L == Seq(Tokens)
  <2> HIDE DEF L
  <2>1. n \in Nat /\ DOMAIN lines = 1..n /\ \A i \in 1..n : lines[i] \in L
    BY DEF L
  <2> QED BY <2>1 DEF L
<1> HIDE DEF n
<1>2. PICK h \in [SUBSET (1..n) -> Binds] : Folded(step, <<>>, h, 1..n)
  <2>1. \A i \in 1..n, b \in Binds : process_config_line(b, lines[i]) \in Binds
    BY <1>1, LinesBind
  <2>2. step \in [(1..n) \X Binds -> Binds]
    BY <2>1
  <2> HIDE DEF step
  <2> QED BY <1>1, <2>2, NoBinds, FoldExists
<1>3. ASSUME NEW s \in SUBSET (1..n), s # {}
      PROVE  step[<<Max(s), h[s \ {Max(s)}]>>] = process_config_line(h[s \ {Max(s)}], lines[Max(s)])
  <2>1. Max(s) \in 1..n /\ s \ {Max(s)} \in SUBSET (1..n)
    BY <1>1, <1>3, MaxIs
  <2>2. <<Max(s), h[s \ {Max(s)}]>> \in (1..n) \X Binds
    BY <2>1
  <2> QED BY <2>2
<1> HIDE DEF step
<1>4. Linewise(lines, h)
  BY <1>1, <1>2, <1>3 DEF Folded, Linewise
<1>5. Linewise(lines, g)
  BY <1>4
<1>6. Bindings(lines) = g[DOMAIN lines]
  BY DEF Bindings, FoldLeft, MapThenFoldSet, Linewise
<1> HIDE DEF g
<1> DEFINE Good == {s \in SUBSET (1..n) : g[s] \in Binds}
<1>7. {} \in Good
  BY <1>1, <1>5, NoBinds DEF Linewise
<1>8. ASSUME NEW s \in SUBSET (1..n), s # {}, s \ {Max(s)} \in Good PROVE s \in Good
  <2>1. Max(s) \in 1..n
    BY <1>1, <1>8, MaxIs
  <2>2. g[s] = process_config_line(g[s \ {Max(s)}], lines[Max(s)])
    BY <1>1, <1>5, <1>8 DEF Linewise
  <2>3. g[s] \in Binds
    BY <1>1, <1>8, <2>1, <2>2, LinesBind
  <2> QED BY <2>3
<1>9. SUBSET (1..n) \subseteq Good
  <2> HIDE DEF Good
  <2> QED BY <1>1, <1>7, <1>8, IndexInduction
<1> QED BY <1>1, <1>6, <1>9

-----------------------------------------------------------------------------
(* What get_input keeps, and what the keys that were typed have come to.     *)
BindsAreTyped == binds \in [global : Binds, feeds : [Feeds -> Binds]]

Press == [binding : Seq(Actions), given : Seq(Actions), digits : Seq(Digits),
          steady : BOOLEAN, pager : BOOLEAN]

StateIsTyped ==
    /\ selected \in Feeds /\ ctx \in Feeds /\ menu \in {"list", "pager"}
    /\ pc \in {"call", "input", "wait", "handle", "ended"} /\ command \in Results
    /\ key \in Keys \cup Digits \cup {""} /\ queued \in Nat
    /\ quit_waiting \in BOOLEAN /\ stop \in BOOLEAN

NumbersAreTyped ==
    /\ count_buf \in Seq(Digits) /\ Len(count_buf) <= MaxDigits /\ digits \in Seq(Digits)
    /\ count \in {Undefined} \cup 0..(10^MaxDigits - 1)

(* The actions of the last key that are left are those that are queued.      *)
ActionsAreQueued ==
    /\ pc = "wait" => queued = 0
    /\ press.steady =>
         /\ IsPrefix(press.given, press.binding)
         /\ IF queued = 0
            THEN press.given = press.binding \/ Head(press.binding) = "start_search"
            ELSE queued = Len(press.given) \/ press.binding = <<>>

(* The number that is typed is made of the last digits; the pager has that   *)
(* of the last key with actions, as long as one of them can be carried out.  *)
LastDigits(ds) ==
    IF ds = <<>> THEN <<>> ELSE SubSeq(ds, Len(ds) - ((Len(ds) - 1) % MaxDigits), Len(ds))

CountIsTyped ==
    /\ count_buf = LastDigits(digits)
    /\ pc = "handle" /\ command = "link" => queued > 0
    /\ menu = "pager" /\ ~press.pager /\ queued > 0 => count = TypedNumber(press.digits)

KeysInvariant ==
    /\ SearchInvariant /\ BindsAreTyped /\ StateIsTyped /\ NumbersAreTyped /\ press \in Press
    /\ ActionsAreQueued /\ CountIsTyped

LEMMA BindingsHave ==
    ASSUME BindsAreTyped, NEW f \in Feeds, NEW k
    PROVE  /\ BindingOf(f, k) \in Seq(Actions)
           /\ \A i \in Nat : LET a == bind_get_action(f, k, i)
                             IN  /\ a \in Actions \cup {"error"}
                                 /\ i < Len(BindingOf(f, k)) => a = BindingOf(f, k)[i + 1] /\ a # "error"
                                 /\ i >= Len(BindingOf(f, k)) => a = "error"
<1> DEFINE b == BindingOf(f, k)
<1>1. binds.global \in Binds /\ binds.feeds[f] \in Binds
  BY DEF BindsAreTyped
<1>2. /\ \A j \in DOMAIN binds.global : binds.global[j] \in Seq(Actions)
      /\ \A j \in DOMAIN binds.feeds[f] : binds.feeds[f][j] \in Seq(Actions)
  BY <1>1, BindsAre
<1>3. <<>> \in Seq(Actions)
  <2> HIDE DEF Actions
  <2> QED OBVIOUS
<1>4. b \in Seq(Actions)
  BY <1>2, <1>3 DEF BindingOf
<1>5. "error" \notin Actions
  BY DEF Actions
<1>6. \A i \in Nat : bind_get_action(f, k, i) = IF i < Len(b) THEN b[i + 1] ELSE "error"
  BY DEF bind_get_action
<1>7. \A i \in Nat : i < Len(b) => b[i + 1] \in Actions
  <2> HIDE DEF b, Actions
  <2> QED BY <1>4
<1>8. Len(b) \in Nat
  <2> HIDE DEF b, Actions
  <2> QED BY <1>4
<1> HIDE DEF b
<1> QED BY <1>4, <1>5, <1>6, <1>7, <1>8 DEF b

LEMMA KeysInit == Init => KeysInvariant
<1> SUFFICES ASSUME Init PROVE KeysInvariant
  OBVIOUS
<1>1. BindsAreTyped
  <2>1. PICK c \in Configs : binds = [ global |-> Bindings(c.global),
                                       feeds |-> [f \in Feeds |-> Bindings(c.feeds[f])] ]
    BY DEF Init
  <2>2. c.global \in Seq(Seq(Tokens)) /\ \A f \in Feeds : c.feeds[f] \in Seq(Seq(Tokens))
    BY InputAssumption
  <2>3. Bindings(c.global) \in Binds /\ \A f \in Feeds : Bindings(c.feeds[f]) \in Binds
    BY <2>2, BindingsAreBinds
  <2> QED BY <2>1, <2>3 DEF BindsAreTyped
<1>2. <<>> \in Seq(Actions) /\ <<>> \in Seq(Digits)
  <2> HIDE DEF Actions
  <2> QED OBVIOUS
<1>3. press \in Press
  BY <1>2 DEF Init, Press
<1>4. StateIsTyped
  BY DEF Init, StateIsTyped, Results
<1>5. NumbersAreTyped
  <2>1. MaxDigits \in Nat
    BY InputAssumption
  <2>2. count_buf = <<>> /\ digits = <<>> /\ count = Undefined
    BY DEF Init
  <2>3. Len(<<>>) <= MaxDigits
    BY <2>1
  <2> QED BY <1>2, <2>2, <2>3 DEF NumbersAreTyped
<1>6. ActionsAreQueued
  <2>1. press.given = <<>> /\ press.binding = <<>> /\ queued = 0
    BY DEF Init
  <2>2. IsPrefix(press.given, press.binding)
    BY <2>1 DEF IsPrefix
  <2> QED BY <2>1, <2>2 DEF ActionsAreQueued
<1>7. CountIsTyped
  BY DEF Init, CountIsTyped, LastDigits
<1> QED BY <1>1, <1>3, <1>4, <1>5, <1>6, <1>7, SearchInit DEF KeysInvariant
LEMMA BindsStay == [Next]_vars => UNCHANGED binds
BY DEF Next, GetInput, User, MenuRead, NextQueued, NoKey, NoticeStop, Handle, SearchKey, DigitKey,
   ActionKey, Resize, Yield, Signal, Terminated, vars

(* The actions of a binding that were given are its first ones.              *)
LEMMA PrefixIs ==
    ASSUME NEW A, NEW s \in Seq(A), NEW t \in Seq(A)
    PROVE  /\ IsPrefix(s, t) <=> Len(s) <= Len(t) /\ \A i \in 1..Len(s) : s[i] = t[i]
           /\ IsPrefix(s, t) /\ Len(s) < Len(t) => IsPrefix(Append(s, t[Len(s) + 1]), t)
           /\ IsPrefix(s, t) /\ Len(s) >= Len(t) => s = t
           /\ IsPrefix(<<>>, t)
           /\ t # <<>> => IsPrefix(<<t[1]>>, t)
<1>1. ASSUME NEW r \in Seq(A), NEW u \in Seq(A)
      PROVE  IsPrefix(r, u) <=> Len(r) <= Len(u) /\ \A i \in 1..Len(r) : r[i] = u[i]
  <2>1. CASE Len(r) <= Len(u)
    <3>1. /\ SubSeq(r, 1, Len(r)) \in Seq(A) /\ SubSeq(u, 1, Len(r)) \in Seq(A)
          /\ Len(SubSeq(r, 1, Len(r))) = Len(r) /\ Len(SubSeq(u, 1, Len(r))) = Len(r)
          /\ \A i \in 1..Len(r) : SubSeq(r, 1, Len(r))[i] = r[i] /\ SubSeq(u, 1, Len(r))[i] = u[i]
      BY <2>1
    <3>2. SubSeq(r, 1, Len(r)) = SubSeq(u, 1, Len(r)) <=> \A i \in 1..Len(r) : r[i] = u[i]
      BY <3>1, SeqEqual
    <3> QED BY <2>1, <3>2 DEF IsPrefix
  <2>2. CASE ~(Len(r) <= Len(u))
    BY <2>2 DEF IsPrefix
  <2> QED BY <2>1, <2>2
<1>2. ASSUME IsPrefix(s, t), Len(s) < Len(t) PROVE IsPrefix(Append(s, t[Len(s) + 1]), t)
  <2> DEFINE e == t[Len(s) + 1]
             u == Append(s, e)
  <2>1. e \in A
    BY <1>2
  <2>2. u \in Seq(A) /\ Len(u) = Len(s) + 1 /\ \A i \in 1..Len(u) : u[i] = IF i <= Len(s) THEN s[i] ELSE e
    BY <2>1
  <2>3. \A i \in 1..Len(u) : u[i] = t[i]
    BY <1>1, <1>2, <2>2
  <2> HIDE DEF u
  <2>4. IsPrefix(u, t)
    BY <1>1, <1>2, <2>2, <2>3
  <2> QED BY <2>4 DEF u
<1>3. ASSUME IsPrefix(s, t), Len(s) >= Len(t) PROVE s = t
  BY <1>1, <1>3, SeqEqual
<1>4. IsPrefix(<<>>, t)
  <2> DEFINE e == <<>>
  <2>1. e \in Seq(A) /\ Len(e) <= Len(t) /\ \A i \in 1..Len(e) : e[i] = t[i]
    OBVIOUS
  <2> HIDE DEF e
  <2>2. IsPrefix(e, t)
    BY <1>1, <2>1
  <2> QED BY <2>2 DEF e
<1>5. ASSUME t # <<>> PROVE IsPrefix(<<t[1]>>, t)
  <2>1. Len(t) \in Nat \ {0} /\ t[1] \in A
    BY <1>5
  <2> DEFINE e == <<t[1]>>
  <2>2. e \in Seq(A) /\ Len(e) <= Len(t) /\ \A i \in 1..Len(e) : e[i] = t[i]
    BY <2>1
  <2> HIDE DEF e
  <2>3. IsPrefix(e, t)
    BY <1>1, <2>2
  <2> QED BY <2>3 DEF e
<1> QED BY <1>1, <1>2, <1>3, <1>4, <1>5

(* What the actions of a key are taken from, after it is pressed.            *)
LEMMA PressNext ==
    ASSUME KeysInvariant, [Next]_vars
    PROVE  press' \in Press
<1>0. press \in Press /\ BindsAreTyped /\ ctx \in Feeds /\ queued \in Nat /\ digits \in Seq(Digits)
  BY DEF KeysInvariant, StateIsTyped, NumbersAreTyped
<1>1. CASE UNCHANGED press
  BY <1>0, <1>1
<1>2. ASSUME NEW k, ActionKey(k) PROVE press' \in Press
  <2> DEFINE first == bind_get_action(ctx, k, 0)
             given == IF first = "error" THEN <<>> ELSE <<first>>
  <2>1. press' = [binding |-> BindingOf(ctx, k), digits |-> digits, steady |-> TRUE,
                  given |-> given, pager |-> FALSE]
    BY <1>2 DEF ActionKey
  <2>2. BindingOf(ctx, k) \in Seq(Actions) /\ first \in Actions \cup {"error"}
    BY <1>0, BindingsHave
  <2>3. given \in Seq(Actions)
    <3> HIDE DEF first, Actions
    <3> QED BY <2>2
  <2> HIDE DEF given
  <2> QED BY <1>0, <2>1, <2>2, <2>3 DEF Press
<1>3. CASE NextQueued
  <2> DEFINE next == bind_get_action(ctx, key, queued)
  <2>1. \/ next # "error" /\ press' = [Steadied EXCEPT !.given = Append(@, next)]
        \/ press' \in {press, Steadied}
    BY <1>3 DEF NextQueued
  <2>2. next \in Actions \cup {"error"}
    BY <1>0, BindingsHave
  <2>3. Steadied \in Press
    BY <1>0 DEF Steadied, Press
  <2>4. \A a \in Actions : Append(Steadied.given, a) \in Seq(Actions)
    <3>1. Steadied.given \in Seq(Actions)
      BY <2>3 DEF Press
    <3> HIDE DEF Actions
    <3> QED BY <3>1
  <2> HIDE DEF next
  <2>5. \A a \in Actions : [Steadied EXCEPT !.given = Append(@, a)] \in Press
    BY <2>3, <2>4 DEF Press
  <2> QED BY <1>0, <2>1, <2>2, <2>3, <2>5
<1>4. CASE Handle
  BY <1>0, <1>4 DEF Handle, HandleInList, HandleInPager, OpenPager, Stay, Press
<1>5. CASE MenuRead \/ NoKey \/ NoticeStop \/ Resize \/ Yield \/ Signal \/ Terminated
  BY <1>1, <1>5 DEF MenuRead, NoKey, NoticeStop, Resize, Yield, Signal, Terminated, vars, history
<1>6. ASSUME NEW k, SearchKey(k) \/ DigitKey(k) PROVE press' \in Press
  BY <1>1, <1>6 DEF SearchKey, DigitKey
<1> QED BY <1>1, <1>2, <1>3, <1>4, <1>5, <1>6 DEF Next, GetInput, User, vars, history

LEMMA StateNext ==
    ASSUME KeysInvariant, [Next]_vars
    PROVE  StateIsTyped'
<1>0. /\ StateIsTyped /\ BindsAreTyped /\ ctx \in Feeds /\ selected \in Feeds /\ queued \in Nat
      /\ command \in Results
  BY DEF KeysInvariant, StateIsTyped
<1>1. CASE UNCHANGED vars
  BY <1>0, <1>1 DEF vars, statics, StateIsTyped
<1>2. CASE MenuRead
  <2>1. selected' \in Feeds
    BY <1>0, <1>2 DEF MenuRead
  <2> QED BY <1>0, <1>2, <2>1 DEF MenuRead, statics, StateIsTyped
<1>3. CASE NextQueued
  <2>1. bind_get_action(ctx, key, queued) \in Actions \cup {"error"}
    BY <1>0, BindingsHave
  <2>2. command' \in Results /\ pc' \in {"handle", "wait"} /\ queued' \in Nat
    <3>1. CASE queued > 0 /\ bind_get_action(ctx, key, queued) # "error"
      BY <1>0, <1>3, <2>1, <3>1 DEF NextQueued, Returns, Results
    <3>2. CASE ~(queued > 0 /\ bind_get_action(ctx, key, queued) # "error")
      BY <1>0, <1>3, <3>2 DEF NextQueued
    <3> QED BY <3>1, <3>2
  <2> QED BY <1>0, <1>3, <2>2 DEF NextQueued, StateIsTyped
<1>4. ASSUME NEW k \in Keys \cup Digits, SearchKey(k) PROVE StateIsTyped'
  <2>1. pc' \in {"wait", "handle"} /\ command' \in Results
    BY <1>0, <1>4 DEF SearchKey, Reads, Returns, Results
  <2> QED BY <1>0, <1>4, <2>1 DEF SearchKey, Reads, StateIsTyped
<1>5. ASSUME NEW k \in Keys \cup Digits, DigitKey(k) PROVE StateIsTyped'
  BY <1>0, <1>5 DEF DigitKey, Reads, StateIsTyped
<1>6. ASSUME NEW k \in Keys \cup Digits, ActionKey(k) PROVE StateIsTyped'
  <2>1. bind_get_action(ctx, k, 0) \in Actions \cup {"error"}
    BY <1>0, BindingsHave
  <2>2. command' \in Results /\ pc' \in {"handle", "wait"} /\ queued' \in Nat
    <3>1. CASE bind_get_action(ctx, k, 0) = "start_search"
      BY <1>0, <1>6, <3>1 DEF ActionKey, Reads
    <3>2. CASE bind_get_action(ctx, k, 0) # "start_search"
      BY <1>0, <1>6, <2>1, <3>2 DEF ActionKey, Returns, QueuedAfter, Results
    <3> QED BY <3>1, <3>2
  <2> QED BY <1>0, <1>6, <2>2 DEF ActionKey, Reads, StateIsTyped
<1>7. CASE NoKey \/ Resize
  BY <1>0, <1>7 DEF NoKey, Resize, Returns, Results, statics, StateIsTyped
<1>8. CASE NoticeStop \/ Yield \/ Signal
  BY <1>0, <1>8 DEF NoticeStop, Yield, Signal, statics, StateIsTyped
<1>9. CASE Handle
  <2>1. menu' \in {"list", "pager"} /\ selected' \in Feeds
    BY <1>0, <1>9 DEF Handle, HandleInList, HandleInPager, OpenPager, Stay, StateIsTyped
  <2> QED BY <1>0, <1>9, <2>1 DEF Handle, StateIsTyped
<1> QED BY <1>1, <1>2, <1>3, <1>4, <1>5, <1>6, <1>7, <1>8, <1>9 DEF Next, GetInput, User, Terminated

LEMMA NumbersNext ==
    ASSUME KeysInvariant, [Next]_vars
    PROVE  NumbersAreTyped'
<1>0. /\ count_buf \in Seq(Digits) /\ Len(count_buf) <= MaxDigits /\ digits \in Seq(Digits)
      /\ count \in {Undefined} \cup 0..(10^MaxDigits - 1) /\ MaxDigits \in 1..9
  BY InputAssumption DEF KeysInvariant, NumbersAreTyped
<1>1. CASE UNCHANGED <<count_buf, count, digits>>
  BY <1>0, <1>1 DEF NumbersAreTyped
<1>2. ASSUME NEW k, DigitKey(k) PROVE NumbersAreTyped'
  <2>1. /\ k \in Digits /\ count_buf' = Append(BeforeDigit(count_buf), k)
        /\ digits' = Append(digits, k) /\ UNCHANGED count
    BY <1>2 DEF DigitKey
  <2>2. BeforeDigit(count_buf) \in Seq(Digits) /\ Len(BeforeDigit(count_buf)) < MaxDigits
    BY <1>0 DEF BeforeDigit
  <2>3. count_buf' \in Seq(Digits) /\ Len(count_buf') <= MaxDigits /\ digits' \in Seq(Digits)
    <3> DEFINE b == BeforeDigit(count_buf)
    <3> HIDE DEF b
    <3> QED BY <1>0, <2>1, <2>2 DEF b
  <2> QED BY <1>0, <2>1, <2>3 DEF NumbersAreTyped
<1>3. ASSUME NEW k, ActionKey(k) PROVE NumbersAreTyped'
  <2>1. count_buf' = <<>> /\ digits' = <<>> /\ count' \in {count, TypedCount}
    BY <1>3 DEF ActionKey
  <2>2. TypedCount \in 0..(10^MaxDigits - 1)
    <3>1. 1 \in 0..(10^MaxDigits - 1)
      <4>1. 10^1 = 10
        OBVIOUS
      <4>2. 1 \in 0..MaxDigits
        BY <1>0
      <4>3. 10^MaxDigits \in Nat /\ 10^1 <= 10^MaxDigits
        BY <1>0, <4>2, PowersGrow, Zenon
      <4> QED BY <4>1, <4>3
    <3> QED BY <1>0, <3>1, NumberFits DEF TypedCount
  <2>3. count' \in {Undefined} \cup 0..(10^MaxDigits - 1)
    BY <1>0, <2>1, <2>2
  <2>4. <<>> \in Seq(Digits) /\ Len(<<>>) <= MaxDigits
    BY <1>0
  <2> QED BY <2>1, <2>3, <2>4 DEF NumbersAreTyped
<1>4. CASE Handle
  <2>1. UNCHANGED <<count_buf, digits>> /\ count' \in {count, Undefined}
    BY <1>4 DEF Handle, HandleInList, HandleInPager, OpenPager, Stay
  <2> QED BY <1>0, <2>1 DEF NumbersAreTyped
<1>5. CASE MenuRead \/ NextQueued \/ NoKey \/ NoticeStop \/ Resize \/ Yield \/ Signal \/ Terminated
  BY <1>1, <1>5 DEF MenuRead, NextQueued, NoKey, NoticeStop, Resize, Yield, Signal, Terminated, vars,
     statics, history
<1>6. ASSUME NEW k, SearchKey(k) PROVE NumbersAreTyped'
  BY <1>1, <1>6 DEF SearchKey
<1> QED BY <1>1, <1>2, <1>3, <1>4, <1>5, <1>6 DEF Next, GetInput, User, vars, statics, history

LEMMA ActionsNext ==
    ASSUME KeysInvariant, [Next]_vars
    PROVE  ActionsAreQueued'
<1> DEFINE A == Actions
           b == press.binding
           given == press.given
<1>0. /\ press \in Press /\ BindsAreTyped /\ ctx \in Feeds /\ queued \in Nat /\ ActionsAreQueued
      /\ b \in Seq(A) /\ given \in Seq(A)
  BY DEF KeysInvariant, StateIsTyped, Press
<1>1. ASSUME UNCHANGED <<queued, press>>, pc' = "wait" => pc = "wait" PROVE ActionsAreQueued'
  BY <1>0, <1>1 DEF ActionsAreQueued
<1>2. CASE UNCHANGED vars
  BY <1>1, <1>2 DEF vars, statics, history
<1>3. CASE MenuRead \/ NoKey \/ NoticeStop \/ Resize \/ Yield \/ Signal \/ Terminated
  BY <1>1, <1>3 DEF MenuRead, NoKey, NoticeStop, Resize, Yield, Signal, Terminated, Returns, vars,
     statics, history
<1>4. ASSUME NEW k, SearchKey(k) \/ DigitKey(k) PROVE ActionsAreQueued'
  BY <1>1, <1>4 DEF SearchKey, DigitKey, Reads, Returns
<1>5. CASE Handle
  <2>1. /\ UNCHANGED queued /\ pc' = "call"
        /\ press' \in {press, [press EXCEPT !.pager = TRUE]}
    BY <1>5 DEF Handle, HandleInList, HandleInPager, OpenPager, Stay
  <2>2. press'.steady = press.steady /\ press'.given = given /\ press'.binding = b
    BY <1>0, <2>1 DEF Press
  <2> QED BY <1>0, <2>1, <2>2 DEF ActionsAreQueued
<1>6. ASSUME NEW k, ActionKey(k) PROVE ActionsAreQueued'
  <2> DEFINE c == BindingOf(ctx, k)
             first == bind_get_action(ctx, k, 0)
             g == IF first = "error" THEN <<>> ELSE <<first>>
  <2>1. /\ press' = [binding |-> c, digits |-> digits, steady |-> TRUE, given |-> g, pager |-> FALSE]
        /\ queued = 0
        /\ IF first = "start_search" THEN UNCHANGED <<pc, queued>> ELSE pc' = "handle" /\ queued' = 1
    BY <1>0, <1>6 DEF ActionKey, Reads, Returns, QueuedAfter, ActionsAreQueued
  <2>2. c \in Seq(A) /\ 0 < Len(c) => first = c[1] /\ first # "error"
    BY <1>0, BindingsHave
  <2>3. c \in Seq(A) /\ (0 >= Len(c) => first = "error")
    BY <1>0, BindingsHave
  <2> HIDE DEF first, A, c
  <2>4. CASE c = <<>>
    <3>1. first = "error" /\ g = <<>>
      BY <2>3, <2>4
    <3>2. IsPrefix(g, c)
      BY <2>3, <3>1, PrefixIs
    <3> QED BY <2>1, <2>4, <3>1, <3>2 DEF ActionsAreQueued
  <2>5. CASE c # <<>>
    <3>1. 0 < Len(c)
      BY <2>3, <2>5
    <3>2. g = <<c[1]>> /\ first = c[1] /\ Head(c) = c[1] /\ Len(g) = 1
      BY <2>2, <2>3, <3>1
    <3>3. IsPrefix(g, c)
      BY <2>3, <2>5, <3>2, PrefixIs
    <3> HIDE DEF g
    <3> QED BY <2>1, <3>2, <3>3 DEF ActionsAreQueued
  <2> QED BY <2>4, <2>5
<1>7. CASE NextQueued
  <2> DEFINE c == BindingOf(ctx, key)
             next == bind_get_action(ctx, key, queued)
  <2>1. /\ c \in Seq(A) /\ (queued < Len(c) => next = c[queued + 1] /\ next # "error")
        /\ (queued >= Len(c) => next = "error")
    BY <1>0, BindingsHave
  <2>2. /\ Steadied.steady => press.steady /\ c = b
        /\ Steadied.given = given /\ Steadied.binding = b
        /\ Steadied \in Press
    BY <1>0 DEF Steadied, Press
  <2>3. CASE queued > 0 /\ next # "error"
    <3>1. pc' = "handle" /\ queued' = queued + 1 /\ press' = [Steadied EXCEPT !.given = Append(@, next)]
      BY <1>7, <2>3 DEF NextQueued, Returns
    <3>2. /\ press'.steady = Steadied.steady /\ press'.given = Append(given, next) /\ press'.binding = b
      BY <2>2, <3>1 DEF Press
    <3>3. ASSUME Steadied.steady
          PROVE  IsPrefix(Append(given, next), b) /\ queued + 1 = Len(Append(given, next))
      <4>1. /\ c = b /\ IsPrefix(given, b) /\ (queued = Len(given) \/ b = <<>>)
            /\ queued < Len(b) /\ next = b[queued + 1]
        BY <1>0, <2>1, <2>2, <2>3, <3>3 DEF ActionsAreQueued
      <4>2. queued = Len(given)
        BY <1>0, <4>1
      <4>3. IsPrefix(Append(given, b[Len(given) + 1]), b)
        <5> HIDE DEF A, given, b
        <5> QED BY <1>0, <4>1, <4>2, PrefixIs
      <4>4. Len(Append(given, next)) = Len(given) + 1
        <5> HIDE DEF A, given, b, next
        <5>1. next \in A
          BY <1>0, <4>1
        <5> QED BY <1>0, <5>1
      <4> QED BY <4>1, <4>2, <4>3, <4>4
    <3>4. pc' # "wait" /\ queued' # 0
      BY <1>0, <3>1
    <3> HIDE DEF given, b, next
    <3>5. press'.steady => IsPrefix(press'.given, press'.binding) /\ queued' = Len(press'.given)
      BY <3>1, <3>2, <3>3
    <3> QED BY <3>4, <3>5 DEF ActionsAreQueued
  <2>4. CASE queued > 0 /\ next = "error"
    <3>1. pc' = "wait" /\ queued' = 0 /\ press' = Steadied
      BY <1>7, <2>4 DEF NextQueued
    <3>2. ASSUME Steadied.steady PROVE IsPrefix(given, b) /\ given = b
      <4>1. c = b /\ IsPrefix(given, b) /\ (queued = Len(given) \/ b = <<>>) /\ queued >= Len(b)
        BY <1>0, <2>1, <2>2, <2>4, <3>2 DEF ActionsAreQueued
      <4>2. Len(given) >= Len(b)
        BY <1>0, <4>1
      <4> HIDE DEF A, given, b
      <4> QED BY <1>0, <4>1, <4>2, PrefixIs
    <3> QED BY <2>2, <3>1, <3>2 DEF ActionsAreQueued
  <2>5. CASE queued = 0
    <3>1. pc' = "wait" /\ queued' = 0 /\ press' = press
      BY <1>7, <2>5 DEF NextQueued
    <3> QED BY <1>0, <2>5, <3>1 DEF ActionsAreQueued
  <2> QED BY <1>0, <2>3, <2>4, <2>5
<1> QED BY <1>2, <1>3, <1>4, <1>5, <1>6, <1>7 DEF Next, GetInput, User

(* The last digits are counted off.                                          *)
LEMMA Remainders ==
    ASSUME NEW m \in 1..9, NEW a \in Nat
    PROVE  /\ a % m \in 0..(m - 1) /\ a % m <= a
           /\ (a + 1) % m = IF (a % m) + 1 = m THEN 0 ELSE (a % m) + 1
<1>1. m \in {1, 2, 3, 4, 5, 6, 7, 8, 9}
  OBVIOUS
<1>2. CASE m = 1
  BY <1>2
<1>3. CASE m = 2
  BY <1>3
<1>4. CASE m = 3
  BY <1>4
<1>5. CASE m = 4
  BY <1>5
<1>6. CASE m = 5
  BY <1>6
<1>7. CASE m = 6
  BY <1>7
<1>8. CASE m = 7
  BY <1>8
<1>9. CASE m = 8
  BY <1>9
<1>10. CASE m = 9
  BY <1>10
<1> QED BY <1>1, <1>2, <1>3, <1>4, <1>5, <1>6, <1>7, <1>8, <1>9, <1>10

LEMMA OneOf ==
    ASSUME NEW s, NEW i \in Int
    PROVE  SubSeq(s, i, i) = <<s[i]>>
<1> DEFINE A == {s[i]}
           t == SubSeq(s, i, i)
           u == <<s[i]>>
<1>1. t \in Seq(A) /\ Len(t) = 1 /\ t[1] = s[i]
  <2>1. \A j \in i..i : s[j] \in A
    OBVIOUS
  <2>2. i - i + 1 = 1 /\ i + 1 - 1 = i
    OBVIOUS
  <2> HIDE DEF A
  <2>3. t \in Seq(A) /\ Len(t) = i - i + 1 /\ \A j \in 1..(i - i + 1) : t[j] = s[i + j - 1]
    BY <2>1, SubSeqProperties
  <2> HIDE DEF t
  <2> QED BY <2>2, <2>3
<1>2. u \in Seq(A) /\ Len(u) = 1 /\ u[1] = s[i]
  OBVIOUS
<1> HIDE DEF t, u, A
<1>3. t = u
  BY <1>1, <1>2, SeqEqual
<1> QED BY <1>3 DEF t, u

LEMMA DigitsAdded ==
    ASSUME NEW ds \in Seq(Digits), NEW k \in Digits
    PROVE  /\ LastDigits(Append(ds, k)) = Append(BeforeDigit(LastDigits(ds)), k)
           /\ ds # <<>> => LastDigits(ds) # <<>>
<1> DEFINE m == MaxDigits
           n == Len(ds)
           es == Append(ds, k)
           l == LastDigits(ds)
<1>0. /\ m \in 1..9 /\ n \in Nat /\ es \in Seq(Digits) /\ es # <<>> /\ Len(es) = n + 1
      /\ \A i \in 1..n : es[i] = ds[i] /\ ds[i] \in Digits
      /\ es[n + 1] = k
  BY InputAssumption
<1>1. /\ n % m \in 0..(m - 1) /\ n % m <= n
      /\ LastDigits(es) = SubSeq(es, (n + 1) - (n % m), n + 1)
  <2>1. LastDigits(es) = SubSeq(es, Len(es) - ((Len(es) - 1) % m), Len(es))
    BY <1>0 DEF LastDigits
  <2>2. Len(es) - 1 = n
    BY <1>0
  <2> HIDE DEF es, m, n
  <2>3. n % m \in 0..(m - 1) /\ n % m <= n
    BY <1>0, Remainders
  <2>4. LastDigits(es) = SubSeq(es, Len(es) - (n % m), Len(es))
    BY <2>1, <2>2
  <2>5. LastDigits(es) = SubSeq(es, (n + 1) - (n % m), n + 1)
    BY <1>0, <2>4
  <2> QED BY <2>3, <2>5
<1>2. CASE ds = <<>>
  <2>1. n = 0 /\ l = <<>> /\ n % m = 0
    BY <1>0, <1>1, <1>2 DEF LastDigits
  <2>2. BeforeDigit(l) = <<>>
    BY <1>0, <2>1 DEF BeforeDigit
  <2>3. LastDigits(es) = SubSeq(es, 1, 1)
    <3> HIDE DEF es, m, n
    <3> QED BY <1>1, <2>1
  <2>4. es = <<k>> /\ Append(<<>>, k) = <<k>>
    BY <1>2
  <2>5. SubSeq(<<k>>, 1, 1) = <<k>>
    BY OneOf
  <2> QED BY <1>2, <2>2, <2>3, <2>4, <2>5
<1>3. CASE ds # <<>>
  <2> DEFINE r == (n - 1) % m
  <2>1. n - 1 \in Nat /\ l = SubSeq(ds, n - r, n)
    <3>1. n - 1 \in Nat
      BY <1>3
    <3>2. l = SubSeq(ds, n - r, n)
      BY <1>3 DEF LastDigits
    <3> QED BY <3>1, <3>2
  <2>2. /\ r \in 0..(m - 1) /\ r <= n - 1
        /\ n % m = IF r + 1 = m THEN 0 ELSE r + 1
    <3>1. (n - 1) + 1 = n
      BY <1>0
    <3> HIDE DEF n, m
    <3> QED BY <1>0, <2>1, <3>1, Remainders
  <2> HIDE DEF r
  <2>3. l \in Seq(Digits) /\ Len(l) = r + 1 /\ \A i \in 1..(r + 1) : l[i] = ds[n - r + i - 1]
    <3> HIDE DEF l
    <3> QED BY <1>0, <2>1, <2>2
  <2> HIDE DEF l, m
  <2>4. l # <<>>
    BY <1>0, <2>2, <2>3
  <2>5. CASE r + 1 = m
    <3>1. BeforeDigit(l) = <<>>
      BY <2>3, <2>5 DEF BeforeDigit, m
    <3>2. LastDigits(es) = SubSeq(es, n + 1, n + 1)
      <4> HIDE DEF es, n
      <4>1. n % m = 0 /\ n \in Nat /\ (n + 1) - 0 = n + 1
        BY <1>0, <2>2, <2>5
      <4> QED BY <1>1, <4>1
    <3>3. SubSeq(es, n + 1, n + 1) = <<es[n + 1]>> /\ Append(<<>>, k) = <<k>>
      <4> HIDE DEF es, n
      <4> QED BY <1>0, OneOf
    <3>4. es[n + 1] = k
      BY <1>0
    <3>5. LastDigits(es) = Append(BeforeDigit(l), k)
      <4> HIDE DEF es, n
      <4> QED BY <3>1, <3>2, <3>3, <3>4
    <3> QED BY <2>4, <3>5 DEF l
  <2>6. CASE r + 1 # m
    <3>1. BeforeDigit(l) = l
      BY <2>3, <2>6 DEF BeforeDigit, m
    <3>2. LastDigits(es) = SubSeq(es, n - r, n + 1)
      <4> HIDE DEF es, n
      <4>1. n % m = r + 1 /\ r \in Nat /\ n \in Nat
        BY <1>0, <2>2, <2>6
      <4> QED BY <1>1, <4>1
    <3> DEFINE s == SubSeq(es, n - r, n + 1)
               t == Append(l, k)
    <3>3. s \in Seq(Digits) /\ Len(s) = r + 2 /\ \A i \in 1..(r + 2) : s[i] = es[n - r + i - 1]
      <4> HIDE DEF es, n
      <4>1. n - r \in Int /\ n + 1 \in Int /\ n - r >= 1 /\ (n + 1) - (n - r) + 1 = r + 2
            /\ n - r <= n + 1
        BY <1>0, <2>2
      <4>2. \A i \in (n - r)..(n + 1) : es[i] \in Digits
        BY <1>0, <4>1
      <4> QED BY <4>1, <4>2, SubSeqProperties
    <3>4. /\ t \in Seq(Digits) /\ Len(t) = r + 2
          /\ \A i \in 1..(r + 2) : t[i] = IF i = r + 2 THEN k ELSE l[i]
      BY <2>2, <2>3
    <3> HIDE DEF s, t, n, es
    <3>5. ASSUME NEW i \in 1..(r + 2) PROVE s[i] = t[i]
      <4>1. CASE i = r + 2
        BY <1>0, <2>2, <3>3, <3>4, <4>1
      <4>2. CASE i # r + 2
        <5>1. i \in 1..(r + 1) /\ n - r + i - 1 \in 1..n
          BY <1>0, <2>2, <4>2
        <5> QED BY <1>0, <2>3, <3>3, <3>4, <4>2, <5>1
      <4> QED BY <4>1, <4>2
    <3>6. s = t
      BY <3>3, <3>4, <3>5, SeqEqual
    <3> QED BY <2>4, <3>1, <3>2, <3>6 DEF l, s, t, es
  <2> QED BY <2>5, <2>6
<1> QED BY <1>2, <1>3

LEMMA CountIs ==
    ASSUME CountIsTyped, digits \in Seq(Digits)
    PROVE  TypedCount = TypedNumber(digits)
<1>1. CASE digits = <<>>
  BY <1>1 DEF CountIsTyped, LastDigits, TypedCount, TypedNumber
<1>2. CASE digits # <<>>
  <2>1. count_buf = LastDigits(digits) /\ count_buf # <<>>
    <3>1. \A k \in Digits : LastDigits(digits) # <<>>
      BY <1>2, DigitsAdded
    <3>2. \E k : k \in Digits
      <4>1. Len(digits) \in Nat \ {0} /\ digits[1] \in Digits
        BY <1>2
      <4> QED BY <4>1
    <3> QED BY <3>1, <3>2 DEF CountIsTyped
  <2> QED BY <1>2, <2>1 DEF LastDigits, TypedCount, TypedNumber
<1> QED BY <1>1, <1>2

LEMMA CountNext ==
    ASSUME KeysInvariant, [Next]_vars
    PROVE  CountIsTyped'
<1>0. /\ CountIsTyped /\ press \in Press /\ digits \in Seq(Digits) /\ queued \in Nat
      /\ BindsAreTyped /\ ctx \in Feeds /\ (pc = "wait" => queued = 0) /\ menu \in {"list", "pager"}
  BY DEF KeysInvariant, StateIsTyped, NumbersAreTyped, ActionsAreQueued
<1>1. ASSUME UNCHANGED <<count_buf, digits, queued, menu, count>>,
             press'.pager = press.pager, press'.digits = press.digits,
             UNCHANGED <<pc, command>> \/ pc' # "handle" \/ command' # "link"
      PROVE  CountIsTyped'
  BY <1>0, <1>1 DEF CountIsTyped, LastDigits, TypedNumber
<1>2. CASE UNCHANGED vars
  BY <1>1, <1>2 DEF vars, statics, history
<1>3. CASE MenuRead \/ NoKey \/ NoticeStop \/ Resize \/ Yield \/ Signal
  BY <1>1, <1>3 DEF MenuRead, NoKey, NoticeStop, Resize, Yield, Signal, Returns, statics, history
<1>4. ASSUME NEW k, SearchKey(k) PROVE CountIsTyped'
  BY <1>1, <1>4 DEF SearchKey, Returns
<1>5. ASSUME NEW k, DigitKey(k) PROVE CountIsTyped'
  <2>1. /\ k \in Digits /\ count_buf' = Append(BeforeDigit(count_buf), k) /\ digits' = Append(digits, k)
        /\ UNCHANGED <<pc, command, queued, menu, press, count>>
    BY <1>5 DEF DigitKey
  <2>2. count_buf' = LastDigits(Append(digits, k))
    BY <1>0, <2>1, DigitsAdded DEF CountIsTyped
  <2>3. (LastDigits(digits))' = LastDigits(Append(digits, k))
    BY <2>1 DEF LastDigits
  <2>4. \A ds : TypedNumber(ds)' = TypedNumber(ds)
    BY DEF TypedNumber
  <2> QED BY <1>0, <2>1, <2>2, <2>3 DEF CountIsTyped, TypedNumber
<1>6. ASSUME NEW k, ActionKey(k) PROVE CountIsTyped'
  <2> DEFINE first == bind_get_action(ctx, k, 0)
  <2>1. /\ count_buf' = <<>> /\ digits' = <<>> /\ queued = 0 /\ pc = "wait" /\ UNCHANGED menu
        /\ press'.digits = digits /\ press'.pager = FALSE
        /\ IF first = "start_search" THEN UNCHANGED <<pc, queued>>
           ELSE queued' = 1 /\ count' = IF menu = "pager" THEN TypedCount ELSE count
    BY <1>0, <1>6 DEF ActionKey, Reads, Returns, QueuedAfter
  <2>2. TypedCount = TypedNumber(digits)
    BY <1>0, CountIs
  <2>3. count_buf' = (LastDigits(digits))'
    BY <2>1 DEF LastDigits
  <2>4. (menu = "pager" /\ ~press.pager /\ queued > 0)' => count' = TypedNumber(digits)
    BY <2>1, <2>2
  <2>5. (TypedNumber(press.digits))' = TypedNumber(digits)
    BY <2>1 DEF TypedNumber
  <2>6. (pc = "handle" /\ command = "link" => queued > 0)'
    BY <2>1
  <2> QED BY <2>3, <2>4, <2>5, <2>6 DEF CountIsTyped
<1>7. CASE NextQueued
  <2>1. /\ UNCHANGED <<count_buf, digits, menu, count>>
        /\ \/ queued > 0 /\ queued' = queued + 1
           \/ queued' = 0 /\ pc' = "wait"
    BY <1>7 DEF NextQueued
  <2>2. press'.pager = press.pager /\ press'.digits = press.digits
    <3>1. Steadied.pager = press.pager /\ Steadied.digits = press.digits /\ Steadied \in Press
      BY <1>0 DEF Steadied, Press
    <3>2. \/ \E a : press' = [Steadied EXCEPT !.given = Append(@, a)]
          \/ press' \in {press, Steadied}
      BY <1>7 DEF NextQueued
    <3> QED BY <3>1, <3>2 DEF Press
  <2>3. queued' > 0 => queued > 0
    BY <1>0, <2>1
  <2>4. pc' = "handle" => queued' > 0
    BY <1>0, <2>1
  <2> QED BY <1>0, <2>1, <2>2, <2>3, <2>4 DEF CountIsTyped, LastDigits, TypedNumber
<1>8. CASE Handle
  <2>1. UNCHANGED <<count_buf, digits, queued>> /\ pc' = "call"
    BY <1>8 DEF Handle
  <2>2. \/ menu' = "list"
        \/ press' = [press EXCEPT !.pager = TRUE]
        \/ UNCHANGED <<menu, count, press>>
    BY <1>8 DEF Handle, HandleInList, HandleInPager, OpenPager, Stay
  <2>3. CASE menu' = "list"
    BY <1>0, <2>1, <2>3 DEF CountIsTyped, LastDigits
  <2>4. CASE press' = [press EXCEPT !.pager = TRUE]
    <3>1. press'.pager = TRUE
      BY <1>0, <2>4 DEF Press
    <3> QED BY <1>0, <2>1, <3>1 DEF CountIsTyped, LastDigits
  <2>5. CASE UNCHANGED <<menu, count, press>>
    BY <1>1, <2>1, <2>5
  <2> QED BY <2>2, <2>3, <2>4, <2>5
<1> QED BY <1>2, <1>3, <1>4, <1>5, <1>6, <1>7, <1>8 DEF Next, GetInput, User, Terminated

LEMMA KeysNext == KeysInvariant /\ [Next]_vars => KeysInvariant'
<1> SUFFICES ASSUME KeysInvariant, [Next]_vars PROVE KeysInvariant'
  OBVIOUS
<1>1. SearchInvariant'
  BY SearchNext DEF KeysInvariant
<1>2. BindsAreTyped'
  BY BindsStay DEF KeysInvariant, BindsAreTyped, Binds
<1>3. press' \in Press
  BY PressNext
<1>4. StateIsTyped' /\ NumbersAreTyped' /\ ActionsAreQueued' /\ CountIsTyped'
  BY StateNext, NumbersNext, ActionsNext, CountNext
<1> QED BY <1>1, <1>2, <1>3, <1>4 DEF KeysInvariant, Press

(* Each key gives the actions it is bound to, all of them and in their       *)
(* order, and those on links the number that was typed before it: for any    *)
(* lines of config files, any keys and menus, however threads interfere.     *)
THEOREM KeysDoAsBound == Spec => []KeysAreObeyed
<1>1. ASSUME KeysInvariant PROVE TypeOK
  BY <1>1 DEF KeysInvariant, SearchInvariant, StateIsTyped, NumbersAreTyped, TypeOK
<1>2. ASSUME KeysInvariant PROVE ActionsInOrder
  BY <1>2 DEF KeysInvariant, ActionsAreQueued, ActionsInOrder
<1>3. ASSUME KeysInvariant PROVE LinksAsCounted
  BY <1>3 DEF KeysInvariant, CountIsTyped, LinksAsCounted
<1>4. KeysInvariant => KeysAreObeyed
  BY <1>1, <1>2, <1>3 DEF KeysAreObeyed
<1> QED BY <1>4, KeysInit, KeysNext, PTL DEF Spec

==============================================================================
