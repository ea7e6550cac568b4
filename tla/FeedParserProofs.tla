--------------------------- MODULE FeedParserProofs ---------------------------
(***************************************************************************)
(* Of Serialized: what is read of serialized data is what has been written,  *)
(* for any fields and values.                                               *)
(*                                                                          *)
(* Of FeedParser: what the handlers of the parsers may write to, whatever    *)
(* documents are made of: the types of feed_update_state and the path of     *)
(* open elements, and that every piece of text stays in the item or feed it  *)
(* was written in.  What a handler does is said once, for a set of tokens    *)
(* that the text and the attributes are made of, one that the feed is made   *)
(* of and one that the newest item is made of.  With all integers for each   *)
(* of them it says that types are kept; with the tokens of a place of the    *)
(* document, that text stays there.                                         *)
(***************************************************************************)
EXTENDS FeedParser, NumberLemmas, SequenceTheorems, TLAPS

-----------------------------------------------------------------------------
(* Serialized data.  The operators are folds from the left of sequences.  A  *)
(* fold is given by the step that is taken for one element more, and a        *)
(* statement about all sequences follows from that about the empty one and    *)
(* that about one more.                                                      *)

(* A fold from the left over a sequence, of a step that is a function.       *)
Runs(op, base, s, g) ==
    g = [T \in SUBSET (DOMAIN s) |->
            IF T = {} THEN base ELSE op[<<g[T \ {Max(T)}], s[Max(T)]>>]]

Run(op, base, s) == (CHOOSE g : Runs(op, base, s, g))[DOMAIN s]

(* The step takes a value of V and an element of S to a value of V.          *)
IsStep(op, V, S) == op \in [V \X S -> V]

(* There is a run of every such step.                                        *)
LEMMA RunsExist ==
    ASSUME NEW V, NEW S, NEW op, IsStep(op, V, S), NEW base \in V, NEW s \in Seq(S)
    PROVE  \E g \in [SUBSET (DOMAIN s) -> V] : Runs(op, base, s, g)
<1> DEFINE n == Len(s)
           step == [p \in (1..n) \X V |-> op[<<p[2], s[p[1]]>>]]
<1>1. n \in Nat /\ DOMAIN s = 1..n /\ \A i \in 1..n : s[i] \in S
  OBVIOUS
<1> HIDE DEF n
<1>2. ASSUME NEW i \in 1..n, NEW v \in V PROVE step[<<i, v>>] = op[<<v, s[i]>>]
  OBVIOUS
<1>3. step \in [(1..n) \X V -> V]
  BY <1>1 DEF IsStep
<1> HIDE DEF step
<1>4. PICK h \in [SUBSET (1..n) -> V] : Folded(step, base, h, 1..n)
  BY <1>1, <1>3, FoldExists
<1>5. ASSUME NEW T \in SUBSET (1..n), T # {}
      PROVE  step[<<Max(T), h[T \ {Max(T)}]>>] = op[<<h[T \ {Max(T)}], s[Max(T)]>>]
  <2>1. Max(T) \in 1..n /\ T \ {Max(T)} \in SUBSET (1..n)
    BY <1>1, <1>5, MaxIs
  <2> QED BY <1>2, <2>1
<1>6. Runs(op, base, s, h)
  BY <1>1, <1>4, <1>5 DEF Folded, Runs
<1> QED BY <1>1, <1>6

(* What g says of the indexes of s is what the step makes of it.             *)
Steps(op, base, V, s, g) ==
    /\ g[{}] = base
    /\ \A T \in SUBSET (DOMAIN s) :
         T # {} /\ g[T \ {Max(T)}] \in V => g[T] = op[<<g[T \ {Max(T)}], s[Max(T)]>>]

(* Whatever takes these steps from that base is the run.                     *)
LEMMA RunIs ==
    ASSUME NEW V, NEW S, NEW op, IsStep(op, V, S), NEW base \in V, NEW s \in Seq(S), NEW g,
           Steps(op, base, V, s, g)
    PROVE  g[DOMAIN s] = Run(op, base, s) /\ g[DOMAIN s] \in V
<1> DEFINE r == CHOOSE h : Runs(op, base, s, h)
           n == Len(s)
           Good == {T \in SUBSET (1..n) : g[T] = r[T] /\ r[T] \in V}
<1>1. n \in Nat /\ DOMAIN s = 1..n /\ \A i \in 1..n : s[i] \in S
  OBVIOUS
<1>2. Runs(op, base, s, r)
  BY RunsExist
<1>3. Run(op, base, s) = r[1..n]
  BY <1>1 DEF Run
<1> HIDE DEF n, r
<1>4. {} \in Good
  BY <1>1, <1>2 DEF Runs, Steps
<1>5. ASSUME NEW T \in SUBSET (1..n), T # {}, T \ {Max(T)} \in Good PROVE T \in Good
  <2>1. Max(T) \in 1..n
    BY <1>1, <1>5, MaxIs
  <2>2. r[T] = op[<<r[T \ {Max(T)}], s[Max(T)]>>]
    BY <1>1, <1>2, <1>5 DEF Runs
  <2>3. g[T] = op[<<g[T \ {Max(T)}], s[Max(T)]>>]
    BY <1>1, <1>5 DEF Steps
  <2>4. op[<<r[T \ {Max(T)}], s[Max(T)]>>] \in V
    BY <1>1, <1>5, <2>1 DEF IsStep
  <2> QED BY <1>5, <2>2, <2>3, <2>4
<1>6. SUBSET (1..n) \subseteq Good
  <2> HIDE DEF Good
  <2> QED BY <1>1, <1>4, <1>5, IndexInduction
<1> QED BY <1>1, <1>3, <1>6

(* A run takes its steps.                                                    *)
LEMMA RunsTakeSteps ==
    ASSUME NEW V, NEW op, NEW base, NEW s, NEW g, Runs(op, base, s, g)
    PROVE  Steps(op, base, V, s, g)
BY DEF Runs, Steps

(* Where a run ends.                                                         *)
LEMMA RunIsIn ==
    ASSUME NEW V, NEW S, NEW op, IsStep(op, V, S), NEW base \in V, NEW s \in Seq(S)
    PROVE  Run(op, base, s) \in V
<1> PICK g \in [SUBSET (DOMAIN s) -> V] : Runs(op, base, s, g)
  BY RunsExist
<1>1. Steps(op, base, V, s, g)
  BY RunsTakeSteps
<1>2. g[DOMAIN s] \in V
  BY <1>1, RunIs
<1>3. g[DOMAIN s] = Run(op, base, s)
  BY <1>1, RunIs
<1> QED BY <1>2, <1>3

(* Nothing is done with nothing.                                             *)
LEMMA RunEmpty ==
    ASSUME NEW V, NEW S, NEW op, IsStep(op, V, S), NEW base \in V
    PROVE  Run(op, base, <<>>) = base
<1> DEFINE s == <<>>
<1>0. DOMAIN s = {}
  OBVIOUS
<1> s \in Seq(S)
  OBVIOUS
<1> HIDE DEF s
<1>1. PICK g \in [SUBSET (DOMAIN s) -> V] : Runs(op, base, s, g)
  BY <1>0, RunsExist
<1>2. g[{}] = base
  BY <1>1 DEF Runs
<1>3. Steps(op, base, V, s, g)
  BY <1>1, RunsTakeSteps
<1>4. g[DOMAIN s] = Run(op, base, s)
  BY <1>3, RunIs
<1> QED BY <1>0, <1>2, <1>4 DEF s

(* One element more is one step more.                                        *)
LEMMA RunAppend ==
    ASSUME NEW V, NEW S, NEW op, IsStep(op, V, S), NEW base \in V, NEW s \in Seq(S), NEW c \in S
    PROVE  Run(op, base, Append(s, c)) = op[<<Run(op, base, s), c>>]
<1> DEFINE t == Append(s, c)
           n == Len(s)
           D == 1..n
           W == 1..(n + 1)
<1>1. /\ n \in Nat /\ DOMAIN s = D /\ DOMAIN t = W /\ t \in Seq(S) /\ t[n + 1] = c
      /\ \A i \in D : t[i] = s[i]
  OBVIOUS
<1>2. D \subseteq W /\ W # {} /\ D = W \ {n + 1} /\ n + 1 \in W /\ \A x \in W : x <= n + 1
  <2>1. n \in Nat
    OBVIOUS
  <2> HIDE DEF n, t
  <2>2. D \subseteq W /\ n + 1 \in W /\ \A x \in W : x <= n + 1
    BY <2>1
  <2>3. \A x \in W : x # n + 1 => x \in D
    BY <2>1
  <2>4. n + 1 \notin D
    BY <2>1
  <2> HIDE DEF D, W
  <2> QED BY <2>2, <2>3, <2>4
<1>3. Max(W) = n + 1
  <2>1. Max(W) \in W /\ \A x \in W : x <= Max(W)
    <3>1. n + 1 \in Nat /\ W \in SUBSET (1..n + 1)
      BY <1>1
    <3> HIDE DEF W, n, t
    <3> QED BY <1>2, <3>1, MaxIs
  <2> HIDE DEF n, t
  <2> QED BY <1>1, <1>2, <2>1
<1> HIDE DEF t, n
<1>4. PICK g \in [SUBSET W -> V] : Runs(op, base, t, g)
  BY <1>1, RunsExist
<1>5. g[{}] = base /\ \A T \in SUBSET W : T # {} => g[T] = op[<<g[T \ {Max(T)}], t[Max(T)]>>]
  BY <1>1, <1>4 DEF Runs
<1>6. g[W] = Run(op, base, t)
  <2>1. Steps(op, base, V, t, g)
    BY <1>4, RunsTakeSteps
  <2>2. g[DOMAIN t] = Run(op, base, t)
    BY <1>1, <2>1, RunIs
  <2> QED BY <1>1, <2>2
<1>7. \A T \in SUBSET D : T # {} => g[T] = op[<<g[T \ {Max(T)}], s[Max(T)]>>]
  BY <1>1, <1>2, <1>5, MaxIs
<1>8. g[D] = Run(op, base, s)
  <2>1. Steps(op, base, V, s, g)
    BY <1>1, <1>5, <1>7 DEF Steps
  <2>2. g[DOMAIN s] = Run(op, base, s)
    BY <2>1, RunIs
  <2> QED BY <1>1, <2>2
<1>9. g[W] = op[<<g[D], t[n + 1]>>]
  BY <1>2, <1>3, <1>5
<1> QED BY <1>1, <1>6, <1>8, <1>9 DEF t

(* What holds of the empty sequence, and of a sequence with an element more, *)
(* holds of all.                                                             *)
LEMMA AppendInduction ==
    ASSUME NEW S, NEW Good, <<>> \in Good,
           \A s \in Seq(S), c \in S : s \in Good => Append(s, c) \in Good
    PROVE  Seq(S) \subseteq Good
<1> DEFINE Bad == {s \in Seq(S) : s \notin Good}
           Lengths == {Len(s) : s \in Bad}
<1>1. ASSUME Bad # {} PROVE FALSE
  <2>1. Lengths \subseteq Nat /\ Lengths # {}
    BY <1>1
  <2>2. PICK m \in Lengths : \A k \in Lengths : m <= k
    <3> HIDE DEF Lengths
    <3> QED BY <2>1, LeastNumber
  <2>3. PICK s \in Bad : m = Len(s)
    OBVIOUS
  <2>4. s \in Seq(S) /\ s # <<>>
    OBVIOUS
  <2>5. PICK f \in Seq(S), c \in S : s = Append(f, c)
    <3> HIDE DEF Bad, Lengths
    <3> QED BY <2>4, SequenceEmptyOrAppend
  <2>6. f \in Good
    <3>1. f \in Bad => Len(f) \in Lengths
      OBVIOUS
    <3>2. m = Len(f) + 1 /\ Len(f) \in Nat
      BY <2>3, <2>5
    <3> HIDE DEF Lengths
    <3>3. f \notin Bad
      BY <2>2, <3>1, <3>2
    <3> QED BY <3>3
  <2>7. s \in Good
    <3> HIDE DEF Bad, Lengths
    <3> QED BY <2>5, <2>6
  <2> QED BY <2>7
<1> QED BY <1>1

-----------------------------------------------------------------------------
(* What is kept of a sequence.                                               *)

(* The last index of some is an index, as are the others.                    *)
LEMMA IndexesOf ==
    ASSUME NEW S, NEW s \in Seq(S)
    PROVE  \A T \in SUBSET (DOMAIN s) : T # {} => s[Max(T)] \in S /\ T \ {Max(T)} \in SUBSET (DOMAIN s)
<1>1. Len(s) \in Nat /\ DOMAIN s = 1..Len(s) /\ \A i \in 1..Len(s) : s[i] \in S
  OBVIOUS
<1> QED BY <1>1, MaxIs

(* One element after another is looked at.                                   *)
OnlyLaws(S, A) ==
    /\ Only(<<>>, A) = <<>>
    /\ \A s \in Seq(S) : Only(s, A) \in Seq(S)
    /\ \A s \in Seq(S), c \in S :
         Only(Append(s, c), A) = IF c \in A THEN Append(Only(s, A), c) ELSE Only(s, A)

(* Only is a fold from the left.                                             *)
LEMMA OnlySteps ==
    ASSUME NEW S, NEW A
    PROVE  OnlyLaws(S, A)
<1> DEFINE V == Seq(S)
           Kept(k, c) == IF c \in A THEN Append(k, c) ELSE k
           op == [p \in V \X S |-> Kept(p[1], p[2])]
           base == <<>>
<1>1. base \in V /\ \A k \in V, c \in S : Kept(k, c) \in V
  OBVIOUS
<1> HIDE DEF Kept
<1>2. \A k \in V, c \in S : op[<<k, c>>] = Kept(k, c)
  <2> HIDE DEF V
  <2> QED OBVIOUS
<1>3. IsStep(op, V, S)
  <2> HIDE DEF V
  <2> QED BY <1>1 DEF IsStep
<1> HIDE DEF op, base, V
<1>4. ASSUME NEW s \in Seq(S) PROVE Only(s, A) = Run(op, base, s)
  <2> DEFINE It(g) == g = [T \in SUBSET (DOMAIN s) |->
                             IF T = {} THEN base ELSE Kept(g[T \ {Max(T)}], s[Max(T)])]
             g == CHOOSE h : It(h)
  <2>1. \A T \in SUBSET (DOMAIN s) : T # {} => s[Max(T)] \in S /\ T \ {Max(T)} \in SUBSET (DOMAIN s)
    BY IndexesOf
  <2>2. PICK h \in [SUBSET (DOMAIN s) -> V] : Runs(op, base, s, h)
    BY <1>1, <1>3, RunsExist
  <2>3. It(h)
    BY <1>2, <2>1, <2>2 DEF Runs
  <2>4. It(g)
    BY <2>3
  <2>5. Only(s, A) = g[DOMAIN s]
    BY DEF Only, FoldLeft, MapThenFoldSet, Kept, base
  <2> HIDE DEF g
  <2>6. Steps(op, base, V, s, g)
    <3>1. g[{}] = base
      BY <2>4
    <3>2. ASSUME NEW T \in SUBSET (DOMAIN s), T # {}, g[T \ {Max(T)}] \in V
          PROVE  g[T] = op[<<g[T \ {Max(T)}], s[Max(T)]>>]
      <4>1. g[T] = Kept(g[T \ {Max(T)}], s[Max(T)])
        BY <2>4, <3>2
      <4> QED BY <1>2, <2>1, <3>2, <4>1
    <3> QED BY <3>1, <3>2 DEF Steps
  <2>7. g[DOMAIN s] = Run(op, base, s)
    BY <1>1, <1>3, <2>6, RunIs
  <2> QED BY <2>5, <2>7
<1>5. Only(<<>>, A) = <<>>
  <2>1. Run(op, base, <<>>) = base
    BY <1>1, <1>3, RunEmpty
  <2>2. <<>> \in Seq(S)
    OBVIOUS
  <2> QED BY <1>4, <2>1, <2>2 DEF base
<1>6. \A s \in Seq(S) : Only(s, A) \in V
  BY <1>1, <1>3, <1>4, RunIsIn
<1>7. ASSUME NEW s \in Seq(S), NEW c \in S PROVE Only(Append(s, c), A) = Kept(Only(s, A), c)
  <2>1. Run(op, base, Append(s, c)) = op[<<Run(op, base, s), c>>]
    BY <1>1, <1>3, RunAppend
  <2>2. Append(s, c) \in Seq(S)
    OBVIOUS
  <2> QED BY <1>2, <1>4, <1>6, <2>1, <2>2
<1> QED BY <1>5, <1>6, <1>7 DEF Kept, V, OnlyLaws

(* Nothing is kept of nothing.                                               *)
LEMMA OnlyEmpty ==
    ASSUME NEW A
    PROVE  Only(<<>>, A) = <<>>
<1>1. OnlyLaws({}, A)
  BY OnlySteps
<1> QED BY <1>1 DEF OnlyLaws

(* What is kept of a sequence with one element more.                         *)
LEMMA OnlyAppend ==
    ASSUME NEW S, NEW A, NEW s \in Seq(S), NEW c \in S
    PROVE  /\ Only(s, A) \in Seq(S)
           /\ Only(Append(s, c), A) = IF c \in A THEN Append(Only(s, A), c) ELSE Only(s, A)
<1>1. OnlyLaws(S, A)
  BY OnlySteps
<1> QED BY <1>1 DEF OnlyLaws

(* What is kept is of what there was, and of what is kept.                   *)
LEMMA OnlyIsIn ==
    ASSUME NEW S, NEW A
    PROVE  \A s \in Seq(S) : Only(s, A) \in Seq(S \cap A)
<1> DEFINE Good == {s \in Seq(S) : Only(s, A) \in Seq(S \cap A)}
<1>1. <<>> \in Good
  <2>1. Only(<<>>, A) = <<>>
    BY OnlyEmpty
  <2>2. <<>> \in Seq(S) /\ <<>> \in Seq(S \cap A)
    OBVIOUS
  <2> QED BY <2>1, <2>2
<1>2. ASSUME NEW s \in Seq(S), NEW c \in S, s \in Good PROVE Append(s, c) \in Good
  <2>1. Only(Append(s, c), A) = IF c \in A THEN Append(Only(s, A), c) ELSE Only(s, A)
    BY OnlyAppend
  <2>2. Only(s, A) \in Seq(S \cap A) /\ Append(s, c) \in Seq(S)
    BY <1>2
  <2> QED BY <2>1, <2>2
<1>3. Seq(S) \subseteq Good
  <2> HIDE DEF Good
  <2> QED BY <1>1, <1>2, AppendInduction
<1> QED BY <1>3 DEF Good

(* Concatenation, one element after another.                                 *)
LEMMA ConcatAppend ==
    ASSUME NEW S, NEW s \in Seq(S), NEW t \in Seq(S), NEW c \in S
    PROVE  s \o Append(t, c) = Append(s \o t, c)
<1> DEFINE e == <<c>>
<1>1. e \in Seq(S)
  OBVIOUS
<1>2. Append(t, c) = t \o e /\ Append(s \o t, c) = (s \o t) \o e /\ s \o t \in Seq(S)
  <2>1. s \o t \in Seq(S)
    BY ConcatProperties
  <2>2. \A x \in Seq(S) : Append(x, c) = x \o e
    BY AppendIsConcat
  <2> QED BY <2>1, <2>2
<1> HIDE DEF e
<1>3. (s \o t) \o e = s \o (t \o e)
  BY <1>1, ConcatAssociative
<1>4. s \o Append(t, c) = s \o (t \o e)
  BY <1>2
<1>5. Append(s \o t, c) = (s \o t) \o e
  BY <1>2
<1> QED BY <1>3, <1>4, <1>5

(* To keep less of what is kept is to keep less.                             *)
LEMMA OnlyOnly ==
    ASSUME NEW S, NEW A, NEW B, B \subseteq A, NEW s \in Seq(S)
    PROVE  Only(Only(s, A), B) = Only(s, B)
<1> DEFINE Good == {x \in Seq(S) : Only(Only(x, A), B) = Only(x, B)}
<1>1. <<>> \in Good
  <2>1. Only(<<>>, A) = <<>> /\ Only(<<>>, B) = <<>>
    BY OnlyEmpty
  <2>2. <<>> \in Seq(S)
    OBVIOUS
  <2> QED BY <2>1, <2>2
<1>2. ASSUME NEW x \in Seq(S), NEW c \in S, x \in Good PROVE Append(x, c) \in Good
  <2>1. /\ Only(x, A) \in Seq(S) /\ Append(x, c) \in Seq(S)
        /\ Only(Append(x, c), A) = IF c \in A THEN Append(Only(x, A), c) ELSE Only(x, A)
        /\ Only(Append(x, c), B) = IF c \in B THEN Append(Only(x, B), c) ELSE Only(x, B)
    BY OnlyAppend
  <2>2. Only(Append(Only(x, A), c), B)
          = IF c \in B THEN Append(Only(Only(x, A), B), c) ELSE Only(Only(x, A), B)
    BY <2>1, OnlyAppend
  <2> QED BY <1>2, <2>1, <2>2
<1>3. Seq(S) \subseteq Good
  <2> HIDE DEF Good
  <2> QED BY <1>1, <1>2, AppendInduction
<1> QED BY <1>3

(* What is kept of two sequences.                                            *)
LEMMA OnlyConcat ==
    ASSUME NEW S, NEW A, NEW s \in Seq(S), NEW t \in Seq(S)
    PROVE  Only(s \o t, A) = Only(s, A) \o Only(t, A)
<1> DEFINE Good == {x \in Seq(S) : Only(s \o x, A) = Only(s, A) \o Only(x, A)}
<1>0. Only(s, A) \in Seq(S)
  <2>1. OnlyLaws(S, A)
    BY OnlySteps
  <2> QED BY <2>1 DEF OnlyLaws
<1>1. <<>> \in Good
  <2>1. Only(<<>>, A) = <<>>
    BY OnlyEmpty
  <2>2. <<>> \in Seq(S) /\ s \o <<>> = s /\ Only(s, A) \o <<>> = Only(s, A)
    BY <1>0, ConcatEmptySeq
  <2> QED BY <2>1, <2>2
<1>2. ASSUME NEW x \in Seq(S), NEW c \in S, x \in Good PROVE Append(x, c) \in Good
  <2>1. /\ s \o Append(x, c) = Append(s \o x, c) /\ s \o x \in Seq(S) /\ Append(x, c) \in Seq(S)
    BY ConcatAppend
  <2>2. /\ Only(x, A) \in Seq(S)
        /\ Only(Append(x, c), A) = IF c \in A THEN Append(Only(x, A), c) ELSE Only(x, A)
    BY OnlyAppend
  <2>3. Only(Append(s \o x, c), A) = IF c \in A THEN Append(Only(s \o x, A), c) ELSE Only(s \o x, A)
    <3> DEFINE y == s \o x
    <3>1. y \in Seq(S)
      BY <2>1
    <3> HIDE DEF y
    <3>2. Only(Append(y, c), A) = IF c \in A THEN Append(Only(y, A), c) ELSE Only(y, A)
      BY <3>1, OnlyAppend
    <3> QED BY <3>2 DEF y
  <2>4. Only(s, A) \o Append(Only(x, A), c) = Append(Only(s, A) \o Only(x, A), c)
    BY <1>0, <2>2, ConcatAppend
  <2> QED BY <1>2, <2>1, <2>2, <2>3, <2>4
<1>3. Seq(S) \subseteq Good
  <2> HIDE DEF Good
  <2> QED BY <1>1, <1>2, AppendInduction
<1> QED BY <1>3

(* Nothing is kept where nothing is to be kept.                              *)
LEMMA OnlyNothing ==
    ASSUME NEW S, NEW A, S \cap A = {}, NEW s \in Seq(S)
    PROVE  Only(s, A) = <<>>
<1>1. Only(s, A) \in Seq(S \cap A)
  BY OnlyIsIn
<1> QED BY <1>1

(* What only tells apart by what is kept.                                    *)
LEMMA OnlyAlike ==
    ASSUME NEW S, NEW A, NEW B, \A c \in S : c \in A <=> c \in B, NEW s \in Seq(S)
    PROVE  Only(s, A) = Only(s, B)
<1> DEFINE Good == {x \in Seq(S) : Only(x, A) = Only(x, B)}
<1>1. <<>> \in Good
  <2>1. Only(<<>>, A) = <<>> /\ Only(<<>>, B) = <<>>
    BY OnlyEmpty
  <2>2. <<>> \in Seq(S)
    OBVIOUS
  <2> QED BY <2>1, <2>2
<1>2. ASSUME NEW x \in Seq(S), NEW c \in S, x \in Good PROVE Append(x, c) \in Good
  <2>1. /\ Append(x, c) \in Seq(S)
        /\ Only(Append(x, c), A) = IF c \in A THEN Append(Only(x, A), c) ELSE Only(x, A)
        /\ Only(Append(x, c), B) = IF c \in B THEN Append(Only(x, B), c) ELSE Only(x, B)
    BY OnlyAppend
  <2>2. c \in A <=> c \in B
    OBVIOUS
  <2>3. Only(Append(x, c), A) = Only(Append(x, c), B)
    BY <1>2, <2>1, <2>2
  <2> QED BY <2>1, <2>3
<1>3. Seq(S) \subseteq Good
  <2> HIDE DEF Good
  <2> QED BY <1>1, <1>2, AppendInduction
<1> QED BY <1>3

-----------------------------------------------------------------------------
(* Fields of serialized data.                                                *)

(* Fields are added one after another.                                       *)
LEMMA FieldsSteps ==
    ASSUME NEW V, NEW S, NEW target \in V,
           \A t \in V, f \in S : serialize_array(t, f[1], f[2]) \in V
    PROVE  /\ serialize_fields(target, <<>>) = target
           /\ \A s \in Seq(S) : serialize_fields(target, s) \in V
           /\ \A s \in Seq(S), f \in S :
                serialize_fields(target, Append(s, f)) = serialize_array(serialize_fields(target, s), f[1], f[2])
<1> DEFINE Added(t, f) == serialize_array(t, f[1], f[2])
           op == [p \in V \X S |-> Added(p[1], p[2])]
<1>1. \A t \in V, f \in S : Added(t, f) \in V
  OBVIOUS
<1> HIDE DEF Added
<1>2. \A t \in V, f \in S : op[<<t, f>>] = Added(t, f)
  OBVIOUS
<1>3. IsStep(op, V, S)
  BY <1>1 DEF IsStep
<1> HIDE DEF op
<1>4. ASSUME NEW s \in Seq(S) PROVE serialize_fields(target, s) = Run(op, target, s)
  <2> DEFINE It(g) == g = [T \in SUBSET (DOMAIN s) |->
                             IF T = {} THEN target ELSE Added(g[T \ {Max(T)}], s[Max(T)])]
             g == CHOOSE h : It(h)
  <2>1. \A T \in SUBSET (DOMAIN s) : T # {} => s[Max(T)] \in S /\ T \ {Max(T)} \in SUBSET (DOMAIN s)
    BY IndexesOf
  <2>2. PICK h \in [SUBSET (DOMAIN s) -> V] : Runs(op, target, s, h)
    BY <1>3, RunsExist
  <2>3. It(h)
    BY <1>2, <2>1, <2>2 DEF Runs
  <2>4. It(g)
    BY <2>3
  <2>5. serialize_fields(target, s) = g[DOMAIN s]
    BY DEF serialize_fields, FoldLeft, MapThenFoldSet, Added
  <2> HIDE DEF g
  <2>6. Steps(op, target, V, s, g)
    <3>1. g[{}] = target
      BY <2>4
    <3>2. ASSUME NEW T \in SUBSET (DOMAIN s), T # {}, g[T \ {Max(T)}] \in V
          PROVE  g[T] = op[<<g[T \ {Max(T)}], s[Max(T)]>>]
      <4>1. g[T] = Added(g[T \ {Max(T)}], s[Max(T)])
        BY <2>4, <3>2
      <4> QED BY <1>2, <2>1, <3>2, <4>1
    <3> QED BY <3>1, <3>2 DEF Steps
  <2>7. g[DOMAIN s] = Run(op, target, s)
    BY <1>3, <2>6, RunIs
  <2> QED BY <2>5, <2>7
<1>5. serialize_fields(target, <<>>) = target
  <2>1. Run(op, target, <<>>) = target
    BY <1>3, RunEmpty
  <2>2. <<>> \in Seq(S)
    OBVIOUS
  <2> QED BY <1>4, <2>1, <2>2
<1>6. \A s \in Seq(S) : serialize_fields(target, s) \in V
  BY <1>3, <1>4, RunIsIn
<1>7. ASSUME NEW s \in Seq(S), NEW f \in S
      PROVE  serialize_fields(target, Append(s, f)) = Added(serialize_fields(target, s), f)
  <2>1. Run(op, target, Append(s, f)) = op[<<Run(op, target, s), f>>]
    BY <1>3, RunAppend
  <2>2. Append(s, f) \in Seq(S)
    OBVIOUS
  <2> QED BY <1>2, <1>4, <1>6, <2>1, <2>2
<1> QED BY <1>5, <1>6, <1>7 DEF Added

(* Data are empty or begin with the delimiter.                               *)
Form == {t \in Seq(Int) : t = <<>> \/ t[1] = Delimiter}

(* The fields of data.                                                       *)
LEMMA DeserializeSteps ==
    /\ deserialize(<<>>) = <<>>
    /\ \A s \in Form : deserialize(s) \in Seq(Seq(Int))
    /\ \A s \in Form, c \in Int :
         Append(s, c) \in Form =>
           deserialize(Append(s, c)) =
             IF c = Delimiter THEN Append(deserialize(s), <<>>)
             ELSE [deserialize(s) EXCEPT ![Len(deserialize(s))] = Append(@, c)]
<1> DEFINE V == Seq(Seq(Int))
           Taken(k, c) == IF c = Delimiter THEN Append(k, <<>>)
                          ELSE [k EXCEPT ![Len(k)] = Append(@, c)]
           op == [p \in V \X Int |-> Taken(p[1], p[2])]
           base == <<>>
<1>1. base \in V /\ \A k \in V, c \in Int : Taken(k, c) \in V
  <2>1. ASSUME NEW k \in V, NEW c \in Int PROVE [k EXCEPT ![Len(k)] = Append(@, c)] \in V
    <3>1. CASE k = <<>>
      <4>1. [k EXCEPT ![Len(k)] = Append(@, c)] = [i \in DOMAIN k |-> IF i = Len(k) THEN Append(k[i], c) ELSE k[i]]
        OBVIOUS
      <4>2. DOMAIN k = {}
        BY <3>1
      <4>3. [k EXCEPT ![Len(k)] = Append(@, c)] = k
        BY <4>1, <4>2
      <4> QED BY <4>3
    <3>2. CASE k # <<>>
      <4>1. Len(k) \in 1..Len(k) /\ k[Len(k)] \in Seq(Int)
        BY <3>2
      <4>2. Append(k[Len(k)], c) \in Seq(Int)
        BY <4>1
      <4> QED BY <4>1, <4>2, ExceptSeq
    <3> QED BY <3>1, <3>2
  <2>2. ASSUME NEW k \in V PROVE Append(k, <<>>) \in V
    OBVIOUS
  <2> QED BY <2>1, <2>2
<1> HIDE DEF Taken
<1>2. \A k \in V, c \in Int : op[<<k, c>>] = Taken(k, c)
  <2> HIDE DEF V
  <2> QED OBVIOUS
<1>3. IsStep(op, V, Int)
  <2> HIDE DEF V
  <2> QED BY <1>1 DEF IsStep
<1> HIDE DEF op, base, V
<1>4. ASSUME NEW s \in Form PROVE deserialize(s) = Run(op, base, s)
  <2> DEFINE TakenOf(k, c) == IF c = s[1] THEN Append(k, <<>>)
                              ELSE [k EXCEPT ![Len(k)] = Append(@, c)]
             It(g) == g = [T \in SUBSET (DOMAIN s) |->
                             IF T = {} THEN base ELSE TakenOf(g[T \ {Max(T)}], s[Max(T)])]
             g == CHOOSE h : It(h)
  <2>0. s \in Seq(Int)
    BY DEF Form
  <2>1. \A T \in SUBSET (DOMAIN s) : T # {} => s[Max(T)] \in Int /\ T \ {Max(T)} \in SUBSET (DOMAIN s)
    BY <2>0, IndexesOf
  <2>2. PICK h \in [SUBSET (DOMAIN s) -> V] : Runs(op, base, s, h)
    BY <1>1, <1>3, <2>0, RunsExist
  <2>7. ASSUME NEW T \in SUBSET (DOMAIN s), T # {}, NEW k \in V
        PROVE  op[<<k, s[Max(T)]>>] = TakenOf(k, s[Max(T)])
    <3>1. s[1] = Delimiter
      BY <2>0, <2>7 DEF Form
    <3>2. TakenOf(k, s[Max(T)]) = Taken(k, s[Max(T)])
      BY <3>1 DEF Taken
    <3> QED BY <1>2, <2>1, <2>7, <3>2
  <2> HIDE DEF TakenOf
  <2>3. It(h)
    BY <2>1, <2>2, <2>7 DEF Runs
  <2>4. It(g)
    BY <2>3
  <2>5. deserialize(s) = g[DOMAIN s]
    BY DEF deserialize, FoldLeft, MapThenFoldSet, TakenOf, base
  <2> HIDE DEF g
  <2>6. Steps(op, base, V, s, g)
    BY <2>1, <2>4, <2>7 DEF Steps
  <2>8. g[DOMAIN s] = Run(op, base, s)
    BY <1>1, <1>3, <2>0, <2>6, RunIs
  <2> QED BY <2>5, <2>8
<1>5. deserialize(<<>>) = <<>>
  <2>1. Run(op, base, <<>>) = base
    BY <1>1, <1>3, RunEmpty
  <2>2. <<>> \in Form
    BY DEF Form
  <2> QED BY <1>4, <2>1, <2>2 DEF base
<1>6. \A s \in Form : deserialize(s) \in V
  BY <1>1, <1>3, <1>4, RunIsIn DEF Form
<1>7. ASSUME NEW s \in Form, NEW c \in Int, Append(s, c) \in Form
      PROVE  deserialize(Append(s, c)) = Taken(deserialize(s), c)
  <2>1. Run(op, base, Append(s, c)) = op[<<Run(op, base, s), c>>]
    BY <1>1, <1>3, RunAppend DEF Form
  <2> QED BY <1>2, <1>4, <1>6, <1>7, <2>1
<1> QED BY <1>5, <1>6, <1>7 DEF Taken, V

(* No delimiter is left of a value.                                          *)
LEMMA NoDelimiters ==
    ASSUME NEW value \in Seq(Int)
    PROVE  WithoutDelimiters(value) \in Seq(Int \ {Delimiter})
<1>1. Only(value, Int \ {Delimiter}) \in Seq(Int \cap (Int \ {Delimiter}))
  BY OnlyIsIn
<1>2. Int \cap (Int \ {Delimiter}) = Int \ {Delimiter}
  OBVIOUS
<1> QED BY <1>1, <1>2 DEF WithoutDelimiters

(* The last element replaced is the last one added.                          *)
LEMMA LastReplaced ==
    ASSUME NEW S, NEW D \in Seq(S), NEW a \in S, NEW b \in S
    PROVE  /\ [Append(D, a) EXCEPT ![Len(Append(D, a))] = b] = Append(D, b)
           /\ Append(D, a)[Len(Append(D, a))] = a
<1> DEFINE A == Append(D, a)
           B == Append(D, b)
           X == [A EXCEPT ![Len(A)] = b]
<1>1. /\ A \in Seq(S) /\ Len(A) = Len(D) + 1 /\ A[Len(D) + 1] = a /\ \A i \in 1..Len(D) : A[i] = D[i]
      /\ B \in Seq(S) /\ Len(B) = Len(D) + 1 /\ B[Len(D) + 1] = b /\ \A i \in 1..Len(D) : B[i] = D[i]
      /\ Len(D) \in Nat
  OBVIOUS
<1> HIDE DEF A, B
<1>2. Len(A) \in 1..Len(A)
  BY <1>1
<1>3. X \in Seq(S) /\ Len(X) = Len(A) /\ \A j \in 1..Len(A) : X[j] = IF j = Len(A) THEN b ELSE A[j]
  BY <1>1, <1>2, ExceptSeq
<1> HIDE DEF X
<1>4. \A i \in 1..Len(X) : X[i] = B[i]
  BY <1>1, <1>3
<1>5. X = B
  BY <1>1, <1>3, <1>4, SeqEqual
<1> QED BY <1>1, <1>5 DEF A, B, X

(* Data stay data when they grow, from a delimiter on.                       *)
LEMMA FormGrows ==
    ASSUME NEW t \in Form, NEW c \in Int, t = <<>> => c = Delimiter
    PROVE  Append(t, c) \in Form
<1>1. t \in Seq(Int)
  BY DEF Form
<1>2. Append(t, c) \in Seq(Int) /\ Append(t, c)[1] = IF t = <<>> THEN c ELSE t[1]
  BY <1>1
<1> QED BY <1>2 DEF Form

(* A caret is a field of its own.                                            *)
LEMMA CaretIsField ==
    ASSUME NEW t \in Form
    PROVE  /\ serialize_caret(t) \in Form
           /\ deserialize(serialize_caret(t)) = Append(deserialize(t), <<Caret>>)
<1> DEFINE u == Append(t, Delimiter)
<1>1. Delimiter \in Int /\ Caret \in Int /\ Delimiter # Caret /\ t \in Seq(Int)
  BY DEF Delimiter, Caret, Form
<1>2. u \in Form /\ u # <<>>
  BY <1>1, FormGrows
<1>3. deserialize(u) = Append(deserialize(t), <<>>)
  BY <1>1, <1>2, DeserializeSteps
<1> HIDE DEF u
<1>4. Append(u, Caret) \in Form
  BY <1>1, <1>2, FormGrows
<1>5. deserialize(Append(u, Caret)) =
        [deserialize(u) EXCEPT ![Len(deserialize(u))] = Append(@, Caret)]
  BY <1>1, <1>2, <1>4, DeserializeSteps
<1>6. deserialize(t) \in Seq(Seq(Int))
  BY DeserializeSteps
<1>7. [deserialize(u) EXCEPT ![Len(deserialize(u))] = Append(@, Caret)]
        = Append(deserialize(t), <<Caret>>)
  <2> DEFINE D == deserialize(t)
  <2> HIDE DEF D
  <2>1. deserialize(u) = Append(D, <<>>) /\ D \in Seq(Seq(Int))
    BY <1>3, <1>6 DEF D
  <2>2. <<>> \in Seq(Int) /\ <<Caret>> \in Seq(Int) /\ Append(<<>>, Caret) = <<Caret>>
    BY <1>1
  <2> DEFINE e == <<>>
             f == <<Caret>>
  <2> HIDE DEF e, f
  <2>3. e \in Seq(Int) /\ f \in Seq(Int) /\ Append(e, Caret) = f
    BY <2>2 DEF e, f
  <2>4. /\ [Append(D, e) EXCEPT ![Len(Append(D, e))] = f] = Append(D, f)
        /\ Append(D, e)[Len(Append(D, e))] = e
    BY <2>1, <2>3, LastReplaced
  <2> QED BY <2>1, <2>3, <2>4 DEF D, e, f
<1>8. serialize_caret(t) = Append(u, Caret)
  BY <1>1 DEF serialize_caret, u
<1> QED BY <1>4, <1>5, <1>7, <1>8

(* What a field is made of.                                                  *)
Letters == Int \ {Delimiter}

(* A field that is added is the last one that is read.                       *)
LEMMA FieldIsRead ==
    ASSUME NEW t \in Form, NEW key \in Letters, NEW v \in Seq(Letters)
    PROVE  /\ t \o <<Delimiter, key>> \o v \in Form
           /\ deserialize(t \o <<Delimiter, key>> \o v) = Append(deserialize(t), <<key>> \o v)
<1> DEFINE D == deserialize(t)
           u == Append(Append(t, Delimiter), key)
           Good == {w \in Seq(Letters) : u \o w \in Form /\ deserialize(u \o w) = Append(D, <<key>> \o w)}
<1>1. /\ Delimiter \in Int /\ key \in Int /\ key # Delimiter /\ t \in Seq(Int)
      /\ D \in Seq(Seq(Int)) /\ <<key>> \in Seq(Int)
  BY DeserializeSteps DEF Letters, Delimiter, Form
<1> DEFINE a == Append(t, Delimiter)
           e == <<>>
           f == <<key>>
<1>2. a \in Form /\ a # <<>>
  BY <1>1, FormGrows
<1>3. deserialize(a) = Append(D, e)
  BY <1>1, <1>2, DeserializeSteps
<1>4. u \in Form
  BY <1>1, <1>2, FormGrows
<1>5. deserialize(u) = [deserialize(a) EXCEPT ![Len(deserialize(a))] = Append(@, key)]
  <2> HIDE DEF a
  <2>1. Append(a, key) \in Form
    BY <1>4 DEF a
  <2>2. deserialize(Append(a, key)) = [deserialize(a) EXCEPT ![Len(deserialize(a))] = Append(@, key)]
    BY <1>1, <1>2, <2>1, DeserializeSteps
  <2> QED BY <2>2 DEF a
<1>6. deserialize(u) = Append(D, f)
  <2>1. e \in Seq(Int) /\ f \in Seq(Int) /\ Append(e, key) = f
    BY <1>1
  <2> HIDE DEF D, e, f, a, u
  <2>2. /\ [Append(D, e) EXCEPT ![Len(Append(D, e))] = f] = Append(D, f)
        /\ Append(D, e)[Len(Append(D, e))] = e
    BY <1>1, <2>1, LastReplaced
  <2> QED BY <1>1, <1>3, <1>5, <2>1, <2>2
<1>7. <<>> \in Good
  <2>1. u \in Seq(Int) /\ f \in Seq(Int)
    BY <1>1
  <2> HIDE DEF u, f
  <2>2. u \o <<>> = u /\ f \o <<>> = f
    BY <2>1, ConcatEmptySeq
  <2> QED BY <1>4, <1>6, <2>2 DEF f
<1>8. ASSUME NEW w \in Seq(Letters), NEW c \in Letters, w \in Good PROVE Append(w, c) \in Good
  <2>1. /\ u \in Seq(Int) /\ f \in Seq(Int) /\ w \in Seq(Int) /\ c \in Int /\ c # Delimiter
        /\ Append(w, c) \in Seq(Letters) /\ Append(w, c) \in Seq(Int)
    <3>1. w \in Seq(Int)
      BY SeqMonotonic DEF Letters
    <3> QED BY <1>1, <3>1 DEF Letters
  <2> DEFINE x == u \o w
             g == f \o w
  <2>2. x \in Form /\ deserialize(x) = Append(D, g) /\ x # <<>>
    <3>1. x \in Form /\ deserialize(x) = Append(D, g)
      <4> HIDE DEF D, u
      <4> QED BY <1>8
    <3>2. Len(u) > 0
      <4>1. a \in Seq(Int)
        BY <1>1
      <4> HIDE DEF a
      <4> QED BY <1>1, <4>1
    <3> HIDE DEF u, D, g, f
    <3>3. Len(x) = Len(u) + Len(w) /\ Len(w) \in Nat /\ Len(u) \in Nat
      BY <2>1, ConcatProperties, LenProperties
    <3> HIDE DEF x
    <3>4. x # <<>>
      BY <3>2, <3>3
    <3> QED BY <3>1, <3>4 DEF x
  <2>3. g \in Seq(Int) /\ Append(g, c) \in Seq(Int) /\ f \o Append(w, c) = Append(g, c)
        /\ u \o Append(w, c) = Append(x, c) /\ x \in Seq(Int)
    <3> HIDE DEF u, f
    <3>1. g \in Seq(Int) /\ x \in Seq(Int)
      BY <2>1, ConcatProperties
    <3>2. f \o Append(w, c) = Append(g, c) /\ u \o Append(w, c) = Append(x, c)
      <4>1. \A s \in Seq(Int) : s \o Append(w, c) = Append(s \o w, c)
        <5>1. w \in Seq(Int) /\ c \in Int
          BY <2>1
        <5> QED BY <5>1, ConcatAppend
      <4> QED BY <2>1, <4>1
    <3>3. Append(g, c) \in Seq(Int)
      BY <2>1, <3>1, AppendProperties
    <3> QED BY <3>1, <3>2, <3>3
  <2> HIDE DEF x, g, D, u, f
  <2>4. Append(x, c) \in Form
    BY <2>1, <2>2, FormGrows
  <2>5. deserialize(Append(x, c)) = [deserialize(x) EXCEPT ![Len(deserialize(x))] = Append(@, c)]
    BY <2>1, <2>2, <2>4, DeserializeSteps
  <2>6. /\ [Append(D, g) EXCEPT ![Len(Append(D, g))] = Append(g, c)] = Append(D, Append(g, c))
        /\ Append(D, g)[Len(Append(D, g))] = g
    <3> DEFINE h == Append(g, c)
    <3>1. h \in Seq(Int)
      BY <2>3
    <3> HIDE DEF h
    <3>2. /\ [Append(D, g) EXCEPT ![Len(Append(D, g))] = h] = Append(D, h)
          /\ Append(D, g)[Len(Append(D, g))] = g
      <4>1. \A E \in Seq(Seq(Int)), p, q \in Seq(Int) :
              /\ [Append(E, p) EXCEPT ![Len(Append(E, p))] = q] = Append(E, q)
              /\ Append(E, p)[Len(Append(E, p))] = p
        BY LastReplaced
      <4>2. D \in Seq(Seq(Int)) /\ g \in Seq(Int)
        BY <1>1, <2>3
      <4> QED BY <3>1, <4>1, <4>2
    <3> QED BY <3>2 DEF h
  <2>7. deserialize(Append(x, c)) = Append(D, Append(g, c))
    BY <2>2, <2>5, <2>6
  <2>8. u \o Append(w, c) \in Form /\ deserialize(u \o Append(w, c)) = Append(D, f \o Append(w, c))
    BY <2>3, <2>4, <2>7
  <2> QED BY <2>1, <2>8 DEF f
<1>9. Seq(Letters) \subseteq Good
  <2> HIDE DEF Good
  <2> QED BY <1>7, <1>8, AppendInduction
<1>10. t \o <<Delimiter, key>> \o v = u \o v
  <2>1. t \o <<Delimiter, key>> = u
    BY <1>1
  <2> HIDE DEF u
  <2> QED BY <2>1
<1> QED BY <1>9, <1>10

(* A field joins those there are, when anything is left of its value.        *)
LEMMA ArrayIsField ==
    ASSUME NEW t \in Form, NEW key \in Letters, NEW value \in Seq(Int)
    PROVE  LET v == WithoutDelimiters(value)
           IN  /\ serialize_array(t, key, value) \in Form
               /\ v = <<>> => serialize_array(t, key, value) = t
               /\ v # <<>> => deserialize(serialize_array(t, key, value)) = Append(deserialize(t), <<key>> \o v)
<1> DEFINE v == WithoutDelimiters(value)
<1>1. v \in Seq(Letters)
  BY NoDelimiters DEF Letters
<1> HIDE DEF v
<1>2. /\ t \o <<Delimiter, key>> \o v \in Form
      /\ deserialize(t \o <<Delimiter, key>> \o v) = Append(deserialize(t), <<key>> \o v)
  BY <1>1, FieldIsRead
<1>3. serialize_array(t, key, value) = IF v = <<>> THEN t ELSE t \o <<Delimiter, key>> \o v
  BY DEF serialize_array, v
<1> HIDE DEF serialize_array
<1> QED BY <1>2, <1>3 DEF v

-----------------------------------------------------------------------------
(* Entries.                                                                  *)
Blank(keys)   == [k \in keys |-> <<>>]
Records(keys) == [keys -> Seq(Int)]
EntryLists(keys) == Seq(Records(keys)) \ {<<>>}

(* A datum of the last entry set, and what is made of a field.               *)
Filled(entries, key, v) == [entries EXCEPT ![Len(entries)][key] = v]

Collected(entries, field, keys) ==
    IF field = <<Caret>> THEN Append(entries, Blank(keys))
    ELSE IF field # <<>> /\ Head(field) \in keys THEN Filled(entries, Head(field), Tail(field))
    ELSE entries

(* The last entry has the datum, the others are as they were.                *)
LEMMA FilledIs ==
    ASSUME NEW keys, NEW E \in EntryLists(keys), NEW key \in keys, NEW v \in Seq(Int)
    PROVE  /\ Filled(E, key, v) \in EntryLists(keys) /\ Len(Filled(E, key, v)) = Len(E)
           /\ \A i \in DOMAIN E : Filled(E, key, v)[i] =
                IF i = Len(E) THEN [E[i] EXCEPT ![key] = v] ELSE E[i]
<1> DEFINE R == Records(keys)
           last == [E[Len(E)] EXCEPT ![key] = v]
           X == [E EXCEPT ![Len(E)] = last]
<1>1. E \in Seq(R) /\ E # <<>>
  BY DEF EntryLists
<1>2. Len(E) \in 1..Len(E) /\ E[Len(E)] \in R /\ DOMAIN E = 1..Len(E)
  <2> HIDE DEF R
  <2> QED BY <1>1
<1>3. last \in R
  BY <1>2 DEF Records
<1>4. Filled(E, key, v) = X
  BY DEF Filled
<1> HIDE DEF R, last
<1>5. X \in Seq(R) /\ Len(X) = Len(E) /\ \A j \in 1..Len(E) : X[j] = IF j = Len(E) THEN last ELSE E[j]
  BY <1>1, <1>2, <1>3, ExceptSeq
<1> HIDE DEF X
<1>6. X # <<>>
  BY <1>1, <1>5
<1> QED BY <1>2, <1>4, <1>5, <1>6 DEF EntryLists, R, last

(* There is an entry at least, whatever is read.                             *)
LEMMA CollectedIs ==
    ASSUME NEW keys, NEW E \in EntryLists(keys), NEW field \in Seq(Int)
    PROVE  Collected(E, field, keys) \in EntryLists(keys)
<1>1. Append(E, Blank(keys)) \in EntryLists(keys)
  <2> DEFINE b == Blank(keys)
             R == Records(keys)
  <2>1. b \in R /\ E \in Seq(R)
    BY DEF Blank, Records, EntryLists
  <2> HIDE DEF b, R
  <2>2. Append(E, b) \in Seq(R) /\ Append(E, b) # <<>>
    BY <2>1
  <2> QED BY <2>2 DEF b, R, EntryLists
<1>2. field # <<>> /\ Head(field) \in keys => Filled(E, Head(field), Tail(field)) \in EntryLists(keys)
  <2> SUFFICES ASSUME field # <<>>, Head(field) \in keys
               PROVE  Filled(E, Head(field), Tail(field)) \in EntryLists(keys)
    OBVIOUS
  <2>1. Tail(field) \in Seq(Int)
    OBVIOUS
  <2> QED BY <2>1, FilledIs
<1> QED BY <1>1, <1>2 DEF Collected

(* What is read, one field after another.                                    *)
EntriesLaws(keys) ==
    /\ Entries(<<>>, keys) = <<Blank(keys)>>
    /\ \A t \in Form : Entries(t, keys) \in EntryLists(keys)
    /\ \A t \in Form, u \in Form, f \in Seq(Int) :
         deserialize(u) = Append(deserialize(t), f)
           => Entries(u, keys) = Collected(Entries(t, keys), f, keys)

(* Entries is a fold from the left of the fields.                            *)
LEMMA EntriesSteps ==
    ASSUME NEW keys
    PROVE  EntriesLaws(keys)
<1> DEFINE V == EntryLists(keys)
           S == Seq(Int)
           Taken(k, c) == Collected(k, c, keys)
           op == [p \in V \X S |-> Taken(p[1], p[2])]
           base == <<Blank(keys)>>
<1>1. base \in V /\ \A k \in V, c \in S : Taken(k, c) \in V
  <2>1. \A k \in V, c \in S : Taken(k, c) \in V
    BY CollectedIs
  <2>2. base \in V
    BY DEF Blank, EntryLists, Records
  <2> QED BY <2>1, <2>2
<1> HIDE DEF Taken, V, S
<1>2. \A k \in V, c \in S : op[<<k, c>>] = Taken(k, c)
  OBVIOUS
<1>3. IsStep(op, V, S)
  BY <1>1 DEF IsStep
<1> HIDE DEF op, base
<1>4. ASSUME NEW data_ \in Form PROVE Entries(data_, keys) = Run(op, base, deserialize(data_))
  <2> DEFINE s == deserialize(data_)
             It(g) == g = [T \in SUBSET (DOMAIN s) |->
                             IF T = {} THEN base ELSE Taken(g[T \ {Max(T)}], s[Max(T)])]
             g == CHOOSE h : It(h)
  <2>5. Entries(data_, keys) = g[DOMAIN s]
    BY DEF Entries, FoldLeft, MapThenFoldSet, Taken, Collected, Filled, Blank, base
  <2> HIDE DEF s
  <2>0. s \in Seq(S)
    BY DeserializeSteps DEF S, s
  <2>1. \A T \in SUBSET (DOMAIN s) : T # {} => s[Max(T)] \in S /\ T \ {Max(T)} \in SUBSET (DOMAIN s)
    BY <2>0, IndexesOf
  <2>2. PICK h \in [SUBSET (DOMAIN s) -> V] : Runs(op, base, s, h)
    BY <1>1, <1>3, <2>0, RunsExist
  <2>3. It(h)
    BY <1>2, <2>1, <2>2 DEF Runs
  <2>4. It(g)
    BY <2>3
  <2> HIDE DEF g
  <2>6. Steps(op, base, V, s, g)
    BY <1>2, <2>1, <2>4 DEF Steps
  <2>7. g[DOMAIN s] = Run(op, base, s)
    BY <1>1, <1>3, <2>0, <2>6, RunIs
  <2> QED BY <2>5, <2>7 DEF s
<1>5. Entries(<<>>, keys) = <<Blank(keys)>>
  <2>1. Run(op, base, <<>>) = base
    BY <1>1, <1>3, RunEmpty
  <2>2. <<>> \in Form /\ deserialize(<<>>) = <<>>
    BY DeserializeSteps DEF Form
  <2> QED BY <1>4, <2>1, <2>2 DEF base
<1>6. ASSUME NEW t \in Form PROVE Entries(t, keys) \in V
  <2>1. deserialize(t) \in Seq(S)
    BY DeserializeSteps DEF S
  <2> QED BY <1>1, <1>3, <1>4, <2>1, RunIsIn
<1>7. ASSUME NEW t \in Form, NEW u \in Form, NEW f \in S, deserialize(u) = Append(deserialize(t), f)
      PROVE  Entries(u, keys) = Taken(Entries(t, keys), f)
  <2>1. deserialize(t) \in Seq(S)
    BY DeserializeSteps DEF S
  <2>2. Run(op, base, Append(deserialize(t), f)) = op[<<Run(op, base, deserialize(t)), f>>]
    BY <1>1, <1>3, <2>1, RunAppend
  <2> QED BY <1>2, <1>4, <1>6, <1>7, <2>2
<1> QED BY <1>5, <1>6, <1>7 DEF Taken, V, S, EntriesLaws

(* Names of fields, which are no carets, and fields with their values.       *)
Names == Letters \ {Caret}
Field == Names \X Seq(Int)

(* A caret begins an entry without data.                                     *)
LEMMA CaretReads ==
    ASSUME NEW keys, NEW t \in Form
    PROVE  /\ serialize_caret(t) \in Form
           /\ Entries(t, keys) \in EntryLists(keys)
           /\ Entries(serialize_caret(t), keys) = Append(Entries(t, keys), Blank(keys))
<1> DEFINE f == <<Caret>>
<1>1. EntriesLaws(keys)
  BY EntriesSteps
<1>2. f \in Seq(Int)
  BY DEF Caret
<1>3. serialize_caret(t) \in Form /\ deserialize(serialize_caret(t)) = Append(deserialize(t), f)
  BY CaretIsField
<1>4. Collected(Entries(t, keys), f, keys) = Append(Entries(t, keys), Blank(keys))
  BY DEF Collected
<1> HIDE DEF f
<1>5. Entries(serialize_caret(t), keys) = Collected(Entries(t, keys), f, keys)
  BY <1>1, <1>2, <1>3 DEF EntriesLaws
<1> QED BY <1>1, <1>3, <1>4, <1>5 DEF EntriesLaws

(* A field sets a datum of the last entry, if anything is left of its value. *)
LEMMA ArrayReads ==
    ASSUME NEW keys, NEW t \in Form, NEW key \in Names, NEW value \in Seq(Int)
    PROVE  LET v == WithoutDelimiters(value)
               u == serialize_array(t, key, value)
           IN  /\ u \in Form
               /\ Entries(u, keys) = IF v # <<>> /\ key \in keys THEN Filled(Entries(t, keys), key, v)
                                     ELSE Entries(t, keys)
<1> DEFINE v == WithoutDelimiters(value)
           u == serialize_array(t, key, value)
           f == <<key>> \o v
<1>0. v \in Seq(Letters) /\ key \in Letters /\ key # Caret /\ key \in Int
  BY NoDelimiters DEF Letters, Names
<1>1. EntriesLaws(keys)
  BY EntriesSteps
<1>2. u \in Form /\ (v = <<>> => u = t) /\ (v # <<>> => deserialize(u) = Append(deserialize(t), f))
  BY <1>0, ArrayIsField
<1>3. v \in Seq(Int)
  BY <1>0, SeqMonotonic DEF Letters
<1> HIDE DEF u, v
<1>4. /\ f \in Seq(Int) /\ f # <<>> /\ Head(f) = key
      /\ Tail(f) = v
  <2>1. Len(f) = 1 + Len(v) /\ f \in Seq(Int) /\ f[1] = key /\ \A i \in 1..Len(v) : f[i + 1] = v[i]
    BY <1>0, <1>3
  <2> HIDE DEF f
  <2>2. Len(v) \in Nat
    BY <1>3
  <2>3. f # <<>> /\ Tail(f) \in Seq(Int) /\ Len(Tail(f)) = Len(v) /\ \A i \in 1..Len(v) : Tail(f)[i] = v[i]
    BY <2>1, <2>2, HeadTailProperties
  <2>4. Tail(f) = v
    BY <1>3, <2>2, <2>3, SeqEqual
  <2> QED BY <2>1, <2>3, <2>4
<1>5. f # <<Caret>>
  <2>1. Head(<<Caret>>) = Caret
    OBVIOUS
  <2> HIDE DEF f
  <2> QED BY <1>0, <1>4, <2>1
<1>6. Collected(Entries(t, keys), f, keys) = IF key \in keys THEN Filled(Entries(t, keys), key, v) ELSE Entries(t, keys)
  <2> HIDE DEF f
  <2> QED BY <1>4, <1>5 DEF Collected
<1> HIDE DEF f
<1>7. v # <<>> => Entries(u, keys) = Collected(Entries(t, keys), f, keys)
  BY <1>1, <1>2, <1>4 DEF EntriesLaws
<1> QED BY <1>2, <1>6, <1>7 DEF u, v

(* Fields are added one after another to data of that form.                  *)
LEMMA FieldsAppend ==
    ASSUME NEW target \in Form
    PROVE  /\ serialize_fields(target, <<>>) = target
           /\ \A s \in Seq(Field) : serialize_fields(target, s) \in Form
           /\ \A s \in Seq(Field), f \in Field :
                serialize_fields(target, Append(s, f)) = serialize_array(serialize_fields(target, s), f[1], f[2])
<1>1. \A t \in Form, f \in Field : serialize_array(t, f[1], f[2]) \in Form
  <2> SUFFICES ASSUME NEW t \in Form, NEW f \in Field PROVE serialize_array(t, f[1], f[2]) \in Form
    OBVIOUS
  <2>1. f[1] \in Names /\ f[2] \in Seq(Int)
    BY DEF Field
  <2> QED BY <2>1, ArrayReads
<1> HIDE DEF Form, Field
<1> QED BY <1>1, FieldsSteps

(* The fields of a key that there is something of.                           *)
Given(fields, k) == {i \in DOMAIN fields : fields[i][1] = k /\ WithoutDelimiters(fields[i][2]) # <<>>}

(* What is read of the last entry, F, of what was E, when fields are added:  *)
(* a key without any of them is as it was, one with a single one has that.   *)
Reads(E, F, fields, keys) ==
    /\ F \in EntryLists(keys) /\ Len(F) = Len(E) /\ \A i \in 1..Len(E) : i # Len(E) => F[i] = E[i]
    /\ \A k \in keys : Given(fields, k) = {} => F[Len(E)][k] = E[Len(E)][k]
    /\ \A k \in keys, i \in DOMAIN fields : Given(fields, k) = {i} => F[Len(E)][k] = WithoutDelimiters(fields[i][2])
    /\ \A k \in keys : F[Len(E)][k] = <<>> => Given(fields, k) = {} 

(* What is given by one field more.                                          *)
LEMMA GivenMore ==
    ASSUME NEW fields \in Seq(Field), NEW f \in Field, NEW k
    PROVE  LET more == Append(fields, f)
               n == Len(fields) + 1
               v == WithoutDelimiters(f[2])
           IN  /\ Given(more, k) = IF v # <<>> /\ f[1] = k THEN Given(fields, k) \cup {n} ELSE Given(fields, k)
               /\ n \notin Given(fields, k)
               /\ n \in DOMAIN more /\ more[n] = f
               /\ \A i \in DOMAIN fields : i \in DOMAIN more /\ more[i] = fields[i]
<1> DEFINE more == Append(fields, f)
           n == Len(fields) + 1
<1>1. /\ DOMAIN fields = 1..Len(fields) /\ DOMAIN more = 1..n /\ more[n] = f /\ Len(fields) \in Nat
      /\ \A i \in 1..Len(fields) : more[i] = fields[i]
  BY DEF Field
<1> HIDE DEF more
<1>2. \A i : i \in DOMAIN more <=> (i \in DOMAIN fields \/ i = n)
  BY <1>1
<1>3. n \notin DOMAIN fields
  BY <1>1
<1> HIDE DEF n
<1> QED BY <1>1, <1>2, <1>3 DEF Given, more, n

(* Fields that are added are read of the last entry.                         *)
LEMMA FieldsRead ==
    ASSUME NEW keys, NEW t \in Form, NEW fields \in Seq(Field)
    PROVE  /\ serialize_fields(t, fields) \in Form
           /\ Reads(Entries(t, keys), Entries(serialize_fields(t, fields), keys), fields, keys)
<1> DEFINE E == Entries(t, keys)
           G(s) == Entries(serialize_fields(t, s), keys)
           Good == {s \in Seq(Field) : Reads(E, G(s), s, keys)}
<1>0. E \in EntryLists(keys)
  BY CaretReads
<1>1. <<>> \in Good
  <2>1. <<>> \in Seq(Field) /\ G(<<>>) = E
    BY FieldsAppend
  <2>2. \A k : Given(<<>>, k) = {}
    BY DEF Given
  <2>3. DOMAIN (<<>>) = {}
    OBVIOUS
  <2> HIDE DEF E, G
  <2>4. Reads(E, G(<<>>), <<>>, keys)
    BY <1>0, <2>1, <2>2, <2>3 DEF Reads
  <2> QED BY <2>1, <2>4 DEF G
<1>2. ASSUME NEW s \in Seq(Field), NEW f \in Field, s \in Good PROVE Append(s, f) \in Good
  <2> DEFINE F == G(s)
             H == G(Append(s, f))
             v == WithoutDelimiters(f[2])
             n == Len(E)
  <2>1. Reads(E, F, s, keys) /\ F \in EntryLists(keys)
    BY <1>2 DEF Reads
  <2>2. H = IF v # <<>> /\ f[1] \in keys THEN Filled(F, f[1], v) ELSE F
    <3>1. /\ serialize_fields(t, s) \in Form
          /\ serialize_fields(t, Append(s, f)) = serialize_array(serialize_fields(t, s), f[1], f[2])
      BY FieldsAppend
    <3>2. f[1] \in Names /\ f[2] \in Seq(Int)
      BY DEF Field
    <3> QED BY <3>1, <3>2, ArrayReads
  <2>3. v \in Seq(Int) /\ n \in DOMAIN F /\ Len(F) = n /\ DOMAIN F = 1..n
    <3>1. v \in Seq(Letters)
      BY NoDelimiters DEF Letters, Field
    <3>2. v \in Seq(Int)
      BY <3>1, SeqMonotonic DEF Letters
    <3> HIDE DEF v, E, F
    <3> QED BY <1>0, <2>1, <3>2 DEF EntryLists, Reads
  <2> HIDE DEF F, H, E, v, n, G
  <2>4. CASE v # <<>> /\ f[1] \in keys
    <3>1. /\ H \in EntryLists(keys) /\ Len(H) = n
          /\ \A i \in 1..n : H[i] = IF i = n THEN [F[i] EXCEPT ![f[1]] = v] ELSE F[i]
      BY <2>1, <2>2, <2>3, <2>4, FilledIs
    <3>2. F[n] \in Records(keys)
      BY <2>1, <2>3 DEF EntryLists
    <3>3. \A k \in keys : H[n][k] = IF k = f[1] THEN v ELSE F[n][k]
      BY <2>3, <3>1, <3>2 DEF Records
    <3>4. Reads(E, H, Append(s, f), keys)
      <4>1. \A i \in 1..n : i # n => H[i] = E[i]
        BY <2>1, <3>1 DEF Reads, n
      <4>2. ASSUME NEW k \in keys, Given(Append(s, f), k) = {} PROVE H[n][k] = E[n][k]
        <5>1. k # f[1] /\ Given(s, k) = {}
          BY <2>4, <4>2, GivenMore DEF v
        <5> QED BY <2>1, <3>3, <5>1 DEF Reads, n
      <4>3. ASSUME NEW k \in keys, NEW i \in DOMAIN Append(s, f), Given(Append(s, f), k) = {i}
            PROVE  H[n][k] = WithoutDelimiters(Append(s, f)[i][2])
        <5>1. CASE k = f[1]
          <6>1. i = Len(s) + 1 /\ Append(s, f)[i] = f
            BY <2>4, <4>3, <5>1, GivenMore DEF v
          <6> QED BY <3>3, <5>1, <6>1 DEF v
        <5>2. CASE k # f[1]
          <6>1. Given(s, k) = {i} /\ i \in DOMAIN s /\ Append(s, f)[i] = s[i]
            <7>1. Given(s, k) = {i}
              BY <4>3, <5>2, GivenMore
            <7>2. i \in DOMAIN s
              BY <7>1 DEF Given
            <7> QED BY <7>1, <7>2, GivenMore
          <6> QED BY <2>1, <3>3, <5>2, <6>1 DEF Reads, n
        <5> QED BY <5>1, <5>2
      <4>4. ASSUME NEW k \in keys, H[n][k] = <<>> PROVE Given(Append(s, f), k) = {}
        <5>1. k # f[1] /\ F[n][k] = <<>>
          BY <2>4, <3>3, <4>4
        <5>2. Given(s, k) = {}
          BY <2>1, <5>1 DEF Reads, n
        <5> QED BY <5>1, <5>2, GivenMore
      <4> QED BY <3>1, <4>1, <4>2, <4>3, <4>4 DEF Reads, n
    <3> QED BY <3>4 DEF G, H
  <2>5. CASE ~(v # <<>> /\ f[1] \in keys)
    <3>1. H = F /\ \A k \in keys : Given(Append(s, f), k) = Given(s, k)
      BY <2>2, <2>5, GivenMore DEF v
    <3>2. ASSUME NEW k \in keys, NEW i \in DOMAIN Append(s, f), Given(Append(s, f), k) = {i}
          PROVE  F[n][k] = WithoutDelimiters(Append(s, f)[i][2])
      <4>1. Given(s, k) = {i}
        BY <3>1, <3>2
      <4>2. i \in DOMAIN s
        BY <4>1 DEF Given
      <4>3. Append(s, f)[i] = s[i]
        BY <4>2, GivenMore
      <4> QED BY <2>1, <4>1, <4>2, <4>3 DEF Reads, n
    <3>3. Reads(E, H, Append(s, f), keys)
      BY <2>1, <3>1, <3>2 DEF Reads, n
    <3> QED BY <3>3 DEF G, H
  <2> QED BY <2>4, <2>5
<1>3. Seq(Field) \subseteq Good
  <2> HIDE DEF Good
  <2> QED BY <1>1, <1>2, AppendInduction
<1> QED BY <1>3, FieldsAppend

-----------------------------------------------------------------------------
(* Readers.                                                                  *)
PersonKeys == {Key.type, Key.name, Key.email, Key.url}
LinkKeys   == {Key.url, Key.type, Key.size, Key.duration}

(* Whoever is shown among the entries is among the persons that are read.    *)
LEMMA PersonsShown ==
    ASSUME NEW t \in Form, NEW i \in DOMAIN Entries(t, PersonKeys), IsShown(Entries(t, PersonKeys)[i])
    PROVE  \E p \in DOMAIN deserialize_persons(t) : deserialize_persons(t)[p] = Entries(t, PersonKeys)[i]
<1> DEFINE S == Records(PersonKeys)
           V == Seq(S)
           Shown(k, c) == IF IsShown(c) THEN Append(k, c) ELSE k
           op == [p \in V \X S |-> Shown(p[1], p[2])]
           base == <<>>
           E == Entries(t, PersonKeys)
<1>0. E \in Seq(S)
  BY CaretReads DEF EntryLists
<1> HIDE DEF S
<1>1. base \in V /\ \A k \in V, c \in S : Shown(k, c) \in V
  OBVIOUS
<1> HIDE DEF Shown
<1>2. \A k \in V, c \in S : op[<<k, c>>] = Shown(k, c)
  <2> HIDE DEF V
  <2> QED OBVIOUS
<1>3. IsStep(op, V, S)
  <2> HIDE DEF V
  <2> QED BY <1>1 DEF IsStep
<1> HIDE DEF op, base, V
<1>4. deserialize_persons(t) = Run(op, base, E)
  <2> DEFINE It(g) == g = [T \in SUBSET (DOMAIN E) |->
                             IF T = {} THEN base ELSE Shown(g[T \ {Max(T)}], E[Max(T)])]
             g == CHOOSE h : It(h)
  <2>5. deserialize_persons(t) = g[DOMAIN E]
    BY DEF deserialize_persons, FoldLeft, MapThenFoldSet, Shown, base, PersonKeys
  <2> HIDE DEF E
  <2>1. \A T \in SUBSET (DOMAIN E) : T # {} => E[Max(T)] \in S /\ T \ {Max(T)} \in SUBSET (DOMAIN E)
    BY <1>0, IndexesOf
  <2>2. PICK h \in [SUBSET (DOMAIN E) -> V] : Runs(op, base, E, h)
    BY <1>0, <1>1, <1>3, RunsExist
  <2>3. It(h)
    BY <1>2, <2>1, <2>2 DEF Runs
  <2>4. It(g)
    BY <2>3
  <2> HIDE DEF g
  <2>6. Steps(op, base, V, E, g)
    BY <1>2, <2>1, <2>4 DEF Steps
  <2>7. g[DOMAIN E] = Run(op, base, E)
    BY <1>0, <1>1, <1>3, <2>6, RunIs
  <2> QED BY <2>5, <2>7
<1> DEFINE IsIn(c, s) == \E p \in DOMAIN s : s[p] = c
           Good == {s \in Seq(S) : \A j \in DOMAIN s : IsShown(s[j]) => IsIn(s[j], Run(op, base, s))}
<1>5. <<>> \in Good
  OBVIOUS
<1>6. ASSUME NEW s \in Seq(S), NEW c \in S, s \in Good PROVE Append(s, c) \in Good
  <2> DEFINE r == Run(op, base, s)
             q == Run(op, base, Append(s, c))
  <2>1. r \in Seq(S) /\ q = IF IsShown(c) THEN Append(r, c) ELSE r
    <3>1. r \in V
      BY <1>1, <1>3, RunIsIn
    <3>2. q = op[<<r, c>>]
      BY <1>1, <1>3, RunAppend
    <3> HIDE DEF r, q
    <3> QED BY <1>2, <3>1, <3>2 DEF Shown, V
  <2>2. \A j \in DOMAIN s : IsShown(s[j]) => IsIn(s[j], r)
    BY <1>6
  <2> HIDE DEF r, q, Good
  <2>3. \A x : IsIn(x, r) => IsIn(x, q)
    BY <2>1
  <2>4. IsShown(c) => IsIn(c, q)
    BY <2>1
  <2> DEFINE a == Append(s, c)
  <2>5. a \in Seq(S) /\ \A j \in DOMAIN a : (j \in DOMAIN s /\ a[j] = s[j]) \/ a[j] = c
    OBVIOUS
  <2> HIDE DEF IsIn, a
  <2>6. \A j \in DOMAIN a : IsShown(a[j]) => IsIn(a[j], q)
    BY <2>2, <2>3, <2>4, <2>5
  <2> QED BY <2>5, <2>6 DEF Good, a, q
<1>7. Seq(S) \subseteq Good
  <2> HIDE DEF Good
  <2> QED BY <1>5, <1>6, AppendInduction
<1>8. IsIn(E[i], Run(op, base, E))
  <2> HIDE DEF E, IsIn
  <2> QED BY <1>0, <1>7 DEF E
<1> QED BY <1>4, <1>8

(* The URL of every entry is among the links.                                *)
LEMMA LinksListed ==
    ASSUME NEW t \in Form, NEW i \in DOMAIN Entries(t, LinkKeys), Entries(t, LinkKeys)[i][Key.url] # <<>>
    PROVE  Entries(t, LinkKeys)[i][Key.url] \in ToSet(add_item_attachments_to_links_list(<<>>, t))
<1> DEFINE S == Records(LinkKeys)
           V == Seq(Seq(Int))
           url == Key.url
           Listed(k, c) == IF c[url] = <<>> \/ \E j \in DOMAIN k : k[j] = c[url] THEN k
                           ELSE Append(k, c[url])
           op == [p \in V \X S |-> Listed(p[1], p[2])]
           base == <<>>
           E == Entries(t, LinkKeys)
<1>0. E \in Seq(S) /\ \A c \in S : c[url] \in Seq(Int)
  BY CaretReads DEF EntryLists, Records, LinkKeys
<1> HIDE DEF S
<1>1. base \in V /\ \A k \in V, c \in S : Listed(k, c) \in V
  <2>1. ASSUME NEW k \in V, NEW c \in S PROVE Append(k, c[url]) \in V
    BY <1>0
  <2> QED BY <2>1
<1> HIDE DEF Listed
<1>2. \A k \in V, c \in S : op[<<k, c>>] = Listed(k, c)
  <2> HIDE DEF V
  <2> QED OBVIOUS
<1>3. IsStep(op, V, S)
  <2> HIDE DEF V
  <2> QED BY <1>1 DEF IsStep
<1> HIDE DEF op, base, V
<1>4. add_item_attachments_to_links_list(<<>>, t) = Run(op, base, E)
  <2> DEFINE It(g) == g = [T \in SUBSET (DOMAIN E) |->
                             IF T = {} THEN base ELSE Listed(g[T \ {Max(T)}], E[Max(T)])]
             g == CHOOSE h : It(h)
  <2>5. add_item_attachments_to_links_list(<<>>, t) = g[DOMAIN E]
    BY DEF add_item_attachments_to_links_list, FoldLeft, MapThenFoldSet, Listed, base, LinkKeys
  <2> HIDE DEF E
  <2>1. \A T \in SUBSET (DOMAIN E) : T # {} => E[Max(T)] \in S /\ T \ {Max(T)} \in SUBSET (DOMAIN E)
    BY <1>0, IndexesOf
  <2>2. PICK h \in [SUBSET (DOMAIN E) -> V] : Runs(op, base, E, h)
    BY <1>0, <1>1, <1>3, RunsExist
  <2>3. It(h)
    BY <1>2, <2>1, <2>2 DEF Runs
  <2>4. It(g)
    BY <2>3
  <2> HIDE DEF g
  <2>6. Steps(op, base, V, E, g)
    BY <1>2, <2>1, <2>4 DEF Steps
  <2>7. g[DOMAIN E] = Run(op, base, E)
    BY <1>0, <1>1, <1>3, <2>6, RunIs
  <2> QED BY <2>5, <2>7
<1> DEFINE IsIn(c, s) == \E p \in DOMAIN s : s[p] = c
           Good == {s \in Seq(S) : \A j \in DOMAIN s : s[j][url] # <<>> => IsIn(s[j][url], Run(op, base, s))}
<1>5. <<>> \in Good
  OBVIOUS
<1>6. ASSUME NEW s \in Seq(S), NEW c \in S, s \in Good PROVE Append(s, c) \in Good
  <2> DEFINE r == Run(op, base, s)
             q == Run(op, base, Append(s, c))
             u == c[url]
  <2>1. r \in Seq(Seq(Int)) /\ q = IF u = <<>> \/ IsIn(u, r) THEN r ELSE Append(r, u)
    <3>1. r \in V
      BY <1>1, <1>3, RunIsIn
    <3>2. q = op[<<r, c>>]
      BY <1>1, <1>3, RunAppend
    <3> HIDE DEF r, q
    <3> QED BY <1>2, <3>1, <3>2 DEF Listed, V
  <2>2. \A j \in DOMAIN s : s[j][url] # <<>> => IsIn(s[j][url], r)
    BY <1>6
  <2>7. u \in Seq(Int)
    BY <1>0
  <2> HIDE DEF r, q, Good, url, u
  <2>3. \A x : IsIn(x, r) => IsIn(x, q)
    <3>1. \A x : IsIn(x, r) => IsIn(x, Append(r, u))
      <4> DEFINE A == Append(r, u)
      <4>1. r \in Seq(Seq(Int))
        BY <2>1
      <4>2. \A p \in DOMAIN r : p \in DOMAIN A /\ A[p] = r[p]
        BY <2>7, <4>1
      <4> HIDE DEF A
      <4> QED BY <4>2 DEF A
    <3> HIDE DEF IsIn
    <3> QED BY <2>1, <3>1
  <2>4. u # <<>> => IsIn(u, q)
    BY <2>1, <2>7
  <2> DEFINE a == Append(s, c)
  <2>5. a \in Seq(S) /\ \A j \in DOMAIN a : (j \in DOMAIN s /\ a[j] = s[j]) \/ a[j] = c
    OBVIOUS
  <2> HIDE DEF IsIn, a
  <2>6. \A j \in DOMAIN a : a[j][url] # <<>> => IsIn(a[j][url], q)
    BY <2>2, <2>3, <2>4, <2>5 DEF u
  <2> QED BY <2>5, <2>6 DEF Good, a, q
<1>7. Seq(S) \subseteq Good
  <2> HIDE DEF Good
  <2> QED BY <1>5, <1>6, AppendInduction
<1>8. IsIn(E[i][url], Run(op, base, E))
  <2> HIDE DEF E, IsIn
  <2> QED BY <1>0, <1>7 DEF E
<1>9. IsIn(E[i][url], add_item_attachments_to_links_list(<<>>, t))
  BY <1>4, <1>8
<1> QED BY <1>9 DEF ToSet

(* What is written as an entry is read back: the new entry is the last one,   *)
(* holds the value of each field without the delimiters that were in it, and  *)
(* nothing of fields that were not given; entries before it stay as they are. *)
(* Of any data and values, whatever tokens they are made of                   *)
(* (string-serialize.c:19-112).                                               *)
THEOREM EntryIsReadBack ==
    ASSUME NEW keys, NEW t \in Form, NEW fields \in Seq(Field)
    PROVE  LET u   == serialize_fields(serialize_caret(t), fields)
               old == Entries(t, keys)
               all == Entries(u, keys)
           IN  /\ u \in Form /\ Len(all) = Len(old) + 1
               /\ \A i \in DOMAIN old : all[i] = old[i]
               /\ \A k \in keys, i \in DOMAIN fields :
                    Given(fields, k) = {i} => all[Len(all)][k] = WithoutDelimiters(fields[i][2])
               /\ \A k \in keys : Given(fields, k) = {} => all[Len(all)][k] = <<>>
<1>1. PICK c : c = serialize_caret(t)
  OBVIOUS
<1>2. PICK old : old = Entries(t, keys)
  OBVIOUS
<1>3. PICK mid : mid = Entries(c, keys)
  OBVIOUS
<1>4. PICK u : u = serialize_fields(c, fields)
  OBVIOUS
<1>5. PICK all : all = Entries(u, keys)
  OBVIOUS
<1>6. c \in Form /\ old \in EntryLists(keys) /\ mid = Append(old, Blank(keys))
  BY <1>1, <1>2, <1>3, CaretReads
<1>7. u \in Form /\ Reads(mid, all, fields, keys)
  BY <1>3, <1>4, <1>5, <1>6, FieldsRead
<1>8. /\ Len(mid) = Len(old) + 1 /\ Len(old) \in Nat /\ DOMAIN old = 1..Len(old)
      /\ \A i \in 1..Len(old) : mid[i] = old[i]
      /\ mid[Len(old) + 1] = Blank(keys)
  <2> DEFINE R == Records(keys)
  <2>1. old \in Seq(R) /\ Blank(keys) \in R
    <3>1. <<>> \in Seq(Int)
      OBVIOUS
    <3> QED BY <1>6, <3>1 DEF EntryLists, Records, Blank
  <2> HIDE DEF R
  <2> QED BY <1>6, <2>1
<1>9. Len(all) = Len(old) + 1 /\ \A i \in DOMAIN old : all[i] = old[i]
  BY <1>7, <1>8 DEF Reads
<1>10. \A k \in keys : mid[Len(mid)][k] = <<>>
  BY <1>8 DEF Blank
<1>11. \A k \in keys : Given(fields, k) = {} => all[Len(all)][k] = <<>>
  BY <1>7, <1>8, <1>9, <1>10 DEF Reads
<1>12. \A k \in keys, i \in DOMAIN fields :
         Given(fields, k) = {i} => all[Len(all)][k] = WithoutDelimiters(fields[i][2])
  BY <1>7, <1>8, <1>9 DEF Reads
<1> QED BY <1>1, <1>2, <1>4, <1>5, <1>7, <1>9, <1>11, <1>12

-----------------------------------------------------------------------------
(* The handlers.                                                              *)

(* Tokens that are no text.                                                  *)
Marks == {i \in Int : i <= 0}

IsTokens(S) == Marks \subseteq S /\ S \subseteq Int

FeedRow(S) ==
    [title : Seq(S), link : Seq(S), content : Seq(S), attachments : Seq(S), persons : Seq(S),
     extras : Seq(S), time_to_live : Nat]

ItemRow(S) ==
    [guid : Seq(S), guid_is_link : BOOLEAN, title : Seq(S), link : Seq(S), content : Seq(S),
     attachments : Seq(S), persons : Seq(S), extras : Seq(S), publication_date : Seq(S),
     update_date : Seq(S)]

Positions == {"XML_UNKNOWN_POS", "GENERIC_ITEM", "GENERIC_FEED", "ATOM_AUTHOR", "MEDIARSS_CONTENT"}

Data ==
    [feed : FeedRow(Int), items : Seq(ItemRow(Int)), in_item : BOOLEAN, text : Seq(Int),
     path : [0..PathSize - 1 -> Positions], depth : 0..PathSize - 1, decoy : BOOLEAN,
     item_index : Int, author_index : Int, attachment_index : Int]

(* The feed is made of F, the newest item of C.                               *)
Holds(d, F, C) ==
    /\ d \in Data /\ d.feed \in FeedRow(F)
    /\ d.items # <<>> => d.items[1] \in ItemRow(C)

(* What handlers leave as it is.                                              *)
Same(d, e) ==
    /\ e.path = d.path /\ e.depth = d.depth /\ e.text = d.text
    /\ e.in_item = d.in_item /\ e.decoy = d.decoy /\ e.item_index = d.item_index
    /\ Len(e.items) = Len(d.items) /\ \A k \in 2..Len(d.items) : e.items[k] = d.items[k]

(* The values of which each is text of one element.                           *)
Singles == {"title", "guid", "publication_date", "update_date"}

SameSingles(d, e) ==
    /\ e.feed.title = d.feed.title
    /\ \A f \in Singles : e.items[1][f] = d.items[1][f]

Lists  == {"content", "attachments", "persons", "extras"}
Values == Lists \cup {"title", "link"}
Dates  == {"guid", "publication_date", "update_date"}
-----------------------------------------------------------------------------
(* Serialized values are made of what they are made from.                    *)

LEMMA KeysAreMarks ==
    /\ Key.type \in Marks /\ Key.text \in Marks /\ Key.category \in Marks /\ Key.name \in Marks
    /\ Key.email \in Marks /\ Key.url \in Marks /\ Key.size \in Marks /\ Key.title \in Marks
    /\ Key.content \in Marks /\ Key.duration \in Marks /\ Key.coordinates \in Marks
    /\ Key.description_type \in Marks /\ Key.description_text \in Marks
BY DEF Key, Marks

LEMMA WordsAreMarks ==
    /\ Word.author \in Marks /\ Word.contributor \in Marks /\ Word.editor \in Marks
    /\ Word.html \in Marks /\ Word.xhtml \in Marks /\ Word.plain \in Marks /\ Word.self \in Marks
    /\ Word.alternate \in Marks /\ Word.enclosure \in Marks /\ Word.comments \in Marks
    /\ Word.source \in Marks /\ Word.true \in Marks /\ Word.false \in Marks
BY DEF Word, Marks

LEMMA OthersAreMarks == Space \in Marks /\ Delimiter \in Marks /\ Caret \in Marks
BY DEF Space, Delimiter, Caret, Marks

LEMMA Stripped ==
    ASSUME NEW S, NEW value \in Seq(S)
    PROVE  WithoutDelimiters(value) \in Seq(S)
<1>1. OnlyLaws(S, Int \ {Delimiter})
  BY OnlySteps
<1> QED BY <1>1 DEF OnlyLaws, WithoutDelimiters

LEMMA Serializes ==
    ASSUME NEW S, Marks \subseteq S, NEW target \in Seq(S), NEW key \in S, NEW value \in Seq(S)
    PROVE  serialize_array(target, key, value) \in Seq(S) /\ serialize_caret(target) \in Seq(S)
<1> DEFINE kept == WithoutDelimiters(value)
<1>1. kept \in Seq(S)
  BY Stripped
<1>2. Delimiter \in S /\ Caret \in S
  BY OthersAreMarks
<1> HIDE DEF kept
<1>3. <<Delimiter, key>> \in Seq(S) /\ <<Delimiter, Caret>> \in Seq(S)
  BY <1>2
<1>4. target \o <<Delimiter, key>> \in Seq(S) /\ target \o <<Delimiter, Caret>> \in Seq(S)
  BY <1>3, ConcatProperties
<1>5. target \o <<Delimiter, key>> \o kept \in Seq(S)
  BY <1>1, <1>4, ConcatProperties
<1> QED BY <1>4, <1>5 DEF serialize_array, serialize_caret, kept

LEMMA FieldsSerialize ==
    ASSUME NEW S, Marks \subseteq S, NEW target \in Seq(S), NEW fields \in Seq(S \X Seq(S))
    PROVE  serialize_fields(target, fields) \in Seq(S)
<1>1. \A t \in Seq(S), f \in S \X Seq(S) : serialize_array(t, f[1], f[2]) \in Seq(S)
  BY Serializes
<1> DEFINE V == Seq(S)
           P == S \X V
<1> HIDE DEF V, P
<1>2. \A s \in Seq(P) : serialize_fields(target, s) \in V
  <2>1. target \in V /\ \A t \in V, f \in P : serialize_array(t, f[1], f[2]) \in V
    BY <1>1 DEF V, P
  <2> QED BY <2>1, FieldsSteps
<1> QED BY <1>2 DEF V, P

LEMMA Trims ==
    ASSUME NEW S, NEW text \in Seq(S)
    PROVE  trim_whitespace(text) \in Seq(S)
<1> DEFINE solid == {i \in DOMAIN text : text[i] # Space}
           first == CHOOSE i \in solid : \A j \in solid : i <= j
           last == CHOOSE i \in solid : \A j \in solid : j <= i
<1>1. CASE solid = {}
  BY <1>1 DEF trim_whitespace
<1>2. CASE solid # {}
  <2>1. solid \subseteq 1..Len(text) /\ Len(text) \in Nat
    OBVIOUS
  <2>2. \E i \in solid : \A j \in solid : i <= j
    <3> HIDE DEF solid
    <3>1. solid \subseteq Nat
      BY <2>1
    <3> QED BY <1>2, <3>1, LeastNumber
  <2>3. \E i \in solid : \A j \in solid : j <= i
    <3> HIDE DEF solid
    <3>1. solid \subseteq Nat /\ \A i \in solid : i <= Len(text)
      BY <2>1
    <3> QED BY <1>2, <2>1, <3>1, LargestNumber
  <2>4. first \in solid /\ last \in solid
    <3> HIDE DEF solid
    <3> QED BY <2>2, <2>3
  <2> HIDE DEF first, last
  <2>5. first \in 1..Len(text) /\ last \in 1..Len(text)
    <3> HIDE DEF solid
    <3> QED BY <2>1, <2>4
  <2>6. \A i \in first..last : text[i] \in S
    BY <2>5
  <2>7. SubSeq(text, first, last) \in Seq(S)
    BY <2>5, <2>6, SubSeqProperties
  <2> QED BY <1>2, <2>7 DEF trim_whitespace, first, last
<1> QED BY <1>1, <1>2
-----------------------------------------------------------------------------

(* Neither delimiters nor white space are visible.                           *)
LEMMA VisibleStripped ==
    ASSUME NEW s \in Seq(Int)
    PROVE  Visible(WithoutDelimiters(s)) = Visible(s)
<1>1. Nat \ {0} \subseteq Int \ {Delimiter}
  BY DEF Delimiter
<1> QED BY <1>1, OnlyOnly DEF Visible, WithoutDelimiters

LEMMA VisibleTrimmed ==
    ASSUME NEW text \in Seq(Int)
    PROVE  Visible(trim_whitespace(text)) = Visible(text)
<1> DEFINE solid == {i \in DOMAIN text : text[i] # Space}
           first == CHOOSE i \in solid : \A j \in solid : i <= j
           last == CHOOSE i \in solid : \A j \in solid : j <= i
           n == Len(text)
           P == Nat \ {0}
<1>0. n \in Nat /\ DOMAIN text = 1..n /\ Space \notin P /\ \A i \in 1..n : text[i] \in Int
  BY DEF Space
<1>1. CASE solid = {}
  <2>1. text \in Seq({Space})
    BY <1>0, <1>1
  <2>2. Only(text, P) = <<>>
    BY <1>0, <2>1, OnlyNothing
  <2>3. Only(<<>>, P) = <<>>
    BY OnlyEmpty
  <2> QED BY <1>1, <2>2, <2>3 DEF trim_whitespace, Visible
<1>2. CASE solid # {}
  <2>1. solid \subseteq 1..n /\ solid \subseteq Nat
    BY <1>0
  <2>2. \E i \in solid : \A j \in solid : i <= j
    <3> HIDE DEF solid
    <3> QED BY <1>2, <2>1, LeastNumber
  <2>3. \E i \in solid : \A j \in solid : j <= i
    <3> HIDE DEF solid
    <3>1. \A i \in solid : i <= n
      BY <1>0, <2>1
    <3> QED BY <1>0, <1>2, <2>1, <3>1, LargestNumber
  <2>4. first \in solid /\ last \in solid /\ \A j \in solid : first <= j /\ j <= last
    <3> HIDE DEF solid
    <3> QED BY <2>2, <2>3
  <2> HIDE DEF first, last
  <2>5. first \in 1..n /\ last \in 1..n /\ first <= last
    <3> HIDE DEF solid
    <3> QED BY <2>1, <2>4
  <2> DEFINE a == SubSeq(text, 1, first - 1)
             b == SubSeq(text, first, last)
             c == SubSeq(text, last + 1, n)
  <2>6. \A i \in 1..first - 1 : text[i] = Space
    <3>1. \A i \in 1..n : i < first => i \notin solid
      <4> HIDE DEF solid
      <4> QED BY <1>0, <2>4, <2>5
    <3> QED BY <1>0, <2>5, <3>1
  <2>7. \A i \in last + 1..n : text[i] = Space
    <3>1. \A i \in 1..n : i > last => i \notin solid
      <4> HIDE DEF solid
      <4> QED BY <1>0, <2>4, <2>5
    <3> QED BY <1>0, <2>5, <3>1
  <2> HIDE DEF solid
  <2>8. a \in Seq({Space}) /\ c \in Seq({Space}) /\ b \in Seq(Int)
    <3>1. a \in Seq({Space})
      BY <1>0, <2>5, <2>6, SubSeqProperties
    <3>2. c \in Seq({Space})
      BY <1>0, <2>5, <2>7, SubSeqProperties
    <3>3. \A i \in first..last : text[i] \in Int
      BY <1>0, <2>5
    <3>4. b \in Seq(Int)
      BY <1>0, <2>5, <3>3, SubSeqProperties
    <3> QED BY <3>1, <3>2, <3>4
  <2>9. text = (a \o b) \o c
    <3>1. a \o b = SubSeq(text, 1, last)
      <4>1. /\ 1 \in 1..Len(text) + 1 /\ first - 1 \in 1 - 1..Len(text) /\ last \in first - 1..Len(text)
            /\ first = (first - 1) + 1
        BY <1>0, <2>5
      <4>2. SubSeq(text, 1, first - 1) \o SubSeq(text, (first - 1) + 1, last) = SubSeq(text, 1, last)
        BY <4>1, ConcatAdjacentSubSeq
      <4> QED BY <4>1, <4>2
    <3>2. SubSeq(text, 1, last) \o c = SubSeq(text, 1, n)
      <4>1. /\ 1 \in 1..Len(text) + 1 /\ last \in 1 - 1..Len(text) /\ n \in last..Len(text)
        BY <1>0, <2>5
      <4> QED BY <4>1, ConcatAdjacentSubSeq
    <3>3. SubSeq(text, 1, n) = text
      BY SubSeqFull
    <3> HIDE DEF a, b, c, n
    <3> QED BY <3>1, <3>2, <3>3
  <2>10. a \in Seq(Int) /\ c \in Seq(Int)
    BY <2>8, SeqMonotonic DEF Space
  <2>11. Only(a, P) = <<>> /\ Only(c, P) = <<>>
    <3> HIDE DEF a, c, P
    <3>1. {Space} \cap P = {}
      BY <1>0
    <3> QED BY <2>8, <3>1, OnlyNothing
  <2>12. trim_whitespace(text) = b
    BY <1>2 DEF trim_whitespace, first, last, solid
  <2> HIDE DEF a, b, c, P
  <2>13. Only(text, P) = (Only(a, P) \o Only(b, P)) \o Only(c, P)
    <3>1. a \o b \in Seq(Int)
      BY <2>8, <2>10, ConcatProperties
    <3>2. Only((a \o b) \o c, P) = Only(a \o b, P) \o Only(c, P)
      BY <2>10, <3>1, OnlyConcat
    <3>3. Only(a \o b, P) = Only(a, P) \o Only(b, P)
      BY <2>8, <2>10, OnlyConcat
    <3> QED BY <2>9, <3>2, <3>3
  <2>14. Only(b, P) \in Seq(Int)
    <3>1. OnlyLaws(Int, P)
      BY OnlySteps
    <3> QED BY <2>8, <3>1 DEF OnlyLaws
  <2>15. Only(text, P) = Only(b, P)
    <3> DEFINE k == Only(b, P)
    <3> HIDE DEF k
    <3>1. <<>> \o k = k /\ k \o <<>> = k
      BY <2>14, ConcatEmptySeq DEF k
    <3> QED BY <2>11, <2>13, <3>1 DEF k
  <2> QED BY <2>12, <2>15 DEF Visible, P
<1> QED BY <1>1, <1>2

(* Writing to a field.                                                       *)

(* Of what may be written to, the tokens.                                    *)
Into(where, F, C) == IF where = "item" THEN C ELSE F

LEMMA RowsGrow ==
    ASSUME NEW S, NEW T, S \subseteq T
    PROVE  FeedRow(S) \subseteq FeedRow(T) /\ ItemRow(S) \subseteq ItemRow(T) /\ Seq(S) \subseteq Seq(T)
<1>1. Seq(S) \subseteq Seq(T)
  BY SeqMonotonic
<1> QED BY <1>1 DEF FeedRow, ItemRow

LEMMA SameIsReflexive == ASSUME NEW d, d.items \in Seq(ItemRow(Int)) PROVE Same(d, d)
BY DEF Same

LEMMA SameIsTransitive ==
    ASSUME NEW a, NEW b, NEW c, Same(a, b), Same(b, c)
    PROVE  Same(a, c)
BY DEF Same

LEMMA SinglesAreTransitive ==
    ASSUME NEW a, NEW b, NEW c, SameSingles(a, b), SameSingles(b, c)
    PROVE  SameSingles(a, c)
BY DEF SameSingles

LEMMA SinglesAreReflexive == \A d : SameSingles(d, d)
BY DEF SameSingles

LEMMA SinglesAreOf ==
    ASSUME NEW d, NEW e, e.feed = d.feed, e.items = d.items
    PROVE  SameSingles(d, e)
BY DEF SameSingles

(* A change of the feed.                                                     *)
LEMMA FeedChanged ==
    ASSUME NEW F, NEW C, IsTokens(F), NEW d, Holds(d, F, C), NEW r \in FeedRow(F)
    PROVE  LET e == [d EXCEPT !.feed = r]
           IN  Holds(e, F, C) /\ Same(d, e) /\ e.feed = r /\ e.items = d.items
<1> DEFINE e == [d EXCEPT !.feed = r]
<1>1. r \in FeedRow(Int)
  BY RowsGrow DEF IsTokens
<1>2. e \in Data /\ e.items = d.items /\ e.feed = r /\ d.items \in Seq(ItemRow(Int))
  BY <1>1 DEF Holds, Data
<1>3. /\ e.path = d.path /\ e.depth = d.depth /\ e.text = d.text
      /\ e.in_item = d.in_item /\ e.decoy = d.decoy /\ e.item_index = d.item_index
  BY DEF Holds, Data
<1> HIDE DEF e
<1>4. Holds(e, F, C) /\ Same(d, e)
  BY <1>2, <1>3 DEF Holds, Same
<1> QED BY <1>2, <1>4 DEF e

(* A change of the newest item.                                              *)
LEMMA ItemChanged ==
    ASSUME NEW F, NEW C, IsTokens(C), NEW d, Holds(d, F, C), d.items # <<>>, NEW r \in ItemRow(C)
    PROVE  LET e == [d EXCEPT !.items = [@ EXCEPT ![1] = r]]
           IN  Holds(e, F, C) /\ Same(d, e) /\ e.feed = d.feed /\ e.items[1] = r
<1> DEFINE e == [d EXCEPT !.items = [@ EXCEPT ![1] = r]]
           items == [d.items EXCEPT ![1] = r]
           I == ItemRow(Int)
<1>1. r \in I
  BY RowsGrow DEF IsTokens
<1>2. d.items \in Seq(I) /\ d.items # <<>>
  BY DEF Holds, Data
<1> HIDE DEF I
<1>3. /\ items \in Seq(I) /\ Len(items) = Len(d.items) /\ items # <<>> /\ items[1] = r
      /\ \A k \in 2..Len(d.items) : items[k] = d.items[k]
  BY <1>1, <1>2
<1> HIDE DEF items
<1>4. e = [d EXCEPT !.items = items]
  BY DEF items
<1>5. e \in Data /\ e.items = items /\ e.feed = d.feed
  BY <1>3, <1>4 DEF Holds, Data, I
<1>6. /\ e.path = d.path /\ e.depth = d.depth /\ e.text = d.text
      /\ e.in_item = d.in_item /\ e.decoy = d.decoy /\ e.item_index = d.item_index
  BY DEF Holds, Data
<1> HIDE DEF e
<1>7. Holds(e, F, C) /\ Same(d, e)
  BY <1>3, <1>5, <1>6 DEF Holds, Same
<1> QED BY <1>3, <1>5, <1>7 DEF e

(* What writing a value to a field changes of the single values.             *)
Written(d, where, f, v, e) ==
    /\ f \notin Singles \/ where = "none" => SameSingles(d, e)
    /\ f \in Singles /\ where = "item" =>
         e.feed = d.feed /\ \A g \in Singles : e.items[1][g] = IF g = f THEN v ELSE d.items[1][g]
    /\ f \in Singles /\ where = "feed" =>
         (f = "title" => e.feed.title = v) /\ e.items = d.items

LEMMA PutHolds ==
    ASSUME NEW F, NEW C, IsTokens(F), IsTokens(C), NEW d, Holds(d, F, C),
           NEW where \in {"item", "feed", "none"}, where = "item" => d.items # <<>>,
           NEW f, f \in Values \/ (f \in Dates /\ where = "item"),
           NEW v \in Seq(Into(where, F, C))
    PROVE  LET e == Put(d, where, f, v)
           IN  Holds(e, F, C) /\ Same(d, e) /\ Written(d, where, f, v, e)
<1> DEFINE e == Put(d, where, f, v)
<1>0. d \in Data /\ d.items \in Seq(ItemRow(Int))
  BY DEF Holds, Data
<1>1. CASE where = "feed"
  <2> DEFINE r == [d.feed EXCEPT ![f] = v]
  <2>1. v \in Seq(F) /\ f \in Values
    BY <1>1 DEF Into
  <2>2. r \in FeedRow(F)
    BY <2>1 DEF Holds, FeedRow, Values, Lists
  <2>3. e = [d EXCEPT !.feed = r]
    BY <1>1 DEF Put
  <2>4. r.title = IF f = "title" THEN v ELSE d.feed.title
    BY <2>1 DEF Holds, FeedRow, Values, Lists
  <2> HIDE DEF e, r
  <2>5. Holds(e, F, C) /\ Same(d, e) /\ e.feed = r /\ e.items = d.items
    BY <2>2, <2>3, FeedChanged
  <2>6. Written(d, where, f, v, e)
    BY <1>1, <2>4, <2>5 DEF Written, SameSingles, Singles
  <2> QED BY <2>5, <2>6 DEF e
<1>2. CASE where = "item"
  <2> DEFINE r == [d.items[1] EXCEPT ![f] = v]
  <2>1. v \in Seq(C) /\ f \in Values \cup Dates
    BY <1>2 DEF Into
  <2>2. r \in ItemRow(C)
    BY <1>2, <2>1 DEF Holds, ItemRow, Values, Lists, Dates
  <2>3. e = [d EXCEPT !.items = [@ EXCEPT ![1] = r]]
    BY <1>2 DEF Put
  <2>4. \A g \in Singles : r[g] = IF g = f THEN v ELSE d.items[1][g]
    BY <1>2, <2>1 DEF Holds, ItemRow, Singles
  <2> HIDE DEF e, r
  <2>5. Holds(e, F, C) /\ Same(d, e) /\ e.feed = d.feed /\ e.items[1] = r
    BY <1>2, <2>2, <2>3, ItemChanged
  <2>6. Written(d, where, f, v, e)
    BY <1>2, <2>4, <2>5 DEF Written, SameSingles
  <2> QED BY <2>5, <2>6 DEF e
<1>3. CASE where = "none"
  <2>1. e = d
    BY <1>3 DEF Put
  <2> HIDE DEF e
  <2>2. Holds(e, F, C) /\ Same(d, e)
    BY <1>0, <2>1, SameIsReflexive
  <2>3. Written(d, where, f, v, e)
    BY <1>3, <2>1, SinglesAreReflexive DEF Written
  <2> QED BY <2>2, <2>3 DEF e
<1> QED BY <1>1, <1>2, <1>3

LEMMA GetHolds ==
    ASSUME NEW F, NEW C, NEW d, Holds(d, F, C),
           NEW where \in {"item", "feed"}, where = "item" => d.items # <<>>, NEW f \in Values
    PROVE  Get(d, where, f) \in Seq(Into(where, F, C))
<1>1. CASE where = "item"
  <2>1. d.items[1] \in ItemRow(C)
    BY <1>1 DEF Holds
  <2> QED BY <1>1, <2>1 DEF Get, Into, ItemRow, Values, Lists
<1>2. CASE where = "feed"
  <2>1. d.feed \in FeedRow(F)
    BY <1>1 DEF Holds
  <2> QED BY <1>2, <2>1 DEF Get, Into, FeedRow, Values, Lists
<1> QED BY <1>1, <1>2

LEMMA MoreHolds ==
    ASSUME NEW F, NEW C, IsTokens(F), IsTokens(C), NEW d, Holds(d, F, C),
           NEW where \in {"item", "feed", "none"}, where = "item" => d.items # <<>>,
           NEW f \in Lists, NEW T, where # "none" => T \subseteq Into(where, F, C),
           NEW fields \in Seq(T \X Seq(T))
    PROVE  /\ LET e == More(d, where, f, fields)
              IN  Holds(e, F, C) /\ Same(d, e) /\ SameSingles(d, e)
           /\ LET e == Entry(d, where, f, fields)
              IN  Holds(e, F, C) /\ Same(d, e) /\ SameSingles(d, e)
<1> DEFINE S == Into(where, F, C)
           m == More(d, where, f, fields)
           e == Entry(d, where, f, fields)
<1>0. d.items \in Seq(ItemRow(Int))
  BY DEF Holds, Data
<1>1. CASE where = "none"
  <2>1. m = d /\ e = d
    BY <1>1 DEF More, Entry
  <2> HIDE DEF m, e
  <2>2. Holds(m, F, C) /\ Same(d, m) /\ Holds(e, F, C) /\ Same(d, e)
    BY <1>0, <2>1, SameIsReflexive
  <2>3. SameSingles(d, m) /\ SameSingles(d, e)
    BY <2>1, SinglesAreReflexive
  <2> QED BY <2>2, <2>3 DEF m, e
<1>2. CASE where # "none"
  <2>1. Marks \subseteq S /\ f \in Values
    BY DEF Into, IsTokens, Values
  <2>2. T \X Seq(T) \subseteq S \X Seq(S)
    BY <1>2, RowsGrow
  <2> DEFINE old == Get(d, where, f)
             P == T \X Seq(T)
             Q == S \X Seq(S)
             added == serialize_fields(old, fields)
             entered == serialize_fields(serialize_caret(old), fields)
  <2>3. fields \in Seq(Q)
    <3>1. fields \in Seq(P) /\ P \subseteq Q
      BY <2>2
    <3> HIDE DEF P, Q
    <3> QED BY <3>1, SeqMonotonic
  <2>4. old \in Seq(S)
    BY <1>2, <2>1, GetHolds
  <2> HIDE DEF S, old, P
  <2>5. serialize_caret(old) \in Seq(S)
    <3>1. Delimiter \in S
      BY <2>1, OthersAreMarks
    <3> QED BY <2>1, <2>4, <3>1, Serializes
  <2>6. added \in Seq(S) /\ entered \in Seq(S)
    BY <2>1, <2>3, <2>4, <2>5, FieldsSerialize
  <2>7. m = Put(d, where, f, added) /\ e = Put(d, where, f, entered)
    BY <1>2 DEF More, Entry, old
  <2> HIDE DEF m, e, added, entered
  <2>8. Holds(m, F, C) /\ Same(d, m) /\ Written(d, where, f, added, m)
    BY <2>1, <2>6, <2>7, PutHolds DEF S
  <2>9. Holds(e, F, C) /\ Same(d, e) /\ Written(d, where, f, entered, e)
    BY <2>1, <2>6, <2>7, PutHolds DEF S
  <2>10. f \notin Singles
    BY DEF Lists, Singles
  <2>11. SameSingles(d, m) /\ SameSingles(d, e)
    BY <2>8, <2>9, <2>10 DEF Written
  <2> QED BY <2>8, <2>9, <2>11 DEF m, e
<1> QED BY <1>1, <1>2
-----------------------------------------------------------------------------
(* Handlers.  T is what texts and attributes are made of.                    *)

Targets(d, T, F, C) ==
    /\ Holds(d, F, C) /\ IsTokens(T) /\ IsTokens(F) /\ IsTokens(C)
    /\ d.in_item \/ At(d) = "item" => d.items # <<>> /\ T \subseteq C
    /\ ~d.in_item \/ At(d) = "feed" => T \subseteq F

LEMMA Targeting ==
    ASSUME NEW d, NEW T, NEW F, NEW C, Targets(d, T, F, C), NEW where \in {At(d), Within(d)}
    PROVE  /\ where \in {"item", "feed", "none"} /\ (where = "item" => d.items # <<>>)
           /\ where # "none" => T \subseteq Into(where, F, C)
BY DEF Targets, At, Within, Into

(* For whom nothing but Text has changed.                                    *)
LEMMA StillTargets ==
    ASSUME NEW d, NEW T, NEW F, NEW C, Targets(d, T, F, C), NEW e, Holds(e, F, C), Same(d, e)
    PROVE  Targets(e, T, F, C)
<1>1. At(e) = At(d) /\ e.in_item = d.in_item
  BY DEF At, Same
<1>2. d.items # <<>> => e.items # <<>>
  <2> DEFINE I == ItemRow(Int)
  <2>1. d.items \in Seq(I) /\ e.items \in Seq(I) /\ Len(e.items) = Len(d.items)
    BY DEF Targets, Holds, Data, Same
  <2> HIDE DEF I
  <2> QED BY <2>1
<1> QED BY <1>1, <1>2 DEF Targets

LEMMA FieldsAre ==
    ASSUME NEW P, NEW p \in P, NEW q \in P, NEW r \in P, NEW s \in P
    PROVE  /\ <<>> \in Seq(P) /\ <<p>> \in Seq(P) /\ <<p, q>> \in Seq(P) /\ <<p, q, r>> \in Seq(P)
           /\ <<p, q, r, s>> \in Seq(P)
OBVIOUS

(* Attributes are made of T, too.                                            *)
AttrsOf(attrs, T) == \A k \in DOMAIN attrs : attrs[k] \in Seq(T)

LEMMA AttrIs ==
    ASSUME NEW T, NEW attrs, AttrsOf(attrs, T), NEW key
    PROVE  Attr(attrs, key) \in Seq(T)
BY DEF AttrsOf, Attr

LEMMA EntryAt ==
    ASSUME NEW d, NEW T, NEW F, NEW C, Targets(d, T, F, C),
           NEW where \in {At(d), Within(d)}, NEW f \in Lists, NEW fields \in Seq(T \X Seq(T))
    PROVE  /\ LET e == Entry(d, where, f, fields)
              IN  Targets(e, T, F, C) /\ Same(d, e) /\ SameSingles(d, e)
           /\ LET e == More(d, where, f, fields)
              IN  Targets(e, T, F, C) /\ Same(d, e) /\ SameSingles(d, e)
<1> DEFINE e == Entry(d, where, f, fields)
           m == More(d, where, f, fields)
<1>1. /\ where \in {"item", "feed", "none"} /\ (where = "item" => d.items # <<>>)
      /\ where # "none" => T \subseteq Into(where, F, C)
  BY Targeting
<1>2. Holds(d, F, C) /\ IsTokens(F) /\ IsTokens(C)
  BY DEF Targets
<1>3. /\ Holds(e, F, C) /\ Same(d, e) /\ Holds(m, F, C) /\ Same(d, m)
      /\ SameSingles(d, e) /\ SameSingles(d, m)
  BY <1>1, <1>2, MoreHolds
<1> HIDE DEF e, m
<1>4. Targets(e, T, F, C) /\ Targets(m, T, F, C)
  BY <1>3, StillTargets
<1> QED BY <1>3, <1>4 DEF e, m

LEMMA PutAt ==
    ASSUME NEW d, NEW T, NEW F, NEW C, Targets(d, T, F, C), NEW where \in {At(d), Within(d)},
           NEW f, f \in Values \/ (f \in Dates /\ where = "item"), NEW v \in Seq(T)
    PROVE  LET e == Put(d, where, f, v)
           IN  Targets(e, T, F, C) /\ Same(d, e) /\ Written(d, where, f, v, e)
<1> DEFINE e == Put(d, where, f, v)
<1>0. Holds(d, F, C) /\ IsTokens(F) /\ IsTokens(C)
  BY DEF Targets
<1>1. /\ where \in {"item", "feed", "none"} /\ (where = "item" => d.items # <<>>)
      /\ where # "none" => T \subseteq Into(where, F, C)
  BY Targeting
<1>2. CASE where # "none"
  <2>1. v \in Seq(Into(where, F, C))
    BY <1>1, <1>2, SeqMonotonic
  <2>2. Holds(e, F, C) /\ Same(d, e) /\ Written(d, where, f, v, e)
    BY <1>0, <1>1, <2>1, PutHolds
  <2> HIDE DEF e
  <2>3. Targets(e, T, F, C)
    BY <2>2, StillTargets
  <2> QED BY <2>2, <2>3 DEF e
<1>3. CASE where = "none"
  <2>1. e = d
    BY <1>3 DEF Put
  <2>2. Same(d, d) /\ Written(d, where, f, v, d)
    BY <1>0, <1>3, SameIsReflexive, SinglesAreReflexive DEF Holds, Data, Written
  <2> QED BY <2>1, <2>2
<1> QED BY <1>2, <1>3

LEMMA LinkFallbackAt ==
    ASSUME NEW d, NEW T, NEW F, NEW C, Targets(d, T, F, C), "item" \in {At(d), Within(d)},
           NEW url \in Seq(T)
    PROVE  LET e == LinkFallback(d, url)
           IN  Targets(e, T, F, C) /\ Same(d, e) /\ SameSingles(d, e)
<1> DEFINE m == Put(d, "item", "link", url)
<1>1. Same(d, d) /\ SameSingles(d, d)
  BY SameIsReflexive, SinglesAreReflexive DEF Targets, Holds, Data
<1>2. Targets(m, T, F, C) /\ Same(d, m) /\ Written(d, "item", "link", url, m)
  BY PutAt DEF Values, Lists
<1>3. LinkFallback(d, url) = IF d.items[1].link = <<>> THEN m ELSE d
  BY DEF LinkFallback
<1> HIDE DEF m
<1>4. SameSingles(d, m)
  BY <1>2 DEF Written, Singles
<1> QED BY <1>1, <1>2, <1>3, <1>4

LEMMA EntryWithFallback ==
    ASSUME NEW d, NEW T, NEW F, NEW C, Targets(d, T, F, C),
           NEW where \in {At(d), Within(d)}, where = "item", NEW f \in Lists,
           NEW fields \in Seq(T \X Seq(T)), NEW url \in Seq(T)
    PROVE  LET e == LinkFallback(Entry(d, where, f, fields), url)
           IN  Targets(e, T, F, C) /\ Same(d, e) /\ SameSingles(d, e)
<1> DEFINE m == Entry(d, where, f, fields)
           e == LinkFallback(m, url)
<1>1. Targets(m, T, F, C) /\ Same(d, m) /\ SameSingles(d, m)
  BY EntryAt
<1> HIDE DEF m
<1>2. "item" \in {At(m), Within(m)}
  BY <1>1 DEF At, Within, Same
<1>3. Targets(e, T, F, C) /\ Same(m, e) /\ SameSingles(m, e)
  BY <1>1, <1>2, LinkFallbackAt
<1> HIDE DEF e
<1>4. Same(d, e) /\ SameSingles(d, e)
  BY <1>1, <1>3, SameIsTransitive, SinglesAreTransitive
<1> QED BY <1>3, <1>4 DEF e, m

(* Handlers of start tags.                                                   *)
Started(d, T, F, C, e) == Targets(e, T, F, C) /\ Same(d, e) /\ SameSingles(d, e)

LEMMA NothingStarted ==
    ASSUME NEW d, NEW T, NEW F, NEW C, Targets(d, T, F, C)
    PROVE  Started(d, T, F, C, d)
BY SameIsReflexive, SinglesAreReflexive DEF Started, Targets, Holds, Data

LEMMA GuidStart ==
    ASSUME NEW d, NEW T, NEW F, NEW C, Targets(d, T, F, C), NEW attrs
    PROVE  Started(d, T, F, C, rss_guid_start(d, attrs))
<1> DEFINE b == "isPermaLink" \notin DOMAIN attrs \/ attrs["isPermaLink"] = <<Word.true>>
           r == [d.items[1] EXCEPT !.guid_is_link = b]
           e == [d EXCEPT !.items = [@ EXCEPT ![1] = r]]
<1>1. CASE At(d) = "item"
  <2>1. rss_guid_start(d, attrs) = e
    BY <1>1 DEF rss_guid_start, Put
  <2>2. Holds(d, F, C) /\ IsTokens(C) /\ d.items # <<>>
    BY <1>1 DEF Targets
  <2>3. b \in BOOLEAN
    OBVIOUS
  <2> HIDE DEF b
  <2>4. r \in ItemRow(C) /\ \A f \in Singles : r[f] = d.items[1][f]
    BY <2>2, <2>3 DEF Holds, ItemRow, Singles
  <2> HIDE DEF r
  <2>5. Holds(e, F, C) /\ Same(d, e) /\ e.feed = d.feed /\ e.items[1] = r
    BY <2>2, <2>4, ItemChanged
  <2> HIDE DEF e
  <2>6. SameSingles(d, e)
    BY <2>4, <2>5 DEF SameSingles
  <2> QED BY <2>1, <2>5, <2>6, StillTargets DEF Started
<1>2. CASE At(d) # "item"
  BY <1>2, NothingStarted DEF rss_guid_start
<1> QED BY <1>1, <1>2

LEMMA AttachmentsStart ==
    ASSUME NEW d, NEW T, NEW F, NEW C, Targets(d, T, F, C), NEW attrs, AttrsOf(attrs, T)
    PROVE  /\ Started(d, T, F, C, rss_enclosure_start(d, attrs))
           /\ Started(d, T, F, C, rss_source_start(d, attrs))
           /\ Started(d, T, F, C, atom_link_start(d, attrs))
           /\ Started(d, T, F, C, mediarss_content_start(d, attrs))
           /\ Started(d, T, F, C, embed_or_player_start(d, attrs))
           /\ Started(d, T, F, C, peerlink_start(d, attrs))
<1> DEFINE P == T \X Seq(T)
<1>0. /\ Marks \subseteq T /\ "attachments" \in Lists /\ "link" \in Values
      /\ Started(d, T, F, C, d)
  BY NothingStarted DEF Targets, IsTokens, Lists, Values
<1>1. ASSUME NEW v \in Seq(T)
      PROVE  /\ <<Key.url, v>> \in P /\ <<Key.type, v>> \in P /\ <<Key.size, v>> \in P
             /\ <<Key.content, v>> \in P /\ <<Key.duration, v>> \in P
  BY <1>0, KeysAreMarks
<1>2. \A key : Attr(attrs, key) \in Seq(T)
  BY AttrIs
<1>3. \A key : Attr(attrs, key) # <<>> => attrs[key] = Attr(attrs, key)
  BY DEF Attr
<1>4. <<Word.source>> \in Seq(T)
  BY <1>0, WordsAreMarks
<1>5. ASSUME NEW where \in {At(d), Within(d)}, NEW fields \in Seq(P)
      PROVE  Started(d, T, F, C, Entry(d, where, "attachments", fields))
  BY <1>0, <1>5, EntryAt DEF Started
<1>6. ASSUME NEW where \in {At(d), Within(d)}, where = "item", NEW fields \in Seq(P), NEW url \in Seq(T)
      PROVE  Started(d, T, F, C, LinkFallback(Entry(d, where, "attachments", fields), url))
  BY <1>0, <1>6, EntryWithFallback DEF Started
<1> DEFINE A(key) == Attr(attrs, key)
<1>7. /\ << <<Key.url, A("url")>>, <<Key.type, A("type")>>, <<Key.size, A("length")>> >> \in Seq(P)
      /\ << <<Key.url, A("href")>>, <<Key.type, A("type")>>, <<Key.size, A("length")>> >> \in Seq(P)
      /\ << <<Key.url, A("url")>>, <<Key.content, <<Word.source>> >> >> \in Seq(P)
      /\ << <<Key.url, A("url")>>, <<Key.type, A("type")>>, <<Key.size, A("fileSize")>>,
            <<Key.duration, A("duration")>> >> \in Seq(P)
      /\ << <<Key.url, A("url")>> >> \in Seq(P)
      /\ << <<Key.url, A("href")>>, <<Key.type, A("type")>> >> \in Seq(P)
  <2> HIDE DEF P
  <2> QED BY <1>1, <1>2, <1>4, FieldsAre
<1> HIDE DEF P
<1>8. Started(d, T, F, C, rss_enclosure_start(d, attrs))
  BY <1>0, <1>2, <1>3, <1>6, <1>7 DEF rss_enclosure_start
<1>9. Started(d, T, F, C, rss_source_start(d, attrs))
  BY <1>0, <1>3, <1>5, <1>7 DEF rss_source_start
<1>10. Started(d, T, F, C, atom_link_start(d, attrs))
  <2> DEFINE m == Put(d, At(d), "link", A("href"))
  <2>1. Targets(m, T, F, C) /\ Same(d, m) /\ Written(d, At(d), "link", A("href"), m)
    BY <1>0, <1>2, PutAt
  <2>2. Started(d, T, F, C, m)
    BY <2>1 DEF Started, Written, Singles
  <2> QED BY <1>0, <1>2, <1>6, <1>7, <2>2 DEF atom_link_start
<1>11. Started(d, T, F, C, mediarss_content_start(d, attrs))
  <2>1. Within(d) = IF d.in_item THEN "item" ELSE "feed"
    BY DEF Within
  <2> QED BY <1>0, <1>2, <1>3, <1>5, <1>6, <1>7, <2>1 DEF mediarss_content_start
<1>12. Started(d, T, F, C, embed_or_player_start(d, attrs))
  <2>1. Within(d) = IF d.in_item THEN "item" ELSE "feed"
    BY DEF Within
  <2> QED BY <1>0, <1>2, <1>3, <1>5, <1>6, <1>7, <2>1 DEF embed_or_player_start
<1>13. Started(d, T, F, C, peerlink_start(d, attrs))
  BY <1>0, <1>3, <1>5, <1>7 DEF peerlink_start
<1> QED BY <1>8, <1>9, <1>10, <1>11, <1>12, <1>13

LEMMA OthersStart ==
    ASSUME NEW d, NEW T, NEW F, NEW C, Targets(d, T, F, C), NEW attrs, AttrsOf(attrs, T)
    PROVE  /\ Started(d, T, F, C, atom_subtitle_start(d, attrs))
           /\ Started(d, T, F, C, person_start(d, Word.author))
           /\ Started(d, T, F, C, person_start(d, Word.contributor))
           /\ Started(d, T, F, C, atom_category_start(d, attrs))
           /\ Started(d, T, F, C, description_start(d, attrs))
<1> DEFINE P == T \X Seq(T)
           A(key) == Attr(attrs, key)
<1>0. /\ Marks \subseteq T /\ "attachments" \in Lists /\ "content" \in Lists /\ "persons" \in Lists
      /\ "extras" \in Lists /\ Started(d, T, F, C, d)
  BY NothingStarted DEF Targets, IsTokens, Lists
<1>1. ASSUME NEW v \in Seq(T)
      PROVE  <<Key.type, v>> \in P /\ <<Key.category, v>> \in P /\ <<Key.description_type, v>> \in P
  BY <1>0, KeysAreMarks
<1>2. \A key : A(key) \in Seq(T)
  BY AttrIs
<1>3. <<Word.author>> \in Seq(T) /\ <<Word.contributor>> \in Seq(T)
  BY <1>0, WordsAreMarks
<1>4. ASSUME NEW where \in {At(d), Within(d)}, NEW f \in Lists, NEW fields \in Seq(P)
      PROVE  /\ Started(d, T, F, C, Entry(d, where, f, fields))
             /\ Started(d, T, F, C, More(d, where, f, fields))
  BY <1>0, <1>4, EntryAt DEF Started
<1>5. \A v \in Seq(T) : /\ << <<Key.type, v>> >> \in Seq(P) /\ << <<Key.category, v>> >> \in Seq(P)
                        /\ << <<Key.description_type, v>> >> \in Seq(P)
  <2> HIDE DEF P
  <2> QED BY <1>1, FieldsAre
<1> HIDE DEF P
<1>6. Started(d, T, F, C, atom_subtitle_start(d, attrs))
  BY <1>0, <1>2, <1>4, <1>5 DEF atom_subtitle_start
<1>7. /\ Started(d, T, F, C, person_start(d, Word.author))
      /\ Started(d, T, F, C, person_start(d, Word.contributor))
  BY <1>0, <1>3, <1>4, <1>5 DEF person_start
<1>8. Started(d, T, F, C, atom_category_start(d, attrs))
  <2> DEFINE attr == IF "label" \in DOMAIN attrs THEN attrs["label"] ELSE A("term")
  <2>1. attr \in Seq(T)
    BY <1>2 DEF AttrsOf
  <2>2. atom_category_start(d, attrs) =
          IF attr = <<>> THEN d ELSE Entry(d, At(d), "extras", << <<Key.category, attr>> >>)
    BY DEF atom_category_start
  <2> HIDE DEF attr
  <2> QED BY <1>0, <1>4, <1>5, <2>1, <2>2
<1>9. Started(d, T, F, C, description_start(d, attrs))
  <2>1. d.in_item => Within(d) = "item"
    BY DEF Within
  <2>2. /\ Started(d, T, F, C, Entry(d, Within(d), "content", << <<Key.type, A("type")>> >>))
        /\ Started(d, T, F, C, More(d, Within(d), "attachments", << <<Key.description_type, A("type")>> >>))
    BY <1>0, <1>2, <1>4, <1>5
  <2> QED BY <1>0, <2>1, <2>2 DEF description_start
<1> QED BY <1>6, <1>7, <1>8, <1>9

(* As Same, but for the text and where it is emptied.                        *)
Placed(d, e) ==
    /\ e.path = d.path /\ e.depth = d.depth
    /\ e.in_item = d.in_item /\ e.item_index = d.item_index
    /\ Len(e.items) = Len(d.items) /\ \A k \in 2..Len(d.items) : e.items[k] = d.items[k]

(* Setting the text and the decoy moves nothing.                             *)
TextPut(d, text, decoy) == [d EXCEPT !.decoy = decoy, !.text = text]

LEMMA TextSet ==
    ASSUME NEW d, NEW T, NEW F, NEW C, Targets(d, T, F, C), NEW text \in Seq(Int), NEW decoy \in BOOLEAN
    PROVE  LET e == TextPut(d, text, decoy)
           IN  Targets(e, T, F, C) /\ Placed(d, e) /\ SameSingles(d, e) /\ e.text = text /\ e.decoy = decoy
<1> DEFINE e == TextPut(d, text, decoy)
<1>1. d \in Data
  BY DEF Targets, Holds
<1>2. /\ e \in Data /\ e.feed = d.feed /\ e.items = d.items /\ e.path = d.path /\ e.depth = d.depth
      /\ e.in_item = d.in_item /\ e.item_index = d.item_index /\ e.text = text /\ e.decoy = decoy
  BY <1>1 DEF Data, TextPut
<1> HIDE DEF e
<1>3. Targets(e, T, F, C) /\ Placed(d, e)
  BY <1>1, <1>2 DEF Targets, Holds, Placed, At
<1>4. SameSingles(d, e)
  BY <1>2, SinglesAreOf
<1> QED BY <1>2, <1>3, <1>4 DEF e

LEMMA ContentStart ==
    ASSUME NEW d, NEW T, NEW F, NEW C, Targets(d, T, F, C), NEW attrs, AttrsOf(attrs, T)
    PROVE  LET e == atom_content_start(d, attrs)
           IN  \/ Started(d, T, F, C, e)
               \/ /\ Targets(e, T, F, C) /\ Placed(d, e) /\ SameSingles(d, e)
                  /\ At(d) = "item" /\ e.decoy = TRUE /\ e.text = <<>>
<1> DEFINE P == T \X Seq(T)
           type == Attr(attrs, "type")
           m == Entry(d, "item", "content", << <<Key.type, type>> >>)
           x == [m EXCEPT !.decoy = TRUE, !.text = <<>>]
<1>1. CASE At(d) # "item"
  BY <1>1, NothingStarted DEF atom_content_start
<1>2. CASE At(d) = "item"
  <2>1. Marks \subseteq T /\ "content" \in Lists
    BY DEF Targets, IsTokens, Lists
  <2>2. type \in Seq(T)
    BY AttrIs
  <2> HIDE DEF type
  <2>3. <<Key.type, type>> \in P
    BY <2>1, <2>2, KeysAreMarks
  <2>4. << <<Key.type, type>> >> \in Seq(P)
    <3> HIDE DEF P
    <3> QED BY <2>3, FieldsAre
  <2>5. Targets(m, T, F, C) /\ Same(d, m) /\ SameSingles(d, m)
    BY <1>2, <2>1, <2>4, EntryAt
  <2> HIDE DEF m
  <2>6. Targets(x, T, F, C) /\ Placed(m, x) /\ SameSingles(m, x) /\ x.text = <<>> /\ x.decoy = TRUE
    <3>1. <<>> \in Seq(Int)
      OBVIOUS
    <3>2. x = TextPut(m, <<>>, TRUE)
      BY DEF TextPut
    <3> HIDE DEF x
    <3> QED BY <2>5, <3>1, <3>2, TextSet
  <2> HIDE DEF x
  <2>7. Placed(d, x) /\ SameSingles(d, x)
    BY <2>5, <2>6, SinglesAreTransitive DEF Same, Placed
  <2>8. atom_content_start(d, attrs) = IF type = <<Word.xhtml>> THEN x ELSE m
    BY <1>2 DEF atom_content_start, type, m, x
  <2>9. Started(d, T, F, C, m)
    BY <2>5 DEF Started
  <2> QED BY <1>2, <2>6, <2>7, <2>8, <2>9
<1> QED BY <1>1, <1>2

(* What a start tag of anything but an item may do.                          *)
LEMMA StartHandled ==
    ASSUME NEW d, NEW T, NEW F, NEW C, Targets(d, T, F, C), NEW attrs, AttrsOf(attrs, T),
           NEW name, name \notin ItemElements
    PROVE  LET e == StartHandle(d, name, attrs)
           IN  /\ Targets(e, T, F, C) /\ Placed(d, e) /\ SameSingles(d, e)
               /\ \/ e.text = d.text /\ e.decoy = d.decoy
                  \/ name \in AtomTexts /\ At(d) = "item" /\ e.decoy = TRUE /\ e.text = <<>>
<1> DEFINE e == StartHandle(d, name, attrs)
<1>1. \/ Started(d, T, F, C, e)
      \/ /\ Targets(e, T, F, C) /\ Placed(d, e) /\ SameSingles(d, e) /\ name \in AtomTexts
         /\ At(d) = "item" /\ e.decoy = TRUE /\ e.text = <<>>
  <2> DEFINE R(x) == Started(d, T, F, C, x)
             c == atom_content_start(d, attrs)
  <2>1. R(d) /\ R(rss_guid_start(d, attrs))
    BY NothingStarted, GuidStart
  <2>2. /\ R(rss_enclosure_start(d, attrs)) /\ R(rss_source_start(d, attrs))
        /\ R(atom_link_start(d, attrs)) /\ R(mediarss_content_start(d, attrs))
        /\ R(embed_or_player_start(d, attrs)) /\ R(peerlink_start(d, attrs))
    BY AttachmentsStart
  <2>3. /\ R(atom_subtitle_start(d, attrs)) /\ R(person_start(d, Word.author))
        /\ R(person_start(d, Word.contributor)) /\ R(atom_category_start(d, attrs))
        /\ R(description_start(d, attrs))
    BY OthersStart
  <2>4. \/ R(c)
        \/ /\ Targets(c, T, F, C) /\ Placed(d, c) /\ SameSingles(d, c)
           /\ At(d) = "item" /\ c.decoy = TRUE /\ c.text = <<>>
    BY ContentStart
  <2> HIDE DEF R, c
  <2>5. CASE name \in AtomTexts /\ e = c
    BY <2>4, <2>5 DEF R
  <2>6. CASE ~(name \in AtomTexts /\ e = c)
    <3>1. R(e)
      BY <2>1, <2>2, <2>3, <2>6 DEF StartHandle, c
    <3> QED BY <3>1 DEF R
  <2> QED BY <2>5, <2>6
<1> HIDE DEF e
<1>2. Targets(e, T, F, C) /\ Placed(d, e) /\ SameSingles(d, e)
         /\ \/ e.text = d.text /\ e.decoy = d.decoy
            \/ name \in AtomTexts /\ At(d) = "item" /\ e.decoy = TRUE /\ e.text = <<>>
  BY <1>1 DEF Started, Same, Placed
<1> QED BY <1>2 DEF e

(* An item begins.                                                           *)
LEMMA NoItemIs == \A S : NoItem \in ItemRow(S)
<1>1. \A S : <<>> \in Seq(S)
  OBVIOUS
<1> QED BY <1>1 DEF NoItem, ItemRow

LEMMA Prepended ==
    ASSUME NEW F, NEW C, NEW d, Holds(d, F, C), NEW D
    PROVE  LET e == prepend_item(d)
           IN  /\ Holds(e, F, D) /\ e.items # <<>>
               /\ e.path = d.path /\ e.depth = d.depth /\ e.text = d.text /\ e.decoy = d.decoy
               /\ e.in_item = d.in_item /\ e.item_index = d.item_index
               /\ Len(e.items) = Len(d.items) + 1 /\ e.items[1] = NoItem /\ e.feed = d.feed
               /\ \A k \in 2..Len(d.items) + 1 : e.items[k] = d.items[k - 1]
<1> DEFINE e == prepend_item(d)
           I == ItemRow(Int)
           items == <<NoItem>> \o d.items
<1>1. d.items \in Seq(I) /\ NoItem \in I
  BY NoItemIs DEF Holds, Data
<1> HIDE DEF I
<1>2. <<NoItem>> \in Seq(I) /\ Len(<<NoItem>>) = 1 /\ <<NoItem>>[1] = NoItem
  BY <1>1
<1>3. /\ items \in Seq(I) /\ Len(items) = Len(d.items) + 1 /\ items[1] = NoItem
      /\ \A k \in 2..Len(d.items) + 1 : items[k] = d.items[k - 1]
  <2>1. /\ items \in Seq(I) /\ Len(items) = 1 + Len(d.items)
        /\ \A i \in 1..1 + Len(d.items) : items[i] = IF i <= 1 THEN <<NoItem>>[i] ELSE d.items[i - 1]
    BY <1>1, <1>2, ConcatProperties
  <2>2. Len(d.items) \in Nat
    BY <1>1
  <2> HIDE DEF items
  <2> QED BY <1>2, <2>1, <2>2
<1> HIDE DEF items
<1>4. e = [d EXCEPT !.items = items]
  BY DEF prepend_item, items
<1>5. /\ e \in Data /\ e.items = items /\ e.feed = d.feed /\ e.path = d.path /\ e.depth = d.depth
      /\ e.text = d.text /\ e.decoy = d.decoy /\ e.in_item = d.in_item /\ e.item_index = d.item_index
  BY <1>3, <1>4 DEF Holds, Data, I
<1>6. items # <<>>
  BY <1>1, <1>3
<1> HIDE DEF e
<1>7. Holds(e, F, D)
  BY <1>3, <1>5, NoItemIs DEF Holds
<1> QED BY <1>3, <1>5, <1>6, <1>7 DEF e

(* Handlers of end tags.                                                     *)
LEMMA TimeToLive ==
    ASSUME NEW d, NEW T, NEW F, NEW C, Targets(d, T, F, C)
    PROVE  Started(d, T, F, C, rss_ttl_end(d))
<1> DEFINE n == Head(d.text) * 60
           r == [d.feed EXCEPT !.time_to_live = n]
           e == [d EXCEPT !.feed = r]
<1>1. CASE At(d) # "feed" \/ d.text = <<>> \/ Head(d.text) < 0
  BY <1>1, NothingStarted DEF rss_ttl_end
<1>2. CASE ~(At(d) # "feed" \/ d.text = <<>> \/ Head(d.text) < 0)
  <2>1. d.text \in Seq(Int) /\ d.text # <<>> /\ ~(Head(d.text) < 0)
    BY <1>2 DEF Targets, Holds, Data
  <2>2. Head(d.text) \in Int
    BY <2>1
  <2>3. n \in Nat
    BY <2>1, <2>2
  <2>4. rss_ttl_end(d) = e
    BY <1>2 DEF rss_ttl_end, Put
  <2> HIDE DEF n
  <2>5. Holds(d, F, C) /\ IsTokens(F)
    BY DEF Targets
  <2>6. r \in FeedRow(F) /\ r.title = d.feed.title
    BY <2>3, <2>5 DEF Holds, FeedRow
  <2> HIDE DEF r
  <2>7. Holds(e, F, C) /\ Same(d, e) /\ e.feed = r /\ e.items = d.items
    BY <2>5, <2>6, FeedChanged
  <2> HIDE DEF e
  <2>8. SameSingles(d, e)
    BY <2>6, <2>7 DEF SameSingles
  <2> QED BY <2>4, <2>7, <2>8, StillTargets DEF Started
<1> QED BY <1>1, <1>2

(* Where the end tag of an element writes its text, if to a single value.    *)
ItemValued(d, f, e) ==
    e.feed = d.feed /\ \A g \in Singles : e.items[1][g] = IF g = f THEN d.text ELSE d.items[1][g]

Valued(d, name, e) ==
    \/ SameSingles(d, e)
    \/ /\ e.feed.title = d.text /\ e.items = d.items
       /\ (name \in TitleElements /\ At(d) = "feed") \/ (name = "dc:title" /\ ~d.in_item)
    \/ /\ ItemValued(d, "title", e)
       /\ (name \in TitleElements /\ At(d) = "item") \/ (name = "dc:title" /\ d.in_item)
    \/ ItemValued(d, "guid", e) /\ name \in GuidElements /\ At(d) = "item"
    \/ /\ ItemValued(d, "publication_date", e)
       /\ name \in {"pubDate", "atom:published"} /\ At(d) = "item"
    \/ ItemValued(d, "update_date", e) /\ name \in UpdateElements /\ d.in_item

Ended(d, name, T, F, C, e) == Targets(e, T, F, C) /\ Same(d, e) /\ Valued(d, name, e)

LEMMA StartedIsEnded ==
    ASSUME NEW d, NEW name, NEW T, NEW F, NEW C, NEW e, Started(d, T, F, C, e)
    PROVE  Ended(d, name, T, F, C, e)
BY DEF Started, Ended, Valued

LEMMA ValuesEnd ==
    ASSUME NEW d, NEW T, NEW F, NEW C, Targets(d, T, F, C), d.text \in Seq(T), NEW name
    PROVE  /\ name \in TitleElements => Ended(d, name, T, F, C, generic_title_end(d))
           /\ name \in GuidElements => Ended(d, name, T, F, C, generic_guid_end(d))
           /\ Ended(d, name, T, F, C, rss_link_end(d))
           /\ name \in UpdateElements => Ended(d, name, T, F, C, update_date_end(d))
           /\ name \in {"pubDate", "atom:published"} => Ended(d, name, T, F, C, publication_date_end(d))
           /\ name = "dc:title" => Ended(d, name, T, F, C, dublincore_title_end(d))
<1> DEFINE E(e) == Ended(d, name, T, F, C, e)
<1>0. /\ E(d) /\ "title" \in Values /\ "link" \in Values
      /\ "guid" \in Dates /\ "update_date" \in Dates /\ "publication_date" \in Dates
      /\ Within(d) = IF d.in_item THEN "item" ELSE "feed"
  BY NothingStarted, StartedIsEnded DEF Values, Dates, Lists, Within
<1>1. ASSUME NEW where \in {At(d), Within(d)}, NEW f, f \in Values \/ (f \in Dates /\ where = "item")
      PROVE  LET e == Put(d, where, f, d.text)
             IN  Targets(e, T, F, C) /\ Same(d, e) /\ Written(d, where, f, d.text, e)
  BY <1>1, PutAt
<1>2. /\ "title" \in Singles /\ "guid" \in Singles /\ "publication_date" \in Singles
      /\ "update_date" \in Singles /\ "link" \notin Singles
      /\ At(d) \in {"item", "feed", "none"}
  BY DEF Singles, At
<1>3. ASSUME name \in TitleElements PROVE E(generic_title_end(d))
  <2> DEFINE e == Put(d, At(d), "title", d.text)
  <2>1. Targets(e, T, F, C) /\ Same(d, e) /\ Written(d, At(d), "title", d.text, e)
    BY <1>0, <1>1
  <2> HIDE DEF e
  <2>2. Valued(d, name, e)
    BY <1>2, <1>3, <2>1 DEF Written, Valued, ItemValued
  <2> QED BY <2>1, <2>2 DEF Ended, generic_title_end, e
<1>4. ASSUME name \in GuidElements PROVE E(generic_guid_end(d))
  <2>1. CASE At(d) = "item"
    <3> DEFINE e == Put(d, "item", "guid", d.text)
    <3>1. Targets(e, T, F, C) /\ Same(d, e) /\ Written(d, "item", "guid", d.text, e)
      BY <1>0, <1>1, <2>1
    <3> HIDE DEF e
    <3>2. Valued(d, name, e)
      BY <1>2, <1>4, <2>1, <3>1 DEF Written, Valued, ItemValued
    <3> QED BY <2>1, <3>1, <3>2 DEF Ended, generic_guid_end, e
  <2>2. CASE At(d) # "item"
    BY <1>0, <2>2 DEF generic_guid_end
  <2> QED BY <2>1, <2>2
<1>5. E(rss_link_end(d))
  <2> DEFINE e == Put(d, At(d), "link", d.text)
  <2>1. Targets(e, T, F, C) /\ Same(d, e) /\ Written(d, At(d), "link", d.text, e)
    BY <1>0, <1>1
  <2> HIDE DEF e
  <2>2. Valued(d, name, e)
    BY <1>2, <2>1 DEF Written, Valued
  <2> QED BY <2>1, <2>2 DEF Ended, rss_link_end, e
<1>6. ASSUME name \in UpdateElements PROVE E(update_date_end(d))
  <2>1. CASE d.in_item
    <3> DEFINE e == Put(d, "item", "update_date", d.text)
    <3>1. Targets(e, T, F, C) /\ Same(d, e) /\ Written(d, "item", "update_date", d.text, e)
      BY <1>0, <1>1, <2>1
    <3> HIDE DEF e
    <3>2. Valued(d, name, e)
      BY <1>2, <1>6, <2>1, <3>1 DEF Written, Valued, ItemValued
    <3> QED BY <2>1, <3>1, <3>2 DEF Ended, update_date_end, parse_date, e
  <2>2. CASE ~d.in_item
    BY <1>0, <2>2 DEF update_date_end
  <2> QED BY <2>1, <2>2
<1>7. ASSUME name \in {"pubDate", "atom:published"} PROVE E(publication_date_end(d))
  <2>1. CASE At(d) = "item"
    <3> DEFINE e == Put(d, "item", "publication_date", d.text)
    <3>1. Targets(e, T, F, C) /\ Same(d, e) /\ Written(d, "item", "publication_date", d.text, e)
      BY <1>0, <1>1, <2>1
    <3> HIDE DEF e
    <3>2. Valued(d, name, e)
      BY <1>2, <1>7, <2>1, <3>1 DEF Written, Valued, ItemValued
    <3> QED BY <2>1, <3>1, <3>2 DEF Ended, publication_date_end, parse_date, e
  <2>2. CASE At(d) # "item"
    BY <1>0, <2>2 DEF publication_date_end
  <2> QED BY <2>1, <2>2
<1>8. ASSUME name = "dc:title" PROVE E(dublincore_title_end(d))
  <2> DEFINE e == Put(d, Within(d), "title", d.text)
  <2>1. Targets(e, T, F, C) /\ Same(d, e) /\ Written(d, Within(d), "title", d.text, e)
    BY <1>0, <1>1
  <2> HIDE DEF e
  <2>2. Valued(d, name, e)
    BY <1>0, <1>2, <1>8, <2>1 DEF Written, Valued, ItemValued
  <2>3. E(e)
    BY <2>1, <2>2 DEF Ended
  <2> QED BY <1>0, <2>3 DEF dublincore_title_end, e
<1> QED BY <1>3, <1>4, <1>5, <1>6, <1>7, <1>8

LEMMA ListsEnd ==
    ASSUME NEW d, NEW T, NEW F, NEW C, Targets(d, T, F, C), d.text \in Seq(T)
    PROVE  /\ Started(d, T, F, C, content_end(d, Word.plain))
           /\ Started(d, T, F, C, content_end(d, Word.html))
           /\ Started(d, T, F, C, generic_category_end(d))
           /\ Started(d, T, F, C, rss_author_end(d))
           /\ Started(d, T, F, C, rss_managingeditor_end(d))
           /\ Started(d, T, F, C, rss_comments_end(d))
           /\ Started(d, T, F, C, rss_source_end(d))
           /\ Started(d, T, F, C, atom_subtitle_end(d))
           /\ \A key \in T : Started(d, T, F, C, datum_end(d, key))
           /\ Started(d, T, F, C, dublincore_person_end(d, Word.author))
           /\ Started(d, T, F, C, dublincore_person_end(d, Word.contributor))
           /\ Started(d, T, F, C, georss_point_end(d))
           /\ Started(d, T, F, C, description_end(d))
           /\ At(d) = "item" => Started(d, T, F, C, More(d, "item", "content", << <<Key.text, d.text>> >>))
<1> DEFINE P == T \X Seq(T)
<1>0. /\ Started(d, T, F, C, d) /\ Marks \subseteq T /\ (d.in_item => Within(d) = "item")
      /\ "content" \in Lists /\ "extras" \in Lists /\ "persons" \in Lists /\ "attachments" \in Lists
  BY NothingStarted DEF Targets, IsTokens, Lists, Within
<1>1. ASSUME NEW where \in {At(d), Within(d)}, NEW f \in Lists, NEW fields \in Seq(P)
      PROVE  /\ Started(d, T, F, C, Entry(d, where, f, fields))
             /\ Started(d, T, F, C, More(d, where, f, fields))
  BY <1>1, EntryAt DEF Started
<1>2. \A key \in T : <<key, d.text>> \in P
  OBVIOUS
<1>3. /\ <<Key.text, d.text>> \in P /\ <<Key.category, d.text>> \in P /\ <<Key.email, d.text>> \in P
      /\ <<Key.url, d.text>> \in P /\ <<Key.title, d.text>> \in P /\ <<Key.name, d.text>> \in P
      /\ <<Key.coordinates, d.text>> \in P /\ <<Key.description_text, d.text>> \in P
  BY <1>0, <1>2, KeysAreMarks
<1>4. /\ <<Key.type, <<Word.plain>> >> \in P /\ <<Key.type, <<Word.html>> >> \in P
      /\ <<Key.type, <<Word.author>> >> \in P /\ <<Key.type, <<Word.editor>> >> \in P
      /\ <<Key.type, <<Word.contributor>> >> \in P /\ <<Key.content, <<Word.comments>> >> \in P
  <2>1. \A w \in Marks : <<w>> \in Seq(T)
    BY <1>0
  <2>2. \A w \in Marks : \A key \in Marks : <<key, <<w>> >> \in P
    BY <1>0, <2>1
  <2> HIDE DEF P
  <2> QED BY <2>2, KeysAreMarks, WordsAreMarks
<1>5. \A p, q \in P : <<p>> \in Seq(P) /\ <<p, q>> \in Seq(P)
  <2> HIDE DEF P
  <2> QED BY FieldsAre
<1> HIDE DEF P
<1> DEFINE R(x) == Started(d, T, F, C, x)
           E(where, f, fields) == Entry(d, where, f, fields)
<1>6. R(content_end(d, Word.plain)) /\ R(content_end(d, Word.html))
  BY <1>0, <1>1, <1>3, <1>4, <1>5 DEF content_end
<1>7. R(generic_category_end(d))
  BY <1>0, <1>1, <1>3, <1>5 DEF generic_category_end
<1>8. R(rss_author_end(d)) /\ R(rss_managingeditor_end(d))
  BY <1>0, <1>1, <1>3, <1>4, <1>5 DEF rss_author_end, rss_managingeditor_end
<1>9. R(rss_comments_end(d)) /\ R(rss_source_end(d))
  BY <1>0, <1>1, <1>3, <1>4, <1>5 DEF rss_comments_end, rss_source_end
<1>10. R(atom_subtitle_end(d)) /\ \A key \in T : R(datum_end(d, key))
  BY <1>0, <1>1, <1>2, <1>3, <1>5 DEF atom_subtitle_end, datum_end
<1>11. R(dublincore_person_end(d, Word.author)) /\ R(dublincore_person_end(d, Word.contributor))
  BY <1>0, <1>1, <1>3, <1>4, <1>5 DEF dublincore_person_end
<1>12. R(georss_point_end(d)) /\ R(description_end(d))
  BY <1>0, <1>1, <1>3, <1>5 DEF georss_point_end, description_end
<1>13. At(d) = "item" => R(More(d, "item", "content", << <<Key.text, d.text>> >>))
  BY <1>0, <1>1, <1>3, <1>5
<1> QED BY <1>6, <1>7, <1>8, <1>9, <1>10, <1>11, <1>12, <1>13

(* What an end tag of anything but an item may do: that of content ends the  *)
(* collecting of markup.                                                     *)
LEMMA EndHandled ==
    ASSUME NEW d, NEW T, NEW F, NEW C, Targets(d, T, F, C), d.text \in Seq(T),
           NEW name, name \notin ItemElements
    PROVE  LET e == EndHandle(d, name)
           IN  /\ Targets(e, T, F, C) /\ Placed(d, e) /\ e.text = d.text /\ Valued(d, name, e)
               /\ e.decoy = IF name \in AtomTexts /\ At(d) = "item" THEN FALSE ELSE d.decoy
<1> DEFINE e == EndHandle(d, name)
           R(x) == Ended(d, name, T, F, C, x)
<1>1. CASE name \in AtomTexts /\ At(d) = "item"
  <2> DEFINE m == More(d, "item", "content", << <<Key.text, d.text>> >>)
             x == [m EXCEPT !.decoy = FALSE, !.text = m.text]
  <2>1. Targets(m, T, F, C) /\ Same(d, m) /\ SameSingles(d, m)
    BY <1>1, ListsEnd DEF Started
  <2> HIDE DEF m
  <2>2. Targets(x, T, F, C) /\ Placed(m, x) /\ SameSingles(m, x) /\ x.text = m.text /\ x.decoy = FALSE
    <3>1. m.text \in Seq(Int)
      BY <2>1 DEF Targets, Holds, Data
    <3>4. x = TextPut(m, m.text, FALSE)
      BY DEF TextPut
    <3>2. Targets(x, T, F, C) /\ Placed(m, x) /\ x.text = m.text /\ x.decoy = FALSE
      <4> HIDE DEF x
      <4>1. Targets(x, T, F, C) /\ Placed(m, x)
        BY <2>1, <3>1, <3>4, TextSet
      <4>2. x.text = m.text /\ x.decoy = FALSE
        BY <2>1, <3>1, <3>4, TextSet
      <4> QED BY <4>1, <4>2
    <3>3. x.feed = m.feed /\ x.items = m.items
      BY <2>1 DEF Targets, Holds, Data
    <3> HIDE DEF x
    <3> QED BY <3>2, <3>3, SinglesAreOf
  <2>3. e = [m EXCEPT !.decoy = FALSE]
    <3>1. e = atom_content_end(d)
      <4>1. /\ name \notin ItemElements /\ name \notin TitleElements /\ name \notin GuidElements
            /\ name \notin LinkElements /\ name \notin PlainElements /\ name \notin HtmlElements
            /\ name \notin SubjectElements /\ name \notin UpdateElements
            /\ name \notin {"pubDate", "atom:published"} /\ name # "author"
            /\ name # "managingEditor" /\ name # "comments" /\ name # "source" /\ name # "ttl"
            /\ name # "atom:subtitle" /\ name # "atom:name" /\ name # "atom:uri"
            /\ name # "atom:email" /\ name # "dc:title" /\ name # "dc:creator"
            /\ name # "dc:contributor" /\ name \notin PointElements /\ name # "media:description"
        BY <1>1 DEF AtomTexts, ItemElements, TitleElements, GuidElements, LinkElements,
           PlainElements, HtmlElements, SubjectElements, UpdateElements, PointElements
      <4> QED BY <1>1, <4>1 DEF EndHandle
    <3> QED BY <1>1, <3>1 DEF atom_content_end, m
  <2>4. x = [m EXCEPT !.decoy = FALSE]
    BY <2>1 DEF Targets, Holds, Data
  <2> HIDE DEF x, e
  <2>5. Placed(d, e) /\ e.text = d.text
    BY <2>1, <2>2, <2>3, <2>4 DEF Same, Placed
  <2>6. Targets(e, T, F, C) /\ e.decoy = FALSE
    BY <2>2, <2>3, <2>4
  <2>7. Valued(d, name, e)
    BY <2>1, <2>2, <2>3, <2>4, SinglesAreTransitive DEF Valued
  <2> QED BY <1>1, <2>5, <2>6, <2>7 DEF e
<1>2. CASE ~(name \in AtomTexts /\ At(d) = "item")
  <2>1. R(d) /\ R(rss_ttl_end(d)) /\ (At(d) # "item" => R(atom_content_end(d)))
    BY NothingStarted, TimeToLive, StartedIsEnded DEF atom_content_end
  <2>2. /\ name \in TitleElements => R(generic_title_end(d))
        /\ name \in GuidElements => R(generic_guid_end(d))
        /\ R(rss_link_end(d))
        /\ name \in UpdateElements => R(update_date_end(d))
        /\ name \in {"pubDate", "atom:published"} => R(publication_date_end(d))
        /\ name = "dc:title" => R(dublincore_title_end(d))
    BY ValuesEnd
  <2>3. /\ R(content_end(d, Word.plain)) /\ R(content_end(d, Word.html)) /\ R(generic_category_end(d))
        /\ R(rss_author_end(d)) /\ R(rss_managingeditor_end(d)) /\ R(rss_comments_end(d))
        /\ R(rss_source_end(d)) /\ R(atom_subtitle_end(d))
        /\ R(dublincore_person_end(d, Word.author)) /\ R(dublincore_person_end(d, Word.contributor))
        /\ R(georss_point_end(d)) /\ R(description_end(d))
    BY ListsEnd, StartedIsEnded
  <2>4. R(datum_end(d, Key.name)) /\ R(datum_end(d, Key.url)) /\ R(datum_end(d, Key.email))
    <3>1. Key.name \in T /\ Key.url \in T /\ Key.email \in T
      BY KeysAreMarks DEF Targets, IsTokens
    <3> QED BY <3>1, ListsEnd, StartedIsEnded
  <2> HIDE DEF R
  <2>5. R(e)
    BY <1>2, <2>1, <2>2, <2>3, <2>4 DEF EndHandle
  <2> HIDE DEF e
  <2>6. Targets(e, T, F, C) /\ Same(d, e) /\ Valued(d, name, e)
    BY <2>5 DEF R, Ended
  <2>7. Placed(d, e) /\ e.text = d.text /\ e.decoy = d.decoy
    BY <2>6 DEF Same, Placed
  <2>8. e.decoy = IF name \in AtomTexts /\ At(d) = "item" THEN FALSE ELSE d.decoy
    BY <1>2, <2>7
  <2> QED BY <2>6, <2>7, <2>8 DEF e
<1> QED BY <1>1, <1>2
-----------------------------------------------------------------------------
(* The callbacks of expat.                                                   *)

LEMMA PositionIs ==
    ASSUME NEW name
    PROVE  /\ Position(name) \in Positions
           /\ Position(name) = "GENERIC_ITEM" <=> name \in ItemElements
           /\ Position(name) = "GENERIC_FEED" <=> name \in FeedElements
BY DEF Position, Positions, ItemElements, FeedElements, PersonElements

Deeper(d) == (d.depth + 1) % PathSize

LEMMA DepthIs ==
    ASSUME NEW n \in 0..PathSize - 1
    PROVE  /\ (n + 1) % PathSize \in 0..PathSize - 1 /\ (n + 1) % PathSize # n
           /\ (n + 1) % PathSize = IF n + 1 < PathSize THEN n + 1 ELSE 0
<1>1. PathSize \in Nat /\ PathSize > 1
  BY ParserAssumption
<1>2. CASE n + 1 < PathSize
  <2>1. (n + 1) % PathSize = n + 1
    BY <1>1, <1>2
  <2> QED BY <1>1, <1>2, <2>1
<1>3. CASE n + 1 >= PathSize
  <2>1. n + 1 = PathSize
    BY <1>1, <1>3
  <2>2. PathSize % PathSize = 0
    BY <1>1
  <2> QED BY <1>1, <2>1, <2>2
<1> QED BY <1>1, <1>2, <1>3

(* The state at which the handler of a start tag is called.                  *)
Entered(d, name) == [TextEmptied(d) EXCEPT !.path[Deeper(d)] = Position(name)]

LEMMA EnteredIs ==
    ASSUME NEW d \in Data, NEW name
    PROVE  LET e == Entered(d, name)
           IN  /\ e \in Data /\ e.path = [d.path EXCEPT ![Deeper(d)] = Position(name)]
               /\ e.text = (IF d.decoy THEN d.text ELSE <<>>) /\ At(e) = At(d)
               /\ e.feed = d.feed /\ e.items = d.items /\ e.depth = d.depth /\ e.decoy = d.decoy
               /\ e.in_item = d.in_item /\ e.item_index = d.item_index
<1> DEFINE x == TextEmptied(d)
           p == [d.path EXCEPT ![Deeper(d)] = Position(name)]
           e == Entered(d, name)
<1>1. <<>> \in Seq(Int)
  OBVIOUS
<1>2. /\ x \in Data /\ x.text = (IF d.decoy THEN d.text ELSE <<>>)
      /\ x.feed = d.feed /\ x.items = d.items /\ x.depth = d.depth /\ x.decoy = d.decoy
      /\ x.in_item = d.in_item /\ x.item_index = d.item_index /\ x.path = d.path
  BY <1>1 DEF TextEmptied, Data
<1>3. d.depth \in 0..PathSize - 1 /\ d.path \in [0..PathSize - 1 -> Positions]
  BY DEF Data
<1>4. Deeper(d) \in 0..PathSize - 1 /\ Deeper(d) # d.depth
  BY <1>3, DepthIs DEF Deeper
<1>5. p \in [0..PathSize - 1 -> Positions] /\ p[d.depth] = d.path[d.depth]
  BY <1>3, <1>4, PositionIs
<1> HIDE DEF x
<1>6. e = [x EXCEPT !.path = p]
  BY <1>2 DEF Entered, x
<1> HIDE DEF p
<1>7. /\ e \in Data /\ e.path = p /\ e.text = x.text /\ e.feed = x.feed /\ e.items = x.items
      /\ e.depth = x.depth /\ e.decoy = x.decoy /\ e.in_item = x.in_item /\ e.item_index = x.item_index
  BY <1>2, <1>5, <1>6 DEF Data
<1> HIDE DEF e
<1>8. At(e) = At(d)
  BY <1>2, <1>5, <1>7 DEF At
<1> QED BY <1>2, <1>7, <1>8 DEF e, p

(* Going deeper or back changes nothing that is stored.                      *)
LEMMA DepthSet ==
    ASSUME NEW F, NEW C, NEW d, Holds(d, F, C), NEW n \in 0..PathSize - 1
    PROVE  LET e == [d EXCEPT !.depth = n]
           IN  /\ Holds(e, F, C) /\ e.depth = n /\ e.path = d.path /\ e.text = d.text
               /\ e.items = d.items /\ e.decoy = d.decoy /\ e.in_item = d.in_item
               /\ e.item_index = d.item_index /\ e.feed = d.feed
<1> DEFINE e == [d EXCEPT !.depth = n]
<1>1. /\ e \in Data /\ e.depth = n /\ e.path = d.path /\ e.text = d.text /\ e.feed = d.feed
      /\ e.items = d.items /\ e.decoy = d.decoy /\ e.in_item = d.in_item /\ e.item_index = d.item_index
  BY DEF Holds, Data
<1> HIDE DEF e
<1>2. Holds(e, F, C)
  BY <1>1 DEF Holds
<1> QED BY <1>1, <1>2 DEF e

LEMMA TextAppended ==
    ASSUME NEW F, NEW C, NEW d, Holds(d, F, C), NEW T, T \subseteq Int, d.text \in Seq(T), NEW t \in T,
           NEW e, e = [d EXCEPT !.text = Append(@, t)]
    PROVE  /\ Holds(e, F, C) /\ e.text \in Seq(T) /\ e.depth = d.depth /\ e.path = d.path
           /\ e.items = d.items /\ e.decoy = d.decoy /\ e.in_item = d.in_item
           /\ e.item_index = d.item_index /\ e.feed = d.feed
<1> DEFINE s == Append(d.text, t)
<1>1. s \in Seq(T) /\ s \in Seq(Int)
  <2>1. s \in Seq(T)
    BY AppendProperties
  <2> QED BY <2>1, SeqMonotonic
<1> HIDE DEF s
<1>2. e = [d EXCEPT !.text = s]
  BY DEF s
<1>3. /\ e \in Data /\ e.depth = d.depth /\ e.path = d.path /\ e.text = s /\ e.feed = d.feed
      /\ e.items = d.items /\ e.decoy = d.decoy /\ e.in_item = d.in_item /\ e.item_index = d.item_index
  BY <1>1, <1>2 DEF Holds, Data
<1>4. Holds(e, F, C)
  BY <1>3 DEF Holds
<1> QED BY <1>1, <1>3, <1>4

PathInto(d, name) == [d.path EXCEPT ![Deeper(d)] = Position(name)]

(* What start_element_handler makes of d, but for what is stored. *)
ElementStarted(d, name, T, e) ==
    /\ e.depth = Deeper(d)
    /\ e.path = PathInto(d, name)
    /\ e.in_item = d.in_item /\ e.item_index = d.item_index
    /\ Len(e.items) = Len(d.items) /\ \A k \in 2..Len(d.items) : e.items[k] = d.items[k]
    /\ SameSingles(d, e)
    /\ e.text \in Seq(T) /\ (d.decoy \/ e.text = <<>>)
    /\ e.decoy = d.decoy \/ (e.decoy /\ name \in AtomTexts /\ At(d) = "item")

LEMMA StartElement ==
    ASSUME NEW d, NEW T, NEW F, NEW C, Targets(d, T, F, C), NEW attrs, AttrsOf(attrs, T),
           d.decoy => d.text \in Seq(T), NEW number \in T, NEW name, name \notin ItemElements,
           NEW e, e = start_element_handler(d, name, attrs, number)
    PROVE  Holds(e, F, C) /\ ElementStarted(d, name, T, e)
<1> DEFINE x == Entered(d, name)
<1>0. d \in Data /\ Holds(d, F, C) /\ IsTokens(T) /\ IsTokens(F) /\ IsTokens(C)
  BY DEF Targets, Holds
<1>1. /\ x \in Data /\ x.path = PathInto(d, name)
      /\ x.text = (IF d.decoy THEN d.text ELSE <<>>) /\ At(x) = At(d)
      /\ x.feed = d.feed /\ x.items = d.items /\ x.depth = d.depth /\ x.decoy = d.decoy
      /\ x.in_item = d.in_item /\ x.item_index = d.item_index
  BY <1>0, EnteredIs DEF PathInto
<1> HIDE DEF x
<1>2. Holds(x, F, C) /\ Targets(x, T, F, C)
  BY <1>0, <1>1 DEF Targets, Holds
<1>3. x.text \in Seq(T)
  BY <1>1
<1>4. Deeper(d) \in 0..PathSize - 1
  BY <1>0, DepthIs DEF Deeper, Data
<1>5. CASE IsXhtml(name)
  <2> DEFINE m == xml_default_handler(x, number)
  <2>1. e = [m EXCEPT !.depth = Deeper(d)]
    BY <1>5 DEF start_element_handler, x, Entered, Deeper
  <2>2. /\ Holds(m, F, C) /\ m.text \in Seq(T) /\ m.path = x.path /\ m.items = x.items
        /\ m.feed = x.feed /\ m.decoy = x.decoy /\ m.in_item = x.in_item /\ m.item_index = x.item_index
        /\ (~x.decoy => m.text = x.text)
    <3>1. CASE x.decoy
      <4>1. m = [x EXCEPT !.text = Append(@, number)]
        BY <3>1 DEF xml_default_handler
      <4>2. T \subseteq Int
        BY <1>0 DEF IsTokens
      <4> HIDE DEF m
      <4>3. Holds(m, F, C) /\ m.text \in Seq(T)
        BY <1>2, <1>3, <4>1, <4>2, TextAppended
      <4>4. /\ m.depth = x.depth /\ m.path = x.path
            /\ m.items = x.items /\ m.decoy = x.decoy /\ m.in_item = x.in_item
            /\ m.item_index = x.item_index /\ m.feed = x.feed
        BY <1>2, <1>3, <4>1, <4>2, <4>3, TextAppended
      <4> QED BY <3>1, <4>3, <4>4
    <3>2. CASE ~x.decoy
      BY <1>2, <1>3, <3>2 DEF xml_default_handler
    <3> QED BY <3>1, <3>2
  <2> HIDE DEF m
  <2>3. /\ Holds(e, F, C) /\ e.depth = Deeper(d) /\ e.path = m.path /\ e.text = m.text
        /\ e.items = m.items /\ e.decoy = m.decoy /\ e.in_item = m.in_item /\ e.item_index = m.item_index
        /\ e.feed = m.feed
    BY <1>4, <2>1, <2>2, DepthSet
  <2>4. SameSingles(d, e)
    BY <1>1, <2>2, <2>3, SinglesAreOf
  <2> QED BY <1>1, <2>2, <2>3, <2>4 DEF ElementStarted
<1>6. CASE ~IsXhtml(name)
  <2> DEFINE m == StartHandle(x, name, attrs)
  <2>1. e = [m EXCEPT !.depth = Deeper(d)]
    BY <1>6 DEF start_element_handler, x, Entered, Deeper
  <2>2. /\ Targets(m, T, F, C) /\ Placed(x, m) /\ SameSingles(x, m)
        /\ \/ m.text = x.text /\ m.decoy = x.decoy
           \/ name \in AtomTexts /\ At(x) = "item" /\ m.decoy = TRUE /\ m.text = <<>>
    BY <1>2, StartHandled
  <2> HIDE DEF m
  <2>3. /\ Holds(e, F, C) /\ e.depth = Deeper(d) /\ e.path = m.path /\ e.text = m.text
        /\ e.items = m.items /\ e.decoy = m.decoy /\ e.in_item = m.in_item /\ e.item_index = m.item_index
        /\ e.feed = m.feed
    <3>1. Holds(m, F, C)
      BY <2>2 DEF Targets
    <3> QED BY <1>4, <2>1, <3>1, DepthSet
  <2>4. /\ m.path = x.path /\ m.in_item = x.in_item /\ m.item_index = x.item_index
        /\ Len(m.items) = Len(x.items) /\ \A k \in 2..Len(x.items) : m.items[k] = x.items[k]
    BY <2>2 DEF Placed
  <2>5. m.text \in Seq(T) /\ (d.decoy \/ m.text = <<>>)
    <3>1. <<>> \in Seq(T)
      OBVIOUS
    <3> QED BY <1>1, <1>3, <2>2, <3>1
  <2>6. m.decoy = d.decoy \/ (m.decoy /\ name \in AtomTexts /\ At(d) = "item")
    BY <1>1, <2>2
  <2>7. SameSingles(d, e)
    <3>1. SameSingles(d, x) /\ SameSingles(m, e)
      BY <1>1, <2>3, SinglesAreOf
    <3> QED BY <2>2, <3>1, SinglesAreTransitive
  <2> QED BY <1>1, <2>3, <2>4, <2>5, <2>6, <2>7 DEF ElementStarted
<1> QED BY <1>5, <1>6

(* The same for the start of an item. *)
ItemStarted(d, name, e) ==
    /\ e.depth = Deeper(d) /\ e.items # <<>>
    /\ e.path = PathInto(d, name)
    /\ e.in_item = TRUE /\ e.item_index = d.item_index
    /\ Len(e.items) = Len(d.items) + 1 /\ e.items[1] = NoItem /\ e.feed = d.feed
    /\ \A k \in 2..Len(d.items) + 1 : e.items[k] = d.items[k - 1]
    /\ e.text = (IF d.decoy THEN d.text ELSE <<>>) /\ e.decoy = d.decoy

LEMMA StartItem ==
    ASSUME NEW F, NEW C, NEW d, Holds(d, F, C), NEW attrs, NEW number, NEW D,
           NEW name \in ItemElements,
           NEW e, e = start_element_handler(d, name, attrs, number)
    PROVE  Holds(e, F, D) /\ ItemStarted(d, name, e)
<1> DEFINE x == Entered(d, name)
           m == prepend_item(x)
           i == [m EXCEPT !.in_item = TRUE]
<1>0. d \in Data
  BY DEF Holds
<1>1. /\ x \in Data /\ x.path = PathInto(d, name)
      /\ x.text = (IF d.decoy THEN d.text ELSE <<>>)
      /\ x.feed = d.feed /\ x.items = d.items /\ x.depth = d.depth /\ x.decoy = d.decoy
      /\ x.in_item = d.in_item /\ x.item_index = d.item_index
  BY <1>0, EnteredIs DEF PathInto
<1> HIDE DEF x
<1>2. Holds(x, F, C)
  BY <1>1 DEF Holds
<1>3. Deeper(d) \in 0..PathSize - 1
  BY <1>0, DepthIs DEF Deeper, Data
<1>4. /\ Holds(m, F, D) /\ m.items # <<>>
      /\ m.path = x.path /\ m.depth = x.depth /\ m.text = x.text /\ m.decoy = x.decoy
      /\ m.in_item = x.in_item /\ m.item_index = x.item_index
      /\ Len(m.items) = Len(x.items) + 1 /\ m.items[1] = NoItem /\ m.feed = x.feed
      /\ \A k \in 2..Len(x.items) + 1 : m.items[k] = x.items[k - 1]
  BY <1>2, Prepended
<1>5. e = [i EXCEPT !.depth = Deeper(d)]
  <2>1. ~IsXhtml(name)
    BY DEF IsXhtml, ItemElements
  <2>2. StartHandle(x, name, attrs) = generic_item_starter(x)
    BY DEF StartHandle, ItemElements, AtomTexts, PlayerElements
  <2>3. generic_item_starter(x) = i
    BY DEF generic_item_starter
  <2> HIDE DEF i
  <2> QED BY <2>1, <2>2, <2>3 DEF start_element_handler, x, Entered, Deeper
<1> HIDE DEF m
<1>6. /\ i \in Data /\ i.feed = m.feed /\ i.items = m.items /\ i.path = m.path /\ i.text = m.text
      /\ i.decoy = m.decoy /\ i.in_item = TRUE /\ i.item_index = m.item_index
  BY <1>4 DEF Holds, Data
<1> HIDE DEF i
<1>7. Holds(i, F, D)
  BY <1>4, <1>6 DEF Holds
<1>8. /\ Holds(e, F, D) /\ e.depth = Deeper(d) /\ e.path = i.path /\ e.text = i.text
      /\ e.items = i.items /\ e.decoy = i.decoy /\ e.in_item = i.in_item /\ e.item_index = i.item_index
      /\ e.feed = i.feed
  BY <1>3, <1>5, <1>7, DepthSet
<1> QED BY <1>1, <1>4, <1>6, <1>8 DEF ItemStarted

(* The state at which the handler of an end tag is called.                   *)
Shallower(d) == IF d.depth > 0 THEN d.depth - 1 ELSE d.depth
Trimmed(d) == [d EXCEPT !.text = trim_whitespace(@)]
Left(d) == [Trimmed(d) EXCEPT !.depth = IF @ > 0 THEN @ - 1 ELSE @]

LEMMA LeftIs ==
    ASSUME NEW F, NEW C, NEW d, Holds(d, F, C), NEW T, d.text \in Seq(T), NEW e, e = Left(d)
    PROVE  /\ Holds(e, F, C) /\ e.depth = Shallower(d)
           /\ e.path = d.path /\ e.text \in Seq(T) /\ e.items = d.items /\ e.decoy = d.decoy
           /\ e.in_item = d.in_item /\ e.item_index = d.item_index /\ e.feed = d.feed
<1> DEFINE s == trim_whitespace(d.text)
           m == [d EXCEPT !.text = s]
           n == IF d.depth > 0 THEN d.depth - 1 ELSE d.depth
<1>1. d \in Data /\ d.text \in Seq(Int) /\ d.depth \in 0..PathSize - 1
  BY DEF Holds, Data
<1>2. s \in Seq(T) /\ s \in Seq(Int)
  BY <1>1, Trims
<1> HIDE DEF s
<1>3. /\ m \in Data /\ m.feed = d.feed /\ m.items = d.items /\ m.path = d.path /\ m.text = s
      /\ m.depth = d.depth /\ m.decoy = d.decoy /\ m.in_item = d.in_item /\ m.item_index = d.item_index
  BY <1>1, <1>2 DEF Data
<1>4. n \in 0..PathSize - 1
  <2>1. PathSize \in Nat
    BY ParserAssumption
  <2> QED BY <1>1, <2>1
<1>5. e = [m EXCEPT !.depth = n]
  <2>1. e = [m EXCEPT !.depth = IF m.depth > 0 THEN m.depth - 1 ELSE m.depth]
    BY DEF Left, Trimmed, s
  <2> HIDE DEF m
  <2> QED BY <1>3, <2>1
<1> HIDE DEF m, n
<1>6. Holds(m, F, C)
  BY <1>3 DEF Holds
<1>7. /\ Holds(e, F, C) /\ e.depth = n /\ e.path = m.path /\ e.text = m.text /\ e.feed = m.feed
      /\ e.items = m.items /\ e.decoy = m.decoy /\ e.in_item = m.in_item /\ e.item_index = m.item_index
  BY <1>4, <1>5, <1>6, DepthSet
<1> QED BY <1>2, <1>3, <1>7 DEF n, Shallower

(* What end_element_handler makes of d, but for what is stored. *)
ElementEnded(d, name, T, e) ==
    /\ e.depth = Shallower(d)
    /\ e.path = d.path /\ e.in_item = d.in_item /\ e.item_index = d.item_index
    /\ Len(e.items) = Len(d.items) /\ \A k \in 2..Len(d.items) : e.items[k] = d.items[k]
    /\ e.text \in Seq(T) /\ Valued(Left(d), name, e)
    /\ e.decoy = IF name \in AtomTexts /\ At(Left(d)) = "item" THEN FALSE ELSE d.decoy

LEMMA EndElement ==
    ASSUME NEW d, NEW T, NEW F, NEW C, Targets(Left(d), T, F, C), d.text \in Seq(T), d \in Data,
           NEW number \in T, NEW name, name \notin ItemElements,
           NEW e, e = end_element_handler(d, name, number)
    PROVE  Holds(e, F, C) /\ ElementEnded(d, name, T, e)
<1> DEFINE x == Left(d)
<1>1. /\ Holds(x, F, C) /\ x.depth = Shallower(d)
      /\ x.path = d.path /\ x.text \in Seq(T) /\ x.items = d.items /\ x.decoy = d.decoy
      /\ x.in_item = d.in_item /\ x.item_index = d.item_index
  <2>1. d.feed \in FeedRow(Int) /\ d.items \in Seq(ItemRow(Int))
    BY DEF Data
  <2>2. Holds(d, Int, Int)
    <3> DEFINE I == ItemRow(Int)
    <3>1. d.items \in Seq(I)
      BY <2>1
    <3> HIDE DEF I
    <3>2. d.items # <<>> => d.items[1] \in I
      BY <3>1
    <3> QED BY <2>1, <3>2 DEF Holds, I
  <2>3. Holds(x, F, C)
    BY DEF Targets
  <2>4. x = Left(d)
    OBVIOUS
  <2> HIDE DEF x
  <2>5. /\ x.depth = Shallower(d)
        /\ x.path = d.path /\ x.text \in Seq(T) /\ x.items = d.items /\ x.decoy = d.decoy
        /\ x.in_item = d.in_item /\ x.item_index = d.item_index
    <3>1. Holds(x, Int, Int) /\ x.text \in Seq(T)
      BY <2>2, <2>4, LeftIs
    <3> QED BY <2>2, <2>4, <3>1, LeftIs
  <2> QED BY <2>3, <2>5
<1> HIDE DEF x
<1>2. Targets(x, T, F, C)
  BY DEF x
<1>3. CASE IsXhtml(name)
  <2>1. e = xml_default_handler(x, number)
    BY <1>3 DEF end_element_handler, x, Left, Trimmed
  <2>2. name \notin AtomTexts
    BY <1>3 DEF IsXhtml, AtomTexts
  <2>3. CASE x.decoy
    <3>1. e = [x EXCEPT !.text = Append(@, number)]
      BY <2>1, <2>3 DEF xml_default_handler
    <3>2. T \subseteq Int
      BY <1>2 DEF Targets, IsTokens
    <3>3. /\ Holds(e, F, C) /\ e.text \in Seq(T) /\ e.depth = x.depth /\ e.path = x.path
          /\ e.items = x.items /\ e.decoy = x.decoy /\ e.in_item = x.in_item /\ e.item_index = x.item_index
          /\ e.feed = x.feed
      BY <1>1, <3>1, <3>2, TextAppended
    <3>4. Valued(x, name, e)
      BY <3>3, SinglesAreOf DEF Valued
    <3> QED BY <1>1, <2>2, <3>3, <3>4 DEF ElementEnded, x
  <2>4. CASE ~x.decoy
    <3>1. e = x /\ Valued(x, name, x)
      BY <2>1, <2>4, SinglesAreReflexive DEF xml_default_handler, Valued
    <3> QED BY <1>1, <2>2, <3>1 DEF ElementEnded, x
  <2> QED BY <2>3, <2>4
<1>4. CASE ~IsXhtml(name)
  <2> DEFINE m == EndHandle(x, name)
  <2>1. e = m
    BY <1>4 DEF end_element_handler, x, Left, Trimmed
  <2>2. /\ Targets(m, T, F, C) /\ Placed(x, m) /\ m.text = x.text /\ Valued(x, name, m)
        /\ m.decoy = IF name \in AtomTexts /\ At(x) = "item" THEN FALSE ELSE x.decoy
    BY <1>1, <1>2, EndHandled
  <2> HIDE DEF m
  <2> QED BY <1>1, <2>1, <2>2 DEF x, Targets, Placed, ElementEnded
<1> QED BY <1>3, <1>4

(* The same for the end of an item. *)
ItemEnded(d, T, e) ==
    /\ e.depth = Shallower(d)
    /\ e.path = d.path /\ e.in_item = FALSE /\ e.item_index = d.item_index
    /\ e.items = d.items /\ e.feed = d.feed /\ e.text \in Seq(T) /\ e.decoy = d.decoy

LEMMA EndItem ==
    ASSUME NEW F, NEW C, NEW d, Holds(d, F, C), NEW T, d.text \in Seq(T), NEW number,
           NEW name \in ItemElements,
           NEW e, e = end_element_handler(d, name, number)
    PROVE  Holds(e, F, C) /\ ItemEnded(d, T, e)
<1> DEFINE x == Left(d)
<1>1. /\ Holds(x, F, C) /\ x.depth = Shallower(d)
      /\ x.path = d.path /\ x.text \in Seq(T) /\ x.items = d.items /\ x.decoy = d.decoy
      /\ x.in_item = d.in_item /\ x.item_index = d.item_index /\ x.feed = d.feed
  <2>1. x = Left(d)
    OBVIOUS
  <2> HIDE DEF x
  <2>2. Holds(x, F, C) /\ x.text \in Seq(T)
    BY <2>1, LeftIs
  <2> QED BY <2>1, <2>2, LeftIs
<1> HIDE DEF x
<1>2. e = [x EXCEPT !.in_item = FALSE]
  <2>1. ~IsXhtml(name)
    BY DEF IsXhtml, ItemElements
  <2>2. EndHandle(x, name) = generic_item_ender(x)
    BY DEF EndHandle, ItemElements, AtomTexts, TitleElements, GuidElements, LinkElements, PlainElements,
       HtmlElements, SubjectElements, UpdateElements, PointElements
  <2> QED BY <2>1, <2>2 DEF end_element_handler, x, Left, Trimmed, generic_item_ender
<1>3. /\ e \in Data /\ e.feed = x.feed /\ e.items = x.items /\ e.path = x.path /\ e.text = x.text
      /\ e.depth = x.depth /\ e.decoy = x.decoy /\ e.in_item = FALSE /\ e.item_index = x.item_index
  BY <1>1, <1>2 DEF Holds, Data
<1>4. Holds(e, F, C)
  BY <1>1, <1>3 DEF Holds
<1> QED BY <1>1, <1>3, <1>4 DEF ItemEnded
-----------------------------------------------------------------------------
(* The rows of json_tree.                                                    *)

RowPlaces == {"feed", "feed_authors", "item", "authors", "attachments"}
Rows == [place : RowPlaces, item : Int, index : Int, key : STRING]

(* Where what is written is known: to the newest item, or to the feed.       *)
Aims(d, where, T, F, C) ==
    /\ Holds(d, F, C) /\ IsTokens(T) /\ IsTokens(F) /\ IsTokens(C)
    /\ where \in {"item", "feed"} /\ T \subseteq Into(where, F, C)
    /\ where = "item" => d.items # <<>>

Done(d, where, T, F, C, e) == Aims(e, where, T, F, C) /\ Same(d, e)

LEMMA NothingDone ==
    ASSUME NEW d, NEW where, NEW T, NEW F, NEW C, Aims(d, where, T, F, C)
    PROVE  Done(d, where, T, F, C, d)
BY SameIsReflexive DEF Done, Aims, Holds, Data

LEMMA StillAims ==
    ASSUME NEW d, NEW where, NEW T, NEW F, NEW C, Aims(d, where, T, F, C),
           NEW e, Holds(e, F, C), Same(d, e)
    PROVE  Done(d, where, T, F, C, e)
<1>1. d.items # <<>> => e.items # <<>>
  <2> DEFINE I == ItemRow(Int)
  <2>1. d.items \in Seq(I) /\ e.items \in Seq(I) /\ Len(e.items) = Len(d.items)
    BY DEF Aims, Holds, Data, Same
  <2> HIDE DEF I
  <2> QED BY <2>1
<1> QED BY <1>1 DEF Aims, Done

LEMMA DoneThen ==
    ASSUME NEW a, NEW b, NEW c, NEW where, NEW T, NEW F, NEW C,
           Done(a, where, T, F, C, b), Done(b, where, T, F, C, c)
    PROVE  Done(a, where, T, F, C, c)
BY SameIsTransitive DEF Done

LEMMA AimedEntry ==
    ASSUME NEW d, NEW where, NEW T, NEW F, NEW C, Aims(d, where, T, F, C),
           NEW f \in Lists, NEW fields \in Seq(T \X Seq(T))
    PROVE  /\ Done(d, where, T, F, C, Entry(d, where, f, fields))
           /\ Done(d, where, T, F, C, More(d, where, f, fields))
<1> DEFINE e == Entry(d, where, f, fields)
           m == More(d, where, f, fields)
<1>1. Holds(e, F, C) /\ Same(d, e) /\ Holds(m, F, C) /\ Same(d, m)
  BY MoreHolds DEF Aims
<1> HIDE DEF e, m
<1>2. Done(d, where, T, F, C, e) /\ Done(d, where, T, F, C, m)
  BY <1>1, StillAims
<1> QED BY <1>2 DEF e, m

LEMMA AimedPut ==
    ASSUME NEW d, NEW where, NEW T, NEW F, NEW C, Aims(d, where, T, F, C),
           NEW f, f \in Values \/ (f \in Dates /\ where = "item"), NEW v \in Seq(T)
    PROVE  Done(d, where, T, F, C, Put(d, where, f, v))
<1> DEFINE e == Put(d, where, f, v)
<1>1. v \in Seq(Into(where, F, C))
  BY SeqMonotonic DEF Aims
<1>2. Holds(e, F, C) /\ Same(d, e)
  BY <1>1, PutHolds DEF Aims
<1> HIDE DEF e
<1>3. Done(d, where, T, F, C, e)
  BY <1>2, StillAims
<1> QED BY <1>3 DEF e

(* The index of an author or attachment is nothing that Done is about.       *)
LEMMA IndexSet ==
    ASSUME NEW d, NEW where, NEW T, NEW F, NEW C, Aims(d, where, T, F, C), NEW i \in Int
    PROVE  /\ Done(d, where, T, F, C, [d EXCEPT !.author_index = i])
           /\ Done(d, where, T, F, C, [d EXCEPT !.attachment_index = i])
<1> DEFINE e == [d EXCEPT !.author_index = i]
           g == [d EXCEPT !.attachment_index = i]
<1>0. d \in Data
  BY DEF Aims, Holds
<1>1. /\ e \in Data /\ e.feed = d.feed /\ e.items = d.items /\ e.path = d.path /\ e.depth = d.depth
      /\ e.text = d.text /\ e.in_item = d.in_item /\ e.decoy = d.decoy /\ e.item_index = d.item_index
  BY <1>0 DEF Data
<1>2. /\ g \in Data /\ g.feed = d.feed /\ g.items = d.items /\ g.path = d.path /\ g.depth = d.depth
      /\ g.text = d.text /\ g.in_item = d.in_item /\ g.decoy = d.decoy /\ g.item_index = d.item_index
  BY <1>0 DEF Data
<1> HIDE DEF e, g
<1>3. Holds(e, F, C) /\ Same(d, e) /\ Holds(g, F, C) /\ Same(d, g)
  BY <1>1, <1>2 DEF Aims, Holds, Same
<1>4. Done(d, where, T, F, C, e) /\ Done(d, where, T, F, C, g)
  BY <1>3, StillAims
<1> QED BY <1>4 DEF e, g

LEMMA JsonPersonIs ==
    ASSUME NEW d, NEW where, NEW T, NEW F, NEW C, Aims(d, where, T, F, C),
           NEW row \in Rows, NEW value \in Seq(T)
    PROVE  Done(d, where, T, F, C, JsonPerson(d, where, row, value))
<1> DEFINE R(x) == Done(d, where, T, F, C, x)
           P == T \X Seq(T)
           i == [d EXCEPT !.author_index = row.index]
           n == Entry(i, where, "persons", << <<Key.type, <<Word.author>> >> >>)
           fresh == IF row.index # d.author_index THEN n ELSE d
           e == JsonPerson(d, where, row, value)
<1>0. Marks \subseteq T /\ "persons" \in Lists /\ row.index \in Int
  BY DEF Aims, IsTokens, Lists, Rows
<1>1. <<Key.type, <<Word.author>> >> \in P /\ <<Key.name, value>> \in P /\ <<Key.url, value>> \in P
  <2>1. <<Word.author>> \in Seq(T)
    BY <1>0, WordsAreMarks
  <2> QED BY <1>0, <2>1, KeysAreMarks
<1>2. /\ << <<Key.type, <<Word.author>> >> >> \in Seq(P) /\ << <<Key.name, value>> >> \in Seq(P)
      /\ << <<Key.url, value>> >> \in Seq(P)
  <2> HIDE DEF P
  <2> QED BY <1>1, FieldsAre
<1>3. R(d) /\ R(i)
  BY <1>0, NothingDone, IndexSet
<1>4. R(n)
  <2> HIDE DEF i
  <2>1. Aims(i, where, T, F, C)
    BY <1>3 DEF Done
  <2>2. Done(i, where, T, F, C, n)
    BY <1>0, <1>2, <2>1, AimedEntry
  <2> QED BY <1>3, <2>2, DoneThen
<1> HIDE DEF n
<1>5. R(fresh)
  BY <1>3, <1>4
<1>6. e \in {fresh, More(fresh, where, "persons", << <<Key.name, value>> >>),
             More(fresh, where, "persons", << <<Key.url, value>> >>)}
  BY DEF JsonPerson, n
<1> HIDE DEF fresh
<1>7. \A fields \in Seq(P) : R(More(fresh, where, "persons", fields))
  <2>1. Aims(fresh, where, T, F, C)
    BY <1>5 DEF Done
  <2>2. \A fields \in Seq(P) : Done(fresh, where, T, F, C, More(fresh, where, "persons", fields))
    BY <1>0, <2>1, AimedEntry
  <2> QED BY <1>5, <2>2, DoneThen
<1> HIDE DEF e, P
<1>8. R(e)
  BY <1>2, <1>5, <1>6, <1>7
<1> QED BY <1>8 DEF e

LEMMA JsonAttachmentIs ==
    ASSUME NEW d, NEW T, NEW F, NEW C, Aims(d, "item", T, F, C), NEW row \in Rows, NEW value \in Seq(T)
    PROVE  Done(d, "item", T, F, C, JsonAttachment(d, row, value))
<1> DEFINE R(x) == Done(d, "item", T, F, C, x)
           P == T \X Seq(T)
           i == [d EXCEPT !.attachment_index = row.index]
           n == Entry(i, "item", "attachments", <<>>)
           fresh == IF row.index # d.attachment_index THEN n ELSE d
           key == CASE row.key = "url" -> Key.url
                    [] row.key = "mime_type" -> Key.type
                    [] row.key = "size_in_bytes" -> Key.size
                    [] row.key = "duration_in_seconds" -> Key.duration
                    [] OTHER -> 0
           e == JsonAttachment(d, row, value)
<1>0. Marks \subseteq T /\ "attachments" \in Lists /\ row.index \in Int /\ key \in Marks
  <2>1. 0 \in Marks
    BY DEF Marks
  <2> QED BY <2>1, KeysAreMarks DEF Aims, IsTokens, Lists, Rows
<1> HIDE DEF key
<1>1. <<key, value>> \in P
  BY <1>0
<1>2. << <<key, value>> >> \in Seq(P) /\ <<>> \in Seq(P)
  <2> HIDE DEF P
  <2> QED BY <1>1, FieldsAre
<1>3. R(d) /\ R(i)
  BY <1>0, NothingDone, IndexSet
<1>4. R(n)
  <2> HIDE DEF i
  <2>1. Aims(i, "item", T, F, C)
    BY <1>3 DEF Done
  <2>2. Done(i, "item", T, F, C, n)
    BY <1>0, <1>2, <2>1, AimedEntry
  <2> QED BY <1>3, <2>2, DoneThen
<1> HIDE DEF n
<1>5. R(fresh)
  BY <1>3, <1>4
<1>6. e \in {fresh, More(fresh, "item", "attachments", << <<key, value>> >>)}
  BY DEF JsonAttachment, n, key
<1> HIDE DEF fresh
<1>7. \A fields \in Seq(P) : R(More(fresh, "item", "attachments", fields))
  <2>1. Aims(fresh, "item", T, F, C)
    BY <1>5 DEF Done
  <2>2. \A fields \in Seq(P) : Done(fresh, "item", T, F, C, More(fresh, "item", "attachments", fields))
    BY <1>0, <2>1, AimedEntry
  <2> QED BY <1>5, <2>2, DoneThen
<1> HIDE DEF e, P
<1>8. R(e)
  BY <1>2, <1>5, <1>6, <1>7
<1> QED BY <1>8 DEF e

LEMMA JsonValues ==
    ASSUME NEW d, NEW where, NEW T, NEW F, NEW C, Aims(d, where, T, F, C), NEW row, NEW value \in Seq(T)
    PROVE  /\ where = "item" => Done(d, where, T, F, C, JsonItemValue(d, row, value))
           /\ where = "feed" => Done(d, where, T, F, C, JsonFeedValue(d, row, value))
<1> DEFINE R(x) == Done(d, where, T, F, C, x)
           P == T \X Seq(T)
<1>0. /\ R(d) /\ Marks \subseteq T /\ "title" \in Values /\ "link" \in Values
      /\ "guid" \in Dates /\ "update_date" \in Dates /\ "publication_date" \in Dates
      /\ "content" \in Lists /\ "attachments" \in Lists /\ "extras" \in Lists
  BY NothingDone DEF Aims, IsTokens, Values, Lists, Dates
<1>1. /\ <<Key.type, <<Word.html>> >> \in P /\ <<Key.text, value>> \in P /\ <<Key.url, value>> \in P
      /\ <<Key.category, value>> \in P
  <2>1. <<Word.html>> \in Seq(T)
    BY <1>0, WordsAreMarks
  <2> QED BY <1>0, <2>1, KeysAreMarks
<1>2. /\ << <<Key.type, <<Word.html>> >>, <<Key.text, value>> >> \in Seq(P)
      /\ << <<Key.text, value>> >> \in Seq(P) /\ << <<Key.url, value>> >> \in Seq(P)
      /\ << <<Key.category, value>> >> \in Seq(P)
  <2> HIDE DEF P
  <2> QED BY <1>1, FieldsAre
<1>3. \A f \in Lists, fields \in Seq(P) : R(Entry(d, where, f, fields))
  BY AimedEntry
<1>4. \A f \in Values : R(Put(d, where, f, value))
  BY AimedPut
<1>5. where = "item" => \A f \in Dates : R(Put(d, where, f, value))
  BY AimedPut
<1> HIDE DEF R, P
<1>6. where = "item" => R(JsonItemValue(d, row, value))
  BY <1>0, <1>2, <1>3, <1>4, <1>5 DEF JsonItemValue, parse_date
<1>7. where = "feed" => R(JsonFeedValue(d, row, value))
  BY <1>0, <1>2, <1>3, <1>4 DEF JsonFeedValue
<1> QED BY <1>6, <1>7 DEF R

(* A row of the feed, of the item of the row before, and of a new item.      *)
LEMMA FeedRowRead ==
    ASSUME NEW d, NEW T, NEW F, NEW C, Aims(d, "feed", T, F, C), NEW row \in Rows, NEW value \in Seq(T),
           row.place \in {"feed", "feed_authors"}
    PROVE  Done(d, "feed", T, F, C, newsraft_json_row(d, row, value))
BY JsonPersonIs, JsonValues DEF newsraft_json_row

LEMMA ItemRowRead ==
    ASSUME NEW d, NEW T, NEW F, NEW C, Aims(d, "item", T, F, C), NEW row \in Rows, NEW value \in Seq(T)
    PROVE  LET e == CASE row.place = "authors"     -> JsonPerson(d, "item", row, value)
                      [] row.place = "attachments" -> JsonAttachment(d, row, value)
                      [] OTHER                     -> JsonItemValue(d, row, value)
           IN  Done(d, "item", T, F, C, e)
<1>1. Done(d, "item", T, F, C, JsonPerson(d, "item", row, value))
  BY JsonPersonIs
<1>2. Done(d, "item", T, F, C, JsonAttachment(d, row, value))
  BY JsonAttachmentIs
<1>3. Done(d, "item", T, F, C, JsonItemValue(d, row, value))
  BY JsonValues
<1> QED BY <1>1, <1>2, <1>3

(* What a row is written to, if it begins an item.                            *)
Begun(d, row) ==
    [prepend_item(d) EXCEPT !.item_index = row.item, !.author_index = -1, !.attachment_index = -1]

LEMMA BegunIs ==
    ASSUME NEW F, NEW C, NEW d, Holds(d, F, C), NEW D, NEW row \in Rows, NEW e, e = Begun(d, row)
    PROVE  /\ Holds(e, F, D) /\ e.items # <<>> /\ e.item_index = row.item
           /\ e.path = d.path /\ e.depth = d.depth /\ e.text = d.text /\ e.decoy = d.decoy
           /\ e.in_item = d.in_item
           /\ Len(e.items) = Len(d.items) + 1
           /\ \A k \in 2..Len(d.items) + 1 : e.items[k] = d.items[k - 1]
<1> DEFINE m == prepend_item(d)
<1>1. /\ Holds(m, F, D) /\ m.items # <<>>
      /\ m.path = d.path /\ m.depth = d.depth /\ m.text = d.text /\ m.decoy = d.decoy
      /\ m.in_item = d.in_item /\ m.item_index = d.item_index
      /\ Len(m.items) = Len(d.items) + 1
      /\ \A k \in 2..Len(d.items) + 1 : m.items[k] = d.items[k - 1]
  BY Prepended
<1>2. e = [m EXCEPT !.item_index = row.item, !.author_index = -1, !.attachment_index = -1]
  BY DEF Begun
<1> HIDE DEF m
<1>3. row.item \in Int /\ m \in Data
  BY <1>1 DEF Rows, Holds
<1> DEFINE i == [m EXCEPT !.item_index = row.item]
           a == [i EXCEPT !.author_index = -1]
<1>4. /\ i \in Data /\ i.feed = m.feed /\ i.items = m.items /\ i.path = m.path /\ i.text = m.text
      /\ i.depth = m.depth /\ i.decoy = m.decoy /\ i.in_item = m.in_item /\ i.item_index = row.item
  BY <1>3 DEF Data
<1>5. e = [a EXCEPT !.attachment_index = -1]
  BY <1>2
<1> HIDE DEF i
<1>6. /\ a \in Data /\ a.feed = i.feed /\ a.items = i.items /\ a.path = i.path /\ a.text = i.text
      /\ a.depth = i.depth /\ a.decoy = i.decoy /\ a.in_item = i.in_item /\ a.item_index = i.item_index
  BY <1>4, SMTT(30) DEF Data
<1> HIDE DEF a
<1>7. /\ e \in Data /\ e.feed = a.feed /\ e.items = a.items /\ e.path = a.path /\ e.text = a.text
      /\ e.depth = a.depth /\ e.decoy = a.decoy /\ e.in_item = a.in_item /\ e.item_index = a.item_index
  BY <1>5, <1>6 DEF Data
<1>8. Holds(e, F, D)
  BY <1>1, <1>4, <1>6, <1>7 DEF Holds
<1> QED BY <1>1, <1>4, <1>6, <1>7, <1>8

LEMMA SameItemRead ==
    ASSUME NEW d, NEW T, NEW F, NEW C, Aims(d, "item", T, F, C), NEW row \in Rows, NEW value \in Seq(T),
           row.place \notin {"feed", "feed_authors"}, row.item = d.item_index
    PROVE  Done(d, "item", T, F, C, newsraft_json_row(d, row, value))
<1>1. newsraft_json_row(d, row, value) =
        CASE row.place = "authors"     -> JsonPerson(d, "item", row, value)
          [] row.place = "attachments" -> JsonAttachment(d, row, value)
          [] OTHER                     -> JsonItemValue(d, row, value)
  BY DEF newsraft_json_row, JsonItem
<1> QED BY <1>1, ItemRowRead

(* What the first row of an item makes of d, but for what is stored.          *)
ItemBegun(d, row, e) ==
    /\ e.items # <<>> /\ e.item_index = row.item
    /\ e.path = d.path /\ e.depth = d.depth /\ e.text = d.text /\ e.decoy = d.decoy
    /\ e.in_item = d.in_item
    /\ Len(e.items) = Len(d.items) + 1
    /\ \A k \in 2..Len(d.items) + 1 : e.items[k] = d.items[k - 1]

LEMMA NewItemRead ==
    ASSUME NEW F, NEW C, NEW d, Holds(d, F, C), NEW D, NEW T, IsTokens(T), IsTokens(F), IsTokens(D),
           T \subseteq D, NEW row \in Rows, NEW value \in Seq(T),
           row.place \notin {"feed", "feed_authors"}, row.item # d.item_index,
           NEW e, e = newsraft_json_row(d, row, value)
    PROVE  Holds(e, F, D) /\ ItemBegun(d, row, e)
<1> DEFINE b == Begun(d, row)
<1>1. /\ Holds(b, F, D) /\ b.items # <<>> /\ b.item_index = row.item
      /\ b.path = d.path /\ b.depth = d.depth /\ b.text = d.text /\ b.decoy = d.decoy
      /\ b.in_item = d.in_item
      /\ Len(b.items) = Len(d.items) + 1
      /\ \A k \in 2..Len(d.items) + 1 : b.items[k] = d.items[k - 1]
  <2>1. b = Begun(d, row)
    OBVIOUS
  <2> HIDE DEF b
  <2>2. Holds(b, F, D)
    BY <2>1, BegunIs
  <2> QED BY <2>1, <2>2, BegunIs
<1>2. e = CASE row.place = "authors"     -> JsonPerson(b, "item", row, value)
            [] row.place = "attachments" -> JsonAttachment(b, row, value)
            [] OTHER                     -> JsonItemValue(b, row, value)
  BY DEF newsraft_json_row, JsonItem, Begun
<1> HIDE DEF b
<1>3. Aims(b, "item", T, F, D)
  BY <1>1 DEF Aims, Into
<1>4. Done(b, "item", T, F, D, e)
  BY <1>2, <1>3, ItemRowRead
<1>5. Holds(e, F, D) /\ e.items # <<>> /\ Same(b, e)
  BY <1>4 DEF Done, Aims
<1>6. Len(d.items) \in Nat
  BY DEF Holds, Data
<1> QED BY <1>1, <1>5, <1>6 DEF Same, ItemBegun
-----------------------------------------------------------------------------
(* The documents and the path.                                               *)

AllAttributes == UNION {Attributes(name, n) : name \in STRING, n \in Nat}

Elements == [name : STRING, attrs : AllAttributes, open : BOOLEAN, parent : Nat]

(* Elements are within elements that were met before them.                    *)
DocumentIsTree ==
    /\ kind \in DOMAIN Grammars
    /\ state \in {"idle", "xml", "json", "finished"}
    /\ state = "idle" => document = <<>> /\ open = <<>>
    /\ state = "xml" => IsXml
    /\ state = "json" => ~IsXml
    /\ IsXml => /\ document \in Seq(Elements)
                /\ \A n \in Numbers : document[n].parent \in 0..n - 1
    /\ ~IsXml => document \in Seq(grammar.rows) /\ open = <<>>

(* Each open element is within the one opened before it.                      *)
OpenAreNested ==
    /\ open \in Seq(Nat) /\ Len(open) <= Len(grammar.levels)
    /\ \A i \in DOMAIN open :
         open[i] \in Numbers /\ document[open[i]].parent = (IF i = 1 THEN 0 ELSE open[i - 1])
    /\ \A i \in DOMAIN open, j \in DOMAIN open : i < j => open[i] < open[j]

(* Whatever would be written to an item finds one.                            *)
ItemsAreThere ==
    /\ data \in Data
    /\ (data.in_item \/ \E i \in 0..PathSize - 1 : data.path[i] = "GENERIC_ITEM")
         => data.items # <<>>
    /\ data.item_index # -1 => data.items # <<>>

PathIsOfOpen ==
    FitsPath => /\ data.depth = Len(open) /\ data.path[0] = "XML_UNKNOWN_POS"
                /\ \A i \in DOMAIN open : data.path[i] = Position(document[open[i]].name)

PathInvariant == DocumentIsTree /\ OpenAreNested /\ ItemsAreThere /\ PathIsOfOpen

LEMMA GrammarIs ==
    ASSUME kind \in DOMAIN Grammars
    PROVE  /\ grammar.levels \in Seq(SUBSET STRING) /\ grammar.rows \subseteq Rows
           /\ grammar.noise \subseteq {Space, Delimiter}
           /\ \A row \in grammar.rows : row.place \notin {"feed", "feed_authors"} => row.item >= 0
BY ParserAssumption DEF grammar, Rows, RowPlaces

LEMMA AttributesAre ==
    ASSUME NEW T, Marks \subseteq T, NEW n \in T, NEW name, NEW attrs \in Attributes(name, n)
    PROVE  AttrsOf(attrs, T)
<1>1. /\ <<>> \in Seq(T) /\ <<n>> \in Seq(T) /\ <<Word.false>> \in Seq(T) /\ <<Word.self>> \in Seq(T)
      /\ <<Word.enclosure>> \in Seq(T) /\ <<Word.html>> \in Seq(T) /\ <<Word.xhtml>> \in Seq(T)
  BY WordsAreMarks
<1>2. attrs \in {<<>>, [isPermaLink |-> <<Word.false>>], [url |-> <<n>>], [href |-> <<>>],
                 [href |-> <<n>>, type |-> <<n>>], [href |-> <<n>>],
                 [href |-> <<n>>, rel |-> <<Word.self>>],
                 [href |-> <<n>>, rel |-> <<Word.enclosure>>, length |-> <<n>>],
                 [term |-> <<n>>], [term |-> <<n>>, label |-> <<>>], [type |-> <<Word.html>>],
                 [type |-> <<Word.xhtml>>]}
  BY DEF Attributes
<1>3. /\ AttrsOf(<<>>, T)
      /\ \A v \in Seq(T) : /\ AttrsOf([isPermaLink |-> v], T) /\ AttrsOf([url |-> v], T)
                          /\ AttrsOf([href |-> v], T) /\ AttrsOf([term |-> v], T)
                          /\ AttrsOf([type |-> v], T)
  BY DEF AttrsOf
<1>4. \A v \in Seq(T), w \in Seq(T) :
        /\ AttrsOf([href |-> v, type |-> w], T) /\ AttrsOf([href |-> v, rel |-> w], T)
        /\ AttrsOf([term |-> v, label |-> w], T)
  BY DEF AttrsOf
<1>5. \A u \in Seq(T), v \in Seq(T), w \in Seq(T) : AttrsOf([href |-> u, rel |-> v, length |-> w], T)
  BY DEF AttrsOf
<1> QED BY <1>1, <1>2, <1>3, <1>4, <1>5

(* What is met is kept, and what is open is left in the reverse order.        *)
LEMMA DocumentStarts ==
    ASSUME DocumentIsTree, OpenAreNested, NEW name \in STRING,
           NEW attrs \in Attributes(name, Len(document) + 1), Start(name, attrs)
    PROVE  /\ DocumentIsTree' /\ OpenAreNested' /\ IsXml
           /\ Len(document') = Len(document) + 1
           /\ \A n \in Numbers : document'[n] = document[n]
           /\ document'[Len(document) + 1].name = name
           /\ document'[Len(document) + 1].parent = (IF open = <<>> THEN 0 ELSE open[Len(open)])
           /\ Len(open') = Len(open) + 1 /\ \A i \in DOMAIN open : open'[i] = open[i]
           /\ open'[Len(open) + 1] = Len(document) + 1 /\ Len(open) < Len(grammar.levels)
<1> DEFINE N == Len(document)
           L == Len(open)
           E == Elements
           new == [name |-> name, attrs |-> attrs, open |-> TRUE,
                   parent |-> IF open = <<>> THEN 0 ELSE Last(open)]
<1>1. IsXml /\ document \in Seq(Elements) /\ open \in Seq(Nat) /\ N \in Nat /\ L \in Nat
  BY DEF Start, DocumentIsTree, OpenAreNested
<1>2. \A i \in DOMAIN open : open[i] \in 1..N
  BY <1>1 DEF OpenAreNested, Numbers
<1>3. new.parent \in 0..N /\ new.parent = (IF open = <<>> THEN 0 ELSE open[L])
  BY <1>1, <1>2 DEF Last
<1>4. new \in E
  <2>1. attrs \in AllAttributes
    BY <1>1 DEF AllAttributes
  <2> QED BY <1>3, <2>1 DEF Elements
<1>5. /\ document' = Append(document, new) /\ open' = Append(open, N + 1) /\ kind' = kind
      /\ state = "xml" /\ state' = state /\ L < Len(grammar.levels)
  BY DEF Start
<1>6. new.name = name
  OBVIOUS
<1> HIDE DEF E, new
<1>7. /\ document' \in Seq(E) /\ Len(document') = N + 1 /\ document'[N + 1] = new
      /\ \A n \in 1..N : document'[n] = document[n]
  BY <1>1, <1>4, <1>5, AppendProperties DEF E
<1>8. /\ open' \in Seq(Nat) /\ Len(open') = L + 1 /\ open'[L + 1] = N + 1
      /\ \A i \in 1..L : open'[i] = open[i]
  <2>1. N + 1 \in Nat
    BY <1>1
  <2> QED BY <1>1, <1>5, <2>1, AppendProperties
<1>9. DOMAIN open = 1..L /\ DOMAIN open' = 1..(L + 1) /\ Numbers = 1..N /\ Numbers' = 1..(N + 1)
  BY <1>1, <1>7, <1>8 DEF Numbers, E
<1> HIDE DEF N, L
<1>10. DocumentIsTree'
  <2>1. grammar' = grammar /\ IsXml'
    BY <1>1, <1>5 DEF grammar, IsXml
  <2>2. \A n \in Numbers' : document'[n].parent \in 0..n - 1
    <3>1. \A n \in Numbers : document[n].parent \in 0..n - 1
      BY <1>1 DEF DocumentIsTree
    <3>2. (N + 1) - 1 = N
      BY <1>1
    <3>3. \A n \in Numbers' : n \in Numbers \/ n = N + 1
      BY <1>1, <1>9
    <3> QED BY <1>3, <1>7, <1>9, <3>1, <3>2, <3>3
  <2> QED BY <1>1, <1>5, <1>7, <2>1, <2>2 DEF DocumentIsTree, E
<1>11. OpenAreNested'
  <2>1. Len(open') <= Len(grammar'.levels)
    <3>1. grammar' = grammar /\ Len(grammar.levels) \in Nat
      BY <1>5, GrammarIs DEF grammar, DocumentIsTree
    <3> QED BY <1>1, <1>5, <1>8, <3>1
  <2>2. ASSUME NEW i \in DOMAIN open'
        PROVE  open'[i] \in Numbers' /\ document'[open'[i]].parent = (IF i = 1 THEN 0 ELSE open'[i - 1])
    <3>1. CASE i \in 1..L
      <4>1. open[i] \in Numbers /\ document[open[i]].parent = (IF i = 1 THEN 0 ELSE open[i - 1])
        BY <1>9, <3>1 DEF OpenAreNested
      <4>2. i = 1 \/ i - 1 \in 1..L
        BY <1>1, <3>1
      <4>3. open[i] \in Numbers'
        BY <1>1, <1>9, <4>1
      <4> QED BY <1>7, <1>8, <1>9, <3>1, <4>1, <4>2, <4>3
    <3>2. CASE i = L + 1
      <4>1. document'[open'[i]].parent = (IF open = <<>> THEN 0 ELSE open[L])
        BY <1>3, <1>7, <1>8, <3>2
      <4>2. open = <<>> <=> i = 1
        BY <1>1, <3>2 DEF L
      <4>3. i # 1 => L \in 1..L /\ i - 1 = L
        BY <1>1, <3>2
      <4>4. open'[i] \in Numbers'
        BY <1>1, <1>8, <1>9, <3>2
      <4> QED BY <1>8, <4>1, <4>2, <4>3, <4>4
    <3> QED BY <1>1, <1>9, <3>1, <3>2
  <2>3. ASSUME NEW i \in DOMAIN open', NEW j \in DOMAIN open', i < j PROVE open'[i] < open'[j]
    <3>1. i \in 1..L
      BY <1>1, <1>9, <2>3
    <3>2. CASE j \in 1..L
      BY <1>8, <1>9, <2>3, <3>1, <3>2 DEF OpenAreNested
    <3>3. CASE j = L + 1
      <4>1. open[i] \in 1..N
        BY <1>2, <1>9, <3>1
      <4> QED BY <1>1, <1>8, <3>1, <3>3, <4>1
    <3> QED BY <1>1, <1>9, <3>2, <3>3
  <2> QED BY <1>8, <2>1, <2>2, <2>3 DEF OpenAreNested
<1> QED BY <1>1, <1>3, <1>5, <1>6, <1>7, <1>8, <1>9, <1>10, <1>11 DEF N, L

LEMMA DocumentEnds ==
    ASSUME DocumentIsTree, OpenAreNested, End
    PROVE  /\ DocumentIsTree' /\ OpenAreNested' /\ IsXml /\ Len(open) \in Nat \ {0}
           /\ Len(document') = Len(document)
           /\ \A n \in Numbers : /\ document'[n].name = document[n].name
                                /\ document'[n].parent = document[n].parent
           /\ Len(open') = Len(open) - 1 /\ \A i \in DOMAIN open' : open'[i] = open[i]
           /\ open[Len(open)] \in Numbers /\ document[open[Len(open)]].name \in STRING
<1> DEFINE N == Len(document)
           L == Len(open)
           E == Elements
           n == open[L]
           new == [document[n] EXCEPT !.open = FALSE]
<1>1. /\ IsXml /\ document \in Seq(Elements) /\ open \in Seq(Nat) /\ N \in Nat /\ open # <<>>
      /\ L \in Nat \ {0}
  BY DEF End, DocumentIsTree, OpenAreNested
<1>2. \A i \in DOMAIN open : open[i] \in 1..N
  BY <1>1 DEF OpenAreNested, Numbers
<1>3. n \in 1..N /\ DOMAIN open = 1..L /\ L \in 1..L
  BY <1>1, <1>2
<1>4. document[n] \in Elements
  BY <1>1, <1>3
<1>5. /\ new \in E /\ new.name = document[n].name /\ new.parent = document[n].parent
      /\ document[n].name \in STRING
  BY <1>4 DEF Elements
<1>6. /\ document' = [document EXCEPT ![n] = new] /\ open' = SubSeq(open, 1, L - 1) /\ kind' = kind
      /\ state = "xml" /\ state' = state
  BY DEF End, Last, Front
<1> HIDE DEF E, new, n
<1>7. /\ document' \in Seq(E) /\ Len(document') = N
      /\ \A m \in 1..N : document'[m] = IF m = n THEN new ELSE document[m]
  BY <1>1, <1>3, <1>5, <1>6 DEF E
<1>8. /\ open' \in Seq(Nat) /\ Len(open') = L - 1
      /\ \A i \in 1..L - 1 : open'[i] = open[i]
  <2>1. \A i \in 1..L - 1 : open[i] \in Nat
    BY <1>1
  <2>2. L - 1 \in 1 - 1..L
    BY <1>1
  <2> HIDE DEF L
  <2> QED BY <1>1, <1>6, <2>1, <2>2, SubSeqProperties
<1>9. DOMAIN open' = 1..L - 1 /\ Numbers = 1..N /\ Numbers' = 1..N
  BY <1>1, <1>7, <1>8 DEF Numbers, E
<1> HIDE DEF N, L
<1>10. \A m \in 1..N : document'[m].name = document[m].name /\ document'[m].parent = document[m].parent
  BY <1>5, <1>7
<1>11. DocumentIsTree'
  <2>1. grammar' = grammar /\ IsXml'
    BY <1>1, <1>6 DEF grammar, IsXml
  <2>2. \A m \in Numbers' : document'[m].parent \in 0..m - 1
    BY <1>1, <1>9, <1>10 DEF DocumentIsTree
  <2> QED BY <1>1, <1>6, <1>7, <2>1, <2>2 DEF DocumentIsTree, E
<1>12. OpenAreNested'
  <2>1. Len(open') <= Len(grammar'.levels)
    <3>1. grammar' = grammar /\ Len(grammar.levels) \in Nat /\ L <= Len(grammar.levels)
      BY <1>6, GrammarIs DEF grammar, DocumentIsTree, OpenAreNested, L
    <3> QED BY <1>1, <1>8, <3>1
  <2>2. ASSUME NEW i \in DOMAIN open'
        PROVE  open'[i] \in Numbers' /\ document'[open'[i]].parent = (IF i = 1 THEN 0 ELSE open'[i - 1])
    <3>1. i \in 1..L /\ i \in 1..L - 1 /\ (i = 1 \/ i - 1 \in 1..L - 1)
      BY <1>1, <1>9
    <3>2. open[i] \in Numbers /\ document[open[i]].parent = (IF i = 1 THEN 0 ELSE open[i - 1])
      BY <1>3, <3>1 DEF OpenAreNested
    <3> QED BY <1>8, <1>9, <1>10, <3>1, <3>2
  <2>3. ASSUME NEW i \in DOMAIN open', NEW j \in DOMAIN open', i < j PROVE open'[i] < open'[j]
    <3>1. i \in 1..L /\ j \in 1..L
      BY <1>1, <1>9
    <3>2. open[i] < open[j]
      BY <1>3, <2>3, <3>1 DEF OpenAreNested
    <3> QED BY <1>8, <1>9, <3>2
  <2> QED BY <1>8, <2>1, <2>2, <2>3 DEF OpenAreNested
<1> QED BY <1>1, <1>3, <1>5, <1>7, <1>8, <1>9, <1>10, <1>11, <1>12 DEF N, L, n

LEMMA DocumentRows ==
    ASSUME DocumentIsTree, OpenAreNested, NEW row \in grammar.rows, Row(row)
    PROVE  /\ DocumentIsTree' /\ OpenAreNested' /\ ~IsXml /\ row \in Rows
           /\ row.place \notin {"feed", "feed_authors"} => row.item >= 0
           /\ Len(document) \in Nat /\ Len(document') = Len(document) + 1
           /\ \A n \in Numbers : document'[n] = document[n]
           /\ document'[Len(document) + 1] = row /\ open = <<>> /\ open' = open
<1>1. ~IsXml /\ document \in Seq(grammar.rows) /\ open = <<>>
  BY DEF Row, DocumentIsTree
<1>2. document' = Append(document, row) /\ kind' = kind /\ state' = state /\ open' = open
  BY DEF Row
<1>3. /\ document' \in Seq(grammar.rows) /\ Len(document') = Len(document) + 1
      /\ document'[Len(document) + 1] = row /\ \A n \in 1..Len(document) : document'[n] = document[n]
  BY <1>1, <1>2, AppendProperties
<1>4. grammar' = grammar /\ ~IsXml'
  BY <1>1, <1>2 DEF grammar, IsXml
<1>5. DocumentIsTree'
  BY <1>1, <1>2, <1>3, <1>4 DEF DocumentIsTree, Row
<1>6. OpenAreNested'
  BY <1>1, <1>2, <1>4 DEF OpenAreNested
<1>7. row \in Rows /\ (row.place \notin {"feed", "feed_authors"} => row.item >= 0)
  BY GrammarIs DEF DocumentIsTree
<1>8. Len(document) \in Nat /\ DOMAIN document = 1..Len(document)
  BY <1>1
<1> QED BY <1>1, <1>2, <1>3, <1>5, <1>6, <1>7, <1>8 DEF Numbers

LEMMA DataHolds ==
    ASSUME NEW d
    PROVE  d \in Data <=> Holds(d, Int, Int)
<1>1. ASSUME d \in Data PROVE Holds(d, Int, Int)
  <2> DEFINE I == ItemRow(Int)
  <2>1. d.items \in Seq(I) /\ d.feed \in FeedRow(Int)
    BY <1>1 DEF Data
  <2> HIDE DEF I
  <2>2. d.items # <<>> => d.items[1] \in I
    BY <2>1
  <2> QED BY <1>1, <2>1, <2>2 DEF Holds, I
<1> QED BY <1>1 DEF Holds

LEMMA IntegersAreTokens == IsTokens(Int)
BY DEF IsTokens, Marks

LEMMA ItemsTargeted ==
    ASSUME NEW d \in Data, d.in_item \/ At(d) = "item" => d.items # <<>>
    PROVE  Targets(d, Int, Int, Int)
BY DataHolds, IntegersAreTokens DEF Targets

LEMMA AtIs ==
    ASSUME NEW d
    PROVE  /\ At(d) = "item" <=> d.path[d.depth] = "GENERIC_ITEM"
           /\ At(d) = "feed" <=> d.path[d.depth] = "GENERIC_FEED"
BY DEF At

LEMMA SameLength ==
    ASSUME NEW d \in Data, NEW e \in Data, Len(e.items) = Len(d.items)
    PROVE  d.items # <<>> <=> e.items # <<>>
<1> DEFINE I == ItemRow(Int)
<1>1. d.items \in Seq(I) /\ e.items \in Seq(I)
  BY DEF Data
<1> HIDE DEF I
<1> QED BY <1>1

LEMMA PathStarts ==
    ASSUME DocumentIsTree, OpenAreNested, PathIsOfOpen, ItemsAreThere, NEW name \in STRING,
           NEW attrs \in Attributes(name, Len(document) + 1), Start(name, attrs)
    PROVE  ItemsAreThere' /\ PathIsOfOpen'
<1> DEFINE n == Len(document) + 1
           e == start_element_handler(data, name, attrs, n)
<1>1. data \in Data /\ data' = e /\ kind' = kind
  BY DEF Start, ItemsAreThere
<1>2. /\ n \in Int /\ Len(document') = n /\ document'[n].name = name
      /\ \A m \in Numbers : document'[m] = document[m]
      /\ Len(open') = Len(open) + 1 /\ \A i \in DOMAIN open : open'[i] = open[i]
      /\ open'[Len(open) + 1] = n /\ Len(open) < Len(grammar.levels) /\ Len(open) \in Nat
      /\ DOMAIN open = 1..Len(open) /\ DOMAIN open' = 1..Len(open) + 1
  <2>1. document \in Seq(Elements) /\ open \in Seq(Nat)
    BY DEF Start, DocumentIsTree, OpenAreNested
  <2>2. OpenAreNested'
    BY DocumentStarts
  <2>3. open' \in Seq(Nat)
    BY <2>2 DEF OpenAreNested
  <2> QED BY <2>1, <2>3, DocumentStarts
<1> HIDE DEF n
<1>3. /\ data.depth \in 0..PathSize - 1 /\ data.path \in [0..PathSize - 1 -> Positions]
      /\ data.text \in Seq(Int) /\ PathSize \in Nat
  BY <1>1, ParserAssumption DEF Data
<1>4. Deeper(data) \in 0..PathSize - 1
  BY <1>3, DepthIs DEF Deeper
<1>5. /\ e \in Data /\ e.depth = Deeper(data)
      /\ e.path = PathInto(data, name)
      /\ e.item_index = data.item_index
      /\ \/ name \notin ItemElements /\ e.in_item = data.in_item /\ Len(e.items) = Len(data.items)
         \/ e.items # <<>>
  <2>1. CASE name \in ItemElements
    <3>1. Holds(data, Int, Int)
      BY <1>1, DataHolds
    <3> DEFINE Z == Int
    <3>2. Holds(data, Z, Z) /\ e = start_element_handler(data, name, attrs, n)
      BY <3>1
    <3> HIDE DEF Z, e
    <3>3. Holds(e, Z, Z) /\ ItemStarted(data, name, e)
      BY <2>1, <3>2, StartItem
    <3> QED BY <3>3, DataHolds DEF Z, ItemStarted
  <2>2. CASE name \notin ItemElements
    <3>1. data.in_item \/ At(data) = "item" => data.items # <<>>
      BY <1>3, AtIs DEF ItemsAreThere
    <3>2. Targets(data, Int, Int, Int)
      BY <1>1, <3>1, ItemsTargeted
    <3>3. AttrsOf(attrs, Int)
      BY <1>2, AttributesAre, IntegersAreTokens DEF n, IsTokens
    <3> DEFINE Z == Int
    <3>4. /\ Targets(data, Z, Z, Z) /\ AttrsOf(attrs, Z) /\ n \in Z /\ data.text \in Seq(Z)
          /\ e = start_element_handler(data, name, attrs, n)
      BY <1>2, <1>3, <3>2, <3>3
    <3> HIDE DEF Z, e
    <3>5. Holds(e, Z, Z) /\ ElementStarted(data, name, Z, e)
      BY <2>2, <3>4, StartElement
    <3> QED BY <2>2, <3>5, DataHolds DEF Z, ElementStarted
  <2> QED BY <2>1, <2>2
<1> HIDE DEF e
<1>10. e.depth = Deeper(data) /\ e.path = [data.path EXCEPT ![Deeper(data)] = Position(name)]
  BY <1>5 DEF PathInto
<1>6. ItemsAreThere'
  <2>1. data.items # <<>> => e.items # <<>>
    BY <1>1, <1>5, SameLength
  <2>2. \A i \in 0..PathSize - 1 : e.path[i] = "GENERIC_ITEM" =>
          data.path[i] = "GENERIC_ITEM" \/ name \in ItemElements
    BY <1>3, <1>4, <1>5, PositionIs DEF PathInto
  <2> QED BY <1>1, <1>5, <2>1, <2>2 DEF ItemsAreThere
<1>7. ASSUME FitsPath'
      PROVE  /\ data'.depth = Len(open') /\ data'.path[0] = "XML_UNKNOWN_POS"
             /\ \A i \in DOMAIN open' : data'.path[i] = Position(document'[open'[i]].name)
  <2>1. FitsPath /\ Len(grammar.levels) \in Nat
    BY <1>1, <1>7, GrammarIs DEF FitsPath, grammar, DocumentIsTree
  <2>2. data.depth = Len(open) /\ Len(open) + 1 < PathSize
    BY <1>2, <1>3, <2>1 DEF PathIsOfOpen, FitsPath
  <2>3. Deeper(data) = Len(open) + 1
    BY <1>3, <2>2, DepthIs DEF Deeper
  <2>4. /\ data.path[0] = "XML_UNKNOWN_POS"
        /\ \A i \in DOMAIN open : data.path[i] = Position(document[open[i]].name)
    BY <2>1 DEF PathIsOfOpen
  <2>5. data'.depth = Len(open') /\ data'.path[0] = "XML_UNKNOWN_POS"
    BY <1>1, <1>2, <1>3, <1>10, <2>2, <2>3, <2>4
  <2>6. ASSUME NEW i \in DOMAIN open' PROVE data'.path[i] = Position(document'[open'[i]].name)
    <3>1. CASE i = Len(open) + 1
      BY <1>1, <1>2, <1>3, <1>10, <2>2, <2>3, <3>1
    <3>2. CASE i \in DOMAIN open
      <4>1. open[i] \in Numbers /\ i \in 0..PathSize - 1 /\ i # Deeper(data)
        BY <1>2, <1>3, <2>2, <2>3, <3>2 DEF OpenAreNested
      <4> QED BY <1>1, <1>2, <1>3, <1>10, <2>4, <3>2, <4>1
    <3> QED BY <1>2, <3>1, <3>2
  <2> QED BY <2>5, <2>6
<1> QED BY <1>6, <1>7 DEF PathIsOfOpen

LEMMA PathEnds ==
    ASSUME DocumentIsTree, OpenAreNested, PathIsOfOpen, ItemsAreThere, End
    PROVE  ItemsAreThere' /\ PathIsOfOpen'
<1> DEFINE L == Len(open)
           n == open[L]
           name == document[n].name
           e == end_element_handler(data, name, n)
<1>1. data \in Data /\ data' = e /\ kind' = kind
  BY DEF End, ItemsAreThere, Last
<1>2. /\ n \in Numbers /\ name \in STRING /\ L \in Nat \ {0} /\ Len(open') = L - 1
      /\ \A i \in DOMAIN open' : open'[i] = open[i]
      /\ \A m \in Numbers : document'[m].name = document[m].name
  BY DocumentEnds
<1>3. /\ data.depth \in 0..PathSize - 1 /\ data.path \in [0..PathSize - 1 -> Positions]
      /\ data.text \in Seq(Int) /\ PathSize \in Nat
  BY <1>1, ParserAssumption DEF Data
<1>4. n \in Int
  BY <1>2 DEF OpenAreNested, Numbers, DocumentIsTree, End
<1> HIDE DEF n
<1>5. /\ e \in Data /\ e.depth = Shallower(data) /\ e.path = data.path
      /\ e.item_index = data.item_index /\ Len(e.items) = Len(data.items)
      /\ e.in_item => data.in_item
  <2> DEFINE Z == Int
  <2>1. Holds(data, Z, Z) /\ data.text \in Seq(Z) /\ n \in Z /\ e = end_element_handler(data, name, n)
    BY <1>1, <1>3, <1>4, DataHolds
  <2> HIDE DEF e
  <2>2. CASE name \in ItemElements
    <3> HIDE DEF Z, name
    <3>1. Holds(e, Z, Z) /\ ItemEnded(data, Z, e)
      BY <2>1, <2>2, EndItem
    <3> QED BY <3>1, DataHolds DEF Z, ItemEnded
  <2>3. CASE name \notin ItemElements
    <3> DEFINE x == Left(data)
    <3>0. x = Left(data)
      OBVIOUS
    <3> HIDE DEF x
    <3>1. Holds(x, Z, Z) /\ x.text \in Seq(Z)
      <4> HIDE DEF Z
      <4> QED BY <2>1, <3>0, LeftIs
    <3>2. /\ x.depth = Shallower(data) /\ x.path = data.path /\ x.items = data.items
          /\ x.in_item = data.in_item
      <4> HIDE DEF Z
      <4> QED BY <2>1, <3>0, <3>1, LeftIs
    <3>3. x.in_item \/ At(x) = "item" => x.items # <<>>
      <4>1. Shallower(data) \in 0..PathSize - 1
        BY <1>3 DEF Shallower
      <4> QED BY <3>2, <4>1, AtIs DEF ItemsAreThere
    <3>4. x \in Data
      BY <3>1 DEF Holds
    <3>5. Targets(x, Z, Z, Z)
      BY <3>3, <3>4, ItemsTargeted
    <3> HIDE DEF Z, name
    <3>6. Holds(e, Z, Z) /\ ElementEnded(data, name, Z, e)
      BY <1>1, <2>1, <2>3, <3>0, <3>5, EndElement
    <3> QED BY <3>6, DataHolds DEF Z, ElementEnded
  <2> QED BY <2>2, <2>3
<1> HIDE DEF e, name
<1>6. ItemsAreThere'
  <2>1. data.items # <<>> => e.items # <<>>
    BY <1>1, <1>5, SameLength
  <2> QED BY <1>1, <1>5, <2>1 DEF ItemsAreThere
<1>7. PathIsOfOpen'
  <2>1. SUFFICES ASSUME FitsPath'
                 PROVE  /\ data'.depth = Len(open') /\ data'.path[0] = "XML_UNKNOWN_POS"
                        /\ \A i \in DOMAIN open' : data'.path[i] = Position(document'[open'[i]].name)
    BY DEF PathIsOfOpen
  <2>2. FitsPath
    BY <1>1, <2>1 DEF FitsPath, grammar
  <2>3. /\ data.depth = L /\ data.path[0] = "XML_UNKNOWN_POS"
        /\ \A i \in DOMAIN open : data.path[i] = Position(document[open[i]].name)
    BY <2>2 DEF PathIsOfOpen
  <2>4. data'.depth = Len(open')
    BY <1>1, <1>2, <1>5, <2>3 DEF Shallower
  <2>5. ASSUME NEW i \in DOMAIN open' PROVE i \in DOMAIN open /\ open[i] \in Numbers
    <3>1. open \in Seq(Nat) /\ OpenAreNested'
      BY DocumentEnds DEF OpenAreNested
    <3>2. open' \in Seq(Nat)
      BY <3>1 DEF OpenAreNested
    <3>3. i \in 1..L - 1 /\ i \in 1..L
      BY <1>2, <3>2
    <3> QED BY <3>1, <3>3 DEF OpenAreNested
  <2> QED BY <1>1, <1>2, <1>5, <2>3, <2>4, <2>5
<1> QED BY <1>6, <1>7

LEMMA ValuesRead ==
    ASSUME DocumentIsTree, OpenAreNested, PathIsOfOpen, ItemsAreThere, NEW row \in grammar.rows, Row(row)
    PROVE  ItemsAreThere' /\ PathIsOfOpen'
<1> DEFINE n == Len(document) + 1
           e == newsraft_json_row(data, row, <<n>>)
           Z == Int
<1>1. /\ data \in Data /\ data' = e /\ kind' = kind /\ row \in Rows /\ open = <<>> /\ open' = open
      /\ row.place \notin {"feed", "feed_authors"} => row.item >= 0
  BY DocumentRows DEF Row, ItemsAreThere
<1>2. <<n>> \in Seq(Z) /\ Holds(data, Z, Z) /\ IsTokens(Z)
  <2>1. n \in Int
    BY DocumentRows
  <2> QED BY <1>1, <2>1, DataHolds, IntegersAreTokens
<1> DEFINE value == <<n>>
<1> HIDE DEF Z, n, value, e
<1>3. e = newsraft_json_row(data, row, value) /\ value \in Seq(Z)
  BY <1>2 DEF e, value
<1>4. /\ e \in Data /\ e.path = data.path /\ e.depth = data.depth /\ e.in_item = data.in_item
      /\ \/ e.item_index = data.item_index /\ Len(e.items) = Len(data.items)
         \/ e.items # <<>>
  <2>1. CASE row.place \in {"feed", "feed_authors"}
    <3>1. Aims(data, "feed", Z, Z, Z)
      BY <1>2 DEF Aims, Into
    <3>2. Done(data, "feed", Z, Z, Z, e)
      BY <1>1, <1>3, <2>1, <3>1, FeedRowRead
    <3> QED BY <3>2 DEF Done, Aims, Holds, Same
  <2>2. CASE row.place \notin {"feed", "feed_authors"} /\ row.item = data.item_index
    <3>1. data.items # <<>>
      BY <1>1, <2>2 DEF ItemsAreThere
    <3>2. Aims(data, "item", Z, Z, Z)
      BY <1>2, <3>1 DEF Aims, Into
    <3>3. Done(data, "item", Z, Z, Z, e)
      BY <1>1, <1>3, <2>2, <3>2, SameItemRead
    <3> QED BY <3>3 DEF Done, Aims, Holds, Same
  <2>3. CASE row.place \notin {"feed", "feed_authors"} /\ row.item # data.item_index
    <3>1. Holds(e, Z, Z) /\ ItemBegun(data, row, e)
      BY <1>1, <1>2, <1>3, <2>3, NewItemRead
    <3> QED BY <3>1 DEF Holds, ItemBegun
  <2> QED BY <2>1, <2>2, <2>3
<1>5. ItemsAreThere'
  <2>1. Len(e.items) = Len(data.items) => (data.items # <<>> => e.items # <<>>)
    BY <1>1, <1>4, SameLength
  <2> QED BY <1>1, <1>4, <2>1 DEF ItemsAreThere
<1>6. PathIsOfOpen'
  BY <1>1, <1>4 DEF PathIsOfOpen, FitsPath, grammar
<1> QED BY <1>5, <1>6

LEMMA TextRead ==
    ASSUME DocumentIsTree, OpenAreNested, PathIsOfOpen, ItemsAreThere,
           NEW token \in {Space, Delimiter} \cup 1..Len(document), Characters(token)
    PROVE  PathInvariant'
<1> DEFINE e == character_data_handler(data, token)
           Z == Int
<1>1. /\ data \in Data /\ data' = e /\ kind' = kind /\ document' = document /\ open' = open
      /\ state' = state
  BY DEF Characters, ItemsAreThere
<1>2. token \in Z /\ Z \subseteq Int /\ data.text \in Seq(Z) /\ Holds(data, Z, Z)
  BY <1>1, DataHolds DEF Space, Delimiter, Data
<1>3. e = [data EXCEPT !.text = Append(@, token)]
  BY DEF character_data_handler
<1> HIDE DEF Z, e
<1>4. Holds(e, Z, Z)
  BY <1>2, <1>3, TextAppended
<1>5. /\ e.depth = data.depth /\ e.path = data.path /\ e.items = data.items /\ e.in_item = data.in_item
      /\ e.item_index = data.item_index
  BY <1>2, <1>3, <1>4, TextAppended
<1>6. e \in Data
  BY <1>4 DEF Holds
<1>7. grammar' = grammar
  BY <1>1 DEF grammar
<1>8. DocumentIsTree' /\ OpenAreNested'
  BY <1>1, <1>7 DEF DocumentIsTree, OpenAreNested, Numbers, IsXml
<1>9. ItemsAreThere' /\ PathIsOfOpen'
  BY <1>1, <1>5, <1>6, <1>7 DEF ItemsAreThere, PathIsOfOpen, FitsPath
<1> QED BY <1>8, <1>9 DEF PathInvariant

LEMMA PathHolds == Spec => []PathInvariant
<1>1. Init => PathInvariant
  <2> SUFFICES ASSUME Init PROVE PathInvariant
    OBVIOUS
  <2>0. 0 \in 0..PathSize - 1
    BY ParserAssumption
  <2>1. data \in Data
    <3>1. NoFeed \in FeedRow(Int)
      BY DEF NoFeed, FeedRow
    <3>2. <<>> \in Seq(ItemRow(Int)) /\ <<>> \in Seq(Int)
      OBVIOUS
    <3> QED BY <2>0, <3>1, <3>2 DEF Init, Data, Positions
  <2>2. Len(grammar.levels) \in Nat
    BY GrammarIs DEF Init
  <2>3. ItemsAreThere /\ PathIsOfOpen
    BY <2>0, <2>1 DEF Init, ItemsAreThere, PathIsOfOpen
  <2>4. DocumentIsTree /\ OpenAreNested
    BY <2>2 DEF Init, DocumentIsTree, OpenAreNested, Numbers
  <2> QED BY <2>3, <2>4 DEF PathInvariant
<1>2. PathInvariant /\ [Next]_vars => PathInvariant'
  <2> SUFFICES ASSUME PathInvariant, [Next]_vars PROVE PathInvariant'
    OBVIOUS
  <2>1. DocumentIsTree /\ OpenAreNested /\ PathIsOfOpen /\ ItemsAreThere
    BY DEF PathInvariant
  <2>2. CASE Engage \/ Finish
    <3>1. UNCHANGED <<data, kind, document, open>> /\ grammar' = grammar
      BY <2>2 DEF Engage, Finish, grammar
    <3>2. state' \in {"idle", "xml", "json", "finished"} /\ state' # "idle"
          /\ (state' = "xml" => IsXml) /\ (state' = "json" => ~IsXml)
      BY <2>2 DEF Engage, Finish, IsXml
    <3>3. DocumentIsTree' /\ OpenAreNested'
      BY <2>1, <3>1, <3>2 DEF DocumentIsTree, OpenAreNested, Numbers, IsXml
    <3>4. ItemsAreThere' /\ PathIsOfOpen'
      BY <2>1, <3>1 DEF ItemsAreThere, PathIsOfOpen, FitsPath
    <3> QED BY <3>3, <3>4 DEF PathInvariant
  <2>3. ASSUME NEW name \in UNION {grammar.levels[i] : i \in DOMAIN grammar.levels},
               NEW attrs \in Attributes(name, Len(document) + 1), Start(name, attrs)
        PROVE  PathInvariant'
    <3>1. name \in STRING
      BY <2>1, GrammarIs DEF DocumentIsTree
    <3> QED BY <2>1, <2>3, <3>1, DocumentStarts, PathStarts DEF PathInvariant
  <2>4. ASSUME NEW token \in {Space, Delimiter} \cup 1..Len(document), Characters(token)
        PROVE  PathInvariant'
    BY <2>1, <2>4, TextRead
  <2>5. CASE End
    BY <2>1, <2>5, DocumentEnds, PathEnds DEF PathInvariant
  <2>6. ASSUME NEW row \in grammar.rows, Row(row) PROVE PathInvariant'
    BY <2>1, <2>6, DocumentRows, ValuesRead DEF PathInvariant
  <2>7. CASE UNCHANGED vars
    <3>1. grammar' = grammar
      BY <2>7 DEF vars, grammar
    <3>2. DocumentIsTree' /\ OpenAreNested'
      BY <2>1, <2>7, <3>1 DEF vars, DocumentIsTree, OpenAreNested, Numbers, IsXml
    <3>3. ItemsAreThere' /\ PathIsOfOpen'
      BY <2>1, <2>7, <3>1 DEF vars, ItemsAreThere, PathIsOfOpen, FitsPath
    <3> QED BY <3>2, <3>3 DEF PathInvariant
  <2> QED BY <2>2, <2>3, <2>4, <2>5, <2>6, <2>7 DEF Next, Terminated
<1> QED BY <1>1, <1>2, PTL DEF Spec

(* The path that handlers decide by is that of the elements that are open, for *)
(* every grammar, and every handler that writes to an item finds one          *)
(* (setup-xml-parser.c:6-52).                                                 *)
THEOREM PathIsFollowed == Spec => []PathFollowsDocument
<1>1. PathInvariant => PathFollowsDocument
  <2> SUFFICES ASSUME PathInvariant PROVE PathFollowsDocument
    OBVIOUS
  <2>1. TypeOK
    <3>1. data \in Data
      BY DEF PathInvariant, ItemsAreThere
    <3>2. /\ data.depth \in 0..PathSize - 1 /\ data.path \in [0..PathSize - 1 -> Positions]
          /\ data.in_item \in BOOLEAN /\ data.decoy \in BOOLEAN /\ data.feed \in FeedRow(Int)
      BY <3>1 DEF Data
    <3>3. data.feed.time_to_live \in Nat
      BY <3>2 DEF FeedRow
    <3>4. data.in_item \/ At(data) = "item" => data.items # <<>>
      BY <3>2, AtIs DEF PathInvariant, ItemsAreThere
    <3> QED BY <3>2, <3>3, <3>4 DEF TypeOK, PathInvariant, DocumentIsTree, Positions
  <2> QED BY <2>1 DEF PathFollowsDocument, PathInvariant, PathIsOfOpen
<1> QED BY <1>1, PathHolds, PTL
-----------------------------------------------------------------------------
(* The texts and their homes.                                                *)

(* Tokens that are of item k, or of the feed.                                 *)
Belong(k) == {t \in Int : t > 0 => t \in Numbers /\ Home(t) = k}

(* The home of what is met now.                                               *)
Here == IF data.in_item THEN Len(data.items) ELSE 0

OpenNames == {document[open[i]].name : i \in DOMAIN open}
Frames == ItemElements \cup FeedElements \cup {"rss"}

ItemNumbers == {n \in Numbers : document[n].name \in ItemElements}

AroundIsOpen == \A i \in DOMAIN open : Around[open[i]] = {open[j] : j \in 1..i}

(* There is an element of data.items for each item, and in_item tells of the   *)
(* last one if it is open.                                                    *)
ItemsAreCounted ==
    /\ Len(data.items) = Cardinality(ItemNumbers)
    /\ data.in_item <=> \E i \in DOMAIN open : open[i] \in ItemNumbers
    /\ \A i \in DOMAIN open : open[i] \in ItemNumbers => \A n \in ItemNumbers : n <= open[i]

(* The text that a handler could read is of the item or feed it is written to. *)
TextIsOfHere ==
    /\ ~(OpenNames \subseteq Frames) => data.text \in Seq(Belong(Here))
    /\ data.decoy => \E i \in DOMAIN open : /\ i > 1 /\ document[open[i]].name \in AtomTexts
                                           /\ document[open[i - 1]].name \in ItemElements

(* The indexes of the items of a JSON feed.                                    *)
MetItems(n) == {document[i].item : i \in {j \in 1..n : InItems(document[j])}}

IndexesAreCounted ==
    /\ IsFiniteSet(MetItems(Len(document))) /\ Len(data.items) = Cardinality(MetItems(Len(document)))
    /\ \A i \in MetItems(Len(document)) : i <= data.item_index
    /\ \/ MetItems(Len(document)) = {} /\ data.item_index = -1
       \/ data.item_index \in MetItems(Len(document))

RowsAreOfHomes ==
    /\ data.feed \in FeedRow(Belong(0))
    /\ \A k \in DOMAIN data.items : data.items[k] \in ItemRow(Belong(Len(data.items) + 1 - k))

HomeInvariant ==
    /\ IsXml => AroundIsOpen
    /\ IsFeed /\ FitsPath =>
         /\ IF IsXml THEN ItemsAreCounted /\ TextIsOfHere ELSE IndexesAreCounted
         /\ RowsAreOfHomes

Unfolds(doc, k, f) ==
    f = [n \in 0..k |-> IF n = 0 THEN {} ELSE {n} \cup f[doc[n].parent]]

(* The recursion of Around is founded: an element is within one met before it. *)
LEMMA UnfoldingExists ==
    ASSUME NEW doc, NEW k \in Nat, \A n \in 1..k : doc[n].parent \in 0..n - 1
    PROVE  \E f : Unfolds(doc, k, f)
<1> DEFINE Bad == {j \in 0..k : ~ \E f : Unfolds(doc, j, f)}
<1>1. ASSUME Bad # {} PROVE FALSE
  <2>1. Bad \subseteq Nat
    OBVIOUS
  <2>2. PICK j \in Bad : \A i \in Bad : j <= i
    <3> HIDE DEF Bad
    <3> QED BY <1>1, <2>1, LeastNumber
  <2>3. j # 0
    <3> DEFINE f == [n \in 0..0 |-> {}]
    <3>1. Unfolds(doc, 0, f)
      BY DEF Unfolds
    <3> HIDE DEF f
    <3> QED BY <3>1
  <2>4. j - 1 \in 0..k /\ j - 1 \notin Bad /\ j \in 1..k
    BY <2>2, <2>3
  <2>5. PICK f : Unfolds(doc, j - 1, f)
    BY <2>4
  <2> DEFINE g == [n \in 0..j |-> IF n = j THEN {j} \cup f[doc[j].parent] ELSE f[n]]
  <2>6. /\ DOMAIN g = 0..j /\ g[j] = {j} \cup f[doc[j].parent]
        /\ \A n \in 0..j - 1 : g[n] = f[n]
        /\ g = [n \in 0..j |-> g[n]]
    BY <2>4
  <2>7. \A n \in 0..j - 1 : f[n] = IF n = 0 THEN {} ELSE {n} \cup f[doc[n].parent]
    BY <2>5 DEF Unfolds
  <2> HIDE DEF g
  <2>8. ASSUME NEW n \in 0..j PROVE g[n] = IF n = 0 THEN {} ELSE {n} \cup g[doc[n].parent]
    <3>1. CASE n = j
      <4>1. doc[j].parent \in 0..j - 1
        BY <2>4
      <4>2. g[doc[j].parent] = f[doc[j].parent] /\ j # 0
        BY <2>3, <2>6, <4>1
      <4> QED BY <2>6, <3>1, <4>2
    <3>2. CASE n \in 0..j - 1
      <4>1. n = 0 \/ doc[n].parent \in 0..j - 1
        <5>1. n = 0 \/ (n \in 1..k /\ doc[n].parent \in 0..n - 1)
          BY <2>4, <3>2
        <5> QED BY <2>4, <3>2, <5>1
      <4> QED BY <2>6, <2>7, <3>2, <4>1
    <3> QED BY <2>4, <3>1, <3>2
  <2>9. Unfolds(doc, j, g)
    BY <2>6, <2>8 DEF Unfolds
  <2> QED BY <2>2, <2>9
<1> QED BY <1>1

LEMMA UnfoldingIs ==
    ASSUME NEW doc, NEW k \in Nat, \A n \in 1..k : doc[n].parent \in 0..n - 1,
           NEW f, Unfolds(doc, k, f)
    PROVE  /\ f[0] = {} /\ \A n \in 1..k : f[n] = {n} \cup f[doc[n].parent]
           /\ \A n \in 0..k : f[n] \subseteq 1..n
<1>1. f[0] = {} /\ \A n \in 1..k : f[n] = {n} \cup f[doc[n].parent]
  <2>1. \A n \in 0..k : f[n] = IF n = 0 THEN {} ELSE {n} \cup f[doc[n].parent]
    BY DEF Unfolds
  <2>2. 0 \in 0..k /\ \A n \in 1..k : n \in 0..k /\ n # 0
    OBVIOUS
  <2>3. f[0] = {}
    BY <2>1, <2>2
  <2>4. \A n \in 1..k : f[n] = {n} \cup f[doc[n].parent]
    BY <2>1, <2>2
  <2> QED BY <2>3, <2>4
<1> DEFINE Bad == {n \in 0..k : ~(f[n] \subseteq 1..n)}
<1>2. ASSUME Bad # {} PROVE FALSE
  <2>1. Bad \subseteq Nat
    OBVIOUS
  <2>2. PICK n \in Bad : \A i \in Bad : n <= i
    <3> HIDE DEF Bad
    <3> QED BY <1>2, <2>1, LeastNumber
  <2>3. n \in 1..k
    BY <1>1, <2>2
  <2>4. doc[n].parent \in 0..n - 1
    BY <2>3
  <2>5. doc[n].parent \in 0..k /\ doc[n].parent \notin Bad
    BY <2>2, <2>3, <2>4
  <2>6. f[doc[n].parent] \subseteq 1..doc[n].parent
    BY <2>5
  <2> QED BY <1>1, <2>2, <2>3, <2>4, <2>6
<1> QED BY <1>1, <1>2

IsBegunBy(p, j, q, k) ==
    /\ j <= k /\ \A n \in 1..j : p[n].parent = q[n].parent
    /\ \A n \in 1..j : p[n].parent \in 0..n - 1
    /\ \A n \in 1..k : q[n].parent \in 0..n - 1

LEMMA UnfoldingsAgree ==
    ASSUME NEW p, NEW q, NEW j \in Nat, NEW k \in Nat, IsBegunBy(p, j, q, k),
           NEW f, Unfolds(p, j, f), NEW g, Unfolds(q, k, g)
    PROVE  \A n \in 0..j : f[n] = g[n]
<1>0. j <= k /\ \A n \in 1..j : p[n].parent = q[n].parent
  BY DEF IsBegunBy
<1>4. \A n \in 1..j : p[n].parent \in 0..n - 1
  BY DEF IsBegunBy
<1>5. \A n \in 1..k : q[n].parent \in 0..n - 1
  BY DEF IsBegunBy
<1>1. f[0] = {} /\ \A n \in 1..j : f[n] = {n} \cup f[p[n].parent]
  BY <1>4, UnfoldingIs
<1>2. g[0] = {} /\ \A n \in 1..k : g[n] = {n} \cup g[q[n].parent]
  BY <1>5, UnfoldingIs
<1> DEFINE Bad == {n \in 0..j : f[n] # g[n]}
<1>3. ASSUME Bad # {} PROVE FALSE
  <2>1. Bad \subseteq Nat
    OBVIOUS
  <2>2. PICK n \in Bad : \A i \in Bad : n <= i
    <3> HIDE DEF Bad
    <3> QED BY <1>3, <2>1, LeastNumber
  <2>3. n \in 1..j /\ n \in 1..k
    <3>1. n \in 0..j /\ n # 0
      BY <1>1, <1>2, <2>2
    <3> QED BY <1>0, <3>1
  <2>4. p[n].parent \in 0..n - 1 /\ p[n].parent = q[n].parent
    BY <1>0, <1>4, <2>3
  <2>5. p[n].parent \in 0..j /\ p[n].parent \notin Bad
    BY <2>2, <2>3, <2>4
  <2>6. f[p[n].parent] = g[p[n].parent]
    BY <2>5
  <2>7. f[n] = {n} \cup f[p[n].parent] /\ g[n] = {n} \cup g[q[n].parent]
    BY <1>1, <1>2, <2>3
  <2>8. f[n] = g[n]
    BY <2>4, <2>6, <2>7
  <2> QED BY <2>2, <2>8
<1> QED BY <1>3

LEMMA AroundUnfolds ==
    ASSUME NEW k \in Nat, Len(document) = k, \A n \in 1..k : document[n].parent \in 0..n - 1
    PROVE  Unfolds(document, k, Around)
<1>1. \E f : Unfolds(document, k, f)
  BY UnfoldingExists
<1>2. Around = CHOOSE f : Unfolds(document, k, f)
  BY DEF Around, Unfolds
<1> QED BY <1>1, <1>2

(* What was met keeps its name and its parent, and so its home.               *)
Kept ==
    /\ Numbers \subseteq Numbers'
    /\ \A n \in Numbers : /\ document'[n].name = document[n].name
                         /\ document'[n].parent = document[n].parent

LEMMA NumbersAre ==
    ASSUME IsXml, DocumentIsTree
    PROVE  /\ Len(document) \in Nat /\ Numbers = 1..Len(document)
           /\ \A n \in 1..Len(document) : document[n].parent \in 0..n - 1
<1>1. document \in Seq(Elements)
  BY DEF DocumentIsTree
<1>2. Numbers = 1..Len(document)
  BY <1>1 DEF Numbers
<1> QED BY <1>1, <1>2 DEF DocumentIsTree

LEMMA AroundIs ==
    ASSUME IsXml, DocumentIsTree
    PROVE  /\ Around[0] = {} /\ \A n \in Numbers : Around[n] = {n} \cup Around[document[n].parent]
           /\ \A n \in Numbers : Around[n] \subseteq 1..n
<1> DEFINE k == Len(document)
<1>1. k \in Nat /\ Numbers = 1..k /\ \A n \in 1..k : document[n].parent \in 0..n - 1
  BY NumbersAre
<1>2. Unfolds(document, k, Around)
  BY <1>1, AroundUnfolds
<1> HIDE DEF k
<1>3. /\ Around[0] = {} /\ \A n \in 1..k : Around[n] = {n} \cup Around[document[n].parent]
      /\ \A n \in 0..k : Around[n] \subseteq 1..n
  BY <1>1, <1>2, UnfoldingIs
<1>4. \A n \in 1..k : n \in 0..k
  BY <1>1
<1> QED BY <1>1, <1>3, <1>4

LEMMA AroundKept ==
    ASSUME IsXml, DocumentIsTree, IsXml', DocumentIsTree', Kept
    PROVE  /\ \A n \in Numbers : Around'[n] = Around[n]
           /\ Around'[0] = {} /\ \A n \in Numbers' : Around'[n] = {n} \cup Around'[document'[n].parent]
           /\ \A n \in Numbers' : Around'[n] \subseteq 1..n
<1> DEFINE j == Len(document)
           k == Len(document')
<1>1. j \in Nat /\ Numbers = 1..j /\ \A n \in 1..j : document[n].parent \in 0..n - 1
  BY NumbersAre
<1>2. k \in Nat /\ Numbers' = 1..k /\ \A n \in 1..k : document'[n].parent \in 0..n - 1
  <2>1. document' \in Seq(Elements)
    BY DEF DocumentIsTree
  <2>2. Numbers' = 1..k
    BY <2>1 DEF Numbers
  <2> QED BY <2>1, <2>2 DEF DocumentIsTree
<1>3. Unfolds(document, j, Around)
  BY <1>1, AroundUnfolds
<1>4. Unfolds(document', k, Around')
  <2>1. \E f : Unfolds(document', k, f)
    BY <1>2, UnfoldingExists
  <2>2. Around' = CHOOSE f : Unfolds(document', k, f)
    BY DEF Around, Unfolds
  <2> QED BY <2>1, <2>2
<1>5. j <= k /\ \A n \in 1..j : document[n].parent = document'[n].parent
  <2>1. 1..j \subseteq 1..k
    BY <1>1, <1>2 DEF Kept
  <2> QED BY <1>1, <1>2, <2>1 DEF Kept
<1> HIDE DEF j, k
<1>6. \A n \in 0..j : Around[n] = Around'[n]
  <2> DEFINE p == document
             q == document'
             f == Around
             g == Around'
  <2>1. Unfolds(p, j, f) /\ Unfolds(q, k, g) /\ j \in Nat /\ k \in Nat /\ IsBegunBy(p, j, q, k)
    BY <1>1, <1>2, <1>3, <1>4, <1>5 DEF IsBegunBy
  <2> HIDE DEF p, q, f, g
  <2>2. \A n \in 0..j : f[n] = g[n]
    BY <2>1, UnfoldingsAgree
  <2> QED BY <2>2 DEF f, g
<1>7. /\ Around'[0] = {} /\ \A n \in 1..k : Around'[n] = {n} \cup Around'[document'[n].parent]
      /\ \A n \in 0..k : Around'[n] \subseteq 1..n
  BY <1>2, <1>4, UnfoldingIs
<1>8. /\ \A n \in 1..j : n \in 0..j
      /\ \A n \in 1..k : n \in 0..k
  BY <1>1, <1>2
<1>9. \A n \in Numbers : Around'[n] = Around[n]
  BY <1>1, <1>6, <1>8
<1>10. \A n \in Numbers' : Around'[n] \subseteq 1..n
  BY <1>2, <1>7, <1>8
<1> QED BY <1>2, <1>7, <1>9, <1>10

LEMMA XmlHomesKept ==
    ASSUME IsXml, DocumentIsTree, IsXml', DocumentIsTree', Kept
    PROVE  /\ \A n \in Numbers : Home(n)' = Home(n)
           /\ IsFeed' => IsFeed
           /\ ItemNumbers' \cap Numbers = ItemNumbers
<1>1. /\ Len(document) \in Nat /\ Numbers = 1..Len(document)
      /\ \A n \in Numbers : Around[n] \subseteq 1..n
  BY NumbersAre, AroundIs
<1>2. \A n \in Numbers : Around'[n] = Around[n] /\ Around[n] \subseteq Numbers
  BY <1>1, AroundKept
<1>3. ItemNumbers' \cap Numbers = ItemNumbers
  BY DEF ItemNumbers, Kept
<1>4. ASSUME NEW n \in Numbers PROVE Home(n)' = Home(n)
  <2>1. Around'[n] \cap ItemNumbers' = Around[n] \cap ItemNumbers
    BY <1>2, <1>3
  <2>2. {i \in ItemNumbers' : i <= n} = {i \in ItemNumbers : i <= n}
    <3>1. ItemNumbers' \subseteq Numbers' /\ Numbers' \subseteq Nat \ {0}
      <4>1. document' \in Seq(Elements)
        BY DEF DocumentIsTree
      <4> QED BY <4>1 DEF ItemNumbers, Numbers
    <3>2. \A i \in ItemNumbers' : i <= n => i \in Numbers
      BY <1>1, <3>1
    <3> QED BY <1>3, <3>2
  <2>3. Home(n) = IF Around[n] \cap ItemNumbers = {} THEN 0 ELSE Cardinality({i \in ItemNumbers : i <= n})
    BY DEF Home, ItemNumbers
  <2>4. Home(n)' = IF Around'[n] \cap ItemNumbers' = {} THEN 0
                   ELSE Cardinality({i \in ItemNumbers' : i <= n})
    BY DEF Home, ItemNumbers
  <2> QED BY <2>1, <2>2, <2>3, <2>4
<1>5. ASSUME IsFeed' PROVE IsFeed
  <2>1. ASSUME NEW n \in Numbers, document[n].name \in ItemElements \cup FeedElements,
               NEW m \in Around[n] \ {n}
        PROVE  document[m].name \in FeedElements \cup {"rss"}
    <3>1. n \in Numbers' /\ document'[n].name = document[n].name
      BY DEF Kept
    <3>2. m \in Around'[n] \ {n} /\ document'[m].name = document[m].name
      BY <1>2 DEF Kept
    <3> QED BY <1>5, <2>1, <3>1, <3>2 DEF IsFeed
  <2> QED BY <2>1 DEF IsFeed
<1> QED BY <1>3, <1>4, <1>5

LEMMA JsonHomesKept ==
    ASSUME ~IsXml, DocumentIsTree, ~IsXml', DocumentIsTree', Numbers \subseteq Numbers',
           \A n \in Numbers : document'[n] = document[n]
    PROVE  \A n \in Numbers : Home(n)' = Home(n) /\ MetItems(n)' = MetItems(n)
<1>1. Len(document) \in Nat /\ Numbers = 1..Len(document)
  <2>1. document \in Seq(grammar.rows)
    BY DEF DocumentIsTree
  <2> QED BY <2>1 DEF Numbers
<1>2. ASSUME NEW n \in Numbers PROVE MetItems(n)' = MetItems(n)
  <2>1. \A i \in 1..n : document'[i] = document[i]
    BY <1>1
  <2>2. {j \in 1..n : InItems(document'[j])} = {j \in 1..n : InItems(document[j])}
    BY <2>1
  <2> QED BY <2>1, <2>2 DEF MetItems
<1>3. ASSUME NEW n \in Numbers PROVE Home(n)' = Home(n)
  <2>1. Home(n) = IF InItems(document[n]) THEN Cardinality(MetItems(n)) ELSE 0
    BY DEF Home, MetItems
  <2>2. Home(n)' = IF InItems(document'[n]) THEN Cardinality(MetItems(n)') ELSE 0
    BY DEF Home, MetItems
  <2> QED BY <1>2, <2>1, <2>2
<1> QED BY <1>2, <1>3

LEMMA BelongGrows ==
    ASSUME Numbers \subseteq Numbers', \A n \in Numbers : Home(n)' = Home(n), NEW k
    PROVE  Belong(k) \subseteq Belong(k)'
BY DEF Belong

LEMMA BelongIsTokens ==
    ASSUME NEW k
    PROVE  IsTokens(Belong(k)) /\ IsTokens(Belong(k)')
<1>1. Marks \subseteq Belong(k) /\ Belong(k) \subseteq Int
  BY DEF Marks, Belong
<1>2. Marks \subseteq Belong(k)' /\ Belong(k)' \subseteq Int
  BY DEF Marks, Belong
<1> QED BY <1>1, <1>2 DEF IsTokens

(* What is stored stays where it belongs while more is read.                  *)
LEMMA RowsStay ==
    ASSUME RowsAreOfHomes, ItemsAreThere, Numbers \subseteq Numbers',
           \A n \in Numbers : Home(n)' = Home(n), NEW L, L = Len(data.items)
    PROVE  /\ Holds(data, Belong(0)', Belong(L)')
           /\ \A k \in 1..L : data.items[k] \in ItemRow(Belong(L + 1 - k)')
           /\ L \in Nat
<1> DEFINE I == ItemRow(Int)
<1>1. data \in Data /\ data.items \in Seq(I)
  BY DEF ItemsAreThere, Data
<1>2. L \in Nat /\ DOMAIN data.items = 1..L
  <2> HIDE DEF I
  <2> QED BY <1>1
<1>3. \A k \in Int : Belong(k) \subseteq Belong(k)'
  BY BelongGrows
<1>4. data.feed \in FeedRow(Belong(0)')
  BY <1>3, RowsGrow DEF RowsAreOfHomes
<1>5. ASSUME NEW k \in 1..L PROVE data.items[k] \in ItemRow(Belong(L + 1 - k)')
  <2>1. PICK m \in Int : m = L + 1 - k
    <3>1. L + 1 - k \in Int
      BY <1>2
    <3> QED BY <3>1
  <2>2. data.items[k] \in ItemRow(Belong(m))
    BY <1>2, <2>1 DEF RowsAreOfHomes
  <2>3. ItemRow(Belong(m)) \subseteq ItemRow(Belong(m)')
    BY <1>3, RowsGrow
  <2>4. data.items[k] \in ItemRow(Belong(m)')
    BY <2>2, <2>3
  <2> QED BY <2>1, <2>4
<1>6. data.items # <<>> => data.items[1] \in ItemRow(Belong(L)')
  <2>1. data.items # <<>> => 1 \in 1..L /\ L + 1 - 1 = L
    <3> HIDE DEF I
    <3> QED BY <1>1
  <2> QED BY <1>5, <2>1
<1> QED BY <1>1, <1>2, <1>4, <1>5, <1>6 DEF Holds

LEMMA FramesAre ==
    /\ ItemElements \cap (FeedElements \cup {"rss"}) = {}
    /\ AtomTexts \cap Frames = {}
    /\ ItemElements \subseteq Frames /\ FeedElements \subseteq Frames
BY DEF Frames, ItemElements, FeedElements, AtomTexts

(* What the path says of an open element that has no item inside of it: the    *)
(* handlers that ask for the place agree with those that ask for in_item.     *)
LEMMA PlaceDecides ==
    ASSUME PathInvariant, IsXml, AroundIsOpen, ItemsAreCounted, IsFeed, FitsPath,
           NEW k \in 0..Len(open), \A i \in k + 1..Len(open) : open[i] \notin ItemNumbers
    PROVE  /\ data.path[k] = "GENERIC_ITEM" =>
                data.in_item /\ k \in DOMAIN open /\ document[open[k]].name \in ItemElements
           /\ data.path[k] = "GENERIC_FEED" => ~data.in_item
<1>1. open \in Seq(Nat) /\ DOMAIN open = 1..Len(open) /\ Len(open) \in Nat
  BY DEF PathInvariant, OpenAreNested
<1>2. /\ \A i \in 1..Len(open) : open[i] \in Numbers
      /\ \A i \in 1..Len(open), j \in 1..Len(open) : i < j => open[i] < open[j]
  BY <1>1 DEF PathInvariant, OpenAreNested
<1>3. /\ data.path[0] = "XML_UNKNOWN_POS"
      /\ \A i \in 1..Len(open) : data.path[i] = Position(document[open[i]].name)
  BY <1>1 DEF PathInvariant, PathIsOfOpen
<1>4. ASSUME data.path[k] \in {"GENERIC_ITEM", "GENERIC_FEED"} PROVE k \in 1..Len(open)
  BY <1>1, <1>3, <1>4
<1>5. CASE data.path[k] = "GENERIC_ITEM"
  <2>1. k \in 1..Len(open) /\ document[open[k]].name \in ItemElements
    BY <1>3, <1>4, <1>5, PositionIs
  <2>2. open[k] \in ItemNumbers
    BY <1>2, <2>1 DEF ItemNumbers
  <2> QED BY <1>1, <1>5, <2>1, <2>2 DEF ItemsAreCounted
<1>6. CASE data.path[k] = "GENERIC_FEED"
  <2>1. k \in 1..Len(open) /\ document[open[k]].name \in FeedElements
    BY <1>3, <1>4, <1>6, PositionIs
  <2>2. ASSUME NEW i \in 1..Len(open), open[i] \in ItemNumbers PROVE FALSE
    <3>1. document[open[i]].name \in ItemElements
      BY <2>2 DEF ItemNumbers
    <3>2. i <= k
      BY <1>1, <2>2
    <3>3. i # k
      BY <2>1, <3>1, FramesAre
    <3>4. i \in 1..k /\ open[i] < open[k] /\ k \in 1..k
      BY <1>1, <1>2, <2>1, <3>2, <3>3
    <3>5. open[i] \in Around[open[k]] \ {open[k]}
      <4>1. Around[open[k]] = {open[j] : j \in 1..k}
        BY <1>1, <2>1 DEF AroundIsOpen
      <4>2. open[i] \in Nat /\ open[k] \in Nat
        BY <1>1, <2>1
      <4> QED BY <3>4, <4>1, <4>2
    <3>6. document[open[i]].name \in FeedElements \cup {"rss"}
      BY <1>2, <2>1, <3>5 DEF IsFeed
    <3> QED BY <3>1, <3>6, FramesAre
  <2> QED BY <1>1, <1>6, <2>2 DEF ItemsAreCounted
<1> QED BY <1>5, <1>6

(* The home of the innermost open element.                                    *)
LEMMA HomeIsHere ==
    ASSUME PathInvariant, IsXml, AroundIsOpen, ItemsAreCounted, NEW n, open # <<>>, n = open[Len(open)]
    PROVE  n \in Belong(Here)
<1> DEFINE L == Len(open)
<1>1. open \in Seq(Nat) /\ DOMAIN open = 1..L /\ L \in Nat /\ L \in 1..L
  BY DEF PathInvariant, OpenAreNested
<1>2. /\ \A i \in 1..L : open[i] \in Numbers /\ open[i] \in Nat
      /\ \A i \in 1..L, j \in 1..L : i < j => open[i] < open[j]
  <2>1. \A i \in 1..L : open[i] \in Numbers
    BY <1>1 DEF PathInvariant, OpenAreNested
  <2>2. \A i \in 1..L : open[i] \in Nat
    BY <1>1
  <2>3. \A i \in 1..L, j \in 1..L : i < j => open[i] < open[j]
    BY <1>1 DEF PathInvariant, OpenAreNested
  <2> QED BY <2>1, <2>2, <2>3
<1>3. Around[n] = {open[j] : j \in 1..L}
  BY <1>1 DEF AroundIsOpen
<1>4. Home(n) = IF Around[n] \cap ItemNumbers = {} THEN 0 ELSE Cardinality({i \in ItemNumbers : i <= n})
  BY DEF Home, ItemNumbers
<1>5. ASSUME data.in_item PROVE Home(n) = Here
  <2>1. PICK i \in 1..L : open[i] \in ItemNumbers /\ \A m \in ItemNumbers : m <= open[i]
    BY <1>1, <1>5 DEF ItemsAreCounted
  <2>2. Around[n] \cap ItemNumbers # {}
    BY <1>3, <2>1
  <2>3. open[i] <= n
    BY <1>1, <1>2
  <2>4. \A m \in ItemNumbers : m \in Nat
    <3>1. document \in Seq(Elements)
      BY DEF PathInvariant, DocumentIsTree
    <3> QED BY <3>1 DEF ItemNumbers, Numbers
  <2>5. \A m \in ItemNumbers : m <= n
    BY <1>1, <1>2, <2>1, <2>3, <2>4
  <2>6. {m \in ItemNumbers : m <= n} = ItemNumbers
    BY <2>5
  <2> QED BY <1>4, <1>5, <2>2, <2>6 DEF Here, ItemsAreCounted
<1>6. ASSUME ~data.in_item PROVE Home(n) = Here
  <2>1. Around[n] \cap ItemNumbers = {}
    BY <1>1, <1>3, <1>6 DEF ItemsAreCounted
  <2> QED BY <1>4, <1>6, <2>1 DEF Here
<1>7. Home(n) = Here
  BY <1>5, <1>6
<1>8. n \in Int /\ n \in Numbers
  BY <1>1, <1>2
<1> QED BY <1>7, <1>8 DEF Belong

(* A start tag.                                                               *)
LEMMA StartsWithin ==
    ASSUME PathInvariant, PathInvariant', IsXml => AroundIsOpen, NEW name \in STRING,
           NEW attrs \in Attributes(name, Len(document) + 1), Start(name, attrs),
           NEW n, n = Len(document) + 1, NEW L, L = Len(open)
    PROVE  /\ IsXml /\ IsXml' /\ AroundIsOpen /\ AroundIsOpen' /\ Kept /\ n \notin Numbers
           /\ Numbers' = Numbers \cup {n} /\ Numbers = 1..n - 1 /\ n \in Nat \ {0}
           /\ L \in Nat /\ DOMAIN open = 1..L /\ DOMAIN open' = 1..L + 1
           /\ \A i \in 1..L : open'[i] = open[i] /\ open[i] \in Numbers
           /\ open'[L + 1] = n /\ document'[n].name = name
           /\ \A m \in Numbers : Home(m)' = Home(m)
           /\ IsFeed' => IsFeed
           /\ Around'[n] = {n} \cup {open[i] : i \in 1..L}
           /\ ItemNumbers' = ItemNumbers \cup (IF name \in ItemElements THEN {n} ELSE {})
<1>1. IsXml /\ AroundIsOpen /\ DocumentIsTree /\ DocumentIsTree' /\ OpenAreNested /\ OpenAreNested'
  BY DocumentStarts DEF PathInvariant
<1>2. IsXml'
  BY <1>1 DEF Start, IsXml, grammar
<1>3. /\ Len(document) \in Nat /\ Numbers = 1..Len(document) /\ L \in Nat /\ DOMAIN open = 1..L
      /\ open \in Seq(Nat) /\ open' \in Seq(Nat) /\ document' \in Seq(Elements)
  BY <1>1, <1>2, NumbersAre DEF OpenAreNested, DocumentIsTree
<1>4. /\ Len(document') = n /\ \A m \in Numbers : document'[m] = document[m]
      /\ document'[n].name = name
      /\ document'[n].parent = (IF open = <<>> THEN 0 ELSE open[L])
      /\ Len(open') = L + 1 /\ \A i \in DOMAIN open : open'[i] = open[i]
      /\ open'[L + 1] = n
  BY <1>1, DocumentStarts
<1>5. /\ n \in Nat \ {0} /\ Numbers = 1..n - 1 /\ n \notin Numbers /\ Numbers' = Numbers \cup {n}
      /\ DOMAIN open' = 1..L + 1
  <2>1. Numbers' = 1..n
    BY <1>3, <1>4 DEF Numbers
  <2> QED BY <1>3, <1>4, <2>1
<1>6. Kept
  BY <1>4, <1>5 DEF Kept
<1>7. /\ \A m \in Numbers : Home(m)' = Home(m)
      /\ IsFeed' => IsFeed
      /\ ItemNumbers' \cap Numbers = ItemNumbers
  BY <1>1, <1>2, <1>6, XmlHomesKept
<1>8. /\ \A m \in Numbers : Around'[m] = Around[m]
      /\ Around'[0] = {} /\ \A m \in Numbers' : Around'[m] = {m} \cup Around'[document'[m].parent]
  BY <1>1, <1>2, <1>6, AroundKept
<1>9. \A i \in 1..L : open'[i] = open[i] /\ open[i] \in Numbers
  BY <1>1, <1>3, <1>4 DEF OpenAreNested
<1>10. Around'[n] = {n} \cup {open[i] : i \in 1..L}
  <2>1. Around'[n] = {n} \cup Around'[document'[n].parent]
    BY <1>5, <1>8
  <2>2. CASE open = <<>>
    <3>1. L = 0
      BY <1>3, <2>2
    <3>2. {open[i] : i \in 1..L} = {}
      BY <3>1
    <3> QED BY <1>4, <1>8, <2>1, <2>2, <3>2
  <2>3. CASE open # <<>>
    <3>1. L \in 1..L
      BY <1>3, <2>3
    <3>2. Around[open[L]] = {open[i] : i \in 1..L}
      BY <1>1, <1>3, <3>1 DEF AroundIsOpen
    <3> QED BY <1>4, <1>8, <1>9, <2>1, <2>3, <3>1, <3>2
  <2> QED BY <2>2, <2>3
<1>11. AroundIsOpen'
  <2>1. ASSUME NEW i \in 1..L + 1 PROVE Around'[open'[i]] = {open'[j] : j \in 1..i}
    <3>1. CASE i \in 1..L
      <4>1. Around[open[i]] = {open[j] : j \in 1..i}
        BY <1>1, <1>3, <3>1 DEF AroundIsOpen
      <4>2. \A j \in 1..i : open'[j] = open[j]
        BY <1>3, <1>9, <3>1
      <4> QED BY <1>8, <1>9, <3>1, <4>1, <4>2
    <3>2. CASE i = L + 1
      <4>1. {open'[j] : j \in 1..i} = {open'[L + 1]} \cup {open'[j] : j \in 1..L}
        <5>1. 1..i = {L + 1} \cup (1..L)
          BY <1>3, <3>2
        <5> QED BY <5>1
      <4>2. {open'[j] : j \in 1..L} = {open[j] : j \in 1..L}
        BY <1>9
      <4> QED BY <1>4, <1>10, <3>2, <4>1, <4>2
    <3> QED BY <1>3, <3>1, <3>2
  <2> QED BY <1>5, <2>1 DEF AroundIsOpen
<1>12. ItemNumbers' = ItemNumbers \cup (IF name \in ItemElements THEN {n} ELSE {})
  BY <1>4, <1>5, <1>7 DEF ItemNumbers
<1> QED BY <1>1, <1>2, <1>3, <1>4, <1>5, <1>6, <1>7, <1>9, <1>10, <1>11, <1>12

XmlHomes == ItemsAreCounted /\ TextIsOfHere /\ RowsAreOfHomes

LEMMA DataItems ==
    ASSUME NEW d \in Data
    PROVE  Len(d.items) \in Nat /\ DOMAIN d.items = 1..Len(d.items)
<1> DEFINE I == ItemRow(Int)
<1>1. d.items \in Seq(I)
  BY DEF Data
<1> HIDE DEF I
<1> QED BY <1>1

LEMMA ItemHomesStart ==
    ASSUME PathInvariant, PathInvariant', AroundIsOpen, XmlHomes, IsFeed, IsFeed', FitsPath,
           NEW name \in STRING, name \in ItemElements, NEW attrs \in Attributes(name, Len(document) + 1),
           Start(name, attrs)
    PROVE  XmlHomes'
<1>01. PICK n : n = Len(document) + 1
  OBVIOUS
<1>02. PICK L : L = Len(open)
  OBVIOUS
<1>1. /\ IsXml /\ IsXml' /\ AroundIsOpen' /\ Kept /\ n \notin Numbers
      /\ Numbers' = Numbers \cup {n} /\ Numbers = 1..n - 1 /\ n \in Nat \ {0}
      /\ L \in Nat /\ DOMAIN open = 1..L /\ DOMAIN open' = 1..L + 1
      /\ \A i \in 1..L : open'[i] = open[i] /\ open[i] \in Numbers
      /\ open'[L + 1] = n /\ document'[n].name = name
      /\ \A m \in Numbers : Home(m)' = Home(m)
      /\ Around'[n] = {n} \cup {open[i] : i \in 1..L}
      /\ ItemNumbers' = ItemNumbers \cup {n}
  <2>1. ItemNumbers' = ItemNumbers \cup (IF name \in ItemElements THEN {n} ELSE {})
    BY <1>01, <1>02, StartsWithin
  <2>2. ItemNumbers' = ItemNumbers \cup {n}
    BY <2>1
  <2> QED BY <1>01, <1>02, <2>2, StartsWithin
<1>2. data' = start_element_handler(data, name, attrs, n)
  BY <1>01 DEF Start
<1>3. data \in Data /\ data' \in Data
  BY DEF PathInvariant, ItemsAreThere
<1>4. \A i \in 1..L : document[open[i]].name \in FeedElements \cup {"rss"}
  <2>1. ASSUME NEW i \in 1..L PROVE document[open[i]].name \in FeedElements \cup {"rss"}
    <3>1. open[i] \in Around'[n] \ {n} /\ document'[open[i]].name = document[open[i]].name
      BY <1>1 DEF Kept
    <3>2. n \in Numbers' /\ document'[n].name \in ItemElements
      BY <1>1
    <3>3. \A m \in Numbers' : document'[m].name \in ItemElements \cup FeedElements
                              => \A q \in Around'[m] \ {m} : document'[q].name \in FeedElements \cup {"rss"}
      BY <1>1 DEF IsFeed
    <3> QED BY <3>1, <3>2, <3>3
  <2> QED BY <2>1
<1>5. \A i \in 1..L : open[i] \notin ItemNumbers
  BY <1>4, FramesAre DEF ItemNumbers
<1>6. ~data.in_item /\ ~data.decoy
  BY <1>1, <1>4, <1>5, FramesAre DEF XmlHomes, ItemsAreCounted, TextIsOfHere, Frames
<1> DEFINE K == Len(data.items)
<1>7. PICK k : k = K
  OBVIOUS
<1>8. /\ Holds(data, Belong(0)', Belong(k)') /\ k \in Nat
      /\ \A i \in 1..k : data.items[i] \in ItemRow(Belong(k + 1 - i)')
  BY <1>1, <1>7, RowsStay DEF XmlHomes, PathInvariant
<1>9. PICK j : j = k + 1
  OBVIOUS
<1> DEFINE F == Belong(0)'
           C == Belong(k)'
           D == Belong(j)'
           e == data'
<1>10. Holds(e, F, D) /\ ItemStarted(data, name, e)
  <2>1. Holds(data, F, C) /\ e = start_element_handler(data, name, attrs, n)
    BY <1>2, <1>8
  <2> HIDE DEF F, C, D, e
  <2> QED BY <2>1, StartItem
<1>11. /\ Len(e.items) = j /\ e.in_item = TRUE /\ ~e.decoy
       /\ \A i \in 2..j : e.items[i] = data.items[i - 1]
  BY <1>3, <1>6, <1>7, <1>9, <1>10 DEF ItemStarted, Data
<1>12. ItemsAreCounted'
  <2>1. K = Cardinality(ItemNumbers) /\ IsFiniteSet(ItemNumbers) /\ n \notin ItemNumbers
    <3>1. IsFiniteSet(1..n - 1)
      <4>1. 1 \in Int /\ n - 1 \in Int
        BY <1>1
      <4> QED BY <4>1, FS_Interval
    <3>2. ItemNumbers \subseteq 1..n - 1
      BY <1>1 DEF ItemNumbers
    <3>3. IsFiniteSet(ItemNumbers)
      BY <3>1, <3>2, FS_Subset
    <3>4. n \notin ItemNumbers
      BY <1>1 DEF ItemNumbers
    <3> QED BY <3>3, <3>4 DEF XmlHomes, ItemsAreCounted
  <2>2. Cardinality(ItemNumbers') = j
    <3>1. Cardinality(ItemNumbers \cup {n}) = Cardinality(ItemNumbers) + 1
      BY <2>1, FS_AddElement
    <3> QED BY <1>1, <1>7, <1>9, <2>1, <3>1
  <2>3. L + 1 \in DOMAIN open' /\ open'[L + 1] \in ItemNumbers'
    BY <1>1
  <2>4. \A i \in DOMAIN open' : open'[i] \in ItemNumbers' => i = L + 1
    <3>1. \A i \in 1..L : open[i] \notin ItemNumbers /\ open[i] # n
      BY <1>1, <1>5
    <3> QED BY <1>1, <3>1
  <2>5. \A m \in ItemNumbers' : m <= n
    BY <1>1 DEF ItemNumbers
  <2> QED BY <1>1, <1>11, <2>2, <2>3, <2>4, <2>5 DEF ItemsAreCounted
<1>13. TextIsOfHere'
  <2>1. OpenNames' \subseteq Frames
    <3>1. ASSUME NEW i \in DOMAIN open' PROVE document'[open'[i]].name \in Frames
      <4>1. CASE i \in 1..L
        <5>1. document'[open'[i]].name = document[open[i]].name
          BY <1>1, <4>1 DEF Kept
        <5> QED BY <1>4, <4>1, <5>1 DEF Frames
      <4>2. CASE i = L + 1
        BY <1>1, <4>2, FramesAre
      <4> QED BY <1>1, <4>1, <4>2
    <3> QED BY <3>1 DEF OpenNames
  <2> QED BY <1>11, <2>1 DEF TextIsOfHere
<1>14. RowsAreOfHomes'
  <2>1. e.feed \in FeedRow(Belong(0)')
    BY <1>10 DEF Holds
  <2>2. DOMAIN e.items = 1..j /\ j \in Nat /\ e.items # <<>>
    BY <1>3, <1>8, <1>9, <1>10, <1>11, DataItems DEF ItemStarted
  <2>3. ASSUME NEW i \in 1..j PROVE e.items[i] \in ItemRow(Belong(j + 1 - i)')
    <3>1. CASE i = 1
      <4>1. j + 1 - i = j
        BY <2>2, <3>1
      <4> QED BY <1>10, <2>2, <3>1, <4>1 DEF Holds
    <3>2. CASE i \in 2..j
      <4>1. i - 1 \in 1..k /\ k + 1 - (i - 1) = j + 1 - i
        BY <1>8, <1>9, <3>2
      <4>2. data.items[i - 1] \in ItemRow(Belong(k + 1 - (i - 1))')
        BY <1>8, <4>1
      <4> QED BY <1>11, <3>2, <4>1, <4>2
    <3> QED BY <2>2, <3>1, <3>2
  <2> QED BY <1>11, <2>1, <2>2, <2>3 DEF RowsAreOfHomes
<1> QED BY <1>12, <1>13, <1>14 DEF XmlHomes

LEMMA ElementHomesStart ==
    ASSUME PathInvariant, PathInvariant', AroundIsOpen, XmlHomes, IsFeed, IsFeed', FitsPath,
           NEW name \in STRING, name \notin ItemElements,
           NEW attrs \in Attributes(name, Len(document) + 1), Start(name, attrs)
    PROVE  XmlHomes'
<1>01. PICK n : n = Len(document) + 1
  OBVIOUS
<1>02. PICK L : L = Len(open)
  OBVIOUS
<1>1. /\ IsXml /\ IsXml' /\ AroundIsOpen' /\ Kept /\ n \notin Numbers
      /\ Numbers' = Numbers \cup {n} /\ Numbers = 1..n - 1 /\ n \in Nat \ {0}
      /\ L \in Nat /\ DOMAIN open = 1..L /\ DOMAIN open' = 1..L + 1
      /\ \A i \in 1..L : open'[i] = open[i] /\ open[i] \in Numbers
      /\ open'[L + 1] = n /\ document'[n].name = name
      /\ \A m \in Numbers : Home(m)' = Home(m)
      /\ Around'[n] = {n} \cup {open[i] : i \in 1..L}
      /\ ItemNumbers' = ItemNumbers
  <2>1. ItemNumbers' = ItemNumbers \cup (IF name \in ItemElements THEN {n} ELSE {})
    BY <1>01, <1>02, StartsWithin
  <2>2. ItemNumbers' = ItemNumbers
    BY <2>1
  <2> QED BY <1>01, <1>02, <2>2, StartsWithin
<1>2. data' = start_element_handler(data, name, attrs, n)
  BY <1>01 DEF Start
<1>3. data \in Data /\ data' \in Data
  BY DEF PathInvariant, ItemsAreThere
<1>4. data.depth = L
  BY <1>02 DEF PathInvariant, PathIsOfOpen
<1>5. /\ data.path[L] = "GENERIC_ITEM" =>
           data.in_item /\ L \in DOMAIN open /\ document[open[L]].name \in ItemElements
      /\ data.path[L] = "GENERIC_FEED" => ~data.in_item
  <2>1. L \in 0..Len(open) /\ \A i \in L + 1..Len(open) : open[i] \notin ItemNumbers
    BY <1>1, <1>02
  <2> QED BY <1>1, <1>02, <2>1, PlaceDecides DEF XmlHomes
<1>6. PICK k : k = Len(data.items)
  OBVIOUS
<1>7. /\ Holds(data, Belong(0)', Belong(k)') /\ k \in Nat
      /\ \A i \in 1..k : data.items[i] \in ItemRow(Belong(k + 1 - i)')
  BY <1>1, <1>6, RowsStay DEF XmlHomes, PathInvariant
<1>8. PICK h : h = Here
  OBVIOUS
<1>9. h = IF data.in_item THEN k ELSE 0
  BY <1>6, <1>8 DEF Here
<1> DEFINE F == Belong(0)'
           C == Belong(k)'
           T == Belong(h)'
           e == data'
<1>10. n \in T
  <2>1. Around'[n] \cap ItemNumbers' = {} <=> ~data.in_item
    <3>1. n \notin ItemNumbers'
      BY <1>1 DEF ItemNumbers
    <3>2. data.in_item <=> \E i \in 1..L : open[i] \in ItemNumbers
      BY <1>1 DEF XmlHomes, ItemsAreCounted
    <3> QED BY <1>1, <3>1, <3>2
  <2>2. {m \in ItemNumbers' : m <= n} = ItemNumbers
    <3>1. \A m \in ItemNumbers : m \in 1..n - 1
      BY <1>1 DEF ItemNumbers
    <3> QED BY <1>1, <3>1
  <2>3. Home(n)' = IF Around'[n] \cap ItemNumbers' = {} THEN 0
                   ELSE Cardinality({m \in ItemNumbers' : m <= n})
    BY <1>1 DEF Home, ItemNumbers
  <2>4. k = Cardinality(ItemNumbers)
    BY <1>6 DEF XmlHomes, ItemsAreCounted
  <2>5. Home(n)' = h
    BY <1>9, <2>1, <2>2, <2>3, <2>4
  <2>6. n \in Int /\ n \in Numbers'
    BY <1>1
  <2> QED BY <2>5, <2>6 DEF Belong
<1>11. IsTokens(F) /\ IsTokens(C) /\ IsTokens(T)
  BY BelongIsTokens
<1>12. AttrsOf(attrs, T)
  BY <1>01, <1>10, <1>11, AttributesAre DEF IsTokens
<1>13. Targets(data, T, F, C)
  <2>1. data.in_item \/ At(data) = "item" => data.items # <<>> /\ T \subseteq C
    BY <1>4, <1>5, <1>9, AtIs DEF PathInvariant, ItemsAreThere
  <2>2. ~data.in_item \/ At(data) = "feed" => T \subseteq F
    BY <1>4, <1>5, <1>9, AtIs
  <2> QED BY <1>7, <1>11, <2>1, <2>2 DEF Targets
<1>14. data.decoy => data.text \in Seq(T)
  <2>1. ASSUME data.decoy PROVE data.text \in Seq(Belong(h))
    <3>1. PICK i \in DOMAIN open : document[open[i]].name \in AtomTexts
      BY <2>1 DEF XmlHomes, TextIsOfHere
    <3>2. ~(OpenNames \subseteq Frames)
      BY <3>1, FramesAre DEF OpenNames
    <3> QED BY <1>8, <3>2 DEF XmlHomes, TextIsOfHere
  <2>2. Belong(h) \subseteq T
    BY <1>1, BelongGrows
  <2> QED BY <2>1, <2>2, RowsGrow
<1>15. Holds(e, F, C) /\ ElementStarted(data, name, T, e)
  <2>1. e = start_element_handler(data, name, attrs, n)
    BY <1>2
  <2> HIDE DEF F, C, T, e
  <2> QED BY <1>10, <1>12, <1>13, <1>14, <2>1, StartElement
<1>16. /\ Len(e.items) = k /\ e.in_item = data.in_item /\ e.text \in Seq(Belong(h)')
       /\ \A i \in 2..k : e.items[i] = data.items[i]
       /\ e.decoy = data.decoy \/ (name \in AtomTexts /\ At(data) = "item")
  BY <1>6, <1>15 DEF ElementStarted
<1>17. ItemsAreCounted'
  <2>1. n \notin ItemNumbers /\ \A i \in 1..L : i \in 1..L + 1
    BY <1>1 DEF ItemNumbers
  <2>2. (\E i \in 1..L + 1 : open'[i] \in ItemNumbers) <=> \E i \in 1..L : open[i] \in ItemNumbers
    BY <1>1, <2>1
  <2>3. \A i \in 1..L + 1 : open'[i] \in ItemNumbers => \A m \in ItemNumbers : m <= open'[i]
    <3>1. \A i \in 1..L + 1 : open'[i] \in ItemNumbers => i \in 1..L /\ open'[i] = open[i]
      BY <1>1, <2>1
    <3>2. \A i \in 1..L : open[i] \in ItemNumbers => \A m \in ItemNumbers : m <= open[i]
      BY <1>1 DEF XmlHomes, ItemsAreCounted
    <3> QED BY <3>1, <3>2
  <2> QED BY <1>1, <1>6, <1>16, <2>2, <2>3 DEF XmlHomes, ItemsAreCounted
<1>18. TextIsOfHere'
  <2>1. e.text \in Seq(Belong(Here)')
    <3>1. Here' = h
      BY <1>9, <1>16 DEF Here
    <3>2. Belong(Here)' = T
      BY <3>1 DEF Belong
    <3> QED BY <1>16, <3>2
  <2>2. ASSUME e.decoy
        PROVE  \E i \in DOMAIN open' : /\ i > 1 /\ document'[open'[i]].name \in AtomTexts
                                      /\ document'[open'[i - 1]].name \in ItemElements
    <3>1. CASE data.decoy
      <4>1. PICK i \in 1..L : i > 1 /\ document[open[i]].name \in AtomTexts
                                   /\ document[open[i - 1]].name \in ItemElements
        BY <1>1, <3>1 DEF XmlHomes, TextIsOfHere
      <4>2. i - 1 \in 1..L /\ i \in 1..L + 1
        BY <1>1, <4>1
      <4>3. document'[open'[i]].name = document[open[i]].name
            /\ document'[open'[i - 1]].name = document[open[i - 1]].name
        BY <1>1, <4>2 DEF Kept
      <4> QED BY <1>1, <4>1, <4>2, <4>3
    <3>2. CASE name \in AtomTexts /\ At(data) = "item"
      <4>1. L \in 1..L /\ document[open[L]].name \in ItemElements
        BY <1>1, <1>4, <1>5, <3>2, AtIs
      <4>2. L + 1 > 1 /\ (L + 1) - 1 = L /\ L + 1 \in 1..L + 1
        BY <1>1, <4>1
      <4>3. document'[open'[L]].name = document[open[L]].name
        BY <1>1, <4>1 DEF Kept
      <4> QED BY <1>1, <3>2, <4>1, <4>2, <4>3
    <3> QED BY <1>16, <2>2, <3>1, <3>2
  <2> QED BY <2>1, <2>2 DEF TextIsOfHere
<1>19. RowsAreOfHomes'
  <2>1. e.feed \in FeedRow(Belong(0)')
    BY <1>15 DEF Holds
  <2>2. DOMAIN e.items = 1..k
    BY <1>3, <1>16, DataItems
  <2>3. ASSUME NEW i \in 1..k PROVE e.items[i] \in ItemRow(Belong(k + 1 - i)')
    <3>1. CASE i = 1
      <4>1. k + 1 - i = k
        BY <1>7, <3>1
      <4>2. e.items # <<>>
        BY <1>7, <1>16, <3>1
      <4> QED BY <1>15, <3>1, <4>1, <4>2 DEF Holds
    <3>2. CASE i \in 2..k
      BY <1>7, <1>16, <3>2
    <3> QED BY <1>7, <3>1, <3>2
  <2> QED BY <1>16, <2>1, <2>2, <2>3 DEF RowsAreOfHomes
<1> QED BY <1>17, <1>18, <1>19 DEF XmlHomes

(* An end tag.                                                                *)
LEMMA EndsWithin ==
    ASSUME PathInvariant, PathInvariant', IsXml => AroundIsOpen, End,
           NEW L, L = Len(open), NEW n, n = open[L]
    PROVE  /\ IsXml /\ IsXml' /\ AroundIsOpen /\ AroundIsOpen' /\ Kept /\ n \in Numbers
           /\ Numbers' = Numbers /\ n \in Nat
           /\ L \in Nat \ {0} /\ DOMAIN open = 1..L /\ DOMAIN open' = 1..L - 1
           /\ \A i \in 1..L - 1 : open'[i] = open[i]
           /\ \A i \in 1..L : open[i] \in Numbers
           /\ document[n].name \in STRING
           /\ \A m \in Numbers : Home(m)' = Home(m)
           /\ IsFeed' => IsFeed
           /\ ItemNumbers' = ItemNumbers
<1>1. IsXml /\ AroundIsOpen /\ DocumentIsTree /\ DocumentIsTree' /\ OpenAreNested /\ OpenAreNested'
  BY DocumentEnds DEF PathInvariant
<1>2. IsXml'
  BY <1>1 DEF End, IsXml, grammar
<1>3. /\ Len(document) \in Nat /\ Numbers = 1..Len(document) /\ DOMAIN open = 1..L
      /\ open \in Seq(Nat) /\ open' \in Seq(Nat) /\ document' \in Seq(Elements)
  BY <1>1, <1>2, NumbersAre DEF OpenAreNested, DocumentIsTree
<1>4. /\ L \in Nat \ {0} /\ Len(document') = Len(document)
      /\ \A m \in Numbers : /\ document'[m].name = document[m].name
                           /\ document'[m].parent = document[m].parent
      /\ Len(open') = L - 1 /\ \A i \in DOMAIN open' : open'[i] = open[i]
      /\ n \in Numbers /\ document[n].name \in STRING
  BY <1>1, DocumentEnds
<1>5. Numbers' = Numbers /\ DOMAIN open' = 1..L - 1 /\ n \in Nat
  BY <1>3, <1>4 DEF Numbers
<1>6. Kept
  BY <1>4, <1>5 DEF Kept
<1>7. /\ \A m \in Numbers : Home(m)' = Home(m)
      /\ IsFeed' => IsFeed
      /\ ItemNumbers' \cap Numbers = ItemNumbers
  BY <1>1, <1>2, <1>6, XmlHomesKept
<1>8. \A m \in Numbers : Around'[m] = Around[m]
  BY <1>1, <1>2, <1>6, AroundKept
<1>9. \A i \in 1..L : open[i] \in Numbers
  BY <1>1, <1>3 DEF OpenAreNested
<1>10. AroundIsOpen'
  <2>1. ASSUME NEW i \in 1..L - 1 PROVE Around'[open'[i]] = {open'[j] : j \in 1..i}
    <3>1. i \in 1..L /\ \A j \in 1..i : j \in 1..L - 1
      BY <1>4
    <3>2. Around[open[i]] = {open[j] : j \in 1..i}
      BY <1>1, <1>3, <3>1 DEF AroundIsOpen
    <3>3. open'[i] = open[i] /\ \A j \in 1..i : open'[j] = open[j]
      BY <1>4, <1>5, <3>1
    <3> QED BY <1>8, <1>9, <3>1, <3>2, <3>3
  <2> QED BY <1>5, <2>1 DEF AroundIsOpen
<1>11. ItemNumbers' = ItemNumbers
  BY <1>5, <1>7 DEF ItemNumbers
<1> QED BY <1>1, <1>2, <1>3, <1>4, <1>5, <1>6, <1>7, <1>9, <1>10, <1>11

LEMMA ItemHomesEnd ==
    ASSUME PathInvariant, PathInvariant', AroundIsOpen, XmlHomes, IsFeed, FitsPath, End,
           document[open[Len(open)]].name \in ItemElements
    PROVE  XmlHomes'
<1>1. PICK L : L = Len(open)
  OBVIOUS
<1>2. PICK n : n = open[L]
  OBVIOUS
<1>3. /\ IsXml /\ IsXml' /\ Kept /\ n \in Numbers /\ Numbers' = Numbers /\ n \in Nat
      /\ L \in Nat \ {0} /\ DOMAIN open = 1..L /\ DOMAIN open' = 1..L - 1
      /\ \A i \in 1..L - 1 : open'[i] = open[i]
      /\ \A i \in 1..L : open[i] \in Numbers
      /\ \A m \in Numbers : Home(m)' = Home(m)
      /\ ItemNumbers' = ItemNumbers
  BY <1>1, <1>2, EndsWithin
<1>4. PICK name : name = document[n].name
  OBVIOUS
<1>5. name \in ItemElements /\ data' = end_element_handler(data, name, n)
  BY <1>1, <1>2, <1>4 DEF End, Last
<1>6. data \in Data /\ data' \in Data
  BY DEF PathInvariant, ItemsAreThere
<1>7. \A i \in 1..L - 1 : document[open[i]].name \in FeedElements \cup {"rss"}
  <2>1. ASSUME NEW i \in 1..L - 1 PROVE document[open[i]].name \in FeedElements \cup {"rss"}
    <3>1. i \in 1..L /\ L \in 1..L /\ i < L
      BY <1>3
    <3>2. Around[n] = {open[j] : j \in 1..L}
      BY <1>2, <1>3, <3>1 DEF AroundIsOpen
    <3>3. open[i] < n /\ n \in Nat
      <4>1. open[i] < open[L]
        BY <1>3, <3>1 DEF PathInvariant, OpenAreNested
      <4> QED BY <1>2, <1>3, <4>1
    <3>4. open[i] \in Nat
      BY <1>3, <3>1 DEF PathInvariant, OpenAreNested
    <3>5. open[i] # n
      BY <3>3, <3>4
    <3>6. open[i] \in Around[n] \ {n}
      BY <3>1, <3>2, <3>5
    <3> QED BY <1>3, <1>4, <1>5, <3>6 DEF IsFeed
  <2> QED BY <2>1
<1>8. \A i \in 1..L : document[open[i]].name \in Frames
  <2>1. \A i \in 1..L : i \in 1..L - 1 \/ i = L
    BY <1>3
  <2> QED BY <1>2, <1>4, <1>5, <1>7, <2>1 DEF Frames
<1>9. ~data.decoy
  BY <1>3, <1>8, FramesAre DEF XmlHomes, TextIsOfHere
<1>10. PICK k : k = Len(data.items)
  OBVIOUS
<1>11. /\ Holds(data, Belong(0)', Belong(k)') /\ k \in Nat
       /\ \A i \in 1..k : data.items[i] \in ItemRow(Belong(k + 1 - i)')
  BY <1>3, <1>10, RowsStay DEF XmlHomes, PathInvariant
<1> DEFINE F == Belong(0)'
           C == Belong(k)'
           Z == Int
           e == data'
<1>12. Holds(e, F, C) /\ ItemEnded(data, Z, e)
  <2>1. /\ Holds(data, F, C) /\ e = end_element_handler(data, name, n) /\ data.text \in Seq(Z)
    BY <1>5, <1>6, <1>11 DEF Data
  <2> HIDE DEF F, C, Z, e
  <2> QED BY <1>5, <2>1, EndItem
<1>13. e.items = data.items /\ e.in_item = FALSE /\ ~e.decoy
  BY <1>9, <1>12 DEF ItemEnded
<1>14. ItemsAreCounted'
  <2>1. ASSUME NEW i \in 1..L - 1 PROVE open'[i] \notin ItemNumbers
    BY <1>3, <1>7, FramesAre DEF ItemNumbers
  <2> QED BY <1>3, <1>13, <2>1 DEF XmlHomes, ItemsAreCounted
<1>15. TextIsOfHere'
  <2>1. \A i \in 1..L - 1 : i \in 1..L
    BY <1>3
  <2>2. \A i \in 1..L - 1 : document'[open'[i]].name = document[open[i]].name
    BY <1>3, <2>1 DEF Kept
  <2>3. OpenNames' \subseteq Frames
    BY <1>3, <1>8, <2>1, <2>2 DEF OpenNames
  <2> QED BY <1>13, <2>3 DEF TextIsOfHere
<1>16. RowsAreOfHomes'
  <2>1. e.feed \in FeedRow(Belong(0)')
    BY <1>12 DEF Holds
  <2>2. DOMAIN e.items = 1..k /\ Len(e.items) = k
    BY <1>6, <1>10, <1>13, DataItems
  <2> QED BY <1>11, <1>13, <2>1, <2>2 DEF RowsAreOfHomes
<1> QED BY <1>14, <1>15, <1>16 DEF XmlHomes

(* Feeds and the root of RSS have no handlers of their own.                   *)
LEMMA FrameLeft ==
    ASSUME NEW d, NEW name \in FeedElements \cup {"rss"}, NEW number
    PROVE  end_element_handler(d, name, number) = Left(d)
<1>1. ~IsXhtml(name)
  BY DEF IsXhtml, FeedElements
<1>2. \A x : EndHandle(x, name) = x
  BY DEF EndHandle, FeedElements, ItemElements, AtomTexts, TitleElements, GuidElements, LinkElements,
     PlainElements, HtmlElements, SubjectElements, UpdateElements, PointElements
<1> QED BY <1>1, <1>2 DEF end_element_handler, Left, Trimmed

(* What an end tag makes of data, for the tokens of a place.                  *)
Leaves(T, name, F, C) ==
    Holds(data', F, C) /\ ElementEnded(data, name, T, data')

LEMMA FrameHomesEnd ==
    ASSUME data \in Data, NEW name \in FeedElements \cup {"rss"}, NEW number,
           data' = end_element_handler(data, name, number),
           NEW F, NEW C, Holds(data, F, C), NEW T, data.text \in Seq(T)
    PROVE  Leaves(T, name, F, C)
<1> DEFINE e == data'
<1>1. e = Left(data) /\ name \notin AtomTexts
  BY FrameLeft DEF AtomTexts, FeedElements
<1> HIDE DEF e
<1>2. Holds(e, F, C) /\ e.text \in Seq(T)
  BY <1>1, LeftIs
<1>3. /\ e.depth = Shallower(data) /\ e.path = data.path /\ e.items = data.items /\ e.decoy = data.decoy
      /\ e.in_item = data.in_item /\ e.item_index = data.item_index
  BY <1>1, <1>2, LeftIs
<1>4. Valued(Left(data), name, e)
  BY <1>1, SinglesAreReflexive DEF Valued
<1> QED BY <1>1, <1>2, <1>3, <1>4 DEF Leaves, ElementEnded, e

LEMMA ElementHomesEnd ==
    ASSUME PathInvariant, PathInvariant', AroundIsOpen, XmlHomes, IsFeed, FitsPath, End,
           document[open[Len(open)]].name \notin ItemElements
    PROVE  XmlHomes'
<1>1. PICK L : L = Len(open)
  OBVIOUS
<1>2. PICK n : n = open[L]
  OBVIOUS
<1>3. /\ IsXml /\ IsXml' /\ Kept /\ n \in Numbers /\ Numbers' = Numbers /\ n \in Nat
      /\ L \in Nat \ {0} /\ DOMAIN open = 1..L /\ DOMAIN open' = 1..L - 1
      /\ \A i \in 1..L - 1 : open'[i] = open[i]
      /\ \A i \in 1..L : open[i] \in Numbers
      /\ document[n].name \in STRING
      /\ \A m \in Numbers : Home(m)' = Home(m)
      /\ ItemNumbers' = ItemNumbers
  BY <1>1, <1>2, EndsWithin
<1>4. PICK name : name = document[n].name
  OBVIOUS
<1>5. name \notin ItemElements /\ data' = end_element_handler(data, name, n)
  BY <1>1, <1>2, <1>4 DEF End, Last
<1>6. data \in Data /\ data' \in Data /\ data.text \in Seq(Int)
  BY DEF PathInvariant, ItemsAreThere, Data
<1>7. PICK k : k = Len(data.items)
  OBVIOUS
<1>8. /\ Holds(data, Belong(0)', Belong(k)') /\ k \in Nat
      /\ \A i \in 1..k : data.items[i] \in ItemRow(Belong(k + 1 - i)')
  BY <1>3, <1>7, RowsStay DEF XmlHomes, PathInvariant
<1>9. PICK h : h = Here
  OBVIOUS
<1>10. h = IF data.in_item THEN k ELSE 0
  BY <1>7, <1>9 DEF Here
<1>11. data.depth = L /\ \A i \in 1..L : data.path[i] = Position(document[open[i]].name)
  BY <1>1, <1>3 DEF PathInvariant, PathIsOfOpen
<1>12. Left(data).path = data.path /\ Left(data).depth = L - 1
  <2>1. Shallower(data) = L - 1
    BY <1>3, <1>11 DEF Shallower
  <2> DEFINE e == Left(data)
             Z == Int
  <2>2. e = Left(data) /\ Holds(data, Z, Z) /\ data.text \in Seq(Z)
    BY <1>6, DataHolds
  <2> HIDE DEF e, Z
  <2>3. Holds(e, Z, Z)
    BY <2>2, LeftIs
  <2>4. e.path = data.path /\ e.depth = Shallower(data)
    BY <2>2, <2>3, LeftIs
  <2> QED BY <2>1, <2>4 DEF e
<1>13. \A i \in 1..L - 1 : document'[open'[i]].name = document[open[i]].name
  <2>1. \A i \in 1..L - 1 : i \in 1..L
    BY <1>3
  <2> QED BY <1>3, <2>1 DEF Kept
<1>14. PICK T : /\ Leaves(T, name, Belong(0)', Belong(k)')
                /\ ~(OpenNames' \subseteq Frames) => T = Belong(h)'
  <2>1. OpenNames' \subseteq OpenNames
    <3>1. \A i \in 1..L - 1 : i \in 1..L
      BY <1>3
    <3> QED BY <1>3, <1>13, <3>1 DEF OpenNames
  <2>2. ~(OpenNames \subseteq Frames) => data.text \in Seq(Belong(h)')
    <3>1. Belong(h) \subseteq Belong(h)'
      BY <1>3, BelongGrows
    <3>2. ~(OpenNames \subseteq Frames) => data.text \in Seq(Belong(h))
      BY <1>9 DEF XmlHomes, TextIsOfHere
    <3> QED BY <3>1, <3>2, RowsGrow
  <2>3. CASE name \in FeedElements \cup {"rss"}
    <3> DEFINE T == IF OpenNames \subseteq Frames THEN Int ELSE Belong(h)'
    <3>1. data.text \in Seq(T)
      BY <1>6, <2>2
    <3>2. ~(OpenNames' \subseteq Frames) => T = Belong(h)'
      BY <2>1
    <3> HIDE DEF T
    <3>3. Leaves(T, name, Belong(0)', Belong(k)')
      BY <1>5, <1>6, <1>8, <2>3, <3>1, FrameHomesEnd
    <3> QED BY <3>2, <3>3
  <2>4. CASE name \notin FeedElements \cup {"rss"}
    <3> DEFINE F == Belong(0)'
               C == Belong(k)'
               T == Belong(h)'
               e == data'
    <3>1. ~(OpenNames \subseteq Frames)
      <4>1. L \in 1..L
        BY <1>3
      <4> QED BY <1>2, <1>3, <1>4, <1>5, <2>4, <4>1 DEF OpenNames, Frames
    <3>2. n \in T
      <4>1. open # <<>> /\ n = open[Len(open)]
        BY <1>1, <1>2, <1>3
      <4>2. n \in Belong(Here)
        BY <1>3, <4>1, HomeIsHere DEF XmlHomes
      <4>3. n \in Belong(h)
        BY <1>9, <4>2
      <4>4. Belong(h) \subseteq Belong(h)'
        BY <1>3, BelongGrows
      <4> QED BY <4>3, <4>4
    <3>3. IsTokens(F) /\ IsTokens(C) /\ IsTokens(T)
      BY BelongIsTokens
    <3>4. /\ data.path[L - 1] = "GENERIC_ITEM" => data.in_item
          /\ data.path[L - 1] = "GENERIC_FEED" => ~data.in_item
      <4>1. PICK j : j = L - 1
        OBVIOUS
      <4>2. j \in 0..Len(open) /\ \A i \in j + 1..Len(open) : open[i] \notin ItemNumbers
        <5>1. n \notin ItemNumbers
          BY <1>4, <1>5 DEF ItemNumbers
        <5>2. \A i \in j + 1..Len(open) : i = L
          BY <1>1, <1>3, <4>1
        <5>3. j \in 0..L
          BY <1>3, <4>1
        <5> QED BY <1>1, <1>2, <5>1, <5>2, <5>3
      <4>3. /\ data.path[j] = "GENERIC_ITEM" => data.in_item
            /\ data.path[j] = "GENERIC_FEED" => ~data.in_item
        BY <1>3, <4>2, PlaceDecides DEF XmlHomes
      <4> QED BY <4>1, <4>3
    <3>5. Targets(Left(data), T, F, C)
      <4> DEFINE x == Left(data)
      <4>1. x = Left(data) /\ Holds(data, F, C) /\ data.text \in Seq(T)
        BY <1>8, <2>2, <3>1
      <4>2. x.path = data.path /\ x.depth = L - 1
        BY <1>12
      <4> HIDE DEF x
      <4>3. Holds(x, F, C) /\ x.text \in Seq(T)
        BY <4>1, LeftIs
      <4>4. x.items = data.items /\ x.in_item = data.in_item
        BY <4>1, <4>3, LeftIs
      <4>5. x.in_item \/ At(x) = "item" => x.items # <<>> /\ T \subseteq C
        BY <1>10, <3>4, <4>2, <4>4, AtIs DEF PathInvariant, ItemsAreThere
      <4>6. ~x.in_item \/ At(x) = "feed" => T \subseteq F
        BY <1>10, <3>4, <4>2, <4>4, AtIs
      <4>7. Targets(x, T, F, C)
        BY <3>3, <4>3, <4>5, <4>6 DEF Targets
      <4> QED BY <4>7 DEF x
    <3>6. data.text \in Seq(T) /\ e = end_element_handler(data, name, n)
      BY <1>5, <2>2, <3>1
    <3> HIDE DEF F, C, T, e
    <3>7. Holds(e, F, C) /\ ElementEnded(data, name, T, e)
      BY <1>5, <1>6, <3>2, <3>5, <3>6, EndElement
    <3>8. Leaves(T, name, F, C)
      BY <3>7 DEF Leaves, e
    <3> QED BY <3>8 DEF T, F, C
  <2> QED BY <2>3, <2>4
<1> DEFINE e == data'
<1>15. /\ Holds(e, Belong(0)', Belong(k)') /\ e.text \in Seq(T)
       /\ Len(e.items) = k /\ e.in_item = data.in_item
       /\ \A i \in 2..k : e.items[i] = data.items[i]
       /\ e.decoy = IF name \in AtomTexts /\ At(Left(data)) = "item" THEN FALSE ELSE data.decoy
  BY <1>7, <1>14 DEF Leaves, ElementEnded
<1>16. ItemsAreCounted'
  <2>1. \A i \in 1..L - 1 : i \in 1..L
    BY <1>3
  <2>2. n \notin ItemNumbers /\ \A i \in 1..L : i \in 1..L - 1 \/ i = L
    BY <1>3, <1>4, <1>5 DEF ItemNumbers
  <2>3. (\E i \in 1..L - 1 : open'[i] \in ItemNumbers) <=> \E i \in 1..L : open[i] \in ItemNumbers
    BY <1>2, <1>3, <2>1, <2>2
  <2>4. \A i \in 1..L - 1 : open'[i] \in ItemNumbers => \A m \in ItemNumbers : m <= open'[i]
    <3>1. \A i \in 1..L : open[i] \in ItemNumbers => \A m \in ItemNumbers : m <= open[i]
      BY <1>3 DEF XmlHomes, ItemsAreCounted
    <3> QED BY <1>3, <2>1, <3>1
  <2> QED BY <1>3, <1>7, <1>15, <2>3, <2>4 DEF XmlHomes, ItemsAreCounted
<1>17. TextIsOfHere'
  <2>1. ~(OpenNames' \subseteq Frames) => e.text \in Seq(Belong(Here)')
    <3>1. Here' = h
      BY <1>10, <1>15 DEF Here
    <3>2. Belong(Here)' = Belong(h)'
      BY <3>1 DEF Belong
    <3> QED BY <1>14, <1>15, <3>2
  <2>2. ASSUME e.decoy
        PROVE  \E i \in DOMAIN open' : /\ i > 1 /\ document'[open'[i]].name \in AtomTexts
                                      /\ document'[open'[i - 1]].name \in ItemElements
    <3>1. data.decoy /\ ~(name \in AtomTexts /\ At(Left(data)) = "item")
      BY <1>15, <2>2
    <3>2. PICK i \in 1..L : i > 1 /\ document[open[i]].name \in AtomTexts
                                  /\ document[open[i - 1]].name \in ItemElements
      BY <1>3, <3>1 DEF XmlHomes, TextIsOfHere
    <3>3. i # L
      <4>1. ASSUME i = L PROVE FALSE
        <5>1. L - 1 \in 1..L /\ document[open[L - 1]].name \in ItemElements /\ name \in AtomTexts
          BY <1>2, <1>3, <1>4, <3>2, <4>1
        <5>2. data.path[L - 1] = "GENERIC_ITEM"
          BY <1>11, <5>1, PositionIs
        <5>3. At(Left(data)) = "item"
          BY <1>12, <5>2 DEF At
        <5> QED BY <3>1, <5>1, <5>3
      <4> QED BY <4>1
    <3>4. i \in 1..L - 1 /\ i - 1 \in 1..L - 1
      BY <1>3, <3>2, <3>3
    <3> QED BY <1>3, <1>13, <3>2, <3>4
  <2> QED BY <2>1, <2>2 DEF TextIsOfHere
<1>18. RowsAreOfHomes'
  <2>1. e.feed \in FeedRow(Belong(0)')
    BY <1>15 DEF Holds
  <2>2. DOMAIN e.items = 1..k
    BY <1>6, <1>15, DataItems
  <2>3. ASSUME NEW i \in 1..k PROVE e.items[i] \in ItemRow(Belong(k + 1 - i)')
    <3>1. CASE i = 1
      <4>1. k + 1 - i = k
        BY <1>8, <3>1
      <4>2. e.items # <<>>
        BY <1>8, <1>15, <3>1
      <4> QED BY <1>15, <3>1, <4>1, <4>2 DEF Holds
    <3>2. CASE i \in 2..k
      BY <1>8, <1>15, <3>2
    <3> QED BY <1>8, <3>1, <3>2
  <2> QED BY <1>15, <2>1, <2>2, <2>3 DEF RowsAreOfHomes
<1> QED BY <1>16, <1>17, <1>18 DEF XmlHomes

(* Text.                                                                      *)
LEMMA TextHomes ==
    ASSUME PathInvariant, PathInvariant', IsXml => AroundIsOpen, NEW token, Characters(token)
    PROVE  /\ IsXml /\ IsXml' /\ AroundIsOpen' /\ (IsFeed' => IsFeed)
           /\ XmlHomes => XmlHomes'
<1>1. /\ document' = document /\ open' = open /\ kind' = kind /\ open # <<>>
      /\ token \in {Last(open)} \cup grammar.noise
      /\ data' = character_data_handler(data, token)
  BY DEF Characters
<1>2. IsXml /\ IsXml' /\ AroundIsOpen /\ DocumentIsTree /\ DocumentIsTree'
  BY <1>1 DEF PathInvariant, DocumentIsTree, IsXml, grammar
<1>3. Numbers' = Numbers /\ Kept
  BY <1>1 DEF Numbers, Kept
<1>4. /\ \A m \in Numbers : Home(m)' = Home(m)
      /\ IsFeed' => IsFeed
      /\ ItemNumbers' \cap Numbers = ItemNumbers
  BY <1>2, <1>3, XmlHomesKept
<1>5. \A m \in Numbers : Around'[m] = Around[m]
  BY <1>2, <1>3, AroundKept
<1>6. AroundIsOpen'
  <2>1. \A i \in DOMAIN open : open[i] \in Numbers
    BY DEF PathInvariant, OpenAreNested
  <2> QED BY <1>1, <1>2, <1>5, <2>1 DEF AroundIsOpen
<1>7. ItemNumbers' = ItemNumbers
  BY <1>3, <1>4 DEF ItemNumbers
<1>8. \A k : Belong(k)' = Belong(k)
  BY <1>3, <1>4 DEF Belong
<1>9. ASSUME XmlHomes PROVE XmlHomes'
  <2> DEFINE e == data'
  <2>1. PICK h : h = Here
    OBVIOUS
  <2>2. token \in Belong(h)
    <3>1. CASE token = Last(open)
      <4>1. Last(open) = open[Len(open)]
        BY DEF Last
      <4>2. token \in Belong(Here)
        BY <1>1, <1>2, <1>9, <3>1, <4>1, HomeIsHere DEF XmlHomes
      <4> QED BY <2>1, <4>2
    <3>2. CASE token \in grammar.noise
      <4>1. token \in {Space, Delimiter}
        BY <1>2, <3>2, GrammarIs DEF DocumentIsTree
      <4> QED BY <4>1 DEF Belong, Space, Delimiter
    <3> QED BY <1>1, <3>1, <3>2
  <2>3. data \in Data /\ data.text \in Seq(Int)
    BY DEF PathInvariant, ItemsAreThere, Data
  <2> DEFINE T == IF OpenNames \subseteq Frames THEN Int ELSE Belong(h)
             Z == Int
  <2>4. /\ Holds(data, Z, Z) /\ T \subseteq Int /\ data.text \in Seq(T) /\ token \in T
        /\ e = [data EXCEPT !.text = Append(@, token)]
    <3>1. data.text \in Seq(T)
      BY <1>9, <2>1, <2>3 DEF XmlHomes, TextIsOfHere
    <3>2. Belong(h) \subseteq Int
      BY DEF Belong
    <3> QED BY <1>1, <2>2, <2>3, <3>1, <3>2, DataHolds DEF character_data_handler
  <2>5. ~(OpenNames \subseteq Frames) => T = Belong(h)
    OBVIOUS
  <2> HIDE DEF T, Z, e
  <2>6. Holds(e, Z, Z) /\ e.text \in Seq(T)
    BY <2>4, TextAppended
  <2>7. e.items = data.items /\ e.in_item = data.in_item /\ e.feed = data.feed /\ e.decoy = data.decoy
    BY <2>4, <2>6, TextAppended
  <2>8. ItemsAreCounted'
    BY <1>1, <1>7, <1>9, <2>7 DEF XmlHomes, ItemsAreCounted, e
  <2>9. TextIsOfHere'
    <3>1. OpenNames' = OpenNames
      BY <1>1 DEF OpenNames
    <3>2. Here' = h
      BY <2>1, <2>7 DEF Here, e
    <3>3. Belong(Here)' = Belong(h)
      BY <1>3, <1>4, <3>2 DEF Belong
    <3>4. ~(OpenNames' \subseteq Frames) => data'.text \in Seq(Belong(Here)')
      BY <2>5, <2>6, <3>1, <3>3 DEF e
    <3>5. data'.decoy = data.decoy
      BY <2>7 DEF e
    <3> QED BY <1>1, <1>9, <3>4, <3>5 DEF XmlHomes, TextIsOfHere
  <2>10. RowsAreOfHomes'
    <3>1. data'.items = data.items /\ data'.feed = data.feed
      BY <2>7 DEF e
    <3>2. data'.feed \in FeedRow(Belong(0)')
      BY <1>8, <1>9, <3>1 DEF XmlHomes, RowsAreOfHomes
    <3>3. ASSUME NEW k \in DOMAIN data.items
          PROVE  data.items[k] \in ItemRow(Belong(Len(data.items) + 1 - k)')
      <4>1. PICK m : m = Len(data.items) + 1 - k
        OBVIOUS
      <4>2. data.items[k] \in ItemRow(Belong(m))
        BY <1>9, <4>1 DEF XmlHomes, RowsAreOfHomes
      <4>3. Belong(m)' = Belong(m)
        BY <1>8
      <4>4. data.items[k] \in ItemRow(Belong(m)')
        BY <4>2, <4>3
      <4>5. (Len(data.items) + 1 - k)' = m
        BY <3>1, <4>1
      <4> QED BY <3>1, <4>1, <4>4, <4>5
    <3> QED BY <3>1, <3>2, <3>3 DEF RowsAreOfHomes
  <2> QED BY <2>8, <2>9, <2>10 DEF XmlHomes
<1> QED BY <1>2, <1>4, <1>6, <1>9

(* A row of JSON.                                                             *)
LEMMA RowsWithin ==
    ASSUME PathInvariant, PathInvariant', NEW row \in grammar.rows, Row(row), NEW n, n = Len(document) + 1
    PROVE  /\ ~IsXml /\ ~IsXml' /\ row \in Rows /\ n \in Nat \ {0} /\ n \in Numbers'
           /\ row.place \notin {"feed", "feed_authors"} => row.item >= 0
           /\ Numbers = 1..n - 1 /\ Numbers' = 1..n /\ Len(document') = n /\ document'[n] = row
           /\ \A m \in Numbers : Home(m)' = Home(m) /\ document'[m] = document[m]
           /\ MetItems(n)' = MetItems(n - 1) \cup (IF InItems(row) THEN {row.item} ELSE {})
           /\ Home(n)' = IF InItems(row) THEN Cardinality(MetItems(n)') ELSE 0
           /\ MetItems(n - 1) \subseteq Int
           /\ InItems(row) => \A i \in MetItems(n - 1) : i <= row.item
<1>1. /\ ~IsXml /\ row \in Rows /\ Len(document) \in Nat /\ Len(document') = Len(document) + 1
      /\ row.place \notin {"feed", "feed_authors"} => row.item >= 0
      /\ \A m \in Numbers : document'[m] = document[m]
      /\ document'[Len(document) + 1] = row
      /\ DocumentIsTree /\ DocumentIsTree'
  BY DocumentRows DEF PathInvariant
<1>2. ~IsXml'
  BY <1>1 DEF Row, IsXml, grammar
<1>3. document \in Seq(grammar.rows) /\ document' \in Seq(grammar'.rows)
  BY <1>1, <1>2 DEF DocumentIsTree
<1>4. n \in Nat \ {0} /\ n - 1 = Len(document) /\ Len(document') = n
  BY <1>1
<1>5. Numbers = 1..n - 1 /\ Numbers' = 1..n /\ n \in Numbers'
  <2>1. Numbers = 1..Len(document) /\ Numbers' = 1..Len(document')
    BY <1>3 DEF Numbers
  <2> QED BY <1>4, <2>1
<1>6. \A m \in Numbers : m \in Numbers'
  BY <1>4, <1>5
<1>7. \A m \in Numbers : Home(m)' = Home(m) /\ MetItems(m)' = MetItems(m)
  BY <1>1, <1>2, <1>6, JsonHomesKept
<1>8. MetItems(n)' = MetItems(n - 1) \cup (IF InItems(row) THEN {row.item} ELSE {})
  <2>1. 1..n = (1..n - 1) \cup {n}
    BY <1>4
  <2>2. /\ \A i \in 1..n - 1 : document'[i] = document[i]
        /\ document'[n] = row
    BY <1>1, <1>5
  <2>3. {j \in 1..n : InItems(document'[j])}
          = {j \in 1..n - 1 : InItems(document[j])} \cup (IF InItems(row) THEN {n} ELSE {})
    BY <2>1, <2>2
  <2>4. {document'[i].item : i \in {j \in 1..n : InItems(document'[j])}}
          = {document[i].item : i \in {j \in 1..n - 1 : InItems(document[j])}}
              \cup (IF InItems(row) THEN {row.item} ELSE {})
    BY <2>2, <2>3
  <2> QED BY <2>4 DEF MetItems
<1>9. Home(n)' = IF InItems(row) THEN Cardinality(MetItems(n)') ELSE 0
  <2>1. Home(n)' = IF InItems(document'[n]) THEN Cardinality(MetItems(n)') ELSE 0
    BY <1>2 DEF Home, MetItems
  <2> QED BY <1>1, <2>1
<1>10. \A i \in 1..n - 1 : document[i] \in Rows /\ i \in DOMAIN document
  <2>1. grammar.rows \subseteq Rows
    BY <1>1, GrammarIs DEF DocumentIsTree
  <2>2. \A i \in 1..Len(document) : document[i] \in grammar.rows /\ i \in DOMAIN document
    BY <1>3
  <2> QED BY <1>4, <2>1, <2>2
<1>11. MetItems(n - 1) \subseteq Int
  BY <1>10 DEF MetItems, Rows
<1>12. ASSUME InItems(row), NEW i \in MetItems(n - 1) PROVE i <= row.item
  <2>1. PICK j \in 1..n - 1 : InItems(document[j]) /\ i = document[j].item
    BY DEF MetItems
  <2>2. j \in DOMAIN document
    BY <1>10, <2>1
  <2>3. CanFollow(row)
    BY DEF Row
  <2> QED BY <1>12, <2>1, <2>2, <2>3 DEF CanFollow
<1> QED BY <1>1, <1>2, <1>4, <1>5, <1>7, <1>8, <1>9, <1>11, <1>12


LEMMA RowHomes ==
    ASSUME PathInvariant, PathInvariant', IndexesAreCounted, RowsAreOfHomes,
           NEW row \in grammar.rows, Row(row)
    PROVE  IndexesAreCounted' /\ RowsAreOfHomes'
<1>1. PICK n : n = Len(document) + 1
  OBVIOUS
<1>2. PICK L : L = Len(data.items)
  OBVIOUS
<1>3. PICK M : M = MetItems(n - 1)
  OBVIOUS
<1>4. /\ row \in Rows /\ n \in Nat \ {0} /\ n \in Numbers'
      /\ row.place \notin {"feed", "feed_authors"} => row.item >= 0
      /\ Numbers = 1..n - 1 /\ Numbers' = 1..n /\ Len(document') = n
      /\ \A m \in Numbers : Home(m)' = Home(m)
      /\ MetItems(n)' = M \cup (IF InItems(row) THEN {row.item} ELSE {})
      /\ Home(n)' = IF InItems(row) THEN Cardinality(MetItems(n)') ELSE 0
      /\ M \subseteq Int
      /\ InItems(row) => \A i \in M : i <= row.item
  BY <1>1, <1>3, RowsWithin
<1>5. /\ IsFiniteSet(M) /\ L = Cardinality(M) /\ \A i \in M : i <= data.item_index
      /\ (M = {} /\ data.item_index = -1) \/ data.item_index \in M
  <2>1. Len(document) = n - 1
    <3>1. Len(document) \in Nat
      BY DocumentRows DEF PathInvariant
    <3> QED BY <1>1, <3>1
  <2>2. MetItems(Len(document)) = M
    BY <1>3, <2>1
  <2> QED BY <1>2, <2>2 DEF IndexesAreCounted
<1>6. data \in Data /\ data' \in Data /\ data' = newsraft_json_row(data, row, <<n>>)
  BY <1>1 DEF PathInvariant, ItemsAreThere, Row
<1>7. /\ Holds(data, Belong(0)', Belong(L)') /\ L \in Nat
      /\ \A k \in 1..L : data.items[k] \in ItemRow(Belong(L + 1 - k)')
  <2>1. Numbers \subseteq Numbers'
    BY <1>4
  <2> QED BY <1>2, <1>4, <2>1, RowsStay DEF PathInvariant
<1>8. row.item \in Int /\ row.place \in RowPlaces /\ data.item_index \in Int
  BY <1>4, <1>6 DEF Rows, Data
<1>9. InItems(row) <=> row.place \notin {"feed", "feed_authors"}
  BY <1>8 DEF InItems, RowPlaces
<1>10. \A k : IsTokens(Belong(k)')
  BY BelongIsTokens
<1>11. \A h : Home(n)' = h => <<n>> \in Seq(Belong(h)')
  <2>1. ASSUME NEW h, Home(n)' = h PROVE n \in Belong(h)'
    BY <1>4, <2>1 DEF Belong
  <2> QED BY <2>1
<1>12. Home(n)' = IF InItems(row) THEN Cardinality(M \cup {row.item}) ELSE 0
  BY <1>4
<1> DEFINE e == data'
           F == Belong(0)'
           C == Belong(L)'
<1>13. ASSUME ~InItems(row)
       PROVE  /\ Holds(e, F, C) /\ e.item_index = data.item_index /\ Len(e.items) = L
              /\ \A k \in 2..L : e.items[k] = data.items[k]
  <2>1. <<n>> \in Seq(F)
    BY <1>11, <1>12, <1>13
  <2>2. Aims(data, "feed", F, F, C)
    BY <1>7, <1>10 DEF Aims, Into
  <2>3. row.place \in {"feed", "feed_authors"} /\ e = newsraft_json_row(data, row, <<n>>)
    BY <1>6, <1>9, <1>13
  <2> HIDE DEF e, F, C
  <2>4. Done(data, "feed", F, F, C, e)
    BY <1>4, <2>1, <2>2, <2>3, FeedRowRead
  <2> QED BY <1>2, <2>4 DEF Done, Aims, Same
<1>14. ASSUME InItems(row), row.item = data.item_index
       PROVE  /\ Holds(e, F, C) /\ e.item_index = row.item /\ Len(e.items) = L
              /\ \A k \in 2..L : e.items[k] = data.items[k]
              /\ row.item \in M
  <2>1. data.item_index # -1 /\ row.item \in M
    BY <1>4, <1>5, <1>8, <1>9, <1>14
  <2>2. M \cup {row.item} = M
    BY <2>1
  <2>3. <<n>> \in Seq(C)
    BY <1>5, <1>11, <1>12, <1>14, <2>2
  <2>4. Aims(data, "item", C, F, C)
    BY <1>7, <1>10, <2>1 DEF Aims, Into, PathInvariant, ItemsAreThere
  <2>5. row.place \notin {"feed", "feed_authors"} /\ e = newsraft_json_row(data, row, <<n>>)
    BY <1>6, <1>9, <1>14
  <2> HIDE DEF e, F, C
  <2>6. Done(data, "item", C, F, C, e)
    BY <1>4, <1>14, <2>3, <2>4, <2>5, SameItemRead
  <2> QED BY <1>2, <1>14, <2>1, <2>6 DEF Done, Aims, Same
<1>15. PICK j : j = L + 1
  OBVIOUS
<1> DEFINE D == Belong(j)'
<1>16. ASSUME InItems(row), row.item # data.item_index
       PROVE  /\ Holds(e, F, D) /\ e.item_index = row.item /\ Len(e.items) = j /\ e.items # <<>>
              /\ \A k \in 2..j : e.items[k] = data.items[k - 1]
              /\ row.item \notin M
  <2>1. row.item \notin M
    <3>1. ASSUME row.item \in M PROVE FALSE
      <4>1. row.item <= data.item_index /\ data.item_index <= row.item
        BY <1>4, <1>5, <1>16, <3>1
      <4> QED BY <1>8, <1>16, <4>1
    <3> QED BY <3>1
  <2>2. Cardinality(M \cup {row.item}) = j
    BY <1>5, <1>15, <2>1, FS_AddElement
  <2>3. <<n>> \in Seq(D)
    BY <1>11, <1>12, <1>16, <2>2
  <2>4. IsTokens(F) /\ IsTokens(D) /\ Holds(data, F, C)
    BY <1>7, <1>10
  <2>5. row.place \notin {"feed", "feed_authors"} /\ e = newsraft_json_row(data, row, <<n>>)
    BY <1>6, <1>9, <1>16
  <2> HIDE DEF e, F, C, D
  <2>6. Holds(e, F, D) /\ ItemBegun(data, row, e)
    BY <1>4, <1>16, <2>3, <2>4, <2>5, NewItemRead
  <2> QED BY <1>2, <1>15, <2>1, <2>6 DEF ItemBegun
<1>17. IndexesAreCounted'
  <2> DEFINE P == MetItems(n)'
  <2>1. MetItems(Len(document))' = P
    BY <1>4 DEF MetItems
  <2>2. /\ IsFiniteSet(P) /\ Len(e.items) = Cardinality(P) /\ \A i \in P : i <= e.item_index
        /\ (P = {} /\ e.item_index = -1) \/ e.item_index \in P
    <3>1. CASE ~InItems(row)
      <4>1. P = M
        BY <1>4, <3>1
      <4> QED BY <1>5, <1>13, <3>1, <4>1
    <3>2. CASE InItems(row) /\ row.item = data.item_index
      <4>1. P = M
        BY <1>4, <1>14, <3>2
      <4> QED BY <1>5, <1>14, <3>2, <4>1
    <3>3. CASE InItems(row) /\ row.item # data.item_index
      <4>1. P = M \cup {row.item} /\ row.item \notin M
        BY <1>4, <1>16, <3>3
      <4>2. IsFiniteSet(P) /\ Cardinality(P) = j
        BY <1>5, <1>15, <4>1, FS_AddElement
      <4>3. \A i \in P : i <= row.item
        <5>1. \A i \in M : i <= row.item
          BY <1>4, <3>3
        <5>2. row.item <= row.item
          BY <1>8
        <5> QED BY <4>1, <5>1, <5>2
      <4> QED BY <1>16, <3>3, <4>1, <4>2, <4>3
    <3> QED BY <3>1, <3>2, <3>3
  <2> QED BY <2>1, <2>2 DEF IndexesAreCounted
<1>18. RowsAreOfHomes'
  <2>1. e.feed \in FeedRow(Belong(0)')
    BY <1>13, <1>14, <1>16 DEF Holds
  <2>2. CASE ~(InItems(row) /\ row.item # data.item_index)
    <3>1. /\ Holds(e, F, C) /\ Len(e.items) = L /\ \A k \in 2..L : e.items[k] = data.items[k]
      BY <1>13, <1>14, <2>2
    <3>2. DOMAIN e.items = 1..L
      BY <1>6, <3>1, DataItems
    <3>3. ASSUME NEW i \in 1..L PROVE e.items[i] \in ItemRow(Belong(L + 1 - i)')
      <4>1. CASE i = 1
        <5>1. L + 1 - i = L
          BY <1>7, <4>1
        <5>2. e.items # <<>>
          BY <1>7, <3>1
        <5> QED BY <3>1, <4>1, <5>1, <5>2 DEF Holds
      <4>2. CASE i \in 2..L
        BY <1>7, <3>1, <4>2
      <4> QED BY <1>7, <4>1, <4>2
    <3> QED BY <2>1, <3>1, <3>2, <3>3 DEF RowsAreOfHomes
  <2>3. CASE InItems(row) /\ row.item # data.item_index
    <3>1. /\ Holds(e, F, D) /\ Len(e.items) = j /\ e.items # <<>>
          /\ \A k \in 2..j : e.items[k] = data.items[k - 1]
      BY <1>16, <2>3
    <3>2. DOMAIN e.items = 1..j
      BY <1>6, <3>1, DataItems
    <3>3. ASSUME NEW i \in 1..j PROVE e.items[i] \in ItemRow(Belong(j + 1 - i)')
      <4>1. CASE i = 1
        <5>1. j + 1 - i = j
          BY <1>7, <1>15, <4>1
        <5> QED BY <3>1, <4>1, <5>1 DEF Holds
      <4>2. CASE i \in 2..j
        <5>1. i - 1 \in 1..L /\ L + 1 - (i - 1) = j + 1 - i
          BY <1>7, <1>15, <4>2
        <5>2. data.items[i - 1] \in ItemRow(Belong(L + 1 - (i - 1))')
          BY <1>7, <5>1
        <5> QED BY <3>1, <4>2, <5>1, <5>2
      <4> QED BY <1>7, <1>15, <4>1, <4>2
    <3> QED BY <2>1, <3>1, <3>2, <3>3 DEF RowsAreOfHomes
  <2> QED BY <2>2, <2>3
<1> QED BY <1>17, <1>18

(* Nothing is read.                                                           *)
LEMMA HomesRest ==
    ASSUME PathInvariant, PathInvariant', HomeInvariant, UNCHANGED <<data, kind, document, open>>
    PROVE  HomeInvariant'
<1>1. /\ DocumentIsTree /\ DocumentIsTree' /\ Numbers' = Numbers /\ Kept
      /\ IsXml' = IsXml /\ FitsPath' = FitsPath
  BY DEF PathInvariant, Numbers, Kept, IsXml, FitsPath, grammar
<1>2. \A m \in Numbers : Home(m)' = Home(m)
  BY <1>1, XmlHomesKept, JsonHomesKept
<1>3. RowsAreOfHomes => RowsAreOfHomes'
  <2> SUFFICES ASSUME RowsAreOfHomes PROVE RowsAreOfHomes'
    OBVIOUS
  <2>1. \A k : Belong(k) \subseteq Belong(k)'
    BY <1>1, <1>2 DEF Belong
  <2>2. data.feed \in FeedRow(Belong(0)')
    BY <2>1, RowsGrow DEF RowsAreOfHomes
  <2>3. ASSUME NEW k \in DOMAIN data.items
        PROVE  data.items[k] \in ItemRow(Belong(Len(data.items) + 1 - k)')
    <3>1. PICK m : m = Len(data.items) + 1 - k
      OBVIOUS
    <3>2. data.items[k] \in ItemRow(Belong(m))
      BY <3>1 DEF RowsAreOfHomes
    <3>3. data.items[k] \in ItemRow(Belong(m)')
      BY <2>1, <3>2, RowsGrow
    <3>4. (Len(data.items) + 1 - k)' = m
      BY <3>1
    <3> QED BY <3>1, <3>3, <3>4
  <2> QED BY <2>2, <2>3 DEF RowsAreOfHomes
<1>4. CASE IsXml
  <2>1. /\ \A n \in Numbers : Around'[n] = Around[n]
        /\ IsFeed' => IsFeed
        /\ ItemNumbers' \cap Numbers = ItemNumbers
    BY <1>1, <1>4, AroundKept, XmlHomesKept
  <2>2. \A i \in DOMAIN open : open[i] \in Numbers
    BY DEF PathInvariant, OpenAreNested
  <2>3. AroundIsOpen'
    BY <1>4, <2>1, <2>2 DEF AroundIsOpen, HomeInvariant
  <2>4. ItemNumbers' = ItemNumbers
    BY <1>1, <2>1 DEF ItemNumbers
  <2>5. ItemsAreCounted => ItemsAreCounted'
    BY <2>4 DEF ItemsAreCounted
  <2>6. TextIsOfHere => TextIsOfHere'
    <3>1. OpenNames' = OpenNames /\ Here' = Here
      BY DEF OpenNames, Here
    <3>2. Belong(Here)' = Belong(Here)
      BY <1>1, <1>2, <3>1 DEF Belong
    <3> QED BY <3>1, <3>2 DEF TextIsOfHere
  <2> QED BY <1>1, <1>3, <1>4, <2>1, <2>3, <2>5, <2>6 DEF HomeInvariant
<1>5. CASE ~IsXml
  <2>1. IsFeed /\ IsFeed'
    BY <1>1, <1>5 DEF IsFeed
  <2>2. MetItems(Len(document))' = MetItems(Len(document))
    BY DEF MetItems
  <2>3. IndexesAreCounted => IndexesAreCounted'
    BY <2>2 DEF IndexesAreCounted
  <2> QED BY <1>1, <1>3, <1>5, <2>1, <2>3 DEF HomeInvariant
<1> QED BY <1>4, <1>5

LEMMA HomesBegin == Init => HomeInvariant
<1> SUFFICES ASSUME Init PROVE HomeInvariant
  OBVIOUS
<1>1. /\ data.items = <<>> /\ data.in_item = FALSE /\ data.decoy = FALSE /\ data.item_index = -1
      /\ data.feed = NoFeed /\ document = <<>> /\ open = <<>>
  BY DEF Init
<1>2. AroundIsOpen
  BY <1>1 DEF AroundIsOpen
<1>3. RowsAreOfHomes
  <2>1. NoFeed \in FeedRow(Belong(0))
    BY DEF NoFeed, FeedRow
  <2> QED BY <1>1, <2>1 DEF RowsAreOfHomes
<1>4. IsFiniteSet({}) /\ Cardinality({}) = 0
  BY FS_EmptySet
<1>5. ItemsAreCounted
  <2>1. ItemNumbers = {}
    BY <1>1 DEF ItemNumbers, Numbers
  <2> QED BY <1>1, <1>4, <2>1 DEF ItemsAreCounted
<1>6. TextIsOfHere
  <2>1. OpenNames = {}
    BY <1>1 DEF OpenNames
  <2> QED BY <1>1, <2>1 DEF TextIsOfHere
<1>7. IndexesAreCounted
  <2>1. MetItems(Len(document)) = {}
    BY <1>1 DEF MetItems
  <2> QED BY <1>1, <1>4, <2>1 DEF IndexesAreCounted
<1> QED BY <1>2, <1>3, <1>5, <1>6, <1>7 DEF HomeInvariant

LEMMA HomeHolds == Spec => []HomeInvariant
<1>1. HomeInvariant /\ PathInvariant /\ PathInvariant' /\ [Next]_vars => HomeInvariant'
  <2> SUFFICES ASSUME HomeInvariant, PathInvariant, PathInvariant', [Next]_vars PROVE HomeInvariant'
    OBVIOUS
  <2>1. CASE Engage \/ Finish \/ UNCHANGED vars
    BY <2>1, HomesRest DEF Engage, Finish, vars
  <2>2. ASSUME NEW name \in UNION {grammar.levels[i] : i \in DOMAIN grammar.levels},
               NEW attrs \in Attributes(name, Len(document) + 1), Start(name, attrs)
        PROVE  HomeInvariant'
    <3>1. name \in STRING
      BY GrammarIs DEF PathInvariant, DocumentIsTree
    <3>2. IsXml /\ IsXml' /\ AroundIsOpen /\ AroundIsOpen' /\ (IsFeed' => IsFeed)
      BY <2>2, <3>1, StartsWithin DEF HomeInvariant
    <3>3. FitsPath' = FitsPath
      BY <2>2 DEF Start, FitsPath, grammar
    <3>4. IsFeed' /\ FitsPath => XmlHomes
      BY <3>2 DEF HomeInvariant, XmlHomes
    <3>5. IsFeed' /\ FitsPath => XmlHomes'
      <4> SUFFICES ASSUME IsFeed', FitsPath PROVE XmlHomes'
        OBVIOUS
      <4>1. CASE name \in ItemElements
        BY <2>2, <3>1, <3>2, <3>4, <4>1, ItemHomesStart
      <4>2. CASE name \notin ItemElements
        BY <2>2, <3>1, <3>2, <3>4, <4>2, ElementHomesStart
      <4> QED BY <4>1, <4>2
    <3> QED BY <3>2, <3>3, <3>5 DEF HomeInvariant, XmlHomes
  <2>3. ASSUME NEW token \in {Space, Delimiter} \cup 1..Len(document), Characters(token)
        PROVE  HomeInvariant'
    <3>1. /\ IsXml /\ IsXml' /\ AroundIsOpen' /\ (IsFeed' => IsFeed)
          /\ XmlHomes => XmlHomes'
      BY <2>3, TextHomes DEF HomeInvariant
    <3>2. FitsPath' = FitsPath
      BY <2>3 DEF Characters, FitsPath, grammar
    <3> QED BY <3>1, <3>2 DEF HomeInvariant, XmlHomes
  <2>4. CASE End
    <3>1. IsXml /\ IsXml' /\ AroundIsOpen /\ AroundIsOpen' /\ (IsFeed' => IsFeed)
      BY <2>4, EndsWithin DEF HomeInvariant
    <3>2. FitsPath' = FitsPath
      BY <2>4 DEF End, FitsPath, grammar
    <3>3. IsFeed' /\ FitsPath => XmlHomes
      BY <3>1 DEF HomeInvariant, XmlHomes
    <3>4. IsFeed' /\ FitsPath => XmlHomes'
      BY <2>4, <3>1, <3>3, ItemHomesEnd, ElementHomesEnd
    <3> QED BY <3>1, <3>2, <3>4 DEF HomeInvariant, XmlHomes
  <2>5. ASSUME NEW row \in grammar.rows, Row(row) PROVE HomeInvariant'
    <3>1. ~IsXml /\ ~IsXml'
      <4>1. Len(document) + 1 = Len(document) + 1
        OBVIOUS
      <4> QED BY <2>5, <4>1, RowsWithin
    <3>2. IsFeed /\ IsFeed' /\ FitsPath' = FitsPath
      BY <2>5, <3>1 DEF IsFeed, Row, FitsPath, grammar
    <3>3. IndexesAreCounted /\ RowsAreOfHomes => IndexesAreCounted' /\ RowsAreOfHomes'
      BY <2>5, RowHomes
    <3> QED BY <3>1, <3>2, <3>3 DEF HomeInvariant
  <2> QED BY <2>1, <2>2, <2>3, <2>4, <2>5 DEF Next, Terminated
<1> QED BY <1>1, HomesBegin, PathHolds, PTL DEF Spec

(* Every piece of text that is stored is stored in the item it was written in, *)
(* counted in the order of the document, or in the feed if it was written     *)
(* outside of all items: for feeds of any size whose elements fit the path,   *)
(* although handlers write to the newest item, chosen by the path or by       *)
(* in_item, and one buffer serves all elements (common.c:28-41,               *)
(* setup-json-parser.c:75-85).                                                *)
THEOREM TextStaysHome == Spec => []FieldsStayHome
<1>1. HomeInvariant /\ PathInvariant => FieldsStayHome
  <2> SUFFICES ASSUME HomeInvariant, PathInvariant, IsFeed, FitsPath
               PROVE  /\ \A k \in DOMAIN data.items :
                           \A f \in Texts \cup {"guid", "publication_date", "update_date"} :
                             \A t \in Pieces(Item(k)[f]) : Home(t) = k
                      /\ \A f \in Texts : \A t \in Pieces(data.feed[f]) : Home(t) = 0
    BY DEF FieldsStayHome
  <2>1. RowsAreOfHomes /\ data \in Data
    BY DEF HomeInvariant, PathInvariant, ItemsAreThere
  <2>2. Len(data.items) \in Nat /\ DOMAIN data.items = 1..Len(data.items)
    BY <2>1, DataItems
  <2>3. ASSUME NEW k, NEW s \in Seq(Belong(k)), NEW t \in Pieces(s) PROVE Home(t) = k
    <3>1. t \in Belong(k) /\ t > 0
      BY DEF Pieces, ToSet
    <3> QED BY <3>1 DEF Belong
  <2>4. ASSUME NEW k \in DOMAIN data.items,
               NEW f \in Texts \cup {"guid", "publication_date", "update_date"},
               NEW t \in Pieces(Item(k)[f])
        PROVE  Home(t) = k
    <3>1. PICK m : m = Len(data.items) + 1 - k
      OBVIOUS
    <3>2. m \in DOMAIN data.items /\ Len(data.items) + 1 - m = k
      BY <2>2, <3>1
    <3>3. Item(k) \in ItemRow(Belong(k))
      BY <2>1, <3>1, <3>2 DEF RowsAreOfHomes, Item
    <3>4. Item(k)[f] \in Seq(Belong(k))
      BY <3>3 DEF ItemRow, Texts
    <3> QED BY <2>3, <3>4
  <2>5. ASSUME NEW f \in Texts, NEW t \in Pieces(data.feed[f]) PROVE Home(t) = 0
    <3>1. data.feed[f] \in Seq(Belong(0))
      BY <2>1 DEF RowsAreOfHomes, FeedRow, Texts
    <3> QED BY <2>3, <3>1
  <2> QED BY <2>4, <2>5
<1> QED BY <1>1, HomeHolds, PathHolds, PTL
-----------------------------------------------------------------------------
(* A value holds text of one element.                                        *)

(* What may be in text that is collected since the start of the i-th of the   *)
(* elements that are open.                                                    *)
Inside(i) == {t \in Int : t > 0 => t \in Numbers /\ \A j \in 1..i : open[j] \in Around[t]}

ContentIs(i) ==
    /\ i \in DOMAIN open /\ i > 1
    /\ document[open[i]].name \in AtomTexts /\ document[open[i - 1]].name \in ItemElements

Collects(i) == IF data.decoy THEN ContentIs(i) ELSE i = Len(open)

TextIsInside == \E i \in 0..Len(open) : Collects(i) /\ data.text \in Seq(Inside(i))

Titles  == TitleElements \cup {"dc:title"}
Updates == UpdateElements
Sources(names) == Named(names) \cup ContentAround(names)

(* The elements that a value of an item may be text of.                       *)
Writers(f) ==
    CASE f = "title" -> Sources(Titles)
      [] f = "update_date" -> Sources(Updates)
      [] f = "guid" -> Named(GuidElements)
      [] OTHER -> Named({"pubDate", "atom:published"})

Known(value) == \A t \in Pieces(value) : t \in Numbers

ItemOfOne(item) == \A f \in Singles : Known(item[f]) /\ FromOne(item[f], Writers(f))

FeedOfOne(feed) == Known(feed.title) /\ FromOne(feed.title, Named(Titles))

ValuesAreOfOne == FeedOfOne(data.feed) /\ \A k \in DOMAIN data.items : ItemOfOne(data.items[k])

ValuesInvariant == IsXml /\ IsFeed /\ FitsPath => TextIsInside /\ ValuesAreOfOne

LEMMA PiecesAre ==
    ASSUME NEW S, NEW v \in Seq(S)
    PROVE  \A t \in Pieces(v) : t \in S /\ t > 0
BY DEF Pieces, ToSet

LEMMA InsideIsTokens ==
    ASSUME NEW i
    PROVE  IsTokens(Inside(i))
<1>1. Marks \subseteq Inside(i) /\ Inside(i) \subseteq Int
  BY DEF Marks, Inside
<1> QED BY <1>1 DEF IsTokens

LEMMA InsideKept ==
    ASSUME IsXml, DocumentIsTree, IsXml', DocumentIsTree', Kept, NEW i \in Nat, NEW j \in 0..i,
           \A m \in 1..j : open'[m] = open[m]
    PROVE  Inside(i) \subseteq Inside(j)'
<1>1. \A n \in Numbers : Around'[n] = Around[n] /\ n \in Numbers'
  BY AroundKept DEF Kept
<1>2. \A m \in 1..j : m \in 1..i
  OBVIOUS
<1>3. ASSUME NEW t \in Inside(i), t > 0
      PROVE  t \in Numbers' /\ \A m \in 1..j : open'[m] \in Around'[t]
  <2>1. t \in Numbers /\ \A m \in 1..i : open[m] \in Around[t]
    BY <1>3 DEF Inside
  <2> QED BY <1>1, <1>2, <2>1
<1> QED BY <1>3 DEF Inside

(* Sources stay sources.                                                      *)
LEMMA SourcesKept ==
    ASSUME IsXml, DocumentIsTree, IsXml', DocumentIsTree', Kept, NEW names
    PROVE  Named(names) \subseteq Named(names)' /\ Sources(names) \subseteq Sources(names)'
<1>1. \A n \in Numbers : /\ Around'[n] = Around[n] /\ n \in Numbers'
                         /\ document'[n].name = document[n].name
  BY AroundKept DEF Kept
<1>2. Named(names) \subseteq Named(names)' /\ Named(AtomTexts) \subseteq Named(AtomTexts)'
  BY <1>1 DEF Named
<1>3. ContentAround(names) \subseteq ContentAround(names)'
  <2>1. ASSUME NEW n \in ContentAround(names) PROVE n \in ContentAround(names)'
    <3>1. PICK m \in Named(names) : n \in Around[m] /\ n \in Named(AtomTexts)
      BY DEF ContentAround
    <3>2. m \in Named(names)' /\ n \in Named(AtomTexts)' /\ n \in Around'[m]
      BY <1>1, <1>2, <3>1 DEF Named
    <3> QED BY <3>2 DEF ContentAround
  <2> QED BY <2>1
<1> QED BY <1>2, <1>3 DEF Sources

LEMMA WritersKept ==
    ASSUME IsXml, DocumentIsTree, IsXml', DocumentIsTree', Kept, NEW f
    PROVE  Writers(f) \subseteq Writers(f)'
BY SourcesKept DEF Writers

LEMMA OneKept ==
    ASSUME IsXml, DocumentIsTree, IsXml', DocumentIsTree', Kept, NEW v, Known(v)
    PROVE  /\ Known(v)'
           /\ \A E, D : FromOne(v, E) /\ E \subseteq D =>
                (Pieces(v) # {} => \E n \in D : \A t \in Pieces(v) : n \in Around'[t])
<1>1. \A n \in Numbers : Around'[n] = Around[n] /\ n \in Numbers'
  BY AroundKept DEF Kept
<1> QED BY <1>1 DEF Known, FromOne

LEMMA ValueKept ==
    ASSUME IsXml, DocumentIsTree, IsXml', DocumentIsTree', Kept, NEW v, Known(v)
    PROVE  /\ Known(v)'
           /\ \A f \in Singles : FromOne(v, Writers(f)) => FromOne(v, Writers(f))'
           /\ FromOne(v, Named(Titles)) => FromOne(v, Named(Titles))'
<1>1. Known(v)'
  BY OneKept
<1>2. ASSUME NEW f \in Singles, FromOne(v, Writers(f)) PROVE FromOne(v, Writers(f))'
  <2>1. PICK E : E = Writers(f)
    OBVIOUS
  <2>2. PICK D : D = Writers(f)'
    OBVIOUS
  <2>3. E \subseteq D /\ FromOne(v, E)
    BY <1>2, <2>1, <2>2, WritersKept
  <2>4. Pieces(v) # {} => \E n \in D : \A t \in Pieces(v) : n \in Around'[t]
    BY <2>3, OneKept
  <2> QED BY <2>2, <2>4 DEF FromOne
<1>3. ASSUME FromOne(v, Named(Titles)) PROVE FromOne(v, Named(Titles))'
  <2>1. PICK E : E = Named(Titles)
    OBVIOUS
  <2>2. PICK D : D = Named(Titles)'
    OBVIOUS
  <2>3. E \subseteq D /\ FromOne(v, E)
    BY <1>3, <2>1, <2>2, SourcesKept
  <2>4. Pieces(v) # {} => \E n \in D : \A t \in Pieces(v) : n \in Around'[t]
    BY <2>3, OneKept
  <2> QED BY <2>2, <2>4 DEF FromOne
<1> QED BY <1>1, <1>2, <1>3

LEMMA RowsKept ==
    ASSUME IsXml, DocumentIsTree, IsXml', DocumentIsTree', Kept
    PROVE  /\ \A r : ItemOfOne(r) => ItemOfOne(r)'
           /\ \A r : FeedOfOne(r) => FeedOfOne(r)'
<1>1. ASSUME NEW r, ItemOfOne(r) PROVE ItemOfOne(r)'
  <2>1. ASSUME NEW f \in Singles PROVE Known(r[f])' /\ FromOne(r[f], Writers(f))'
    <3>1. PICK v : v = r[f]
      OBVIOUS
    <3>2. Known(v) /\ FromOne(v, Writers(f))
      BY <1>1, <3>1 DEF ItemOfOne
    <3>3. Known(v)' /\ FromOne(v, Writers(f))'
      BY <3>2, ValueKept
    <3> QED BY <3>1, <3>3
  <2> QED BY <2>1 DEF ItemOfOne
<1>2. ASSUME NEW r, FeedOfOne(r) PROVE FeedOfOne(r)'
  <2>1. PICK v : v = r.title
    OBVIOUS
  <2>2. Known(v) /\ FromOne(v, Named(Titles))
    BY <1>2, <2>1 DEF FeedOfOne
  <2>3. Known(v)' /\ FromOne(v, Named(Titles))'
    BY <2>2, ValueKept
  <2> QED BY <2>1, <2>3 DEF FeedOfOne
<1> QED BY <1>1, <1>2

LEMMA SinglesStay ==
    ASSUME IsXml, DocumentIsTree, IsXml', DocumentIsTree', Kept, ValuesAreOfOne,
           data \in Data, data' \in Data, Len(data'.items) = Len(data.items),
           \A k \in 2..Len(data.items) : data'.items[k] = data.items[k], SameSingles(data, data')
    PROVE  ValuesAreOfOne'
<1>1. PICK k : k = Len(data.items)
  OBVIOUS
<1>2. k \in Nat /\ DOMAIN data.items = 1..k /\ DOMAIN data'.items = 1..k
  BY <1>1, DataItems
<1>3. FeedOfOne(data.feed)'
  <2>1. PICK r : r = data'.feed
    OBVIOUS
  <2>2. FeedOfOne(r)
    BY <2>1 DEF ValuesAreOfOne, FeedOfOne, SameSingles
  <2>3. FeedOfOne(r)'
    BY <2>2, RowsKept
  <2> QED BY <2>1, <2>3
<1>4. ASSUME NEW m \in 1..k PROVE ItemOfOne(data.items[m])'
  <2>1. PICK r : r = data'.items[m]
    OBVIOUS
  <2>2. ItemOfOne(data.items[m])
    BY <1>2 DEF ValuesAreOfOne
  <2>3. \A f \in Singles : r[f] = data.items[m][f]
    <3>1. CASE m = 1
      BY <2>1, <3>1 DEF SameSingles
    <3>2. CASE m \in 2..k
      BY <1>1, <2>1, <3>2
    <3> QED BY <1>2, <3>1, <3>2
  <2>4. ItemOfOne(r)
    BY <2>2, <2>3 DEF ItemOfOne
  <2>5. ItemOfOne(r)'
    BY <2>4, RowsKept
  <2> QED BY <2>1, <2>5
<1> QED BY <1>2, <1>3, <1>4 DEF ValuesAreOfOne

(* Where collecting goes on when an element is opened.                        *)
LEMMA CollectsOn ==
    ASSUME PathInvariant, PathInvariant', AroundIsOpen, FitsPath, TextIsInside, NEW name \in STRING,
           NEW attrs \in Attributes(name, Len(document) + 1), Start(name, attrs),
           NEW i \in 0..Len(open), Collects(i), data.text \in Seq(Inside(i)), NEW T, T = Inside(i)',
           data'.text \in Seq(T), data.decoy \/ data'.text = <<>>,
           data'.decoy = data.decoy \/ (data'.decoy /\ name \in AtomTexts /\ At(data) = "item")
    PROVE  TextIsInside'
<1>1. PICK n : n = Len(document) + 1
  OBVIOUS
<1>2. PICK L : L = Len(open)
  OBVIOUS
<1>3. /\ IsXml /\ IsXml' /\ Kept /\ L \in Nat /\ DOMAIN open = 1..L /\ DOMAIN open' = 1..L + 1
      /\ \A m \in 1..L : open'[m] = open[m] /\ open[m] \in Numbers
      /\ open'[L + 1] = n /\ document'[n].name = name
  BY <1>1, <1>2, StartsWithin
<1>4. Len(open') = L + 1
  <2>1. open' \in Seq(Nat)
    BY DEF PathInvariant, OpenAreNested
  <2> QED BY <1>3, <2>1
<1>5. data \in Data /\ data' \in Data
  BY DEF PathInvariant, ItemsAreThere
<1>6. CASE data.decoy
  <2>1. i \in 1..L /\ i > 1 /\ i - 1 \in 1..L /\ i \in 1..L + 1 /\ i \in 0..L + 1
    BY <1>2, <1>3, <1>6 DEF Collects, ContentIs
  <2>2. ContentIs(i)'
    <3>1. document'[open'[i]].name = document[open[i]].name
          /\ document'[open'[i - 1]].name = document[open[i - 1]].name
      BY <1>3, <2>1 DEF Kept
    <3> QED BY <1>3, <1>6, <2>1, <3>1 DEF Collects, ContentIs
  <2>3. data'.decoy
    BY <1>6
  <2>4. data'.text \in Seq(Inside(i)')
    OBVIOUS
  <2> QED BY <1>4, <2>1, <2>2, <2>3, <2>4 DEF TextIsInside, Collects
<1>7. CASE ~data.decoy
  <2>1. PICK j : j = L + 1
    OBVIOUS
  <2>2. data'.text \in Seq(Inside(j)') /\ j \in 0..Len(open')
    BY <1>3, <1>4, <1>7, <2>1
  <2>3. data'.decoy => ContentIs(j)'
    <3> SUFFICES ASSUME data'.decoy PROVE ContentIs(j)'
      OBVIOUS
    <3>1. name \in AtomTexts /\ At(data) = "item"
      BY <1>7
    <3>2. /\ data.depth = L /\ data.path[0] = "XML_UNKNOWN_POS"
          /\ \A m \in 1..L : data.path[m] = Position(document[open[m]].name)
      BY <1>2, <1>3 DEF PathInvariant, PathIsOfOpen
    <3>3. data.path[L] = "GENERIC_ITEM"
      BY <3>1, <3>2, AtIs
    <3>4. L \in 1..L
      BY <1>3, <3>2, <3>3
    <3>5. document[open[L]].name \in ItemElements
      BY <3>2, <3>3, <3>4, PositionIs
    <3>6. document'[open'[L]].name \in ItemElements
      BY <1>3, <3>4, <3>5 DEF Kept
    <3>7. j \in DOMAIN open' /\ j > 1 /\ j - 1 = L
      BY <1>3, <2>1, <3>4
    <3> QED BY <1>3, <2>1, <3>1, <3>6, <3>7 DEF ContentIs
  <2>4. ~data'.decoy => j = Len(open')
    BY <1>4, <2>1
  <2>5. Collects(j)'
    BY <2>3, <2>4 DEF Collects
  <2> QED BY <2>2, <2>5 DEF TextIsInside
<1> QED BY <1>6, <1>7

LEMMA OfOneStart ==
    ASSUME PathInvariant, PathInvariant', AroundIsOpen, FitsPath, TextIsInside, ValuesAreOfOne,
           NEW name \in STRING, NEW attrs \in Attributes(name, Len(document) + 1), Start(name, attrs)
    PROVE  TextIsInside' /\ ValuesAreOfOne'
<1>1. PICK n : n = Len(document) + 1
  OBVIOUS
<1>2. PICK L : L = Len(open)
  OBVIOUS
<1>3. /\ IsXml /\ IsXml' /\ Kept /\ n \in Nat \ {0} /\ n \in Numbers'
      /\ L \in Nat /\ DOMAIN open = 1..L
      /\ \A m \in 1..L : open'[m] = open[m] /\ open[m] \in Numbers
      /\ Around'[n] = {n} \cup {open[m] : m \in 1..L}
  BY <1>1, <1>2, StartsWithin
<1>4. data' = start_element_handler(data, name, attrs, n)
  BY <1>1 DEF Start
<1>5. data \in Data /\ data' \in Data /\ DocumentIsTree /\ DocumentIsTree'
  BY DEF PathInvariant, ItemsAreThere
<1>6. PICK i \in 0..Len(open) : Collects(i) /\ data.text \in Seq(Inside(i))
  BY DEF TextIsInside
<1> DEFINE T == Inside(i)'
           Z == Int
           e == data'
<1>7. IsTokens(T)
  <2>1. Marks \subseteq T /\ T \subseteq Int
    BY DEF Marks, Inside
  <2> QED BY <2>1 DEF IsTokens
<1>8. n \in T
  <2>1. \A m \in 1..i : open'[m] \in Around'[n]
    <3>1. \A m \in 1..i : m \in 1..L
      BY <1>2, <1>3
    <3> QED BY <1>3, <3>1
  <2> QED BY <1>3, <2>1 DEF Inside
<1>9. data.text \in Seq(T)
  <2>1. i \in Nat /\ i \in 0..i /\ \A m \in 1..i : open'[m] = open[m]
    <3>1. \A m \in 1..i : m \in 1..L
      BY <1>2, <1>3
    <3>2. i \in Nat
      BY <1>2, <1>3
    <3> QED BY <1>3, <3>1, <3>2
  <2>2. Inside(i) \subseteq T
    BY <1>3, <1>5, <2>1, InsideKept
  <2> QED BY <1>6, <2>2, RowsGrow
<1>10. Holds(data, Z, Z)
  BY <1>5, DataHolds
<1>11. CASE name \in ItemElements
  <2>1. Holds(e, Z, Z) /\ ItemStarted(data, name, e)
    <3>1. e = start_element_handler(data, name, attrs, n)
      BY <1>4
    <3> HIDE DEF Z, e, T
    <3> QED BY <1>10, <1>11, <3>1, StartItem
  <2>2. TextIsInside'
    <3>1. data'.text = (IF data.decoy THEN data.text ELSE <<>>) /\ data'.decoy = data.decoy
      BY <2>1 DEF ItemStarted
    <3>2. data'.text \in Seq(T)
      BY <1>9, <3>1
    <3> HIDE DEF T
    <3>3. T = Inside(i)'
      BY DEF T
    <3> QED BY <1>6, <3>1, <3>2, <3>3, CollectsOn
  <2>3. PICK k : k = Len(data.items)
    OBVIOUS
  <2>4. /\ e.items[1] = NoItem /\ e.feed = data.feed /\ Len(e.items) = k + 1
        /\ \A m \in 2..k + 1 : e.items[m] = data.items[m - 1]
    BY <2>1, <2>3 DEF ItemStarted
  <2>5. k \in Nat /\ DOMAIN data.items = 1..k /\ DOMAIN e.items = 1..k + 1
    BY <1>5, <2>3, <2>4, DataItems
  <2>6. FeedOfOne(data.feed)'
    <3>1. PICK r : r = data.feed
      OBVIOUS
    <3>2. FeedOfOne(r)'
      BY <1>3, <1>5, <3>1, RowsKept DEF ValuesAreOfOne
    <3>3. e.feed = r
      BY <2>4, <3>1
    <3> QED BY <3>2, <3>3
  <2>7. ASSUME NEW m \in 1..k + 1 PROVE ItemOfOne(data.items[m])'
    <3>1. PICK r : r = e.items[m]
      OBVIOUS
    <3>2. ItemOfOne(r)
      <4>1. CASE m = 1
        <5>1. \A f \in Singles : r[f] = <<>>
          BY <2>4, <3>1, <4>1 DEF NoItem, Singles
        <5>2. Pieces(<<>>) = {}
          BY DEF Pieces, ToSet
        <5> QED BY <5>1, <5>2 DEF ItemOfOne, Known, FromOne
      <4>2. CASE m \in 2..k + 1
        <5>1. m - 1 \in 1..k
          BY <2>5, <4>2
        <5>2. r = data.items[m - 1]
          BY <2>4, <3>1, <4>2
        <5> QED BY <2>5, <5>1, <5>2 DEF ValuesAreOfOne
      <4> QED BY <2>5, <4>1, <4>2
    <3>3. ItemOfOne(r)'
      BY <1>3, <1>5, <3>2, RowsKept
    <3> QED BY <3>1, <3>3
  <2> QED BY <2>2, <2>5, <2>6, <2>7 DEF ValuesAreOfOne
<1>12. CASE name \notin ItemElements
  <2>1. Targets(data, T, Z, Z)
    <3>1. data.in_item \/ At(data) = "item" => data.items # <<>>
      <4>1. data.depth \in 0..PathSize - 1
        BY <1>5 DEF Data
      <4> QED BY <4>1, AtIs DEF PathInvariant, ItemsAreThere
    <3>2. T \subseteq Int
      BY <1>7 DEF IsTokens
    <3> QED BY <1>7, <1>10, <3>1, <3>2, IntegersAreTokens DEF Targets
  <2>2. AttrsOf(attrs, T)
    BY <1>1, <1>7, <1>8, AttributesAre DEF IsTokens
  <2>3. Holds(e, Z, Z) /\ ElementStarted(data, name, T, e)
    <3>1. e = start_element_handler(data, name, attrs, n)
      BY <1>4
    <3> HIDE DEF T, Z, e
    <3> QED BY <1>8, <1>9, <1>12, <2>1, <2>2, <3>1, StartElement
  <2>4. TextIsInside'
    <3>1. /\ data'.text \in Seq(T) /\ (data.decoy \/ data'.text = <<>>)
          /\ data'.decoy = data.decoy \/ (data'.decoy /\ name \in AtomTexts /\ At(data) = "item")
      BY <2>3 DEF ElementStarted
    <3> HIDE DEF T
    <3>2. T = Inside(i)'
      BY DEF T
    <3> QED BY <1>6, <3>1, <3>2, CollectsOn
  <2>5. ValuesAreOfOne'
    <3>1. /\ Len(data'.items) = Len(data.items) /\ SameSingles(data, data')
          /\ \A k \in 2..Len(data.items) : data'.items[k] = data.items[k]
      BY <2>3 DEF ElementStarted
    <3> QED BY <1>3, <1>5, <3>1, SinglesStay
  <2> QED BY <2>4, <2>5
<1> QED BY <1>11, <1>12

LEMMA OfOneText ==
    ASSUME PathInvariant, PathInvariant', AroundIsOpen, TextIsInside, ValuesAreOfOne,
           NEW token, Characters(token)
    PROVE  TextIsInside' /\ ValuesAreOfOne'
<1>1. /\ document' = document /\ open' = open /\ kind' = kind /\ open # <<>>
      /\ token \in {Last(open)} \cup grammar.noise
      /\ data' = character_data_handler(data, token)
  BY DEF Characters
<1>2. IsXml /\ IsXml' /\ DocumentIsTree /\ DocumentIsTree' /\ data \in Data /\ data' \in Data
  BY DEF Characters, PathInvariant, DocumentIsTree, ItemsAreThere, IsXml, grammar
<1>3. Numbers' = Numbers /\ Kept
  BY <1>1 DEF Numbers, Kept
<1>4. PICK L : L = Len(open)
  OBVIOUS
<1>5. /\ L \in Nat \ {0} /\ DOMAIN open = 1..L /\ open[L] \in Numbers
  <2>1. open \in Seq(Nat)
    BY DEF PathInvariant, OpenAreNested
  <2>2. L \in Nat \ {0} /\ DOMAIN open = 1..L
    BY <1>1, <1>4, <2>1
  <2>3. L \in DOMAIN open
    BY <2>2
  <2> QED BY <2>2, <2>3 DEF PathInvariant, OpenAreNested
<1>6. PICK i \in 0..Len(open) : Collects(i) /\ data.text \in Seq(Inside(i))
  BY DEF TextIsInside
<1>7. token \in Inside(i)
  <2>1. CASE token = Last(open)
    <3>1. token = open[L]
      BY <1>4, <2>1 DEF Last
    <3>2. Around[open[L]] = {open[j] : j \in 1..L}
      <4>1. L \in DOMAIN open
        BY <1>5
      <4> QED BY <4>1 DEF AroundIsOpen
    <3>3. \A j \in 1..i : open[j] \in Around[token]
      <4>1. \A j \in 1..i : j \in 1..L
        BY <1>4, <1>5
      <4> QED BY <3>1, <3>2, <4>1
    <3>4. token \in Int
      <4>1. open \in Seq(Nat)
        BY DEF PathInvariant, OpenAreNested
      <4> QED BY <1>4, <1>5, <3>1, <4>1
    <3> QED BY <1>5, <3>1, <3>3, <3>4 DEF Inside
  <2>2. CASE token \in grammar.noise
    <3>1. token \in {Space, Delimiter}
      BY <1>2, <2>2, GrammarIs DEF DocumentIsTree
    <3> QED BY <3>1 DEF Inside, Space, Delimiter
  <2> QED BY <1>1, <2>1, <2>2
<1> DEFINE T == Inside(i)
           Z == Int
           e == data'
<1>8. e.text \in Seq(T) /\ e.items = data.items /\ e.feed = data.feed /\ e.decoy = data.decoy
  <2>1. /\ Holds(data, Z, Z) /\ T \subseteq Int /\ data.text \in Seq(T) /\ token \in T
        /\ e = [data EXCEPT !.text = Append(@, token)]
    BY <1>1, <1>2, <1>6, <1>7, DataHolds DEF character_data_handler, Inside
  <2> HIDE DEF T, Z, e
  <2>2. Holds(e, Z, Z) /\ e.text \in Seq(T)
    BY <2>1, TextAppended
  <2>3. e.items = data.items /\ e.feed = data.feed /\ e.decoy = data.decoy
    BY <2>1, <2>2, TextAppended
  <2> QED BY <2>2, <2>3
<1>9. TextIsInside'
  <2>1. Collects(i)'
    BY <1>1, <1>6, <1>8 DEF Collects, ContentIs
  <2>2. Inside(i) \subseteq Inside(i)'
    <3>1. i \in Nat /\ i \in 0..i /\ \A m \in 1..i : open'[m] = open[m]
      BY <1>1, <1>4, <1>5
    <3> QED BY <1>2, <1>3, <3>1, InsideKept
  <2>3. data'.text \in Seq(Inside(i)')
    BY <1>8, <2>2, RowsGrow
  <2> QED BY <1>1, <2>1, <2>3 DEF TextIsInside
<1>10. ValuesAreOfOne'
  <2>1. SameSingles(data, data')
    BY <1>8, SinglesAreOf
  <2> QED BY <1>2, <1>3, <1>8, <2>1, SinglesStay
<1> QED BY <1>9, <1>10

LEMMA OfOneRest ==
    ASSUME PathInvariant, PathInvariant', ValuesInvariant, UNCHANGED <<data, kind, document, open>>
    PROVE  ValuesInvariant'
<1>1. Numbers' = Numbers /\ Around' = Around /\ IsXml' = IsXml /\ FitsPath' = FitsPath
  BY DEF Numbers, Around, IsXml, FitsPath, grammar
<1>2. IsFeed' = IsFeed
  BY <1>1 DEF IsFeed
<1>3. TextIsInside => TextIsInside'
  <2>1. \A i : Inside(i)' = Inside(i)
    BY <1>1 DEF Inside
  <2>2. \A i : Collects(i)' = Collects(i)
    BY DEF Collects, ContentIs
  <2> QED BY <2>1, <2>2 DEF TextIsInside
<1>4. ASSUME IsXml, ValuesAreOfOne PROVE ValuesAreOfOne'
  <2>1. DocumentIsTree /\ DocumentIsTree' /\ Kept /\ IsXml'
    BY <1>1, <1>4 DEF PathInvariant, Kept
  <2>2. FeedOfOne(data.feed)'
    <3>1. PICK r : r = data.feed
      OBVIOUS
    <3>2. FeedOfOne(r)'
      BY <1>4, <2>1, <3>1, RowsKept DEF ValuesAreOfOne
    <3> QED BY <3>1, <3>2
  <2>3. ASSUME NEW m \in DOMAIN data.items PROVE ItemOfOne(data.items[m])'
    <3>1. PICK r : r = data.items[m]
      OBVIOUS
    <3>2. ItemOfOne(r)'
      BY <1>4, <2>1, <3>1, RowsKept DEF ValuesAreOfOne
    <3> QED BY <3>1, <3>2
  <2> QED BY <2>2, <2>3 DEF ValuesAreOfOne
<1> QED BY <1>1, <1>2, <1>3, <1>4 DEF ValuesInvariant

LEMMA OfOneBegins == Init => ValuesInvariant
<1> SUFFICES ASSUME Init PROVE ValuesInvariant
  OBVIOUS
<1>1. /\ data.items = <<>> /\ data.decoy = FALSE /\ data.feed = NoFeed /\ open = <<>> /\ data.text = <<>>
  BY DEF Init
<1>2. TextIsInside
  <2>1. Collects(0) /\ data.text \in Seq(Inside(0)) /\ 0 \in 0..Len(open)
    BY <1>1 DEF Collects
  <2> QED BY <2>1 DEF TextIsInside
<1>3. FeedOfOne(NoFeed)
  <2>1. Pieces(<<>>) = {} /\ NoFeed.title = <<>>
    BY DEF Pieces, ToSet, NoFeed
  <2> QED BY <2>1 DEF FeedOfOne, Known, FromOne
<1>4. ValuesAreOfOne
  BY <1>1, <1>3 DEF ValuesAreOfOne
<1> QED BY <1>2, <1>4 DEF ValuesInvariant

(* The text that an end tag finds is of the element it ends, or of the         *)
(* content that the element is in.                                            *)
LEMMA TextIsOfOne ==
    ASSUME IsXml, PathInvariant, AroundIsOpen, NEW L, L = Len(open), L \in Nat \ {0},
           NEW n, n = open[L], NEW names, document[n].name \in names,
           NEW i \in 0..Len(open), Collects(i), NEW v \in Seq(Inside(i))
    PROVE  /\ Known(v) /\ FromOne(v, Sources(names))
           /\ ~data.decoy => FromOne(v, Named(names))
<1>1. open \in Seq(Nat) /\ DOMAIN open = 1..L
  BY DEF PathInvariant, OpenAreNested
<1>2. L \in 1..L /\ n \in Numbers /\ \A j \in 1..L : open[j] \in Numbers
  BY <1>1 DEF PathInvariant, OpenAreNested
<1>3. \A t \in Pieces(v) : t \in Numbers /\ \A j \in 1..i : open[j] \in Around[t]
  <2>1. \A t \in Pieces(v) : t \in Inside(i) /\ t > 0
    BY PiecesAre
  <2> QED BY <2>1 DEF Inside
<1>4. n \in Named(names)
  BY <1>2 DEF Named
<1>5. CASE data.decoy
  <2>1. i \in 1..L /\ i \in 1..i /\ document[open[i]].name \in AtomTexts
    BY <1>1, <1>5 DEF Collects, ContentIs
  <2>2. open[i] \in Around[n]
    <3>1. Around[n] = {open[j] : j \in 1..L}
      BY <1>1, <1>2 DEF AroundIsOpen
    <3> QED BY <2>1, <3>1
  <2>3. open[i] \in ContentAround(names)
    BY <1>2, <1>4, <2>1, <2>2 DEF ContentAround, Named
  <2> QED BY <1>3, <1>5, <2>1, <2>3 DEF Known, FromOne, Sources
<1>6. CASE ~data.decoy
  <2>1. \A t \in Pieces(v) : n \in Around[t]
    <3>1. L \in 1..i
      BY <1>6 DEF Collects
    <3> QED BY <1>3, <3>1
  <2> QED BY <1>3, <1>4, <2>1 DEF Known, FromOne, Sources
<1> QED BY <1>5, <1>6

(* Within content neither an item nor a feed is what an element is found in.  *)
LEMMA NotWithinContent ==
    ASSUME IsXml, IsFeed, PathInvariant, AroundIsOpen, ItemsAreCounted, NEW L, L = Len(open),
           L \in Nat \ {0}, document[open[L]].name \notin AtomTexts,
           NEW i \in 0..Len(open), Collects(i), data.decoy
    PROVE  /\ data.in_item /\ L - 1 \in 1..L
           /\ document[open[L - 1]].name \notin ItemElements \cup FeedElements
<1>1. open \in Seq(Nat) /\ DOMAIN open = 1..L
  BY DEF PathInvariant, OpenAreNested
<1>2. \A j \in 1..L : open[j] \in Numbers /\ open[j] \in Nat
  BY <1>1 DEF PathInvariant, OpenAreNested
<1>3. i \in 1..L /\ i > 1 /\ document[open[i - 1]].name \in ItemElements /\ i # L
  BY <1>1 DEF Collects, ContentIs
<1>4. PICK p : p = i - 1
  OBVIOUS
<1>5. PICK q : q = L - 1
  OBVIOUS
<1>6. p \in 1..L /\ q \in 1..L /\ p < q
  BY <1>3, <1>4, <1>5
<1>7. data.in_item
  <2>1. open[p] \in ItemNumbers
    BY <1>2, <1>3, <1>4, <1>6 DEF ItemNumbers
  <2> QED BY <1>1, <1>6, <2>1 DEF ItemsAreCounted
<1>8. document[open[q]].name \notin ItemElements \cup FeedElements
  <2>1. open[p] \in Around[open[q]] \ {open[q]}
    <3>1. Around[open[q]] = {open[j] : j \in 1..q}
      BY <1>1, <1>6 DEF AroundIsOpen
    <3>2. p \in 1..q
      BY <1>6
    <3>3. open[p] < open[q]
      BY <1>1, <1>6 DEF PathInvariant, OpenAreNested
    <3>4. open[p] # open[q]
      BY <1>2, <1>6, <3>3
    <3> QED BY <3>1, <3>2, <3>4
  <2>2. document[open[p]].name \notin FeedElements \cup {"rss"}
    BY <1>3, <1>4, FramesAre
  <2> QED BY <1>2, <1>6, <2>1, <2>2 DEF IsFeed
<1> QED BY <1>5, <1>6, <1>7, <1>8

(* Where collecting goes on when an element is closed.                        *)
LEMMA CollectsBack ==
    ASSUME PathInvariant, PathInvariant', AroundIsOpen, ItemsAreCounted, FitsPath, End,
           NEW L, L = Len(open), NEW name, name = document[open[L]].name,
           NEW i \in 0..Len(open), Collects(i), NEW T, T = Inside(i), data'.text \in Seq(T),
           data'.decoy = IF name \in AtomTexts /\ At(Left(data)) = "item" THEN FALSE ELSE data.decoy,
           At(Left(data)) = "item" <=> L > 1 /\ document[open[L - 1]].name \in ItemElements
    PROVE  TextIsInside'
<1>1. PICK n : n = open[L]
  OBVIOUS
<1>2. /\ IsXml /\ IsXml' /\ Kept /\ n \in Numbers
      /\ L \in Nat \ {0} /\ DOMAIN open = 1..L /\ DOMAIN open' = 1..L - 1
      /\ \A m \in 1..L - 1 : open'[m] = open[m]
      /\ \A m \in 1..L : open[m] \in Numbers
      /\ ItemNumbers' = ItemNumbers
  BY <1>1, EndsWithin
<1>3. Len(open') = L - 1
  <2>1. open' \in Seq(Nat)
    BY DEF PathInvariant, OpenAreNested
  <2> QED BY <1>2, <2>1
<1>4. DocumentIsTree /\ DocumentIsTree'
  BY DEF PathInvariant
<1>5. ASSUME NEW j \in 0..i, j <= L - 1 PROVE data'.text \in Seq(Inside(j)')
  <2>1. i \in Nat /\ \A m \in 1..j : open'[m] = open[m]
    BY <1>2, <1>5
  <2>2. Inside(i) \subseteq Inside(j)'
    BY <1>2, <1>4, <2>1, InsideKept
  <2> QED BY <2>2, RowsGrow
<1>6. CASE data'.decoy
  <2>1. data.decoy /\ ~(name \in AtomTexts /\ At(Left(data)) = "item")
    BY <1>6
  <2>2. i \in 1..L /\ i > 1 /\ document[open[i]].name \in AtomTexts
        /\ document[open[i - 1]].name \in ItemElements
    BY <1>2, <2>1 DEF Collects, ContentIs
  <2>3. i # L
    BY <2>1, <2>2
  <2>4. i \in 1..L - 1 /\ i - 1 \in 1..L - 1 /\ i - 1 \in 1..L /\ i \in 0..i /\ i <= L - 1
    BY <1>2, <2>2, <2>3
  <2>5. /\ document'[open'[i]].name = document[open[i]].name
        /\ document'[open'[i - 1]].name = document[open[i - 1]].name
    BY <1>2, <2>2, <2>4 DEF Kept
  <2>6. Collects(i)'
    BY <1>2, <1>6, <2>2, <2>4, <2>5 DEF Collects, ContentIs
  <2>7. data'.text \in Seq(Inside(i)') /\ i \in 0..Len(open')
    BY <1>3, <1>5, <2>4
  <2> QED BY <2>6, <2>7 DEF TextIsInside
<1>7. CASE ~data'.decoy
  <2>1. PICK j : j = L - 1
    OBVIOUS
  <2>2. j <= i
    <3>1. CASE ~data.decoy
      BY <1>2, <2>1, <3>1 DEF Collects
    <3>2. CASE data.decoy
      <4>1. At(Left(data)) = "item"
        BY <1>7, <3>2
      <4>2. i \in 1..L /\ i > 1 /\ document[open[i - 1]].name \in ItemElements
        BY <1>2, <3>2 DEF Collects, ContentIs
      <4>3. j \in 1..L /\ document[open[j]].name \in ItemElements
        BY <1>2, <2>1, <4>1
      <4>4. PICK p \in 1..L : p = i - 1
        BY <1>2, <4>2
      <4>5. open[p] \in ItemNumbers /\ open[j] \in ItemNumbers
        BY <1>2, <4>2, <4>3, <4>4 DEF ItemNumbers
      <4>6. open[j] <= open[p]
        BY <1>2, <4>4, <4>5 DEF ItemsAreCounted
      <4>7. open \in Seq(Nat) /\ open[j] \in Nat /\ open[p] \in Nat
        <5>1. open \in Seq(Nat)
          BY DEF PathInvariant, OpenAreNested
        <5>2. \A m \in 1..L : open[m] \in Nat
          BY <1>2, <5>1
        <5> QED BY <4>3, <4>4, <5>1, <5>2
      <4>8. p < j => open[p] < open[j]
        BY <1>2, <4>3, <4>4 DEF PathInvariant, OpenAreNested
      <4>9. ~(p < j)
        BY <4>6, <4>7, <4>8
      <4> QED BY <1>2, <2>1, <4>2, <4>4, <4>9
    <3> QED BY <3>1, <3>2
  <2>3. j \in 0..i /\ j <= L - 1 /\ j \in 0..Len(open') /\ j = Len(open')
    BY <1>2, <1>3, <2>1, <2>2
  <2>4. data'.text \in Seq(Inside(j)')
    BY <1>5, <2>3
  <2>5. Collects(j)'
    BY <1>7, <2>3 DEF Collects
  <2> QED BY <2>3, <2>4, <2>5 DEF TextIsInside
<1> QED BY <1>6, <1>7

(* What one end tag makes of the values, given the text it found.             *)
LEMMA ValueEnds ==
    ASSUME IsXml, DocumentIsTree, IsXml', DocumentIsTree', Kept, ValuesAreOfOne,
           data \in Data, data' \in Data, Len(data'.items) = Len(data.items),
           \A k \in 2..Len(data.items) : data'.items[k] = data.items[k],
           data'.feed.title = data.feed.title, NEW f \in Singles, NEW v, Known(v), FromOne(v, Writers(f)),
           \A g \in Singles : data'.items[1][g] = IF g = f THEN v ELSE data.items[1][g]
    PROVE  ValuesAreOfOne'
<1>1. PICK k : k = Len(data.items)
  OBVIOUS
<1>2. k \in Nat /\ DOMAIN data.items = 1..k /\ DOMAIN data'.items = 1..k
  BY <1>1, DataItems
<1>3. FeedOfOne(data.feed)'
  <2>1. PICK r : r = data'.feed
    OBVIOUS
  <2>2. FeedOfOne(r)
    BY <2>1 DEF ValuesAreOfOne, FeedOfOne
  <2>3. FeedOfOne(r)'
    BY <2>2, RowsKept
  <2> QED BY <2>1, <2>3
<1>4. ASSUME NEW m \in 1..k PROVE ItemOfOne(data.items[m])'
  <2>1. PICK r : r = data'.items[m]
    OBVIOUS
  <2>2. ItemOfOne(data.items[m])
    BY <1>2 DEF ValuesAreOfOne
  <2>3. ItemOfOne(r)
    <3>1. CASE m = 1
      <4>1. \A g \in Singles : r[g] = IF g = f THEN v ELSE data.items[1][g]
        BY <2>1, <3>1
      <4>2. ItemOfOne(data.items[1])
        BY <2>2, <3>1
      <4> QED BY <4>1, <4>2 DEF ItemOfOne
    <3>2. CASE m \in 2..k
      BY <1>1, <2>1, <2>2, <3>2
    <3> QED BY <1>2, <3>1, <3>2
  <2>4. ItemOfOne(r)'
    BY <2>3, RowsKept
  <2> QED BY <2>1, <2>4
<1> QED BY <1>2, <1>3, <1>4 DEF ValuesAreOfOne

LEMMA FeedEnds ==
    ASSUME IsXml, DocumentIsTree, IsXml', DocumentIsTree', Kept, ValuesAreOfOne,
           NEW v, Known(v), FromOne(v, Named(Titles)), data'.items = data.items, data'.feed.title = v
    PROVE  ValuesAreOfOne'
<1>1. FeedOfOne(data.feed)'
  <2>1. PICK r : r = data'.feed
    OBVIOUS
  <2>2. FeedOfOne(r)
    BY <2>1 DEF FeedOfOne
  <2>3. FeedOfOne(r)'
    BY <2>2, RowsKept
  <2> QED BY <2>1, <2>3
<1>2. ASSUME NEW m \in DOMAIN data.items PROVE ItemOfOne(data.items[m])'
  <2>1. PICK r : r = data.items[m]
    OBVIOUS
  <2>2. ItemOfOne(r)
    BY <2>1 DEF ValuesAreOfOne
  <2>3. ItemOfOne(r)'
    BY <2>2, RowsKept
  <2> QED BY <2>1, <2>3
<1> QED BY <1>1, <1>2 DEF ValuesAreOfOne

(* An end tag of an element finds text of one element, which it may store.    *)
LEMMA SinglesEnd ==
    ASSUME PathInvariant, PathInvariant', AroundIsOpen, ItemsAreCounted, IsFeed, IsXml, IsXml', Kept,
           ValuesAreOfOne, NEW L, L = Len(open), L \in Nat \ {0},
           NEW name, name = document[open[L]].name, NEW x, Valued(x, name, data'),
           x.items = data.items, x.feed = data.feed, x.in_item = data.in_item,
           Len(data'.items) = Len(data.items),
           \A k \in 2..Len(data.items) : data'.items[k] = data.items[k],
           At(x) = "item" => document[open[L - 1]].name \in ItemElements,
           At(x) = "feed" => document[open[L - 1]].name \in FeedElements,
           NEW i \in 0..Len(open), Collects(i), x.text \in Seq(Inside(i))
    PROVE  ValuesAreOfOne'
<1>1. data \in Data /\ data' \in Data /\ DocumentIsTree /\ DocumentIsTree'
  BY DEF PathInvariant, ItemsAreThere
<1>2. PICK v : v = x.text
  OBVIOUS
<1>3. PICK n : n = open[L]
  OBVIOUS
<1>4. v \in Seq(Inside(i)) /\ document[n].name = name
  BY <1>2, <1>3
<1>5. /\ Known(v)
      /\ \A names : name \in names =>
           FromOne(v, Sources(names)) /\ (~data.decoy => FromOne(v, Named(names)))
  <2>1. name \in {name} /\ document[n].name \in {name}
    BY <1>4
  <2>2. Known(v)
    BY <1>3, <1>4, <2>1, TextIsOfOne
  <2>3. ASSUME NEW names, name \in names
        PROVE  FromOne(v, Sources(names)) /\ (~data.decoy => FromOne(v, Named(names)))
    BY <1>3, <1>4, <2>3, TextIsOfOne
  <2> QED BY <2>2, <2>3
<1>6. ASSUME name \notin AtomTexts, At(x) = "item" \/ At(x) = "feed" \/ ~data.in_item PROVE ~data.decoy
  BY <1>6, NotWithinContent
<1>7. /\ AtomTexts \cap TitleElements = {} /\ AtomTexts \cap GuidElements = {}
      /\ AtomTexts \cap {"pubDate", "atom:published"} = {} /\ "dc:title" \notin AtomTexts
      /\ TitleElements \subseteq Titles /\ "dc:title" \in Titles
      /\ Writers("title") = Sources(Titles) /\ Writers("update_date") = Sources(Updates)
      /\ Writers("guid") = Named(GuidElements)
      /\ Writers("publication_date") = Named({"pubDate", "atom:published"})
  BY DEF AtomTexts, TitleElements, GuidElements, Titles, Writers
<1>8. ASSUME NEW f \in Singles, ItemValued(x, f, data'), FromOne(v, Writers(f)) PROVE ValuesAreOfOne'
  <2>1. data'.feed.title = data.feed.title
    BY <1>8 DEF ItemValued
  <2>2. \A g \in Singles : data'.items[1][g] = IF g = f THEN v ELSE data.items[1][g]
    BY <1>2, <1>8 DEF ItemValued
  <2> QED BY <1>1, <1>5, <1>8, <2>1, <2>2, ValueEnds
<1>9. /\ "title" \in Singles /\ "guid" \in Singles /\ "publication_date" \in Singles
      /\ "update_date" \in Singles
  BY DEF Singles
<1>10. CASE SameSingles(x, data')
  <2>1. SameSingles(data, data')
    BY <1>10 DEF SameSingles
  <2> QED BY <1>1, <2>1, SinglesStay
<1>11. CASE /\ data'.feed.title = x.text /\ data'.items = x.items
            /\ (name \in TitleElements /\ At(x) = "feed") \/ (name = "dc:title" /\ ~x.in_item)
  <2>1. name \in Titles /\ name \notin AtomTexts /\ (At(x) = "feed" \/ ~data.in_item)
    BY <1>7, <1>11
  <2>2. FromOne(v, Named(Titles))
    BY <1>5, <1>6, <2>1
  <2>3. data'.items = data.items /\ data'.feed.title = v
    BY <1>2, <1>11
  <2> QED BY <1>1, <1>5, <2>2, <2>3, FeedEnds
<1>12. CASE /\ ItemValued(x, "title", data')
            /\ (name \in TitleElements /\ At(x) = "item") \/ (name = "dc:title" /\ x.in_item)
  <2>1. name \in Titles
    BY <1>7, <1>12
  <2>2. FromOne(v, Writers("title"))
    BY <1>5, <1>7, <2>1
  <2> QED BY <1>8, <1>9, <1>12, <2>2
<1>13. CASE ItemValued(x, "guid", data') /\ name \in GuidElements /\ At(x) = "item"
  <2>1. name \notin AtomTexts
    BY <1>7, <1>13
  <2>2. FromOne(v, Writers("guid"))
    BY <1>5, <1>6, <1>7, <1>13, <2>1
  <2> QED BY <1>8, <1>9, <1>13, <2>2
<1>14. CASE /\ ItemValued(x, "publication_date", data')
            /\ name \in {"pubDate", "atom:published"} /\ At(x) = "item"
  <2>1. name \notin AtomTexts
    BY <1>7, <1>14
  <2>2. FromOne(v, Writers("publication_date"))
    BY <1>5, <1>6, <1>7, <1>14, <2>1
  <2> QED BY <1>8, <1>9, <1>14, <2>2
<1>15. CASE ItemValued(x, "update_date", data') /\ name \in UpdateElements /\ x.in_item
  <2>1. FromOne(v, Writers("update_date"))
    BY <1>5, <1>7, <1>15 DEF Updates
  <2> QED BY <1>8, <1>9, <1>15, <2>1
<1> QED BY <1>10, <1>11, <1>12, <1>13, <1>14, <1>15 DEF Valued

LEMMA OfOneEnd ==
    ASSUME PathInvariant, PathInvariant', AroundIsOpen, ItemsAreCounted, IsFeed, FitsPath,
           TextIsInside, ValuesAreOfOne, End
    PROVE  TextIsInside' /\ ValuesAreOfOne'
<1>1. PICK L : L = Len(open)
  OBVIOUS
<1>2. PICK n : n = open[L]
  OBVIOUS
<1>3. /\ IsXml /\ IsXml' /\ Kept /\ n \in Numbers /\ n \in Nat
      /\ L \in Nat \ {0} /\ DOMAIN open = 1..L
      /\ \A m \in 1..L : open[m] \in Numbers
  BY <1>1, <1>2, EndsWithin
<1>4. PICK name : name = document[n].name
  OBVIOUS
<1>5. data' = end_element_handler(data, name, n)
  BY <1>1, <1>2, <1>4 DEF End, Last
<1>6. data \in Data /\ data' \in Data /\ data.text \in Seq(Int)
  BY DEF PathInvariant, ItemsAreThere, Data
<1>7. PICK i \in 0..Len(open) : Collects(i) /\ data.text \in Seq(Inside(i))
  BY DEF TextIsInside
<1> DEFINE T == Inside(i)
           Z == Int
           e == data'
           x == Left(data)
<1>8. n \in T
  <2>1. \A j \in 1..i : open[j] \in Around[n]
    <3>1. \A j \in 1..i : j \in 1..L
      BY <1>1, <1>3
    <3>2. Around[open[L]] = {open[j] : j \in 1..L}
      <4>1. L \in DOMAIN open
        BY <1>3
      <4> QED BY <4>1 DEF AroundIsOpen
    <3> QED BY <1>2, <3>1, <3>2
  <2> QED BY <1>3, <2>1 DEF Inside
<1>9. IsTokens(T)
  BY InsideIsTokens
<1>10. Holds(data, Z, Z)
  BY <1>6, DataHolds
<1>11. /\ Holds(x, Z, Z) /\ x.text \in Seq(T) /\ x.path = data.path /\ x.depth = Shallower(data)
       /\ x.items = data.items /\ x.in_item = data.in_item /\ x.feed = data.feed
  <2>1. x = Left(data) /\ data.text \in Seq(T)
    BY <1>7
  <2> HIDE DEF x, T, Z
  <2>2. Holds(x, Z, Z) /\ x.text \in Seq(T)
    BY <1>10, <2>1, LeftIs
  <2>3. /\ x.path = data.path /\ x.depth = Shallower(data)
        /\ x.items = data.items /\ x.in_item = data.in_item /\ x.feed = data.feed
    BY <1>10, <2>1, <2>2, LeftIs
  <2> QED BY <2>2, <2>3
<1>12. /\ At(x) = "item" <=> L > 1 /\ document[open[L - 1]].name \in ItemElements
       /\ At(x) = "feed" <=> L > 1 /\ document[open[L - 1]].name \in FeedElements
  <2>1. /\ data.depth = L /\ data.path[0] = "XML_UNKNOWN_POS"
        /\ \A m \in 1..L : data.path[m] = Position(document[open[m]].name)
    BY <1>1, <1>3 DEF PathInvariant, PathIsOfOpen
  <2>2. x.depth = L - 1 /\ x.path[x.depth] = data.path[L - 1]
    BY <1>3, <1>11, <2>1 DEF Shallower
  <2> HIDE DEF x
  <2>3. CASE L = 1
    BY <2>1, <2>2, <2>3, AtIs
  <2>4. CASE L > 1
    <3>1. L - 1 \in 1..L
      BY <1>3, <2>4
    <3>2. data.path[L - 1] = Position(document[open[L - 1]].name)
      BY <2>1, <3>1
    <3> QED BY <2>2, <2>4, <3>2, AtIs, PositionIs
  <2> QED BY <1>3, <2>3, <2>4
<1>13. CASE name \in ItemElements
  <2>1. Holds(e, Z, Z) /\ ItemEnded(data, T, e)
    <3>1. e = end_element_handler(data, name, n) /\ data.text \in Seq(T)
      BY <1>5, <1>7
    <3> HIDE DEF T, Z, e
    <3> QED BY <1>10, <1>13, <3>1, EndItem
  <2>2. e.text \in Seq(T) /\ e.decoy = data.decoy /\ e.items = data.items /\ e.feed = data.feed
    BY <2>1 DEF ItemEnded
  <2>3. name \notin AtomTexts
    BY <1>13, FramesAre
  <2>4. TextIsInside'
    <3> HIDE DEF T
    <3>1. T = Inside(i)
      BY DEF T
    <3>2. data'.decoy = IF name \in AtomTexts /\ At(Left(data)) = "item" THEN FALSE ELSE data.decoy
      BY <2>2, <2>3
    <3> QED BY <1>1, <1>2, <1>4, <1>7, <1>12, <2>2, <3>1, <3>2, CollectsBack
  <2>5. ValuesAreOfOne'
    <3>1. SameSingles(data, data')
      BY <2>2, SinglesAreOf
    <3> QED BY <1>3, <1>6, <2>2, <3>1, SinglesStay DEF PathInvariant
  <2> QED BY <2>4, <2>5
<1>14. CASE name \notin ItemElements
  <2>1. Targets(x, T, Z, Z)
    <3>1. x.in_item \/ At(x) = "item" => x.items # <<>>
      <4>1. Shallower(data) \in 0..PathSize - 1
        <5>1. data.depth \in 0..PathSize - 1 /\ PathSize \in Nat
          BY <1>6, ParserAssumption DEF Data
        <5> QED BY <5>1 DEF Shallower
      <4> QED BY <1>11, <4>1, AtIs DEF PathInvariant, ItemsAreThere
    <3>2. T \subseteq Int
      BY <1>9 DEF IsTokens
    <3> HIDE DEF x, T
    <3> QED BY <1>9, <1>11, <3>1, <3>2, IntegersAreTokens DEF Targets
  <2>2. Holds(e, Z, Z) /\ ElementEnded(data, name, T, e)
    <3>1. /\ e = end_element_handler(data, name, n) /\ data.text \in Seq(T)
          /\ Targets(Left(data), T, Z, Z)
      BY <1>5, <1>7, <2>1
    <3> HIDE DEF T, Z, e, x
    <3> QED BY <1>6, <1>8, <1>14, <3>1, EndElement
  <2>3. /\ e.text \in Seq(T) /\ Valued(x, name, e) /\ Len(e.items) = Len(data.items)
        /\ \A k \in 2..Len(data.items) : e.items[k] = data.items[k]
        /\ e.decoy = IF name \in AtomTexts /\ At(Left(data)) = "item" THEN FALSE ELSE data.decoy
    BY <2>2 DEF ElementEnded
  <2>4. TextIsInside'
    <3> HIDE DEF T
    <3>1. T = Inside(i)
      BY DEF T
    <3> QED BY <1>1, <1>2, <1>4, <1>7, <1>12, <2>3, <3>1, CollectsBack
  <2>5. ValuesAreOfOne'
    <3> HIDE DEF x
    <3> QED BY <1>1, <1>2, <1>3, <1>4, <1>7, <1>11, <1>12, <2>3, SinglesEnd
  <2> QED BY <2>4, <2>5
<1> QED BY <1>13, <1>14

LEMMA ValuesHold == Spec => []ValuesInvariant
<1>1. /\ ValuesInvariant /\ HomeInvariant /\ PathInvariant /\ PathInvariant' /\ [Next]_vars
      => ValuesInvariant'
  <2> SUFFICES ASSUME ValuesInvariant, HomeInvariant, PathInvariant, PathInvariant', [Next]_vars
               PROVE  ValuesInvariant'
    OBVIOUS
  <2>1. CASE Engage \/ Finish \/ UNCHANGED vars
    BY <2>1, OfOneRest DEF Engage, Finish, vars
  <2>2. ASSUME NEW name \in UNION {grammar.levels[i] : i \in DOMAIN grammar.levels},
               NEW attrs \in Attributes(name, Len(document) + 1), Start(name, attrs)
        PROVE  ValuesInvariant'
    <3>1. name \in STRING
      BY GrammarIs DEF PathInvariant, DocumentIsTree
    <3>2. IsXml /\ AroundIsOpen /\ (IsFeed' => IsFeed)
      BY <2>2, <3>1, StartsWithin DEF HomeInvariant
    <3>3. FitsPath' = FitsPath
      BY <2>2 DEF Start, FitsPath, grammar
    <3>4. IsFeed' /\ FitsPath => TextIsInside /\ ValuesAreOfOne
      BY <3>2 DEF ValuesInvariant
    <3>5. IsFeed' /\ FitsPath => TextIsInside' /\ ValuesAreOfOne'
      BY <2>2, <3>1, <3>2, <3>4, OfOneStart
    <3> QED BY <3>3, <3>5 DEF ValuesInvariant
  <2>3. ASSUME NEW token \in {Space, Delimiter} \cup 1..Len(document), Characters(token)
        PROVE  ValuesInvariant'
    <3>1. IsXml /\ AroundIsOpen /\ (IsFeed' => IsFeed)
      BY <2>3, TextHomes DEF HomeInvariant, PathInvariant, DocumentIsTree, Characters
    <3>2. FitsPath' = FitsPath
      BY <2>3 DEF Characters, FitsPath, grammar
    <3>3. TextIsInside /\ ValuesAreOfOne => TextIsInside' /\ ValuesAreOfOne'
      BY <2>3, <3>1, OfOneText
    <3> QED BY <3>1, <3>2, <3>3 DEF ValuesInvariant
  <2>4. CASE End
    <3>1. IsXml /\ AroundIsOpen /\ (IsFeed' => IsFeed)
      BY <2>4, EndsWithin DEF HomeInvariant
    <3>2. FitsPath' = FitsPath
      BY <2>4 DEF End, FitsPath, grammar
    <3>3. IsFeed' /\ FitsPath => TextIsInside' /\ ValuesAreOfOne'
      BY <2>4, <3>1, OfOneEnd DEF ValuesInvariant, HomeInvariant
    <3> QED BY <3>2, <3>3 DEF ValuesInvariant
  <2>5. ASSUME NEW row \in grammar.rows, Row(row) PROVE ValuesInvariant'
    <3>1. ~IsXml'
      <4>1. Len(document) + 1 = Len(document) + 1
        OBVIOUS
      <4> QED BY <2>5, <4>1, RowsWithin
    <3> QED BY <3>1 DEF ValuesInvariant
  <2> QED BY <2>1, <2>2, <2>3, <2>4, <2>5 DEF Next, Terminated
<1> QED BY <1>1, OfOneBegins, HomeHolds, PathHolds, PTL DEF Spec

(* A title, GUID or date is text of one element only, of all feeds whose       *)
(* elements fit the path, although one buffer collects the text of all         *)
(* elements and XHTML content switches the emptying of it off                 *)
(* (setup-xml-parser.c:6-80, format-atom.c:44-65).                            *)
THEOREM TextsAreOfOne == Spec => []ValuesOfOneElement
<1>1. ValuesInvariant => ValuesOfOneElement
  <2> SUFFICES ASSUME IsXml /\ IsFeed /\ FitsPath, ValuesAreOfOne PROVE ValuesOfOneElement
    BY DEF ValuesInvariant, ValuesOfOneElement
  <2>1. FromOne(data.feed.title, Named(Titles))
    BY DEF ValuesAreOfOne, FeedOfOne
  <2>2. ASSUME NEW k \in DOMAIN data.items, NEW r, r = data.items[k]
        PROVE  /\ FromOne(r.title, Named(Titles) \cup ContentAround(Titles))
               /\ FromOne(r.update_date, Named(UpdateElements) \cup ContentAround(UpdateElements))
               /\ FromOne(r.guid, Named(GuidElements))
               /\ FromOne(r.publication_date, Named({"pubDate", "atom:published"}))
    <3>1. \A f \in Singles : FromOne(r[f], Writers(f))
      BY <2>2 DEF ValuesAreOfOne, ItemOfOne
    <3>2. /\ "title" \in Singles /\ "guid" \in Singles /\ "publication_date" \in Singles
          /\ "update_date" \in Singles
      BY DEF Singles
    <3> QED BY <3>1, <3>2 DEF Writers, Sources, Updates
  <2> QED BY <2>1, <2>2 DEF ValuesOfOneElement, Titles
<1> QED BY <1>1, ValuesHold, PTL
=============================================================================
