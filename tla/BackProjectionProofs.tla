------------------------ MODULE BackProjectionProofs ------------------------
(***************************************************************************)
(* BackProjection for every text, every policy and every set of edits: a   *)
(* mirror hides what it must, and its span map leads back to the real      *)
(* file.                                                                   *)
(*                                                                         *)
(* A rendering is a splice: the edits of a text, disjoint ranges with new  *)
(* contents.  Most of what follows is about splices in general; positions  *)
(* of the text and of the result are related by Places, one step of the    *)
(* splice after the other.  Concatenation and subsequence have names of    *)
(* their own, Cat and Part, so that the provers see their laws only.       *)
(***************************************************************************)
EXTENDS BackProjection, FiniteSetTheorems, SequenceTheorems, TLAPS

(***************************************************************************)
(* Numbers                                                                 *)
(***************************************************************************)

\* By strict inclusion of the finite sets 0..n, which is well-founded.
LEMMA NatMin ==
  ASSUME NEW T \in SUBSET Nat, T # {}
  PROVE  \E m \in T : \A k \in T : m <= k
<1> DEFINE F == {0..n : n \in T}
<1>1. \A n \in Nat : 0..n \in FiniteSubsetsOf(Nat)
  <2> TAKE n \in Nat
  <2>1. IsFiniteSet(0..n)
    BY FS_Interval
  <2> QED BY <2>1 DEF FiniteSubsetsOf
<1>2. F # {} /\ F \subseteq FiniteSubsetsOf(Nat)
  BY <1>1
<1>3. PICK X \in F : \A Y \in F : <<Y, X>> \notin StrictSubsetOrdering(Nat)
  <2> HIDE DEF F
  <2> QED BY <1>2, WFMin, FS_StrictSubsetOrderingWellFounded
<1>4. PICK m \in T : X = 0..m
  OBVIOUS
<1>5. ASSUME NEW k \in T PROVE m <= k
  <2>1. SUFFICES ASSUME k < m PROVE FALSE
    OBVIOUS
  <2>2. 0..k \subseteq 0..m /\ m \in 0..m /\ m \notin 0..k
    BY <2>1
  <2>3. 0..k \in SUBSET Nat /\ 0..m \in SUBSET Nat /\ 0..k # 0..m
    BY <2>2
  <2>4. <<0..k, 0..m>> \in StrictSubsetOrdering(Nat)
    BY <2>2, <2>3 DEF StrictSubsetOrdering
  <2> QED BY <2>4, <1>3, <1>4
<1> QED BY <1>5

\* Induction: a set that lacks a number would lack a first one.
LEMMA NatInd ==
  ASSUME NEW S, 0 \in S, \A n \in Nat : n \in S => n + 1 \in S
  PROVE  Nat \subseteq S
<1> SUFFICES ASSUME Nat \ S # {} PROVE FALSE
  OBVIOUS
<1>1. PICK m \in Nat \ S : \A k \in Nat \ S : m <= k
  BY NatMin
<1>2. m # 0 /\ m - 1 \in Nat
  OBVIOUS
<1>3. m - 1 \in S
  BY <1>1, <1>2
<1> QED BY <1>1, <1>2, <1>3

(***************************************************************************)
(* Concatenations                                                          *)
(***************************************************************************)

Cat(s, u) == s \o u

LEMMA CatSeq ==
  ASSUME NEW A, NEW s \in Seq(A), NEW u \in Seq(A)
  PROVE  /\ Cat(s, u) \in Seq(A) /\ Len(Cat(s, u)) = Len(s) + Len(u)
         /\ \A i \in 1..Len(s) : Cat(s, u)[i] = s[i]
         /\ \A i \in 1..Len(u) : Cat(s, u)[Len(s) + i] = u[i]
<1>1. /\ s \o u \in Seq(A) /\ Len(s \o u) = Len(s) + Len(u)
      /\ \A i \in 1..Len(s) + Len(u) : (s \o u)[i] = IF i <= Len(s) THEN s[i] ELSE u[i - Len(s)]
  BY ConcatProperties
<1> DEFINE w == s \o u
<1>2. /\ w \in Seq(A) /\ Len(w) = Len(s) + Len(u)
      /\ \A i \in 1..Len(s) + Len(u) : w[i] = IF i <= Len(s) THEN s[i] ELSE u[i - Len(s)]
  BY <1>1
<1>3. Cat(s, u) = w
  BY DEF Cat
<1> HIDE DEF w
<1>4. Len(s) \in Nat /\ Len(u) \in Nat
  BY LenProperties
<1>5. \A i \in 1..Len(u) : w[Len(s) + i] = u[i]
  <2> TAKE i \in 1..Len(u)
  <2>1. Len(s) + i \in 1..Len(s) + Len(u) /\ ~(Len(s) + i <= Len(s)) /\ Len(s) + i - Len(s) = i
    BY <1>4
  <2> QED BY <2>1, <1>2
<1>6. \A i \in 1..Len(s) : w[i] = s[i]
  BY <1>2, <1>4
<1> QED BY <1>2, <1>3, <1>5, <1>6

LEMMA CatEmpty ==
  ASSUME NEW A, NEW s \in Seq(A)
  PROVE  Cat(<<>>, s) = s /\ Cat(s, <<>>) = s
BY ConcatEmptySeq DEF Cat

LEMMA FlattenCat ==
  ASSUME NEW P, Len(P) # 0,
         \E g : g = [i \in 1..Len(P) |-> IF i = 1 THEN P[i] ELSE Cat(g[i - 1], P[i])]
  PROVE  \E g : /\ g = [i \in 1..Len(P) |-> IF i = 1 THEN P[i] ELSE Cat(g[i - 1], P[i])]
                /\ FlattenSeq(P) = g[Len(P)]
BY DEF FlattenSeq, Cat

\* What FlattenSeq makes of a sequence is the last of its growing prefixes.
LEMMA FlattenIsLast ==
  ASSUME NEW A, NEW n \in Nat, NEW P \in [1..n -> Seq(A)], NEW pre \in [0..n -> Seq(A)],
         pre[0] = <<>>, \A k \in 1..n : pre[k] = Cat(pre[k - 1], P[k])
  PROVE  FlattenSeq(P) = pre[n]
<1>1. P \in Seq(Seq(A)) /\ Len(P) = n
  <2>1. P \in Seq(Seq(A))
    OBVIOUS
  <2> QED BY <2>1, LenProperties
<1>2. CASE n = 0
  <2>1. P = <<>>
    BY <1>1, <1>2, EmptySeq
  <2> QED BY <1>1, <1>2, <2>1 DEF FlattenSeq
<1>3. CASE n # 0
  <2> DEFINE Eq(g) == g = [i \in 1..Len(P) |-> IF i = 1 THEN P[i] ELSE Cat(g[i - 1], P[i])]
  <2>1. \E g : Eq(g)
    <3> DEFINE f == [i \in 1..n |-> pre[i]]
    <3>1. ASSUME NEW i \in 1..n PROVE f[i] = IF i = 1 THEN P[i] ELSE Cat(f[i - 1], P[i])
      <4>1. CASE i = 1
        <5>1. pre[1] = Cat(<<>>, P[1]) /\ P[1] \in Seq(A)
          BY <1>3, <4>1
        <5> QED BY <5>1, <4>1, CatEmpty
      <4>2. CASE i # 1
        BY <4>2
      <4> QED BY <4>1, <4>2
    <3>2. Eq(f)
      BY <3>1, <1>1
    <3> QED BY <3>2
  <2>2. PICK g : Eq(g) /\ FlattenSeq(P) = g[n]
    BY <1>1, <1>3, <2>1, FlattenCat
  <2> DEFINE S == {k \in Nat : k \in 1..n => g[k] = pre[k]}
  <2>3. 0 \in S
    OBVIOUS
  <2>4. ASSUME NEW k \in Nat, k \in S PROVE k + 1 \in S
    <3>1. SUFFICES ASSUME k + 1 \in 1..n PROVE g[k + 1] = pre[k + 1]
      OBVIOUS
    <3>2. pre[k + 1] = Cat(pre[k], P[k + 1])
      BY <3>1
    <3>3. CASE k = 0
      <4>1. g[1] = P[1] /\ P[1] \in Seq(A)
        BY <1>1, <1>3, <2>2
      <4> QED BY <4>1, <3>2, <3>3, CatEmpty
    <3>4. CASE k # 0
      <4>1. k \in 1..n /\ g[k] = pre[k]
        BY <2>4, <3>1, <3>4
      <4>2. \A i \in 1..n : i # 1 => g[i] = Cat(g[i - 1], P[i])
        BY <1>1, <2>2
      <4>3. g[k + 1] = Cat(g[k], P[k + 1])
        BY <3>1, <3>4, <4>2
      <4> QED BY <3>2, <4>1, <4>3
    <3> QED BY <3>3, <3>4
  <2>5. n \in S
    <3> HIDE DEF S
    <3> QED BY <2>3, <2>4, NatInd
  <2> QED BY <1>3, <2>2, <2>5
<1> QED BY <1>2, <1>3

Growing(pre, n, P) == pre[0] = <<>> /\ \A k \in 1..n : pre[k] = Cat(pre[k - 1], P[k])

LEMMA GrowingExists ==
  ASSUME NEW A, NEW n \in Nat, NEW P \in [1..n -> Seq(A)]
  PROVE  \E pre \in [0..n -> Seq(A)] : Growing(pre, n, P)
<1> DEFINE S == {m \in Nat : m <= n => \E pre \in [0..m -> Seq(A)] : Growing(pre, m, P)}
<1>1. 0 \in S
  <2> DEFINE none == [i \in 0..0 |-> <<>>]
  <2>1. none \in [0..0 -> Seq(A)] /\ none[0] = <<>>
    OBVIOUS
  <2>2. Growing(none, 0, P)
    BY <2>1 DEF Growing
  <2> QED BY <2>1, <2>2
<1>2. ASSUME NEW m \in Nat, m \in S PROVE m + 1 \in S
  <2> SUFFICES ASSUME m + 1 <= n
               PROVE  \E pre \in [0..m + 1 -> Seq(A)] : Growing(pre, m + 1, P)
    OBVIOUS
  <2>1. PICK pre \in [0..m -> Seq(A)] : Growing(pre, m, P)
    BY <1>2
  <2> DEFINE more == [i \in 0..m + 1 |-> IF i = m + 1 THEN Cat(pre[m], P[m + 1]) ELSE pre[i]]
  <2>2. Cat(pre[m], P[m + 1]) \in Seq(A)
    <3>1. pre[m] \in Seq(A) /\ P[m + 1] \in Seq(A)
      OBVIOUS
    <3> QED BY <3>1, CatSeq
  <2>3. more \in [0..m + 1 -> Seq(A)]
    BY <2>2
  <2>4. more[0] = <<>> /\ more[m + 1] = Cat(pre[m], P[m + 1]) /\ \A i \in 0..m : more[i] = pre[i]
    <3>1. \A i \in 0..m + 1 : more[i] = IF i = m + 1 THEN Cat(pre[m], P[m + 1]) ELSE pre[i]
      OBVIOUS
    <3>2. pre[0] = <<>>
      BY <2>1 DEF Growing
    <3>3. m + 1 \in 0..m + 1 /\ 0 \in 0..m /\ \A i \in 0..m : i \in 0..m + 1 /\ i # m + 1
      OBVIOUS
    <3> HIDE DEF more
    <3> QED BY <3>1, <3>2, <3>3
  <2>5. ASSUME NEW k \in 1..(m + 1) PROVE more[k] = Cat(more[k - 1], P[k])
    <3>1. CASE k = m + 1
      <4>1. more[k - 1] = pre[m]
        BY <2>4, <3>1
      <4> QED BY <2>4, <3>1, <4>1
    <3>2. CASE k # m + 1
      <4>1. k \in 1..m /\ k \in 0..m /\ k - 1 \in 0..m
        BY <3>2
      <4>2. pre[k] = Cat(pre[k - 1], P[k])
        BY <2>1, <4>1 DEF Growing
      <4> QED BY <2>4, <4>1, <4>2
    <3> QED BY <3>1, <3>2
  <2>6. Growing(more, m + 1, P)
    BY <2>4, <2>5 DEF Growing
  <2> QED BY <2>3, <2>6
<1>3. n \in S
  <2> HIDE DEF S
  <2> QED BY <1>1, <1>2, NatInd
<1> QED BY <1>3

(***************************************************************************)
(* Splices, one position of the text after the other                       *)
(***************************************************************************)

\* What stands in the result for position i.
Piece(t, E, i) ==
    IF \E e \in E : e.from = i THEN (CHOOSE e \in E : e.from = i).new
    ELSE IF \E e \in E : e.from < i /\ i < e.to THEN <<>>
    ELSE <<t[i]>>

\* Disjoint ranges of t, none of which is emptied.
IsEdits(t, E, A) ==
    /\ \A e \in E : /\ e.from \in Nat /\ e.to \in Nat /\ 1 <= e.from /\ e.from < e.to
                    /\ e.to <= Len(t) + 1 /\ e.new \in Seq(A) /\ e.new # <<>>
    /\ \A e, d \in E : e = d \/ e.to <= d.from \/ d.to <= e.from

Covered(E, k) == \E e \in E : e.from <= k /\ k < e.to

\* pre[k] is the result up to and with position k, where an edit counts as
\* made at its first position.
Trace(t, E, A, pre) ==
    /\ pre \in [0..Len(t) -> Seq(A)] /\ pre[0] = <<>>
    /\ \A k \in 1..Len(t) : ~Covered(E, k) => pre[k] = Cat(pre[k - 1], <<t[k]>>)
    /\ \A e \in E : \A k \in e.from..(e.to - 1) : pre[k] = Cat(pre[e.from - 1], e.new)

LEMMA SplicePieces == \A t, E : Splice(t, E) = FlattenSeq([i \in DOMAIN t |-> Piece(t, E, i)])
BY DEF Splice, Piece

LEMMA Pieces ==
  ASSUME NEW A, NEW t \in Seq(A), NEW E, IsEdits(t, E, A), NEW k \in 1..Len(t)
  PROVE  /\ ~Covered(E, k) => Piece(t, E, k) = <<t[k]>>
         /\ \A e \in E : e.from = k => Piece(t, E, k) = e.new
         /\ \A e \in E : e.from < k /\ k < e.to => Piece(t, E, k) = <<>>
         /\ Piece(t, E, k) \in Seq(A)
<1>1. ASSUME ~Covered(E, k) PROVE Piece(t, E, k) = <<t[k]>>
  <2>1. ~\E e \in E : e.from = k
    BY <1>1 DEF Covered, IsEdits
  <2>2. ~\E e \in E : e.from < k /\ k < e.to
    BY <1>1 DEF Covered, IsEdits
  <2> QED BY <2>1, <2>2 DEF Piece
<1>2. ASSUME NEW e \in E, e.from = k PROVE Piece(t, E, k) = e.new
  <2>1. \A d \in E : d.from = k => d = e
    BY <1>2 DEF IsEdits
  <2>2. (CHOOSE d \in E : d.from = k) = e
    BY <1>2, <2>1
  <2> QED BY <1>2, <2>2 DEF Piece
<1>3. ASSUME NEW e \in E, e.from < k, k < e.to PROVE Piece(t, E, k) = <<>>
  <2>1. ~\E d \in E : d.from = k
    BY <1>3 DEF IsEdits
  <2> QED BY <1>3, <2>1 DEF Piece
<1>4. Piece(t, E, k) \in Seq(A)
  <2>1. CASE ~Covered(E, k)
    <3>1. t[k] \in A
      BY ElementOfSeq
    <3>2. <<t[k]>> \in Seq(A)
      BY <3>1
    <3> QED BY <3>2, <1>1, <2>1
  <2>2. CASE Covered(E, k)
    <3>1. PICK e \in E : e.from <= k /\ k < e.to
      BY <2>2 DEF Covered
    <3>2. e.from \in Nat /\ e.new \in Seq(A)
      BY DEF IsEdits
    <3>3. CASE e.from = k
      BY <1>2, <3>2, <3>3
    <3>4. CASE e.from < k
      <4>1. Piece(t, E, k) = <<>>
        BY <1>3, <3>1, <3>4
      <4> QED BY <4>1
    <3>5. e.from = k \/ e.from < k
      BY <3>1, <3>2
    <3> QED BY <3>3, <3>4, <3>5
  <2> QED BY <2>1, <2>2
<1> QED BY <1>1, <1>2, <1>3, <1>4

LEMMA PiecesGrow ==
  ASSUME NEW A, NEW t \in Seq(A), NEW E, IsEdits(t, E, A),
         NEW pre \in [0..Len(t) -> Seq(A)], pre[0] = <<>>,
         \A k \in 1..Len(t) : pre[k] = Cat(pre[k - 1], Piece(t, E, k))
  PROVE  Trace(t, E, A, pre)
<1>1. ASSUME NEW k \in 1..Len(t), ~Covered(E, k) PROVE pre[k] = Cat(pre[k - 1], <<t[k]>>)
  <2>1. Piece(t, E, k) = <<t[k]>>
    BY <1>1, Pieces
  <2>2. pre[k] = Cat(pre[k - 1], Piece(t, E, k))
    OBVIOUS
  <2> QED BY <2>1, <2>2
<1>2. ASSUME NEW e \in E PROVE \A k \in e.from..(e.to - 1) : pre[k] = Cat(pre[e.from - 1], e.new)
  <2>1. /\ e.from \in Nat /\ e.to \in Nat /\ 1 <= e.from /\ e.from < e.to /\ e.to <= Len(t) + 1
        /\ Len(t) \in Nat
    BY LenProperties DEF IsEdits
  <2> DEFINE S == {i \in Nat : e.from + i < e.to => pre[e.from + i] = Cat(pre[e.from - 1], e.new)}
  <2>2. 0 \in S
    <3>1. e.from \in 1..Len(t)
      BY <2>1
    <3>2. Piece(t, E, e.from) = e.new
      BY <3>1, Pieces
    <3> QED BY <2>1, <3>1, <3>2
  <2>3. ASSUME NEW i \in Nat, i \in S PROVE i + 1 \in S
    <3>1. SUFFICES ASSUME e.from + (i + 1) < e.to
                   PROVE  pre[e.from + (i + 1)] = Cat(pre[e.from - 1], e.new)
      OBVIOUS
    <3> DEFINE k == e.from + (i + 1)
    <3>2. k \in 1..Len(t) /\ k - 1 = e.from + i /\ e.from < k /\ k < e.to
      <4>1. k \in Nat /\ k < e.to
        BY <2>1, <3>1
      <4>2. k - 1 = e.from + i /\ e.from < k
        BY <2>1
      <4> QED BY <2>1, <4>1, <4>2
    <3>3. Piece(t, E, k) = <<>>
      BY <3>2, Pieces
    <3>4. pre[k] = Cat(pre[k - 1], <<>>)
      BY <3>2, <3>3
    <3>5. pre[k - 1] \in Seq(A) /\ pre[k - 1] = Cat(pre[e.from - 1], e.new)
      <4>1. k - 1 \in 0..Len(t) /\ e.from + i < e.to
        BY <2>1, <3>1, <3>2
      <4> QED BY <2>3, <3>2, <4>1
    <3>6. pre[k] = pre[k - 1]
      BY <3>4, <3>5, CatEmpty
    <3> QED BY <3>5, <3>6
  <2>4. Nat \subseteq S
    <3> HIDE DEF S
    <3> QED BY <2>2, <2>3, NatInd
  <2>5. TAKE k \in e.from..(e.to - 1)
  <2>6. k - e.from \in Nat /\ e.from + (k - e.from) = k /\ k < e.to
    BY <2>1
  <2> QED BY <2>4, <2>6
<1> QED BY <1>1, <1>2 DEF Trace

LEMMA TraceExists ==
  ASSUME NEW A, NEW t \in Seq(A), NEW E, IsEdits(t, E, A)
  PROVE  \E pre : Trace(t, E, A, pre)
<1> DEFINE n == Len(t)
           P == [k \in 1..n |-> Piece(t, E, k)]
<1>1. n \in Nat
  BY LenProperties
<1>2. P \in [1..n -> Seq(A)]
  BY Pieces
<1>3. PICK pre \in [0..n -> Seq(A)] : Growing(pre, n, P)
  <2> HIDE DEF n, P
  <2> QED BY <1>1, <1>2, GrowingExists
<1>4. pre[0] = <<>> /\ \A k \in 1..n : pre[k] = Cat(pre[k - 1], Piece(t, E, k))
  BY <1>3 DEF Growing
<1>5. Trace(t, E, A, pre)
  BY <1>4, PiecesGrow
<1> QED BY <1>5

LEMMA TraceSplices ==
  ASSUME NEW A, NEW t \in Seq(A), NEW E, IsEdits(t, E, A), NEW pre, Trace(t, E, A, pre)
  PROVE  Splice(t, E) = pre[Len(t)]
<1> DEFINE n == Len(t)
           P == [k \in 1..n |-> Piece(t, E, k)]
<1>1. n \in Nat /\ DOMAIN t = 1..n
  BY LenProperties
<1>2. P \in [1..n -> Seq(A)]
  BY Pieces
<1>3. pre \in [0..n -> Seq(A)] /\ pre[0] = <<>>
  BY DEF Trace
<1>4. ASSUME NEW k \in 1..n PROVE pre[k] = Cat(pre[k - 1], P[k])
  <2>1. P[k] = Piece(t, E, k)
    OBVIOUS
  <2>2. CASE ~Covered(E, k)
    BY <2>1, <2>2, Pieces DEF Trace
  <2>3. CASE Covered(E, k)
    <3>1. PICK e \in E : e.from <= k /\ k < e.to
      BY <2>3 DEF Covered
    <3>2. e.from \in Nat /\ e.to \in Nat /\ 1 <= e.from
      BY DEF IsEdits
    <3>3. \A i \in e.from..(e.to - 1) : pre[i] = Cat(pre[e.from - 1], e.new)
      BY DEF Trace
    <3>4. CASE e.from = k
      <4>1. pre[k] = Cat(pre[e.from - 1], e.new)
        BY <3>1, <3>2, <3>3
      <4> QED BY <4>1, <2>1, <3>4, Pieces
    <3>5. CASE e.from < k
      <4>1. pre[k] = Cat(pre[e.from - 1], e.new) /\ pre[k - 1] = Cat(pre[e.from - 1], e.new)
        BY <3>1, <3>2, <3>3, <3>5
      <4>2. Piece(t, E, k) = <<>>
        BY <3>1, <3>5, Pieces
      <4>3. pre[k - 1] \in Seq(A)
        BY <1>3
      <4> QED BY <2>1, <4>1, <4>2, <4>3, CatEmpty
    <3> QED BY <3>1, <3>2, <3>4, <3>5
  <2> QED BY <2>2, <2>3
<1>5. FlattenSeq(P) = pre[n]
  <2> HIDE DEF n, P
  <2> QED BY <1>1, <1>2, <1>3, <1>4, FlattenIsLast
<1>6. Splice(t, E) = FlattenSeq(P)
  BY <1>1, SplicePieces
<1> QED BY <1>5, <1>6

(***************************************************************************)
(* Parts and prefixes                                                      *)
(***************************************************************************)

Part(t, a, b) == SubSeq(t, a, b)

LEMMA PartSeq ==
  ASSUME NEW A, NEW t \in Seq(A), NEW a \in Nat, NEW b \in Nat, 1 <= a, b <= Len(t), a <= b + 1
  PROVE  /\ Part(t, a, b) \in Seq(A) /\ Len(Part(t, a, b)) = b - a + 1
         /\ \A i \in 1..(b - a + 1) : Part(t, a, b)[i] = t[a + i - 1]
<1>1. \A i \in a..b : t[i] \in A
  <2> TAKE i \in a..b
  <2>1. i \in 1..Len(t)
    BY LenProperties
  <2> QED BY <2>1, ElementOfSeq
<1>2. /\ SubSeq(t, a, b) \in Seq(A)
      /\ Len(SubSeq(t, a, b)) = IF a <= b THEN b - a + 1 ELSE 0
      /\ \A i \in 1..(b - a + 1) : SubSeq(t, a, b)[i] = t[a + i - 1]
  BY <1>1, SubSeqProperties
<1> DEFINE w == SubSeq(t, a, b)
<1>3. w \in Seq(A) /\ Len(w) = IF a <= b THEN b - a + 1 ELSE 0
  BY <1>2
<1>4. \A i \in 1..(b - a + 1) : w[i] = t[a + i - 1]
  BY <1>2
<1>5. Part(t, a, b) = w
  BY DEF Part
<1> HIDE DEF w
<1> QED BY <1>3, <1>4, <1>5

LEMMA PartCat ==
  ASSUME NEW A, NEW t \in Seq(A), NEW a \in Nat, NEW b \in Nat, 1 <= a, a <= b + 1, b <= Len(t)
  PROVE  Part(t, 1, b) = Cat(Part(t, 1, a - 1), Part(t, a, b))
<1>1. Len(t) \in Nat
  BY LenProperties
<1>2. 1 \in 1..(Len(t) + 1) /\ a - 1 \in (1 - 1)..Len(t) /\ b \in (a - 1)..Len(t) /\ a - 1 + 1 = a
  BY <1>1
<1>3. SubSeq(t, 1, a - 1) \o SubSeq(t, (a - 1) + 1, b) = SubSeq(t, 1, b)
  BY <1>2, ConcatAdjacentSubSeq
<1>4. Cat(Part(t, 1, a - 1), Part(t, (a - 1) + 1, b)) = Part(t, 1, b)
  BY <1>3, Zenon DEF Cat, Part
<1> QED BY <1>2, <1>4

LEMMA PartOne ==
  ASSUME NEW A, NEW t \in Seq(A), NEW k \in 1..Len(t)
  PROVE  Part(t, k, k) = <<t[k]>>
<1>1. t[k] \in A /\ Len(t) \in Nat
  BY ElementOfSeq, LenProperties
<1>2. /\ Part(t, k, k) \in Seq(A) /\ Len(Part(t, k, k)) = 1 /\ Part(t, k, k)[1] = t[k]
  <2>1. k \in Nat /\ 1 <= k /\ k <= Len(t) /\ k <= k + 1 /\ k - k + 1 = 1 /\ k + 1 - 1 = k
    BY <1>1
  <2>2. /\ Part(t, k, k) \in Seq(A) /\ Len(Part(t, k, k)) = k - k + 1
        /\ \A i \in 1..(k - k + 1) : Part(t, k, k)[i] = t[k + i - 1]
    BY <2>1, PartSeq
  <2>3. Part(t, k, k)[1] = t[k + 1 - 1]
    BY <2>1, <2>2
  <2> QED BY <2>1, <2>2, <2>3
<1>3. <<t[k]>> \in Seq(A) /\ Len(<<t[k]>>) = 1 /\ <<t[k]>>[1] = t[k]
  BY <1>1
<1> DEFINE u == <<t[k]>>
<1> HIDE DEF u
<1>4. u \in Seq(A) /\ Len(u) = 1 /\ u[1] = t[k]
  BY <1>3 DEF u
<1>5. Part(t, k, k) = u
  BY <1>2, <1>4, SeqEqual
<1> QED BY <1>5 DEF u

LEMMA PartWhole ==
  ASSUME NEW A, NEW t \in Seq(A)
  PROVE  Part(t, 1, Len(t)) = t /\ Part(t, 1, 0) = <<>>
<1>1. SubSeq(t, 1, Len(t)) = t
  BY SubSeqFull
<1>2. SubSeq(t, 1, 0) = <<>>
  BY SubSeqEmpty
<1> QED BY <1>1, <1>2, Zenon DEF Part

LEMMA EditSteps ==
  ASSUME NEW A, NEW t \in Seq(A), NEW E, IsEdits(t, E, A), NEW pre, Trace(t, E, A, pre),
         NEW k \in 1..Len(t)
  PROVE  /\ pre[k] \in Seq(A) /\ pre[k - 1] \in Seq(A)
         /\ ~Covered(E, k) => pre[k] = Cat(pre[k - 1], <<t[k]>>)
         /\ \A e \in E : e.from = k => pre[k] = Cat(pre[k - 1], e.new)
         /\ \A e \in E : e.from < k /\ k < e.to => pre[k] = pre[k - 1]
<1>1. Len(t) \in Nat
  BY LenProperties
<1>2. pre[k] \in Seq(A) /\ pre[k - 1] \in Seq(A)
  <2>1. k \in 0..Len(t) /\ k - 1 \in 0..Len(t)
    BY <1>1
  <2> QED BY <2>1 DEF Trace
<1>3. ASSUME NEW e \in E
      PROVE  /\ e.from \in Nat /\ e.to \in Nat /\ 1 <= e.from /\ e.from < e.to
             /\ \A i \in e.from..(e.to - 1) : pre[i] = Cat(pre[e.from - 1], e.new)
  BY DEF IsEdits, Trace
<1>4. ASSUME NEW e \in E, e.from = k PROVE pre[k] = Cat(pre[k - 1], e.new)
  <2>1. k \in e.from..(e.to - 1)
    BY <1>3, <1>4
  <2> QED BY <1>3, <1>4, <2>1
<1>5. ASSUME NEW e \in E, e.from < k, k < e.to PROVE pre[k] = pre[k - 1]
  <2>1. k \in e.from..(e.to - 1) /\ k - 1 \in e.from..(e.to - 1)
    BY <1>3, <1>5
  <2> QED BY <1>3, <2>1
<1> QED BY <1>2, <1>4, <1>5 DEF Trace

Begins(p, w) == Len(p) <= Len(w) /\ \A x \in 1..Len(p) : w[x] = p[x]

LEMMA BeginsCat ==
  ASSUME NEW A, NEW s \in Seq(A), NEW u \in Seq(A)
  PROVE  Begins(s, Cat(s, u))
<1> DEFINE w == Cat(s, u)
<1>1. Len(w) = Len(s) + Len(u) /\ Len(s) \in Nat /\ Len(u) \in Nat
  BY CatSeq, LenProperties
<1>2. \A x \in 1..Len(s) : w[x] = s[x]
  BY CatSeq
<1>3. Len(s) <= Len(w)
  <2> HIDE DEF w
  <2> QED BY <1>1
<1> QED BY <1>2, <1>3 DEF Begins

LEMMA BeginsItself ==
  ASSUME NEW A, NEW s \in Seq(A)
  PROVE  Begins(s, s)
BY LenProperties DEF Begins

LEMMA BeginsTrans ==
  ASSUME NEW A, NEW s \in Seq(A), NEW u \in Seq(A), NEW w \in Seq(A), Begins(s, u), Begins(u, w)
  PROVE  Begins(s, w)
<1>1. Len(s) \in Nat /\ Len(u) \in Nat /\ Len(w) \in Nat
  BY LenProperties
<1>2. Len(s) <= Len(u) /\ Len(u) <= Len(w)
  BY DEF Begins
<1>3. ASSUME NEW x \in 1..Len(s) PROVE w[x] = s[x]
  <2>1. x \in 1..Len(u)
    BY <1>1, <1>2
  <2>2. w[x] = u[x] /\ u[x] = s[x]
    BY <2>1 DEF Begins
  <2> QED BY <2>2
<1>4. Len(s) <= Len(w)
  BY <1>1, <1>2
<1> QED BY <1>3, <1>4 DEF Begins

LEMMA TraceGrows ==
  ASSUME NEW A, NEW t \in Seq(A), NEW E, IsEdits(t, E, A), NEW pre, Trace(t, E, A, pre),
         NEW k \in 1..Len(t)
  PROVE  Begins(pre[k - 1], pre[k])
<1>1. /\ pre[k] \in Seq(A) /\ pre[k - 1] \in Seq(A)
      /\ ~Covered(E, k) => pre[k] = Cat(pre[k - 1], <<t[k]>>)
      /\ \A e \in E : e.from = k => pre[k] = Cat(pre[k - 1], e.new)
      /\ \A e \in E : e.from < k /\ k < e.to => pre[k] = pre[k - 1]
  BY EditSteps
<1> DEFINE p == pre[k - 1]
           w == pre[k]
<1>2. p \in Seq(A) /\ w \in Seq(A)
  BY <1>1
<1>3. CASE ~Covered(E, k)
  <2>1. w = Cat(p, <<t[k]>>)
    BY <1>1, <1>3
  <2>2. t[k] \in A
    BY ElementOfSeq
  <2>3. <<t[k]>> \in Seq(A)
    BY <2>2
  <2> HIDE DEF p, w
  <2>4. Begins(p, w)
    BY <1>2, <2>1, <2>3, BeginsCat
  <2> QED BY <2>4 DEF p, w
<1>4. ASSUME NEW e \in E, e.from = k PROVE Begins(p, w)
  <2>1. w = Cat(p, e.new)
    BY <1>1, <1>4
  <2>2. e.new \in Seq(A)
    BY DEF IsEdits
  <2> HIDE DEF p, w
  <2> QED BY <1>2, <2>1, <2>2, BeginsCat
<1>5. ASSUME NEW e \in E, e.from < k, k < e.to PROVE Begins(p, w)
  <2>1. w = p
    BY <1>1, <1>5
  <2> HIDE DEF p, w
  <2> QED BY <1>2, <2>1, BeginsItself
<1>6. \/ ~Covered(E, k)
      \/ \E e \in E : e.from = k
      \/ \E e \in E : e.from < k /\ k < e.to
  BY DEF Covered, IsEdits
<1> QED BY <1>3, <1>4, <1>5, <1>6

\* What was written stays.
LEMMA TracePrefix ==
  ASSUME NEW A, NEW t \in Seq(A), NEW E, IsEdits(t, E, A), NEW pre, Trace(t, E, A, pre),
         NEW i \in 0..Len(t), NEW j \in 0..Len(t), i <= j
  PROVE  Begins(pre[i], pre[j])
<1>1. Len(t) \in Nat /\ \A k \in 0..Len(t) : pre[k] \in Seq(A)
  BY LenProperties DEF Trace
<1> DEFINE S == {d \in Nat : i + d <= Len(t) => Begins(pre[i], pre[i + d])}
<1>2. 0 \in S
  <2>1. Begins(pre[i], pre[i]) /\ i + 0 = i
    BY <1>1, BeginsItself
  <2> QED BY <2>1
<1>3. ASSUME NEW d \in Nat, d \in S PROVE d + 1 \in S
  <2>1. SUFFICES ASSUME i + (d + 1) <= Len(t) PROVE Begins(pre[i], pre[i + (d + 1)])
    OBVIOUS
  <2> DEFINE k == i + (d + 1)
  <2>2. k \in 1..Len(t) /\ k - 1 = i + d /\ i + d <= Len(t) /\ k \in 0..Len(t) /\ i + d \in 0..Len(t)
    BY <1>1, <2>1
  <2>3. Begins(pre[i], pre[i + d])
    BY <1>3, <2>2
  <2>4. Begins(pre[i + d], pre[k])
    <3>1. \A q \in 1..Len(t) : Begins(pre[q - 1], pre[q])
      BY TraceGrows
    <3> HIDE DEF k
    <3> QED BY <2>2, <3>1
  <2>5. pre[i] \in Seq(A) /\ pre[k] \in Seq(A) /\ pre[i + d] \in Seq(A)
    BY <1>1, <2>2
  <2> HIDE DEF k
  <2>6. Begins(pre[i], pre[k])
    BY <2>3, <2>4, <2>5, BeginsTrans
  <2> QED BY <2>6 DEF k
<1>4. j - i \in S
  <2>1. j - i \in Nat
    BY <1>1
  <2> HIDE DEF S
  <2> QED BY <2>1, <1>2, <1>3, NatInd
<1>5. i + (j - i) = j /\ j <= Len(t)
  BY <1>1
<1> QED BY <1>4, <1>5

(***************************************************************************)
(* Places: where the positions of the text are in the result               *)
(***************************************************************************)

\* pl[k] is the length of the result up to and with position k.
Places(t, E, M, pl) ==
    /\ pl \in [0..Len(t) -> Nat] /\ pl[0] = 0 /\ pl[Len(t)] = Len(M)
    /\ \A i, j \in 0..Len(t) : i <= j => pl[i] <= pl[j]
    /\ \A k \in 1..Len(t) : ~Covered(E, k) => pl[k] = pl[k - 1] + 1 /\ M[pl[k]] = t[k]
    /\ \A e \in E : \A k \in e.from..(e.to - 1) : pl[k] = pl[e.from - 1] + Len(e.new)
    /\ \A e \in E : \A r \in 1..Len(e.new) : M[pl[e.from - 1] + r] = e.new[r]

PlaceOf(t, pre) == [k \in 0..Len(t) |-> Len(pre[k])]

LEMMA CatPlaces ==
  ASSUME NEW A, NEW s \in Seq(A), NEW u \in Seq(A), NEW M \in Seq(A), Begins(Cat(s, u), M)
  PROVE  /\ Len(Cat(s, u)) = Len(s) + Len(u)
         /\ \A r \in 1..Len(u) : M[Len(s) + r] = u[r]
<1> DEFINE w == Cat(s, u)
<1>1. w \in Seq(A)
  BY CatSeq
<1>2. Len(w) = Len(s) + Len(u)
  BY CatSeq
<1>3. \A r \in 1..Len(u) : w[Len(s) + r] = u[r]
  BY CatSeq
<1>4. Len(s) \in Nat /\ Len(u) \in Nat /\ Len(w) \in Nat
  BY <1>1, LenProperties
<1> HIDE DEF w
<1>5. ASSUME NEW r \in 1..Len(u) PROVE M[Len(s) + r] = u[r]
  <2>1. Len(s) + r \in 1..Len(w)
    BY <1>2, <1>4
  <2>2. M[Len(s) + r] = w[Len(s) + r]
    BY <2>1 DEF Begins, w
  <2> QED BY <1>3, <2>2
<1> QED BY <1>2, <1>5 DEF w

LEMMA TracePlaces ==
  ASSUME NEW A, NEW t \in Seq(A), NEW E, IsEdits(t, E, A), NEW pre, Trace(t, E, A, pre)
  PROVE  Places(t, E, pre[Len(t)], PlaceOf(t, pre))
<1> DEFINE n == Len(t)
           M == pre[n]
           pl == PlaceOf(t, pre)
<1>1. n \in Nat /\ \A k \in 0..n : pre[k] \in Seq(A) /\ Len(pre[k]) \in Nat
  BY LenProperties DEF Trace
<1>2. pl \in [0..n -> Nat] /\ \A k \in 0..n : pl[k] = Len(pre[k])
  BY <1>1 DEF PlaceOf
<1>3. pl[0] = 0 /\ pl[n] = Len(M)
  <2>1. pre[0] = <<>>
    BY DEF Trace
  <2>2. Len(pre[0]) = 0
    BY <2>1, EmptySeq
  <2>3. 0 \in 0..n /\ n \in 0..n
    BY <1>1
  <2> QED BY <1>2, <2>2, <2>3
<1>4. ASSUME NEW i \in 0..n, NEW j \in 0..n, i <= j PROVE pl[i] <= pl[j]
  <2>1. Begins(pre[i], pre[j])
    BY <1>4, TracePrefix
  <2>2. Len(pre[i]) <= Len(pre[j])
    BY <2>1 DEF Begins
  <2> HIDE DEF pl
  <2> QED BY <1>2, <2>2
<1>5. \A k \in 0..n : Begins(pre[k], M)
  <2> TAKE k \in 0..n
  <2>1. n \in 0..n /\ k <= n
    BY <1>1
  <2> QED BY <2>1, TracePrefix
<1>6. M \in Seq(A)
  BY <1>1
<1>7. ASSUME NEW k \in 1..n, ~Covered(E, k)
      PROVE  pl[k] = pl[k - 1] + 1 /\ M[pl[k]] = t[k]
  <2> DEFINE s == pre[k - 1]
             u == <<t[k]>>
  <2>1. pre[k] = Cat(s, u)
    BY <1>7, EditSteps
  <2>2. k \in 0..n /\ k - 1 \in 0..n /\ t[k] \in A
    BY <1>1, ElementOfSeq
  <2>3. s \in Seq(A) /\ u \in Seq(A) /\ Len(u) = 1 /\ u[1] = t[k]
    BY <1>1, <2>2
  <2>4. Begins(Cat(s, u), M)
    BY <1>5, <2>1, <2>2
  <2>5. pl[k] = Len(Cat(s, u)) /\ pl[k - 1] = Len(s)
    BY <1>2, <2>1, <2>2
  <2> HIDE DEF s, u, pl, M
  <2>6. Len(Cat(s, u)) = Len(s) + Len(u) /\ \A r \in 1..Len(u) : M[Len(s) + r] = u[r]
    BY <1>6, <2>3, <2>4, CatPlaces
  <2>7. 1 \in 1..Len(u)
    BY <2>3
  <2>8. M[Len(s) + 1] = u[1]
    BY <2>6, <2>7
  <2> QED BY <2>3, <2>5, <2>6, <2>8
<1>8. ASSUME NEW e \in E
      PROVE  /\ \A k \in e.from..(e.to - 1) : pl[k] = pl[e.from - 1] + Len(e.new)
             /\ \A r \in 1..Len(e.new) : M[pl[e.from - 1] + r] = e.new[r]
  <2> DEFINE s == pre[e.from - 1]
             u == e.new
  <2>1. /\ e.from \in Nat /\ e.to \in Nat /\ 1 <= e.from /\ e.from < e.to /\ e.to <= n + 1
        /\ u \in Seq(A)
    BY DEF IsEdits
  <2>2. e.from - 1 \in 0..n /\ e.from \in e.from..(e.to - 1) /\ e.from \in 0..n
    BY <1>1, <2>1
  <2>3. \A k \in e.from..(e.to - 1) : pre[k] = Cat(s, u)
    BY DEF Trace
  <2>4. s \in Seq(A)
    BY <1>1, <2>2
  <2>5. Begins(Cat(s, u), M)
    BY <1>5, <2>2, <2>3
  <2>6. pl[e.from - 1] = Len(s)
    BY <1>2, <2>2
  <2>7. ASSUME NEW k \in e.from..(e.to - 1) PROVE pl[k] = Len(Cat(s, u))
    <3>1. k \in 0..n
      BY <1>1, <2>1
    <3> QED BY <1>2, <2>3, <3>1
  <2> HIDE DEF s, u, pl, M
  <2>8. Len(Cat(s, u)) = Len(s) + Len(u)
    BY <1>6, <2>1, <2>4, <2>5, CatPlaces
  <2>9. \A r \in 1..Len(u) : M[Len(s) + r] = u[r]
    BY <1>6, <2>1, <2>4, <2>5, CatPlaces
  <2>10. \A k \in e.from..(e.to - 1) : pl[k] = pl[e.from - 1] + Len(u)
    BY <2>6, <2>7, <2>8
  <2>11. \A r \in 1..Len(u) : M[pl[e.from - 1] + r] = u[r]
    BY <2>6, <2>9
  <2> QED BY <2>10, <2>11 DEF u
<1> QED
  <2> HIDE DEF pl, M
  <2>1. Places(t, E, M, pl)
    BY <1>2, <1>3, <1>4, <1>7, <1>8 DEF Places
  <2> QED BY <2>1 DEF pl, M

(***************************************************************************)
(* The way back                                                            *)
(***************************************************************************)

\* The edit of the result that undoes e.
EditBack(t, pl, e) ==
    [from |-> pl[e.from - 1] + 1, to |-> pl[e.from - 1] + 1 + Len(e.new),
     new |-> Part(t, e.from, e.to - 1)]
Back(t, E, pl) == {EditBack(t, pl, e) : e \in E}

LEMMA EditPlace ==
  ASSUME NEW A, NEW t \in Seq(A), NEW E, IsEdits(t, E, A), NEW M \in Seq(A), NEW pl,
         Places(t, E, M, pl), NEW e \in E
  PROVE  /\ e.from \in Nat /\ e.to \in Nat /\ 1 <= e.from /\ e.from < e.to /\ e.to <= Len(t) + 1
         /\ e.from - 1 \in 0..Len(t) /\ e.to - 1 \in 1..Len(t) /\ Len(t) \in Nat
         /\ pl[e.from - 1] \in Nat /\ Len(e.new) \in Nat \ {0} /\ e.new \in Seq(A)
         /\ pl[e.to - 1] = pl[e.from - 1] + Len(e.new) /\ pl[e.to - 1] <= Len(M)
         /\ Len(M) \in Nat
<1>1. /\ e.from \in Nat /\ e.to \in Nat /\ 1 <= e.from /\ e.from < e.to /\ e.to <= Len(t) + 1
      /\ e.new \in Seq(A) /\ e.new # <<>>
  BY DEF IsEdits
<1>2. Len(t) \in Nat /\ Len(M) \in Nat /\ Len(e.new) \in Nat \ {0}
  BY <1>1, LenProperties, EmptySeq
<1>3. e.from - 1 \in 0..Len(t) /\ e.to - 1 \in 1..Len(t)
  BY <1>1, <1>2
<1>4. pl \in [0..Len(t) -> Nat] /\ pl[Len(t)] = Len(M)
      /\ \A i, j \in 0..Len(t) : i <= j => pl[i] <= pl[j]
  BY DEF Places
<1>5. pl[e.from - 1] \in Nat
  BY <1>3, <1>4
<1>6. pl[e.to - 1] = pl[e.from - 1] + Len(e.new)
  <2>1. e.to - 1 \in e.from..(e.to - 1)
    BY <1>1
  <2> QED BY <2>1 DEF Places
<1>7. pl[e.to - 1] <= Len(M)
  <2>1. e.to - 1 \in 0..Len(t) /\ Len(t) \in 0..Len(t) /\ e.to - 1 <= Len(t)
    BY <1>2, <1>3
  <2> QED BY <1>4, <2>1
<1> QED BY <1>1, <1>2, <1>3, <1>5, <1>6, <1>7

LEMMA BackIsEdits ==
  ASSUME NEW A, NEW t \in Seq(A), NEW E, IsEdits(t, E, A), NEW M \in Seq(A), NEW pl,
         Places(t, E, M, pl)
  PROVE  IsEdits(M, Back(t, E, pl), A)
<1>1. ASSUME NEW e \in E
      PROVE  LET b == EditBack(t, pl, e)
             IN  /\ b.from \in Nat /\ b.to \in Nat /\ 1 <= b.from /\ b.from < b.to
                 /\ b.to <= Len(M) + 1 /\ b.new \in Seq(A) /\ b.new # <<>>
  <2> DEFINE b == EditBack(t, pl, e)
             w == Part(t, e.from, e.to - 1)
             f == pl[e.from - 1]
             s == Len(e.new)
             g == pl[e.to - 1]
  <2>1. /\ e.from \in Nat /\ e.to \in Nat /\ 1 <= e.from /\ e.from < e.to /\ e.to <= Len(t) + 1
        /\ Len(t) \in Nat /\ f \in Nat /\ s \in Nat \ {0} /\ g = f + s /\ g <= Len(M)
        /\ Len(M) \in Nat
    BY EditPlace
  <2>2. b.from = f + 1 /\ b.to = f + 1 + s /\ b.new = w
    BY DEF EditBack
  <2>3. w \in Seq(A) /\ Len(w) = e.to - 1 - e.from + 1
    <3> DEFINE a == e.from
               c == e.to - 1
    <3>1. a \in Nat /\ 1 <= a /\ c \in Nat /\ c <= Len(t) /\ a <= c + 1
      BY <2>1
    <3> HIDE DEF a, c
    <3>2. Part(t, a, c) \in Seq(A)
      BY <3>1, PartSeq
    <3>3. Len(Part(t, a, c)) = c - a + 1
      BY <3>1, PartSeq
    <3> QED BY <3>2, <3>3 DEF a, c, w
  <2>4. w # <<>>
    <3>1. Len(w) # 0
      BY <2>1, <2>3
    <3> QED BY <3>1, EmptySeq
  <2> HIDE DEF b, w, f, s, g
  <2>5. b.from \in Nat /\ b.to \in Nat /\ 1 <= b.from /\ b.from < b.to /\ b.to <= Len(M) + 1
    BY <2>1, <2>2
  <2> QED BY <2>2, <2>3, <2>4, <2>5 DEF b
<1>2. ASSUME NEW e \in E, NEW d \in E, e.to <= d.from
      PROVE  EditBack(t, pl, e).to <= EditBack(t, pl, d).from
  <2>1. /\ e.to \in Nat /\ e.to - 1 \in 1..Len(t) /\ pl[e.to - 1] = pl[e.from - 1] + Len(e.new)
        /\ pl[e.from - 1] \in Nat /\ Len(e.new) \in Nat /\ Len(t) \in Nat
    BY EditPlace
  <2>2. d.from \in Nat /\ d.from - 1 \in 0..Len(t) /\ pl[d.from - 1] \in Nat
    BY EditPlace
  <2>3. e.to - 1 \in 0..Len(t) /\ e.to - 1 <= d.from - 1
    BY <1>2, <2>1, <2>2
  <2>4. pl[e.to - 1] <= pl[d.from - 1]
    BY <2>2, <2>3 DEF Places
  <2>5. /\ EditBack(t, pl, e).to = pl[e.from - 1] + 1 + Len(e.new)
        /\ EditBack(t, pl, d).from = pl[d.from - 1] + 1
    BY DEF EditBack
  <2> DEFINE f == pl[e.from - 1]
             s == Len(e.new)
             g == pl[e.to - 1]
             h == pl[d.from - 1]
  <2>6. f \in Nat /\ s \in Nat /\ g = f + s /\ h \in Nat /\ g <= h
    BY <2>1, <2>2, <2>4
  <2>7. f + 1 + s <= h + 1
    <3> HIDE DEF f, s, g, h
    <3> QED BY <2>6
  <2> QED BY <2>5, <2>7
<1>3. \A b, c \in Back(t, E, pl) : b = c \/ b.to <= c.from \/ c.to <= b.from
  <2> TAKE b, c \in Back(t, E, pl)
  <2>1. PICK e \in E : b = EditBack(t, pl, e)
    BY DEF Back
  <2>2. PICK d \in E : c = EditBack(t, pl, d)
    BY DEF Back
  <2>3. e = d \/ e.to <= d.from \/ d.to <= e.from
    BY DEF IsEdits
  <2> QED BY <1>2, <2>1, <2>2, <2>3
<1>4. ASSUME NEW b \in Back(t, E, pl)
      PROVE  /\ b.from \in Nat /\ b.to \in Nat /\ 1 <= b.from /\ b.from < b.to
             /\ b.to <= Len(M) + 1 /\ b.new \in Seq(A) /\ b.new # <<>>
  <2>1. PICK e \in E : b = EditBack(t, pl, e)
    BY DEF Back
  <2> QED BY <1>1, <2>1
<1> QED BY <1>3, <1>4 DEF IsEdits

LEMMA BackMisses ==
  ASSUME NEW A, NEW t \in Seq(A), NEW E, IsEdits(t, E, A), NEW M \in Seq(A), NEW pl,
         Places(t, E, M, pl), NEW k \in 1..Len(t), ~Covered(E, k)
  PROVE  /\ pl[k] = pl[k - 1] + 1 /\ M[pl[k]] = t[k] /\ pl[k] \in 1..Len(M) /\ pl[k - 1] \in Nat
         /\ ~Covered(Back(t, E, pl), pl[k])
<1>1. Len(t) \in Nat /\ Len(M) \in Nat
  BY LenProperties
<1>2. pl \in [0..Len(t) -> Nat] /\ pl[Len(t)] = Len(M)
      /\ \A i, j \in 0..Len(t) : i <= j => pl[i] <= pl[j]
  BY DEF Places
<1>3. pl[k] = pl[k - 1] + 1 /\ M[pl[k]] = t[k]
  BY DEF Places
<1>4. k \in 0..Len(t) /\ k - 1 \in 0..Len(t) /\ Len(t) \in 0..Len(t) /\ k <= Len(t)
  BY <1>1
<1>5. pl[k] \in Nat /\ pl[k - 1] \in Nat /\ pl[k] <= Len(M)
  BY <1>2, <1>4
<1>6. pl[k] \in 1..Len(M)
  BY <1>1, <1>3, <1>5
<1>7. ASSUME NEW e \in E
      PROVE  ~(EditBack(t, pl, e).from <= pl[k] /\ pl[k] < EditBack(t, pl, e).to)
  <2> DEFINE f == pl[e.from - 1]
             g == pl[e.to - 1]
             s == Len(e.new)
             x == pl[k]
             y == pl[k - 1]
  <2>1. /\ e.from \in Nat /\ e.to \in Nat /\ e.from - 1 \in 0..Len(t) /\ e.to - 1 \in 0..Len(t)
        /\ f \in Nat /\ s \in Nat /\ g = f + s
    BY EditPlace
  <2>2. EditBack(t, pl, e).from = f + 1 /\ EditBack(t, pl, e).to = f + 1 + s
    BY DEF EditBack
  <2>3. k < e.from \/ e.to <= k
    BY <2>1 DEF Covered
  <2>4. CASE k < e.from
    <3>1. k <= e.from - 1
      BY <2>1, <2>4
    <3>2. x <= f
      BY <1>2, <1>4, <2>1, <3>1
    <3>3. ~(f + 1 <= x)
      <4> HIDE DEF f, x
      <4> QED BY <1>5, <2>1, <3>2 DEF x
    <3> QED BY <2>2, <3>3
  <2>5. CASE e.to <= k
    <3>1. e.to - 1 <= k - 1
      BY <2>1, <2>5
    <3>2. g <= y
      BY <1>2, <1>4, <2>1, <3>1
    <3>3. x = y + 1 /\ y \in Nat
      BY <1>3, <1>5
    <3>4. ~(x < f + 1 + s)
      <4> HIDE DEF f, g, s, x, y
      <4> QED BY <2>1, <3>2, <3>3
    <3> QED BY <2>2, <3>4
  <2> QED BY <2>3, <2>4, <2>5
<1>8. ~Covered(Back(t, E, pl), pl[k])
  BY <1>7 DEF Covered, Back
<1> QED BY <1>3, <1>5, <1>6, <1>8

\* Putting the originals back gives the text.
\* Undoing every edit gives the text again.
LEMMA BackRestores ==
  ASSUME NEW A, NEW t \in Seq(A), NEW E, IsEdits(t, E, A), NEW M \in Seq(A), NEW pl,
         Places(t, E, M, pl)
  PROVE  Splice(M, Back(t, E, pl)) = t
<1> DEFINE n == Len(t)
           B == Back(t, E, pl)
           Edge(k) == ~\E e \in E : e.from <= k /\ k < e.to - 1
<1>1. n \in Nat /\ Len(M) \in Nat
  BY LenProperties
<1>2. IsEdits(M, B, A)
  BY BackIsEdits
<1>3. PICK pre : Trace(M, B, A, pre)
  BY <1>2, TraceExists
<1>4. pl \in [0..n -> Nat] /\ pl[0] = 0 /\ pl[n] = Len(M)
  BY DEF Places
<1> DEFINE T == {k \in 0..n : Edge(k) /\ pre[pl[k]] # Part(t, 1, k)}
<1>5. ASSUME NEW k \in 0..n, Edge(k), k # 0,
             \A j \in 0..n : Edge(j) /\ j < k => pre[pl[j]] = Part(t, 1, j)
      PROVE  pre[pl[k]] = Part(t, 1, k)
  <2>1. k \in 1..n /\ k - 1 \in 0..n /\ k - 1 < k
    BY <1>1, <1>5
  <2>2. CASE ~Covered(E, k)
    <3>1. /\ pl[k] = pl[k - 1] + 1 /\ M[pl[k]] = t[k] /\ pl[k] \in 1..Len(M) /\ pl[k - 1] \in Nat
          /\ ~Covered(B, pl[k])
      BY <2>1, <2>2, BackMisses
    <3>2. pre[pl[k]] = Cat(pre[pl[k] - 1], <<M[pl[k]]>>)
      BY <1>2, <1>3, <3>1, EditSteps
    <3>3. pl[k] - 1 = pl[k - 1]
      BY <3>1
    <3>4. Edge(k - 1)
      <4>1. SUFFICES ASSUME NEW e \in E, e.from <= k - 1, k - 1 < e.to - 1 PROVE FALSE
        OBVIOUS
      <4>2. e.from \in Nat /\ e.to \in Nat
        BY DEF IsEdits
      <4> QED BY <2>1, <2>2, <4>1, <4>2 DEF Covered
    <3>5. pre[pl[k - 1]] = Part(t, 1, k - 1)
      BY <1>5, <2>1, <3>4
    <3>6. Part(t, 1, k) = Cat(Part(t, 1, k - 1), Part(t, k, k))
      <4>1. k \in Nat /\ 1 <= k /\ k <= k + 1 /\ k <= Len(t)
        BY <1>1, <2>1
      <4> QED BY <4>1, PartCat
    <3>7. Part(t, k, k) = <<t[k]>>
      BY <2>1, PartOne
    <3> QED BY <3>1, <3>2, <3>3, <3>5, <3>6, <3>7, Zenon
  <2>3. CASE Covered(E, k)
    <3>1. PICK e \in E : e.from <= k /\ k < e.to
      BY <2>3 DEF Covered
    <3>2. /\ e.from \in Nat /\ e.to \in Nat /\ 1 <= e.from /\ e.from < e.to /\ e.to <= n + 1
          /\ e.from - 1 \in 0..n /\ e.to - 1 \in 1..n
          /\ pl[e.from - 1] \in Nat /\ Len(e.new) \in Nat \ {0}
          /\ pl[e.to - 1] = pl[e.from - 1] + Len(e.new)
      BY EditPlace
    <3>3. k = e.to - 1
      BY <1>5, <2>1, <3>1, <3>2
    <3>4. Edge(e.from - 1)
      <4>1. SUFFICES ASSUME NEW d \in E, d.from <= e.from - 1, e.from - 1 < d.to - 1 PROVE FALSE
        OBVIOUS
      <4>2. d.from \in Nat /\ d.to \in Nat /\ (e = d \/ e.to <= d.from \/ d.to <= e.from)
        BY DEF IsEdits
      <4>3. e # d
        BY <4>1, <3>2
      <4> DEFINE a == e.from
                 c == d.from
                 y == d.to
                 z == e.to
      <4>4. a \in Nat /\ z \in Nat /\ c \in Nat /\ y \in Nat /\ 1 <= a /\ a < z
            /\ (z <= c \/ y <= a) /\ c <= a - 1 /\ a - 1 < y - 1
        BY <3>2, <4>1, <4>2, <4>3
      <4> HIDE DEF a, c, y, z
      <4> QED BY <4>4
    <3>5. e.from - 1 < k
      BY <3>2, <3>3
    <3>6. pre[pl[e.from - 1]] = Part(t, 1, e.from - 1)
      BY <1>5, <3>2, <3>4, <3>5
    <3> DEFINE b == EditBack(t, pl, e)
               f == pl[e.from - 1]
               s == Len(e.new)
    <3>7. b \in B /\ b.from = f + 1 /\ b.to = f + 1 + s /\ b.new = Part(t, e.from, k)
      BY <3>3 DEF Back, EditBack
    <3>8. \A i \in b.from..(b.to - 1) : pre[i] = Cat(pre[b.from - 1], b.new)
      BY <1>3, <3>7 DEF Trace
    <3>9. pl[k] = f + s /\ f \in Nat /\ s \in Nat \ {0}
      BY <3>2, <3>3
    <3>10. pl[k] \in b.from..(b.to - 1) /\ b.from - 1 = f
      <4> HIDE DEF b, f, s
      <4> QED BY <3>7, <3>9
    <3>11. pre[pl[k]] = Cat(Part(t, 1, e.from - 1), Part(t, e.from, k))
      BY <3>6, <3>7, <3>8, <3>10
    <3>12. Part(t, 1, k) = Cat(Part(t, 1, e.from - 1), Part(t, e.from, k))
      <4> DEFINE a == e.from
                 z == e.to
      <4>1. a \in Nat /\ z \in Nat /\ 1 <= a /\ a < z /\ k = z - 1 /\ k \in Nat /\ k <= Len(t)
        BY <1>1, <2>1, <3>2, <3>3
      <4> HIDE DEF a, z
      <4>2. a <= k + 1
        BY <4>1
      <4>3. Part(t, 1, k) = Cat(Part(t, 1, a - 1), Part(t, a, k))
        BY <4>1, <4>2, PartCat
      <4> QED BY <4>3 DEF a
    <3> QED BY <3>11, <3>12
  <2> QED BY <2>2, <2>3
<1>6. T = {}
  <2>1. SUFFICES ASSUME T # {} PROVE FALSE
    OBVIOUS
  <2>2. T \in SUBSET Nat
    BY <1>1
  <2>3. PICK k \in T : \A j \in T : k <= j
    <3> HIDE DEF T
    <3> QED BY <2>1, <2>2, NatMin
  <2>4. k \in 0..n /\ Edge(k) /\ pre[pl[k]] # Part(t, 1, k)
    OBVIOUS
  <2>5. k # 0
    <3>1. pre[0] = <<>> /\ Part(t, 1, 0) = <<>>
      BY <1>3, PartWhole DEF Trace
    <3> QED BY <1>4, <2>4, <3>1
  <2>6. \A j \in 0..n : Edge(j) /\ j < k => pre[pl[j]] = Part(t, 1, j)
    BY <1>1, <2>3, <2>4
  <2> QED BY <1>5, <2>4, <2>5, <2>6
<1>7. n \in 0..n /\ Edge(n)
  BY <1>1 DEF IsEdits
<1>8. pre[pl[n]] = Part(t, 1, n)
  BY <1>6, <1>7
<1>9. Part(t, 1, n) = t
  BY PartWhole
<1>10. Splice(M, B) = pre[Len(M)]
  BY <1>2, <1>3, TraceSplices
<1> QED BY <1>4, <1>8, <1>9, <1>10

(***************************************************************************)
(* Span maps                                                               *)
(***************************************************************************)

EditsBefore(E, e) == {d \in E : d.from < e.from}

\* Place of SpanMapOf: the edits before e alone give the result before e.
LEMMA SplicePrefix ==
  ASSUME NEW A, NEW t \in Seq(A), NEW E, IsEdits(t, E, A), NEW pre, Trace(t, E, A, pre), NEW e \in E
  PROVE  Splice(Part(t, 1, e.from - 1), EditsBefore(E, e)) = pre[e.from - 1]
<1> DEFINE m == e.from - 1
           u == Part(t, 1, m)
           D == {d \in E : d.from < e.from}
           short == [i \in 0..m |-> pre[i]]
<1>1. /\ Len(t) \in Nat /\ e.from \in Nat /\ 1 <= e.from /\ e.from <= Len(t) /\ m \in Nat
      /\ e.from = m + 1 /\ e.to \in Nat /\ e.from < e.to
  <2>1. /\ Len(t) \in Nat /\ e.from \in Nat /\ e.to \in Nat /\ 1 <= e.from /\ e.from < e.to
        /\ e.to <= Len(t) + 1
    BY LenProperties DEF IsEdits
  <2> QED BY <2>1
<1>2. u \in Seq(A) /\ Len(u) = m /\ \A i \in 1..m : u[i] = t[i]
  <2>1. m \in Nat /\ 1 \in Nat /\ 1 <= m + 1 /\ m <= Len(t)
    BY <1>1
  <2> HIDE DEF m
  <2>2. Part(t, 1, m) \in Seq(A)
    BY <2>1, PartSeq
  <2>3. Len(Part(t, 1, m)) = m - 1 + 1
    BY <2>1, PartSeq
  <2>4. \A i \in 1..(m - 1 + 1) : Part(t, 1, m)[i] = t[1 + i - 1]
    BY <2>1, PartSeq
  <2>5. m - 1 + 1 = m /\ \A i \in 1..m : 1 + i - 1 = i
    BY <2>1
  <2>6. \A i \in 1..m : Part(t, 1, m)[i] = t[i]
    BY <2>4, <2>5
  <2> QED BY <2>2, <2>3, <2>5, <2>6
<1>3. IsEdits(u, D, A)
  <2>1. ASSUME NEW d \in D
        PROVE  /\ d.from \in Nat /\ d.to \in Nat /\ 1 <= d.from /\ d.from < d.to
               /\ d.to <= m + 1 /\ d.new \in Seq(A) /\ d.new # <<>>
    <3>1. /\ d \in E /\ d.from < e.from /\ d.from \in Nat /\ d.to \in Nat /\ 1 <= d.from
          /\ d.from < d.to /\ d.new \in Seq(A) /\ d.new # <<>>
          /\ (d = e \/ d.to <= e.from \/ e.to <= d.from)
      BY DEF IsEdits
    <3>2. d.to <= e.from
      BY <1>1, <3>1
    <3> QED BY <1>1, <3>1, <3>2
  <2>2. \A c, d \in D : c = d \/ c.to <= d.from \/ d.to <= c.from
    BY DEF IsEdits
  <2> HIDE DEF D, m, u
  <2> QED BY <1>2, <2>1, <2>2 DEF IsEdits
<1>4. Trace(u, D, A, short)
  <2>1. short \in [0..m -> Seq(A)] /\ short[0] = <<>>
    BY <1>1 DEF Trace
  <2>2. ASSUME NEW k \in 1..m, ~Covered(D, k) PROVE short[k] = Cat(short[k - 1], <<u[k]>>)
    <3>1. k \in 1..Len(t) /\ k \in 0..m /\ k - 1 \in 0..m
      BY <1>1
    <3>2. ~Covered(E, k)
      <4>1. SUFFICES ASSUME NEW d \in E, d.from <= k, k < d.to PROVE FALSE
        BY DEF Covered
      <4>2. d.from \in Nat
        BY DEF IsEdits
      <4>3. d.from < e.from
        BY <1>1, <4>1, <4>2
      <4> QED BY <2>2, <4>1, <4>3 DEF Covered
    <3>3. pre[k] = Cat(pre[k - 1], <<t[k]>>)
      BY <3>1, <3>2 DEF Trace
    <3>4. u[k] = t[k]
      BY <1>2
    <3>5. short[k] = pre[k] /\ short[k - 1] = pre[k - 1]
      BY <3>1
    <3> QED BY <3>3, <3>4, <3>5, Zenon
  <2>3. ASSUME NEW d \in D, NEW k \in d.from..(d.to - 1)
        PROVE  short[k] = Cat(short[d.from - 1], d.new)
    <3>1. d \in E /\ d.from \in Nat /\ d.to \in Nat /\ 1 <= d.from /\ d.to <= m + 1
      BY <1>2, <1>3 DEF IsEdits
    <3>2. k \in 0..m /\ d.from - 1 \in 0..m
      BY <1>1, <3>1
    <3>3. pre[k] = Cat(pre[d.from - 1], d.new)
      BY <3>1 DEF Trace
    <3>4. short[k] = pre[k] /\ short[d.from - 1] = pre[d.from - 1]
      BY <3>2
    <3> QED BY <3>3, <3>4, Zenon
  <2> HIDE DEF short, D, u, m
  <2> QED BY <1>2, <2>1, <2>2, <2>3 DEF Trace
<1>5. Splice(u, D) = short[Len(u)]
  <2> HIDE DEF short, D, u, m
  <2> QED BY <1>2, <1>3, <1>4, TraceSplices
<1>6. short[m] = pre[m]
  BY <1>1
<1> QED BY <1>2, <1>5, <1>6 DEF EditsBefore

\* SpanMapOf, said of edits and places.
SpansOf(t, E, pl) ==
    {[text |-> e.new, original |-> Slice(t, e), source |-> e.from,
      from |-> pl[e.from - 1] + 1, to |-> pl[e.from - 1] + 1 + Len(e.new)] : e \in E}

LEMMA SpansHold ==
  ASSUME NEW A, NEW t \in Seq(A), NEW E, IsEdits(t, E, A), NEW M \in Seq(A), NEW pl,
         Places(t, E, M, pl), NEW s \in SpansOf(t, E, pl)
  PROVE  s.from \in Nat /\ s.to \in Nat /\ 1 <= s.from /\ s.to <= Len(M) + 1 /\ Slice(M, s) = s.text
<1>1. PICK e \in E : s = [text |-> e.new, original |-> Slice(t, e), source |-> e.from,
                          from |-> pl[e.from - 1] + 1, to |-> pl[e.from - 1] + 1 + Len(e.new)]
  BY DEF SpansOf
<1> DEFINE f == pl[e.from - 1]
           n == Len(e.new)
           u == e.new
           g == pl[e.to - 1]
<1>2. f \in Nat /\ n \in Nat \ {0} /\ u \in Seq(A) /\ g = f + n /\ g <= Len(M) /\ Len(M) \in Nat
  BY EditPlace
<1>3. s.from = f + 1 /\ s.to = f + 1 + n /\ s.text = u
  BY <1>1
<1>4. \A r \in 1..n : M[f + r] = u[r]
  BY DEF Places
<1>5. Len(u) = n
  OBVIOUS
<1>6. Slice(M, s) = Part(M, s.from, s.to - 1)
  BY DEF Slice, Part
<1> HIDE DEF f, n, u, g
<1>7. s.from \in Nat /\ s.to \in Nat /\ 1 <= s.from /\ s.to <= Len(M) + 1
  BY <1>2, <1>3
<1> DEFINE a == f + 1
           b == f + n
<1>8. a \in Nat /\ b \in Nat /\ 1 <= a /\ b <= Len(M) /\ a <= b + 1 /\ b - a + 1 = n
  BY <1>2
<1>9. \A r \in 1..n : a + r - 1 = f + r
  BY <1>2
<1>10. s.from = a /\ s.to - 1 = b
  BY <1>2, <1>3
<1>11. Part(M, a, b) = u
  <2> HIDE DEF a, b
  <2> DEFINE w == Part(M, a, b)
  <2>1. w \in Seq(A)
    BY <1>8, PartSeq
  <2>2. Len(w) = b - a + 1
    BY <1>8, PartSeq
  <2>3. \A r \in 1..(b - a + 1) : w[r] = M[a + r - 1]
    BY <1>8, PartSeq
  <2> HIDE DEF w
  <2>4. Len(w) = n
    BY <1>8, <2>2
  <2>5. \A r \in 1..n : w[r] = M[f + r]
    BY <1>8, <1>9, <2>3
  <2>6. \A r \in 1..Len(w) : w[r] = u[r]
    BY <1>4, <2>4, <2>5
  <2>7. w = u
    BY <1>2, <1>5, <2>1, <2>4, <2>6, SeqEqual
  <2> QED BY <2>7 DEF w
<1> QED BY <1>3, <1>6, <1>7, <1>10, <1>11

LEMMA SpansLeadBack ==
  ASSUME NEW A, NEW t \in Seq(A), NEW E, IsEdits(t, E, A), NEW M \in Seq(A), NEW pl,
         Places(t, E, M, pl)
  PROVE  ReverseRegion(SpansOf(t, E, pl), M, Whole(M)) = t
<1> DEFINE S == SpansOf(t, E, pl)
           r == Whole(M)
           inside == {s \in S : s.from >= r.from /\ s.to <= r.to}
           B == {[from |-> s.from - r.from + 1, to |-> s.to - r.from + 1,
                  new |-> s.original] : s \in inside}
<1>1. Len(M) \in Nat /\ r.from = 1 /\ r.to = Len(M) + 1
  BY LenProperties DEF Whole
<1>2. inside = S
  BY <1>1, SpansHold
<1> DEFINE SpanAt(e) == [text |-> e.new, original |-> Slice(t, e), source |-> e.from,
                         from |-> pl[e.from - 1] + 1, to |-> pl[e.from - 1] + 1 + Len(e.new)]
           Undo(s) == [from |-> s.from - 1 + 1, to |-> s.to - 1 + 1, new |-> s.original]
<1>3. B = Back(t, E, pl)
  <2>1. ASSUME NEW e \in E PROVE Undo(SpanAt(e)) = EditBack(t, pl, e)
    <3> DEFINE f == pl[e.from - 1]
               n == Len(e.new)
               x == SpanAt(e)
    <3>1. f \in Nat /\ n \in Nat
      BY EditPlace
    <3>2. f + 1 - 1 + 1 = f + 1 /\ f + 1 + n - 1 + 1 = f + 1 + n
      <4> HIDE DEF f, n
      <4> QED BY <3>1
    <3>3. x.original = Part(t, e.from, e.to - 1)
      BY DEF Slice, Part
    <3>4. x.from = f + 1 /\ x.to = f + 1 + n
      OBVIOUS
    <3>5. EditBack(t, pl, e) = [from |-> f + 1, to |-> f + 1 + n, new |-> Part(t, e.from, e.to - 1)]
      BY DEF EditBack
    <3> HIDE DEF x, f, n
    <3> DEFINE y == x.from
               z == x.to
    <3>7. y - 1 + 1 = f + 1 /\ z - 1 + 1 = f + 1 + n
      <4>1. y = f + 1 /\ z = f + 1 + n
        BY <3>4
      <4> HIDE DEF y, z
      <4> QED BY <3>1, <4>1
    <3>6. Undo(x) = EditBack(t, pl, e)
      BY <3>3, <3>5, <3>7, Zenon
    <3> QED BY <3>6 DEF x
  <2>2. B = {Undo(s) : s \in S}
    <3> HIDE DEF S, r, inside
    <3> QED BY <1>1, <1>2
  <2>3. S = {SpanAt(e) : e \in E}
    BY DEF SpansOf
  <2>4. Back(t, E, pl) = {EditBack(t, pl, e) : e \in E}
    BY DEF Back
  <2> HIDE DEF S, B, Undo, SpanAt
  <2> QED BY <2>1, <2>2, <2>3, <2>4
<1>4. Slice(M, r) = M
  <2>1. Slice(M, r) = Part(M, r.from, r.to - 1)
    BY DEF Slice, Part
  <2>2. r.to - 1 = Len(M)
    BY <1>1
  <2>3. Part(M, 1, Len(M)) = M
    BY PartWhole
  <2> HIDE DEF r
  <2> QED BY <1>1, <2>1, <2>2, <2>3
<1>5. ReverseRegion(S, M, r) = Splice(Slice(M, r), B)
  BY DEF ReverseRegion
<1> HIDE DEF S, r, B
<1>6. ReverseRegion(S, M, r) = t
  BY <1>3, <1>4, <1>5, BackRestores
<1> QED BY <1>6 DEF S, r

(***************************************************************************)
(* Walks from left to right                                                *)
(***************************************************************************)

\* What Leftmost takes, without its recursion.
Taken(R, T) == \A r \in R : r \in T <=> \A q \in R : q.from < r.from /\ r.from < q.to => q \notin T

LEMMA TakenExists ==
  ASSUME NEW R, NEW N \in Nat, \A r \in R : r.from \in 1..N
  PROVE  \E T \in SUBSET R : Taken(R, T)
<1> DEFINE Free(r, T) == \A q \in R : q.from < r.from /\ r.from < q.to => q \notin T
           Upto(n, T) == \A r \in R : r.from <= n => (r \in T <=> Free(r, T))
           S == {n \in Nat : \E T \in SUBSET R : Upto(n, T)}
<1>1. 0 \in S
  <2>1. Upto(0, {})
    OBVIOUS
  <2> QED BY <2>1
<1>2. ASSUME NEW n \in Nat, n \in S PROVE n + 1 \in S
  <2>1. PICK T \in SUBSET R : Upto(n, T)
    BY <1>2
  <2> DEFINE U == {r \in T : r.from <= n} \cup {r \in R : r.from = n + 1 /\ Free(r, T)}
  <2>2. U \in SUBSET R
    OBVIOUS
  <2>3. ASSUME NEW q \in R, q.from <= n PROVE q \in U <=> q \in T
    BY <2>3
  <2>4. ASSUME NEW r \in R, r.from <= n + 1 PROVE Free(r, U) <=> Free(r, T)
    <3>1. \A q \in R : q.from < r.from => q.from <= n
      BY <2>4
    <3> QED BY <2>3, <3>1
  <2>5. ASSUME NEW r \in R, r.from <= n + 1 PROVE r \in U <=> Free(r, U)
    <3>1. CASE r.from <= n
      BY <2>1, <2>3, <2>4, <2>5, <3>1
    <3>2. CASE r.from = n + 1
      <4>1. ~(r.from <= n)
        BY <3>2
      <4>2. r \in U <=> Free(r, T)
        BY <3>2, <4>1
      <4> QED BY <2>4, <2>5, <4>2
    <3> QED BY <2>5, <3>1, <3>2
  <2>6. Upto(n + 1, U)
    BY <2>5
  <2> HIDE DEF U, Upto
  <2> QED BY <2>2, <2>6
<1>3. N \in S
  <2> HIDE DEF S
  <2> QED BY <1>1, <1>2, NatInd
<1>4. PICK T \in SUBSET R : Upto(N, T)
  BY <1>3
<1>5. \A r \in R : r.from <= N
  OBVIOUS
<1>6. Taken(R, T)
  BY <1>4, <1>5 DEF Taken
<1> QED BY <1>6

LEMMA LeftmostChosen ==
  ASSUME NEW R, \E f : f = [r \in R |-> \A q \in R : q.from < r.from /\ r.from < q.to => ~f[q]]
  PROVE  \E f : /\ f = [r \in R |-> \A q \in R : q.from < r.from /\ r.from < q.to => ~f[q]]
                /\ Leftmost(R) = {r \in R : f[r]}
BY DEF Leftmost

LEMMA LeftmostTakes ==
  ASSUME NEW R, NEW N \in Nat, \A r \in R : r.from \in 1..N
  PROVE  Leftmost(R) \subseteq R /\ Taken(R, Leftmost(R))
<1>1. PICK T \in SUBSET R : Taken(R, T)
  BY TakenExists
<1> DEFINE Rule(f) == f = [r \in R |-> \A q \in R : q.from < r.from /\ r.from < q.to => ~f[q]]
<1>2. \E f : Rule(f)
  <2> DEFINE f == [r \in R |-> r \in T]
             P(r) == r \in T
             Q(r) == \A q \in R : q.from < r.from /\ r.from < q.to => ~f[q]
  <2>1. \A q \in R : f[q] <=> q \in T
    OBVIOUS
  <2>2. \A r \in R : P(r) \in BOOLEAN
    OBVIOUS
  <2>3. \A r \in R : Q(r) \in BOOLEAN
    <3> HIDE DEF f
    <3> QED BY Zenon
  <2>4. \A r \in R : P(r) <=> Q(r)
    <3>1. \A r \in R : P(r) <=> \A q \in R : q.from < r.from /\ r.from < q.to => q \notin T
      BY <1>1 DEF Taken
    <3> HIDE DEF f
    <3> QED BY <2>1, <3>1
  <2>5. f = [r \in R |-> P(r)]
    OBVIOUS
  <2> HIDE DEF P, Q, f
  <2>6. \A r \in R : P(r) = Q(r)
    BY <2>2, <2>3, <2>4
  <2>7. f = [r \in R |-> Q(r)]
    BY <2>5, <2>6
  <2> QED BY <2>7, Zenon DEF Q
<1>3. PICK f : Rule(f) /\ Leftmost(R) = {r \in R : f[r]}
  BY <1>2, LeftmostChosen
<1>4. \A r \in R : f[r] <=> \A q \in R : q.from < r.from /\ r.from < q.to => ~f[q]
  BY <1>3
<1>5. \A r \in R : f[r] <=> r \in Leftmost(R)
  BY <1>3
<1>6. Leftmost(R) \subseteq R
  BY <1>3
<1> QED BY <1>4, <1>5, <1>6 DEF Taken

(***************************************************************************)
(* Word runs                                                               *)
(***************************************************************************)

LEMMA RunShape ==
  ASSUME NEW A, NEW t \in Seq(A), NEW r \in WordRuns(t)
  PROVE  /\ r.from \in 1..Len(t) /\ r.to \in 2..(Len(t) + 1) /\ r.from < r.to
         /\ r.from \in Nat /\ r.to \in Nat /\ Len(t) \in Nat
         /\ \A k \in r.from..(r.to - 1) : IsWordChar(t[k])
         /\ r.from = 1 \/ ~IsWordChar(t[r.from - 1])
         /\ r.to = Len(t) + 1 \/ ~IsWordChar(t[r.to])
         /\ r = [from |-> r.from, to |-> r.to]
<1>1. Len(t) \in Nat
  BY LenProperties
<1>2. PICK i \in 1..Len(t), j \in 2..(Len(t) + 1) : r = [from |-> i, to |-> j]
  BY DEF WordRuns
<1>3. /\ r.from < r.to /\ \A k \in r.from..(r.to - 1) : IsWordChar(t[k])
      /\ r.from = 1 \/ ~IsWordChar(t[r.from - 1])
      /\ r.to = Len(t) + 1 \/ ~IsWordChar(t[r.to])
  BY DEF WordRuns
<1>4. r.from = i /\ r.to = j
  BY <1>2
<1> QED BY <1>1, <1>2, <1>3, <1>4

LEMMA RunsAreDisjoint ==
  ASSUME NEW A, NEW t \in Seq(A), NEW r \in WordRuns(t), NEW q \in WordRuns(t),
         NEW x \in Nat, r.from <= x, x < r.to, q.from <= x, x < q.to
  PROVE  r = q
<1> DEFINE a == r.from
           b == r.to
           c == q.from
           d == q.to
           n == Len(t)
<1>1. /\ a \in 1..n /\ b \in 2..(n + 1) /\ c \in 1..n /\ d \in 2..(n + 1) /\ n \in Nat
      /\ a \in Nat /\ b \in Nat /\ c \in Nat /\ d \in Nat
      /\ \A k \in a..(b - 1) : IsWordChar(t[k])
      /\ a = 1 \/ ~IsWordChar(t[a - 1])
      /\ b = n + 1 \/ ~IsWordChar(t[b])
      /\ \A k \in c..(d - 1) : IsWordChar(t[k])
      /\ c = 1 \/ ~IsWordChar(t[c - 1])
      /\ d = n + 1 \/ ~IsWordChar(t[d])
      /\ r = [from |-> a, to |-> b] /\ q = [from |-> c, to |-> d]
  BY RunShape
<1>2. a <= x /\ x < b /\ c <= x /\ x < d
  OBVIOUS
<1> HIDE DEF a, b, c, d, n
<1>3. ~(a < c)
  <2>1. SUFFICES ASSUME a < c PROVE FALSE
    OBVIOUS
  <2>2. c - 1 \in a..(b - 1) /\ c # 1
    BY <1>1, <1>2, <2>1
  <2> QED BY <1>1, <2>2
<1>4. ~(c < a)
  <2>1. SUFFICES ASSUME c < a PROVE FALSE
    OBVIOUS
  <2>2. a - 1 \in c..(d - 1) /\ a # 1
    BY <1>1, <1>2, <2>1
  <2> QED BY <1>1, <2>2
<1>5. ~(b < d)
  <2>1. SUFFICES ASSUME b < d PROVE FALSE
    OBVIOUS
  <2>2. b \in c..(d - 1) /\ b # n + 1
    BY <1>1, <1>2, <2>1
  <2> QED BY <1>1, <2>2
<1>6. ~(d < b)
  <2>1. SUFFICES ASSUME d < b PROVE FALSE
    OBVIOUS
  <2>2. d \in a..(b - 1) /\ d # n + 1
    BY <1>1, <1>2, <2>1
  <2> QED BY <1>1, <2>2
<1>7. a = c /\ b = d
  BY <1>1, <1>3, <1>4, <1>5, <1>6
<1> QED BY <1>1, <1>7

LEMMA RunAround ==
  ASSUME NEW A, NEW t \in Seq(A), NEW i \in Nat, NEW j \in Nat, 1 <= i, i < j, j <= Len(t) + 1,
         \A k \in i..(j - 1) : IsWordChar(t[k])
  PROVE  \E r \in WordRuns(t) : r.from <= i /\ j <= r.to
<1> DEFINE n == Len(t)
           Starts == {a \in 1..i : \A k \in a..i : IsWordChar(t[k])}
           Ends == {b \in i..(n + 1) : b = n + 1 \/ ~IsWordChar(t[b])}
<1>1. n \in Nat
  BY LenProperties
<1>2. IsWordChar(t[i])
  <2>1. i \in i..(j - 1)
    OBVIOUS
  <2> QED BY <2>1
<1>3. PICK a \in Starts : \A x \in Starts : a <= x
  <2>1. Starts \in SUBSET Nat
    OBVIOUS
  <2>2. i \in Starts
    <3>1. i \in 1..i /\ \A k \in i..i : k = i
      OBVIOUS
    <3> QED BY <1>2, <3>1
  <2> HIDE DEF Starts
  <2> QED BY <2>1, <2>2, NatMin
<1>4. PICK b \in Ends : \A x \in Ends : b <= x
  <2>1. Ends \in SUBSET Nat
    BY <1>1
  <2>2. n + 1 \in Ends
    BY <1>1
  <2> HIDE DEF Ends
  <2> QED BY <2>1, <2>2, NatMin
<1>5. a \in 1..i /\ a \in Nat /\ \A k \in a..i : IsWordChar(t[k])
  OBVIOUS
<1>6. b \in i..(n + 1) /\ b \in Nat /\ (b = n + 1 \/ ~IsWordChar(t[b]))
  BY <1>1
<1>7. ASSUME NEW x \in i..(b - 1) PROVE IsWordChar(t[x])
  <2>1. x \in i..(n + 1) /\ x < b /\ x # n + 1
    BY <1>1, <1>6
  <2> QED BY <1>4, <1>6, <2>1
<1>8. b # i
  BY <1>1, <1>2, <1>6
<1>9. j <= b
  <2>1. SUFFICES ASSUME b < j PROVE FALSE
    BY <1>6
  <2>2. b \in i..(j - 1) /\ b # n + 1
    BY <1>1, <1>6, <2>1
  <2> QED BY <1>6, <2>2
<1>10. a = 1 \/ ~IsWordChar(t[a - 1])
  <2>1. SUFFICES ASSUME a # 1, IsWordChar(t[a - 1]) PROVE FALSE
    OBVIOUS
  <2>2. a - 1 \in 1..i
    BY <1>5, <2>1
  <2>3. \A k \in (a - 1)..i : k = a - 1 \/ k \in a..i
    BY <1>5, <2>1
  <2>4. a - 1 \in Starts
    BY <1>5, <2>1, <2>2, <2>3
  <2>5. a <= a - 1
    <3> HIDE DEF Starts
    <3> QED BY <1>3, <2>4
  <2> QED BY <1>5, <2>5
<1>11. \A k \in a..(b - 1) : IsWordChar(t[k])
  <2> TAKE k \in a..(b - 1)
  <2>1. k \in a..i \/ k \in i..(b - 1)
    BY <1>5, <1>6
  <2> QED BY <1>5, <1>7, <2>1
<1> DEFINE r == [from |-> a, to |-> b]
<1>12. a \in 1..n /\ b \in 2..(n + 1) /\ a < b /\ a <= i
  BY <1>1, <1>5, <1>6, <1>8
<1>13. r \in WordRuns(t)
  <2> HIDE DEF Starts, Ends
  <2> QED BY <1>6, <1>10, <1>11, <1>12 DEF WordRuns
<1> QED BY <1>9, <1>12, <1>13

(***************************************************************************)
(* Aliases                                                                 *)
(***************************************************************************)

\* The characters of the texts; no prover knows the joint for a string.
Chars == STRING \cup {Joint}

LEMMA WordsAreChars == \A w : w \in Words => w \in Seq(Chars)
<1> SUFFICES ASSUME NEW w, w \in Words PROVE w \in Seq(Chars)
  OBVIOUS
<1>1. w \in Seq(STRING) /\ STRING \subseteq Chars
  BY DEF Words, Chars
<1> DEFINE n == Len(w)
<1>2. n \in Nat /\ w \in [1..n -> STRING]
  BY <1>1, LenProperties
<1> HIDE DEF n
<1>3. w \in [1..n -> Chars]
  BY <1>1, <1>2
<1> QED
  BY <1>2, <1>3

LEMMA CasesTyped ==
  ASSUME NEW c \in Chars
  PROVE  ToLower(c) \in Chars /\ ToUpper(c) \in Chars
<1>1. Small \subseteq Chars /\ Capital \in [Small -> Chars]
  BY SanitizerAssumption DEF Small, Chars
<1>2. ToUpper(c) \in Chars
  BY <1>1 DEF ToUpper
<1>3. CASE c \in Large
  <2>1. PICK d \in Small : Capital[d] = c
    BY <1>3 DEF Large
  <2>2. (CHOOSE x \in Small : Capital[x] = c) \in Small
    BY <2>1
  <2> QED
    BY <1>1, <1>2, <1>3, <2>2 DEF ToLower
<1>4. CASE c \notin Large
  BY <1>2, <1>4 DEF ToLower
<1> QED
  BY <1>3, <1>4

LEMMA TermsTyped ==
  ASSUME PolicyHolds, NEW e \in TermTable
  PROVE  e.alias \in Seq(Chars) /\ e.alias # <<>>
<1>1. e \in Entries
  BY DEF TermTable, FirstOfEach
<1>2. ~(~Matchable(e.raw) \/ (e.source # "deny" /\ ~Matchable(e.alias)))
  BY <1>1 DEF PolicyHolds, Unmatchable
<1>3. \A w : Matchable(w) => w # <<>>
  BY DEF Matchable
<1>4. \/ \E i \in DOMAIN Registry : e.alias = Registry[i][2] /\ e.source = "registry"
      \/ \E i \in DOMAIN Dictionary : e.alias = Dictionary[i][2] /\ e.source = "dictionary"
      \/ \E i \in DOMAIN Denylist : e.alias = Denylist[i][2] /\ e.source = "deny"
  BY <1>1 DEF Entries
<1>5. \A i : /\ i \in DOMAIN Registry => Registry[i][2] \in Words
             /\ i \in DOMAIN Dictionary => Dictionary[i][2] \in Words
             /\ i \in DOMAIN Denylist => Denylist[i][2] \in Words /\ Denylist[i][2] # <<>>
  BY SanitizerAssumption
<1>6. e.source # "deny" => e.alias # <<>>
  BY <1>2, <1>3
<1>7. e.alias \in Words /\ (e.source = "deny" => e.alias # <<>>)
  BY <1>4, <1>5
<1> QED
  BY <1>6, <1>7, WordsAreChars

LEMMA Adapts ==
  ASSUME NEW slice, NEW alias \in Seq(Chars), alias # <<>>
  PROVE  AdaptReplacement(slice, alias) \in Seq(Chars) /\ AdaptReplacement(slice, alias) # <<>>
<1> DEFINE word == [i \in DOMAIN alias |-> IF IsWordChar(alias[i]) THEN alias[i] ELSE Joint]
           up == [i \in DOMAIN word |-> ToUpper(word[i])]
           low == [i \in DOMAIN word |-> ToLower(word[i])]
           title == [word EXCEPT ![1] = ToUpper(@)]
           n == Len(alias)
<1>1. n \in Nat /\ n # 0 /\ DOMAIN alias = 1..n /\ \A i \in 1..n : alias[i] \in Chars
  BY LenProperties, EmptySeq
<1>2. Joint \in Chars
  BY DEF Chars
<1>3. word \in [1..n -> Chars]
  BY <1>1, <1>2
<1>4. up \in [1..n -> Chars] /\ low \in [1..n -> Chars]
  BY <1>3, CasesTyped
<1>5. title \in [1..n -> Chars]
  BY <1>1, <1>3, CasesTyped
<1>6. \A w : w \in [1..n -> Chars] => w \in Seq(Chars) /\ w # <<>>
  BY <1>1
<1>7. AdaptReplacement(slice, alias) \in {up, low, title, word}
  BY DEF AdaptReplacement
<1> HIDE DEF word, up, low, title
<1> QED
  BY <1>3, <1>4, <1>5, <1>6, <1>7

(***************************************************************************)
(* Hits                                                                    *)
(***************************************************************************)

Within(run) ==
    {r \in {[from |-> i, to |-> j] : i \in run.from..(run.to - 1), j \in (run.from + 1)..run.to} :
        r.from < r.to}
Occurrences(t, run, term) == {r \in Within(run) : IsOccurrence(t, r, term)}

LEMMA HitsAreFound ==
  \A t, run, terms : HitsInRun(t, run, terms) =
    UNION {{[from |-> r.from, to |-> r.to, term |-> term] : r \in Leftmost(Occurrences(t, run, term))} :
               term \in terms}
BY DEF HitsInRun, Within, Occurrences

LEMMA WithinShape ==
  ASSUME NEW run, run.from \in Nat, run.to \in Nat, 1 <= run.from, NEW r
  PROVE  r \in Within(run) <=>
            /\ r = [from |-> r.from, to |-> r.to] /\ r.from \in Nat /\ r.to \in Nat
            /\ run.from <= r.from /\ r.from < r.to /\ r.to <= run.to
BY DEF Within

LEMMA FoundShape ==
  ASSUME NEW t, NEW run, run.from \in Nat, run.to \in Nat, 1 <= run.from, NEW term
  PROVE  /\ Leftmost(Occurrences(t, run, term)) \subseteq Occurrences(t, run, term)
         /\ Taken(Occurrences(t, run, term), Leftmost(Occurrences(t, run, term)))
<1> DEFINE N == run.to
           R == Occurrences(t, run, term)
<1>1. N \in Nat
  OBVIOUS
<1>2. \A r \in R : r.from \in 1..N
  BY WithinShape DEF Occurrences
<1> HIDE DEF N, R
<1>3. Leftmost(R) \subseteq R
  BY <1>1, <1>2, LeftmostTakes
<1>4. Taken(R, Leftmost(R))
  BY <1>1, <1>2, LeftmostTakes
<1> QED
  BY <1>3, <1>4 DEF R

LEMMA HitShape ==
  ASSUME NEW t, NEW run, run.from \in Nat, run.to \in Nat, 1 <= run.from, NEW terms,
         NEW h \in HitsInRun(t, run, terms)
  PROVE  /\ h = [from |-> h.from, to |-> h.to, term |-> h.term] /\ h.term \in terms
         /\ h.from \in Nat /\ h.to \in Nat
         /\ run.from <= h.from /\ h.from < h.to /\ h.to <= run.to
         /\ IsOccurrence(t, [from |-> h.from, to |-> h.to], h.term)
<1>1. PICK term \in terms : \E r \in Leftmost(Occurrences(t, run, term)) :
        h = [from |-> r.from, to |-> r.to, term |-> term]
  BY HitsAreFound
<1>2. PICK r \in Leftmost(Occurrences(t, run, term)) :
        h = [from |-> r.from, to |-> r.to, term |-> term]
  BY <1>1
<1>3. r \in Occurrences(t, run, term)
  BY FoundShape
<1>4. r \in Within(run) /\ IsOccurrence(t, r, term)
  BY <1>3 DEF Occurrences
<1>5. /\ r = [from |-> r.from, to |-> r.to] /\ r.from \in Nat /\ r.to \in Nat
      /\ run.from <= r.from /\ r.from < r.to /\ r.to <= run.to
  BY <1>4, WithinShape
<1>6. h.from = r.from /\ h.to = r.to /\ h.term = term
  BY <1>2
<1>7. IsOccurrence(t, [from |-> h.from, to |-> h.to], h.term)
  BY <1>4, <1>5, <1>6, Zenon
<1> QED
  BY <1>2, <1>5, <1>6, <1>7

\* An occurrence is a hit, or a hit of the same term overlaps it.
LEMMA OccurrenceIsHit ==
  ASSUME NEW t, NEW run, run.from \in Nat, run.to \in Nat, 1 <= run.from, NEW terms,
         NEW term \in terms, NEW i \in Nat, NEW j \in Nat, run.from <= i, i < j, j <= run.to,
         IsOccurrence(t, [from |-> i, to |-> j], term)
  PROVE  \/ \E h \in HitsInRun(t, run, terms) : h.from = i /\ h.to = j
         \/ \E h \in HitsInRun(t, run, terms) : h.term = term /\ h.from < i /\ i < h.to
<1> DEFINE r == [from |-> i, to |-> j]
           R == Occurrences(t, run, term)
           Hit(q) == [from |-> q.from, to |-> q.to, term |-> term]
<1>1. r \in Within(run)
  BY WithinShape
<1>2. r \in R /\ r.from = i /\ r.to = j
  BY <1>1 DEF Occurrences
<1>3. \A q \in Leftmost(R) : Hit(q) \in HitsInRun(t, run, terms)
  BY HitsAreFound
<1>4. \A q : Hit(q).from = q.from /\ Hit(q).to = q.to /\ Hit(q).term = term
  OBVIOUS
<1> HIDE DEF r, Hit
<1>5. CASE r \in Leftmost(R)
  BY <1>2, <1>3, <1>4, <1>5
<1>6. CASE r \notin Leftmost(R)
  <2>1. PICK q \in R : q.from < r.from /\ r.from < q.to /\ q \in Leftmost(R)
    BY <1>2, <1>6, FoundShape DEF Taken
  <2> QED
    BY <1>2, <1>3, <1>4, <2>1
<1> QED
  BY <1>5, <1>6

AreRanges(H, N) ==
    \A h \in H : /\ h.from \in Nat /\ h.to \in Nat
                /\ 1 <= h.from /\ h.from < h.to /\ h.to <= N
Longest(H, s) == CHOOSE h \in H : h.from = s /\ \A g \in H : g.from = s => g.to <= h.to

LEMMA KeptAreLongest ==
  \A H : NonOverlapping(H) = Leftmost({Longest(H, h.from) : h \in H})
BY DEF NonOverlapping, Longest

LEMMA LongestExists ==
  ASSUME NEW H, NEW N \in Nat, AreRanges(H, N), NEW x \in H
  PROVE  Longest(H, x.from) \in H /\ Longest(H, x.from).from = x.from
<1> DEFINE s == x.from
           G == {g \in H : g.from = s}
           T == {N - g.to : g \in G}
<1>1. T \in SUBSET Nat /\ T # {}
  BY DEF AreRanges
<1>2. PICK m \in T : \A k \in T : m <= k
  BY <1>1, NatMin, Zenon
<1>3. PICK h \in G : m = N - h.to
  BY <1>2
<1>4. \A g \in H : g.from = s => g.to <= h.to
  <2> SUFFICES ASSUME NEW g \in H, g.from = s PROVE g.to <= h.to
    OBVIOUS
  <2>1. N - g.to \in T
    OBVIOUS
  <2>2. m <= N - g.to
    BY <1>2, <2>1
  <2>3. g.to \in Nat /\ h.to \in Nat
    BY <1>3 DEF AreRanges
  <2> QED
    BY <1>3, <2>2, <2>3
<1>5. \E h_1 \in H : h_1.from = s /\ \A g \in H : g.from = s => g.to <= h_1.to
  BY <1>3, <1>4
<1> QED
  BY <1>5 DEF Longest

\* Of the hits, disjoint ones are kept, and every hit begins in a kept one.
LEMMA KeptHits ==
  ASSUME NEW H, NEW N \in Nat, AreRanges(H, N)
  PROVE  /\ NonOverlapping(H) \subseteq H
         /\ \A g, h \in NonOverlapping(H) : g = h \/ g.to <= h.from \/ h.to <= g.from
         /\ \A h \in H : \E g \in NonOverlapping(H) : g.from <= h.from /\ h.from < g.to
<1> DEFINE L == {Longest(H, h.from) : h \in H}
           K == Leftmost(L)
<1>1. L \subseteq H /\ \A h \in H : Longest(H, h.from) \in L /\ Longest(H, h.from).from = h.from
  BY LongestExists
<1>2. \A g, h \in L : g.from = h.from => g = h
  BY LongestExists
<1>3. NonOverlapping(H) = K
  BY KeptAreLongest
<1>4. \A h \in L : h.from \in 1..N /\ h.from \in Nat /\ h.to \in Nat /\ h.from < h.to
  BY <1>1 DEF AreRanges
<1> HIDE DEF L
<1>5. K \subseteq L
  BY <1>4, LeftmostTakes
<1>6. Taken(L, K)
  BY <1>4, LeftmostTakes
<1> HIDE DEF K
<1>7. \A g, h \in K : g = h \/ g.to <= h.from \/ h.to <= g.from
  <2> SUFFICES ASSUME NEW g \in K, NEW h \in K, g # h
               PROVE  g.to <= h.from \/ h.to <= g.from
    OBVIOUS
  <2>1. g \in L /\ h \in L /\ g.from # h.from
    BY <1>2, <1>5
  <2>2. ~(g.from < h.from /\ h.from < g.to) /\ ~(h.from < g.from /\ g.from < h.to)
    BY <1>6, <2>1 DEF Taken
  <2> QED
    BY <1>4, <2>1, <2>2
<1>8. \A h \in H : \E g \in K : g.from <= h.from /\ h.from < g.to
  <2> SUFFICES ASSUME NEW h \in H PROVE \E g \in K : g.from <= h.from /\ h.from < g.to
    OBVIOUS
  <2>1. PICK l \in L : l.from = h.from
    BY <1>1
  <2>2. CASE l \in K
    BY <1>4, <2>1, <2>2
  <2>3. CASE l \notin K
    <3>1. PICK q \in L : q.from < l.from /\ l.from < q.to /\ q \in K
      BY <1>6, <2>1, <2>3 DEF Taken
    <3> QED
      BY <1>4, <2>1, <3>1
  <2> QED
    BY <2>2, <2>3
<1> QED
  BY <1>1, <1>3, <1>5, <1>7, <1>8

(***************************************************************************)
(* Renderings are splices                                                  *)
(***************************************************************************)

\* The words in which terms are looked for.
Open(t, P) == {q \in WordRuns(t) : ~IsSanctioned(Slice(t, q), P)}

LEMMA LeaksAreHits ==
  \A t, terms, P : Leaks(t, terms, P) = UNION {HitsInRun(t, r, terms) : r \in Open(t, P)}
BY DEF Leaks, Open

LEMMA LeakShape ==
  ASSUME NEW A, NEW t \in Seq(A), NEW terms, NEW P, NEW h \in Leaks(t, terms, P)
  PROVE  /\ h.term \in terms /\ h.from \in Nat /\ h.to \in Nat /\ h.from < h.to
         /\ \E r \in Open(t, P) : r.from <= h.from /\ h.to <= r.to
         /\ 1 <= h.from /\ h.to <= Len(t) + 1
<1>1. PICK r \in Open(t, P) : h \in HitsInRun(t, r, terms)
  BY LeaksAreHits
<1>2. r \in WordRuns(t)
  BY DEF Open
<1>3. r.from \in 1..Len(t) /\ r.to \in 2..(Len(t) + 1) /\ Len(t) \in Nat
  BY <1>2, RunShape
<1>4. r.from \in Nat /\ r.to \in Nat /\ 1 <= r.from /\ r.to <= Len(t) + 1
  BY <1>3
<1>5. /\ h.term \in terms /\ h.from \in Nat /\ h.to \in Nat
      /\ r.from <= h.from /\ h.from < h.to /\ h.to <= r.to
  BY <1>1, <1>4, HitShape
<1> DEFINE n == Len(t)
<1>6. n \in Nat /\ r.to <= n + 1
  BY <1>3, <1>4
<1> HIDE DEF n
<1>7. 1 <= h.from /\ h.to <= n + 1
  BY <1>4, <1>5, <1>6
<1> QED
  BY <1>5, <1>7 DEF n

LEMMA ReplacedHits ==
  \A t, P : Replacements(t, P) = Replacing(t, NonOverlapping(Leaks(t, TermTable, P)))
BY DEF Replacements

LEMMA ReplacementsAreEdits ==
  ASSUME PolicyHolds, NEW t \in Seq(Chars), NEW P
  PROVE  /\ IsEdits(t, Replacements(t, P), Chars)
         /\ \A e \in Replacements(t, P) : \E r \in Open(t, P) : r.from <= e.from /\ e.to <= r.to
         /\ \A h \in Leaks(t, TermTable, P) :
              \E e \in Replacements(t, P) : e.from <= h.from /\ h.from < e.to
<1> DEFINE H == Leaks(t, TermTable, P)
           K == NonOverlapping(H)
           n == Len(t)
           N == n + 1
           New(h) == AdaptReplacement(Slice(t, h), h.term.alias)
           Edit(h) == [from |-> h.from, to |-> h.to, new |-> New(h)]
           E == Replacements(t, P)
<1>1. n \in Nat
  BY LenProperties
<1>2. AreRanges(H, N)
  BY <1>1, LeakShape DEF AreRanges
<1>3. \A h \in H : h.term \in TermTable /\ \E r \in Open(t, P) : r.from <= h.from /\ h.to <= r.to
  BY LeakShape
<1>4. E = {Edit(h) : h \in K}
  BY ReplacedHits DEF Replacing
<1>5. \A h \in H : New(h) \in Seq(Chars) /\ New(h) # <<>>
  BY <1>3, TermsTyped, Adapts
<1>6. \A h : Edit(h).from = h.from /\ Edit(h).to = h.to /\ Edit(h).new = New(h)
  OBVIOUS
<1>n. N \in Nat
  BY <1>1
<1> HIDE DEF H, New, E, Edit
<1>7. K \subseteq H
  BY <1>n, <1>2, KeptHits
<1>8. \A g, h \in K : g = h \/ g.to <= h.from \/ h.to <= g.from
  BY <1>n, <1>2, KeptHits
<1>9. \A h \in H : \E g \in K : g.from <= h.from /\ h.from < g.to
  BY <1>n, <1>2, KeptHits
<1> HIDE DEF K
<1>10. ASSUME NEW e \in E
       PROVE  /\ e.from \in Nat /\ e.to \in Nat /\ 1 <= e.from /\ e.from < e.to
              /\ e.to <= Len(t) + 1 /\ e.new \in Seq(Chars) /\ e.new # <<>>
              /\ \E r \in Open(t, P) : r.from <= e.from /\ e.to <= r.to
  <2>1. PICK h \in K : e = Edit(h)
    BY <1>4
  <2>2. h \in H /\ e.from = h.from /\ e.to = h.to /\ e.new = New(h)
    BY <1>6, <1>7, <2>1
  <2>3. e.from \in Nat /\ e.to \in Nat /\ 1 <= e.from /\ e.from < e.to /\ e.to <= Len(t) + 1
    BY <1>2, <2>2 DEF AreRanges
  <2>4. e.new \in Seq(Chars) /\ e.new # <<>>
    BY <1>5, <2>2
  <2>5. \E r \in Open(t, P) : r.from <= e.from /\ e.to <= r.to
    BY <1>3, <2>2
  <2> QED
    BY <2>3, <2>4, <2>5
<1>11. \A e, d \in E : e = d \/ e.to <= d.from \/ d.to <= e.from
  BY <1>4, <1>6, <1>8
<1>12. \A h \in H : \E e \in E : e.from <= h.from /\ h.from < e.to
  BY <1>4, <1>6, <1>9
<1>13. IsEdits(t, E, Chars)
  BY <1>10, <1>11 DEF IsEdits
<1> QED
  BY <1>10, <1>12, <1>13 DEF H, E

LEMMA SpanMapIsPlaced ==
  ASSUME PolicyHolds, NEW t \in Seq(Chars), NEW P, NEW pre, Trace(t, Replacements(t, P), Chars, pre)
  PROVE  SpanMapOf(t, P) = SpansOf(t, Replacements(t, P), PlaceOf(t, pre))
<1> DEFINE E == Replacements(t, P)
           pl == PlaceOf(t, pre)
           Place(e) == 1 + Len(Splice(SubSeq(t, 1, e.from - 1), {d \in E : d.from < e.from}))
           Span(e, p) == [text |-> e.new, original |-> Slice(t, e), source |-> e.from,
                          from |-> p, to |-> p + Len(e.new)]
<1>1. IsEdits(t, E, Chars)
  BY ReplacementsAreEdits
<1>t. Trace(t, E, Chars, pre)
  OBVIOUS
<1>2. SpanMapOf(t, P) = {Span(e, Place(e)) : e \in E}
  BY DEF SpanMapOf
<1>3. SpansOf(t, E, pl) = {Span(e, pl[e.from - 1] + 1) : e \in E}
  BY DEF SpansOf
<1> HIDE DEF E, Span
<1>4. ASSUME NEW e \in E PROVE Place(e) = pl[e.from - 1] + 1
  <2> DEFINE c == pre[e.from - 1]
  <2>a. Splice(Part(t, 1, e.from - 1), EditsBefore(E, e)) = c
    BY <1>1, <1>t, SplicePrefix
  <2>1. Splice(SubSeq(t, 1, e.from - 1), {d \in E : d.from < e.from}) = c
    BY <2>a DEF Part, EditsBefore
  <2>2. e.from \in Nat /\ e.to \in Nat /\ 1 <= e.from /\ e.from < e.to /\ e.to <= Len(t) + 1
    BY <1>1 DEF IsEdits
  <2>3. Len(t) \in Nat
    BY LenProperties
  <2>4. e.from - 1 \in 0..Len(t)
    BY <2>2, <2>3
  <2>5. c \in Seq(Chars)
    BY <2>4 DEF Trace
  <2>6. Len(c) \in Nat
    BY <2>5, LenProperties
  <2>7. pl[e.from - 1] = Len(c)
    BY <2>4 DEF PlaceOf
  <2>8. Place(e) = 1 + Len(c)
    BY <2>1
  <2> QED
    BY <2>6, <2>7, <2>8
<1> HIDE DEF Place, pl
<1>5. {Span(e, Place(e)) : e \in E} = {Span(e, pl[e.from - 1] + 1) : e \in E}
  BY <1>4
<1> QED
  BY <1>2, <1>3, <1>5 DEF E, pl

(***************************************************************************)
(* What a mirror shows between its spans                                   *)
(***************************************************************************)

\* A span of the mirror reaches into [i, j).
Touched(E, pl, i, j) == \E e \in E : pl[e.from - 1] + 1 < j /\ i < pl[e.from - 1] + 1 + Len(e.new)

LEMMA PlaceFacts ==
  ASSUME NEW A, NEW t \in Seq(A), NEW E, NEW M \in Seq(A), NEW pl, Places(t, E, M, pl)
  PROVE  /\ Len(t) \in Nat /\ Len(M) \in Nat /\ pl[0] = 0 /\ pl[Len(t)] = Len(M)
         /\ \A k \in 0..Len(t) : pl[k] \in Nat
         /\ \A i, j \in 0..Len(t) : i <= j => pl[i] <= pl[j]
BY LenProperties DEF Places

\* A position outside the spans is the copy of one the edits leave alone.
LEMMA Origin ==
  ASSUME NEW A, NEW t \in Seq(A), NEW E, IsEdits(t, E, A), NEW M \in Seq(A), NEW pl,
         Places(t, E, M, pl), NEW m \in Nat, 1 <= m, m <= Len(M), ~Touched(E, pl, m, m + 1)
  PROVE  \E k \in 1..Len(t) : ~Covered(E, k) /\ pl[k] = m
<1> DEFINE n == Len(t)
           T == {k \in 0..n : m <= pl[k]}
<1>1. /\ n \in Nat /\ Len(M) \in Nat /\ pl[0] = 0 /\ pl[n] = Len(M)
      /\ \A k \in 0..n : pl[k] \in Nat
  BY PlaceFacts
<1>2. T \in SUBSET Nat /\ T # {}
  BY <1>1
<1>3. PICK k \in T : \A x \in T : k <= x
  BY <1>2, NatMin, Zenon
<1>4. k \in 1..n /\ k - 1 \in 0..n /\ m <= pl[k] /\ k \in Nat
  BY <1>1
<1>5. pl[k - 1] < m /\ pl[k - 1] \in Nat /\ pl[k] \in Nat
  <2>1. k - 1 \notin T
    BY <1>3, <1>4
  <2> QED
    BY <1>1, <1>4, <2>1
<1>6. ~Covered(E, k)
  <2> SUFFICES ASSUME NEW e \in E, e.from <= k, k < e.to PROVE FALSE
    BY DEF Covered
  <2> DEFINE f == pl[e.from - 1]
             s == Len(e.new)
  <2>1. e.from \in Nat /\ e.to \in Nat /\ f \in Nat /\ s \in Nat
    BY EditPlace
  <2>2. \A x \in e.from..(e.to - 1) : pl[x] = f + s
    BY DEF Places
  <2>3. pl[k] = f + s
    BY <1>4, <2>1, <2>2
  <2>4. CASE e.from = k
    <3>1. f < m /\ m <= f + s
      BY <1>4, <1>5, <2>3, <2>4
    <3>2. ~(f + 1 < m + 1 /\ m < f + 1 + s)
      BY DEF Touched
    <3> HIDE DEF f, s
    <3> QED
      BY <2>1, <3>1, <3>2
  <2>5. CASE e.from # k
    <3>1. k - 1 \in e.from..(e.to - 1)
      <4> DEFINE a == e.from
                 z == e.to
      <4>1. a \in Nat /\ z \in Nat /\ k \in Nat /\ a <= k /\ k < z /\ a # k
        BY <1>4, <2>1, <2>5
      <4> HIDE DEF a, z
      <4>2. k - 1 \in a..(z - 1)
        BY <4>1
      <4> QED
        BY <4>2 DEF a, z
    <3>2. pl[k - 1] = f + s
      BY <2>2, <3>1
    <3> QED
      BY <1>4, <1>5, <2>3, <3>2
  <2> QED
    BY <2>4, <2>5
<1>7. pl[k] = pl[k - 1] + 1
  BY <1>4, <1>6 DEF Places
<1>8. pl[k] = m
  BY <1>4, <1>5, <1>7
<1> QED
  BY <1>4, <1>6, <1>8

Uncovered(E, a, b) == \A k \in a..(b - 1) : ~Covered(E, k)

Copied(t, M, pl, a, b) ==
    \A k \in a..(b - 1) : pl[k] = pl[a - 1] + (k - a + 1) /\ M[pl[k]] = t[k]

LEMMA RegionShifts ==
  ASSUME NEW A, NEW t \in Seq(A), NEW E, NEW M \in Seq(A), NEW pl,
         Places(t, E, M, pl), NEW a \in Nat, NEW b \in Nat, 1 <= a, a <= b, b <= Len(t) + 1,
         Uncovered(E, a, b)
  PROVE  Copied(t, M, pl, a, b)
<1> DEFINE n == Len(t)
           S == {x \in Nat : a + x <= b => pl[a + x - 1] = pl[a - 1] + x}
<1>1. n \in Nat /\ b <= n + 1 /\ \A k \in 0..n : pl[k] \in Nat
  BY PlaceFacts
<1>2. \A k \in a..(b - 1) : k \in 1..n /\ pl[k] = pl[k - 1] + 1 /\ M[pl[k]] = t[k]
  <2> SUFFICES ASSUME NEW k \in a..(b - 1)
               PROVE  k \in 1..n /\ pl[k] = pl[k - 1] + 1 /\ M[pl[k]] = t[k]
    OBVIOUS
  <2>1. k \in 1..n
    BY <1>1
  <2> QED
    BY <2>1 DEF Places, Uncovered
<1>p. pl[a - 1] \in Nat
  BY <1>1
<1> HIDE DEF n
<1>3. 0 \in S
  BY <1>p
<1>4. ASSUME NEW x \in Nat, x \in S PROVE x + 1 \in S
  <2> SUFFICES ASSUME a + (x + 1) <= b PROVE pl[a + (x + 1) - 1] = pl[a - 1] + (x + 1)
    BY <1>4
  <2>1. a + x \in a..(b - 1) /\ a + x <= b
    OBVIOUS
  <2>2. pl[a + x] = pl[a + x - 1] + 1
    BY <1>2, <2>1
  <2>3. pl[a + x - 1] = pl[a - 1] + x
    BY <1>4, <2>1
  <2>4. a + (x + 1) - 1 = a + x
    OBVIOUS
  <2> DEFINE p == pl[a - 1]
             q == pl[a + x - 1]
             r == pl[a + x]
  <2>5. p \in Nat /\ r = q + 1 /\ q = p + x
    BY <1>p, <2>2, <2>3
  <2>6. pl[a + (x + 1) - 1] = r
    BY <2>4
  <2> HIDE DEF p, q, r
  <2>7. r = p + (x + 1)
    BY <2>5
  <2> QED
    BY <2>6, <2>7 DEF p
<1> HIDE DEF S
<1>5. Nat \subseteq S
  BY <1>3, <1>4, NatInd
<1>6. ASSUME NEW k \in a..(b - 1) PROVE pl[k] = pl[a - 1] + (k - a + 1)
  <2>1. k - a + 1 \in S /\ k - a + 1 \in Nat
    BY <1>5
  <2>2. a + (k - a + 1) <= b /\ a + (k - a + 1) - 1 = k
    OBVIOUS
  <2> QED
    BY <2>1, <2>2 DEF S
<1> QED
  BY <1>2, <1>6 DEF Copied

\* A stretch outside the spans is the copy of one stretch of the text.
LEMMA SegmentCopied ==
  ASSUME NEW A, NEW t \in Seq(A), NEW E, IsEdits(t, E, A), NEW M \in Seq(A), NEW pl,
         Places(t, E, M, pl), NEW i \in Nat, NEW j \in Nat, 1 <= i, i < j, j <= Len(M) + 1,
         ~Touched(E, pl, i, j)
  PROVE  \E a, b \in Nat : /\ 1 <= a /\ a < b /\ b <= Len(t) + 1 /\ b - a = j - i
                           /\ pl[a - 1] + 1 = i /\ Uncovered(E, a, b)
<1> DEFINE n == Len(t)
           N == Len(M)
<1>1. /\ n \in Nat /\ N \in Nat /\ \A k \in 0..n : pl[k] \in Nat
      /\ \A x, y \in 0..n : x <= y => pl[x] <= pl[y]
  BY PlaceFacts
<1>2. \A e \in E : pl[e.from - 1] \in Nat /\ Len(e.new) \in Nat
  BY EditPlace
<1>3. ASSUME NEW m \in i..(j - 1) PROVE \E k \in 1..n : ~Covered(E, k) /\ pl[k] = m
  <2>1. ~Touched(E, pl, m, m + 1)
    <3> SUFFICES ASSUME NEW e \in E, pl[e.from - 1] + 1 < m + 1,
                        m < pl[e.from - 1] + 1 + Len(e.new)
                 PROVE  FALSE
      BY DEF Touched
    <3> DEFINE f == pl[e.from - 1]
               s == Len(e.new)
    <3>1. f \in Nat /\ s \in Nat /\ f + 1 < m + 1 /\ m < f + 1 + s
      BY <1>2
    <3>2. ~(f + 1 < j /\ i < f + 1 + s)
      BY DEF Touched
    <3> HIDE DEF f, s
    <3> QED
      BY <3>1, <3>2
  <2>2. m \in Nat /\ 1 <= m /\ m <= Len(M)
    BY <1>1
  <2> QED
    BY <2>1, <2>2, Origin
<1>4. PICK a \in 1..n : ~Covered(E, a) /\ pl[a] = i
  BY <1>3
<1>5. PICK z \in 1..n : ~Covered(E, z) /\ pl[z] = j - 1
  BY <1>3
<1>6. a <= z
  <2>1. ~(z <= a - 1)
    <3> SUFFICES ASSUME z <= a - 1 PROVE FALSE
      OBVIOUS
    <3>1. pl[a] = pl[a - 1] + 1
      BY <1>4 DEF Places
    <3>2. pl[z] <= pl[a - 1] /\ pl[a - 1] \in Nat
      BY <1>1
    <3> QED
      BY <1>4, <1>5, <3>1, <3>2
  <2> QED
    BY <2>1
<1>7. Uncovered(E, a, z + 1)
  <2> SUFFICES ASSUME NEW k \in a..z, NEW e \in E, e.from <= k, k < e.to PROVE FALSE
    BY <1>1 DEF Uncovered, Covered
  <2> DEFINE f == pl[e.from - 1]
             s == Len(e.new)
  <2>1. e.from \in Nat /\ e.to \in Nat /\ f \in Nat /\ s \in Nat /\ s # 0 /\ pl[e.to - 1] = f + s
    BY EditPlace
  <2>0. a \in Nat /\ z \in Nat /\ n \in Nat /\ a <= n /\ z <= n /\ 1 <= a /\ 1 <= z
    BY <1>1
  <2>2. a < e.from /\ e.to <= z
    <3>1. a \in Nat /\ z \in Nat /\ k \in Nat /\ a <= k /\ k <= z
      BY <1>1
    <3>2. ~(e.from <= a /\ a < e.to) /\ ~(e.from <= z /\ z < e.to)
      BY <1>4, <1>5 DEF Covered
    <3> DEFINE c == e.from
               y == e.to
    <3>3. c \in Nat /\ y \in Nat /\ c <= k /\ k < y
          /\ ~(c <= a /\ a < y) /\ ~(c <= z /\ z < y)
      BY <2>1, <3>2
    <3> HIDE DEF c, y
    <3>4. a < c /\ y <= z
      BY <3>1, <3>3
    <3> QED
      BY <3>4 DEF c, y
  <2>x. e.from \in Nat /\ e.to \in Nat
    BY <2>1
  <2> HIDE DEF n, f, s
  <2>3. a \in 0..n /\ e.from - 1 \in 0..n /\ a <= e.from - 1
    <3> DEFINE c == e.from
               y == e.to
    <3>1. c \in Nat /\ y \in Nat /\ a < c /\ y <= z /\ c <= k /\ k < y
      BY <2>x, <2>2
    <3> HIDE DEF c, y
    <3>2. a \in 0..n /\ c - 1 \in 0..n /\ a <= c - 1
      BY <2>0, <3>1
    <3> QED
      BY <3>2 DEF c
  <2>4. i <= f
    BY <1>1, <1>4, <2>3 DEF f
  <2>5. e.to - 1 \in 0..n /\ z - 1 \in 0..n /\ e.to - 1 <= z - 1
    <3> DEFINE y == e.to
    <3>1. y \in Nat /\ a < y /\ y <= z
      BY <2>x, <2>2
    <3> HIDE DEF y
    <3>2. y - 1 \in 0..n /\ z - 1 \in 0..n /\ y - 1 <= z - 1
      BY <2>0, <3>1
    <3> QED
      BY <3>2 DEF y
  <2>6. pl[e.to - 1] <= pl[z - 1] /\ pl[z - 1] \in Nat
    BY <1>1, <2>5
  <2>7. pl[z] = pl[z - 1] + 1
    BY <1>5 DEF Places, n
  <2>8. ~(f + 1 < j /\ i < f + 1 + s)
    BY DEF Touched, f, s
  <2> DEFINE p == pl[z - 1]
  <2>9. p \in Nat /\ f + s <= p /\ j - 1 = p + 1 /\ f \in Nat /\ s \in Nat /\ s # 0
    BY <1>5, <2>1, <2>6, <2>7
  <2> HIDE DEF p
  <2> QED
    BY <2>4, <2>8, <2>9
<1> DEFINE b == z + 1
<1>8. a \in Nat /\ b \in Nat /\ 1 <= a /\ a < b /\ b <= n + 1
  BY <1>1, <1>6
<1>9. pl[a] = pl[a - 1] + 1
  BY <1>4 DEF Places
<1>10. pl[z] = pl[a - 1] + (z - a + 1)
  <2>1. z \in a..(b - 1) /\ a <= b
    BY <1>8
  <2>2. Uncovered(E, a, b)
    BY <1>7
  <2>3. b <= Len(t) + 1 /\ a \in Nat /\ b \in Nat /\ 1 <= a /\ a <= b
    BY <1>8
  <2> HIDE DEF b, n, N
  <2>4. Copied(t, M, pl, a, b)
    BY <2>2, <2>3, RegionShifts
  <2> QED
    BY <2>1, <2>4 DEF Copied
<1>11. pl[a - 1] \in Nat
  BY <1>1
<1>12. b - a = j - i /\ pl[a - 1] + 1 = i
  <2> DEFINE p == pl[a - 1]
  <2>1. p \in Nat /\ i = p + 1 /\ j - 1 = p + (z - a + 1) /\ a \in Nat /\ z \in Nat
    BY <1>4, <1>5, <1>8, <1>9, <1>10, <1>11
  <2> HIDE DEF p
  <2>2. b - a = j - i
    <3>1. i \in Nat /\ j \in Nat /\ b = z + 1 /\ b - a = z - a + 1 /\ j - i = z - a + 1
      BY <2>1
    <3> QED
      BY <3>1
  <2>3. p + 1 = i
    BY <2>1
  <2> QED
    BY <2>2, <2>3 DEF p
<1> QED
  BY <1>7, <1>8, <1>12

SameText(t, a, b, M, pl, i, j) ==
    /\ \A k \in a..(b - 1) : pl[k] = i + (k - a)
    /\ pl[b - 1] = j - 1 /\ j <= Len(M) + 1 /\ Part(M, i, j - 1) = Part(t, a, b - 1)
    /\ \A x \in i..(j - 1) : M[x] = t[a + (x - i)]

LEMMA RegionCopied ==
  ASSUME NEW A, NEW t \in Seq(A), NEW E, IsEdits(t, E, A), NEW M \in Seq(A), NEW pl,
         Places(t, E, M, pl), NEW a \in Nat, NEW b \in Nat, 1 <= a, a < b, b <= Len(t) + 1,
         Uncovered(E, a, b), NEW i \in Nat, pl[a - 1] + 1 = i, NEW j \in Nat, j = i + (b - a)
  PROVE  SameText(t, a, b, M, pl, i, j)
<1>s. a <= b
  OBVIOUS
<1>c. Copied(t, M, pl, a, b)
  BY <1>s, RegionShifts
<1>m. \A k \in a..(b - 1) : pl[k] = pl[a - 1] + (k - a + 1)
  BY <1>c DEF Copied
<1>3. \A k \in a..(b - 1) : M[pl[k]] = t[k]
  BY <1>c DEF Copied
<1> DEFINE n == Len(t)
           N == Len(M)
           p == Part(M, i, j - 1)
           u == Part(t, a, b - 1)
           l == b - a
<1>1. /\ n \in Nat /\ N \in Nat /\ pl[n] = N /\ \A k \in 0..n : pl[k] \in Nat
      /\ \A x, y \in 0..n : x <= y => pl[x] <= pl[y]
  BY PlaceFacts
<1>2. pl[a - 1] \in Nat /\ 1 <= i
  BY <1>1
<1>4. ASSUME NEW k \in a..(b - 1) PROVE pl[k] = i + (k - a)
  <2> DEFINE f == pl[a - 1]
  <2>1. k \in Nat /\ f \in Nat /\ f + 1 = i /\ pl[k] = f + (k - a + 1)
    BY <1>2, <1>m
  <2> HIDE DEF f
  <2> QED
    BY <2>1
<1>5. pl[b - 1] = j - 1
  BY <1>4
<1>6. j - 1 <= N
  <2>1. b - 1 \in 0..n /\ n \in 0..n /\ b - 1 <= n
    BY <1>1
  <2> HIDE DEF n
  <2>2. pl[b - 1] <= pl[n]
    BY <1>1, <2>1
  <2> QED
    BY <1>1, <1>5, <2>2
<1>7. ASSUME NEW x \in i..(j - 1) PROVE M[x] = t[a + (x - i)]
  <2>1. a + (x - i) \in a..(b - 1)
    OBVIOUS
  <2>2. pl[a + (x - i)] = x
    BY <1>4, <2>1
  <2> QED
    BY <1>3, <2>1, <2>2
<1>8. l \in Nat /\ l # 0 /\ j - i = l
  OBVIOUS
<1>9. p \in Seq(A) /\ Len(p) = l /\ \A x \in 1..l : p[x] = M[i + x - 1]
  <2> DEFINE y == j - 1
  <2>1. y \in Nat /\ 1 <= i /\ y <= Len(M) /\ i <= y + 1 /\ y - i + 1 = l
    BY <1>2, <1>6
  <2> HIDE DEF y, l
  <2>2. Part(M, i, y) \in Seq(A)
    BY <2>1, PartSeq
  <2>3. Len(Part(M, i, y)) = y - i + 1
    BY <2>1, PartSeq
  <2>4. \A x \in 1..(y - i + 1) : Part(M, i, y)[x] = M[i + x - 1]
    BY <2>1, PartSeq
  <2> QED
    BY <2>1, <2>2, <2>3, <2>4 DEF y
<1>10. u \in Seq(A) /\ Len(u) = l /\ \A x \in 1..l : u[x] = t[a + x - 1]
  <2> DEFINE y == b - 1
  <2>1. y \in Nat /\ y <= Len(t) /\ a <= y + 1 /\ y - a + 1 = l
    OBVIOUS
  <2> HIDE DEF y, l
  <2>2. Part(t, a, y) \in Seq(A)
    BY <2>1, PartSeq
  <2>3. Len(Part(t, a, y)) = y - a + 1
    BY <2>1, PartSeq
  <2>4. \A x \in 1..(y - a + 1) : Part(t, a, y)[x] = t[a + x - 1]
    BY <2>1, PartSeq
  <2> QED
    BY <2>1, <2>2, <2>3, <2>4 DEF y
<1>11. ASSUME NEW x \in 1..l PROVE p[x] = u[x]
  <2>1. i + x - 1 \in i..(j - 1) /\ a + ((i + x - 1) - i) = a + x - 1
    OBVIOUS
  <2>2. M[i + x - 1] = t[a + ((i + x - 1) - i)]
    BY <1>7, <2>1
  <2>3. M[i + x - 1] = t[a + x - 1]
    BY <2>1, <2>2
  <2> HIDE DEF p, u
  <2> QED
    BY <1>9, <1>10, <2>3
<1> HIDE DEF p, u, l
<1>12. p = u
  <2>1. p \in [1..Len(p) -> A] /\ u \in [1..Len(u) -> A]
    BY <1>9, <1>10, LenProperties
  <2>2. p \in [1..l -> A] /\ u \in [1..l -> A]
    BY <1>9, <1>10, <2>1
  <2>3. p = [x \in 1..l |-> p[x]] /\ u = [x \in 1..l |-> u[x]]
    BY <2>2
  <2> QED
    BY <1>11, <2>3
<1>13. j <= Len(M) + 1
  BY <1>6
<1> QED
  BY <1>4, <1>5, <1>7, <1>12, <1>13 DEF SameText, p, u

LEMMA EditsLieInWords ==
  ASSUME PolicyHolds, NEW t \in Seq(Chars), NEW P, NEW k \in Nat, Covered(Replacements(t, P), k)
  PROVE  \E r \in Open(t, P) : r \in WordRuns(t) /\ r.from <= k /\ k < r.to /\ IsWordChar(t[k])
<1>1. PICK e \in Replacements(t, P) : e.from <= k /\ k < e.to
  BY DEF Covered
<1>2. PICK r \in Open(t, P) : r.from <= e.from /\ e.to <= r.to
  BY ReplacementsAreEdits
<1>3. e.from \in Nat /\ e.to \in Nat
  BY ReplacementsAreEdits DEF IsEdits
<1>4. r \in WordRuns(t)
  BY DEF Open
<1>5. r.from \in Nat /\ r.to \in Nat /\ \A x \in r.from..(r.to - 1) : IsWordChar(t[x])
  BY <1>4, RunShape
<1> QED
  BY <1>1, <1>2, <1>3, <1>4, <1>5

LEMMA SanctionedWordsStay ==
  ASSUME PolicyHolds, NEW t \in Seq(Chars), NEW P, NEW w \in WordRuns(t),
         IsSanctioned(Slice(t, w), P)
  PROVE  Uncovered(Replacements(t, P), w.from, w.to)
<1> SUFFICES ASSUME NEW k \in w.from..(w.to - 1), Covered(Replacements(t, P), k) PROVE FALSE
  BY DEF Uncovered
<1>1. w.from \in Nat /\ w.to \in Nat
  BY RunShape
<1>2. PICK r \in Open(t, P) : r \in WordRuns(t) /\ r.from <= k /\ k < r.to
  BY <1>1, EditsLieInWords
<1>3. k \in Nat /\ w.from <= k /\ k < w.to
  BY <1>1
<1>4. r = w
  BY <1>2, <1>3, RunsAreDisjoint
<1> QED
  BY <1>2, <1>4 DEF Open

LEMMA WordIsRun ==
  ASSUME NEW t, NEW r, r = [from |-> r.from, to |-> r.to], NEW n \in Nat, n = Len(t),
         r.from \in Nat, r.to \in Nat, 1 <= r.from, r.from < r.to, r.to <= n + 1,
         \A k \in r.from..(r.to - 1) : IsWordChar(t[k]),
         r.from = 1 \/ ~IsWordChar(t[r.from - 1]),
         r.to = n + 1 \/ ~IsWordChar(t[r.to])
  PROVE  r \in WordRuns(t)
<1>1. r.from \in 1..n /\ r.to \in 2..(n + 1)
  OBVIOUS
<1> QED
  BY <1>1 DEF WordRuns

LEMMA Shifted ==
  ASSUME NEW a \in Nat, NEW b \in Nat, NEW c \in Nat, NEW d \in Nat, d = c + (b - a),
         NEW x \in c..(d - 1)
  PROVE  a + (x - c) \in a..(b - 1)
OBVIOUS

\* A word without edits is a word of the mirror too: what stands beside it
\* is no word character and so no part of an edit.
LEMMA CopiedWord ==
  ASSUME NEW A, NEW t \in Seq(A), NEW E, IsEdits(t, E, A), NEW M \in Seq(A), NEW pl,
         Places(t, E, M, pl), NEW r \in WordRuns(t), Uncovered(E, r.from, r.to),
         \A k \in 1..Len(t) : ~IsWordChar(t[k]) => ~Covered(E, k),
         NEW c \in Nat, c = pl[r.from - 1] + 1, NEW d \in Nat, d = c + (r.to - r.from)
  PROVE  /\ [from |-> c, to |-> d] \in WordRuns(M)
         /\ Slice(M, [from |-> c, to |-> d]) = Slice(t, r)
         /\ \A k \in r.from..(r.to - 1) : pl[k] = c + (k - r.from)
<1> DEFINE a == r.from
           b == r.to
           n == Len(t)
           N == Len(M)
<1>1. /\ a \in Nat /\ b \in Nat /\ n \in Nat /\ 1 <= a /\ a < b /\ b <= n + 1
      /\ \A k \in a..(b - 1) : IsWordChar(t[k])
      /\ a = 1 \/ ~IsWordChar(t[a - 1])
      /\ b = n + 1 \/ ~IsWordChar(t[b])
  BY RunShape
<1>2. /\ N \in Nat /\ pl[0] = 0 /\ pl[n] = N /\ \A k \in 0..n : pl[k] \in Nat
  BY PlaceFacts
<1>3. \A k \in 1..n : ~IsWordChar(t[k]) => pl[k] = pl[k - 1] + 1 /\ M[pl[k]] = t[k]
  BY DEF Places
<1>h. Uncovered(E, a, b) /\ c = pl[a - 1] + 1 /\ d = c + (b - a)
  OBVIOUS
<1> HIDE DEF a, b
<1>e. 1 <= a /\ b <= Len(t) + 1 /\ pl[a - 1] + 1 = c
  BY <1>1, <1>2, <1>h
<1>d. a \in Nat /\ b \in Nat /\ a < b /\ d = c + (b - a)
  BY <1>1, <1>h
<1>s. SameText(t, a, b, M, pl, c, d)
  BY <1>d, <1>e, <1>h, RegionCopied
<1>4. d <= Len(M) + 1
  BY <1>s DEF SameText
<1>5. Part(M, c, d - 1) = Part(t, a, b - 1)
  BY <1>s DEF SameText
<1>6. pl[b - 1] = d - 1
  BY <1>s DEF SameText
<1>7. \A k \in a..(b - 1) : pl[k] = c + (k - a)
  BY <1>s DEF SameText
<1>8. \A x \in c..(d - 1) : M[x] = t[a + (x - c)]
  BY <1>s DEF SameText
<1>9. \A x \in c..(d - 1) : IsWordChar(M[x])
  <2> SUFFICES ASSUME NEW x \in c..(d - 1) PROVE IsWordChar(M[x])
    OBVIOUS
  <2>1. a + (x - c) \in a..(b - 1)
    BY <1>d, Shifted
  <2> QED
    BY <1>1, <1>8, <2>1
<1>10. c = 1 \/ ~IsWordChar(M[c - 1])
  <2>1. CASE a = 1
    BY <1>2, <1>h, <2>1
  <2>2. CASE a # 1
    <3>1. a - 1 \in 1..n /\ ~IsWordChar(t[a - 1])
      BY <1>1, <2>2
    <3>2. M[pl[a - 1]] = t[a - 1] /\ pl[a - 1] \in Nat
      BY <1>2, <1>3, <3>1
    <3>3. pl[a - 1] = c - 1
      <4> DEFINE p == pl[a - 1]
      <4>1. p \in Nat /\ c = p + 1
        BY <1>h, <3>2
      <4> HIDE DEF p
      <4>2. p = c - 1
        BY <4>1
      <4> QED
        BY <4>2 DEF p
    <3> QED
      BY <3>1, <3>2, <3>3
  <2> QED
    BY <2>1, <2>2
<1>11. d = N + 1 \/ ~IsWordChar(M[d])
  <2>1. CASE b = n + 1
    <3>1. b - 1 = n
      BY <1>1, <2>1
    <3> QED
      BY <1>2, <1>6, <3>1
  <2>2. CASE b # n + 1
    <3>1. b \in 1..n /\ ~IsWordChar(t[b])
      <4>1. a \in Nat /\ b \in Nat /\ n \in Nat /\ 1 <= a /\ a < b /\ b <= n + 1 /\ b # n + 1
        BY <1>1, <2>2
      <4>2. ~IsWordChar(t[b])
        BY <1>1, <2>2
      <4> HIDE DEF n
      <4>3. b \in 1..n
        BY <4>1
      <4> QED
        BY <4>2, <4>3
    <3>2. M[pl[b]] = t[b] /\ pl[b] = pl[b - 1] + 1
      BY <1>3, <3>1
    <3>3. pl[b] = d
      <4> DEFINE p == pl[b - 1]
                 q == pl[b]
      <4>1. p = d - 1 /\ q = p + 1 /\ d \in Nat
        BY <1>6, <3>2
      <4> HIDE DEF p, q
      <4>2. q = d
        BY <4>1
      <4> QED
        BY <4>2 DEF q
    <3> QED
      BY <3>1, <3>2, <3>3
  <2> QED
    BY <2>1, <2>2
<1>12. [from |-> c, to |-> d] \in WordRuns(M)
  <2> DEFINE q == [from |-> c, to |-> d]
  <2>1. /\ q = [from |-> q.from, to |-> q.to] /\ q.from = c /\ q.to = d
    OBVIOUS
  <2>2. 1 <= c /\ c < d /\ d <= N + 1
    <3>1. a - 1 \in 0..n
      BY <1>1
    <3>2. pl[a - 1] \in Nat
      BY <1>2, <3>1
    <3>3. 1 <= c
      BY <1>h, <3>2
    <3> QED
      BY <1>d, <1>4, <3>3
  <2> HIDE DEF q
  <2>3. q \in WordRuns(M)
    BY <1>2, <1>9, <1>10, <1>11, <2>1, <2>2, WordIsRun
  <2> QED
    BY <2>3 DEF q
<1>13. Slice(M, [from |-> c, to |-> d]) = Slice(t, r)
  BY <1>5 DEF Slice, Part, a, b
<1> QED
  BY <1>7, <1>12, <1>13 DEF a, b

LEMMA PairIsPrefix ==
  ASSUME NEW A, NEW w \in Seq(A), NEW x \in A, Len(w) >= 2, w[1] = x, w[2] = x
  PROVE  IsPrefix(<<x, x>>, w)
<1>1. <<x, x>> \in Seq(A) /\ Len(<<x, x>>) = 2 /\ <<x, x>>[1] = x /\ <<x, x>>[2] = x
  OBVIOUS
<1>2. Len(w) \in Nat
  BY LenProperties
<1> DEFINE p == <<x, x>>
           u == Part(w, 1, 2)
<1>3. p \in Seq(A) /\ Len(p) = 2 /\ p[1] = x /\ p[2] = x
  BY <1>1
<1> HIDE DEF p
<1>4. Part(p, 1, 2) = p
  BY <1>3, PartWhole
<1>5. u \in Seq(A) /\ Len(u) = 2 /\ u[1] = w[1] /\ u[2] = w[2]
  <2> DEFINE o == 1
             y == 2
  <2>0. o \in Nat /\ y \in Nat /\ 1 <= o /\ y <= Len(w) /\ o <= y + 1
    BY <1>2
  <2>6. y - o + 1 = 2 /\ o = 1
    OBVIOUS
  <2> HIDE DEF o, y
  <2>1. Part(w, o, y) \in Seq(A)
    BY <2>0, PartSeq
  <2>2. Len(Part(w, o, y)) = y - o + 1
    BY <2>0, PartSeq
  <2>3. \A i \in 1..(y - o + 1) : Part(w, o, y)[i] = w[o + i - 1]
    BY <2>0, PartSeq
  <2>5. u = Part(w, o, y)
    BY DEF u, o, y
  <2> HIDE DEF u
  <2>4. u \in Seq(A) /\ Len(u) = 2 /\ \A i \in 1..2 : u[i] = w[i]
    BY <2>0, <2>1, <2>2, <2>3, <2>5, <2>6
  <2> QED
    BY <2>4
<1> HIDE DEF u
<1>6. p = u
  <2>1. p \in [1..Len(p) -> A] /\ u \in [1..Len(u) -> A]
    BY <1>3, <1>5, LenProperties
  <2>2. p = [i \in 1..2 |-> p[i]] /\ u = [i \in 1..2 |-> u[i]]
    BY <1>3, <1>5, <2>1
  <2>3. \A i \in 1..2 : p[i] = u[i]
    BY <1>3, <1>5
  <2> QED
    BY <2>2, <2>3
<1>7. Len(p) <= Len(w) /\ SubSeq(p, 1, Len(p)) = SubSeq(w, 1, Len(p))
  BY <1>3, <1>4, <1>6 DEF u, Part
<1> QED
  BY <1>7 DEF IsPrefix, p

\* What the protected set spares is what the program's interface needs.
LEMMA SanctionedIsInterface ==
  ASSUME NEW t \in Seq(Chars), NEW r \in WordRuns(t), IsSanctioned(Slice(t, r), CollectProtected(t))
  PROVE  IsInterface(t, Slice(t, r))
<1> DEFINE w == Slice(t, r)
           Dunder(q) == q.to - q.from >= 2 /\ t[q.from] = Joint /\ t[q.from + 1] = Joint
           Marked(q) == \E p \in WordRuns(t) : /\ Slice(t, p) \in Markers
                                               /\ LineAt(t, p.from) = LineAt(t, q.from)
<1>1. w \in Keywords \/ w \in CollectProtected(t)
  BY DEF IsSanctioned
<1>2. CASE w \in Keywords
  BY <1>2 DEF IsInterface
<1>3. CASE w \in CollectProtected(t)
  <2>1. PICK q \in WordRuns(t) : w = Slice(t, q) /\ (Marked(q) \/ Dunder(q))
    BY <1>3 DEF CollectProtected
  <2>2. CASE Marked(q)
    BY <2>1, <2>2 DEF IsInterface, OnMarkedLine
  <2>3. CASE Dunder(q)
    <3> DEFINE a == q.from
               b == q.to
    <3>1. a \in Nat /\ b \in Nat /\ 1 <= a /\ a < b /\ b <= Len(t) + 1 /\ Len(t) \in Nat
      BY RunShape
    <3>2. b - a >= 2 /\ t[a] = Joint /\ t[a + 1] = Joint
      BY <2>3
    <3>w. w = Part(t, a, b - 1)
      BY <2>1 DEF Slice, Part
    <3> HIDE DEF a, b, w
    <3> DEFINE y == b - 1
    <3>3. y \in Nat /\ y <= Len(t) /\ a <= y + 1 /\ y - a + 1 >= 2
      BY <3>1, <3>2
    <3>4. w \in Seq(Chars) /\ Len(w) >= 2 /\ w[1] = Joint /\ w[2] = Joint
      <4> HIDE DEF y
      <4>1. Part(t, a, y) \in Seq(Chars)
        BY <3>1, <3>3, PartSeq
      <4>2. Len(Part(t, a, y)) = y - a + 1
        BY <3>1, <3>3, PartSeq
      <4>3. \A i \in 1..(y - a + 1) : Part(t, a, y)[i] = t[a + i - 1]
        BY <3>1, <3>3, PartSeq
      <4>4. w = Part(t, a, y)
        BY <3>w DEF y
      <4>5. 1 \in 1..(y - a + 1) /\ 2 \in 1..(y - a + 1) /\ a + 1 - 1 = a /\ a + 2 - 1 = a + 1
        BY <3>1, <3>3
      <4>6. w[1] = t[a] /\ w[2] = t[a + 1]
        BY <4>3, <4>4, <4>5
      <4> QED
        BY <3>2, <3>3, <4>1, <4>2, <4>4, <4>6
    <3>5. Joint \in Chars
      BY DEF Chars
    <3>6. IsPrefix(<<Joint, Joint>>, w)
      BY <3>4, <3>5, PairIsPrefix
    <3> QED
      BY <3>6 DEF IsInterface, w
  <2> QED
    BY <2>1, <2>2, <2>3
<1> QED
  BY <1>1, <1>2, <1>3

LEMMA SameTextSpells ==
  ASSUME NEW t, NEW M, NEW pl, NEW term, NEW a \in Nat, NEW b \in Nat, NEW i \in Nat, NEW j \in Nat,
         a < b, i < j, b - a = j - i, SameText(t, a, b, M, pl, i, j), Spells(M, i, j, term)
  PROVE  Spells(t, a, b, term)
<1>1. \A x \in i..(j - 1) : M[x] = t[a + (x - i)]
  BY DEF SameText
<1>2. Part(M, i, j - 1) = Part(t, a, b - 1)
  BY DEF SameText
<1>3. /\ \A k \in i..(j - 1) : IsWordChar(M[k])
      /\ M[i] # Joint /\ M[j - 1] # Joint
  BY DEF Spells
<1>4. Normalize(Part(M, i, j - 1)) = term.normal
  BY DEF Spells, Part
<1>5. Normalize(Part(t, a, b - 1)) = term.normal
  BY <1>2, <1>4
<1>6. ASSUME NEW k \in a..(b - 1) PROVE IsWordChar(t[k])
  <2>1. i + (k - a) \in i..(j - 1) /\ a + ((i + (k - a)) - i) = k
    OBVIOUS
  <2>2. M[i + (k - a)] = t[a + ((i + (k - a)) - i)]
    BY <1>1, <2>1
  <2> QED
    BY <1>3, <2>1, <2>2
<1>7. t[a] # Joint /\ t[b - 1] # Joint
  <2>1. i \in i..(j - 1) /\ a + (i - i) = a /\ j - 1 \in i..(j - 1) /\ a + ((j - 1) - i) = b - 1
    OBVIOUS
  <2>2. M[i] = t[a + (i - i)] /\ M[j - 1] = t[a + ((j - 1) - i)]
    BY <1>1, <2>1
  <2> QED
    BY <1>3, <2>1, <2>2
<1> QED
  BY <1>5, <1>6, <1>7 DEF Spells, Part

LEMMA OccurrenceSpells ==
  ASSUME NEW t, NEW a \in Nat, NEW b \in Nat, NEW term, \A k \in a..(b - 1) : IsWordChar(t[k])
  PROVE  Spells(t, a, b, term) <=> IsOccurrence(t, [from |-> a, to |-> b], term)
BY DEF Spells, IsOccurrence, Slice

\* In a word whose terms are looked for, an occurrence that was left alone
\* is one that another occurrence of its term overlaps.
LEMMA MissedIsCrowded ==
  ASSUME PolicyHolds, NEW t \in Seq(Chars), NEW P, NEW r \in WordRuns(t),
         ~IsSanctioned(Slice(t, r), P), NEW term \in TermTable, NEW a \in Nat, NEW b \in Nat,
         r.from <= a, a < b, b <= r.to, Spells(t, a, b, term), Uncovered(Replacements(t, P), a, b)
  PROVE  Crowded(t, term)
<1>1. /\ r.from \in Nat /\ r.to \in Nat /\ 1 <= r.from /\ r.to <= Len(t) + 1 /\ Len(t) \in Nat
      /\ \A k \in r.from..(r.to - 1) : IsWordChar(t[k])
  BY RunShape
<1>2. \A k \in a..(b - 1) : IsWordChar(t[k])
  BY <1>1
<1>3. IsOccurrence(t, [from |-> a, to |-> b], term)
  BY <1>2, OccurrenceSpells
<1>4. r \in Open(t, P)
  BY DEF Open
<1>5. \A h \in HitsInRun(t, r, TermTable) : h.from # a
  <2> SUFFICES ASSUME NEW h \in HitsInRun(t, r, TermTable), h.from = a PROVE FALSE
    OBVIOUS
  <2>1. h \in Leaks(t, TermTable, P)
    BY <1>4, LeaksAreHits
  <2>2. PICK e \in Replacements(t, P) : e.from <= a /\ a < e.to
    BY <2>1, ReplacementsAreEdits
  <2>3. a \in a..(b - 1)
    OBVIOUS
  <2> QED
    BY <2>2, <2>3 DEF Uncovered, Covered
<1>6. PICK h \in HitsInRun(t, r, TermTable) : h.term = term /\ h.from < a /\ a < h.to
  BY <1>1, <1>3, <1>5, OccurrenceIsHit
<1> DEFINE i == h.from
           j == h.to
<1>7. /\ i \in Nat /\ j \in Nat /\ r.from <= i /\ i < j /\ j <= r.to
      /\ IsOccurrence(t, [from |-> i, to |-> j], h.term)
  BY <1>1, HitShape
<1>8. i < a /\ a < j /\ IsOccurrence(t, [from |-> i, to |-> j], term)
  BY <1>6, <1>7
<1> HIDE DEF i, j
<1>9. \A k \in i..(j - 1) : IsWordChar(t[k])
  BY <1>1, <1>7
<1>10. Spells(t, i, j, term)
  BY <1>7, <1>8, <1>9, OccurrenceSpells
<1> DEFINE n == Len(t)
<1>11. /\ i \in 1..n /\ a \in 1..n /\ j \in 2..(n + 1) /\ b \in 2..(n + 1)
       /\ i < a /\ a < j /\ a < b
  BY <1>1, <1>7, <1>8
<1>12. DOMAIN t = 1..n
  BY LenProperties
<1> HIDE DEF n
<1> QED
  BY <1>10, <1>11, <1>12 DEF Crowded, n

LEMMA MirrorHides ==
  ASSUME PolicyHolds, NEW t \in Seq(Chars), NEW M \in Seq(Chars), NEW pl,
         Places(t, Replacements(t, CollectProtected(t)), M, pl),
         NEW term \in TermTable, NEW i \in Nat, NEW j \in Nat, 1 <= i, i < j, j <= Len(M) + 1,
         ~Touched(Replacements(t, CollectProtected(t)), pl, i, j), Spells(M, i, j, term),
         ~IsInterface(t, Slice(M, WordAround(M, i)))
  PROVE  Crowded(t, term)
<1> DEFINE P == CollectProtected(t)
           E == Replacements(t, P)
<1>1. IsEdits(t, E, Chars)
  BY ReplacementsAreEdits
<1>2. Places(t, E, M, pl) /\ ~Touched(E, pl, i, j)
  OBVIOUS
<1> HIDE DEF E, P
<1>3. PICK a \in Nat, b \in Nat : /\ 1 <= a /\ a < b /\ b <= Len(t) + 1 /\ b - a = j - i
                                  /\ pl[a - 1] + 1 = i /\ Uncovered(E, a, b)
  BY <1>1, <1>2, SegmentCopied
<1>4. j = i + (b - a)
  BY <1>3
<1>5. SameText(t, a, b, M, pl, i, j)
  BY <1>1, <1>2, <1>3, <1>4, RegionCopied
<1>6. Spells(t, a, b, term)
  BY <1>3, <1>5, SameTextSpells
<1>7. \A k \in a..(b - 1) : IsWordChar(t[k])
  BY <1>6 DEF Spells
<1>8. PICK r \in WordRuns(t) : r.from <= a /\ b <= r.to
  BY <1>3, <1>7, RunAround
<1>9. CASE ~IsSanctioned(Slice(t, r), P)
  BY <1>3, <1>6, <1>8, <1>9, MissedIsCrowded DEF E
<1>10. CASE IsSanctioned(Slice(t, r), P)
  <2>1. Uncovered(E, r.from, r.to)
    BY <1>10, SanctionedWordsStay DEF E
  <2>2. \A k \in 1..Len(t) : ~IsWordChar(t[k]) => ~Covered(E, k)
    BY EditsLieInWords DEF E
  <2> DEFINE c == pl[r.from - 1] + 1
             d == c + (r.to - r.from)
             q == [from |-> c, to |-> d]
  <2>3. r.from \in Nat /\ r.to \in Nat /\ r.from < r.to /\ r.from - 1 \in 0..Len(t)
    BY RunShape
  <2>4. pl[r.from - 1] \in Nat
    BY <1>2, <2>3, PlaceFacts
  <2> DEFINE f == r.from
             g == r.to
             z == pl[r.from - 1]
  <2>19. f \in Nat /\ g \in Nat /\ z \in Nat /\ f < g /\ c = z + 1 /\ d = c + (g - f) /\ f <= a /\ b <= g
    BY <1>8, <2>3, <2>4
  <2>6. c = pl[r.from - 1] + 1 /\ d = c + (r.to - r.from) /\ q.from = c /\ q.to = d
    OBVIOUS
  <2> HIDE DEF f, g, z, c, d
  <2>5. c \in Nat /\ d \in Nat
    BY <2>19
  <2>7. q \in WordRuns(M)
    BY <1>1, <1>2, <2>1, <2>2, <2>5, <2>6, CopiedWord
  <2>8. Slice(M, q) = Slice(t, r)
    BY <1>1, <1>2, <2>1, <2>2, <2>5, <2>6, CopiedWord
  <2>16. 1 <= f /\ f <= g /\ g <= Len(t) + 1 /\ f \in Nat /\ g \in Nat
    BY RunShape DEF f, g
  <2>17. Uncovered(E, f, g)
    BY <2>1 DEF f, g
  <2>18. Copied(t, M, pl, f, g)
    BY <1>2, <2>16, <2>17, RegionShifts
  <2>9. pl[a] = pl[f - 1] + (a - f + 1) /\ pl[f - 1] = z
    <3>1. a \in f..(g - 1)
      BY <1>3, <2>19
    <3> QED
      BY <2>18, <3>1 DEF Copied, z, f
  <2>10. pl[a] = i
    BY <1>3, <1>5 DEF SameText
  <2>11. i = z + (a - f + 1)
    BY <2>9, <2>10
  <2>12. c <= i /\ i < d
    BY <1>3, <2>19, <2>11
  <2> HIDE DEF q
  <2>13. \A x \in WordRuns(M) : x.from <= i /\ i < x.to => x = q
    BY <2>6, <2>7, <2>12, RunsAreDisjoint
  <2>14. WordAround(M, i) = q
    BY <2>6, <2>7, <2>12, <2>13 DEF WordAround
  <2>15. IsInterface(t, Slice(t, r))
    BY <1>10, SanctionedIsInterface DEF P
  <2> QED
    BY <2>8, <2>14, <2>15
<1> QED
  BY <1>9, <1>10

(***************************************************************************)
(* The specification                                                       *)
(***************************************************************************)

\* The inductive invariant: what is shown was rendered from the real file.
MirrorIsRendered ==
    stage = "shown" =>
        /\ realText \in Words /\ PolicyHolds
        /\ mirrorText = RenderText(realText, CollectProtected(realText))
        /\ spanMap = SpanMapOf(realText, CollectProtected(realText))

LEMMA MirrorIsPlaced ==
  ASSUME PolicyHolds, NEW t \in Seq(Chars), NEW P
  PROVE  /\ IsEdits(t, Replacements(t, P), Chars) /\ RenderText(t, P) \in Seq(Chars)
         /\ \E pl : /\ Places(t, Replacements(t, P), RenderText(t, P), pl)
                    /\ SpanMapOf(t, P) = SpansOf(t, Replacements(t, P), pl)
<1> DEFINE E == Replacements(t, P)
           M == RenderText(t, P)
<1>1. IsEdits(t, E, Chars)
  BY ReplacementsAreEdits
<1>2. M = Splice(t, E)
  BY DEF RenderText
<1>3. SpanMapOf(t, P) = SpanMapOf(t, P)
  OBVIOUS
<1> HIDE DEF M
<1>4. PICK pre : Trace(t, E, Chars, pre)
  BY <1>1, TraceExists
<1>5. SpanMapOf(t, P) = SpansOf(t, E, PlaceOf(t, pre))
  BY <1>4, SpanMapIsPlaced
<1> HIDE DEF E
<1>6. M = pre[Len(t)]
  BY <1>1, <1>2, <1>4, TraceSplices
<1>7. Places(t, E, M, PlaceOf(t, pre))
  BY <1>1, <1>4, <1>6, TracePlaces
<1>8. M \in Seq(Chars)
  <2>1. Len(t) \in Nat
    BY LenProperties
  <2> QED
    BY <1>4, <1>6, <2>1 DEF Trace
<1> QED
  BY <1>1, <1>5, <1>7, <1>8 DEF E, M

LEMMA RenderedIsSound ==
  MirrorIsRendered => MirrorIsSound
<1> SUFFICES ASSUME MirrorIsRendered, stage = "shown" PROVE MirrorIsSound
  BY DEF MirrorIsSound, LeaksOnlyStraddle, SpanMapIsExact
<1> DEFINE t == realText
           P == CollectProtected(t)
           E == Replacements(t, P)
           M == RenderText(t, P)
<1>1. PolicyHolds /\ t \in Seq(Chars) /\ mirrorText = M /\ spanMap = SpanMapOf(t, P)
  BY WordsAreChars DEF MirrorIsRendered
<1>2. IsEdits(t, E, Chars) /\ M \in Seq(Chars)
  BY <1>1, MirrorIsPlaced
<1>3. PICK pl : Places(t, E, M, pl) /\ SpanMapOf(t, P) = SpansOf(t, E, pl)
  BY <1>1, MirrorIsPlaced
<1>4. spanMap = SpansOf(t, E, pl)
  BY <1>1, <1>3
<1> HIDE DEF t, P, E, M
<1>5. SpanMapIsExact
  <2>1. \A s \in SpansOf(t, E, pl) : s.to <= Len(M) + 1 /\ Slice(M, s) = s.text
    BY <1>1, <1>2, <1>3, SpansHold
  <2>2. ReverseRegion(SpansOf(t, E, pl), M, Whole(M)) = t
    BY <1>1, <1>2, <1>3, SpansLeadBack
  <2> QED
    BY <1>1, <1>4, <2>1, <2>2 DEF SpanMapIsExact, t
<1>6. LeaksOnlyStraddle
  <2> SUFFICES ASSUME NEW i \in DOMAIN mirrorText, NEW j \in (i + 1)..(Len(mirrorText) + 1),
                      NEW term \in TermTable, Residue(i, j, term)
               PROVE  Crowded(t, term)
    BY DEF LeaksOnlyStraddle, t
  <2>1. Len(M) \in Nat /\ DOMAIN M = 1..Len(M)
    BY <1>2, LenProperties
  <2>2. i \in Nat /\ j \in Nat /\ 1 <= i /\ i < j /\ j <= Len(M) + 1
    BY <1>1, <2>1
  <2>3. /\ Spells(M, i, j, term) /\ ~IsInterface(t, Slice(M, WordAround(M, i)))
        /\ ~\E s \in SpansOf(t, E, pl) : s.from < j /\ i < s.to
    BY <1>1, <1>4 DEF Residue, t
  <2>4. ~Touched(E, pl, i, j)
    <3> SUFFICES ASSUME NEW e \in E, pl[e.from - 1] + 1 < j, i < pl[e.from - 1] + 1 + Len(e.new)
                 PROVE  FALSE
      BY DEF Touched
    <3> DEFINE c == pl[e.from - 1] + 1
               d == pl[e.from - 1] + 1 + Len(e.new)
               s == [text |-> e.new, original |-> Slice(t, e), source |-> e.from,
                     from |-> c, to |-> d]
    <3>1. s \in SpansOf(t, E, pl)
      BY DEF SpansOf
    <3>2. c < j /\ i < d
      OBVIOUS
    <3> HIDE DEF c, d
    <3>3. s.from = c /\ s.to = d
      OBVIOUS
    <3> QED
      BY <2>3, <3>1, <3>2, <3>3
  <2> QED
    BY <1>1, <1>2, <1>3, <2>2, <2>3, <2>4, MirrorHides DEF E, P
<1> QED
  BY <1>5, <1>6 DEF MirrorIsSound

\* For every real file, every policy the configuration checks admit and every
\* edit: no term is left in a mirror but in words of the language and of the
\* program's interface, next to an alias, or where it overlaps itself in the
\* real file; each span holds its text, and putting the originals back gives
\* the real file, character by character.
THEOREM MirrorSound == ProjectionSpec => []MirrorIsSound
<1>1. ProjectionInit => MirrorIsRendered
  BY DEF ProjectionInit, MirrorIsRendered
<1>2. MirrorIsRendered /\ [ProjectionNext]_projectionVars => MirrorIsRendered'
  <2> SUFFICES ASSUME MirrorIsRendered, [ProjectionNext]_projectionVars PROVE MirrorIsRendered'
    OBVIOUS
  <2>1. ASSUME NEW t \in RealTexts, Show(t) PROVE MirrorIsRendered'
    <3>1. t \in Words
      BY ProjectionAssumption
    <3>2. PolicyHolds /\ realText' = t /\ mirrorText' = RenderText(t, CollectProtected(t))
          /\ spanMap' = SpanMapOf(t, CollectProtected(t))
      BY <2>1 DEF Show
    <3> QED
      BY <3>1, <3>2 DEF MirrorIsRendered
  <2>2. ASSUME NEW edits, SubmitPatch(edits) PROVE MirrorIsRendered'
    BY <2>2 DEF SubmitPatch, Planned, MirrorIsRendered
  <2>3. ASSUME NEW edits, SubmitCreate(edits) PROVE MirrorIsRendered'
    BY <2>3 DEF SubmitCreate, Planned, MirrorIsRendered
  <2>4. ASSUME NEW edits, SubmitDelete(edits) PROVE MirrorIsRendered'
    BY <2>4 DEF SubmitDelete, Planned, MirrorIsRendered
  <2>5. CASE ProjectionRest \/ UNCHANGED projectionVars
    BY <2>5 DEF ProjectionRest, projectionVars, MirrorIsRendered
  <2> QED
    BY <2>1, <2>2, <2>3, <2>4, <2>5 DEF ProjectionNext
<1> QED
  BY <1>1, <1>2, RenderedIsSound, PTL DEF ProjectionSpec
====
