----------------------------- MODULE PatchProofs -----------------------------
(***************************************************************************)
(* BackProjection for every text and every list of edits: a patch means    *)
(* the edit it was made from, and what becomes of it in the real file      *)
(* leaves the other lines alone.                                           *)
(*                                                                         *)
(* Texts are split, patches printed, read and applied by folds.  A fold    *)
(* passes through a sequence of states (Walks), so that what it makes is   *)
(* proved by induction over that sequence; Step gives the steps of all the *)
(* folds one name, and GrowsCat, ParsesAppend and their like say how a fold *)
(* goes on.  Then: the lines of a text are the text again (LinesSplit); a  *)
(* hunk makes of the file what its edit means (HunkApplies); the reader    *)
(* makes of a printed hunk the hunk (HunkRead); a new file is the lines its *)
(* edits add (CreatedLines).                                               *)
(*                                                                         *)
(* For the other lines: translation takes lines without an end of line to  *)
(* such lines (LineTranslated); a hunk it makes that applies to the real   *)
(* file is the hunk of an edit of that file, in the same place (HunkRecut, *)
(* PatchTranslated); and such edits move the lines behind them by what     *)
(* they add (EditsKeepLines).                                              *)
(***************************************************************************)
EXTENDS BackProjectionProofs

(***************************************************************************)
(* Folds                                                                   *)
(***************************************************************************)

\* The steps of the walks, under one name.
Step(op, old, s, x) ==
    CASE op = "parse" -> ParseStep(s, x)
      [] op = "grow" -> LineGrows(s, x)
      [] op = "print" -> RenderLine(s, x)
      [] op = "render" -> RenderHunk(s, x)
      [] op = "line" -> ApplyLine(old, s, x)
      [] op = "hunk" -> ApplyHunk(old, s, x)
      [] op = "count" -> s + Len(x.added) - x.gone
      [] op = "translate" ->
           TranslateLine(old.mirror, old.patched, old.spans, old.table, old.protected, s, x)
      [] OTHER -> Rewrite(old, s, x)

Folds(g, op, old, s, P, n) ==
    g = [x \in SUBSET (1..n) |-> IF x = {} THEN s ELSE Step(op, old, g[x \ {Max(x)}], P[Max(x)])]

LEMMA MaxOfLast ==
  ASSUME NEW m \in Nat, NEW x \in SUBSET (1..m), m \in x
  PROVE  Max(x) = m
<1>1. \A y \in x : m >= y
  OBVIOUS
<1>2. \A k \in x : (\A y \in x : k >= y) => k = m
  OBVIOUS
<1> QED
  BY <1>1, <1>2 DEF Max

LEMMA LessOne ==
  ASSUME NEW m \in Nat, NEW x \in SUBSET (1..m), NEW z
  PROVE  /\ x \ {z} \in SUBSET (1..m) /\ m + 1 \notin x \ {z}
         /\ x \ {z} \in SUBSET (1..(m + 1))
<1>1. m + 1 \notin 1..m /\ 1..m \subseteq 1..(m + 1)
  OBVIOUS
<1> DEFINE R == 1..m
           T == 1..(m + 1)
           b == m + 1
<1>2. b \notin R /\ R \subseteq T /\ x \subseteq R
  BY <1>1
<1> HIDE DEF R, T, b
<1> QED
  BY <1>2 DEF R, T, b

LEMMA FoldExists ==
  ASSUME NEW op, NEW old, NEW s, NEW P, NEW n \in Nat
  PROVE  \E g : Folds(g, op, old, s, P, n)
<1> DEFINE S == {m \in Nat : \E g : Folds(g, op, old, s, P, m)}
<1>1. 0 \in S
  <2> DEFINE g == [x \in SUBSET (1..0) |-> s]
  <2>1. \A x \in SUBSET (1..0) : x = {}
    OBVIOUS
  <2>2. Folds(g, op, old, s, P, 0)
    BY <2>1 DEF Folds
  <2> HIDE DEF g
  <2> QED
    BY <2>2
<1>2. ASSUME NEW m \in Nat, m \in S PROVE m + 1 \in S
  <2>1. PICK g : Folds(g, op, old, s, P, m)
    BY <1>2
  <2> DEFINE more == [x \in SUBSET (1..(m + 1)) |->
                         IF m + 1 \in x THEN Step(op, old, g[x \ {m + 1}], P[m + 1]) ELSE g[x]]
  <2>2. ASSUME NEW x \in SUBSET (1..(m + 1))
        PROVE  more[x] = IF x = {} THEN s ELSE Step(op, old, more[x \ {Max(x)}], P[Max(x)])
    <3>1. CASE m + 1 \in x
      <4>1. Max(x) = m + 1
        BY <3>1, MaxOfLast
      <4>2. x \ {m + 1} \in SUBSET (1..(m + 1)) /\ m + 1 \notin x \ {m + 1}
        OBVIOUS
      <4>3. more[x \ {m + 1}] = g[x \ {m + 1}]
        BY <4>2
      <4>4. more[x] = Step(op, old, g[x \ {m + 1}], P[m + 1])
        BY <3>1
      <4> HIDE DEF more
      <4> QED
        BY <3>1, <4>1, <4>3, <4>4
    <3>2. CASE m + 1 \notin x
      <4>1. x \in SUBSET (1..m)
        BY <3>2
      <4> DEFINE z == Max(x)
                 y == x \ {z}
      <4> HIDE DEF z
      <4>2. y \in SUBSET (1..m) /\ m + 1 \notin y /\ y \in SUBSET (1..(m + 1))
        BY <4>1, LessOne
      <4> HIDE DEF y
      <4>3. more[x] = g[x] /\ more[y] = g[y]
        BY <3>2, <4>2
      <4> HIDE DEF more
      <4>4. g[x] = IF x = {} THEN s ELSE Step(op, old, g[y], P[Max(x)])
        BY <2>1, <4>1 DEF Folds, y, z
      <4> QED
        BY <4>3, <4>4 DEF y, z
    <3> QED
      BY <3>1, <3>2
  <2>3. Folds(more, op, old, s, P, m + 1)
    BY <2>2 DEF Folds
  <2> HIDE DEF more
  <2> QED
    BY <2>3
<1> HIDE DEF S
<1>3. n \in S
  BY <1>1, <1>2, NatInd
<1> QED
  BY <1>3 DEF S

LEMMA UpTo ==
  ASSUME NEW n \in Nat, NEW k \in 1..n
  PROVE  /\ 1..k \in SUBSET (1..n) /\ 1..k # {} /\ (1..k) \ {k} = 1..(k - 1)
         /\ k \in Nat /\ 1..k \in SUBSET (1..k) /\ k \in 1..k
OBVIOUS

\* The states of a walk, one after the other.
Walks(tr, op, old, s, P, n) ==
    tr[0] = s /\ \A k \in 1..n : tr[k] = Step(op, old, tr[k - 1], P[k])

LEMMA FoldWalks ==
  ASSUME NEW op, NEW old, NEW s, NEW P, NEW n \in Nat, NEW g, Folds(g, op, old, s, P, n)
  PROVE  \E tr : Walks(tr, op, old, s, P, n) /\ tr[n] = g[1..n]
<1> DEFINE tr == [k \in 0..n |-> g[1..k]]
<1>1. tr[0] = s
  <2>1. 1..0 = {} /\ 1..0 \in SUBSET (1..n)
    OBVIOUS
  <2>2. g[1..0] = s
    BY <2>1 DEF Folds
  <2> QED
    BY <2>2
<1>2. ASSUME NEW k \in 1..n PROVE tr[k] = Step(op, old, tr[k - 1], P[k])
  <2>1. /\ 1..k \in SUBSET (1..n) /\ 1..k # {} /\ (1..k) \ {k} = 1..(k - 1)
        /\ k \in Nat /\ 1..k \in SUBSET (1..k) /\ k \in 1..k
    BY UpTo
  <2>2. Max(1..k) = k
    BY <2>1, MaxOfLast
  <2>3. g[1..k] = Step(op, old, g[1..(k - 1)], P[k])
    BY <2>1, <2>2 DEF Folds
  <2>4. k \in 0..n /\ k - 1 \in 0..n
    OBVIOUS
  <2> QED
    BY <2>3, <2>4
<1>3. tr[n] = g[1..n]
  OBVIOUS
<1> HIDE DEF tr
<1> QED
  BY <1>1, <1>2, <1>3 DEF Walks

Parsed(s, P) == FoldLeft(ParseStep, s, P)
Grows(s, P) == FoldLeft(LineGrows, s, P)
Prints(s, P) == FoldLeft(RenderLine, s, P)
Renders(s, P) == FoldLeft(RenderHunk, s, P)

NoEdits == [out |-> <<>>, at |-> 0]

\* Each fold passes through a sequence of states.
LEMMA ParseWalks ==
  ASSUME NEW s, NEW P, NEW n \in Nat, DOMAIN P = 1..n
  PROVE  \E tr : Walks(tr, "parse", <<>>, s, P, n) /\ Parsed(s, P) = tr[n]
<1> DEFINE G(g) == g = [x \in SUBSET (1..n) |->
                          IF x = {} THEN s ELSE ParseStep(g[x \ {Max(x)}], P[Max(x)])]
<1>1. \A g : Folds(g, "parse", <<>>, s, P, n) <=> G(g)
  BY DEF Folds, Step
<1>2. \E g : G(g)
  <2> HIDE DEF G
  <2> QED
    BY <1>1, FoldExists
<1>3. \E g : G(g) /\ Parsed(s, P) = g[1..n]
  BY ONLY <1>2, DOMAIN P = 1..n, Zenon DEF Parsed, FoldLeft, MapThenFoldSet
<1> HIDE DEF G
<1>4. PICK g : Folds(g, "parse", <<>>, s, P, n) /\ Parsed(s, P) = g[1..n]
  BY <1>1, <1>3
<1>5. PICK tr : Walks(tr, "parse", <<>>, s, P, n) /\ tr[n] = g[1..n]
  BY <1>4, FoldWalks
<1> QED
  BY <1>4, <1>5

LEMMA GrowWalks ==
  ASSUME NEW s, NEW P, NEW n \in Nat, DOMAIN P = 1..n
  PROVE  \E tr : Walks(tr, "grow", <<>>, s, P, n) /\ Grows(s, P) = tr[n]
<1> DEFINE G(g) == g = [x \in SUBSET (1..n) |->
                          IF x = {} THEN s ELSE LineGrows(g[x \ {Max(x)}], P[Max(x)])]
<1>1. \A g : Folds(g, "grow", <<>>, s, P, n) <=> G(g)
  BY DEF Folds, Step
<1>2. \E g : G(g)
  <2> HIDE DEF G
  <2> QED
    BY <1>1, FoldExists
<1>3. \E g : G(g) /\ Grows(s, P) = g[1..n]
  BY ONLY <1>2, DOMAIN P = 1..n, Zenon DEF Grows, FoldLeft, MapThenFoldSet
<1> HIDE DEF G
<1>4. PICK g : Folds(g, "grow", <<>>, s, P, n) /\ Grows(s, P) = g[1..n]
  BY <1>1, <1>3
<1>5. PICK tr : Walks(tr, "grow", <<>>, s, P, n) /\ tr[n] = g[1..n]
  BY <1>4, FoldWalks
<1> QED
  BY <1>4, <1>5

LEMMA PrintWalks ==
  ASSUME NEW s, NEW P, NEW n \in Nat, DOMAIN P = 1..n
  PROVE  \E tr : Walks(tr, "print", <<>>, s, P, n) /\ Prints(s, P) = tr[n]
<1> DEFINE G(g) == g = [x \in SUBSET (1..n) |->
                          IF x = {} THEN s ELSE RenderLine(g[x \ {Max(x)}], P[Max(x)])]
<1>1. \A g : Folds(g, "print", <<>>, s, P, n) <=> G(g)
  BY DEF Folds, Step
<1>2. \E g : G(g)
  <2> HIDE DEF G
  <2> QED
    BY <1>1, FoldExists
<1>3. \E g : G(g) /\ Prints(s, P) = g[1..n]
  BY ONLY <1>2, DOMAIN P = 1..n, Zenon DEF Prints, FoldLeft, MapThenFoldSet
<1> HIDE DEF G
<1>4. PICK g : Folds(g, "print", <<>>, s, P, n) /\ Prints(s, P) = g[1..n]
  BY <1>1, <1>3
<1>5. PICK tr : Walks(tr, "print", <<>>, s, P, n) /\ tr[n] = g[1..n]
  BY <1>4, FoldWalks
<1> QED
  BY <1>4, <1>5

LEMMA RenderWalks ==
  ASSUME NEW s, NEW P, NEW n \in Nat, DOMAIN P = 1..n
  PROVE  \E tr : Walks(tr, "render", <<>>, s, P, n) /\ Renders(s, P) = tr[n]
<1> DEFINE G(g) == g = [x \in SUBSET (1..n) |->
                          IF x = {} THEN s ELSE RenderHunk(g[x \ {Max(x)}], P[Max(x)])]
<1>1. \A g : Folds(g, "render", <<>>, s, P, n) <=> G(g)
  BY DEF Folds, Step
<1>2. \E g : G(g)
  <2> HIDE DEF G
  <2> QED
    BY <1>1, FoldExists
<1>3. \E g : G(g) /\ Renders(s, P) = g[1..n]
  BY ONLY <1>2, DOMAIN P = 1..n, Zenon DEF Renders, FoldLeft, MapThenFoldSet
<1> HIDE DEF G
<1>4. PICK g : Folds(g, "render", <<>>, s, P, n) /\ Renders(s, P) = g[1..n]
  BY <1>1, <1>3
<1>5. PICK tr : Walks(tr, "render", <<>>, s, P, n) /\ tr[n] = g[1..n]
  BY <1>4, FoldWalks
<1> QED
  BY <1>4, <1>5

LEMMA LineWalks ==
  ASSUME NEW old, NEW s, NEW P, NEW n \in Nat, DOMAIN P = 1..n
  PROVE  \E tr : Walks(tr, "line", old, s, P, n) /\ ApplyLines(old, s, P) = tr[n]
<1> DEFINE G(g) == g = [x \in SUBSET (1..n) |->
                          IF x = {} THEN s ELSE ApplyLine(old, g[x \ {Max(x)}], P[Max(x)])]
<1>1. \A g : Folds(g, "line", old, s, P, n) <=> G(g)
  BY DEF Folds, Step
<1>2. \E g : G(g)
  <2> HIDE DEF G
  <2> QED
    BY <1>1, FoldExists
<1>3. \E g : G(g) /\ ApplyLines(old, s, P) = g[1..n]
  BY ONLY <1>2, DOMAIN P = 1..n, Zenon DEF ApplyLines, FoldLeft, MapThenFoldSet
<1> HIDE DEF G
<1>4. PICK g : Folds(g, "line", old, s, P, n) /\ ApplyLines(old, s, P) = g[1..n]
  BY <1>1, <1>3
<1>5. PICK tr : Walks(tr, "line", old, s, P, n) /\ tr[n] = g[1..n]
  BY <1>4, FoldWalks
<1> QED
  BY <1>4, <1>5

LEMMA HunkWalks ==
  ASSUME NEW old, NEW P, NEW n \in Nat, DOMAIN P = 1..n
  PROVE  \E tr : Walks(tr, "hunk", old, Untouched, P, n) /\ ApplyHunks(old, P) = tr[n]
<1> DEFINE G(g) == g = [x \in SUBSET (1..n) |->
                          IF x = {} THEN Untouched ELSE ApplyHunk(old, g[x \ {Max(x)}], P[Max(x)])]
<1>1. \A g : Folds(g, "hunk", old, Untouched, P, n) <=> G(g)
  BY DEF Folds, Step
<1>2. \E g : G(g)
  <2> HIDE DEF G
  <2> QED
    BY <1>1, FoldExists
<1>3. \E g : G(g) /\ ApplyHunks(old, P) = g[1..n]
  BY ONLY <1>2, DOMAIN P = 1..n, Zenon DEF ApplyHunks, FoldLeft, MapThenFoldSet
<1> HIDE DEF G
<1>4. PICK g : Folds(g, "hunk", old, Untouched, P, n) /\ ApplyHunks(old, P) = g[1..n]
  BY <1>1, <1>3
<1>5. PICK tr : Walks(tr, "hunk", old, Untouched, P, n) /\ tr[n] = g[1..n]
  BY <1>4, FoldWalks
<1> QED
  BY <1>4, <1>5

LEMMA EditWalks ==
  ASSUME NEW old, NEW P, NEW n \in Nat, DOMAIN P = 1..n
  PROVE  \E tr : Walks(tr, "edit", old, NoEdits, P, n) /\ Rewrites(old, P) = tr[n]
<1> DEFINE G(g) == g = [x \in SUBSET (1..n) |->
                          IF x = {} THEN NoEdits ELSE Rewrite(old, g[x \ {Max(x)}], P[Max(x)])]
<1>1. \A g : Folds(g, "edit", old, NoEdits, P, n) <=> G(g)
  BY DEF Folds, Step
<1>2. \E g : G(g)
  <2> HIDE DEF G
  <2> QED
    BY <1>1, FoldExists
<1>3. \E g : G(g) /\ Rewrites(old, P) = g[1..n]
  BY ONLY <1>2, DOMAIN P = 1..n, Zenon DEF Rewrites, NoEdits, FoldLeft, MapThenFoldSet
<1> HIDE DEF G
<1>4. PICK g : Folds(g, "edit", old, NoEdits, P, n) /\ Rewrites(old, P) = g[1..n]
  BY <1>1, <1>3
<1>5. PICK tr : Walks(tr, "edit", old, NoEdits, P, n) /\ tr[n] = g[1..n]
  BY <1>4, FoldWalks
<1> QED
  BY <1>4, <1>5

(***************************************************************************)
(* Folds of longer lists                                                   *)
(***************************************************************************)

LEMMA PartFirst ==
  ASSUME NEW A, NEW t \in Seq(A), NEW n \in Nat, n <= Len(t)
  PROVE  /\ Part(t, 1, n) \in Seq(A) /\ Len(Part(t, 1, n)) = n
         /\ \A i \in 1..n : Part(t, 1, n)[i] = t[i]
<1> DEFINE p == Part(t, 1, n)
<1>1. 1 \in Nat /\ 1 <= 1 /\ 1 <= n + 1 /\ n - 1 + 1 = n
  OBVIOUS
<1>2. p \in Seq(A) /\ Len(p) = n - 1 + 1
  BY <1>1, PartSeq
<1>3. \A i \in 1..(n - 1 + 1) : p[i] = t[1 + i - 1]
  BY <1>1, PartSeq
<1> HIDE DEF p
<1>4. \A i \in 1..n : p[i] = t[i]
  <2> TAKE i \in 1..n
  <2>1. 1 + i - 1 = i /\ i \in 1..(n - 1 + 1)
    OBVIOUS
  <2> QED
    BY <1>3, <2>1
<1> QED
  BY <1>1, <1>2, <1>4 DEF p

LEMMA AppendSeq ==
  ASSUME NEW A, NEW s \in Seq(A), NEW x \in A
  PROVE  /\ Append(s, x) \in Seq(A) /\ Len(Append(s, x)) = Len(s) + 1 /\ Len(s) \in Nat
         /\ \A i \in 1..Len(s) : Append(s, x)[i] = s[i]
         /\ Append(s, x)[Len(s) + 1] = x
BY AppendProperties, LenProperties

\* One more element.
LEMMA PartGrows ==
  ASSUME NEW A, NEW t \in Seq(A), NEW n \in Nat, n + 1 <= Len(t)
  PROVE  Part(t, 1, n + 1) = Append(Part(t, 1, n), t[n + 1])
<1> DEFINE p == Part(t, 1, n)
           q == Part(t, 1, n + 1)
           x == t[n + 1]
           a == Append(p, x)
<1>1. Len(t) \in Nat /\ x \in A /\ n <= Len(t) /\ n + 1 \in Nat
  <2>1. Len(t) \in Nat
    BY LenProperties
  <2>2. n + 1 \in 1..Len(t)
    BY <2>1
  <2> QED
    BY <2>1, <2>2, ElementOfSeq
<1>2. p \in Seq(A) /\ Len(p) = n
  BY <1>1, PartFirst
<1>3. \A i \in 1..n : p[i] = t[i]
  BY <1>1, PartFirst
<1>4. q \in Seq(A) /\ Len(q) = n + 1
  BY <1>1, PartFirst
<1>5. \A i \in 1..(n + 1) : q[i] = t[i]
  BY <1>1, PartFirst
<1> HIDE DEF p, q
<1>6. a \in Seq(A) /\ Len(a) = n + 1 /\ a[n + 1] = x /\ \A i \in 1..n : a[i] = p[i]
  <2> HIDE DEF x
  <2> QED
    BY <1>1, <1>2, AppendSeq
<1> HIDE DEF a
<1>7. \A i \in 1..(n + 1) : q[i] = a[i]
  <2> TAKE i \in 1..(n + 1)
  <2>1. CASE i = n + 1
    BY <1>5, <1>6, <2>1
  <2>2. CASE i # n + 1
    <3>1. i \in 1..n
      BY <2>2
    <3> QED
      BY <1>3, <1>5, <1>6, <3>1
  <2> QED
    BY <2>1, <2>2
<1>8. q = a
  BY <1>4, <1>6, <1>7, SeqEqual
<1> QED
  BY <1>8 DEF p, q, a

\* Two walks that go the same way are one, and one after the other is a walk.
Follows(Q, l, P, m, n) == n = m + l /\ \A i \in 1..l : Q[i] = P[m + i]

LEMMA WalksAgree ==
  ASSUME NEW op, NEW old, NEW s, NEW P, NEW Q, NEW n \in Nat, NEW m \in Nat, NEW l \in Nat,
         NEW tr, NEW up, Walks(tr, op, old, s, P, n), Walks(up, op, old, tr[m], Q, l),
         Follows(Q, l, P, m, n)
  PROVE  tr[n] = up[l]
<1>0. n = m + l
  BY DEF Follows
<1> DEFINE S == {k \in Nat : k <= l => tr[m + k] = up[k]}
<1>1. 0 \in S
  BY DEF Walks
<1>2. ASSUME NEW k \in Nat, k \in S PROVE k + 1 \in S
  <2> SUFFICES ASSUME k + 1 <= l PROVE tr[m + (k + 1)] = up[k + 1]
    OBVIOUS
  <2>1. /\ k + 1 \in 1..l /\ k <= l /\ m + (k + 1) \in 1..n
        /\ m + (k + 1) - 1 = m + k /\ k + 1 - 1 = k
    BY <1>0
  <2>2. tr[m + k] = up[k] /\ Q[k + 1] = P[m + (k + 1)]
    BY <1>2, <2>1 DEF Follows
  <2>3. up[k + 1] = Step(op, old, up[k + 1 - 1], Q[k + 1])
    BY <2>1 DEF Walks
  <2>4. tr[m + (k + 1)] = Step(op, old, tr[m + (k + 1) - 1], P[m + (k + 1)])
    BY <2>1 DEF Walks
  <2> QED
    BY <2>1, <2>2, <2>3, <2>4
<1> HIDE DEF S
<1>3. l \in S
  BY <1>1, <1>2, NatInd
<1> QED
  BY <1>0, <1>3 DEF S

LEMMA WalksSame ==
  ASSUME NEW op, NEW old, NEW s, NEW P, NEW Q, NEW n \in Nat, NEW k \in Nat, n <= k,
         NEW tr, NEW up, Walks(tr, op, old, s, P, k), Walks(up, op, old, s, Q, n),
         \A i \in 1..n : P[i] = Q[i]
  PROVE  tr[n] = up[n]
<1> DEFINE z == 0
<1>1. Walks(tr, op, old, s, P, n) /\ tr[z] = s
  <2>1. 1..n \subseteq 1..k
    OBVIOUS
  <2> QED
    BY <2>1 DEF Walks
<1>2. Follows(Q, n, P, z, n) /\ z \in Nat
  BY DEF Follows
<1> HIDE DEF z
<1>3. Walks(up, op, old, tr[z], Q, n)
  BY <1>1
<1> QED
  BY <1>1, <1>2, <1>3, WalksAgree

LEMMA GrowWalked ==
  ASSUME NEW A, NEW s, NEW P \in Seq(A), NEW n, n = Len(P)
  PROVE  \E tr : Walks(tr, "grow", <<>>, s, P, n) /\ Grows(s, P) = tr[n]
<1>1. n \in Nat /\ DOMAIN P = 1..n
  BY LenProperties
<1> QED
  BY <1>1, GrowWalks

LEMMA ParseWalked ==
  ASSUME NEW A, NEW s, NEW P \in Seq(A), NEW n, n = Len(P)
  PROVE  \E tr : Walks(tr, "parse", <<>>, s, P, n) /\ Parsed(s, P) = tr[n]
<1>1. n \in Nat /\ DOMAIN P = 1..n
  BY LenProperties
<1> QED
  BY <1>1, ParseWalks

LEMMA GrowsCat ==
  ASSUME NEW A, NEW s, NEW P \in Seq(A), NEW Q \in Seq(A)
  PROVE  Grows(s, Cat(P, Q)) = Grows(Grows(s, P), Q)
<1> DEFINE n == Len(P)
           m == Len(Q)
           R == Cat(P, Q)
           t == Grows(s, P)
           k == n + m
<1>1. n \in Nat /\ m \in Nat /\ n = Len(P) /\ m = Len(Q)
  BY LenProperties
<1>2. R \in Seq(A) /\ k = Len(R)
  BY CatSeq
<1>3. \A i \in 1..n : R[i] = P[i]
  BY CatSeq
<1>4. \A i \in 1..m : R[n + i] = Q[i]
  BY CatSeq
<1> HIDE DEF n, m, R, t
<1>5. k \in Nat /\ n <= k /\ k = n + m
  BY <1>1
<1> HIDE DEF k
<1>6. PICK ta : Walks(ta, "grow", <<>>, s, P, n) /\ Grows(s, P) = ta[n]
  BY <1>1, GrowWalked
<1>7. PICK tb : Walks(tb, "grow", <<>>, t, Q, m) /\ Grows(t, Q) = tb[m]
  BY <1>1, GrowWalked
<1>8. PICK tc : Walks(tc, "grow", <<>>, s, R, k) /\ Grows(s, R) = tc[k]
  BY <1>2, GrowWalked
<1>9. tc[n] = t
  BY <1>1, <1>3, <1>5, <1>6, <1>8, WalksSame DEF t
<1>10. Walks(tb, "grow", <<>>, tc[n], Q, m) /\ Follows(Q, m, R, n, k)
  BY <1>4, <1>5, <1>7, <1>9 DEF Follows
<1>11. n \in Nat /\ m \in Nat /\ k \in Nat
  BY <1>1, <1>5
<1>12. tc[k] = tb[m]
  BY <1>8, <1>10, <1>11, WalksAgree
<1> QED
  BY <1>7, <1>8, <1>12 DEF t, R

LEMMA ParsesAppend ==
  ASSUME NEW A, NEW s, NEW P \in Seq(A), NEW x \in A
  PROVE  Parsed(s, Append(P, x)) = ParseStep(Parsed(s, P), x)
<1> DEFINE n == Len(P)
           R == Append(P, x)
           k == n + 1
<1>1. n \in Nat /\ R \in Seq(A) /\ k = Len(R) /\ R[k] = x /\ n = Len(P)
  BY AppendSeq, LenProperties
<1>2. \A i \in 1..n : R[i] = P[i]
  BY AppendSeq
<1> HIDE DEF n, R
<1>3. k \in Nat /\ k - 1 = n /\ k \in 1..k /\ n <= k
  BY <1>1
<1> HIDE DEF k
<1>4. PICK ta : Walks(ta, "parse", <<>>, s, P, n) /\ Parsed(s, P) = ta[n]
  BY <1>1, ParseWalked
<1>5. PICK tr : Walks(tr, "parse", <<>>, s, R, k) /\ Parsed(s, R) = tr[k]
  BY <1>1, ParseWalked
<1>6. tr[n] = ta[n]
  BY <1>1, <1>2, <1>3, <1>4, <1>5, WalksSame
<1>7. tr[k] = Step("parse", <<>>, tr[k - 1], R[k])
  BY <1>3, <1>5 DEF Walks
<1>8. \A a, y : Step("parse", <<>>, a, y) = ParseStep(a, y)
  BY DEF Step
<1> QED
  BY <1>1, <1>3, <1>4, <1>5, <1>6, <1>7, <1>8 DEF R

(***************************************************************************)
(* Splitting a text into lines                                             *)
(***************************************************************************)

Letters == Chars \cup {Newline}
LineSet == {p \in Seq(Letters) : p # <<>> /\ \A i \in 1..(Len(p) - 1) : p[i] # Newline}
AreLines(R) == R \in Seq(LineSet) /\ \A k \in 1..(Len(R) - 1) : HasEnding(R[k])

LEMMA LineFacts ==
  ASSUME NEW p \in LineSet
  PROVE  /\ p \in Seq(Letters) /\ Len(p) \in Nat \ {0}
         /\ \A i \in 1..(Len(p) - 1) : p[i] # Newline
         /\ HasEnding(p) <=> p[Len(p)] = Newline
<1>1. p \in Seq(Letters) /\ p # <<>> /\ \A i \in 1..(Len(p) - 1) : p[i] # Newline
  BY DEF LineSet
<1>2. Len(p) \in Nat \ {0}
  BY <1>1, LenProperties, EmptySeq
<1>3. HasEnding(p) <=> p[Len(p)] = Newline
  BY <1>1 DEF HasEnding, Last
<1> QED
  BY <1>1, <1>2, <1>3

LEMMA OpenFacts ==
  ASSUME NEW V, NEW R \in Seq(V)
  PROVE  /\ IsOpen(R) <=> Len(R) # 0 /\ ~HasEnding(R[Len(R)])
         /\ Len(R) \in Nat /\ (Len(R) # 0 => R[Len(R)] \in V)
<1>1. Len(R) \in Nat /\ (R # <<>> <=> Len(R) # 0)
  BY LenProperties, EmptySeq
<1>2. Len(R) # 0 => R[Len(R)] \in V
  <2> SUFFICES ASSUME Len(R) # 0 PROVE R[Len(R)] \in V
    OBVIOUS
  <2>1. Len(R) \in 1..Len(R)
    BY <1>1
  <2> QED
    BY <2>1, ElementOfSeq
<1> QED
  BY <1>1, <1>2 DEF IsOpen, Last

LEMMA Extends ==
  ASSUME NEW V, NEW R \in Seq(V), Len(R) # 0, NEW c, Append(R[Len(R)], c) \in V
  PROVE  /\ Extended(R, c) \in Seq(V) /\ Len(Extended(R, c)) = Len(R)
         /\ \A i \in 1..(Len(R) - 1) : Extended(R, c)[i] = R[i]
         /\ Extended(R, c)[Len(R)] = Append(R[Len(R)], c)
<1> DEFINE n == Len(R)
           x == Append(R[n], c)
           E == Extended(R, c)
<1>1. n \in Nat /\ R \in [1..n -> V] /\ n \in 1..n /\ x \in V
  BY LenProperties
<1> HIDE DEF x
<1>2. E = [R EXCEPT ![n] = x]
  BY DEF Extended, x
<1> HIDE DEF n, E
<1>3. E \in [1..n -> V] /\ E[n] = x /\ \A i \in 1..(n - 1) : E[i] = R[i]
  BY <1>1, <1>2
<1>4. E \in Seq(V) /\ Len(E) = n
  BY <1>1, <1>3
<1> QED
  BY <1>3, <1>4 DEF E, n, x

LEMMA ExtendsRest ==
  ASSUME NEW V, NEW R \in Seq(V), Len(R) # 0, NEW c, Append(R[Len(R)], c) \in V,
         NEW i \in 1..(Len(R) - 1)
  PROVE  Extended(R, c)[i] = R[i]
BY Extends

\* A line that has not ended goes on.
LEMMA LineGoesOn ==
  ASSUME NEW p \in LineSet, ~HasEnding(p), NEW c \in Letters
  PROVE  Append(p, c) \in LineSet
<1> DEFINE q == Append(p, c)
           n == Len(p)
<1>1. /\ q \in Seq(Letters) /\ Len(q) = n + 1 /\ n \in Nat /\ \A i \in 1..n : q[i] = p[i]
  BY LineFacts, AppendSeq
<1>2. \A i \in 1..n : p[i] # Newline
  <2> TAKE i \in 1..n
  <2>1. CASE i = n
    BY <2>1, LineFacts
  <2>2. CASE i # n
    <3>1. i \in 1..(n - 1)
      BY <1>1, <2>2
    <3> QED
      BY <3>1, LineFacts
  <2> QED
    BY <2>1, <2>2
<1> HIDE DEF q, n
<1>3. q # <<>> /\ Len(q) - 1 = n
  BY <1>1, EmptySeq
<1>4. \A i \in 1..(Len(q) - 1) : q[i] # Newline
  BY <1>1, <1>2, <1>3
<1>5. q \in LineSet
  BY <1>1, <1>3, <1>4 DEF LineSet
<1> QED
  BY <1>5 DEF q

LEMMA OneLetter ==
  ASSUME NEW c \in Letters
  PROVE  <<c>> \in LineSet
BY DEF LineSet

\* One more line, after lines that have ended.
LEMMA OneMoreLine ==
  ASSUME NEW R, AreLines(R), ~IsOpen(R), NEW p \in LineSet
  PROVE  AreLines(Append(R, p))
<1> DEFINE n == Len(R)
           Q == Append(R, p)
<1>1. R \in Seq(LineSet) /\ \A k \in 1..(n - 1) : HasEnding(R[k])
  BY DEF AreLines
<1>2. n \in Nat /\ Q \in Seq(LineSet) /\ Len(Q) = n + 1 /\ \A k \in 1..n : Q[k] = R[k]
  BY <1>1, AppendSeq
<1>3. n # 0 => HasEnding(R[n])
  BY <1>1, OpenFacts
<1> HIDE DEF n, Q
<1>4. \A k \in 1..n : HasEnding(Q[k])
  <2> TAKE k \in 1..n
  <2>1. CASE k = n
    BY <1>2, <1>3, <2>1
  <2>2. CASE k # n
    <3>1. k \in 1..(n - 1)
      BY <1>2, <2>2
    <3> QED
      BY <1>1, <1>2, <3>1
  <2> QED
    BY <2>1, <2>2
<1>5. n + 1 - 1 = n
  BY <1>2
<1> QED
  BY <1>2, <1>4, <1>5 DEF AreLines, Q

LEMMA ExtendsLines ==
  ASSUME NEW R, AreLines(R), IsOpen(R), NEW c \in Letters
  PROVE  AreLines(Extended(R, c))
<1> DEFINE n == Len(R)
           Q == Extended(R, c)
<1>1. R \in Seq(LineSet) /\ \A k \in 1..(n - 1) : HasEnding(R[k])
  BY DEF AreLines
<1>2. n \in Nat /\ n # 0 /\ ~HasEnding(R[n]) /\ R[n] \in LineSet
  BY <1>1, OpenFacts
<1>3. Append(R[n], c) \in LineSet
  BY <1>2, LineGoesOn
<1>4. Q \in Seq(LineSet) /\ Len(Q) = n /\ \A i \in 1..(n - 1) : Q[i] = R[i]
  BY <1>1, <1>2, <1>3, Extends
<1> HIDE DEF n, Q
<1>5. \A k \in 1..(n - 1) : HasEnding(Q[k])
  BY <1>1, <1>4
<1> QED
  BY <1>4, <1>5 DEF AreLines, Q

LEMMA GrowsLines ==
  ASSUME NEW R, AreLines(R), NEW c \in Letters
  PROVE  AreLines(LineGrows(R, c))
<1>1. CASE IsOpen(R)
  BY <1>1, ExtendsLines DEF LineGrows
<1>2. CASE ~IsOpen(R)
  BY <1>2, OneLetter, OneMoreLine DEF LineGrows
<1> QED
  BY <1>1, <1>2

LEMMA NoLines == AreLines(<<>>) /\ ~IsOpen(<<>>)
BY DEF AreLines, IsOpen

LEMMA SplitIsGrown == \A t : SplitLines(t) = Grows(<<>>, t)
BY DEF SplitLines, Grows

LEMMA TextsSplit ==
  ASSUME NEW t \in Seq(Letters)
  PROVE  AreLines(SplitLines(t))
<1> DEFINE n == Len(t)
<1>1. n \in Nat /\ n = Len(t) /\ \A i \in 1..n : t[i] \in Letters
  BY LenProperties, ElementOfSeq
<1> HIDE DEF n
<1>2. PICK tr : Walks(tr, "grow", <<>>, <<>>, t, n) /\ Grows(<<>>, t) = tr[n]
  BY <1>1, GrowWalked
<1> DEFINE S == {k \in Nat : k <= n => AreLines(tr[k])}
<1>3. 0 \in S
  BY <1>2, NoLines DEF Walks
<1>4. ASSUME NEW k \in Nat, k \in S PROVE k + 1 \in S
  <2> SUFFICES ASSUME k + 1 <= n PROVE AreLines(tr[k + 1])
    OBVIOUS
  <2>1. k + 1 \in 1..n /\ k <= n /\ k + 1 - 1 = k
    BY <1>1
  <2>2. tr[k + 1] = Step("grow", <<>>, tr[k + 1 - 1], t[k + 1])
    BY <1>2, <2>1 DEF Walks
  <2>3. tr[k + 1] = LineGrows(tr[k], t[k + 1])
    BY <2>1, <2>2 DEF Step
  <2>4. AreLines(tr[k]) /\ t[k + 1] \in Letters
    BY <1>1, <1>4, <2>1
  <2> QED
    BY <2>3, <2>4, GrowsLines
<1> HIDE DEF S
<1>5. n \in S
  BY <1>1, <1>3, <1>4, NatInd
<1>6. AreLines(tr[n])
  BY <1>1, <1>5 DEF S
<1> QED
  BY <1>2, <1>6, SplitIsGrown

\* A line that starts grows into itself.
LEMMA ExtendsLast ==
  ASSUME NEW V, NEW R \in Seq(V), NEW p \in V, NEW c, Append(p, c) \in V
  PROVE  Extended(Append(R, p), c) = Append(R, Append(p, c))
<1> DEFINE q == Append(p, c)
           n == Len(R)
           P == Append(R, p)
           Q == Append(R, q)
           E == Extended(P, c)
<1>1. n \in Nat /\ P \in Seq(V) /\ Len(P) = n + 1 /\ P[n + 1] = p
  BY AppendSeq
<1>2. \A i \in 1..n : P[i] = R[i]
  BY AppendSeq
<1>3. Q \in Seq(V) /\ Len(Q) = n + 1 /\ Q[n + 1] = q
  BY AppendSeq
<1>4. \A i \in 1..n : Q[i] = R[i]
  BY AppendSeq
<1>a. q = Append(p, c) /\ q \in V
  OBVIOUS
<1> HIDE DEF n, P, Q, q
<1>5. Append(P[Len(P)], c) \in V /\ Len(P) # 0
  BY <1>1, <1>a
<1>6. E \in Seq(V) /\ Len(E) = Len(P) /\ E[Len(P)] = Append(P[Len(P)], c)
  BY <1>1, <1>5, Extends
<1>7. \A i \in 1..(Len(P) - 1) : E[i] = P[i]
  BY <1>1, <1>5, ExtendsRest
<1> HIDE DEF E
<1>8. \A i \in 1..(n + 1) : E[i] = Q[i]
  <2> TAKE i \in 1..(n + 1)
  <2>1. CASE i = n + 1
    BY <1>1, <1>3, <1>6, <1>a, <2>1
  <2>2. CASE i # n + 1
    <3>1. i \in 1..n /\ i \in 1..(Len(P) - 1)
      BY <1>1, <2>2
    <3> QED
      BY <1>2, <1>4, <1>7, <3>1
  <2> QED
    BY <2>1, <2>2
<1>9. E = Q
  BY <1>1, <1>3, <1>6, <1>8, SeqEqual
<1> QED
  BY <1>9 DEF E, P, Q, q

LEMMA OpenLast ==
  ASSUME NEW V, NEW R \in Seq(V), NEW p \in V
  PROVE  IsOpen(Append(R, p)) <=> ~HasEnding(p)
<1> DEFINE Q == Append(R, p)
<1>1. Q \in Seq(V) /\ Len(Q) = Len(R) + 1 /\ Len(R) \in Nat /\ Q[Len(R) + 1] = p
  BY AppendSeq
<1> HIDE DEF Q
<1>2. IsOpen(Q) <=> ~HasEnding(p)
  BY <1>1, OpenFacts
<1> QED
  BY <1>2 DEF Q

LEMMA PiecesAreLines ==
  ASSUME NEW p \in LineSet, NEW k \in 1..Len(p)
  PROVE  /\ Part(p, 1, k) \in LineSet
         /\ k < Len(p) => ~HasEnding(Part(p, 1, k))
<1> DEFINE n == Len(p)
           q == Part(p, 1, k)
<1>1. n \in Nat /\ p \in Seq(Letters) /\ k \in Nat /\ k <= n /\ k # 0
  BY LineFacts
<1>2. \A i \in 1..(n - 1) : p[i] # Newline
  BY LineFacts
<1>3. q \in Seq(Letters) /\ Len(q) = k
  BY <1>1, PartFirst
<1>4. \A i \in 1..k : q[i] = p[i]
  BY <1>1, PartFirst
<1> HIDE DEF n, q
<1>5. q # <<>>
  BY <1>1, <1>3, EmptySeq
<1>6. \A i \in 1..(Len(q) - 1) : q[i] # Newline
  <2> TAKE i \in 1..(Len(q) - 1)
  <2>1. i \in 1..(n - 1) /\ i \in 1..k
    BY <1>1, <1>3
  <2> QED
    BY <1>2, <1>4, <2>1
<1>7. q \in LineSet
  BY <1>3, <1>5, <1>6 DEF LineSet
<1>8. k < n => ~HasEnding(q)
  <2> SUFFICES ASSUME k < n PROVE ~HasEnding(q)
    OBVIOUS
  <2>1. k \in 1..(n - 1) /\ k \in 1..k
    BY <1>1
  <2>2. q[Len(q)] # Newline
    BY <1>2, <1>3, <1>4, <2>1
  <2> QED
    BY <1>7, <2>2, LineFacts
<1> QED
  BY <1>7, <1>8 DEF n, q

LEMMA LineGrown ==
  ASSUME NEW R \in Seq(LineSet), ~IsOpen(R), NEW p \in LineSet
  PROVE  Grows(R, p) = Append(R, p)
<1> DEFINE n == Len(p)
<1>1. n \in Nat /\ n # 0 /\ p \in Seq(Letters) /\ n = Len(p)
  BY LineFacts
<1> HIDE DEF n
<1>2. PICK tr : Walks(tr, "grow", <<>>, R, p, n) /\ Grows(R, p) = tr[n]
  BY <1>1, GrowWalked
<1> DEFINE S == {k \in Nat : k + 1 <= n => tr[k + 1] = Append(R, Part(p, 1, k + 1))}
<1>3. \A k \in 1..n : tr[k] = LineGrows(tr[k - 1], p[k])
  BY <1>2 DEF Walks, Step
<1>4. 0 \in S
  <2>1. tr[1] = LineGrows(R, p[1])
    <3>1. 1 \in 1..n /\ 1 - 1 = 0
      BY <1>1
    <3>2. tr[1] = LineGrows(tr[0], p[1])
      BY <1>3, <3>1
    <3> QED
      BY <1>2, <3>2 DEF Walks
  <2>2. Part(p, 1, 1) = <<p[1]>>
    <3>1. 1 \in 1..Len(p)
      BY <1>1
    <3> QED
      BY <1>1, <3>1, PartOne
  <2>3. tr[1] = Append(R, Part(p, 1, 1))
    BY <2>1, <2>2 DEF LineGrows
  <2> QED
    BY <2>3
<1>5. ASSUME NEW k \in Nat, k \in S PROVE k + 1 \in S
  <2> DEFINE j == k + 1
  <2> SUFFICES ASSUME j + 1 <= n PROVE tr[j + 1] = Append(R, Part(p, 1, j + 1))
    OBVIOUS
  <2>1. j \in 1..n /\ j + 1 \in 1..n /\ j + 1 - 1 = j /\ j <= n /\ j < n /\ j \in Nat
    BY <1>1
  <2>2. tr[j] = Append(R, Part(p, 1, j))
    BY <1>5, <2>1
  <2> HIDE DEF j
  <2> DEFINE q == Part(p, 1, j)
             r == Part(p, 1, j + 1)
             c == p[j + 1]
  <2>3. r = Append(q, c)
    BY <1>1, <2>1, PartGrows
  <2>4. q \in LineSet /\ ~HasEnding(q) /\ r \in LineSet
    BY <1>1, <2>1, PiecesAreLines
  <2>5. tr[j + 1] = LineGrows(tr[j], c)
    BY <1>3, <2>1
  <2> HIDE DEF q, r, c
  <2>6. IsOpen(Append(R, q))
    BY <2>4, OpenLast
  <2>7. Extended(Append(R, q), c) = Append(R, r)
    <3>1. Append(q, c) \in LineSet
      BY <2>3, <2>4
    <3>2. Extended(Append(R, q), c) = Append(R, Append(q, c))
      BY <2>4, <3>1, ExtendsLast
    <3> QED
      BY <2>3, <3>2
  <2>8. tr[j + 1] = Append(R, r)
    BY <2>2, <2>5, <2>6, <2>7 DEF LineGrows, q
  <2> QED
    BY <2>8 DEF r
<1> HIDE DEF S
<1>6. n - 1 \in S
  <2>1. n - 1 \in Nat
    BY <1>1
  <2> QED
    BY <1>4, <1>5, <2>1, NatInd
<1>7. tr[n] = Append(R, Part(p, 1, n))
  <2>1. n - 1 + 1 = n /\ n <= n
    BY <1>1
  <2> QED
    BY <1>6, <2>1 DEF S
<1> QED
  BY <1>1, <1>2, <1>7, PartWhole

LEMMA EndedPart ==
  ASSUME NEW R, AreLines(R), NEW k \in Nat, k < Len(R)
  PROVE  Part(R, 1, k) \in Seq(LineSet) /\ ~IsOpen(Part(R, 1, k))
<1> DEFINE q == Part(R, 1, k)
<1>1. R \in Seq(LineSet) /\ Len(R) \in Nat /\ \A i \in 1..(Len(R) - 1) : HasEnding(R[i])
  BY LenProperties DEF AreLines
<1>2. k <= Len(R)
  BY <1>1
<1>3. q \in Seq(LineSet) /\ Len(q) = k
  BY <1>1, <1>2, PartFirst
<1>4. \A i \in 1..k : q[i] = R[i]
  BY <1>1, <1>2, PartFirst
<1> HIDE DEF q
<1>5. k # 0 => HasEnding(q[k])
  <2> SUFFICES ASSUME k # 0 PROVE HasEnding(q[k])
    OBVIOUS
  <2>1. k \in 1..k /\ k \in 1..(Len(R) - 1)
    BY <1>1
  <2> QED
    BY <1>1, <1>4, <2>1
<1>6. ~IsOpen(q)
  BY <1>3, <1>5, OpenFacts
<1> QED
  BY <1>3, <1>6 DEF q

\* Putting lines together and splitting the text again gives the lines.
LEMMA LinesSplit ==
  ASSUME NEW R, AreLines(R)
  PROVE  SplitLines(FlattenSeq(R)) = R
<1> DEFINE n == Len(R)
<1>1. n \in Nat /\ n = Len(R) /\ R \in Seq(LineSet)
  BY LenProperties DEF AreLines
<1>2. R \in [1..n -> Seq(Letters)]
  <2>1. \A i \in 1..n : R[i] \in Seq(Letters)
    <3> TAKE i \in 1..n
    <3>1. R[i] \in LineSet
      BY <1>1, ElementOfSeq
    <3> QED
      BY <3>1, LineFacts
  <2>2. R \in [1..n -> LineSet]
    BY <1>1
  <2> HIDE DEF n
  <2> QED
    BY <2>1, <2>2
<1> HIDE DEF n
<1>3. PICK pre \in [0..n -> Seq(Letters)] : Growing(pre, n, R)
  BY <1>1, <1>2, GrowingExists
<1>4. pre[0] = <<>> /\ \A k \in 1..n : pre[k] = Cat(pre[k - 1], R[k])
  BY <1>3 DEF Growing
<1>5. FlattenSeq(R) = pre[n]
  BY <1>1, <1>2, <1>4, FlattenIsLast
<1> DEFINE S == {k \in Nat : k <= n => Grows(<<>>, pre[k]) = Part(R, 1, k)}
<1>6. 0 \in S
  <2>1. Grows(<<>>, <<>>) = <<>>
    <3>1. <<>> \in Seq(Letters) /\ Len(<<>>) = 0
      OBVIOUS
    <3>2. PICK tr : Walks(tr, "grow", <<>>, <<>>, <<>>, 0) /\ Grows(<<>>, <<>>) = tr[0]
      BY <3>1, GrowWalked
    <3> QED
      BY <3>2 DEF Walks
  <2>2. Part(R, 1, 0) = <<>>
    BY <1>1, PartWhole
  <2> QED
    BY <1>4, <2>1, <2>2
<1>7. ASSUME NEW k \in Nat, k \in S PROVE k + 1 \in S
  <2> SUFFICES ASSUME k + 1 <= n PROVE Grows(<<>>, pre[k + 1]) = Part(R, 1, k + 1)
    OBVIOUS
  <2>1. k + 1 \in 1..n /\ k <= n /\ k < n /\ k + 1 - 1 = k /\ k \in 0..n
    BY <1>1
  <2>2. pre[k + 1] = Cat(pre[k], R[k + 1])
    BY <1>4, <2>1
  <2>3. Grows(<<>>, pre[k]) = Part(R, 1, k)
    BY <1>7, <2>1
  <2>4. pre[k] \in Seq(Letters) /\ R[k + 1] \in Seq(Letters)
    BY <1>2, <1>3, <2>1
  <2>5. R[k + 1] \in LineSet
    BY <1>1, <2>1, ElementOfSeq
  <2>6. Grows(<<>>, Cat(pre[k], R[k + 1])) = Grows(Grows(<<>>, pre[k]), R[k + 1])
    BY <2>4, GrowsCat
  <2>7. Part(R, 1, k) \in Seq(LineSet) /\ ~IsOpen(Part(R, 1, k))
    BY <1>1, <2>1, EndedPart
  <2>8. Grows(Part(R, 1, k), R[k + 1]) = Append(Part(R, 1, k), R[k + 1])
    BY <2>5, <2>7, LineGrown
  <2>9. Part(R, 1, k + 1) = Append(Part(R, 1, k), R[k + 1])
    BY <1>1, <2>1, PartGrows
  <2> QED
    BY <2>2, <2>3, <2>6, <2>8, <2>9
<1> HIDE DEF S
<1>8. n \in S
  BY <1>1, <1>6, <1>7, NatInd
<1>9. Grows(<<>>, pre[n]) = Part(R, 1, n)
  BY <1>1, <1>8 DEF S
<1> QED
  BY <1>1, <1>5, <1>9, PartWhole, SplitIsGrown

(***************************************************************************)
(* What lines say                                                          *)
(***************************************************************************)

LEMMA BodiesSeq ==
  ASSUME NEW V, NEW R \in Seq(V)
  PROVE  /\ Len(BodiesOf(R)) = Len(R) /\ Len(R) \in Nat
         /\ \A i \in 1..Len(R) : BodiesOf(R)[i] = LineBody(R[i])
         /\ BodiesOf(R) \in Seq({LineBody(x) : x \in V})
<1> DEFINE n == Len(R)
           B == BodiesOf(R)
           W == {LineBody(x) : x \in V}
<1>1. n \in Nat /\ DOMAIN R = 1..n /\ \A i \in 1..n : R[i] \in V
  BY LenProperties, ElementOfSeq
<1> HIDE DEF n
<1>2. B = [i \in 1..n |-> LineBody(R[i])]
  BY <1>1 DEF BodiesOf
<1>3. \A i \in 1..n : LineBody(R[i]) \in W
  BY <1>1
<1> HIDE DEF B, W
<1>4. B \in [1..n -> W]
  BY <1>2, <1>3
<1>5. B \in Seq(W) /\ Len(B) = n
  BY <1>1, <1>4
<1> QED
  BY <1>1, <1>2, <1>5 DEF B, W, n

LEMMA BodiesAppend ==
  ASSUME NEW V, NEW R \in Seq(V), NEW p \in V
  PROVE  BodiesOf(Append(R, p)) = Append(BodiesOf(R), LineBody(p))
<1> DEFINE n == Len(R)
           W == {LineBody(x) : x \in V}
           Q == Append(R, p)
           b == LineBody(p)
           B == BodiesOf(R)
           C == BodiesOf(Q)
           D == Append(B, b)
<1>1. Q \in Seq(V) /\ Len(Q) = n + 1 /\ n \in Nat /\ Q[n + 1] = p
  BY AppendSeq
<1>2. \A i \in 1..n : Q[i] = R[i]
  BY AppendSeq
<1>3. B \in Seq(W) /\ Len(B) = n /\ \A i \in 1..n : B[i] = LineBody(R[i])
  BY BodiesSeq
<1>a. b \in W
  OBVIOUS
<1> HIDE DEF Q, n, B, W
<1>4. C \in Seq(W) /\ Len(C) = n + 1
  BY <1>1, BodiesSeq DEF W
<1>5. \A i \in 1..Len(Q) : C[i] = LineBody(Q[i])
  BY <1>1, BodiesSeq
<1> HIDE DEF b, C
<1>6. D \in Seq(W) /\ Len(D) = n + 1 /\ D[n + 1] = b
  BY <1>3, <1>a, AppendSeq
<1>7. \A i \in 1..n : D[i] = B[i]
  BY <1>3, <1>a, AppendSeq
<1> HIDE DEF D
<1>8. \A i \in 1..(n + 1) : C[i] = D[i]
  <2> TAKE i \in 1..(n + 1)
  <2>1. CASE i = n + 1
    BY <1>1, <1>5, <1>6, <2>1 DEF b
  <2>2. CASE i # n + 1
    <3>1. i \in 1..n /\ i \in 1..Len(Q)
      BY <1>1, <2>2
    <3> QED
      BY <1>2, <1>3, <1>5, <1>7, <3>1
  <2> QED
    BY <2>1, <2>2
<1>9. C = D
  BY <1>1, <1>4, <1>6, <1>8, SeqEqual
<1> QED
  BY <1>9 DEF C, D, Q, B, b

LEMMA CatRest ==
  ASSUME NEW A, NEW s \in Seq(A), NEW u \in Seq(A), NEW i \in 1..Len(u)
  PROVE  Cat(s, u)[Len(s) + i] = u[i]
BY CatSeq

LEMMA CatAppend ==
  ASSUME NEW A, NEW s \in Seq(A), NEW u \in Seq(A), NEW x \in A
  PROVE  Append(Cat(s, u), x) = Cat(s, Append(u, x))
<1> DEFINE n == Len(s)
           m == Len(u)
           c == Cat(s, u)
           v == Append(u, x)
           P == Append(c, x)
           Q == Cat(s, v)
<1>1. n \in Nat /\ m \in Nat
  BY LenProperties
<1>2. c \in Seq(A) /\ Len(c) = n + m
  BY CatSeq
<1>3. \A i \in 1..n : c[i] = s[i]
  BY CatSeq
<1>4. \A i \in 1..m : c[n + i] = u[i]
  BY CatSeq
<1>5. v \in Seq(A) /\ Len(v) = m + 1 /\ v[m + 1] = x
  BY AppendSeq
<1>6. \A i \in 1..m : v[i] = u[i]
  BY AppendSeq
<1> HIDE DEF c, v
<1>b. c \in Seq(A) /\ P = Append(c, x)
  BY <1>2
<1> HIDE DEF P
<1>7. P \in Seq(A) /\ Len(P) = Len(c) + 1 /\ P[Len(c) + 1] = x
  BY <1>b, AppendProperties
<1>8. \A i \in 1..Len(c) : P[i] = c[i]
  BY <1>b, AppendProperties
<1>9. Q \in Seq(A) /\ Len(Q) = Len(s) + Len(v)
  BY <1>5, CatSeq
<1>10. \A i \in 1..Len(s) : Q[i] = s[i]
  BY <1>5, CatSeq
<1>11. \A i \in 1..Len(v) : Q[Len(s) + i] = v[i]
  BY <1>5, CatRest
<1>a. n = Len(s)
  OBVIOUS
<1> HIDE DEF n, m, P, Q
<1>12. \A i \in 1..(n + m + 1) : P[i] = Q[i]
  <2> TAKE i \in 1..(n + m + 1)
  <2>1. CASE i <= n
    <3>1. i \in 1..n /\ i \in 1..Len(c) /\ i \in 1..Len(s)
      BY <1>1, <1>2, <1>a, <2>1
    <3> QED
      BY <1>3, <1>8, <1>10, <3>1
  <2>2. CASE i > n /\ i <= n + m
    <3> DEFINE j == i - n
    <3>1. j \in 1..m /\ n + j = i /\ i \in 1..Len(c) /\ j \in 1..Len(v)
      BY <1>1, <1>2, <1>5, <2>2
    <3> HIDE DEF j
    <3>2. P[i] = u[j]
      BY <1>4, <1>8, <3>1
    <3>3. Q[i] = u[j]
      BY <1>6, <1>11, <1>a, <3>1
    <3> QED
      BY <3>2, <3>3
  <2>3. CASE i = n + m + 1
    <3>1. m + 1 \in 1..Len(v) /\ i = Len(c) + 1 /\ i = Len(s) + (m + 1)
      BY <1>1, <1>2, <1>5, <1>a, <2>3
    <3> QED
      BY <1>5, <1>7, <1>11, <3>1
  <2> QED
    BY <1>1, <2>1, <2>2, <2>3
<1>13. Len(P) = n + m + 1 /\ Len(Q) = n + m + 1
  <2>1. Len(P) = (n + m) + 1
    BY <1>2, <1>7
  <2>2. Len(Q) = n + (m + 1)
    BY <1>5, <1>9, <1>a
  <2> QED
    BY <1>1, <2>1, <2>2
<1> DEFINE k == n + m + 1
<1> HIDE DEF k
<1>d. Len(P) = k /\ Len(Q) = k /\ \A i \in 1..k : P[i] = Q[i]
  BY <1>12, <1>13 DEF k
<1>e. Len(P) = Len(Q) /\ \A i \in 1..Len(P) : P[i] = Q[i]
  BY <1>d
<1>c. P \in Seq(A) /\ Q \in Seq(A) /\ Len(P) = Len(Q) /\ \A i \in 1..Len(P) : P[i] = Q[i]
  BY <1>7, <1>9, <1>e
<1>14. P = Q
  BY <1>c, SeqEqual
<1> QED
  BY <1>14 DEF P, Q, c, v

LEMMA PartNone ==
  ASSUME NEW A, NEW t \in Seq(A), NEW a \in Nat, 1 <= a, a <= Len(t) + 1
  PROVE  Part(t, a, a - 1) = <<>>
<1>1. a - 1 \in Nat /\ a - 1 <= Len(t) /\ a <= a - 1 + 1 /\ a - 1 - a + 1 = 0
  BY LenProperties
<1> DEFINE q == Part(t, a, a - 1)
<1>2. q \in Seq(A) /\ Len(q) = a - 1 - a + 1
  BY <1>1, PartSeq
<1> HIDE DEF q
<1>3. q = <<>>
  BY <1>1, <1>2, EmptySeq
<1> QED
  BY <1>3 DEF q

LEMMA PartNext ==
  ASSUME NEW A, NEW t \in Seq(A), NEW a \in Nat, NEW b \in Nat, 1 <= a, a <= b + 1, b + 1 <= Len(t)
  PROVE  Part(t, a, b + 1) = Append(Part(t, a, b), t[b + 1])
<1> DEFINE p == Part(t, a, b)
           c == b + 1
           q == Part(t, a, c)
           x == t[b + 1]
           P == Append(p, x)
           n == b - a + 1
<1>1. Len(t) \in Nat /\ x \in A /\ b <= Len(t) /\ c \in Nat /\ c <= Len(t) /\ a <= c + 1
  <2>1. Len(t) \in Nat
    BY LenProperties
  <2>2. b + 1 \in 1..Len(t)
    BY <2>1
  <2> QED
    BY <2>1, <2>2, ElementOfSeq
<1>2. p \in Seq(A) /\ Len(p) = b - a + 1
  BY <1>1, PartSeq
<1>3. \A i \in 1..(b - a + 1) : p[i] = t[a + i - 1]
  BY <1>1, PartSeq
<1>c. c = b + 1 /\ x = t[c]
  OBVIOUS
<1> HIDE DEF p, c, x
<1>4. q \in Seq(A) /\ Len(q) = c - a + 1
  BY <1>1, PartSeq
<1>5. \A i \in 1..(c - a + 1) : q[i] = t[a + i - 1]
  BY <1>1, PartSeq
<1>6. n \in Nat /\ n + 1 = c - a + 1 /\ n = b - a + 1 /\ a + (n + 1) - 1 = c
  BY <1>1, <1>c
<1>7. P \in Seq(A) /\ Len(P) = Len(p) + 1 /\ P[Len(p) + 1] = x
  BY <1>1, <1>2, AppendSeq
<1>8. \A i \in 1..Len(p) : P[i] = p[i]
  BY <1>1, <1>2, AppendSeq
<1> HIDE DEF q, P, n
<1>9. \A i \in 1..(n + 1) : P[i] = q[i]
  <2> TAKE i \in 1..(n + 1)
  <2>1. CASE i = n + 1
    BY <1>2, <1>5, <1>6, <1>7, <1>c, <2>1
  <2>2. CASE i # n + 1
    <3>1. i \in 1..n /\ i \in 1..Len(p) /\ i \in 1..(c - a + 1)
      BY <1>2, <1>6, <2>2
    <3> QED
      BY <1>3, <1>5, <1>6, <1>8, <3>1
  <2> QED
    BY <2>1, <2>2
<1>10. P = q
  BY <1>2, <1>4, <1>6, <1>7, <1>9, SeqEqual
<1> QED
  BY <1>10, <1>c DEF P, q, p, c, x

LEMMA BodiesPart ==
  ASSUME NEW V, NEW R \in Seq(V), NEW a \in Nat, NEW b \in Nat, 1 <= a, a <= b + 1, b <= Len(R)
  PROVE  BodiesOf(Part(R, a, b)) = Part(BodiesOf(R), a, b)
<1> DEFINE W == {LineBody(x) : x \in V}
           B == BodiesOf(R)
           p == Part(R, a, b)
           C == BodiesOf(p)
           D == Part(B, a, b)
           n == b - a + 1
<1>1. n \in Nat /\ Len(R) \in Nat /\ n = b - a + 1
  BY LenProperties
<1>2. B \in Seq(W) /\ Len(B) = Len(R)
  BY BodiesSeq
<1>3. \A i \in 1..Len(R) : B[i] = LineBody(R[i])
  BY BodiesSeq
<1>4. p \in Seq(V) /\ Len(p) = b - a + 1
  BY PartSeq
<1>5. \A i \in 1..(b - a + 1) : p[i] = R[a + i - 1]
  BY PartSeq
<1> HIDE DEF p, B, W
<1>6. C \in Seq(W) /\ Len(C) = Len(p)
  BY <1>4, BodiesSeq DEF W
<1>7. \A i \in 1..Len(p) : C[i] = LineBody(p[i])
  BY <1>4, BodiesSeq
<1>8. D \in Seq(W) /\ Len(D) = b - a + 1
  BY <1>2, PartSeq
<1>9. \A i \in 1..(b - a + 1) : D[i] = B[a + i - 1]
  BY <1>2, PartSeq
<1> HIDE DEF C, D, n
<1>10. \A i \in 1..n : C[i] = D[i]
  <2> TAKE i \in 1..n
  <2>1. i \in 1..(b - a + 1) /\ i \in 1..Len(p) /\ a + i - 1 \in 1..Len(R)
    BY <1>1, <1>4
  <2> QED
    BY <1>3, <1>5, <1>7, <1>9, <2>1
<1>11. C = D
  BY <1>1, <1>4, <1>6, <1>8, <1>10, SeqEqual
<1> QED
  BY <1>11 DEF C, D, p, B

LEMMA BodiesCat ==
  ASSUME NEW V, NEW R \in Seq(V), NEW S \in Seq(V)
  PROVE  BodiesOf(Cat(R, S)) = Cat(BodiesOf(R), BodiesOf(S))
<1> DEFINE W == {LineBody(x) : x \in V}
           B == BodiesOf(R)
           C == BodiesOf(S)
           n == Len(R)
           m == Len(S)
           L == Cat(R, S)
           P == BodiesOf(L)
           Q == Cat(B, C)
<1>1. n \in Nat /\ m \in Nat /\ n = Len(R) /\ m = Len(S)
  BY LenProperties
<1>2. L \in Seq(V) /\ Len(L) = n + m
  BY CatSeq
<1>3. \A i \in 1..n : L[i] = R[i]
  BY CatSeq
<1>4. \A i \in 1..m : L[n + i] = S[i]
  BY CatSeq
<1>5. B \in Seq(W) /\ Len(B) = n
  BY BodiesSeq
<1>6. \A i \in 1..n : B[i] = LineBody(R[i])
  BY BodiesSeq
<1>7. C \in Seq(W) /\ Len(C) = m
  BY BodiesSeq
<1>8. \A i \in 1..m : C[i] = LineBody(S[i])
  BY BodiesSeq
<1> HIDE DEF n, m, L, B, C, W
<1>9. P \in Seq(W) /\ Len(P) = Len(L)
  BY <1>2, BodiesSeq DEF W
<1>10. \A i \in 1..Len(L) : P[i] = LineBody(L[i])
  BY <1>2, BodiesSeq
<1>11. Q \in Seq(W) /\ Len(Q) = Len(B) + Len(C)
  BY <1>5, <1>7, CatSeq
<1>12. \A i \in 1..Len(B) : Q[i] = B[i]
  BY <1>5, <1>7, CatSeq
<1>13. \A i \in 1..Len(C) : Q[Len(B) + i] = C[i]
  BY <1>5, <1>7, CatRest
<1> HIDE DEF P, Q
<1>14. \A i \in 1..(n + m) : P[i] = Q[i]
  <2> TAKE i \in 1..(n + m)
  <2>1. CASE i <= n
    <3>1. i \in 1..n /\ i \in 1..Len(L) /\ i \in 1..Len(B)
      BY <1>1, <1>2, <1>5, <2>1
    <3> QED
      BY <1>3, <1>6, <1>10, <1>12, <3>1
  <2>2. CASE i > n
    <3> DEFINE j == i - n
    <3>1. j \in 1..m /\ n + j = i /\ i \in 1..Len(L) /\ j \in 1..Len(C)
      BY <1>1, <1>2, <1>7, <2>2
    <3> HIDE DEF j
    <3>2. P[i] = LineBody(S[j])
      BY <1>4, <1>10, <3>1
    <3>3. Q[i] = LineBody(S[j])
      BY <1>5, <1>8, <1>13, <3>1
    <3> QED
      BY <3>2, <3>3
  <2> QED
    BY <1>1, <2>1, <2>2
<1>15. P = Q
  BY <1>2, <1>5, <1>7, <1>9, <1>11, <1>14, SeqEqual
<1> QED
  BY <1>15 DEF P, Q, L, B, C

LEMMA BodyEnded ==
  ASSUME NEW l \in Seq(Letters)
  PROVE  LineBody(Append(l, Newline)) = l
<1> DEFINE n == Len(l)
           q == Append(l, Newline)
           p == Part(q, 1, n)
<1>1. q \in Seq(Letters) /\ Len(q) = n + 1 /\ n \in Nat /\ q[n + 1] = Newline
  <2>1. Newline \in Letters
    BY DEF Letters
  <2> QED
    BY <2>1, AppendSeq
<1>2. \A i \in 1..n : q[i] = l[i]
  <2>1. Newline \in Letters
    BY DEF Letters
  <2> QED
    BY <2>1, AppendSeq
<1> HIDE DEF q, n
<1>3. HasEnding(q) /\ Front(q) = p
  <2>1. q # <<>> /\ Len(q) - 1 = n
    BY <1>1, EmptySeq
  <2> QED
    BY <1>1, <2>1 DEF HasEnding, Last, Front, Part
<1>a. n \in Nat /\ n <= Len(q)
  BY <1>1
<1>4. p \in Seq(Letters) /\ Len(p) = n
  BY <1>1, <1>a, PartFirst
<1>5. \A i \in 1..n : p[i] = q[i]
  BY <1>1, <1>a, PartFirst
<1> HIDE DEF p
<1>6. p = l
  <2>1. l \in Seq(Letters) /\ Len(l) = n /\ \A i \in 1..n : p[i] = l[i]
    BY <1>2, <1>5 DEF n
  <2> QED
    BY <1>4, <2>1, SeqEqual
<1> QED
  BY <1>3, <1>6 DEF LineBody, q

LEMMA BodiesExtended ==
  ASSUME NEW R, AreLines(R), IsOpen(R)
  PROVE  BodiesOf(Extended(R, Newline)) = BodiesOf(R)
<1> DEFINE n == Len(R)
           Q == Extended(R, Newline)
           W == {LineBody(x) : x \in LineSet}
           B == BodiesOf(R)
           C == BodiesOf(Q)
<1>0. R \in Seq(LineSet) /\ Newline \in Letters
  BY DEF AreLines, Letters
<1>1. n \in Nat /\ n # 0 /\ ~HasEnding(R[n]) /\ R[n] \in LineSet /\ n = Len(R)
  BY <1>0, OpenFacts
<1>2. Append(R[n], Newline) \in LineSet
  BY <1>0, <1>1, LineGoesOn
<1>3. Q \in Seq(LineSet) /\ Len(Q) = n /\ Q[n] = Append(R[n], Newline)
  BY <1>0, <1>1, <1>2, Extends
<1>4. \A i \in 1..(n - 1) : Q[i] = R[i]
  BY <1>0, <1>1, <1>2, ExtendsRest
<1>5. LineBody(Q[n]) = LineBody(R[n])
  <2>1. LineBody(Append(R[n], Newline)) = R[n]
    BY <1>1, LineFacts, BodyEnded
  <2>2. LineBody(R[n]) = R[n]
    BY <1>1 DEF LineBody
  <2> QED
    BY <1>3, <2>1, <2>2
<1> HIDE DEF Q, n, W
<1>6. B \in Seq(W) /\ Len(B) = n
  BY <1>0, <1>1, BodiesSeq DEF W
<1>7. \A i \in 1..n : B[i] = LineBody(R[i])
  BY <1>0, <1>1, BodiesSeq
<1>8. C \in Seq(W) /\ Len(C) = n
  BY <1>3, BodiesSeq DEF W
<1>9. \A i \in 1..n : C[i] = LineBody(Q[i])
  BY <1>3, BodiesSeq
<1> HIDE DEF B, C
<1>10. \A i \in 1..n : C[i] = B[i]
  <2> TAKE i \in 1..n
  <2>1. CASE i = n
    BY <1>1, <1>5, <1>7, <1>9, <2>1
  <2>2. CASE i # n
    <3>1. i \in 1..(n - 1)
      BY <1>1, <2>2
    <3> QED
      BY <1>4, <1>7, <1>9, <3>1
  <2> QED
    BY <2>1, <2>2
<1>11. C = B
  BY <1>6, <1>8, <1>10, SeqEqual
<1> QED
  BY <1>11 DEF C, B, Q

LEMMA BodyTyped ==
  ASSUME NEW p \in LineSet
  PROVE  LineBody(p) \in Seq(Letters)
<1>1. p \in Seq(Letters) /\ Len(p) \in Nat /\ Len(p) # 0
  BY LineFacts
<1>2. CASE HasEnding(p)
  <2>1. Len(p) - 1 \in Nat /\ Len(p) - 1 <= Len(p)
    BY <1>1
  <2> DEFINE k == Len(p) - 1
  <2>2. k \in Nat /\ k <= Len(p)
    BY <2>1
  <2> HIDE DEF k
  <2>3. Part(p, 1, k) \in Seq(Letters)
    BY <1>1, <2>2, PartFirst
  <2> QED
    BY <1>2, <2>3 DEF LineBody, Front, Part, k
<1>3. CASE ~HasEnding(p)
  BY <1>1, <1>3 DEF LineBody
<1> QED
  BY <1>2, <1>3

LEMMA LinesSay ==
  ASSUME NEW R, AreLines(R)
  PROVE  BodiesOf(R) \in Seq(Seq(Letters)) /\ Len(BodiesOf(R)) = Len(R) /\ R \in Seq(LineSet)
<1> DEFINE W == {LineBody(x) : x \in LineSet}
           B == BodiesOf(R)
<1>1. R \in Seq(LineSet)
  BY DEF AreLines
<1>2. B \in Seq(W) /\ Len(B) = Len(R)
  BY <1>1, BodiesSeq
<1>3. W \subseteq Seq(Letters)
  BY BodyTyped
<1> HIDE DEF B, W
<1>4. B \in Seq(Seq(Letters))
  BY <1>2, <1>3
<1> QED
  BY <1>1, <1>2, <1>4 DEF B

\* The next lines of the file after others.
LEMMA NextLines ==
  ASSUME NEW R, AreLines(R), NEW old, AreLines(old), NEW c \in Nat, NEW b \in Nat,
         c <= b, b <= Len(old), IsOpen(R) => c = Len(old)
  PROVE  /\ AreLines(Cat(R, Part(old, c + 1, b)))
         /\ IsOpen(Cat(R, Part(old, c + 1, b))) => b = Len(old)
<1> DEFINE a == c + 1
           J(j) == Cat(R, Part(old, a, c + j))
           S == {j \in Nat : c + j <= b => AreLines(J(j)) /\ (IsOpen(J(j)) => c + j = Len(old))}
<1>1. /\ old \in Seq(LineSet) /\ R \in Seq(LineSet) /\ Len(old) \in Nat
      /\ \A k \in 1..(Len(old) - 1) : HasEnding(old[k])
  BY LenProperties DEF AreLines
<1>a. a \in Nat /\ 1 <= a /\ a = c + 1 /\ a <= Len(old) + 1
  BY <1>1
<1> HIDE DEF a
<1>2. 0 \in S
  <2>1. Part(old, a, a - 1) = <<>> /\ a - 1 = c + 0 /\ c + 0 = c
    BY <1>1, <1>a, PartNone
  <2>2. J(0) = R
    BY <1>1, <2>1, CatEmpty
  <2> HIDE DEF J
  <2>3. AreLines(J(0)) /\ (IsOpen(J(0)) => c + 0 = Len(old))
    BY <2>1, <2>2
  <2> QED
    BY <2>3
<1>3. ASSUME NEW j \in Nat, j \in S PROVE j + 1 \in S
  <2> SUFFICES ASSUME c + (j + 1) <= b
               PROVE  AreLines(J(j + 1)) /\ (IsOpen(J(j + 1)) => c + (j + 1) = Len(old))
    OBVIOUS
  <2> DEFINE d == c + j
  <2>1. /\ c + (j + 1) = d + 1 /\ d \in Nat /\ a <= d + 1 /\ d + 1 <= Len(old) /\ d <= b
        /\ d < Len(old) /\ d <= Len(old)
    BY <1>1, <1>a
  <2>2. AreLines(J(j)) /\ (IsOpen(J(j)) => d = Len(old))
    BY <1>3, <2>1
  <2> DEFINE P == Part(old, a, d)
             x == old[d + 1]
             Q == Cat(R, P)
  <2>3. AreLines(Q) /\ ~IsOpen(Q)
    BY <1>1, <2>1, <2>2
  <2> HIDE DEF d
  <2>4. x \in LineSet
    <3>1. d + 1 \in 1..Len(old)
      BY <1>1, <2>1
    <3> QED
      BY <1>1, <3>1, ElementOfSeq
  <2>5. P \in Seq(LineSet)
    BY <1>1, <1>a, <2>1, PartSeq
  <2>6. Part(old, a, d + 1) = Append(P, x)
    BY <1>1, <1>a, <2>1, PartNext
  <2>7. HasEnding(x) \/ d + 1 = Len(old)
    <3> SUFFICES ASSUME d + 1 # Len(old) PROVE HasEnding(x)
      OBVIOUS
    <3>1. d + 1 \in 1..(Len(old) - 1)
      BY <1>1, <2>1
    <3> QED
      BY <1>1, <3>1
  <2> HIDE DEF P, x
  <2>8. Append(Q, x) = Cat(R, Append(P, x))
    BY <1>1, <2>4, <2>5, CatAppend
  <2>9. J(j + 1) = Append(Q, x)
    BY <2>1, <2>6, <2>8
  <2>10. AreLines(Append(Q, x))
    BY <2>3, <2>4, OneMoreLine
  <2>11. IsOpen(Append(Q, x)) => d + 1 = Len(old)
    <3>1. Q \in Seq(LineSet)
      BY <2>3 DEF AreLines
    <3> HIDE DEF Q
    <3> QED
      BY <2>4, <2>7, <3>1, OpenLast
  <2> HIDE DEF J, Q
  <2> QED
    BY <2>1, <2>9, <2>10, <2>11
<1>4. b - c \in S
  <2> HIDE DEF S
  <2>1. b - c \in Nat
    OBVIOUS
  <2> QED
    BY <1>2, <1>3, <2>1, NatInd
<1>5. c + (b - c) = b
  OBVIOUS
<1> HIDE DEF J
<1>6. AreLines(J(b - c)) /\ (IsOpen(J(b - c)) => b = Len(old))
  BY <1>4, <1>5
<1>7. J(b - c) = Cat(R, Part(old, c + 1, b))
  BY <1>5, <1>a DEF J
<1> QED
  BY <1>6, <1>7

LEMMA NextLinesSay ==
  ASSUME NEW R, AreLines(R), NEW old, AreLines(old), NEW c \in Nat, NEW b \in Nat,
         c <= b, b <= Len(old)
  PROVE  BodiesOf(Cat(R, Part(old, c + 1, b)))
            = Cat(BodiesOf(R), Part(BodiesOf(old), c + 1, b))
<1> DEFINE a == c + 1
<1>1. a \in Nat /\ 1 <= a /\ a <= b + 1 /\ R \in Seq(LineSet) /\ old \in Seq(LineSet)
  BY LinesSay
<1> HIDE DEF a
<1>2. Part(old, a, b) \in Seq(LineSet)
  BY <1>1, PartSeq
<1>3. BodiesOf(Part(old, a, b)) = Part(BodiesOf(old), a, b)
  BY <1>1, BodiesPart
<1>4. BodiesOf(Cat(R, Part(old, a, b))) = Cat(BodiesOf(R), BodiesOf(Part(old, a, b)))
  BY <1>1, <1>2, BodiesCat
<1> QED
  BY <1>3, <1>4 DEF a

(***************************************************************************)
(* Applying a hunk, line by line                                           *)
(***************************************************************************)

Reached(R, c) == [ok |-> TRUE, lines |-> R, cursor |-> c]

LEMMA ReachedFacts ==
  ASSUME NEW R, NEW c
  PROVE  Reached(R, c).ok /\ Reached(R, c).lines = R /\ Reached(R, c).cursor = c
BY DEF Reached

LEMMA ContextApplies ==
  ASSUME NEW V, NEW old \in Seq(V), NEW R, NEW c \in Nat, c + 1 <= Len(old)
  PROVE  ApplyLine(old, Reached(R, c), Line("context", LineBody(old[c + 1])))
            = Reached(Append(R, old[c + 1]), c + 1)
<1> DEFINE l == Line("context", LineBody(old[c + 1]))
<1>1. c + 1 \in DOMAIN old
  BY LenProperties
<1>2. l.kind = "context" /\ l.text = LineBody(old[c + 1]) /\ l.kind # "add"
  BY DEF Line
<1> HIDE DEF l
<1> DEFINE x == old[c + 1]
           d == c + 1
<1>3. d \in DOMAIN old /\ l.text = LineBody(old[d]) /\ x = old[d] /\ d = c + 1
  BY <1>1, <1>2
<1> HIDE DEF x, d
<1>4. ApplyLine(old, Reached(R, c), l) = Reached(Append(R, x), d)
  BY <1>2, <1>3 DEF ApplyLine, Reached
<1> QED
  BY <1>4 DEF x, d, l

LEMMA RemoveApplies ==
  ASSUME NEW V, NEW old \in Seq(V), NEW R, NEW c \in Nat, c + 1 <= Len(old)
  PROVE  ApplyLine(old, Reached(R, c), Line("remove", LineBody(old[c + 1]))) = Reached(R, c + 1)
<1> DEFINE l == Line("remove", LineBody(old[c + 1]))
<1>1. c + 1 \in DOMAIN old
  BY LenProperties
<1>2. l.kind # "context" /\ l.text = LineBody(old[c + 1]) /\ l.kind # "add"
  BY DEF Line
<1> HIDE DEF l
<1> DEFINE d == c + 1
<1>3. d \in DOMAIN old /\ l.text = LineBody(old[d]) /\ d = c + 1
  BY <1>1, <1>2
<1> HIDE DEF d
<1>4. ApplyLine(old, Reached(R, c), l) = Reached(R, d)
  BY <1>2, <1>3 DEF ApplyLine, Reached
<1> QED
  BY <1>4 DEF d, l

EndedFor(R) == IF IsOpen(R) THEN Extended(R, Newline) ELSE R

LEMMA AddApplies ==
  ASSUME NEW old, NEW R, NEW c, NEW l
  PROVE  ApplyLine(old, Reached(R, c), Line("add", l))
            = Reached(Append(EndedFor(R), Append(l, Newline)), c)
<1> DEFINE x == Line("add", l)
<1>2. x.kind = "add" /\ x.text = l
  BY DEF Line
<1> HIDE DEF x
<1>3. ApplyLine(old, Reached(R, c), x) = Reached(Append(EndedFor(R), Append(l, Newline)), c)
  BY <1>2 DEF ApplyLine, Reached, EndedFor
<1> QED
  BY <1>3 DEF x

\* An added line.
LEMMA AddedIsLine ==
  ASSUME NEW l \in Seq(Letters), IsLine(l)
  PROVE  Append(l, Newline) \in LineSet /\ HasEnding(Append(l, Newline)) /\ l \in Seq(Letters)
<1> DEFINE n == Len(l)
           q == Append(l, Newline)
<1>0. l \in Seq(Letters) /\ Newline \in Letters
  BY WordsAreChars DEF Letters
<1>1. q \in Seq(Letters) /\ Len(q) = n + 1 /\ n \in Nat /\ q[n + 1] = Newline /\ DOMAIN l = 1..n
  BY <1>0, AppendSeq, LenProperties
<1>2. \A i \in 1..n : q[i] = l[i]
  BY <1>0, AppendSeq
<1> HIDE DEF q, n
<1>3. \A i \in 1..n : q[i] # Newline
  BY <1>1, <1>2 DEF IsLine
<1>4. q # <<>> /\ Len(q) - 1 = n
  BY <1>1, EmptySeq
<1>5. q \in LineSet
  BY <1>1, <1>3, <1>4 DEF LineSet
<1>6. HasEnding(q)
  BY <1>1, <1>5, LineFacts
<1> QED
  BY <1>0, <1>5, <1>6 DEF q

\* What an added line leaves: lines that have ended and say one more.
LEMMA AddedSays ==
  ASSUME NEW R, AreLines(R), NEW l \in Seq(Letters), IsLine(l)
  PROVE  LET Q == Append(EndedFor(R), Append(l, Newline))
         IN  AreLines(Q) /\ ~IsOpen(Q) /\ BodiesOf(Q) = Append(BodiesOf(R), l)
<1> DEFINE E == EndedFor(R)
           x == Append(l, Newline)
           Q == Append(E, x)
<1>1. x \in LineSet /\ HasEnding(x) /\ l \in Seq(Letters) /\ LineBody(x) = l
  BY AddedIsLine, BodyEnded
<1>2. AreLines(E) /\ ~IsOpen(E) /\ BodiesOf(E) = BodiesOf(R)
  <2>1. CASE IsOpen(R)
    <3> DEFINE n == Len(R)
    <3>1. R \in Seq(LineSet) /\ Newline \in Letters
      BY DEF AreLines, Letters
    <3>2. n \in Nat /\ n # 0 /\ ~HasEnding(R[n]) /\ R[n] \in LineSet /\ n = Len(R)
      BY <2>1, <3>1, OpenFacts
    <3>3. Append(R[n], Newline) \in LineSet
      BY <3>1, <3>2, LineGoesOn
    <3> DEFINE X == Extended(R, Newline)
    <3>4. X \in Seq(LineSet) /\ Len(X) = n /\ X[n] = Append(R[n], Newline)
      BY <3>1, <3>2, <3>3, Extends
    <3>5. HasEnding(Append(R[n], Newline))
      <4> DEFINE p == Append(R[n], Newline)
      <4>1. p[Len(p)] = Newline
        BY <3>1, <3>2, LineFacts, AppendSeq
      <4> HIDE DEF p
      <4>2. HasEnding(p)
        BY <3>3, <4>1, LineFacts DEF p
      <4> QED
        BY <4>2 DEF p
    <3>6. AreLines(X) /\ BodiesOf(X) = BodiesOf(R)
      BY <2>1, <3>1, ExtendsLines, BodiesExtended
    <3> HIDE DEF X, n
    <3>7. ~IsOpen(X)
      BY <3>2, <3>4, <3>5, OpenFacts
    <3> QED
      BY <2>1, <3>6, <3>7 DEF EndedFor, X
  <2>2. CASE ~IsOpen(R)
    BY <2>2 DEF EndedFor
  <2> QED
    BY <2>1, <2>2
<1>3. E \in Seq(LineSet)
  BY <1>2 DEF AreLines
<1> HIDE DEF E, x
<1>4. AreLines(Q)
  BY <1>1, <1>2, OneMoreLine
<1>5. ~IsOpen(Q)
  BY <1>1, <1>3, OpenLast
<1>6. BodiesOf(Q) = Append(BodiesOf(R), l)
  <2>1. BodiesOf(Q) = Append(BodiesOf(E), LineBody(x))
    BY <1>1, <1>3, BodiesAppend
  <2> QED
    BY <1>1, <1>2, <2>1
<1> QED
  BY <1>4, <1>5, <1>6 DEF E, x

(***************************************************************************)
(* Hunks                                                                   *)
(***************************************************************************)

IsSequence(s) == \E V : s \in Seq(V)

\* Edits that add lines, of which those of the agent are some.
LineEdits == [at : Nat, gone : Nat, above : Nat, added : Seq({w \in Seq(Letters) : IsLine(w)})]

LEMMA ListIsSeq ==
  ASSUME NEW n \in Nat, NEW f, f = [k \in 1..n |-> f[k]], NEW V, \A k \in 1..n : f[k] \in V
  PROVE  f \in Seq(V) /\ Len(f) = n
<1>1. f \in [1..n -> V]
  OBVIOUS
<1> QED
  BY <1>1

LEMMA EditTyped ==
  ASSUME NEW e \in LineEdits
  PROVE  /\ e.at \in Nat /\ e.gone \in Nat /\ e.above \in Nat
         /\ e.added \in Seq({w \in Seq(Letters) : IsLine(w)})
         /\ Len(e.added) \in Nat /\ DOMAIN e.added = 1..Len(e.added)
         /\ \A k \in 1..Len(e.added) : e.added[k] \in Seq(Letters) /\ IsLine(e.added[k])
<1> DEFINE L == {w \in Seq(Letters) : IsLine(w)}
           u == e.added
<1>1. e.at \in Nat /\ e.gone \in Nat /\ e.above \in Nat /\ u \in Seq(L)
  BY DEF LineEdits
<1>2. \A x \in L : x \in Seq(Letters) /\ IsLine(x)
  OBVIOUS
<1> HIDE DEF L, u
<1>3. Len(u) \in Nat /\ DOMAIN u = 1..Len(u) /\ \A k \in 1..Len(u) : u[k] \in L
  BY <1>1, LenProperties, ElementOfSeq
<1> QED
  BY <1>1, <1>2, <1>3 DEF L, u

\* The lines of a hunk: those above the edit, those it takes away, those it adds.
HunkShaped(ls, lines, e) ==
    /\ IsSequence(ls) /\ Len(ls) = e.above + e.gone + Len(e.added)
    /\ \A k \in 1..e.above : ls[k] = Line("context", LineBody(lines[e.at - e.above + k]))
    /\ \A k \in 1..e.gone : ls[e.above + k] = Line("remove", LineBody(lines[e.at + k]))
    /\ \A k \in 1..Len(e.added) : ls[e.above + e.gone + k] = Line("add", e.added[k])

LEMMA HunkShape ==
  ASSUME NEW lines, NEW e \in LineEdits
  PROVE  HunkShaped(HunkLines(lines, e), lines, e)
<1> DEFINE n == e.above
           g == e.gone
           at == e.at
           u == e.added
           m == Len(u)
           o == n + g
           K == [k \in 1..(e.above + e.gone) |->
                   Line(IF k <= e.above THEN "context" ELSE "remove",
                        LineBody(lines[e.at - e.above + k]))]
           D == [k \in DOMAIN e.added |-> Line("add", e.added[k])]
           ls == HunkLines(lines, e)
           V == {K[k] : k \in 1..o} \cup {D[k] : k \in 1..m}
<1>0. n \in Nat /\ g \in Nat /\ at \in Nat /\ m \in Nat /\ DOMAIN u = 1..m
  BY EditTyped
<1>1. n \in Nat /\ g \in Nat /\ at \in Nat /\ m \in Nat /\ DOMAIN u = 1..m /\ o \in Nat
  BY <1>0
<1>2. ls = Cat(K, D)
  BY DEF HunkLines, Cat
<1>3. /\ K = [k \in 1..o |-> K[k]]
      /\ \A k \in 1..o : K[k] = Line(IF k <= n THEN "context" ELSE "remove",
                                     LineBody(lines[at - n + k]))
  OBVIOUS
<1>4. D = [k \in 1..m |-> D[k]] /\ \A k \in 1..m : D[k] = Line("add", u[k])
  BY <1>1
<1>a. o = n + g
  OBVIOUS
<1> HIDE DEF K, D, n, g, at, m, o, u, ls
<1>5. \A k \in 1..o : K[k] \in V
  OBVIOUS
<1>6. \A k \in 1..m : D[k] \in V
  OBVIOUS
<1> HIDE DEF V
<1>7. K \in Seq(V) /\ Len(K) = o
  BY <1>1, <1>3, <1>5, ListIsSeq
<1>8. D \in Seq(V) /\ Len(D) = m
  BY <1>1, <1>4, <1>6, ListIsSeq
<1>9. ls \in Seq(V) /\ Len(ls) = Len(K) + Len(D)
  BY <1>2, <1>7, <1>8, CatSeq
<1>10. \A k \in 1..Len(K) : ls[k] = K[k]
  BY <1>2, <1>7, <1>8, CatSeq
<1>11. \A k \in 1..Len(D) : ls[Len(K) + k] = D[k]
  BY <1>2, <1>7, <1>8, CatRest
<1>12. IsSequence(ls)
  BY <1>9 DEF IsSequence
<1>13. \A k \in 1..n : ls[k] = Line("context", LineBody(lines[at - n + k]))
  <2> TAKE k \in 1..n
  <2>1. k \in 1..o /\ k \in 1..Len(K) /\ k <= n
    BY <1>1, <1>7, <1>a
  <2> QED
    BY <1>3, <1>10, <2>1
<1>14. \A k \in 1..g : ls[n + k] = Line("remove", LineBody(lines[at + k]))
  <2> TAKE k \in 1..g
  <2> DEFINE j == n + k
  <2>1. j \in 1..o /\ j \in 1..Len(K) /\ ~(j <= n) /\ at - n + j = at + k
    BY <1>1, <1>7, <1>a
  <2> HIDE DEF j
  <2>2. ls[j] = Line("remove", LineBody(lines[at - n + j]))
    BY <1>3, <1>10, <2>1
  <2> QED
    BY <2>1, <2>2 DEF j
<1>15. \A k \in 1..m : ls[n + g + k] = Line("add", u[k])
  BY <1>4, <1>7, <1>8, <1>11, <1>a
<1>16. Len(ls) = n + g + m
  BY <1>7, <1>8, <1>9, <1>a
<1> QED
  BY <1>12, <1>13, <1>14, <1>15, <1>16 DEF HunkShaped, n, g, at, m, u, ls

LEMMA HunkAnchored ==
  ASSUME NEW lines, NEW e \in LineEdits, NEW grown, e.above <= e.at
  PROVE  LET h == HunkOf(lines, e, grown)
         IN  Anchor(h.oldStart, h.oldCount) = e.at - e.above /\ h.lines = HunkLines(lines, e)
<1>1. e.at \in Nat /\ e.gone \in Nat /\ e.above \in Nat
  BY EditTyped
<1> QED
  BY <1>1 DEF HunkOf, Hunk, HeaderStart, Anchor

\* What the hunks so far have made of the file, next to what was meant.
Applied(old, s, a) ==
    \E R : /\ s = Reached(R, a.at) /\ AreLines(R) /\ BodiesOf(R) = a.out
           /\ a.at \in Nat /\ a.at <= Len(old) /\ (IsOpen(R) => a.at = Len(old))

\* The lines above an edit are copied.
LEMMA ContextPhase ==
  ASSUME NEW old, AreLines(old), NEW e \in LineEdits, NEW ls, HunkShaped(ls, old, e),
         NEW R, AreLines(R), NEW c \in Nat, c <= e.at - e.above, e.above <= e.at, e.at <= Len(old),
         NEW s, s = Reached(Cat(R, Part(old, c + 1, e.at - e.above)), e.at - e.above),
         NEW tr, Walks(tr, "line", old, s, ls, Len(ls))
  PROVE  tr[e.above] = Reached(Cat(R, Part(old, c + 1, e.at)), e.at)
<1> DEFINE n == e.above
           b == e.at - e.above
           a == c + 1
           J(j) == Reached(Cat(R, Part(old, a, b + j)), b + j)
           S == {j \in Nat : j <= n => tr[j] = J(j)}
<1>2. old \in Seq(LineSet) /\ R \in Seq(LineSet)
  BY LinesSay
<1>0. n \in Nat /\ e.at \in Nat /\ Len(old) \in Nat
  BY <1>2, EditTyped, LenProperties
<1>1. /\ n \in Nat /\ b \in Nat /\ n = e.above /\ b = e.at - e.above /\ a \in Nat /\ 1 <= a
      /\ a <= b + 1 /\ b + n = e.at /\ b + n <= Len(old) /\ Len(old) \in Nat /\ e.at \in Nat
  BY <1>0
<1>b. n \in Nat /\ b \in Nat /\ a \in Nat /\ Len(old) \in Nat /\ a <= b + 1 /\ b + n <= Len(old)
  BY <1>1
<1>3. /\ Len(ls) \in Nat /\ n <= Len(ls)
      /\ \A k \in 1..n : ls[k] = Line("context", LineBody(old[b + k]))
  <2>1. Len(ls) = e.above + e.gone + Len(e.added)
    BY DEF HunkShaped
  <2>0. e.above \in Nat /\ e.gone \in Nat /\ Len(e.added) \in Nat
    BY EditTyped
  <2>2. Len(ls) \in Nat /\ n <= Len(ls)
    BY <2>0, <2>1
  <2>3. \A k \in 1..n : ls[k] = Line("context", LineBody(old[b + k]))
    BY DEF HunkShaped
  <2> QED
    BY <2>2, <2>3
<1>4. \A k \in 1..n : tr[k] = ApplyLine(old, tr[k - 1], ls[k])
  <2> TAKE k \in 1..n
  <2>1. k \in 1..Len(ls)
    BY <1>1, <1>3
  <2> HIDE DEF n
  <2> QED
    BY <2>1 DEF Walks, Step
<1> HIDE DEF n, b, a
<1>5. 0 \in S
  <2>1. tr[0] = s /\ b + 0 = b
    BY <1>1 DEF Walks
  <2>2. tr[0] = J(0)
    BY <2>1 DEF a, b
  <2> HIDE DEF J
  <2> QED
    BY <2>2
<1>6. ASSUME NEW j \in Nat, j \in S PROVE j + 1 \in S
  <2> SUFFICES ASSUME j + 1 <= n PROVE tr[j + 1] = J(j + 1)
    OBVIOUS
  <2> DEFINE d == b + j
  <2>1. /\ j <= n /\ j + 1 \in 1..n /\ j + 1 - 1 = j /\ d \in Nat /\ b + (j + 1) = d + 1
        /\ d + 1 <= Len(old) /\ a <= d + 1 /\ d <= Len(old)
    BY <1>b
  <2>2. tr[j] = Reached(Cat(R, Part(old, a, d)), d)
    BY <1>6, <2>1
  <2>3. J(j + 1) = Reached(Cat(R, Part(old, a, d + 1)), d + 1)
    BY <2>1
  <2> HIDE DEF d, J
  <2>4. /\ tr[j + 1] = ApplyLine(old, tr[j], ls[j + 1])
        /\ ls[j + 1] = Line("context", LineBody(old[d + 1]))
    BY <1>3, <1>4, <2>1
  <2> DEFINE P == Part(old, a, d)
             x == old[d + 1]
             Q == Cat(R, P)
  <2>5. x \in LineSet /\ P \in Seq(LineSet)
    <3>1. d + 1 \in 1..Len(old)
      BY <1>1, <2>1
    <3> QED
      BY <1>1, <1>2, <2>1, <3>1, ElementOfSeq, PartSeq
  <2>z. /\ old \in Seq(LineSet) /\ a \in Nat /\ d \in Nat /\ 1 <= a /\ a <= d + 1
        /\ d + 1 <= Len(old)
    BY <1>1, <1>2, <2>1
  <2>6. Part(old, a, d + 1) = Append(P, x)
    BY <2>z, PartNext
  <2>7. tr[j + 1] = Reached(Append(Q, x), d + 1)
    BY <1>2, <2>1, <2>2, <2>4, ContextApplies
  <2> HIDE DEF P, x
  <2>8. Append(Q, x) = Cat(R, Append(P, x))
    BY <1>2, <2>5, CatAppend
  <2> QED
    BY <2>3, <2>6, <2>7, <2>8
<1> HIDE DEF S
<1>7. n \in S
  BY <1>1, <1>5, <1>6, NatInd
<1> HIDE DEF J
<1>c. n \in Nat /\ n <= n
  BY <1>1
<1>8. tr[n] = J(n)
  BY <1>7, <1>c DEF S
<1> QED
  BY <1>1, <1>8 DEF J, a

\* The lines an edit takes away are passed over.
LEMMA RemovePhase ==
  ASSUME NEW old, AreLines(old), NEW e \in LineEdits, NEW ls, HunkShaped(ls, old, e),
         NEW Q, NEW s, e.at + e.gone <= Len(old),
         NEW tr, Walks(tr, "line", old, s, ls, Len(ls)), tr[e.above] = Reached(Q, e.at)
  PROVE  tr[e.above + e.gone] = Reached(Q, e.at + e.gone)
<1> DEFINE n == e.above
           g == e.gone
           b == e.at
           J(j) == Reached(Q, b + j)
           S == {j \in Nat : j <= g => tr[n + j] = J(j)}
<1>2. old \in Seq(LineSet)
  BY LinesSay
<1>1. n \in Nat /\ b \in Nat /\ g \in Nat /\ b + g <= Len(old) /\ Len(old) \in Nat
  BY <1>2, EditTyped, LenProperties
<1>3. /\ Len(ls) \in Nat /\ n + g <= Len(ls)
      /\ \A k \in 1..g : ls[n + k] = Line("remove", LineBody(old[b + k]))
  <2>1. Len(ls) = e.above + e.gone + Len(e.added)
    BY DEF HunkShaped
  <2>0. e.above \in Nat /\ e.gone \in Nat /\ Len(e.added) \in Nat
    BY EditTyped
  <2>2. Len(ls) \in Nat /\ n + g <= Len(ls)
    BY <2>0, <2>1
  <2>3. \A k \in 1..g : ls[n + k] = Line("remove", LineBody(old[b + k]))
    BY DEF HunkShaped
  <2> QED
    BY <2>2, <2>3
<1>a. tr[n] = Reached(Q, b)
  OBVIOUS
<1> HIDE DEF n, g, b
<1>4. \A k \in 1..g : tr[n + k] = ApplyLine(old, tr[n + k - 1], ls[n + k])
  <2> TAKE k \in 1..g
  <2> DEFINE i == n + k
  <2>1. i \in 1..Len(ls) /\ i = n + k
    BY <1>1, <1>3
  <2> HIDE DEF i
  <2>2. tr[i] = ApplyLine(old, tr[i - 1], ls[i])
    BY <2>1 DEF Walks, Step
  <2> QED
    BY <1>1, <2>1, <2>2
<1>5. 0 \in S
  <2>1. b + 0 = b /\ n + 0 = n
    BY <1>1
  <2>2. tr[n + 0] = J(0)
    BY <1>a, <2>1
  <2> HIDE DEF J
  <2> QED
    BY <2>2
<1>6. ASSUME NEW j \in Nat, j \in S PROVE j + 1 \in S
  <2> SUFFICES ASSUME j + 1 <= g PROVE tr[n + (j + 1)] = J(j + 1)
    OBVIOUS
  <2> DEFINE d == b + j
  <2>1. /\ j <= g /\ j + 1 \in 1..g /\ n + (j + 1) - 1 = n + j /\ d \in Nat /\ b + (j + 1) = d + 1
        /\ d + 1 <= Len(old)
    BY <1>1
  <2>2. tr[n + j] = Reached(Q, d)
    BY <1>6, <2>1
  <2>3. J(j + 1) = Reached(Q, d + 1)
    BY <2>1
  <2> HIDE DEF d, J
  <2>4. tr[n + (j + 1)] = ApplyLine(old, tr[n + (j + 1) - 1], ls[n + (j + 1)])
    BY <1>4, <2>1
  <2>5. ls[n + (j + 1)] = Line("remove", LineBody(old[d + 1]))
    BY <1>3, <2>1
  <2>6. ApplyLine(old, Reached(Q, d), Line("remove", LineBody(old[d + 1]))) = Reached(Q, d + 1)
    BY <1>2, <2>1, RemoveApplies
  <2> QED
    BY <2>1, <2>2, <2>3, <2>4, <2>5, <2>6
<1> HIDE DEF S
<1>7. g \in S
  BY <1>1, <1>5, <1>6, NatInd
<1> HIDE DEF J
<1>8. tr[n + g] = J(g)
  BY <1>1, <1>7 DEF S
<1> QED
  BY <1>8 DEF J, n, g, b

Says(R, X, u, j) == AreLines(R) /\ BodiesOf(R) = Cat(X, Part(u, 1, j))

\* Lines that say X, of which the last has ended or is the last of the file.
Rests(R, c, old) == IsOpen(R) => c = Len(old)
Landed(s, X, c, old) ==
    \E R : s = Reached(R, c) /\ AreLines(R) /\ BodiesOf(R) = X /\ Rests(R, c, old)

\* The lines an edit adds follow, each on a line of its own.
LEMMA AddPhase ==
  ASSUME NEW old, NEW e \in LineEdits, NEW ls, HunkShaped(ls, old, e),
         NEW Q, AreLines(Q), NEW s, NEW c, Rests(Q, c, old),
         NEW tr, Walks(tr, "line", old, s, ls, Len(ls)), tr[e.above + e.gone] = Reached(Q, c)
  PROVE  Landed(tr[Len(ls)], Cat(BodiesOf(Q), e.added), c, old)
<1> DEFINE u == e.added
           m == Len(u)
           o == e.above + e.gone
           X == BodiesOf(Q)
           Good(R, j) == Says(R, X, u, j) /\ Rests(R, c, old)
           S == {j \in Nat : j <= m => \E R : tr[o + j] = Reached(R, c) /\ Good(R, j)}
<1>0. e.above \in Nat /\ e.gone \in Nat /\ m \in Nat /\ u \in Seq({w \in Seq(Letters) : IsLine(w)})
  BY EditTyped
<1>1. o \in Nat /\ m \in Nat /\ \A k \in 1..m : u[k] \in Seq(Letters) /\ IsLine(u[k])
  BY <1>0, EditTyped
<1>2. X \in Seq(Seq(Letters))
  BY LinesSay
<1>3. u \in Seq(Seq(Letters)) /\ m = Len(u)
  <2>1. {w \in Seq(Letters) : IsLine(w)} \subseteq Seq(Letters)
    BY AddedIsLine
  <2> QED
    BY <1>0, <2>1
<1>4. Len(ls) = o + m /\ \A k \in 1..m : ls[o + k] = Line("add", u[k])
  BY DEF HunkShaped
<1>a. tr[o] = Reached(Q, c)
  OBVIOUS
<1> HIDE DEF u, m, o, X
<1>5. \A k \in 1..m : tr[o + k] = ApplyLine(old, tr[o + k - 1], ls[o + k])
  <2> TAKE k \in 1..m
  <2> DEFINE i == o + k
  <2>1. i \in 1..Len(ls) /\ i = o + k
    BY <1>1, <1>4
  <2> HIDE DEF i
  <2>2. tr[i] = ApplyLine(old, tr[i - 1], ls[i])
    BY <2>1 DEF Walks, Step
  <2> QED
    BY <1>1, <2>1, <2>2
<1>6. 0 \in S
  <2>1. o + 0 = o
    BY <1>1
  <2>2. Part(u, 1, 0) = <<>>
    BY <1>3, PartWhole
  <2>3. Cat(X, <<>>) = X
    BY <1>2, CatEmpty
  <2>4. Says(Q, X, u, 0)
    BY <2>2, <2>3 DEF Says, X
  <2>5. tr[o + 0] = Reached(Q, c) /\ Good(Q, 0)
    BY <1>a, <2>1, <2>4
  <2> HIDE DEF Good
  <2> QED
    BY <2>5
<1>7. ASSUME NEW j \in Nat, j \in S PROVE j + 1 \in S
  <2> SUFFICES ASSUME j + 1 <= m
               PROVE  \E R : tr[o + (j + 1)] = Reached(R, c) /\ Good(R, j + 1)
    OBVIOUS
  <2>1. j <= m /\ j + 1 \in 1..m /\ o + (j + 1) - 1 = o + j
    BY <1>1
  <2>2. PICK R : tr[o + j] = Reached(R, c) /\ Good(R, j)
    BY <1>7, <2>1
  <2> DEFINE l == u[j + 1]
             N == Append(EndedFor(R), Append(l, Newline))
             P == Part(u, 1, j)
  <2>3. AreLines(R) /\ BodiesOf(R) = Cat(X, P)
    BY <2>2 DEF Says
  <2> HIDE DEF Good
  <2>4. l \in Seq(Letters) /\ IsLine(l)
    BY <1>1, <2>1
  <2>5. AreLines(N) /\ ~IsOpen(N) /\ BodiesOf(N) = Append(BodiesOf(R), l)
    BY <2>3, <2>4, AddedSays
  <2>6. tr[o + (j + 1)] = ApplyLine(old, tr[o + (j + 1) - 1], ls[o + (j + 1)])
    BY <1>5, <2>1
  <2>7. ls[o + (j + 1)] = Line("add", l)
    BY <1>4, <2>1
  <2>8. tr[o + (j + 1)] = Reached(N, c)
    BY <2>1, <2>2, <2>6, <2>7, AddApplies
  <2>9. P \in Seq(Seq(Letters)) /\ l \in Seq(Letters)
    BY <1>3, <2>1, <2>4, PartFirst, AddedIsLine
  <2>10. Part(u, 1, j + 1) = Append(P, l)
    BY <1>3, <2>1, PartGrows
  <2> HIDE DEF N, P, l
  <2>11. Append(Cat(X, P), l) = Cat(X, Append(P, l))
    BY <1>2, <2>9, CatAppend
  <2>12. Says(N, X, u, j + 1)
    BY <2>3, <2>5, <2>10, <2>11 DEF Says
  <2>13. Good(N, j + 1)
    BY <2>5, <2>12 DEF Good, Rests
  <2> QED
    BY <2>8, <2>13
<1> HIDE DEF S
<1>8. m \in S
  BY <1>1, <1>6, <1>7, NatInd
<1> HIDE DEF Good
<1>9. PICK R : tr[o + m] = Reached(R, c) /\ Good(R, m)
  BY <1>1, <1>8 DEF S
<1>10. Part(u, 1, m) = u
  BY <1>3, PartWhole
<1>11. AreLines(R) /\ BodiesOf(R) = Cat(X, u) /\ Rests(R, c, old)
  BY <1>9, <1>10 DEF Good, Says
<1>12. tr[Len(ls)] = Reached(R, c)
  BY <1>4, <1>9
<1> QED
  BY <1>11, <1>12 DEF X, u, Landed

LEMMA HunkIsSeq ==
  ASSUME NEW lines, NEW e \in LineEdits, NEW ls, HunkShaped(ls, lines, e)
  PROVE  Len(ls) \in Nat /\ DOMAIN ls = 1..Len(ls)
BY LenProperties DEF HunkShaped, IsSequence

\* A hunk does what its edit means.
LEMMA HunkApplies ==
  ASSUME NEW old, AreLines(old), NEW e \in LineEdits, NEW grown, NEW s, NEW a, Applied(old, s, a),
         e.above <= e.at, a.at + e.above <= e.at, e.at + e.gone <= Len(old)
  PROVE  Applied(old, ApplyHunk(old, s, HunkOf(old, e, grown)), Rewrite(BodiesOf(old), a, e))
<1> DEFINE h == HunkOf(old, e, grown)
           ls == h.lines
           c == a.at
           b == e.at - e.above
           B == BodiesOf(old)
           d == e.at + e.gone
<1>1. PICK R : /\ s = Reached(R, c) /\ AreLines(R) /\ BodiesOf(R) = a.out
               /\ c \in Nat /\ c <= Len(old) /\ (IsOpen(R) => c = Len(old))
  BY DEF Applied
<1>2. Anchor(h.oldStart, h.oldCount) = b /\ ls = HunkLines(old, e)
  BY HunkAnchored
<1>3. HunkShaped(ls, old, e)
  BY <1>2, HunkShape
<1>4. old \in Seq(LineSet) /\ B \in Seq(Seq(Letters)) /\ Len(B) = Len(old)
  BY LinesSay
<1>5. e.at \in Nat /\ e.above \in Nat /\ e.gone \in Nat /\ Len(old) \in Nat
  BY <1>4, EditTyped, LenProperties
<1>6. /\ b \in Nat /\ c <= b /\ b <= Len(old) /\ ~(b < c) /\ ~(b > Len(old))
      /\ c <= e.at /\ e.at <= Len(old) /\ d \in Nat /\ d <= Len(old) /\ c <= e.at - e.above
  BY <1>1, <1>5
<1> DEFINE s0 == Reached(Cat(R, Part(old, c + 1, b)), b)
<1> HIDE DEF h, ls, b, d, c, B
<1>7. ApplyHunk(old, s, h) = ApplyLines(old, s0, ls)
  <2>1. s.ok /\ s.cursor = c /\ s.lines = R
    BY <1>1, ReachedFacts
  <2>2. s0 = [ok |-> TRUE, lines |-> s.lines \o SubSeq(old, s.cursor + 1, b), cursor |-> b]
    BY <2>1 DEF Reached, Cat, Part
  <2> HIDE DEF s0
  <2>3. ls = h.lines
    BY DEF ls
  <2> QED
    BY <1>2, <1>6, <2>1, <2>2, <2>3 DEF ApplyHunk
<1>8. Len(ls) \in Nat /\ DOMAIN ls = 1..Len(ls)
  BY <1>3, HunkIsSeq
<1>9. PICK tr : Walks(tr, "line", old, s0, ls, Len(ls)) /\ ApplyLines(old, s0, ls) = tr[Len(ls)]
  <2> DEFINE n == Len(ls)
  <2>1. n \in Nat /\ DOMAIN ls = 1..n
    BY <1>8
  <2> HIDE DEF n, s0
  <2>2. \E tr : Walks(tr, "line", old, s0, ls, n) /\ ApplyLines(old, s0, ls) = tr[n]
    BY <2>1, LineWalks
  <2> QED
    BY <2>2 DEF n
<1> DEFINE Q == Cat(R, Part(old, c + 1, e.at))
<1>10. s0 = Reached(Cat(R, Part(old, c + 1, e.at - e.above)), e.at - e.above)
  BY DEF b
<1> HIDE DEF s0
<1>11. tr[e.above] = Reached(Q, e.at)
  BY <1>1, <1>3, <1>6, <1>9, <1>10, ContextPhase
<1>12. AreLines(Q) /\ (IsOpen(Q) => e.at = Len(old))
  BY <1>1, <1>5, <1>6, NextLines
<1>13. BodiesOf(Q) = Cat(a.out, Part(B, c + 1, e.at))
  BY <1>1, <1>5, <1>6, NextLinesSay DEF B
<1> HIDE DEF Q
<1>14. tr[e.above + e.gone] = Reached(Q, d)
  BY <1>3, <1>9, <1>11, RemovePhase DEF d
<1>15. Rests(Q, d, old)
  BY <1>5, <1>6, <1>12 DEF d, Rests
<1>a. AreLines(Q) /\ Walks(tr, "line", old, s0, ls, Len(ls))
  BY <1>9, <1>12
<1>b. Landed(tr[Len(ls)], Cat(BodiesOf(Q), e.added), d, old)
  BY <1>3, <1>a, <1>14, <1>15, AddPhase
<1>16. PICK N : /\ tr[Len(ls)] = Reached(N, d) /\ AreLines(N)
                /\ BodiesOf(N) = Cat(BodiesOf(Q), e.added) /\ (IsOpen(N) => d = Len(old))
  BY <1>b DEF Landed, Rests
<1> DEFINE z == Rewrite(B, a, e)
<1>17. z.at = d /\ z.out = Cat(Cat(a.out, Part(B, c + 1, e.at)), e.added)
  BY DEF Rewrite, Cat, Part, c, d
<1> HIDE DEF z
<1>18. ApplyHunk(old, s, h) = Reached(N, z.at) /\ BodiesOf(N) = z.out
  BY <1>7, <1>9, <1>13, <1>16, <1>17
<1>19. Applied(old, ApplyHunk(old, s, h), z)
  BY <1>6, <1>16, <1>17, <1>18 DEF Applied
<1> QED
  BY <1>19 DEF h, z, B

(***************************************************************************)
(* Applying a patch                                                        *)
(***************************************************************************)

\* Edits in the order of the file that leave each other alone and stay in it.
Apart(edits, n, lines) ==
    /\ n \in Nat /\ DOMAIN edits = 1..n
    /\ \A k \in 1..n : edits[k] \in LineEdits /\ Fits(edits[k], lines)
    /\ \A k \in 1..(n - 1) :
          edits[k].at + edits[k].gone + edits[k + 1].above <= edits[k + 1].at
HunksFor(hs, old, edits, n) ==
    /\ DOMAIN hs = 1..n
    /\ \A k \in 1..n : \E grown : hs[k] = HunkOf(old, edits[k], grown)

\* Where the edits so far end.
EndOf(edits, k) == IF k = 0 THEN 0 ELSE edits[k].at + edits[k].gone
LEMMA EndsBefore ==
  ASSUME NEW lines \in Nat, NEW edits, NEW n, Apart(edits, n, lines), NEW j \in Nat, j + 1 <= n
  PROVE  LET e == edits[j + 1]
         IN  /\ e \in LineEdits /\ e.above <= e.at /\ e.at + e.gone <= lines
             /\ EndOf(edits, j) + e.above <= e.at
<1>1. n \in Nat /\ j + 1 \in 1..n
  BY DEF Apart
<1>2. edits[j + 1] \in LineEdits /\ Fits(edits[j + 1], lines)
  BY <1>1 DEF Apart
<1>3. EndOf(edits, j) + edits[j + 1].above <= edits[j + 1].at
  <2>1. CASE j = 0
    <3>1. edits[j + 1].above \in Nat /\ edits[j + 1].at \in Nat
      BY <1>2, EditTyped
    <3>2. edits[j + 1].above <= edits[j + 1].at
      BY <1>2 DEF Fits
    <3>3. EndOf(edits, j) = 0
      BY <2>1 DEF EndOf
    <3> QED
      BY <3>1, <3>2, <3>3
  <2>2. CASE j # 0
    <3>1. j \in 1..(n - 1)
      BY <1>1, <2>2
    <3>2. EndOf(edits, j) = edits[j].at + edits[j].gone
      BY <2>2 DEF EndOf
    <3> QED
      BY <3>1, <3>2 DEF Apart
  <2> QED
    BY <2>1, <2>2
<1> QED
  BY <1>2, <1>3 DEF Fits

\* Hunk by hunk, the file becomes what the edits mean.
LEMMA HunksApply ==
  ASSUME NEW old, AreLines(old), NEW edits, NEW n, Apart(edits, n, Len(old)),
         NEW hs, HunksFor(hs, old, edits, n)
  PROVE  Applied(old, ApplyHunks(old, hs), Rewrites(BodiesOf(old), edits))
<1> DEFINE B == BodiesOf(old)
<1>1. n \in Nat /\ DOMAIN edits = 1..n /\ DOMAIN hs = 1..n
  BY DEF Apart, HunksFor
<1>2. old \in Seq(LineSet) /\ Len(old) \in Nat /\ B \in Seq(Seq(Letters))
  BY LinesSay, LenProperties
<1>3. \E tr : Walks(tr, "hunk", old, Untouched, hs, n) /\ ApplyHunks(old, hs) = tr[n]
  BY <1>1, HunkWalks
<1>4. PICK tr : Walks(tr, "hunk", old, Untouched, hs, n) /\ ApplyHunks(old, hs) = tr[n]
  BY <1>3
<1> HIDE DEF B
<1>5. \E to : Walks(to, "edit", B, NoEdits, edits, n) /\ Rewrites(B, edits) = to[n]
  BY <1>1, EditWalks
<1>6. PICK to : Walks(to, "edit", B, NoEdits, edits, n) /\ Rewrites(B, edits) = to[n]
  BY <1>5
<1> DEFINE Meet(j) == Applied(old, tr[j], to[j]) /\ to[j].at = EndOf(edits, j)
           S == {j \in Nat : j <= n => Meet(j)}
<1>7. 0 \in S
  <2>1. tr[0] = Untouched /\ to[0] = NoEdits
    BY <1>4, <1>6 DEF Walks
  <2>2. Untouched = Reached(<<>>, 0) /\ NoEdits.at = 0 /\ NoEdits.out = <<>>
    BY DEF Untouched, Reached, NoEdits
  <2>3. AreLines(<<>>) /\ ~IsOpen(<<>>)
    BY NoLines DEF IsOpen
  <2>4. BodiesOf(<<>>) = <<>>
    BY DEF BodiesOf
  <2>5. Applied(old, Untouched, NoEdits)
    BY <1>2, <2>2, <2>3, <2>4 DEF Applied
  <2>6. Meet(0)
    BY <2>1, <2>2, <2>5 DEF EndOf
  <2> HIDE DEF Meet
  <2> QED
    BY <2>6
<1>8. ASSUME NEW j \in Nat, j \in S PROVE j + 1 \in S
  <2> SUFFICES ASSUME j + 1 <= n PROVE Meet(j + 1)
    <3> HIDE DEF Meet
    <3> QED
      OBVIOUS
  <2> DEFINE e == edits[j + 1]
             s == tr[j]
             a == to[j]
             i == j + 1
  <2>1. i \in 1..n /\ j <= n /\ i - 1 = j /\ i # 0 /\ i \in Nat
    BY <1>1
  <2>2. Applied(old, s, a) /\ a.at = EndOf(edits, j)
    BY <1>8, <2>1
  <2>3. /\ e \in LineEdits /\ e.above <= e.at /\ e.at + e.gone <= Len(old)
        /\ EndOf(edits, j) + e.above <= e.at
    BY <1>2, EndsBefore
  <2>4. PICK grown : hs[i] = HunkOf(old, e, grown)
    BY <2>1 DEF HunksFor
  <2>5. tr[i] = ApplyHunk(old, s, hs[i])
    <3>1. tr[i] = Step("hunk", old, tr[i - 1], hs[i])
      BY <1>4, <2>1 DEF Walks
    <3> QED
      BY <2>1, <3>1 DEF Step
  <2>6. to[i] = Rewrite(B, a, e)
    <3>1. to[i] = Step("edit", B, to[i - 1], edits[i])
      BY <1>6, <2>1 DEF Walks
    <3> QED
      BY <2>1, <3>1 DEF Step
  <2>7. Applied(old, tr[i], to[i])
    <3>1. Applied(old, ApplyHunk(old, s, HunkOf(old, e, grown)), Rewrite(BodiesOf(old), a, e))
      BY <2>2, <2>3, HunkApplies
    <3> QED
      BY <2>4, <2>5, <2>6, <3>1 DEF B
  <2>8. to[i].at = EndOf(edits, i)
    BY <2>1, <2>6 DEF Rewrite, EndOf
  <2> QED
    BY <2>7, <2>8
<1> HIDE DEF S
<1>9. n \in S
  BY <1>1, <1>7, <1>8, NatInd
<1>10. Meet(n)
  <2> HIDE DEF Meet
  <2> QED
    BY <1>1, <1>9 DEF S
<1> QED
  BY <1>4, <1>6, <1>10 DEF B

\* A patch of the edits applies, and makes the text the edits mean.
LEMMA PatchApplies ==
  ASSUME NEW t \in Seq(Letters), NEW edits, NEW n, Apart(edits, n, Len(SplitLines(t))),
         NEW hs, HunksFor(hs, SplitLines(t), edits, n)
  PROVE  ApplyPatch(t, hs).ok /\ Bodies(ApplyPatch(t, hs).text) = Edited(t, edits)
<1> DEFINE old == SplitLines(t)
           s == ApplyHunks(old, hs)
           B == BodiesOf(old)
           a == Rewrites(B, edits)
<1>1. AreLines(old)
  BY TextsSplit
<1>2. Applied(old, s, a)
  BY <1>1, HunksApply
<1>3. ApplyPatch(t, hs)
        = [ok |-> s.ok, text |-> FlattenSeq(s.lines \o SubSeq(old, s.cursor + 1, Len(old)))]
  BY DEF ApplyPatch
<1>4. Edited(t, edits) = a.out \o SubSeq(B, a.at + 1, Len(B))
  BY DEF Edited, Bodies
<1> HIDE DEF old, s, B, a
<1>5. PICK R : /\ s = Reached(R, a.at) /\ AreLines(R) /\ BodiesOf(R) = a.out
               /\ a.at \in Nat /\ a.at <= Len(old) /\ (IsOpen(R) => a.at = Len(old))
  BY <1>2 DEF Applied
<1>6. s.ok /\ s.lines = R /\ s.cursor = a.at
  BY <1>5, ReachedFacts
<1> DEFINE c == a.at
           N == Len(old)
           F == Cat(R, Part(old, c + 1, N))
<1>7. N \in Nat /\ Len(B) = N
  <2>1. old \in Seq(LineSet) /\ Len(BodiesOf(old)) = Len(old)
    BY <1>1, LinesSay
  <2> QED
    BY <2>1, LenProperties DEF B
<1>8. c \in Nat /\ c <= N /\ N <= N
  BY <1>5, <1>7
<1>9. AreLines(F)
  BY <1>1, <1>5, <1>7, <1>8, NextLines
<1>10. BodiesOf(F) = Cat(BodiesOf(R), Part(B, c + 1, N))
  BY <1>1, <1>5, <1>7, <1>8, NextLinesSay DEF B
<1>11. ApplyPatch(t, hs).ok /\ ApplyPatch(t, hs).text = FlattenSeq(F)
  BY <1>3, <1>6 DEF Cat, Part
<1>12. Edited(t, edits) = Cat(a.out, Part(B, c + 1, N))
  BY <1>4, <1>7 DEF Cat, Part
<1> HIDE DEF F
<1>13. SplitLines(FlattenSeq(F)) = F
  BY <1>9, LinesSplit
<1> QED
  BY <1>5, <1>10, <1>11, <1>12, <1>13 DEF Bodies

(***************************************************************************)
(* Reading a patch                                                         *)
(***************************************************************************)

LEMMA SequenceAppend ==
  ASSUME NEW s, IsSequence(s), NEW x
  PROVE  IsSequence(Append(s, x))
<1>1. PICK V : s \in Seq(V)
  BY DEF IsSequence
<1> DEFINE W == V \cup {x}
<1>2. s \in Seq(W) /\ x \in W
  <2>1. V \subseteq W
    OBVIOUS
  <2> QED
    BY <1>1, <2>1
<1> HIDE DEF W
<1>3. Append(s, x) \in Seq(W)
  BY <1>2
<1> QED
  BY <1>3 DEF IsSequence

\* What the reader has made of the lines so far.
Reads(out, s) == IsSequence(out) /\ Parsed(Unread, out) = s

LEMMA ReadsOn ==
  ASSUME NEW out, NEW s, Reads(out, s), NEW x
  PROVE  Reads(Append(out, x), ParseStep(s, x))
<1>1. PICK V : out \in Seq(V)
  BY DEF Reads, IsSequence
<1> DEFINE W == V \cup {x}
<1>2. out \in Seq(W) /\ x \in W
  <2>1. V \subseteq W
    OBVIOUS
  <2> QED
    BY <1>1, <2>1
<1> HIDE DEF W
<1>3. Parsed(Unread, Append(out, x)) = ParseStep(Parsed(Unread, out), x)
  BY <1>2, ParsesAppend
<1>4. IsSequence(Append(out, x))
  BY SequenceAppend DEF Reads
<1> QED
  BY <1>3, <1>4 DEF Reads

LEMMA NothingRead == Reads(<<>>, Unread)
<1>1. IsSequence(<<>>)
  BY DEF IsSequence
<1>2. Parsed(Unread, <<>>) = Unread
  <2>1. DOMAIN <<>> = 1..0 /\ 0 \in Nat
    OBVIOUS
  <2>2. PICK tr : Walks(tr, "parse", <<>>, Unread, <<>>, 0) /\ Parsed(Unread, <<>>) = tr[0]
    <3>1. \E tr : Walks(tr, "parse", <<>>, Unread, <<>>, 0) /\ Parsed(Unread, <<>>) = tr[0]
      BY <2>1, ParseWalks
    <3> QED
      BY <3>1
  <2> QED
    BY <2>2 DEF Walks
<1> QED
  BY <1>1, <1>2 DEF Reads

LEMMA NamesStart ==
  /\ StartsAs(Dashes \o <<"f">>, Dashes) /\ StartsAs(Pluses \o <<"f">>, Pluses)
  /\ ~StartsAs(<<>>, Dashes)
<1> DEFINE V == {"-", "+", " ", "f"}
           f == <<"f">>
<1>1. Dashes \in Seq(V) /\ Pluses \in Seq(V) /\ f \in Seq(V) /\ Len(Dashes) = 4 /\ Len(Pluses) = 4
  BY DEF Dashes, Pluses
<1> HIDE DEF V, f
<1>2. ASSUME NEW p \in Seq(V), Len(p) = 4 PROVE StartsAs(p \o f, p)
  <2> DEFINE c == Cat(p, f)
  <2>1. /\ c \in Seq(V) /\ Len(c) = Len(p) + Len(f)
        /\ \A i \in 1..Len(p) : c[i] = p[i]
    <3>1. p \in Seq(V) /\ f \in Seq(V)
      BY <1>1, <1>2
    <3> QED
      BY <3>1, CatSeq
  <2>2. Len(f) \in Nat
    BY <1>1, LenProperties
  <2>3. c = p \o f
    BY DEF Cat
  <2> HIDE DEF c
  <2>4. 4 <= Len(c)
    BY <1>2, <2>1, <2>2
  <2>5. /\ Part(c, 1, 4) \in Seq(V) /\ Len(Part(c, 1, 4)) = 4
        /\ \A i \in 1..4 : Part(c, 1, 4)[i] = c[i]
    BY <2>1, <2>4, PartFirst
  <2>6. Part(p, 1, 4) = p
    BY <1>2, PartWhole
  <2>7. \A i \in 1..4 : Part(c, 1, 4)[i] = p[i]
    BY <1>2, <2>1, <2>5
  <2>8. Part(c, 1, 4) = p
    BY <1>2, <2>5, <2>7
  <2> QED
    BY <1>2, <2>3, <2>4, <2>6, <2>8 DEF StartsAs, IsPrefix, Part
<1>3. ~StartsAs(<<>>, Dashes)
  BY <1>1 DEF StartsAs, IsPrefix
<1> QED
  BY <1>1, <1>2, <1>3 DEF f

LEMMA TwoAppended ==
  ASSUME NEW x, NEW y
  PROVE  Append(Append(<<>>, x), y) = <<x, y>>
<1> DEFINE V == {x, y}
           a == Append(<<>>, x)
           b == Append(a, y)
           c == <<x, y>>
<1>1. <<>> \in Seq(V) /\ x \in V /\ y \in V /\ c \in Seq(V) /\ Len(c) = 2 /\ c[1] = x /\ c[2] = y
  OBVIOUS
<1> HIDE DEF V, c
<1>2. a \in Seq(V) /\ Len(a) = 1 /\ a[1] = x
  BY <1>1
<1> HIDE DEF a
<1>a. a \in Seq(V) /\ y \in V
  BY <1>1, <1>2
<1>b. b = Append(a, y)
  OBVIOUS
<1> HIDE DEF b
<1>c. b \in Seq(V) /\ Len(b) = Len(a) + 1 /\ (\A i \in 1..Len(a) : b[i] = a[i]) /\ b[Len(a) + 1] = y
  BY <1>a, <1>b, AppendProperties
<1>3. b \in Seq(V) /\ Len(b) = 2 /\ b[1] = a[1] /\ b[2] = y
  BY <1>2, <1>c
<1>4. \A i \in 1..2 : b[i] = c[i]
  BY <1>1, <1>2, <1>3
<1>5. b = c
  BY <1>1, <1>3, <1>4
<1> QED
  BY <1>5 DEF a, b, c

\* The two lines that name the file.
LEMMA NamesRead ==
  Reads(<<Printed(Dashes \o <<"f">>), Printed(Pluses \o <<"f">>)>>, Reading(<< <<>> >>, 0, 0))
<1> DEFINE d == Printed(Dashes \o <<"f">>)
           p == Printed(Pluses \o <<"f">>)
           s == ParseStep(Unread, d)
<1>1. StartsAs(d.text, Dashes) /\ StartsAs(p.text, Pluses)
  BY NamesStart DEF Printed
<1> HIDE DEF d, p
<1>2. s = [Unread EXCEPT !.plus = TRUE, !.inFile = FALSE]
  BY <1>1 DEF ParseStep, Unread
<1>3. ~s.failed /\ s.plus /\ s.files = <<>>
  BY <1>2 DEF Unread
<1> HIDE DEF s
<1>4. Append(<<>>, <<>>) = << <<>> >>
  OBVIOUS
<1>5. ParseStep(s, p) = Reading(<< <<>> >>, 0, 0)
  BY <1>1, <1>3, <1>4 DEF ParseStep
<1>6. Reads(Append(<<>>, d), s)
  BY NothingRead, ReadsOn DEF s
<1>7. Reads(Append(Append(<<>>, d), p), ParseStep(s, p))
  BY <1>6, ReadsOn
<1>8. Append(Append(<<>>, d), p) = <<d, p>>
  BY TwoAppended
<1> QED
  BY <1>5, <1>7, <1>8 DEF d, p

\* A list is not empty and ends in what was put there last.
LEMMA EndOfAppend ==
  ASSUME NEW s, IsSequence(s), NEW x
  PROVE  /\ Len(Append(s, x)) = Len(s) + 1 /\ Len(s) \in Nat
         /\ DOMAIN Append(s, x) = 1..(Len(s) + 1)
         /\ \A i \in 1..Len(s) : Append(s, x)[i] = s[i]
         /\ Append(s, x)[Len(s) + 1] = x
<1>1. PICK V : s \in Seq(V)
  BY DEF IsSequence
<1> DEFINE W == V \cup {x}
<1>2. s \in Seq(W) /\ x \in W
  <2>1. V \subseteq W
    OBVIOUS
  <2> QED
    BY <1>1, <2>1
<1> HIDE DEF W
<1> DEFINE r == Append(s, x)
<1>3. r = Append(s, x)
  OBVIOUS
<1> HIDE DEF r
<1>4. /\ r \in Seq(W) /\ Len(r) = Len(s) + 1 /\ (\A i \in 1..Len(s) : r[i] = s[i])
      /\ r[Len(s) + 1] = x
  BY <1>2, <1>3, AppendProperties
<1>5. Len(s) \in Nat /\ Len(r) \in Nat /\ DOMAIN r = 1..Len(r)
  BY <1>2, <1>4, LenProperties
<1> QED
  BY <1>4, <1>5 DEF r

LEMMA LastReplaced ==
  ASSUME NEW s, IsSequence(s), NEW x, NEW y
  PROVE  [Append(s, x) EXCEPT ![Len(Append(s, x))] = y] = Append(s, y)
<1> DEFINE n == Len(s)
           a == Append(s, x)
           b == Append(s, y)
           c == [Append(s, x) EXCEPT ![Len(Append(s, x))] = y]
<1>1. n \in Nat /\ n = Len(s)
  BY EndOfAppend
<1>2. Len(a) = n + 1 /\ DOMAIN a = 1..(n + 1) /\ \A i \in 1..n : a[i] = s[i]
  BY EndOfAppend
<1>3. DOMAIN b = 1..(n + 1) /\ b[n + 1] = y /\ \A i \in 1..n : b[i] = s[i]
  BY EndOfAppend
<1>4. \E V : b \in Seq(V)
  BY SequenceAppend DEF IsSequence
<1>5. c = [a EXCEPT ![n + 1] = y]
  BY <1>2
<1>6. b = [i \in DOMAIN b |-> b[i]]
  <2>1. PICK V : b \in Seq(V)
    BY <1>4
  <2> HIDE DEF b
  <2> QED
    BY <2>1
<1>7. \E V : a \in Seq(V)
  BY SequenceAppend DEF IsSequence
<1>8. c = [i \in 1..(n + 1) |-> IF i = n + 1 THEN y ELSE a[i]]
  BY <1>2, <1>5, <1>7
<1> HIDE DEF a, b, c, n
<1>9. \A i \in 1..(n + 1) : b[i] = IF i = n + 1 THEN y ELSE a[i]
  <2> TAKE i \in 1..(n + 1)
  <2>1. CASE i = n + 1
    BY <1>3, <2>1
  <2>2. CASE i # n + 1
    <3>1. i \in 1..n
      BY <1>1, <2>2
    <3> QED
      BY <1>2, <1>3, <2>2, <3>1
  <2> QED
    BY <2>1, <2>2
<1>10. c = b
  BY <1>3, <1>6, <1>8, <1>9
<1> QED
  BY <1>10 DEF a, b, c

\* Of one file, the last hunk grows.
LEMMA OneFile ==
  ASSUME NEW x, NEW y
  PROVE  [<<x>> EXCEPT ![Len(<<x>>)] = y] = <<y>> /\ <<x>>[Len(<<x>>)] = x /\ Len(<<x>>) = 1
<1>1. Len(<<x>>) = 1 /\ <<x>>[1] = x
  OBVIOUS
<1>2. [<<x>> EXCEPT ![1] = y] = <<y>>
  OBVIOUS
<1> QED
  BY <1>1, <1>2

LEMMA FileGrown ==
  ASSUME NEW hs, IsSequence(hs), NEW h, NEW l
  PROVE  /\ FileGrows(<<hs>>, h) = <<Append(hs, h)>>
         /\ LastHunkGrows(<<Append(hs, h)>>, l) = <<Append(hs, HunkGrows(h, l))>>
<1>1. FileGrows(<<hs>>, h) = <<Append(hs, h)>>
  BY OneFile DEF FileGrows
<1> DEFINE a == Append(hs, h)
           g == HunkGrows(h, l)
<1>2. a[Len(a)] = h
  BY EndOfAppend
<1>3. [a EXCEPT ![Len(a)] = g] = Append(hs, g)
  BY LastReplaced
<1>4. HunksGrow(a, l) = [a EXCEPT ![Len(a)] = g]
  BY <1>2 DEF HunksGrow
<1> HIDE DEF a, g
<1>5. LastHunkGrows(<<a>>, l) = <<HunksGrow(a, l)>>
  BY OneFile DEF LastHunkGrows
<1> QED
  BY <1>1, <1>3, <1>4, <1>5 DEF a, g

LEMMA HunkGrown ==
  ASSUME NEW a, NEW b, NEW c, NEW d, NEW L, NEW l
  PROVE  HunkGrows(Hunk(a, b, c, d, L), l) = Hunk(a, b, c, d, Append(L, l))
BY DEF HunkGrows, Hunk

LEMMA ReadingSays ==
  ASSUME NEW f, NEW o, NEW w
  PROVE  LET s == Reading(f, o, w)
         IN  ~s.failed /\ ~s.plus /\ s.inFile /\ s.files = f /\ s.oldLeft = o /\ s.newLeft = w
BY DEF Reading

HeaderOf(h) == [header |-> <<h.oldStart, h.oldCount, h.newStart, h.newCount>>, text |-> <<>>]

\* A header begins a hunk.
LEMMA HeaderRead ==
  ASSUME NEW hs, IsSequence(hs), NEW a, NEW b, NEW c, NEW d, NEW L
  PROVE  ParseStep(Reading(<<hs>>, 0, 0), HeaderOf(Hunk(a, b, c, d, L)))
           = Reading(<<Append(hs, Hunk(a, b, c, d, <<>>))>>, b, d)
<1> DEFINE s == Reading(<<hs>>, 0, 0)
           l == HeaderOf(Hunk(a, b, c, d, L))
           h == Hunk(a, b, c, d, <<>>)
<1>1. ~s.failed /\ ~s.plus /\ s.inFile /\ s.files = <<hs>> /\ s.oldLeft = 0 /\ s.newLeft = 0
  BY ReadingSays
<1>2. l.header = <<a, b, c, d>> /\ l.text = <<>>
  BY DEF HeaderOf, Hunk
<1>3. /\ l.header # NoHeader
      /\ l.header[1] = a /\ l.header[2] = b /\ l.header[3] = c /\ l.header[4] = d
  BY <1>2 DEF NoHeader
<1>4. ~StartsAs(l.text, Dashes)
  BY <1>2, NamesStart
<1>5. FileGrows(<<hs>>, h) = <<Append(hs, h)>>
  BY FileGrown
<1> HIDE DEF s, l
<1>6. ParseStep(s, l) = Reading(FileGrows(<<hs>>, h), b, d)
  BY <1>1, <1>3, <1>4 DEF ParseStep
<1> QED
  BY <1>5, <1>6 DEF s, l

LEMMA TextAfterMark ==
  ASSUME NEW text, IsSequence(text), NEW m
  PROVE  /\ <<m>> \o text # <<>> /\ (<<m>> \o text)[1] = m /\ Tail(<<m>> \o text) = text
<1>1. PICK V : text \in Seq(V)
  BY DEF IsSequence
<1> DEFINE W == V \cup {m}
           f == <<m>>
           n == Len(text)
           q == Cat(f, text)
<1>2. text \in Seq(W) /\ f \in Seq(W) /\ Len(f) = 1 /\ f[1] = m
  <2>1. V \subseteq W /\ m \in W
    OBVIOUS
  <2> HIDE DEF W
  <2> QED
    BY <1>1, <2>1
<1> HIDE DEF W, f
<1>3. n \in Nat /\ n = Len(text) /\ DOMAIN text = 1..n
  BY <1>2, LenProperties
<1>4. q \in Seq(W) /\ Len(q) = 1 + n /\ q[1] = m
  <2>1. q \in Seq(W) /\ Len(q) = Len(f) + Len(text)
    BY <1>2, CatSeq
  <2>2. 1 \in 1..Len(f)
    BY <1>2
  <2>a. \A i \in 1..Len(f) : q[i] = f[i]
    BY <1>2, CatSeq
  <2> HIDE DEF q
  <2>3. q[1] = f[1]
    BY <2>2, <2>a
  <2> QED
    BY <1>2, <2>1, <2>3
<1>5. \A i \in 1..n : q[i + 1] = text[i]
  <2> TAKE i \in 1..n
  <2>1. Cat(f, text)[Len(f) + i] = text[i]
    BY <1>2, CatRest
  <2>2. Len(f) + i = i + 1
    BY <1>2, <1>3
  <2> QED
    BY <2>1, <2>2
<1>6. q = <<m>> \o text
  BY DEF Cat, f
<1> HIDE DEF q, n
<1>7. q # <<>>
  BY <1>3, <1>4
<1>8. Tail(q) \in Seq(W) /\ Len(Tail(q)) = n /\ \A i \in 1..n : Tail(q)[i] = q[i + 1]
  <2>1. Tail(q) \in Seq(W)
    BY <1>4, <1>7
  <2>2. Len(Tail(q)) = n /\ \A i \in 1..n : Tail(q)[i] = q[i + 1]
    BY <1>3, <1>4, <1>7
  <2> QED
    BY <2>1, <2>2
<1>9. Tail(q) = text
  BY <1>2, <1>3, <1>5, <1>8
<1> QED
  BY <1>4, <1>6, <1>7, <1>9

PrintedLine(l) == Printed(<<MarkOf(l.kind)>> \o l.text)

LEMMA LineShown ==
  ASSUME NEW kind, NEW text, IsSequence(text)
  PROVE  LET l == PrintedLine(Line(kind, text))
         IN  /\ l.header = NoHeader /\ l.text # <<>> /\ l.text[1] = MarkOf(kind)
             /\ Tail(l.text) = text
<1> DEFINE q == <<MarkOf(kind)>> \o text
<1>1. q # <<>> /\ q[1] = MarkOf(kind) /\ Tail(q) = text
  BY TextAfterMark
<1>2. PrintedLine(Line(kind, text)) = Printed(q)
  BY DEF PrintedLine, Line
<1> HIDE DEF q
<1> QED
  BY <1>1, <1>2 DEF Printed

LEMMA MarksDiffer ==
  MarkOf("context") = " " /\ MarkOf("remove") = "-" /\ MarkOf("add") = "+"
BY DEF MarkOf

\* A line of a hunk is read as what it was, while the header still counts it.
Goes(hs, h, o, w, l, oldLeft, newLeft) ==
    ParseStep(Reading(<<Append(hs, h)>>, o, w), PrintedLine(l))
      = Reading(<<Append(hs, HunkGrows(h, l))>>, oldLeft, newLeft)

LEMMA ContextRead ==
  ASSUME NEW hs, IsSequence(hs), NEW h, NEW o \in Nat, NEW w \in Nat, o > 0, w > 0,
         NEW text, IsSequence(text)
  PROVE  Goes(hs, h, o, w, Line("context", text), o - 1, w - 1)
<1> DEFINE s == Reading(<<Append(hs, h)>>, o, w)
           l == PrintedLine(Line("context", text))
           t == Line("context", text)
<1>1. /\ ~s.failed /\ ~s.plus /\ s.inFile /\ s.files = <<Append(hs, h)>> /\ s.oldLeft = o
      /\ s.newLeft = w
  BY ReadingSays
<1>2. l.header = NoHeader /\ l.text # <<>> /\ l.text[1] = " " /\ Tail(l.text) = text
  BY LineShown, MarksDiffer
<1>3. LastHunkGrows(<<Append(hs, h)>>, t) = <<Append(hs, HunkGrows(h, t))>>
  BY FileGrown
<1> HIDE DEF s, l
<1>4. ParseStep(s, l) = Reading(LastHunkGrows(s.files, t), s.oldLeft - 1, s.newLeft - 1)
  BY <1>1, <1>2 DEF ParseStep
<1> QED
  BY <1>1, <1>3, <1>4 DEF s, l, Goes

LEMMA RemoveRead ==
  ASSUME NEW hs, IsSequence(hs), NEW h, NEW o \in Nat, NEW w \in Nat, o > 0,
         NEW text, IsSequence(text)
  PROVE  Goes(hs, h, o, w, Line("remove", text), o - 1, w)
<1> DEFINE s == Reading(<<Append(hs, h)>>, o, w)
           l == PrintedLine(Line("remove", text))
           t == Line("remove", text)
<1>1. /\ ~s.failed /\ ~s.plus /\ s.inFile /\ s.files = <<Append(hs, h)>> /\ s.oldLeft = o
      /\ s.newLeft = w
  BY ReadingSays
<1>2. l.header = NoHeader /\ l.text # <<>> /\ l.text[1] = "-" /\ Tail(l.text) = text
  BY LineShown, MarksDiffer
<1>3. LastHunkGrows(<<Append(hs, h)>>, t) = <<Append(hs, HunkGrows(h, t))>>
  BY FileGrown
<1> HIDE DEF s, l
<1>4. ParseStep(s, l) = Reading(LastHunkGrows(s.files, t), s.oldLeft - 1, s.newLeft)
  BY <1>1, <1>2 DEF ParseStep
<1> QED
  BY <1>1, <1>3, <1>4 DEF s, l, Goes

LEMMA AddRead ==
  ASSUME NEW hs, IsSequence(hs), NEW h, NEW o \in Nat, NEW w \in Nat, w > 0,
         NEW text, IsSequence(text)
  PROVE  Goes(hs, h, o, w, Line("add", text), o, w - 1)
<1> DEFINE s == Reading(<<Append(hs, h)>>, o, w)
           l == PrintedLine(Line("add", text))
           t == Line("add", text)
<1>1. /\ ~s.failed /\ ~s.plus /\ s.inFile /\ s.files = <<Append(hs, h)>> /\ s.oldLeft = o
      /\ s.newLeft = w
  BY ReadingSays
<1>2. l.header = NoHeader /\ l.text # <<>> /\ l.text[1] = "+" /\ Tail(l.text) = text
  BY LineShown, MarksDiffer
<1>3. LastHunkGrows(<<Append(hs, h)>>, t) = <<Append(hs, HunkGrows(h, t))>>
  BY FileGrown
<1> HIDE DEF s, l
<1>4. ParseStep(s, l) = Reading(LastHunkGrows(s.files, t), s.oldLeft, s.newLeft - 1)
  BY <1>1, <1>2 DEF ParseStep
<1> QED
  BY <1>1, <1>3, <1>4 DEF s, l, Goes

\* Every line of a hunk is of the kind its place says.
KindAt(e, i) ==
    IF i <= e.above THEN "context" ELSE IF i <= e.above + e.gone THEN "remove" ELSE "add"
LEMMA LinesOfHunk ==
  ASSUME NEW old, AreLines(old), NEW e \in LineEdits, NEW ls, HunkShaped(ls, old, e),
         e.above <= e.at, e.at + e.gone <= Len(old), NEW i \in 1..Len(ls)
  PROVE  \E text : IsSequence(text) /\ ls[i] = Line(KindAt(e, i), text)
<1> DEFINE n == e.above
           g == e.gone
           m == Len(e.added)
           b == e.at
           N == Len(ls)
<1>1. old \in Seq(LineSet)
  BY LinesSay
<1>2. /\ n \in Nat /\ g \in Nat /\ m \in Nat /\ b \in Nat /\ Len(old) \in Nat
      /\ \A k \in 1..m : e.added[k] \in Seq(Letters) /\ IsLine(e.added[k])
  BY <1>1, EditTyped, LenProperties
<1>3. /\ N = n + g + m
      /\ \A k \in 1..n : ls[k] = Line("context", LineBody(old[b - n + k]))
      /\ \A k \in 1..g : ls[n + k] = Line("remove", LineBody(old[b + k]))
      /\ \A k \in 1..m : ls[n + g + k] = Line("add", e.added[k])
  BY DEF HunkShaped
<1>4. \A k \in 1..Len(old) : IsSequence(LineBody(old[k]))
  <2> TAKE k \in 1..Len(old)
  <2>1. old[k] \in LineSet
    BY <1>1, ElementOfSeq
  <2>2. LineBody(old[k]) \in Seq(Letters)
    BY <2>1, BodyTyped
  <2> QED
    BY <2>2 DEF IsSequence
<1>5. \A k \in 1..m : IsSequence(e.added[k])
  <2> TAKE k \in 1..m
  <2>1. e.added[k] \in Seq(Letters)
    BY <1>2, AddedIsLine
  <2> QED
    BY <2>1 DEF IsSequence
<1>6. n <= b /\ b + g <= Len(old)
  OBVIOUS
<1>7. KindAt(e, i) = IF i <= n THEN "context" ELSE IF i <= n + g THEN "remove" ELSE "add"
  BY DEF KindAt
<1> DEFINE u == e.added
<1>8. i \in 1..N
  OBVIOUS
<1> HIDE DEF n, g, m, b, N, u
<1>9. CASE i <= n
  <2> DEFINE k == b - n + i
  <2>1. i \in 1..n /\ k \in 1..Len(old)
    BY <1>2, <1>6, <1>8, <1>9
  <2> QED
    BY <1>3, <1>4, <1>7, <1>9, <2>1
<1>10. CASE ~(i <= n) /\ i <= n + g
  <2> DEFINE j == i - n
             k == b + j
  <2>1. j \in 1..g /\ k \in 1..Len(old) /\ n + j = i
    BY <1>2, <1>3, <1>6, <1>8, <1>10
  <2> HIDE DEF j
  <2> QED
    BY <1>3, <1>4, <1>7, <1>10, <2>1
<1>11. CASE ~(i <= n) /\ ~(i <= n + g)
  <2> DEFINE j == i - (n + g)
  <2>1. j \in 1..m /\ n + g + j = i
    BY <1>2, <1>3, <1>8, <1>11
  <2> HIDE DEF j
  <2> QED
    BY <1>3, <1>5, <1>7, <1>11, <2>1
<1> QED
  BY <1>9, <1>10, <1>11

\* What a hunk still lacks after some of its lines.
OldLeft(e, i) == IF i <= e.above + e.gone THEN e.above + e.gone - i ELSE 0
NewLeft(e, i) ==
    IF i <= e.above THEN e.above + Len(e.added) - i
    ELSE IF i <= e.above + e.gone THEN Len(e.added)
    ELSE e.above + e.gone + Len(e.added) - i
LEMMA LeftCounts ==
  ASSUME NEW e \in LineEdits, NEW j \in Nat, j + 1 <= e.above + e.gone + Len(e.added)
  PROVE  /\ OldLeft(e, j) \in Nat /\ NewLeft(e, j) \in Nat
         /\ KindAt(e, j + 1) = "context" =>
               /\ OldLeft(e, j) > 0 /\ NewLeft(e, j) > 0
               /\ OldLeft(e, j + 1) = OldLeft(e, j) - 1 /\ NewLeft(e, j + 1) = NewLeft(e, j) - 1
         /\ KindAt(e, j + 1) = "remove" =>
               /\ OldLeft(e, j) > 0
               /\ OldLeft(e, j + 1) = OldLeft(e, j) - 1 /\ NewLeft(e, j + 1) = NewLeft(e, j)
         /\ KindAt(e, j + 1) = "add" =>
               /\ NewLeft(e, j) > 0
               /\ OldLeft(e, j + 1) = OldLeft(e, j) /\ NewLeft(e, j + 1) = NewLeft(e, j) - 1
<1> DEFINE n == e.above
           g == e.gone
           m == Len(e.added)
           i == j + 1
<1>1. n \in Nat /\ g \in Nat /\ m \in Nat /\ i <= n + g + m
  BY EditTyped
<1>2. \A k \in {j, i} :
        /\ OldLeft(e, k) = IF k <= n + g THEN n + g - k ELSE 0
        /\ NewLeft(e, k) = IF k <= n THEN n + m - k ELSE IF k <= n + g THEN m ELSE n + g + m - k
  BY DEF OldLeft, NewLeft
<1>3. KindAt(e, i) = IF i <= n THEN "context" ELSE IF i <= n + g THEN "remove" ELSE "add"
  BY DEF KindAt
<1> HIDE DEF n, g, m
<1>4. OldLeft(e, j) \in Nat /\ NewLeft(e, j) \in Nat
  BY <1>1, <1>2
<1>5. CASE i <= n
  BY <1>1, <1>2, <1>3, <1>4, <1>5
<1>6. CASE ~(i <= n) /\ i <= n + g
  BY <1>1, <1>2, <1>3, <1>4, <1>6
<1>7. CASE ~(i <= n) /\ ~(i <= n + g)
  BY <1>1, <1>2, <1>3, <1>4, <1>7
<1> QED
  BY <1>5, <1>6, <1>7

\* One more line of a hunk.
LEMMA LineRead ==
  ASSUME NEW old, AreLines(old), NEW e \in LineEdits, NEW ls, HunkShaped(ls, old, e),
         e.above <= e.at, e.at + e.gone <= Len(old), NEW j \in Nat, j + 1 \in 1..Len(ls),
         NEW hs, IsSequence(hs), NEW h
  PROVE  Goes(hs, h, OldLeft(e, j), NewLeft(e, j), ls[j + 1], OldLeft(e, j + 1), NewLeft(e, j + 1))
<1> DEFINE i == j + 1
           o == OldLeft(e, j)
           w == NewLeft(e, j)
           kind == KindAt(e, i)
<1>1. PICK text : IsSequence(text) /\ ls[i] = Line(kind, text)
  BY LinesOfHunk
<1>2. i <= e.above + e.gone + Len(e.added)
  <2>1. Len(ls) = e.above + e.gone + Len(e.added)
    BY DEF HunkShaped
  <2>2. e.above \in Nat /\ e.gone \in Nat /\ Len(e.added) \in Nat
    BY EditTyped
  <2> QED
    BY <2>1, <2>2
<1>3. /\ o \in Nat /\ w \in Nat
      /\ kind = "context" => o > 0 /\ w > 0 /\ OldLeft(e, i) = o - 1 /\ NewLeft(e, i) = w - 1
      /\ kind = "remove" => o > 0 /\ OldLeft(e, i) = o - 1 /\ NewLeft(e, i) = w
      /\ kind = "add" => w > 0 /\ OldLeft(e, i) = o /\ NewLeft(e, i) = w - 1
  BY <1>2, LeftCounts
<1>4. kind = "context" \/ kind = "remove" \/ kind = "add"
  BY DEF KindAt
<1> HIDE DEF i, o, w, kind
<1>a. IsSequence(text) /\ IsSequence(hs)
  BY <1>1
<1> DEFINE Goal == Goes(hs, h, o, w, ls[i], OldLeft(e, i), NewLeft(e, i))
<1>5. ASSUME kind = "context" PROVE Goal
  <2>1. ls[i] = Line("context", text)
    BY <1>1, <1>5
  <2>2. o \in Nat /\ w \in Nat /\ o > 0 /\ w > 0
    BY <1>3, <1>5
  <2>3. Goes(hs, h, o, w, Line("context", text), o - 1, w - 1)
    BY <1>a, <2>2, ContextRead
  <2> QED
    BY <1>3, <1>5, <2>1, <2>3
<1>6. ASSUME kind = "remove" PROVE Goal
  <2>1. ls[i] = Line("remove", text)
    BY <1>1, <1>6
  <2>2. o \in Nat /\ w \in Nat /\ o > 0
    BY <1>3, <1>6
  <2>3. Goes(hs, h, o, w, Line("remove", text), o - 1, w)
    BY <1>a, <2>2, RemoveRead
  <2> QED
    BY <1>3, <1>6, <2>1, <2>3
<1>7. ASSUME kind = "add" PROVE Goal
  <2>1. ls[i] = Line("add", text)
    BY <1>1, <1>7
  <2>2. o \in Nat /\ w \in Nat /\ w > 0
    BY <1>3, <1>7
  <2>3. Goes(hs, h, o, w, Line("add", text), o, w - 1)
    BY <1>a, <2>2, AddRead
  <2> QED
    BY <1>3, <1>7, <2>1, <2>3
<1>8. Goal
  <2> HIDE DEF Goal
  <2> QED
    BY <1>4, <1>5, <1>6, <1>7
<1> QED
  BY <1>8 DEF i, o, w

\* A hunk is read as it was written.
LEMMA HunkRead ==
  ASSUME NEW old, AreLines(old), NEW e \in LineEdits, NEW ls, HunkShaped(ls, old, e),
         e.above <= e.at, e.at + e.gone <= Len(old),
         NEW hs, IsSequence(hs), NEW a, NEW c, NEW b, NEW d, b = e.above + e.gone,
         d = e.above + Len(e.added), NEW out, Reads(out, Reading(<<hs>>, 0, 0))
  PROVE  Reads(RenderHunk(out, Hunk(a, b, c, d, ls)),
               Reading(<<Append(hs, Hunk(a, b, c, d, ls))>>, 0, 0))
<1> DEFINE N == Len(ls)
           H(L) == Hunk(a, b, c, d, L)
           first == Append(out, HeaderOf(H(ls)))
           J(j) == Reading(<<Append(hs, H(Part(ls, 1, j)))>>, OldLeft(e, j), NewLeft(e, j))
<1>1. N \in Nat /\ DOMAIN ls = 1..N
  BY HunkIsSeq
<1>2. N = e.above + e.gone + Len(e.added) /\ IsSequence(ls)
  BY DEF HunkShaped
<1>3. e.above \in Nat /\ e.gone \in Nat /\ Len(e.added) \in Nat
  BY EditTyped
<1>4. PICK V : ls \in Seq(V)
  BY <1>2 DEF IsSequence
<1>5. H(ls).lines = ls
  BY DEF Hunk
<1>6. RenderHunk(out, H(ls)) = Prints(first, ls)
  BY <1>5 DEF RenderHunk, Prints, HeaderOf
<1>7. Reads(first, ParseStep(Reading(<<hs>>, 0, 0), HeaderOf(H(ls))))
  BY ReadsOn
<1>8. ParseStep(Reading(<<hs>>, 0, 0), HeaderOf(H(ls))) = Reading(<<Append(hs, H(<<>>))>>, b, d)
  BY HeaderRead
<1>9. OldLeft(e, 0) = b /\ NewLeft(e, 0) = d /\ OldLeft(e, N) = 0 /\ NewLeft(e, N) = 0
  <2>1. /\ OldLeft(e, 0) = b /\ NewLeft(e, 0) = d
    BY <1>3 DEF OldLeft, NewLeft
  <2>2. OldLeft(e, N) = 0 /\ NewLeft(e, N) = 0
    <3> DEFINE n == e.above
               g == e.gone
               m == Len(e.added)
    <3>1. n \in Nat /\ g \in Nat /\ m \in Nat /\ N = n + g + m
      BY <1>2, <1>3
    <3>2. /\ OldLeft(e, N) = IF N <= n + g THEN n + g - N ELSE 0
          /\ NewLeft(e, N) = IF N <= n THEN n + m - N ELSE IF N <= n + g THEN m ELSE n + g + m - N
      BY DEF OldLeft, NewLeft
    <3> HIDE DEF n, g, m, N
    <3> QED
      BY <3>1, <3>2
  <2> QED
    BY <2>1, <2>2
<1>10. Part(ls, 1, 0) = <<>> /\ Part(ls, 1, N) = ls
  BY <1>4, PartWhole
<1> HIDE DEF N, first
<1>11. PICK tr : Walks(tr, "print", <<>>, first, ls, N) /\ Prints(first, ls) = tr[N]
  <2>1. \E tr : Walks(tr, "print", <<>>, first, ls, N) /\ Prints(first, ls) = tr[N]
    BY <1>1, PrintWalks
  <2> QED
    BY <2>1
<1> DEFINE S == {j \in Nat : j <= N => Reads(tr[j], J(j))}
<1>12. 0 \in S
  <2>1. tr[0] = first
    BY <1>11 DEF Walks
  <2>2. J(0) = Reading(<<Append(hs, H(<<>>))>>, b, d)
    BY <1>9, <1>10
  <2> HIDE DEF J, H
  <2> QED
    BY <1>7, <1>8, <2>1, <2>2
<1>13. ASSUME NEW j \in Nat, j \in S PROVE j + 1 \in S
  <2> SUFFICES ASSUME j + 1 <= N PROVE Reads(tr[j + 1], J(j + 1))
    <3> HIDE DEF J
    <3> QED
      OBVIOUS
  <2> DEFINE i == j + 1
             P == Part(ls, 1, j)
             l == ls[i]
             h == H(P)
  <2>1. j <= N /\ i \in 1..N /\ i - 1 = j /\ i \in 1..Len(ls)
    BY <1>1 DEF N
  <2>2. Reads(tr[j], J(j))
    <3> HIDE DEF J
    <3> QED
      BY <1>13, <2>1
  <2>3. tr[i] = Append(tr[j], PrintedLine(l))
    <3>1. tr[i] = Step("print", <<>>, tr[i - 1], ls[i])
      BY <1>11, <2>1 DEF Walks
    <3> QED
      BY <2>1, <3>1 DEF Step, RenderLine, PrintedLine
  <2>4. Reads(tr[i], ParseStep(J(j), PrintedLine(l)))
    <3> HIDE DEF J, l, i
    <3> QED
      BY <2>2, <2>3, ReadsOn
  <2>5. J(j) = Reading(<<Append(hs, h)>>, OldLeft(e, j), NewLeft(e, j))
    OBVIOUS
  <2>6. Goes(hs, h, OldLeft(e, j), NewLeft(e, j), l, OldLeft(e, i), NewLeft(e, i))
    <3> HIDE DEF h
    <3> QED
      BY <2>1, LineRead
  <2>7. HunkGrows(h, l) = H(Append(P, l))
    BY HunkGrown
  <2>8. Append(P, l) = Part(ls, 1, i)
    BY <1>4, <2>1, PartGrows DEF N
  <2>9. J(i) = Reading(<<Append(hs, H(Append(P, l)))>>, OldLeft(e, i), NewLeft(e, i))
    BY <2>8
  <2> HIDE DEF J, h, l, P, i, H
  <2>10. ParseStep(J(j), PrintedLine(l)) = J(i)
    BY <2>5, <2>6, <2>7, <2>9 DEF Goes
  <2> QED
    BY <2>4, <2>10 DEF i
<1> HIDE DEF S
<1>14. N \in S
  BY <1>1, <1>12, <1>13, NatInd
<1>15. Reads(tr[N], J(N))
  <2> HIDE DEF J
  <2> QED
    BY <1>1, <1>14 DEF S
<1>16. J(N) = Reading(<<Append(hs, H(ls))>>, 0, 0)
  BY <1>9, <1>10
<1> HIDE DEF J
<1> QED
  BY <1>6, <1>11, <1>15, <1>16

\* Hunk by hunk, the reader makes of a patch the hunks it was made from.
LEMMA PatchReads ==
  ASSUME NEW old, AreLines(old), NEW edits, NEW n, Apart(edits, n, Len(old)),
         NEW hs, HunksFor(hs, old, edits, n), IsSequence(hs)
  PROVE  Reads(RenderPatch(hs), Reading(<<hs>>, 0, 0))
<1> DEFINE names == <<Printed(Dashes \o <<"f">>), Printed(Pluses \o <<"f">>)>>
           J(j) == Reading(<<Part(hs, 1, j)>>, 0, 0)
<1>1. n \in Nat /\ DOMAIN hs = 1..n
  BY DEF Apart, HunksFor
<1>2. PICK V : hs \in Seq(V)
  BY DEF IsSequence
<1>3. Len(hs) = n
  <2>1. Len(hs) \in Nat /\ DOMAIN hs = 1..Len(hs)
    BY <1>2, LenProperties
  <2> QED
    BY <1>1, <2>1
<1>4. RenderPatch(hs) = Renders(names, hs)
  BY DEF RenderPatch, Renders
<1>5. Reads(names, Reading(<< <<>> >>, 0, 0))
  BY NamesRead
<1>6. Part(hs, 1, 0) = <<>> /\ Part(hs, 1, n) = hs
  BY <1>2, <1>3, PartWhole
<1>7. Len(old) \in Nat
  <2>1. old \in Seq(LineSet)
    BY LinesSay
  <2> QED
    BY <2>1, LenProperties
<1> HIDE DEF names
<1>8. PICK tr : Walks(tr, "render", <<>>, names, hs, n) /\ Renders(names, hs) = tr[n]
  <2>1. \E tr : Walks(tr, "render", <<>>, names, hs, n) /\ Renders(names, hs) = tr[n]
    BY <1>1, RenderWalks
  <2> QED
    BY <2>1
<1> DEFINE S == {j \in Nat : j <= n => Reads(tr[j], J(j))}
<1>9. 0 \in S
  <2>1. tr[0] = names
    BY <1>8 DEF Walks
  <2>2. J(0) = Reading(<< <<>> >>, 0, 0)
    BY <1>6
  <2> HIDE DEF J
  <2> QED
    BY <1>5, <2>1, <2>2
<1>10. ASSUME NEW j \in Nat, j \in S PROVE j + 1 \in S
  <2> SUFFICES ASSUME j + 1 <= n PROVE Reads(tr[j + 1], J(j + 1))
    <3> HIDE DEF J
    <3> QED
      OBVIOUS
  <2> DEFINE i == j + 1
             P == Part(hs, 1, j)
             e == edits[i]
             ls == HunkLines(old, e)
             b == e.above + e.gone
             d == e.above + Len(e.added)
  <2>1. j <= n /\ i \in 1..n /\ i - 1 = j
    BY <1>1
  <2>2. Reads(tr[j], Reading(<<P>>, 0, 0))
    BY <1>10, <2>1
  <2>3. e \in LineEdits /\ e.above <= e.at /\ e.at + e.gone <= Len(old)
    BY <1>7, EndsBefore
  <2>4. HunkShaped(ls, old, e)
    BY <2>3, HunkShape
  <2>5. PICK a, c : hs[i] = Hunk(a, b, c, d, ls)
    <3>1. PICK grown : hs[i] = HunkOf(old, e, grown)
      BY <2>1 DEF HunksFor
    <3> QED
      BY <3>1 DEF HunkOf
  <2>6. tr[i] = RenderHunk(tr[j], hs[i])
    <3>1. tr[i] = Step("render", <<>>, tr[i - 1], hs[i])
      BY <1>8, <2>1 DEF Walks
    <3> QED
      BY <2>1, <3>1 DEF Step
  <2>7. IsSequence(P)
    <3>1. P \in Seq(V)
      BY <1>2, <1>3, <2>1, PartFirst
    <3> QED
      BY <3>1 DEF IsSequence
  <2>8. b = e.above + e.gone /\ d = e.above + Len(e.added)
    OBVIOUS
  <2>9. Part(hs, 1, i) = Append(P, hs[i])
    BY <1>2, <1>3, <2>1, PartGrows
  <2>10. J(i) = Reading(<<Append(P, hs[i])>>, 0, 0)
    BY <2>9
  <2> HIDE DEF J, P, ls, b, d, e, i
  <2>11. Reads(RenderHunk(tr[j], Hunk(a, b, c, d, ls)),
               Reading(<<Append(P, Hunk(a, b, c, d, ls))>>, 0, 0))
    BY <2>2, <2>3, <2>4, <2>7, <2>8, HunkRead
  <2> QED
    BY <2>5, <2>6, <2>10, <2>11 DEF i
<1> HIDE DEF S
<1>11. n \in S
  BY <1>1, <1>9, <1>10, NatInd
<1>12. Reads(tr[n], J(n))
  <2> HIDE DEF J
  <2> QED
    BY <1>1, <1>11 DEF S
<1>13. J(n) = Reading(<<hs>>, 0, 0)
  BY <1>6
<1> HIDE DEF J
<1> QED
  BY <1>4, <1>8, <1>12, <1>13

LEMMA PatchParses ==
  ASSUME NEW old, AreLines(old), NEW edits, NEW n, Apart(edits, n, Len(old)),
         NEW hs, HunksFor(hs, old, edits, n), IsSequence(hs)
  PROVE  ParsePatch(RenderPatch(hs)) = <<hs>>
<1> DEFINE s == Reading(<<hs>>, 0, 0)
<1>1. Parsed(Unread, RenderPatch(hs)) = s
  BY PatchReads DEF Reads
<1>2. ~s.failed /\ ~s.plus /\ s.files = <<hs>> /\ s.oldLeft = 0 /\ s.newLeft = 0
  BY ReadingSays
<1> HIDE DEF s
<1> QED
  BY <1>1, <1>2 DEF ParsePatch, Parsed

\* The hunks of a list of edits.
LEMMA HunksMade ==
  ASSUME NEW t, NEW edits, NEW n \in Nat, DOMAIN edits = 1..n
  PROVE  HunksFor(HunksOf(t, edits), SplitLines(t), edits, n) /\ IsSequence(HunksOf(t, edits))
<1> DEFINE hs == HunksOf(t, edits)
           V == {hs[k] : k \in 1..n}
<1>1. /\ hs = [k \in 1..n |-> hs[k]]
      /\ \A k \in 1..n : \E grown : hs[k] = HunkOf(SplitLines(t), edits[k], grown)
  BY DEF HunksOf
<1> HIDE DEF hs
<1>2. \A k \in 1..n : hs[k] \in V
  OBVIOUS
<1> HIDE DEF V
<1>3. hs \in Seq(V)
  BY <1>1, <1>2, ListIsSeq
<1>4. IsSequence(hs)
  BY <1>3 DEF IsSequence
<1>5. HunksFor(hs, SplitLines(t), edits, n)
  BY <1>1 DEF HunksFor
<1> QED
  BY <1>4, <1>5 DEF hs

(***************************************************************************)
(* New files                                                               *)
(***************************************************************************)

\* The lines of a file that is added as a whole.
NewLines == {w \in Seq(Letters) : IsLine(w)}
AddLines == {Line("add", w) : w \in NewLines}
Adds(u) == [k \in DOMAIN u |-> Line("add", u[k])]

LEMMA AddsSeq ==
  ASSUME NEW u \in Seq(NewLines)
  PROVE  /\ Len(Adds(u)) = Len(u) /\ Len(u) \in Nat
         /\ \A i \in 1..Len(u) : Adds(u)[i] = Line("add", u[i])
         /\ Adds(u) \in Seq(AddLines)
<1> DEFINE n == Len(u)
           B == Adds(u)
<1>1. n \in Nat /\ DOMAIN u = 1..n /\ \A i \in 1..n : u[i] \in NewLines
  BY LenProperties, ElementOfSeq
<1>2. B = [i \in 1..n |-> B[i]] /\ \A i \in 1..n : B[i] = Line("add", u[i])
  BY <1>1 DEF Adds
<1> HIDE DEF n, B
<1>3. \A i \in 1..n : B[i] \in AddLines
  BY <1>1, <1>2 DEF AddLines
<1>4. B \in Seq(AddLines) /\ Len(B) = n
  BY <1>1, <1>2, <1>3, ListIsSeq
<1> QED
  BY <1>1, <1>2, <1>4 DEF B, n

LEMMA AddsCat ==
  ASSUME NEW R \in Seq(NewLines), NEW S \in Seq(NewLines)
  PROVE  Adds(Cat(R, S)) = Cat(Adds(R), Adds(S))
<1> DEFINE V == NewLines
           W == AddLines
           B == Adds(R)
           C == Adds(S)
           n == Len(R)
           m == Len(S)
           L == Cat(R, S)
           P == Adds(L)
           Q == Cat(B, C)
<1>1. n \in Nat /\ m \in Nat /\ n = Len(R) /\ m = Len(S)
  BY LenProperties
<1>2. L \in Seq(V) /\ Len(L) = n + m
  BY CatSeq
<1>3. \A i \in 1..n : L[i] = R[i]
  BY CatSeq
<1>4. \A i \in 1..m : L[n + i] = S[i]
  BY CatSeq
<1>5. B \in Seq(W) /\ Len(B) = n
  BY AddsSeq
<1>6. \A i \in 1..n : B[i] = Line("add", R[i])
  BY AddsSeq
<1>7. C \in Seq(W) /\ Len(C) = m
  BY AddsSeq
<1>8. \A i \in 1..m : C[i] = Line("add", S[i])
  BY AddsSeq
<1> HIDE DEF n, m, L, B, C
<1>9. P \in Seq(W) /\ Len(P) = Len(L)
  BY <1>2, AddsSeq
<1>10. \A i \in 1..Len(L) : P[i] = Line("add", L[i])
  BY <1>2, AddsSeq
<1>11. Q \in Seq(W) /\ Len(Q) = Len(B) + Len(C)
  BY <1>5, <1>7, CatSeq
<1>12. \A i \in 1..Len(B) : Q[i] = B[i]
  BY <1>5, <1>7, CatSeq
<1>13. \A i \in 1..Len(C) : Q[Len(B) + i] = C[i]
  BY <1>5, <1>7, CatRest
<1> HIDE DEF P, Q
<1>14. \A i \in 1..(n + m) : P[i] = Q[i]
  <2> TAKE i \in 1..(n + m)
  <2>1. CASE i <= n
    <3>1. i \in 1..n /\ i \in 1..Len(L) /\ i \in 1..Len(B)
      BY <1>1, <1>2, <1>5, <2>1
    <3> QED
      BY <1>3, <1>6, <1>10, <1>12, <3>1
  <2>2. CASE i > n
    <3> DEFINE j == i - n
    <3>1. j \in 1..m /\ n + j = i /\ i \in 1..Len(L) /\ j \in 1..Len(C)
      BY <1>1, <1>2, <1>7, <2>2
    <3> HIDE DEF j
    <3>2. P[i] = Line("add", S[j])
      BY <1>4, <1>10, <3>1
    <3>3. Q[i] = Line("add", S[j])
      BY <1>5, <1>8, <1>13, <3>1
    <3> QED
      BY <3>2, <3>3
  <2> QED
    BY <1>1, <2>1, <2>2
<1>15. P = Q
  BY <1>2, <1>5, <1>7, <1>9, <1>11, <1>14, SeqEqual
<1> QED
  BY <1>15 DEF P, Q, L, B, C

LEMMA AddsOnly ==
  ASSUME NEW lines, NEW e \in LineEdits, e.above = 0, e.gone = 0
  PROVE  HunkLines(lines, e) = Adds(e.added) /\ e.added \in Seq(NewLines)
<1> DEFINE K == [k \in 1..(e.above + e.gone) |->
                   Line(IF k <= e.above THEN "context" ELSE "remove",
                        LineBody(lines[e.at - e.above + k]))]
           D == Adds(e.added)
<1>1. e.added \in Seq(NewLines)
  BY EditTyped DEF NewLines
<1>2. HunkLines(lines, e) = Cat(K, D)
  BY DEF HunkLines, Cat, Adds
<1>3. K = <<>>
  <2>1. 1..(e.above + e.gone) = {}
    OBVIOUS
  <2> QED
    BY <2>1
<1>4. D \in Seq(AddLines)
  BY <1>1, AddsSeq
<1> HIDE DEF K, D
<1>5. Cat(<<>>, D) = D
  BY <1>4, CatEmpty
<1> QED
  BY <1>1, <1>2, <1>3, <1>5 DEF D

\* Lines that are written out with an end each say themselves.
LEMMA CreatedSays ==
  ASSUME NEW X \in Seq(NewLines)
  PROVE  Bodies(FlattenSeq([k \in DOMAIN Adds(X) |-> Append(Adds(X)[k].text, Newline)])) = X
<1> DEFINE n == Len(X)
           R == [k \in DOMAIN Adds(X) |-> Append(Adds(X)[k].text, Newline)]
<1>1. n \in Nat /\ DOMAIN X = 1..n /\ \A i \in 1..n : X[i] \in Seq(Letters) /\ IsLine(X[i])
  <2>1. n \in Nat /\ DOMAIN X = 1..n /\ \A i \in 1..n : X[i] \in NewLines
    BY LenProperties, ElementOfSeq
  <2> QED
    BY <2>1 DEF NewLines
<1>2. DOMAIN Adds(X) = 1..n /\ \A i \in 1..n : Adds(X)[i].text = X[i]
  BY <1>1 DEF Adds, Line
<1>3. R = [k \in 1..n |-> R[k]] /\ \A k \in 1..n : R[k] = Append(X[k], Newline)
  BY <1>2
<1>4. X \in [1..n -> Seq(Letters)]
  BY <1>1
<1>x. X = [k \in 1..n |-> X[k]]
  BY <1>4
<1> HIDE DEF n, R
<1>5. \A k \in 1..n : R[k] \in LineSet /\ HasEnding(R[k]) /\ X[k] \in Seq(Letters)
  BY <1>1, <1>3, AddedIsLine
<1>6. R \in Seq(LineSet) /\ Len(R) = n
  BY <1>1, <1>3, <1>5, ListIsSeq
<1>7. AreLines(R)
  <2>1. \A k \in 1..(n - 1) : HasEnding(R[k])
    BY <1>1, <1>5
  <2> QED
    BY <1>6, <2>1 DEF AreLines
<1>8. SplitLines(FlattenSeq(R)) = R
  BY <1>7, LinesSplit
<1>9. \A k \in 1..n : LineBody(R[k]) = X[k]
  BY <1>3, <1>5, BodyEnded
<1>10. DOMAIN R = 1..n
  BY <1>3
<1>11. BodiesOf(R) = X
  BY <1>x, <1>9, <1>10 DEF BodiesOf
<1> QED
  BY <1>8, <1>11 DEF Bodies, R

LEMMA NothingSplit == SplitLines(<<>>) = <<>> /\ Bodies(<<>>) = <<>> /\ Len(SplitLines(<<>>)) = 0
<1>1. FlattenSeq(<<>>) = <<>>
  BY DEF FlattenSeq
<1>2. SplitLines(FlattenSeq(<<>>)) = <<>>
  BY NoLines, LinesSplit
<1>3. SplitLines(<<>>) = <<>>
  BY <1>1, <1>2
<1>4. BodiesOf(<<>>) = <<>>
  BY DEF BodiesOf
<1> QED
  BY <1>3, <1>4 DEF Bodies

LEMMA RewriteSays ==
  ASSUME NEW lines, NEW a, NEW e
  PROVE  /\ Rewrite(lines, a, e).at = e.at + e.gone
         /\ Rewrite(lines, a, e).out = Cat(Cat(a.out, Part(lines, a.at + 1, e.at)), e.added)
BY DEF Rewrite, Cat, Part

\* The edits of a file that is not there can only add.
LEMMA CreatedLines ==
  ASSUME NEW edits, NEW n, Apart(edits, n, 0), NEW hs, NEW old, HunksFor(hs, old, edits, n)
  PROVE  \E X \in Seq(NewLines) : /\ FlattenSeq([k \in DOMAIN hs |-> hs[k].lines]) = Adds(X)
                                  /\ Edited(<<>>, edits) = X
<1> DEFINE R == [k \in DOMAIN hs |-> hs[k].lines]
<1>1. n \in Nat /\ DOMAIN edits = 1..n /\ DOMAIN hs = 1..n
  BY DEF Apart, HunksFor
<1>2. \A k \in 1..n : /\ edits[k] \in LineEdits /\ edits[k].at = 0 /\ edits[k].gone = 0
                      /\ edits[k].above = 0
  <2> TAKE k \in 1..n
  <2> DEFINE e == edits[k]
  <2>1. e \in LineEdits /\ Fits(e, 0)
    BY DEF Apart
  <2>2. e.at \in Nat /\ e.gone \in Nat /\ e.above \in Nat
    BY <2>1, EditTyped
  <2>3. e.at + e.gone <= 0 /\ e.above <= e.at
    BY <2>1 DEF Fits
  <2>4. e.at = 0 /\ e.gone = 0 /\ e.above = 0
    <3> HIDE DEF e
    <3> QED
      BY <2>2, <2>3
  <2> QED
    BY <2>1, <2>4
<1>3. \A k \in 1..n : R[k] = Adds(edits[k].added) /\ edits[k].added \in Seq(NewLines)
  <2> TAKE k \in 1..n
  <2> DEFINE e == edits[k]
  <2>1. PICK grown : hs[k] = HunkOf(old, e, grown)
    BY DEF HunksFor
  <2>2. hs[k].lines = HunkLines(old, e)
    BY <2>1 DEF HunkOf, Hunk
  <2>3. e \in LineEdits /\ e.above = 0 /\ e.gone = 0
    BY <1>2
  <2> HIDE DEF e
  <2>4. HunkLines(old, e) = Adds(e.added) /\ e.added \in Seq(NewLines)
    BY <2>3, AddsOnly
  <2>5. R[k] = hs[k].lines
    BY <1>1
  <2> QED
    BY <2>2, <2>4, <2>5 DEF e
<1>4. R = [k \in 1..n |-> R[k]]
  BY <1>1
<1> HIDE DEF R
<1>5. \A k \in 1..n : R[k] \in Seq(AddLines)
  <2> TAKE k \in 1..n
  <2> DEFINE u == edits[k].added
  <2>1. u \in Seq(NewLines) /\ R[k] = Adds(u)
    BY <1>3
  <2> HIDE DEF u
  <2> QED
    BY <2>1, AddsSeq
<1>6. R \in [1..n -> Seq(AddLines)]
  BY <1>4, <1>5
<1>7. PICK pre \in [0..n -> Seq(AddLines)] : Growing(pre, n, R)
  BY <1>1, <1>6, GrowingExists
<1>8. pre[0] = <<>> /\ \A k \in 1..n : pre[k] = Cat(pre[k - 1], R[k])
  BY <1>7 DEF Growing
<1>9. FlattenSeq(R) = pre[n]
  BY <1>1, <1>6, <1>8, FlattenIsLast
<1>10. PICK to : Walks(to, "edit", <<>>, NoEdits, edits, n) /\ Rewrites(<<>>, edits) = to[n]
  <2>1. \E to : Walks(to, "edit", <<>>, NoEdits, edits, n) /\ Rewrites(<<>>, edits) = to[n]
    BY <1>1, EditWalks
  <2> QED
    BY <2>1
<1> DEFINE Same(j) == to[j].at = 0 /\ to[j].out \in Seq(NewLines) /\ pre[j] = Adds(to[j].out)
           S == {j \in Nat : j <= n => Same(j)}
<1>e. Part(<<>>, 1, 0) = <<>>
  <2>1. <<>> \in Seq(NewLines)
    OBVIOUS
  <2> QED
    BY <2>1, PartWhole
<1>11. 0 \in S
  <2>1. to[0] = NoEdits
    BY <1>10 DEF Walks
  <2>2. Adds(<<>>) = <<>> /\ <<>> \in Seq(NewLines)
    BY DEF Adds
  <2> QED
    BY <1>8, <2>1, <2>2 DEF NoEdits
<1>12. ASSUME NEW j \in Nat, j \in S PROVE j + 1 \in S
  <2> SUFFICES ASSUME j + 1 <= n PROVE Same(j + 1)
    <3> HIDE DEF Same
    <3> QED
      OBVIOUS
  <2> DEFINE i == j + 1
             e == edits[i]
             a == to[j]
             u == e.added
             v == a.out
  <2>1. j <= n /\ i \in 1..n /\ i - 1 = j
    BY <1>1
  <2>2. a.at = 0 /\ v \in Seq(NewLines) /\ pre[j] = Adds(v)
    BY <1>12, <2>1
  <2>3. e.at = 0 /\ e.gone = 0 /\ R[i] = Adds(u) /\ u \in Seq(NewLines)
    BY <1>2, <1>3, <2>1
  <2>4. to[i] = Rewrite(<<>>, a, e)
    <3>1. to[i] = Step("edit", <<>>, to[i - 1], edits[i])
      BY <1>10, <2>1 DEF Walks
    <3> QED
      BY <2>1, <3>1 DEF Step
  <2>5. to[i].at = 0 + 0 /\ to[i].out = Cat(Cat(v, Part(<<>>, 0 + 1, 0)), u)
    <3>1. /\ to[i].at = e.at + e.gone
          /\ to[i].out = Cat(Cat(v, Part(<<>>, a.at + 1, e.at)), u)
      BY <2>4, RewriteSays
    <3> HIDE DEF e, a
    <3> QED
      BY <2>2, <2>3, <3>1
  <2>6. Part(<<>>, 0 + 1, 0) = <<>> /\ Cat(v, <<>>) = v
    BY <1>e, <2>2, CatEmpty
  <2>7. pre[i] = Cat(pre[j], R[i])
    BY <1>8, <2>1
  <2> HIDE DEF u, v
  <2>8. Cat(v, u) \in Seq(NewLines)
    BY <2>2, <2>3, CatSeq
  <2>9. Adds(Cat(v, u)) = Cat(Adds(v), Adds(u))
    BY <2>2, <2>3, AddsCat
  <2> QED
    BY <2>2, <2>3, <2>5, <2>6, <2>7, <2>8, <2>9
<1> HIDE DEF S
<1>13. n \in S
  BY <1>1, <1>11, <1>12, NatInd
<1>14. Same(n)
  <2> HIDE DEF Same
  <2> QED
    BY <1>1, <1>13 DEF S
<1> DEFINE X == to[n].out
<1>15. Edited(<<>>, edits) = Cat(X, Part(<<>>, 0 + 1, 0))
  <2>1. Edited(<<>>, edits) = to[n].out \o SubSeq(<<>>, to[n].at + 1, Len(<<>>))
    BY <1>10, NothingSplit DEF Edited
  <2>2. Len(<<>>) = 0
    OBVIOUS
  <2> QED
    BY <1>14, <2>1, <2>2 DEF Cat, Part
<1>16. Cat(X, <<>>) = X
  BY <1>14, CatEmpty
<1> QED
  BY <1>e, <1>9, <1>14, <1>15, <1>16 DEF R

(***************************************************************************)
(* Plans                                                                   *)
(***************************************************************************)

\* A plan that shows x, or refuses it for another reason than the patch.
Shows(plan, x) ==
    /\ plan.outcome \notin {"not a patch", "does not apply"}
    /\ plan.outcome = "accepted" => plan.shown = x

LEMMA RefusedShows ==
  ASSUME NEW o, NEW x, NEW why, why \notin {"not a patch", "does not apply", "accepted"}
  PROVE  Shows(Refused(o, why), x)
<1>1. Refused(o, why).outcome = why
  BY DEF Refused, NoPlan
<1> QED
  BY <1>1 DEF Shows

LEMMA Reasons ==
  ASSUME NEW o, NEW x
  PROVE  /\ Shows(Refused(o, "edits a span"), x)
         /\ Shows(Refused(o, "declares or doubts an alias"), x)
         /\ Shows(Refused(o, "does not apply to the real file"), x)
         /\ Shows(Refused(o, "brings in an alias"), x)
         /\ Shows(Refused(o, "does not render to the mirror"), x)
         /\ Shows(Refused(o, "does not come back"), x)
         /\ Shows(Refused(o, "adds nothing"), x)
         /\ Shows(Refused(o, "leaves a rest"), x)
BY RefusedShows

LEMMA AcceptedShows == \A o, r, x : Shows(Accepted(o, r, x), x)
BY DEF Accepted, Shows

LEMMA LandedShows ==
  ASSUME NEW landed, NEW shown
  PROVE  Shows(PlanLanded(landed, shown), shown)
BY Reasons, AcceptedShows DEF PlanLanded

LEMMA ModifyShows ==
  ASSUME NEW t, NEW mirror, NEW spans, NEW hs, ApplyPatch(mirror, hs).ok
  PROVE  Shows(PlanModify(t, mirror, spans, hs), ApplyPatch(mirror, hs).text)
BY Reasons, LandedShows DEF PlanModify

LEMMA DeleteShows ==
  ASSUME NEW mirror, NEW hs, ApplyPatch(mirror, hs).ok
  PROVE  Shows(PlanDelete(mirror, hs), ApplyPatch(mirror, hs).text)
BY Reasons, AcceptedShows DEF PlanDelete

\* What PatchMeansItsEdit says of one plan.
Means(plan, text, edits) ==
    /\ plan.outcome \notin {"not a patch", "does not apply"}
    /\ plan.outcome = "accepted" => Bodies(plan.shown) = Edited(text, edits)

LEMMA CreateMeans ==
  ASSUME NEW edits, NEW n, Apart(edits, n, 0), NEW hs, NEW old, HunksFor(hs, old, edits, n)
  PROVE  Means(PlanCreate(hs), <<>>, edits)
<1>1. PICK X \in Seq(NewLines) : /\ FlattenSeq([k \in DOMAIN hs |-> hs[k].lines]) = Adds(X)
                                 /\ Edited(<<>>, edits) = X
  BY CreatedLines
<1> DEFINE created == FlattenSeq([k \in DOMAIN Adds(X) |-> Append(Adds(X)[k].text, Newline)])
           p == PlanCreate(hs)
<1>2. Bodies(created) = X
  BY CreatedSays
<1>3. Shows(p, created)
  BY <1>1, Reasons, AcceptedShows DEF PlanCreate
<1> HIDE DEF p, created
<1> QED
  BY <1>1, <1>2, <1>3 DEF Means, Shows, p

\* A list of edits that fits a text becomes one patch, which applies to it.
LEMMA PatchOfEdits ==
  ASSUME NEW t \in Seq(Letters), NEW edits, NEW n, Apart(edits, n, Len(SplitLines(t)))
  PROVE  LET hs == HunksOf(t, edits)
         IN  /\ ParsePatch(RenderPatch(hs)) = <<hs>>
             /\ HunksFor(hs, SplitLines(t), edits, n)
             /\ ApplyPatch(t, hs).ok
             /\ Bodies(ApplyPatch(t, hs).text) = Edited(t, edits)
<1> DEFINE hs == HunksOf(t, edits)
<1>1. n \in Nat /\ DOMAIN edits = 1..n
  BY DEF Apart
<1>2. HunksFor(hs, SplitLines(t), edits, n) /\ IsSequence(hs)
  BY <1>1, HunksMade
<1>3. AreLines(SplitLines(t))
  BY TextsSplit
<1> HIDE DEF hs
<1>4. ParsePatch(RenderPatch(hs)) = <<hs>>
  BY <1>2, <1>3, PatchParses
<1>5. ApplyPatch(t, hs).ok /\ Bodies(ApplyPatch(t, hs).text) = Edited(t, edits)
  BY <1>2, PatchApplies
<1> QED
  BY <1>2, <1>4, <1>5 DEF hs

(***************************************************************************)
(* What an edit leaves                                                     *)
(***************************************************************************)

LEMMA CountWalks ==
  ASSUME NEW P, NEW n \in Nat, DOMAIN P = 1..n
  PROVE  \E tr : Walks(tr, "count", <<>>, 0, P, n) /\ GrownBy(P) = tr[n]
<1> DEFINE G(g) == g = [x \in SUBSET (1..n) |->
                          IF x = {} THEN 0
                          ELSE g[x \ {Max(x)}] + Len(P[Max(x)].added) - P[Max(x)].gone]
<1>1. \A g : Folds(g, "count", <<>>, 0, P, n) <=> G(g)
  BY DEF Folds, Step
<1>2. \E g : G(g)
  <2> HIDE DEF G
  <2> QED
    BY <1>1, FoldExists
<1>3. \E g : G(g) /\ GrownBy(P) = g[1..n]
  BY ONLY <1>2, DOMAIN P = 1..n, Zenon DEF GrownBy, FoldLeft, MapThenFoldSet
<1> HIDE DEF G
<1>4. PICK g : Folds(g, "count", <<>>, 0, P, n) /\ GrownBy(P) = g[1..n]
  BY <1>1, <1>3
<1>5. PICK tr : Walks(tr, "count", <<>>, 0, P, n) /\ tr[n] = g[1..n]
  BY <1>4, FoldWalks
<1> QED
  BY <1>4, <1>5

\* Lines of the file and new ones behind others.
Behind(Q, A, out, B, a, b, u) ==
    /\ Q \in Seq(A) /\ Len(Q) = Len(out) + (b - a + 1) + Len(u) /\ Len(out) \in Nat
    /\ \A i \in 1..Len(out) : Q[i] = out[i]
    /\ \A k \in a..b : Q[Len(out) + (k - a + 1)] = B[k]

LEMMA LinesBehind ==
  ASSUME NEW A, NEW B \in Seq(A), NEW out \in Seq(A), NEW u \in Seq(A),
         NEW a \in Nat, NEW b \in Nat, 1 <= a, a <= b + 1, b <= Len(B),
         NEW Q, Q = Cat(Cat(out, Part(B, a, b)), u)
  PROVE  Behind(Q, A, out, B, a, b, u)
<1> DEFINE p == Part(B, a, b)
           q == Cat(out, p)
           l == Len(out)
           m == b - a + 1
<1>0. Len(B) \in Nat /\ l \in Nat /\ m \in Nat /\ Len(u) \in Nat
  BY LenProperties
<1>1. a \in Nat /\ 1 <= a /\ a <= b + 1 /\ b - a + 1 = m
  BY <1>0
<1>2. p \in Seq(A) /\ Len(p) = m
  BY <1>1, PartSeq
<1>3. \A i \in 1..m : p[i] = B[a + i - 1]
  BY <1>1, PartSeq
<1> HIDE DEF p
<1>4. q \in Seq(A) /\ Len(q) = l + m
  <2>1. q \in Seq(A) /\ Len(q) = Len(out) + Len(p)
    BY <1>2, CatSeq
  <2> QED
    BY <1>2, <2>1
<1>5. \A i \in 1..l : q[i] = out[i]
  BY <1>2, CatSeq
<1>6. \A i \in 1..m : q[l + i] = p[i]
  <2>1. \A i \in 1..Len(p) : q[l + i] = p[i]
    BY <1>2, CatRest
  <2> QED
    BY <1>2, <2>1
<1> HIDE DEF q
<1>a. Q = Cat(q, u)
  BY DEF q, p
<1>7. Q \in Seq(A) /\ Len(Q) = l + m + Len(u)
  <2>1. Cat(q, u) \in Seq(A) /\ Len(Cat(q, u)) = Len(q) + Len(u)
    BY <1>4, CatSeq
  <2> QED
    BY <1>4, <1>a, <2>1
<1>8. \A i \in 1..(l + m) : Q[i] = q[i]
  <2>1. \A i \in 1..Len(q) : Cat(q, u)[i] = q[i]
    BY <1>4, CatSeq
  <2> QED
    BY <1>4, <1>a, <2>1
<1> HIDE DEF l, m
<1>9. \A i \in 1..l : Q[i] = out[i]
  BY <1>0, <1>5, <1>8
<1>10. \A k \in a..b : Q[l + (k - a + 1)] = B[k]
  <2> TAKE k \in a..b
  <2> DEFINE i == k - a + 1
  <2>1. i \in 1..m /\ l + i \in 1..(l + m) /\ a + i - 1 = k
    BY <1>0, <1>1 DEF m
  <2> HIDE DEF i
  <2>2. Q[l + i] = B[k]
    BY <1>3, <1>6, <1>8, <2>1
  <2> QED
    BY <2>2 DEF i
<1> QED
  BY <1>0, <1>7, <1>9, <1>10 DEF l, m, Behind

\* Where the lines behind the first j edits end.
NextEdit(edits, n, lines, j) == IF j = n THEN lines ELSE edits[j + 1].at

\* The lines behind the first j edits stand in Q, shifted.
Stays(Q, B, edits, j, to, shift) ==
    \A k \in (EndOf(edits, j) + 1)..to :
        k + shift \in 1..Len(Q) /\ Q[k + shift] = B[k]

LEMMA ShiftedIn ==
  ASSUME NEW c \in Nat, NEW b \in Nat, NEW w \in Int, NEW o \in Nat, o = c + w,
         NEW u \in Nat, NEW N, N = b + w + u, NEW k \in Int, c + 1 <= k, k <= b
  PROVE  k + w \in 1..N
OBVIOUS

LEMMA EditsKeepLines ==
  ASSUME NEW A, NEW B \in Seq(A), NEW edits, NEW n, Apart(edits, n, Len(B)),
         \A k \in 1..n : edits[k].added \in Seq(A),
         NEW cw, Walks(cw, "count", <<>>, 0, edits, n),
         NEW Q, Q = Cat(Rewrites(B, edits).out, Part(B, Rewrites(B, edits).at + 1, Len(B)))
  PROVE  /\ Len(Q) = Len(B) + cw[n]
         /\ \A j \in 0..n : Stays(Q, B, edits, j, NextEdit(edits, n, Len(B), j), cw[j])
<1>1. n \in Nat /\ DOMAIN edits = 1..n
  BY DEF Apart
<1>2. Len(B) \in Nat
  BY LenProperties
<1>5. \E to : Walks(to, "edit", B, NoEdits, edits, n) /\ Rewrites(B, edits) = to[n]
  BY <1>1, EditWalks
<1>6. PICK to : Walks(to, "edit", B, NoEdits, edits, n) /\ Rewrites(B, edits) = to[n]
  BY <1>5
<1> DEFINE Sized(j) == /\ to[j].out \in Seq(A) /\ to[j].at = EndOf(edits, j) /\ to[j].at \in Nat
                       /\ to[j].at <= Len(B) /\ cw[j] \in Int /\ Len(to[j].out) = to[j].at + cw[j]
           Kept(j) == \A i \in 0..(j - 1) :
                         Stays(to[j].out, B, edits, i, edits[i + 1].at, cw[i])
           S == {j \in Nat : j <= n => Sized(j) /\ Kept(j)}
<1>7. 0 \in S
  <2>1. to[0] = NoEdits /\ cw[0] = 0
    BY <1>6 DEF Walks
  <2>2. NoEdits.at = 0 /\ NoEdits.out = <<>> /\ <<>> \in Seq(A) /\ Len(<<>>) = 0
    BY DEF NoEdits
  <2>3. Sized(0)
    BY <1>2, <2>1, <2>2 DEF EndOf
  <2>4. Kept(0)
    OBVIOUS
  <2> HIDE DEF Sized, Kept
  <2> QED
    BY <2>3, <2>4
<1>8. ASSUME NEW j \in Nat, j \in S PROVE j + 1 \in S
  <2> SUFFICES ASSUME j + 1 <= n PROVE Sized(j + 1) /\ Kept(j + 1)
    <3> HIDE DEF Sized, Kept
    <3> QED
      OBVIOUS
  <2> DEFINE e == edits[j + 1]
             o == to[j].out
             c == to[j].at
             N == to[j + 1].out
             i == j + 1
  <2>1. i \in 1..n /\ j <= n /\ i - 1 = j /\ i # 0 /\ i \in Nat
    BY <1>1
  <2>2. Sized(j) /\ Kept(j)
    <3> HIDE DEF Sized, Kept
    <3> QED
      BY <1>8, <2>1
  <2>3. e \in LineEdits /\ e.above <= e.at /\ e.at + e.gone <= Len(B) /\ EndOf(edits, j) + e.above <= e.at
    BY <1>2, EndsBefore
  <2>4. e.at \in Nat /\ e.gone \in Nat /\ e.above \in Nat /\ Len(e.added) \in Nat
    BY <2>3, EditTyped
  <2>5. e.added \in Seq(A)
    BY <2>1
  <2>6. to[i] = Rewrite(B, to[j], e)
    <3>1. to[i] = Step("edit", B, to[i - 1], edits[i])
      BY <1>6, <2>1 DEF Walks
    <3> QED
      BY <2>1, <3>1 DEF Step
  <2>7. cw[i] = cw[j] + Len(e.added) - e.gone
    <3>1. cw[i] = Step("count", <<>>, cw[i - 1], edits[i])
      BY <2>1 DEF Walks
    <3> QED
      BY <2>1, <3>1 DEF Step
  <2>a. o \in Seq(A) /\ c = EndOf(edits, j) /\ c \in Nat /\ cw[j] \in Int /\ Len(o) = c + cw[j]
    BY <2>2
  <2>9. N = Cat(Cat(o, Part(B, c + 1, e.at)), e.added) /\ to[i].at = e.at + e.gone
    <3> DEFINE z == Rewrite(B, to[j], e)
    <3>1. z.out = Cat(Cat(o, Part(B, c + 1, e.at)), e.added) /\ z.at = e.at + e.gone
      BY DEF Rewrite, Cat, Part
    <3> HIDE DEF z
    <3>2. to[i] = z
      BY <2>6 DEF z
    <3> HIDE DEF o, c, e
    <3> QED
      BY <3>1, <3>2
  <2>c. EndOf(edits, j) + e.above <= e.at /\ e.at + e.gone <= Len(B)
    BY <2>3
  <2> DEFINE b == e.at
             g == e.gone
             a == c + 1
  <2> HIDE DEF o, c, b, g
  <2>8. o \in Seq(A) /\ c = EndOf(edits, j) /\ c \in Nat /\ c <= b /\ b <= Len(B)
        /\ cw[j] \in Int /\ Len(o) = c + cw[j] /\ b \in Nat /\ g \in Nat
    <3> HIDE DEF e
    <3> QED
      BY <1>2, <2>a, <2>c, <2>4 DEF b, g
  <2> HIDE DEF e
  <2> DEFINE u == e.added
  <2>b. u \in Seq(A) /\ Len(u) \in Nat /\ N = Cat(Cat(o, Part(B, a, b)), u) /\ a = c + 1
    BY <2>4, <2>5, <2>9 DEF b
  <2>d. a \in Nat /\ 1 <= a /\ a <= b + 1 /\ b \in Nat /\ b <= Len(B) /\ o \in Seq(A)
    BY <2>8
  <2> HIDE DEF u, N, a
  <2>10. /\ N \in Seq(A) /\ Len(N) = Len(o) + (b - a + 1) + Len(u) /\ Len(o) \in Nat
         /\ \A k \in 1..Len(o) : N[k] = o[k]
         /\ \A k \in a..b : N[Len(o) + (k - a + 1)] = B[k]
    <3>1. Behind(N, A, o, B, a, b, u)
      BY ONLY <2>b, <2>d, B \in Seq(A), LinesBehind, Zenon
    <3> QED
      BY <3>1 DEF Behind
  <2>e. /\ Len(o) \in Nat /\ Len(u) \in Nat /\ Len(o) = c + cw[j] /\ c <= b
        /\ c \in Nat /\ b \in Nat /\ cw[j] \in Int /\ Len(N) = b + cw[j] + Len(u)
    <3>1. Len(N) = Len(o) + (b - a + 1) + Len(u) /\ Len(o) \in Nat
      BY <2>10, Zenon
    <3>2. /\ c \in Nat /\ b \in Nat /\ cw[j] \in Int /\ Len(o) = c + cw[j] /\ c <= b
          /\ Len(u) \in Nat /\ a = c + 1
      BY <2>8, <2>b, Zenon
    <3> QED
      BY ONLY <3>1, <3>2
  <2>11. Sized(i)
    <3>1. EndOf(edits, i) = e.at + e.gone
      BY <2>1 DEF EndOf, e
    <3>2. to[i].out = N
      BY DEF N
    <3>3. to[i].at = b + g /\ cw[i] = cw[j] + Len(u) - g /\ EndOf(edits, i) = b + g /\ b + g <= Len(B)
      BY <2>3, <2>7, <2>9, <3>1 DEF b, g, u
    <3>4. /\ g \in Nat /\ N \in Seq(A)
      BY <2>8, <2>10
    <3>5. cw[i] \in Int /\ Len(N) = (b + g) + cw[i] /\ b + g \in Nat
      BY <2>e, <3>3, <3>4
    <3> HIDE DEF i
    <3> QED
      BY <3>2, <3>3, <3>4, <3>5
  <2>12. ASSUME NEW h \in 0..(i - 1) PROVE Stays(N, B, edits, h, edits[h + 1].at, cw[h])
    <3>1. CASE h = j
      <4> SUFFICES ASSUME NEW k \in (EndOf(edits, j) + 1)..b
                   PROVE  k + cw[j] \in 1..Len(N) /\ N[k + cw[j]] = B[k]
        BY <3>1 DEF Stays, b, e
      <4>0. k \in (c + 1)..b
        BY <2>8, Zenon
      <4>1. k \in a..b /\ k + cw[j] = Len(o) + (k - a + 1)
        <5>1. /\ c \in Nat /\ b \in Nat /\ cw[j] \in Int
              /\ Len(o) = c + cw[j] /\ a = c + 1
          BY <2>8, <2>b, Zenon
        <5> QED
          BY ONLY <4>0, <5>1, SMT
      <4>2. N[k + cw[j]] = B[k]
        BY <2>10, <4>1
      <4>3. k + cw[j] \in 1..Len(N)
        <5>1. c + 1 <= k /\ k <= b /\ k \in Int
          BY ONLY <2>e, <4>0, SMT
        <5> QED
          BY ONLY <2>e, <5>1, ShiftedIn, Zenon
      <4> QED
        BY <4>2, <4>3
    <3>2. CASE h # j
      <4>1. h \in 0..(j - 1)
        BY <2>1, <3>2
      <4>2. Stays(o, B, edits, h, edits[h + 1].at, cw[h])
        BY <2>2, <4>1 DEF o
      <4>3. 1..Len(o) \subseteq 1..Len(N)
        <5>1. Len(o) <= Len(N) /\ Len(N) \in Int
          BY <2>e
        <5> QED
          BY <2>e, <5>1
      <4> QED
        BY <2>10, <4>2, <4>3 DEF Stays
    <3> QED
      BY <3>1, <3>2
  <2> HIDE DEF Sized
  <2> QED
    BY <2>11, <2>12 DEF N
<1> HIDE DEF S
<1>9. n \in S
  BY <1>1, <1>7, <1>8, NatInd
<1>10. Sized(n) /\ Kept(n)
  <2> HIDE DEF Sized, Kept
  <2> QED
    BY <1>1, <1>9 DEF S
<1> DEFINE o == to[n].out
           c == to[n].at
           L == Len(B)
<1>11. o \in Seq(A) /\ c = EndOf(edits, n) /\ c \in Nat /\ c <= L /\ cw[n] \in Int
       /\ Len(o) = c + cw[n] /\ L \in Nat /\ L <= Len(B)
  BY <1>2, <1>10
<1>12. Q = Cat(Cat(o, Part(B, c + 1, L)), <<>>)
  <2>1. Q = Cat(o, Part(B, c + 1, L))
    BY <1>6
  <2> HIDE DEF o, c, L
  <2>2. Part(B, c + 1, L) \in Seq(A)
    BY <1>11, PartSeq
  <2>3. Cat(o, Part(B, c + 1, L)) \in Seq(A)
    BY <1>11, <2>2, CatSeq
  <2> QED
    BY <2>1, <2>3, CatEmpty
<1> HIDE DEF o, c
<1>13. <<>> \in Seq(A) /\ Len(<<>>) = 0
  OBVIOUS
<1>14. /\ Len(Q) = Len(o) + (L - c) + Len(<<>>) /\ Len(o) \in Nat
       /\ \A i \in 1..Len(o) : Q[i] = o[i]
       /\ \A k \in (c + 1)..L : Q[Len(o) + (k - c)] = B[k]
  <2> DEFINE u == <<>>
             a == c + 1
  <2>1. u \in Seq(A) /\ Q = Cat(Cat(o, Part(B, a, L)), u) /\ a = c + 1
    BY <1>12, <1>13
  <2>a. a \in Nat /\ 1 <= a /\ a <= L + 1 /\ L \in Nat /\ L <= Len(B) /\ o \in Seq(A)
    BY <1>11
  <2> HIDE DEF L, u, a
  <2>2. /\ Len(Q) = Len(o) + (L - a + 1) + Len(u) /\ Len(o) \in Nat
        /\ \A i \in 1..Len(o) : Q[i] = o[i]
        /\ \A k \in a..L : Q[Len(o) + (k - a + 1)] = B[k]
    <3>1. Behind(Q, A, o, B, a, L, u)
      BY ONLY <2>1, <2>a, B \in Seq(A), LinesBehind, Zenon
    <3> QED
      BY <3>1 DEF Behind
  <2>3. \A k \in a..L : k - a + 1 = k - c
    BY <1>11, <2>1
  <2>4. L - a + 1 = L - c
    BY <1>11, <2>1
  <2>5. \A k \in a..L : Q[Len(o) + (k - c)] = B[k]
    BY <2>2, <2>3
  <2> QED
    BY <1>11, <2>1, <2>2, <2>4, <2>5 DEF u
<1>15. Len(Q) = L + cw[n]
  BY <1>11, <1>13, <1>14
<1>16. ASSUME NEW h \in 0..n
       PROVE  Stays(Q, B, edits, h, NextEdit(edits, n, L, h), cw[h])
  <2>1. CASE h = n
    <3> SUFFICES ASSUME NEW k \in (c + 1)..L
                 PROVE  k + cw[n] \in 1..Len(Q) /\ Q[k + cw[n]] = B[k]
      BY <1>11, <2>1 DEF Stays, NextEdit
    <3>1. k + cw[n] = Len(o) + (k - c)
      BY <1>11
    <3>2. Q[k + cw[n]] = B[k]
      BY <1>14, <3>1
    <3>3. k + cw[n] \in 1..Len(Q)
      <4>1. c + 1 <= k /\ k <= L /\ k \in Int /\ Len(o) \in Nat
        BY <1>11, <1>14
      <4> QED
        BY <1>11, <1>15, <4>1
    <3> QED
      BY <3>2, <3>3
  <2>2. CASE h # n
    <3>1. h \in 0..(n - 1) /\ NextEdit(edits, n, L, h) = edits[h + 1].at
      BY <1>1, <2>2 DEF NextEdit
    <3>2. Stays(o, B, edits, h, edits[h + 1].at, cw[h])
      BY <1>10, <3>1 DEF o
    <3>3. 1..Len(o) \subseteq 1..Len(Q)
      BY <1>11, <1>13, <1>14
    <3> QED
      BY <1>14, <3>1, <3>2, <3>3 DEF Stays
  <2> QED
    BY <2>1, <2>2
<1> QED
  BY <1>15, <1>16 DEF L

(***************************************************************************)
(* Translated lines are lines                                              *)
(***************************************************************************)

\* The characters of a line, and those of a word.
Bare == Letters \ {Newline}
WordChars == Small \cup Large \cup {Joint}

LEMMA WordCharsAreBare ==
  /\ WordChars \subseteq Bare /\ Joint \in WordChars
  /\ \A c : IsWordChar(c) <=> c \in WordChars
<1>1. \A c : IsWordChar(c) <=> c \in WordChars
  BY DEF IsWordChar, WordChars
<1>2. \A c \in Small : c \in STRING /\ c # Newline /\ Capital[c] \in STRING /\ Capital[c] # Newline
  BY SanitizerAssumption DEF Small, Newline
<1>3. \A c \in Large : c \in STRING /\ c # Newline
  BY <1>2 DEF Large
<1>4. Joint # Newline
  BY DEF Joint, Newline
<1> QED
  BY <1>1, <1>2, <1>3, <1>4 DEF Bare, WordChars, Letters, Chars

LEMMA CasesOfWords ==
  ASSUME NEW c \in WordChars
  PROVE  ToLower(c) \in WordChars /\ ToUpper(c) \in WordChars
<1>1. ToUpper(c) \in WordChars
  BY DEF ToUpper, WordChars, Large
<1>2. CASE c \in Large
  <2>1. PICK d \in Small : Capital[d] = c
    BY <1>2 DEF Large
  <2>2. (CHOOSE x \in Small : Capital[x] = c) \in Small
    BY <2>1
  <2> QED
    BY <1>1, <1>2, <2>2 DEF ToLower, WordChars
<1>3. CASE c \notin Large
  BY <1>1, <1>3 DEF ToLower
<1> QED
  BY <1>2, <1>3

LEMMA AdaptsToWord ==
  ASSUME NEW slice, NEW alias, IsSequence(alias)
  PROVE  AdaptReplacement(slice, alias) \in Seq(WordChars)
<1> DEFINE word == [i \in DOMAIN alias |-> IF IsWordChar(alias[i]) THEN alias[i] ELSE Joint]
           up == [i \in DOMAIN word |-> ToUpper(word[i])]
           low == [i \in DOMAIN word |-> ToLower(word[i])]
           title == [word EXCEPT ![1] = ToUpper(@)]
           n == Len(alias)
<1>1. n \in Nat /\ DOMAIN alias = 1..n
  BY LenProperties DEF IsSequence
<1> HIDE DEF n
<1>2. word \in [1..n -> WordChars]
  BY <1>1, WordCharsAreBare
<1>3. up \in [1..n -> WordChars] /\ low \in [1..n -> WordChars]
  BY <1>2, CasesOfWords
<1>4. title \in [1..n -> WordChars]
  BY <1>2, CasesOfWords
<1>5. \A w : w \in [1..n -> WordChars] => w \in Seq(WordChars)
  BY <1>1
<1>6. AdaptReplacement(slice, alias) \in {up, low, title, word}
  BY DEF AdaptReplacement
<1> HIDE DEF word, up, low, title
<1> QED
  BY <1>2, <1>3, <1>4, <1>5, <1>6

LEMMA WiderSeq ==
  ASSUME NEW A, NEW B, A \subseteq B, NEW s \in Seq(A)
  PROVE  s \in Seq(B)
<1> DEFINE n == Len(s)
<1>1. n \in Nat /\ s \in [1..n -> A]
  BY LenProperties
<1> HIDE DEF n
<1>2. s \in [1..n -> B]
  BY <1>1
<1> QED
  BY <1>1, <1>2

\* A splice of what is made of some characters is made of them.
LEMMA SpliceTyped ==
  ASSUME NEW A, NEW t \in Seq(A), NEW E, \A e \in E : e.new \in Seq(A)
  PROVE  Splice(t, E) \in Seq(A)
<1> DEFINE n == Len(t)
           P == [i \in DOMAIN t |-> Piece(t, E, i)]
<1>1. n \in Nat /\ DOMAIN t = 1..n
  BY LenProperties
<1>2. ASSUME NEW i \in 1..n PROVE Piece(t, E, i) \in Seq(A)
  <2>1. t[i] \in A
    BY ElementOfSeq
  <2>2. <<t[i]>> \in Seq(A) /\ <<>> \in Seq(A)
    BY <2>1
  <2>3. ASSUME \E e \in E : e.from = i PROVE (CHOOSE e \in E : e.from = i).new \in Seq(A)
    BY <2>3
  <2> QED
    BY <2>2, <2>3 DEF Piece
<1>3. P \in [1..n -> Seq(A)]
  BY <1>1, <1>2
<1> HIDE DEF n, P
<1>4. PICK pre \in [0..n -> Seq(A)] : Growing(pre, n, P)
  BY <1>1, <1>3, GrowingExists
<1>5. FlattenSeq(P) = pre[n]
  BY <1>1, <1>3, <1>4, FlattenIsLast DEF Growing
<1>6. pre[n] \in Seq(A)
  BY <1>1
<1> QED
  BY <1>5, <1>6, SplicePieces DEF P

LEMMA HitsOfTerms ==
  ASSUME NEW A, NEW run \in Seq(A), NEW terms,
         NEW h \in NonOverlapping(HitsInRun(run, [from |-> 1, to |-> Len(run) + 1], terms))
  PROVE  h.term \in terms
<1> DEFINE r == [from |-> 1, to |-> Len(run) + 1]
           H == HitsInRun(run, r, terms)
           N == Len(run) + 1
<1>1. Len(run) \in Nat
  BY LenProperties
<1>2. r.from = 1 /\ r.to = N /\ r.from \in Nat /\ r.to \in Nat /\ 1 <= r.from /\ N \in Nat
  BY <1>1
<1> HIDE DEF r, N
<1>3. \A x \in H : /\ x.term \in terms /\ x.from \in Nat /\ x.to \in Nat
                   /\ r.from <= x.from /\ x.from < x.to /\ x.to <= r.to
  BY <1>2, HitShape
<1>4. h \in NonOverlapping(H)
  BY DEF r
<1> HIDE DEF H
<1>5. AreRanges(H, N)
  BY <1>2, <1>3 DEF AreRanges
<1>6. NonOverlapping(H) \subseteq H
  BY <1>2, <1>5, KeptHits
<1> QED
  BY <1>3, <1>4, <1>6

SpellsAliases(table) == \A e \in table : IsSequence(e.alias)

LEMMA MappedRun ==
  ASSUME NEW run \in Seq(Bare), NEW table, SpellsAliases(table), NEW P
  PROVE  MapRun(run, table, P) \in Seq(Bare)
<1> DEFINE H == HitsInRun(run, [from |-> 1, to |-> Len(run) + 1], table)
           E == Replacing(run, NonOverlapping(H))
<1>1. \A h \in NonOverlapping(H) : h.term \in table
  BY HitsOfTerms
<1> HIDE DEF H
<1>2. \A h \in NonOverlapping(H) : AdaptReplacement(Slice(run, h), h.term.alias) \in Seq(Bare)
  <2> TAKE h \in NonOverlapping(H)
  <2> DEFINE w == AdaptReplacement(Slice(run, h), h.term.alias)
  <2>1. IsSequence(h.term.alias)
    BY <1>1 DEF SpellsAliases
  <2>2. w \in Seq(WordChars)
    BY <2>1, AdaptsToWord
  <2> HIDE DEF w
  <2>3. WordChars \subseteq Bare
    BY WordCharsAreBare
  <2>4. w \in Seq(Bare)
    BY <2>2, <2>3, WiderSeq
  <2> QED
    BY <2>4 DEF w
<1>3. \A e \in E : e.new \in Seq(Bare)
  BY <1>2 DEF Replacing
<1>4. Splice(run, E) \in Seq(Bare)
  <2> HIDE DEF E
  <2> QED
    BY <1>3, SpliceTyped
<1>5. MapEveryRun(run, table, P) = Splice(run, E)
  BY DEF MapEveryRun, H
<1> HIDE DEF E
<1> QED
  BY <1>4, <1>5 DEF MapRun

LEMMA MappedRuns ==
  ASSUME NEW text \in Seq(Bare), NEW runs, runs \subseteq WordRuns(text),
         NEW table, SpellsAliases(table), NEW P
  PROVE  MapRuns(text, runs, table, P) \in Seq(Bare)
<1> DEFINE New(r) == MapRun(Slice(text, r), table, P)
           E == {[from |-> r.from, to |-> r.to, new |-> New(r)] : r \in runs}
<1>1. ASSUME NEW r \in runs PROVE New(r) \in Seq(Bare)
  <2>1. r \in WordRuns(text)
    OBVIOUS
  <2>2. /\ r.from \in 1..Len(text) /\ r.to \in 2..(Len(text) + 1) /\ r.from < r.to
        /\ r.from \in Nat /\ r.to \in Nat /\ Len(text) \in Nat
    BY <2>1, RunShape
  <2> DEFINE a == r.from
             b == r.to - 1
  <2>3. a \in Nat /\ b \in Nat /\ 1 <= a /\ b <= Len(text) /\ a <= b + 1
    BY <2>2
  <2>4. Slice(text, r) = Part(text, a, b)
    BY DEF Slice, Part
  <2> HIDE DEF a, b
  <2>5. Part(text, a, b) \in Seq(Bare)
    BY <2>3, PartSeq
  <2> QED
    BY <2>4, <2>5, MappedRun
<1>2. \A e \in E : e.new \in Seq(Bare)
  BY <1>1
<1>3. MapRuns(text, runs, table, P) = Splice(text, E)
  BY DEF MapRuns
<1> HIDE DEF E
<1> QED
  BY <1>2, <1>3, SpliceTyped

\* Spans whose originals are made of characters of a line.
SpanSet(T, U, V, W) == [text : T, original : Seq(Bare), source : U, from : V, to : W]
IsSpan(s) == \E T, U, V, W : s \in SpanSet(T, U, V, W)
AreSpans(R) == \A s \in R : IsSpan(s)

LEMMA KnownTyped ==
  ASSUME NEW text \in Seq(Bare), NEW R, AreSpans(R)
  PROVE  TranslateKnown(text, R) \in Seq(Bare)
<1> DEFINE E == {[from |-> s.from, to |-> s.to, new |-> s.original] : s \in R}
<1>1. \A s \in R : s.original \in Seq(Bare)
  BY DEF AreSpans, IsSpan, SpanSet
<1>2. \A e \in E : e.new \in Seq(Bare)
  BY <1>1
<1>3. TranslateKnown(text, R) = Splice(text, E)
  BY DEF TranslateKnown
<1> HIDE DEF E
<1> QED
  BY <1>2, <1>3, SpliceTyped

LEMMA SpanMoves ==
  ASSUME NEW s, IsSpan(s), NEW a, NEW b
  PROVE  IsSpan([s EXCEPT !.from = a, !.to = b])
<1>1. PICK T, U, V, W : s \in SpanSet(T, U, V, W)
  BY DEF IsSpan
<1>2. [s EXCEPT !.from = a] \in SpanSet(T, U, {a}, W)
  BY <1>1 DEF SpanSet
<1>3. [s EXCEPT !.from = a, !.to = b] \in SpanSet(T, U, {a}, {b})
  BY <1>2 DEF SpanSet
<1> QED
  BY <1>3 DEF IsSpan

LEMMA LineRangesAreSpans ==
  ASSUME NEW spans, AreSpans(spans), NEW t, NEW k
  PROVE  AreSpans(LineAliasRanges(spans, t, k))
<1>1. ASSUME NEW x \in LineAliasRanges(spans, t, k) PROVE IsSpan(x)
  <2>1. PICK s \in spans : \E a, b : x = [s EXCEPT !.from = a, !.to = b]
    BY DEF LineAliasRanges
  <2>2. PICK a, b : x = [s EXCEPT !.from = a, !.to = b]
    BY <2>1
  <2> QED
    BY <2>2, SpanMoves DEF AreSpans
<1> QED
  BY <1>1 DEF AreSpans

LEMMA ProjectedAreSpans ==
  ASSUME NEW R, AreSpans(R), NEW old, NEW new
  PROVE  AreSpans(ProjectAliasRanges(old, new, R).ranges)
<1>1. ASSUME NEW x \in ProjectAliasRanges(old, new, R).ranges PROVE IsSpan(x)
  <2> DEFINE c == CommonChangedRange(old, new)
             d == Len(new) - Len(old)
  <2>1. PICK s \in R : x = IF s.to <= c.from THEN s
                           ELSE [s EXCEPT !.from = @ + d, !.to = @ + d]
    BY DEF ProjectAliasRanges
  <2> HIDE DEF c, d
  <2>2. x = s \/ \E a, b : x = [s EXCEPT !.from = a, !.to = b]
    <3>1. CASE s.to <= c.from
      BY <2>1, <3>1
    <3>2. CASE ~(s.to <= c.from)
      <4>1. x = [s EXCEPT !.from = s.from + d, !.to = s.to + d]
        BY <2>1, <3>2
      <4> QED
        BY <4>1
    <3> QED
      BY <3>1, <3>2
  <2>3. IsSpan(s)
    BY DEF AreSpans
  <2>4. ASSUME NEW a, NEW b, x = [s EXCEPT !.from = a, !.to = b] PROVE IsSpan(x)
    <3>1. IsSpan([s EXCEPT !.from = a, !.to = b])
      BY <2>3, SpanMoves
    <3> QED
      BY <2>4, <3>1
  <2> QED
    BY <2>2, <2>3, <2>4
<1> QED
  BY <1>1 DEF AreSpans

LEMMA ReverseTableSpells ==
  ASSUME NEW spans, AreSpans(spans)
  PROVE  SpellsAliases(ReverseTable(spans))
<1>1. \A s \in spans : IsSequence(s.original)
  BY DEF AreSpans, IsSpan, SpanSet, IsSequence
<1>2. \A i \in DOMAIN Registry : IsSequence(Registry[i][1])
  BY SanitizerAssumption DEF IsSequence, Words
<1>3. ASSUME NEW e \in ReverseTable(spans) PROVE IsSequence(e.alias)
  <2>1. \/ \E s \in spans : e.alias = s.original
        \/ \E i \in DOMAIN Registry : e.alias = Registry[i][1]
    BY DEF ReverseTable, FirstOfEach
  <2> QED
    BY <1>1, <1>2, <2>1
<1> QED
  BY <1>3 DEF SpellsAliases

LEMMA WordsAreBare ==
  ASSUME PolicyHolds, NEW t \in Seq(Chars), NEW P, NEW e \in Replacements(t, P)
  PROVE  Slice(t, e) \in Seq(Bare)
<1> DEFINE n == Len(t)
           a == e.from
           b == e.to - 1
           p == Part(t, a, b)
<1>0. n \in Nat
  BY LenProperties
<1>1. /\ e.from \in Nat /\ e.to \in Nat /\ 1 <= e.from /\ e.from < e.to /\ e.to <= Len(t) + 1
  BY ReplacementsAreEdits DEF IsEdits
<1>2. a \in Nat /\ b \in Nat /\ 1 <= a /\ b <= Len(t) /\ a <= b + 1
  BY <1>0, <1>1
<1>3. \A k \in a..b : t[k] \in Bare
  <2> TAKE k \in a..b
  <2>1. k \in Nat /\ e.from <= k /\ k < e.to
    BY <1>1
  <2>2. Covered(Replacements(t, P), k)
    BY <2>1 DEF Covered
  <2>3. IsWordChar(t[k])
    BY <2>1, <2>2, EditsLieInWords
  <2> QED
    BY <2>3, WordCharsAreBare
<1> HIDE DEF a, b
<1>4. p \in Seq(Chars) /\ Len(p) = b - a + 1
  BY <1>2, PartSeq
<1>5. \A i \in 1..(b - a + 1) : p[i] = t[a + i - 1]
  BY <1>2, PartSeq
<1> HIDE DEF p
<1> DEFINE m == b - a + 1
<1>6. p \in [1..m -> Chars] /\ m \in Nat
  BY <1>2, <1>4, LenProperties
<1>7. \A i \in 1..m : p[i] \in Bare
  <2> TAKE i \in 1..m
  <2>1. a + i - 1 \in a..b
    BY <1>2
  <2> QED
    BY <1>3, <1>5, <2>1
<1> HIDE DEF m
<1>8. p \in [1..m -> Bare]
  BY <1>6, <1>7
<1>9. p \in Seq(Bare)
  BY <1>6, <1>8
<1> QED
  BY <1>9 DEF p, Slice, Part, a, b

LEMMA MapsOfSpans ==
  ASSUME PolicyHolds, NEW t \in Seq(Chars), NEW P
  PROVE  AreSpans(SpanMapOf(t, P))
<1>1. ASSUME NEW s \in SpanMapOf(t, P) PROVE IsSpan(s)
  <2>1. PICK e \in Replacements(t, P) :
            \E c, d : s = [text |-> e.new, original |-> Slice(t, e), source |-> e.from,
                           from |-> c, to |-> d]
    BY DEF SpanMapOf
  <2>2. Slice(t, e) \in Seq(Bare)
    BY WordsAreBare
  <2> DEFINE o == Slice(t, e)
  <2> HIDE DEF o
  <2>3. PICK c, d : s = [text |-> e.new, original |-> o, source |-> e.from,
                         from |-> c, to |-> d]
    BY <2>1 DEF o
  <2>4. s \in SpanSet({e.new}, {e.from}, {c}, {d})
    BY <2>2, <2>3 DEF SpanSet, o
  <2> QED
    BY <2>4 DEF IsSpan
<1> QED
  BY <1>1 DEF AreSpans

\* Whatever becomes of an added line, it stays one line.
LEMMA AddedTyped ==
  ASSUME NEW patched, NEW table, SpellsAliases(table), NEW P, NEW removed, NEW line,
         NEW text \in Seq(Bare), removed = <<>> \/ AreSpans(Head(removed).ranges)
  PROVE  TranslateAdded(patched, table, P, removed, line, text).text \in Seq(Bare)
<1> DEFINE kept == IF removed = <<>> THEN [ok |-> TRUE, ranges |-> {}]
                   ELSE ProjectAliasRanges(Head(removed).body, text, Head(removed).ranges)
           known == TranslateKnown(text, kept.ranges)
           T == TranslateAdded(patched, table, P, removed, line, text)
<1>1. AreSpans(kept.ranges)
  <2>1. CASE removed = <<>>
    BY <2>1 DEF AreSpans
  <2>2. CASE removed # <<>>
    <3>1. AreSpans(ProjectAliasRanges(Head(removed).body, text, Head(removed).ranges).ranges)
      BY <2>2, ProjectedAreSpans
    <3> QED
      BY <2>2, <3>1
  <2> QED
    BY <2>1, <2>2
<1>2. T.text = <<>> \/ \E runs : runs \subseteq WordRuns(known) /\ T.text = MapRuns(known, runs, table, P)
  <2>1. CASE kept.ok
    <3>1. \E runs : runs \subseteq WordRuns(known) /\ T.text = MapRuns(known, runs, table, P)
      BY <2>1 DEF TranslateAdded, ReverseMap
    <3> QED
      BY <3>1
  <2>2. CASE ~kept.ok
    BY <2>2 DEF TranslateAdded
  <2> QED
    BY <2>1, <2>2
<1> HIDE DEF kept, T
<1>3. known \in Seq(Bare)
  BY <1>1, KnownTyped
<1> HIDE DEF known
<1>4. <<>> \in Seq(Bare)
  OBVIOUS
<1> QED
  BY <1>2, <1>3, <1>4, MappedRuns DEF T

(***************************************************************************)
(* A line is translated                                                    *)
(***************************************************************************)

LEMMA AppendAny ==
  ASSUME NEW s, IsSequence(s), NEW x
  PROVE  /\ IsSequence(Append(s, x)) /\ Len(Append(s, x)) = Len(s) + 1 /\ Len(s) \in Nat
         /\ \A i \in 1..Len(s) : Append(s, x)[i] = s[i]
         /\ Append(s, x)[Len(s) + 1] = x
<1>1. PICK V : s \in Seq(V)
  BY DEF IsSequence
<1> DEFINE W == V \cup {x}
<1>2. s \in Seq(W) /\ x \in W
  <2>1. V \subseteq W /\ x \in W
    OBVIOUS
  <2> HIDE DEF W
  <2> QED
    BY <1>1, <2>1, WiderSeq
<1> HIDE DEF W
<1>3. /\ Len(Append(s, x)) = Len(s) + 1 /\ Len(s) \in Nat
      /\ \A i \in 1..Len(s) : Append(s, x)[i] = s[i]
      /\ Append(s, x)[Len(s) + 1] = x
  BY <1>2, AppendSeq
<1> QED
  BY <1>3, SequenceAppend

\* What translate_hunk remembers of the lines that were taken away.
SafeRemoved(r) == \E V : r \in Seq(V) /\ \A x \in V : AreSpans(x.ranges)

LEMMA RemovedGrows ==
  ASSUME NEW r, SafeRemoved(r), NEW x, AreSpans(x.ranges)
  PROVE  SafeRemoved(Append(r, x))
<1>1. PICK V : r \in Seq(V) /\ \A y \in V : AreSpans(y.ranges)
  BY DEF SafeRemoved
<1> DEFINE W == V \cup {x}
<1>2. V \subseteq W /\ x \in W /\ \A y \in W : AreSpans(y.ranges)
  BY <1>1
<1> HIDE DEF W
<1>3. r \in Seq(W)
  BY <1>1, <1>2, WiderSeq
<1>4. Append(r, x) \in Seq(W)
  BY <1>2, <1>3, AppendSeq
<1> QED
  BY <1>2, <1>4 DEF SafeRemoved

LEMMA RemovedHead ==
  ASSUME NEW r, SafeRemoved(r), r # <<>>
  PROVE  AreSpans(Head(r).ranges) /\ SafeRemoved(Tail(r))
<1>1. PICK V : r \in Seq(V) /\ \A y \in V : AreSpans(y.ranges)
  BY DEF SafeRemoved
<1>2. Head(r) \in V /\ Tail(r) \in Seq(V)
  BY <1>1, HeadTailProperties
<1> QED
  BY <1>1, <1>2 DEF SafeRemoved

LEMMA NothingRemoved == SafeRemoved(<<>>)
<1> DEFINE V == {}
<1>1. <<>> \in Seq(V) /\ \A x \in V : AreSpans(x.ranges)
  OBVIOUS
<1> HIDE DEF V
<1> QED
  BY <1>1 DEF SafeRemoved

\* What becomes of a line: of its kind, and of one that is added a line.
Carried(x, l) == \E text : x = Line(l.kind, text) /\ (l.kind = "add" => text \in Seq(Bare))
IsState(s) == s = [ok |-> s.ok, removed |-> s.removed, lines |-> s.lines,
                   oldLine |-> s.oldLine, newLine |-> s.newLine]

LEMMA StateSays ==
  ASSUME NEW ok, NEW r, NEW ls, NEW i, NEW k, NEW z,
         z = [ok |-> ok, removed |-> r, lines |-> ls, oldLine |-> i, newLine |-> k]
  PROVE  IsState(z) /\ z.removed = r /\ z.lines = ls
BY DEF IsState

\* What a line needs to be translated, and what it comes to.
Ready(spans, table, s, l) ==
    /\ AreSpans(spans) /\ SpellsAliases(table) /\ IsState(s) /\ SafeRemoved(s.removed)
    /\ l.kind = "add" => l.text \in Seq(Bare)
GoesOn(s, z, l) ==
    /\ s.ok /\ IsState(z) /\ SafeRemoved(z.removed)
    /\ \E x : z.lines = Append(s.lines, x) /\ Carried(x, l)

LEMMA LineTranslated ==
  ASSUME NEW t, NEW patched, NEW spans, NEW table, NEW P, NEW s, NEW l, Ready(spans, table, s, l),
         NEW z, z = TranslateLine(t, patched, spans, table, P, s, l), z.ok
  PROVE  GoesOn(s, z, l)
<1>0. /\ AreSpans(spans) /\ SpellsAliases(table) /\ IsState(s) /\ SafeRemoved(s.removed)
      /\ l.kind = "add" => l.text \in Seq(Bare)
  BY DEF Ready
<1>1. s.ok
  <2>1. ~s.ok => z = s
    BY DEF TranslateLine
  <2> QED
    BY <2>1
<1>2. CASE l.kind = "add"
  <2> DEFINE mapped == TranslateAdded(patched, table, P, s.removed, s.newLine + 1, l.text)
             x == Line("add", mapped.text)
             r == IF s.removed = <<>> THEN s.removed ELSE Tail(s.removed)
  <2>1. s.removed = <<>> \/ AreSpans(Head(s.removed).ranges)
    BY <1>0, RemovedHead
  <2>2. mapped.text \in Seq(Bare)
    BY <1>0, <1>2, <2>1, AddedTyped
  <2>3. z = [s EXCEPT !.ok = mapped.ok, !.newLine = @ + 1,
                      !.removed = IF @ = <<>> THEN @ ELSE Tail(@),
                      !.lines = Append(@, x)]
    BY <1>1, <1>2 DEF TranslateLine
  <2> HIDE DEF mapped
  <2>4. z = [ok |-> mapped.ok, removed |-> r, lines |-> Append(s.lines, x),
             oldLine |-> s.oldLine, newLine |-> s.newLine + 1]
    <3> HIDE DEF x
    <3> QED
      BY <1>0, <2>3 DEF IsState
  <2>5. SafeRemoved(r)
    BY <1>0, RemovedHead
  <2>6. Carried(x, l)
    BY <1>2, <2>2 DEF Carried
  <2> HIDE DEF x, r
  <2>7. IsState(z) /\ z.removed = r /\ z.lines = Append(s.lines, x)
    BY <2>4, StateSays
  <2> QED
    BY <1>1, <2>5, <2>6, <2>7 DEF GoesOn
<1>3. CASE l.kind # "add"
  <2> DEFINE k == s.oldLine + 1
             old == LineText(t, k)
             R == LineAliasRanges(spans, t, k)
             x == Line(l.kind, TranslateKnown(old, R))
             one == [body |-> old, ranges |-> R]
             r == IF l.kind = "context" THEN <<>> ELSE Append(s.removed, one)
             m == IF l.kind = "context" THEN s.newLine + 1 ELSE s.newLine
  <2>1. z = IF l.text # old THEN [s EXCEPT !.ok = FALSE]
            ELSE [s EXCEPT
                    !.oldLine = @ + 1,
                    !.newLine = IF l.kind = "context" THEN @ + 1 ELSE @,
                    !.removed = IF l.kind = "context" THEN <<>> ELSE Append(@, one),
                    !.lines = Append(@, x)]
    BY <1>1, <1>3 DEF TranslateLine
  <2>2. AreSpans(R)
    BY <1>0, LineRangesAreSpans
  <2>3. one.ranges = R
    OBVIOUS
  <2> HIDE DEF old, R, one
  <2>4. SafeRemoved(r)
    BY <1>0, <2>2, <2>3, RemovedGrows, NothingRemoved
  <2>5. Carried(x, l)
    BY <1>3 DEF Carried
  <2>6. l.text = old
    <3>1. [s EXCEPT !.ok = FALSE].ok = FALSE
      BY <1>0 DEF IsState
    <3> QED
      BY <2>1, <3>1
  <2>7. z = [ok |-> s.ok, removed |-> r, lines |-> Append(s.lines, x),
             oldLine |-> k, newLine |-> m]
    <3> HIDE DEF x
    <3> QED
      BY <1>0, <2>1, <2>6 DEF IsState
  <2> HIDE DEF x, r, k, m
  <2>8. IsState(z) /\ z.removed = r /\ z.lines = Append(s.lines, x)
    BY <2>7, StateSays
  <2> QED
    BY <1>1, <2>4, <2>5, <2>8 DEF GoesOn
<1> QED
  BY <1>2, <1>3

LEMMA TranslateWalks ==
  ASSUME NEW t, NEW patched, NEW spans, NEW table, NEW Q, NEW s, NEW P, NEW n \in Nat, DOMAIN P = 1..n
  PROVE  \E tr : /\ tr[0] = s
                 /\ \A k \in 1..n :
                       tr[k] = TranslateLine(t, patched, spans, table, Q, tr[k - 1], P[k])
                 /\ TranslateLines(t, patched, spans, table, Q, s, P) = tr[n]
<1> DEFINE c == [mirror |-> t, patched |-> patched, spans |-> spans, table |-> table, protected |-> Q]
           G(g) == g = [x \in SUBSET (1..n) |->
                          IF x = {} THEN s
                          ELSE TranslateLine(t, patched, spans, table, Q, g[x \ {Max(x)}], P[Max(x)])]
<1>0. \A a, x : Step("translate", c, a, x) = TranslateLine(t, patched, spans, table, Q, a, x)
  BY DEF Step
<1> HIDE DEF c
<1>1. \A g : Folds(g, "translate", c, s, P, n) <=> G(g)
  BY <1>0 DEF Folds
<1>2. \E g : G(g)
  <2> HIDE DEF G
  <2> QED
    BY <1>1, FoldExists
<1>3. \E g : G(g) /\ TranslateLines(t, patched, spans, table, Q, s, P) = g[1..n]
  BY ONLY <1>2, DOMAIN P = 1..n, Zenon DEF TranslateLines, FoldLeft, MapThenFoldSet
<1> HIDE DEF G
<1>4. PICK g : /\ Folds(g, "translate", c, s, P, n)
               /\ TranslateLines(t, patched, spans, table, Q, s, P) = g[1..n]
  BY <1>1, <1>3
<1>5. PICK tr : Walks(tr, "translate", c, s, P, n) /\ tr[n] = g[1..n]
  BY <1>4, FoldWalks
<1>6. tr[0] = s /\ \A k \in 1..n :
         tr[k] = TranslateLine(t, patched, spans, table, Q, tr[k - 1], P[k])
  BY <1>0, <1>5 DEF Walks
<1> QED
  BY <1>4, <1>5, <1>6

\* Lines become lines of their kind, one by one.
AllCarried(out, ls, n) ==
    IsSequence(out) /\ Len(out) = n /\ \A i \in 1..n : Carried(out[i], ls[i])

LEMMA LinesTranslated ==
  ASSUME NEW t, NEW patched, NEW spans, AreSpans(spans), NEW table, SpellsAliases(table), NEW Q,
         NEW s, IsState(s), SafeRemoved(s.removed), s.lines = <<>>,
         NEW ls, NEW n \in Nat, DOMAIN ls = 1..n,
         \A i \in 1..n : ls[i].kind = "add" => ls[i].text \in Seq(Bare),
         TranslateLines(t, patched, spans, table, Q, s, ls).ok
  PROVE  AllCarried(TranslateLines(t, patched, spans, table, Q, s, ls).lines, ls, n)
<1>1. PICK tr : /\ tr[0] = s
                /\ \A k \in 1..n :
                      tr[k] = TranslateLine(t, patched, spans, table, Q, tr[k - 1], ls[k])
                /\ TranslateLines(t, patched, spans, table, Q, s, ls) = tr[n]
  BY TranslateWalks
<1> DEFINE Good(j) == IsState(tr[j]) /\ SafeRemoved(tr[j].removed) /\ AllCarried(tr[j].lines, ls, j)
           S == {j \in Nat : j <= n /\ tr[j].ok => Good(j)}
<1>2. 0 \in S
  <2>1. IsSequence(<<>>) /\ Len(<<>>) = 0
    <3>1. <<>> \in Seq({1})
      OBVIOUS
    <3> QED
      BY <3>1 DEF IsSequence
  <2>2. AllCarried(<<>>, ls, 0)
    BY <2>1 DEF AllCarried
  <2>3. Good(0)
    BY <1>1, <2>2
  <2> HIDE DEF Good
  <2> QED
    BY <2>3
<1>3. ASSUME NEW j \in Nat, j \in S PROVE j + 1 \in S
  <2> SUFFICES ASSUME j + 1 <= n, tr[j + 1].ok PROVE Good(j + 1)
    <3> HIDE DEF Good
    <3> QED
      OBVIOUS
  <2> DEFINE i == j + 1
             a == tr[j]
             z == tr[i]
             l == ls[i]
  <2>1. j <= n /\ i \in 1..n /\ i - 1 = j
    OBVIOUS
  <2>2. z = TranslateLine(t, patched, spans, table, Q, a, l)
    BY <1>1, <2>1
  <2>3. a.ok
    <3>1. ~a.ok => TranslateLine(t, patched, spans, table, Q, a, l) = a
      BY DEF TranslateLine
    <3> HIDE DEF a, l, z
    <3>2. z.ok
      BY DEF z
    <3> QED
      BY <2>2, <3>1, <3>2
  <2>4. Good(j)
    <3> HIDE DEF Good
    <3> QED
      BY <1>3, <2>1, <2>3
  <2>5. l.kind = "add" => l.text \in Seq(Bare)
    BY <2>1
  <2>6. z.ok
    OBVIOUS
  <2>7. IsState(a) /\ SafeRemoved(a.removed) /\ AllCarried(a.lines, ls, j)
    BY <2>4
  <2> HIDE DEF a, l, z
  <2>8. /\ IsState(z) /\ SafeRemoved(z.removed)
        /\ \E x : z.lines = Append(a.lines, x) /\ Carried(x, l)
    <3>1. Ready(spans, table, a, l)
      BY <2>5, <2>7 DEF Ready
    <3>2. GoesOn(a, z, l)
      BY <2>2, <2>6, <3>1, LineTranslated
    <3> QED
      BY <3>2 DEF GoesOn
  <2>9. PICK x : z.lines = Append(a.lines, x) /\ Carried(x, l)
    BY <2>8
  <2> DEFINE out == a.lines
             o == z.lines
  <2>10. IsSequence(out) /\ Len(out) = j /\ \A k \in 1..j : Carried(out[k], ls[k])
    BY <2>7 DEF AllCarried
  <2>11. o = Append(out, x)
    BY <2>9
  <2> HIDE DEF out, o
  <2>12. IsSequence(o) /\ Len(o) = i /\ o[i] = x /\ \A k \in 1..j : o[k] = out[k]
    BY <2>10, <2>11, AppendAny
  <2>13. \A k \in 1..i : Carried(o[k], ls[k])
    <3> TAKE k \in 1..i
    <3>1. CASE k = i
      BY <2>9, <2>12, <3>1 DEF l
    <3>2. CASE k # i
      <4>1. k \in 1..j
        BY <3>2
      <4> QED
        BY <2>10, <2>12, <4>1
    <3> QED
      BY <3>1, <3>2
  <2>14. AllCarried(o, ls, i)
    BY <2>12, <2>13 DEF AllCarried
  <2> QED
    BY <2>8, <2>14 DEF o, z
<1> HIDE DEF S
<1>4. n \in S
  BY <1>2, <1>3, NatInd
<1>5. Good(n)
  <2>1. tr[n].ok
    BY <1>1
  <2> HIDE DEF Good
  <2> QED
    BY <1>4, <2>1 DEF S
<1> QED
  BY <1>1, <1>5

(***************************************************************************)
(* A translated hunk fits the real file                                    *)
(***************************************************************************)

\* A walk that ends well was well all along.
LEMMA WellAllAlong ==
  ASSUME NEW n \in Nat, NEW tr, \A k \in 1..n : tr[k].ok => tr[k - 1].ok, tr[n].ok
  PROVE  \A j \in 0..n : tr[j].ok
<1> DEFINE S == {j \in Nat : j <= n => tr[n - j].ok}
<1>1. 0 \in S
  OBVIOUS
<1>2. ASSUME NEW j \in Nat, j \in S PROVE j + 1 \in S
  <2> SUFFICES ASSUME j + 1 <= n PROVE tr[n - (j + 1)].ok
    OBVIOUS
  <2> DEFINE k == n - j
  <2>1. k \in 1..n /\ k - 1 = n - (j + 1) /\ j <= n
    OBVIOUS
  <2>2. tr[k].ok
    BY <1>2, <2>1
  <2> HIDE DEF k
  <2>3. tr[k - 1].ok
    BY <2>1, <2>2
  <2> QED
    BY <2>1, <2>3
<1> HIDE DEF S
<1>3. \A j \in Nat : j \in S
  BY <1>1, <1>2, NatInd
<1>4. ASSUME NEW j \in 0..n PROVE tr[j].ok
  <2> DEFINE i == n - j
  <2>1. i \in Nat /\ i <= n /\ n - i = j
    OBVIOUS
  <2> HIDE DEF i
  <2>2. i \in S
    BY <1>3, <2>1
  <2> QED
    BY <2>1, <2>2 DEF S
<1> QED
  BY <1>4

IsProgress(s) == s = [ok |-> s.ok, lines |-> s.lines, cursor |-> s.cursor]

\* A line of the file that a hunk names stands at the cursor.
LEMMA LineMatches ==
  ASSUME NEW old, NEW s, IsProgress(s), NEW l, l.kind # "add", ApplyLine(old, s, l).ok
  PROVE  /\ s.cursor + 1 \in DOMAIN old /\ l.text = LineBody(old[s.cursor + 1])
         /\ IsProgress(ApplyLine(old, s, l)) /\ ApplyLine(old, s, l).cursor = s.cursor + 1
<1> DEFINE z == ApplyLine(old, s, l)
           d == s.cursor + 1
           next == IF l.kind = "context" THEN Append(s.lines, old[d]) ELSE s.lines
<1>1. s.ok /\ d \in DOMAIN old /\ LineBody(old[d]) = l.text
  BY DEF ApplyLine, Failure
<1>2. z = [s EXCEPT !.cursor = @ + 1,
                    !.lines = IF l.kind = "context" THEN Append(@, old[d]) ELSE @]
  BY <1>1 DEF ApplyLine
<1> HIDE DEF z
<1>3. z = [ok |-> s.ok, lines |-> next, cursor |-> d]
  BY <1>2 DEF IsProgress
<1> HIDE DEF next, d
<1>4. IsProgress(z) /\ z.cursor = d
  BY <1>3 DEF IsProgress
<1> QED
  BY <1>1, <1>4 DEF z, d

LEMMA AppliedWell ==
  ASSUME NEW old, NEW s, NEW l, ApplyLine(old, s, l).ok
  PROVE  s.ok
BY DEF ApplyLine

\* The lines of a hunk that applies are, but for those it adds, the file's.
Matches(old, b, out, c) == \A k \in 1..c : b + k <= Len(old) /\ out[k].text = LineBody(old[b + k])

LEMMA LinesMatch ==
  ASSUME NEW V, NEW old \in Seq(V), NEW b \in Nat, NEW c \in Nat, NEW R, NEW out,
         NEW n \in Nat, DOMAIN out = 1..n, c <= n, \A k \in 1..c : out[k].kind # "add",
         ApplyLines(old, Reached(R, b), out).ok
  PROVE  Matches(old, b, out, c)
<1>0. DOMAIN old = 1..Len(old) /\ Len(old) \in Nat
  BY LenProperties
<1> DEFINE s == Reached(R, b)
<1>1. s.cursor = b /\ IsProgress(s)
  BY DEF Reached, IsProgress
<1> HIDE DEF s
<1>2. PICK tr : Walks(tr, "line", old, s, out, n) /\ ApplyLines(old, s, out) = tr[n]
  <2>1. \E tr : Walks(tr, "line", old, s, out, n) /\ ApplyLines(old, s, out) = tr[n]
    BY LineWalks
  <2> QED
    BY <2>1
<1>3. \A k \in 1..n : tr[k] = ApplyLine(old, tr[k - 1], out[k])
  BY <1>2 DEF Walks, Step
<1>4. \A j \in 0..n : tr[j].ok
  <2>1. tr[n].ok
    BY <1>2 DEF s
  <2>2. \A k \in 1..n : tr[k].ok => tr[k - 1].ok
    BY <1>3, AppliedWell
  <2> QED
    BY <2>1, <2>2, WellAllAlong
<1> DEFINE Good(j) == IsProgress(tr[j]) /\ tr[j].cursor = b + j
           S == {j \in Nat : j <= c => Good(j)}
<1>5. 0 \in S
  BY <1>1, <1>2 DEF Walks
<1>6. ASSUME NEW j \in Nat, j + 1 <= c, Good(j)
      PROVE  /\ Good(j + 1) /\ b + (j + 1) \in DOMAIN old
             /\ out[j + 1].text = LineBody(old[b + (j + 1)])
  <2> DEFINE i == j + 1
             a == tr[j]
             z == tr[i]
             l == out[i]
  <2>1. i \in 1..n /\ i \in 1..c /\ i - 1 = j /\ i \in 0..n
    BY <1>6
  <2>2. z = ApplyLine(old, a, l)
    BY <1>3, <2>1
  <2>3. z.ok
    BY <1>4, <2>1
  <2>4. l.kind # "add" /\ IsProgress(a) /\ a.cursor = b + j
    BY <1>6, <2>1
  <2> HIDE DEF i, a, z, l
  <2>5. /\ a.cursor + 1 \in DOMAIN old /\ l.text = LineBody(old[a.cursor + 1])
        /\ IsProgress(z) /\ z.cursor = a.cursor + 1
    BY <2>2, <2>3, <2>4, LineMatches
  <2>6. a.cursor + 1 = b + i
    BY <2>4 DEF i
  <2>7. b + i \in DOMAIN old /\ l.text = LineBody(old[b + i]) /\ IsProgress(z) /\ z.cursor = b + i
    BY <2>5, <2>6
  <2> QED
    BY <2>7 DEF i, l, z
<1>7. ASSUME NEW j \in Nat, j \in S PROVE j + 1 \in S
  <2> SUFFICES ASSUME j + 1 <= c PROVE Good(j + 1)
    <3> HIDE DEF Good
    <3> QED
      OBVIOUS
  <2>1. Good(j)
    <3> HIDE DEF Good
    <3>1. j <= c
      OBVIOUS
    <3> QED
      BY <1>7, <3>1
  <2> QED
    BY <1>6, <2>1
<1> HIDE DEF S
<1>8. \A j \in Nat : j \in S
  BY <1>5, <1>7, NatInd
<1> HIDE DEF Good
<1>9. ASSUME NEW k \in 1..c PROVE b + k <= Len(old) /\ out[k].text = LineBody(old[b + k])
  <2> DEFINE j == k - 1
  <2>1. j \in Nat /\ j + 1 = k /\ j + 1 <= c /\ j <= c
    OBVIOUS
  <2> HIDE DEF j
  <2>2. Good(j)
    BY <1>8, <2>1 DEF S
  <2>3. b + (j + 1) \in DOMAIN old /\ out[j + 1].text = LineBody(old[b + (j + 1)])
    BY <1>6, <2>1, <2>2
  <2> QED
    BY <1>0, <2>1, <2>3
<1> QED
  BY <1>9 DEF Matches

LEMMA ShapesEqual ==
  ASSUME NEW lines, NEW e \in LineEdits, NEW x, HunkShaped(x, lines, e), NEW y, HunkShaped(y, lines, e)
  PROVE  x = y
<1> DEFINE n == e.above
           g == e.gone
           m == Len(e.added)
           o == n + g
           N == o + m
<1>0. n \in Nat /\ g \in Nat /\ m \in Nat
  BY EditTyped
<1>1. n \in Nat /\ g \in Nat /\ m \in Nat /\ o \in Nat /\ N \in Nat
  <2> HIDE DEF n, g, m
  <2> QED
    BY ONLY <1>0
<1>2. PICK V : x \in Seq(V)
  BY DEF HunkShaped, IsSequence
<1>3. PICK W : y \in Seq(W)
  BY DEF HunkShaped, IsSequence
<1>4. Len(x) = N /\ Len(y) = N
  BY DEF HunkShaped
<1>5. /\ \A k \in 1..n : x[k] = y[k]
      /\ \A k \in 1..g : x[n + k] = y[n + k]
      /\ \A k \in 1..m : x[o + k] = y[o + k]
  BY DEF HunkShaped
<1> DEFINE U == V \cup W
<1>6. V \subseteq U /\ W \subseteq U
  OBVIOUS
<1> HIDE DEF U
<1>7. x \in Seq(U) /\ y \in Seq(U)
  BY <1>2, <1>3, <1>6, WiderSeq
<1>a. o = n + g /\ N = o + m
  OBVIOUS
<1> HIDE DEF n, g, m, o, N
<1>8. ASSUME NEW i \in 1..N PROVE x[i] = y[i]
  <2>1. CASE i <= n
    BY <1>1, <1>5, <2>1
  <2>2. CASE ~(i <= n) /\ i <= o
    <3> DEFINE k == i - n
    <3>1. k \in 1..g /\ n + k = i
      BY <1>1, <1>a, <2>2
    <3> HIDE DEF k
    <3> QED
      BY <1>5, <3>1
  <2>3. CASE ~(i <= o)
    <3> DEFINE k == i - o
    <3>1. k \in 1..m /\ o + k = i
      BY <1>1, <1>a, <2>3
    <3> HIDE DEF k
    <3> QED
      BY <1>5, <3>1
  <2> QED
    BY <2>1, <2>2, <2>3
<1> QED
  BY <1>1, <1>4, <1>7, <1>8, SeqEqual

\* The edit whose new lines are those of a hunk.
Recut(e, out) ==
    [at |-> e.at, gone |-> e.gone, above |-> e.above,
     added |-> [k \in DOMAIN e.added |-> out[e.above + e.gone + k].text]]

LEMMA RecutTyped ==
  ASSUME NEW e \in LineEdits, NEW out,
         \A k \in 1..Len(e.added) : out[e.above + e.gone + k].text \in Seq(Bare)
  PROVE  /\ Recut(e, out) \in LineEdits
         /\ Recut(e, out).at = e.at /\ Recut(e, out).gone = e.gone /\ Recut(e, out).above = e.above
         /\ Len(Recut(e, out).added) = Len(e.added)
         /\ \A k \in 1..Len(e.added) : Recut(e, out).added[k] = out[e.above + e.gone + k].text
<1> DEFINE m == Len(e.added)
           o == e.above + e.gone
           u == [k \in DOMAIN e.added |-> out[e.above + e.gone + k].text]
           L == {w \in Seq(Letters) : IsLine(w)}
<1>1. /\ e.at \in Nat /\ e.gone \in Nat /\ e.above \in Nat /\ m \in Nat
      /\ DOMAIN e.added = 1..m
  BY EditTyped
<1>2. u = [k \in 1..m |-> out[o + k].text]
  BY <1>1
<1>3. \A w \in Seq(Bare) : w \in L
  <2> TAKE w \in Seq(Bare)
  <2>1. Bare \subseteq Letters /\ \A c \in Bare : c # Newline
    BY DEF Bare
  <2>2. w \in Seq(Letters)
    BY <2>1, WiderSeq
  <2>3. \A i \in DOMAIN w : w[i] \in Bare
    BY LenProperties, ElementOfSeq
  <2>4. IsLine(w)
    BY <2>1, <2>3 DEF IsLine
  <2> QED
    BY <2>2, <2>4
<1>4. \A k \in 1..m : out[o + k].text \in L
  BY <1>3
<1> HIDE DEF m, u, L
<1>5. \A k \in 1..m : u[k] = out[o + k].text
  BY <1>2
<1>6. u = [k \in 1..m |-> u[k]] /\ \A k \in 1..m : u[k] \in L
  BY <1>2, <1>4, <1>5
<1>7. u \in Seq(L) /\ Len(u) = m
  BY <1>1, <1>6, ListIsSeq
<1>8. Recut(e, out) = [at |-> e.at, gone |-> e.gone, above |-> e.above, added |-> u]
  BY DEF Recut, u
<1>9. Recut(e, out) \in LineEdits
  BY <1>1, <1>7, <1>8 DEF LineEdits, L
<1> QED
  BY <1>5, <1>7, <1>8, <1>9 DEF m

\* A translated hunk that applies to the real file is a hunk of it.
LEMMA HunkRecut ==
  ASSUME NEW mirror, AreLines(mirror), NEW old, AreLines(old), NEW e \in LineEdits, NEW grown,
         e.above <= e.at, e.at + e.gone <= Len(mirror),
         NEW out, AllCarried(out, HunkLines(mirror, e), Len(HunkLines(mirror, e))),
         NEW s, ApplyHunk(old, s, [HunkOf(mirror, e, grown) EXCEPT !.lines = out]).ok
  PROVE  /\ Recut(e, out) \in LineEdits /\ e.at + e.gone <= Len(old)
         /\ Recut(e, out).at = e.at /\ Recut(e, out).gone = e.gone /\ Recut(e, out).above = e.above
         /\ Len(Recut(e, out).added) = Len(e.added)
         /\ [HunkOf(mirror, e, grown) EXCEPT !.lines = out] = HunkOf(old, Recut(e, out), grown)
<1> DEFINE ls == HunkLines(mirror, e)
           N == Len(ls)
           n == e.above
           g == e.gone
           at == e.at
           m == Len(e.added)
           c == n + g
           d == Recut(e, out)
           b == at - n
           h == HunkOf(mirror, e, grown)
           x == [h EXCEPT !.lines = out]
<1>1. n \in Nat /\ g \in Nat /\ m \in Nat /\ at \in Nat /\ n <= at
  BY EditTyped
<1>2. HunkShaped(ls, mirror, e)
  BY HunkShape
<1>3. N = c + m
  BY <1>2 DEF HunkShaped
<1>4. N \in Nat /\ c \in Nat /\ c <= N /\ b \in Nat /\ b + c = at + g
  BY <1>1, <1>3
<1>5. \A i \in 1..N : ls[i].kind = KindAt(e, i)
  <2> TAKE i \in 1..N
  <2>1. \E text : IsSequence(text) /\ ls[i] = Line(KindAt(e, i), text)
    <3>1. i \in 1..Len(ls)
      OBVIOUS
    <3> HIDE DEF ls
    <3> QED
      BY <1>2, <3>1, LinesOfHunk
  <2> QED
    BY <2>1 DEF Line
<1>6. IsSequence(out) /\ Len(out) = N /\ \A i \in 1..N : Carried(out[i], ls[i])
  BY DEF AllCarried
<1> HIDE DEF ls, N
<1>7. ASSUME NEW i \in 1..N
      PROVE  /\ out[i] = Line(KindAt(e, i), out[i].text) /\ out[i].kind = KindAt(e, i)
             /\ KindAt(e, i) = "add" => out[i].text \in Seq(Bare)
  <2>1. PICK text : out[i] = Line(ls[i].kind, text) /\ (ls[i].kind = "add" => text \in Seq(Bare))
    BY <1>6 DEF Carried
  <2>2. out[i].text = text /\ out[i].kind = ls[i].kind
    BY <2>1 DEF Line
  <2> QED
    BY <1>5, <2>1, <2>2
<1>8. /\ \A i \in 1..n : KindAt(e, i) = "context"
      /\ \A i \in 1..g : KindAt(e, n + i) = "remove"
      /\ \A i \in 1..m : KindAt(e, c + i) = "add"
      /\ \A i \in 1..c : KindAt(e, i) # "add"
  BY <1>1 DEF KindAt
<1>a. /\ \A i \in 1..n : i \in 1..N
      /\ \A i \in 1..g : n + i \in 1..N
      /\ \A i \in 1..m : c + i \in 1..N
      /\ \A i \in 1..c : i \in 1..N
  <2>1. c = n + g
    OBVIOUS
  <2> HIDE DEF n, g, m, c
  <2>2. \A i \in 1..n : i \in 1..N
    BY <1>1, <1>3, <2>1
  <2>3. \A i \in 1..g : n + i \in 1..N
    BY <1>1, <1>3, <2>1
  <2>4. \A i \in 1..m : c + i \in 1..N
    BY <1>1, <1>3, <1>4
  <2>5. \A i \in 1..c : i \in 1..N
    BY <1>4
  <2> QED
    BY <2>2, <2>3, <2>4, <2>5
<1>9. /\ d \in LineEdits /\ d.at = at /\ d.gone = g /\ d.above = n /\ Len(d.added) = m
      /\ \A k \in 1..m : d.added[k] = out[c + k].text
  <2>1. \A k \in 1..m : out[c + k].text \in Seq(Bare)
    BY <1>7, <1>8, <1>a
  <2> QED
    BY <2>1, RecutTyped
<1>10. /\ x.oldStart = h.oldStart /\ x.oldCount = h.oldCount /\ x.lines = out
       /\ x.newStart = h.newStart /\ x.newCount = h.newCount
       /\ x = Hunk(h.oldStart, h.oldCount, h.newStart, h.newCount, out)
  BY DEF HunkOf, Hunk
<1>11. Anchor(x.oldStart, x.oldCount) = b
  <2>1. Anchor(h.oldStart, h.oldCount) = b
    BY HunkAnchored
  <2> QED
    BY <1>10, <2>1, Zenon
<1>12. ApplyHunk(old, s, x).ok
  OBVIOUS
<1> HIDE DEF x, h, d, b, n, g, m, at, c
<1>13. b <= Len(old) /\ \E R : ApplyLines(old, Reached(R, b), out).ok
  <2> DEFINE R == s.lines \o SubSeq(old, s.cursor + 1, b)
  <2>1. ~(~s.ok \/ b < s.cursor \/ b > Len(old))
    BY <1>11, <1>12 DEF ApplyHunk, Failure
  <2>2. ApplyHunk(old, s, x) = ApplyLines(old, Reached(R, b), out)
    BY <1>10, <1>11, <2>1 DEF ApplyHunk, Reached
  <2>3. ApplyLines(old, Reached(R, b), out).ok
    BY <1>12, <2>2
  <2>4. Len(old) \in Nat
    BY LinesSay, LenProperties
  <2> HIDE DEF R
  <2> QED
    BY <1>4, <2>1, <2>3, <2>4
<1>14. PICK R : ApplyLines(old, Reached(R, b), out).ok
  BY <1>13
<1>15. old \in Seq(LineSet) /\ Len(old) \in Nat
  BY LinesSay, LenProperties
<1>16. DOMAIN out = 1..N /\ \A k \in 1..c : out[k].kind # "add"
  <2>1. DOMAIN out = 1..N
    BY <1>6, LenProperties DEF IsSequence
  <2> QED
    BY <1>7, <1>8, <1>a, <2>1
<1>17. \A k \in 1..c : b + k <= Len(old) /\ out[k].text = LineBody(old[b + k])
  <2>1. old \in Seq(LineSet)
    BY <1>15
  <2>2. b \in Nat /\ c \in Nat /\ N \in Nat /\ c <= N
    BY <1>4
  <2> HIDE DEF N
  <2>3. Matches(old, b, out, c)
    BY <1>14, <1>16, <2>1, <2>2, LinesMatch
  <2> QED
    BY <2>3 DEF Matches
<1>18. at + g <= Len(old)
  <2>1. CASE c = 0
    BY <1>4, <1>13, <2>1
  <2>2. CASE c # 0
    <3>1. c \in 1..c
      BY <1>4, <2>2
    <3> QED
      BY <1>4, <1>17, <3>1
  <2> QED
    BY <2>1, <2>2
<1>19. HunkShaped(out, old, d)
  <2>1. \A k \in 1..n : out[k] = Line("context", LineBody(old[at - n + k]))
    <3> TAKE k \in 1..n
    <3>1. k \in 1..c /\ b = at - n
      BY <1>1 DEF c, b
    <3> QED
      BY <1>7, <1>8, <1>a, <1>17, <3>1
  <2>2. \A k \in 1..g : out[n + k] = Line("remove", LineBody(old[at + k]))
    <3> TAKE k \in 1..g
    <3> DEFINE i == n + k
    <3>1. i \in 1..c /\ b + i = at + k
      BY <1>1 DEF c, b
    <3>2. KindAt(e, i) = "remove"
      BY <1>8
    <3> HIDE DEF i
    <3> QED
      BY <1>7, <1>a, <1>17, <3>1, <3>2 DEF i
  <2>3. \A k \in 1..m : out[c + k] = Line("add", d.added[k])
    BY <1>7, <1>8, <1>9, <1>a
  <2>4. IsSequence(out) /\ Len(out) = n + g + m
    BY <1>3, <1>6 DEF c
  <2> QED
    BY <1>9, <2>1, <2>2, <2>3, <2>4 DEF HunkShaped, c
<1>20. out = HunkLines(old, d)
  BY <1>9, <1>19, HunkShape, ShapesEqual
<1>21. x = HunkOf(old, d, grown)
  <2>1. HunkOf(old, d, grown)
          = Hunk(HeaderStart(at - n, n + g), n + g, HeaderStart(at - n + grown, n + m), n + m,
                 HunkLines(old, d))
    BY <1>9 DEF HunkOf
  <2>2. h = Hunk(HeaderStart(at - n, n + g), n + g, HeaderStart(at - n + grown, n + m), n + m,
                 HunkLines(mirror, e))
    BY DEF HunkOf, h, at, n, g, m
  <2>3. /\ h.oldStart = HeaderStart(at - n, n + g) /\ h.oldCount = n + g
        /\ h.newStart = HeaderStart(at - n + grown, n + m) /\ h.newCount = n + m
    BY <2>2 DEF Hunk
  <2> QED
    BY <1>10, <1>20, <2>1, <2>3, Zenon
<1> QED
  BY <1>9, <1>18, <1>21 DEF d, n, g, m, at, x, h

LEMMA LineIsBare ==
  ASSUME NEW w \in Seq(Letters), IsLine(w)
  PROVE  w \in Seq(Bare)
<1> DEFINE n == Len(w)
<1>1. n \in Nat /\ DOMAIN w = 1..n /\ w \in [1..n -> Letters]
  BY LenProperties
<1>2. \A i \in 1..n : w[i] \in Bare
  BY <1>1 DEF IsLine, Bare
<1> HIDE DEF n
<1>3. w \in [1..n -> Bare]
  BY <1>1, <1>2
<1> QED
  BY <1>1, <1>3

LEMMA LineSays == \A kind, text : Line(kind, text).kind = kind /\ Line(kind, text).text = text
BY DEF Line

LEMMA AddedAreBare ==
  ASSUME NEW lines, NEW e \in LineEdits, NEW i \in 1..Len(HunkLines(lines, e)),
         HunkLines(lines, e)[i].kind = "add"
  PROVE  HunkLines(lines, e)[i].text \in Seq(Bare)
<1> DEFINE ls == HunkLines(lines, e)
           n == e.above
           g == e.gone
           m == Len(e.added)
           N == Len(ls)
<1>1. /\ n \in Nat /\ g \in Nat /\ m \in Nat
      /\ \A k \in 1..m : e.added[k] \in Seq(Letters) /\ IsLine(e.added[k])
  BY EditTyped
<1>2. HunkShaped(ls, lines, e)
  BY HunkShape
<1> HIDE DEF ls
<1>3. /\ N = n + g + m
      /\ \A k \in 1..n : ls[k] = Line("context", LineBody(lines[e.at - n + k]))
      /\ \A k \in 1..g : ls[n + k] = Line("remove", LineBody(lines[e.at + k]))
      /\ \A k \in 1..m : ls[n + g + k] = Line("add", e.added[k])
  BY <1>2 DEF HunkShaped
<1>4. i \in 1..N /\ ls[i].kind = "add"
  BY DEF ls
<1> HIDE DEF n, g, m, N
<1>5. CASE i <= n
  <2>1. i \in 1..n
    BY <1>1, <1>4, <1>5
  <2>2. ls[i] = Line("context", LineBody(lines[e.at - e.above + i]))
    BY <1>3, <2>1 DEF n
  <2>3. ls[i].kind = "context"
    BY <2>2, LineSays
  <2> QED
    BY <1>4, <2>3
<1>6. CASE ~(i <= n) /\ i <= n + g
  <2> DEFINE k == i - n
  <2>1. k \in 1..g /\ n + k = i
    BY <1>1, <1>4, <1>6
  <2> HIDE DEF k
  <2>2. ls[i] = Line("remove", LineBody(lines[e.at + k]))
    BY <1>3, <2>1
  <2>3. ls[i].kind = "remove"
    BY <2>2, LineSays
  <2> QED
    BY <1>4, <2>3
<1>7. CASE ~(i <= n + g)
  <2> DEFINE k == i - (n + g)
  <2>1. k \in 1..m /\ n + g + k = i
    BY <1>1, <1>3, <1>4, <1>7
  <2> HIDE DEF k
  <2>2. ls[i].text = e.added[k]
    <3>1. ls[i] = Line("add", e.added[k])
      BY <1>3, <2>1
    <3> QED
      BY <3>1, LineSays
  <2>3. e.added[k] \in Seq(Bare)
    BY <1>1, <2>1, LineIsBare
  <2> QED
    BY <2>2, <2>3 DEF ls
<1> QED
  BY <1>5, <1>6, <1>7

\* What TranslatePatch makes of one hunk.
OutOf(mirror, patched, spans, P, h) ==
    TranslateLines(mirror, patched, spans, ReverseTable(spans), P, StartOf(h), h.lines)

LEMMA HunkTranslated ==
  ASSUME NEW mirror, NEW patched, NEW spans, AreSpans(spans), NEW P,
         NEW lines, NEW e \in LineEdits, NEW grown,
         OutOf(mirror, patched, spans, P, HunkOf(lines, e, grown)).ok
  PROVE  AllCarried(OutOf(mirror, patched, spans, P, HunkOf(lines, e, grown)).lines,
                    HunkLines(lines, e), Len(HunkLines(lines, e)))
<1> DEFINE h == HunkOf(lines, e, grown)
           s == StartOf(h)
           ls == HunkLines(lines, e)
           N == Len(ls)
           table == ReverseTable(spans)
<1>1. SpellsAliases(table)
  BY ReverseTableSpells
<1>2. IsState(s) /\ s.removed = <<>> /\ s.lines = <<>>
  BY DEF StartOf, IsState
<1>3. SafeRemoved(s.removed)
  BY <1>2, NothingRemoved
<1>4. h.lines = ls
  BY DEF HunkOf, Hunk
<1>5. N \in Nat /\ DOMAIN ls = 1..N
  BY HunkShape, HunkIsSeq
<1>6. \A i \in 1..N : ls[i].kind = "add" => ls[i].text \in Seq(Bare)
  BY AddedAreBare
<1> DEFINE z == TranslateLines(mirror, patched, spans, table, P, s, ls)
<1>7. OutOf(mirror, patched, spans, P, h) = z
  <2> HIDE DEF ls, h
  <2> QED
    BY <1>4 DEF OutOf
<1> HIDE DEF h, s, ls, N, table
<1>8. z.ok
  BY <1>7 DEF h
<1>9. AllCarried(z.lines, ls, N)
  BY ONLY <1>1, <1>2, <1>3, <1>5, <1>6, <1>8, AreSpans(spans), LinesTranslated, Zenon
<1> QED
  BY <1>7, <1>9 DEF h, ls, N

\* The hunks of a patch that applies.
LEMMA EveryHunkApplies ==
  ASSUME NEW t, NEW hs, NEW n \in Nat, DOMAIN hs = 1..n, ApplyPatch(t, hs).ok
  PROVE  \A k \in 1..n : \E s : ApplyHunk(SplitLines(t), s, hs[k]).ok
<1> DEFINE old == SplitLines(t)
<1>1. ApplyHunks(old, hs).ok
  BY DEF ApplyPatch
<1> HIDE DEF old
<1>2. PICK tr : Walks(tr, "hunk", old, Untouched, hs, n) /\ ApplyHunks(old, hs) = tr[n]
  <2>1. \E tr : Walks(tr, "hunk", old, Untouched, hs, n) /\ ApplyHunks(old, hs) = tr[n]
    BY HunkWalks
  <2> QED
    BY <2>1
<1>3. \A k \in 1..n : tr[k] = ApplyHunk(old, tr[k - 1], hs[k])
  BY <1>2 DEF Walks, Step
<1>4. \A s, h : ApplyHunk(old, s, h).ok => s.ok
  BY DEF ApplyHunk, Failure
<1>5. \A k \in 1..n : tr[k].ok => tr[k - 1].ok
  BY <1>3, <1>4
<1>6. \A j \in 0..n : tr[j].ok
  <2>1. tr[n].ok
    BY <1>1, <1>2
  <2> QED
    BY <1>5, <2>1, WellAllAlong
<1>7. \A k \in 1..n : ApplyHunk(old, tr[k - 1], hs[k]).ok
  <2>1. \A k \in 1..n : k \in 0..n
    OBVIOUS
  <2> QED
    BY <1>3, <1>6, <2>1
<1> QED
  BY <1>7 DEF old

(***************************************************************************)
(* The lines no edit touches                                               *)
(***************************************************************************)

\* The edits that a translated patch makes of the real file.
Alike(others, edits, n) ==
    \A k \in 1..n : /\ others[k].at = edits[k].at /\ others[k].gone = edits[k].gone
                    /\ Len(others[k].added) = Len(edits[k].added)

LEMMA PatchTranslated ==
  ASSUME NEW mirror \in Seq(Letters), NEW t \in Seq(Letters), NEW edits, NEW n,
         Apart(edits, n, Len(SplitLines(mirror))),
         NEW spans, AreSpans(spans), NEW patched, NEW P,
         NEW back, back = TranslatePatch(mirror, patched, spans, P, HunksOf(mirror, edits)),
         back.ok, ApplyPatch(t, back.hunks).ok
  PROVE  \E others : /\ Apart(others, n, Len(SplitLines(t))) /\ Alike(others, edits, n)
                     /\ HunksFor(back.hunks, SplitLines(t), others, n)
<1> DEFINE hs == HunksOf(mirror, edits)
           from == SplitLines(mirror)
           old == SplitLines(t)
           Out(k) == OutOf(mirror, patched, spans, P, hs[k])
           others == [k \in 1..n |-> Recut(edits[k], Out(k).lines)]
           bs == back.hunks
<1>1. n \in Nat /\ DOMAIN edits = 1..n
  BY DEF Apart
<1>2. HunksFor(hs, from, edits, n)
  BY <1>1, HunksMade
<1>3. DOMAIN hs = 1..n /\ \A k \in 1..n : \E grown : hs[k] = HunkOf(from, edits[k], grown)
  BY <1>2 DEF HunksFor
<1>4. AreLines(from) /\ AreLines(old)
  BY TextsSplit
<1> HIDE DEF hs, from, old
<1>5. back = [ok |-> \A k \in DOMAIN hs : Out(k).ok,
              hunks |-> [k \in DOMAIN hs |-> [hs[k] EXCEPT !.lines = Out(k).lines]]]
  BY DEF TranslatePatch, OutOf, hs
<1> HIDE DEF Out
<1>6. /\ \A k \in 1..n : Out(k).ok
      /\ bs = [k \in 1..n |-> [hs[k] EXCEPT !.lines = Out(k).lines]]
  BY <1>3, <1>5
<1> HIDE DEF bs
<1>7. \A k \in 1..n : \E s : ApplyHunk(old, s, bs[k]).ok
  <2>1. DOMAIN bs = 1..n
    BY <1>6
  <2>2. ApplyPatch(t, bs).ok
    BY DEF bs
  <2> QED
    BY <1>1, <2>1, <2>2, EveryHunkApplies DEF old
<1>8. ASSUME NEW k \in 1..n
      PROVE  /\ others[k] \in LineEdits /\ Fits(others[k], Len(old))
             /\ others[k].at = edits[k].at /\ others[k].gone = edits[k].gone
             /\ others[k].above = edits[k].above
             /\ Len(others[k].added) = Len(edits[k].added)
             /\ \E grown : bs[k] = HunkOf(old, others[k], grown)
  <2> DEFINE e == edits[k]
             out == Out(k).lines
  <2>1. e \in LineEdits /\ e.at + e.gone <= Len(from) /\ e.above <= e.at
    BY DEF Apart, Fits, from
  <2>2. PICK grown : hs[k] = HunkOf(from, e, grown)
    BY <1>3
  <2>3. Out(k).ok
    BY <1>6
  <2>4. others[k] = Recut(e, out)
    OBVIOUS
  <2> HIDE DEF e
  <2>5. AllCarried(out, HunkLines(from, e), Len(HunkLines(from, e)))
    <3> DEFINE h == HunkOf(from, e, grown)
               z == OutOf(mirror, patched, spans, P, h)
    <3>1. z = Out(k)
      BY <2>2 DEF Out
    <3>2. z.ok
      BY <2>3, <3>1
    <3>3. AllCarried(z.lines, HunkLines(from, e), Len(HunkLines(from, e)))
      BY <2>1, <3>2, HunkTranslated
    <3> HIDE DEF z
    <3> QED
      BY <3>1, <3>3
  <2> HIDE DEF out
  <2>6. bs[k] = [HunkOf(from, e, grown) EXCEPT !.lines = out]
    BY <1>6, <2>2 DEF out
  <2>7. PICK s : ApplyHunk(old, s, bs[k]).ok
    BY <1>7
  <2>8. ApplyHunk(old, s, [HunkOf(from, e, grown) EXCEPT !.lines = out]).ok
    BY <2>6, <2>7
  <2> DEFINE d == Recut(e, out)
  <2>9. /\ d \in LineEdits /\ e.at + e.gone <= Len(old)
        /\ d.at = e.at /\ d.gone = e.gone /\ d.above = e.above
        /\ Len(d.added) = Len(e.added)
        /\ [HunkOf(from, e, grown) EXCEPT !.lines = out] = HunkOf(old, d, grown)
    BY <1>4, <2>1, <2>5, <2>8, HunkRecut
  <2> HIDE DEF d
  <2>10. Fits(d, Len(old))
    BY <2>1, <2>9 DEF Fits
  <2>11. bs[k] = HunkOf(old, d, grown)
    BY <2>6, <2>9
  <2>12. others[k] = d
    BY <2>4 DEF d
  <2> HIDE DEF others
  <2> QED
    BY <2>9, <2>10, <2>11, <2>12 DEF e
<1>9. DOMAIN others = 1..n
  OBVIOUS
<1> HIDE DEF others
<1>10. \A k \in 1..(n - 1) : others[k].at + others[k].gone + others[k + 1].above <= others[k + 1].at
  <2> TAKE k \in 1..(n - 1)
  <2>1. k \in 1..n /\ k + 1 \in 1..n
    BY <1>1
  <2>2. edits[k].at + edits[k].gone + edits[k + 1].above <= edits[k + 1].at
    BY DEF Apart
  <2>3. others[k].at = edits[k].at /\ others[k].gone = edits[k].gone
    BY <1>8, <2>1
  <2>4. others[k + 1].at = edits[k + 1].at /\ others[k + 1].above = edits[k + 1].above
    BY <1>8, <2>1
  <2> QED
    BY <2>2, <2>3, <2>4
<1>11. Apart(others, n, Len(old))
  BY <1>1, <1>8, <1>9, <1>10 DEF Apart
<1>12. HunksFor(bs, old, others, n)
  BY <1>6, <1>8 DEF HunksFor
<1>13. Alike(others, edits, n)
  BY <1>8 DEF Alike
<1> QED
  BY <1>11, <1>12, <1>13 DEF bs, old

LEMMA AlikeCounts ==
  ASSUME NEW edits, NEW others, NEW n, Alike(others, edits, n),
         NEW cw, Walks(cw, "count", <<>>, 0, edits, n)
  PROVE  Walks(cw, "count", <<>>, 0, others, n)
<1>1. cw[0] = 0 /\ \A k \in 1..n : cw[k] = cw[k - 1] + Len(edits[k].added) - edits[k].gone
  BY DEF Walks, Step
<1>2. \A k \in 1..n : cw[k] = cw[k - 1] + Len(others[k].added) - others[k].gone
  BY <1>1 DEF Alike
<1> QED
  BY <1>1, <1>2 DEF Walks, Step

\* What the first edits add to a file.
LEMMA CountedParts ==
  ASSUME NEW V, NEW edits \in Seq(V), NEW n, n = Len(edits),
         NEW cw, Walks(cw, "count", <<>>, 0, edits, n)
  PROVE  /\ GrownBy(edits) = cw[n]
         /\ \A j \in 0..n : GrownBy(SubSeq(edits, 1, j)) = cw[j]
<1>0. n \in Nat /\ DOMAIN edits = 1..n
  BY LenProperties
<1>1. ASSUME NEW j \in Nat, j <= n PROVE GrownBy(Part(edits, 1, j)) = cw[j]
  <2> DEFINE p == Part(edits, 1, j)
  <2>1. p \in Seq(V) /\ Len(p) = j
    BY <1>1, PartFirst
  <2>2. \A i \in 1..j : p[i] = edits[i]
    BY <1>1, PartFirst
  <2> HIDE DEF p
  <2>3. DOMAIN p = 1..j
    BY <2>1, LenProperties
  <2>4. PICK up : Walks(up, "count", <<>>, 0, p, j) /\ GrownBy(p) = up[j]
    <3>1. \E up : Walks(up, "count", <<>>, 0, p, j) /\ GrownBy(p) = up[j]
      BY <1>1, <2>3, CountWalks
    <3> QED
      BY <3>1
  <2>5. cw[j] = up[j]
    <3>1. \A i \in 1..j : edits[i] = p[i]
      BY <2>2
    <3> QED
      BY <1>0, <1>1, <2>4, <3>1, WalksSame
  <2> QED
    BY <2>4, <2>5 DEF p
<1>2. Part(edits, 1, n) = edits
  BY PartWhole
<1>3. GrownBy(edits) = cw[n]
  BY <1>0, <1>1, <1>2
<1>4. \A j \in 0..n : GrownBy(SubSeq(edits, 1, j)) = cw[j]
  BY <1>1 DEF Part
<1> QED
  BY <1>3, <1>4

\* What OtherLinesStay says of the lines of a file before and after edits.
LeavesOthers(old, new, edits) ==
    LET From(n) == IF n = 0 THEN 1 ELSE edits[n].at + edits[n].gone + 1
        To(n) == IF n = Len(edits) THEN Len(old) ELSE edits[n + 1].at
    IN  /\ Len(new) = Len(old) + GrownBy(edits)
        /\ \A n \in 0..Len(edits) : \A k \in From(n)..To(n) :
              new[k + GrownBy(SubSeq(edits, 1, n))] = old[k]

LEMMA OthersLeft ==
  ASSUME NEW mirror \in Seq(Letters), NEW t \in Seq(Letters),
         NEW V, NEW edits \in Seq(V), Apart(edits, Len(edits), Len(SplitLines(mirror))),
         NEW spans, AreSpans(spans), NEW patched, NEW P,
         NEW back, back = TranslatePatch(mirror, patched, spans, P, HunksOf(mirror, edits)),
         back.ok, ApplyPatch(t, back.hunks).ok
  PROVE  LeavesOthers(Bodies(t), Bodies(ApplyPatch(t, back.hunks).text), edits)
<1> DEFINE n == Len(edits)
           old == SplitLines(t)
           B == Bodies(t)
           A == Seq(Letters)
           Q == Bodies(ApplyPatch(t, back.hunks).text)
<1>1. PICK others : /\ Apart(others, n, Len(old)) /\ Alike(others, edits, n)
                    /\ HunksFor(back.hunks, old, others, n)
  BY PatchTranslated
<1>2. n \in Nat /\ DOMAIN edits = 1..n
  BY LenProperties
<1>3. B \in Seq(A) /\ Len(B) = Len(old)
  BY TextsSplit, LinesSay DEF Bodies
<1>4. Q = Edited(t, others)
  BY <1>1, PatchApplies
<1>5. Q = Cat(Rewrites(B, others).out, Part(B, Rewrites(B, others).at + 1, Len(B)))
  BY <1>4 DEF Edited, Cat, Part
<1> HIDE DEF B, Q, old, n
<1>6. \A k \in 1..n : others[k].added \in Seq(A)
  <2> TAKE k \in 1..n
  <2>1. others[k] \in LineEdits
    BY <1>1 DEF Apart
  <2>2. others[k].added \in Seq({w \in A : IsLine(w)})
    BY <2>1, EditTyped
  <2> DEFINE L == {w \in A : IsLine(w)}
             u == others[k].added
  <2>3. L \subseteq A
    OBVIOUS
  <2> HIDE DEF L, A, u
  <2>4. u \in Seq(L)
    BY <2>2 DEF L, u
  <2>5. u \in Seq(A)
    BY <2>3, <2>4, WiderSeq
  <2> QED
    BY <2>5 DEF u
<1> HIDE DEF A
<1>7. PICK cw : Walks(cw, "count", <<>>, 0, edits, n) /\ GrownBy(edits) = cw[n]
  <2>1. \E cw : Walks(cw, "count", <<>>, 0, edits, n) /\ GrownBy(edits) = cw[n]
    BY <1>2, CountWalks
  <2> QED
    BY <2>1
<1>8. Walks(cw, "count", <<>>, 0, others, n)
  BY <1>1, <1>7, AlikeCounts
<1>9. \A j \in 0..n : GrownBy(SubSeq(edits, 1, j)) = cw[j]
  BY <1>7, CountedParts DEF n
<1>10. Apart(others, n, Len(B))
  BY <1>1, <1>3
<1>11. /\ Len(Q) = Len(B) + cw[n]
       /\ \A j \in 0..n : Stays(Q, B, others, j, NextEdit(others, n, Len(B), j), cw[j])
  BY <1>3, <1>5, <1>6, <1>8, <1>10, EditsKeepLines
<1>12. ASSUME NEW j \in 0..n,
              NEW k \in (IF j = 0 THEN 1 ELSE edits[j].at + edits[j].gone + 1)
                        ..(IF j = n THEN Len(B) ELSE edits[j + 1].at)
       PROVE  Q[k + GrownBy(SubSeq(edits, 1, j))] = B[k]
  <2> DEFINE f == IF j = 0 THEN 1 ELSE edits[j].at + edits[j].gone + 1
             g == IF j = n THEN Len(B) ELSE edits[j + 1].at
  <2>1. f = EndOf(others, j) + 1
    <3>1. CASE j = 0
      BY <3>1 DEF EndOf
    <3>2. CASE j # 0
      <4>1. j \in 1..n
        BY <3>2
      <4> QED
        BY <1>1, <3>2, <4>1 DEF EndOf, Alike
    <3> QED
      BY <3>1, <3>2
  <2>2. g = NextEdit(others, n, Len(B), j)
    <3>1. CASE j = n
      BY <3>1 DEF NextEdit
    <3>2. CASE j # n
      <4>1. j + 1 \in 1..n
        BY <1>2, <3>2
      <4> QED
        BY <1>1, <3>2, <4>1 DEF NextEdit, Alike
    <3> QED
      BY <3>1, <3>2
  <2>3. k \in f..g
    OBVIOUS
  <2> HIDE DEF f, g
  <2>4. Q[k + cw[j]] = B[k]
    BY <1>11, <2>1, <2>2, <2>3 DEF Stays
  <2> QED
    BY <1>9, <2>4
<1> QED
  BY <1>7, <1>11, <1>12 DEF LeavesOthers, n, B, Q

\* The plan of a change.
LEMMA PlanLeavesOthers ==
  ASSUME NEW t, NEW mirror, NEW spans, NEW hs,
         PlanModify(t, mirror, spans, hs).outcome = "accepted"
  PROVE  \E patched, P :
            LET back == TranslatePatch(mirror, patched, spans, P, hs)
            IN  /\ back.ok /\ ApplyPatch(t, back.hunks).ok
                /\ PlanModify(t, mirror, spans, hs).real = ApplyPatch(t, back.hunks).text
<1> DEFINE patched == ApplyPatch(mirror, hs)
           P == CollectProtected(t)
           back == TranslatePatch(mirror, patched.text, spans, P, hs)
           landed == ApplyPatch(t, back.hunks)
           plan == PlanModify(t, mirror, spans, hs)
<1>1. \A o, why : why # "accepted" => Refused(o, why).outcome # "accepted"
  BY DEF Refused, NoPlan
<1>2. back.ok /\ plan = PlanLanded(landed, patched.text)
  BY <1>1 DEF PlanModify
<1> HIDE DEF landed, patched, back, plan, P
<1>3. plan.outcome = "accepted"
  BY DEF plan
<1>4. \A r, x : Accepted("modify", r, x).real = r
  BY DEF Accepted
<1>5. landed.ok /\ plan.real = landed.text
  BY <1>1, <1>2, <1>3, <1>4 DEF PlanLanded
<1> QED
  BY <1>2, <1>5 DEF landed, back, plan

(***************************************************************************)
(* The specification                                                       *)
(***************************************************************************)

LEMMA EditsAreLineEdits ==
  ASSUME NEW e \in Edits
  PROVE  e \in LineEdits
<1> DEFINE V == {w \in Words : IsLine(w)}
           W == {w \in Seq(Letters) : IsLine(w)}
<1>1. e.at \in Nat /\ e.gone \in Nat /\ e.above \in Nat /\ e.added \in Seq(V)
      /\ e = [at |-> e.at, gone |-> e.gone, above |-> e.above, added |-> e.added]
  BY DEF Edits
<1>2. V \subseteq W
  <2>1. \A w \in Words : w \in Seq(Letters)
    BY WordsAreChars DEF Letters
  <2> QED
    BY <2>1
<1> DEFINE u == e.added
<1> HIDE DEF V, W, u
<1>3. u \in Seq(V)
  BY <1>1 DEF u
<1>4. u \in Seq(W)
  BY <1>2, <1>3
<1> QED
  BY <1>1, <1>4 DEF LineEdits, u, W

\* The edits of an agent that fit a text.
LEMMA AgentEditsApart ==
  ASSUME NEW edits \in AgentEdits, NEW lines, \A k \in DOMAIN edits : Fits(edits[k], lines)
  PROVE  Apart(edits, Len(edits), lines)
<1> DEFINE n == Len(edits)
<1>1. edits \in Seq(Edits) /\ \A k \in 1..(n - 1) :
          edits[k].at + edits[k].gone + edits[k + 1].above <= edits[k + 1].at
  BY ProjectionAssumption
<1>2. n \in Nat /\ DOMAIN edits = 1..n /\ \A k \in 1..n : edits[k] \in Edits
  BY <1>1, LenProperties, ElementOfSeq
<1> HIDE DEF n
<1>3. \A k \in 1..n : edits[k] \in LineEdits /\ Fits(edits[k], lines)
  BY <1>2, EditsAreLineEdits
<1>4. Apart(edits, n, lines)
  BY <1>1, <1>2, <1>3 DEF Apart
<1> QED
  BY <1>4 DEF n

\* The inductive invariant: before anything is shown the mirror is empty, what
\* is shown was rendered, and what is planned is what the agent meant.
EditsAreMeant == (stage = "new" => mirrorText = <<>>) /\ MirrorIsRendered /\ PatchMeansItsEdit

LEMMA ShownMirror ==
  ASSUME MirrorIsRendered, stage = "shown"
  PROVE  mirrorText \in Seq(Letters)
<1>1. /\ PolicyHolds /\ realText \in Seq(Chars)
      /\ mirrorText = RenderText(realText, CollectProtected(realText))
  BY WordsAreChars DEF MirrorIsRendered
<1>2. mirrorText \in Seq(Chars)
  BY <1>1, MirrorIsPlaced
<1>3. Chars \subseteq Letters
  BY DEF Letters
<1> QED
  BY <1>2, <1>3

LEMMA OnePatch ==
  ASSUME NEW hs
  PROVE  Len(<<hs>>) = 1 /\ <<hs>>[1] = hs
OBVIOUS

LEMMA PatchStep ==
  ASSUME EditsAreMeant, NEW edits \in AgentEdits, SubmitPatch(edits)
  PROVE  Means(patchPlan', mirrorText, edits)
<1> DEFINE hs == HunksOf(mirrorText, edits)
<1>1. /\ stage = "shown" /\ \A k \in DOMAIN edits : Fits(edits[k], Len(SplitLines(mirrorText)))
      /\ patchPlan' = LET files == ParsePatch(RenderPatch(hs))
                      IN  IF Len(files) # 1 THEN Refused("none", "not a patch")
                          ELSE PlanModify(realText, mirrorText, spanMap, files[1])
  BY DEF SubmitPatch, Planned
<1>2. mirrorText \in Seq(Letters)
  BY <1>1, ShownMirror DEF EditsAreMeant
<1>3. Apart(edits, Len(edits), Len(SplitLines(mirrorText)))
  BY <1>1, AgentEditsApart
<1>4. /\ ParsePatch(RenderPatch(hs)) = <<hs>> /\ ApplyPatch(mirrorText, hs).ok
      /\ Bodies(ApplyPatch(mirrorText, hs).text) = Edited(mirrorText, edits)
  BY <1>2, <1>3, PatchOfEdits
<1> HIDE DEF hs
<1>5. patchPlan' = PlanModify(realText, mirrorText, spanMap, hs)
  BY <1>1, <1>4, OnePatch
<1>6. Shows(PlanModify(realText, mirrorText, spanMap, hs), ApplyPatch(mirrorText, hs).text)
  BY <1>4, ModifyShows
<1> QED
  BY <1>4, <1>5, <1>6 DEF Means, Shows

LEMMA DeleteStep ==
  ASSUME EditsAreMeant, NEW edits \in AgentEdits, SubmitDelete(edits)
  PROVE  Means(patchPlan', mirrorText, edits)
<1> DEFINE hs == HunksOf(mirrorText, edits)
<1>1. /\ stage = "shown" /\ \A k \in DOMAIN edits : Fits(edits[k], Len(SplitLines(mirrorText)))
      /\ patchPlan' = LET files == ParsePatch(RenderPatch(hs))
                      IN  IF Len(files) # 1 THEN Refused("none", "not a patch")
                          ELSE PlanDelete(mirrorText, files[1])
  BY DEF SubmitDelete, Planned
<1>2. mirrorText \in Seq(Letters)
  BY <1>1, ShownMirror DEF EditsAreMeant
<1>3. Apart(edits, Len(edits), Len(SplitLines(mirrorText)))
  BY <1>1, AgentEditsApart
<1>4. /\ ParsePatch(RenderPatch(hs)) = <<hs>> /\ ApplyPatch(mirrorText, hs).ok
      /\ Bodies(ApplyPatch(mirrorText, hs).text) = Edited(mirrorText, edits)
  BY <1>2, <1>3, PatchOfEdits
<1> HIDE DEF hs
<1>5. patchPlan' = PlanDelete(mirrorText, hs)
  BY <1>1, <1>4, OnePatch
<1>6. Shows(PlanDelete(mirrorText, hs), ApplyPatch(mirrorText, hs).text)
  BY <1>4, DeleteShows
<1> QED
  BY <1>4, <1>5, <1>6 DEF Means, Shows

LEMMA CreateStep ==
  ASSUME EditsAreMeant, NEW edits \in AgentEdits, SubmitCreate(edits)
  PROVE  Means(patchPlan', mirrorText, edits)
<1> DEFINE hs == HunksOf(<<>>, edits)
<1>0. stage = "new" /\ mirrorText = <<>>
  BY DEF SubmitCreate, EditsAreMeant
<1>1. /\ \A k \in DOMAIN edits : Fits(edits[k], Len(SplitLines(<<>>)))
      /\ patchPlan' = LET files == ParsePatch(RenderPatch(hs))
                      IN  IF Len(files) # 1 THEN Refused("none", "not a patch")
                          ELSE PlanCreate(files[1])
  BY <1>0 DEF SubmitCreate, Planned
<1>2. Len(SplitLines(<<>>)) = 0 /\ <<>> \in Seq(Letters)
  BY NothingSplit
<1>3. Apart(edits, Len(edits), Len(SplitLines(<<>>))) /\ Apart(edits, Len(edits), 0)
  BY <1>1, <1>2, AgentEditsApart
<1>4. ParsePatch(RenderPatch(hs)) = <<hs>> /\ HunksFor(hs, SplitLines(<<>>), edits, Len(edits))
  BY <1>2, <1>3, PatchOfEdits
<1> HIDE DEF hs
<1>5. patchPlan' = PlanCreate(hs)
  BY <1>1, <1>4, OnePatch
<1>6. Means(PlanCreate(hs), <<>>, edits)
  BY <1>3, <1>4, CreateMeans
<1> QED
  BY <1>0, <1>5, <1>6

LEMMA ShowRenders ==
  ASSUME NEW t \in RealTexts, Show(t)
  PROVE  MirrorIsRendered'
<1>1. t \in Words
  BY ProjectionAssumption
<1>2. PolicyHolds /\ realText' = t /\ mirrorText' = RenderText(t, CollectProtected(t))
      /\ spanMap' = SpanMapOf(t, CollectProtected(t))
  BY DEF Show
<1> QED
  BY <1>1, <1>2 DEF MirrorIsRendered

\* For every real file, every policy the configuration checks admit and every
\* list of edits that leave each other alone: the patch is read as one patch
\* of one file whatever its lines look like, it applies, and what an accepted
\* plan asks of the mirror is, line by line, the edited mirror.
THEOREM PatchSound == ProjectionSpec => []PatchMeansItsEdit
<1>1. ProjectionInit => EditsAreMeant
  BY DEF ProjectionInit, EditsAreMeant, MirrorIsRendered, PatchMeansItsEdit
<1>2. EditsAreMeant /\ [ProjectionNext]_projectionVars => EditsAreMeant'
  <2> SUFFICES ASSUME EditsAreMeant, [ProjectionNext]_projectionVars PROVE EditsAreMeant'
    OBVIOUS
  <2>1. ASSUME NEW t \in RealTexts, Show(t) PROVE EditsAreMeant'
    <3>1. stage' = "shown"
      BY <2>1 DEF Show
    <3>2. MirrorIsRendered'
      BY <2>1, ShowRenders
    <3> QED
      BY <3>1, <3>2 DEF EditsAreMeant, PatchMeansItsEdit
  <2>2. ASSUME NEW edits \in AgentEdits,
               SubmitPatch(edits) \/ SubmitCreate(edits) \/ SubmitDelete(edits)
        PROVE  EditsAreMeant'
    <3>1. Means(patchPlan', mirrorText, edits)
      BY <2>2, PatchStep, CreateStep, DeleteStep
    <3>2. stage' = "planned" /\ change' = edits /\ mirrorText' = mirrorText
      BY <2>2 DEF SubmitPatch, SubmitCreate, SubmitDelete, Planned
    <3>3. PatchMeansItsEdit'
      BY <3>1, <3>2 DEF Means, PatchMeansItsEdit
    <3> QED
      BY <3>2, <3>3 DEF EditsAreMeant, MirrorIsRendered
  <2>3. CASE ProjectionRest \/ UNCHANGED projectionVars
    <3>1. UNCHANGED projectionVars
      BY <2>3 DEF ProjectionRest
    <3> QED
      BY <3>1 DEF projectionVars, EditsAreMeant, MirrorIsRendered, PatchMeansItsEdit
  <2> QED
    BY <2>1, <2>2, <2>3 DEF ProjectionNext
<1>3. EditsAreMeant => PatchMeansItsEdit
  BY DEF EditsAreMeant
<1> QED
  BY <1>1, <1>2, <1>3, PTL DEF ProjectionSpec

\* The inductive invariant: what is shown was rendered, nothing is planned
\* before an edit is submitted, and an accepted change leaves the other lines.
OthersAreLeft ==
    /\ MirrorIsRendered /\ OtherLinesStay
    /\ stage # "planned" => patchPlan.op # "modify"

LEMMA ShownIsTyped ==
  ASSUME MirrorIsRendered, stage = "shown"
  PROVE  realText \in Seq(Letters) /\ AreSpans(spanMap)
<1>1. /\ PolicyHolds /\ realText \in Seq(Chars)
      /\ spanMap = SpanMapOf(realText, CollectProtected(realText))
  BY WordsAreChars DEF MirrorIsRendered
<1>2. AreSpans(spanMap)
  BY <1>1, MapsOfSpans
<1>3. Chars \subseteq Letters
  BY DEF Letters
<1> QED
  BY <1>1, <1>2, <1>3

LEMMA PatchLeavesOthers ==
  ASSUME MirrorIsRendered, NEW edits \in AgentEdits, SubmitPatch(edits),
         patchPlan'.outcome = "accepted"
  PROVE  LeavesOthers(Bodies(realText), Bodies(patchPlan'.real), edits)
<1> DEFINE hs == HunksOf(mirrorText, edits)
<1>1. /\ stage = "shown" /\ \A k \in DOMAIN edits : Fits(edits[k], Len(SplitLines(mirrorText)))
      /\ patchPlan' = LET files == ParsePatch(RenderPatch(hs))
                      IN  IF Len(files) # 1 THEN Refused("none", "not a patch")
                          ELSE PlanModify(realText, mirrorText, spanMap, files[1])
  BY DEF SubmitPatch, Planned
<1>2. mirrorText \in Seq(Letters) /\ realText \in Seq(Letters) /\ AreSpans(spanMap)
  BY <1>1, ShownMirror, ShownIsTyped
<1>3. Apart(edits, Len(edits), Len(SplitLines(mirrorText))) /\ edits \in Seq(Edits)
  BY <1>1, AgentEditsApart, ProjectionAssumption
<1>4. ParsePatch(RenderPatch(hs)) = <<hs>>
  BY <1>2, <1>3, PatchOfEdits
<1> HIDE DEF hs
<1>5. patchPlan' = PlanModify(realText, mirrorText, spanMap, hs)
  BY <1>1, <1>4, OnePatch
<1>6. PICK patched, P :
         LET back == TranslatePatch(mirrorText, patched, spanMap, P, hs)
         IN  /\ back.ok /\ ApplyPatch(realText, back.hunks).ok
             /\ patchPlan'.real = ApplyPatch(realText, back.hunks).text
  BY <1>5, PlanLeavesOthers
<1> DEFINE back == TranslatePatch(mirrorText, patched, spanMap, P, hs)
<1>7. /\ back = TranslatePatch(mirrorText, patched, spanMap, P, HunksOf(mirrorText, edits))
      /\ back.ok /\ ApplyPatch(realText, back.hunks).ok
      /\ patchPlan'.real = ApplyPatch(realText, back.hunks).text
  BY <1>6 DEF hs
<1> HIDE DEF back
<1>8. LeavesOthers(Bodies(realText), Bodies(ApplyPatch(realText, back.hunks).text), edits)
  BY <1>2, <1>3, <1>7, OthersLeft
<1> QED
  BY <1>7, <1>8

LEMMA CreateIsNoModify ==
  ASSUME NEW hs
  PROVE  PlanCreate(hs).op # "modify"
<1>1. \A why : Refused("create", why).op = "create"
  BY DEF Refused, NoPlan
<1>2. \A r, x : Accepted("create", r, x).op = "create"
  BY DEF Accepted
<1> QED
  BY <1>1, <1>2 DEF PlanCreate

LEMMA DeleteIsNoModify ==
  ASSUME NEW mirror, NEW hs
  PROVE  PlanDelete(mirror, hs).op # "modify"
<1>1. \A why : Refused("delete", why).op = "delete"
  BY DEF Refused, NoPlan
<1>2. \A r, x : Accepted("delete", r, x).op = "delete"
  BY DEF Accepted
<1> QED
  BY <1>1, <1>2 DEF PlanDelete

LEMMA OthersNeedNoPlan ==
  ASSUME NEW edits, SubmitCreate(edits) \/ SubmitDelete(edits)
  PROVE  patchPlan'.op # "modify"
<1>1. \A why : Refused("none", why).op = "none"
  BY DEF Refused, NoPlan
<1>2. CASE SubmitCreate(edits)
  <2>1. \E files : patchPlan' = IF Len(files) # 1 THEN Refused("none", "not a patch")
                                ELSE PlanCreate(files[1])
    BY <1>2 DEF SubmitCreate, Planned
  <2> QED
    BY <1>1, <2>1, CreateIsNoModify
<1>3. CASE SubmitDelete(edits)
  <2>1. \E files : patchPlan' = IF Len(files) # 1 THEN Refused("none", "not a patch")
                                ELSE PlanDelete(mirrorText, files[1])
    BY <1>3 DEF SubmitDelete, Planned
  <2> QED
    BY <1>1, <2>1, DeleteIsNoModify
<1> QED
  BY <1>2, <1>3

\* For every real file, every policy the configuration checks admit and every
\* list of edits that leave each other alone: when the plan of a change is
\* accepted, the real file has as many lines more as the edits add, and every
\* line that no edit touches is there as it was, moved by what the edits above
\* it added, though the patch was translated line by line in between.
THEOREM PatchLeavesLines == ProjectionSpec => []OtherLinesStay
<1>1. ProjectionInit => OthersAreLeft
  BY DEF ProjectionInit, OthersAreLeft, MirrorIsRendered, OtherLinesStay, NoPlan
<1>2. OthersAreLeft /\ [ProjectionNext]_projectionVars => OthersAreLeft'
  <2> SUFFICES ASSUME OthersAreLeft, [ProjectionNext]_projectionVars PROVE OthersAreLeft'
    OBVIOUS
  <2>1. ASSUME NEW t \in RealTexts, Show(t) PROVE OthersAreLeft'
    <3>1. MirrorIsRendered'
      BY <2>1, ShowRenders
    <3>2. patchPlan'.op # "modify"
      BY <2>1 DEF Show, OthersAreLeft
    <3> QED
      BY <3>1, <3>2 DEF OthersAreLeft, OtherLinesStay
  <2>2. ASSUME NEW edits \in AgentEdits,
               SubmitPatch(edits) \/ SubmitCreate(edits) \/ SubmitDelete(edits)
        PROVE  OthersAreLeft'
    <3>1. stage' = "planned" /\ change' = edits /\ realText' = realText
      BY <2>2 DEF SubmitPatch, SubmitCreate, SubmitDelete, Planned
    <3>2. OtherLinesStay'
      <4>1. CASE SubmitPatch(edits)
        <5>1. patchPlan'.outcome = "accepted" =>
                  LeavesOthers(Bodies(realText), Bodies(patchPlan'.real), edits)
          BY <4>1, PatchLeavesOthers DEF OthersAreLeft
        <5> QED
          BY <3>1, <5>1 DEF OtherLinesStay, LeavesOthers
      <4>2. CASE SubmitCreate(edits) \/ SubmitDelete(edits)
        BY <4>2, OthersNeedNoPlan DEF OtherLinesStay
      <4> QED
        BY <2>2, <4>1, <4>2
    <3> QED
      BY <3>1, <3>2 DEF OthersAreLeft, MirrorIsRendered
  <2>3. CASE ProjectionRest \/ UNCHANGED projectionVars
    <3>1. UNCHANGED projectionVars
      BY <2>3 DEF ProjectionRest
    <3> QED
      BY <3>1 DEF projectionVars, OthersAreLeft, MirrorIsRendered, OtherLinesStay
  <2> QED
    BY <2>1, <2>2, <2>3 DEF ProjectionNext
<1>3. OthersAreLeft => OtherLinesStay
  BY DEF OthersAreLeft
<1> QED
  BY <1>1, <1>2, <1>3, PTL DEF ProjectionSpec
=============================================================================
