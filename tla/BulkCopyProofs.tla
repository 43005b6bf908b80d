--------------------------- MODULE BulkCopyProofs ---------------------------
(***************************************************************************)
(* For any source, boxes and zoom levels, sizes of the channel and of a    *)
(* batch, and number of tiles fetched at once: what a copy of martin-cp    *)
(* leaves in its file.  First, that rectangles of tiles are split so that  *)
(* each tile is requested once.                                            *)
(***************************************************************************)
EXTENDS BulkCopy, FiniteSetTheorems, SequenceTheorems, WellFoundedInduction, TLAPS

-----------------------------------------------------------------------------
(* Induction, recursion and sequences of sequences.                        *)

LEMMA Induction ==
  ASSUME NEW n \in Nat, NEW T, 0 \in T, \A i \in 1..n : i - 1 \in T => i \in T
  PROVE  \A i \in 0..n : i \in T
<1> DEFINE bad == {i \in 0..n : i \notin T}
<1> SUFFICES ASSUME bad # {} PROVE FALSE
  OBVIOUS
<1>1. bad \in SUBSET Nat
  OBVIOUS
<1>2. PICK m \in bad : \A i \in bad : m <= i
  <2> DEFINE less == OpToRel(<, Nat)
  <2>1. IsWellFoundedOn(less, Nat)
    BY NatLessThanWellFounded
  <2>2. \A x, y \in Nat : <<y, x>> \in less <=> y < x
    BY DEF OpToRel
  <2> HIDE DEF bad, less
  <2>3. \E x \in bad : \A y \in bad : <<y, x>> \notin less
    BY <1>1, <2>1, WFMin
  <2>4. PICK x \in bad : \A y \in bad : <<y, x>> \notin less
    BY <2>3
  <2>5. ASSUME NEW y \in bad PROVE x <= y
    <3>1. x \in Nat /\ y \in Nat
      BY <1>1
    <3>2. ~(y < x)
      BY <2>2, <2>4, <3>1
    <3> QED BY <3>1, <3>2
  <2> QED BY <2>5
<1> HIDE DEF bad
<1>3. m \in 0..n /\ m \notin T /\ m # 0
  BY <1>2 DEF bad
<1>4. m - 1 \in 0..n /\ m - 1 \notin bad
  BY <1>2, <1>3
<1>5. m - 1 \in T
  BY <1>4 DEF bad
<1> QED BY <1>3, <1>5

\* A function on 0..n that is defined from its value before.
StepsOf(n, S) == [1..n -> [S -> S]]

Stepwise(n, b, step, f) == f[0] = b /\ \A i \in 1..n : f[i] = step[i][f[i - 1]]

LEMMA Recursion ==
  ASSUME NEW n \in Nat, NEW S, NEW b \in S, NEW step, step \in StepsOf(n, S)
  PROVE  \E f \in [0..n -> S] : Stepwise(n, b, step, f)
<1> USE DEF StepsOf, Stepwise
<1> DEFINE Upto(m, f) == f[0] = b /\ \A i \in 1..m : f[i] = step[i][f[i - 1]]
           T == {m \in 0..n : \E f \in [0..m -> S] : Upto(m, f)}
<1>1. 0 \in T
  <2> DEFINE f == [i \in 0..0 |-> b]
  <2>1. f \in [0..0 -> S] /\ Upto(0, f)
    OBVIOUS
  <2> HIDE DEF f
  <2>2. \E h \in [0..0 -> S] : Upto(0, h)
    BY <2>1
  <2>3. 0 \in 0..n
    OBVIOUS
  <2> HIDE DEF Upto
  <2> QED BY <2>2, <2>3
<1>2. ASSUME NEW m \in 1..n, m - 1 \in T PROVE m \in T
  <2>1. PICK f \in [0..(m - 1) -> S] : Upto(m - 1, f)
    BY <1>2
  <2> DEFINE h == [i \in 0..m |-> IF i = m THEN step[m][f[m - 1]] ELSE f[i]]
  <2>2. step[m] \in [S -> S] /\ f[m - 1] \in S
    OBVIOUS
  <2>3. h \in [0..m -> S]
    BY <2>2
  <2>4. h[0] = b
    BY <2>1
  <2>5. ASSUME NEW i \in 1..m PROVE h[i] = step[i][h[i - 1]]
    BY <2>1
  <2> HIDE DEF h
  <2>6. Upto(m, h)
    BY <2>4, <2>5
  <2>7. m \in 0..n
    OBVIOUS
  <2> QED BY <2>3, <2>6, <2>7
<1>4. \A m \in 1..n : m - 1 \in T => m \in T
  BY <1>2
<1> HIDE DEF T
<1>3. n \in T
  <2>1. \A m \in 0..n : m \in T
    BY <1>1, <1>4, Induction
  <2> QED BY <2>1
<1> QED BY <1>3 DEF T

LEMMA Concatenation ==
  ASSUME NEW S, NEW a \in Seq(S), NEW b \in Seq(S)
  PROVE  /\ a \o b \in Seq(S)
         /\ Len(a \o b) = Len(a) + Len(b)
         /\ \A i \in 1..(Len(a) + Len(b)) :
              (a \o b)[i] = IF i <= Len(a) THEN a[i] ELSE b[i - Len(a)]
BY ConcatProperties

\* flat holds each element of the first n sequences once.
Places(flat, seqs, n, row, col) ==
  /\ \A k \in 1..Len(flat) :
       /\ row[k] \in 1..n /\ col[k] \in 1..Len(seqs[row[k]])
       /\ flat[k] = seqs[row[k]][col[k]]
  /\ \A k, l \in 1..Len(flat) : row[k] = row[l] /\ col[k] = col[l] => k = l
  /\ \A i \in 1..n : \A j \in 1..Len(seqs[i]) :
       \E k \in 1..Len(flat) : row[k] = i /\ col[k] = j

Flattened(flat, seqs, n) ==
  \E row, col \in [1..Len(flat) -> Nat] : Places(flat, seqs, n, row, col)

LEMMA OneMore ==
  ASSUME NEW S, NEW seqs \in Seq(Seq(S)), NEW n \in 0..(Len(seqs) - 1),
         NEW flat \in Seq(S), Flattened(flat, seqs, n)
  PROVE  Flattened(flat \o seqs[n + 1], seqs, n + 1)
<1> DEFINE next == seqs[n + 1]
           more == flat \o next
           L == Len(flat)
<1>1. next \in Seq(S) /\ n \in Nat /\ L \in Nat
  OBVIOUS
<1> HIDE DEF next
<1>2. /\ more \in Seq(S) /\ Len(more) = L + Len(next) /\ Len(next) \in Nat
      /\ \A i \in 1..(L + Len(next)) : more[i] = IF i <= L THEN flat[i] ELSE next[i - L]
  BY <1>1, Concatenation
<1>3. PICK row \in [1..L -> Nat], col \in [1..L -> Nat] :
        /\ \A k \in 1..L :
             /\ row[k] \in 1..n /\ col[k] \in 1..Len(seqs[row[k]])
             /\ flat[k] = seqs[row[k]][col[k]]
        /\ \A k, l \in 1..L : row[k] = row[l] /\ col[k] = col[l] => k = l
        /\ \A i \in 1..n : \A j \in 1..Len(seqs[i]) :
             \E k \in 1..L : row[k] = i /\ col[k] = j
  BY DEF Flattened, Places
<1> DEFINE row2 == [k \in 1..Len(more) |-> IF k <= L THEN row[k] ELSE n + 1]
           col2 == [k \in 1..Len(more) |-> IF k <= L THEN col[k] ELSE k - L]
<1> HIDE DEF more, L
<1>4. row2 \in [1..Len(more) -> Nat] /\ col2 \in [1..Len(more) -> Nat]
  <2>1. ASSUME NEW k \in 1..Len(more)
        PROVE  (IF k <= L THEN row[k] ELSE n + 1) \in Nat /\ (IF k <= L THEN col[k] ELSE k - L) \in Nat
    BY <1>1, <1>2
  <2> QED BY <2>1
<1>5. ASSUME NEW k \in 1..Len(more)
      PROVE  /\ k <= L => k \in 1..L /\ row2[k] = row[k] /\ col2[k] = col[k] /\ more[k] = flat[k]
             /\ ~(k <= L) => /\ row2[k] = n + 1 /\ col2[k] = k - L /\ k - L \in 1..Len(next)
                             /\ more[k] = next[k - L]
  BY <1>1, <1>2
<1> HIDE DEF row2, col2
<1>6. ASSUME NEW k \in 1..Len(more)
      PROVE  /\ row2[k] \in 1..(n + 1) /\ col2[k] \in 1..Len(seqs[row2[k]])
             /\ more[k] = seqs[row2[k]][col2[k]]
  <2>1. CASE k <= L
    <3>1. k \in 1..L /\ row2[k] = row[k] /\ col2[k] = col[k] /\ more[k] = flat[k]
      BY <1>5, <2>1
    <3>2. /\ row[k] \in 1..n /\ col[k] \in 1..Len(seqs[row[k]])
          /\ flat[k] = seqs[row[k]][col[k]]
      BY <1>3, <3>1
    <3>3. row[k] \in 1..(n + 1)
      BY <1>1, <3>2, SMTT(30)
    <3> QED BY <3>1, <3>2, <3>3
  <2>2. CASE ~(k <= L)
    <3>1. row2[k] = n + 1 /\ col2[k] = k - L /\ k - L \in 1..Len(next) /\ more[k] = next[k - L]
      BY <1>5, <2>2
    <3>2. n + 1 \in 1..(n + 1)
      BY <1>1
    <3> QED BY <3>1, <3>2 DEF next
  <2> QED BY <2>1, <2>2
<1>7. ASSUME NEW k \in 1..Len(more), NEW l \in 1..Len(more), row2[k] = row2[l], col2[k] = col2[l]
      PROVE  k = l
  <2>0. k \in Int /\ l \in Int
    BY <1>2
  <2>1. CASE k <= L /\ l <= L
    <3>1. k \in 1..L /\ l \in 1..L /\ row[k] = row[l] /\ col[k] = col[l]
      BY <1>5, <1>7, <2>1
    <3> QED BY <1>3, <3>1
  <2>r. \A j \in 1..L : row[j] \in 1..n /\ row[j] # n + 1
    BY <1>1, <1>3
  <2>2. CASE k <= L /\ ~(l <= L)
    <3>1. k \in 1..L /\ row2[k] = row[k] /\ row2[l] = n + 1
      BY <1>5, <2>2
    <3> QED BY <1>7, <2>r, <3>1
  <2>3. CASE ~(k <= L) /\ l <= L
    <3>1. l \in 1..L /\ row2[l] = row[l] /\ row2[k] = n + 1
      BY <1>5, <2>3
    <3> QED BY <1>7, <2>r, <3>1
  <2>4. CASE ~(k <= L) /\ ~(l <= L)
    <3>1. col2[k] = k - L /\ col2[l] = l - L
      BY <1>5, <2>4
    <3>2. k - L = l - L
      BY <1>7, <3>1
    <3> QED BY <1>1, <2>0, <3>2
  <2> QED BY <2>1, <2>2, <2>3, <2>4
<1>8. ASSUME NEW i \in 1..(n + 1), NEW j \in 1..Len(seqs[i])
      PROVE  \E k \in 1..Len(more) : row2[k] = i /\ col2[k] = j
  <2>1. CASE i \in 1..n
    <3>1. PICK k \in 1..L : row[k] = i /\ col[k] = j
      BY <1>3, <2>1
    <3>2. k \in 1..Len(more) /\ k <= L
      BY <1>1, <1>2
    <3> QED BY <1>5, <3>1, <3>2
  <2>2. CASE i = n + 1
    <3>1. j \in 1..Len(next)
      BY <2>2 DEF next
    <3>2. L + j \in 1..Len(more) /\ ~(L + j <= L) /\ (L + j) - L = j
      BY <1>1, <1>2, <3>1, SMTT(30)
    <3> QED BY <1>5, <2>2, <3>2
  <2> QED BY <1>1, <2>1, <2>2
<1>9. Flattened(more, seqs, n + 1)
  <2>1. Places(more, seqs, n + 1, row2, col2)
    BY <1>6, <1>7, <1>8 DEF Places
  <2> QED BY <1>4, <2>1 DEF Flattened
<1> QED BY <1>9 DEF more, next

LEMMA Flattening ==
  ASSUME NEW S, NEW seqs \in Seq(Seq(S))
  PROVE  FlattenSeq(seqs) \in Seq(S) /\ Flattened(FlattenSeq(seqs), seqs, Len(seqs))
<1> DEFINE n == Len(seqs)
<1>n. n \in Nat /\ \A i \in 1..n : seqs[i] \in Seq(S)
  OBVIOUS
<1>e. Flattened(<<>>, seqs, 0) /\ <<>> \in Seq(S)
  <2> DEFINE none == [k \in 1..0 |-> 0]
  <2>1. Len(<<>>) = 0 /\ none \in [1..0 -> Nat] /\ <<>> \in Seq(S)
    OBVIOUS
  <2> HIDE DEF none
  <2>2. Places(<<>>, seqs, 0, none, none)
    BY <2>1 DEF Places
  <2> QED BY <2>1, <2>2 DEF Flattened
<1>1. CASE n = 0
  <2>1. FlattenSeq(seqs) = seqs /\ seqs = <<>>
    BY <1>1 DEF FlattenSeq
  <2> QED BY <1>1, <1>e, <2>1
<1>2. CASE n # 0
  <2> DEFINE step == [i \in 1..n |-> [x \in Seq(S) |-> x \o seqs[i]]]
  <2>1. step \in [1..n -> [Seq(S) -> Seq(S)]]
    <3>1. ASSUME NEW i \in 1..n, NEW x \in Seq(S) PROVE x \o seqs[i] \in Seq(S)
      BY <1>n, Concatenation
    <3> QED BY <3>1
  <2>2. \A i \in 1..n : \A x \in Seq(S) : step[i][x] = x \o seqs[i]
    OBVIOUS
  <2> HIDE DEF step
  <2>3. \E f \in [0..n -> Seq(S)] : f[0] = <<>> /\ \A i \in 1..n : f[i] = step[i][f[i - 1]]
    <3> DEFINE R == Seq(S)
               empty == <<>>
    <3>1. n \in Nat /\ empty \in R /\ step \in StepsOf(n, R)
      BY <1>n, <1>e, <2>1 DEF StepsOf
    <3> HIDE DEF n, R, empty
    <3>2. \E f \in [0..n -> R] : Stepwise(n, empty, step, f)
      BY <3>1, Recursion
    <3> QED BY <3>2 DEF R, empty, Stepwise
  <2>4. PICK f \in [0..n -> Seq(S)] : f[0] = <<>> /\ \A i \in 1..n : f[i] = step[i][f[i - 1]]
    BY <2>3
  <2>5. ASSUME NEW i \in 1..n
        PROVE  i - 1 \in 0..n /\ f[i - 1] \in Seq(S) /\ f[i] = f[i - 1] \o seqs[i]
    <3>1. i - 1 \in 0..n
      BY <1>n
    <3>2. f[i - 1] \in Seq(S) /\ f[i] = step[i][f[i - 1]]
      BY <2>4, <3>1
    <3> QED BY <2>2, <3>1, <3>2
  <2>6. f[1] = seqs[1]
    <3>1. 1 \in 1..n /\ 1 - 1 = 0
      BY <1>2, <1>n
    <3>2. f[1] = <<>> \o seqs[1]
      BY <2>4, <2>5, <3>1
    <3>3. seqs[1] \in Seq(S)
      BY <1>n, <3>1
    <3> QED BY <3>2, <3>3, ConcatEmptySeq
  <2> DEFINE Is(h) == h = [i \in 1..n |-> IF i = 1 THEN seqs[i] ELSE h[i - 1] \o seqs[i]]
             g == [i \in 1..n |-> f[i]]
  <2>7. Is(g)
    <3>1. ASSUME NEW i \in 1..n PROVE g[i] = IF i = 1 THEN seqs[i] ELSE g[i - 1] \o seqs[i]
      <4>1. CASE i = 1
        BY <2>6, <4>1
      <4>2. CASE i # 1
        <5>1. i - 1 \in 1..n /\ g[i - 1] = f[i - 1] /\ g[i] = f[i]
          BY <4>2
        <5> QED BY <2>5, <4>2, <5>1
      <4> QED BY <4>1, <4>2
    <3>2. g = [i \in 1..n |-> g[i]]
      OBVIOUS
    <3> HIDE DEF g
    <3> QED BY <3>1, <3>2
  <2> DEFINE h == CHOOSE h : Is(h)
  <2>8. Is(h)
    <3> HIDE DEF Is, g
    <3> QED BY <2>7
  <2>9. FlattenSeq(seqs) = h[n]
    BY <1>2, Zenon DEF FlattenSeq
  <2>10. h[1] = seqs[1] /\ \A i \in 2..n : i - 1 \in 1..n /\ h[i] = h[i - 1] \o seqs[i]
    <3>1. ASSUME NEW i \in 1..n PROVE h[i] = IF i = 1 THEN seqs[i] ELSE h[i - 1] \o seqs[i]
      <4>1. h = [j \in 1..n |-> IF j = 1 THEN seqs[j] ELSE h[j - 1] \o seqs[j]]
        BY <2>8
      <4> HIDE DEF h
      <4> QED BY <4>1
    <3>2. 1 \in 1..n /\ \A i \in 2..n : i \in 1..n /\ i - 1 \in 1..n /\ i # 1
      BY <1>2, <1>n
    <3> HIDE DEF h
    <3> QED BY <3>1, <3>2
  <2> HIDE DEF h, Is
  <2> DEFINE T == {i \in 0..n : i = 0 \/ (h[i] \in Seq(S) /\ Flattened(h[i], seqs, i))}
  <2>11. ASSUME NEW i \in 1..n, i - 1 \in T PROVE i \in T
    <3>1. CASE i = 1
      <4>1. Flattened(<<>> \o seqs[0 + 1], seqs, 0 + 1)
        <5> DEFINE empty == <<>>
        <5>1. 0 \in 0..(Len(seqs) - 1) /\ empty \in Seq(S) /\ Flattened(empty, seqs, 0)
          BY <1>2, <1>n, <1>e
        <5> HIDE DEF empty
        <5>2. Flattened(empty \o seqs[0 + 1], seqs, 0 + 1)
          BY <5>1, OneMore
        <5> QED BY <5>2 DEF empty
      <4>2. <<>> \o seqs[1] = seqs[1] /\ seqs[1] \in Seq(S)
        BY <1>n, <3>1, ConcatEmptySeq
      <4> QED BY <2>10, <3>1, <4>1, <4>2
    <3>2. CASE i # 1
      <4>1. i \in 2..n /\ i - 1 \in 0..(Len(seqs) - 1) /\ (i - 1) + 1 = i
        BY <1>n, <3>2
      <4>2. h[i - 1] \in Seq(S) /\ Flattened(h[i - 1], seqs, i - 1) /\ h[i] = h[i - 1] \o seqs[i]
        <5>1. h[i] = h[i - 1] \o seqs[i]
          BY <2>10, <4>1
        <5>2. i - 1 # 0
          BY <3>2
        <5> QED BY <2>11, <5>1, <5>2
      <4>3. Flattened(h[i - 1] \o seqs[(i - 1) + 1], seqs, (i - 1) + 1)
        BY <4>1, <4>2, OneMore
      <4>4. h[i] \in Seq(S)
        BY <1>n, <4>2, Concatenation
      <4>5. Flattened(h[i], seqs, i)
        BY <4>1, <4>2, <4>3
      <4> QED BY <4>4, <4>5
    <3> QED BY <3>1, <3>2
  <2>12. 0 \in T /\ \A i \in 1..n : i - 1 \in T => i \in T
    BY <1>n, <2>11
  <2>13. n \in T
    <3> HIDE DEF T, n
    <3>1. \A i \in 0..n : i \in T
      BY <1>n, <2>12, Induction
    <3> QED BY <1>n, <3>1
  <2> QED BY <1>2, <2>9, <2>13
<1> QED BY <1>1, <1>2

-----------------------------------------------------------------------------
(* Rectangles.                                                             *)

AllTiles == Nat \X Nat \X Nat

Rects == {r \in [zoom : Nat, minX : Nat, minY : Nat, maxX : Nat, maxY : Nat] :
            r.minX <= r.maxX /\ r.minY <= r.maxY}

Covers(rects, t) == \E i \in 1..Len(rects) : HasTile(rects[i], t)

\* No tile is in two of them.
Apart(rects) ==
  \A i, j \in 1..Len(rects) : \A t \in AllTiles :
    HasTile(rects[i], t) /\ HasTile(rects[j], t) => i = j

\* The same for sequences of sequences.
AllApart(seqs) ==
  \A i, k \in 1..Len(seqs) : \A j \in 1..Len(seqs[i]), l \in 1..Len(seqs[k]) : \A t \in AllTiles :
    HasTile(seqs[i][j], t) /\ HasTile(seqs[k][l], t) => i = k /\ j = l

LEMMA FlattenedRects ==
  ASSUME NEW seqs \in Seq(Seq(Rects)), AllApart(seqs)
  PROVE  /\ FlattenSeq(seqs) \in Seq(Rects) /\ Apart(FlattenSeq(seqs))
         /\ \A t \in AllTiles :
              Covers(FlattenSeq(seqs), t) <=> \E i \in 1..Len(seqs) : Covers(seqs[i], t)
<1> DEFINE flat == FlattenSeq(seqs)
<1>1. flat \in Seq(Rects) /\ Flattened(flat, seqs, Len(seqs))
  BY Flattening
<1> HIDE DEF flat
<1>2. PICK row \in [1..Len(flat) -> Nat], col \in [1..Len(flat) -> Nat] :
        Places(flat, seqs, Len(seqs), row, col)
  BY <1>1 DEF Flattened
<1>3. Apart(flat)
  <2> SUFFICES ASSUME NEW i \in 1..Len(flat), NEW j \in 1..Len(flat), NEW t \in AllTiles,
                      HasTile(flat[i], t), HasTile(flat[j], t)
               PROVE  i = j
    BY DEF Apart
  <2>1. /\ row[i] \in 1..Len(seqs) /\ col[i] \in 1..Len(seqs[row[i]])
        /\ flat[i] = seqs[row[i]][col[i]]
        /\ row[j] \in 1..Len(seqs) /\ col[j] \in 1..Len(seqs[row[j]])
        /\ flat[j] = seqs[row[j]][col[j]]
    BY <1>2 DEF Places
  <2>2. row[i] = row[j] /\ col[i] = col[j]
    <3>1. HasTile(seqs[row[i]][col[i]], t) /\ HasTile(seqs[row[j]][col[j]], t)
      BY <2>1
    <3> QED BY <2>1, <3>1, ZenonT(60) DEF AllApart
  <2> QED BY <1>2, <2>2 DEF Places
<1>4. ASSUME NEW t \in AllTiles
      PROVE  Covers(flat, t) <=> \E i \in 1..Len(seqs) : Covers(seqs[i], t)
  <2>1. ASSUME Covers(flat, t) PROVE \E i \in 1..Len(seqs) : Covers(seqs[i], t)
    <3>1. PICK k \in 1..Len(flat) : HasTile(flat[k], t)
      BY <2>1 DEF Covers
    <3>2. row[k] \in 1..Len(seqs) /\ col[k] \in 1..Len(seqs[row[k]])
          /\ flat[k] = seqs[row[k]][col[k]]
      BY <1>2 DEF Places
    <3> QED BY <3>1, <3>2 DEF Covers
  <2>2. ASSUME NEW i \in 1..Len(seqs), Covers(seqs[i], t) PROVE Covers(flat, t)
    <3>1. PICK j \in 1..Len(seqs[i]) : HasTile(seqs[i][j], t)
      BY <2>2 DEF Covers
    <3>2. PICK k \in 1..Len(flat) : row[k] = i /\ col[k] = j
      BY <1>2, ZenonT(60) DEF Places
    <3>3. flat[k] = seqs[i][j]
      BY <1>2, <3>2 DEF Places
    <3> QED BY <3>1, <3>3 DEF Covers
  <2> QED BY <2>1, <2>2
<1> QED BY <1>1, <1>3, <1>4 DEF flat

\* A rectangle, or none.
AtMost(c, r) == IF c THEN <<r>> ELSE <<>>

LEMMA AtMostOne ==
  ASSUME NEW c \in BOOLEAN, NEW r, c => r \in Rects
  PROVE  /\ AtMost(c, r) \in Seq(Rects)
         /\ \A j \in 1..Len(AtMost(c, r)) : j = 1 /\ c /\ AtMost(c, r)[j] = r
         /\ c => 1 \in 1..Len(AtMost(c, r)) /\ AtMost(c, r)[1] = r
<1>1. CASE c
  <2>1. AtMost(c, r) = <<r>> /\ r \in Rects
    BY <1>1 DEF AtMost
  <2>2. Len(<<r>>) = 1 /\ <<r>>[1] = r /\ <<r>> \in Seq(Rects)
    BY <2>1
  <2> DEFINE one == <<r>>
  <2>3. AtMost(c, r) = one /\ Len(one) = 1 /\ one[1] = r /\ one \in Seq(Rects)
    BY <2>1, <2>2
  <2> HIDE DEF one
  <2>4. AtMost(c, r) \in Seq(Rects) /\ AtMost(c, r)[1] = r /\ Len(AtMost(c, r)) = 1
    BY <2>3
  <2>5. \A j \in 1..Len(AtMost(c, r)) : j = 1 /\ AtMost(c, r)[j] = r
    BY <2>4
  <2>6. 1 \in 1..Len(AtMost(c, r))
    BY <2>4
  <2> QED BY <1>1, <2>4, <2>5, <2>6, Zenon
<1>2. CASE ~c
  <2>1. AtMost(c, r) = <<>> /\ Len(<<>>) = 0 /\ <<>> \in Seq(Rects)
    BY <1>2 DEF AtMost
  <2> QED BY <1>2, <2>1
<1> QED BY <1>1, <1>2

\* What is left of a rectangle outside another.
LEMMA OutsideParts ==
  ASSUME NEW r \in Rects, NEW o \in Rects
  PROVE  /\ Outside(r, o) \in Seq(Rects) /\ Apart(Outside(r, o))
         /\ \A t \in AllTiles : Covers(Outside(r, o), t) <=> HasTile(o, t) /\ ~HasTile(r, t)
<1>t. /\ r.zoom \in Nat /\ r.minX \in Nat /\ r.minY \in Nat /\ r.maxX \in Nat /\ r.maxY \in Nat
      /\ r.minX <= r.maxX /\ r.minY <= r.maxY
      /\ o.zoom \in Nat /\ o.minX \in Nat /\ o.minY \in Nat /\ o.maxX \in Nat /\ o.maxY \in Nat
      /\ o.minX <= o.maxX /\ o.minY <= o.maxY
  BY DEF Rects
<1>u. \A t \in AllTiles : t[1] \in Nat /\ t[2] \in Nat /\ t[3] \in Nat
  BY DEF AllTiles
<1>1. CASE ~IsOverlapping(r, o)
  <2>1. Outside(r, o) = <<o>> /\ Len(<<o>>) = 1 /\ <<o>>[1] = o /\ <<o>> \in Seq(Rects)
    BY <1>1 DEF Outside
  <2>2. Apart(<<o>>) /\ \A t \in AllTiles : Covers(<<o>>, t) <=> HasTile(o, t)
    BY <2>1 DEF Apart, Covers
  <2>3. \A t \in AllTiles : ~(HasTile(o, t) /\ HasTile(r, t))
    BY <1>1, <1>t, <1>u DEF HasTile, IsOverlapping
  <2> QED BY <2>1, <2>2, <2>3
<1>2. CASE IsOverlapping(r, o)
  <2> DEFINE minX == Greater(o.minX, r.minX)
             maxX == Lesser(o.maxX, r.maxX)
             c1 == o.minX < r.minX
             c2 == o.maxX > r.maxX
             c3 == o.minY < r.minY
             c4 == o.maxY > r.maxY
             r1 == Rect(o.zoom, o.minX, o.minY, r.minX - 1, o.maxY)
             r2 == Rect(o.zoom, r.maxX + 1, o.minY, o.maxX, o.maxY)
             r3 == Rect(o.zoom, minX, o.minY, maxX, r.minY - 1)
             r4 == Rect(o.zoom, minX, r.maxY + 1, maxX, o.maxY)
             parts == NonOverlapping(r, o)
  <2>1. Outside(r, o) = FlattenSeq(parts)
    BY <1>2 DEF Outside
  <2>2. parts = <<AtMost(c1, r1), AtMost(c2, r2), AtMost(c3, r3), AtMost(c4, r4)>>
    BY DEF NonOverlapping, AtMost
  <2>3. /\ minX \in Nat /\ maxX \in Nat /\ minX <= maxX
        /\ minX >= o.minX /\ minX >= r.minX /\ (minX = o.minX \/ minX = r.minX)
        /\ maxX <= o.maxX /\ maxX <= r.maxX /\ (maxX = o.maxX \/ maxX = r.maxX)
    BY <1>2, <1>t DEF Greater, Lesser, IsOverlapping
  <2>4. o.zoom = r.zoom /\ o.minX <= r.maxX /\ o.maxX >= r.minX /\ o.minY <= r.maxY /\ o.maxY >= r.minY
    BY <1>2, <1>t DEF IsOverlapping
  <2> HIDE DEF minX, maxX, parts
  <2>5. /\ c1 => r1 \in Rects
        /\ c2 => r2 \in Rects
        /\ c3 => r3 \in Rects
        /\ c4 => r4 \in Rects
    BY <1>t, <2>3, <2>4 DEF Rects, Rect
  <2>6. \A t \in AllTiles :
          /\ HasTile(r1, t) <=> t[1] = o.zoom /\ o.minX <= t[2] /\ t[2] < r.minX
                                /\ o.minY <= t[3] /\ t[3] <= o.maxY
          /\ HasTile(r2, t) <=> t[1] = o.zoom /\ r.maxX < t[2] /\ t[2] <= o.maxX
                                /\ o.minY <= t[3] /\ t[3] <= o.maxY
          /\ HasTile(r3, t) <=> t[1] = o.zoom /\ minX <= t[2] /\ t[2] <= maxX
                                /\ o.minY <= t[3] /\ t[3] < r.minY
          /\ HasTile(r4, t) <=> t[1] = o.zoom /\ minX <= t[2] /\ t[2] <= maxX
                                /\ r.maxY < t[3] /\ t[3] <= o.maxY
    BY <1>t, <1>u, <2>3 DEF HasTile, Rect
  <2> HIDE DEF r1, r2, r3, r4
  <2>7. \A t \in AllTiles :
          /\ ~(HasTile(r1, t) /\ HasTile(r2, t)) /\ ~(HasTile(r1, t) /\ HasTile(r3, t))
          /\ ~(HasTile(r1, t) /\ HasTile(r4, t)) /\ ~(HasTile(r2, t) /\ HasTile(r3, t))
          /\ ~(HasTile(r2, t) /\ HasTile(r4, t)) /\ ~(HasTile(r3, t) /\ HasTile(r4, t))
    BY <1>t, <1>u, <2>3, <2>6
  <2>8. \A t \in AllTiles :
          HasTile(o, t) /\ ~HasTile(r, t) <=>
            \/ c1 /\ HasTile(r1, t)
            \/ c2 /\ HasTile(r2, t)
            \/ c3 /\ HasTile(r3, t)
            \/ c4 /\ HasTile(r4, t)
    BY <1>t, <1>u, <2>3, <2>4, <2>6 DEF HasTile
  <2> HIDE DEF c1, c2, c3, c4
  <2>9. c1 \in BOOLEAN /\ c2 \in BOOLEAN /\ c3 \in BOOLEAN /\ c4 \in BOOLEAN
    BY DEF c1, c2, c3, c4
  <2> DEFINE p1 == AtMost(c1, r1)
             p2 == AtMost(c2, r2)
             p3 == AtMost(c3, r3)
             p4 == AtMost(c4, r4)
  <2>10. /\ p1 \in Seq(Rects) /\ \A j \in 1..Len(p1) : j = 1 /\ c1 /\ p1[j] = r1
         /\ c1 => 1 \in 1..Len(p1) /\ p1[1] = r1
    BY <2>5, <2>9, AtMostOne
  <2>11. /\ p2 \in Seq(Rects) /\ \A j \in 1..Len(p2) : j = 1 /\ c2 /\ p2[j] = r2
         /\ c2 => 1 \in 1..Len(p2) /\ p2[1] = r2
    BY <2>5, <2>9, AtMostOne
  <2>12. /\ p3 \in Seq(Rects) /\ \A j \in 1..Len(p3) : j = 1 /\ c3 /\ p3[j] = r3
         /\ c3 => 1 \in 1..Len(p3) /\ p3[1] = r3
    BY <2>5, <2>9, AtMostOne
  <2>13. /\ p4 \in Seq(Rects) /\ \A j \in 1..Len(p4) : j = 1 /\ c4 /\ p4[j] = r4
         /\ c4 => 1 \in 1..Len(p4) /\ p4[1] = r4
    BY <2>5, <2>9, AtMostOne
  <2> HIDE DEF p1, p2, p3, p4
  <2>14. /\ parts \in Seq(Seq(Rects)) /\ Len(parts) = 4
         /\ parts[1] = p1 /\ parts[2] = p2 /\ parts[3] = p3 /\ parts[4] = p4
    <3>1. parts = <<p1, p2, p3, p4>>
      BY <2>2 DEF p1, p2, p3, p4
    <3> QED BY <2>10, <2>11, <2>12, <2>13, <3>1
  <2>15. AllApart(parts)
    <3>1. \A i \in 1..Len(parts) : \A j \in 1..Len(parts[i]) :
            /\ j = 1
            /\ \/ i = 1 /\ parts[i][j] = r1
               \/ i = 2 /\ parts[i][j] = r2
               \/ i = 3 /\ parts[i][j] = r3
               \/ i = 4 /\ parts[i][j] = r4
      BY <2>10, <2>11, <2>12, <2>13, <2>14
    <3> QED BY <2>7, <3>1 DEF AllApart
  <2>16. \A t \in AllTiles :
           (\E i \in 1..Len(parts) : Covers(parts[i], t)) <=>
             \/ c1 /\ HasTile(r1, t)
             \/ c2 /\ HasTile(r2, t)
             \/ c3 /\ HasTile(r3, t)
             \/ c4 /\ HasTile(r4, t)
    <3> SUFFICES ASSUME NEW t \in AllTiles
                 PROVE  /\ Covers(p1, t) <=> c1 /\ HasTile(r1, t)
                        /\ Covers(p2, t) <=> c2 /\ HasTile(r2, t)
                        /\ Covers(p3, t) <=> c3 /\ HasTile(r3, t)
                        /\ Covers(p4, t) <=> c4 /\ HasTile(r4, t)
      BY <2>14
    <3>1. Covers(p1, t) <=> c1 /\ HasTile(r1, t)
      BY <2>10 DEF Covers
    <3>2. Covers(p2, t) <=> c2 /\ HasTile(r2, t)
      BY <2>11 DEF Covers
    <3>3. Covers(p3, t) <=> c3 /\ HasTile(r3, t)
      BY <2>12 DEF Covers
    <3>4. Covers(p4, t) <=> c4 /\ HasTile(r4, t)
      BY <2>13 DEF Covers
    <3> QED BY <3>1, <3>2, <3>3, <3>4
  <2>17. /\ FlattenSeq(parts) \in Seq(Rects) /\ Apart(FlattenSeq(parts))
         /\ \A t \in AllTiles :
              Covers(FlattenSeq(parts), t) <=> \E i \in 1..Len(parts) : Covers(parts[i], t)
    BY <2>14, <2>15, FlattenedRects
  <2> QED BY <2>1, <2>8, <2>16, <2>17
<1> QED BY <1>1, <1>2

\* Of apart rectangles, what is left outside another.
OutsideOf(r, x) == FlattenSeq([k \in DOMAIN x |-> Outside(r, x[k])])

LEMMA OutsideAll ==
  ASSUME NEW r \in Rects, NEW x \in Seq(Rects), Apart(x)
  PROVE  /\ OutsideOf(r, x) \in Seq(Rects) /\ Apart(OutsideOf(r, x))
         /\ \A t \in AllTiles : Covers(OutsideOf(r, x), t) <=> Covers(x, t) /\ ~HasTile(r, t)
<1> DEFINE seqs == [k \in DOMAIN x |-> Outside(r, x[k])]
<1>1. ASSUME NEW k \in 1..Len(x)
      PROVE  /\ x[k] \in Rects /\ seqs[k] = Outside(r, x[k])
             /\ seqs[k] \in Seq(Rects) /\ Apart(seqs[k])
             /\ \A t \in AllTiles : Covers(seqs[k], t) <=> HasTile(x[k], t) /\ ~HasTile(r, t)
  <2>1. x[k] \in Rects /\ seqs[k] = Outside(r, x[k])
    OBVIOUS
  <2> HIDE DEF seqs
  <2> QED BY <2>1, OutsideParts
<1>2. seqs \in Seq(Seq(Rects)) /\ Len(seqs) = Len(x) /\ Len(x) \in Nat
  <2>1. DOMAIN x = 1..Len(x) /\ Len(x) \in Nat
    OBVIOUS
  <2>2. \A k \in 1..Len(x) : Outside(r, x[k]) \in Seq(Rects)
    BY <1>1
  <2> QED BY <2>1, <2>2
<1>3. OutsideOf(r, x) = FlattenSeq(seqs)
  BY DEF OutsideOf
<1> HIDE DEF seqs
<1>4. AllApart(seqs)
  <2> SUFFICES ASSUME NEW i \in 1..Len(x), NEW k \in 1..Len(x),
                      NEW j \in 1..Len(seqs[i]), NEW l \in 1..Len(seqs[k]), NEW t \in AllTiles,
                      HasTile(seqs[i][j], t), HasTile(seqs[k][l], t)
               PROVE  i = k /\ j = l
    BY <1>2 DEF AllApart
  <2>1. Covers(seqs[i], t) /\ Covers(seqs[k], t)
    BY DEF Covers
  <2>2. HasTile(x[i], t) /\ HasTile(x[k], t)
    BY <1>1, <2>1
  <2>3. i = k
    BY <2>2 DEF Apart
  <2>4. Apart(seqs[i])
    BY <1>1
  <2> QED BY <2>3, <2>4 DEF Apart
<1>5. /\ FlattenSeq(seqs) \in Seq(Rects) /\ Apart(FlattenSeq(seqs))
      /\ \A t \in AllTiles :
           Covers(FlattenSeq(seqs), t) <=> \E i \in 1..Len(seqs) : Covers(seqs[i], t)
  BY <1>2, <1>4, FlattenedRects
<1>6. ASSUME NEW t \in AllTiles
      PROVE  Covers(FlattenSeq(seqs), t) <=> Covers(x, t) /\ ~HasTile(r, t)
  <2>1. \A i \in 1..Len(x) : Covers(seqs[i], t) <=> HasTile(x[i], t) /\ ~HasTile(r, t)
    BY <1>1
  <2>2. Covers(x, t) <=> \E i \in 1..Len(x) : HasTile(x[i], t)
    BY DEF Covers
  <2> QED BY <1>2, <1>5, <2>1, <2>2
<1> QED BY <1>3, <1>5, <1>6

\* append_rect: apart rectangles with one more.
LEMMA Appended ==
  ASSUME NEW rects \in Seq(Rects), Apart(rects), NEW new \in Rects
  PROVE  /\ AppendRect(rects, new) \in Seq(Rects) /\ Apart(AppendRect(rects, new))
         /\ \A t \in AllTiles :
              Covers(AppendRect(rects, new), t) <=> Covers(rects, t) \/ HasTile(new, t)
<1> DEFINE n == Len(rects)
           V == {x \in Seq(Rects) : Apart(x)}
           first == <<new>>
           step == [i \in 1..n |-> [x \in V |-> OutsideOf(rects[i], x)]]
<1>n. n \in Nat /\ \A i \in 1..n : rects[i] \in Rects
  OBVIOUS
<1>0. /\ first \in V /\ Len(first) = 1 /\ first[1] = new
      /\ \A t \in AllTiles : Covers(first, t) <=> HasTile(new, t)
  <2>1. first \in Seq(Rects) /\ Len(first) = 1 /\ first[1] = new
    OBVIOUS
  <2> HIDE DEF first
  <2>2. Apart(first) /\ \A t \in AllTiles : Covers(first, t) <=> HasTile(new, t)
    BY <2>1 DEF Apart, Covers
  <2> QED BY <2>1, <2>2
<1>1. step \in StepsOf(n, V) /\ \A i \in 1..n : \A x \in V : step[i][x] = OutsideOf(rects[i], x)
  <2>1. ASSUME NEW i \in 1..n, NEW x \in V PROVE OutsideOf(rects[i], x) \in V
    BY <1>n, OutsideAll
  <2> HIDE DEF V
  <2> QED BY <2>1 DEF StepsOf
<1>2. PICK f \in [0..n -> V] : Stepwise(n, first, step, f)
  <2> HIDE DEF n, V, first, step
  <2> QED BY <1>n, <1>0, <1>1, Recursion
<1> DEFINE Is(h) == h = [i \in 0..n |->
                           IF i = 0 THEN <<new>>
                           ELSE FlattenSeq([k \in DOMAIN h[i - 1] |-> Outside(rects[i], h[i - 1][k])])]
<1>3. Is(f)
  <2>1. ASSUME NEW i \in 0..n
        PROVE  f[i] = IF i = 0 THEN <<new>>
                      ELSE FlattenSeq([k \in DOMAIN f[i - 1] |-> Outside(rects[i], f[i - 1][k])])
    <3>1. CASE i = 0
      BY <1>2, <3>1 DEF Stepwise
    <3>2. CASE i # 0
      <4>1. i \in 1..n /\ i - 1 \in 0..n
        BY <1>n, <3>2
      <4>2. f[i] = step[i][f[i - 1]] /\ f[i - 1] \in V
        BY <1>2, <4>1 DEF Stepwise
      <4>3. f[i] = OutsideOf(rects[i], f[i - 1])
        BY <1>1, <4>1, <4>2
      <4> QED BY <3>2, <4>3 DEF OutsideOf
    <3> QED BY <3>1, <3>2
  <2>2. f = [i \in 0..n |-> f[i]]
    OBVIOUS
  <2> QED BY <2>1, <2>2
<1> DEFINE h == CHOOSE h : Is(h)
<1>4. Is(h)
  <2> HIDE DEF Is
  <2> QED BY <1>3
<1>5. AppendRect(rects, new) = rects \o h[n]
  BY Zenon DEF AppendRect
<1>6. h[0] = first /\ \A i \in 1..n : h[i] = OutsideOf(rects[i], h[i - 1])
  <2>1. ASSUME NEW i \in 0..n
        PROVE  h[i] = IF i = 0 THEN <<new>>
                      ELSE FlattenSeq([k \in DOMAIN h[i - 1] |-> Outside(rects[i], h[i - 1][k])])
    <3>1. h = [j \in 0..n |->
                 IF j = 0 THEN <<new>>
                 ELSE FlattenSeq([k \in DOMAIN h[j - 1] |-> Outside(rects[j], h[j - 1][k])])]
      BY <1>4
    <3> HIDE DEF h, n
    <3> QED BY <3>1
  <2>2. 0 \in 0..n /\ \A i \in 1..n : i \in 0..n /\ i # 0
    BY <1>n
  <2> HIDE DEF h, n
  <2> QED BY <2>1, <2>2 DEF OutsideOf
<1> HIDE DEF h, Is, step
<1> DEFINE Left(i) == \A t \in AllTiles :
             Covers(h[i], t) <=> HasTile(new, t) /\ \A j \in 1..i : ~HasTile(rects[j], t)
           T == {i \in 0..n : h[i] \in V /\ Left(i)}
<1>7. 0 \in T
  <2>1. h[0] \in V /\ 0 \in 0..n
    BY <1>0, <1>6, <1>n
  <2>2. Left(0)
    BY <1>0, <1>6
  <2> QED BY <2>1, <2>2
<1>8. ASSUME NEW i \in 1..n, i - 1 \in T PROVE i \in T
  <2>1. h[i - 1] \in V /\ Left(i - 1) /\ i \in 0..n
    BY <1>n, <1>8
  <2> DEFINE x == h[i - 1]
  <2>2. x \in Seq(Rects) /\ Apart(x) /\ rects[i] \in Rects /\ h[i] = OutsideOf(rects[i], x)
    BY <1>n, <1>6, <2>1
  <2> HIDE DEF x
  <2>3. /\ h[i] \in V
        /\ \A t \in AllTiles : Covers(h[i], t) <=> Covers(x, t) /\ ~HasTile(rects[i], t)
    BY <2>2, OutsideAll
  <2>4. ASSUME NEW t \in AllTiles
        PROVE  Covers(h[i], t) <=> HasTile(new, t) /\ \A j \in 1..i : ~HasTile(rects[j], t)
    <3>1. Covers(x, t) <=> HasTile(new, t) /\ \A j \in 1..(i - 1) : ~HasTile(rects[j], t)
      BY <2>1 DEF x
    <3>2. \A j : j \in 1..i <=> j \in 1..(i - 1) \/ j = i
      BY <1>n
    <3> QED BY <2>3, <3>1, <3>2
  <2> QED BY <2>1, <2>3, <2>4
<1>9. n \in T
  <2>1. \A i \in 1..n : i - 1 \in T => i \in T
    BY <1>8
  <2> HIDE DEF T, n
  <2>2. \A i \in 0..n : i \in T
    BY <1>n, <1>7, <2>1, Induction
  <2> QED BY <1>n, <2>2
<1> DEFINE more == h[n]
<1>10. more \in Seq(Rects) /\ Apart(more) /\ Left(n) /\ Len(more) \in Nat
  BY <1>9
<1>11. /\ rects \o more \in Seq(Rects) /\ Len(rects \o more) = n + Len(more)
       /\ \A i \in 1..(n + Len(more)) :
            (rects \o more)[i] = IF i <= n THEN rects[i] ELSE more[i - n]
  <2> HIDE DEF more
  <2> QED BY <1>10, Concatenation
<1> DEFINE all == rects \o more
<1>12. \A t \in AllTiles :
         Covers(more, t) <=> HasTile(new, t) /\ \A j \in 1..n : ~HasTile(rects[j], t)
  BY <1>10
<1> HIDE DEF h, n, more, T, Left, V, first
<1>13. Apart(rects \o more)
  <2> SUFFICES ASSUME NEW i \in 1..Len(all), NEW j \in 1..Len(all), NEW t \in AllTiles,
                      HasTile(all[i], t), HasTile(all[j], t)
               PROVE  i = j
    BY DEF Apart
  <2> HIDE DEF all
  <2>a. Len(all) = n + Len(more) /\ Len(more) \in Nat
    BY <1>10, <1>11 DEF all
  <2>b. ASSUME NEW k \in 1..Len(all), HasTile(all[k], t)
        PROVE  /\ k \in 1..n /\ HasTile(rects[k], t)
               \/ /\ k \notin 1..n /\ k - n \in 1..Len(more) /\ HasTile(more[k - n], t)
                  /\ \A u \in 1..n : ~HasTile(rects[u], t)
    <3>1. CASE k <= n
      BY <1>11, <1>n, <2>a, <2>b, <3>1 DEF all
    <3>2. CASE ~(k <= n)
      <4>1. k \notin 1..n /\ k - n \in 1..Len(more) /\ all[k] = more[k - n]
        BY <1>11, <1>n, <2>a, <3>2 DEF all
      <4>2. Covers(more, t)
        BY <2>b, <4>1 DEF Covers
      <4> QED BY <1>12, <2>b, <4>1, <4>2
    <3> QED BY <3>1, <3>2
  <2>1. CASE i \in 1..n
    BY <2>1, <2>b DEF Apart, n
  <2>2. CASE i \notin 1..n
    <3>1. j \notin 1..n /\ i - n \in 1..Len(more) /\ j - n \in 1..Len(more)
          /\ HasTile(more[i - n], t) /\ HasTile(more[j - n], t)
      BY <2>2, <2>b
    <3>2. i - n = j - n
      BY <1>10, <3>1 DEF Apart
    <3> QED BY <1>n, <2>a, <3>2
  <2> QED BY <2>1, <2>2
<1>14. ASSUME NEW t \in AllTiles
       PROVE  Covers(rects \o more, t) <=> Covers(rects, t) \/ HasTile(new, t)
  <2> HIDE DEF all
  <2>1. Len(all) = n + Len(more) /\ Len(more) \in Nat
    BY <1>10, <1>11 DEF all
  <2>2. Covers(all, t) <=> Covers(rects, t) \/ Covers(more, t)
    <3>1. ASSUME NEW k \in 1..Len(all), HasTile(all[k], t)
          PROVE  Covers(rects, t) \/ Covers(more, t)
      <4>1. CASE k <= n
        <5>1. k \in 1..n /\ all[k] = rects[k]
          BY <1>11, <1>n, <2>1, <4>1 DEF all
        <5> QED BY <3>1, <5>1 DEF Covers, n
      <4>2. CASE ~(k <= n)
        <5>1. k - n \in 1..Len(more) /\ all[k] = more[k - n]
          BY <1>11, <1>n, <2>1, <4>2 DEF all
        <5> QED BY <3>1, <5>1 DEF Covers
      <4> QED BY <4>1, <4>2
    <3>2. ASSUME NEW k \in 1..n, HasTile(rects[k], t) PROVE Covers(all, t)
      <4>1. k \in 1..Len(all) /\ all[k] = rects[k]
        BY <1>11, <1>n, <2>1 DEF all
      <4> QED BY <3>2, <4>1 DEF Covers
    <3>3. ASSUME NEW k \in 1..Len(more), HasTile(more[k], t) PROVE Covers(all, t)
      <4>1. n + k \in 1..Len(all) /\ ~(n + k <= n) /\ (n + k) - n = k
        BY <1>n, <2>1
      <4>2. all[n + k] = more[k]
        BY <1>11, <2>1, <4>1 DEF all
      <4> QED BY <3>3, <4>1, <4>2 DEF Covers
    <3> QED BY <3>1, <3>2, <3>3 DEF Covers, n
  <2>3. Covers(more, t) <=> HasTile(new, t) /\ ~Covers(rects, t)
    BY <1>12 DEF Covers, n
  <2> QED BY <2>2, <2>3 DEF all
<1> QED BY <1>5, <1>11, <1>13, <1>14 DEF more

\* compute_tile_ranges: every box at every zoom level, and then without overlaps.
FitBoxes(boxes, zooms) ==
  /\ Len(boxes) \in Nat /\ DOMAIN boxes = 1..Len(boxes)
  /\ Len(zooms) \in Nat /\ DOMAIN zooms = 1..Len(zooms)
  /\ \A b \in DOMAIN boxes, z \in DOMAIN zooms : AtZoom(boxes[b], zooms[z]) \in Rects

InBoxes(boxes, zooms, t) ==
  \E b \in DOMAIN boxes : \E z \in DOMAIN zooms : HasTile(AtZoom(boxes[b], zooms[z]), t)

LEMMA AllBoxes ==
  ASSUME NEW boxes, NEW zooms, FitBoxes(boxes, zooms)
  PROVE  /\ Boxes(boxes, zooms) \in Seq(Rects)
         /\ \A t : Covers(Boxes(boxes, zooms), t) <=> InBoxes(boxes, zooms, t)
<1> DEFINE at(z) == [b \in DOMAIN boxes |-> AtZoom(boxes[b], zooms[z])]
           seqs == [z \in DOMAIN zooms |-> at(z)]
           m == Len(zooms)
           n == Len(boxes)
<1>1. m \in Nat /\ n \in Nat /\ DOMAIN zooms = 1..m /\ DOMAIN boxes = 1..n
  BY DEF FitBoxes
<1>2. ASSUME NEW z \in 1..m
      PROVE  at(z) \in Seq(Rects) /\ Len(at(z)) = n /\ \A b \in 1..n : at(z)[b] = AtZoom(boxes[b], zooms[z])
  <2>1. \A b \in 1..n : AtZoom(boxes[b], zooms[z]) \in Rects
    BY <1>1 DEF FitBoxes
  <2> HIDE DEF m, n
  <2>2. at(z) \in [1..n -> Rects] /\ \A b \in 1..n : at(z)[b] = AtZoom(boxes[b], zooms[z])
    BY <1>1, <2>1
  <2> HIDE DEF at
  <2> QED BY <1>1, <2>2
<1> HIDE DEF at
<1>3. seqs \in Seq(Seq(Rects)) /\ Len(seqs) = m /\ \A z \in 1..m : seqs[z] = at(z)
  <2> HIDE DEF m
  <2>1. seqs \in [1..m -> Seq(Rects)] /\ \A z \in 1..m : seqs[z] = at(z)
    BY <1>1, <1>2
  <2> HIDE DEF seqs
  <2> QED BY <1>1, <2>1
<1>4. Boxes(boxes, zooms) = FlattenSeq(seqs)
  BY DEF Boxes, at
<1> HIDE DEF seqs
<1> DEFINE flat == FlattenSeq(seqs)
<1>5. flat \in Seq(Rects) /\ Flattened(flat, seqs, Len(seqs))
  BY <1>3, Flattening
<1> HIDE DEF flat, m, n
<1>6. PICK row \in [1..Len(flat) -> Nat], col \in [1..Len(flat) -> Nat] :
        Places(flat, seqs, m, row, col)
  BY <1>3, <1>5 DEF Flattened
<1>7. ASSUME NEW t PROVE Covers(flat, t) <=> InBoxes(boxes, zooms, t)
  <2>1. ASSUME NEW k \in 1..Len(flat), HasTile(flat[k], t) PROVE InBoxes(boxes, zooms, t)
    <3>1. row[k] \in 1..m /\ col[k] \in 1..Len(seqs[row[k]]) /\ flat[k] = seqs[row[k]][col[k]]
      BY <1>6 DEF Places
    <3>2. col[k] \in 1..n /\ flat[k] = AtZoom(boxes[col[k]], zooms[row[k]])
      BY <1>2, <1>3, <3>1
    <3> QED BY <1>1, <2>1, <3>1, <3>2 DEF InBoxes
  <2>2. ASSUME NEW b \in 1..n, NEW z \in 1..m, HasTile(AtZoom(boxes[b], zooms[z]), t)
        PROVE  Covers(flat, t)
    <3>1. b \in 1..Len(seqs[z]) /\ seqs[z][b] = AtZoom(boxes[b], zooms[z])
      BY <1>2, <1>3
    <3>2. PICK k \in 1..Len(flat) : row[k] = z /\ col[k] = b
      BY <1>6, <3>1 DEF Places
    <3>3. flat[k] = seqs[z][b]
      BY <1>6, <3>2 DEF Places
    <3> QED BY <2>2, <3>1, <3>3 DEF Covers
  <2> QED BY <1>1, <2>1, <2>2 DEF Covers, InBoxes
<1> QED BY <1>4, <1>5, <1>7 DEF flat

LEMMA Ranges ==
  ASSUME NEW boxes, NEW zooms, FitBoxes(boxes, zooms)
  PROVE  /\ TileRanges(boxes, zooms) \in Seq(Rects) /\ Apart(TileRanges(boxes, zooms))
         /\ \A t \in AllTiles : Covers(TileRanges(boxes, zooms), t) <=> InBoxes(boxes, zooms, t)
<1> DEFINE all == Boxes(boxes, zooms)
           n == Len(all)
           V == {x \in Seq(Rects) : Apart(x)}
           none == <<>>
           step == [i \in 1..n |-> [x \in V |-> AppendRect(x, all[i])]]
<1>a. all \in Seq(Rects) /\ \A t : Covers(all, t) <=> InBoxes(boxes, zooms, t)
  BY AllBoxes
<1>n. n \in Nat /\ \A i \in 1..n : all[i] \in Rects
  <2> HIDE DEF all
  <2> QED BY <1>a
<1>0. none \in V /\ Len(none) = 0 /\ \A t \in AllTiles : ~Covers(none, t)
  <2>1. none \in Seq(Rects) /\ Len(none) = 0
    OBVIOUS
  <2> HIDE DEF none
  <2> QED BY <2>1 DEF Apart, Covers
<1>1. step \in StepsOf(n, V) /\ \A i \in 1..n : \A x \in V : step[i][x] = AppendRect(x, all[i])
  <2>1. ASSUME NEW i \in 1..n, NEW x \in V PROVE AppendRect(x, all[i]) \in V
    <3> DEFINE new == all[i]
    <3>1. new \in Rects /\ x \in Seq(Rects) /\ Apart(x)
      BY <1>n
    <3> HIDE DEF new
    <3>2. AppendRect(x, new) \in Seq(Rects) /\ Apart(AppendRect(x, new))
      BY <3>1, Appended
    <3> QED BY <3>2 DEF new
  <2> HIDE DEF V, all, n
  <2> QED BY <2>1 DEF StepsOf
<1>2. PICK f \in [0..n -> V] : Stepwise(n, none, step, f)
  <2> HIDE DEF n, V, none, step
  <2> QED BY <1>n, <1>0, <1>1, Recursion
<1> DEFINE Is(h) == h = [i \in 0..n |-> IF i = 0 THEN <<>> ELSE AppendRect(h[i - 1], all[i])]
<1>3. Is(f)
  <2>1. ASSUME NEW i \in 0..n
        PROVE  f[i] = IF i = 0 THEN <<>> ELSE AppendRect(f[i - 1], all[i])
    <3>1. CASE i = 0
      BY <1>2, <3>1 DEF Stepwise
    <3>2. CASE i # 0
      <4> HIDE DEF n, V, all, step
      <4>1. i \in 1..n /\ i - 1 \in 0..n
        BY <1>n, <3>2
      <4>2. f[i] = step[i][f[i - 1]] /\ f[i - 1] \in V
        BY <1>2, <4>1 DEF Stepwise
      <4>3. f[i] = AppendRect(f[i - 1], all[i])
        BY <1>1, <4>1, <4>2
      <4> QED BY <3>2, <4>3
    <3> QED BY <3>1, <3>2
  <2> HIDE DEF n, V, all
  <2>2. f = [i \in 0..n |-> f[i]]
    OBVIOUS
  <2> QED BY <2>1, <2>2
<1> DEFINE h == CHOOSE h : Is(h)
<1>4. Is(h)
  <2> HIDE DEF Is
  <2> QED BY <1>3
<1>5. TileRanges(boxes, zooms) = h[n]
  BY Zenon DEF TileRanges
<1> HIDE DEF all, n
<1>6. h[0] = none /\ \A i \in 1..n : h[i] = AppendRect(h[i - 1], all[i])
  <2>1. ASSUME NEW i \in 0..n
        PROVE  h[i] = IF i = 0 THEN <<>> ELSE AppendRect(h[i - 1], all[i])
    <3>1. h = [j \in 0..n |-> IF j = 0 THEN <<>> ELSE AppendRect(h[j - 1], all[j])]
      BY <1>4
    <3> HIDE DEF h
    <3> QED BY <3>1
  <2>2. 0 \in 0..n /\ \A i \in 1..n : i \in 0..n /\ i # 0
    BY <1>n
  <2> HIDE DEF h
  <2> QED BY <2>1, <2>2
<1> HIDE DEF h, Is, step, none
<1> DEFINE Upto(i) == \A t \in AllTiles :
             Covers(h[i], t) <=> \E j \in 1..i : HasTile(all[j], t)
           T == {i \in 0..n : h[i] \in V /\ Upto(i)}
<1>7. 0 \in T
  <2>1. h[0] \in V /\ 0 \in 0..n
    BY <1>0, <1>6, <1>n
  <2>2. Upto(0)
    BY <1>0, <1>6
  <2> QED BY <2>1, <2>2
<1>8. ASSUME NEW i \in 1..n, i - 1 \in T PROVE i \in T
  <2>1. h[i - 1] \in V /\ Upto(i - 1) /\ i \in 0..n
    BY <1>n, <1>8
  <2> DEFINE x == h[i - 1]
             new == all[i]
  <2>2. x \in Seq(Rects) /\ Apart(x) /\ new \in Rects /\ h[i] = AppendRect(x, new)
    BY <1>n, <1>6, <2>1
  <2> HIDE DEF x, new
  <2>3. /\ AppendRect(x, new) \in Seq(Rects) /\ Apart(AppendRect(x, new))
        /\ \A t \in AllTiles : Covers(AppendRect(x, new), t) <=> Covers(x, t) \/ HasTile(new, t)
    BY <2>2, Appended
  <2>4. ASSUME NEW t \in AllTiles
        PROVE  Covers(h[i], t) <=> \E j \in 1..i : HasTile(all[j], t)
    <3>1. Covers(x, t) <=> \E j \in 1..(i - 1) : HasTile(all[j], t)
      BY <2>1 DEF x
    <3>2. \A j : j \in 1..i <=> j \in 1..(i - 1) \/ j = i
      BY <1>n
    <3> QED BY <2>2, <2>3, <3>1, <3>2 DEF new
  <2> QED BY <2>1, <2>2, <2>3, <2>4
<1>9. n \in T
  <2>1. \A i \in 1..n : i - 1 \in T => i \in T
    BY <1>8
  <2> HIDE DEF T
  <2>2. \A i \in 0..n : i \in T
    BY <1>n, <1>7, <2>1, Induction
  <2> QED BY <1>n, <2>2
<1>10. \A t \in AllTiles : Covers(h[n], t) <=> InBoxes(boxes, zooms, t)
  BY <1>9, <1>a DEF Covers, n
<1> QED BY <1>5, <1>9, <1>10

\* A sequence that holds each element of a set once.
Lists(seq, S) ==
  /\ \A k \in 1..Len(seq) : seq[k] \in S
  /\ \A k, l \in 1..Len(seq) : seq[k] = seq[l] => k = l
  /\ \A t \in S : \E k \in 1..Len(seq) : seq[k] = t

LEMMA RectTiles ==
  ASSUME NEW r \in Rects
  PROVE  TilesOf(r) \in Seq(AllTiles) /\ Lists(TilesOf(r), {t \in AllTiles : HasTile(r, t)})
<1> DEFINE w == r.maxX - r.minX + 1
           g == r.maxY - r.minY + 1
           tile(i, j) == <<r.zoom, r.minX + i - 1, r.minY + j - 1>>
           column(i) == [j \in 1..g |-> tile(i, j)]
           seqs == [i \in 1..w |-> column(i)]
<1>t. /\ r.zoom \in Nat /\ r.minX \in Nat /\ r.minY \in Nat /\ r.maxX \in Nat /\ r.maxY \in Nat
      /\ r.minX <= r.maxX /\ r.minY <= r.maxY /\ w \in Nat /\ g \in Nat
  BY DEF Rects
<1>1. ASSUME NEW i \in 1..w, NEW j \in 1..g
      PROVE  tile(i, j) \in AllTiles /\ HasTile(r, tile(i, j))
  BY <1>t DEF AllTiles, HasTile
<1>2. ASSUME NEW i \in 1..w, NEW j \in 1..g, NEW k \in 1..w, NEW l \in 1..g, tile(i, j) = tile(k, l)
      PROVE  i = k /\ j = l
  <2>1. r.minX + i - 1 = r.minX + k - 1 /\ r.minY + j - 1 = r.minY + l - 1
    BY <1>2
  <2>2. i \in Int /\ j \in Int /\ k \in Int /\ l \in Int
    OBVIOUS
  <2> QED BY <1>t, <2>1, <2>2
<1>3. ASSUME NEW t \in AllTiles, HasTile(r, t)
      PROVE  \E i \in 1..w : \E j \in 1..g : tile(i, j) = t
  <2>1. /\ t = <<t[1], t[2], t[3]>> /\ t[1] = r.zoom /\ t[2] \in Nat /\ t[3] \in Nat
        /\ r.minX <= t[2] /\ t[2] <= r.maxX /\ r.minY <= t[3] /\ t[3] <= r.maxY
    BY <1>3 DEF AllTiles, HasTile
  <2> DEFINE i == t[2] - r.minX + 1
             j == t[3] - r.minY + 1
  <2>2. i \in 1..w /\ j \in 1..g /\ r.minX + i - 1 = t[2] /\ r.minY + j - 1 = t[3]
    BY <1>t, <2>1
  <2>3. tile(i, j) = t
    BY <2>1, <2>2
  <2> HIDE DEF i, j, tile, w, g
  <2> QED BY <2>2, <2>3
<1> HIDE DEF w, g, tile
<1>4. ASSUME NEW i \in 1..w
      PROVE  column(i) \in Seq(AllTiles) /\ Len(column(i)) = g /\ \A j \in 1..g : column(i)[j] = tile(i, j)
  <2>1. column(i) \in [1..g -> AllTiles] /\ \A j \in 1..g : column(i)[j] = tile(i, j)
    BY <1>1
  <2> HIDE DEF column
  <2> QED BY <1>t, <2>1
<1> HIDE DEF column
<1>5. seqs \in Seq(Seq(AllTiles)) /\ Len(seqs) = w /\ \A i \in 1..w : seqs[i] = column(i)
  <2>1. seqs \in [1..w -> Seq(AllTiles)] /\ \A i \in 1..w : seqs[i] = column(i)
    BY <1>4
  <2> HIDE DEF seqs
  <2> QED BY <1>t, <2>1
<1>6. TilesOf(r) = FlattenSeq(seqs)
  BY DEF TilesOf, column, tile, w, g
<1> HIDE DEF seqs
<1> DEFINE flat == FlattenSeq(seqs)
           S == {t \in AllTiles : HasTile(r, t)}
<1>7. flat \in Seq(AllTiles) /\ Flattened(flat, seqs, Len(seqs))
  BY <1>5, Flattening
<1> HIDE DEF flat
<1>8. PICK row \in [1..Len(flat) -> Nat], col \in [1..Len(flat) -> Nat] :
        Places(flat, seqs, w, row, col)
  BY <1>5, <1>7 DEF Flattened
<1>9. ASSUME NEW k \in 1..Len(flat)
      PROVE  row[k] \in 1..w /\ col[k] \in 1..g /\ flat[k] = tile(row[k], col[k])
  <2>1. row[k] \in 1..w /\ col[k] \in 1..Len(seqs[row[k]]) /\ flat[k] = seqs[row[k]][col[k]]
    BY <1>8 DEF Places
  <2> QED BY <1>4, <1>5, <2>1
<1>10. \A k \in 1..Len(flat) : flat[k] \in S
  BY <1>1, <1>9
<1>11. ASSUME NEW k \in 1..Len(flat), NEW l \in 1..Len(flat), flat[k] = flat[l] PROVE k = l
  <2>1. row[k] = row[l] /\ col[k] = col[l]
    BY <1>2, <1>9, <1>11
  <2> QED BY <1>8, <2>1 DEF Places
<1>12. ASSUME NEW t \in S PROVE \E k \in 1..Len(flat) : flat[k] = t
  <2>1. PICK i \in 1..w, j \in 1..g : tile(i, j) = t
    BY <1>3
  <2>2. j \in 1..Len(seqs[i])
    BY <1>4, <1>5
  <2>3. PICK k \in 1..Len(flat) : row[k] = i /\ col[k] = j
    BY <1>8, <2>2 DEF Places
  <2> QED BY <1>9, <2>1, <2>3
<1>13. Lists(flat, S)
  <2> HIDE DEF S
  <2> QED BY <1>10, <1>11, <1>12 DEF Lists
<1> QED BY <1>6, <1>7, <1>13 DEF flat

LEMMA RectsTiles ==
  ASSUME NEW rects \in Seq(Rects), Apart(rects)
  PROVE  /\ IterateTiles(rects) \in Seq(AllTiles)
         /\ Lists(IterateTiles(rects), {t \in AllTiles : Covers(rects, t)})
<1> DEFINE n == Len(rects)
           seqs == [i \in DOMAIN rects |-> TilesOf(rects[i])]
           Of(i) == {t \in AllTiles : HasTile(rects[i], t)}
<1>1. ASSUME NEW i \in 1..n
      PROVE  TilesOf(rects[i]) \in Seq(AllTiles) /\ Lists(TilesOf(rects[i]), Of(i))
  <2> DEFINE r == rects[i]
  <2>1. r \in Rects
    OBVIOUS
  <2> HIDE DEF r
  <2>2. TilesOf(r) \in Seq(AllTiles) /\ Lists(TilesOf(r), {t \in AllTiles : HasTile(r, t)})
    BY <2>1, RectTiles
  <2> QED BY <2>2 DEF r
<1>2. n \in Nat /\ DOMAIN rects = 1..n
  OBVIOUS
<1> HIDE DEF n
<1>3. seqs \in Seq(Seq(AllTiles)) /\ Len(seqs) = n /\ \A i \in 1..n : seqs[i] = TilesOf(rects[i])
  <2>1. seqs \in [1..n -> Seq(AllTiles)] /\ \A i \in 1..n : seqs[i] = TilesOf(rects[i])
    BY <1>1, <1>2
  <2> HIDE DEF seqs
  <2> QED BY <1>2, <2>1
<1>4. IterateTiles(rects) = FlattenSeq(seqs)
  BY DEF IterateTiles
<1> HIDE DEF seqs
<1> DEFINE flat == FlattenSeq(seqs)
           S == {t \in AllTiles : Covers(rects, t)}
<1>5. flat \in Seq(AllTiles) /\ Flattened(flat, seqs, Len(seqs))
  BY <1>3, Flattening
<1> HIDE DEF flat
<1>6. PICK row \in [1..Len(flat) -> Nat], col \in [1..Len(flat) -> Nat] :
        Places(flat, seqs, n, row, col)
  BY <1>3, <1>5 DEF Flattened
<1>7. ASSUME NEW i \in 1..n PROVE Lists(seqs[i], Of(i))
  BY <1>1, <1>3
<1>8. ASSUME NEW k \in 1..Len(flat)
      PROVE  /\ row[k] \in 1..n /\ col[k] \in 1..Len(seqs[row[k]]) /\ flat[k] = seqs[row[k]][col[k]]
             /\ flat[k] \in Of(row[k])
  <2>1. row[k] \in 1..n /\ col[k] \in 1..Len(seqs[row[k]]) /\ flat[k] = seqs[row[k]][col[k]]
    BY <1>6 DEF Places
  <2>2. Lists(seqs[row[k]], Of(row[k]))
    BY <1>7, <2>1
  <2> HIDE DEF Of
  <2> QED BY <2>1, <2>2 DEF Lists
<1>9. \A k \in 1..Len(flat) : flat[k] \in S
  BY <1>8 DEF Covers, n
<1>10. ASSUME NEW k \in 1..Len(flat), NEW l \in 1..Len(flat), flat[k] = flat[l] PROVE k = l
  <2>1. row[k] = row[l]
    <3>1. flat[k] \in AllTiles /\ HasTile(rects[row[k]], flat[k]) /\ HasTile(rects[row[l]], flat[k])
      BY <1>8, <1>10
    <3>2. row[k] \in 1..Len(rects) /\ row[l] \in 1..Len(rects)
      BY <1>8 DEF n
    <3> QED BY <3>1, <3>2 DEF Apart
  <2>2. Lists(seqs[row[k]], Of(row[k]))
    BY <1>7, <1>8
  <2>3. /\ col[k] \in 1..Len(seqs[row[k]]) /\ col[l] \in 1..Len(seqs[row[k]])
        /\ seqs[row[k]][col[k]] = seqs[row[k]][col[l]]
    BY <1>8, <1>10, <2>1
  <2> HIDE DEF Of
  <2>4. col[k] = col[l]
    BY <2>2, <2>3 DEF Lists
  <2> QED BY <1>6, <2>1, <2>4 DEF Places
<1>11. ASSUME NEW t \in S PROVE \E k \in 1..Len(flat) : flat[k] = t
  <2>1. PICK i \in 1..n : HasTile(rects[i], t)
    BY DEF Covers, n
  <2>2. t \in Of(i) /\ Lists(seqs[i], Of(i))
    BY <1>7, <2>1
  <2> HIDE DEF Of, S
  <2>3. PICK j \in 1..Len(seqs[i]) : seqs[i][j] = t
    BY <2>2 DEF Lists
  <2>4. PICK k \in 1..Len(flat) : row[k] = i /\ col[k] = j
    BY <1>6, <2>3 DEF Places
  <2> QED BY <1>8, <2>3, <2>4
<1>12. Lists(flat, S)
  <2> HIDE DEF S
  <2> QED BY <1>9, <1>10, <1>11 DEF Lists
<1> QED BY <1>4, <1>5, <1>12 DEF flat

\* A command's tiles are requested once each, however its boxes overlap.
LEMMA RequestedOnce ==
  ASSUME NEW c, FitBoxes(c.boxes, c.zooms), Coords \subseteq AllTiles,
         \A t \in AllTiles : InBoxes(c.boxes, c.zooms, t) => t \in Coords
  PROVE  Requested(c) \in Seq(Coords) /\ Lists(Requested(c), Asked(c))
<1> DEFINE rects == TileRanges(c.boxes, c.zooms)
<1>1. /\ rects \in Seq(Rects) /\ Apart(rects)
      /\ \A t \in AllTiles : Covers(rects, t) <=> InBoxes(c.boxes, c.zooms, t)
  <2> DEFINE boxes == c.boxes
             zooms == c.zooms
  <2>1. FitBoxes(boxes, zooms)
    OBVIOUS
  <2> HIDE DEF boxes, zooms
  <2>2. /\ TileRanges(boxes, zooms) \in Seq(Rects) /\ Apart(TileRanges(boxes, zooms))
        /\ \A t \in AllTiles : Covers(TileRanges(boxes, zooms), t) <=> InBoxes(boxes, zooms, t)
    BY <2>1, Ranges
  <2> QED BY <2>2 DEF boxes, zooms
<1> HIDE DEF rects
<1>2. /\ IterateTiles(rects) \in Seq(AllTiles)
      /\ Lists(IterateTiles(rects), {t \in AllTiles : Covers(rects, t)})
  BY <1>1, RectsTiles
<1>3. Requested(c) = IterateTiles(rects)
  BY DEF Requested, rects
<1>4. {t \in AllTiles : Covers(rects, t)} = Asked(c)
  <2>1. \A t : t \in Asked(c) <=> t \in Coords /\ InBoxes(c.boxes, c.zooms, t)
    BY DEF Asked, InBoxes
  <2>2. \A t \in AllTiles : Covers(rects, t) <=> t \in Asked(c)
    BY <1>1, <2>1
  <2>3. Asked(c) \subseteq AllTiles
    BY <2>1
  <2> QED BY <2>2, <2>3
<1> DEFINE seq == Requested(c)
<1>5. seq \in Seq(AllTiles) /\ Lists(seq, Asked(c))
  BY <1>2, <1>3, <1>4
<1>6. seq \in Seq(Coords)
  <2> HIDE DEF seq
  <2>1. \A k \in 1..Len(seq) : seq[k] \in Coords
    BY <1>5 DEF Lists, Asked
  <2>2. seq \in [1..Len(seq) -> AllTiles] /\ Len(seq) \in Nat
    BY <1>5
  <2>3. seq \in [1..Len(seq) -> Coords]
    BY <2>1, <2>2
  <2> QED BY <2>2, <2>3
<1> QED BY <1>5, <1>6

-----------------------------------------------------------------------------
(* The file.                                                               *)

\* What is assumed.  The source has the tiles its zoom levels can have, at levels
\* that are bytes.  The boxes are rectangles at every level, as TileRect::new asserts,
\* and a command names a level.
CopyFits ==
  /\ Nothing \notin Data /\ Content \in [Coords -> Data \cup {Nothing}]
  /\ Coords \subseteq (0..255) \X Nat \X Nat
  /\ Unset \notin Modes \cup Nat
  /\ \A c \in Commands :
       /\ c.mode \in Modes \cup {Unset} /\ c.type \in {"flat", "flat-with-hash", "normalized"}
       /\ FitBoxes(c.boxes, c.zooms)
       /\ DOMAIN c.zooms # {} /\ \A z \in DOMAIN c.zooms : c.zooms[z] \in 0..255
       /\ \A b \in DOMAIN c.boxes : \A z \in DOMAIN c.zooms :
            LET r == AtZoom(c.boxes[b], c.zooms[z])
            IN \A x \in r.minX..r.maxX : \A y \in r.minY..r.maxY : <<r.zoom, x, y>> \in Coords

RowOf(type, d) == Stored(type, [data |-> d, hash |-> Md5(d)])

\* A file that copies wrote.
FileOk(f) ==
  /\ DOMAIN f = DOMAIN NoFile
  /\ f.type \in {"flat", "flat-with-hash", "normalized"}
  /\ DOMAIN f.rows \subseteq Coords
  /\ \A c \in DOMAIN f.rows :
       \E d \in Data : /\ f.rows[c] = RowOf(f.type, d)
                       /\ f.type = "normalized" => Md5(d) \in DOMAIN f.images
  /\ \A id \in DOMAIN f.images : \E d \in Data : id = Md5(d) /\ f.images[id] = d

LEMMA Md5Facts ==
  /\ \A d \in Data : d # Null /\ Md5(d) = <<"md5", d>> /\ Md5(d) # Null
  /\ \A d, e \in Data : Md5(d) = Md5(e) => d = e
<1>1. \A d \in Data : d # Null /\ Md5(d) = <<"md5", d>> /\ Md5(d) # Null
  BY NullAssumption DEF Md5
<1> QED BY <1>1

LEMMA RowIs ==
  ASSUME NEW d \in Data
  PROVE  /\ RowOf("flat", d) = [data |-> d, hash |-> Null]
         /\ RowOf("flat-with-hash", d) = [data |-> d, hash |-> Md5(d)]
         /\ RowOf("normalized", d) = [data |-> Null, hash |-> Md5(d)]
  BY DEF RowOf, Stored, Normalized

\* What such a file shows: its rows.
LEMMA Shown ==
  ASSUME NEW f, FileOk(f)
  PROVE  /\ DOMAIN Tiles(f) = DOMAIN f.rows
         /\ Tiles(f) = [c \in DOMAIN Tiles(f) |-> Tiles(f)[c]]
         /\ \A c \in DOMAIN f.rows :
              /\ Tiles(f)[c] \in Data /\ f.rows[c] = RowOf(f.type, Tiles(f)[c])
              /\ f.type = "normalized" => Md5(Tiles(f)[c]) \in DOMAIN f.images
         /\ EachTileHashed(f)
<1>1. CASE f.type = "normalized"
  <2>1. ASSUME NEW c \in DOMAIN f.rows
        PROVE  \E d \in Data : /\ f.rows[c].hash = Md5(d) /\ Md5(d) \in DOMAIN f.images
                               /\ f.images[Md5(d)] = d /\ f.rows[c] = RowOf(f.type, d)
    <3>1. PICK d \in Data : f.rows[c] = RowOf(f.type, d) /\ Md5(d) \in DOMAIN f.images
      BY <1>1 DEF FileOk
    <3>2. PICK e \in Data : Md5(d) = Md5(e) /\ f.images[Md5(d)] = e
      BY <3>1 DEF FileOk
    <3>3. d = e
      BY <3>2, Md5Facts
    <3>4. f.rows[c].hash = Md5(d)
      BY <1>1, <3>1, RowIs
    <3> QED BY <3>1, <3>2, <3>3, <3>4
  <2>2. DOMAIN Tiles(f) = DOMAIN f.rows /\ \A c \in DOMAIN f.rows : Tiles(f)[c] = f.images[f.rows[c].hash]
    BY <1>1, <2>1 DEF Tiles, Normalized
  <2>3. Tiles(f) = [c \in DOMAIN Tiles(f) |-> Tiles(f)[c]]
    BY <1>1 DEF Tiles, Normalized
  <2>4. EachTileHashed(f)
    <3>1. \A c \in DOMAIN f.rows : f.rows[c].hash \in DOMAIN f.images \cup {Null}
      BY <2>1
    <3>2. \A id \in DOMAIN f.images : Matches(id, f.images[id])
      BY DEF FileOk, Matches
    <3> QED BY <1>1, <3>1, <3>2 DEF EachTileHashed
  <2>5. ASSUME NEW c \in DOMAIN f.rows
        PROVE  /\ Tiles(f)[c] \in Data /\ f.rows[c] = RowOf(f.type, Tiles(f)[c])
               /\ Md5(Tiles(f)[c]) \in DOMAIN f.images
    <3>1. PICK d \in Data : /\ f.rows[c].hash = Md5(d) /\ Md5(d) \in DOMAIN f.images
                            /\ f.images[Md5(d)] = d /\ f.rows[c] = RowOf(f.type, d)
      BY <2>1
    <3>2. Tiles(f)[c] = d
      BY <2>2, <3>1
    <3> QED BY <3>1, <3>2
  <2> QED BY <2>2, <2>3, <2>4, <2>5
<1>2. CASE f.type \in {"flat", "flat-with-hash"}
  <2>1. ASSUME NEW c \in DOMAIN f.rows
        PROVE  /\ f.rows[c].data \in Data /\ f.rows[c] = RowOf(f.type, f.rows[c].data)
               /\ f.type = "flat-with-hash" => f.rows[c].hash = Md5(f.rows[c].data)
    <3>1. PICK d \in Data : f.rows[c] = RowOf(f.type, d)
      BY DEF FileOk
    <3>2. f.rows[c].data = d /\ (f.type = "flat-with-hash" => f.rows[c].hash = Md5(d))
      BY <1>2, <3>1, RowIs
    <3> QED BY <3>1, <3>2
  <2>2. f.type \notin Normalized /\ f.type # "normalized"
    BY <1>2 DEF Normalized
  <2>3. Tiles(f) = [c \in DOMAIN f.rows |-> f.rows[c].data]
    BY <2>2 DEF Tiles
  <2>4. EachTileHashed(f)
    BY <1>2, <2>1 DEF EachTileHashed, Matches
  <2> QED BY <2>1, <2>2, <2>3, <2>4
<1> QED BY <1>1, <1>2 DEF FileOk

LEMMA NothingShown == DOMAIN Tiles(NoFile) = {} /\ Tiles(NoFile) = Empty /\ NoFile.type = "none"
  BY DEF NoFile, Tiles, Empty, Normalized

\* The tiles of a file with those of a batch.
Mixed(mode, old, new) == IF mode = "ignore" THEN Overlay(new, old) ELSE Overlay(old, new)

IsMap(m) == m = [c \in DOMAIN m |-> m[c]]

IsMixed(m, mode, old, new) ==
  /\ IsMap(m) /\ DOMAIN m = DOMAIN old \cup DOMAIN new
  /\ \A c \in DOMAIN old \ DOMAIN new : m[c] = old[c]
  /\ \A c \in DOMAIN new \ DOMAIN old : m[c] = new[c]
  /\ \A c \in DOMAIN old \cap DOMAIN new : m[c] = IF mode = "ignore" THEN old[c] ELSE new[c]

LEMMA MixedIs ==
  ASSUME NEW mode, NEW old, NEW new
  PROVE  IsMixed(Mixed(mode, old, new), mode, old, new)
  BY DEF Mixed, Overlay, IsMap, IsMixed

LEMMA InsertIs ==
  ASSUME NEW table, NEW new, NEW mode \in Modes, NEW t \in Insert(table, new, mode)
  PROVE  t = Mixed(mode, table, new) /\ (mode = "abort" => DOMAIN table \cap DOMAIN new = {})
<1>1. CASE mode = "abort"
  BY <1>1 DEF Insert, Mixed
<1>2. CASE mode \in {"override", "ignore"}
  BY <1>2 DEF Insert, Mixed
<1> QED BY <1>1, <1>2 DEF Modes

\* insert_tiles.
LEMMA Inserted ==
  ASSUME NEW f, FileOk(f), NEW tiles, IsMap(tiles), DOMAIN tiles \subseteq Coords,
         \A c \in DOMAIN tiles : tiles[c] \in Data,
         NEW mode \in Modes, NEW g \in InsertTiles(f, tiles, mode)
  PROVE  FileOk(g) /\ g.type = f.type /\ Tiles(g) = Mixed(mode, Tiles(f), tiles)
<1> DEFINE row(c) == [data |-> tiles[c], hash |-> Md5(tiles[c])]
           sel == [c \in DOMAIN tiles |-> row(c)]
           hashed(c) == IF f.type = "flat" THEN [sel[c] EXCEPT !.hash = Null] ELSE sel[c]
           new == [c \in DOMAIN tiles |-> Stored(f.type, hashed(c))]
           im == Images(sel)
<1>1. f.type \in {"flat", "flat-with-hash", "normalized"} /\ DOMAIN f = DOMAIN NoFile
  BY DEF FileOk
<1>3. PICK i, r : /\ g = [f EXCEPT !.images = i, !.rows = r]
                  /\ \/ f.type \notin Normalized /\ i = f.images
                     \/ f.type \in Normalized /\ i \in Insert(f.images, im, mode)
                  /\ r \in Insert(f.rows, new, mode)
  <2> DEFINE copies == \E c, d \in DOMAIN tiles : c # d /\ tiles[c] = tiles[d]
             files == IF f.type \notin Normalized THEN {f.images}
                      ELSE IF mode = "abort" /\ copies THEN {}
                      ELSE Insert(f.images, Images(sel), mode)
             rows == Insert(f.rows, new, mode)
  <2>1. g \in {[f EXCEPT !.images = t[1], !.rows = t[2]] : t \in files \X rows}
    BY Zenon DEF InsertTiles
  <2> HIDE DEF files, rows
  <2>3. PICK t \in files \X rows : g = [f EXCEPT !.images = t[1], !.rows = t[2]]
    BY <2>1
  <2>4. t[1] \in files /\ t[2] \in rows
    OBVIOUS
  <2>5. \/ f.type \notin Normalized /\ t[1] = f.images
        \/ f.type \in Normalized /\ t[1] \in Insert(f.images, im, mode)
    BY <2>4 DEF files
  <2> QED BY <2>3, <2>4, <2>5 DEF rows
<1>5. DOMAIN g = DOMAIN NoFile /\ g.type = f.type /\ g.rows = r /\ g.images = i
  BY <1>1, <1>3 DEF NoFile
<1>6. DOMAIN new = DOMAIN tiles /\ \A c \in DOMAIN new : new[c] = RowOf(f.type, tiles[c])
  BY <1>1 DEF Stored, RowOf, Normalized
<1>7. \A id \in DOMAIN im : \E d \in Data : id = Md5(d) /\ im[id] = d
  <2> SUFFICES ASSUME NEW id \in DOMAIN im PROVE \E d \in Data : id = Md5(d) /\ im[id] = d
    OBVIOUS
  <2> DEFINE c == CHOOSE c \in DOMAIN sel : sel[c].hash = id
  <2>1. /\ id \in {sel[e].hash : e \in DOMAIN sel} /\ im[id] = sel[c].data
    BY DEF Images
  <2>2. \E e \in DOMAIN sel : sel[e].hash = id
    BY <2>1
  <2>3. c \in DOMAIN sel /\ sel[c].hash = id
    BY <2>2
  <2> QED BY <2>1, <2>3
<1>8. \A c \in DOMAIN tiles : Md5(tiles[c]) \in DOMAIN im
  <2> SUFFICES ASSUME NEW c \in DOMAIN tiles PROVE Md5(tiles[c]) \in DOMAIN im
    OBVIOUS
  <2>1. sel[c].hash = Md5(tiles[c]) /\ sel[c].hash # Null
    BY Md5Facts
  <2> QED BY <2>1 DEF Images
<1> HIDE DEF im, new, sel
<1>9. r = Mixed(mode, f.rows, new)
  BY <1>3, InsertIs
<1>10. f.type = "normalized" => i = Mixed(mode, f.images, im)
  BY <1>3, InsertIs DEF Normalized
<1>11. f.type # "normalized" => i = f.images
  BY <1>1, <1>3 DEF Normalized
<1> DEFINE mixed == Mixed(mode, Tiles(f), tiles)
<1>12. IsMixed(mixed, mode, Tiles(f), tiles)
  BY MixedIs
<1>13. IsMixed(r, mode, f.rows, new)
  BY <1>9, MixedIs
<1> HIDE DEF mixed
<1>14. /\ DOMAIN Tiles(f) = DOMAIN f.rows
       /\ \A c \in DOMAIN f.rows :
            /\ Tiles(f)[c] \in Data /\ f.rows[c] = RowOf(f.type, Tiles(f)[c])
            /\ f.type = "normalized" => Md5(Tiles(f)[c]) \in DOMAIN f.images
  BY Shown
<1>15. /\ DOMAIN mixed = DOMAIN r
       /\ \A c \in DOMAIN r : mixed[c] \in Data /\ r[c] = RowOf(f.type, mixed[c])
  BY <1>6, <1>12, <1>13, <1>14 DEF IsMixed
<1>16. f.type = "normalized" =>
         /\ DOMAIN i = DOMAIN f.images \cup DOMAIN im
         /\ \A id \in DOMAIN i : i[id] = f.images[id] \/ i[id] = im[id]
         /\ \A id \in DOMAIN i : \E d \in Data : id = Md5(d) /\ i[id] = d
  <2> SUFFICES ASSUME f.type = "normalized"
               PROVE  /\ DOMAIN i = DOMAIN f.images \cup DOMAIN im
                      /\ \A id \in DOMAIN i : i[id] = f.images[id] \/ i[id] = im[id]
                      /\ \A id \in DOMAIN i : \E d \in Data : id = Md5(d) /\ i[id] = d
    OBVIOUS
  <2>1. /\ DOMAIN i = DOMAIN f.images \cup DOMAIN im
        /\ \A id \in DOMAIN i : \/ id \in DOMAIN f.images /\ i[id] = f.images[id]
                                \/ id \in DOMAIN im /\ i[id] = im[id]
    <3>1. IsMixed(i, mode, f.images, im)
      BY <1>10, MixedIs
    <3> QED BY <3>1 DEF IsMixed
  <2>2. ASSUME NEW id \in DOMAIN i PROVE \E d \in Data : id = Md5(d) /\ i[id] = d
    BY <1>7, <2>1 DEF FileOk
  <2> QED BY <2>1, <2>2
<1>17. FileOk(g)
  <2>1. DOMAIN g.rows \subseteq Coords
    BY <1>5, <1>6, <1>13 DEF FileOk, IsMixed
  <2>2. ASSUME NEW c \in DOMAIN g.rows
        PROVE  /\ g.rows[c] = RowOf(g.type, mixed[c]) /\ mixed[c] \in Data
               /\ g.type = "normalized" => Md5(mixed[c]) \in DOMAIN g.images
    <3>1. g.rows[c] = RowOf(g.type, mixed[c]) /\ mixed[c] \in Data
      BY <1>5, <1>15
    <3>2. \/ c \in DOMAIN f.rows /\ mixed[c] = Tiles(f)[c]
          \/ c \in DOMAIN tiles /\ mixed[c] = tiles[c]
      BY <1>5, <1>6, <1>12, <1>13, <1>14 DEF IsMixed
    <3>3. g.type = "normalized" => Md5(mixed[c]) \in DOMAIN g.images
      BY <1>5, <1>8, <1>14, <1>16, <3>2
    <3> QED BY <3>1, <3>3
  <2>3. ASSUME NEW id \in DOMAIN g.images PROVE \E d \in Data : id = Md5(d) /\ g.images[id] = d
    BY <1>5, <1>11, <1>16 DEF FileOk
  <2>4. DOMAIN g = DOMAIN NoFile /\ g.type \in {"flat", "flat-with-hash", "normalized"}
    BY <1>1, <1>5
  <2> QED BY <2>1, <2>2, <2>3, <2>4 DEF FileOk
<1>18. Tiles(g) = mixed
  <2>1. /\ DOMAIN Tiles(g) = DOMAIN r /\ Tiles(g) = [c \in DOMAIN Tiles(g) |-> Tiles(g)[c]]
        /\ \A c \in DOMAIN r : Tiles(g)[c] \in Data /\ r[c] = RowOf(f.type, Tiles(g)[c])
    BY <1>5, <1>17, Shown
  <2>2. ASSUME NEW c \in DOMAIN r PROVE Tiles(g)[c] = mixed[c]
    <3> DEFINE d == Tiles(g)[c]
               e == mixed[c]
    <3>1. d \in Data /\ e \in Data /\ RowOf(f.type, d) = RowOf(f.type, e)
      BY <1>15, <2>1
    <3> HIDE DEF d, e
    <3>2. d = e
      <4>1. f.type = "flat" => d = e
        BY <3>1, RowIs
      <4>2. f.type = "flat-with-hash" => d = e
        BY <3>1, RowIs
      <4>3. f.type = "normalized" => Md5(d) = Md5(e)
        BY <3>1, RowIs
      <4> QED BY <1>1, <3>1, <4>1, <4>2, <4>3, Md5Facts
    <3> QED BY <3>2 DEF d, e
  <2>3. mixed = [c \in DOMAIN mixed |-> mixed[c]]
    BY <1>12 DEF IsMap, IsMixed
  <2>4. DOMAIN Tiles(g) = DOMAIN mixed /\ \A c \in DOMAIN mixed : Tiles(g)[c] = mixed[c]
    BY <1>15, <2>1, <2>2
  <2> QED BY <2>1, <2>3, <2>4
<1> QED BY <1>5, <1>17, <1>18 DEF mixed

-----------------------------------------------------------------------------
(* The invariant.                                                          *)

Elements(s) == {s[i] : i \in 1..Len(s)}

Once(s) == \A i, j \in 1..Len(s) : s[i] = s[j] => i = j

\* What has not been received yet.
Waiting == Elements(todo) \cup fetching \cup Elements(channel)

\* What the receiver inserted.
OnFile(c) == DOMAIN Found(c) \ (Waiting \cup DOMAIN batch)

\* The tiles of the file when these of the source were inserted.
With(c, old, S) == Mixed(Mode(c), old, Only(Found(c), S))

\* Every requested tile is at one place.
InFlight ==
  /\ todo \in Seq(Asked(command)) /\ channel \in Seq(Asked(command))
  /\ fetching \subseteq Asked(command)
  /\ Once(todo) /\ Once(channel)
  /\ Elements(todo) \cap fetching = {} /\ Elements(todo) \cap Elements(channel) = {}
  /\ fetching \cap Elements(channel) = {}
  /\ IsMap(batch) /\ DOMAIN batch \subseteq DOMAIN Found(command) \ Waiting
  /\ \A t \in DOMAIN batch : batch[t] = Content[t]

AtRest == todo = <<>> /\ fetching = {} /\ channel = <<>> /\ batch = Empty

CopyInv ==
  /\ command \in Commands
  /\ copying \in {"idle", "tiles", "metadata"}
  /\ output = NoFile \/ FileOk(output)
  /\ IsMap(before) /\ DOMAIN before \subseteq Coords /\ \A t \in DOMAIN before : before[t] \in Data
  /\ copying # "idle" => outcome = "none" /\ FileOk(output)
  /\ copying # "tiles" => AtRest
  /\ copying = "tiles" => InFlight /\ Tiles(output) = With(command, before, OnFile(command))
  /\ copying = "metadata" \/ outcome = "ok" => Tiles(output) = With(command, before, DOMAIN Found(command))
  /\ \E S \in SUBSET DOMAIN Found(command) : Tiles(output) = With(command, before, S)
  /\ zoomMeta \in [min : Nat \cup {Unset}, max : Nat \cup {Unset}]
  /\ ZoomsEnclose

-----------------------------------------------------------------------------
(* What is asked for and found.                                            *)

LEMMA FoundIs ==
  ASSUME CopyFits, NEW c
  PROVE  /\ Asked(c) \subseteq Coords
         /\ DOMAIN Found(c) = {t \in Asked(c) : Content[t] # Nothing}
         /\ \A t \in DOMAIN Found(c) : Found(c)[t] = Content[t] /\ Content[t] \in Data
         /\ IsMap(Found(c))
<1>1. Asked(c) \subseteq Coords
  BY DEF Asked
<1>2. \A t \in Coords : Content[t] \in Data \cup {Nothing}
  BY DEF CopyFits
<1> QED BY <1>1, <1>2 DEF Found, IsMap

LEMMA ModeIs ==
  ASSUME CopyFits, NEW c \in Commands
  PROVE  Mode(c) \in Modes
  BY DEF CopyFits, Mode, Modes

LEMMA OnlyIs ==
  ASSUME NEW f, NEW S
  PROVE  /\ IsMap(Only(f, S)) /\ DOMAIN Only(f, S) = DOMAIN f \cap S
         /\ \A x \in DOMAIN f \cap S : Only(f, S)[x] = f[x]
  BY DEF Only, IsMap

IsWith(m, c, old, S) ==
  /\ IsMap(m) /\ DOMAIN m = DOMAIN old \cup S
  /\ \A t \in DOMAIN old \cup S :
       m[t] = IF t \in S /\ (t \in DOMAIN old => Mode(c) # "ignore") THEN Content[t] ELSE old[t]

LEMMA WithIs ==
  ASSUME CopyFits, NEW c, NEW old, NEW S \in SUBSET DOMAIN Found(c)
  PROVE  IsWith(With(c, old, S), c, old, S)
<1> DEFINE F == Only(Found(c), S)
           m == Mixed(Mode(c), old, F)
<1>1. IsMixed(m, Mode(c), old, F)
  BY MixedIs
<1>2. DOMAIN F = S /\ \A t \in S : F[t] = Content[t]
  <2>1. DOMAIN F = DOMAIN Found(c) \cap S /\ \A t \in DOMAIN Found(c) \cap S : F[t] = Found(c)[t]
    BY OnlyIs
  <2> HIDE DEF F
  <2> QED BY <2>1, FoundIs
<1>3. With(c, old, S) = m
  BY DEF With
<1> HIDE DEF m, F
<1>4. IsMap(m) /\ DOMAIN m = DOMAIN old \cup S
  BY <1>1, <1>2 DEF IsMixed
<1>5. ASSUME NEW t \in DOMAIN old \cup S
      PROVE  m[t] = IF t \in S /\ (t \in DOMAIN old => Mode(c) # "ignore") THEN Content[t] ELSE old[t]
  BY <1>1, <1>2 DEF IsMixed
<1> QED BY <1>3, <1>4, <1>5 DEF IsWith

\* Tiles of the source more.
LEMMA WithMore ==
  ASSUME CopyFits, NEW c, NEW old, NEW S \in SUBSET DOMAIN Found(c),
         NEW tiles, DOMAIN tiles \subseteq DOMAIN Found(c), \A t \in DOMAIN tiles : tiles[t] = Content[t]
  PROVE  Mixed(Mode(c), With(c, old, S), tiles) = With(c, old, S \cup DOMAIN tiles)
<1> DEFINE D == DOMAIN tiles
           f == With(c, old, S)
           g == With(c, old, S \cup D)
           m == Mixed(Mode(c), f, tiles)
<1>1. IsWith(f, c, old, S)
  BY WithIs
<1>2. IsWith(g, c, old, S \cup D)
  <2> DEFINE U == S \cup D
  <2>1. U \in SUBSET DOMAIN Found(c)
    OBVIOUS
  <2> HIDE DEF U
  <2>2. IsWith(With(c, old, U), c, old, U)
    BY <2>1, WithIs
  <2> QED BY <2>2 DEF U
<1> HIDE DEF f, g
<1>3. IsMixed(m, Mode(c), f, tiles)
  BY MixedIs
<1> HIDE DEF m
<1>4. DOMAIN m = DOMAIN g
  BY <1>1, <1>2, <1>3 DEF IsMixed, IsWith
<1>5. ASSUME NEW t \in DOMAIN g PROVE m[t] = g[t]
  <2>1. CASE t \in DOMAIN f \ D
    BY <1>1, <1>2, <1>3, <2>1 DEF IsMixed, IsWith
  <2>2. CASE t \in D \ DOMAIN f
    BY <1>1, <1>2, <1>3, <2>2 DEF IsMixed, IsWith
  <2>3. CASE t \in DOMAIN f \cap D
    <3>1. m[t] = IF Mode(c) = "ignore" THEN f[t] ELSE Content[t]
      BY <1>3, <2>3 DEF IsMixed, IsWith
    <3> QED BY <1>1, <1>2, <2>3, <3>1 DEF IsWith
  <2> QED BY <1>1, <1>2, <2>1, <2>2, <2>3 DEF IsWith
<1>6. m = g
  BY <1>2, <1>3, <1>4, <1>5 DEF IsMap, IsMixed, IsWith
<1> QED BY <1>6 DEF m, g, f

LEMMA WithNone ==
  ASSUME CopyFits, NEW c, NEW old, IsMap(old)
  PROVE  With(c, old, {}) = old
<1>1. IsWith(With(c, old, {}), c, old, {})
  BY WithIs
<1> QED BY <1>1 DEF IsMap, IsWith

LEMMA OneTaken ==
  ASSUME NEW S, NEW s \in Seq(S), s # <<>>, Once(s)
  PROVE  /\ Head(s) \in Elements(s) /\ Tail(s) \in Seq(S) /\ Once(Tail(s))
         /\ Elements(Tail(s)) = Elements(s) \ {Head(s)}
<1>1. /\ Len(s) \in Nat \ {0} /\ Head(s) = s[1] /\ Tail(s) \in Seq(S) /\ Len(Tail(s)) = Len(s) - 1
      /\ \A i \in 1..(Len(s) - 1) : Tail(s)[i] = s[i + 1]
  OBVIOUS
<1>2. Head(s) \in Elements(s)
  BY <1>1 DEF Elements
<1>3. Once(Tail(s))
  <2> SUFFICES ASSUME NEW i \in 1..(Len(s) - 1), NEW j \in 1..(Len(s) - 1), s[i + 1] = s[j + 1]
               PROVE  i = j
    BY <1>1 DEF Once
  <2>1. i + 1 \in 1..Len(s) /\ j + 1 \in 1..Len(s)
    BY <1>1
  <2>2. i + 1 = j + 1
    BY <2>1 DEF Once
  <2> QED BY <2>2
<1>4. ASSUME NEW x PROVE x \in Elements(Tail(s)) <=> x \in Elements(s) /\ x # Head(s)
  <2>1. ASSUME NEW i \in 1..(Len(s) - 1), x = Tail(s)[i] PROVE x \in Elements(s) /\ x # Head(s)
    <3>1. x = s[i + 1] /\ i + 1 \in 1..Len(s) /\ i + 1 # 1 /\ 1 \in 1..Len(s)
      BY <1>1, <2>1
    <3> QED BY <1>1, <3>1 DEF Once, Elements
  <2>2. ASSUME NEW i \in 1..Len(s), x = s[i], x # Head(s) PROVE x \in Elements(Tail(s))
    <3>1. i - 1 \in 1..(Len(s) - 1) /\ (i - 1) + 1 = i
      BY <1>1, <2>2
    <3>2. x = Tail(s)[i - 1]
      BY <1>1, <2>2, <3>1
    <3> QED BY <1>1, <3>1, <3>2 DEF Elements
  <2> QED BY <1>1, <2>1, <2>2 DEF Elements
<1> QED BY <1>1, <1>2, <1>3, <1>4

LEMMA OneAdded ==
  ASSUME NEW S, NEW s \in Seq(S), NEW x \in S, x \notin Elements(s), Once(s)
  PROVE  /\ Append(s, x) \in Seq(S) /\ Once(Append(s, x))
         /\ Elements(Append(s, x)) = Elements(s) \cup {x}
<1> DEFINE t == Append(s, x)
<1>1. /\ Len(s) \in Nat /\ t \in Seq(S) /\ Len(t) = Len(s) + 1 /\ t[Len(s) + 1] = x
      /\ \A i \in 1..Len(s) : t[i] = s[i]
  OBVIOUS
<1> HIDE DEF t
<1>2. \A i : i \in 1..Len(t) <=> i \in 1..Len(s) \/ i = Len(s) + 1
  BY <1>1
<1>3. \A i \in 1..Len(s) : s[i] \in Elements(s) /\ s[i] # x /\ i # Len(s) + 1
  BY <1>1 DEF Elements
<1>4. Once(t)
  BY <1>1, <1>2, <1>3 DEF Once
<1>5. Elements(t) = Elements(s) \cup {x}
  <2>1. \A y : y \in Elements(t) <=> \E i \in 1..Len(t) : y = t[i]
    BY DEF Elements
  <2>2. \A y : y \in Elements(s) <=> \E i \in 1..Len(s) : y = s[i]
    BY DEF Elements
  <2> QED BY <1>1, <1>2, <2>1, <2>2
<1> QED BY <1>1, <1>4, <1>5 DEF t

LEMMA LeastIs ==
  ASSUME NEW S \in SUBSET Nat, S # {}
  PROVE  LeastOf(S) \in S /\ \A y \in S : LeastOf(S) <= y
<1>1. \E x \in S : \A y \in S : x <= y
  <2> DEFINE less == OpToRel(<, Nat)
  <2>1. IsWellFoundedOn(less, Nat)
    BY NatLessThanWellFounded
  <2>2. \A x, y \in Nat : <<y, x>> \in less <=> y < x
    BY DEF OpToRel
  <2> HIDE DEF less
  <2>3. \E x \in S : \A y \in S : <<y, x>> \notin less
    BY <2>1, WFMin
  <2>4. PICK x \in S : \A y \in S : <<y, x>> \notin less
    BY <2>3
  <2>5. ASSUME NEW y \in S PROVE x <= y
    <3>1. x \in Nat /\ y \in Nat /\ ~(y < x)
      BY <2>2, <2>4
    <3> QED BY <3>1
  <2> QED BY <2>5
<1> QED BY <1>1 DEF LeastOf

LEMMA GreatestIs ==
  ASSUME NEW S \in SUBSET (0..255), S # {}
  PROVE  GreatestOf(S) \in S /\ \A y \in S : GreatestOf(S) >= y
<1> DEFINE Q == {255 - x : x \in S}
<1>1. Q \in SUBSET Nat /\ Q # {}
  <2>1. \A x \in S : 255 - x \in Nat /\ 255 - x \in Q
    OBVIOUS
  <2>2. \A q \in Q : \E x \in S : q = 255 - x
    OBVIOUS
  <2> HIDE DEF Q
  <2> QED BY <2>1, <2>2, ZenonT(60)
<1> DEFINE m == LeastOf(Q)
<1>2. m \in Q /\ \A y \in Q : m <= y
  <2> HIDE DEF Q
  <2> QED BY <1>1, LeastIs
<1> HIDE DEF m
<1>3. PICK x \in S : m = 255 - x
  BY <1>2
<1>4. ASSUME NEW y \in S PROVE x >= y
  <2>1. 255 - y \in Q
    OBVIOUS
  <2>2. m <= 255 - y
    BY <1>2, <2>1
  <2> QED BY <1>3, <2>2
<1>5. \E z \in S : \A y \in S : z >= y
  BY <1>4
<1> QED BY <1>5 DEF GreatestOf

\* The zoom levels in the metadata.
ZoomMetas == [min : Nat \cup {Unset}, max : Nat \cup {Unset}]

Encloses(meta, tiles) ==
  \A t \in DOMAIN tiles : meta.min # Unset /\ meta.min <= t[1] /\ t[1] <= meta.max

LEMMA Updated ==
  ASSUME CopyFits, NEW meta \in ZoomMetas, NEW tiles, DOMAIN tiles \subseteq Coords,
         NEW update \in {"reset", "grow-only", "skip"}
  PROVE  /\ UpdatedZooms(meta, tiles, update) \in ZoomMetas
         /\ update # "skip" \/ Encloses(meta, tiles) => Encloses(UpdatedZooms(meta, tiles, update), tiles)
<1> DEFINE zooms == {c[1] : c \in DOMAIN tiles}
<1>1. \A c \in DOMAIN tiles : c[1] \in 0..255 /\ c[1] \in zooms
  BY DEF CopyFits
<1>2. zooms \in SUBSET (0..255) /\ zooms \in SUBSET Nat /\ (zooms = {} <=> DOMAIN tiles = {})
  <2>1. \A x : x \in zooms <=> \E c \in DOMAIN tiles : x = c[1]
    OBVIOUS
  <2> HIDE DEF zooms
  <2>2. \A x \in zooms : x \in 0..255 /\ x \in Nat
    BY <1>1, <2>1
  <2> QED BY <2>1, <2>2
<1>u. Unset \notin Nat /\ meta.min \in Nat \cup {Unset} /\ meta.max \in Nat \cup {Unset}
  BY DEF CopyFits, ZoomMetas
<1>3. CASE zooms = {}
  <2>1. UpdatedZooms(meta, tiles, update) = IF update = "reset" THEN NoMeta ELSE meta
    BY <1>3 DEF UpdatedZooms
  <2>2. NoMeta \in ZoomMetas
    BY DEF NoMeta, ZoomMetas
  <2> QED BY <1>2, <1>3, <2>1, <2>2 DEF Encloses
<1>4. CASE zooms # {}
  <2> DEFINE least == LeastOf(zooms)
             greatest == GreatestOf(zooms)
             low == SetZoom(meta.min, FALSE, least, update)
             high == SetZoom(meta.max, TRUE, greatest, update)
             new == [min |-> low, max |-> high]
  <2>1. least \in zooms /\ (\A y \in zooms : least <= y)
    <3> HIDE DEF zooms
    <3> QED BY <1>2, <1>4, LeastIs
  <2>2. greatest \in zooms /\ \A y \in zooms : greatest >= y
    <3> HIDE DEF zooms
    <3> QED BY <1>2, <1>4, GreatestIs
  <2>3. UpdatedZooms(meta, tiles, update) = new
    BY <1>4 DEF UpdatedZooms
  <2> HIDE DEF least, greatest
  <2>4. least \in Nat /\ greatest \in Nat
    BY <1>2, <2>1, <2>2
  <2>5. /\ low \in Nat
        /\ meta.min \in Nat /\ update = "skip" => low = meta.min
        /\ update # "skip" \/ meta.min = Unset => low <= least
    BY <1>u, <2>4 DEF SetZoom
  <2>6. /\ high \in Nat
        /\ meta.max \in Nat /\ update = "skip" => high = meta.max
        /\ update # "skip" \/ meta.max = Unset => high >= greatest
    BY <1>u, <2>4 DEF SetZoom
  <2> HIDE DEF low, high
  <2>7. new \in ZoomMetas /\ new.min = low /\ new.max = high
    BY <2>5, <2>6 DEF ZoomMetas
  <2> HIDE DEF new, zooms
  <2>8. ASSUME update # "skip" \/ Encloses(meta, tiles), NEW t \in DOMAIN tiles
        PROVE  low # Unset /\ low <= t[1] /\ t[1] <= high
    <3>1. least <= t[1] /\ t[1] <= greatest /\ t[1] \in Nat
      BY <1>1, <2>1, <2>2
    <3>2. low # Unset
      BY <1>u, <2>5
    <3>3. CASE update # "skip"
      BY <2>4, <2>5, <2>6, <3>1, <3>2, <3>3
    <3>4. CASE update = "skip" /\ Encloses(meta, tiles)
      <4>1. meta.min # Unset /\ meta.min <= t[1] /\ t[1] <= meta.max
        BY <3>4 DEF Encloses
      <4>2. meta.min \in Nat /\ low = meta.min
        BY <1>u, <2>5, <3>4, <4>1
      <4>3. t[1] <= high
        BY <1>u, <2>4, <2>6, <3>1, <3>4, <4>1
      <4> QED BY <3>2, <4>1, <4>2, <4>3
    <3> QED BY <2>8, <3>3, <3>4
  <2> QED BY <2>3, <2>7, <2>8 DEF Encloses
<1> QED BY <1>3, <1>4

LEMMA FirstZooms ==
  ASSUME CopyFits, NEW c \in Commands
  PROVE  [min |-> LeastOf(ZoomsOf(c)), max |-> GreatestOf(ZoomsOf(c))] \in ZoomMetas
<1>1. ZoomsOf(c) \in SUBSET (0..255) /\ ZoomsOf(c) \in SUBSET Nat /\ ZoomsOf(c) # {}
  <2>1. DOMAIN c.zooms # {} /\ \A z \in DOMAIN c.zooms : c.zooms[z] \in 0..255
    BY DEF CopyFits
  <2>2. \A x : x \in ZoomsOf(c) <=> \E z \in DOMAIN c.zooms : x = c.zooms[z]
    BY DEF ZoomsOf
  <2>3. \A x \in ZoomsOf(c) : x \in 0..255 /\ x \in Nat
    BY <2>1, <2>2
  <2> QED BY <2>1, <2>2, <2>3
<1> DEFINE zooms == ZoomsOf(c)
<1> HIDE DEF zooms
<1>2. LeastOf(zooms) \in zooms
  BY <1>1, LeastIs DEF zooms
<1>3. GreatestOf(zooms) \in zooms
  BY <1>1, GreatestIs DEF zooms
<1> QED BY <1>1, <1>2, <1>3 DEF ZoomMetas, zooms

-----------------------------------------------------------------------------
(* The steps.                                                              *)

\* The tiles of the copy's command go their way.
LEMMA TilesKeep ==
  ASSUME CopyFits, CopyInv, copying = "tiles", copying' = "tiles", command' = command,
         before' = before, zoomMeta' = zoomMeta, outcome' = outcome, FileOk(output'), InFlight',
         Tiles(output') = With(command, before, OnFile(command)')
  PROVE  CopyInv'
<1>1. outcome = "none"
  BY DEF CopyInv
<1>2. OnFile(command)' \in SUBSET DOMAIN Found(command)
  BY DEF OnFile
<1>3. ZoomsEnclose'
  BY <1>1 DEF ZoomsEnclose
<1>4. \E S \in SUBSET DOMAIN Found(command) : Tiles(output') = With(command, before, S)
  BY <1>2
<1>5. outcome' = "none"
  BY <1>1
<1>6. /\ command \in Commands
      /\ IsMap(before) /\ DOMAIN before \subseteq Coords /\ \A t \in DOMAIN before : before[t] \in Data
      /\ zoomMeta \in [min : Nat \cup {Unset}, max : Nat \cup {Unset}]
  BY DEF CopyInv
<1>7. (Tiles(output) = With(command, before, OnFile(command)))'
  BY DEF With, Found, Asked
<1>8. (\E S \in SUBSET DOMAIN Found(command) : Tiles(output) = With(command, before, S))'
  BY <1>4 
<1> QED BY <1>1, <1>3, <1>5, <1>6, <1>7, <1>8 DEF CopyInv

LEMMA EndKeeps ==
  ASSUME CopyInv, EndedWith("error"), UNCHANGED <<command, output, before, zoomMeta>>
  PROVE  CopyInv'
<1>1. /\ copying' = "idle" /\ outcome' = "error"
      /\ todo' = <<>> /\ fetching' = {} /\ channel' = <<>> /\ batch' = Empty
  BY DEF EndedWith
<1>2. AtRest'
  BY <1>1 DEF AtRest
<1>3. ZoomsEnclose'
  BY <1>1 DEF ZoomsEnclose
<1>4. (\E S \in SUBSET DOMAIN Found(command) : Tiles(output) = With(command, before, S))'
  <2>1. \E S \in SUBSET DOMAIN Found(command) : Tiles(output) = With(command, before, S)
    BY DEF CopyInv
  <2> QED BY <2>1
<1>5. /\ command \in Commands
      /\ output = NoFile \/ FileOk(output)
      /\ IsMap(before) /\ DOMAIN before \subseteq Coords /\ \A t \in DOMAIN before : before[t] \in Data
      /\ zoomMeta \in [min : Nat \cup {Unset}, max : Nat \cup {Unset}]
  BY DEF CopyInv
<1> QED BY <1>1, <1>2, <1>3, <1>4, <1>5 DEF CopyInv

LEMMA FetchKeeps ==
  ASSUME CopyFits, CopyInv, Fetch
  PROVE  CopyInv'
<1>1. /\ copying = "tiles" /\ todo # <<>>
      /\ fetching' = fetching \cup {Head(todo)} /\ todo' = Tail(todo)
      /\ UNCHANGED <<copying, outcome, command, output, zoomMeta, channel, batch, copied, before, runs>>
  BY DEF Fetch
<1>2. InFlight /\ Tiles(output) = With(command, before, OnFile(command)) /\ FileOk(output)
  BY <1>1 DEF CopyInv
<1> DEFINE h == Head(todo)
           A == Asked(command)
<1>3. /\ h \in Elements(todo) /\ Tail(todo) \in Seq(A) /\ Once(Tail(todo))
      /\ Elements(Tail(todo)) = Elements(todo) \ {h}
  <2>1. todo \in Seq(A) /\ Once(todo)
    BY <1>2 DEF InFlight
  <2> HIDE DEF A
  <2> QED BY <1>1, <2>1, OneTaken
<1>4. Elements(todo') = Elements(todo) \ {h} /\ todo' \in Seq(A) /\ Once(todo')
  BY <1>1, <1>3
<1>5. Elements(todo) \subseteq A
  BY <1>2 DEF InFlight, Elements
<1> HIDE DEF h
<1>6. Waiting' = Waiting
  BY <1>1, <1>3, <1>4 DEF Waiting, h
<1>7. (todo \in Seq(Asked(command)) /\ channel \in Seq(Asked(command)))'
  BY <1>1, <1>2, <1>4 DEF InFlight
<1>8. InFlight'
  BY <1>1, <1>2, <1>3, <1>4, <1>5, <1>6, <1>7 DEF InFlight, h
<1>9. OnFile(command)' = OnFile(command)
  BY <1>1, <1>6 DEF OnFile
<1> QED BY <1>1, <1>2, <1>8, <1>9, TilesKeep

LEMMA DeliverKeeps ==
  ASSUME CopyFits, CopyInv, NEW c \in Coords, Deliver(c)
  PROVE  CopyInv'
<1>1. /\ copying = "tiles" /\ c \in fetching
      /\ channel' = Append(channel, c) /\ fetching' = fetching \ {c}
      /\ UNCHANGED <<copying, outcome, command, output, zoomMeta, todo, batch, copied, before, runs>>
  BY DEF Deliver
<1>2. InFlight /\ Tiles(output) = With(command, before, OnFile(command)) /\ FileOk(output)
  BY <1>1 DEF CopyInv
<1> DEFINE A == Asked(command)
<1>3. /\ Append(channel, c) \in Seq(A) /\ Once(Append(channel, c))
      /\ Elements(Append(channel, c)) = Elements(channel) \cup {c}
  <2>1. channel \in Seq(A) /\ Once(channel) /\ c \in A /\ c \notin Elements(channel)
    BY <1>1, <1>2 DEF InFlight
  <2> HIDE DEF A
  <2> QED BY <2>1, OneAdded
<1>4. Elements(channel') = Elements(channel) \cup {c} /\ channel' \in Seq(A) /\ Once(channel')
  BY <1>1, <1>3
<1>6. Waiting' = Waiting
  BY <1>1, <1>4 DEF Waiting
<1>7. (todo \in Seq(Asked(command)) /\ channel \in Seq(Asked(command)))'
  BY <1>1, <1>2, <1>4 DEF InFlight
<1>8. InFlight'
  BY <1>1, <1>2, <1>4, <1>6, <1>7 DEF InFlight
<1>9. OnFile(command)' = OnFile(command)
  BY <1>1, <1>6 DEF OnFile
<1> QED BY <1>1, <1>2, <1>8, <1>9, TilesKeep

\* A batch that is inserted is in the file, and nothing is changed when that fails.
LEMMA SavedIs ==
  ASSUME CopyFits, CopyInv, copying = "tiles", NEW tiles, IsMap(tiles),
         DOMAIN tiles \subseteq DOMAIN Found(command),
         \A t \in DOMAIN tiles : tiles[t] = Content[t], Saved(tiles)
  PROVE  \/ EndedWith("error") /\ output' = output
         \/ /\ FileOk(output') /\ batch' = Empty /\ UNCHANGED <<outcome, todo, fetching>>
            /\ Tiles(output') = With(command, before, OnFile(command) \cup DOMAIN tiles)
<1> DEFINE files == InsertTiles(output, tiles, Mode(command))
<1>1. \/ EndedWith("error") /\ output' = output
      \/ output' \in files /\ batch' = Empty /\ UNCHANGED <<outcome, todo, fetching>>
  BY DEF Saved
<1>2. ASSUME output' \in files
      PROVE  /\ FileOk(output')
             /\ Tiles(output') = With(command, before, OnFile(command) \cup DOMAIN tiles)
  <2>1. /\ FileOk(output) /\ Mode(command) \in Modes
        /\ Tiles(output) = With(command, before, OnFile(command))
    BY ModeIs DEF CopyInv
  <2>2. DOMAIN tiles \subseteq Coords /\ \A t \in DOMAIN tiles : tiles[t] \in Data
    BY FoundIs
  <2> DEFINE f == output
             g == output'
             mode == Mode(command)
             S == OnFile(command)
  <2>3. FileOk(f) /\ mode \in Modes /\ g \in InsertTiles(f, tiles, mode)
    BY <1>2, <2>1
  <2> HIDE DEF f, g, mode
  <2>4. FileOk(g) /\ Tiles(g) = Mixed(mode, Tiles(f), tiles)
    BY <2>2, <2>3, Inserted
  <2>5. S \in SUBSET DOMAIN Found(command)
    BY DEF OnFile
  <2> HIDE DEF S
  <2>6. Mixed(Mode(command), With(command, before, S), tiles) = With(command, before, S \cup DOMAIN tiles)
    BY <2>5, WithMore
  <2> QED BY <2>1, <2>4, <2>6 DEF f, g, mode, S
<1> QED BY <1>1, <1>2

LEMMA ReceiveKeeps ==
  ASSUME CopyFits, CopyInv, NEW timer \in BOOLEAN, Receive(timer)
  PROVE  CopyInv'
<1> DEFINE c == Head(channel)
           one == [x \in {c} |-> Content[c]]
           tiles == Overlay(batch, one)
           A == Asked(command)
<1>1. /\ copying = "tiles" /\ channel # <<>>
      /\ UNCHANGED <<command, zoomMeta, before, runs>>
  BY DEF Receive
<1>2. \/ /\ Content[c] = Nothing /\ channel' = Tail(channel)
         /\ UNCHANGED <<copying, outcome, output, todo, fetching, batch, copied>>
      \/ /\ Content[c] # Nothing /\ Saved(tiles)
         /\ outcome' # "error" => channel' = Tail(channel) /\ UNCHANGED copying
      \/ /\ Content[c] # Nothing /\ batch' = tiles /\ channel' = Tail(channel)
         /\ UNCHANGED <<copying, outcome, output, todo, fetching>>
  BY DEF Receive
<1>3. /\ InFlight /\ Tiles(output) = With(command, before, OnFile(command)) /\ FileOk(output)
      /\ outcome = "none"
  BY <1>1 DEF CopyInv
<1>4. /\ c \in Elements(channel) /\ Tail(channel) \in Seq(A) /\ Once(Tail(channel))
      /\ Elements(Tail(channel)) = Elements(channel) \ {c}
  <2>1. channel \in Seq(A) /\ Once(channel)
    BY <1>3 DEF InFlight
  <2> HIDE DEF A
  <2> QED BY <1>1, <2>1, OneTaken
<1>5. c \in A /\ c \notin Elements(todo) /\ c \notin fetching /\ c \in Waiting
  BY <1>3, <1>4 DEF InFlight, Elements, Waiting
<1>6. /\ IsMap(tiles) /\ DOMAIN tiles = DOMAIN batch \cup {c}
      /\ tiles[c] = Content[c] /\ \A t \in DOMAIN batch : tiles[t] = Content[t]
  BY <1>3 DEF Overlay, IsMap, InFlight
<1> HIDE DEF c, one, tiles
<1>7. c \in DOMAIN Found(command) <=> Content[c] # Nothing
  BY <1>5, FoundIs
<1>8. ASSUME channel' = Tail(channel), UNCHANGED <<copying, outcome, todo, fetching>>,
             FileOk(output'), IsMap(batch'), DOMAIN batch' \subseteq DOMAIN batch \cup {c},
             DOMAIN batch' \subseteq DOMAIN Found(command), \A t \in DOMAIN batch' : batch'[t] = Content[t],
             Tiles(output') = With(command, before, OnFile(command)')
      PROVE  CopyInv'
  <2>1. Waiting' = Waiting \ {c}
    BY <1>4, <1>5, <1>8 DEF Waiting
  <2>2. (todo \in Seq(Asked(command)) /\ channel \in Seq(Asked(command)))'
    BY <1>1, <1>3, <1>4, <1>8 DEF InFlight
  <2>3. DOMAIN batch' \subseteq DOMAIN Found(command) \ Waiting'
    BY <1>3, <1>8, <2>1 DEF InFlight
  <2>4. Once(channel') /\ Elements(channel') \subseteq Elements(channel)
    BY <1>4, <1>8
  <2>5. InFlight'
    BY <1>1, <1>3, <1>8, <2>2, <2>3, <2>4 DEF InFlight
  <2> QED BY <1>1, <1>8, <2>5, TilesKeep
<1>9. CASE Content[c] = Nothing /\ channel' = Tail(channel)
           /\ UNCHANGED <<copying, outcome, output, todo, fetching, batch, copied>>
  <2>1. OnFile(command)' = OnFile(command)
    <3>1. Waiting' = Waiting \ {c}
      BY <1>4, <1>5, <1>9 DEF Waiting
    <3> QED BY <1>1, <1>7, <1>9, <3>1 DEF OnFile
  <2>2. IsMap(batch) /\ DOMAIN batch \subseteq DOMAIN Found(command) /\ \A t \in DOMAIN batch : batch[t] = Content[t]
    BY <1>3 DEF InFlight
  <2> QED BY <1>3, <1>8, <1>9, <2>1, <2>2
<1>10. CASE Content[c] # Nothing /\ batch' = tiles /\ channel' = Tail(channel)
            /\ UNCHANGED <<copying, outcome, output, todo, fetching>>
  <2>1. OnFile(command)' = OnFile(command)
    <3>1. Waiting' = Waiting \ {c}
      BY <1>4, <1>5, <1>10 DEF Waiting
    <3> QED BY <1>1, <1>5, <1>6, <1>10, <3>1 DEF OnFile
  <2>2. DOMAIN tiles \subseteq DOMAIN Found(command) /\ \A t \in DOMAIN tiles : tiles[t] = Content[t]
    BY <1>3, <1>6, <1>7, <1>10 DEF InFlight
  <2> QED BY <1>3, <1>6, <1>8, <1>10, <2>1, <2>2
<1>11. CASE Content[c] # Nothing /\ Saved(tiles)
            /\ (outcome' # "error" => channel' = Tail(channel) /\ UNCHANGED copying)
  <2>1. DOMAIN tiles \subseteq DOMAIN Found(command) /\ \A t \in DOMAIN tiles : tiles[t] = Content[t]
    BY <1>3, <1>6, <1>7, <1>11 DEF InFlight
  <2>2. \/ EndedWith("error") /\ output' = output
        \/ /\ FileOk(output') /\ batch' = Empty /\ UNCHANGED <<outcome, todo, fetching>>
           /\ Tiles(output') = With(command, before, OnFile(command) \cup DOMAIN tiles)
    BY <1>1, <1>6, <1>11, <2>1, SavedIs
  <2>3. CASE EndedWith("error") /\ output' = output
    BY <1>1, <2>3, EndKeeps
  <2>4. CASE /\ FileOk(output') /\ batch' = Empty /\ UNCHANGED <<outcome, todo, fetching>>
             /\ Tiles(output') = With(command, before, OnFile(command) \cup DOMAIN tiles)
    <3>1. channel' = Tail(channel) /\ UNCHANGED copying
      BY <1>3, <1>11, <2>4
    <3>2. IsMap(Empty) /\ DOMAIN Empty = {}
      BY DEF Empty, IsMap
    <3>3. OnFile(command)' = OnFile(command) \cup DOMAIN tiles
      <4>1. Waiting' = Waiting \ {c}
        BY <1>4, <1>5, <2>4, <3>1 DEF Waiting
      <4>2. DOMAIN batch \cap Waiting = {}
        BY <1>3 DEF InFlight
      <4>3. DOMAIN batch' = {}
        BY <2>4, <3>2
      <4> QED BY <1>1, <1>5, <1>6, <2>1, <4>1, <4>2, <4>3 DEF OnFile
    <3> QED BY <1>8, <2>4, <3>1, <3>2, <3>3
  <2> QED BY <2>2, <2>3, <2>4
<1> QED BY <1>2, <1>9, <1>10, <1>11

LEMMA SaveRestKeeps ==
  ASSUME CopyFits, CopyInv, SaveRest
  PROVE  CopyInv'
<1>1. /\ copying = "tiles" /\ todo = <<>> /\ fetching = {} /\ channel = <<>> /\ Saved(batch)
      /\ outcome' # "error" => copying' = "metadata" /\ UNCHANGED channel
      /\ UNCHANGED <<command, zoomMeta, copied, before, runs>>
  BY DEF SaveRest
<1>2. InFlight /\ outcome = "none"
  BY <1>1 DEF CopyInv
<1>3. \/ EndedWith("error") /\ output' = output
      \/ /\ FileOk(output') /\ batch' = Empty /\ UNCHANGED <<outcome, todo, fetching>>
         /\ Tiles(output') = With(command, before, OnFile(command) \cup DOMAIN batch)
  BY <1>1, <1>2, SavedIs DEF InFlight
<1>4. CASE EndedWith("error") /\ output' = output
  BY <1>1, <1>4, EndKeeps
<1>5. CASE /\ FileOk(output') /\ batch' = Empty /\ UNCHANGED <<outcome, todo, fetching>>
           /\ Tiles(output') = With(command, before, OnFile(command) \cup DOMAIN batch)
  <2>1. copying' = "metadata" /\ channel' = channel /\ outcome' = "none"
    BY <1>1, <1>2, <1>5
  <2>2. OnFile(command) \cup DOMAIN batch = DOMAIN Found(command)
    <3>1. Waiting = {}
      BY <1>1 DEF Waiting, Elements
    <3> QED BY <1>2, <3>1 DEF OnFile, InFlight
  <2>3. AtRest'
    BY <1>1, <1>5, <2>1 DEF AtRest
  <2>4. (Tiles(output) = With(command, before, DOMAIN Found(command)))'
    BY <1>1, <1>5, <2>2
  <2>5. (\E S \in SUBSET DOMAIN Found(command) : Tiles(output) = With(command, before, S))'
    BY <2>4
  <2>6. ZoomsEnclose'
    BY <2>1 DEF ZoomsEnclose
  <2>7. /\ command' \in Commands
        /\ (IsMap(before) /\ DOMAIN before \subseteq Coords /\ \A t \in DOMAIN before : before[t] \in Data)'
        /\ zoomMeta' \in [min : Nat \cup {Unset}, max : Nat \cup {Unset}]
    BY <1>1 DEF CopyInv
  <2> QED BY <1>5, <2>1, <2>3, <2>4, <2>5, <2>6, <2>7 DEF CopyInv
<1> QED BY <1>3, <1>4, <1>5

\* The aggregate hash is no tile.
LEMMA AggKeeps ==
  ASSUME NEW f, FileOk(f)
  PROVE  FileOk(UpdateAggHash(f)) /\ Tiles(UpdateAggHash(f)) = Tiles(f)
<1> DEFINE g == UpdateAggHash(f)
<1>1. DOMAIN g = DOMAIN f /\ g.type = f.type /\ g.rows = f.rows /\ g.images = f.images
  BY DEF UpdateAggHash, FileOk, NoFile
<1> HIDE DEF g
<1>2. FileOk(g)
  BY <1>1 DEF FileOk
<1>3. Tiles(g) = Tiles(f)
  BY <1>1 DEF Tiles
<1> QED BY <1>2, <1>3 DEF g

LEMMA FileCoords ==
  ASSUME CopyInv
  PROVE  DOMAIN Tiles(output) \subseteq Coords
<1>1. CASE output = NoFile
  BY <1>1, NothingShown
<1>2. CASE FileOk(output)
  <2> DEFINE f == output
  <2>1. FileOk(f)
    BY <1>2
  <2> HIDE DEF f
  <2>2. DOMAIN Tiles(f) \subseteq Coords
    BY <2>1, Shown DEF FileOk
  <2> QED BY <2>2 DEF f
<1> QED BY <1>1, <1>2 DEF CopyInv

LEMMA ZoomsUpdated ==
  ASSUME CopyFits, CopyInv, NEW update \in {"reset", "grow-only", "skip"}
  PROVE  /\ UpdatedZooms(zoomMeta, Tiles(output), update) \in ZoomMetas
         /\ update # "skip" \/ Encloses(zoomMeta, Tiles(output))
              => Encloses(UpdatedZooms(zoomMeta, Tiles(output), update), Tiles(output))
<1> DEFINE meta == zoomMeta
           tiles == Tiles(output)
<1>1. meta \in ZoomMetas /\ DOMAIN tiles \subseteq Coords
  BY FileCoords DEF CopyInv, ZoomMetas
<1> HIDE DEF meta, tiles
<1>2. /\ UpdatedZooms(meta, tiles, update) \in ZoomMetas
      /\ update # "skip" \/ Encloses(meta, tiles) => Encloses(UpdatedZooms(meta, tiles, update), tiles)
  BY <1>1, Updated
<1> QED BY <1>2 DEF meta, tiles

LEMMA FinishKeeps ==
  ASSUME CopyFits, CopyInv, Finish
  PROVE  CopyInv'
<1>1. /\ copying = "metadata"
      /\ zoomMeta' = UpdatedZooms(zoomMeta, Tiles(output), "grow-only")
      /\ output' = IF ~command.skipHash /\ copied THEN UpdateAggHash(output) ELSE output
      /\ EndedWith("ok")
      /\ UNCHANGED <<command, copied, before, runs>>
  BY DEF Finish
<1>2. /\ copying' = "idle" /\ outcome' = "ok"
      /\ todo' = <<>> /\ fetching' = {} /\ channel' = <<>> /\ batch' = Empty
  BY <1>1 DEF EndedWith
<1>3. FileOk(output) /\ Tiles(output) = With(command, before, DOMAIN Found(command))
  BY <1>1 DEF CopyInv
<1>4. FileOk(output') /\ Tiles(output') = Tiles(output)
  BY <1>1, <1>3, AggKeeps
<1>5. AtRest'
  BY <1>2 DEF AtRest
<1>6. zoomMeta' \in ZoomMetas /\ Encloses(zoomMeta', Tiles(output'))
  BY <1>1, <1>4, ZoomsUpdated
<1>7. ZoomsEnclose'
  BY <1>6 DEF ZoomsEnclose, Encloses
<1>8. (Tiles(output) = With(command, before, DOMAIN Found(command)))'
  BY <1>1, <1>3, <1>4
<1>9. (\E S \in SUBSET DOMAIN Found(command) : Tiles(output) = With(command, before, S))'
  BY <1>8
<1>10. /\ command' \in Commands
       /\ (IsMap(before) /\ DOMAIN before \subseteq Coords /\ \A t \in DOMAIN before : before[t] \in Data)'
  BY <1>1 DEF CopyInv
<1> QED BY <1>2, <1>4, <1>5, <1>6, <1>7, <1>8, <1>9, <1>10 DEF CopyInv, ZoomMetas

LEMMA FailKeeps ==
  ASSUME CopyInv, Fail
  PROVE  CopyInv'
  BY EndKeeps DEF Fail

LEMMA MetaUpdateKeeps ==
  ASSUME CopyFits, CopyInv, NEW update \in {"reset", "grow-only", "skip"}, MetaUpdate(update)
  PROVE  CopyInv'
<1>1. /\ copying = "idle"
      /\ zoomMeta' = UpdatedZooms(zoomMeta, Tiles(output), update)
      /\ UNCHANGED <<copying, outcome, command, output, todo, fetching, channel, batch,
                     copied, before, runs>>
  BY DEF MetaUpdate
<1>2. zoomMeta' \in ZoomMetas
  BY <1>1, ZoomsUpdated
<1>3. ZoomsEnclose'
  <2>1. outcome = "ok" => Encloses(zoomMeta, Tiles(output))
    BY DEF CopyInv, ZoomsEnclose, Encloses
  <2>2. outcome = "ok" => Encloses(zoomMeta', Tiles(output))
    BY <1>1, <2>1, ZoomsUpdated
  <2> QED BY <1>1, <2>2 DEF ZoomsEnclose, Encloses
<1>4. AtRest'
  BY <1>1 DEF CopyInv, AtRest
<1>5. (copying = "metadata" \/ outcome = "ok" => Tiles(output) = With(command, before, DOMAIN Found(command)))'
  BY <1>1 DEF CopyInv
<1>6. (\E S \in SUBSET DOMAIN Found(command) : Tiles(output) = With(command, before, S))'
  <2>1. \E S \in SUBSET DOMAIN Found(command) : Tiles(output) = With(command, before, S)
    BY DEF CopyInv
  <2> QED BY <1>1, <2>1
<1>7. /\ command' \in Commands /\ copying' = "idle" /\ (output' = NoFile \/ FileOk(output'))
      /\ (IsMap(before) /\ DOMAIN before \subseteq Coords /\ \A t \in DOMAIN before : before[t] \in Data)'
  BY <1>1 DEF CopyInv
<1> QED BY <1>2, <1>3, <1>4, <1>5, <1>6, <1>7 DEF CopyInv, ZoomMetas

\* What a copy may meet.
LEMMA Met ==
  ASSUME CopyInv
  PROVE  /\ IsMap(Tiles(output)) /\ DOMAIN Tiles(output) \subseteq Coords
         /\ \A t \in DOMAIN Tiles(output) : Tiles(output)[t] \in Data
<1>1. CASE output = NoFile
  BY <1>1, NothingShown DEF Empty, IsMap
<1>2. CASE FileOk(output)
  <2> DEFINE f == output
  <2>1. FileOk(f)
    BY <1>2
  <2> HIDE DEF f
  <2>2. /\ IsMap(Tiles(f)) /\ DOMAIN Tiles(f) \subseteq Coords
        /\ \A t \in DOMAIN Tiles(f) : Tiles(f)[t] \in Data
    BY <2>1, Shown DEF FileOk, IsMap
  <2> QED BY <2>2 DEF f
<1> QED BY <1>1, <1>2 DEF CopyInv

LEMMA NewFile ==
  ASSUME NEW type \in {"flat", "flat-with-hash", "normalized"}
  PROVE  /\ FileOk([NoFile EXCEPT !.type = type])
         /\ Tiles([NoFile EXCEPT !.type = type]) = Tiles(NoFile)
<1> DEFINE g == [NoFile EXCEPT !.type = type]
<1>1. DOMAIN g = DOMAIN NoFile /\ g.type = type /\ g.rows = Empty /\ g.images = Empty
  BY DEF NoFile
<1>2. DOMAIN Empty = {} /\ Empty = [x \in {} |-> Null]
  BY DEF Empty
<1> HIDE DEF g
<1>3. FileOk(g)
  BY <1>1, <1>2 DEF FileOk
<1>4. DOMAIN Tiles(g) = {} /\ Tiles(g) = [c \in DOMAIN Tiles(g) |-> Tiles(g)[c]]
  BY <1>1, <1>2, <1>3, Shown
<1>5. Tiles(g) = Tiles(NoFile)
  BY <1>2, <1>4, NothingShown
<1> QED BY <1>3, <1>5 DEF g

LEMMA StartKeeps ==
  ASSUME CopyFits, CopyInv, NEW c \in Commands, Start(c)
  PROVE  CopyInv'
<1>1. /\ copying = "idle" /\ command' = c /\ before' = Tiles(output)
      /\ UNCHANGED <<fetching, channel, batch>>
      /\ \/ /\ outcome' = "refused"
            /\ UNCHANGED <<copying, output, zoomMeta, todo, copied>>
         \/ /\ outcome' = "none" /\ copying' = "tiles"
            /\ output' = IF output = NoFile THEN [output EXCEPT !.type = c.type] ELSE output
            /\ zoomMeta' = IF output = NoFile
                           THEN [min |-> LeastOf(ZoomsOf(c)), max |-> GreatestOf(ZoomsOf(c))]
                           ELSE zoomMeta
            /\ todo' = Requested(c)
  BY DEF Start
<1>2. /\ AtRest /\ (output = NoFile \/ FileOk(output))
      /\ zoomMeta \in ZoomMetas
  BY <1>1 DEF CopyInv, ZoomMetas
<1>3. (IsMap(before) /\ DOMAIN before \subseteq Coords /\ \A t \in DOMAIN before : before[t] \in Data)'
  BY <1>1, Met
<1>4. With(c, Tiles(output), {}) = Tiles(output)
  <2> DEFINE old == Tiles(output)
  <2>1. IsMap(old)
    BY Met
  <2> HIDE DEF old
  <2>2. With(c, old, {}) = old
    BY <2>1, WithNone
  <2> QED BY <2>2 DEF old
<1>5. CASE outcome' = "refused" /\ UNCHANGED <<copying, output, zoomMeta, todo, copied>>
  <2>1. AtRest'
    BY <1>1, <1>2, <1>5 DEF AtRest
  <2>2. (\E S \in SUBSET DOMAIN Found(command) : Tiles(output) = With(command, before, S))'
    <3>1. Tiles(output') = With(command', before', {})
      BY <1>1, <1>4, <1>5
    <3> QED BY <3>1
  <2>3. ZoomsEnclose'
    BY <1>5 DEF ZoomsEnclose
  <2>4. copying' = "idle" /\ command' \in Commands
    BY <1>1, <1>5
  <2> QED BY <1>2, <1>3, <1>5, <2>1, <2>2, <2>3, <2>4 DEF CopyInv, ZoomMetas
<1>6. CASE /\ outcome' = "none" /\ copying' = "tiles"
           /\ output' = IF output = NoFile THEN [output EXCEPT !.type = c.type] ELSE output
           /\ zoomMeta' = IF output = NoFile
                          THEN [min |-> LeastOf(ZoomsOf(c)), max |-> GreatestOf(ZoomsOf(c))]
                          ELSE zoomMeta
           /\ todo' = Requested(c)
  <2>1. FileOk(output') /\ Tiles(output') = Tiles(output)
    <3>1. CASE output = NoFile
      <4>1. c.type \in {"flat", "flat-with-hash", "normalized"}
        BY DEF CopyFits
      <4>2. output' = [NoFile EXCEPT !.type = c.type]
        BY <1>6, <3>1
      <4> DEFINE type == c.type
      <4> HIDE DEF type
      <4>3. FileOk([NoFile EXCEPT !.type = type]) /\ Tiles([NoFile EXCEPT !.type = type]) = Tiles(NoFile)
        BY <4>1, NewFile DEF type
      <4> QED BY <3>1, <4>2, <4>3 DEF type
    <3>2. CASE output # NoFile
      BY <1>2, <1>6, <3>2
    <3> QED BY <3>1, <3>2
  <2>2. zoomMeta' \in ZoomMetas
    BY <1>2, <1>6, FirstZooms
  <2>3. Requested(c) \in Seq(Coords) /\ Lists(Requested(c), Asked(c))
    <3>1. FitBoxes(c.boxes, c.zooms)
      BY DEF CopyFits
    <3>2. Coords \subseteq AllTiles
      BY DEF CopyFits, AllTiles
    <3>3. ASSUME NEW t \in AllTiles, InBoxes(c.boxes, c.zooms, t) PROVE t \in Coords
      <4>1. PICK b \in DOMAIN c.boxes : \E z \in DOMAIN c.zooms : HasTile(AtZoom(c.boxes[b], c.zooms[z]), t)
        BY <3>3 DEF InBoxes
      <4>2. PICK z \in DOMAIN c.zooms : HasTile(AtZoom(c.boxes[b], c.zooms[z]), t)
        BY <4>1
      <4> DEFINE r == AtZoom(c.boxes[b], c.zooms[z])
      <4>3. \A x \in r.minX..r.maxX : \A y \in r.minY..r.maxY : <<r.zoom, x, y>> \in Coords
        BY Zenon DEF CopyFits
      <4>4. r \in Rects /\ HasTile(r, t)
        BY <3>1, <4>2 DEF FitBoxes
      <4> HIDE DEF r
      <4>5. t = <<t[1], t[2], t[3]>> /\ t[1] = r.zoom /\ t[2] \in r.minX..r.maxX /\ t[3] \in r.minY..r.maxY
        BY <4>4 DEF HasTile, Rects, AllTiles
      <4> QED BY <4>3, <4>5
    <3> QED BY <3>1, <3>2, <3>3, RequestedOnce
  <2> DEFINE seq == Requested(c)
  <2>4. todo' = seq
    BY <1>6
  <2>5. seq \in Seq(Coords) /\ Lists(seq, Asked(c))
    BY <2>3
  <2> HIDE DEF seq
  <2>6. seq \in Seq(Asked(c)) /\ Once(seq) /\ Elements(seq) = Asked(c)
    <3>1. Once(seq) /\ Elements(seq) = Asked(c)
      BY <2>5 DEF Lists, Once, Elements
    <3>2. Len(seq) \in Nat /\ seq \in [1..Len(seq) -> Coords]
      BY <2>5
    <3>3. seq \in [1..Len(seq) -> Asked(c)]
      BY <2>5, <3>2 DEF Lists
    <3> QED BY <3>1, <3>2, <3>3
  <2>7. fetching' = {} /\ channel' = <<>> /\ batch' = Empty
    BY <1>1, <1>2 DEF AtRest
  <2>8. (todo \in Seq(Asked(command)) /\ channel \in Seq(Asked(command)))'
    BY <1>1, <2>4, <2>6, <2>7
  <2>9. IsMap(Empty) /\ DOMAIN Empty = {} /\ Elements(<<>>) = {} /\ Once(<<>>)
    BY DEF Empty, IsMap, Elements, Once
  <2>10. InFlight'
    BY <2>4, <2>6, <2>7, <2>8, <2>9 DEF InFlight
  <2>11. OnFile(command)' = {}
    <3>1. Waiting' = Asked(c)
      BY <2>4, <2>6, <2>7, <2>9 DEF Waiting
    <3>2. DOMAIN Found(c) \subseteq Asked(c)
      BY FoundIs
    <3> QED BY <1>1, <3>1, <3>2 DEF OnFile
  <2>12. (Tiles(output) = With(command, before, OnFile(command)))'
    BY <1>1, <1>4, <2>1, <2>11
  <2>13. (\E S \in SUBSET DOMAIN Found(command) : Tiles(output) = With(command, before, S))'
    BY <2>11, <2>12
  <2>14. ZoomsEnclose'
    BY <1>6 DEF ZoomsEnclose
  <2> QED BY <1>1, <1>3, <1>6, <2>1, <2>2, <2>10, <2>12, <2>13, <2>14 DEF CopyInv, ZoomMetas
<1> QED BY <1>1, <1>5, <1>6

LEMMA CopyInit ==
  ASSUME CopyFits, Init
  PROVE  CopyInv
<1>1. /\ copying = "idle" /\ outcome = "none" /\ command \in Commands
      /\ output = NoFile /\ zoomMeta = NoMeta /\ before = Empty
      /\ todo = <<>> /\ fetching = {} /\ channel = <<>> /\ batch = Empty
  BY DEF Init
<1>2. AtRest /\ ZoomsEnclose
  BY <1>1 DEF AtRest, ZoomsEnclose
<1>3. zoomMeta \in [min : Nat \cup {Unset}, max : Nat \cup {Unset}]
  BY <1>1 DEF NoMeta
<1>4. IsMap(before) /\ DOMAIN before \subseteq Coords /\ \A t \in DOMAIN before : before[t] \in Data
  BY <1>1 DEF Empty, IsMap
<1>5. \E S \in SUBSET DOMAIN Found(command) : Tiles(output) = With(command, before, S)
  <2>1. With(command, before, {}) = before
    <3> DEFINE c == command
               old == before
    <3>1. IsMap(old)
      BY <1>4
    <3> HIDE DEF c, old
    <3>2. With(c, old, {}) = old
      BY <3>1, WithNone
    <3> QED BY <3>2 DEF c, old
  <2>2. Tiles(output) = before
    BY <1>1, NothingShown
  <2> QED BY <2>1, <2>2
<1> QED BY <1>1, <1>2, <1>3, <1>4, <1>5 DEF CopyInv

LEMMA CopyStep ==
  ASSUME CopyFits, CopyInv, [Next]_vars
  PROVE  CopyInv'
<1>1. CASE UNCHANGED vars
  <2>1. /\ UNCHANGED <<copying, outcome, command, output, zoomMeta, todo, fetching, channel, batch, before>>
    BY <1>1 DEF vars
  <2>2. ZoomsEnclose' /\ AtRest' = AtRest
    BY <2>1 DEF CopyInv, ZoomsEnclose, AtRest
  <2>3. InFlight' = InFlight /\ OnFile(command)' = OnFile(command)
    BY <2>1 DEF InFlight, OnFile, Waiting
  <2>4. (\E S \in SUBSET DOMAIN Found(command) : Tiles(output) = With(command, before, S))'
    <3>1. \E S \in SUBSET DOMAIN Found(command) : Tiles(output) = With(command, before, S)
      BY DEF CopyInv
    <3> QED BY <2>1, <3>1
  <2>5. (copying = "tiles" => InFlight /\ Tiles(output) = With(command, before, OnFile(command)))'
    <3>1. copying = "tiles" => InFlight /\ Tiles(output) = With(command, before, OnFile(command))
      BY DEF CopyInv
    <3> QED BY <2>1, <2>3, <3>1
  <2>6. (copying = "metadata" \/ outcome = "ok" => Tiles(output) = With(command, before, DOMAIN Found(command)))'
    <3>1. copying = "metadata" \/ outcome = "ok" => Tiles(output) = With(command, before, DOMAIN Found(command))
      BY DEF CopyInv
    <3> QED BY <2>1, <3>1
  <2>7. (/\ command \in Commands
         /\ copying \in {"idle", "tiles", "metadata"}
         /\ output = NoFile \/ FileOk(output)
         /\ IsMap(before) /\ DOMAIN before \subseteq Coords /\ \A t \in DOMAIN before : before[t] \in Data
         /\ copying # "idle" => outcome = "none" /\ FileOk(output)
         /\ zoomMeta \in [min : Nat \cup {Unset}, max : Nat \cup {Unset}])'
    BY <2>1 DEF CopyInv
  <2>8. (copying # "tiles" => AtRest)'
    BY <2>1, <2>2 DEF CopyInv
  <2> QED BY <2>2, <2>4, <2>5, <2>6, <2>7, <2>8 DEF CopyInv
<1>2. CASE Next
  <2>1. CASE \E c \in Commands : Start(c)
    BY <2>1, StartKeeps
  <2>2. CASE Fetch
    BY <2>2, FetchKeeps
  <2>3. CASE \E c \in Coords : Deliver(c)
    BY <2>3, DeliverKeeps
  <2>4. CASE \E timer \in BOOLEAN : Receive(timer)
    BY <2>4, ReceiveKeeps
  <2>5. CASE SaveRest
    BY <2>5, SaveRestKeeps
  <2>6. CASE Finish
    BY <2>6, FinishKeeps
  <2>7. CASE Fail
    BY <2>7, FailKeeps
  <2>8. CASE \E update \in {"reset", "grow-only", "skip"} : MetaUpdate(update)
    BY <2>8, MetaUpdateKeeps
  <2> QED BY <1>2, <2>1, <2>2, <2>3, <2>4, <2>5, <2>6, <2>7, <2>8 DEF Next
<1> QED BY <1>1, <1>2

LEMMA CopyIsFaithful ==
  ASSUME CopyFits, CopyInv
  PROVE  CopiedFaithfully /\ ZoomsEnclose
<1>1. ASSUME outcome = "ok"
      PROVE  Tiles(output) = IF Mode(command) = "ignore" THEN Overlay(Found(command), before)
                             ELSE Overlay(before, Found(command))
  <2>1. Tiles(output) = With(command, before, DOMAIN Found(command))
    BY <1>1 DEF CopyInv
  <2>2. Only(Found(command), DOMAIN Found(command)) = Found(command)
    <3> DEFINE f == Found(command)
    <3>1. IsMap(f)
      BY FoundIs
    <3> HIDE DEF f
    <3>2. Only(f, DOMAIN f) = [x \in DOMAIN f |-> f[x]]
      BY DEF Only
    <3>3. Only(f, DOMAIN f) = f
      BY <3>1, <3>2 DEF IsMap
    <3> QED BY <3>3 DEF f
  <2> QED BY <2>1, <2>2 DEF With, Mixed
<1>2. output # NoFile => EachTileHashed(output)
  <2> DEFINE f == output
  <2>1. f # NoFile => FileOk(f)
    BY DEF CopyInv
  <2> HIDE DEF f
  <2>2. f # NoFile => EachTileHashed(f)
    BY <2>1, Shown
  <2> QED BY <2>2 DEF f
<1>3. ASSUME NEW t \in DOMAIN Tiles(output)
      PROVE  \/ t \in DOMAIN before /\ Tiles(output)[t] = before[t]
             \/ t \in DOMAIN Found(command) /\ Tiles(output)[t] = Content[t]
  <2>1. PICK S \in SUBSET DOMAIN Found(command) : Tiles(output) = With(command, before, S)
    BY DEF CopyInv
  <2>2. IsWith(With(command, before, S), command, before, S)
    <3> DEFINE c == command
               old == before
    <3>1. S \in SUBSET DOMAIN Found(c)
      OBVIOUS
    <3> HIDE DEF c, old
    <3>2. IsWith(With(c, old, S), c, old, S)
      BY <3>1, WithIs
    <3> QED BY <3>2 DEF c, old
  <2> QED BY <2>1, <2>2 DEF IsWith
<1>4. ASSUME copying = "tiles", NEW i \in DOMAIN todo
      PROVE  /\ todo[i] \in Asked(command) \ fetching
             /\ \A j \in DOMAIN todo : todo[i] = todo[j] => i = j
  <2>1. /\ todo \in Seq(Asked(command)) /\ Once(todo) /\ Elements(todo) \cap fetching = {}
    BY <1>4 DEF CopyInv, InFlight
  <2>2. DOMAIN todo = 1..Len(todo)
    BY <2>1
  <2>3. todo[i] \in Elements(todo)
    BY <2>2 DEF Elements
  <2>4. todo[i] \in Asked(command)
    BY <2>1
  <2> QED BY <2>1, <2>2, <2>3, <2>4 DEF Once
<1> QED BY <1>1, <1>2, <1>3, <1>4 DEF CopiedFaithfully, CopyInv

\* CopiedFaithfully and ZoomsEnclose: a copy that ends well has put every tile of its
\* boxes that the source has into the file, over the tiles that earlier copies left or
\* beside them as --on-duplicate says, each under its hash, and the zoom levels in the
\* metadata enclose theirs: however the boxes overlap, and wherever earlier copies
\* stopped.
THEOREM CopiesAreFaithful ==
  ASSUME CopyFits
  PROVE  Init /\ [][Next]_vars => [](CopiedFaithfully /\ ZoomsEnclose)
<1>1. Init => CopyInv
  BY CopyInit
<1>2. CopyInv /\ [Next]_vars => CopyInv'
  BY CopyStep
<1>3. CopyInv => CopiedFaithfully /\ ZoomsEnclose
  BY CopyIsFaithful
<1> QED BY <1>1, <1>2, <1>3, PTL
=============================================================================
