----------------------------- MODULE MinimProofs ----------------------------
(***************************************************************************)
(* Proofs about Minim.  The geometry is dealt with first, in terms of a    *)
(* function L from blocks to run lengths: cutting a run in two and joining *)
(* two neighbours keeps the pool tiled.                                    *)
(***************************************************************************)
EXTENDS Minim, Integers, TLAPS

Lengths == [i \in Index |-> Length(i)]

(* Run i cut after n blocks; run i joined with its right neighbour.        *)
Cut(L, i, n) ==
  [b \in Index |-> IF b = i THEN n ELSE IF b = i + n THEN L[i] - n ELSE L[b]]
Joined(L, i) ==
  [b \in Index |-> IF b = i THEN L[i] + L[i + L[i]] ELSE IF b = i + L[i] THEN 0 ELSE L[b]]

(* Block numbers are the integers from 0 to NumBlocks - 1.                 *)
LEMMA IndexFacts ==
  /\ NumBlocks \in Int
  /\ NumBlocks > 0
  /\ 0 \in Index
  /\ \A b \in Index : b \in Int /\ 0 <= b /\ b < NumBlocks
  /\ \A b \in Int : 0 <= b /\ b < NumBlocks => b \in Index
  BY BlocksAssumption DEF Index

(* The three ways in which a tiling is used: nothing inside of a run looks *)
(* like a superblock, the run to the right of a run, the run to its left.  *)
LEMMA TilesInside ==
  ASSUME NEW L \in [Index -> Nat], Tiles(L)
  PROVE  \A x \in Index, k \in Index : L[x] > 0 /\ x < k /\ k < x + L[x] => L[k] = 0
  BY DEF Tiles

(* A run ends where the next one begins, or at the end of the pool.        *)
LEMMA TilesRight ==
  ASSUME NEW L \in [Index -> Nat], Tiles(L)
  PROVE  /\ L[0] > 0
         /\ \A x \in Index : L[x] > 0 =>
              /\ x + L[x] <= NumBlocks
              /\ x + L[x] < NumBlocks => x + L[x] \in Index /\ L[x + L[x]] > 0
  BY IndexFacts DEF Tiles

(* Every run but the first has a left neighbour.                           *)
LEMMA TilesLeft ==
  ASSUME NEW L \in [Index -> Nat], Tiles(L)
  PROVE  \A x \in Index : L[x] > 0 /\ x > 0 =>
           \E l \in Index : l < x /\ L[l] > 0 /\ l + L[l] = x
  BY DEF Tiles

(* Two runs do not overlap.                                                *)
LEMMA TilesDisjoint ==
  ASSUME NEW L \in [Index -> Nat], Tiles(L),
         NEW i \in Index, NEW j \in Index, L[i] > 0, L[j] > 0, i < j
  PROVE  i + L[i] <= j
  <1>1. i \in Int /\ j \in Int /\ L[i] \in Int
    BY IndexFacts
  <1>2. ~ (j < i + L[i])
    BY DEF Tiles
  <1> QED
    BY <1>1, <1>2

(* Cutting a run in two keeps the pool tiled (minim_alloc).                *)
LEMMA CutTiles ==
  ASSUME NEW L \in [Index -> Nat], Tiles(L),
         NEW i \in Index, NEW n \in Nat, 0 < n, n < L[i]
  PROVE  /\ Cut(L, i, n) \in [Index -> Nat]
         /\ Tiles(Cut(L, i, n))
  <1> DEFINE M == Cut(L, i, n)
  <1> USE IndexFacts
  <1>1. i \in Int /\ n \in Int /\ L[i] \in Int /\ i + L[i] <= NumBlocks
    BY TilesRight
  <1>2. i + n \in Index
    BY <1>1
  <1>3. /\ M \in [Index -> Nat]
        /\ M[i] = n
        /\ M[i + n] = L[i] - n
        /\ \A b \in Index : b # i /\ b # i + n => M[b] = L[b]
    BY <1>1, <1>2 DEF Cut
  <1>4. L[i + n] = 0
    <2>1. i < i + n /\ i + n < i + L[i]
      BY <1>1
    <2> QED
      BY <1>2, <2>1, TilesInside
  <1> HIDE DEF M
  <1>5. M[0] > 0
    BY <1>1, <1>2, <1>3, <1>4, TilesRight
  <1>6. ASSUME NEW j \in Index, M[j] > 0
        PROVE  /\ j + M[j] <= NumBlocks
               /\ \A k \in Index : j < k /\ k < j + M[j] => M[k] = 0
               /\ j + M[j] < NumBlocks => M[j + M[j]] > 0
               /\ j > 0 => \E l \in Index : l < j /\ M[l] > 0 /\ l + M[l] = j
    <2>1. CASE j = i
      <3>1. \A k \in Index : j < k /\ k < j + M[j] => M[k] = 0
        <4>1. \A k \in Index : i < k /\ k < i + n => k # i /\ k # i + n /\ k < i + L[i]
          BY <1>1
        <4> QED
          BY <1>3, <2>1, <4>1, TilesInside
      <3>2. j > 0 => \E l \in Index : l < j /\ M[l] > 0 /\ l + M[l] = j
        <4> SUFFICES ASSUME i > 0
                     PROVE  \E l \in Index : l < i /\ M[l] > 0 /\ l + M[l] = i
          BY <2>1
        <4>1. PICK l \in Index : l < i /\ L[l] > 0 /\ l + L[l] = i
          BY TilesLeft
        <4>2. l # i /\ l # i + n
          BY <1>1, <4>1
        <4> QED
          BY <1>3, <4>1, <4>2
      <3> QED
        BY <1>1, <1>3, <2>1, <3>1, <3>2
    <2>2. CASE j = i + n
      <3>1. j + M[j] = i + L[i]
        BY <1>1, <1>3, <2>2
      <3>2. \A k \in Index : j < k /\ k < j + M[j] => M[k] = 0
        <4>1. \A k \in Index : j < k => i < k /\ k # i /\ k # i + n
          BY <1>1, <2>2
        <4> QED
          BY <1>3, <3>1, <4>1, TilesInside
      <3>3. j + M[j] < NumBlocks => M[j + M[j]] > 0
        BY <1>1, <1>3, <2>2, <3>1, TilesRight
      <3>4. i < j /\ M[i] > 0 /\ i + M[i] = j
        BY <1>1, <1>3, <2>2
      <3> QED
        BY <1>1, <3>1, <3>2, <3>3, <3>4
    <2>3. CASE j # i /\ j # i + n
      <3>1. L[j] > 0 /\ M[j] = L[j] /\ L[j] \in Int
        BY <1>3, <1>6, <2>3
      <3>2. j < i => j + L[j] <= i
        BY <3>1, TilesDisjoint
      <3>3. i < j => i + L[i] <= j
        BY <1>1, <3>1, TilesDisjoint
      <3>4. \A k \in Index : j < k /\ k < j + M[j] => M[k] = 0
        BY <1>1, <1>3, <2>3, <3>1, <3>2, <3>3 DEF Tiles
      <3>5. j + M[j] < NumBlocks => M[j + M[j]] > 0
        <4> SUFFICES ASSUME j + L[j] < NumBlocks
                     PROVE  M[j + L[j]] > 0
          BY <3>1
        <4>1. j + L[j] \in Index /\ L[j + L[j]] > 0
          BY <3>1 DEF Tiles
        <4> QED
          BY <1>1, <1>3, <1>4, <3>1, <4>1
      <3>6. j > 0 => \E l \in Index : l < j /\ M[l] > 0 /\ l + M[l] = j
        <4> SUFFICES ASSUME j > 0
                     PROVE  \E l \in Index : l < j /\ M[l] > 0 /\ l + M[l] = j
          OBVIOUS
        <4>1. PICK l \in Index : l < j /\ L[l] > 0 /\ l + L[l] = j
          BY <3>1 DEF Tiles
        <4>2. CASE l = i
          BY <1>1, <1>2, <1>3, <4>1, <4>2
        <4>3. CASE l # i
          BY <1>1, <1>2, <1>3, <1>4, <4>1, <4>3
        <4> QED
          BY <4>2, <4>3
      <3> QED
        BY <3>1, <3>4, <3>5, <3>6 DEF Tiles
    <2> QED
      BY <2>1, <2>2, <2>3
  <1>7. ASSUME NEW b \in Index
        PROVE  \E j \in Index : M[j] > 0 /\ j <= b /\ b < j + M[j]
    <2>1. PICK j \in Index : L[j] > 0 /\ j <= b /\ b < j + L[j]
      BY DEF Tiles
    <2>2. CASE j = i /\ b < i + n
      BY <1>3, <2>1, <2>2
    <2>3. CASE j = i /\ i + n <= b
      <3>1. b < i + n + M[i + n]
        BY <1>1, <1>3, <2>1, <2>3
      <3> QED
        BY <1>1, <1>2, <1>3, <2>3, <3>1
    <2>4. CASE j # i
      BY <1>3, <1>4, <2>1, <2>4
    <2> QED
      BY <1>1, <2>2, <2>3, <2>4
  <1> QED
    BY <1>3, <1>5, <1>6, <1>7 DEF Tiles, M

(* Joining a run with its right neighbour keeps the pool tiled             *)
(* (loc_minim_free_by_idx).                                                *)
LEMMA JoinTiles ==
  ASSUME NEW L \in [Index -> Nat], Tiles(L),
         NEW i \in Index, L[i] > 0, i + L[i] < NumBlocks
  PROVE  /\ Joined(L, i) \in [Index -> Nat]
         /\ Tiles(Joined(L, i))
  <1> DEFINE r == i + L[i]
             M == Joined(L, i)
  <1> USE IndexFacts
  <1>1. /\ i \in Int /\ r \in Int /\ L[i] \in Int
        /\ r \in Index /\ i < r /\ L[r] > 0 /\ L[r] \in Int /\ r = i + L[i]
    BY TilesRight
  <1>2. /\ M \in [Index -> Nat]
        /\ M[i] = L[i] + L[r]
        /\ M[r] = 0
        /\ \A b \in Index : b # i /\ b # r => M[b] = L[b]
    BY <1>1 DEF Joined
  <1>3. r + L[r] <= NumBlocks /\ \A k \in Index : i < k /\ k < r + L[r] /\ k # r => L[k] = 0
    <2>1. \A k \in Index : i < k /\ k < r + L[r] /\ k # r => k < i + L[i] \/ r < k
      BY <1>1
    <2> QED
      BY <1>1, <2>1, TilesRight, TilesInside
  <1> HIDE DEF M, r
  <1>4. M[0] > 0
    BY <1>1, <1>2, TilesRight
  <1>5. ASSUME NEW j \in Index, M[j] > 0
        PROVE  /\ j + M[j] <= NumBlocks
               /\ \A k \in Index : j < k /\ k < j + M[j] => M[k] = 0
               /\ j + M[j] < NumBlocks => M[j + M[j]] > 0
               /\ j > 0 => \E l \in Index : l < j /\ M[l] > 0 /\ l + M[l] = j
    <2>1. CASE j = i
      <3>0. j + M[j] = r + L[r]
        BY <1>1, <1>2, <2>1
      <3>1. \A k \in Index : j < k /\ k < j + M[j] => M[k] = 0
        BY <1>1, <1>2, <1>3, <2>1, <3>0
      <3>2. j + M[j] < NumBlocks => M[j + M[j]] > 0
        <4> SUFFICES ASSUME r + L[r] < NumBlocks
                     PROVE  M[r + L[r]] > 0
          BY <3>0
        <4>1. r + L[r] \in Index /\ L[r + L[r]] > 0
          BY <1>1 DEF Tiles
        <4> QED
          BY <1>1, <1>2, <4>1
      <3>3. j > 0 => \E l \in Index : l < j /\ M[l] > 0 /\ l + M[l] = j
        <4> SUFFICES ASSUME i > 0
                     PROVE  \E l \in Index : l < i /\ M[l] > 0 /\ l + M[l] = i
          BY <2>1
        <4>1. PICK l \in Index : l < i /\ L[l] > 0 /\ l + L[l] = i
          BY TilesLeft
        <4>2. l # i /\ l # r
          BY <1>1, <4>1
        <4> QED
          BY <1>2, <4>1, <4>2
      <3> QED
        BY <1>3, <3>0, <3>1, <3>2, <3>3
    <2>2. CASE j # i
      <3>1. j # r /\ L[j] > 0 /\ M[j] = L[j] /\ L[j] \in Int /\ j \in Int
        BY <1>2, <1>5, <2>2
      <3>2. j < i => j + L[j] <= i
        BY <3>1, TilesDisjoint
      <3>3. i < j => r + L[r] <= j
        BY <3>1, <1>1, <1>3
      <3>4. \A k \in Index : j < k /\ k < j + M[j] => M[k] = 0
        BY <1>1, <1>2, <2>2, <3>1, <3>2, <3>3 DEF Tiles
      <3>5. j + M[j] < NumBlocks => M[j + M[j]] > 0
        <4> SUFFICES ASSUME j + L[j] < NumBlocks
                     PROVE  M[j + L[j]] > 0
          BY <3>1
        <4>1. j + L[j] \in Index /\ L[j + L[j]] > 0
          BY <3>1 DEF Tiles
        <4> QED
          BY <1>1, <1>2, <2>2, <3>1, <3>2, <3>3, <4>1
      <3>6. j > 0 => \E l \in Index : l < j /\ M[l] > 0 /\ l + M[l] = j
        <4> SUFFICES ASSUME j > 0
                     PROVE  \E l \in Index : l < j /\ M[l] > 0 /\ l + M[l] = j
          OBVIOUS
        <4>1. PICK l \in Index : l < j /\ L[l] > 0 /\ l + L[l] = j
          BY <3>1 DEF Tiles
        <4>2. l # i
          BY <1>1, <3>1, <4>1
        <4>3. CASE l = r
          BY <1>1, <1>2, <4>1, <4>3
        <4>4. CASE l # r
          BY <1>2, <4>1, <4>2, <4>4
        <4> QED
          BY <4>3, <4>4
      <3>7. j + L[j] <= NumBlocks
        BY <3>1 DEF Tiles
      <3> QED
        BY <3>1, <3>4, <3>5, <3>6, <3>7
    <2> QED
      BY <2>1, <2>2
  <1>6. ASSUME NEW b \in Index
        PROVE  \E j \in Index : M[j] > 0 /\ j <= b /\ b < j + M[j]
    <2>1. PICK j \in Index : L[j] > 0 /\ j <= b /\ b < j + L[j]
      BY DEF Tiles
    <2>2. CASE j = i \/ j = r
      BY <1>1, <1>2, <2>1, <2>2
    <2>3. CASE j # i /\ j # r
      BY <1>2, <2>1, <2>3
    <2> QED
      BY <2>2, <2>3
  <1> QED
    BY <1>2, <1>4, <1>5, <1>6 DEF Tiles, M
-----------------------------------------------------------------------------
(***************************************************************************)
(* The inductive invariant.  Shape is its part about the blocks.           *)
(***************************************************************************)
BlocksType ==
  /\ alloc_count \in [Index -> 0 .. NumBlocks]
  /\ free_count \in [Index -> 0 .. NumBlocks]
  /\ owner \in [Index -> Clients \cup {NULL}]

Shape == BlocksType /\ Tiling /\ Coalesced /\ Owned

IInv == TypeOK /\ Shape /\ PassedOwnNothing

(* What the shape says of the lengths of the runs.                         *)
LEMMA ShapeLengths ==
  ASSUME Shape
  PROVE  /\ Lengths \in [Index -> Nat]
         /\ Tiles(Lengths)
         /\ \A b \in Index :
              /\ Lengths[b] = alloc_count[b] + free_count[b]
              /\ alloc_count[b] \in Int /\ 0 <= alloc_count[b] /\ alloc_count[b] <= NumBlocks
              /\ free_count[b] \in Int /\ 0 <= free_count[b] /\ free_count[b] <= NumBlocks
              /\ alloc_count[b] = 0 \/ free_count[b] = 0
  <1>1. \A b \in Index :
          /\ alloc_count[b] \in Int /\ 0 <= alloc_count[b] /\ alloc_count[b] <= NumBlocks
          /\ free_count[b] \in Int /\ 0 <= free_count[b] /\ free_count[b] <= NumBlocks
    BY IndexFacts DEF Shape, BlocksType
  <1>2. Lengths = [b \in Index |-> alloc_count[b] + free_count[b]]
    BY DEF Lengths, Length
  <1>3. Tiles(Lengths) /\ \A b \in Index : alloc_count[b] = 0 \/ free_count[b] = 0
    BY DEF Shape, Tiling, Lengths
  <1> QED
    BY <1>1, <1>2, <1>3

(* minim_alloc: carving n blocks out of a free run.                        *)
LEMMA CarveShape ==
  ASSUME Shape, NEW c \in Clients, NEW i \in Index, NEW n \in Nat, n > 0,
         Fits(i, n), Carve(c, i, n)
  PROVE  Shape'
  <1> DEFINE L == Lengths
             m == free_count[i]
  <1> USE IndexFacts
  <1>1. /\ L \in [Index -> Nat] /\ Tiles(L)
        /\ \A b \in Index :
             /\ L[b] = alloc_count[b] + free_count[b]
             /\ alloc_count[b] \in Int /\ 0 <= alloc_count[b] /\ alloc_count[b] <= NumBlocks
             /\ free_count[b] \in Int /\ 0 <= free_count[b] /\ free_count[b] <= NumBlocks
             /\ alloc_count[b] = 0 \/ free_count[b] = 0
    BY ShapeLengths
  <1> HIDE DEF L
  <1>2. /\ m \in Int /\ n \in Int /\ i \in Int /\ 0 < n /\ n <= m
        /\ alloc_count[i] = 0 /\ L[i] = m /\ i + m <= NumBlocks
    BY <1>1, TilesRight DEF Fits
  <1> HIDE DEF m
  <1>3. \A b \in Index : i < b /\ b < i + m => alloc_count[b] = 0 /\ free_count[b] = 0
    BY <1>1, <1>2, TilesInside
  <1>4. /\ alloc_count' = [alloc_count EXCEPT ![i] = n]
        /\ owner' = [owner EXCEPT ![i] = c]
        /\ \A b \in Index :
             /\ i <= b /\ b < i + n => free_count'[b] = 0
             /\ b = i + n /\ n < m => free_count'[b] = m - n
             /\ b < i \/ (b = i + n /\ n = m) \/ b > i + n => free_count'[b] = free_count[b]
    BY <1>2 DEF Carve, m
  <1>5. BlocksType'
    <2>1. alloc_count' \in [Index -> 0 .. NumBlocks]
      BY <1>2, <1>4 DEF Shape, BlocksType
    <2>2. owner' \in [Index -> Clients \cup {NULL}]
      BY <1>4 DEF Shape, BlocksType
    <2>3. \A b \in Index : free_count'[b] \in 0 .. NumBlocks
      BY <1>1, <1>2, <1>4
    <2>4. free_count' = [b \in Index |-> free_count'[b]]
      BY DEF Carve
    <2> QED
      BY <2>1, <2>2, <2>3, <2>4 DEF BlocksType
  <1>6. \A b \in Index : Lengths'[b] = alloc_count'[b] + free_count'[b]
    BY DEF Lengths, Length
  <1>7. \A b \in Index : alloc_count'[b] = IF b = i THEN n ELSE alloc_count[b]
    BY <1>4 DEF Shape, BlocksType
  <1>8. Tiles(Lengths')
    <2>1. CASE n < m
      <3>1. Tiles(Cut(L, i, n))
        BY <1>1, <1>2, <2>1, CutTiles
      <3>2. \A b \in Index : Lengths'[b] = Cut(L, i, n)[b]
        BY <1>1, <1>2, <1>3, <1>4, <1>6, <1>7, <2>1 DEF Cut
      <3>3. Lengths' = Cut(L, i, n)
        BY <3>2 DEF Lengths, Cut
      <3> QED
        BY <3>1, <3>3
    <2>2. CASE n = m
      <3>1. \A b \in Index : Lengths'[b] = L[b]
        BY <1>1, <1>2, <1>3, <1>4, <1>6, <1>7, <2>2
      <3>2. Lengths' = L
        BY <3>1 DEF Lengths, L
      <3> QED
        BY <1>1, <3>2
    <2> QED
      BY <1>2, <2>1, <2>2
  <1>9. Tiling'
    <2>1. \A b \in Index : alloc_count'[b] = 0 \/ free_count'[b] = 0
      BY <1>1, <1>2, <1>3, <1>4, <1>7
    <2> QED
      BY <1>8, <2>1 DEF Tiling, Lengths
  <1>10. Owned'
    <2>1. \A b \in Index : owner'[b] = IF b = i THEN c ELSE owner[b]
      BY <1>4 DEF Shape, BlocksType
    <2> QED
      BY <1>2, <1>7, <2>1, BlocksAssumption DEF Shape, Owned
  <1>11. Coalesced'
    <2> SUFFICES ASSUME NEW b \in Index, free_count'[b] > 0, b + free_count'[b] < NumBlocks
                 PROVE  free_count'[b + free_count'[b]] = 0
      BY DEF Coalesced
    <2>1. CASE b = i + n /\ n < m
      <3>1. free_count'[b] = m - n /\ b + free_count'[b] = i + m
        BY <1>2, <1>4, <2>1
      <3>2. i + m \in Index /\ free_count[i + m] = 0
        BY <1>2, <3>1 DEF Shape, Coalesced, m
      <3> QED
        BY <1>2, <1>4, <2>1, <3>1, <3>2
    <2>2. CASE ~ (b = i + n /\ n < m)
      <3>1. free_count'[b] = free_count[b] /\ free_count[b] > 0 /\ b # i
        BY <1>2, <1>4, <2>2
      <3> DEFINE x == b + free_count[b]
      <3>2. x \in Index /\ free_count[x] = 0 /\ x = b + L[b] /\ L[x] > 0
        BY <1>1, <3>1, TilesRight DEF Shape, Coalesced
      <3>3. ~ (i < x /\ x < i + m)
        BY <1>1, <1>3, <3>2
      <3>4. x # i
        BY <1>1, <1>2, <3>2
      <3> HIDE DEF x
      <3>5. free_count'[x] = 0
        BY <1>2, <1>4, <3>2, <3>3, <3>4
      <3> QED
        BY <3>1, <3>5 DEF x
    <2> QED
      BY <2>1, <2>2
  <1> QED
    BY <1>5, <1>9, <1>10, <1>11 DEF Shape

(* The scan to the left of superblock i ends at its left neighbour.        *)
LEMMA LeftNeighbour ==
  ASSUME Shape, NEW i \in Index, Lengths[i] > 0, i > 0
  PROVE  /\ LeftOf(i) \in Index
         /\ LeftOf(i) < i
         /\ Lengths[LeftOf(i)] > 0
         /\ LeftOf(i) + Lengths[LeftOf(i)] = i
  <1> DEFINE L == Lengths
  <1> USE IndexFacts
  <1>1. L \in [Index -> Nat] /\ Tiles(L)
    BY ShapeLengths
  <1>2. \A b \in Index : L[b] \in Int /\ (Super(b) <=> L[b] > 0)
    BY <1>1 DEF Lengths, Super
  <1>3. PICK l \in Index : l < i /\ L[l] > 0 /\ l + L[l] = i
    BY <1>1, TilesLeft
  <1> HIDE DEF L
  <1>4. \A k \in Index : l < k /\ k < i => ~ Super(k)
    BY <1>1, <1>2, <1>3, TilesInside
  <1>5. IsLeft(l, i)
    BY <1>2, <1>3, <1>4 DEF IsLeft
  <1>6. LeftOf(i) \in Index /\ IsLeft(LeftOf(i), i)
    BY <1>5 DEF LeftOf
  <1>7. LeftOf(i) = l
    BY <1>2, <1>3, <1>5, <1>6 DEF IsLeft
  <1> QED
    BY <1>3, <1>7 DEF L

(* loc_minim_free_by_idx: freeing superblock i and joining its neighbours. *)
LEMMA ReleaseShape ==
  ASSUME Shape, NEW i \in Index, alloc_count[i] > 0, Release(i)
  PROVE  Shape'
  <1> DEFINE L == Lengths
             f == alloc_count[i]
             r == i + f
             g == Merged(i)
             l == LeftOf(i)
  <1> USE IndexFacts
  <1>1. /\ L \in [Index -> Nat] /\ Tiles(L)
        /\ \A b \in Index :
             /\ L[b] = alloc_count[b] + free_count[b]
             /\ alloc_count[b] \in Int /\ 0 <= alloc_count[b] /\ alloc_count[b] <= NumBlocks
             /\ free_count[b] \in Int /\ 0 <= free_count[b] /\ free_count[b] <= NumBlocks
             /\ alloc_count[b] = 0 \/ free_count[b] = 0
    BY ShapeLengths
  <1>2. /\ L[i] = f /\ f \in Int /\ f > 0 /\ free_count[i] = 0 /\ i \in Int
        /\ r = i + f /\ r <= NumBlocks /\ i < r
        /\ r < NumBlocks => r \in Index /\ L[r] > 0
    BY <1>1, TilesRight
  <1>3. i > 0 => l \in Index /\ l < i /\ L[l] > 0 /\ l + L[l] = i
    BY <1>2, LeftNeighbour
  <1>4. JoinsRight(i) <=> r < NumBlocks /\ alloc_count[r] = 0
    BY DEF JoinsRight
  <1>5. JoinsLeft(i) <=> i > 0 /\ free_count[l] > 0
    BY DEF JoinsLeft
  <1>6. /\ JoinsRight(i) => g = f + free_count[r] /\ L[r] = free_count[r]
        /\ ~ JoinsRight(i) => g = f
    BY <1>1, <1>2, <1>4 DEF Merged
  <1>7. /\ alloc_count' = [alloc_count EXCEPT ![i] = 0]
        /\ owner' = [owner EXCEPT ![i] = NULL]
        /\ \A b \in Index : free_count'[b] =
             IF b = r /\ JoinsRight(i) THEN 0
             ELSE IF b = i THEN (IF JoinsLeft(i) THEN 0 ELSE g)
             ELSE IF JoinsLeft(i) /\ b = l THEN free_count[b] + g
             ELSE free_count[b]
    BY DEF Release
  <1>8. /\ \A b \in Index : alloc_count'[b] = IF b = i THEN 0 ELSE alloc_count[b]
        /\ \A b \in Index : owner'[b] = IF b = i THEN NULL ELSE owner[b]
    BY <1>7 DEF Shape, BlocksType
  <1>9. \A b \in Index : Lengths'[b] = alloc_count'[b] + free_count'[b]
    BY DEF Lengths, Length
  <1>10. Lengths' = [b \in Index |-> Lengths'[b]]
    BY DEF Lengths
  <1> HIDE DEF L, f, r, g, l
  <1> DEFINE M == IF JoinsRight(i) THEN Joined(L, i) ELSE L
  <1>11. /\ M \in [Index -> Nat] /\ Tiles(M)
         /\ M[i] = g /\ g \in Int /\ g > 0
         /\ JoinsRight(i) => M[r] = 0
         /\ \A b \in Index : b # i /\ ~ (JoinsRight(i) /\ b = r) => M[b] = L[b]
    <2>1. CASE JoinsRight(i)
      <3>1. Joined(L, i) \in [Index -> Nat] /\ Tiles(Joined(L, i))
        BY <1>1, <1>2, <1>4, <2>1, JoinTiles
      <3>2. \A b \in Index : Joined(L, i)[b] =
              IF b = i THEN L[i] + L[r] ELSE IF b = r THEN 0 ELSE L[b]
        BY <1>2 DEF Joined
      <3> QED
        BY <1>1, <1>2, <1>4, <1>6, <2>1, <3>1, <3>2
    <2>2. CASE ~ JoinsRight(i)
      BY <1>1, <1>2, <1>6, <2>2
    <2> QED
      BY <2>1, <2>2
  <1>12. i + g <= NumBlocks
    BY <1>2, <1>11, TilesRight
  <1> HIDE DEF M
  <1>13. JoinsLeft(i) => /\ l \in Index /\ l < i /\ l # r /\ M[l] = L[l] /\ M[l] > 0
                         /\ l + M[l] = i /\ M[l] = free_count[l] /\ alloc_count[l] = 0
    <2> SUFFICES ASSUME JoinsLeft(i)
                 PROVE  /\ l \in Index /\ l < i /\ l # r /\ M[l] = L[l] /\ M[l] > 0
                        /\ l + M[l] = i /\ M[l] = free_count[l] /\ alloc_count[l] = 0
      OBVIOUS
    <2>1. l \in Index /\ l < i /\ L[l] > 0 /\ l + L[l] = i /\ free_count[l] > 0
      BY <1>3, <1>5
    <2>2. l # i /\ l # r
      BY <1>2, <2>1
    <2>3. M[l] = L[l]
      BY <1>11, <2>1, <2>2
    <2> QED
      BY <1>1, <2>1, <2>2, <2>3
  <1>14. Lengths' \in [Index -> Nat] /\ Tiles(Lengths')
    <2>1. CASE JoinsLeft(i)
      <3>1. Joined(M, l) \in [Index -> Nat] /\ Tiles(Joined(M, l))
        BY <1>2, <1>11, <1>13, <2>1, JoinTiles
      <3>2. \A b \in Index : Joined(M, l)[b] =
              IF b = l THEN M[l] + M[i] ELSE IF b = i THEN 0 ELSE M[b]
        BY <1>13, <2>1 DEF Joined
      <3>3. \A b \in Index : Lengths'[b] = Joined(M, l)[b]
        <4> TAKE b \in Index
        <4>1. CASE b = i
          BY <1>1, <1>2, <1>7, <1>8, <1>9, <1>13, <2>1, <3>2, <4>1
        <4>2. CASE b = l
          BY <1>1, <1>2, <1>7, <1>8, <1>9, <1>11, <1>13, <2>1, <3>2, <4>2
        <4>3. CASE b # i /\ b # l /\ JoinsRight(i) /\ b = r
          BY <1>1, <1>4, <1>7, <1>8, <1>9, <1>11, <2>1, <3>2, <4>3
        <4>4. CASE b # i /\ b # l /\ ~ (JoinsRight(i) /\ b = r)
          BY <1>1, <1>7, <1>8, <1>9, <1>11, <2>1, <3>2, <4>4
        <4> QED
          BY <4>1, <4>2, <4>3, <4>4
      <3>4. Lengths' = Joined(M, l)
        BY <1>10, <3>3 DEF Joined
      <3> QED
        BY <3>1, <3>4
    <2>2. CASE ~ JoinsLeft(i)
      <3>1. \A b \in Index : Lengths'[b] = M[b]
        BY <1>1, <1>2, <1>4, <1>7, <1>8, <1>9, <1>11, <2>2
      <3>2. Lengths' = M
        BY <1>10, <1>11, <3>1
      <3> QED
        BY <1>11, <3>2
    <2> QED
      BY <2>1, <2>2
  <1>15. BlocksType'
    <2>1. alloc_count' \in [Index -> 0 .. NumBlocks]
      BY <1>7 DEF Shape, BlocksType
    <2>2. owner' \in [Index -> Clients \cup {NULL}]
      BY <1>7 DEF Shape, BlocksType
    <2>3. \A b \in Index : free_count'[b] \in 0 .. NumBlocks
      BY <1>1, <1>2, <1>7, <1>11, <1>12, <1>13
    <2>4. free_count' = [b \in Index |-> free_count'[b]]
      BY DEF Release
    <2> QED
      BY <2>1, <2>2, <2>3, <2>4 DEF BlocksType
  <1>16. Tiling'
    <2>1. \A b \in Index : alloc_count'[b] = 0 \/ free_count'[b] = 0
      BY <1>1, <1>7, <1>8, <1>13
    <2> QED
      BY <1>14, <2>1 DEF Tiling, Lengths
  <1>17. Owned'
    BY <1>8 DEF Shape, Owned
  <1>18. Coalesced'
    <2> SUFFICES ASSUME NEW b \in Index, free_count'[b] > 0, b + free_count'[b] < NumBlocks
                 PROVE  free_count'[b + free_count'[b]] = 0
      BY DEF Coalesced
    <2> DEFINE e == i + g
    <2>1. e < NumBlocks => e \in Index /\ i < e /\ free_count[e] = 0 /\ ~ (JoinsRight(i) /\ e = r)
      <3>1. CASE JoinsRight(i)
        <4>1. r \in Index /\ free_count[r] > 0 /\ e = r + free_count[r]
          BY <1>1, <1>2, <1>4, <1>6, <3>1
        <4>2. r + free_count[r] < NumBlocks => free_count[r + free_count[r]] = 0
          BY <4>1 DEF Shape, Coalesced
        <4> HIDE DEF e
        <4>3. e < NumBlocks => free_count[e] = 0
          BY <4>1, <4>2
        <4> QED
          BY <1>1, <1>2, <4>1, <4>3
      <3>2. CASE ~ JoinsRight(i)
        BY <1>1, <1>2, <1>4, <1>6, <1>11, <3>2
      <3> QED
        BY <3>1, <3>2
    <2> HIDE DEF e
    <2>2. CASE b = i \/ (JoinsLeft(i) /\ b = l)
      <3>1. b + free_count'[b] = e
        <4>1. CASE b = i
          BY <1>2, <1>7, <2>2, <4>1 DEF e
        <4>2. CASE JoinsLeft(i) /\ b = l
          BY <1>2, <1>7, <1>11, <1>13, <4>2 DEF e
        <4> QED
          BY <2>2, <4>1, <4>2
      <3>2. e \in Index /\ i < e /\ free_count[e] = 0 /\ ~ (JoinsLeft(i) /\ e = l)
        BY <1>2, <1>13, <2>1, <3>1
      <3> QED
        BY <1>2, <1>7, <3>1, <3>2
    <2>3. CASE b # i /\ ~ (JoinsLeft(i) /\ b = l)
      <3>1. free_count'[b] = free_count[b] /\ free_count[b] > 0
        BY <1>7, <2>3
      <3> DEFINE x == b + free_count[b]
      <3>2. x \in Index /\ free_count[x] = 0 /\ x = b + L[b] /\ b < x /\ L[b] > 0
        BY <1>1, <3>1 DEF Shape, Coalesced
      <3>3. CASE x = i
        <4>1. i > 0 /\ l \in Index /\ l < i /\ L[l] > 0 /\ l + L[l] = i /\ b < i
          BY <1>3, <3>2, <3>3
        <4>2. b = l
          BY <1>1, <1>2, <3>2, <3>3, <4>1, TilesDisjoint
        <4> QED
          BY <1>5, <2>3, <3>1, <4>1, <4>2
      <3>4. CASE x # i
        <4>1. ~ (JoinsLeft(i) /\ x = l)
          BY <1>5, <3>2
        <4> HIDE DEF x
        <4>2. free_count'[x] = 0
          BY <1>7, <3>2, <3>4, <4>1
        <4> QED
          BY <3>1, <4>2 DEF x
      <3> QED
        BY <3>3, <3>4
    <2> QED
      BY <2>2, <2>3
  <1> QED
    BY <1>15, <1>16, <1>17, <1>18 DEF Shape
-----------------------------------------------------------------------------
(* The blocks a request takes are a natural number.                        *)
LEMMA BlocksForNat ==
  ASSUME NEW s \in Requests
  PROVE  BlocksFor(s) \in Nat
  <1> DEFINE sum == s + (BlockSize - 1)
             word == sum % WordSize
  <1>1. sum \in Nat
    BY BlocksAssumption
  <1> HIDE DEF sum
  <1>2. word \in Nat
    BY <1>1, BlocksAssumption
  <1> HIDE DEF word
  <1>3. word \div BlockSize \in Nat
    BY <1>2, BlocksAssumption
  <1> QED
    BY <1>3 DEF BlocksFor, word, sum

(* Shape speaks of the blocks only.                                        *)
LEMMA ShapeUnchanged ==
  ASSUME Shape, UNCHANGED blocks
  PROVE  Shape'
  BY DEF Shape, blocks, BlocksType, Tiling, Tiles, Length, Coalesced, Owned

(* minim_init establishes the invariant.                                   *)
LEMMA InitInv == Init => IInv
  <1> SUFFICES ASSUME Init PROVE IInv
    OBVIOUS
  <1> USE IndexFacts
  <1>1. NumBlocks \in 0 .. NumBlocks /\ 0 \in 0 .. NumBlocks
    OBVIOUS
  <1>2. BlocksType /\ TypeOK
    BY <1>1 DEF Init, BlocksType, TypeOK, Results
  <1>3. \A b \in Index : alloc_count[b] = 0 /\ free_count[b] = IF b = 0 THEN NumBlocks ELSE 0
    BY DEF Init
  <1>4. Tiles(Lengths)
    <2>1. \A b \in Index : Lengths[b] = IF b = 0 THEN NumBlocks ELSE 0
      BY <1>3 DEF Lengths, Length
    <2> QED
      BY <2>1 DEF Tiles
  <1>5. Tiling /\ Coalesced /\ Owned
    BY <1>3, <1>4 DEF Tiling, Lengths, Coalesced, Owned, Init
  <1>6. PassedOwnNothing
    BY DEF Init, PassedOwnNothing
  <1> QED
    BY <1>2, <1>5, <1>6 DEF IInv, Shape

(* What the other conjuncts of TypeOK and PassedOwnNothing need of an      *)
(* operation that the mutex admits only while no handle is being closed.   *)
LEMMA OpenInv ==
  ASSUME IInv, closing = NULL, UNCHANGED <<closing, fr>>, Shape', ret' \in Results
  PROVE  IInv'
  BY DEF IInv, TypeOK, Shape, BlocksType, PassedOwnNothing

(* minim_alloc keeps the invariant.                                        *)
LEMMA AllocInv ==
  ASSUME IInv, NEW c \in Clients, NEW s \in Requests, minim_alloc(c, s)
  PROVE  IInv'
  <1> DEFINE n == BlocksFor(s)
  <1>1. n \in Nat
    BY BlocksForNat
  <1> HIDE DEF n
  <1>2. closing = NULL /\ UNCHANGED <<closing, fr>> /\ Shape
    BY DEF minim_alloc, IInv
  <1>3. CASE ret' \in Garbage /\ UNCHANGED blocks
    BY <1>2, <1>3, ShapeUnchanged, OpenInv DEF Results
  <1>4. CASE n > 0 /\ \E i \in Index : BestMatch(i, n) /\ Carve(c, i, n) /\ ret' = Region(i, n)
    <2>1. PICK i \in Index : Fits(i, n) /\ Carve(c, i, n) /\ ret' = Region(i, n)
      BY <1>4 DEF BestMatch
    <2>2. n \in 0 .. NumBlocks
      BY <1>1, <1>2, <2>1, IndexFacts DEF Fits, Shape, BlocksType
    <2>3. ret' \in Results
      BY <2>1, <2>2 DEF Results, Garbage
    <2>4. Shape'
      BY <1>1, <1>2, <1>4, <2>1, CarveShape
    <2> QED
      BY <1>2, <2>3, <2>4, OpenInv
  <1>5. CASE ret' = Status("oom") /\ UNCHANGED blocks
    BY <1>2, <1>5, ShapeUnchanged, OpenInv DEF Results
  <1> QED
    BY <1>3, <1>4, <1>5 DEF minim_alloc, n

(* minim_free keeps the invariant.                                         *)
LEMMA FreeInv ==
  ASSUME IInv, NEW c \in Clients, NEW i \in 0 .. NumBlocks, minim_free(c, i)
  PROVE  IInv'
  <1>1. closing = NULL /\ UNCHANGED <<closing, fr>> /\ Shape
    BY DEF minim_free, IInv
  <1>2. ret' \in Results
    BY DEF minim_free, Results
  <1>3. CASE i < NumBlocks /\ alloc_count[i] > 0 /\ Release(i)
    <2>1. i \in Index
      BY <1>3, IndexFacts
    <2> QED
      BY <1>1, <1>2, <1>3, <2>1, ReleaseShape, OpenInv
  <1>4. CASE UNCHANGED blocks
    BY <1>1, <1>2, <1>4, ShapeUnchanged, OpenInv
  <1> QED
    BY <1>3, <1>4 DEF minim_free

(* Every step of minim_free_by_client's scan keeps the invariant.          *)
LEMMA ScanInv ==
  ASSUME IInv, Scan
  PROVE  IInv'
  <1> USE IndexFacts
  <1>1. Shape /\ TypeOK /\ PassedOwnNothing /\ closing # NULL /\ fr \in Int /\ 0 <= fr
    BY DEF IInv, TypeOK, Scan, ScanFree, ScanSkipOther, ScanSkipFree, ScanEnd
  <1>2. CASE ScanFree
    <2>1. fr \in Index /\ alloc_count[fr] > 0 /\ Release(fr)
      BY <1>1, <1>2 DEF ScanFree
    <2>2. Shape'
      BY <1>1, <2>1, ReleaseShape
    <2>3. \A b \in Index : owner'[b] = owner[b] \/ owner'[b] = NULL
      BY <1>1, <2>1 DEF Release, TypeOK
    <2>4. PassedOwnNothing'
      BY <1>1, <1>2, <2>3 DEF ScanFree, PassedOwnNothing
    <2> QED
      BY <1>1, <1>2, <2>2, <2>4 DEF ScanFree, IInv, TypeOK, Shape, BlocksType
  <1>3. ASSUME UNCHANGED <<blocks, closing, ret>>, fr < NumBlocks, fr' = fr + Lengths[fr],
               owner[fr] # closing
        PROVE  IInv'
    <2>1. fr \in Index
      BY <1>1, <1>3
    <2> DEFINE L == Lengths
    <2>2. L \in [Index -> Nat] /\ Tiles(L)
      BY <1>1, ShapeLengths
    <2>3. L[fr] \in Nat /\ fr + L[fr] <= NumBlocks
      BY <1>1, <1>3, <2>1, <2>2, TilesRight
    <2>4. \A b \in Index : fr < b /\ b < fr + L[fr] => owner[b] # closing
      <3>1. \A b \in Index : L[b] = alloc_count[b] + free_count[b] /\ free_count[b] \in Int
                             /\ alloc_count[b] \in Int /\ 0 <= free_count[b] /\ 0 <= alloc_count[b]
        BY <1>1, ShapeLengths
      <3> HIDE DEF L
      <3>2. \A b \in Index : fr < b /\ b < fr + L[fr] => L[b] = 0
        BY <1>1, <2>1, <2>2, <2>3, TilesInside
      <3>3. \A b \in Index : L[b] = 0 => ~ (alloc_count[b] > 0)
        BY <3>1
      <3> QED
        BY <1>1, <3>2, <3>3 DEF Shape, Owned
    <2> HIDE DEF L
    <2>5. \A b \in Index : b < fr + L[fr] => owner[b] # closing
      BY <1>1, <1>3, <2>1, <2>3, <2>4 DEF PassedOwnNothing
    <2>6. PassedOwnNothing'
      BY <1>3, <2>5 DEF PassedOwnNothing, blocks, L
    <2>7. fr' \in 0 .. NumBlocks
      BY <1>1, <1>3, <2>3 DEF L
    <2>8. Shape'
      BY <1>1, <1>3, ShapeUnchanged
    <2> QED
      BY <1>1, <1>3, <2>6, <2>7, <2>8 DEF IInv, TypeOK, blocks
  <1>4. CASE ScanSkipOther
    <2>1. fr \in Index /\ alloc_count[fr] > 0
      BY <1>1, <1>4 DEF ScanSkipOther
    <2>2. Lengths[fr] = alloc_count[fr]
      BY <1>1, <2>1, ShapeLengths
    <2> QED
      BY <1>3, <1>4, <2>2 DEF ScanSkipOther
  <1>5. CASE ScanSkipFree
    <2>1. fr \in Index /\ alloc_count[fr] = 0
      BY <1>1, <1>5 DEF ScanSkipFree
    <2>2. Lengths[fr] = free_count[fr]
      BY <1>1, <2>1, ShapeLengths
    <2>3. owner[fr] # closing
      BY <1>1, <2>1 DEF Shape, Owned
    <2> QED
      BY <1>3, <1>5, <2>2, <2>3 DEF ScanSkipFree
  <1>6. CASE ScanEnd
    <2>1. Shape'
      BY <1>1, <1>6, ShapeUnchanged DEF ScanEnd
    <2> QED
      BY <1>1, <1>6, <2>1 DEF ScanEnd, IInv, TypeOK, PassedOwnNothing, blocks
  <1> QED
    BY <1>2, <1>4, <1>5, <1>6 DEF Scan

(* Every step keeps the invariant.                                         *)
LEMMA NextInv == IInv /\ [Next]_vars => IInv'
  <1> SUFFICES ASSUME IInv, [Next]_vars PROVE IInv'
    OBVIOUS
  <1>1. ASSUME NEW c \in Clients, NEW s \in Requests, minim_alloc(c, s)
        PROVE  IInv'
    BY <1>1, AllocInv
  <1>2. ASSUME NEW c \in Clients, NEW i \in 0 .. NumBlocks, minim_free(c, i)
        PROVE  IInv'
    BY <1>2, FreeInv
  <1>3. ASSUME NEW c \in Clients, minim_free_by_client(c)
        PROVE  IInv'
    <2>1. Shape'
      BY <1>3, ShapeUnchanged DEF minim_free_by_client, IInv
    <2>2. PassedOwnNothing'
      BY <1>3, IndexFacts DEF minim_free_by_client, PassedOwnNothing
    <2>3. TypeOK'
      BY <1>3, IndexFacts DEF minim_free_by_client, blocks, IInv, TypeOK
    <2> QED
      BY <2>1, <2>2, <2>3 DEF IInv
  <1>4. CASE Scan
    BY <1>4, ScanInv
  <1>5. CASE UNCHANGED vars
    <2>1. Shape'
      BY <1>5, ShapeUnchanged DEF vars, blocks, IInv
    <2> QED
      BY <1>5, <2>1 DEF vars, IInv, TypeOK, PassedOwnNothing
  <1> QED
    BY <1>1, <1>2, <1>3, <1>4, <1>5 DEF Next

(* IInv holds in every behaviour.                                          *)
THEOREM Invariance == Spec => []IInv
  BY InitInv, NextInv, PTL DEF Spec

(* Type correctness.                                                       *)
THEOREM TypeCorrect == Spec => []TypeOK
  <1>1. IInv => TypeOK
    BY DEF IInv
  <1> QED
    BY <1>1, Invariance, PTL

(* However a client mixes allocations and frees, superblocks tile the      *)
(* pool: no loop of minim.c leaves the array or misses a run.              *)
THEOREM AlwaysTiled == Spec => []Tiling
  <1>1. IInv => Tiling
    BY DEF IInv, Shape
  <1> QED
    BY <1>1, Invariance, PTL

(* No two free runs are neighbours, so no request fails for want of a      *)
(* join that loc_minim_free_by_idx left out.                               *)
THEOREM AlwaysCoalesced == Spec => []Coalesced
  <1>1. IInv => Coalesced
    BY DEF IInv, Shape
  <1> QED
    BY <1>1, Invariance, PTL

(* When minim_free_by_client returns its client owns nothing.              *)
THEOREM CloseFreesAll == Spec => ClosedOwnsNothing
  <1>1. IInv /\ [Next]_vars =>
          [closing # NULL /\ closing' = NULL => \A i \in Index : owner[i] # closing]_vars
    <2> SUFFICES ASSUME IInv, Next, closing # NULL, closing' = NULL
                 PROVE  \A i \in Index : owner[i] # closing
      OBVIOUS
    <2>1. ScanEnd
      BY DEF Next, minim_alloc, minim_free, minim_free_by_client, Scan,
             ScanFree, ScanSkipOther, ScanSkipFree
    <2> QED
      BY <2>1, IndexFacts DEF ScanEnd, IInv, TypeOK, PassedOwnNothing
  <1> QED
    BY <1>1, Invariance, PTL DEF Spec, ClosedOwnsNothing
-----------------------------------------------------------------------------
(***************************************************************************)
(* Minim implements Pool.                                                  *)
(***************************************************************************)
RunAt(i) == [base |-> i, len |-> alloc_count[i], owner |-> owner[i]]

(* What is held are the runs of the allocated superblocks.                 *)
LEMMA HeldRuns ==
  /\ \A i \in Index : alloc_count[i] > 0 => RunAt(i) \in held
  /\ \A r \in held : \E i \in Index : alloc_count[i] > 0 /\ r = RunAt(i)
  BY DEF held, RunAt

(* The vocabulary of Pool is that of Minim.                                *)
LEMMA PoolNames ==
  /\ P!Index = Index
  /\ P!Garbage = Garbage
  /\ \A s \in Requests : P!BlocksFor(s) = BlocksFor(s)
  /\ \A b, n : P!Region(b, n) = Region(b, n)
  /\ \A st : P!Status(st) = Status(st)
  BY DEF P!Index, Index, P!BlocksFor, BlocksFor, P!Region, Region, P!Status, Status,
         P!Garbage, Garbage

(* The blocks of a free superblock are held by nobody.                     *)
LEMMA FitIsFree ==
  ASSUME Shape, NEW i \in Index, NEW n \in Nat, n > 0, Fits(i, n)
  PROVE  P!FreeRun(i, n)
  <1> DEFINE L == Lengths
  <1> USE IndexFacts
  <1>1. /\ L \in [Index -> Nat] /\ Tiles(L)
        /\ \A b \in Index :
             /\ L[b] = alloc_count[b] + free_count[b]
             /\ alloc_count[b] \in Int /\ 0 <= alloc_count[b]
             /\ free_count[b] \in Int /\ 0 <= free_count[b]
             /\ alloc_count[b] = 0 \/ free_count[b] = 0
    BY ShapeLengths
  <1> HIDE DEF L
  <1>2. free_count[i] >= n /\ L[i] = free_count[i] /\ L[i] > 0 /\ alloc_count[i] = 0
    BY <1>1 DEF Fits
  <1>3. i + n <= NumBlocks
    BY <1>1, <1>2, TilesRight
  <1>4. ASSUME NEW r \in held
        PROVE  r.base + r.len <= i \/ i + n <= r.base
    <2>1. PICK j \in Index : alloc_count[j] > 0 /\ r = RunAt(j)
      BY HeldRuns
    <2>2. r.base = j /\ r.len = L[j] /\ L[j] > 0 /\ j # i
      BY <1>1, <1>2, <2>1 DEF RunAt
    <2>3. j < i => j + L[j] <= i
      BY <1>1, <1>2, <2>2, TilesDisjoint
    <2>4. i < j => i + L[i] <= j
      BY <1>1, <1>2, <2>2, TilesDisjoint
    <2> QED
      BY <1>1, <1>2, <2>2, <2>3, <2>4
  <1> QED
    BY <1>3, <1>4 DEF P!FreeRun

(* If no superblock fits then no run of free blocks does.                  *)
LEMMA NoFitNoRun ==
  ASSUME Shape, NEW n \in Nat, n > 0, ~ \E i \in Index : Fits(i, n)
  PROVE  ~ \E b \in Index : P!FreeRun(b, n)
  <1> DEFINE L == Lengths
  <1> USE IndexFacts
  <1> SUFFICES ASSUME NEW b \in Index, P!FreeRun(b, n)
               PROVE  FALSE
    OBVIOUS
  <1>1. /\ L \in [Index -> Nat] /\ Tiles(L)
        /\ \A k \in Index :
             /\ L[k] = alloc_count[k] + free_count[k]
             /\ alloc_count[k] \in Int /\ 0 <= alloc_count[k]
             /\ free_count[k] \in Int /\ 0 <= free_count[k]
             /\ alloc_count[k] = 0 \/ free_count[k] = 0
    BY ShapeLengths
  <1> HIDE DEF L
  <1>2. /\ b + n <= NumBlocks
        /\ \A k \in Index : alloc_count[k] > 0 => k + alloc_count[k] <= b \/ b + n <= k
    BY HeldRuns DEF P!FreeRun, RunAt
  <1>3. PICK j \in Index : L[j] > 0 /\ j <= b /\ b < j + L[j]
    BY <1>1 DEF Tiles
  <1>4. alloc_count[j] = 0 /\ free_count[j] = L[j]
    BY <1>1, <1>2, <1>3
  <1>5. free_count[j] < n
    BY <1>1, <1>3, <1>4 DEF Fits
  <1> DEFINE x == j + free_count[j]
  <1>6. x \in Index /\ b < x /\ x < b + n /\ L[x] > 0
    BY <1>1, <1>2, <1>3, <1>4, <1>5, TilesRight
  <1>7. free_count[x] = 0
    BY <1>1, <1>3, <1>4, <1>6 DEF Shape, Coalesced
  <1> HIDE DEF x
  <1> QED
    BY <1>1, <1>2, <1>6, <1>7

(* held speaks of the blocks only.                                         *)
LEMMA HeldUnchanged == UNCHANGED blocks => UNCHANGED held
  BY DEF blocks, held

(* Freeing superblock i takes exactly its run out of held.                 *)
LEMMA ReleaseHeld ==
  ASSUME Shape, NEW i \in Index, alloc_count[i] > 0, Release(i)
  PROVE  RunAt(i) \in held /\ held' = held \ {RunAt(i)}
  <1>1. /\ \A b \in Index : alloc_count'[b] = IF b = i THEN 0 ELSE alloc_count[b]
        /\ \A b \in Index : owner'[b] = IF b = i THEN NULL ELSE owner[b]
    BY DEF Release, Shape, BlocksType
  <1>2. held' = {[base |-> b, len |-> alloc_count'[b], owner |-> owner'[b]] :
                   b \in {j \in Index : alloc_count'[j] > 0}}
    BY DEF held
  <1>3. \A r \in held' : r \in held /\ r # RunAt(i)
    BY <1>1, <1>2 DEF held, RunAt
  <1>4. \A r \in held : r # RunAt(i) => r \in held'
    BY <1>1, <1>2 DEF held, RunAt
  <1> QED
    BY <1>3, <1>4, HeldRuns

(* Carving run i hands out exactly that run.                               *)
LEMMA CarveHeld ==
  ASSUME Shape, NEW c \in Clients, NEW i \in Index, NEW n \in Nat, n > 0,
         alloc_count[i] = 0, Carve(c, i, n)
  PROVE  held' = held \cup {[base |-> i, len |-> n, owner |-> c]}
  <1>1. /\ \A b \in Index : alloc_count'[b] = IF b = i THEN n ELSE alloc_count[b]
        /\ \A b \in Index : owner'[b] = IF b = i THEN c ELSE owner[b]
    BY DEF Carve, Shape, BlocksType
  <1>2. held' = {[base |-> b, len |-> alloc_count'[b], owner |-> owner'[b]] :
                   b \in {j \in Index : alloc_count'[j] > 0}}
    BY DEF held
  <1>3. \A r \in held' : r \in held \/ r = [base |-> i, len |-> n, owner |-> c]
    BY <1>1, <1>2 DEF held
  <1>4. held \subseteq held'
    BY <1>1, <1>2 DEF held
  <1>5. [base |-> i, len |-> n, owner |-> c] \in held'
    BY <1>1, <1>2
  <1> QED
    BY <1>3, <1>4, <1>5

(* minim_alloc is an allocation of the pool.                               *)
LEMMA AllocRefines ==
  ASSUME Shape, NEW c \in Clients, NEW s \in Requests, minim_alloc(c, s)
  PROVE  P!Alloc(c, s)
  <1> DEFINE n == BlocksFor(s)
  <1>1. n \in Nat /\ P!BlocksFor(s) = n
    BY BlocksForNat, PoolNames
  <1> HIDE DEF n
  <1>2. closing = NULL /\ UNCHANGED closing
    BY DEF minim_alloc
  <1>3. CASE n = 0 /\ ret' \in Garbage /\ UNCHANGED blocks
    BY <1>1, <1>2, <1>3, HeldUnchanged, PoolNames DEF P!Alloc
  <1>4. CASE n > 0 /\ \E i \in Index : BestMatch(i, n) /\ Carve(c, i, n) /\ ret' = Region(i, n)
    <2>1. PICK i \in Index : Fits(i, n) /\ Carve(c, i, n) /\ ret' = Region(i, n)
      BY <1>4 DEF BestMatch
    <2>2. alloc_count[i] = 0
      BY <2>1, ShapeLengths DEF Fits
    <2>3. held' = held \cup {[base |-> i, len |-> n, owner |-> c]}
      BY <1>1, <1>4, <2>1, <2>2, CarveHeld
    <2>4. P!FreeRun(i, n)
      BY <1>1, <1>4, <2>1, FitIsFree
    <2>5. ret' = P!Region(i, n) /\ i \in P!Index
      BY <2>1, PoolNames
    <2> QED
      BY <1>1, <1>2, <1>4, <2>3, <2>4, <2>5 DEF P!Alloc
  <1>5. CASE n > 0 /\ ~ (\E i \in Index : Fits(i, n)) /\ ret' = Status("oom") /\ UNCHANGED blocks
    <2>1. ~ \E b \in P!Index : P!FreeRun(b, n)
      BY <1>1, <1>5, NoFitNoRun, PoolNames
    <2>2. ret' = P!Status("oom") /\ UNCHANGED held
      BY <1>5, HeldUnchanged, PoolNames
    <2> QED
      BY <1>1, <1>2, <1>5, <2>1, <2>2 DEF P!Alloc
  <1> QED
    BY <1>3, <1>4, <1>5 DEF minim_alloc, n

(* minim_free is a free of the pool.                                       *)
LEMMA FreeRefines ==
  ASSUME Shape, NEW c \in Clients, NEW i \in 0 .. NumBlocks, minim_free(c, i)
  PROVE  P!Free(c, i)
  <1>1. closing = NULL /\ UNCHANGED closing
    BY DEF minim_free
  <1>2. \A r \in held : r.base \in Index /\ r = RunAt(r.base) /\ alloc_count[r.base] > 0
    BY HeldRuns DEF RunAt
  <1>3. i < NumBlocks => i \in Index
    BY IndexFacts
  <1>4. CASE i < NumBlocks /\ alloc_count[i] > 0 /\ owner[i] = c /\ Release(i) /\ ret' = Status("freed")
    <2>1. RunAt(i) \in held /\ held' = held \ {RunAt(i)}
      BY <1>3, <1>4, ReleaseHeld
    <2>2. RunAt(i).base = i /\ RunAt(i).owner = c
      BY <1>4 DEF RunAt
    <2>3. ret' = P!Status("freed")
      BY <1>4, PoolNames
    <2> QED
      BY <1>1, <2>1, <2>2, <2>3 DEF P!Free
  <1>5. CASE i < NumBlocks /\ alloc_count[i] > 0 /\ owner[i] # c /\ ret' = Status("EACCES") /\ UNCHANGED blocks
    <2>1. RunAt(i) \in held /\ RunAt(i).base = i /\ RunAt(i).owner # c
      BY <1>3, <1>5, HeldRuns DEF RunAt
    <2>2. ret' = P!Status("EACCES") /\ UNCHANGED held
      BY <1>5, HeldUnchanged, PoolNames
    <2> QED
      BY <1>1, <2>1, <2>2 DEF P!Free
  <1>6. CASE (i < NumBlocks => alloc_count[i] = 0) /\ ret' = Status("EFAULT") /\ UNCHANGED blocks
    <2>1. \A r \in held : r.base # i
      BY <1>2, <1>6, IndexFacts
    <2>2. ret' = P!Status("EFAULT") /\ UNCHANGED held
      BY <1>6, HeldUnchanged, PoolNames
    <2> QED
      BY <1>1, <2>1, <2>2 DEF P!Free
  <1> QED
    BY <1>4, <1>5, <1>6 DEF minim_free

(* A step of the scan reclaims a run, ends the close, or does not show.    *)
LEMMA ScanRefines ==
  ASSUME IInv, Scan
  PROVE  P!Reclaim \/ P!EndClose \/ UNCHANGED <<held, closing, ret>>
  <1>1. CASE ScanFree
    <2>1. fr \in Index /\ alloc_count[fr] > 0 /\ Release(fr) /\ owner[fr] = closing
          /\ closing # NULL /\ UNCHANGED <<closing, ret>>
      BY <1>1, IndexFacts DEF ScanFree, IInv, TypeOK
    <2>2. RunAt(fr) \in held /\ held' = held \ {RunAt(fr)} /\ RunAt(fr).owner = closing
      BY <2>1, ReleaseHeld DEF IInv, RunAt
    <2> QED
      BY <2>1, <2>2 DEF P!Reclaim
  <1>2. CASE ScanSkipOther \/ ScanSkipFree
    BY <1>2, HeldUnchanged DEF ScanSkipOther, ScanSkipFree
  <1>3. CASE ScanEnd
    <2>1. \A i \in Index : owner[i] # closing
      BY <1>3, IndexFacts DEF ScanEnd, IInv, TypeOK, PassedOwnNothing
    <2>2. \A r \in held : r.owner # closing
      BY <2>1, HeldRuns DEF RunAt
    <2> QED
      BY <1>3, <2>2, HeldUnchanged DEF ScanEnd, P!EndClose
  <1> QED
    BY <1>1, <1>2, <1>3 DEF Scan

(* The allocator implements the pool: runs handed out are disjoint, a      *)
(* request fails only if no run of free blocks is long enough, only the    *)
(* owner frees a run, and closing a handle takes away all that it holds.   *)
THEOREM MinimImplementsPool == Spec => ImplementsPool
  <1>1. Init => P!Init
    <2> SUFFICES ASSUME Init PROVE P!Init
      OBVIOUS
    <2>1. held = {}
      BY DEF Init, held
    <2>2. ret = P!Status("none")
      BY PoolNames DEF Init
    <2> QED
      BY <2>1, <2>2 DEF Init, P!Init
  <1>2. IInv /\ [Next]_vars => [P!Next]_(P!vars)
    <2> SUFFICES ASSUME IInv, [Next]_vars PROVE [P!Next]_(P!vars)
      OBVIOUS
    <2>1. ASSUME NEW c \in Clients, NEW s \in Requests, minim_alloc(c, s)
          PROVE  P!Next
      BY <2>1, AllocRefines DEF IInv, P!Next
    <2>2. ASSUME NEW c \in Clients, NEW i \in 0 .. NumBlocks, minim_free(c, i)
          PROVE  P!Next
      BY <2>2, FreeRefines DEF IInv, P!Next
    <2>3. ASSUME NEW c \in Clients, minim_free_by_client(c)
          PROVE  P!Next
      <3>1. P!BeginClose(c)
        BY <2>3, HeldUnchanged DEF minim_free_by_client, P!BeginClose
      <3> QED
        BY <3>1 DEF P!Next
    <2>4. CASE Scan
      BY <2>4, ScanRefines DEF P!Next, P!vars
    <2>5. CASE UNCHANGED vars
      BY <2>5, HeldUnchanged DEF vars, blocks, P!vars
    <2> QED
      BY <2>1, <2>2, <2>3, <2>4, <2>5 DEF Next
  <1> QED
    BY <1>1, <1>2, Invariance, PTL DEF Spec, P!Spec, ImplementsPool
=============================================================================
