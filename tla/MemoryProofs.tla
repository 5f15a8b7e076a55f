---------------------------- MODULE MemoryProofs ----------------------------
(***************************************************************************)
(* Proofs about Memory.tla, for any memory map, page size, fanout and      *)
(* place of the heap: each frame that allocate_frame returns is used once, *)
(* the page tables that map_to grows stay a tree, in which the walk finds  *)
(* exactly the heap pages mapped so far, and the heap is set up exactly    *)
(* when there are frames enough.                                           *)
(***************************************************************************)
EXTENDS Memory, FiniteSetTheorems, SequenceTheorems, TLAPS

----------------------------------------------------------------------------
(* Arithmetic *)

LEMMA Division ==
    ASSUME NEW x \in Int, NEW m \in Int, m > 0
    PROVE  x = m * (x \div m) + (x % m)
BY Z3

LEMMA DivMod ==
    ASSUME NEW x \in Nat, NEW m \in Nat \ {0}
    PROVE  /\ x \div m \in Nat /\ x % m \in 0 .. (m - 1)
           /\ x = m * (x \div m) + (x % m)
<1>1. x \div m \in Nat /\ x % m \in 0 .. (m - 1)
  OBVIOUS
<1>2. x \in Int /\ m \in Int /\ m > 0
  OBVIOUS
<1>3. x = m * (x \div m) + (x % m)
  BY ONLY <1>2, Division
<1> QED BY <1>1, <1>3

LEMMA MulOrder ==
    ASSUME NEW a \in Nat, NEW b \in Nat, NEW m \in Nat \ {0}, a < b
    PROVE  m * a + m <= m * b
<1> DEFINE d == b - a - 1
<1>1. d \in Nat /\ b = a + 1 + d
  OBVIOUS
<1> HIDE DEF d
<1>2. m * b = m * a + m + m * d
  BY <1>1
<1>3. m * d >= 0
  BY <1>1
<1>4. m * a \in Nat /\ m * b \in Nat /\ m * d \in Nat
  BY <1>1
<1> QED BY <1>2, <1>3, <1>4

\* Two multiples of m are at least m apart.
LEMMA Multiples ==
    ASSUME NEW a \in Nat, NEW b \in Nat, NEW m \in Nat \ {0}, a % m = 0, b % m = 0, a < b
    PROVE  a + m <= b
<1> DEFINE x == a \div m
           y == b \div m
<1>1. x \in Nat /\ y \in Nat /\ a = m * x /\ b = m * y
  BY DivMod
<1> HIDE DEF x, y
<1>2. x < y
  <2>1. CASE y < x
    <3>1. m * y + m <= m * x
      BY <1>1, <2>1, MulOrder
    <3> QED BY <1>1, <3>1
  <2>2. CASE y = x
    BY <1>1, <2>2
  <2> QED BY <1>1, <2>1, <2>2
<1>3. m * x + m <= m * y
  BY <1>1, <1>2, MulOrder
<1> QED BY <1>1, <1>3

LEMMA DivBelow ==
    ASSUME NEW x \in Nat, NEW m \in Nat \ {0}, NEW y \in Nat, x < m * y
    PROVE  x \div m < y
<1> DEFINE q == x \div m
<1>1. q \in Nat /\ x >= m * q /\ m * q \in Nat /\ m * y \in Nat
  BY DivMod
<1> HIDE DEF q
<1>2. CASE y < q
  <2>1. m * y + m <= m * q
    BY <1>1, <1>2, MulOrder
  <2> QED BY <1>1, <2>1
<1>3. CASE y = q
  BY <1>1, <1>3
<1> QED BY <1>1, <1>2, <1>3 DEF q

\* A multiple of m plus a multiple of m is one.
LEMMA MultipleSum ==
    ASSUME NEW a \in Nat, NEW s \in Nat, NEW m \in Nat \ {0}, s <= a, s % m = 0, (a - s) % m = 0
    PROVE  a % m = 0
<1> DEFINE x == s \div m
           y == (a - s) \div m
           z == a \div m
           r == a % m
<1>1. x \in Nat /\ y \in Nat /\ s = m * x /\ a - s = m * y
  BY DivMod
<1>2. z \in Nat /\ r \in 0 .. (m - 1) /\ a = m * z + r
  BY DivMod
<1> HIDE DEF x, y, z, r
<1>3. a = m * (x + y)
  BY <1>1
<1>4. m * z \in Nat /\ m * (x + y) \in Nat
  BY <1>1, <1>2
<1>5. CASE z < x + y
  <2>1. m * z + m <= m * (x + y)
    BY <1>1, <1>2, <1>5, MulOrder
  <2> QED BY <1>2, <1>3, <1>4, <2>1
<1>6. CASE x + y < z
  <2>1. m * (x + y) + m <= m * z
    BY <1>1, <1>2, <1>6, MulOrder
  <2> QED BY <1>2, <1>3, <1>4, <2>1
<1>7. CASE z = x + y
  <2>1. r = 0
    BY <1>2, <1>3, <1>4, <1>7
  <2> QED BY <2>1 DEF r
<1> QED BY <1>1, <1>2, <1>5, <1>6, <1>7

----------------------------------------------------------------------------
(* The frames in the order allocate_frame returns them *)

\* The frame that a counter of n stands for, if there is one.
FrameNo(map, n) == {containing_address(p[2]) : p \in nth(usable_frames(map), n)}

\* What memory the bootloader gave away means for one frame.
UsableIn(map, f) ==
    /\ f >= MIN_USABLE_PA
    /\ \E r \in 1 .. Len(map) :
          LET reg == map[r] IN
          /\ reg.kind = "Usable"
          /\ f >= reg.start /\ f < reg.end
          /\ reg.end % PageSize = 0 => f + PageSize <= reg.end

LEMMA UsablePair ==
    ASSUME NEW map \in Maps, NEW p \in usable_frames(map)
    PROVE  /\ p[1] \in 1 .. Len(map) /\ p[2] \in Nat /\ p = <<p[1], p[2]>>
           /\ map[p[1]].kind = "Usable" /\ map[p[1]].start \in Nat /\ map[p[1]].end \in Nat
           /\ map[p[1]].start <= p[2] /\ p[2] < map[p[1]].end
           /\ p[2] >= MIN_USABLE_PA /\ p[2] % PageSize = 0
           /\ containing_address(p[2]) = p[2]
<1>0. map \in Seq(Region)
  BY MapsAssumption
<1>1. PICK r \in 1 .. Len(map) : p \in {r} \X (map[r].start .. (map[r].end - 1))
  BY DEF usable_frames
<1>2. p[1] = r /\ p[2] \in map[r].start .. (map[r].end - 1) /\ p = <<p[1], p[2]>>
  BY <1>1
<1>3. map[r] \in Region
  BY <1>0, ElementOfSeq
<1>4. map[r].start \in Nat /\ map[r].end \in Nat
  BY <1>3 DEF Region
<1>5. p[2] \in Nat /\ map[r].start <= p[2] /\ p[2] < map[r].end
  BY <1>2, <1>4
<1>6. map[r].kind = "Usable" /\ (p[2] - map[r].start) % PageSize = 0 /\ p[2] >= MIN_USABLE_PA
  BY <1>2 DEF usable_frames
<1>7. map[r].start % PageSize = 0
  BY MapsAssumption
<1>8. p[2] % PageSize = 0
  BY <1>4, <1>5, <1>6, <1>7, MultipleSum, PagingAssumption
<1>9. containing_address(p[2]) = p[2]
  BY <1>5, <1>8 DEF containing_address
<1> QED BY <1>2, <1>4, <1>5, <1>6, <1>8, <1>9

\* Two usable pages of a map start at different addresses.
LEMMA AddressesDiffer ==
    ASSUME NEW map \in Maps, NEW p \in usable_frames(map), NEW q \in usable_frames(map),
           p[2] = q[2]
    PROVE  p = q
<1>1. CASE p[1] = q[1]
  BY <1>1, UsablePair
<1>2. CASE p[1] # q[1]
  <2>1. map[p[1]].end <= map[q[1]].start \/ map[q[1]].end <= map[p[1]].start
    BY <1>2, UsablePair, MapsAssumption
  <2>2. /\ map[p[1]].start <= p[2] /\ p[2] < map[p[1]].end /\ map[p[1]].start \in Nat
        /\ map[p[1]].end \in Nat /\ p[2] \in Nat
    BY UsablePair
  <2>3. /\ map[q[1]].start <= q[2] /\ q[2] < map[q[1]].end /\ map[q[1]].start \in Nat
        /\ map[q[1]].end \in Nat
    BY UsablePair
  <2> QED BY <2>1, <2>2, <2>3
<1> QED BY <1>1, <1>2

LEMMA FramesFinite ==
    ASSUME NEW map \in Maps
    PROVE  IsFiniteSet(usable_frames(map))
<1> DEFINE pages(r) == {r} \X (map[r].start .. (map[r].end - 1))
           all == {pages(r) : r \in 1 .. Len(map)}
<1>1. map \in Seq(Region) /\ Len(map) \in Nat
  BY MapsAssumption, LenProperties
<1>2. IsFiniteSet(1 .. Len(map))
  BY <1>1, FS_Interval
<1>3. IsFiniteSet(all)
  <2> DEFINE f == [r \in 1 .. Len(map) |-> pages(r)]
  <2>1. f \in Surjection(1 .. Len(map), all)
    BY DEF Surjection
  <2> QED BY <1>2, <2>1, FS_Surjection
<1>4. ASSUME NEW r \in 1 .. Len(map) PROVE IsFiniteSet(pages(r))
  <2>1. map[r].start \in Int /\ map[r].end - 1 \in Int
    <3>1. map[r] \in Region
      BY <1>1, ElementOfSeq
    <3> QED BY <3>1 DEF Region
  <2>2. IsFiniteSet(map[r].start .. (map[r].end - 1))
    BY <2>1, FS_Interval
  <2>3. IsFiniteSet({r})
    BY FS_Singleton
  <2> QED BY <2>2, <2>3, FS_Product
<1>5. \A s \in all : IsFiniteSet(s)
  BY <1>4
<1>6. IsFiniteSet(UNION all)
  BY <1>3, <1>5, FS_UNION
<1>7. usable_frames(map) \subseteq UNION all
  BY DEF usable_frames
<1> QED BY <1>6, <1>7, FS_Subset

LEMMA RankOrdered ==
    ASSUME NEW map \in Maps, NEW p \in usable_frames(map), NEW q \in usable_frames(map),
           Before(p, q)
    PROVE  Cardinality({x \in usable_frames(map) : Before(x, p)})
              # Cardinality({x \in usable_frames(map) : Before(x, q)})
<1> DEFINE P == {x \in usable_frames(map) : Before(x, p)}
           Q == {x \in usable_frames(map) : Before(x, q)}
<1>1. \A x \in usable_frames(map) : x[1] \in Int /\ x[2] \in Int
  BY UsablePair
<1>2. P \subseteq Q /\ p \in Q /\ p \notin P
  BY <1>1 DEF Before
<1>3. IsFiniteSet(Q)
  BY FramesFinite, FS_Subset
<1>4. P # Q
  BY <1>2
<1> HIDE DEF P, Q
<1>5. IsFiniteSet(P) /\ Cardinality(P) <= Cardinality(Q) /\ (Cardinality(P) = Cardinality(Q) => P = Q)
  BY <1>2, <1>3, FS_Subset
<1>6. Cardinality(P) # Cardinality(Q)
  BY <1>4, <1>5
<1> QED BY <1>6 DEF P, Q

LEMMA OneInRank ==
    ASSUME NEW map \in Maps, NEW n, NEW p \in nth(usable_frames(map), n),
           NEW q \in nth(usable_frames(map), n)
    PROVE  p = q
<1>1. p \in usable_frames(map) /\ q \in usable_frames(map)
  BY DEF nth
<1>2. Cardinality({x \in usable_frames(map) : Before(x, p)})
         = Cardinality({x \in usable_frames(map) : Before(x, q)})
  BY DEF nth
<1>3. ~Before(p, q) /\ ~Before(q, p)
  BY <1>1, <1>2, RankOrdered
<1>4. p[1] \in Nat /\ p[2] \in Nat /\ q[1] \in Nat /\ q[2] \in Nat
  BY <1>1, UsablePair
<1>5. p[2] = q[2]
  BY <1>3, <1>4 DEF Before
<1> QED BY <1>1, <1>5, AddressesDiffer

\* allocate_frame gives a frame at most, a usable one, and never the same frame
\* for two values of its counter.
LEMMA FrameNumbers ==
    ASSUME NEW map \in Maps
    PROVE  /\ \A n \in Nat : IsOption(FrameNo(map, n))
           /\ \A n \in Nat : \A f \in FrameNo(map, n) :
                 f \in Nat /\ UsableIn(map, f) /\ f \notin DOMAIN BootTables
           /\ \A n, k \in Nat : FrameNo(map, n) \cap FrameNo(map, k) # {} => n = k
<1>1. ASSUME NEW n \in Nat, NEW f \in FrameNo(map, n)
      PROVE  \E p \in nth(usable_frames(map), n) : p \in usable_frames(map) /\ f = p[2]
  BY UsablePair DEF FrameNo, nth
<1>2. ASSUME NEW n \in Nat, NEW f \in FrameNo(map, n)
      PROVE  f \in Nat /\ UsableIn(map, f) /\ f \notin DOMAIN BootTables
  <2>1. PICK p \in usable_frames(map) : f = p[2]
    BY <1>1, <1>2
  <2> DEFINE r == p[1]
  <2>2. /\ r \in 1 .. Len(map) /\ f \in Nat /\ map[r].kind = "Usable" /\ map[r].start \in Nat
        /\ map[r].end \in Nat /\ map[r].start <= f /\ f < map[r].end /\ f >= MIN_USABLE_PA
        /\ f % PageSize = 0
    BY <2>1, UsablePair
  <2>3. map[r].end % PageSize = 0 => f + PageSize <= map[r].end
    BY <2>2, Multiples, PagingAssumption
  <2>4. f \notin DOMAIN BootTables
    <3>1. f \in map[r].start .. (map[r].end - 1)
      BY <2>2
    <3> QED BY <2>2, <3>1, MapsAssumption
  <2> QED BY <2>2, <2>3, <2>4 DEF UsableIn
<1>3. ASSUME NEW n \in Nat, NEW f \in FrameNo(map, n), NEW g \in FrameNo(map, n) PROVE f = g
  <2>1. PICK p \in nth(usable_frames(map), n) : f = p[2]
    BY <1>1, <1>3
  <2>2. PICK q \in nth(usable_frames(map), n) : g = q[2]
    BY <1>1, <1>3
  <2>3. p = q
    BY OneInRank
  <2> QED BY <2>1, <2>2, <2>3
<1>4. ASSUME NEW n \in Nat, NEW k \in Nat, NEW f \in FrameNo(map, n), f \in FrameNo(map, k)
      PROVE  n = k
  <2>1. PICK p \in nth(usable_frames(map), n) : p \in usable_frames(map) /\ f = p[2]
    BY <1>1, <1>4
  <2>2. PICK q \in nth(usable_frames(map), k) : q \in usable_frames(map) /\ f = q[2]
    BY <1>1, <1>4
  <2>3. p = q
    BY <2>1, <2>2, AddressesDiffer
  <2> QED BY <2>3 DEF nth
<1> QED BY <1>2, <1>3, <1>4 DEF IsOption

----------------------------------------------------------------------------
(* Page numbers and the walk *)

LEMMA FourLevels ==
    /\ \A l \in 0 .. 3 : l = 0 \/ l = 1 \/ l = 2 \/ l = 3
    /\ \A l \in 0 .. 3 : l + 1 \in 1 .. 4
    /\ \A l \in 1 .. 4 : l - 1 \in 0 .. 3
    /\ \A l \in 0 .. 4 : l = 4 \/ l \in 0 .. 3
    /\ \A l \in 1 .. 4 : l = 4 \/ l \in 1 .. 3
OBVIOUS

LEMMA PrefixStep ==
    ASSUME NEW pg, NEW l \in 0 .. 3
    PROVE  Prefix(pg, l + 1) = Prefix(pg, l) \div Fanout /\ Index(pg, l + 1) = Prefix(pg, l) % Fanout
<1>1. l = 0 \/ l = 1 \/ l = 2 \/ l = 3
  BY FourLevels
<1>2. l + 1 - 1 = l
  OBVIOUS
<1> QED BY <1>1, <1>2 DEF Prefix, Index

\* A page number has no more digits than the tree has levels.
LEMMA PrefixOfPage ==
    ASSUME NEW pg \in Pages
    PROVE  (\A l \in 0 .. 4 : Prefix(pg, l) \in Nat) /\ Prefix(pg, 4) = 0
<1> DEFINE F == Fanout
           a == pg \div F
           b == a \div F
           c == b \div F
           d == c \div F
<1>0. F \in Nat \ {0}
  BY PagingAssumption
<1> HIDE DEF F
<1>1. pg \in Nat /\ a \in Nat /\ b \in Nat /\ c \in Nat /\ d \in Nat
  <2>1. pg \in Nat
    BY DEF Pages
  <2>2. a \in Nat
    BY <1>0, <2>1, DivMod
  <2>3. b \in Nat
    BY <1>0, <2>2, DivMod
  <2>4. c \in Nat
    BY <1>0, <2>3, DivMod
  <2>5. d \in Nat
    BY <1>0, <2>4, DivMod
  <2> QED BY <2>1, <2>2, <2>3, <2>4, <2>5
<1>2. pg < F * (F * (F * (F * 1)))
  <2>1. F * F \in Nat /\ F * F * F \in Nat /\ F * F * F * F \in Nat
    BY <1>0
  <2>2. F * (F * (F * (F * 1))) = F * F * F * F
    BY <1>0
  <2>3. pg <= F * F * F * F - 1
    BY <2>1 DEF Pages, F
  <2> QED BY <1>1, <2>1, <2>2, <2>3
<1>3. F * 1 \in Nat /\ F * (F * 1) \in Nat /\ F * (F * (F * 1)) \in Nat
  BY <1>0
<1>4. a < F * (F * (F * 1))
  BY <1>0, <1>1, <1>2, <1>3, DivBelow
<1> HIDE DEF a
<1>5. b < F * (F * 1)
  BY <1>0, <1>1, <1>3, <1>4, DivBelow
<1> HIDE DEF b
<1>6. c < F * 1
  BY <1>0, <1>1, <1>3, <1>5, DivBelow
<1> HIDE DEF c
<1>7. d < 1
  BY <1>0, <1>1, <1>6, DivBelow
<1> HIDE DEF d
<1>8. d = 0
  BY <1>1, <1>7
<1>9. Prefix(pg, 0) = pg /\ Prefix(pg, 1) = a /\ Prefix(pg, 2) = b /\ Prefix(pg, 3) = c /\ Prefix(pg, 4) = d
  BY DEF Prefix, a, b, c, d, F
<1>10. \A l \in 0 .. 4 : l = 0 \/ l = 1 \/ l = 2 \/ l = 3 \/ l = 4
  OBVIOUS
<1> QED BY ONLY <1>1, <1>8, <1>9, <1>10

LEMMA IndexOfPage ==
    ASSUME NEW pg \in Pages, NEW l \in 1 .. 4
    PROVE  Index(pg, l) \in 0 .. (Fanout - 1)
<1> DEFINE k == l - 1
<1>1. k \in 0 .. 3 /\ k \in 0 .. 4 /\ k + 1 = l
  BY FourLevels
<1> HIDE DEF k
<1>2. Prefix(pg, k) \in Nat
  BY <1>1, PrefixOfPage
<1>3. Index(pg, k + 1) = Prefix(pg, k) % Fanout
  BY <1>1, PrefixStep
<1> QED BY <1>1, <1>2, <1>3, DivMod, PagingAssumption

\* Two pages agree on a prefix iff they do on the next shorter one and on the
\* index between the two.
LEMMA PrefixSplit ==
    ASSUME NEW pg \in Pages, NEW q \in Pages, NEW l \in 0 .. 3
    PROVE  Prefix(pg, l) = Prefix(q, l)
              <=> Prefix(pg, l + 1) = Prefix(q, l + 1) /\ Index(pg, l + 1) = Index(q, l + 1)
<1> DEFINE x == Prefix(pg, l)
           y == Prefix(q, l)
<1>1. l \in 0 .. 4
  BY FourLevels
<1>2. x \in Nat /\ y \in Nat
  BY <1>1, PrefixOfPage
<1>3. /\ Prefix(pg, l + 1) = x \div Fanout /\ Index(pg, l + 1) = x % Fanout
      /\ Prefix(q, l + 1) = y \div Fanout /\ Index(q, l + 1) = y % Fanout
  BY PrefixStep
<1> HIDE DEF x, y
<1>4. /\ x = Fanout * (x \div Fanout) + (x % Fanout)
      /\ y = Fanout * (y \div Fanout) + (y % Fanout)
  BY <1>2, DivMod, PagingAssumption
<1>5. x = y <=> x \div Fanout = y \div Fanout /\ x % Fanout = y % Fanout
  BY ONLY <1>4
<1> QED BY <1>3, <1>5 DEF x, y

LEMMA WalkStep ==
    ASSUME NEW pg, NEW l \in 0 .. 3
    PROVE  Walk(pg, l) = Below(Walk(pg, l + 1), pg, l + 1)
<1>1. l = 0 \/ l = 1 \/ l = 2 \/ l = 3
  BY FourLevels
<1>2. /\ Walk(pg, 3) = Below(Walk(pg, 4), pg, 4)
      /\ Walk(pg, 2) = Below(Walk(pg, 3), pg, 3)
      /\ Walk(pg, 1) = Below(Walk(pg, 2), pg, 2)
      /\ Walk(pg, 0) = Below(Walk(pg, 1), pg, 1)
  BY DEF Walk
<1> DEFINE k == l + 1
<1>3. (l = 0 => k = 1) /\ (l = 1 => k = 2) /\ (l = 2 => k = 3) /\ (l = 3 => k = 4)
  OBVIOUS
<1> HIDE DEF k
<1>4. Walk(pg, l) = Below(Walk(pg, k), pg, k)
  BY ONLY <1>1, <1>2, <1>3
<1> QED BY <1>4 DEF k

LEMMA WalkStepAfter ==
    ASSUME NEW pg, NEW l \in 0 .. 3
    PROVE  Walk(pg, l)' = Below(Walk(pg, l + 1), pg, l + 1)'
<1>1. l = 0 \/ l = 1 \/ l = 2 \/ l = 3
  BY FourLevels
<1>2. /\ Walk(pg, 3)' = Below(Walk(pg, 4), pg, 4)'
      /\ Walk(pg, 2)' = Below(Walk(pg, 3), pg, 3)'
      /\ Walk(pg, 1)' = Below(Walk(pg, 2), pg, 2)'
      /\ Walk(pg, 0)' = Below(Walk(pg, 1), pg, 1)'
  BY DEF Walk
<1> DEFINE k == l + 1
<1>3. (l = 0 => k = 1) /\ (l = 1 => k = 2) /\ (l = 2 => k = 3) /\ (l = 3 => k = 4)
  OBVIOUS
<1> HIDE DEF k
<1>4. Walk(pg, l)' = Below(Walk(pg, k), pg, k)'
  BY ONLY <1>1, <1>2, <1>3
<1> QED BY <1>4 DEF k

LEMMA WalkRoot == ASSUME NEW pg PROVE Walk(pg, 4) = {Cr3}
BY DEF Walk

\* The walk to a level depends on the page's prefix alone.
LEMMA WalkOfPrefix ==
    ASSUME NEW pg \in Pages, NEW q \in Pages
    PROVE  \A l \in 0 .. 4 : Prefix(pg, l) = Prefix(q, l) => Walk(pg, l) = Walk(q, l)
<1> DEFINE P(l) == Prefix(pg, l) = Prefix(q, l) => Walk(pg, l) = Walk(q, l)
<1>1. P(4)
  BY WalkRoot
<1>2. ASSUME NEW l \in 0 .. 3, P(l + 1) PROVE P(l)
  <2> SUFFICES ASSUME Prefix(pg, l) = Prefix(q, l) PROVE Walk(pg, l) = Walk(q, l)
    OBVIOUS
  <2>1. Prefix(pg, l + 1) = Prefix(q, l + 1) /\ Index(pg, l + 1) = Index(q, l + 1)
    BY PrefixSplit
  <2>2. Walk(pg, l + 1) = Walk(q, l + 1)
    BY <1>2, <2>1
  <2>3. /\ Walk(pg, l) = Below(Walk(pg, l + 1), pg, l + 1)
        /\ Walk(q, l) = Below(Walk(q, l + 1), q, l + 1)
    BY WalkStep
  <2>4. ASSUME NEW ts PROVE Below(ts, pg, l + 1) = Below(ts, q, l + 1)
    BY <2>1 DEF Below
  <2> QED BY <2>2, <2>3, <2>4
<1> HIDE DEF P
<1>3. 0 \in 0 .. 3 /\ 1 \in 0 .. 3 /\ 2 \in 0 .. 3 /\ 3 \in 0 .. 3
  OBVIOUS
<1>4. 0 + 1 = 1 /\ 1 + 1 = 2 /\ 2 + 1 = 3 /\ 3 + 1 = 4
  OBVIOUS
<1>5. P(3)
  BY <1>1, <1>2, <1>3, <1>4
<1>6. P(2)
  BY <1>2, <1>3, <1>4, <1>5
<1>7. P(1)
  BY <1>2, <1>3, <1>4, <1>6
<1>8. P(0)
  BY <1>2, <1>3, <1>4, <1>7
<1>9. \A l \in 0 .. 4 : P(l)
  BY <1>1, <1>5, <1>6, <1>7, <1>8, FourLevels
<1> QED BY <1>9 DEF P

----------------------------------------------------------------------------
(* The inductive invariant *)

Indexes == 0 .. (Fanout - 1)

\* The pages below the root entries that the bootloader left unused.
TreePages == {pg \in Pages : BootTables[Cr3][Index(pg, 4)] = Unused}

TypesInv ==
    /\ memory_map \in Maps
    /\ next \in Nat
    /\ tables = [t \in DOMAIN tables |-> tables[t]]
    /\ \A t \in DOMAIN tables : t \in Nat /\ IsTable(tables[t])
    /\ page \in HeapStart .. (HeapStart + HeapPages)
    /\ IsOption(frame)
    /\ pc \in {"allocate", "map_to", "ok", "error", "initialized", "allocated", "halted"}
    /\ level \in 1 .. 4
    /\ heap \in BOOLEAN

\* The bootloader's tables are still there, with all that it had in them; only
\* the root has new entries.
BootInv ==
    \A t \in DOMAIN BootTables :
        /\ t \in DOMAIN tables
        /\ \A i \in Indexes :
              t # Cr3 \/ BootTables[t][i] # Unused => tables[t][i] = BootTables[t][i]

\* The kernel's tables form a tree below those root entries: what hangs at
\* level 1 to 3 are tables of the kernel's, and two walks meet only as long as
\* the prefixes of their pages agree.
TreeInv ==
    /\ \A pg \in TreePages : \A l \in 1 .. 3 :
          Walk(pg, l) \subseteq DOMAIN tables /\ Walk(pg, l) \cap DOMAIN BootTables = {}
    /\ \A pg, q \in TreePages : \A l, k \in 1 .. 4 :
          Walk(pg, l) \cap Walk(q, k) # {} => l = k /\ Prefix(pg, l) = Prefix(q, k)

\* Table t has an entry i that the kernel set.
Used(t, i) ==
    /\ t \in DOMAIN tables /\ i \in Indexes /\ tables[t][i] # Unused
    /\ t \in DOMAIN BootTables => BootTables[t][i] = Unused

Drawn(o) == \E n \in Nat : n < next /\ o = FrameNo(memory_map, n)

\* Whatever the kernel uses, as a table, in an entry or about to be mapped, was
\* drawn from the allocator, and in one place only.
DrawnInv ==
    /\ \A t \in DOMAIN tables : t \in DOMAIN BootTables \/ Drawn({t})
    /\ \A t, i : Used(t, i) => Drawn(tables[t][i]) /\ tables[t][i] # frame
    /\ \A t, i, u, j : Used(t, i) /\ Used(u, j) /\ tables[t][i] = tables[u][j] => t = u /\ i = j
    /\ frame # {} => Drawn(frame)

\* How far the mapping of the heap has come.
ProgressInv ==
    /\ pc = "map_to" => page \in HeapRange /\ frame # {} /\ Walk(page, level) # {}
    /\ heap => page = HeapStart + HeapPages
    /\ \A pg \in HeapRange : Walk(pg, 0) # {} <=> pg < page

MemInv == TypesInv /\ BootInv /\ TreeInv /\ DrawnInv /\ ProgressInv

LEMMA HeapInTree == HeapRange \subseteq TreePages /\ TreePages \subseteq Pages
BY BootTablesAssumption DEF TreePages

\* The walk never finds more than one table or frame.
LEMMA WalkOption ==
    ASSUME TypesInv, BootInv, TreeInv, NEW pg \in TreePages
    PROVE  /\ \A l \in 0 .. 4 : IsOption(Walk(pg, l))
           /\ \A l \in 1 .. 4 : Walk(pg, l) \subseteq DOMAIN tables
<1>1. \A l \in 1 .. 4 : Walk(pg, l) \subseteq DOMAIN tables
  <2> TAKE l \in 1 .. 4
  <2>1. CASE l = 4
    BY <2>1, WalkRoot, BootTablesAssumption DEF BootInv
  <2>2. CASE l \in 1 .. 3
    BY <2>2 DEF TreeInv
  <2> QED BY <2>1, <2>2, FourLevels
<1> DEFINE P(l) == IsOption(Walk(pg, l))
<1>2. P(4)
  BY WalkRoot, PagingAssumption DEF IsOption
<1>3. ASSUME NEW l \in 0 .. 3, P(l + 1) PROVE P(l)
  <2> DEFINE ts == Walk(pg, l + 1)
             i == Index(pg, l + 1)
  <2>1. ts \subseteq DOMAIN tables /\ i \in Indexes /\ IsOption(ts)
    BY <1>1, <1>3, FourLevels, IndexOfPage, HeapInTree DEF Indexes
  <2>2. Walk(pg, l) = UNION {tables[t][i] : t \in ts}
    BY WalkStep DEF Below
  <2> HIDE DEF ts, i
  <2>3. \A t \in ts : IsOption(tables[t][i])
    BY <2>1 DEF TypesInv, IsTable, Indexes
  <2> QED BY <2>1, <2>2, <2>3 DEF IsOption
<1> HIDE DEF P
<1>4. 0 \in 0 .. 3 /\ 1 \in 0 .. 3 /\ 2 \in 0 .. 3 /\ 3 \in 0 .. 3
  OBVIOUS
<1>5. 0 + 1 = 1 /\ 1 + 1 = 2 /\ 2 + 1 = 3 /\ 3 + 1 = 4
  OBVIOUS
<1>6. P(3)
  BY <1>2, <1>3, <1>4, <1>5
<1>7. P(2)
  BY <1>3, <1>4, <1>5, <1>6
<1>8. P(1)
  BY <1>3, <1>4, <1>5, <1>7
<1>9. P(0)
  BY <1>3, <1>4, <1>5, <1>8
<1>10. \A l \in 0 .. 4 : P(l)
  BY <1>2, <1>6, <1>7, <1>8, <1>9, FourLevels
<1> QED BY <1>1, <1>10 DEF P

----------------------------------------------------------------------------
(* How an entry that map_to sets changes the walks *)

\* The entry for the page at hand is set to `new`, and the tables `fresh` are
\* added, empty.
EntrySet(new, fresh) ==
    /\ tables' = [t \in DOMAIN tables' |-> tables'[t]]
    /\ DOMAIN tables' = DOMAIN tables \cup fresh
    /\ \A t \in fresh : tables'[t] = EmptyTable
    /\ \A t \in DOMAIN tables :
          /\ tables'[t] = [i \in Indexes |-> tables'[t][i]]
          /\ \A i \in Indexes :
                tables'[t][i] = IF t \in Walk(page, level) /\ i = Index(page, level)
                                THEN new ELSE tables[t][i]

\* The walk of pg, once it is.
NewWalk(pg, l, new) ==
    IF l = level - 1 /\ Prefix(pg, l) = Prefix(page, l) THEN new ELSE Walk(pg, l)

LEMMA WalkChanges ==
    ASSUME TypesInv, BootInv, TreeInv, page \in TreePages,
           Walk(page, level) # {}, Entry = Unused,
           NEW new, NEW fresh, EntrySet(new, fresh), fresh \cap DOMAIN tables = {},
           level > 1 => new \subseteq fresh,
           NEW pg \in TreePages
    PROVE  \A l \in 0 .. 4 : Walk(pg, l)' = NewWalk(pg, l, new)
<1> DEFINE P(l) == Walk(pg, l)' = NewWalk(pg, l, new)
<1>0. level \in 1 .. 4 /\ pg \in Pages /\ page \in Pages
  BY HeapInTree DEF TypesInv
<1>1. P(4)
  <2>1. 4 # level - 1
    BY <1>0
  <2>2. Walk(pg, 4) = {Cr3} /\ Walk(pg, 4)' = {Cr3}
    BY DEF Walk
  <2> QED BY <2>1, <2>2 DEF NewWalk
<1>2. ASSUME NEW l \in 0 .. 3, P(l + 1) PROVE P(l)
  <2> DEFINE k == l + 1
             i == Index(pg, k)
             ts == Walk(pg, k)
             us == Walk(pg, k)'
  <2>0. k \in 1 .. 4 /\ l = k - 1 /\ k \in 0 .. 4 /\ l \in 0 .. 4 /\ l # k
    BY FourLevels
  <2>1. i \in Indexes /\ ts \subseteq DOMAIN tables
    BY <1>0, <2>0, IndexOfPage, WalkOption DEF Indexes
  <2>2. Walk(pg, l) = UNION {tables[t][i] : t \in ts}
    BY WalkStep DEF Below
  <2>3. Walk(pg, l)' = UNION {tables'[t][i] : t \in us}
    BY WalkStepAfter DEF Below
  <2>4. us = NewWalk(pg, k, new)
    BY <1>2
  <2>5. Prefix(pg, l) = Prefix(page, l) <=> Prefix(pg, k) = Prefix(page, k) /\ i = Index(page, k)
    BY <1>0, PrefixSplit
  <2> HIDE DEF k, i, ts, us
  <2>6. CASE k = level - 1 /\ Prefix(pg, k) = Prefix(page, k)
    <3>1. us = new /\ new \subseteq fresh /\ l # level - 1
      BY <1>0, <2>0, <2>4, <2>6 DEF NewWalk
    <3>2. \A t \in us : tables'[t][i] = {}
      BY <2>1, <3>1 DEF EntrySet, EmptyTable, Indexes, Unused
    <3>3. Walk(pg, l)' = {}
      BY <2>3, <3>2
    <3>4. Walk(page, k) = {}
      <4>1. Walk(page, k) = Below(Walk(page, level), page, level)
        <5>1. k \in 0 .. 3 /\ k + 1 = level
          BY <1>0, <2>0, <2>6
        <5> QED BY <5>1, WalkStep
      <4> QED BY <4>1 DEF Entry, Unused
    <3>5. ts = {}
      BY <1>0, <2>0, <2>6, <3>4, WalkOfPrefix DEF ts
    <3>6. Walk(pg, l) = {}
      BY <2>2, <3>5
    <3> QED BY <3>1, <3>3, <3>6 DEF NewWalk
  <2>7. CASE ~(k = level - 1 /\ Prefix(pg, k) = Prefix(page, k))
    <3>1. us = ts
      BY <2>4, <2>7 DEF NewWalk, ts
    <3>2. CASE l = level - 1 /\ Prefix(pg, l) = Prefix(page, l)
      <4>1. k = level /\ Prefix(pg, k) = Prefix(page, k) /\ i = Index(page, level)
        BY <1>0, <2>0, <2>5, <3>2
      <4>2. ts = Walk(page, level)
        BY <1>0, <2>0, <4>1, WalkOfPrefix DEF ts
      <4>3. \A t \in ts : tables'[t][i] = new
        BY <2>1, <4>1, <4>2 DEF EntrySet
      <4>4. Walk(pg, l)' = new
        BY <2>3, <3>1, <4>2, <4>3
      <4> QED BY <3>2, <4>4 DEF NewWalk
    <3>3. CASE ~(l = level - 1 /\ Prefix(pg, l) = Prefix(page, l))
      <4>1. ASSUME NEW t \in ts PROVE ~(t \in Walk(page, level) /\ i = Index(page, level))
        <5> SUFFICES ASSUME t \in Walk(page, level), i = Index(page, level) PROVE FALSE
          OBVIOUS
        <5>1. Walk(pg, k) \cap Walk(page, level) # {}
          BY <4>1 DEF ts
        <5>2. k = level /\ Prefix(pg, k) = Prefix(page, level)
          BY <1>0, <2>0, <5>1 DEF TreeInv
        <5> QED BY <1>0, <2>0, <2>5, <3>3, <5>2
      <4>2. \A t \in ts : tables'[t][i] = tables[t][i]
        BY <2>1, <4>1 DEF EntrySet
      <4>3. Walk(pg, l)' = Walk(pg, l)
        BY <2>2, <2>3, <3>1, <4>2
      <4> QED BY <3>3, <4>3 DEF NewWalk
    <3> QED BY <3>2, <3>3
  <2> QED BY <2>6, <2>7
<1> HIDE DEF P
<1>3. 0 \in 0 .. 3 /\ 1 \in 0 .. 3 /\ 2 \in 0 .. 3 /\ 3 \in 0 .. 3
  OBVIOUS
<1>4. 0 + 1 = 1 /\ 1 + 1 = 2 /\ 2 + 1 = 3 /\ 3 + 1 = 4
  OBVIOUS
<1>5. P(3)
  BY <1>1, <1>2, <1>3, <1>4
<1>6. P(2)
  BY <1>2, <1>3, <1>4, <1>5
<1>7. P(1)
  BY <1>2, <1>3, <1>4, <1>6
<1>8. P(0)
  BY <1>2, <1>3, <1>4, <1>7
<1>9. \A l \in 0 .. 4 : P(l)
  BY <1>1, <1>5, <1>6, <1>7, <1>8, FourLevels
<1> QED BY <1>9 DEF P

LEMMA ChangedTables ==
    ASSUME TypesInv, NEW new, NEW fresh, EntrySet(new, fresh), fresh \subseteq Nat, IsOption(new)
    PROVE  /\ tables' = [t \in DOMAIN tables' |-> tables'[t]]
           /\ \A t \in DOMAIN tables' : t \in Nat /\ IsTable(tables'[t])
<1>1. ASSUME NEW t \in fresh PROVE t \in Nat /\ IsTable(tables'[t])
  BY <1>1 DEF EntrySet, EmptyTable, IsTable, IsOption, Unused
<1>2. ASSUME NEW t \in DOMAIN tables PROVE t \in Nat /\ IsTable(tables'[t])
  <2>1. \A i \in Indexes : IsOption(tables[t][i])
    BY DEF TypesInv, IsTable, Indexes
  <2>2. tables'[t] = [i \in Indexes |-> tables'[t][i]]
    BY DEF EntrySet
  <2>3. \A i \in Indexes : IsOption(tables'[t][i])
    BY <2>1 DEF EntrySet
  <2> QED BY <2>2, <2>3 DEF TypesInv, IsTable, Indexes
<1> QED BY <1>1, <1>2 DEF EntrySet

LEMMA ChangedBoot ==
    ASSUME TypesInv, BootInv, TreeInv, page \in TreePages,
           NEW new, NEW fresh, EntrySet(new, fresh)
    PROVE  BootInv'
<1> SUFFICES ASSUME NEW t \in DOMAIN BootTables
             PROVE  /\ t \in DOMAIN tables'
                    /\ \A i \in Indexes :
                          t # Cr3 \/ BootTables[t][i] # Unused => tables'[t][i] = BootTables[t][i]
  BY DEF BootInv
<1>1. t \in DOMAIN tables /\ t \in DOMAIN tables'
  BY DEF BootInv, EntrySet
<1>2. ASSUME NEW i \in Indexes, t # Cr3 \/ BootTables[t][i] # Unused
      PROVE  tables'[t][i] = BootTables[t][i]
  <2>1. ~(t \in Walk(page, level) /\ i = Index(page, level))
    <3> SUFFICES ASSUME t \in Walk(page, level), i = Index(page, level) PROVE FALSE
      OBVIOUS
    <3>1. level = 4
      BY FourLevels DEF TreeInv, TypesInv
    <3>2. t = Cr3
      BY <3>1, WalkRoot
    <3> QED BY <1>2, <3>1, <3>2 DEF TreePages
  <2> QED BY <1>1, <1>2, <2>1 DEF EntrySet, BootInv
<1> QED BY <1>1, <1>2

LEMMA ChangedTree ==
    ASSUME TypesInv, BootInv, TreeInv, page \in TreePages,
           Walk(page, level) # {}, Entry = Unused,
           NEW new, NEW fresh, EntrySet(new, fresh), fresh \cap DOMAIN tables = {},
           level > 1 => new \subseteq fresh
    PROVE  TreeInv'
<1>0. level \in 1 .. 4
  BY DEF TypesInv
<1>1. ASSUME NEW pg \in TreePages, NEW l \in 1 .. 4
      PROVE  Walk(pg, l)' = NewWalk(pg, l, new)
  <2>1. l \in 0 .. 4
    OBVIOUS
  <2> QED BY <2>1, WalkChanges
<1>2. ASSUME NEW pg \in TreePages, NEW l \in 1 .. 4
      PROVE  \/ /\ Walk(pg, l)' \subseteq fresh
                /\ l = level - 1 /\ Prefix(pg, l) = Prefix(page, level - 1)
             \/ /\ Walk(pg, l)' = Walk(pg, l)
                /\ Walk(pg, l) \subseteq DOMAIN tables
  <2>1. Walk(pg, l) \subseteq DOMAIN tables
    BY WalkOption
  <2>2. CASE l = level - 1 /\ Prefix(pg, l) = Prefix(page, l)
    BY <1>0, <1>1, <2>2 DEF NewWalk
  <2>3. CASE ~(l = level - 1 /\ Prefix(pg, l) = Prefix(page, l))
    BY <1>1, <2>1, <2>3 DEF NewWalk
  <2> QED BY <2>2, <2>3
<1>3. ASSUME NEW pg \in TreePages, NEW l \in 1 .. 3
      PROVE  Walk(pg, l)' \subseteq DOMAIN tables' /\ Walk(pg, l)' \cap DOMAIN BootTables = {}
  <2>1. l \in 1 .. 4
    OBVIOUS
  <2>2. fresh \cap DOMAIN BootTables = {}
    BY DEF BootInv
  <2>3. Walk(pg, l) \cap DOMAIN BootTables = {}
    BY DEF TreeInv
  <2> QED BY <1>2, <2>1, <2>2, <2>3 DEF EntrySet
<1>4. ASSUME NEW pg \in TreePages, NEW q \in TreePages, NEW l \in 1 .. 4, NEW k \in 1 .. 4,
             Walk(pg, l)' \cap Walk(q, k)' # {}
      PROVE  l = k /\ Prefix(pg, l) = Prefix(q, k)
  <2>1. CASE Walk(pg, l)' = Walk(pg, l) /\ Walk(q, k)' = Walk(q, k)
    BY <1>4, <2>1 DEF TreeInv
  <2>2. CASE ~(Walk(pg, l)' = Walk(pg, l) /\ Walk(q, k)' = Walk(q, k))
    <3>1. /\ l = level - 1 /\ Prefix(pg, l) = Prefix(page, level - 1)
          /\ k = level - 1 /\ Prefix(q, k) = Prefix(page, level - 1)
      BY <1>2, <1>4, <2>2
    <3> QED BY <3>1
  <2> QED BY <2>1, <2>2
<1> QED BY <1>3, <1>4 DEF TreeInv

\* Where the kernel's entries are afterwards.
LEMMA ChangedUse ==
    ASSUME TypesInv, BootInv, TreeInv, page \in TreePages,
           NEW new, NEW fresh, EntrySet(new, fresh),
           NEW t, NEW i, Used(t, i)'
    PROVE  \/ t \in Walk(page, level) /\ i = Index(page, level) /\ tables'[t][i] = new
           \/ Used(t, i) /\ tables'[t][i] = tables[t][i]
<1>1. t \in DOMAIN tables' /\ i \in Indexes /\ tables'[t][i] # Unused
  BY DEF Used
<1>2. t \in DOMAIN tables
  <2>1. ASSUME t \in fresh PROVE tables'[t] = EmptyTable
    BY <2>1 DEF EntrySet
  <2>2. EmptyTable[i] = Unused
    BY <1>1 DEF EmptyTable, Indexes
  <2> QED BY <1>1, <2>1, <2>2 DEF EntrySet
<1>3. t \in DOMAIN BootTables => BootTables[t][i] = Unused
  BY DEF Used
<1> QED BY <1>1, <1>2, <1>3 DEF EntrySet, Used

LEMMA StillDrawn ==
    ASSUME NEW o, Drawn(o), next \in Nat, next' \in Nat, next <= next', memory_map' = memory_map
    PROVE  \E n \in Nat : n < next' /\ o = FrameNo(memory_map, n)
BY DEF Drawn

\* A frame that is drawn now is nowhere in use.
LEMMA NewFrame ==
    ASSUME TypesInv, DrawnInv
    PROVE  /\ IsOption(Allocated)
           /\ Allocated = FrameNo(memory_map, next)
           /\ Allocated \cap DOMAIN tables = {}
           /\ Allocated \cap DOMAIN BootTables = {}
           /\ \A o : Drawn(o) => Allocated \cap o = {}
<1>1. memory_map \in Maps /\ next \in Nat
  BY DEF TypesInv
<1>2. Allocated = FrameNo(memory_map, next)
  BY DEF Allocated, FrameNo
<1>3. ASSUME NEW o, Drawn(o) PROVE Allocated \cap o = {}
  <2>1. PICK n \in Nat : n < next /\ o = FrameNo(memory_map, n)
    BY <1>3 DEF Drawn
  <2>2. FrameNo(memory_map, next) \cap FrameNo(memory_map, n) # {} => next = n
    BY <1>1, FrameNumbers
  <2> QED BY <1>1, <1>2, <2>1, <2>2
<1>4. IsOption(Allocated) /\ Allocated \cap DOMAIN BootTables = {}
  BY <1>1, <1>2, FrameNumbers
<1>5. Allocated \cap DOMAIN tables = {}
  <2> SUFFICES ASSUME NEW t \in Allocated, t \in DOMAIN tables PROVE FALSE
    OBVIOUS
  <2>1. t \in DOMAIN BootTables \/ Drawn({t})
    BY DEF DrawnInv
  <2> QED BY <1>3, <1>4, <2>1
<1> QED BY <1>2, <1>3, <1>4, <1>5

----------------------------------------------------------------------------
(* The steps *)

LEMMA InitMem == Init => MemInv
<1> SUFFICES ASSUME Init PROVE MemInv
  OBVIOUS
<1>1. tables = BootTables
  BY DEF Init
<1>2. TypesInv
  <2>1. HeapStart \in HeapStart .. (HeapStart + HeapPages)
    BY PagingAssumption
  <2>2. /\ tables = [t \in DOMAIN tables |-> tables[t]]
        /\ \A t \in DOMAIN tables : t \in Nat /\ IsTable(tables[t])
    BY ONLY <1>1, BootTablesAssumption
  <2>3. IsOption(frame)
    BY DEF Init, IsOption
  <2>4. /\ memory_map \in Maps /\ page = HeapStart
        /\ pc = "allocate" /\ heap \in BOOLEAN
        /\ next = 0 /\ level = 4
    BY DEF Init
  <2>5. next \in Nat /\ level \in 1 .. 4
    BY ONLY <2>4
  <2> QED BY <2>1, <2>2, <2>3, <2>4, <2>5 DEF TypesInv
<1>3. BootInv
  BY <1>1 DEF BootInv
<1>4. ASSUME NEW pg \in TreePages PROVE \A l \in 0 .. 3 : Walk(pg, l) = {}
  <2>1. Walk(pg, 3) = {}
    BY <1>1 DEF Walk, Below, TreePages, Unused
  <2>2. Walk(pg, 2) = {} /\ Walk(pg, 1) = {} /\ Walk(pg, 0) = {}
    <3>1. Walk(pg, 2) = Below(Walk(pg, 3), pg, 3)
      BY DEF Walk
    <3>2. Walk(pg, 1) = Below(Walk(pg, 2), pg, 2)
      BY DEF Walk
    <3>3. Walk(pg, 0) = Below(Walk(pg, 1), pg, 1)
      BY DEF Walk
    <3> QED BY <2>1, <3>1, <3>2, <3>3 DEF Below
  <2> QED BY <2>1, <2>2, FourLevels
<1>5. TreeInv
  <2>1. ASSUME NEW pg \in TreePages, NEW l \in 1 .. 3 PROVE Walk(pg, l) = {}
    <3>1. l \in 0 .. 3
      OBVIOUS
    <3> QED BY <1>4, <3>1
  <2>2. ASSUME NEW pg \in TreePages, NEW q \in TreePages, NEW l \in 1 .. 4, NEW k \in 1 .. 4,
               Walk(pg, l) \cap Walk(q, k) # {}
        PROVE  l = k /\ Prefix(pg, l) = Prefix(q, k)
    <3>1. l = 4 /\ k = 4
      BY <2>1, <2>2, FourLevels
    <3>2. Prefix(pg, 4) = 0 /\ Prefix(q, 4) = 0
      BY PrefixOfPage, HeapInTree
    <3> QED BY <3>1, <3>2
  <2> QED BY <2>1, <2>2 DEF TreeInv
<1>6. DrawnInv
  <2>1. \A t, i : ~Used(t, i)
    BY <1>1 DEF Used
  <2>2. frame = {}
    BY DEF Init
  <2> QED BY <1>1, <2>1, <2>2 DEF DrawnInv
<1>7. ProgressInv
  <2>1. \A pg \in HeapRange : Walk(pg, 0) = {} /\ ~(pg < page)
    <3>1. 0 \in 0 .. 3
      OBVIOUS
    <3>2. \A pg \in HeapRange : ~(pg < page)
      BY PagingAssumption DEF HeapRange, Init
    <3> QED BY <1>4, <3>1, <3>2, HeapInTree
  <2> QED BY <2>1 DEF ProgressInv, Init
<1> QED BY <1>2, <1>3, <1>5, <1>6, <1>7 DEF MemInv

LEMMA WalkKept ==
    ASSUME tables' = tables
    PROVE  \A pg, l : Walk(pg, l)' = Walk(pg, l)
BY DEF Walk, Below

\* Steps that leave the tables alone.
LEMMA TreeKept ==
    ASSUME BootInv, TreeInv, tables' = tables
    PROVE  BootInv' /\ TreeInv'
<1>1. \A pg, l : Walk(pg, l)' = Walk(pg, l)
  BY WalkKept
<1>2. BootInv'
  BY DEF BootInv
<1>3. TreeInv'
  BY <1>1 DEF TreeInv
<1> QED BY <1>2, <1>3

LEMMA AllocateStep == MemInv /\ allocate_frame => MemInv'
<1> SUFFICES ASSUME MemInv, allocate_frame PROVE MemInv'
  OBVIOUS
<1>0. TypesInv /\ BootInv /\ TreeInv /\ DrawnInv /\ ProgressInv
  BY DEF MemInv
<1>1. /\ page \in HeapRange /\ next' = next + 1 /\ frame' = Allocated /\ level' = 4
      /\ pc' = (IF Allocated = {} THEN "error" ELSE "map_to")
      /\ memory_map' = memory_map /\ tables' = tables /\ page' = page /\ heap' = heap
  BY DEF allocate_frame, Counted
<1>2. next \in Nat /\ next' \in Nat /\ next <= next' /\ next < next'
  BY <1>0, <1>1 DEF TypesInv
<1>3. TypesInv'
  <2>1. IsOption(frame') /\ level' \in 1 .. 4
    BY <1>0, <1>1, NewFrame
  <2> QED BY <1>0, <1>1, <1>2, <2>1 DEF TypesInv
<1>4. BootInv' /\ TreeInv'
  BY <1>0, <1>1, TreeKept
<1>5. DrawnInv'
  <2>1. \A t, i : Used(t, i)' <=> Used(t, i)
    BY <1>1 DEF Used
  <2>2. \A o : Drawn(o) => \E n \in Nat : n < next' /\ o = FrameNo(memory_map, n)
    BY <1>1, <1>2, StillDrawn
  <2>3. ASSUME NEW t, NEW i, Used(t, i) PROVE tables[t][i] # Allocated
    <3>1. Drawn(tables[t][i]) /\ tables[t][i] # {}
      BY <1>0, <2>3 DEF DrawnInv, Used, Unused
    <3> QED BY <1>0, <3>1, NewFrame
  <2>4. Drawn(frame)'
    BY <1>0, <1>1, <1>2, NewFrame DEF Drawn
  <2>5. \A o : Drawn(o) => Drawn(o)'
    BY <1>1, <2>2 DEF Drawn
  <2> QED BY <1>0, <1>1, <2>1, <2>3, <2>4, <2>5 DEF DrawnInv
<1>6. ProgressInv'
  <2>1. \A pg, l : Walk(pg, l)' = Walk(pg, l)
    BY <1>1, WalkKept
  <2>2. (Walk(page, level) # {})'
    BY <1>1, WalkRoot DEF Walk
  <2>3. pc' = "map_to" => frame' # {}
    BY <1>1
  <2> QED BY <1>0, <1>1, <2>1, <2>2, <2>3 DEF ProgressInv
<1> QED BY <1>3, <1>4, <1>5, <1>6 DEF MemInv

\* What the allocator has given out stays where it is.
LEMMA DrawnKept ==
    ASSUME TypesInv, DrawnInv, tables' = tables, frame' = frame,
           memory_map' = memory_map, next' \in Nat, next <= next'
    PROVE  DrawnInv'
<1>1. \A t, i : Used(t, i)' <=> Used(t, i)
  BY DEF Used
<1>2. next \in Nat
  BY DEF TypesInv
<1>3. \A o : Drawn(o) => \E n \in Nat : n < next' /\ o = FrameNo(memory_map, n)
  BY <1>2, StillDrawn
<1>4. \A o : Drawn(o) => Drawn(o)'
  BY <1>3 DEF Drawn
<1> QED BY <1>1, <1>4 DEF DrawnInv

\* Setting an entry to a frame that is in no other keeps every frame to one use.
LEMMA ChangedDrawn ==
    ASSUME TypesInv, BootInv, TreeInv, DrawnInv, page \in TreePages,
           NEW new, NEW fresh, EntrySet(new, fresh), IsOption(new), new # {},
           fresh \subseteq new,
           memory_map' = memory_map, next' \in Nat, next <= next',
           NEW n \in Nat, n < next', new = FrameNo(memory_map, n),
           \A t, i : Used(t, i) => tables[t][i] # new,
           frame' = {} \/ (frame' = frame /\ new # frame)
    PROVE  DrawnInv'
<1>1. next \in Nat /\ level \in 1 .. 4
  BY DEF TypesInv
<1>2. \A o : Drawn(o) => \E m \in Nat : m < next' /\ o = FrameNo(memory_map, m)
  BY <1>1, StillDrawn
<1>3. \A o : Drawn(o) => Drawn(o)'
  BY <1>2 DEF Drawn
<1>4. \A o : o = new => Drawn(o)'
  BY DEF Drawn
<1>5. ASSUME NEW t, NEW i, Used(t, i)'
      PROVE  \/ t \in Walk(page, level) /\ i = Index(page, level) /\ tables'[t][i] = new
             \/ Used(t, i) /\ tables'[t][i] = tables[t][i]
  BY <1>5, ChangedUse
<1>6. ASSUME NEW t \in DOMAIN tables' PROVE t \in DOMAIN BootTables \/ Drawn({t})'
  <2>1. CASE t \in fresh
    <3>1. {t} = new
      BY <2>1 DEF IsOption
    <3> QED BY <1>4, <3>1
  <2>2. CASE t \in DOMAIN tables
    <3>1. t \in DOMAIN BootTables \/ Drawn({t})
      BY <2>2 DEF DrawnInv
    <3> QED BY <1>3, <3>1
  <2> QED BY <2>1, <2>2 DEF EntrySet
<1>7. ASSUME NEW t, NEW i, Used(t, i)'
      PROVE  Drawn(tables[t][i])' /\ tables'[t][i] # frame'
  <2>1. CASE tables'[t][i] = new
    <3>1. \E m \in Nat : m < next' /\ new = FrameNo(memory_map, m)
      OBVIOUS
    <3> QED BY <2>1, <3>1 DEF Drawn
  <2>2. CASE Used(t, i) /\ tables'[t][i] = tables[t][i]
    <3>1. Drawn(tables[t][i]) /\ tables[t][i] # frame /\ tables[t][i] # {}
      BY <2>2 DEF DrawnInv, Used, Unused
    <3>2. \E m \in Nat : m < next' /\ tables'[t][i] = FrameNo(memory_map, m)
      BY <1>2, <2>2, <3>1
    <3> QED BY <2>2, <3>1, <3>2 DEF Drawn
  <2> QED BY <1>5, <1>7, <2>1, <2>2
<1>8. ASSUME NEW t, NEW i, NEW u, NEW j, Used(t, i)', Used(u, j)', tables'[t][i] = tables'[u][j]
      PROVE  t = u /\ i = j
  <2>1. CASE t \in Walk(page, level) /\ i = Index(page, level) /\ tables'[t][i] = new
    <3>1. u \in Walk(page, level) /\ j = Index(page, level)
      BY <1>5, <1>8, <2>1
    <3>2. IsOption(Walk(page, level))
      <4>1. level \in 0 .. 4
        BY <1>1
      <4> QED BY <4>1, WalkOption
    <3> QED BY <2>1, <3>1, <3>2 DEF IsOption
  <2>2. CASE Used(t, i) /\ tables'[t][i] = tables[t][i]
    <3>1. Used(u, j) /\ tables'[u][j] = tables[u][j]
      BY <1>5, <1>8, <2>2
    <3> QED BY <1>8, <2>2, <3>1 DEF DrawnInv
  <2> QED BY <1>5, <1>8, <2>1, <2>2
<1>9. frame' # {} => Drawn(frame)'
  <2> SUFFICES ASSUME frame' # {} PROVE Drawn(frame)'
    OBVIOUS
  <2>1. frame' = frame /\ Drawn(frame)
    BY DEF DrawnInv
  <2>2. \E m \in Nat : m < next' /\ frame = FrameNo(memory_map, m)
    BY <1>2, <2>1
  <2> QED BY <2>1, <2>2 DEF Drawn
<1> QED BY <1>6, <1>7, <1>8, <1>9 DEF DrawnInv

LEMMA NextTableStep == MemInv /\ next_table => MemInv'
<1> SUFFICES ASSUME MemInv, next_table PROVE MemInv'
  OBVIOUS
<1>0. TypesInv /\ BootInv /\ TreeInv /\ DrawnInv /\ ProgressInv
  BY DEF MemInv
<1>1. /\ pc = "map_to" /\ level > 1 /\ Entry # Unused /\ level' = level - 1
      /\ memory_map' = memory_map /\ next' = next /\ tables' = tables /\ page' = page
      /\ frame' = frame /\ pc' = pc /\ heap' = heap
  BY DEF next_table
<1>2. level \in 1 .. 4 /\ level - 1 \in 1 .. 4 /\ level - 1 \in 0 .. 3 /\ level - 1 + 1 = level
  BY <1>0, <1>1 DEF TypesInv
<1>3. TypesInv'
  BY <1>0, <1>1, <1>2 DEF TypesInv
<1>4. BootInv' /\ TreeInv'
  BY <1>0, <1>1, TreeKept
<1>5. DrawnInv'
  <2>1. next' \in Nat /\ next <= next'
    BY <1>0, <1>1 DEF TypesInv
  <2> QED BY <1>0, <1>1, <2>1, DrawnKept
<1>6. ProgressInv'
  <2>1. \A pg, l : Walk(pg, l)' = Walk(pg, l)
    BY <1>1, WalkKept
  <2>2. Walk(page, level - 1) # {}
    <3>1. Walk(page, level - 1) = Below(Walk(page, level), page, level)
      BY <1>2, WalkStep
    <3> QED BY <1>1, <3>1 DEF Entry, Unused
  <2>3. Walk(page, level)' = Walk(page, level - 1)
    BY <1>1 DEF Walk, Below
  <2> QED BY <1>0, <1>1, <2>1, <2>2, <2>3 DEF ProgressInv
<1> QED BY <1>3, <1>4, <1>5, <1>6 DEF MemInv

\* Steps on the way that set an entry for page, which is in the heap.
LEMMA AtPage ==
    ASSUME MemInv, pc = "map_to"
    PROVE  /\ page \in HeapRange /\ page \in TreePages /\ page \in Pages
           /\ Walk(page, level) # {} /\ frame # {}
           /\ level \in 1 .. 4 /\ next \in Nat
BY HeapInTree DEF MemInv, ProgressInv, TypesInv

LEMMA SetEntryIs ==
    ASSUME TypesInv, NEW new, NEW t \in DOMAIN tables
    PROVE  /\ SetEntry(new)[t] = [i \in Indexes |-> SetEntry(new)[t][i]]
           /\ \A i \in Indexes :
                 SetEntry(new)[t][i] = IF t \in Walk(page, level) /\ i = Index(page, level)
                                       THEN new ELSE tables[t][i]
<1>1. tables[t] = [i \in Indexes |-> tables[t][i]]
  BY DEF TypesInv, IsTable, Indexes
<1>2. SetEntry(new)[t] = IF t \in Walk(page, level)
                         THEN [tables[t] EXCEPT ![Index(page, level)] = new] ELSE tables[t]
  BY DEF SetEntry
<1> DEFINE w == Walk(page, level)
           k == Index(page, level)
           s == SetEntry(new)[t]
           o == tables[t]
<1>3. s = IF t \in w THEN [o EXCEPT ![k] = new] ELSE o
  BY <1>2
<1>4. o = [i \in Indexes |-> o[i]]
  BY <1>1
<1> HIDE DEF w, k, s, o
<1>5. /\ s = [i \in Indexes |-> s[i]]
      /\ \A i \in Indexes : s[i] = IF t \in w /\ i = k THEN new ELSE o[i]
  BY ONLY <1>3, <1>4
<1> QED BY <1>5 DEF w, k, s, o

LEMMA CreatedEntry ==
    ASSUME TypesInv, Allocated \cap DOMAIN tables = {},
           tables' = [t \in DOMAIN tables \cup Allocated |->
                        IF t \in Allocated THEN EmptyTable ELSE SetEntry(Allocated)[t]]
    PROVE  EntrySet(Allocated, Allocated)
<1>1. DOMAIN tables' = DOMAIN tables \cup Allocated
  OBVIOUS
<1>2. \A t \in Allocated : tables'[t] = EmptyTable
  OBVIOUS
<1>3. ASSUME NEW t \in DOMAIN tables PROVE tables'[t] = SetEntry(Allocated)[t]
  OBVIOUS
<1>4. tables' = [t \in DOMAIN tables' |-> tables'[t]]
  OBVIOUS
<1> HIDE DEF SetEntry
<1>5. ASSUME NEW t \in DOMAIN tables
      PROVE  /\ tables'[t] = [i \in Indexes |-> tables'[t][i]]
             /\ \A i \in Indexes :
                   tables'[t][i] = IF t \in Walk(page, level) /\ i = Index(page, level)
                                   THEN Allocated ELSE tables[t][i]
  BY ONLY TypesInv, <1>3, <1>5, SetEntryIs
<1> QED BY ONLY <1>1, <1>2, <1>4, <1>5 DEF EntrySet

LEMMA MappedEntry ==
    ASSUME TypesInv, tables' = SetEntry(frame)
    PROVE  EntrySet(frame, {})
<1>1. DOMAIN tables' = DOMAIN tables \cup {} /\ tables' = [t \in DOMAIN tables' |-> tables'[t]]
  BY DEF SetEntry
<1>2. ASSUME NEW t \in DOMAIN tables
      PROVE  /\ tables'[t] = [i \in Indexes |-> tables'[t][i]]
             /\ \A i \in Indexes :
                   tables'[t][i] = IF t \in Walk(page, level) /\ i = Index(page, level)
                                   THEN frame ELSE tables[t][i]
  <2> DEFINE new == frame
  <2>1. tables'[t] = SetEntry(new)[t]
    OBVIOUS
  <2> HIDE DEF new
  <2>2. /\ tables'[t] = [i \in Indexes |-> tables'[t][i]]
        /\ \A i \in Indexes :
              tables'[t][i] = IF t \in Walk(page, level) /\ i = Index(page, level)
                              THEN new ELSE tables[t][i]
    BY ONLY TypesInv, <1>2, <2>1, SetEntryIs
  <2> QED BY ONLY <2>2 DEF new
<1> QED BY ONLY <1>1, <1>2 DEF EntrySet

LEMMA CreateStep == MemInv /\ create_next_table => MemInv'
<1> SUFFICES ASSUME MemInv, create_next_table PROVE MemInv'
  OBVIOUS
<1>0. TypesInv /\ BootInv /\ TreeInv /\ DrawnInv /\ ProgressInv
  BY DEF MemInv
<1>1. /\ pc = "map_to" /\ level > 1 /\ Entry = Unused /\ next' = next + 1
      /\ memory_map' = memory_map /\ page' = page /\ frame' = frame /\ heap' = heap
  BY DEF create_next_table, Counted
<1>2. /\ page \in HeapRange /\ page \in TreePages /\ page \in Pages
      /\ Walk(page, level) # {} /\ frame # {} /\ level \in 1 .. 4 /\ next \in Nat
  BY <1>1, AtPage
<1>3. next' \in Nat /\ next <= next' /\ next < next'
  BY <1>1, <1>2
<1>4. CASE Allocated = {}
  <2>1. pc' = "error" /\ tables' = tables /\ level' = level
    BY <1>4 DEF create_next_table
  <2>2. TypesInv'
    BY <1>0, <1>1, <1>3, <2>1 DEF TypesInv
  <2>3. BootInv' /\ TreeInv' /\ DrawnInv'
    BY <1>0, <1>1, <1>3, <2>1, TreeKept, DrawnKept
  <2>4. ProgressInv'
    <3>1. \A pg, l : Walk(pg, l)' = Walk(pg, l)
      BY <2>1, WalkKept
    <3> QED BY <1>0, <1>1, <2>1, <3>1 DEF ProgressInv
  <2> QED BY <2>2, <2>3, <2>4 DEF MemInv
<1>5. CASE Allocated # {}
  <2>0. /\ IsOption(Allocated) /\ Allocated = FrameNo(memory_map, next)
        /\ Allocated \cap DOMAIN tables = {}
        /\ \A o : Drawn(o) => Allocated \cap o = {}
    BY <1>0, NewFrame
  <2>1. /\ pc' = pc /\ level' = level - 1
        /\ tables' = [t \in DOMAIN tables \cup Allocated |->
                        IF t \in Allocated THEN EmptyTable ELSE SetEntry(Allocated)[t]]
    BY <1>5 DEF create_next_table
  <2>2. EntrySet(Allocated, Allocated)
    BY <1>0, <2>0, <2>1, CreatedEntry
  <2>3. BootInv' /\ TreeInv'
    BY <1>0, <1>1, <1>2, <2>0, <2>2, ChangedBoot, ChangedTree
  <2>4. TypesInv'
    <3>1. /\ tables' = [t \in DOMAIN tables' |-> tables'[t]]
          /\ \A t \in DOMAIN tables' : t \in Nat /\ IsTable(tables'[t])
      BY <1>0, <2>0, <2>2, ChangedTables DEF IsOption
    <3>2. level' \in 1 .. 4
      BY <1>1, <1>2, <2>1
    <3> QED BY <1>0, <1>1, <1>3, <2>1, <3>1, <3>2 DEF TypesInv
  <2>5. DrawnInv'
    <3>1. \A t, i : Used(t, i) => tables[t][i] # Allocated
      BY <1>0, <1>5, <2>0 DEF DrawnInv
    <3>2. Allocated # frame
      BY <1>0, <1>2, <1>5, <2>0 DEF DrawnInv
    <3> DEFINE new == Allocated
    <3>3. /\ EntrySet(new, new) /\ IsOption(new) /\ new # {} /\ new = FrameNo(memory_map, next)
          /\ new # frame /\ \A t, i : Used(t, i) => tables[t][i] # new
      BY <1>5, <2>0, <2>2, <3>1, <3>2
    <3> HIDE DEF new
    <3> QED BY <1>0, <1>1, <1>2, <1>3, <3>3, ChangedDrawn
  <2>6. ProgressInv'
    <3>1. ASSUME NEW pg \in TreePages, NEW l \in 0 .. 4
          PROVE  Walk(pg, l)' = NewWalk(pg, l, Allocated)
      BY <1>0, <1>1, <1>2, <2>0, <2>2, WalkChanges
    <3>2. \A pg \in HeapRange : Walk(pg, 0)' = Walk(pg, 0)
      <4>1. 0 \in 0 .. 4 /\ 0 # level - 1
        BY <1>1, <1>2
      <4> QED BY <3>1, <4>1, HeapInTree DEF NewWalk
    <3>3. Walk(page, level)' # {}
      <4>1. PICK pg \in TreePages : pg = page
        BY <1>2
      <4>2. PICK l \in 0 .. 4 : l = level - 1
        BY <1>1, <1>2
      <4>3. Walk(pg, l)' = Allocated
        BY <3>1, <4>1, <4>2 DEF NewWalk
      <4>4. Walk(page, level)' = Walk(pg, l)'
        BY <1>1, <2>1, <4>1, <4>2 DEF Walk, Below
      <4> QED BY <1>5, <4>3, <4>4
    <3> QED BY <1>0, <1>1, <1>2, <2>1, <3>2, <3>3 DEF ProgressInv
  <2> QED BY <2>3, <2>4, <2>5, <2>6 DEF MemInv
<1> QED BY <1>4, <1>5

LEMMA MapStep == MemInv /\ map_page => MemInv'
<1> SUFFICES ASSUME MemInv, map_page PROVE MemInv'
  OBVIOUS
<1>0. TypesInv /\ BootInv /\ TreeInv /\ DrawnInv /\ ProgressInv
  BY DEF MemInv
<1>1. /\ pc = "map_to" /\ level = 1 /\ frame' = {} /\ level' = level
      /\ memory_map' = memory_map /\ next' = next /\ heap' = heap
  BY DEF map_page
<1>2. /\ page \in HeapRange /\ page \in TreePages /\ page \in Pages
      /\ Walk(page, level) # {} /\ frame # {} /\ level \in 1 .. 4 /\ next \in Nat
  BY <1>1, AtPage
<1>3. page \in Nat /\ page + 1 \in HeapStart .. (HeapStart + HeapPages)
  BY <1>2, PagingAssumption DEF HeapRange
<1>4. Entry = Unused
  <2>1. Walk(page, 0) = Below(Walk(page, 1), page, 1)
    BY DEF Walk
  <2>2. Walk(page, 0) = {}
    BY <1>0, <1>2, <1>3 DEF ProgressInv
  <2> QED BY <1>1, <2>1, <2>2 DEF Entry, Unused
<1>5. tables' = SetEntry(frame) /\ page' = page + 1 /\ pc' = "allocate"
  BY <1>4 DEF map_page
<1>6. EntrySet(frame, {})
  BY <1>0, <1>5, MappedEntry
<1>7. IsOption(frame)
  BY <1>0 DEF TypesInv
<1>8. BootInv' /\ TreeInv'
  BY <1>0, <1>1, <1>2, <1>4, <1>6, ChangedBoot, ChangedTree
<1>9. TypesInv'
  <2>1. /\ tables' = [t \in DOMAIN tables' |-> tables'[t]]
        /\ \A t \in DOMAIN tables' : t \in Nat /\ IsTable(tables'[t])
    BY <1>0, <1>6, <1>7, ChangedTables
  <2>2. IsOption(frame')
    BY <1>1 DEF IsOption
  <2> QED BY <1>0, <1>1, <1>3, <1>5, <2>1, <2>2 DEF TypesInv
<1>10. DrawnInv'
  <2>1. PICK n \in Nat : n < next /\ frame = FrameNo(memory_map, n)
    BY <1>0, <1>2 DEF DrawnInv, Drawn
  <2>2. \A t, i : Used(t, i) => tables[t][i] # frame
    BY <1>0 DEF DrawnInv
  <2>3. next' \in Nat /\ next <= next' /\ n < next' /\ {} \subseteq frame
    BY <1>1, <1>2, <2>1
  <2> QED BY <1>0, <1>1, <1>2, <1>6, <1>7, <2>1, <2>2, <2>3, ChangedDrawn
<1>11. ProgressInv'
  <2>1. ASSUME NEW pg \in HeapRange
        PROVE  Walk(pg, 0)' = IF pg = page THEN frame ELSE Walk(pg, 0)
    <3>1. 0 \in 0 .. 4 /\ 0 = level - 1 /\ pg \in TreePages
      BY <1>1, HeapInTree
    <3>2. Walk(pg, 0)' = NewWalk(pg, 0, frame)
      BY <1>0, <1>1, <1>2, <1>4, <1>6, <3>1, WalkChanges
    <3>3. Prefix(pg, 0) = pg /\ Prefix(page, 0) = page
      BY DEF Prefix
    <3> QED BY <3>1, <3>2, <3>3 DEF NewWalk
  <2>2. ASSUME NEW pg \in HeapRange PROVE Walk(pg, 0)' # {} <=> pg < page'
    <3>1. pg \in Int /\ page \in Int
      BY <1>3, PagingAssumption DEF HeapRange
    <3>2. Walk(pg, 0) # {} <=> pg < page
      BY <1>0 DEF ProgressInv
    <3>3. pg < page + 1 <=> pg = page \/ pg < page
      BY <3>1
    <3> QED BY <1>2, <1>5, <2>1, <3>2, <3>3
  <2>3. ~heap
    <3>1. page # HeapStart + HeapPages
      BY <1>2, PagingAssumption DEF HeapRange
    <3> QED BY <1>0, <3>1 DEF ProgressInv
  <2> QED BY <1>1, <1>5, <2>2, <2>3 DEF ProgressInv
<1> QED BY <1>8, <1>9, <1>10, <1>11 DEF MemInv

\* The steps that only move on.
LEMMA OtherSteps ==
    MemInv /\ (init_allocator \/ memory_init \/ first_allocation \/ UNCHANGED vars) => MemInv'
<1> SUFFICES ASSUME MemInv, init_allocator \/ memory_init \/ first_allocation \/ UNCHANGED vars
             PROVE  MemInv'
  OBVIOUS
<1>0. TypesInv /\ BootInv /\ TreeInv /\ DrawnInv /\ ProgressInv
  BY DEF MemInv
<1>1. /\ memory_map' = memory_map /\ next' = next /\ tables' = tables /\ page' = page
      /\ frame' = frame /\ level' = level
  BY DEF init_allocator, memory_init, first_allocation, vars
<1>2. /\ pc' = "map_to" => pc = "map_to"
      /\ pc' \in {"allocate", "map_to", "ok", "error", "initialized", "allocated", "halted"}
  BY <1>0 DEF init_allocator, memory_init, first_allocation, vars, TypesInv
<1>3. heap' \in BOOLEAN /\ (heap' => page = HeapStart + HeapPages)
  <2>1. CASE init_allocator
    <3>1. page \in HeapStart .. (HeapStart + HeapPages) /\ page \notin HeapRange
      BY <1>0, <2>1 DEF init_allocator, TypesInv
    <3>2. page = HeapStart + HeapPages
      BY <3>1, PagingAssumption DEF HeapRange
    <3>3. heap' = TRUE
      BY <2>1 DEF init_allocator
    <3> QED BY <3>2, <3>3
  <2>2. CASE heap' = heap
    BY <1>0, <2>2 DEF TypesInv, ProgressInv
  <2> QED BY <2>1, <2>2 DEF memory_init, first_allocation, vars
<1>4. TypesInv'
  BY <1>0, <1>1, <1>2, <1>3 DEF TypesInv
<1>5. BootInv' /\ TreeInv'
  BY <1>0, <1>1, TreeKept
<1>6. DrawnInv'
  <2>1. next' \in Nat /\ next <= next'
    BY <1>0, <1>1 DEF TypesInv
  <2> QED BY <1>0, <1>1, <2>1, DrawnKept
<1>7. ProgressInv'
  <2>1. \A pg, l : Walk(pg, l)' = Walk(pg, l)
    BY <1>1, WalkKept
  <2>2. Walk(page, level)' = Walk(page, level)
    BY <1>1 DEF Walk, Below
  <2> QED BY <1>0, <1>1, <1>2, <1>3, <2>1, <2>2 DEF ProgressInv
<1> QED BY <1>4, <1>5, <1>6, <1>7 DEF MemInv

LEMMA NextMem == MemInv /\ [Next]_vars => MemInv'
BY AllocateStep, NextTableStep, CreateStep, MapStep, OtherSteps DEF Next

LEMMA MemInvariant == Spec => []MemInv
BY InitMem, NextMem, PTL DEF Spec

----------------------------------------------------------------------------
(* The theorems *)

\* The mapping of the heap never leaves its types: the counter, the tables and
\* the page at hand keep their shape whatever map the bootloader reports.
THEOREM TypeCorrect == Spec => []TypeOK
<1>1. MemInv => TypeOK
  <2> SUFFICES ASSUME MemInv PROVE TypeOK
    OBVIOUS
  <2>1. TypesInv
    BY DEF MemInv
  <2>2. memory_map \in Seq(Region)
    BY <2>1, MapsAssumption DEF TypesInv
  <2> QED BY <2>1, <2>2 DEF TypesInv, TypeOK
<1> QED BY <1>1, MemInvariant, PTL

\* No frame is used twice: the frames that allocate_frame hands to the heap and
\* those that map_to takes for tables never coincide, nor with the
\* bootloader's tables.
THEOREM FramesUsedOnce == Spec => []FramesExclusive
<1>1. MemInv => FramesExclusive
  <2> SUFFICES ASSUME MemInv PROVE FramesExclusive
    OBVIOUS
  <2>0. TypesInv /\ DrawnInv
    BY DEF MemInv
  <2>1. ASSUME NEW e \in UsedEntries
        PROVE  e = <<e[1], e[2]>> /\ Used(e[1], e[2])
    BY <2>1 DEF UsedEntries, Used, Indexes
  <2>2. ASSUME NEW o, Drawn(o) PROVE o \cap DOMAIN BootTables = {}
    BY <2>0, <2>2, FrameNumbers DEF Drawn, TypesInv
  <2>3. ASSUME NEW e \in UsedEntries, NEW f \in UsedEntries,
               tables[e[1]][e[2]] = tables[f[1]][f[2]]
        PROVE  e = f
    <3>1. e[1] = f[1] /\ e[2] = f[2]
      BY <2>0, <2>1, <2>3 DEF DrawnInv
    <3> QED BY <2>1, <3>1
  <2>4. ASSUME NEW e \in UsedEntries
        PROVE  tables[e[1]][e[2]] \cap DOMAIN BootTables = {} /\ tables[e[1]][e[2]] # frame
    BY <2>0, <2>1, <2>2 DEF DrawnInv
  <2>5. frame \cap DOMAIN BootTables = {}
    BY <2>0, <2>2 DEF DrawnInv
  <2> QED BY <2>3, <2>4, <2>5 DEF FramesExclusive
<1> QED BY <1>1, MemInvariant, PTL

\* Every frame that the kernel uses is its own to use: it starts at or above
\* MIN_USABLE_PA, inside a region that the bootloader's map calls Usable, and
\* does not stick out of one that ends on a page boundary.
THEOREM OnlyUsableFrames == Spec => []FramesUsable
<1>1. MemInv => FramesUsable
  <2> SUFFICES ASSUME MemInv,
                      NEW f \in frame \cup UNION {tables[e[1]][e[2]] : e \in UsedEntries}
               PROVE  UsableIn(memory_map, f)
    BY DEF FramesUsable, UsableIn
  <2>0. TypesInv /\ DrawnInv
    BY DEF MemInv
  <2>1. ASSUME NEW e \in UsedEntries PROVE Used(e[1], e[2])
    BY <2>1 DEF UsedEntries, Used, Indexes
  <2>2. \E o : f \in o /\ Drawn(o)
    <3>1. CASE f \in frame
      BY <2>0, <3>1 DEF DrawnInv
    <3>2. CASE f \in UNION {tables[e[1]][e[2]] : e \in UsedEntries}
      <4>1. PICK e \in UsedEntries : f \in tables[e[1]][e[2]]
        BY <3>2
      <4>2. Drawn(tables[e[1]][e[2]])
        BY <2>0, <2>1 DEF DrawnInv
      <4> QED BY <4>1, <4>2
    <3> QED BY <3>1, <3>2
  <2>3. PICK n \in Nat : f \in FrameNo(memory_map, n)
    BY <2>2 DEF Drawn
  <2> QED BY <2>0, <2>3, FrameNumbers DEF TypesInv
<1> QED BY <1>1, MemInvariant, PTL

----------------------------------------------------------------------------
(* The page walk *)

\* What the walk in software has after the level above l: the table Walk names.
Followed(r, pg, l) ==
    IF Walk(pg, l) = {} THEN r.result = "None"
    ELSE r.result = "Some" /\ r.frame = Walk(pg, l)

\* Below the root entries that were unused no entry has bit 7.
LEMMA NoBit7 ==
    ASSUME TreeInv, NEW pg \in TreePages, NEW l \in 1 .. 4, NEW t \in Walk(pg, l)
    PROVE  <<t, Index(pg, l)>> \notin Bit7
<1>1. CASE l = 4
  <2>1. t = Cr3
    BY <1>1, WalkRoot
  <2> SUFFICES ASSUME <<t, Index(pg, l)>> \in Bit7 PROVE FALSE
    OBVIOUS
  <2>2. BootTables[<<t, Index(pg, l)>>[1]][<<t, Index(pg, l)>>[2]] # Unused
    BY BootTablesAssumption
  <2> QED BY <1>1, <2>1, <2>2 DEF TreePages
<1>2. CASE l \in 1 .. 3
  <2>1. t \notin DOMAIN BootTables
    BY <1>2 DEF TreeInv
  <2>2. Bit7 \subseteq (DOMAIN BootTables) \X (0 .. (Fanout - 1))
    BY BootTablesAssumption
  <2> QED BY ONLY <2>1, <2>2
<1> QED BY <1>1, <1>2, FourLevels

LEMMA LookStep ==
    ASSUME TypesInv, BootInv, TreeInv, NEW pg \in TreePages, NEW l \in 0 .. 3,
           NEW above, Followed(above, pg, l + 1)
    PROVE  Followed(look(above, pg, l + 1), pg, l)
<1> DEFINE k == l + 1
           i == Index(pg, k)
<1>1. k \in 1 .. 4 /\ k \in 0 .. 4
  OBVIOUS
<1>2. Walk(pg, l) = UNION {tables[t][i] : t \in Walk(pg, k)}
  BY WalkStep DEF Below
<1>3. IsOption(Walk(pg, k))
  BY <1>1, WalkOption
<1>4. \A t \in Walk(pg, k) : <<t, i>> \notin Bit7
  BY <1>1, NoBit7
<1>5. Followed(above, pg, k)
  OBVIOUS
<1> HIDE DEF k, i
<1>6. CASE Walk(pg, k) = {}
  <2>1. Walk(pg, l) = {} /\ look(above, pg, k) = above /\ above.result = "None"
    BY <1>2, <1>5, <1>6 DEF Followed, look
  <2> QED BY <2>1 DEF Followed, k
<1>7. CASE Walk(pg, k) # {}
  <2>1. PICK t \in Walk(pg, k) : t = CHOOSE f \in above.frame : TRUE
    BY <1>5, <1>7 DEF Followed
  <2>2. Walk(pg, k) = {t} /\ above.result = "Some"
    BY <1>3, <1>5, <1>7 DEF IsOption, Followed
  <2>3. Walk(pg, l) = tables[t][i]
    BY <1>2, <2>2
  <2>4. look(above, pg, k) = [result |-> match_frame(entry_frame(t, i)), frame |-> tables[t][i]]
    BY <2>1, <2>2 DEF look, i
  <2>5. entry_frame(t, i) = IF tables[t][i] = {} THEN "FrameNotPresent" ELSE "Ok"
    BY <1>4, <2>1 DEF entry_frame, Unused
  <2>6. match_frame("FrameNotPresent") = "None" /\ match_frame("Ok") = "Some"
    BY DEF match_frame
  <2> QED BY <2>3, <2>4, <2>5, <2>6 DEF Followed, k
<1> QED BY <1>6, <1>7

LEMMA SoftwareWalk ==
    ASSUME TypesInv, BootInv, TreeInv, NEW pg \in TreePages
    PROVE  Followed(virtual_to_physical(pg), pg, 0)
<1> DEFINE r4 == [result |-> "Some", frame |-> {Cr3}]
           r3 == look(r4, pg, 4)
           r2 == look(r3, pg, 3)
           r1 == look(r2, pg, 2)
           r0 == look(r1, pg, 1)
<1>1. /\ 0 \in 0 .. 3 /\ 1 \in 0 .. 3 /\ 2 \in 0 .. 3 /\ 3 \in 0 .. 3
      /\ 0 + 1 = 1 /\ 1 + 1 = 2 /\ 2 + 1 = 3 /\ 3 + 1 = 4
  OBVIOUS
<1>2. Followed(r4, pg, 4)
  BY WalkRoot DEF Followed
<1> HIDE DEF r4
<1>3. Followed(r3, pg, 3)
  BY <1>1, <1>2, LookStep
<1> HIDE DEF r3
<1>4. Followed(r2, pg, 2)
  BY <1>1, <1>3, LookStep
<1> HIDE DEF r2
<1>5. Followed(r1, pg, 1)
  BY <1>1, <1>4, LookStep
<1> HIDE DEF r1
<1>6. Followed(r0, pg, 0)
  BY <1>1, <1>5, LookStep
<1> QED BY <1>6 DEF r4, r3, r2, r1, virtual_to_physical

\* virtual_to_physical finds a frame for the heap pages before `page` and for
\* no other, and ALLOCATOR gets the heap only when that is all of them.
THEOREM HeapIsMapped == Spec => []HeapMapped
<1>1. MemInv => HeapMapped
  <2> SUFFICES ASSUME MemInv PROVE HeapMapped
    OBVIOUS
  <2>0. TypesInv /\ BootInv /\ TreeInv /\ ProgressInv
    BY DEF MemInv
  <2>1. ASSUME NEW pg \in HeapRange
        PROVE  virtual_to_physical(pg).result = "Some" <=> pg < page
    <3>1. Followed(virtual_to_physical(pg), pg, 0)
      BY <2>0, SoftwareWalk, HeapInTree
    <3>2. Walk(pg, 0) # {} <=> pg < page
      BY <2>0 DEF ProgressInv
    <3> QED BY <3>1, <3>2 DEF Followed
  <2>2. heap => page = HeapStart + HeapPages
    BY <2>0 DEF ProgressInv
  <2> QED BY <2>1, <2>2 DEF HeapMapped
<1> QED BY <1>1, MemInvariant, PTL

\* The two walks side by side, after the level l.
Agree(r, c, l) ==
    /\ r.result \in {"Some", "None", "panicked"}
    /\ r.result = "None" <=> c.holds = Unused
    /\ r.result = "Some" => c.level = l /\ r.frame = c.holds /\ ~c.bit7
    /\ r.result = "panicked" <=> c.holds # Unused /\ c.bit7

LEMMA AgreeStep ==
    ASSUME NEW r, NEW c, NEW pg, NEW k, NEW l, Agree(r, c, k)
    PROVE  Agree(look(r, pg, l), Descend(c, pg, l), l)
<1> DEFINE t == CHOOSE f \in r.frame : TRUE
           u == CHOOSE f \in c.holds : TRUE
           i == Index(pg, l)
<1>1. look(r, pg, l) = IF r.result # "Some" THEN r
                       ELSE [result |-> match_frame(entry_frame(t, i)), frame |-> tables[t][i]]
  BY DEF look
<1>2. Descend(c, pg, l) = IF c.bit7 \/ c.holds = Unused THEN c
                          ELSE [level |-> l, holds |-> tables[u][i], bit7 |-> <<u, i>> \in Bit7]
  BY DEF Descend
<1>3. CASE r.result # "Some"
  BY <1>1, <1>2, <1>3 DEF Agree
<1>4. CASE r.result = "Some"
  <2>1. r.frame = c.holds /\ ~c.bit7 /\ c.holds # Unused
    BY <1>4 DEF Agree
  <2>2. t = u
    BY <2>1
  <2> HIDE DEF t, u, i
  <2>3. /\ look(r, pg, l) = [result |-> match_frame(entry_frame(t, i)), frame |-> tables[t][i]]
        /\ Descend(c, pg, l) = [level |-> l, holds |-> tables[t][i], bit7 |-> <<t, i>> \in Bit7]
    BY <1>1, <1>2, <1>4, <2>1, <2>2
  <2>4. entry_frame(t, i) = IF tables[t][i] = Unused THEN "FrameNotPresent"
                            ELSE IF <<t, i>> \in Bit7 THEN "HugeFrame" ELSE "Ok"
    BY DEF entry_frame
  <2>5. /\ match_frame("FrameNotPresent") = "None" /\ match_frame("Ok") = "Some"
        /\ match_frame("HugeFrame") = "panicked"
    BY DEF match_frame
  <2> DEFINE a == look(r, pg, l)
             b == Descend(c, pg, l)
             e == tables[t][i]
             m == <<t, i>> \in Bit7
  <2>6. a.result = match_frame(entry_frame(t, i)) /\ a.frame = e
    BY <2>3
  <2>7. b.level = l /\ b.holds = e /\ (b.bit7 <=> m)
    <3>1. b = [level |-> l, holds |-> e, bit7 |-> m]
      BY <2>3, Zenon
    <3>2. m \in BOOLEAN
      OBVIOUS
    <3> HIDE DEF b, e, m
    <3> QED BY ONLY <3>1, <3>2
  <2> HIDE DEF a, b, e, m
  <2>8. /\ e = Unused => a.result = "None"
        /\ e # Unused /\ m => a.result = "panicked"
        /\ e # Unused /\ ~m => a.result = "Some"
    BY <2>4, <2>5, <2>6 DEF e, m
  <2>9. Agree(a, b, l)
    BY ONLY <2>6, <2>7, <2>8 DEF Agree
  <2> QED BY <2>9 DEF a, b
<1> QED BY <1>3, <1>4

\* virtual_to_physical says of every page what the CPU does with it: None where
\* it faults, the frame where it finds one of 4 KiB, and it panics where bit 7
\* is set.
THEOREM WalkAgrees == Spec => []WalkAgreesWithCpu
<1>1. WalkAgreesWithCpu
  <2> SUFFICES ASSUME NEW pg \in Pages
               PROVE  Agree(virtual_to_physical(pg), Translation(pg), 1)
    BY DEF WalkAgreesWithCpu, Agree
  <2> DEFINE r4 == [result |-> "Some", frame |-> {Cr3}]
             c4 == [level |-> 5, holds |-> {Cr3}, bit7 |-> FALSE]
             r3 == look(r4, pg, 4)
             c3 == Descend(c4, pg, 4)
             r2 == look(r3, pg, 3)
             c2 == Descend(c3, pg, 3)
             r1 == look(r2, pg, 2)
             c1 == Descend(c2, pg, 2)
  <2>1. Agree(r4, c4, 5)
    BY DEF Agree, Unused
  <2>2. virtual_to_physical(pg) = look(r1, pg, 1) /\ Translation(pg) = Descend(c1, pg, 1)
    BY DEF virtual_to_physical, Translation
  <2> HIDE DEF r4, c4
  <2>3. Agree(r3, c3, 4)
    BY <2>1, AgreeStep
  <2> HIDE DEF r3, c3
  <2>4. Agree(r2, c2, 3)
    BY <2>3, AgreeStep
  <2> HIDE DEF r2, c2
  <2>5. Agree(r1, c1, 2)
    BY <2>4, AgreeStep
  <2> HIDE DEF r1, c1
  <2> QED BY <2>2, <2>5, AgreeStep
<1> QED BY <1>1, PTL

----------------------------------------------------------------------------
(* The CPU's walk, over the tables T *)

DescendIn(T, above, pg, lvl) ==
    LET t == CHOOSE f \in above.holds : TRUE
        i == Index(pg, lvl)
    IN  IF above.bit7 \/ above.holds = Unused THEN above
        ELSE [level |-> lvl, holds |-> T[t][i], bit7 |-> <<t, i>> \in Bit7]

Top == [level |-> 5, holds |-> {Cr3}, bit7 |-> FALSE]

LEMMA TranslationIn ==
    ASSUME NEW pg
    PROVE  /\ Translation(pg) =
                 DescendIn(tables, DescendIn(tables, DescendIn(tables, DescendIn(tables,
                     Top, pg, 4), pg, 3), pg, 2), pg, 1)
           /\ Translation(pg)' =
                 DescendIn(tables', DescendIn(tables', DescendIn(tables', DescendIn(tables',
                     Top, pg, 4), pg, 3), pg, 2), pg, 1)
<1>1. \A c, l : Descend(c, pg, l) = DescendIn(tables, c, pg, l)
  BY DEF Descend, DescendIn
<1>2. Translation(pg) = Descend(Descend(Descend(Descend(Top, pg, 4), pg, 3), pg, 2), pg, 1)
  BY DEF Translation, Top
<1>3. Translation(pg) =
          DescendIn(tables, DescendIn(tables, DescendIn(tables, DescendIn(tables,
              Top, pg, 4), pg, 3), pg, 2), pg, 1)
  BY <1>1, <1>2
<1>4. (Translation(pg) =
          DescendIn(tables, DescendIn(tables, DescendIn(tables, DescendIn(tables,
              Top, pg, 4), pg, 3), pg, 2), pg, 1))'
  BY <1>3, PTL
<1> QED BY <1>3, <1>4

\* Tables that only gain entries do not change what is found.
LEMMA DescendKept ==
    ASSUME NEW T, NEW U, NEW pg, NEW l, NEW c, NEW d,
           c.holds # Unused => d = c,
           c.bit7 \/ c.holds \subseteq DOMAIN T,
           Index(pg, l) \in Indexes,
           \A t \in DOMAIN T : \A i \in Indexes : T[t][i] # Unused => U[t][i] = T[t][i]
    PROVE  DescendIn(T, c, pg, l).holds # Unused
              => DescendIn(U, d, pg, l) = DescendIn(T, c, pg, l)
<1> SUFFICES ASSUME DescendIn(T, c, pg, l).holds # Unused
             PROVE  DescendIn(U, d, pg, l) = DescendIn(T, c, pg, l)
  OBVIOUS
<1>1. c.holds # Unused /\ d = c
  BY DEF DescendIn
<1>2. CASE c.bit7
  BY <1>1, <1>2 DEF DescendIn
<1>3. CASE ~c.bit7
  <2> DEFINE t == CHOOSE f \in c.holds : TRUE
             i == Index(pg, l)
             m == <<t, i>> \in Bit7
  <2>1. t \in DOMAIN T /\ i \in Indexes
    BY <1>1, <1>3 DEF Unused
  <2>2. /\ DescendIn(T, c, pg, l) = [level |-> l, holds |-> T[t][i], bit7 |-> m]
        /\ DescendIn(U, c, pg, l) = [level |-> l, holds |-> U[t][i], bit7 |-> m]
    BY <1>1, <1>3, Zenon DEF DescendIn
  <2> HIDE DEF t, i, m
  <2>3. T[t][i] # Unused
    BY <2>2
  <2>4. U[t][i] = T[t][i]
    BY <2>1, <2>3
  <2> QED BY <1>1, <2>2, <2>4
<1> QED BY <1>2, <1>3

LEMMA SetKeeps ==
    ASSUME NEW new, NEW fresh, EntrySet(new, fresh), Entry = Unused,
           NEW t \in DOMAIN tables, NEW i \in Indexes, tables[t][i] # Unused
    PROVE  tables'[t][i] = tables[t][i]
<1>1. ~(t \in Walk(page, level) /\ i = Index(page, level))
  BY DEF Entry, Below, Unused
<1> QED BY <1>1 DEF EntrySet

\* Every step keeps the entries that are in use.
LEMMA EntriesKept ==
    ASSUME MemInv, [Next]_vars
    PROVE  \A t \in DOMAIN tables : \A i \in Indexes :
              tables[t][i] # Unused => tables'[t][i] = tables[t][i]
<1> SUFFICES ASSUME NEW t \in DOMAIN tables, NEW i \in Indexes, tables[t][i] # Unused
             PROVE  tables'[t][i] = tables[t][i]
  OBVIOUS
<1>0. TypesInv /\ DrawnInv
  BY DEF MemInv
<1> DEFINE a == Allocated
           f == frame
<1>1. CASE create_next_table /\ Allocated # {}
  <2>1. Entry = Unused /\ tables' = [u \in DOMAIN tables \cup Allocated |->
                      IF u \in Allocated THEN EmptyTable ELSE SetEntry(Allocated)[u]]
    BY <1>1 DEF create_next_table
  <2>2. EntrySet(a, a)
    BY <1>0, <2>1, NewFrame, CreatedEntry
  <2> HIDE DEF a
  <2> QED BY <2>1, <2>2, SetKeeps
<1>2. CASE map_page /\ Entry = Unused
  <2>1. EntrySet(f, {})
    BY <1>0, <1>2, MappedEntry DEF map_page
  <2> HIDE DEF f
  <2> QED BY <1>2, <2>1, SetKeeps
<1>3. CASE tables' = tables
  BY <1>3
<1>4. (create_next_table /\ Allocated = {}) \/ (map_page /\ Entry # Unused) => tables' = tables
  BY DEF create_next_table, map_page
<1>5. create_next_table \/ map_page \/ tables' = tables
  BY DEF Next, vars, allocate_frame, next_table, init_allocator, memory_init, first_allocation
<1> QED BY <1>1, <1>2, <1>3, <1>4, <1>5

\* Where the CPU's walk stands in the heap's part of the tree.
LEMMA DescendTree ==
    ASSUME TypesInv, BootInv, TreeInv, NEW pg \in TreePages, NEW l \in 0 .. 3, NEW c,
           ~c.bit7, c.holds = Walk(pg, l + 1)
    PROVE  LET d == DescendIn(tables, c, pg, l + 1) IN ~d.bit7 /\ d.holds = Walk(pg, l)
<1> DEFINE k == l + 1
           i == Index(pg, k)
<1>1. k \in 1 .. 4 /\ k \in 0 .. 4
  OBVIOUS
<1>2. Walk(pg, l) = UNION {tables[t][i] : t \in Walk(pg, k)}
  BY WalkStep DEF Below
<1>3. IsOption(Walk(pg, k))
  BY <1>1, WalkOption
<1>4. \A t \in Walk(pg, k) : <<t, i>> \notin Bit7
  BY <1>1, NoBit7
<1>5. c.holds = Walk(pg, k)
  OBVIOUS
<1> HIDE DEF k, i
<1> DEFINE d == DescendIn(tables, c, pg, k)
<1>6. CASE Walk(pg, k) = {}
  <2>1. Walk(pg, l) = {} /\ d = c
    BY <1>2, <1>5, <1>6 DEF DescendIn, Unused
  <2> HIDE DEF d
  <2>2. ~d.bit7 /\ d.holds = Walk(pg, l)
    BY <1>5, <1>6, <2>1
  <2> QED BY <2>2 DEF d, k
<1>7. CASE Walk(pg, k) # {}
  <2> DEFINE t == CHOOSE f \in c.holds : TRUE
             m == <<t, i>> \in Bit7
  <2>1. t \in Walk(pg, k) /\ Walk(pg, k) = {t}
    BY <1>3, <1>5, <1>7 DEF IsOption
  <2>2. d = [level |-> k, holds |-> tables[t][i], bit7 |-> m]
    BY <1>5, <1>7, Zenon DEF DescendIn, i, Unused
  <2>3. m = FALSE
    BY <1>4, <2>1
  <2> HIDE DEF t, m, d
  <2>4. Walk(pg, l) = tables[t][i]
    BY <1>2, <2>1
  <2>5. ~d.bit7 /\ d.holds = Walk(pg, l)
    BY <2>2, <2>3, <2>4
  <2> QED BY <2>5 DEF d, k
<1> QED BY <1>6, <1>7

\* Where it stands in the bootloader's part.
LEMMA DescendBoot ==
    ASSUME TypesInv, BootInv, NEW pg \in Pages, NEW l \in 1 .. 4, NEW c, NEW ts,
           IsOption(ts), ts \subseteq DOMAIN BootTables,
           \A t \in ts : t # Cr3 \/ BootTables[t][Index(pg, l)] # Unused,
           c.bit7 \/ c.holds = ts
    PROVE  /\ LET d == DescendIn(tables, c, pg, l) IN d.bit7 \/ d.holds = BootBelow(ts, pg, l)
           /\ IsOption(BootBelow(ts, pg, l))
<1> DEFINE i == Index(pg, l)
           us == {u \in ts : <<u, i>> \notin Bit7}
           d == DescendIn(tables, c, pg, l)
<1>1. i \in Indexes
  BY IndexOfPage DEF Indexes
<1>2. BootBelow(ts, pg, l) = UNION {BootTables[t][i] : t \in us}
  BY DEF BootBelow
<1>3. \A t \in ts : tables[t][i] = BootTables[t][i] /\ IsOption(BootTables[t][i])
  BY <1>1, BootTablesAssumption DEF BootInv, IsTable, Indexes
<1>4. IsOption(BootBelow(ts, pg, l))
  <2> HIDE DEF i
  <2>1. us \subseteq ts
    OBVIOUS
  <2> HIDE DEF us
  <2> QED BY <1>2, <1>3, <2>1 DEF IsOption
<1>5. CASE c.bit7
  BY <1>4, <1>5 DEF DescendIn
<1>6. CASE ~c.bit7 /\ ts = {}
  <2>1. c.holds = Unused /\ BootBelow(ts, pg, l) = {}
    BY <1>2, <1>6 DEF Unused
  <2>2. d = c
    BY <2>1 DEF DescendIn
  <2> QED BY <1>4, <2>1, <2>2 DEF Unused
<1>7. CASE ~c.bit7 /\ ts # {}
  <2> DEFINE t == CHOOSE f \in c.holds : TRUE
             m == <<t, i>> \in Bit7
  <2>1. t \in ts /\ ts = {t}
    BY <1>7 DEF IsOption
  <2>2. d = [level |-> l, holds |-> tables[t][i], bit7 |-> m]
    BY <1>7, Zenon DEF DescendIn, Unused
  <2>3. ~m => us = {t}
    BY <2>1
  <2>4. m \in BOOLEAN
    OBVIOUS
  <2> HIDE DEF t, m, d, us, i
  <2>5. ~m => BootBelow(ts, pg, l) = tables[t][i]
    BY <1>2, <1>3, <2>1, <2>3
  <2>6. (d.bit7 <=> m) /\ d.holds = tables[t][i]
    BY <2>2, <2>4
  <2>7. d.bit7 \/ d.holds = BootBelow(ts, pg, l)
    BY <2>5, <2>6
  <2> QED BY <1>4, <2>7 DEF d
<1> QED BY <1>5, <1>6, <1>7

\* The tables that the CPU's walk reaches, for any page, are there.
LEMMA TablesReached ==
    ASSUME TypesInv, BootInv, TreeInv, NEW pg \in Pages,
           NEW c3, c3 = DescendIn(tables, Top, pg, 4),
           NEW c2, c2 = DescendIn(tables, c3, pg, 3),
           NEW c1, c1 = DescendIn(tables, c2, pg, 2)
    PROVE  /\ c3.bit7 \/ c3.holds \subseteq DOMAIN tables
           /\ c2.bit7 \/ c2.holds \subseteq DOMAIN tables
           /\ c1.bit7 \/ c1.holds \subseteq DOMAIN tables
<1>0. /\ Top.holds = {Cr3} /\ ~Top.bit7
      /\ 1 \in 0 .. 3 /\ 2 \in 0 .. 3 /\ 3 \in 0 .. 3 /\ 1 + 1 = 2 /\ 2 + 1 = 3 /\ 3 + 1 = 4
      /\ 1 \in 1 .. 4 /\ 2 \in 1 .. 4 /\ 3 \in 1 .. 4 /\ 4 \in 1 .. 4
  BY DEF Top
<1>1. CASE pg \in TreePages
  <2>1. Top.holds = Walk(pg, 4)
    BY <1>0, WalkRoot
  <2>2. ~c3.bit7 /\ c3.holds = Walk(pg, 3)
    BY <1>0, <1>1, <2>1, DescendTree
  <2>3. ~c2.bit7 /\ c2.holds = Walk(pg, 2)
    BY <1>0, <1>1, <2>2, DescendTree
  <2>4. ~c1.bit7 /\ c1.holds = Walk(pg, 1)
    BY <1>0, <1>1, <2>3, DescendTree
  <2>5. \A l \in 1 .. 4 : Walk(pg, l) \subseteq DOMAIN tables
    BY <1>1, WalkOption
  <2> QED BY <1>0, <2>2, <2>3, <2>4, <2>5
<1>2. CASE pg \notin TreePages
  <2> DEFINE b4 == {Cr3}
             b3 == BootBelow(b4, pg, 4)
             b2 == BootBelow(b3, pg, 3)
             b1 == BootBelow(b2, pg, 2)
  <2>1. b3 \cup b2 \cup b1 \subseteq (DOMAIN BootTables) \ {Cr3}
    BY BootTreeAssumption
  <2>2. IsOption(b4) /\ b4 \subseteq DOMAIN BootTables
    BY PagingAssumption, BootTablesAssumption DEF IsOption
  <2>3. \A t \in b4 : t # Cr3 \/ BootTables[t][Index(pg, 4)] # Unused
    BY <1>2 DEF TreePages
  <2>4. Top.bit7 \/ Top.holds = b4
    BY <1>0
  <2> HIDE DEF b4
  <2>5. (c3.bit7 \/ c3.holds = b3) /\ IsOption(b3)
    BY <1>0, <2>2, <2>3, <2>4, DescendBoot
  <2>6. b3 \subseteq DOMAIN BootTables /\ \A t \in b3 : t # Cr3
    BY <2>1
  <2> HIDE DEF b3
  <2>7. (c2.bit7 \/ c2.holds = b2) /\ IsOption(b2)
    BY <1>0, <2>5, <2>6, DescendBoot
  <2>8. b2 \subseteq DOMAIN BootTables /\ \A t \in b2 : t # Cr3
    BY <2>1
  <2> HIDE DEF b2
  <2>9. (c1.bit7 \/ c1.holds = b1) /\ IsOption(b1)
    BY <1>0, <2>7, <2>8, DescendBoot
  <2>10. b1 \subseteq DOMAIN BootTables
    BY <2>1
  <2> HIDE DEF b1
  <2>11. DOMAIN BootTables \subseteq DOMAIN tables
    BY DEF BootInv
  <2> QED BY <2>5, <2>6, <2>7, <2>8, <2>9, <2>10, <2>11
<1> QED BY <1>1, <1>2

\* No step of the mapping changes what the CPU finds for a page that
\* translates, so flushing the mapped page alone leaves nothing stale in the TLB.
THEOREM TranslationsStay == Spec => TranslationStable
<1>1. ASSUME MemInv, [Next]_vars, NEW pg \in Pages, Translation(pg).holds # Unused
      PROVE  Translation(pg)' = Translation(pg)
  <2>0. TypesInv /\ BootInv /\ TreeInv
    BY <1>1 DEF MemInv
  <2>1. PICK T, U : T = tables /\ U = tables'
    OBVIOUS
  <2>2. \A t \in DOMAIN T : \A i \in Indexes : T[t][i] # Unused => U[t][i] = T[t][i]
    BY <1>1, <2>1, EntriesKept
  <2> DEFINE c3 == DescendIn(T, Top, pg, 4)
             c2 == DescendIn(T, c3, pg, 3)
             c1 == DescendIn(T, c2, pg, 2)
             c0 == DescendIn(T, c1, pg, 1)
             d3 == DescendIn(U, Top, pg, 4)
             d2 == DescendIn(U, d3, pg, 3)
             d1 == DescendIn(U, d2, pg, 2)
             d0 == DescendIn(U, d1, pg, 1)
  <2>3. Translation(pg) = c0 /\ Translation(pg)' = d0
    BY <2>1, TranslationIn
  <2>4. /\ Index(pg, 4) \in Indexes /\ Index(pg, 3) \in Indexes
        /\ Index(pg, 2) \in Indexes /\ Index(pg, 1) \in Indexes
    BY IndexOfPage DEF Indexes
  <2>5. Top.holds \subseteq DOMAIN T
    BY <2>0, <2>1, BootTablesAssumption DEF Top, BootInv
  <2>6. /\ c3.bit7 \/ c3.holds \subseteq DOMAIN T
        /\ c2.bit7 \/ c2.holds \subseteq DOMAIN T
        /\ c1.bit7 \/ c1.holds \subseteq DOMAIN T
    <3>1. /\ c3 = DescendIn(tables, Top, pg, 4)
          /\ c2 = DescendIn(tables, c3, pg, 3)
          /\ c1 = DescendIn(tables, c2, pg, 2)
      BY <2>1
    <3> HIDE DEF c3, c2, c1
    <3> QED BY <2>0, <2>1, <3>1, TablesReached
  <2>7. c3.holds # Unused => d3 = c3
    BY <2>2, <2>4, <2>5, DescendKept
  <2> HIDE DEF c3, d3
  <2>8. c2.holds # Unused => d2 = c2
    BY <2>2, <2>4, <2>6, <2>7, DescendKept
  <2> HIDE DEF c2, d2
  <2>9. c1.holds # Unused => d1 = c1
    BY <2>2, <2>4, <2>6, <2>8, DescendKept
  <2> HIDE DEF c1, d1
  <2>10. c0.holds # Unused => d0 = c0
    BY <2>2, <2>4, <2>6, <2>9, DescendKept
  <2> QED BY <1>1, <2>3, <2>10
<1>2. MemInv /\ [Next]_vars
         => [\A pg \in Pages :
                Translation(pg).holds # Unused => Translation(pg)' = Translation(pg)]_vars
  BY <1>1
<1> QED BY <1>2, MemInvariant, PTL DEF Spec, TranslationStable

----------------------------------------------------------------------------
(* How many frames the mapping takes *)

\* The counter runs through as many frames as there are usable ones: rank is a
\* bijection from them onto the values below their number.
LEMMA FrameExists ==
    ASSUME NEW map \in Maps, NEW n \in Nat
    PROVE  FrameNo(map, n) # {} <=> n < Cardinality(usable_frames(map))
<1> DEFINE U == usable_frames(map)
           N == Cardinality(U)
           low(p) == {q \in U : Before(q, p)}
           top == N - 1
           rank == [p \in U |-> Cardinality(low(p))]
<1>1. IsFiniteSet(U) /\ N \in Nat
  BY FramesFinite, FS_CardinalityType
<1>2. ASSUME NEW p \in U PROVE Cardinality(low(p)) \in 0 .. top
  <2>1. p \notin low(p)
    BY UsablePair DEF Before
  <2>2. low(p) \subseteq U /\ low(p) # U
    BY <2>1
  <2> HIDE DEF low, U
  <2>3. IsFiniteSet(low(p)) /\ Cardinality(low(p)) <= N /\ Cardinality(low(p)) # N
    BY <1>1, <2>2, FS_Subset
  <2>4. Cardinality(low(p)) \in Nat
    BY <2>3, FS_CardinalityType
  <2> QED BY <1>1, <2>3, <2>4
<1>3. ASSUME NEW p \in U, NEW q \in U, Cardinality(low(p)) = Cardinality(low(q)) PROVE p = q
  <2>1. p \in nth(U, Cardinality(low(p))) /\ q \in nth(U, Cardinality(low(p)))
    BY <1>3 DEF nth
  <2> QED BY <2>1, OneInRank
<1>4. FrameNo(map, n) # {} <=> \E p \in U : Cardinality(low(p)) = n
  BY DEF FrameNo, nth
<1> HIDE DEF low, U
<1>5. rank \in Injection(U, 0 .. top)
  <2> DEFINE values == 0 .. top
  <2>1. \A p \in U : rank[p] = Cardinality(low(p)) /\ rank[p] \in values
    BY <1>2
  <2>2. rank \in [U -> values]
    BY <1>2
  <2> HIDE DEF rank, values
  <2>3. \A p, q \in U : rank[p] = rank[q] => p = q
    BY <1>3, <2>1
  <2>4. rank \in Injection(U, values)
    BY <2>2, <2>3 DEF Injection, IsInjective
  <2> QED BY <2>4 DEF values
<1>6. IsFiniteSet(0 .. top) /\ Cardinality(0 .. top) = N
  <2>1. 0 \in Int /\ top \in Int /\ (IF 0 > top THEN 0 ELSE top - 0 + 1) = N
    BY <1>1
  <2> HIDE DEF top, N
  <2> QED BY <2>1, FS_Interval
<1>7. rank \in Surjection(U, 0 .. top)
  BY <1>5, <1>6, FS_Injection
<1>8. \A k \in 0 .. top : \E p \in U : Cardinality(low(p)) = k
  BY <1>7 DEF Surjection
<1>9. n \in 0 .. top <=> n < N
  BY <1>1
<1> HIDE DEF top, N
<1>10. FrameNo(map, n) # {} <=> n < N
  BY <1>2, <1>4, <1>8, <1>9
<1> QED BY <1>10 DEF N, U

\* The tables that the heap's pages need, by level and prefix, and those of
\* them that are there.
TablesNeeded == UNION {{<<lvl, Prefix(pg, lvl)>> : pg \in HeapRange} : lvl \in 1 .. 3}

Made ==
    {x \in TablesNeeded : \E pg \in HeapRange : x = <<x[1], Prefix(pg, x[1])>> /\ Walk(pg, x[1]) # {}}

Frames == Cardinality(usable_frames(memory_map))

\* While the heap is being mapped, the counter stands at the number of its
\* pages mapped plus that of the tables made, plus the frame at hand; what has
\* become of it afterwards is a matter of how many frames there are.
CountInv ==
    /\ pc \in {"allocate", "map_to"} => ~heap /\ next <= Frames
    /\ pc = "allocate" => next = page - HeapStart + Cardinality(Made)
    /\ pc = "map_to" => next = page - HeapStart + Cardinality(Made) + 1
    /\ pc \notin {"allocate", "map_to"} => (heap <=> Frames >= Needed)

LEMMA NeededFinite == IsFiniteSet(TablesNeeded)
<1> DEFINE row(l) == {<<l, Prefix(pg, l)>> : pg \in HeapRange}
           all == {row(l) : l \in 1 .. 3}
<1>1. HeapStart \in Int /\ HeapStart + HeapPages - 1 \in Int
  BY PagingAssumption
<1>2. IsFiniteSet(HeapRange)
  BY <1>1, FS_Interval DEF HeapRange
<1>3. ASSUME NEW l \in 1 .. 3 PROVE IsFiniteSet(row(l))
  <2> DEFINE f == [pg \in HeapRange |-> <<l, Prefix(pg, l)>>]
  <2>1. f \in Surjection(HeapRange, row(l))
    BY DEF Surjection
  <2> QED BY <1>2, <2>1, FS_Surjection
<1>4. IsFiniteSet(all)
  <2> DEFINE f == [l \in 1 .. 3 |-> row(l)]
  <2>1. f \in Surjection(1 .. 3, all)
    BY DEF Surjection
  <2>2. 1 \in Int /\ 3 \in Int
    OBVIOUS
  <2>3. IsFiniteSet(1 .. 3)
    BY <2>2, FS_Interval
  <2> QED BY <2>1, <2>3, FS_Surjection
<1>5. \A s \in all : IsFiniteSet(s)
  BY <1>3
<1>6. IsFiniteSet(UNION all)
  BY <1>4, <1>5, FS_UNION
<1> QED BY <1>6 DEF TablesNeeded

LEMMA MadeCount ==
    /\ Made \subseteq TablesNeeded /\ IsFiniteSet(Made) /\ Cardinality(Made) \in Nat
    /\ Cardinality(TablesNeeded) \in Nat
    /\ Cardinality(Made) <= Cardinality(TablesNeeded)
    /\ Made # TablesNeeded => Cardinality(Made) < Cardinality(TablesNeeded)
<1>1. Made \subseteq TablesNeeded
  BY DEF Made
<1>2. /\ IsFiniteSet(Made) /\ Cardinality(Made) <= Cardinality(TablesNeeded)
      /\ (Cardinality(TablesNeeded) = Cardinality(Made) => TablesNeeded = Made)
  BY <1>1, NeededFinite, FS_Subset
<1>3. Cardinality(Made) \in Nat /\ Cardinality(TablesNeeded) \in Nat
  BY <1>2, NeededFinite, FS_CardinalityType
<1> QED BY <1>1, <1>2, <1>3

LEMMA NeededIs == Needed = HeapPages + Cardinality(TablesNeeded)
BY DEF Needed, TablesNeeded

\* A table is made when the walk of a page that needs it finds it.
LEMMA MadeIs ==
    ASSUME NEW pg \in HeapRange, NEW l \in 1 .. 3
    PROVE  <<l, Prefix(pg, l)>> \in Made <=> Walk(pg, l) # {}
<1> DEFINE x == <<l, Prefix(pg, l)>>
<1>1. x \in TablesNeeded
  BY DEF TablesNeeded
<1>2. ASSUME Walk(pg, l) # {} PROVE x \in Made
  BY <1>1, <1>2 DEF Made
<1>3. ASSUME x \in Made PROVE Walk(pg, l) # {}
  <2>1. PICK q \in HeapRange : x = <<x[1], Prefix(q, x[1])>> /\ Walk(q, x[1]) # {}
    BY <1>3 DEF Made
  <2>2. Prefix(q, l) = Prefix(pg, l) /\ Walk(q, l) # {}
    BY <2>1
  <2>3. l \in 0 .. 4 /\ q \in Pages /\ pg \in Pages
    BY HeapInTree
  <2> QED BY <2>2, <2>3, WalkOfPrefix
<1> QED BY <1>2, <1>3

LEMMA NeededElement ==
    ASSUME NEW x \in TablesNeeded
    PROVE  \E pg \in HeapRange, l \in 1 .. 3 : x = <<l, Prefix(pg, l)>>
BY DEF TablesNeeded

\* Steps that leave the tables alone make none.
LEMMA MadeKept ==
    ASSUME \A pg \in HeapRange : \A l \in 1 .. 3 : Walk(pg, l)' = Walk(pg, l)
    PROVE  Made' = Made
<1>1. TablesNeeded' = TablesNeeded
  OBVIOUS
<1>2. \A x \in TablesNeeded : x[1] \in 1 .. 3
  BY NeededElement
<1> QED BY <1>2 DEF Made

\* A step that leaves the memory map alone leaves the number of frames.
LEMMA FramesKept ==
    ASSUME memory_map' = memory_map
    PROVE  Frames' = Frames /\ Needed' = Needed
<1>1. Frames' = Frames
  BY DEF Frames
<1> QED BY <1>1

LEMMA FramesNumber ==
    ASSUME TypesInv
    PROVE  /\ Frames \in Nat /\ Needed \in Nat /\ next \in Nat
           /\ Allocated # {} <=> next < Frames
<1>1. memory_map \in Maps /\ next \in Nat
  BY DEF TypesInv
<1>2. Frames \in Nat
  BY <1>1, FramesFinite, FS_CardinalityType DEF Frames
<1>3. Needed \in Nat
  BY NeededIs, MadeCount, PagingAssumption
<1>4. Allocated = FrameNo(memory_map, next)
  BY DEF Allocated, FrameNo
<1>5. Allocated # {} <=> next < Frames
  BY <1>1, <1>4, FrameExists DEF Frames
<1> QED BY <1>1, <1>2, <1>3, <1>5

LEMMA InitCount == Init => CountInv
<1> SUFFICES ASSUME Init PROVE CountInv
  OBVIOUS
<1>1. MemInv
  BY InitMem
<1>2. pc = "allocate" /\ heap = FALSE /\ next = 0 /\ page = HeapStart /\ tables = BootTables
  BY DEF Init
<1>3. ASSUME NEW pg \in HeapRange, NEW l \in 1 .. 3 PROVE Walk(pg, l) = {}
  <2>1. Walk(pg, 3) = {}
    BY <1>2, HeapInTree DEF Walk, Below, TreePages, Unused
  <2>2. Walk(pg, 2) = Below(Walk(pg, 3), pg, 3) /\ Walk(pg, 1) = Below(Walk(pg, 2), pg, 2)
    BY DEF Walk
  <2>3. Walk(pg, 2) = {}
    BY <2>1, <2>2 DEF Below
  <2>4. Walk(pg, 1) = {}
    BY <2>2, <2>3 DEF Below
  <2>5. l = 1 \/ l = 2 \/ l = 3
    OBVIOUS
  <2> QED BY <2>1, <2>3, <2>4, <2>5
<1>4. Made = {}
  <2> SUFFICES ASSUME NEW x \in Made PROVE FALSE
    OBVIOUS
  <2>1. x \in TablesNeeded
    BY MadeCount
  <2>2. PICK pg \in HeapRange, l \in 1 .. 3 : x = <<l, Prefix(pg, l)>>
    BY <2>1, NeededElement
  <2> QED BY <1>3, <2>2, MadeIs
<1>5. Cardinality(Made) = 0
  BY <1>4, FS_EmptySet
<1>6. Frames \in Nat /\ HeapStart \in Nat
  BY <1>1, FramesNumber, PagingAssumption DEF MemInv
<1>7. next <= Frames /\ next = page - HeapStart + Cardinality(Made)
  BY <1>2, <1>5, <1>6
<1> QED BY <1>2, <1>7 DEF CountInv

\* While pages are missing, fewer frames have been taken than are needed.
LEMMA StillNeeded ==
    ASSUME MemInv, page \in HeapRange
    PROVE  /\ page - HeapStart + Cardinality(Made) < Needed
           /\ page - HeapStart + Cardinality(Made) \in Nat
           /\ Made # TablesNeeded => page - HeapStart + Cardinality(Made) + 1 < Needed
<1> DEFINE made == Cardinality(Made)
           all == Cardinality(TablesNeeded)
<1>1. made \in Nat /\ all \in Nat /\ made <= all /\ (Made # TablesNeeded => made < all)
  BY MadeCount
<1>2. Needed = HeapPages + all
  BY NeededIs
<1>3. page \in Nat /\ HeapStart \in Nat /\ HeapPages \in Nat /\ HeapStart <= page
      /\ page < HeapStart + HeapPages
  BY PagingAssumption DEF HeapRange
<1> HIDE DEF made, all
<1>4. /\ page - HeapStart + made < Needed /\ page - HeapStart + made \in Nat
      /\ Made # TablesNeeded => page - HeapStart + made + 1 < Needed
  BY ONLY <1>1, <1>2, <1>3
<1> QED BY <1>4 DEF made

LEMMA AllocateCount == MemInv /\ CountInv /\ allocate_frame => CountInv'
<1> SUFFICES ASSUME MemInv, CountInv, allocate_frame PROVE CountInv'
  OBVIOUS
<1>1. /\ pc = "allocate" /\ page \in HeapRange /\ next' = next + 1
      /\ pc' = (IF Allocated = {} THEN "error" ELSE "map_to")
      /\ memory_map' = memory_map /\ tables' = tables /\ page' = page /\ heap' = heap
  BY DEF allocate_frame, Counted
<1>2. ~heap /\ next = page - HeapStart + Cardinality(Made)
  BY <1>1 DEF CountInv
<1>3. Frames \in Nat /\ Needed \in Nat /\ next \in Nat /\ (Allocated # {} <=> next < Frames)
  BY FramesNumber DEF MemInv
<1>4. Frames' = Frames /\ Needed' = Needed
  BY <1>1, FramesKept
<1>5. Made' = Made
  BY <1>1, WalkKept, MadeKept
<1>6. CASE Allocated = {}
  <2>1. Frames < Needed
    BY <1>1, <1>2, <1>3, <1>6, StillNeeded
  <2>2. pc' = "error" /\ ~heap' /\ ~(Frames' >= Needed')
    BY <1>1, <1>2, <1>3, <1>4, <1>6, <2>1
  <2> QED BY <2>2 DEF CountInv
<1>7. CASE Allocated # {}
  <2>1. Cardinality(Made)' = Cardinality(Made)
    BY <1>5
  <2>2. pc' = "map_to" /\ ~heap' /\ next' <= Frames'
    BY <1>1, <1>2, <1>3, <1>4, <1>7
  <2>3. next' = page' - HeapStart + Cardinality(Made)' + 1
    BY <1>1, <1>2, <2>1
  <2> QED BY <2>2, <2>3 DEF CountInv
<1> QED BY <1>6, <1>7

LEMMA NextTableCount == MemInv /\ CountInv /\ next_table => CountInv'
<1> SUFFICES ASSUME MemInv, CountInv, next_table PROVE CountInv'
  OBVIOUS
<1>1. /\ pc = "map_to" /\ pc' = pc /\ next' = next /\ page' = page /\ heap' = heap
      /\ memory_map' = memory_map /\ tables' = tables
  BY DEF next_table
<1>2. Frames' = Frames /\ Made' = Made
  BY <1>1, FramesKept, WalkKept, MadeKept
<1>3. Cardinality(Made)' = Cardinality(Made)
  BY <1>2
<1> QED BY <1>1, <1>2, <1>3 DEF CountInv

\* create_next_table makes one table that was missing.
LEMMA OneMoreTable ==
    ASSUME MemInv, create_next_table, Allocated # {}
    PROVE  Cardinality(Made)' = Cardinality(Made) + 1
<1>0. TypesInv /\ BootInv /\ TreeInv /\ DrawnInv
  BY DEF MemInv
<1>1. pc = "map_to" /\ level > 1 /\ Entry = Unused
  BY DEF create_next_table
<1>2. page \in HeapRange /\ page \in TreePages /\ Walk(page, level) # {} /\ level \in 1 .. 4
  BY <1>1, AtPage
<1>3. PICK pg0 \in HeapRange, l0 \in 1 .. 3 : pg0 = page /\ l0 = level - 1
  BY <1>1, <1>2
<1> DEFINE new == <<l0, Prefix(pg0, l0)>>
<1>4. Walk(pg0, l0) = {}
  <2>1. level - 1 \in 0 .. 3 /\ level - 1 + 1 = level
    BY <1>1, <1>2
  <2>2. Walk(page, level - 1) = Below(Walk(page, level), page, level)
    BY <2>1, WalkStep
  <2> QED BY <1>1, <1>3, <2>2 DEF Entry, Unused
<1>5. ASSUME NEW pg \in HeapRange, NEW l \in 1 .. 3
      PROVE  Walk(pg, l)' = IF l = l0 /\ Prefix(pg, l) = Prefix(pg0, l) THEN Allocated
                            ELSE Walk(pg, l)
  <2> DEFINE a == Allocated
  <2>1. a \cap DOMAIN tables = {}
    BY <1>0, NewFrame
  <2>2. EntrySet(a, a)
    <3>1. tables' = [t \in DOMAIN tables \cup Allocated |->
                       IF t \in Allocated THEN EmptyTable ELSE SetEntry(Allocated)[t]]
      BY DEF create_next_table
    <3> QED BY <1>0, <2>1, <3>1, CreatedEntry
  <2>3. l \in 0 .. 4 /\ pg \in TreePages
    BY HeapInTree
  <2> HIDE DEF a
  <2>4. Walk(pg, l)' = NewWalk(pg, l, a)
    BY <1>0, <1>1, <1>2, <2>1, <2>2, <2>3, WalkChanges
  <2> QED BY <1>3, <2>4 DEF NewWalk, a
<1>6. new \notin Made /\ new \in TablesNeeded
  <2>1. new \notin Made
    BY <1>4, MadeIs
  <2> QED BY <2>1 DEF TablesNeeded
<1>7. ASSUME NEW pg \in HeapRange, NEW l \in 1 .. 3
      PROVE  (<<l, Prefix(pg, l)>> \in Made') <=> Walk(pg, l)' # {}
  <2>1. (<<l, Prefix(pg, l)>> \in Made <=> Walk(pg, l) # {})'
    BY MadeIs, PTL
  <2> QED BY <2>1
<1>8. ASSUME NEW x \in TablesNeeded PROVE x \in Made' <=> x \in Made \/ x = new
  <2>1. PICK pg \in HeapRange, l \in 1 .. 3 : x = <<l, Prefix(pg, l)>>
    BY NeededElement
  <2>2. x = new <=> l = l0 /\ Prefix(pg, l) = Prefix(pg0, l)
    BY <2>1
  <2>3. x \in Made' <=> Walk(pg, l)' # {}
    BY <1>7, <2>1
  <2>4. x \in Made <=> Walk(pg, l) # {}
    BY <2>1, MadeIs
  <2> HIDE DEF new
  <2> QED BY <1>5, <2>2, <2>3, <2>4
<1>9. Made \subseteq TablesNeeded /\ Made' \subseteq TablesNeeded /\ IsFiniteSet(Made)
  BY MadeCount DEF Made
<1> HIDE DEF new
<1>10. Made' = Made \cup {new}
  BY <1>6, <1>8, <1>9
<1>11. Cardinality(Made \cup {new}) = Cardinality(Made) + 1
  BY <1>6, <1>9, FS_AddElement
<1> QED BY <1>10, <1>11

LEMMA CreateCount == MemInv /\ CountInv /\ create_next_table => CountInv'
<1> SUFFICES ASSUME MemInv, CountInv, create_next_table PROVE CountInv'
  OBVIOUS
<1>1. /\ pc = "map_to" /\ level > 1 /\ Entry = Unused /\ next' = next + 1
      /\ memory_map' = memory_map /\ page' = page /\ heap' = heap
  BY DEF create_next_table, Counted
<1>2. ~heap /\ next = page - HeapStart + Cardinality(Made) + 1
  BY <1>1 DEF CountInv
<1>3. Frames \in Nat /\ Needed \in Nat /\ next \in Nat /\ (Allocated # {} <=> next < Frames)
  BY FramesNumber DEF MemInv
<1>4. Frames' = Frames /\ Needed' = Needed
  BY <1>1, FramesKept
<1>5. page \in HeapRange /\ level \in 1 .. 4
  BY <1>1, AtPage
<1>6. CASE Allocated = {}
  <2>1. Made # TablesNeeded
    <3>1. PICK l \in 1 .. 3 : l = level - 1
      BY <1>1, <1>5
    <3>2. PICK pg \in HeapRange : pg = page
      BY <1>5
    <3>3. Walk(pg, l) = {}
      <4>1. l \in 0 .. 3 /\ l + 1 = level
        BY <1>5, <3>1
      <4>2. Walk(pg, l) = Below(Walk(pg, level), pg, level)
        BY <4>1, WalkStep
      <4> QED BY <1>1, <3>2, <4>2 DEF Entry, Unused
    <3>4. <<l, Prefix(pg, l)>> \notin Made
      BY <3>3, MadeIs
    <3> QED BY <3>4 DEF TablesNeeded
  <2>2. Frames < Needed
    BY <1>2, <1>3, <1>5, <1>6, <2>1, StillNeeded
  <2>3. pc' = "error" /\ ~heap' /\ ~(Frames' >= Needed')
    BY <1>1, <1>2, <1>3, <1>4, <1>6, <2>2 DEF create_next_table
  <2> QED BY <2>3 DEF CountInv
<1>7. CASE Allocated # {}
  <2>1. Cardinality(Made)' = Cardinality(Made) + 1 /\ Cardinality(Made) \in Nat
    BY <1>7, OneMoreTable, MadeCount
  <2>2. pc' = "map_to" /\ ~heap' /\ next' <= Frames'
    BY <1>1, <1>2, <1>3, <1>4, <1>7 DEF create_next_table
  <2>3. page \in Int /\ HeapStart \in Int
    BY <1>5, PagingAssumption DEF HeapRange
  <2>4. next' = page' - HeapStart + Cardinality(Made)' + 1
    BY <1>1, <1>2, <2>1, <2>3
  <2> QED BY <2>2, <2>4 DEF CountInv
<1> QED BY <1>6, <1>7

LEMMA MapCount == MemInv /\ CountInv /\ map_page => CountInv'
<1> SUFFICES ASSUME MemInv, CountInv, map_page PROVE CountInv'
  OBVIOUS
<1>0. TypesInv /\ BootInv /\ TreeInv /\ DrawnInv /\ ProgressInv
  BY DEF MemInv
<1>1. pc = "map_to" /\ level = 1 /\ memory_map' = memory_map /\ next' = next /\ heap' = heap
  BY DEF map_page
<1>2. /\ page \in HeapRange /\ page \in TreePages /\ Walk(page, level) # {}
      /\ level \in 1 .. 4 /\ next \in Nat
  BY <1>1, AtPage
<1>3. page \in Int /\ HeapStart \in Int
  BY <1>2, PagingAssumption DEF HeapRange
<1>4. Entry = Unused
  <2>1. Walk(page, 0) = Below(Walk(page, 1), page, 1)
    BY DEF Walk
  <2>2. Walk(page, 0) = {}
    BY <1>0, <1>2, <1>3 DEF ProgressInv
  <2> QED BY <1>1, <2>1, <2>2 DEF Entry, Unused
<1>5. tables' = SetEntry(frame) /\ page' = page + 1 /\ pc' = "allocate"
  BY <1>4 DEF map_page
<1>6. Made' = Made
  <2> DEFINE f == frame
  <2>1. EntrySet(f, {})
    BY <1>0, <1>5, MappedEntry
  <2> HIDE DEF f
  <2>2. ASSUME NEW pg \in HeapRange, NEW l \in 1 .. 3 PROVE Walk(pg, l)' = Walk(pg, l)
    <3>1. l \in 0 .. 4 /\ l # level - 1 /\ pg \in TreePages
      BY <1>1, HeapInTree
    <3>2. Walk(pg, l)' = NewWalk(pg, l, f)
      BY <1>0, <1>1, <1>2, <1>4, <2>1, <3>1, WalkChanges
    <3> QED BY <3>1, <3>2 DEF NewWalk
  <2> QED BY <2>2, MadeKept
<1>7. Cardinality(Made)' = Cardinality(Made) /\ Cardinality(Made) \in Nat
  BY <1>6, MadeCount
<1>8. ~heap /\ next <= Frames /\ next = page - HeapStart + Cardinality(Made) + 1
  BY <1>1 DEF CountInv
<1>9. Frames' = Frames
  BY <1>1, FramesKept
<1>10. next' = page' - HeapStart + Cardinality(Made)'
  BY <1>1, <1>3, <1>5, <1>7, <1>8
<1> QED BY <1>1, <1>5, <1>8, <1>9, <1>10 DEF CountInv

\* When the last page is mapped, all the tables it takes have been made.
LEMMA AllMade ==
    ASSUME MemInv, page = HeapStart + HeapPages
    PROVE  Made = TablesNeeded
<1>1. ASSUME NEW pg \in HeapRange, NEW l \in 1 .. 3 PROVE Walk(pg, l) # {}
  <2>1. pg < page
    BY PagingAssumption DEF HeapRange
  <2>2. Walk(pg, 0) # {}
    BY <2>1 DEF MemInv, ProgressInv
  <2>3. /\ Walk(pg, 0) = Below(Walk(pg, 1), pg, 1) /\ Walk(pg, 1) = Below(Walk(pg, 2), pg, 2)
        /\ Walk(pg, 2) = Below(Walk(pg, 3), pg, 3)
    BY DEF Walk
  <2>4. \A k : Below({}, pg, k) = {}
    BY DEF Below
  <2>5. Walk(pg, 1) # {} /\ Walk(pg, 2) # {} /\ Walk(pg, 3) # {}
    BY <2>2, <2>3, <2>4
  <2>6. l = 1 \/ l = 2 \/ l = 3
    OBVIOUS
  <2> QED BY <2>5, <2>6
<1>2. ASSUME NEW x \in TablesNeeded PROVE x \in Made
  <2>1. PICK pg \in HeapRange, l \in 1 .. 3 : x = <<l, Prefix(pg, l)>>
    BY NeededElement
  <2> QED BY <1>1, <2>1, MadeIs
<1> QED BY <1>2, MadeCount

LEMMA OtherCounts ==
    MemInv /\ CountInv /\ (init_allocator \/ memory_init \/ first_allocation \/ UNCHANGED vars)
       => CountInv'
<1> SUFFICES ASSUME MemInv, CountInv,
                    init_allocator \/ memory_init \/ first_allocation \/ UNCHANGED vars
             PROVE  CountInv'
  OBVIOUS
<1>1. memory_map' = memory_map /\ next' = next /\ tables' = tables /\ page' = page
  BY DEF init_allocator, memory_init, first_allocation, vars
<1>2. Frames' = Frames /\ Needed' = Needed /\ Made' = Made
  BY <1>1, FramesKept, WalkKept, MadeKept
<1>3. Cardinality(Made)' = Cardinality(Made)
  BY <1>2
<1>4. CASE init_allocator
  <2>1. pc = "allocate" /\ page \notin HeapRange /\ heap' = TRUE /\ pc' = "ok"
    BY <1>4 DEF init_allocator
  <2>2. page \in HeapStart .. (HeapStart + HeapPages)
    BY DEF MemInv, TypesInv
  <2>3. page = HeapStart + HeapPages
    BY <2>1, <2>2, PagingAssumption DEF HeapRange
  <2>4. Made = TablesNeeded
    BY <2>3, AllMade
  <2>5. next <= Frames /\ next = page - HeapStart + Cardinality(TablesNeeded)
    BY <2>1, <2>4 DEF CountInv
  <2>6. Frames >= Needed
    <3>1. /\ Needed = HeapPages + Cardinality(TablesNeeded) /\ Cardinality(TablesNeeded) \in Nat
          /\ Frames \in Nat /\ HeapPages \in Nat /\ HeapStart \in Nat
      BY NeededIs, MadeCount, FramesNumber, PagingAssumption DEF MemInv
    <3> QED BY <2>3, <2>5, <3>1
  <2> QED BY <1>2, <2>1, <2>6 DEF CountInv
<1>5. CASE memory_init \/ first_allocation
  <2>1. /\ pc \notin {"allocate", "map_to"} /\ pc' \notin {"allocate", "map_to"}
        /\ heap' = heap
    BY <1>5 DEF memory_init, first_allocation
  <2> QED BY <1>2, <2>1 DEF CountInv
<1>6. CASE UNCHANGED vars
  BY <1>2, <1>3, <1>6 DEF CountInv, vars
<1> QED BY <1>4, <1>5, <1>6

\* The heap is set up if and only if the bootloader's map has the frames for
\* its pages and for the tables they take: the counter that heap and tables
\* share wastes none, and an error is reported only when they have run out.
THEOREM HeapExactly == Spec => []HeapIffEnoughFrames
<1>1. MemInv /\ CountInv /\ [Next]_vars => CountInv'
  BY AllocateCount, NextTableCount, CreateCount, MapCount, OtherCounts DEF Next
<1>2. CountInv => HeapIffEnoughFrames
  BY DEF CountInv, HeapIffEnoughFrames, Frames
<1> QED BY <1>1, <1>2, InitCount, MemInvariant, PTL DEF Spec
=============================================================================
