--------------------------- MODULE Viewport_proof ---------------------------
(* Theorems about Viewport, for every value of its constants. *)
EXTENDS Viewport, FiniteSetTheorems, TLAPS

-----------------------------------------------------------------------------
(* Arithmetic of rows *)

\* What snapshots have rows for.
LEMMA Rows ==
  ASSUME NEW s \in Snapshot, NEW w \in Nat
  PROVE /\ Total(s) \in Nat /\ s.zram \in 0 .. 1 /\ s.usage \in Nat /\ s.health \in Nat
        /\ LowerRows(s, w) \in Nat
BY DEF Snapshot, Total, LowerRows, Larger

\* The configured size is a size, and configuring it again changes nothing.
LEMMA ConfiguredSize ==
  ASSUME NEW z \in Size
  PROVE Configured(z) \in Size /\ Configured(Configured(z)) = Configured(z)
BY ViewAssumption DEF Configured, Size

\* A page is part of the list.
LEMMA PageInList ==
  ASSUME NEW s \in Snapshot, NEW w \in Nat, NEW z \in Size
  PROVE DockerPageSize(s, w, z) \in 0 .. Total(s)
<1> DEFINE c == Configured(z)
<1>1. c.rows \in Nat \ {0} /\ Total(s) \in Nat /\ LowerRows(s, w) \in Nat
  BY ConfiguredSize, Rows DEF Size
<1>2. s.zram \in 0 .. 1 /\ s.usage \in Nat /\ s.health \in Nat
  BY Rows
<1> HIDE DEF c
<1>3. CompactPage(s, c.rows) \in 0 .. Total(s)
  BY <1>1 DEF CompactPage, Clamp
<1>4. RegularPage(s, w, c.rows) \in 0 .. Total(s)
  BY <1>1, <1>2 DEF RegularPage, RegularFixedRows, Clamp
<1>5. Clamp(c.rows - 7 - LowerRows(s, w), 0, Total(s)) \in 0 .. Total(s)
  BY <1>1 DEF Clamp
<1> QED
  BY <1>1, <1>3, <1>4, <1>5 DEF DockerPageSize, c, Layout

\* The offset keeps the page in the list, and clamping it again is idle.
LEMMA ClampedOffset ==
  ASSUME NEW o \in Int, NEW total \in Nat, NEW page \in 0 .. total
  PROVE LET first == ClampDockerOffset(o, total, page) IN
          /\ first \in Nat /\ first + page <= total
          /\ ClampDockerOffset(first, total, page) = first
BY DEF ClampDockerOffset, Clamp

\* The renderers' count of rows is the page of the keys.
LEMMA FrameCount ==
  ASSUME NEW s \in Snapshot, NEW w \in Nat, NEW z \in Size, NEW mode, NEW o,
         NEW f, f = Frame(s, w, z, mode, o)
  PROVE /\ f.size = Configured(z) /\ f.snap = s /\ f.warned = w /\ f.mode = mode
        /\ f.count = DockerPageSize(s, w, z)
        /\ f.count = DockerPageSize(s, w, f.size)
        /\ f.first = ClampDockerOffset(o, Total(s), f.count)
BY ConfiguredSize, Zenon DEF Frame, DockerPageSize, LandscapeVisible

\* A frame of its size, with a page of the keys' count.
Drawn(f) ==
  /\ f.size \in Size /\ f.snap \in Snapshot /\ f.warned \in Nat
  /\ Configured(f.size) = f.size
  /\ f.count = DockerPageSize(f.snap, f.warned, f.size)

\* Whatever is drawn with the page of the keys fills the screen or has room.
LEMMA DrawnFits ==
  ASSUME NEW f, Drawn(f), Fits(f)
  PROVE /\ Lines(f) \in Nat /\ Lines(f) <= f.size.rows
        /\ f.count < Total(f.snap) => Lines(f) = f.size.rows
        /\ HeaderLine(f) \in Nat /\ HeaderLine(f) >= 3
<1> DEFINE rows == f.size.rows
           n == f.count
           t == Total(f.snap)
           low == LowerRows(f.snap, f.warned)
           z == f.snap.zram
           u == f.snap.usage
           h == f.snap.health
           w == f.warned
<1>1. /\ rows \in Nat \ {0} /\ t \in Nat /\ low \in Nat /\ z \in 0 .. 1
      /\ u \in Nat /\ h \in Nat /\ w \in Nat
  BY Rows DEF Drawn, Size
<1>2. n = IF Layout(f.size) = "compact" THEN CompactPage(f.snap, rows)
          ELSE IF Layout(f.size) = "regular" THEN RegularPage(f.snap, w, rows)
          ELSE IF LandscapeFull(f.snap, w, rows) THEN t
          ELSE Clamp(rows - 7 - low, 0, t)
  BY DEF Drawn, DockerPageSize
<1>3. CASE Layout(f.size) = "compact"
  <2>1. n = Clamp(rows - 5, 0, t)
    BY <1>2, <1>3 DEF CompactPage
  <2>2. 5 <= rows
    BY <1>3 DEF Fits, Smallest
  <2>3. Lines(f) = 2 + (1 + 1 + n + 1) /\ HeaderLine(f) = 4
    BY <1>3 DEF Lines, HeaderLine
  <2> HIDE DEF rows, n, t
  <2>4. n \in Nat /\ (n < t => n = rows - 5) /\ n <= rows - 5
    BY <1>1, <2>1, <2>2 DEF Clamp
  <2>5. QED
    BY <1>1, <2>3, <2>4 DEF rows, n, t
<1>4. CASE Layout(f.size) = "regular"
  <2> DEFINE fixed == 11 + z + u + h + 15
             all == 5 + fixed + w + t <= rows
  <2>1. n = IF all THEN t ELSE Clamp(rows - (1 + fixed) - w, 0, t)
    BY <1>1, <1>2, <1>4 DEF RegularPage, RegularFixedRows
  <2>2. 1 + fixed + w <= rows
    BY <1>1, <1>4 DEF Fits, Smallest, RegularFixedRows
  <2>3. RegularHeader(f) = IF all THEN 5 ELSE 1
    BY <1>1 DEF RegularHeader, RegularFixedRows
  <2>4. RegularAbove(f) = RegularHeader(f) + 17 + z + u + w + h
    BY <1>1, <2>3 DEF RegularAbove, SystemLines
  <2>5. Lines(f) = LET l == RegularAbove(f) + (2 + 1 + n + 1) + 5 IN
                   IF l + 2 < rows THEN l + 2 ELSE l
    BY <1>4 DEF Lines, RegularLines
  <2>6. HeaderLine(f) = RegularAbove(f) + 3
    BY <1>4 DEF HeaderLine
  <2> DEFINE above == RegularAbove(f)
             head == RegularHeader(f)
  <2> HIDE DEF rows, n, t, z, u, h, w, above, head
  <2>7. n \in Nat /\ n <= t
    BY <1>1, <2>1, <2>2 DEF Clamp
  <2>8. CASE all
    BY <1>1, <2>1, <2>3, <2>4, <2>5, <2>6, <2>7, <2>8 DEF rows, n, t, above, head
  <2>9. CASE ~all
    <3>1. n = Clamp(rows - (1 + fixed) - w, 0, t) /\ head = 1
      BY <2>1, <2>3, <2>9 DEF head
    <3>2. n <= rows - (1 + fixed) - w /\ (n < t => n = rows - (1 + fixed) - w)
      BY <1>1, <2>2, <3>1 DEF Clamp
    <3>3. above + 9 + n = 1 + fixed + w + n /\ above \in Nat
      BY <1>1, <2>4, <2>7, <3>1 DEF above, head
    <3>4. ~(above + (2 + 1 + n + 1) + 5 + 2 < rows) \/ n = t
      BY <1>1, <2>7, <3>2, <3>3
    <3> QED
      BY <1>1, <2>5, <2>6, <2>7, <2>9, <3>2, <3>3, <3>4 DEF rows, n, t, above
  <2> QED
    BY <2>8, <2>9
<1>5. CASE Layout(f.size) \notin {"compact", "regular"}
  <2> DEFINE sys == 9 + z
             all == 8 + Larger(sys, 1 + t) + low <= rows
             head == LandscapeHeader(f)
  <2>1. n = IF all THEN t ELSE Clamp(rows - 7 - low, 0, t)
    BY <1>2, <1>5 DEF LandscapeFull, SystemRows
  <2>2. 6 + sys + low <= rows
    BY <1>5 DEF Fits, Smallest, SystemRows
  <2>3. head = IF all THEN 3 ELSE 1
    BY DEF LandscapeHeader, LandscapeFull, SystemRows
  <2>4. SystemLines(f.snap) = sys
    BY <1>1 DEF SystemLines
  <2>5. Lines(f) = head + (Larger(sys, 1 + n) + 2) + 1 + (low + 2) /\ HeaderLine(f) = head + 2
    BY <1>5, <2>4 DEF Lines, LandscapeLines, HeaderLine
  <2> HIDE DEF rows, n, t, low, z, head
  <2>6. CASE all
    BY <1>1, <2>1, <2>3, <2>5, <2>6 DEF rows, n, t, Larger
  <2>7. CASE ~all
    <3>1. n = Clamp(rows - 7 - low, 0, t) /\ head = 1
      BY <2>1, <2>3, <2>7
    <3>2. n \in Nat /\ n <= rows - 7 - low /\ (n < t => n = rows - 7 - low)
      BY <1>1, <2>2, <3>1 DEF Clamp
    <3>3. n < t => 1 + n >= sys
      BY <1>1, <2>2, <3>2
    <3> QED
      BY <1>1, <2>2, <2>5, <3>1, <3>2, <3>3 DEF rows, n, t, Larger
  <2> QED
    BY <2>6, <2>7
<1> QED
  BY <1>3, <1>4, <1>5

-----------------------------------------------------------------------------
(* Order *)

Containers == [id : Nat, name : Nat, exact : Nat, ram : Nat]

\* The comparison is a strict weak order, in each mode.
LEMMA LessIsWeakOrder ==
  ASSUME NEW mode, NEW c \in Containers, NEW d \in Containers, NEW e \in Containers
  PROVE  /\ Less(mode, c, d) => ~Less(mode, d, c)
         /\ ~Less(mode, c, d) /\ ~Less(mode, d, e) => ~Less(mode, c, e)
<1>1. /\ c.name \in Nat /\ c.exact \in Nat /\ c.ram \in Nat
      /\ d.name \in Nat /\ d.exact \in Nat /\ d.ram \in Nat
      /\ e.name \in Nat /\ e.exact \in Nat /\ e.ram \in Nat
  BY DEF Containers
<1> QED
  BY <1>1 DEF Less

\* With the places in the list it is a strict total order.
LEMMA PrecedesIsOrder ==
  ASSUME NEW cs \in Seq(Containers), NEW mode,
         NEW i \in 1 .. Len(cs), NEW j \in 1 .. Len(cs), NEW k \in 1 .. Len(cs)
  PROVE  /\ ~Precedes(cs, mode, i, i)
         /\ Precedes(cs, mode, i, j) /\ Precedes(cs, mode, j, k) => Precedes(cs, mode, i, k)
         /\ i # j => Precedes(cs, mode, i, j) \/ Precedes(cs, mode, j, i)
         /\ Precedes(cs, mode, i, j) => ~Less(mode, cs[j], cs[i])
<1> DEFINE L(x, y) == Less(mode, cs[x], cs[y])
<1>1. \A x, y, z \in 1 .. Len(cs) : (L(x, y) => ~L(y, x)) /\ (~L(x, y) /\ ~L(y, z) => ~L(x, z))
  BY LessIsWeakOrder
<1>2. \A x, y \in 1 .. Len(cs) : Precedes(cs, mode, x, y) <=> L(x, y) \/ (~L(y, x) /\ x < y)
  BY DEF Precedes
<1> HIDE DEF L
<1>3. ~Precedes(cs, mode, i, i)
  BY <1>1, <1>2
<1>4. Precedes(cs, mode, i, j) /\ Precedes(cs, mode, j, k) => Precedes(cs, mode, i, k)
  BY <1>1, <1>2
<1>5. i # j => Precedes(cs, mode, i, j) \/ Precedes(cs, mode, j, i)
  BY <1>1, <1>2
<1>6. Precedes(cs, mode, i, j) => ~L(j, i)
  BY <1>1, <1>2
<1> QED
  BY <1>3, <1>4, <1>5, <1>6 DEF L

\* Places are numbers of the list, in its order.
LEMMA PlacesInOrder ==
  ASSUME NEW cs \in Seq(Containers), NEW mode
  PROVE  /\ \A i \in 1 .. Len(cs) : Place(cs, mode, i) \in 1 .. Len(cs)
         /\ \A i, j \in 1 .. Len(cs) :
              Precedes(cs, mode, i, j) => Place(cs, mode, i) < Place(cs, mode, j)
<1> DEFINE D == 1 .. Len(cs)
           B(i) == {j \in D : Precedes(cs, mode, j, i)}
<1>1. IsFiniteSet(D) /\ Cardinality(D) = Len(cs) /\ Len(cs) \in Nat
  <2>1. Len(cs) \in Nat /\ 1 \in Int /\ Len(cs) \in Int
    OBVIOUS
  <2>2. IsFiniteSet(1 .. Len(cs))
        /\ Cardinality(1 .. Len(cs)) = IF 1 > Len(cs) THEN 0 ELSE Len(cs) - 1 + 1
    BY ONLY <2>1, FS_Interval
  <2> QED
    BY <2>1, <2>2
<1>2. ASSUME NEW i \in D PROVE /\ IsFiniteSet(B(i)) /\ Cardinality(B(i)) \in Nat
                               /\ Place(cs, mode, i) = 1 + Cardinality(B(i))
  <2>1. B(i) \in SUBSET D
    OBVIOUS
  <2>2. IsFiniteSet(B(i))
    BY ONLY <1>1, <2>1, FS_Subset
  <2>3. Cardinality(B(i)) \in Nat
    BY ONLY <2>2, FS_CardinalityType
  <2>4. DOMAIN cs = D
    OBVIOUS
  <2> QED
    BY <2>2, <2>3, <2>4 DEF Place
<1>3. ASSUME NEW i \in D PROVE Place(cs, mode, i) \in 1 .. Len(cs)
  <2>1. B(i) \in SUBSET D /\ B(i) # D
    BY <1>3, PrecedesIsOrder
  <2>2. Cardinality(B(i)) <= Cardinality(D)
    BY ONLY <1>1, <2>1, FS_Subset
  <2>3. Cardinality(B(i)) # Cardinality(D)
    BY ONLY <1>1, <2>1, FS_Subset
  <2> HIDE DEF B, D
  <2> QED
    BY <1>1, <1>2, <1>3, <2>2, <2>3
<1>4. ASSUME NEW i \in D, NEW j \in D, Precedes(cs, mode, i, j)
      PROVE  Place(cs, mode, i) < Place(cs, mode, j)
  <2>1. B(i) \in SUBSET B(j)
    BY <1>4, PrecedesIsOrder
  <2>2. i \in B(j) /\ i \notin B(i)
    BY <1>4, PrecedesIsOrder
  <2>3. IsFiniteSet(B(j))
    BY <1>2, <1>4
  <2> HIDE DEF B, D
  <2>4. Cardinality(B(i)) <= Cardinality(B(j)) /\ Cardinality(B(j)) # Cardinality(B(i))
    <3>1. B(i) # B(j)
      BY <2>2
    <3> QED
      BY ONLY <2>1, <2>3, <3>1, FS_Subset
  <2> QED
    BY <1>2, <1>4, <2>4
<1> QED
  BY <1>3, <1>4

\* So every place is taken, by one container.
Order(cs, mode, k) == CHOOSE i \in DOMAIN cs : Place(cs, mode, i) = k

LEMMA Ordered ==
  ASSUME NEW cs \in Seq(Containers), NEW mode
  PROVE  /\ \A k \in 1 .. Len(cs) : /\ Order(cs, mode, k) \in 1 .. Len(cs)
                                    /\ Place(cs, mode, Order(cs, mode, k)) = k
         /\ \A i \in 1 .. Len(cs) : /\ Place(cs, mode, i) \in 1 .. Len(cs)
                                    /\ Order(cs, mode, Place(cs, mode, i)) = i
         /\ \A k, l \in 1 .. Len(cs) :
              k < l => Precedes(cs, mode, Order(cs, mode, k), Order(cs, mode, l))
<1> DEFINE D == 1 .. Len(cs)
           place == [i \in D |-> Place(cs, mode, i)]
<1>1. /\ \A i \in D : Place(cs, mode, i) \in D
      /\ \A i, j \in D : Precedes(cs, mode, i, j) => Place(cs, mode, i) < Place(cs, mode, j)
  BY PlacesInOrder
<1>2. \A i, j \in D : i # j => Precedes(cs, mode, i, j) \/ Precedes(cs, mode, j, i)
  BY PrecedesIsOrder
<1>3. \A i, j \in D : Place(cs, mode, i) = Place(cs, mode, j) => i = j
  <2>1. \A i \in D : Place(cs, mode, i) \in Int
    BY <1>1
  <2> QED
    BY <1>1, <1>2, <2>1
<1>4. place \in Injection(D, D)
  <2>1. place \in [D -> D] /\ \A a, b \in D : place[a] = place[b] => a = b
    BY <1>1, <1>3
  <2> HIDE DEF place, D
  <2> QED
    BY <2>1 DEF Injection, IsInjective
<1>5. IsFiniteSet(D)
  <2>1. 1 \in Int /\ Len(cs) \in Int
    OBVIOUS
  <2> QED
    BY ONLY <2>1, FS_Interval
<1>6. place \in Surjection(D, D)
  <2> HIDE DEF place, D
  <2> QED
    BY ONLY <1>4, <1>5, FS_Injection
<1>7. \A k \in D : \E i \in D : Place(cs, mode, i) = k
  <2>1. \A k \in D : \E i \in D : place[i] = k
    <3> HIDE DEF place, D
    <3> QED
      BY <1>6 DEF Surjection
  <2> QED
    BY <2>1
<1>8. DOMAIN cs = D
  OBVIOUS
<1> HIDE DEF place, D
<1>9. \A k \in D : Order(cs, mode, k) \in D /\ Place(cs, mode, Order(cs, mode, k)) = k
  BY <1>7, <1>8, Zenon DEF Order
<1>10. \A i \in D : Order(cs, mode, Place(cs, mode, i)) = i
  BY <1>1, <1>3, <1>9
<1>11. ASSUME NEW k \in D, NEW l \in D, k < l
       PROVE  Precedes(cs, mode, Order(cs, mode, k), Order(cs, mode, l))
  <2>1. k \in Int /\ l \in Int
    BY DEF D
  <2>2. Order(cs, mode, k) # Order(cs, mode, l)
    BY <1>9, <1>11, <2>1
  <2>3. ASSUME Precedes(cs, mode, Order(cs, mode, l), Order(cs, mode, k)) PROVE FALSE
    <3>1. /\ Order(cs, mode, k) \in D /\ Place(cs, mode, Order(cs, mode, k)) = k
          /\ Order(cs, mode, l) \in D /\ Place(cs, mode, Order(cs, mode, l)) = l
      BY <1>9
    <3>2. l < k
      BY <1>1, <2>3, <3>1
    <3> QED
      BY <1>11, <2>1, <3>2
  <2> QED
    BY <1>2, <1>9, <2>2, <2>3
<1> QED
  BY <1>1, <1>9, <1>10, <1>11 DEF D

\* A page of the sorted list is in order, and nothing outside belongs into it.
InSortedPage(cs, mode, rows, count) ==
  LET shown == {rows[i] : i \in 1 .. count}
  IN  /\ \A i, j \in 1 .. count : i < j => rows[i] # rows[j] /\ ~Less(mode, rows[j], rows[i])
      /\ \A h \in {cs[i] : i \in 1 .. Len(cs)} \ shown :
           (\A c \in shown : ~Less(mode, c, h)) \/ (\A c \in shown : ~Less(mode, h, c))

DistinctIds(cs) == \A i, j \in 1 .. Len(cs) : cs[i].id = cs[j].id => i = j

LEMMA PageOfSort ==
  ASSUME NEW cs \in Seq(Containers), DistinctIds(cs),
         NEW mode, NEW first \in Nat, NEW count \in Nat, first + count <= Len(cs)
  PROVE  InSortedPage(cs, mode, SubSeq(Sorted(cs, mode), first + 1, first + count), count)
<1> DEFINE rows == SubSeq(Sorted(cs, mode), first + 1, first + count)
           n == Len(cs)
           at(i) == Order(cs, mode, first + i)
<1>1. n \in Nat /\ DOMAIN cs = 1 .. n
  OBVIOUS
<1>2. \A i \in 1 .. count : first + i \in 1 .. n
  BY <1>1
<1>3. /\ \A k \in 1 .. n : Order(cs, mode, k) \in 1 .. n
      /\ \A k, l \in 1 .. n :
           k < l => Precedes(cs, mode, Order(cs, mode, k), Order(cs, mode, l))
      /\ \A i \in 1 .. n : /\ Place(cs, mode, i) \in 1 .. n
                           /\ Order(cs, mode, Place(cs, mode, i)) = i
  BY <1>1, Ordered
<1>4. \A i, j \in 1 .. n : Precedes(cs, mode, i, j) =>
                             i # j /\ ~Less(mode, cs[j], cs[i])
  <2>1. ASSUME NEW i \in 1 .. Len(cs), NEW j \in 1 .. Len(cs), Precedes(cs, mode, i, j)
        PROVE  i # j /\ ~Less(mode, cs[j], cs[i])
    <3>1. /\ ~Precedes(cs, mode, i, i)
          /\ Precedes(cs, mode, i, j) => ~Less(mode, cs[j], cs[i])
      BY ONLY cs \in Seq(Containers), <2>1, PrecedesIsOrder
    <3> QED
      BY ONLY <2>1, <3>1
  <2> QED
    BY <2>1
<1>5. \A i \in 1 .. count : rows[i] = cs[at(i)] /\ at(i) \in 1 .. n
  <2> DEFINE sorted == Sorted(cs, mode)
  <2>1. sorted = [k \in 1 .. n |-> cs[Order(cs, mode, k)]]
    <3>1. Sorted(cs, mode) = [k \in DOMAIN cs |-> cs[Order(cs, mode, k)]]
      BY Zenon DEF Sorted, Order
    <3> QED
      BY <1>1, <3>1
  <2>2. \A k \in 1 .. n : cs[Order(cs, mode, k)] \in Containers
    BY <1>1, <1>3
  <2> HIDE DEF sorted
  <2>3. sorted \in Seq(Containers) /\ Len(sorted) = n
    BY <1>1, <2>1, <2>2
  <2>4. rows = SubSeq(sorted, first + 1, first + count)
    BY DEF sorted
  <2>5. \A i \in 1 .. count : rows[i] = sorted[first + i]
    BY <1>1, <1>2, <2>3, <2>4
  <2> HIDE DEF n
  <2> QED
    BY <1>2, <1>3, <2>1, <2>5
<1>6. ASSUME NEW i \in 1 .. count, NEW j \in 1 .. count, i < j
      PROVE  rows[i] # rows[j] /\ ~Less(mode, rows[j], rows[i])
  <2>1. first + i \in 1 .. n /\ first + j \in 1 .. n /\ first + i < first + j
    BY <1>1, <1>2, <1>6
  <2>2. Precedes(cs, mode, at(i), at(j))
    BY <1>3, <2>1
  <2>3. at(i) \in 1 .. n /\ at(j) \in 1 .. n /\ at(i) # at(j)
        /\ ~Less(mode, cs[at(j)], cs[at(i)])
    BY <1>3, <1>4, <2>1, <2>2
  <2> HIDE DEF at
  <2>4. cs[at(i)] # cs[at(j)]
    BY <1>1, <2>3 DEF DistinctIds
  <2> QED
    BY <1>5, <2>3, <2>4
<1>7. ASSUME NEW h \in {cs[i] : i \in 1 .. n} \ {rows[i] : i \in 1 .. count}
      PROVE  \/ \A c \in {rows[i] : i \in 1 .. count} : ~Less(mode, c, h)
             \/ \A c \in {rows[i] : i \in 1 .. count} : ~Less(mode, h, c)
  <2>1. PICK i \in 1 .. n : h = cs[i]
    OBVIOUS
  <2> DEFINE k == Place(cs, mode, i)
  <2>2. k \in 1 .. n /\ Order(cs, mode, k) = i
    BY <1>3
  <2> HIDE DEF k
  <2>3. ~(first + 1 <= k /\ k <= first + count)
    <3> SUFFICES ASSUME first + 1 <= k, k <= first + count PROVE FALSE
      OBVIOUS
    <3>1. k - first \in 1 .. count /\ first + (k - first) = k
      BY <1>1, <2>2
    <3>2. rows[k - first] = cs[at(k - first)]
      BY <1>5, <3>1
    <3>3. at(k - first) = i
      BY <2>2, <3>1
    <3> QED
      BY <2>1, <3>1, <3>2, <3>3
  <2>4. CASE k <= first
    <3>1. ASSUME NEW j \in 1 .. count PROVE ~Less(mode, rows[j], h)
      <4>1. first + j \in 1 .. n /\ k < first + j
        BY <1>1, <1>2, <2>2, <2>4
      <4>2. Precedes(cs, mode, i, at(j)) /\ at(j) \in 1 .. n
        BY <1>3, <2>2, <4>1
      <4> QED
        BY <1>4, <1>5, <2>1, <4>2
    <3> QED
      BY <3>1
  <2>5. CASE k > first + count
    <3>1. ASSUME NEW j \in 1 .. count PROVE ~Less(mode, h, rows[j])
      <4>1. first + j \in 1 .. n /\ first + j < k
        BY <1>1, <1>2, <2>2, <2>5
      <4>2. Precedes(cs, mode, at(j), i) /\ at(j) \in 1 .. n
        BY <1>3, <2>2, <4>1
      <4> QED
        BY <1>4, <1>5, <2>1, <4>2
    <3> QED
      BY <3>1
  <2>6. k <= first \/ k > first + count
    BY <1>1, <2>2, <2>3
  <2> QED
    BY <2>4, <2>5, <2>6
<1> HIDE DEF rows
<1>8. InSortedPage(cs, mode, rows, count)
  BY <1>6, <1>7 DEF InSortedPage
<1> QED
  BY <1>8 DEF rows

-----------------------------------------------------------------------------
(* The loop *)

\* What every state has beside its types: keys move what the last frame shows,
\* and that frame is of a size a terminal or the configuration gives.
ScreenInv ==
  ViewTypeOK /\ OffsetOfFrame /\ Configured(lastFrame.size) = lastFrame.size

\* A frame of a snapshot in an order, from an offset on.
FrameOf(f, s, mode, o) ==
  /\ o \in Nat /\ f.first = o /\ f.mode = mode /\ f.snap = s
  /\ f \in [size : Size, snap : Snapshots, warned : 0 .. MaxWarnings,
            mode : Modes, first : Nat, count : Nat]
  /\ f.first + f.count <= Total(s)
  /\ f.count = DockerPageSize(f.snap, f.warned, f.size)
  /\ Configured(f.size) = f.size

\* A frame drawn with the clamped offset, whatever the offset was before.
LEMMA FrameOfShow ==
  ASSUME NEW s \in Snapshots, NEW w \in 0 .. MaxWarnings, NEW z \in Sizes,
         NEW mode \in Modes, NEW offset \in Int, NEW o,
         o = ClampDockerOffset(offset, Total(s), DockerPageSize(s, w, z))
  PROVE FrameOf(Frame(s, w, z, mode, o), s, mode, o)
<1> DEFINE page == DockerPageSize(s, w, z)
           f == Frame(s, w, z, mode, o)
<1>1. s \in Snapshot /\ w \in Nat /\ z \in Size
  BY ViewAssumption
<1>2. Total(s) \in Nat /\ page \in 0 .. Total(s)
  BY <1>1, Rows, PageInList
<1>3. /\ f.size = Configured(z) /\ f.snap = s /\ f.warned = w /\ f.mode = mode
      /\ f.count = page /\ f.count = DockerPageSize(s, w, f.size)
      /\ f.first = ClampDockerOffset(o, Total(s), f.count)
  BY <1>1, FrameCount
<1>4. f = [size |-> f.size, snap |-> f.snap, warned |-> f.warned, mode |-> f.mode,
           count |-> f.count, first |-> f.first]
  BY Zenon DEF Frame
<1>5. Configured(z) \in Size /\ Configured(Configured(z)) = Configured(z)
  BY <1>1, ConfiguredSize
<1> HIDE DEF page, f
<1>6. /\ o \in Nat /\ o + page <= Total(s)
      /\ ClampDockerOffset(o, Total(s), page) = o
  BY <1>2, ClampedOffset DEF page
<1>7. f.first = o /\ f.count \in Nat /\ f.first + f.count <= Total(s)
  BY <1>2, <1>3, <1>6
<1>8. f \in [size : Size, snap : Snapshots, warned : 0 .. MaxWarnings,
             mode : Modes, first : Nat, count : Nat]
  BY <1>3, <1>4, <1>5, <1>6, <1>7
<1> QED
  BY <1>3, <1>5, <1>6, <1>7, <1>8 DEF FrameOf, f

\* The first frame.
LEMMA FirstFrame == ViewInit => ScreenInv
<1> SUFFICES ASSUME ViewInit PROVE ScreenInv
  OBVIOUS
<1>1. size \in Sizes /\ snap \in Snapshots /\ warned = 0 /\ 0 \in 0 .. MaxWarnings
  BY ViewAssumption DEF ViewInit
<1>2. Total(snap) \in Nat /\ DockerPageSize(snap, 0, size) \in 0 .. Total(snap)
  BY <1>1, ViewAssumption, Rows, PageInList
<1>3. ClampDockerOffset(0, Total(snap), DockerPageSize(snap, 0, size)) = 0
  BY <1>2 DEF ClampDockerOffset, Clamp
<1>4. "default" \in Modes /\ winch \in BOOLEAN /\ sortMode = "default" /\ dockerOffset = 0
      /\ lastFrame = Frame(snap, 0, size, "default", 0)
  BY DEF ViewInit, Modes
<1>5. FrameOf(lastFrame, snap, "default", 0)
  BY <1>1, <1>3, <1>4, FrameOfShow
<1> QED
  BY <1>1, <1>4, <1>5 DEF FrameOf, ScreenInv, ViewTypeOK, OffsetOfFrame

\* Drawing a snapshot in an order, with any offset, restores the invariant.
LEMMA DrawRestores ==
  ASSUME ScreenInv, NEW s \in Snapshots, NEW mode \in Modes, NEW offset \in Int,
         Show(s, mode, offset), size' = size, winch' \in BOOLEAN, warned' = warned,
         snap' = s, sortMode' = mode
  PROVE ScreenInv'
<1>1. size \in Sizes /\ warned \in 0 .. MaxWarnings
  BY DEF ScreenInv, ViewTypeOK
<1>2. FrameOf(lastFrame', s, mode, dockerOffset')
  <2> DEFINE o == ClampDockerOffset(offset, Total(s), DockerPageSize(s, warned, size))
  <2>1. dockerOffset' = o /\ lastFrame' = Frame(s, warned, size, mode, o)
    BY DEF Show
  <2>2. FrameOf(Frame(s, warned, size, mode, o), s, mode, o)
    BY <1>1, FrameOfShow
  <2> QED
    BY <2>1, <2>2
<1> QED
  BY <1>1, <1>2 DEF FrameOf, ScreenInv, ViewTypeOK, OffsetOfFrame

\* What a key or a click asks for, drawn if it changes anything.
LEMMA SettleRestores ==
  ASSUME ScreenInv, NEW mode \in Modes, NEW offset \in Int, Settle(mode, offset)
  PROVE ScreenInv'
<1> DEFINE o == ClampDockerOffset(offset, Total(snap), DockerPageSize(snap, warned, size))
<1>1. /\ snap \in Snapshots /\ snap \in Snapshot /\ warned \in Nat /\ size \in Size
      /\ winch \in BOOLEAN
  BY ViewAssumption DEF ScreenInv, ViewTypeOK
<1>2. o \in Int
  BY <1>1, Rows, PageInList, ClampedOffset
<1>3. UNCHANGED <<size, winch, warned, snap>> /\ sortMode' = mode
  BY DEF Settle
<1>4. CASE mode # sortMode \/ o # dockerOffset
  <2>1. Show(snap, mode, o)
    BY <1>4 DEF Settle
  <2> HIDE DEF o
  <2> QED
    BY <1>1, <1>2, <1>3, <2>1, DrawRestores
<1>5. CASE ~(mode # sortMode \/ o # dockerOffset)
  <2>1. UNCHANGED <<dockerOffset, lastFrame, sortMode>>
    BY <1>3, <1>5 DEF Settle
  <2> QED
    BY <1>3, <2>1 DEF ScreenInv, ViewTypeOK, OffsetOfFrame
<1> QED
  BY <1>4, <1>5

\* The offset of a key is an integer.
LEMMA MovedInt ==
  ASSUME NEW key \in Keys, NEW offset \in Nat, NEW total \in Nat, NEW page \in Nat
  PROVE Moved(key, offset, total, page) \in Int
BY DEF Moved, Keys, Larger

\* A click keeps or chooses an order.
LEMMA ClickMode ==
  ASSUME NEW column \in Columns, NEW mode \in Modes, NEW y, NEW f
  PROVE DockerSortForClick(f, column, y, mode) \in Modes
<1>1. Toggle(column, mode) \in Modes
  BY DEF Toggle, Columns, Modes
<1> QED
  BY <1>1 DEF DockerSortForClick

\* Every step of the loop, the terminal and the collectors.
LEMMA StepOfScreen == ScreenInv /\ [ViewNext]_viewVars => ScreenInv'
<1> SUFFICES ASSUME ScreenInv, [ViewNext]_viewVars PROVE ScreenInv'
  OBVIOUS
<1>1. /\ size \in Sizes /\ snap \in Snapshots /\ winch \in BOOLEAN /\ sortMode \in Modes
      /\ dockerOffset \in Nat /\ warned \in 0 .. MaxWarnings
      /\ dockerOffset \in Int
  BY DEF ScreenInv, ViewTypeOK
<1>2. Total(snap) \in Nat /\ DockerPageSize(snap, warned, size) \in Nat
  BY <1>1, ViewAssumption, Rows, PageInList
<1>3. CASE Resize
  BY <1>3, ViewAssumption DEF Resize, ScreenInv, ViewTypeOK, OffsetOfFrame
<1>4. CASE Warn
  BY <1>4 DEF Warn, ScreenInv, ViewTypeOK, OffsetOfFrame
<1>5. CASE NewSnapshot
  <2>1. /\ snap' \in Snapshots /\ Show(snap', sortMode, dockerOffset)
        /\ size' = size /\ winch' = winch /\ warned' = warned /\ sortMode' = sortMode
    BY <1>5 DEF NewSnapshot
  <2>2. PICK s \in Snapshots : s = snap'
    BY <2>1
  <2> QED
    BY <1>1, <2>1, <2>2, DrawRestores
<1>6. CASE Winch
  <2>1. /\ Show(snap, sortMode, dockerOffset) /\ winch' \in BOOLEAN
        /\ size' = size /\ warned' = warned /\ snap' = snap /\ sortMode' = sortMode
    BY <1>6 DEF Winch
  <2> QED
    BY <1>1, <2>1, DrawRestores
<1>7. ASSUME NEW key \in Keys, Press(key) PROVE ScreenInv'
  <2> DEFINE next == Moved(key, dockerOffset, Total(snap), DockerPageSize(snap, warned, size))
  <2>1. next \in Int
    BY <1>1, <1>2, MovedInt
  <2>2. Settle(sortMode, next)
    BY <1>7 DEF Press
  <2> HIDE DEF next
  <2> QED
    BY <1>1, <2>1, <2>2, SettleRestores
<1>8. ASSUME NEW column \in Columns, NEW y, Click(column, y) PROVE ScreenInv'
  <2> DEFINE next == DockerSortForClick(lastFrame, column, y, sortMode)
             offset == IF next # sortMode THEN 0 ELSE dockerOffset
  <2>1. next \in Modes
    BY <1>1, ClickMode
  <2>2. offset \in Int
    BY <1>1
  <2>3. Settle(next, offset)
    BY <1>8 DEF Click
  <2> HIDE DEF next, offset
  <2> QED
    BY <2>1, <2>2, <2>3, SettleRestores
<1>9. CASE UNCHANGED viewVars
  BY <1>9 DEF viewVars, ScreenInv, ViewTypeOK, OffsetOfFrame
<1> QED
  BY <1>3, <1>4, <1>5, <1>6, <1>7, <1>8, <1>9 DEF ViewNext

-----------------------------------------------------------------------------
(* Theorems *)

\* The invariant of the loop.
LEMMA ScreenInvariant == ViewSpec => []ScreenInv
BY FirstFrame, StepOfScreen, PTL DEF ViewSpec

\* Every state has the types.
THEOREM ViewTypes == ViewSpec => []ViewTypeOK
<1>1. ScreenInv => ViewTypeOK
  BY DEF ScreenInv
<1> QED
  BY <1>1, ScreenInvariant, PTL

\* With snapshots, sizes and warnings of any number, keys move what the last
\* frame shows, and the renderers' page is the page of the keys.
THEOREM OffsetIsOfFrame == ViewSpec => []OffsetOfFrame
<1>1. ScreenInv => OffsetOfFrame
  BY DEF ScreenInv
<1> QED
  BY <1>1, ScreenInvariant, PTL

\* The last frame was drawn with the page of the keys.
LEMMA LastFrameDrawn == ScreenInv => Drawn(lastFrame) /\ lastFrame.snap = snap
BY ViewAssumption DEF ScreenInv, ViewTypeOK, OffsetOfFrame, Drawn

\* Every frame that can fit its terminal does, and hides no container that
\* it has a line for: the rows the layouts reserve are the rows they draw.
THEOREM FramesFit == ViewSpec => []FrameFits
<1>1. ScreenInv => FrameFits
  BY LastFrameDrawn, DrawnFits DEF FrameFits
<1> QED
  BY <1>1, ScreenInvariant, PTL

\* A click where the terminal shows the header sorts by its column.
THEOREM ClicksSort == ViewSpec => []ClickSorts
<1>1. ASSUME ScreenInv, Fits(lastFrame), NEW column \in Columns
      PROVE DockerSortForClick(lastFrame, column,
              HeaderLine(lastFrame) - Scrolled(lastFrame), sortMode)
            = Toggle(column, sortMode)
  <2> DEFINE y == HeaderLine(lastFrame) - Scrolled(lastFrame)
  <2>1. /\ Lines(lastFrame) \in Nat /\ Lines(lastFrame) <= lastFrame.size.rows
        /\ HeaderLine(lastFrame) \in Nat /\ HeaderLine(lastFrame) >= 3
    BY <1>1, LastFrameDrawn, DrawnFits
  <2>2. lastFrame.size.rows \in Nat
    BY <1>1, LastFrameDrawn DEF Drawn, Size
  <2>3. Scrolled(lastFrame) \in 0 .. 1
    BY <2>1, <2>2 DEF Scrolled, Larger
  <2>4. y >= 1 /\ y - HeaderLine(lastFrame) \in -2 .. 2
    BY <2>1, <2>3
  <2> QED
    BY <2>4 DEF DockerSortForClick, NearHeader
<1>2. ScreenInv => ClickSorts
  BY <1>1 DEF ClickSorts
<1> QED
  BY <1>2, ScreenInvariant, PTL

\* Whatever the list, no hidden container belongs between two that are shown,
\* which are in order and different: a page is sorted after the whole list.
THEOREM PagesAreOfSortedList == ViewSpec => []PageOfSortedList
<1> DEFINE cs == snap.list
           n == Len(cs)
           first == lastFrame.first
           count == lastFrame.count
<1>1. ASSUME ScreenInv PROVE PageOfSortedList
  <2>1. /\ cs \in Seq(Containers) /\ n \in Nat /\ first \in Nat /\ count \in Nat
        /\ first + count <= n /\ lastFrame.snap = snap /\ lastFrame.mode = sortMode
        /\ DistinctIds(cs)
    <3>1. snap \in Snapshots /\ lastFrame.first \in Nat /\ lastFrame.count \in Nat
      BY <1>1 DEF ScreenInv, ViewTypeOK
    <3>2. snap \in Snapshot /\ \A i, j \in DOMAIN cs : cs[i].id = cs[j].id => i = j
      BY <3>1, ViewAssumption
    <3>3. cs \in Seq(Containers)
      BY <3>2 DEF Snapshot, Containers
    <3>4. DOMAIN cs = 1 .. n /\ n \in Nat
      BY <3>3
    <3> QED
      BY <1>1, <3>1, <3>2, <3>3, <3>4 DEF ScreenInv, OffsetOfFrame, Total, DistinctIds
  <2>2. /\ Shown(lastFrame) = SubSeq(Sorted(cs, sortMode), first + 1, first + count)
        /\ Total(snap) = n
    BY <2>1 DEF Shown, Total
  <2> HIDE DEF first, count
  <2>3. PICK list, mode, from, many :
          list = cs /\ mode = sortMode /\ from = first /\ many = count
    OBVIOUS
  <2>4. /\ list \in Seq(Containers) /\ DistinctIds(list)
        /\ from \in Nat /\ many \in Nat /\ from + many <= Len(list)
    BY <2>1, <2>3
  <2>5. InSortedPage(list, mode, SubSeq(Sorted(list, mode), from + 1, from + many), many)
    BY ONLY <2>4, PageOfSort
  <2>6. SubSeq(Sorted(list, mode), from + 1, from + many) = Shown(lastFrame)
    BY <2>2, <2>3
  <2>7. /\ mode = sortMode /\ many = lastFrame.count
        /\ list = snap.list /\ Len(list) = Total(snap)
    BY <2>1, <2>2, <2>3 DEF count
  <2>8. InSortedPage(snap.list, sortMode, Shown(lastFrame), lastFrame.count)
    BY <2>5, <2>6, <2>7
  <2> QED
    BY ONLY <2>7, <2>8 DEF InSortedPage, PageOfSortedList
<1> QED
  BY <1>1, ScreenInvariant, PTL
=============================================================================
