--------------------------- MODULE FrameConvertProofs ---------------------------
(***************************************************************************)
(* The conversion of pictures with alpha, for every size: what the AVX2    *)
(* block makes of 32 pixels, and where the alpha of a row comes from.      *)
(***************************************************************************)
EXTENDS FrameConvert, TLAPS

\* In each lane l, the bytes at half of u and v alternate.
LEMMA UnpackedBytes ==
    ASSUME NEW u, NEW v, NEW half \in {0, 8}, NEW l \in {0, 1}, NEW q \in 0..7
    PROVE  /\ UnpackBytes(u, v, half)[16 * l + 2 * q] = u[16 * l + half + q]
           /\ UnpackBytes(u, v, half)[16 * l + 2 * q + 1] = v[16 * l + half + q]
<1>1. /\ 16 * l + 2 * q \in 0..31 /\ 16 * l + 2 * q + 1 \in 0..31
      /\ (16 * l + 2 * q) \div 16 = l /\ (16 * l + 2 * q + 1) \div 16 = l
      /\ ((16 * l + 2 * q) % 16) \div 2 = q /\ ((16 * l + 2 * q + 1) % 16) \div 2 = q
      /\ (16 * l + 2 * q) % 2 = 0 /\ (16 * l + 2 * q + 1) % 2 = 1
  OBVIOUS
<1> QED
  BY <1>1 DEF UnpackBytes, Lane

\* In each lane l, the pairs of bytes at half of u and v alternate.
LEMMA UnpackedWords ==
    ASSUME NEW u, NEW v, NEW half \in {0, 8}, NEW l \in {0, 1}, NEW q \in 0..3,
           NEW e \in {0, 1}
    PROVE  /\ UnpackWords(u, v, half)[16 * l + 4 * q + e] = u[16 * l + half + 2 * q + e]
           /\ UnpackWords(u, v, half)[16 * l + 4 * q + 2 + e] = v[16 * l + half + 2 * q + e]
<1>1. /\ 16 * l + 4 * q + e \in 0..31 /\ 16 * l + 4 * q + 2 + e \in 0..31
      /\ (16 * l + 4 * q + e) \div 16 = l /\ (16 * l + 4 * q + 2 + e) \div 16 = l
      /\ ((16 * l + 4 * q + e) % 16) \div 4 = q /\ ((16 * l + 4 * q + 2 + e) % 16) \div 4 = q
      /\ (16 * l + 4 * q + e) % 2 = e /\ (16 * l + 4 * q + 2 + e) % 2 = e
      /\ (16 * l + 4 * q + e) % 4 < 2 /\ ~((16 * l + 4 * q + 2 + e) % 4 < 2)
  OBVIOUS
<1> QED
  BY <1>1 DEF UnpackWords, Lane

\* Both one after the other make four pixels of each lane.
LEMMA UnpackedPixels ==
    ASSUME NEW b, NEW g, NEW r, NEW a, NEW half \in {0, 8}, NEW w \in {0, 8},
           NEW l \in {0, 1}, NEW q \in 0..3
    PROVE  LET bytes == UnpackWords(UnpackBytes(b, g, half), UnpackBytes(r, a, half), w)
               at    == 16 * l + 4 * q
               pixel == 16 * l + half + (w \div 2) + q
           IN  /\ bytes[at] = b[pixel] /\ bytes[at + 1] = g[pixel]
               /\ bytes[at + 2] = r[pixel] /\ bytes[at + 3] = a[pixel]
<1> DEFINE bg == UnpackBytes(b, g, half)
           ra == UnpackBytes(r, a, half)
           at == 16 * l + 4 * q
           place == 16 * l + w + 2 * q
           pixel == 16 * l + half + (w \div 2) + q
<1>1. /\ bg[place] = b[pixel] /\ bg[place + 1] = g[pixel]
      /\ ra[place] = r[pixel] /\ ra[place + 1] = a[pixel]
  <2>1. ASSUME NEW p \in 0..7
        PROVE  /\ bg[16 * l + 2 * p] = b[16 * l + half + p]
               /\ bg[16 * l + 2 * p + 1] = g[16 * l + half + p]
               /\ ra[16 * l + 2 * p] = r[16 * l + half + p]
               /\ ra[16 * l + 2 * p + 1] = a[16 * l + half + p]
    BY UnpackedBytes
  <2>2. PICK p \in 0..7 : p = w \div 2 + q
    OBVIOUS
  <2>3. 16 * l + 2 * p = place /\ 16 * l + half + p = pixel
    BY <2>2
  <2> HIDE DEF bg, ra, place, pixel
  <2> QED
    BY <2>1, <2>3
<1>2. ASSUME NEW e \in {0, 1}
      PROVE  /\ UnpackWords(bg, ra, w)[at + e] = bg[place + e]
             /\ UnpackWords(bg, ra, w)[at + 2 + e] = ra[place + e]
  <2> HIDE DEF bg, ra
  <2> QED
    BY UnpackedWords
<1>3. /\ UnpackWords(bg, ra, w)[at + 0] = bg[place + 0]
      /\ UnpackWords(bg, ra, w)[at + 2 + 0] = ra[place + 0]
      /\ UnpackWords(bg, ra, w)[at + 1] = bg[place + 1]
      /\ UnpackWords(bg, ra, w)[at + 2 + 1] = ra[place + 1]
  BY <1>2
<1>4. /\ at + 0 = at /\ at + 2 + 0 = at + 2 /\ at + 2 + 1 = at + 3
      /\ place + 0 = place
  OBVIOUS
<1> HIDE DEF bg, ra, at, place, pixel
<1>5. /\ UnpackWords(bg, ra, w)[at] = b[pixel] /\ UnpackWords(bg, ra, w)[at + 1] = g[pixel]
      /\ UnpackWords(bg, ra, w)[at + 2] = r[pixel] /\ UnpackWords(bg, ra, w)[at + 3] = a[pixel]
  BY <1>1, <1>3, <1>4
<1> QED
  BY <1>5 DEF bg, ra, at, pixel

\* The block has the 32 pixels in their order: k is pixel q of a quarter of a
\* lane, and m tells the register that has the quarter.
LEMMA BlockPixels ==
    ASSUME NEW b, NEW g, NEW r, NEW a, NEW k \in 0..31
    PROVE  LET block == VectorBlock(b, g, r, a)
           IN  /\ block[4 * k] = b[k] /\ block[4 * k + 1] = g[k]
               /\ block[4 * k + 2] = r[k] /\ block[4 * k + 3] = a[k]
<1> DEFINE ll == UnpackWords(UnpackBytes(b, g, 0), UnpackBytes(r, a, 0), 0)
           lh == UnpackWords(UnpackBytes(b, g, 0), UnpackBytes(r, a, 0), 8)
           hl == UnpackWords(UnpackBytes(b, g, 8), UnpackBytes(r, a, 8), 0)
           hh == UnpackWords(UnpackBytes(b, g, 8), UnpackBytes(r, a, 8), 8)
           made == << PermuteLanes(ll, lh, 0), PermuteLanes(ll, lh, 16),
                      PermuteLanes(hl, hh, 0), PermuteLanes(hl, hh, 16) >>
           Is(reg, at) == /\ reg[at] = b[k] /\ reg[at + 1] = g[k]
                          /\ reg[at + 2] = r[k] /\ reg[at + 3] = a[k]
           l == k \div 16
           q == k % 4
           at == 16 * l + 4 * q
           m == k % 16
<1>1. l \in {0, 1} /\ q \in 0..3
  OBVIOUS
<1>2. /\ m \in 0..3 => 16 * l + 0 + (0 \div 2) + q = k
      /\ m \in 4..7 => 16 * l + 0 + (8 \div 2) + q = k
      /\ m \in 8..11 => 16 * l + 8 + (0 \div 2) + q = k
      /\ m \in 12..15 => 16 * l + 8 + (8 \div 2) + q = k
  OBVIOUS
<1>3. /\ m \in 0..3 => Is(ll, at)
      /\ m \in 4..7 => Is(lh, at)
      /\ m \in 8..11 => Is(hl, at)
      /\ m \in 12..15 => Is(hh, at)
  <2> HIDE DEF l, q, m
  <2>1. 0 \in {0, 8} /\ 8 \in {0, 8}
    OBVIOUS
  <2>2. m \in 0..3 => Is(ll, at)
    BY <1>1, <1>2, UnpackedPixels, <2>1
  <2>3. m \in 4..7 => Is(lh, at)
    BY <1>1, <1>2, UnpackedPixels, <2>1
  <2>4. m \in 8..11 => Is(hl, at)
    BY <1>1, <1>2, UnpackedPixels, <2>1
  <2>5. m \in 12..15 => Is(hh, at)
    BY <1>1, <1>2, UnpackedPixels, <2>1
  <2> QED
    BY <2>2, <2>3, <2>4, <2>5
<1>4. \A i \in 0..127 : VectorBlock(b, g, r, a)[i] = made[StoredAt(i) + 1][i % 32]
  BY DEF VectorBlock
<1> HIDE DEF ll, lh, hl, hh
<1>5. ASSUME NEW c \in 0..3
      PROVE  /\ m \in 0..3 => VectorBlock(b, g, r, a)[4 * k + c] = ll[at + c]
             /\ m \in 4..7 => VectorBlock(b, g, r, a)[4 * k + c] = lh[at + c]
             /\ m \in 8..11 => VectorBlock(b, g, r, a)[4 * k + c] = hl[at + c]
             /\ m \in 12..15 => VectorBlock(b, g, r, a)[4 * k + c] = hh[at + c]
  <2>1. VectorBlock(b, g, r, a)[4 * k + c] = made[StoredAt(4 * k + c) + 1][(4 * k + c) % 32]
    <3> HIDE DEF made
    <3>1. 4 * k + c \in 0..127
      OBVIOUS
    <3> QED
      BY <1>4, <3>1
  <2>2. /\ k \in 0..7 => (4 * k + c) \div 32 = 0 /\ (4 * k + c) % 32 = 4 * k + c
        /\ k \in 8..15 => (4 * k + c) \div 32 = 1 /\ (4 * k + c) % 32 = 4 * (k - 8) + c
        /\ k \in 16..23 => (4 * k + c) \div 32 = 2 /\ (4 * k + c) % 32 = 4 * (k - 16) + c
        /\ k \in 24..31 => (4 * k + c) \div 32 = 3 /\ (4 * k + c) % 32 = 4 * (k - 24) + c
    OBVIOUS
  <2>3. /\ k \in 0..7 => StoredAt(4 * k + c) + 1 = 1
        /\ k \in 8..15 => StoredAt(4 * k + c) + 1 = 3
        /\ k \in 16..23 => StoredAt(4 * k + c) + 1 = 2
        /\ k \in 24..31 => StoredAt(4 * k + c) + 1 = 4
    BY <2>2 DEF StoredAt
  <2> HIDE DEF at, m
  <2>4. ASSUME NEW u, NEW v, NEW j \in 0..31
        PROVE  /\ PermuteLanes(u, v, 0)[j] = (IF j < 16 THEN u[j] ELSE v[j - 16])
               /\ PermuteLanes(u, v, 16)[j] = (IF j < 16 THEN u[16 + j] ELSE v[j])
    BY DEF PermuteLanes
  <2>5. CASE k \in 0..7
    BY <2>5, <2>1, <2>2, <2>3, <2>4 DEF at, m
  <2>6. CASE k \in 8..15
    BY <2>6, <2>1, <2>2, <2>3, <2>4 DEF at, m
  <2>7. CASE k \in 16..23
    BY <2>7, <2>1, <2>2, <2>3, <2>4 DEF at, m
  <2>8. CASE k \in 24..31
    BY <2>8, <2>1, <2>2, <2>3, <2>4 DEF at, m
  <2> QED
    BY <2>5, <2>6, <2>7, <2>8
<1>6. 4 * k + 0 = 4 * k /\ at + 0 = at
  OBVIOUS
<1>7. m \in 0..3 \/ m \in 4..7 \/ m \in 8..11 \/ m \in 12..15
  OBVIOUS
<1> HIDE DEF at, m
<1> QED
  BY <1>3, <1>5, <1>6, <1>7

\* A row made in blocks of 32 pixels is the row made one by one.
THEOREM RowsAgree ==
    ASSUME NEW w \in Nat, NEW b, NEW g, NEW r, NEW a
    PROVE  VectorRow(w, b, g, r, a) = ScalarRow(w, b, g, r, a)
<1> SUFFICES ASSUME NEW x \in 0..(w - 1), x < 32 * (w \div 32)
             PROVE  VectorRow(w, b, g, r, a)[x] = <<b[x], g[x], r[x], a[x]>>
  BY DEF VectorRow, ScalarRow
<1> DEFINE from == 32 * (x \div 32)
           In(s) == [i \in 0..31 |-> s[from + i]]
           block == VectorBlock(In(b), In(g), In(r), In(a))
<1>1. PICK k \in 0..31 : x = from + k /\ k = x - from
  OBVIOUS
<1>2. /\ block[4 * k] = In(b)[k] /\ block[4 * k + 1] = In(g)[k]
      /\ block[4 * k + 2] = In(r)[k] /\ block[4 * k + 3] = In(a)[k]
  <2> HIDE DEF In
  <2> QED
    BY BlockPixels
<1>3. In(b)[k] = b[x] /\ In(g)[k] = g[x] /\ In(r)[k] = r[x] /\ In(a)[k] = a[x]
  <2> HIDE DEF from
  <2> QED
    BY <1>1
<1>4. VectorRow(w, b, g, r, a)[x] = [c \in 1..4 |-> block[4 * (x - from) + c - 1]]
  BY DEF VectorRow
<1>5. /\ 4 * k + 1 - 1 = 4 * k /\ 4 * k + 2 - 1 = 4 * k + 1
      /\ 4 * k + 3 - 1 = 4 * k + 2 /\ 4 * k + 4 - 1 = 4 * k + 3
  OBVIOUS
<1> HIDE DEF block, In, from
<1>6. [c \in 1..4 |-> block[4 * k + c - 1]] = <<b[x], g[x], r[x], a[x]>>
  BY <1>2, <1>3, <1>5
<1> QED
  BY <1>1, <1>4, <1>6

\* The band of a row and the place of its alpha: a picture whose bands are
\* inside has its rows divided by the rounded-up third of its height.
LEMMA AlphaIsThere ==
    ASSUME NEW h \in Nat, h > 0, 2 * AlphaRows(h) <= h, NEW y \in 0..(h - 1)
    PROVE  /\ AlphaPlace(h, y) = [plane |-> y \div DivCeil(h, 3),
                                  row |-> h + (y % DivCeil(h, 3))]
           /\ y \div DivCeil(h, 3) \in 0..2
<1> DEFINE rows == AlphaRows(h)
<1>1. rows = DivCeil(h, 3) /\ rows \in Nat \ {0} /\ h <= 3 * rows /\ 2 * rows <= h
  BY DEF AlphaRows, DivCeil
<1>2. PICK k \in 0..2 : k * rows <= y /\ y < k * rows + rows
  <2> HIDE DEF rows
  <2>1. y < rows => 0 * rows <= y /\ y < 0 * rows + rows
    BY <1>1
  <2>2. rows <= y /\ y < 2 * rows => 1 * rows <= y /\ y < 1 * rows + rows
    BY <1>1
  <2>3. 2 * rows <= y => 2 * rows <= y /\ y < 2 * rows + rows
    BY <1>1
  <2> QED
    BY <1>1, <2>1, <2>2, <2>3
<1>3. ASSUME NEW m \in 0..2
      PROVE  BandStart(h, m) <= y /\ y < BandStart(h, m) + BandRows(h, m) <=> m = k
  <2>1. BandStart(h, m) = m * rows /\ BandRows(h, m) = IF m < 2 THEN rows ELSE h - 2 * rows
    BY DEF BandStart, BandRows
  <2> HIDE DEF rows
  <2>2. CASE m = 0
    BY <1>1, <1>2, <2>1, <2>2
  <2>3. CASE m = 1
    BY <1>1, <1>2, <2>1, <2>3
  <2>4. CASE m = 2
    BY <1>1, <1>2, <2>1, <2>4
  <2> QED
    BY <2>2, <2>3, <2>4
<1>4. BandOf(h, y) = k
  BY <1>3 DEF BandOf
<1>5. y \div rows = k /\ y % rows = y - k * rows
  <2> HIDE DEF rows
  <2>1. CASE k = 0
    BY <1>1, <1>2, <2>1
  <2>2. CASE k = 1
    BY <1>1, <1>2, <2>2
  <2>3. CASE k = 2
    BY <1>1, <1>2, <2>3
  <2> QED
    BY <2>1, <2>2, <2>3
<1>6. BandStart(h, k) = k * rows
  BY DEF BandStart
<1> QED
  BY <1>1, <1>4, <1>5, <1>6 DEF AlphaPlace

==============================================================================
