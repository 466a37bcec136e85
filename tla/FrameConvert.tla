----------------------------- MODULE FrameConvert -----------------------------
(***************************************************************************)
(* What omv_player/frame.rs makes of a decoded frame.                      *)
(*                                                                         *)
(* A movie f has a picture of f.width by f.height pixels of a type; its    *)
(* decoder gives three planes of f.decoded rows, the second and third with *)
(* half the rows and columns when f.subsampled.  A byte of the decoder is  *)
(* named by its place <<plane, row, column>>, "pad" when it is behind the  *)
(* end of its row in the plane; "opaque" is the byte 0xFF.  A pixel is the *)
(* sequence <<b, g, r, a>> in memory order.  A movie with alpha has it as  *)
(* three bands below the picture, one in each plane.                       *)
(***************************************************************************)
EXTENDS Naturals, Sequences

\* OmvVideoFormat
Types == {"Rgb", "Rgba", "Yuv", "Unknown"}

DivCeil(a, b) == (a + b - 1) \div b

PlaneRows(f, p) ==
    IF p # 0 /\ f.subsampled THEN DivCeil(f.decoded, 2) ELSE f.decoded
PlaneColumns(f, p) ==
    IF p # 0 /\ f.subsampled THEN DivCeil(f.width, 2) ELSE f.width

\* The byte the decoder has at a place of plane p.
Byte(f, p, row, x) == IF x < PlaneColumns(f, p) THEN <<p, row, x>> ELSE "pad"

------------------------------------------------------------------------------

\* MUTANT gives the bands the rounded-down third of the rows.
AlphaRowsFloor(h) == h \div 3
\* alpha_h: the rows of the picture that a band of alpha is for.
AlphaRows(h) == (h + 2) \div 3

\* The calls of rgba_to_bgra_loop: band k is for BandRows rows from BandStart
\* on, and has their alpha in plane k, below the picture.
BandStart(h, k) == k * AlphaRows(h)
BandRows(h, k) == IF k < 2 THEN AlphaRows(h) ELSE h - 2 * AlphaRows(h)

BandOf(h, y) == CHOOSE k \in 0..2 : BandStart(h, k) <= y /\ y < BandStart(h, k) + BandRows(h, k)

AlphaPlace(h, y) ==
    LET k == BandOf(h, y) IN [plane |-> k, row |-> h + (y - BandStart(h, k))]

\* The slices the conversion takes are inside the planes and the picture.  A
\* picture of one row has a last band that ends before it starts.
BandsInside(f) ==
    LET h == f.height
    IN  /\ 2 * AlphaRows(h) <= h
        /\ \A k \in 0..2 : h + BandRows(h, k) <= PlaneRows(f, k)

------------------------------------------------------------------------------

(***************************************************************************)
(* The AVX2 block of 32 pixels: registers are functions on 0..31.          *)
(***************************************************************************)
Lane(i) == 16 * (i \div 16)

\* vpunpcklbw (half = 0) and vpunpckhbw (half = 8)
UnpackBytes(u, v, half) ==
    [i \in 0..31 |-> LET j == Lane(i) + half + (i % 16) \div 2
                     IN  IF i % 2 = 0 THEN u[j] ELSE v[j]]

\* vpunpcklwd (half = 0) and vpunpckhwd (half = 8)
UnpackWords(u, v, half) ==
    [i \in 0..31 |-> LET j == Lane(i) + half + 2 * ((i % 16) \div 4) + (i % 2)
                     IN  IF (i % 4) < 2 THEN u[j] ELSE v[j]]

\* vperm2i128 0x20 (lane = 0) and 0x31 (lane = 16): the same lane of both.
PermuteLanes(u, v, lane) ==
    [i \in 0..31 |-> IF i < 16 THEN u[lane + i] ELSE v[lane + i - 16]]

\* MUTANT stores the middle quarters in the order they are made in.
StoredAtInOrder(i) == i \div 32
\* Which of the four registers, in the order of the code, is stored where.
StoredAt(i) == <<0, 2, 1, 3>>[i \div 32 + 1]

\* The 128 bytes that a block writes.
VectorBlock(b, g, r, a) ==
    LET lo == [bg |-> UnpackBytes(b, g, 0), ra |-> UnpackBytes(r, a, 0)]
        hi == [bg |-> UnpackBytes(b, g, 8), ra |-> UnpackBytes(r, a, 8)]
        ll == UnpackWords(lo.bg, lo.ra, 0)
        lh == UnpackWords(lo.bg, lo.ra, 8)
        hl == UnpackWords(hi.bg, hi.ra, 0)
        hh == UnpackWords(hi.bg, hi.ra, 8)
        made == << PermuteLanes(ll, lh, 0), PermuteLanes(ll, lh, 16),
                   PermuteLanes(hl, hh, 0), PermuteLanes(hl, hh, 16) >>
    IN  [i \in 0..127 |-> made[StoredAt(i) + 1][i % 32]]

\* A row of pixels from rows of bytes, one pixel at a time ...
ScalarRow(w, b, g, r, a) == [x \in 0..(w - 1) |-> <<b[x], g[x], r[x], a[x]>>]

\* ... or in blocks of 32, and the rest one at a time.
VectorRow(w, b, g, r, a) ==
    [x \in 0..(w - 1) |->
        IF x < 32 * (w \div 32)
          THEN LET from  == 32 * (x \div 32)
                   In(s) == [i \in 0..31 |-> s[from + i]]
                   block == VectorBlock(In(b), In(g), In(r), In(a))
               IN  [c \in 1..4 |-> block[4 * (x - from) + c - 1]]
          ELSE <<b[x], g[x], r[x], a[x]>>]

------------------------------------------------------------------------------

PlaneRow(f, p, row) == [x \in 0..(f.width - 1) |-> Byte(f, p, row, x)]

\* convert_fake_rgb_to_bgra
RgbPicture(f) ==
    [y \in 0..(f.height - 1) |->
        ScalarRow(f.width, PlaneRow(f, 2, y), PlaneRow(f, 1, y), PlaneRow(f, 0, y),
                  [x \in 0..(f.width - 1) |-> "opaque"])]

\* convert_fake_rgba_to_bgra, on a processor with AVX2 or not.
RgbaPicture(f, avx2) ==
    [y \in 0..(f.height - 1) |->
        LET alpha == AlphaPlace(f.height, y)
            Row(w, b, g, r, a) == IF avx2 THEN VectorRow(w, b, g, r, a)
                                          ELSE ScalarRow(w, b, g, r, a)
        IN  Row(f.width, PlaneRow(f, 2, y), PlaneRow(f, 1, y), PlaneRow(f, 0, y),
                PlaneRow(f, alpha.plane, alpha.row))]

\* What a conversion ends with.  A slice out of bounds panics.  The error of
\* yuv444_to_bgra, whose planes and picture must have the frame's size, is
\* dropped: the buffer keeps what it had in it ("old").  The colours of "yuv"
\* are the yuv crate's own.
RgbConverted(f) ==
    IF f.decoded > f.height \/ \E p \in 0..2 : PlaneRows(f, p) < f.height
      THEN "panic" ELSE "rgb"
RgbaConverted(f) == IF BandsInside(f) THEN "rgba" ELSE "panic"
YuvConverted(f) == IF f.decoded > f.height \/ f.subsampled THEN "old" ELSE "yuv"

\* convert_frame_pix_fmt
Converted(f) ==
    CASE f.type = "Rgb" -> RgbConverted(f)
      [] f.type = "Rgba" -> RgbaConverted(f)
      [] f.type = "Yuv" -> YuvConverted(f)
      [] f.type = "Unknown" -> "error"

\* The picture, where it is the program's own.
Picture(f, avx2) == IF f.type = "Rgba" THEN RgbaPicture(f, avx2) ELSE RgbPicture(f)

==============================================================================
