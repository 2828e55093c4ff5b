------------------------------- MODULE Indexing -------------------------------
(***************************************************************************)
(* Positions in boxes and their linear indices: the conversions            *)
(* (algorithms/static-ranges/, utility/multi-size.hpp), an iterator that   *)
(* keeps both (utility/index-position-wrapper.hpp), products of ranges     *)
(* (ranges/cartesian-product.hpp), ranges of indices (ranges/indices.hpp)  *)
(* and the iteration over boxes, also in tiles and vectors (algorithms/    *)
(* ranges/).  Dimensions are counted from 1 here, positions from 0, and a  *)
(* range is the pair of its begin and its end.  IndexRight says what each  *)
(* has to give, in terms of the lexicographic order of the positions.      *)
(***************************************************************************)
EXTENDS Integers, Sequences, FiniteSets, SequencesExt

CONSTANTS MaxAxis,   \* the longest axis
          IndexWord  \* the values of the index type are 0 .. IndexWord - 1

Smaller(a, b) == IF a <= b THEN a ELSE b
Larger(a, b) == IF a <= b THEN b ELSE a
Upto(a, b) == [i \in 1 .. Larger(0, b - a) |-> a + i - 1]
Mapped(s, Op(_)) == [i \in DOMAIN s |-> Op(s[i])]

-----------------------------------------------------------------------------
(* position_to_index, index_to_position *)

\* postfix_product_inclusive: what the axes from each one on have together, and 1 behind the last.
FromSizes(dims) == FoldRight(LAMBDA d, acc : <<d * acc[1]>> \o acc, dims, <<1>>)
TotalSize(dims) == FromSizes(dims)[1]
AfterSize(dims, d) == FromSizes(dims)[d + 1]

PositionToIndex(pos, dims) ==
  FoldLeft(LAMBDA s, d : s + pos[d] * AfterSize(dims, d), 0, [d \in DOMAIN dims |-> d])

\* The axes are split off from the last one; the first one takes what remains.
IndexToPosition(index, dims) ==
  LET Split(acc, d) == [rest |-> acc.rest \div dims[d], pos |-> <<acc.rest % dims[d]>> \o acc.pos]
      acc == FoldLeft(Split, [rest |-> index, pos |-> <<>>], Reverse([d \in 1 .. Len(dims) - 1 |-> d + 1]))
  IN  <<acc.rest>> \o acc.pos

\* MultiSize
IndexToAxisIndex(index, dims, d) == (index \div AfterSize(dims, d)) % dims[d]

-----------------------------------------------------------------------------
(* SubMultiSize: a box in a world, given by the begin and the size of each axis. *)

AxisEnd(box, d) == box.begins[d] + box.sizes[d]
LocalToGlobal(box, pos) == [d \in DOMAIN pos |-> pos[d] + box.begins[d]]
GlobalToLocal(box, pos) == [d \in DOMAIN pos |-> pos[d] - box.begins[d]]
GlobalPosToLocalIndex(box, pos) == PositionToIndex(GlobalToLocal(box, pos), box.sizes)
LocalIndexToGlobalPos(box, i) == LocalToGlobal(box, IndexToPosition(i, box.sizes))
HasPosition(box, pos) == \A d \in DOMAIN pos : box.begins[d] <= pos[d] /\ pos[d] < AxisEnd(box, d)

ExpandBox(box, amount, world) ==
  LET begins == [d \in DOMAIN world |-> Larger(0, box.begins[d] - amount)]
  IN  [begins |-> begins,
       sizes |-> [d \in DOMAIN world |-> Smaller(AxisEnd(box, d) + amount, world[d]) - begins[d]]]

ReflectInto(box, pos) ==
  [d \in DOMAIN pos |->
     IF pos[d] < box.begins[d] THEN box.begins[d] + (box.begins[d] - pos[d] - 1)
     ELSE IF pos[d] >= AxisEnd(box, d) THEN AxisEnd(box, d) - (pos[d] - AxisEnd(box, d) + 1) ELSE pos[d]]
Reflect(box, pos, axes) ==
  [d \in DOMAIN pos |-> IF d \in axes THEN AxisEnd(box, d) - (pos[d] - box.begins[d] + 1) ELSE pos[d]]

-----------------------------------------------------------------------------
(* PosIndexWrapper: an index and its position, stepped together.  With a DualIndexManager the index *)
(* counts something else, from another beginning.                                                   *)

Wrapper(index, posIndex, dims) == [index |-> index, posIndex |-> posIndex, pos |-> IndexToPosition(posIndex, dims)]

RECURSIVE CarryUp(_, _, _)
CarryUp(pos, dims, d) ==
  IF d = 1 \/ pos[d] # dims[d] THEN pos
  ELSE CarryUp([pos EXCEPT ![d] = 0, ![d - 1] = pos[d - 1] + 1], dims, d - 1)
RECURSIVE BorrowDown(_, _, _)
BorrowDown(pos, dims, d) ==
  IF d = 1 \/ pos[d] # -1 THEN pos
  ELSE BorrowDown([pos EXCEPT ![d] = dims[d] - 1, ![d - 1] = pos[d - 1] - 1], dims, d - 1)

WrapperNext(w, dims) ==
  LET n == Len(dims)
  IN  [index |-> w.index + 1, posIndex |-> w.posIndex + 1, pos |-> CarryUp([w.pos EXCEPT ![n] = @ + 1], dims, n)]
WrapperPrevious(w, dims) ==
  LET n == Len(dims)
  IN  [index |-> w.index - 1, posIndex |-> w.posIndex - 1, pos |-> BorrowDown([w.pos EXCEPT ![n] = @ - 1], dims, n)]
WrapperAdd(w, off, dims) == Wrapper(w.index + off, w.posIndex + off, dims)

-----------------------------------------------------------------------------
(* CartesianProductView: the iterator is the tuple of the bases' iterators, counted from 0. *)

RECURSIVE CartNext(_, _, _)
CartNext(it, sizes, d) ==
  LET up == [it EXCEPT ![d] = @ + 1]
  IN  IF d > 1 /\ up[d] = sizes[d] THEN CartNext([up EXCEPT ![d] = 0], sizes, d - 1) ELSE up

RECURSIVE CartPrevious(_, _, _)
CartPrevious(it, sizes, d) ==
  LET down(t) == [t EXCEPT ![d] = @ - 1]
  IN  IF d > 1 /\ it[d] = 0 THEN down(CartPrevious([it EXCEPT ![d] = sizes[d]], sizes, d - 1)) ELSE down(it)

\* Division as in C++: it truncates, and the remainder has the sign of the dividend.
Quot(a, b) == IF a < 0 THEN -((-a) \div b) ELSE a \div b
Rem(a, b) == a - b * Quot(a, b)

RECURSIVE CartAdvance(_, _, _, _)
CartAdvance(it, sizes, d, delta) ==
  IF delta = 1 THEN CartNext(it, sizes, d)
  ELSE IF delta = -1 THEN CartPrevious(it, sizes, d)
  ELSE IF delta = 0 THEN it
  ELSE IF d = 1 THEN [it EXCEPT ![1] = @ + delta]
  ELSE LET offset == it[d] + delta
           new == Rem(offset, sizes[d])
           down == IF new < 0 THEN 1 ELSE 0
       IN  CartAdvance([it EXCEPT ![d] = new + down * sizes[d]], sizes, d - 1, Quot(offset, sizes[d]) - down)

CartDistance(it, other, sizes) ==
  FoldLeft(LAMBDA s, d : s + (it[d] - other[d]) * AfterSize(sizes, d), 0, [d \in DOMAIN sizes |-> d])
CartBegin(sizes) == [d \in DOMAIN sizes |-> 0]
CartEnd(sizes) ==
  [d \in DOMAIN sizes |-> IF d = 1 /\ \A e \in 2 .. Len(sizes) : sizes[e] > 0 THEN sizes[1] ELSE 0]
IsCartEnd(it, sizes) == \E d \in DOMAIN sizes : it[d] = sizes[d]
CartSize(sizes) == FoldLeft(LAMBDA s, n : s * n, 1, sizes)

-----------------------------------------------------------------------------
(* IotaRange and its relatives *)

Indices(b, e) == <<b, Larger(b, e)>>
IndicesN(b, n) == <<b, b + n>>
RangeSize(r) == r[2] - r[1]
InRange(r, i) == r[1] <= i /\ i < r[2]
Intersect(r, s) ==
  LET b == Larger(r[1], s[1])
      e == Smaller(r[2], s[2]) IN <<Smaller(b, e), e>>
Unite(r, s) == <<Smaller(r[1], s[1]), Larger(r[2], s[2])>>
Elements(r) == Upto(r[1], r[2])
ElementsBackwards(r) == [i \in 1 .. RangeSize(r) |-> r[2] - i]

\* ExtendedIotaRange: the value wraps at the end of its type, and the walk then never ends.
RECURSIVE Stepped(_, _, _)
Stepped(v, e, step) ==
  IF v >= e THEN <<>> ELSE IF v + step >= IndexWord THEN <<v, -1>> ELSE <<v>> \o Stepped(v + step, e, step)
InStepped(b, e, step, i) == b <= i /\ i < e /\ (i - b) % step = 0

\* EnumerateRange
Enumerated(s) == [i \in DOMAIN s |-> <<i - 1, s[i]>>]

-----------------------------------------------------------------------------
(* for_each_tile_unroll: the tiles of an interval, each with whether it is a full one. *)

Tile(b, e, full) == [begin |-> b, end |-> e, full |-> full]

\* i + size is a number of the index type: when it wraps, it passes for one that is not behind the
\* end, and the loop goes on with a tile that is.
RECURSIVE TilesForward(_, _, _)
TilesForward(i, e, size) ==
  IF i + size >= IndexWord THEN <<Tile(i, i + size, TRUE)>>
  ELSE IF i + size <= e THEN <<Tile(i, i + size, TRUE)>> \o TilesForward(i + size, e, size)
  ELSE IF i # e THEN <<Tile(i, e, FALSE)>> ELSE <<>>

TilesBackward(b, e, size) ==
  LET fullEnd == e - ((e - b) % size)
  IN  (IF fullEnd # e THEN <<Tile(fullEnd, e, FALSE)>> ELSE <<>>)
      \o [i \in 1 .. (fullEnd - b) \div size |-> Tile(fullEnd - i * size, fullEnd - (i - 1) * size, TRUE)]

Tiles(r, size, forward) == IF forward THEN TilesForward(r[1], r[2], size) ELSE TilesBackward(r[1], r[2], size)

\* for_each_tile: one tile per axis, that of a fixed axis having one index; whether the callback is
\* the one for full tiles is decided by the last axis alone.
RECURSIVE ForEachTile(_, _, _, _)
ForEachTile(ranges, sizes, fixed, forward) ==
  IF ranges = <<>> THEN <<<<>>>>
  ELSE LET here == IF fixed[1] # <<>> THEN <<Tile(fixed[1][1], fixed[1][1] + 1, TRUE)>>
                   ELSE Tiles(ranges[1], sizes[1], forward)
           rest == ForEachTile(Tail(ranges), Tail(sizes), Tail(fixed), forward)
       IN  FlattenSeq(Mapped(here, LAMBDA t : Mapped(rest, LAMBDA u : <<t>> \o u)))
FullTile(tiles) == Last(tiles).full

\* tile_for_each: every cell with its index and position, row by row.
RECURSIVE Cells(_, _, _, _)
Cells(tiles, dims, forward, at) ==
  IF tiles = <<>> THEN <<[index |-> at.index, pos |-> at.pos]>>
  ELSE LET t == tiles[1]
           d == Len(dims) - Len(tiles) + 1
           order == IF forward THEN Upto(t.begin, t.end) ELSE Reverse(Upto(t.begin, t.end))
       IN  FlattenSeq(Mapped(order, LAMBDA i :
             Cells(Tail(tiles), dims, forward,
                   [index |-> at.index + i * AfterSize(dims, d), pos |-> Append(at.pos, i)])))
TileForEach(tiles, dims, forward) == Cells(tiles, dims, forward, [index |-> 0, pos |-> <<>>])

\* The rows in vectors, and the rest of one in a shorter piece when has_part says that there may be one.
VectorsOfRow(tile, vec, hasPart, forward) ==
  IF hasPart THEN Tiles(<<tile.begin, tile.end>>, vec, forward)
  ELSE LET v == [i \in 1 .. (tile.end - tile.begin) \div vec |-> Tile(tile.begin + (i - 1) * vec, tile.begin + i * vec, TRUE)]
       IN  IF forward THEN v ELSE Reverse(v)
TileForEachVector(tiles, dims, vec, hasPart, forward) ==
  LET rows == TileForEach(Front(tiles) \o <<Tile(0, 1, TRUE)>>, dims, forward)
  IN  FlattenSeq(Mapped(rows, LAMBDA c :
        Mapped(VectorsOfRow(Last(tiles), vec, hasPart, forward), LAMBDA t :
          [index |-> c.index + t.begin, pos |-> [c.pos EXCEPT ![Len(dims)] = t.begin], width |-> t.end - t.begin])))

TiledForEach(ranges, sizes, fixed, dims, forward) ==
  FlattenSeq(Mapped(ForEachTile(ranges, sizes, fixed, forward), LAMBDA t : TileForEach(t, dims, forward)))
TiledForEachVector(ranges, sizes, fixed, dims, vec, forward) ==
  FlattenSeq(Mapped(ForEachTile(ranges, sizes, fixed, forward),
                    LAMBDA t : TileForEachVector(t, dims, vec, ~FullTile(t), forward)))

\* multidim_for_each: the positions of a product of ranges, an axis that is fixed having one.
RECURSIVE MultidimForEach(_, _)
MultidimForEach(ranges, fixed) ==
  IF ranges = <<>> THEN <<<<>>>>
  ELSE FlattenSeq(Mapped(IF fixed[1] # <<>> THEN fixed[1] ELSE Elements(ranges[1]), LAMBDA i :
         Mapped(MultidimForEach(Tail(ranges), Tail(fixed)), LAMBDA p : <<i>> \o p)))

-----------------------------------------------------------------------------
\* The positions of a box in lexicographic order
RECURSIVE Lexicographic(_)
Lexicographic(ranges) ==
  IF ranges = <<>> THEN <<<<>>>>
  ELSE FlattenSeq(Mapped(Elements(ranges[1]), LAMBDA i : Mapped(Lexicographic(Tail(ranges)), LAMBDA p : <<i>> \o p)))
Whole(dims) == [d \in DOMAIN dims |-> <<0, dims[d]>>]
SameOnce(s, t) == Len(s) = Len(t) /\ ToSet(s) = ToSet(t)

\* An index and its position determine each other, in lexicographic order; an iterator that carries
\* both over the axes, step by step or at once, never has them disagree, up to the end.
PositionsFollowIndices(dims) ==
  LET order == Lexicographic(Whole(dims))
      total == TotalSize(dims) IN
  /\ Len(order) = total
  /\ \A i \in 0 .. total - 1 :
       /\ IndexToPosition(i, dims) = order[i + 1] /\ PositionToIndex(order[i + 1], dims) = i
       /\ \A d \in DOMAIN dims : IndexToAxisIndex(i, dims, d) = order[i + 1][d]
       /\ WrapperNext(Wrapper(i + 5, i, dims), dims) = Wrapper(i + 6, i + 1, dims)
       /\ WrapperPrevious(Wrapper(i + 6, i + 1, dims), dims) = Wrapper(i + 5, i, dims)
       /\ \A j \in 0 .. total : WrapperAdd(Wrapper(i + 5, i, dims), j - i, dims) = Wrapper(j + 5, j, dims)

\* The iterator of a product visits all of it in order, and jumps where as many steps would take it,
\* forwards and backwards; a product with an empty factor ends where it begins.
ProductIsWalked(sizes) ==
  LET order == Lexicographic(Whole(sizes))
      n == CartSize(sizes)
      Place(i) == IF i = n THEN CartEnd(sizes) ELSE order[i + 1]
      last == Len(sizes) IN
  /\ n = Len(order) /\ CartBegin(sizes) = Place(0) /\ IsCartEnd(CartEnd(sizes), sizes)
  /\ \A i \in 0 .. n - 1 : /\ ~IsCartEnd(Place(i), sizes)
                            /\ CartNext(Place(i), sizes, last) = Place(i + 1)
                            /\ CartPrevious(Place(i + 1), sizes, last) = Place(i)
  /\ \A i, j \in 0 .. n : /\ n > 0 => CartAdvance(Place(i), sizes, last, j - i) = Place(j)
                          /\ CartDistance(Place(j), Place(i), sizes) = j - i

\* A box and its world convert positions back and forth, reflecting at the border comes back into
\* the box from as far outside as the box is wide, and a grown box has what is that near.
BoxIsInWorld(world, box) ==
  LET inside == SelectSeq(Lexicographic(Whole(world)), LAMBDA p : HasPosition(box, p)) IN
  /\ \A i \in DOMAIN inside : /\ GlobalPosToLocalIndex(box, inside[i]) = i - 1
                               /\ LocalIndexToGlobalPos(box, i - 1) = inside[i]
                               /\ \A axes \in SUBSET DOMAIN world :
                                    /\ HasPosition(box, Reflect(box, inside[i], axes))
                                    /\ Reflect(box, Reflect(box, inside[i], axes), axes) = inside[i]
                               /\ ReflectInto(box, inside[i]) = inside[i]
  /\ Len(inside) = TotalSize(box.sizes)
  /\ \A p \in ToSet(Lexicographic(Whole(world))) :
       /\ (\A d \in DOMAIN p : box.begins[d] - p[d] <= box.sizes[d] /\ p[d] - AxisEnd(box, d) < box.sizes[d])
            => HasPosition(box, ReflectInto(box, p))
       /\ \A amount \in 0..2 : HasPosition(ExpandBox(box, amount, world), p)
            <=> \E q \in ToSet(inside) : \A d \in DOMAIN p : p[d] - q[d] \in -amount .. amount

\* Ranges of indices are sets that know their order; one with a step ends unless its type wraps.
RangesAreSets(r, s, step) ==
  /\ ToSet(Elements(r)) = {i \in 0 .. IndexWord : InRange(r, i)} /\ Len(Elements(r)) = RangeSize(r)
  /\ ElementsBackwards(r) = Reverse(Elements(r))
  /\ ToSet(Elements(Intersect(r, s))) = ToSet(Elements(r)) \cap ToSet(Elements(s))
  /\ r[1] <= s[2] /\ s[1] <= r[2] => ToSet(Elements(r) \o Elements(s)) \subseteq ToSet(Elements(Unite(r, s)))
  /\ IndicesN(r[1], RangeSize(r)) = r /\ RangeSize(Indices(r[2], r[1])) = 0
  /\ Enumerated(Elements(r)) = [i \in 1 .. RangeSize(r) |-> <<i - 1, r[1] + i - 1>>]
  /\ r[2] + step <= IndexWord =>
       Stepped(r[1], r[2], step) = SelectSeq(Elements(r), LAMBDA i : InStepped(r[1], r[2], step, i))

\* Tiles and vectors visit every cell once, at its index; backwards is the reverse of forwards; no
\* vector crosses the end of a tile, and a fixed axis stays where it is.  The index type has to
\* have room for a tile behind the end.
TilesCover(ranges, sizes, fixed, dims, vec) ==
  LET want == MultidimForEach(ranges, fixed)
      Scalar(forward) == TiledForEach(ranges, sizes, fixed, dims, forward)
      Vector(forward) == TiledForEachVector(ranges, sizes, fixed, dims, vec, forward)
      Lanes(c) == [i \in 1 .. c.width |-> [index |-> c.index + i - 1, pos |-> [c.pos EXCEPT ![Len(dims)] = @ + i - 1]]]
      cells == [i \in DOMAIN want |-> [index |-> PositionToIndex(want[i], dims), pos |-> want[i]]] IN
  (\A d \in DOMAIN ranges : ranges[d][2] + sizes[d] < IndexWord /\ (fixed[d] # <<>> => InRange(ranges[d], fixed[d][1]))) =>
    /\ SameOnce(Scalar(TRUE), cells) /\ Scalar(FALSE) = Reverse(Scalar(TRUE))
    /\ (\A d \in DOMAIN sizes : fixed[d] # <<>> \/ sizes[d] % vec = 0) =>
         /\ SameOnce(FlattenSeq(Mapped(Vector(TRUE), Lanes)), cells)
         /\ Vector(FALSE) = Reverse(Vector(TRUE))
         /\ \A i \in DOMAIN Vector(TRUE) : Vector(TRUE)[i].width <= vec

Boxes(world) == {[begins |-> b, sizes |-> n] : b \in [DOMAIN world -> 0 .. MaxAxis], n \in [DOMAIN world -> 1 .. MaxAxis]}
Axes == 0 .. MaxAxis
Spans == {r \in Axes \X Axes : r[1] <= r[2]}

IndexQuestions ==
  {<<"positions", dims>> : dims \in UNION {[1..n -> 1..MaxAxis] : n \in 1..3}}
  \cup {<<"product", sizes>> : sizes \in UNION {[1..n -> Axes] : n \in 1..3}}
  \cup {<<"box", world, box>> : world \in {<<MaxAxis, MaxAxis>>},
                                box \in {b \in Boxes(<<1, 1>>) : \A d \in 1..2 : AxisEnd(b, d) <= MaxAxis}}
  \cup {<<"range", r, s, step>> : r \in Spans, s \in Spans, step \in 1..2}
  \cup {<<"range", <<IndexWord - 4, IndexWord - i>>, <<0, 1>>, step>> : i \in 1..2, step \in 1..2}
  \cup {<<"tiles", <<r, s>>, <<m, n>>, <<f, <<>>>>, <<4, 4>>, vec>> :
           r \in {<<0, 3>>, <<1, 2>>}, s \in Spans, m \in 1..2, n \in {1, 2, 4}, f \in {<<>>, <<1>>}, vec \in 1..2}
  \cup {<<"tiles", <<<<0, 1>>, <<0, IndexWord - i>>>>, <<1, n>>, <<<<>>, <<>>>>, <<1, IndexWord>>, 1>> : i \in 1..4, n \in 1..3}

IndexRight(q) ==
  CASE q[1] = "positions" -> PositionsFollowIndices(q[2])
    [] q[1] = "product" -> ProductIsWalked(q[2])
    [] q[1] = "box" -> BoxIsInWorld(q[2], q[3])
    [] q[1] = "range" -> RangesAreSets(q[2], q[3], q[4])
    [] q[1] = "tiles" -> TilesCover(q[2], q[3], q[4], q[5], q[6])
=============================================================================
