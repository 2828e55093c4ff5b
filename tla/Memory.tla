------------------------------- MODULE Memory -------------------------------
(***************************************************************************)
(* The memory that the containers of thesauros manage by hand: places for  *)
(* allocations, in which every slot is free (not allocated), raw           *)
(* (allocated, without an object) or holds an object: one of Values, one   *)
(* the initialisation policy has made ("init") or one whose value has been *)
(* moved away ("moved").  A memory is a record of its slots and of the     *)
(* faults that have been committed in it; what TypedChunk and the          *)
(* algorithms of <memory> do with it are operators that return the memory  *)
(* they leave.  Allocations do not overlap: one of at most MaxCap slots    *)
(* lies in each of the places, which follow each other with a gap.         *)
(***************************************************************************)
EXTENDS Integers, Sequences, SequencesExt

CONSTANTS Values,  \* what elements are worth
          MaxCap,  \* the largest allocation
          Places,  \* how many allocations there may be at a time
          Digits   \* the width of Size

ASSUME MemoryAssumption ==
  /\ MaxCap \in Nat \ {0} /\ Places \in Nat \ {0} /\ Digits \in Nat \ {0}
  /\ Values \cap {"free", "raw", "init", "moved"} = {}

Stride == MaxCap + 1
Address == Stride .. Stride * (Places + 1) - 1
Null == 0

Alive == Values \cup {"init", "moved"}

Faults == {"constructed over an object", "used without an object", "leaked", "bad allocation"}

EmptyMemory == [slot |-> [a \in Address |-> "free"], faults |-> {}]

\* The memory after the slots in the domain of f have changed to it; they must have been in `before`.
Write(m, f, before, fault) ==
  [slot |-> [a \in Address |-> IF a \in DOMAIN f THEN f[a] ELSE m.slot[a]],
   faults |-> IF \A a \in DOMAIN f : a \in Address /\ m.slot[a] \in before
              THEN m.faults ELSE m.faults \cup {fault}]

\* The slots [lo, hi), and what they hold.
Span(lo, hi) == lo .. hi - 1
Held(m, lo, hi) == [i \in 1..(hi - lo) |-> IF lo + i - 1 \in Address THEN m.slot[lo + i - 1] ELSE "free"]

-----------------------------------------------------------------------------
\* std::construct_at, std::uninitialized_copy and _fill; std::destroy; assignments; moves.  An
\* element assigned to itself by a move is left with an unspecified value.
Construct(m, at, vs) == Write(m, [a \in Span(at, at + Len(vs)) |-> vs[a - at + 1]], {"raw"},
                              "constructed over an object")
Destroy(m, lo, hi) == Write(m, [a \in Span(lo, hi) |-> "raw"], Alive, "used without an object")
Assign(m, at, vs) == Write(m, [a \in Span(at, at + Len(vs)) |-> vs[a - at + 1]], Alive,
                           "used without an object")
Taken(m, lo, hi) == Write(m, [a \in Span(lo, hi) |-> "moved"], Alive, "used without an object")
UninitializedMove(m, lo, hi, to) == Construct(Taken(m, lo, hi), to, Held(m, lo, hi))
MoveAssign(m, lo, hi, to) ==
  IF to = lo THEN Taken(m, lo, hi) ELSE Assign(Taken(m, lo, hi), to, Held(m, lo, hi))
UninitializedCopy(m, lo, hi, to) ==
  Construct(Write(m, [a \in Span(lo, hi) |-> m.slot[a]], Alive, "used without an object"),
            to, Held(m, lo, hi))
Initialize(m, lo, hi) == Construct(m, lo, [i \in 1..(hi - lo) |-> "init"])

-----------------------------------------------------------------------------
(* TypedChunk: a pointer to the beginning and one to the end of an allocation. *)

NullChunk == [begin |-> Null, end |-> Null]

\* The first free place, and the chunk that an allocation of size slots gets there.
FreePlace(m) == CHOOSE p \in 1..Places :
  /\ \A a \in Span(p * Stride, p * Stride + MaxCap) : m.slot[a] = "free"
  /\ \A q \in 1 .. p - 1 : \E a \in Span(q * Stride, q * Stride + MaxCap) : m.slot[a] # "free"
Placed(m, size) == [begin |-> FreePlace(m) * Stride, end |-> FreePlace(m) * Stride + size]

AllocateMemory(m, size) ==
  Write(m, [a \in Span(Placed(m, size).begin, Placed(m, size).end) |-> "raw"], {"free"}, "bad allocation")
Deallocate(m, c) ==
  IF c.begin = Null THEN m ELSE Write(m, [a \in Span(c.begin, c.end) |-> "free"], {"raw"}, "leaked")

\* expand: the mover takes pieces of the old elements to offsets in the new allocation, constructs
\* new ones at others, maybe from one of the old elements, and destroys the old ones.
Move(lo, hi, to) == [lo |-> lo, hi |-> hi, to |-> to]
New(to, vs) == [to |-> to, vs |-> vs]
NewFrom(to, a) == [to |-> to, ref |-> a]
Worth(m, new) == IF "ref" \in DOMAIN new THEN <<m.slot[new.ref]>> ELSE new.vs
MoveAll(m, begin, moves) ==
  LET after[k \in 0 .. Len(moves)] ==
        IF k = 0 THEN m ELSE UninitializedMove(after[k - 1], moves[k].lo, moves[k].hi, begin + moves[k].to)
  IN  after[Len(moves)]
ConstructAll(m, begin, news) ==
  LET after[k \in 0 .. Len(news)] ==
        IF k = 0 THEN m ELSE Construct(after[k - 1], begin + news[k].to, Worth(after[k - 1], news[k]))
  IN  after[Len(news)]
DestroyAll(m, moves) ==
  LET after[k \in 0 .. Len(moves)] == IF k = 0 THEN m ELSE Destroy(after[k - 1], moves[k].lo, moves[k].hi)
  IN  after[Len(moves)]
ChunkExpand(m, c, size, moves, news) ==
  LET begin == Placed(m, size).begin
      filled == ConstructAll(MoveAll(AllocateMemory(m, size), begin, moves), begin, news)
  IN  Deallocate(DestroyAll(filled, moves), c)

\* reallocate_to_destroyed: the old allocation goes first, so the new one may take its place.
Reallocated(m, c, size) == Placed(Deallocate(m, c), size)
ReallocateToDestroyed(m, c, size) == AllocateMemory(Deallocate(m, c), size)

-----------------------------------------------------------------------------
\* DoublingGrowth: the power of two above the size that is needed.
BitWidth(n) == CHOOSE k \in 0..Digits : 2 ^ k > n /\ \A j \in 0 .. k - 1 : 2 ^ j <= n
GrownSize(n) == IF BitWidth(n) >= Digits THEN 2 ^ Digits - 1 ELSE 2 ^ BitWidth(n)
=============================================================================
