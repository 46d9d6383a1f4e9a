---------------------------- MODULE StringArena ----------------------------
(***************************************************************************)
(* The string arena of lib/stb_ds.h, from which an index in arena mode     *)
(* allocates its keys: stbds_stralloc carves strings off the end of the    *)
(* first block of a list, and gives a string that is too long a block of   *)
(* its own behind the first.  A block is its size and the ranges of it     *)
(* that have been handed out.                                              *)
(***************************************************************************)
EXTENDS Integers, Sequences

CONSTANTS
  BlockMin,    \* STBDS_STRING_ARENA_BLOCKSIZE_MIN
  BlockMax     \* STBDS_STRING_ARENA_BLOCKSIZE_MAX

ASSUME ArenaAssumption == BlockMin \in Nat /\ BlockMax \in Nat

NoArena == [storage |-> <<>>, remaining |-> 0, block |-> 0]

SizeOf(block) == BlockMin * 2 ^ (block \div 2)
Taken(from, to) == [from |-> from, to |-> to]

(* The next kind of block, for as long as blocks are below the largest.    *)
Advanced(a) == IF SizeOf(a.block) < BlockMax THEN a.block + 1 ELSE a.block

Own(a, len) ==
  LET sb == [size |-> len, used |-> {Taken(0, len)}]
  IN IF a.storage = <<>>
     THEN [a EXCEPT !.storage = <<sb>>, !.remaining = 0, !.block = Advanced(a)]
     ELSE [a EXCEPT !.storage = <<Head(@), sb>> \o Tail(@), !.block = Advanced(a)]

Carve(a, len) ==
  [a EXCEPT !.storage[1].used = @ \union {Taken(a.remaining - len, a.remaining)},
            !.remaining = @ - len]

NewBlock(a) ==
  [storage |-> <<[size |-> SizeOf(a.block), used |-> {}]>> \o a.storage,
   remaining |-> SizeOf(a.block), block |-> Advanced(a)]

(* Fault: a string of its own becomes the first block, and what remains of *)
(* the block before is then carved out of it.                              *)
Stralloc_OwnFirst(a, len) ==
  CASE len <= a.remaining -> Carve(a, len)
    [] len > a.remaining /\ len > SizeOf(a.block) ->
         [a EXCEPT !.storage = <<[size |-> len, used |-> {Taken(0, len)}]>> \o @,
                   !.block = Advanced(a)]
    [] OTHER -> Carve(NewBlock(a), len)

Stralloc(a, len) ==
  CASE len <= a.remaining -> Carve(a, len)
    [] len > a.remaining /\ len > SizeOf(a.block) -> Own(a, len)
    [] OTHER -> Carve(NewBlock(a), len)

(* No string overlaps another one or the end of its block. *)
ArenaSound(a) ==
  \A i \in DOMAIN a.storage : \A r \in a.storage[i].used :
    /\ 0 <= r.from /\ r.from < r.to /\ r.to <= a.storage[i].size
    /\ \A q \in a.storage[i].used \ {r} : q.to <= r.from \/ r.to <= q.from
=============================================================================
