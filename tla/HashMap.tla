------------------------------ MODULE HashMap ------------------------------
(***************************************************************************)
(* The hash maps of lib/stb_ds.h: an array of entries behind a default     *)
(* entry, and an index of buckets of slots that point into it.  Every      *)
(* macro of the API is one step.                                           *)
(*                                                                         *)
(* A map is NULL, or an array with or without an index.  Deleting moves    *)
(* the last entry into the hole and leaves a tombstone; adding grows the   *)
(* index and deleting shrinks or rebuilds it.  The hash of a key is a      *)
(* constant: the index keeps its seed when it is rebuilt.                  *)
(***************************************************************************)
EXTENDS StringArena, FiniteSets

CONSTANTS
  Keys, Zero,         \* Zero: a value of zero bytes
  Vals, Defaults,     \* the values a key may be given, and by mode entry -1
  Hash,               \* stbds_hash_bytes or stbds_hash_string of a key
  Size,               \* strlen of a key, and its terminator
  Strings,            \* whether the keys are strings: a set of BOOLEANs
  B,                  \* STBDS_BUCKET_LENGTH, 8 or 4
  StalePuts,          \* whether shputs may find its key in the second loop
  MaxStrings,         \* bound: the strings an arena is asked for
  MaxBorrowed         \* bound: the entries of a map of the caller's keys

ASSUME ConstantsAssumption ==
  /\ Hash \in [Keys -> Nat] /\ Size \in [Keys -> Nat \ {0}]
  /\ B \in {4, 8} /\ StalePuts \in BOOLEAN /\ Strings \subseteq BOOLEAN

EMPTY    == -1     \* STBDS_INDEX_EMPTY
DELETED  == -2     \* STBDS_INDEX_DELETED
Caller   == <<>>   \* the block of a key the caller owns
Garbage  == [key |-> -1, block |-> Caller]     \* a pointer nobody has written

VARIABLES
  string,   \* the keys are strings: the sh macros are used, not the hm ones
  null,     \* t is NULL
  items,    \* the entries: key, value, and the block the key is in
  default,  \* the value of entry -1
  cap,      \* capacity of the array, the default entry included
  table,    \* the index; slots = 0 when there is none
  live,     \* the blocks of keys that strdup made
  dict      \* what the map should hold: KeyMap, run beside the calls

vars == <<string, null, items, default, cap, table, live, dict>>

M == INSTANCE KeyMap WITH Defaults <- UNION {Defaults[mode] : mode \in DOMAIN Defaults}

-----------------------------------------------------------------------------
(* stbds_arrgrowf: the capacity for at least so many elements. *)
Grown(c, need) ==
  IF need <= c THEN c ELSE IF need < 2 * c THEN 2 * c ELSE IF need < 4 THEN 4 ELSE need

(* The numbers of used slots and of tombstones at which the index changes. *)
UsedMax(slots)  == slots - slots \div 4
TombsMax(slots) == slots \div 8 + slots \div 16
ShrinkAt(slots) == IF slots <= B THEN 0 ELSE slots \div 4

(* A stored hash is neither 0, an empty slot, nor 1, a deleted one.        *)
HashOf(k) == IF Hash[k] < 2 THEN Hash[k] + 2 ELSE Hash[k]

(* The n-th slot a probe looks at.  Buckets are taken at quadratic steps;  *)
(* in a bucket the search goes from the position to the end and then from  *)
(* the beginning: Wrapped is the second part.                              *)
BucketAt(h, slots, n) == (h + B * (((n \div B) * (n \div B + 1)) \div 2)) % slots
Wrapped(h, slots, n)  == (BucketAt(h, slots, n) % B) + (n % B) >= B
Probe(h, slots, n) ==
  LET pos == BucketAt(h, slots, n) IN (pos - (pos % B)) + ((pos + n) % B)

KeyAt(t, slot) == items[t.index[slot] + 1].key
Holds(t, slot, k) == t.hash[slot] = HashOf(k) /\ KeyAt(t, slot) = k

(* The first n at which the slot is empty, or holds the key; a probe that  *)
(* meets neither never ends.                                               *)
FirstEmpty(h, t) ==
  CHOOSE n \in 0 .. t.slots - 1 :
    /\ t.hash[Probe(h, t.slots, n)] = 0
    /\ \A m \in 0 .. n - 1 : t.hash[Probe(h, t.slots, m)] # 0

FindStop(t, k) ==
  LET stops(n) == LET slot == Probe(HashOf(k), t.slots, n)
                  IN t.hash[slot] = 0 \/ Holds(t, slot, k)
  IN CHOOSE n \in 0 .. t.slots - 1 : stops(n) /\ \A m \in 0 .. n - 1 : ~stops(m)

(* stbds_hm_find_slot. *)
Find(t, k) ==
  LET slot == Probe(HashOf(k), t.slots, FindStop(t, k))
  IN IF t.hash[slot] = 0 THEN -1 ELSE slot

-----------------------------------------------------------------------------
NoTable == [slots |-> 0, hash |-> <<>>, index |-> <<>>, used |-> 0, tombs |-> 0,
            mode |-> "none", arena |-> NoArena, temp |-> Garbage]

(* A new index.  temp_key is its first field, and nothing is written there. *)
Empty(slots, mode, arena) ==
  [slots |-> slots, hash |-> [i \in 0 .. slots - 1 |-> 0],
   index |-> [i \in 0 .. slots - 1 |-> EMPTY],
   used |-> 0, tombs |-> 0, mode |-> mode, arena |-> arena, temp |-> Garbage]

Fill(t, slot, h, i) == [t EXCEPT !.hash[slot] = h, !.index[slot] = i]

(* stbds_make_hash_index with an old index: its entries are copied in the  *)
(* order of its slots, the tombstones are not.                             *)
Rehash(t, slots) ==
  LET copied[i \in 0 .. t.slots] ==
        IF i = 0 THEN Empty(slots, t.mode, t.arena)
        ELSE IF t.index[i - 1] < 0 THEN copied[i - 1]
        ELSE LET nt == copied[i - 1]
                 h  == t.hash[i - 1]
             IN Fill(nt, Probe(h, slots, FirstEmpty(h, nt)), h, t.index[i - 1])
  IN [copied[t.slots] EXCEPT !.used = t.used]

-----------------------------------------------------------------------------
(* stbds_hmput_key. *)

(* The index there is before the probe: made, doubled, or left as it is.   *)
Roomy(t) ==
  CASE t.slots = 0 -> Empty(B, IF string THEN "default" ELSE "none", NoArena)
    [] t.slots > 0 /\ t.used >= UsedMax(t.slots) -> Rehash(t, 2 * t.slots)
    [] OTHER -> t

(* A new key takes the first tombstone the probe has passed, or the empty  *)
(* slot that stopped it.                                                   *)
Taking(t, k) ==
  LET n == FindStop(t, k)
      at(m) == Probe(HashOf(k), t.slots, m)
      graves == {m \in 0 .. n - 1 : t.index[at(m)] = DELETED}
      first == CHOOSE m \in graves : \A g \in graves : m <= g
  IN IF graves = {} THEN [t EXCEPT !.used = @ + 1, !.hash[at(n)] = HashOf(k),
                                   !.index[at(n)] = Len(items)]
     ELSE [t EXCEPT !.used = @ + 1, !.tombs = @ - 1, !.hash[at(first)] = HashOf(k),
                    !.index[at(first)] = Len(items)]

(* The block a new key is kept in: one strdup has not yet made for it, or  *)
(* the caller's.                                                           *)
KeyBlock(t, k) ==
  IF t.mode = "strdup"
  THEN CHOOSE b \in {<<k, n>> : n \in 0 .. Len(items)} :
         /\ b \notin live
         /\ \A n \in 0 .. b[2] - 1 : <<k, n>> \in live
  ELSE Caller

(* temp_key, which is read only there. *)
Remember(temp, k, block) == IF StalePuts THEN [key |-> k, block |-> block] ELSE temp

AddKey(t, k, v) ==
  LET block == KeyBlock(t, k)
      t1 == Taking(t, k)
  IN /\ items' = Append(items, [key |-> k, val |-> v, block |-> block])
     /\ cap' = Grown(Grown(cap, 1), Len(items) + 2)
     /\ table' = [t1 EXCEPT
          !.arena = IF t.mode = "arena" THEN Stralloc(@, Size[k]) ELSE @,
          !.temp = IF t.mode = "none" THEN @ ELSE Remember(@, k, block)]
     /\ live' = IF t.mode = "strdup" THEN live \union {block} ELSE live

Stored(t) == LET n[i \in 0 .. Len(t.arena.storage)] ==
                    IF i = 0 THEN 0 ELSE n[i - 1] + Cardinality(t.arena.storage[i].used)
              IN n[Len(t.arena.storage)]

PutNew(k, v) ==
  /\ Find(Roomy(table), k) = -1
  /\ table.mode = "arena" => Stored(table) < MaxStrings
  /\ table.mode \in {"none", "default"} => Len(items) < MaxBorrowed
  /\ null' = FALSE
  /\ AddKey(Roomy(table), k, v)
  /\ UNCHANGED <<string, default>>

(* The key is there: the index may grow all the same.  Of the two loops    *)
(* over a bucket only the first sets temp_key.                             *)
SecondLoop(t, k) == Wrapped(HashOf(k), t.slots, FindStop(t, k))

Updating(t, k, i) ==
  IF string /\ ~SecondLoop(t, k)
  THEN [t EXCEPT !.temp = Remember(@, items[i].key, items[i].block)] ELSE t

PutAgain(k, v) ==
  LET t == Roomy(table)
      slot == Find(t, k)
      i == t.index[slot] + 1
  IN /\ slot # -1
     /\ items' = [items EXCEPT ![i].val = v]
     /\ table' = Updating(t, k, i)
     /\ UNCHANGED <<string, null, default, cap, live>>

(* shputs writes the whole entry, and then the key temp_key points to.     *)
PutsExisting(k, v) ==
  LET t == Roomy(table)
      slot == Find(t, k)
      i == t.index[slot] + 1
      stale == SecondLoop(t, k)
      temp == IF stale THEN t.temp ELSE items[i]
  IN /\ string /\ slot # -1
     /\ stale => StalePuts
     /\ items' = [items EXCEPT ![i] = [key |-> temp.key, val |-> v, block |-> temp.block]]
     /\ table' = Updating(t, k, i)
     /\ UNCHANGED <<string, null, default, cap, live>>

-----------------------------------------------------------------------------
(* There is no index while the array is NULL.                              *)
SlotOf(k) == IF table.slots = 0 THEN -1 ELSE Find(table, k)
Lookup(k) ==
  LET slot == SlotOf(k) IN IF slot = -1 THEN default ELSE items[table.index[slot] + 1].val

(* stbds_hmget_key: on NULL it makes the array of the default entry.       *)
Get(k) ==
  /\ null' = FALSE
  /\ cap' = IF null THEN Grown(0, 1) ELSE cap
  /\ UNCHANGED <<string, items, default, table, live>>

SetDefault(v) ==
  /\ default' = v
  /\ null' = FALSE
  /\ cap' = IF null THEN Grown(0, 1) ELSE cap
  /\ UNCHANGED <<string, items, table, live>>

(* shmode_func: sh_new_arena, sh_new_strdup. *)
NewStrings(mode) ==
  /\ string /\ null
  /\ null' = FALSE
  /\ cap' = Grown(0, 1)
  /\ table' = Empty(B, mode, NoArena)
  /\ UNCHANGED <<string, items, default, live>>

-----------------------------------------------------------------------------
(* stbds_hmdel_key. *)

DelMissing(k) ==
  /\ SlotOf(k) = -1
  /\ UNCHANGED <<string, null, items, default, cap, table, live>>

(* Fault: the index keeps pointing to where the last entry was. *)
Unlinked_NoFixup(t, slot) ==
  [t EXCEPT !.used = @ - 1, !.tombs = @ + 1, !.hash[slot] = 1, !.index[slot] = DELETED]

(* The slot becomes a tombstone, and the slot of the entry that is moved   *)
(* into the hole points there.                                             *)
Unlinked(t, slot) ==
  LET old  == t.index[slot]
      last == Len(items) - 1
      t1 == [t EXCEPT !.used = @ - 1, !.tombs = @ + 1, !.hash[slot] = 1, !.index[slot] = DELETED]
  IN IF old = last THEN t1 ELSE [t1 EXCEPT !.index[Find(t1, items[last + 1].key)] = old]

(* Fault: the index that was too big is kept, and its tombstones too. *)
Tidy_NoRebuild(t) ==
  IF t.used < ShrinkAt(t.slots) THEN Rehash(t, t.slots \div 2) ELSE t

Tidy(t) ==
  CASE t.used < ShrinkAt(t.slots) -> Rehash(t, t.slots \div 2)
    [] t.used >= ShrinkAt(t.slots) /\ t.tombs > TombsMax(t.slots) -> Rehash(t, t.slots)
    [] OTHER -> t

(* Fault: the key of the entry that moves is freed. *)
DelFound_FreeLast(k) ==
  /\ LET slot == SlotOf(k)
         old  == table.index[slot] + 1
     IN /\ slot # -1
        /\ live' = live \ {items[Len(items)].block}
        /\ items' = SubSeq([items EXCEPT ![old] = items[Len(items)]], 1, Len(items) - 1)
        /\ table' = Tidy(Unlinked(table, slot))
  /\ UNCHANGED <<string, null, default, cap>>

(* Fault: the last entry is not moved into the hole. *)
DelFound_NoSwap(k) ==
  /\ LET slot == SlotOf(k)
         old  == table.index[slot] + 1
     IN /\ slot # -1
        /\ live' = live \ {items[old].block}
        /\ items' = SubSeq(items, 1, Len(items) - 1)
        /\ table' = Tidy(Unlinked(table, slot))
  /\ UNCHANGED <<string, null, default, cap>>

DelFound(k) ==
  /\ LET slot == SlotOf(k)
         old  == table.index[slot] + 1
     IN /\ slot # -1
        /\ live' = live \ {items[old].block}
        /\ items' = SubSeq([items EXCEPT ![old] = items[Len(items)]], 1, Len(items) - 1)
        /\ table' = Tidy(Unlinked(table, slot))
  /\ UNCHANGED <<string, null, default, cap>>

(* stbds_hmfree_func: the keys that strdup made, the arena, the index.     *)
Free ==
  /\ ~null /\ null' = TRUE
  /\ live' = IF table.mode = "strdup" THEN live \ {items[i].block : i \in DOMAIN items} ELSE live
  /\ items' = <<>> /\ default' = Zero /\ cap' = 0
  /\ table' = NoTable
  /\ UNCHANGED string

-----------------------------------------------------------------------------
Init ==
  /\ string \in Strings
  /\ null = TRUE /\ items = <<>> /\ default = Zero /\ cap = 0
  /\ table = NoTable /\ live = {}
  /\ M!Init

Next ==
  \/ \E k \in Keys :
       \/ Get(k) /\ UNCHANGED dict
       \/ (DelMissing(k) \/ DelFound(k)) /\ M!Del(k)
       \/ \E v \in Vals[k] :
            (PutNew(k, v) \/ PutAgain(k, v) \/ PutsExisting(k, v)) /\ M!Put(k, v)
  \/ \E v \in Defaults[table.mode] : SetDefault(v) /\ M!Default(v)
  \/ \E mode \in {"strdup", "arena"} : NewStrings(mode) /\ UNCHANGED dict
  \/ Free /\ M!Free

Spec == Init /\ [][Next]_vars

-----------------------------------------------------------------------------
SlotsOf(t) == 0 .. t.slots - 1

(* Every slot in use points to the entry whose key it hashes, and every    *)
(* entry has exactly one slot, on the way of the probe for its key; the    *)
(* array has room for the entries and the default one.                     *)
IndexMatchesEntries ==
  table.slots > 0 =>
    /\ Len(items) + 1 <= cap
    /\ \A i \in SlotsOf(table) :
         table.index[i] >= 0 =>
           /\ table.index[i] < Len(items)
           /\ table.hash[i] = HashOf(KeyAt(table, i))
           /\ Find(table, KeyAt(table, i)) = i
    /\ \A e \in DOMAIN items : Cardinality({i \in SlotsOf(table) : table.index[i] = e - 1}) = 1

(* A probe ends: at least one slot is empty (stb_ds.h:934, "to avoid       *)
(* infinite loop, we need to guarantee that at least one slot is empty");  *)
(* and the counts the index decides by are those of its slots.             *)
ProbesEnd ==
  table.slots > 0 =>
    /\ \E i \in SlotsOf(table) : table.hash[i] = 0
    /\ table.used = Cardinality({i \in SlotsOf(table) : table.index[i] >= 0})
    /\ table.tombs = Cardinality({i \in SlotsOf(table) : table.index[i] = DELETED})

(* In strdup mode each entry owns the block of its key, and no key that is *)
(* in no entry is left: every block is freed once.  In arena mode the      *)
(* strings neither overlap nor leave their blocks.                         *)
KeysOwnedOnce ==
  /\ ArenaSound(table.arena)
  /\ IF table.mode = "strdup"
     THEN /\ live = {items[i].block : i \in DOMAIN items}
          /\ \A i, j \in DOMAIN items : items[i].block = items[j].block => i = j
     ELSE live = {}

(* Every lookup, of every key and after every call, gives what a map would *)
(* give: whatever collides, moves, is rebuilt or shrinks.                  *)
IsMap == \A k \in Keys : Lookup(k) = M!Lookup(k)
=============================================================================
