------------------------------ MODULE TreeSet ------------------------------
(***************************************************************************)
(* The red-black tree of lib/ctl/set.h.  A tree is a record of the fields  *)
(* of its nodes; a node is a number, 0 is NULL.  The two children of a     *)
(* node are told apart by a side, so that a definition stands for a        *)
(* function of the source and for its mirror image.  No operator reads a   *)
(* field of NULL: TLC would stop.                                          *)
(***************************************************************************)
EXTENDS Naturals, Sequences, FiniteSets

CONSTANTS
  Nodes        \* the addresses malloc may give

NULL == 0

Sides == {"l", "r"}
Other(s) == IF s = "l" THEN "r" ELSE "l"

(* init. *)
NoTree ==
  [root |-> NULL, size |-> 0, alloc |-> {}, stale |-> FALSE,
   kid |-> [s \in Sides |-> [n \in Nodes |-> NULL]], p |-> [n \in Nodes |-> NULL],
   key |-> [n \in Nodes |-> 0], red |-> [n \in Nodes |-> FALSE]]

Red(t, n) == n # NULL /\ t.red[n]
Side(t, n) == IF n = t.kid["l"][t.p[n]] THEN "l" ELSE "r"
Sibling(t, n) == t.kid[Other(Side(t, n))][t.p[n]]
Grandfather(t, n) == t.p[t.p[n]]
Uncle(t, n) == Sibling(t, t.p[n])

-----------------------------------------------------------------------------
(* find, lower_bound and upper_bound. *)
RECURSIVE Furthest(_, _, _), Up(_, _), FindFrom(_, _, _), BoundFrom(_, _, _, _, _)

FindFrom(t, n, k) ==
  IF n = NULL \/ t.key[n] = k THEN n
  ELSE FindFrom(t, t.kid[IF k < t.key[n] THEN "l" ELSE "r"][n], k)
Find(t, k) == FindFrom(t, t.root, k)

(* The first node above k, or equal to it if that is allowed. *)
BoundFrom(t, n, k, equal, result) ==
  IF n = NULL THEN result
  ELSE IF k < t.key[n] \/ (equal /\ k = t.key[n])
       THEN BoundFrom(t, t.kid["l"][n], k, equal, n)
  ELSE BoundFrom(t, t.kid["r"][n], k, equal, result)

(* Fault: the first node above the key, as upper_bound finds it. *)
LowerBound_Strict(t, k) == BoundFrom(t, t.root, k, FALSE, NULL)

LowerBound(t, k) == BoundFrom(t, t.root, k, TRUE, NULL)
UpperBound(t, k) == BoundFrom(t, t.root, k, FALSE, NULL)

(* min and max: the last node on one side. *)
Furthest(t, n, s) == IF t.kid[s][n] = NULL THEN n ELSE Furthest(t, t.kid[s][n], s)

(* next: the node after this one, in the right subtree or up the tree.     *)
Up(t, n) ==
  IF t.p[n] # NULL /\ n = t.kid["r"][t.p[n]] THEN Up(t, t.p[n]) ELSE t.p[n]
NextNode(t, n) ==
  IF t.kid["r"][n] # NULL THEN Furthest(t, t.kid["r"][n], "l") ELSE Up(t, n)

(* What foreach visits. *)
Keys(t) ==
  LET RECURSIVE From(_)
      From(n) == IF n = NULL THEN <<>> ELSE <<t.key[n]>> \o From(NextNode(t, n))
  IN IF t.size = 0 THEN <<>> ELSE From(Furthest(t, t.root, "l"))

-----------------------------------------------------------------------------
Paint(t, n, red) == [t EXCEPT !.red[n] = red]

Replace(t, a, b) ==
  LET t1 == IF t.p[a] = NULL THEN [t EXCEPT !.root = b]
            ELSE [t EXCEPT !.kid[Side(t, a)][t.p[a]] = b]
  IN IF b = NULL THEN t1 ELSE [t1 EXCEPT !.p[b] = t.p[a]]

(* rotate_l, rotate_r: the node goes down on this side. *)
Rotate(t, n, s) ==
  LET c  == t.kid[Other(s)][n]
      m  == t.kid[s][c]
      t1 == [Replace(t, n, c) EXCEPT !.kid[Other(s)][n] = m]
      t2 == IF m = NULL THEN t1 ELSE [t1 EXCEPT !.p[m] = n]
  IN [t2 EXCEPT !.kid[s][c] = n, !.p[n] = c]

-----------------------------------------------------------------------------
RECURSIVE Insert1(_, _), Insert3(_, _)

Insert5(t, n) ==
  LET g  == Grandfather(t, n)
      t1 == Paint(Paint(t, t.p[n], FALSE), g, TRUE)
  IN Rotate(t1, g, IF Side(t, n) = "l" /\ Side(t, t.p[n]) = "l" THEN "r" ELSE "l")

Insert4(t, n) ==
  LET s == Side(t, t.p[n])
  IN IF Side(t, n) = s THEN Insert5(t, n)
     ELSE LET t1 == Rotate(t, t.p[n], s) IN Insert5(t1, t1.kid[s][n])

Insert3(t, n) ==
  IF Red(t, Uncle(t, n))
  THEN LET g == Grandfather(t, n)
       IN Insert1(Paint(Paint(Paint(t, t.p[n], FALSE), Uncle(t, n), FALSE), g, TRUE), g)
  ELSE Insert4(t, n)

Insert2(t, n) == IF Red(t, t.p[n]) THEN Insert3(t, n) ELSE t

Insert1(t, n) == IF t.p[n] = NULL THEN Paint(t, n, FALSE) ELSE Insert2(t, n)

(* The address of a new node: one that is free, the key's own if it is.    *)
Malloc(t, k) ==
  IF k \in Nodes \ t.alloc THEN k
  ELSE CHOOSE n \in Nodes \ t.alloc : \A m \in Nodes \ t.alloc : n <= m

(* Where the search for a key ends: the leaf to be. *)
RECURSIVE Leaf(_, _, _)
Leaf(t, n, k) ==
  LET s == IF k < t.key[n] THEN "l" ELSE "r"
  IN IF t.kid[s][n] = NULL THEN [at |-> n, side |-> s] ELSE Leaf(t, t.kid[s][n], k)

(* A key that is there already: the node made for it is freed again.  A    *)
(* node that is not in use has the fields NULL that init sets to it.       *)
Insert(t, k) ==
  IF Find(t, k) # NULL THEN t
  ELSE LET n  == Malloc(t, k)
           t1 == [t EXCEPT !.key[n] = k, !.red[n] = TRUE,
                           !.alloc = @ \union {n}, !.size = @ + 1]
           leaf == Leaf(t, t.root, k)
       IN IF t.root = NULL THEN Insert1([t1 EXCEPT !.root = n], n)
          ELSE Insert1([t1 EXCEPT !.kid[leaf.side][leaf.at] = n, !.p[n] = leaf.at], n)

-----------------------------------------------------------------------------
RECURSIVE Erase1(_, _)

Erase6(t, n) ==
  LET s == Side(t, n)
      sib == Sibling(t, n)
      t1 == Paint(Paint(t, sib, Red(t, t.p[n])), t.p[n], FALSE)
  IN Rotate(Paint(t1, t.kid[Other(s)][sib], FALSE), t.p[n], s)

(* The sibling's child next to the node is red and the other is black.     *)
Erase5(t, n) ==
  LET s == Side(t, n)
      sib == Sibling(t, n)
  IN IF ~Red(t, sib) /\ Red(t, t.kid[s][sib]) /\ ~Red(t, t.kid[Other(s)][sib])
     THEN Erase6(Rotate(Paint(Paint(t, sib, TRUE), t.kid[s][sib], FALSE), sib, Other(s)), n)
     ELSE Erase6(t, n)

BlackSibling(t, n) ==
  LET sib == Sibling(t, n) IN ~Red(t, sib) /\ \A s \in Sides : ~Red(t, t.kid[s][sib])

(* Fault: the parent stays red. *)
Erase4_ParentStaysRed(t, n) ==
  IF Red(t, t.p[n]) /\ BlackSibling(t, n) THEN Paint(t, Sibling(t, n), TRUE)
  ELSE Erase5(t, n)

Erase4(t, n) ==
  IF Red(t, t.p[n]) /\ BlackSibling(t, n)
  THEN Paint(Paint(t, Sibling(t, n), TRUE), t.p[n], FALSE)
  ELSE Erase5(t, n)

Erase3(t, n) ==
  IF ~Red(t, t.p[n]) /\ BlackSibling(t, n)
  THEN Erase1(Paint(t, Sibling(t, n), TRUE), t.p[n])
  ELSE Erase4(t, n)

Erase2(t, n) ==
  IF Red(t, Sibling(t, n))
  THEN Erase3(Rotate(Paint(Paint(t, t.p[n], TRUE), Sibling(t, n), FALSE),
                     t.p[n], Side(t, n)), n)
  ELSE Erase3(t, n)

Erase1(t, n) == IF t.p[n] = NULL THEN t ELSE Erase2(t, n)

(* What a freed node holds is gone. *)
Freed(t, n) ==
  [t EXCEPT !.alloc = @ \ {n}, !.key[n] = 0, !.red[n] = FALSE, !.p[n] = NULL,
            !.kid["l"][n] = NULL, !.kid["r"][n] = NULL]

(* Fault: the node with two children is freed, not the one whose key it takes. *)
EraseNode_FreesNode(t, node) ==
  LET both == \A s \in Sides : t.kid[s][node] # NULL
      n == IF both THEN Furthest(t, t.kid["l"][node], "r") ELSE node
      child == IF t.kid["r"][n] # NULL THEN t.kid["r"][n] ELSE t.kid["l"][n]
      t1 == [t EXCEPT !.key[node] = t.key[n], !.key[n] = t.key[node]]
      t2 == IF Red(t1, n) THEN t1 ELSE Erase1(Paint(t1, n, Red(t1, child)), n)
      t3 == Replace(t2, n, child)
      t4 == IF t3.p[n] = NULL /\ child # NULL THEN Paint(t3, child, FALSE) ELSE t3
  IN [Freed(t4, node) EXCEPT !.size = @ - 1]

(* A node with two children changes keys with its predecessor, and the     *)
(* predecessor is the node that goes.                                      *)
EraseNode(t, node) ==
  LET both == \A s \in Sides : t.kid[s][node] # NULL
      n == IF both THEN Furthest(t, t.kid["l"][node], "r") ELSE node
      child == IF t.kid["r"][n] # NULL THEN t.kid["r"][n] ELSE t.kid["l"][n]
      t1 == [t EXCEPT !.key[node] = t.key[n], !.key[n] = t.key[node]]
      t2 == IF Red(t1, n) THEN t1 ELSE Erase1(Paint(t1, n, Red(t1, child)), n)
      t3 == Replace(t2, n, child)
      t4 == IF t3.p[n] = NULL /\ child # NULL THEN Paint(t3, child, FALSE) ELSE t3
  IN [Freed(t4, n) EXCEPT !.size = @ - 1]

Erase(t, k) == IF Find(t, k) = NULL THEN t ELSE EraseNode(t, Find(t, k))

RECURSIVE Clear(_)
Clear(t) == IF t.size = 0 THEN t ELSE Clear(Erase(t, t.key[t.root]))

(* remove_if.  The iterator has taken the next node before the match is    *)
(* erased; stale records that it goes on from a node that is freed.        *)
RemoveIf(t, match) ==
  LET RECURSIVE From(_, _, _)
      From(u, n, next) ==
        LET v == IF u.key[n] \in match THEN EraseNode(u, n) ELSE u
        IN CASE next = NULL -> v
             [] next # NULL /\ next \in v.alloc -> From(v, next, NextNode(v, next))
             [] OTHER -> [v EXCEPT !.stale = TRUE]
      first == Furthest(t, t.root, "l")
  IN IF t.size = 0 THEN t ELSE From(t, first, NextNode(t, first))

-----------------------------------------------------------------------------
(* The functions of two sets loop over the one and change the other.       *)
RECURSIVE InsertAll(_, _), EraseAll(_, _)
InsertAll(t, ks) == IF ks = <<>> THEN t ELSE InsertAll(Insert(t, Head(ks)), Tail(ks))
EraseAll(t, ks) == IF ks = <<>> THEN t ELSE EraseAll(Erase(t, Head(ks)), Tail(ks))

Copy(t) == InsertAll(NoTree, Keys(t))
Intersection(a, b) == InsertAll(NoTree, SelectSeq(Keys(a), LAMBDA k : Find(b, k) # NULL))
Union(a, b) == InsertAll(InsertAll(NoTree, Keys(a)), Keys(b))
Difference(a, b) == EraseAll(Copy(a), Keys(b))

(* Fault: the keys of the first set are erased, not those in both. *)
SymmetricDifference_ErasesFirst(a, b) == EraseAll(Union(a, b), Keys(a))

SymmetricDifference(a, b) == EraseAll(Union(a, b), Keys(Intersection(a, b)))
Equal(a, b) == a.size = b.size /\ Keys(a) = Keys(b)
=============================================================================
