--------------------------- MODULE ParserNodeProofs ---------------------------
(***************************************************************************)
(* Theorems about the nodes of Parser, for every set of token arrays: that *)
(* each is owned once, and each text held once.                            *)
(*                                                                         *)
(* Both say that a map (from the pointers in use to the nodes they point   *)
(* to, from the nodes in use to the texts they hold) is one-to-one and     *)
(* onto a set.  A step moves some owners, drops none and makes at most two *)
(* (lemma Transfer); that it drops none needs FramesInv, which says what   *)
(* the functions that wait have yet to write: only fields that are Wild.   *)
(* The last sections are what main() and its walks need of the parser: the *)
(* fields each type of node has, that no T_ERR is passed, and the parents  *)
(* in a finished tree.                                                     *)
(***************************************************************************)
EXTENDS ParserProofs, SequenceTheorems

(* Where a function is working on its node, and where it has called        *)
(* another one and will write to its node, or to the fields of it, again.  *)
Entry   == {"small_atom", "atom", "expr", "stmt", "block"}
Working == Entry \union {"nth", "stmts", "assign"}
Holding == {"trail", "nth_right", "nth_deep", "let_name", "if_cond", "for", "stmts_next"}
Locals  == {"trail", "nth_right", "nth_deep"}

(* A node with nothing in it that an assignment to it would lose. *)
Blank(x) == x.kids = <<>> /\ x.held = 0

(* The fields of its node that a waiting function has yet to write, ...    *)
Waits(hp, f) ==
  LET x == hp[f.tree] IN
  /\ f.at = "let_name"   => Len(x.kids) = 2 /\ x.kids[2] = Wild /\ x.held = 0
  /\ f.at = "if_cond"    => Len(x.kids) = 3 /\ x.kids[2] = Wild
  /\ f.at = "for"        => Len(x.kids) = 4 /\ \A k \in f.num + 2 .. 4 : x.kids[k] = Wild
  /\ f.at = "stmts_next" => Len(x.kids) = 2 /\ x.kids[2] = Wild
  /\ f.at \notin Locals  => f.own = <<>>

(* ... and the node of a working one.                                      *)
Begins(hp, f, close) ==
  LET x == hp[f.tree] IN
  /\ f.at \in Entry => Blank(x)
  /\ f.at = "stmts" => \/ close
                       \/ x.held = 0 /\ \A k \in DOMAIN x.kids : x.kids[k] = Wild
  /\ f.at = "assign" => /\ Len(x.kids) = 2 /\ x.held = 0
                        /\ \A k \in DOMAIN x.kids : x.kids[k] = Wild

(* Nobody else gets to the node of a waiting function. *)
Apart(st) ==
  \A i, j \in DOMAIN st : st[i].at \in Holding =>
    /\ i < j => st[j].tree # st[i].tree
    /\ i <= j => \A k \in DOMAIN st[j].own : st[j].own[k] # st[i].tree

FramesInv ==
  /\ \A i \in DOMAIN stack : Waits(heap, stack[i])
  /\ \A i \in DOMAIN stack : i < Len(stack) => stack[i].at \notin Working
  /\ stack # <<>> => Begins(heap, Top, AtClose)
  /\ Apart(stack)

NodesInv == FramesInv /\ OwnedOnce /\ HeldOnce

-----------------------------------------------------------------------------
(* What happens to the stack. *)

LEMMA AppendIs ==
  ASSUME NEW S, NEW s \in Seq(S), NEW x
  PROVE  /\ Append(s, x) \in Seq(S \union {x})
         /\ Len(Append(s, x)) = Len(s) + 1 /\ DOMAIN Append(s, x) = 1 .. Len(s) + 1
         /\ \A i \in 1 .. Len(s) : Append(s, x)[i] = s[i]
         /\ Append(s, x)[Len(s) + 1] = x
<1>1. s \in Seq(S \union {x}) /\ x \in S \union {x}
  BY SeqMonotonic
<1>2. PICK U : U = S \union {x}
  OBVIOUS
<1>3. s \in Seq(U) /\ x \in U
  BY <1>1, <1>2
<1> QED
  BY <1>2, <1>3, AppendProperties

LEMMA Upto ==
  ASSUME NEW n \in Nat \ {0}
  PROVE  /\ \A i \in 1 .. n : i = n \/ (i \in 1 .. n - 1 /\ i < n)
         /\ \A i \in 1 .. n - 1 : i \in 1 .. n /\ i < n /\ i # n
         /\ \A i \in 1 .. n + 1 : i = n + 1 \/ i = n \/ (i \in 1 .. n - 1 /\ i < n)
OBVIOUS

LEMMA StackBase ==
  ASSUME ParserInv, stack # <<>>
  PROVE  /\ Len(stack) \in Nat \ {0} /\ DOMAIN stack = 1 .. Len(stack)
         /\ Top = stack[Len(stack)] /\ Len(stack) \in DOMAIN stack
         /\ \A i \in 1 .. Len(stack) - 1 : i \in DOMAIN stack /\ i < Len(stack) /\ i <= Len(stack)
         /\ \A i \in DOMAIN stack : i < Len(stack) => i \in 1 .. Len(stack) - 1
         /\ \A i \in DOMAIN stack : i = Len(stack) \/ i \in 1 .. Len(stack) - 1
         /\ stack \in Seq(GoodFrames(Len(heap)))
         /\ \A i \in DOMAIN stack : stack[i] \in GoodFrames(Len(heap))
<1> DEFINE S == GoodFrames(Len(heap))
<1>1. stack \in Seq(S)
  BY DEF ParserInv
<1> HIDE DEF S
<1>2. /\ Len(stack) \in Nat \ {0} /\ DOMAIN stack = 1 .. Len(stack)
      /\ Top = stack[Len(stack)] /\ Len(stack) \in DOMAIN stack
  BY <1>1 DEF Top
<1>3. \A i \in DOMAIN stack : stack[i] \in S
  BY <1>1, ElementOfSeq
<1> QED
  BY <1>1, <1>2, <1>3 DEF S

LEMMA StackIs ==
  ASSUME ParserInv, stack # <<>>
  PROVE  /\ Len(stack) \in Nat \ {0} /\ DOMAIN stack = 1 .. Len(stack) /\ Top = stack[Len(stack)]
         /\ Len(stack) \in DOMAIN stack
         /\ \A f : GoOn(f) =>
              /\ Len(stack') = Len(stack) /\ DOMAIN stack' = 1 .. Len(stack)
              /\ \A i \in 1 .. Len(stack) : i < Len(stack) => stack'[i] = stack[i]
              /\ stack'[Len(stack)] = f /\ tokens' = tokens
         /\ \A f, g : Call(f, g) =>
              /\ Len(stack') = Len(stack) + 1 /\ DOMAIN stack' = 1 .. Len(stack) + 1
              /\ \A i \in 1 .. Len(stack) : i < Len(stack) => stack'[i] = stack[i]
              /\ stack'[Len(stack)] = f /\ stack'[Len(stack) + 1] = g /\ tokens' = tokens
         /\ stack' = Below =>
              /\ Len(stack') = Len(stack) - 1 /\ DOMAIN stack' = 1 .. Len(stack) - 1
              /\ \A i \in 1 .. Len(stack) - 1 : stack'[i] = stack[i]
<1> DEFINE S == GoodFrames(Len(heap))
           n == Len(stack)
<1>1. stack \in Seq(S)
  BY DEF ParserInv
<1> HIDE DEF S
<1>2. n \in Nat \ {0} /\ DOMAIN stack = 1 .. n /\ Top = stack[n] /\ n \in DOMAIN stack
  BY <1>1 DEF Top
<1>3. /\ Below \in Seq(S) /\ Len(Below) = n - 1 /\ DOMAIN Below = 1 .. n - 1
      /\ \A i \in 1 .. n - 1 : Below[i] = stack[i]
  BY <1>1, <1>2 DEF Below
<1>4. ASSUME NEW f
      PROVE  LET s == Append(Below, f) IN
             /\ s \in Seq(S \union {f}) /\ Len(s) = n /\ DOMAIN s = 1 .. n
             /\ \A i \in 1 .. n : i < n => s[i] = stack[i]
             /\ s[n] = f
  <2>1. Len(Below) + 1 = n /\ \A i \in 1 .. n : i < n => i \in 1 .. Len(Below)
    BY <1>2, <1>3
  <2> QED
    BY <1>3, <2>1, AppendIs
<1>5. ASSUME NEW f, NEW g
      PROVE  LET s == Append(Append(Below, f), g) IN
             /\ Len(s) = n + 1 /\ DOMAIN s = 1 .. n + 1
             /\ \A i \in 1 .. n : i < n => s[i] = stack[i]
             /\ s[n] = f /\ s[n + 1] = g
  <2>1. PICK b : b = Append(Below, f)
    OBVIOUS
  <2>2. b \in Seq(S \union {f}) /\ Len(b) = n /\ b[n] = f
        /\ \A i \in 1 .. n : i < n => b[i] = stack[i]
    BY <1>4, <2>1
  <2>3. LET s == Append(b, g) IN
             /\ Len(s) = n + 1 /\ DOMAIN s = 1 .. n + 1
             /\ \A i \in 1 .. n : s[i] = b[i]
             /\ s[n + 1] = g
    BY <2>2, AppendIs
  <2> QED
    BY <1>2, <2>1, <2>2, <2>3
<1>6. \A f : GoOn(f) => stack' = Append(Below, f) /\ tokens' = tokens
  BY DEF GoOn
<1>7. \A f, g : Call(f, g) => stack' = Append(Append(Below, f), g) /\ tokens' = tokens
  BY DEF Call
<1>8. ASSUME NEW f, GoOn(f)
      PROVE   /\ Len(stack') = n /\ DOMAIN stack' = 1 .. n
              /\ \A i \in 1 .. n : i < n => stack'[i] = stack[i]
              /\ stack'[n] = f /\ tokens' = tokens
  <2>1. /\ Len(Append(Below, f)) = n /\ DOMAIN Append(Below, f) = 1 .. n
        /\ \A i \in 1 .. n : i < n => Append(Below, f)[i] = stack[i]
        /\ Append(Below, f)[n] = f
    BY <1>4
  <2>2. stack' = Append(Below, f) /\ tokens' = tokens
    BY <1>6, <1>8
  <2> QED
    BY <2>1, <2>2, Zenon
<1>9. \A f, g : Call(f, g) =>
              /\ Len(stack') = n + 1 /\ DOMAIN stack' = 1 .. n + 1
              /\ \A i \in 1 .. n : i < n => stack'[i] = stack[i]
              /\ stack'[n] = f /\ stack'[n + 1] = g /\ tokens' = tokens
  BY <1>5, <1>7
<1>10. stack' = Below =>
              /\ Len(stack') = n - 1 /\ DOMAIN stack' = 1 .. n - 1
              /\ \A i \in 1 .. n - 1 : stack'[i] = stack[i]
  BY <1>3
<1> QED
  BY <1>2, <1>8, <1>9, <1>10

(* What happens to the heap: a write to the node of the innermost          *)
(* function, and a malloc.                                                 *)
LEMMA HeapIs ==
  ASSUME ParserInv, stack # <<>>, NEW x, NEW y
  PROVE  /\ Len(heap) \in Nat /\ Top.tree \in 1 .. Len(heap) /\ DOMAIN heap = 1 .. Len(heap)
         /\ heap' = Write(Top.tree, x) =>
              /\ Len(heap') = Len(heap) /\ DOMAIN heap' = 1 .. Len(heap)
              /\ heap'[Top.tree] = x
              /\ \A m \in 1 .. Len(heap) : m # Top.tree => heap'[m] = heap[m]
         /\ heap' = Append(Write(Top.tree, x), y) =>
              /\ Len(heap') = Len(heap) + 1 /\ DOMAIN heap' = 1 .. Len(heap) + 1
              /\ heap'[Top.tree] = x /\ heap'[Len(heap) + 1] = y
              /\ \A m \in 1 .. Len(heap) : m # Top.tree => heap'[m] = heap[m]
<1> DEFINE n == Len(heap)
           t == Top.tree
           N == Nodes(n) \union {x}
           w == Write(t, x)
<1>1. n \in Nat /\ t \in 1 .. n /\ heap \in Seq(Nodes(n)) /\ DOMAIN heap = 1 .. n
  BY TopTyped DEF ParserInv
<1>2. /\ DOMAIN w = 1 .. n /\ w[t] = x /\ \A m \in 1 .. n : m # t => w[m] = heap[m]
      /\ w = [m \in 1 .. n |-> w[m]]
  <2>1. w = [m \in 1 .. n |-> IF m = t THEN x ELSE heap[m]]
    BY <1>1 DEF Write
  <2> HIDE DEF w
  <2> QED
    BY <1>1, <2>1
<1> HIDE DEF t, w
<1>3. \A m \in 1 .. n : w[m] \in N
  <2>1. \A m \in 1 .. n : heap[m] \in Nodes(n)
    BY <1>1
  <2> QED
    BY <1>2, <2>1
<1> HIDE DEF N
<1>4. w \in Seq(N) /\ Len(w) = n
  BY <1>1, <1>2, <1>3
<1>5. /\ Len(Append(w, y)) = n + 1 /\ DOMAIN Append(w, y) = 1 .. n + 1
      /\ \A m \in 1 .. n : Append(w, y)[m] = w[m]
      /\ Append(w, y)[n + 1] = y
  BY <1>4, AppendIs
<1>6. /\ Append(w, y)[t] = x
      /\ \A m \in 1 .. n : m # t => Append(w, y)[m] = heap[m]
  BY <1>1, <1>2, <1>5
<1>7. heap' = w =>
              /\ Len(heap') = n /\ DOMAIN heap' = 1 .. n
              /\ heap'[t] = x
              /\ \A m \in 1 .. n : m # t => heap'[m] = heap[m]
  BY <1>2, <1>4, Zenon
<1>8. heap' = Append(w, y) =>
              /\ Len(heap') = n + 1 /\ DOMAIN heap' = 1 .. n + 1
              /\ heap'[t] = x /\ heap'[n + 1] = y
              /\ \A m \in 1 .. n : m # t => heap'[m] = heap[m]
  BY <1>5, <1>6, Zenon
<1> QED
  BY <1>1, <1>7, <1>8, Zenon DEF w, t

(* Every step writes to no node but that of the innermost function. *)
Local ==
  /\ Len(heap') \in Nat /\ Len(heap) <= Len(heap') /\ DOMAIN heap' = 1 .. Len(heap')
  /\ \A m \in 1 .. Len(heap) : m # Top.tree => heap'[m] = heap[m]

-----------------------------------------------------------------------------
(* FramesInv, by how the step ends. *)

(* The nodes nobody but the innermost function, or those it calls, has. *)
Near == {Top.tree} \union {Top.own[k] : k \in DOMAIN Top.own} \union {New1, New2}

LEMMA NearApart ==
  ASSUME ParserInv, stack # <<>>, Apart(stack), NEW i \in 1 .. Len(stack) - 1,
         stack[i].at \in Holding
  PROVE  stack[i].tree \notin Near
<1>1. /\ Len(stack) \in Nat \ {0} /\ DOMAIN stack = 1 .. Len(stack) /\ Top = stack[Len(stack)]
      /\ i \in DOMAIN stack /\ Len(stack) \in DOMAIN stack /\ i < Len(stack) /\ i <= Len(stack)
  BY StackBase
<1>2. stack[i].tree # Top.tree /\ \A k \in DOMAIN Top.own : Top.own[k] # stack[i].tree
  BY <1>1, Zenon DEF Apart
<1>3. stack[i].tree \in 1 .. Len(heap) /\ Len(heap) \in Nat
  <2>1. stack[i] \in GoodFrames(Len(heap))
    BY <1>1, StackBase
  <2> QED
    BY <2>1, Tokens_ DEF GoodFrames, Frames
<1> QED
  BY <1>2, <1>3 DEF Near, New1, New2

(* The frames below the innermost one are as they were. *)
LEMMA BelowWait ==
  ASSUME ParserInv, stack # <<>>, FramesInv, Local
  PROVE  \A i \in 1 .. Len(stack) - 1 : Waits(heap', stack[i]) /\ stack[i].at \notin Working
<1> SUFFICES ASSUME NEW i \in 1 .. Len(stack) - 1
             PROVE  Waits(heap', stack[i]) /\ stack[i].at \notin Working
  OBVIOUS
<1>1. i \in DOMAIN stack /\ i < Len(stack)
  BY StackBase
<1>2. stack[i].tree \in 1 .. Len(heap)
  <2>1. stack[i] \in GoodFrames(Len(heap))
    BY <1>1, StackBase
  <2> QED
    BY <2>1, Tokens_ DEF GoodFrames, Frames
<1>3. Waits(heap, stack[i]) /\ stack[i].at \notin Working
  BY <1>1 DEF FramesInv
<1>4. CASE stack[i].at \in Holding
  <2>1. stack[i].tree # Top.tree
    BY <1>4, NearApart DEF FramesInv, Near
  <2>2. heap'[stack[i].tree] = heap[stack[i].tree]
    BY <1>2, <2>1 DEF Local
  <2> QED
    BY <1>3, <2>2, Zenon DEF Waits
<1>5. CASE stack[i].at \notin Holding
  BY <1>3, <1>5 DEF Waits, Holding
<1> QED
  BY <1>3, <1>4, <1>5

LEMMA ReturnFrames ==
  ASSUME ParserInv, stack # <<>>, FramesInv, Local, stack' = Below
  PROVE  FramesInv'
<1> DEFINE n == Len(stack)
<1>1. /\ n \in Nat \ {0} /\ DOMAIN stack = 1 .. n
      /\ \A i \in 1 .. n - 1 : i \in DOMAIN stack
  BY StackBase
<1>2. /\ Len(stack') = n - 1 /\ DOMAIN stack' = 1 .. n - 1
      /\ \A i \in 1 .. n - 1 : stack'[i] = stack[i]
  BY StackIs
<1>3. \A i \in 1 .. n - 1 : Waits(heap', stack'[i]) /\ stack'[i].at \notin Working
  BY <1>2, BelowWait
<1>4. Apart(stack')
  BY <1>1, <1>2, SMTT(30) DEF FramesInv, Apart
<1>5. stack' # <<>> => Begins(heap, Top, AtClose)'
  <2> SUFFICES ASSUME stack' # <<>> PROVE Begins(heap, Top, AtClose)'
    OBVIOUS
  <2>1. n - 1 \in 1 .. n - 1
    BY <1>1, <1>2 
  <2>2. Top' = stack'[n - 1]
    BY <1>2 DEF Top
  <2>3. Top'.at \notin Working
    BY <1>3, <2>1, <2>2
  <2> QED
    BY <2>3 DEF Begins, Working
<1> QED
  BY <1>2, <1>3, <1>4, <1>5 DEF FramesInv

LEMMA GoOnFrames ==
  ASSUME ParserInv, stack # <<>>, FramesInv, Local, NEW f, GoOn(f),
         f.at \in Working, f.tree \in Near, f.own = <<>>, Begins(heap', f, AtClose')
  PROVE  FramesInv'
<1> DEFINE n == Len(stack)
<1>1. /\ n \in Nat \ {0} /\ DOMAIN stack = 1 .. n
      /\ \A i \in 1 .. n - 1 : i \in DOMAIN stack
  BY StackBase
<1>2. /\ Len(stack') = n /\ DOMAIN stack' = 1 .. n /\ stack'[n] = f
      /\ \A i \in 1 .. n : i < n => stack'[i] = stack[i]
  BY StackIs
<1>3. \A i \in 1 .. n - 1 : Waits(heap', stack[i]) /\ stack[i].at \notin Working
  BY BelowWait
<1>4. \A i \in 1 .. n - 1 : stack[i].at \in Holding => stack[i].tree \notin Near
  BY NearApart DEF FramesInv
<1>5. f.at \notin Holding /\ f.at \notin Locals \ {"nth"}
  BY DEF Holding, Working, Entry, Locals
<1>6. Apart(stack')
  <2> SUFFICES ASSUME NEW i \in 1 .. n, NEW j \in 1 .. n, stack'[i].at \in Holding
               PROVE  /\ i < j => stack'[j].tree # stack'[i].tree
                      /\ i <= j => \A k \in DOMAIN stack'[j].own : stack'[j].own[k] # stack'[i].tree
    BY <1>2 DEF Apart
  <2>0. i # n
    BY <1>2, <1>5, Zenon
  <2>1. i # n /\ i \in 1 .. n - 1 /\ stack'[i] = stack[i]
    <3>1. i \in 1 .. n - 1 /\ i < n
      BY <1>1, <2>0, Upto, Zenon
    <3> QED
      BY <1>2, <2>0, <3>1, Zenon
  <2>2. CASE j = n
    <3>1. stack'[j] = f /\ DOMAIN f.own = {}
      BY <1>2, <2>2
    <3>2. f.tree # stack[i].tree
      BY <1>4, <2>1
    <3> QED
      BY <2>1, <3>1, <3>2
  <2>3. CASE j # n
    <3>0. j \in 1 .. n - 1 /\ j < n
      BY <1>1, <2>3, Upto, Zenon
    <3>1. j \in 1 .. n - 1 /\ stack'[j] = stack[j]
      BY <1>2, <3>0, Zenon
    <3> QED
      BY <1>1, <2>1, <3>1 DEF FramesInv, Apart
  <2> QED
    BY <2>2, <2>3
<1>7. Waits(heap', f)
  BY <1>5 DEF Waits, Holding
<1>8. \A i \in DOMAIN stack' : /\ Waits(heap', stack'[i])
                               /\ i < n => stack'[i].at \notin Working
  <2> SUFFICES ASSUME NEW i \in 1 .. n
               PROVE  /\ Waits(heap', stack'[i])
                      /\ i < n => stack'[i].at \notin Working
    BY <1>2
  <2>1. CASE i = n
    BY <1>1, <1>2, <1>7, <2>1
  <2>2. CASE i # n
    <3>1. i \in 1 .. n - 1 /\ i < n
      BY <1>1, <2>2, Upto, Zenon
    <3> QED
      BY <1>2, <1>3, <3>1, Zenon
  <2> QED
    BY <2>1, <2>2
<1>9. Begins(heap, Top, AtClose)'
  <2>1. Top' = f
    BY <1>1, <1>2 DEF Top
  <2> QED
    BY <2>1, Zenon
<1> QED
  BY <1>2, <1>6, <1>8, <1>9 DEF FramesInv

LEMMA CallFrames ==
  ASSUME ParserInv, stack # <<>>, FramesInv, Local, NEW f, NEW g, Call(f, g),
         f.at \notin Working, f.tree \in Near,
         \A k \in DOMAIN f.own : f.own[k] \in Near /\ f.own[k] # f.tree,
         Waits(heap', f),
         f.at \in Holding => g.tree # f.tree,
         g.at \in Working, g.tree \in Near, g.own = <<>>,
         Begins(heap', g, AtClose')
  PROVE  FramesInv'
<1> DEFINE n == Len(stack)
<1>1. /\ n \in Nat \ {0} /\ DOMAIN stack = 1 .. n
      /\ \A i \in 1 .. n - 1 : i \in DOMAIN stack
  BY StackBase
<1>2. /\ Len(stack') = n + 1 /\ DOMAIN stack' = 1 .. n + 1 /\ stack'[n] = f /\ stack'[n + 1] = g
      /\ \A i \in 1 .. n : i < n => stack'[i] = stack[i]
  BY StackIs
<1>3. \A i \in 1 .. n - 1 : Waits(heap', stack[i]) /\ stack[i].at \notin Working
  BY BelowWait
<1>4. \A i \in 1 .. n - 1 : stack[i].at \in Holding => stack[i].tree \notin Near
  BY NearApart DEF FramesInv
<1>5. g.at \notin Holding /\ g.at \notin Locals
  BY DEF Holding, Working, Entry, Locals
<1>c. \A i \in 1 .. n + 1 : i = n + 1 \/ i = n \/ (i \in 1 .. n - 1 /\ i < n)
  BY <1>1, Upto, Zenon
<1>6. Apart(stack')
  <2> SUFFICES ASSUME NEW i \in 1 .. n + 1, NEW j \in 1 .. n + 1, stack'[i].at \in Holding
               PROVE  /\ i < j => stack'[j].tree # stack'[i].tree
                      /\ i <= j => \A k \in DOMAIN stack'[j].own : stack'[j].own[k] # stack'[i].tree
    BY <1>2 DEF Apart
  <2>1. CASE i = n + 1
    BY <1>2, <1>5, <2>1
  <2>2. CASE i = n
    <3>1. stack'[i] = f /\ f.at \in Holding
      BY <1>2, <2>2
    <3>2. CASE j = n + 1
      BY <1>2, <3>1, <3>2
    <3>3. CASE j = n
      <4>1. stack'[j] = f /\ ~(i < j)
        BY <1>1, <1>2, <2>2, <3>3
      <4> QED
        BY <3>1, <4>1
    <3>4. CASE j \in 1 .. n - 1
      BY <1>1, <2>2, <3>4
    <3> QED
      BY <1>c, <3>2, <3>3, <3>4
  <2>3. CASE i \in 1 .. n - 1
    <3>1. stack'[i] = stack[i] /\ i < n
      BY <1>1, <1>2, <2>3
    <3>2. stack[i].tree \notin Near
      BY <1>4, <2>3, <3>1
    <3>3. CASE j = n + 1
      BY <1>2, <3>1, <3>2, <3>3
    <3>4. CASE j = n
      BY <1>2, <3>1, <3>2, <3>4
    <3>5. CASE j \in 1 .. n - 1
      <4>1. j \in 1 .. n - 1 /\ stack'[j] = stack[j]
        BY <1>1, <1>2, <3>5
      <4> QED
        BY <1>1, <2>3, <3>1, <4>1 DEF FramesInv, Apart
    <3> QED
      BY <1>c, <3>3, <3>4, <3>5
  <2> QED
    BY <1>c, <2>1, <2>2, <2>3
<1>7. Waits(heap', g)
  BY <1>5 DEF Waits, Holding
<1>8. \A i \in DOMAIN stack' : /\ Waits(heap', stack'[i])
                               /\ i < n + 1 => stack'[i].at \notin Working
  <2> SUFFICES ASSUME NEW i \in 1 .. n + 1
               PROVE  /\ Waits(heap', stack'[i])
                      /\ i < n + 1 => stack'[i].at \notin Working
    BY <1>2
  <2>1. CASE i = n + 1
    BY <1>1, <1>2, <1>7, <2>1
  <2>2. CASE i = n
    BY <1>1, <1>2, <2>2
  <2>3. CASE i \in 1 .. n - 1 /\ i < n
    BY <1>2, <1>3, <2>3
  <2> QED
    BY <1>c, <2>1, <2>2, <2>3
<1>9. Begins(heap, Top, AtClose)'
  <2>1. Top' = g
    BY <1>1, <1>2 DEF Top
  <2> QED
    BY <2>1, Zenon
<1> QED
  BY <1>2, <1>6, <1>8, <1>9 DEF FramesInv

-----------------------------------------------------------------------------
(* OwnedOnce and HeldOnce as maps: from the pointers to the nodes, and     *)
(* from the nodes to the texts, onto a set and injective.                  *)

StaleOf(st) == {st[i].tree : i \in {j \in DOMAIN st : st[j].at = "trail"}}

HasField(hp, st, a, k) ==
  a \in DOMAIN hp \ StaleOf(st) /\ k \in 1 .. 4 /\ k \in DOMAIN hp[a].kids /\ hp[a].kids[k] > 0
HasLocal(st, i, k) ==
  i \in DOMAIN st /\ k \in 1 .. 2 /\ k \in DOMAIN st[i].own /\ st[i].own[k] > 0

LinksOf(hp, st) ==
  LET to(p) == IF p[1] = "field" THEN hp[p[2]].kids[p[3]] ELSE st[p[2]].own[p[3]]
  IN [p \in {q \in {"field"} \X (DOMAIN hp) \X (1 .. 4) : HasField(hp, st, q[2], q[3])}
             \union
             {q \in {"local"} \X (DOMAIN st) \X (1 .. 2) : HasLocal(st, q[2], q[3])}
        |-> to(p)]

HoldersOf(hp, st) ==
  [a \in {b \in DOMAIN hp \ StaleOf(st) : hp[b].held > 0} |-> hp[a].held]
TextsOf(toks, p) == {i \in 1 .. p : toks[i] \in {"IDENT", "NUM"}}

Owns(T, A) ==
  /\ {T[p] : p \in DOMAIN T} = A
  /\ \A p, q \in DOMAIN T : T[p] = T[q] => p = q

LEMMA OwnedIs == OwnedOnce <=> Owns(LinksOf(heap, stack), 2 .. Len(heap))
<1> DEFINE set == {p \in Pointers : Target(p) > 0}
           T == LinksOf(heap, stack)
<1>1. \A p \in {"field"} \X (DOMAIN heap) \X (1 .. 4) :
        p \in set <=> HasField(heap, stack, p[2], p[3])
  BY DEF HasField, Pointers, Target, InUse, Stale, StaleOf
<1>2. \A p \in {"local"} \X (DOMAIN stack) \X (1 .. 2) :
        p \in set <=> HasLocal(stack, p[2], p[3])
  BY DEF HasLocal, Pointers, Target
<1>3. \A p \in set : \/ p \in {"field"} \X (DOMAIN heap) \X (1 .. 4)
                     \/ p \in {"local"} \X (DOMAIN stack) \X (1 .. 2)
  BY DEF Pointers, InUse
<1>4. DOMAIN T = set
  <2> HIDE DEF set
  <2> QED
    BY <1>1, <1>2, <1>3 DEF LinksOf
<1>5. \A p \in set : T[p] = Target(p)
  <2> HIDE DEF set
  <2> QED
    BY <1>1, <1>2, <1>3 DEF LinksOf, Target
<1> HIDE DEF T
<1> QED
  BY <1>4, <1>5 DEF OwnedOnce, Owns, T

LEMMA HeldIs == HeldOnce <=> Owns(HoldersOf(heap, stack), TextsOf(tokens, pos))
<1> DEFINE holders == {n \in InUse : heap[n].held > 0}
           T == HoldersOf(heap, stack)
<1>1. DOMAIN T = holders /\ \A a \in holders : T[a] = heap[a].held
  BY DEF HoldersOf, InUse, Stale, StaleOf
<1> HIDE DEF T
<1> QED
  BY <1>1 DEF HeldOnce, Owns, TextsOf, T

LEMMA OwnedNext == Owns(LinksOf(heap', stack'), 2 .. Len(heap')) => OwnedOnce'
<1> DEFINE P == Owns(LinksOf(heap, stack), 2 .. Len(heap))
<1>1. P => OwnedOnce
  BY OwnedIs
<1> HIDE DEF P
<1>2. P' => OwnedOnce'
  BY <1>1, PTL
<1> QED
  BY <1>2 DEF P

LEMMA HeldNext == Owns(HoldersOf(heap', stack'), TextsOf(tokens', pos')) => HeldOnce'
<1> DEFINE P == Owns(HoldersOf(heap, stack), TextsOf(tokens, pos))
<1>1. P => HeldOnce
  BY HeldIs
<1> HIDE DEF P
<1>2. P' => HeldOnce'
  BY <1>1, PTL
<1> QED
  BY <1>2 DEF P

LEMMA LinksAre ==
  ASSUME NEW hp, NEW st
  PROVE  LET T == LinksOf(hp, st) IN
         /\ \A a, k : <<"field", a, k>> \in DOMAIN T <=> HasField(hp, st, a, k)
         /\ \A a, k : HasField(hp, st, a, k) => T[<<"field", a, k>>] = hp[a].kids[k]
         /\ \A i, k : <<"local", i, k>> \in DOMAIN T <=> HasLocal(st, i, k)
         /\ \A i, k : HasLocal(st, i, k) => T[<<"local", i, k>>] = st[i].own[k]
         /\ \A p \in DOMAIN T : \/ \E a, k : p = <<"field", a, k>>
                                \/ \E i, k : p = <<"local", i, k>>
<1> DEFINE D == {q \in {"field"} \X (DOMAIN hp) \X (1 .. 4) : HasField(hp, st, q[2], q[3])}
                \union
                {q \in {"local"} \X (DOMAIN st) \X (1 .. 2) : HasLocal(st, q[2], q[3])}
           to(p) == IF p[1] = "field" THEN hp[p[2]].kids[p[3]] ELSE st[p[2]].own[p[3]]
<1>1. LinksOf(hp, st) = [p \in D |-> to(p)]
  BY DEF LinksOf
<1>2. \A a, k : HasField(hp, st, a, k) => a \in DOMAIN hp /\ k \in 1 .. 4
  BY DEF HasField
<1>3. \A a, k : HasLocal(st, a, k) => a \in DOMAIN st /\ k \in 1 .. 2
  BY DEF HasLocal
<1>4. \A a, k : <<"field", a, k>> \in D <=> HasField(hp, st, a, k)
  BY <1>2, <1>3
<1>5. \A a, k : <<"local", a, k>> \in D <=> HasLocal(st, a, k)
  BY <1>2, <1>3
<1>6. \A p \in D : \/ \E a, k : p = <<"field", a, k>>
                   \/ \E i, k : p = <<"local", i, k>>
  OBVIOUS
<1>7. \A a, k : to(<<"field", a, k>>) = hp[a].kids[k] /\ to(<<"local", a, k>>) = st[a].own[k]
  OBVIOUS
<1> HIDE DEF D, to
<1> QED
  BY <1>1, <1>4, <1>5, <1>6, <1>7

LEMMA HoldersAre ==
  ASSUME NEW hp, NEW st
  PROVE  LET T == HoldersOf(hp, st) IN
         /\ \A a : a \in DOMAIN T <=> a \in DOMAIN hp \ StaleOf(st) /\ hp[a].held > 0
         /\ \A a \in DOMAIN T : T[a] = hp[a].held
  BY DEF HoldersOf

(* What is owned stays owned when its owners move, and what is new gets an *)
(* owner that is new.                                                      *)
Moves(T, A, T2, A2, f, fresh) ==
  /\ A \subseteq A2
  /\ \A p \in DOMAIN T : f[p] \in DOMAIN T2 /\ T2[f[p]] = T[p]
  /\ \A q \in DOMAIN T2 : q \in fresh \/ \E p \in DOMAIN T : q = f[p]
  /\ fresh \subseteq DOMAIN T2 /\ {T2[q] : q \in fresh} = A2 \ A
  /\ \A q, r \in fresh : T2[q] = T2[r] => q = r

LEMMA Transfer ==
  ASSUME NEW T, NEW A, Owns(T, A), NEW T2, NEW A2, NEW f, NEW fresh, Moves(T, A, T2, A2, f, fresh)
  PROVE  Owns(T2, A2)
<1>0. /\ A \subseteq A2
      /\ \A p \in DOMAIN T : f[p] \in DOMAIN T2 /\ T2[f[p]] = T[p]
      /\ \A q \in DOMAIN T2 : q \in fresh \/ \E p \in DOMAIN T : q = f[p]
      /\ fresh \subseteq DOMAIN T2 /\ {T2[q] : q \in fresh} = A2 \ A
      /\ \A q, r \in fresh : T2[q] = T2[r] => q = r
  BY DEF Moves
<1>1. \A p \in DOMAIN T : T[p] \in A
  BY DEF Owns
<1>2. \A m \in A : \E p \in DOMAIN T : T[p] = m
  BY DEF Owns
<1>3. \A q \in DOMAIN T2 : q \in fresh => T2[q] \in A2 \ A
  BY <1>0
<1>4. \A q \in DOMAIN T2 : T2[q] \in A2
  BY <1>0, <1>1, <1>3
<1>5. \A m \in A2 : \E q \in DOMAIN T2 : T2[q] = m
  <2> SUFFICES ASSUME NEW m \in A2 PROVE \E q \in DOMAIN T2 : T2[q] = m
    OBVIOUS
  <2>1. CASE m \in A
    BY <1>0, <1>2, <2>1
  <2>2. CASE m \notin A
    BY <1>0, <2>2
  <2> QED
    BY <2>1, <2>2
<1>6. \A q, r \in DOMAIN T2 : T2[q] = T2[r] => q = r
  <2> SUFFICES ASSUME NEW q \in DOMAIN T2, NEW r \in DOMAIN T2, T2[q] = T2[r] PROVE q = r
    OBVIOUS
  <2>1. CASE q \in fresh /\ r \in fresh
    BY <1>0, <2>1
  <2>2. CASE q \in fresh /\ r \notin fresh
    BY <1>0, <1>1, <1>3, <2>2
  <2>3. CASE q \notin fresh /\ r \in fresh
    BY <1>0, <1>1, <1>3, <2>3
  <2>4. CASE q \notin fresh /\ r \notin fresh
    BY <1>0, <2>4 DEF Owns
  <2> QED
    BY <2>1, <2>2, <2>3, <2>4
<1> QED
  BY <1>4, <1>5, <1>6 DEF Owns

(* The same where no owner moves. *)
LEMMA Extend ==
  ASSUME NEW T, NEW A, Owns(T, A), NEW T2, NEW A2, A \subseteq A2, NEW fresh,
         \A p \in DOMAIN T : p \in DOMAIN T2 /\ T2[p] = T[p],
         \A q \in DOMAIN T2 : q \in fresh \/ q \in DOMAIN T,
         fresh \subseteq DOMAIN T2, {T2[q] : q \in fresh} = A2 \ A,
         \A q, r \in fresh : T2[q] = T2[r] => q = r
  PROVE  Owns(T2, A2)
<1> DEFINE f == [p \in DOMAIN T |-> p]
<1>1. \A p \in DOMAIN T : f[p] = p
  OBVIOUS
<1> HIDE DEF f
<1>2. Moves(T, A, T2, A2, f, fresh)
  BY <1>1 DEF Moves
<1> QED
  BY <1>2, Transfer

-----------------------------------------------------------------------------
(* The steps that keep the pointers and the texts where they are, and add  *)
(* at most one: a field that points to the node just allocated, and the    *)
(* text of the token just consumed.                                        *)

(* Every local variable and every stale node is what it was. *)
Quiet ==
  /\ StaleOf(stack') = StaleOf(stack)
  /\ \A i, k : HasLocal(stack', i, k) <=> HasLocal(stack, i, k)
  /\ \A i, k : HasLocal(stack, i, k) => stack'[i].own[k] = stack[i].own[k]

Points(x, k) == k \in DOMAIN x.kids /\ x.kids[k] > 0

(* y has the pointers of x, and in field k0, if there is such a field, one *)
(* to the new node.                                                        *)
Fields(x, y, k0) ==
  /\ k0 \in 1 .. 4 => ~Points(x, k0) /\ Points(y, k0) /\ y.kids[k0] = New1
  /\ \A k \in 1 .. 4 : k # k0 => (Points(x, k) <=> Points(y, k))
  /\ \A k \in 1 .. 4 : Points(x, k) => y.kids[k] = x.kids[k]

(* y holds the text of x, or that of the next token. *)
Holds(x, y) ==
  \/ y.held = x.held /\ TextsOf(tokens', pos') = TextsOf(tokens, pos)
  \/ x.held = 0 /\ y.held = pos + 1
       /\ TextsOf(tokens', pos') = TextsOf(tokens, pos) \union {pos + 1}

(* What the step makes of the heap; k0 is 0 where nothing is allocated.    *)
Writes(x, k0) ==
  \/ k0 = 0 /\ heap' = Write(Top.tree, x)
  \/ k0 \in 1 .. 4 /\ heap' = Append(Write(Top.tree, x), Fresh)

LEMMA FreshIs == Fresh.kids = <<>> /\ Fresh.held = 0
  BY DEF Fresh, Node

Written(x, k0) ==
  /\ Local /\ heap'[Top.tree] = x
  /\ k0 = 0 => Len(heap') = Len(heap)
  /\ k0 # 0 => Len(heap') = Len(heap) + 1 /\ heap'[New1] = Fresh
  /\ Top.tree \in 1 .. Len(heap) /\ Len(heap) \in Nat /\ DOMAIN heap = 1 .. Len(heap)
  /\ New1 = Len(heap) + 1 /\ New1 \notin 1 .. Len(heap)
  /\ \A m : m \in DOMAIN heap' <=> (m \in 1 .. Len(heap) \/ (k0 # 0 /\ m = New1))

LEMMA WritesIs ==
  ASSUME ParserInv, stack # <<>>, NEW x, NEW k0, Writes(x, k0)
  PROVE  Written(x, k0)
<1>1. /\ Len(heap) \in Nat /\ Top.tree \in 1 .. Len(heap) /\ DOMAIN heap = 1 .. Len(heap)
      /\ New1 = Len(heap) + 1
  BY HeapIs DEF New1
<1>2. CASE k0 = 0 /\ heap' = Write(Top.tree, x)
  <2>1. /\ Len(heap') = Len(heap) /\ DOMAIN heap' = 1 .. Len(heap)
              /\ heap'[Top.tree] = x
              /\ \A m \in 1 .. Len(heap) : m # Top.tree => heap'[m] = heap[m]
    BY <1>2, HeapIs
  <2> QED
    BY <1>1, <1>2, <2>1 DEF Local, Written
<1>3. CASE k0 \in 1 .. 4 /\ heap' = Append(Write(Top.tree, x), Fresh)
  <2>1. /\ Len(heap') = Len(heap) + 1 /\ DOMAIN heap' = 1 .. Len(heap) + 1
              /\ heap'[Top.tree] = x /\ heap'[Len(heap) + 1] = Fresh
              /\ \A m \in 1 .. Len(heap) : m # Top.tree => heap'[m] = heap[m]
    BY <1>3, HeapIs
  <2> QED
    <3>1. k0 # 0 /\ New1 \notin 1 .. Len(heap) /\ Len(heap') \in Nat /\ Len(heap) <= Len(heap')
      BY <1>1, <1>3, <2>1
    <3>2. \A m : m \in 1 .. Len(heap) + 1 <=> m \in 1 .. Len(heap) \/ m = New1
      BY <1>1
    <3>3. Local
      BY <2>1, <3>1, Zenon DEF Local
    <3> QED
      BY <1>1, <2>1, <3>1, <3>2, <3>3, Zenon DEF Written
<1> QED
  BY <1>2, <1>3 DEF Writes

(* The node the innermost function fills is in use. *)
LEMMA TopInUse ==
  ASSUME ParserInv, stack # <<>>, FramesInv, Top.at # "trail"
  PROVE  Top.tree \notin StaleOf(stack)
<1> SUFFICES ASSUME NEW i \in DOMAIN stack, stack[i].at = "trail" PROVE stack[i].tree # Top.tree
  BY DEF StaleOf
<1>1. i = Len(stack) \/ i \in 1 .. Len(stack) - 1
  BY StackBase
<1>2. i # Len(stack)
  BY StackBase
<1> QED
  BY <1>1, <1>2, NearApart DEF FramesInv, Near, Holding

LEMMA StaleExist ==
  ASSUME ParserInv, stack # <<>>
  PROVE  StaleOf(stack) \subseteq 1 .. Len(heap)
<1> SUFFICES ASSUME NEW i \in DOMAIN stack PROVE stack[i].tree \in 1 .. Len(heap)
  BY DEF StaleOf
<1>1. stack[i] \in GoodFrames(Len(heap))
  BY StackBase
<1> QED
  BY <1>1 DEF GoodFrames, Frames

LEMMA OwnedStep ==
  ASSUME ParserInv, stack # <<>>, NodesInv, Top.at # "trail", Quiet,
         NEW x, NEW k0, Writes(x, k0), Fields(heap[Top.tree], x, k0)
  PROVE  OwnedOnce'
<1> DEFINE T == LinksOf(heap, stack)
           T2 == LinksOf(heap', stack')
           A == 2 .. Len(heap)
           A2 == 2 .. Len(heap')
<1>t. PICK t : t = Top.tree
  OBVIOUS
<1> DEFINE fresh == IF k0 = 0 THEN {} ELSE {<<"field", t, k0>>}
<1>b. Fields(heap[t], x, k0)
  BY <1>t
<1>0. Written(x, k0)
  BY WritesIs
<1>1. /\ Local /\ heap'[t] = x
      /\ k0 = 0 => Len(heap') = Len(heap)
      /\ k0 # 0 => Len(heap') = Len(heap) + 1 /\ heap'[New1] = Fresh
      /\ t \in 1 .. Len(heap) /\ Len(heap) \in Nat /\ DOMAIN heap = 1 .. Len(heap)
      /\ New1 = Len(heap) + 1 /\ New1 \notin 1 .. Len(heap)
      /\ \A m : m \in DOMAIN heap' <=> m \in 1 .. Len(heap) \/ (k0 # 0 /\ m = New1)
  BY <1>0, <1>t, Zenon DEF Written
<1>a. k0 = 0 \/ (k0 \in 1 .. 4 /\ k0 # 0)
  BY DEF Writes
<1>2. t \notin StaleOf(stack) /\ New1 \notin StaleOf(stack)
  BY <1>1, <1>t, TopInUse, StaleExist DEF NodesInv
<1>3. \A a, k : a # t => (HasField(heap', stack', a, k) <=> HasField(heap, stack, a, k))
  <2> SUFFICES ASSUME NEW a, NEW k, a # t
               PROVE  HasField(heap', stack', a, k) <=> HasField(heap, stack, a, k)
    OBVIOUS
  <2>1. CASE a \in 1 .. Len(heap)
    <3>1. heap'[a] = heap[a] /\ a \in DOMAIN heap /\ a \in DOMAIN heap'
      BY <1>1, <1>t, <2>1 DEF Local
    <3> QED
      BY <3>1 DEF HasField, Quiet
  <2>2. CASE a \notin 1 .. Len(heap)
    <3>1. a \notin DOMAIN heap /\ (a \in DOMAIN heap' => heap'[a] = Fresh)
      BY <1>1, <2>2
    <3>2. ~HasField(heap', stack', a, k)
      BY <3>1, FreshIs DEF HasField
    <3> QED
      BY <3>1, <3>2 DEF HasField
  <2> QED
    BY <2>1, <2>2
<1>4. \A k : /\ HasField(heap, stack, t, k) <=> k \in 1 .. 4 /\ Points(heap[t], k)
             /\ HasField(heap', stack', t, k) <=> k \in 1 .. 4 /\ Points(x, k)
  BY <1>1, <1>2 DEF HasField, Points, Quiet
<1>5. \A k : HasField(heap', stack', t, k) <=>
              HasField(heap, stack, t, k) \/ (k0 # 0 /\ k = k0)
  <2>1. CASE k0 = 0
    BY <1>4, <1>b, <2>1 DEF Fields
  <2>2. CASE k0 \in 1 .. 4 /\ k0 # 0
    BY <1>4, <1>b, <2>2 DEF Fields
  <2> QED
    BY <1>a, <2>1, <2>2
<1>6. \A a, k : HasField(heap, stack, a, k) => heap'[a].kids[k] = heap[a].kids[k]
  <2> SUFFICES ASSUME NEW a, NEW k, HasField(heap, stack, a, k)
               PROVE  heap'[a].kids[k] = heap[a].kids[k]
    OBVIOUS
  <2>1. CASE a = t
    <3>1. k \in 1 .. 4 /\ Points(heap[t], k)
      BY <1>4, <2>1
    <3> QED
      BY <1>1, <1>b, <2>1, <3>1 DEF Fields
  <2>2. CASE a # t
    BY <1>1, <1>t, <2>2 DEF HasField, Local
  <2> QED
    BY <2>1, <2>2
<1>7. \A p \in DOMAIN T : p \in DOMAIN T2 /\ T2[p] = T[p]
  <2> SUFFICES ASSUME NEW p \in DOMAIN T PROVE p \in DOMAIN T2 /\ T2[p] = T[p]
    OBVIOUS
  <2>1. CASE \E a, k : p = <<"field", a, k>>
    <3>1. PICK a, k : p = <<"field", a, k>>
      BY <2>1
    <3>2. HasField(heap, stack, a, k) /\ T[p] = heap[a].kids[k]
      BY <3>1, LinksAre
    <3>3. HasField(heap', stack', a, k) /\ heap'[a].kids[k] = heap[a].kids[k]
      BY <1>3, <1>5, <1>6, <3>2
    <3> QED
      BY <3>1, <3>2, <3>3, LinksAre
  <2>2. CASE \E i, k : p = <<"local", i, k>>
    <3>1. PICK i, k : p = <<"local", i, k>>
      BY <2>2
    <3>2. HasLocal(stack, i, k) /\ T[p] = stack[i].own[k]
      BY <3>1, LinksAre
    <3>3. HasLocal(stack', i, k) /\ stack'[i].own[k] = stack[i].own[k]
      BY <3>2 DEF Quiet
    <3> QED
      BY <3>1, <3>2, <3>3, LinksAre
  <2> QED
    BY <2>1, <2>2, LinksAre
<1>8. \A q \in DOMAIN T2 : q \in fresh \/ q \in DOMAIN T
  <2> SUFFICES ASSUME NEW p \in DOMAIN T2 PROVE p \in fresh \/ p \in DOMAIN T
    OBVIOUS
  <2>1. CASE \E a, k : p = <<"field", a, k>>
    <3>1. PICK a, k : p = <<"field", a, k>>
      BY <2>1
    <3>2. HasField(heap', stack', a, k)
      BY <3>1, LinksAre
    <3>3. HasField(heap, stack, a, k) \/ (k0 # 0 /\ a = t /\ k = k0)
      BY <1>3, <1>5, <3>2
    <3> QED
      BY <3>1, <3>3, LinksAre
  <2>2. CASE \E i, k : p = <<"local", i, k>>
    BY <2>2, LinksAre DEF Quiet
  <2> QED
    BY <2>1, <2>2, LinksAre
<1>9. k0 # 0 => <<"field", t, k0>> \in DOMAIN T2 /\ T2[<<"field", t, k0>>] = New1
  <2> SUFFICES ASSUME k0 # 0
               PROVE  <<"field", t, k0>> \in DOMAIN T2 /\ T2[<<"field", t, k0>>] = New1
    OBVIOUS
  <2>1. HasField(heap', stack', t, k0)
    BY <1>5
  <2>2. heap'[t].kids[k0] = New1
    BY <1>1, <1>a, <1>b DEF Fields
  <2> QED
    BY <2>1, <2>2, LinksAre
<1>10. {T2[q] : q \in fresh} = A2 \ A
  <2>1. CASE k0 = 0
    BY <1>1, <2>1
  <2>2. CASE k0 # 0
    <3>1. {T2[q] : q \in fresh} = {New1}
      BY <1>9, <2>2
    <3>2. A2 \ A = {New1}
      <4>1. New1 \in Nat \ {0, 1} /\ Len(heap') = New1 /\ Len(heap) = New1 - 1
        <5>1. Len(heap) \in Nat \ {0}
          BY <1>1
        <5>2. New1 = Len(heap) + 1 /\ Len(heap') = Len(heap) + 1
          BY <1>1, <2>2, Zenon
        <5> QED
          BY <5>1, <5>2
      <4> QED
        BY <4>1
    <3> QED
      BY <3>1, <3>2
  <2> QED
    BY <2>1, <2>2
<1>11. fresh \subseteq DOMAIN T2
  BY <1>9
<1>c. \A q, r \in fresh : T2[q] = T2[r] => q = r
  OBVIOUS
<1>12. A \subseteq A2
  <2>1. Len(heap) \in Nat /\ Len(heap') \in Nat /\ Len(heap) <= Len(heap')
    BY <1>1 DEF Local
  <2> QED
    BY <2>1
<1>13. Owns(T, A)
  BY OwnedIs DEF NodesInv
<1> HIDE DEF T, T2, A, A2, fresh
<1>14. Owns(T2, A2)
  BY <1>7, <1>8, <1>10, <1>11, <1>c, <1>12, <1>13, Extend
<1> QED
  BY <1>14, OwnedNext DEF T2, A2

LEMMA HeldStep ==
  ASSUME ParserInv, stack # <<>>, NodesInv, Top.at # "trail", StaleOf(stack') = StaleOf(stack),
         NEW x, NEW k0, Writes(x, k0), Holds(heap[Top.tree], x)
  PROVE  HeldOnce'
<1> DEFINE T == HoldersOf(heap, stack)
           T2 == HoldersOf(heap', stack')
           A == TextsOf(tokens, pos)
           A2 == TextsOf(tokens', pos')
<1>t. PICK t : t = Top.tree
  OBVIOUS
<1>0. Written(x, k0)
  BY WritesIs
<1>1. /\ Local /\ heap'[t] = x
      /\ k0 # 0 => heap'[New1] = Fresh
      /\ t \in 1 .. Len(heap) /\ Len(heap) \in Nat /\ DOMAIN heap = 1 .. Len(heap)
      /\ New1 \notin 1 .. Len(heap)
      /\ \A m : m \in DOMAIN heap' <=> m \in 1 .. Len(heap) \/ (k0 # 0 /\ m = New1)
  BY <1>0, <1>t, Zenon DEF Written
<1>2. t \notin StaleOf(stack)
  BY <1>t, TopInUse DEF NodesInv
<1>3. \A a : a # t => (a \in DOMAIN T2 <=> a \in DOMAIN T)
  <2> SUFFICES ASSUME NEW a, a # t PROVE a \in DOMAIN T2 <=> a \in DOMAIN T
    OBVIOUS
  <2>1. CASE a \in 1 .. Len(heap)
    <3>1. heap'[a] = heap[a] /\ a \in DOMAIN heap /\ a \in DOMAIN heap'
      BY <1>1, <1>t, <2>1 DEF Local
    <3> QED
      BY <3>1, HoldersAre
  <2>2. CASE a \notin 1 .. Len(heap)
    <3>1. a \notin DOMAIN heap /\ (a \in DOMAIN heap' => heap'[a] = Fresh)
      BY <1>1, <2>2
    <3> QED
      BY <3>1, FreshIs, HoldersAre
  <2> QED
    BY <2>1, <2>2
<1>4. \A a \in DOMAIN T : a # t => T2[a] = T[a]
  BY <1>1, <1>t, <1>3, HoldersAre, SMTT(30) DEF Local
<1>5. (t \in DOMAIN T <=> heap[t].held > 0) /\ (t \in DOMAIN T2 <=> x.held > 0)
  BY <1>1, <1>2, HoldersAre
<1>6. (t \in DOMAIN T => T[t] = heap[t].held) /\ (t \in DOMAIN T2 => T2[t] = x.held)
  BY <1>1, HoldersAre
<1>7. Owns(T, A)
  BY HeldIs DEF NodesInv
<1>8. pos \in Nat
  BY Tokens_
<1>9. Owns(T2, A2)
  <2>1. CASE x.held = heap[t].held /\ A2 = A
    <3>1. \A p \in DOMAIN T : p \in DOMAIN T2 /\ T2[p] = T[p]
      BY <1>3, <1>4, <1>5, <1>6, <2>1
    <3>2. \A q \in DOMAIN T2 : q \in {} \/ q \in DOMAIN T
      BY <1>3, <1>5, <2>1
    <3> HIDE DEF T, T2, A, A2
    <3> QED
      BY <1>7, <2>1, <3>1, <3>2, Extend
  <2>2. CASE heap[t].held = 0 /\ x.held = pos + 1 /\ A2 = A \union {pos + 1}
    <3>1. t \notin DOMAIN T /\ t \in DOMAIN T2 /\ T2[t] = pos + 1
      BY <1>5, <1>6, <1>8, <2>2
    <3>2. \A p \in DOMAIN T : p \in DOMAIN T2 /\ T2[p] = T[p]
      BY <1>3, <1>4, <3>1
    <3>3. \A q \in DOMAIN T2 : q \in {t} \/ q \in DOMAIN T
      BY <1>3
    <3>4. pos + 1 \notin A
      BY <1>8 DEF TextsOf
    <3>5. {T2[q] : q \in {t}} = A2 \ A /\ {t} \subseteq DOMAIN T2 /\ A \subseteq A2
      BY <2>2, <3>1, <3>4
    <3>6. PICK fresh : fresh = {t}
      OBVIOUS
    <3>7. {T2[q] : q \in fresh} = A2 \ A /\ fresh \subseteq DOMAIN T2
      BY <3>5, <3>6
    <3>8. \A q, r \in fresh : T2[q] = T2[r] => q = r
      BY <3>6
    <3>9. \A q \in DOMAIN T2 : q \in fresh \/ q \in DOMAIN T
      BY <3>3, <3>6
    <3> HIDE DEF T, T2, A, A2
    <3> QED
      BY <1>7, <3>2, <3>5, <3>7, <3>8, <3>9, Extend
  <2> QED
    BY <1>t, <2>1, <2>2 DEF Holds
<1> QED
  BY <1>9, HeldNext

-----------------------------------------------------------------------------
(* When a step is quiet. *)

LEMMA NoLocals ==
  ASSUME ParserInv, stack # <<>>, FramesInv, Top.at \notin Locals
  PROVE  Top.own = <<>>
  BY StackBase DEF FramesInv, Waits

(* The frames that changed are not those of a suffix, ... *)
LEMMA StaleBy ==
  ASSUME ParserInv, stack # <<>>, Top.at # "trail",
         NEW m \in {Len(stack) - 1, Len(stack), Len(stack) + 1}, DOMAIN stack' = 1 .. m,
         \A i \in 1 .. Len(stack) - 1 : stack'[i] = stack[i],
         \A i \in DOMAIN stack' : i >= Len(stack) => stack'[i].at # "trail"
  PROVE  StaleOf(stack') = StaleOf(stack)
<1>n. PICK n : n = Len(stack)
  OBVIOUS
<1>1. /\ n \in Nat \ {0} /\ DOMAIN stack = 1 .. n /\ Top = stack[n]
      /\ \A i \in 1 .. n - 1 : i \in DOMAIN stack
  BY <1>n, StackBase
<1>m. m \in {n - 1, n, n + 1}
  BY <1>n
<1>2. m \in Nat /\ (m >= n \/ m = n - 1)
  BY <1>1, <1>m
<1>h. \A i \in DOMAIN stack' : i >= n => stack'[i].at # "trail"
  BY <1>n
<1>3. \A i \in 1 .. n - 1 : i \in 1 .. m /\ i \in 1 .. n
  BY <1>1, <1>m
<1>4. \A i \in 1 .. m : i \in 1 .. n - 1 \/ (i = n /\ m >= n) \/ (i = n + 1 /\ m > n)
  BY <1>1, <1>m
<1>5. \A i \in 1 .. n : i \in 1 .. n - 1 \/ i = n
  BY <1>1
<1>6. \A i \in 1 .. n - 1 : stack'[i] = stack[i]
  BY <1>n
<1>7. \A i \in 1 .. m : i \in 1 .. n - 1 \/ stack'[i].at # "trail"
  <2>1. \A i \in 1 .. m : i \in 1 .. n - 1 \/ i >= n
    BY <1>1, <1>4
  <2> QED
    BY <1>h, <2>1
<1> QED
  <2>1. ASSUME NEW i \in DOMAIN stack, stack[i].at = "trail" PROVE stack[i].tree \in StaleOf(stack')
    <3>1. i \in 1 .. n - 1
      BY <1>1, <1>5, <2>1
    <3> QED
      BY <1>3, <1>6, <2>1, <3>1 DEF StaleOf
  <2>2. ASSUME NEW i \in DOMAIN stack', stack'[i].at = "trail" PROVE stack'[i].tree \in StaleOf(stack)
    <3>1. i \in 1 .. n - 1
      BY <1>7, <2>2
    <3> QED
      BY <1>1, <1>3, <1>6, <2>2, <3>1 DEF StaleOf
  <2> QED
    BY <2>1, <2>2 DEF StaleOf

(* ... and have no locals, or those Top had. *)
LEMMA QuietBy ==
  ASSUME ParserInv, stack # <<>>, Top.at # "trail",
         NEW m \in {Len(stack) - 1, Len(stack), Len(stack) + 1}, DOMAIN stack' = 1 .. m,
         \A i \in 1 .. Len(stack) - 1 : stack'[i] = stack[i],
         \A i \in DOMAIN stack' : i >= Len(stack) => stack'[i].at # "trail",
         m >= Len(stack) => stack'[Len(stack)].own = Top.own,
         m < Len(stack) => Top.own = <<>>,
         m > Len(stack) => stack'[Len(stack) + 1].own = <<>>
  PROVE  Quiet
<1>n. PICK n : n = Len(stack)
  OBVIOUS
<1>1. /\ n \in Nat \ {0} /\ DOMAIN stack = 1 .. n /\ Top = stack[n]
      /\ \A i \in 1 .. n - 1 : i \in DOMAIN stack
  BY <1>n, StackBase
<1>m. m \in {n - 1, n, n + 1}
  BY <1>n
<1>2. m \in Nat /\ (m >= n \/ m = n - 1)
  BY <1>1, <1>m
<1>h. /\ \A i \in DOMAIN stack' : i >= n => stack'[i].at # "trail"
      /\ m >= n => stack'[n].own = Top.own
      /\ m < n => Top.own = <<>>
      /\ m > n => stack'[n + 1].own = <<>>
  BY <1>n
<1>3. \A i \in 1 .. n - 1 : i \in 1 .. m /\ i \in 1 .. n
  BY <1>1, <1>m
<1>4. \A i \in 1 .. m : i \in 1 .. n - 1 \/ (i = n /\ m >= n) \/ (i = n + 1 /\ m > n)
  BY <1>1, <1>m
<1>5. \A i \in 1 .. n : i \in 1 .. n - 1 \/ i = n
  BY <1>1
<1>6. \A i \in 1 .. n - 1 : stack'[i] = stack[i]
  BY <1>n
<1>c. m >= n \/ m < n
  BY <1>1, <1>2
<1>8. StaleOf(stack') = StaleOf(stack)
  BY <1>n, StaleBy
<1>9. \A i, k : HasLocal(stack', i, k) => HasLocal(stack, i, k)
  <2> SUFFICES ASSUME NEW i \in 1 .. m, NEW k, HasLocal(stack', i, k) PROVE HasLocal(stack, i, k)
    BY DEF HasLocal
  <2>1. CASE i \in 1 .. n - 1
    BY <1>1, <1>3, <1>6, <2>1 DEF HasLocal
  <2>2. CASE i = n /\ m >= n
    <3>1. stack'[n].own = stack[n].own /\ n \in DOMAIN stack
      BY <1>1, <1>h, <2>2
    <3> QED
      BY <2>2, <3>1 DEF HasLocal
  <2>3. CASE i = n + 1 /\ m > n
    <3>1. stack'[n + 1].own = <<>>
      BY <1>h, <2>3
    <3>2. DOMAIN stack'[n + 1].own = {}
      BY <3>1
    <3> QED
      BY <2>3, <3>2 DEF HasLocal
  <2> QED
    BY <1>4, <2>1, <2>2, <2>3
<1>10. \A i, k : HasLocal(stack, i, k) => HasLocal(stack', i, k) /\ stack'[i].own[k] = stack[i].own[k]
  <2> SUFFICES ASSUME NEW i \in 1 .. n, NEW k, HasLocal(stack, i, k)
               PROVE  HasLocal(stack', i, k) /\ stack'[i].own[k] = stack[i].own[k]
    BY <1>1 DEF HasLocal
  <2>1. CASE i \in 1 .. n - 1
    BY <1>1, <1>3, <1>6, <2>1 DEF HasLocal
  <2>2. CASE i = n /\ m >= n
    <3>1. stack'[n].own = stack[n].own /\ n \in DOMAIN stack'
      BY <1>1, <1>2, <1>h, <2>2
    <3> QED
      BY <2>2, <3>1 DEF HasLocal
  <2>3. CASE i = n /\ ~(m >= n)
    <3>1. stack[n].own = <<>>
      BY <1>1, <1>2, <1>h, <2>3, <1>c
    <3>2. DOMAIN stack[n].own = {}
      BY <3>1
    <3> QED
      BY <2>3, <3>2 DEF HasLocal
  <2> QED
    BY <1>5, <2>1, <2>2, <2>3
<1> QED
  BY <1>8, <1>9, <1>10 DEF Quiet

LEMMA QuietReturn ==
  ASSUME ParserInv, stack # <<>>, FramesInv, Top.at \notin Locals, stack' = Below
  PROVE  Quiet
<1>1. Top.own = <<>> /\ Top.at # "trail" /\ Len(stack) \in Nat \ {0}
  BY NoLocals, StackBase DEF Locals
<1>2. DOMAIN stack' = 1 .. Len(stack) - 1 /\ \A i \in 1 .. Len(stack) - 1 : stack'[i] = stack[i]
  BY StackIs
<1>3. \A i \in DOMAIN stack' : ~(i >= Len(stack))
  BY <1>1, <1>2
<1> QED
  BY <1>1, <1>2, <1>3, QuietBy

LEMMA QuietGoOn ==
  ASSUME ParserInv, stack # <<>>, FramesInv, Top.at \notin Locals,
         NEW f, GoOn(f), f.own = <<>>, f.at # "trail"
  PROVE  Quiet
<1> DEFINE n == Len(stack)
<1>1. Top.own = <<>> /\ Top.at # "trail" /\ n \in Nat \ {0}
  BY NoLocals, StackBase DEF Locals
<1>2. /\ DOMAIN stack' = 1 .. n /\ stack'[n] = f
      /\ \A i \in 1 .. n : i < n => stack'[i] = stack[i]
  BY StackIs
<1> HIDE DEF n
<1>3. \A i \in 1 .. n - 1 : stack'[i] = stack[i]
  BY <1>1, <1>2
<1>4. \A i \in DOMAIN stack' : i >= n => stack'[i].at # "trail"
  BY <1>1, <1>2
<1>5. n < n + 1 /\ ~(n < n) /\ ~(n > n)
  BY <1>1
<1> QED
  BY <1>1, <1>2, <1>3, <1>4, <1>5, QuietBy DEF n

LEMMA QuietCall ==
  ASSUME ParserInv, stack # <<>>, Top.at # "trail",
         NEW f, NEW g, Call(f, g), f.own = Top.own, g.own = <<>>, f.at # "trail", g.at # "trail"
  PROVE  Quiet
<1> DEFINE n == Len(stack)
<1>1. n \in Nat \ {0}
  BY StackBase
<1>2. /\ DOMAIN stack' = 1 .. n + 1 /\ stack'[n] = f /\ stack'[n + 1] = g
      /\ \A i \in 1 .. n : i < n => stack'[i] = stack[i]
  BY StackIs
<1> HIDE DEF n
<1>3. \A i \in 1 .. n - 1 : stack'[i] = stack[i]
  BY <1>1, <1>2
<1>4. \A i \in 1 .. n + 1 : i >= n => i = n \/ i = n + 1
  BY <1>1
<1>5. \A i \in DOMAIN stack' : i >= n => stack'[i].at # "trail"
  BY <1>2, <1>4
<1>6. ~(n + 1 < n)
  BY <1>1
<1> QED
  BY <1>1, <1>2, <1>3, <1>5, <1>6, QuietBy DEF n

-----------------------------------------------------------------------------
(* The texts consumed. *)

LEMMA Consumed ==
  ASSUME ParserInv, tokens' = tokens, NEW used \in 0 .. 2, pos' = pos + used,
         used >= 1 => Cur # "END",
         used = 2 => Peek \notin {"IDENT", "NUM", "END"}
  PROVE  TextsOf(tokens', pos') = TextsOf(tokens, pos)
           \union (IF used >= 1 /\ Cur \in {"IDENT", "NUM"} THEN {pos + 1} ELSE {})
<1>1. pos \in Nat /\ pos' \in Nat
  BY Tokens_
<1>2. (used >= 1 => Cur = tokens[pos + 1]) /\ (used = 2 => Peek = tokens[pos + 2])
  BY DEF Cur, Peek
<1>3. \A i \in 1 .. pos' : i \in 1 .. pos \/ (used >= 1 /\ i = pos + 1) \/ (used = 2 /\ i = pos + 2)
  BY <1>1
<1>4. \A i \in 1 .. pos : i \in 1 .. pos'
  BY <1>1
<1>5. used >= 1 => pos + 1 \in 1 .. pos'
  BY <1>1
<1>6. \A i \in TextsOf(tokens', pos') : \/ i \in TextsOf(tokens, pos)
                                        \/ used >= 1 /\ Cur \in {"IDENT", "NUM"} /\ i = pos + 1
  <2> SUFFICES ASSUME NEW i \in 1 .. pos', tokens[i] \in {"IDENT", "NUM"}
               PROVE  \/ i \in TextsOf(tokens, pos)
                      \/ used >= 1 /\ Cur \in {"IDENT", "NUM"} /\ i = pos + 1
    <3>1. \A i \in TextsOf(tokens', pos') : i \in 1 .. pos' /\ tokens[i] \in {"IDENT", "NUM"}
      BY DEF TextsOf
    <3> QED
      BY <3>1
  <2>1. CASE i \in 1 .. pos
    BY <2>1 DEF TextsOf
  <2>2. CASE used >= 1 /\ i = pos + 1
    BY <1>2, <2>2
  <2>3. CASE used = 2 /\ i = pos + 2
    BY <1>2, <2>3
  <2> QED
    BY <1>3, <2>1, <2>2, <2>3
<1>7. TextsOf(tokens, pos) \subseteq TextsOf(tokens', pos')
  BY <1>4 DEF TextsOf
<1>8. used >= 1 /\ Cur \in {"IDENT", "NUM"} => pos + 1 \in TextsOf(tokens', pos')
  BY <1>2, <1>5 DEF TextsOf
<1> QED
  BY <1>6, <1>7, <1>8

-----------------------------------------------------------------------------
(* The steps that are quiet, by how they end and by what they write. *)

LEMMA ReturnNodes ==
  ASSUME ParserInv, stack # <<>>, NodesInv, Top.at \notin Locals, stack' = Below,
         NEW x, Writes(x, 0), Fields(heap[Top.tree], x, 0), Holds(heap[Top.tree], x)
  PROVE  NodesInv'
<1>1. Local /\ Quiet /\ Top.at # "trail"
  BY WritesIs, QuietReturn DEF Written, NodesInv, Locals
<1>2. FramesInv'
  BY <1>1, ReturnFrames DEF NodesInv
<1>3. OwnedOnce' /\ HeldOnce'
  BY <1>1, OwnedStep, HeldStep DEF Quiet
<1> QED
  BY <1>2, <1>3 DEF NodesInv

LEMMA GoOnNodes ==
  ASSUME ParserInv, stack # <<>>, NodesInv, Top.at \notin Locals, NEW f, GoOn(f),
         NEW x, NEW k0, Writes(x, k0), Fields(heap[Top.tree], x, k0), Holds(heap[Top.tree], x),
         f.at \in Working, f.tree \in {Top.tree, New1}, f.own = <<>>, Begins(heap', f, AtClose')
  PROVE  NodesInv'
<1>1. Local /\ Quiet /\ Top.at # "trail" /\ f.tree \in Near
  <2>1. f.at # "trail"
    BY DEF Working, Entry
  <2> QED
    BY <2>1, WritesIs, QuietGoOn DEF Written, NodesInv, Locals, Near
<1>2. FramesInv'
  BY <1>1, GoOnFrames DEF NodesInv
<1>3. OwnedOnce' /\ HeldOnce'
  BY <1>1, OwnedStep, HeldStep DEF Quiet
<1> QED
  BY <1>2, <1>3 DEF NodesInv

LEMMA CallNodes ==
  ASSUME ParserInv, stack # <<>>, NodesInv, Top.at \notin Locals, NEW f, NEW g, Call(f, g),
         NEW x, NEW k0, Writes(x, k0), Fields(heap[Top.tree], x, k0), Holds(heap[Top.tree], x),
         f.tree = Top.tree, f.own = Top.own, f.at \notin Working, f.at \notin Locals,
         Waits(heap', f), f.at \in Holding => g.tree # Top.tree,
         g.at \in Working, g.tree \in {Top.tree, New1}, g.own = <<>>, Begins(heap', g, AtClose')
  PROVE  NodesInv'
<1>1. Local /\ Quiet /\ Top.at # "trail" /\ f.tree \in Near /\ g.tree \in Near
  <2>1. f.at # "trail" /\ g.at # "trail" /\ Top.at # "trail"
    BY DEF Working, Entry, Locals
  <2> QED
    BY <2>1, WritesIs, QuietCall DEF Written, NodesInv, Near
<1>2. FramesInv'
  <2>1. \A k \in DOMAIN f.own : f.own[k] \in Near /\ f.own[k] # f.tree
    <3>1. DOMAIN f.own = {}
      <4>1. f.own = <<>>
        BY NoLocals DEF NodesInv
      <4> QED
        BY <4>1
    <3> QED
      BY <3>1
  <2>2. (f.at \in Holding => g.tree # f.tree) /\ FramesInv
    BY DEF NodesInv
  <2> QED
    BY <1>1, <2>1, <2>2, CallFrames
<1>3. OwnedOnce' /\ HeldOnce'
  BY <1>1, OwnedStep, HeldStep DEF Quiet
<1> QED
  BY <1>2, <1>3 DEF NodesInv

LEMMA HeapSame ==
  ASSUME ParserInv, stack # <<>>, heap' = heap
  PROVE  Writes(heap[Top.tree], 0) /\ Fields(heap[Top.tree], heap[Top.tree], 0)
<1>1. heap = [m \in DOMAIN heap |-> heap[m]]
  BY DEF ParserInv
<1>2. heap' = Write(Top.tree, heap[Top.tree])
  BY <1>1 DEF Write
<1> QED
  BY <1>2 DEF Writes, Fields

(* The tokens a step consumes, unless it is an IDENT or a NUM. *)
Skips ==
  /\ tokens' = tokens
  /\ \E used \in 0 .. 2 :
       /\ pos' = pos + used
       /\ used >= 1 => Cur \notin {"IDENT", "NUM", "END"}
       /\ used = 2 => Peek \notin {"IDENT", "NUM", "END"}

(* ... and if it is one. *)
Takes ==
  /\ tokens' = tokens /\ Cur \in {"IDENT", "NUM"}
  /\ \/ pos' = pos + 1
     \/ pos' = pos + 2 /\ Peek \notin {"IDENT", "NUM", "END"}

LEMMA HoldsIf ==
  ASSUME ParserInv, NEW x, NEW y
  PROVE  /\ Skips /\ y.held = x.held => Holds(x, y)
         /\ Takes /\ x.held = 0 /\ y.held = pos + 1 => Holds(x, y)
<1>1. ASSUME Skips PROVE TextsOf(tokens', pos') = TextsOf(tokens, pos)
  <2>1. PICK used \in 0 .. 2 :
          /\ pos' = pos + used
          /\ used >= 1 => Cur \notin {"IDENT", "NUM", "END"}
          /\ used = 2 => Peek \notin {"IDENT", "NUM", "END"}
    BY <1>1 DEF Skips
  <2>2. tokens' = tokens
    BY <1>1 DEF Skips
  <2> QED
    BY <2>1, <2>2, Consumed
<1>2. ASSUME Takes PROVE TextsOf(tokens', pos') = TextsOf(tokens, pos) \union {pos + 1}
  <2>1. tokens' = tokens /\ Cur \in {"IDENT", "NUM"} /\ Cur # "END"
    BY <1>2 DEF Takes
  <2>2. CASE pos' = pos + 1
    BY <2>1, <2>2, Consumed
  <2>3. CASE pos' = pos + 2 /\ Peek \notin {"IDENT", "NUM", "END"}
    BY <2>1, <2>3, Consumed
  <2> QED
    BY <1>2, <2>2, <2>3 DEF Takes
<1> QED
  BY <1>1, <1>2 DEF Holds

LEMMA ReturnSame ==
  ASSUME ParserInv, stack # <<>>, NodesInv, Top.at \notin Locals, stack' = Below,
         heap' = heap, Skips
  PROVE  NodesInv'
  BY HeapSame, HoldsIf, ReturnNodes

LEMMA ResumeIs ==
  ASSUME ParserInv, stack # <<>>, NEW label
  PROVE  LET f == Resume(label) IN
         /\ f.at = label /\ f.tree = Top.tree /\ f.own = Top.own /\ f.num = Top.num
<1>1. Top \in Frames(Len(heap))
  BY TopTyped DEF GoodFrames
<1> QED
  BY <1>1 DEF Resume, Frames

LEMMA FrameIs ==
  ASSUME NEW at, NEW tree
  PROVE  LET f == Frame(at, tree) IN f.at = at /\ f.tree = tree /\ f.own = <<>> /\ f.num = 0
  BY DEF Frame

LEMMA TopBegins ==
  ASSUME stack # <<>>, NodesInv
  PROVE  /\ Top.at \in Entry => heap[Top.tree].kids = <<>> /\ heap[Top.tree].held = 0
         /\ Top.at = "stmts" /\ ~AtClose =>
              heap[Top.tree].held = 0 /\ \A k \in DOMAIN heap[Top.tree].kids : heap[Top.tree].kids[k] = Wild
         /\ Top.at = "assign" =>
              /\ Len(heap[Top.tree].kids) = 2 /\ heap[Top.tree].held = 0
              /\ \A k \in DOMAIN heap[Top.tree].kids : heap[Top.tree].kids[k] = Wild
  BY DEF NodesInv, FramesInv, Begins, Blank

LEMMA TopWaits ==
  ASSUME ParserInv, stack # <<>>, NodesInv
  PROVE  Waits(heap, Top)
  BY StackBase DEF NodesInv, FramesInv

(* The function gives its node to the one it calls. *)
LEMMA CallSame ==
  ASSUME ParserInv, stack # <<>>, NodesInv, Top.at \in Entry,
         NEW label, label \notin Working \union Holding, NEW at \in Entry,
         Call(Resume(label), Frame(at, Top.tree)), heap' = heap, Skips
  PROVE  NodesInv'
<1> DEFINE f == Resume(label)
           g == Frame(at, Top.tree)
<1>1. f.at = label /\ f.tree = Top.tree /\ f.own = Top.own
  BY ResumeIs
<1>2. g.at = at /\ g.tree = Top.tree /\ g.own = <<>>
  BY FrameIs
<1>3. Top.at \notin Locals /\ label \notin Locals /\ at \notin {"stmts", "assign"} /\ at \in Working
  BY DEF Entry, Working, Holding, Locals
<1>4. Top.own = <<>>
  BY <1>3, NoLocals DEF NodesInv
<1> HIDE DEF f, g
<1>5. Waits(heap', f)
  BY <1>1, <1>4 DEF Waits, Holding
<1>6. Begins(heap', g, AtClose')
  BY <1>2, <1>3, TopBegins DEF Begins, Blank
<1>7. Call(f, g)
  BY DEF f, g
<1> QED
  BY <1>1, <1>2, <1>3, <1>5, <1>6, <1>7, HeapSame, HoldsIf, CallNodes

(* The function calls one to fill the node it has just allocated. *)
LEMMA CallNew ==
  ASSUME ParserInv, stack # <<>>, NodesInv, Top.at \notin Locals, NEW f,
         f.tree = Top.tree, f.own = Top.own, f.at \notin Working, f.at \notin Locals, Waits(heap', f),
         NEW at \in Entry, Call(f, Frame(at, New1)),
         NEW x, NEW k0 \in 1 .. 4, heap' = Append(Write(Top.tree, x), Fresh),
         Fields(heap[Top.tree], x, k0), Holds(heap[Top.tree], x)
  PROVE  NodesInv'
<1> DEFINE g == Frame(at, New1)
<1>1. g.at = at /\ g.tree = New1 /\ g.own = <<>>
      /\ at \notin {"stmts", "assign"} /\ at \in Working
  BY FrameIs DEF Entry, Working
<1>2. Writes(x, k0) /\ k0 # 0
  BY DEF Writes
<1>3. Written(x, k0)
  BY <1>2, WritesIs
<1>4. New1 # Top.tree /\ heap'[New1] = Fresh
  BY <1>2, <1>3 DEF Written
<1> HIDE DEF g
<1>5. Begins(heap', g, AtClose')
  BY <1>1, <1>4, FreshIs DEF Begins, Blank
<1>6. Call(f, g)
  BY DEF g
<1> QED
  BY <1>1, <1>2, <1>4, <1>5, <1>6, CallNodes

(* What a node's fields come to. *)
LEMMA NodeIs ==
  ASSUME NEW type, NEW held, NEW code, NEW kids
  PROVE  LET x == Node(type, held, code, kids) IN x.held = held /\ x.kids = kids
  BY DEF Node

LEMMA FieldsNew ==
  ASSUME NEW x, NEW y, \A k \in DOMAIN x.kids : ~(x.kids[k] > 0),
         NEW k0 \in 1 .. 4, k0 \in DOMAIN y.kids, y.kids[k0] = New1, New1 > 0,
         \A k \in DOMAIN y.kids : k # k0 => ~(y.kids[k] > 0)
  PROVE  Fields(x, y, k0)
  BY DEF Fields, Points

LEMMA FieldsNone ==
  ASSUME NEW x, NEW y, \A k \in DOMAIN x.kids : ~(x.kids[k] > 0),
         \A k \in DOMAIN y.kids : ~(y.kids[k] > 0)
  PROVE  Fields(x, y, 0)
  BY DEF Fields, Points

LEMMA FieldsKid ==
  ASSUME NEW x, NEW y, NEW k0 \in 1 .. 4, k0 \in DOMAIN x.kids, ~(x.kids[k0] > 0),
         NEW v, y.kids = [x.kids EXCEPT ![k0] = v]
  PROVE  /\ v = New1 /\ v > 0 => Fields(x, y, k0)
         /\ ~(v > 0) => Fields(x, y, 0)
<1>1. /\ DOMAIN y.kids = DOMAIN x.kids /\ y.kids[k0] = v
      /\ \A k \in DOMAIN x.kids : k # k0 => y.kids[k] = x.kids[k]
  OBVIOUS
<1> QED
  BY <1>1 DEF Fields, Points

LEMMA FieldsSame ==
  ASSUME NEW x, NEW y, y.kids = x.kids
  PROVE  Fields(x, y, 0)
  BY DEF Fields, Points

LEMMA WithHeldIs ==
  ASSUME NEW m, NEW x \in Nodes(m), NEW v
  PROVE  WithHeld(x, v).held = v /\ WithHeld(x, v).kids = x.kids
  BY DEF Nodes, WithHeld

LEMMA WithKidIs ==
  ASSUME NEW m, NEW x \in Nodes(m), NEW k, NEW v
  PROVE  /\ WithKid(x, k, v).held = x.held
         /\ WithKid(x, k, v).kids = [x.kids EXCEPT ![k] = v]
  BY DEF Nodes, WithKid

-----------------------------------------------------------------------------
(* NodesInv is inductive. *)

(* A step that leaves the position alone, or takes one other token. *)
LEMMA SkipsIf ==
  ASSUME ParserInv, tokens' = tokens
  PROVE  /\ pos' = pos => Skips
         /\ Cur \notin {"IDENT", "NUM", "END"} /\ pos' = pos + 1 => Skips
  BY Tokens_ DEF Skips

LEMMA SmallAtomNodes ==
  ASSUME ParserInv, NodesInv, SmallAtomStep
  PROVE  NodesInv'
<1>1. CASE SmallAtomLeaf
  <2>1. stack # <<>> /\ Top.at = "small_atom" /\ Top.at \in Entry /\ Top.at \notin Locals
    BY <1>1 DEF SmallAtomLeaf, At, Entry, Locals
  <2>2. PICK type : heap' = Write(Top.tree, Node(type, pos + 1, Unset, <<>>))
    BY <1>1 DEF SmallAtomLeaf
  <2> DEFINE x == Node(type, pos + 1, Unset, <<>>)
  <2>3. x.held = pos + 1 /\ x.kids = <<>>
    BY NodeIs
  <2> HIDE DEF x
  <2>4. Writes(x, 0)
    BY <2>2 DEF Writes, x
  <2>5. heap[Top.tree].kids = <<>> /\ heap[Top.tree].held = 0
    BY <2>1, TopBegins
  <2>6. Fields(heap[Top.tree], x, 0)
    BY <2>3, <2>5, FieldsSame
  <2>7. Takes /\ stack' = Below
    BY <1>1 DEF SmallAtomLeaf, Takes, Advance, Return
  <2>8. Holds(heap[Top.tree], x)
    BY <2>3, <2>5, <2>7, HoldsIf
  <2> QED
    BY <2>1, <2>4, <2>6, <2>7, <2>8, ReturnNodes
<1>2. CASE SmallAtomParen
  <2>1. stack # <<>> /\ Top.at \in Entry
    BY <1>2 DEF SmallAtomParen, At, Entry
  <2>2. /\ Call(Resume("paren"), Frame("expr", Top.tree)) /\ heap' = heap
        /\ tokens' = tokens /\ Cur = "LPAREN" /\ pos' = pos + 1
    BY <1>2 DEF SmallAtomParen, Call, Advance
  <2>3. "paren" \notin Working \union Holding /\ "expr" \in Entry
    BY DEF Working, Holding, Entry
  <2> QED
    BY <2>1, <2>2, <2>3, SkipsIf, CallSame
<1>3. CASE ParenEnd
  <2>1. stack # <<>> /\ Top.at \notin Locals
    BY <1>3 DEF ParenEnd, At, Locals
  <2>2. stack' = Below /\ heap' = heap /\ tokens' = tokens
    BY <1>3 DEF ParenEnd, Return
  <2>3. Skips
    <3>1. CASE ret /\ Cur = "RPAREN"
      BY <1>3, <2>2, <3>1, SkipsIf DEF ParenEnd, Advance
    <3>2. CASE ~(ret /\ Cur = "RPAREN")
      BY <1>3, <2>2, <3>2, SkipsIf, Tokens_ DEF ParenEnd, Advance
    <3> QED
      BY <3>1, <3>2
  <2> QED
    BY <2>1, <2>2, <2>3, ReturnSame
<1>4. CASE SmallAtomPrefix
  <2>1. stack # <<>> /\ Top.at = "small_atom" /\ Top.at \in Entry /\ Top.at \notin Locals
    BY <1>4 DEF SmallAtomPrefix, At, Entry, Locals
  <2>2. PICK type : heap' = Append(Write(Top.tree, Node(type, 0, Unset, <<New1>>)), Fresh)
    BY <1>4 DEF SmallAtomPrefix
  <2> DEFINE x == Node(type, 0, Unset, <<New1>>)
             f == Resume("prefix")
  <2>3. x.held = 0 /\ x.kids = <<New1>>
    BY NodeIs
  <2>4. f.at = "prefix" /\ f.tree = Top.tree /\ f.own = Top.own
    BY <2>1, ResumeIs
  <2>5. heap' = Append(Write(Top.tree, x), Fresh) /\ Call(f, Frame("atom", New1))
    BY <1>4, <2>2 DEF SmallAtomPrefix
  <2> HIDE DEF x, f
  <2>6. heap[Top.tree].kids = <<>> /\ heap[Top.tree].held = 0
    BY <2>1, TopBegins
  <2>7. Fields(heap[Top.tree], x, 1)
    <3>1. New1 > 0
      BY Tokens_ DEF New1
    <3> QED
      BY <2>3, <2>6, <3>1, FieldsNew
  <2>8. Skips
    BY <1>4, SkipsIf DEF SmallAtomPrefix, PrefixBegins, Advance, Call
  <2>9. Holds(heap[Top.tree], x)
    BY <2>3, <2>6, <2>8, HoldsIf
  <2>10. Waits(heap', f) /\ f.at \notin Working /\ f.at \notin Locals /\ "atom" \in Entry
    <3>1. f.own = <<>>
      BY <2>1, <2>4, NoLocals DEF NodesInv
    <3> QED
      BY <2>4, <3>1 DEF Waits, Working, Entry, Locals
  <2> QED
    BY <2>1, <2>4, <2>5, <2>7, <2>9, <2>10, CallNew
<1>5. CASE PrefixEnd
  <2>1. stack # <<>> /\ Top.at \notin Locals
    BY <1>5 DEF PrefixEnd, At, Locals
  <2> QED
    BY <1>5, <2>1, SkipsIf, ReturnSame DEF PrefixEnd, Return
<1>6. CASE SmallAtomFail
  <2>1. stack # <<>> /\ Top.at \notin Locals
    BY <1>6 DEF SmallAtomFail, At, Locals
  <2> QED
    BY <1>6, <2>1, SkipsIf, ReturnSame DEF SmallAtomFail, Return
<1> QED
  BY <1>1, <1>2, <1>3, <1>4, <1>5, <1>6 DEF SmallAtomStep

(* Begin: the node of a statement. *)
LEMMA BeginNodes ==
  ASSUME ParserInv, NodesInv, stack # <<>>, Top.at = "stmt", Cur \notin {"IDENT", "NUM", "END"},
         NEW type, NEW code, NEW kids, NEW label, NEW part \in Entry,
         Begin(type, code, kids, label, part),
         1 \in DOMAIN kids, kids[1] = New1, \A k \in DOMAIN kids : k # 1 => kids[k] = Wild,
         label \notin Working \union Locals, label = "if_cond" => Len(kids) = 3,
         label = "for" => Len(kids) = 4, label \notin {"let_name", "stmts_next"}, kids \in Seq(Int)
  PROVE  NodesInv'
<1> DEFINE x == Node(type, 0, code, kids)
           f == Resume(label)
<1>1. x.held = 0 /\ x.kids = kids
  BY NodeIs
<1>2. f.at = label /\ f.tree = Top.tree /\ f.own = Top.own /\ f.num = Top.num
  BY ResumeIs
<1>3. /\ heap' = Append(Write(Top.tree, x), Fresh) /\ Call(f, Frame(part, New1))
      /\ pos' = pos + 1 /\ tokens' = tokens
  BY DEF Begin, Call, Advance
<1> HIDE DEF x, f
<1>4. heap[Top.tree].kids = <<>> /\ heap[Top.tree].held = 0 /\ Top.at \notin Locals
  BY TopBegins DEF Entry, Locals
<1>5. Fields(heap[Top.tree], x, 1)
  <2>1. New1 > 0
    BY Tokens_ DEF New1
  <2>2. \A k \in DOMAIN x.kids : k # 1 => ~(x.kids[k] > 0)
    BY <1>1 DEF Wild
  <2> QED
    BY <1>1, <1>4, <2>1, <2>2, FieldsNew
<1>6. Holds(heap[Top.tree], x)
  BY <1>1, <1>3, <1>4, SkipsIf, HoldsIf
<1>7. f.own = <<>>
  BY <1>2, <1>4, NoLocals DEF NodesInv
<1>8. heap'[Top.tree] = x
  <2>1. Writes(x, 1)
    BY <1>3 DEF Writes
  <2> QED
    BY <2>1, WritesIs DEF Written
<1>9. Waits(heap', f)
  <2>1. heap'[f.tree] = x /\ x.kids = kids /\ x.held = 0 /\ DOMAIN kids = 1 .. Len(kids)
    BY <1>1, <1>2, <1>8
  <2>2. label = "if_cond" => 2 \in DOMAIN kids
    BY <2>1
  <2>3. label = "for" => \A k \in f.num + 2 .. 4 : k \in DOMAIN kids /\ k # 1
    BY <1>2, <2>1, TopTyped
  <2> QED
    BY <1>2, <1>7, <2>1, <2>2, <2>3, SMTT(30) DEF Waits
<1>10. f.at \notin Working /\ f.at \notin Locals
  BY <1>2
<1> QED
  BY <1>2, <1>3, <1>4, <1>5, <1>6, <1>9, <1>10, CallNew

LEMMA StatementNodes ==
  ASSUME ParserInv, NodesInv, StatementStep
  PROVE  NodesInv'
<1> DEFINE n == Len(heap)
<1>o. PICK old : old = heap[Top.tree]
  OBVIOUS
<1>a. stack # <<>>
  BY DEF StatementStep, PassOn, StmtLet, Assignment, LetDeclares, LetValue, LetFail, StmtReturn,
     StmtIf, IfValue, StmtFor, ForPart, ForEnd, StmtFail, StmtAssign, StmtExpression, StmtEnd, At
<1>b. old \in Nodes(n) /\ n \in Nat /\ New1 > 0 /\ Top.tree \in 1 .. n
  BY <1>a, <1>o, TopTyped, Tokens_ DEF New1
<1>c. Waits(heap, Top)
  BY <1>a, TopWaits
<1>1. CASE StmtLet
  <2> DEFINE f == Resume("tail")
             g == Frame("assign", Top.tree)
  <2>1. PICK x : heap' = Write(Top.tree, x) /\ x.held = 0 /\ x.kids = <<Wild, Wild>>
    <3>1. PICK code : heap' = Write(Top.tree, Node("STMT_ASSIGNMENT", 0, code, <<Wild, Wild>>))
      BY <1>1 DEF StmtLet
    <3> QED
      BY <3>1, NodeIs
  <2>2. Top.at = "stmt" /\ Top.at \in Entry /\ Top.at \notin Locals /\ Call(f, g) /\ Skips
    BY <1>1, SkipsIf DEF StmtLet, At, Entry, Locals, Advance, Call
  <2>3. /\ f.at = "tail" /\ f.tree = Top.tree /\ f.own = Top.own
        /\ g.at = "assign" /\ g.tree = Top.tree /\ g.own = <<>>
    BY <1>a, ResumeIs, FrameIs
  <2> HIDE DEF f, g
  <2>4. old.kids = <<>> /\ old.held = 0 /\ Top.own = <<>>
    BY <1>a, <1>o, <2>2, TopBegins, NoLocals DEF NodesInv
  <2>5. Len(x.kids) = 2 /\ \A k \in DOMAIN x.kids : x.kids[k] = Wild /\ ~(x.kids[k] > 0)
    BY <2>1 DEF Wild
  <2>6. Fields(old, x, 0) /\ Holds(old, x) /\ Writes(x, 0)
    <3>1. \A k \in DOMAIN old.kids : ~(old.kids[k] > 0)
      BY <2>4
    <3> QED
      BY <2>1, <2>2, <2>4, <2>5, <3>1, FieldsNone, HoldsIf DEF Writes
  <2>7. heap'[Top.tree] = x
    BY <1>a, <2>6, WritesIs DEF Written
  <2>8. Begins(heap', g, AtClose') /\ g.at \in Working
    BY <2>1, <2>3, <2>5, <2>7 DEF Begins, Entry, Working
  <2>9. Waits(heap', f) /\ f.at \notin Working \union Holding \union Locals
    BY <2>3, <2>4 DEF Waits, Working, Entry, Holding, Locals
  <2> QED
    BY <1>a, <1>o, <2>2, <2>3, <2>6, <2>8, <2>9, CallNodes
<1>2. CASE LetDeclares
  <2> DEFINE x == WithHeld(old, pos + 1)
  <2>1. Writes(x, 0)
    BY <1>2, <1>o DEF LetDeclares, Write, WithHeld, Writes
  <2>2. Top.at \notin Locals /\ old.held = 0
    BY <1>2, <1>c, <1>o DEF LetDeclares, At, Locals, Waits
  <2>3. Takes /\ stack' = Below
    BY <1>2 DEF LetDeclares, Takes, Return, Advance
  <2>4. x.held = pos + 1 /\ x.kids = old.kids
    BY <1>b, WithHeldIs
  <2> HIDE DEF x
  <2>5. Holds(old, x) /\ Fields(old, x, 0)
    BY <2>2, <2>3, <2>4, HoldsIf, FieldsSame
  <2> QED
    BY <1>a, <1>o, <2>1, <2>2, <2>3, <2>5, ReturnNodes
<1>3. CASE LetValue
  <2> DEFINE y == WithHeld(old, pos + 1)
             x == WithKid(y, 2, New1)
             f == Resume("stmt_end")
  <2>1. heap' = Append(Write(Top.tree, x), Fresh)
    BY <1>3, <1>o, <1>b DEF LetValue, Write, Nodes, WithHeld, WithKid
  <2>2. Top.at \notin Locals /\ old.held = 0 /\ Len(old.kids) = 2 /\ old.kids[2] = Wild
    BY <1>3, <1>c, <1>o DEF LetValue, At, Locals, Waits
  <2>3. Takes /\ Call(f, Frame("expr", New1))
    BY <1>3 DEF LetValue, Takes, Call, Advance
  <2>4. x.held = pos + 1 /\ x.kids = [old.kids EXCEPT ![2] = New1]
    BY <1>b DEF WithHeld, WithKid, Nodes
  <2>5. f.at = "stmt_end" /\ f.tree = Top.tree /\ f.own = Top.own
    BY <1>a, ResumeIs
  <2> HIDE DEF x, y, f
  <2>6. Fields(old, x, 2)
    <3>1. 2 \in DOMAIN old.kids
      BY <1>b, <2>2 DEF Nodes
    <3>2. ~(old.kids[2] > 0)
      BY <2>2 DEF Wild
    <3> QED
      BY <1>b, <2>4, <3>1, <3>2, FieldsKid
  <2>7. Holds(old, x)
    BY <2>2, <2>3, <2>4, HoldsIf
  <2>8. Waits(heap', f) /\ f.at \notin Working /\ f.at \notin Locals /\ "expr" \in Entry
    <3>1. f.own = <<>>
      BY <1>a, <2>2, <2>5, NoLocals DEF NodesInv
    <3> QED
      BY <2>5, <3>1 DEF Waits, Working, Entry, Locals
  <2> QED
    BY <1>a, <1>o, <2>1, <2>2, <2>3, <2>5, <2>6, <2>7, <2>8, CallNew
<1>4. CASE LetFail
  <2>1. Top.at \notin Locals /\ old.held = 0 /\ stack' = Below /\ tokens' = tokens
    BY <1>4, <1>c, <1>o DEF LetFail, At, Locals, Waits, Return
  <2>2. CASE Cur = "IDENT"
    <3> DEFINE x == WithHeld(old, pos + 1)
    <3>1. Writes(x, 0)
      BY <1>4, <1>o, <2>2 DEF LetFail, Write, WithHeld, Writes
    <3>2. Takes
      BY <1>4, <2>1, <2>2 DEF LetFail, Takes, Advance
    <3>3. x.held = pos + 1 /\ x.kids = old.kids
      BY <1>b, WithHeldIs
    <3> HIDE DEF x
    <3>4. Holds(old, x) /\ Fields(old, x, 0)
      BY <2>1, <3>2, <3>3, HoldsIf, FieldsSame
    <3> QED
      BY <1>a, <1>o, <2>1, <3>1, <3>4, ReturnNodes
  <2>3. CASE Cur # "IDENT"
    <3>1. heap' = heap /\ pos' = pos
      BY <1>4, <2>3 DEF LetFail
    <3> QED
      BY <1>a, <2>1, <3>1, SkipsIf, ReturnSame
  <2> QED
    BY <2>2, <2>3
<1>5. CASE StmtReturn
  <2>1. Begin("STMT_RETURN", Unset, <<New1>>, "stmt_end", "expr")
    BY <1>5 DEF StmtReturn
  <2>2. Top.at = "stmt" /\ Cur \notin {"IDENT", "NUM", "END"}
    BY <1>5 DEF StmtReturn, At
  <2>3. /\ 1 \in DOMAIN <<New1>> /\ <<New1>>[1] = New1
        /\ \A k \in DOMAIN <<New1>> : k # 1 => <<New1>>[k] = Wild
        /\ <<New1>> \in Seq(Int)
    BY <1>b DEF New1
  <2>4. "stmt_end" \notin Working \union Locals /\ "expr" \in Entry
    BY DEF Working, Locals, Entry
  <2> QED
    BY <1>a, <2>1, <2>2, <2>3, <2>4, BeginNodes
<1>6. CASE StmtIf
  <2> DEFINE kids == <<New1, Wild, Wild>>
  <2>1. Begin("IFS", Unset, kids, "if_cond", "expr")
    BY <1>6 DEF StmtIf
  <2>2. Top.at = "stmt" /\ Cur \notin {"IDENT", "NUM", "END"}
    BY <1>6 DEF StmtIf, At
  <2>3. /\ 1 \in DOMAIN kids /\ kids[1] = New1 /\ Len(kids) = 3
        /\ \A k \in DOMAIN kids : k # 1 => kids[k] = Wild
        /\ kids \in Seq(Int)
    BY <1>b DEF New1, Wild
  <2>4. "if_cond" \notin Working \union Locals /\ "expr" \in Entry
    BY DEF Working, Locals, Entry
  <2> HIDE DEF kids
  <2> QED
    BY <1>a, <2>1, <2>2, <2>3, <2>4, BeginNodes
<1>7. CASE IfValue
  <2> DEFINE x == WithKid(old, 2, New1)
             f == Resume("tail")
  <2>1. heap' = Append(Write(Top.tree, x), Fresh)
    BY <1>7, <1>o DEF IfValue, Write, WithKid
  <2>2. Top.at \notin Locals /\ Len(old.kids) = 3 /\ old.kids[2] = Wild
    BY <1>7, <1>c, <1>o DEF IfValue, At, Locals, Waits
  <2>3. Skips /\ Call(f, Frame("block", New1))
    BY <1>7, SkipsIf DEF IfValue, Call
  <2>4. x.held = old.held /\ x.kids = [old.kids EXCEPT ![2] = New1]
    BY <1>b DEF WithKid, Nodes
  <2>5. f.at = "tail" /\ f.tree = Top.tree /\ f.own = Top.own
    BY <1>a, ResumeIs
  <2> HIDE DEF x, f
  <2>6. Fields(old, x, 2)
    <3>1. 2 \in DOMAIN old.kids
      BY <1>b, <2>2 DEF Nodes
    <3>2. ~(old.kids[2] > 0)
      BY <2>2 DEF Wild
    <3> QED
      BY <1>b, <2>4, <3>1, <3>2, FieldsKid
  <2>7. Holds(old, x)
    BY <2>3, <2>4, HoldsIf
  <2>8. Waits(heap', f) /\ f.at \notin Working /\ f.at \notin Locals /\ "block" \in Entry
    <3>1. f.own = <<>>
      BY <1>a, <2>2, <2>5, NoLocals DEF NodesInv
    <3> QED
      BY <2>5, <3>1 DEF Waits, Working, Entry, Locals
  <2> QED
    BY <1>a, <1>o, <2>1, <2>2, <2>3, <2>5, <2>6, <2>7, <2>8, CallNew
<1>8. CASE StmtFor
  <2> DEFINE kids == <<New1, Wild, Wild, Wild>>
  <2>1. Begin("LOOP_FOR", Unset, kids, "for", "block")
    BY <1>8 DEF StmtFor
  <2>2. Top.at = "stmt" /\ Cur \notin {"IDENT", "NUM", "END"}
    BY <1>8 DEF StmtFor, At
  <2>3. /\ 1 \in DOMAIN kids /\ kids[1] = New1 /\ Len(kids) = 4
        /\ \A k \in DOMAIN kids : k # 1 => kids[k] = Wild
        /\ kids \in Seq(Int)
    BY <1>b DEF New1, Wild
  <2>4. "for" \notin Working \union Locals /\ "block" \in Entry
    BY DEF Working, Locals, Entry
  <2> HIDE DEF kids
  <2> QED
    BY <1>a, <2>1, <2>2, <2>3, <2>4, BeginNodes
<1>9. CASE ForPart
  <2> DEFINE x == WithKid(old, Top.num + 2, New1)
             f == [Top EXCEPT !.num = @ + 1]
  <2>1. heap' = Append(Write(Top.tree, x), Fresh)
    BY <1>9, <1>o DEF ForPart, Write, WithKid
  <2>2. /\ Top.at = "for" /\ Top.at \notin Locals /\ Len(old.kids) = 4
        /\ \A k \in Top.num + 2 .. 4 : old.kids[k] = Wild
    BY <1>9, <1>c, <1>o DEF ForPart, At, Locals, Waits
  <2>3. Skips /\ Call(f, Frame("block", New1)) /\ Top.num < 3
    BY <1>9, SkipsIf DEF ForPart, Call
  <2>4. Top.num \in 0 .. 2
    BY <1>a, <2>3, TopTyped
  <2>5. x.held = old.held /\ x.kids = [old.kids EXCEPT ![Top.num + 2] = New1]
    BY <1>b DEF WithKid, Nodes
  <2>6. f.at = Top.at /\ f.tree = Top.tree /\ f.own = Top.own /\ f.num = Top.num + 1
    <3>1. Top \in Frames(n)
      BY <1>a, TopTyped DEF GoodFrames
    <3> QED
      BY <3>1 DEF Frames
  <2> HIDE DEF x, f
  <2>7. PICK k0 \in 2 .. 4 : k0 = Top.num + 2
    BY <2>4
  <2>8. k0 \in DOMAIN old.kids /\ DOMAIN old.kids = 1 .. 4
    BY <1>b, <2>2, <2>7 DEF Nodes
  <2>9. Fields(old, x, k0)
    <3>1. ~(old.kids[k0] > 0)
      BY <2>2, <2>4, <2>7 DEF Wild
    <3> QED
      BY <1>b, <2>5, <2>7, <2>8, <3>1, FieldsKid
  <2>10. Holds(old, x)
    BY <2>3, <2>5, HoldsIf
  <2>11. Writes(x, k0)
    BY <2>1, <2>7 DEF Writes
  <2>12. Waits(heap', f)
    <3>1. heap'[f.tree] = x
      BY <1>a, <2>6, <2>11, WritesIs DEF Written
    <3>2. DOMAIN x.kids = 1 .. 4 /\ x.kids \in Seq({NullTree, Wild} \union 1 .. n + 1)
      <4>1. x \in Nodes(n + 1)
        <5>1. New1 \in {NullTree, Wild} \union 1 .. n + 1 /\ old \in Nodes(n + 1)
          BY <1>b, NodesGrow DEF New1
        <5> QED
          BY <1>b, <5>1, KidTyped DEF x
      <4> QED
        BY <2>5, <2>8, <4>1 DEF Nodes
    <3>3. Len(x.kids) = 4
      <4>1. Len(x.kids) \in Nat /\ DOMAIN x.kids = 1 .. Len(x.kids)
        BY <3>2, LenProperties
      <4>2. PICK L : L = Len(x.kids)
        OBVIOUS
      <4>3. L \in Nat /\ 1 .. L = 1 .. 4
        BY <3>2, <4>1, <4>2, Zenon
      <4>4. 4 \in 1 .. L
        <5>1. 4 \in 1 .. 4
          OBVIOUS
        <5> QED
          BY <4>3, <5>1, Zenon
      <4>5. L \in 1 .. 4 \/ L = 0
        BY <4>3
      <4>6. L \in Nat
        BY <4>3
      <4>7. L >= 4
        BY <4>4, <4>6
      <4>8. L <= 4
        BY <4>5, <4>6
      <4>9. L = 4
        BY <4>6, <4>7, <4>8
      <4> QED
        BY <4>2, <4>9
    <3>4. \A k \in f.num + 2 .. 4 : x.kids[k] = Wild
      <4> SUFFICES ASSUME NEW k \in f.num + 2 .. 4 PROVE x.kids[k] = Wild
        OBVIOUS
      <4>1. k \in Top.num + 2 .. 4 /\ k # k0 /\ k \in 1 .. 4
        BY <2>4, <2>6, <2>7
      <4> QED
        BY <2>2, <2>5, <2>7, <2>8, <4>1
    <3>5. f.own = <<>>
      BY <1>a, <2>2, <2>6, NoLocals DEF NodesInv
    <3> QED
      BY <2>2, <2>6, <3>1, <3>3, <3>4, <3>5 DEF Waits
  <2>13. f.at \notin Working /\ f.at \notin Locals /\ "block" \in Entry /\ k0 \in 1 .. 4
    BY <2>2, <2>6, <2>7 DEF Working, Entry, Locals
  <2> QED
    BY <1>a, <1>o, <2>1, <2>2, <2>3, <2>6, <2>9, <2>10, <2>12, <2>13, CallNew
<1>10. CASE ForEnd
  <2>1. Top.at \notin Locals
    BY <1>10 DEF ForEnd, At, Locals
  <2> QED
    BY <1>10, <1>a, <2>1, SkipsIf, ReturnSame DEF ForEnd, Return
<1>11. CASE StmtFail
  <2>1. Top.at \notin Locals /\ stack' = Below /\ heap' = heap /\ tokens' = tokens
    BY <1>11 DEF StmtFail, At, Locals, Return
  <2>2. Skips
    <3>1. CASE Cur = "SEMICOLON"
      BY <1>11, <2>1, <3>1, SkipsIf DEF StmtFail, Advance
    <3>2. CASE Cur # "SEMICOLON"
      BY <1>11, <2>1, <3>2, SkipsIf, Tokens_ DEF StmtFail, Advance
    <3> QED
      BY <3>1, <3>2
  <2> QED
    BY <1>a, <2>1, <2>2, ReturnSame
<1>12. CASE StmtAssign
  <2> DEFINE x == Node("STMT_ASSIGNMENT", pos + 1, Unset, <<NullTree, New1>>)
             f == Resume("stmt_end")
  <2>1. heap' = Append(Write(Top.tree, x), Fresh)
    BY <1>12 DEF StmtAssign
  <2>2. Top.at = "stmt" /\ Top.at \in Entry /\ Top.at \notin Locals
    BY <1>12 DEF StmtAssign, At, Entry, Locals
  <2>3. Takes /\ Call(f, Frame("expr", New1))
    BY <1>12 DEF StmtAssign, Assigns, Takes, Call, Advance
  <2>4. x.held = pos + 1 /\ x.kids = <<NullTree, New1>>
    BY NodeIs
  <2>5. f.at = "stmt_end" /\ f.tree = Top.tree /\ f.own = Top.own
    BY <1>a, ResumeIs
  <2>6. old.kids = <<>> /\ old.held = 0
    BY <1>a, <1>o, <2>2, TopBegins
  <2> HIDE DEF x, f
  <2>7. Fields(old, x, 2)
    <3>1. \A k \in DOMAIN old.kids : ~(old.kids[k] > 0)
      BY <2>6
    <3>2. 2 \in DOMAIN x.kids /\ x.kids[2] = New1 /\ \A k \in DOMAIN x.kids : k # 2 => ~(x.kids[k] > 0)
      BY <2>4 DEF NullTree
    <3> QED
      BY <1>b, <3>1, <3>2, FieldsNew
  <2>8. Holds(old, x)
    BY <2>3, <2>4, <2>6, HoldsIf
  <2>9. Waits(heap', f) /\ f.at \notin Working /\ f.at \notin Locals /\ "expr" \in Entry
    <3>1. f.own = <<>>
      BY <1>a, <2>2, <2>5, NoLocals DEF NodesInv
    <3> QED
      BY <2>5, <3>1 DEF Waits, Working, Entry, Locals
  <2> QED
    BY <1>a, <1>o, <2>1, <2>2, <2>3, <2>5, <2>7, <2>8, <2>9, CallNew
<1>13. CASE StmtExpression
  <2>1. Top.at \in Entry /\ "expr" \in Entry /\ "stmt_end" \notin Working \union Holding
    BY <1>13 DEF StmtExpression, At, Entry, Working, Holding
  <2> QED
    BY <1>13, <1>a, <2>1, SkipsIf, CallSame DEF StmtExpression, Call
<1>14. CASE StmtEnd
  <2>1. Top.at \notin Locals /\ stack' = Below /\ heap' = heap /\ tokens' = tokens
    BY <1>14 DEF StmtEnd, At, Locals, Return
  <2>2. Skips
    <3>1. CASE ret /\ Cur = "SEMICOLON"
      BY <1>14, <2>1, <3>1, SkipsIf DEF StmtEnd, Advance
    <3>2. CASE ~(ret /\ Cur = "SEMICOLON")
      BY <1>14, <2>1, <3>2, SkipsIf, Tokens_ DEF StmtEnd, Advance
    <3> QED
      BY <3>1, <3>2
  <2> QED
    BY <1>a, <2>1, <2>2, ReturnSame
<1>15. CASE PassOn
  <2>1. Top.at \notin Locals
    BY <1>15 DEF PassOn, At, Locals
  <2> QED
    BY <1>15, <1>a, <2>1, SkipsIf, ReturnSame DEF PassOn, Return
<1>16. CASE Assignment
  <2> DEFINE x == WithKid(old, 1, New1)
             f == Resume("let_name")
  <2>1. heap' = Append(Write(Top.tree, x), Fresh)
    BY <1>16, <1>o DEF Assignment, Write, WithKid
  <2>2. Top.at = "assign" /\ Top.at \notin Locals
    BY <1>16 DEF Assignment, At, Locals
  <2>3. Len(old.kids) = 2 /\ old.held = 0 /\ \A k \in DOMAIN old.kids : old.kids[k] = Wild
    BY <1>a, <1>o, <2>2, TopBegins
  <2>4. Skips /\ Call(f, Frame("atom", New1))
    BY <1>16, SkipsIf DEF Assignment, Call
  <2>5. x.held = old.held /\ x.kids = [old.kids EXCEPT ![1] = New1]
    BY <1>b DEF WithKid, Nodes
  <2>6. f.at = "let_name" /\ f.tree = Top.tree /\ f.own = Top.own
    BY <1>a, ResumeIs
  <2> HIDE DEF x, f
  <2>7. DOMAIN old.kids = 1 .. 2 /\ old.kids \in Seq({NullTree, Wild} \union 1 .. n)
    BY <1>b, <2>3 DEF Nodes
  <2>8. Fields(old, x, 1)
    <3>1. 1 \in DOMAIN old.kids /\ ~(old.kids[1] > 0)
      BY <2>3, <2>7 DEF Wild
    <3> QED
      BY <1>b, <2>5, <3>1, FieldsKid
  <2>9. Holds(old, x)
    BY <2>4, <2>5, HoldsIf
  <2>10. Waits(heap', f) /\ f.at \notin Working /\ f.at \notin Locals /\ "atom" \in Entry
    <3>1. heap'[Top.tree] = x
      <4>1. Writes(x, 1)
        BY <2>1 DEF Writes
      <4> QED
        BY <1>a, <4>1, WritesIs DEF Written
    <3>2. Len(x.kids) = 2 /\ x.kids[2] = Wild
      BY <2>3, <2>5, <2>7
    <3>3. f.own = <<>>
      BY <1>a, <2>2, <2>6, NoLocals DEF NodesInv
    <3> QED
      BY <2>3, <2>5, <2>6, <3>1, <3>2, <3>3 DEF Waits, Working, Entry, Locals
  <2> QED
    BY <1>a, <1>o, <2>1, <2>2, <2>4, <2>6, <2>8, <2>9, <2>10, CallNew
<1> QED
  BY <1>1, <1>2, <1>3, <1>4, <1>5, <1>6, <1>7, <1>8, <1>9, <1>10, <1>11, <1>12, <1>13,
     <1>14, <1>15, <1>16 DEF StatementStep

LEMMA BlockNodes ==
  ASSUME ParserInv, NodesInv, BlockStep
  PROVE  NodesInv'
<1> DEFINE n == Len(heap)
<1>o. PICK old : old = heap[Top.tree]
  OBVIOUS
<1>a. stack # <<>>
  BY DEF BlockStep, BlockFail, BlockStatement, BlockEmpty, BlockOpen, BlockNext,
     BlockClose, BlockLink, BlockLast, BlockGiveUp, At
<1>b. old \in Nodes(n) /\ n \in Nat /\ New1 > 0 /\ Top.tree \in 1 .. n
  BY <1>a, <1>o, TopTyped, Tokens_ DEF New1
<1>c. Waits(heap, Top)
  BY <1>a, TopWaits
<1>1. CASE BlockFail
  <2>1. Top.at \notin Locals
    BY <1>1 DEF BlockFail, At, Locals
  <2> QED
    BY <1>1, <1>a, <2>1, SkipsIf, ReturnSame DEF BlockFail, Return
<1>2. CASE BlockStatement
  <2>1. Top.at \in Entry /\ "stmt" \in Entry /\ "tail" \notin Working \union Holding
    BY <1>2 DEF BlockStatement, At, Entry, Working, Holding
  <2> QED
    BY <1>2, <1>a, <2>1, SkipsIf, CallSame DEF BlockStatement, Call
<1>3. CASE BlockEmpty
  <2> DEFINE x == Node("EMPTY_LVL_STMTS", 0, Unset, <<>>)
  <2>1. Top.at \notin Locals /\ Top.at \in Entry
    BY <1>3 DEF BlockEmpty, At, Locals, Entry
  <2>2. Writes(x, 0) /\ stack' = Below /\ Skips
    BY <1>3, SkipsIf DEF BlockEmpty, Writes, Return, Advance
  <2>3. x.held = 0 /\ x.kids = <<>>
    BY NodeIs
  <2>4. old.kids = <<>> /\ old.held = 0
    BY <1>a, <1>o, <2>1, TopBegins
  <2> HIDE DEF x
  <2>5. Fields(old, x, 0) /\ Holds(old, x)
    BY <2>2, <2>3, <2>4, FieldsSame, HoldsIf
  <2> QED
    BY <1>a, <1>o, <2>1, <2>2, <2>5, ReturnNodes
<1>4. CASE BlockOpen
  <2> DEFINE x == Node("LVL_STMTS", 0, Unset, <<Wild, Wild>>)
             f == Resume("stmts")
  <2>1. Top.at \notin Locals /\ Top.at \in Entry
    BY <1>4 DEF BlockOpen, At, Locals, Entry
  <2>2. Writes(x, 0) /\ GoOn(f) /\ Skips
    BY <1>4, SkipsIf DEF BlockOpen, Writes, GoOn, Advance
  <2>3. x.held = 0 /\ x.kids = <<Wild, Wild>>
    BY NodeIs
  <2>4. old.kids = <<>> /\ old.held = 0
    BY <1>a, <1>o, <2>1, TopBegins
  <2>5. f.at = "stmts" /\ f.tree = Top.tree /\ f.own = <<>>
    BY <1>a, <2>1, ResumeIs, NoLocals DEF NodesInv
  <2> HIDE DEF x, f
  <2>6. \A k \in DOMAIN x.kids : x.kids[k] = Wild
    BY <2>3
  <2>7. Fields(old, x, 0) /\ Holds(old, x)
    <3>1. \A k \in DOMAIN x.kids : ~(x.kids[k] > 0)
      BY <2>6 DEF Wild
    <3>2. \A k \in DOMAIN old.kids : ~(old.kids[k] > 0)
      BY <2>4
    <3> QED
      BY <2>2, <2>3, <2>4, <3>1, <3>2, FieldsNone, HoldsIf
  <2>8. heap'[Top.tree] = x
    BY <1>a, <2>2, WritesIs DEF Written
  <2>9. Begins(heap', f, AtClose') /\ f.at \in Working
    BY <2>3, <2>5, <2>6, <2>8 DEF Begins, Entry, Working
  <2> QED
    BY <1>a, <1>o, <2>1, <2>2, <2>5, <2>7, <2>9, GoOnNodes
<1>5. CASE BlockNext
  <2> DEFINE x == Node("LVL_STMTS", 0, Unset, <<New1, Wild>>)
             f == Resume("stmts_next")
  <2>1. Top.at \notin Locals /\ Top.at = "stmts" /\ ~AtClose
    BY <1>5 DEF BlockNext, At, Locals
  <2>2. heap' = Append(Write(Top.tree, x), Fresh) /\ Call(f, Frame("stmt", New1)) /\ Skips
    BY <1>5, SkipsIf DEF BlockNext, Call
  <2>3. x.held = 0 /\ x.kids = <<New1, Wild>>
    BY NodeIs
  <2>4. old.held = 0 /\ \A k \in DOMAIN old.kids : old.kids[k] = Wild
    BY <1>a, <1>o, <2>1, TopBegins
  <2>5. f.at = "stmts_next" /\ f.tree = Top.tree /\ f.own = Top.own
    BY <1>a, ResumeIs
  <2>6. Top.own = <<>>
    BY <1>a, <2>1, NoLocals DEF NodesInv
  <2> HIDE DEF x, f
  <2>7. Fields(old, x, 1)
    <3>1. \A k \in DOMAIN old.kids : ~(old.kids[k] > 0)
      BY <2>4 DEF Wild
    <3>2. 1 \in DOMAIN x.kids /\ x.kids[1] = New1 /\ \A k \in DOMAIN x.kids : k # 1 => ~(x.kids[k] > 0)
      BY <2>3 DEF Wild
    <3> QED
      BY <1>b, <3>1, <3>2, FieldsNew
  <2>8. Holds(old, x)
    BY <2>2, <2>3, <2>4, HoldsIf
  <2>9. Waits(heap', f) /\ f.at \notin Working /\ f.at \notin Locals /\ "stmt" \in Entry
    <3>1. Writes(x, 1)
      BY <2>2 DEF Writes
    <3>2. heap'[Top.tree] = x
      BY <1>a, <3>1, WritesIs DEF Written
    <3>3. Len(x.kids) = 2 /\ x.kids[2] = Wild
      BY <2>3
    <3> QED
      BY <2>5, <2>6, <3>2, <3>3 DEF Waits, Working, Entry, Locals
  <2> QED
    BY <1>a, <1>o, <2>1, <2>2, <2>5, <2>7, <2>8, <2>9, CallNew
<1>6. CASE BlockClose
  <2>1. Top.at \notin Locals
    BY <1>6 DEF BlockClose, At, Locals
  <2> QED
    BY <1>6, <1>a, <2>1, SkipsIf, ReturnSame DEF BlockClose, Return
<1>7. CASE BlockLink
  <2> DEFINE x == WithKid(old, 2, New1)
             f == [Resume("stmts") EXCEPT !.tree = New1]
  <2>1. heap' = Append(Write(Top.tree, x), Fresh)
    BY <1>7, <1>o DEF BlockLink, Write, WithKid
  <2>2. Top.at \notin Locals /\ Len(old.kids) = 2 /\ old.kids[2] = Wild
    BY <1>7, <1>c, <1>o DEF BlockLink, At, Locals, Waits
  <2>3. Skips /\ GoOn(f)
    BY <1>7, SkipsIf DEF BlockLink, GoOn
  <2>4. x.held = old.held /\ x.kids = [old.kids EXCEPT ![2] = New1]
    BY <1>b DEF WithKid, Nodes
  <2>5. f.at = "stmts" /\ f.tree = New1 /\ f.own = <<>>
    <3>1. Top \in Frames(n)
      BY <1>a, TopTyped DEF GoodFrames
    <3>2. Top.own = <<>>
      BY <1>a, <2>2, NoLocals DEF NodesInv
    <3> QED
      BY <3>1, <3>2 DEF Resume, Frames
  <2> HIDE DEF x, f
  <2>6. Fields(old, x, 2)
    <3>1. 2 \in DOMAIN old.kids
      BY <1>b, <2>2 DEF Nodes
    <3>2. ~(old.kids[2] > 0)
      BY <2>2 DEF Wild
    <3> QED
      BY <1>b, <2>4, <3>1, <3>2, FieldsKid
  <2>7. Holds(old, x)
    BY <2>3, <2>4, HoldsIf
  <2>8. Writes(x, 2)
    BY <2>1 DEF Writes
  <2>9. Begins(heap', f, AtClose')
    <3>1. heap'[New1] = Fresh
      BY <1>a, <2>8, WritesIs DEF Written
    <3>2. Fresh.held = 0 /\ DOMAIN Fresh.kids = {}
      BY FreshIs
    <3> QED
      BY <2>5, <3>1, <3>2 DEF Begins, Entry
  <2>10. f.at \in Working
    BY <2>5 DEF Working
  <2> QED
    BY <1>a, <1>o, <2>2, <2>3, <2>5, <2>6, <2>7, <2>8, <2>9, <2>10, GoOnNodes
<1>8. CASE BlockLast
  <2> DEFINE x == WithKid(old, 2, NullTree)
             f == Resume("stmts")
  <2>1. Writes(x, 0)
    BY <1>8, <1>o DEF BlockLast, Write, WithKid, Writes
  <2>2. Top.at \notin Locals /\ Len(old.kids) = 2 /\ old.kids[2] = Wild
    BY <1>8, <1>c, <1>o DEF BlockLast, At, Locals, Waits
  <2>3. Skips /\ GoOn(f)
    BY <1>8, SkipsIf DEF BlockLast, GoOn
  <2>4. x.held = old.held /\ x.kids = [old.kids EXCEPT ![2] = NullTree]
    BY <1>b DEF WithKid, Nodes
  <2>5. f.at = "stmts" /\ f.tree = Top.tree /\ f.own = <<>>
    BY <1>a, <2>2, ResumeIs, NoLocals DEF NodesInv
  <2> HIDE DEF x, f
  <2>6. Fields(old, x, 0)
    <3>1. 2 \in DOMAIN old.kids
      BY <1>b, <2>2 DEF Nodes
    <3>2. ~(old.kids[2] > 0) /\ ~(NullTree > 0)
      BY <2>2 DEF Wild, NullTree
    <3> QED
      BY <2>4, <3>1, <3>2, FieldsKid
  <2>7. Holds(old, x)
    BY <2>3, <2>4, HoldsIf
  <2>8. AtClose'
    BY <1>8 DEF BlockLast, GoOn, AtClose, Cur
  <2>9. Begins(heap', f, AtClose') /\ f.at \in Working
    BY <2>5, <2>8 DEF Begins, Entry, Working
  <2> QED
    BY <1>a, <1>o, <2>1, <2>2, <2>3, <2>5, <2>6, <2>7, <2>9, GoOnNodes
<1>9. CASE BlockGiveUp
  <2>1. Top.at \notin Locals
    BY <1>9 DEF BlockGiveUp, At, Locals
  <2> QED
    BY <1>9, <1>a, <2>1, SkipsIf, ReturnSame DEF BlockGiveUp, Return
<1> QED
  BY <1>1, <1>2, <1>3, <1>4, <1>5, <1>6, <1>7, <1>8, <1>9 DEF BlockStep

(* The operand of an operator is a local until the operator is built. *)
LEMMA OperatorNodes ==
  ASSUME ParserInv, NodesInv, Operator
  PROVE  NodesInv'
<1> DEFINE T == LinksOf(heap, stack)
           T2 == LinksOf(heap', stack')
           A == 2 .. Len(heap)
           A2 == 2 .. Len(heap')
           f == [Resume("nth_right") EXCEPT !.own = <<New1>>, !.op = Cur]
           g == Frame("atom", New1)
<1>n. PICK n : n = Len(stack)
  OBVIOUS
<1>a. stack # <<>> /\ Top.at = "nth"
  BY DEF Operator, At
<1>1. heap' = Append(heap, Fresh) /\ Call(f, g) /\ Prec(Cur) # -1 /\ pos' = pos + 1 /\ tokens' = tokens
  BY DEF Operator, Continues, Call, Advance
<1>2. f.at = "nth_right" /\ f.tree = Top.tree /\ f.own = <<New1>>
  <2>1. Top \in Frames(Len(heap))
    BY <1>a, TopTyped DEF GoodFrames
  <2> QED
    BY <2>1 DEF Resume, Frames
<1>3. g.at = "atom" /\ g.tree = New1 /\ g.own = <<>>
  BY FrameIs
<1> HIDE DEF f, g
<1>4. Writes(heap[Top.tree], 1)
  <2>1. heap = [m \in DOMAIN heap |-> heap[m]]
    BY DEF ParserInv
  <2>2. heap = Write(Top.tree, heap[Top.tree])
    BY <2>1 DEF Write
  <2> QED
    BY <1>1, <2>2 DEF Writes
<1>5. Written(heap[Top.tree], 1)
  BY <1>a, <1>4, WritesIs
<1>6. /\ Local /\ Len(heap') = Len(heap) + 1 /\ heap'[New1] = Fresh /\ Len(heap) \in Nat
      /\ Top.tree \in 1 .. Len(heap) /\ New1 = Len(heap) + 1 /\ New1 \notin 1 .. Len(heap)
      /\ DOMAIN heap = 1 .. Len(heap)
      /\ \A m : m \in DOMAIN heap' <=> m \in 1 .. Len(heap) \/ m = New1
      /\ \A m \in 1 .. Len(heap) : heap'[m] = heap[m]
  BY <1>5 DEF Written, Local
<1>7. /\ n \in Nat \ {0} /\ DOMAIN stack = 1 .. n /\ stack[n].own = <<>>
      /\ DOMAIN stack' = 1 .. n + 1 /\ stack'[n] = f /\ stack'[n + 1] = g
      /\ \A i \in 1 .. n - 1 : stack'[i] = stack[i]
  <2>1. /\ n \in Nat \ {0} /\ DOMAIN stack = 1 .. n /\ Top = stack[n]
        /\ \A i \in 1 .. n - 1 : i \in 1 .. n /\ i < n
    BY <1>a, <1>n, StackBase, Upto
  <2>2. Top.own = <<>>
    BY <1>a, NoLocals DEF NodesInv, Locals
  <2>3. /\ DOMAIN stack' = 1 .. n + 1 /\ stack'[n] = f /\ stack'[n + 1] = g
        /\ \A i \in 1 .. n : i < n => stack'[i] = stack[i]
    BY <1>1, <1>a, <1>n, StackIs
  <2> QED
    BY <2>1, <2>2, <2>3
<1>8. StaleOf(stack') = StaleOf(stack)
  <2>1. \A i \in DOMAIN stack' : i >= Len(stack) => stack'[i].at # "trail"
    <3>1. \A i \in 1 .. n + 1 : i >= n => i = n \/ i = n + 1
      BY <1>7
    <3> QED
      BY <1>2, <1>3, <1>7, <1>n, <3>1
  <2> QED
    BY <1>a, <1>7, <1>n, <2>1, StaleBy
<1>9. HeldOnce'
  <2>1. Cur \notin {"IDENT", "NUM", "END"}
    BY <1>1 DEF Prec
  <2>2. Holds(heap[Top.tree], heap[Top.tree])
    BY <1>1, <2>1, SkipsIf, HoldsIf
  <2> QED
    BY <1>a, <1>4, <1>8, <2>2, HeldStep
<1>10. FramesInv'
  <2>1. \A k \in DOMAIN f.own : f.own[k] = New1
    BY <1>2
  <2>2. New1 \in Near /\ Top.tree \in Near /\ New1 # Top.tree
    BY <1>6 DEF Near
  <2>3. Waits(heap', f) /\ f.at \notin Working
    BY <1>2 DEF Waits, Locals, Working, Entry
  <2>4. Begins(heap', g, AtClose') /\ g.at \in Working
    BY <1>3, <1>6, FreshIs DEF Begins, Blank, Entry, Working
  <2> QED
    BY <1>a, <1>1, <1>2, <1>3, <1>6, <2>1, <2>2, <2>3, <2>4, CallFrames DEF NodesInv
<1>11. \A a, k : HasField(heap', stack', a, k) <=> HasField(heap, stack, a, k)
  <2> SUFFICES ASSUME NEW a, NEW k
               PROVE  HasField(heap', stack', a, k) <=> HasField(heap, stack, a, k)
    OBVIOUS
  <2>1. CASE a \in 1 .. Len(heap)
    <3>1. heap'[a] = heap[a] /\ a \in DOMAIN heap /\ a \in DOMAIN heap'
      BY <1>6, <2>1
    <3> QED
      BY <1>8, <3>1 DEF HasField
  <2>2. CASE a \notin 1 .. Len(heap)
    <3>1. a \notin DOMAIN heap /\ (a \in DOMAIN heap' => heap'[a] = Fresh)
      BY <1>6, <2>2
    <3> QED
      BY <3>1, FreshIs DEF HasField
  <2> QED
    BY <2>1, <2>2
<1>12. \A a, k : HasField(heap, stack, a, k) => heap'[a].kids[k] = heap[a].kids[k]
  BY <1>6 DEF HasField
<1>13. \A i, k : HasLocal(stack', i, k) <=> HasLocal(stack, i, k) \/ (i = n /\ k = 1)
  <2> SUFFICES ASSUME NEW i, NEW k
               PROVE  HasLocal(stack', i, k) <=> HasLocal(stack, i, k) \/ (i = n /\ k = 1)
    OBVIOUS
  <2>1. CASE i \in 1 .. n - 1
    <3>1. i \in 1 .. n /\ i \in 1 .. n + 1 /\ i # n /\ stack'[i] = stack[i]
      BY <1>7, <2>1
    <3> QED
      BY <1>7, <3>1 DEF HasLocal
  <2>2. CASE i = n
    <3>1. n \in 1 .. n /\ n \in 1 .. n + 1 /\ New1 > 0
      BY <1>6, <1>7
    <3>2. ~HasLocal(stack, n, k)
      BY <1>7 DEF HasLocal
    <3>3. HasLocal(stack', n, k) <=> k = 1
      BY <1>2, <1>7, <3>1 DEF HasLocal
    <3> QED
      BY <2>2, <3>2, <3>3
  <2>3. CASE i = n + 1
    <3>1. ~(i \in 1 .. n) /\ i # n
      BY <1>7, <2>3
    <3>2. ~HasLocal(stack', n + 1, k)
      BY <1>3, <1>7 DEF HasLocal
    <3> QED
      BY <1>7, <2>3, <3>1, <3>2 DEF HasLocal
  <2>4. CASE i \notin 1 .. n + 1
    <3>1. i \notin 1 .. n /\ i # n
      BY <1>7, <2>4
    <3> QED
      BY <1>7, <2>4, <3>1 DEF HasLocal
  <2> QED
    BY <1>7, <2>1, <2>2, <2>3, <2>4, Upto
<1>14. /\ \A i, k : HasLocal(stack, i, k) => stack'[i].own[k] = stack[i].own[k]
       /\ stack'[n].own[1] = New1
  <2>1. ASSUME NEW i, NEW k, HasLocal(stack, i, k) PROVE stack'[i].own[k] = stack[i].own[k]
    <3>1. i \in 1 .. n /\ i # n
      BY <1>7, <2>1 DEF HasLocal
    <3>2. i \in 1 .. n - 1
      BY <1>7, <3>1, Upto
    <3> QED
      BY <1>7, <3>2
  <2> QED
    BY <1>2, <1>7, <2>1
<1>15. \A p \in DOMAIN T : p \in DOMAIN T2 /\ T2[p] = T[p]
  <2> SUFFICES ASSUME NEW p \in DOMAIN T PROVE p \in DOMAIN T2 /\ T2[p] = T[p]
    OBVIOUS
  <2>1. ASSUME NEW a, NEW k, p = <<"field", a, k>> PROVE p \in DOMAIN T2 /\ T2[p] = T[p]
    BY <1>11, <1>12, <2>1, LinksAre
  <2>2. ASSUME NEW i, NEW k, p = <<"local", i, k>> PROVE p \in DOMAIN T2 /\ T2[p] = T[p]
    BY <1>13, <1>14, <2>2, LinksAre
  <2> QED
    BY <2>1, <2>2, LinksAre
<1> DEFINE new == <<"local", n, 1>>
           fresh == {new}
<1>16. \A q \in DOMAIN T2 : q \in fresh \/ q \in DOMAIN T
  <2> SUFFICES ASSUME NEW q \in DOMAIN T2 PROVE q \in fresh \/ q \in DOMAIN T
    OBVIOUS
  <2>1. ASSUME NEW a, NEW k, q = <<"field", a, k>> PROVE q \in DOMAIN T
    BY <1>11, <2>1, LinksAre
  <2>2. ASSUME NEW i, NEW k, q = <<"local", i, k>> PROVE q \in fresh \/ q \in DOMAIN T
    BY <1>13, <2>2, LinksAre
  <2> QED
    BY <2>1, <2>2, LinksAre
<1>17. new \in DOMAIN T2 /\ T2[new] = New1
  BY <1>13, <1>14, LinksAre
<1>18. A2 \ A = {New1} /\ A \subseteq A2
  <2>1. Len(heap) \in Nat \ {0} /\ New1 = Len(heap) + 1 /\ Len(heap') = Len(heap) + 1
    BY <1>6
  <2> QED
    BY <2>1
<1>19. /\ {T2[q] : q \in fresh} = A2 \ A /\ fresh \subseteq DOMAIN T2
       /\ \A q, r \in fresh : T2[q] = T2[r] => q = r
  BY <1>17, <1>18
<1>20. Owns(T, A)
  BY OwnedIs DEF NodesInv
<1> HIDE DEF T, T2, A, A2, fresh
<1>21. Owns(T2, A2)
  BY <1>15, <1>16, <1>18, <1>19, <1>20, Extend
<1> QED
  BY <1>9, <1>10, <1>21, OwnedNext DEF T2, A2, NodesInv

(* The prefix of a suffix is copied, and stays behind as a stale node. *)
LEMMA AtomTrailNodes ==
  ASSUME ParserInv, NodesInv, AtomTrail
  PROVE  NodesInv'
<1> DEFINE T == LinksOf(heap, stack)
           T2 == LinksOf(heap', stack')
           A == 2 .. Len(heap)
           A2 == 2 .. Len(heap')
           f == [Resume("trail") EXCEPT !.own = <<New1, New2>>, !.op = Cur]
           g == Frame("atom", New2)
<1>n. PICK n : n = Len(stack)
  OBVIOUS
<1>t. PICK t : t = Top.tree
  OBVIOUS
<1>a. stack # <<>> /\ Top.at = "suffix"
  BY DEF AtomTrail, At
<1>1. /\ heap' = heap \o <<heap[t], Fresh>> /\ Call(f, g) /\ Cur \in {"DOT", "DOUBLE_COLON"}
      /\ pos' = pos + 1 /\ tokens' = tokens
  BY <1>t DEF AtomTrail, Call, Advance
<1>2. f.at = "trail" /\ f.tree = t /\ f.own = <<New1, New2>>
  <2>1. Top \in Frames(Len(heap))
    BY <1>a, TopTyped DEF GoodFrames
  <2> QED
    BY <1>t, <2>1 DEF Resume, Frames
<1>3. g.at = "atom" /\ g.tree = New2 /\ g.own = <<>>
  BY FrameIs
<1> HIDE DEF f, g
<1>4. /\ Len(heap) \in Nat \ {0} /\ t \in 1 .. Len(heap) /\ DOMAIN heap = 1 .. Len(heap)
      /\ heap \in Seq(Nodes(Len(heap)))
  BY <1>a, <1>t, TopTyped DEF ParserInv
<1>5. /\ New1 = Len(heap) + 1 /\ New1 \notin 1 .. Len(heap)
      /\ New2 = Len(heap) + 2 /\ New2 \notin 1 .. Len(heap) /\ New1 # New2
  BY <1>4 DEF New1, New2
<1>6. /\ Len(heap') = Len(heap) + 2 /\ DOMAIN heap' = 1 .. Len(heap) + 2
      /\ \A m \in 1 .. Len(heap) : heap'[m] = heap[m]
      /\ heap'[New1] = heap[t] /\ heap'[New2] = Fresh
  <2>1. PICK N, y : N = Nodes(Len(heap)) \union {Fresh} /\ y = heap[t]
    OBVIOUS
  <2>2. heap \in Seq(N) /\ y \in N /\ Fresh \in N
    BY <1>4, <2>1
  <2>3. heap' = heap \o <<y, Fresh>>
    BY <1>1, <2>1
  <2> QED
    BY <1>4, <1>5, <2>1, <2>2, <2>3
<1>7. Local
  BY <1>4, <1>6 DEF Local
<1>8. \A m : m \in DOMAIN heap' <=> m \in 1 .. Len(heap) \/ m = New1 \/ m = New2
  BY <1>4, <1>5, <1>6
<1>9. /\ n \in Nat \ {0} /\ DOMAIN stack = 1 .. n /\ stack[n] = Top /\ stack[n].own = <<>>
      /\ DOMAIN stack' = 1 .. n + 1 /\ stack'[n] = f /\ stack'[n + 1] = g
      /\ \A i \in 1 .. n - 1 : stack'[i] = stack[i]
  <2>1. /\ n \in Nat \ {0} /\ DOMAIN stack = 1 .. n /\ Top = stack[n]
        /\ \A i \in 1 .. n - 1 : i \in 1 .. n /\ i < n
    BY <1>a, <1>n, StackBase, Upto
  <2>2. Top.own = <<>>
    BY <1>a, NoLocals DEF NodesInv, Locals
  <2>3. /\ DOMAIN stack' = 1 .. n + 1 /\ stack'[n] = f /\ stack'[n + 1] = g
        /\ \A i \in 1 .. n : i < n => stack'[i] = stack[i]
    BY <1>1, <1>a, <1>n, StackIs
  <2> QED
    BY <2>1, <2>2, <2>3
<1>10. /\ \A i \in 1 .. n : i = n \/ i \in 1 .. n - 1
       /\ \A i \in 1 .. n - 1 : i \in 1 .. n /\ i \in 1 .. n + 1 /\ i # n /\ i # n + 1
       /\ \A i \in 1 .. n + 1 : i = n + 1 \/ i = n \/ i \in 1 .. n - 1
       /\ n \in 1 .. n /\ n \in 1 .. n + 1 /\ n + 1 \notin 1 .. n /\ n + 1 # n
  BY <1>9
<1>11. StaleOf(stack') = StaleOf(stack) \union {t}
  <2>1. ASSUME NEW i \in DOMAIN stack, stack[i].at = "trail" PROVE stack[i].tree \in StaleOf(stack')
    <3>1. i \in 1 .. n - 1
      BY <1>a, <1>9, <1>10, <2>1
    <3> QED
      BY <1>9, <1>10, <2>1, <3>1 DEF StaleOf
  <2>2. ASSUME NEW i \in DOMAIN stack', stack'[i].at = "trail"
        PROVE  stack'[i].tree \in StaleOf(stack) \union {t}
    <3>1. i \in 1 .. n - 1 \/ i = n
      BY <1>3, <1>9, <1>10, <2>2
    <3> QED
      BY <1>2, <1>9, <1>10, <2>2, <3>1 DEF StaleOf
  <2>3. t \in StaleOf(stack')
    BY <1>2, <1>9, <1>10 DEF StaleOf
  <2> QED
    BY <2>1, <2>2, <2>3 DEF StaleOf
<1>12. t \notin StaleOf(stack) /\ New1 \notin StaleOf(stack) /\ New2 \notin StaleOf(stack) /\ t # New1
  BY <1>4, <1>5, <1>a, <1>t, TopInUse, StaleExist DEF NodesInv
<1>13. FramesInv'
  <2>1. \A k \in DOMAIN f.own : f.own[k] = New1 \/ f.own[k] = New2
    BY <1>2
  <2>2. New1 \in Near /\ New2 \in Near /\ t \in Near /\ New1 # t /\ New2 # t
    BY <1>4, <1>5, <1>t DEF Near
  <2>3. Waits(heap', f) /\ f.at \notin Working
    BY <1>2 DEF Waits, Locals, Working, Entry
  <2>4. Begins(heap', g, AtClose') /\ g.at \in Working
    BY <1>3, <1>6, FreshIs DEF Begins, Blank, Entry, Working
  <2> QED
    BY <1>a, <1>1, <1>2, <1>3, <1>7, <2>1, <2>2, <2>3, <2>4, CallFrames DEF NodesInv
<1>14. \A a, k : /\ a # t /\ a # New1 => (HasField(heap', stack', a, k) <=> HasField(heap, stack, a, k))
                 /\ ~HasField(heap', stack', t, k)
                 /\ HasField(heap', stack', New1, k) <=> HasField(heap, stack, t, k)
                 /\ ~HasField(heap, stack, New1, k)
  <2>1. ASSUME NEW a \in 1 .. Len(heap), NEW k, a # t
        PROVE  HasField(heap', stack', a, k) <=> HasField(heap, stack, a, k)
    <3>1. heap'[a] = heap[a] /\ a \in DOMAIN heap /\ a \in DOMAIN heap'
      BY <1>4, <1>6, <1>8
    <3> QED
      BY <1>11, <2>1, <3>1 DEF HasField
  <2>2. ASSUME NEW k PROVE ~HasField(heap', stack', New2, k)
    BY <1>6, FreshIs DEF HasField
  <2>3. ASSUME NEW a, NEW k, a \notin 1 .. Len(heap) PROVE ~HasField(heap, stack, a, k)
    BY <1>4, <2>3 DEF HasField
  <2>4. ASSUME NEW a, NEW k, a \notin 1 .. Len(heap), a # New1 PROVE ~HasField(heap', stack', a, k)
    BY <1>8, <2>2, <2>4 DEF HasField
  <2>5. ASSUME NEW k PROVE ~HasField(heap', stack', t, k)
    BY <1>11 DEF HasField
  <2>6. ASSUME NEW k PROVE HasField(heap', stack', New1, k) <=> HasField(heap, stack, t, k)
    <3>1. New1 \in DOMAIN heap' /\ New1 \notin StaleOf(stack') /\ t \in DOMAIN heap
      BY <1>4, <1>8, <1>11, <1>12
    <3> QED
      BY <1>6, <1>12, <3>1 DEF HasField
  <2> QED
    BY <1>5, <2>1, <2>3, <2>4, <2>5, <2>6
<1>15. \A a, k : HasField(heap, stack, a, k) => heap'[a].kids[k] = heap[a].kids[k]
  BY <1>4, <1>6 DEF HasField
<1>16. \A i, k : HasLocal(stack', i, k) <=> HasLocal(stack, i, k) \/ (i = n /\ k \in {1, 2})
  <2> SUFFICES ASSUME NEW i, NEW k
               PROVE  HasLocal(stack', i, k) <=> HasLocal(stack, i, k) \/ (i = n /\ k \in {1, 2})
    OBVIOUS
  <2>1. CASE i \in 1 .. n - 1
    <3>1. i \in 1 .. n /\ i \in 1 .. n + 1 /\ i # n /\ stack'[i] = stack[i]
      BY <1>9, <1>10, <2>1
    <3> QED
      BY <1>9, <3>1 DEF HasLocal
  <2>2. CASE i = n
    <3>1. New1 > 0 /\ New2 > 0
      BY <1>4, <1>5
    <3>2. ~HasLocal(stack, n, k)
      BY <1>9 DEF HasLocal
    <3>3. HasLocal(stack', n, k) <=> k \in {1, 2}
      <4>1. n \in DOMAIN stack' /\ stack'[n].own = <<New1, New2>>
        BY <1>2, <1>9, <1>10
      <4>2. DOMAIN <<New1, New2>> = {1, 2} /\ <<New1, New2>>[1] = New1 /\ <<New1, New2>>[2] = New2
        OBVIOUS
      <4>3. 1 .. 2 = {1, 2}
        OBVIOUS
      <4> QED
        BY <3>1, <4>1, <4>2, <4>3 DEF HasLocal
    <3> QED
      BY <2>2, <3>2, <3>3
  <2>3. CASE i = n + 1
    <3>2. ~HasLocal(stack', n + 1, k)
      BY <1>3, <1>9 DEF HasLocal
    <3> QED
      BY <1>9, <1>10, <2>3, <3>2 DEF HasLocal
  <2>4. CASE i \notin 1 .. n + 1
    <3>1. i \notin 1 .. n /\ i # n
      BY <1>9, <2>4
    <3> QED
      BY <1>9, <2>4, <3>1 DEF HasLocal
  <2> QED
    BY <1>10, <2>1, <2>2, <2>3, <2>4
<1>17. /\ \A i, k : HasLocal(stack, i, k) => stack'[i].own[k] = stack[i].own[k]
       /\ stack'[n].own[1] = New1 /\ stack'[n].own[2] = New2
  <2>1. ASSUME NEW i, NEW k, HasLocal(stack, i, k) PROVE stack'[i].own[k] = stack[i].own[k]
    <3>1. i \in 1 .. n - 1
      BY <1>9, <1>10, <2>1 DEF HasLocal
    <3> QED
      BY <1>9, <3>1
  <2> QED
    BY <1>2, <1>9, <2>1
<1> DEFINE to == [p \in DOMAIN T |-> IF p[1] = "field" /\ p[2] = t THEN <<"field", New1, p[3]>> ELSE p]
           n1 == <<"local", n, 1>>
           n2 == <<"local", n, 2>>
           fresh == {n1, n2}
<1>18. /\ \A a, k : <<"field", a, k>> \in DOMAIN T =>
              to[<<"field", a, k>>] = IF a = t THEN <<"field", New1, k>> ELSE <<"field", a, k>>
       /\ \A i, k : <<"local", i, k>> \in DOMAIN T => to[<<"local", i, k>>] = <<"local", i, k>>
  <2>1. \A p \in DOMAIN T : to[p] = IF p[1] = "field" /\ p[2] = t THEN <<"field", New1, p[3]>> ELSE p
    OBVIOUS
  <2> HIDE DEF T, to
  <2> QED
    BY <2>1
<1> HIDE DEF to
<1>19. \A p \in DOMAIN T : to[p] \in DOMAIN T2 /\ T2[to[p]] = T[p]
  <2> SUFFICES ASSUME NEW p \in DOMAIN T PROVE to[p] \in DOMAIN T2 /\ T2[to[p]] = T[p]
    OBVIOUS
  <2>1. ASSUME NEW a, NEW k, p = <<"field", a, k>> PROVE to[p] \in DOMAIN T2 /\ T2[to[p]] = T[p]
    <3>1. HasField(heap, stack, a, k) /\ T[p] = heap[a].kids[k]
      BY <2>1, LinksAre
    <3>2. CASE a = t
      <4>1. HasField(heap', stack', New1, k) /\ heap'[New1].kids[k] = heap[t].kids[k]
        BY <1>6, <1>14, <3>1, <3>2
      <4>2. to[p] = <<"field", New1, k>>
        BY <1>18, <2>1, <3>2
      <4> QED
        BY <3>1, <3>2, <4>1, <4>2, LinksAre
    <3>3. CASE a # t
      <4>1. HasField(heap', stack', a, k) /\ heap'[a].kids[k] = heap[a].kids[k]
        BY <1>14, <1>15, <3>1, <3>3
      <4>2. to[p] = <<"field", a, k>>
        BY <1>18, <2>1, <3>3
      <4> QED
        BY <3>1, <4>1, <4>2, LinksAre
    <3> QED
      BY <3>2, <3>3
  <2>2. ASSUME NEW i, NEW k, p = <<"local", i, k>> PROVE to[p] \in DOMAIN T2 /\ T2[to[p]] = T[p]
    BY <1>16, <1>17, <1>18, <2>2, LinksAre
  <2> QED
    BY <2>1, <2>2, LinksAre
<1>20. \A q \in DOMAIN T2 : q \in fresh \/ \E p \in DOMAIN T : q = to[p]
  <2> SUFFICES ASSUME NEW q \in DOMAIN T2, q \notin fresh PROVE \E p \in DOMAIN T : q = to[p]
    OBVIOUS
  <2>1. ASSUME NEW a, NEW k, q = <<"field", a, k>> PROVE \E p \in DOMAIN T : q = to[p]
    <3>1. HasField(heap', stack', a, k)
      BY <2>1, LinksAre
    <3>2. CASE a = New1
      <4>1. <<"field", t, k>> \in DOMAIN T
        BY <1>14, <3>1, <3>2, LinksAre
      <4>2. to[<<"field", t, k>>] = q
        BY <1>18, <2>1, <3>2, <4>1
      <4> QED
        BY <4>1, <4>2
    <3>3. CASE a # New1
      <4>1. a # t
        BY <1>14, <3>1
      <4>2. q \in DOMAIN T
        BY <1>14, <2>1, <3>1, <3>3, <4>1, LinksAre
      <4>3. to[q] = q
        BY <1>18, <2>1, <4>1, <4>2
      <4> QED
        BY <4>2, <4>3
    <3> QED
      BY <3>2, <3>3
  <2>2. ASSUME NEW i, NEW k, q = <<"local", i, k>> PROVE \E p \in DOMAIN T : q = to[p]
    <3>1. HasLocal(stack', i, k) /\ ~(i = n /\ k \in {1, 2})
      BY <2>2, LinksAre
    <3>2. q \in DOMAIN T
      BY <1>16, <2>2, <3>1, LinksAre
    <3>3. to[q] = q
      BY <1>18, <2>2, <3>2
    <3> QED
      BY <3>2, <3>3
  <2> QED
    BY <2>1, <2>2, LinksAre
<1>21. n1 \in DOMAIN T2 /\ T2[n1] = New1 /\ n2 \in DOMAIN T2 /\ T2[n2] = New2
  BY <1>16, <1>17, LinksAre
<1>22. A2 \ A = {New1, New2} /\ A \subseteq A2
  BY <1>4, <1>5, <1>6
<1>23. /\ {T2[q] : q \in fresh} = A2 \ A /\ fresh \subseteq DOMAIN T2
       /\ \A q, r \in fresh : T2[q] = T2[r] => q = r
  <2> HIDE DEF n1, n2, A, A2, T2
  <2> QED
    BY <1>5, <1>21, <1>22
<1>24. Owns(T, A)
  BY OwnedIs DEF NodesInv
<1>25. Owns(T2, A2)
  <2> HIDE DEF T, T2, A, A2, fresh
  <2> QED
    <3>1. Moves(T, A, T2, A2, to, fresh)
      BY <1>19, <1>20, <1>22, <1>23 DEF Moves
    <3> QED
      BY <1>24, <3>1, Transfer
<1>26. OwnedOnce'
  BY <1>25, OwnedNext DEF T2, A2
<1>27. HeldOnce'
  <2> DEFINE H == HoldersOf(heap, stack)
             H2 == HoldersOf(heap', stack')
             B == TextsOf(tokens, pos)
             B2 == TextsOf(tokens', pos')
             move == [a \in DOMAIN H |-> IF a = t THEN New1 ELSE a]
  <2>1. B2 = B
    <3>1. Cur \notin {"IDENT", "NUM", "END"} /\ 1 \in 0 .. 2 /\ ~(1 = 2)
      BY <1>1
    <3> QED
      BY <1>1, <3>1, Consumed
  <2>2. \A a : /\ a \in DOMAIN H <=> a \in DOMAIN heap /\ a \notin StaleOf(stack) /\ heap[a].held > 0
               /\ a \in DOMAIN H2 <=> a \in DOMAIN heap' /\ a \notin StaleOf(stack') /\ heap'[a].held > 0
    BY HoldersAre
  <2>3. (\A a \in DOMAIN H : H[a] = heap[a].held) /\ (\A a \in DOMAIN H2 : H2[a] = heap'[a].held)
    BY HoldersAre
  <2>4. \A a \in DOMAIN H : move[a] = IF a = t THEN New1 ELSE a
    OBVIOUS
  <2>5. Owns(H, B)
    BY HeldIs DEF NodesInv
  <2> HIDE DEF H, H2, move
  <2>6. \A a \in DOMAIN H : move[a] \in DOMAIN H2 /\ H2[move[a]] = H[a]
    BY <1>4, <1>6, <1>8, <1>11, <1>12, <2>2, <2>3, <2>4
  <2>7. \A b \in DOMAIN H2 : b \in {} \/ \E a \in DOMAIN H : b = move[a]
    <3> SUFFICES ASSUME NEW b \in DOMAIN H2 PROVE \E a \in DOMAIN H : b = move[a]
      OBVIOUS
    <3>1. b # t /\ b # New2
      BY <1>6, <1>11, <2>2, FreshIs
    <3>2. CASE b = New1
      BY <1>4, <1>6, <1>12, <2>2, <2>4, <3>2
    <3>3. CASE b \in 1 .. Len(heap)
      BY <1>4, <1>6, <1>11, <2>2, <2>4, <3>1, <3>3
    <3> QED
      BY <1>8, <2>2, <3>1, <3>2, <3>3
  <2>8. {H2[b] : b \in {}} = B2 \ B /\ B \subseteq B2
    BY <2>1
  <2> HIDE DEF B, B2
  <2>9. Owns(H2, B2)
    <3>1. Moves(H, B, H2, B2, move, {})
      BY <2>6, <2>7, <2>8 DEF Moves
    <3> QED
      BY <2>5, <3>1, Transfer
  <2> QED
    BY <2>9, HeldNext DEF H2, B2
<1> QED
  BY <1>13, <1>26, <1>27 DEF NodesInv

(* The suffix is built: the two locals become fields. *)
LEMMA TrailEndNodes ==
  ASSUME ParserInv, NodesInv, TrailEnd
  PROVE  NodesInv'
<1> DEFINE T == LinksOf(heap, stack)
           T2 == LinksOf(heap', stack')
           A == 2 .. Len(heap)
           A2 == 2 .. Len(heap')
<1>n. PICK n : n = Len(stack)
  OBVIOUS
<1>t. PICK t : t = Top.tree
  OBVIOUS
<1>a. stack # <<>> /\ Top.at = "trail"
  BY DEF TrailEnd, At
<1>1. PICK x : /\ x.held = 0 /\ x.kids = Top.own /\ heap' = Write(t, x)
               /\ stack' = Below /\ pos' = pos /\ tokens' = tokens
  <2>1. PICK kind : heap' = Write(Top.tree, Node("TYPE_TRAIL", 0, kind, Top.own))
    BY DEF TrailEnd
  <2>2. stack' = Below /\ pos' = pos /\ tokens' = tokens
    BY DEF TrailEnd, Return
  <2> QED
    BY <1>t, <2>1, <2>2, NodeIs
<1>2. PICK own : own = Top.own /\ DOMAIN own = {1, 2} /\ own[1] > 0 /\ own[2] > 0
  <2>1. Top.own \in Seq(1 .. Len(heap)) /\ Len(Top.own) = 2
    BY <1>a, TopTyped DEF GoodFrames, Frames, WellFormed
  <2>2. DOMAIN Top.own = {1, 2} /\ Top.own[1] > 0 /\ Top.own[2] > 0
    <3>1. DOMAIN Top.own = 1 .. 2 /\ 1 .. 2 = {1, 2}
      BY <2>1
    <3>2. Top.own[1] \in 1 .. Len(heap) /\ Top.own[2] \in 1 .. Len(heap)
      BY <2>1
    <3> QED
      BY <3>1, <3>2, Tokens_
  <2> QED
    BY <2>2
<1>3. Writes(x, 0)
  BY <1>1, <1>t DEF Writes
<1>4. /\ Local /\ heap'[t] = x /\ Len(heap') = Len(heap)
      /\ t \in 1 .. Len(heap) /\ Len(heap) \in Nat /\ DOMAIN heap = 1 .. Len(heap)
      /\ \A m : m \in DOMAIN heap' <=> m \in 1 .. Len(heap)
      /\ \A m \in 1 .. Len(heap) : m # t => heap'[m] = heap[m]
  <2>1. Written(x, 0)
    BY <1>a, <1>3, WritesIs
  <2> QED
    BY <2>1, <1>t DEF Written, Local
<1>5. FramesInv'
  BY <1>1, <1>4, <1>a, ReturnFrames DEF NodesInv
<1>6. /\ n \in Nat \ {0} /\ DOMAIN stack = 1 .. n /\ stack[n] = Top
      /\ DOMAIN stack' = 1 .. n - 1 /\ \A i \in 1 .. n - 1 : stack'[i] = stack[i]
      /\ \A i \in 1 .. n - 1 : i \in 1 .. n /\ i # n
      /\ \A i \in 1 .. n : i = n \/ i \in 1 .. n - 1
      /\ n \in 1 .. n /\ n \notin 1 .. n - 1
  <2>1. /\ n \in Nat \ {0} /\ DOMAIN stack = 1 .. n /\ Top = stack[n]
        /\ \A i \in 1 .. n - 1 : i \in 1 .. n /\ i # n
        /\ \A i \in 1 .. n : i = n \/ i \in 1 .. n - 1
    BY <1>a, <1>n, StackBase, Upto
  <2>2. DOMAIN stack' = 1 .. n - 1 /\ \A i \in 1 .. n - 1 : stack'[i] = stack[i]
    BY <1>1, <1>a, <1>n, StackIs
  <2>3. n \in 1 .. n /\ n \notin 1 .. n - 1
    BY <2>1
  <2> QED
    BY <2>1, <2>2, <2>3
<1>7. StaleOf(stack) = StaleOf(stack') \union {t} /\ t \notin StaleOf(stack')
  <2>1. ASSUME NEW i \in DOMAIN stack', stack'[i].at = "trail" PROVE stack'[i].tree \in StaleOf(stack)
    BY <1>6, <2>1 DEF StaleOf
  <2>2. ASSUME NEW i \in DOMAIN stack, stack[i].at = "trail"
        PROVE  stack[i].tree \in StaleOf(stack') \union {t}
    BY <1>6, <1>t, <2>2 DEF StaleOf
  <2>3. t \in StaleOf(stack)
    BY <1>6, <1>a, <1>t DEF StaleOf
  <2>4. t \notin StaleOf(stack')
    <3> SUFFICES ASSUME NEW i \in 1 .. n - 1, stack[i].at = "trail" PROVE stack[i].tree # t
      BY <1>6 DEF StaleOf
    <3>1. stack[i].tree \notin Near
      BY <1>a, <1>n, NearApart DEF NodesInv, FramesInv, Holding
    <3> QED
      BY <1>t, <3>1 DEF Near
  <2> QED
    BY <2>1, <2>2, <2>3, <2>4 DEF StaleOf
<1>8. \A a, k : a # t => (HasField(heap', stack', a, k) <=> HasField(heap, stack, a, k))
  <2> SUFFICES ASSUME NEW a, NEW k, a # t
               PROVE  HasField(heap', stack', a, k) <=> HasField(heap, stack, a, k)
    OBVIOUS
  <2>1. CASE a \in 1 .. Len(heap)
    <3>1. heap'[a] = heap[a] /\ a \in DOMAIN heap /\ a \in DOMAIN heap'
      BY <1>4, <2>1
    <3> QED
      BY <1>7, <3>1 DEF HasField
  <2>2. CASE a \notin 1 .. Len(heap)
    BY <1>4, <2>2 DEF HasField
  <2> QED
    BY <2>1, <2>2
<1>9. \A k : /\ ~HasField(heap, stack, t, k)
             /\ HasField(heap', stack', t, k) <=> k \in {1, 2}
  <2>1. t \in DOMAIN heap' /\ t \notin StaleOf(stack') /\ t \in StaleOf(stack)
    BY <1>4, <1>7
  <2>2. 1 \in 1 .. 4 /\ 2 \in 1 .. 4
    OBVIOUS
  <2> QED
    BY <1>1, <1>2, <1>4, <2>1, <2>2 DEF HasField
<1>10. \A a, k : HasField(heap, stack, a, k) => heap'[a].kids[k] = heap[a].kids[k]
  BY <1>4, <1>9 DEF HasField
<1>11. \A i, k : /\ HasLocal(stack', i, k) <=> HasLocal(stack, i, k) /\ i # n
                 /\ HasLocal(stack, n, k) <=> k \in {1, 2}
  <2>1. ASSUME NEW k PROVE HasLocal(stack, n, k) <=> k \in {1, 2}
    <3>1. 1 \in 1 .. 2 /\ 2 \in 1 .. 2
      OBVIOUS
    <3> QED
      BY <1>2, <1>6, <3>1 DEF HasLocal
  <2>2. ASSUME NEW i, NEW k PROVE HasLocal(stack', i, k) <=> HasLocal(stack, i, k) /\ i # n
    BY <1>6 DEF HasLocal
  <2> QED
    BY <2>1, <2>2
<1>12. \A i, k : HasLocal(stack', i, k) => stack'[i].own[k] = stack[i].own[k]
  BY <1>6 DEF HasLocal
<1> DEFINE to == [p \in DOMAIN T |-> IF p[1] = "local" /\ p[2] = n THEN <<"field", t, p[3]>> ELSE p]
<1>13. /\ \A i, k : <<"local", i, k>> \in DOMAIN T =>
              to[<<"local", i, k>>] = IF i = n THEN <<"field", t, k>> ELSE <<"local", i, k>>
       /\ \A a, k : <<"field", a, k>> \in DOMAIN T => to[<<"field", a, k>>] = <<"field", a, k>>
  <2>1. \A p \in DOMAIN T : to[p] = IF p[1] = "local" /\ p[2] = n THEN <<"field", t, p[3]>> ELSE p
    OBVIOUS
  <2> HIDE DEF T, to
  <2> QED
    BY <2>1
<1> HIDE DEF to
<1>14. \A p \in DOMAIN T : to[p] \in DOMAIN T2 /\ T2[to[p]] = T[p]
  <2> SUFFICES ASSUME NEW p \in DOMAIN T PROVE to[p] \in DOMAIN T2 /\ T2[to[p]] = T[p]
    OBVIOUS
  <2>1. ASSUME NEW a, NEW k, p = <<"field", a, k>> PROVE to[p] \in DOMAIN T2 /\ T2[to[p]] = T[p]
    <3>1. HasField(heap, stack, a, k) /\ T[p] = heap[a].kids[k]
      BY <2>1, LinksAre
    <3>2. HasField(heap', stack', a, k) /\ heap'[a].kids[k] = heap[a].kids[k]
      BY <1>8, <1>9, <1>10, <3>1
    <3> QED
      BY <1>13, <2>1, <3>1, <3>2, LinksAre
  <2>2. ASSUME NEW i, NEW k, p = <<"local", i, k>> PROVE to[p] \in DOMAIN T2 /\ T2[to[p]] = T[p]
    <3>1. HasLocal(stack, i, k) /\ T[p] = stack[i].own[k]
      BY <2>2, LinksAre
    <3>2. CASE i = n
      <4>1. to[p] = <<"field", t, k>> /\ k \in {1, 2}
        BY <1>11, <1>13, <2>2, <3>1, <3>2
      <4>2. HasField(heap', stack', t, k) /\ heap'[t].kids[k] = stack[n].own[k]
        BY <1>1, <1>4, <1>6, <1>9, <4>1
      <4> QED
        BY <3>1, <3>2, <4>1, <4>2, LinksAre
    <3>3. CASE i # n
      <4>1. to[p] = p /\ HasLocal(stack', i, k)
        BY <1>11, <1>13, <2>2, <3>1, <3>3
      <4> QED
        BY <1>12, <2>2, <3>1, <4>1, LinksAre
    <3> QED
      BY <3>2, <3>3
  <2> QED
    BY <2>1, <2>2, LinksAre
<1>15. \A q \in DOMAIN T2 : q \in {} \/ \E p \in DOMAIN T : q = to[p]
  <2> SUFFICES ASSUME NEW q \in DOMAIN T2 PROVE \E p \in DOMAIN T : q = to[p]
    OBVIOUS
  <2>1. ASSUME NEW a, NEW k, q = <<"field", a, k>> PROVE \E p \in DOMAIN T : q = to[p]
    <3>1. HasField(heap', stack', a, k)
      BY <2>1, LinksAre
    <3>2. CASE a = t
      <4>1. HasLocal(stack, n, k)
        BY <1>9, <1>11, <3>1, <3>2
      <4>2. <<"local", n, k>> \in DOMAIN T
        BY <4>1, LinksAre
      <4>3. to[<<"local", n, k>>] = q
        BY <1>13, <2>1, <3>2, <4>2
      <4> QED
        BY <4>2, <4>3
    <3>3. CASE a # t
      <4>1. q \in DOMAIN T
        BY <1>8, <2>1, <3>1, <3>3, LinksAre
      <4>2. to[q] = q
        BY <1>13, <2>1, <4>1
      <4> QED
        BY <4>1, <4>2
    <3> QED
      BY <3>2, <3>3
  <2>2. ASSUME NEW i, NEW k, q = <<"local", i, k>> PROVE \E p \in DOMAIN T : q = to[p]
    <3>1. HasLocal(stack, i, k) /\ i # n
      BY <1>11, <2>2, LinksAre
    <3>2. q \in DOMAIN T
      BY <2>2, <3>1, LinksAre
    <3>3. to[q] = q
      BY <1>13, <2>2, <3>1, <3>2
    <3> QED
      BY <3>2, <3>3
  <2> QED
    BY <2>1, <2>2, LinksAre
<1>16. Owns(T, A) /\ A2 = A
  BY <1>4, OwnedIs DEF NodesInv
<1>17. OwnedOnce'
  <2>1. Moves(T, A, T2, A2, to, {})
    <3> HIDE DEF T, T2, A, A2
    <3> QED
      BY <1>14, <1>15, <1>16 DEF Moves
  <2>2. Owns(T2, A2)
    <3> HIDE DEF T, T2, A, A2
    <3> QED
      BY <1>16, <2>1, Transfer
  <2> QED
    BY <2>2, OwnedNext
<1>18. HeldOnce'
  <2> DEFINE H == HoldersOf(heap, stack)
             H2 == HoldersOf(heap', stack')
             B == TextsOf(tokens, pos)
             B2 == TextsOf(tokens', pos')
  <2>1. Owns(H, B) /\ B2 = B
    BY <1>1, HeldIs DEF NodesInv
  <2>2. \A a : /\ a \in DOMAIN H <=> a \in DOMAIN heap /\ a \notin StaleOf(stack) /\ heap[a].held > 0
               /\ a \in DOMAIN H2 <=> a \in DOMAIN heap' /\ a \notin StaleOf(stack') /\ heap'[a].held > 0
    BY HoldersAre
  <2>3. (\A a \in DOMAIN H : H[a] = heap[a].held) /\ (\A a \in DOMAIN H2 : H2[a] = heap'[a].held)
    BY HoldersAre
  <2> HIDE DEF H, H2
  <2>4. \A a : a \in DOMAIN H2 <=> a \in DOMAIN H
    <3>1. t \notin DOMAIN H /\ t \notin DOMAIN H2
      BY <1>1, <1>4, <1>7, <2>2
    <3> QED
      BY <1>4, <1>7, <2>2, <3>1
  <2>5. \A a \in DOMAIN H : a \in DOMAIN H2 /\ H2[a] = H[a]
    BY <1>4, <1>7, <2>2, <2>3, <2>4
  <2>6. \A a \in DOMAIN H2 : a \in {} \/ a \in DOMAIN H
    BY <2>4
  <2>7. Owns(H2, B2)
    <3>1. PICK fresh : fresh = {}
      OBVIOUS
    <3>2. /\ {H2[b] : b \in fresh} = B2 \ B /\ B \subseteq B2 /\ fresh \subseteq DOMAIN H2
          /\ \A a, b \in fresh : H2[a] = H2[b] => a = b
          /\ \A a \in DOMAIN H2 : a \in fresh \/ a \in DOMAIN H
      BY <2>1, <2>6, <3>1
    <3> HIDE DEF B, B2
    <3> QED
      BY <2>1, <2>5, <3>2, Extend
  <2> QED
    BY <2>7, HeldNext DEF H2
<1> QED
  BY <1>5, <1>17, <1>18 DEF NodesInv

(* The left operand is copied, and the right one becomes a field. *)
LEMMA CombineNodes ==
  ASSUME ParserInv, NodesInv, Combine
  PROVE  NodesInv'
<1> DEFINE T == LinksOf(heap, stack)
           T2 == LinksOf(heap', stack')
           A == 2 .. Len(heap)
           A2 == 2 .. Len(heap')
           f == [Resume("nth") EXCEPT !.own = <<>>]
<1>n. PICK n : n = Len(stack)
  OBVIOUS
<1>t. PICK t : t = Top.tree
  OBVIOUS
<1>y. PICK y : y = heap[t]
  OBVIOUS
<1>a. stack # <<>> /\ Top.at \in {"nth_right", "nth_deep"} /\ Top.at # "trail"
  BY DEF Combine, At
<1>2. PICK o : o > 0 /\ Top.own[1] = o /\ DOMAIN Top.own = {1}
  <2>1. Top.own \in Seq(1 .. Len(heap)) /\ Len(Top.own) = 1
    BY <1>a, TopTyped DEF GoodFrames, Frames, WellFormed
  <2>2. DOMAIN Top.own = 1 .. 1 /\ 1 .. 1 = {1}
    BY <2>1
  <2>3. Top.own[1] \in 1 .. Len(heap)
    BY <2>1
  <2> QED
    BY <2>2, <2>3, Tokens_
<1>1. PICK x : /\ x.held = 0 /\ x.kids = <<New1, o>> /\ heap' = Append(Write(t, x), y)
               /\ GoOn(f) /\ pos' = pos /\ tokens' = tokens
  <2>1. PICK z : /\ z = Node("BINARY_OP", 0, OpCode(Top.op), <<New1, Top.own[1]>>)
                 /\ heap' = Append(Write(Top.tree, z), heap[Top.tree])
    BY DEF Combine
  <2>2. GoOn(f) /\ pos' = pos /\ tokens' = tokens
    BY DEF Combine, GoOn
  <2>3. z.held = 0 /\ z.kids = <<New1, Top.own[1]>>
    BY <2>1, NodeIs
  <2> QED
    BY <1>2, <1>t, <1>y, <2>1, <2>2, <2>3
<1>3. f.at = "nth" /\ f.tree = t /\ f.own = <<>>
  <2>1. Top \in Frames(Len(heap))
    BY <1>a, TopTyped DEF GoodFrames
  <2> QED
    BY <1>t, <2>1 DEF Resume, Frames
<1> HIDE DEF f
<1>4. /\ Len(heap) \in Nat \ {0} /\ t \in 1 .. Len(heap) /\ DOMAIN heap = 1 .. Len(heap)
      /\ Len(heap') = Len(heap) + 1 /\ DOMAIN heap' = 1 .. Len(heap) + 1
      /\ heap'[t] = x /\ heap'[Len(heap) + 1] = y
      /\ \A m \in 1 .. Len(heap) : m # t => heap'[m] = heap[m]
  <2>1. /\ Len(heap) \in Nat /\ t \in 1 .. Len(heap) /\ DOMAIN heap = 1 .. Len(heap)
        /\ Len(heap') = Len(heap) + 1 /\ DOMAIN heap' = 1 .. Len(heap) + 1
        /\ heap'[t] = x /\ heap'[Len(heap) + 1] = y
        /\ \A m \in 1 .. Len(heap) : m # t => heap'[m] = heap[m]
    BY <1>1, <1>a, <1>t, HeapIs
  <2>2. Len(heap) # 0
    BY <2>1
  <2> QED
    BY <2>1, <2>2
<1>5. New1 = Len(heap) + 1 /\ New1 \notin 1 .. Len(heap) /\ New1 > 0 /\ New1 # t
  BY <1>4 DEF New1
<1>6. Local /\ heap'[New1] = y /\ \A m : m \in DOMAIN heap' <=> m \in 1 .. Len(heap) \/ m = New1
  <2>1. Local
    BY <1>4, <1>t DEF Local
  <2>2. \A m : m \in 1 .. Len(heap) + 1 <=> m \in 1 .. Len(heap) \/ m = Len(heap) + 1
    BY <1>4
  <2> QED
    BY <1>4, <1>5, <2>1, <2>2
<1>7. FramesInv'
  <2>1. Begins(heap', f, AtClose') /\ f.at \in Working
    BY <1>3 DEF Begins, Entry, Working
  <2>2. f.tree \in Near
    BY <1>3, <1>t DEF Near
  <2> QED
    BY <1>1, <1>3, <1>6, <1>a, <2>1, <2>2, GoOnFrames DEF NodesInv
<1>8. /\ n \in Nat \ {0} /\ DOMAIN stack = 1 .. n /\ stack[n] = Top
      /\ DOMAIN stack' = 1 .. n /\ stack'[n] = f
      /\ \A i \in 1 .. n - 1 : stack'[i] = stack[i]
      /\ \A i \in 1 .. n - 1 : i \in 1 .. n /\ i # n
      /\ \A i \in 1 .. n : i = n \/ i \in 1 .. n - 1
      /\ n \in 1 .. n
  <2>1. /\ n \in Nat \ {0} /\ DOMAIN stack = 1 .. n /\ Top = stack[n]
        /\ \A i \in 1 .. n - 1 : i \in 1 .. n /\ i < n /\ i # n
        /\ \A i \in 1 .. n : i = n \/ i \in 1 .. n - 1
    BY <1>a, <1>n, StackBase, Upto
  <2>2. /\ DOMAIN stack' = 1 .. n /\ stack'[n] = f
        /\ \A i \in 1 .. n : i < n => stack'[i] = stack[i]
    BY <1>1, <1>a, <1>n, StackIs
  <2>3. n \in 1 .. n
    BY <2>1
  <2> QED
    BY <2>1, <2>2, <2>3
<1>9. StaleOf(stack') = StaleOf(stack) /\ t \notin StaleOf(stack) /\ New1 \notin StaleOf(stack)
  <2>1. \A i \in DOMAIN stack' : i >= Len(stack) => stack'[i].at # "trail"
    <3>1. \A i \in 1 .. n : i >= n => i = n
      BY <1>8
    <3>2. DOMAIN stack' = 1 .. n /\ stack'[n].at # "trail"
      BY <1>3, <1>8
    <3> QED
      BY <1>n, <3>1, <3>2
  <2>2. StaleOf(stack') = StaleOf(stack)
    <3>1. /\ DOMAIN stack' = 1 .. n /\ \A i \in 1 .. n - 1 : stack'[i] = stack[i]
          /\ n \in {n - 1, n, n + 1}
      BY <1>8
    <3> QED
      BY <1>a, <1>n, <2>1, <3>1, StaleBy
  <2> QED
    BY <1>5, <1>a, <1>t, <2>2, TopInUse, StaleExist DEF NodesInv
<1>10. \A a, k : /\ a # t /\ a # New1 => (HasField(heap', stack', a, k) <=> HasField(heap, stack, a, k))
                 /\ HasField(heap', stack', t, k) <=> k \in {1, 2}
                 /\ HasField(heap', stack', New1, k) <=> HasField(heap, stack, t, k)
                 /\ ~HasField(heap, stack, New1, k)
  <2>1. ASSUME NEW a \in 1 .. Len(heap), NEW k, a # t
        PROVE  HasField(heap', stack', a, k) <=> HasField(heap, stack, a, k)
    <3>1. heap'[a] = heap[a] /\ a \in DOMAIN heap /\ a \in DOMAIN heap'
      BY <1>4, <1>6, <2>1
    <3> QED
      BY <1>9, <3>1 DEF HasField
  <2>2. ASSUME NEW a, NEW k, a \notin 1 .. Len(heap) PROVE ~HasField(heap, stack, a, k)
    BY <1>4, <2>2 DEF HasField
  <2>3. ASSUME NEW a, NEW k, a \notin 1 .. Len(heap), a # New1 PROVE ~HasField(heap', stack', a, k)
    BY <1>6, <2>3 DEF HasField
  <2>4. ASSUME NEW k PROVE HasField(heap', stack', t, k) <=> k \in {1, 2}
    <3>1. t \in DOMAIN heap' /\ t \notin StaleOf(stack') /\ 1 \in 1 .. 4 /\ 2 \in 1 .. 4
      BY <1>4, <1>6, <1>9
    <3> QED
      BY <1>1, <1>2, <1>4, <1>5, <3>1 DEF HasField
  <2>5. ASSUME NEW k PROVE HasField(heap', stack', New1, k) <=> HasField(heap, stack, t, k)
    <3>1. New1 \in DOMAIN heap' /\ New1 \notin StaleOf(stack') /\ t \in DOMAIN heap
      BY <1>4, <1>6, <1>9
    <3> QED
      BY <1>6, <1>9, <1>y, <3>1 DEF HasField
  <2> QED
    BY <1>5, <2>1, <2>2, <2>3, <2>4, <2>5
<1>11. /\ \A a, k : a # t /\ HasField(heap, stack, a, k) => heap'[a].kids[k] = heap[a].kids[k]
       /\ \A k : heap'[New1].kids[k] = heap[t].kids[k]
       /\ heap'[t].kids[1] = New1 /\ heap'[t].kids[2] = o
  <2>1. \A a, k : a # t /\ HasField(heap, stack, a, k) => heap'[a].kids[k] = heap[a].kids[k]
    BY <1>4 DEF HasField
  <2>2. \A k : heap'[New1].kids[k] = heap[t].kids[k]
    BY <1>6, <1>y
  <2>3. heap'[t].kids[1] = New1 /\ heap'[t].kids[2] = o
    BY <1>1, <1>4
  <2> QED
    BY <2>1, <2>2, <2>3
<1>12. \A i, k : /\ HasLocal(stack', i, k) <=> HasLocal(stack, i, k) /\ i # n
                 /\ HasLocal(stack, n, k) <=> k = 1
  <2>1. ASSUME NEW k PROVE HasLocal(stack, n, k) <=> k = 1
    <3>1. 1 \in 1 .. 2
      OBVIOUS
    <3> QED
      BY <1>2, <1>8, <3>1 DEF HasLocal
  <2>2. ASSUME NEW k PROVE ~HasLocal(stack', n, k)
    BY <1>3, <1>8 DEF HasLocal
  <2>3. ASSUME NEW i \in 1 .. n - 1, NEW k PROVE HasLocal(stack', i, k) <=> HasLocal(stack, i, k)
    BY <1>8, <2>3 DEF HasLocal
  <2>4. ASSUME NEW i, NEW k, i \notin 1 .. n PROVE ~HasLocal(stack', i, k) /\ ~HasLocal(stack, i, k)
    BY <1>8, <2>4 DEF HasLocal
  <2> QED
    BY <1>8, <2>1, <2>2, <2>3, <2>4
<1>13. /\ \A i, k : HasLocal(stack', i, k) => stack'[i].own[k] = stack[i].own[k]
       /\ stack[n].own[1] = o
  <2>1. ASSUME NEW i, NEW k, HasLocal(stack', i, k) PROVE stack'[i].own[k] = stack[i].own[k]
    <3>1. i \in 1 .. n - 1
      BY <1>8, <1>12, <2>1 DEF HasLocal
    <3> QED
      BY <1>8, <3>1
  <2> QED
    BY <1>2, <1>8, <2>1
<1> DEFINE to == [p \in DOMAIN T |->
                    IF p[1] = "field" THEN IF p[2] = t THEN <<"field", New1, p[3]>> ELSE p
                                      ELSE IF p[2] = n THEN <<"field", t, 2>> ELSE p]
           new == <<"field", t, 1>>
           fresh == {new}
<1>14. /\ \A a, k : <<"field", a, k>> \in DOMAIN T =>
              to[<<"field", a, k>>] = IF a = t THEN <<"field", New1, k>> ELSE <<"field", a, k>>
       /\ \A i, k : <<"local", i, k>> \in DOMAIN T =>
              to[<<"local", i, k>>] = IF i = n THEN <<"field", t, 2>> ELSE <<"local", i, k>>
  <2>1. \A p \in DOMAIN T :
          to[p] = IF p[1] = "field" THEN IF p[2] = t THEN <<"field", New1, p[3]>> ELSE p
                                    ELSE IF p[2] = n THEN <<"field", t, 2>> ELSE p
    OBVIOUS
  <2> HIDE DEF T, to
  <2> QED
    BY <2>1
<1> HIDE DEF to
<1>15. \A p \in DOMAIN T : to[p] \in DOMAIN T2 /\ T2[to[p]] = T[p]
  <2> SUFFICES ASSUME NEW p \in DOMAIN T PROVE to[p] \in DOMAIN T2 /\ T2[to[p]] = T[p]
    OBVIOUS
  <2>1. ASSUME NEW a, NEW k, p = <<"field", a, k>> PROVE to[p] \in DOMAIN T2 /\ T2[to[p]] = T[p]
    <3>1. HasField(heap, stack, a, k) /\ T[p] = heap[a].kids[k]
      BY <2>1, LinksAre
    <3>2. CASE a = t
      <4>1. HasField(heap', stack', New1, k) /\ heap'[New1].kids[k] = heap[t].kids[k]
        BY <1>10, <1>11, <3>1, <3>2
      <4>2. to[p] = <<"field", New1, k>>
        BY <1>14, <2>1, <3>2
      <4> QED
        BY <3>1, <3>2, <4>1, <4>2, LinksAre
    <3>3. CASE a # t
      <4>1. HasField(heap', stack', a, k) /\ heap'[a].kids[k] = heap[a].kids[k]
        BY <1>10, <1>11, <3>1, <3>3
      <4>2. to[p] = <<"field", a, k>>
        BY <1>14, <2>1, <3>3
      <4> QED
        BY <3>1, <4>1, <4>2, LinksAre
    <3> QED
      BY <3>2, <3>3
  <2>2. ASSUME NEW i, NEW k, p = <<"local", i, k>> PROVE to[p] \in DOMAIN T2 /\ T2[to[p]] = T[p]
    <3>1. HasLocal(stack, i, k) /\ T[p] = stack[i].own[k]
      BY <2>2, LinksAre
    <3>2. CASE i = n
      <4>1. to[p] = <<"field", t, 2>> /\ T[p] = o
        BY <1>12, <1>13, <1>14, <2>2, <3>1, <3>2
      <4>2. HasField(heap', stack', t, 2) /\ heap'[t].kids[2] = o
        BY <1>10, <1>11
      <4> QED
        BY <4>1, <4>2, LinksAre
    <3>3. CASE i # n
      <4>1. to[p] = p /\ HasLocal(stack', i, k)
        BY <1>12, <1>14, <2>2, <3>1, <3>3
      <4> QED
        BY <1>13, <2>2, <3>1, <4>1, LinksAre
    <3> QED
      BY <3>2, <3>3
  <2> QED
    BY <2>1, <2>2, LinksAre
<1>16. \A q \in DOMAIN T2 : q \in fresh \/ \E p \in DOMAIN T : q = to[p]
  <2> SUFFICES ASSUME NEW q \in DOMAIN T2, q \notin fresh PROVE \E p \in DOMAIN T : q = to[p]
    OBVIOUS
  <2>1. ASSUME NEW a, NEW k, q = <<"field", a, k>> PROVE \E p \in DOMAIN T : q = to[p]
    <3>1. HasField(heap', stack', a, k)
      BY <2>1, LinksAre
    <3>2. CASE a = New1
      <4>1. <<"field", t, k>> \in DOMAIN T
        BY <1>10, <3>1, <3>2, LinksAre
      <4>2. to[<<"field", t, k>>] = q
        BY <1>14, <2>1, <3>2, <4>1
      <4> QED
        BY <4>1, <4>2
    <3>3. CASE a = t
      <4>1. k = 2
        BY <1>10, <2>1, <3>1, <3>3
      <4>2. <<"local", n, 1>> \in DOMAIN T
        BY <1>12, LinksAre
      <4>3. to[<<"local", n, 1>>] = q
        BY <1>14, <2>1, <3>3, <4>1, <4>2
      <4> QED
        BY <4>2, <4>3
    <3>4. CASE a # New1 /\ a # t
      <4>1. q \in DOMAIN T
        BY <1>10, <2>1, <3>1, <3>4, LinksAre
      <4>2. to[q] = q
        BY <1>14, <2>1, <3>4, <4>1
      <4> QED
        BY <4>1, <4>2
    <3> QED
      BY <3>2, <3>3, <3>4
  <2>2. ASSUME NEW i, NEW k, q = <<"local", i, k>> PROVE \E p \in DOMAIN T : q = to[p]
    <3>1. HasLocal(stack, i, k) /\ i # n
      BY <1>12, <2>2, LinksAre
    <3>2. q \in DOMAIN T
      BY <2>2, <3>1, LinksAre
    <3>3. to[q] = q
      BY <1>14, <2>2, <3>1, <3>2
    <3> QED
      BY <3>2, <3>3
  <2> QED
    BY <2>1, <2>2, LinksAre
<1>17. new \in DOMAIN T2 /\ T2[new] = New1
  BY <1>10, <1>11, LinksAre
<1>18. A2 \ A = {New1} /\ A \subseteq A2
  BY <1>4, <1>5
<1>19. /\ {T2[q] : q \in fresh} = A2 \ A /\ fresh \subseteq DOMAIN T2
       /\ \A q, r \in fresh : T2[q] = T2[r] => q = r
  BY <1>17, <1>18
<1>20. Owns(T, A)
  BY OwnedIs DEF NodesInv
<1>21. OwnedOnce'
  <2> HIDE DEF T, T2, A, A2, fresh
  <2>1. Moves(T, A, T2, A2, to, fresh)
    BY <1>15, <1>16, <1>18, <1>19 DEF Moves
  <2>2. Owns(T2, A2)
    BY <1>20, <2>1, Transfer
  <2> QED
    BY <2>2, OwnedNext DEF T2, A2
<1>22. HeldOnce'
  <2> DEFINE H == HoldersOf(heap, stack)
             H2 == HoldersOf(heap', stack')
             B == TextsOf(tokens, pos)
             B2 == TextsOf(tokens', pos')
             move == [a \in DOMAIN H |-> IF a = t THEN New1 ELSE a]
  <2>1. Owns(H, B) /\ B2 = B
    BY <1>1, HeldIs DEF NodesInv
  <2>2. \A a : /\ a \in DOMAIN H <=> a \in DOMAIN heap /\ a \notin StaleOf(stack) /\ heap[a].held > 0
               /\ a \in DOMAIN H2 <=> a \in DOMAIN heap' /\ a \notin StaleOf(stack') /\ heap'[a].held > 0
    BY HoldersAre
  <2>3. (\A a \in DOMAIN H : H[a] = heap[a].held) /\ (\A a \in DOMAIN H2 : H2[a] = heap'[a].held)
    BY HoldersAre
  <2>4. \A a \in DOMAIN H : move[a] = IF a = t THEN New1 ELSE a
    OBVIOUS
  <2> HIDE DEF H, H2, move
  <2>5. \A a \in DOMAIN H : move[a] \in DOMAIN H2 /\ H2[move[a]] = H[a]
    BY <1>4, <1>6, <1>9, <1>y, <2>2, <2>3, <2>4
  <2>6. \A b \in DOMAIN H2 : b \in {} \/ \E a \in DOMAIN H : b = move[a]
    <3> SUFFICES ASSUME NEW b \in DOMAIN H2 PROVE \E a \in DOMAIN H : b = move[a]
      OBVIOUS
    <3>1. b # t
      BY <1>1, <1>4, <2>2
    <3>2. CASE b = New1
      BY <1>4, <1>6, <1>9, <1>y, <2>2, <2>4, <3>2
    <3>3. CASE b \in 1 .. Len(heap)
      BY <1>4, <1>9, <2>2, <2>4, <3>1, <3>3
    <3> QED
      BY <1>6, <2>2, <3>2, <3>3
  <2>7. {H2[b] : b \in {}} = B2 \ B /\ B \subseteq B2
    BY <2>1
  <2> HIDE DEF B, B2
  <2>8. Owns(H2, B2)
    <3>1. Moves(H, B, H2, B2, move, {})
      BY <2>5, <2>6, <2>7 DEF Moves
    <3> QED
      BY <2>1, <3>1, Transfer
  <2> QED
    BY <2>8, HeldNext DEF H2, B2
<1> QED
  BY <1>7, <1>21, <1>22 DEF NodesInv

LEMMA AtomNodes ==
  ASSUME ParserInv, NodesInv, AtomStep
  PROVE  NodesInv'
<1>1. CASE Atom
  <2>1. stack # <<>> /\ Top.at \in Entry
    BY <1>1 DEF Atom, At, Entry
  <2>2. /\ Call(Resume("suffix"), Frame("small_atom", Top.tree)) /\ heap' = heap
        /\ tokens' = tokens /\ pos' = pos
    BY <1>1 DEF Atom, Call
  <2>3. "suffix" \notin Working \union Holding /\ "small_atom" \in Entry
    BY DEF Working, Holding, Entry
  <2> QED
    BY <2>1, <2>2, <2>3, SkipsIf, CallSame
<1>2. CASE AtomEnd
  <2>1. stack # <<>> /\ Top.at \notin Locals
    BY <1>2 DEF AtomEnd, At, Locals
  <2> QED
    BY <1>2, <2>1, SkipsIf, ReturnSame DEF AtomEnd, Return
<1> QED
  BY <1>1, <1>2, AtomTrailNodes, TrailEndNodes DEF AtomStep

(* The right operand is the left one of a chain of its own. *)
LEMMA OperandDeeperNodes ==
  ASSUME ParserInv, NodesInv, OperandDeeper
  PROVE  NodesInv'
<1> DEFINE f == Resume("nth_deep")
           g == NthFrame(Top.own[1], Prec(Top.op) + 1)
<1>1. stack # <<>> /\ Top.at = "nth_right" /\ Top.at # "trail" /\ Top.at \in Holding
  BY DEF OperandDeeper, At, Holding
<1>2. Call(f, g) /\ heap' = heap /\ pos' = pos /\ tokens' = tokens
  BY DEF OperandDeeper, Call
<1>3. f.at = "nth_deep" /\ f.tree = Top.tree /\ f.own = Top.own
  BY <1>1, ResumeIs
<1>4. g.at = "nth" /\ g.tree = Top.own[1] /\ g.own = <<>>
  BY DEF NthFrame, Frame
<1> HIDE DEF f, g
<1>5. DOMAIN Top.own = {1}
  <2>1. Top.own \in Seq(1 .. Len(heap)) /\ Len(Top.own) = 1
    BY <1>1, TopTyped DEF GoodFrames, Frames, WellFormed
  <2> QED
    BY <2>1
<1>6. Top.own[1] # Top.tree
  <2>1. /\ Len(stack) \in DOMAIN stack /\ Top = stack[Len(stack)] /\ Len(stack) <= Len(stack)
        /\ 1 \in DOMAIN Top.own
    BY <1>1, <1>5, StackBase
  <2> QED
    BY <1>1, <2>1 DEF NodesInv, FramesInv, Apart
<1>7. Writes(heap[Top.tree], 0) /\ Fields(heap[Top.tree], heap[Top.tree], 0)
  BY <1>1, <1>2, HeapSame
<1>8. Local /\ Quiet
  BY <1>1, <1>2, <1>3, <1>4, <1>7, WritesIs, QuietCall DEF Written
<1>9. FramesInv'
  <2>1. Top.tree \in Near /\ Top.own[1] \in Near
    BY <1>5 DEF Near
  <2>2. \A k \in DOMAIN f.own : f.own[k] \in Near /\ f.own[k] # f.tree
    BY <1>3, <1>5, <1>6, <2>1
  <2>3. Waits(heap', f) /\ f.at \notin Working /\ Begins(heap', g, AtClose') /\ g.at \in Working
    BY <1>3, <1>4 DEF Waits, Begins, Locals, Working, Entry
  <2> QED
    BY <1>1, <1>2, <1>3, <1>4, <1>6, <1>8, <2>1, <2>2, <2>3, CallFrames DEF NodesInv
<1>10. Holds(heap[Top.tree], heap[Top.tree])
  BY <1>2, SkipsIf, HoldsIf
<1>11. OwnedOnce' /\ HeldOnce'
  BY <1>1, <1>7, <1>8, <1>10, OwnedStep, HeldStep DEF Quiet
<1> QED
  BY <1>9, <1>11 DEF NodesInv

LEMMA ExpressionNodes ==
  ASSUME ParserInv, NodesInv, ExpressionStep
  PROVE  NodesInv'
<1>1. CASE OperatorsEnd
  <2>1. stack # <<>> /\ Top.at \notin Locals
    BY <1>1 DEF OperatorsEnd, At, Locals
  <2> QED
    BY <1>1, <2>1, SkipsIf, ReturnSame DEF OperatorsEnd, Return
<1>2. CASE Expression
  <2>1. stack # <<>> /\ Top.at \in Entry
    BY <1>2 DEF Expression, At, Entry
  <2>2. /\ Call(Resume("expr_ops"), Frame("atom", Top.tree)) /\ heap' = heap
        /\ tokens' = tokens /\ pos' = pos
    BY <1>2 DEF Expression, Call
  <2>3. "expr_ops" \notin Working \union Holding /\ "atom" \in Entry
    BY DEF Working, Holding, Entry
  <2> QED
    BY <2>1, <2>2, <2>3, SkipsIf, CallSame
<1>3. CASE ExpressionOperators
  <2> DEFINE f == Resume("expr_end")
             g == NthFrame(Top.tree, 0)
  <2>1. stack # <<>> /\ Top.at \notin Locals
    BY <1>3 DEF ExpressionOperators, At, Locals
  <2>2. Call(f, g) /\ heap' = heap /\ pos' = pos /\ tokens' = tokens
    BY <1>3 DEF ExpressionOperators, Call
  <2>3. /\ g.at = "nth" /\ g.tree = Top.tree /\ g.own = <<>>
        /\ f.at = "expr_end" /\ f.tree = Top.tree /\ f.own = Top.own /\ Top.own = <<>>
    BY <2>1, ResumeIs, NoLocals DEF NthFrame, Frame, NodesInv
  <2> HIDE DEF f, g
  <2>4. Begins(heap', g, AtClose') /\ g.at \in Working
    BY <2>3 DEF Begins, Entry, Working
  <2>5. Holds(heap[Top.tree], heap[Top.tree])
    BY <2>2, SkipsIf, HoldsIf
  <2>6. Writes(heap[Top.tree], 0) /\ Fields(heap[Top.tree], heap[Top.tree], 0)
    BY <2>1, <2>2, HeapSame
  <2>7. Waits(heap', f) /\ f.at \notin Working \union Holding \union Locals
    BY <2>3 DEF Waits, Working, Entry, Holding, Locals
  <2> QED
    BY <2>1, <2>2, <2>3, <2>4, <2>5, <2>6, <2>7, CallNodes
<1>4. CASE ExpressionEnd
  <2>1. stack # <<>> /\ Top.at \notin Locals
    BY <1>4 DEF ExpressionEnd, At, Locals
  <2> QED
    BY <1>4, <2>1, SkipsIf, ReturnSame DEF ExpressionEnd, Return
<1> QED
  BY <1>1, <1>2, <1>3, <1>4, OperatorNodes, OperandDeeperNodes, CombineNodes DEF ExpressionStep

LEMMA NodesInit == Init => NodesInv
<1> SUFFICES ASSUME Init PROVE NodesInv
  OBVIOUS
<1>1. /\ stack = <<Frame("block", 1)>> /\ DOMAIN stack = {1} /\ Len(stack) = 1
      /\ stack[1] = Frame("block", 1) /\ Top = Frame("block", 1)
      /\ heap = <<Fresh>> /\ DOMAIN heap = {1} /\ Len(heap) = 1 /\ heap[1] = Fresh /\ pos = 0
  BY DEF Init, Top
<1>2. /\ stack[1].at = "block" /\ stack[1].tree = 1 /\ stack[1].own = <<>>
      /\ heap[1].kids = <<>> /\ heap[1].held = 0
  BY <1>1, FrameIs, FreshIs
<1>3. FramesInv
  <2>1. \A i \in DOMAIN stack : Waits(heap, stack[i])
    BY <1>1, <1>2 DEF Waits, Locals
  <2>2. Begins(heap, Top, AtClose)
    BY <1>1, <1>2 DEF Begins, Blank, Entry
  <2>3. Apart(stack)
    BY <1>1, <1>2 DEF Apart, Holding
  <2> QED
    BY <1>1, <2>1, <2>2, <2>3 DEF FramesInv
<1>4. OwnedOnce
  <2> DEFINE T == LinksOf(heap, stack)
             A == 2 .. Len(heap)
  <2>1. \A a, k : ~HasField(heap, stack, a, k) /\ ~HasLocal(stack, a, k)
    BY <1>1, <1>2 DEF HasField, HasLocal
  <2>2. DOMAIN T = {}
    <3> SUFFICES ASSUME NEW p \in DOMAIN T PROVE FALSE
      OBVIOUS
    <3>1. ASSUME NEW a, NEW k PROVE p # <<"field", a, k>> /\ p # <<"local", a, k>>
      BY <2>1, LinksAre
    <3> QED
      BY <3>1, LinksAre
  <2>3. A = {}
    BY <1>1
  <2> HIDE DEF T, A
  <2>4. Owns(T, A)
    BY <2>2, <2>3 DEF Owns
  <2> QED
    BY <2>4, OwnedIs DEF T, A
<1>5. HeldOnce
  <2> DEFINE H == HoldersOf(heap, stack)
             B == TextsOf(tokens, pos)
  <2>1. DOMAIN H = {}
    BY <1>1, <1>2, HoldersAre
  <2>2. B = {}
    BY <1>1 DEF TextsOf
  <2> HIDE DEF H, B
  <2>3. Owns(H, B)
    BY <2>1, <2>2 DEF Owns
  <2> QED
    BY <2>3, HeldIs DEF H, B
<1> QED
  BY <1>3, <1>4, <1>5 DEF NodesInv

LEMMA NodesStep == ParserInv /\ NodesInv /\ [Next]_vars => NodesInv'
<1> SUFFICES ASSUME ParserInv, NodesInv, [Next]_vars PROVE NodesInv'
  OBVIOUS
<1>1. CASE Next
  BY <1>1, SmallAtomNodes, AtomNodes, ExpressionNodes, StatementNodes, BlockNodes DEF Next
<1>2. CASE UNCHANGED vars
  <2>1. stack' = stack /\ heap' = heap /\ tokens' = tokens /\ pos' = pos
    BY <1>2 DEF vars
  <2>2. FramesInv'
    BY <2>1 DEF NodesInv, FramesInv, Top, AtClose, Cur
  <2>3. OwnedOnce'
    BY <2>1, OwnedIs, OwnedNext DEF NodesInv
  <2>4. HeldOnce'
    BY <2>1, HeldIs, HeldNext DEF NodesInv
  <2> QED
    BY <2>2, <2>3, <2>4 DEF NodesInv
<1> QED
  BY <1>1, <1>2

THEOREM NodesInvariant == Spec => []NodesInv
  BY NodesInit, NodesStep, ParserInvariant, PTL DEF Spec

(* Whatever the tokens are, every node build_block() has allocated but the *)
(* root is pointed to exactly once at every moment, be it by a field of a  *)
(* node in use or by a local variable: the memmoves of build_atom and      *)
(* build_nth_entire_expression leak no node and share none, and            *)
(* free_parse_tree can free none twice (parse.c:147, 161, 269).            *)
THEOREM NodesOwnedOnce == Spec => []OwnedOnce
<1>1. NodesInv => OwnedOnce
  BY DEF NodesInv
<1> QED
  BY <1>1, NodesInvariant, PTL

(* Whatever the tokens are, the text of every IDENT and NUM the parser has *)
(* gone past is held by exactly one node in use: no early return loses it, *)
(* no memmove leaves it in two nodes, and no assignment to *tree drops it  *)
(* (parse.c:77, 97, 147, 269, 301, 396).                                   *)
THEOREM TextsHeldOnce == Spec => []HeldOnce
<1>1. NodesInv => HeldOnce
  BY DEF NodesInv
<1> QED
  BY <1>1, NodesInvariant, PTL

-----------------------------------------------------------------------------
(* What a node of a type has: the fields of its variant of the union, a    *)
(* number a text, and a variable the text of an IDENT.                     *)

Shaped(x) ==
  /\ x.type \in {"PTR_REF", "PTR_DEREF", "STMT_RETURN"} => DOMAIN x.kids = {1}
  /\ x.type \in {"BINARY_OP", "STMT_ASSIGNMENT", "LVL_STMTS", "TYPE_TRAIL"} =>
       DOMAIN x.kids = {1, 2}
  /\ x.type = "IFS" => DOMAIN x.kids = {1, 2, 3}
  /\ x.type = "LOOP_FOR" => DOMAIN x.kids = {1, 2, 3, 4}
  /\ x.type \in {"GARBAGE", "INT", "VARIABLE", "EMPTY_LVL_STMTS"} => DOMAIN x.kids = {}
  /\ x.type = "INT" => x.held > 0
  /\ x.type = "VARIABLE" => x.held \in 1 .. Len(tokens) /\ tokens[x.held] = "IDENT"

ShapeInv == 1 \in DOMAIN heap /\ \A a \in DOMAIN heap : Shaped(heap[a])

(* A step writes one node, and may allocate one. *)
Shapes(x) ==
  Shaped(x) /\ \/ heap' = Write(Top.tree, x)
               \/ heap' = Append(Write(Top.tree, x), Fresh)
               \/ heap' = Append(Write(Top.tree, x), heap[Top.tree])

LEMMA ShapeWrite ==
  ASSUME ParserInv, stack # <<>>, ShapeInv, tokens' = tokens, NEW x, Shapes(x)
  PROVE  ShapeInv'
<1>1. Shaped(Fresh) /\ Shaped(heap[Top.tree])
  BY HeapIs DEF ShapeInv, Shaped, Fresh, Node
<1>2. PICK y : Shaped(y) /\ (heap' = Write(Top.tree, x) \/ heap' = Append(Write(Top.tree, x), y))
  BY <1>1 DEF Shapes
<1>3. \A a \in DOMAIN heap' : Shaped(heap'[a])
  <2>1. \A a \in DOMAIN heap : Shaped(heap[a])
    BY DEF ShapeInv
  <2>2. CASE heap' = Write(Top.tree, x)
    <3>1. /\ DOMAIN heap' = 1 .. Len(heap) /\ heap'[Top.tree] = x /\ DOMAIN heap = 1 .. Len(heap)
          /\ \A m \in 1 .. Len(heap) : m # Top.tree => heap'[m] = heap[m]
      BY <2>2, HeapIs
    <3> QED
      BY <2>1, <3>1 DEF Shapes
  <2>3. CASE heap' = Append(Write(Top.tree, x), y)
    <3>1. /\ DOMAIN heap' = 1 .. Len(heap) + 1 /\ heap'[Top.tree] = x /\ heap'[Len(heap) + 1] = y
          /\ DOMAIN heap = 1 .. Len(heap) /\ Len(heap) \in Nat
          /\ \A m \in 1 .. Len(heap) : m # Top.tree => heap'[m] = heap[m]
      BY <2>3, HeapIs
    <3>2. \A a \in 1 .. Len(heap) + 1 : a \in 1 .. Len(heap) \/ a = Len(heap) + 1
      BY <3>1
    <3> QED
      BY <1>2, <2>1, <3>1, <3>2 DEF Shapes
  <2> QED
    BY <1>2, <2>2, <2>3
<1>4. 1 \in DOMAIN heap'
  <2>1. /\ DOMAIN heap' = 1 .. Len(heap) \/ DOMAIN heap' = 1 .. Len(heap) + 1
        /\ DOMAIN heap = 1 .. Len(heap) /\ Len(heap) \in Nat
    BY <1>2, HeapIs
  <2> QED
    BY <2>1 DEF ShapeInv
<1> QED
  BY <1>3, <1>4 DEF ShapeInv, Shaped

LEMMA ShapeSame ==
  ASSUME ShapeInv, heap' = heap, tokens' = tokens
  PROVE  ShapeInv'
  BY DEF ShapeInv, Shaped

LEMMA ShapeTop ==
  ASSUME ParserInv, stack # <<>>, ShapeInv
  PROVE  /\ heap[Top.tree] \in Nodes(Len(heap)) /\ Shaped(heap[Top.tree])
         /\ \A k, v : Shaped(WithKid(heap[Top.tree], k, v))
         /\ \A v : v \in 1 .. Len(tokens) /\ tokens[v] = "IDENT" => 
              /\ Shaped(WithHeld(heap[Top.tree], v))
              /\ \A k, w : Shaped(WithKid(WithHeld(heap[Top.tree], v), k, w))
<1>1. heap[Top.tree] \in Nodes(Len(heap)) /\ Shaped(heap[Top.tree])
  BY TopTyped, HeapIs DEF ShapeInv
<1>2. PICK x : x = heap[Top.tree]
  OBVIOUS
<1>3. ASSUME NEW k, NEW v PROVE Shaped(WithKid(x, k, v))
  BY <1>1, <1>2 DEF Nodes, Shaped, WithKid
<1>4. ASSUME NEW v \in 1 .. Len(tokens), tokens[v] = "IDENT" PROVE Shaped(WithHeld(x, v))
  BY <1>1, <1>2, <1>4 DEF Nodes, Shaped, WithHeld
<1>5. ASSUME NEW v \in 1 .. Len(tokens), tokens[v] = "IDENT", NEW k, NEW w
      PROVE  Shaped(WithKid(WithHeld(x, v), k, w))
  <2>1. PICK y : y = WithHeld(x, v)
    OBVIOUS
  <2>2. /\ Shaped(y) /\ y = [type |-> y.type, held |-> y.held, code |-> y.code, kids |-> y.kids]
        /\ y.kids \in Seq({NullTree, Wild} \union 1 .. Len(heap))
    BY <1>1, <1>2, <1>4, <1>5, <2>1 DEF Nodes, WithHeld
  <2>3. Shaped(WithKid(y, k, w))
    BY <2>2 DEF Shaped, WithKid
  <2> QED
    BY <2>1, <2>3
<1> QED
  BY <1>1, <1>2, <1>3, <1>4, <1>5

(* The next token, if it is an IDENT, is there. *)
LEMMA NextIdent ==
  ASSUME ParserInv, Cur = "IDENT"
  PROVE  pos + 1 \in 1 .. Len(tokens) /\ tokens[pos + 1] = "IDENT"
  BY DEF ParserInv, Cur

LEMMA SmallAtomShaped ==
  ASSUME ParserInv, ShapeInv, SmallAtomStep
  PROVE  ShapeInv'
<1>1. CASE SmallAtomLeaf
  <2>1. PICK type \in {"INT", "VARIABLE"} :
          /\ type = "VARIABLE" => Cur = "IDENT"
          /\ heap' = Write(Top.tree, Node(type, pos + 1, Unset, <<>>))
    BY <1>1 DEF SmallAtomLeaf
  <2>2. Shaped(Node(type, pos + 1, Unset, <<>>))
    <3>1. pos + 1 > 0
      BY Tokens_
    <3> QED
      BY <2>1, <3>1, NextIdent DEF Shaped, Node
  <2> QED
    BY <1>1, <2>1, <2>2, ShapeWrite DEF SmallAtomLeaf, At, Return, Shapes
<1>2. CASE SmallAtomParen \/ ParenEnd \/ PrefixEnd \/ SmallAtomFail
  BY <1>2, ShapeSame DEF SmallAtomParen, ParenEnd, PrefixEnd, SmallAtomFail, Call, Return
<1>3. CASE SmallAtomPrefix
  <2>1. PICK type \in {"PTR_REF", "PTR_DEREF"} :
          heap' = Append(Write(Top.tree, Node(type, 0, Unset, <<New1>>)), Fresh)
    BY <1>3 DEF SmallAtomPrefix
  <2>2. Shaped(Node(type, 0, Unset, <<New1>>))
    BY <2>1 DEF Shaped, Node
  <2> QED
    BY <1>3, <2>1, <2>2, ShapeWrite DEF SmallAtomPrefix, At, Call, Shapes
<1> QED
  BY <1>1, <1>2, <1>3 DEF SmallAtomStep

LEMMA AtomShaped ==
  ASSUME ParserInv, ShapeInv, AtomStep
  PROVE  ShapeInv'
<1>1. CASE Atom \/ AtomEnd
  BY <1>1, ShapeSame DEF Atom, AtomEnd, Call, Return
<1>2. CASE AtomTrail
  <2>1. stack # <<>> /\ tokens' = tokens
    BY <1>2 DEF AtomTrail, At, Call
  <2>2. PICK n, x : n = Len(heap) /\ x = heap[Top.tree]
    OBVIOUS
  <2>3. n \in Nat /\ heap \in Seq(Nodes(n)) /\ x \in Nodes(n) /\ heap' = heap \o <<x, Fresh>>
    BY <1>2, <2>1, <2>2, TopTyped DEF AtomTrail, ParserInv
  <2>4. /\ DOMAIN heap' = 1 .. n + 2 /\ DOMAIN heap = 1 .. n
        /\ heap'[n + 1] = x /\ heap'[n + 2] = Fresh
        /\ \A m \in 1 .. n : heap'[m] = heap[m]
    <3>1. PICK N : N = Nodes(n) \union {Fresh}
      OBVIOUS
    <3>2. heap \in Seq(N) /\ x \in N /\ Fresh \in N
      BY <2>3, <3>1
    <3> QED
      BY <2>2, <2>3, <3>2
  <2>5. Shaped(x) /\ Shaped(Fresh)
    BY <2>1, <2>2, ShapeTop DEF Shaped, Fresh, Node
  <2>6. \A a \in DOMAIN heap' : Shaped(heap'[a])
    <3>1. \A a \in 1 .. n + 2 : a \in 1 .. n \/ a = n + 1 \/ a = n + 2
      BY <2>3
    <3> QED
      BY <2>4, <2>5, <3>1 DEF ShapeInv
  <2>7. 1 \in DOMAIN heap'
    BY <2>3, <2>4
  <2> QED
    BY <2>1, <2>6, <2>7 DEF ShapeInv, Shaped
<1>3. CASE TrailEnd
  <2>1. stack # <<>> /\ tokens' = tokens /\ Top.at = "trail"
    BY <1>3 DEF TrailEnd, At, Return
  <2>2. PICK kind : heap' = Write(Top.tree, Node("TYPE_TRAIL", 0, kind, Top.own))
    BY <1>3 DEF TrailEnd
  <2>3. DOMAIN Top.own = {1, 2}
    <3>1. Top.own \in Seq(1 .. Len(heap)) /\ Len(Top.own) = 2
      BY <2>1, TopTyped DEF GoodFrames, Frames, WellFormed
    <3> QED
      BY <3>1
  <2>4. Shaped(Node("TYPE_TRAIL", 0, kind, Top.own))
    BY <2>3 DEF Shaped, Node
  <2> QED
    BY <2>1, <2>2, <2>4, ShapeWrite DEF Shapes
<1> QED
  BY <1>1, <1>2, <1>3 DEF AtomStep

LEMMA ExpressionShaped ==
  ASSUME ParserInv, ShapeInv, ExpressionStep
  PROVE  ShapeInv'
<1>1. CASE OperandDeeper \/ OperatorsEnd \/ Expression \/ ExpressionOperators \/ ExpressionEnd
  BY <1>1, ShapeSame DEF OperandDeeper, OperatorsEnd, Expression, ExpressionOperators,
     ExpressionEnd, Call, Return
<1>2. CASE Operator
  <2>1. stack # <<>> /\ tokens' = tokens /\ heap' = Append(heap, Fresh)
    BY <1>2 DEF Operator, At, Call
  <2>2. heap = Write(Top.tree, heap[Top.tree])
    <3>1. heap = [m \in DOMAIN heap |-> heap[m]]
      BY DEF ParserInv
    <3> QED
      BY <3>1 DEF Write
  <2> QED
    BY <2>1, <2>2, ShapeTop, ShapeWrite DEF Shapes
<1>3. CASE Combine
  <2> DEFINE x == Node("BINARY_OP", 0, OpCode(Top.op), <<New1, Top.own[1]>>)
  <2>1. /\ stack # <<>> /\ tokens' = tokens
        /\ heap' = Append(Write(Top.tree, x), heap[Top.tree])
    BY <1>3 DEF Combine, At, GoOn
  <2>2. Shaped(x)
    BY DEF Shaped, Node
  <2> QED
    BY <2>1, <2>2, ShapeWrite DEF Shapes
<1> QED
  BY <1>1, <1>2, <1>3 DEF ExpressionStep

LEMMA StatementShaped ==
  ASSUME ParserInv, ShapeInv, StatementStep
  PROVE  ShapeInv'
<1> DEFINE old == heap[Top.tree]
<1>a. stack # <<>>
  BY DEF StatementStep, PassOn, StmtLet, Assignment, LetDeclares, LetValue, LetFail, StmtReturn,
     StmtIf, IfValue, StmtFor, ForPart, ForEnd, StmtFail, StmtAssign, StmtExpression, StmtEnd, At
<1>b. old \in Nodes(Len(heap))
  BY <1>a, ShapeTop
<1>1. ASSUME NEW type, NEW code, NEW kids, NEW label, NEW part, Begin(type, code, kids, label, part),
             Shaped(Node(type, 0, code, kids))
      PROVE  ShapeInv'
  BY <1>1, <1>a, ShapeWrite DEF Begin, Call, Shapes
<1>2. CASE StmtLet
  <2>1. PICK code : heap' = Write(Top.tree, Node("STMT_ASSIGNMENT", 0, code, <<Wild, Wild>>))
    BY <1>2 DEF StmtLet
  <2>2. Shaped(Node("STMT_ASSIGNMENT", 0, code, <<Wild, Wild>>))
    BY DEF Shaped, Node
  <2> QED
    BY <1>2, <1>a, <2>1, <2>2, ShapeWrite DEF StmtLet, Call, Shapes
<1>3. CASE StmtReturn
  <2>1. Shaped(Node("STMT_RETURN", 0, Unset, <<New1>>))
    BY DEF Shaped, Node
  <2> QED
    BY <1>1, <1>3, <2>1 DEF StmtReturn
<1>4. CASE StmtIf
  <2>1. Shaped(Node("IFS", 0, Unset, <<New1, Wild, Wild>>))
    BY DEF Shaped, Node
  <2> QED
    BY <1>1, <1>4, <2>1 DEF StmtIf
<1>5. CASE StmtFor
  <2>1. Shaped(Node("LOOP_FOR", 0, Unset, <<New1, Wild, Wild, Wild>>))
    BY DEF Shaped, Node
  <2> QED
    BY <1>1, <1>5, <2>1 DEF StmtFor
<1>6. CASE LetDeclares \/ (LetFail /\ Cur = "IDENT")
  <2>1. heap' = Write(Top.tree, WithHeld(old, pos + 1)) /\ tokens' = tokens /\ Cur = "IDENT"
    BY <1>6 DEF LetDeclares, LetFail, Write, WithHeld, Return
  <2> QED
    BY <1>a, <2>1, NextIdent, ShapeTop, ShapeWrite DEF Shapes
<1>7. CASE LetFail /\ Cur # "IDENT"
  BY <1>7, ShapeSame DEF LetFail, Return
<1>8. CASE LetValue
  <2>1. heap' = Append(Write(Top.tree, WithKid(WithHeld(old, pos + 1), 2, New1)), Fresh)
    BY <1>8, <1>a, <1>b, HeapIs DEF LetValue, Write, Nodes, WithHeld, WithKid
  <2>2. tokens' = tokens /\ Cur = "IDENT"
    BY <1>8 DEF LetValue, Call
  <2> QED
    BY <1>a, <2>1, <2>2, NextIdent, ShapeTop, ShapeWrite DEF Shapes
<1>9. CASE Assignment \/ IfValue \/ ForPart
  <2>1. PICK k : heap' = Append(Write(Top.tree, WithKid(old, k, New1)), Fresh)
    BY <1>9 DEF Assignment, IfValue, ForPart, Write, WithKid
  <2>2. tokens' = tokens
    BY <1>9 DEF Assignment, IfValue, ForPart, Call
  <2> QED
    BY <1>a, <2>1, <2>2, ShapeTop, ShapeWrite DEF Shapes
<1>10. CASE StmtAssign
  <2>1. Shaped(Node("STMT_ASSIGNMENT", pos + 1, Unset, <<NullTree, New1>>))
    BY DEF Shaped, Node
  <2> QED
    BY <1>10, <1>a, <2>1, ShapeWrite DEF StmtAssign, Call, Shapes
<1>11. CASE PassOn \/ ForEnd \/ StmtFail \/ StmtExpression \/ StmtEnd
  BY <1>11, ShapeSame DEF PassOn, ForEnd, StmtFail, StmtExpression, StmtEnd, Return, Call
<1> QED
  BY <1>2, <1>3, <1>4, <1>5, <1>6, <1>7, <1>8, <1>9, <1>10, <1>11 DEF StatementStep

LEMMA BlockShaped ==
  ASSUME ParserInv, ShapeInv, BlockStep
  PROVE  ShapeInv'
<1> DEFINE old == heap[Top.tree]
<1>a. stack # <<>>
  BY DEF BlockStep, BlockFail, BlockStatement, BlockEmpty, BlockOpen, BlockNext,
     BlockClose, BlockLink, BlockLast, BlockGiveUp, At
<1>1. CASE BlockFail \/ BlockStatement \/ BlockClose \/ BlockGiveUp
  BY <1>1, ShapeSame DEF BlockFail, BlockStatement, BlockClose, BlockGiveUp, Return, Call
<1>2. CASE BlockEmpty
  <2>1. Shaped(Node("EMPTY_LVL_STMTS", 0, Unset, <<>>))
    BY DEF Shaped, Node
  <2> QED
    BY <1>2, <1>a, <2>1, ShapeWrite DEF BlockEmpty, Return, Shapes
<1>3. CASE BlockOpen
  <2>1. Shaped(Node("LVL_STMTS", 0, Unset, <<Wild, Wild>>))
    BY DEF Shaped, Node
  <2> QED
    BY <1>3, <1>a, <2>1, ShapeWrite DEF BlockOpen, GoOn, Shapes
<1>4. CASE BlockNext
  <2>1. Shaped(Node("LVL_STMTS", 0, Unset, <<New1, Wild>>))
    BY DEF Shaped, Node
  <2> QED
    BY <1>4, <1>a, <2>1, ShapeWrite DEF BlockNext, Call, Shapes
<1>5. CASE BlockLink
  <2>1. heap' = Append(Write(Top.tree, WithKid(old, 2, New1)), Fresh) /\ tokens' = tokens
    BY <1>5 DEF BlockLink, Write, WithKid, GoOn
  <2> QED
    BY <1>a, <2>1, ShapeTop, ShapeWrite DEF Shapes
<1>6. CASE BlockLast
  <2>1. heap' = Write(Top.tree, WithKid(old, 2, NullTree)) /\ tokens' = tokens
    BY <1>6 DEF BlockLast, Write, WithKid, GoOn
  <2> QED
    BY <1>a, <2>1, ShapeTop, ShapeWrite DEF Shapes
<1> QED
  BY <1>1, <1>2, <1>3, <1>4, <1>5, <1>6 DEF BlockStep

LEMMA ShapeInit == Init => ShapeInv
  BY DEF Init, ShapeInv, Shaped, Fresh, Node

LEMMA ShapeStep == ParserInv /\ ShapeInv /\ [Next]_vars => ShapeInv'
<1> SUFFICES ASSUME ParserInv, ShapeInv, [Next]_vars PROVE ShapeInv'
  OBVIOUS
<1>1. CASE Next
  BY <1>1, SmallAtomShaped, AtomShaped, ExpressionShaped, StatementShaped, BlockShaped DEF Next
<1>2. CASE UNCHANGED vars
  BY <1>2, ShapeSame DEF vars
<1> QED
  BY <1>1, <1>2

-----------------------------------------------------------------------------
(* No step goes past a T_ERR. *)

NoErrors == \A i \in 1 .. pos : tokens[i] # "T_ERR"

Taken == {"T_ERR", "END"}
Consumes ==
  \/ pos' = pos
  \/ pos' = pos + 1 /\ Cur \notin Taken
  \/ pos' = pos + 2 /\ Cur \notin Taken /\ Peek \notin Taken

LEMMA NoOperator == \A t : Prec(t) # -1 => t \notin Taken
  BY DEF Prec, Taken

LEMMA StepConsumes ==
  ASSUME ParserInv, Next
  PROVE  Consumes /\ tokens' = tokens
<1>a. pos \in Nat
  BY Tokens_
<1>1. CASE SmallAtomStep
  BY <1>1, <1>a DEF SmallAtomStep, SmallAtomLeaf, SmallAtomParen, ParenEnd, SmallAtomPrefix,
     PrefixBegins, PrefixEnd, SmallAtomFail, Advance, Call, Return, Consumes, Taken
<1>2. CASE AtomStep
  BY <1>2, <1>a DEF AtomStep, Atom, AtomEnd, AtomTrail, TrailEnd, Advance, Call, Return,
     Consumes, Taken
<1>3. CASE ExpressionStep
  <2>1. CASE Operator
    BY <2>1, NoOperator DEF Operator, Continues, Advance, Call, Consumes
  <2>2. CASE OperandDeeper \/ Combine \/ OperatorsEnd \/ Expression \/ ExpressionOperators
             \/ ExpressionEnd
    BY <2>2 DEF OperandDeeper, Combine, OperatorsEnd, Expression, ExpressionOperators,
       ExpressionEnd, Call, Return, GoOn, Consumes
  <2> QED
    BY <1>3, <2>1, <2>2 DEF ExpressionStep
<1>4. CASE StatementStep
  <2>1. CASE StmtLet \/ StmtReturn \/ StmtIf \/ StmtFor
    BY <2>1 DEF StmtLet, StmtReturn, StmtIf, StmtFor, Begin, Advance, Call, Consumes, Taken
  <2>2. CASE LetDeclares \/ LetValue \/ LetFail
    BY <2>2 DEF LetDeclares, LetValue, LetFail, Advance, Call, Return, Consumes, Taken
  <2>3. CASE PassOn \/ Assignment \/ IfValue \/ ForPart \/ ForEnd \/ StmtExpression
    BY <2>3 DEF PassOn, Assignment, IfValue, ForPart, ForEnd, StmtExpression, Call, Return, Consumes
  <2>4. CASE StmtFail \/ StmtAssign \/ StmtEnd
    BY <2>4, <1>a DEF StmtFail, StmtAssign, Assigns, StmtEnd, Advance, Call, Return, Consumes, Taken
  <2> QED
    BY <1>4, <2>1, <2>2, <2>3, <2>4 DEF StatementStep
<1>5. CASE BlockStep
  BY <1>5 DEF BlockStep, BlockFail, BlockStatement, BlockEmpty, BlockOpen, BlockNext,
     BlockClose, BlockLink, BlockLast, BlockGiveUp, Advance, Call, GoOn, Return,
     Consumes, Taken
<1> QED
  BY <1>1, <1>2, <1>3, <1>4, <1>5 DEF Next

LEMMA ErrorsStep ==
  ASSUME ParserInv, NoErrors, Next
  PROVE  NoErrors'
<1>a. /\ pos \in Nat /\ Len(tokens) \in Nat /\ tokens' = tokens
      /\ Cur \notin Taken => tokens[pos + 1] # "T_ERR"
      /\ Peek \notin Taken => tokens[pos + 2] # "T_ERR"
  BY Tokens_, StepConsumes DEF Cur, Peek, Taken
<1>1. CASE pos' = pos
  BY <1>1, <1>a DEF NoErrors
<1>2. CASE pos' = pos + 1 /\ Cur \notin Taken
  <2>1. \A i \in 1 .. pos + 1 : i \in 1 .. pos \/ i = pos + 1
    BY <1>a
  <2> QED
    BY <1>2, <1>a, <2>1 DEF NoErrors
<1>3. CASE pos' = pos + 2 /\ Cur \notin Taken /\ Peek \notin Taken
  <2>1. \A i \in 1 .. pos + 2 : i \in 1 .. pos \/ i = pos + 1 \/ i = pos + 2
    BY <1>a
  <2> QED
    BY <1>3, <1>a, <2>1 DEF NoErrors
<1> QED
  BY <1>1, <1>2, <1>3, StepConsumes DEF Consumes

-----------------------------------------------------------------------------
(* The finished tree: no node is the child of two, and the root of none.   *)

OneParent ==
  \A m, n \in DOMAIN heap : \A j, k \in 1 .. 4 :
    /\ j \in DOMAIN heap[m].kids /\ k \in DOMAIN heap[n].kids
    /\ heap[m].kids[j] = heap[n].kids[k] /\ heap[m].kids[j] > 0
    => m = n /\ j = k

RootOnTop ==
  \A m \in DOMAIN heap : \A k \in 1 .. 4 :
    k \in DOMAIN heap[m].kids => heap[m].kids[k] # 1

LEMMA FinishedTree ==
  ASSUME ParserInv, NodesInv, stack = <<>>
  PROVE  OneParent /\ RootOnTop
<1> DEFINE owners == {p \in Pointers : Target(p) > 0}
<1>1. DOMAIN stack = {}
  OBVIOUS
<1>2. InUse = DOMAIN heap
  BY <1>1 DEF InUse, Stale
<1>3. ASSUME NEW m \in DOMAIN heap, NEW k \in 1 .. 4, k \in DOMAIN heap[m].kids
      PROVE  /\ <<"field", m, k>> \in Pointers
             /\ Target(<<"field", m, k>>) = heap[m].kids[k]
  BY <1>2, <1>3 DEF Pointers, Target
<1>4. /\ {Target(p) : p \in owners} = 2 .. Len(heap)
      /\ \A p, q \in owners : Target(p) = Target(q) => p = q
  BY DEF NodesInv, OwnedOnce
<1> HIDE DEF owners
<1>5. ASSUME NEW m \in DOMAIN heap, NEW k \in 1 .. 4, k \in DOMAIN heap[m].kids,
             heap[m].kids[k] > 0
      PROVE  <<"field", m, k>> \in owners /\ Target(<<"field", m, k>>) = heap[m].kids[k]
  BY <1>3, <1>5 DEF owners
<1>6. OneParent
  <2> SUFFICES ASSUME NEW m \in DOMAIN heap, NEW n \in DOMAIN heap,
                      NEW j \in 1 .. 4, NEW k \in 1 .. 4,
                      j \in DOMAIN heap[m].kids, k \in DOMAIN heap[n].kids,
                      heap[m].kids[j] = heap[n].kids[k], heap[m].kids[j] > 0
               PROVE  m = n /\ j = k
    BY DEF OneParent
  <2>1. PICK p, q : p = <<"field", m, j>> /\ q = <<"field", n, k>>
    OBVIOUS
  <2>2. /\ p \in owners /\ Target(p) = heap[m].kids[j]
        /\ q \in owners /\ Target(q) = heap[n].kids[k]
    BY <1>5, <2>1
  <2>3. p = q
    BY <1>4, <2>2
  <2> QED
    BY <2>1, <2>3
<1>7. RootOnTop
  <2> SUFFICES ASSUME NEW m \in DOMAIN heap, NEW k \in 1 .. 4,
                      k \in DOMAIN heap[m].kids, heap[m].kids[k] = 1
               PROVE  FALSE
    BY DEF RootOnTop
  <2>1. PICK p : p = <<"field", m, k>>
    OBVIOUS
  <2>2. p \in owners /\ Target(p) = 1
    <3>1. heap[m].kids[k] > 0
      OBVIOUS
    <3>2. p \in owners /\ Target(p) = heap[m].kids[k]
      BY <1>5, <2>1, <3>1, Zenon
    <3> QED
      BY <3>2
  <2>3. 1 \in 2 .. Len(heap) /\ Len(heap) \in Nat
    BY <1>4, <2>2, Tokens_
  <2> QED
    BY <2>3
<1> QED
  BY <1>6, <1>7

-----------------------------------------------------------------------------
(* Which fields of an accepted tree are as malloc left them.               *)

Unwritten(x, k) == k \in DOMAIN x.kids /\ x.kids[k] = Wild
Full(x) == \A k : ~Unwritten(x, k)

(* The third part of an "if"; the value of "let type name;"; the statement *)
(* and the rest of a block that the last token opens.                      *)
Allowed(ts, p, x, k) ==
  \/ x.type = "IFS" /\ k = 3
  \/ /\ x.type = "STMT_ASSIGNMENT" /\ k = 2
     /\ x.held \in 1 .. Len(ts) - 1 /\ ts[x.held + 1] = "SEMICOLON"
  \/ x.type = "LVL_STMTS" /\ p \in 1 .. Len(ts) /\ p = Len(ts) /\ ts[p] = "LBRACE"

(* A function that has node x, and will write field k of it. *)
Due(ts, p, x, f, k) ==
  \/ /\ x.type = "STMT_ASSIGNMENT"
     /\ f.at = "assign" \/ (f.at = "let_name" /\ k = 2)
  \/ f.at \in {"if_cond", "stmts_next"} /\ k = 2
  \/ f.at = "for" /\ k > f.num + 1
  \/ /\ f.at = "stmts" /\ x.type = "LVL_STMTS" /\ p \in 1 .. Len(ts) /\ ts[p] = "LBRACE"
     /\ ~ (p < Len(ts) /\ ts[p + 1] = "RBRACE")

(* The functions of a statement, and those that wait for another of them.  *)
Stmts  == {"stmt", "assign", "let_name", "if_cond", "for", "stmt_end", "tail",
           "block", "stmts", "stmts_next"}
Nested == {"for", "tail", "stmts_next"}

(* Where a function may have a field of its node to write, or has just     *)
(* heard from another one of the statement.                                *)
Midway == Nested \union {"assign", "let_name", "if_cond", "stmts"}

(* A statement was not what it should be: build_block() will return false. *)
Fails(st, r) == ~r /\ (st = <<>> \/ st[Len(st)].at \in Nested)

LevelInv ==
  /\ \A i \in DOMAIN stack : i > 1 /\ stack[i].at \in Stmts => stack[i - 1].at \in Nested
  /\ \A i \in DOMAIN stack : stack[i].at = "stmt" => stack[i].num = 0

FilledInv ==
  \A n \in DOMAIN heap : \A k : Unwritten(heap[n], k) =>
    \/ Fails(stack, ret)
    \/ Allowed(tokens, pos, heap[n], k)
    \/ \E i \in DOMAIN stack : stack[i].tree = n /\ Due(tokens, pos, heap[n], stack[i], k)

LEMMA LevelReturn ==
  ASSUME ParserInv, stack # <<>>, LevelInv, stack' = Below
  PROVE  LevelInv'
<1>1. PICK n : n = Len(stack)
  OBVIOUS
<1>2. /\ n \in Nat \ {0} /\ DOMAIN stack = 1 .. n /\ DOMAIN stack' = 1 .. n - 1
      /\ \A i \in 1 .. n - 1 : stack'[i] = stack[i]
  BY <1>1, StackIs
<1>3. \A i \in 1 .. n - 1 : i \in 1 .. n /\ (i > 1 => i - 1 \in 1 .. n - 1)
  BY <1>2
<1> QED
  BY <1>2, <1>3 DEF LevelInv

LEMMA LevelGoOn ==
  ASSUME ParserInv, stack # <<>>, LevelInv, NEW f, GoOn(f),
         f.at \in Stmts => Top.at \in Stmts, f.at = "stmt" => f.num = 0
  PROVE  LevelInv'
<1>1. PICK n : n = Len(stack)
  OBVIOUS
<1>2. /\ n \in Nat \ {0} /\ DOMAIN stack = 1 .. n /\ DOMAIN stack' = 1 .. n /\ stack[n] = Top
      /\ \A i \in 1 .. n : i < n => stack'[i] = stack[i]
      /\ stack'[n] = f
  BY <1>1, StackIs
<1>3. \A i \in 1 .. n : i = n \/ i < n
  BY <1>2
<1>4. ASSUME NEW i \in 1 .. n, i > 1, stack'[i].at \in Stmts PROVE stack'[i - 1].at \in Nested
  <2>1. i - 1 \in 1 .. n /\ i - 1 < n
    BY <1>2, <1>4
  <2>2. stack'[i - 1] = stack[i - 1]
    BY <1>2, <2>1
  <2>3. stack[i].at \in Stmts
    BY <1>2, <1>3, <1>4
  <2> QED
    BY <1>2, <1>4, <2>2, <2>3 DEF LevelInv
<1>5. \A i \in 1 .. n : stack'[i].at = "stmt" => stack'[i].num = 0
  BY <1>2, <1>3 DEF LevelInv
<1> QED
  BY <1>2, <1>4, <1>5 DEF LevelInv

LEMMA LevelCall ==
  ASSUME ParserInv, stack # <<>>, LevelInv, NEW f, NEW g, Call(f, g),
         f.at \in Stmts => Top.at \in Stmts, f.at # "stmt",
         g.at \in Stmts => f.at \in Nested, g.at = "stmt" => g.num = 0
  PROVE  LevelInv'
<1>1. PICK n : n = Len(stack)
  OBVIOUS
<1>2. /\ n \in Nat \ {0} /\ DOMAIN stack = 1 .. n /\ DOMAIN stack' = 1 .. n + 1 /\ stack[n] = Top
      /\ \A i \in 1 .. n : i < n => stack'[i] = stack[i]
      /\ stack'[n] = f /\ stack'[n + 1] = g
  BY <1>1, StackIs
<1>3. \A i \in 1 .. n + 1 : i = n + 1 \/ i = n \/ (i \in 1 .. n /\ i < n)
  BY <1>2
<1>4. ASSUME NEW i \in 1 .. n + 1, i > 1, stack'[i].at \in Stmts PROVE stack'[i - 1].at \in Nested
  <2>1. CASE i = n + 1
    <3>1. i - 1 = n
      BY <1>2, <2>1
    <3> QED
      BY <1>2, <1>4, <2>1, <3>1
  <2>2. CASE i # n + 1
    <3>1. i - 1 \in 1 .. n /\ i - 1 < n /\ i \in 1 .. n
      BY <1>2, <1>4, <2>2
    <3>2. stack'[i - 1] = stack[i - 1]
      BY <1>2, <3>1
    <3>3. stack[i].at \in Stmts
      BY <1>2, <1>3, <1>4, <2>2
    <3> QED
      BY <1>2, <1>4, <3>1, <3>2, <3>3 DEF LevelInv
  <2> QED
    BY <2>1, <2>2
<1>5. \A i \in 1 .. n + 1 : stack'[i].at = "stmt" => stack'[i].num = 0
  BY <1>2, <1>3 DEF LevelInv
<1> QED
  BY <1>2, <1>4, <1>5 DEF LevelInv

(* When a function of a statement returns false, all that called it will.  *)
LEMMA FailsReturn ==
  ASSUME ParserInv, stack # <<>>, LevelInv, Top.at \in Stmts, Return(FALSE)
  PROVE  Fails(stack', ret')
<1>1. PICK n : n = Len(stack)
  OBVIOUS
<1>2. /\ n \in Nat \ {0} /\ DOMAIN stack = 1 .. n /\ stack[n] = Top
      /\ Len(stack') = n - 1 /\ DOMAIN stack' = 1 .. n - 1
      /\ \A i \in 1 .. n - 1 : stack'[i] = stack[i]
  BY <1>1, StackIs DEF Return
<1>3. ret' = FALSE
  BY DEF Return
<1>4. CASE n = 1
  <2>1. stack' = <<>>
    <3>1. stack' = SubSeq(stack, 1, 0)
      BY <1>1, <1>4 DEF Return, Below
    <3> QED
      BY <3>1
  <2> QED
    BY <1>3, <2>1 DEF Fails
<1>5. CASE n > 1
  <2>1. n \in DOMAIN stack /\ n - 1 \in 1 .. n - 1
    BY <1>2, <1>5
  <2>2. stack[n - 1].at \in Nested
    BY <1>2, <1>5, <2>1 DEF LevelInv
  <2>3. stack'[Len(stack')].at \in Nested
    BY <1>2, <2>1, <2>2
  <2> QED
    BY <1>3, <2>3 DEF Fails
<1> QED
  BY <1>2, <1>4, <1>5

-----------------------------------------------------------------------------
(* A step writes the node of the innermost function, and those that it     *)
(* allocates; the other nodes have the fields that are open from before.   *)

Ready ==
  /\ ParserInv /\ ParserInv' /\ stack # <<>> /\ FramesInv /\ LevelInv /\ FilledInv
  /\ tokens' = tokens /\ pos <= pos'

(* A field that may be left stays one. *)
LEMMA LeftStays ==
  ASSUME Ready, NEW x, NEW k, Allowed(tokens, pos, x, k)
  PROVE  Allowed(tokens', pos', x, k)
<1>1. pos \in 0 .. Len(tokens) /\ pos' \in 0 .. Len(tokens) /\ pos <= pos' /\ tokens' = tokens
      /\ Len(tokens) \in Nat
  BY DEF Ready, ParserInv
<1>2. CASE pos = Len(tokens)
  <2>1. pos' = pos
    BY <1>1, <1>2
  <2> QED
    BY <1>1, <2>1
<1>3. CASE pos # Len(tokens)
  BY <1>1, <1>3 DEF Allowed
<1> QED
  BY <1>2, <1>3

(* Of the innermost node only the innermost function writes a field. *)
LEMMA TopOpen ==
  ASSUME Ready, NEW k, Unwritten(heap[Top.tree], k)
  PROVE  \/ Fails(stack, ret)
         \/ Allowed(tokens, pos, heap[Top.tree], k)
         \/ Due(tokens, pos, heap[Top.tree], Top, k)
<1>1. Top.tree \in DOMAIN heap
  BY HeapIs DEF Ready
<1> SUFFICES ASSUME NEW i \in DOMAIN stack, stack[i].tree = Top.tree,
                    Due(tokens, pos, heap[Top.tree], stack[i], k)
             PROVE  Due(tokens, pos, heap[Top.tree], Top, k)
  BY <1>1 DEF Ready, FilledInv
<1>2. CASE i = Len(stack)
  BY <1>2, StackBase DEF Ready
<1>3. CASE i # Len(stack)
  <2>1. i \in 1 .. Len(stack) - 1 /\ i < Len(stack)
    BY <1>3, StackBase DEF Ready
  <2>2. stack[i].at \notin Working
    BY <2>1 DEF Ready, FramesInv
  <2>3. stack[i].at \in Holding
    BY <2>2 DEF Due, Working, Holding
  <2> QED
    BY <2>1, <2>3, NearApart DEF Ready, FramesInv, Near
<1> QED
  BY <1>2, <1>3

LEMMA Carry ==
  ASSUME Ready, Local,
         \A i \in 1 .. Len(stack) - 1 : i \in DOMAIN stack' /\ stack'[i] = stack[i],
         Fails(stack, ret) => Fails(stack', ret'),
         \A n \in DOMAIN heap' : n \notin DOMAIN heap => Full(heap'[n]) \/ heap'[n] = heap[Top.tree],
         (\E n \in DOMAIN heap' : n \notin DOMAIN heap /\ ~Full(heap'[n])) =>
           Top.at \notin Midway,
         \A k : Unwritten(heap'[Top.tree], k) =>
           \/ Fails(stack', ret')
           \/ Allowed(tokens', pos', heap'[Top.tree], k)
           \/ \E i \in DOMAIN stack' : stack'[i].tree = Top.tree
                /\ Due(tokens', pos', heap'[Top.tree], stack'[i], k)
  PROVE  FilledInv'
<1> SUFFICES ASSUME NEW n \in DOMAIN heap', NEW k, Unwritten(heap'[n], k), ~Fails(stack', ret')
             PROVE  \/ Allowed(tokens', pos', heap'[n], k)
                    \/ \E i \in DOMAIN stack' : stack'[i].tree = n
                         /\ Due(tokens', pos', heap'[n], stack'[i], k)
  BY Zenon DEF FilledInv
<1>1. DOMAIN heap = 1 .. Len(heap)
  BY HeapIs DEF Ready
<1>2. CASE n = Top.tree
  BY <1>2
<1>3. CASE n \notin DOMAIN heap
  <2>1. ~Full(heap'[n])
    BY DEF Full
  <2>2. heap'[n] = heap[Top.tree] /\ Top.at \notin Midway
    BY <1>3, <2>1
  <2>3. ~Due(tokens, pos, heap[Top.tree], Top, k)
    BY <2>2 DEF Due, Midway, Nested
  <2>4. Allowed(tokens, pos, heap[Top.tree], k)
    BY <2>2, <2>3, TopOpen
  <2> QED
    BY <2>2, <2>4, LeftStays
<1>4. CASE n \in DOMAIN heap /\ n # Top.tree
  <2>1. heap'[n] = heap[n]
    BY <1>1, <1>4 DEF Local
  <2>2. CASE Allowed(tokens, pos, heap[n], k)
    BY <2>1, <2>2, LeftStays
  <2>3. CASE \E i \in DOMAIN stack : stack[i].tree = n /\ Due(tokens, pos, heap[n], stack[i], k)
    <3>1. PICK i \in DOMAIN stack : stack[i].tree = n /\ Due(tokens, pos, heap[n], stack[i], k)
      BY <2>3
    <3>2. i # Len(stack)
      BY <1>4, <3>1, StackBase DEF Ready
    <3>3. i \in 1 .. Len(stack) - 1 /\ i < Len(stack)
      BY <3>2, StackBase DEF Ready
    <3>4. stack[i].at \notin Working
      BY <3>3 DEF Ready, FramesInv
    <3>5. Due(tokens', pos', heap'[n], stack[i], k)
      BY <2>1, <3>1, <3>4 DEF Due, Working
    <3>6. i \in DOMAIN stack' /\ stack'[i] = stack[i]
      BY <3>3
    <3> QED
      BY <3>1, <3>5, <3>6
  <2> QED
    BY <1>4, <2>1, <2>2, <2>3 DEF Ready, FilledInv
<1> QED
  BY <1>2, <1>3, <1>4

LEMMA Underneath ==
  ASSUME ParserInv, stack # <<>>,
         \/ stack' = Below
         \/ \E f : GoOn(f)
         \/ \E f, g : Call(f, g)
  PROVE  \A i \in 1 .. Len(stack) - 1 : i \in DOMAIN stack' /\ stack'[i] = stack[i]
<1>1. PICK n : n = Len(stack)
  OBVIOUS
<1>2. n \in Nat \ {0} /\ \A i \in 1 .. n - 1 : i \in 1 .. n /\ i < n /\ i \in 1 .. n + 1
  BY <1>1, StackBase
<1>3. CASE stack' = Below
  BY <1>1, <1>3, StackIs
<1>4. CASE \E f : GoOn(f)
  <2>1. PICK f : GoOn(f)
    BY <1>4
  <2>2. DOMAIN stack' = 1 .. n /\ \A i \in 1 .. n : i < n => stack'[i] = stack[i]
    BY <1>1, <2>1, StackIs
  <2> QED
    BY <1>1, <1>2, <2>2
<1>5. CASE \E f, g : Call(f, g)
  <2>1. PICK f, g : Call(f, g)
    BY <1>5
  <2>2. DOMAIN stack' = 1 .. n + 1 /\ \A i \in 1 .. n : i < n => stack'[i] = stack[i]
    BY <1>1, <2>1, StackIs
  <2> QED
    BY <1>1, <1>2, <2>2
<1> QED
  BY <1>3, <1>4, <1>5

LEMMA LocalBy ==
  ASSUME NEW m \in Nat, NEW n \in Nat, m = Len(heap), n >= m, Len(heap') = n, DOMAIN heap' = 1 .. n,
         \A i \in 1 .. m : i # Top.tree => heap'[i] = heap[i]
  PROVE  Local
  BY DEF Local

LEMMA LocalIs ==
  ASSUME ParserInv, stack # <<>>, NEW x, NEW y
  PROVE  /\ heap' = heap => Local /\ DOMAIN heap' = DOMAIN heap /\ heap'[Top.tree] = heap[Top.tree]
         /\ heap' = Write(Top.tree, x) =>
              Local /\ DOMAIN heap' = DOMAIN heap /\ heap'[Top.tree] = x
         /\ heap' = Append(Write(Top.tree, x), y) =>
              /\ Local /\ heap'[Top.tree] = x
              /\ \A n \in DOMAIN heap' : n \notin DOMAIN heap => heap'[n] = y
<1>m. PICK m : m = Len(heap)
  OBVIOUS
<1>1. m \in Nat /\ DOMAIN heap = 1 .. m /\ m + 1 \in Nat /\ m + 1 >= m /\ m >= m
  BY <1>m, HeapIs
<1>2. ASSUME heap' = heap
      PROVE  Local /\ DOMAIN heap' = DOMAIN heap /\ heap'[Top.tree] = heap[Top.tree]
  BY <1>m, <1>1, <1>2, LocalBy
<1>3. ASSUME heap' = Write(Top.tree, x)
      PROVE  Local /\ DOMAIN heap' = DOMAIN heap /\ heap'[Top.tree] = x
  <2>1. /\ Len(heap') = m /\ DOMAIN heap' = 1 .. m /\ heap'[Top.tree] = x
        /\ \A i \in 1 .. m : i # Top.tree => heap'[i] = heap[i]
    BY <1>3, <1>m, HeapIs
  <2> QED
    BY <1>m, <1>1, <2>1, LocalBy
<1>4. ASSUME heap' = Append(Write(Top.tree, x), y)
      PROVE  /\ Local /\ heap'[Top.tree] = x
             /\ \A n \in DOMAIN heap' : n \notin DOMAIN heap => heap'[n] = y
  <2>1. /\ Len(heap') = m + 1 /\ DOMAIN heap' = 1 .. m + 1
        /\ heap'[Top.tree] = x /\ heap'[m + 1] = y
        /\ \A i \in 1 .. m : i # Top.tree => heap'[i] = heap[i]
    BY <1>4, <1>m, HeapIs
  <2>2. \A i \in 1 .. m + 1 : i \in 1 .. m \/ i = m + 1
    BY <1>1
  <2>3. Local
    BY <1>m, <1>1, <2>1, LocalBy
  <2>4. \A n \in DOMAIN heap' : n \notin DOMAIN heap => heap'[n] = y
    BY <1>1, <2>1, <2>2, Zenon
  <2> QED
    BY <2>1, <2>3, <2>4, Zenon
<1> QED
  BY <1>2, <1>3, <1>4, Zenon

(* The entry of the innermost function, after it went on or called. *)
LEMMA Innermost ==
  ASSUME ParserInv, stack # <<>>, NEW f, GoOn(f) \/ \E g : Call(f, g)
  PROVE  Len(stack) \in DOMAIN stack' /\ stack'[Len(stack)] = f
<1>1. PICK n : n = Len(stack)
  OBVIOUS
<1>2. n \in Nat \ {0} /\ n \in 1 .. n /\ n \in 1 .. n + 1
  BY <1>1, StackBase
<1>3. CASE GoOn(f)
  BY <1>1, <1>2, <1>3, StackIs
<1>4. CASE \E g : Call(f, g)
  BY <1>1, <1>2, <1>4, StackIs
<1> QED
  BY <1>3, <1>4

(* A function that is not in the middle of a node. *)
LEMMA CarryPlain ==
  ASSUME Ready, Local, Top.at \notin Midway,
         \A i \in 1 .. Len(stack) - 1 : i \in DOMAIN stack' /\ stack'[i] = stack[i],
         \A n \in DOMAIN heap' : n \notin DOMAIN heap => Full(heap'[n]) \/ heap'[n] = heap[Top.tree],
         Full(heap'[Top.tree]) \/ heap'[Top.tree] = heap[Top.tree]
  PROVE  FilledInv'
<1>1. ~Fails(stack, ret)
  BY StackBase DEF Ready, Fails, Midway
<1>2. \A k : Unwritten(heap'[Top.tree], k) => Allowed(tokens', pos', heap'[Top.tree], k)
  <2> SUFFICES ASSUME NEW k, Unwritten(heap'[Top.tree], k) PROVE Allowed(tokens', pos', heap'[Top.tree], k)
    OBVIOUS
  <2>1. heap'[Top.tree] = heap[Top.tree]
    BY DEF Full
  <2>2. ~Due(tokens, pos, heap[Top.tree], Top, k)
    BY DEF Due, Midway, Nested
  <2>3. Allowed(tokens, pos, heap[Top.tree], k)
    BY <1>1, <2>1, <2>2, TopOpen
  <2> QED
    BY <2>1, <2>3, LeftStays
<1> QED
  BY <1>1, <1>2, Carry

LEMMA PlainSame ==
  ASSUME Ready, heap' = heap, Top.at \notin Midway,
         \/ stack' = Below
         \/ \E f : GoOn(f)
         \/ \E f, g : Call(f, g)
  PROVE  FilledInv'
<1>1. Local /\ DOMAIN heap' = DOMAIN heap /\ heap'[Top.tree] = heap[Top.tree]
  BY LocalIs DEF Ready
<1>2. \A i \in 1 .. Len(stack) - 1 : i \in DOMAIN stack' /\ stack'[i] = stack[i]
  BY Underneath DEF Ready
<1> QED
  BY <1>1, <1>2, CarryPlain

LEMMA PlainWrite ==
  ASSUME Ready, Top.at \notin Midway,
         \/ stack' = Below
         \/ \E f : GoOn(f)
         \/ \E f, g : Call(f, g),
         NEW x, Full(x) \/ x = heap[Top.tree],
         \/ heap' = Write(Top.tree, x)
         \/ heap' = Append(Write(Top.tree, x), Fresh)
         \/ heap' = Append(Write(Top.tree, x), heap[Top.tree])
  PROVE  FilledInv'
<1>1. Full(Fresh)
  BY DEF Full, Unwritten, Fresh, Node
<1>2. \A i \in 1 .. Len(stack) - 1 : i \in DOMAIN stack' /\ stack'[i] = stack[i]
  BY Underneath DEF Ready
<1>3. /\ Local /\ heap'[Top.tree] = x
      /\ \A n \in DOMAIN heap' : n \notin DOMAIN heap => heap'[n] = Fresh \/ heap'[n] = heap[Top.tree]
  BY LocalIs DEF Ready
<1> QED
  BY <1>1, <1>2, <1>3, CarryPlain

LEMMA NewFull ==
  ASSUME ParserInv
  PROVE  /\ New1 # Wild /\ New2 # Wild /\ NullTree # Wild
         /\ \A n \in 1 .. Len(heap) : n # Wild
         /\ \A type, held, code : Full(Node(type, held, code, <<>>))
         /\ \A type, held, code, a : a # Wild => Full(Node(type, held, code, <<a>>))
         /\ \A type, held, code, a, b : a # Wild /\ b # Wild => Full(Node(type, held, code, <<a, b>>))
<1>1. Len(heap) \in Nat
  BY DEF ParserInv
<1>2. New1 # Wild /\ New2 # Wild /\ NullTree # Wild /\ \A n \in 1 .. Len(heap) : n # Wild
  BY <1>1 DEF New1, New2, Wild, NullTree
<1>3. \A type, held, code : Full(Node(type, held, code, <<>>))
  BY DEF Full, Unwritten, Node
<1>4. \A type, held, code, a : a # Wild => Full(Node(type, held, code, <<a>>))
  BY DEF Full, Unwritten, Node
<1>5. \A type, held, code, a, b : a # Wild /\ b # Wild => Full(Node(type, held, code, <<a, b>>))
  BY DEF Full, Unwritten, Node
<1> QED
  BY <1>2, <1>3, <1>4, <1>5

-----------------------------------------------------------------------------
LEMMA SmallAtomFilled ==
  ASSUME Ready, SmallAtomStep
  PROVE  FilledInv' /\ LevelInv'
<1>a. ParserInv /\ stack # <<>> /\ LevelInv
  BY DEF Ready
<1>1. CASE SmallAtomLeaf
  <2>1. PICK type : heap' = Write(Top.tree, Node(type, pos + 1, Unset, <<>>))
    BY <1>1 DEF SmallAtomLeaf
  <2>2. stack' = Below /\ Top.at = "small_atom"
    BY <1>1 DEF SmallAtomLeaf, Return, At
  <2> QED
    BY <1>a, <2>1, <2>2, NewFull, PlainWrite, LevelReturn DEF Midway, Nested
<1>2. CASE SmallAtomParen
  <2>1. /\ Call(Resume("paren"), Frame("expr", Top.tree)) /\ heap' = heap /\ Top.at = "small_atom"
    BY <1>2 DEF SmallAtomParen, At
  <2>2. Resume("paren").at = "paren" /\ Frame("expr", Top.tree).at = "expr"
    BY <1>a, ResumeIs, FrameIs
  <2>3. LevelInv'
    BY <1>a, <2>1, <2>2, LevelCall DEF Stmts
  <2> QED
    BY <2>1, <2>3, PlainSame DEF Midway, Nested
<1>3. CASE ParenEnd \/ PrefixEnd \/ SmallAtomFail
  <2>1. stack' = Below /\ heap' = heap /\ Top.at \in {"paren", "prefix", "small_atom"}
    BY <1>3 DEF ParenEnd, PrefixEnd, SmallAtomFail, Return, At
  <2> QED
    BY <1>a, <2>1, PlainSame, LevelReturn DEF Midway, Nested
<1>4. CASE SmallAtomPrefix
  <2>1. PICK type : heap' = Append(Write(Top.tree, Node(type, 0, Unset, <<New1>>)), Fresh)
    BY <1>4 DEF SmallAtomPrefix
  <2>2. Call(Resume("prefix"), Frame("atom", New1)) /\ Top.at = "small_atom"
    BY <1>4 DEF SmallAtomPrefix, At
  <2>3. Resume("prefix").at = "prefix" /\ Frame("atom", New1).at = "atom"
    BY <1>a, ResumeIs, FrameIs
  <2>4. LevelInv'
    BY <1>a, <2>2, <2>3, LevelCall DEF Stmts
  <2>5. Full(Node(type, 0, Unset, <<New1>>))
    BY <1>a, NewFull
  <2> QED
    BY <2>1, <2>2, <2>4, <2>5, PlainWrite DEF Midway, Nested
<1> QED
  BY <1>1, <1>2, <1>3, <1>4 DEF SmallAtomStep

LEMMA AtomFilled ==
  ASSUME Ready, AtomStep
  PROVE  FilledInv' /\ LevelInv'
<1>a. ParserInv /\ stack # <<>> /\ LevelInv
  BY DEF Ready
<1>1. CASE Atom
  <2>1. Call(Resume("suffix"), Frame("small_atom", Top.tree)) /\ heap' = heap /\ Top.at = "atom"
    BY <1>1 DEF Atom, At
  <2>2. Resume("suffix").at = "suffix" /\ Frame("small_atom", Top.tree).at = "small_atom"
    BY <1>a, ResumeIs, FrameIs
  <2>3. LevelInv'
    BY <1>a, <2>1, <2>2, LevelCall DEF Stmts
  <2> QED
    BY <2>1, <2>3, PlainSame DEF Midway, Nested
<1>2. CASE AtomEnd
  <2>1. stack' = Below /\ heap' = heap /\ Top.at = "suffix"
    BY <1>2 DEF AtomEnd, Return, At
  <2> QED
    BY <1>a, <2>1, PlainSame, LevelReturn DEF Midway, Nested
<1>3. CASE AtomTrail
  <2> DEFINE f == [Resume("trail") EXCEPT !.own = <<New1, New2>>, !.op = Cur]
             g == Frame("atom", New2)
  <2>1. Call(f, g) /\ Top.at = "suffix"
    BY <1>3 DEF AtomTrail, At
  <2>2. f.at = "trail" /\ g.at = "atom"
    BY <1>a, ResumeAt, FrameIs
  <2> HIDE DEF f, g
  <2>3. LevelInv'
    BY <1>a, <2>1, <2>2, LevelCall DEF Stmts
  <2>4. PICK n, x : n = Len(heap) /\ x = heap[Top.tree]
    OBVIOUS
  <2>5. n \in Nat /\ heap \in Seq(Nodes(n)) /\ x \in Nodes(n) /\ heap' = heap \o <<x, Fresh>>
    BY <1>3, <1>a, <2>4, TopTyped DEF AtomTrail, ParserInv
  <2>6. /\ Len(heap') = n + 2 /\ DOMAIN heap' = 1 .. n + 2 /\ DOMAIN heap = 1 .. n
        /\ heap'[n + 1] = x /\ heap'[n + 2] = Fresh
        /\ \A m \in 1 .. n : heap'[m] = heap[m]
    <3>1. PICK N : N = Nodes(n) \union {Fresh}
      OBVIOUS
    <3>2. heap \in Seq(N) /\ x \in N /\ Fresh \in N
      BY <2>5, <3>1
    <3> QED
      BY <2>4, <2>5, <3>2
  <2>7. Local
    BY <2>4, <2>5, <2>6 DEF Local
  <2>8. Top.tree \in 1 .. n
    BY <1>a, <2>4, HeapIs
  <2>9. Full(Fresh)
    BY DEF Full, Unwritten, Fresh, Node
  <2>10. \A m \in 1 .. n + 2 : m \in 1 .. n \/ m = n + 1 \/ m = n + 2
    BY <2>5
  <2>11. \A i \in 1 .. Len(stack) - 1 : i \in DOMAIN stack' /\ stack'[i] = stack[i]
    BY <1>a, <2>1, Underneath
  <2>12. \A m \in DOMAIN heap' : m \notin DOMAIN heap => Full(heap'[m]) \/ heap'[m] = heap[Top.tree]
    BY <2>4, <2>6, <2>9, <2>10
  <2>13. heap'[Top.tree] = heap[Top.tree]
    BY <2>6, <2>8
  <2> QED
    BY <2>1, <2>3, <2>7, <2>11, <2>12, <2>13, CarryPlain DEF Midway, Nested
<1>4. CASE TrailEnd
  <2>1. stack' = Below /\ Top.at = "trail"
    BY <1>4 DEF TrailEnd, At, Return
  <2>2. PICK kind : heap' = Write(Top.tree, Node("TYPE_TRAIL", 0, kind, Top.own))
    BY <1>4 DEF TrailEnd
  <2>3. Full(Node("TYPE_TRAIL", 0, kind, Top.own))
    <3>1. PICK S, own : S = 1 .. Len(heap) /\ own = Top.own
      OBVIOUS
    <3>2. own \in Seq(S)
      BY <1>a, <3>1, TopTyped DEF GoodFrames, Frames
    <3>3. \A k \in DOMAIN own : own[k] \in S
      BY <3>2, ElementOfSeq
    <3>4. \A k \in DOMAIN own : own[k] # Wild
      BY <1>a, <3>1, <3>3, NewFull
    <3> QED
      BY <3>1, <3>4 DEF Full, Unwritten, Node
  <2> QED
    BY <1>a, <2>1, <2>2, <2>3, PlainWrite, LevelReturn DEF Midway, Nested
<1> QED
  BY <1>1, <1>2, <1>3, <1>4 DEF AtomStep

LEMMA ExpressionFilled ==
  ASSUME Ready, ExpressionStep
  PROVE  FilledInv' /\ LevelInv'
<1>a. ParserInv /\ stack # <<>> /\ LevelInv
  BY DEF Ready
<1>1. CASE Operator
  <2> DEFINE f == [Resume("nth_right") EXCEPT !.own = <<New1>>, !.op = Cur]
             g == Frame("atom", New1)
  <2>1. Call(f, g) /\ Top.at = "nth" /\ heap' = Append(heap, Fresh)
    BY <1>1 DEF Operator, At
  <2>2. f.at = "nth_right" /\ g.at = "atom"
    BY <1>a, ResumeAt, FrameIs
  <2> HIDE DEF f, g
  <2>3. LevelInv'
    BY <1>a, <2>1, <2>2, LevelCall DEF Stmts
  <2>4. heap = Write(Top.tree, heap[Top.tree])
    <3>1. heap = [m \in DOMAIN heap |-> heap[m]]
      BY <1>a DEF ParserInv
    <3> QED
      BY <3>1 DEF Write
  <2> QED
    BY <2>1, <2>3, <2>4, PlainWrite DEF Midway, Nested
<1>2. CASE OperandDeeper
  <2> DEFINE g == NthFrame(Top.own[1], Prec(Top.op) + 1)
  <2>1. Call(Resume("nth_deep"), g) /\ heap' = heap /\ Top.at = "nth_right"
    BY <1>2 DEF OperandDeeper, At
  <2>2. Resume("nth_deep").at = "nth_deep" /\ g.at = "nth"
    BY <1>a, ResumeIs, FrameAt
  <2> HIDE DEF g
  <2>3. LevelInv'
    BY <1>a, <2>1, <2>2, LevelCall DEF Stmts
  <2> QED
    BY <2>1, <2>3, PlainSame DEF Midway, Nested
<1>3. CASE Combine
  <2> DEFINE x == Node("BINARY_OP", 0, OpCode(Top.op), <<New1, Top.own[1]>>)
             f == [Resume("nth") EXCEPT !.own = <<>>]
  <2>1. /\ Top.at \in {"nth_right", "nth_deep"} /\ GoOn(f)
        /\ heap' = Append(Write(Top.tree, x), heap[Top.tree])
    BY <1>3 DEF Combine, At
  <2>2. f.at = "nth"
    BY <1>a, ResumeAt
  <2>3. Top.own[1] # Wild
    <3>1. Top.own \in Seq(1 .. Len(heap)) /\ Len(Top.own) = 1
      BY <1>a, <2>1, TopTyped DEF GoodFrames, Frames, WellFormed
    <3>2. Top.own[1] \in 1 .. Len(heap)
      BY <3>1
    <3> QED
      BY <1>a, <3>2, NewFull
  <2>4. Full(x)
    BY <1>a, <2>3, NewFull
  <2> HIDE DEF x, f
  <2>5. LevelInv'
    BY <1>a, <2>1, <2>2, LevelGoOn DEF Stmts
  <2> QED
    BY <2>1, <2>4, <2>5, PlainWrite DEF Midway, Nested
<1>4. CASE OperatorsEnd
  <2>1. stack' = Below /\ heap' = heap /\ Top.at = "nth"
    BY <1>4 DEF OperatorsEnd, Return, At
  <2> QED
    BY <1>a, <2>1, PlainSame, LevelReturn DEF Midway, Nested
<1>5. CASE Expression
  <2>1. Call(Resume("expr_ops"), Frame("atom", Top.tree)) /\ heap' = heap /\ Top.at = "expr"
    BY <1>5 DEF Expression, At
  <2>2. Resume("expr_ops").at = "expr_ops" /\ Frame("atom", Top.tree).at = "atom"
    BY <1>a, ResumeIs, FrameIs
  <2>3. LevelInv'
    BY <1>a, <2>1, <2>2, LevelCall DEF Stmts
  <2> QED
    BY <2>1, <2>3, PlainSame DEF Midway, Nested
<1>6. CASE ExpressionOperators
  <2>1. Call(Resume("expr_end"), NthFrame(Top.tree, 0)) /\ heap' = heap /\ Top.at = "expr_ops"
    BY <1>6 DEF ExpressionOperators, At
  <2>2. Resume("expr_end").at = "expr_end" /\ NthFrame(Top.tree, 0).at = "nth"
    BY <1>a, ResumeIs, FrameAt
  <2>3. LevelInv'
    BY <1>a, <2>1, <2>2, LevelCall DEF Stmts
  <2> QED
    BY <2>1, <2>3, PlainSame DEF Midway, Nested
<1>7. CASE ExpressionEnd
  <2>1. stack' = Below /\ heap' = heap /\ Top.at = "expr_end"
    BY <1>7 DEF ExpressionEnd, Return, At
  <2> QED
    BY <1>a, <2>1, PlainSame, LevelReturn DEF Midway, Nested
<1> QED
  BY <1>1, <1>2, <1>3, <1>4, <1>5, <1>6, <1>7 DEF ExpressionStep

-----------------------------------------------------------------------------
(* A node is written whose open fields may be left, or have a function     *)
(* that will write them.                                                   *)
LEMMA CarryWrite ==
  ASSUME Ready, ~Fails(stack, ret), NEW x,
         \/ heap' = Write(Top.tree, x)
         \/ heap' = Append(Write(Top.tree, x), Fresh),
         \/ stack' = Below
         \/ \E f : GoOn(f)
         \/ \E f, g : Call(f, g),
         \A k : Unwritten(x, k) =>
           \/ Allowed(tokens', pos', x, k)
           \/ \E i \in DOMAIN stack' : stack'[i].tree = Top.tree
                                       /\ Due(tokens', pos', x, stack'[i], k)
  PROVE  FilledInv'
<1>1. Full(Fresh)
  BY DEF Full, Unwritten, Fresh, Node
<1>2. \A i \in 1 .. Len(stack) - 1 : i \in DOMAIN stack' /\ stack'[i] = stack[i]
  BY Underneath DEF Ready
<1>3. /\ Local /\ heap'[Top.tree] = x
      /\ \A n \in DOMAIN heap' : n \notin DOMAIN heap => heap'[n] = Fresh
  BY LocalIs DEF Ready
<1>4. ~ \E n \in DOMAIN heap' : n \notin DOMAIN heap /\ ~Full(heap'[n])
  BY <1>1, <1>3
<1> QED
  BY <1>1, <1>2, <1>3, <1>4, Carry

(* ... or no function writes it any more. *)
LEMMA CarrySame ==
  ASSUME Ready, ~Fails(stack, ret), heap' = heap, stack' = Below,
         \A k : Unwritten(heap[Top.tree], k) => ~Due(tokens, pos, heap[Top.tree], Top, k)
  PROVE  FilledInv'
<1>1. Local /\ DOMAIN heap' = DOMAIN heap /\ heap'[Top.tree] = heap[Top.tree]
  BY LocalIs DEF Ready
<1>2. \A i \in 1 .. Len(stack) - 1 : i \in DOMAIN stack' /\ stack'[i] = stack[i]
  BY Underneath DEF Ready
<1>3. \A k : Unwritten(heap'[Top.tree], k) => Allowed(tokens', pos', heap'[Top.tree], k)
  <2> SUFFICES ASSUME NEW k, Unwritten(heap[Top.tree], k) PROVE Allowed(tokens', pos', heap[Top.tree], k)
    BY <1>1
  <2>1. Allowed(tokens, pos, heap[Top.tree], k)
    BY TopOpen
  <2> QED
    BY <2>1, LeftStays
<1> QED
  BY <1>1, <1>2, <1>3, Carry

LEMMA GiveUp ==
  ASSUME Ready, Top.at \in Stmts, Return(FALSE)
  PROVE  FilledInv' /\ LevelInv'
<1>1. Fails(stack', ret')
  BY FailsReturn DEF Ready
<1>2. LevelInv'
  BY LevelReturn DEF Ready, Return
<1> QED
  BY <1>1, <1>2 DEF FilledInv

(* The node of a waiting function, with field k0 written. *)
LEMMA KidOpen ==
  ASSUME Ready, ~Fails(stack, ret), NEW x, NEW k0, NEW v, v # Wild,
         x.type = heap[Top.tree].type, k0 \in DOMAIN heap[Top.tree].kids,
         x.kids = [heap[Top.tree].kids EXCEPT ![k0] = v],
         x.held = heap[Top.tree].held \/ k0 = 2,
         NEW k, Unwritten(x, k)
  PROVE  /\ k # k0 /\ Unwritten(heap[Top.tree], k)
         /\ Allowed(tokens', pos', x, k) \/ Due(tokens, pos, heap[Top.tree], Top, k)
<1>1. PICK old : old = heap[Top.tree]
  OBVIOUS
<1>2. k # k0 /\ Unwritten(old, k)
  BY <1>1 DEF Unwritten
<1>3. CASE Allowed(tokens, pos, old, k)
  <2>1. Allowed(tokens, pos, x, k)
    BY <1>1, <1>2, <1>3 DEF Allowed
  <2> QED
    BY <1>1, <1>2, <2>1, LeftStays
<1> QED
  BY <1>1, <1>2, <1>3, TopOpen

(* A function of a statement begins its node. *)
LEMMA BeginFilled ==
  ASSUME Ready, Top.at = "stmt",
         NEW type, NEW code, NEW kids, NEW label, NEW part, Begin(type, code, kids, label, part),
         label \in Stmts \ {"stmt"}, part \in Stmts => label \in Nested, part # "stmt",
         \A k : k \in DOMAIN kids /\ kids[k] = Wild =>
           Due(tokens', pos', Node(type, 0, code, kids), Resume(label), k)
  PROVE  FilledInv' /\ LevelInv'
<1> DEFINE x == Node(type, 0, code, kids)
           f == Resume(label)
           g == Frame(part, New1)
<1>a. ParserInv /\ stack # <<>> /\ LevelInv /\ ~Fails(stack, ret)
  BY StackBase DEF Ready, Fails, Nested
<1>1. heap' = Append(Write(Top.tree, x), Fresh) /\ Call(f, g)
  BY DEF Begin
<1>2. f.at = label /\ f.tree = Top.tree /\ g.at = part
  BY <1>a, ResumeIs, FrameIs
<1>3. x.kids = kids
  BY DEF Node
<1>4. \A k : Unwritten(x, k) => Due(tokens', pos', x, f, k)
  BY <1>3, Zenon DEF Unwritten
<1> HIDE DEF x, f, g
<1>5. LevelInv'
  BY <1>a, <1>1, <1>2, LevelCall DEF Stmts
<1>6. Len(stack) \in DOMAIN stack' /\ stack'[Len(stack)] = f
  BY <1>a, <1>1, Innermost
<1> QED
  BY <1>a, <1>1, <1>2, <1>4, <1>5, <1>6, CarryWrite

LEMMA StatementFilled ==
  ASSUME Ready, StatementStep
  PROVE  FilledInv' /\ LevelInv'
<1>a. ParserInv /\ stack # <<>> /\ LevelInv /\ tokens' = tokens
  BY DEF Ready
<1>o. PICK old : old = heap[Top.tree]
  OBVIOUS
<1>n. PICK n : n = Len(heap)
  OBVIOUS
<1>b. old \in Nodes(n) /\ n \in Nat /\ New1 # Wild /\ NullTree # Wild /\ Top \in Frames(n)
  BY <1>a, <1>o, <1>n, TopTyped, Tokens_, NewFull DEF GoodFrames
<1>c. Waits(heap, Top)
  BY <1>a, StackBase DEF Ready, FramesInv
<1>k. DOMAIN old.kids = 1 .. Len(old.kids) /\ Len(old.kids) \in Nat
  BY <1>b DEF Nodes
<1>l. Len(stack) \in DOMAIN stack
  BY <1>a, StackBase
<1>f. Top.at \notin Nested \/ ret => ~Fails(stack, ret)
  BY <1>a DEF Fails, Top
<1>1. CASE StmtLet
  <2> DEFINE f == Resume("tail")
             g == Frame("assign", Top.tree)
  <2>1. PICK x : heap' = Write(Top.tree, x) /\ x.type = "STMT_ASSIGNMENT"
    <3>1. PICK code : heap' = Write(Top.tree, Node("STMT_ASSIGNMENT", 0, code, <<Wild, Wild>>))
      BY <1>1 DEF StmtLet
    <3> QED
      BY <3>1 DEF Node
  <2>2. Call(f, g) /\ Top.at = "stmt" /\ ~Fails(stack, ret)
    BY <1>1, <1>f DEF StmtLet, At, Nested
  <2>3. f.at = "tail" /\ g.at = "assign" /\ g.tree = Top.tree
    BY <1>a, ResumeIs, FrameIs
  <2> HIDE DEF f, g
  <2>4. \A k : Due(tokens', pos', x, g, k)
    BY <2>1, <2>3 DEF Due
  <2>5. \E i \in DOMAIN stack' : stack'[i] = g
    <3>1. DOMAIN stack' = 1 .. Len(stack) + 1 /\ stack'[Len(stack) + 1] = g /\ Len(stack) \in Nat
      BY <1>a, <2>2, StackIs
    <3> QED
      BY <3>1
  <2>6. LevelInv'
    BY <1>a, <2>2, <2>3, LevelCall DEF Stmts, Nested
  <2> QED
    BY <2>1, <2>2, <2>3, <2>4, <2>5, <2>6, CarryWrite
<1>2. CASE LetDeclares
  <2> DEFINE x == WithHeld(old, pos + 1)
  <2>1. heap' = Write(Top.tree, x)
    BY <1>2, <1>o DEF LetDeclares, Write, WithHeld
  <2>2. x.held = pos + 1 /\ x.kids = old.kids /\ x.type = old.type
    BY <1>b DEF WithHeld, Nodes
  <2>3. Top.at = "let_name" /\ stack' = Below /\ ~Fails(stack, ret)
    BY <1>2, <1>f DEF LetDeclares, At, Return, Nested
  <2>4. pos + 1 \in 1 .. Len(tokens) - 1 /\ tokens[(pos + 1) + 1] = "SEMICOLON"
    <3>1. Peek = "SEMICOLON" /\ pos \in Nat /\ Len(tokens) \in Nat
      BY <1>2, <1>a, Tokens_ DEF LetDeclares
    <3>2. pos + 2 <= Len(tokens) /\ tokens[pos + 2] = "SEMICOLON"
      BY <3>1 DEF Peek
    <3> QED
      BY <3>1, <3>2
  <2> HIDE DEF x
  <2>5. ASSUME NEW k, Unwritten(x, k) PROVE Allowed(tokens', pos', x, k)
    <3>1. Unwritten(old, k)
      BY <2>2, <2>5 DEF Unwritten
    <3>2. CASE old.type = "STMT_ASSIGNMENT" /\ k = 2
      BY <1>a, <2>2, <2>4, <3>2 DEF Allowed
    <3>3. CASE ~(old.type = "STMT_ASSIGNMENT" /\ k = 2)
      <4>1. ~Due(tokens, pos, old, Top, k)
        BY <2>3, <3>3 DEF Due
      <4>2. Allowed(tokens, pos, old, k)
        BY <1>o, <2>3, <3>1, <4>1, TopOpen
      <4>3. Allowed(tokens, pos, x, k)
        BY <2>2, <3>3, <4>2 DEF Allowed
      <4> QED
        BY <4>3, LeftStays
    <3> QED
      BY <3>2, <3>3
  <2> QED
    BY <1>a, <2>1, <2>3, <2>5, CarryWrite, LevelReturn
<1>3. CASE LetValue
  <2> DEFINE x == WithKid(WithHeld(old, pos + 1), 2, New1)
             f == Resume("stmt_end")
             g == Frame("expr", New1)
  <2>1. heap' = Append(Write(Top.tree, x), Fresh)
    BY <1>3, <1>o, <1>b DEF LetValue, Write, Nodes, WithHeld, WithKid
  <2>2. x.kids = [old.kids EXCEPT ![2] = New1] /\ x.type = old.type
    BY <1>b DEF WithHeld, WithKid, Nodes
  <2>3. Top.at = "let_name" /\ Call(f, g) /\ ~Fails(stack, ret)
    BY <1>3, <1>f DEF LetValue, At, Nested
  <2>4. f.at = "stmt_end" /\ g.at = "expr"
    BY <1>a, ResumeIs, FrameIs
  <2> HIDE DEF x, f, g
  <2>5. 2 \in DOMAIN old.kids
    BY <1>c, <1>k, <1>o, <2>3 DEF Waits
  <2>6. ASSUME NEW k, Unwritten(x, k) PROVE Allowed(tokens', pos', x, k)
    <3>1. k # 2 /\ (Allowed(tokens', pos', x, k) \/ Due(tokens, pos, old, Top, k))
      BY <1>b, <1>o, <2>2, <2>3, <2>5, <2>6, KidOpen
    <3> QED
      BY <2>3, <3>1 DEF Due
  <2>7. LevelInv'
    BY <1>a, <2>3, <2>4, LevelCall DEF Stmts
  <2> QED
    BY <2>1, <2>3, <2>6, <2>7, CarryWrite
<1>4. CASE LetFail \/ StmtFail \/ (ForEnd /\ ~ret) \/ (PassOn /\ ~ret)
  <2>1. Return(FALSE) /\ Top.at \in {"let_name", "stmt", "for", "tail"}
    BY <1>4, <1>a DEF LetFail, StmtFail, ForEnd, PassOn, At, Return, ParserInv
  <2> QED
    BY <2>1, GiveUp DEF Stmts
<1>5. CASE StmtReturn
  <2>1. Begin("STMT_RETURN", Unset, <<New1>>, "stmt_end", "expr") /\ Top.at = "stmt"
    BY <1>5 DEF StmtReturn, At
  <2>2. \A k \in DOMAIN <<New1>> : <<New1>>[k] # Wild
    BY <1>b
  <2> QED
    BY <2>1, <2>2, BeginFilled DEF Stmts
<1>6. CASE StmtIf
  <2>1. Begin("IFS", Unset, <<New1, Wild, Wild>>, "if_cond", "expr") /\ Top.at = "stmt"
    BY <1>6 DEF StmtIf, At
  <2>2. Resume("if_cond").at = "if_cond"
    BY <1>a, ResumeIs
  <2> DEFINE x == Node("IFS", 0, Unset, <<New1, Wild, Wild>>)
             f == Resume("if_cond")
             g == Frame("expr", New1)
  <2>3. heap' = Append(Write(Top.tree, x), Fresh) /\ Call(f, g)
    BY <2>1 DEF Begin
  <2>4. x.type = "IFS" /\ x.kids = <<New1, Wild, Wild>> /\ f.tree = Top.tree /\ g.at = "expr"
    BY <1>a, ResumeIs, FrameIs DEF Node
  <2>5. f.at = "if_cond"
    BY <2>2
  <2> HIDE DEF x, f, g
  <2>6. Len(stack) \in DOMAIN stack' /\ stack'[Len(stack)] = f
    BY <1>a, <2>3, Innermost
  <2>7. ASSUME NEW k, Unwritten(x, k)
        PROVE  Allowed(tokens', pos', x, k) \/ Due(tokens', pos', x, f, k)
    <3>1. k = 2 \/ k = 3
      BY <1>b, <2>4, <2>7 DEF Unwritten
    <3> QED
      BY <2>4, <2>5, <3>1 DEF Allowed, Due
  <2>8. LevelInv'
    BY <1>a, <2>1, <2>3, <2>4, <2>5, LevelCall DEF Stmts
  <2>9. ~Fails(stack, ret)
    BY <1>f, <2>1 DEF Nested
  <2> QED
    BY <2>3, <2>4, <2>6, <2>7, <2>8, <2>9, CarryWrite
<1>7. CASE IfValue
  <2> DEFINE x == WithKid(old, 2, New1)
             f == Resume("tail")
             g == Frame("block", New1)
  <2>1. heap' = Append(Write(Top.tree, x), Fresh)
    BY <1>7, <1>o DEF IfValue, Write, WithKid
  <2>2. x.kids = [old.kids EXCEPT ![2] = New1] /\ x.type = old.type /\ x.held = old.held
    BY <1>b DEF WithKid, Nodes
  <2>3. Top.at = "if_cond" /\ Call(f, g) /\ ~Fails(stack, ret)
    BY <1>7, <1>f DEF IfValue, At, Nested
  <2>4. f.at = "tail" /\ g.at = "block"
    BY <1>a, ResumeIs, FrameIs
  <2> HIDE DEF x, f, g
  <2>5. 2 \in DOMAIN old.kids
    BY <1>c, <1>k, <1>o, <2>3 DEF Waits
  <2>6. ASSUME NEW k, Unwritten(x, k) PROVE Allowed(tokens', pos', x, k)
    <3>1. k # 2 /\ (Allowed(tokens', pos', x, k) \/ Due(tokens, pos, old, Top, k))
      BY <1>b, <1>o, <2>2, <2>3, <2>5, <2>6, KidOpen
    <3> QED
      BY <2>3, <3>1 DEF Due
  <2>7. LevelInv'
    BY <1>a, <2>3, <2>4, LevelCall DEF Stmts, Nested
  <2> QED
    BY <2>1, <2>3, <2>6, <2>7, CarryWrite
<1>8. CASE StmtFor
  <2>1. Begin("LOOP_FOR", Unset, <<New1, Wild, Wild, Wild>>, "for", "block") /\ Top.at = "stmt"
    BY <1>8 DEF StmtFor, At
  <2>2. Top.num = 0
    BY <1>a, <1>l, <2>1 DEF LevelInv, Top
  <2>3. Resume("for").at = "for" /\ Resume("for").num = 0
    BY <1>a, <2>2, ResumeIs
  <2>4. ASSUME NEW k \in DOMAIN <<New1, Wild, Wild, Wild>>, <<New1, Wild, Wild, Wild>>[k] = Wild
        PROVE  Due(tokens', pos', Node("LOOP_FOR", 0, Unset, <<New1, Wild, Wild, Wild>>), Resume("for"), k)
    <3>1. k \in 2 .. 4
      BY <1>b, <2>4
    <3>2. k > 0 + 1
      BY <3>1
    <3> QED
      BY <2>3, <3>2 DEF Due
  <2> QED
    BY <2>1, <2>4, BeginFilled DEF Stmts, Nested
<1>9. CASE ForPart
  <2> DEFINE x == WithKid(old, Top.num + 2, New1)
             f == [Top EXCEPT !.num = @ + 1]
             g == Frame("block", New1)
  <2>1. heap' = Append(Write(Top.tree, x), Fresh)
    BY <1>9, <1>o DEF ForPart, Write, WithKid
  <2>2. x.kids = [old.kids EXCEPT ![Top.num + 2] = New1] /\ x.type = old.type /\ x.held = old.held
    BY <1>b DEF WithKid, Nodes
  <2>3. Top.at = "for" /\ Call(f, g) /\ Top.num < 3 /\ ~Fails(stack, ret)
    BY <1>9, <1>f DEF ForPart, At
  <2>4. f.at = "for" /\ f.num = Top.num + 1 /\ f.tree = Top.tree /\ g.at = "block"
    BY <1>b, <2>3, FrameIs DEF Frames
  <2>n. Top.num \in Nat
    BY <1>b DEF Frames
  <2> HIDE DEF x, f, g
  <2>5. Top.num + 2 \in DOMAIN old.kids
    BY <1>c, <1>k, <1>o, <2>3, <2>n DEF Waits
  <2>6. Len(stack) \in DOMAIN stack' /\ stack'[Len(stack)] = f
    BY <1>a, <2>3, Innermost
  <2>7. ASSUME NEW k, Unwritten(x, k)
        PROVE  Allowed(tokens', pos', x, k) \/ Due(tokens', pos', x, f, k)
    <3>1. /\ k # Top.num + 2 /\ Unwritten(old, k)
          /\ Allowed(tokens', pos', x, k) \/ Due(tokens, pos, old, Top, k)
      BY <1>b, <1>o, <2>2, <2>3, <2>5, <2>7, KidOpen
    <3>2. k \in Nat
      BY <1>k, <3>1 DEF Unwritten
    <3>3. CASE Due(tokens, pos, old, Top, k)
      <4>1. k > Top.num + 1
        BY <2>3, <3>3 DEF Due
      <4>2. k > f.num + 1
        BY <2>4, <2>n, <3>1, <3>2, <4>1
      <4> QED
        BY <2>4, <4>2 DEF Due
    <3> QED
      BY <3>1, <3>3
  <2>8. LevelInv'
    BY <1>a, <2>3, <2>4, LevelCall DEF Stmts, Nested
  <2> QED
    BY <2>1, <2>3, <2>4, <2>6, <2>7, <2>8, CarryWrite
<1>10. CASE ForEnd /\ ret
  <2>1. Top.at = "for" /\ Top.num = 3 /\ stack' = Below /\ heap' = heap /\ ~Fails(stack, ret)
    BY <1>10, <1>f DEF ForEnd, At, Return
  <2>2. ASSUME NEW k, Unwritten(old, k) PROVE ~Due(tokens, pos, old, Top, k)
    <3>1. k \in 1 .. 4
      BY <1>c, <1>k, <1>o, <2>1, <2>2 DEF Unwritten, Waits
    <3>2. ~(k > Top.num + 1)
      BY <2>1, <3>1
    <3> QED
      BY <2>1, <3>2 DEF Due
  <2> QED
    BY <1>a, <1>o, <2>1, <2>2, CarrySame, LevelReturn
<1>11. CASE StmtAssign
  <2> DEFINE x == Node("STMT_ASSIGNMENT", pos + 1, Unset, <<NullTree, New1>>)
             f == Resume("stmt_end")
             g == Frame("expr", New1)
  <2>1. heap' = Append(Write(Top.tree, x), Fresh) /\ Call(f, g) /\ Top.at = "stmt"
    BY <1>11 DEF StmtAssign, At
  <2>2. Full(x)
    BY <1>a, <1>b, NewFull
  <2>3. f.at = "stmt_end" /\ g.at = "expr"
    BY <1>a, ResumeIs, FrameIs
  <2> HIDE DEF x, f, g
  <2>4. LevelInv'
    BY <1>a, <2>1, <2>3, LevelCall DEF Stmts
  <2> QED
    BY <2>1, <2>2, <2>4, PlainWrite DEF Midway, Nested
<1>12. CASE StmtExpression
  <2>1. /\ Call(Resume("stmt_end"), Frame("expr", Top.tree)) /\ heap' = heap /\ Top.at = "stmt"
    BY <1>12 DEF StmtExpression, At
  <2>2. Resume("stmt_end").at = "stmt_end" /\ Frame("expr", Top.tree).at = "expr"
    BY <1>a, ResumeIs, FrameIs
  <2>3. LevelInv'
    BY <1>a, <2>1, <2>2, LevelCall DEF Stmts
  <2> QED
    BY <2>1, <2>3, PlainSame DEF Midway, Nested
<1>13. CASE StmtEnd
  <2>1. stack' = Below /\ heap' = heap /\ Top.at = "stmt_end"
    BY <1>13 DEF StmtEnd, Return, At
  <2> QED
    BY <1>a, <2>1, PlainSame, LevelReturn DEF Midway, Nested
<1>14. CASE PassOn /\ ret
  <2>1. Top.at = "tail" /\ stack' = Below /\ heap' = heap /\ ~Fails(stack, ret)
    BY <1>14, <1>f DEF PassOn, At, Return
  <2>2. \A k : ~Due(tokens, pos, old, Top, k)
    BY <2>1 DEF Due
  <2> QED
    BY <1>a, <1>o, <2>1, <2>2, CarrySame, LevelReturn
<1>15. CASE Assignment
  <2> DEFINE x == WithKid(old, 1, New1)
             f == Resume("let_name")
             g == Frame("atom", New1)
  <2>1. heap' = Append(Write(Top.tree, x), Fresh)
    BY <1>15, <1>o DEF Assignment, Write, WithKid
  <2>2. x.kids = [old.kids EXCEPT ![1] = New1] /\ x.type = old.type /\ x.held = old.held
    BY <1>b DEF WithKid, Nodes
  <2>3. Top.at = "assign" /\ Call(f, g) /\ ~Fails(stack, ret)
    BY <1>15, <1>f DEF Assignment, At, Nested
  <2>4. f.at = "let_name" /\ f.tree = Top.tree /\ g.at = "atom"
    BY <1>a, ResumeIs, FrameIs
  <2> HIDE DEF x, f, g
  <2>5. DOMAIN old.kids = 1 .. 2
    BY <1>a, <1>k, <1>o, <2>3 DEF Ready, FramesInv, Begins
  <2>6. Len(stack) \in DOMAIN stack' /\ stack'[Len(stack)] = f
    BY <1>a, <2>3, Innermost
  <2>7. ASSUME NEW k, Unwritten(x, k)
        PROVE  Allowed(tokens', pos', x, k) \/ Due(tokens', pos', x, f, k)
    <3>1. /\ k # 1 /\ Unwritten(old, k)
          /\ Allowed(tokens', pos', x, k) \/ Due(tokens, pos, old, Top, k)
      BY <1>b, <1>o, <2>2, <2>3, <2>5, <2>7, KidOpen
    <3>2. k = 2
      BY <2>5, <3>1 DEF Unwritten
    <3> QED
      BY <2>2, <2>3, <2>4, <3>1, <3>2 DEF Due
  <2>8. LevelInv'
    BY <1>a, <2>3, <2>4, LevelCall DEF Stmts
  <2> QED
    BY <2>1, <2>3, <2>4, <2>6, <2>7, <2>8, CarryWrite
<1>16. /\ ForEnd => (ForEnd /\ ret) \/ (ForEnd /\ ~ret)
       /\ PassOn => (PassOn /\ ret) \/ (PassOn /\ ~ret)
  OBVIOUS
<1> QED
  BY <1>1, <1>2, <1>3, <1>4, <1>5, <1>6, <1>7, <1>8, <1>9, <1>10, <1>11, <1>12, <1>13, <1>14,
     <1>15, <1>16 DEF StatementStep

LEMMA BlockFilled ==
  ASSUME Ready, BlockStep
  PROVE  FilledInv' /\ LevelInv'
<1>a. ParserInv /\ stack # <<>> /\ LevelInv /\ tokens' = tokens
  BY DEF Ready
<1>o. PICK old : old = heap[Top.tree]
  OBVIOUS
<1>n. PICK n : n = Len(heap)
  OBVIOUS
<1>b. old \in Nodes(n) /\ n \in Nat /\ New1 # Wild /\ NullTree # Wild
  BY <1>a, <1>o, <1>n, TopTyped, Tokens_, NewFull
<1>c. Waits(heap, Top)
  BY <1>a, StackBase DEF Ready, FramesInv
<1>k. DOMAIN old.kids = 1 .. Len(old.kids) /\ Len(old.kids) \in Nat
  BY <1>b DEF Nodes
<1>f. Top.at \notin Nested \/ ret => ~Fails(stack, ret)
  BY <1>a DEF Fails, Top
<1>p. pos \in Nat /\ Len(tokens) \in Nat
  BY <1>a, Tokens_
<1>1. CASE BlockFail \/ BlockGiveUp
  <2>1. Return(FALSE) /\ Top.at \in {"block", "stmts_next"}
    BY <1>1 DEF BlockFail, BlockGiveUp, At
  <2> QED
    BY <2>1, GiveUp DEF Stmts
<1>2. CASE BlockStatement
  <2>1. Call(Resume("tail"), Frame("stmt", Top.tree)) /\ heap' = heap /\ Top.at = "block"
    BY <1>2 DEF BlockStatement, At
  <2>2. Resume("tail").at = "tail" /\ Frame("stmt", Top.tree).num = 0
    BY <1>a, ResumeIs, FrameIs
  <2>3. LevelInv'
    BY <1>a, <2>1, <2>2, LevelCall DEF Stmts, Nested
  <2> QED
    BY <2>1, <2>3, PlainSame DEF Midway, Nested
<1>3. CASE BlockEmpty
  <2>1. heap' = Write(Top.tree, Node("EMPTY_LVL_STMTS", 0, Unset, <<>>))
        /\ stack' = Below /\ Top.at = "block"
    BY <1>3 DEF BlockEmpty, Return, At
  <2> QED
    BY <1>a, <2>1, NewFull, PlainWrite, LevelReturn DEF Midway, Nested
<1>4. CASE BlockOpen
  <2> DEFINE x == Node("LVL_STMTS", 0, Unset, <<Wild, Wild>>)
             f == Resume("stmts")
  <2>1. heap' = Write(Top.tree, x) /\ GoOn(f) /\ pos' = pos + 1 /\ Top.at = "block"
    BY <1>4 DEF BlockOpen, At, Advance
  <2>2. f.at = "stmts" /\ f.tree = Top.tree
    BY <1>a, ResumeIs
  <2>3. x.type = "LVL_STMTS"
    BY DEF Node
  <2>4. /\ pos' \in 1 .. Len(tokens) /\ tokens[pos'] = "LBRACE"
        /\ ~ (pos' < Len(tokens) /\ tokens[pos' + 1] = "RBRACE")
    <3>1. Cur = "LBRACE" /\ Peek # "RBRACE"
      BY <1>4 DEF BlockOpen
    <3>2. pos < Len(tokens) /\ tokens[pos + 1] = "LBRACE"
      BY <3>1 DEF Cur
    <3>3. ~ (pos + 1 < Len(tokens) /\ tokens[pos + 2] = "RBRACE")
      BY <1>p, <3>1 DEF Peek
    <3>4. pos' = pos + 1 /\ pos' + 1 = pos + 2
      BY <1>p, <2>1
    <3> QED
      BY <1>p, <3>2, <3>3, <3>4
  <2> HIDE DEF x, f
  <2>5. \A k : Due(tokens', pos', x, f, k)
    BY <1>a, <2>2, <2>3, <2>4 DEF Due
  <2>6. Len(stack) \in DOMAIN stack' /\ stack'[Len(stack)] = f
    BY <1>a, <2>1, Innermost
  <2>7. LevelInv'
    BY <1>a, <2>1, <2>2, LevelGoOn DEF Stmts
  <2>8. ~Fails(stack, ret)
    BY <1>f, <2>1 DEF Nested
  <2> QED
    BY <2>1, <2>2, <2>5, <2>6, <2>7, <2>8, CarryWrite
<1>5. CASE BlockNext
  <2> DEFINE x == Node("LVL_STMTS", 0, Unset, <<New1, Wild>>)
             f == Resume("stmts_next")
             g == Frame("stmt", New1)
  <2>1. heap' = Append(Write(Top.tree, x), Fresh) /\ Call(f, g) /\ Top.at = "stmts"
    BY <1>5 DEF BlockNext, At
  <2>2. f.at = "stmts_next" /\ f.tree = Top.tree /\ g.at = "stmt" /\ g.num = 0
    BY <1>a, ResumeIs, FrameIs
  <2>3. x.kids = <<New1, Wild>>
    BY DEF Node
  <2> HIDE DEF x, f, g
  <2>4. ASSUME NEW k, Unwritten(x, k) PROVE Due(tokens', pos', x, f, k)
    <3>1. k = 2
      BY <1>b, <2>3, <2>4 DEF Unwritten
    <3> QED
      BY <2>2, <3>1 DEF Due
  <2>6. Len(stack) \in DOMAIN stack' /\ stack'[Len(stack)] = f
    BY <1>a, <2>1, Innermost
  <2>7. LevelInv'
    BY <1>a, <2>1, <2>2, LevelCall DEF Stmts, Nested
  <2>8. ~Fails(stack, ret)
    BY <1>f, <2>1 DEF Nested
  <2> QED
    BY <2>1, <2>2, <2>4, <2>6, <2>7, <2>8, CarryWrite
<1>6. CASE BlockClose
  <2>1. Top.at = "stmts" /\ AtClose /\ stack' = Below /\ heap' = heap
    BY <1>6 DEF BlockClose, At, Return
  <2>2. ~Fails(stack, ret)
    BY <1>f, <2>1 DEF Nested
  <2>3. ASSUME NEW k, Unwritten(old, k)
        PROVE  Allowed(tokens', pos', old, k)
    <3>1. CASE Due(tokens, pos, old, Top, k)
      <4>1. /\ old.type = "LVL_STMTS" /\ pos \in 1 .. Len(tokens) /\ tokens[pos] = "LBRACE"
            /\ ~ (pos < Len(tokens) /\ tokens[pos + 1] = "RBRACE")
        BY <2>1, <3>1 DEF Due
      <4>2. pos = Len(tokens)
        <5>1. CASE pos < Len(tokens)
          <6>1. tokens[pos + 1] \in {"RBRACE", "END"}
            BY <2>1, <5>1 DEF AtClose, Cur
          <6>2. tokens[pos + 1] \in TokType
            <7>1. tokens \in Seq(TokType) /\ pos + 1 \in 1 .. Len(tokens)
              BY <1>a, <1>p, <5>1 DEF ParserInv
            <7> QED
              BY <7>1
          <6>3. "END" \notin TokType
            BY DEF TokType
          <6> QED
            BY <4>1, <5>1, <6>1, <6>2, <6>3
        <5> QED
          BY <1>p, <4>1, <5>1
      <4>3. Allowed(tokens, pos, old, k)
        BY <4>1, <4>2 DEF Allowed
      <4> QED
        BY <4>3, LeftStays
    <3>2. CASE ~Due(tokens, pos, old, Top, k)
      <4>1. Allowed(tokens, pos, old, k)
        BY <1>o, <2>2, <2>3, <3>2, TopOpen
      <4> QED
        BY <4>1, LeftStays
    <3> QED
      BY <3>1, <3>2
  <2>4. Local /\ DOMAIN heap' = DOMAIN heap /\ heap'[Top.tree] = old
    BY <1>a, <1>o, <2>1, LocalIs
  <2>5. \A i \in 1 .. Len(stack) - 1 : i \in DOMAIN stack' /\ stack'[i] = stack[i]
    BY <1>a, <2>1, Underneath
  <2> QED
    BY <1>a, <2>1, <2>2, <2>3, <2>4, <2>5, Carry, LevelReturn
<1>7. CASE BlockLink
  <2> DEFINE x == WithKid(old, 2, New1)
             f == [Resume("stmts") EXCEPT !.tree = New1]
  <2>1. heap' = Append(Write(Top.tree, x), Fresh)
    BY <1>7, <1>o DEF BlockLink, Write, WithKid
  <2>2. x.kids = [old.kids EXCEPT ![2] = New1] /\ x.type = old.type /\ x.held = old.held
    BY <1>b DEF WithKid, Nodes
  <2>3. Top.at = "stmts_next" /\ GoOn(f) /\ ~Fails(stack, ret)
    BY <1>7, <1>f DEF BlockLink, At
  <2>4. f.at = "stmts"
    BY <1>a, ResumeAt
  <2> HIDE DEF x, f
  <2>5. 2 \in DOMAIN old.kids
    BY <1>c, <1>k, <1>o, <2>3 DEF Waits
  <2>6. ASSUME NEW k, Unwritten(x, k) PROVE Allowed(tokens', pos', x, k)
    <3>1. k # 2 /\ (Allowed(tokens', pos', x, k) \/ Due(tokens, pos, old, Top, k))
      BY <1>b, <1>o, <2>2, <2>3, <2>5, <2>6, KidOpen
    <3> QED
      BY <2>3, <3>1 DEF Due
  <2>7. LevelInv'
    BY <1>a, <2>3, <2>4, LevelGoOn DEF Stmts
  <2> QED
    BY <2>1, <2>3, <2>6, <2>7, CarryWrite
<1>8. CASE BlockLast
  <2> DEFINE x == WithKid(old, 2, NullTree)
             f == Resume("stmts")
  <2>1. heap' = Write(Top.tree, x)
    BY <1>8, <1>o DEF BlockLast, Write, WithKid
  <2>2. x.kids = [old.kids EXCEPT ![2] = NullTree] /\ x.type = old.type /\ x.held = old.held
    BY <1>b DEF WithKid, Nodes
  <2>3. Top.at = "stmts_next" /\ GoOn(f) /\ ~Fails(stack, ret)
    BY <1>8, <1>f DEF BlockLast, At
  <2>4. f.at = "stmts"
    BY <1>a, ResumeIs
  <2> HIDE DEF x, f
  <2>5. 2 \in DOMAIN old.kids
    BY <1>c, <1>k, <1>o, <2>3 DEF Waits
  <2>6. ASSUME NEW k, Unwritten(x, k) PROVE Allowed(tokens', pos', x, k)
    <3>1. k # 2 /\ (Allowed(tokens', pos', x, k) \/ Due(tokens, pos, old, Top, k))
      BY <1>b, <1>o, <2>2, <2>3, <2>5, <2>6, KidOpen
    <3> QED
      BY <2>3, <3>1 DEF Due
  <2>7. LevelInv'
    BY <1>a, <2>3, <2>4, LevelGoOn DEF Stmts
  <2> QED
    BY <2>1, <2>3, <2>6, <2>7, CarryWrite
<1> QED
  BY <1>1, <1>2, <1>3, <1>4, <1>5, <1>6, <1>7, <1>8 DEF BlockStep

LEMMA NextRuns == Next => stack # <<>>
<1>1. SmallAtomStep => stack # <<>>
  BY DEF SmallAtomStep, SmallAtomLeaf, SmallAtomParen, ParenEnd, SmallAtomPrefix, PrefixEnd,
     SmallAtomFail, At
<1>2. AtomStep => stack # <<>>
  BY DEF AtomStep, Atom, AtomEnd, AtomTrail, TrailEnd, At
<1>3. ExpressionStep => stack # <<>>
  BY DEF ExpressionStep, Operator, OperandDeeper, Combine, OperatorsEnd, Expression,
     ExpressionOperators, ExpressionEnd, At
<1>4. StatementStep => stack # <<>>
  BY DEF StatementStep, PassOn, StmtLet, Assignment, LetDeclares, LetValue, LetFail, StmtReturn, StmtIf,
     IfValue, StmtFor, ForPart, ForEnd, StmtFail, StmtAssign, StmtExpression, StmtEnd, At
<1>5. BlockStep => stack # <<>>
  BY DEF BlockStep, BlockFail, BlockStatement, BlockEmpty, BlockOpen, BlockNext,
     BlockClose, BlockLink, BlockLast, BlockGiveUp, At
<1> QED
  BY <1>1, <1>2, <1>3, <1>4, <1>5 DEF Next

LEMMA FilledInit == Init => LevelInv /\ FilledInv
<1> SUFFICES ASSUME Init PROVE LevelInv /\ FilledInv
  OBVIOUS
<1>1. /\ DOMAIN stack = {1} /\ stack[1].at = "block"
      /\ DOMAIN heap = {1} /\ heap[1].kids = <<>>
  BY DEF Init, Frame, Fresh, Node
<1>2. LevelInv
  BY <1>1 DEF LevelInv
<1>3. FilledInv
  BY <1>1 DEF FilledInv, Unwritten
<1> QED
  BY <1>2, <1>3

LEMMA FilledStep ==
  ParserInv /\ NodesInv /\ LevelInv /\ FilledInv /\ [Next]_vars => LevelInv' /\ FilledInv'
<1> SUFFICES ASSUME ParserInv, NodesInv, LevelInv, FilledInv, [Next]_vars
             PROVE  LevelInv' /\ FilledInv'
  OBVIOUS
<1>1. CASE Next
  <2>1. ParserInv'
    BY <1>1, ParserStep
  <2>2. tokens' = tokens /\ pos <= pos'
    <3>1. pos \in Nat /\ (pos' = pos \/ pos' = pos + 1 \/ pos' = pos + 2) /\ tokens' = tokens
      BY <1>1, StepConsumes, Tokens_ DEF Consumes
    <3> QED
      BY <3>1
  <2>3. stack # <<>>
    BY <1>1, NextRuns
  <2>4. Ready
    BY <2>1, <2>2, <2>3 DEF Ready, NodesInv
  <2> QED
    BY <1>1, <2>4, SmallAtomFilled, AtomFilled, ExpressionFilled, StatementFilled, BlockFilled
    DEF Next
<1>2. CASE UNCHANGED vars
  BY <1>2 DEF vars, LevelInv, FilledInv, Fails
<1> QED
  BY <1>1, <1>2

(* Whatever the tokens are, the tree that build_block() accepts has no     *)
(* pointer as malloc() left it but in the three places FieldsWritten names *)
(* (parse.c:220, 356, 442): every early return in the middle of a node     *)
(* makes the whole parse fail.                                             *)
THEOREM AcceptedFieldsWritten == Spec => []FieldsWritten
<1>1. FilledInv => FieldsWritten
  <2> SUFFICES ASSUME FilledInv, Done, ret, NEW n \in DOMAIN heap,
                      NEW k \in DOMAIN heap[n].kids, heap[n].kids[k] = Wild
               PROVE  Allowed(tokens, pos, heap[n], k)
    BY DEF Allowed, FieldsWritten
  <2>1. DOMAIN stack = {} /\ ~Fails(stack, ret)
    BY DEF Done, Fails
  <2> QED
    BY <2>1 DEF FilledInv, Unwritten
<1>2. Init => ParserInv /\ NodesInv /\ LevelInv /\ FilledInv
  BY ParserInit, NodesInit, FilledInit
<1>3. ParserInv /\ NodesInv /\ LevelInv /\ FilledInv /\ [Next]_vars
        => ParserInv' /\ NodesInv' /\ LevelInv' /\ FilledInv'
  BY ParserStep, NodesStep, FilledStep
<1> QED
  BY <1>1, <1>2, <1>3, PTL DEF Spec
=============================================================================
