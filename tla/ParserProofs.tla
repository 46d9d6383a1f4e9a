---------------------------- MODULE ParserProofs ----------------------------
(***************************************************************************)
(* Theorems about Parser, for every set of token arrays: that it stays     *)
(* within its tokens and nodes, what the functions of an expression        *)
(* return, and how deep the calls get.                                     *)
(***************************************************************************)
EXTENDS Parser, TLAPS

(* What a frame holds where its function goes on: a binary operator and    *)
(* its right operand, or the two nodes of a suffix.                        *)
WellFormed(f) ==
  /\ f.at \in {"nth_right", "nth_deep"} => Len(f.own) = 1 /\ Prec(f.op) # -1
  /\ f.at = "trail" => Len(f.own) = 2

GoodFrames(n) == {f \in Frames(n) : WellFormed(f)}

ParserInv ==
  /\ tokens \in Seq(TokType)
  /\ pos \in 0 .. Len(tokens)
  /\ stack \in Seq(GoodFrames(Len(heap)))
  /\ heap \in Seq(Nodes(Len(heap)))
  /\ ret \in BOOLEAN

-----------------------------------------------------------------------------
(* The tables. *)

LEMMA PrecRange == \A t : Prec(t) \in {-1} \union 1 .. 5
  BY DEF Prec

LEMMA PrecEnd == Prec("END") = -1
  BY DEF Prec

LEMMA OpCodeRange == \A t : Prec(t) # -1 => OpCode(t) \in 0 .. 11
  BY DEF Prec, OpCode

-----------------------------------------------------------------------------
(* Sets of frames and nodes only grow. *)

LEMMA FramesGrow ==
  ASSUME NEW m \in Nat, NEW n \in Nat, m <= n
  PROVE  GoodFrames(m) \subseteq GoodFrames(n)
  BY DEF GoodFrames, Frames

LEMMA NodesGrow ==
  ASSUME NEW m \in Nat, NEW n \in Nat, m <= n
  PROVE  Nodes(m) \subseteq Nodes(n)
  BY DEF Nodes

(* What the three ways to end a step make of the stack. *)
LEMMA StackTyped ==
  ASSUME NEW S, NEW T, S \subseteq T, stack \in Seq(S), stack # <<>>
  PROVE  /\ Top \in S /\ Below \in Seq(T)
         /\ \A f \in T : Append(Below, f) \in Seq(T)
         /\ \A f, g \in T : Append(Append(Below, f), g) \in Seq(T)
  BY DEF Top, Below

LEMMA SeqPush ==
  ASSUME NEW S, NEW T, S \subseteq T, NEW h \in Seq(S), NEW x \in T
  PROVE  Append(h, x) \in Seq(T) /\ Len(Append(h, x)) = Len(h) + 1
  OBVIOUS

-----------------------------------------------------------------------------
(* What a step starts from. *)

LEMMA Tokens_ ==
  ASSUME ParserInv
  PROVE  /\ pos \in Nat /\ Len(tokens) \in Nat /\ Len(heap) \in Nat
         /\ Cur \in TokType \union {"END"}
         /\ Cur # "END" => pos + 1 <= Len(tokens)
         /\ Peek # "END" => pos + 2 <= Len(tokens)
  BY DEF ParserInv, Cur, Peek

LEMMA TopTyped ==
  ASSUME ParserInv, stack # <<>>
  PROVE  /\ Top \in GoodFrames(Len(heap)) /\ Top.tree \in 1 .. Len(heap)
         /\ Top.num \in 0 .. 6 /\ Top.at \in Labels
         /\ heap[Top.tree] \in Nodes(Len(heap))
<1>1. Top \in GoodFrames(Len(heap))
  BY StackTyped DEF ParserInv
<1> QED
  BY <1>1 DEF ParserInv, GoodFrames, Frames

(* The frames in which no operand is held. *)
Plain == Labels \ {"nth_right", "nth_deep", "trail"}

LEMMA FrameTyped ==
  ASSUME NEW m \in Nat, NEW t \in 1 .. m, NEW at \in Plain
  PROVE  Frame(at, t) \in GoodFrames(m)
  BY DEF Frame, GoodFrames, Frames, WellFormed, Plain

LEMMA NthFrameTyped ==
  ASSUME ParserInv, NEW m \in Nat, NEW t \in 1 .. m, NEW p \in 0 .. 6
  PROVE  NthFrame(t, p) \in GoodFrames(m)
<1>1. Frame("nth", t) \in Frames(m)
  BY FrameTyped DEF GoodFrames, Plain, Labels
<1>2. NthFrame(t, p) \in Frames(m)
  BY <1>1, Tokens_ DEF NthFrame, Frames
<1>3. NthFrame(t, p).at = "nth"
  BY DEF NthFrame, Frame
<1> QED
  BY <1>2, <1>3 DEF GoodFrames, WellFormed

LEMMA ResumeTyped ==
  ASSUME ParserInv, stack # <<>>, NEW m \in Nat, m >= Len(heap), NEW at \in Plain
  PROVE  Resume(at) \in GoodFrames(m)
<1>1. Top \in GoodFrames(m)
  BY TopTyped, FramesGrow, Tokens_
<1> QED
  BY <1>1 DEF Resume, GoodFrames, Frames, WellFormed, Plain

LEMMA NodeTyped ==
  ASSUME NEW m \in Nat, NEW type \in TreeType, NEW held \in 0 .. Len(tokens),
         NEW code \in -1 .. 11, NEW kids \in Seq({NullTree, Wild} \union 1 .. m)
  PROVE  Node(type, held, code, kids) \in Nodes(m)
  BY DEF Node, Nodes

LEMMA FreshTyped ==
  ASSUME ParserInv, NEW m \in Nat
  PROVE  Fresh \in Nodes(m)
  BY Tokens_ DEF Fresh, Node, Nodes, Unset

(* *t = x. *)
LEMMA WriteTyped ==
  ASSUME ParserInv, NEW m \in Nat, Len(heap) <= m, NEW t, NEW x \in Nodes(m)
  PROVE  Write(t, x) \in Seq(Nodes(m)) /\ Len(Write(t, x)) = Len(heap)
<1>1. heap \in Seq(Nodes(m)) /\ Len(heap) \in Nat
  <2>1. heap \in Seq(Nodes(Len(heap))) /\ Len(heap) \in Nat
    BY DEF ParserInv
  <2> QED
    BY <2>1, NodesGrow
<1>2. DOMAIN Write(t, x) = 1 .. Len(heap)
  BY <1>1 DEF Write
<1>3. \A i \in 1 .. Len(heap) : Write(t, x)[i] \in Nodes(m)
  BY <1>1 DEF Write
<1>4. Write(t, x) = [i \in 1 .. Len(heap) |-> Write(t, x)[i]]
  BY <1>2 DEF Write
<1> QED
  BY <1>1, <1>2, <1>3, <1>4

(* *t = x, then malloc. *)
LEMMA AllocTyped ==
  ASSUME ParserInv, NEW t, NEW x \in Nodes(Len(heap) + 1)
  PROVE  /\ Append(Write(t, x), Fresh) \in Seq(Nodes(Len(heap) + 1))
         /\ Len(Append(Write(t, x), Fresh)) = Len(heap) + 1
<1> DEFINE m == Len(heap) + 1
<1>1. Nodes(Len(heap)) \subseteq Nodes(m) /\ m \in Nat
  BY Tokens_, NodesGrow
<1>2. Write(t, x) \in Seq(Nodes(m)) /\ Len(Write(t, x)) = Len(heap)
  BY <1>1, Tokens_, WriteTyped
<1> QED
  BY <1>1, <1>2, FreshTyped, SeqPush

(* t->held = v, and t->kids[k] = v. *)
WithHeld(x, v)   == [x EXCEPT !.held = v]
WithKid(x, k, v) == [x EXCEPT !.kids[k] = v]

LEMMA HeldTyped ==
  ASSUME NEW m \in Nat, NEW x \in Nodes(m), NEW v \in 0 .. Len(tokens)
  PROVE  WithHeld(x, v) \in Nodes(m)
  BY DEF Nodes, WithHeld

LEMMA KidTyped ==
  ASSUME NEW m \in Nat, NEW x \in Nodes(m), NEW k, NEW v \in {NullTree, Wild} \union 1 .. m
  PROVE  WithKid(x, k, v) \in Nodes(m)
<1> DEFINE K == {NullTree, Wild} \union 1 .. m
           y == [x.kids EXCEPT ![k] = v]
<1>1. x.kids \in Seq(K)
  BY DEF Nodes
<1>2. DOMAIN y = 1 .. Len(x.kids) /\ Len(x.kids) \in Nat
  BY <1>1
<1>3. \A i \in 1 .. Len(x.kids) : y[i] \in K
  BY <1>1
<1>4. y = [i \in 1 .. Len(x.kids) |-> y[i]]
  BY <1>2
<1> HIDE DEF y, K
<1>5. y \in Seq(K)
  BY <1>2, <1>3, <1>4
<1>6. [x EXCEPT !.kids = y] \in Nodes(m)
  BY <1>5 DEF Nodes, K
<1> QED
  BY <1>6 DEF y, WithKid

-----------------------------------------------------------------------------
(* ParserInv is inductive. *)

Returns == stack' = Below /\ ret' \in BOOLEAN /\ UNCHANGED tokens

(* What is left to show of a step: where pos, the heap and the frames it   *)
(* pushes are.                                                             *)
LEMMA StepTyped ==
  ASSUME ParserInv, stack # <<>>,
         pos' \in 0 .. Len(tokens),
         NEW m \in Nat, Len(heap) <= m, heap' \in Seq(Nodes(m)), Len(heap') = m,
         \/ \E f \in GoodFrames(m) : GoOn(f)
         \/ \E f, g \in GoodFrames(m) : Call(f, g)
         \/ Returns
  PROVE  ParserInv'
<1>1. tokens' = tokens /\ ret' \in BOOLEAN
  BY DEF GoOn, Call, Returns, ParserInv
<1>2. stack' \in Seq(GoodFrames(m))
  <2>1. GoodFrames(Len(heap)) \subseteq GoodFrames(m)
    BY FramesGrow, Tokens_
  <2> QED
    BY <2>1, StackTyped DEF GoOn, Call, Returns, ParserInv
<1> QED
  BY <1>1, <1>2 DEF ParserInv, GoodFrames, Frames, Nodes

(* A step that leaves the heap alone. *)
LEMMA QuietTyped ==
  ASSUME ParserInv, stack # <<>>, pos' \in 0 .. Len(tokens), UNCHANGED heap,
         \/ \E f \in GoodFrames(Len(heap)) : GoOn(f)
         \/ \E f, g \in GoodFrames(Len(heap)) : Call(f, g)
         \/ Returns
  PROVE  ParserInv'
<1>1. heap' \in Seq(Nodes(Len(heap))) /\ Len(heap) \in Nat
  BY DEF ParserInv
<1> QED
  BY <1>1, StepTyped

LEMMA ParserInit == Init => ParserInv
<1> SUFFICES ASSUME Init PROVE ParserInv
  OBVIOUS
<1>1. tokens \in Seq(TokType) /\ pos \in 0 .. Len(tokens) /\ ret \in BOOLEAN
  <2>1. tokens \in Seq(TokType)
    BY InputsAssumption, Zenon DEF Init
  <2>2. pos = 0 /\ ret \in BOOLEAN
    BY Zenon DEF Init
  <2> QED
    BY <2>1, <2>2
<1>2. Fresh \in Nodes(1) /\ heap = <<Fresh>> /\ Len(heap) = 1
  BY <1>1 DEF Init, Fresh, Node, Nodes, Unset
<1>3. Frame("block", 1) \in GoodFrames(1) /\ stack = <<Frame("block", 1)>>
  BY FrameTyped DEF Init, Plain, Labels
<1> QED
  BY <1>1, <1>2, <1>3 DEF ParserInv

LEMMA StepBasics ==
  ASSUME ParserInv, stack # <<>>
  PROVE  /\ Len(heap) \in Nat /\ heap \in Seq(Nodes(Len(heap))) /\ ret \in BOOLEAN
         /\ pos \in 0 .. Len(tokens)
         /\ Cur # "END" => pos + 1 \in 0 .. Len(tokens)
         /\ Peek # "END" => pos + 2 \in 0 .. Len(tokens)
         /\ Top.tree \in 1 .. Len(heap)
  BY Tokens_, TopTyped DEF ParserInv

LEMMA SmallAtomTyped ==
  ASSUME ParserInv, SmallAtomStep
  PROVE  ParserInv'
<1> DEFINE n == Len(heap)
<1>a. stack # <<>>
  BY DEF SmallAtomStep, SmallAtomLeaf, SmallAtomParen, ParenEnd, SmallAtomPrefix,
     PrefixEnd, SmallAtomFail, At
<1>b. /\ n \in Nat /\ heap \in Seq(Nodes(n)) /\ ret \in BOOLEAN /\ pos \in 0 .. Len(tokens)
      /\ (Cur # "END" => pos + 1 \in 0 .. Len(tokens)) /\ Top.tree \in 1 .. n
  BY <1>a, StepBasics
<1>1. CASE SmallAtomLeaf
  <2>1. \A type \in {"INT", "VARIABLE"} : Node(type, pos + 1, Unset, <<>>) \in Nodes(n)
    BY <1>1, <1>a, <1>b DEF SmallAtomLeaf, Node, Nodes, TreeType, Unset
  <2>2. heap' \in Seq(Nodes(n)) /\ Len(heap') = n
    BY <1>1, <1>b, <2>1, WriteTyped DEF SmallAtomLeaf
  <2>3. pos' \in 0 .. Len(tokens) /\ Returns
    BY <1>1, <1>b DEF SmallAtomLeaf, Advance, Return, Returns
  <2> QED
    BY <1>a, <2>2, <2>3, StepTyped
<1>2. CASE SmallAtomParen
  <2>1. Resume("paren") \in GoodFrames(n) /\ Frame("expr", Top.tree) \in GoodFrames(n)
    BY <1>a, <1>b, ResumeTyped, FrameTyped DEF Plain, Labels
  <2> QED
    BY <1>2, <1>a, <1>b, <2>1, QuietTyped DEF SmallAtomParen, Advance
<1>3. CASE ParenEnd
  <2>1. pos' \in 0 .. Len(tokens)
    BY <1>3, <1>a, <1>b DEF ParenEnd, Advance
  <2> QED
    BY <1>3, <1>a, <2>1, QuietTyped DEF ParenEnd, Return, Returns
<1>4. CASE SmallAtomPrefix
  <2>1. \A type \in {"PTR_REF", "PTR_DEREF"} : Node(type, 0, Unset, <<New1>>) \in Nodes(n + 1)
    <3>1. <<New1>> \in Seq({NullTree, Wild} \union 1 .. n + 1)
      BY <1>a DEF New1
    <3> QED
      BY <1>a, <3>1 DEF Node, Nodes, TreeType, Unset
  <2>2. heap' \in Seq(Nodes(n + 1)) /\ Len(heap') = n + 1
    <3>1. PICK type \in {"PTR_REF", "PTR_DEREF"} :
            heap' = Append(Write(Top.tree, Node(type, 0, Unset, <<New1>>)), Fresh)
      BY <1>4 DEF SmallAtomPrefix
    <3> QED
      BY <1>b, <2>1, <3>1, AllocTyped
  <2>3. Resume("prefix") \in GoodFrames(n + 1) /\ Frame("atom", New1) \in GoodFrames(n + 1)
    BY <1>a, ResumeTyped, FrameTyped DEF Plain, Labels, New1
  <2>4. pos' \in 0 .. Len(tokens) /\ Call(Resume("prefix"), Frame("atom", New1))
    BY <1>4, <1>b DEF SmallAtomPrefix, Advance, PrefixBegins
  <2> QED
    BY <1>a, <2>2, <2>3, <2>4, StepTyped
<1>5. CASE PrefixEnd
  BY <1>5, <1>a, <1>b, QuietTyped DEF PrefixEnd, Return, Returns
<1>6. CASE SmallAtomFail
  BY <1>6, <1>a, <1>b, QuietTyped DEF SmallAtomFail, Return, Returns
<1> QED
  BY <1>1, <1>2, <1>3, <1>4, <1>5, <1>6 DEF SmallAtomStep

LEMMA AtomTyped ==
  ASSUME ParserInv, AtomStep
  PROVE  ParserInv'
<1> DEFINE n == Len(heap)
<1>a. stack # <<>>
  BY DEF AtomStep, Atom, AtomEnd, AtomTrail, TrailEnd, At
<1>b. /\ n \in Nat /\ heap \in Seq(Nodes(n)) /\ ret \in BOOLEAN /\ pos \in 0 .. Len(tokens)
      /\ (Cur # "END" => pos + 1 \in 0 .. Len(tokens)) /\ Top.tree \in 1 .. n
  BY <1>a, StepBasics
<1>1. CASE Atom
  <2>1. Resume("suffix") \in GoodFrames(n) /\ Frame("small_atom", Top.tree) \in GoodFrames(n)
    BY <1>a, <1>b, ResumeTyped, FrameTyped DEF Plain, Labels
  <2> QED
    BY <1>1, <1>a, <1>b, <2>1, QuietTyped DEF Atom
<1>2. CASE AtomEnd
  BY <1>2, <1>a, <1>b, QuietTyped DEF AtomEnd, Return, Returns
<1>3. CASE AtomTrail
  <2> DEFINE f == [Resume("trail") EXCEPT !.own = <<New1, New2>>, !.op = Cur]
  <2>1. f \in GoodFrames(n + 2)
    <3>1. Top \in Frames(n + 2)
      BY <1>a, <1>b, TopTyped, FramesGrow DEF GoodFrames
    <3>2. <<New1, New2>> \in Seq(1 .. n + 2)
      BY <1>b DEF New1, New2
    <3> QED
      BY <3>1, <3>2, Tokens_ DEF Resume, GoodFrames, Frames, WellFormed, Labels
  <2>2. Frame("atom", New2) \in GoodFrames(n + 2)
    BY <1>b, FrameTyped DEF New2, Plain, Labels
  <2>3. heap' \in Seq(Nodes(n + 2)) /\ Len(heap') = n + 2
    <3>1. heap \in Seq(Nodes(n + 2)) /\ Fresh \in Nodes(n + 2)
      BY <1>b, NodesGrow, FreshTyped
    <3> QED
      BY <1>3, <1>b, <3>1 DEF AtomTrail
  <2>4. pos' \in 0 .. Len(tokens) /\ Call(f, Frame("atom", New2))
    BY <1>3, <1>b DEF AtomTrail, Advance
  <2> HIDE DEF f
  <2> QED
    BY <1>a, <1>b, <2>1, <2>2, <2>3, <2>4, StepTyped
<1>4. CASE TrailEnd
  <2>1. \A kind \in {0, 1} : Node("TYPE_TRAIL", 0, kind, Top.own) \in Nodes(n)
    <3>1. Top.own \in Seq(1 .. n)
      BY <1>a, TopTyped DEF GoodFrames, Frames
    <3>2. Top.own \in Seq({NullTree, Wild} \union 1 .. n)
      BY <3>1
    <3> QED
      BY <1>b, <3>2 DEF Node, Nodes, TreeType
  <2>2. heap' \in Seq(Nodes(n)) /\ Len(heap') = n
    BY <1>4, <1>b, <2>1, WriteTyped DEF TrailEnd
  <2> QED
    BY <1>4, <1>a, <1>b, <2>2, StepTyped DEF TrailEnd, Return, Returns
<1> QED
  BY <1>1, <1>2, <1>3, <1>4 DEF AtomStep

LEMMA ExpressionTyped ==
  ASSUME ParserInv, ExpressionStep
  PROVE  ParserInv'
<1> DEFINE n == Len(heap)
<1>a. stack # <<>>
  BY DEF ExpressionStep, Operator, OperandDeeper, Combine, OperatorsEnd, Expression,
     ExpressionOperators, ExpressionEnd, At
<1>b. /\ n \in Nat /\ heap \in Seq(Nodes(n)) /\ ret \in BOOLEAN /\ pos \in 0 .. Len(tokens)
      /\ (Cur # "END" => pos + 1 \in 0 .. Len(tokens)) /\ Top.tree \in 1 .. n
  BY <1>a, StepBasics
<1>c. /\ Top.at \in {"nth_right", "nth_deep"} =>
           Top.own[1] \in 1 .. n /\ Prec(Top.op) \in 1 .. 5
      /\ Top \in Frames(n)
  BY <1>a, TopTyped, PrecRange DEF GoodFrames, Frames, WellFormed
<1>1. CASE Operator
  <2> DEFINE f == [Resume("nth_right") EXCEPT !.own = <<New1>>, !.op = Cur]
  <2>1. f \in GoodFrames(n + 1)
    <3>1. Top \in Frames(n + 1)
      BY <1>a, <1>b, TopTyped, FramesGrow DEF GoodFrames
    <3>2. <<New1>> \in Seq(1 .. n + 1)
      BY <1>b DEF New1
    <3>3. Prec(Cur) # -1
      BY <1>1 DEF Operator, Continues
    <3> QED
      BY <3>1, <3>2, <3>3, Tokens_ DEF Resume, GoodFrames, Frames, WellFormed, Labels
  <2>2. Frame("atom", New1) \in GoodFrames(n + 1)
    BY <1>b, FrameTyped DEF New1, Plain, Labels
  <2>3. heap' \in Seq(Nodes(n + 1)) /\ Len(heap') = n + 1
    <3>1. heap \in Seq(Nodes(n + 1)) /\ Fresh \in Nodes(n + 1)
      BY <1>b, NodesGrow, FreshTyped
    <3> QED
      BY <1>1, <1>b, <3>1 DEF Operator
  <2>4. pos' \in 0 .. Len(tokens) /\ Call(f, Frame("atom", New1))
    BY <1>1, <1>b, PrecEnd DEF Operator, Advance, Continues
  <2> HIDE DEF f
  <2> QED
    BY <1>a, <1>b, <2>1, <2>2, <2>3, <2>4, StepTyped
<1>2. CASE OperandDeeper
  <2>1. Resume("nth_deep") \in GoodFrames(n)
    BY <1>2, <1>c, <1>a, TopTyped DEF OperandDeeper, At, Resume, GoodFrames, Frames,
       WellFormed, Labels
  <2>2. NthFrame(Top.own[1], Prec(Top.op) + 1) \in GoodFrames(n)
    BY <1>2, <1>b, <1>c, NthFrameTyped DEF OperandDeeper, At
  <2> QED
    BY <1>2, <1>a, <1>b, <2>1, <2>2, QuietTyped DEF OperandDeeper
<1>3. CASE Combine
  <2> DEFINE x == Node("BINARY_OP", 0, OpCode(Top.op), <<New1, Top.own[1]>>)
             f == [Resume("nth") EXCEPT !.own = <<>>]
  <2>1. Top.own[1] \in 1 .. n /\ Prec(Top.op) \in 1 .. 5
    BY <1>3, <1>c DEF Combine, At
  <2>2. x \in Nodes(n + 1)
    <3>1. <<New1, Top.own[1]>> \in Seq({NullTree, Wild} \union 1 .. n + 1)
      BY <1>b, <2>1 DEF New1
    <3>2. OpCode(Top.op) \in -1 .. 11
      BY <2>1, OpCodeRange
    <3> QED
      BY <1>b, <3>1, <3>2 DEF Node, Nodes, TreeType
  <2>3. f \in GoodFrames(n + 1)
    <3>1. Top \in Frames(n + 1)
      BY <1>a, <1>b, TopTyped, FramesGrow DEF GoodFrames
    <3>2. <<>> \in Seq(1 .. n + 1)
      OBVIOUS
    <3>3. f \in Frames(n + 1)
      BY <3>1, <3>2 DEF Resume, Frames, Labels
    <3>4. f.at = "nth"
      BY <3>1 DEF Resume, Frames
    <3> HIDE DEF f
    <3> QED
      BY <3>3, <3>4 DEF GoodFrames, WellFormed
  <2>4. heap' \in Seq(Nodes(n + 1)) /\ Len(heap') = n + 1
    <3>1. Write(Top.tree, x) \in Seq(Nodes(n + 1)) /\ Len(Write(Top.tree, x)) = n
      BY <1>b, <2>2, WriteTyped
    <3>2. heap[Top.tree] \in Nodes(n + 1)
      BY <1>b, NodesGrow
    <3>3. heap' = Append(Write(Top.tree, x), heap[Top.tree])
      BY <1>3 DEF Combine
    <3> HIDE DEF x
    <3> QED
      BY <1>b, <3>1, <3>2, <3>3
  <2>5. GoOn(f) /\ UNCHANGED pos
    BY <1>3 DEF Combine
  <2> HIDE DEF f
  <2> QED
    BY <1>a, <1>b, <2>3, <2>4, <2>5, StepTyped
<1>4. CASE OperatorsEnd
  BY <1>4, <1>a, <1>b, QuietTyped DEF OperatorsEnd, Return, Returns
<1>5. CASE Expression
  <2>1. Resume("expr_ops") \in GoodFrames(n) /\ Frame("atom", Top.tree) \in GoodFrames(n)
    BY <1>a, <1>b, ResumeTyped, FrameTyped DEF Plain, Labels
  <2> QED
    BY <1>5, <1>a, <1>b, <2>1, QuietTyped DEF Expression
<1>6. CASE ExpressionOperators
  <2>1. Resume("expr_end") \in GoodFrames(n) /\ NthFrame(Top.tree, 0) \in GoodFrames(n)
    BY <1>a, <1>b, ResumeTyped, NthFrameTyped DEF Plain, Labels
  <2> QED
    BY <1>6, <1>a, <1>b, <2>1, QuietTyped DEF ExpressionOperators
<1>7. CASE ExpressionEnd
  BY <1>7, <1>a, <1>b, QuietTyped DEF ExpressionEnd, Return, Returns
<1> QED
  BY <1>1, <1>2, <1>3, <1>4, <1>5, <1>6, <1>7 DEF ExpressionStep

(* Begin, for the three statements that start with a keyword and a part. *)
LEMMA BeginTyped ==
  ASSUME ParserInv, stack # <<>>, Cur # "END",
         NEW type \in TreeType, NEW code \in -1 .. 11,
         NEW kids \in Seq({NullTree, Wild} \union 1 .. Len(heap) + 1),
         NEW label \in Plain, NEW part \in Plain, Begin(type, code, kids, label, part)
  PROVE  ParserInv'
<1> DEFINE m == Len(heap) + 1
<1>1. Node(type, 0, code, kids) \in Nodes(m)
  BY StepBasics DEF Node, Nodes
<1>2. heap' \in Seq(Nodes(m)) /\ Len(heap') = m
  BY <1>1, AllocTyped DEF Begin
<1>3. Resume(label) \in GoodFrames(m) /\ Frame(part, New1) \in GoodFrames(m)
  BY StepBasics, ResumeTyped, FrameTyped DEF New1
<1>4. pos' \in 0 .. Len(tokens) /\ Call(Resume(label), Frame(part, New1))
  BY StepBasics DEF Begin, Advance
<1> QED
  BY <1>2, <1>3, <1>4, StepBasics, StepTyped

LEMMA StatementTyped ==
  ASSUME ParserInv, StatementStep
  PROVE  ParserInv'
<1> DEFINE n == Len(heap)
           old == heap[Top.tree]
<1>a. stack # <<>>
  BY DEF StatementStep, PassOn, StmtLet, Assignment, LetDeclares, LetValue, LetFail, StmtReturn, StmtIf,
     IfValue, StmtFor, ForPart, ForEnd, StmtFail, StmtAssign, StmtExpression, StmtEnd, At
<1>b. /\ n \in Nat /\ heap \in Seq(Nodes(n)) /\ ret \in BOOLEAN /\ pos \in 0 .. Len(tokens)
      /\ (Cur # "END" => pos + 1 \in 0 .. Len(tokens)) /\ Top.tree \in 1 .. n
      /\ (Peek # "END" => pos + 2 \in 0 .. Len(tokens))
  BY <1>a, StepBasics
<1>c. old \in Nodes(n) /\ old \in Nodes(n + 1)
  BY <1>b, NodesGrow
<1>d. \A label, part \in Plain :
        Resume(label) \in GoodFrames(n + 1) /\ Frame(part, New1) \in GoodFrames(n + 1)
  BY <1>a, <1>b, ResumeTyped, FrameTyped DEF New1
<1>e. /\ {"STMT_ASSIGNMENT", "STMT_RETURN", "IFS", "LOOP_FOR"} \subseteq TreeType
      /\ {"tail", "assign", "let_name", "atom", "stmt_end", "expr", "if_cond", "for", "block"}
            \subseteq Plain
      /\ Unset \in -1 .. 11
  BY DEF TreeType, Plain, Labels, Unset
<1>f. New1 \in {NullTree, Wild} \union 1 .. n + 1
  BY <1>b DEF New1
<1>0. CASE PassOn
  BY <1>0, <1>a, <1>b, QuietTyped DEF PassOn, Return, Returns
<1>1. CASE StmtLet
  <2>1. PICK code \in {0, 1} :
          heap' = Write(Top.tree, Node("STMT_ASSIGNMENT", 0, code, <<Wild, Wild>>))
    BY <1>1 DEF StmtLet
  <2>2. <<Wild, Wild>> \in Seq({NullTree, Wild} \union 1 .. n)
    OBVIOUS
  <2>3. Node("STMT_ASSIGNMENT", 0, code, <<Wild, Wild>>) \in Nodes(n)
    <3>1. code \in -1 .. 11 /\ 0 \in 0 .. Len(tokens)
      BY Tokens_
    <3> QED
      BY <1>b, <1>e, <2>2, <3>1, NodeTyped
  <2>4. heap' \in Seq(Nodes(n)) /\ Len(heap') = n
    BY <1>b, <2>1, <2>3, WriteTyped
  <2>5. Resume("tail") \in GoodFrames(n) /\ Frame("assign", Top.tree) \in GoodFrames(n)
    BY <1>a, <1>b, <1>e, ResumeTyped, FrameTyped
  <2>6. Call(Resume("tail"), Frame("assign", Top.tree)) /\ pos' \in 0 .. Len(tokens)
    BY <1>1, <1>b DEF StmtLet, Advance
  <2> QED
    BY <1>a, <1>b, <2>4, <2>5, <2>6, StepTyped
<1>15. CASE Assignment
  <2>1. WithKid(old, 1, New1) \in Nodes(n + 1)
    BY <1>b, <1>c, <1>f, KidTyped
  <2>2. heap' = Append(Write(Top.tree, WithKid(old, 1, New1)), Fresh)
    BY <1>15 DEF Assignment, Write, WithKid
  <2>3. heap' \in Seq(Nodes(n + 1)) /\ Len(heap') = n + 1
    BY <2>1, <2>2, AllocTyped
  <2>4. Call(Resume("let_name"), Frame("atom", New1)) /\ UNCHANGED pos
    BY <1>15 DEF Assignment
  <2> QED
    BY <1>a, <1>b, <1>d, <1>e, <2>3, <2>4, StepTyped
<1>2. CASE LetDeclares
  <2>1. heap' = Write(Top.tree, WithHeld(old, pos + 1))
    BY <1>2 DEF LetDeclares, Write, WithHeld
  <2>2. pos' \in 0 .. Len(tokens)
    BY <1>2, <1>b DEF LetDeclares, Advance
  <2>3. heap' \in Seq(Nodes(n)) /\ Len(heap') = n
    <3>1. pos + 1 \in 0 .. Len(tokens)
      BY <1>2, <1>b DEF LetDeclares
    <3>2. WithHeld(old, pos + 1) \in Nodes(n)
      BY <1>b, <1>c, <3>1, HeldTyped
    <3> HIDE DEF old
    <3> QED
      BY <1>b, <2>1, <3>2, WriteTyped
  <2> QED
    BY <1>2, <1>a, <1>b, <2>2, <2>3, StepTyped DEF LetDeclares, Return, Returns
<1>3. CASE LetValue
  <2> DEFINE x == WithHeld(old, pos + 1)
             y == WithKid(x, 2, New1)
  <2>1. x \in Nodes(n + 1)
    <3>1. pos + 1 \in 0 .. Len(tokens)
      BY <1>3, <1>b DEF LetValue
    <3> QED
      BY <1>b, <1>c, <3>1, HeldTyped
  <2>2. y \in Nodes(n + 1)
    <3> HIDE DEF x
    <3> QED
      BY <1>b, <1>f, <2>1, KidTyped
  <2>3. heap' = Append(Write(Top.tree, y), Fresh)
    BY <1>3, <1>b, <1>c DEF LetValue, Write, Nodes, WithHeld, WithKid
  <2> HIDE DEF x, y
  <2>4. heap' \in Seq(Nodes(n + 1)) /\ Len(heap') = n + 1
    BY <2>2, <2>3, AllocTyped
  <2>5. pos' \in 0 .. Len(tokens) /\ Call(Resume("stmt_end"), Frame("expr", New1))
    BY <1>3, <1>b DEF LetValue, Advance
  <2> QED
    BY <1>a, <1>b, <1>d, <2>4, <2>5, StepTyped DEF Plain, Labels
<1>4. CASE LetFail
  <2>1. CASE Cur = "IDENT"
    <3>1. heap' = Write(Top.tree, WithHeld(old, pos + 1))
      BY <1>4, <2>1 DEF LetFail, Write, WithHeld
    <3>2. pos' \in 0 .. Len(tokens)
      BY <1>4, <1>b, <2>1 DEF LetFail, Advance
    <3>3. heap' \in Seq(Nodes(n)) /\ Len(heap') = n
      <4>1. WithHeld(old, pos + 1) \in Nodes(n)
        BY <1>b, <1>c, <2>1, HeldTyped
      <4> HIDE DEF old
      <4> QED
        BY <1>b, <3>1, <4>1, WriteTyped
    <3> QED
      <4>1. Returns
        BY <1>4 DEF LetFail, Return, Returns
      <4> QED
        BY <1>a, <1>b, <3>2, <3>3, <4>1, StepTyped
  <2>2. CASE Cur # "IDENT"
    BY <1>4, <1>a, <1>b, <2>2, QuietTyped DEF LetFail, Return, Returns
  <2> QED
    BY <2>1, <2>2
<1>5. CASE StmtReturn
  <2>1. <<New1>> \in Seq({NullTree, Wild} \union 1 .. n + 1)
    BY <1>b DEF New1
  <2>2. Begin("STMT_RETURN", Unset, <<New1>>, "stmt_end", "expr") /\ Cur # "END"
    BY <1>5 DEF StmtReturn
  <2> QED
    BY <1>a, <1>e, <2>1, <2>2, BeginTyped
<1>6. CASE StmtIf
  <2>1. <<New1, Wild, Wild>> \in Seq({NullTree, Wild} \union 1 .. n + 1)
    BY <1>b DEF New1
  <2>2. Begin("IFS", Unset, <<New1, Wild, Wild>>, "if_cond", "expr") /\ Cur # "END"
    BY <1>6 DEF StmtIf
  <2> QED
    BY <1>a, <1>e, <2>1, <2>2, BeginTyped
<1>7. CASE IfValue
  <2>1. WithKid(old, 2, New1) \in Nodes(n + 1)
    BY <1>b, <1>c, <1>f, KidTyped
  <2>2. heap' = Append(Write(Top.tree, WithKid(old, 2, New1)), Fresh)
    BY <1>7 DEF IfValue, Write, WithKid
  <2>3. heap' \in Seq(Nodes(n + 1)) /\ Len(heap') = n + 1
    BY <2>1, <2>2, AllocTyped
  <2>4. Call(Resume("tail"), Frame("block", New1)) /\ UNCHANGED pos
    BY <1>7 DEF IfValue
  <2> QED
    BY <1>a, <1>b, <1>d, <1>e, <2>3, <2>4, StepTyped
<1>8. CASE StmtFor
  <2>1. <<New1, Wild, Wild, Wild>> \in Seq({NullTree, Wild} \union 1 .. n + 1)
    BY <1>b DEF New1
  <2>2. Begin("LOOP_FOR", Unset, <<New1, Wild, Wild, Wild>>, "for", "block") /\ Cur # "END"
    BY <1>8 DEF StmtFor
  <2> QED
    BY <1>a, <1>e, <2>1, <2>2, BeginTyped
<1>9. CASE ForPart
  <2> DEFINE y == WithKid(old, Top.num + 2, New1)
             f == [Top EXCEPT !.num = @ + 1]
  <2>1. y \in Nodes(n + 1)
    BY <1>b, <1>c, <1>f, KidTyped
  <2>2. heap' = Append(Write(Top.tree, y), Fresh)
    BY <1>9 DEF ForPart, Write, WithKid
  <2> HIDE DEF y
  <2>3. heap' \in Seq(Nodes(n + 1)) /\ Len(heap') = n + 1
    BY <2>1, <2>2, AllocTyped
  <2>4. f \in GoodFrames(n + 1)
    <3>1. Top \in GoodFrames(n + 1) /\ Top.num \in 0 .. 2
      BY <1>9, <1>a, <1>b, TopTyped, FramesGrow, SMTT(30) DEF ForPart
    <3> QED
      BY <3>1, SMTT(30) DEF GoodFrames, Frames, WellFormed
  <2>5. Call(f, Frame("block", New1)) /\ UNCHANGED pos
    BY <1>9 DEF ForPart
  <2> HIDE DEF f
  <2> QED
    BY <1>a, <1>b, <1>d, <2>3, <2>4, <2>5, StepTyped DEF Plain, Labels
<1>10. CASE ForEnd
  BY <1>10, <1>a, <1>b, QuietTyped DEF ForEnd, Return, Returns
<1>11. CASE StmtFail
  <2>1. pos' \in 0 .. Len(tokens)
    BY <1>11, <1>b DEF StmtFail, Advance
  <2> QED
    BY <1>11, <1>a, <2>1, QuietTyped DEF StmtFail, Return, Returns
<1>12. CASE StmtAssign
  <2> DEFINE x == Node("STMT_ASSIGNMENT", pos + 1, Unset, <<NullTree, New1>>)
  <2>1. x \in Nodes(n + 1)
    <3>1. <<NullTree, New1>> \in Seq({NullTree, Wild} \union 1 .. n + 1)
      BY <1>b DEF New1
    <3> QED
      BY <1>12, <1>b, <3>1 DEF StmtAssign, Assigns, Node, Nodes, TreeType, Unset
  <2>2. heap' = Append(Write(Top.tree, x), Fresh)
    BY <1>12 DEF StmtAssign
  <2> HIDE DEF x
  <2>3. heap' \in Seq(Nodes(n + 1)) /\ Len(heap') = n + 1
    BY <2>1, <2>2, AllocTyped
  <2>4. pos' \in 0 .. Len(tokens) /\ Call(Resume("stmt_end"), Frame("expr", New1))
    BY <1>12, <1>b DEF StmtAssign, Assigns, Advance
  <2> QED
    BY <1>a, <1>b, <1>d, <2>3, <2>4, StepTyped DEF Plain, Labels
<1>13. CASE StmtExpression
  <2>1. Resume("stmt_end") \in GoodFrames(n) /\ Frame("expr", Top.tree) \in GoodFrames(n)
    BY <1>a, <1>b, ResumeTyped, FrameTyped DEF Plain, Labels
  <2> QED
    BY <1>13, <1>a, <1>b, <2>1, QuietTyped DEF StmtExpression
<1>14. CASE StmtEnd
  <2>1. pos' \in 0 .. Len(tokens)
    BY <1>14, <1>b DEF StmtEnd, Advance
  <2> QED
    BY <1>14, <1>a, <2>1, QuietTyped DEF StmtEnd, Return, Returns
<1> QED
  BY <1>1, <1>2, <1>3, <1>4, <1>5, <1>6, <1>7, <1>8, <1>9, <1>10, <1>11, <1>12, <1>13,
     <1>14, <1>15, <1>0 DEF StatementStep

LEMMA BlockTyped ==
  ASSUME ParserInv, BlockStep
  PROVE  ParserInv'
<1> DEFINE n == Len(heap)
           old == heap[Top.tree]
<1>a. stack # <<>>
  BY DEF BlockStep, BlockFail, BlockStatement, BlockEmpty, BlockOpen, BlockNext,
     BlockClose, BlockLink, BlockLast, BlockGiveUp, At
<1>b. /\ n \in Nat /\ heap \in Seq(Nodes(n)) /\ ret \in BOOLEAN /\ pos \in 0 .. Len(tokens)
      /\ (Cur # "END" => pos + 1 \in 0 .. Len(tokens)) /\ Top.tree \in 1 .. n
  BY <1>a, StepBasics
<1>c. old \in Nodes(n) /\ old \in Nodes(n + 1)
  BY <1>b, NodesGrow
<1>1. CASE BlockFail
  BY <1>1, <1>a, <1>b, QuietTyped DEF BlockFail, Return, Returns
<1>2. CASE BlockStatement
  <2>1. Resume("tail") \in GoodFrames(n) /\ Frame("stmt", Top.tree) \in GoodFrames(n)
    BY <1>a, <1>b, ResumeTyped, FrameTyped DEF Plain, Labels
  <2> QED
    BY <1>2, <1>a, <1>b, <2>1, QuietTyped DEF BlockStatement
<1>3. CASE BlockEmpty
  <2>1. Node("EMPTY_LVL_STMTS", 0, Unset, <<>>) \in Nodes(n)
    BY <1>b DEF Node, Nodes, TreeType, Unset
  <2>2. heap' \in Seq(Nodes(n)) /\ Len(heap') = n
    BY <1>3, <1>b, <2>1, WriteTyped DEF BlockEmpty
  <2>3. pos' \in 0 .. Len(tokens)
    BY <1>3, <1>b DEF BlockEmpty, Advance
  <2> QED
    BY <1>3, <1>a, <1>b, <2>2, <2>3, StepTyped DEF BlockEmpty, Return, Returns
<1>4. CASE BlockOpen
  <2>1. Node("LVL_STMTS", 0, Unset, <<Wild, Wild>>) \in Nodes(n)
    BY <1>b DEF Node, Nodes, TreeType, Unset
  <2>2. heap' \in Seq(Nodes(n)) /\ Len(heap') = n
    BY <1>4, <1>b, <2>1, WriteTyped DEF BlockOpen
  <2>3. pos' \in 0 .. Len(tokens) /\ GoOn(Resume("stmts"))
    BY <1>4, <1>b DEF BlockOpen, Advance
  <2>4. Resume("stmts") \in GoodFrames(n)
    BY <1>a, <1>b, ResumeTyped DEF Plain, Labels
  <2> QED
    BY <1>a, <1>b, <2>2, <2>3, <2>4, StepTyped
<1>5. CASE BlockNext
  <2> DEFINE x == Node("LVL_STMTS", 0, Unset, <<New1, Wild>>)
  <2>1. x \in Nodes(n + 1)
    <3>1. <<New1, Wild>> \in Seq({NullTree, Wild} \union 1 .. n + 1)
      BY <1>b DEF New1
    <3> QED
      BY <1>b, <3>1 DEF Node, Nodes, TreeType, Unset
  <2>2. heap' = Append(Write(Top.tree, x), Fresh)
    BY <1>5 DEF BlockNext
  <2> HIDE DEF x
  <2>3. heap' \in Seq(Nodes(n + 1)) /\ Len(heap') = n + 1
    BY <2>1, <2>2, AllocTyped
  <2>4. UNCHANGED pos /\ Call(Resume("stmts_next"), Frame("stmt", New1))
    BY <1>5 DEF BlockNext
  <2>5. Resume("stmts_next") \in GoodFrames(n + 1) /\ Frame("stmt", New1) \in GoodFrames(n + 1)
    BY <1>a, <1>b, ResumeTyped, FrameTyped DEF Plain, Labels, New1
  <2> QED
    BY <1>a, <1>b, <2>3, <2>4, <2>5, StepTyped
<1>6. CASE BlockClose
  BY <1>6, <1>a, <1>b, QuietTyped DEF BlockClose, Return, Returns
<1>7. CASE BlockLink
  <2> DEFINE f == [Resume("stmts") EXCEPT !.tree = New1]
  <2>1. WithKid(old, 2, New1) \in Nodes(n + 1)
    <3>1. New1 \in {NullTree, Wild} \union 1 .. n + 1
      BY <1>b DEF New1
    <3> QED
      BY <1>b, <1>c, <3>1, KidTyped
  <2>2. heap' = Append(Write(Top.tree, WithKid(old, 2, New1)), Fresh)
    BY <1>7 DEF BlockLink, Write, WithKid
  <2>3. heap' \in Seq(Nodes(n + 1)) /\ Len(heap') = n + 1
    BY <2>1, <2>2, AllocTyped
  <2>4. f \in GoodFrames(n + 1)
    <3>1. Resume("stmts") \in Frames(n + 1) /\ Resume("stmts").at = "stmts"
      <4>1. Top \in Frames(n + 1)
        BY <1>a, <1>b, TopTyped, FramesGrow DEF GoodFrames
      <4> QED
        BY <4>1 DEF Resume, Frames, Labels
    <3> QED
      BY <1>b, <3>1, SMTT(30) DEF GoodFrames, Frames, WellFormed, New1
  <2>5. GoOn(f) /\ UNCHANGED pos
    BY <1>7 DEF BlockLink
  <2> HIDE DEF f
  <2> QED
    BY <1>a, <1>b, <2>3, <2>4, <2>5, StepTyped
<1>8. CASE BlockLast
  <2>1. WithKid(old, 2, NullTree) \in Nodes(n)
    BY <1>b, <1>c, KidTyped
  <2>2. heap' = Write(Top.tree, WithKid(old, 2, NullTree))
    BY <1>8 DEF BlockLast, Write, WithKid
  <2>3. heap' \in Seq(Nodes(n)) /\ Len(heap') = n
    BY <1>b, <2>1, <2>2, WriteTyped
  <2>4. GoOn(Resume("stmts")) /\ UNCHANGED pos
    BY <1>8 DEF BlockLast
  <2>5. Resume("stmts") \in GoodFrames(n)
    BY <1>a, <1>b, ResumeTyped DEF Plain, Labels
  <2> QED
    BY <1>a, <1>b, <2>3, <2>4, <2>5, StepTyped
<1>9. CASE BlockGiveUp
  BY <1>9, <1>a, <1>b, QuietTyped DEF BlockGiveUp, Return, Returns
<1> QED
  BY <1>1, <1>2, <1>3, <1>4, <1>5, <1>6, <1>7, <1>8, <1>9 DEF BlockStep

LEMMA ParserStep == ParserInv /\ [Next]_vars => ParserInv'
<1>1. ParserInv /\ UNCHANGED vars => ParserInv'
  BY DEF vars, ParserInv, GoodFrames, Frames, Nodes
<1> QED
  BY <1>1, SmallAtomTyped, AtomTyped, ExpressionTyped, StatementTyped, BlockTyped DEF Next

THEOREM ParserInvariant == Spec => []ParserInv
  BY ParserInit, ParserStep, PTL DEF Spec

(* Whatever the tokens are, the parser stays within them and within the    *)
(* nodes it has allocated, and finds in its frames what it left there.     *)
THEOREM ParserTypeOK == Spec => []TypeOK
<1>1. ParserInv => TypeOK
  BY DEF ParserInv, TypeOK, GoodFrames
<1> QED
  BY <1>1, ParserInvariant, PTL

-----------------------------------------------------------------------------
(* Where the functions atom, nth and expr are, and where a caller of one   *)
(* of them goes on when it has returned.                                   *)
InExpression == {"atom", "suffix", "trail", "nth", "nth_right", "nth_deep",
                 "expr", "expr_ops", "expr_end"}
AfterExpression == {"paren", "prefix", "trail", "nth_right", "nth_deep",
                    "expr_ops", "expr_end", "let_name", "if_cond", "stmt_end"}

(* How many calls deep a function may get from here before a token is      *)
(* consumed.                                                               *)
Reserve(at) ==
  CASE at \in {"atom", "nth_right", "expr_ops"}    -> 1
    [] at \in {"expr", "assign"}                   -> 2
    [] at = "stmt"                                 -> 3
    [] at \in {"block", "stmts", "stmts_next"}     -> 4
    [] at \in {"if_cond", "for"}                   -> 5
    [] OTHER                                       -> 0

CallsInv ==
  /\ \A i \in DOMAIN stack : i + Reserve(stack[i].at) <= 3 * pos + 5
  /\ \A i \in DOMAIN stack :
       i + 1 \in DOMAIN stack /\ stack[i].at \in AfterExpression
         => stack[i + 1].at \in InExpression
  /\ stack # <<>> /\ Top.at \in AfterExpression => ret

-----------------------------------------------------------------------------
(* What every step does to the labels: the function stays the one it is,   *)
(* an expression is called for where one is awaited, and a call that goes  *)
(* deeper than the reserve has consumed a token.                           *)

Stays(to, used) ==
  /\ Top.at \in InExpression => to \in InExpression
  /\ Reserve(to) <= Reserve(Top.at) + 3 * used

GoesOn(to, used) ==
  /\ \E f : GoOn(f) /\ f.at = to
  /\ Stays(to, used) /\ to \notin AfterExpression

Calls(to, callee, used) ==
  /\ \E f, g : Call(f, g) /\ f.at = to /\ g.at = callee
  /\ Stays(to, used)
  /\ to \in AfterExpression => callee \in InExpression
  /\ callee \notin AfterExpression
  /\ Reserve(callee) + 1 <= Reserve(Top.at) + 3 * used

GivesBack ==
  /\ stack' = Below
  /\ Top.at \in InExpression => ret' = TRUE \/ (Top.at \in AfterExpression /\ ret' = ret)

Shape ==
  \E used \in 0 .. 2 :
    /\ pos' = pos + used
    /\ \/ \E to : GoesOn(to, used)
       \/ \E to, callee : Calls(to, callee, used)
       \/ GivesBack

-----------------------------------------------------------------------------
LEMMA ResumeAt ==
  ASSUME ParserInv, stack # <<>>, NEW label
  PROVE  /\ Resume(label).at = label
         /\ \A own, op : [Resume(label) EXCEPT !.own = own, !.op = op].at = label
         /\ \A own : [Resume(label) EXCEPT !.own = own].at = label
         /\ \A tree : [Resume(label) EXCEPT !.tree = tree].at = label
         /\ \A num : [Top EXCEPT !.num = num].at = Top.at
<1>1. Top \in Frames(Len(heap))
  BY TopTyped DEF GoodFrames
<1> QED
  BY <1>1 DEF Resume, Frames

LEMMA FrameAt == \A at, tree, p : Frame(at, tree).at = at /\ NthFrame(tree, p).at = "nth"
  BY DEF Frame, NthFrame

LEMMA CallShape ==
  ASSUME NEW used \in 0 .. 2, pos' = pos + used, NEW f, NEW g, Call(f, g),
         Stays(f.at, used), f.at \in AfterExpression => g.at \in InExpression,
         g.at \notin AfterExpression, Reserve(g.at) + 1 <= Reserve(Top.at) + 3 * used
  PROVE  Shape
<1>1. Calls(f.at, g.at, used)
  BY Zenon DEF Calls
<1> QED
  BY <1>1, Zenon DEF Shape

LEMMA GoOnShape ==
  ASSUME NEW used \in 0 .. 2, pos' = pos + used, NEW f, GoOn(f),
         Stays(f.at, used), f.at \notin AfterExpression
  PROVE  Shape
<1>1. GoesOn(f.at, used)
  BY Zenon DEF GoesOn
<1> QED
  BY <1>1, Zenon DEF Shape

LEMMA ReturnShape ==
  ASSUME ParserInv, pos' \in {pos, pos + 1}, stack' = Below,
         Top.at \in InExpression => ret' = TRUE \/ (Top.at \in AfterExpression /\ ret' = ret)
  PROVE  Shape
<1>1. \E used \in 0 .. 2 : pos' = pos + used
  BY Tokens_
<1>2. GivesBack
  BY DEF GivesBack
<1> QED
  BY <1>1, <1>2 DEF Shape

LEMMA SmallAtomShape ==
  ASSUME ParserInv, SmallAtomStep
  PROVE  Shape /\ stack # <<>>
<1>a. stack # <<>>
  BY DEF SmallAtomStep, SmallAtomLeaf, SmallAtomParen, ParenEnd, SmallAtomPrefix,
     PrefixEnd, SmallAtomFail, At
<1>1. CASE SmallAtomParen
  <2>1. /\ Resume("paren").at = "paren" /\ Frame("expr", Top.tree).at = "expr"
    BY <1>a, ResumeAt, FrameAt
  <2>2. /\ Top.at = "small_atom" /\ pos' = pos + 1
        /\ Call(Resume("paren"), Frame("expr", Top.tree))
    BY <1>1 DEF SmallAtomParen, At, Advance
  <2> QED
    BY <1>a, <2>1, <2>2, CallShape DEF Stays, Reserve, InExpression, AfterExpression
<1>2. CASE SmallAtomPrefix
  <2>1. /\ Resume("prefix").at = "prefix" /\ Frame("atom", New1).at = "atom"
    BY <1>a, ResumeAt, FrameAt
  <2>2. /\ Top.at = "small_atom" /\ pos' = pos + 1
        /\ Call(Resume("prefix"), Frame("atom", New1))
    BY <1>2 DEF SmallAtomPrefix, At, Advance
  <2> QED
    BY <1>a, <2>1, <2>2, CallShape DEF Stays, Reserve, InExpression, AfterExpression
<1>3. CASE SmallAtomLeaf \/ ParenEnd \/ PrefixEnd \/ SmallAtomFail
  <2>1. Top.at \notin InExpression
    BY <1>3 DEF SmallAtomLeaf, ParenEnd, PrefixEnd, SmallAtomFail, At, InExpression
  <2>2. stack' = Below
    BY <1>3 DEF SmallAtomLeaf, ParenEnd, PrefixEnd, SmallAtomFail, Return
  <2>3. pos' \in {pos, pos + 1}
    <3>1. pos \in Nat
      BY Tokens_
    <3>2. CASE SmallAtomLeaf
      BY <3>2 DEF SmallAtomLeaf, Advance
    <3>4. CASE ParenEnd
      <4>1. PICK b \in {0, 1} : pos' = pos + b
        BY <3>4 DEF ParenEnd, Advance
      <4> QED
        BY <3>1, <4>1
    <3>3. CASE PrefixEnd \/ SmallAtomFail
      BY <3>3 DEF PrefixEnd, SmallAtomFail
    <3> QED
      BY <1>3, <3>2, <3>3, <3>4
  <2> QED
    BY <1>a, <2>1, <2>2, <2>3, ReturnShape
<1> QED
  BY <1>a, <1>1, <1>2, <1>3 DEF SmallAtomStep

LEMMA AtomShape ==
  ASSUME ParserInv, AtomStep
  PROVE  Shape /\ stack # <<>>
<1>a. stack # <<>>
  BY DEF AtomStep, Atom, AtomEnd, AtomTrail, TrailEnd, At
<1>1. CASE Atom
  <2>1. Resume("suffix").at = "suffix" /\ Frame("small_atom", Top.tree).at = "small_atom"
    BY <1>a, ResumeAt, FrameAt
  <2>2. /\ Top.at = "atom" /\ pos' = pos + 0
        /\ Call(Resume("suffix"), Frame("small_atom", Top.tree))
    BY <1>1, Tokens_ DEF Atom, At
  <2> QED
    BY <1>a, <2>1, <2>2, CallShape DEF Stays, Reserve, InExpression, AfterExpression
<1>2. CASE AtomTrail
  <2> DEFINE f == [Resume("trail") EXCEPT !.own = <<New1, New2>>, !.op = Cur]
  <2>1. f.at = "trail" /\ Frame("atom", New2).at = "atom"
    BY <1>a, ResumeAt, FrameAt
  <2>2. Top.at = "suffix" /\ pos' = pos + 1 /\ Call(f, Frame("atom", New2))
    BY <1>2 DEF AtomTrail, At, Advance
  <2> HIDE DEF f
  <2> QED
    BY <1>a, <2>1, <2>2, CallShape DEF Stays, Reserve, InExpression, AfterExpression
<1>3. CASE AtomEnd \/ TrailEnd
  <2>1. stack' = Below /\ ret' = TRUE /\ pos' = pos
    BY <1>3 DEF AtomEnd, TrailEnd, Return
  <2> QED
    BY <1>a, <2>1, ReturnShape
<1> QED
  BY <1>a, <1>1, <1>2, <1>3 DEF AtomStep

LEMMA ExpressionShape ==
  ASSUME ParserInv, ExpressionStep
  PROVE  Shape /\ stack # <<>>
<1>a. stack # <<>>
  BY DEF ExpressionStep, Operator, OperandDeeper, Combine, OperatorsEnd, Expression,
     ExpressionOperators, ExpressionEnd, At
<1>1. CASE Operator
  <2> DEFINE f == [Resume("nth_right") EXCEPT !.own = <<New1>>, !.op = Cur]
  <2>1. f.at = "nth_right" /\ Frame("atom", New1).at = "atom"
    BY <1>a, ResumeAt, FrameAt
  <2>2. Top.at = "nth" /\ pos' = pos + 1 /\ Call(f, Frame("atom", New1))
    BY <1>1 DEF Operator, At, Advance
  <2> HIDE DEF f
  <2> QED
    BY <1>a, <2>1, <2>2, CallShape DEF Stays, Reserve, InExpression, AfterExpression
<1>2. CASE OperandDeeper
  <2> DEFINE g == NthFrame(Top.own[1], Prec(Top.op) + 1)
  <2>1. Resume("nth_deep").at = "nth_deep" /\ g.at = "nth"
    BY <1>a, ResumeAt, FrameAt
  <2>2. Top.at = "nth_right" /\ pos' = pos + 0 /\ Call(Resume("nth_deep"), g)
    BY <1>2, Tokens_ DEF OperandDeeper, At
  <2> HIDE DEF g
  <2> QED
    BY <1>a, <2>1, <2>2, CallShape DEF Stays, Reserve, InExpression, AfterExpression
<1>3. CASE Combine
  <2> DEFINE f == [Resume("nth") EXCEPT !.own = <<>>]
  <2>1. f.at = "nth"
    BY <1>a, ResumeAt
  <2>2. Top.at \in {"nth_right", "nth_deep"} /\ pos' = pos + 0 /\ GoOn(f)
    BY <1>3, Tokens_ DEF Combine, At
  <2> HIDE DEF f
  <2> QED
    BY <1>a, <2>1, <2>2, GoOnShape DEF Stays, Reserve, InExpression, AfterExpression
<1>4. CASE OperatorsEnd
  <2>1. stack' = Below /\ ret' = TRUE /\ pos' = pos
    BY <1>4 DEF OperatorsEnd, Return
  <2> QED
    BY <1>a, <2>1, ReturnShape
<1>5. CASE Expression
  <2>1. Resume("expr_ops").at = "expr_ops" /\ Frame("atom", Top.tree).at = "atom"
    BY <1>a, ResumeAt, FrameAt
  <2>2. /\ Top.at = "expr" /\ pos' = pos + 0
        /\ Call(Resume("expr_ops"), Frame("atom", Top.tree))
    BY <1>5, Tokens_ DEF Expression, At
  <2> QED
    BY <1>a, <2>1, <2>2, CallShape DEF Stays, Reserve, InExpression, AfterExpression
<1>6. CASE ExpressionOperators
  <2>1. Resume("expr_end").at = "expr_end" /\ NthFrame(Top.tree, 0).at = "nth"
    BY <1>a, ResumeAt, FrameAt
  <2>2. /\ Top.at = "expr_ops" /\ pos' = pos + 0
        /\ Call(Resume("expr_end"), NthFrame(Top.tree, 0))
    BY <1>6, Tokens_ DEF ExpressionOperators, At
  <2> QED
    BY <1>a, <2>1, <2>2, CallShape DEF Stays, Reserve, InExpression, AfterExpression
<1>7. CASE ExpressionEnd
  <2>1. Top.at \in AfterExpression /\ stack' = Below /\ ret' = ret /\ pos' = pos
    BY <1>7 DEF ExpressionEnd, At, Return, AfterExpression
  <2> QED
    BY <1>a, <2>1, ReturnShape
<1> QED
  BY <1>a, <1>1, <1>2, <1>3, <1>4, <1>5, <1>6, <1>7 DEF ExpressionStep

LEMMA StatementShape ==
  ASSUME ParserInv, StatementStep
  PROVE  Shape /\ stack # <<>>
<1>a. stack # <<>>
  BY DEF StatementStep, PassOn, StmtLet, Assignment, LetDeclares, LetValue, LetFail, StmtReturn, StmtIf,
     IfValue, StmtFor, ForPart, ForEnd, StmtFail, StmtAssign, StmtExpression, StmtEnd, At
<1>1. CASE StmtLet
  <2>1. Resume("tail").at = "tail" /\ Frame("assign", Top.tree).at = "assign"
    BY <1>a, ResumeAt, FrameAt
  <2>2. /\ Top.at = "stmt" /\ pos' = pos + 1
        /\ Call(Resume("tail"), Frame("assign", Top.tree))
    BY <1>1 DEF StmtLet, At, Advance
  <2> QED
    BY <1>a, <2>1, <2>2, CallShape DEF Stays, Reserve, InExpression, AfterExpression
<1>11. CASE Assignment
  <2>1. Resume("let_name").at = "let_name" /\ Frame("atom", New1).at = "atom"
    BY <1>a, ResumeAt, FrameAt
  <2>2. /\ Top.at = "assign" /\ pos' = pos + 0
        /\ Call(Resume("let_name"), Frame("atom", New1))
    BY <1>11, Tokens_ DEF Assignment, At
  <2> QED
    BY <1>a, <2>1, <2>2, CallShape DEF Stays, Reserve, InExpression, AfterExpression
<1>2. CASE LetValue
  <2>1. Resume("stmt_end").at = "stmt_end" /\ Frame("expr", New1).at = "expr"
    BY <1>a, ResumeAt, FrameAt
  <2>2. /\ Top.at = "let_name" /\ pos' = pos + 2
        /\ Call(Resume("stmt_end"), Frame("expr", New1))
    BY <1>2 DEF LetValue, At, Advance
  <2> QED
    BY <1>a, <2>1, <2>2, CallShape DEF Stays, Reserve, InExpression, AfterExpression
<1>3. CASE StmtReturn
  <2>1. Resume("stmt_end").at = "stmt_end" /\ Frame("expr", New1).at = "expr"
    BY <1>a, ResumeAt, FrameAt
  <2>2. /\ Top.at = "stmt" /\ pos' = pos + 1
        /\ Call(Resume("stmt_end"), Frame("expr", New1))
    BY <1>3 DEF StmtReturn, Begin, At, Advance
  <2> QED
    BY <1>a, <2>1, <2>2, CallShape DEF Stays, Reserve, InExpression, AfterExpression
<1>4. CASE StmtIf
  <2>1. Resume("if_cond").at = "if_cond" /\ Frame("expr", New1).at = "expr"
    BY <1>a, ResumeAt, FrameAt
  <2>2. /\ Top.at = "stmt" /\ pos' = pos + 1
        /\ Call(Resume("if_cond"), Frame("expr", New1))
    BY <1>4 DEF StmtIf, Begin, At, Advance
  <2> QED
    BY <1>a, <2>1, <2>2, CallShape DEF Stays, Reserve, InExpression, AfterExpression
<1>5. CASE IfValue
  <2>1. Resume("tail").at = "tail" /\ Frame("block", New1).at = "block"
    BY <1>a, ResumeAt, FrameAt
  <2>2. /\ Top.at = "if_cond" /\ pos' = pos + 0
        /\ Call(Resume("tail"), Frame("block", New1))
    BY <1>5, Tokens_ DEF IfValue, At, Advance
  <2> QED
    BY <1>a, <2>1, <2>2, CallShape DEF Stays, Reserve, InExpression, AfterExpression
<1>6. CASE StmtFor
  <2>1. Resume("for").at = "for" /\ Frame("block", New1).at = "block"
    BY <1>a, ResumeAt, FrameAt
  <2>2. /\ Top.at = "stmt" /\ pos' = pos + 1
        /\ Call(Resume("for"), Frame("block", New1))
    BY <1>6 DEF StmtFor, Begin, At, Advance
  <2> QED
    BY <1>a, <2>1, <2>2, CallShape DEF Stays, Reserve, InExpression, AfterExpression
<1>7. CASE ForPart
  <2> DEFINE f == [Top EXCEPT !.num = @ + 1]
  <2>1. f.at = Top.at /\ Frame("block", New1).at = "block"
    BY <1>a, ResumeAt, FrameAt
  <2>2. Top.at = "for" /\ pos' = pos + 0 /\ Call(f, Frame("block", New1))
    BY <1>7, Tokens_ DEF ForPart, At
  <2> HIDE DEF f
  <2> QED
    BY <1>a, <2>1, <2>2, CallShape DEF Stays, Reserve, InExpression, AfterExpression
<1>8. CASE StmtAssign
  <2>1. Resume("stmt_end").at = "stmt_end" /\ Frame("expr", New1).at = "expr"
    BY <1>a, ResumeAt, FrameAt
  <2>2. /\ Top.at = "stmt" /\ pos' = pos + 2
        /\ Call(Resume("stmt_end"), Frame("expr", New1))
    BY <1>8 DEF StmtAssign, At, Advance
  <2> QED
    BY <1>a, <2>1, <2>2, CallShape DEF Stays, Reserve, InExpression, AfterExpression
<1>9. CASE StmtExpression
  <2>1. Resume("stmt_end").at = "stmt_end" /\ Frame("expr", Top.tree).at = "expr"
    BY <1>a, ResumeAt, FrameAt
  <2>2. /\ Top.at = "stmt" /\ pos' = pos + 0
        /\ Call(Resume("stmt_end"), Frame("expr", Top.tree))
    BY <1>9, Tokens_ DEF StmtExpression, At, Advance
  <2> QED
    BY <1>a, <2>1, <2>2, CallShape DEF Stays, Reserve, InExpression, AfterExpression
<1>10. CASE PassOn \/ LetDeclares \/ LetFail \/ ForEnd \/ StmtFail \/ StmtEnd
  <2>1. Top.at \notin InExpression /\ stack' = Below
    BY <1>10 DEF PassOn, LetDeclares, LetFail, ForEnd, StmtFail, StmtEnd, At, Return, InExpression
  <2>2. \E used \in {0, 1} : pos' = pos + used
    <3>1. pos = pos + 0
      BY Tokens_
    <3>2. CASE PassOn \/ LetDeclares \/ LetFail \/ ForEnd
      BY <3>1, <3>2 DEF PassOn, LetDeclares, LetFail, ForEnd, Advance
    <3>3. CASE StmtFail
      BY <3>3 DEF StmtFail, Advance
    <3>4. CASE StmtEnd
      BY <3>4 DEF StmtEnd, Advance
    <3> QED
      BY <1>10, <3>2, <3>3, <3>4
  <2>3. pos' \in {pos, pos + 1}
    BY <2>2, Tokens_
  <2> QED
    BY <1>a, <2>1, <2>3, ReturnShape
<1> QED
  BY <1>a, <1>1, <1>2, <1>3, <1>4, <1>5, <1>6, <1>7, <1>8, <1>9, <1>10,
     <1>11 DEF StatementStep

LEMMA BlockShape ==
  ASSUME ParserInv, BlockStep
  PROVE  Shape /\ stack # <<>>
<1>a. stack # <<>>
  BY DEF BlockStep, BlockFail, BlockStatement, BlockEmpty, BlockOpen, BlockNext,
     BlockClose, BlockLink, BlockLast, BlockGiveUp, At
<1>1. CASE BlockStatement
  <2>1. Resume("tail").at = "tail" /\ Frame("stmt", Top.tree).at = "stmt"
    BY <1>a, ResumeAt, FrameAt
  <2>2. /\ Top.at = "block" /\ pos' = pos + 0
        /\ Call(Resume("tail"), Frame("stmt", Top.tree))
    BY <1>1, Tokens_ DEF BlockStatement, At, Advance
  <2> QED
    BY <1>a, <2>1, <2>2, CallShape DEF Stays, Reserve, InExpression, AfterExpression
<1>2. CASE BlockOpen
  <2>1. Resume("stmts").at = "stmts"
    BY <1>a, ResumeAt, FrameAt
  <2>2. Top.at = "block" /\ pos' = pos + 1 /\ GoOn(Resume("stmts"))
    BY <1>2 DEF BlockOpen, At, Advance
  <2> QED
    BY <1>a, <2>1, <2>2, GoOnShape DEF Stays, Reserve, InExpression, AfterExpression
<1>3. CASE BlockNext
  <2>1. Resume("stmts_next").at = "stmts_next" /\ Frame("stmt", New1).at = "stmt"
    BY <1>a, ResumeAt, FrameAt
  <2>2. /\ Top.at = "stmts" /\ pos' = pos + 0
        /\ Call(Resume("stmts_next"), Frame("stmt", New1))
    BY <1>3, Tokens_ DEF BlockNext, At, Advance
  <2> QED
    BY <1>a, <2>1, <2>2, CallShape DEF Stays, Reserve, InExpression, AfterExpression
<1>4. CASE BlockLink
  <2> DEFINE f == [Resume("stmts") EXCEPT !.tree = New1]
  <2>1. f.at = "stmts"
    BY <1>a, ResumeAt
  <2>2. Top.at = "stmts_next" /\ pos' = pos + 0 /\ GoOn(f)
    BY <1>4, Tokens_ DEF BlockLink, At
  <2> HIDE DEF f
  <2> QED
    BY <1>a, <2>1, <2>2, GoOnShape DEF Stays, Reserve, InExpression, AfterExpression
<1>5. CASE BlockLast
  <2>1. Resume("stmts").at = "stmts"
    BY <1>a, ResumeAt, FrameAt
  <2>2. Top.at = "stmts_next" /\ pos' = pos + 0 /\ GoOn(Resume("stmts"))
    BY <1>5, Tokens_ DEF BlockLast, At, Advance
  <2> QED
    BY <1>a, <2>1, <2>2, GoOnShape DEF Stays, Reserve, InExpression, AfterExpression
<1>6. CASE BlockFail \/ BlockEmpty \/ BlockClose \/ BlockGiveUp
  <2>1. Top.at \notin InExpression /\ stack' = Below
    BY <1>6 DEF BlockFail, BlockEmpty, BlockClose, BlockGiveUp, At, Return, InExpression
  <2>2. pos' \in {pos, pos + 1}
    BY <1>6 DEF BlockFail, BlockEmpty, BlockClose, BlockGiveUp, Advance
  <2> QED
    BY <1>a, <2>1, <2>2, ReturnShape
<1> QED
  BY <1>a, <1>1, <1>2, <1>3, <1>4, <1>5, <1>6 DEF BlockStep

LEMMA StepShape ==
  ASSUME ParserInv, Next
  PROVE  Shape /\ stack # <<>>
  BY SmallAtomShape, AtomShape, ExpressionShape, StatementShape, BlockShape DEF Next

-----------------------------------------------------------------------------
(* CallsInv is inductive, given ParserInv. *)

LEMMA PopTyped ==
  ASSUME NEW S, stack \in Seq(S), stack # <<>>
  PROVE  /\ Below \in Seq(S) /\ Len(Below) = Len(stack) - 1
         /\ \A i \in 1 .. Len(stack) - 1 : Below[i] = stack[i]
<1>1. Len(stack) \in Nat \ {0}
  OBVIOUS
<1>2. Below = [i \in 1 .. Len(stack) - 1 |-> stack[i]]
  BY <1>1 DEF Below
<1>3. \A i \in 1 .. Len(stack) - 1 : stack[i] \in S
  BY <1>1
<1> QED
  BY <1>1, <1>2, <1>3

LEMMA CallsInit == Init => CallsInv
  BY DEF Init, CallsInv, Frame, Reserve, Top, AfterExpression

LEMMA CallsStep ==
  ASSUME ParserInv, CallsInv, Next
  PROVE  CallsInv'
<1> DEFINE n == Len(stack)
<1>a. stack # <<>> /\ n \in Nat \ {0} /\ pos \in Nat /\ stack \in Seq(GoodFrames(Len(heap)))
  BY StepShape, Tokens_ DEF ParserInv
<1>b. PICK used \in 0 .. 2 :
        /\ pos' = pos + used
        /\ \/ \E to : GoesOn(to, used)
           \/ \E to, callee : Calls(to, callee, used)
           \/ GivesBack
  BY StepShape DEF Shape
<1>c. /\ Below \in Seq(GoodFrames(Len(heap))) /\ Len(Below) = n - 1
      /\ \A i \in 1 .. n - 1 : Below[i] = stack[i]
      /\ Top = stack[n]
  BY <1>a, PopTyped DEF Top
<1>d. /\ \A i \in 1 .. n : i + Reserve(stack[i].at) <= 3 * pos + 5
      /\ \A i \in 1 .. n - 1 :
           stack[i].at \in AfterExpression => stack[i + 1].at \in InExpression
  BY <1>a DEF CallsInv
<1>e. \A at : Reserve(at) \in 0 .. 5
  BY DEF Reserve
<1>1. ASSUME NEW to, GoesOn(to, used)
      PROVE  CallsInv'
  <2>1. PICK f : stack' = Append(Below, f) /\ f.at = to
    BY <1>1 DEF GoesOn, GoOn
  <2>2. /\ Len(stack') = n /\ DOMAIN stack' = 1 .. n /\ stack'[n] = f
        /\ \A i \in 1 .. n - 1 : stack'[i] = stack[i]
    BY <1>a, <1>c, <2>1
  <2>3. \A i \in 1 .. n : i + Reserve(stack'[i].at) <= 3 * pos' + 5
    <3>1. \A i \in 1 .. n - 1 : i + Reserve(stack'[i].at) <= 3 * pos' + 5
      BY <1>a, <1>b, <1>d, <1>e, <2>2
    <3>2. Reserve(f.at) <= Reserve(stack[n].at) + 3 * used
      BY <1>1, <1>c, <2>1 DEF GoesOn, Stays
    <3>3. n + Reserve(stack[n].at) <= 3 * pos + 5
      BY <1>a, <1>d
    <3>4. n + Reserve(f.at) <= 3 * pos' + 5
      BY <1>a, <1>b, <1>e, <3>2, <3>3
    <3> QED
      BY <1>a, <2>2, <3>1, <3>4
  <2>4. \A i \in 1 .. n - 1 :
          stack'[i].at \in AfterExpression => stack'[i + 1].at \in InExpression
    BY <1>1, <1>a, <1>c, <1>d, <2>1, <2>2, SMTT(30) DEF GoesOn, Stays
  <2>5. Top' = f /\ f.at \notin AfterExpression
    BY <1>1, <2>1, <2>2 DEF Top, GoesOn
  <2> QED
    BY <1>a, <2>2, <2>3, <2>4, <2>5 DEF CallsInv
<1>2. ASSUME NEW to, NEW callee, Calls(to, callee, used)
      PROVE  CallsInv'
  <2>1. PICK f, g : stack' = Append(Append(Below, f), g) /\ f.at = to /\ g.at = callee
    BY <1>2 DEF Calls, Call
  <2>2. /\ Len(stack') = n + 1 /\ DOMAIN stack' = 1 .. n + 1
        /\ stack'[n] = f /\ stack'[n + 1] = g
        /\ \A i \in 1 .. n - 1 : stack'[i] = stack[i]
    BY <1>a, <1>c, <2>1
  <2>3. \A i \in 1 .. n + 1 : i + Reserve(stack'[i].at) <= 3 * pos' + 5
    <3>1. \A i \in 1 .. n - 1 : i + Reserve(stack'[i].at) <= 3 * pos' + 5
      BY <1>a, <1>b, <1>d, <1>e, <2>2
    <3>2. /\ Reserve(f.at) <= Reserve(stack[n].at) + 3 * used
          /\ Reserve(g.at) + 1 <= Reserve(stack[n].at) + 3 * used
      BY <1>2, <1>c, <2>1 DEF Calls, Stays
    <3>3. n + Reserve(stack[n].at) <= 3 * pos + 5
      BY <1>a, <1>d
    <3>4. n + Reserve(f.at) <= 3 * pos' + 5 /\ n + 1 + Reserve(g.at) <= 3 * pos' + 5
      BY <1>a, <1>b, <1>e, <3>2, <3>3
    <3> QED
      BY <1>a, <2>2, <3>1, <3>4
  <2>4. \A i \in 1 .. n :
          stack'[i].at \in AfterExpression => stack'[i + 1].at \in InExpression
    <3>1. f.at \in AfterExpression => g.at \in InExpression
      BY <1>2, <2>1 DEF Calls
    <3>2. stack[n].at \in InExpression => f.at \in InExpression
      BY <1>2, <1>c, <2>1 DEF Calls, Stays
    <3>3. ASSUME NEW i \in 1 .. n, stack'[i].at \in AfterExpression
          PROVE  stack'[i + 1].at \in InExpression
      <4>1. CASE i = n
        BY <2>2, <3>1, <3>3, <4>1
      <4>2. CASE i \in 1 .. n - 1 /\ i + 1 = n
        BY <1>a, <1>d, <2>2, <3>2, <3>3, <4>2
      <4>3. CASE i \in 1 .. n - 1 /\ i + 1 \in 1 .. n - 1
        BY <1>a, <1>d, <2>2, <3>3, <4>3
      <4> QED
        BY <1>a, <4>1, <4>2, <4>3
    <3> QED
      BY <3>3
  <2>5. Top' = g /\ g.at \notin AfterExpression
    BY <1>2, <2>1, <2>2 DEF Top, Calls
  <2> QED
    BY <1>a, <2>2, <2>3, <2>4, <2>5 DEF CallsInv
<1>3. CASE GivesBack
  <2>1. /\ Len(stack') = n - 1 /\ DOMAIN stack' = 1 .. n - 1
        /\ \A i \in 1 .. n - 1 : stack'[i] = stack[i]
    BY <1>3, <1>a, <1>c DEF GivesBack
  <2>2. ASSUME NEW i \in 1 .. n - 1
        PROVE  i + Reserve(stack'[i].at) <= 3 * pos' + 5
    <3>1. i + Reserve(stack[i].at) <= 3 * pos + 5 /\ stack'[i] = stack[i]
      BY <1>a, <1>d, <2>1
    <3>2. Reserve(stack[i].at) \in 0 .. 5 /\ pos' = pos + used
      BY <1>b, <1>e
    <3> QED
      BY <1>a, <3>1, <3>2
  <2>3. \A i \in 1 .. n - 2 :
          stack'[i].at \in AfterExpression => stack'[i + 1].at \in InExpression
    BY <1>a, <1>d, <2>1
  <2>4. stack' # <<>> /\ Top'.at \in AfterExpression => ret' = TRUE
    <3>1. SUFFICES ASSUME stack' # <<>>, Top'.at \in AfterExpression PROVE ret' = TRUE
      OBVIOUS
    <3>2. n - 1 \in 1 .. n - 1 /\ Top' = stack[n - 1]
      BY <1>a, <2>1, <3>1 DEF Top
    <3>3. Top.at \in InExpression
      BY <1>a, <1>c, <1>d, <3>1, <3>2
    <3> QED
      BY <1>3, <1>a, <3>3 DEF GivesBack, CallsInv
  <2> QED
    BY <1>a, <2>1, <2>2, <2>3, <2>4, SMTT(30) DEF CallsInv
<1> QED
  BY <1>b, <1>1, <1>2, <1>3

LEMMA CallsInvariant == Spec => []CallsInv
<1>1. CallsInv /\ UNCHANGED vars => CallsInv'
  BY DEF CallsInv, vars, Top
<1> QED
  BY <1>1, CallsInit, CallsStep, ParserInvariant, PTL DEF Spec

(* Whatever the tokens are, no function of an expression returns false to  *)
(* the function that awaits it: every statement, condition and operand is  *)
(* taken as parsed, even where nothing was (parse.c:176).                  *)
THEOREM ExpressionsAlwaysSucceed == Spec => []ExpressionsSucceed
<1>1. CallsInv => ExpressionsSucceed
  BY DEF CallsInv, ExpressionsSucceed, Done, AfterExpression
<1> QED
  BY <1>1, CallsInvariant, PTL

(* Whatever the tokens are, the C stack is at most three calls deep for    *)
(* every token consumed, and five more.                                    *)
THEOREM RecursionIsBounded == Spec => []DepthBounded
<1>1. ParserInv /\ CallsInv => DepthBounded
  <2> SUFFICES ASSUME ParserInv, CallsInv PROVE Len(stack) <= 3 * pos + 5
    BY DEF DepthBounded
  <2>1. Len(stack) \in Nat /\ pos \in Nat /\ DOMAIN stack = 1 .. Len(stack)
    BY Tokens_ DEF ParserInv
  <2>2. \A at : Reserve(at) \in 0 .. 5
    BY DEF Reserve
  <2>3. CASE Len(stack) = 0
    BY <2>1, <2>3
  <2>4. CASE Len(stack) # 0
    <3>1. Len(stack) + Reserve(stack[Len(stack)].at) <= 3 * pos + 5
      BY <2>1, <2>4 DEF CallsInv
    <3> QED
      BY <2>1, <2>2, <3>1
  <2> QED
    BY <2>3, <2>4
<1> QED
  BY <1>1, CallsInvariant, ParserInvariant, PTL
=============================================================================
