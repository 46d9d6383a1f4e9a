--------------------------- MODULE CompilerProofs ---------------------------
(***************************************************************************)
(* Theorems about Compiler, for every set of files: what main() and its    *)
(* two walks read is there, what they free they free once and leave behind *)
(* only below a block, an "if" or a "for", and the texts are printed in    *)
(* the order of the file.                                                  *)
(*                                                                         *)
(* The invariants of the lexer and of the parser are those of LexerProofs  *)
(* and of the proof modules of Parser, and so are the steps: here it is    *)
(* shown that main calls build_block() on what lex() has left, and that    *)
(* the walks over the tree and the loop over the strings keep to what      *)
(* these invariants say.                                                   *)
(***************************************************************************)
EXTENDS Compiler, SequenceTheorems, TLAPS

LP == INSTANCE LexerProofs WITH Inputs <- Files
PP == INSTANCE ParserOrderProofs WITH Inputs <- Seq(TokType)

-----------------------------------------------------------------------------
(* The theorems of those modules are of the lexer and the parser that      *)
(* Compiler calls.                                                         *)

LEMMA SameLexer == L!Next => LP!Next
BY DEF
  L!Next, L!Finish, L!SkipBlank, L!EnterWord, L!EnterNumber, L!EnterComment,
  L!EnterString, L!EnterCoffee, L!EnterPair, L!Enter, L!PushSymbol, L!PushError,
  L!MoreWord, L!MoreNumber, L!MoreComment, L!MoreString, L!MoreCoffee, L!Continue,
  L!EndWord, L!EndNumber, L!EndComment, L!EndString, L!EndCoffee, L!LoseCoffee,
  L!LongSymbol, L!ShortSymbol, L!AtEOF, L!Byte, L!Sees, L!Tok, L!Word, L!TextModes,
  L!KeywordLength, L!Lower, L!Digit, L!WordFirst, L!WordRest, L!NumRest, L!Blank,
  L!Symbols, L!SymbolType, L!Pairs, L!PairSecond, L!ShortType, L!LongType, L!Known,
  L!WordType, L!NULL, LP!Next, LP!Finish, LP!SkipBlank, LP!EnterWord,
  LP!EnterNumber, LP!EnterComment, LP!EnterString, LP!EnterCoffee, LP!EnterPair,
  LP!Enter, LP!PushSymbol, LP!PushError, LP!MoreWord, LP!MoreNumber,
  LP!MoreComment, LP!MoreString, LP!MoreCoffee, LP!Continue, LP!EndWord,
  LP!EndNumber, LP!EndComment, LP!EndString, LP!EndCoffee, LP!LoseCoffee,
  LP!LongSymbol, LP!ShortSymbol, LP!AtEOF, LP!Byte, LP!Sees, LP!Tok, LP!Word,
  LP!TextModes, LP!KeywordLength, LP!Lower, LP!Digit, LP!WordFirst, LP!WordRest,
  LP!NumRest, LP!Blank, LP!Symbols, LP!SymbolType, LP!Pairs, LP!PairSecond,
  LP!ShortType, LP!LongType, LP!Known, LP!WordType, LP!NULL

LEMMA SameParser == P!Next => PP!Next
<1>1. P!SmallAtomStep => PP!SmallAtomStep
  BY DEF
    P!SmallAtomStep, P!SmallAtomLeaf, P!SmallAtomParen, P!ParenEnd,
    P!SmallAtomPrefix, P!PrefixBegins, P!PrefixEnd, P!SmallAtomFail, P!At, P!Top,
    P!Below, P!Cur, P!Peek, P!Frame, P!Resume, P!Call, P!Return, P!GoOn, P!Advance,
    P!Write, P!Node, P!Fresh, P!New1, P!New2, P!Unset, P!Wild, P!NullTree,
    PP!SmallAtomStep, PP!SmallAtomLeaf, PP!SmallAtomParen, PP!ParenEnd,
    PP!SmallAtomPrefix, PP!PrefixBegins, PP!PrefixEnd, PP!SmallAtomFail, PP!At,
    PP!Top, PP!Below, PP!Cur, PP!Peek, PP!Frame, PP!Resume, PP!Call, PP!Return,
    PP!GoOn, PP!Advance, PP!Write, PP!Node, PP!Fresh, PP!New1, PP!New2, PP!Unset,
    PP!Wild, PP!NullTree
<1>2. P!AtomStep => PP!AtomStep
  BY DEF
    P!AtomStep, P!Atom, P!AtomEnd, P!AtomTrail, P!TrailEnd, P!At, P!Top, P!Below,
    P!Cur, P!Peek, P!Frame, P!Resume, P!Call, P!Return, P!GoOn, P!Advance, P!Write,
    P!Node, P!Fresh, P!New1, P!New2, P!Unset, P!Wild, P!NullTree, PP!AtomStep,
    PP!Atom, PP!AtomEnd, PP!AtomTrail, PP!TrailEnd, PP!At, PP!Top, PP!Below,
    PP!Cur, PP!Peek, PP!Frame, PP!Resume, PP!Call, PP!Return, PP!GoOn, PP!Advance,
    PP!Write, PP!Node, PP!Fresh, PP!New1, PP!New2, PP!Unset, PP!Wild, PP!NullTree
<1>3. P!ExpressionStep => PP!ExpressionStep
  BY DEF
    P!ExpressionStep, P!Operator, P!Continues, P!Prec, P!OpCode, P!NthFrame,
    P!OperandDeeper, P!Combine, P!OperatorsEnd, P!Expression,
    P!ExpressionOperators, P!ExpressionEnd, P!At, P!Top, P!Below, P!Cur, P!Peek, P!Frame, P!Resume,
    P!Call, P!Return, P!GoOn, P!Advance, P!Write, P!Node, P!Fresh, P!New1, P!New2,
    P!Unset, P!Wild, P!NullTree, PP!ExpressionStep, PP!Operator, PP!Continues,
    PP!Prec, PP!OpCode, PP!NthFrame, PP!OperandDeeper, PP!Combine, PP!OperatorsEnd,
    PP!Expression, PP!ExpressionOperators, PP!ExpressionEnd, PP!At, PP!Top, PP!Below, PP!Cur,
    PP!Peek, PP!Frame, PP!Resume, PP!Call, PP!Return, PP!GoOn, PP!Advance,
    PP!Write, PP!Node, PP!Fresh, PP!New1, PP!New2, PP!Unset, PP!Wild, PP!NullTree
<1>4. P!StatementStep => PP!StatementStep
  BY DEF
    P!StatementStep, P!PassOn, P!Assignment, P!StmtLet, P!LetDeclares, P!LetValue, P!LetFail, P!StmtReturn,
    P!StmtIf, P!IfValue, P!StmtFor, P!ForPart, P!ForEnd, P!StmtFail, P!StmtAssign,
    P!Assigns, P!StmtExpression, P!StmtEnd, P!Begin, P!At, P!Top, P!Below, P!Cur,
    P!Peek, P!Frame, P!Resume, P!Call, P!Return, P!GoOn, P!Advance, P!Write,
    P!Node, P!Fresh, P!New1, P!New2, P!Unset, P!Wild, P!NullTree, PP!StatementStep, PP!PassOn, PP!Assignment,
    PP!StmtLet, PP!LetDeclares, PP!LetValue, PP!LetFail, PP!StmtReturn, PP!StmtIf,
    PP!IfValue, PP!StmtFor, PP!ForPart, PP!ForEnd, PP!StmtFail, PP!StmtAssign,
    PP!Assigns, PP!StmtExpression, PP!StmtEnd, PP!Begin, PP!At, PP!Top, PP!Below,
    PP!Cur, PP!Peek, PP!Frame, PP!Resume, PP!Call, PP!Return, PP!GoOn, PP!Advance,
    PP!Write, PP!Node, PP!Fresh, PP!New1, PP!New2, PP!Unset, PP!Wild, PP!NullTree
<1>5. P!BlockStep => PP!BlockStep
  BY DEF
    P!BlockStep, P!BlockFail, P!BlockStatement, P!BlockEmpty, P!BlockOpen,
    P!BlockNext, P!BlockClose, P!BlockLink, P!BlockLast, P!BlockGiveUp, P!AtClose,
    P!At, P!Top, P!Below, P!Cur, P!Peek, P!Frame, P!Resume, P!Call, P!Return,
    P!GoOn, P!Advance, P!Write, P!Node, P!Fresh, P!New1, P!New2, P!Unset, P!Wild,
    P!NullTree, PP!BlockStep, PP!BlockFail, PP!BlockStatement, PP!BlockEmpty,
    PP!BlockOpen, PP!BlockNext, PP!BlockClose, PP!BlockLink, PP!BlockLast,
    PP!BlockGiveUp, PP!AtClose, PP!At, PP!Top, PP!Below, PP!Cur, PP!Peek, PP!Frame,
    PP!Resume, PP!Call, PP!Return, PP!GoOn, PP!Advance, PP!Write, PP!Node,
    PP!Fresh, PP!New1, PP!New2, PP!Unset, PP!Wild, PP!NullTree
<1> QED
  BY <1>1, <1>2, <1>3, <1>4, <1>5 DEF P!Next, PP!Next

LEMMA TokenArrays == Seq(TokType) \subseteq Seq(PP!TokType)
<1>1. TokType = PP!TokType
  BY DEF TokType, PP!TokType
<1> QED
  BY <1>1

(* Of a text file, lex() holds the strings of the tokens and no other.     *)
TextOwned == LP!TextFile(file) => LP!OwnInv

LEMMA LexerKept ==
  ASSUME LP!LexerInv, L!Next \/ UNCHANGED lexer
  PROVE  /\ LP!LexerInv'
         /\ LP!KeptInv => LP!KeptInv'
         /\ TextOwned => TextOwned'
<1>1. [LP!Next]_(LP!vars)
  BY SameLexer DEF lexer, LP!vars
<1>2. LP!LexerInv'
  BY <1>1, LP!LexerStep, FilesAssumption
<1>3. LP!KeptInv => LP!KeptInv'
  BY <1>1, <1>2, LP!KeptStep, FilesAssumption
<1>4. file' = file
  BY <1>1, LP!FileUnchanged, FilesAssumption
<1>5. TextOwned => TextOwned'
  <2> SUFFICES ASSUME TextOwned, LP!TextFile(file') PROVE LP!OwnInv'
    BY DEF TextOwned
  <2>1. LP!TextFile(file)
    BY <1>4
  <2> QED
    BY <1>1, <1>2, <2>1, LP!OwnStep, FilesAssumption DEF TextOwned
<1> QED
  BY <1>2, <1>3, <1>5

Parsed ==
  /\ PP!ParserInv /\ PP!NodesInv /\ PP!ShapeInv /\ PP!NoErrors
  /\ PP!OrderInv /\ PP!RanksInv

LEMMA ParserKept ==
  ASSUME Parsed, P!Next \/ UNCHANGED parser
  PROVE  Parsed' /\ tokens' = tokens
<1>1. [PP!Next]_(PP!vars)
  BY SameParser DEF parser, PP!vars
<1>2. PP!ParserInv' /\ PP!NodesInv' /\ PP!ShapeInv'
  BY <1>1, PP!ParserStep, PP!NodesStep, PP!ShapeStep, TokenArrays DEF Parsed
<1>3. PP!OrderInv' /\ PP!RanksInv'
  BY <1>1, PP!OrderKept, PP!RanksKept, TokenArrays DEF Parsed
<1>4. CASE P!Next
  BY <1>2, <1>3, <1>4, SameParser, PP!ErrorsStep, PP!StepConsumes, TokenArrays DEF Parsed
<1>5. CASE UNCHANGED parser
  <2>1. tokens' = tokens /\ pos' = pos
    BY <1>5 DEF parser
  <2> QED
    BY <1>2, <1>3, <2>1 DEF Parsed, PP!NoErrors
<1> QED
  BY <1>4, <1>5

(* build_block() begins with what its invariants say of its Init. *)
LEMMA ParserBegins == PP!Init' => Parsed'
<1>1. PP!Init => Parsed
  <2>1. PP!Init => PP!NoErrors
    BY DEF PP!Init, PP!NoErrors
  <2> QED
    BY <2>1, PP!ParserInit, PP!NodesInit, PP!ShapeInit, PP!OrderInit, PP!RanksInit, TokenArrays
    DEF Parsed
<1> HIDE DEF Parsed
<1> QED
  BY <1>1, PTL

-----------------------------------------------------------------------------
(* The inductive invariant. *)

Late   == {"strings", "returned", "undefined"}
Past   == {"parse", "print", "free", "llvm"}
Walked == {"print", "free"}
After  == {"llvm", "strings", "returned"}

(* Until main() frees them the strings are those of the tokens. *)
LexInv ==
  /\ LP!LexerInv
  /\ phase \notin Late => LP!KeptInv /\ TextOwned
  /\ phase \in Past => pc = "done"

ParseInv ==
  /\ phase \in {"start", "lex"} => ret = FALSE
  /\ phase \in {"parse"} \union Walked =>
       Parsed /\ tokens = [i \in DOMAIN toks |-> toks[i].t]
  /\ phase \in Walked => stack = <<>> /\ ret

(* The tree has no pointer and no type as malloc left it; what a walk may  *)
(* come to.                                                                *)
Whole == \A n \in DOMAIN heap : P!Linked(n)
Refs  == {P!NullTree, P!Wild} \union DOMAIN heap

(* What has been printed stands before what is to be printed, and that is  *)
(* in order: the intervals of the nodes are those of ParserOrderProofs.    *)
Intervals(lo, hi) ==
  \A n \in DOMAIN heap :
    lo[n] \in Nat /\ hi[n] \in Nat /\ PP!InOrder(heap[n], n, lo, hi, PP!Open)

Follows(w, o, lo, hi) ==
  /\ \A i \in DOMAIN w, j \in DOMAIN o : w[i] \in DOMAIN heap => o[j] <= lo[w[i]]
  /\ \A i, j \in DOMAIN w :
       i < j /\ w[i] \in DOMAIN heap /\ w[j] \in DOMAIN heap => hi[w[i]] <= lo[w[j]]

PrintInv ==
  /\ phase \in {"start", "lex", "parse", "print"} => freed = {}
  /\ phase \in {"start", "lex", "parse"} => out = <<>>
  /\ out \in Seq(Nat) /\ PrintedInOrder
  /\ phase \in Walked => \A i \in DOMAIN out : out[i] <= pos
  /\ phase = "print" =>
       /\ walk \in Seq(Refs)
       /\ Whole => \A i \in DOMAIN walk : walk[i] # P!Wild
       /\ \E lo, hi : Intervals(lo, hi) /\ Follows(walk, out, lo, hi)

(* Of the nodes free_parse_tree has been called for, none is freed that is *)
(* still to be visited or freed, and none is to be visited or freed twice: *)
(* each has a parent that has been entered, the root excepted.  And of a   *)
(* node that has been entered no part is forgotten, unless it is one of    *)
(* those whose parts are left behind.                                      *)
Blocking == {"LVL_STMTS", "IFS", "LOOP_FOR"}
ChildOf(x, m) ==
  /\ m \in DOMAIN heap /\ heap[m].type \notin Blocking
  /\ \E k \in 1 .. 4 : k \in DOMAIN heap[m].kids /\ heap[m].kids[k] = x
Visits == [node : Refs, back : BOOLEAN]
Pending(w) == {w[i].node : i \in DOMAIN w}
Entered(w, fr) == fr \union {w[i].node : i \in {j \in DOMAIN w : w[j].back}}

Once(w, fr) ==
  \A i \in DOMAIN w : w[i].node \in DOMAIN heap =>
    /\ w[i].node \notin fr
    /\ \A j \in DOMAIN w : w[i].node = w[j].node => i = j

Reached(w, fr) ==
  \A x \in fr \union Pending(w) :
    x \in DOMAIN heap /\ x # 1 => \E m \in Entered(w, fr) : ChildOf(x, m)

Closed(w, fr) ==
  /\ 1 \in fr \union Pending(w)
  /\ \A m \in Entered(w, fr) : \A x \in DOMAIN heap : ChildOf(x, m) => x \in fr \union Pending(w)

Walking(w, fr) ==
  /\ w \in Seq(Visits) /\ fr \subseteq DOMAIN heap
  /\ \A i \in DOMAIN w : w[i].back => w[i].node \in DOMAIN heap
  /\ Once(w, fr) /\ Reached(w, fr) /\ Closed(w, fr)

FreeInv ==
  phase = "free" =>
    /\ Walking(walk, freed)
    /\ Whole => \A i \in DOMAIN walk : walk[i].node # P!Wild

(* When the walk is over, nothing is to be visited. *)
FreedInv ==
  phase \in After =>
    /\ ret => Parsed /\ stack = <<>> /\ Walking(<<>>, freed)
    /\ ~ret => freed = {}

(* Of the strings still to be freed, each is there, and is of one token;   *)
(* of a text file, no other string is there.                               *)
StringsInv ==
  /\ phase = "strings" =>
       /\ walk \in Seq(DOMAIN toks)
       /\ \A i, j \in DOMAIN walk : walk[i] = walk[j] => i = j
       /\ \A i \in DOMAIN walk : toks[walk[i]].s \in live \union {NULL}
       /\ \A i, j \in DOMAIN toks : toks[i].s # NULL /\ toks[i].s = toks[j].s => i = j
       /\ LP!TextFile(file) => \A s \in live : \E i \in DOMAIN walk : s = toks[walk[i]].s
  /\ phase = "returned" /\ LP!TextFile(file) => live = {}

CompilerInv ==
  LexInv /\ ParseInv /\ PrintInv /\ FreeInv /\ FreedInv /\ StringsInv /\ NothingUndefined

-----------------------------------------------------------------------------
(* Steps that leave the lexer, the parser or the walks alone. *)

LEMMA LexSame ==
  ASSUME LexInv, UNCHANGED lexer, phase \in Late => phase' \in Late,
         phase' \in Past => phase \in Past \/ pc = "done"
  PROVE  LexInv'
<1>1. pc' = pc
  BY DEF lexer
<1> QED
  BY <1>1, LexerKept DEF LexInv

LEMMA ParseSame ==
  ASSUME ParseInv, UNCHANGED <<lexer, parser>>,
         phase' \in {"start", "lex"} => phase \in {"start", "lex"},
         phase' \in {"parse"} \union Walked => phase \in {"parse"} \union Walked,
         phase' \in Walked => stack = <<>> /\ ret
  PROVE  ParseInv'
<1>1. UNCHANGED parser /\ tokens' = tokens /\ stack' = stack /\ ret' = ret /\ toks' = toks
  BY DEF lexer, parser
<1> QED
  BY <1>1, ParserKept DEF ParseInv

LEMMA PrintSame ==
  ASSUME PrintInv, out' = out, phase' # "print", phase' = "free" => phase \in Walked /\ pos' = pos,
         phase' \in {"start", "lex", "parse"} => phase \in {"start", "lex", "parse"} /\ freed' = freed
  PROVE  PrintInv'
  BY DEF PrintInv, PrintedInOrder, Walked

LEMMA TreeSame ==
  ASSUME UNCHANGED parser
  PROVE  (Whole' <=> Whole) /\ Refs' = Refs /\ (P!AcceptedIsLinked' <=> P!AcceptedIsLinked)
<1>1. heap' = heap /\ stack' = stack /\ ret' = ret
  BY DEF parser
<1> QED
  BY <1>1 DEF Whole, Refs, P!Linked, P!AcceptedIsLinked, P!Done

LEMMA WalkingSame ==
  ASSUME UNCHANGED parser, Walking(walk', freed')
  PROVE  Walking(walk, freed)'
<1>1. heap' = heap
  BY DEF parser
<1> QED
  BY <1>1 DEF Walking, Once, Reached, Closed, Visits, Refs, Pending, Entered, ChildOf

LEMMA FreedSame ==
  ASSUME FreedInv, UNCHANGED parser, freed' = freed, phase' \in After => phase \in After
  PROVE  FreedInv'
<1>1. heap' = heap /\ stack' = stack /\ ret' = ret
  BY DEF parser
<1> SUFFICES ASSUME phase' \in After PROVE FreedInv'
  BY DEF FreedInv
<1>2. ret => Parsed'
  BY ParserKept DEF FreedInv
<1>3. Walking(<<>>, freed) => Walking(<<>>, freed)'
  BY <1>1 DEF Walking, Once, Reached, Closed, Visits, Refs, Pending, Entered, ChildOf
<1> QED
  BY <1>1, <1>2, <1>3 DEF FreedInv

LEMMA NotWhole ==
  ASSUME ParseInv, phase \in Walked, ~Whole, UNCHANGED parser, phase' = "unwritten"
  PROVE  NothingUndefined'
<1>1. ~P!AcceptedIsLinked'
  BY TreeSame DEF ParseInv, Whole, P!AcceptedIsLinked, P!Done
<1> QED
  BY <1>1 DEF NothingUndefined

-----------------------------------------------------------------------------
(* A node of the tree, and its parts. *)

LEMMA NodeIs ==
  ASSUME Parsed, NEW n \in DOMAIN heap
  PROVE  /\ n \in Nat /\ n > 0 /\ n # P!Wild /\ n # P!NullTree
         /\ \A k \in DOMAIN heap[n].kids : k \in 1 .. 4 /\ heap[n].kids[k] \in Refs
         /\ heap[n].held \in Nat
         /\ heap[n].type \in {"PTR_REF", "PTR_DEREF", "STMT_RETURN"} =>
              DOMAIN heap[n].kids = {1}
         /\ heap[n].type \in {"BINARY_OP", "STMT_ASSIGNMENT", "LVL_STMTS", "TYPE_TRAIL"} =>
              DOMAIN heap[n].kids = {1, 2}
         /\ heap[n].type = "LOOP_FOR" => DOMAIN heap[n].kids = {1, 2, 3, 4}
         /\ heap[n].type \notin {"PTR_REF", "PTR_DEREF", "STMT_RETURN", "BINARY_OP",
                                 "STMT_ASSIGNMENT", "TYPE_TRAIL"} \union Blocking =>
              DOMAIN heap[n].kids = {}
         /\ heap[n].type = "INT" => heap[n].held > 0
         /\ heap[n].type = "VARIABLE" =>
              heap[n].held \in DOMAIN tokens /\ heap[n].held > 0 /\ tokens[heap[n].held] = "IDENT"
<1>1. PICK m : m = Len(heap)
  OBVIOUS
<1>2. m \in Nat /\ heap \in Seq(PP!Nodes(m)) /\ tokens \in Seq(PP!TokType)
  BY <1>1 DEF Parsed, PP!ParserInv
<1>3. DOMAIN heap = 1 .. m /\ heap[n] \in PP!Nodes(m)
  BY <1>1, <1>2
<1>4. /\ heap[n].kids \in Seq({P!NullTree, P!Wild} \union 1 .. m) /\ heap[n].held \in Nat
      /\ heap[n].type \in PP!TreeType \union {"GARBAGE"}
  BY <1>3 DEF PP!Nodes, PP!NullTree, PP!Wild, P!NullTree, P!Wild
<1>5. \A k \in DOMAIN heap[n].kids : heap[n].kids[k] \in {P!NullTree, P!Wild} \union 1 .. m
  BY <1>4
<1>6. PP!Shaped(heap[n]) /\ DOMAIN tokens = 1 .. Len(tokens)
  BY <1>2 DEF Parsed, PP!ShapeInv
<1>7. n \in Nat /\ n > 0 /\ n # P!Wild /\ n # P!NullTree
  BY <1>3 DEF P!Wild, P!NullTree
<1>8. /\ heap[n].type \in {"PTR_REF", "PTR_DEREF", "STMT_RETURN"} =>
           DOMAIN heap[n].kids = {1}
      /\ heap[n].type \in {"BINARY_OP", "STMT_ASSIGNMENT", "LVL_STMTS", "TYPE_TRAIL"} =>
           DOMAIN heap[n].kids = {1, 2}
      /\ heap[n].type = "IFS" => DOMAIN heap[n].kids = {1, 2, 3}
      /\ heap[n].type = "LOOP_FOR" => DOMAIN heap[n].kids = {1, 2, 3, 4}
      /\ heap[n].type \notin {"PTR_REF", "PTR_DEREF", "STMT_RETURN", "BINARY_OP",
                               "STMT_ASSIGNMENT", "TYPE_TRAIL"} \union Blocking =>
            DOMAIN heap[n].kids = {}
  BY <1>4, <1>6 DEF PP!Shaped, PP!TreeType, Blocking
<1>9. DOMAIN heap[n].kids \subseteq 1 .. 4
  BY <1>8 DEF Blocking
<1>10. \A k \in DOMAIN heap[n].kids : k \in 1 .. 4 /\ heap[n].kids[k] \in Refs
  BY <1>3, <1>5, <1>9 DEF Refs
<1>11. /\ heap[n].type = "INT" => heap[n].held > 0
       /\ heap[n].type = "VARIABLE" =>
            heap[n].held \in DOMAIN tokens /\ heap[n].held > 0 /\ tokens[heap[n].held] = "IDENT"
  BY <1>6 DEF PP!Shaped
<1> QED
  BY <1>4, <1>7, <1>8, <1>10, <1>11

(* The arguments that the walks give Kids: the first so many of the kids. *)
KidLists == {<<>>, <<1>>, <<1, 2>>, <<1, 2, 3, 4>>}

LEMMA KidsAre ==
  ASSUME NEW n, NEW ks \in KidLists, NEW S,
         \A k \in DOMAIN ks : heap[n].kids[k] \in S
  PROVE  /\ Kids(n, ks) \in Seq(S)
         /\ DOMAIN Kids(n, ks) = DOMAIN ks /\ DOMAIN ks \subseteq 1 .. 4
         /\ \A k \in DOMAIN ks : Kids(n, ks)[k] = heap[n].kids[k]
<1>1. PICK m \in {0, 1, 2, 4} : DOMAIN ks = 1 .. m /\ \A k \in 1 .. m : ks[k] = k
  BY DEF KidLists
<1>2. Kids(n, ks) = [k \in 1 .. m |-> heap[n].kids[k]]
  BY <1>1 DEF Kids
<1> QED
  BY <1>1, <1>2

LEMMA PrintKidsAre ==
  ASSUME Parsed, NEW n \in DOMAIN heap
  PROVE  /\ PrintKids(n) \in Seq(Refs)
         /\ \A k \in DOMAIN PrintKids(n) : k \in 1 .. 4 /\ k \in DOMAIN heap[n].kids
                                           /\ PrintKids(n)[k] = heap[n].kids[k]
         /\ heap[n].type \in {"INT", "VARIABLE"} => PrintKids(n) = <<>>
         /\ heap[n].type = "IFS" => PrintKids(n) = <<>>
<1>1. PICK ks \in KidLists :
        /\ PrintKids(n) = Kids(n, ks)
        /\ \A k \in DOMAIN ks : k \in DOMAIN heap[n].kids
        /\ heap[n].type \in {"INT", "VARIABLE", "IFS"} => DOMAIN ks = {}
  <2>1. CASE heap[n].type \in {"PTR_REF", "PTR_DEREF", "STMT_RETURN"}
    <3>1. PrintKids(n) = Kids(n, <<1>>)
      BY <2>1 DEF PrintKids
    <3> QED
      BY <2>1, <3>1, NodeIs DEF KidLists
  <2>2. CASE heap[n].type \in {"BINARY_OP", "STMT_ASSIGNMENT", "LVL_STMTS", "TYPE_TRAIL"}
    <3>1. PrintKids(n) = Kids(n, <<1, 2>>)
      BY <2>2 DEF PrintKids
    <3> QED
      BY <2>2, <3>1, NodeIs DEF KidLists
  <2>3. CASE heap[n].type = "LOOP_FOR"
    <3>1. PrintKids(n) = Kids(n, <<1, 2, 3, 4>>)
      BY <2>3 DEF PrintKids
    <3> QED
      BY <2>3, <3>1, NodeIs DEF KidLists
  <2>4. CASE heap[n].type \notin {"PTR_REF", "PTR_DEREF", "STMT_RETURN", "BINARY_OP",
               "STMT_ASSIGNMENT", "LVL_STMTS", "TYPE_TRAIL", "LOOP_FOR"}
    <3>1. PrintKids(n) = Kids(n, <<>>)
      BY <2>4 DEF PrintKids
    <3> QED
      BY <3>1 DEF KidLists
  <2> QED
    BY <2>1, <2>2, <2>3, <2>4
<1>2. PICK S : S = Refs
  OBVIOUS
<1>3. \A k \in DOMAIN ks : heap[n].kids[k] \in S
  BY <1>1, <1>2, NodeIs
<1>4. /\ Kids(n, ks) \in Seq(S)
      /\ DOMAIN Kids(n, ks) = DOMAIN ks /\ DOMAIN ks \subseteq 1 .. 4
      /\ \A k \in DOMAIN ks : Kids(n, ks)[k] = heap[n].kids[k]
  BY <1>3, KidsAre
<1>5. heap[n].type \in {"INT", "VARIABLE", "IFS"} => Kids(n, ks) = <<>>
  BY <1>1, <1>4
<1> QED
  BY <1>1, <1>2, <1>4, <1>5

(* What free_parse_tree visits is all there is, but for the types whose    *)
(* parts it leaves behind.                                                 *)
LEMMA FreeKidsAre ==
  ASSUME Parsed, NEW n \in DOMAIN heap
  PROVE  /\ FreeKids(n) \in Seq(Refs)
         /\ \A k \in DOMAIN FreeKids(n) : k \in 1 .. 4 /\ k \in DOMAIN heap[n].kids
                                          /\ FreeKids(n)[k] = heap[n].kids[k]
                                          /\ heap[n].type \notin Blocking
         /\ heap[n].type \notin Blocking => DOMAIN FreeKids(n) = DOMAIN heap[n].kids
<1>1. PICK ks \in KidLists :
        /\ FreeKids(n) = Kids(n, ks)
        /\ \A k \in DOMAIN ks : k \in DOMAIN heap[n].kids /\ heap[n].type \notin Blocking
        /\ heap[n].type \notin Blocking => DOMAIN ks = DOMAIN heap[n].kids
  <2>1. CASE heap[n].type \in {"PTR_REF", "PTR_DEREF", "STMT_RETURN"}
    <3>1. FreeKids(n) = Kids(n, <<1>>) /\ heap[n].type \notin Blocking
      BY <2>1 DEF FreeKids, Blocking
    <3> QED
      BY <2>1, <3>1, NodeIs DEF KidLists
  <2>2. CASE heap[n].type \in {"BINARY_OP", "TYPE_TRAIL", "STMT_ASSIGNMENT"}
    <3>1. FreeKids(n) = Kids(n, <<1, 2>>) /\ heap[n].type \notin Blocking
      BY <2>2 DEF FreeKids, Blocking
    <3> QED
      BY <2>2, <3>1, NodeIs DEF KidLists
  <2>3. CASE heap[n].type \notin {"PTR_REF", "PTR_DEREF", "STMT_RETURN", "BINARY_OP",
               "TYPE_TRAIL", "STMT_ASSIGNMENT"}
    <3>1. FreeKids(n) = Kids(n, <<>>)
      BY <2>3 DEF FreeKids
    <3>2. heap[n].type \notin Blocking => DOMAIN heap[n].kids = {}
      BY <2>3, NodeIs
    <3> QED
      BY <3>1, <3>2 DEF KidLists
  <2> QED
    BY <2>1, <2>2, <2>3
<1>2. PICK S : S = Refs
  OBVIOUS
<1>3. \A k \in DOMAIN ks : heap[n].kids[k] \in S
  BY <1>1, <1>2, NodeIs
<1>4. /\ Kids(n, ks) \in Seq(S)
      /\ DOMAIN Kids(n, ks) = DOMAIN ks /\ DOMAIN ks \subseteq 1 .. 4
      /\ \A k \in DOMAIN ks : Kids(n, ks)[k] = heap[n].kids[k]
  BY <1>3, KidsAre
<1> QED
  BY <1>1, <1>2, <1>4

-----------------------------------------------------------------------------
(* lex() and build_block(). *)

LEMMA LexStep ==
  ASSUME CompilerInv, Lex
  PROVE  CompilerInv'
<1>1. /\ phase = "lex" /\ phase' = "lex" /\ ret' = ret /\ freed' = freed /\ out' = out
      /\ UNCHANGED parser
  BY DEF Lex, parser, walker
<1>2. LexInv'
  BY <1>1, LexerKept DEF Lex, CompilerInv, LexInv, Late, Past
<1>3. PrintInv'
  BY <1>1, PrintSame DEF CompilerInv
<1> QED
  BY <1>1, <1>2, <1>3 DEF CompilerInv, ParseInv, FreeInv, FreedInv, StringsInv,
     NothingUndefined, Walked, After

LEMMA BeginParseStep ==
  ASSUME CompilerInv, BeginParse
  PROVE  CompilerInv'
<1>1. /\ phase = "lex" /\ phase' = "parse" /\ UNCHANGED lexer /\ ret' = ret /\ freed' = freed
      /\ tokens' = [i \in DOMAIN toks |-> toks[i].t] /\ toks' = toks /\ out' = out /\ pc = "done"
      /\ pos' = 0 /\ stack' = <<P!Frame("block", 1)>> /\ heap' = <<P!Fresh>>
  BY DEF BeginParse, Accepts, Lexed, Enter, lexer, walker
<1>2. LexInv'
  BY <1>1, LexSame DEF CompilerInv, Late
<1>3. PP!Init'
  <2>1. toks \in Seq(LP!Token)
    BY DEF CompilerInv, LexInv, LP!LexerInv, LP!TypeOK
  <2>2. \A i \in DOMAIN toks : toks[i].t \in LP!TokType
    <3>1. PICK T : T = LP!Token
      OBVIOUS
    <3>2. \A i \in DOMAIN toks : toks[i] \in T
      BY <2>1, <3>1
    <3> QED
      BY <3>1, <3>2 DEF LP!Token
  <2>3. LP!TokType = TokType
    BY DEF LP!TokType, TokType
  <2>4. tokens' \in Seq(TokType)
    BY <1>1, <2>1, <2>2, <2>3
  <2>5. ret' = FALSE
    BY <1>1 DEF CompilerInv, ParseInv
  <2> QED
    BY <1>1, <2>4, <2>5 DEF PP!Init, P!Frame, P!Fresh, P!Node, P!Unset,
       PP!Frame, PP!Fresh, PP!Node, PP!Unset
<1>4. Parsed'
  BY <1>3, ParserBegins
<1>5. PrintInv'
  BY <1>1, PrintSame DEF CompilerInv
<1> QED
  BY <1>1, <1>2, <1>4, <1>5 DEF CompilerInv, ParseInv, FreeInv, FreedInv, StringsInv,
     NothingUndefined, Walked, After

LEMMA ParseStep ==
  ASSUME CompilerInv, Parse
  PROVE  CompilerInv'
<1>1. /\ phase = "parse" /\ phase' = "parse" /\ UNCHANGED lexer /\ toks' = toks /\ freed' = freed
      /\ out' = out
  BY DEF Parse, lexer, walker
<1>2. LexInv'
  BY <1>1, LexSame DEF CompilerInv, Late
<1>3. Parsed' /\ tokens' = tokens
  BY <1>1, ParserKept DEF Parse, CompilerInv, ParseInv
<1>4. PrintInv'
  BY <1>1, PrintSame DEF CompilerInv
<1> QED
  BY <1>1, <1>2, <1>3, <1>4 DEF CompilerInv, ParseInv, FreeInv, FreedInv, StringsInv,
     NothingUndefined, Walked, After

(* The steps from one phase to another in which nothing else happens. *)
Moves == Refuse \/ Open \/ NoTokens \/ LastIsError \/ SkipParse \/ ParseFailed

LEMMA MoveStep ==
  ASSUME CompilerInv, Moves
  PROVE  CompilerInv'
<1>1. /\ UNCHANGED lexer /\ UNCHANGED parser /\ freed' = freed /\ toks' = toks /\ out' = out
      /\ ret' = ret
      /\ phase \in {"start", "lex", "parse"}
      /\ phase' \in {"lex", "failed", "undefined", "llvm"}
      /\ phase' = "lex" => phase = "start"
      /\ phase' = "undefined" => toks = <<>>
      /\ phase' = "llvm" => (phase = "lex" /\ pc = "done") \/ (phase = "parse" /\ ~ret)
  BY DEF Moves, Refuse, Open, NoTokens, LastIsError, SkipParse, ParseFailed,
     Lexed, Accepts, Enter, lexer, parser, walker
<1>2. LexInv'
  BY <1>1, LexSame DEF CompilerInv, Late, Past
<1>3. ParseInv'
  BY <1>1, ParseSame DEF CompilerInv, Walked
<1>4. PrintInv'
  BY <1>1, PrintSame DEF CompilerInv
<1>5. FreedInv'
  BY <1>1 DEF CompilerInv, ParseInv, PrintInv, FreedInv, After
<1> QED
  BY <1>1, <1>2, <1>3, <1>4, <1>5 DEF CompilerInv, FreeInv, StringsInv, NothingUndefined

-----------------------------------------------------------------------------
(* print_entire_expression. *)

LEMMA TailIs ==
  ASSUME NEW S, NEW w \in Seq(S), w # <<>>
  PROVE  /\ Len(w) \in Nat \ {0} /\ DOMAIN w = 1 .. Len(w) /\ 1 \in DOMAIN w
         /\ Head(w) = w[1] /\ w[1] \in S
         /\ Tail(w) \in Seq(S) /\ Len(Tail(w)) = Len(w) - 1 /\ DOMAIN Tail(w) = 1 .. Len(w) - 1
         /\ \A i \in 1 .. Len(w) - 1 : i + 1 \in DOMAIN w /\ Tail(w)[i] = w[i + 1]
  OBVIOUS

LEMMA PrintSorted ==
  ASSUME UNCHANGED parser, NEW lo, NEW hi, Intervals(lo, hi), Follows(walk', out', lo, hi)
  PROVE  (\E a, b : Intervals(a, b) /\ Follows(walk, out, a, b))'
<1>1. heap' = heap /\ tokens' = tokens
  BY DEF parser
<1>2. Intervals(lo, hi)'
  BY <1>1 DEF Intervals, PP!InOrder, PP!Points, PP!Open
<1>3. Follows(walk, out, lo, hi)'
  BY <1>1 DEF Follows
<1> QED
  BY <1>2, <1>3

LEMMA BeginPrintStep ==
  ASSUME CompilerInv, BeginPrint
  PROVE  CompilerInv'
<1>1. /\ UNCHANGED lexer /\ UNCHANGED parser /\ freed' = freed /\ out' = out
      /\ phase = "parse" /\ phase' = "print" /\ stack = <<>> /\ ret /\ walk' = <<1>>
  BY DEF BeginPrint, Enter
<1>2. LexInv'
  BY <1>1, LexSame DEF CompilerInv, Late, Past
<1>3. ParseInv'
  BY <1>1, ParseSame DEF CompilerInv, Walked
<1>4. Parsed /\ out = <<>> /\ freed = {} /\ 1 \in DOMAIN heap
  BY <1>1 DEF CompilerInv, ParseInv, PrintInv, Parsed, PP!ShapeInv
<1>5. walk' \in Seq(Refs') /\ \A i \in DOMAIN walk' : walk'[i] # P!Wild
  <2>1. 1 \in Refs' /\ 1 # P!Wild
    BY <1>1, <1>4, TreeSame DEF Refs, P!Wild
  <2>2. PICK S : S = Refs'
    OBVIOUS
  <2> QED
    BY <1>1, <2>1, <2>2
<1>6. (\E a, b : Intervals(a, b) /\ Follows(walk, out, a, b))'
  <2>1. PICK lo, hi : PP!Ordered(lo, hi)
    BY <1>4 DEF Parsed, PP!OrderInv
  <2>2. \A n \in DOMAIN heap : PP!InOrder(heap[n], n, lo, hi, PP!Open)
    BY <1>1, <2>1, PP!FinishedOrder, TokenArrays
  <2>3. \A n \in DOMAIN heap : lo[n] \in Nat /\ hi[n] \in Nat
    <3>1. pos \in Nat /\ Len(tokens) \in Nat
      BY <1>4 DEF Parsed, PP!ParserInv
    <3> QED
      BY <2>1, <3>1 DEF PP!Ordered, PP!Open
  <2>4. Intervals(lo, hi)
    BY <2>2, <2>3 DEF Intervals
  <2>5. DOMAIN walk' = {1} /\ DOMAIN out' = {}
    BY <1>1, <1>4
  <2>6. Follows(walk', out', lo, hi)
    BY <2>5 DEF Follows
  <2> QED
    BY <1>1, <2>4, <2>6, PrintSorted
<1>7. PrintInv'
  BY <1>1, <1>4, <1>5, <1>6 DEF CompilerInv, PrintInv, PrintedInOrder
<1> QED
  BY <1>1, <1>2, <1>3, <1>7 DEF CompilerInv, FreeInv, FreedInv, StringsInv, NothingUndefined, After

(* A variable's text is there until main() frees the strings. *)
LEMMA TextIs ==
  ASSUME CompilerInv, phase = "print", NEW n \in DOMAIN heap, heap[n].type = "VARIABLE"
  PROVE  Text(n) \in live
<1>1. Parsed /\ tokens = [i \in DOMAIN toks |-> toks[i].t] /\ LP!KeptInv
  BY DEF CompilerInv, ParseInv, LexInv, Walked, Late
<1>2. PICK i : i = heap[n].held /\ i \in DOMAIN tokens /\ tokens[i] = "IDENT"
  BY <1>1, NodeIs
<1>3. i \in DOMAIN toks /\ toks[i].t = "IDENT"
  BY <1>1, <1>2
<1>4. toks[i].s \in live
  BY <1>1, <1>3 DEF LP!KeptInv, LP!Kept
<1> QED
  BY <1>2, <1>4 DEF Text

(* What a walk may come to when its head is taken off, *)
LEMMA FollowsTail ==
  ASSUME NEW w \in Seq(Refs), w # <<>>, NEW o, NEW lo, NEW hi, Follows(w, o, lo, hi)
  PROVE  Follows(Tail(w), o, lo, hi)
<1>1. PICK n, t : n = Len(w) /\ t = Tail(w)
  OBVIOUS
<1>2. /\ n \in Nat /\ DOMAIN t = 1 .. n - 1
      /\ \A i \in 1 .. n - 1 : i + 1 \in DOMAIN w /\ t[i] = w[i + 1]
  BY <1>1, TailIs
<1>3. \A i, j \in 1 .. n - 1 : i < j => i + 1 < j + 1
  BY <1>2
<1>4. Follows(t, o, lo, hi)
  BY <1>2, <1>3 DEF Follows
<1> QED
  BY <1>1, <1>4

(* when its text has been printed, *)
LEMMA FollowsText ==
  ASSUME NEW w \in Seq(Refs), w # <<>>, NEW o \in Seq(Nat),
         NEW lo, NEW hi, Intervals(lo, hi), Follows(w, o, lo, hi),
         NEW n, n = w[1], n \in DOMAIN heap, heap[n].held \in Nat, heap[n].held > 0,
         \A i, j \in DOMAIN o : i < j => o[i] < o[j]
  PROVE  /\ Follows(Tail(w), Append(o, heap[n].held), lo, hi)
         /\ Append(o, heap[n].held) \in Seq(Nat)
         /\ \A i, j \in DOMAIN Append(o, heap[n].held) :
              i < j => Append(o, heap[n].held)[i] < Append(o, heap[n].held)[j]
<1>1. PICK l, t, m, h, p : l = Len(w) /\ t = Tail(w) /\ m = Len(o) /\ h = heap[n].held /\ p = Append(o, h)
  OBVIOUS
<1>2. /\ l \in Nat \ {0} /\ DOMAIN t = 1 .. l - 1 /\ 1 \in DOMAIN w
      /\ \A i \in 1 .. l - 1 : i + 1 \in DOMAIN w /\ t[i] = w[i + 1] /\ 1 < i + 1
  BY <1>1, TailIs
<1>3. /\ m \in Nat /\ DOMAIN o = 1 .. m /\ DOMAIN p = 1 .. m + 1 /\ p \in Seq(Nat)
      /\ p[m + 1] = h /\ \A i \in 1 .. m : p[i] = o[i]
      /\ \A i \in 1 .. m : o[i] \in Nat
  BY <1>1
<1>4. lo[n] \in Nat /\ hi[n] \in Nat /\ lo[n] < h /\ h <= hi[n] /\ h \in Nat
  BY <1>1 DEF Intervals, PP!InOrder
<1>5. \A i \in 1 .. m : o[i] < h
  <2>1. \A i \in 1 .. m : o[i] <= lo[n]
    BY <1>2, <1>3 DEF Follows
  <2> QED
    BY <1>3, <1>4, <2>1
<1>6. \A i \in 1 .. m + 1 : i \in 1 .. m \/ i = m + 1
  BY <1>3
<1>7. \A i, j \in 1 .. m + 1 : i < j => p[i] < p[j]
  <2> SUFFICES ASSUME NEW i \in 1 .. m + 1, NEW j \in 1 .. m + 1, i < j PROVE p[i] < p[j]
    OBVIOUS
  <2>1. i \in 1 .. m
    BY <1>3
  <2>2. CASE j \in 1 .. m
    BY <1>3, <2>1, <2>2
  <2>3. CASE j = m + 1
    BY <1>3, <1>5, <2>1, <2>3
  <2> QED
    BY <1>6, <2>2, <2>3
<1>8. Follows(t, o, lo, hi)
  BY <1>1, FollowsTail
<1>9. \A i \in DOMAIN t : t[i] \in DOMAIN heap => h <= lo[t[i]]
  <2> SUFFICES ASSUME NEW i \in 1 .. l - 1, t[i] \in DOMAIN heap PROVE h <= lo[t[i]]
    BY <1>2
  <2>1. hi[n] <= lo[t[i]]
    BY <1>2 DEF Follows
  <2>2. lo[t[i]] \in Nat
    BY DEF Intervals
  <2> QED
    BY <1>4, <2>1, <2>2
<1>10. Follows(t, p, lo, hi)
  <2>1. \A i \in DOMAIN t, j \in DOMAIN p : t[i] \in DOMAIN heap => p[j] <= lo[t[i]]
    BY <1>3, <1>6, <1>8, <1>9 DEF Follows
  <2> QED
    BY <1>8, <2>1 DEF Follows
<1> QED
  BY <1>1, <1>3, <1>7, <1>10

(* and when its parts have taken its place. *)
LEMMA FollowsKids ==
  ASSUME Parsed, NEW w \in Seq(Refs), w # <<>>, NEW o \in Seq(Nat),
         NEW lo, NEW hi, Intervals(lo, hi), Follows(w, o, lo, hi),
         NEW n, n = w[1], n \in DOMAIN heap
  PROVE  Follows(PrintKids(n) \o Tail(w), o, lo, hi)
<1>1. PICK ks, a, l, t, w2 :
        /\ ks = PrintKids(n) /\ a = Len(ks) /\ l = Len(w) /\ t = Tail(w) /\ w2 = ks \o t
  OBVIOUS
<1>2. /\ l \in Nat \ {0} /\ DOMAIN t = 1 .. l - 1 /\ 1 \in DOMAIN w /\ t \in Seq(Refs)
      /\ \A i \in 1 .. l - 1 : i + 1 \in DOMAIN w /\ t[i] = w[i + 1] /\ 1 < i + 1
  BY <1>1, TailIs
<1>3. /\ ks \in Seq(Refs) /\ a \in Nat /\ DOMAIN ks = 1 .. a
      /\ \A k \in 1 .. a : k \in 1 .. 4 /\ k \in DOMAIN heap[n].kids /\ ks[k] = heap[n].kids[k]
  <2>1. /\ ks \in Seq(Refs)
        /\ \A k \in DOMAIN ks : k \in 1 .. 4 /\ k \in DOMAIN heap[n].kids /\ ks[k] = heap[n].kids[k]
    BY <1>1, PrintKidsAre, Zenon
  <2>2. a \in Nat /\ DOMAIN ks = 1 .. a
    <3>1. PICK S : S = Refs
      OBVIOUS
    <3>2. ks \in Seq(S)
      BY <2>1, <3>1
    <3> QED
      BY <1>1, <3>2
  <2> QED
    BY <2>1, <2>2
<1>4. /\ DOMAIN w2 = 1 .. a + (l - 1)
      /\ \A i \in 1 .. a : w2[i] = ks[i]
      /\ \A i \in 1 .. l - 1 : w2[a + i] = t[i]
  BY <1>1, <1>2, <1>3
<1>5. \A i \in 1 .. a + (l - 1) : i \in 1 .. a \/ (i - a \in 1 .. l - 1 /\ a + (i - a) = i)
  BY <1>2, <1>3
<1>6. \A m \in DOMAIN heap : lo[m] \in Nat /\ hi[m] \in Nat
  BY DEF Intervals
<1>7. PP!InOrder(heap[n], n, lo, hi, PP!Open)
  BY DEF Intervals
<1>8. Follows(t, o, lo, hi)
  BY <1>1, FollowsTail
<1>9. \A k \in 1 .. a : ks[k] \in DOMAIN heap => PP!Points(heap[n], k)
  BY <1>3, NodeIs DEF PP!Points
<1>10. ASSUME NEW k \in 1 .. a, ks[k] \in DOMAIN heap
       PROVE  lo[n] <= lo[ks[k]] /\ hi[ks[k]] <= hi[n]
  BY <1>3, <1>7, <1>9, <1>10 DEF PP!InOrder
<1>11. \A i \in DOMAIN t : t[i] \in DOMAIN heap => hi[n] <= lo[t[i]]
  BY <1>2 DEF Follows
<1>12. ASSUME NEW i \in DOMAIN w2, NEW j \in DOMAIN o, w2[i] \in DOMAIN heap PROVE o[j] <= lo[w2[i]]
  <2>1. CASE i \in 1 .. a
    <3>1. o[j] <= lo[n] /\ o[j] \in Nat
      BY <1>2 DEF Follows
    <3>2. lo[n] <= lo[w2[i]] /\ lo[n] \in Nat /\ lo[w2[i]] \in Nat
      BY <1>4, <1>6, <1>10, <1>12, <2>1
    <3> QED
      BY <3>1, <3>2
  <2>2. CASE i - a \in 1 .. l - 1 /\ a + (i - a) = i
    <3>1. w2[i] = t[i - a] /\ i - a \in DOMAIN t
      BY <1>2, <1>4, <2>2
    <3> QED
      BY <1>8, <1>12, <3>1 DEF Follows
  <2> QED
    BY <1>4, <1>5, <2>1, <2>2
<1>13. ASSUME NEW i \in DOMAIN w2, NEW j \in DOMAIN w2, i < j,
              w2[i] \in DOMAIN heap, w2[j] \in DOMAIN heap
       PROVE  hi[w2[i]] <= lo[w2[j]]
  <2>1. CASE i \in 1 .. a /\ j \in 1 .. a
    BY <1>3, <1>4, <1>7, <1>9, <1>13, <2>1 DEF PP!InOrder
  <2>2. CASE i \in 1 .. a /\ j \notin 1 .. a
    <3>1. j - a \in DOMAIN t /\ w2[j] = t[j - a]
      BY <1>2, <1>4, <1>5, <2>2
    <3>2. hi[n] <= lo[w2[j]] /\ hi[w2[i]] <= hi[n]
      BY <1>4, <1>10, <1>11, <1>13, <2>2, <3>1
    <3>3. hi[n] \in Nat /\ lo[w2[j]] \in Nat /\ hi[w2[i]] \in Nat
      BY <1>6, <1>13
    <3> QED
      BY <3>2, <3>3
  <2>3. CASE i \notin 1 .. a
    <3>1. i \in Nat /\ j \in Nat /\ j \notin 1 .. a
      BY <1>2, <1>3, <1>4, <1>13, <2>3
    <3>2. i - a \in DOMAIN t /\ w2[i] = t[i - a]
      BY <1>2, <1>4, <1>5, <2>3
    <3>3. j - a \in DOMAIN t /\ w2[j] = t[j - a]
      BY <1>2, <1>4, <1>5, <3>1
    <3>4. i - a < j - a
      BY <1>3, <1>13, <3>1
    <3> QED
      BY <1>8, <1>13, <3>2, <3>3, <3>4 DEF Follows
  <2> QED
    BY <2>1, <2>2, <2>3
<1>14. Follows(w2, o, lo, hi)
  BY <1>12, <1>13 DEF Follows
<1> QED
  BY <1>1, <1>14

LEMMA PrintNodeStep ==
  ASSUME CompilerInv, PrintNode
  PROVE  CompilerInv'
<1>1. /\ UNCHANGED lexer /\ UNCHANGED parser /\ freed' = freed
      /\ phase = "print" /\ phase' \in {"print", "undefined", "unwritten", "unset"} /\ walk # <<>>
  BY DEF PrintNode, Misread, Enter
<1>2. LexInv'
  BY <1>1, LexSame DEF CompilerInv, Late, Past
<1>3. ParseInv'
  BY <1>1, ParseSame DEF CompilerInv, ParseInv, Walked
<1>4. FreeInv' /\ FreedInv' /\ StringsInv'
  BY <1>1 DEF FreeInv, FreedInv, StringsInv, After
<1>5. PICK lo, hi : Intervals(lo, hi) /\ Follows(walk, out, lo, hi)
  BY <1>1 DEF CompilerInv, PrintInv
<1>6. /\ Parsed /\ freed = {} /\ out \in Seq(Nat) /\ walk \in Seq(Refs)
      /\ \A i, j \in DOMAIN out : i < j => out[i] < out[j]
      /\ Whole => \A i \in DOMAIN walk : walk[i] # P!Wild
      /\ \A i \in DOMAIN out : out[i] <= pos
  BY <1>1 DEF CompilerInv, ParseInv, PrintInv, Walked, PrintedInOrder
<1>7. PICK n : n = Head(walk)
  OBVIOUS
<1>8. n = walk[1] /\ 1 \in DOMAIN walk /\ n \in Refs
  BY <1>1, <1>6, <1>7, TailIs
<1>9. PICK R, t : R = Refs /\ t = Tail(walk)
  OBVIOUS
<1>10. /\ t \in Seq(R) /\ Follows(t, out, lo, hi)
       /\ Whole => \A i \in DOMAIN t : t[i] # P!Wild
  BY <1>1, <1>5, <1>6, <1>9, TailIs, FollowsTail
(* What a step that stays in the phase has to show. *)
<1>11. ASSUME phase' = "print", walk' \in Seq(R), out' \in Seq(Nat),
              \A i, j \in DOMAIN out' : i < j => out'[i] < out'[j],
              \A i \in DOMAIN out' : out'[i] <= pos,
              Follows(walk', out', lo, hi), Whole => \A i \in DOMAIN walk' : walk'[i] # P!Wild
       PROVE  CompilerInv'
  <2>1. Refs' = R /\ (Whole' <=> Whole) /\ pos' = pos
    BY <1>1, <1>9, TreeSame DEF parser
  <2>2. (\E a, b : Intervals(a, b) /\ Follows(walk, out, a, b))'
    BY <1>1, <1>5, <1>11, PrintSorted
  <2>3. PrintInv'
    BY <1>1, <1>6, <1>11, <2>1, <2>2 DEF PrintInv, PrintedInOrder, Walked
  <2>4. NothingUndefined'
    BY <1>11 DEF NothingUndefined
  <2> QED
    BY <1>2, <1>3, <1>4, <2>3, <2>4 DEF CompilerInv
<1>12. CASE n = P!NullTree
  <2>1. walk' = t /\ phase' = "print" /\ out' = out
    BY <1>7, <1>9, <1>12 DEF PrintNode, Enter
  <2> QED
    BY <1>6, <1>10, <1>11, <2>1
<1>13. CASE n # P!NullTree /\ (~Readable(n) \/ (heap[n].type = "VARIABLE" /\ Text(n) \notin live))
  <2>1. /\ walk' = walk /\ out' = out
        /\ phase' = IF Unwritten(n) THEN "unwritten" ELSE "undefined"
    BY <1>7, <1>13 DEF PrintNode, Misread, Enter
  <2>2. Unwritten(n)
    <3> SUFFICES ASSUME ~Unwritten(n) PROVE FALSE
      OBVIOUS
    <3>1. n \in DOMAIN heap
      BY <1>8, <1>13 DEF Unwritten, Refs
    <3>2. Readable(n)
      BY <1>6 DEF Unwritten, Readable
    <3> QED
      BY <1>1, <1>13, <3>1, <3>2, TextIs
  <2>3. ~Whole
    <3> SUFFICES ASSUME Whole PROVE FALSE
      OBVIOUS
    <3>1. n \in DOMAIN heap /\ n # P!Wild
      BY <1>6, <1>8, <1>13 DEF Refs
    <3>2. heap[n].type # "GARBAGE"
      BY <3>1 DEF Whole, P!Linked
    <3> QED
      BY <2>2, <3>1, <3>2 DEF Unwritten
  <2>4. PrintInv'
    BY <1>1, <2>1, <2>2, PrintSame DEF CompilerInv
  <2>5. NothingUndefined'
    BY <1>1, <2>1, <2>2, <2>3, NotWhole DEF CompilerInv, Walked
  <2> QED
    BY <1>2, <1>3, <1>4, <2>4, <2>5 DEF CompilerInv
<1>14. CASE n # P!NullTree /\ ~(~Readable(n) \/ (heap[n].type = "VARIABLE" /\ Text(n) \notin live))
            /\ phase' = "print"
  <2>1. /\ walk' = PrintKids(n) \o t
        /\ out' = IF heap[n].type \in {"INT", "VARIABLE"} THEN Append(out, heap[n].held) ELSE out
    BY <1>7, <1>9, <1>14 DEF PrintNode, Enter
  <2>2. n \in DOMAIN heap
    BY <1>8, <1>14 DEF Readable, Refs
  <2>3. CASE heap[n].type \in {"INT", "VARIABLE"}
    <3>1. PrintKids(n) = <<>>
      BY <1>6, <2>2, <2>3, PrintKidsAre, Zenon
    <3>2. walk' = t /\ out' = Append(out, heap[n].held)
      BY <1>10, <2>1, <2>3, <3>1
    <3>3. heap[n].held \in Nat /\ heap[n].held > 0
      BY <1>6, <2>2, <2>3, NodeIs
    <3>4. heap[n].held <= pos
      BY <1>6, <2>2 DEF Parsed, PP!OrderInv, PP!Ordered
    <3>5. /\ Follows(Tail(walk), Append(out, heap[n].held), lo, hi)
          /\ Append(out, heap[n].held) \in Seq(Nat)
          /\ \A i, j \in DOMAIN Append(out, heap[n].held) :
               i < j => Append(out, heap[n].held)[i] < Append(out, heap[n].held)[j]
      BY <1>1, <1>5, <1>6, <1>8, <2>2, <3>3, FollowsText
    <3>6. \A i \in DOMAIN Append(out, heap[n].held) : Append(out, heap[n].held)[i] <= pos
      BY <1>6, <3>3, <3>4
    <3>7. PICK p : p = Append(out, heap[n].held)
      OBVIOUS
    <3>8. /\ out' = p /\ Follows(t, p, lo, hi) /\ p \in Seq(Nat)
          /\ \A i, j \in DOMAIN p : i < j => p[i] < p[j]
          /\ \A i \in DOMAIN p : p[i] <= pos
      BY <1>9, <3>2, <3>5, <3>6, <3>7
    <3> QED
      BY <1>10, <1>11, <1>14, <3>2, <3>8
  <2>4. CASE heap[n].type \notin {"INT", "VARIABLE"}
    <3>1. out' = out
      BY <2>1, <2>4
    <3>2. PICK ks : ks = PrintKids(n)
      OBVIOUS
    <3>3. ks \in Seq(R)
      BY <1>6, <1>9, <2>2, <3>2, PrintKidsAre, Zenon
    <3>4. walk' = ks \o t /\ walk' \in Seq(R)
      BY <1>10, <2>1, <3>2, <3>3
    <3>5. Follows(PrintKids(n) \o Tail(walk), out, lo, hi)
      BY <1>1, <1>5, <1>6, <1>8, <2>2, FollowsKids
    <3>6. Follows(walk', out', lo, hi)
      BY <1>9, <3>1, <3>2, <3>4, <3>5
    <3>7. ASSUME Whole PROVE \A i \in DOMAIN walk' : walk'[i] # P!Wild
      <4>1. \A k \in DOMAIN ks : ks[k] # P!Wild
        <5>1. ASSUME NEW k \in DOMAIN ks PROVE ks[k] # P!Wild
          <6>1. /\ k \in DOMAIN heap[n].kids /\ ks[k] = heap[n].kids[k]
                /\ heap[n].type # "IFS"
            <7>1. k \in DOMAIN PrintKids(n)
              BY <3>2
            <7>2. DOMAIN <<>> = {}
              OBVIOUS
            <7>3. heap[n].type # "IFS"
              <8> SUFFICES ASSUME heap[n].type = "IFS" PROVE FALSE
                OBVIOUS
              <8>1. PrintKids(n) = <<>>
                BY <1>6, <2>2, PrintKidsAre, Zenon
              <8> QED
                BY <7>1, <7>2, <8>1
            <7> QED
              BY <1>6, <2>2, <3>2, <7>1, <7>3, PrintKidsAre, Zenon
          <6> QED
            BY <2>2, <3>7, <6>1 DEF Whole, P!Linked
        <5> QED
          BY <5>1
      <4>2. \A i \in DOMAIN t : t[i] # P!Wild
        BY <1>10, <3>7
      <4>3. PICK w, T : w = walk' /\ T = R \ {P!Wild}
        OBVIOUS
      <4>4. ks \in Seq(T) /\ t \in Seq(T)
        BY <1>10, <3>3, <4>1, <4>2, <4>3
      <4>5. w \in Seq(T)
        BY <3>4, <4>3, <4>4
      <4>6. \A i \in DOMAIN w : w[i] \in T
        BY <4>5
      <4> QED
        BY <4>3, <4>6
    <3> QED
      BY <1>6, <1>11, <1>14, <3>1, <3>4, <3>6, <3>7
  <2> QED
    BY <2>3, <2>4
(* The isConst of an assignment that has none. *)
<1>15. CASE n # P!NullTree /\ ~(~Readable(n) \/ (heap[n].type = "VARIABLE" /\ Text(n) \notin live))
            /\ phase' # "print"
  <2>1. phase' = "unset" /\ out' = out /\ ~P!IsConstWritten(n)
    BY <1>7, <1>15 DEF PrintNode, Enter
  <2>2. n \in DOMAIN heap /\ heap' = heap
    BY <1>1, <1>8, <1>15 DEF Readable, Refs, parser
  <2>3. PrintInv'
    BY <1>1, <2>1, PrintSame DEF CompilerInv
  <2>4. NothingUndefined'
    BY <2>1, <2>2 DEF NothingUndefined, P!IsConstWritten
  <2> QED
    BY <1>2, <1>3, <1>4, <2>3, <2>4 DEF CompilerInv
<1> QED
  BY <1>12, <1>13, <1>14, <1>15

-----------------------------------------------------------------------------
(* free_parse_tree. *)

(* A walk without its head. *)
LEMMA WalkTail ==
  ASSUME NEW w \in Seq(Visits), w # <<>>, NEW fr
  PROVE  /\ Tail(w) \in Seq(Visits)
         /\ Head(w) = w[1] /\ 1 \in DOMAIN w /\ w[1] \in Visits
         /\ Pending(Tail(w)) \subseteq Pending(w)
         /\ Pending(w) \subseteq Pending(Tail(w)) \union {w[1].node}
         /\ Entered(Tail(w), fr) \subseteq Entered(w, fr)
         /\ Entered(w, fr) \subseteq
              Entered(Tail(w), fr) \union (IF w[1].back THEN {w[1].node} ELSE {})
         /\ \A i \in DOMAIN Tail(w) : i + 1 \in DOMAIN w /\ Tail(w)[i] = w[i + 1] /\ i + 1 # 1 /\ i \in Nat
<1>1. PICK n, t : n = Len(w) /\ t = Tail(w)
  OBVIOUS
<1>2. /\ n \in Nat \ {0} /\ DOMAIN w = 1 .. n /\ 1 \in DOMAIN w /\ Head(w) = w[1] /\ w[1] \in Visits
      /\ t \in Seq(Visits) /\ DOMAIN t = 1 .. n - 1
      /\ \A i \in 1 .. n - 1 : i + 1 \in DOMAIN w /\ t[i] = w[i + 1]
  BY <1>1, TailIs
<1>3. \A i \in DOMAIN w : i = 1 \/ (i - 1 \in DOMAIN t /\ t[i - 1] = w[i])
  BY <1>2
<1>a. /\ \A i \in DOMAIN t : \E j \in DOMAIN w : t[i] = w[j]
      /\ \A j \in DOMAIN w : w[j] = w[1] \/ \E i \in DOMAIN t : t[i] = w[j]
  BY <1>2, <1>3
<1>4. Pending(t) \subseteq Pending(w) /\ Pending(w) \subseteq Pending(t) \union {w[1].node}
  <2>1. \A x : x \in Pending(t) => x \in Pending(w)
    BY <1>a DEF Pending
  <2>2. \A x : x \in Pending(w) => x \in Pending(t) \/ x = w[1].node
    BY <1>a DEF Pending
  <2> QED
    BY <2>1, <2>2
<1>5. /\ Entered(t, fr) \subseteq Entered(w, fr)
      /\ Entered(w, fr) \subseteq Entered(t, fr) \union (IF w[1].back THEN {w[1].node} ELSE {})
  BY <1>a DEF Entered
<1>6. \A i \in DOMAIN t : i + 1 \in DOMAIN w /\ t[i] = w[i + 1] /\ i + 1 # 1 /\ i \in Nat
  BY <1>2
<1> QED
  BY <1>1, <1>2, <1>4, <1>5, <1>6

LEMMA OnceTail ==
  ASSUME NEW w \in Seq(Visits), w # <<>>, NEW fr, Once(w, fr)
  PROVE  /\ Once(Tail(w), fr)
         /\ w[1].node \in DOMAIN heap => Once(Tail(w), fr \union {w[1].node})
<1>1. PICK t : t = Tail(w)
  OBVIOUS
<1>2. /\ 1 \in DOMAIN w
      /\ \A i \in DOMAIN t : i + 1 \in DOMAIN w /\ t[i] = w[i + 1] /\ i + 1 # 1 /\ i \in Nat
  BY <1>1, WalkTail
<1>3. ASSUME NEW i \in DOMAIN t, t[i].node \in DOMAIN heap
      PROVE  /\ t[i].node \notin fr /\ t[i].node # w[1].node
             /\ \A j \in DOMAIN t : t[i].node = t[j].node => i = j
  <2>1. \A j \in DOMAIN t : t[i].node = t[j].node => i + 1 = j + 1
    BY <1>2, <1>3 DEF Once
  <2>2. t[i].node \notin fr
    BY <1>2, <1>3 DEF Once
  <2>3. t[i].node = w[1].node => i + 1 = 1
    BY <1>2, <1>3 DEF Once
  <2> QED
    BY <1>2, <2>1, <2>2, <2>3
<1>4. Once(t, fr) /\ Once(t, fr \union {w[1].node})
  BY <1>3 DEF Once
<1> QED
  BY <1>1, <1>4

(* What is no node is passed by. *)
LEMMA WalkingDrop ==
  ASSUME NEW w, NEW fr, Walking(w, fr), w # <<>>, ~Head(w).back, Head(w).node \notin DOMAIN heap,
         1 \in DOMAIN heap
  PROVE  Walking(Tail(w), fr)
<1>1. PICK t : t = Tail(w)
  OBVIOUS
<1>2. /\ w \in Seq(Visits) /\ fr \subseteq DOMAIN heap /\ Once(w, fr) /\ Reached(w, fr) /\ Closed(w, fr)
      /\ \A i \in DOMAIN w : w[i].back => w[i].node \in DOMAIN heap
  BY DEF Walking
<1>3. /\ t \in Seq(Visits) /\ ~w[1].back /\ w[1].node \notin DOMAIN heap
      /\ Pending(t) \subseteq Pending(w) /\ Pending(w) \subseteq Pending(t) \union {w[1].node}
      /\ Entered(t, fr) \subseteq Entered(w, fr) /\ Entered(w, fr) \subseteq Entered(t, fr)
      /\ \A i \in DOMAIN t : i + 1 \in DOMAIN w /\ t[i] = w[i + 1]
  BY <1>1, <1>2, WalkTail
<1>4. Once(t, fr)
  BY <1>1, <1>2, OnceTail
<1>5. Reached(t, fr)
  BY <1>2, <1>3 DEF Reached
<1>6. Closed(t, fr)
  BY <1>2, <1>3 DEF Closed
<1>7. Walking(t, fr)
  BY <1>2, <1>3, <1>4, <1>5, <1>6 DEF Walking
<1> QED
  BY <1>1, <1>7

(* The node at the head is freed. *)
LEMMA WalkingBack ==
  ASSUME NEW w, NEW fr, Walking(w, fr), w # <<>>, Head(w).back
  PROVE  Walking(Tail(w), fr \union {Head(w).node})
<1>1. PICK t, n, fr2 : t = Tail(w) /\ n = Head(w).node /\ fr2 = fr \union {n}
  OBVIOUS
<1>2. /\ w \in Seq(Visits) /\ fr \subseteq DOMAIN heap /\ Once(w, fr) /\ Reached(w, fr) /\ Closed(w, fr)
      /\ \A i \in DOMAIN w : w[i].back => w[i].node \in DOMAIN heap
  BY DEF Walking
<1>3. /\ t \in Seq(Visits) /\ w[1].back /\ n = w[1].node /\ 1 \in DOMAIN w
      /\ Pending(t) \subseteq Pending(w) /\ Pending(w) \subseteq Pending(t) \union {n}
      /\ Entered(t, fr) \subseteq Entered(w, fr) /\ Entered(w, fr) \subseteq Entered(t, fr) \union {n}
      /\ \A i \in DOMAIN t : i + 1 \in DOMAIN w /\ t[i] = w[i + 1]
  BY <1>1, <1>2, WalkTail
<1>4. n \in DOMAIN heap
  BY <1>2, <1>3
<1>5. Once(t, fr2)
  BY <1>1, <1>2, <1>3, <1>4, OnceTail
<1>6. n \in Pending(w) /\ n \in Entered(w, fr)
  BY <1>3 DEF Pending, Entered
<1>7. Entered(t, fr2) = Entered(t, fr) \union {n}
  BY <1>1 DEF Entered
<1>8. /\ fr2 \union Pending(t) = fr \union Pending(w)
      /\ Entered(t, fr2) = Entered(w, fr)
  BY <1>1, <1>3, <1>6, <1>7
<1>9. Reached(t, fr2) /\ Closed(t, fr2)
  BY <1>2, <1>8 DEF Reached, Closed
<1>10. Walking(t, fr2)
  BY <1>1, <1>2, <1>3, <1>4, <1>5, <1>9 DEF Walking
<1> QED
  BY <1>1, <1>10

(* The node at the head is entered: its parts, none of which anyone else   *)
(* has, come before it.                                                    *)
LEMMA WalkingVisit ==
  ASSUME Parsed, stack = <<>>,
         NEW w, NEW fr, Walking(w, fr), w # <<>>, ~Head(w).back,
         NEW n, n = Head(w).node, n \in DOMAIN heap
  PROVE  Walking([i \in DOMAIN FreeKids(n) |-> Visit(FreeKids(n)[i])]
                   \o <<Back(n)>> \o Tail(w), fr)
<1> DEFINE A == [i \in DOMAIN FreeKids(n) |-> Visit(FreeKids(n)[i])]
           t == Tail(w)
           w2 == A \o <<Back(n)>> \o t
<1>1. PICK ks, a, l : ks = FreeKids(n) /\ a = Len(ks) /\ l = Len(w)
  OBVIOUS
<1>0. /\ w \in Seq(Visits) /\ fr \subseteq DOMAIN heap /\ Once(w, fr) /\ Reached(w, fr) /\ Closed(w, fr)
      /\ \A i \in DOMAIN w : w[i].back => w[i].node \in DOMAIN heap
  BY DEF Walking
<1>2. /\ l \in Nat \ {0} /\ DOMAIN w = 1 .. l /\ 1 \in DOMAIN w /\ w[1].node = n /\ ~w[1].back
      /\ t \in Seq(Visits) /\ Len(t) = l - 1
      /\ \A i \in 1 .. l - 1 : i + 1 \in DOMAIN w /\ t[i] = w[i + 1]
  BY <1>0, <1>1, TailIs
<1>3. /\ ks \in Seq(Refs)
      /\ \A k \in DOMAIN ks : k \in 1 .. 4 /\ k \in DOMAIN heap[n].kids /\ ks[k] = heap[n].kids[k]
                              /\ heap[n].type \notin Blocking
      /\ heap[n].type \notin Blocking => DOMAIN ks = DOMAIN heap[n].kids
  BY <1>1, FreeKidsAre
<1>4. /\ a \in Nat /\ DOMAIN ks = 1 .. a /\ \A k \in 1 .. a : ks[k] \in Refs
  <2>1. PICK R : R = Refs
    OBVIOUS
  <2>2. ks \in Seq(R)
    BY <1>3, <2>1
  <2>3. a \in Nat /\ DOMAIN ks = 1 .. a /\ \A k \in 1 .. a : ks[k] \in R
    BY <1>1, <2>2
  <2> QED
    BY <2>1, <2>3
<1>5. PICK V : V = Visits
  OBVIOUS
<1>6. A \in Seq(V) /\ Len(A) = a /\ \A i \in 1 .. a : A[i] = Visit(ks[i])
  <2>1. \A i \in 1 .. a : Visit(ks[i]) \in V
    BY <1>4, <1>5 DEF Visit, Visits
  <2>2. A = [i \in 1 .. a |-> Visit(ks[i])]
    BY <1>1, <1>4
  <2> HIDE DEF A
  <2> QED
    BY <1>4, <2>1, <2>2
<1>7. Back(n) \in V /\ Back(n).node = n /\ Back(n).back
  BY <1>5 DEF Back, Visits, Refs
<1>l. l \in Nat \ {0} /\ a \in Nat
  BY <1>2, <1>4
<1> HIDE DEF A, t
<1>8. /\ w2 \in Seq(V) /\ DOMAIN w2 = 1 .. a + l
      /\ \A i \in 1 .. a : w2[i] = A[i]
      /\ w2[a + 1] = Back(n)
      /\ \A i \in 1 .. l - 1 : w2[a + 1 + i] = t[i]
  <2>1. /\ A \in Seq(V) /\ Len(A) = a /\ t \in Seq(V) /\ Len(t) = l - 1 /\ Back(n) \in V
    BY <1>2, <1>5, <1>6, <1>7
  <2>2. PICK b : b = Back(n)
    OBVIOUS
  <2>3. PICK c, u : c = A /\ u = c \o <<b>>
    OBVIOUS
  <2>3a. c \in Seq(V) /\ Len(c) = a /\ b \in V
    BY <2>1, <2>2, <2>3
  <2>3b. u = Append(c, b)
    BY <2>3, <2>3a
  <2>3c. u \in Seq(V) /\ Len(u) = a + 1
    BY <1>l, <2>3a, <2>3b
  <2>3d. u[a + 1] = b
    BY <1>l, <2>3a, <2>3b
  <2>3e. \A i \in 1 .. a : u[i] = c[i]
    BY <1>l, <2>3a, <2>3b
  <2>4. /\ u \in Seq(V) /\ Len(u) = a + 1 /\ u[a + 1] = b /\ \A i \in 1 .. a : u[i] = A[i]
    BY <2>3, <2>3c, <2>3d, <2>3e
  <2>5. /\ u \o t \in Seq(V) /\ Len(u \o t) = a + l
        /\ \A i \in 1 .. a + 1 : (u \o t)[i] = u[i]
        /\ \A i \in 1 .. l - 1 : (u \o t)[a + 1 + i] = t[i]
    <3>1. PICK d, m : d = Len(u) /\ m = Len(t)
      OBVIOUS
    <3>2. d = a + 1 /\ m = l - 1 /\ d + m = a + l
      BY <1>l, <2>1, <2>4, <3>1
    <3>3. /\ u \o t \in Seq(V) /\ Len(u \o t) = d + m
          /\ \A i \in 1 .. d + m : (u \o t)[i] = IF i <= d THEN u[i] ELSE t[i - d]
      BY <2>1, <2>4, <3>1, ConcatProperties
    <3>4. PICK z : z = u \o t
      OBVIOUS
    <3>5. z \in Seq(V) /\ Len(z) = d + m
      BY <3>3, <3>4, Zenon
    <3>6. \A i \in 1 .. d + m : z[i] = IF i <= d THEN u[i] ELSE t[i - d]
      BY <3>3, <3>4, Zenon
    <3>7. d \in Nat /\ m \in Nat
      BY <1>l, <3>2
    <3>8. \A i \in 1 .. d : z[i] = u[i]
      BY <3>6, <3>7
    <3>9. \A i \in 1 .. m : z[d + i] = t[i]
      <4>1. \A i \in 1 .. m : d + i \in 1 .. d + m /\ ~ (d + i <= d) /\ (d + i) - d = i
        BY <3>7
      <4> QED
        BY <3>6, <4>1, Zenon
    <3> QED
      BY <3>2, <3>4, <3>5, <3>8, <3>9, Zenon
  <2>6. w2 = u \o t
    BY <2>2, <2>3
  <2>7. DOMAIN (u \o t) = 1 .. a + l /\ a + 1 \in 1 .. a + 1 /\ \A i \in 1 .. a : i \in 1 .. a + 1
    BY <1>l, <2>5
  <2> QED
    BY <2>2, <2>4, <2>5, <2>6, <2>7
<1> HIDE DEF w2
<1>9. /\ \A i \in 1 .. a : w2[i].node = ks[i] /\ ~w2[i].back
      /\ w2[a + 1].node = n /\ w2[a + 1].back
      /\ \A i \in a + 2 .. a + l : i - a \in 2 .. l /\ w2[i] = w[i - a]
      /\ \A i \in 1 .. a + l : i \in 1 .. a \/ i = a + 1 \/ i \in a + 2 .. a + l
      /\ \A i \in 2 .. l : a + i \in a + 2 .. a + l /\ w2[a + i] = w[i]
  <2>1. \A i \in a + 2 .. a + l : i - a \in 2 .. l /\ i - a - 1 \in 1 .. l - 1
                                   /\ a + 1 + (i - a - 1) = i /\ (i - a - 1) + 1 = i - a
    <3>1. ASSUME NEW i \in a + 2 .. a + l
          PROVE  /\ i - a \in 2 .. l /\ i - a - 1 \in 1 .. l - 1
                 /\ a + 1 + (i - a - 1) = i /\ (i - a - 1) + 1 = i - a
      <4>1. PICK a0, l0 : a0 = a /\ l0 = l
        OBVIOUS
      <4>2. a0 \in Nat /\ l0 \in Nat /\ i \in a0 + 2 .. a0 + l0
        BY <1>l, <3>1, <4>1
      <4>3. /\ i - a0 \in 2 .. l0 /\ i - a0 - 1 \in 1 .. l0 - 1
            /\ a0 + 1 + (i - a0 - 1) = i /\ (i - a0 - 1) + 1 = i - a0
        BY <4>2
      <4> QED
        BY <4>1, <4>3
    <3> QED
      BY <3>1
  <2>2. \A i \in a + 2 .. a + l : i - a \in 2 .. l /\ w2[i] = w[i - a]
    <3>1. ASSUME NEW i \in a + 2 .. a + l
          PROVE  i - a \in 2 .. l /\ w2[i] = w[i - a]
      <4>1. PICK j : j = i - a - 1
        OBVIOUS
      <4>2. i - a \in 2 .. l /\ j \in 1 .. l - 1 /\ a + 1 + j = i /\ j + 1 = i - a
        BY <2>1, <3>1, <4>1, Zenon
      <4>3. w2[a + 1 + j] = t[j]
        BY <1>8, <4>2, Zenon
      <4>4. t[j] = w[j + 1]
        BY <1>2, <4>2, Zenon
      <4> QED
        BY <4>2, <4>3, <4>4, Zenon
    <3> QED
      BY <3>1, Zenon
  <2>3. \A i \in 2 .. l : a + i \in a + 2 .. a + l /\ (a + i) - a = i
    BY <1>2, <1>4
  <2>4. \A i \in 1 .. a + l : i \in 1 .. a \/ i = a + 1 \/ i \in a + 2 .. a + l
    BY <1>2, <1>4
  <2>5. \A i \in 1 .. a : w2[i].node = ks[i] /\ ~w2[i].back
    BY <1>6, <1>8 DEF Visit
  <2> QED
    BY <1>7, <1>8, <2>2, <2>3, <2>4, <2>5
<1>10. n \notin fr /\ \A j \in 1 .. l : w[j].node = n => j = 1
  BY <1>0, <1>2 DEF Once
<1>11. n \notin Entered(w, fr)
  BY <1>2, <1>10 DEF Entered
<1>12. PP!OneParent /\ PP!RootOnTop
  BY PP!FinishedTree, TokenArrays DEF Parsed
<1>13. ASSUME NEW i \in 1 .. a, ks[i] \in DOMAIN heap
       PROVE  /\ ChildOf(ks[i], n) /\ ks[i] \notin fr \union Pending(w)
              /\ \A j \in 1 .. a : ks[i] = ks[j] => i = j
  <2>1. ks[i] > 0
    BY <1>13, NodeIs
  <2>2. ks[i] # 1
    BY <1>3, <1>4, <1>12 DEF PP!RootOnTop
  <2>3. \A m : ChildOf(ks[i], m) => m = n
    BY <1>3, <1>4, <1>12, <2>1 DEF PP!OneParent, ChildOf
  <2>4. ks[i] \notin fr \union Pending(w)
    BY <1>0, <1>11, <1>13, <2>2, <2>3 DEF Reached
  <2>5. \A j \in 1 .. a : ks[i] = ks[j] => i = j
    BY <1>3, <1>4, <1>12, <2>1 DEF PP!OneParent
  <2> QED
    BY <1>3, <1>4, <2>4, <2>5 DEF ChildOf
<1>14. \A i \in 1 .. l : w[i].node \in Pending(w)
  BY <1>2 DEF Pending
<1>15. ASSUME NEW i \in DOMAIN w2, w2[i].node \in DOMAIN heap
       PROVE  w2[i].node \notin fr /\ \A j \in DOMAIN w2 : w2[i].node = w2[j].node => i = j
  <2>a. \A j \in 2 .. l : j \in 1 .. l /\ j # 1
    BY <1>2
  <2>1. CASE i \in 1 .. a
    <3>1. w2[i].node = ks[i] /\ ks[i] \notin fr /\ ks[i] \notin Pending(w)
      BY <1>9, <1>13, <1>15, <2>1
    <3>2. ASSUME NEW j \in DOMAIN w2, w2[j].node = ks[i] PROVE i = j
      <4>1. CASE j \in 1 .. a
        BY <1>9, <1>13, <1>15, <2>1, <3>2, <4>1
      <4>2. CASE j = a + 1
        BY <1>2, <1>9, <1>14, <3>1, <3>2, <4>2
      <4>3. CASE j \in a + 2 .. a + l
        BY <1>9, <1>14, <2>a, <3>1, <3>2, <4>3
      <4> QED
        BY <1>8, <1>9, <4>1, <4>2, <4>3
    <3> QED
      BY <3>1, <3>2
  <2>2. CASE i = a + 1
    <3>1. w2[i].node = n
      BY <1>9, <2>2
    <3>2. ASSUME NEW j \in DOMAIN w2, w2[j].node = n PROVE i = j
      <4>1. CASE j \in 1 .. a
        <5>1. ks[j] = n /\ ks[j] \in DOMAIN heap
          BY <1>9, <3>2, <4>1
        <5>2. n \in Pending(w)
          BY <1>2, <1>14
        <5> QED
          BY <1>13, <4>1, <5>1, <5>2
      <4>2. CASE j \in a + 2 .. a + l
        BY <1>9, <1>10, <2>a, <3>2, <4>2
      <4> QED
        BY <1>8, <1>9, <2>2, <4>1, <4>2
    <3> QED
      BY <1>10, <3>1, <3>2
  <2>3. CASE i \in a + 2 .. a + l
    <3>1. PICK p \in 2 .. l : p = i - a /\ w2[i] = w[p] /\ p \in 1 .. l /\ p # 1
      BY <1>9, <2>3, <2>a
    <3>2. w[p].node \notin fr /\ \A q \in 1 .. l : w[p].node = w[q].node => p = q
      BY <1>0, <1>2, <1>15, <3>1 DEF Once
    <3>3. ASSUME NEW j \in DOMAIN w2, w2[i].node = w2[j].node PROVE i = j
      <4>1. CASE j \in 1 .. a
        BY <1>9, <1>13, <1>14, <1>15, <3>1, <3>3, <4>1
      <4>2. CASE j = a + 1
        BY <1>9, <1>10, <3>1, <3>3, <4>2
      <4>3. CASE j \in a + 2 .. a + l
        <5>1. PICK q \in 2 .. l : q = j - a /\ w2[j] = w[q] /\ q \in 1 .. l
          BY <1>9, <2>a, <4>3
        <5>2. i - a = j - a
          BY <3>1, <3>2, <3>3, <5>1
        <5> QED
          BY <1>4, <2>3, <4>3, <5>2
      <4> QED
        BY <1>8, <1>9, <4>1, <4>2, <4>3
    <3> QED
      BY <3>1, <3>2, <3>3
  <2> QED
    BY <1>8, <1>9, <2>1, <2>2, <2>3
<1>16. Once(w2, fr)
  BY <1>15 DEF Once
<1>17. \A j \in 1 .. l : j # 1 => a + j \in DOMAIN w2 /\ w2[a + j] = w[j]
  <2>1. \A j \in 1 .. l : j # 1 => j \in 2 .. l /\ a + j \in 1 .. a + l
    BY <1>2, <1>4
  <2> QED
    BY <1>8, <1>9, <2>1
<1>18. a + 1 \in DOMAIN w2 /\ \A j \in 1 .. a : j \in DOMAIN w2
  BY <1>2, <1>4, <1>8
<1>19. /\ Entered(w, fr) \subseteq Entered(w2, fr) /\ n \in Entered(w2, fr)
       /\ Entered(w2, fr) \subseteq Entered(w, fr) \union {n}
  <2>1. ASSUME NEW j \in DOMAIN w, w[j].back PROVE w[j].node \in Entered(w2, fr)
    BY <1>2, <1>17, <2>1 DEF Entered
  <2>2. ASSUME NEW j \in DOMAIN w2, w2[j].back PROVE w2[j].node \in Entered(w, fr) \union {n}
    <3>1. CASE j \in a + 2 .. a + l
      <4>1. j - a \in DOMAIN w /\ w2[j] = w[j - a]
        BY <1>2, <1>9, <3>1
      <4> QED
        BY <2>2, <4>1 DEF Entered
    <3>2. CASE j = a + 1
      BY <1>9, <3>2
    <3> QED
      BY <1>8, <1>9, <2>2, <3>1, <3>2
  <2> QED
    BY <1>9, <1>18, <2>1, <2>2 DEF Entered
<1>20. Pending(w) \subseteq Pending(w2)
  <2>1. ASSUME NEW j \in 1 .. l PROVE w[j].node \in Pending(w2)
    <3>1. CASE j = 1
      BY <1>2, <1>9, <1>18, <3>1 DEF Pending
    <3>2. CASE j # 1
      BY <1>17, <3>2 DEF Pending
    <3> QED
      BY <3>1, <3>2
  <2> QED
    BY <1>2, <2>1 DEF Pending
<1>21. ASSUME NEW x \in fr \union Pending(w2), x \in DOMAIN heap, x # 1
       PROVE  \E m \in Entered(w2, fr) : ChildOf(x, m)
  <2>1. CASE x \in fr \union Pending(w)
    BY <1>0, <1>19, <1>21, <2>1 DEF Reached
  <2>2. CASE x \notin fr \union Pending(w)
    <3>1. PICK i \in DOMAIN w2 : x = w2[i].node
      BY <1>21, <2>2 DEF Pending
    <3>2. i \notin a + 2 .. a + l /\ i # a + 1
      <4>1. \A j \in 2 .. l : j \in 1 .. l
        BY <1>2
      <4> QED
        BY <1>2, <1>9, <1>14, <2>2, <3>1, <4>1
    <3>3. i \in 1 .. a /\ x = ks[i]
      BY <1>8, <1>9, <3>1, <3>2
    <3> QED
      BY <1>13, <1>19, <1>21, <3>3
  <2> QED
    BY <2>1, <2>2
<1>22. Reached(w2, fr)
  BY <1>21 DEF Reached
<1>23. ASSUME NEW m \in Entered(w2, fr), NEW x \in DOMAIN heap, ChildOf(x, m)
       PROVE  x \in fr \union Pending(w2)
  <2>1. CASE m \in Entered(w, fr)
    BY <1>0, <1>20, <1>23, <2>1 DEF Closed
  <2>2. CASE m = n
    <3>1. PICK k \in 1 .. 4 : k \in DOMAIN heap[n].kids /\ heap[n].kids[k] = x /\ heap[n].type \notin Blocking
      BY <1>23, <2>2 DEF ChildOf
    <3>2. k \in 1 .. a /\ ks[k] = x
      BY <1>3, <1>4, <3>1
    <3> QED
      BY <1>9, <1>18, <3>2 DEF Pending
  <2> QED
    BY <1>19, <1>23, <2>1, <2>2
<1>24. Closed(w2, fr)
  BY <1>0, <1>20, <1>23 DEF Closed
<1>25. \A i \in DOMAIN w2 : w2[i].back => w2[i].node \in DOMAIN heap
  <2>1. \A i \in a + 2 .. a + l : w2[i].back => w2[i].node \in DOMAIN heap
    <3>1. \A i \in a + 2 .. a + l : i - a \in DOMAIN w
      BY <1>2, <1>9
    <3> QED
      BY <1>0, <1>9, <3>1
  <2> QED
    BY <1>8, <1>9, <2>1
<1>26. Walking(w2, fr)
  BY <1>0, <1>5, <1>8, <1>16, <1>22, <1>24, <1>25 DEF Walking
<1> QED
  BY <1>26 DEF w2, A, t

LEMMA BeginFreeStep ==
  ASSUME CompilerInv, BeginFree
  PROVE  CompilerInv'
<1>1. /\ UNCHANGED lexer /\ UNCHANGED parser /\ freed' = freed /\ out' = out
      /\ phase = "print" /\ phase' = "free" /\ walk' = <<Visit(1)>>
  BY DEF BeginFree, Enter
<1>2. LexInv'
  BY <1>1, LexSame DEF CompilerInv, Late, Past
<1>3. ParseInv'
  BY <1>1, ParseSame DEF CompilerInv, ParseInv, Walked
<1>4. PrintInv'
  BY <1>1, PrintSame DEF CompilerInv, Walked, parser
<1>5. Visit(1) \in Visits /\ Visit(1).node = 1 /\ ~Visit(1).back /\ freed = {} /\ 1 \in DOMAIN heap
  BY <1>1 DEF CompilerInv, PrintInv, ParseInv, Parsed, PP!ShapeInv, Walked, Refs, Visits, Visit
<1>6. PICK V, v : V = Visits /\ v = Visit(1)
  OBVIOUS
<1>7. walk' \in Seq(V) /\ DOMAIN walk' = {1} /\ walk'[1] = v
  BY <1>1, <1>5, <1>6
<1>8. Pending(walk') = {1} /\ Entered(walk', freed') = {}
  BY <1>1, <1>5, <1>6, <1>7 DEF Pending, Entered
<1>9. Once(walk', freed') /\ Reached(walk', freed') /\ Closed(walk', freed')
  <2>1. freed' = {} /\ \A i, j \in DOMAIN walk' : i = j
    BY <1>1, <1>5, <1>7
  <2>2. Once(walk', freed')
    BY <2>1 DEF Once
  <2>3. Reached(walk', freed')
    BY <1>8, <2>1 DEF Reached
  <2>4. Closed(walk', freed')
    BY <1>8, <2>1 DEF Closed
  <2> QED
    BY <2>2, <2>3, <2>4
<1>10. Walking(walk', freed')
  BY <1>1, <1>5, <1>6, <1>7, <1>9 DEF Walking
<1>11. \A i \in DOMAIN walk' : walk'[i].node # P!Wild
  BY <1>5, <1>6, <1>7 DEF P!Wild
<1>12. FreeInv'
  BY <1>1, <1>10, <1>11, WalkingSame DEF FreeInv
<1> QED
  BY <1>1, <1>2, <1>3, <1>4, <1>12 DEF CompilerInv, FreedInv, StringsInv, NothingUndefined, After

LEMMA FreeStep ==
  ASSUME CompilerInv, FreeVisit \/ FreeNode
  PROVE  CompilerInv'
<1>1. /\ UNCHANGED lexer /\ UNCHANGED parser /\ out' = out
      /\ phase = "free" /\ phase' \in {"free", "undefined", "unwritten"} /\ walk # <<>>
  BY DEF FreeVisit, FreeNode, Misread, Enter
<1>2. LexInv'
  BY <1>1, LexSame DEF CompilerInv, Late, Past
<1>3. ParseInv'
  BY <1>1, ParseSame DEF CompilerInv, ParseInv, Walked
<1>4. PrintInv' /\ FreedInv' /\ StringsInv'
  BY <1>1, PrintSame DEF CompilerInv, FreedInv, StringsInv, After, Walked, parser
<1>5. /\ Parsed /\ stack = <<>> /\ 1 \in DOMAIN heap
      /\ Walking(walk, freed) /\ walk \in Seq(Visits) /\ freed \subseteq DOMAIN heap
      /\ Whole => \A i \in DOMAIN walk : walk[i].node # P!Wild
  BY <1>1 DEF CompilerInv, ParseInv, FreeInv, Walking, Walked, Parsed, PP!ShapeInv
<1>6. PICK n, t : n = Head(walk).node /\ t = Tail(walk)
  OBVIOUS
<1>7. /\ n = walk[1].node /\ 1 \in DOMAIN walk /\ n \in Refs
      /\ Whole => \A i \in DOMAIN t : t[i].node # P!Wild
  <2>1. /\ Head(walk) = walk[1] /\ 1 \in DOMAIN walk /\ walk[1] \in Visits
        /\ \A i \in DOMAIN t : i + 1 \in DOMAIN walk /\ t[i] = walk[i + 1]
    BY <1>1, <1>5, <1>6, WalkTail
  <2>2. walk[1].node \in Refs
    BY <2>1 DEF Visits
  <2> QED
    BY <1>5, <1>6, <2>1, <2>2
(* What a step that stays in the phase has to show. *)
<1>8. ASSUME phase' = "free", Walking(walk', freed'),
             Whole => \A i \in DOMAIN walk' : walk'[i].node # P!Wild
      PROVE  CompilerInv'
  <2>1. FreeInv'
    BY <1>1, <1>8, WalkingSame, TreeSame DEF FreeInv
  <2> QED
    BY <1>2, <1>3, <1>4, <1>8, <2>1 DEF CompilerInv, NothingUndefined
<1>9. CASE FreeNode
  <2>1. walk' = t /\ freed' = freed \union {n} /\ Head(walk).back /\ phase' = "free"
    BY <1>6, <1>9 DEF FreeNode, Enter
  <2>2. Walking(Tail(walk), freed \union {Head(walk).node})
    BY <1>1, <1>5, <2>1, WalkingBack
  <2>3. Walking(walk', freed')
    BY <1>6, <2>1, <2>2
  <2> QED
    BY <1>7, <1>8, <2>1, <2>3
<1>10. CASE FreeVisit /\ n = P!NullTree
  <2>1. walk' = t /\ freed' = freed /\ ~Head(walk).back /\ phase' = "free"
    BY <1>6, <1>10 DEF FreeVisit, Enter
  <2>2. n \notin DOMAIN heap
    BY <1>5, <1>10, NodeIs
  <2>3. Walking(Tail(walk), freed)
    BY <1>1, <1>5, <1>6, <2>1, <2>2, WalkingDrop
  <2>4. Walking(walk', freed')
    BY <1>6, <2>1, <2>3
  <2> QED
    BY <1>7, <1>8, <2>1, <2>4
<1>11. CASE FreeVisit /\ n # P!NullTree /\ ~Readable(n)
  <2>1. freed' = freed /\ phase' = IF Unwritten(n) THEN "unwritten" ELSE "undefined"
    BY <1>6, <1>11 DEF FreeVisit, Misread, Enter
  <2>2. n = P!Wild \/ (n \in DOMAIN heap /\ n \notin freed)
    BY <1>5, <1>7, <1>11 DEF Refs, Walking, Once
  <2>3. Unwritten(n)
    BY <1>11, <2>2 DEF Unwritten, Readable
  <2>4. ~Whole
    <3> SUFFICES ASSUME Whole PROVE FALSE
      OBVIOUS
    <3>1. n \in DOMAIN heap /\ n # P!Wild
      BY <1>5, <1>7, <1>11 DEF Refs
    <3>2. heap[n].type # "GARBAGE"
      BY <3>1 DEF Whole, P!Linked
    <3> QED
      BY <2>3, <3>1, <3>2 DEF Unwritten
  <2>5. NothingUndefined'
    BY <1>1, <2>1, <2>3, <2>4, NotWhole DEF CompilerInv, Walked
  <2> QED
    BY <1>2, <1>3, <1>4, <2>1, <2>3, <2>5 DEF CompilerInv, FreeInv
<1>12. CASE FreeVisit /\ n # P!NullTree /\ Readable(n)
  <2>1. n \in DOMAIN heap /\ ~Head(walk).back
    BY <1>7, <1>12 DEF Readable, Refs, FreeVisit
  <2>2. /\ walk' = [i \in DOMAIN FreeKids(n) |-> Visit(FreeKids(n)[i])] \o <<Back(n)>> \o Tail(walk)
        /\ phase' = "free" /\ freed' = freed
    BY <1>6, <1>12 DEF FreeVisit, Enter
  <2>3. Walking([i \in DOMAIN FreeKids(n) |-> Visit(FreeKids(n)[i])]
                  \o <<Back(n)>> \o Tail(walk), freed)
    BY <1>1, <1>5, <1>6, <2>1, WalkingVisit
  <2>4. Walking(walk', freed')
    BY <2>2, <2>3, Zenon
  <2>5. ASSUME Whole PROVE \A i \in DOMAIN walk' : walk'[i].node # P!Wild
    <3>1. \A k \in DOMAIN FreeKids(n) : FreeKids(n)[k] # P!Wild
      <4>1. ASSUME NEW k \in DOMAIN FreeKids(n) PROVE FreeKids(n)[k] # P!Wild
        <5>1. /\ k \in DOMAIN heap[n].kids /\ FreeKids(n)[k] = heap[n].kids[k]
              /\ heap[n].type # "IFS"
          BY <1>5, <2>1, <4>1, FreeKidsAre DEF Blocking
        <5> QED
          BY <2>1, <2>5, <5>1 DEF Whole, P!Linked
      <4> QED
        BY <4>1
    <3>2. PICK ks, T, A : ks = FreeKids(n) /\ T = {v \in Visits : v.node # P!Wild}
                          /\ A = [i \in DOMAIN FreeKids(n) |-> Visit(FreeKids(n)[i])]
      OBVIOUS
    <3>3. A \in Seq(T)
      <4>1. PICK R : R = Refs
        OBVIOUS
      <4>2. ks \in Seq(R)
        BY <1>5, <2>1, <3>2, <4>1, FreeKidsAre, Zenon
      <4>3. \A k \in DOMAIN ks : ks[k] \in R
        BY <4>2
      <4>4. \A k \in DOMAIN ks : Visit(ks[k]) \in T
        BY <3>1, <3>2, <4>1, <4>3 DEF Visit, Visits
      <4>5. A = [k \in DOMAIN ks |-> Visit(ks[k])]
        BY <3>2
      <4>6. PICK a : a = Len(ks) /\ a \in Nat /\ DOMAIN ks = 1 .. a
        BY <4>2
      <4> QED
        BY <4>4, <4>5, <4>6
    <3>4. t \in Seq(T)
      <4>1. PICK V : V = Visits
        OBVIOUS
      <4>2. t \in Seq(V)
        BY <1>1, <1>5, <1>6, <4>1, WalkTail
      <4>3. \A i \in DOMAIN t : t[i] \in T
        BY <1>7, <2>5, <3>2, <4>1, <4>2
      <4> QED
        BY <4>2, <4>3
    <3>5. PICK b : b = Back(n) /\ b \in T
      <4>1. PICK b : b = Back(n)
        OBVIOUS
      <4>2. b \in Visits /\ b.node = n
        BY <2>1, <4>1 DEF Back, Visits, Refs
      <4>3. n # P!Wild
        BY <1>12 DEF Readable
      <4> QED
        BY <3>2, <4>1, <4>2, <4>3
    <3>6. PICK w, u : w = walk' /\ u = A \o <<b>>
      OBVIOUS
    <3>7. u \in Seq(T)
      BY <3>3, <3>5, <3>6
    <3>8. u \o t \in Seq(T)
      BY <3>4, <3>7
    <3>9. w = u \o t
      <4>1. w = A \o <<b>> \o t
        BY <1>6, <2>2, <3>2, <3>5, <3>6, Zenon
      <4> QED
        BY <3>6, <4>1
    <3>10. \A i \in DOMAIN w : w[i] \in T
      BY <3>8, <3>9
    <3> QED
      BY <3>2, <3>6, <3>10
  <2> QED
    BY <1>8, <2>2, <2>4, <2>5
<1> QED
  BY <1>9, <1>10, <1>11, <1>12

LEMMA EndFreeStep ==
  ASSUME CompilerInv, EndFree
  PROVE  CompilerInv'
<1>1. /\ UNCHANGED lexer /\ UNCHANGED parser /\ freed' = freed /\ walk' = walk /\ out' = out
      /\ ret' = ret /\ stack' = stack
      /\ phase = "free" /\ phase' = "llvm" /\ walk = <<>>
  BY DEF EndFree, Enter, parser, walker
<1>2. LexInv'
  BY <1>1, LexSame DEF CompilerInv, Late, Past
<1>3. ParseInv'
  BY <1>1, ParseSame DEF CompilerInv, Walked
<1>4. PrintInv'
  BY <1>1, PrintSame DEF CompilerInv
<1>5. Parsed /\ stack = <<>> /\ ret /\ Walking(walk, freed)
  BY <1>1 DEF CompilerInv, ParseInv, FreeInv, Walked
<1>6. Parsed' /\ Walking(walk, freed)' /\ stack' = <<>> /\ ret'
  BY <1>1, <1>5, ParserKept, WalkingSame
<1>7. FreedInv'
  <2>1. walk' = <<>>
    BY <1>1
  <2> QED
    BY <1>6, <2>1 DEF FreedInv
<1> QED
  BY <1>1, <1>2, <1>3, <1>4, <1>7 DEF CompilerInv, FreeInv, StringsInv, NothingUndefined

-----------------------------------------------------------------------------
(* The loop over the strings. *)

LEMMA TestStep ==
  ASSUME CompilerInv, TestLLVM
  PROVE  CompilerInv'
<1>1. /\ UNCHANGED lexer /\ UNCHANGED parser /\ freed' = freed /\ toks' = toks /\ live' = live
      /\ file' = file /\ out' = out
      /\ phase = "llvm" /\ phase' \in {"failed", "strings"}
      /\ phase' = "strings" => walk' = [i \in DOMAIN toks |-> i]
  BY DEF TestLLVM, Enter, lexer
<1>2. LexInv'
  BY <1>1, LexSame DEF CompilerInv, Late, Past
<1>3. ParseInv'
  BY <1>1, ParseSame DEF CompilerInv, Walked
<1>4. PrintInv'
  BY <1>1, PrintSame DEF CompilerInv
<1>5. FreedInv'
  BY <1>1, FreedSame DEF CompilerInv, After
<1>6. StringsInv'
  <2> SUFFICES ASSUME phase' = "strings" PROVE StringsInv'
    BY <1>1 DEF StringsInv
  <2>1. LP!KeptInv /\ TextOwned /\ pc = "done" /\ toks \in Seq(LP!Token)
    BY <1>1 DEF CompilerInv, LexInv, Late, Past, LP!LexerInv, LP!TypeOK
  <2>2. PICK D : D = DOMAIN toks
    OBVIOUS
  <2>3. walk' \in Seq(D) /\ DOMAIN walk' = D /\ \A i \in D : walk'[i] = i
    BY <1>1, <2>1, <2>2
  <2>4. /\ \A i \in D : toks[i].s # NULL => toks[i].s \in live
        /\ \A i, j \in D : toks[i].s # NULL /\ toks[i].s = toks[j].s => i = j
    BY <2>1, <2>2 DEF LP!KeptInv, LP!Kept, LP!NULL, NULL
  <2>5. ASSUME LP!TextFile(file), NEW s \in live PROVE \E i \in D : s = toks[i].s
    <3>1. LP!Own(toks, live, {}, LP!Frontier)
      BY <2>1, <2>5 DEF TextOwned, LP!OwnInv, LP!Reading, LP!TextModes
    <3> QED
      BY <2>2, <2>5, <3>1 DEF LP!Own
  <2> QED
    BY <1>1, <2>2, <2>3, <2>4, <2>5 DEF StringsInv
<1> QED
  BY <1>1, <1>2, <1>3, <1>4, <1>5, <1>6 DEF CompilerInv, FreeInv, NothingUndefined

LEMMA FreeStringStep ==
  ASSUME CompilerInv, FreeString
  PROVE  CompilerInv'
<1>1. PICK i : i = Head(walk)
  OBVIOUS
<1>2. /\ phase = "strings" /\ walk # <<>> /\ walk' = Tail(walk) /\ live' = live \ {toks[i].s}
      /\ toks' = toks /\ file' = file /\ off' = off /\ pc' = pc /\ org' = org
      /\ UNCHANGED parser /\ freed' = freed /\ out' = out
      /\ phase' = IF toks[i].s \in live \union {NULL} THEN "strings" ELSE "undefined"
  BY <1>1 DEF FreeString, Enter
<1>3. PICK D, w : D = DOMAIN toks /\ w = walk
  OBVIOUS
<1>4. /\ w \in Seq(D) /\ w # <<>>
      /\ \A j, k \in DOMAIN w : w[j] = w[k] => j = k
      /\ \A j \in DOMAIN w : toks[w[j]].s \in live \union {NULL}
      /\ \A j, k \in D : toks[j].s # NULL /\ toks[j].s = toks[k].s => j = k
      /\ LP!TextFile(file) => \A s \in live : \E j \in DOMAIN w : s = toks[w[j]].s
  BY <1>2, <1>3 DEF CompilerInv, StringsInv
<1>5. PICK n : n = Len(w)
  OBVIOUS
<1>6. /\ n \in Nat \ {0} /\ DOMAIN w = 1 .. n /\ i = w[1] /\ i \in D /\ 1 \in DOMAIN w
      /\ Tail(w) \in Seq(D) /\ DOMAIN Tail(w) = 1 .. n - 1
      /\ \A j \in 1 .. n - 1 : j + 1 \in DOMAIN w /\ Tail(w)[j] = w[j + 1]
  BY <1>1, <1>3, <1>4, <1>5, TailIs
<1>7. phase' = "strings"
  BY <1>2, <1>4, <1>6
<1>8. StringsInv'
  <2>1. PICK t : t = Tail(w)
    OBVIOUS
  <2>2. \A j, k \in DOMAIN t : t[j] = t[k] => j = k
    <3>1. \A j, k \in 1 .. n - 1 : t[j] = t[k] => j + 1 = k + 1
      BY <1>4, <1>6, <2>1
    <3> QED
      BY <1>6, <2>1, <3>1
  <2>3. ASSUME NEW j \in DOMAIN t PROVE toks[t[j]].s \in live' \union {NULL}
    <3>1. /\ j \in 1 .. n - 1 /\ j + 1 \in DOMAIN w /\ t[j] = w[j + 1] /\ j + 1 # 1
      BY <1>6, <2>1, <2>3
    <3>2. t[j] # i /\ t[j] \in D
      BY <1>4, <1>6, <3>1
    <3> QED
      BY <1>2, <1>4, <1>6, <3>1, <3>2
  <2>4. ASSUME LP!TextFile(file), NEW s \in live' PROVE \E j \in DOMAIN t : s = toks[t[j]].s
    <3>1. s \in live /\ s # toks[i].s
      BY <1>2, <2>4
    <3>2. PICK k \in 1 .. n : s = toks[w[k]].s
      BY <1>4, <1>6, <2>4, <3>1
    <3>3. k # 1
      BY <1>6, <3>1, <3>2
    <3>4. k - 1 \in 1 .. n - 1 /\ (k - 1) + 1 = k
      BY <1>6, <3>3
    <3>5. t[k - 1] = w[k] /\ k - 1 \in DOMAIN t
      BY <1>6, <2>1, <3>4
    <3> QED
      BY <3>2, <3>5
  <2> QED
    BY <1>2, <1>3, <1>4, <1>6, <1>7, <2>1, <2>2, <2>3, <2>4 DEF StringsInv
<1>9. LexInv'
  BY <1>2, <1>7 DEF CompilerInv, LexInv, Late, Past, LP!LexerInv, LP!TypeOK, LP!LoopInv
<1>10. PrintInv'
  BY <1>2, <1>7, PrintSame DEF CompilerInv
<1>11. FreedInv'
  BY <1>2, FreedSame DEF CompilerInv, After
<1> QED
  BY <1>7, <1>8, <1>9, <1>10, <1>11 DEF CompilerInv, ParseInv, FreeInv, NothingUndefined, Walked

LEMMA FinishStep ==
  ASSUME CompilerInv, Finish
  PROVE  CompilerInv'
<1>1. /\ UNCHANGED lexer /\ UNCHANGED parser /\ freed' = freed /\ out' = out
      /\ live' = live /\ file' = file
      /\ phase = "strings" /\ phase' = "returned" /\ walk = <<>>
  BY DEF Finish, Enter, walker, lexer
<1>2. LexInv'
  BY <1>1, LexSame DEF CompilerInv, Late, Past
<1>3. ParseInv'
  BY <1>1, ParseSame DEF CompilerInv, Walked
<1>4. PrintInv'
  BY <1>1, PrintSame DEF CompilerInv
<1>5. FreedInv'
  BY <1>1, FreedSame DEF CompilerInv, After
<1>6. LP!TextFile(file) => live = {}
  BY <1>1 DEF CompilerInv, StringsInv
<1>7. StringsInv'
  BY <1>1, <1>6 DEF StringsInv
<1> QED
  BY <1>1, <1>2, <1>3, <1>4, <1>5, <1>7 DEF CompilerInv, FreeInv, NothingUndefined

-----------------------------------------------------------------------------
LEMMA CompilerInit == Init => CompilerInv
<1> SUFFICES ASSUME Init PROVE CompilerInv
  OBVIOUS
<1>1. LP!Init
  BY DEF Init, L!Init, LP!Init
<1>2. LP!LexerInv /\ LP!KeptInv /\ LP!OwnInv
  BY <1>1, LP!LexerInit, LP!KeptInit, LP!OwnInit, FilesAssumption
<1> QED
  BY <1>2 DEF Init, CompilerInv, LexInv, TextOwned, ParseInv, PrintInv, PrintedInOrder,
     FreeInv, FreedInv, StringsInv, NothingUndefined, Walked, Past, After

LEMMA StutterStep ==
  ASSUME CompilerInv, UNCHANGED vars
  PROVE  CompilerInv'
<1>1. /\ UNCHANGED lexer /\ UNCHANGED parser /\ phase' = phase /\ walk' = walk /\ freed' = freed
      /\ toks' = toks /\ live' = live /\ file' = file /\ out' = out /\ pos' = pos /\ heap' = heap
  BY DEF vars, walker, lexer, parser
<1>2. LexInv'
  BY <1>1, LexSame DEF CompilerInv
<1>3. ParseInv'
  BY <1>1, ParseSame DEF CompilerInv, ParseInv, Walked
<1>4. FreeInv'
  BY <1>1, WalkingSame, TreeSame DEF CompilerInv, FreeInv
<1>5. PrintInv'
  <2>1. CASE phase = "print"
    <3>1. PICK lo, hi : Intervals(lo, hi) /\ Follows(walk, out, lo, hi)
      BY <2>1 DEF CompilerInv, PrintInv
    <3>2. (\E a, b : Intervals(a, b) /\ Follows(walk, out, a, b))'
      BY <1>1, <3>1, PrintSorted
    <3> QED
      BY <1>1, <2>1, <3>2, TreeSame DEF CompilerInv, PrintInv, PrintedInOrder, Walked
  <2>2. CASE phase # "print"
    BY <1>1, <2>2, PrintSame DEF CompilerInv, Walked
  <2> QED
    BY <2>1, <2>2
<1>6. NothingUndefined'
  BY <1>1, TreeSame DEF CompilerInv, NothingUndefined, P!IsConstWritten
<1>7. StringsInv'
  BY <1>1 DEF CompilerInv, StringsInv
<1>8. FreedInv'
  BY <1>1, FreedSame DEF CompilerInv
<1> QED
  BY <1>2, <1>3, <1>4, <1>5, <1>6, <1>7, <1>8 DEF CompilerInv

LEMMA CompilerStep == CompilerInv /\ [Next]_vars => CompilerInv'
  BY LexStep, BeginParseStep, ParseStep, MoveStep, BeginPrintStep, PrintNodeStep,
     BeginFreeStep, FreeStep, EndFreeStep, TestStep, FreeStringStep, FinishStep, StutterStep
  DEF Next, Moves

THEOREM CompilerInvariant == Spec => []CompilerInv
  BY CompilerInit, CompilerStep, PTL DEF Spec

(* Whatever the file is: if lex() leaves a token, main() and its walks     *)
(* read no node and no text that has been freed, and free nothing twice    *)
(* (parse.c:563, main.c:212); they follow no pointer and no type that was  *)
(* never written unless the tree that was accepted has one, and print a    *)
(* word that was never written only as the isConst of "x = e;".            *)
THEOREM CompilerDefined == Spec => []NothingUndefined
<1>1. CompilerInv => NothingUndefined
  BY DEF CompilerInv
<1> QED
  BY <1>1, CompilerInvariant, PTL

(* Main looks for a T_ERR at the last token only (main.c:163); whatever    *)
(* the file is, the parser goes past none of the others, and what is       *)
(* printed stands before the place it has come to.  A T_ERR behind that    *)
(* place does not stop the printing.                                       *)
THEOREM PrintedFromCleanPrefix == Spec => []CleanPrefix
<1>1. CompilerInv => CleanPrefix
  BY DEF CompilerInv, ParseInv, Parsed, PP!NoErrors, PrintInv, CleanPrefix, Walked
<1> QED
  BY <1>1, CompilerInvariant, PTL

(* Whatever the file is, and however the nodes are nested and copied that  *)
(* its texts are in, print_entire_expression (parse.c:465) prints them in  *)
(* the order in which they stand in the file, and none twice.              *)
THEOREM TextsPrintedInOrder == Spec => []PrintedInOrder
<1>1. CompilerInv => PrintedInOrder
  BY DEF CompilerInv, PrintInv
<1> QED
  BY <1>1, CompilerInvariant, PTL

-----------------------------------------------------------------------------
(* What free_parse_tree has left behind when it returns.                   *)

(* n is a part of m. *)
PartOf(n, m) == n \in {heap[m].kids[k] : k \in DOMAIN heap[m].kids}

LeftBy(f, n) ==
  \E m \in {m \in DOMAIN heap : n \in {heap[m].kids[k] : k \in DOMAIN heap[m].kids}} :
    heap[m].type \in {"LVL_STMTS", "IFS", "LOOP_FOR"} \/ f[m]

LEMMA PartIs ==
  ASSUME Parsed, stack = <<>>, NEW n \in DOMAIN heap, NEW m \in DOMAIN heap
  PROVE  /\ PartOf(n, m) <=> \E k \in 1 .. 4 : PP!Points(heap[m], k) /\ heap[m].kids[k] = n
         /\ heap[m].type \notin Blocking => (ChildOf(n, m) <=> PartOf(n, m))
<1>1. n \in Nat /\ n > 0
  BY NodeIs
<1>2. \A k \in DOMAIN heap[m].kids : k \in 1 .. 4
  BY NodeIs
<1>3. PartOf(n, m) <=> \E k \in 1 .. 4 : k \in DOMAIN heap[m].kids /\ heap[m].kids[k] = n
  BY <1>2 DEF PartOf
<1> QED
  BY <1>1, <1>3 DEF PP!Points, ChildOf

(* A node is left behind if the node it is a part of leaves its parts      *)
(* behind, or is itself left behind.                                       *)
LEMMA FreedAre ==
  ASSUME Parsed, stack = <<>>, Walking(<<>>, freed), NEW n \in DOMAIN heap
  PROVE  n \notin freed <=>
           \E m \in DOMAIN heap : PartOf(n, m) /\ (heap[m].type \in Blocking \/ m \notin freed)
<1>1. Pending(<<>>) = {} /\ Entered(<<>>, freed) = freed
  BY DEF Pending, Entered
<1>2. freed \subseteq DOMAIN heap /\ 1 \in freed
  BY <1>1 DEF Walking, Closed
<1>3. \A x \in freed : x # 1 => \E m \in freed : ChildOf(x, m)
  BY <1>1, <1>2 DEF Walking, Reached
<1>4. \A m \in freed : \A x \in DOMAIN heap : ChildOf(x, m) => x \in freed
  BY <1>1 DEF Walking, Closed
<1>5. PP!OneParent /\ PP!RootOnTop
  BY PP!FinishedTree, TokenArrays DEF Parsed
<1>6. ASSUME n \notin freed
      PROVE  \E m \in DOMAIN heap : PartOf(n, m) /\ (heap[m].type \in Blocking \/ m \notin freed)
  <2>1. n # 1
    BY <1>2, <1>6
  <2>2. PICK m \in DOMAIN heap : \E k \in 1 .. 4 : PP!Points(heap[m], k) /\ heap[m].kids[k] = n
    BY <2>1, PP!HasParent, TokenArrays DEF Parsed
  <2>3. PartOf(n, m)
    BY <2>2, PartIs
  <2>4. heap[m].type \in Blocking \/ m \notin freed
    BY <1>4, <1>6, <2>3, PartIs
  <2> QED
    BY <2>3, <2>4
<1>7. ASSUME n \in freed, NEW m \in DOMAIN heap, PartOf(n, m)
      PROVE  heap[m].type \notin Blocking /\ m \in freed
  <2>1. PICK k \in 1 .. 4 : PP!Points(heap[m], k) /\ heap[m].kids[k] = n
    BY <1>7, PartIs
  <2>2. n # 1
    BY <1>5, <2>1 DEF PP!RootOnTop, PP!Points
  <2>3. PICK p \in freed : ChildOf(n, p)
    BY <1>3, <1>7, <2>2
  <2>4. p \in DOMAIN heap /\ heap[p].type \notin Blocking
    BY <2>3 DEF ChildOf
  <2>5. PICK j \in 1 .. 4 : PP!Points(heap[p], j) /\ heap[p].kids[j] = n
    BY <2>3, <2>4, PartIs
  <2>6. m = p
    BY <1>5, <2>1, <2>4, <2>5 DEF PP!OneParent, PP!Points
  <2> QED
    BY <2>3, <2>4, <2>6
<1> QED
  BY <1>6, <1>7

(* No other set of nodes has this property: a part has a higher rank than  *)
(* the node it is a part of.                                               *)
LEMMA LeftIs ==
  ASSUME Parsed, stack = <<>>, Walking(<<>>, freed),
         NEW f, \A n \in DOMAIN heap : f[n] <=> LeftBy(f, n)
  PROVE  \A n \in DOMAIN heap : f[n] <=> n \notin freed
<1>1. \A n \in DOMAIN heap : f[n] <=>
        \E m \in DOMAIN heap : PartOf(n, m) /\ (heap[m].type \in Blocking \/ f[m])
  BY Zenon DEF LeftBy, PartOf, Blocking
<1>2. PICK rk, top : PP!Ranks(rk, top)
  BY DEF Parsed, PP!RanksInv
<1>3. PICK T : T = {n \in DOMAIN heap : ~(f[n] <=> n \notin freed)}
  OBVIOUS
<1>4. SUFFICES ASSUME T # {} PROVE FALSE
  BY <1>3, Zenon
<1>5. T \subseteq DOMAIN heap
  BY <1>3
<1>6. PICK n \in T : \A m \in T : rk[n] <= rk[m]
  BY <1>2, <1>4, <1>5, PP!Highest, TokenArrays
<1>7. n \in DOMAIN heap
  BY <1>5
<1>8. ASSUME NEW m \in DOMAIN heap, PartOf(n, m)
      PROVE  f[m] <=> m \notin freed
  <2>1. PICK k \in 1 .. 4 : PP!Points(heap[m], k) /\ heap[m].kids[k] = n
    BY <1>7, <1>8, PartIs
  <2>2. rk[m] < rk[n] /\ rk[m] \in Nat /\ rk[n] \in Nat
    BY <1>2, <1>7, <2>1 DEF PP!Ranks
  <2>3. m \notin T
    BY <1>6, <2>2
  <2> QED
    BY <1>3, <2>3, Zenon
<1>9. f[n] <=> n \notin freed
  BY <1>1, <1>7, <1>8, FreedAre, Zenon
<1> QED
  BY <1>3, <1>9, Zenon

LEMMA LeftExists ==
  ASSUME Parsed, stack = <<>>, Walking(<<>>, freed)
  PROVE  \E g : g = [n \in DOMAIN heap |-> LeftBy(g, n)]
<1>1. PICK g : g = [n \in DOMAIN heap |-> n \notin freed]
  OBVIOUS
<1>2. \A n \in DOMAIN heap : g[n] = (n \notin freed)
  BY <1>1, Zenon
<1>3. ASSUME NEW n \in DOMAIN heap PROVE (n \notin freed) = LeftBy(g, n)
  <2>1. n \notin freed <=>
          \E m \in DOMAIN heap : PartOf(n, m) /\ (heap[m].type \in Blocking \/ m \notin freed)
    BY FreedAre
  <2>2. LeftBy(g, n) <=>
          \E m \in DOMAIN heap : PartOf(n, m) /\ (heap[m].type \in Blocking \/ g[m])
    BY Zenon DEF LeftBy, PartOf, Blocking
  <2>3. \A m \in DOMAIN heap : g[m] <=> m \notin freed
    BY <1>2, Zenon
  <2>4. LeftBy(g, n) \in BOOLEAN
    BY Zenon DEF LeftBy
  <2>5. n \notin freed <=> LeftBy(g, n)
    BY <2>1, <2>2, <2>3, Zenon
  <2> QED
    BY <2>4, <2>5, Zenon
<1>4. g = [n \in DOMAIN heap |-> LeftBy(g, n)]
  BY <1>1, <1>3, Zenon
<1> QED
  BY <1>4

LEMMA NothingLostIs ==
  \E f : /\ f = (CHOOSE g : g = [n \in DOMAIN heap |-> LeftBy(g, n)])
         /\ NothingLost <=> (phase = "returned" =>
              /\ L!TextFile(file) => live = {}
              /\ freed = IF ret THEN {n \in DOMAIN heap : ~f[n]} ELSE {})
BY Zenon DEF NothingLost, LeftBy

LEMMA CompilerLoses == CompilerInv => NothingLost
<1> SUFFICES ASSUME CompilerInv PROVE NothingLost
  OBVIOUS
<1>1. PICK f :
        /\ f = (CHOOSE g : g = [n \in DOMAIN heap |-> LeftBy(g, n)])
        /\ NothingLost <=> (phase = "returned" =>
             /\ L!TextFile(file) => live = {}
             /\ freed = IF ret THEN {n \in DOMAIN heap : ~f[n]} ELSE {})
  BY NothingLostIs, Zenon
<1>2. phase = "returned" /\ L!TextFile(file) => live = {}
  BY DEF CompilerInv, StringsInv, L!TextFile, LP!TextFile
<1>3. phase = "returned" /\ ~ret => freed = {}
  BY DEF CompilerInv, FreedInv, After
<1>4. ASSUME phase = "returned", ret PROVE freed = {n \in DOMAIN heap : ~f[n]}
  <2>1. Parsed /\ stack = <<>> /\ Walking(<<>>, freed)
    BY <1>4 DEF CompilerInv, FreedInv, After
  <2>2. f = [n \in DOMAIN heap |-> LeftBy(f, n)]
    BY <1>1, <2>1, LeftExists, Zenon
  <2>3. \A n \in DOMAIN heap : f[n] = LeftBy(f, n)
    BY <2>2, Zenon
  <2>4. \A n \in DOMAIN heap : f[n] <=> LeftBy(f, n)
    BY <2>3, Zenon
  <2>5. \A n \in DOMAIN heap : f[n] <=> n \notin freed
    BY <2>1, <2>4, LeftIs, Zenon
  <2>6. freed \subseteq DOMAIN heap
    BY <2>1 DEF Walking
  <2> QED
    BY <2>5, <2>6, Zenon
<1> QED
  BY <1>1, <1>2, <1>3, <1>4, Zenon

(* Whatever the file is: when main() returns, the strings of a text file   *)
(* have all been freed (main.c:212); and of a program it has accepted,     *)
(* every node that has no block, "if" or "for" above it: free_parse_tree   *)
(* (parse.c:563) leaves behind the parts of these, and nothing else.       *)
THEOREM NothingIsLost == Spec => []NothingLost
  BY CompilerLoses, CompilerInvariant, PTL
=============================================================================
