------------------------------- MODULE Parser -------------------------------
(***************************************************************************)
(* build_block() of src/kapuc/parse.c and the functions under it: a        *)
(* recursive descent over an array of tokens that builds a tree of         *)
(* malloc'ed nodes.  A step is what one function does between two calls:   *)
(* it is entered, or the function it called has just returned, and it runs *)
(* until it calls again or returns.  The helpers that call nothing back    *)
(* (advance, get_cur_tok, get_next_tok, the two tables, the logging) are   *)
(* part of the step.                                                       *)
(*                                                                         *)
(* A token is its type; the text an IDENT or a NUM carries is named by the *)
(* position of the token.  The heap is the sequence of the nodes in the    *)
(* order of their mallocs, and a pointer is an index into it.  What malloc *)
(* returns has no defined contents: such a node has the type GARBAGE, and  *)
(* a pointer field that was never written is Wild.                         *)
(***************************************************************************)
EXTENDS Tokens, Sequences

CONSTANT Inputs      \* the token arrays build_block() may be given

ASSUME InputsAssumption == Inputs \subseteq Seq(TokType)

VARIABLES
  tokens,  \* parser.tokens; never written
  pos,     \* parser.pos
  stack,   \* the calls that have not returned, the innermost last
  heap,    \* the nodes allocated so far
  ret      \* what the last function to return has returned

vars == <<tokens, pos, stack, heap, ret>>

-----------------------------------------------------------------------------
(* The nodes. *)

TreeType ==
  {"INT", "VARIABLE", "BINARY_OP", "PTR_REF", "PTR_DEREF", "LVL_STMTS",
   "EMPTY_LVL_STMTS", "STMT_ASSIGNMENT", "STMT_RETURN", "IFS", "LOOP_FOR",
   "TYPE_TRAIL"}

NullTree == 0
Wild     == -1

(* A node: the token whose text it holds (0: none), its binop_tree.type,   *)
(* trail_type or isConst (Unset: it has none, or it was never written) and *)
(* its pointer fields.                                                     *)
Unset == -1
Node(type, held, code, kids) ==
  [type |-> type, held |-> held, code |-> code, kids |-> kids]
Fresh == Node("GARBAGE", 0, Unset, <<>>)

(* The addresses the next two mallocs return, and *t = n. *)
New1 == Len(heap) + 1
New2 == Len(heap) + 2
Write(t, n) == [heap EXCEPT ![t] = n]

-----------------------------------------------------------------------------
(* The tokens: get_cur_tok, get_next_tok. *)

Cur  == IF pos < Len(tokens) THEN tokens[pos + 1] ELSE "END"
Peek == IF pos + 1 < Len(tokens) THEN tokens[pos + 2] ELSE "END"

(* Fault: "/" is given the precedence of "-". *)
Prec_SlashLow(t) ==
  CASE t \in {"PLUS", "MINUS", "SLASH"} -> 1
    [] t = "STAR" -> 2
    [] t \in {"PLUS_EQ", "MINUS_EQ"} -> 3
    [] t \in {"MULT_EQ", "DIV_EQ"} -> 4
    [] t \in {"COMP_EQ", "COMP_NEQ", "LEFT_ANGLE", "RIGHT_ANGLE"} -> 5
    [] OTHER -> -1

(* calc_precedence; with no token there is no operator either. *)
Prec(t) ==
  CASE t \in {"PLUS", "MINUS"} -> 1
    [] t \in {"STAR", "SLASH"} -> 2
    [] t \in {"PLUS_EQ", "MINUS_EQ"} -> 3
    [] t \in {"MULT_EQ", "DIV_EQ"} -> 4
    [] t \in {"COMP_EQ", "COMP_NEQ", "LEFT_ANGLE", "RIGHT_ANGLE"} -> 5
    [] OTHER -> -1

(* generate_type_from_op, for the operators it is called with. *)
OpCode(t) ==
  CASE t = "PLUS" -> 0      [] t = "MINUS" -> 1    [] t = "STAR" -> 2
    [] t = "SLASH" -> 3     [] t = "COMP_EQ" -> 4  [] t = "COMP_NEQ" -> 5
    [] t = "LEFT_ANGLE" -> 6 [] t = "RIGHT_ANGLE" -> 7
    [] t = "PLUS_EQ" -> 8   [] t = "MINUS_EQ" -> 9
    [] t = "MULT_EQ" -> 10  [] t = "DIV_EQ" -> 11

-----------------------------------------------------------------------------
(* The calls.  A frame is where its function goes on, the node it fills,   *)
(* the nodes only its local variables point to, and its op and number: the *)
(* precedence of an operator chain, or the parts of a "for" built so far.  *)

Frame(at, tree) ==
  [at |-> at, tree |-> tree, own |-> <<>>, op |-> "END", num |-> 0]

(* build_nth_entire_expression: the first thing it does is to read op.     *)
NthFrame(tree, precedence) ==
  [Frame("nth", tree) EXCEPT !.op = Cur, !.num = precedence]

Top   == stack[Len(stack)]
Below == SubSeq(stack, 1, Len(stack) - 1)
At(label) == stack # <<>> /\ Top.at = label

(* The innermost function goes on as f; it calls g, and will go on as f;   *)
(* it returns b.  Every step is one of the three.                          *)
GoOn(f)    == stack' = Append(Below, f) /\ UNCHANGED <<tokens, ret>>
Call(f, g) == stack' = Append(Append(Below, f), g) /\ UNCHANGED <<tokens, ret>>
Return(b)  == stack' = Below /\ ret' = b /\ UNCHANGED tokens

Resume(label) == [Top EXCEPT !.at = label]

Advance(n) == pos' = pos + n

Init ==
  /\ tokens \in Inputs
  /\ pos = 0
  /\ stack = <<Frame("block", 1)>>
  /\ heap = <<Fresh>>
  /\ ret = FALSE

-----------------------------------------------------------------------------
(* build_small_atom *)

SmallAtomLeaf ==
  /\ At("small_atom") /\ Cur \in {"NUM", "IDENT"}
  /\ LET type == IF Cur = "NUM" THEN "INT" ELSE "VARIABLE"
     IN heap' = Write(Top.tree, Node(type, pos + 1, Unset, <<>>))
  /\ Advance(1)
  /\ Return(TRUE)

(* Fault: the parenthesis is not consumed before the call. *)
SmallAtomParen_NoAdvance ==
  /\ At("small_atom") /\ Cur = "LPAREN"
  /\ Call(Resume("paren"), Frame("expr", Top.tree))
  /\ UNCHANGED <<pos, heap>>

SmallAtomParen ==
  /\ At("small_atom") /\ Cur = "LPAREN"
  /\ Advance(1)
  /\ Call(Resume("paren"), Frame("expr", Top.tree))
  /\ UNCHANGED heap

ParenEnd ==
  /\ At("paren")
  /\ Advance(IF ret /\ Cur = "RPAREN" THEN 1 ELSE 0)
  /\ Return(ret /\ Cur = "RPAREN")
  /\ UNCHANGED heap

(* "&" and "*" take an operand only before one of three types of token. *)
PrefixBegins ==
  Cur \in {"AMPERSAND", "STAR"} /\ Peek \in {"NUM", "IDENT", "AMPERSAND"}

SmallAtomPrefix ==
  /\ At("small_atom") /\ PrefixBegins
  /\ LET type == IF Cur = "STAR" THEN "PTR_DEREF" ELSE "PTR_REF"
     IN heap' = Append(Write(Top.tree, Node(type, 0, Unset, <<New1>>)), Fresh)
  /\ Advance(1)
  /\ Call(Resume("prefix"), Frame("atom", New1))

PrefixEnd ==
  /\ At("prefix")
  /\ Return(TRUE)
  /\ UNCHANGED <<pos, heap>>

SmallAtomFail ==
  /\ At("small_atom")
  /\ Cur \notin {"NUM", "IDENT", "LPAREN"} /\ ~PrefixBegins
  /\ Return(FALSE)
  /\ UNCHANGED <<pos, heap>>

-----------------------------------------------------------------------------
(* build_atom: it is TRUE even when build_small_atom was not. *)

Atom ==
  /\ At("atom")
  /\ Call(Resume("suffix"), Frame("small_atom", Top.tree))
  /\ UNCHANGED <<pos, heap>>

(* Fault: build_atom passes on what build_small_atom returned. *)
AtomEnd_PassOn ==
  /\ At("suffix") /\ ~(ret /\ Cur \in {"DOT", "DOUBLE_COLON"})
  /\ Return(ret)
  /\ UNCHANGED <<pos, heap>>

AtomEnd ==
  /\ At("suffix") /\ ~(ret /\ Cur \in {"DOT", "DOUBLE_COLON"})
  /\ Return(TRUE)
  /\ UNCHANGED <<pos, heap>>

(* Fault: the memmove into new_tree.trail.current is forgotten. *)
AtomTrail_NoCopy ==
  /\ At("suffix") /\ ret /\ Cur \in {"DOT", "DOUBLE_COLON"}
  /\ Advance(1)
  /\ heap' = heap \o <<Fresh, Fresh>>
  /\ Call([Resume("trail") EXCEPT !.own = <<New1, New2>>, !.op = Cur],
          Frame("atom", New2))

(* new_tree is a local: until the call returns, *tree and its copy are two *)
(* nodes with the same contents.                                           *)
AtomTrail ==
  /\ At("suffix") /\ ret /\ Cur \in {"DOT", "DOUBLE_COLON"}
  /\ Advance(1)
  /\ heap' = heap \o <<heap[Top.tree], Fresh>>
  /\ Call([Resume("trail") EXCEPT !.own = <<New1, New2>>, !.op = Cur],
          Frame("atom", New2))

TrailEnd ==
  /\ At("trail")
  /\ LET kind == IF Top.op = "DOT" THEN 0 ELSE 1
     IN heap' = Write(Top.tree, Node("TYPE_TRAIL", 0, kind, Top.own))
  /\ Return(TRUE)
  /\ UNCHANGED pos

-----------------------------------------------------------------------------
(* build_nth_entire_expression and build_entire_expression *)

(* The loop goes on by the precedence of the operator it consumed last,    *)
(* and stops at a token that is no operator.                               *)
Continues == Prec(Top.op) >= Top.num /\ Prec(Cur) # -1

Operator ==
  /\ At("nth") /\ Continues
  /\ Advance(1)
  /\ heap' = Append(heap, Fresh)
  /\ Call([Resume("nth_right") EXCEPT !.own = <<New1>>, !.op = Cur],
          Frame("atom", New1))

(* The operand is the left one of an operator that binds tighter. *)
OperandDeeper ==
  /\ At("nth_right") /\ Prec(Cur) > Prec(Top.op)
  /\ Call(Resume("nth_deep"), NthFrame(Top.own[1], Prec(Top.op) + 1))
  /\ UNCHANGED <<pos, heap>>

(* Fault: the left operand is *tree itself instead of a copy of it. *)
Combine_NoCopy ==
  /\ At("nth_deep") \/ (At("nth_right") /\ Prec(Cur) <= Prec(Top.op))
  /\ heap' = Write(Top.tree,
       Node("BINARY_OP", 0, OpCode(Top.op), <<Top.tree, Top.own[1]>>))
  /\ GoOn([Resume("nth") EXCEPT !.own = <<>>])
  /\ UNCHANGED pos

(* Fault: the operands are swapped. *)
Combine_Swapped ==
  /\ At("nth_deep") \/ (At("nth_right") /\ Prec(Cur) <= Prec(Top.op))
  /\ LET new_tree == Node("BINARY_OP", 0, OpCode(Top.op), <<Top.own[1], New1>>)
     IN heap' = Append(Write(Top.tree, new_tree), heap[Top.tree])
  /\ GoOn([Resume("nth") EXCEPT !.own = <<>>])
  /\ UNCHANGED pos

Combine ==
  /\ At("nth_deep") \/ (At("nth_right") /\ Prec(Cur) <= Prec(Top.op))
  /\ LET new_tree == Node("BINARY_OP", 0, OpCode(Top.op), <<New1, Top.own[1]>>)
     IN heap' = Append(Write(Top.tree, new_tree), heap[Top.tree])
  /\ GoOn([Resume("nth") EXCEPT !.own = <<>>])
  /\ UNCHANGED pos

OperatorsEnd ==
  /\ At("nth") /\ ~Continues
  /\ Return(TRUE)
  /\ UNCHANGED <<pos, heap>>

Expression ==
  /\ At("expr")
  /\ Call(Resume("expr_ops"), Frame("atom", Top.tree))
  /\ UNCHANGED <<pos, heap>>

ExpressionOperators ==
  /\ At("expr_ops")
  /\ Call(Resume("expr_end"), NthFrame(Top.tree, 0))
  /\ UNCHANGED <<pos, heap>>

ExpressionEnd ==
  /\ At("expr_end")
  /\ Return(ret)
  /\ UNCHANGED <<pos, heap>>

-----------------------------------------------------------------------------
(* build_block_statement and build_assignment_expression *)

(* "return g(...);", and "if (g(...)) return true; return false;" *)
PassOn ==
  /\ At("tail")
  /\ Return(ret)
  /\ UNCHANGED <<pos, heap>>

(* The node becomes one whose first part, just allocated, is built next.   *)
Begin(type, code, kids, label, part) ==
  /\ Advance(1)
  /\ heap' = Append(Write(Top.tree, Node(type, 0, code, kids)), Fresh)
  /\ Call(Resume(label), Frame(part, New1))

StmtLet ==
  /\ At("stmt") /\ Cur \in {"LET", "CONST"}
  /\ LET isConst == IF Cur = "CONST" THEN 1 ELSE 0
     IN heap' = Write(Top.tree,
          Node("STMT_ASSIGNMENT", 0, isConst, <<Wild, Wild>>))
  /\ Advance(1)
  /\ Call(Resume("tail"), Frame("assign", Top.tree))

Assignment ==
  /\ At("assign")
  /\ heap' = Append([heap EXCEPT ![Top.tree].kids[1] = New1], Fresh)
  /\ Call(Resume("let_name"), Frame("atom", New1))
  /\ UNCHANGED pos

(* "let type name;": the semicolon is left where it is, and the value is   *)
(* not written.                                                            *)
LetDeclares ==
  /\ At("let_name") /\ Cur = "IDENT" /\ Peek = "SEMICOLON"
  /\ heap' = [heap EXCEPT ![Top.tree].held = pos + 1]
  /\ Advance(1)
  /\ Return(TRUE)

(* Fault: only the name is consumed, not the "=". *)
LetValue_OneToken ==
  /\ At("let_name") /\ Cur = "IDENT" /\ Peek = "EQ"
  /\ heap' = Append([heap EXCEPT ![Top.tree].held = pos + 1,
                                 ![Top.tree].kids[2] = New1], Fresh)
  /\ Advance(1)
  /\ Call(Resume("stmt_end"), Frame("expr", New1))

LetValue ==
  /\ At("let_name") /\ Cur = "IDENT" /\ Peek = "EQ"
  /\ heap' = Append([heap EXCEPT ![Top.tree].held = pos + 1,
                                 ![Top.tree].kids[2] = New1], Fresh)
  /\ Advance(2)
  /\ Call(Resume("stmt_end"), Frame("expr", New1))

LetFail ==
  /\ At("let_name") /\ ~(Cur = "IDENT" /\ Peek \in {"SEMICOLON", "EQ"})
  /\ IF Cur = "IDENT"
     THEN heap' = [heap EXCEPT ![Top.tree].held = pos + 1] /\ Advance(1)
     ELSE UNCHANGED <<heap, pos>>
  /\ Return(FALSE)

StmtReturn ==
  /\ At("stmt") /\ Cur = "RETURN"
  /\ Begin("STMT_RETURN", Unset, <<New1>>, "stmt_end", "expr")

StmtIf ==
  /\ At("stmt") /\ Cur = "IF"
  /\ Begin("IFS", Unset, <<New1, Wild, Wild>>, "if_cond", "expr")

(* Fault: the block is stored in the field "next". *)
IfValue_NextField ==
  /\ At("if_cond")
  /\ heap' = Append([heap EXCEPT ![Top.tree].kids[3] = New1], Fresh)
  /\ Call(Resume("tail"), Frame("block", New1))
  /\ UNCHANGED pos

IfValue ==
  /\ At("if_cond")
  /\ heap' = Append([heap EXCEPT ![Top.tree].kids[2] = New1], Fresh)
  /\ Call(Resume("tail"), Frame("block", New1))
  /\ UNCHANGED pos

StmtFor ==
  /\ At("stmt") /\ Cur = "FOR"
  /\ Begin("LOOP_FOR", Unset, <<New1, Wild, Wild, Wild>>, "for", "block")

(* Fault: the part is stored in the field of the part before it. *)
ForPart_SameField ==
  /\ At("for") /\ ret /\ Top.num < 3
  /\ heap' = Append([heap EXCEPT ![Top.tree].kids[Top.num + 1] = New1], Fresh)
  /\ Call([Top EXCEPT !.num = @ + 1], Frame("block", New1))
  /\ UNCHANGED pos

(* start, while_cond, end and inside; num is the parts before this one. *)
ForPart ==
  /\ At("for") /\ ret /\ Top.num < 3
  /\ heap' = Append([heap EXCEPT ![Top.tree].kids[Top.num + 2] = New1], Fresh)
  /\ Call([Top EXCEPT !.num = @ + 1], Frame("block", New1))
  /\ UNCHANGED pos

ForEnd ==
  /\ At("for") /\ (ret => Top.num = 3)
  /\ Return(ret)
  /\ UNCHANGED <<pos, heap>>

StmtFail ==
  /\ At("stmt") /\ Cur \in {"SEMICOLON", "END"}
  /\ Advance(IF Cur = "SEMICOLON" THEN 1 ELSE 0)
  /\ Return(FALSE)
  /\ UNCHANGED heap

Assigns == Cur = "IDENT" /\ Peek = "EQ"

StmtAssign ==
  /\ At("stmt") /\ Assigns
  /\ heap' = Append(Write(Top.tree,
       Node("STMT_ASSIGNMENT", pos + 1, Unset, <<NullTree, New1>>)), Fresh)
  /\ Advance(2)
  /\ Call(Resume("stmt_end"), Frame("expr", New1))

StmtExpression ==
  /\ At("stmt") /\ ~Assigns
  /\ Cur \notin {"LET", "CONST", "RETURN", "IF", "FOR", "SEMICOLON", "END"}
  /\ Call(Resume("stmt_end"), Frame("expr", Top.tree))
  /\ UNCHANGED <<pos, heap>>

(* Fault: the semicolon is consumed before it is tested. *)
StmtEnd_AdvanceFirst ==
  /\ At("stmt_end")
  /\ Advance(IF ret THEN 1 ELSE 0)
  /\ Return(ret /\ Cur = "SEMICOLON")
  /\ UNCHANGED heap

(* Fault: what follows is taken for the semicolon. *)
StmtEnd_Any ==
  /\ At("stmt_end")
  /\ Advance(IF ret /\ Cur # "END" THEN 1 ELSE 0)
  /\ Return(ret)
  /\ UNCHANGED heap

StmtEnd ==
  /\ At("stmt_end")
  /\ Advance(IF ret /\ Cur = "SEMICOLON" THEN 1 ELSE 0)
  /\ Return(ret /\ Cur = "SEMICOLON")
  /\ UNCHANGED heap

-----------------------------------------------------------------------------
(* build_block: the closing brace is looked at, never consumed. *)

AtClose == Cur \in {"RBRACE", "END"}

BlockFail ==
  /\ At("block") /\ Cur = "END"
  /\ Return(FALSE)
  /\ UNCHANGED <<pos, heap>>

BlockStatement ==
  /\ At("block") /\ Cur \notin {"LBRACE", "END"}
  /\ Call(Resume("tail"), Frame("stmt", Top.tree))
  /\ UNCHANGED <<pos, heap>>

BlockEmpty ==
  /\ At("block") /\ Cur = "LBRACE" /\ Peek = "RBRACE"
  /\ heap' = Write(Top.tree, Node("EMPTY_LVL_STMTS", 0, Unset, <<>>))
  /\ Advance(1)
  /\ Return(TRUE)

BlockOpen ==
  /\ At("block") /\ Cur = "LBRACE" /\ Peek # "RBRACE"
  /\ heap' = Write(Top.tree, Node("LVL_STMTS", 0, Unset, <<Wild, Wild>>))
  /\ Advance(1)
  /\ GoOn(Resume("stmts"))

BlockNext ==
  /\ At("stmts") /\ ~AtClose
  /\ heap' = Append(Write(Top.tree,
       Node("LVL_STMTS", 0, Unset, <<New1, Wild>>)), Fresh)
  /\ Call(Resume("stmts_next"), Frame("stmt", New1))
  /\ UNCHANGED pos

(* Fault: only a brace ends the loop, not the end of the tokens. *)
BlockClose_BraceOnly ==
  /\ At("stmts") /\ Cur = "RBRACE"
  /\ Return(TRUE)
  /\ UNCHANGED <<pos, heap>>

BlockClose ==
  /\ At("stmts") /\ AtClose
  /\ Return(TRUE)
  /\ UNCHANGED <<pos, heap>>

(* The statement stands; another cell is linked if another one follows. *)
BlockLink ==
  /\ At("stmts_next") /\ ret /\ ~AtClose
  /\ heap' = Append([heap EXCEPT ![Top.tree].kids[2] = New1], Fresh)
  /\ GoOn([Resume("stmts") EXCEPT !.tree = New1])
  /\ UNCHANGED pos

BlockLast ==
  /\ At("stmts_next") /\ ret /\ AtClose
  /\ heap' = [heap EXCEPT ![Top.tree].kids[2] = NullTree]
  /\ GoOn(Resume("stmts"))
  /\ UNCHANGED pos

BlockGiveUp ==
  /\ At("stmts_next") /\ ~ret
  /\ Return(FALSE)
  /\ UNCHANGED <<pos, heap>>

-----------------------------------------------------------------------------
SmallAtomStep == SmallAtomLeaf \/ SmallAtomParen \/ ParenEnd
                   \/ SmallAtomPrefix \/ PrefixEnd \/ SmallAtomFail
AtomStep == Atom \/ AtomEnd \/ AtomTrail \/ TrailEnd
ExpressionStep == Operator \/ OperandDeeper \/ Combine \/ OperatorsEnd
                    \/ Expression \/ ExpressionOperators \/ ExpressionEnd
StatementStep == PassOn \/ StmtLet \/ Assignment \/ LetDeclares \/ LetValue
                   \/ LetFail \/ StmtReturn \/ StmtIf \/ IfValue \/ StmtFor
                   \/ ForPart \/ ForEnd \/ StmtFail \/ StmtAssign
                   \/ StmtExpression \/ StmtEnd
BlockStep == BlockFail \/ BlockStatement \/ BlockEmpty \/ BlockOpen
               \/ BlockNext \/ BlockClose \/ BlockLink \/ BlockLast
               \/ BlockGiveUp

Next == SmallAtomStep \/ AtomStep \/ ExpressionStep \/ StatementStep
          \/ BlockStep

(* The parser is one thread that never waits: it takes a step if it can.   *)
Spec == Init /\ [][Next]_vars /\ WF_vars(Next)

-----------------------------------------------------------------------------
Labels ==
  {"small_atom", "paren", "prefix", "atom", "suffix", "trail", "nth",
   "nth_right", "nth_deep", "expr", "expr_ops", "expr_end", "stmt", "tail",
   "assign", "let_name", "stmt_end", "if_cond", "for", "block", "stmts",
   "stmts_next"}

(* The frames and the nodes when n nodes have been allocated. *)
Frames(n) ==
  [at : Labels, tree : 1 .. n, own : Seq(1 .. n),
   op : TokType \union {"END"}, num : 0 .. 6]
Nodes(n) ==
  [type : TreeType \union {"GARBAGE"}, held : 0 .. Len(tokens),
   code : -1 .. 11, kids : Seq({NullTree, Wild} \union 1 .. n)]

(* The parser never looks beyond its tokens or follows a pointer to a node *)
(* that does not exist.                                                    *)
TypeOK ==
  /\ tokens \in Seq(TokType)
  /\ pos \in 0 .. Len(tokens)
  /\ stack \in Seq(Frames(Len(heap)))
  /\ heap \in Seq(Nodes(Len(heap)))
  /\ ret \in BOOLEAN

Done == stack = <<>>

(* While a suffix is parsed, *tree and its copy have the same contents;    *)
(* *tree is about to be overwritten.                                       *)
Stale == {stack[i].tree : i \in {j \in DOMAIN stack : stack[j].at = "trail"}}
InUse == DOMAIN heap \ Stale

(* The pointers the parser holds: the fields of the nodes in use and the   *)
(* locals of the calls.                                                    *)
Pointers ==
  {p \in {"field"} \X InUse \X (1 .. 4) : p[3] \in DOMAIN heap[p[2]].kids}
  \union
  {p \in {"local"} \X (DOMAIN stack) \X (1 .. 2) : p[3] \in DOMAIN stack[p[2]].own}
Target(p) == IF p[1] = "field" THEN heap[p[2]].kids[p[3]] ELSE stack[p[2]].own[p[3]]

(* Every node but the root has exactly one owner at every moment, in spite *)
(* of the memmoves that duplicate nodes: free_parse_tree, which follows    *)
(* every pointer it meets, can free no node twice, and the parser drops    *)
(* none (parse.c:147, 161, 269).                                           *)
OwnedOnce ==
  LET set == {p \in Pointers : Target(p) > 0}
  IN /\ {Target(p) : p \in set} = 2 .. Len(heap)
     /\ \A p, q \in set : Target(p) = Target(q) => p = q

(* Every identifier and number the parser has gone past is held by exactly *)
(* one node in use: none is lost in an early return, none copied twice.    *)
HeldOnce ==
  LET holders == {n \in InUse : heap[n].held > 0}
  IN /\ {heap[n].held : n \in holders} =
          {i \in 1 .. pos : tokens[i] \in {"IDENT", "NUM"}}
     /\ \A m, n \in holders : heap[m].held = heap[n].held => m = n

(* The functions of an expression never report failure, whatever the       *)
(* tokens are (build_atom returns true on both paths, parse.c:176), so     *)
(* their callers' else branches are dead.                                  *)
ExpressionsSucceed ==
  ~Done /\ Top.at \in {"paren", "prefix", "trail", "nth_right", "nth_deep",
                       "expr_ops", "expr_end", "let_name", "if_cond",
                       "stmt_end"} => ret

(* Nodes come from malloc() with their fields unwritten, and a function    *)
(* writes a field when it gets to it (parse.c:220, 228, 356, 366, 442).    *)
(* When build_block() returns true, a pointer is unwritten in three places *)
(* only: the third of an "if", which nothing ever writes; the value of     *)
(* "let type name;"; both of a block whose brace is the last token.        *)
FieldsWritten ==
  Done /\ ret =>
    \A n \in DOMAIN heap : \A k \in DOMAIN heap[n].kids : heap[n].kids[k] = Wild =>
      \/ heap[n].type = "IFS" /\ k = 3
      \/ /\ heap[n].type = "STMT_ASSIGNMENT" /\ k = 2
         /\ tokens[heap[n].held + 1] = "SEMICOLON"
      \/ /\ heap[n].type = "LVL_STMTS"
         /\ pos = Len(tokens) /\ tokens[pos] = "LBRACE"

(* The recursion is as deep as the tokens consumed make it: five calls     *)
(* before any of them, from build_block to build_small_atom, and at most   *)
(* three more for each (a "(" calls build_entire_expression, build_atom    *)
(* and build_small_atom; an "if" or a "for" calls build_block and          *)
(* build_block_statement).  Every entry of the stack is one call of C.     *)
DepthBounded == Len(stack) <= 3 * pos + 5

(* build_block() returns. *)
Terminates == <>Done
=============================================================================
