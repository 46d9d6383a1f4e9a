------------------------------ MODULE Compiler ------------------------------
(***************************************************************************)
(* main() of src/kapuc/main.c around lex() and build_block(), with the two *)
(* walks over the tree that follow them, print_entire_expression and       *)
(* free_parse_tree of src/kapuc/parse.c.                                   *)
(*                                                                         *)
(* The lexer and the parser are the modules Lexer and Parser: a step of    *)
(* theirs is a step here, in the phase that has called them.  The strings  *)
(* of the tokens are in the lexer's live, the nodes in the parser's heap;  *)
(* freed has the nodes given back.  A walk is its call stack: the visits   *)
(* still to come, and the nodes to free on the way back.                   *)
(*                                                                         *)
(* A step after which the C program may do anything ends it in a phase of  *)
(* its own: "undefined" when it reads what has been freed or frees it      *)
(* again, "unwritten" when it follows a pointer or a type that is as       *)
(* malloc() left it, and "unset" when it prints such a word.               *)
(***************************************************************************)
EXTENDS Tokens, Sequences

CONSTANT Files        \* the files the program may be given

ASSUME FilesAssumption == Files \subseteq Seq(STRING)

VARIABLES
  file, off, pc, org, live, toks,       \* lex()
  tokens, pos, stack, heap, ret,        \* build_block()
  phase,     \* how far main() is
  noParse,   \* no_parse, from the environment
  walk,      \* what the walk, or the loop, of this phase has before it
  out,       \* the tokens whose text has been printed
  freed      \* the nodes that have been freed

lexer  == <<file, off, pc, org, live, toks>>
parser == <<tokens, pos, stack, heap, ret>>
walker == <<walk, out, freed>>
vars   == <<lexer, parser, phase, noParse, walker>>

L == INSTANCE Lexer WITH Inputs <- Files
P == INSTANCE ParseTrees WITH Inputs <- Seq(TokType)

Enter(p) == phase' = p /\ UNCHANGED noParse

-----------------------------------------------------------------------------
Init ==
  /\ L!Init
  /\ tokens = <<>> /\ pos = 0 /\ stack = <<>> /\ heap = <<>> /\ ret = FALSE
  /\ phase = "start" /\ noParse \in BOOLEAN
  /\ walk = <<>> /\ out = <<>> /\ freed = {}

(* No argument, or a file that cannot be opened. *)
Refuse ==
  /\ phase = "start"
  /\ Enter("failed") /\ UNCHANGED <<lexer, parser, walker>>

Open ==
  /\ phase = "start"
  /\ Enter("lex") /\ UNCHANGED <<lexer, parser, walker>>

Lex ==
  /\ phase = "lex" /\ L!Next
  /\ UNCHANGED <<phase, noParse, parser, walker>>

Lexed == phase = "lex" /\ pc = "done"

(* Without a token there is no array either, and arrlast reads its header. *)
NoTokens ==
  /\ Lexed /\ toks = <<>>
  /\ Enter("undefined") /\ UNCHANGED <<lexer, parser, walker>>

(* exit(1), with nothing freed. *)
LastIsError ==
  /\ Lexed /\ toks # <<>> /\ toks[Len(toks)].t = "T_ERR"
  /\ Enter("failed") /\ UNCHANGED <<lexer, parser, walker>>

Accepts == Lexed /\ toks # <<>> /\ toks[Len(toks)].t # "T_ERR"

SkipParse ==
  /\ Accepts /\ noParse
  /\ Enter("llvm") /\ UNCHANGED <<lexer, parser, walker>>

BeginParse ==
  /\ Accepts /\ ~noParse
  /\ tokens' = [i \in DOMAIN toks |-> toks[i].t]
  /\ pos' = 0 /\ stack' = <<P!Frame("block", 1)>> /\ heap' = <<P!Fresh>>
  /\ Enter("parse") /\ UNCHANGED <<lexer, ret, walker>>

Parse ==
  /\ phase = "parse" /\ P!Next
  /\ UNCHANGED <<lexer, phase, noParse, walker>>

(* The tree of a failure is left where it is. *)
ParseFailed ==
  /\ phase = "parse" /\ stack = <<>> /\ ~ret
  /\ Enter("llvm") /\ UNCHANGED <<lexer, parser, walker>>

BeginPrint ==
  /\ phase = "parse" /\ stack = <<>> /\ ret
  /\ walk' = <<1>>
  /\ Enter("print") /\ UNCHANGED <<lexer, parser, out, freed>>

-----------------------------------------------------------------------------
(* Both walks begin a call by reading the type of the node. *)
Readable(n) == n # P!Wild /\ n \notin freed /\ heap[n].type # "GARBAGE"
Unwritten(n) == n = P!Wild \/ (n \notin freed /\ heap[n].type = "GARBAGE")
Misread(n) == Enter(IF Unwritten(n) THEN "unwritten" ELSE "undefined")

Text(n) == toks[heap[n].held].s
Kids(n, ks) == [i \in DOMAIN ks |-> heap[n].kids[ks[i]]]

(* Fault: the right operand is printed first. *)
PrintKids_RightFirst(n) ==
  Kids(n, CASE heap[n].type \in {"PTR_REF", "PTR_DEREF", "STMT_RETURN"} -> <<1>>
            [] heap[n].type = "BINARY_OP" -> <<2, 1>>
            [] heap[n].type \in {"STMT_ASSIGNMENT", "LVL_STMTS", "TYPE_TRAIL"} -> <<1, 2>>
            [] heap[n].type = "LOOP_FOR" -> <<1, 2, 3, 4>>
            [] OTHER -> <<>>)

(* print_entire_expression: an "if" is only an unknown node. *)
PrintKids(n) ==
  Kids(n, CASE heap[n].type \in {"PTR_REF", "PTR_DEREF", "STMT_RETURN"} -> <<1>>
            [] heap[n].type \in {"BINARY_OP", "STMT_ASSIGNMENT", "LVL_STMTS", "TYPE_TRAIL"}
                 -> <<1, 2>>
            [] heap[n].type = "LOOP_FOR" -> <<1, 2, 3, 4>>
            [] OTHER -> <<>>)

(* The number of an INT was converted when it was parsed; the text of a    *)
(* VARIABLE is still the string of its token.  An isConst that was never   *)
(* written (parse.c:510) may also be taken for either word.                *)
PrintNode ==
  /\ phase = "print" /\ walk # <<>>
  /\ LET n == Head(walk) IN
       IF n = P!NullTree
       THEN walk' = Tail(walk) /\ Enter("print") /\ UNCHANGED out
       ELSE IF ~Readable(n) \/ (heap[n].type = "VARIABLE" /\ Text(n) \notin live)
       THEN Misread(n) /\ UNCHANGED <<walk, out>>
       ELSE \/ /\ ~P!IsConstWritten(n)
               /\ Enter("unset") /\ UNCHANGED <<walk, out>>
            \/ /\ walk' = PrintKids(n) \o Tail(walk)
               /\ out' = IF heap[n].type \in {"INT", "VARIABLE"}
                         THEN Append(out, heap[n].held) ELSE out
               /\ Enter("print")
  /\ UNCHANGED <<lexer, parser, freed>>

Visit(n) == [node |-> n, back |-> FALSE]
Back(n)  == [node |-> n, back |-> TRUE]

BeginFree ==
  /\ phase = "print" /\ walk = <<>>
  /\ walk' = <<Visit(1)>>
  /\ Enter("free") /\ UNCHANGED <<lexer, parser, out, freed>>

(* Fault: of a type with a suffix only the type is freed. *)
FreeKids_NoSuffix(n) ==
  Kids(n, CASE heap[n].type \in {"PTR_REF", "PTR_DEREF", "STMT_RETURN", "TYPE_TRAIL"} -> <<1>>
            [] heap[n].type \in {"BINARY_OP", "STMT_ASSIGNMENT"} -> <<1, 2>>
            [] OTHER -> <<>>)

(* free_parse_tree: what is below a block, an "if" or a "for" is not freed. *)
FreeKids(n) ==
  Kids(n, CASE heap[n].type \in {"PTR_REF", "PTR_DEREF", "STMT_RETURN"} -> <<1>>
            [] heap[n].type \in {"BINARY_OP", "TYPE_TRAIL", "STMT_ASSIGNMENT"} -> <<1, 2>>
            [] OTHER -> <<>>)

FreeVisit ==
  /\ phase = "free" /\ walk # <<>> /\ ~Head(walk).back
  /\ LET n == Head(walk).node IN
       IF n = P!NullTree THEN walk' = Tail(walk) /\ Enter("free")
       ELSE IF ~Readable(n) THEN Misread(n) /\ UNCHANGED walk
       ELSE /\ walk' = [i \in DOMAIN FreeKids(n) |-> Visit(FreeKids(n)[i])]
                         \o <<Back(n)>> \o Tail(walk)
            /\ Enter("free")
  /\ UNCHANGED <<lexer, parser, out, freed>>

(* Fault: the text of a variable is freed with its node. *)
FreeNode_Text ==
  /\ phase = "free" /\ walk # <<>> /\ Head(walk).back
  /\ LET n == Head(walk).node IN
       /\ freed' = freed \union {n}
       /\ live' = IF heap[n].type = "VARIABLE" THEN live \ {Text(n)} ELSE live
  /\ walk' = Tail(walk)
  /\ Enter("free") /\ UNCHANGED <<file, off, pc, org, toks, parser, out>>

FreeNode ==
  /\ phase = "free" /\ walk # <<>> /\ Head(walk).back
  /\ freed' = freed \union {Head(walk).node}
  /\ walk' = Tail(walk)
  /\ Enter("free") /\ UNCHANGED <<lexer, parser, out>>

EndFree ==
  /\ phase = "free" /\ walk = <<>>
  /\ Enter("llvm") /\ UNCHANGED <<lexer, parser, walker>>

-----------------------------------------------------------------------------
(* The code generation tests, which exit when there is no target. *)
TestLLVM ==
  /\ phase = "llvm"
  /\ \/ Enter("failed") /\ UNCHANGED walk
     \/ Enter("strings") /\ walk' = [i \in DOMAIN toks |-> i]
  /\ UNCHANGED <<lexer, parser, out, freed>>

(* The cleanup: sdsfree of every token's string, NULL or not. *)
FreeString ==
  /\ phase = "strings" /\ walk # <<>>
  /\ LET s == toks[Head(walk)].s IN
       /\ IF s \in live \union {NULL} THEN Enter("strings") ELSE Enter("undefined")
       /\ live' = live \ {s}
  /\ walk' = Tail(walk)
  /\ UNCHANGED <<file, off, pc, org, toks, parser, out, freed>>

(* arrfree, fclose and the end of main. *)
Finish ==
  /\ phase = "strings" /\ walk = <<>>
  /\ Enter("returned") /\ UNCHANGED <<lexer, parser, walker>>

Next ==
  \/ Refuse \/ Open \/ Lex
  \/ NoTokens \/ LastIsError \/ SkipParse \/ BeginParse
  \/ Parse \/ ParseFailed
  \/ BeginPrint \/ PrintNode \/ BeginFree \/ FreeVisit \/ FreeNode \/ EndFree
  \/ TestLLVM \/ FreeString \/ Finish

(* One thread, which never waits. *)
Spec == Init /\ [][Next]_vars /\ WF_vars(Next)

-----------------------------------------------------------------------------
(* As long as there is a token, the program reads no node and no text that *)
(* has been freed, and frees nothing twice: the texts outlive the tree     *)
(* that points to them and are freed by main alone (parse.c:563), and the  *)
(* copies the parser makes of nodes share no child.  A pointer or a type   *)
(* as malloc left it is read only where the tree that was accepted has     *)
(* one, and such an isConst only where "x = e;" has left one.              *)
NothingUndefined ==
  /\ phase = "undefined" => toks = <<>>
  /\ phase = "unwritten" => ~P!AcceptedIsLinked
  /\ phase = "unset" => \E n \in DOMAIN heap : ~P!IsConstWritten(n)

(* When main returns, the texts of a text file have all been freed, each   *)
(* by its token; and of an accepted tree, every node that has no block,    *)
(* "if" or "for" above it, whose parts free_parse_tree leaves behind.      *)
NothingLost ==
  LET above(n) == {m \in DOMAIN heap : n \in {heap[m].kids[k] : k \in DOMAIN heap[m].kids}}
      left[n \in DOMAIN heap] ==
        \E m \in above(n) : heap[m].type \in {"LVL_STMTS", "IFS", "LOOP_FOR"} \/ left[m]
  IN phase = "returned" =>
       /\ L!TextFile(file) => live = {}
       /\ freed = IF ret THEN {n \in DOMAIN heap : ~left[n]} ELSE {}

(* What is printed are texts of the file in the order of the file, none    *)
(* twice, however the parser has nested and copied the nodes they are in   *)
(* (parse.c:465).                                                          *)
PrintedInOrder == \A i, j \in DOMAIN out : i < j => out[i] < out[j]

(* A byte that lex() does not know stands behind all that is printed: main *)
(* looks for its token at the end only (main.c:163), and the parser goes   *)
(* past none.  The file may have one all the same, as in "a;?a;", of which *)
(* the first statement is printed and the rest dropped without a word.     *)
CleanPrefix ==
  phase \in {"print", "free"} =>
    /\ \A i \in 1 .. pos : tokens[i] # "T_ERR"
    /\ \A i \in DOMAIN out : out[i] <= pos

(* The program ends, whichever way, on a file that does not end in a       *)
(* symbol after which lex() looks one byte ahead.                          *)
Ends == <>(phase \in {"failed", "returned", "undefined", "unwritten", "unset"})
=============================================================================
