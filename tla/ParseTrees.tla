----------------------------- MODULE ParseTrees -----------------------------
(***************************************************************************)
(* What the tree means that Parser has built when it has returned: the     *)
(* order of its texts, the nesting of its operators, and which token       *)
(* arrays get a tree at all.  The recursion over the tree is the one of    *)
(* print_entire_expression: every pointer field in its order.              *)
(***************************************************************************)
EXTENDS Parser, FiniteSets

Texts == {"IDENT", "NUM"}
Count(t) == Cardinality({i \in 1 .. pos : tokens[i] = t})

(* The positions of the texts below the root, left to right; the name of a *)
(* declaration stands between its type and its value.                      *)
Leaves ==
  LET below[n \in DOMAIN heap] ==
        LET node == heap[n]
            own  == IF node.held > 0 THEN <<node.held>> ELSE <<>>
            kid(k) == IF k \in DOMAIN node.kids /\ node.kids[k] > 0
                      THEN below[node.kids[k]] ELSE <<>>
        IN IF node.type = "STMT_ASSIGNMENT"
           THEN kid(1) \o own \o kid(2)
           ELSE own \o kid(1) \o kid(2) \o kid(3) \o kid(4)
  IN below[1]

(* The tree spells the texts the parser has gone past, each once and in    *)
(* the order of the source, however the operators, the suffixes and the    *)
(* declarations have rearranged its nodes.                                 *)
SourceOrder ==
  LET leaves == Leaves
  IN Done =>
       /\ \A i, j \in DOMAIN leaves : i < j => leaves[i] < leaves[j]
       /\ {leaves[i] : i \in DOMAIN leaves} = {i \in 1 .. pos : tokens[i] \in Texts}

-----------------------------------------------------------------------------
(* The precedence of a BINARY_OP node, and of any other node. *)
Grade(x) ==
  IF x.type # "BINARY_OP" THEN 6
  ELSE CASE x.code \in {0, 1}   -> 1
         [] x.code \in {2, 3}   -> 2
         [] x.code \in {8, 9}   -> 3
         [] x.code \in {10, 11} -> 4
         [] OTHER              -> 5
Rank(n) == Grade(heap[n])

Binaries == {n \in DOMAIN heap : heap[n].type = "BINARY_OP"}

(* For grammar.ebnf:16 a comparison binds loosest, for calc_precedence     *)
(* tightest; they agree where both of two operators are one, or neither.   *)
Alike(m, n) == heap[m].type = "BINARY_OP" => (Rank(m) = 5 <=> Rank(n) = 5)

(* Without parentheses, an operator stands below another one only if it    *)
(* binds tighter, or as tight and further left (parse.c:246).  How tight   *)
(* + - * / bind is grammar.ebnf:17, how tight the assignment operators     *)
(* do, which are not in the grammar, the table of calc_precedence; nothing *)
(* is said of a comparison next to an operator that is none.               *)
Climbs ==
  LET left(n)  == heap[n].kids[1]
      right(n) == heap[n].kids[2]
  IN Done /\ Count("LPAREN") = 0 => \A n \in Binaries :
       /\ Alike(left(n), n) => Rank(left(n)) >= Rank(n)
       /\ Alike(right(n), n) => Rank(right(n)) > Rank(n)

(* Once an operator has bound tighter than the one before it, no later     *)
(* one of the statement binds as loosely as that one again.                *)
StaysUp(t) ==
  \A i, j, k \in DOMAIN t :
    /\ i < j /\ j < k /\ \A m \in i .. k : t[m] # "SEMICOLON"
    /\ Prec(t[j]) > Prec(t[i]) /\ Prec(t[k]) # -1
    => Prec(t[k]) > Prec(t[i])

-----------------------------------------------------------------------------
(* A node with a type, and a value in every pointer field that is read     *)
(* later.  The third pointer of an "if" is never written, nor read.        *)
Linked(n) ==
  /\ heap[n].type # "GARBAGE"
  /\ \A k \in DOMAIN heap[n].kids :
       heap[n].kids[k] = Wild => heap[n].type = "IFS" /\ k = 3

(* isConst, which is printed, is written by "let" and "const" only: that   *)
(* of "x = e;" is as malloc left it (parse.c:394-407).                     *)
IsConstWritten(n) == heap[n].type = "STMT_ASSIGNMENT" => heap[n].code # Unset

AcceptedIsLinked == Done /\ ret => \A n \in DOMAIN heap : Linked(n)

(* A sentence is accepted to its end, that is, to its last token or to the *)
(* brace that closes it, with a tree whose every node has a type and every *)
(* pointer that is read later a value.  The one other field that is read   *)
(* unwritten is the isConst of an assignment without a type.               *)
SentenceAccepted ==
  Done => /\ ret /\ pos = Len(tokens) - Count("LBRACE")
          /\ AcceptedIsLinked
          /\ \A n \in DOMAIN heap :
               IsConstWritten(n) <=>
                 ~(heap[n].type = "STMT_ASSIGNMENT" /\ heap[n].kids[1] = NullTree)
=============================================================================
