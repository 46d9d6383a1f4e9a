------------------------------ MODULE MCParser ------------------------------
(* Small instances of Parser: every short array of tokens, and sentences.  *)
EXTENDS ParseTrees, SequencesExt

(* A token of every branch of the parser. *)
MCTokens == {"IDENT", "NUM", "LPAREN", "RPAREN", "LBRACE", "RBRACE",
             "SEMICOLON", "EQ", "PLUS", "STAR", "DOT", "AMPERSAND",
             "CONST", "RETURN", "IF", "FOR"}
MCMaxTokens == 4

(* The tokens of expressions, of which longer arrays are tried. *)
MCExprTokens == {"IDENT", "PLUS", "STAR", "COMP_EQ", "LPAREN", "RPAREN",
                 "DOUBLE_COLON", "SEMICOLON"}
MCMaxExpr == 5

MCArrays == SeqOf(MCTokens, MCMaxTokens) \union SeqOf(MCExprTokens, MCMaxExpr)

-----------------------------------------------------------------------------
(* Chains of operators without parentheses, a op a op ... ; of which the   *)
(* passing run gets those that StaysUp and in which comparisons are among  *)
(* themselves.  < > and the assignment operators are the parser's own.     *)
Chain(ops) ==
  <<"IDENT">> \o FlattenSeq([i \in DOMAIN ops |-> <<ops[i], "IDENT">>])
    \o <<"SEMICOLON">>
MCOperators == {"MINUS", "SLASH", "PLUS_EQ", "DIV_EQ"}
MCComparisons == {"COMP_NEQ", "LEFT_ANGLE"}
MCMaxChain == 4

MCChains ==
  {Chain(ops) : ops \in {o \in SeqOf(MCOperators, MCMaxChain) : StaysUp(Chain(o))}
                         \union SeqOf(MCComparisons, MCMaxChain)}
MCSumsAndProducts == {Chain(ops) : ops \in SeqOf({"MINUS", "STAR"}, 3)}

-----------------------------------------------------------------------------
(* Sentences: expressions and blocks as grammar.ebnf:11-20 has them, and   *)
(* the declarations, assignments, "if" and "for" of the parser's own.      *)
Names == {<<"IDENT">>, <<"NUM">>}
Atoms == Names \union {<<"AMPERSAND", "IDENT">>, <<"STAR", "AMPERSAND", "NUM">>,
                       <<"IDENT", "DOUBLE_COLON", "IDENT">>,
                       <<"IDENT", "DOT", "IDENT", "DOT", "IDENT">>}
Sums  == {a \o <<"PLUS">> \o b : a, b \in Atoms}
Exprs == Atoms \union Sums
           \union {<<"LPAREN">> \o e \o <<"RPAREN", "STAR", "IDENT">> : e \in Sums}
End   == <<"SEMICOLON">>

Simple ==
  {e \o End : e \in Exprs}
  \union {<<"RETURN">> \o e \o End : e \in Exprs}
  \union {<<"IDENT", "EQ">> \o e \o End : e \in Exprs}
  \union {<<d>> \o t \o <<"IDENT", "EQ">> \o e \o End :
            d \in {"LET", "CONST"}, t \in Atoms \ Names, e \in Atoms}
Few == {<<"IDENT", "SEMICOLON">>, <<"RETURN", "NUM", "SEMICOLON">>,
        <<"LET", "IDENT", "IDENT", "EQ", "NUM", "SEMICOLON">>}
Ifs  == {<<"IF">> \o e \o s : e \in Atoms, s \in Few}
Fors == {<<"FOR">> \o a \o b \o c \o d : a, b, c, d \in Few}
Stmts == Few \union Ifs \union {<<"IF", "IDENT">> \o f : f \in Fors}
Braced(body) == <<"LBRACE">> \o body \o <<"RBRACE">>
Blocks == {Braced(<<>>)} \union {Braced(s \o t) : s, t \in Stmts}

MCSentences == Simple \union Ifs \union Fors \union Blocks \union MCChains
=============================================================================
