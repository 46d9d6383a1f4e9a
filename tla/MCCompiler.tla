----------------------------- MODULE MCCompiler -----------------------------
(* Files of statements that reach every node type, and every short file.   *)
EXTENDS Compiler, SequencesExt

(* Bytes that are tokens of their own, and that join others; only after    *)
(* "+" does lex() look one byte ahead, which a file must not end in.       *)
MCBytes == {"a", "1", "@", ";", "+", "&", "?", "{", "}"}
MCMaxBytes == 3
MCShort == {Append(s, "\n") : s \in SeqOf(MCBytes, MCMaxBytes)}
             \union {s \in SeqOf(MCBytes, 2) : s = <<>> \/ s[Len(s)] # "+"}

Let == <<"l", "e", "t", " ">>
Const == <<"c", "o", "n", "s", "t", " ">>
For == <<"f", "o", "r", " ">>
If == <<"i", "f", " ">>
Return == <<"r", "e", "t", "u", "r", "n", " ">>

Operands == {<<"a">>, <<"1">>, <<"&", "a">>, <<"*", "&", "a">>, <<"a", ".", "b">>,
             <<"a", ":", ":", "b">>}
Sums == {x \o <<"+">> \o y : x, y \in Operands}
          \union {<<"(">> \o x \o <<"-", "1", ")", "*">> \o x : x \in Operands}
Exprs == Operands \union Sums
Simple ==
  {x \o <<";">> : x \in Exprs} \union {Return \o x \o <<";">> : x \in Exprs \union {<<>>}}
  \union {<<"b", "=">> \o x \o <<";">> : x \in Exprs}
  \union {d \o x \o <<" ", "b", "=">> \o y \o <<";">> : d \in {Let, Const}, x, y \in Operands}
  \union {Let \o x \o <<" ", "b", ";">> : x \in Operands}
Few == {<<"a", ";">>, Return \o <<"1", ";">>, <<"b", "=", "&", "a", ";">>,
        Let \o <<"a", " ", "b", "=", "1", ";">>}
Ifs == {If \o x \o <<" ">> \o s : x \in Operands, s \in Few}
Fors == {For \o x \o y \o z \o s : x, y, z, s \in Few}
Stmts == Few \union Ifs \union Fors
Blocks == {<<"{">> \o s \o t \o <<"}">> : s \in Stmts, t \in Few \union {<<>>, <<"?">>, <<"?", ";">>}}
             \union {<<"{", "}">>, <<"{">>}
(* An unknown byte behind and within what is parsed. *)
Errors == {<<"a", ";", "?", "a", ";">>, <<"{", "a", "?", "a", ";", "}">>,
           <<"{", "a", ";", "?", "a", ";", "}">>}

MCFiles == MCShort \union {Append(s, "\n") : s \in Simple \union Stmts \union Blocks \union Errors}
=============================================================================
