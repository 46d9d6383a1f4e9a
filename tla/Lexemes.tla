------------------------------ MODULE Lexemes ------------------------------
(***************************************************************************)
(* The byte classes and the tables of src/kapuc/lex.c: which bytes each    *)
(* branch of lex() tests for, and which token type a symbol, a pair of     *)
(* bytes or a word has.                                                    *)
(***************************************************************************)
EXTENDS Tokens

-----------------------------------------------------------------------------
(* The bytes each branch tests for. *)

Lower == {"a", "b", "c", "d", "e", "f", "g", "h", "i", "j", "k", "l", "m",
          "n", "o", "p", "q", "r", "s", "t", "u", "v", "w", "x", "y", "z"}
Digit == {"0", "1", "2", "3", "4", "5", "6", "7", "8", "9"}
WordFirst == Lower \union {"_"}
WordRest  == WordFirst \union Digit
NumRest   == Digit \union {"_"}
Blank     == {" ", "\n", "\t"}

(* The cases of the switch that push one token for one byte. *)
Symbols == {"(", ")", "{", "}", ";", ",", "[", "]", "&"}
SymbolType(c) ==
  CASE c = "(" -> "LPAREN"   [] c = ")" -> "RPAREN"   [] c = "{" -> "LBRACE"
    [] c = "}" -> "RBRACE"   [] c = ";" -> "SEMICOLON" [] c = "," -> "COMMA"
    [] c = "[" -> "LBRACKET" [] c = "]" -> "RBRACKET" [] c = "&" -> "AMPERSAND"

(* The cases that look one byte ahead (TOK_MULTICHAR_SYMBOL): the second   *)
(* byte they wait for, and the types without and with it.                  *)
Pairs == {":", "+", "-", "*", "/", "=", "<", ">", "!", "."}
PairSecond(c) == IF c \in {":", "!", "."} THEN c ELSE "="
ShortType(c) ==
  CASE c = ":" -> "COLON" [] c = "+" -> "PLUS"  [] c = "-" -> "MINUS"
    [] c = "*" -> "STAR"  [] c = "/" -> "SLASH" [] c = "=" -> "EQ"
    [] c = "<" -> "LEFT_ANGLE" [] c = ">" -> "RIGHT_ANGLE"
    [] c = "!" -> "EXCLAM" [] c = "." -> "DOT"
LongType(c) ==
  CASE c = ":" -> "DOUBLE_COLON" [] c = "+" -> "PLUS_EQ"
    [] c = "-" -> "MINUS_EQ" [] c = "*" -> "MULT_EQ" [] c = "/" -> "DIV_EQ"
    [] c = "=" -> "COMP_EQ"  [] c = "<" -> "LA_EQ"   [] c = ">" -> "RA_EQ"
    [] c = "!" -> "COMP_NEQ" [] c = "." -> "DOTDOT"

(* A byte outside this set reaches the default of the switch. *)
Known == Blank \union WordFirst \union Digit \union {"#", "\"", "@"}
           \union Pairs \union Symbols

(* TOK_SYMBOLS_CHECK: the type of a word.                                  *)
WordType(w) ==
  CASE w = <<"f", "u", "n", "c">> -> "FUNC"
    [] w = <<"r", "e", "t", "u", "r", "n">> -> "RETURN"
    [] w = <<"i", "f">> -> "IF"
    [] w = <<"e", "l", "i", "f">> -> "ELIF"
    [] w = <<"e", "l", "s", "e">> -> "ELSE"
    [] w = <<"f", "o", "r">> -> "FOR"
    [] w = <<"l", "e", "t">> -> "LET"
    [] w = <<"c", "o", "n", "s", "t">> -> "CONST"
    [] w = <<"t", "r", "u", "e">> -> "TRUE"
    [] w = <<"f", "a", "l", "s", "e">> -> "FALSE"
    [] OTHER -> "IDENT"
=============================================================================
