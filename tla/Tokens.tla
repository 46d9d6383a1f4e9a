------------------------------- MODULE Tokens -------------------------------
(***************************************************************************)
(* The vocabulary the lexer and the parser of kapuc share: the token types *)
(* of src/kapuc/lex.h, and the value an sds pointer has when it is NULL.   *)
(***************************************************************************)
EXTENDS Integers

(* enum TOK_TYPE, every member. *)
TokType ==
  {"FUNC", "IF", "ELSE", "ELIF", "FOR", "LET", "CONST", "IDENT", "TRUE",
   "FALSE", "COFFEE", "STRING", "NUM", "RETURN", "LPAREN", "RPAREN",
   "LBRACE", "RBRACE", "LBRACKET", "RBRACKET", "COLON", "DOUBLE_COLON",
   "COMMA", "SEMICOLON", "DOT", "DOTDOT", "AMPERSAND", "EXCLAM", "PLUS",
   "MINUS", "STAR", "SLASH", "EQ", "COMP_EQ", "COMP_NEQ", "PLUS_EQ",
   "MINUS_EQ", "MULT_EQ", "DIV_EQ", "LA_EQ", "RA_EQ", "RIGHT_ANGLE",
   "LEFT_ANGLE", "T_ERR"}

(* The sds of a token that has no text.  A string that exists is named by  *)
(* the file offset at which its lexeme begins, which is never negative.    *)
NULL == -1

=============================================================================
