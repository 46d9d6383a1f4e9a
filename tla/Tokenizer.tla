----------------------------- MODULE Tokenizer -----------------------------
(***************************************************************************)
(* What lex() promises, without its loops, its push-backs and its offsets: *)
(* a file is cut, left to right, into lexemes, each the longest run of     *)
(* bytes of its kind, and every lexeme that carries meaning becomes one    *)
(* token.  `cut' is how far the file has been cut, `out' the tokens so     *)
(* far, each with its type and the string it owns.                         *)
(***************************************************************************)
EXTENDS Lexemes, Sequences

CONSTANT Inputs

VARIABLES file, cut, out

tvars == <<file, cut, out>>

-----------------------------------------------------------------------------
(* The end of the longest run of bytes of S that begins at offset i. *)
RunEnd(i, S) ==
  CHOOSE j \in i .. Len(file) :
    /\ \A k \in i + 1 .. j : file[k] \in S
    /\ j < Len(file) => file[j + 1] \notin S

(* The same, with the byte that ends the run taken too if there is one. *)
Through(i, S) ==
  LET j == RunEnd(i, S) IN IF j < Len(file) THEN j + 1 ELSE j

First == file[cut + 1]

(* Where the lexeme at the cut ends. *)
LexemeEnd ==
  CASE First \in WordFirst -> RunEnd(cut + 1, WordRest)
    [] First \in Digit     -> RunEnd(cut + 1, NumRest)
    [] First = "#"         -> Through(cut + 1, STRING \ {"\n"})
    [] First = "\""        -> Through(cut + 1, STRING \ {"\""})
    [] First = "@"         -> RunEnd(cut + 1, WordFirst)
    [] First \in Pairs     ->
         IF cut + 1 < Len(file) /\ file[cut + 2] = PairSecond(First)
         THEN cut + 2 ELSE cut + 1
    [] OTHER               -> cut + 1

(* The tokens of the lexeme from the cut to e: one, or none for a blank, a *)
(* comment, and an @-word that the end of the file cuts short.             *)
TokensOf(e) ==
  LET own(t)  == <<[t |-> t, s |-> cut]>>
      bare(t) == <<[t |-> t, s |-> NULL]>>
      word    == WordType(SubSeq(file, cut + 1, e))
  IN CASE First \in WordFirst -> IF word = "IDENT" THEN own(word) ELSE bare(word)
       [] First \in Digit     -> own("NUM")
       [] First = "\""        -> own("STRING")
       [] First = "@"         -> IF e = Len(file) THEN <<>> ELSE own("COFFEE")
       [] First \in Pairs     -> bare(IF e = cut + 2 THEN LongType(First)
                                                     ELSE ShortType(First))
       [] First \in Symbols   -> bare(SymbolType(First))
       [] First \in Blank \union {"#"} -> <<>>
       [] OTHER               -> bare("T_ERR")

-----------------------------------------------------------------------------
Init ==
  /\ file \in Inputs
  /\ cut = 0
  /\ out = <<>>

Cut ==
  /\ cut < Len(file)
  /\ cut' = LexemeEnd
  /\ out' = out \o TokensOf(LexemeEnd)
  /\ UNCHANGED file

Spec == Init /\ [][Cut]_tvars /\ WF_tvars(Cut)

=============================================================================
