------------------------------- MODULE Lexer -------------------------------
(***************************************************************************)
(* lex() of src/kapuc/lex.c: one pass over a FILE*, one token appended to  *)
(* a stb_ds array for every lexeme.  A step is one round of the loop the   *)
(* code is in: it reads one byte with fgetc and, where the code gives the  *)
(* byte back with fseek(stream, -1, SEEK_CUR), ends at the offset the      *)
(* push-back leaves.                                                       *)
(*                                                                         *)
(* A file is a sequence of bytes, each named by a one-character string; a  *)
(* byte that no branch of the code names goes to the default of the        *)
(* switch.  The text of an sds is the piece of the file it was read from,  *)
(* so a string is represented by its identity, the offset where its lexeme *)
(* begins, and the set of the strings allocated and not freed is kept.     *)
(***************************************************************************)
EXTENDS Lexemes, Sequences

CONSTANT Inputs      \* the files lex() may be given

ASSUME InputsAssumption == Inputs \subseteq Seq(STRING)

VARIABLES
  file,   \* the bytes behind the stream; never written
  off,    \* ftell(stream)
  pc,     \* which loop the code is in
  org,    \* the offset at which the lexeme being read begins
  live,   \* the sds strings lex() has allocated and not freed
  toks    \* pToks

vars == <<file, off, pc, org, live, toks>>

-----------------------------------------------------------------------------
(* Fault: "if" given the length of a longer word. *)
KeywordLength_IfLong(t) ==
  CASE t \in {"IF", "LET"} -> 3 [] t = "RETURN" -> 6
    [] t \in {"CONST", "FALSE"} -> 5
    [] OTHER -> 4

(* The length TOK_SYMBOLS_CHECK is told a keyword has, from which the      *)
(* start of its token is computed.                                         *)
KeywordLength(t) ==
  CASE t = "IF" -> 2 [] t = "LET" -> 3 [] t = "RETURN" -> 6
    [] t \in {"CONST", "FALSE"} -> 5
    [] OTHER -> 4

-----------------------------------------------------------------------------
AtEOF   == off = Len(file)
Byte    == file[off + 1]            \* what fgetc returns when not AtEOF
Sees(S) == ~AtEOF /\ Byte \in S     \* fgetc returns a member of S

(* struct TOK, and the text of the word or number being read. *)
Tok(s, t, start, end) == [s |-> s, t |-> t, start |-> start, end |-> end]
Word == SubSeq(file, org + 1, off)

(* The modes in which a local sds holds the text read so far. *)
TextModes == {"word", "num", "string", "coffee"}

Init ==
  /\ file \in Inputs
  /\ off = 0
  /\ pc = "scan"
  /\ org = 0
  /\ live = {}
  /\ toks = <<>>

-----------------------------------------------------------------------------
(* The head of the while loop: one byte decides which branch is taken.     *)

Finish ==
  /\ pc = "scan" /\ AtEOF
  /\ pc' = "done"
  /\ UNCHANGED <<file, off, org, live, toks>>

SkipBlank ==
  /\ pc = "scan" /\ Sees(Blank)
  /\ off' = off + 1
  /\ UNCHANGED <<file, pc, org, live, toks>>

(* The branch is entered with the byte consumed; sdsnew or sdsempty makes  *)
(* the string of a text mode.                                              *)
Enter(mode, S) ==
  /\ pc = "scan" /\ Sees(S)
  /\ off' = off + 1
  /\ org' = off
  /\ pc' = mode
  /\ live' = IF mode \in TextModes THEN live \union {off} ELSE live
  /\ UNCHANGED <<file, toks>>

EnterWord    == Enter("word", WordFirst)
EnterNumber  == Enter("num", Digit)
EnterComment == Enter("comment", {"#"})
EnterString  == Enter("string", {"\""})
EnterCoffee  == Enter("coffee", {"@"})
EnterPair    == Enter("pair", Pairs)

PushSymbol ==
  /\ pc = "scan" /\ Sees(Symbols)
  /\ off' = off + 1
  /\ org' = off
  /\ toks' = Append(toks, Tok(NULL, SymbolType(Byte), off, off))
  /\ UNCHANGED <<file, pc, live>>

(* The default case: the byte is reported, a T_ERR with zeroed offsets is  *)
(* pushed, and lexing goes on.                                             *)
PushError ==
  /\ pc = "scan" /\ ~AtEOF /\ Byte \notin Known
  /\ off' = off + 1
  /\ org' = off
  /\ toks' = Append(toks, Tok(NULL, "T_ERR", 0, 0))
  /\ UNCHANGED <<file, pc, live>>

-----------------------------------------------------------------------------
(* The inner loops. *)

Continue(mode, S) ==
  /\ pc = mode /\ Sees(S)
  /\ off' = off + 1
  /\ UNCHANGED <<file, pc, org, live, toks>>

(* Fault: the digits of a number may not be grouped with "_". *)
MoreNumber_NoUnderscore == Continue("num", Digit)

MoreWord    == Continue("word", WordRest)
MoreNumber  == Continue("num", NumRest)
MoreComment == Continue("comment", STRING \ {"\n"})
MoreString  == Continue("string", STRING \ {"\""})
MoreCoffee  == Continue("coffee", WordFirst)

(* Fault: the sdsfree of TOK_SYMBOL is forgotten. *)
EndWord_KeepKeyword ==
  /\ pc = "word" /\ ~Sees(WordRest)
  /\ LET t == WordType(Word)
         s == IF t = "IDENT" THEN org ELSE NULL
     IN toks' = Append(toks, Tok(s, t, org, off - 1))
  /\ pc' = "scan"
  /\ UNCHANGED <<file, off, org, live>>

(* A keyword's string is freed and its start is computed back from the     *)
(* length the table gives it; any other word is an identifier that owns    *)
(* its string.  An identifier that ends with the file leaves the outer     *)
(* loop at once.                                                           *)
EndWord ==
  /\ pc = "word" /\ ~Sees(WordRest)
  /\ LET t == WordType(Word) IN
       IF t = "IDENT"
       THEN /\ toks' = Append(toks, Tok(org, t, org, off - 1))
            /\ live' = live
            /\ pc' = IF AtEOF THEN "done" ELSE "scan"
       ELSE /\ toks' = Append(toks, Tok(NULL, t, off - KeywordLength(t), off - 1))
            /\ live' = live \ {org}
            /\ pc' = "scan"
  /\ UNCHANGED <<file, off, org>>

(* start was taken after the first digit had been read. *)
EndNumber ==
  /\ pc = "num" /\ ~Sees(NumRest)
  /\ toks' = Append(toks, Tok(org, "NUM", org + 1, off - 1))
  /\ pc' = IF AtEOF THEN "done" ELSE "scan"
  /\ UNCHANGED <<file, off, org, live>>

(* Fault: the end of the file is counted as a byte. *)
EndComment_PastEnd ==
  /\ pc = "comment" /\ ~Sees(STRING \ {"\n"})
  /\ off' = off + 1
  /\ pc' = "scan"
  /\ UNCHANGED <<file, org, live, toks>>

(* The newline that ends a comment is consumed with it. *)
EndComment ==
  /\ pc = "comment" /\ ~Sees(STRING \ {"\n"})
  /\ off' = IF AtEOF THEN off ELSE off + 1
  /\ pc' = "scan"
  /\ UNCHANGED <<file, org, live, toks>>

(* Fault: only a closing quote ends the loop. *)
EndString_NoEOF ==
  /\ pc = "string" /\ Sees({"\""})
  /\ off' = off + 1
  /\ toks' = Append(toks, Tok(org, "STRING", org, off' - 1))
  /\ pc' = "scan"
  /\ UNCHANGED <<file, org, live>>

(* A string that the file ends before its closing quote is pushed as it is. *)
EndString ==
  /\ pc = "string" /\ ~Sees(STRING \ {"\""})
  /\ off' = IF AtEOF THEN off ELSE off + 1
  /\ toks' = Append(toks, Tok(org, "STRING", org, off' - 1))
  /\ pc' = "scan"
  /\ UNCHANGED <<file, org, live>>

EndCoffee ==
  /\ pc = "coffee" /\ ~AtEOF /\ Byte \notin WordFirst
  /\ toks' = Append(toks, Tok(org, "COFFEE", org, off - 1))
  /\ pc' = "scan"
  /\ UNCHANGED <<file, off, org, live>>

(* At the end of the file the case is left without a push: the string is   *)
(* neither in a token nor freed.                                           *)
LoseCoffee ==
  /\ pc = "coffee" /\ AtEOF
  /\ pc' = "scan"
  /\ UNCHANGED <<file, off, org, live, toks>>

(* TOK_MULTICHAR_SYMBOL after its fgetc. *)
LongSymbol ==
  /\ pc = "pair" /\ Sees({PairSecond(file[off])})
  /\ off' = off + 1
  /\ toks' = Append(toks, Tok(NULL, LongType(file[off]), off - 1, off))
  /\ pc' = "scan"
  /\ UNCHANGED <<file, org, live>>

(* Fault: one byte too many is pushed back. *)
ShortSymbol_TwoBack ==
  /\ pc = "pair" /\ ~Sees({PairSecond(file[off])})
  /\ off' = off - 1
  /\ toks' = Append(toks, Tok(NULL, ShortType(file[off]), off' - 1, off' - 1))
  /\ pc' = "scan"
  /\ UNCHANGED <<file, org, live>>

(* The fseek undoes the fgetc, unless that fgetc hit the end of the file   *)
(* and moved nothing: then the symbol itself is given back.                *)
ShortSymbol ==
  /\ pc = "pair" /\ ~Sees({PairSecond(file[off])})
  /\ off' = IF AtEOF THEN off - 1 ELSE off
  /\ toks' = Append(toks, Tok(NULL, ShortType(file[off]), off' - 1, off' - 1))
  /\ pc' = "scan"
  /\ UNCHANGED <<file, org, live>>

-----------------------------------------------------------------------------
Next ==
  \/ Finish \/ SkipBlank
  \/ EnterWord \/ EnterNumber \/ EnterComment
  \/ EnterString \/ EnterCoffee \/ EnterPair
  \/ PushSymbol \/ PushError
  \/ MoreWord \/ MoreNumber \/ MoreComment \/ MoreString \/ MoreCoffee
  \/ EndWord \/ EndNumber \/ EndComment \/ EndString
  \/ EndCoffee \/ LoseCoffee \/ LongSymbol \/ ShortSymbol

(* lex() is a plain loop: while it can take a step, it takes one. *)
Spec == Init /\ [][Next]_vars /\ WF_vars(Next)

-----------------------------------------------------------------------------
(* A text file: empty, or ending in a newline; a file that does not end in *)
(* a symbol after which lex() looks one byte ahead.                        *)
TextFile(f)   == f = <<>> \/ f[Len(f)] = "\n"
ClosedFile(f) == f = <<>> \/ f[Len(f)] \notin Pairs

Token == [s : Nat \union {NULL}, t : TokType, start : Int, end : Int]

(* The state of lex() is well typed; the offset stays within the file.     *)
TypeOK ==
  /\ file \in Seq(STRING)
  /\ off \in 0 .. Len(file)
  /\ pc \in {"scan", "comment", "pair", "done"} \union TextModes
  /\ org \in Nat
  /\ live \subseteq Nat
  /\ toks \in Seq(Token)

(* Every string lex() has allocated has exactly one owner, a token or the  *)
(* loop that is still reading it: so the caller, who is told to free the   *)
(* tokens (lex.c:48) and frees their strings one by one (main.c:212),      *)
(* frees each string once and leaks none.                                  *)
WordsOwned ==
  LET owners == {i \in DOMAIN toks : toks[i].s # NULL}
      reading == IF pc \in TextModes THEN {org} ELSE {}
  IN /\ live = {toks[i].s : i \in owners} \union reading
     /\ \A i \in owners : toks[i].s \notin reading
     /\ \A i, j \in owners : toks[i].s = toks[j].s => i = j

(* So it is as long as the file is a text file: no @-word is cut short by  *)
(* the end of the file (lex.c:175).                                        *)
TextStringsOwned == TextFile(file) => WordsOwned

(* The offsets of the tokens follow the file: two tokens overlap by at     *)
(* most the one byte by which the start of "for" is early (lex.c:41), and  *)
(* each ends after the one before it.                                      *)
SpansOrdered ==
  \A i, j \in DOMAIN toks :
    (i < j /\ toks[i].t # "T_ERR" /\ toks[j].t # "T_ERR") =>
      /\ toks[i].end < toks[j].end
      /\ toks[i].end <= toks[j].start - (IF toks[j].t = "FOR" THEN 0 ELSE 1)

(* The stream is never moved back over a byte a token has been made of:    *)
(* each push-back only undoes the fgetc before it.                         *)
NoRescan == [][off' >= off]_vars

(* lex() cuts the file the way Tokenizer says, whatever loop it is in.     *)
T == INSTANCE Tokenizer WITH
       cut <- IF pc \in {"scan", "done"} THEN off ELSE org,
       out <- [i \in DOMAIN toks |-> [t |-> toks[i].t, s |-> toks[i].s]]
CutsLexemes == T!Spec

(* lex() returns.                                                          *)
Terminates == <>(pc = "done")
=============================================================================
