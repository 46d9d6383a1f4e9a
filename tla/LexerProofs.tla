---------------------------- MODULE LexerProofs ----------------------------
(***************************************************************************)
(* Theorems about Lexer, for every set of input files.                     *)
(***************************************************************************)
EXTENDS Lexer, SequenceTheorems, TLAPS

(* What holds in every loop of lex(): a lexeme that is being read has      *)
(* begun, and the byte just read says which loop it is in.                 *)
LoopInv ==
  /\ pc \notin {"scan", "done"} => org < off
  /\ pc = "pair" => file[off] \in Pairs
  /\ pc = "coffee" => file[off] \in WordFirst \union {"@"}

LexerInv == TypeOK /\ LoopInv

-----------------------------------------------------------------------------
(* The tables give token types. *)

LEMMA SymbolTypes == \A c \in Symbols : SymbolType(c) \in TokType
  BY DEF Symbols, SymbolType, TokType

LEMMA ShortTypes == \A c \in Pairs : ShortType(c) \in TokType
  BY SMTT(30) DEF Pairs, ShortType, TokType

LEMMA LongTypes == \A c \in Pairs : LongType(c) \in TokType
  BY SMTT(30) DEF Pairs, LongType, TokType

LEMMA WordTypes == \A w : WordType(w) \in TokType
  BY DEF WordType, TokType

LEMMA KeywordLengths == \A t : KeywordLength(t) \in 2 .. 6
  BY DEF KeywordLength

LEMMA SomeTypes == {"T_ERR", "NUM", "STRING", "COFFEE"} \subseteq TokType
  BY DEF TokType

-----------------------------------------------------------------------------
(* LexerInv is inductive. *)

LEMMA LexerInit == Init => LexerInv
  BY InputsAssumption DEF Init, LexerInv, TypeOK, LoopInv, TextModes

LEMMA LexerStep == LexerInv /\ [Next]_vars => LexerInv'
<1> SUFFICES ASSUME LexerInv, [Next]_vars PROVE LexerInv'
  OBVIOUS
<1>a. /\ file \in Seq(STRING) /\ Len(file) \in Nat /\ off \in 0 .. Len(file)
      /\ org \in Nat /\ live \subseteq Nat /\ toks \in Seq(Token)
  BY DEF LexerInv, TypeOK
<1>b. ~AtEOF => off + 1 \in 1 .. Len(file)
  BY <1>a DEF AtEOF
<1>1. CASE Finish
  BY <1>1, <1>a DEF Finish, LexerInv, TypeOK, LoopInv
<1>2. CASE SkipBlank
  BY <1>2, <1>a, <1>b DEF SkipBlank, Sees, LexerInv, TypeOK, LoopInv, TextModes
<1>3. ASSUME NEW mode \in TextModes \union {"comment", "pair"}, NEW S, Enter(mode, S),
             mode = "pair" => S = Pairs, mode = "coffee" => S = {"@"}
      PROVE  LexerInv'
  BY <1>3, <1>a, <1>b DEF Enter, Sees, Byte, LexerInv, TypeOK, LoopInv, TextModes
<1>4. CASE EnterWord \/ EnterNumber \/ EnterComment \/ EnterString \/ EnterCoffee \/ EnterPair
  BY <1>3, <1>4 DEF EnterWord, EnterNumber, EnterComment, EnterString, EnterCoffee,
       EnterPair, TextModes
<1>5. CASE PushSymbol
  <2>1. toks' \in Seq(Token)
    <3>1. Tok(NULL, SymbolType(Byte), off, off) \in Token
      BY <1>5, <1>a, SymbolTypes DEF PushSymbol, Sees, Tok, Token
    <3> QED
      BY <1>5, <1>a, <3>1 DEF PushSymbol
  <2> QED
    BY <1>5, <1>a, <1>b, <2>1 DEF PushSymbol, Sees, LexerInv, TypeOK, LoopInv, TextModes
<1>6. CASE PushError
  <2>1. toks' \in Seq(Token)
    <3>1. Tok(NULL, "T_ERR", 0, 0) \in Token
      BY SomeTypes DEF Tok, Token
    <3> QED
      BY <1>6, <1>a, <3>1 DEF PushError
  <2> QED
    BY <1>6, <1>a, <1>b, <2>1 DEF PushError, LexerInv, TypeOK, LoopInv, TextModes
<1>7. ASSUME NEW mode \in TextModes \union {"comment"}, NEW S, Continue(mode, S),
             mode = "coffee" => S = WordFirst
      PROVE  LexerInv'
  BY <1>7, <1>a, <1>b DEF Continue, Sees, Byte, LexerInv, TypeOK, LoopInv, TextModes
<1>8. CASE MoreWord \/ MoreNumber \/ MoreComment \/ MoreString \/ MoreCoffee
  BY <1>7, <1>8 DEF MoreWord, MoreNumber, MoreComment, MoreString, MoreCoffee, TextModes
<1>9. CASE EndWord
  <2>1. toks' \in Seq(Token)
    <3> DEFINE t == WordType(Word)
    <3>1. Tok(org, t, org, off - 1) \in Token
      BY <1>a, WordTypes DEF Tok, Token
    <3>2. Tok(NULL, t, off - KeywordLength(t), off - 1) \in Token
      <4>1. off - KeywordLength(t) \in Int
        BY <1>a, KeywordLengths
      <4> QED
        BY <4>1, <1>a, WordTypes DEF Tok, Token
    <3> QED
      <4>1. \A x \in Token : Append(toks, x) \in Seq(Token)
        BY <1>a
      <4>2. toks' \in {Append(toks, Tok(org, t, org, off - 1)),
                      Append(toks, Tok(NULL, t, off - KeywordLength(t), off - 1))}
        BY <1>9, Zenon DEF EndWord
      <4> QED
        BY <3>1, <3>2, <4>1, <4>2
  <2> QED
    BY <1>9, <1>a, <1>b, <2>1 DEF EndWord, LexerInv, TypeOK, LoopInv, TextModes
<1>10. CASE EndNumber
  <2>1. toks' \in Seq(Token)
    <3>1. Tok(org, "NUM", org + 1, off - 1) \in Token
      BY <1>a, SomeTypes DEF Tok, Token
    <3> QED
      BY <1>10, <1>a, <3>1 DEF EndNumber
  <2> QED
    BY <1>10, <1>a, <1>b, <2>1 DEF EndNumber, LexerInv, TypeOK, LoopInv, TextModes
<1>11. CASE EndComment
  BY <1>11, <1>a, <1>b DEF EndComment, LexerInv, TypeOK, LoopInv, TextModes
<1>12. CASE EndString
  <2>1. off' \in 0 .. Len(file)
    <3>1. off' = IF AtEOF THEN off ELSE off + 1
      BY <1>12, Zenon DEF EndString
    <3> QED
      BY <3>1, <1>a, <1>b
  <2>2. toks' \in Seq(Token)
    <3>1. Tok(org, "STRING", org, off' - 1) \in Token
      BY <1>a, <2>1, SomeTypes DEF Tok, Token
    <3> QED
      <4>1. toks' = Append(toks, Tok(org, "STRING", org, off' - 1))
        BY <1>12, Zenon DEF EndString
      <4> QED
        BY <1>a, <3>1, <4>1
  <2> QED
    BY <1>12, <1>a, <2>1, <2>2 DEF EndString, LexerInv, TypeOK, LoopInv, TextModes
<1>13. CASE EndCoffee
  <2>1. toks' \in Seq(Token)
    <3>1. Tok(org, "COFFEE", org, off - 1) \in Token
      BY <1>a, SomeTypes DEF Tok, Token
    <3> QED
      BY <1>13, <1>a, <3>1 DEF EndCoffee
  <2> QED
    BY <1>13, <1>a, <1>b, <2>1 DEF EndCoffee, LexerInv, TypeOK, LoopInv, TextModes
<1>14. CASE LoseCoffee
  BY <1>14, <1>a DEF LoseCoffee, LexerInv, TypeOK, LoopInv, TextModes
<1>15. CASE LongSymbol
  <2>1. LongType(file[off]) \in TokType
    BY <1>15, LongTypes DEF LongSymbol, LexerInv, LoopInv
  <2>2. toks' \in Seq(Token)
    <3>1. Tok(NULL, LongType(file[off]), off - 1, off) \in Token
      BY <1>a, <2>1 DEF Tok, Token
    <3> QED
      BY <1>15, <1>a, <3>1 DEF LongSymbol
  <2> QED
    BY <1>15, <1>a, <1>b, <2>2 DEF LongSymbol, Sees, LexerInv, TypeOK, LoopInv, TextModes
<1>16. CASE ShortSymbol
  <2>1. ShortType(file[off]) \in TokType
    BY <1>16, ShortTypes DEF ShortSymbol, LexerInv, LoopInv
  <2>2. off' \in 0 .. Len(file)
    BY <1>16, <1>a, <1>b DEF ShortSymbol, LexerInv, LoopInv
  <2>3. toks' \in Seq(Token)
    <3>1. Tok(NULL, ShortType(file[off]), off' - 1, off' - 1) \in Token
      BY <1>a, <2>1, <2>2 DEF Tok, Token
    <3> QED
      BY <1>16, <1>a, <3>1 DEF ShortSymbol
  <2> QED
    BY <1>16, <1>a, <2>2, <2>3 DEF ShortSymbol, LexerInv, TypeOK, LoopInv, TextModes
<1>17. CASE UNCHANGED vars
  BY <1>17 DEF vars, LexerInv, TypeOK, LoopInv
<1> QED
  BY <1>1, <1>2, <1>4, <1>5, <1>6, <1>8, <1>9, <1>10, <1>11, <1>12, <1>13, <1>14,
     <1>15, <1>16, <1>17 DEF Next

(* lex() keeps its state well typed and its offset within the file, and in *)
(* each loop the byte before the offset is one that led there.             *)
THEOREM LexerInvariant == Spec => []LexerInv
  BY LexerInit, LexerStep, PTL DEF Spec

(* lex() never leaves the file, and what it appends are tokens. *)
THEOREM LexerTypeOK == Spec => []TypeOK
  BY LexerInvariant, PTL DEF LexerInv

-----------------------------------------------------------------------------
(* The push-back of TOK_MULTICHAR_SYMBOL.                                  *)

LEMMA FileUnchanged == [Next]_vars => UNCHANGED file
  BY DEF Next, vars, Finish, SkipBlank, EnterWord, EnterNumber, EnterComment,
     EnterString, EnterCoffee, EnterPair, Enter, PushSymbol, PushError,
     MoreWord, MoreNumber, MoreComment, MoreString, MoreCoffee, Continue,
     EndWord, EndNumber, EndComment, EndString, EndCoffee, LoseCoffee,
     LongSymbol, ShortSymbol

LEMMA ClosedFiles ==
  ASSUME \A f \in Inputs : ClosedFile(f)
  PROVE  Spec => []ClosedFile(file)
<1>1. Init => ClosedFile(file)
  BY DEF Init
<1>2. ClosedFile(file) /\ [Next]_vars => ClosedFile(file)'
  BY FileUnchanged DEF ClosedFile
<1> QED
  BY <1>1, <1>2, PTL DEF Spec

(* In a file that does not end in a pair symbol, the byte after a pair     *)
(* symbol always exists.                                                   *)
LEMMA PairHasNext ==
  ASSUME LexerInv, ClosedFile(file), pc = "pair"
  PROVE  ~AtEOF
  BY DEF LexerInv, TypeOK, LoopInv, ClosedFile, AtEOF

LEMMA StepForward ==
  ASSUME LexerInv, ClosedFile(file), [Next]_vars
  PROVE  off' >= off
<1>1. off \in Nat
  BY DEF LexerInv, TypeOK
<1>2. CASE ShortSymbol
  BY <1>1, <1>2, PairHasNext DEF ShortSymbol
<1>3. CASE ~ShortSymbol
  <2>1. off' \in {off, off + 1}
    BY <1>3, Zenon DEF Next, vars, Finish, SkipBlank, EnterWord, EnterNumber, EnterComment,
       EnterString, EnterCoffee, EnterPair, Enter, PushSymbol, PushError,
       MoreWord, MoreNumber, MoreComment, MoreString, MoreCoffee, Continue,
       EndWord, EndNumber, EndComment, EndString, EndCoffee, LoseCoffee,
       LongSymbol
  <2> QED
    BY <1>1, <2>1
<1> QED
  BY <1>2, <1>3

(* lex() never reads a byte again of which it has made a token, provided   *)
(* no file ends in a symbol it looks beyond: so a push-back only undoes    *)
(* the fgetc before it.                                                    *)
THEOREM ClosedFilesNeverRescanned ==
  ASSUME \A f \in Inputs : ClosedFile(f)
  PROVE  Spec => NoRescan
<1>1. LexerInv /\ ClosedFile(file) /\ [Next]_vars => [off' >= off]_vars
  BY StepForward
<1> QED
  BY <1>1, LexerInvariant, ClosedFiles, PTL DEF Spec, NoRescan

-----------------------------------------------------------------------------
(* The strings.  Own(ts, lv, rd, fr) says of an array of tokens what       *)
(* WordsOwned says of toks, of the strings lv, and of the one being read   *)
(* rd, and that every string a token owns begins before the frontier fr.   *)

Own(ts, lv, rd, fr) ==
  LET owners == {i \in DOMAIN ts : ts[i].s # NULL}
  IN /\ lv = {ts[i].s : i \in owners} \union rd
     /\ \A i \in owners : ts[i].s \notin rd
     /\ \A i, j \in owners : ts[i].s = ts[j].s => i = j
     /\ \A i \in owners : ts[i].s < fr

Reading  == IF pc \in TextModes THEN {org} ELSE {}
Frontier == IF pc \in {"scan", "done"} THEN off ELSE org

LEMMA TextOrNull == \A tok \in Token : tok.s \in Int
  BY DEF Token, NULL

(* The frontier may advance. *)
LEMMA OwnAdvance ==
  ASSUME NEW ts \in Seq(Token), NEW lv, NEW rd, NEW fr \in Nat, NEW fr2 \in Nat,
         Own(ts, lv, rd, fr), fr <= fr2
  PROVE  Own(ts, lv, rd, fr2)
<1>1. \A i \in DOMAIN ts : ts[i].s \in Int
  BY TextOrNull
<1> QED
  BY <1>1 DEF Own

(* A string begun at the frontier is a new one. *)
LEMMA OwnBegin ==
  ASSUME NEW ts \in Seq(Token), NEW lv, NEW fr \in Nat, Own(ts, lv, {}, fr)
  PROVE  Own(ts, lv \union {fr}, {fr}, fr)
<1>1. \A i \in DOMAIN ts : ts[i].s \in Int
  BY TextOrNull
<1> QED
  BY <1>1 DEF Own

(* It is freed ... *)
LEMMA OwnFree ==
  ASSUME NEW ts \in Seq(Token), NEW lv, NEW o \in Nat, Own(ts, lv, {o}, o)
  PROVE  Own(ts, lv \ {o}, {}, o)
  BY DEF Own

(* ... or becomes the string of the token that is pushed. *)
LEMMA OwnPush ==
  ASSUME NEW ts \in Seq(Token), NEW lv, NEW o \in Nat, NEW fr \in Nat, o < fr,
         Own(ts, lv, {o}, o), NEW tok \in Token, tok.s = o
  PROVE  Own(Append(ts, tok), lv, {}, fr)
<1> DEFINE ts2 == Append(ts, tok)
           n == Len(ts) + 1
<1>1. /\ DOMAIN ts2 = DOMAIN ts \union {n} /\ n \notin DOMAIN ts
      /\ ts2[n] = tok /\ \A i \in DOMAIN ts : ts2[i] = ts[i]
  OBVIOUS
<1>2. \A i \in DOMAIN ts : ts[i].s \in Int
  BY TextOrNull
<1>3. o # NULL
  BY DEF NULL
<1> HIDE DEF ts2, n
<1>4. {i \in DOMAIN ts2 : ts2[i].s # NULL} = {i \in DOMAIN ts : ts[i].s # NULL} \union {n}
  BY <1>1, <1>3
<1> QED
  BY <1>1, <1>2, <1>4 DEF Own, ts2

(* A token without text owns nothing. *)
LEMMA OwnPushBare ==
  ASSUME NEW ts \in Seq(Token), NEW lv, NEW rd, NEW fr,
         Own(ts, lv, rd, fr), NEW tok \in Token, tok.s = NULL
  PROVE  Own(Append(ts, tok), lv, rd, fr)
<1> DEFINE ts2 == Append(ts, tok)
<1>1. /\ DOMAIN ts2 = DOMAIN ts \union {Len(ts) + 1} /\ Len(ts) + 1 \notin DOMAIN ts
      /\ ts2[Len(ts) + 1] = tok /\ \A i \in DOMAIN ts : ts2[i] = ts[i]
  OBVIOUS
<1> HIDE DEF ts2
<1>2. {i \in DOMAIN ts2 : ts2[i].s # NULL} = {i \in DOMAIN ts : ts[i].s # NULL}
  BY <1>1
<1> QED
  BY <1>1, <1>2 DEF Own, ts2

OwnInv == Own(toks, live, Reading, Frontier)

LEMMA OwnInit == Init => OwnInv
  BY DEF Init, OwnInv, Own, Reading, TextModes

LEMMA OwnStep ==
  ASSUME LexerInv, LexerInv', TextFile(file), OwnInv, [Next]_vars
  PROVE  OwnInv'
<1>a. /\ file \in Seq(STRING) /\ off \in Nat /\ off' \in Nat /\ org \in Nat
      /\ off <= Len(file) /\ Len(file) \in Nat
      /\ toks \in Seq(Token) /\ toks' \in Seq(Token)
  BY DEF LexerInv, TypeOK
<1>b. pc \notin {"scan", "done"} => org < off
  BY DEF LexerInv, LoopInv
<1>c. pc = "scan" => Own(toks, live, {}, off)
  BY DEF OwnInv, Reading, Frontier, TextModes
<1>d. pc \in TextModes => Own(toks, live, {org}, org)
  BY DEF OwnInv, Reading, Frontier, TextModes
<1>e. pc \in {"comment", "pair"} => Own(toks, live, {}, org)
  BY DEF OwnInv, Reading, Frontier, TextModes
<1>f. ASSUME NEW s, NEW t, NEW start, NEW end, toks' = Append(toks, Tok(s, t, start, end))
      PROVE  Tok(s, t, start, end) \in Token /\ Tok(s, t, start, end).s = s
  <2> DEFINE tok == Tok(s, t, start, end)
  <2>1. toks'[Len(toks) + 1] = tok /\ Len(toks) + 1 \in DOMAIN toks'
    BY <1>a, <1>f
  <2> QED
    BY <1>a, <2>1 DEF Tok
<1>1. CASE Finish
  BY <1>1, <1>c DEF Finish, OwnInv, Reading, Frontier, TextModes
<1>2. CASE SkipBlank
  <2>1. Own(toks, live, {}, off')
    BY <1>2, <1>a, <1>c, OwnAdvance DEF SkipBlank
  <2> QED
    BY <1>2, <2>1 DEF SkipBlank, OwnInv, Reading, Frontier, TextModes
<1>3. ASSUME NEW mode \in TextModes, NEW S, Enter(mode, S)
      PROVE  OwnInv'
  <2>1. Own(toks, live', {off}, off)
    BY <1>3, <1>a, <1>c, OwnBegin DEF Enter
  <2> QED
    BY <1>3, <2>1 DEF Enter, OwnInv, Reading, Frontier, TextModes
<1>4. ASSUME NEW mode \in {"comment", "pair"}, NEW S, Enter(mode, S)
      PROVE  OwnInv'
  BY <1>4, <1>c DEF Enter, OwnInv, Reading, Frontier, TextModes
<1>5. CASE EnterWord \/ EnterNumber \/ EnterComment \/ EnterString \/ EnterCoffee \/ EnterPair
  BY <1>3, <1>4, <1>5, Zenon DEF EnterWord, EnterNumber, EnterComment, EnterString,
     EnterCoffee, EnterPair, TextModes
<1>6. CASE PushSymbol \/ PushError
  <2>1. Own(toks', live, {}, off)
    <3>1. PICK t, start, end : toks' = Append(toks, Tok(NULL, t, start, end))
      BY <1>6 DEF PushSymbol, PushError
    <3> QED
      BY <1>6, <1>a, <1>c, <1>f, <3>1, OwnPushBare DEF PushSymbol, PushError
  <2>2. Own(toks', live, {}, off')
    BY <1>6, <1>a, <2>1, OwnAdvance DEF PushSymbol, PushError
  <2> QED
    BY <1>6, <2>2 DEF PushSymbol, PushError, OwnInv, Reading, Frontier, TextModes
<1>7. ASSUME NEW mode \in TextModes \union {"comment"}, NEW S, Continue(mode, S)
      PROVE  OwnInv'
  BY <1>7 DEF Continue, OwnInv, Reading, Frontier, TextModes
<1>8. CASE MoreWord \/ MoreNumber \/ MoreComment \/ MoreString \/ MoreCoffee
  BY <1>7, <1>8, Zenon DEF MoreWord, MoreNumber, MoreComment, MoreString, MoreCoffee,
     TextModes
<1>9. CASE EndWord
  <2>1. CASE WordType(Word) = "IDENT"
    <3>1. /\ toks' = Append(toks, Tok(org, "IDENT", org, off - 1))
          /\ live' = live /\ off' = off /\ pc' \in {"scan", "done"} /\ pc = "word"
      BY <1>9, <2>1, Zenon DEF EndWord
    <3>2. Own(toks', live, {}, off)
      BY <1>a, <1>b, <1>d, <1>f, <3>1, OwnPush DEF TextModes
    <3> QED
      BY <3>1, <3>2 DEF OwnInv, Reading, Frontier, TextModes
  <2>2. CASE WordType(Word) # "IDENT"
    <3>1. /\ \E t, start, end : toks' = Append(toks, Tok(NULL, t, start, end))
          /\ live' = live \ {org} /\ off' = off /\ pc' = "scan" /\ pc = "word"
      BY <1>9, <2>2, Zenon DEF EndWord
    <3>2. Own(toks, live \ {org}, {}, org)
      BY <1>a, <1>d, <3>1, OwnFree DEF TextModes
    <3>3. Own(toks', live \ {org}, {}, org)
      BY <1>a, <1>f, <3>1, <3>2, OwnPushBare
    <3>4. Own(toks', live \ {org}, {}, off)
      <4>1. org <= off
        BY <1>a, <1>b, <3>1
      <4> QED
        BY <1>a, <3>3, <4>1, OwnAdvance
    <3> QED
      BY <3>1, <3>4 DEF OwnInv, Reading, Frontier, TextModes
  <2> QED
    BY <2>1, <2>2
<1>10. CASE EndNumber \/ EndString \/ EndCoffee
  <2>1. /\ \E t, start, end : toks' = Append(toks, Tok(org, t, start, end))
        /\ live' = live /\ off' \in {off, off + 1} /\ pc' \in {"scan", "done"}
        /\ pc \in TextModes
    BY <1>10, Zenon DEF EndNumber, EndString, EndCoffee, TextModes
  <2>2. org < off'
    BY <1>a, <1>b, <2>1 DEF TextModes
  <2>3. Own(toks', live, {}, off')
    BY <1>a, <1>d, <1>f, <2>1, <2>2, OwnPush
  <2> QED
    BY <2>1, <2>3 DEF OwnInv, Reading, Frontier, TextModes
<1>11. CASE EndComment
  <2>1. off' \in {off, off + 1}
    BY <1>11 DEF EndComment
  <2>2. Own(toks, live, {}, off')
    BY <1>11, <1>a, <1>b, <1>e, <2>1, OwnAdvance DEF EndComment
  <2> QED
    BY <1>11, <2>2 DEF EndComment, OwnInv, Reading, Frontier, TextModes
<1>12. CASE LoseCoffee
  <2>1. off > 0 /\ file[off] = "\n"
    BY <1>12, <1>a, <1>b DEF LoseCoffee, AtEOF, TextFile
  <2>2. file[off] \in WordFirst \union {"@"}
    BY <1>12 DEF LoseCoffee, LexerInv, LoopInv
  <2> QED
    BY <2>1, <2>2 DEF WordFirst, Lower
<1>13. CASE LongSymbol \/ ShortSymbol
  <2>1. off' \in {off, off + 1}
    <3>1. ClosedFile(file)
      BY DEF TextFile, ClosedFile, Pairs
    <3>2. off' >= off
      BY <3>1, StepForward
    <3> QED
      BY <1>13, <1>a, <3>2 DEF LongSymbol, ShortSymbol
  <2>2. /\ \E t, start, end : toks' = Append(toks, Tok(NULL, t, start, end))
        /\ live' = live /\ pc' = "scan" /\ pc = "pair"
    BY <1>13, Zenon DEF LongSymbol, ShortSymbol
  <2>3. Own(toks', live, {}, org)
    BY <1>a, <1>e, <1>f, <2>2, OwnPushBare
  <2>4. Own(toks', live, {}, off')
    <3>1. org <= off'
      BY <1>a, <1>b, <2>1, <2>2
    <3> QED
      BY <1>a, <2>2, <2>3, <3>1, OwnAdvance
  <2> QED
    BY <2>2, <2>4 DEF OwnInv, Reading, Frontier, TextModes
<1>14. CASE UNCHANGED vars
  BY <1>14 DEF vars, OwnInv, Reading, Frontier
<1> QED
  BY <1>1, <1>2, <1>5, <1>6, <1>8, <1>9, <1>10, <1>11, <1>12, <1>13, <1>14 DEF Next

(* Of a text file, each string lex() allocates is owned by exactly one     *)
(* token, or by the loop that is reading it: the caller that frees the     *)
(* strings of the tokens (main.c:212) frees each once and leaks none.      *)
THEOREM TextFileStringsOwned == Spec => []TextStringsOwned
<1> DEFINE Inv == TextFile(file) => OwnInv
<1>1. Init => Inv
  BY OwnInit
<1>2. Inv /\ LexerInv /\ LexerInv' /\ [Next]_vars => Inv'
  BY OwnStep, FileUnchanged DEF TextFile
<1>3. Inv => TextStringsOwned
  BY DEF OwnInv, Own, Reading, WordsOwned, TextStringsOwned
<1> QED
  BY <1>1, <1>2, <1>3, LexerInvariant, PTL DEF Spec

-----------------------------------------------------------------------------
(* The offsets of the tokens.  Spanned(ts, fr) says of an array of tokens  *)
(* what SpansOrdered says of toks, and that they all end before fr.        *)

Early(t) == IF t = "FOR" THEN 0 ELSE 1

Spanned(ts, fr) ==
  /\ \A i, j \in DOMAIN ts :
       (i < j /\ ts[i].t # "T_ERR" /\ ts[j].t # "T_ERR") =>
         ts[i].end < ts[j].end /\ ts[i].end <= ts[j].start - Early(ts[j].t)
  /\ \A i \in DOMAIN ts : ts[i].t # "T_ERR" => ts[i].end < fr

LEMMA TokenOffsets == \A tok \in Token : tok.start \in Int /\ tok.end \in Int
  BY DEF Token

(* The frontier may advance, ... *)
LEMMA SpanAdvance ==
  ASSUME NEW ts \in Seq(Token), NEW fr \in Int, NEW fr2 \in Int, fr <= fr2, Spanned(ts, fr)
  PROVE  Spanned(ts, fr2)
<1>1. \A i \in DOMAIN ts : ts[i].end \in Int
  BY TokenOffsets
<1> QED
  BY <1>1 DEF Spanned

(* ... and a token that begins there, or one byte early, be pushed.        *)
LEMMA SpanPush ==
  ASSUME NEW ts \in Seq(Token), NEW fr \in Int, NEW fr2 \in Int, Spanned(ts, fr),
         NEW tok \in Token, fr <= fr2,
         tok.t # "T_ERR" => /\ fr - 1 <= tok.start - Early(tok.t)
                            /\ fr <= tok.end /\ tok.end < fr2
  PROVE  Spanned(Append(ts, tok), fr2)
<1> DEFINE ts2 == Append(ts, tok)
           n == Len(ts) + 1
<1>1. /\ DOMAIN ts2 = DOMAIN ts \union {n} /\ \A i \in DOMAIN ts : i < n /\ ~(n < i)
      /\ ts2[n] = tok /\ \A i \in DOMAIN ts : ts2[i] = ts[i]
  OBVIOUS
<1>2. /\ \A i \in DOMAIN ts : ts[i].end \in Int
      /\ tok.end \in Int /\ tok.start \in Int /\ Early(tok.t) \in Int
  BY TokenOffsets DEF Early
<1>n. n \in Int /\ ~(n < n)
  OBVIOUS
<1> HIDE DEF ts2, n
<1>3. \A i \in DOMAIN ts : ts[i].t # "T_ERR" => ts[i].end < fr
  BY DEF Spanned
<1>4. ASSUME NEW i \in DOMAIN ts2, NEW j \in DOMAIN ts2, i < j,
             ts2[i].t # "T_ERR", ts2[j].t # "T_ERR"
      PROVE  ts2[i].end < ts2[j].end /\ ts2[i].end <= ts2[j].start - Early(ts2[j].t)
  <2>1. CASE j \in DOMAIN ts
    <3>1. i \in DOMAIN ts
      BY <1>1, <1>4, <2>1
    <3> QED
      BY <1>1, <1>4, <2>1, <3>1 DEF Spanned
  <2>2. CASE j = n
    <3>1. i \in DOMAIN ts
      BY <1>1, <1>n, <1>4, <2>2
    <3>2. ts2[i] = ts[i] /\ ts2[j] = tok /\ ts[i].end < fr
      BY <1>1, <1>3, <1>4, <2>2, <3>1
    <3> QED
      BY <1>2, <1>4, <3>1, <3>2
  <2> QED
    BY <1>1, <2>1, <2>2
<1>5. ASSUME NEW i \in DOMAIN ts2, ts2[i].t # "T_ERR"
      PROVE  ts2[i].end < fr2
  BY <1>1, <1>2, <1>3, <1>5
<1> QED
  BY <1>4, <1>5 DEF Spanned, ts2

(* The length the table gives a keyword is that of the word, but for one   *)
(* byte in "for".                                                          *)
LEMMA KeywordStart ==
  ASSUME NEW w, NEW t, t = WordType(w), t # "IDENT"
  PROVE  Len(w) - KeywordLength(t) = Early(t) - 1
<1>1. CASE w = <<"f", "u", "n", "c">>
  <2>1. t = "FUNC" /\ Len(w) = 4
    BY <1>1 DEF WordType
  <2> QED
    BY <2>1 DEF KeywordLength, Early
<1>2. CASE w = <<"r", "e", "t", "u", "r", "n">>
  <2>1. t = "RETURN" /\ Len(w) = 6
    BY <1>2 DEF WordType
  <2> QED
    BY <2>1 DEF KeywordLength, Early
<1>3. CASE w = <<"i", "f">>
  <2>1. t = "IF" /\ Len(w) = 2
    BY <1>3 DEF WordType
  <2> QED
    BY <2>1 DEF KeywordLength, Early
<1>4. CASE w = <<"e", "l", "i", "f">>
  <2>1. t = "ELIF" /\ Len(w) = 4
    BY <1>4 DEF WordType
  <2> QED
    BY <2>1 DEF KeywordLength, Early
<1>5. CASE w = <<"e", "l", "s", "e">>
  <2>1. t = "ELSE" /\ Len(w) = 4
    BY <1>5 DEF WordType
  <2> QED
    BY <2>1 DEF KeywordLength, Early
<1>6. CASE w = <<"f", "o", "r">>
  <2>1. t = "FOR" /\ Len(w) = 3
    BY <1>6 DEF WordType
  <2> QED
    BY <2>1 DEF KeywordLength, Early
<1>7. CASE w = <<"l", "e", "t">>
  <2>1. t = "LET" /\ Len(w) = 3
    BY <1>7 DEF WordType
  <2> QED
    BY <2>1 DEF KeywordLength, Early
<1>8. CASE w = <<"c", "o", "n", "s", "t">>
  <2>1. t = "CONST" /\ Len(w) = 5
    BY <1>8 DEF WordType
  <2> QED
    BY <2>1 DEF KeywordLength, Early
<1>9. CASE w = <<"t", "r", "u", "e">>
  <2>1. t = "TRUE" /\ Len(w) = 4
    BY <1>9 DEF WordType
  <2> QED
    BY <2>1 DEF KeywordLength, Early
<1>10. CASE w = <<"f", "a", "l", "s", "e">>
  <2>1. t = "FALSE" /\ Len(w) = 5
    BY <1>10 DEF WordType
  <2> QED
    BY <2>1 DEF KeywordLength, Early
<1> QED
  BY <1>1, <1>2, <1>3, <1>4, <1>5, <1>6, <1>7, <1>8, <1>9, <1>10 DEF WordType

(* The text of the word being read is as long as it looks.                 *)
LEMMA WordLength ==
  ASSUME LexerInv, pc = "word"
  PROVE  Len(Word) = off - org
<1>1. file \in Seq(STRING) /\ off \in 0 .. Len(file) /\ org \in Nat /\ org < off /\ Len(file) \in Nat
  BY LenProperties DEF LexerInv, TypeOK, LoopInv
<1>2. \A i \in org + 1 .. off : file[i] \in STRING
  BY <1>1, ElementOfSeq
<1> QED
  BY <1>1, <1>2, SubSeqProperties DEF Word

SpanInv == Spanned(toks, Frontier) /\ (pc = "pair" => org + 1 = off)

LEMMA SpanInit == Init => SpanInv
  BY DEF Init, SpanInv, Spanned

LEMMA SpanStep ==
  ASSUME LexerInv, LexerInv', ClosedFile(file), SpanInv, [Next]_vars
  PROVE  SpanInv'
<1>a. /\ off \in Nat /\ off' \in Nat /\ org \in Nat /\ org' \in Nat
      /\ toks \in Seq(Token) /\ toks' \in Seq(Token)
  BY DEF LexerInv, TypeOK
<1>b. pc \notin {"scan", "done"} => org < off
  BY DEF LexerInv, LoopInv
<1>c. pc = "scan" => Spanned(toks, off)
  BY DEF SpanInv, Frontier
<1>d. pc \notin {"scan", "done"} => Spanned(toks, org)
  BY DEF SpanInv, Frontier
<1>f. ASSUME NEW s, NEW t, NEW start, NEW end, toks' = Append(toks, Tok(s, t, start, end))
      PROVE  Tok(s, t, start, end) \in Token
  <2> DEFINE tok == Tok(s, t, start, end)
  <2>1. toks'[Len(toks) + 1] = tok /\ Len(toks) + 1 \in DOMAIN toks'
    BY <1>a, <1>f
  <2> QED
    BY <1>a, <2>1 DEF Tok
<1>g. ASSUME NEW s, NEW t, NEW start, NEW end, toks' = Append(toks, Tok(s, t, start, end)),
             NEW fr \in Int, Spanned(toks, fr), fr <= off',
             t # "T_ERR" => fr - 1 <= start - Early(t) /\ fr <= end /\ end < off'
      PROVE  Spanned(toks', off')
  <2>1. Tok(s, t, start, end) \in Token
    BY <1>f, <1>g
  <2>2. /\ Tok(s, t, start, end).t = t /\ Tok(s, t, start, end).start = start
        /\ Tok(s, t, start, end).end = end
    BY DEF Tok
  <2> QED
    BY <1>a, <1>g, <2>1, <2>2, SpanPush
<1>1. CASE Finish
  BY <1>1, <1>c DEF Finish, SpanInv, Frontier
<1>2. CASE SkipBlank
  <2>1. Spanned(toks, off')
    BY <1>2, <1>a, <1>c, SpanAdvance DEF SkipBlank
  <2> QED
    BY <1>2, <2>1 DEF SkipBlank, SpanInv, Frontier
<1>3. ASSUME NEW mode \in TextModes \union {"comment", "pair"}, NEW S, Enter(mode, S)
      PROVE  SpanInv'
  BY <1>3, <1>c, <1>a DEF Enter, SpanInv, Frontier, TextModes
<1>4. CASE EnterWord \/ EnterNumber \/ EnterComment \/ EnterString \/ EnterCoffee \/ EnterPair
  BY <1>3, <1>4, Zenon DEF EnterWord, EnterNumber, EnterComment, EnterString,
     EnterCoffee, EnterPair, TextModes
<1>5. CASE PushSymbol
  <2>1. /\ toks' = Append(toks, Tok(NULL, SymbolType(Byte), off, off))
        /\ off' = off + 1 /\ pc = "scan" /\ pc' = "scan"
    BY <1>5 DEF PushSymbol
  <2>2. \A t : off - 1 <= off - Early(t)
    BY <1>a DEF Early
  <2>3. Spanned(toks', off')
    BY <1>a, <1>c, <1>g, <2>1, <2>2
  <2> QED
    BY <2>1, <2>3 DEF SpanInv, Frontier
<1>6. CASE PushError
  <2>1. /\ toks' = Append(toks, Tok(NULL, "T_ERR", 0, 0))
        /\ off' = off + 1 /\ pc = "scan" /\ pc' = "scan"
    BY <1>6 DEF PushError
  <2>2. Spanned(toks', off')
    BY <1>a, <1>c, <1>g, <2>1
  <2> QED
    BY <2>1, <2>2 DEF SpanInv, Frontier
<1>7. ASSUME NEW mode \in TextModes \union {"comment"}, NEW S, Continue(mode, S)
      PROVE  SpanInv'
  BY <1>7, <1>d DEF Continue, SpanInv, Frontier, TextModes
<1>8. CASE MoreWord \/ MoreNumber \/ MoreComment \/ MoreString \/ MoreCoffee
  BY <1>7, <1>8, Zenon DEF MoreWord, MoreNumber, MoreComment, MoreString, MoreCoffee,
     TextModes
<1>9. CASE EndWord
  <2>1. PICK t : t = WordType(Word)
    OBVIOUS
  <2>2. pc = "word" /\ pc' \in {"scan", "done"} /\ off' = off
    BY <1>9 DEF EndWord
  <2>3. CASE t = "IDENT"
    <3>1. toks' = Append(toks, Tok(org, t, org, off - 1))
      BY <1>9, <2>1, <2>3, Zenon DEF EndWord
    <3>2. Early(t) = 1
      BY <2>3 DEF Early
    <3>3. Spanned(toks', off')
      BY <1>a, <1>b, <1>d, <1>g, <2>2, <3>1, <3>2
    <3> QED
      BY <2>2, <3>3 DEF SpanInv, Frontier
  <2>4. CASE t # "IDENT"
    <3>1. toks' = Append(toks, Tok(NULL, t, off - KeywordLength(t), off - 1))
      BY <1>9, <2>1, <2>4, Zenon DEF EndWord
    <3>2. (off - org) - KeywordLength(t) = Early(t) - 1
      BY <2>1, <2>2, <2>4, KeywordStart, WordLength
    <3>3. KeywordLength(t) \in Int /\ Early(t) \in Int
      BY KeywordLengths DEF Early
    <3>4. org - 1 <= (off - KeywordLength(t)) - Early(t)
      BY <1>a, <3>2, <3>3
    <3>5. Spanned(toks', off')
      BY <1>a, <1>b, <1>d, <1>g, <2>2, <3>1, <3>4
    <3> QED
      BY <2>2, <3>5 DEF SpanInv, Frontier
  <2> QED
    BY <2>3, <2>4
<1>10. CASE EndNumber
  <2>1. /\ toks' = Append(toks, Tok(org, "NUM", org + 1, off - 1))
        /\ off' = off /\ pc = "num" /\ pc' \in {"scan", "done"}
    BY <1>10 DEF EndNumber
  <2>2. Spanned(toks', off')
    BY <1>a, <1>b, <1>d, <1>g, <2>1 DEF Early
  <2> QED
    BY <2>1, <2>2 DEF SpanInv, Frontier
<1>11. CASE EndString
  <2>1. /\ toks' = Append(toks, Tok(org, "STRING", org, off' - 1))
        /\ off' \in {off, off + 1} /\ pc = "string" /\ pc' = "scan"
    BY <1>11, Zenon DEF EndString
  <2>2. Spanned(toks', off')
    BY <1>a, <1>b, <1>d, <1>g, <2>1 DEF Early
  <2> QED
    BY <2>1, <2>2 DEF SpanInv, Frontier
<1>12. CASE EndCoffee
  <2>1. /\ toks' = Append(toks, Tok(org, "COFFEE", org, off - 1))
        /\ off' = off /\ pc = "coffee" /\ pc' = "scan"
    BY <1>12 DEF EndCoffee
  <2>2. Spanned(toks', off')
    BY <1>a, <1>b, <1>d, <1>g, <2>1 DEF Early
  <2> QED
    BY <2>1, <2>2 DEF SpanInv, Frontier
<1>13. CASE EndComment \/ LoseCoffee
  <2>1. /\ toks' = toks /\ off' \in {off, off + 1} /\ pc \in {"comment", "coffee"}
        /\ pc' = "scan"
    BY <1>13, Zenon DEF EndComment, LoseCoffee
  <2>2. Spanned(toks, off')
    BY <1>a, <1>b, <1>d, <2>1, SpanAdvance
  <2> QED
    BY <2>1, <2>2 DEF SpanInv, Frontier
<1>14. CASE LongSymbol
  <2>1. /\ toks' = Append(toks, Tok(NULL, LongType(file[off]), off - 1, off))
        /\ off' = off + 1 /\ pc = "pair" /\ pc' = "scan"
    BY <1>14 DEF LongSymbol
  <2>2. org + 1 = off /\ \A t : Early(t) \in {0, 1}
    BY <2>1 DEF SpanInv, Early
  <2>3. org - 1 <= (off - 1) - Early(LongType(file[off]))
    BY <1>a, <2>2
  <2>4. Spanned(toks', off')
    BY <1>a, <1>d, <1>g, <2>1, <2>2, <2>3
  <2> QED
    BY <2>1, <2>4 DEF SpanInv, Frontier
<1>15. CASE ShortSymbol
  <2>1. off' = off
    BY <1>15, PairHasNext DEF ShortSymbol
  <2>2. /\ toks' = Append(toks, Tok(NULL, ShortType(file[off]), off - 1, off - 1))
        /\ pc = "pair" /\ pc' = "scan"
    BY <1>15, <2>1, Zenon DEF ShortSymbol
  <2>3. org + 1 = off /\ \A t : Early(t) \in {0, 1}
    BY <2>2 DEF SpanInv, Early
  <2>4. org - 1 <= (off - 1) - Early(ShortType(file[off]))
    BY <1>a, <2>3
  <2>5. Spanned(toks', off')
    BY <1>a, <1>d, <1>g, <2>1, <2>2, <2>3, <2>4
  <2> QED
    BY <2>2, <2>5 DEF SpanInv, Frontier
<1>16. CASE UNCHANGED vars
  BY <1>16 DEF vars, SpanInv, Frontier
<1> QED
  BY <1>1, <1>2, <1>4, <1>5, <1>6, <1>8, <1>9, <1>10, <1>11, <1>12, <1>13, <1>14, <1>15,
     <1>16 DEF Next

(* The spans lex() gives its tokens (lex.c:41) are in the order of the     *)
(* file and overlap by no more than the early byte of "for", provided no   *)
(* file ends in a symbol lex() looks beyond.                               *)
THEOREM ClosedFilesSpansOrdered ==
  ASSUME \A f \in Inputs : ClosedFile(f)
  PROVE  Spec => []SpansOrdered
<1>1. LexerInv /\ LexerInv' /\ ClosedFile(file) /\ SpanInv /\ [Next]_vars => SpanInv'
  BY SpanStep
<1>2. SpanInv => SpansOrdered
  BY DEF SpanInv, Spanned, SpansOrdered, Early
<1> QED
  BY <1>1, <1>2, SpanInit, LexerInvariant, ClosedFiles, PTL DEF Spec

-----------------------------------------------------------------------------
(* The lexemes.  Tokenizer has its own copy of the tables. *)

LEMMA SameClasses ==
  /\ T!WordFirst = WordFirst /\ T!WordRest = WordRest /\ T!Digit = Digit
  /\ T!NumRest = NumRest /\ T!Pairs = Pairs /\ T!Symbols = Symbols /\ T!Blank = Blank
  BY Zenon DEF T!WordFirst, T!WordRest, T!Digit, T!NumRest, T!Pairs, T!Symbols, T!Lower,
     T!Blank, WordFirst, WordRest, Digit, NumRest, Pairs, Symbols, Lower, Blank

LEMMA SameTables ==
  /\ \A c : /\ T!SymbolType(c) = SymbolType(c) /\ T!ShortType(c) = ShortType(c)
            /\ T!LongType(c) = LongType(c) /\ T!PairSecond(c) = PairSecond(c)
  /\ \A w : T!WordType(w) = WordType(w)
  /\ T!NULL = NULL
  BY Zenon DEF T!SymbolType, T!ShortType, T!LongType, T!PairSecond, T!WordType, T!NULL,
     SymbolType, ShortType, LongType, PairSecond, WordType, NULL

(* A byte is tested for by one branch of lex() only. *)
LEMMA Disjoint ==
  ASSUME NEW c
  PROVE  /\ c \in WordFirst => c \notin Digit
         /\ c \in WordFirst \union Digit => c \notin Pairs \union Symbols \union Blank
         /\ c \in Pairs => c \notin Symbols \union Blank
         /\ c \in Symbols => c \notin Blank
         /\ c \in WordFirst \union Digit \union Pairs \union Symbols \union Blank
              => c # "#" /\ c # "\"" /\ c # "@"
         /\ c = "#" => c # "\"" /\ c # "@"
         /\ c = "\"" => c # "@"
<1>1. c \in WordFirst => c \notin Digit
  BY DEF WordFirst, Digit, Lower
<1>2. c \in WordFirst => c \notin Pairs \union Symbols \union Blank
  BY DEF WordFirst, Lower, Pairs, Symbols, Blank
<1>3. c \in Digit => c \notin Pairs \union Symbols \union Blank
  BY DEF Digit, Pairs, Symbols, Blank
<1>4. c \in Pairs => c \notin Symbols \union Blank
  BY DEF Pairs, Symbols, Blank
<1>5. c \in Symbols => c \notin Blank
  BY DEF Symbols, Blank
<1>6. c \in WordFirst => c # "#" /\ c # "\"" /\ c # "@"
  BY DEF WordFirst, Lower
<1>7. c \in Digit => c # "#" /\ c # "\"" /\ c # "@"
  BY DEF Digit
<1>8. c \in Pairs => c # "#" /\ c # "\"" /\ c # "@"
  BY DEF Pairs
<1>9. c \in Symbols \union Blank => c # "#" /\ c # "\"" /\ c # "@"
  BY DEF Symbols, Blank
<1>10. /\ c = "#" => c # "\"" /\ c # "@"
       /\ c = "\"" => c # "@"
  OBVIOUS
<1> QED
  BY <1>1, <1>2, <1>3, <1>4, <1>5, <1>6, <1>7, <1>8, <1>9, <1>10, Zenon

(* A run of bytes ends where the next byte is not one of them. *)
LEMMA RunEndIs ==
  ASSUME NEW i \in Nat, NEW S, NEW j \in i .. Len(file), Len(file) \in Nat,
         \A k \in i + 1 .. j : file[k] \in S,
         j < Len(file) => file[j + 1] \notin S
  PROVE  T!RunEnd(i, S) = j
<1> DEFINE Ends(x) == /\ \A k \in i + 1 .. x : file[k] \in S
                      /\ x < Len(file) => file[x + 1] \notin S
<1>1. \A x \in i .. Len(file) : Ends(x) => x = j
  <2> SUFFICES ASSUME NEW x \in i .. Len(file), Ends(x), x # j PROVE FALSE
    OBVIOUS
  <2>1. CASE x < j
    <3>1. x + 1 \in i + 1 .. j /\ x < Len(file)
      BY <2>1
    <3> QED
      BY <3>1
  <2>2. CASE j < x
    <3>1. j + 1 \in i + 1 .. x /\ j < Len(file)
      BY <2>2
    <3> QED
      BY <3>1
  <2> QED
    BY <2>1, <2>2
<1>2. Ends(j)
  OBVIOUS
<1> HIDE DEF Ends
<1>3. j = CHOOSE x \in i .. Len(file) : Ends(x)
  BY <1>1, <1>2
<1> QED
  BY <1>3, Zenon DEF T!RunEnd, Ends

(* Where Tokenizer ends the lexeme at the frontier, by its first byte. *)
LEMMA Ends ==
  ASSUME NEW o, Frontier = o, NEW c, file[o + 1] = c
  PROVE  /\ c \in WordFirst => T!LexemeEnd = T!RunEnd(o + 1, WordRest)
         /\ c \in Digit => T!LexemeEnd = T!RunEnd(o + 1, NumRest)
         /\ c = "#" => T!LexemeEnd = T!Through(o + 1, STRING \ {"\n"})
         /\ c = "\"" => T!LexemeEnd = T!Through(o + 1, STRING \ {"\""})
         /\ c = "@" => T!LexemeEnd = T!RunEnd(o + 1, WordFirst)
         /\ c \in Pairs =>
              T!LexemeEnd = IF o + 1 < Len(file) /\ file[o + 2] = PairSecond(c)
                            THEN o + 2 ELSE o + 1
         /\ c \notin WordFirst \union Digit \union Pairs \union {"#", "\"", "@"}
              => T!LexemeEnd = o + 1
<1>1. T!First = c
  BY DEF T!First, Frontier
<1>2. T!LexemeEnd =
        CASE c \in WordFirst -> T!RunEnd(o + 1, WordRest)
          [] c \in Digit     -> T!RunEnd(o + 1, NumRest)
          [] c = "#"         -> T!Through(o + 1, STRING \ {"\n"})
          [] c = "\""        -> T!Through(o + 1, STRING \ {"\""})
          [] c = "@"         -> T!RunEnd(o + 1, WordFirst)
          [] c \in Pairs     -> IF o + 1 < Len(file) /\ file[o + 2] = PairSecond(c)
                                THEN o + 2 ELSE o + 1
          [] OTHER           -> o + 1
  BY <1>1, SameClasses, SameTables, Zenon DEF T!LexemeEnd, Frontier
<1> QED
  BY <1>2, Disjoint

(* The tokens Tokenizer makes of the lexeme from the frontier to e. *)
One(t, s) == <<[t |-> t, s |-> s]>>

LEMMA TokensAre ==
  ASSUME NEW o, Frontier = o, NEW c, file[o + 1] = c, NEW e
  PROVE  /\ c \in WordFirst =>
              T!TokensOf(e) = LET w == WordType(SubSeq(file, o + 1, e))
                              IN IF w = "IDENT" THEN One(w, o) ELSE One(w, NULL)
         /\ c \in Digit => T!TokensOf(e) = One("NUM", o)
         /\ c = "\"" => T!TokensOf(e) = One("STRING", o)
         /\ c = "@" => T!TokensOf(e) = IF e = Len(file) THEN <<>> ELSE One("COFFEE", o)
         /\ c \in Pairs /\ e # o + 2 => T!TokensOf(e) = One(ShortType(c), NULL)
         /\ c \in Symbols => T!TokensOf(e) = One(SymbolType(c), NULL)
         /\ c \in Blank \union {"#"} => T!TokensOf(e) = <<>>
         /\ c \notin Known => T!TokensOf(e) = One("T_ERR", NULL)
<1>1. T!First = c
  BY DEF T!First, Frontier
<1> DEFINE word == WordType(SubSeq(file, o + 1, e))
           v1 == IF word = "IDENT" THEN One(word, o) ELSE One(word, NULL)
           v2 == One("NUM", o)
           v3 == One("STRING", o)
           v4 == IF e = Len(file) THEN <<>> ELSE One("COFFEE", o)
           v5 == One(IF e = o + 2 THEN LongType(c) ELSE ShortType(c), NULL)
           v6 == One(SymbolType(c), NULL)
           v7 == <<>>
           v8 == One("T_ERR", NULL)
<1>2. T!TokensOf(e) =
        CASE c \in WordFirst -> v1 [] c \in Digit -> v2 [] c = "\"" -> v3 [] c = "@" -> v4
          [] c \in Pairs -> v5 [] c \in Symbols -> v6 [] c \in Blank \union {"#"} -> v7
          [] OTHER -> v8
  BY <1>1, SameClasses, SameTables, Zenon DEF T!TokensOf, Frontier, One
<1>3. /\ c \in Blank \union {"#"} => c \in Known
      /\ c \in WordFirst \union Digit \union {"\"", "@"} \union Pairs \union Symbols => c \in Known
  BY DEF Known
<1>4. /\ c \in WordFirst => T!TokensOf(e) = v1
      /\ c \in Digit => T!TokensOf(e) = v2
      /\ c = "\"" => T!TokensOf(e) = v3
      /\ c = "@" => T!TokensOf(e) = v4
      /\ c \in Pairs => T!TokensOf(e) = v5
      /\ c \in Symbols => T!TokensOf(e) = v6
      /\ c \in Blank \union {"#"} => T!TokensOf(e) = v7
      /\ c \notin Known => T!TokensOf(e) = v8
  <2> HIDE DEF v1, v2, v3, v4, v5, v6, v7, v8
  <2> QED
    BY <1>2, <1>3, Disjoint
<1> QED
  BY <1>4, Zenon

LEMMA LongToken ==
  ASSUME NEW o, Frontier = o, NEW c, file[o + 1] = c, c \in Pairs
  PROVE  T!TokensOf(o + 2) = One(LongType(c), NULL)
<1>1. T!First = c
  BY DEF T!First, Frontier
<1>2. c \notin WordFirst \union Digit \union {"\"", "@", "#"} \union Symbols \union Blank
  BY Disjoint
<1> DEFINE word == WordType(SubSeq(file, o + 1, o + 2))
           v1 == IF word = "IDENT" THEN One(word, o) ELSE One(word, NULL)
           v4 == IF o + 2 = Len(file) THEN <<>> ELSE One("COFFEE", o)
           v5 == One(LongType(c), NULL)
<1>3. T!TokensOf(o + 2) =
        CASE c \in WordFirst -> v1 [] c \in Digit -> One("NUM", o) [] c = "\"" -> One("STRING", o)
          [] c = "@" -> v4 [] c \in Pairs -> v5 [] c \in Symbols -> One(SymbolType(c), NULL)
          [] c \in Blank \union {"#"} -> <<>> [] OTHER -> One("T_ERR", NULL)
  BY <1>1, SameClasses, SameTables, Zenon DEF T!TokensOf, Frontier, One
<1> HIDE DEF v1, v4, v5
<1>4. T!TokensOf(o + 2) = v5
  BY <1>2, <1>3
<1> QED
  BY <1>4 DEF v5

(* The bytes read since the lexeme began are of its kind: so, when a loop  *)
(* ends, it has read the longest run.                                      *)
RunOf(S) == \A k \in org + 2 .. off : file[k] \in S

LexemeInv ==
  /\ pc = "word"    => file[org + 1] \in WordFirst /\ RunOf(WordRest)
  /\ pc = "num"     => file[org + 1] \in Digit /\ RunOf(NumRest)
  /\ pc = "comment" => file[org + 1] = "#" /\ RunOf(STRING \ {"\n"})
  /\ pc = "string"  => file[org + 1] = "\"" /\ RunOf(STRING \ {"\""})
  /\ pc = "coffee"  => file[org + 1] = "@" /\ RunOf(WordFirst)
  /\ pc = "pair"    => file[org + 1] \in Pairs /\ org + 1 = off

LEMMA LexemeInit == Init => LexemeInv
  BY DEF Init, LexemeInv

LEMMA RunBegins ==
  ASSUME NEW mode, NEW S, NEW R, LexerInv, Enter(mode, S)
  PROVE  /\ pc' = mode /\ file'[org' + 1] \in S /\ RunOf(R)' /\ (org + 1 = off)'
<1>1. off \in Nat
  BY DEF LexerInv, TypeOK
<1>2. off' = off + 1 /\ org' = off /\ file' = file /\ pc' = mode /\ file[off + 1] \in S
  BY DEF Enter, Sees, Byte
<1>3. org' + 2 .. off' = {}
  BY <1>1, <1>2
<1> QED
  BY <1>1, <1>2, <1>3 DEF RunOf

LEMMA RunGoesOn ==
  ASSUME NEW mode, NEW S, LexerInv, Continue(mode, S), RunOf(S)
  PROVE  pc = mode /\ pc' = mode /\ file' = file /\ org' = org /\ RunOf(S)'
<1>1. off \in Nat /\ org \in Nat
  BY DEF LexerInv, TypeOK
<1>2. /\ off' = off + 1 /\ org' = org /\ file' = file /\ pc' = pc /\ pc = mode
      /\ file[off + 1] \in S
  BY DEF Continue, Sees, Byte
<1>3. \A k \in org + 2 .. off + 1 : k \in org + 2 .. off \/ k = off + 1
  BY <1>1
<1> QED
  BY <1>1, <1>2, <1>3 DEF RunOf

LEMMA LexemeStep ==
  ASSUME LexerInv, LexemeInv, [Next]_vars
  PROVE  LexemeInv'
<1>1. CASE pc' \in {"scan", "done"}
  BY <1>1 DEF LexemeInv
<1>2. CASE EnterWord
  <2>1. /\ pc' = "word" /\ file'[org' + 1] \in WordFirst /\ RunOf(WordRest)'
        /\ org' + 1 = off'
    BY <1>2, RunBegins, Zenon DEF EnterWord
  <2> QED
    BY <2>1 DEF LexemeInv
<1>3. CASE EnterNumber
  <2>1. /\ pc' = "num" /\ file'[org' + 1] \in Digit /\ RunOf(NumRest)'
        /\ org' + 1 = off'
    BY <1>3, RunBegins, Zenon DEF EnterNumber
  <2> QED
    BY <2>1 DEF LexemeInv
<1>4. CASE EnterComment
  <2>1. /\ pc' = "comment" /\ file'[org' + 1] \in {"#"} /\ RunOf(STRING \ {"\n"})'
        /\ org' + 1 = off'
    BY <1>4, RunBegins, Zenon DEF EnterComment
  <2> QED
    BY <2>1 DEF LexemeInv
<1>5. CASE EnterString
  <2>1. /\ pc' = "string" /\ file'[org' + 1] \in {"\""} /\ RunOf(STRING \ {"\""})'
        /\ org' + 1 = off'
    BY <1>5, RunBegins, Zenon DEF EnterString
  <2> QED
    BY <2>1 DEF LexemeInv
<1>6. CASE EnterCoffee
  <2>1. /\ pc' = "coffee" /\ file'[org' + 1] \in {"@"} /\ RunOf(WordFirst)'
        /\ org' + 1 = off'
    BY <1>6, RunBegins, Zenon DEF EnterCoffee
  <2> QED
    BY <2>1 DEF LexemeInv
<1>7. CASE EnterPair
  <2>1. /\ pc' = "pair" /\ file'[org' + 1] \in Pairs /\ RunOf({})'
        /\ org' + 1 = off'
    BY <1>7, RunBegins, Zenon DEF EnterPair
  <2> QED
    BY <2>1 DEF LexemeInv
<1>8. CASE MoreWord
  BY <1>8, RunGoesOn DEF MoreWord, Continue, LexemeInv
<1>9. CASE MoreNumber
  BY <1>9, RunGoesOn DEF MoreNumber, Continue, LexemeInv
<1>10. CASE MoreComment
  BY <1>10, RunGoesOn DEF MoreComment, Continue, LexemeInv
<1>11. CASE MoreString
  BY <1>11, RunGoesOn DEF MoreString, Continue, LexemeInv
<1>12. CASE MoreCoffee
  BY <1>12, RunGoesOn DEF MoreCoffee, Continue, LexemeInv
<1>13. CASE UNCHANGED vars
  BY <1>13 DEF vars, LexemeInv, RunOf
<1>14. CASE \/ Finish \/ SkipBlank \/ PushSymbol \/ PushError \/ EndWord \/ EndNumber
            \/ EndComment \/ EndString \/ EndCoffee \/ LoseCoffee \/ LongSymbol \/ ShortSymbol
  <2>1. pc' \in {"scan", "done"}
    BY <1>14, Zenon DEF Finish, SkipBlank, PushSymbol, PushError, EndWord, EndNumber,
       EndComment, EndString, EndCoffee, LoseCoffee, LongSymbol, ShortSymbol
  <2> QED
    BY <1>1, <2>1
<1> QED
  BY <1>2, <1>3, <1>4, <1>5, <1>6, <1>7, <1>8, <1>9, <1>10, <1>11, <1>12, <1>13, <1>14
     DEF Next

(* What Tokenizer sees of an array of tokens. *)
Out(ts) == [i \in DOMAIN ts |-> [t |-> ts[i].t, s |-> ts[i].s]]

LEMMA OutAppend ==
  ASSUME NEW ts \in Seq(Token), NEW tok \in Token
  PROVE  Out(Append(ts, tok)) = Out(ts) \o One(tok.t, tok.s)
<1> DEFINE ts2 == Append(ts, tok)
           n == Len(ts) + 1
           R == [t : TokType, s : Nat \union {NULL}]
           a == Out(ts)
           x == [t |-> tok.t, s |-> tok.s]
<1>1. /\ Len(ts) \in Nat /\ DOMAIN ts = 1 .. Len(ts) /\ Len(ts2) = n /\ ts2 \in Seq(Token)
      /\ DOMAIN ts2 = 1 .. n /\ ts2[n] = tok /\ \A i \in 1 .. Len(ts) : ts2[i] = ts[i]
  OBVIOUS
<1>2. \A i \in DOMAIN ts : ts[i] \in Token
  BY ElementOfSeq
<1>3. \A k \in Token : [t |-> k.t, s |-> k.s] \in R
  BY DEF Token
<1>4. a \in Seq(R) /\ Len(a) = Len(ts) /\ DOMAIN a = 1 .. Len(ts)
      /\ \A i \in 1 .. Len(ts) : a[i] = [t |-> ts[i].t, s |-> ts[i].s]
  BY <1>1, <1>2, <1>3 DEF Out
<1>5. x \in R
  BY <1>3
<1>6. <<x>> \in Seq(R) /\ Len(<<x>>) = 1 /\ <<x>>[1] = x
  BY <1>5
<1>n. Len(ts) \in Nat /\ n = Len(ts) + 1
  OBVIOUS
<1>c. \A s1, s2 \in Seq(R) :
        /\ s1 \o s2 \in Seq(R) /\ Len(s1 \o s2) = Len(s1) + Len(s2)
        /\ \A i \in 1 .. Len(s1) + Len(s2) :
             (s1 \o s2)[i] = IF i <= Len(s1) THEN s1[i] ELSE s2[i - Len(s1)]
  BY ConcatProperties
<1> HIDE DEF ts2, n, a, x, R
<1>7. /\ a \o <<x>> \in Seq(R) /\ Len(a \o <<x>>) = Len(ts) + 1
      /\ \A i \in 1 .. Len(ts) : (a \o <<x>>)[i] = a[i]
      /\ (a \o <<x>>)[Len(ts) + 1] = x
  <2>1. /\ a \o <<x>> \in Seq(R) /\ Len(a \o <<x>>) = Len(ts) + 1
        /\ \A i \in 1 .. Len(ts) + 1 :
             (a \o <<x>>)[i] = IF i <= Len(ts) THEN a[i] ELSE <<x>>[i - Len(ts)]
    BY <1>c, <1>4, <1>6
  <2>2. Len(ts) + 1 \in 1 .. Len(ts) + 1 /\ ~(Len(ts) + 1 <= Len(ts)) /\ (Len(ts) + 1) - Len(ts) = 1
    BY <1>n
  <2>3. \A i \in 1 .. Len(ts) : i \in 1 .. Len(ts) + 1 /\ i <= Len(ts)
    BY <1>n
  <2> QED
    BY <1>6, <2>1, <2>2, <2>3, Zenon
<1>8. Out(ts2) = [i \in 1 .. n |-> [t |-> ts2[i].t, s |-> ts2[i].s]]
  BY <1>1 DEF Out
<1>9. DOMAIN (a \o <<x>>) = 1 .. n /\ a \o <<x>> = [i \in 1 .. n |-> (a \o <<x>>)[i]]
  BY <1>1, <1>7 DEF n
<1>10. \A i \in 1 .. n : [t |-> ts2[i].t, s |-> ts2[i].s] = (a \o <<x>>)[i]
  <2> SUFFICES ASSUME NEW i \in 1 .. n
               PROVE  [t |-> ts2[i].t, s |-> ts2[i].s] = (a \o <<x>>)[i]
    OBVIOUS
  <2>1. CASE i \in 1 .. Len(ts)
    BY <1>1, <1>4, <1>7, <2>1
  <2>2. CASE i = n
    BY <1>1, <1>7, <2>2 DEF n, x
  <2>3. i \in 1 .. Len(ts) \/ i = n
    BY <1>n
  <2> QED
    BY <2>1, <2>2, <2>3
<1>11. Out(ts2) = a \o <<x>>
  BY <1>8, <1>9, <1>10, Zenon
<1> QED
  BY <1>11, Zenon DEF One, ts2, a, x

LEMMA OutSame == \A ts \in Seq(Token) : Out(ts) \o <<>> = Out(ts)
<1> SUFFICES ASSUME NEW ts \in Seq(Token) PROVE Out(ts) \o <<>> = Out(ts)
  OBVIOUS
<1> DEFINE R == [t : TokType, s : Nat \union {NULL}]
<1>1. \A i \in DOMAIN ts : ts[i] \in Token
  BY ElementOfSeq
<1>2. \A k \in Token : [t |-> k.t, s |-> k.s] \in R
  BY DEF Token
<1>3. Out(ts) \in Seq(R)
  <2>1. DOMAIN ts = 1 .. Len(ts) /\ Len(ts) \in Nat
    OBVIOUS
  <2> QED
    BY <1>1, <1>2, <2>1 DEF Out
<1> HIDE DEF R
<1> QED
  BY <1>3

(* A step that leaves the frontier and the tokens is none of Tokenizer's, *)
LEMMA NoCut ==
  ASSUME file' = file, toks' = toks, Frontier' = Frontier
  PROVE  [T!Cut]_(T!tvars)
  BY Zenon DEF T!tvars, Frontier

(* ... and one that moves the frontier over a lexeme is a cut. *)
LEMMA ACut ==
  ASSUME file' = file, Frontier < Len(file), T!LexemeEnd = Frontier',
         Out(toks)' = Out(toks) \o T!TokensOf(Frontier')
  PROVE  [T!Cut]_(T!tvars)
<1>1. T!TokensOf(T!LexemeEnd) = T!TokensOf(Frontier')
  BY Zenon
<1> QED
  BY <1>1, Zenon DEF T!Cut, Frontier, Out

(* Every step of lex() is a cut of Tokenizer, or none of its steps: it is  *)
(* the end of a loop that cuts.                                            *)
LEMMA CutStep ==
  ASSUME LexerInv, LexerInv', ClosedFile(file), LexemeInv, [Next]_vars
  PROVE  [T!Cut]_(T!tvars)
<1>a. /\ file \in Seq(STRING) /\ Len(file) \in Nat /\ off \in 0 .. Len(file)
      /\ off \in Nat /\ off' \in Nat /\ org \in Nat /\ toks \in Seq(Token) /\ toks' \in Seq(Token)
  BY DEF LexerInv, TypeOK
<1>b. pc \notin {"scan", "done"} => org < off
  BY DEF LexerInv, LoopInv
<1>c. file' = file
  BY FileUnchanged
<1>d. ~AtEOF => off < Len(file)
  BY <1>a DEF AtEOF
<1>e. AtEOF => off = Len(file)
  BY DEF AtEOF
<1>f. ASSUME NEW s, NEW t, NEW start, NEW end, toks' = Append(toks, Tok(s, t, start, end))
      PROVE  Out(toks)' = Out(toks) \o One(t, s)
  <2> DEFINE tok == Tok(s, t, start, end)
  <2>1. toks'[Len(toks) + 1] = tok /\ Len(toks) + 1 \in DOMAIN toks'
    BY <1>a, <1>f
  <2>2. tok \in Token
    BY <1>a, <2>1
  <2>3. tok.t = t /\ tok.s = s
    BY DEF Tok
  <2> HIDE DEF tok
  <2>4. Out(Append(toks, tok)) = Out(toks) \o One(t, s)
    BY <1>a, <2>2, <2>3, OutAppend
  <2> QED
    BY <1>f, <2>4, Zenon DEF tok, Out
<1>g. toks' = toks => Out(toks)' = Out(toks) \o <<>>
  BY <1>a, OutSame, Zenon DEF Out
<1>s. pc \notin {"scan", "done"} => Frontier = org /\ Frontier < Len(file)
  BY <1>a, <1>b DEF Frontier
<1>t. pc = "scan" => Frontier = off
  BY DEF Frontier
<1>u. pc' \in {"scan", "done"} => Frontier' = off'
  BY DEF Frontier
<1>1. CASE Finish
  BY <1>1, <1>t, <1>u, NoCut DEF Finish
<1>2. ASSUME NEW mode, NEW S, mode \notin {"scan", "done"}, Enter(mode, S)
      PROVE  [T!Cut]_(T!tvars)
  BY <1>2, <1>t, NoCut DEF Enter, Frontier
<1>3. CASE EnterWord \/ EnterNumber \/ EnterComment \/ EnterString \/ EnterCoffee \/ EnterPair
  BY <1>2, <1>3 DEF EnterWord, EnterNumber, EnterComment, EnterString, EnterCoffee, EnterPair
<1>4. ASSUME NEW mode \in TextModes \union {"comment"}, NEW S, Continue(mode, S)
      PROVE  [T!Cut]_(T!tvars)
  BY <1>4, NoCut DEF Continue, Frontier, TextModes
<1>5. CASE MoreWord \/ MoreNumber \/ MoreComment \/ MoreString \/ MoreCoffee
  BY <1>4, <1>5, Zenon DEF MoreWord, MoreNumber, MoreComment, MoreString, MoreCoffee,
     TextModes
<1>6. CASE SkipBlank
  <2>1. /\ pc = "scan" /\ pc' = "scan" /\ file[off + 1] \in Blank /\ off' = off + 1
        /\ toks' = toks /\ off < Len(file)
    BY <1>6, <1>d DEF SkipBlank, Sees, Byte
  <2>2. T!LexemeEnd = off + 1
    BY <1>t, <2>1, Ends, Disjoint
  <2>3. T!TokensOf(off') = <<>>
    BY <1>t, <2>1, TokensAre, Zenon
  <2> QED
    BY <1>c, <1>g, <1>t, <1>u, <2>1, <2>2, <2>3, ACut
<1>7. CASE PushSymbol
  <2>1. /\ pc = "scan" /\ pc' = "scan" /\ file[off + 1] \in Symbols /\ off' = off + 1
        /\ toks' = Append(toks, Tok(NULL, SymbolType(file[off + 1]), off, off))
        /\ off < Len(file)
    BY <1>7, <1>d DEF PushSymbol, Sees, Byte
  <2>2. T!LexemeEnd = off + 1
    BY <1>t, <2>1, Ends, Disjoint
  <2>3. T!TokensOf(off') = One(SymbolType(file[off + 1]), NULL)
    BY <1>t, <2>1, TokensAre, Zenon
  <2>4. Out(toks)' = Out(toks) \o One(SymbolType(file[off + 1]), NULL)
    BY <1>f, <2>1, Zenon
  <2> QED
    BY <1>c, <1>t, <1>u, <2>1, <2>2, <2>3, <2>4, ACut
<1>8. CASE PushError
  <2>1. /\ pc = "scan" /\ pc' = "scan" /\ file[off + 1] \notin Known /\ off' = off + 1
        /\ toks' = Append(toks, Tok(NULL, "T_ERR", 0, 0)) /\ off < Len(file)
    BY <1>8, <1>d DEF PushError, Byte
  <2>2. T!LexemeEnd = off + 1
    <3>1. file[off + 1] \notin WordFirst \union Digit \union Pairs \union {"#", "\"", "@"}
      BY <2>1 DEF Known
    <3> QED
      BY <1>t, <2>1, <3>1, Ends
  <2>3. T!TokensOf(off') = One("T_ERR", NULL)
    BY <1>t, <2>1, TokensAre, Zenon
  <2>4. Out(toks)' = Out(toks) \o One("T_ERR", NULL)
    BY <1>f, <2>1, Zenon
  <2> QED
    BY <1>c, <1>t, <1>u, <2>1, <2>2, <2>3, <2>4, ACut
<1>r. ASSUME NEW S, RunOf(S), pc \notin {"scan", "done"}, ~Sees(S)
      PROVE  T!RunEnd(org + 1, S) = off
  <2>1. org + 1 \in Nat /\ off \in org + 1 .. Len(file) /\ (org + 1) + 1 = org + 2
    BY <1>a, <1>b, <1>r
  <2>2. off < Len(file) => file[off + 1] \notin S
    BY <1>r, <1>e DEF Sees, Byte
  <2>3. \A k \in (org + 1) + 1 .. off : file[k] \in S
    BY <1>r, <2>1 DEF RunOf
  <2> QED
    BY <1>a, <2>1, <2>2, <2>3, RunEndIs
<1>9. CASE EndWord
  <2>1. /\ pc = "word" /\ pc' \in {"scan", "done"} /\ ~Sees(WordRest) /\ off' = off
        /\ file[org + 1] \in WordFirst /\ RunOf(WordRest)
    BY <1>9, Zenon DEF EndWord, LexemeInv
  <2>2. T!LexemeEnd = off
    <3>1. Frontier = org /\ T!RunEnd(org + 1, WordRest) = off
      BY <1>r, <1>s, <2>1
    <3> QED
      BY <2>1, <3>1, Ends, Zenon
  <2> DEFINE w == WordType(SubSeq(file, org + 1, off))
  <2>3. T!TokensOf(off) = IF w = "IDENT" THEN One(w, org) ELSE One(w, NULL)
    BY <1>s, <2>1, TokensAre, Zenon
  <2>4. Out(toks)' = Out(toks) \o (IF w = "IDENT" THEN One(w, org) ELSE One(w, NULL))
    <3>1. CASE w = "IDENT"
      <4>1. toks' = Append(toks, Tok(org, w, org, off - 1))
        BY <1>9, <3>1, Zenon DEF EndWord, Word
      <4> QED
        BY <1>f, <3>1, <4>1, Zenon
    <3>2. CASE w # "IDENT"
      <4>1. toks' = Append(toks, Tok(NULL, w, off - KeywordLength(w), off - 1))
        BY <1>9, <3>2, Zenon DEF EndWord, Word
      <4> QED
        BY <1>f, <3>2, <4>1, Zenon
    <3> QED
      BY <3>1, <3>2
  <2> HIDE DEF w
  <2> QED
    BY <1>c, <1>s, <1>u, <2>1, <2>2, <2>3, <2>4, ACut
<1>10. CASE EndNumber
  <2>1. /\ pc = "num" /\ pc' \in {"scan", "done"} /\ ~Sees(NumRest) /\ off' = off
        /\ toks' = Append(toks, Tok(org, "NUM", org + 1, off - 1))
        /\ file[org + 1] \in Digit /\ RunOf(NumRest)
    BY <1>10 DEF EndNumber, LexemeInv
  <2>2. T!LexemeEnd = off
    <3>1. Frontier = org /\ T!RunEnd(org + 1, NumRest) = off
      BY <1>r, <1>s, <2>1
    <3> QED
      BY <2>1, <3>1, Ends, Zenon
  <2>3. T!TokensOf(off) = One("NUM", org)
    BY <1>s, <2>1, TokensAre, Zenon
  <2>4. Out(toks)' = Out(toks) \o One("NUM", org)
    BY <1>f, <2>1, Zenon
  <2> QED
    BY <1>c, <1>s, <1>u, <2>1, <2>2, <2>3, <2>4, ACut
<1>h. ASSUME NEW S, RunOf(S), pc \notin {"scan", "done"}, ~Sees(S),
             off' = IF AtEOF THEN off ELSE off + 1
      PROVE  T!Through(org + 1, S) = off'
  <2>1. T!RunEnd(org + 1, S) = off
    BY <1>h, <1>r
  <2>2. AtEOF <=> ~(off < Len(file))
    BY <1>a DEF AtEOF
  <2> QED
    BY <1>h, <2>1, <2>2, Zenon DEF T!Through
<1>11. CASE EndComment
  <2>1. /\ pc = "comment" /\ pc' = "scan" /\ ~Sees(STRING \ {"\n"}) /\ toks' = toks
        /\ off' = IF AtEOF THEN off ELSE off + 1
        /\ file[org + 1] = "#" /\ RunOf(STRING \ {"\n"})
    BY <1>11, Zenon DEF EndComment, LexemeInv
  <2>2. T!LexemeEnd = off'
    <3>1. Frontier = org /\ T!Through(org + 1, STRING \ {"\n"}) = off'
      BY <1>h, <1>s, <2>1
    <3> QED
      BY <2>1, <3>1, Ends, Zenon
  <2>3. T!TokensOf(off') = <<>>
    BY <1>s, <2>1, TokensAre
  <2> QED
    BY <1>c, <1>g, <1>s, <1>u, <2>1, <2>2, <2>3, ACut
<1>12. CASE EndString
  <2>1. /\ pc = "string" /\ pc' = "scan" /\ ~Sees(STRING \ {"\""})
        /\ toks' = Append(toks, Tok(org, "STRING", org, off' - 1))
        /\ off' = IF AtEOF THEN off ELSE off + 1
        /\ file[org + 1] = "\"" /\ RunOf(STRING \ {"\""})
    BY <1>12, Zenon DEF EndString, LexemeInv
  <2>2. T!LexemeEnd = off'
    <3>1. Frontier = org /\ T!Through(org + 1, STRING \ {"\""}) = off'
      BY <1>h, <1>s, <2>1
    <3> QED
      BY <2>1, <3>1, Ends, Zenon
  <2>3. T!TokensOf(off') = One("STRING", org)
    BY <1>s, <2>1, TokensAre, Zenon
  <2>4. Out(toks)' = Out(toks) \o One("STRING", org)
    BY <1>f, <2>1, Zenon
  <2> QED
    BY <1>c, <1>s, <1>u, <2>1, <2>2, <2>3, <2>4, ACut
<1>13. CASE EndCoffee
  <2>1. /\ pc = "coffee" /\ pc' = "scan" /\ ~Sees(WordFirst) /\ off' = off /\ off # Len(file)
        /\ toks' = Append(toks, Tok(org, "COFFEE", org, off - 1))
        /\ file[org + 1] = "@" /\ RunOf(WordFirst)
    BY <1>13 DEF EndCoffee, LexemeInv, Sees, AtEOF
  <2>2. T!LexemeEnd = off
    <3>1. Frontier = org /\ T!RunEnd(org + 1, WordFirst) = off
      BY <1>r, <1>s, <2>1
    <3> QED
      BY <2>1, <3>1, Ends, Zenon
  <2>3. T!TokensOf(off) = One("COFFEE", org)
    BY <1>s, <2>1, TokensAre, Zenon
  <2>4. Out(toks)' = Out(toks) \o One("COFFEE", org)
    BY <1>f, <2>1, Zenon
  <2> QED
    BY <1>c, <1>s, <1>u, <2>1, <2>2, <2>3, <2>4, ACut
<1>14. CASE LoseCoffee
  <2>1. /\ pc = "coffee" /\ pc' = "scan" /\ ~Sees(WordFirst) /\ off' = off /\ off = Len(file)
        /\ toks' = toks /\ file[org + 1] = "@" /\ RunOf(WordFirst)
    BY <1>14 DEF LoseCoffee, LexemeInv, Sees, AtEOF
  <2>2. T!LexemeEnd = off
    <3>1. Frontier = org /\ T!RunEnd(org + 1, WordFirst) = off
      BY <1>r, <1>s, <2>1
    <3> QED
      BY <2>1, <3>1, Ends, Zenon
  <2>3. T!TokensOf(off) = <<>>
    BY <1>s, <2>1, TokensAre, Zenon
  <2> QED
    BY <1>c, <1>g, <1>s, <1>u, <2>1, <2>2, <2>3, ACut
<1>15. CASE LongSymbol
  <2>1. /\ pc = "pair" /\ pc' = "scan" /\ off' = off + 1 /\ off < Len(file)
        /\ file[off + 1] = PairSecond(file[off])
        /\ toks' = Append(toks, Tok(NULL, LongType(file[off]), off - 1, off))
        /\ file[org + 1] \in Pairs /\ org + 1 = off
    BY <1>15, <1>d DEF LongSymbol, LexemeInv, Sees, Byte
  <2>2. /\ org + 2 = off' /\ org + 2 = off + 1 /\ file[org + 1] = file[off]
        /\ org + 1 < Len(file)
    BY <1>a, <2>1
  <2>3. T!LexemeEnd = org + 2
    <3>1. file[org + 2] = PairSecond(file[org + 1])
      BY <2>1, <2>2, Zenon
    <3> QED
      BY <1>s, <2>1, <2>2, <3>1, Ends, Zenon
  <2>4. T!TokensOf(off') = One(LongType(file[off]), NULL)
    <3>1. Frontier = org /\ off' = org + 2
      BY <1>s, <2>1, <2>2
    <3>2. T!TokensOf(org + 2) = One(LongType(file[org + 1]), NULL)
      BY <2>1, <3>1, LongToken
    <3> QED
      BY <2>2, <3>1, <3>2, Zenon
  <2>5. Out(toks)' = Out(toks) \o One(LongType(file[off]), NULL)
    BY <1>f, <2>1, Zenon
  <2> QED
    BY <1>c, <1>s, <1>u, <2>1, <2>2, <2>3, <2>4, <2>5, ACut
<1>16. CASE ShortSymbol
  <2>1. /\ pc = "pair" /\ pc' = "scan" /\ file[off + 1] # PairSecond(file[off]) /\ off < Len(file)
        /\ off' = off /\ file[org + 1] \in Pairs /\ org + 1 = off
    BY <1>16, <1>d, PairHasNext DEF ShortSymbol, LexemeInv, Sees, Byte
  <2>2. toks' = Append(toks, Tok(NULL, ShortType(file[off]), off' - 1, off' - 1))
    BY <1>16, Zenon DEF ShortSymbol
  <2>3. off # org + 2 /\ org + 2 = off + 1 /\ file[org + 1] = file[off]
    BY <1>a, <2>1
  <2>4. T!LexemeEnd = org + 1
    <3>1. file[org + 2] # PairSecond(file[org + 1])
      BY <2>1, <2>3, Zenon
    <3> QED
      BY <1>s, <2>1, <3>1, Ends, Zenon
  <2>5. T!TokensOf(off) = One(ShortType(file[off]), NULL)
    <3>1. Frontier = org
      BY <1>s, <2>1
    <3>2. T!TokensOf(off) = One(ShortType(file[org + 1]), NULL)
      <4>1. file[org + 1] \in Pairs
        BY <2>1
      <4>2. off # org + 2
        BY <2>3
      <4> QED
        BY <3>1, <4>1, <4>2, TokensAre
    <3> QED
      BY <2>3, <3>2, Zenon
  <2>6. Out(toks)' = Out(toks) \o One(ShortType(file[off]), NULL)
    BY <1>f, <2>2, Zenon
  <2> QED
    BY <1>c, <1>s, <1>u, <2>1, <2>3, <2>4, <2>5, <2>6, ACut
<1>17. CASE UNCHANGED vars
  BY <1>17, NoCut DEF vars, Frontier
<1> QED
  BY <1>1, <1>3, <1>5, <1>6, <1>7, <1>8, <1>9, <1>10, <1>11, <1>12, <1>13, <1>14, <1>15,
     <1>16, <1>17 DEF Next

(* lex() cuts a file, left to right, into the longest lexemes, and pushes  *)
(* for each the token Tokenizer says (lex.c:48), whatever loop it is in:   *)
(* provided no file ends in a symbol lex() looks beyond.                   *)
THEOREM ClosedFilesCutLexemes ==
  ASSUME \A f \in Inputs : ClosedFile(f)
  PROVE  Spec => T!Init /\ [][T!Cut]_(T!tvars)
<1>1. Init => T!Init
  BY DEF Init, T!Init
<1>2. LexerInv /\ LexerInv' /\ ClosedFile(file) /\ LexemeInv /\ [Next]_vars
        => LexemeInv' /\ [T!Cut]_(T!tvars)
  BY LexemeStep, CutStep
<1> QED
  BY <1>1, <1>2, LexemeInit, LexerInvariant, ClosedFiles, PTL DEF Spec

-----------------------------------------------------------------------------
(* What main() relies on, whatever the file: Kept(ts, lv, rd, fr) says of  *)
(* an array of tokens that the strings they own are in lv, are not the one *)
(* being read, and are each owned once, and that every IDENT owns one.     *)

Kept(ts, lv, rd, fr) ==
  LET owners == {i \in DOMAIN ts : ts[i].s # NULL}
  IN /\ \A i \in owners : ts[i].s \in lv \ rd
     /\ \A i, j \in owners : ts[i].s = ts[j].s => i = j
     /\ \A i \in owners : ts[i].s < fr
     /\ \A i \in DOMAIN ts : ts[i].t = "IDENT" => i \in owners

LEMMA KeptAdvance ==
  ASSUME NEW ts \in Seq(Token), NEW lv, NEW rd, NEW fr \in Nat, NEW fr2 \in Nat,
         Kept(ts, lv, rd, fr), fr <= fr2
  PROVE  Kept(ts, lv, rd, fr2)
<1>1. \A i \in DOMAIN ts : ts[i].s \in Int
  BY TextOrNull
<1> QED
  BY <1>1 DEF Kept

LEMMA KeptBegin ==
  ASSUME NEW ts \in Seq(Token), NEW lv, NEW fr \in Nat, Kept(ts, lv, {}, fr)
  PROVE  Kept(ts, lv \union {fr}, {fr}, fr)
<1>1. \A i \in DOMAIN ts : ts[i].s \in Int
  BY TextOrNull
<1> QED
  BY <1>1 DEF Kept

(* The string being read is freed, or forgotten. *)
LEMMA KeptFree ==
  ASSUME NEW ts \in Seq(Token), NEW lv, NEW o \in Nat, Kept(ts, lv, {o}, o)
  PROVE  Kept(ts, lv \ {o}, {}, o) /\ Kept(ts, lv, {}, o)
  BY DEF Kept

LEMMA KeptPush ==
  ASSUME NEW ts \in Seq(Token), NEW lv, NEW o \in lv, o \in Nat, NEW fr \in Nat, o < fr,
         Kept(ts, lv, {o}, o), NEW tok \in Token, tok.s = o
  PROVE  Kept(Append(ts, tok), lv, {}, fr)
<1> DEFINE ts2 == Append(ts, tok)
           n == Len(ts) + 1
<1>1. /\ DOMAIN ts2 = DOMAIN ts \union {n} /\ n \notin DOMAIN ts
      /\ ts2[n] = tok /\ \A i \in DOMAIN ts : ts2[i] = ts[i]
  OBVIOUS
<1>2. \A i \in DOMAIN ts : ts[i].s \in Int
  BY TextOrNull
<1>3. o # NULL
  BY DEF NULL
<1> HIDE DEF ts2, n
<1>4. {i \in DOMAIN ts2 : ts2[i].s # NULL} = {i \in DOMAIN ts : ts[i].s # NULL} \union {n}
  BY <1>1, <1>3
<1> QED
  BY <1>1, <1>2, <1>4 DEF Kept, ts2

LEMMA KeptPushBare ==
  ASSUME NEW ts \in Seq(Token), NEW lv, NEW rd, NEW fr,
         Kept(ts, lv, rd, fr), NEW tok \in Token, tok.s = NULL, tok.t # "IDENT"
  PROVE  Kept(Append(ts, tok), lv, rd, fr)
<1> DEFINE ts2 == Append(ts, tok)
<1>1. /\ DOMAIN ts2 = DOMAIN ts \union {Len(ts) + 1} /\ Len(ts) + 1 \notin DOMAIN ts
      /\ ts2[Len(ts) + 1] = tok /\ \A i \in DOMAIN ts : ts2[i] = ts[i]
  OBVIOUS
<1> HIDE DEF ts2
<1>2. {i \in DOMAIN ts2 : ts2[i].s # NULL} = {i \in DOMAIN ts : ts[i].s # NULL}
  BY <1>1
<1> QED
  BY <1>1, <1>2 DEF Kept, ts2

KeptInv ==
  /\ Kept(toks, live, Reading, Frontier)
  /\ pc \in TextModes => org \in live

LEMMA KeptInit == Init => KeptInv
  BY DEF Init, KeptInv, Kept, TextModes

(* No symbol and no keyword is an identifier. *)
LEMMA NoIdent ==
  /\ \A c \in Symbols : SymbolType(c) # "IDENT"
  /\ \A c \in Pairs : LongType(c) # "IDENT" /\ ShortType(c) # "IDENT"
<1>1. \A c \in Symbols : SymbolType(c) # "IDENT"
  BY DEF Symbols, SymbolType
<1>2. \A c \in Pairs : LongType(c) # "IDENT"
  BY SMTT(30) DEF Pairs, LongType
<1>3. \A c \in Pairs : ShortType(c) # "IDENT"
  BY SMTT(30) DEF Pairs, ShortType
<1> QED
  BY <1>1, <1>2, <1>3

LEMMA KeptStep ==
  ASSUME LexerInv, LexerInv', KeptInv, [Next]_vars
  PROVE  KeptInv'
<1>a. /\ file \in Seq(STRING) /\ off \in Nat /\ off' \in Nat /\ org \in Nat
      /\ off <= Len(file) /\ Len(file) \in Nat
      /\ toks \in Seq(Token) /\ toks' \in Seq(Token)
  BY DEF LexerInv, TypeOK
<1>b. pc \notin {"scan", "done"} => org < off
  BY DEF LexerInv, LoopInv
<1>c. pc = "scan" => Kept(toks, live, {}, off)
  BY DEF KeptInv, Reading, Frontier, TextModes
<1>d. pc \in TextModes => Kept(toks, live, {org}, org) /\ org \in live
  BY DEF KeptInv, Reading, Frontier, TextModes
<1>e. pc \in {"comment", "pair"} => Kept(toks, live, {}, org)
  BY DEF KeptInv, Reading, Frontier, TextModes
<1>f. ASSUME NEW s, NEW t, NEW start, NEW end, toks' = Append(toks, Tok(s, t, start, end))
      PROVE  /\ Tok(s, t, start, end) \in Token /\ Tok(s, t, start, end).s = s
             /\ Tok(s, t, start, end).t = t
  <2> DEFINE tok == Tok(s, t, start, end)
  <2>1. toks'[Len(toks) + 1] = tok /\ Len(toks) + 1 \in DOMAIN toks'
    BY <1>a, <1>f
  <2> QED
    BY <1>a, <2>1 DEF Tok
<1>g. ASSUME pc' \in {"scan", "done"}, Kept(toks', live', {}, off') PROVE KeptInv'
  BY <1>g DEF KeptInv, Reading, Frontier, TextModes
<1>1. CASE Finish
  BY <1>1, <1>c, <1>g DEF Finish
<1>2. CASE SkipBlank
  <2>1. Kept(toks, live, {}, off')
    BY <1>2, <1>a, <1>c, KeptAdvance DEF SkipBlank
  <2> QED
    BY <1>2, <1>g, <2>1 DEF SkipBlank
<1>3. ASSUME NEW mode \in TextModes, NEW S, Enter(mode, S)
      PROVE  KeptInv'
  <2>1. Kept(toks, live', {off}, off)
    BY <1>3, <1>a, <1>c, KeptBegin DEF Enter
  <2> QED
    BY <1>3, <2>1 DEF Enter, KeptInv, Reading, Frontier, TextModes
<1>4. ASSUME NEW mode \in {"comment", "pair"}, NEW S, Enter(mode, S)
      PROVE  KeptInv'
  BY <1>4, <1>c DEF Enter, KeptInv, Reading, Frontier, TextModes
<1>5. CASE EnterWord \/ EnterNumber \/ EnterComment \/ EnterString \/ EnterCoffee \/ EnterPair
  BY <1>3, <1>4, <1>5, Zenon DEF EnterWord, EnterNumber, EnterComment, EnterString,
     EnterCoffee, EnterPair, TextModes
<1>6. CASE PushSymbol \/ PushError
  <2>1. Kept(toks', live, {}, off)
    <3>1. PICK t, start, end : toks' = Append(toks, Tok(NULL, t, start, end)) /\ t # "IDENT"
      BY <1>6, NoIdent DEF PushSymbol, PushError, Sees
    <3> QED
      BY <1>6, <1>a, <1>c, <1>f, <3>1, KeptPushBare DEF PushSymbol, PushError
  <2>2. Kept(toks', live, {}, off')
    BY <1>6, <1>a, <2>1, KeptAdvance DEF PushSymbol, PushError
  <2> QED
    BY <1>6, <1>g, <2>2 DEF PushSymbol, PushError
<1>7. ASSUME NEW mode \in TextModes \union {"comment"}, NEW S, Continue(mode, S)
      PROVE  KeptInv'
  BY <1>7 DEF Continue, KeptInv, Reading, Frontier, TextModes
<1>8. CASE MoreWord \/ MoreNumber \/ MoreComment \/ MoreString \/ MoreCoffee
  BY <1>7, <1>8, Zenon DEF MoreWord, MoreNumber, MoreComment, MoreString, MoreCoffee,
     TextModes
<1>9. CASE EndWord
  <2>1. CASE WordType(Word) = "IDENT"
    <3>1. /\ toks' = Append(toks, Tok(org, "IDENT", org, off - 1))
          /\ live' = live /\ off' = off /\ pc' \in {"scan", "done"} /\ pc = "word"
      BY <1>9, <2>1, Zenon DEF EndWord
    <3>2. Kept(toks', live, {}, off)
      BY <1>a, <1>b, <1>d, <1>f, <3>1, KeptPush DEF TextModes
    <3> QED
      BY <1>g, <3>1, <3>2
  <2>2. CASE WordType(Word) # "IDENT"
    <3>1. /\ \E t, start, end : t # "IDENT" /\ toks' = Append(toks, Tok(NULL, t, start, end))
          /\ live' = live \ {org} /\ off' = off /\ pc' = "scan" /\ pc = "word"
      BY <1>9, <2>2, Zenon DEF EndWord
    <3>2. Kept(toks, live \ {org}, {}, org)
      BY <1>a, <1>d, <3>1, KeptFree DEF TextModes
    <3>3. Kept(toks', live \ {org}, {}, org)
      BY <1>a, <1>f, <3>1, <3>2, KeptPushBare
    <3>4. Kept(toks', live \ {org}, {}, off)
      <4>1. org <= off
        BY <1>a, <1>b, <3>1
      <4> QED
        BY <1>a, <3>3, <4>1, KeptAdvance
    <3> QED
      BY <1>g, <3>1, <3>4
  <2> QED
    BY <2>1, <2>2
<1>10. CASE EndNumber \/ EndString \/ EndCoffee
  <2>1. /\ \E t, start, end : toks' = Append(toks, Tok(org, t, start, end))
        /\ live' = live /\ off' \in {off, off + 1} /\ pc' \in {"scan", "done"}
        /\ pc \in TextModes
    BY <1>10, Zenon DEF EndNumber, EndString, EndCoffee, TextModes
  <2>2. org < off'
    BY <1>a, <1>b, <2>1 DEF TextModes
  <2>3. Kept(toks', live, {}, off')
    BY <1>a, <1>d, <1>f, <2>1, <2>2, KeptPush
  <2> QED
    BY <1>g, <2>1, <2>3
<1>11. CASE EndComment
  <2>1. off' \in {off, off + 1}
    BY <1>11 DEF EndComment
  <2>2. Kept(toks, live, {}, off')
    BY <1>11, <1>a, <1>b, <1>e, <2>1, KeptAdvance DEF EndComment
  <2> QED
    BY <1>11, <1>g, <2>2 DEF EndComment
<1>12. CASE LoseCoffee
  <2>1. pc \in TextModes /\ org <= off
    BY <1>12, <1>a, <1>b DEF LoseCoffee, TextModes
  <2>2. Kept(toks, live, {}, org)
    BY <1>a, <1>d, <2>1, KeptFree
  <2>3. Kept(toks, live, {}, off)
    BY <1>a, <2>1, <2>2, KeptAdvance
  <2> QED
    BY <1>12, <1>g, <2>3 DEF LoseCoffee
<1>13. CASE LongSymbol \/ ShortSymbol
  <2>1. org <= off' /\ pc = "pair" /\ pc' = "scan" /\ live' = live
    BY <1>13, <1>a, <1>b DEF LongSymbol, ShortSymbol
  <2>2. file[off] \in Pairs
    BY <2>1 DEF LexerInv, LoopInv
  <2>3. \E t, start, end : t # "IDENT" /\ toks' = Append(toks, Tok(NULL, t, start, end))
    BY <1>13, <2>2, NoIdent, Zenon DEF LongSymbol, ShortSymbol
  <2>4. Kept(toks', live, {}, org)
    BY <1>a, <1>e, <1>f, <2>1, <2>3, KeptPushBare
  <2>5. Kept(toks', live, {}, off')
    BY <1>a, <2>1, <2>4, KeptAdvance
  <2> QED
    BY <1>g, <2>1, <2>5
<1>14. CASE UNCHANGED vars
  BY <1>14 DEF vars, KeptInv, Reading, Frontier
<1> QED
  BY <1>1, <1>2, <1>5, <1>6, <1>8, <1>9, <1>10, <1>11, <1>12, <1>13, <1>14 DEF Next
=============================================================================
