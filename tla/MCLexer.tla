------------------------------ MODULE MCLexer ------------------------------
(* Small instances of Lexer: every file over a few bytes, up to a length.  *)
EXTENDS Lexer, SequencesExt

(* A byte of every branch of lex(): a letter, a digit, a blank, the three  *)
(* openers, a pair symbol with its "=" and one that doubles, a one-byte    *)
(* symbol and a byte lex() does not know.                                  *)
MCBytes == {"a", "1", " ", "#", "\"", "@", "=", "+", ".", "(", "?"}
MCMaxBytes == 3

(* Letters and digits that spell keywords, words that begin like keywords, *)
(* and numbers that run into words.                                        *)
MCLetters == {"i", "f", "o", "r", "_", "1"}
MCMaxLetters == 4

MCStrings == SeqOf(MCBytes, MCMaxBytes) \union SeqOf(MCLetters, MCMaxLetters)

(* Text files, and files that end anywhere but in a pair symbol. *)
MCTextFiles == {Append(s, "\n") : s \in MCStrings}
MCClosedFiles == MCTextFiles \union {s \in MCStrings : ClosedFile(s)}

(* Files that may end in a pair symbol. *)
MCAnyFiles == SeqOf({"a", "+", "@", "1"}, 2)
=============================================================================
