------------------------------- MODULE MCSds -------------------------------
(* A small instance of Sds: headers that overflow after 2, 4, 8 and 16     *)
(* bytes instead of 2^5, 2^8, 2^16 and 2^32, and 8 bits of long long.      *)
EXTENDS SdsLists, SequencesExt

MCLimit == [t \in Types |-> <<2, 4, 8, 16, 1000>>[t + 1]]
MCTexts == {<<>>, <<32>>, <<NUL>>, <<32, NUL, 97>>}
MCLines == SeqOf({32, 97, 39}, 5) \union {<<34, 97, 92>>, <<34, 32, 34>>, <<34, 97, 34, 97>>} \union
           SeqOf({32, 97, 11}, 4)
MCSeps == {<<32>>, <<97>>, <<32, NUL>>}
MCCsets == {{}, {32}}
MCIndexes == {-9, -2, 1, 9}
MCValues == -128 .. 127
MCSpecial == {NUL, 7, 10, 32, 34, 39, 92, 97, 120, 255}
MCReprs == SeqOf(MCSpecial, 1) \union {<<92, c>> : c \in MCSpecial} \union {<<c, 97>> : c \in MCSpecial}
MCFmts == {[len |-> 0, items |-> <<>>],
           [len |-> 1, items |-> <<<<32>>>>],
           [len |-> 2, items |-> <<<<32, 32, 97>>>>],
           [len |-> 2, items |-> <<<<32>>, <<>>>>]}
=============================================================================
