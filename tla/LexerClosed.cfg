CONSTANT Inputs <- MCClosedFiles
SPECIFICATION Spec
INVARIANTS TypeOK TextStringsOwned SpansOrdered
PROPERTIES NoRescan CutsLexemes Terminates
CHECK_DEADLOCK FALSE
