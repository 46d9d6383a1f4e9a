CONSTANT Inputs <- MCAnyFiles
SPECIFICATION Spec
PROPERTY NoRescan
CHECK_DEADLOCK FALSE
