CONSTANT Inputs <- MCSentences
SPECIFICATION Spec
INVARIANTS SentenceAccepted Climbs
CHECK_DEADLOCK FALSE
