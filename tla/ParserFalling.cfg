CONSTANT Inputs <- MCSumsAndProducts
SPECIFICATION Spec
INVARIANT Climbs
CHECK_DEADLOCK FALSE
