CONSTANT Inputs <- MCArrays
SPECIFICATION Spec
INVARIANTS TypeOK OwnedOnce HeldOnce ExpressionsSucceed DepthBounded FieldsWritten SourceOrder
PROPERTY Terminates
CHECK_DEADLOCK FALSE
