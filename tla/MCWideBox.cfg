SPECIFICATION Spec
CONSTANT IntBits = 4
INVARIANT InsertSeparates
