SPECIFICATION Spec
CONSTANTS
    Texts <- Marked
INVARIANTS NotRewritten
