SPECIFICATION Spec
CONSTANTS
    Texts <- AllTexts
INVARIANTS CutsComments Settled WordsKept
