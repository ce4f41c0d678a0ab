SPECIFICATION DecoderSpec
CONSTANTS
    Alphabet = {" ", "m", ".", "/", "'", "1"}
    MaxLength = 6
    Inputs <- AllInputs
    HardenedStart = 10
    MaxComponents = 2
CHECK_DEADLOCK FALSE
INVARIANT DecodesWholePath
