SPECIFICATION Spec
CONSTANTS
    Size = 11
    WORD = 4
    FILL = FILL
    HEX_DIGITS = 2
    Characters <- MCCharacters
    Formats <- MCFormats
    Arguments <- MCArguments
CHECK_DEADLOCK FALSE
INVARIANTS MemoryIsCopied PrintfPrints
