\* The prefix has a character of two bytes, as every one outside ASCII has.
CONSTANTS
    Char = {"a", "b", "c", "d", "p", "q", "z", "/"}
    Width <- TwoBytes
    Name <- Names
    Prefix <- OfP
    Delimiter = "/"
    PageSize = 2
    MaxFailures = 0
SPECIFICATION Spec
INVARIANT StableKeysListed
