SPECIFICATION Spec
CONSTANTS
    a = a
    b = b
    zero = zero
    one = one
    Word <- MCWord
    WordSize = 4
    XorOf <- MCXor
    Values <- MCValues
    MaxAdds = 3
    Texts <- MCTexts
    TextHash <- MCTextHash
    NameOf <- MCNameOf
    Pairs <- MCPairs
    Mix <- MCMix
    Kinds <- NewestPair
    MaxFails = 0
INVARIANTS
    HitIsExact
