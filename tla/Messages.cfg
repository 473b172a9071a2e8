\* Two requests, each on the heap or in one of two arenas, and room for a User
\* that belongs to the program; two responses.
SPECIFICATION Spec
CONSTANTS
    Addresses = {a1, a2, a3}
    Requests = {r1, r2}
    Responses = {s1, s2}
    Arenas = {arena1, arena2}
    Heap = heap
    Values = {v, w}
    Size <- MCSize
    Default = default
    None = None
SYMMETRY MessageSymmetry
INVARIANTS HasBitConsistency  MergeIsConcatenation
