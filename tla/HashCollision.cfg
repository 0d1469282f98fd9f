CONSTANTS
    Data = {1, 2}
    HashOf <- OneHash
    HashBits = 4
    FirstBuckets = 1
    MaxBuckets = 2
SPECIFICATION HashSpec
INVARIANT StoredIsFound
