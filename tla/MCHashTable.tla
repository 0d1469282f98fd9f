----------------------------- MODULE MCHashTable ----------------------------
EXTENDS HashTable

\* Eight data with eight hashes, and two with one.
MCHashOf == (1 :> 6) @@ (2 :> 2) @@ (3 :> 13) @@ (4 :> 7) @@ (5 :> 0) @@ (6 :> 10) @@ (7 :> 15) @@ (8 :> 8)
OneHash == (1 :> 6) @@ (2 :> 6)
=============================================================================
