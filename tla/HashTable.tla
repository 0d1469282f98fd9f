----------------------------- MODULE HashTable ------------------------------
(***************************************************************************)
(* The hash table of the dictionary, the users file and the packet list.   *)
(* One chain per bucket, kept in the order of the bit-reversed keys; when  *)
(* the table grows, the new buckets are left empty (Unset) and are cut off *)
(* the chain of their parent the first time they are looked at.            *)
(***************************************************************************)
EXTENDS Integers, Sequences, FiniteSets, TLC

CONSTANTS
    Data,           \* the data, numbers: ht->cmp() subtracts
    HashOf,         \* their hashes
    HashBits,       \* the bits of a hash: 32 in the code
    FirstBuckets,   \* FR_HASH_NUM_BUCKETS, a power of 2: 64 in the code
    MaxBuckets      \* bound: the table does not grow past it

ASSUME HashAssumption ==
    /\ Data \subseteq Nat /\ HashOf \in [Data -> 0 .. 2^HashBits - 1]
    /\ HashBits \in Nat /\ FirstBuckets \in Nat \ {0} /\ MaxBuckets \in Nat

Null == -1          \* &ht->null, the end of every chain
Unset == -2         \* a bucket that was never looked at
Refused == -3

VARIABLES
    buckets,        \* ht->buckets
    next,           \* the next entry of each datum that is in the table
    num_elements, next_grow,
    stored          \* history: what was inserted and not deleted

hashVars == <<buckets, next, num_elements, next_grow, stored>>

num_buckets == Cardinality(DOMAIN buckets)
bucket_of(k) == k % num_buckets

\* A table that an operation is working on.
Table == [b |-> buckets, n |-> next]

-----------------------------------------------------------------------------
\* reverse(), and parent_of(): the key without its highest bit.
reverse(k) ==
    LET r[i \in 0 .. HashBits] == IF i = 0 THEN 0 ELSE 2 * r[i - 1] + ((k \div 2^(i - 1)) % 2)
    IN  r[HashBits]

parent_of(k) ==
    IF k = 0 THEN 0 ELSE k - 2^(CHOOSE i \in 0 .. HashBits : 2^i <= k /\ k < 2^(i + 1))

\* The loop of fr_hash_table_fixup(): entries that belong to another bucket are
\* cut off, from there on, and hung into it.  last: where the pointer to cur is.
RECURSIVE Spread(_, _, _, _)
Spread(t, last, self, cur) ==
    IF cur = Null THEN t
    ELSE LET real == bucket_of(HashOf[cur])
             cut == IF last[1] = "bucket" THEN [t EXCEPT !.b[last[2]] = Null, !.b[real] = cur]
                                          ELSE [t EXCEPT !.n[last[2]] = Null, !.b[real] = cur]
             t1 == IF real = self THEN t ELSE cut
         IN  Spread(t1, <<"entry", cur>>, real, t1.n[cur])

RECURSIVE fr_hash_table_fixup(_, _)
fr_hash_table_fixup(t, entry) ==
    LET parent == parent_of(entry)
        t1 == IF t.b[parent] = Unset THEN fr_hash_table_fixup(t, parent) ELSE t
        t2 == Spread(t1, <<"bucket", parent>>, parent, t1.b[parent])
    IN  IF t2.b[entry] = Unset THEN [t2 EXCEPT !.b[entry] = Null] ELSE t2

Looked(entry) == IF buckets[entry] = Unset THEN fr_hash_table_fixup(Table, entry) ELSE Table

\* list_find(): the entry of d in the chain from cur, Null when there is none.
RECURSIVE list_find(_, _, _)
list_find(t, cur, d) ==
    LET mine == reverse(HashOf[d])
        its == reverse(HashOf[cur])
    IN  CASE cur = Null -> Null
          [] cur # Null /\ its = mine /\ d = cur -> cur
          [] cur # Null /\ its = mine /\ d > cur -> Null
          [] cur # Null /\ its > mine -> Null
          [] OTHER -> list_find(t, t.n[cur], d)

\* Where list_insert() puts d into the chain from cur: behind which entry (or
\* the head), or Refused when it meets d itself.
RECURSIVE Slot(_, _, _, _)
Slot(t, last, cur, d) ==
    LET mine == reverse(HashOf[d])
        its == reverse(HashOf[cur])
    IN  CASE cur = Null -> last
          [] cur # Null /\ its > mine -> last
          [] cur # Null /\ its = mine /\ d = cur -> Refused
          [] cur # Null /\ its = mine /\ d > cur -> cur
          [] OTHER -> Slot(t, cur, t.n[cur], d)

\* Mutant: an entry goes to the head of its chain.
HeadSlot(t, entry, d) ==
    IF Slot(t, Null, t.b[entry], d) = Refused THEN Refused ELSE Null

SlotOf(t, entry, d) == Slot(t, Null, t.b[entry], d)

Hang(t, entry, slot, d) ==
    IF slot = Null THEN [b |-> [t.b EXCEPT ![entry] = d], n |-> (d :> t.b[entry]) @@ t.n]
    ELSE [b |-> t.b, n |-> (d :> t.n[slot]) @@ [t.n EXCEPT ![slot] = d]]

\* list_delete()
Unhang(t, entry, d) ==
    LET rest == [e \in DOMAIN t.n \ {d} |-> IF t.n[e] = d THEN t.n[d] ELSE t.n[e]]
    IN  [b |-> [t.b EXCEPT ![entry] = IF @ = d THEN t.n[d] ELSE @], n |-> rest]

-----------------------------------------------------------------------------
HashInit ==
    /\ buckets = [i \in 0 .. FirstBuckets - 1 |-> IF i = 0 THEN Null ELSE Unset]
    /\ next = <<>>
    /\ num_elements = 0
    /\ next_grow = 2 * FirstBuckets + FirstBuckets \div 2
    /\ stored = {}

\* fr_hash_table_grow(), or malloc() says no.
Grown(b) == [i \in 0 .. 2 * Cardinality(DOMAIN b) - 1 |-> IF i \in DOMAIN b THEN b[i] ELSE Unset]

fr_hash_table_insert(d) ==
    LET entry == bucket_of(HashOf[d])
        t == Looked(entry)
        slot == SlotOf(t, entry, d)
        t1 == Hang(t, entry, slot, d)
        grows == num_elements + 1 >= next_grow
    IN  IF slot = Refused
        THEN buckets' = t.b /\ next' = t.n /\ UNCHANGED <<num_elements, next_grow, stored>>
        ELSE /\ next' = t1.n
             /\ num_elements' = num_elements + 1
             /\ stored' = stored \cup {d}
             /\ \/ grows /\ 2 * num_buckets <= MaxBuckets
                   /\ buckets' = Grown(t1.b) /\ next_grow' = 2 * next_grow
                \/ buckets' = t1.b /\ UNCHANGED next_grow

\* fr_hash_table_finddata(), and fr_hash_table_replace() of what is there.
fr_hash_table_find(d) ==
    LET t == Looked(bucket_of(HashOf[d]))
    IN  buckets' = t.b /\ next' = t.n /\ UNCHANGED <<num_elements, next_grow, stored>>

\* fr_hash_table_delete(), fr_hash_table_yank().
fr_hash_table_yank(d) ==
    LET entry == bucket_of(HashOf[d])
        t == Looked(entry)
        t1 == Unhang(t, entry, d)
    IN  /\ list_find(t, t.b[entry], d) # Null
        /\ buckets' = t1.b /\ next' = t1.n
        /\ num_elements' = num_elements - 1
        /\ stored' = stored \ {d}
        /\ UNCHANGED next_grow

\* fr_hash_table_walk(): every bucket is looked at, from the last to the first.
RECURSIVE Walked(_, _)
Walked(t, i) ==
    IF i < 0 THEN t ELSE Walked(IF t.b[i] = Unset THEN fr_hash_table_fixup(t, i) ELSE t, i - 1)

fr_hash_table_walk ==
    LET t == Walked(Table, num_buckets - 1)
    IN  buckets' = t.b /\ next' = t.n /\ UNCHANGED <<num_elements, next_grow, stored>>

HashNext ==
    \/ \E d \in Data : fr_hash_table_insert(d) \/ fr_hash_table_find(d) \/ fr_hash_table_yank(d)
    \/ fr_hash_table_walk

HashSpec == HashInit /\ [][HashNext]_hashVars

-----------------------------------------------------------------------------
\* What fr_hash_table_finddata() would find now.
Found == {d \in Data : LET t == Looked(bucket_of(HashOf[d])) IN list_find(t, t.b[bucket_of(HashOf[d])], d) = d}

\* The data of the chain of a bucket.
RECURSIVE Chain(_)
Chain(cur) == IF cur = Null THEN <<>> ELSE <<cur>> \o Chain(next[cur])

(* Every entry hangs in exactly one chain, and no bucket that was looked at     *)
(* misses an entry of its own: a walk meets each datum once (it frees each one *)
(* once in fr_hash_table_free()).                                               *)
ChainsAreDisjoint ==
    LET chain == [i \in DOMAIN buckets |-> IF buckets[i] = Unset THEN <<>> ELSE Chain(buckets[i])]
        Holds(i) == {chain[i][j] : j \in DOMAIN chain[i]}
    IN  /\ \A i, j \in DOMAIN buckets : i # j => Holds(i) \cap Holds(j) = {}
        /\ UNION {Holds(i) : i \in DOMAIN buckets} = DOMAIN next
        /\ \A i \in DOMAIN buckets : \A d \in Holds(i) : buckets[bucket_of(HashOf[d])] \in {Unset} \cup Holds(i)

(* A datum is found if and only if it was inserted and not deleted, whichever   *)
(* buckets were looked at between one growth of the table and the next, and it *)
(* is not inserted twice ("already in the table, can't insert it"); and it      *)
(* hangs in one chain.                                                          *)
StoredIsFound == Found = stored /\ num_elements = Cardinality(stored) /\ ChainsAreDisjoint
=============================================================================
