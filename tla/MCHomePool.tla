----------------------------- MODULE MCHomePool -----------------------------
(* Pools of three servers, and the DEFAULT realm with one of them. *)
EXTENDS HomePool

CONSTANTS h1, h2, h3

PoolOf(type, virtual, fallback, wake, pinged) ==
  [type |-> type, servers |-> <<h1, h2, h3>>, default |-> <<h3, h1>>,
   virtual |-> virtual, realmFallback |-> fallback, wakeAll |-> wake,
   pinged |-> pinged]

\* Every type, with a virtual server, the DEFAULT realm or wake_all behind it.
MCPoolConfs ==
  {PoolOf(t, Fallback, FALSE, FALSE, {}) : t \in PoolTypes}
    \cup {PoolOf(t, NoHome, TRUE, FALSE, {}) : t \in PoolTypes}
    \cup {PoolOf(t, NoHome, FALSE, TRUE, {h1}) : t \in PoolTypes}
=============================================================================
