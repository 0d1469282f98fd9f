------------------------------ MODULE HomePool ------------------------------
(***************************************************************************)
(* home_server_ldb() of realms.cpp: the choice of a home server from the   *)
(* pool of a realm.  Servers go down and come back, and requests fill and  *)
(* leave them, between one choice and the next.  The loop over the pool is *)
(* written as in the code, with a set of outcomes where it asks            *)
(* fr_rand(), and compared with the rules of proxy.conf.                   *)
(***************************************************************************)
EXTENDS Integers, Sequences, FiniteSets

CONSTANTS
  Homes,           \* home servers
  Fallback,        \* the virtual server of a pool's "fallback"
  NoHome,          \* NULL
  PoolConfs,       \* configurations a run starts with
  MaxOutstanding,  \* max_outstanding
  Hashes           \* the values of fr_hash() looked at

PoolTypes == {"fail-over", "load-balance", "client-balance",
              "client-port-balance", "keyed-balance"}
PoolConf == [type : PoolTypes, servers : Seq(Homes) \ {<<>>}, default : Seq(Homes),
             virtual : {Fallback, NoHome}, realmFallback : BOOLEAN,
             wakeAll : BOOLEAN, pinged : SUBSET Homes]

ASSUME HomePoolAssumption ==
  /\ Fallback \notin Homes /\ NoHome \notin Homes \cup {Fallback}
  /\ MaxOutstanding \in Nat /\ Hashes \subseteq Nat /\ PoolConfs \subseteq PoolConf

VARIABLES
  pool_conf,              \* the realm's pool, the DEFAULT realm's, realm_config
  home_state,             \* home->state
  currently_outstanding   \* home->currently_outstanding

poolVars == <<pool_conf, home_state, currently_outstanding>>

\* What a choice depends on in a request: the hash of its source address or
\* of its Load-Balance-Key, whether it has one, its code, and the server it
\* came from when it was read from a detail file.
Requests == [hash : Hashes, hasKey : BOOLEAN, code : {"auth", "acct", "coa"},
             from : Homes \cup {NoHome}]

----------------------------------------------------------------------------
(***************************************************************************)
(* Where the loop starts.  For client-port-balance the result of           *)
(* fr_hash_update() is dropped, and the port has no part in it.            *)
(***************************************************************************)
Start(type, n, r) ==
  IF \/ type \in {"client-balance", "client-port-balance"}
     \/ type = "keyed-balance" /\ r.hasKey
  THEN r.hash % n
  ELSE 0

MayTake(home, r) ==
  /\ home_state[home] # "dead"
  /\ currently_outstanding[home] < MaxOutstanding
  /\ ~(r.code = "acct" /\ r.from = home)

\* Of the server found so far and the next one, the less busy; at a tie,
\* one is drawn.
LessBusy(x, taken) ==
  LET now == currently_outstanding[x.found]
      new == currently_outstanding[taken.found]
  IN  (IF new <= now THEN {taken} ELSE {}) \cup (IF new >= now THEN {x} ELSE {})

\* Mutant: a zombie is taken like a live server.
TurnTakesZombie(type, x, home, r) ==
  LET taken == [x EXCEPT !.found = home]
  IN  IF (x.found # NoHome /\ type # "load-balance") \/ ~MayTake(home, r) THEN {x}
      ELSE IF x.found = NoHome THEN {taken} ELSE LessBusy(x, taken)
\* One turn of the loop: what found and zombie may be after it.
Turn(type, x, home, r) ==
  LET taken == [x EXCEPT !.found = home]
  IN  IF (x.found # NoHome /\ type # "load-balance") \/ ~MayTake(home, r) THEN {x}
      ELSE IF home_state[home] = "zombie"
           THEN {[x EXCEPT !.zombie = IF @ = NoHome THEN home ELSE @]}
           ELSE IF x.found = NoHome THEN {taken} ELSE LessBusy(x, taken)

\* What found and zombie may be after each number of turns.
Turns(type, servers, start, r) ==
  LET n == Len(servers)
      after[count \in 0..n] ==
        IF count = 0
        THEN {[found |-> NoHome, zombie |-> NoHome]}
        ELSE UNION {Turn(type, x, servers[((start + count - 1) % n) + 1], r) :
                      x \in after[count - 1]}
  IN  after

Loop(type, servers, start, r) == Turns(type, servers, start, r)[Len(servers)]

\* The loop, then the zombie as a last resort, then the fallback.
Chosen(type, servers, virtual, r) ==
  {IF x.found # NoHome THEN x.found
   ELSE IF x.zombie # NoHome THEN x.zombie
   ELSE virtual : x \in Loop(type, servers, Start(type, Len(servers), r), r)}

\* The servers that are woken if all are dead, in the order of the pool.
Wakeable(servers) ==
  SelectSeq(servers, LAMBDA h : home_state[h] = "dead" /\ h \notin pool_conf.pinged)

(***************************************************************************)
(* home_server_ldb(): the server, and those marked alive on the way.  The  *)
(* DEFAULT realm has a pool for authentication and for accounting, of type *)
(* fail-over and without a fallback here; it does not fall back again.     *)
(***************************************************************************)
home_server_ldb(r) ==
  LET c == pool_conf
      w == IF c.realmFallback \/ ~c.wakeAll THEN <<>> ELSE Wakeable(c.servers)
      Last == IF c.realmFallback /\ r.code # "coa" /\ c.default # <<>>
              THEN Chosen("fail-over", c.default, NoHome, r) ELSE {NoHome}
  IN  UNION {CASE h # NoHome -> {[home |-> h, woken |-> {}]}
               [] h = NoHome /\ w # <<>> ->
                    {[home |-> w[1], woken |-> {w[i] : i \in DOMAIN w}]}
               [] OTHER -> {[home |-> d, woken |-> {}] : d \in Last} :
             h \in Chosen(c.type, c.servers, c.virtual, r)}

----------------------------------------------------------------------------
\* A request is proxied to what home_server_ldb() returns; a virtual server
\* is not counted.
Proxy(r) ==
  \E o \in home_server_ldb(r) :
    /\ home_state' = [h \in Homes |-> IF h \in o.woken THEN "alive" ELSE home_state[h]]
    /\ currently_outstanding' =
         [h \in Homes |-> currently_outstanding[h] + IF h = o.home THEN 1 ELSE 0]
    /\ \A h \in Homes : currently_outstanding'[h] <= MaxOutstanding + 1
    /\ UNCHANGED pool_conf

\* remove_from_proxy_hash() for a request that was sent to the server.
Leaves(h) ==
  /\ currently_outstanding[h] > 0
  /\ currently_outstanding' = [currently_outstanding EXCEPT ![h] = @ - 1]
  /\ UNCHANGED <<pool_conf, home_state>>

\* HomeServer says when: a server turns zombie, dies or comes back.
StateChanges(h) ==
  /\ \E s \in {"alive", "zombie", "dead"} \ {home_state[h]} :
       home_state' = [home_state EXCEPT ![h] = s]
  /\ UNCHANGED <<pool_conf, currently_outstanding>>

PoolInit ==
  /\ pool_conf \in PoolConfs
  /\ home_state = [h \in Homes |-> "alive"]
  /\ currently_outstanding = [h \in Homes |-> 0]

PoolNext ==
  \/ \E r \in Requests : Proxy(r)
  \/ \E h \in Homes : Leaves(h) \/ StateChanges(h)

PoolSpec == PoolInit /\ [][PoolNext]_poolVars

----------------------------------------------------------------------------
PoolTypeOK ==
  /\ pool_conf \in PoolConf
  /\ home_state \in [Homes -> {"alive", "zombie", "dead"}]
  /\ currently_outstanding \in [Homes -> 0..(MaxOutstanding + 1)]

Alive(r) == {i \in DOMAIN pool_conf.servers :
               MayTake(pool_conf.servers[i], r)
               /\ home_state[pool_conf.servers[i]] = "alive"}

(***************************************************************************)
(* The type of pool whose rule in proxy.conf the choice for a request      *)
(* keeps.  It is not always the pool's own: "If there is no                *)
(* Load-Balance-Key in the control items, the load balancing method is     *)
(* identical to load-balance" (proxy.conf:523-524), but it is fail-over,   *)
(* and client-port-balance, "by hashing the source IP address and source   *)
(* port" (506-507), leaves the port out and is client-balance.             *)
(***************************************************************************)
ActsAs(r) ==
  CASE pool_conf.type = "keyed-balance" /\ ~r.hasKey -> "fail-over"
    [] pool_conf.type = "client-port-balance" -> "client-balance"
    [] OTHER -> pool_conf.type

\* Where the rules of proxy.conf begin to look: the first server of the list, or
\* "server = (hash % num_servers_in_pool)".
Origin(type, n, r) == IF type \in {"client-balance", "keyed-balance"} THEN r.hash % n ELSE 0

(***************************************************************************)
(* The loop finds what proxy.conf says of the type it acts as, whatever    *)
(* was tried before: as long as a live server that is not busy is in the   *)
(* pool, it is one of the least busy ("load-balance"), any of which may be *)
(* chosen, or else the first from where the hash says ("the next one in    *)
(* the list is used").                                                     *)
(***************************************************************************)
LoopFindsBest ==
  \A r \in Requests :
    LET s == pool_conf.servers
        n == Len(s)
        b == Origin(ActsAs(r), n, r)
        Dist(i) == (i - 1 + n - b) % n
        best == IF ActsAs(r) = "load-balance"
                THEN {i \in Alive(r) : \A j \in Alive(r) :
                        currently_outstanding[s[i]] <= currently_outstanding[s[j]]}
                ELSE {i \in Alive(r) : \A j \in Alive(r) : Dist(i) <= Dist(j)}
    IN  Alive(r) # {} =>
          {o.home : o \in home_server_ldb(r)} = {s[i] : i \in best}

(***************************************************************************)
(* max_outstanding is a limit on what is sent to a server, over any order  *)
(* of requests, answers, deaths and revivals, except that wake_all marks a *)
(* dead server alive and uses it without a look at its count.              *)
(***************************************************************************)
NeverTooBusy ==
  ~pool_conf.wakeAll => \A h \in Homes : currently_outstanding[h] <= MaxOutstanding

\* home_server_ldb() chooses the best server by the rule of proxy.conf for the
\* type of the pool, or for the type it acts as where it leaves that rule, and
\* none that is at max_outstanding.
ChoiceIsRight == PoolTypeOK /\ LoopFindsBest /\ NeverTooBusy

=============================================================================
