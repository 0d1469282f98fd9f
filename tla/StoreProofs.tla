---------------------------- MODULE StoreProofs -----------------------------
(***************************************************************************)
(* What the server keeps for the NASes.  No address of a pool is given to  *)
(* two users: of a pool in SQL, for every number of addresses, users and   *)
(* servers on one database, and every lease duration; and of a pool in the *)
(* two files of rlm_ippool, for every number of ports, addresses and       *)
(* callers, over a crash.  The login records of rlm_radutmp are what the   *)
(* NASes have said, for every number of ports and sessions, and however    *)
(* many packets are on their way.                                          *)
(***************************************************************************)
EXTENDS SqlIpPool, IpPool, Radutmp, FiniteSetTheorems, SequenceTheorems, WellFoundedInduction, TLAPS

NasNames == {"", "nas1", "nas2"}
Row == [nas: NasNames, user: PoolUsers \cup {NoUser}, expiry: 0 .. MaxNow + LeaseDuration]
Table == {r \in [PoolAddrs -> Row] : \A a \in PoolAddrs : r[a].expiry = 0 <=> r[a].user = NoUser}
JobRecord ==
    [kind: {"idle", "allocate", "renew", "stop", "again", "on"},
     step: {"", "begin", "clear", "find", "update", "work", "commit"},
     user: PoolUsers \cup {NoUser}, nas: NasNames, addr: PoolAddrs \cup {NoAddr}, tx: BOOLEAN]
HeldRecord == [addr: PoolAddrs \cup {NoAddr}, nas: NasNames, until: Nat]

\* A server's packet, and where its statements are.
JobOK(j) ==
    /\ j \in JobRecord
    /\ j.kind = "idle" => j = NoJob
    /\ j.kind # "idle" => j.nas \in sqlip_conf.nases
    /\ j.kind \in {"allocate", "renew", "stop", "again"} => j.user \in PoolUsers
    /\ j.kind = "renew" => j.addr \in PoolAddrs
    /\ j.step = "begin" => ~j.tx
    /\ j.step \in {"clear", "find", "update"} => j.kind = "allocate"
    /\ j.step = "work" => j.kind \in {"renew", "stop", "again", "on"}

HeldOK(h) == h \in HeldRecord /\ (h # NotHeld => h.addr \in PoolAddrs /\ h.nas \in sqlip_conf.nases)
LastOK == pool_last \in [PoolUsers -> HeldRecord] /\ \A u \in PoolUsers : HeldOK(pool_last[u])

\* What holds with failing statements and lost connections, too.
Typed ==
    /\ sqlip_conf \in SqlPoolConf
    /\ pool_now \in 1 .. MaxNow
    /\ radippool \in Table /\ pool_before \in Table
    /\ pool_lock \in PoolServers \cup {NoServer}
    /\ pool_lock # NoServer => pool_job[pool_lock].tx
    /\ pool_job \in [PoolServers -> JobRecord]
    /\ \A s \in PoolServers : JobOK(pool_job[s])
    /\ pool_held \in [PoolUsers -> HeldRecord]
    /\ \A u \in PoolUsers : HeldOK(pool_held[u])
    /\ LastOK

Regular == Cardinality(sqlip_conf.nases) <= 1 /\ ~sqlip_conf.faults /\ ~sqlip_conf.slow

\* A user's session has one packet at a time.
Own(j) == j.kind # "idle" /\ j.kind # "again"
OneJob ==
    \A s, t \in PoolServers :
        Own(pool_job[s]) /\ Own(pool_job[t]) /\ pool_job[s].user = pool_job[t].user => s = t

\* The row of an address says who has it, as long as the lease lasts and no Stop
\* of an earlier session came.
RowIs(u, h) ==
    /\ radippool[h.addr].user = u /\ radippool[h.addr].nas = h.nas
    /\ radippool[h.addr].expiry >= h.until
Backed ==
    \A u \in PoolUsers \ pool_again :
        pool_held[u] # NotHeld /\ pool_held[u].until >= pool_now => RowIs(u, pool_held[u])

\* What the packets in progress have found, and will still find.
Working(s, j) ==
    /\ j.kind \in {"allocate", "stop"} => pool_held[j.user] = NotHeld
    /\ j.kind = "renew" => /\ pool_held[j.user] # NotHeld /\ pool_held[j.user].until >= pool_now
                           /\ pool_held[j.user].addr = j.addr /\ pool_held[j.user].nas = j.nas
    /\ j.kind = "on" => /\ \A u \in PoolUsers : pool_held[u] = NotHeld
                        /\ \A t \in PoolServers : t # s => ~Own(pool_job[t])
    /\ j.kind = "again" => j.user \in pool_again
    /\ j.kind # "idle" /\ j.step # "begin" => j.tx
    /\ j.step \in {"find", "update", "commit"} => pool_lock = s
    /\ j.step = "find" => \A a \in PoolAddrs : radippool[a].expiry # 0 => radippool[a].expiry >= pool_now
    /\ j.kind = "allocate" /\ j.step \in {"begin", "clear", "find"} => j.addr = NoAddr
    /\ j.step = "update" => j.addr \in PoolAddrs /\ radippool[j.addr].expiry = 0
    /\ j.step = "commit" /\ j.kind \in {"allocate", "renew"} /\ j.addr # NoAddr /\ j.user \notin pool_again =>
         RowIs(j.user, [addr |-> j.addr, nas |-> j.nas, until |-> pool_now + LeaseDuration])

\* Where one NAS has the pool, nothing fails, and no lease ends in between.
Exact ==
    /\ \A a \in PoolAddrs : radippool[a].expiry # 0 => radippool[a].nas \in sqlip_conf.nases
    /\ \A u \in PoolUsers : pool_held[u].until <= pool_now + LeaseDuration
    /\ OneJob
    /\ Backed
    /\ \A s \in PoolServers : Working(s, pool_job[s])

\* The inductive invariant.
SqlPoolInv == Typed /\ (Regular => Exact)

-----------------------------------------------------------------------------
(***************************************************************************)
(* The types, with failing statements too.                                 *)
(***************************************************************************)
LEMMA Free == FreeTable \in Table /\ FreeRow \in Row /\ FreeRow.expiry = 0 /\ FreeRow.user = NoUser
  <1>1. 0 \in 0 .. MaxNow + LeaseDuration
    BY SqlIpPoolAssumption
  <1>2. FreeRow \in Row /\ FreeRow.expiry = 0 /\ FreeRow.user = NoUser
    BY <1>1 DEF FreeRow, Row, NasNames
  <1> QED
    BY <1>2 DEF FreeTable, Table

LEMMA Idle == NoJob \in JobRecord /\ NoJob.kind = "idle" /\ NoJob.step = "" /\ NoJob.tx = FALSE /\ NoJob.nas = ""
              /\ NotHeld \in HeldRecord /\ NotHeld.nas = "" /\ NotHeld.until = 0 /\ NotHeld.addr = NoAddr
  BY DEF NoJob, NotHeld, JobRecord, HeldRecord, NasNames

LEMMA Rows ==
    ASSUME NEW r \in Table, NEW a \in PoolAddrs
    PROVE  /\ r[a] \in Row /\ r[a].expiry \in 0 .. MaxNow + LeaseDuration /\ r[a].nas \in NasNames
           /\ r[a].user \in PoolUsers \cup {NoUser} /\ (r[a].expiry = 0 <=> r[a].user = NoUser)
  BY DEF Table, Row

LEMMA Now ==
    ASSUME pool_now \in 1 .. MaxNow
    PROVE  pool_now + LeaseDuration \in 0 .. MaxNow + LeaseDuration /\ pool_now + LeaseDuration # 0
  BY SqlIpPoolAssumption

\* Each statement leaves a table.
LEMMA Tables ==
    ASSUME Typed, NEW r \in Table, NEW j, JobOK(j)
    PROVE  /\ AllocateClear(r, j.nas) \in Table
           /\ j.step = "update" => AllocateUpdate(r, j.addr, j.nas, j.user) \in Table
           /\ j.kind = "renew" => RenewLease(r, j) \in Table
           /\ StopClear(r, j) \in Table
           /\ OnClear(r, j) \in Table
  <1>0. pool_now + LeaseDuration \in 0 .. MaxNow + LeaseDuration /\ pool_now + LeaseDuration # 0
    BY Now DEF Typed
  <1>2. AllocateClear(r, j.nas) \in Table
    <2> DEFINE t == AllocateClear(r, j.nas)
    <2>1. t = [a \in PoolAddrs |-> t[a]]
      BY DEF AllocateClear
    <2>2. \A a \in PoolAddrs : t[a] = FreeRow \/ t[a] = r[a]
      BY DEF AllocateClear
    <2> HIDE DEF t
    <2>3. \A a \in PoolAddrs : t[a] \in Row /\ (t[a].expiry = 0 <=> t[a].user = NoUser)
      BY <2>2, Rows, Free
    <2>9. t \in [PoolAddrs -> Row]
      BY <2>1, <2>3
    <2> QED
      BY <2>3, <2>9 DEF Table, t
  <1>3. ASSUME j.step = "update" PROVE AllocateUpdate(r, j.addr, j.nas, j.user) \in Table
    <2> DEFINE t == AllocateUpdate(r, j.addr, j.nas, j.user)
               n == [nas |-> j.nas, user |-> j.user, expiry |-> pool_now + LeaseDuration]
    <2>1. t = [a \in PoolAddrs |-> t[a]]
      BY DEF AllocateUpdate
    <2>2. \A a \in PoolAddrs : t[a] = n \/ t[a] = r[a]
      BY DEF AllocateUpdate
    <2>3. j.user \in PoolUsers /\ j.nas \in NasNames
      BY <1>3 DEF JobOK, JobRecord
    <2>4. n \in Row /\ n.expiry # 0 /\ n.user # NoUser
      BY <1>0, <2>3, SqlIpPoolAssumption DEF Row
    <2> HIDE DEF t, n
    <2>5. \A a \in PoolAddrs : t[a] \in Row /\ (t[a].expiry = 0 <=> t[a].user = NoUser)
      BY <2>2, <2>4, Rows
    <2>9. t \in [PoolAddrs -> Row]
      BY <2>1, <2>5
    <2> QED
      BY <2>5, <2>9 DEF Table, t
  <1>4. ASSUME j.kind = "renew" PROVE RenewLease(r, j) \in Table
    <2> DEFINE t == RenewLease(r, j)
    <2>1. t = [a \in PoolAddrs |-> t[a]]
      BY DEF RenewLease
    <2>2. ASSUME NEW a \in PoolAddrs
          PROVE  t[a] \in Row /\ (t[a].expiry = 0 <=> t[a].user = NoUser)
      <3>0. j.user # NoUser
        BY <1>4, SqlIpPoolAssumption DEF JobOK
      <3>1. CASE IsLeaseOf(r, a, j)
        <4> DEFINE x == r[a]
                   e == pool_now + LeaseDuration
        <4>1. t[a] = [x EXCEPT !.expiry = e]
          BY <3>1 DEF RenewLease
        <4>2. x \in Row /\ x.user = j.user
          BY <3>1, Rows DEF IsLeaseOf
        <4> HIDE DEF x, e, t
        <4>3. t[a] \in Row /\ t[a].expiry = e /\ t[a].user = x.user
          BY <1>0, <4>1, <4>2 DEF Row, e
        <4> QED
          BY <1>0, <3>0, <4>2, <4>3 DEF e
      <3>2. CASE ~IsLeaseOf(r, a, j)
        BY <3>2, Rows DEF RenewLease
      <3> QED
        BY <3>1, <3>2
    <2> HIDE DEF t
    <2>3. \A a \in PoolAddrs : t[a] \in Row /\ (t[a].expiry = 0 <=> t[a].user = NoUser)
      BY <2>2
    <2>9. t \in [PoolAddrs -> Row]
      BY <2>1, <2>3
    <2> QED
      BY <2>3, <2>9 DEF Table, t
  <1>5. StopClear(r, j) \in Table
    <2> DEFINE t == StopClear(r, j)
    <2>1. t = [a \in PoolAddrs |-> t[a]]
      BY DEF StopClear
    <2>2. \A a \in PoolAddrs : t[a] = FreeRow \/ t[a] = r[a]
      BY DEF StopClear
    <2> HIDE DEF t
    <2>3. \A a \in PoolAddrs : t[a] \in Row /\ (t[a].expiry = 0 <=> t[a].user = NoUser)
      BY <2>2, Rows, Free
    <2>9. t \in [PoolAddrs -> Row]
      BY <2>1, <2>3
    <2> QED
      BY <2>3, <2>9 DEF Table, t
  <1>6. OnClear(r, j) \in Table
    <2> DEFINE t == OnClear(r, j)
    <2>1. t = [a \in PoolAddrs |-> t[a]]
      BY DEF OnClear
    <2>2. \A a \in PoolAddrs : t[a] = FreeRow \/ t[a] = r[a]
      BY DEF OnClear
    <2> HIDE DEF t
    <2>3. \A a \in PoolAddrs : t[a] \in Row /\ (t[a].expiry = 0 <=> t[a].user = NoUser)
      BY <2>2, Rows, Free
    <2>9. t \in [PoolAddrs -> Row]
      BY <2>1, <2>3
    <2> QED
      BY <2>3, <2>9 DEF Table, t
  <1> QED
    BY <1>2, <1>3, <1>4, <1>5, <1>6

\* A step that changes the packet of one server.
LEMMA OneServer ==
    ASSUME Typed, NEW s \in PoolServers, NEW j, JobOK(j), pool_job' = [pool_job EXCEPT ![s] = j],
           sqlip_conf' = sqlip_conf, pool_now' = pool_now, radippool' \in Table, pool_before' \in Table,
           pool_lock' \in PoolServers \cup {NoServer},
           pool_lock' # NoServer => IF pool_lock' = s THEN j.tx ELSE pool_lock' = pool_lock,
           pool_held' \in [PoolUsers -> HeldRecord], \A u \in PoolUsers : HeldOK(pool_held'[u]),
           pool_last' = pool_last \/ LastOK'
    PROVE  Typed' /\ \A t \in PoolServers : pool_job'[t] = IF t = s THEN j ELSE pool_job[t]
  <1>1. j \in JobRecord /\ pool_job \in [PoolServers -> JobRecord]
    BY DEF JobOK, Typed
  <1>2. pool_job' \in [PoolServers -> JobRecord] /\ \A t \in PoolServers : pool_job'[t] = IF t = s THEN j ELSE pool_job[t]
    BY <1>1
  <1>3. \A k : (JobOK(k)' <=> JobOK(k)) /\ (HeldOK(k)' <=> HeldOK(k))
    BY DEF JobOK, HeldOK
  <1>4. \A t \in PoolServers : JobOK(pool_job'[t])
    BY <1>2 DEF Typed
  <1>5. pool_lock' # NoServer => pool_job'[pool_lock'].tx
    BY <1>2 DEF Typed
  <1>6. LastOK'
    BY <1>3 DEF Typed, LastOK
  <1> QED
    BY <1>2, <1>3, <1>4, <1>5, <1>6 DEF Typed

LEMMA TouchLemma ==
    ASSUME Typed, NEW s \in PoolServers, TouchTable(s)
    PROVE  /\ pool_before' \in Table /\ pool_lock' \in PoolServers \cup {NoServer}
           /\ pool_lock' = IF pool_job[s].tx THEN s ELSE NoServer
           /\ pool_lock \in {NoServer, s}
  BY DEF Typed, TouchTable

LEMMA EndLemma ==
    ASSUME Typed, NEW s \in PoolServers, EndTransaction(s)
    PROVE  /\ pool_before' \in Table /\ pool_lock' \in PoolServers \cup {NoServer}
           /\ pool_lock' = (IF pool_lock = s THEN NoServer ELSE pool_lock) /\ pool_lock' # s
  BY Free, SqlIpPoolAssumption DEF Typed, EndTransaction

-----------------------------------------------------------------------------
(***************************************************************************)
(* One NAS has the pool, nothing fails, and no lease ends in between.      *)
(***************************************************************************)
LEMMA OneNas ==
    ASSUME Typed, Regular
    PROVE  \A m, n \in sqlip_conf.nases : m = n
  <1>1. sqlip_conf.nases \subseteq {"nas1", "nas2"}
    BY DEF Typed, SqlPoolConf
  <1>2. ASSUME NEW m \in sqlip_conf.nases, NEW n \in sqlip_conf.nases, m # n PROVE FALSE
    <2>1. sqlip_conf.nases = {m} \cup {n}
      BY <1>1, <1>2
    <2>2. IsFiniteSet({m}) /\ Cardinality({m}) = 1
      BY FS_Singleton
    <2>3. Cardinality({m} \cup {n}) = 2
      BY <1>2, <2>2, FS_AddElement
    <2> QED
      BY <2>1, <2>3 DEF Regular
  <1> QED
    BY <1>2

\* The packets of the other servers do not notice the step.
LEMMA OtherWorks ==
    ASSUME NEW t \in PoolServers, NEW j, Working(t, j), pool_now' = pool_now,
           j.step \in {"find", "update", "commit"} => pool_lock' = t /\ radippool' = radippool,
           j.kind \in {"allocate", "renew", "stop"} => pool_held'[j.user] = pool_held[j.user],
           j.kind # "idle" /\ j.user \in pool_again => j.user \in pool_again',
           j.kind = "on" => /\ \A u \in PoolUsers : pool_held'[u] = NotHeld
                            /\ \A x \in PoolServers : x # t => ~Own(pool_job'[x])
    PROVE  Working(t, j)'
  <1>2. /\ j.kind \in {"allocate", "stop"} => pool_held'[j.user] = NotHeld
        /\ j.kind = "renew" => /\ pool_held'[j.user] # NotHeld /\ pool_held'[j.user].until >= pool_now'
                               /\ pool_held'[j.user].addr = j.addr /\ pool_held'[j.user].nas = j.nas
        /\ j.kind = "on" => /\ \A u \in PoolUsers : pool_held'[u] = NotHeld
                            /\ \A x \in PoolServers : x # t => ~Own(pool_job'[x])
        /\ j.kind = "again" => j.user \in pool_again'
        /\ j.kind # "idle" /\ j.step # "begin" => j.tx
        /\ j.kind = "allocate" /\ j.step \in {"begin", "clear", "find"} => j.addr = NoAddr
    BY DEF Working
  <1>3. /\ j.step \in {"find", "update", "commit"} => pool_lock' = t
        /\ j.step = "find" => \A a \in PoolAddrs : radippool'[a].expiry # 0 => radippool'[a].expiry >= pool_now'
        /\ j.step = "update" => j.addr \in PoolAddrs /\ radippool'[j.addr].expiry = 0
    BY DEF Working
  <1>4. j.step = "commit" /\ j.kind \in {"allocate", "renew"} /\ j.addr # NoAddr /\ j.user \notin pool_again' =>
         RowIs(j.user, [addr |-> j.addr, nas |-> j.nas, until |-> pool_now + LeaseDuration])'
    BY DEF Working, RowIs
  <1> QED
    BY <1>2, <1>3, <1>4 DEF Working, Own

LEMMA ExactStep ==
    ASSUME Typed, Exact, NEW s \in PoolServers, NEW j,
           \A t \in PoolServers : pool_job'[t] = IF t = s THEN j ELSE pool_job[t],
           sqlip_conf' = sqlip_conf, pool_now' = pool_now,
           \A a \in PoolAddrs : radippool'[a].expiry # 0 => radippool'[a].nas \in sqlip_conf.nases,
           \A u \in PoolUsers : pool_held'[u].until <= pool_now + LeaseDuration,
           ~Own(j) \/ \A t \in PoolServers : t # s /\ Own(pool_job[t]) => pool_job[t].user # j.user,
           Backed', Working(s, j)',
           \A t \in PoolServers : t # s =>
             /\ pool_job[t].step \in {"find", "update", "commit"} => pool_lock' = t /\ radippool' = radippool
             /\ pool_job[t].kind \in {"allocate", "renew", "stop"} =>
                  pool_held'[pool_job[t].user] = pool_held[pool_job[t].user]
             /\ pool_job[t].kind # "idle" /\ pool_job[t].user \in pool_again => pool_job[t].user \in pool_again'
             /\ pool_job[t].kind = "on" => (\A u \in PoolUsers : pool_held'[u] = NotHeld) /\ ~Own(j)
    PROVE  Exact'
  <1>1. OneJob'
    BY DEF Exact, OneJob
  <1>2. ASSUME NEW t \in PoolServers PROVE Working(t, pool_job[t])'
    <2>1. CASE t = s
      BY <2>1 DEF Working
    <2>2. CASE t # s
      <3>0. PICK k : k = pool_job[t]
        OBVIOUS
      <3>1. Working(t, k) /\ pool_job'[t] = k
        BY <2>2, <3>0 DEF Exact
      <3>2. k.kind = "on" => \A x \in PoolServers : x # t => ~Own(pool_job'[x])
        BY <2>2, <3>0, <3>1 DEF Working
      <3>3. Working(t, k)'
        BY <2>2, <3>0, <3>1, <3>2, OtherWorks
      <3> QED
        BY <3>1, <3>3
    <2> QED
      BY <2>1, <2>2
  <1> QED
    BY <1>1, <1>2 DEF Exact

-----------------------------------------------------------------------------
(***************************************************************************)
(* Packets come.                                                           *)
(***************************************************************************)
PacketIn(s, kind, u, n, a) ==
    \E j : /\ JobOK(j) /\ pool_job' = [pool_job EXCEPT ![s] = j]
           /\ j.kind = kind /\ j.step = "begin" /\ j.user = u /\ j.nas = n /\ j.addr = a /\ j.tx = FALSE

LEMMA PacketLemma ==
    ASSUME Typed, NEW s \in PoolServers, NEW kind, kind \in {"allocate", "renew", "stop", "again", "on"},
           NEW u \in PoolUsers \cup {NoUser},
           NEW n \in sqlip_conf.nases, NEW a \in PoolAddrs \cup {NoAddr}, PoolPacket(s, kind, u, n, a),
           kind = "on" \/ u \in PoolUsers, a \in PoolAddrs \/ kind # "renew"
    PROVE  pool_job[s] = NoJob /\ pool_lock # s /\ PacketIn(s, kind, u, n, a)
  <1> DEFINE j == [NoJob EXCEPT !.kind = kind, !.step = "begin", !.user = u, !.nas = n, !.addr = a]
  <1>2. pool_job[s] = NoJob /\ pool_job' = [pool_job EXCEPT ![s] = j]
    BY DEF PoolPacket
  <1>3. n \in NasNames
    BY DEF Typed, SqlPoolConf, NasNames
  <1>4. j \in JobRecord /\ j.kind = kind /\ j.step = "begin" /\ j.user = u /\ j.nas = n /\ j.addr = a /\ j.tx = FALSE
    <2> DEFINE j1 == [NoJob EXCEPT !.kind = kind]
               j2 == [j1 EXCEPT !.step = "begin"]
               j3 == [j2 EXCEPT !.user = u]
               j4 == [j3 EXCEPT !.nas = n]
               j5 == [j4 EXCEPT !.addr = a]
    <2>1. j1 \in JobRecord /\ j1.kind = kind /\ j1.tx = FALSE
      BY Idle DEF JobRecord
    <2> HIDE DEF j1
    <2>2. j2 \in JobRecord /\ j2.kind = kind /\ j2.tx = FALSE /\ j2.step = "begin"
      BY <2>1 DEF JobRecord
    <2> HIDE DEF j2
    <2>3. j3 \in JobRecord /\ j3.kind = kind /\ j3.tx = FALSE /\ j3.step = "begin" /\ j3.user = u
      BY <2>2 DEF JobRecord
    <2> HIDE DEF j3
    <2>4. j4 \in JobRecord /\ j4.kind = kind /\ j4.tx = FALSE /\ j4.step = "begin" /\ j4.user = u /\ j4.nas = n
      BY <1>3, <2>3 DEF JobRecord
    <2> HIDE DEF j4
    <2>5. j5 \in JobRecord /\ j5.kind = kind /\ j5.tx = FALSE /\ j5.step = "begin" /\ j5.user = u /\ j5.nas = n /\ j5.addr = a
      BY <2>4 DEF JobRecord
    <2>6. j = j5
      BY DEF j5, j4, j3, j2, j1
    <2> HIDE DEF j5
    <2> QED
      BY <2>5, <2>6
  <1> HIDE DEF j
  <1>5. JobOK(j)
    BY <1>4 DEF JobOK
  <1>6. pool_lock # s
    BY <1>2, Idle, SqlIpPoolAssumption DEF Typed
  <1> QED
    BY <1>2, <1>4, <1>5, <1>6 DEF PacketIn

LEMMA LoginLemma ==
    ASSUME SqlPoolInv, NEW s \in PoolServers, NEW u \in PoolUsers, NEW n \in {"nas1", "nas2"}, PoolLogin(s, u, n)
    PROVE  SqlPoolInv'
  <1>0. Typed /\ n \in sqlip_conf.nases /\ PoolPacket(s, "allocate", u, n, NoAddr)
        /\ pool_again' = {v \in pool_again : v # u \/ StopIsComing(u)}
        /\ UNCHANGED <<sqlip_conf, pool_now, radippool, pool_before, pool_lock, pool_held, pool_last>>
    BY DEF SqlPoolInv, PoolLogin
  <1>1. pool_job[s] = NoJob /\ pool_lock # s /\ PacketIn(s, "allocate", u, n, NoAddr)
    BY <1>0, PacketLemma
  <1>2. PICK j : /\ JobOK(j) /\ pool_job' = [pool_job EXCEPT ![s] = j]
                 /\ j.kind = "allocate" /\ j.step = "begin" /\ j.user = u /\ j.nas = n /\ j.addr = NoAddr /\ j.tx = FALSE
    BY <1>1 DEF PacketIn
  <1>3. Typed' /\ \A t \in PoolServers : pool_job'[t] = IF t = s THEN j ELSE pool_job[t]
    BY <1>0, <1>1, <1>2, OneServer DEF Typed
  <1>4. ASSUME Regular PROVE Exact'
    <2>1. Exact
      BY <1>4 DEF SqlPoolInv
    <2>2. pool_held[u] = NotHeld /\ ~UserIsBusy(u) /\ \A t \in PoolServers : pool_job[t].kind = "on" => pool_job[t].nas # n
      BY DEF PoolLogin
    <2>3. \A t \in PoolServers : pool_job[t].kind # "on"
      BY <1>0, <1>4, <2>2, OneNas DEF Typed, JobOK
    <2>4. Working(s, j)'
      BY <1>0, <1>2, <2>2 DEF Working
    <2>5. Backed'
      BY <1>0, <2>1, <2>2 DEF Exact, Backed, RowIs
    <2>6. \A t \in PoolServers : t # s /\ Own(pool_job[t]) => pool_job[t].user # j.user
      BY <1>2, <2>2 DEF UserIsBusy, Own
    <2>8. \A t \in PoolServers : pool_job[t].kind # "idle" /\ pool_job[t].user \in pool_again => pool_job[t].user \in pool_again'
      BY <1>0, <2>2 DEF UserIsBusy, StopIsComing
    <2>7. \A t \in PoolServers : pool_job[t].step \in {"find", "update", "commit"} => pool_lock' = t /\ radippool' = radippool
      BY <1>0, <2>1 DEF Exact, Working
    <2> QED
      BY <1>0, <1>3, <2>1, <2>3, <2>4, <2>5, <2>6, <2>7, <2>8, ExactStep DEF Exact
  <1> QED
    BY <1>0, <1>3, <1>4 DEF SqlPoolInv, Regular

LEMMA RenewsLemma ==
    ASSUME SqlPoolInv, NEW s \in PoolServers, NEW u \in PoolUsers, Renews(s, u)
    PROVE  SqlPoolInv'
  <1> DEFINE n == pool_held[u].nas
             a == pool_held[u].addr
  <1>0. Typed /\ PoolPacket(s, "renew", u, n, a) /\ pool_held[u] # NotHeld /\ pool_held[u].until >= pool_now
        /\ UNCHANGED <<sqlip_conf, pool_now, radippool, pool_before, pool_lock, pool_held, pool_last, pool_again>>
    BY DEF SqlPoolInv, Renews
  <1>h. n \in sqlip_conf.nases /\ a \in PoolAddrs
    BY <1>0 DEF Typed, HeldOK
  <1>c. PICK nn, aa : nn = n /\ aa = a
    OBVIOUS
  <1> HIDE DEF n, a
  <1>1. pool_job[s] = NoJob /\ pool_lock # s /\ PacketIn(s, "renew", u, nn, aa)
    BY <1>0, <1>h, <1>c, PacketLemma
  <1>2. PICK j : /\ JobOK(j) /\ pool_job' = [pool_job EXCEPT ![s] = j]
                 /\ j.kind = "renew" /\ j.step = "begin" /\ j.user = u /\ j.nas = nn /\ j.addr = aa /\ j.tx = FALSE
    BY <1>1 DEF PacketIn
  <1>3. Typed' /\ \A t \in PoolServers : pool_job'[t] = IF t = s THEN j ELSE pool_job[t]
    BY <1>0, <1>1, <1>2, OneServer DEF Typed
  <1>4. ASSUME Regular PROVE Exact'
    <2>1. Exact
      BY <1>4 DEF SqlPoolInv
    <2>2. ~UserIsBusy(u)
      BY DEF Renews
    <2>3. \A t \in PoolServers : pool_job[t].kind # "on"
      BY <1>0, <2>1 DEF Exact, Working
    <2>4. Working(s, j)'
      BY <1>0, <1>c, <1>2 DEF Working, n, a
    <2>5. Backed'
      BY <1>0, <2>1 DEF Exact, Backed, RowIs
    <2>6. \A t \in PoolServers : t # s /\ Own(pool_job[t]) => pool_job[t].user # j.user
      BY <1>2, <2>2 DEF UserIsBusy, Own
    <2>7. \A t \in PoolServers : pool_job[t].step \in {"find", "update", "commit"} => pool_lock' = t /\ radippool' = radippool
      BY <1>0, <2>1 DEF Exact, Working
    <2> QED
      BY <1>0, <1>3, <2>1, <2>3, <2>4, <2>5, <2>6, <2>7, ExactStep DEF Exact
  <1> QED
    BY <1>0, <1>3, <1>4 DEF SqlPoolInv, Regular

\* What a user who is gone, or is about to be, held.
LEMMA ReleaseLemma ==
    ASSUME Typed, NEW u \in PoolUsers, PoolEnds(u), sqlip_conf' = sqlip_conf
    PROVE  /\ pool_held' \in [PoolUsers -> HeldRecord] /\ \A v \in PoolUsers : HeldOK(pool_held'[v])
           /\ \A v \in PoolUsers : pool_held'[v] = IF v = u THEN NotHeld ELSE pool_held[v]
           /\ LastOK'
  <1>1. \A v \in PoolUsers : pool_held'[v] = IF v = u THEN NotHeld ELSE pool_held[v]
    BY DEF Typed, PoolEnds
  <1>2. pool_held' \in [PoolUsers -> HeldRecord]
    BY Idle DEF Typed, PoolEnds
  <1>3. \A v \in PoolUsers : HeldOK(pool_held'[v])
    BY <1>1, <1>2, Idle DEF Typed, HeldOK
  <1>4. pool_last' \in [PoolUsers -> HeldRecord] /\ \A v \in PoolUsers : pool_last'[v] \in {pool_last[v], pool_held[v]}
    BY DEF Typed, LastOK, PoolEnds
  <1>5. \A v \in PoolUsers : HeldOK(pool_held[v]) /\ HeldOK(pool_last[v])
    BY DEF Typed, LastOK
  <1>6. LastOK'
    BY <1>4, <1>5 DEF LastOK, HeldOK
  <1> QED
    BY <1>1, <1>2, <1>3, <1>6

LEMMA LogoffLemma ==
    ASSUME SqlPoolInv, NEW s \in PoolServers, NEW u \in PoolUsers, PoolLogoff(s, u)
    PROVE  SqlPoolInv'
  <1> DEFINE n == pool_held[u].nas
             a == pool_held[u].addr
  <1>0. Typed /\ PoolPacket(s, "stop", u, n, a) /\ pool_held[u] # NotHeld /\ PoolEnds(u)
        /\ UNCHANGED <<sqlip_conf, pool_now, radippool, pool_before, pool_lock, pool_again>>
    BY DEF SqlPoolInv, PoolLogoff
  <1>h. n \in sqlip_conf.nases /\ a \in PoolAddrs
    BY <1>0 DEF Typed, HeldOK
  <1>c. PICK nn, aa : nn = n /\ aa = a
    OBVIOUS
  <1> HIDE DEF n, a
  <1>1. pool_job[s] = NoJob /\ pool_lock # s /\ PacketIn(s, "stop", u, nn, aa)
    BY <1>0, <1>h, <1>c, PacketLemma
  <1>2. PICK j : /\ JobOK(j) /\ pool_job' = [pool_job EXCEPT ![s] = j]
                 /\ j.kind = "stop" /\ j.step = "begin" /\ j.user = u /\ j.nas = nn /\ j.addr = aa /\ j.tx = FALSE
    BY <1>1 DEF PacketIn
  <1>r. /\ pool_held' \in [PoolUsers -> HeldRecord] /\ \A v \in PoolUsers : HeldOK(pool_held'[v])
        /\ (\A v \in PoolUsers : pool_held'[v] = IF v = u THEN NotHeld ELSE pool_held[v]) /\ LastOK'
    BY <1>0, ReleaseLemma
  <1>3. Typed' /\ \A t \in PoolServers : pool_job'[t] = IF t = s THEN j ELSE pool_job[t]
    BY <1>0, <1>1, <1>2, <1>r, OneServer DEF Typed
  <1>4. ASSUME Regular PROVE Exact'
    <2>1. Exact
      BY <1>4 DEF SqlPoolInv
    <2>2. \A t \in PoolServers : Own(pool_job[t]) => pool_job[t].user # u
      BY DEF PoolLogoff, UserIsBusy, Own
    <2>3. \A t \in PoolServers : pool_job[t].kind # "on"
      BY <1>0, <2>1 DEF Exact, Working
    <2>4. Working(s, j)'
      BY <1>0, <1>2, <1>r DEF Working
    <2>5. Backed'
      BY <1>0, <1>r, <2>1 DEF Exact, Backed, RowIs
    <2>6. \A t \in PoolServers : t # s /\ Own(pool_job[t]) => pool_job[t].user # j.user
      BY <1>2, <2>2
    <2>7. \A t \in PoolServers : pool_job[t].step \in {"find", "update", "commit"} => pool_lock' = t /\ radippool' = radippool
      BY <1>0, <2>1 DEF Exact, Working
    <2>8. \A t \in PoolServers : pool_job[t].kind \in {"allocate", "renew", "stop"} =>
            pool_held'[pool_job[t].user] = pool_held[pool_job[t].user]
      BY <1>0, <1>r, <2>2 DEF Typed, JobOK, Own
    <2>9. \A v \in PoolUsers : pool_held'[v].until <= pool_now + LeaseDuration
      <3>1. 0 <= pool_now + LeaseDuration
        BY <1>0, SqlIpPoolAssumption DEF Typed
      <3> QED
        BY <1>r, <2>1, <3>1, Idle DEF Exact
    <2>10. \A x \in PoolAddrs : radippool'[x].expiry # 0 => radippool'[x].nas \in sqlip_conf.nases
      BY <1>0, <2>1 DEF Exact
    <2> QED
      BY <1>0, <1>3, <2>1, <2>3, <2>4, <2>5, <2>6, <2>7, <2>8, <2>9, <2>10, ExactStep
  <1> QED
    BY <1>0, <1>3, <1>4 DEF SqlPoolInv, Regular

LEMMA StopLostLemma ==
    ASSUME SqlPoolInv, NEW u \in PoolUsers, PoolStopLost(u)
    PROVE  SqlPoolInv'
  <1>0. Typed /\ PoolEnds(u)
        /\ UNCHANGED <<sqlip_conf, pool_now, radippool, pool_before, pool_lock, pool_job, pool_again>>
    BY DEF SqlPoolInv, PoolStopLost
  <1>1. /\ pool_held' \in [PoolUsers -> HeldRecord] /\ \A v \in PoolUsers : HeldOK(pool_held'[v])
        /\ (\A v \in PoolUsers : pool_held'[v] = IF v = u THEN NotHeld ELSE pool_held[v]) /\ LastOK'
    BY <1>0, ReleaseLemma
  <1>2. \A k : (JobOK(k)' <=> JobOK(k)) /\ (HeldOK(k)' <=> HeldOK(k))
    BY <1>0 DEF JobOK, HeldOK
  <1>3. Typed'
    BY <1>0, <1>1, <1>2 DEF Typed
  <1>4. ASSUME Regular PROVE Exact'
    <2>1. Exact
      BY <1>4 DEF SqlPoolInv
    <2>2. \A t \in PoolServers : Own(pool_job[t]) => pool_job[t].user # u
      BY DEF PoolStopLost, UserIsBusy, Own
    <2>3. \A t \in PoolServers : pool_job[t].kind # "on"
      BY <2>1 DEF Exact, Working, PoolStopLost
    <2>4. ASSUME NEW t \in PoolServers PROVE Working(t, pool_job[t])'
      <3>1. PICK k : k = pool_job[t]
        OBVIOUS
      <3>2. Working(t, k) /\ pool_job'[t] = k /\ k.kind # "on"
        BY <1>0, <2>1, <2>3, <3>1 DEF Exact
      <3>3. k.kind \in {"allocate", "renew", "stop"} => pool_held'[k.user] = pool_held[k.user]
        BY <1>0, <1>1, <2>2, <3>1 DEF Typed, JobOK, Own
      <3>4. k.step \in {"find", "update", "commit"} => pool_lock' = t /\ radippool' = radippool
        BY <1>0, <3>2 DEF Working
      <3>5. Working(t, k)'
        BY <1>0, <3>2, <3>3, <3>4, OtherWorks
      <3> QED
        BY <3>2, <3>5
    <2>5. Backed'
      BY <1>0, <1>1, <2>1 DEF Exact, Backed, RowIs
    <2>6. OneJob'
      BY <1>0, <2>1 DEF Exact, OneJob
    <2>7. \A v \in PoolUsers : pool_held'[v].until <= pool_now + LeaseDuration
      <3>1. 0 <= pool_now + LeaseDuration
        BY <1>0, SqlIpPoolAssumption DEF Typed
      <3> QED
        BY <1>1, <2>1, <3>1, Idle DEF Exact
    <2> QED
      BY <1>0, <2>1, <2>4, <2>5, <2>6, <2>7 DEF Exact
  <1> QED
    BY <1>0, <1>3, <1>4 DEF SqlPoolInv, Regular

LEMMA StopAgainLemma ==
    ASSUME SqlPoolInv, NEW s \in PoolServers, NEW u \in PoolUsers, PoolStopAgain(s, u)
    PROVE  SqlPoolInv'
  <1> DEFINE n == pool_last[u].nas
             a == pool_last[u].addr
  <1>0. Typed /\ PoolPacket(s, "again", u, n, a) /\ pool_last[u] # NotHeld /\ pool_again' = pool_again \cup {u}
        /\ UNCHANGED <<sqlip_conf, pool_now, radippool, pool_before, pool_lock, pool_held, pool_last>>
    BY DEF SqlPoolInv, PoolStopAgain
  <1>h. n \in sqlip_conf.nases /\ a \in PoolAddrs
    BY <1>0 DEF Typed, LastOK, HeldOK
  <1>c. PICK nn, aa : nn = n /\ aa = a
    OBVIOUS
  <1> HIDE DEF n, a
  <1>1. pool_job[s] = NoJob /\ pool_lock # s /\ PacketIn(s, "again", u, nn, aa)
    BY <1>0, <1>h, <1>c, PacketLemma
  <1>2. PICK j : /\ JobOK(j) /\ pool_job' = [pool_job EXCEPT ![s] = j]
                 /\ j.kind = "again" /\ j.step = "begin" /\ j.user = u /\ j.nas = nn /\ j.addr = aa /\ j.tx = FALSE
    BY <1>1 DEF PacketIn
  <1>3. Typed' /\ \A t \in PoolServers : pool_job'[t] = IF t = s THEN j ELSE pool_job[t]
    BY <1>0, <1>1, <1>2, OneServer DEF Typed
  <1>4. ASSUME Regular PROVE Exact'
    <2>1. Exact
      BY <1>4 DEF SqlPoolInv
    <2>2. ~Own(j)
      BY <1>2 DEF Own
    <2>3. \A t \in PoolServers : pool_job[t].kind = "on" => \A v \in PoolUsers : pool_held[v] = NotHeld
      BY <2>1 DEF Exact, Working
    <2>4. Working(s, j)'
      BY <1>0, <1>2 DEF Working
    <2>5. Backed'
      BY <1>0, <2>1 DEF Exact, Backed, RowIs
    <2>7. \A t \in PoolServers : pool_job[t].step \in {"find", "update", "commit"} => pool_lock' = t /\ radippool' = radippool
      BY <1>0, <2>1 DEF Exact, Working
    <2> QED
      BY <1>0, <1>3, <2>1, <2>2, <2>3, <2>4, <2>5, <2>7, ExactStep DEF Exact
  <1> QED
    BY <1>0, <1>3, <1>4 DEF SqlPoolInv, Regular

LEMMA RebootLemma ==
    ASSUME SqlPoolInv, NEW s \in PoolServers, NEW n \in {"nas1", "nas2"}, NasReboot(s, n)
    PROVE  SqlPoolInv'
  <1>0. Typed /\ PoolPacket(s, "on", NoUser, n, NoAddr) /\ n \in sqlip_conf.nases
        /\ pool_held' = [u \in PoolUsers |-> IF pool_held[u].nas = n THEN NotHeld ELSE pool_held[u]]
        /\ UNCHANGED <<sqlip_conf, pool_now, radippool, pool_before, pool_lock, pool_last, pool_again>>
    BY DEF SqlPoolInv, NasReboot
  <1>1. pool_job[s] = NoJob /\ pool_lock # s /\ PacketIn(s, "on", NoUser, n, NoAddr)
    BY <1>0, PacketLemma
  <1>2. PICK j : /\ JobOK(j) /\ pool_job' = [pool_job EXCEPT ![s] = j]
                 /\ j.kind = "on" /\ j.step = "begin" /\ j.user = NoUser /\ j.nas = n /\ j.addr = NoAddr /\ j.tx = FALSE
    BY <1>1 DEF PacketIn
  <1>r. /\ pool_held' \in [PoolUsers -> HeldRecord] /\ \A v \in PoolUsers : HeldOK(pool_held'[v])
    <2>1. \A v \in PoolUsers : pool_held'[v] = NotHeld \/ pool_held'[v] = pool_held[v]
      BY <1>0
    <2>2. \A v \in PoolUsers : HeldOK(pool_held'[v]) /\ pool_held'[v] \in HeldRecord
      BY <1>0, <2>1, Idle DEF Typed, HeldOK
    <2>3. pool_held' = [v \in PoolUsers |-> pool_held'[v]]
      BY <1>0
    <2>4. pool_held' \in [PoolUsers -> HeldRecord]
      BY <2>2, <2>3
    <2> QED
      BY <2>2, <2>4
  <1>3. Typed' /\ \A t \in PoolServers : pool_job'[t] = IF t = s THEN j ELSE pool_job[t]
    BY <1>0, <1>1, <1>2, <1>r, OneServer DEF Typed
  <1>4. ASSUME Regular PROVE Exact'
    <2>1. Exact
      BY <1>4 DEF SqlPoolInv
    <2>2. \A t \in PoolServers : pool_job[t].kind # "again" => pool_job[t].nas # n
      BY DEF NasReboot
    <2>3. \A t \in PoolServers : pool_job[t].kind = "again" \/ pool_job[t].kind = "idle"
      BY <1>0, <1>4, <2>2, OneNas DEF Typed, JobOK
    <2>r. \A v \in PoolUsers : pool_held'[v] = NotHeld
      BY <1>0, <1>4, OneNas DEF Typed, HeldOK
    <2>4. Working(s, j)'
      BY <1>0, <1>2, <1>3, <2>r, <2>3 DEF Working, Own
    <2>5. Backed'
      BY <2>r DEF Backed
    <2>9. \A v \in PoolUsers : pool_held'[v].until <= pool_now + LeaseDuration
      <3>1. 0 <= pool_now + LeaseDuration
        BY <1>0, SqlIpPoolAssumption DEF Typed
      <3> QED
        BY <2>r, <3>1, Idle
    <2>10. \A x \in PoolAddrs : radippool'[x].expiry # 0 => radippool'[x].nas \in sqlip_conf.nases
      BY <1>0, <2>1 DEF Exact
    <2>11. \A t \in PoolServers : pool_job[t].step \in {"find", "update", "commit"} => pool_lock' = t /\ radippool' = radippool
      BY <1>0, <2>1 DEF Exact, Working
    <2>12. \A t \in PoolServers : ~Own(pool_job[t])
      BY <2>3 DEF Own
    <2> QED
      BY <1>0, <1>3, <2>1, <2>3, <2>4, <2>5, <2>9, <2>10, <2>11, <2>12, ExactStep
  <1> QED
    BY <1>0, <1>3, <1>4 DEF SqlPoolInv, Regular

LEMMA TickLemma ==
    ASSUME SqlPoolInv, PoolTick
    PROVE  SqlPoolInv'
  <1>0. Typed /\ pool_now' = pool_now + 1 /\ pool_now < MaxNow
        /\ UNCHANGED <<sqlip_conf, radippool, pool_before, pool_lock, pool_job, pool_held, pool_last, pool_again>>
    BY DEF SqlPoolInv, PoolTick
  <1>1. (\A k : (JobOK(k)' <=> JobOK(k)) /\ (HeldOK(k)' <=> HeldOK(k))) /\ (LastOK' <=> LastOK)
    BY <1>0 DEF JobOK, HeldOK, LastOK
  <1>2. pool_now' \in 1 .. MaxNow /\ pool_now \in 1 .. MaxNow
    BY <1>0, SqlIpPoolAssumption DEF Typed
  <1>3. Typed'
    BY <1>0, <1>1, <1>2 DEF Typed
  <1>4. ASSUME Regular PROVE Exact'
    <2>1. Exact
      BY <1>4 DEF SqlPoolInv
    <2>2. \A t \in PoolServers : pool_job[t] = NoJob
      BY <1>4 DEF Regular, PoolTick
    <2>3. \A t \in PoolServers : Working(t, pool_job[t])'
      BY <1>0, <2>2, Idle DEF Working
    <2>4. \A u \in PoolUsers : pool_held[u].until \in Nat
      BY <1>0 DEF Typed, HeldRecord
    <2>5. Backed'
      BY <1>0, <1>2, <2>1, <2>4 DEF Exact, Backed, RowIs
    <2>6. OneJob'
      BY <1>0, <2>1 DEF Exact, OneJob
    <2>7. \A u \in PoolUsers : pool_held[u].until <= pool_now + 1 + LeaseDuration
      BY <1>2, <2>1, <2>4, SqlIpPoolAssumption DEF Exact
    <2> QED
      BY <1>0, <2>1, <2>3, <2>5, <2>6, <2>7 DEF Exact
  <1> QED
    BY <1>0, <1>3, <1>4 DEF SqlPoolInv, Regular

-----------------------------------------------------------------------------
(***************************************************************************)
(* A server runs the statements of its packet.                             *)
(***************************************************************************)

\* The packet of s goes on to step x.
Goes(s, x, b, a) ==
    \E j : /\ j \in JobRecord /\ pool_job' = [pool_job EXCEPT ![s] = j]
           /\ j.kind = pool_job[s].kind /\ j.user = pool_job[s].user /\ j.nas = pool_job[s].nas
           /\ j.step = x /\ j.tx = b /\ j.addr = a

LEMMA StepLemma ==
    ASSUME Typed, NEW s \in PoolServers, NEW x \in {"clear", "find", "update", "work", "commit"},
           pool_job' = [pool_job EXCEPT ![s].step = x]
    PROVE  Goes(s, x, pool_job[s].tx, pool_job[s].addr)
  <1> DEFINE k == pool_job[s]
  <1>1. k \in JobRecord
    BY DEF Typed
  <1>2. PICK j : j = [k EXCEPT !.step = x]
    OBVIOUS
  <1>3. pool_job' = [pool_job EXCEPT ![s] = j]
    BY <1>2
  <1>4. /\ j \in JobRecord /\ j.kind = k.kind /\ j.user = k.user /\ j.nas = k.nas
        /\ j.step = x /\ j.tx = k.tx /\ j.addr = k.addr
    BY <1>1, <1>2 DEF JobRecord
  <1> QED
    BY <1>3, <1>4 DEF Goes

LEMMA StepLemma2 ==
    ASSUME Typed, NEW s \in PoolServers, NEW x \in {"clear", "find", "update", "work", "commit"},
           pool_job' = [pool_job EXCEPT ![s].tx = TRUE, ![s].step = x]
    PROVE  Goes(s, x, TRUE, pool_job[s].addr)
  <1> DEFINE k == pool_job[s]
  <1>1. k \in JobRecord
    BY DEF Typed
  <1>2. PICK i : i = [k EXCEPT !.tx = TRUE]
    OBVIOUS
  <1>3. PICK j : j = [i EXCEPT !.step = x]
    OBVIOUS
  <1>4. pool_job' = [pool_job EXCEPT ![s] = j]
    BY <1>2, <1>3 DEF Typed
  <1>5. i \in JobRecord /\ i.kind = k.kind /\ i.user = k.user /\ i.nas = k.nas /\ i.tx = TRUE /\ i.addr = k.addr
    BY <1>1, <1>2 DEF JobRecord
  <1>6. /\ j \in JobRecord /\ j.kind = k.kind /\ j.user = k.user /\ j.nas = k.nas
        /\ j.step = x /\ j.tx = TRUE /\ j.addr = k.addr
    BY <1>3, <1>5 DEF JobRecord
  <1> QED
    BY <1>4, <1>6 DEF Goes

LEMMA StepLemma3 ==
    ASSUME Typed, NEW s \in PoolServers, NEW a \in PoolAddrs,
           pool_job' = [pool_job EXCEPT ![s].step = "update", ![s].addr = a]
    PROVE  Goes(s, "update", pool_job[s].tx, a)
  <1> DEFINE k == pool_job[s]
  <1>1. k \in JobRecord
    BY DEF Typed
  <1>2. PICK i : i = [k EXCEPT !.step = "update"]
    OBVIOUS
  <1>3. PICK j : j = [i EXCEPT !.addr = a]
    OBVIOUS
  <1>4. pool_job' = [pool_job EXCEPT ![s] = j]
    BY <1>2, <1>3 DEF Typed
  <1>5. i \in JobRecord /\ i.kind = k.kind /\ i.user = k.user /\ i.nas = k.nas /\ i.tx = k.tx /\ i.step = "update"
    BY <1>1, <1>2 DEF JobRecord
  <1>6. /\ j \in JobRecord /\ j.kind = k.kind /\ j.user = k.user /\ j.nas = k.nas
        /\ j.step = "update" /\ j.tx = k.tx /\ j.addr = a
    BY <1>3, <1>5 DEF JobRecord
  <1> QED
    BY <1>4, <1>6 DEF Goes

LEMMA StepLemma4 ==
    ASSUME Typed, NEW s \in PoolServers, pool_job' = [pool_job EXCEPT ![s].tx = FALSE]
    PROVE  Goes(s, pool_job[s].step, FALSE, pool_job[s].addr)
  <1> DEFINE k == pool_job[s]
  <1>1. k \in JobRecord
    BY DEF Typed
  <1>2. PICK j : j = [k EXCEPT !.tx = FALSE]
    OBVIOUS
  <1>3. pool_job' = [pool_job EXCEPT ![s] = j]
    BY <1>2
  <1>4. /\ j \in JobRecord /\ j.kind = k.kind /\ j.user = k.user /\ j.nas = k.nas
        /\ j.step = k.step /\ j.tx = FALSE /\ j.addr = k.addr
    BY <1>1, <1>2 DEF JobRecord
  <1> QED
    BY <1>3, <1>4 DEF Goes

\* A packet that has a next statement is that of a user, or of a NAS.
LEMMA AtWork ==
    ASSUME Typed, NEW s \in PoolServers, pool_job[s].step # ""
    PROVE  /\ pool_job[s].kind # "idle" /\ pool_job[s].kind \in {"allocate", "renew", "stop", "again", "on"}
           /\ pool_job[s].nas \in sqlip_conf.nases /\ pool_job[s] \in JobRecord
  BY Idle DEF Typed, JobOK, JobRecord

LEMMA GoesOK ==
    ASSUME Typed, NEW s \in PoolServers, pool_job[s].step # "", NEW j \in JobRecord,
           j.kind = pool_job[s].kind, j.user = pool_job[s].user, j.nas = pool_job[s].nas,
           j.addr = pool_job[s].addr \/ j.addr \in PoolAddrs, j.step = "begin" => ~j.tx,
           j.step \in {"clear", "find", "update"} => j.kind = "allocate",
           j.step = "work" => j.kind # "allocate"
    PROVE  JobOK(j)
  <1>1. JobOK(pool_job[s])
    BY DEF Typed
  <1> QED
    BY <1>1, AtWork DEF JobOK

\* No other server has a packet of the NAS while one has a session's, none has
\* one of the same session, and none has the table.
LEMMA Others ==
    ASSUME Typed, Exact, NEW s \in PoolServers, pool_job[s].step # ""
    PROVE  /\ Own(pool_job[s]) => \A t \in PoolServers : t # s => pool_job[t].kind # "on"
           /\ Own(pool_job[s]) =>
                \A t \in PoolServers : t # s /\ Own(pool_job[t]) => pool_job[t].user # pool_job[s].user
           /\ \A t \in PoolServers : pool_job[t].step \in {"find", "update", "commit"} => pool_lock = t
  <1>1. \A t \in PoolServers : Working(t, pool_job[t])
    BY DEF Exact
  <1>3. Own(pool_job[s]) => \A t \in PoolServers : t # s => pool_job[t].kind # "on"
    BY <1>1 DEF Working
  <1>4. Own(pool_job[s]) => \A t \in PoolServers : t # s /\ Own(pool_job[t]) => pool_job[t].user # pool_job[s].user
    BY DEF Exact, OneJob
  <1>5. \A t \in PoolServers : pool_job[t].step \in {"find", "update", "commit"} => pool_lock = t
    BY <1>1 DEF Working
  <1> QED
    BY <1>3, <1>4, <1>5

\* A statement that touches the table, or begins a transaction.
LEMMA StatementStep ==
    ASSUME Typed, Exact, NEW s \in PoolServers, pool_job[s].step # "", NEW j,
           \A t \in PoolServers : pool_job'[t] = IF t = s THEN j ELSE pool_job[t],
           UNCHANGED <<sqlip_conf, pool_now, pool_held, pool_last, pool_again>>,
           (pool_lock' = pool_lock /\ radippool' = radippool) \/ (pool_lock \in {NoServer, s} /\ pool_lock' = s),
           \A a \in PoolAddrs : radippool'[a].expiry # 0 => radippool'[a].nas \in sqlip_conf.nases,
           j.user = pool_job[s].user, j.kind = pool_job[s].kind, Backed', Working(s, j)'
    PROVE  Exact'
  <1>0. Own(j) <=> Own(pool_job[s])
    BY DEF Own
  <1>1. \A t \in PoolServers : t # s /\ pool_job[t].kind = "on" => (\A u \in PoolUsers : pool_held[u] = NotHeld) /\ ~Own(j)
    BY <1>0, Others DEF Exact, Working
  <1>2. ~Own(j) \/ \A t \in PoolServers : t # s /\ Own(pool_job[t]) => pool_job[t].user # pool_job[s].user
    BY <1>0, Others
  <1>3. \A t \in PoolServers : t # s /\ pool_job[t].step \in {"find", "update", "commit"} =>
          pool_lock' = t /\ radippool' = radippool
    BY Others, SqlIpPoolAssumption
  <1>4. \A u \in PoolUsers : pool_held'[u].until <= pool_now + LeaseDuration
    BY DEF Exact
  <1>5. \A t \in PoolServers : t # s =>
          /\ pool_job[t].step \in {"find", "update", "commit"} => pool_lock' = t /\ radippool' = radippool
          /\ pool_job[t].kind \in {"allocate", "renew", "stop"} =>
               pool_held'[pool_job[t].user] = pool_held[pool_job[t].user]
          /\ pool_job[t].kind # "idle" /\ pool_job[t].user \in pool_again => pool_job[t].user \in pool_again'
          /\ pool_job[t].kind = "on" => (\A u \in PoolUsers : pool_held'[u] = NotHeld) /\ ~Own(j)
    BY <1>1, <1>3
  <1>6. sqlip_conf' = sqlip_conf /\ pool_now' = pool_now
    OBVIOUS
  <1>7. ~Own(j) \/ \A t \in PoolServers : t # s /\ Own(pool_job[t]) => pool_job[t].user # j.user
    BY <1>2
  <1> QED
    BY <1>4, <1>5, <1>6, <1>7, ExactStep

LEMMA BeginLemma ==
    ASSUME SqlPoolInv, NEW s \in PoolServers, PoolBegin(s)
    PROVE  SqlPoolInv'
  <1>0. Typed /\ pool_job[s].step = "begin" /\ pool_job' = PoolBegun(s)
        /\ UNCHANGED <<sqlip_conf, pool_now, radippool, pool_before, pool_lock, pool_held, pool_last, pool_again>>
    BY DEF SqlPoolInv, PoolBegin
  <1>1. PICK x : x = (IF pool_job[s].kind = "allocate" THEN "clear" ELSE "work")
    OBVIOUS
  <1>2. Goes(s, x, TRUE, pool_job[s].addr)
    BY <1>0, <1>1, StepLemma2 DEF PoolBegun
  <1>3. PICK j : /\ j \in JobRecord /\ pool_job' = [pool_job EXCEPT ![s] = j]
                 /\ j.kind = pool_job[s].kind /\ j.user = pool_job[s].user /\ j.nas = pool_job[s].nas
                 /\ j.step = x /\ j.tx = TRUE /\ j.addr = pool_job[s].addr
    BY <1>2 DEF Goes
  <1>4. JobOK(j)
    BY <1>0, <1>1, <1>3, GoesOK
  <1>5. Typed' /\ \A t \in PoolServers : pool_job'[t] = IF t = s THEN j ELSE pool_job[t]
    BY <1>0, <1>3, <1>4, OneServer DEF Typed
  <1>6. ASSUME Regular PROVE Exact'
    <2>1. Exact
      BY <1>6 DEF SqlPoolInv
    <2>2. Working(s, pool_job[s])
      BY <2>1 DEF Exact
    <2>3. Working(s, j)'
      <3>1. PICK k : k = pool_job[s]
        OBVIOUS
      <3>2. j.kind = "on" => \A t \in PoolServers : t # s => ~Own(pool_job'[t])
        BY <1>3, <1>5, <2>2 DEF Working
      <3>4. Working(s, k) /\ j.kind = k.kind /\ j.user = k.user /\ j.nas = k.nas /\ j.addr = k.addr /\ k.step = "begin"
        BY <1>0, <1>3, <2>2, <3>1
      <3>5. j.step \in {"clear", "work"} /\ j.tx
        BY <1>1, <1>3
      <3> QED
        BY <1>0, <3>2, <3>4, <3>5 DEF Working
    <2>4. Backed'
      BY <1>0, <2>1 DEF Exact, Backed, RowIs
    <2>5. \A a \in PoolAddrs : radippool'[a].expiry # 0 => radippool'[a].nas \in sqlip_conf.nases
      BY <1>0, <2>1 DEF Exact
    <2> QED
      BY <1>0, <1>3, <1>5, <2>1, <2>3, <2>4, <2>5, StatementStep
  <1> QED
    BY <1>0, <1>5, <1>6 DEF SqlPoolInv, Regular

LEMMA ClearLemma ==
    ASSUME SqlPoolInv, NEW s \in PoolServers, ClearExpired(s)
    PROVE  SqlPoolInv'
  <1>0. Typed /\ pool_job[s].step = "clear" /\ TouchTable(s) /\ radippool' = AllocateClear(radippool, pool_job[s].nas)
        /\ pool_job' = [pool_job EXCEPT ![s].step = "find"] /\ UNCHANGED <<sqlip_conf, pool_now, pool_held, pool_last, pool_again>>
    BY DEF SqlPoolInv, ClearExpired
  <1>2. Goes(s, "find", pool_job[s].tx, pool_job[s].addr)
    BY <1>0, StepLemma
  <1>3. PICK j : /\ j \in JobRecord /\ pool_job' = [pool_job EXCEPT ![s] = j]
                 /\ j.kind = pool_job[s].kind /\ j.user = pool_job[s].user /\ j.nas = pool_job[s].nas
                 /\ j.step = "find" /\ j.tx = pool_job[s].tx /\ j.addr = pool_job[s].addr
    BY <1>2 DEF Goes
  <1>k. JobOK(pool_job[s]) /\ pool_job[s].kind = "allocate"
    BY <1>0 DEF Typed, JobOK
  <1>4. JobOK(j)
    BY <1>0, <1>3, <1>k, GoesOK
  <1>t. /\ pool_before' \in Table /\ pool_lock' \in PoolServers \cup {NoServer}
        /\ pool_lock' = (IF pool_job[s].tx THEN s ELSE NoServer) /\ pool_lock \in {NoServer, s}
    BY <1>0, TouchLemma
  <1>r. radippool' \in Table
    BY <1>0, <1>k, Tables DEF Typed
  <1>5. Typed' /\ \A t \in PoolServers : pool_job'[t] = IF t = s THEN j ELSE pool_job[t]
    BY <1>0, <1>3, <1>4, <1>t, <1>r, OneServer DEF Typed
  <1>6. ASSUME Regular PROVE Exact'
    <2>1. Exact
      BY <1>6 DEF SqlPoolInv
    <2>2. Working(s, pool_job[s])
      BY <2>1 DEF Exact
    <2>3. pool_job[s].tx /\ pool_held[j.user] = NotHeld /\ j.addr = NoAddr
      BY <1>0, <1>3, <1>k, <2>2 DEF Working
    <2>4. pool_now \in Nat /\ \A a \in PoolAddrs : radippool[a].expiry \in Nat
      BY <1>0, Rows, SqlIpPoolAssumption DEF Typed
    <2>5. ASSUME NEW a \in PoolAddrs
          PROVE  /\ radippool'[a].expiry # 0 => radippool'[a].expiry >= pool_now
                 /\ radippool'[a].expiry # 0 => radippool'[a].nas \in sqlip_conf.nases
                 /\ radippool[a].expiry >= pool_now => radippool'[a] = radippool[a]
      <3>1. radippool[a].expiry # 0 => radippool[a].nas = pool_job[s].nas
        BY <1>0, <1>6, <2>1, AtWork, OneNas DEF Exact
      <3>2. radippool[a].expiry # 0 => radippool[a].nas \in sqlip_conf.nases
        BY <2>1 DEF Exact
      <3>3. radippool'[a] = IF radippool[a].nas = pool_job[s].nas /\ radippool[a].expiry # 0 /\ radippool[a].expiry <= pool_now - 1
                            THEN FreeRow ELSE radippool[a]
        BY <1>0 DEF AllocateClear
      <3> QED
        BY <2>4, <3>1, <3>2, <3>3, Free
    <2>6. Backed'
      <3>1. ASSUME NEW u \in PoolUsers \ pool_again, pool_held[u] # NotHeld, pool_held[u].until >= pool_now
            PROVE  RowIs(u, pool_held[u])'
        <4>1. RowIs(u, pool_held[u]) /\ pool_held[u].addr \in PoolAddrs /\ pool_held[u].until \in Nat
          BY <1>0, <2>1, <3>1 DEF Exact, Backed, Typed, HeldOK, HeldRecord
        <4>2. radippool[pool_held[u].addr].expiry >= pool_now
          BY <2>4, <3>1, <4>1 DEF RowIs
        <4> QED
          BY <1>0, <2>5, <4>1, <4>2 DEF RowIs
      <3> QED
        BY <1>0, <3>1 DEF Backed
    <2>7. Working(s, j)'
      BY <1>0, <1>3, <1>k, <1>t, <2>3, <2>5 DEF Working
    <2> QED
      BY <1>0, <1>3, <1>5, <1>t, <2>1, <2>3, <2>5, <2>6, <2>7, StatementStep
  <1> QED
    BY <1>0, <1>5, <1>6 DEF SqlPoolInv, Regular

LEMMA FindLemma ==
    ASSUME SqlPoolInv, NEW s \in PoolServers, FindAddress(s)
    PROVE  SqlPoolInv'
  <1> DEFINE found == AllocateFind(radippool, pool_job[s].user)
  <1>0. Typed /\ pool_job[s].step = "find" /\ TouchTable(s) /\ UNCHANGED <<sqlip_conf, pool_now, radippool, pool_held, pool_last, pool_again>>
        /\ \/ \E a \in found : pool_job' = [pool_job EXCEPT ![s].step = "update", ![s].addr = a]
           \/ pool_job' = [pool_job EXCEPT ![s].step = "commit"]
    BY DEF SqlPoolInv, FindAddress
  <1>f. \A a \in found : a \in PoolAddrs /\ radippool[a].expiry < pool_now
    BY <1>0 DEF AllocateFind, Typed, SqlPoolConf
  <1> HIDE DEF found
  <1>2. \/ \E a \in found : Goes(s, "update", pool_job[s].tx, a)
        \/ Goes(s, "commit", pool_job[s].tx, pool_job[s].addr)
    <2>1. ASSUME NEW a \in found, pool_job' = [pool_job EXCEPT ![s].step = "update", ![s].addr = a]
          PROVE  Goes(s, "update", pool_job[s].tx, a)
      BY <1>0, <1>f, <2>1, StepLemma3
    <2>2. ASSUME pool_job' = [pool_job EXCEPT ![s].step = "commit"]
          PROVE  Goes(s, "commit", pool_job[s].tx, pool_job[s].addr)
      BY <1>0, <2>2, StepLemma
    <2> QED
      BY <1>0, <2>1, <2>2
  <1>3. PICK j : /\ j \in JobRecord /\ pool_job' = [pool_job EXCEPT ![s] = j]
                 /\ j.kind = pool_job[s].kind /\ j.user = pool_job[s].user /\ j.nas = pool_job[s].nas
                 /\ j.tx = pool_job[s].tx
                 /\ \/ j.step = "update" /\ j.addr \in found
                    \/ j.step = "commit" /\ j.addr = pool_job[s].addr
    BY <1>2 DEF Goes
  <1>k. JobOK(pool_job[s]) /\ pool_job[s].kind = "allocate"
    BY <1>0 DEF Typed, JobOK
  <1>4. JobOK(j)
    <2>1. j.addr = pool_job[s].addr \/ j.addr \in PoolAddrs
      BY <1>3, <1>f
    <2>2. j.step \in {"update", "commit"}
      BY <1>3
    <2> QED
      BY <1>0, <1>3, <1>k, <2>1, <2>2, GoesOK
  <1>t. /\ pool_before' \in Table /\ pool_lock' \in PoolServers \cup {NoServer}
        /\ pool_lock' = (IF pool_job[s].tx THEN s ELSE NoServer) /\ pool_lock \in {NoServer, s}
    BY <1>0, TouchLemma
  <1>5. Typed' /\ \A t \in PoolServers : pool_job'[t] = IF t = s THEN j ELSE pool_job[t]
    BY <1>0, <1>3, <1>4, <1>t, OneServer DEF Typed
  <1>6. ASSUME Regular PROVE Exact'
    <2>1. Exact
      BY <1>6 DEF SqlPoolInv
    <2>2. Working(s, pool_job[s])
      BY <2>1 DEF Exact
    <2>3. pool_job[s].tx /\ pool_held[j.user] = NotHeld /\ pool_job[s].addr = NoAddr
          /\ \A a \in PoolAddrs : radippool[a].expiry # 0 => radippool[a].expiry >= pool_now
      BY <1>0, <1>3, <1>k, <2>2 DEF Working
    <2>4. pool_now \in Nat /\ \A a \in PoolAddrs : radippool[a].expiry \in Nat
      BY <1>0, Rows, SqlIpPoolAssumption DEF Typed
    <2>5. j.step = "update" => j.addr \in PoolAddrs /\ radippool[j.addr].expiry = 0
      BY <1>3, <1>f, <2>3, <2>4
    <2>6. Backed'
      BY <1>0, <2>1 DEF Exact, Backed, RowIs
    <2>7. Working(s, j)'
      BY <1>0, <1>3, <1>k, <1>t, <2>3, <2>5 DEF Working
    <2>8. \A a \in PoolAddrs : radippool'[a].expiry # 0 => radippool'[a].nas \in sqlip_conf.nases
      BY <1>0, <2>1 DEF Exact
    <2> QED
      BY <1>0, <1>3, <1>5, <1>t, <2>1, <2>3, <2>8, <2>6, <2>7, StatementStep
  <1> QED
    BY <1>0, <1>5, <1>6 DEF SqlPoolInv, Regular

LEMMA SaveLemma ==
    ASSUME SqlPoolInv, NEW s \in PoolServers, SaveAddress(s)
    PROVE  SqlPoolInv'
  <1>0. Typed /\ pool_job[s].step = "update" /\ TouchTable(s) /\ UNCHANGED <<sqlip_conf, pool_now, pool_held, pool_last, pool_again>>
        /\ radippool' = AllocateUpdate(radippool, pool_job[s].addr, pool_job[s].nas, pool_job[s].user)
        /\ pool_job' = [pool_job EXCEPT ![s].step = "commit"]
    BY DEF SqlPoolInv, SaveAddress
  <1>2. Goes(s, "commit", pool_job[s].tx, pool_job[s].addr)
    BY <1>0, StepLemma
  <1>3. PICK j : /\ j \in JobRecord /\ pool_job' = [pool_job EXCEPT ![s] = j]
                 /\ j.kind = pool_job[s].kind /\ j.user = pool_job[s].user /\ j.nas = pool_job[s].nas
                 /\ j.step = "commit" /\ j.tx = pool_job[s].tx /\ j.addr = pool_job[s].addr
    BY <1>2 DEF Goes
  <1>k. JobOK(pool_job[s]) /\ pool_job[s].kind = "allocate"
    BY <1>0 DEF Typed, JobOK
  <1>4. JobOK(j)
    BY <1>0, <1>3, <1>k, GoesOK
  <1>t. /\ pool_before' \in Table /\ pool_lock' \in PoolServers \cup {NoServer}
        /\ pool_lock' = (IF pool_job[s].tx THEN s ELSE NoServer) /\ pool_lock \in {NoServer, s}
    BY <1>0, TouchLemma
  <1>r. radippool' \in Table
    BY <1>0, <1>k, Tables DEF Typed
  <1>5. Typed' /\ \A t \in PoolServers : pool_job'[t] = IF t = s THEN j ELSE pool_job[t]
    BY <1>0, <1>3, <1>4, <1>t, <1>r, OneServer DEF Typed
  <1>6. ASSUME Regular PROVE Exact'
    <2>1. Exact
      BY <1>6 DEF SqlPoolInv
    <2>2. Working(s, pool_job[s])
      BY <2>1 DEF Exact
    <2>3. pool_job[s].tx /\ pool_held[j.user] = NotHeld /\ j.addr \in PoolAddrs /\ radippool[j.addr].expiry = 0
      BY <1>0, <1>3, <1>k, <2>2 DEF Working
    <2>4. pool_now + LeaseDuration \in Nat
      BY <1>0, SqlIpPoolAssumption DEF Typed
    <2>5. /\ radippool'[j.addr] = [nas |-> j.nas, user |-> j.user, expiry |-> pool_now + LeaseDuration]
          /\ \A a \in PoolAddrs : a # j.addr => radippool'[a] = radippool[a]
      BY <1>0, <1>3, <2>3 DEF AllocateUpdate
    <2>6. Backed'
      <3>1. ASSUME NEW u \in PoolUsers \ pool_again, pool_held[u] # NotHeld, pool_held[u].until >= pool_now
            PROVE  RowIs(u, pool_held[u])'
        <4>1. RowIs(u, pool_held[u]) /\ pool_held[u].addr \in PoolAddrs
          BY <1>0, <2>1, <3>1 DEF Exact, Backed, Typed, HeldOK
        <4>2. radippool[j.addr].user # u
          BY <1>0, <2>3, Rows, SqlIpPoolAssumption DEF Typed
        <4>3. pool_held[u].addr # j.addr
          BY <4>1, <4>2 DEF RowIs
        <4> QED
          BY <1>0, <2>5, <4>1, <4>3 DEF RowIs
      <3> QED
        BY <1>0, <3>1 DEF Backed
    <2>7. RowIs(j.user, [addr |-> j.addr, nas |-> j.nas, until |-> pool_now + LeaseDuration])'
      BY <1>0, <2>4, <2>5 DEF RowIs
    <2>8. Working(s, j)'
      BY <1>0, <1>3, <1>k, <1>t, <2>3, <2>7 DEF Working
    <2>9. \A a \in PoolAddrs : radippool'[a].expiry # 0 => radippool'[a].nas \in sqlip_conf.nases
      <3>1. j.nas \in sqlip_conf.nases
        BY <1>0, <1>3, AtWork
      <3> QED
        BY <2>1, <2>5, <3>1 DEF Exact
    <2> QED
      BY <1>0, <1>3, <1>5, <1>t, <2>1, <2>3, <2>6, <2>8, <2>9, StatementStep
  <1> QED
    BY <1>0, <1>5, <1>6 DEF SqlPoolInv, Regular

LEMMA AccountingLemma ==
    ASSUME SqlPoolInv, NEW s \in PoolServers, AccountingWork(s)
    PROVE  SqlPoolInv'
  <1>0. Typed /\ pool_job[s].step = "work" /\ TouchTable(s) /\ UNCHANGED <<sqlip_conf, pool_now, pool_held, pool_last, pool_again>>
        /\ pool_job' = [pool_job EXCEPT ![s].step = "commit"]
    BY DEF SqlPoolInv, AccountingWork
  <1>2. Goes(s, "commit", pool_job[s].tx, pool_job[s].addr)
    BY <1>0, StepLemma
  <1>3. PICK j : /\ j \in JobRecord /\ pool_job' = [pool_job EXCEPT ![s] = j]
                 /\ j.kind = pool_job[s].kind /\ j.user = pool_job[s].user /\ j.nas = pool_job[s].nas
                 /\ j.step = "commit" /\ j.tx = pool_job[s].tx /\ j.addr = pool_job[s].addr
    BY <1>2 DEF Goes
  <1>k. JobOK(pool_job[s]) /\ j.kind \in {"renew", "stop", "again", "on"} /\ j.nas \in sqlip_conf.nases
        /\ (j.kind # "on" => j.user \in PoolUsers)
    BY <1>0, <1>3, AtWork DEF Typed, JobOK
  <1>4. JobOK(j)
    BY <1>0, <1>3, <1>k, GoesOK
  <1>t. /\ pool_before' \in Table /\ pool_lock' \in PoolServers \cup {NoServer}
        /\ pool_lock' = (IF pool_job[s].tx THEN s ELSE NoServer) /\ pool_lock \in {NoServer, s}
    BY <1>0, TouchLemma
  <1>w. /\ j.kind = "renew" => radippool' = RenewLease(radippool, pool_job[s])
        /\ j.kind \in {"stop", "again"} => radippool' = StopClear(radippool, pool_job[s])
        /\ j.kind = "on" => radippool' = OnClear(radippool, pool_job[s])
    BY <1>3 DEF AccountingWork
  <1>r. radippool' \in Table
    BY <1>0, <1>3, <1>k, <1>w, Tables DEF Typed
  <1>5. Typed' /\ \A t \in PoolServers : pool_job'[t] = IF t = s THEN j ELSE pool_job[t]
    BY <1>0, <1>3, <1>4, <1>t, <1>r, OneServer DEF Typed
  <1>6. ASSUME Regular PROVE Exact'
    <2>1. Exact
      BY <1>6 DEF SqlPoolInv
    <2>2. Working(s, pool_job[s])
      BY <2>1 DEF Exact
    <2>3. pool_job[s].tx
      BY <1>0, AtWork, <2>2 DEF Working
    <2>n. pool_now + LeaseDuration \in Nat /\ pool_now \in Nat
      BY <1>0, SqlIpPoolAssumption DEF Typed
    <2>u. \A u \in PoolUsers : pool_held[u].until \in Nat /\ pool_held[u].until <= pool_now + LeaseDuration
      BY <1>0, <2>1 DEF Typed, HeldRecord, Exact
    <2>4. CASE j.kind = "renew"
      <3>1. /\ pool_held[j.user] # NotHeld /\ pool_held[j.user].until >= pool_now
            /\ pool_held[j.user].addr = j.addr /\ pool_held[j.user].nas = j.nas
        BY <1>3, <2>2, <2>4 DEF Working
      <3>2. j.addr \in PoolAddrs /\ (j.user \notin pool_again => RowIs(j.user, pool_held[j.user]))
        BY <1>4, <1>k, <2>1, <2>4, <3>1 DEF JobOK, Exact, Backed
      <3>0. \A a \in PoolAddrs : radippool[a].user # j.user => radippool'[a] = radippool[a]
        BY <1>3, <1>w, <2>4 DEF RenewLease, IsLeaseOf
      <3>3. \A a \in PoolAddrs : a # j.addr => radippool'[a] = radippool[a]
        BY <1>3, <1>w, <2>4 DEF RenewLease, IsLeaseOf
      <3>4. radippool[j.addr] \in Row /\ (j.user \notin pool_again => IsLeaseOf(radippool, j.addr, pool_job[s]))
        BY <1>0, <1>3, <3>1, <3>2, Rows DEF Typed, RowIs, IsLeaseOf
      <3>5. radippool'[j.addr] = IF IsLeaseOf(radippool, j.addr, pool_job[s])
                                   THEN [radippool[j.addr] EXCEPT !.expiry = pool_now + LeaseDuration] ELSE radippool[j.addr]
        BY <1>w, <2>4, <3>2 DEF RenewLease
      <3>6. j.user \notin pool_again =>
              /\ radippool'[j.addr].user = j.user /\ radippool'[j.addr].nas = j.nas
              /\ radippool'[j.addr].expiry = pool_now + LeaseDuration
        BY <1>3, <3>4, <3>5 DEF Row, IsLeaseOf
      <3>n. radippool'[j.addr].nas = radippool[j.addr].nas /\ (radippool'[j.addr].expiry # 0 =>
              IsLeaseOf(radippool, j.addr, pool_job[s]) \/ radippool'[j.addr] = radippool[j.addr])
        BY <3>4, <3>5 DEF Row
      <3>7. j.user \notin pool_again => RowIs(j.user, [addr |-> j.addr, nas |-> j.nas, until |-> pool_now + LeaseDuration])'
        BY <1>0, <2>n, <3>6 DEF RowIs
      <3>8. Working(s, j)'
        BY <1>0, <1>3, <1>t, <2>3, <2>4, <3>1, <3>7 DEF Working
      <3>9. Backed'
        <4>1. ASSUME NEW u \in PoolUsers \ pool_again, pool_held[u] # NotHeld, pool_held[u].until >= pool_now
              PROVE  RowIs(u, pool_held[u])'
          <5>1. RowIs(u, pool_held[u]) /\ pool_held[u].addr \in PoolAddrs
            BY <1>0, <2>1, <4>1 DEF Exact, Backed, Typed, HeldOK
          <5>2. CASE u = j.user
            BY <1>0, <2>n, <2>u, <3>1, <3>6, <5>2 DEF RowIs
          <5>3. CASE u # j.user
            BY <1>0, <3>0, <5>1, <5>3 DEF RowIs
          <5> QED
            BY <5>2, <5>3
        <4> QED
          BY <1>0, <4>1 DEF Backed
      <3>10. \A a \in PoolAddrs : radippool'[a].expiry # 0 => radippool'[a].nas \in sqlip_conf.nases
        BY <1>3, <1>k, <2>1, <3>3, <3>n DEF Exact, IsLeaseOf
      <3> QED
        BY <1>0, <1>3, <1>5, <1>t, <2>1, <2>3, <3>8, <3>9, <3>10, StatementStep
    <2>5. CASE j.kind \in {"stop", "again"}
      <3>1. (j.kind = "stop" => pool_held[j.user] = NotHeld) /\ (j.kind = "again" => j.user \in pool_again)
        BY <1>3, <2>2, <2>5 DEF Working
      <3>2. \A a \in PoolAddrs : radippool'[a] = FreeRow \/ radippool'[a] = radippool[a]
        BY <1>w, <2>5 DEF StopClear
      <3>3. \A a \in PoolAddrs : radippool[a].user # j.user => radippool'[a] = radippool[a]
        BY <1>3, <1>w, <2>5 DEF StopClear, IsLeaseOf
      <3>8. Working(s, j)'
        BY <1>0, <1>3, <1>t, <2>3, <2>5, <3>1 DEF Working
      <3>9. Backed'
        <4>1. ASSUME NEW u \in PoolUsers \ pool_again, pool_held[u] # NotHeld, pool_held[u].until >= pool_now
              PROVE  RowIs(u, pool_held[u])'
          <5>1. RowIs(u, pool_held[u]) /\ pool_held[u].addr \in PoolAddrs /\ u # j.user
            BY <1>0, <2>1, <2>5, <3>1, <4>1 DEF Exact, Backed, Typed, HeldOK
          <5> QED
            BY <1>0, <3>3, <5>1 DEF RowIs
        <4> QED
          BY <1>0, <4>1 DEF Backed
      <3>10. \A a \in PoolAddrs : radippool'[a].expiry # 0 => radippool'[a].nas \in sqlip_conf.nases
        BY <2>1, <3>2, Free DEF Exact
      <3> QED
        BY <1>0, <1>3, <1>5, <1>t, <2>1, <2>3, <3>8, <3>9, <3>10, StatementStep
    <2>6. CASE j.kind = "on"
      <3>1. /\ \A u \in PoolUsers : pool_held[u] = NotHeld
            /\ \A t \in PoolServers : t # s => ~Own(pool_job[t])
        BY <1>3, <2>2, <2>6 DEF Working
      <3>2. \A a \in PoolAddrs : radippool'[a] = FreeRow \/ radippool'[a] = radippool[a]
        BY <1>w, <2>6 DEF OnClear
      <3>8. Working(s, j)'
        BY <1>0, <1>3, <1>5, <1>t, <2>3, <2>6, <3>1 DEF Working
      <3>9. Backed'
        BY <1>0, <3>1 DEF Backed
      <3>10. \A a \in PoolAddrs : radippool'[a].expiry # 0 => radippool'[a].nas \in sqlip_conf.nases
        BY <2>1, <3>2, Free DEF Exact
      <3> QED
        BY <1>0, <1>3, <1>5, <1>t, <2>1, <2>3, <3>8, <3>9, <3>10, StatementStep
    <2> QED
      BY <1>k, <2>4, <2>5, <2>6
  <1> QED
    BY <1>0, <1>5, <1>6 DEF SqlPoolInv, Regular

\* What the user of a packet that is done holds.
Given(s) == [addr |-> pool_job[s].addr, nas |-> pool_job[s].nas, until |-> pool_now + LeaseDuration]
Gives(s) == pool_job[s].kind \in {"allocate", "renew"} /\ pool_job[s].addr # NoAddr

LEMMA DoneLemma ==
    ASSUME Typed, NEW s \in PoolServers, pool_job[s].step # "", PoolDone(s)
    PROVE  /\ pool_job' = [pool_job EXCEPT ![s] = NoJob]
           /\ pool_held' \in [PoolUsers -> HeldRecord] /\ \A v \in PoolUsers : HeldOK(pool_held'[v])
           /\ \A v \in PoolUsers : pool_held'[v] = IF Gives(s) /\ v = pool_job[s].user THEN Given(s) ELSE pool_held[v]
           /\ JobOK(NoJob)
  <1>1. pool_job[s].nas \in sqlip_conf.nases /\ pool_job[s].nas \in NasNames /\ pool_job[s].addr \in PoolAddrs \cup {NoAddr}
        /\ (Gives(s) => pool_job[s].user \in PoolUsers)
    BY AtWork DEF JobRecord, Gives, Typed, JobOK
  <1>2. pool_now + LeaseDuration \in Nat
    <2>1. pool_now \in 1 .. MaxNow
      BY DEF Typed
    <2>2. pool_now + LeaseDuration \in 0 .. MaxNow + LeaseDuration
      BY ONLY <2>1, Now
    <2> QED
      BY ONLY <2>2
  <1>3. Gives(s) => Given(s) \in HeldRecord /\ HeldOK(Given(s))
    BY <1>1, <1>2 DEF Given, HeldRecord, HeldOK, Gives
  <1>4. pool_held' = IF Gives(s) THEN [pool_held EXCEPT ![pool_job[s].user] = Given(s)] ELSE pool_held
    BY DEF PoolDone, Gives, Given
  <1>5. pool_held' \in [PoolUsers -> HeldRecord]
        /\ \A v \in PoolUsers : pool_held'[v] = IF Gives(s) /\ v = pool_job[s].user THEN Given(s) ELSE pool_held[v]
    BY <1>1, <1>3, <1>4 DEF Typed
  <1>6. JobOK(NoJob)
    BY Idle DEF JobOK
  <1>7. \A v \in PoolUsers : HeldOK(pool_held'[v])
    BY <1>3, <1>5 DEF Typed
  <1> QED
    BY <1>5, <1>6, <1>7 DEF PoolDone

LEMMA CommitLemma ==
    ASSUME SqlPoolInv, NEW s \in PoolServers, PoolCommit(s)
    PROVE  SqlPoolInv'
  <1>0. Typed /\ pool_job[s].step = "commit" /\ PoolDone(s) /\ EndTransaction(s)
        /\ UNCHANGED <<sqlip_conf, pool_now, radippool, pool_last, pool_again>>
    BY DEF SqlPoolInv, PoolCommit
  <1>1. /\ pool_job' = [pool_job EXCEPT ![s] = NoJob]
        /\ pool_held' \in [PoolUsers -> HeldRecord] /\ \A v \in PoolUsers : HeldOK(pool_held'[v])
        /\ \A v \in PoolUsers : pool_held'[v] = IF Gives(s) /\ v = pool_job[s].user THEN Given(s) ELSE pool_held[v]
        /\ JobOK(NoJob)
    BY <1>0, DoneLemma
  <1>2. /\ pool_before' \in Table /\ pool_lock' \in PoolServers \cup {NoServer}
        /\ pool_lock' = (IF pool_lock = s THEN NoServer ELSE pool_lock) /\ pool_lock' # s
    BY <1>0, EndLemma
  <1>5. Typed' /\ \A t \in PoolServers : pool_job'[t] = IF t = s THEN NoJob ELSE pool_job[t]
    BY <1>0, <1>1, <1>2, OneServer DEF Typed
  <1>6. ASSUME Regular PROVE Exact'
    <2>1. Exact
      BY <1>6 DEF SqlPoolInv
    <2>2. Working(s, pool_job[s])
      BY <2>1 DEF Exact
    <2>3. Gives(s) /\ pool_job[s].user \notin pool_again => RowIs(pool_job[s].user, Given(s))
      BY <1>0, <2>2 DEF Working, Gives, Given
    <2>4. Backed'
      <3>1. ASSUME NEW u \in PoolUsers \ pool_again, pool_held'[u] # NotHeld, pool_held'[u].until >= pool_now
            PROVE  RowIs(u, pool_held[u])'
        <4>1. CASE Gives(s) /\ u = pool_job[s].user
          BY <1>0, <1>1, <2>3, <4>1 DEF RowIs
        <4>2. CASE ~(Gives(s) /\ u = pool_job[s].user)
          BY <1>0, <1>1, <2>1, <3>1, <4>2 DEF RowIs, Exact, Backed
        <4> QED
          BY <4>1, <4>2
      <3> QED
        BY <1>0, <3>1 DEF Backed
    <2>5. Working(s, NoJob)'
      BY Idle DEF Working
    <2>6. pool_lock = s
      BY <1>0, <2>2 DEF Working
    <2>7. ASSUME NEW t \in PoolServers, t # s
          PROVE  /\ ~(pool_job[t].step \in {"find", "update", "commit"})
                 /\ pool_job[t].kind = "on" => \A u \in PoolUsers : pool_held'[u] = NotHeld
                 /\ pool_job[t].kind \in {"allocate", "renew", "stop"} =>
                      pool_held'[pool_job[t].user] = pool_held[pool_job[t].user]
      <3>1. Gives(s) => pool_job[t].kind # "on" /\ (Own(pool_job[t]) => pool_job[t].user # pool_job[s].user)
        BY <1>0, <2>1, <2>7, Others DEF Gives, Own
      <3>2. ~(pool_job[t].step \in {"find", "update", "commit"})
        BY <1>0, <2>1, <2>6, <2>7, Others
      <3>3. pool_job[t].kind \in {"allocate", "renew", "stop"} => pool_job[t].user \in PoolUsers /\ Own(pool_job[t])
        BY <1>0 DEF Typed, JobOK, Own
      <3>4. pool_job[t].kind = "on" => \A u \in PoolUsers : pool_held[u] = NotHeld
        BY <2>1 DEF Exact, Working
      <3> QED
        BY <1>1, <3>1, <3>2, <3>3, <3>4
    <2>8. \A u \in PoolUsers : pool_held'[u].until <= pool_now + LeaseDuration
      <3>1. pool_now + LeaseDuration \in Nat
        BY <1>0, SqlIpPoolAssumption DEF Typed
      <3>2. Given(s).until <= pool_now + LeaseDuration
        BY <3>1 DEF Given
      <3> QED
        BY <1>1, <2>1, <3>2 DEF Exact
    <2>9. \A a \in PoolAddrs : radippool'[a].expiry # 0 => radippool'[a].nas \in sqlip_conf.nases
      BY <1>0, <2>1 DEF Exact
    <2>10. PICK j : j = NoJob
      OBVIOUS
    <2>11. Working(s, j)' /\ ~Own(j)
      BY <2>5, <2>10, Idle DEF Own
    <2> QED
      BY <1>0, <1>5, <2>1, <2>4, <2>7, <2>8, <2>9, <2>10, <2>11, ExactStep
  <1> QED
    BY <1>0, <1>5, <1>6 DEF SqlPoolInv, Regular

-----------------------------------------------------------------------------
(***************************************************************************)
(* Statements fail, and connections are lost: the types are kept.          *)
(***************************************************************************)
LEMMA FailLemma ==
    ASSUME SqlPoolInv, NEW s \in PoolServers, StatementFails(s)
    PROVE  SqlPoolInv'
  <1>0. Typed /\ sqlip_conf.faults /\ UNCHANGED <<sqlip_conf, pool_now, pool_last, pool_again>>
    BY DEF SqlPoolInv, StatementFails
  <1>1. CASE pool_job[s].step \in {"begin", "clear", "find", "update", "work"}
    <2>1. PICK x : x = CASE pool_job[s].step = "begin" -> (IF pool_job[s].kind = "allocate" THEN "clear" ELSE "work")
                         [] pool_job[s].step = "clear" -> "find"
                         [] OTHER -> "commit"
      OBVIOUS
    <2>2. UNCHANGED <<radippool, pool_before, pool_lock, pool_held>> /\ pool_job' = [pool_job EXCEPT ![s].step = x]
      BY <1>1, <2>1 DEF StatementFails
    <2>3. /\ x \in {"clear", "find", "work", "commit"}
          /\ x \in {"clear", "find"} => pool_job[s].kind = "allocate"
          /\ x = "work" => pool_job[s].kind # "allocate"
      BY <1>0, <1>1, <2>1 DEF Typed, JobOK
    <2>4. Goes(s, x, pool_job[s].tx, pool_job[s].addr)
      BY <1>0, <2>2, <2>3, StepLemma
    <2>5. PICK j : /\ j \in JobRecord /\ pool_job' = [pool_job EXCEPT ![s] = j]
                   /\ j.kind = pool_job[s].kind /\ j.user = pool_job[s].user /\ j.nas = pool_job[s].nas
                   /\ j.step = x /\ j.tx = pool_job[s].tx /\ j.addr = pool_job[s].addr
      BY <2>4 DEF Goes
    <2>6. JobOK(j)
      BY <1>0, <1>1, <2>3, <2>5, GoesOK
    <2>7. Typed'
      BY <1>0, <2>2, <2>5, <2>6, OneServer DEF Typed
    <2> QED
      BY <1>0, <2>7 DEF SqlPoolInv, Regular
  <1>2. CASE pool_job[s].step = "commit"
    <2>1. PoolDone(s) /\ EndTransaction(s) /\ radippool' = IF pool_lock = s THEN pool_before ELSE radippool
      BY <1>2 DEF StatementFails
    <2>2. /\ pool_job' = [pool_job EXCEPT ![s] = NoJob]
          /\ pool_held' \in [PoolUsers -> HeldRecord] /\ \A v \in PoolUsers : HeldOK(pool_held'[v])
          /\ JobOK(NoJob)
      BY <1>0, <1>2, <2>1, DoneLemma
    <2>3. /\ pool_before' \in Table /\ pool_lock' \in PoolServers \cup {NoServer}
          /\ pool_lock' = (IF pool_lock = s THEN NoServer ELSE pool_lock) /\ pool_lock' # s
      BY <1>0, <2>1, EndLemma
    <2>4. Typed'
      BY <1>0, <2>1, <2>2, <2>3, OneServer DEF Typed
    <2> QED
      BY <1>0, <2>4 DEF SqlPoolInv, Regular
  <1> QED
    BY <1>1, <1>2 DEF StatementFails

LEMMA LostLemma ==
    ASSUME SqlPoolInv, NEW s \in PoolServers, ConnectionLost(s)
    PROVE  SqlPoolInv'
  <1>0. Typed /\ sqlip_conf.faults /\ UNCHANGED <<sqlip_conf, pool_now, pool_held, pool_last, pool_again>> /\ EndTransaction(s) /\ pool_job[s].tx
        /\ radippool' = (IF pool_lock = s THEN pool_before ELSE radippool) /\ pool_job' = [pool_job EXCEPT ![s].tx = FALSE]
    BY DEF SqlPoolInv, ConnectionLost
  <1>1. PICK j : /\ j \in JobRecord /\ pool_job' = [pool_job EXCEPT ![s] = j]
                 /\ j.kind = pool_job[s].kind /\ j.user = pool_job[s].user /\ j.nas = pool_job[s].nas
                 /\ j.step = pool_job[s].step /\ j.tx = FALSE /\ j.addr = pool_job[s].addr
    BY <1>0, StepLemma4 DEF Goes
  <1>2. JobOK(j)
    BY <1>0, <1>1, Idle DEF Typed, JobOK
  <1>3. /\ pool_before' \in Table /\ pool_lock' \in PoolServers \cup {NoServer}
        /\ pool_lock' = (IF pool_lock = s THEN NoServer ELSE pool_lock) /\ pool_lock' # s
    BY <1>0, EndLemma
  <1>4. Typed'
    BY <1>0, <1>1, <1>2, <1>3, OneServer DEF Typed
  <1> QED
    BY <1>0, <1>4 DEF SqlPoolInv, Regular

LEMMA NoSocketLemma ==
    ASSUME SqlPoolInv, NEW s \in PoolServers, NoSocket(s)
    PROVE  SqlPoolInv'
  <1>0. Typed /\ sqlip_conf.faults /\ pool_job[s].step = "begin" /\ pool_job' = [pool_job EXCEPT ![s] = NoJob]
        /\ UNCHANGED <<sqlip_conf, pool_now, radippool, pool_before, pool_lock, pool_held, pool_last, pool_again>>
    BY DEF SqlPoolInv, NoSocket
  <1>1. JobOK(NoJob) /\ pool_lock # s
    BY <1>0, Idle, SqlIpPoolAssumption DEF Typed, JobOK
  <1>2. Typed'
    BY <1>0, <1>1, OneServer DEF Typed
  <1> QED
    BY <1>0, <1>2 DEF SqlPoolInv, Regular

-----------------------------------------------------------------------------
LEMMA SqlPoolInitLemma == SqlPoolInit => SqlPoolInv
  <1> SUFFICES ASSUME SqlPoolInit PROVE SqlPoolInv
    OBVIOUS
  <1>1. /\ pool_job \in [PoolServers -> JobRecord] /\ \A s \in PoolServers : pool_job[s] = NoJob
        /\ pool_held \in [PoolUsers -> HeldRecord] /\ \A u \in PoolUsers : pool_held[u] = NotHeld
    BY Idle DEF SqlPoolInit
  <1>2. JobOK(NoJob) /\ HeldOK(NotHeld) /\ LastOK
    BY Idle DEF JobOK, HeldOK, LastOK, SqlPoolInit
  <1>3. pool_now \in 1 .. MaxNow /\ pool_now = 1
    BY SqlIpPoolAssumption DEF SqlPoolInit
  <1>4. Typed
    BY <1>1, <1>2, <1>3, Free, SqlIpPoolAssumption DEF SqlPoolInit, Typed
  <1>5. \A s \in PoolServers : Working(s, pool_job[s])
    <2>1. \A s \in PoolServers : Working(s, NoJob)
      BY Idle DEF Working
    <2> QED
      BY <1>1, <2>1
  <1>6. \A u \in PoolUsers : pool_held[u].until <= pool_now + LeaseDuration
    <2>1. 0 <= pool_now + LeaseDuration
      <3>1. pool_now + LeaseDuration \in 0 .. MaxNow + LeaseDuration
        BY <1>3, Now
      <3> QED
        BY ONLY <3>1
    <2> QED
      BY <1>1, <2>1, Idle
  <1>7. \A a \in PoolAddrs : radippool[a].expiry = 0
    BY Free DEF SqlPoolInit, FreeTable
  <1>8. OneJob /\ Backed
    BY <1>1, Idle DEF OneJob, Backed, Own
  <1> QED
    BY <1>4, <1>5, <1>6, <1>7, <1>8 DEF SqlPoolInv, Exact

LEMMA SqlPoolNextLemma == SqlPoolInv /\ [SqlPoolNext]_sqlipVars => SqlPoolInv'
  <1> SUFFICES ASSUME SqlPoolInv, [SqlPoolNext]_sqlipVars PROVE SqlPoolInv'
    OBVIOUS
  <1>1. ASSUME NEW s \in PoolServers, NEW u \in PoolUsers, NEW n \in {"nas1", "nas2"}, PoolLogin(s, u, n) PROVE SqlPoolInv'
    BY <1>1, LoginLemma
  <1>2. ASSUME NEW s \in PoolServers, NEW u \in PoolUsers, Renews(s, u) PROVE SqlPoolInv'
    BY <1>2, RenewsLemma
  <1>3. ASSUME NEW s \in PoolServers, NEW u \in PoolUsers, PoolLogoff(s, u) PROVE SqlPoolInv'
    BY <1>3, LogoffLemma
  <1>4. ASSUME NEW u \in PoolUsers, PoolStopLost(u) PROVE SqlPoolInv'
    BY <1>4, StopLostLemma
  <1>5. ASSUME NEW s \in PoolServers, NEW n \in {"nas1", "nas2"}, NasReboot(s, n) PROVE SqlPoolInv'
    BY <1>5, RebootLemma
  <1>6. ASSUME NEW s \in PoolServers, PoolBegin(s) PROVE SqlPoolInv'
    BY <1>6, BeginLemma
  <1>7. ASSUME NEW s \in PoolServers, ClearExpired(s) PROVE SqlPoolInv'
    BY <1>7, ClearLemma
  <1>8. ASSUME NEW s \in PoolServers, FindAddress(s) PROVE SqlPoolInv'
    BY <1>8, FindLemma
  <1>9. ASSUME NEW s \in PoolServers, SaveAddress(s) PROVE SqlPoolInv'
    BY <1>9, SaveLemma
  <1>10. ASSUME NEW s \in PoolServers, AccountingWork(s) PROVE SqlPoolInv'
    BY <1>10, AccountingLemma
  <1>11. ASSUME NEW s \in PoolServers, PoolCommit(s) PROVE SqlPoolInv'
    BY <1>11, CommitLemma
  <1>12. ASSUME NEW s \in PoolServers, StatementFails(s) PROVE SqlPoolInv'
    BY <1>12, FailLemma
  <1>13. ASSUME NEW s \in PoolServers, ConnectionLost(s) PROVE SqlPoolInv'
    BY <1>13, LostLemma
  <1>14. ASSUME NEW s \in PoolServers, NoSocket(s) PROVE SqlPoolInv'
    BY <1>14, NoSocketLemma
  <1>17. ASSUME NEW s \in PoolServers, NEW u \in PoolUsers, PoolStopAgain(s, u) PROVE SqlPoolInv'
    BY <1>17, StopAgainLemma
  <1>15. CASE PoolTick
    BY <1>15, TickLemma
  <1>16. CASE UNCHANGED sqlipVars
    <2>0. UNCHANGED <<sqlip_conf, pool_now, radippool, pool_before, pool_lock, pool_job, pool_held, pool_last, pool_again>>
      BY <1>16 DEF sqlipVars
    <2>1. Typed' <=> Typed
      BY <2>0 DEF Typed, JobOK, HeldOK, LastOK
    <2>2. Exact' <=> Exact
      BY <2>0 DEF Exact, OneJob, Own, Backed, Working, RowIs
    <2> QED
      BY <2>0, <2>1, <2>2 DEF SqlPoolInv, Regular
  <1> QED
    BY <1>1, <1>2, <1>3, <1>4, <1>5, <1>6, <1>7, <1>8, <1>9, <1>10, <1>11, <1>12, <1>13, <1>14, <1>15, <1>16, <1>17 DEF SqlPoolNext

LEMMA SqlPoolInvIsEnough == SqlPoolInv => SqlPoolIsRight
  <1> SUFFICES ASSUME SqlPoolInv PROVE SqlPoolIsRight
    OBVIOUS
  <1>1. Typed
    BY DEF SqlPoolInv
  <1>2. SqlPoolTypeOK
    BY <1>1 DEF SqlPoolTypeOK, Typed, Table, Row, NasNames
  <1>3. ASSUME Regular PROVE LeaseIsExclusive
    <2>1. ASSUME NEW u \in PoolUsers \ pool_again, NEW v \in PoolUsers \ pool_again, u # v, pool_held[u] # NotHeld,
                 pool_held[u].addr = pool_held[v].addr, pool_held[u].until >= pool_now, pool_held[v].until >= pool_now
          PROVE  FALSE
      <3>1. Backed
        BY <1>3 DEF SqlPoolInv, Exact
      <3>2. pool_held[v] # NotHeld
        BY <1>1, <2>1, Idle, SqlIpPoolAssumption DEF Typed, HeldOK
      <3>3. RowIs(u, pool_held[u]) /\ RowIs(v, pool_held[v])
        BY <2>1, <3>1, <3>2 DEF Backed
      <3> QED
        BY <2>1, <3>3 DEF RowIs
    <2> QED
      BY <2>1 DEF LeaseIsExclusive
  <1> QED
    BY <1>2, <1>3 DEF SqlPoolIsRight, PoolIsExclusive, Regular

\* No address of a pool in SQL (rlm_sqlippool.cpp, ippool.conf) is given to a
\* user while another one's lease of it lasts, for any number of servers,
\* users and addresses, where one NAS has the pool, no statement fails, no lease
\* ends between two statements and no Accounting-Stop of an earlier session of
\* one of the two users came in its present one; and in every configuration a row has a
\* user exactly when it has an expiry_time, and a table is held only by a
\* server that is in a transaction.
THEOREM SqlPoolTheorem == SqlPoolSpec => []SqlPoolIsRight
  <1>1. SqlPoolInit => SqlPoolInv
    BY SqlPoolInitLemma
  <1>2. SqlPoolInv /\ [SqlPoolNext]_sqlipVars => SqlPoolInv'
    BY SqlPoolNextLemma
  <1>3. SqlPoolInv => SqlPoolIsRight
    BY SqlPoolInvIsEnough
  <1> QED
    BY <1>1, <1>2, <1>3, PTL DEF SqlPoolSpec

----------------------------------------------------------------------------
(***************************************************************************)
(* The pools of rlm_ippool.                                                *)
(***************************************************************************)
\* What the two files hold.
Dbs == [sess: [Buckets -> Info \cup {NoOne}], num: [Addrs -> Nat]]
Entry(d, k) == d.sess[k] # NoOne
Active(d, k) == d.sess[k] # NoOne /\ d.sess[k].active
Actives(d, a) == {k \in Buckets : Active(d, k) /\ d.sess[k].ip = a}

IpTyped ==
    /\ ip_conf \in IpConf /\ db \in Dbs
    /\ lease \in [Ports -> Lease \cup {NoOne}]
    /\ stops \subseteq Ports
    /\ crashes \in Nat /\ crashes <= ip_conf.crash

\* The port of a session, or of one whose Stop is to come, has its entry.
Held(d) ==
    \A p \in Ports : lease[p] # NoOne \/ p \in stops =>
        /\ Active(d, p)
        /\ lease[p] # NoOne => d.sess[p].ip = lease[p].ip

\* Where sessions without an address of the pool send Stops, at least the port of
\* a session with one has its entry.
Leased(d) == \A p \in Ports : lease[p] # NoOne => Active(d, p) /\ d.sess[p].ip = lease[p].ip

\* Where callers from "0" share addresses, the second file counts them.
Counted(d) == \A a \in Addrs : d.num[a] = Cardinality(Actives(d, a))

Apart ==
    \A k, l \in Ports : k # l /\ lease[k] # NoOne /\ lease[l] # NoOne =>
        lease[k].ip # lease[l].ip \/ Zero \in {lease[k].cli, lease[l].cli}

\* An address has one entry, and the number of sessions is right.
Single(d, k, a) ==
    /\ Entry(d, k) /\ d.sess[k].ip = a
    /\ \A l \in Buckets : Entry(d, l) /\ d.sess[l].ip = a => l = k
Whole(d) ==
    \A a \in Addrs : \E k \in Buckets : Single(d, k, a) /\ d.num[a] = IF d.sess[k].active THEN 1 ELSE 0

\* What is left of it after a crash: an active entry is the only one of its
\* address, or it is counted and the only active one.
Sound(d) ==
    /\ \A a \in Addrs : d.num[a] \in {0, 1}
    /\ \A k, l \in Buckets :
         k # l /\ Active(d, k) /\ Entry(d, l) /\ d.sess[l].ip = d.sess[k].ip =>
            ~d.sess[l].active /\ d.num[d.sess[k].ip] = 1

HeldIsCounted(d) == \A p \in Ports : lease[p] # NoOne \/ p \in stops => d.num[d.sess[p].ip] = 1

\* The inductive invariant.
IpInv ==
    /\ IpTyped
    /\ ~ip_conf.late => \A p \in stops : lease[p] = NoOne
    /\ ~ip_conf.late /\ ~ip_conf.others /\ crashes = 0 => Held(db) /\ Counted(db) /\ Apart
    /\ ~ip_conf.zero /\ crashes = 0 => Whole(db) /\ (~ip_conf.late => Leased(db))
    /\ ~ip_conf.late /\ ~ip_conf.others /\ ~ip_conf.zero /\ crashes <= 1 => Held(db) /\ HeldIsCounted(db) /\ Sound(db)

----------------------------------------------------------------------------
(* The stores.                                                              *)

LEMMA IpStore ==
  ASSUME NEW d \in Dbs, NEW k \in Buckets, NEW e \in Info \cup {NoOne}
  PROVE  /\ Store(d, k, e) \in Dbs /\ Store(d, k, e).num = d.num
         /\ Store(d, k, e).sess[k] = e
         /\ \A l \in Buckets : l # k => Store(d, k, e).sess[l] = d.sess[l]
  BY DEF Store, Dbs

LEMMA IpUp ==
  ASSUME NEW d \in Dbs, NEW a \in Addrs
  PROVE  /\ [d EXCEPT !.num[a] = @ + 1] \in Dbs /\ [d EXCEPT !.num[a] = @ + 1].sess = d.sess
         /\ [d EXCEPT !.num[a] = @ + 1].num[a] = d.num[a] + 1
         /\ \A b \in Addrs : b # a => [d EXCEPT !.num[a] = @ + 1].num[b] = d.num[b]
  BY DEF Dbs

LEMMA IpDown ==
  ASSUME NEW d \in Dbs, NEW a \in Addrs, d.num[a] # 0
  PROVE  /\ [d EXCEPT !.num[a] = @ - 1] \in Dbs /\ [d EXCEPT !.num[a] = @ - 1].sess = d.sess
         /\ [d EXCEPT !.num[a] = @ - 1].num[a] = d.num[a] - 1
         /\ \A b \in Addrs : b # a => [d EXCEPT !.num[a] = @ - 1].num[b] = d.num[b]
  <1>1. d.num \in [Addrs -> Nat] /\ d.num[a] - 1 \in Nat
    BY DEF Dbs
  <1> QED
    BY <1>1 DEF Dbs

LEMMA IpEntry ==
  ASSUME NEW d \in Dbs, NEW k \in Buckets, Entry(d, k)
  PROVE  /\ d.sess[k] \in Info /\ d.sess[k].ip \in Addrs /\ d.sess[k].active \in BOOLEAN
         /\ d.num[d.sess[k].ip] \in Nat
  BY DEF Entry, Dbs, Info

\* An entry that is set free, and what each store of it leaves.
Off(d, o, k) ==
  /\ o \in Dbs /\ o.num = d.num /\ Entry(o, k) /\ ~o.sess[k].active /\ o.sess[k].ip = d.sess[k].ip
  /\ \A l \in Buckets : l # k => o.sess[l] = d.sess[l]
Lower(d, s, k) ==
  /\ s \in Dbs /\ d.num[d.sess[k].ip] # 0 /\ s.num[d.sess[k].ip] = d.num[d.sess[k].ip] - 1
  /\ \A b \in Addrs : b # d.sess[k].ip => s.num[b] = d.num[b]
  /\ \A l \in Buckets : l # k => s.sess[l] = d.sess[l]
  /\ Entry(s, k) => ~s.sess[k].active /\ s.sess[k].ip = d.sess[k].ip
  /\ s.num[d.sess[k].ip] = 0 => Entry(s, k)

LEMMA IpRelease ==
  ASSUME NEW d \in Dbs, NEW k \in Buckets, Entry(d, k)
  PROVE  /\ Release(d, k) \in Seq(Dbs) /\ Len(Release(d, k)) \in Nat \ {0}
         /\ \A i \in 1 .. Len(Release(d, k)) : Off(d, Release(d, k)[i], k) \/ Lower(d, Release(d, k)[i], k)
         /\ IF d.num[d.sess[k].ip] = 0 THEN Off(d, Final(Release(d, k)), k) ELSE Lower(d, Final(Release(d, k)), k)
  <1>1. PICK e : e = d.sess[k]
    OBVIOUS
  <1>2. PICK o : o = Store(d, k, [e EXCEPT !.active = FALSE, !.old = FALSE])
    OBVIOUS
  <1>3. e \in Info /\ e.ip \in Addrs /\ d.num[e.ip] \in Nat
    BY <1>1, IpEntry
  <1>4. PICK g : g = [e EXCEPT !.active = FALSE, !.old = FALSE]
    OBVIOUS
  <1>5. g \in Info /\ g.ip = e.ip /\ ~g.active /\ g # NoOne
    BY <1>3, <1>4, IpPoolAssumption DEF Info
  <1>6. o \in Dbs /\ o.num = d.num /\ o.sess[k] = g /\ \A l \in Buckets : l # k => o.sess[l] = d.sess[l]
    BY <1>2, <1>4, <1>5, IpStore
  <1>7. Off(d, o, k)
    BY <1>1, <1>5, <1>6 DEF Off, Entry
  <1>8. CASE d.num[e.ip] = 0
    <2>1. Release(d, k) = <<o>>
      BY <1>1, <1>2, <1>8 DEF Release
    <2>2. \A i \in 1 .. Len(<<o>>) : i = 1
      OBVIOUS
    <2> QED
      BY <1>1, <1>6, <1>7, <1>8, <2>1, <2>2 DEF Final
  <1>9. CASE d.num[e.ip] # 0
    <2>1. PICK s : s = [o EXCEPT !.num[e.ip] = @ - 1]
      OBVIOUS
    <2>2. /\ s \in Dbs /\ s.sess = o.sess /\ s.num[e.ip] = d.num[e.ip] - 1
          /\ \A b \in Addrs : b # e.ip => s.num[b] = d.num[b]
      BY <1>3, <1>6, <1>9, <2>1, IpDown
    <2>3. Lower(d, s, k)
      BY <1>1, <1>5, <1>6, <1>9, <2>2 DEF Lower, Entry
    <2>4. CASE s.num[e.ip] > 0 /\ e.extra
      <3>1. PICK x : x = Store(s, k, NoOne)
        OBVIOUS
      <3>2. /\ x \in Dbs /\ x.num = s.num /\ x.sess[k] = NoOne
            /\ \A l \in Buckets : l # k => x.sess[l] = s.sess[l]
        BY <2>2, <3>1, IpStore
      <3>3. Lower(d, x, k)
        BY <1>1, <1>6, <1>9, <2>2, <2>4, <3>2 DEF Lower, Entry
      <3>4. Release(d, k) = <<o, s, x>>
        BY <1>1, <1>2, <1>9, <2>1, <2>4, <3>1 DEF Release
      <3>5. \A i \in 1 .. Len(<<o, s, x>>) : i = 1 \/ i = 2 \/ i = 3
        OBVIOUS
      <3>6. <<o, s, x>> \in Seq(Dbs) /\ Len(<<o, s, x>>) = 3
        BY <1>6, <2>2, <3>2
      <3> QED
        BY <1>1, <1>7, <1>9, <2>3, <3>3, <3>4, <3>5, <3>6 DEF Final
    <2>5. CASE ~(s.num[e.ip] > 0 /\ e.extra)
      <3>4. Release(d, k) = <<o, s>>
        BY <1>1, <1>2, <1>9, <2>1, <2>5 DEF Release
      <3>5. \A i \in 1 .. Len(<<o, s>>) : i = 1 \/ i = 2
        OBVIOUS
      <3>6. <<o, s>> \in Seq(Dbs) /\ Len(<<o, s>>) = 2
        BY <1>6, <2>2
      <3> QED
        BY <1>1, <1>7, <1>9, <2>3, <3>4, <3>5, <3>6 DEF Final
    <2> QED
      BY <2>4, <2>5
  <1> QED
    BY <1>8, <1>9

LEMMA IpFinite ==
  ASSUME NEW d, NEW a
  PROVE  IsFiniteSet(Actives(d, a)) /\ Actives(d, a) \subseteq Buckets
  <1>1. IsFiniteSet(Buckets)
    BY IpPoolAssumption, FS_Union DEF Buckets
  <1>2. Actives(d, a) \subseteq Buckets
    BY DEF Actives
  <1> QED
    BY <1>1, <1>2, FS_Subset

LEMMA IpWholeIsSound ==
  ASSUME NEW d \in Dbs, Whole(d)
  PROVE  Sound(d)
  <1>1. \A a \in Addrs : d.num[a] \in {0, 1}
    BY DEF Whole
  <1>2. ASSUME NEW k \in Buckets, NEW l \in Buckets, Active(d, k), Entry(d, l), d.sess[l].ip = d.sess[k].ip
        PROVE  k = l
    <2>1. Entry(d, k) /\ d.sess[k].ip \in Addrs
      BY <1>2, IpEntry DEF Active, Entry
    <2> QED
      BY <1>2, <2>1 DEF Whole, Single
  <1> QED
    BY <1>1, <1>2 DEF Sound

LEMMA IpOffSound ==
  ASSUME NEW d \in Dbs, NEW s, NEW k \in Buckets, Entry(d, k), Off(d, s, k), Sound(d)
  PROVE  Sound(s)
  <1>1. /\ s.num = d.num /\ ~s.sess[k].active /\ s.sess[k].ip = d.sess[k].ip
        /\ \A l \in Buckets : l # k => s.sess[l] = d.sess[l]
    BY DEF Off
  <1>2. \A l \in Buckets : (Active(s, l) => Active(d, l) /\ l # k) /\ (Entry(s, l) => Entry(d, l) /\ s.sess[l].ip = d.sess[l].ip)
    BY <1>1 DEF Active, Entry
  <1>3. \A l \in Buckets : l # k => s.sess[l].active = d.sess[l].active
    BY <1>1
  <1> QED
    BY <1>1, <1>2, <1>3 DEF Sound

LEMMA IpLowerSound ==
  ASSUME NEW d \in Dbs, NEW s, NEW k \in Buckets, Active(d, k), Lower(d, s, k), Sound(d)
  PROVE  Sound(s)
  <1>0. Entry(d, k)
    BY DEF Active, Entry
  <1>1. PICK a \in Addrs : a = d.sess[k].ip
    BY <1>0, IpEntry
  <1>2. /\ s \in Dbs /\ d.num[a] # 0 /\ s.num[a] = d.num[a] - 1
        /\ \A b \in Addrs : b # a => s.num[b] = d.num[b]
        /\ \A l \in Buckets : l # k => s.sess[l] = d.sess[l]
        /\ Entry(s, k) => ~s.sess[k].active /\ s.sess[k].ip = a
    BY <1>1 DEF Lower
  <1>3. \A b \in Addrs : s.num[b] \in {0, 1}
    BY <1>1, <1>2 DEF Sound
  <1>4. ASSUME NEW i \in Buckets, NEW l \in Buckets, i # l, Active(s, i), Entry(s, l), s.sess[l].ip = s.sess[i].ip
        PROVE  ~s.sess[l].active /\ s.num[s.sess[i].ip] = 1
    <2>1. i # k /\ s.sess[i] = d.sess[i] /\ Active(d, i)
      BY <1>2, <1>4 DEF Active, Entry
    <2>2. d.sess[i].ip # a
      BY <1>0, <1>1, <2>1 DEF Sound, Active
    <2>3. l # k
      BY <1>2, <1>4, <2>1, <2>2
    <2>4. s.sess[l] = d.sess[l] /\ Entry(d, l)
      BY <1>2, <1>4, <2>3 DEF Entry
    <2>5. ~d.sess[l].active /\ d.num[d.sess[i].ip] = 1
      BY <1>4, <2>1, <2>4 DEF Sound
    <2>6. d.sess[i].ip \in Addrs
      BY <2>1, IpEntry DEF Active, Entry
    <2> QED
      BY <1>2, <2>1, <2>2, <2>4, <2>5, <2>6
  <1> QED
    BY <1>3, <1>4 DEF Sound

LEMMA IpReleaseWhole ==
  ASSUME NEW d \in Dbs, NEW s, NEW k \in Buckets, Entry(d, k), Whole(d),
         IF d.num[d.sess[k].ip] = 0 THEN Off(d, s, k) ELSE Lower(d, s, k)
  PROVE  Whole(s) /\ Entry(s, k)
  <1>1. PICK a \in Addrs : a = d.sess[k].ip
    BY IpEntry
  <1>2. d.num[a] = (IF d.sess[k].active THEN 1 ELSE 0) /\ Single(d, k, a)
    BY <1>1 DEF Whole, Single
  <1>3. /\ \A l \in Buckets : l # k => s.sess[l] = d.sess[l]
        /\ Entry(s, k) /\ ~s.sess[k].active /\ s.sess[k].ip = a
        /\ s.num[a] = 0
        /\ \A b \in Addrs : b # a => s.num[b] = d.num[b]
    <2>1. CASE d.num[a] = 0
      BY <1>1, <2>1 DEF Off
    <2>2. CASE d.num[a] = 1
      BY <1>1, <2>2 DEF Lower
    <2> QED
      BY <1>2, <2>1, <2>2
  <1>4. ASSUME NEW b \in Addrs
        PROVE  \E j \in Buckets : Single(s, j, b) /\ s.num[b] = IF s.sess[j].active THEN 1 ELSE 0
    <2>1. CASE b = a
      <3>1. Single(s, k, a)
        BY <1>2, <1>3 DEF Single, Entry
      <3> QED
        BY <1>3, <2>1, <3>1
    <2>2. CASE b # a
      <3>1. PICK j \in Buckets : Single(d, j, b) /\ d.num[b] = IF d.sess[j].active THEN 1 ELSE 0
        BY DEF Whole
      <3>2. j # k
        BY <1>1, <2>2, <3>1 DEF Single
      <3>3. Single(s, j, b)
        BY <1>3, <2>2, <3>1, <3>2 DEF Single, Entry
      <3> QED
        BY <1>3, <2>2, <3>1, <3>2, <3>3
    <2> QED
      BY <2>1, <2>2
  <1> QED
    BY <1>3, <1>4 DEF Whole

LEMMA IpLowerCounted ==
  ASSUME NEW d \in Dbs, NEW s, NEW k \in Buckets, Active(d, k), Counted(d),
         IF d.num[d.sess[k].ip] = 0 THEN Off(d, s, k) ELSE Lower(d, s, k)
  PROVE  Counted(s) /\ Lower(d, s, k)
  <1>0. Entry(d, k)
    BY DEF Active, Entry
  <1>1. PICK a \in Addrs : a = d.sess[k].ip
    BY <1>0, IpEntry
  <1>2. k \in Actives(d, a)
    BY <1>1 DEF Actives
  <1>3. Cardinality(Actives(d, a)) # 0
    BY <1>2, IpFinite, FS_EmptySet
  <1>4. d.num[a] # 0
    BY <1>3 DEF Counted
  <1>5. Lower(d, s, k)
    BY <1>1, <1>4
  <1>6. /\ s.num[a] = d.num[a] - 1
        /\ \A b \in Addrs : b # a => s.num[b] = d.num[b]
        /\ \A l \in Buckets : l # k => s.sess[l] = d.sess[l]
        /\ ~Active(s, k)
    BY <1>1, <1>5 DEF Lower, Active, Entry
  <1>7. Actives(s, a) = Actives(d, a) \ {k}
    BY <1>1, <1>6 DEF Actives, Active
  <1>8. \A b \in Addrs : b # a => Actives(s, b) = Actives(d, b)
    BY <1>1, <1>6 DEF Actives, Active
  <1>9. Cardinality(Actives(s, a)) = Cardinality(Actives(d, a)) - 1
    BY <1>2, <1>7, IpFinite, FS_RemoveElement
  <1> QED
    BY <1>5, <1>6, <1>8, <1>9 DEF Counted

----------------------------------------------------------------------------
(* The stores that give an address away.                                    *)

\* The entry x has been moved to where the port had its own; the port has the
\* entry of x; and it is counted.  "share" is multilink, and leaves x alone.
Moved(d, s, port, x, how) ==
  /\ s.sess[x] # d.sess[x] => s.sess[x] = NoOne \/ s.sess[x] = d.sess[port]
  /\ how = "move" => s.sess[x] = d.sess[port]
  /\ how = "share" => s.sess[x] = d.sess[x]
Cleared(d, s, port, x, how) ==
  /\ s \in Dbs /\ s.num = d.num /\ Moved(d, s, port, x, how)
  /\ \A l \in Buckets : l # x => s.sess[l] = d.sess[l]
PortHas(d, s, port, x, how) ==
  /\ s \in Dbs /\ Active(s, port) /\ s.sess[port].ip = d.sess[x].ip
  /\ \A l \in Buckets : l # x /\ l # port => s.sess[l] = d.sess[l]
  /\ x # port => Moved(d, s, port, x, how)
Put(d, s, port, x, how) == PortHas(d, s, port, x, how) /\ s.num = d.num
Gave(d, s, port, x, how) ==
  /\ PortHas(d, s, port, x, how)
  /\ s.num[d.sess[x].ip] = d.num[d.sess[x].ip] + 1
  /\ \A b \in Addrs : b # d.sess[x].ip => s.num[b] = d.num[b]

LEMMA IpPut ==
  ASSUME NEW d \in Dbs, NEW c \in Dbs, NEW port \in Ports, NEW x \in Buckets, NEW e \in Info, NEW how,
         e.active, e.ip = d.sess[x].ip, d.sess[x].ip \in Addrs, c.num = d.num,
         \A l \in Buckets : l # x => c.sess[l] = d.sess[l],
         x # port => Moved(d, c, port, x, how)
  PROVE  /\ Put(d, Store(c, port, e), port, x, how)
         /\ Gave(d, [Store(c, port, e) EXCEPT !.num[d.sess[x].ip] = @ + 1], port, x, how)
  <1>0. port \in Buckets
    BY DEF Buckets
  <1>1. PICK s : s = Store(c, port, e)
    OBVIOUS
  <1>2. s \in Dbs /\ s.num = d.num /\ s.sess[port] = e /\ \A l \in Buckets : l # port => s.sess[l] = c.sess[l]
    BY <1>0, <1>1, IpStore
  <1>3. e # NoOne
    BY IpPoolAssumption
  <1>4. Put(d, s, port, x, how)
    BY <1>2, <1>3 DEF Put, PortHas, Active, Moved
  <1>8. PICK a \in Addrs : a = d.sess[x].ip
    OBVIOUS
  <1>5. PICK u : u = [s EXCEPT !.num[a] = @ + 1]
    OBVIOUS
  <1>6. /\ u \in Dbs /\ u.sess = s.sess /\ u.num[a] = d.num[a] + 1
        /\ \A b \in Addrs : b # a => u.num[b] = d.num[b]
    BY <1>2, <1>5, IpUp
  <1>7. Gave(d, u, port, x, how)
    BY <1>4, <1>6, <1>8 DEF Put, Gave, PortHas, Active, Moved
  <1> QED
    BY <1>1, <1>4, <1>5, <1>7, <1>8

LEMMA IpGive ==
  ASSUME NEW d \in Dbs, NEW port \in Ports, NEW x \in Entries(d), NEW cli, NEW found \in BOOLEAN, NEW how,
         how = "move" => SameCaller(d, cli) = {} /\ (found <=> Entry(d, port)),
         how = "share" => SameCaller(d, cli) # {}
  PROVE  /\ Give(d, port, x, cli, found) \in Seq(Dbs) /\ Len(Give(d, port, x, cli, found)) \in Nat \ {0}
         /\ Gave(d, Final(Give(d, port, x, cli, found)), port, x, how)
         /\ \A i \in 1 .. Len(Give(d, port, x, cli, found)) :
              \/ Cleared(d, Give(d, port, x, cli, found)[i], port, x, how)
              \/ Put(d, Give(d, port, x, cli, found)[i], port, x, how)
              \/ Gave(d, Give(d, port, x, cli, found)[i], port, x, how)
  <1>0. port \in Buckets /\ x \in Buckets /\ Entry(d, x)
    BY DEF Buckets, Entries, Entry
  <1>1. PICK mppp \in BOOLEAN : mppp = (SameCaller(d, cli) # {})
    OBVIOUS
  <1>2. PICK e : e = [d.sess[x] EXCEPT !.active = TRUE, !.old = FALSE, !.extra = @ \/ mppp]
    OBVIOUS
  <1>3. d.sess[x] \in Info /\ d.sess[x].ip \in Addrs
    BY <1>0, IpEntry
  <1>4. e \in Info /\ e.active /\ e.ip = d.sess[x].ip
    BY <1>2, <1>3 DEF Info
  <1>5. CASE ~mppp /\ (~found \/ d.sess[port] # NoOne)
    <2>1. PICK f : f = IF ~found THEN NoOne ELSE d.sess[port]
      OBVIOUS
    <2>2. PICK c : c = Store(d, x, f)
      OBVIOUS
    <2>3. PICK p : p = Store(c, port, e)
      OBVIOUS
    <2>4. PICK g : g = [p EXCEPT !.num[d.sess[x].ip] = @ + 1]
      OBVIOUS
    <2>5. f \in Info \cup {NoOne}
      BY <1>0, <2>1 DEF Dbs
    <2>6. c \in Dbs /\ c.num = d.num /\ c.sess[x] = f /\ \A l \in Buckets : l # x => c.sess[l] = d.sess[l]
      BY <1>0, <2>2, <2>5, IpStore
    <2>7. Moved(d, c, port, x, how)
      BY <1>1, <1>5, <2>1, <2>6 DEF Moved, Entry
    <2>8. Cleared(d, c, port, x, how)
      BY <2>6, <2>7 DEF Cleared
    <2>9. Put(d, p, port, x, how) /\ Gave(d, g, port, x, how)
      BY <1>0, <1>3, <1>4, <2>3, <2>4, <2>6, <2>7, IpPut
    <2>10. Give(d, port, x, cli, found) = <<c>> \o <<p, g>>
      BY <1>1, <1>2, <1>5, <2>1, <2>2, <2>3, <2>4 DEF Give
    <2>11. p \in Dbs /\ g \in Dbs
      BY <2>9 DEF Put, Gave, PortHas
    <2>12. PICK t : t = <<c>> \o <<p, g>>
      OBVIOUS
    <2>13. /\ <<c>> \in Seq(Dbs) /\ Len(<<c>>) = 1 /\ <<c>>[1] = c
           /\ <<p, g>> \in Seq(Dbs) /\ Len(<<p, g>>) = 2 /\ <<p, g>>[1] = p /\ <<p, g>>[2] = g
      BY <2>6, <2>11
    <2>14. t \in Seq(Dbs) /\ Len(t) = 3 /\ t[1] = c /\ t[2] = p /\ t[3] = g
      BY ONLY <2>12, <2>13, ConcatProperties
    <2>15. \A i \in 1 .. 3 : i = 1 \/ i = 2 \/ i = 3
      OBVIOUS
    <2> QED
      BY <2>8, <2>9, <2>10, <2>12, <2>14, <2>15 DEF Final
  <1>6. CASE mppp \/ (found /\ d.sess[port] = NoOne)
    <2>3. PICK p : p = Store(d, port, e)
      OBVIOUS
    <2>4. PICK g : g = [p EXCEPT !.num[d.sess[x].ip] = @ + 1]
      OBVIOUS
    <2>7. Moved(d, d, port, x, how)
      BY <1>1, <1>6 DEF Moved, Entry
    <2>9. Put(d, p, port, x, how) /\ Gave(d, g, port, x, how)
      BY <1>0, <1>3, <1>4, <2>3, <2>4, <2>7, IpPut
    <2>11. p \in Dbs /\ g \in Dbs
      BY <2>9 DEF Put, Gave, PortHas
    <2>10. Give(d, port, x, cli, found) = <<>> \o <<p, g>>
      BY <1>1, <1>2, <1>6, <2>3, <2>4 DEF Give
    <2>12. <<>> \o <<p, g>> = <<p, g>>
      BY <2>11
    <2>13. <<p, g>> \in Seq(Dbs) /\ Len(<<p, g>>) = 2 /\ \A i \in 1 .. 2 : i = 1 \/ i = 2
      BY <2>11
    <2> QED
      BY <2>9, <2>10, <2>12, <2>13 DEF Final
  <1> QED
    BY <1>5, <1>6

LEMMA IpFreeEntry ==
  ASSUME NEW d \in Dbs, NEW x \in FreeEntries(d)
  PROVE  x \in Entries(d) /\ x \in Buckets /\ Entry(d, x) /\ d.num[d.sess[x].ip] = 0 /\ d.sess[x].ip \in Addrs
  BY IpEntry DEF FreeEntries, Available, Entries, Entry

LEMMA IpClearedSound ==
  ASSUME NEW d \in Dbs, NEW s, NEW port \in Ports, ~Active(d, port), NEW x \in FreeEntries(d),
         Cleared(d, s, port, x, "move"), Sound(d)
  PROVE  Sound(s)
  <1>0. port \in Buckets /\ x \in Buckets
    BY IpFreeEntry DEF Buckets
  <1>1. s.num = d.num /\ s.sess[x] = d.sess[port] /\ \A l \in Buckets : l # x => s.sess[l] = d.sess[l]
    BY DEF Cleared, Moved
  <1>2. ASSUME NEW i \in Buckets, NEW l \in Buckets, i # l, Active(s, i), Entry(s, l), s.sess[l].ip = s.sess[i].ip
        PROVE  ~s.sess[l].active /\ s.num[s.sess[i].ip] = 1
    <2>1. i # x /\ i # port /\ s.sess[i] = d.sess[i] /\ Active(d, i)
      BY <1>1, <1>2 DEF Active
    <2>2. CASE l # x
      BY <1>1, <1>2, <2>1, <2>2 DEF Sound, Entry
    <2>3. CASE l = x
      BY <1>0, <1>1, <1>2, <2>1, <2>3 DEF Sound, Entry
    <2> QED
      BY <2>2, <2>3
  <1> QED
    BY <1>1, <1>2 DEF Sound

LEMMA IpPutSound ==
  ASSUME NEW d \in Dbs, NEW s, NEW port \in Ports, ~Active(d, port), NEW x \in FreeEntries(d),
         Put(d, s, port, x, "move"), Whole(d)
  PROVE  Sound(s)
  <1>0. port \in Buckets /\ x \in Buckets /\ Entry(d, x)
    BY IpFreeEntry DEF Buckets
  <1>1. PICK a \in Addrs : a = d.sess[x].ip
    BY IpFreeEntry
  <1>2. /\ s.num = d.num /\ (x # port => s.sess[x] = d.sess[port]) /\ Active(s, port) /\ s.sess[port].ip = a
        /\ \A l \in Buckets : l # x /\ l # port => s.sess[l] = d.sess[l]
    BY <1>1 DEF Put, PortHas, Moved
  <1>3. \A l \in Buckets : Entry(d, l) /\ d.sess[l].ip = a => l = x
    BY <1>0, <1>1 DEF Whole, Single
  <1>4. \A l \in Buckets : Entry(s, l) /\ s.sess[l].ip = a => l = port
    BY <1>0, <1>2, <1>3 DEF Entry
  <1>5. Sound(d)
    BY IpWholeIsSound
  <1>6. ASSUME NEW i \in Buckets, NEW l \in Buckets, i # l, Active(s, i), Entry(s, l), s.sess[l].ip = s.sess[i].ip
        PROVE  ~s.sess[l].active /\ s.num[s.sess[i].ip] = 1
    <2>1. s.sess[i].ip # a
      BY <1>4, <1>6 DEF Active, Entry
    <2>2. i # port /\ l # port
      BY <1>2, <1>6, <2>1
    <2>3. i # x /\ s.sess[i] = d.sess[i] /\ Active(d, i)
      BY <1>2, <1>6, <2>2 DEF Active
    <2>4. CASE l # x
      BY <1>2, <1>5, <1>6, <2>2, <2>3, <2>4 DEF Sound, Entry
    <2>5. CASE l = x
      BY <1>0, <1>2, <1>5, <1>6, <2>2, <2>3, <2>5 DEF Sound, Entry
    <2> QED
      BY <2>4, <2>5
  <1> QED
    BY <1>2, <1>5, <1>6 DEF Sound

LEMMA IpGaveSound ==
  ASSUME NEW d \in Dbs, NEW s, NEW port \in Ports, ~Active(d, port), NEW x \in FreeEntries(d),
         Gave(d, s, port, x, "move"), Sound(d)
  PROVE  Sound(s)
  <1>0. port \in Buckets /\ x \in Buckets /\ Entry(d, x)
    BY IpFreeEntry DEF Buckets
  <1>1. PICK a \in Addrs : a = d.sess[x].ip
    BY IpFreeEntry
  <1>2. /\ s.num[a] = 1 /\ d.num[a] = 0 /\ (x # port => s.sess[x] = d.sess[port])
        /\ \A b \in Addrs : b # a => s.num[b] = d.num[b]
        /\ Active(s, port) /\ s.sess[port].ip = a
        /\ \A l \in Buckets : l # x /\ l # port => s.sess[l] = d.sess[l]
    BY <1>1, IpFreeEntry DEF Gave, PortHas, Moved
  <1>3. \A b \in Addrs : s.num[b] \in {0, 1}
    BY <1>2 DEF Sound
  <1>4. \A l \in Buckets : Active(s, l) /\ l # port => Active(d, l) /\ l # x /\ s.sess[l] = d.sess[l]
    BY <1>0, <1>2 DEF Active
  <1>5. \A l \in Buckets : Active(s, l) /\ l # port => s.sess[l].ip # a
    BY <1>0, <1>1, <1>2, <1>4 DEF Sound
  <1>6. ASSUME NEW i \in Buckets, NEW l \in Buckets, i # l, Active(s, i), Entry(s, l), s.sess[l].ip = s.sess[i].ip
        PROVE  ~s.sess[l].active /\ s.num[s.sess[i].ip] = 1
    <2>1. CASE i = port
      BY <1>2, <1>5, <1>6, <2>1 DEF Active, Entry
    <2>2. CASE i # port
      <3>1. Active(d, i) /\ i # x /\ s.sess[i] = d.sess[i] /\ s.sess[i].ip # a
        BY <1>4, <1>5, <1>6, <2>2
      <3>2. l # port
        BY <1>2, <1>6, <3>1
      <3>3. d.sess[i].ip \in Addrs
        BY <3>1, IpEntry DEF Active, Entry
      <3>4. CASE l # x
        BY <1>2, <1>6, <3>1, <3>2, <3>3, <3>4 DEF Sound, Entry
      <3>5. CASE l = x
        BY <1>0, <1>2, <1>6, <2>2, <3>1, <3>2, <3>3, <3>5 DEF Sound, Entry
      <3> QED
        BY <3>4, <3>5
    <2> QED
      BY <2>1, <2>2
  <1> QED
    BY <1>3, <1>6 DEF Sound

LEMMA IpGaveWhole ==
  ASSUME NEW d \in Dbs, NEW s, NEW port \in Ports, ~Active(d, port), NEW x \in FreeEntries(d),
         Gave(d, s, port, x, "move"), Whole(d)
  PROVE  Whole(s)
  <1>0. port \in Buckets /\ x \in Buckets /\ Entry(d, x)
    BY IpFreeEntry DEF Buckets
  <1>1. PICK a \in Addrs : a = d.sess[x].ip
    BY IpFreeEntry
  <1>2. /\ s.num[a] = 1 /\ (x # port => s.sess[x] = d.sess[port])
        /\ \A b \in Addrs : b # a => s.num[b] = d.num[b]
        /\ Active(s, port) /\ s.sess[port].ip = a
        /\ \A l \in Buckets : l # x /\ l # port => s.sess[l] = d.sess[l]
    BY <1>1, IpFreeEntry DEF Gave, PortHas, Moved
  <1>3. \A l \in Buckets : Entry(d, l) /\ d.sess[l].ip = a => l = x
    BY <1>0, <1>1 DEF Whole, Single
  <1>4. ASSUME NEW b \in Addrs
        PROVE  \E j \in Buckets : Single(s, j, b) /\ s.num[b] = IF s.sess[j].active THEN 1 ELSE 0
    <2>1. CASE b = a
      <3>1. \A l \in Buckets : Entry(s, l) /\ s.sess[l].ip = a => l = port
        BY <1>0, <1>2, <1>3 DEF Entry
      <3>2. Single(s, port, a)
        BY <1>0, <1>2, <3>1 DEF Single, Active, Entry
      <3> QED
        BY <1>0, <1>2, <2>1, <3>2 DEF Active
    <2>2. CASE b # a
      <3>1. PICK j \in Buckets : Single(d, j, b) /\ d.num[b] = IF d.sess[j].active THEN 1 ELSE 0
        BY DEF Whole
      <3>2. j # x
        BY <1>1, <2>2, <3>1 DEF Single
      <3>3. CASE j = port
        <4>1. Single(s, x, b)
          BY <1>0, <1>2, <2>2, <3>1, <3>2, <3>3 DEF Single, Entry
        <4> QED
          BY <1>0, <1>2, <2>2, <3>1, <3>2, <3>3, <4>1
      <3>4. CASE j # port
        <4>1. Single(s, j, b)
          BY <1>0, <1>2, <2>2, <3>1, <3>2, <3>4 DEF Single, Entry
        <4> QED
          BY <1>2, <2>2, <3>1, <3>2, <3>4, <4>1
      <3> QED
        BY <3>3, <3>4
    <2> QED
      BY <2>1, <2>2
  <1> QED
    BY <1>4 DEF Whole

LEMMA IpGaveCounted ==
  ASSUME NEW d \in Dbs, NEW s, NEW port \in Ports, ~Active(d, port), NEW x \in Entries(d), NEW how,
         Gave(d, s, port, x, how), how = "share" \/ x \in FreeEntries(d), Counted(d)
  PROVE  /\ Counted(s)
         /\ \A l \in Buckets : Active(d, l) => s.sess[l] = d.sess[l]
         /\ how # "share" => \A l \in Buckets : Active(d, l) => d.sess[l].ip # d.sess[x].ip
  <1>0. port \in Buckets /\ x \in Buckets /\ Entry(d, x)
    BY DEF Buckets, Entries, Entry
  <1>1. PICK a \in Addrs : a = d.sess[x].ip
    BY <1>0, IpEntry
  <1>2. /\ s.num[a] = d.num[a] + 1
        /\ \A b \in Addrs : b # a => s.num[b] = d.num[b]
        /\ Active(s, port) /\ s.sess[port].ip = a
        /\ \A l \in Buckets : l # x /\ l # port => s.sess[l] = d.sess[l]
        /\ x # port => Moved(d, s, port, x, how)
    BY <1>1 DEF Gave, PortHas
  <1>3. x \in FreeEntries(d) => \A l \in Buckets : Active(d, l) => d.sess[l].ip # a
    <2>1. SUFFICES ASSUME x \in FreeEntries(d), NEW l \in Buckets, Active(d, l), d.sess[l].ip = a PROVE FALSE
      OBVIOUS
    <2>2. l \in Actives(d, a)
      BY <2>1 DEF Actives
    <2>3. Cardinality(Actives(d, a)) # 0
      BY <2>2, IpFinite, FS_EmptySet
    <2>4. d.num[a] = 0
      BY <1>1, <2>1, IpFreeEntry
    <2> QED
      BY <2>3, <2>4 DEF Counted
  <1>4. x # port => (Active(s, x) <=> Active(d, x)) /\ (Active(d, x) => s.sess[x] = d.sess[x])
    <2>1. CASE how = "share"
      BY <1>2, <2>1 DEF Moved, Active
    <2>2. CASE x \in FreeEntries(d)
      <3>1. ~Active(d, x)
        BY <1>0, <1>1, <1>3, <2>2
      <3>2. x # port => ~Active(s, x)
        BY <1>2, <3>1 DEF Moved, Active
      <3> QED
        BY <3>1, <3>2
    <2> QED
      BY <2>1, <2>2
  <1>5. \A l \in Buckets : l # port => (Active(s, l) <=> Active(d, l)) /\ (Active(d, l) => s.sess[l] = d.sess[l])
    BY <1>2, <1>4 DEF Active
  <1>6. Actives(s, a) = Actives(d, a) \cup {port} /\ port \notin Actives(d, a)
    BY <1>0, <1>2, <1>5 DEF Actives
  <1>7. \A b \in Addrs : b # a => Actives(s, b) = Actives(d, b)
    BY <1>0, <1>2, <1>5 DEF Actives
  <1>8. Cardinality(Actives(s, a)) = Cardinality(Actives(d, a)) + 1
    BY <1>6, IpFinite, FS_AddElement
  <1>9. Counted(s)
    BY <1>2, <1>7, <1>8 DEF Counted
  <1> QED
    BY <1>0, <1>1, <1>3, <1>5, <1>9

\* The sessions of other ports keep their entries and their counts.
Untouched(d, s, port) ==
  \A p \in Buckets : p # port /\ Active(d, p) /\ d.num[d.sess[p].ip] = 1 =>
    s.sess[p] = d.sess[p] /\ s.num[d.sess[p].ip] = 1

LEMMA IpReleased ==
  ASSUME NEW d \in Dbs, NEW s, NEW k \in Buckets, Active(d, k), Sound(d), Off(d, s, k) \/ Lower(d, s, k)
  PROVE  Sound(s) /\ Untouched(d, s, k) /\ Entry(s, k)
  <1>0. Entry(d, k)
    BY DEF Active, Entry
  <1>1. CASE Off(d, s, k)
    BY <1>0, <1>1, IpOffSound DEF Off, Untouched
  <1>2. CASE Lower(d, s, k)
    <2>1. d.sess[k].ip \in Addrs /\ d.num[d.sess[k].ip] \in {0, 1}
      BY <1>0, IpEntry DEF Sound
    <2>2. s.num[d.sess[k].ip] = 0
      BY <1>2, <2>1 DEF Lower
    <2>3. \A p \in Buckets : p # k /\ Active(d, p) => d.sess[p].ip # d.sess[k].ip /\ d.sess[p].ip \in Addrs
      BY <1>0, IpEntry DEF Sound, Active, Entry
    <2>4. Untouched(d, s, k)
      BY <1>2, <2>3 DEF Untouched, Lower
    <2> QED
      BY <1>2, <2>2, <2>4, IpLowerSound DEF Lower
  <1> QED
    BY <1>1, <1>2

LEMMA IpGiveUntouched ==
  ASSUME NEW d \in Dbs, NEW s, NEW port \in Ports, NEW x \in FreeEntries(d), NEW how,
         Cleared(d, s, port, x, how) \/ Put(d, s, port, x, how) \/ Gave(d, s, port, x, how)
  PROVE  Untouched(d, s, port)
  <1>1. d.num[d.sess[x].ip] = 0
    BY IpFreeEntry
  <1>2. SUFFICES ASSUME NEW p \in Buckets, p # port, Active(d, p), d.num[d.sess[p].ip] = 1
                 PROVE  s.sess[p] = d.sess[p] /\ s.num[d.sess[p].ip] = 1
    BY DEF Untouched
  <1>3. p # x /\ d.sess[p].ip # d.sess[x].ip /\ d.sess[p].ip \in Addrs
    BY <1>1, <1>2, IpEntry DEF Active, Entry
  <1>4. CASE Cleared(d, s, port, x, how)
    BY <1>2, <1>3, <1>4 DEF Cleared
  <1>5. CASE Put(d, s, port, x, how)
    BY <1>2, <1>3, <1>5 DEF Put, PortHas
  <1>6. CASE Gave(d, s, port, x, how)
    BY <1>2, <1>3, <1>6 DEF Gave, PortHas
  <1> QED
    BY <1>4, <1>5, <1>6

\* Cleaning a stale entry.
LEMMA IpCleaned ==
  ASSUME db \in Dbs, NEW port \in Ports
  PROVE  /\ Cleaned(port) \in Seq(Dbs) /\ Len(Cleaned(port)) \in Nat \ {0} /\ Final(Cleaned(port)) \in Dbs
         /\ ~Active(Final(Cleaned(port)), port)
         /\ \A l \in Buckets : l # port => Final(Cleaned(port)).sess[l] = db.sess[l]
         /\ Counted(db) => Counted(Final(Cleaned(port)))
         /\ Whole(db) => Whole(Final(Cleaned(port)))
         /\ Sound(db) => \A i \in 1 .. Len(Cleaned(port)) :
              Sound(Cleaned(port)[i]) /\ Untouched(db, Cleaned(port)[i], port)
         /\ Sound(db) => /\ Sound(Final(Cleaned(port))) /\ Untouched(db, Final(Cleaned(port)), port)
                         /\ Entry(Final(Cleaned(port)), port) <=> Entry(db, port)
  <1>0. port \in Buckets
    BY DEF Buckets
  <1>1. CASE Active(db, port)
    <2>1. Entry(db, port)
      BY <1>1 DEF Active, Entry
    <2>2. PICK c : c = Release(db, port)
      OBVIOUS
    <2>3. Cleaned(port) = c
      BY <1>1, <2>2 DEF Cleaned, Active
    <2>4. /\ c \in Seq(Dbs) /\ Len(c) \in Nat \ {0}
          /\ \A i \in 1 .. Len(c) : Off(db, c[i], port) \/ Lower(db, c[i], port)
          /\ IF db.num[db.sess[port].ip] = 0 THEN Off(db, Final(c), port) ELSE Lower(db, Final(c), port)
      BY <1>0, <2>1, <2>2, IpRelease
    <2>5. PICK f : f = Final(c)
      OBVIOUS
    <2>6. /\ Off(db, f, port) \/ Lower(db, f, port)
          /\ IF db.num[db.sess[port].ip] = 0 THEN Off(db, f, port) ELSE Lower(db, f, port)
      BY <2>4, <2>5
    <2>7. f \in Dbs /\ ~Active(f, port) /\ \A l \in Buckets : l # port => f.sess[l] = db.sess[l]
      BY <2>6 DEF Off, Lower, Active, Entry
    <2>8. (Counted(db) => Counted(f)) /\ (Whole(db) => Whole(f))
      BY <1>0, <1>1, <2>1, <2>6, IpLowerCounted, IpReleaseWhole
    <2>9. Sound(db) => /\ \A i \in 1 .. Len(c) : Sound(c[i]) /\ Untouched(db, c[i], port)
                       /\ Sound(f) /\ Untouched(db, f, port) /\ Entry(f, port)
      BY <1>0, <1>1, <2>4, <2>6, IpReleased
    <2> QED
      BY <2>1, <2>3, <2>4, <2>5, <2>7, <2>8, <2>9
  <1>2. CASE ~Active(db, port)
    <2>1. Cleaned(port) = <<db>>
      BY <1>2 DEF Cleaned, Active
    <2>2. <<db>> \in Seq(Dbs) /\ Len(<<db>>) = 1 /\ Final(<<db>>) = db /\ \A i \in 1 .. Len(<<db>>) : <<db>>[i] = db
      BY DEF Final
    <2>3. Untouched(db, db, port)
      BY DEF Untouched
    <2> QED
      BY <1>2, <2>1, <2>2, <2>3
  <1> QED
    BY <1>1, <1>2

----------------------------------------------------------------------------
(* The steps.                                                               *)

LEMMA IpWholeCounts ==
  ASSUME NEW d \in Dbs, Whole(d), NEW k \in Buckets, Active(d, k)
  PROVE  d.num[d.sess[k].ip] = 1
  <1>1. Entry(d, k) /\ d.sess[k].active
    BY DEF Active, Entry
  <1>2. PICK a \in Addrs : a = d.sess[k].ip
    BY <1>1, IpEntry
  <1>3. PICK l \in Buckets : Single(d, l, a) /\ d.num[a] = IF d.sess[l].active THEN 1 ELSE 0
    BY DEF Whole
  <1>4. l = k
    BY <1>1, <1>2, <1>3 DEF Single
  <1> QED
    BY <1>1, <1>2, <1>3, <1>4

\* A packet that leaves the port with the session l, or with none.
LEMMA IpSession ==
  ASSUME IpInv, NEW port \in Ports, NEW l \in Lease \cup {NoOne}, NEW s \in Dbs, db' = s, ip_conf' = ip_conf,
         crashes' = crashes \/ crashes' = crashes + 1, crashes' <= ip_conf.crash,
         lease' \in [Ports -> Lease \cup {NoOne}], stops' \subseteq Ports,
         ~ip_conf.late => lease' = [lease EXCEPT ![port] = l] /\ stops' = stops \ {port},
         ~ip_conf.late /\ ~ip_conf.others /\ crashes' = 0 =>
            /\ Counted(s) /\ \A p \in Ports : p # port /\ Active(db, p) => s.sess[p] = db.sess[p]
            /\ l # NoOne => /\ Active(s, port) /\ s.sess[port].ip = l.ip
                            /\ \/ l.cli = Zero
                               \/ \A p \in Ports : p # port /\ Active(db, p) => db.sess[p].ip # l.ip,
         ~ip_conf.zero /\ crashes' = 0 =>
            /\ Whole(s) /\ \A p \in Ports : p # port /\ Active(db, p) => s.sess[p] = db.sess[p]
            /\ l # NoOne => Active(s, port) /\ s.sess[port].ip = l.ip,
         ~ip_conf.late /\ ~ip_conf.others /\ ~ip_conf.zero /\ crashes' <= 1 =>
            /\ Sound(s) /\ Untouched(db, s, port)
            /\ l # NoOne => Active(s, port) /\ s.sess[port].ip = l.ip /\ s.num[l.ip] = 1
  PROVE  IpInv'
  <1>1. IpTyped
    BY DEF IpInv
  <1>2. IpTyped'
    BY <1>1 DEF IpTyped, Dbs, Buckets, Info, Lease, IpConf
  <1>3. ~ip_conf.late' => \A p \in stops' : lease'[p] = NoOne
    BY <1>1 DEF IpInv, IpTyped
  <1>4. ~ip_conf.late =>
          /\ lease'[port] = l /\ port \notin stops'
          /\ \A p \in Ports : p # port => lease'[p] = lease[p] /\ (p \in stops' <=> p \in stops)
    BY <1>1 DEF IpTyped
  <1>5. Ports \subseteq Buckets
    BY DEF Buckets
  <1>6. ~ip_conf.late' /\ ~ip_conf.others' /\ crashes' = 0 => Held(db)' /\ Counted(db)' /\ Apart'
    <2>1. SUFFICES ASSUME ~ip_conf.late, ~ip_conf.others, crashes' = 0 PROVE Held(db)' /\ Counted(db)' /\ Apart'
      OBVIOUS
    <2>2. crashes = 0
      BY <1>1, <2>1 DEF IpTyped
    <2>3. Held(db) /\ Apart
      BY <2>1, <2>2 DEF IpInv
    <2>4. Counted(db)'
      BY <2>1 DEF Counted, Actives, Active, Buckets
    <2>5. Held(db)'
      BY <1>4, <2>1, <2>3 DEF Held, Active
    <2>6. Apart'
      <3>1. \A p \in Ports : p # port /\ lease'[p] # NoOne => Active(db, p) /\ db.sess[p].ip = lease'[p].ip
        BY <1>4, <2>1, <2>3 DEF Held
      <3> QED
        BY <1>4, <2>1, <2>3, <3>1 DEF Apart
    <2> QED
      BY <2>4, <2>5, <2>6
  <1>7. ~ip_conf.zero' /\ crashes' = 0 => Whole(db)'
    BY DEF Whole, Single, Entry, Buckets
  <1>9. ~ip_conf.zero' /\ crashes' = 0 /\ ~ip_conf.late' => Leased(db)'
    <2>1. SUFFICES ASSUME ~ip_conf.late, ~ip_conf.zero, crashes' = 0 PROVE Leased(db)'
      OBVIOUS
    <2>2. crashes = 0
      BY <1>1, <2>1 DEF IpTyped
    <2>3. Leased(db) /\ Whole(db)
      BY <2>1, <2>2 DEF IpInv
    <2>5. \A p \in Ports : p # port /\ lease'[p] # NoOne => s.sess[p] = db.sess[p] /\ Active(db, p) /\ db.sess[p].ip = lease'[p].ip
      BY <1>4, <2>1, <2>3 DEF Leased
    <2> QED
      BY <1>4, <2>1, <2>5 DEF Leased, Active
  <1>8. ~ip_conf.late' /\ ~ip_conf.others' /\ ~ip_conf.zero' /\ crashes' <= 1 => Held(db)' /\ HeldIsCounted(db)' /\ Sound(db)'
    <2>1. SUFFICES ASSUME ~ip_conf.late, ~ip_conf.others, ~ip_conf.zero, crashes' <= 1 PROVE Held(db)' /\ HeldIsCounted(db)' /\ Sound(db)'
      OBVIOUS
    <2>2. crashes <= 1
      BY <1>1, <2>1 DEF IpTyped
    <2>3. Held(db) /\ HeldIsCounted(db)
      BY <2>1, <2>2 DEF IpInv
    <2>4. Sound(db)'
      BY <2>1 DEF Sound, Active, Entry, Buckets
    <2>5. \A p \in Ports : p # port /\ (lease'[p] # NoOne \/ p \in stops') =>
            /\ Active(db, p) /\ s.sess[p] = db.sess[p] /\ s.num[s.sess[p].ip] = 1
            /\ lease'[p] # NoOne => db.sess[p].ip = lease'[p].ip
      BY <1>4, <1>5, <2>1, <2>3 DEF Held, HeldIsCounted, Untouched
    <2>6. Held(db)'
      BY <1>4, <2>1, <2>5 DEF Held, Active
    <2>7. HeldIsCounted(db)'
      BY <1>4, <2>1, <2>5 DEF HeldIsCounted
    <2> QED
      BY <2>4, <2>6, <2>7
  <1> QED
    BY <1>2, <1>3, <1>6, <1>7, <1>8, <1>9 DEF IpInv

LEMMA IpNewSession ==
  ASSUME IpInv, NEW port \in Ports, NEW l \in Lease \cup {NoOne}, NewSession(port, l)
  PROVE  /\ ip_conf' = ip_conf /\ lease' \in [Ports -> Lease \cup {NoOne}] /\ stops' \subseteq Ports
         /\ ~ip_conf.late => lease' = [lease EXCEPT ![port] = l] /\ stops' = stops \ {port}
  <1>1. lease \in [Ports -> Lease \cup {NoOne}] /\ stops \subseteq Ports
    BY DEF IpInv, IpTyped
  <1>2. lease' = [lease EXCEPT ![port] = l] /\ stops' = (IF ip_conf.late THEN stops ELSE stops \ {port}) /\ ip_conf' = ip_conf
    BY DEF NewSession
  <1>3. lease' \in [Ports -> Lease \cup {NoOne}]
    BY <1>1, <1>2
  <1> QED
    BY <1>1, <1>2, <1>3

\* What the invariant says of the files.
LEMMA IpFiles ==
  ASSUME IpInv
  PROVE  /\ db \in Dbs /\ crashes \in Nat /\ crashes <= ip_conf.crash /\ ip_conf.crash \in Nat
         /\ ~ip_conf.late /\ ~ip_conf.others /\ crashes = 0 => Counted(db)
         /\ ~ip_conf.zero /\ crashes = 0 => Whole(db) /\ Sound(db)
         /\ ~ip_conf.late /\ ~ip_conf.others /\ ~ip_conf.zero /\ crashes <= 1 => Sound(db)
  BY IpWholeIsSound DEF IpInv, IpTyped, IpConf

LEMMA IpRunPart ==
  ASSUME IpInv, NEW steps \in Seq(Dbs), RunPart(steps)
  PROVE  /\ crashes' = crashes + 1 /\ crashes' <= ip_conf.crash /\ crashes' # 0
         /\ crashes' <= 1 => crashes = 0
         /\ \E i \in 1 .. Len(steps) : db' = steps[i] /\ steps[i] \in Dbs
  <1>1. crashes \in Nat /\ ip_conf.crash \in Nat
    BY IpFiles
  <1>2. crashes < ip_conf.crash /\ crashes' = crashes + 1 /\ \E i \in 1 .. Len(steps) : db' = steps[i]
    BY DEF RunPart
  <1> QED
    BY <1>1, <1>2

LEMMA IpHasAddress ==
  ASSUME IpInv, NEW port \in Ports, HasAddress(port)
  PROVE  IpInv'
  <1>1. PICK c : c = Cleaned(port)
    OBVIOUS
  <1>2. PICK f : f = Final(c)
    OBVIOUS
  <1>3. db \in Dbs /\ crashes \in Nat /\ crashes <= ip_conf.crash
    BY IpFiles
  <1>4. /\ c \in Seq(Dbs) /\ f \in Dbs
        /\ \A l \in Buckets : l # port => f.sess[l] = db.sess[l]
        /\ Counted(db) => Counted(f)
        /\ Whole(db) => Whole(f)
        /\ Sound(db) => \A i \in 1 .. Len(c) : Sound(c[i]) /\ Untouched(db, c[i], port)
        /\ Sound(db) => Sound(f) /\ Untouched(db, f, port)
    BY <1>1, <1>2, <1>3, IpCleaned
  <1>5. PICK l : l = NoOne
    OBVIOUS
  <1>6. /\ ip_conf' = ip_conf /\ lease' \in [Ports -> Lease \cup {NoOne}] /\ stops' \subseteq Ports
        /\ ~ip_conf.late => lease' = [lease EXCEPT ![port] = l] /\ stops' = stops \ {port}
    BY <1>5, IpNewSession DEF HasAddress
  <1>7. CASE Run(c)
    <2>1. db' = f /\ crashes' = crashes
      BY <1>2, <1>7 DEF Run
    <2>2. ~ip_conf.late /\ ~ip_conf.others /\ crashes' = 0 => Counted(f) /\ \A p \in Ports : p # port /\ Active(db, p) => f.sess[p] = db.sess[p]
      BY <1>4, <2>1, IpFiles DEF Buckets
    <2>3. ~ip_conf.zero /\ crashes' = 0 => Whole(f) /\ \A p \in Ports : p # port /\ Active(db, p) => f.sess[p] = db.sess[p]
      BY <1>4, <2>1, IpFiles DEF Buckets
    <2>4. ~ip_conf.late /\ ~ip_conf.others /\ ~ip_conf.zero /\ crashes' <= 1 => Sound(f) /\ Untouched(db, f, port)
      BY <1>4, <2>1, IpFiles
    <2> QED
      BY <1>3, <1>4, <1>5, <1>6, <2>1, <2>2, <2>3, <2>4, IpSession
  <1>8. CASE RunPart(c)
    <2>1. /\ crashes' = crashes + 1 /\ crashes' <= ip_conf.crash /\ crashes' # 0 /\ (crashes' <= 1 => crashes = 0)
          /\ \E i \in 1 .. Len(c) : db' = c[i] /\ c[i] \in Dbs
      BY <1>4, <1>8, IpRunPart
    <2>2. PICK i \in 1 .. Len(c) : db' = c[i] /\ c[i] \in Dbs
      BY <2>1
    <2>3. PICK s \in Dbs : s = c[i]
      BY <2>2
    <2>4. ~ip_conf.late /\ ~ip_conf.others /\ ~ip_conf.zero /\ crashes' <= 1 => Sound(s) /\ Untouched(db, s, port)
      BY <1>4, <2>1, <2>3, IpFiles
    <2> QED
      BY <1>5, <1>6, <2>1, <2>2, <2>3, <2>4, IpSession
  <1> QED
    BY <1>1, <1>7, <1>8 DEF HasAddress

LEMMA IpNotFound ==
  ASSUME IpInv, NEW port \in Ports, NEW cli, NotFound(port, cli)
  PROVE  IpInv'
  <1>2. PICK f : f = Final(Cleaned(port))
    OBVIOUS
  <1>3. db \in Dbs /\ crashes \in Nat /\ crashes <= ip_conf.crash
    BY IpFiles
  <1>4. /\ f \in Dbs
        /\ \A l \in Buckets : l # port => f.sess[l] = db.sess[l]
        /\ Counted(db) => Counted(f)
        /\ Whole(db) => Whole(f)
        /\ Sound(db) => Sound(f) /\ Untouched(db, f, port)
    BY <1>2, <1>3, IpCleaned
  <1>5. PICK l : l = NoOne
    OBVIOUS
  <1>6. /\ ip_conf' = ip_conf /\ lease' \in [Ports -> Lease \cup {NoOne}] /\ stops' \subseteq Ports
        /\ ~ip_conf.late => lease' = [lease EXCEPT ![port] = l] /\ stops' = stops \ {port}
    BY <1>5, IpNewSession DEF NotFound
  <1>7. Final(<<f>>) = f
    BY DEF Final
  <1>8. db' = f /\ crashes' = crashes
    BY <1>2, <1>7 DEF NotFound, Run
  <1>9. ~ip_conf.late /\ ~ip_conf.others /\ crashes' = 0 => Counted(f) /\ \A p \in Ports : p # port /\ Active(db, p) => f.sess[p] = db.sess[p]
    BY <1>4, <1>8, IpFiles DEF Buckets
  <1>10. ~ip_conf.zero /\ crashes' = 0 => Whole(f) /\ \A p \in Ports : p # port /\ Active(db, p) => f.sess[p] = db.sess[p]
    BY <1>4, <1>8, IpFiles DEF Buckets
  <1>11. ~ip_conf.late /\ ~ip_conf.others /\ ~ip_conf.zero /\ crashes' <= 1 => Sound(f) /\ Untouched(db, f, port)
    BY <1>4, <1>8, IpFiles
  <1> QED
    BY <1>3, <1>4, <1>5, <1>6, <1>8, <1>9, <1>10, <1>11, IpSession

LEMMA IpUntouchedTwice ==
  ASSUME NEW c \in Dbs, NEW d \in Dbs, NEW s \in Dbs, NEW port, Untouched(c, d, port), Untouched(d, s, port)
  PROVE  Untouched(c, s, port)
  BY DEF Untouched, Active

\* Who has the Calling-Station-Id of an entry calls from "0".
LEMMA IpSameCaller ==
  ASSUME NEW d \in Dbs, NEW cli
  PROVE  SameCaller(d, cli) \subseteq Entries(d) /\ (SameCaller(d, cli) # {} => cli = Zero)
  BY DEF SameCaller, Entries, Dbs, Info

LEMMA IpAllocate ==
  ASSUME IpInv, NEW port \in Ports, NEW cli \in Callers, cli = Zero => ip_conf.zero, Allocate(port, cli)
  PROVE  IpInv'
  <1>1. PICK c : c = Cleaned(port)
    OBVIOUS
  <1>2. PICK d : d = Final(c)
    OBVIOUS
  <1>3. db \in Dbs /\ crashes \in Nat /\ crashes <= ip_conf.crash
    BY IpFiles
  <1>4. /\ c \in Seq(Dbs) /\ d \in Dbs /\ ~Active(d, port)
        /\ \A l \in Buckets : l # port => d.sess[l] = db.sess[l]
        /\ Counted(db) => Counted(d)
        /\ Whole(db) => Whole(d)
        /\ Sound(db) => \A i \in 1 .. Len(c) : Sound(c[i]) /\ Untouched(db, c[i], port)
        /\ Sound(db) => Sound(d) /\ Untouched(db, d, port) /\ (Entry(d, port) <=> Entry(db, port))
    BY <1>1, <1>2, <1>3, IpCleaned
  <1>5. PICK found \in BOOLEAN : found = (db.sess[port] # NoOne)
    OBVIOUS
  <1>6. PICK x \in Usable(d, cli) :
          \/ Run(Give(d, port, x, cli, found)) /\ NewSession(port, [ip |-> d.sess[x].ip, cli |-> cli])
          \/ RunPart(c \o Give(d, port, x, cli, found)) /\ NewSession(port, NoOne)
    BY <1>1, <1>2, <1>5 DEF Allocate
  <1>7. PICK how : how = IF SameCaller(d, cli) # {} THEN "share" ELSE IF found <=> Entry(d, port) THEN "move" ELSE "any"
    OBVIOUS
  <1>8. x \in Entries(d) /\ (how # "share" => x \in FreeEntries(d)) /\ (how = "share" => cli = Zero)
    BY <1>4, <1>7, IpSameCaller, IpFreeEntry DEF Usable
  <1>9. PICK steps : steps = Give(d, port, x, cli, found)
    OBVIOUS
  <1>10. /\ steps \in Seq(Dbs) /\ Len(steps) \in Nat \ {0} /\ Gave(d, Final(steps), port, x, how)
         /\ \A i \in 1 .. Len(steps) :
              Cleared(d, steps[i], port, x, how) \/ Put(d, steps[i], port, x, how) \/ Gave(d, steps[i], port, x, how)
    <2>1. how = "move" => SameCaller(d, cli) = {} /\ (found <=> Entry(d, port))
      BY <1>7
    <2>2. how = "share" => SameCaller(d, cli) # {}
      BY <1>7
    <2> QED
      BY <1>4, <1>8, <1>9, <2>1, <2>2, IpGive
  <1>11. ~ip_conf.zero /\ Sound(db) => how = "move" /\ x \in FreeEntries(d)
    BY <1>4, <1>5, <1>7, <1>8 DEF Entry
  <1>12. x \in Buckets /\ port \in Buckets /\ Entry(d, x)
    BY <1>8 DEF Entries, Entry, Buckets
  <1>13. CASE Run(steps) /\ NewSession(port, [ip |-> d.sess[x].ip, cli |-> cli])
    <2>1. PICK s : s = Final(steps)
      OBVIOUS
    <2>2. db' = s /\ crashes' = crashes /\ Gave(d, s, port, x, how)
      BY <1>10, <1>13, <2>1 DEF Run
    <2>3. PICK a \in Addrs : a = d.sess[x].ip
      BY <1>4, <1>12, IpEntry
    <2>4. PICK l : l = [ip |-> a, cli |-> cli]
      OBVIOUS
    <2>5. l \in Lease /\ l.ip = a /\ l.cli = cli
      BY <2>4 DEF Lease
    <2>6. /\ ip_conf' = ip_conf /\ lease' \in [Ports -> Lease \cup {NoOne}] /\ stops' \subseteq Ports
          /\ ~ip_conf.late => lease' = [lease EXCEPT ![port] = l] /\ stops' = stops \ {port}
      BY <1>13, <2>3, <2>4, <2>5, IpNewSession
    <2>7. s \in Dbs /\ Active(s, port) /\ s.sess[port].ip = a /\ s.num[a] = d.num[a] + 1
      BY <2>2, <2>3 DEF Gave, PortHas
    <2>8. ASSUME ~ip_conf.late, ~ip_conf.others, crashes' = 0
          PROVE  /\ Counted(s) /\ \A p \in Ports : p # port /\ Active(db, p) => s.sess[p] = db.sess[p]
                 /\ l.cli = Zero \/ \A p \in Ports : p # port /\ Active(db, p) => db.sess[p].ip # a
      <3>1. Counted(d)
        BY <1>4, <2>2, <2>8, IpFiles
      <3>2. /\ Counted(s) /\ \A k \in Buckets : Active(d, k) => s.sess[k] = d.sess[k]
            /\ how # "share" => \A k \in Buckets : Active(d, k) => d.sess[k].ip # a
        BY <1>4, <1>8, <2>2, <2>3, <3>1, IpGaveCounted
      <3>3. \A p \in Ports : p # port /\ Active(db, p) => p \in Buckets /\ d.sess[p] = db.sess[p] /\ Active(d, p)
        BY <1>4 DEF Active, Buckets
      <3> QED
        BY <1>8, <2>5, <3>2, <3>3
    <2>9. ASSUME ~ip_conf.zero, crashes' = 0
          PROVE  Whole(s) /\ \A p \in Ports : p # port /\ Active(db, p) => s.sess[p] = db.sess[p]
      <3>1. Whole(d) /\ how = "move" /\ x \in FreeEntries(d)
        BY <1>4, <1>11, <2>2, <2>9, IpFiles
      <3>2. Sound(d) /\ Untouched(d, s, port)
        BY <1>4, <2>2, <3>1, IpWholeIsSound, IpGiveUntouched
      <3>3. \A p \in Ports : p # port /\ Active(db, p) => p \in Buckets /\ Active(d, p) /\ d.sess[p] = db.sess[p]
        BY <1>4 DEF Active, Buckets
      <3>4. \A p \in Buckets : Active(d, p) => d.num[d.sess[p].ip] = 1
        BY <1>4, <3>1, IpWholeCounts
      <3>5. \A p \in Ports : p # port /\ Active(db, p) => s.sess[p] = db.sess[p]
        BY <3>2, <3>3, <3>4 DEF Untouched
      <3> QED
        BY <1>4, <2>2, <3>1, <3>5, IpGaveWhole
    <2>10. ASSUME ~ip_conf.late, ~ip_conf.others, ~ip_conf.zero, crashes' <= 1 PROVE Sound(s) /\ Untouched(db, s, port) /\ s.num[a] = 1
      <3>1. Sound(d) /\ Untouched(db, d, port) /\ how = "move" /\ x \in FreeEntries(d)
        BY <1>4, <1>11, <2>2, <2>10, IpFiles
      <3>2. Sound(s) /\ Untouched(d, s, port)
        BY <1>4, <2>2, <3>1, IpGaveSound, IpGiveUntouched
      <3>3. d.num[a] = 0
        BY <1>4, <2>3, <3>1, IpFreeEntry
      <3> QED
        BY <1>3, <1>4, <2>7, <3>1, <3>2, <3>3, IpUntouchedTwice
    <2> QED
      BY <1>3, <2>2, <2>5, <2>6, <2>7, <2>8, <2>9, <2>10, IpSession
  <1>14. CASE RunPart(c \o steps) /\ NewSession(port, NoOne)
    <2>1. PICK l : l = NoOne
      OBVIOUS
    <2>2. /\ ip_conf' = ip_conf /\ lease' \in [Ports -> Lease \cup {NoOne}] /\ stops' \subseteq Ports
          /\ ~ip_conf.late => lease' = [lease EXCEPT ![port] = l] /\ stops' = stops \ {port}
      BY <1>14, <2>1, IpNewSession
    <2>3. PICK t : t = c \o steps
      OBVIOUS
    <2>4. /\ t \in Seq(Dbs) /\ Len(t) = Len(c) + Len(steps)
          /\ \A i \in 1 .. Len(c) + Len(steps) : t[i] = IF i <= Len(c) THEN c[i] ELSE steps[i - Len(c)]
      BY <1>4, <1>10, <2>3, ConcatProperties
    <2>5. /\ crashes' = crashes + 1 /\ crashes' <= ip_conf.crash /\ crashes' # 0 /\ (crashes' <= 1 => crashes = 0)
          /\ \E i \in 1 .. Len(t) : db' = t[i] /\ t[i] \in Dbs
      BY <1>14, <2>3, <2>4, IpRunPart
    <2>6. PICK i \in 1 .. Len(t) : db' = t[i] /\ t[i] \in Dbs
      BY <2>5
    <2>7. PICK s \in Dbs : s = t[i]
      BY <2>6
    <2>8. (\E j \in 1 .. Len(c) : s = c[j]) \/ (\E j \in 1 .. Len(steps) : s = steps[j])
      <3>1. Len(c) \in Nat /\ Len(steps) \in Nat
        BY <1>4, <1>10
      <3>2. CASE i <= Len(c)
        BY <2>4, <2>7, <3>1, <3>2
      <3>3. CASE ~(i <= Len(c))
        <4>1. i - Len(c) \in 1 .. Len(steps)
          BY <2>4, <3>1, <3>3
        <4> QED
          BY <2>4, <2>7, <3>3, <4>1
      <3> QED
        BY <3>2, <3>3
    <2>9. ASSUME ~ip_conf.late, ~ip_conf.others, ~ip_conf.zero, crashes' <= 1 PROVE Sound(s) /\ Untouched(db, s, port)
      <3>1. Whole(db) /\ Sound(db)
        BY <2>5, <2>9, IpFiles
      <3>2. CASE \E j \in 1 .. Len(c) : s = c[j]
        BY <1>4, <3>1, <3>2
      <3>3. CASE \E j \in 1 .. Len(steps) : s = steps[j]
        <4>1. Whole(d) /\ Sound(d) /\ Untouched(db, d, port) /\ how = "move" /\ x \in FreeEntries(d)
          BY <1>4, <1>11, <2>9, <3>1
        <4>2. Cleared(d, s, port, x, "move") \/ Put(d, s, port, x, "move") \/ Gave(d, s, port, x, "move")
          BY <1>10, <3>3, <4>1
        <4>3. Sound(s)
          BY <1>4, <4>1, <4>2, IpClearedSound, IpPutSound, IpGaveSound
        <4>4. Untouched(d, s, port)
          BY <1>4, <4>1, <4>2, IpGiveUntouched
        <4> QED
          BY <1>3, <1>4, <4>1, <4>3, <4>4, IpUntouchedTwice
      <3> QED
        BY <2>8, <3>2, <3>3
    <2> QED
      BY <2>1, <2>2, <2>5, <2>6, <2>7, <2>9, IpSession
  <1> QED
    BY <1>6, <1>9, <1>13, <1>14

\* ippool_accounting(): where every Stop is of a session that had an address and
\* none is late, the entry is active.
LEMMA IpStop ==
  ASSUME IpInv, NEW port \in Ports, Stop(port)
  PROVE  IpInv'
  <1>0. port \in Buckets
    BY DEF Buckets
  <1>1. db \in Dbs /\ crashes \in Nat /\ crashes <= ip_conf.crash
    BY IpFiles
  <1>2. PICK l : l = NoOne
    OBVIOUS
  <1>3. lease \in [Ports -> Lease \cup {NoOne}] /\ stops \subseteq Ports
    BY DEF IpInv, IpTyped
  <1>4. ip_conf' = ip_conf /\ lease' = lease /\ stops' = (IF ip_conf.late THEN stops ELSE stops \ {port}) /\ port \in stops
    BY DEF Stop
  <1>5. /\ ip_conf' = ip_conf /\ lease' \in [Ports -> Lease \cup {NoOne}] /\ stops' \subseteq Ports
        /\ ~ip_conf.late => lease' = [lease EXCEPT ![port] = l] /\ stops' = stops \ {port}
    <2>1. ~ip_conf.late => lease[port] = NoOne
      BY <1>4 DEF IpInv
    <2> QED
      BY <1>2, <1>3, <1>4, <2>1
  <1>6. ~ip_conf.late /\ ~ip_conf.others /\ (crashes = 0 \/ (~ip_conf.zero /\ crashes <= 1)) => Active(db, port)
    BY <1>4 DEF IpInv, Held
  <1>7. CASE db.sess[port] = NoOne
    <2>1. Final(<<db>>) = db
      BY DEF Final
    <2>2. db' = db /\ crashes' = crashes
      BY <1>7, <2>1 DEF Stop, Run
    <2>3. Untouched(db, db, port)
      BY DEF Untouched
    <2>4. ~ip_conf.late /\ ~ip_conf.others /\ crashes' = 0 => Counted(db)
      BY <2>2, IpFiles
    <2>5. ~ip_conf.zero /\ crashes' = 0 => Whole(db) /\ \A p \in Ports : p # port /\ Active(db, p) => db.sess[p] = db.sess[p]
      BY <2>2, IpFiles
    <2>6. ~ip_conf.late /\ ~ip_conf.others /\ ~ip_conf.zero /\ crashes' <= 1 => Sound(db)
      BY <2>2, IpFiles
    <2>7. PICK s \in Dbs : s = db
      BY <1>1
    <2>8. Counted(db) = Counted(s) /\ Whole(db) = Whole(s) /\ Sound(db) = Sound(s) /\ Untouched(db, db, port) = Untouched(db, s, port)
      BY <2>7
    <2> QED
      BY <1>1, <1>2, <1>5, <2>2, <2>3, <2>4, <2>5, <2>6, <2>7, <2>8, IpSession
  <1>8. CASE db.sess[port] # NoOne
    <2>1. PICK c : c = Release(db, port)
      OBVIOUS
    <2>2. PICK f : f = Final(c)
      OBVIOUS
    <2>3. Entry(db, port)
      BY <1>8 DEF Entry
    <2>4. /\ c \in Seq(Dbs)
          /\ \A i \in 1 .. Len(c) : Off(db, c[i], port) \/ Lower(db, c[i], port)
          /\ IF db.num[db.sess[port].ip] = 0 THEN Off(db, f, port) ELSE Lower(db, f, port)
      BY <1>0, <1>1, <2>1, <2>2, <2>3, IpRelease
    <2>5. CASE Run(c)
      <3>1. db' = f /\ crashes' = crashes
        BY <2>2, <2>5 DEF Run
      <3>2. f \in Dbs /\ \A k \in Buckets : k # port => f.sess[k] = db.sess[k]
        BY <2>4 DEF Off, Lower
      <3>3. ~ip_conf.late /\ ~ip_conf.others /\ crashes' = 0 => Counted(f) /\ \A p \in Ports : p # port /\ Active(db, p) => f.sess[p] = db.sess[p]
        BY <1>0, <1>1, <1>6, <2>4, <3>1, <3>2, IpFiles, IpLowerCounted DEF Buckets
      <3>4. ~ip_conf.zero /\ crashes' = 0 => Whole(f) /\ \A p \in Ports : p # port /\ Active(db, p) => f.sess[p] = db.sess[p]
        BY <1>0, <1>1, <2>3, <2>4, <3>1, <3>2, IpFiles, IpReleaseWhole DEF Buckets
      <3>5. ~ip_conf.late /\ ~ip_conf.others /\ ~ip_conf.zero /\ crashes' <= 1 => Sound(f) /\ Untouched(db, f, port)
        BY <1>0, <1>1, <1>6, <2>4, <3>1, IpFiles, IpReleased
      <3> QED
        BY <1>1, <1>2, <1>5, <3>1, <3>2, <3>3, <3>4, <3>5, IpSession
    <2>6. CASE RunPart(c)
      <3>1. /\ crashes' = crashes + 1 /\ crashes' <= ip_conf.crash /\ crashes' # 0 /\ (crashes' <= 1 => crashes = 0)
            /\ \E i \in 1 .. Len(c) : db' = c[i] /\ c[i] \in Dbs
        BY <2>4, <2>6, IpRunPart
      <3>2. PICK i \in 1 .. Len(c) : db' = c[i] /\ c[i] \in Dbs
        BY <3>1
      <3>3. PICK s \in Dbs : s = c[i]
        BY <3>2
      <3>4. ~ip_conf.late /\ ~ip_conf.others /\ ~ip_conf.zero /\ crashes' <= 1 => Sound(s) /\ Untouched(db, s, port)
        BY <1>0, <1>1, <1>6, <2>4, <3>1, <3>3, IpFiles, IpReleased
      <3> QED
        BY <1>2, <1>5, <3>1, <3>2, <3>3, <3>4, IpSession
    <2> QED
      BY <1>8, <2>1, <2>5, <2>6 DEF Stop
  <1> QED
    BY <1>7, <1>8

LEMMA IpHangup ==
  ASSUME IpInv, NEW port \in Ports, Hangup(port)
  PROVE  IpInv'
  <1>1. IpTyped
    BY DEF IpInv
  <1>2. /\ lease[port] # NoOne \/ ip_conf.others
        /\ lease' = [lease EXCEPT ![port] = NoOne] /\ stops' = stops \cup {port}
        /\ ip_conf' = ip_conf /\ db' = db /\ crashes' = crashes
    BY DEF Hangup
  <1>3. IpTyped'
    BY <1>1, <1>2 DEF IpTyped, Dbs, Buckets, Info, Lease, IpConf
  <1>4. lease'[port] = NoOne /\ \A p \in Ports : p # port => lease'[p] = lease[p]
    BY <1>1, <1>2 DEF IpTyped
  <1>5. ~ip_conf.late' => \A p \in stops' : lease'[p] = NoOne
    BY <1>1, <1>2, <1>4 DEF IpInv, IpTyped
  <1>6. ~ip_conf.others /\ Held(db) => Held(db)'
    BY <1>2, <1>4 DEF Held, Active
  <1>7. ~ip_conf.others /\ HeldIsCounted(db) => HeldIsCounted(db)'
    BY <1>2, <1>4 DEF HeldIsCounted
  <1>10. Leased(db) => Leased(db)'
    BY <1>2, <1>4 DEF Leased, Active
  <1>8. Apart => Apart'
    BY <1>4 DEF Apart
  <1>9. (Counted(db) => Counted(db)') /\ (Whole(db) => Whole(db)') /\ (Sound(db) => Sound(db)')
    BY <1>2 DEF Counted, Whole, Sound, Actives, Active, Single, Entry, Buckets
  <1> QED
    BY <1>2, <1>3, <1>5, <1>6, <1>7, <1>8, <1>9, <1>10 DEF IpInv

LEMMA IpExpire ==
  ASSUME IpInv, NEW port \in Ports, Expire(port)
  PROVE  IpInv'
  <1>0. port \in Buckets
    BY DEF Buckets
  <1>1. IpTyped
    BY DEF IpInv
  <1>2. /\ Active(db, port) /\ lease' = [lease EXCEPT ![port] = NoOne] /\ stops' = stops
        /\ ip_conf' = ip_conf /\ db' = [db EXCEPT !.sess[port].old = TRUE] /\ crashes' = crashes
    BY DEF Expire, Active
  <1>3. PICK s : s = [db EXCEPT !.sess[port].old = TRUE]
    OBVIOUS
  <1>4. db \in Dbs /\ db.sess[port] \in Info
    BY <1>0, <1>1, <1>2, IpEntry DEF IpTyped, Active, Entry
  <1>5. PICK e : e = [db.sess[port] EXCEPT !.old = TRUE]
    OBVIOUS
  <1>6. e \in Info /\ e.ip = db.sess[port].ip /\ e.active /\ e # NoOne
    BY <1>2, <1>4, <1>5, IpPoolAssumption DEF Info, Active
  <1>7. s = [db EXCEPT !.sess = [@ EXCEPT ![port] = e]]
    BY <1>0, <1>3, <1>4, <1>5 DEF Dbs
  <1>8. s \in Dbs /\ s.num = db.num /\ s.sess[port] = e /\ \A k \in Buckets : k # port => s.sess[k] = db.sess[k]
    BY <1>0, <1>4, <1>6, <1>7 DEF Dbs
  <1>9. /\ \A k \in Buckets : Entry(s, k) <=> Entry(db, k)
        /\ \A k \in Buckets : Active(s, k) <=> Active(db, k)
        /\ \A k \in Buckets : Entry(db, k) => s.sess[k].ip = db.sess[k].ip /\ (s.sess[k].active <=> db.sess[k].active)
    BY <1>2, <1>4, <1>6, <1>8 DEF Entry, Active
  <1>10. \A k \in Buckets : Active(db, k) => Entry(db, k)
    BY DEF Active, Entry
  <1>11. IpTyped'
    BY <1>1, <1>2, <1>3, <1>8 DEF IpTyped, Dbs, Buckets, Info, Lease, IpConf
  <1>12. lease'[port] = NoOne /\ \A p \in Ports : p # port => lease'[p] = lease[p]
    BY <1>1, <1>2 DEF IpTyped
  <1>13. ~ip_conf.late' => \A p \in stops' : lease'[p] = NoOne
    BY <1>1, <1>2, <1>12 DEF IpInv, IpTyped
  <1>14. Held(db) => Held(db)'
    <2>1. SUFFICES ASSUME Held(db), NEW p \in Ports, lease'[p] # NoOne \/ p \in stops
                   PROVE  Active(s, p) /\ (lease'[p] # NoOne => s.sess[p].ip = lease'[p].ip)
      BY <1>2, <1>3 DEF Held, Active
    <2>2. CASE p = port
      BY <1>0, <1>2, <1>9, <1>12, <2>2
    <2>3. CASE p # port
      BY <1>9, <1>10, <1>12, <2>1, <2>3 DEF Held, Buckets
    <2> QED
      BY <2>2, <2>3
  <1>15. Held(db) /\ HeldIsCounted(db) => HeldIsCounted(db)'
    <2>1. SUFFICES ASSUME Held(db), HeldIsCounted(db), NEW p \in Ports, lease'[p] # NoOne \/ p \in stops
                   PROVE  s.num[s.sess[p].ip] = 1
      BY <1>2, <1>3 DEF HeldIsCounted
    <2>2. lease[p] # NoOne \/ p \in stops
      BY <1>12, <2>1
    <2>3. s.sess[p].ip = db.sess[p].ip
      BY <1>9, <1>10, <2>1, <2>2 DEF Held, Buckets
    <2> QED
      BY <1>8, <2>1, <2>2, <2>3 DEF HeldIsCounted
  <1>20. Leased(db) => Leased(db)'
    <2>1. SUFFICES ASSUME Leased(db), NEW p \in Ports, lease'[p] # NoOne
                   PROVE  Active(s, p) /\ s.sess[p].ip = lease'[p].ip
      BY <1>2, <1>3 DEF Leased, Active
    <2> QED
      BY <1>9, <1>10, <1>12, <2>1 DEF Leased, Buckets
  <1>16. Apart => Apart'
    BY <1>12 DEF Apart
  <1>17. Counted(db) => Counted(db)'
    <2>1. \A a \in Addrs : Actives(s, a) = Actives(db, a)
      BY <1>9, <1>10 DEF Actives
    <2>2. Counted(db) => Counted(s)
      BY <1>8, <2>1 DEF Counted
    <2> QED
      BY <1>2, <1>3, <2>2 DEF Counted, Actives, Active, Buckets
  <1>18. Whole(db) => Whole(db)'
    <2>1. \A a \in Addrs, k \in Buckets : Single(db, k, a) => Single(s, k, a) /\ (s.sess[k].active <=> db.sess[k].active)
      BY <1>9 DEF Single
    <2>2. Whole(db) => Whole(s)
      <3>1. SUFFICES ASSUME Whole(db), NEW a \in Addrs
                     PROVE  \E k \in Buckets : Single(s, k, a) /\ s.num[a] = IF s.sess[k].active THEN 1 ELSE 0
        BY DEF Whole
      <3>2. PICK k \in Buckets : Single(db, k, a) /\ db.num[a] = IF db.sess[k].active THEN 1 ELSE 0
        BY <3>1 DEF Whole
      <3> QED
        BY <1>8, <2>1, <3>2
    <2> QED
      BY <1>2, <1>3, <2>2 DEF Whole, Single, Entry, Buckets
  <1>19. Sound(db) => Sound(db)'
    <2>1. Sound(db) => Sound(s)
      BY <1>8, <1>9, <1>10 DEF Sound
    <2> QED
      BY <1>2, <1>3, <2>1 DEF Sound, Active, Entry, Buckets
  <1> QED
    BY <1>2, <1>11, <1>13, <1>14, <1>15, <1>16, <1>17, <1>18, <1>19, <1>20 DEF IpInv

LEMMA IpInitLemma ==
  ASSUME IpInit
  PROVE  IpInv
  <1>1. ip_conf \in IpConf /\ ip_conf.crash \in Nat
    BY IpPoolAssumption DEF IpInit, IpConf
  <1>2. \A k \in Buckets : db.sess[k] = IF k \in Ports THEN NoOne
                             ELSE [ip |-> k, active |-> FALSE, cli |-> Zero, extra |-> FALSE, old |-> FALSE]
    BY DEF IpInit
  <1>3. \A k \in Buckets : k \in Ports \/ (k \in Addrs /\ k \notin Ports)
    BY DEF Buckets
  <1>4. \A k \in Addrs : /\ k \in Buckets /\ k \notin Ports
                         /\ [ip |-> k, active |-> FALSE, cli |-> Zero, extra |-> FALSE, old |-> FALSE] \in Info
    BY IpPoolAssumption DEF Info, Buckets
  <1>5. db \in Dbs
    BY <1>3, <1>4 DEF IpInit, Dbs
  <1>6. \A a \in Addrs : db.num[a] = 0
    BY DEF IpInit
  <1>8. ASSUME NEW a \in Addrs PROVE Entry(db, a) /\ db.sess[a].ip = a /\ ~db.sess[a].active
    <2>1. PICK e : e = [ip |-> a, active |-> FALSE, cli |-> Zero, extra |-> FALSE, old |-> FALSE]
      OBVIOUS
    <2>2. db.sess[a] = e
      BY <1>2, <1>4, <2>1
    <2>3. e.ip = a /\ ~e.active /\ e # NoOne
      BY <1>4, <2>1, IpPoolAssumption
    <2> QED
      BY <2>2, <2>3 DEF Entry
  <1>7. \A k \in Buckets : ~Active(db, k)
    <2>1. \A k \in Ports : db.sess[k] = NoOne
      BY <1>2 DEF Buckets
    <2> QED
      BY <1>3, <1>8, <2>1 DEF Active
  <1>9. \A p \in Ports : ~Entry(db, p)
    BY <1>2 DEF Entry, Buckets
  <1>10. Whole(db)
    <2>1. SUFFICES ASSUME NEW a \in Addrs PROVE Single(db, a, a) /\ db.num[a] = IF db.sess[a].active THEN 1 ELSE 0
      BY <1>4 DEF Whole
    <2>2. Single(db, a, a)
      BY <1>3, <1>8, <1>9 DEF Single
    <2> QED
      BY <1>6, <1>8, <2>2
  <1>11. Counted(db)
    <2>1. \A a \in Addrs : Actives(db, a) = {}
      BY <1>7 DEF Actives
    <2> QED
      BY <1>6, <2>1, FS_EmptySet DEF Counted
  <1>12. Held(db) /\ HeldIsCounted(db) /\ Apart /\ Leased(db)
    BY DEF IpInit, Held, HeldIsCounted, Apart, Leased
  <1>13. Sound(db)
    BY <1>5, <1>10, IpWholeIsSound
  <1>14. IpTyped
    BY <1>1, <1>5 DEF IpInit, IpTyped
  <1> QED
    BY <1>10, <1>11, <1>12, <1>13, <1>14 DEF IpInit, IpInv

LEMMA IpInvIsEnough ==
  ASSUME IpInv
  PROVE  AddressesAreKept
  <1>1. IpTyped
    BY DEF IpInv
  <1>2. IpTypeOK
    BY <1>1 DEF IpTypeOK, IpTyped, Dbs, IpConf
  <1>3. AddressIsExclusive
    <2>1. CASE ~ip_conf.late /\ ~ip_conf.others /\ crashes = 0
      BY <2>1 DEF IpInv, Apart, AddressIsExclusive
    <2>2. CASE ~ip_conf.late /\ ~ip_conf.zero /\ (crashes = 0 \/ (~ip_conf.others /\ crashes <= 1))
      <3>1. Leased(db) /\ Sound(db)
        BY <1>1, <2>2, IpWholeIsSound DEF IpInv, IpTyped, Held, Leased
      <3>2. ASSUME NEW k \in Ports, NEW l \in Ports, k # l, lease[k] # NoOne, lease[l] # NoOne, lease[k].ip = lease[l].ip
            PROVE  FALSE
        <4>1. k \in Buckets /\ l \in Buckets
          BY DEF Buckets
        <4>2. Active(db, k) /\ Active(db, l) /\ db.sess[k].ip = db.sess[l].ip
          BY <3>1, <3>2 DEF Leased
        <4> QED
          BY <3>1, <3>2, <4>1, <4>2 DEF Sound, Active, Entry
      <3> QED
        BY <3>2 DEF AddressIsExclusive
    <2>3. crashes \in Nat
      BY <1>1 DEF IpTyped
    <2> QED
      BY <2>1, <2>2, <2>3 DEF AddressIsExclusive, Troubles
  <1>4. PoolIsComplete
    <2>1. SUFFICES ASSUME ~ip_conf.zero, crashes = 0, NEW a \in Addrs
                   PROVE  /\ \E k \in Entries(db) : db.sess[k].ip = a /\ db.num[a] = IF db.sess[k].active THEN 1 ELSE 0
                          /\ Cardinality({k \in Entries(db) : db.sess[k].ip = a}) = 1
      BY DEF PoolIsComplete
    <2>2. PICK k \in Buckets : Single(db, k, a) /\ db.num[a] = IF db.sess[k].active THEN 1 ELSE 0
      BY <2>1 DEF IpInv, Whole
    <2>3. k \in Entries(db) /\ {j \in Entries(db) : db.sess[j].ip = a} = {k}
      BY <2>2 DEF Single, Entry, Entries
    <2> QED
      BY <2>2, <2>3, FS_Singleton DEF Single
  <1> QED
    BY <1>2, <1>3, <1>4 DEF AddressesAreKept

(***************************************************************************)
(* For any number of ports, addresses, callers and configurations:         *)
(* ippool_postauth() and ippool_accounting() keep one entry for each       *)
(* address and count its sessions, and give no address to two callers,     *)
(* also when the server stops once between two of their stores, or one of  *)
(* the stores fails, wherever that is; or when there are callers from "0"; *)
(* or Stops of sessions without an address of the pool.  One of the three, *)
(* since two of them do give an address twice.                             *)
(***************************************************************************)
THEOREM IpPoolTheorem == IpSpec => []AddressesAreKept
  <1>1. IpInit => IpInv
    BY IpInitLemma
  <1>2. IpInv /\ [IpNext]_ipVars => IpInv'
    <2>1. SUFFICES ASSUME IpInv, [IpNext]_ipVars PROVE IpInv'
      OBVIOUS
    <2>2. CASE IpNext
      <3>1. PICK port \in Ports :
              \/ HasAddress(port) \/ Hangup(port) \/ Stop(port) \/ Expire(port)
              \/ \E cli \in {c \in Callers : c = Zero => ip_conf.zero} : Allocate(port, cli) \/ NotFound(port, cli)
        BY <2>2 DEF IpNext
      <3> QED
        BY <2>1, <3>1, IpHasAddress, IpHangup, IpStop, IpExpire, IpAllocate, IpNotFound
    <2>3. CASE UNCHANGED ipVars
      BY <2>1, <2>3 DEF ipVars, IpInv, IpTyped, Held, HeldIsCounted, Leased, Counted, Apart, Whole, Sound, Actives, Active,
                        Single, Entry, Dbs, Buckets, Info, Lease, IpConf
    <2> QED
      BY <2>1, <2>2, <2>3
  <1>3. IpInv => AddressesAreKept
    BY IpInvIsEnough
  <1> QED
    BY <1>1, <1>2, <1>3, PTL DEF IpSpec

----------------------------------------------------------------------------
(* The login records of rlm_radutmp.                                        *)

\* The records of a port, the packets that may come again.
RecordsOf(f, p) == {f[i] : i \in {j \in 1 .. Len(f) : f[j].port = p}}
Repeated(t) == {t[i] : i \in 1 .. Len(t)}

Numbered(n) == \A p \in NasPorts : n[p].on => n[p].n # 0

UtTyped ==
    /\ ut_conf \in UtConf
    /\ ut_file \in Seq(UtRecord)
    /\ ut_cache \in [NasPorts -> Nat]
    /\ nas \in [NasPorts -> [n: 0 .. MaxLogins, on: BOOLEAN]] /\ Numbered(nas)
    /\ sent \in Seq(Acct)
    /\ told \in Seq(Acct) /\ Len(told) <= 1
    /\ known \in [NasPorts -> 0 .. MaxLogins]

OneEach(f, c) ==
    /\ \A i, j \in 1 .. Len(f) : f[i].port \in NasPorts /\ f[i].port = f[j].port => i = j
    /\ \A i \in 1 .. Len(f) : f[i].port \in NasPorts => c[f[i].port] <= i

Of(a, p) == a.status # "on" /\ a.port = p
Follows(n, a) == n <= a.session /\ (a.status = "start" => n < a.session)

\* The sessions of port p are numbered in the order of its packets: in the
\* records R, then what may come again, T, then what is on its way, s.
InOrder(p, R, s, T, n) ==
    /\ \A i, j \in 1 .. Len(s) : i < j /\ Of(s[i], p) /\ Of(s[j], p) => Follows(s[i].session, s[j])
    /\ \A r \in R : \A j \in 1 .. Len(s) : Of(s[j], p) => Follows(r.session, s[j])
    /\ \A t \in T : \A j \in 1 .. Len(s) : Of(t, p) /\ Of(s[j], p) => Follows(t.session, s[j])
    /\ \A j \in 1 .. Len(s) : Of(s[j], p) => s[j].session <= n
    /\ \A r \in R : r.session <= n
    /\ \A t \in T : Of(t, p) => t.session <= n

\* A session that is known to be on has its record.
Heard(p, R, T, k) ==
    /\ k # 0 => \E r \in R : r.login /\ r.session = k
    /\ \A t \in T : Of(t, p) /\ t.status = "stop" => k = 0
    /\ \A t \in T : Of(t, p) /\ t.status # "stop" =>
         \A r \in R : r.login /\ r.session = t.session

HasSession(R, n) == \E r \in R : r.session = n
Starts(p, s, n, j) == \E i \in 1 .. j : Of(s[i], p) /\ s[i].status = "start" /\ s[i].session = n

\* What is on its way belongs to the session of the record, or to one whose
\* Start is on its way before it.
ExactFor(p, R, s, T, n, on, k) ==
    /\ k = 0 => \A r \in R : ~r.login
    /\ \A j \in 1 .. Len(s) : Of(s[j], p) /\ s[j].status # "start" =>
         Starts(p, s, s[j].session, j - 1) \/ HasSession(R, s[j].session)
    /\ on => Starts(p, s, n, Len(s)) \/ HasSession(R, n)
    /\ \A t \in T : Of(t, p) => HasSession(R, t.session)

PortOrder(p) == InOrder(p, RecordsOf(ut_file, p), sent, Repeated(told), nas[p].n)
PortHeard(p) == Heard(p, RecordsOf(ut_file, p), Repeated(told), known[p])
PortExact(p) == ExactFor(p, RecordsOf(ut_file, p), sent, Repeated(told), nas[p].n, nas[p].on, known[p])

\* The inductive invariant.
UtInv ==
    /\ UtTyped
    /\ OneEach(ut_file, ut_cache)
    /\ ut_conf.network # "any" => \A p \in NasPorts : PortOrder(p) /\ PortHeard(p)
    /\ ut_conf.network = "ordered" /\ ut_conf.delay => \A p \in NasPorts : PortExact(p)

----------------------------------------------------------------------------
(* The file.                                                                *)

LEMMA MaxOfTwo ==
  ASSUME NEW x \in Int, NEW y \in Int
  PROVE  Max({x, y}) = IF x >= y THEN x ELSE y
  BY DEF Max

LEMMA MinIsIn ==
  ASSUME NEW S \in SUBSET Nat, S # {}
  PROVE  Min(S) \in S
  <1>1. PICK x \in S : \A y \in S : ~(<<y, x>> \in OpToRel(<, Nat))
    BY NatLessThanWellFounded, WFMin
  <1>2. \A y \in S : ~(y < x)
    BY <1>1 DEF OpToRel
  <1>3. \A y \in S : x <= y
    BY <1>2
  <1> QED
    BY <1>3 DEF Min

LEMMA HoleIsNoPort == Hole.port \notin NasPorts /\ Hole \in UtRecord /\ Hole.login = FALSE
  BY RadutmpAssumption DEF Hole, UtRecord

Written(f, pos, rec, g) ==
    /\ g \in Seq(UtRecord) /\ Len(g) \in Nat /\ Len(f) \in Nat
    /\ Len(f) <= Len(g) /\ pos \in 1 .. Len(g) /\ g[pos] = rec
    /\ \A i \in 1 .. Len(f) : i \in 1 .. Len(g) /\ (i # pos => g[i] = f[i])
    /\ \A i \in 1 .. Len(g) : i # pos => \/ i \in 1 .. Len(f) /\ g[i] = f[i]
                                         \/ g[i] = Hole

LEMMA WriteLemma ==
  ASSUME NEW f \in Seq(UtRecord), NEW pos \in Nat, pos # 0, NEW rec \in UtRecord
  PROVE  Written(f, pos, rec, Write(f, pos, rec))
  <1>0. PICK g : g = Write(f, pos, rec)
    OBVIOUS
  <1>1. PICK n \in Nat : n = Max({Len(f), pos})
    BY MaxOfTwo
  <1>2. Len(f) \in Nat /\ Len(f) <= n /\ pos \in 1 .. n /\ \A i \in 1 .. Len(f) : f[i] \in UtRecord
    BY <1>1, MaxOfTwo
  <1>3. g = [i \in 1 .. n |-> IF i = pos THEN rec ELSE IF i <= Len(f) THEN f[i] ELSE Hole]
    BY <1>0, <1>1 DEF Write
  <1>4. g \in [1 .. n -> UtRecord]
    BY <1>2, <1>3, HoleIsNoPort
  <1>5. g \in Seq(UtRecord) /\ Len(g) = n
    BY <1>4
  <1>6. Written(f, pos, rec, g)
    BY <1>2, <1>3, <1>5 DEF Written
  <1> QED
    BY <1>0, <1>6

New(a) == [port |-> a.port, session |-> a.session, login |-> a.status # "stop"]

LEMMA AcctLemma ==
  ASSUME NEW a \in Acct
  PROVE  /\ a.status # "on" =>
              /\ a.port \in NasPorts /\ a.session \in 1 .. MaxLogins /\ New(a) \in UtRecord
              /\ a.status \in {"start", "stop", "alive"}
              /\ New(a).port = a.port /\ New(a).session = a.session /\ New(a).login = (a.status # "stop")
  BY DEF Acct, New, UtRecord

LEMMA RecordsLemma ==
  ASSUME NEW f \in Seq(UtRecord), NEW c, OneEach(f, c), NEW p \in NasPorts
  PROVE  /\ \A r \in RecordsOf(f, p) : r.port = p /\ r.session \in 1 .. MaxLogins /\ r.login \in BOOLEAN
         /\ \A r, q \in RecordsOf(f, p) : r = q
         /\ \A i \in 1 .. Len(f) : f[i].port = p => RecordsOf(f, p) = {f[i]}
         /\ (\A i \in 1 .. Len(f) : f[i].port # p) => RecordsOf(f, p) = {}
  <1>1. \A r \in RecordsOf(f, p) : \E i \in 1 .. Len(f) : f[i] = r /\ f[i].port = p /\ f[i] \in UtRecord
    BY DEF RecordsOf
  <1>2. \A i, j \in 1 .. Len(f) : f[i].port = p /\ f[j].port = p => i = j
    BY DEF OneEach
  <1>3. \A r \in RecordsOf(f, p) : r.port = p /\ r.session \in 1 .. MaxLogins /\ r.login \in BOOLEAN
    BY <1>1, RadutmpAssumption DEF UtRecord, Hole
  <1>4. \A r, q \in RecordsOf(f, p) : r = q
    BY <1>1, <1>2
  <1>5. \A i \in 1 .. Len(f) : f[i].port = p => f[i] \in RecordsOf(f, p)
    BY DEF RecordsOf
  <1> QED
    BY <1>1, <1>3, <1>4, <1>5

\* What a packet does to the records of its port.
Result(R, a, again, S) ==
    \/ /\ S = {New(a)}
       /\ R = {} => a.status # "stop"
       /\ \A r \in R : MayWrite(a, r, again)
    \/ /\ S = R
       /\ R = {} => a.status = "stop"
       /\ \A r \in R : (a.status = "stop" /\ ~r.login) \/ ~MayWrite(a, r, again)

\* The record of port p is to be at pos: where it was, or where there was none.
Fits(f, c, p, pos, d) ==
    /\ \A i \in 1 .. Len(f) : f[i].port = p => i = pos
    /\ pos \in 1 .. Len(f) => f[pos].port = p
    /\ d[p] <= pos /\ \A q \in NasPorts : q # p => d[q] = c[q]

LEMMA PutLemma ==
  ASSUME NEW f \in Seq(UtRecord), NEW c \in [NasPorts -> Nat], OneEach(f, c),
         NEW p \in NasPorts, NEW rec \in UtRecord, rec.port = p,
         NEW pos \in Nat, NEW g, Written(f, pos, rec, g),
         NEW d \in [NasPorts -> Nat], Fits(f, c, p, pos, d)
  PROVE  /\ g \in Seq(UtRecord) /\ OneEach(g, d)
         /\ RecordsOf(g, p) = {rec}
         /\ \A q \in NasPorts : q # p => RecordsOf(g, q) = RecordsOf(f, q)
  <1>1. /\ g \in Seq(UtRecord) /\ Len(g) \in Nat /\ Len(f) \in Nat
        /\ Len(f) <= Len(g) /\ pos \in 1 .. Len(g) /\ g[pos] = rec
        /\ \A i \in 1 .. Len(f) : i \in 1 .. Len(g) /\ (i # pos => g[i] = f[i])
        /\ \A i \in 1 .. Len(g) : i # pos => \/ i \in 1 .. Len(f) /\ g[i] = f[i]
                                             \/ g[i] = Hole
    BY DEF Written
  <1>2. /\ \A i \in 1 .. Len(f) : f[i].port = p => i = pos
        /\ pos \in 1 .. Len(f) => f[pos].port = p
        /\ d[p] <= pos /\ \A q \in NasPorts : q # p => d[q] = c[q]
    BY DEF Fits
  <1>3. \A i \in 1 .. Len(g) : g[i].port \in NasPorts => i = pos \/ (i \in 1 .. Len(f) /\ g[i] = f[i] /\ g[i].port # p)
    <2>1. \A i \in 1 .. Len(g) : g[i].port \in NasPorts => g[i] # Hole
      BY HoleIsNoPort
    <2>2. \A i \in 1 .. Len(f) : i # pos => f[i].port # p
      BY <1>2
    <2> QED
      BY <1>1, <2>1, <2>2
  <1>4. OneEach(g, d)
    <2>1. \A i, j \in 1 .. Len(f) : f[i].port \in NasPorts /\ f[i].port = f[j].port => i = j
      BY DEF OneEach
    <2>2. \A i \in 1 .. Len(f) : f[i].port \in NasPorts => c[f[i].port] <= i
      BY DEF OneEach
    <2>3. g[pos].port = p
      BY <1>1
    <2>4. ASSUME NEW i \in 1 .. Len(g), NEW j \in 1 .. Len(g), g[i].port \in NasPorts, g[i].port = g[j].port
          PROVE  i = j
      BY <1>3, <2>1, <2>3, <2>4
    <2>5. ASSUME NEW i \in 1 .. Len(g), g[i].port \in NasPorts
          PROVE  d[g[i].port] <= i
      BY <1>3, <1>2, <2>2, <2>3, <2>5
    <2> QED
      BY <2>4, <2>5 DEF OneEach
  <1>5. RecordsOf(g, p) = {rec}
    <2>1. pos \in 1 .. Len(g) /\ g[pos].port = p
      BY <1>1
    <2> QED
      BY <1>1, <1>4, <2>1, RecordsLemma
  <1>6. ASSUME NEW q \in NasPorts, q # p
        PROVE  RecordsOf(g, q) = RecordsOf(f, q)
    <2>1. \A i \in 1 .. Len(g) : g[i].port = q => i \in 1 .. Len(f) /\ g[i] = f[i]
      <3>1. g[pos].port = p
        BY <1>1
      <3> QED
        BY <1>3, <1>6, <3>1
    <2>2. \A i \in 1 .. Len(f) : f[i].port = q => i # pos
      BY <1>6, <1>2
    <2>3. \A i \in 1 .. Len(f) : f[i].port = q => i \in 1 .. Len(g) /\ g[i] = f[i]
      BY <1>1, <2>2
    <2>4. ASSUME NEW r \in RecordsOf(g, q) PROVE r \in RecordsOf(f, q)
      BY <2>1 DEF RecordsOf
    <2>5. ASSUME NEW r \in RecordsOf(f, q) PROVE r \in RecordsOf(g, q)
      BY <2>3 DEF RecordsOf
    <2> QED
      BY <2>4, <2>5
  <1> QED
    BY <1>1, <1>4, <1>5, <1>6

\* The file is well formed, and only what it says of the ports P has changed.
Filed(P) ==
    /\ ut_file' \in Seq(UtRecord) /\ ut_cache' \in [NasPorts -> Nat] /\ OneEach(ut_file', ut_cache')
    /\ \A q \in NasPorts \ P : RecordsOf(ut_file', q) = RecordsOf(ut_file, q)

LEMMA MatchesLemma ==
  ASSUME UtTyped, OneEach(ut_file, ut_cache), NEW a \in Acct, a.status # "on"
  PROVE  /\ Matches(a, Max({1, ut_cache[a.port]})) =
              {i \in 1 .. Len(ut_file) : ut_file[i].port = a.port /\ (a.status = "stop" => ut_file[i].login)}
         /\ Max({1, ut_cache[a.port]}) \in Nat /\ Max({1, ut_cache[a.port]}) >= 1
         /\ Max({1, ut_cache[a.port]}) >= ut_cache[a.port]
  <1>1. a.port \in NasPorts
    BY AcctLemma
  <1>2. PICK c \in Nat : c = ut_cache[a.port]
    BY <1>1 DEF UtTyped
  <1>3. PICK from \in Nat : from = Max({1, c})
    BY MaxOfTwo
  <1>4. from >= 1 /\ from >= c /\ (from = 1 \/ from = c)
    BY <1>3, MaxOfTwo
  <1>5. \A i \in 1 .. Len(ut_file) : ut_file[i].port = a.port => c <= i
    BY <1>1, <1>2 DEF OneEach
  <1>6. DOMAIN ut_file = 1 .. Len(ut_file) /\ Len(ut_file) \in Nat
    BY DEF UtTyped
  <1>7. \A i \in 1 .. Len(ut_file) : ut_file[i].port = a.port => i >= from
    BY <1>4, <1>5, <1>6
  <1>8. Matches(a, from) = {i \in 1 .. Len(ut_file) : ut_file[i].port = a.port /\ (a.status = "stop" => ut_file[i].login)}
    BY <1>6, <1>7 DEF Matches
  <1> QED
    BY <1>2, <1>3, <1>4, <1>8

LEMMA RadutmpLemma ==
  ASSUME UtTyped, OneEach(ut_file, ut_cache), NEW a \in Acct, a.status # "on", NEW again \in BOOLEAN,
         radutmp_accounting(a, again)
  PROVE  Filed({a.port}) /\ Result(RecordsOf(ut_file, a.port), a, again, RecordsOf(ut_file', a.port))
  <1>1. /\ a.port \in NasPorts /\ New(a) \in UtRecord /\ New(a).port = a.port
    BY AcctLemma
  <1>2. PICK from \in Nat : from = Max({1, ut_cache[a.port]})
    BY MatchesLemma
  <1>3. PICK found : found = Matches(a, from)
    OBVIOUS
  <1>4. PICK pos : pos = IF found # {} THEN Min(found) ELSE Max({Len(ut_file) + 1, from})
    OBVIOUS
  <1>5. PICK does : does = IF found # {} THEN MayWrite(a, ut_file[pos], again) ELSE a.status # "stop"
    OBVIOUS
  <1>6. /\ ut_file' = IF does THEN Write(ut_file, pos, New(a)) ELSE ut_file
        /\ ut_cache' = IF does /\ a.status # "stop" /\ ut_cache[a.port] = 0
                       THEN [ut_cache EXCEPT ![a.port] = pos] ELSE ut_cache
    BY <1>2, <1>3, <1>4, <1>5 DEF radutmp_accounting, New
  <1>7. /\ found = {i \in 1 .. Len(ut_file) : ut_file[i].port = a.port /\ (a.status = "stop" => ut_file[i].login)}
        /\ from >= 1 /\ from >= ut_cache[a.port] /\ ut_cache[a.port] \in Nat
    BY <1>1, <1>2, <1>3, MatchesLemma DEF UtTyped
  <1>8. /\ ut_file \in Seq(UtRecord) /\ ut_cache \in [NasPorts -> Nat] /\ Len(ut_file) \in Nat
        /\ \A i, j \in 1 .. Len(ut_file) : ut_file[i].port = a.port /\ ut_file[j].port = a.port => i = j
        /\ \A i \in 1 .. Len(ut_file) : ut_file[i].port = a.port => ut_cache[a.port] <= i
    BY <1>1 DEF UtTyped, OneEach
  <1>9. found # {} => pos \in found
    <2>1. found \subseteq Nat
      BY <1>7, <1>8
    <2> QED
      BY <1>4, <2>1, MinIsIn
  <1>10. found = {} => pos \in Nat /\ pos > Len(ut_file) /\ pos >= from
    <2>1. PICK l \in Nat : l = Len(ut_file)
      BY <1>8
    <2>2. Max({l + 1, from}) = IF l + 1 >= from THEN l + 1 ELSE from
      BY MaxOfTwo
    <2>3. found = {} => pos = IF l + 1 >= from THEN l + 1 ELSE from
      BY <1>4, <2>1, <2>2
    <2>4. found = {} => pos \in Nat /\ pos > l /\ pos >= from
      BY <2>3
    <2> QED
      BY <2>1, <2>4
  <1>11. /\ \A i \in 1 .. Len(ut_file) : ut_file[i].port = a.port => RecordsOf(ut_file, a.port) = {ut_file[i]}
         /\ (\A i \in 1 .. Len(ut_file) : ut_file[i].port # a.port) => RecordsOf(ut_file, a.port) = {}
    BY <1>1, <1>8, RecordsLemma
  <1>12. found # {} => pos \in 1 .. Len(ut_file) /\ ut_file[pos].port = a.port
                       /\ RecordsOf(ut_file, a.port) = {ut_file[pos]} /\ ut_cache[a.port] <= pos
                       /\ (a.status = "stop" => ut_file[pos].login)
    BY <1>7, <1>8, <1>9, <1>11
  <1>13. CASE does
    <2>1. found # {} \/ a.status # "stop"
      BY <1>5, <1>13
    <2>2. found = {} => \A i \in 1 .. Len(ut_file) : ut_file[i].port # a.port
      BY <1>7, <2>1
    <2>3. pos \in Nat /\ pos # 0 /\ ut_cache[a.port] <= pos
      BY <1>7, <1>8, <1>10, <1>12
    <2>4. /\ \A i \in 1 .. Len(ut_file) : ut_file[i].port = a.port => i = pos
          /\ pos \in 1 .. Len(ut_file) => ut_file[pos].port = a.port
      BY <1>8, <1>10, <1>12, <2>2
    <2>5. Written(ut_file, pos, New(a), ut_file')
      BY <1>1, <1>6, <1>8, <1>13, <2>3, WriteLemma
    <2>6. /\ ut_cache' \in [NasPorts -> Nat] /\ ut_cache'[a.port] <= pos
          /\ \A q \in NasPorts : q # a.port => ut_cache'[q] = ut_cache[q]
      BY <1>1, <1>6, <1>8, <2>3
    <2>7. PICK g, d : g = ut_file' /\ d = ut_cache'
      OBVIOUS
    <2>8. PICK f, c : f = ut_file /\ c = ut_cache
      OBVIOUS
    <2>9. /\ g \in Seq(UtRecord) /\ OneEach(g, d)
          /\ RecordsOf(g, a.port) = {New(a)}
          /\ \A q \in NasPorts : q # a.port => RecordsOf(g, q) = RecordsOf(f, q)
      <3>1. /\ f \in Seq(UtRecord) /\ c \in [NasPorts -> Nat] /\ OneEach(f, c)
            /\ d \in [NasPorts -> Nat] /\ Written(f, pos, New(a), g)
        BY <1>8, <2>5, <2>6, <2>7, <2>8
      <3>2. Fits(f, c, a.port, pos, d)
        BY <2>4, <2>6, <2>7, <2>8 DEF Fits
      <3>3. PICK p \in NasPorts, rec \in UtRecord : p = a.port /\ rec = New(a) /\ rec.port = p
        BY <1>1
      <3>4. Written(f, pos, rec, g) /\ Fits(f, c, p, pos, d) /\ pos \in Nat
        BY <2>3, <3>1, <3>2, <3>3
      <3>5. /\ g \in Seq(UtRecord) /\ OneEach(g, d)
            /\ RecordsOf(g, p) = {rec}
            /\ \A q \in NasPorts : q # p => RecordsOf(g, q) = RecordsOf(f, q)
        BY ONLY <3>1, <3>3, <3>4, p \in NasPorts, rec \in UtRecord, PutLemma
      <3> QED
        BY <3>3, <3>5
    <2>10. Filed({a.port})
      BY <2>6, <2>7, <2>8, <2>9 DEF Filed
    <2>11. found = {} => RecordsOf(ut_file, a.port) = {}
      BY <1>11, <2>2
    <2>12. found # {} => MayWrite(a, ut_file[pos], again)
      BY <1>5, <1>13
    <2>13. \A r \in RecordsOf(ut_file, a.port) : MayWrite(a, r, again)
      BY <1>12, <2>11, <2>12
    <2>14. RecordsOf(ut_file, a.port) = {} => a.status # "stop"
      BY <1>12, <2>1
    <2> QED
      BY <2>7, <2>9, <2>10, <2>13, <2>14 DEF Result
  <1>14. CASE ~does
    <2>1. ut_file' = ut_file /\ ut_cache' = ut_cache
      BY <1>6, <1>14
    <2>2. Filed({a.port})
      BY <1>8, <2>1 DEF Filed
    <2>3. found # {} => ~MayWrite(a, ut_file[pos], again)
      BY <1>5, <1>14
    <2>4. found = {} => a.status = "stop"
      BY <1>5, <1>14
    <2>5. RecordsOf(ut_file, a.port) = {} => a.status = "stop"
      BY <1>12, <2>4
    <2>6. ASSUME NEW r \in RecordsOf(ut_file, a.port)
          PROVE  (a.status = "stop" /\ ~r.login) \/ ~MayWrite(a, r, again)
      <3>1. CASE found # {}
        BY <1>12, <2>3, <3>1
      <3>2. CASE found = {}
        <4>1. PICK i \in 1 .. Len(ut_file) : r = ut_file[i] /\ ut_file[i].port = a.port
          BY DEF RecordsOf
        <4> QED
          BY <1>7, <2>4, <3>2, <4>1
      <3> QED
        BY <3>1, <3>2
    <2> QED
      BY <2>1, <2>2, <2>5, <2>6 DEF Result
  <1> QED
    BY <1>13, <1>14

\* A NAS that restarts: its records no longer say that anyone is logged in.
SignedOff(R) == {[r EXCEPT !.login = FALSE] : r \in R}

LEMMA ZapLemma ==
  ASSUME UtTyped, OneEach(ut_file, ut_cache), NEW n, radutmp_zap(n)
  PROVE  /\ Filed({q \in NasPorts : NasOf[q] = n})
         /\ \A q \in NasPorts : NasOf[q] = n => RecordsOf(ut_file', q) = SignedOff(RecordsOf(ut_file, q))
  <1>1. PICK f : f = ut_file
    OBVIOUS
  <1>2. PICK g : g = ut_file'
    OBVIOUS
  <1>3. f \in Seq(UtRecord) /\ Len(f) \in Nat /\ DOMAIN f = 1 .. Len(f) /\ \A i \in 1 .. Len(f) : f[i] \in UtRecord
    BY <1>1 DEF UtTyped
  <1>4. g = [i \in 1 .. Len(f) |-> IF f[i].port \in NasPorts /\ NasOf[f[i].port] = n
                                    THEN [f[i] EXCEPT !.login = FALSE] ELSE f[i]]
    BY <1>1, <1>2, <1>3 DEF radutmp_zap
  <1>5. ASSUME NEW i \in 1 .. Len(f)
        PROVE  /\ g[i] \in UtRecord /\ g[i].port = f[i].port
               /\ g[i] = IF f[i].port \in NasPorts /\ NasOf[f[i].port] = n
                         THEN [f[i] EXCEPT !.login = FALSE] ELSE f[i]
    <2>1. g[i] = IF f[i].port \in NasPorts /\ NasOf[f[i].port] = n
                 THEN [f[i] EXCEPT !.login = FALSE] ELSE f[i]
      BY <1>4
    <2>2. f[i].port \in NasPorts => f[i] \in [port: NasPorts, session: 1 .. MaxLogins, login: BOOLEAN]
      BY <1>3, HoleIsNoPort DEF UtRecord
    <2>3. CASE f[i].port \in NasPorts /\ NasOf[f[i].port] = n
      BY <2>1, <2>2, <2>3 DEF UtRecord
    <2>4. CASE ~(f[i].port \in NasPorts /\ NasOf[f[i].port] = n)
      BY <1>3, <2>1, <2>4
    <2> QED
      BY <2>1, <2>3, <2>4
  <1>6. g \in Seq(UtRecord) /\ Len(g) = Len(f)
    <2>1. g \in [1 .. Len(f) -> UtRecord]
      BY <1>4, <1>5
    <2> QED
      BY <1>3, <2>1
  <1>7. ut_cache' = ut_cache
    BY DEF radutmp_zap
  <1>8. OneEach(g, ut_cache)
    BY <1>1, <1>5, <1>6 DEF OneEach
  <1>9. ASSUME NEW q \in NasPorts, NasOf[q] # n
        PROVE  RecordsOf(g, q) = RecordsOf(f, q)
    <2>1. \A i \in 1 .. Len(f) : g[i].port = f[i].port /\ (f[i].port = q => g[i] = f[i])
      BY <1>5, <1>9
    <2> QED
      BY <1>6, <2>1 DEF RecordsOf
  <1>10. ASSUME NEW q \in NasPorts, NasOf[q] = n
         PROVE  RecordsOf(g, q) = SignedOff(RecordsOf(f, q))
    <2>1. \A i \in 1 .. Len(f) : g[i].port = f[i].port /\ (f[i].port = q => g[i] = [f[i] EXCEPT !.login = FALSE])
      BY <1>5, <1>10
    <2>2. ASSUME NEW r \in RecordsOf(g, q) PROVE r \in SignedOff(RecordsOf(f, q))
      <3>1. PICK i \in 1 .. Len(f) : r = g[i] /\ g[i].port = q
        BY <1>6 DEF RecordsOf
      <3>2. f[i] \in RecordsOf(f, q)
        BY <2>1, <3>1 DEF RecordsOf
      <3> QED
        BY <2>1, <3>1, <3>2 DEF SignedOff
    <2>3. ASSUME NEW r \in SignedOff(RecordsOf(f, q)) PROVE r \in RecordsOf(g, q)
      <3>1. PICK i \in 1 .. Len(f) : r = [f[i] EXCEPT !.login = FALSE] /\ f[i].port = q
        BY DEF RecordsOf, SignedOff
      <3>2. r = g[i] /\ g[i].port = q
        BY <2>1, <3>1
      <3> QED
        BY <1>6, <3>2 DEF RecordsOf
    <2> QED
      BY <2>2, <2>3
  <1>11. Filed({q \in NasPorts : NasOf[q] = n})
    BY <1>1, <1>2, <1>6, <1>7, <1>8, <1>9 DEF Filed, UtTyped
  <1> QED
    BY <1>1, <1>2, <1>10, <1>11

----------------------------------------------------------------------------
(* One port.                                                                *)

RecordsOK(R) ==
    /\ \A r \in R : r.session \in 1 .. MaxLogins /\ r.login \in BOOLEAN
    /\ \A r, q \in R : r = q
SameSessions(R, S) == (\A r \in S : HasSession(R, r.session)) /\ (\A r \in R : HasSession(S, r.session))

LEMMA OffLemma ==
  ASSUME NEW R, RecordsOK(R), \A r \in R : r \in UtRecord
  PROVE  SameSessions(R, SignedOff(R)) /\ \A r \in SignedOff(R) : ~r.login
  <1>1. ASSUME NEW r \in R
        PROVE  [r EXCEPT !.login = FALSE].session = r.session /\ [r EXCEPT !.login = FALSE].login = FALSE
    BY DEF UtRecord, Hole
  <1> QED
    BY <1>1 DEF SignedOff, SameSessions, HasSession

\* The packet i of s has come, and those before it were lost.
Came(s, i, u) ==
    /\ s \in Seq(Acct) /\ u \in Seq(Acct) /\ Len(s) \in Nat /\ Len(u) \in Nat
    /\ i \in 1 .. Len(s) /\ Len(u) = Len(s) - i
    /\ \A j \in 1 .. Len(u) : i + j \in 1 .. Len(s) /\ u[j] = s[i + j]

LEMMA SuffixLemma ==
  ASSUME NEW s \in Seq(Acct), NEW i \in 1 .. Len(s)
  PROVE  Came(s, i, SubSeq(s, i + 1, Len(s)))
  BY SubSeqProperties DEF Came

\* A packet that is not of port p.
LEMMA OtherOrder ==
  ASSUME NEW p, NEW R, NEW S, NEW s, NEW i, NEW u, NEW T, NEW n, NEW a,
         Came(s, i, u), SameSessions(R, S), ~Of(a, p), InOrder(p, R, s, T, n)
  PROVE  InOrder(p, S, u, {a}, n)
  <1>1. \A j \in 1 .. Len(u) : i + j \in 1 .. Len(s) /\ u[j] = s[i + j]
    BY DEF Came
  <1>2. \A j, l \in 1 .. Len(u) : j < l => i + j < i + l
    BY DEF Came
  <1>3. \A j, l \in 1 .. Len(u) : j < l /\ Of(u[j], p) /\ Of(u[l], p) => Follows(u[j].session, u[l])
    BY <1>1, <1>2 DEF InOrder
  <1>4. \A r \in S : \E q \in R : q.session = r.session
    BY DEF SameSessions, HasSession
  <1>5. \A r \in S : \A j \in 1 .. Len(u) : Of(u[j], p) => Follows(r.session, u[j])
    BY <1>1, <1>4 DEF InOrder
  <1>6. \A r \in S : r.session <= n
    BY <1>4 DEF InOrder
  <1>7. \A j \in 1 .. Len(u) : Of(u[j], p) => u[j].session <= n
    BY <1>1 DEF InOrder
  <1> QED
    BY <1>3, <1>5, <1>6, <1>7 DEF InOrder

LEMMA OtherExact ==
  ASSUME NEW p, NEW R, NEW S, NEW s, NEW u, NEW T, NEW n, NEW on, NEW k, NEW m, NEW a,
         Came(s, 1, u), SameSessions(R, S), a = s[1], ~Of(a, p), ExactFor(p, R, s, T, n, on, k),
         m = 0 => \A r \in S : ~r.login
  PROVE  ExactFor(p, S, u, {a}, n, on, m)
  <1>1. \A j \in 1 .. Len(u) : 1 + j \in 1 .. Len(s) /\ u[j] = s[1 + j]
    BY DEF Came
  <1>2. ASSUME NEW x, NEW j \in 0 .. Len(u), Starts(p, s, x, j + 1)
        PROVE  Starts(p, u, x, j)
    <2>1. PICK l \in 1 .. j + 1 : Of(s[l], p) /\ s[l].status = "start" /\ s[l].session = x
      BY <1>2 DEF Starts
    <2>2. l - 1 \in 1 .. j /\ l - 1 \in 1 .. Len(u)
      BY <2>1 DEF Came
    <2>3. s[l] = u[l - 1]
      BY <1>1, <2>2
    <2> QED
      BY <2>1, <2>2, <2>3 DEF Starts
  <1>3. \A x : HasSession(R, x) => HasSession(S, x)
    BY DEF SameSessions, HasSession
  <1>4. ASSUME NEW j \in 1 .. Len(u), Of(u[j], p), u[j].status # "start"
        PROVE  Starts(p, u, u[j].session, j - 1) \/ HasSession(S, u[j].session)
    <2>1. Starts(p, s, s[1 + j].session, (1 + j) - 1) \/ HasSession(R, s[1 + j].session)
      BY <1>1, <1>4 DEF ExactFor
    <2>2. j - 1 \in 0 .. Len(u) /\ (1 + j) - 1 = (j - 1) + 1
      BY DEF Came
    <2> QED
      BY <1>1, <1>2, <1>3, <2>1, <2>2
  <1>5. on => Starts(p, u, n, Len(u)) \/ HasSession(S, n)
    <2>1. Len(s) = Len(u) + 1 /\ Len(u) \in 0 .. Len(u)
      BY DEF Came
    <2>2. on => Starts(p, s, n, Len(u) + 1) \/ HasSession(R, n)
      BY <2>1 DEF ExactFor
    <2> QED
      BY <1>2, <1>3, <2>1, <2>2
  <1> QED
    BY <1>4, <1>5 DEF ExactFor

\* A packet of port p that comes for the first time.
LEMMA MineOrder ==
  ASSUME NEW p, NEW R, NEW S, NEW s, NEW i, NEW u, NEW T, NEW n, NEW a, NEW again,
         Came(s, i, u), a = s[i], a \in Acct, Of(a, p), Result(R, a, again, S), InOrder(p, R, s, T, n)
  PROVE  InOrder(p, S, u, {a}, n)
  <1>1. \A j \in 1 .. Len(u) : i + j \in 1 .. Len(s) /\ u[j] = s[i + j] /\ i < i + j
    BY DEF Came
  <1>2. \A j, l \in 1 .. Len(u) : j < l => i + j < i + l
    BY DEF Came
  <1>3. \A j, l \in 1 .. Len(u) : j < l /\ Of(u[j], p) /\ Of(u[l], p) => Follows(u[j].session, u[l])
    BY <1>1, <1>2 DEF InOrder
  <1>4. \A j \in 1 .. Len(u) : Of(u[j], p) => Follows(a.session, u[j])
    BY <1>1 DEF InOrder, Came
  <1>5. a.session <= n
    BY DEF InOrder, Came
  <1>6. \A r \in S : r.session = a.session \/ r \in R
    BY AcctLemma DEF Result, Of
  <1>7. \A r \in S : \A j \in 1 .. Len(u) : Of(u[j], p) => Follows(r.session, u[j])
    BY <1>1, <1>4, <1>6 DEF InOrder
  <1>8. \A r \in S : r.session <= n
    BY <1>5, <1>6 DEF InOrder
  <1>9. \A j \in 1 .. Len(u) : Of(u[j], p) => u[j].session <= n
    BY <1>1 DEF InOrder
  <1> QED
    BY <1>3, <1>4, <1>5, <1>7, <1>8, <1>9 DEF InOrder

\* It is written, unless it is a Stop.
LEMMA MineIsWritten ==
  ASSUME NEW p, NEW R, NEW S, NEW a \in Acct, Of(a, p), RecordsOK(R), Result(R, a, FALSE, S),
         \A r \in R : Follows(r.session, a), a.status # "stop"
  PROVE  S = {New(a)}
  <1>1. \A r \in R : Follows(r.session, a)
    OBVIOUS
  <1>2. a.session \in Int /\ \A r \in R : r.session \in Int
    BY AcctLemma, RadutmpAssumption DEF Of, RecordsOK
  <1>3. \A r \in R : MayWrite(a, r, FALSE)
    BY <1>1, <1>2 DEF MayWrite, Follows
  <1> QED
    BY <1>3 DEF Result

LEMMA MineHeard ==
  ASSUME NEW p, NEW S, NEW a, a \in Acct, Of(a, p), a.status # "stop" => S = {New(a)}
  PROVE  Heard(p, S, {a}, IF a.status = "stop" THEN 0 ELSE a.session)
  BY AcctLemma, RadutmpAssumption DEF Heard, Of

LEMMA MineExact ==
  ASSUME NEW p, NEW R, NEW S, NEW s, NEW u, NEW T, NEW n, NEW on, NEW k, NEW a,
         Came(s, 1, u), a = s[1], a \in Acct, Of(a, p), RecordsOK(R), n \in Nat,
         Result(R, a, FALSE, S), a.status # "stop" => S = {New(a)},
         InOrder(p, R, s, T, n), ExactFor(p, R, s, T, n, on, k)
  PROVE  ExactFor(p, S, u, {a}, n, on, IF a.status = "stop" THEN 0 ELSE a.session)
  <1>1. \A j \in 1 .. Len(u) : 1 + j \in 1 .. Len(s) /\ u[j] = s[1 + j] /\ s[1 + j] \in Acct
    BY DEF Came
  <1>2. /\ a.session \in 1 .. MaxLogins /\ a.status \in {"start", "stop", "alive"} /\ a.session \in Int
        /\ New(a).session = a.session /\ New(a).login = (a.status # "stop") /\ a.session # 0
    BY AcctLemma, RadutmpAssumption DEF Of
  <1>3. /\ \A r \in R : r.session \in Int /\ r.session <= a.session
        /\ a.session <= n
        /\ \A j \in 1 .. Len(u) : Of(u[j], p) => u[j].session \in Int /\ a.session <= u[j].session
    <2>1. 1 \in 1 .. Len(s)
      BY DEF Came
    <2>2. \A r \in R : r.session \in Int /\ r.session <= a.session
      BY <2>1, RadutmpAssumption DEF InOrder, Follows, RecordsOK
    <2>3. a.session <= n
      BY <2>1 DEF InOrder
    <2>4. \A j \in 1 .. Len(u) : 1 < 1 + j
      BY DEF Came
    <2>5. \A j \in 1 .. Len(u) : Of(u[j], p) => a.session <= u[j].session
      BY <1>1, <2>1, <2>4 DEF InOrder, Follows
    <2>6. \A j \in 1 .. Len(u) : Of(u[j], p) => u[j].session \in Int
      BY <1>1, AcctLemma, RadutmpAssumption DEF Of
    <2> QED
      BY <2>2, <2>3, <2>5, <2>6
  \* A packet that is not a Start belongs to the record.
  <1>4. a.status # "start" => HasSession(R, a.session)
    <2>1. 1 \in 1 .. Len(s) /\ 1 - 1 = 0
      BY DEF Came
    <2>2. ~Starts(p, s, a.session, 0)
      BY DEF Starts
    <2> QED
      BY <2>1, <2>2 DEF ExactFor
  <1>5. S = {New(a)} \/ S = R
    BY DEF Result
  <1>6. HasSession(S, a.session)
    BY <1>2, <1>4, <1>5 DEF HasSession
  <1>7. a.status = "stop" => \A r \in S : ~r.login
    <2>1. CASE S = {New(a)}
      BY <1>2, <2>1
    <2>2. CASE S # {New(a)} /\ a.status = "stop"
      <3>1. S = R /\ \A r \in R : ~r.login \/ ~MayWrite(a, r, FALSE)
        BY <2>2 DEF Result
      <3>2. \A r \in R : r.session = a.session
        BY <1>4, <2>2 DEF HasSession, RecordsOK
      <3>3. \A r \in R : MayWrite(a, r, FALSE)
        BY <2>2, <3>2 DEF MayWrite
      <3> QED
        BY <3>1, <3>3
    <2> QED
      BY <2>1, <2>2
  \* A session that is of the record and not before this one is this one.
  <1>8. ASSUME NEW x \in Int, a.session <= x, HasSession(R, x)
        PROVE  HasSession(S, x)
    <2>1. PICK r \in R : r.session = x
      BY <1>8 DEF HasSession
    <2>2. x = a.session
      BY <1>2, <1>3, <1>8, <2>1
    <2> QED
      BY <1>6, <2>2
  <1>9. ASSUME NEW x \in Int, a.session <= x, NEW j \in 0 .. Len(u), Starts(p, s, x, j + 1)
        PROVE  Starts(p, u, x, j) \/ HasSession(S, x)
    <2>1. PICK l \in 1 .. j + 1 : Of(s[l], p) /\ s[l].status = "start" /\ s[l].session = x
      BY <1>9 DEF Starts
    <2>2. CASE l = 1
      BY <1>6, <2>1, <2>2
    <2>3. CASE l # 1
      <3>1. l - 1 \in 1 .. j /\ l - 1 \in 1 .. Len(u)
        BY <2>1, <2>3 DEF Came
      <3>2. s[l] = u[l - 1]
        BY <1>1, <3>1
      <3> QED
        BY <2>1, <3>1, <3>2 DEF Starts
    <2> QED
      BY <2>2, <2>3
  <1>10. ASSUME NEW j \in 1 .. Len(u), Of(u[j], p), u[j].status # "start"
         PROVE  Starts(p, u, u[j].session, j - 1) \/ HasSession(S, u[j].session)
    <2>1. Starts(p, s, s[1 + j].session, (1 + j) - 1) \/ HasSession(R, s[1 + j].session)
      BY <1>1, <1>10 DEF ExactFor
    <2>2. j - 1 \in 0 .. Len(u) /\ (1 + j) - 1 = (j - 1) + 1
      BY DEF Came
    <2>3. u[j].session \in Int /\ a.session <= u[j].session /\ u[j] = s[1 + j]
      BY <1>1, <1>3, <1>10
    <2> QED
      BY <1>8, <1>9, <2>1, <2>2, <2>3
  <1>11. on => Starts(p, u, n, Len(u)) \/ HasSession(S, n)
    <2>1. Len(s) = Len(u) + 1 /\ Len(u) \in 0 .. Len(u)
      BY DEF Came
    <2>2. on => Starts(p, s, n, Len(u) + 1) \/ HasSession(R, n)
      BY <2>1 DEF ExactFor
    <2> QED
      BY <1>3, <1>8, <1>9, <2>1, <2>2
  <1> QED
    BY <1>2, <1>6, <1>7, <1>10, <1>11 DEF ExactFor

\* A packet of port p that came before.
LEMMA AgainOrder ==
  ASSUME NEW p, NEW R, NEW S, NEW s, NEW n, NEW a, NEW again, NEW t,
         a \in Acct, Of(a, p), Of(t, p), t.session = a.session, Result(R, a, again, S), InOrder(p, R, s, {t}, n)
  PROVE  InOrder(p, S, s, {t}, n)
  <1>1. \A r \in S : r.session = a.session \/ r \in R
    BY AcctLemma DEF Result, Of
  <1> QED
    BY <1>1 DEF InOrder

LEMMA AgainHeard ==
  ASSUME NEW p, NEW R, NEW S, NEW a, NEW k, RecordsOK(R),
         a \in Acct, Of(a, p), Result(R, a, TRUE, S), Heard(p, R, {a}, k)
  PROVE  Heard(p, S, {a}, IF a.status = "stop" THEN 0 ELSE a.session)
  <1>1. /\ a.session \in 1 .. MaxLogins /\ a.session # 0
        /\ New(a).session = a.session /\ New(a).login = (a.status # "stop")
    BY AcctLemma, RadutmpAssumption DEF Of
  <1>2. CASE a.status = "stop"
    BY <1>1, <1>2 DEF Heard
  <1>3. CASE a.status # "stop"
    <2>1. S = {New(a)} \/ (S = R /\ R # {})
      BY <1>3 DEF Result
    <2>2. \A r \in S : r.login /\ r.session = a.session
      BY <1>1, <1>3, <2>1 DEF Heard
    <2>3. \E r \in S : r.login /\ r.session = a.session
      BY <2>1, <2>2
    <2> QED
      BY <1>1, <1>3, <2>2, <2>3 DEF Heard
  <1> QED
    BY <1>2, <1>3

LEMMA SessionsExact ==
  ASSUME NEW p, NEW R, NEW S, NEW s, NEW T, NEW n, NEW on, NEW k, NEW m,
         SameSessions(R, S), ExactFor(p, R, s, T, n, on, k), m = 0 => \A r \in S : ~r.login
  PROVE  ExactFor(p, S, s, T, n, on, m)
  <1>1. \A x : HasSession(R, x) => HasSession(S, x)
    BY DEF SameSessions, HasSession
  <1> QED
    BY <1>1 DEF ExactFor

LEMMA AgainExact ==
  ASSUME NEW p, NEW R, NEW S, NEW s, NEW n, NEW on, NEW k, NEW a, RecordsOK(R),
         a \in Acct, Of(a, p), Result(R, a, TRUE, S), ExactFor(p, R, s, {a}, n, on, k)
  PROVE  ExactFor(p, S, s, {a}, n, on, IF a.status = "stop" THEN 0 ELSE a.session)
  <1>1. /\ a.session \in 1 .. MaxLogins /\ a.session # 0
        /\ New(a).session = a.session /\ New(a).login = (a.status # "stop")
    BY AcctLemma, RadutmpAssumption DEF Of
  <1>2. HasSession(R, a.session) /\ \A r \in R : r.session = a.session
    BY DEF ExactFor, HasSession, RecordsOK
  <1>3. S = {New(a)} \/ S = R
    BY DEF Result
  <1>4. SameSessions(R, S)
    BY <1>1, <1>2, <1>3 DEF SameSessions, HasSession
  <1>5. a.status = "stop" => \A r \in S : ~r.login
    <2>1. CASE S = {New(a)}
      BY <1>1, <2>1
    <2>2. CASE S # {New(a)} /\ a.status = "stop"
      <3>1. S = R /\ \A r \in R : ~r.login \/ ~MayWrite(a, r, TRUE)
        BY <2>2 DEF Result
      <3>2. \A r \in R : MayWrite(a, r, TRUE)
        BY <1>2, <2>2 DEF MayWrite
      <3> QED
        BY <3>1, <3>2
    <2> QED
      BY <2>1, <2>2
  <1>6. PICK m : m = IF a.status = "stop" THEN 0 ELSE a.session
    OBVIOUS
  <1>7. m = 0 => \A r \in S : ~r.login
    BY <1>1, <1>5, <1>6
  <1>8. ExactFor(p, S, s, {a}, n, on, m)
    BY <1>4, <1>7, SessionsExact
  <1> QED
    BY <1>6, <1>8

\* The Start of the session that is over does not write.
LEMMA LateExact ==
  ASSUME NEW p, NEW R, NEW S, NEW s, NEW n, NEW on, NEW k, NEW t, NEW a, ut_conf.delay,
         Of(t, p), a.status = "start", a.session = t.session,
         Result(R, a, TRUE, S), ExactFor(p, R, s, {t}, n, on, k)
  PROVE  S = R
  <1>1. PICK r \in R : r.session = t.session
    BY DEF ExactFor, HasSession
  <1>2. ~MayWrite(a, r, TRUE)
    BY <1>1 DEF MayWrite
  <1> QED
    BY <1>1, <1>2 DEF Result

\* A NAS sends a packet.
Appended(s, x, u) ==
    /\ s \in Seq(Acct) /\ u \in Seq(Acct) /\ Len(s) \in Nat /\ Len(u) = Len(s) + 1
    /\ u[Len(u)] = x /\ \A j \in 1 .. Len(s) : u[j] = s[j]

LEMMA SendOrder ==
  ASSUME NEW p, NEW R, NEW s, NEW x, NEW u, NEW T, NEW n \in Nat, NEW m \in Nat,
         Appended(s, x, u), InOrder(p, R, s, T, n), n <= m, RecordsOK(R), \A t \in T : t \in Acct,
         Of(x, p) => Follows(n, x) /\ x.session = m
  PROVE  InOrder(p, R, u, T, m)
  <1>1. \A j \in 1 .. Len(u) : (j \in 1 .. Len(s) /\ u[j] = s[j] /\ s[j] \in Acct) \/ (j = Len(u) /\ u[j] = x /\ j = Len(s) + 1)
    BY DEF Appended
  <1>2. Len(s) \in Nat /\ Len(u) \in Nat
    BY DEF Appended
  <1>3. \A y \in Nat : y <= n /\ Of(x, p) => Follows(y, x)
    BY AcctLemma DEF Follows
  <1>4. \A y \in Acct : Of(y, p) => y.session \in Nat
    BY AcctLemma, RadutmpAssumption DEF Of
  <1>5. \A r \in R : r.session \in Nat /\ r.session <= n
    BY RadutmpAssumption DEF RecordsOK, InOrder
  <1>6. \A j \in 1 .. Len(s) : Of(s[j], p) => s[j].session \in Nat /\ s[j].session <= n
    BY <1>1, <1>4 DEF InOrder, Appended
  <1>7. \A t \in T : Of(t, p) => t.session \in Nat /\ t.session <= n
    BY <1>4 DEF InOrder
  <1>8. ASSUME NEW i \in 1 .. Len(u), NEW j \in 1 .. Len(u), i < j, Of(u[i], p), Of(u[j], p)
        PROVE  Follows(u[i].session, u[j])
    <2>1. i \in 1 .. Len(s) /\ u[i] = s[i]
      BY <1>1, <1>2, <1>8
    <2>2. CASE j \in 1 .. Len(s) /\ u[j] = s[j]
      BY <1>8, <2>1, <2>2 DEF InOrder
    <2>3. CASE u[j] = x
      BY <1>3, <1>6, <1>8, <2>1, <2>3
    <2> QED
      BY <1>1, <2>2, <2>3
  <1>9. \A r \in R : \A j \in 1 .. Len(u) : Of(u[j], p) => Follows(r.session, u[j])
    BY <1>1, <1>3, <1>5 DEF InOrder
  <1>10. \A t \in T : \A j \in 1 .. Len(u) : Of(t, p) /\ Of(u[j], p) => Follows(t.session, u[j])
    BY <1>1, <1>3, <1>7 DEF InOrder
  <1>11. \A j \in 1 .. Len(u) : Of(u[j], p) => u[j].session <= m
    BY <1>1, <1>6
  <1>12. \A r \in R : r.session <= m
    BY <1>5
  <1>13. \A t \in T : Of(t, p) => t.session <= m
    BY <1>7
  <1> QED
    BY <1>8, <1>9, <1>10, <1>11, <1>12, <1>13 DEF InOrder

LEMMA SendExact ==
  ASSUME NEW p, NEW R, NEW s, NEW x, NEW u, NEW T, NEW n, NEW m, NEW on, NEW off, NEW k,
         Appended(s, x, u), ExactFor(p, R, s, T, n, on, k),
         Of(x, p) => x.session = m /\ (x.status # "start" => on /\ m = n),
         off => (Of(x, p) /\ x.status = "start") \/ (on /\ m = n)
  PROVE  ExactFor(p, R, u, T, m, off, k)
  <1>1. \A j \in 1 .. Len(u) : (j \in 1 .. Len(s) /\ u[j] = s[j]) \/ (j = Len(u) /\ u[j] = x /\ j = Len(s) + 1)
    BY DEF Appended
  <1>2. Len(s) \in Nat /\ Len(u) = Len(s) + 1 /\ u[Len(u)] = x /\ \A j \in 1 .. Len(s) : u[j] = s[j]
    BY DEF Appended
  <1>3. ASSUME NEW y, NEW j \in 0 .. Len(s), Starts(p, s, y, j)
        PROVE  Starts(p, u, y, j) /\ Starts(p, u, y, Len(u))
    <2>1. PICK l \in 1 .. j : Of(s[l], p) /\ s[l].status = "start" /\ s[l].session = y
      BY <1>3 DEF Starts
    <2>2. l \in 1 .. Len(s) /\ l \in 1 .. Len(u) /\ u[l] = s[l]
      BY <1>2
    <2> QED
      BY <2>1, <2>2 DEF Starts
  <1>4. on => Starts(p, u, n, Len(s)) \/ HasSession(R, n)
    BY <1>2, <1>3 DEF ExactFor
  <1>5. on => Starts(p, u, n, Len(u)) \/ HasSession(R, n)
    BY <1>2, <1>3 DEF ExactFor
  <1>6. ASSUME NEW j \in 1 .. Len(u), Of(u[j], p), u[j].status # "start"
        PROVE  Starts(p, u, u[j].session, j - 1) \/ HasSession(R, u[j].session)
    <2>1. CASE j \in 1 .. Len(s) /\ u[j] = s[j]
      <3>1. Starts(p, s, s[j].session, j - 1) \/ HasSession(R, s[j].session)
        BY <1>6, <2>1 DEF ExactFor
      <3>2. j - 1 \in 0 .. Len(s)
        BY <1>2, <2>1
      <3> QED
        BY <1>3, <2>1, <3>1, <3>2
    <2>2. CASE u[j] = x /\ j = Len(s) + 1
      <3>1. j - 1 = Len(s)
        BY <1>2, <2>2
      <3> QED
        BY <1>4, <1>6, <2>2, <3>1
    <2> QED
      BY <1>1, <2>1, <2>2
  <1>7. off => Starts(p, u, m, Len(u)) \/ HasSession(R, m)
    <2>1. CASE Of(x, p) /\ x.status = "start"
      <3>1. Len(u) \in 1 .. Len(u)
        BY <1>2
      <3> QED
        BY <1>2, <2>1, <3>1 DEF Starts
    <2>2. CASE on /\ m = n
      BY <1>5, <2>2
    <2> QED
      BY <2>1, <2>2
  <1> QED
    BY <1>6, <1>7 DEF ExactFor

----------------------------------------------------------------------------
(* The steps.                                                               *)

\* What the invariant says of a port.
LEMMA PortLemma ==
  ASSUME UtInv, NEW p \in NasPorts
  PROVE  /\ RecordsOK(RecordsOf(ut_file, p)) /\ \A r \in RecordsOf(ut_file, p) : r \in UtRecord
         /\ nas[p].n \in 0 .. MaxLogins /\ nas[p].n \in Nat /\ nas[p].on \in BOOLEAN /\ known[p] \in 0 .. MaxLogins
  <1>1. ut_file \in Seq(UtRecord) /\ OneEach(ut_file, ut_cache)
    BY DEF UtInv, UtTyped
  <1>2. RecordsOK(RecordsOf(ut_file, p))
    BY <1>1, RecordsLemma DEF RecordsOK
  <1>3. \A r \in RecordsOf(ut_file, p) : r \in UtRecord
    BY <1>1 DEF RecordsOf
  <1>4. nas[p] \in [n: 0 .. MaxLogins, on: BOOLEAN] /\ known[p] \in 0 .. MaxLogins
    BY DEF UtInv, UtTyped
  <1>5. nas[p].n \in 0 .. MaxLogins /\ nas[p].n \in Nat /\ nas[p].on \in BOOLEAN
    BY <1>4, RadutmpAssumption
  <1> QED
    BY <1>2, <1>3, <1>4, <1>5

LEMMA ToldLemma ==
  ASSUME UtTyped, told # <<>>
  PROVE  told[1] \in Acct /\ Repeated(told) = {told[1]}
  <1>1. told \in Seq(Acct) /\ Len(told) \in Nat /\ Len(told) # 0 /\ Len(told) <= 1
    BY EmptySeq DEF UtTyped
  <1>2. PICK l \in Nat : l = Len(told) /\ l # 0 /\ l <= 1
    BY <1>1
  <1>3. l = 1
    BY <1>2
  <1> QED
    BY <1>1, <1>2, <1>3 DEF Repeated

\* What a packet does to the records of port p, and to what is known of it.
PortStep(p, a, again) ==
    \/ /\ Of(a, p)
       /\ Result(RecordsOf(ut_file, p), a, again, RecordsOf(ut_file', p))
       /\ known'[p] = IF a.status = "stop" THEN 0 ELSE a.session
    \/ /\ ~Of(a, p)
       /\ RecordsOf(ut_file', p) = SignedOff(RecordsOf(ut_file, p))
       /\ known'[p] = 0
    \/ /\ ~Of(a, p)
       /\ RecordsOf(ut_file', p) = RecordsOf(ut_file, p)
       /\ known'[p] = known[p]

FileOK == ut_file' \in Seq(UtRecord) /\ ut_cache' \in [NasPorts -> Nat] /\ OneEach(ut_file', ut_cache')

LEMMA TakeLemma ==
  ASSUME UtInv, NEW a \in Acct, NEW again \in BOOLEAN, Take(a, again)
  PROVE  /\ FileOK /\ known' \in [NasPorts -> 0 .. MaxLogins]
         /\ ut_conf' = ut_conf /\ nas' = nas
         /\ ut_conf.network # "any" => \A p \in NasPorts : PortStep(p, a, again)
  <1>1. UtTyped /\ OneEach(ut_file, ut_cache) /\ known \in [NasPorts -> 0 .. MaxLogins]
    BY DEF UtInv, UtTyped
  <1>2. ut_conf' = ut_conf /\ nas' = nas /\ Learn(a)
    BY DEF Take
  <1>3. CASE a.status = "on"
    <2>1. radutmp_zap(a.nas)
      BY <1>3 DEF Take
    <2>2. /\ Filed({q \in NasPorts : NasOf[q] = a.nas})
          /\ \A q \in NasPorts : NasOf[q] = a.nas => RecordsOf(ut_file', q) = SignedOff(RecordsOf(ut_file, q))
      BY <1>1, <2>1, ZapLemma
    <2>3. FileOK
      BY <2>2 DEF Filed, FileOK
    <2>4. known' = IF ut_conf.network = "any" THEN known
                   ELSE [p \in NasPorts |-> IF NasOf[p] = a.nas THEN 0 ELSE known[p]]
      BY <1>2, <1>3 DEF Learn
    <2>5. known' \in [NasPorts -> 0 .. MaxLogins]
      BY <1>1, <2>4, RadutmpAssumption
    <2>6. ASSUME NEW p \in NasPorts, ut_conf.network # "any"
          PROVE  PortStep(p, a, again)
      <3>1. ~Of(a, p)
        BY <1>3 DEF Of
      <3>2. CASE NasOf[p] = a.nas
        BY <2>2, <2>4, <2>6, <3>1, <3>2 DEF PortStep
      <3>3. CASE NasOf[p] # a.nas
        <4>1. RecordsOf(ut_file', p) = RecordsOf(ut_file, p)
          BY <2>2, <3>3 DEF Filed
        <4> QED
          BY <2>4, <2>6, <3>1, <3>3, <4>1 DEF PortStep
      <3> QED
        BY <3>2, <3>3
    <2> QED
      BY <1>2, <2>3, <2>5, <2>6
  <1>4. CASE a.status # "on"
    <2>1. radutmp_accounting(a, again)
      BY <1>4 DEF Take
    <2>2. Filed({a.port}) /\ Result(RecordsOf(ut_file, a.port), a, again, RecordsOf(ut_file', a.port))
      BY <1>1, <1>4, <2>1, RadutmpLemma
    <2>3. FileOK
      BY <2>2 DEF Filed, FileOK
    <2>4. known' = IF ut_conf.network = "any" THEN known
                   ELSE [known EXCEPT ![a.port] = IF a.status = "stop" THEN 0 ELSE a.session]
      BY <1>2, <1>4 DEF Learn
    <2>5. a.port \in NasPorts /\ a.session \in 0 .. MaxLogins /\ 0 \in 0 .. MaxLogins
      BY <1>4, AcctLemma, RadutmpAssumption
    <2>6. known' \in [NasPorts -> 0 .. MaxLogins]
      BY <1>1, <2>4, <2>5
    <2>7. ASSUME NEW p \in NasPorts, ut_conf.network # "any"
          PROVE  PortStep(p, a, again)
      <3>1. CASE p = a.port
        <4>1. Of(a, p)
          BY <1>4, <3>1 DEF Of
        <4>2. known'[p] = IF a.status = "stop" THEN 0 ELSE a.session
          BY <1>1, <2>4, <2>7, <3>1
        <4> QED
          BY <2>2, <3>1, <4>1, <4>2 DEF PortStep
      <3>2. CASE p # a.port
        <4>1. ~Of(a, p)
          BY <3>2 DEF Of
        <4>2. RecordsOf(ut_file', p) = RecordsOf(ut_file, p)
          BY <2>2, <3>2 DEF Filed
        <4>3. known'[p] = known[p]
          BY <1>1, <2>4, <2>7, <3>2
        <4> QED
          BY <4>1, <4>2, <4>3 DEF PortStep
      <3> QED
        BY <3>1, <3>2
    <2> QED
      BY <1>2, <2>3, <2>6, <2>7
  <1> QED
    BY <1>3, <1>4

LEMMA SameSessionsAs == ASSUME NEW R PROVE SameSessions(R, R)
  BY DEF SameSessions, HasSession

LEMMA ArrivesLemma ==
  ASSUME UtInv, Arrives
  PROVE  UtInv'
  <1>1. PICK i \in DOMAIN sent :
          /\ ut_conf.network = "ordered" => i = 1
          /\ sent' = SubSeq(sent, i + 1, Len(sent))
          /\ Take(sent[i], FALSE)
          /\ told' = <<sent[i]>>
    BY DEF Arrives
  <1>2. ut_conf.network # "any"
    BY DEF Arrives
  <1>3. sent \in Seq(Acct) /\ i \in 1 .. Len(sent) /\ UtTyped
    BY <1>1 DEF UtInv, UtTyped
  <1>4. Came(sent, i, sent')
    BY <1>1, <1>3, SuffixLemma
  <1>5. PICK a \in Acct : a = sent[i]
    BY <1>3
  <1>6. /\ FileOK /\ known' \in [NasPorts -> 0 .. MaxLogins]
        /\ ut_conf' = ut_conf /\ nas' = nas
        /\ \A p \in NasPorts : PortStep(p, a, FALSE)
    BY <1>1, <1>2, <1>5, TakeLemma
  <1>7. told' = <<a>> /\ told' \in Seq(Acct) /\ Len(told') = 1 /\ Repeated(told') = {a}
    BY <1>1, <1>5 DEF Repeated
  <1>8. UtTyped'
    BY <1>3, <1>4, <1>6, <1>7 DEF UtTyped, FileOK, Came
  <1>9. ASSUME NEW p \in NasPorts
        PROVE  /\ PortOrder(p)' /\ PortHeard(p)'
               /\ ut_conf.network = "ordered" /\ ut_conf.delay => PortExact(p)'
    <2>1. PICK R, S, k, m : R = RecordsOf(ut_file, p) /\ S = RecordsOf(ut_file', p) /\ k = known[p] /\ m = known'[p]
      OBVIOUS
    <2>2. PICK s, u, T : s = sent /\ u = sent' /\ T = Repeated(told)
      OBVIOUS
    <2>3. PICK n, on : n = nas[p].n /\ on = nas[p].on
      OBVIOUS
    <2>4. RecordsOK(R) /\ (\A r \in R : r \in UtRecord) /\ n \in Nat /\ Came(s, i, u) /\ a = s[i] /\ i \in 1 .. Len(s)
      BY <1>3, <1>4, <1>5, <2>1, <2>2, <2>3, PortLemma
    <2>5. InOrder(p, R, s, T, n) /\ Heard(p, R, T, k)
      BY <1>2, <2>1, <2>2, <2>3 DEF UtInv, PortOrder, PortHeard
    <2>6. ut_conf.network = "ordered" /\ ut_conf.delay => ExactFor(p, R, s, T, n, on, k) /\ i = 1
      BY <1>1, <2>1, <2>2, <2>3 DEF UtInv, PortExact
    <2>7. SUFFICES InOrder(p, S, u, {a}, n) /\ Heard(p, S, {a}, m)
                   /\ (ut_conf.network = "ordered" /\ ut_conf.delay => ExactFor(p, S, u, {a}, n, on, m))
      BY <1>6, <1>7, <2>1, <2>2, <2>3 DEF PortOrder, PortHeard, PortExact
    <2>8. CASE Of(a, p)
      <3>1. Result(R, a, FALSE, S) /\ m = IF a.status = "stop" THEN 0 ELSE a.session
        BY <1>6, <2>1, <2>8 DEF PortStep
      <3>2. InOrder(p, S, u, {a}, n)
        BY <2>4, <2>5, <2>8, <3>1, MineOrder
      <3>3. a.status # "stop" => S = {New(a)}
        <4>1. ASSUME a.status # "stop" PROVE S = {New(a)}
          <5>1. \A r \in R : Follows(r.session, a)
            BY <2>4, <2>5, <2>8 DEF InOrder
          <5> QED
            BY <2>4, <2>8, <3>1, <4>1, <5>1, MineIsWritten
        <4> QED
          BY <4>1
      <3>4. Heard(p, S, {a}, m)
        BY <2>8, <3>1, <3>3, MineHeard
      <3>5. ASSUME ut_conf.network = "ordered", ut_conf.delay
            PROVE  ExactFor(p, S, u, {a}, n, on, m)
        BY <2>4, <2>5, <2>6, <2>8, <3>1, <3>3, <3>5, MineExact
      <3> QED
        BY <3>2, <3>4, <3>5
    <2>9. CASE ~Of(a, p)
      <3>1. SameSessions(R, S) /\ (m = 0 => (S = R /\ k = 0) \/ (\A r \in S : ~r.login))
            /\ (m # 0 => S = R /\ k = m)
        BY <1>6, <2>1, <2>4, <2>9, OffLemma, SameSessionsAs DEF PortStep
      <3>2. InOrder(p, S, u, {a}, n)
        BY <2>4, <2>5, <2>9, <3>1, OtherOrder
      <3>3. Heard(p, S, {a}, m)
        BY <2>5, <2>9, <3>1 DEF Heard
      <3>4. ASSUME ut_conf.network = "ordered", ut_conf.delay
            PROVE  ExactFor(p, S, u, {a}, n, on, m)
        <4>1. m = 0 => \A r \in S : ~r.login
          BY <2>6, <3>1, <3>4 DEF ExactFor
        <4> QED
          BY <2>4, <2>6, <2>9, <3>1, <3>4, <4>1, OtherExact
      <3> QED
        BY <3>2, <3>3, <3>4
    <2> QED
      BY <2>8, <2>9
  <1> QED
    BY <1>6, <1>8, <1>9 DEF UtInv, FileOK

LEMMA ArrivesAgainLemma ==
  ASSUME UtInv, ArrivesAgain
  PROVE  UtInv'
  <1>1. UtTyped /\ told # <<>> /\ Take(told[1], TRUE) /\ sent' = sent /\ told' = told
    BY DEF UtInv, ArrivesAgain
  <1>2. PICK a \in Acct : a = told[1] /\ Repeated(told) = {a}
    BY <1>1, ToldLemma
  <1>3. /\ FileOK /\ known' \in [NasPorts -> 0 .. MaxLogins]
        /\ ut_conf' = ut_conf /\ nas' = nas
        /\ ut_conf.network # "any" => \A p \in NasPorts : PortStep(p, a, TRUE)
    BY <1>1, <1>2, TakeLemma
  <1>4. UtTyped'
    BY <1>1, <1>3 DEF UtTyped, FileOK
  <1>5. ASSUME NEW p \in NasPorts, ut_conf.network # "any"
        PROVE  /\ PortOrder(p)' /\ PortHeard(p)'
               /\ ut_conf.network = "ordered" /\ ut_conf.delay => PortExact(p)'
    <2>1. PICK R, S, k, m : R = RecordsOf(ut_file, p) /\ S = RecordsOf(ut_file', p) /\ k = known[p] /\ m = known'[p]
      OBVIOUS
    <2>2. PICK s, n, on : s = sent /\ n = nas[p].n /\ on = nas[p].on
      OBVIOUS
    <2>3. RecordsOK(R) /\ (\A r \in R : r \in UtRecord)
      BY <2>1, PortLemma
    <2>4. InOrder(p, R, s, {a}, n) /\ Heard(p, R, {a}, k)
      BY <1>2, <1>5, <2>1, <2>2 DEF UtInv, PortOrder, PortHeard
    <2>5. ut_conf.network = "ordered" /\ ut_conf.delay => ExactFor(p, R, s, {a}, n, on, k)
      BY <1>2, <2>1, <2>2 DEF UtInv, PortExact
    <2>6. SUFFICES InOrder(p, S, s, {a}, n) /\ Heard(p, S, {a}, m)
                   /\ (ut_conf.network = "ordered" /\ ut_conf.delay => ExactFor(p, S, s, {a}, n, on, m))
      BY <1>1, <1>2, <1>3, <2>1, <2>2 DEF PortOrder, PortHeard, PortExact
    <2>7. CASE Of(a, p)
      <3>1. Result(R, a, TRUE, S) /\ m = IF a.status = "stop" THEN 0 ELSE a.session
        BY <1>3, <1>5, <2>1, <2>7 DEF PortStep
      <3>2. InOrder(p, S, s, {a}, n)
        <4>1. a.session = a.session
          OBVIOUS
        <4> QED
          BY <2>4, <2>7, <3>1, <4>1, AgainOrder
      <3>3. Heard(p, S, {a}, m)
        BY <2>3, <2>4, <2>7, <3>1, AgainHeard
      <3>4. ASSUME ut_conf.network = "ordered", ut_conf.delay
            PROVE  ExactFor(p, S, s, {a}, n, on, m)
        BY <2>3, <2>5, <2>7, <3>1, <3>4, AgainExact
      <3> QED
        BY <3>2, <3>3, <3>4
    <2>8. CASE ~Of(a, p)
      <3>1. SameSessions(R, S) /\ (m = 0 => (S = R /\ k = 0) \/ (\A r \in S : ~r.login))
            /\ (m # 0 => S = R /\ k = m)
        BY <1>3, <1>5, <2>1, <2>3, <2>8, OffLemma, SameSessionsAs DEF PortStep
      <3>2. InOrder(p, S, s, {a}, n)
        <4>1. \A r \in S : \E q \in R : q.session = r.session
          BY <3>1 DEF SameSessions, HasSession
        <4> QED
          BY <2>4, <4>1 DEF InOrder
      <3>3. Heard(p, S, {a}, m)
        BY <2>4, <2>8, <3>1 DEF Heard
      <3>4. ASSUME ut_conf.network = "ordered", ut_conf.delay
            PROVE  ExactFor(p, S, s, {a}, n, on, m)
        <4>1. m = 0 => \A r \in S : ~r.login
          BY <2>5, <3>1, <3>4 DEF ExactFor
        <4> QED
          BY <2>5, <3>1, <3>4, <4>1, SessionsExact
      <3> QED
        BY <3>2, <3>3, <3>4
    <2> QED
      BY <2>7, <2>8
  <1> QED
    BY <1>3, <1>4, <1>5 DEF UtInv, FileOK

LEMMA StartArrivesLateLemma ==
  ASSUME UtInv, StartArrivesLate
  PROVE  UtInv'
  <1>1. /\ UtTyped /\ OneEach(ut_file, ut_cache) /\ told # <<>> /\ told[1].status = "stop"
        /\ radutmp_accounting([told[1] EXCEPT !.status = "start"], TRUE)
        /\ ut_conf' = ut_conf /\ nas' = nas /\ sent' = sent /\ known' = known /\ told' = told
    BY DEF UtInv, StartArrivesLate
  <1>2. PICK t \in Acct : t = told[1] /\ Repeated(told) = {t}
    BY <1>1, ToldLemma
  <1>3. PICK a : a = [t EXCEPT !.status = "start"]
    OBVIOUS
  <1>4. a \in Acct /\ a.status = "start" /\ a.port = t.port /\ a.session = t.session
    BY <1>1, <1>2, <1>3 DEF Acct
  <1>5. Filed({a.port}) /\ Result(RecordsOf(ut_file, a.port), a, TRUE, RecordsOf(ut_file', a.port))
    BY <1>1, <1>2, <1>3, <1>4, RadutmpLemma
  <1>6. UtTyped' /\ OneEach(ut_file', ut_cache')
    BY <1>1, <1>5 DEF UtTyped, Filed
  <1>7. ASSUME NEW p \in NasPorts, ut_conf.network # "any"
        PROVE  /\ PortOrder(p)' /\ PortHeard(p)'
               /\ ut_conf.network = "ordered" /\ ut_conf.delay => PortExact(p)'
    <2>1. PICK R, S, k : R = RecordsOf(ut_file, p) /\ S = RecordsOf(ut_file', p) /\ k = known[p]
      OBVIOUS
    <2>2. PICK s, n, on : s = sent /\ n = nas[p].n /\ on = nas[p].on
      OBVIOUS
    <2>3. InOrder(p, R, s, {t}, n) /\ Heard(p, R, {t}, k)
      BY <1>2, <1>7, <2>1, <2>2 DEF UtInv, PortOrder, PortHeard
    <2>4. ut_conf.network = "ordered" /\ ut_conf.delay => ExactFor(p, R, s, {t}, n, on, k)
      BY <1>2, <2>1, <2>2 DEF UtInv, PortExact
    <2>5. SUFFICES InOrder(p, S, s, {t}, n) /\ Heard(p, S, {t}, k)
                   /\ (ut_conf.network = "ordered" /\ ut_conf.delay => ExactFor(p, S, s, {t}, n, on, k))
      BY <1>1, <1>2, <2>1, <2>2 DEF PortOrder, PortHeard, PortExact
    <2>6. CASE p # a.port
      <3>1. S = R
        BY <1>5, <2>1, <2>6 DEF Filed
      <3> QED
        BY <2>3, <2>4, <3>1
    <2>7. CASE p = a.port
      <3>1. Of(t, p) /\ Of(a, p) /\ t.session = a.session
        BY <1>1, <1>2, <1>4, <2>7 DEF Of
      <3>2. Result(R, a, TRUE, S)
        BY <1>5, <2>1, <2>7
      <3>3. InOrder(p, S, s, {t}, n)
        BY <1>4, <2>3, <3>1, <3>2, AgainOrder
      <3>4. k = 0 /\ Heard(p, S, {t}, k)
        BY <1>1, <1>2, <2>3, <3>1 DEF Heard
      <3>5. ASSUME ut_conf.network = "ordered", ut_conf.delay
            PROVE  S = R
        BY <1>4, <2>4, <3>1, <3>2, <3>5, LateExact
      <3> QED
        BY <2>4, <3>3, <3>4, <3>5
    <2> QED
      BY <2>6, <2>7
  <1> QED
    BY <1>1, <1>6, <1>7 DEF UtInv

LEMMA ArrivesAnyTimeLemma ==
  ASSUME UtInv, ArrivesAnyTime
  PROVE  UtInv'
  <1>1. PICK a \in Acct : Take(a, TRUE)
    BY DEF ArrivesAnyTime
  <1>2. ut_conf.network = "any" /\ sent' = sent /\ told' = told
    BY DEF ArrivesAnyTime
  <1>3. FileOK /\ known' \in [NasPorts -> 0 .. MaxLogins] /\ ut_conf' = ut_conf /\ nas' = nas
    BY <1>1, TakeLemma
  <1> QED
    BY <1>2, <1>3 DEF UtInv, UtTyped, FileOK

\* What a NAS sends is about the port's last session, or starts the next one.
Sends(p, x) ==
    /\ Of(x, p) => Follows(nas[p].n, x) /\ x.session = nas'[p].n
                   /\ (x.status # "start" => nas[p].on /\ nas'[p].n = nas[p].n)
    /\ nas[p].n <= nas'[p].n
    /\ nas'[p].on => (Of(x, p) /\ x.status = "start") \/ (nas[p].on /\ nas'[p].n = nas[p].n)

LEMMA SendLemma ==
  ASSUME UtInv, NEW x \in Acct, Send(x), Numbered(nas'), nas' \in [NasPorts -> [n: 0 .. MaxLogins, on: BOOLEAN]],
         \A p \in NasPorts : Sends(p, x)
  PROVE  UtInv'
  <1>1. /\ sent' = Append(sent, x) /\ sent \in Seq(Acct)
        /\ ut_conf' = ut_conf /\ ut_file' = ut_file /\ ut_cache' = ut_cache /\ known' = known /\ told' = told
    BY DEF UtInv, UtTyped, Send
  <1>2. Appended(sent, x, sent')
    BY <1>1 DEF Appended
  <1>3. UtTyped' /\ OneEach(ut_file', ut_cache')
    BY <1>1, <1>2 DEF UtInv, UtTyped, Appended
  <1>4. ASSUME NEW p \in NasPorts, ut_conf.network # "any"
        PROVE  /\ PortOrder(p)' /\ PortHeard(p)'
               /\ ut_conf.network = "ordered" /\ ut_conf.delay => PortExact(p)'
    <2>1. PICK R, k, T : R = RecordsOf(ut_file, p) /\ k = known[p] /\ T = Repeated(told)
      OBVIOUS
    <2>2. PICK s, u : s = sent /\ u = sent'
      OBVIOUS
    <2>3. PICK n, on : n \in Nat /\ n = nas[p].n /\ on = nas[p].on
      BY PortLemma
    <2>4. PICK m, off : m \in Nat /\ m = nas'[p].n /\ off = nas'[p].on
      <3>1. nas'[p] \in [n: 0 .. MaxLogins, on: BOOLEAN]
        OBVIOUS
      <3> QED
        BY <3>1, RadutmpAssumption
    <2>5. InOrder(p, R, s, T, n) /\ Heard(p, R, T, k)
      BY <1>4, <2>1, <2>2, <2>3 DEF UtInv, PortOrder, PortHeard
    <2>6. ut_conf.network = "ordered" /\ ut_conf.delay => ExactFor(p, R, s, T, n, on, k)
      BY <2>1, <2>2, <2>3 DEF UtInv, PortExact
    <2>7. /\ Of(x, p) => Follows(n, x) /\ x.session = m /\ (x.status # "start" => on /\ m = n)
          /\ n <= m
          /\ off => (Of(x, p) /\ x.status = "start") \/ (on /\ m = n)
      BY <2>3, <2>4 DEF Sends
    <2>8. RecordsOK(R) /\ (\A t \in T : t \in Acct) /\ Appended(s, x, u)
      BY <1>2, <2>1, <2>2, PortLemma DEF Repeated, UtInv, UtTyped
    <2>9. InOrder(p, R, u, T, m)
      BY <2>3, <2>4, <2>5, <2>7, <2>8, SendOrder
    <2>10. ut_conf.network = "ordered" /\ ut_conf.delay => ExactFor(p, R, u, T, m, off, k)
      <3>1. ASSUME ExactFor(p, R, s, T, n, on, k) PROVE ExactFor(p, R, u, T, m, off, k)
        BY <2>7, <2>8, <3>1, SendExact
      <3> QED
        BY <2>6, <3>1
    <2> QED
      BY <1>1, <2>1, <2>2, <2>4, <2>5, <2>9, <2>10 DEF PortOrder, PortHeard, PortExact
  <1> QED
    BY <1>1, <1>3, <1>4 DEF UtInv

LEMMA NasLemma ==
  ASSUME UtInv, NEW p \in NasPorts, LogsIn(p) \/ StillOn(p) \/ LogsOff(p) \/ Reboots(p)
  PROVE  UtInv'
  <1>1. nas \in [NasPorts -> [n: 0 .. MaxLogins, on: BOOLEAN]]
    BY DEF UtInv, UtTyped
  <1>2. \A q \in NasPorts : nas[q].n \in Nat /\ nas[q].n \in 0 .. MaxLogins /\ nas[q].on \in BOOLEAN
    BY PortLemma
  <1>3. Numbered(nas)
    BY DEF UtInv, UtTyped
  <1>4. CASE LogsIn(p)
    <2>1. PICK x : x = [status |-> "start", port |-> p, session |-> nas[p].n + 1]
      OBVIOUS
    <2>2. ~nas[p].on /\ nas[p].n < MaxLogins /\ Send(x) /\ nas' = [nas EXCEPT ![p] = [n |-> @.n + 1, on |-> TRUE]]
      BY <1>4, <2>1 DEF LogsIn
    <2>3. nas[p].n + 1 \in 1 .. MaxLogins /\ nas[p].n + 1 \in 0 .. MaxLogins
      BY <1>2, <2>2, RadutmpAssumption
    <2>4. x \in Acct /\ x.status = "start" /\ x.port = p /\ x.session = nas[p].n + 1
      BY <2>1, <2>3 DEF Acct
    <2>5. nas' \in [NasPorts -> [n: 0 .. MaxLogins, on: BOOLEAN]]
      BY <1>1, <2>2, <2>3
    <2>6. nas'[p].n = nas[p].n + 1 /\ nas'[p].on = TRUE /\ \A q \in NasPorts : q # p => nas'[q] = nas[q]
      BY <1>1, <2>2
    <2>7. \A q \in NasPorts : Sends(q, x)
      BY <1>2, <2>4, <2>6 DEF Sends, Of, Follows
    <2>8. Numbered(nas')
      BY <1>2, <1>3, <2>6 DEF Numbered
    <2> QED
      BY <2>2, <2>4, <2>5, <2>7, <2>8, SendLemma
  <1>5. CASE StillOn(p)
    <2>1. PICK x : x = [status |-> "alive", port |-> p, session |-> nas[p].n]
      OBVIOUS
    <2>2. nas[p].on /\ Send(x) /\ nas' = nas
      BY <1>5, <2>1 DEF StillOn
    <2>3. nas[p].n \in 1 .. MaxLogins
      BY <1>2, <1>3, <2>2, RadutmpAssumption DEF Numbered
    <2>4. x \in Acct /\ x.status = "alive" /\ x.port = p /\ x.session = nas[p].n
      BY <2>1, <2>3 DEF Acct
    <2>5. \A q \in NasPorts : Sends(q, x)
      BY <1>2, <2>2, <2>4 DEF Sends, Of, Follows
    <2> QED
      BY <1>1, <1>3, <2>2, <2>4, <2>5, SendLemma
  <1>6. CASE LogsOff(p)
    <2>1. PICK x : x = [status |-> "stop", port |-> p, session |-> nas[p].n]
      OBVIOUS
    <2>2. nas[p].on /\ Send(x) /\ nas' = [nas EXCEPT ![p].on = FALSE]
      BY <1>6, <2>1 DEF LogsOff
    <2>3. nas[p].n \in 1 .. MaxLogins
      BY <1>2, <1>3, <2>2, RadutmpAssumption DEF Numbered
    <2>4. x \in Acct /\ x.status = "stop" /\ x.port = p /\ x.session = nas[p].n
      BY <2>1, <2>3 DEF Acct
    <2>5. nas' \in [NasPorts -> [n: 0 .. MaxLogins, on: BOOLEAN]]
      BY <1>1, <2>2
    <2>6. nas'[p].n = nas[p].n /\ nas'[p].on = FALSE /\ \A q \in NasPorts : q # p => nas'[q] = nas[q]
      BY <1>1, <2>2
    <2>7. \A q \in NasPorts : Sends(q, x)
      BY <1>2, <2>2, <2>4, <2>6 DEF Sends, Of, Follows
    <2>8. Numbered(nas')
      BY <1>2, <1>3, <2>6 DEF Numbered
    <2> QED
      BY <2>2, <2>4, <2>5, <2>7, <2>8, SendLemma
  <1>7. CASE Reboots(p)
    <2>1. PICK x : x = [status |-> "on", nas |-> NasOf[p]]
      OBVIOUS
    <2>2. Send(x) /\ nas' = [q \in NasPorts |-> IF NasOf[q] = NasOf[p] THEN [nas[q] EXCEPT !.on = FALSE] ELSE nas[q]]
      BY <1>7, <2>1 DEF Reboots
    <2>3. x \in Acct /\ x.status = "on"
      BY <2>1 DEF Acct
    <2>4. nas' \in [NasPorts -> [n: 0 .. MaxLogins, on: BOOLEAN]]
      BY <1>1, <2>2
    <2>5. \A q \in NasPorts : nas'[q].n = nas[q].n /\ (nas'[q].on => nas[q].on)
      BY <1>1, <2>2
    <2>6. \A q \in NasPorts : Sends(q, x)
      BY <1>2, <2>3, <2>5 DEF Sends, Of
    <2>7. Numbered(nas')
      BY <1>3, <2>5 DEF Numbered
    <2> QED
      BY <2>2, <2>3, <2>4, <2>6, <2>7, SendLemma
  <1> QED
    BY <1>4, <1>5, <1>6, <1>7

LEMMA UtRestartLemma ==
  ASSUME UtInv, UtRestart
  PROVE  UtInv'
  <1>1. ut_cache' = [p \in NasPorts |-> 0] /\ UNCHANGED <<ut_conf, ut_file, nas, sent, known, told>>
    BY DEF UtRestart
  <1>2. ut_file \in Seq(UtRecord) /\ Len(ut_file) \in Nat /\ OneEach(ut_file, ut_cache)
    BY DEF UtInv, UtTyped
  <1>3. OneEach(ut_file', ut_cache')
    BY <1>1, <1>2 DEF OneEach
  <1>4. UtTyped'
    BY <1>1 DEF UtInv, UtTyped, Numbered
  <1>5. \A p \in NasPorts : (PortOrder(p)' <=> PortOrder(p)) /\ (PortHeard(p)' <=> PortHeard(p)) /\ (PortExact(p)' <=> PortExact(p))
    BY <1>1 DEF PortOrder, PortHeard, PortExact
  <1> QED
    BY <1>1, <1>3, <1>4, <1>5 DEF UtInv

LEMMA NoRecords == \A p : RecordsOf(<<>>, p) = {}
  BY DEF RecordsOf

LEMMA RotateLemma ==
  ASSUME UtInv, Rotate
  PROVE  UtInv'
  <1>1. /\ ut_conf.rotate > 0 /\ ut_conf' = [ut_conf EXCEPT !.rotate = @ - 1]
        /\ ut_file' = <<>> /\ known' = [p \in NasPorts |-> 0]
        /\ UNCHANGED <<ut_cache, nas, sent, told>>
    BY DEF Rotate
  <1>2. ut_conf \in UtConf
    BY DEF UtInv, UtTyped
  <1>3. /\ ut_conf' \in UtConf /\ ut_conf'.network = ut_conf.network /\ ut_conf.network # "ordered"
    BY <1>1, <1>2 DEF UtConf
  <1>4. UtTyped' /\ OneEach(ut_file', ut_cache')
    <2>1. known' \in [NasPorts -> 0 .. MaxLogins]
      BY <1>1, RadutmpAssumption
    <2>2. <<>> \in Seq(UtRecord) /\ Len(<<>>) = 0
      OBVIOUS
    <2>3. OneEach(ut_file', ut_cache')
      BY <1>1, <2>2 DEF OneEach
    <2> QED
      BY <1>1, <1>3, <2>1, <2>2, <2>3 DEF UtInv, UtTyped, Numbered
  <1>5. ASSUME NEW p \in NasPorts, ut_conf.network # "any"
        PROVE  PortOrder(p)' /\ PortHeard(p)'
    <2>1. RecordsOf(ut_file', p) = {} /\ known'[p] = 0
      BY <1>1, NoRecords
    <2>2. InOrder(p, RecordsOf(ut_file, p), sent, Repeated(told), nas[p].n)
      BY <1>5 DEF UtInv, PortOrder
    <2>3. InOrder(p, {}, sent, Repeated(told), nas[p].n)
      BY <2>2 DEF InOrder
    <2>4. Heard(p, {}, Repeated(told), 0)
      BY DEF Heard
    <2> QED
      BY <1>1, <2>1, <2>3, <2>4 DEF PortOrder, PortHeard
  <1> QED
    BY <1>3, <1>4, <1>5 DEF UtInv

LEMMA UtInitLemma ==
  ASSUME UtInit
  PROVE  UtInv
  <1>1. /\ ut_conf \in UtConf
        /\ ut_file = <<>> /\ ut_cache = [p \in NasPorts |-> 0]
        /\ nas = [p \in NasPorts |-> [n |-> 0, on |-> FALSE]]
        /\ sent = <<>> /\ known = [p \in NasPorts |-> 0] /\ told = <<>>
    BY RadutmpAssumption DEF UtInit
  <1>2. /\ <<>> \in Seq(UtRecord) /\ <<>> \in Seq(Acct) /\ Len(<<>>) = 0 /\ 0 \in 0 .. MaxLogins
    BY RadutmpAssumption
  <1>3. UtTyped /\ OneEach(ut_file, ut_cache)
    BY <1>1, <1>2 DEF UtTyped, OneEach, Numbered
  <1>4. ASSUME NEW p \in NasPorts
        PROVE  PortOrder(p) /\ PortHeard(p) /\ PortExact(p)
    <2>1. RecordsOf(ut_file, p) = {} /\ known[p] = 0 /\ nas[p].n = 0 /\ nas[p].on = FALSE
      BY <1>1, NoRecords
    <2>2. Repeated(told) = {}
      BY <1>1, <1>2 DEF Repeated
    <2>3. InOrder(p, {}, <<>>, {}, 0) /\ Heard(p, {}, {}, 0) /\ ExactFor(p, {}, <<>>, {}, 0, FALSE, 0)
      BY <1>2 DEF InOrder, Heard, ExactFor
    <2> QED
      BY <1>1, <2>1, <2>2, <2>3 DEF PortOrder, PortHeard, PortExact
  <1> QED
    BY <1>3, <1>4 DEF UtInv

----------------------------------------------------------------------------
(* What is counted.                                                         *)

LEMMA OneRecordLemma == ASSUME UtInv PROVE OneRecordPerPort
  <1>1. /\ DOMAIN ut_file = 1 .. Len(ut_file) /\ Len(ut_file) \in Nat /\ OneEach(ut_file, ut_cache)
    BY DEF UtInv, UtTyped
  <1>2. ASSUME NEW p \in NasPorts
        PROVE  Cardinality(Records(p)) <= 1 /\ \A i \in Records(p) : ut_cache[p] <= i
    <2>1. \A i, j \in Records(p) : i = j
      BY <1>1 DEF OneEach, Records
    <2>2. Records(p) = {} \/ \E i : Records(p) = {i}
      BY <2>1
    <2>3. Cardinality(Records(p)) <= 1
      <3>1. Cardinality({}) = 0 /\ \A i : Cardinality({i}) = 1
        BY FS_EmptySet, FS_Singleton
      <3>2. Cardinality(Records(p)) = 0 \/ Cardinality(Records(p)) = 1
        BY <2>2, <3>1, Zenon
      <3> QED
        BY <3>2
    <2>4. \A i \in Records(p) : ut_cache[p] <= i
      BY <1>1 DEF OneEach, Records
    <2> QED
      BY <2>3, <2>4
  <1> QED
    BY <1>2 DEF OneRecordPerPort

LEMMA SimulLemma == ASSUME UtInv PROVE SimulIsExact
  <1>1. SUFFICES ASSUME ut_conf.network = "ordered", ut_conf.delay
                 PROVE  simul_count = Cardinality({p \in NasPorts : known[p] # 0})
    BY DEF SimulIsExact
  <1>2. PICK on : on = {i \in 1 .. Len(ut_file) : ut_file[i].login}
    OBVIOUS
  <1>3. PICK ports : ports = {p \in NasPorts : known[p] # 0}
    OBVIOUS
  <1>4. /\ DOMAIN ut_file = 1 .. Len(ut_file) /\ Len(ut_file) \in Nat /\ OneEach(ut_file, ut_cache)
        /\ \A i \in 1 .. Len(ut_file) : ut_file[i] \in UtRecord
    BY DEF UtInv, UtTyped
  <1>5. \A p \in NasPorts : PortHeard(p) /\ PortExact(p)
    BY <1>1 DEF UtInv
  <1>6. ASSUME NEW i \in on
        PROVE  ut_file[i].port \in ports
    <2>1. i \in 1 .. Len(ut_file) /\ ut_file[i].login /\ ut_file[i] \in UtRecord
      BY <1>2, <1>4
    <2>2. ut_file[i].port \in NasPorts
      BY <2>1, HoleIsNoPort DEF UtRecord
    <2>3. PICK p \in NasPorts : p = ut_file[i].port
      BY <2>2
    <2>4. ut_file[i] \in RecordsOf(ut_file, p)
      BY <2>1, <2>3 DEF RecordsOf
    <2>5. known[p] # 0
      BY <1>5, <2>1, <2>4 DEF PortExact, ExactFor
    <2> QED
      BY <1>3, <2>3, <2>5
  <1>7. ASSUME NEW p \in ports
        PROVE  \E i \in on : ut_file[i].port = p
    <2>1. p \in NasPorts /\ known[p] # 0
      BY <1>3
    <2>2. PICK r \in RecordsOf(ut_file, p) : r.login
      BY <1>5, <2>1 DEF PortHeard, Heard
    <2>3. PICK i \in 1 .. Len(ut_file) : r = ut_file[i] /\ ut_file[i].port = p
      BY DEF RecordsOf
    <2> QED
      BY <1>2, <2>2, <2>3
  <1>8. \A i, j \in on : ut_file[i].port = ut_file[j].port => i = j
    <2>1. \A i \in on : i \in 1 .. Len(ut_file) /\ ut_file[i].port \in NasPorts
      BY <1>2, <1>3, <1>6
    <2> QED
      BY <1>4, <2>1 DEF OneEach
  <1>9. PICK h : h = [i \in on |-> ut_file[i].port]
    OBVIOUS
  <1>10. h \in [on -> ports] /\ (\A i, j \in on : h[i] = h[j] => i = j) /\ \A p \in ports : \E i \in on : h[i] = p
    BY <1>6, <1>7, <1>8, <1>9
  <1>11. h \in Bijection(on, ports)
    BY <1>10 DEF Bijection, Injection, IsInjective, Surjection
  <1>12. IsFiniteSet(on)
    <2>1. IsFiniteSet(1 .. Len(ut_file))
      BY <1>4, FS_Interval
    <2>2. on \in SUBSET (1 .. Len(ut_file))
      BY <1>2
    <2> QED
      BY <2>1, <2>2, FS_Subset
  <1>13. ExistsBijection(on, ports)
    BY <1>11 DEF ExistsBijection
  <1>14. Cardinality(ports) = Cardinality(on)
    BY <1>12, <1>13, FS_Bijection
  <1>15. simul_count = Cardinality(on)
    BY <1>2, <1>4 DEF simul_count
  <1> QED
    BY <1>3, <1>14, <1>15

LEMMA CountedLemma == ASSUME UtInv PROVE LoginIsCounted
  <1>1. SUFFICES ASSUME ut_conf.network = "lossy", NEW p \in NasPorts, known[p] # 0
                 PROVE  \E i \in Records(p) : ut_file[i].login /\ ut_file[i].session = known[p]
    BY DEF LoginIsCounted
  <1>2. PortHeard(p)
    BY <1>1 DEF UtInv
  <1>3. PICK r \in RecordsOf(ut_file, p) : r.login /\ r.session = known[p]
    BY <1>1, <1>2 DEF PortHeard, Heard
  <1>4. PICK i \in 1 .. Len(ut_file) : r = ut_file[i] /\ ut_file[i].port = p
    BY DEF RecordsOf
  <1>5. DOMAIN ut_file = 1 .. Len(ut_file)
    BY DEF UtInv, UtTyped
  <1>6. i \in Records(p)
    BY <1>4, <1>5 DEF Records
  <1> QED
    BY <1>3, <1>4, <1>6

LEMMA UtTypeLemma == ASSUME UtInv PROVE UtTypeOK
  BY DEF UtInv, UtTyped, UtTypeOK

LEMMA UtStepLemma ==
  ASSUME UtInv, [UtNext]_utVars
  PROVE  UtInv'
  <1>1. CASE UtNext
    BY <1>1, ArrivesLemma, ArrivesAgainLemma, StartArrivesLateLemma, ArrivesAnyTimeLemma,
       UtRestartLemma, RotateLemma, NasLemma DEF UtNext
  <1>2. CASE UNCHANGED utVars
    <2>1. /\ ut_conf' = ut_conf /\ ut_file' = ut_file /\ ut_cache' = ut_cache /\ nas' = nas
          /\ sent' = sent /\ known' = known /\ told' = told
      BY <1>2 DEF utVars
    <2> QED
      BY <2>1 DEF UtInv, UtTyped, Numbered, PortOrder, PortHeard, PortExact
  <1> QED
    BY <1>1, <1>2

\* radutmp: a port has one record in the file; what Simultaneous-Use counts is
\* what the NASes have said, when packets come in order and with
\* Acct-Delay-Time; and no session that is on is missed when some are lost.
THEOREM LoginsTheorem == UtSpec => []LoginsAreRight
  <1>1. UtInit => UtInv
    BY UtInitLemma
  <1>2. UtInv /\ [UtNext]_utVars => UtInv'
    BY UtStepLemma
  <1>3. UtInv => LoginsAreRight
    BY UtTypeLemma, OneRecordLemma, SimulLemma, CountedLemma DEF LoginsAreRight
  <1> QED
    BY <1>1, <1>2, <1>3, PTL DEF UtSpec

=============================================================================
