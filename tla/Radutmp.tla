------------------------------ MODULE Radutmp -------------------------------
(***************************************************************************)
(* Login records of rlm_radutmp: a file with one record for each port of a *)
(* NAS, which accounting packets write in place, and a cache of where each *)
(* record is.  The packets come from NASes over UDP; the server may be     *)
(* started again, and the file removed, at any time.                       *)
(*                                                                         *)
(* Times: Acct-Delay-Time makes a packet's time the time of what it        *)
(* reports, so that the Start of a session is never later than what the    *)
(* record says of that session.  A NAS that does not send it (~delay)      *)
(* makes a repeated Start look new.                                        *)
(***************************************************************************)
EXTENDS Integers, Sequences, FiniteSets, FiniteSetsExt

CONSTANTS
    NasPorts,      \* ports of NASes
    NasOf,         \* the NAS of each of them
    MaxLogins,     \* sessions of a port in a run
    MaxSent,       \* packets on their way at a time
    UtConfs

\* network: "ordered", packets come in the order they were sent, and may come
\* twice; "lossy", some are lost too; "any", any packet may come at any time.  rotate: how often
\* the file may yet be removed, which loses what it says: not where that has to be exact.
UtConf ==
    {c \in [network: {"ordered", "lossy", "any"}, delay: BOOLEAN, rotate: Nat] :
        c.network = "ordered" => c.rotate = 0}

ASSUME RadutmpAssumption ==
    /\ MaxLogins \in Nat /\ MaxSent \in Nat
    /\ "none" \notin NasPorts /\ DOMAIN NasOf = NasPorts
    /\ UtConfs \subseteq UtConf

VARIABLES
    ut_conf,
    ut_file,       \* the records; a hole where nothing was written
    ut_cache,      \* inst->nas_port_list: where the record of a port is, or 0
    nas,           \* per port, the number of its last session, and whether it is on
    sent,          \* packets on their way, in order
    known,         \* per port, the session the last packet that came said is on, or 0
    told           \* the last packet that came, which may come again

utVars == <<ut_conf, ut_file, ut_cache, nas, sent, known, told>>

Hole == [port |-> "none", session |-> 0, login |-> FALSE]
UtRecord == [port: NasPorts, session: 1 .. MaxLogins, login: BOOLEAN] \cup {Hole}

\* session: what Acct-Session-Id is, per port.  On and Off are for a NAS.
Acct == [status: {"start", "stop", "alive"}, port: NasPorts, session: 1 .. MaxLogins]
        \cup [status: {"on"}, nas: {NasOf[p] : p \in NasPorts}]

UtTypeOK ==
    /\ ut_conf \in UtConf
    /\ \A i \in DOMAIN ut_file : ut_file[i] \in UtRecord
    /\ ut_cache \in [NasPorts -> Nat]
    /\ nas \in [NasPorts -> [n: 0 .. MaxLogins, on: BOOLEAN]]
    /\ known \in [NasPorts -> 0 .. MaxLogins]

UtInit ==
    /\ ut_conf \in UtConfs
    /\ ut_file = <<>>
    /\ ut_cache = [p \in NasPorts |-> 0]
    /\ nas = [p \in NasPorts |-> [n |-> 0, on |-> FALSE]]
    /\ sent = <<>>
    /\ known = [p \in NasPorts |-> 0]
    /\ told = <<>>

-----------------------------------------------------------------------------
\* write() at a position, which may be behind the end.
Write(file, pos, rec) ==
    [i \in 1 .. Max({Len(file), pos}) |->
        IF i = pos THEN rec ELSE IF i <= Len(file) THEN file[i] ELSE Hole]

\* The records that the loop of radutmp_accounting() stops at.
Matches(a, from) ==
    {i \in DOMAIN ut_file : /\ i >= from
                            /\ ut_file[i].port = a.port
                            /\ a.status = "stop" => ut_file[i].login}

\* Mutant: a session whose Stop was lost is not replaced.
WriteOnlyIdle(a, rec, again) ==
    /\ rec.login /\ a.status # "alive" => a.session = rec.session
    /\ a.status = "start" /\ a.session = rec.session => again /\ ~ut_conf.delay

\* The record may be written: not by a Stop of another session, nor by a Start
\* that is not later than the record.
MayWrite(a, rec, again) ==
    /\ a.status = "stop" => a.session = rec.session
    /\ a.status = "start" /\ a.session = rec.session => again /\ ~ut_conf.delay

\* radutmp_accounting(): Start, Stop and Alive.  again: the packet came before.
radutmp_accounting(a, again) ==
    LET from == Max({1, ut_cache[a.port]})
        found == Matches(a, from)
        pos == IF found # {} THEN Min(found) ELSE Max({Len(ut_file) + 1, from})
        new == [port |-> a.port, session |-> a.session, login |-> a.status # "stop"]
        does == IF found # {} THEN MayWrite(a, ut_file[pos], again) ELSE a.status # "stop"
    IN /\ ut_file' = IF does THEN Write(ut_file, pos, new) ELSE ut_file
       /\ ut_cache' = IF does /\ a.status # "stop" /\ ut_cache[a.port] = 0
                      THEN [ut_cache EXCEPT ![a.port] = pos] ELSE ut_cache

\* radutmp_zap(): Accounting-On or -Off, or a reboot record of ComOS.
radutmp_zap(n) ==
    /\ ut_file' = [i \in DOMAIN ut_file |->
                     IF ut_file[i].port \in NasPorts /\ NasOf[ut_file[i].port] = n
                     THEN [ut_file[i] EXCEPT !.login = FALSE] ELSE ut_file[i]]
    /\ UNCHANGED ut_cache

Learn(a) ==
    known' = IF ut_conf.network = "any" THEN known
             ELSE IF a.status = "on" THEN [p \in NasPorts |-> IF NasOf[p] = a.nas THEN 0 ELSE known[p]]
             ELSE [known EXCEPT ![a.port] = IF a.status = "stop" THEN 0 ELSE a.session]

Take(a, again) ==
    /\ IF a.status = "on" THEN radutmp_zap(a.nas) ELSE radutmp_accounting(a, again)
    /\ Learn(a)
    /\ UNCHANGED <<ut_conf, nas>>

\* The next packet, or one that came before; with a lossy network the ones
\* before it were lost.
Arrives ==
    /\ ut_conf.network # "any"
    /\ \E i \in DOMAIN sent :
         /\ ut_conf.network = "ordered" => i = 1
         /\ sent' = SubSeq(sent, i + 1, Len(sent))
         /\ Take(sent[i], FALSE)
         /\ told' = <<sent[i]>>

ArrivesAgain ==
    /\ told # <<>>
    /\ Take(told[1], TRUE)
    /\ UNCHANGED <<sent, told>>

\* The Start of a session comes again after its Stop.
StartArrivesLate ==
    /\ told # <<>> /\ told[1].status = "stop"
    /\ radutmp_accounting([told[1] EXCEPT !.status = "start"], TRUE)
    /\ UNCHANGED <<ut_conf, nas, sent, known, told>>

ArrivesAnyTime ==
    /\ ut_conf.network = "any"
    /\ \E a \in Acct : Take(a, TRUE)
    /\ UNCHANGED <<sent, told>>

-----------------------------------------------------------------------------
(* External: the NASes.                                                      *)
Send(a) ==
    /\ ut_conf.network # "any" /\ Len(sent) < MaxSent
    /\ sent' = Append(sent, a)
    /\ UNCHANGED <<ut_conf, ut_file, ut_cache, known, told>>

LogsIn(p) ==
    /\ ~nas[p].on /\ nas[p].n < MaxLogins
    /\ nas' = [nas EXCEPT ![p] = [n |-> @.n + 1, on |-> TRUE]]
    /\ Send([status |-> "start", port |-> p, session |-> nas[p].n + 1])

StillOn(p) ==
    /\ nas[p].on
    /\ Send([status |-> "alive", port |-> p, session |-> nas[p].n])
    /\ UNCHANGED nas

LogsOff(p) ==
    /\ nas[p].on
    /\ nas' = [nas EXCEPT ![p].on = FALSE]
    /\ Send([status |-> "stop", port |-> p, session |-> nas[p].n])

\* The NAS restarts: its sessions are over, and it says so.
Reboots(p) ==
    /\ nas[p].on
    /\ nas' = [q \in NasPorts |-> IF NasOf[q] = NasOf[p] THEN [nas[q] EXCEPT !.on = FALSE] ELSE nas[q]]
    /\ Send([status |-> "on", nas |-> NasOf[p]])

\* The server is started again: the file stays.  Or the file is removed.
UtRestart ==
    /\ ut_cache' = [p \in NasPorts |-> 0]
    /\ UNCHANGED <<ut_conf, ut_file, nas, sent, known, told>>

Rotate ==
    /\ ut_conf.rotate > 0
    /\ ut_conf' = [ut_conf EXCEPT !.rotate = @ - 1]
    /\ ut_file' = <<>>
    /\ known' = [p \in NasPorts |-> 0]
    /\ UNCHANGED <<ut_cache, nas, sent, told>>

UtNext ==
    \/ Arrives \/ ArrivesAgain \/ StartArrivesLate \/ ArrivesAnyTime \/ UtRestart \/ Rotate
    \/ \E p \in NasPorts : LogsIn(p) \/ StillOn(p) \/ LogsOff(p) \/ Reboots(p)

UtSpec == UtInit /\ [][UtNext]_utVars

-----------------------------------------------------------------------------
Records(p) == {i \in DOMAIN ut_file : ut_file[i].port = p}

\* A port has one record in the file, at or behind the place that is cached for
\* it, whatever comes in whatever order, over restarts of the server and
\* removals of the file: else a session would be counted twice, or its Stop
\* would not find it.
OneRecordPerPort ==
    \A p \in NasPorts :
        /\ Cardinality(Records(p)) <= 1
        /\ \A i \in Records(p) : ut_cache[p] <= i

\* radutmp_checksimul(): the records that say the user is logged in (all
\* sessions here are of one user).
simul_count == Cardinality({i \in DOMAIN ut_file : ut_file[i].login})

\* What Simultaneous-Use counts is the sessions that the NASes have said are
\* on, also when packets are repeated, a Start even after the Stop, and when the
\* server is started again.
SimulIsExact ==
    ut_conf.network = "ordered" /\ ut_conf.delay =>
        simul_count = Cardinality({p \in NasPorts : known[p] # 0})

\* A session that is on is counted also when packets are lost.
LoginIsCounted ==
    ut_conf.network = "lossy" =>
        \A p \in NasPorts : known[p] # 0 =>
            \E i \in Records(p) : ut_file[i].login /\ ut_file[i].session = known[p]

\* The records of radutmp are what the NASes have said: one per port, counted
\* exactly when packets come in order, and not missed when some are lost.
LoginsAreRight == UtTypeOK /\ OneRecordPerPort /\ SimulIsExact /\ LoginIsCounted

=============================================================================
