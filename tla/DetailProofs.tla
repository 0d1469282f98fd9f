---------------------------- MODULE DetailProofs ----------------------------
(***************************************************************************)
(* The detail file loses no record, for any number of records and requests *)
(* and whatever happens in between: crashes, retries, records cut short,   *)
(* locks that are refused, files that are not unlinked and, but for what   *)
(* was not read, files that cannot be read.                                *)
(***************************************************************************)
EXTENDS Detail, SequenceTheorems, WellFoundedInduction, TLAPS

In(w, o) == {w[i] : i \in 1 .. o}
Content(w) == In(w, Len(w))

\* A record is on disk once, and was written.
FilesAre(f, w) ==
  /\ \A i, j \in 1 .. Len(f) : f[i] = f[j] => i = j
  /\ \A i, j \in 1 .. Len(w) : w[i] = w[j] => i = j
  /\ Content(f) \cap Content(w) = {}
  /\ \A r \in Content(f) \cup Content(w) : kind[r] # "unwritten"

\* The reader stands behind the blank line of a record.
Place ==
  /\ offset <= Len(filename_work)
  /\ offset # 0 => kind[filename_work[offset]] \in Complete
  /\ state = "UNOPENED" => ~fp
  /\ ~fp => offset = 0

\* As long as no answer came for another record.
Reader ==
  /\ \A q \in outstanding : q[2] # {}
  /\ state \in {"RUNNING", "NO_REPLY", "REPLIED"} =>
       fp /\ vps # {} /\ vps \subseteq In(filename_work, offset)
  /\ state = "HEADER" => fp /\ vps = {}

\* What the reader has passed is answered, or is being sent.
Passed ==
  \A r \in In(filename_work, offset) :
    kind[r] = "good" => r \in answered \/ (state \in {"RUNNING", "NO_REPLY"} /\ r \in vps)

Kept(f, w) ==
  \A r \in Records : kind[r] = "good" => r \in Content(f) \cup Content(w) \cup answered \cup discarded

Headless == \E r \in Records : kind[r] = "headless"

\* The inductive invariant.
DetailInv ==
  /\ DetailTypeOK
  /\ FilesAre(filename, filename_work)
  /\ Place
  /\ ~misplaced => Reader
  /\ ~misplaced /\ ~Headless => Passed /\ Kept(filename, filename_work)

----------------------------------------------------------------------------
(* Reading.                                                                 *)

LEMMA Content0 == Content(<<>>) = {} /\ Len(<<>>) = 0 /\ <<>> \in Seq(Records)
  BY DEF Content, In

LEMMA ContentIsOnDisk ==
  ASSUME NEW f \in Seq(Records)
  PROVE  Content(f) = {f[i] : i \in DOMAIN f} /\ Content(f) \subseteq Records /\ Len(f) \in Nat
  BY DEF Content, In

\* The first blank line after a place.
LEMMA EndLemma ==
  ASSUME NEW w \in Seq(Records), NEW o \in Nat
  PROVE  \/ EndOfRecord(w, o) = 0 /\ \A i \in (o + 1) .. Len(w) : kind[w[i]] \notin Complete
         \/ /\ EndOfRecord(w, o) \in (o + 1) .. Len(w) /\ EndOfRecord(w, o) # 0
            /\ kind[w[EndOfRecord(w, o)]] \in Complete
  <1> DEFINE ends == {n \in (o + 1) .. Len(w) : kind[w[n]] \in Complete}
  <1>1. CASE ends = {}
    BY <1>1 DEF EndOfRecord
  <1>2. CASE ends # {}
    <2>1. ends \subseteq Nat
      OBVIOUS
    <2>4. EndOfRecord(w, o) = CHOOSE n \in ends : \A m \in ends : n <= m
      BY <1>2 DEF EndOfRecord
    <2> HIDE DEF ends
    <2>2. PICK x \in ends : \A y \in ends : ~(<<y, x>> \in OpToRel(<, Nat))
      BY <1>2, <2>1, NatLessThanWellFounded, WFMin
    <2>7. \A y \in ends : ~(y < x)
      BY <2>1, <2>2 DEF OpToRel
    <2>3. \A y \in ends : x <= y
      BY <2>1, <2>7
    <2>5. EndOfRecord(w, o) \in ends
      BY <2>2, <2>3, <2>4
    <2>6. EndOfRecord(w, o) \in (o + 1) .. Len(w) /\ kind[w[EndOfRecord(w, o)]] \in Complete
      BY <2>5 DEF ends
    <2> QED
      BY <2>6
  <1> QED
    BY <1>1, <1>2

LEMMA AttributesLemma ==
  ASSUME NEW w \in Seq(Records), NEW o \in Nat, NEW n \in 0 .. Len(w)
  PROVE  /\ Attributes(w, o, n) \subseteq Records
         /\ Attributes(w, o, n) \subseteq In(w, n)
         /\ \A r \in Attributes(w, o, n) : \E i \in (o + 1) .. n : r = w[i]
         /\ \A i \in (o + 1) .. n : kind[w[i]] = "good" => w[i] \in Attributes(w, o, n)
  <1>1. \A r \in Attributes(w, o, n) : \E i \in (o + 1) .. n : r = w[i]
    BY DEF Attributes
  <1>2. \A i \in (o + 1) .. n : i \in 1 .. n /\ i \in 1 .. Len(w) /\ w[i] \in Records
    OBVIOUS
  <1>3. \A i \in (o + 1) .. n : kind[w[i]] = "good" => w[i] \in Attributes(w, o, n)
    BY DEF Attributes
  <1> QED
    BY <1>1, <1>2, <1>3 DEF In

\* Where a file is gone, there is less to say.
LEMMA Less ==
  ASSUME NEW f \in Seq(Records), NEW w \in Seq(Records), NEW x \in {<<>>, w}
  PROVE  /\ x \in Seq(Records)
         /\ FilesAre(f, w) => FilesAre(f, x)
  <1>1. CASE x = w
    BY <1>1
  <1>2. CASE x = <<>>
    BY <1>2, Content0 DEF FilesAre
  <1> QED
    BY <1>1, <1>2

\* The primed operators, where the records are what they were.
LEMMA SameKind ==
  ASSUME kind' = kind
  PROVE  /\ \A f, w : FilesAre(f, w)' <=> FilesAre(f, w)
         /\ Headless' <=> Headless
  BY DEF FilesAre, Headless, Content, In

\* The work file has no more records, the last one has no end, or it cannot be
\* read.
LEMMA CleanupLemma ==
  ASSUME DetailTypeOK, NEW f \in Seq(Records), NEW w \in Seq(Records), NEW rs,
         filename' = f, kind' = kind, CloseFile(w, rs), FilesAre(f, w), rs \subseteq Records,
         discarded' \subseteq Records, discarded \subseteq discarded',
         ~misplaced => \A q \in outstanding : q[2] # {},
         ~misplaced /\ ~Headless =>
           /\ Kept(f, w)
           /\ filename_work' # w =>
                \A r \in Content(w) : kind[r] = "good" => r \in answered \cup discarded'
  PROVE  DetailInv'
  <1>1. /\ filename_work' \in {<<>>, w} /\ fp' = FALSE /\ offset' = 0 /\ vps' = rs /\ state' = "UNOPENED"
        /\ outstanding' = outstanding /\ answered' = answered /\ misplaced' = misplaced
    BY DEF CloseFile
  <1>2. PICK x : x = filename_work'
    OBVIOUS
  <1>3. x \in {<<>>, w} /\ x \in Seq(Records) /\ FilesAre(f, x)
    BY <1>1, <1>2, Less
  <1>4. DetailTypeOK'
    BY <1>1, <1>2, <1>3 DEF DetailTypeOK, DetailStates
  <1>5. FilesAre(filename, filename_work)'
    BY <1>2, <1>3, SameKind
  <1>6. Place'
    BY <1>1, <1>2, <1>3 DEF Place
  <1>7. ~misplaced' => Reader'
    BY <1>1 DEF Reader
  <1>8. ~misplaced' /\ ~Headless' => Passed' /\ Kept(filename, filename_work)'
    <2>1. Passed'
      BY <1>1 DEF Passed, In
    <2>2. ASSUME ~misplaced, ~Headless PROVE Kept(f, x)'
      <3>1. \A r \in Records : kind[r] = "good" => r \in Content(f) \cup Content(x) \cup answered \cup discarded'
        BY <1>2, <1>3, <2>2 DEF Kept
      <3> QED
        BY <1>1, <3>1 DEF Kept, Content, In
    <2> QED
      BY <1>1, <1>2, <2>1, <2>2, SameKind
  <1> QED
    BY <1>4, <1>5, <1>6, <1>7, <1>8 DEF DetailInv

\* A record is sent into the server.
LEMMA SendLemma ==
  ASSUME DetailTypeOK, NEW f \in Seq(Records), NEW w \in Seq(Records), NEW n \in Nat, NEW rs,
         filename' = f, filename_work' = w, offset' = n, kind' = kind, fp' \in BOOLEAN,
         Send(rs), FilesAre(f, w), rs \subseteq Records,
         n <= Len(w), n # 0 => kind[w[n]] \in Complete, ~fp' => n = 0,
         ~misplaced => /\ \A q \in outstanding : q[2] # {}
                       /\ fp' /\ rs # {} /\ rs \subseteq In(w, n),
         ~misplaced /\ ~Headless => /\ \A r \in In(w, n) : kind[r] = "good" => r \in answered \cup rs
                                    /\ Kept(f, w)
  PROVE  DetailInv'
  <1>1. /\ vps' = rs /\ misplaced' = misplaced /\ discarded' = discarded
        /\ state' \in {"NO_REPLY", "REPLIED", "RUNNING"}
        /\ answered \subseteq answered' /\ answered' \subseteq answered \cup rs
        /\ state' = "REPLIED" => rs \subseteq answered'
        /\ \A q \in outstanding' :
             q \in outstanding \/ (q[2] = rs /\ q \in (1 .. MaxCopies) \X SUBSET Records)
    <2>1. \A c \in 1 .. MaxCopies : <<c, rs>>[2] = rs /\ <<c, rs>> \in (1 .. MaxCopies) \X SUBSET Records
      OBVIOUS
    <2> QED
      BY <2>1 DEF Send
  <1>2. DetailTypeOK'
    <2>1. outstanding' \subseteq (1 .. MaxCopies) \X SUBSET Records
      BY <1>1 DEF DetailTypeOK
    <2>2. answered' \subseteq Records
      BY <1>1 DEF DetailTypeOK
    <2> QED
      BY <1>1, <2>1, <2>2 DEF DetailTypeOK, DetailStates
  <1>3. FilesAre(filename, filename_work)'
    BY SameKind
  <1>4. Place'
    BY <1>1 DEF Place
  <1>5. ~misplaced' => Reader'
    <2>1. ~misplaced => \A q \in outstanding' : q[2] # {}
      BY <1>1
    <2> QED
      BY <1>1, <2>1 DEF Reader, In
  <1>6. ~misplaced' /\ ~Headless' => Passed' /\ Kept(filename, filename_work)'
    <2>1. ASSUME ~misplaced, ~Headless PROVE Passed'
      BY <1>1, <2>1 DEF Passed, In
    <2>2. ASSUME ~misplaced, ~Headless PROVE Kept(f, w)'
      BY <1>1, <2>2 DEF Kept, Content, In
    <2> QED
      BY <1>1, <2>1, <2>2, SameKind
  <1> QED
    BY <1>2, <1>3, <1>4, <1>5, <1>6 DEF DetailInv

\* The loop over fgets().
LEMMA ReadLemma ==
  ASSUME DetailTypeOK, NEW f \in Seq(Records), NEW w \in Seq(Records), NEW o \in Nat, o <= Len(w),
         filename' = f, kind' = kind, ReadRecord(w, o), FilesAre(f, w),
         ~misplaced => \A q \in outstanding : q[2] # {},
         ~misplaced /\ ~Headless => /\ \A r \in In(w, o) : kind[r] = "good" => r \in answered
                                    /\ Kept(f, w)
  PROVE  DetailInv'
  <1>0. Len(w) \in Nat
    OBVIOUS
  <1>1. PICK n : n = EndOfRecord(w, o)
    OBVIOUS
  <1>4. CASE ReadError(w, o)
    <2>1. PICK m \in o .. Len(w) : CloseFile(w, Attributes(w, o, m))
      BY <1>4 DEF ReadError
    <2>2. PICK rs : rs = Attributes(w, o, m)
      OBVIOUS
    <2>3. rs \subseteq Records /\ CloseFile(w, rs)
      BY <1>0, <2>1, <2>2, AttributesLemma
    <2>4. discarded' = IF filename_work' # <<>> THEN discarded
                       ELSE discarded \cup {w[i] : i \in (o + 1) .. Len(w)}
      BY <1>4 DEF ReadError
    <2>5. discarded' \subseteq Records /\ discarded \subseteq discarded'
      <3>1. \A i \in (o + 1) .. Len(w) : w[i] \in Records
        BY <1>0
      <3> QED
        BY <2>4, <3>1 DEF DetailTypeOK
    <2>6. ASSUME ~misplaced, ~Headless, filename_work' # w, NEW r \in Content(w), kind[r] = "good"
          PROVE  r \in answered \cup discarded'
      <3>1. filename_work' = <<>>
        BY <2>3, <2>6 DEF CloseFile
      <3>2. PICK i \in 1 .. Len(w) : r = w[i]
        BY <2>6 DEF Content, In
      <3>3. CASE i \in 1 .. o
        BY <2>6, <3>2, <3>3 DEF In
      <3>4. CASE i \in (o + 1) .. Len(w)
        BY <2>4, <3>1, <3>2, <3>4
      <3> QED
        BY <1>0, <3>2, <3>3, <3>4
    <2> QED
      BY <2>3, <2>5, <2>6, CleanupLemma
  <1>2. CASE n = 0 /\ ~ReadError(w, o)
    <2>1. \A i \in (o + 1) .. Len(w) : kind[w[i]] \notin Complete
      BY <1>1, <1>2, EndLemma
    <2>2. PICK rs \in {{}, Attributes(w, o, Len(w))} : Cleanup(w, rs)
      BY <1>1, <1>2 DEF ReadRecord
    <2>3. rs \subseteq Records
      <3>1. PICK m : m = Len(w)
        OBVIOUS
      <3>2. m \in 0 .. Len(w)
        BY <1>0, <3>1
      <3>3. Attributes(w, o, m) \subseteq Records
        BY <3>2, AttributesLemma
      <3> QED
        BY <2>2, <3>1, <3>3
    <2>4. CloseFile(w, rs) /\ discarded' = discarded /\ discarded' \subseteq Records
      BY <2>2 DEF Cleanup, DetailTypeOK
    <2>5. ASSUME ~misplaced, ~Headless, NEW r \in Content(w), kind[r] = "good" PROVE r \in answered
      <3>1. PICK i \in 1 .. Len(w) : r = w[i]
        BY DEF Content, In
      <3>2. i \notin (o + 1) .. Len(w)
        BY <2>1, <2>5, <3>1 DEF Complete
      <3>3. i \in 1 .. o
        BY <1>0, <3>1, <3>2
      <3> QED
        BY <2>5, <3>1, <3>3 DEF In
    <2> QED
      BY <2>3, <2>4, <2>5, CleanupLemma
  <1>3. CASE n # 0 /\ ~ReadError(w, o)
    <2>1. n \in (o + 1) .. Len(w) /\ kind[w[n]] \in Complete
      BY <1>1, <1>3, EndLemma
    <2>2. PICK rs : rs = Attributes(w, o, n)
      OBVIOUS
    <2>3. /\ filename_work' = w /\ fp' = TRUE /\ offset' = n
          /\ \/ rs = {} /\ state' = "HEADER" /\ vps' = {}
                /\ UNCHANGED <<outstanding, answered, misplaced, discarded>>
             \/ rs # {} /\ Send(rs)
      BY <1>1, <1>3, <2>2 DEF ReadRecord
    <2>4. n \in Nat /\ n <= Len(w) /\ n \in 0 .. Len(w) /\ n >= 1
      BY <1>0, <2>1
    <2>5. /\ rs \subseteq Records /\ rs \subseteq In(w, n)
          /\ \A r \in rs : \E i \in (o + 1) .. n : r = w[i]
          /\ \A i \in (o + 1) .. n : kind[w[i]] = "good" => w[i] \in rs
      BY <2>2, <2>4, AttributesLemma
    <2>7. ASSUME ~misplaced, ~Headless, NEW r \in In(w, n), kind[r] = "good" PROVE r \in answered \cup rs
      <3>1. PICK i \in 1 .. n : r = w[i]
        BY DEF In
      <3>2. CASE i \in 1 .. o
        BY <2>7, <3>1, <3>2 DEF In
      <3>3. CASE i \in (o + 1) .. n
        BY <2>5, <2>7, <3>1, <3>3
      <3> QED
        BY <2>4, <3>1, <3>2, <3>3
    <2>8. CASE Send(rs) /\ rs # {}
      BY <2>1, <2>3, <2>4, <2>5, <2>7, <2>8, SendLemma
    <2>9. CASE /\ rs = {} /\ state' = "HEADER" /\ vps' = {}
               /\ UNCHANGED <<outstanding, answered, misplaced, discarded>>
      <3>1. DetailTypeOK'
        BY <2>3, <2>4, <2>9 DEF DetailTypeOK, DetailStates
      <3>2. FilesAre(filename, filename_work)'
        BY <2>3, SameKind
      <3>3. Place'
        BY <2>1, <2>3, <2>4, <2>9 DEF Place
      <3>4. ~misplaced' => Reader'
        BY <2>3, <2>9 DEF Reader
      <3>5. ~misplaced' /\ ~Headless' => Passed' /\ Kept(filename, filename_work)'
        <4>1. ASSUME ~misplaced, ~Headless PROVE Passed'
          BY <2>3, <2>7, <2>9, <4>1 DEF Passed, In
        <4>2. ASSUME ~misplaced, ~Headless PROVE Kept(f, w)'
          BY <2>9, <4>2 DEF Kept, Content, In
        <4> QED
          BY <2>3, <2>9, <4>1, <4>2, SameKind
      <3> QED
        BY <3>1, <3>2, <3>3, <3>4, <3>5 DEF DetailInv
    <2> QED
      BY <2>3, <2>8, <2>9
  <1> QED
    BY <1>2, <1>3, <1>4

LEMMA HeaderLemma ==
  ASSUME DetailTypeOK, NEW f \in Seq(Records), NEW w \in Seq(Records), NEW o \in Nat, o <= Len(w),
         filename' = f, kind' = kind, do_header(w, o), FilesAre(f, w),
         ~misplaced => \A q \in outstanding : q[2] # {},
         ~misplaced /\ ~Headless => /\ \A r \in In(w, o) : kind[r] = "good" => r \in answered
                                    /\ Kept(f, w)
  PROVE  DetailInv'
  <1>1. CASE ReadRecord(w, o)
    BY <1>1, ReadLemma
  <1>2. CASE /\ o < Len(w) /\ kind[w[o + 1]] = "headless"
             /\ EndOfRecord(w, o) # 0 /\ ReadRecord(w, EndOfRecord(w, o))
    <2>1. PICK n : n = EndOfRecord(w, o)
      OBVIOUS
    <2>2. n \in (o + 1) .. Len(w)
      BY <1>2, <2>1, EndLemma
    <2>3. n \in Nat /\ n <= Len(w)
      BY <2>2
    <2>4. Headless
      <3>1. o + 1 \in 1 .. Len(w)
        BY <1>2
      <3>2. w[o + 1] \in Records
        BY <3>1
      <3> QED
        BY <1>2, <3>2 DEF Headless
    <2> QED
      BY <1>2, <2>1, <2>3, <2>4, ReadLemma
  <1> QED
    BY <1>1, <1>2 DEF do_header

LEMMA NotLockedLemma ==
  ASSUME DetailTypeOK, NEW f \in Seq(Records), NEW w \in Seq(Records), NEW rs \in SUBSET Records,
         filename' = f, kind' = kind, NotLocked(w, rs), FilesAre(f, w),
         ~misplaced => \A q \in outstanding : q[2] # {},
         ~misplaced /\ ~Headless => Kept(f, w)
  PROVE  DetailInv'
  <1>1. /\ filename_work' = w /\ fp' = FALSE /\ offset' = 0 /\ vps' = rs /\ state' = "UNOPENED"
        /\ outstanding' = outstanding /\ answered' = answered /\ misplaced' = misplaced
        /\ discarded' = discarded
    BY DEF NotLocked
  <1>2. DetailTypeOK'
    BY <1>1 DEF DetailTypeOK, DetailStates
  <1>3. FilesAre(filename, filename_work)'
    BY <1>1, SameKind
  <1>4. Place'
    BY <1>1 DEF Place
  <1>5. ~misplaced' => Reader'
    BY <1>1 DEF Reader
  <1>6. ~misplaced' /\ ~Headless' => Passed' /\ Kept(filename, filename_work)'
    <2>1. Passed'
      BY <1>1 DEF Passed, In
    <2>2. ASSUME ~misplaced, ~Headless PROVE Kept(f, w)'
      BY <1>1, <2>2 DEF Kept, Content, In
    <2> QED
      BY <1>1, <2>1, <2>2, SameKind
  <1> QED
    BY <1>2, <1>3, <1>4, <1>5, <1>6 DEF DetailInv

----------------------------------------------------------------------------
(* The steps of the listener.                                               *)

\* detail_open() finds the work file, or makes one.
LEMMA OpenLemma ==
  ASSUME DetailInv, NEW rs \in SUBSET Records, kind' = kind, open_file(rs)
  PROVE  DetailInv'
  <1>1. PICK w : w = IF filename_work # <<>> THEN filename_work ELSE filename
    OBVIOUS
  <1>2. PICK f : f = IF filename_work # <<>> THEN filename ELSE <<>>
    OBVIOUS
  <1>3. filename' = f /\ (do_header(w, 0) \/ NotLocked(w, rs))
    BY <1>1, <1>2 DEF open_file
  <1>4. f \in Seq(Records) /\ w \in Seq(Records) /\ DetailTypeOK
    BY <1>1, <1>2 DEF DetailInv, DetailTypeOK
  <1>5. /\ FilesAre(f, w)
        /\ Content(f) \cup Content(w) = Content(filename) \cup Content(filename_work)
    <2>1. CASE filename_work # <<>>
      BY <1>1, <1>2, <2>1 DEF DetailInv
    <2>2. CASE filename_work = <<>>
      <3>1. f = <<>> /\ w = filename /\ FilesAre(filename, <<>>)
        BY <1>1, <1>2, <2>2 DEF DetailInv
      <3>2. FilesAre(f, w)
        BY <3>1, Content0 DEF FilesAre
      <3> QED
        BY <2>2, <3>1, <3>2, Content0
    <2> QED
      BY <2>1, <2>2
  <1>6. ~misplaced => \A q \in outstanding : q[2] # {}
    BY DEF DetailInv, Reader
  <1>7. ~misplaced /\ ~Headless => Kept(f, w)
    BY <1>5 DEF DetailInv, Kept
  <1>8. CASE do_header(w, 0)
    <2>1. In(w, 0) = {}
      BY DEF In
    <2>2. 0 \in Nat /\ 0 <= Len(w)
      BY <1>4
    <2> QED
      BY <1>3, <1>4, <1>5, <1>6, <1>7, <1>8, <2>1, <2>2, HeaderLemma
  <1>9. CASE NotLocked(w, rs)
    BY <1>3, <1>4, <1>5, <1>6, <1>7, <1>9, NotLockedLemma
  <1> QED
    BY <1>3, <1>8, <1>9

\* The next record of the file that is open, when the last one is answered.
LEMMA NextRecord ==
  ASSUME DetailInv, kind' = kind, filename' = filename, state \in {"HEADER", "REPLIED"},
         do_header(filename_work, offset)
  PROVE  DetailInv'
  <1>1. PICK f, w, o : f = filename /\ w = filename_work /\ o = offset
    OBVIOUS
  <1>2. DetailTypeOK /\ f \in Seq(Records) /\ w \in Seq(Records) /\ o \in Nat /\ o <= Len(w) /\ FilesAre(f, w)
    BY <1>1 DEF DetailInv, DetailTypeOK, Place
  <1>3. ~misplaced => \A q \in outstanding : q[2] # {}
    BY DEF DetailInv, Reader
  <1>4. ~misplaced /\ ~Headless => /\ \A r \in In(w, o) : kind[r] = "good" => r \in answered
                                   /\ Kept(f, w)
    BY <1>1 DEF DetailInv, Passed
  <1>5. filename' = f /\ do_header(w, o)
    BY <1>1
  <1> QED
    BY <1>2, <1>3, <1>4, <1>5, HeaderLemma

\* What is being sent is sent again.
LEMMA SendAgain ==
  ASSUME DetailInv, kind' = kind, state \in {"RUNNING", "NO_REPLY"}, Send(vps),
         UNCHANGED <<filename, filename_work, fp, offset>>
  PROVE  DetailInv'
  <1>1. PICK f, w, n, rs : f = filename /\ w = filename_work /\ n = offset /\ rs = vps
    OBVIOUS
  <1>2. DetailTypeOK /\ f \in Seq(Records) /\ w \in Seq(Records) /\ n \in Nat /\ n <= Len(w) /\ FilesAre(f, w)
        /\ rs \subseteq Records /\ fp' \in BOOLEAN
    BY <1>1 DEF DetailInv, DetailTypeOK, Place
  <1>3. (n # 0 => kind[w[n]] \in Complete) /\ (~fp' => n = 0)
    BY <1>1 DEF DetailInv, Place
  <1>4. ~misplaced => (\A q \in outstanding : q[2] # {}) /\ fp' /\ rs # {} /\ rs \subseteq In(w, n)
    BY <1>1 DEF DetailInv, Reader
  <1>6. ~misplaced /\ ~Headless => /\ \A r \in In(w, n) : kind[r] = "good" => r \in answered \cup rs
                                   /\ Kept(f, w)
    BY <1>1 DEF DetailInv, Passed
  <1>7. filename' = f /\ filename_work' = w /\ offset' = n /\ Send(rs)
    BY <1>1
  <1> QED
    BY <1>2, <1>3, <1>4, <1>6, <1>7, SendLemma

LEMMA PollLemma ==
  ASSUME DetailInv, event_poll_detail
  PROVE  DetailInv'
  <1>0. kind' = kind /\ DetailTypeOK
    BY DEF event_poll_detail, DetailInv
  <1>1. CASE PollUnopened
    <2>2. PICK rs : rs = vps
      OBVIOUS
    <2>3. rs \in SUBSET Records /\ open_file(rs)
      BY <1>0, <1>1, <2>2 DEF DetailTypeOK, PollUnopened
    <2> QED
      BY <1>0, <2>2, <2>3, OpenLemma
  <1>2. CASE PollHeader
    BY <1>0, <1>2, NextRecord DEF PollHeader
  <1>3. CASE PollRunning
    BY <1>0, <1>3, SendAgain DEF PollRunning
  <1>4. CASE PollNoReply
    <2>0. state = "NO_REPLY" /\ filename' = filename
      BY <1>4 DEF PollNoReply
    <2>1. CASE vps # {} /\ Send(vps) /\ UNCHANGED <<filename_work, fp, offset>>
      BY <1>0, <2>0, <2>1, SendAgain
    <2>2. CASE vps = {} /\ ~fp /\ Cleanup(filename_work, {})
      <3>1. misplaced
        BY <2>0, <2>2 DEF DetailInv, Reader
      <3>2. PICK f, w : f = filename /\ w = filename_work
        OBVIOUS
      <3>3. /\ f \in Seq(Records) /\ w \in Seq(Records) /\ FilesAre(f, w) /\ filename' = f
            /\ CloseFile(w, {}) /\ discarded' = discarded /\ discarded' \subseteq Records
        BY <2>0, <2>2, <3>2 DEF DetailInv, DetailTypeOK, Cleanup
      <3> QED
        BY <1>0, <3>1, <3>3, CleanupLemma
    <2>3. CASE /\ vps = {} /\ fp /\ state' = "HEADER"
               /\ UNCHANGED <<filename_work, fp, offset, vps, outstanding, answered, misplaced, discarded>>
      <3>1. misplaced
        BY <2>0, <2>3 DEF DetailInv, Reader
      <3>2. FilesAre(filename, filename_work)'
        BY <1>0, <2>0, <2>3, SameKind DEF DetailInv
      <3> QED
        BY <1>0, <2>0, <2>3, <3>1, <3>2 DEF DetailInv, DetailTypeOK, DetailStates, Place
    <2> QED
      BY <1>4, <2>1, <2>2, <2>3 DEF PollNoReply
  <1>5. CASE PollReplied
    <2>0. state = "REPLIED"
      BY <1>5 DEF PollReplied
    <2>1. CASE fp /\ do_header(filename_work, offset) /\ UNCHANGED filename
      BY <1>0, <2>0, <2>1, NextRecord
    <2>2. CASE ~fp /\ open_file({})
      BY <1>0, <2>2, OpenLemma
    <2>3. CASE ~fp /\ state' = "UNOPENED" /\ vps' = {}
               /\ UNCHANGED <<filename, filename_work, fp, offset, outstanding, answered, misplaced, discarded>>
      <3>1. misplaced
        BY <2>0, <2>3 DEF DetailInv, Reader
      <3>2. FilesAre(filename, filename_work)'
        BY <1>0, <2>3, SameKind DEF DetailInv
      <3> QED
        BY <1>0, <2>3, <3>1, <3>2 DEF DetailInv, DetailTypeOK, DetailStates, Place
    <2> QED
      BY <1>5, <2>1, <2>2, <2>3 DEF PollReplied
  <1> QED
    BY <1>1, <1>2, <1>3, <1>4, <1>5 DEF event_poll_detail
LEMMA AppendContent ==
  ASSUME NEW f \in Seq(Records), NEW r \in Records
  PROVE  /\ Append(f, r) \in Seq(Records) /\ Len(Append(f, r)) = Len(f) + 1 /\ Len(f) \in Nat
         /\ \A i \in 1 .. Len(f) : Append(f, r)[i] = f[i]
         /\ Append(f, r)[Len(f) + 1] = r
         /\ Content(Append(f, r)) = Content(f) \cup {r}
  <1>1. /\ Append(f, r) \in Seq(Records) /\ Len(Append(f, r)) = Len(f) + 1 /\ Len(f) \in Nat
        /\ \A i \in 1 .. Len(f) : Append(f, r)[i] = f[i]
        /\ Append(f, r)[Len(f) + 1] = r
    OBVIOUS
  <1>2. PICK g : g = Append(f, r)
    OBVIOUS
  <1>3. PICK n \in Nat : n = Len(f)
    BY <1>1
  <1>4. \A i : i \in 1 .. (n + 1) <=> i \in 1 .. n \/ i = n + 1
    OBVIOUS
  <1>5. /\ Len(g) = n + 1 /\ g[n + 1] = r /\ \A i \in 1 .. n : g[i] = f[i]
    BY <1>1, <1>2, <1>3
  <1>6. Content(g) = Content(f) \cup {r}
    BY ONLY <1>3, <1>4, <1>5 DEF Content, In
  <1> QED
    BY <1>1, <1>2, <1>6

----------------------------------------------------------------------------
(* The writer, the answers and the crash.                                   *)

\* A record is appended: nothing knew of it before.
LEMMA WriteLemma ==
  ASSUME DetailInv, NEW r \in Records, do_detail(r)
  PROVE  DetailInv'
  <1>1. DetailTypeOK /\ FilesAre(filename, filename_work) /\ Place
    BY DEF DetailInv
  <1>2. /\ kind[r] = "unwritten" /\ filename' = Append(filename, r) /\ filename_work' = filename_work
        /\ state' = state /\ fp' = fp /\ offset' = offset /\ vps' = vps /\ outstanding' = outstanding
        /\ answered' = answered /\ misplaced' = misplaced /\ discarded' = discarded
    BY DEF do_detail
  <1>3. /\ kind' \in [Records -> Kinds] /\ kind'[r] # "unwritten"
        /\ \A s \in Records : s # r => kind'[s] = kind[s]
    BY DEF do_detail, DetailInv, DetailTypeOK
  <1>4. PICK f : f = filename
    OBVIOUS
  <1>5. PICK w : w = filename_work
    OBVIOUS
  <1>6. PICK g : g = Append(f, r)
    OBVIOUS
  <1>7. f \in Seq(Records) /\ w \in Seq(Records) /\ Len(w) \in Nat
    BY <1>1, <1>4, <1>5 DEF DetailTypeOK
  <1>8. /\ g \in Seq(Records) /\ Len(g) = Len(f) + 1 /\ Len(f) \in Nat
        /\ \A i \in 1 .. Len(f) : g[i] = f[i]
        /\ g[Len(f) + 1] = r
        /\ Content(g) = Content(f) \cup {r}
    BY <1>6, <1>7, AppendContent
  <1>9. r \notin Content(f) /\ r \notin Content(w) /\ Content(f) \subseteq Records /\ Content(w) \subseteq Records
    BY <1>1, <1>2, <1>4, <1>5, <1>7, ContentIsOnDisk DEF FilesAre
  <1>10. /\ \A i \in 1 .. Len(f) : f[i] \in Content(f)
         /\ \A i \in 1 .. Len(w) : w[i] \in Content(w)
    BY DEF Content, In
  <1>11. \A i \in 1 .. Len(w) : w[i] # r /\ kind'[w[i]] = kind[w[i]]
    BY <1>3, <1>9, <1>10
  <1>12. DetailTypeOK'
    BY <1>1, <1>2, <1>3, <1>4, <1>6, <1>8 DEF DetailTypeOK
  <1>13. FilesAre(filename, filename_work)'
    <2>1. ASSUME NEW i \in 1 .. Len(g), NEW j \in 1 .. Len(g), g[i] = g[j] PROVE i = j
      <3>1. (i \in 1 .. Len(f) \/ i = Len(f) + 1) /\ (j \in 1 .. Len(f) \/ j = Len(f) + 1)
        BY <1>8
      <3>2. CASE i \in 1 .. Len(f) /\ j \in 1 .. Len(f)
        BY <1>1, <1>4, <1>8, <2>1, <3>2 DEF FilesAre
      <3>3. CASE i = Len(f) + 1 /\ j = Len(f) + 1
        BY <3>3
      <3>4. \A k \in 1 .. Len(f) : g[k] # r
        BY <1>8, <1>9, <1>10
      <3> QED
        BY <1>8, <2>1, <3>1, <3>2, <3>3, <3>4
    <2>2. \A i, j \in 1 .. Len(w) : w[i] = w[j] => i = j
      BY <1>1, <1>5 DEF FilesAre
    <2>3. Content(f) \cap Content(w) = {} /\ \A s \in Content(f) \cup Content(w) : kind[s] # "unwritten"
      BY <1>1, <1>4, <1>5 DEF FilesAre
    <2>4. Content(g) \cap Content(w) = {}
      BY <1>8, <1>9, <2>3
    <2>5. \A s \in Content(g) \cup Content(w) : kind'[s] # "unwritten"
      BY <1>3, <1>8, <1>9, <2>3
    <2>6. FilesAre(g, w)'
      BY <2>1, <2>2, <2>4, <2>5 DEF FilesAre, Content, In
    <2> QED
      BY <1>2, <1>4, <1>5, <1>6, <2>6
  <1>14. Place'
    <2>1. offset \in Nat /\ offset <= Len(w) /\ (offset # 0 => kind[w[offset]] \in Complete)
      BY <1>1, <1>5 DEF Place, DetailTypeOK
    <2>2. offset # 0 => kind'[w[offset]] \in Complete
      BY <1>7, <1>11, <2>1
    <2> QED
      BY <1>1, <1>2, <1>5, <2>1, <2>2 DEF Place
  <1>16. ~misplaced' => Reader'
    BY <1>2 DEF DetailInv, Reader, In
  <1>17. ~misplaced' /\ ~Headless' => Passed' /\ Kept(filename, filename_work)'
    <2>1. SUFFICES ASSUME ~misplaced, ~Headless' PROVE Passed' /\ Kept(filename, filename_work)'
      BY <1>2
    <2>2. ~Headless
      BY <1>2, <1>3, <2>1 DEF Headless
    <2>3. Passed /\ Kept(f, w)
      BY <1>4, <1>5, <2>1, <2>2 DEF DetailInv
    <2>4. Passed'
      <3>1. \A i \in 1 .. offset : i \in 1 .. Len(w)
        BY <1>1, <1>5, <1>7 DEF Place, DetailTypeOK
      <3>2. \A s \in In(w, offset) : kind'[s] = kind[s]
        BY <1>11, <3>1 DEF In
      <3> QED
        BY <1>2, <1>5, <2>3, <3>2 DEF Passed, In
    <2>5. \A s \in Records : kind'[s] = "good" => s \in Content(g) \cup Content(w) \cup answered \cup discarded
      BY <1>3, <1>8, <2>3 DEF Kept
    <2>6. Kept(g, w)'
      BY <1>2, <2>5 DEF Kept, Content, In
    <2> QED
      BY <1>2, <1>4, <1>5, <1>6, <2>4, <2>6
  <1> QED
    BY <1>12, <1>13, <1>14, <1>16, <1>17 DEF DetailInv

\* A reply to the record the listener is at.
LEMMA SendBackLemma ==
  ASSUME DetailInv, NEW q \in outstanding, detail_send(q)
  PROVE  DetailInv'
  <1>1. DetailTypeOK /\ FilesAre(filename, filename_work) /\ Place
    BY DEF DetailInv
  <1>2. /\ kind' = kind /\ filename' = filename /\ filename_work' = filename_work
        /\ fp' = fp /\ offset' = offset /\ vps' = vps /\ outstanding' \subseteq outstanding
        /\ misplaced' = (misplaced \/ q[2] # vps \/ ~fp) /\ discarded' = discarded
        /\ \/ state' = "REPLIED" /\ answered' = answered \cup q[2]
           \/ state' = "NO_REPLY" /\ answered' = answered
    BY DEF detail_send
  <1>3. q[2] \subseteq Records /\ misplaced' \in BOOLEAN /\ outstanding' \subseteq (1 .. MaxCopies) \X SUBSET Records
    <2>1. q[2] \subseteq Records
      BY <1>1 DEF DetailTypeOK
    <2>2. outstanding' \subseteq (1 .. MaxCopies) \X SUBSET Records
      BY <1>1, <1>2 DEF DetailTypeOK
    <2> QED
      BY <1>2, <2>1, <2>2
  <1>4. DetailTypeOK'
    <2>1. answered' \subseteq Records
      BY <1>1, <1>2, <1>3 DEF DetailTypeOK
    <2> QED
      BY <1>1, <1>2, <1>3, <2>1 DEF DetailTypeOK, DetailStates
  <1>5. FilesAre(filename, filename_work)'
    BY <1>1, <1>2, SameKind
  <1>6. Place'
    BY <1>1, <1>2 DEF Place
  <1>7. ASSUME ~misplaced'
        PROVE  ~misplaced /\ q[2] = vps /\ Reader /\ state \in {"RUNNING", "NO_REPLY", "REPLIED"}
    <2>1. ~misplaced /\ q[2] = vps /\ fp
      BY <1>2, <1>7
    <2>2. Reader
      BY <2>1 DEF DetailInv
    <2>3. vps # {}
      BY <2>1, <2>2 DEF Reader
    <2> QED
      BY <1>1, <2>1, <2>2, <2>3 DEF Reader, Place, DetailTypeOK, DetailStates
  <1>8. ~misplaced' => Reader'
    BY <1>2, <1>7 DEF Reader, In
  <1>9. ~misplaced' /\ ~Headless' => Passed' /\ Kept(filename, filename_work)'
    <2>1. SUFFICES ASSUME ~misplaced', ~Headless' PROVE Passed' /\ Kept(filename, filename_work)'
      OBVIOUS
    <2>2. Passed /\ Kept(filename, filename_work)
      BY <1>2, <1>7, <2>1, SameKind DEF DetailInv
    <2> QED
      BY <1>2, <1>7, <2>1, <2>2 DEF Passed, Kept, Content, In
  <1> QED
    BY <1>4, <1>5, <1>6, <1>8, <1>9 DEF DetailInv

\* A request is freed without an answer.
LEMMA VanishLemma ==
  ASSUME DetailInv, NEW q \in outstanding, Vanish(q)
  PROVE  DetailInv'
  <1>1. DetailTypeOK /\ FilesAre(filename, filename_work) /\ Place
    BY DEF DetailInv
  <1>2. /\ kind' = kind /\ filename' = filename /\ filename_work' = filename_work /\ state' = state
        /\ fp' = fp /\ offset' = offset /\ vps' = vps /\ outstanding' \subseteq outstanding
        /\ misplaced' = misplaced /\ answered' = answered /\ discarded' = discarded
    BY DEF Vanish
  <1>3. DetailTypeOK'
    <2>1. outstanding' \subseteq (1 .. MaxCopies) \X SUBSET Records
      BY <1>1, <1>2 DEF DetailTypeOK
    <2> QED
      BY <1>1, <1>2, <2>1 DEF DetailTypeOK
  <1>4. FilesAre(filename, filename_work)'
    BY <1>1, <1>2, SameKind
  <1>5. Place'
    BY <1>1, <1>2 DEF Place
  <1>6. ~misplaced' => Reader'
    BY <1>2 DEF DetailInv, Reader, In
  <1>7. ~misplaced' /\ ~Headless' => Passed' /\ Kept(filename, filename_work)'
    <2>1. SUFFICES ASSUME ~misplaced, ~Headless PROVE Passed' /\ Kept(filename, filename_work)'
      BY <1>2, SameKind
    <2>2. Passed /\ Kept(filename, filename_work)
      BY <2>1 DEF DetailInv
    <2> QED
      BY <1>2, <2>2 DEF Passed, Kept, Content, In
  <1> QED
    BY <1>3, <1>4, <1>5, <1>6, <1>7 DEF DetailInv

\* The process starts again, with the files it left.
LEMMA RestartLemma ==
  ASSUME DetailInv, Restart
  PROVE  DetailInv'
  <1>1. DetailTypeOK /\ FilesAre(filename, filename_work) /\ Place
    BY DEF DetailInv
  <1>2. /\ kind' = kind /\ filename' = filename /\ filename_work' = filename_work /\ state' = "UNOPENED"
        /\ fp' = FALSE /\ offset' = 0 /\ vps' = {} /\ outstanding' = {}
        /\ misplaced' = misplaced /\ answered' = answered /\ discarded' = discarded
    BY DEF Restart
  <1>3. DetailTypeOK'
    BY <1>1, <1>2 DEF DetailTypeOK, DetailStates
  <1>4. FilesAre(filename, filename_work)'
    BY <1>1, <1>2, SameKind
  <1>5. Place'
    <2>1. Len(filename_work) \in Nat
      BY <1>1 DEF DetailTypeOK
    <2> QED
      BY <1>2, <2>1 DEF Place
  <1>6. Reader'
    BY <1>2 DEF Reader
  <1>7. ~misplaced' /\ ~Headless' => Passed' /\ Kept(filename, filename_work)'
    <2>1. SUFFICES ASSUME ~misplaced, ~Headless PROVE Passed' /\ Kept(filename, filename_work)'
      BY <1>2, SameKind
    <2>2. Kept(filename, filename_work)
      BY <2>1 DEF DetailInv
    <2>3. Passed'
      BY <1>2 DEF Passed, In
    <2> QED
      BY <1>2, <2>2, <2>3 DEF Kept, Content, In
  <1> QED
    BY <1>3, <1>4, <1>5, <1>6, <1>7 DEF DetailInv

LEMMA InitLemma ==
  ASSUME DetailInit
  PROVE  DetailInv
  <1>1. DetailTypeOK
    BY Content0 DEF DetailInit, DetailTypeOK, DetailStates, Kinds
  <1>2. FilesAre(filename, filename_work)
    BY Content0 DEF DetailInit, FilesAre
  <1>3. Place
    BY Content0 DEF DetailInit, Place
  <1>4. Reader
    BY DEF DetailInit, Reader
  <1>5. Passed
    BY DEF DetailInit, Passed, In
  <1>6. Kept(filename, filename_work)
    BY DEF DetailInit, Kept
  <1> QED
    BY <1>1, <1>2, <1>3, <1>4, <1>5, <1>6 DEF DetailInv

LEMMA StutterLemma ==
  ASSUME DetailInv, UNCHANGED detailVars
  PROVE  DetailInv'
  <1>1. DetailTypeOK' /\ Place'
    BY DEF detailVars, DetailInv, DetailTypeOK, Place
  <1>2. FilesAre(filename, filename_work)' /\ (Headless' <=> Headless) /\ misplaced' = misplaced
    BY SameKind DEF detailVars, DetailInv
  <1>3. (Reader => Reader') /\ (Passed => Passed') /\ (Kept(filename, filename_work) => Kept(filename, filename_work)')
    BY DEF detailVars, Reader, Passed, Kept, Content, In
  <1> QED
    BY <1>1, <1>2, <1>3 DEF DetailInv

----------------------------------------------------------------------------
\* The invariant says what the runs check.
LEMMA InvariantSaysIt ==
  ASSUME DetailInv
  PROVE  RecordsAreKept
  <1>1. DetailTypeOK
    BY DEF DetailInv
  <1>2. NoRecordLost
    <2>1. SUFFICES ASSUME NEW r \in Records, kind[r] = "good", ~misplaced, ~Headless
                   PROVE  r \in OnDisk \cup answered \cup discarded
      BY DEF NoRecordLost, Headless
    <2>2. r \in Content(filename) \cup Content(filename_work) \cup answered \cup discarded
      BY <2>1 DEF DetailInv, Kept
    <2>3. Content(filename) \cup Content(filename_work) = OnDisk
      BY <1>1, ContentIsOnDisk DEF OnDisk, DetailTypeOK
    <2> QED
      BY <2>2, <2>3
  <1>3. RetriedIsInWork
    BY DEF RetriedIsInWork, DetailInv, Reader, In
  <1> QED
    BY <1>1, <1>2, <1>3 DEF RecordsAreKept

(***************************************************************************)
(* For any number of records, and any number of requests that carry one at *)
(* the same time: over retries, crashes, records the disk cut short, locks *)
(* that are refused and files that are not unlinked, do_detail() and       *)
(* detail_recv() keep each record that was written whole in a file until   *)
(* detail_send() had a reply for it, or its file could not be read up to   *)
(* it, and what is sent again is in the work file, that is still open.     *)
(* Misplaced answers and headers cut short are as in NoRecordLost.         *)
(***************************************************************************)
THEOREM DetailTheorem == DetailSpec => []RecordsAreKept
  <1>1. DetailInit => DetailInv
    BY InitLemma
  <1>2. DetailInv /\ [DetailNext]_detailVars => DetailInv'
    <2>1. SUFFICES ASSUME DetailInv, [DetailNext]_detailVars PROVE DetailInv'
      OBVIOUS
    <2>2. CASE \E r \in Records : do_detail(r)
      BY <2>1, <2>2, WriteLemma
    <2>3. CASE event_poll_detail
      BY <2>1, <2>3, PollLemma
    <2>4. CASE \E q \in outstanding : detail_send(q)
      BY <2>1, <2>4, SendBackLemma
    <2>5. CASE \E q \in outstanding : Vanish(q)
      BY <2>1, <2>5, VanishLemma
    <2>6. CASE Restart
      BY <2>1, <2>6, RestartLemma
    <2>7. CASE UNCHANGED detailVars
      BY <2>1, <2>7, StutterLemma
    <2> QED
      BY <2>1, <2>2, <2>3, <2>4, <2>5, <2>6, <2>7 DEF DetailNext
  <1>3. DetailInv => RecordsAreKept
    BY InvariantSaysIt
  <1> QED
    BY <1>1, <1>2, <1>3, PTL DEF DetailSpec

=============================================================================
