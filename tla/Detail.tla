------------------------------- MODULE Detail -------------------------------
(***************************************************************************)
(* The detail file listener of detail.cpp and the writer of rlm_detail:    *)
(* accounting records are appended to a file, the file is renamed to       *)
(* "<name>.work", and its records are sent into the server one at a time   *)
(* until each is answered.  Requests read from the file may be proxied and *)
(* then outlive the poll that made them.  The files survive a crash, the   *)
(* reader's state and its requests do not.                                 *)
(*                                                                         *)
(* One Poll is one event_poll_detail(): a whole detail_recv().  In this    *)
(* build radius_signal_self() runs its handler at once, so the "signal"    *)
(* flag is set and cleared inside detail_send() and is not kept.           *)
(***************************************************************************)
EXTENDS Naturals, Sequences, FiniteSets

CONSTANTS
  Records,      \* accounting records, each written at most once
  MaxCopies,    \* bound on the requests that carry one record at one time
  LockWorks,    \* FALSE where misc.cpp leaves no locking call to compile
  UnlinkFails,  \* the system may refuse to unlink a file that is still open
  ReadFails     \* a read of the work file may fail

ASSUME DetailAssumption ==
  /\ MaxCopies \in Nat \ {0}
  /\ LockWorks \in BOOLEAN /\ UnlinkFails \in BOOLEAN /\ ReadFails \in BOOLEAN

VARIABLES
  filename,       \* the file rlm_detail appends to; <<>> when there is none
  filename_work,  \* the file the listener reads; <<>> when there is none
  kind,           \* how each record was written
  state,          \* data->state between two polls
  fp,             \* data->fp is open
  offset,         \* records of filename_work read so far
  vps,            \* the records whose attributes data->vps holds
  outstanding,    \* requests made from the file that are not done
  answered,       \* records a reply was received for
  misplaced,      \* a reply came when the listener was at another record
  discarded       \* records that went with a work file that could not be read

detailVars == <<filename, filename_work, kind, state, fp, offset, vps,
                outstanding, answered, misplaced, discarded>>

Kinds == {"unwritten", "good", "empty", "cut", "headless"}
Complete == {"good", "empty"}
DetailStates == {"UNOPENED", "HEADER", "RUNNING", "NO_REPLY", "REPLIED"}

(***************************************************************************)
(* do_detail(): the record is appended, to a new file if the old one has   *)
(* been renamed.  On a full disk it is cut short, after its header line or *)
(* inside it ("The writer doesn't check that the record was completely     *)
(* written"); it may be complete and have no attribute the reader keeps.   *)
(***************************************************************************)
do_detail(r) ==
  /\ kind[r] = "unwritten"
  /\ \E k \in Kinds \ {"unwritten"} : kind' = [kind EXCEPT ![r] = k]
  /\ filename' = Append(filename, r)
  /\ UNCHANGED <<filename_work, state, fp, offset, vps, outstanding, answered,
                 misplaced, discarded>>

----------------------------------------------------------------------------
(***************************************************************************)
(* alloc_packet: a request is made of data->vps and handed to the server.  *)
(* received_request() refuses it, or it is processed at once with a reply  *)
(* or with none (detail_send() with reply->code 0), or it is proxied.      *)
(***************************************************************************)
Send(rs) ==
  /\ vps' = rs
  /\ UNCHANGED <<misplaced, discarded>>
  /\ \/ state' = "NO_REPLY" /\ UNCHANGED <<outstanding, answered>>
     \/ /\ state' = "REPLIED"
        /\ answered' = answered \cup rs
        /\ UNCHANGED outstanding
     \/ /\ state' = "RUNNING"
        /\ \E c \in 1..MaxCopies :
             /\ <<c, rs>> \notin outstanding
             /\ outstanding' = outstanding \cup {<<c, rs>>}
        /\ UNCHANGED answered

\* cleanup: the work file w is unlinked, whether or not that succeeds, and the
\* listener starts again; data->vps is asserted to be empty, not emptied.
CloseFile(w, rs) ==
  /\ filename_work' \in {<<>>} \cup (IF UnlinkFails THEN {w} ELSE {})
  /\ fp' = FALSE
  /\ offset' = 0
  /\ vps' = rs
  /\ state' = "UNOPENED"
  /\ UNCHANGED <<outstanding, answered, misplaced>>

Cleanup(w, rs) == CloseFile(w, rs) /\ UNCHANGED discarded

\* The record whose blank line comes first after o: a record cut short has no
\* blank line after it, so the reader goes on into the next one.
EndOfRecord(w, o) ==
  LET ends == {n \in (o + 1)..Len(w) : kind[w[n]] \in Complete}
  IN  IF ends = {} THEN 0 ELSE CHOOSE n \in ends : \A m \in ends : n <= m

\* The records that contribute attributes to data->vps.
Attributes(w, o, n) == {w[i] : i \in {j \in (o + 1)..n : kind[w[j]] # "empty"}}

\* A read fails anywhere after record o, and the file is unlinked as it is, with
\* what was not read yet: "FIXME: Leave the file in-place".
ReadError(w, o) ==
  /\ ReadFails
  /\ \E n \in o..Len(w) : CloseFile(w, Attributes(w, o, n))
  /\ discarded' = IF filename_work' # <<>> THEN discarded
                  ELSE discarded \cup {w[i] : i \in (o + 1)..Len(w)}

(***************************************************************************)
(* The loop over fgets(), from record o + 1: at the end of the file, or    *)
(* when the record never ends, clean up (a line cut short empties          *)
(* data->vps first, a truncated record leaves it); else read up to a blank *)
(* line and queue what was read.                                           *)
(***************************************************************************)
ReadRecord(w, o) ==
  LET n == EndOfRecord(w, o)
  IN  \/ ReadError(w, o)
      \/ n = 0 /\ \E rs \in {{}, Attributes(w, o, Len(w))} : Cleanup(w, rs)
      \/ /\ n # 0
         /\ filename_work' = w
         /\ fp' = TRUE
         /\ offset' = n
         /\ \/ /\ Attributes(w, o, n) = {}
               /\ state' = "HEADER"
               /\ vps' = {}
               /\ UNCHANGED <<outstanding, answered, misplaced, discarded>>
            \/ Attributes(w, o, n) # {} /\ Send(Attributes(w, o, n))

\* do_header.  A header cut short runs into the next header; the line may not
\* look like one, and then every line up to a blank one is skipped.
do_header(w, o) ==
  \/ ReadRecord(w, o)
  \/ /\ o < Len(w) /\ kind[w[o + 1]] = "headless"
     /\ EndOfRecord(w, o) # 0
     /\ ReadRecord(w, EndOfRecord(w, o))

\* rad_lockfd_nonblock() fails: close the file, the work file stays.
NotLocked(w, rs) ==
  /\ filename_work' = w
  /\ fp' = FALSE
  /\ offset' = 0
  /\ state' = "UNOPENED"
  /\ vps' = rs
  /\ UNCHANGED <<outstanding, answered, misplaced, discarded>>

\* Mutant: the detail file is renamed without a look for a work file.
OpenNewFirst(rs) ==
  /\ filename # <<>>
  /\ filename' = <<>>
  /\ \/ LockWorks /\ do_header(filename, 0)
     \/ NotLocked(filename, rs)

(***************************************************************************)
(* open_file: detail_open() takes the work file if there is one, else      *)
(* renames the detail file to it, then the lock is tried without waiting.  *)
(***************************************************************************)
open_file(rs) ==
  LET w == IF filename_work # <<>> THEN filename_work ELSE filename
  IN  /\ w # <<>>
      /\ filename' = IF filename_work # <<>> THEN filename ELSE <<>>
      /\ \/ LockWorks /\ do_header(w, 0)
         \/ NotLocked(w, rs)

\* detail_recv(), one disjunct per state.
PollUnopened == state = "UNOPENED" /\ open_file(vps)
PollHeader == /\ state = "HEADER"
              /\ do_header(filename_work, offset)
              /\ UNCHANGED filename
\* The time since data->running is left open: it may be past retry_interval.
PollRunning == /\ state = "RUNNING"
               /\ Send(vps)
               /\ UNCHANGED <<filename, filename_work, fp, offset>>
PollNoReply ==
  /\ state = "NO_REPLY"
  /\ \/ /\ vps # {}
        /\ Send(vps)
        /\ UNCHANGED <<filename_work, fp, offset>>
     \/ vps = {} /\ ~fp /\ Cleanup(filename_work, {})
     \/ /\ vps = {} /\ fp
        /\ state' = "HEADER"
        /\ UNCHANGED <<filename_work, fp, offset, vps, outstanding, answered,
                       misplaced, discarded>>
  /\ UNCHANGED filename
PollReplied ==
  /\ state = "REPLIED"
  /\ \/ fp /\ do_header(filename_work, offset) /\ UNCHANGED filename
     \/ ~fp /\ open_file({})
     \/ /\ ~fp /\ filename_work = <<>> /\ filename = <<>>
        /\ state' = "UNOPENED"
        /\ vps' = {}
        /\ UNCHANGED <<filename, filename_work, fp, offset, outstanding,
                       answered, misplaced, discarded>>

event_poll_detail ==
  /\ \/ PollUnopened \/ PollHeader \/ PollRunning \/ PollNoReply \/ PollReplied
  /\ UNCHANGED kind

(***************************************************************************)
(* detail_send(), called when a proxied request is done: it sets the state *)
(* of the listener whatever record the listener is at by now.              *)
(***************************************************************************)
detail_send(q) ==
  /\ outstanding' = outstanding \ {q}
  /\ misplaced' = (misplaced \/ q[2] # vps \/ ~fp)
  /\ \/ state' = "REPLIED" /\ answered' = answered \cup q[2]
     \/ state' = "NO_REPLY" /\ UNCHANGED answered
  /\ UNCHANGED <<filename, filename_work, kind, fp, offset, vps, discarded>>

\* The request is freed without detail_send(): the listener only has its timer.
Vanish(q) ==
  /\ outstanding' = outstanding \ {q}
  /\ UNCHANGED <<filename, filename_work, kind, state, fp, offset, vps,
                 answered, misplaced, discarded>>

\* The process ends and starts again: detail_parse().
Restart ==
  /\ state' = "UNOPENED"
  /\ fp' = FALSE
  /\ offset' = 0
  /\ vps' = {}
  /\ outstanding' = {}
  /\ UNCHANGED <<filename, filename_work, kind, answered, misplaced, discarded>>

DetailInit ==
  /\ filename = <<>> /\ filename_work = <<>>
  /\ kind = [r \in Records |-> "unwritten"]
  /\ state = "UNOPENED" /\ fp = FALSE /\ offset = 0 /\ vps = {}
  /\ outstanding = {} /\ answered = {} /\ misplaced = FALSE
  /\ discarded = {}

DetailNext ==
  \/ \E r \in Records : do_detail(r)
  \/ event_poll_detail
  \/ \E q \in outstanding : detail_send(q)
  \/ \E q \in outstanding : Vanish(q)
  \/ Restart

DetailSpec == DetailInit /\ [][DetailNext]_detailVars

----------------------------------------------------------------------------
DetailTypeOK ==
  /\ filename \in Seq(Records) /\ filename_work \in Seq(Records)
  /\ kind \in [Records -> Kinds]
  /\ state \in DetailStates /\ fp \in BOOLEAN /\ offset \in Nat
  /\ vps \subseteq Records /\ answered \subseteq Records
  /\ discarded \subseteq Records
  /\ outstanding \subseteq (1..MaxCopies) \X SUBSET Records
  /\ misplaced \in BOOLEAN

OnDisk == {filename[i] : i \in DOMAIN filename}
            \cup {filename_work[i] : i \in DOMAIN filename_work}

(***************************************************************************)
(* "Open detail.work first, so we don't lose accounting packets": a        *)
(* complete record leaves the disk only after a reply to it, through any   *)
(* number of retries, crashes, failed locks and failed unlinks.  Three     *)
(* cases are beyond this code: what was not read of a file whose reading   *)
(* failed ("FIXME: Leave the file in-place, and warn the administrator?":  *)
(* it is unlinked instead; nothing but the unread records goes with it), a *)
(* reply that comes after the listener gave up on its request and went on  *)
(* to another record (detail_send() takes it for an answer to that one),   *)
(* and a header line the writer cut short.                                 *)
(***************************************************************************)
NoRecordLost ==
  \A r \in Records :
    kind[r] = "good" => \/ r \in OnDisk \cup answered \cup discarded
                        \/ misplaced
                        \/ \E q \in Records : kind[q] = "headless"

(***************************************************************************)
(* What is being sent again has been read from a work file that is still   *)
(* open, so that a crash at any point finds it again.                      *)
(***************************************************************************)
RetriedIsInWork ==
  state \in {"RUNNING", "NO_REPLY"} /\ ~misplaced =>
    /\ fp /\ vps # {}
    /\ \A r \in vps : \E i \in 1..offset : filename_work[i] = r

(***************************************************************************)
(* With polls that go on, and a server that answers a record it is sent    *)
(* again and again, every complete record is answered: "The current packet *)
(* will be sent repeatedly, at this interval, until the home server        *)
(* responds."  event_poll_detail() always puts itself back on the event    *)
(* list, which is the weak fairness.                                       *)
(***************************************************************************)
DetailFair ==
  /\ WF_detailVars(event_poll_detail)
  /\ SF_detailVars(event_poll_detail /\ fp')
  /\ SF_detailVars(event_poll_detail /\ state' = "REPLIED")
  /\ SF_detailVars(event_poll_detail /\ state = "REPLIED")
  /\ <>[][~Restart]_detailVars
DetailLive == DetailSpec /\ DetailFair
DetailIsRead ==
  \A r \in Records :
    kind[r] = "good" ~> \/ r \in answered
                        \/ misplaced
                        \/ \E q \in Records : kind[q] = "headless"

\* Every record the writer finished is read or still in a file, over crashes,
\* retries and cut records; a record that is sent again is still in the work file.
RecordsAreKept == DetailTypeOK /\ NoRecordLost /\ RetriedIsInWork

=============================================================================
