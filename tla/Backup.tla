-------------------------------- MODULE Backup --------------------------------
(***************************************************************************)
(* The one-way backup: backup.py's queue and the worker that drains it     *)
(* through rclone, beside commits that put files into the library, undos   *)
(* that put them back, and people at the files.                            *)
(*                                                                         *)
(* One library path, and the items that have held it: two do when an       *)
(* adopted conversion keeps its original's name.  Contents are an item and *)
(* a version; an edit puts any other version in its place, an earlier one  *)
(* too.  A request is for an item and a version: the key of backup_queue.  *)
(* Each read, copy and check is a step, because people edit while rclone   *)
(* runs.                                                                   *)
(*                                                                         *)
(* Left out: schedules (every cycle is due), batches of more rows than     *)
(* there are, category selection, the snapshot of the index, and remotes   *)
(* that cannot compare contents.                                           *)
(***************************************************************************)
EXTENDS Naturals, FiniteSets

CONSTANTS
    Items,          \* items that come to hold the path
    MaxVersion,     \* bound: versions of each
    MaxEdits,       \* bound: edits
    MaxAttempts,    \* MAX_BACKUP_ATTEMPTS
    MaxUpsets       \* bound: deaths of the worker and files taken away

ASSUME BoundsAssumption == {MaxVersion, MaxEdits, MaxAttempts, MaxUpsets} \subseteq Nat

Versions == 0 .. MaxVersion
Requests == Items \X Versions
Nobody == << >>     \* no item, no contents

VARIABLES
    enabled,    \* the setting BACKUP_ENABLED
    here,       \* the item at the path
    owner,      \* the item whose row in the index is live at that path
    bytes,      \* the version each item has
    known,      \* the version its row in the index has
    lost,       \* items whose file somebody took away
    stays,      \* the item whose commit asked for a backup and that nothing has disturbed since
    queue,      \* the state of each request, "none" when there is no row
    tries,      \* its attempts
    due,        \* what this run read and has not come to
    does,       \* what the run is about to do
    with,       \* the request it is doing it with
    agrees,     \* what rclone check has said
    reverted,   \* since it said so an edit has brought the request's bytes back
    remote,     \* the contents at the path on the remote
    edits,      \* how many there have been
    upsets      \* how many accidents there have been

library == << here, owner, bytes, known, lost, stays, edits >>
run == << due, does, with, agrees, reverted >>
bvars == << enabled, library, queue, tries, run, remote, upsets >>

BInit ==
    /\ enabled \in BOOLEAN
    /\ here = Nobody /\ owner = Nobody /\ stays = Nobody /\ lost = {}
    /\ bytes = [i \in Items |-> 0]
    /\ known = [i \in Items |-> 0]
    /\ queue = [r \in Requests |-> "none"]
    /\ tries = [r \in Requests |-> 0]
    /\ due = {} /\ does = "idle" /\ with = Nobody
    /\ agrees = FALSE /\ reverted = FALSE
    /\ remote = Nobody
    /\ edits = 0 /\ upsets = 0

\* What a read of the path finds now
AtPath == IF here = Nobody THEN Nobody ELSE << here, bytes[here] >>

Pending == {"queued", "failed"}

------------------------------------------------------------------------------
(* Asking.                                                                   *)

\* Mutant of EnqueueBackupItem: what waits for older bytes is left waiting
EnqueueBesideOlder(q, r) == IF q[r] = "none" THEN [q EXCEPT ![r] = "queued"] ELSE q

\* Mutant of EnqueueBackupItem: an item that was backed up once is not asked for again
EnqueueFirstOnly(q, r) ==
    IF \E x \in Requests : x[1] = r[1] /\ q[x] # "none" THEN q ELSE [q EXCEPT ![r] = "queued"]

\* Requests for other bytes of this item that are still waiting are deleted,
\* and a row that is there already is left as it is, whatever it says
EnqueueBackupItem(q, r) ==
    [x \in Requests |->
        IF x[1] = r[1] /\ x # r /\ q[x] \in Pending THEN "none"
        ELSE IF x = r /\ q[x] = "none" THEN "queued"
        ELSE q[x]]

\* The attempts go with the row
Counted(q) == [x \in Requests |-> IF q[x] = "none" THEN 0 ELSE tries[x]]

------------------------------------------------------------------------------
(* Under the lock that a worker's cycle also holds.                          *)

Commit(i) ==
    /\ does = "idle"
    /\ here = Nobody /\ owner = Nobody /\ i \notin lost /\ known[i] = bytes[i]
    /\ here' = i /\ owner' = i /\ stays' = IF enabled THEN i ELSE Nobody
    /\ queue' = IF enabled THEN EnqueueBackupItem(queue, << i, bytes[i] >>) ELSE queue
    /\ tries' = Counted(queue')
    /\ UNCHANGED << enabled, bytes, known, lost, edits, run, remote, upsets >>

\* Quarantine, or the undo of a commit
Withdraw ==
    /\ does = "idle"
    /\ here # Nobody /\ owner = here
    /\ here' = Nobody /\ owner' = Nobody /\ stays' = Nobody
    /\ UNCHANGED << enabled, bytes, known, lost, edits, queue, tries, run, remote, upsets >>

\* An undo that brings an item back to the path asks for no backup
Restore(i) ==
    /\ does = "idle"
    /\ here = Nobody /\ owner = Nobody /\ i \notin lost /\ known[i] = bytes[i]
    /\ here' = i /\ owner' = i
    /\ UNCHANGED << enabled, bytes, known, lost, stays, edits, queue, tries, run, remote, upsets >>

------------------------------------------------------------------------------
(* A run of the queue.                                                       *)

\* Mutant of RunBegins: attempts are counted and nothing is given up
RunBeginsForever ==
    /\ does = "idle"
    /\ due' = {r \in Requests : queue[r] \in Pending /\ (r[1] \in lost => owner = r[1])}
    /\ due' # {}
    /\ does' = "next"
    /\ UNCHANGED << enabled, library, queue, tries, with, agrees, reverted, remote, upsets >>

\* _due_backups: an item that was set aside or undone is live all the same, and
\* only one that a scan has missed is not
RunBegins ==
    /\ does = "idle"
    /\ due' = {r \in Requests :
                 /\ queue[r] \in Pending /\ tries[r] < MaxAttempts
                 /\ r[1] \in lost => owner = r[1]}
    /\ due' # {}
    /\ does' = "next"
    /\ UNCHANGED << enabled, library, queue, tries, with, agrees, reverted, remote, upsets >>

GoOn(step) == does' = step /\ UNCHANGED due

\* What is written to a row that is gone changes nothing
Write(r, s) ==
    queue' = IF queue[r] = "none" THEN queue ELSE [queue EXCEPT ![r] = s]

Fail(r) ==
    /\ Write(r, "failed")
    /\ tries' = IF queue[r] = "none" THEN tries ELSE [tries EXCEPT ![r] = @ + 1]

\* The request is deleted, and whatever the path holds is asked for when the
\* index knows whose it is and agrees about the bytes
Discard(r) ==
    LET gone == [queue EXCEPT ![r] = "none"] IN
    /\ queue' = IF owner # Nobody /\ AtPath = << owner, known[owner] >>
                THEN EnqueueBackupItem(gone, AtPath) ELSE gone
    /\ tries' = Counted(queue')

HashBefore(r) ==
    /\ does = "next" /\ r \in due
    /\ due' = due \ {r}
    /\ \/ AtPath = Nobody /\ Fail(r) /\ UNCHANGED << does, with >>
       \/ AtPath \notin {Nobody, r} /\ Discard(r) /\ UNCHANGED << does, with >>
       \/ /\ AtPath = r
          /\ Write(r, "copying") /\ UNCHANGED tries
          /\ does' = "copy" /\ with' = r
    /\ UNCHANGED << enabled, library, agrees, reverted, remote, upsets >>

RunEnds ==
    /\ does = "next" /\ due = {}
    /\ does' = "idle"
    /\ UNCHANGED << enabled, library, queue, tries, due, with, agrees, reverted, remote, upsets >>

Onward == GoOn("next") /\ with' = Nobody /\ agrees' = FALSE /\ reverted' = FALSE

\* The remote's object is replaced whole or not at all
Copy ==
    /\ does = "copy"
    /\ \/ /\ AtPath # Nobody
          /\ remote' = AtPath
          /\ GoOn("check") /\ UNCHANGED << queue, tries, with, agrees, reverted >>
       \/ Fail(with) /\ Onward /\ UNCHANGED remote
    /\ UNCHANGED << enabled, library, upsets >>

Check ==
    /\ does = "check"
    /\ agrees' \in {FALSE, remote = AtPath}
    /\ GoOn("hash again")
    /\ UNCHANGED << enabled, library, queue, tries, with, reverted, remote, upsets >>

\* Mutant of HashAfter: what rclone said is believed without a second hash
HashOnce ==
    /\ does = "hash again"
    /\ \/ ~agrees /\ Fail(with)
       \/ agrees /\ Write(with, "done") /\ UNCHANGED tries
    /\ Onward
    /\ UNCHANGED << enabled, library, remote, upsets >>

HashAfter ==
    /\ does = "hash again"
    /\ \/ AtPath = Nobody /\ Fail(with)
       \/ AtPath \notin {Nobody, with} /\ Discard(with)
       \/ AtPath = with /\ ~agrees /\ Fail(with)
       \/ AtPath = with /\ agrees /\ Write(with, "done") /\ UNCHANGED tries
    /\ Onward
    /\ UNCHANGED << enabled, library, remote, upsets >>

\* It is killed, or rclone takes more than its two minutes, which nobody
\* catches.  A copy it had begun is left "copying" for good
WorkerDies ==
    /\ does # "idle" /\ upsets < MaxUpsets
    /\ due' = {} /\ does' = "idle" /\ with' = Nobody
    /\ agrees' = FALSE /\ reverted' = FALSE
    /\ upsets' = upsets + 1
    /\ UNCHANGED << enabled, library, queue, tries, remote >>

------------------------------------------------------------------------------
(* People, and scans, which take no lock.                                    *)

Edit(i) ==
    /\ i \notin lost /\ edits < MaxEdits
    /\ edits' = edits + 1
    /\ \E v \in Versions \ {bytes[i]} :
          /\ bytes' = [bytes EXCEPT ![i] = v]
          /\ reverted' = (reverted \/ (does = "hash again" /\ here = i /\ with = << i, v >>))
    /\ stays' = IF stays = i THEN Nobody ELSE stays
    /\ UNCHANGED << enabled, here, owner, known, lost, queue, tries,
                    due, does, with, agrees, remote, upsets >>

TakeAway ==
    /\ here # Nobody /\ upsets < MaxUpsets
    /\ here' = Nobody /\ stays' = Nobody /\ lost' = lost \cup {here}
    /\ upsets' = upsets + 1
    /\ UNCHANGED << enabled, owner, bytes, known, edits, queue, tries, run, remote >>

Scan ==
    /\ owner # here \/ known # bytes
    /\ owner' = here /\ known' = bytes
    /\ UNCHANGED << enabled, here, bytes, lost, stays, edits, queue, tries, run, remote, upsets >>

------------------------------------------------------------------------------

Run ==
    \/ RunBegins \/ RunEnds
    \/ \E r \in Requests : HashBefore(r)
    \/ Copy \/ Check \/ HashAfter

Decisions == Withdraw \/ \E i \in Items : Commit(i) \/ Restore(i)

People == TakeAway \/ Scan \/ \E i \in Items : Edit(i)

------------------------------------------------------------------------------
(* What the queue promises.                                                  *)

\* Every variable holds what the code can put in it
BTypeOK ==
    /\ enabled \in BOOLEAN
    /\ here \in Items \cup {Nobody}
    /\ owner \in Items \cup {Nobody}
    /\ stays \in Items \cup {Nobody}
    /\ lost \subseteq Items
    /\ bytes \in [Items -> Versions]
    /\ known \in [Items -> Versions]
    /\ queue \in [Requests -> {"none", "queued", "copying", "done", "failed"}]
    /\ tries \in [Requests -> 0 .. MaxAttempts]
    /\ due \subseteq Requests
    /\ does \in {"idle", "next", "copy", "check", "hash again"}
    /\ with \in Requests \cup {Nobody}
    /\ remote \in Requests \cup {Nobody}
    /\ agrees \in BOOLEAN /\ reverted \in BOOLEAN
    /\ edits \in 0 .. MaxEdits /\ upsets \in 0 .. MaxUpsets

\* "It is only marked done when those bytes are the ones that went up": at the
\* step that says so the remote holds them, whatever people did while rclone ran,
\* unless they brought the request's bytes back after its check and before the
\* second hash, which then finds the file as the first one did
DoneWasSent ==
    [][\A r \in Requests :
          queue[r] # "done" /\ queue'[r] = "done" => remote = r \/ reverted]_bvars

\* Of one item at most one request is waiting, so bytes that are no longer
\* there are not sent after the ones that are
OneWaiting ==
    \A r, s \in Requests :
        r[1] = s[1] /\ queue[r] \in Pending /\ queue[s] \in Pending => r = s

\* A commit that asked for a backup, and nothing that disturbs the file: the
\* request comes to rest sent, or failed for as often as it is tried, or, if there
\* has been an accident, "copying" with nobody copying it.  It is neither
\* forgotten after a failure nor tried for ever
CommittedIsSettled ==
    \A i \in Items :
        <>[](stays = i) =>
            <>[](LET r == << i, bytes[i] >> IN
                 \/ queue[r] = "done"
                 \/ queue[r] = "failed" /\ tries[r] = MaxAttempts
                 \/ queue[r] = "copying" /\ with # r /\ upsets > 0)
=============================================================================
