------------------------------- MODULE Transfers -------------------------------
(***************************************************************************)
(* One registered offline drive (offline_drives), the policy that covers   *)
(* the path, and the sends people ask for (transfer_requests): compare,    *)
(* record, check again, copy, record (transfer_run), on the library of     *)
(* Backup and under the same lock.                                         *)
(*                                                                         *)
(* A drive is plugged in, pulled and swapped at any moment.  What stands   *)
(* at its mount point is the drive, nothing (or the empty directory it     *)
(* left), another registered drive, or a clone that carries its marker.    *)
(*                                                                         *)
(* Left out: an installation that uses the queue and a drive at once; more *)
(* destinations, folders and policies than one; the record of what is only *)
(* at the destination; pruning; a volume identity that cannot be read.     *)
(***************************************************************************)
EXTENDS Backup

CONSTANT MaxSends       \* bound: rows of transfer_requests

ASSUME SendsAssumption == MaxSends \in Nat

Sends == 1 .. MaxSends
Policy == 0             \* a run that nobody asked for

VARIABLES
    mount,      \* what is at the drive's mount point
    presence,   \* what offline_presence says is
    held,       \* the contents at the path on the drive
    ask,        \* the state of each send, "unmade" before its INSERT
    ran,        \* the state of the newest row of backup_runs
    turn,       \* MIN_INTERVAL has passed since it was begun
    doing,      \* what the transfer is about to do
    whose,      \* the send it is doing it for
    ok,         \* how it is going
    astray,     \* its rclone has written at the mount point, and not to the drive
    moved       \* the mount point has changed under its rclone

drive == << mount, presence, held, ask, ran, turn, doing, whose, ok, astray, moved >>
vars == << bvars, drive >>

Idle == doing = "idle" /\ does = "idle"

\* What is known of a transfer ends with it
Rest ==
    /\ doing' = "idle" /\ whose' = Policy
    /\ ok' = TRUE /\ astray' = FALSE /\ moved' = FALSE

TInit ==
    /\ mount \in IF enabled THEN {"nothing"} ELSE {"nothing", "drive"}
    /\ presence = "absent"
    /\ held = Nobody
    /\ ask = [n \in Sends |-> "unmade"]
    /\ ran = "none" /\ turn = TRUE
    /\ doing = "idle" /\ whose = Policy /\ ok = TRUE
    /\ astray = FALSE /\ moved = FALSE

Init == BInit /\ TInit

------------------------------------------------------------------------------
(* Who is there.                                                             *)

\* The marker, which a clone has too
Probe ==
    CASE mount = "nothing" -> "absent"
      [] mount = "other" -> "wrong-drive"
      [] OTHER -> "present"

\* The marker and the filesystem
Look == IF mount = "clone" THEN "wrong-drive" ELSE Probe

CheckedOffline == mount = "drive"

------------------------------------------------------------------------------
(* What starts a transfer.                                                   *)

\* The page offers the drives that were there when somebody last looked, and
\* pressing twice is one request
Ask(n) ==
    /\ presence = "present" /\ owner # Nobody
    /\ \A m \in Sends : ask[m] # "requested"
    /\ ask[n] = "unmade" /\ \A m \in Sends : m < n => ask[m] # "unmade"
    /\ ask' = [ask EXCEPT ![n] = "requested"]
    /\ UNCHANGED << bvars, mount, presence, held, ran, turn, doing, whose, ok, astray, moved >>

Start(step, n) == doing' = step /\ whose' = n /\ ok' = TRUE

\* Mutant of Poll: only an arrival starts a comparison
PollArrivals ==
    /\ Idle /\ ~enabled
    /\ Probe # presence
    /\ presence' = Look
    /\ IF Look = "present" THEN Start("compare", Policy)
       ELSE UNCHANGED << doing, whose, ok >>
    /\ UNCHANGED << bvars, mount, held, ask, ran, turn, astray, moved >>


\* A drive that just arrived is compared at once, and one that was there
\* already when its turn has come
Poll ==
    /\ Idle /\ ~enabled
    /\ \/ /\ Probe = presence /\ presence = "present" /\ turn
          /\ Start("compare", Policy)
          /\ UNCHANGED presence
       \/ /\ Probe # presence
          /\ presence' = Look
          /\ IF Look = "present" THEN Start("compare", Policy)
             ELSE UNCHANGED << doing, whose, ok >>
    /\ UNCHANGED << bvars, mount, held, ask, ran, turn, astray, moved >>

Take(n) ==
    /\ Idle
    /\ ask[n] = "requested"
    /\ ask' = [ask EXCEPT ![n] = "running"]
    /\ Start("look", n)
    /\ UNCHANGED << bvars, mount, presence, held, ran, turn, astray, moved >>

LookForDrive ==
    /\ doing = "look"
    /\ presence' = Look
    /\ IF Look = "present" THEN doing' = "compare" /\ UNCHANGED ok
       ELSE doing' = "answer" /\ ok' = FALSE
    /\ UNCHANGED << bvars, mount, held, ask, ran, turn, whose, astray, moved >>

------------------------------------------------------------------------------
(* One transfer: run_scope.                                                  *)

\* By length: other bytes of the same length pass for the ones that are there
Differs ==
    CASE owner = Nobody -> {FALSE}
      [] held = Nobody -> {TRUE}
      [] held = << owner, known[owner] >> -> {FALSE}
      [] OTHER -> BOOLEAN

\* A drive nobody could look at is not a run
Compare ==
    /\ doing = "compare"
    /\ IF CheckedOffline
       THEN /\ ran' = "running" /\ turn' = FALSE
            /\ \E work \in Differs : doing' = IF work THEN "check" ELSE "close"
            /\ UNCHANGED << whose, ok, astray, moved >>
       ELSE /\ IF whose = Policy THEN Rest
               ELSE doing' = "answer" /\ ok' = FALSE /\ UNCHANGED << whose, astray, moved >>
            /\ UNCHANGED << ran, turn >>
    /\ UNCHANGED << bvars, mount, presence, held, ask >>

\* Mutant of CheckAgain: the look before the comparison is good enough
CheckOnce ==
    /\ doing = "check"
    /\ doing' = "copy"
    /\ UNCHANGED << bvars, mount, presence, held, ask, ran, turn, whose, ok, astray, moved >>

CheckAgain ==
    /\ doing = "check"
    /\ IF CheckedOffline THEN doing' = "copy" /\ UNCHANGED ok
       ELSE doing' = "close" /\ ok' = FALSE
    /\ UNCHANGED << bvars, mount, presence, held, ask, ran, turn, whose, astray, moved >>

\* rclone copies the folder as it stands on the disk, to whatever is there.  It
\* may fail before or after that
CopyOut ==
    /\ doing = "copy"
    /\ \/ /\ mount = "drive"
          /\ held' = IF here = Nobody THEN held ELSE AtPath
          /\ UNCHANGED astray
       \/ mount # "drive" /\ astray' = TRUE /\ UNCHANGED held
       \/ UNCHANGED << held, astray >>
    /\ ok' \in IF held' = held /\ astray' = astray /\ here # Nobody THEN {FALSE} ELSE BOOLEAN
    /\ doing' = "close"
    /\ UNCHANGED << bvars, mount, presence, ask, ran, turn, whose, moved >>

Close ==
    /\ doing = "close"
    /\ ran' = IF ok THEN "succeeded" ELSE "failed"
    /\ IF whose = Policy THEN Rest
       ELSE doing' = "answer" /\ UNCHANGED << whose, ok, astray, moved >>
    /\ UNCHANGED << bvars, mount, presence, held, ask, turn >>

Answer ==
    /\ doing = "answer"
    /\ ask' = [ask EXCEPT ![whose] = IF ok THEN "done" ELSE "failed"]
    /\ Rest
    /\ UNCHANGED << bvars, mount, presence, held, ran, turn >>

\* The run stays "running", and so does the send it was for
TransferDies ==
    /\ doing # "idle" /\ upsets < MaxUpsets
    /\ Rest
    /\ upsets' = upsets + 1
    /\ UNCHANGED << enabled, library, queue, tries, run, remote,
                    mount, presence, held, ask, ran, turn >>

------------------------------------------------------------------------------

Mount(m) ==
    /\ m # mount /\ ~enabled
    /\ mount' = m
    /\ moved' = (moved \/ doing = "copy")
    /\ UNCHANGED << bvars, presence, held, ask, ran, turn, doing, whose, ok, astray >>

Hour ==
    /\ ~turn
    /\ turn' = TRUE
    /\ UNCHANGED << bvars, mount, presence, held, ask, ran, doing, whose, ok, astray, moved >>

Transfer ==
    LookForDrive \/ Compare \/ CheckAgain \/ CopyOut \/ Close \/ Answer

Next ==
    \/ doing = "idle" /\ (Run \/ Decisions \/ WorkerDies) /\ UNCHANGED drive
    \/ People /\ UNCHANGED drive
    \/ \E n \in Sends : Ask(n) \/ Take(n)
    \/ Poll \/ Transfer \/ TransferDies \/ Hour
    \/ \E m \in {"nothing", "drive", "other", "clone"} : Mount(m)

\* A worker that lives goes on, and each of its cycles polls
Fairness ==
    /\ WF_vars(doing = "idle" /\ Run /\ UNCHANGED drive)
    /\ WF_vars(Transfer)
    /\ WF_vars(Poll)
    /\ WF_vars(Hour)

Spec == Init /\ [][Next]_vars /\ Fairness

------------------------------------------------------------------------------

TTypeOK ==
    /\ mount \in {"nothing", "drive", "other", "clone"}
    /\ presence \in {"absent", "present", "wrong-drive"}
    /\ held \in Requests \cup {Nobody}
    /\ ask \in [Sends -> {"unmade", "requested", "running", "done", "failed"}]
    /\ ran \in {"none", "running", "succeeded", "failed"}
    /\ doing \in {"idle", "look", "compare", "check", "copy", "close", "answer"}
    /\ whose \in Sends \cup {Policy}
    /\ turn \in BOOLEAN /\ ok \in BOOLEAN
    /\ astray \in BOOLEAN /\ moved \in BOOLEAN

\* Every variable holds what the code can put in it
TypeOK == BTypeOK /\ TTypeOK

\* Nothing is copied to a place that is not the registered drive, unless the
\* drive was pulled or swapped after the last look before the copy
OnlyOurDrive == astray => moved

\* A drive that stays plugged in is compared again and again, whoever's look
\* took its arrival and whatever killed the worker
DriveIsCompared == <>[](mount = "drive") => []<>(doing = "close")
=============================================================================
