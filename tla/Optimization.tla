----------------------------- MODULE Optimization -----------------------------
(***************************************************************************)
(* The conversion queue and its one encoder: optimization_queue,           *)
(* optimization_process, the worker's poll and idle slice, and the queue   *)
(* page's buttons (web/review.py).  The worker and the web server are two  *)
(* processes under one supervisor.  They share the rows and the staging    *)
(* directories and nothing else: `_OWNED`, the handle of the running       *)
(* encoder, is the worker's, and the web server's copy is always empty.    *)
(*                                                                         *)
(* Statements are steps wherever the other process can come between them.  *)
(* Bytes are versions: an edit makes a new one.  An encoder's output is    *)
(* named by the encoder: staging[j] is the one whose output stands at job  *)
(* j's path.  An encoder whose directory was removed goes on writing to a  *)
(* file that nobody can name.                                              *)
(*                                                                         *)
(* Left out: progress figures; the clock, load, disk and policy gates of   *)
(* `decide` and "Run now" (a choice to wait); protected roots; a reconcile *)
(* that raises; conversions of two kinds of one file (the live index is    *)
(* per kind and preset, and the advisor offers one kind of a file).        *)
(***************************************************************************)
EXTENDS Naturals, FiniteSets

CONSTANTS
    Sources,        \* library files somebody may ask to have converted
    MaxJobs,        \* bound: rows of optimization_jobs
    MaxEncoders,    \* bound: encoders ever started
    MaxUpsets       \* bound: deaths of a process and acts of people on files

ASSUME BoundsAssumption == {MaxJobs, MaxEncoders, MaxUpsets} \subseteq Nat
ASSUME SourcesAssumption == Sources # {}

Jobs == 1 .. MaxJobs
Encoders == 1 .. MaxEncoders
Versions == 0 .. MaxUpsets
None == 0       \* no job, no encoder
Away == MaxUpsets + 1   \* the index has no row for the file in the library

ActiveStates == {"running", "verifying"}
LiveStates == ActiveStates \cup {"queued", "waiting", "ready"}
RemovableStates == {"queued", "waiting", "stale", "failed"}
States == LiveStates \cup RemovableStates \cup {"cancelled"}

VARIABLES
    state,      \* of each row of optimization_jobs, "unmade" before its INSERT
    source,     \* the file it is about
    made,       \* the bytes it was approved for: the column `fingerprint`
    pid,        \* the encoder it records
    out,        \* the output it records: `output_fingerprint`
    staging,    \* whose output stands in its directory
    child,      \* each encoder: "unused", "running", "ok" or "error"
    runs,       \* the job it was started for
    bytes,      \* what each source holds
    known,      \* what the index believes it holds
    phase,      \* the worker: "down", "settling" (reconcile) or "up"
    todo,       \* rows reconcile has read and not yet settled
    owned,      \* `_OWNED`: the encoder this worker has the handle of
    pc,         \* what the worker's cycle is about to do
    at,         \* the job it is about
    hashed,     \* the output `_verify` has hashed
    web,        \* the button being carried out
    upsets

rows == << state, source, made, pid, out >>
encoders == << child, runs >>
cycle == << pc, at, hashed >>
worker == << phase, todo, owned, cycle >>
ovars == << rows, staging, encoders, bytes, known, worker, web, upsets >>

NoButton == [does |-> "nothing", step |-> "clear", job |-> None]

OInit ==
    /\ state = [j \in Jobs |-> "unmade"]
    /\ source = [j \in Jobs |-> CHOOSE s \in Sources : TRUE]
    /\ made = [j \in Jobs |-> 0]
    /\ pid = [j \in Jobs |-> None]
    /\ out = [j \in Jobs |-> None]
    /\ staging = [j \in Jobs |-> None]
    /\ child = [e \in Encoders |-> "unused"]
    /\ runs = [e \in Encoders |-> None]
    /\ bytes = [s \in Sources |-> 0]
    /\ known = [s \in Sources |-> 0]
    /\ phase = "down" /\ todo = {} /\ owned = None
    /\ pc = "idle" /\ at = None /\ hashed = None
    /\ web = NoButton
    /\ upsets = 0

------------------------------------------------------------------------------
(* Rows.                                                                     *)

\* Mutant of Active: a row that is being verified is not counted
ActiveRunning == {j \in Jobs : state[j] = "running"}

Active == {j \in Jobs : state[j] \in ActiveStates}
Waiting == {j \in Jobs : state[j] \in {"queued", "waiting"}}

\* idx_optimization_jobs_live: a second live row for the same file is refused
\* with an IntegrityError, so an UPDATE may not bring this row back to life
Outlived(j) ==
    /\ state[j] \notin LiveStates
    /\ \E k \in Jobs \ {j} : source[k] = source[j] /\ state[k] \in LiveStates

Fail(j) ==
    /\ staging' = [staging EXCEPT ![j] = None]
    /\ state' = [state EXCEPT ![j] = "failed"]
    /\ pid' = [pid EXCEPT ![j] = None]
    /\ UNCHANGED << source, made, out >>

WriteWaiting(j) ==
    state' = IF state[j] \in {"queued", "waiting"}
             THEN [state EXCEPT ![j] = "waiting"] ELSE state

NextJob(j) == j \in Waiting /\ \A k \in Waiting : j <= k

------------------------------------------------------------------------------
(* The queue page.                                                           *)

Enqueue(s) ==
    /\ \A j \in Jobs : source[j] = s => state[j] \notin LiveStates
    /\ \E j \in Jobs :
          /\ state[j] = "unmade"
          /\ source' = [source EXCEPT ![j] = s]
          /\ \A k \in Jobs : k < j => state[k] # "unmade"
          /\ state' = [state EXCEPT ![j] = "queued"]
          /\ made' = [made EXCEPT ![j] = known[s]]
    /\ known[s] # Away
    /\ UNCHANGED << pid, out, staging, encoders, bytes, known, worker, web, upsets >>

Remove(j) ==
    /\ state[j] \in RemovableStates
    /\ state' = [state EXCEPT ![j] = "cancelled"]
    /\ UNCHANGED << source, made, pid, out, staging, encoders, bytes, known, worker, web, upsets >>

Press(j) ==
    /\ web = NoButton
    /\ \/ /\ state[j] \in ActiveStates
          /\ web' = [does |-> "stop", step |-> "clear", job |-> j]
       \/ /\ state[j] = "ready"
          /\ web' = [does |-> "discard", step |-> "clear", job |-> j]
    /\ UNCHANGED << rows, staging, encoders, bytes, known, worker, upsets >>

\* `_OWNED.pop` finds nothing here, so there is no process to terminate
ClearStaging ==
    /\ web # NoButton /\ web.step = "clear"
    /\ staging' = [staging EXCEPT ![web.job] = None]
    /\ web' = [web EXCEPT !.step = "write"]
    /\ UNCHANGED << rows, encoders, bytes, known, worker, upsets >>

WriteCancelled ==
    /\ web # NoButton /\ web.step = "write"
    /\ state' = [state EXCEPT ![web.job] = "cancelled"]
    /\ pid' = IF web.does = "stop" THEN [pid EXCEPT ![web.job] = None] ELSE pid
    /\ web' = NoButton
    /\ UNCHANGED << source, made, out, staging, encoders, bytes, known, worker, upsets >>

------------------------------------------------------------------------------
(* The worker's cycle: poll first, and the slice only when it is idle.       *)

Reach(step, j) == pc' = step /\ at' = j
Rest == Reach("idle", None) /\ hashed' = None

Poll ==
    /\ phase = "up" /\ pc = "idle"
    /\ owned # None /\ child[owned] # "running"
    /\ owned' = None
    /\ LET j == runs[owned] IN
       \/ /\ child[owned] = "ok" /\ Outlived(j)
          /\ UNCHANGED << rows, staging, cycle >>
       \/ /\ child[owned] = "ok" /\ ~Outlived(j)
          /\ state' = [state EXCEPT ![j] = "verifying"]
          /\ Reach("verify", j)
          /\ UNCHANGED << source, made, pid, out, staging, hashed >>
       \/ /\ child[owned] = "error"
          /\ Fail(j)
          /\ UNCHANGED cycle
    /\ UNCHANGED << encoders, bytes, known, phase, todo, web, upsets >>

VerifyPasses ==
    /\ pc = "verify"
    /\ staging[at] # None /\ child[staging[at]] = "ok"
    /\ hashed' = staging[at]
    /\ Reach("record", at)
    /\ UNCHANGED << rows, staging, encoders, bytes, known, phase, todo, owned, web, upsets >>

VerifyFails ==
    /\ pc = "verify"
    /\ Fail(at)
    /\ Rest
    /\ UNCHANGED << encoders, bytes, known, phase, todo, owned, web, upsets >>

\* ffprobe timed out, or the output went while it was being read: logged by
\* the worker, and the row keeps the state it had
VerifyRaises ==
    /\ pc = "verify"
    /\ Rest
    /\ UNCHANGED << rows, staging, encoders, bytes, known, phase, todo, owned, web, upsets >>

\* Mutant of Record: it records what it finds now, and not what was verified
RecordFound ==
    /\ pc = "record"
    /\ state' = [state EXCEPT ![at] = "ready"]
    /\ out' = [out EXCEPT ![at] = staging[at]]
    /\ Rest
    /\ UNCHANGED << source, made, pid, staging, encoders, bytes, known,
                    phase, todo, owned, web, upsets >>

Record ==
    /\ pc = "record"
    /\ IF Outlived(at)
       THEN UNCHANGED << state, out >>
       ELSE /\ state' = [state EXCEPT ![at] = "ready"]
            /\ out' = [out EXCEPT ![at] = hashed]
    /\ Rest
    /\ UNCHANGED << source, made, pid, staging, encoders, bytes, known,
                    phase, todo, owned, web, upsets >>

\* next_job, decide and set_waiting, whose UPDATE asks again what it read
Decide ==
    /\ phase = "up" /\ pc = "idle"
    /\ owned # None => child[owned] = "running"
    /\ \E j \in Jobs :
       /\ NextJob(j)
       /\ \/ made[j] # known[source[j]] /\ Reach("stale", j) /\ UNCHANGED state
          \/ made[j] = known[source[j]] /\ WriteWaiting(j) /\ UNCHANGED << pc, at >>
          \/ made[j] = known[source[j]] /\ Active = {} /\ Reach("launch", j) /\ UNCHANGED state
    /\ UNCHANGED << source, made, pid, out, staging, encoders, bytes, known,
                    phase, todo, owned, hashed, web, upsets >>

MarkStale ==
    /\ pc = "stale"
    /\ state' = [state EXCEPT ![at] = "stale"]
    /\ Rest
    /\ UNCHANGED << source, made, pid, out, staging, encoders, bytes, known,
                    phase, todo, owned, web, upsets >>

\* An encoder is owned, or the source cannot be probed or converted safely
LaunchRefused ==
    /\ pc = "launch"
    /\ \/ UNCHANGED state
       \/ owned = None /\ WriteWaiting(at)
    /\ Rest
    /\ UNCHANGED << source, made, pid, out, staging, encoders, bytes, known,
                    phase, todo, owned, web, upsets >>

\* launch counts the active rows again: nobody else can have added one, and it
\* holds by what `Decide` read
Popen(e) ==
    /\ child[e] = "unused" /\ \A d \in Encoders : d < e => child[d] # "unused"
    /\ child' = [child EXCEPT ![e] = "running"]
    /\ runs' = [runs EXCEPT ![e] = at]
    /\ staging' = [staging EXCEPT ![at] = e]

LaunchRuns ==
    /\ pc = "launch" /\ owned = None
    /\ Active = {} /\ ~Outlived(at)
    /\ \E e \in Encoders :
          /\ Popen(e)
          /\ owned' = e
          /\ pid' = [pid EXCEPT ![at] = e]
    /\ state' = [state EXCEPT ![at] = "running"]
    /\ Rest
    /\ UNCHANGED << source, made, out, bytes, known, phase, todo, web, upsets >>

\* The UPDATE after Popen raises: another process wrote since the transaction
\* read (SQLITE_BUSY_SNAPSHOT), or the row has been outlived.  The encoder has
\* started, and neither the row nor `_OWNED` says so
LaunchRaises ==
    /\ pc = "launch" /\ owned = None
    /\ Active = {}
    /\ \E e \in Encoders : Popen(e)
    /\ Rest
    /\ UNCHANGED << rows, bytes, known, phase, todo, owned, web, upsets >>

------------------------------------------------------------------------------
(* Processes and files.                                                      *)

\* Mutant of Start: a worker takes up its cycle without a reconcile
StartStraight ==
    /\ phase = "down"
    /\ phase' = "up"
    /\ UNCHANGED << rows, staging, encoders, bytes, known, todo, owned, cycle, web, upsets >>

Start ==
    /\ phase = "down"
    /\ phase' = "settling" /\ todo' = Active
    /\ UNCHANGED << rows, staging, encoders, bytes, known, owned, cycle, web, upsets >>

\* Mutant of Settle: a row whose encoder is alive is left to it
SettleDead(j) ==
    /\ phase = "settling" /\ j \in todo
    /\ IF pid[j] # None /\ child[pid[j]] = "running"
       THEN UNCHANGED << rows, staging >>
       ELSE Fail(j)
    /\ todo' = todo \ {j}
    /\ UNCHANGED << encoders, bytes, known, phase, owned, cycle, web, upsets >>

\* Every active row at a start was written under another worker's token
Settle(j) ==
    /\ phase = "settling" /\ j \in todo
    /\ child' = [e \in Encoders |->
                   IF e = pid[j] /\ child[e] = "running" THEN "error" ELSE child[e]]
    /\ Fail(j)
    /\ todo' = todo \ {j}
    /\ UNCHANGED << runs, bytes, known, phase, owned, cycle, web, upsets >>

Settled ==
    /\ phase = "settling" /\ todo = {}
    /\ phase' = "up"
    /\ UNCHANGED << rows, staging, encoders, bytes, known, todo, owned, cycle, web, upsets >>

\* Its encoder lives on
WorkerDies ==
    /\ phase # "down" /\ upsets < MaxUpsets
    /\ phase' = "down" /\ todo' = {} /\ owned' = None
    /\ Rest
    /\ upsets' = upsets + 1
    /\ UNCHANGED << rows, staging, encoders, bytes, known, web >>

WebDies ==
    /\ web # NoButton /\ upsets < MaxUpsets
    /\ web' = NoButton
    /\ upsets' = upsets + 1
    /\ UNCHANGED << rows, staging, encoders, bytes, known, worker >>

EncoderEnds(e) ==
    /\ child[e] = "running"
    /\ \E r \in {"ok", "error"} : child' = [child EXCEPT ![e] = r]
    /\ UNCHANGED << rows, staging, runs, bytes, known, worker, web, upsets >>

Edit(s) ==
    /\ upsets < MaxUpsets
    /\ bytes' = [bytes EXCEPT ![s] = @ + 1]
    /\ upsets' = upsets + 1
    /\ UNCHANGED << rows, staging, encoders, known, worker, web >>

Index(s) ==
    /\ known[s] \notin {bytes[s], Away}
    /\ known' = [known EXCEPT ![s] = bytes[s]]
    /\ UNCHANGED << rows, staging, encoders, bytes, worker, web, upsets >>

------------------------------------------------------------------------------

Buttons ==
    \/ \E s \in Sources : Enqueue(s)
    \/ \E j \in Jobs : Remove(j) \/ Press(j)
    \/ ClearStaging \/ WriteCancelled

Cycle ==
    \/ Poll \/ VerifyPasses \/ VerifyFails \/ VerifyRaises \/ Record
    \/ Decide \/ MarkStale
    \/ LaunchRefused \/ LaunchRuns \/ LaunchRaises

Beginning == Start \/ (\E j \in Jobs : Settle(j)) \/ Settled

World ==
    \/ WorkerDies \/ WebDies
    \/ \E e \in Encoders : EncoderEnds(e)

Files == \E s \in Sources : Edit(s) \/ Index(s)

ONext == Buttons \/ Cycle \/ Beginning \/ World \/ Files

\* The supervisor starts a worker that died, a worker cycles for as long as it
\* lives, and an encode of a finite file ends.  Nobody has to press a button
OFairness ==
    /\ WF_ovars(Beginning)
    /\ WF_ovars(Poll)
    /\ WF_ovars(Cycle)
    /\ \A e \in Encoders : WF_ovars(EncoderEnds(e))

OSpec == OInit /\ [][ONext]_ovars /\ OFairness

------------------------------------------------------------------------------
(* What the queue promises.                                                  *)

\* Every variable holds what the code can put in it
OTypeOK ==
    /\ state \in [Jobs -> States \cup {"unmade"}]
    /\ source \in [Jobs -> Sources]
    /\ made \in [Jobs -> Versions]
    /\ pid \in [Jobs -> Encoders \cup {None}]
    /\ out \in [Jobs -> Encoders \cup {None}]
    /\ staging \in [Jobs -> Encoders \cup {None}]
    /\ child \in [Encoders -> {"unused", "running", "ok", "error"}]
    /\ runs \in [Encoders -> Jobs \cup {None}]
    /\ bytes \in [Sources -> Versions]
    /\ known \in [Sources -> Versions \cup {Away}]
    /\ phase \in {"down", "settling", "up"}
    /\ todo \subseteq Jobs
    /\ owned \in Encoders \cup {None}
    /\ pc \in {"idle", "verify", "record", "stale", "launch"}
    /\ at \in Jobs \cup {None}
    /\ hashed \in Encoders \cup {None}
    /\ web \in [does : {"nothing", "stop", "discard"}, step : {"clear", "write"},
                job : Jobs \cup {None}]
    /\ upsets \in 0 .. MaxUpsets

\* At most one row is running or verifying, whatever the web server wrote
\* between the worker's reads: MAX_CONCURRENT, which launch re-counts
OneActive ==
    \A j, k \in Jobs :
        state[j] \in ActiveStates /\ state[k] \in ActiveStates => j = k

\* Once reconcile has run, a row that says running has a worker behind it
\* that holds the handle of its encoder and will poll it
RunningIsBacked ==
    \A j \in Jobs :
        phase = "up" /\ state[j] = "running" =>
            owned # None /\ runs[owned] = j /\ pid[j] = owned

\* A ready row names the finished output of an encoder of its own, and
\* nothing else stands in its directory: an interrupted run's leftovers never
\* pass for the verified result
ReadyIsItsBytes ==
    \A j \in Jobs :
        state[j] = "ready" =>
            /\ out[j] # None /\ runs[out[j]] = j /\ child[out[j]] = "ok"
            /\ staging[j] \in {None, out[j]}

\* A row that says running stops saying so: the worker polls, or is replaced
\* and reconciles
RunningSettles == \A j \in Jobs : state[j] = "running" ~> state[j] # "running"

\* "Cancel stops the encode: SIGTERM, a bounded wait, then SIGKILL": a running
\* row that becomes cancelled has no encoder at work any more
CancelledIsStopped ==
    [][\A j \in Jobs :
         state[j] = "running" /\ state'[j] = "cancelled" =>
             \A e \in Encoders : runs[e] = j => child'[e] # "running"]_ovars
=============================================================================
