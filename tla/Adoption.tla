------------------------------- MODULE Adoption -------------------------------
(***************************************************************************)
(* Using a conversion: optimization_adopt and optimization_preflight, the  *)
(* adoption's way through the executor, its compensation, and the restore  *)
(* of the original (optimization_disposal, history), beside the queue of   *)
(* Optimization, which goes on meanwhile.  The worker's cycle and a commit *)
(* hold the same lock; the queue page holds none.                          *)
(*                                                                         *)
(* One plan, two operations: 1 puts the original in quarantine, 2 puts the *)
(* verified output in the library, at the same name when the conversion    *)
(* keeps the suffix (SamePath).                                            *)
(*                                                                         *)
(* The output goes to the library by a rename, or by a copy that takes its *)
(* name before the original of it is removed; operation 1's move and the   *)
(* reversals are single steps, as a rename is (FileMove has the copy).     *)
(*                                                                         *)
(* Left out: what a kill inside operation 1's records leaves (Executor has *)
(* it); a quarantine name already taken; format policy and protection; the *)
(* delete queue; History's Undo of an adoption, which asks nothing first.  *)
(***************************************************************************)
EXTENDS Optimization

CONSTANTS
    SamePath,       \* sources whose conversion keeps the suffix
    MaxPlans,       \* bound: adoptions requested
    MaxBeside       \* bound: rows, and encoders, once there is an adoption

ASSUME AdoptionAssumption ==
    SamePath \subseteq Sources /\ {MaxPlans, MaxBeside} \subseteq Nat

Foreign == MaxEncoders + 1      \* somebody else's file

VARIABLES
    place,      \* where each original is: "library", "quarantine", "beside" or "gone"
    target,     \* what is at the name its conversion goes to
    plan,       \* the status of the latest adoption of each job
    keep,       \* operation 1's src_fingerprint
    take,       \* operation 2's
    result,     \* the results of the two operations
    standing,   \* operations journalled 'ok' and not reversed
    item,       \* the row of the result: "none", "live" or "parked"
    asking,     \* the job whose preflight has passed
    cancelling, \* the job whose plan cancel_adoption has read
    act,        \* the statement the holder of the lock runs next
    on,         \* the job it is about
    bad,        \* an operation of this run did not end 'done'
    recovery,   \* plans with an adoption_recovery row
    spoiled,    \* sources to which one of three named accidents has happened
    crossed,    \* sources an adoption of which, half way, met another, found its name
                \* taken, or left its output at both names
    plans

orders == << plan, keep, take, result, standing, item, recovery >>
commit == << act, on, bad >>
avars == << place, target, orders, asking, cancelling, commit, spoiled, crossed, plans >>
vars == << ovars, avars >>

AInit ==
    /\ place = [s \in Sources |-> "library"]
    /\ target = [s \in Sources |-> None]
    /\ plan = [j \in Jobs |-> "none"]
    /\ keep = [j \in Jobs |-> 0]
    /\ take = [j \in Jobs |-> None]
    /\ result = [j \in Jobs |-> << "none", "none" >>]
    /\ standing = [j \in Jobs |-> {}]
    /\ item = [j \in Jobs |-> "none"]
    /\ asking = None /\ cancelling = None
    /\ act = "idle" /\ on = None /\ bad = FALSE
    /\ recovery = {} /\ spoiled = {} /\ crossed = {}
    /\ plans = 0

Init == OInit /\ AInit

------------------------------------------------------------------------------
(* Requesting and cancelling: the web server, without the lock.              *)

Pending(j) == plan[j] \in {"approved", "executing"}

\* job_output: the job is ready and the bytes are the ones it recorded
Resolves(j) == state[j] = "ready" /\ out[j] # None /\ staging[j] = out[j]

\* Nobody is at work, and no adoption of it waits to be taken up again
AtRest(s) ==
    act = "idle" /\ \A j \in Jobs : source[j] = s => plan[j] # "executing"

Occupied(s) == target[s] # None \/ (s \in SamePath /\ place[s] = "library")

Preflight(j) ==
    LET s == source[j] IN
    /\ asking = None /\ plans < MaxPlans
    /\ Resolves(j) /\ ~Pending(j)
    /\ place[s] = "library" /\ bytes[s] = known[s] /\ bytes[s] = made[j]
    /\ target[s] = None
    /\ asking' = j
    /\ UNCHANGED << ovars, place, target, orders, cancelling, commit, spoiled, crossed, plans >>

\* create_plan and approve_plan, one transaction
Approve ==
    /\ asking # None
    /\ LET j == asking
           s == source[j] IN
       \/ /\ Resolves(j) /\ ~Pending(j) /\ known[s] # Away
          /\ \A k \in Jobs : source[k] = s => plan[k] # "approved"
          /\ plan' = [plan EXCEPT ![j] = "approved"]
          /\ keep' = [keep EXCEPT ![j] = known[s]]
          /\ take' = [take EXCEPT ![j] = out[j]]
          /\ result' = [result EXCEPT ![j] = << "none", "none" >>]
          /\ standing' = [standing EXCEPT ![j] = {}]
          /\ recovery' = recovery \ {j}
          /\ plans' = plans + 1
          /\ crossed' = IF \E k \in Jobs : source[k] = s /\ plan[k] = "executing"
                        THEN crossed \cup {s} ELSE crossed
       \/ /\ ~Resolves(j) \/ Pending(j) \/ known[s] = Away
             \/ \E k \in Jobs : source[k] = s /\ plan[k] = "approved"
          /\ UNCHANGED << plan, keep, take, result, standing, recovery, crossed, plans >>
    /\ asking' = None
    /\ UNCHANGED << ovars, place, target, item, cancelling, commit, spoiled >>

CancelRead(j) ==
    /\ cancelling = None
    /\ plan[j] = "approved" /\ result[j] = << "none", "none" >>
    /\ cancelling' = j
    /\ UNCHANGED << ovars, place, target, orders, asking, commit, spoiled, crossed, plans >>

\* A DELETE that asks nothing again.  A journal row of the plan refuses it (a
\* foreign key); until there is one it takes the plan from under a commit
CancelDelete ==
    /\ cancelling # None
    /\ LET j == cancelling IN
       IF plan[j] = "none" \/ standing[j] # {} \/ result[j] # << "none", "none" >>
       THEN UNCHANGED << plan, spoiled >>
       ELSE /\ plan' = [plan EXCEPT ![j] = "none"]
            /\ spoiled' = IF plan[j] = "executing"
                          THEN spoiled \cup {source[j]} ELSE spoiled
    /\ cancelling' = None
    /\ UNCHANGED << ovars, place, target, keep, take, result, standing, item, recovery,
                    asking, commit, crossed, plans >>

------------------------------------------------------------------------------
(* Commit.                                                                   *)

Do(step, j) == act' = step /\ on' = j
Leave == Do("idle", None) /\ bad' = FALSE

Begin(j) ==
    /\ act = "idle" /\ pc = "idle"
    /\ plan[j] \in {"approved", "executing", "failed"}
    /\ plan' = [plan EXCEPT ![j] = "executing"]
    /\ Do(IF plan[j] = "executing" THEN "clear again" ELSE "clear", j)
    /\ UNCHANGED << ovars, place, target, keep, take, result, standing, item, recovery,
                    asking, cancelling, bad, spoiled, crossed, plans >>

\* target_is_clear: the only occupant allowed is the original itself
Clear(j) ==
    LET s == source[j] IN
    \/ ~Occupied(s)
    \/ s \in SamePath /\ place[s] = "library" /\ target[s] = None /\ bytes[s] = keep[j]

\* Asked before anything is moved.  No: the first operation is refused.  A plan
\* deleted meanwhile has nowhere to be journalled: the run raises
TargetIsClear ==
    /\ act \in {"clear", "clear again"}
    /\ \/ /\ Clear(on)
          /\ Do(IF act = "clear" THEN "preserve" ELSE "preserve again", on)
          /\ UNCHANGED << result, bad >>
       \/ /\ ~Clear(on) /\ plan[on] = "none"
          /\ Leave /\ UNCHANGED result
       \/ /\ ~Clear(on) /\ plan[on] # "none"
          /\ result' = [result EXCEPT ![on][1] = "refused"]
          /\ Do("refuse", on) /\ UNCHANGED bad
    /\ crossed' = IF act = "clear again" /\ ~Clear(on)
                  THEN crossed \cup {source[on]} ELSE crossed
    /\ UNCHANGED << ovars, place, target, plan, keep, take, standing, item, recovery,
                    asking, cancelling, spoiled, plans >>

\* ... and then the second
RefuseSecond ==
    /\ act = "refuse"
    /\ result' = [result EXCEPT ![on][2] = "refused"]
    /\ bad' = TRUE
    /\ Do("end", on)
    /\ UNCHANGED << ovars, place, target, plan, keep, take, standing, item, recovery,
                    asking, cancelling, spoiled, crossed, plans >>

\* Mutant of Refuse: what the other operation did is left as it is
RefuseOnly(n) ==
    /\ result' = [result EXCEPT ![on][n] = "refused"]
    /\ bad' = TRUE
    /\ Do("end", on)

Refuse(n) ==
    /\ result' = [result EXCEPT ![on][n] = "refused"]
    /\ bad' = TRUE
    /\ Do("put back 2", on)

\* Operation 1: the generic path, which never renumbers for an adoption
PreserveSkipped ==
    /\ act \in {"preserve", "preserve again"} /\ result[on][1] # "none"
    /\ Do("adopt", on)
    /\ UNCHANGED << ovars, place, target, orders, asking, cancelling, bad, spoiled, crossed, plans >>

PreserveMoves ==
    LET s == source[on] IN
    /\ act \in {"preserve", "preserve again"} /\ result[on][1] = "none"
    /\ place[s] = "library" /\ bytes[s] = keep[on]
    /\ place' = [place EXCEPT ![s] = "quarantine"]
    /\ Do("preserved", on)
    /\ UNCHANGED << ovars, target, orders, asking, cancelling, bad, spoiled, crossed, plans >>

\* _already_moved: an interrupted run had moved it
PreserveRecovered ==
    LET s == source[on] IN
    /\ act = "preserve again" /\ result[on][1] = "none"
    /\ place[s] = "quarantine" /\ bytes[s] = keep[on]
    /\ Do("preserved", on)
    /\ UNCHANGED << ovars, place, target, orders, asking, cancelling, bad, spoiled, crossed, plans >>

\* The source is missing or changed, or the move failed
PreserveRefused ==
    LET s == source[on] IN
    /\ act \in {"preserve", "preserve again"} /\ result[on][1] = "none"
    /\ act = "preserve again" => ~(place[s] = "quarantine" /\ bytes[s] = keep[on])
    /\ IF plan[on] = "none"
       THEN Leave /\ UNCHANGED result
       ELSE Refuse(1)
    /\ UNCHANGED << ovars, place, target, plan, keep, take, standing, item, recovery,
                    asking, cancelling, spoiled, crossed, plans >>

\* A plan deleted meanwhile has nowhere to be journalled: the run raises
PreserveRecorded ==
    LET s == source[on] IN
    /\ act = "preserved"
    /\ IF plan[on] = "none"
       THEN Leave /\ UNCHANGED << known, result, standing >>
       ELSE /\ result' = [result EXCEPT ![on][1] = "done"]
            /\ standing' = [standing EXCEPT ![on] = @ \cup {1}]
            /\ known' = [known EXCEPT ![s] = Away]
            /\ Do("adopt", on) /\ UNCHANGED bad
    /\ UNCHANGED << rows, staging, encoders, bytes, worker, web, upsets,
                    place, target, plan, keep, take, item, recovery,
                    asking, cancelling, spoiled, crossed, plans >>

\* Operation 2: the resolver, an empty destination, the move
AdoptSkipped ==
    /\ act = "adopt" /\ result[on][2] # "none"
    /\ Do("end", on)
    /\ UNCHANGED << ovars, place, target, orders, asking, cancelling, bad, spoiled, crossed, plans >>

Adoptable(j) == Resolves(j) /\ out[j] = take[j] /\ ~Occupied(source[j])

AdoptMoves ==
    /\ act = "adopt" /\ result[on][2] = "none"
    /\ Adoptable(on)
    /\ target' = [target EXCEPT ![source[on]] = take[on]]
    /\ staging' = [staging EXCEPT ![on] = None]
    /\ Do("adopted", on)
    /\ UNCHANGED << rows, encoders, bytes, known, worker, web, upsets,
                    place, orders, asking, cancelling, bad, spoiled, crossed, plans >>

\* Across filesystems: the copy takes the name, and its original is still there
AdoptLands ==
    /\ act = "adopt" /\ result[on][2] = "none"
    /\ Adoptable(on)
    /\ target' = [target EXCEPT ![source[on]] = take[on]]
    /\ Do("landed", on)
    /\ UNCHANGED << ovars, place, orders, asking, cancelling, bad, spoiled, crossed, plans >>

AdoptLeaves ==
    /\ act = "landed" /\ staging[on] # None
    /\ staging' = [staging EXCEPT ![on] = None]
    /\ Do("adopted", on)
    /\ UNCHANGED << rows, encoders, bytes, known, worker, web, upsets,
                    place, target, orders, asking, cancelling, bad, spoiled, crossed, plans >>

\* os.remove raises: the operation failed, and its output stays in the library
AdoptStays ==
    /\ act = "landed"
    /\ Refuse(2)
    /\ crossed' = crossed \cup {source[on]}
    /\ UNCHANGED << ovars, place, target, plan, keep, take, standing, item, recovery,
                    asking, cancelling, spoiled, plans >>

\* refused_source, refused_collision, or the move failed
AdoptRefused ==
    /\ act = "adopt" /\ result[on][2] = "none"
    /\ Refuse(2)
    /\ UNCHANGED << ovars, place, target, plan, keep, take, standing, item, recovery,
                    asking, cancelling, spoiled, crossed, plans >>

AdoptFinished ==
    /\ act = "adopted"
    /\ result' = [result EXCEPT ![on][2] = "done"]
    /\ Do("journal", on)
    /\ UNCHANGED << ovars, place, target, plan, keep, take, standing, item, recovery,
                    asking, cancelling, bad, spoiled, crossed, plans >>

\* Mutant of AdoptJournalled: the result is listed before it is journalled
AdoptUnjournalled ==
    /\ act = "journal"
    /\ Do("record", on)
    /\ UNCHANGED << ovars, place, target, orders, asking, cancelling, bad, spoiled, crossed, plans >>

AdoptJournalled ==
    /\ act = "journal"
    /\ standing' = [standing EXCEPT ![on] = @ \cup {2}]
    /\ Do("record", on)
    /\ UNCHANGED << ovars, place, target, plan, keep, take, result, item, recovery,
                    asking, cancelling, bad, spoiled, crossed, plans >>

\* record_result_item, which another row at that address makes raise
AdoptRecorded ==
    /\ act = "record"
    /\ \/ /\ item' = [item EXCEPT ![on] = "live"]
          /\ Do("end", on)
          /\ UNCHANGED << result, bad >>
       \/ Refuse(2) /\ UNCHANGED item
    /\ UNCHANGED << ovars, place, target, plan, keep, take, standing, recovery,
                    asking, cancelling, spoiled, crossed, plans >>

\* Mutant of End: the plan is given the word that belongs to a result
EndRefused ==
    /\ act = "end"
    /\ plan' = [plan EXCEPT ![on] = IF bad THEN "refused" ELSE "done"]
    /\ Leave
    /\ UNCHANGED << ovars, place, target, keep, take, result, standing, item, recovery,
                    asking, cancelling, spoiled, crossed, plans >>

End ==
    /\ act = "end"
    /\ plan' = [plan EXCEPT ![on] = IF bad THEN "failed" ELSE "done"]
    /\ Leave
    /\ UNCHANGED << ovars, place, target, keep, take, result, standing, item, recovery,
                    asking, cancelling, spoiled, crossed, plans >>

------------------------------------------------------------------------------
(* Reversing: _compensate_adoption newest first, and restore_original.       *)

Backing == act \in {"put back 2", "restore 2"}
Backing1 == act \in {"put back 1", "restore 1"}
After2 == IF act = "put back 2" THEN "put back 1" ELSE "restore 1"

\* Mutant of RefuseBack: a compensation that cannot go on says so to nobody
RefuseBackQuietly(next) ==
    /\ recovery' = recovery
    /\ Do(IF act \in {"put back 2", "put back 1"} THEN "end" ELSE next, on)

\* A refusal stops a compensation, with a recovery row; a restore goes on
RefuseBack(next) ==
    IF act \in {"put back 2", "put back 1"}
    THEN recovery' = recovery \cup {on} /\ Do("end", on)
    ELSE recovery' = recovery /\ Do(next, on)

Back2Skipped ==
    /\ Backing /\ 2 \notin standing[on]
    /\ Do(After2, on)
    /\ UNCHANGED << ovars, place, target, orders, asking, cancelling, bad, spoiled, crossed, plans >>

Back2Moves ==
    LET s == source[on] IN
    /\ Backing /\ 2 \in standing[on]
    /\ target[s] = take[on] /\ staging[on] = None
    /\ target' = [target EXCEPT ![s] = None]
    /\ staging' = [staging EXCEPT ![on] = take[on]]
    /\ standing' = [standing EXCEPT ![on] = @ \ {2}]
    /\ item' = [item EXCEPT ![on] = IF @ = "live" THEN "parked" ELSE @]
    /\ Do(After2, on)
    /\ UNCHANGED << rows, encoders, bytes, known, worker, web, upsets,
                    place, plan, keep, take, result, recovery,
                    asking, cancelling, bad, spoiled, crossed, plans >>

Back2Refused ==
    /\ Backing /\ 2 \in standing[on]
    /\ target[source[on]] # take[on] \/ staging[on] # None
    /\ RefuseBack("restore 1")
    /\ UNCHANGED << ovars, place, target, plan, keep, take, result, standing, item,
                    asking, cancelling, bad, spoiled, crossed, plans >>

Back1Skipped ==
    /\ Backing1 /\ 1 \notin standing[on]
    /\ IF act = "put back 1" THEN Do("end", on) ELSE Do("idle", None)
    /\ UNCHANGED << ovars, place, target, orders, asking, cancelling, bad, spoiled, crossed, plans >>

\* The generic reversal: to its old name, or beside whatever has that name
Back1Moves ==
    LET s == source[on]
        home == IF s \in SamePath /\ target[s] # None THEN "beside" ELSE "library" IN
    /\ Backing1 /\ 1 \in standing[on]
    /\ place[s] = "quarantine" /\ bytes[s] = keep[on]
    /\ place' = [place EXCEPT ![s] = home]
    /\ known' = [known EXCEPT ![s] = IF home = "library" THEN keep[on] ELSE Away]
    /\ standing' = [standing EXCEPT ![on] = @ \ {1}]
    /\ IF act = "put back 1" THEN Do("end", on) ELSE Do("idle", None)
    /\ UNCHANGED << rows, staging, encoders, bytes, worker, web, upsets,
                    target, plan, keep, take, result, item, recovery,
                    asking, cancelling, bad, spoiled, crossed, plans >>

Back1Refused ==
    LET s == source[on] IN
    /\ Backing1 /\ 1 \in standing[on]
    /\ place[s] # "quarantine" \/ bytes[s] # keep[on]
    /\ RefuseBack("idle")
    /\ UNCHANGED << ovars, place, target, plan, keep, take, result, standing, item,
                    asking, cancelling, bad, spoiled, crossed, plans >>

\* undo_preflight: both files are where the plan left them, and as it left them
Restore(j) ==
    LET s == source[j] IN
    /\ act = "idle" /\ pc = "idle"
    /\ ~Pending(j) /\ 1 \in standing[j]
    /\ place[s] = "quarantine" /\ bytes[s] = keep[j]
    /\ 2 \in standing[j] => target[s] = take[j] /\ staging[j] = None
    /\ Do("restore 2", j)
    /\ UNCHANGED << ovars, place, target, orders, asking, cancelling, bad, spoiled, crossed, plans >>

------------------------------------------------------------------------------
(* Accidents.                                                                *)

\* What a second commit of the plan takes up where the first was killed
Resumable == {"clear", "clear again", "refuse", "preserve", "preserve again", "preserved",
              "adopt", "end"}

\* The process that holds the lock dies
CommitDies ==
    /\ act # "idle" /\ upsets < MaxUpsets
    /\ spoiled' = IF act \in Resumable THEN spoiled ELSE spoiled \cup {source[on]}
    /\ Leave
    /\ upsets' = upsets + 1
    /\ UNCHANGED << rows, staging, encoders, bytes, known, worker, web,
                    place, target, orders, asking, cancelling, crossed, plans >>

\* A cycle finds the lock held: run_once raises, the worker exits
WorkerBumps ==
    /\ act # "idle" /\ phase = "up" /\ pc = "idle"
    /\ phase' = "down" /\ todo' = {} /\ owned' = None
    /\ UNCHANGED << rows, staging, encoders, bytes, known, cycle, web, upsets, avars >>

\* What a person does to the original half way through an adoption spoils it
Spoil(s) ==
    spoiled' = IF place[s] = "quarantine" /\ ~AtRest(s)
               THEN spoiled \cup {s} ELSE spoiled

EditOriginal(s) ==
    /\ place[s] # "gone"
    /\ Edit(s) /\ Spoil(s)
    /\ UNCHANGED << place, target, orders, asking, cancelling, commit, crossed, plans >>

TakeOriginal(s) ==
    /\ place[s] = "quarantine" /\ upsets < MaxUpsets
    /\ place' = [place EXCEPT ![s] = "gone"]
    /\ Spoil(s)
    /\ upsets' = upsets + 1
    /\ UNCHANGED << rows, staging, encoders, bytes, known, worker, web,
                    target, orders, asking, cancelling, commit, crossed, plans >>

DropFile(s) ==
    /\ ~Occupied(s) \/ target[s] \in Encoders
    /\ upsets < MaxUpsets
    /\ target' = [target EXCEPT ![s] = Foreign]
    /\ upsets' = upsets + 1
    /\ UNCHANGED << rows, staging, encoders, bytes, known, worker, web,
                    place, orders, asking, cancelling, commit, spoiled, crossed, plans >>

IndexLibrary(s) ==
    /\ place[s] = "library"
    /\ Index(s)
    /\ UNCHANGED avars

------------------------------------------------------------------------------

\* A crowded queue, or an adoption: not both at once
Within ==
    \/ plans = 0 /\ asking = None
    \/ \A n \in Jobs \cup Encoders : n > MaxBeside =>
          /\ n \in Jobs => state[n] = "unmade"
          /\ n \in Encoders => child[n] = "unused"

\* A source that is not in the library cannot be probed, nor be encoded
WorkerCycle ==
    /\ act = "idle"
    /\ Cycle
    /\ child' # child => place[source[at]] = "library"
    /\ UNCHANGED avars
    /\ Within'

Request ==
    \/ \E j \in Jobs : Preflight(j) \/ CancelRead(j)
    \/ Approve \/ CancelDelete

Forward ==
    \/ \E j \in Jobs : Begin(j)
    \/ TargetIsClear \/ RefuseSecond
    \/ PreserveSkipped \/ PreserveMoves \/ PreserveRecovered \/ PreserveRefused
    \/ PreserveRecorded
    \/ AdoptSkipped \/ AdoptMoves \/ AdoptLands \/ AdoptRefused
    \/ AdoptLeaves \/ AdoptStays
    \/ AdoptFinished \/ AdoptJournalled \/ AdoptRecorded
    \/ End

Backward ==
    \/ Back2Skipped \/ Back2Moves \/ Back2Refused
    \/ Back1Skipped \/ Back1Moves \/ Back1Refused
    \/ \E j \in Jobs : Restore(j)

Accident ==
    \/ CommitDies \/ WorkerBumps
    \/ \E s \in Sources : EditOriginal(s) \/ TakeOriginal(s) \/ DropFile(s) \/ IndexLibrary(s)

Next ==
    \/ (Buttons \/ Beginning \/ World) /\ UNCHANGED avars /\ Within'
    \/ WorkerCycle
    \/ Request /\ Within'
    \/ Forward \/ Backward \/ Accident

\* As Optimization: and whoever holds the lock works until it lets it go
Fairness ==
    /\ WF_vars(Beginning /\ UNCHANGED avars)
    /\ WF_vars(Poll /\ WorkerCycle)
    /\ WF_vars(WorkerCycle)
    /\ \A e \in Encoders : WF_vars(EncoderEnds(e) /\ UNCHANGED avars)
    /\ WF_vars(act # "idle" /\ (Forward \/ Backward))

Spec == Init /\ [][Next]_vars /\ Fairness

------------------------------------------------------------------------------
(* What an adoption promises.                                                *)

ATypeOK ==
    /\ place \in [Sources -> {"library", "quarantine", "beside", "gone"}]
    /\ target \in [Sources -> Encoders \cup {None, Foreign}]
    /\ plan \in [Jobs -> {"none", "approved", "executing", "done", "failed"}]
    /\ keep \in [Jobs -> Versions]
    /\ take \in [Jobs -> Encoders \cup {None}]
    /\ result \in [Jobs -> {"none", "done", "refused"} \X {"none", "done", "refused"}]
    /\ standing \in [Jobs -> SUBSET {1, 2}]
    /\ item \in [Jobs -> {"none", "live", "parked"}]
    /\ asking \in Jobs \cup {None}
    /\ cancelling \in Jobs \cup {None}
    /\ on \in Jobs \cup {None}
    /\ act \in {"idle", "clear", "clear again", "refuse", "preserve", "preserve again",
                "preserved", "adopt", "landed", "adopted", "journal", "record", "end",
                "put back 2", "put back 1", "restore 2", "restore 1"}
    /\ bad \in BOOLEAN
    /\ recovery \subseteq Jobs /\ spoiled \subseteq Sources /\ crossed \subseteq Sources
    /\ plans \in 0 .. MaxPlans

\* Every variable holds what the code can put in it
TypeOK == OTypeOK /\ ATypeOK

\* With no adoption under way, the library holds the original or the result of
\* a conversion of it, or a file somebody put in the result's place, also when
\* the adoption was killed and committed again
NeitherVersionNever ==
    \A s \in Sources \ spoiled :
        AtRest(s) =>
            place[s] \in {"library", "beside"} \/ target[s] # None

\* With no adoption under way, History and the disk agree on both operations
JournalIsDisk ==
    \A s \in Sources \ (spoiled \cup crossed) :
        AtRest(s) =>
            /\ place[s] \in {"quarantine", "gone"} <=>
                   \E j \in Jobs : source[j] = s /\ 1 \in standing[j]
            /\ target[s] \in Encoders =>
                   \E j \in Jobs : source[j] = s /\ 2 \in standing[j] /\ take[j] = target[s]
            /\ \A j \in Jobs : source[j] = s /\ 2 \in standing[j] =>
                   target[s] \in {take[j], Foreign}

\* Of an adoption that failed nothing stands, or History asks for a recovery
FailedStandsOnNothing ==
    act = "idle" =>
        \A j \in Jobs :
            plan[j] = "failed" /\ source[j] \notin spoiled \cup crossed =>
                standing[j] = {} \/ j \in recovery

\* What a ready row offers and what an adoption has put in the library is the
\* finished output of an encode of that very file, whatever was interrupted,
\* discarded or put back on the way
VerifiedOnly ==
    /\ ReadyIsItsBytes
    /\ \A s \in Sources : target[s] \in Encoders =>
          /\ child[target[s]] = "ok"
          /\ source[runs[target[s]]] = s
          /\ out[runs[target[s]]] = target[s]
=============================================================================
