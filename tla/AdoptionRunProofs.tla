-------------------------- MODULE AdoptionRunProofs --------------------------
(***************************************************************************)
(* Proofs about what adoptions leave behind, for any number of sources,    *)
(* conversions, adoptions and kills: that the library goes without both    *)
(* versions of a file only where somebody's own file has the result's      *)
(* name, and that History says of an adoption what the disk says.          *)
(***************************************************************************)
EXTENDS AdoptionProofs

\* The holder of the lock is at work on job j
Busy(j) == act # "idle" /\ on = j

\* The original stands in quarantine, with the bytes the adoption was approved for
Own(j) == place[source[j]] = "quarantine" /\ bytes[source[j]] = keep[j]

\* What is decided of a job is decided of an output it has recorded
Made ==
    /\ \A j \in Jobs : take[j] = None =>
          /\ plan[j] = "none" /\ standing[j] = {} /\ result[j] = << "none", "none" >>
          /\ on # j
    /\ \A j \in Jobs : take[j] # None => take[j] = out[j]
    /\ asking # None => out[asking] # None

\* Its first operation has been recorded and its second has not
HalfDone(j) == result[j][1] = "done" /\ result[j][2] = "none"

\* Its first operation has been refused and its second has not been answered
HalfRefused(j) == result[j][1] = "refused" /\ result[j][2] = "none"

\* The output takes its name in the library, its original gone with it or not yet
Places == AdoptMoves \/ AdoptLands

\* What a plan's results say of it, whoever is at work
Answers(j) ==
    /\ result[j][1] = "none" => result[j][2] = "none" /\ standing[j] = {}
    /\ 2 \in standing[j] => result[j][2] # "none" /\ staging[j] = None
    /\ plan[j] \in {"done", "failed"} => result[j][1] # "none" /\ ~HalfDone(j)
    /\ plan[j] # "executing" /\ HalfRefused(j) => 1 \notin standing[j]
    /\ plan[j] = "approved" => result[j][1] = "none"

\* What keeps a request from being approved over an adoption that stands
Asked(j) ==
    asking = j =>
        /\ plan[j] # "approved"
        /\ plan[j] = "executing" =>
              /\ result[j][1] # "none" /\ ~HalfDone(j)
              /\ HalfRefused(j) => 1 \notin standing[j]
        /\ 1 \notin standing[j] \/ 2 \notin standing[j]

\* What each statement of the commit, the compensation and the restore knows
Working(j) ==
    Busy(j) =>
        /\ plan[j] = "executing" <=> act \notin {"restore 2", "restore 1"}
        /\ act = "preserved" => result[j][1] = "none" /\ Own(j)
        /\ act \in {"refuse", "adopt", "landed", "adopted", "journal", "record", "end",
                    "put back 2", "put back 1"} => result[j][1] # "none"
        /\ act = "refuse" => result[j][1] = "refused"
        /\ act = "landed" => result[j][2] = "none"
        /\ act \in {"landed", "adopted", "journal"} /\ asking = j => 1 \notin standing[j]
        /\ act \in {"adopted", "journal"} => staging[j] = None
        /\ act \in {"journal", "record"} => result[j][2] = "done"
        /\ act \in {"end", "put back 2", "put back 1"} =>
              ~HalfDone(j) /\ (HalfRefused(j) => 1 \notin standing[j])
        /\ act = "restore 2" /\ 2 \in standing[j] => 1 \in standing[j]

Local(j) == Answers(j) /\ Asked(j) /\ Working(j)

LInv == Made /\ \A j \in Jobs : source[j] \notin spoiled => Local(j)

------------------------------------------------------------------------------
(* The steps of the queue, seen from an adoption.                            *)

Beneath ==
    /\ UNCHANGED << avars, bytes >>
    /\ \A s \in Sources : known[s] = Away => known'[s] = Away

\* A job that has recorded its output is about the same file for ever, and its
\* directory is filled by nobody but a reversal
LEMMA RecordedStays ==
    ASSUME AInv, VInv, Verified, [ONext]_ovars
    PROVE  /\ \A j \in Jobs : out[j] # None =>
                  /\ out'[j] = out[j] /\ source'[j] = source[j]
                  /\ staging[j] = None => staging'[j] = None
<1>t. /\ source \in [Jobs -> Sources]
      /\ out \in [Jobs -> Encoders \cup {None}]
      /\ staging \in [Jobs -> Encoders \cup {None}]
      /\ pc # "idle" => at \in Jobs
      /\ web # NoButton => web.job \in Jobs
      /\ None \notin Jobs
  BY DEF AInv, OInv, OTypeOK, WorkerKnows, None, Jobs
<1>2. \A j \in Jobs : out[j] # None => out'[j] = out[j] /\ source'[j] = source[j]
  <2>1. CASE Record
    <3>1. out[at] = None /\ UNCHANGED source /\ \A j \in Jobs \ {at} : out'[j] = out[j]
      BY <1>t, <2>1 DEF Record, VInv, RecordedOnce
    <3> QED
      BY <3>1
  <2>2. ASSUME NEW s \in Sources, Enqueue(s)
        PROVE  \A j \in Jobs : out[j] # None => out'[j] = out[j] /\ source'[j] = source[j]
    BY <1>t, <2>2 DEF Enqueue, VInv, RecordedOnce
  <2>3. CASE UNCHANGED << out, source >>
    BY <2>3
  <2>4. Record \/ (\E s \in Sources : Enqueue(s)) \/ UNCHANGED << out, source >>
    BY DEF ONext, Buttons, Cycle, Beginning, World, Files, Remove, Press, ClearStaging,
       WriteCancelled, Poll, VerifyPasses, VerifyFails, VerifyRaises, Decide,
       MarkStale, LaunchRefused, LaunchRuns, LaunchRaises, Start, Settle, Settled, Fail,
       WorkerDies, WebDies, EncoderEnds, Edit, Index, ovars, rows
  <2> QED
    BY <2>1, <2>2, <2>3, <2>4
<1>3. \A j \in Jobs : out[j] # None /\ staging[j] = None => staging'[j] = None
  <2>1. CASE LaunchRuns \/ LaunchRaises
    <3>1. pc # "idle" /\ out[at] = None /\ \A j \in Jobs \ {at} : staging'[j] = staging[j]
      BY <1>t, <2>1 DEF LaunchRuns, LaunchRaises, Popen, VInv, RecordedOnce
    <3> QED
      BY <3>1
  <2>2. CASE UNCHANGED staging \/ \E k \in Jobs : staging' = [staging EXCEPT ![k] = None]
    BY <1>t, <2>2
  <2>3. Poll => UNCHANGED staging \/ \E k \in Jobs : staging' = [staging EXCEPT ![k] = None]
    BY DEF Poll, Fail, AInv, OInv, HandleIsActive
  <2>4. ClearStaging => \E k \in Jobs : staging' = [staging EXCEPT ![k] = None]
    BY <1>t DEF ClearStaging
  <2>5. VerifyFails => \E k \in Jobs : staging' = [staging EXCEPT ![k] = None]
    BY <1>t DEF VerifyFails, Fail
  <2>6. (\E k \in Jobs : Settle(k)) => \E k \in Jobs : staging' = [staging EXCEPT ![k] = None]
    BY DEF Settle, Fail
  <2>7. \/ LaunchRuns \/ LaunchRaises \/ Poll \/ ClearStaging \/ VerifyFails
        \/ \E k \in Jobs : Settle(k)
        \/ UNCHANGED staging
    BY DEF ONext, Buttons, Cycle, Beginning, World, Files, Enqueue, Remove, Press,
       WriteCancelled, VerifyPasses, VerifyRaises, Record, Decide, MarkStale, LaunchRefused,
       Start, Settled, WorkerDies, WebDies, EncoderEnds, Edit, Index, ovars
  <2> QED
    BY <2>1, <2>2, <2>3, <2>4, <2>5, <2>6, <2>7
<1> QED
  BY <1>2, <1>3

\* Every step is one of the queue beneath, or one of an adoption, which leaves the rows
LEMMA StepIs ==
    ASSUME AInv, [Next]_vars
    PROVE  \/ [ONext]_ovars /\ Beneath
           \/ WorkerBumps /\ Beneath /\ UNCHANGED << rows, staging >>
           \/ /\ UNCHANGED rows
              /\ \/ Request \/ Forward \/ Backward \/ CommitDies
                 \/ \E s \in Sources : EditOriginal(s) \/ TakeOriginal(s) \/ DropFile(s)
<1>1. ASSUME (Buttons \/ Beginning \/ World \/ Cycle), UNCHANGED avars
      PROVE  [ONext]_ovars /\ Beneath
  <2>1. UNCHANGED << bytes, known >>
    BY <1>1 DEF Buttons, Cycle, Beginning, World, Enqueue, Remove, Press, ClearStaging,
       WriteCancelled, Poll, VerifyPasses, VerifyFails, VerifyRaises, Record, Decide,
       MarkStale, LaunchRefused, LaunchRuns, LaunchRaises, Start, Settle, Settled,
       WorkerDies, WebDies, EncoderEnds
  <2> QED
    BY <1>1, <2>1 DEF ONext, Beneath
<1>2. ASSUME NEW s \in Sources, IndexLibrary(s)
      PROVE  [ONext]_ovars /\ Beneath
  <2>1. known \in [Sources -> Versions \cup {Away}]
    BY DEF AInv, OInv, OTypeOK
  <2>2. Index(s) /\ UNCHANGED << avars, bytes >>
    BY <1>2 DEF IndexLibrary, Index
  <2>3. \A f \in Sources : known[f] = Away => known'[f] = Away
    BY <2>1, <2>2 DEF Index
  <2> QED
    BY <2>2, <2>3 DEF ONext, Files, Beneath
<1>3. CASE UNCHANGED vars
  BY <1>3 DEF vars, Beneath, ovars
<1>4. WorkerBumps => Beneath /\ UNCHANGED << rows, staging >>
  BY DEF WorkerBumps, Beneath
<1>5. Request \/ Forward \/ Backward => UNCHANGED rows
  BY DEF Request, Preflight, Approve, CancelRead, CancelDelete, Forward, Begin, TargetIsClear,
     RefuseSecond, PreserveSkipped, PreserveMoves, PreserveRecovered, PreserveRefused,
     PreserveRecorded, AdoptSkipped, AdoptMoves, AdoptLands, AdoptLeaves, AdoptStays,
     AdoptRefused, AdoptFinished, AdoptJournalled, AdoptRecorded, End, Backward, Back2Skipped,
     Back2Moves, Back2Refused, Back1Skipped, Back1Moves, Back1Refused, Restore, ovars
<1>6. /\ CommitDies => UNCHANGED rows
      /\ \A s \in Sources : EditOriginal(s) \/ TakeOriginal(s) \/ DropFile(s) => UNCHANGED rows
  BY DEF CommitDies, EditOriginal, Edit, TakeOriginal, DropFile
<1>7. WorkerCycle => Cycle /\ UNCHANGED avars
  BY DEF WorkerCycle
<1> QED
  BY <1>1, <1>2, <1>3, <1>4, <1>5, <1>6, <1>7 DEF Next, Accident

------------------------------------------------------------------------------
(* What is decided is decided of an output.                                  *)

\* What an adoption, a compensation or a restore writes is about one job
OnlyAbout(j) ==
    /\ UNCHANGED << rows, take, asking >>
    /\ \A k \in Jobs \ {j} :
          plan'[k] = plan[k] /\ result'[k] = result[k] /\ standing'[k] = standing[k]
    /\ on' \in {on, j, None}

LEMMA MadeAbout ==
    ASSUME Made, NEW j \in Jobs, take[j] # None, OnlyAbout(j)
    PROVE  Made'
BY DEF Made, OnlyAbout, rows, None, Jobs

LEMMA ForwardAbout ==
    ASSUME AInv, act # "idle", Forward
    PROVE  on \in Jobs /\ OnlyAbout(on)
<1>t. /\ on \in Jobs
      /\ plan \in [Jobs -> {"none", "approved", "executing", "done", "failed"}]
      /\ result \in [Jobs -> {"none", "done", "refused"} \X {"none", "done", "refused"}]
      /\ standing \in [Jobs -> SUBSET {1, 2}]
  BY DEF AInv, ATypeOK, AtWork
<1> USE <1>t DEF OnlyAbout, Do, Leave, Refuse, ovars, orders, commit
<1>1. ~ \E j \in Jobs : Begin(j)
  BY DEF Begin
<1>2. CASE TargetIsClear \/ RefuseSecond \/ End
  BY <1>2 DEF TargetIsClear, RefuseSecond, End
<1>3. CASE PreserveSkipped \/ PreserveMoves \/ PreserveRecovered
  BY <1>3 DEF PreserveSkipped, PreserveMoves, PreserveRecovered
<1>4. CASE PreserveRefused \/ PreserveRecorded
  BY <1>4 DEF PreserveRefused, PreserveRecorded
<1>5. CASE \/ AdoptSkipped \/ AdoptMoves \/ AdoptLands \/ AdoptLeaves \/ AdoptStays
           \/ AdoptRefused \/ AdoptFinished
  BY <1>5 DEF AdoptSkipped, AdoptMoves, AdoptLands, AdoptLeaves, AdoptStays, AdoptRefused,
     AdoptFinished
<1>6. CASE AdoptJournalled \/ AdoptRecorded
  BY <1>6 DEF AdoptJournalled, AdoptRecorded
<1> QED
  BY <1>1, <1>2, <1>3, <1>4, <1>5, <1>6 DEF Forward

LEMMA BackwardAbout ==
    ASSUME AInv, act # "idle", Backward
    PROVE  on \in Jobs /\ OnlyAbout(on)
<1>t. on \in Jobs /\ standing \in [Jobs -> SUBSET {1, 2}]
  BY DEF AInv, ATypeOK, AtWork
<1> USE <1>t DEF OnlyAbout, Do, RefuseBack, ovars, orders, commit
<1>1. ~ \E j \in Jobs : Restore(j)
  BY DEF Restore
<1>2. CASE Back2Skipped \/ Back2Moves \/ Back2Refused
  BY <1>2 DEF Back2Skipped, Back2Moves, Back2Refused
<1>3. CASE Back1Skipped \/ Back1Moves \/ Back1Refused
  BY <1>3 DEF Back1Skipped, Back1Moves, Back1Refused
<1> QED
  BY <1>1, <1>2, <1>3 DEF Backward

LEMMA AtWorkOrBegins ==
    ASSUME Forward \/ Backward
    PROVE  act # "idle" \/ \E j \in Jobs : Begin(j) \/ Restore(j)
BY DEF Forward, TargetIsClear, RefuseSecond, PreserveSkipped, PreserveMoves, PreserveRecovered,
   PreserveRefused, PreserveRecorded, AdoptSkipped, AdoptMoves, AdoptLands, AdoptLeaves,
   AdoptStays, AdoptRefused, AdoptFinished, AdoptJournalled, AdoptRecorded, End, Backward,
   Back2Skipped, Back2Moves, Back2Refused, Back1Skipped, Back1Moves, Back1Refused, Backing,
   Backing1

LEMMA MadeStep == AInv /\ VInv /\ Verified /\ Made /\ [Next]_vars => Made'
<1> SUFFICES ASSUME AInv, VInv, Verified, Made, [Next]_vars
             PROVE  Made'
  OBVIOUS
<1>t. /\ plan \in [Jobs -> {"none", "approved", "executing", "done", "failed"}]
      /\ take \in [Jobs -> Encoders \cup {None}]
      /\ result \in [Jobs -> {"none", "done", "refused"} \X {"none", "done", "refused"}]
      /\ standing \in [Jobs -> SUBSET {1, 2}]
      /\ asking \in Jobs \cup {None} /\ cancelling \in Jobs \cup {None}
      /\ on \in Jobs \cup {None}
      /\ act # "idle" => on \in Jobs
  BY DEF AInv, ATypeOK, AtWork
<1>n. None \notin Jobs
  BY DEF None, Jobs
<1>1. CASE [ONext]_ovars /\ Beneath
  <2>1. \A j \in Jobs : out[j] # None => out'[j] = out[j]
    BY <1>1, RecordedStays
  <2> QED
    BY <1>t, <1>n, <1>1, <2>1 DEF Made, Beneath, avars, orders, commit
<1>2. CASE Beneath /\ UNCHANGED rows
  BY <1>2 DEF Made, Beneath, avars, orders, commit, rows
<1>3. ASSUME NEW j \in Jobs, Preflight(j)
      PROVE  Made'
  BY <1>3 DEF Made, Preflight, Resolves, ovars, rows, orders, commit
<1>4. CASE CancelDelete \/ \E j \in Jobs : CancelRead(j)
  BY <1>t, <1>n, <1>4 DEF Made, CancelDelete, CancelRead, ovars, rows, orders, commit
<1>5. CASE Approve
  <2>0. asking \in Jobs /\ asking' = None /\ UNCHANGED << ovars, on >>
    BY <1>5, <1>t, <1>n DEF Approve, commit
  <2>1. CASE UNCHANGED << plan, take, result, standing >>
    BY <2>0, <2>1 DEF Made, ovars, rows
  <2>2. CASE /\ plan' = [plan EXCEPT ![asking] = "approved"]
             /\ take' = [take EXCEPT ![asking] = out[asking]]
             /\ result' = [result EXCEPT ![asking] = << "none", "none" >>]
             /\ standing' = [standing EXCEPT ![asking] = {}]
    <3>1. out[asking] # None /\ take'[asking] = out[asking]
          /\ \A k \in Jobs \ {asking} : /\ plan'[k] = plan[k] /\ take'[k] = take[k]
                                        /\ result'[k] = result[k] /\ standing'[k] = standing[k]
      BY <1>t, <1>n, <2>0, <2>2 DEF Made
    <3> QED
      BY <2>0, <3>1 DEF Made, ovars, rows
  <2>3. take' = take \/ take' = [take EXCEPT ![asking] = out[asking]]
    BY <1>5 DEF Approve
  <2> QED
    BY <1>5, <2>1, <2>2 DEF Approve, orders
<1>6. ASSUME NEW j \in Jobs, Begin(j) \/ Restore(j)
      PROVE  Made'
  <2>1. take[j] # None
    BY <1>6 DEF Made, Begin, Restore
  <2>2. OnlyAbout(j)
    BY <1>6, <1>t, <1>n DEF Begin, Restore, OnlyAbout, Do, ovars, orders
  <2> QED
    BY <2>1, <2>2, MadeAbout
<1>7. CASE act # "idle" /\ (Forward \/ Backward)
  <2>1. on \in Jobs /\ OnlyAbout(on)
    BY <1>7, ForwardAbout, BackwardAbout
  <2>2. take[on] # None
    BY <2>1 DEF Made
  <2> QED
    BY <2>1, <2>2, MadeAbout
<1>8. Forward \/ Backward => act # "idle" \/ \E j \in Jobs : Begin(j) \/ Restore(j)
  BY AtWorkOrBegins
<1>9. ASSUME CommitDies \/ \E s \in Sources : EditOriginal(s) \/ TakeOriginal(s) \/ DropFile(s)
      PROVE  Made'
  BY <1>9, <1>t, <1>n DEF Made, CommitDies, Leave, Do, EditOriginal, Edit, TakeOriginal, DropFile,
     rows, orders, commit
<1> QED
  BY <1>1, <1>2, <1>3, <1>4, <1>5, <1>6, <1>7, <1>8, <1>9, StepIs DEF Request

------------------------------------------------------------------------------
(* What the results of a plan, a request and the holder of the lock say.     *)

LEMMA LocalSame ==
    ASSUME NEW j \in Jobs, Local(j),
           plan'[j] = plan[j], result'[j] = result[j], standing'[j] = standing[j],
           staging[j] = None => staging'[j] = None,
           asking' = j => asking = j,
           Busy(j)' => Busy(j) /\ act' = act /\ (act = "preserved" /\ Own(j) => Own(j)')
    PROVE  Local(j)'
<1>1. Answers(j)' /\ Asked(j)'
  BY DEF Local, Answers, Asked, HalfDone, HalfRefused
<1>2. Working(j)'
  <2> SUFFICES ASSUME Busy(j)' PROVE Working(j)'
    BY DEF Working
  <2>1. Busy(j) /\ act' = act /\ (act = "preserved" /\ Own(j) => Own(j)')
    OBVIOUS
  <2> QED
    BY <2>1 DEF Local, Working, HalfDone, HalfRefused
<1> QED
  BY <1>1, <1>2 DEF Local

\* A step about one job leaves the others what they were
LEMMA LocalOfOthers ==
    ASSUME AInv, NEW j \in Jobs, NEW k \in Jobs \ {j}, Local(k),
           OnlyAbout(j), act = "idle" \/ on = j, on' # k \/ act' = "idle",
           staging'[k] = staging[k]
    PROVE  Local(k)'
<1>1. /\ plan'[k] = plan[k] /\ result'[k] = result[k] /\ standing'[k] = standing[k]
      /\ asking' = asking
  BY DEF OnlyAbout
<1>2. ~Busy(k)'
  BY DEF Busy
<1> QED
  BY <1>1, <1>2, LocalSame

LEMMA StagingOfOthers ==
    ASSUME AInv, Forward \/ Backward, NEW k \in Jobs, k # on
    PROVE  staging'[k] = staging[k]
<1>1. staging \in [Jobs -> Encoders \cup {None}]
  BY DEF AInv, OInv, OTypeOK
<1>2. UNCHANGED staging \/ staging' = [staging EXCEPT ![on] = None]
                        \/ staging' = [staging EXCEPT ![on] = take[on]]
  BY DEF Forward, Begin, TargetIsClear, RefuseSecond, PreserveSkipped, PreserveMoves,
     PreserveRecovered, PreserveRefused, PreserveRecorded, AdoptSkipped, AdoptMoves, AdoptLands,
     AdoptLeaves, AdoptStays, AdoptRefused, AdoptFinished, AdoptJournalled, AdoptRecorded, End,
     Backward, Back2Skipped, Back2Moves, Back2Refused, Back1Skipped, Back1Moves, Back1Refused,
     Restore, ovars
<1> QED
  BY <1>1, <1>2

LEMMA FirstWritten ==
    ASSUME NEW S, NEW J, NEW r \in [J -> S \X S], NEW v \in S, NEW j \in J
    PROVE  /\ [r EXCEPT ![j][1] = v][j][1] = v
           /\ [r EXCEPT ![j][1] = v][j][2] = r[j][2]
OBVIOUS

LEMMA SecondWritten ==
    ASSUME NEW S, NEW J, NEW r \in [J -> S \X S], NEW v \in S, NEW j \in J
    PROVE  /\ [r EXCEPT ![j][2] = v][j][1] = r[j][1]
           /\ [r EXCEPT ![j][2] = v][j][2] = v
OBVIOUS

LEMMA LocalForward ==
    ASSUME AInv, act # "idle", Forward, NEW j \in Jobs, on = j, Local(j)
    PROVE  Local(j)'
<1>t. /\ on \in Jobs
      /\ plan \in [Jobs -> {"none", "approved", "executing", "done", "failed"}]
      /\ result \in [Jobs -> {"none", "done", "refused"} \X {"none", "done", "refused"}]
      /\ standing \in [Jobs -> SUBSET {1, 2}]
      /\ staging \in [Jobs -> Encoders \cup {None}]
  BY DEF AInv, ATypeOK, AtWork, OInv, OTypeOK
<1>w. ASSUME NEW v \in {"none", "done", "refused"}
      PROVE  /\ [result EXCEPT ![on][1] = v][on][1] = v
             /\ [result EXCEPT ![on][1] = v][on][2] = result[on][2]
             /\ [result EXCEPT ![on][2] = v][on][1] = result[on][1]
             /\ [result EXCEPT ![on][2] = v][on][2] = v
  BY <1>t, FirstWritten, SecondWritten
<1>b. ~ \E k \in Jobs : Begin(k)
  BY DEF Begin
<1>p. act \notin {"restore 2", "restore 1"} => plan[on] = "executing"
  BY DEF Local, Working, Busy
<1>s. place \in [Sources -> {"library", "quarantine", "beside", "gone"}] /\ source[on] \in Sources
  BY <1>t DEF AInv, ATypeOK, OInv, OTypeOK
<1> USE <1>t DEF Local, Answers, Asked, Working, Busy, HalfDone, HalfRefused, Own, Do, Leave, ovars, rows, orders, commit
<1>1. CASE TargetIsClear
  <2>0. act \in {"clear", "clear again"} /\ UNCHANGED << plan, standing, staging, asking >>
    BY <1>1 DEF TargetIsClear
  <2>1. CASE Clear(on)
    <3>1. act' \in {"preserve", "preserve again"} /\ on' = on /\ UNCHANGED result
      BY <1>1, <2>1 DEF TargetIsClear
    <3> QED
      BY <2>0, <3>1, <1>p
  <2>2. CASE ~Clear(on)
    <3>1. result' = [result EXCEPT ![on][1] = "refused"] /\ act' = "refuse" /\ on' = on
      BY <1>1, <2>0, <2>2, <1>p DEF TargetIsClear
    <3>2. result'[on][1] = "refused" /\ result'[on][2] = result[on][2]
      BY <3>1, <1>w
    <3> QED
      BY <2>0, <3>1, <3>2, <1>p
  <2> QED
    BY <2>1, <2>2
<1>1a. CASE RefuseSecond
  <2>1. /\ result'[on][1] = result[on][1] /\ result'[on][2] = "refused"
        /\ act' = "end" /\ on' = on
        /\ UNCHANGED << plan, standing, staging, asking >>
        /\ act = "refuse"
    BY <1>1a, <1>w DEF RefuseSecond
  <2> QED
    BY <2>1, <1>p
<1>2. CASE PreserveSkipped
  <2>1. /\ act \in {"preserve", "preserve again"} /\ result[on][1] # "none"
        /\ act' = "adopt" /\ on' = on
        /\ UNCHANGED << plan, result, standing, staging, asking >>
    BY <1>2 DEF PreserveSkipped
  <2> QED
    BY <2>1, <1>p
<1>3. CASE PreserveMoves
  <2>1. /\ act \in {"preserve", "preserve again"} /\ result[on][1] = "none"
        /\ place'[source[on]] = "quarantine" /\ bytes[source[on]] = keep[on]
        /\ act' = "preserved" /\ on' = on
        /\ UNCHANGED << plan, result, standing, staging, asking, source, bytes, keep >>
    BY <1>3, <1>s DEF PreserveMoves
  <2> QED
    BY <2>1, <1>p
<1>4. CASE PreserveRecovered
  <2>1. /\ act = "preserve again" /\ result[on][1] = "none"
        /\ place[source[on]] = "quarantine" /\ bytes[source[on]] = keep[on]
        /\ act' = "preserved" /\ on' = on
        /\ UNCHANGED << plan, result, standing, staging, asking, source, place, bytes, keep >>
    BY <1>4, <1>s DEF PreserveRecovered
  <2> QED
    BY <2>1, <1>p
<1>5. CASE PreserveRefused
  <2>1. plan[on] = "executing" /\ Refuse(1)
    BY <1>5, <1>p DEF PreserveRefused
  <2>2. /\ result'[on][1] = "refused" /\ result'[on][2] = result[on][2]
        /\ act' = "put back 2" /\ on' = on
        /\ UNCHANGED << plan, standing, staging, asking >>
        /\ result[on][1] = "none"
    BY <1>5, <2>1, <1>w DEF PreserveRefused, Refuse
  <2> QED
    BY <2>1, <2>2
<1>6. CASE PreserveRecorded
  <2>1. plan[on] = "executing" /\ result[on][1] = "none" /\ act = "preserved"
    BY <1>6, <1>p DEF PreserveRecorded
  <2>2. /\ result'[on][1] = "done" /\ result'[on][2] = result[on][2]
        /\ standing'[on] = standing[on] \cup {1}
        /\ act' = "adopt" /\ on' = on
        /\ UNCHANGED << plan, staging, asking >>
    BY <1>6, <2>1, <1>w DEF PreserveRecorded
  <2>3. standing[on] = {} /\ result[on][2] = "none" /\ asking # on
    BY <2>1
  <2> QED
    BY <2>1, <2>2, <2>3
<1>7. CASE AdoptSkipped
  BY <1>7 DEF AdoptSkipped
<1>8. CASE AdoptMoves
  <2>1. /\ staging'[on] = None /\ act' = "adopted" /\ on' = on
        /\ UNCHANGED << plan, result, standing, asking >>
        /\ act = "adopt" /\ result[on][2] = "none"
    BY <1>8 DEF AdoptMoves
  <2>2. asking = on => result[on][1] = "refused" /\ result[on][2] = "none"
    BY <2>1, <1>p
  <2> QED
    BY <2>1, <2>2
<1>8a. CASE AdoptLands
  <2>1. /\ act' = "landed" /\ on' = on
        /\ UNCHANGED << plan, result, standing, staging, asking >>
        /\ act = "adopt" /\ result[on][2] = "none"
    BY <1>8a DEF AdoptLands
  <2>2. asking = on => result[on][1] = "refused" /\ result[on][2] = "none"
    BY <2>1, <1>p
  <2> QED
    BY <2>1, <2>2
<1>8b. CASE AdoptLeaves
  <2>1. /\ staging'[on] = None /\ act' = "adopted" /\ on' = on
        /\ UNCHANGED << plan, result, standing, asking >>
        /\ act = "landed"
    BY <1>8b DEF AdoptLeaves
  <2> QED
    BY <2>1
<1>9. CASE AdoptStays \/ AdoptRefused
  <2>1. /\ result'[on][1] = result[on][1] /\ result'[on][2] = "refused"
        /\ act' = "put back 2" /\ on' = on
        /\ UNCHANGED << plan, standing, staging, asking >>
        /\ act \in {"landed", "adopt"}
    BY <1>9, <1>w DEF AdoptStays, AdoptRefused, Refuse
  <2> QED
    BY <2>1
<1>10. CASE AdoptFinished
  <2>1. /\ result'[on][1] = result[on][1] /\ result'[on][2] = "done"
        /\ act' = "journal" /\ on' = on
        /\ UNCHANGED << plan, standing, staging, asking >>
        /\ act = "adopted"
    BY <1>10, <1>w DEF AdoptFinished
  <2> QED
    BY <2>1
<1>11. CASE AdoptJournalled
  <2>1. /\ standing'[on] = standing[on] \cup {2}
        /\ act' = "record" /\ on' = on
        /\ UNCHANGED << plan, result, staging, asking >>
        /\ act = "journal"
    BY <1>11 DEF AdoptJournalled
  <2> QED
    BY <2>1
<1>12. CASE AdoptRecorded
  <2>1. act = "record" /\ UNCHANGED << plan, standing, staging, asking >> /\ on' = on
    BY <1>12 DEF AdoptRecorded, Refuse
  <2>2. CASE act' = "end" /\ UNCHANGED result
    BY <2>1, <2>2
  <2>3. CASE Refuse(2)
    <3>1. /\ result'[on][1] = result[on][1] /\ result'[on][2] = "refused"
          /\ act' = "put back 2"
      BY <2>3, <1>w DEF Refuse
    <3> QED
      BY <2>1, <3>1
  <2> QED
    BY <1>12, <2>2, <2>3 DEF AdoptRecorded
<1>13. CASE End
  <2>1. /\ plan'[on] \in {"failed", "done"} /\ act = "end" /\ act' = "idle"
        /\ UNCHANGED << result, standing, staging, asking >>
    BY <1>13 DEF End
  <2> QED
    BY <2>1, <1>p
<1> QED
  BY <1>1, <1>1a, <1>2, <1>3, <1>4, <1>5, <1>6, <1>7, <1>8, <1>8a, <1>8b, <1>9, <1>10, <1>11,
     <1>12, <1>13, <1>b
  DEF Forward

LEMMA LocalBackward ==
    ASSUME AInv, act # "idle", Backward, NEW j \in Jobs, on = j, Local(j)
    PROVE  Local(j)'
<1>t. /\ standing \in [Jobs -> SUBSET {1, 2}]
      /\ staging \in [Jobs -> Encoders \cup {None}]
  BY DEF AInv, ATypeOK, OInv, OTypeOK
<1>b. ~ \E k \in Jobs : Restore(k)
  BY DEF Restore
<1> USE <1>t DEF Local, Answers, Asked, Working, Busy, HalfDone, HalfRefused, Own, Do, RefuseBack, After2,
        Backing, Backing1, ovars, rows, orders, commit
<1>1. CASE Back2Skipped
  <2>1. /\ (act = "put back 2" /\ act' = "put back 1") \/ (act = "restore 2" /\ act' = "restore 1")
        /\ UNCHANGED << plan, result, standing, staging, asking >>
    BY <1>1 DEF Back2Skipped
  <2> QED
    BY <2>1
<1>2. CASE Back2Moves
  <2>1. /\ (act = "put back 2" /\ act' = "put back 1") \/ (act = "restore 2" /\ act' = "restore 1")
        /\ UNCHANGED << plan, result, asking >>
        /\ standing'[j] = standing[j] \ {2}
    BY <1>2 DEF Back2Moves
  <2> QED
    BY <2>1
<1>3. CASE Back2Refused
  <2>1. /\ (act = "put back 2" /\ act' = "end") \/ (act = "restore 2" /\ act' = "restore 1")
        /\ UNCHANGED << plan, result, standing, staging, asking >>
    BY <1>3 DEF Back2Refused
  <2> QED
    BY <2>1
<1>4. CASE Back1Skipped
  <2>1. /\ (act = "put back 1" /\ act' = "end") \/ (act = "restore 1" /\ act' = "idle")
        /\ UNCHANGED << plan, result, standing, staging, asking >>
    BY <1>4 DEF Back1Skipped
  <2> QED
    BY <2>1
<1>5. CASE Back1Moves
  <2>1. /\ (act = "put back 1" /\ act' = "end") \/ (act = "restore 1" /\ act' = "idle")
        /\ UNCHANGED << plan, result, staging, asking >>
        /\ standing'[j] = standing[j] \ {1}
    BY <1>5 DEF Back1Moves
  <2> QED
    BY <2>1
<1>6. CASE Back1Refused
  <2>1. /\ (act = "put back 1" /\ act' = "end") \/ (act = "restore 1" /\ act' = "idle")
        /\ UNCHANGED << plan, result, standing, staging, asking >>
    BY <1>6 DEF Back1Refused
  <2> QED
    BY <2>1
<1> QED
  BY <1>1, <1>2, <1>3, <1>4, <1>5, <1>6, <1>b DEF Backward

\* A commit is begun, or a restore
LEMMA LocalBegins ==
    ASSUME AInv, NEW j \in Jobs, Begin(j) \/ Restore(j), Local(j)
    PROVE  Local(j)'
<1>t. plan \in [Jobs -> {"none", "approved", "executing", "done", "failed"}]
  BY DEF AInv, ATypeOK
<1> USE <1>t DEF Local, Answers, Asked, Working, Busy, HalfDone, HalfRefused, Do, Pending, ovars, rows, orders, commit
<1>1. CASE Begin(j)
  <2>1. /\ plan[j] \in {"approved", "executing", "failed"} /\ plan'[j] = "executing"
        /\ act' \in {"clear", "clear again"}
        /\ UNCHANGED << result, standing, staging, asking >>
    BY <1>1 DEF Begin
  <2> QED
    BY <2>1
<1>2. CASE Restore(j)
  <2>1. /\ plan[j] \notin {"approved", "executing"} /\ act' = "restore 2" /\ 1 \in standing[j]
        /\ UNCHANGED << plan, result, standing, staging, asking >>
    BY <1>2 DEF Restore
  <2> QED
    BY <2>1
<1> QED
  BY <1>1, <1>2

LEMMA LocalRequested ==
    ASSUME AInv, Made, Request, NEW j \in Jobs, source[j] \notin spoiled', Local(j)
    PROVE  Local(j)'
<1>t. /\ plan \in [Jobs -> {"none", "approved", "executing", "done", "failed"}]
      /\ result \in [Jobs -> {"none", "done", "refused"} \X {"none", "done", "refused"}]
      /\ standing \in [Jobs -> SUBSET {1, 2}]
      /\ asking \in Jobs \cup {None} /\ cancelling \in Jobs \cup {None}
  BY DEF AInv, ATypeOK
<1>n. None \notin Jobs
  BY DEF None, Jobs
<1>1. ASSUME NEW k \in Jobs, Preflight(k)
      PROVE  Local(j)'
  <2>1. asking' = k /\ UNCHANGED << plan, result, standing, staging, act, on, source, place, bytes, keep >>
    BY <1>1 DEF Preflight, ovars, rows, orders, commit
  <2>2. CASE k # j
    BY <2>1, <2>2, LocalSame DEF Busy, Own
  <2>3. CASE k = j
    <3>1. plan[j] \notin {"approved", "executing"} /\ staging[j] # None
      BY <1>1, <2>3 DEF Preflight, Resolves, Pending
    <3> QED
      BY <2>1, <2>3, <3>1 DEF Local, Answers, Asked, Working, Busy, HalfDone, HalfRefused
  <2> QED
    BY <2>2, <2>3
<1>2. CASE Approve
  <2>1. /\ asking \in Jobs /\ asking' = None
        /\ UNCHANGED << staging, act, on, source, place, bytes >>
    BY <1>2, <1>t DEF Approve, ovars, rows, commit
  <2>2. CASE UNCHANGED << plan, result, standing, keep >>
    BY <2>1, <2>2, <1>n, LocalSame DEF Busy, Own
  <2>3. CASE /\ plan[asking] \notin {"approved", "executing"}
             /\ plan' = [plan EXCEPT ![asking] = "approved"]
             /\ keep' = [keep EXCEPT ![asking] = known[source[asking]]]
             /\ result' = [result EXCEPT ![asking] = << "none", "none" >>]
             /\ standing' = [standing EXCEPT ![asking] = {}]
    <3>1. CASE asking # j
      <4>1. /\ plan'[j] = plan[j] /\ result'[j] = result[j] /\ standing'[j] = standing[j]
            /\ keep'[j] = keep[j]
        BY <1>t, <2>3, <3>1 DEF AInv, ATypeOK
      <4> QED
        BY <2>1, <4>1, <1>n, LocalSame DEF Busy, Own
    <3>2. CASE asking = j
      <4>1. /\ plan'[j] = "approved" /\ result'[j][1] = "none" /\ result'[j][2] = "none"
            /\ standing'[j] = {}
        BY <1>t, <2>3, <3>2
      <4>2. Busy(j) => act \in {"restore 2", "restore 1"}
        BY <2>3, <3>2 DEF Local, Working
      <4> QED
        BY <2>1, <4>1, <4>2, <1>n DEF Local, Answers, Asked, Working, Busy, HalfDone, HalfRefused
    <3> QED
      BY <3>1, <3>2
  <2>4. UNCHANGED << plan, result, standing, keep >> \/ ~Pending(asking)
    BY <1>2 DEF Approve, orders
  <2> QED
    BY <1>2, <2>2, <2>3, <2>4 DEF Approve, Pending, orders
<1>3. ASSUME NEW k \in Jobs, CancelRead(k)
      PROVE  Local(j)'
  BY <1>3, LocalSame DEF CancelRead, Busy, Own, ovars, rows, orders, commit
<1>4. CASE CancelDelete
  <2>1. UNCHANGED << result, standing, staging, act, on, source, place, bytes, keep, asking >>
    BY <1>4 DEF CancelDelete, ovars, rows, commit
  <2>2. plan'[j] = plan[j] \/ (plan[j] # "executing" /\ plan'[j] = "none")
    BY <1>4, <1>t DEF CancelDelete
  <2>3. CASE plan'[j] = plan[j]
    BY <2>1, <2>3, LocalSame DEF Busy, Own
  <2>4. CASE plan[j] # "executing" /\ plan'[j] = "none"
    BY <2>1, <2>4 DEF Local, Answers, Asked, Working, Busy, HalfDone, HalfRefused, Own
  <2> QED
    BY <2>2, <2>3, <2>4
<1> QED
  BY <1>1, <1>2, <1>3, <1>4 DEF Request

\* An accident is not undone
LEMMA SpoiltForGood ==
    ASSUME AInv, [Next]_vars
    PROVE  spoiled \subseteq spoiled' /\ crossed \subseteq crossed'
<1>1. CASE Beneath
  BY <1>1 DEF Beneath, avars
<1>2. CASE Request
  BY <1>2 DEF Request, Preflight, Approve, CancelRead, CancelDelete
<1>3. CASE Forward
  BY <1>3 DEF Forward, Begin, TargetIsClear, RefuseSecond, PreserveSkipped, PreserveMoves,
     PreserveRecovered, PreserveRefused, PreserveRecorded, AdoptSkipped, AdoptMoves, AdoptLands,
     AdoptLeaves, AdoptStays, AdoptRefused, AdoptFinished, AdoptJournalled, AdoptRecorded, End
<1>4. CASE Backward
  BY <1>4 DEF Backward, Back2Skipped, Back2Moves, Back2Refused, Back1Skipped, Back1Moves,
     Back1Refused, Restore
<1>5. CASE CommitDies \/ \E s \in Sources : EditOriginal(s) \/ TakeOriginal(s) \/ DropFile(s)
  BY <1>5 DEF CommitDies, EditOriginal, TakeOriginal, DropFile, Spoil
<1> QED
  BY <1>1, <1>2, <1>3, <1>4, <1>5, StepIs

\* The queue's steps leave an adoption's facts, and give a job that has none no new ones
LEMMA LocalBeneath ==
    ASSUME AInv, VInv, Verified, LInv, Beneath,
           [ONext]_ovars \/ UNCHANGED << rows, staging >>,
           NEW j \in Jobs, source'[j] \notin spoiled'
    PROVE  Local(j)'
<1>1. /\ UNCHANGED << plan, result, standing, keep, place, bytes, asking, act, on, spoiled, take >>
  BY DEF Beneath, avars, orders, commit
<1>2. CASE out[j] = None
  <2>1. /\ plan[j] = "none" /\ standing[j] = {} /\ on # j /\ asking # j
        /\ result[j][1] = "none" /\ result[j][2] = "none"
    <3>1. take[j] = None /\ asking # j /\ j # None
      BY <1>2 DEF LInv, Made, None, Jobs
    <3>2. result[j] = << "none", "none" >> /\ plan[j] = "none" /\ standing[j] = {} /\ on # j
      BY <3>1 DEF LInv, Made
    <3> QED
      BY <3>1, <3>2
  <2> QED
    BY <1>1, <2>1 DEF Local, Answers, Asked, Working, Busy, HalfDone, HalfRefused
<1>3. CASE out[j] # None
  <2>1. source'[j] = source[j] /\ (staging[j] = None => staging'[j] = None)
    BY <1>3, RecordedStays DEF rows
  <2>2. Local(j)
    BY <1>1, <2>1 DEF LInv
  <2> QED
    BY <1>1, <2>1, <2>2, LocalSame DEF Busy, Own
<1> QED
  BY <1>2, <1>3

LEMMA LocalAccident ==
    ASSUME AInv, NEW j \in Jobs, Local(j), source[j] \notin spoiled',
           CommitDies \/ \E s \in Sources : EditOriginal(s) \/ TakeOriginal(s) \/ DropFile(s)
    PROVE  Local(j)'
<1>t. /\ place \in [Sources -> {"library", "quarantine", "beside", "gone"}]
      /\ bytes \in [Sources -> Versions] /\ source[j] \in Sources
  BY DEF AInv, ATypeOK, OInv, OTypeOK
<1>1. UNCHANGED << plan, result, standing, keep, asking, staging, source >>
  BY DEF CommitDies, EditOriginal, Edit, TakeOriginal, DropFile, orders, rows
<1>2. CASE CommitDies
  <2>1. act' = "idle"
    BY <1>2 DEF CommitDies, Leave, Do
  <2> QED
    BY <1>1, <2>1, LocalSame DEF Busy
<1>3. ASSUME NEW s \in Sources, EditOriginal(s) \/ TakeOriginal(s)
      PROVE  Local(j)'
  <2>1. UNCHANGED << act, on >>
    BY <1>3 DEF EditOriginal, TakeOriginal, commit
  <2>2. CASE s = source[j] /\ act # "idle" /\ place[s] = "quarantine"
    <3>1. s \in spoiled'
      BY <1>3, <2>2 DEF EditOriginal, TakeOriginal, Spoil, AtRest
    <3> QED
      BY <2>2, <3>1
  <2>3. CASE ~(s = source[j] /\ act # "idle" /\ place[s] = "quarantine")
    <3>1. /\ s # source[j] => /\ place'[source[j]] = place[source[j]]
                              /\ bytes'[source[j]] = bytes[source[j]]
      BY <1>3, <1>t DEF EditOriginal, Edit, TakeOriginal
    <3>2. Busy(j)' => Busy(j) /\ act' = act /\ (Own(j) => Own(j)')
      BY <1>1, <2>1, <2>3, <3>1 DEF Busy, Own
    <3> QED
      BY <1>1, <2>1, <3>2, LocalSame
  <2> QED
    BY <2>2, <2>3
<1>4. ASSUME NEW s \in Sources, DropFile(s)
      PROVE  Local(j)'
  <2>1. UNCHANGED << act, on, place, bytes >>
    BY <1>4 DEF DropFile, commit
  <2> QED
    BY <1>1, <2>1, LocalSame DEF Busy, Own
<1> QED
  BY <1>2, <1>3, <1>4

LEMMA LocalStep == AInv /\ VInv /\ Verified /\ LInv /\ [Next]_vars => LInv'
<1> SUFFICES ASSUME AInv, VInv, Verified, LInv, [Next]_vars
             PROVE  LInv'
  OBVIOUS
<1>1. Made'
  BY MadeStep DEF LInv
<1>2. ASSUME NEW j \in Jobs, source'[j] \notin spoiled'
      PROVE  Local(j)'
  <2>1. CASE Beneath /\ ([ONext]_ovars \/ UNCHANGED << rows, staging >>)
    BY <1>2, <2>1, LocalBeneath
  <2>2. CASE UNCHANGED rows
    <3>1. Local(j)
      BY <1>2, <2>2, SpoiltForGood DEF LInv, rows
    <3>2. source[j] \notin spoiled'
      BY <1>2, <2>2 DEF rows
    <3>3. CASE Request
      BY <3>1, <3>2, <3>3, LocalRequested DEF LInv
    <3>4. CASE act # "idle" /\ (Forward \/ Backward)
      <4>1. CASE on = j
        BY <3>1, <3>4, <4>1, LocalForward, LocalBackward
      <4>2. CASE on # j
        <5>1. on \in Jobs /\ OnlyAbout(on)
          BY <3>4, ForwardAbout, BackwardAbout
        <5>2. staging'[j] = staging[j] /\ (on' # j \/ act' = "idle")
          BY <3>4, <4>2, <5>1, StagingOfOthers DEF OnlyAbout, None, Jobs
        <5>3. j \in Jobs \ {on} /\ (act = "idle" \/ on = on)
          BY <4>2
        <5> QED
          BY <3>1, <5>1, <5>2, <5>3, LocalOfOthers
      <4> QED
        BY <4>1, <4>2
    <3>5. ASSUME NEW k \in Jobs, Begin(k) \/ Restore(k)
          PROVE  Local(j)'
      <4>1. CASE k = j
        BY <3>1, <3>5, <4>1, LocalBegins
      <4>2. CASE k # j
        <5>0. plan \in [Jobs -> {"none", "approved", "executing", "done", "failed"}]
          BY DEF AInv, ATypeOK
        <5>1. /\ act = "idle" /\ on' = k /\ UNCHANGED << staging, result, standing, asking >>
              /\ plan'[j] = plan[j]
          BY <3>5, <4>2, <5>0 DEF Begin, Restore, Do, ovars, orders
        <5>2. ~Busy(j)'
          BY <4>2, <5>1 DEF Busy
        <5> QED
          BY <3>1, <5>1, <5>2, LocalSame
      <4> QED
        BY <4>1, <4>2
    <3>6. CASE CommitDies \/ \E s \in Sources : EditOriginal(s) \/ TakeOriginal(s) \/ DropFile(s)
      BY <3>1, <3>2, <3>6, LocalAccident
    <3>7. Forward \/ Backward => act # "idle" \/ \E k \in Jobs : Begin(k) \/ Restore(k)
      BY AtWorkOrBegins
    <3> QED
      BY <2>1, <3>3, <3>4, <3>5, <3>6, <3>7, StepIs
  <2> QED
    BY <2>1, <2>2, StepIs
<1> QED
  BY <1>1, <1>2 DEF LInv

LEMMA LocalStart == Init => LInv
<1> SUFFICES ASSUME Init PROVE LInv
  OBVIOUS
<1>1. Made
  BY DEF Init, AInit, OInit, Made, None, Jobs
<1>2. \A j \in Jobs : Local(j)
  BY DEF Init, AInit, OInit, Local, Answers, Asked, Working, Busy, HalfDone, HalfRefused, None, Jobs
<1> QED
  BY <1>1, <1>2 DEF LInv

------------------------------------------------------------------------------
(* Neither version is ever nowhere.                                          *)

\* An adoption answers for an original that is in quarantine without a result
\* in its place: it has just moved it, or has recorded so, or is putting it back
Holder(j) ==
    /\ Own(j)
    /\ \/ /\ plan[j] = "executing" /\ result[j][1] = "none"
          /\ Busy(j) => act \in {"clear again", "preserve again", "preserved"}
       \/ /\ plan[j] = "executing" /\ HalfDone(j) /\ standing[j] = {1}
          /\ Busy(j) => act \in {"clear again", "preserve again", "adopt"}
       \/ /\ Busy(j) /\ standing[j] = {1}
          /\ act \in {"put back 2", "put back 1", "restore 2", "restore 1"}

Outside(s) == place[s] \notin {"library", "beside"}

\* The result is in its place, and what is done next may take it away again
InPlace(j) ==
    \/ act \in {"landed", "adopted", "journal", "record"}
    \/ act \in {"put back 2", "restore 2"} /\ 2 \in standing[j]

HeldBeside(j) == \E k \in Jobs \ {j} : source[k] = source[j] /\ Holder(k)

Answered ==
    \A s \in Sources \ spoiled :
        Outside(s) /\ target[s] = None => \E j \in Jobs : source[j] = s /\ Holder(j)

Restorable(j) ==
    Busy(j) /\ source[j] \notin spoiled /\ Outside(source[j]) =>
        /\ InPlace(j) => (Own(j) /\ 1 \in standing[j]) \/ HeldBeside(j)
        /\ act \in {"restore 2", "restore 1"} /\ asking = j /\ target[source[j]] = None =>
              HeldBeside(j)

NInv == Answered /\ \A j \in Jobs : Restorable(j)

LEMMA HolderSame ==
    ASSUME NEW j \in Jobs, Holder(j), Own(j)',
           plan'[j] = plan[j], result'[j] = result[j], standing'[j] = standing[j],
           Busy(j)' <=> Busy(j), Busy(j) => act' = act
    PROVE  Holder(j)'
BY DEF Holder, HalfDone

LEMMA HolderAtWork == ASSUME NEW j \in Jobs, Holder(j) PROVE ~AtRest(source[j])
BY DEF Holder, Busy, AtRest

\* What Commit and the reversals do to the originals
LEMMA PlacesMove ==
    ASSUME AInv, Forward \/ Backward
    PROVE  /\ UNCHANGED << bytes, keep, source >>
           /\ \A s \in Sources :
                 \/ place'[s] = place[s]
                 \/ PreserveMoves /\ s = source[on] /\ place[s] = "library"
                 \/ Back1Moves /\ s = source[on] /\ place'[s] \in {"library", "beside"}
<1>t. place \in [Sources -> {"library", "quarantine", "beside", "gone"}]
  BY DEF AInv, ATypeOK
<1>1. CASE UNCHANGED place
  <2>1. UNCHANGED << bytes, keep, source >>
    BY DEF Forward, Begin, TargetIsClear, RefuseSecond, PreserveSkipped, PreserveMoves,
       PreserveRecovered, PreserveRefused, PreserveRecorded, AdoptSkipped, AdoptMoves,
       AdoptLands, AdoptLeaves, AdoptStays, AdoptRefused, AdoptFinished, AdoptJournalled,
       AdoptRecorded, End, Backward, Back2Skipped, Back2Moves, Back2Refused, Back1Skipped,
       Back1Moves, Back1Refused, Restore, ovars, rows, orders
  <2> QED
    BY <1>1, <2>1
<1>2. CASE PreserveMoves
  BY <1>t, <1>2 DEF PreserveMoves, ovars, rows, orders
<1>3. CASE Back1Moves
  <2>1. /\ UNCHANGED << bytes, keep, source >>
        /\ \/ place' = [place EXCEPT ![source[on]] = "library"]
           \/ place' = [place EXCEPT ![source[on]] = "beside"]
    BY <1>3 DEF Back1Moves, rows
  <2> QED
    BY <1>t, <1>3, <2>1
<1>4. UNCHANGED place \/ PreserveMoves \/ Back1Moves
  BY DEF Forward, Begin, TargetIsClear, RefuseSecond, PreserveSkipped, PreserveRecovered,
     PreserveRefused, PreserveRecorded, AdoptSkipped, AdoptMoves, AdoptLands, AdoptLeaves,
     AdoptStays, AdoptRefused, AdoptFinished, AdoptJournalled, AdoptRecorded, End, Backward,
     Back2Skipped, Back2Moves, Back2Refused, Back1Skipped, Back1Refused, Restore
<1> QED
  BY <1>1, <1>2, <1>3, <1>4

LEMMA HolderOfOthers ==
    ASSUME AInv, act # "idle", Forward \/ Backward, NEW j \in Jobs, on # j, Holder(j)
    PROVE  Holder(j)' \/ ~Outside(source[j])'
<1>t. source[j] \in Sources
  BY DEF AInv, OInv, OTypeOK
<1>n. j # None
  BY DEF None, Jobs
<1>1. on \in Jobs /\ OnlyAbout(on)
  BY ForwardAbout, BackwardAbout
<1>2. /\ plan'[j] = plan[j] /\ result'[j] = result[j] /\ standing'[j] = standing[j]
      /\ ~Busy(j) /\ ~Busy(j)'
  BY <1>n, <1>1 DEF OnlyAbout, Busy
<1>3. Own(j)' \/ ~Outside(source[j])'
  BY <1>t, PlacesMove DEF Holder, Own, Outside
<1> QED
  BY <1>2, <1>3, HolderSame

LEMMA ForwardIsNotBack ==
    ASSUME act # "idle", Forward
    PROVE  act \notin {"put back 2", "put back 1", "restore 2", "restore 1"}
BY DEF Forward, Begin, TargetIsClear, RefuseSecond, PreserveSkipped, PreserveMoves,
   PreserveRecovered, PreserveRefused, PreserveRecorded, AdoptSkipped, AdoptMoves, AdoptLands,
   AdoptLeaves, AdoptStays, AdoptRefused, AdoptFinished, AdoptJournalled, AdoptRecorded, End

LEMMA HolderForward ==
    ASSUME AInv, act # "idle", Forward, NEW j \in Jobs, on = j, Local(j), Holder(j),
           target[source[j]] = None \/ source[j] \notin crossed'
    PROVE  Holder(j)' \/ Places
<1>t. /\ source[j] \in Sources
      /\ plan \in [Jobs -> {"none", "approved", "executing", "done", "failed"}]
      /\ result \in [Jobs -> {"none", "done", "refused"} \X {"none", "done", "refused"}]
      /\ standing \in [Jobs -> SUBSET {1, 2}]
  BY DEF AInv, ATypeOK, OInv, OTypeOK
<1>w. ASSUME NEW v \in {"none", "done", "refused"}
      PROVE  /\ [result EXCEPT ![j][1] = v][j][1] = v
             /\ [result EXCEPT ![j][1] = v][j][2] = result[j][2]
             /\ [result EXCEPT ![j][2] = v][j][1] = result[j][1]
             /\ [result EXCEPT ![j][2] = v][j][2] = v
  BY <1>t, FirstWritten, SecondWritten
<1>b. ~ \E k \in Jobs : Begin(k)
  BY DEF Begin
<1>o. place[source[j]] = "quarantine" /\ bytes[source[j]] = keep[j]
  BY DEF Holder, Own
<1>p. Own(j)'
  <2>1. ~PreserveMoves /\ ~Back1Moves
    BY <1>o, ForwardIsNotBack DEF PreserveMoves, Back1Moves, Backing1
  <2> QED
    BY <1>t, <1>o, <2>1, PlacesMove DEF Own
<1>a. Busy(j)
  BY DEF Busy
<1>h. \/ /\ plan[j] = "executing" /\ result[j][1] = "none"
         /\ act \in {"clear again", "preserve again", "preserved"}
      \/ /\ plan[j] = "executing" /\ HalfDone(j) /\ standing[j] = {1}
         /\ act \in {"clear again", "preserve again", "adopt"}
      \/ standing[j] = {1} /\ act \in {"put back 2", "put back 1", "restore 2", "restore 1"}
  BY <1>a DEF Holder
<1>i. result[j][1] = "none" => result[j][2] = "none" /\ standing[j] = {}
  BY DEF Local, Answers

<1> USE <1>t DEF Busy, HalfDone, Do, Leave, ovars, rows, orders, commit
<1>1. CASE TargetIsClear
  <2>0. act = "clear again"
    BY <1>1, <1>h DEF TargetIsClear
  <2>1. Clear(on)
    <3>1. CASE target[source[j]] = None
      BY <3>1, <1>o DEF Clear, Occupied
    <3>2. CASE source[j] \notin crossed'
      BY <1>1, <2>0, <3>2 DEF TargetIsClear
    <3> QED
      BY <3>1, <3>2
  <2>2. act' = "preserve again" /\ on' = on /\ UNCHANGED << plan, result, standing >>
    BY <1>1, <2>0, <2>1 DEF TargetIsClear
  <2> QED
    BY <1>p, <1>h, <2>0, <2>2 DEF Holder
<1>2. CASE PreserveSkipped
  <2>1. /\ act \in {"preserve", "preserve again"} /\ result[j][1] # "none"
        /\ act' = "adopt" /\ on' = on /\ UNCHANGED << plan, result, standing >>
    BY <1>2 DEF PreserveSkipped
  <2> QED
    BY <1>p, <1>h, <2>1 DEF Holder
<1>3. ~PreserveMoves
  BY <1>o DEF PreserveMoves
<1>4. CASE PreserveRecovered
  <2>1. /\ act = "preserve again" /\ result[j][1] = "none"
        /\ act' = "preserved" /\ on' = on /\ UNCHANGED << plan, result, standing >>
    BY <1>4 DEF PreserveRecovered
  <2> QED
    BY <1>p, <1>h, <2>1 DEF Holder
<1>5. ~PreserveRefused
  BY <1>h, <1>o DEF PreserveRefused
<1>6. CASE PreserveRecorded
  <2>1. act = "preserved" /\ plan[j] = "executing" /\ result[j][1] = "none"
    BY <1>6, <1>h DEF PreserveRecorded
  <2>2. /\ result'[j][1] = "done" /\ result'[j][2] = result[j][2]
        /\ standing'[j] = standing[j] \cup {1}
        /\ act' = "adopt" /\ on' = on /\ UNCHANGED plan
    BY <1>6, <2>1, <1>w DEF PreserveRecorded
  <2>3. standing'[j] = {1} /\ result'[j][2] = "none"
    BY <2>1, <2>2, <1>i
  <2> QED
    BY <1>p, <2>1, <2>2, <2>3 DEF Holder
<1>7. ~AdoptSkipped
  BY <1>h DEF AdoptSkipped
<1>8. CASE AdoptRefused
  <2>1. /\ act = "adopt" /\ act' = "put back 2" /\ on' = on /\ UNCHANGED standing
    BY <1>8 DEF AdoptRefused, Refuse
  <2> QED
    BY <1>p, <1>h, <2>1 DEF Holder
<1>9. ~(RefuseSecond \/ AdoptLeaves \/ AdoptStays)
  BY <1>h DEF RefuseSecond, AdoptLeaves, AdoptStays
<1>10. ~(AdoptFinished \/ AdoptJournalled \/ AdoptRecorded \/ End)
  BY <1>h DEF AdoptFinished, AdoptJournalled, AdoptRecorded, End
<1> QED
  BY <1>1, <1>2, <1>3, <1>4, <1>5, <1>6, <1>7, <1>8, <1>9, <1>10, <1>b DEF Forward, Places

LEMMA HolderBackward ==
    ASSUME AInv, act # "idle", Backward, NEW j \in Jobs, on = j, Local(j), Holder(j)
    PROVE  Holder(j)' \/ ~Outside(source[j])'
<1>t. source[j] \in Sources
  BY DEF AInv, ATypeOK, OInv, OTypeOK
<1>b. ~ \E k \in Jobs : Restore(k)
  BY DEF Restore
<1>a. Busy(j)
  BY DEF Busy
<1>o. place[source[j]] = "quarantine" /\ bytes[source[j]] = keep[j]
  BY DEF Holder, Own
<1>h. act \in {"put back 2", "put back 1", "restore 2", "restore 1"} => standing[j] = {1}
  BY <1>a DEF Holder
<1>1. CASE Back1Moves
  <2>1. place'[source[j]] \in {"library", "beside"} /\ source' = source
    <3>1. place \in [Sources -> {"library", "quarantine", "beside", "gone"}]
      BY DEF AInv, ATypeOK
    <3>2. source' = source /\ \/ place' = [place EXCEPT ![source[on]] = "library"]
                              \/ place' = [place EXCEPT ![source[on]] = "beside"]
      BY <1>1 DEF Back1Moves, rows
    <3> QED
      BY <1>t, <3>1, <3>2
  <2> QED
    BY <2>1 DEF Outside
<1>2. CASE ~Back1Moves
  <2>1. ~PreserveMoves
    BY <1>o DEF PreserveMoves
  <2>2. Own(j)'
    BY <1>2, <1>t, <1>o, <2>1, PlacesMove DEF Own
  <2>3. CASE Back2Skipped
    <3>1. /\ act' \in {"put back 1", "restore 1"} /\ on' = on
          /\ act \in {"put back 2", "restore 2"} /\ UNCHANGED standing
      BY <2>3 DEF Back2Skipped, Backing, After2, Do, orders
    <3> QED
      BY <1>h, <2>2, <3>1 DEF Holder, Busy
  <2>4. ~Back2Moves /\ ~Back2Refused
    <3>0. 2 \notin {1}
      OBVIOUS
    <3>1. Backing => 2 \notin standing[j]
      <4> SUFFICES ASSUME Backing PROVE 2 \notin standing[j]
        OBVIOUS
      <4>1. standing[j] = {1}
        BY <1>h DEF Backing
      <4> QED
        BY <3>0, <4>1
    <3> QED
      BY <3>1 DEF Back2Moves, Back2Refused
  <2>5. ~Back1Skipped /\ ~Back1Refused
    BY <1>h, <1>o DEF Back1Skipped, Back1Refused, Backing1
  <2> QED
    BY <1>2, <1>b, <2>3, <2>4, <2>5 DEF Backward
<1> QED
  BY <1>1, <1>2

LEMMA HolderBegins ==
    ASSUME AInv, NEW k \in Jobs, Begin(k) \/ Restore(k), NEW j \in Jobs, Holder(j)
    PROVE  Holder(j)'
<1>t. plan \in [Jobs -> {"none", "approved", "executing", "done", "failed"}]
  BY DEF AInv, ATypeOK
<1>1. act = "idle" /\ ~Busy(j) /\ plan[j] = "executing"
  BY DEF Begin, Restore, Holder, Busy
<1>2. /\ UNCHANGED << result, standing, place, bytes, keep, source >>
      /\ on' = k
  BY DEF Begin, Restore, Do, ovars, rows, orders
<1>3. plan'[j] = "executing"
  BY <1>t, <1>1 DEF Begin, Restore, orders
<1>4. k = j => act' = "clear again"
  BY <1>1 DEF Begin, Restore, Do, Pending
<1> QED
  BY <1>1, <1>2, <1>3, <1>4 DEF Holder, Own, HalfDone, Busy

LEMMA HolderRequested ==
    ASSUME AInv, Request, NEW j \in Jobs, source[j] \notin spoiled', Local(j), Holder(j)
    PROVE  Holder(j)' \/ (Approve /\ on = j /\ asking = j /\ act \in {"restore 2", "restore 1"})
<1>t. /\ plan \in [Jobs -> {"none", "approved", "executing", "done", "failed"}]
      /\ keep \in [Jobs -> Versions]
      /\ result \in [Jobs -> {"none", "done", "refused"} \X {"none", "done", "refused"}]
      /\ standing \in [Jobs -> SUBSET {1, 2}]
      /\ cancelling # None => cancelling \in Jobs
  BY DEF AInv, ATypeOK
<1>1. UNCHANGED << act, on, place, bytes, source >>
  BY DEF Request, Preflight, Approve, CancelRead, CancelDelete, ovars, rows, commit
<1>2. Busy(j)' <=> Busy(j)
  BY <1>1 DEF Busy
<1>3. CASE UNCHANGED << plan, keep, result, standing >>
  BY <1>1, <1>2, <1>3, HolderSame DEF Holder, Own
<1>4. CASE Approve /\ ~UNCHANGED << plan, keep, result, standing >>
  <2>1. /\ plan[asking] \notin {"approved", "executing"}
        /\ plan' = [plan EXCEPT ![asking] = "approved"]
        /\ keep' = [keep EXCEPT ![asking] = known[source[asking]]]
        /\ result' = [result EXCEPT ![asking] = << "none", "none" >>]
        /\ standing' = [standing EXCEPT ![asking] = {}]
    BY <1>4 DEF Approve, Pending, orders
  <2>2. CASE asking = j
    <3>1. on = j /\ act \in {"restore 2", "restore 1"}
      BY <2>1, <2>2 DEF Holder, Local, Working, Busy
    <3> QED
      BY <1>4, <2>2, <3>1
  <2>3. CASE asking # j
    <3>1. /\ plan'[j] = plan[j] /\ keep'[j] = keep[j] /\ result'[j] = result[j]
          /\ standing'[j] = standing[j]
      BY <1>t, <2>1, <2>3
    <3>2. Own(j)' /\ act' = act
      BY <1>1, <3>1 DEF Holder, Own
    <3> QED
      BY <1>2, <3>1, <3>2, HolderSame
  <2> QED
    BY <2>2, <2>3
<1>5. CASE CancelDelete /\ ~UNCHANGED << plan, keep, result, standing >>
  <2>1. /\ UNCHANGED << keep, result, standing >> /\ cancelling \in Jobs
        /\ plan' = [plan EXCEPT ![cancelling] = "none"] /\ standing[cancelling] = {}
        /\ plan[cancelling] = "executing" => source[cancelling] \in spoiled'
    BY <1>5, <1>t DEF CancelDelete
  <2>2. CASE cancelling = j
    BY <2>1, <2>2 DEF Holder
  <2>3. CASE cancelling # j
    <3>1. plan'[j] = plan[j]
      BY <1>t, <2>1, <2>3
    <3> QED
      BY <1>1, <1>2, <2>1, <3>1, HolderSame DEF Holder, Own
  <2> QED
    BY <2>2, <2>3
<1>6. \/ UNCHANGED << plan, keep, result, standing >>
      \/ Approve \/ CancelDelete
  BY DEF Request, Preflight, CancelRead, orders
<1> QED
  BY <1>3, <1>4, <1>5, <1>6

LEMMA HolderAccident ==
    ASSUME AInv, NEW j \in Jobs, Holder(j), source[j] \notin spoiled',
           CommitDies \/ \E s \in Sources : EditOriginal(s) \/ TakeOriginal(s) \/ DropFile(s)
    PROVE  Holder(j)'
<1>t. /\ place \in [Sources -> {"library", "quarantine", "beside", "gone"}]
      /\ bytes \in [Sources -> Versions] /\ source[j] \in Sources
  BY DEF AInv, ATypeOK, OInv, OTypeOK
<1>1. UNCHANGED << plan, result, standing, keep, source >>
  BY DEF CommitDies, EditOriginal, Edit, TakeOriginal, DropFile, orders, rows
<1>2. CASE CommitDies
  <2>1. act' = "idle" /\ UNCHANGED << place, bytes >>
    BY <1>2 DEF CommitDies, Leave, Do
  <2>2. ~Busy(j) \/ act \in Resumable
    BY <1>2 DEF CommitDies, Busy
  <2> QED
    BY <1>1, <2>1, <2>2 DEF Holder, Own, HalfDone, Busy, Resumable
<1>3. ASSUME NEW s \in Sources, EditOriginal(s) \/ TakeOriginal(s)
      PROVE  Holder(j)'
  <2>1. UNCHANGED << act, on >>
    BY <1>3 DEF EditOriginal, TakeOriginal, commit
  <2>2. s # source[j]
    <3>1. CASE s = source[j]
      <4>1. place[s] = "quarantine" /\ ~AtRest(s)
        BY <3>1, HolderAtWork DEF Holder, Own
      <4>2. s \in spoiled'
        BY <1>3, <4>1 DEF EditOriginal, TakeOriginal, Spoil
      <4> QED
        BY <3>1, <4>2
    <3> QED
      BY <3>1
  <2>3. place'[source[j]] = place[source[j]] /\ bytes'[source[j]] = bytes[source[j]]
    BY <1>3, <1>t, <2>2 DEF EditOriginal, Edit, TakeOriginal
  <2> QED
    BY <1>1, <2>1, <2>3, HolderSame DEF Holder, Own, Busy
<1>4. ASSUME NEW s \in Sources, DropFile(s)
      PROVE  Holder(j)'
  <2>1. UNCHANGED << act, on, place, bytes >>
    BY <1>4 DEF DropFile, commit
  <2> QED
    BY <1>1, <2>1, HolderSame DEF Holder, Own, Busy
<1> QED
  BY <1>2, <1>3, <1>4

LEMMA HolderBeneath ==
    ASSUME AInv, VInv, Verified, LInv, Beneath,
           [ONext]_ovars \/ UNCHANGED << rows, staging >>,
           NEW j \in Jobs, Holder(j) \/ (act # "idle" /\ on = j)
    PROVE  source'[j] = source[j] /\ (Holder(j) => Holder(j)')
<1>1. take[j] # None
  BY DEF LInv, Made, Holder, HalfDone, Busy
<1>2. out[j] # None
  BY <1>1 DEF LInv, Made
<1>3. source'[j] = source[j]
  BY <1>2, RecordedStays DEF rows
<1>4. UNCHANGED << place, bytes, plan, keep, result, standing, act, on >>
  BY DEF Beneath, avars, orders, commit
<1> QED
  BY <1>3, <1>4, HolderSame DEF Holder, Own, Busy

\* Whoever answers for an original goes on doing so until it is back, unless the
\* result is put in its place, or the job is asked for again while it is restored
LEMMA HolderStep ==
    ASSUME AInv, VInv, Verified, LInv, [Next]_vars, NEW s \in Sources, s \notin spoiled',
           NEW j \in Jobs, source[j] = s, Holder(j),
           target[s] = None \/ s \notin crossed' \/ on # j \/ act = "idle"
    PROVE  /\ source'[j] = s
           /\ \/ Holder(j)' \/ ~Outside(s)'
              \/ on = j /\ Places
              \/ Approve /\ on = j /\ asking = j /\ act \in {"restore 2", "restore 1"}
<1>1. CASE Beneath /\ ([ONext]_ovars \/ UNCHANGED << rows, staging >>)
  BY <1>1, HolderBeneath
<1>2. CASE UNCHANGED rows
  <2>1. source'[j] = s
    BY <1>2 DEF rows
  <2>2. Local(j)
    BY SpoiltForGood DEF LInv
  <2>3. CASE Request
    BY <2>1, <2>2, <2>3, HolderRequested
  <2>4. CASE act # "idle" /\ (Forward \/ Backward)
    <3>1. CASE on = j
      <4>1. target[source[j]] = None \/ source[j] \notin crossed'
        BY <2>4, <3>1
      <4>2. Holder(j)' \/ Places \/ ~Outside(source[j])'
        BY <2>2, <2>4, <3>1, <4>1, HolderForward, HolderBackward
      <4> QED
        BY <2>1, <3>1, <4>2 DEF Outside
    <3>2. CASE on # j
      <4>1. Holder(j)' \/ ~Outside(source[j])'
        BY <2>4, <3>2, HolderOfOthers
      <4> QED
        BY <2>1, <4>1 DEF Outside
    <3> QED
      BY <3>1, <3>2
  <2>5. ASSUME NEW k \in Jobs, Begin(k) \/ Restore(k)
        PROVE  Holder(j)'
    BY <2>5, HolderBegins
  <2>6. CASE CommitDies \/ \E x \in Sources : EditOriginal(x) \/ TakeOriginal(x) \/ DropFile(x)
    BY <2>1, <2>6, HolderAccident
  <2>7. Forward \/ Backward => act # "idle" \/ \E k \in Jobs : Begin(k) \/ Restore(k)
    BY AtWorkOrBegins
  <2> QED
    BY <1>1, <2>1, <2>3, <2>4, <2>5, <2>6, <2>7, StepIs
<1> QED
  BY <1>1, <1>2, StepIs

\* Another job that answers for an original is not disturbed by the one at work
LEMMA BesideStep ==
    ASSUME AInv, VInv, Verified, LInv, [Next]_vars, NEW s \in Sources, s \notin spoiled',
           NEW j \in Jobs, source[j] = s, source'[j] = s,
           act = "idle" \/ on = j, Outside(s)', HeldBeside(j)
    PROVE  HeldBeside(j)'
<1>1. PICK k \in Jobs \ {j} : source[k] = source[j] /\ Holder(k)
  BY DEF HeldBeside
<1>2. on # k \/ act = "idle"
  BY <1>1
<1>3. ~(on = k /\ Places) /\ ~(on = k /\ act \in {"restore 2", "restore 1"})
  BY <1>2 DEF Places, AdoptMoves, AdoptLands
<1>4. source'[k] = s /\ Holder(k)'
  BY <1>1, <1>2, <1>3, HolderStep
<1> QED
  BY <1>1, <1>4 DEF HeldBeside

\* An original leaves the library by Commit's hand, and nobody else's
LEMMA OnlyCommitTakes ==
    ASSUME AInv, [Next]_vars, NEW s \in Sources, ~Outside(s), Outside(s)'
    PROVE  PreserveMoves /\ source[on] = s
<1>t. place \in [Sources -> {"library", "quarantine", "beside", "gone"}]
  BY DEF AInv, ATypeOK
<1>1. CASE Beneath \/ Request \/ CommitDies
  <2>1. UNCHANGED place
    BY <1>1 DEF Beneath, avars, Request, Preflight, Approve, CancelRead, CancelDelete, CommitDies
  <2> QED
    BY <2>1 DEF Outside
<1>2. CASE Forward \/ Backward
  BY <1>2, PlacesMove DEF Outside
<1>3. ASSUME NEW x \in Sources, EditOriginal(x) \/ TakeOriginal(x) \/ DropFile(x)
      PROVE  FALSE
  BY <1>3, <1>t DEF EditOriginal, TakeOriginal, DropFile, Outside
<1> QED
  BY <1>1, <1>2, <1>3, StepIs

\* A file leaves a result's place by a reversal's hand, and nobody else's
LEMMA OnlyReversalClears ==
    ASSUME AInv, Made, [Next]_vars, NEW s \in Sources, target[s] # None, target'[s] = None
    PROVE  Back2Moves /\ source[on] = s
<1>t. /\ target \in [Sources -> Encoders \cup {None, Foreign}]
      /\ act # "idle" => on \in Jobs /\ source[on] \in Sources
  BY DEF AInv, ATypeOK, AtWork, OInv, OTypeOK
<1>1. CASE Beneath \/ Request \/ CommitDies
  BY <1>1 DEF Beneath, avars, Request, Preflight, Approve, CancelRead, CancelDelete, CommitDies
<1>2. CASE Places
  <2>1. /\ act # "idle" /\ target' = [target EXCEPT ![source[on]] = take[on]]
    BY <1>2 DEF Places, AdoptMoves, AdoptLands
  <2>2. take[on] # None
    BY <1>t, <2>1 DEF Made
  <2> QED
    BY <1>t, <2>1, <2>2
<1>3. CASE Back2Moves
  BY <1>t, <1>3 DEF Back2Moves
<1>4. CASE Forward \/ Backward
  <2>1. UNCHANGED target \/ Places \/ Back2Moves
    BY <1>4 DEF Places, Forward, Begin, TargetIsClear, RefuseSecond, PreserveSkipped, PreserveMoves,
       PreserveRecovered, PreserveRefused, PreserveRecorded, AdoptSkipped, AdoptLands,
       AdoptLeaves, AdoptStays, AdoptRefused, AdoptFinished, AdoptJournalled, AdoptRecorded,
       End, Backward, Back2Skipped, Back2Refused, Back1Skipped, Back1Moves, Back1Refused,
       Restore
  <2> QED
    BY <1>2, <1>3, <2>1
<1>5. ASSUME NEW x \in Sources, EditOriginal(x) \/ TakeOriginal(x) \/ DropFile(x)
      PROVE  FALSE
  <2>1. UNCHANGED target \/ target' = [target EXCEPT ![x] = Foreign]
    BY <1>5 DEF EditOriginal, TakeOriginal, DropFile
  <2>2. Foreign # None
    BY BoundsAssumption DEF Foreign, None
  <2> QED
    BY <1>t, <2>1, <2>2
<1> QED
  BY <1>1, <1>4, <1>5, StepIs

\* Who moves an original to quarantine answers for it
LEMMA HolderComes ==
    ASSUME AInv, LInv, NEW s \in Sources, s \notin spoiled, PreserveMoves, source[on] = s
    PROVE  \E j \in Jobs : source'[j] = s /\ Holder(j)'
<1>t. /\ act # "idle" => on \in Jobs
      /\ place \in [Sources -> {"library", "quarantine", "beside", "gone"}]
  BY DEF AInv, ATypeOK, AtWork
<1>1. /\ on \in Jobs /\ act \in {"preserve", "preserve again"} /\ result[on][1] = "none"
      /\ place' = [place EXCEPT ![s] = "quarantine"] /\ bytes[s] = keep[on]
      /\ act' = "preserved" /\ on' = on
      /\ UNCHANGED << source, plan, result, bytes, keep >>
  BY <1>t DEF PreserveMoves, Do, ovars, rows, orders
<1>2. plan[on] = "executing"
  BY <1>1 DEF LInv, Local, Working, Busy
<1>3. PICK j \in Jobs : j = on
  BY <1>1
<1>4. source'[j] = s /\ place'[s] = "quarantine" /\ on' = j
  BY <1>t, <1>1, <1>3
<1>5. /\ bytes'[s] = keep'[j] /\ plan'[j] = "executing" /\ result'[j][1] = "none"
      /\ act' = "preserved"
  BY <1>1, <1>2, <1>3
<1>6. Holder(j)'
  BY <1>4, <1>5 DEF Holder, Own, Busy
<1> QED
  BY <1>4, <1>6

LEMMA AnsweredStep == AInv /\ VInv /\ Verified /\ LInv /\ NInv /\ [Next]_vars => Answered'
<1> SUFFICES ASSUME AInv, VInv, Verified, LInv, NInv, [Next]_vars,
                    NEW s \in Sources, s \notin spoiled', Outside(s)', target'[s] = None
             PROVE  \E j \in Jobs : source'[j] = s /\ Holder(j)'
  BY DEF Answered
<1>s. s \notin spoiled
  BY SpoiltForGood
<1>t. /\ act # "idle" => on \in Jobs
      /\ target \in [Sources -> Encoders \cup {None, Foreign}]
      /\ place \in [Sources -> {"library", "quarantine", "beside", "gone"}]
  BY DEF AInv, ATypeOK, AtWork
<1>1. CASE Outside(s) /\ target[s] = None
  <2>1. PICK j \in Jobs : source[j] = s /\ Holder(j)
    BY <1>1, <1>s DEF NInv, Answered
  <2>2. source'[j] = s
    BY <1>1, <2>1, HolderStep
  <2>3. ~(on = j /\ Places)
    <3> SUFFICES ASSUME on = j, Places PROVE FALSE
      OBVIOUS
    <3>1. take[j] # None
      BY DEF LInv, Made
    <3>2. target' = [target EXCEPT ![s] = take[j]]
      BY <2>1 DEF Places, AdoptMoves, AdoptLands
    <3> QED
      BY <1>t, <3>1, <3>2
  <2>4. CASE Approve /\ on = j /\ asking = j /\ act \in {"restore 2", "restore 1"}
    <3>1. HeldBeside(j)
      BY <1>1, <1>s, <2>1, <2>4 DEF NInv, Restorable, Busy
    <3>2. HeldBeside(j)'
      BY <2>1, <2>2, <2>4, <3>1, BesideStep
    <3> QED
      BY <2>2, <3>2 DEF HeldBeside
  <2>5. CASE Holder(j)'
    BY <2>2, <2>5
  <2> QED
    BY <1>1, <2>1, <2>3, <2>4, <2>5, HolderStep
<1>2. CASE ~Outside(s)
  <2>1. PreserveMoves /\ source[on] = s
    BY <1>2, OnlyCommitTakes
  <2> QED
    BY <1>s, <2>1, HolderComes
<1>3. CASE Outside(s) /\ target[s] # None
  <2>1. Back2Moves /\ source[on] = s
    BY <1>3, OnlyReversalClears DEF LInv
  <2>2. PICK j \in Jobs : j = on
    BY <1>t, <2>1 DEF Back2Moves, Backing
  <2>3. /\ act \in {"put back 2", "restore 2"} /\ act' \in {"put back 1", "restore 1"}
        /\ on' = j /\ 2 \in standing[j] /\ source[j] = s
        /\ standing' = [standing EXCEPT ![j] = @ \ {2}]
        /\ UNCHANGED << source, bytes, keep, place >>
    BY <2>1, <2>2 DEF Back2Moves, Backing, After2, Do, rows
  <2>4. (Own(j) /\ 1 \in standing[j]) \/ HeldBeside(j)
    BY <1>s, <1>3, <2>2, <2>3 DEF NInv, Restorable, InPlace, Busy
  <2>5. CASE Own(j) /\ 1 \in standing[j]
    <3>1. standing \in [Jobs -> SUBSET {1, 2}]
      BY DEF AInv, ATypeOK
    <3>2. standing'[j] = {1}
      <4>1. standing'[j] = standing[j] \ {2} /\ standing[j] \subseteq {1, 2}
        BY <2>3, <3>1
      <4> QED
        BY <2>5, <4>1
    <3>3. Own(j)'
      BY <2>3, <2>5 DEF Own
    <3>4. Holder(j)'
      BY <2>3, <3>2, <3>3 DEF Holder, Busy
    <3> QED
      BY <2>3, <3>4
  <2>6. CASE HeldBeside(j)
    <3>1. HeldBeside(j)'
      BY <2>2, <2>3, <2>6, BesideStep
    <3> QED
      BY <2>3, <3>1 DEF HeldBeside
  <2> QED
    BY <2>4, <2>5, <2>6
<1> QED
  BY <1>1, <1>2, <1>3

LEMMA RestorableSame ==
    ASSUME AInv, VInv, Verified, LInv, NInv, [Next]_vars,
           NEW s \in Sources, s \notin spoiled', Outside(s)',
           NEW j \in Jobs, source[j] = s, source'[j] = s, on = j, on' = j,
           Outside(s), act # "idle", act' = act,
           Own(j) /\ 1 \in standing[j] => Own(j)' /\ 1 \in standing'[j],
           2 \in standing'[j] => 2 \in standing[j],
           asking' = j => asking = j, target'[s] = None => target[s] = None
    PROVE  Restorable(j)'
<1>1. s \notin spoiled
  BY SpoiltForGood
<1>2. HeldBeside(j) => HeldBeside(j)'
  BY BesideStep
<1>3. Restorable(j) /\ Busy(j)
  BY DEF NInv, Busy
<1> QED
  BY <1>1, <1>2, <1>3 DEF Restorable, InPlace, Busy

LEMMA RestorableForward ==
    ASSUME AInv, VInv, Verified, LInv, NInv, [Next]_vars, Forward, act # "idle",
           NEW s \in Sources, s \notin spoiled', Outside(s)',
           NEW j \in Jobs, source[j] = s, source'[j] = s, on = j, on' = j
    PROVE  Restorable(j)'
<1>s. s \notin spoiled
  BY SpoiltForGood
<1>t. standing \in [Jobs -> SUBSET {1, 2}]
  BY DEF AInv, ATypeOK
<1>l. Answers(j) /\ Working(j) /\ Restorable(j)
  BY <1>s DEF LInv, Local, NInv
<1>h. HeldBeside(j) => HeldBeside(j)'
  BY BesideStep
<1>b. Busy(j)
  BY DEF Busy
<1>1. CASE Places
  <2>1. /\ act = "adopt" /\ act' \in {"landed", "adopted"} /\ target[s] = None
        /\ UNCHANGED << place, source, bytes, keep, standing >>
    BY <1>1 DEF Places, AdoptMoves, AdoptLands, Adoptable, Occupied, Do, rows, orders, ovars
  <2>2. Outside(s)
    BY <2>1 DEF Outside
  <2>3. PICK k \in Jobs : source[k] = s /\ Holder(k)
    BY <1>s, <2>1, <2>2 DEF NInv, Answered
  <2>4. CASE k = j
    <3>1. Own(j) /\ standing[j] = {1}
      BY <1>b, <2>1, <2>3, <2>4 DEF Holder
    <3> QED
      BY <2>1, <3>1 DEF Restorable, Own
  <2>5. CASE k # j
    <3>1. HeldBeside(j)'
      BY <1>h, <2>3, <2>5 DEF HeldBeside
    <3> QED
      BY <3>1 DEF Restorable
  <2> QED
    BY <2>4, <2>5
<1>2. CASE AdoptLeaves \/ AdoptFinished \/ AdoptJournalled \/ AdoptRecorded
  <2>1. /\ act \in {"landed", "adopted", "journal", "record"}
        /\ act' \notin {"restore 2", "restore 1"}
        /\ UNCHANGED << place, source, bytes, keep >>
        /\ standing[j] \subseteq standing'[j]
    BY <1>2, <1>t DEF AdoptLeaves, AdoptFinished, AdoptJournalled, AdoptRecorded, Refuse, Do,
       ovars, rows, orders
  <2>2. (Own(j) /\ 1 \in standing[j]) \/ HeldBeside(j)
    BY <1>s, <1>l, <1>b, <2>1 DEF Restorable, InPlace, Outside
  <2> QED
    BY <1>h, <2>1, <2>2 DEF Restorable, Own
<1>3. CASE AdoptStays \/ AdoptRefused \/ PreserveRefused
  <2>1. act' \in {"put back 2", "idle"} /\ UNCHANGED standing /\ 2 \notin standing[j]
    BY <1>3, <1>l, <1>b DEF AdoptStays, AdoptRefused, PreserveRefused, Refuse, Leave, Do, Answers,
       Working
  <2> QED
    BY <2>1 DEF Restorable, InPlace
<1>4. CASE ~(Places \/ AdoptLeaves \/ AdoptFinished \/ AdoptJournalled \/ AdoptRecorded
             \/ AdoptStays \/ AdoptRefused \/ PreserveRefused)
  <2>1. act' \in {"refuse", "preserve", "preserve again", "preserved", "adopt", "end", "idle"}
    BY <1>4 DEF Places, Forward, Begin, TargetIsClear, RefuseSecond, PreserveSkipped, PreserveMoves,
       PreserveRecovered, PreserveRecorded, AdoptSkipped, End, Leave, Do
  <2> QED
    BY <2>1 DEF Restorable, InPlace
<1> QED
  BY <1>1, <1>2, <1>3, <1>4

LEMMA RestorableBackward ==
    ASSUME AInv, VInv, Verified, LInv, NInv, [Next]_vars, Backward, act # "idle",
           NEW s \in Sources, s \notin spoiled', Outside(s)',
           NEW j \in Jobs, source[j] = s, source'[j] = s, on = j, on' = j
    PROVE  Restorable(j)'
<1>s. s \notin spoiled
  BY SpoiltForGood
<1>l. Asked(j) /\ Working(j) /\ Restorable(j) /\ Busy(j)
  BY <1>s DEF LInv, Local, NInv, Busy
<1>1. act' \in {"put back 1", "restore 1", "end", "idle"} /\ UNCHANGED asking
  BY DEF Backward, Restore, Back2Skipped, Back2Moves, Back2Refused,
     Back1Skipped, Back1Moves, Back1Refused, RefuseBack, After2, Do
<1>2. ~InPlace(j)'
  BY <1>1 DEF InPlace
<1>3. ASSUME act' = "restore 1", asking = j, target'[s] = None
      PROVE  HeldBeside(j)'
  <2>1. act = "restore 2" /\ UNCHANGED place
    BY <1>3, <1>s DEF Backward, Restore, Back2Skipped, Back2Moves, Back2Refused,
       Back1Skipped, Back1Moves, Back1Refused, RefuseBack, After2, Backing, Backing1, Do
  <2>2. target[s] = None
    <3> SUFFICES ASSUME target[s] # None PROVE FALSE
      OBVIOUS
    <3>1. 2 \in standing[j]
      BY <1>3, OnlyReversalClears DEF LInv, Back2Moves
    <3> QED
      BY <1>3, <1>l, <2>1, <3>1 DEF Asked, Working
  <2>3. HeldBeside(j)
    BY <1>3, <1>s, <1>l, <2>1, <2>2 DEF Restorable, Outside
  <2> QED
    BY <2>3, BesideStep
<1> QED
  BY <1>1, <1>2, <1>3 DEF Restorable

LEMMA RestorableRequested ==
    ASSUME AInv, VInv, Verified, LInv, NInv, [Next]_vars, Request, act # "idle",
           NEW s \in Sources, s \notin spoiled', Outside(s)',
           NEW j \in Jobs, source[j] = s, source'[j] = s, on = j, on' = j
    PROVE  Restorable(j)'
<1>s. s \notin spoiled
  BY SpoiltForGood
<1>t. /\ plan \in [Jobs -> {"none", "approved", "executing", "done", "failed"}]
      /\ keep \in [Jobs -> Versions]
      /\ standing \in [Jobs -> SUBSET {1, 2}]
  BY DEF AInv, ATypeOK
<1>n. j # None
  BY DEF None, Jobs
<1>1. UNCHANGED << act, place, target, bytes >>
  BY DEF Request, Preflight, Approve, CancelRead, CancelDelete, ovars, commit
<1>2. Outside(s)
  BY <1>1 DEF Outside
<1>3. asking' # j \/ asking = j
  <2>1. \A k \in Jobs : Preflight(k) => k # j \/ ~Outside(s)
    BY DEF Preflight, Outside
  <2> QED
    BY <1>2, <1>n, <2>1 DEF Request, Preflight, Approve, CancelRead, CancelDelete
<1>4. CASE keep'[j] = keep[j] /\ standing'[j] = standing[j]
  <2>1. Own(j) => Own(j)'
    BY <1>1, <1>4 DEF Own
  <2> QED
    BY <1>1, <1>2, <1>3, <1>4, <2>1, RestorableSame
<1>5. CASE Approve /\ asking = j /\ standing'[j] = {} /\ ~Pending(j)
  <2>1. act \in {"restore 2", "restore 1"}
    BY <1>5, <1>s DEF LInv, Local, Working, Busy, Pending
  <2>2. asking' # j
    BY <1>5, <1>n DEF Approve
  <2> QED
    BY <1>1, <1>5, <2>1, <2>2 DEF Restorable, InPlace
<1>6. \/ keep'[j] = keep[j] /\ standing'[j] = standing[j]
      \/ Approve /\ asking = j /\ standing'[j] = {} /\ ~Pending(j)
  <2>1. CASE UNCHANGED << keep, standing >>
    BY <2>1
  <2>2. CASE Approve /\ ~UNCHANGED << keep, standing >>
    <3>1. /\ ~Pending(asking)
          /\ keep' = [keep EXCEPT ![asking] = known[source[asking]]]
          /\ standing' = [standing EXCEPT ![asking] = {}]
      BY <2>2 DEF Approve, orders
    <3> QED
      BY <1>t, <2>2, <3>1
  <2>3. UNCHANGED << keep, standing >> \/ Approve
    BY DEF Request, Preflight, CancelRead, CancelDelete, orders
  <2> QED
    BY <2>1, <2>2, <2>3
<1> QED
  BY <1>4, <1>5, <1>6

LEMMA RestorableBegins ==
    ASSUME AInv, VInv, Verified, LInv, NInv, [Next]_vars,
           NEW s \in Sources, s \notin spoiled', Outside(s)',
           NEW j \in Jobs, source[j] = s, source'[j] = s, on' = j, Begin(j) \/ Restore(j)
    PROVE  Restorable(j)'
<1>s. s \notin spoiled
  BY SpoiltForGood
<1>1. CASE Begin(j)
  <2>1. act' \in {"clear", "clear again"}
    BY <1>1 DEF Begin, Do
  <2> QED
    BY <2>1 DEF Restorable, InPlace
<1>2. CASE Restore(j)
  <2>1. /\ act = "idle" /\ ~Pending(j) /\ 1 \in standing[j] /\ Own(j)
        /\ UNCHANGED << target, place, source, bytes, keep, standing >>
    BY <1>2 DEF Restore, Own, ovars, rows, orders
  <2>2. 1 \in standing'[j] /\ Own(j)'
    BY <2>1 DEF Own
  <2>3. ASSUME target'[s] = None
        PROVE  HeldBeside(j)'
    <3>1. PICK k \in Jobs : source[k] = s /\ Holder(k)
      BY <1>s, <2>1, <2>3 DEF NInv, Answered, Outside
    <3>2. k # j
      BY <2>1, <3>1 DEF Holder, Busy, Pending
    <3>3. HeldBeside(j)
      BY <3>1, <3>2 DEF HeldBeside
    <3> QED
      BY <2>1, <3>3, BesideStep
  <2> QED
    BY <2>2, <2>3 DEF Restorable
<1> QED
  BY <1>1, <1>2

LEMMA RestorableAccident ==
    ASSUME AInv, VInv, Verified, LInv, NInv, [Next]_vars, act' # "idle",
           CommitDies \/ \E x \in Sources : EditOriginal(x) \/ TakeOriginal(x) \/ DropFile(x),
           NEW s \in Sources, s \notin spoiled', Outside(s)',
           NEW j \in Jobs, source[j] = s, source'[j] = s, on = j, on' = j
    PROVE  Restorable(j)'
<1>t. /\ place \in [Sources -> {"library", "quarantine", "beside", "gone"}]
      /\ target \in [Sources -> Encoders \cup {None, Foreign}]
      /\ bytes \in [Sources -> Versions]
  BY DEF AInv, ATypeOK, OInv, OTypeOK
<1>f. Foreign # None
  BY BoundsAssumption DEF Foreign, None
<1>1. ~CommitDies
  BY DEF CommitDies, Leave, Do
<1>2. PICK x \in Sources : EditOriginal(x) \/ TakeOriginal(x) \/ DropFile(x)
  BY <1>1
<1>3. UNCHANGED << act, standing, keep, asking >>
  BY <1>2 DEF EditOriginal, TakeOriginal, DropFile, commit, orders
<1>4. target'[s] = None => target[s] = None
  BY <1>2, <1>t, <1>f DEF EditOriginal, TakeOriginal, DropFile
<1>5. Outside(s) /\ (Own(j) => Own(j)')
  <2>1. CASE DropFile(x)
    <3>1. UNCHANGED << place, bytes >>
      BY <2>1 DEF DropFile
    <3> QED
      BY <1>3, <3>1 DEF Outside, Own
  <2>2. CASE EditOriginal(x) \/ TakeOriginal(x)
    <3>1. x # s \/ place[s] # "quarantine"
      <4>1. ~AtRest(s)
        BY <1>3 DEF AtRest
      <4> QED
        BY <2>2, <4>1 DEF EditOriginal, TakeOriginal, Spoil
    <3>2. CASE x # s
      <4>1. place'[s] = place[s] /\ bytes'[s] = bytes[s]
        BY <1>t, <2>2, <3>2 DEF EditOriginal, Edit, TakeOriginal
      <4> QED
        BY <1>3, <4>1 DEF Outside, Own
    <3>3. CASE x = s /\ place[s] # "quarantine"
      <4>1. EditOriginal(s) /\ place' = place
        BY <2>2, <3>3 DEF EditOriginal, TakeOriginal
      <4> QED
        BY <1>t, <3>3, <4>1 DEF EditOriginal, Outside
    <3> QED
      BY <3>1, <3>2, <3>3
  <2> QED
    BY <1>2, <2>1, <2>2
<1> QED
  BY <1>3, <1>4, <1>5, RestorableSame

LEMMA RestorableStep ==
    AInv /\ VInv /\ Verified /\ LInv /\ NInv /\ [Next]_vars => \A j \in Jobs : Restorable(j)'
<1> SUFFICES ASSUME AInv, VInv, Verified, LInv, NInv, [Next]_vars, NEW j \in Jobs,
                    Busy(j)', source'[j] \notin spoiled',
                    place'[source'[j]] \notin {"library", "beside"}
             PROVE  Restorable(j)'
  BY DEF Restorable, Outside
<1>n. j # None /\ act' # "idle" /\ on' = j
  BY DEF Busy, None, Jobs
<1>s. PICK s \in Sources : source[j] = s
  BY DEF AInv, OInv, OTypeOK
<1>1. CASE Beneath /\ ([ONext]_ovars \/ UNCHANGED << rows, staging >>)
  <2>1. UNCHANGED << act, on, place, target, bytes, keep, standing, asking >>
    BY <1>1 DEF Beneath, avars, commit, orders
  <2>2. source'[j] = s
    BY <1>1, <1>n, <1>s, <2>1, HolderBeneath
  <2>3. Outside(s) /\ Outside(s)' /\ (Own(j) => Own(j)')
    BY <1>s, <2>1, <2>2 DEF Outside, Own
  <2> QED
    BY <1>n, <1>s, <2>1, <2>2, <2>3, RestorableSame
<1>2. CASE UNCHANGED rows
  <2>3. source[j] = s /\ source'[j] = s
    BY <1>2, <1>s DEF rows
  <2>4. s \notin spoiled' /\ Outside(s)'
    BY <2>3 DEF Outside
  <2>5. ASSUME NEW k \in Jobs, Begin(k) \/ Restore(k)
        PROVE  Restorable(j)'
    <3>1. k = j
      BY <1>n, <2>5 DEF Begin, Restore, Do
    <3> QED
      BY <1>n, <2>3, <2>4, <2>5, <3>1, RestorableBegins
  <2>6. CASE act # "idle" /\ on = j
    <3>1. CASE Request
      BY <1>n, <2>3, <2>4, <2>6, <3>1, RestorableRequested
    <3>2. CASE Forward
      BY <1>n, <2>3, <2>4, <2>6, <3>2, RestorableForward
    <3>3. CASE Backward
      BY <1>n, <2>3, <2>4, <2>6, <3>3, RestorableBackward
    <3>4. CASE CommitDies \/ \E x \in Sources : EditOriginal(x) \/ TakeOriginal(x) \/ DropFile(x)
      BY <1>n, <2>3, <2>4, <2>6, <3>4, RestorableAccident
    <3> QED
      BY <1>1, <3>1, <3>2, <3>3, <3>4, StepIs
  <2>7. CASE ~(act # "idle" /\ on = j)
    <3>1. CASE Request
      <4>1. UNCHANGED << act, on >>
        BY <3>1 DEF Request, Preflight, Approve, CancelRead, CancelDelete, commit
      <4> QED
        BY <1>n, <2>7, <4>1
    <3>2. CASE act # "idle" /\ (Forward \/ Backward)
      <4>1. on' \in {on, None}
        BY <3>2, ForwardAbout, BackwardAbout DEF OnlyAbout
      <4> QED
        BY <1>n, <2>7, <3>2, <4>1
    <3>3. CASE CommitDies \/ \E x \in Sources : EditOriginal(x) \/ TakeOriginal(x) \/ DropFile(x)
      BY <1>n, <2>7, <3>3 DEF CommitDies, Leave, Do, EditOriginal, TakeOriginal, DropFile, commit
    <3> QED
      BY <1>1, <2>5, <3>1, <3>2, <3>3, StepIs, AtWorkOrBegins
  <2> QED
    BY <2>6, <2>7
<1> QED
  BY <1>1, <1>2, StepIs

\* Whatever is requested, cancelled, committed, killed, resumed, compensated, restored or
\* edited on the way, while nobody is at work the library holds the original, a result, or
\* a file somebody put at the result's name; then the original may be left in quarantine
THEOREM AlwaysOneVersion == Spec => []NeitherVersionNever
<1>1. Init => NInv
  BY DEF Init, AInit, NInv, Answered, Outside, Restorable, Busy
<1>2. AInv /\ VInv /\ Verified /\ LInv /\ NInv /\ [Next]_vars => NInv'
  BY AnsweredStep, RestorableStep DEF NInv
<1>3. AInv /\ VInv /\ Verified /\ [Next]_vars => VInv' /\ Verified'
  BY VerifiedStep
<1>4. AInv /\ VInv /\ Verified /\ LInv /\ [Next]_vars => LInv'
  BY LocalStep
<1>5. AInv /\ NInv => NeitherVersionNever
  <2> SUFFICES ASSUME AInv, NInv, NEW s \in Sources \ spoiled, AtRest(s), Outside(s),
                      target[s] = None
               PROVE  FALSE
    BY DEF NeitherVersionNever, Outside
  <2>1. PICK j \in Jobs : source[j] = s /\ Holder(j)
    BY DEF NInv, Answered
  <2> QED
    BY <2>1, HolderAtWork
<1> QED
  BY <1>1, <1>2, <1>3, <1>4, <1>5, LocalStart, VerifiedStart, AdoptionInvariant, PTL DEF Spec

------------------------------------------------------------------------------
(* Of an adoption that failed nothing stands, or a person is asked.          *)

Compensated(j) == standing[j] = {} \/ j \in recovery

\* What a compensation has still to take back before the plan is called failed
Failing(j) ==
    /\ plan[j] = "failed" => Compensated(j)
    /\ Busy(j) =>
          /\ act \in {"clear", "refuse"} => Compensated(j)
          /\ act = "put back 1" => 2 \notin standing[j]
          /\ act = "end" /\ bad => Compensated(j)

BadIsCompensated == bad => act \in {"put back 2", "put back 1", "end"}

FInv ==
    /\ BadIsCompensated
    /\ \A j \in Jobs : source[j] \notin spoiled \cup crossed => Failing(j)

LEMMA BadStep == AInv /\ BadIsCompensated /\ [Next]_vars => BadIsCompensated'
<1> SUFFICES ASSUME AInv, BadIsCompensated, [Next]_vars, bad'
             PROVE  act' \in {"put back 2", "put back 1", "end"}
  BY DEF BadIsCompensated
<1>1. CASE Beneath
  BY <1>1 DEF Beneath, avars, commit, BadIsCompensated
<1>2. CASE Request
  BY <1>2 DEF Request, Preflight, Approve, CancelRead, CancelDelete, commit, BadIsCompensated
<1>3. CASE Forward
  BY <1>3 DEF Forward, Begin, TargetIsClear, RefuseSecond, PreserveSkipped, PreserveMoves,
     PreserveRecovered, PreserveRefused, PreserveRecorded, AdoptSkipped, AdoptMoves, AdoptLands,
     AdoptLeaves, AdoptStays, AdoptRefused, AdoptFinished, AdoptJournalled, AdoptRecorded, End,
     Refuse, Leave, Do, BadIsCompensated
<1>4. CASE Backward
  BY <1>4 DEF Backward, Back2Skipped, Back2Moves, Back2Refused, Back1Skipped, Back1Moves,
     Back1Refused, Restore, RefuseBack, After2, Backing, Backing1, Do, BadIsCompensated
<1>5. CASE CommitDies \/ \E s \in Sources : EditOriginal(s) \/ TakeOriginal(s) \/ DropFile(s)
  BY <1>5 DEF CommitDies, EditOriginal, TakeOriginal, DropFile, Leave, commit, BadIsCompensated
<1> QED
  BY <1>1, <1>2, <1>3, <1>4, <1>5, StepIs

LEMMA FailingSame ==
    ASSUME NEW j \in Jobs, Failing(j), plan'[j] = plan[j], standing'[j] = standing[j],
           j \in recovery => j \in recovery',
           Busy(j)' => Busy(j) /\ act' = act /\ (bad' => bad)
    PROVE  Failing(j)'
<1>1. Compensated(j) => Compensated(j)'
  BY DEF Compensated
<1>2. ASSUME Busy(j)'
      PROVE  /\ act' \in {"clear", "refuse"} => Compensated(j)'
             /\ act' = "put back 1" => 2 \notin standing'[j]
             /\ act' = "end" /\ bad' => Compensated(j)'
  BY <1>1, <1>2 DEF Failing
<1> QED
  BY <1>1, <1>2 DEF Failing

LEMMA FailingForward ==
    ASSUME AInv, act # "idle", Forward, BadIsCompensated, NEW j \in Jobs, on = j,
           source[j] \notin crossed', Local(j), Failing(j)
    PROVE  Failing(j)'
<1>t. plan \in [Jobs -> {"none", "approved", "executing", "done", "failed"}]
  BY DEF AInv, ATypeOK
<1>l. Busy(j) /\ Failing(j)
  BY DEF Busy
<1>p. plan[j] = "executing"
  BY <1>l, ForwardIsNotBack DEF Local, Working
<1>1. CASE TargetIsClear
  <2>1. act \in {"clear", "clear again"} /\ UNCHANGED << standing, recovery >>
    BY <1>1 DEF TargetIsClear
  <2>2. CASE Clear(on)
    <3>1. act' \in {"preserve", "preserve again"} /\ UNCHANGED plan
      BY <1>1, <2>2 DEF TargetIsClear, Do
    <3> QED
      BY <1>p, <3>1 DEF Failing
  <2>3. CASE ~Clear(on)
    <3>1. act = "clear" /\ act' = "refuse" /\ UNCHANGED plan
      <4>1. act = "clear again" => source[j] \in crossed'
        BY <1>1, <2>3 DEF TargetIsClear
      <4> QED
        BY <1>1, <1>p, <2>1, <2>3, <4>1 DEF TargetIsClear, Do
    <3>2. Compensated(j)'
      BY <1>l, <2>1, <3>1 DEF Failing, Compensated
    <3> QED
      BY <1>p, <3>1, <3>2 DEF Failing, Busy
  <2> QED
    BY <2>2, <2>3
<1>1a. CASE RefuseSecond
  <2>1. act = "refuse" /\ act' = "end" /\ UNCHANGED << plan, standing, recovery >>
    BY <1>1a DEF RefuseSecond, Do
  <2>2. Compensated(j)'
    BY <1>l, <2>1 DEF Failing, Compensated
  <2> QED
    BY <1>p, <2>1, <2>2 DEF Failing
<1>2. CASE End
  <2>1. /\ act = "end" /\ act' = "idle" /\ UNCHANGED << standing, recovery >>
        /\ plan'[j] = IF bad THEN "failed" ELSE "done"
    BY <1>t, <1>2 DEF End, Leave, Do
  <2>2. bad => Compensated(j)'
    BY <1>l, <2>1 DEF Failing, Compensated
  <2> QED
    BY <2>1, <2>2 DEF Failing, Busy
<1>3. CASE AdoptSkipped \/ AdoptRecorded
  <2>1. ~bad /\ plan'[j] = "executing"
    BY <1>p, <1>3 DEF AdoptSkipped, AdoptRecorded, BadIsCompensated, orders
  <2>2. (act' = "end" /\ ~bad') \/ act' = "put back 2"
    BY <1>3, <2>1 DEF AdoptSkipped, AdoptRecorded, Refuse, Do
  <2> QED
    BY <2>1, <2>2 DEF Failing
<1>4. CASE ~(TargetIsClear \/ RefuseSecond \/ End \/ AdoptSkipped \/ AdoptRecorded)
  <2>1. /\ act' \notin {"clear", "refuse", "put back 1", "end"}
        /\ UNCHANGED plan
    BY <1>4 DEF Forward, Begin, PreserveSkipped, PreserveMoves, PreserveRecovered,
       PreserveRefused, PreserveRecorded, AdoptMoves, AdoptLands, AdoptLeaves, AdoptStays,
       AdoptRefused, AdoptFinished, AdoptJournalled, Refuse, Leave, Do, orders
  <2> QED
    BY <1>p, <2>1 DEF Failing
<1> QED
  BY <1>1, <1>1a, <1>2, <1>3, <1>4

LEMMA FailingBackward ==
    ASSUME AInv, act # "idle", Backward, NEW j \in Jobs, on = j, Failing(j)
    PROVE  Failing(j)'
<1>t. standing \in [Jobs -> SUBSET {1, 2}]
  BY DEF AInv, ATypeOK
<1>l. Busy(j)
  BY DEF Busy
<1>0. \/ standing'[j] = standing[j]
      \/ Back2Moves /\ standing'[j] = standing[j] \ {2}
      \/ Back1Moves /\ standing'[j] = standing[j] \ {1}
  <2>1. Back2Moves => standing'[j] = standing[j] \ {2}
    BY <1>t DEF Back2Moves
  <2>2. Back1Moves => standing'[j] = standing[j] \ {1}
    BY <1>t DEF Back1Moves
  <2>3. UNCHANGED standing \/ Back1Moves \/ Back2Moves
    BY DEF Backward, Restore, Back2Skipped, Back2Refused, Back1Skipped, Back1Refused, orders
  <2> QED
    BY <2>1, <2>2, <2>3
<1>1. /\ UNCHANGED plan /\ recovery \subseteq recovery' /\ standing'[j] \subseteq standing[j]
      /\ act' \in {"put back 1", "restore 1", "end", "idle"}
  <2>1. UNCHANGED plan /\ act' \in {"put back 1", "restore 1", "end", "idle"}
    BY DEF Backward, Restore, Back2Skipped, Back2Moves, Back2Refused,
       Back1Skipped, Back1Moves, Back1Refused, RefuseBack, After2, Do, orders
  <2>2. recovery' = recovery \/ recovery' = recovery \cup {on}
    BY DEF Backward, Restore, Back2Skipped, Back2Moves, Back2Refused,
       Back1Skipped, Back1Moves, Back1Refused, RefuseBack, orders
  <2> QED
    BY <1>0, <2>1, <2>2
<1>2. Compensated(j) => Compensated(j)'
  BY <1>1 DEF Compensated
<1>3. act' = "put back 1" => 2 \notin standing'[j]
  <2>1. act' = "put back 1" => Back2Skipped \/ Back2Moves
    BY DEF Backward, Restore, Back2Refused, Back1Skipped, Back1Moves, Back1Refused, RefuseBack,
       Do
  <2>2. Back2Skipped => 2 \notin standing'[j]
    BY DEF Back2Skipped, orders
  <2>3. Back2Moves => 2 \notin standing'[j]
    BY <1>t DEF Back2Moves
  <2> QED
    BY <2>1, <2>2, <2>3
<1>4. ASSUME act' = "end"
      PROVE  Compensated(j)'
  <2>1. CASE Back2Refused \/ Back1Refused
    BY <1>4, <2>1 DEF Back2Refused, Back1Refused, RefuseBack, Do, Compensated
  <2>2. CASE Back1Skipped \/ Back1Moves
    <3>1. act = "put back 1"
      BY <1>4, <2>2 DEF Back1Skipped, Back1Moves, Backing1, Do
    <3>2. 2 \notin standing[j] /\ standing[j] \subseteq {1, 2}
      BY <1>l, <1>t, <3>1 DEF Failing
    <3>3. 1 \notin standing'[j]
      BY <1>t, <2>2 DEF Back1Skipped, Back1Moves, orders
    <3> QED
      BY <1>1, <3>2, <3>3 DEF Compensated
  <2>3. CASE Back2Skipped \/ Back2Moves
    BY <1>4, <2>3 DEF Back2Skipped, Back2Moves, After2, Do
  <2> QED
    BY <2>1, <2>2, <2>3 DEF Backward, Restore
<1> QED
  BY <1>1, <1>2, <1>3, <1>4 DEF Failing

LEMMA FailingRequested ==
    ASSUME AInv, Request, NEW j \in Jobs, Failing(j)
    PROVE  Failing(j)'
<1>t. /\ plan \in [Jobs -> {"none", "approved", "executing", "done", "failed"}]
      /\ standing \in [Jobs -> SUBSET {1, 2}]
  BY DEF AInv, ATypeOK
<1>1. UNCHANGED << act, on, bad >>
  BY DEF Request, Preflight, Approve, CancelRead, CancelDelete, commit
<1>2. CASE UNCHANGED << plan, standing, recovery >>
  BY <1>1, <1>2, FailingSame DEF Busy
<1>3. CASE Approve /\ ~UNCHANGED << plan, standing, recovery >>
  <2>1. /\ plan' = [plan EXCEPT ![asking] = "approved"]
        /\ standing' = [standing EXCEPT ![asking] = {}]
        /\ recovery' = recovery \ {asking}
    BY <1>3 DEF Approve
  <2>2. CASE asking = j
    <3>1. standing'[j] = {}
      BY <1>t, <2>1, <2>2
    <3> QED
      BY <3>1 DEF Failing, Compensated
  <2>3. CASE asking # j
    <3>1. plan'[j] = plan[j] /\ standing'[j] = standing[j] /\ (j \in recovery => j \in recovery')
      BY <1>t, <2>1, <2>3
    <3> QED
      BY <1>1, <3>1, FailingSame DEF Busy
  <2> QED
    BY <2>2, <2>3
<1>4. CASE CancelDelete
  <2>1. UNCHANGED << standing, recovery >>
    BY <1>4 DEF CancelDelete
  <2>2. plan'[j] = plan[j] \/ plan'[j] = "none"
    BY <1>4, <1>t DEF CancelDelete
  <2>3. CASE plan'[j] = plan[j]
    BY <1>1, <2>1, <2>3, FailingSame DEF Busy
  <2>4. CASE plan'[j] = "none"
    BY <1>1, <2>1, <2>4 DEF Failing, Compensated, Busy
  <2> QED
    BY <2>2, <2>3, <2>4
<1> QED
  BY <1>2, <1>3, <1>4 DEF Request, Preflight, CancelRead, orders

LEMMA FailingBegins ==
    ASSUME AInv, NEW k \in Jobs, Begin(k) \/ Restore(k), NEW j \in Jobs, Local(j), Failing(j)
    PROVE  Failing(j)'
<1>t. plan \in [Jobs -> {"none", "approved", "executing", "done", "failed"}]
  BY DEF AInv, ATypeOK
<1>1. on' = k /\ UNCHANGED << standing, recovery >>
  BY DEF Begin, Restore, Do, orders
<1>2. CASE k # j
  <2>1. plan'[j] = plan[j] /\ ~Busy(j)'
    BY <1>t, <1>1, <1>2 DEF Begin, Restore, orders, Busy
  <2> QED
    BY <1>1, <2>1, FailingSame
<1>3. CASE k = j /\ Begin(k)
  <2>1. plan'[j] = "executing" /\ act' \in {"clear", "clear again"}
    BY <1>3, <1>t DEF Begin, Do
  <2>2. act' = "clear" => plan[j] \in {"approved", "failed"}
    BY <1>3 DEF Begin, Do
  <2>3. act' = "clear" => Compensated(j)'
    BY <1>1, <2>2 DEF Local, Answers, Failing, Compensated
  <2> QED
    BY <2>1, <2>3 DEF Failing
<1>4. CASE k = j /\ Restore(k)
  <2>1. UNCHANGED plan /\ act' = "restore 2"
    BY <1>4 DEF Restore, Do, orders
  <2> QED
    BY <1>1, <2>1 DEF Failing, Compensated
<1> QED
  BY <1>2, <1>3, <1>4

LEMMA FailingStep ==
    AInv /\ VInv /\ Verified /\ LInv /\ FInv /\ [Next]_vars => FInv'
<1> SUFFICES ASSUME AInv, VInv, Verified, LInv, FInv, [Next]_vars
             PROVE  FInv'
  OBVIOUS
<1>1. BadIsCompensated'
  BY BadStep DEF FInv
<1>2. ASSUME NEW j \in Jobs, source'[j] \notin spoiled' \cup crossed'
      PROVE  Failing(j)'
  <2>1. CASE Beneath /\ ([ONext]_ovars \/ UNCHANGED << rows, staging >>)
    <3>1. UNCHANGED << plan, standing, recovery, take, act, on, bad, spoiled, crossed >>
      BY <2>1 DEF Beneath, avars, commit, orders
    <3>2. CASE out[j] = None
      <4>1. take[j] = None
        BY <3>2 DEF LInv, Made
      <4>2. plan[j] = "none" /\ standing[j] = {}
        BY <4>1 DEF LInv, Made
      <4> QED
        BY <3>1, <4>2 DEF Failing, Compensated
    <3>3. CASE out[j] # None
      <4>1. source'[j] = source[j]
        BY <2>1, <3>3, RecordedStays DEF rows
      <4>2. Failing(j)
        BY <1>2, <3>1, <4>1 DEF FInv
      <4> QED
        BY <3>1, <4>2, FailingSame DEF Busy
    <3> QED
      BY <3>2, <3>3
  <2>2. CASE UNCHANGED rows
    <3>1. source[j] \notin spoiled' \cup crossed'
      BY <1>2, <2>2 DEF rows
    <3>2. Failing(j) /\ Local(j)
      BY <3>1, SpoiltForGood DEF FInv, LInv
    <3>3. CASE Request
      BY <3>2, <3>3, FailingRequested
    <3>4. CASE act # "idle" /\ (Forward \/ Backward)
      <4>1. CASE on = j
        BY <3>1, <3>2, <3>4, <4>1, FailingForward, FailingBackward DEF FInv
      <4>2. CASE on # j
        <5>1. on \in Jobs /\ OnlyAbout(on)
          BY <3>4, ForwardAbout, BackwardAbout
        <5>2. j # None
          BY DEF None, Jobs
        <5>3. ~Busy(j)'
          BY <4>2, <5>1, <5>2 DEF OnlyAbout, Busy
        <5>4. recovery \subseteq recovery'
          <6>1. recovery' = recovery \/ recovery' = recovery \cup {on}
            BY <3>4 DEF Forward, Begin, TargetIsClear, RefuseSecond, PreserveSkipped,
               PreserveMoves, PreserveRecovered, PreserveRefused, PreserveRecorded,
               AdoptSkipped, AdoptMoves, AdoptLands, AdoptLeaves, AdoptStays, AdoptRefused,
               AdoptFinished, AdoptJournalled, AdoptRecorded, End, Backward, Restore,
               Back2Skipped, Back2Moves, Back2Refused, Back1Skipped, Back1Moves, Back1Refused,
               RefuseBack, orders
          <6> QED
            BY <6>1
        <5> QED
          BY <3>2, <4>2, <5>1, <5>3, <5>4, FailingSame DEF OnlyAbout
      <4> QED
        BY <4>1, <4>2
    <3>5. ASSUME NEW k \in Jobs, Begin(k) \/ Restore(k)
          PROVE  Failing(j)'
      BY <3>2, <3>5, FailingBegins
    <3>6. CASE CommitDies \/ \E s \in Sources : EditOriginal(s) \/ TakeOriginal(s) \/ DropFile(s)
      <4>1. UNCHANGED << plan, standing, recovery >>
        BY <3>6 DEF CommitDies, EditOriginal, TakeOriginal, DropFile, orders
      <4>2. act' = "idle" \/ UNCHANGED << act, on, bad >>
        BY <3>6 DEF CommitDies, Leave, Do, EditOriginal, TakeOriginal, DropFile, commit
      <4> QED
        BY <3>2, <4>1, <4>2, FailingSame DEF Busy
    <3> QED
      BY <2>1, <3>3, <3>4, <3>5, <3>6, StepIs, AtWorkOrBegins
  <2> QED
    BY <2>1, <2>2, StepIs
<1> QED
  BY <1>1, <1>2 DEF FInv

\* Of an adoption that failed nothing stands, or History asks for a recovery, also when
\* it was killed half way, taken up again, refused then, or half restored by hand
THEOREM FailedIsTakenBack == Spec => []FailedStandsOnNothing
<1>1. Init => FInv
  BY DEF Init, AInit, FInv, BadIsCompensated, Failing, Compensated, Busy
<1>2. AInv /\ VInv /\ Verified /\ LInv /\ FInv /\ [Next]_vars => FInv'
  BY FailingStep
<1>3. AInv /\ VInv /\ Verified /\ [Next]_vars => VInv' /\ Verified'
  BY VerifiedStep
<1>4. AInv /\ VInv /\ Verified /\ LInv /\ [Next]_vars => LInv'
  BY LocalStep
<1>5. FInv => FailedStandsOnNothing
  BY DEF FInv, Failing, Compensated, FailedStandsOnNothing
<1> QED
  BY <1>1, <1>2, <1>3, <1>4, <1>5, LocalStart, VerifiedStart, AdoptionInvariant, PTL DEF Spec

------------------------------------------------------------------------------
(* History and the disk.                                                     *)

\* At most one adoption of a file has its original to move, or has moved it
Claims(j) == (Pending(j) /\ result[j][1] = "none") \/ 1 \in standing[j]

\* The result of this adoption has been put in its place
Put(j) == 2 \in standing[j] \/ (Busy(j) /\ act \in {"landed", "adopted", "journal"})

JInv ==
    \A s \in Sources \ (spoiled \cup crossed) :
        /\ \A j, k \in Jobs :
              source[j] = s /\ source[k] = s /\ Claims(j) /\ Claims(k) => j = k
        /\ \A j \in Jobs : source[j] = s =>
              /\ 1 \in standing[j] => Outside(s) /\ known[s] = Away
              /\ Put(j) => target[s] \in {take[j], Foreign}
        /\ Outside(s) => \E j \in Jobs : source[j] = s /\ (1 \in standing[j] \/ Holder(j))
        /\ target[s] \in Encoders =>
              \E j \in Jobs : source[j] = s /\ take[j] = target[s] /\ Put(j)

\* The request that goes through is made of a job no adoption of which waits
Approved(j) ==
    /\ Approve /\ asking = j
    /\ Resolves(j) /\ ~Pending(j) /\ known[source[j]] # Away
    /\ \A k \in Jobs : source[k] = source[j] => plan[k] # "approved"
    /\ (\E k \in Jobs : source[k] = source[j] /\ plan[k] = "executing") => source[j] \in crossed'
    /\ plan' = [plan EXCEPT ![j] = "approved"]
    /\ take' = [take EXCEPT ![j] = out[j]]
    /\ result' = [result EXCEPT ![j] = << "none", "none" >>]
    /\ standing' = [standing EXCEPT ![j] = {}]
    /\ UNCHANGED << ovars, place, target, act, on >>

LEMMA ApproveIs ==
    ASSUME AInv, Approve
    PROVE  \/ UNCHANGED << ovars, place, target, plan, take, result, standing, act, on >>
           \/ \E j \in Jobs : Approved(j)
<1>t. asking \in Jobs \cup {None}
  BY DEF AInv, ATypeOK
<1>1. asking \in Jobs /\ UNCHANGED << ovars, place, target, act, on >>
  BY <1>t DEF Approve, commit
<1>2. CASE plan' = plan /\ take' = take /\ result' = result /\ standing' = standing
  BY <1>1, <1>2
<1>3. CASE ~(plan' = plan /\ take' = take /\ result' = result /\ standing' = standing)
  <2>1. Approved(asking)
    BY <1>1, <1>3 DEF Approve, Approved
  <2> QED
    BY <1>1, <2>1
<1> QED
  BY <1>2, <1>3

\* What is written of the two operations of an adoption, and by whom
LEMMA StandingMoves ==
    ASSUME AInv, [Next]_vars, NEW j \in Jobs
    PROVE  \/ standing'[j] = standing[j]
           \/ PreserveRecorded /\ on = j /\ plan[j] # "none" /\ standing'[j] = standing[j] \cup {1}
           \/ AdoptJournalled /\ on = j /\ standing'[j] = standing[j] \cup {2}
           \/ Back2Moves /\ on = j /\ standing'[j] = standing[j] \ {2}
           \/ Back1Moves /\ on = j /\ standing'[j] = standing[j] \ {1}
           \/ Approved(j) /\ standing'[j] = {}
<1>t. standing \in [Jobs -> SUBSET {1, 2}] /\ (act # "idle" => on \in Jobs)
  BY DEF AInv, ATypeOK, AtWork
<1>1. CASE UNCHANGED standing
  BY <1>1
<1>2. CASE PreserveRecorded
  BY <1>2, <1>t DEF PreserveRecorded
<1>3. CASE AdoptJournalled
  BY <1>3, <1>t DEF AdoptJournalled
<1>4. CASE Back2Moves
  BY <1>4, <1>t DEF Back2Moves
<1>5. CASE Back1Moves
  BY <1>5, <1>t DEF Back1Moves
<1>6. CASE Approve
  <2>1. CASE UNCHANGED standing
    BY <2>1
  <2>2. ASSUME NEW k \in Jobs, Approved(k)
        PROVE  standing'[j] = standing[j] \/ (Approved(j) /\ standing'[j] = {})
    <3>1. standing' = [standing EXCEPT ![k] = {}]
      BY <2>2 DEF Approved
    <3> QED
      BY <1>t, <2>2, <3>1
  <2> QED
    BY <1>6, <2>1, <2>2, ApproveIs
<1>7. \/ UNCHANGED standing
      \/ PreserveRecorded \/ AdoptJournalled \/ Back2Moves \/ Back1Moves \/ Approve
  <2>1. Beneath => UNCHANGED standing
    BY DEF Beneath, avars, orders
  <2>2. Request => UNCHANGED standing \/ Approve
    BY DEF Request, Preflight, CancelRead, CancelDelete, orders
  <2>3. Forward => UNCHANGED standing \/ PreserveRecorded \/ AdoptJournalled
    BY DEF Forward, Begin, TargetIsClear, RefuseSecond, PreserveSkipped, PreserveMoves,
       PreserveRecovered, PreserveRefused, AdoptSkipped, AdoptMoves, AdoptLands, AdoptLeaves,
       AdoptStays, AdoptRefused, AdoptFinished, AdoptRecorded, End, orders
  <2>4. Backward => UNCHANGED standing \/ Back2Moves \/ Back1Moves
    BY DEF Backward, Restore, Back2Skipped, Back2Refused, Back1Skipped, Back1Refused, orders
  <2>5. CommitDies \/ (\E s \in Sources : EditOriginal(s) \/ TakeOriginal(s) \/ DropFile(s)) =>
          UNCHANGED standing
    BY DEF CommitDies, EditOriginal, TakeOriginal, DropFile, orders
  <2> QED
    BY <2>1, <2>2, <2>3, <2>4, <2>5, StepIs
<1> QED
  BY <1>1, <1>2, <1>3, <1>4, <1>5, <1>6, <1>7

LEMMA FirstStays ==
    ASSUME AInv, [Next]_vars, NEW j \in Jobs, 1 \in standing[j]
    PROVE  1 \in standing'[j] \/ (Back1Moves /\ on = j) \/ Approved(j)
BY StandingMoves

\* Nobody but an approved request gives a job something to move
LEMMA ClaimStep ==
    ASSUME AInv, LInv, VInv, Verified, [Next]_vars, NEW j \in Jobs,
           source'[j] \notin spoiled', Claims(j)'
    PROVE  source'[j] = source[j] /\ (Claims(j) \/ Approved(j))
<1>t. /\ plan \in [Jobs -> {"none", "approved", "executing", "done", "failed"}]
      /\ result \in [Jobs -> {"none", "done", "refused"} \X {"none", "done", "refused"}]
      /\ (act # "idle" => on \in Jobs)
  BY DEF AInv, ATypeOK, AtWork
<1>1. CASE Beneath /\ ([ONext]_ovars \/ UNCHANGED << rows, staging >>)
  <2>1. UNCHANGED << plan, result, standing, take >>
    BY <1>1 DEF Beneath, avars, orders
  <2>2. Claims(j)
    BY <2>1 DEF Claims, Pending
  <2>3. take[j] # None
    BY <2>2 DEF Claims, Pending, LInv, Made
  <2>4. out[j] # None
    BY <2>3 DEF LInv, Made
  <2> QED
    BY <1>1, <2>2, <2>4, RecordedStays DEF rows
<1>2. CASE UNCHANGED rows
  <2>1. source'[j] = source[j] /\ Local(j)
    BY <1>2, SpoiltForGood DEF LInv, rows
  <2>2. ASSUME 1 \in standing'[j], 1 \notin standing[j]
        PROVE  Claims(j)
    <3>1. PreserveRecorded /\ on = j /\ plan[j] # "none"
      BY <2>2, StandingMoves
    <3>2. Busy(j) /\ act = "preserved"
      BY <3>1 DEF PreserveRecorded, Busy
    <3>3. plan[j] = "executing" /\ result[j][1] = "none"
      BY <2>1, <3>2 DEF Local, Working
    <3> QED
      BY <3>3 DEF Claims, Pending
  <2>3. ASSUME Pending(j)', result'[j][1] = "none"
        PROVE  Claims(j) \/ Approved(j)
    <3>1. CASE UNCHANGED << plan, result >>
      BY <2>3, <3>1 DEF Claims, Pending
    <3>2. CASE Approve
      <4>1. ASSUME NEW k \in Jobs, Approved(k), k # j
            PROVE  plan'[j] = plan[j] /\ result'[j] = result[j]
        BY <1>t, <4>1 DEF Approved
      <4> QED
        BY <2>3, <3>1, <3>2, <4>1, ApproveIs DEF Claims, Pending
    <3>3. CASE CancelDelete
      <4>1. UNCHANGED result /\ (plan'[j] = plan[j] \/ plan'[j] = "none")
        BY <3>3, <1>t DEF CancelDelete
      <4> QED
        BY <2>3, <4>1 DEF Claims, Pending
    <3>4. ASSUME NEW k \in Jobs, Begin(k)
          PROVE  Claims(j)
      <4>1. UNCHANGED result /\ (k # j => plan'[j] = plan[j])
        BY <3>4, <1>t DEF Begin
      <4>2. k = j => plan[j] \in {"approved", "executing", "failed"}
        BY <3>4 DEF Begin
      <4>3. plan[j] # "failed"
        BY <2>1, <2>3, <4>1 DEF Local, Answers
      <4> QED
        BY <2>3, <4>1, <4>2, <4>3 DEF Claims, Pending
    <3>5. CASE act # "idle" /\ Forward
      <4>1. CASE on = j
        <5>1. plan[j] = "executing"
          BY <2>1, <3>5, <4>1, ForwardIsNotBack DEF Local, Working, Busy
        <5>2. result[j][1] = "none"
          <6>1. CASE UNCHANGED result
            BY <2>3, <6>1
          <6>2. ASSUME NEW v \in {"none", "done", "refused"},
                       \/ result' = [result EXCEPT ![on][2] = v]
                       \/ v # "none" /\ result' = [result EXCEPT ![on][1] = v]
                PROVE  result[j][1] = "none"
            BY <1>t, <2>3, <4>1, <6>2, FirstWritten, SecondWritten
          <6>3. \/ UNCHANGED result
                \/ result' = [result EXCEPT ![on][2] = "refused"]
                \/ result' = [result EXCEPT ![on][2] = "done"]
                \/ result' = [result EXCEPT ![on][1] = "refused"]
                \/ result' = [result EXCEPT ![on][1] = "done"]
            BY <3>5 DEF Forward, Begin, TargetIsClear, RefuseSecond, PreserveSkipped, PreserveMoves, PreserveRecovered,
               PreserveRefused, PreserveRecorded, AdoptSkipped, AdoptMoves, AdoptLands,
               AdoptLeaves, AdoptStays, AdoptRefused, AdoptFinished, AdoptJournalled,
               AdoptRecorded, End, Refuse, orders
          <6> QED
            BY <6>1, <6>2, <6>3
        <5> QED
          BY <5>1, <5>2 DEF Claims, Pending
      <4>2. CASE on # j
        BY <2>3, <3>5, <4>2, ForwardAbout DEF OnlyAbout, Claims, Pending
      <4> QED
        BY <4>1, <4>2
    <3>6. \/ UNCHANGED << plan, result >> \/ Approve \/ CancelDelete
          \/ (\E k \in Jobs : Begin(k)) \/ (act # "idle" /\ Forward)
      <4>1. Request => UNCHANGED << plan, result >> \/ Approve \/ CancelDelete
        BY DEF Request, Preflight, CancelRead, orders
      <4>2. Backward => UNCHANGED << plan, result >>
        BY DEF Backward, Restore, Back2Skipped, Back2Moves, Back2Refused, Back1Skipped,
           Back1Moves, Back1Refused, orders
      <4>3. CommitDies \/ (\E s \in Sources : EditOriginal(s) \/ TakeOriginal(s) \/ DropFile(s)) =>
              UNCHANGED << plan, result >>
        BY DEF CommitDies, EditOriginal, TakeOriginal, DropFile, orders
      <4>4. Forward => act # "idle" \/ \E k \in Jobs : Begin(k)
        BY DEF Forward, TargetIsClear, RefuseSecond, PreserveSkipped, PreserveMoves,
           PreserveRecovered, PreserveRefused, PreserveRecorded, AdoptSkipped, AdoptMoves,
           AdoptLands, AdoptLeaves, AdoptStays, AdoptRefused, AdoptFinished, AdoptJournalled,
           AdoptRecorded, End
      <4>5. Beneath => UNCHANGED << plan, result >>
        BY DEF Beneath, avars, orders
      <4> QED
        BY <4>1, <4>2, <4>3, <4>4, <4>5, StepIs
    <3> QED
      BY <3>1, <3>2, <3>3, <3>4, <3>5, <3>6
  <2>4. (Pending(j)' /\ result'[j][1] = "none") \/ 1 \in standing'[j]
    BY DEF Claims
  <2> QED
    BY <2>1, <2>2, <2>3, <2>4 DEF Claims
<1> QED
  BY <1>1, <1>2, StepIs

\* The holder of the lock between the move of a result and its journal row
LEMMA PutActs ==
    ASSUME AInv, [Next]_vars
    PROVE  /\ act' \in {"landed", "adopted", "journal"} =>
                 on' = on /\ (Places \/ act \in {"landed", "adopted", "journal"})
           /\ act \in {"landed", "adopted", "journal"} =>
                 \/ on' = on /\ act' \in {"landed", "adopted", "journal"}
                 \/ AdoptJournalled \/ AdoptStays
                 \/ CommitDies
<1>1. CASE Beneath \/ Request
  BY <1>1 DEF Beneath, Request, Preflight, Approve, CancelRead, CancelDelete, avars, commit
<1>2. CASE Forward
  BY <1>2 DEF Places, Forward, Begin, TargetIsClear, RefuseSecond, PreserveSkipped, PreserveMoves,
     PreserveRecovered, PreserveRefused, PreserveRecorded, AdoptSkipped, AdoptMoves, AdoptLands,
     AdoptLeaves, AdoptStays, AdoptRefused, AdoptFinished, AdoptJournalled, AdoptRecorded, End,
     Refuse, Leave, Do
<1>3. CASE Backward
  BY <1>3 DEF Backward, Restore, Back2Skipped, Back2Moves, Back2Refused, Back1Skipped,
     Back1Moves, Back1Refused, RefuseBack, After2, Backing, Backing1, Do
<1>4. CASE CommitDies
  BY <1>4 DEF CommitDies, Leave, Do
<1>5. CASE \E s \in Sources : EditOriginal(s) \/ TakeOriginal(s) \/ DropFile(s)
  BY <1>5 DEF EditOriginal, TakeOriginal, DropFile, commit
<1> QED
  BY <1>1, <1>2, <1>3, <1>4, <1>5, StepIs

LEMMA PutStep ==
    ASSUME AInv, LInv, VInv, Verified, [Next]_vars, NEW j \in Jobs, Put(j)'
    PROVE  /\ source'[j] = source[j]
           /\ Put(j) \/ (Places /\ on = j)
<1>1. Put(j) \/ (Places /\ on = j)
  <2>1. CASE 2 \in standing'[j]
    <3>1. 2 \in standing[j] \/ (AdoptJournalled /\ on = j)
      BY <2>1, StandingMoves
    <3> QED
      BY <3>1 DEF AdoptJournalled, Put, Busy
  <2>2. CASE Busy(j)' /\ act' \in {"landed", "adopted", "journal"}
    BY <2>2, PutActs DEF Busy, Put
  <2> QED
    BY <2>1, <2>2 DEF Put
<1>2. take[j] # None
  BY <1>1 DEF LInv, Made, Put, Busy
<1>3. source'[j] = source[j]
  BY <1>2, StepIs, RecordedStays DEF LInv, Made, rows
<1> QED
  BY <1>1, <1>3

LEMMA PutStays ==
    ASSUME AInv, LInv, [Next]_vars, NEW j \in Jobs, source[j] \notin spoiled' \cup crossed', Put(j)
    PROVE  Put(j)' \/ (Back2Moves /\ on = j)
<1>1. Local(j)
  BY SpoiltForGood DEF LInv
<1>2. CASE 2 \in standing[j]
  <2>1. ~Approved(j)
    BY <1>1, <1>2 DEF Approved, Resolves, Local, Answers
  <2> QED
    BY <1>2, <2>1, StandingMoves DEF Put
<1>3. CASE Busy(j) /\ act \in {"landed", "adopted", "journal"}
  <2>1. ~CommitDies /\ ~AdoptStays
    BY <1>3 DEF CommitDies, AdoptStays, Resumable, Busy
  <2>2. CASE AdoptJournalled
    <3>1. 2 \in standing'[j]
      BY <1>3, <2>2 DEF AdoptJournalled, AInv, ATypeOK, Busy
    <3> QED
      BY <3>1 DEF Put
  <2>3. CASE on' = on /\ act' \in {"landed", "adopted", "journal"}
    BY <1>3, <2>3 DEF Put, Busy
  <2> QED
    BY <1>3, <2>1, <2>2, <2>3, PutActs
<1> QED
  BY <1>2, <1>3 DEF Put

LEMMA TakeStays ==
    ASSUME AInv, LInv, [Next]_vars, NEW j \in Jobs, take[j] # None
    PROVE  take'[j] = take[j]
<1>t. take \in [Jobs -> Encoders \cup {None}]
  BY DEF AInv, ATypeOK
<1>1. CASE UNCHANGED take
  BY <1>1
<1>2. CASE Approve
  <2>1. ASSUME NEW k \in Jobs, Approved(k)
        PROVE  take'[j] = take[j]
    BY <1>t, <2>1 DEF Approved, LInv, Made
  <2> QED
    BY <1>1, <1>2, <2>1, ApproveIs
<1>3. UNCHANGED take \/ Approve
  <2>1. CASE Beneath \/ Request
    BY <2>1 DEF Beneath, Request, Preflight, CancelRead, CancelDelete, avars, orders
  <2>2. CASE Forward
    BY <2>2 DEF Forward, Begin, TargetIsClear, RefuseSecond, PreserveSkipped, PreserveMoves,
       PreserveRecovered, PreserveRefused, PreserveRecorded, AdoptSkipped, AdoptMoves,
       AdoptLands, AdoptLeaves, AdoptStays, AdoptRefused, AdoptFinished, AdoptJournalled,
       AdoptRecorded, End, orders
  <2>3. CASE Backward
    BY <2>3 DEF Backward, Restore, Back2Skipped, Back2Moves, Back2Refused, Back1Skipped,
       Back1Moves, Back1Refused, orders
  <2>4. CASE CommitDies \/ \E s \in Sources : EditOriginal(s) \/ TakeOriginal(s) \/ DropFile(s)
    BY <2>4 DEF CommitDies, EditOriginal, TakeOriginal, DropFile, orders
  <2> QED
    BY <2>1, <2>2, <2>3, <2>4, StepIs
<1> QED
  BY <1>1, <1>2, <1>3

\* What comes to stand at a result's place, and what leaves it
LEMMA TargetMoves ==
    ASSUME AInv, [Next]_vars, NEW s \in Sources
    PROVE  \/ target'[s] \in {target[s], Foreign}
           \/ /\ Places /\ source[on] = s
              /\ target[s] = None /\ target'[s] = take[on]
           \/ /\ Back2Moves /\ source[on] = s
              /\ target[s] = take[on] /\ target'[s] = None
<1>t. /\ target \in [Sources -> Encoders \cup {None, Foreign}]
      /\ act # "idle" => on \in Jobs /\ source[on] \in Sources
  BY DEF AInv, ATypeOK, AtWork, OInv, OTypeOK
<1>1. CASE UNCHANGED target
  BY <1>1
<1>2. CASE Places
  BY <1>t, <1>2 DEF Places, AdoptMoves, AdoptLands, Adoptable, Occupied
<1>3. CASE Back2Moves
  BY <1>t, <1>3 DEF Back2Moves, Backing
<1>4. ASSUME NEW x \in Sources, DropFile(x)
      PROVE  target'[s] \in {target[s], Foreign}
  BY <1>t, <1>4 DEF DropFile
<1>5. UNCHANGED target \/ Places \/ Back2Moves \/ \E x \in Sources : DropFile(x)
  <2>1. CASE Beneath \/ Request
    BY <2>1 DEF Beneath, Request, Preflight, Approve, CancelRead, CancelDelete, avars
  <2>2. CASE Forward
    BY <2>2 DEF Places, Forward, Begin, TargetIsClear, RefuseSecond, PreserveSkipped, PreserveMoves,
       PreserveRecovered, PreserveRefused, PreserveRecorded, AdoptSkipped, AdoptLands,
       AdoptLeaves, AdoptStays, AdoptRefused, AdoptFinished, AdoptJournalled, AdoptRecorded, End
  <2>3. CASE Backward
    BY <2>3 DEF Backward, Restore, Back2Skipped, Back2Refused, Back1Skipped,
       Back1Moves, Back1Refused
  <2>4. CASE CommitDies \/ \E x \in Sources : EditOriginal(x) \/ TakeOriginal(x) \/ DropFile(x)
    BY <2>4 DEF CommitDies, EditOriginal, TakeOriginal
  <2> QED
    BY <2>1, <2>2, <2>3, <2>4, StepIs
<1> QED
  BY <1>1, <1>2, <1>3, <1>4, <1>5

\* An original comes back, and its row too, by a reversal's hand and nobody else's
LEMMA OnlyReversalReturns ==
    ASSUME AInv, [Next]_vars, NEW s \in Sources,
           (Outside(s) /\ ~Outside(s)') \/ (known[s] = Away /\ known'[s] # Away)
    PROVE  Back1Moves /\ source[on] = s
<1>t. /\ place \in [Sources -> {"library", "quarantine", "beside", "gone"}]
      /\ known \in [Sources -> Versions \cup {Away}]
      /\ act # "idle" => on \in Jobs /\ source[on] \in Sources
  BY DEF AInv, ATypeOK, AtWork, OInv, OTypeOK
<1>1. CASE Beneath
  BY <1>1 DEF Beneath, avars, Outside
<1>2. CASE UNCHANGED << place, known >>
  BY <1>2 DEF Outside
<1>3. CASE PreserveMoves
  BY <1>3, <1>t DEF PreserveMoves, ovars, Outside
<1>4. CASE PreserveRecorded
  BY <1>4, <1>t DEF PreserveRecorded, Outside
<1>5. CASE Back1Moves
  <2>1. \A x \in Sources : x # source[on] => place'[x] = place[x] /\ known'[x] = known[x]
    BY <1>5, <1>t DEF Back1Moves
  <2> QED
    BY <1>5, <2>1 DEF Outside
<1>6. ASSUME NEW x \in Sources, TakeOriginal(x)
      PROVE  FALSE
  BY <1>6, <1>t DEF TakeOriginal, Outside
<1>7. \/ Beneath \/ UNCHANGED << place, known >>
      \/ PreserveMoves \/ PreserveRecorded \/ Back1Moves \/ \E x \in Sources : TakeOriginal(x)
  <2>1. CASE Request
    BY <2>1 DEF Request, Preflight, Approve, CancelRead, CancelDelete, ovars
  <2>2. CASE Forward
    BY <2>2 DEF Forward, Begin, TargetIsClear, RefuseSecond, PreserveSkipped, PreserveRecovered,
       PreserveRefused, AdoptSkipped, AdoptMoves, AdoptLands, AdoptLeaves, AdoptStays,
       AdoptRefused, AdoptFinished, AdoptJournalled, AdoptRecorded, End, ovars
  <2>3. CASE Backward
    BY <2>3 DEF Backward, Restore, Back2Skipped, Back2Moves, Back2Refused, Back1Skipped,
       Back1Refused, ovars
  <2>4. CASE CommitDies \/ \E x \in Sources : EditOriginal(x) \/ TakeOriginal(x) \/ DropFile(x)
    BY <2>4 DEF CommitDies, EditOriginal, Edit, DropFile
  <2> QED
    BY <2>1, <2>2, <2>3, <2>4, StepIs
<1> QED
  BY <1>1, <1>2, <1>3, <1>4, <1>5, <1>6, <1>7

LEMMA SourceStays ==
    ASSUME AInv, VInv, Verified, LInv, [Next]_vars, NEW j \in Jobs, take[j] # None
    PROVE  source'[j] = source[j]
BY StepIs, RecordedStays DEF LInv, Made, rows

LEMMA OneClaimStep ==
    ASSUME AInv, VInv, Verified, LInv, JInv, [Next]_vars,
           NEW s \in Sources, s \notin spoiled' \cup crossed',
           NEW j \in Jobs, NEW k \in Jobs,
           source'[j] = s, source'[k] = s, Claims(j)', Claims(k)'
    PROVE  j = k
<1>s. s \notin spoiled \cup crossed
  BY SpoiltForGood
<1>1. /\ source[j] = s /\ (Claims(j) \/ Approved(j))
      /\ source[k] = s /\ (Claims(k) \/ Approved(k))
  BY ClaimStep
<1>2. ASSUME NEW i \in Jobs, NEW m \in Jobs, source[i] = s, source[m] = s, Approved(i), Claims(m)
      PROVE  FALSE
  <2>1. 1 \notin standing[m]
    BY <1>s, <1>2 DEF JInv, Approved
  <2>2. ~Pending(m)
    BY <1>2 DEF Approved, Pending
  <2> QED
    BY <1>2, <2>1, <2>2 DEF Claims
<1>3. CASE Claims(j) /\ Claims(k)
  BY <1>s, <1>1, <1>3 DEF JInv
<1>4. CASE Approved(j) /\ Approved(k)
  BY <1>4 DEF Approved
<1> QED
  BY <1>1, <1>2, <1>3, <1>4

LEMMA FirstIsOutside ==
    ASSUME AInv, VInv, Verified, LInv, JInv, [Next]_vars,
           NEW s \in Sources, s \notin spoiled' \cup crossed',
           NEW j \in Jobs, source'[j] = s, 1 \in standing'[j]
    PROVE  Outside(s)' /\ known'[s] = Away
<1>s. s \notin spoiled \cup crossed
  BY SpoiltForGood
<1>0. source[j] = s
  BY ClaimStep DEF Claims
<1>t. standing \in [Jobs -> SUBSET {1, 2}] /\ known \in [Sources -> Versions \cup {Away}]
  BY DEF AInv, ATypeOK, OInv, OTypeOK
<1>1. CASE 1 \in standing[j]
  <2>1. Outside(s) /\ known[s] = Away
    BY <1>s, <1>0, <1>1 DEF JInv
  <2>2. ~(Back1Moves /\ source[on] = s)
    <3> SUFFICES ASSUME Back1Moves, source[on] = s PROVE FALSE
      OBVIOUS
    <3>1. on \in Jobs /\ 1 \in standing[on]
      BY DEF Back1Moves, Backing1, AInv, AtWork
    <3>2. on = j
      BY <1>s, <1>0, <1>1, <3>1 DEF JInv, Claims
    <3>3. 1 \notin standing'[j]
      BY <1>t, <3>2 DEF Back1Moves
    <3> QED
      BY <3>3
  <2> QED
    BY <2>1, <2>2, OnlyReversalReturns
<1>2. CASE 1 \notin standing[j]
  <2>1. PreserveRecorded /\ on = j /\ plan[j] # "none"
    BY <1>2, StandingMoves
  <2>2. Busy(j) /\ act = "preserved" /\ Local(j)
    BY <1>s, <1>0, <2>1 DEF PreserveRecorded, Busy, LInv
  <2>3. Own(j)
    BY <2>2 DEF Local, Working
  <2>4. UNCHANGED place /\ known'[s] = Away
    BY <1>t, <1>0, <2>1 DEF PreserveRecorded
  <2> QED
    BY <1>0, <2>3, <2>4 DEF Own, Outside
<1> QED
  BY <1>1, <1>2

\* The output an adoption took is that of no other job
LEMMA TakenOnce ==
    ASSUME VInv, LInv, NEW j \in Jobs, NEW k \in Jobs, take[j] # None, take[k] = take[j]
    PROVE  j = k
BY DEF VInv, RecordedOnce, LInv, Made

LEMMA PutIsThere ==
    ASSUME AInv, VInv, Verified, LInv, JInv, [Next]_vars,
           NEW s \in Sources, s \notin spoiled' \cup crossed',
           NEW j \in Jobs, source'[j] = s, Put(j)'
    PROVE  target'[s] \in {take'[j], Foreign}
<1>s. s \notin spoiled \cup crossed
  BY SpoiltForGood
<1>t. /\ take \in [Jobs -> Encoders \cup {None}]
      /\ target \in [Sources -> Encoders \cup {None, Foreign}]
      /\ standing \in [Jobs -> SUBSET {1, 2}]
  BY DEF AInv, ATypeOK
<1>f. Foreign # None /\ Foreign \notin Encoders
  BY BoundsAssumption DEF Foreign, None, Encoders
<1>1. source[j] = s /\ (Put(j) \/ (Places /\ on = j))
  BY PutStep
<1>2. take[j] # None
  BY <1>1 DEF LInv, Made, Put, Busy, Places, AdoptMoves, AdoptLands
<1>3. take'[j] = take[j]
  BY <1>2, TakeStays
<1>4. CASE Places /\ on = j
  BY <1>t, <1>1, <1>3, <1>4 DEF Places, AdoptMoves, AdoptLands
<1>5. CASE Put(j)
  <2>1. target[s] \in {take[j], Foreign}
    BY <1>s, <1>1, <1>5 DEF JInv
  <2>2. CASE Back2Moves /\ source[on] = s /\ target[s] = take[on]
    <3>1. on \in Jobs
      BY <2>2 DEF Back2Moves, Backing, AInv, AtWork
    <3>2. take[on] = take[j]
      BY <1>t, <1>f, <2>1, <2>2, <3>1
    <3>3. on = j
      BY <1>2, <3>1, <3>2, TakenOnce
    <3>4. 2 \notin standing'[j] /\ act' \in {"put back 1", "restore 1"}
      BY <1>t, <2>2, <3>3 DEF Back2Moves, After2, Do
    <3> QED
      BY <3>4 DEF Put
  <2> QED
    BY <1>2, <1>3, <1>f, <2>1, <2>2, TargetMoves
<1> QED
  BY <1>1, <1>4, <1>5

LEMMA OutsideIsAnswered ==
    ASSUME AInv, VInv, Verified, LInv, JInv, [Next]_vars,
           NEW s \in Sources, s \notin spoiled' \cup crossed', Outside(s)'
    PROVE  \E j \in Jobs : source'[j] = s /\ (1 \in standing'[j] \/ Holder(j)')
<1>s. s \notin spoiled \cup crossed
  BY SpoiltForGood
<1>1. CASE ~Outside(s)
  BY <1>s, <1>1, OnlyCommitTakes, HolderComes
<1>2. CASE Outside(s)
  <2>1. PICK j \in Jobs : source[j] = s /\ (1 \in standing[j] \/ Holder(j))
    BY <1>s, <1>2 DEF JInv
  <2>2. CASE 1 \in standing[j]
    <3>1. source'[j] = s
      BY <2>1, <2>2, SourceStays DEF LInv, Made
    <3>2. ~(Back1Moves /\ on = j)
      <4>1. place \in [Sources -> {"library", "quarantine", "beside", "gone"}]
        BY DEF AInv, ATypeOK
      <4> QED
        BY <2>1, <4>1 DEF Back1Moves, Outside
    <3>3. ~Approved(j)
      BY <1>s, <2>1, <2>2 DEF JInv, Approved
    <3> QED
      BY <2>2, <3>1, <3>2, <3>3, FirstStays
  <2>3. CASE Holder(j) /\ 1 \notin standing[j]
    <3>1. Busy(j) => act \in {"clear again", "preserve again", "preserved"}
      BY <2>3 DEF Holder
    <3>2. ~(on = j /\ Places) /\ ~(on = j /\ act \in {"restore 2", "restore 1"})
      BY <3>1 DEF Busy, Places, AdoptMoves, AdoptLands
    <3>3. source'[j] = s /\ Holder(j)'
      BY <2>1, <2>3, <3>2, HolderStep
    <3> QED
      BY <3>3
  <2> QED
    BY <2>1, <2>2, <2>3
<1> QED
  BY <1>1, <1>2

LEMMA ResultIsJournalled ==
    ASSUME AInv, VInv, Verified, LInv, JInv, [Next]_vars,
           NEW s \in Sources, s \notin spoiled' \cup crossed', target'[s] \in Encoders
    PROVE  \E j \in Jobs : source'[j] = s /\ take'[j] = target'[s] /\ Put(j)'
<1>s. s \notin spoiled \cup crossed
  BY SpoiltForGood
<1>t. target \in [Sources -> Encoders \cup {None, Foreign}]
  BY DEF AInv, ATypeOK
<1>f. Foreign \notin Encoders /\ None \notin Encoders
  BY BoundsAssumption DEF Foreign, None, Encoders
<1>1. CASE target'[s] = target[s]
  <2>1. PICK j \in Jobs : source[j] = s /\ take[j] = target[s] /\ Put(j)
    BY <1>s, <1>1 DEF JInv
  <2>2. source'[j] = s /\ take'[j] = target'[s]
    BY <1>1, <1>f, <2>1, SourceStays, TakeStays
  <2>3. ~(Back2Moves /\ on = j)
    BY <1>t, <1>f, <2>1 DEF Back2Moves
  <2> QED
    BY <2>1, <2>2, <2>3, PutStays
<1>2. CASE Places /\ source[on] = s /\ target'[s] = take[on]
  <2>1. PICK j \in Jobs : j = on
    BY <1>2 DEF Places, AdoptMoves, AdoptLands, AInv, AtWork
  <2>2. take[j] # None
    BY <1>f, <1>2, <2>1
  <2>3. source'[j] = s /\ take'[j] = target'[s]
    BY <1>2, <2>1, <2>2, SourceStays, TakeStays
  <2>4. on' = j /\ act' \in {"landed", "adopted"}
    BY <1>2, <2>1 DEF Places, AdoptMoves, AdoptLands, Do
  <2> QED
    BY <2>3, <2>4 DEF Put, Busy
<1> QED
  BY <1>1, <1>2, <1>f, TargetMoves

\* With no adoption under way, History and the disk agree on both operations of every
\* adoption, whatever was killed, taken up again, compensated or restored before
THEOREM HistoryIsDisk == Spec => []JournalIsDisk
<1>1. Init => JInv
  BY BoundsAssumption DEF Init, AInit, JInv, Outside, Claims, Pending, Put, Busy, None, Encoders
<1>2. AInv /\ VInv /\ Verified /\ LInv /\ JInv /\ [Next]_vars => JInv'
  <2> SUFFICES ASSUME AInv, VInv, Verified, LInv, JInv, [Next]_vars
               PROVE  JInv'
    OBVIOUS
  <2> QED
    BY OneClaimStep, FirstIsOutside, PutIsThere, OutsideIsAnswered, ResultIsJournalled DEF JInv
<1>3. AInv /\ VInv /\ Verified /\ [Next]_vars => VInv' /\ Verified'
  BY VerifiedStep
<1>4. AInv /\ VInv /\ Verified /\ LInv /\ [Next]_vars => LInv'
  BY LocalStep
<1>5. AInv /\ JInv => JournalIsDisk
  <2> SUFFICES ASSUME AInv, JInv, NEW s \in Sources \ (spoiled \cup crossed), AtRest(s)
               PROVE  /\ place[s] \in {"quarantine", "gone"} <=>
                             \E j \in Jobs : source[j] = s /\ 1 \in standing[j]
                      /\ target[s] \in Encoders =>
                             \E j \in Jobs : source[j] = s /\ 2 \in standing[j] /\ take[j] = target[s]
                      /\ \A j \in Jobs : source[j] = s /\ 2 \in standing[j] =>
                             target[s] \in {take[j], Foreign}
    BY DEF JournalIsDisk
  <2>1. Outside(s) <=> place[s] \in {"quarantine", "gone"}
    BY DEF AInv, ATypeOK, Outside
  <2>2. \A j \in Jobs : source[j] = s => ~Holder(j)
    BY HolderAtWork
  <2>3. \A j \in Jobs : Put(j) <=> 2 \in standing[j]
    BY DEF Put, Busy, AtRest
  <2> QED
    BY <2>1, <2>2, <2>3 DEF JInv
<1> QED
  BY <1>1, <1>2, <1>3, <1>4, <1>5, LocalStart, VerifiedStart, AdoptionInvariant, PTL DEF Spec
=============================================================================
