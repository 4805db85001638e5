-------------------------- MODULE OptimizationProofs --------------------------
(***************************************************************************)
(* Proofs about the conversion queue, for any number of rows, encoders,    *)
(* sources and accidents.                                                  *)
(*                                                                         *)
(* That one row at most is active rests on the handle: while the worker    *)
(* owns an encoder, no row is active but the one that encoder was started  *)
(* for, so the row a poll brings to verifying has no active neighbour even *)
(* when the web server wrote to it in between.  That a running row has a   *)
(* worker behind it rests on reconcile: until it has come to the end of    *)
(* what it read, every active row is among what it has still to settle.    *)
(***************************************************************************)
EXTENDS Optimization, TLAPS

\* What the worker knows of what it is doing
WorkerKnows ==
    /\ pc # "idle" => at \in Jobs
    /\ web # NoButton => web.job \in Jobs
    /\ \A s \in Sources : bytes[s] <= upsets

\* While it owns an encoder no row is active but that encoder's
HandleIsActive ==
    owned # None =>
        /\ runs[owned] \in Jobs /\ child[owned] # "unused"
        /\ \A j \in Jobs : state[j] \in ActiveStates => j = runs[owned]

\* Reconcile has read every active row, and owns nothing
SettlesAll ==
    /\ phase # "up" => owned = None /\ pc = "idle"
    /\ phase = "settling" => \A j \in Jobs : state[j] \in ActiveStates => j \in todo

OInv ==
    /\ OTypeOK /\ WorkerKnows
    /\ OneActive /\ HandleIsActive
    /\ SettlesAll /\ RunningIsBacked

LEMMA TypeStep ==
    OTypeOK /\ WorkerKnows /\ HandleIsActive /\ [ONext]_ovars => OTypeOK' /\ WorkerKnows'
<1> SUFFICES ASSUME OTypeOK, WorkerKnows, HandleIsActive, [ONext]_ovars
             PROVE  OTypeOK' /\ WorkerKnows'
  OBVIOUS
<1> DEFINE Typed == OTypeOK /\ WorkerKnows
<1> USE BoundsAssumption
    DEF OTypeOK, WorkerKnows, States, LiveStates, ActiveStates, RemovableStates,
        Versions, Away, None, Jobs, Encoders, NoButton,
        ovars, rows, encoders, worker, cycle
<1>1. ASSUME NEW s \in Sources, Enqueue(s)
      PROVE  Typed'
  <2>1. PICK j \in Jobs : /\ source' = [source EXCEPT ![j] = s]
                          /\ state' = [state EXCEPT ![j] = "queued"]
                          /\ made' = [made EXCEPT ![j] = known[s]]
    BY <1>1 DEF Enqueue
  <2>2. known[s] \in 0 .. MaxUpsets
    BY <1>1 DEF Enqueue
  <2> QED
    BY <1>1, <2>1, <2>2 DEF Enqueue
<1>2. ASSUME NEW j \in Jobs, Remove(j)
      PROVE  Typed'
  BY <1>2 DEF Remove
<1>3. ASSUME NEW j \in Jobs, Press(j)
      PROVE  Typed'
  <2>1. /\ web' \in [does : {"nothing", "stop", "discard"}, step : {"clear", "write"},
                      job : Jobs \cup {None}]
        /\ web'.job \in Jobs
    BY <1>3 DEF Press
  <2>2. UNCHANGED << rows, staging, encoders, bytes, known, worker, upsets >>
    BY <1>3 DEF Press
  <2> QED
    BY <2>1, <2>2
<1>4. ASSUME ClearStaging
      PROVE  Typed'
  BY <1>4 DEF ClearStaging
<1>5. ASSUME WriteCancelled
      PROVE  Typed'
  BY <1>5 DEF WriteCancelled
<1>6. ASSUME Poll
      PROVE  Typed'
  <2> DEFINE j == runs[owned]
  <2>1. j \in Jobs /\ UNCHANGED << encoders, bytes, known, phase, todo, web, upsets >>
    BY <1>6 DEF Poll, HandleIsActive
  <2>2. /\ state' \in [Jobs -> States \cup {"unmade"}]
        /\ pid' \in [Jobs -> Encoders \cup {None}]
        /\ staging' \in [Jobs -> Encoders \cup {None}]
    BY <1>6, <2>1 DEF Poll, Fail
  <2>3. /\ UNCHANGED << source, made, out, hashed >> /\ owned' = None
        /\ (pc' = "verify" /\ at' = j) \/ UNCHANGED << pc, at >>
    BY <1>6 DEF Poll, Fail, Reach
  <2> QED
    BY <2>1, <2>2, <2>3
<1>7. ASSUME VerifyPasses
      PROVE  Typed'
  BY <1>7 DEF VerifyPasses, Reach
<1>8. ASSUME VerifyFails
      PROVE  Typed'
  BY <1>8 DEF VerifyFails, Fail, Rest, Reach
<1>9. ASSUME VerifyRaises
      PROVE  Typed'
  BY <1>9 DEF VerifyRaises, Rest, Reach
<1>10. ASSUME Record
      PROVE  Typed'
  BY <1>10 DEF Record, Rest, Reach
<1>11. ASSUME Decide
      PROVE  Typed'
  BY <1>11 DEF Decide, NextJob, Waiting, Reach, WriteWaiting, Active
<1>12. ASSUME MarkStale
      PROVE  Typed'
  BY <1>12 DEF MarkStale, Rest, Reach
<1>13. ASSUME LaunchRefused
      PROVE  Typed'
  BY <1>13 DEF LaunchRefused, WriteWaiting, Rest, Reach
<1>14. ASSUME LaunchRuns
      PROVE  Typed'
  BY <1>14 DEF LaunchRuns, Active, Popen, Rest, Reach
<1>15. ASSUME LaunchRaises
      PROVE  Typed'
  BY <1>15 DEF LaunchRaises, Popen, Rest, Reach
<1>16. ASSUME Start
      PROVE  Typed'
  BY <1>16 DEF Start, Active
<1>17. ASSUME NEW j \in Jobs, Settle(j)
      PROVE  Typed'
  BY <1>17 DEF Settle, Fail
<1>18. ASSUME Settled
      PROVE  Typed'
  BY <1>18 DEF Settled
<1>19. ASSUME WorkerDies
      PROVE  Typed'
  BY <1>19 DEF WorkerDies, Rest, Reach
<1>20. ASSUME WebDies
      PROVE  Typed'
  BY <1>20 DEF WebDies
<1>21. ASSUME NEW e \in Encoders, EncoderEnds(e)
      PROVE  Typed'
  <2>1. child' \in [Encoders -> {"unused", "running", "ok", "error"}]
    BY <1>21 DEF EncoderEnds
  <2> QED
    BY <1>21, <2>1 DEF EncoderEnds
<1>22. ASSUME NEW s \in Sources, Edit(s)
      PROVE  Typed'
  <2>1. bytes[s] + 1 \in 0 .. MaxUpsets /\ upsets' = upsets + 1 /\ upsets' \in 0 .. MaxUpsets
    BY <1>22 DEF Edit
  <2>2. bytes' \in [Sources -> 0 .. MaxUpsets]
    BY <1>22, <2>1 DEF Edit
  <2>3. ASSUME NEW f \in Sources PROVE bytes'[f] <= upsets'
    BY <1>22, <2>1 DEF Edit
  <2> QED
    BY <1>22, <2>1, <2>2, <2>3 DEF Edit
<1>23. ASSUME NEW s \in Sources, Index(s)
      PROVE  Typed'
  <2>1. known' \in [Sources -> Versions \cup {Away}]
    BY <1>23 DEF Index
  <2>2. UNCHANGED << rows, staging, encoders, bytes, worker, web, upsets >>
    BY <1>23 DEF Index
  <2> QED
    BY <2>1, <2>2
<1>24. CASE UNCHANGED ovars
  BY <1>24
<1> QED
  BY <1>1, <1>2, <1>3, <1>4, <1>5, <1>6, <1>7, <1>8, <1>9, <1>10, <1>11, <1>12, <1>13, <1>14, <1>15, <1>16, <1>17, <1>18, <1>19, <1>20, <1>21, <1>22, <1>23, <1>24
  DEF ONext, Buttons, Cycle, Beginning, World, Files

LEMMA InvStep == OInv /\ [ONext]_ovars => OInv'
<1> SUFFICES ASSUME OInv, [ONext]_ovars
             PROVE  OInv'
  OBVIOUS
<1> DEFINE Others == OneActive /\ HandleIsActive /\ SettlesAll /\ RunningIsBacked
<1>t. OTypeOK' /\ WorkerKnows'
  BY TypeStep DEF OInv
<1> USE BoundsAssumption
    DEF OInv, OTypeOK, WorkerKnows, OneActive, HandleIsActive, SettlesAll, RunningIsBacked,
        LiveStates, ActiveStates, RemovableStates, None, Jobs, Encoders,
        ovars, rows, encoders, worker, cycle
<1>1. ASSUME NEW s \in Sources, Enqueue(s)
      PROVE  Others'
  BY <1>1 DEF Enqueue
<1>2. ASSUME NEW j \in Jobs, Remove(j)
      PROVE  Others'
  BY <1>2 DEF Remove
<1>3. ASSUME NEW j \in Jobs, Press(j)
      PROVE  Others'
  BY <1>3 DEF Press
<1>4. ASSUME ClearStaging
      PROVE  Others'
  BY <1>4 DEF ClearStaging
<1>5. ASSUME WriteCancelled
      PROVE  Others'
  BY <1>5 DEF WriteCancelled
<1>6. ASSUME Poll
      PROVE  Others'
  <2> DEFINE j == runs[owned]
  <2>1. /\ phase = "up" /\ phase' = "up" /\ owned \in Encoders /\ owned' = None
        /\ j \in Jobs /\ \A k \in Jobs : state[k] \in ActiveStates => k = j
        /\ UNCHANGED todo
    BY <1>6 DEF Poll
  <2>2. \A k \in Jobs \ {j} : state'[k] = state[k]
    BY <1>6, <2>1 DEF Poll, Fail, Reach, Outlived
  <2>3. state'[j] # "running"
    BY <1>6, <2>1 DEF Poll, Fail, Reach, Outlived
  <2>4. \A k \in Jobs : state'[k] \in ActiveStates => k = j
    BY <2>1, <2>2
  <2> QED
    BY <2>1, <2>2, <2>3, <2>4
<1>7. ASSUME VerifyPasses
      PROVE  Others'
  BY <1>7 DEF VerifyPasses, Reach
<1>8. ASSUME VerifyFails
      PROVE  Others'
  BY <1>8 DEF VerifyFails, Fail, Rest, Reach
<1>9. ASSUME VerifyRaises
      PROVE  Others'
  BY <1>9 DEF VerifyRaises, Rest, Reach
<1>10. ASSUME Record
      PROVE  Others'
  <2>1. \A k \in Jobs : state'[k] \in ActiveStates => state'[k] = state[k]
    BY <1>10 DEF Record
  <2>2. UNCHANGED << pid, runs, child, owned, phase, todo >> /\ pc' = "idle"
    BY <1>10 DEF Record, Rest, Reach
  <2> QED
    BY <2>1, <2>2
<1>11. ASSUME Decide
      PROVE  Others'
  <2>1. \A k \in Jobs : state'[k] \in ActiveStates => state'[k] = state[k]
    BY <1>11 DEF Decide, NextJob, Waiting, Reach, WriteWaiting
  <2>2. phase' = "up" /\ UNCHANGED << pid, runs, child, owned, phase, todo >>
    BY <1>11 DEF Decide
  <2> QED
    BY <2>1, <2>2
<1>12. ASSUME MarkStale
      PROVE  Others'
  BY <1>12 DEF MarkStale, Rest, Reach
<1>13. ASSUME LaunchRefused
      PROVE  Others'
  BY <1>13 DEF LaunchRefused, WriteWaiting, Rest, Reach
<1>14. ASSUME LaunchRuns
      PROVE  Others'
  <2>1. PICK e \in Encoders : Popen(e) /\ owned' = e /\ pid' = [pid EXCEPT ![at] = e]
    BY <1>14 DEF LaunchRuns
  <2>2. at \in Jobs /\ \A k \in Jobs : state[k] \notin ActiveStates
    BY <1>14 DEF LaunchRuns, Active
  <2>3. \A k \in Jobs : state'[k] \in ActiveStates => k = at
    BY <1>14, <2>2 DEF LaunchRuns
  <2>4. runs'[e] = at /\ child'[e] = "running" /\ pid'[at] = e
    BY <2>1, <2>2 DEF Popen
  <2>5. phase' = "up"
    BY <1>14 DEF LaunchRuns
  <2> QED
    BY <2>1, <2>2, <2>3, <2>4, <2>5
<1>15. ASSUME LaunchRaises
      PROVE  Others'
  BY <1>15 DEF LaunchRaises, Popen, Rest, Reach
<1>16. ASSUME Start
      PROVE  Others'
  BY <1>16 DEF Start, Active
<1>17. ASSUME NEW j \in Jobs, Settle(j)
      PROVE  Others'
  BY <1>17 DEF Settle, Fail
<1>18. ASSUME Settled
      PROVE  Others'
  BY <1>18 DEF Settled
<1>19. ASSUME WorkerDies
      PROVE  Others'
  BY <1>19 DEF WorkerDies, Rest, Reach
<1>20. ASSUME WebDies
      PROVE  Others'
  BY <1>20 DEF WebDies
<1>21. ASSUME NEW e \in Encoders, EncoderEnds(e)
      PROVE  Others'
  BY <1>21 DEF EncoderEnds
<1>22. ASSUME NEW s \in Sources, Edit(s)
      PROVE  Others'
  BY <1>22 DEF Edit
<1>23. ASSUME NEW s \in Sources, Index(s)
      PROVE  Others'
  BY <1>23 DEF Index
<1>24. CASE UNCHANGED ovars
  BY <1>24
<1> QED
  BY <1>t, <1>1, <1>2, <1>3, <1>4, <1>5, <1>6, <1>7, <1>8, <1>9, <1>10, <1>11, <1>12, <1>13, <1>14, <1>15, <1>16, <1>17, <1>18, <1>19, <1>20, <1>21, <1>22, <1>23, <1>24
  DEF ONext, Buttons, Cycle, Beginning, World, Files

\* From the first state on
LEMMA InvStart == OInit => OInv
BY BoundsAssumption, SourcesAssumption
DEF OInit, OInv, OTypeOK, WorkerKnows, OneActive, HandleIsActive, SettlesAll, RunningIsBacked,
    States, LiveStates, ActiveStates, RemovableStates, Versions, Away, None, Jobs, Encoders,
    NoButton

THEOREM QueueInvariant == OSpec => []OInv
<1>1. OInit => OInv
  BY InvStart
<1>2. OInv /\ [ONext]_ovars => OInv'
  BY InvStep
<1> QED
  BY <1>1, <1>2, PTL DEF OSpec

\* Every variable of the queue holds what the code can put in it
THEOREM QueueTypes == OSpec => []OTypeOK
<1>1. OInv => OTypeOK
  BY DEF OInv
<1> QED
  BY <1>1, QueueInvariant, PTL

------------------------------------------------------------------------------
(* What a ready row offers.                                                  *)

\* A job whose output is recorded is done with: it is not encoded a second time
RecordedOnce ==
    \A j \in Jobs : out[j] # None =>
        /\ runs[out[j]] = j /\ child[out[j]] = "ok"
        /\ state[j] \notin ActiveStates \cup {"unmade", "queued", "waiting"}
        /\ pc # "idle" => at # j
        /\ owned # None => runs[owned] # j

\* What stands in a job's directory was written by an encoder of its own
OwnDirectory ==
    \A j \in Jobs : staging[j] # None =>
        runs[staging[j]] = j /\ child[staging[j]] # "unused"

\* What is about to be recorded was verified, and nothing else has come in its place
HashedIsVerified ==
    /\ pc \in {"verify", "record"} => owned = None
    /\ pc = "record" =>
          /\ hashed # None /\ runs[hashed] = at /\ child[hashed] = "ok"
          /\ staging[at] \in {None, hashed}

VInv == RecordedOnce /\ OwnDirectory /\ HashedIsVerified /\ ReadyIsItsBytes

LEMMA OutputsStart == OInit => VInv
BY DEF OInit, VInv, RecordedOnce, OwnDirectory, HashedIsVerified, ReadyIsItsBytes

LEMMA OutputsStep == OInv /\ VInv /\ [ONext]_ovars => VInv'
<1> SUFFICES ASSUME OInv, VInv, [ONext]_ovars
             PROVE  VInv'
  OBVIOUS
<1>t. /\ state \in [Jobs -> States \cup {"unmade"}]
      /\ source \in [Jobs -> Sources]
      /\ out \in [Jobs -> Encoders \cup {None}]
      /\ staging \in [Jobs -> Encoders \cup {None}]
      /\ child \in [Encoders -> {"unused", "running", "ok", "error"}]
      /\ runs \in [Encoders -> Jobs \cup {None}]
      /\ owned \in Encoders \cup {None}
      /\ hashed \in Encoders \cup {None}
      /\ pc # "idle" => at \in Jobs
      /\ web # NoButton => web.job \in Jobs
      /\ owned # None => runs[owned] \in Jobs /\ child[owned] # "unused"
      /\ None \notin Encoders /\ None \notin Jobs
  BY DEF OInv, OTypeOK, WorkerKnows, HandleIsActive, None, Encoders, Jobs
<1> USE <1>t
    DEF VInv, RecordedOnce, OwnDirectory, HashedIsVerified, ReadyIsItsBytes,
        LiveStates, ActiveStates, RemovableStates,
        ovars, rows, encoders, worker, cycle
<1>1. ASSUME NEW s \in Sources, Enqueue(s)
      PROVE  VInv'
  BY <1>1 DEF Enqueue
<1>2. ASSUME NEW j \in Jobs, Remove(j)
      PROVE  VInv'
  BY <1>2 DEF Remove
<1>3. ASSUME NEW j \in Jobs, Press(j)
      PROVE  VInv'
  BY <1>3 DEF Press
<1>4. ASSUME ClearStaging
      PROVE  VInv'
  BY <1>4 DEF ClearStaging
<1>5. ASSUME WriteCancelled
      PROVE  VInv'
  BY <1>5 DEF WriteCancelled
<1>6. ASSUME Poll
      PROVE  VInv'
  BY <1>6 DEF Poll, Fail, Reach
<1>7. ASSUME VerifyPasses
      PROVE  VInv'
  BY <1>7 DEF VerifyPasses, Reach
<1>8. ASSUME VerifyFails
      PROVE  VInv'
  BY <1>8 DEF VerifyFails, Fail, Rest, Reach
<1>9. ASSUME VerifyRaises
      PROVE  VInv'
  BY <1>9 DEF VerifyRaises, Rest, Reach
<1>10. ASSUME Record
      PROVE  VInv'
  BY <1>10 DEF Record, Rest, Reach
<1>11. ASSUME Decide
      PROVE  VInv'
  BY <1>11 DEF Decide, NextJob, Waiting, Reach, WriteWaiting
<1>12. ASSUME MarkStale
      PROVE  VInv'
  BY <1>12 DEF MarkStale, Rest, Reach
<1>13. ASSUME LaunchRefused
      PROVE  VInv'
  BY <1>13 DEF LaunchRefused, WriteWaiting, Rest, Reach
<1>14. ASSUME LaunchRuns
      PROVE  VInv'
  BY <1>14 DEF LaunchRuns, Popen, Rest, Reach
<1>15. ASSUME LaunchRaises
      PROVE  VInv'
  BY <1>15 DEF LaunchRaises, Popen, Rest, Reach
<1>16. ASSUME Start
      PROVE  VInv'
  BY <1>16 DEF Start
<1>17. ASSUME NEW j \in Jobs, Settle(j)
      PROVE  VInv'
  BY <1>17 DEF Settle, Fail
<1>18. ASSUME Settled
      PROVE  VInv'
  BY <1>18 DEF Settled
<1>19. ASSUME WorkerDies
      PROVE  VInv'
  BY <1>19 DEF WorkerDies, Rest, Reach
<1>20. ASSUME WebDies
      PROVE  VInv'
  BY <1>20 DEF WebDies
<1>21. ASSUME NEW e \in Encoders, EncoderEnds(e)
      PROVE  VInv'
  BY <1>21 DEF EncoderEnds
<1>22. ASSUME NEW s \in Sources, Edit(s) \/ Index(s)
      PROVE  VInv'
  BY <1>22 DEF Edit, Index
<1>23. CASE UNCHANGED ovars
  BY <1>23
<1> QED
  BY <1>1, <1>2, <1>3, <1>4, <1>5, <1>6, <1>7, <1>8, <1>9, <1>10, <1>11, <1>12, <1>13,
     <1>14, <1>15, <1>16, <1>17, <1>18, <1>19, <1>20, <1>21, <1>22, <1>23
  DEF ONext, Buttons, Cycle, Beginning, World, Files

LEMMA QueueOutputs == OSpec => [](OInv /\ VInv)
<1>1. OInit => VInv
  BY OutputsStart
<1>2. OInv /\ VInv /\ [ONext]_ovars => VInv'
  BY OutputsStep
<1> QED
  BY <1>1, <1>2, QueueInvariant, PTL DEF OSpec

\* Whatever is stopped, discarded, started over or killed between the statements of
\* `_verify` and after, a ready row names the finished output of an encoder of its own
\* and nothing else stands in its directory
THEOREM ReadyIsVerified == OSpec => []ReadyIsItsBytes
<1>1. VInv => ReadyIsItsBytes
  BY DEF VInv
<1> QED
  BY <1>1, QueueOutputs, PTL
=============================================================================
