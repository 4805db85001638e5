--------------------------- MODULE AdoptionProofs ---------------------------
(***************************************************************************)
(* Proofs about adoptions beside the conversion queue, for any number of   *)
(* sources, rows, encoders, plans and accidents: an adoption, its          *)
(* compensation and a restore move staging directories and index rows      *)
(* under the queue, and leave what the queue promises standing.            *)
(***************************************************************************)
EXTENDS Adoption, OptimizationProofs

\* Whoever holds the lock is about a job, and who asked may still have a plan
AtWork ==
    /\ act # "idle" => on \in Jobs
    /\ asking # None => plans < MaxPlans

AInv == ATypeOK /\ AtWork /\ OInv

\* The results of two operations are a pair, whichever of them is written
LEMMA WritePair ==
    ASSUME NEW S, NEW J, NEW r \in [J -> S \X S], NEW v \in S, NEW j \in J, NEW n \in {1, 2}
    PROVE  [r EXCEPT ![j][n] = v] \in [J -> S \X S]
<1>1. CASE n = 1
  BY <1>1
<1>2. CASE n = 2
  BY <1>2
<1> QED
  BY <1>1, <1>2

LEMMA OneMorePlan ==
    ASSUME NEW n \in 0 .. MaxPlans, n < MaxPlans
    PROVE  n + 1 \in 0 .. MaxPlans
BY AdoptionAssumption

LEMMA OneMoreSpoiled ==
    ASSUME NEW A \in SUBSET Sources, NEW s \in Sources
    PROVE  A \cup {s} \subseteq Sources
OBVIOUS

LEMMA ATypeStep == ATypeOK /\ AtWork /\ OTypeOK /\ [Next]_vars => ATypeOK' /\ AtWork'
<1> SUFFICES ASSUME ATypeOK, AtWork, OTypeOK, [Next]_vars
             PROVE  ATypeOK' /\ AtWork'
  OBVIOUS
<1> DEFINE Typed == ATypeOK /\ AtWork
<1>o. /\ source \in [Jobs -> Sources]
      /\ known \in [Sources -> Versions \cup {Away}]
      /\ out \in [Jobs -> Encoders \cup {None}]
  BY DEF OTypeOK
<1>b. MaxPlans \in Nat
  BY AdoptionAssumption
<1> USE <1>o, <1>b
    DEF ATypeOK, AtWork, avars, orders, commit, ovars, rows
<1> DEFINE Words == {"none", "done", "refused"}
<1>w. ASSUME NEW n \in {1, 2}, on \in Jobs, Refuse(n)
      PROVE  /\ result' \in [Jobs -> Words \X Words]
             /\ bad' = TRUE /\ act' \in {"put back 2"} /\ on' = on
  <2>1. result' = [result EXCEPT ![on][n] = "refused"]
    BY <1>w DEF Refuse
  <2>2. result \in [Jobs -> Words \X Words] /\ "refused" \in Words
    OBVIOUS
  <2>3. [result EXCEPT ![on][n] = "refused"] \in [Jobs -> Words \X Words]
    BY <1>w, <2>2, WritePair
  <2> QED
    BY <1>w, <2>1, <2>3 DEF Refuse, Do
<1>1. ASSUME NEW j \in Jobs, Preflight(j)
      PROVE  Typed'
  BY <1>1 DEF Preflight
<1>2. ASSUME Approve
      PROVE  Typed'
  <2>1. CASE UNCHANGED << plan, keep, take, result, standing, recovery, plans >>
    BY <1>2, <2>1 DEF Approve
  <2>2. CASE ~UNCHANGED << plan, keep, take, result, standing, recovery, plans >>
    <3> DEFINE j == asking
    <3>0. j # None /\ known[source[j]] # Away
      BY <1>2, <2>2 DEF Approve
    <3>j. j \in Jobs
      BY <3>0
    <3>s. source[j] \in Sources
      BY <3>j
    <3>1. /\ j \in Jobs /\ source[j] \in Sources /\ known[source[j]] \in Versions
      <4>1. known[source[j]] \in Versions \cup {Away}
        BY <3>s
      <4> QED
        BY <3>j, <3>s, <3>0, <4>1, Zenon
    <3>p. plans' = plans + 1 /\ plans < MaxPlans
      BY <1>2, <2>2, <3>0 DEF Approve
    <3>2. /\ plan' = [plan EXCEPT ![j] = "approved"]
          /\ keep' = [keep EXCEPT ![j] = known[source[j]]]
          /\ take' = [take EXCEPT ![j] = out[j]]
          /\ result' = [result EXCEPT ![j] = << "none", "none" >>]
          /\ standing' = [standing EXCEPT ![j] = {}]
          /\ recovery' = recovery \ {j}
          /\ plans' = plans + 1
          /\ asking' = None
          /\ UNCHANGED << place, target, item, cancelling, commit, spoiled >>
      BY <1>2, <2>2 DEF Approve
    <3>c. crossed' = crossed \/ crossed' = crossed \cup {source[j]}
      BY <1>2, <2>2 DEF Approve
    <3>d. crossed' \subseteq Sources
      <4>1. crossed \in SUBSET Sources
        OBVIOUS
      <4>2. crossed \cup {source[j]} \subseteq Sources
        BY <3>s, <4>1, OneMoreSpoiled, Zenon
      <4> QED
        BY <3>c, <4>1, <4>2, Zenon
    <3>3. plans' \in 0 .. MaxPlans
      <4>1. plans \in 0 .. MaxPlans
        OBVIOUS
      <4>2. plans + 1 \in 0 .. MaxPlans
        BY <3>p, <4>1, OneMorePlan, Zenon
      <4> QED
        BY <3>p, <4>2, Zenon
    <3> HIDE DEF j
    <3> QED
      BY <3>1, <3>2, <3>3, <3>d
  <2> QED
    BY <2>1, <2>2
<1>3. ASSUME NEW j \in Jobs, CancelRead(j)
      PROVE  Typed'
  BY <1>3 DEF CancelRead
<1>4. ASSUME CancelDelete
      PROVE  Typed'
  <2>1. cancelling \in Jobs /\ source[cancelling] \in Sources /\ cancelling' = None
    BY <1>4 DEF CancelDelete
  <2>2. UNCHANGED plan \/ plan' = [plan EXCEPT ![cancelling] = "none"]
    BY <1>4 DEF CancelDelete
  <2>3. spoiled' = spoiled \/ spoiled' = spoiled \cup {source[cancelling]}
    BY <1>4 DEF CancelDelete
  <2>4. plan' \in [Jobs -> {"none", "approved", "executing", "done", "failed"}]
    BY <2>1, <2>2
  <2>5. spoiled' \subseteq Sources
    <3>1. spoiled \in SUBSET Sources
      OBVIOUS
    <3>2. spoiled \cup {source[cancelling]} \subseteq Sources
      BY <2>1, <3>1, OneMoreSpoiled, Zenon
    <3> QED
      BY <2>3, <3>1, <3>2, Zenon
  <2> QED
    BY <1>4, <2>1, <2>4, <2>5 DEF CancelDelete
<1>5. ASSUME NEW j \in Jobs, Begin(j)
      PROVE  Typed'
  BY <1>5 DEF Begin, Do
<1>6. ASSUME TargetIsClear
      PROVE  Typed'
  <2>1. on \in Jobs
    BY <1>6 DEF TargetIsClear
  <2>c. crossed' \subseteq Sources
    <3>1. crossed' = crossed \/ crossed' = crossed \cup {source[on]}
      BY <1>6 DEF TargetIsClear
    <3>2. crossed \in SUBSET Sources /\ source[on] \in Sources
      BY <2>1
    <3>3. crossed \cup {source[on]} \subseteq Sources
      BY <3>2, OneMoreSpoiled, Zenon
    <3> QED
      BY <3>1, <3>2, <3>3, Zenon
  <2>2. CASE Clear(on)
    BY <1>6, <2>1, <2>2, <2>c DEF TargetIsClear, Do
  <2>3. CASE ~Clear(on) /\ plan[on] = "none"
    BY <1>6, <2>1, <2>3, <2>c DEF TargetIsClear, Leave, Do
  <2>4. CASE ~Clear(on) /\ plan[on] # "none"
    <3>0. result' = [result EXCEPT ![on][1] = "refused"] /\ act' = "refuse" /\ on' = on /\ bad' = bad
      BY <1>6, <2>4 DEF TargetIsClear, Do
    <3>1. result \in [Jobs -> Words \X Words] /\ "refused" \in Words /\ 1 \in {1, 2}
      OBVIOUS
    <3>2. result' \in [Jobs -> Words \X Words]
      BY <2>1, <3>0, <3>1, WritePair, Zenon
    <3> QED
      BY <1>6, <2>1, <2>c, <3>0, <3>2 DEF TargetIsClear
  <2> QED
    BY <2>2, <2>3, <2>4
<1>6a. ASSUME RefuseSecond
       PROVE  Typed'
  <2>1. on \in Jobs
    BY <1>6a DEF RefuseSecond
  <2>2. /\ result' = [result EXCEPT ![on][2] = "refused"]
        /\ bad' = TRUE /\ act' = "end" /\ on' = on
    BY <1>6a DEF RefuseSecond, Do
  <2>3. result \in [Jobs -> Words \X Words] /\ "refused" \in Words /\ 2 \in {1, 2}
    OBVIOUS
  <2>4. result' \in [Jobs -> Words \X Words]
    BY <2>1, <2>2, <2>3, WritePair, Zenon
  <2> QED
    BY <1>6a, <2>1, <2>2, <2>4 DEF RefuseSecond
<1>7. ASSUME PreserveSkipped
      PROVE  Typed'
  BY <1>7 DEF PreserveSkipped, Do
<1>8. ASSUME PreserveMoves
      PROVE  Typed'
  BY <1>8 DEF PreserveMoves, Do
<1>9. ASSUME PreserveRecovered
      PROVE  Typed'
  BY <1>9 DEF PreserveRecovered, Do
<1>10. ASSUME PreserveRefused
      PROVE  Typed'
  <2>1. on \in Jobs
    BY <1>10 DEF PreserveRefused
  <2>2. CASE Leave /\ UNCHANGED result
    BY <1>10, <2>1, <2>2 DEF PreserveRefused, Leave, Do
  <2>3. CASE Refuse(1)
    BY <1>10, <2>1, <2>3, <1>w DEF PreserveRefused
  <2> QED
    BY <1>10, <2>2, <2>3 DEF PreserveRefused
<1>11. ASSUME PreserveRecorded
      PROVE  Typed'
  <2>1. on \in Jobs
    BY <1>11 DEF PreserveRecorded
  <2>2. CASE Leave /\ UNCHANGED << known, result, standing >>
    BY <1>11, <2>1, <2>2 DEF PreserveRecorded, Leave, Do
  <2>3. CASE /\ result' = [result EXCEPT ![on][1] = "done"]
             /\ standing' = [standing EXCEPT ![on] = @ \cup {1}]
             /\ Do("adopt", on) /\ UNCHANGED bad
    <3>0. result \in [Jobs -> Words \X Words] /\ "done" \in Words /\ 1 \in {1, 2}
      OBVIOUS
    <3>1. result' \in [Jobs -> Words \X Words]
      BY <2>1, <2>3, <3>0, WritePair, Zenon
    <3>2. standing' \in [Jobs -> SUBSET {1, 2}]
      BY <2>1, <2>3
    <3> QED
      BY <1>11, <2>1, <2>3, <3>1, <3>2 DEF PreserveRecorded, Do
  <2> QED
    BY <1>11, <2>2, <2>3 DEF PreserveRecorded
<1>12. ASSUME AdoptSkipped
      PROVE  Typed'
  BY <1>12 DEF AdoptSkipped, Do
<1>13. ASSUME AdoptMoves
      PROVE  Typed'
  BY <1>13 DEF AdoptMoves, Do
<1>13a. ASSUME AdoptLands
        PROVE  Typed'
  BY <1>13a DEF AdoptLands, Do
<1>13c. ASSUME AdoptLeaves
        PROVE  Typed'
  BY <1>13c DEF AdoptLeaves, Do
<1>13b. ASSUME AdoptStays
        PROVE  Typed'
  <2>1. on \in Jobs /\ source[on] \in Sources
    BY <1>13b DEF AdoptStays
  <2>2. crossed \in SUBSET Sources
    OBVIOUS
  <2>3. crossed \cup {source[on]} \subseteq Sources
    BY <2>1, <2>2, OneMoreSpoiled, Zenon
  <2> QED
    BY <1>13b, <2>1, <2>3, <1>w DEF AdoptStays
<1>14. ASSUME AdoptRefused
      PROVE  Typed'
  <2>1. on \in Jobs
    BY <1>14 DEF AdoptRefused
  <2> QED
    BY <1>14, <2>1, <1>w DEF AdoptRefused
<1>15. ASSUME AdoptFinished
      PROVE  Typed'
  BY <1>15 DEF AdoptFinished, Do
<1>16. ASSUME AdoptJournalled
      PROVE  Typed'
  BY <1>16 DEF AdoptJournalled, Do
<1>17. ASSUME AdoptRecorded
      PROVE  Typed'
  <2>1. on \in Jobs
    BY <1>17 DEF AdoptRecorded
  <2>2. CASE Refuse(2) /\ UNCHANGED item
    BY <1>17, <2>1, <2>2, <1>w DEF AdoptRecorded
  <2>3. CASE ~(Refuse(2) /\ UNCHANGED item)
    <3>1. /\ item' = [item EXCEPT ![on] = "live"] /\ act' = "end" /\ on' = on
          /\ UNCHANGED << result, bad >>
      BY <1>17, <2>3 DEF AdoptRecorded, Do
    <3> QED
      BY <1>17, <2>1, <3>1 DEF AdoptRecorded
  <2> QED
    BY <2>2, <2>3
<1>18. ASSUME End
      PROVE  Typed'
  BY <1>18 DEF End, Leave, Do
<1>19. ASSUME Back2Skipped
      PROVE  Typed'
  BY <1>19 DEF Back2Skipped, Backing, After2, Do
<1>20. ASSUME Back2Moves
      PROVE  Typed'
  BY <1>20 DEF Back2Moves, Backing, After2, Do
<1>21. ASSUME Back2Refused
      PROVE  Typed'
  <2>1. on \in Jobs
    BY <1>21 DEF Back2Refused, Backing
  <2>a. RefuseBack("restore 1")
    BY <1>21 DEF Back2Refused
  <2>b. recovery' \in {recovery, recovery \cup {on}} /\ on' = on /\ act' \in {"end", "restore 1"}
    BY <2>a DEF RefuseBack, Do
  <2>2. recovery' \subseteq Jobs /\ on' = on /\ act' \in {"end", "restore 1"}
    BY <2>1, <2>b
  <2> QED
    BY <1>21, <2>1, <2>2 DEF Back2Refused
<1>22. ASSUME Back1Skipped
      PROVE  Typed'
  <2>1. on \in Jobs
    BY <1>22 DEF Back1Skipped, Backing1
  <2>2. (act' = "end" /\ on' = on) \/ (act' = "idle" /\ on' = None)
    BY <1>22 DEF Back1Skipped, Do
  <2> QED
    BY <1>22, <2>1, <2>2 DEF Back1Skipped
<1>23. ASSUME Back1Moves
      PROVE  Typed'
  BY <1>23 DEF Back1Moves, Backing1, Do
<1>24. ASSUME Back1Refused
      PROVE  Typed'
  <2>1. on \in Jobs
    BY <1>24 DEF Back1Refused, Backing1
  <2>a. RefuseBack("idle")
    BY <1>24 DEF Back1Refused
  <2>b. recovery' \in {recovery, recovery \cup {on}} /\ on' = on /\ act' \in {"end", "idle"}
    BY <2>a DEF RefuseBack, Do
  <2>2. recovery' \subseteq Jobs /\ on' = on /\ act' \in {"end", "idle"}
    BY <2>1, <2>b
  <2> QED
    BY <1>24, <2>1, <2>2 DEF Back1Refused
<1>25. ASSUME NEW j \in Jobs, Restore(j)
      PROVE  Typed'
  BY <1>25 DEF Restore, Do
<1>26. ASSUME CommitDies
      PROVE  Typed'
  <2>1. source[on] \in Sources
    BY <1>26 DEF CommitDies
  <2>2. /\ act' = "idle" /\ on' = None /\ bad' = FALSE
        /\ spoiled' = spoiled \/ spoiled' = spoiled \cup {source[on]}
    BY <1>26 DEF CommitDies, Leave, Do
  <2>3. spoiled \subseteq Sources
    OBVIOUS
  <2>4. ASSUME NEW s \in spoiled'
        PROVE  s \in Sources
    BY <2>1, <2>2, <2>3, <2>4
  <2>5. spoiled' \subseteq Sources
    BY <2>4
  <2> QED
    BY <1>26, <2>2, <2>5 DEF CommitDies
<1>27. ASSUME WorkerBumps
      PROVE  Typed'
  BY <1>27 DEF WorkerBumps
<1>28. ASSUME NEW s \in Sources, EditOriginal(s)
      PROVE  Typed'
  BY <1>28 DEF EditOriginal, Spoil
<1>29. ASSUME NEW s \in Sources, TakeOriginal(s)
      PROVE  Typed'
  BY <1>29 DEF TakeOriginal, Spoil
<1>30. ASSUME NEW s \in Sources, DropFile(s)
      PROVE  Typed'
  BY <1>30 DEF DropFile
<1>31. ASSUME NEW s \in Sources, IndexLibrary(s)
      PROVE  Typed'
  BY <1>31 DEF IndexLibrary
<1>32. CASE UNCHANGED avars /\ (Buttons \/ Beginning \/ World \/ WorkerCycle)
  BY <1>32
<1>33. CASE UNCHANGED vars
  BY <1>33 DEF vars
<1> QED
  BY <1>1, <1>2, <1>3, <1>4, <1>5, <1>6, <1>6a, <1>7, <1>8, <1>9, <1>10, <1>11, <1>12,
     <1>13, <1>13a, <1>13b, <1>13c, <1>14, <1>15, <1>16, <1>17, <1>18, <1>19, <1>20, <1>21, <1>22, <1>23,
     <1>24, <1>25, <1>26, <1>27, <1>28, <1>29, <1>30, <1>31, <1>32, <1>33
  DEF Next, Request, Forward, Backward, Accident, WorkerCycle

\* What an adoption may do beside the queue without disturbing its invariant
LEMMA Beside ==
    ASSUME OInv,
           UNCHANGED << rows, encoders, worker, web >>,
           staging' \in [Jobs -> Encoders \cup {None}],
           bytes' = bytes,
           known' \in [Sources -> Versions \cup {Away}],
           upsets' \in 0 .. MaxUpsets, upsets <= upsets'
    PROVE  OInv'
<1>1. OTypeOK'
  BY DEF OInv, OTypeOK, rows, encoders, worker, cycle
<1>2. WorkerKnows'
  <2>1. ASSUME NEW s \in Sources PROVE bytes'[s] <= upsets'
    <3>1. bytes[s] \in Nat /\ upsets \in Nat /\ upsets' \in Nat /\ bytes[s] <= upsets
      BY BoundsAssumption DEF OInv, OTypeOK, WorkerKnows, Versions
    <3> QED
      BY <3>1
  <2> QED
    BY <2>1 DEF OInv, WorkerKnows, worker, cycle
<1>3. OneActive' /\ HandleIsActive' /\ SettlesAll' /\ RunningIsBacked'
  BY DEF OInv, OneActive, HandleIsActive, SettlesAll, RunningIsBacked,
         rows, encoders, worker, cycle
<1> QED
  BY <1>1, <1>2, <1>3 DEF OInv

LEMMA OKept == AInv /\ [Next]_vars => OInv'
<1> SUFFICES ASSUME AInv, [Next]_vars
             PROVE  OInv'
  OBVIOUS
<1>a. /\ OInv /\ OTypeOK
      /\ source \in [Jobs -> Sources]
      /\ staging \in [Jobs -> Encoders \cup {None}]
      /\ known \in [Sources -> Versions \cup {Away}]
      /\ upsets \in 0 .. MaxUpsets /\ MaxUpsets \in Nat
  BY BoundsAssumption DEF AInv, OInv, OTypeOK
<1>b. /\ keep \in [Jobs -> Versions]
      /\ take \in [Jobs -> Encoders \cup {None}]
      /\ act # "idle" => on \in Jobs
  BY DEF AInv, ATypeOK, AtWork
<1>1. CASE [ONext]_ovars
  BY <1>1, <1>a, InvStep
<1>2. CASE upsets < MaxUpsets /\ upsets' = upsets + 1
           /\ UNCHANGED << rows, staging, encoders, bytes, known, worker, web >>
  BY <1>2, <1>a, Beside
<1>3. CASE PreserveRecorded
  <2>1. /\ UNCHANGED << rows, staging, encoders, bytes, worker, web, upsets >>
        /\ known' = known \/ known' = [known EXCEPT ![source[on]] = Away]
    BY <1>3 DEF PreserveRecorded
  <2>2. known' \in [Sources -> Versions \cup {Away}]
    BY <1>a, <2>1
  <2> QED
    BY <1>a, <2>1, <2>2, Beside
<1>4. CASE AdoptMoves \/ AdoptLeaves
  <2>1. /\ UNCHANGED << rows, encoders, bytes, known, worker, web, upsets >>
        /\ staging' = [staging EXCEPT ![on] = None]
    BY <1>4 DEF AdoptMoves, AdoptLeaves
  <2>2. staging' \in [Jobs -> Encoders \cup {None}]
    BY <1>a, <2>1
  <2> QED
    BY <1>a, <2>1, <2>2, Beside
<1>5. CASE Back2Moves
  <2>1. /\ UNCHANGED << rows, encoders, bytes, known, worker, web, upsets >>
        /\ staging' = [staging EXCEPT ![on] = take[on]]
        /\ on \in Jobs
    BY <1>5, <1>b DEF Back2Moves, Backing
  <2>2. staging' \in [Jobs -> Encoders \cup {None}]
    BY <1>a, <1>b, <2>1
  <2> QED
    BY <1>a, <2>1, <2>2, Beside
<1>6. CASE Back1Moves
  <2>1. /\ UNCHANGED << rows, staging, encoders, bytes, worker, web, upsets >>
        /\ \/ known' = [known EXCEPT ![source[on]] = keep[on]]
           \/ known' = [known EXCEPT ![source[on]] = Away]
        /\ on \in Jobs
    BY <1>6, <1>b DEF Back1Moves, Backing1
  <2>2. known' \in [Sources -> Versions \cup {Away}]
    BY <1>a, <1>b, <2>1
  <2> QED
    BY <1>a, <2>1, <2>2, Beside
<1>7. CASE WorkerBumps
  <2>1. /\ UNCHANGED << rows, staging, encoders, bytes, known, cycle, web, upsets >>
        /\ pc = "idle" /\ phase' = "down" /\ todo' = {} /\ owned' = None
    BY <1>7 DEF WorkerBumps
  <2>2. OTypeOK'
    BY <1>a, <2>1 DEF OTypeOK, rows, encoders, cycle
  <2> QED
    BY <1>a, <2>1, <2>2
    DEF OInv, WorkerKnows, OneActive, HandleIsActive, SettlesAll, RunningIsBacked,
        rows, encoders, cycle
<1>8. Accident => \/ [ONext]_ovars \/ WorkerBumps
                  \/ /\ upsets < MaxUpsets /\ upsets' = upsets + 1
                     /\ UNCHANGED << rows, staging, encoders, bytes, known, worker, web >>
  BY DEF Accident, CommitDies, EditOriginal, TakeOriginal, DropFile, IndexLibrary, ONext, Files
<1>9. Request => UNCHANGED ovars
  BY DEF Request, Preflight, Approve, CancelRead, CancelDelete
<1>10. Forward => UNCHANGED ovars \/ PreserveRecorded \/ AdoptMoves \/ AdoptLeaves
  BY DEF Forward, Begin, TargetIsClear, RefuseSecond, PreserveSkipped, PreserveMoves,
         PreserveRecovered, PreserveRefused, AdoptSkipped, AdoptLands, AdoptStays, AdoptRefused,
         AdoptFinished, AdoptJournalled, AdoptRecorded, End
<1>11. Backward => UNCHANGED ovars \/ Back2Moves \/ Back1Moves
  BY DEF Backward, Back2Skipped, Back2Refused, Back1Skipped, Back1Refused, Restore
<1>12. Buttons \/ Beginning \/ World \/ WorkerCycle => ONext
  BY DEF ONext, WorkerCycle
<1>13. UNCHANGED vars => UNCHANGED ovars
  BY DEF vars
<1> QED
  BY <1>1, <1>2, <1>3, <1>4, <1>5, <1>6, <1>7, <1>8, <1>9, <1>10, <1>11, <1>12, <1>13
  DEF Next

LEMMA AStart == Init => AInv
<1> SUFFICES ASSUME Init PROVE AInv
  OBVIOUS
<1>1. OInv
  BY InvStart DEF Init
<1>a. 0 \in Versions /\ 0 \in 0 .. MaxPlans
  BY BoundsAssumption, AdoptionAssumption DEF Versions
<1>b. result \in [Jobs -> {"none", "done", "refused"} \X {"none", "done", "refused"}]
  BY DEF Init, AInit
<1>2. ATypeOK
  BY <1>a, <1>b DEF Init, AInit, ATypeOK
<1>3. AtWork
  BY DEF Init, AInit, AtWork
<1> QED
  BY <1>1, <1>2, <1>3 DEF AInv

\* Types, and what the queue promises, for as long as anything happens
THEOREM AdoptionInvariant == Spec => []AInv
<1>1. Init => AInv
  BY AStart
<1>2. AInv /\ [Next]_vars => AInv'
  BY ATypeStep, OKept DEF AInv, OInv
<1> QED
  BY <1>1, <1>2, PTL DEF Spec

\* Every variable holds what the code can put in it
THEOREM AdoptionTypes == Spec => []TypeOK
<1>1. AInv => TypeOK
  BY DEF AInv, OInv, TypeOK
<1> QED
  BY <1>1, AdoptionInvariant, PTL

\* At most one row is running or verifying: MAX_CONCURRENT of the queue, with
\* adoptions, restores, cancels and deaths between the worker's statements
THEOREM AtMostOneActive == Spec => []OneActive
<1>1. AInv => OneActive
  BY DEF AInv, OInv
<1> QED
  BY <1>1, AdoptionInvariant, PTL

\* A row that says running, once reconcile is through, has the living worker
\* behind it: it holds the handle of the encoder the row records
THEOREM RunningHasItsWorker == Spec => []RunningIsBacked
<1>1. AInv => RunningIsBacked
  BY DEF AInv, OInv
<1> QED
  BY <1>1, AdoptionInvariant, PTL

------------------------------------------------------------------------------
(* What is offered, and what is put in the library.                          *)

\* A commit and the worker's cycle take turns; an adoption takes what its job has
\* recorded; and what a result's place holds is that of a job about the very file
Verified ==
    /\ act # "idle" => pc = "idle"
    /\ \A j \in Jobs : take[j] # None => take[j] = out[j]
    /\ \A s \in Sources : target[s] \in Encoders =>
          /\ child[target[s]] = "ok"
          /\ runs[target[s]] \in Jobs
          /\ source[runs[target[s]]] = s
          /\ out[runs[target[s]]] = target[s]

\* The queue goes on: nothing an adoption has taken or put in the library changes
LEMMA QueueGoesOn ==
    ASSUME AInv, VInv, Verified, [ONext]_ovars,
           UNCHANGED << take, target >>, act' # "idle" => pc' = "idle"
    PROVE  Verified'
<1>t. /\ source \in [Jobs -> Sources]
      /\ out \in [Jobs -> Encoders \cup {None}]
      /\ child \in [Encoders -> {"unused", "running", "ok", "error"}]
      /\ runs \in [Encoders -> Jobs \cup {None}]
      /\ pc # "idle" => at \in Jobs
      /\ None \notin Jobs
  BY DEF AInv, OInv, OTypeOK, WorkerKnows, None, Jobs
<1>1. \A e \in Encoders : child[e] = "ok" => child'[e] = "ok" /\ runs'[e] = runs[e]
  BY <1>t DEF ONext, Buttons, Cycle, Beginning, World, Files, Enqueue, Remove, Press, ClearStaging,
     WriteCancelled, Poll, VerifyPasses, VerifyFails, VerifyRaises, Record, Decide,
     MarkStale, LaunchRefused, LaunchRuns, LaunchRaises, Popen, Start, Settle, Settled,
     WorkerDies, WebDies, EncoderEnds, Edit, Index, ovars, encoders
<1>2. \A j \in Jobs : out[j] # None => out'[j] = out[j] /\ source'[j] = source[j]
  <2>1. CASE Record
    <3>1. out[at] = None /\ UNCHANGED source /\ \A j \in Jobs \ {at} : out'[j] = out[j]
      BY <1>t, <2>1 DEF Record, VInv, RecordedOnce
    <3> QED
      BY <3>1
  <2>2. ASSUME NEW s \in Sources, Enqueue(s)
        PROVE  \A j \in Jobs : out[j] # None => out'[j] = out[j] /\ source'[j] = source[j]
    BY <1>t, <2>2 DEF Enqueue, VInv, RecordedOnce
  <2>3. CASE UNCHANGED << out, source >>
    BY <2>3
  <2>4. Record \/ (\E s \in Sources : Enqueue(s)) \/ UNCHANGED << out, source >>
    BY DEF ONext, Buttons, Cycle, Beginning, World, Files, Remove, Press, ClearStaging,
       WriteCancelled, Poll, VerifyPasses, VerifyFails, VerifyRaises, Decide,
       MarkStale, LaunchRefused, LaunchRuns, LaunchRaises, Start, Settle, Settled, Fail,
       WorkerDies, WebDies, EncoderEnds, Edit, Index, ovars, rows
  <2> QED
    BY <2>1, <2>2, <2>3, <2>4
<1>3. \A j \in Jobs : take'[j] # None => take'[j] = out'[j]
  BY <1>2 DEF Verified
<1>4. ASSUME NEW s \in Sources, target'[s] \in Encoders
      PROVE  /\ child'[target'[s]] = "ok" /\ runs'[target'[s]] \in Jobs
             /\ source'[runs'[target'[s]]] = s /\ out'[runs'[target'[s]]] = target'[s]
  <2>1. target' = target /\ target[s] # None
    BY <1>4 DEF None, Encoders
  <2> QED
    BY <1>1, <1>2, <1>4, <2>1 DEF Verified
<1> QED
  BY <1>3, <1>4 DEF Verified

\* An adoption moves no output but its own
LEMMA OutputsBeside ==
    ASSUME VInv, UNCHANGED << rows, encoders, pc, at, hashed >>,
           owned' \in {owned, None},
           staging' = staging
              \/ (pc = "idle" /\ \E j \in Jobs : \E e \in {None, out[j]} :
                                     staging' = [staging EXCEPT ![j] = e]),
           staging \in [Jobs -> Encoders \cup {None}]
    PROVE  VInv'
BY DEF VInv, RecordedOnce, OwnDirectory, HashedIsVerified, ReadyIsItsBytes, rows, encoders

LEMMA VerifiedStep == AInv /\ VInv /\ Verified /\ [Next]_vars => VInv' /\ Verified'
<1> SUFFICES ASSUME AInv, VInv, Verified, [Next]_vars
             PROVE  VInv' /\ Verified'
  OBVIOUS
<1>t. /\ OInv
      /\ target \in [Sources -> Encoders \cup {None, Foreign}]
      /\ take \in [Jobs -> Encoders \cup {None}]
      /\ source \in [Jobs -> Sources]
      /\ out \in [Jobs -> Encoders \cup {None}]
      /\ staging \in [Jobs -> Encoders \cup {None}]
      /\ act # "idle" => on \in Jobs
  BY DEF AInv, ATypeOK, AtWork, OInv, OTypeOK
<1>e. None \notin Encoders /\ Foreign \notin Encoders
  BY BoundsAssumption DEF None, Foreign, Encoders
<1>1. CASE [ONext]_ovars /\ UNCHANGED << take, target >> /\ (act' # "idle" => pc' = "idle")
  BY <1>1, <1>t, OutputsStep, QueueGoesOn
<1>2. CASE UNCHANGED << rows, encoders, staging, pc, at, hashed, take, target >>
           /\ owned' \in {owned, None} /\ (act' # "idle" => pc' = "idle")
  <2>1. VInv'
    BY <1>2, <1>t, OutputsBeside
  <2>2. Verified'
    BY <1>2 DEF Verified, rows, encoders
  <2> QED
    BY <2>1, <2>2
<1>3. CASE Approve
  <2>1. UNCHANGED << rows, encoders, staging, pc, at, hashed, owned, target, act >>
    BY <1>3 DEF Approve, ovars, worker, cycle, commit
  <2>2. VInv'
    BY <2>1, <1>t, OutputsBeside
  <2>3. \A j \in Jobs : take'[j] \in {take[j], out[j]}
    BY <1>3, <1>t DEF Approve
  <2> QED
    BY <2>1, <2>2, <2>3 DEF Verified, rows, encoders
<1>4. CASE AdoptMoves \/ AdoptLands
  <2> DEFINE e == take[on]
  <2>1. /\ UNCHANGED << rows, encoders, pc, at, hashed, owned, take >>
        /\ on \in Jobs /\ pc = "idle"
        /\ staging' = staging \/ staging' = [staging EXCEPT ![on] = None]
        /\ target' = [target EXCEPT ![source[on]] = e]
        /\ out[on] = e /\ e # None
    BY <1>4, <1>t DEF AdoptMoves, AdoptLands, Adoptable, Resolves, Verified, worker, cycle,
       orders, ovars
  <2>2. VInv'
    BY <2>1, <1>t, OutputsBeside
  <2>3. child[e] = "ok" /\ runs[e] = on
    BY <2>1 DEF VInv, RecordedOnce
  <2>4. ASSUME NEW s \in Sources, target'[s] \in Encoders
        PROVE  /\ child[target'[s]] = "ok" /\ runs[target'[s]] \in Jobs
               /\ source[runs[target'[s]]] = s /\ out[runs[target'[s]]] = target'[s]
    <3>1. CASE s = source[on]
      BY <3>1, <2>1, <2>3, <1>t
    <3>2. CASE s # source[on]
      <4>1. target'[s] = target[s]
        BY <3>2, <2>1, <1>t
      <4> QED
        BY <4>1, <2>4 DEF Verified
    <3> QED
      BY <3>1, <3>2
  <2> QED
    BY <2>1, <2>2, <2>4 DEF Verified, rows, encoders
<1>4a. CASE AdoptLeaves
  <2>1. /\ UNCHANGED << rows, encoders, pc, at, hashed, owned, take, target >>
        /\ on \in Jobs /\ pc = "idle"
        /\ staging' = [staging EXCEPT ![on] = None]
    BY <1>4a, <1>t DEF AdoptLeaves, Verified, worker, cycle, orders
  <2>2. VInv'
    BY <2>1, <1>t, OutputsBeside
  <2> QED
    BY <2>1, <2>2 DEF Verified, rows, encoders
<1>5. CASE Back2Moves
  <2>1. /\ UNCHANGED << rows, encoders, pc, at, hashed, owned, take >>
        /\ on \in Jobs /\ pc = "idle" /\ take[on] \in {None, out[on]}
        /\ staging' = [staging EXCEPT ![on] = take[on]]
        /\ target' = [target EXCEPT ![source[on]] = None]
    BY <1>5, <1>t, <1>e DEF Back2Moves, Backing, Verified, worker, cycle
  <2>2. VInv'
    BY <2>1, <1>t, OutputsBeside
  <2>3. \A s \in Sources : target'[s] \in Encoders => target'[s] = target[s]
    BY <2>1, <1>t, <1>e
  <2> QED
    BY <2>1, <2>2, <2>3 DEF Verified, rows, encoders
<1>6. ASSUME NEW s \in Sources, DropFile(s)
      PROVE  VInv' /\ Verified'
  <2>1. /\ UNCHANGED << rows, encoders, staging, pc, at, hashed, owned, take, act >>
        /\ target' = [target EXCEPT ![s] = Foreign]
    BY <1>6 DEF DropFile, worker, cycle, orders, commit
  <2>2. VInv'
    BY <2>1, <1>t, OutputsBeside
  <2>3. \A f \in Sources : target'[f] \in Encoders => target'[f] = target[f]
    BY <2>1, <1>t, <1>e
  <2> QED
    BY <2>1, <2>2, <2>3 DEF Verified, rows, encoders
<1>7. Request => Approve \/ UNCHANGED << ovars, take, target, act >>
  BY DEF Request, Preflight, CancelRead, CancelDelete, orders, commit
<1>8. Forward => \/ AdoptMoves \/ AdoptLands \/ AdoptLeaves
                 \/ /\ UNCHANGED << rows, encoders, staging, worker, take, target >>
                    /\ act' # "idle" => pc' = "idle"
  <2>1. \A j \in Jobs : Begin(j) => pc = "idle" /\ UNCHANGED << ovars, take, target >>
    BY DEF Begin
  <2>2. ASSUME Forward, ~(AdoptMoves \/ AdoptLands \/ AdoptLeaves), ~ \E j \in Jobs : Begin(j)
        PROVE  act # "idle" /\ UNCHANGED << rows, encoders, staging, worker, take, target >>
    BY <2>2 DEF Forward, TargetIsClear, RefuseSecond, PreserveSkipped, PreserveMoves,
       PreserveRecovered, PreserveRefused, PreserveRecorded, AdoptSkipped, AdoptStays, AdoptRefused,
       AdoptFinished, AdoptJournalled, AdoptRecorded, End, orders, ovars
  <2> QED
    BY <2>1, <2>2 DEF Verified, ovars, worker, cycle
<1>9. Backward => \/ Back2Moves
                  \/ /\ UNCHANGED << rows, encoders, staging, worker, take, target >>
                     /\ act' # "idle" => pc' = "idle"
  <2>1. \A j \in Jobs : Restore(j) => pc = "idle" /\ UNCHANGED << ovars, take, target >>
    BY DEF Restore, orders
  <2>2. ASSUME Backward, ~Back2Moves, ~ \E j \in Jobs : Restore(j)
        PROVE  act # "idle" /\ UNCHANGED << rows, encoders, staging, worker, take, target >>
    BY <2>2 DEF Backward, Back2Skipped, Back2Refused, Back1Skipped, Back1Moves, Back1Refused,
       Backing, Backing1, orders, ovars
  <2> QED
    BY <2>1, <2>2 DEF Verified, ovars, worker, cycle
<1>10. ASSUME NEW s \in Sources, EditOriginal(s) \/ TakeOriginal(s) \/ IndexLibrary(s)
       PROVE  UNCHANGED << rows, encoders, staging, worker, take, target, act >>
  BY <1>10 DEF EditOriginal, Edit, TakeOriginal, IndexLibrary, Index, orders, commit, avars
<1>11. CommitDies => UNCHANGED << rows, encoders, staging, worker, take, target >> /\ act' = "idle"
  BY DEF CommitDies, Leave, Do, orders
<1>12. WorkerBumps => /\ UNCHANGED << rows, encoders, staging, pc, at, hashed, take, target, act >>
                      /\ owned' = None
  BY DEF WorkerBumps, cycle, avars, orders, commit
<1>13. WorkerCycle => ONext /\ UNCHANGED << take, target >> /\ act' = "idle"
  BY DEF WorkerCycle, ONext, avars, orders, commit
<1>14. (Buttons \/ Beginning \/ World) /\ UNCHANGED avars =>
          ONext /\ UNCHANGED << take, target, act >> /\ (pc' = pc \/ pc' = "idle")
  BY DEF Buttons, Enqueue, Remove, Press, ClearStaging, WriteCancelled, Beginning, Start, Settle,
     Settled, World, WorkerDies, WebDies, EncoderEnds, Rest, Reach, ONext, worker, cycle,
     avars, orders, commit
<1>15. CASE Accident
  <2>1. CASE \E s \in Sources : DropFile(s)
    BY <2>1, <1>6
  <2>2. CASE ~ \E s \in Sources : DropFile(s)
    BY <1>2, <1>10, <1>11, <1>12, <1>15, <2>2 DEF Accident, Verified, worker, cycle
  <2> QED
    BY <2>1, <2>2
<1>16. CASE Request \/ Forward \/ Backward
  BY <1>2, <1>3, <1>4, <1>4a, <1>5, <1>7, <1>8, <1>9, <1>16 DEF Verified, ovars, worker, cycle
<1>17. CASE WorkerCycle \/ ((Buttons \/ Beginning \/ World) /\ UNCHANGED avars)
  BY <1>1, <1>13, <1>14, <1>17 DEF Verified
<1>18. CASE UNCHANGED vars
  BY <1>2, <1>18 DEF Verified, vars, ovars, worker, cycle, avars, orders, commit
<1> QED
  BY <1>15, <1>16, <1>17, <1>18 DEF Next

LEMMA VerifiedStart == Init => VInv /\ Verified
<1>1. Init => VInv
  BY OutputsStart DEF Init
<1>2. Init => Verified
  BY DEF Init, OInit, AInit, Verified, None, Encoders
<1> QED
  BY <1>1, <1>2

\* Whatever is stopped, discarded, adopted, compensated, restored or killed on the way,
\* what a ready row offers, and what an adoption has put at a result's place, is the
\* finished output of an encode of that very file
THEOREM OnlyVerifiedOutputs == Spec => []VerifiedOnly
<1>1. AInv /\ VInv /\ Verified /\ [Next]_vars => VInv' /\ Verified'
  BY VerifiedStep
<1>2. VInv /\ Verified => VerifiedOnly
  BY DEF VInv, Verified, VerifiedOnly
<1> QED
  BY <1>1, <1>2, VerifiedStart, AdoptionInvariant, PTL DEF Spec
=============================================================================
