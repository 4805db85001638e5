--------------------------- MODULE ExecutorRunProofs ---------------------------
(***************************************************************************)
(* More proofs about Executor: what a plan leaves in the index when it is  *)
(* over, what a plan that was never killed leaves of its decisions, its    *)
(* requests and its coherence, and where its files are.                    *)
(***************************************************************************)
EXTENDS ExecutorProofs

-------------------------------------------------------------------------------
(* A plan that was never killed.                                           *)

\* It has nothing to finish, and its moves are its own.
Uncut ==
    crashes = 0 =>
        /\ ~resuming /\ ~recovering /\ ~finishing
        /\ pc # "finish"
        /\ pc \in {"idle", "settle"} => status # "executing"

\* What _record_move does after the journal and the index.
DoneAfter(o) ==
    /\ o \in spent
    /\ o \in Quarantines => entry[o] # "none"
    /\ o \in Filings => o \in asked

Follows ==
    crashes = 0 =>
        /\ \A o \in Ops : HasMoved(o) => DoneAfter(o) \/ (o = cur /\ pc \in Recording)
        /\ pc \in {"backup", "entry"} => cur \in spent
        /\ pc = "entry" /\ cur \in Filings => cur \in asked

Failed(o) == result[o] = "failed"

\* Every operation has its result, and they agree.
Decided ==
    /\ \A o \in Ops : ~Pending(o)
    /\ \/ \E o \in Ops : Failed(o)
       \/ \A o \in Ops : Journalled(o)
       \/ \A o \in Ops : ~Journalled(o)

\* The first run is at operation cur, and the files after it wait where they were.
FirstRun ==
    \A o \in Ops :
        /\ o < cur => ~Pending(o) /\ (Failed(o) \/ Journalled(o))
        /\ o > cur \/ (o = cur /\ pc = "next") => Pending(o) /\ disk[Src(o)] = o
        /\ o = cur /\ pc \in {"index", "spend", "backup", "entry"} =>
              ~Pending(o) /\ Journalled(o)

Wholly ==
    Coherent /\ crashes = 0 =>
        CASE pc = "idle" -> Decided \/ (status = "approved" /\ \A o \in Ops : Pending(o))
          [] pc = "settle" -> Decided
          [] pc = "check" -> Decided \/ \A o \in Ops : Pending(o)
          [] pc = "refuse" -> \A o \in Ops : ~Journalled(o) /\ (o < cur <=> ~Pending(o))
          [] OTHER -> FirstRun \/ (pc = "next" /\ Decided)

UInv == Uncut /\ Follows /\ Wholly


LEMMA InitUInv == Init => UInv
<1> SUFFICES ASSUME Init PROVE UInv
    OBVIOUS
<1> QED
    BY DEF Init, UInv, Uncut, Follows, Wholly, HasMoved, Moved, Pending

\* An operation that ends without a move, read operation by operation.
LEMMA EndsWithout ==
    ASSUME TypeOK, cur \in Ops, NEW r \in Results \ (Moved \cup {"none"}), EndWith(r)
    PROVE  /\ result'[cur] \notin Moved /\ result'[cur] = r /\ result'[cur] # "none"
           /\ \A o \in Ops \ {cur} : result'[o] = result[o] /\ final'[o] = final[o]
           /\ cur' = cur + 1
           /\ pc' = IF finishing THEN "finish" ELSE "next"
           /\ UNCHANGED << okRows, status, resuming, recovering, finishing, at >>
BY DEF TypeOK, EndWith, Advance, HasMoved

\* The words an operation can end with: none of them says moved.
LEMMA EndsAre ==
    /\ {"skipped_missing", "skipped_changed", "failed"} \subseteq Results \ (Moved \cup {"none"})
    /\ Results \ (Moved \cup {"none"}) \subseteq Results
BY DEF Results, Moved

LEMMA NextUncut == IInv /\ UInv /\ [Next]_vars => Uncut'
<1> SUFFICES ASSUME IInv, Uncut, [Next]_vars, crashes' = 0
             PROVE  Uncut'
    BY DEF UInv, Uncut
<1> USE DEF Uncut, memory, outside, records, after
<1>0. crashes \in Nat
    BY DEF IInv, TypeOK
<1>1. CASE Crash
    BY <1>0, <1>1 DEF Crash
<1>2. CASE Commit
    BY <1>2 DEF Commit
<1>3. CASE FinishRecords \/ FinishedRecords \/ Refuse \/ RefuseOne \/ RefusedAll
           \/ Proceed \/ SkipTerminal
    BY <1>3 DEF FinishRecords, FinishedRecords, Refuse, RefuseOne, RefusedAll, Proceed,
       SkipTerminal, Advance
<1>4. ASSUME NEW o \in Ops,
             \/ SkipMissing(o) \/ SkipChanged(o) \/ RecoverMove(o)
             \/ MoveFile(o) \/ LandCopy(o) \/ MoveFails(o)
      PROVE  Uncut'
    BY <1>4 DEF SkipMissing, SkipChanged, RecoverMove, MoveFile, LandCopy, MoveFails, At,
       EndWith, Advance, AlreadyMoved
<1>4a. CASE RemoveSource
    BY <1>4a DEF RemoveSource, EndWith, Advance
<1>5. CASE WriteResult \/ WriteJournal \/ MoveRow \/ LeaveRow
    BY <1>5 DEF WriteResult, WriteJournal, MoveRow, LeaveRow
<1>6. CASE RowRaises
    BY <1>6 DEF RowRaises, EndWith, Forget, Advance
<1>7. CASE SpendProposal \/ AskBackup \/ WriteEntry
    BY <1>7 DEF SpendProposal, AskBackup, WriteEntry, Advance
<1>8. CASE Close \/ Settle
    BY <1>8 DEF Close, Settle, Forget, IInv, Passes
<1>9. CASE Others
    BY <1>9 DEF Others, ByHand, Claim, Scan, ScanTooSoon, Outsider
<1>10. CASE UNCHANGED vars
    BY <1>10 DEF vars
<1> QED
    BY <1>1, <1>2, <1>3, <1>4, <1>4a, <1>5, <1>6, <1>7, <1>8, <1>9, <1>10 DEF Next, Step

LEMMA NextFollows == IInv /\ UInv /\ [Next]_vars => Follows'
<1> SUFFICES ASSUME IInv, UInv, [Next]_vars, crashes' = 0
             PROVE  Follows'
    BY DEF Follows
<1>0. /\ TypeOK /\ crashes \in Nat
      /\ pc \in Recording => cur \in Ops /\ at \in Names
    BY DEF IInv, TypeOK, Recorded
<1>1. CASE Crash
    BY <1>0, <1>1 DEF Crash
<1> SUFFICES ASSUME crashes = 0
             PROVE  Follows'
    BY <1>1 DEF Next, Step, Others, vars, outside, Outsider, Commit, FinishRecords,
       FinishedRecords, Refuse, RefuseOne, RefusedAll, Proceed, SkipTerminal, SkipMissing,
       SkipChanged, RecoverMove, MoveFile, LandCopy, RemoveSource, MoveFails, WriteResult, WriteJournal, MoveRow, LeaveRow, RowRaises,
       SpendProposal, AskBackup, WriteEntry, Close, Settle, ByHand, Claim, Scan, ScanTooSoon
<1>f. Uncut /\ Follows /\ ~recovering /\ ~finishing
    BY DEF UInv, Uncut
<1> USE <1>0, <1>f DEF Follows, DoneAfter, HasMoved, Recording, records, after, memory
<1>2. CASE Commit \/ FinishedRecords \/ Refuse \/ RefusedAll \/ Proceed \/ SkipTerminal \/ Close
    BY <1>2 DEF Commit, FinishedRecords, Refuse, RefusedAll, Proceed, SkipTerminal, Close, Advance
<1>3. CASE FinishRecords
    BY <1>3 DEF FinishRecords, Uncut
<1>4. CASE RefuseOne
    <2>1. \A o \in Ops : result'[o] \in Moved => result[o] \in Moved
        BY <1>4 DEF RefuseOne, Moved, TypeOK
    <2> QED
        BY <1>4, <2>1 DEF RefuseOne
<1>5. ASSUME NEW o \in Ops, SkipMissing(o) \/ SkipChanged(o) \/ MoveFails(o)
      PROVE  Follows'
    <2>1. /\ cur \in Ops /\ pc = "next" /\ UNCHANGED after
          /\ \E r \in Results \ (Moved \cup {"none"}) : EndWith(r)
        BY <1>5, EndsAre DEF SkipMissing, SkipChanged, MoveFails, At
    <2>2. /\ result'[cur] \notin Moved /\ pc' = "next"
          /\ \A p \in Ops \ {cur} : result'[p] = result[p]
        BY <2>1, EndsWithout
    <2> QED
        BY <2>1, <2>2
<1>6. ASSUME NEW o \in Ops, RecoverMove(o) \/ MoveFile(o) \/ LandCopy(o)
      PROVE  Follows'
    BY <1>6 DEF RecoverMove, MoveFile, LandCopy, Resolve, At
<1>6a. CASE RemoveSource
    <2>1. CASE pc' = "result" /\ UNCHANGED << records, memory >>
        <3>1. pc = "remove" /\ UNCHANGED after
            BY <1>6a DEF RemoveSource
        <3> QED
            BY <2>1, <3>1
    <2>2. CASE EndWith("failed")
        <3>1. cur \in Ops /\ pc = "remove" /\ UNCHANGED after
            BY <1>6a, KindAssumption DEF RemoveSource, IInv, Landed
        <3>2. /\ result'[cur] \notin Moved /\ pc' = "next"
              /\ \A p \in Ops \ {cur} : result'[p] = result[p]
            BY <2>2, <3>1, EndsAre, EndsWithout
        <3> QED
            BY <3>1, <3>2
    <2> QED
        BY <1>6a, <2>1, <2>2 DEF RemoveSource
<1>7. CASE WriteResult
    <2>1. \A p \in Ops \ {cur} : result'[p] = result[p]
        BY <1>7 DEF WriteResult, TypeOK
    <2> QED
        BY <1>7, <2>1 DEF WriteResult
<1>8. CASE WriteJournal \/ MoveRow \/ LeaveRow \/ SpendProposal \/ AskBackup
    BY <1>8 DEF WriteJournal, MoveRow, LeaveRow, SpendProposal, AskBackup
<1>9. CASE RowRaises
    <2>1. /\ cur \in Ops /\ pc = "index" /\ UNCHANGED after
          /\ EndWith("failed") /\ "failed" \in Results \ (Moved \cup {"none"})
        BY <1>9, EndsAre DEF RowRaises
    <2>2. /\ result'[cur] \notin Moved /\ pc' = "next"
          /\ \A p \in Ops \ {cur} : result'[p] = result[p]
        BY <2>1, EndsWithout
    <2> QED
        BY <2>1, <2>2
<1>10. CASE WriteEntry
    <2>1. cur \in Ops /\ UNCHANGED << result, asked, spent >> /\ pc' = "next"
        BY <1>10 DEF WriteEntry, Advance
    <2>2. \A o \in Ops : entry[o] # "none" => entry'[o] # "none"
        BY <1>10 DEF WriteEntry, TypeOK
    <2>3. cur \in Quarantines => entry'[cur] # "none"
        BY <1>10 DEF WriteEntry, TypeOK
    <2>4. cur \in spent /\ (cur \in Filings => cur \in asked)
        BY <1>10 DEF WriteEntry
    <2> QED
        BY <2>1, <2>2, <2>3, <2>4
<1>11. CASE Settle
    <2>1. \A o \in Ops : entry[o] # "none" => entry'[o] # "none"
        BY <1>11 DEF Settle
    <2> QED
        BY <1>11, <2>1 DEF Settle, Forget
<1>12. CASE Others
    BY <1>12 DEF Others, ByHand, Claim, Scan, ScanTooSoon, Outsider
<1>13. CASE UNCHANGED vars
    BY <1>13 DEF vars
<1> QED
    BY <1>1, <1>2, <1>3, <1>4, <1>5, <1>6, <1>6a, <1>7, <1>8, <1>9, <1>10, <1>11, <1>12, <1>13
    DEF Next, Step

\* Two operations never share a source, and no file is moved onto another's.
LEMMA SourcesApart ==
    /\ \A o, p \in Ops : o # p => Src(o) # Src(p)
    /\ \A o \in Ops, n \in 1 .. MaxNum : << DestOf[o], n >> # Src(o)
    /\ \A o \in Ops : o # Nothing
BY PlanAssumption DEF Src, Ops, Nothing

\* Moving one file: what it does to the names, one by one.
LEMMA Moves ==
    ASSUME IInv, NEW o \in Ops, MoveFile(o)
    PROVE  /\ o = cur /\ Pending(cur) /\ pc = "next" /\ pc' = "result"
           /\ \E n \in 1 .. MaxNum : at' = << DestOf[o], n >>
           /\ at' \in Names /\ at' # Src(o) /\ disk[Src(o)] = o /\ disk[at'] = Nothing
           /\ disk'[Src(o)] = Nothing /\ disk'[at'] = o
           /\ \A m \in Names \ {Src(o), at'} : disk'[m] = disk[m]
           /\ UNCHANGED << index, records, after, status, cur, resuming, finishing, bad, outside >>
<1>1. Resolve(o)
    BY DEF MoveFile
<1>2. disk' = [disk EXCEPT ![Src(o)] = Nothing, ![at'] = o]
    BY DEF MoveFile, Put
<1>3. Src(o) \in Names /\ disk \in [Names -> Ops \cup {Nothing, Foreign}]
    BY NameFacts DEF IInv, TypeOK
<1> QED
    BY <1>1, <1>2, <1>3, Resolved DEF MoveFile

\* Copying it to another filesystem,
LEMMA Copies ==
    ASSUME IInv, NEW o \in Ops, LandCopy(o)
    PROVE  /\ o = cur /\ o \in Crosses /\ Pending(cur) /\ pc = "next" /\ pc' = "remove"
           /\ \E n \in 1 .. MaxNum : at' = << DestOf[o], n >>
           /\ at' \in Names /\ at' # Src(o) /\ disk[Src(o)] = o /\ disk[at'] = Nothing
           /\ disk'[at'] = o
           /\ \A m \in Names \ {at'} : disk'[m] = disk[m]
           /\ UNCHANGED << index, records, after, status, cur, resuming, finishing, bad, outside >>
<1>1. Resolve(o)
    BY DEF LandCopy
<1>2. disk' = [disk EXCEPT ![at'] = o] /\ disk \in [Names -> Ops \cup {Nothing, Foreign}]
    BY DEF LandCopy, Put, IInv, TypeOK
<1> QED
    BY <1>1, <1>2, Resolved DEF LandCopy

\* and taking it from where it was.
LEMMA Removes ==
    ASSUME IInv, RemoveSource
    PROVE  /\ cur \in Ops /\ cur \in Crosses /\ pc = "remove" /\ Pending(cur) /\ ~finishing
           /\ at \in Names /\ at # Src(cur) /\ disk[at] = cur /\ disk[Src(cur)] = cur
           /\ UNCHANGED << index, after, outside >>
           /\ \/ /\ disk'[Src(cur)] = Nothing
                 /\ \A m \in Names \ {Src(cur)} : disk'[m] = disk[m]
                 /\ pc' = "result" /\ UNCHANGED << records, status, memory >>
              \/ EndWith("failed") /\ UNCHANGED files
<1>1. /\ cur \in Ops /\ cur \in Crosses /\ pc = "remove" /\ Pending(cur) /\ ~finishing
      /\ at \in Names /\ at # Src(cur) /\ disk[at] = cur /\ disk[Src(cur)] = cur
    BY KindAssumption DEF RemoveSource, IInv, Landed, Passes
<1>2. Src(cur) \in Names /\ disk \in [Names -> Ops \cup {Nothing, Foreign}]
    BY <1>1, NameFacts DEF IInv, TypeOK
<1> QED
    BY <1>1, <1>2 DEF RemoveSource, Put

LEMMA NextWholly == IInv /\ UInv /\ [Next]_vars => Wholly'
<1> SUFFICES ASSUME IInv, UInv, [Next]_vars, Coherent, crashes' = 0
             PROVE  Wholly'
    BY DEF Wholly
<1>0. /\ TypeOK /\ Passes /\ Ahead /\ crashes \in Nat
      /\ pc \in Recording => cur \in Ops /\ at \in Names
    BY DEF IInv, TypeOK, Recorded
<1>1. CASE Crash
    BY <1>0, <1>1 DEF Crash
<1> SUFFICES ASSUME crashes = 0
             PROVE  Wholly'
    BY <1>1 DEF Next, Step, Others, vars, outside, Outsider, Commit, FinishRecords,
       FinishedRecords, Refuse, RefuseOne, RefusedAll, Proceed, SkipTerminal, SkipMissing,
       SkipChanged, RecoverMove, MoveFile, LandCopy, RemoveSource, MoveFails, WriteResult, WriteJournal, MoveRow, LeaveRow, RowRaises,
       SpendProposal, AskBackup, WriteEntry, Close, Settle, ByHand, Claim, Scan, ScanTooSoon
<1>f. /\ ~recovering /\ ~finishing /\ ~resuming /\ pc # "finish"
      /\ pc = "idle" => status # "executing"
      /\ Wholly
    BY DEF UInv, Uncut
<1>g. pc \notin {"idle", "settle", "check", "refuse", "next"} => FirstRun
    BY <1>f DEF Wholly
<1> USE CountOrder
<1>2. CASE Commit
    BY <1>f, <1>2 DEF Commit, Wholly, Decided, Pending, Failed, Journalled, records
<1>3. CASE FinishRecords \/ FinishedRecords
    BY <1>f, <1>3 DEF FinishRecords, FinishedRecords
<1>4. CASE Refuse
    <2>1. PICK p \in Ops : Pending(p)
        BY <1>4 DEF Refuse, Stale
    <2>2. \A o \in Ops : Pending(o) /\ ~Journalled(o)
        BY <1>0, <1>f, <1>4, <2>1 DEF Refuse, Wholly, Decided, Ahead
    <2>3. pc' = "refuse" /\ cur' = 1 /\ UNCHANGED << result, okRows >>
        BY <1>4 DEF Refuse, records
    <2> QED
        BY <2>2, <2>3 DEF Wholly, Journalled, Pending
<1>4a. CASE RefuseOne
    <2>1. /\ cur \in Ops /\ pc = "refuse" /\ pc' = "refuse" /\ cur' = cur + 1
          /\ UNCHANGED okRows
        BY <1>0, <1>4a, Counting DEF RefuseOne, TypeOK
    <2>2. \A o \in Ops : ~Journalled(o) /\ (o < cur <=> ~Pending(o))
        BY <1>f, <2>1 DEF Wholly
    <2>3. result'[cur] # "none" /\ \A o \in Ops \ {cur} : result'[o] = result[o]
        BY <1>0, <1>4a, <2>1 DEF RefuseOne, TypeOK
    <2>4. \A o \in Ops : o < cur' <=> o = cur \/ o < cur
        BY <2>1
    <2> QED
        BY <2>1, <2>2, <2>3, <2>4 DEF Wholly, Journalled, Pending
<1>4b. CASE RefusedAll
    <2>1. /\ pc = "refuse" /\ pc' = "settle" /\ cur > N /\ cur \in 1 .. N + 1
          /\ UNCHANGED << result, okRows >>
        BY <1>0, <1>4b DEF RefusedAll, TypeOK, records
    <2>2. \A o \in Ops : ~Journalled(o) /\ ~Pending(o)
        BY <1>f, <2>1 DEF Wholly
    <2> QED
        BY <2>1, <2>2 DEF Wholly, Decided, Journalled, Pending
<1>5. CASE Proceed
    <2>1. CASE Decided
        BY <1>5, <2>1 DEF Proceed, Wholly, Decided, Pending, Failed, Journalled, records
    <2>2. CASE \A o \in Ops : Pending(o)
        <3>1. \A o \in Ops : disk[Src(o)] = o
            BY <1>5, <2>2 DEF Proceed, Stale
        <3>2. cur' = 1 /\ pc' = "next" /\ UNCHANGED << result, disk >>
            BY <1>5 DEF Proceed, files, records
        <3>3. FirstRun'
            BY <2>2, <3>1, <3>2 DEF FirstRun, Pending
        <3> QED
            BY <3>2, <3>3 DEF Wholly
    <2> QED
        BY <1>f, <1>5, <2>1, <2>2 DEF Proceed, Wholly
<1>6. CASE SkipTerminal
    <2>1. /\ pc = "next" /\ pc' = "next" /\ cur' = cur + 1 /\ cur \in Ops /\ ~Pending(cur)
          /\ UNCHANGED << result, okRows, disk >>
        BY <1>0, <1>f, <1>6, Counting DEF SkipTerminal, Advance, records, files, TypeOK
    <2>2. Decided
        BY <1>f, <2>1 DEF Wholly, FirstRun
    <2> QED
        BY <2>1, <2>2 DEF Wholly, Decided, Pending, Failed, Journalled
<1>7. ASSUME NEW o \in Ops, SkipMissing(o) \/ SkipChanged(o) \/ RecoverMove(o)
      PROVE  Wholly'
    <2>1. /\ o = cur /\ Pending(cur) /\ pc = "next" /\ disk[Src(cur)] # cur
        BY <1>7, <1>f, SourcesApart DEF SkipMissing, SkipChanged, RecoverMove, At, AlreadyMoved
    <2> QED
        BY <1>7, <1>f, <2>1 DEF Wholly, FirstRun, Decided
<1>8. ASSUME NEW o \in Ops, MoveFails(o)
      PROVE  Wholly'
    <2>1. /\ o = cur /\ cur \in Ops /\ Pending(cur) /\ pc = "next"
          /\ EndWith("failed") /\ "failed" \in Results \ (Moved \cup {"none"})
          /\ UNCHANGED << disk, okRows >>
        BY <1>8, EndsAre DEF MoveFails, At, files, EndWith
    <2>2. FirstRun
        BY <1>f, <2>1 DEF Wholly, Decided
    <2>3. /\ result'[cur] = "failed" /\ cur' = cur + 1 /\ pc' = "next"
          /\ \A p \in Ops \ {cur} : result'[p] = result[p]
        BY <1>0, <1>f, <2>1, EndsWithout
    <2>4. FirstRun'
        BY <2>1, <2>2, <2>3 DEF FirstRun, Pending, Failed, Journalled
    <2> QED
        BY <2>3, <2>4 DEF Wholly
<1>9. ASSUME NEW o \in Ops, MoveFile(o)
      PROVE  Wholly'
    <2>1. FirstRun
        BY <1>9, <1>f, Moves DEF Wholly, Decided
    <2>2. ASSUME NEW p \in Ops, p > cur PROVE disk'[Src(p)] = p
        <3>1. p # cur /\ Src(p) # Src(o) /\ disk[Src(p)] = p /\ Src(p) \in Names
            BY <1>9, <2>1, <2>2, Moves, SourcesApart, NameFacts DEF FirstRun
        <3>2. Src(p) # at'
            BY <1>9, <3>1, Moves, SourcesApart
        <3> QED
            BY <1>9, <3>1, <3>2, Moves
    <2>3. pc' = "result" /\ UNCHANGED << result, okRows, cur >>
        BY <1>9, Moves DEF records
    <2>4. FirstRun'
        BY <2>1, <2>2, <2>3 DEF FirstRun, Pending, Failed, Journalled
    <2> QED
        BY <2>3, <2>4 DEF Wholly
<1>9a. ASSUME NEW o \in Ops, LandCopy(o)
       PROVE  Wholly'
    <2>1. FirstRun
        BY <1>9a, <1>f, Copies DEF Wholly, Decided
    <2>2. ASSUME NEW p \in Ops, p > cur PROVE disk'[Src(p)] = p
        <3>1. disk[Src(p)] = p /\ Src(p) \in Names /\ Src(p) # at'
            BY <1>9a, <2>1, <2>2, Copies, NameFacts, SourcesApart DEF FirstRun
        <3> QED
            BY <1>9a, <3>1, Copies
    <2>3. pc' = "remove" /\ UNCHANGED << result, okRows, cur >>
        BY <1>9a, Copies DEF records
    <2>4. FirstRun'
        BY <2>1, <2>2, <2>3 DEF FirstRun, Pending, Failed, Journalled
    <2> QED
        BY <2>3, <2>4 DEF Wholly
<1>9b. CASE RemoveSource
    <2>0. FirstRun /\ cur \in Ops
        BY <1>g, <1>9b, Removes
    <2>1. CASE /\ \A m \in Names \ {Src(cur)} : disk'[m] = disk[m]
               /\ pc' = "result" /\ UNCHANGED << records, memory >>
        <3>1. ASSUME NEW p \in Ops, p > cur PROVE disk'[Src(p)] = p
            BY <2>0, <2>1, <3>1, NameFacts, SourcesApart DEF FirstRun
        <3>2. UNCHANGED << result, okRows, cur >>
            BY <2>1 DEF records, memory
        <3>3. FirstRun'
            BY <2>0, <2>1, <3>1, <3>2 DEF FirstRun, Pending, Failed, Journalled
        <3> QED
            BY <2>1, <3>3 DEF Wholly
    <2>2. CASE EndWith("failed") /\ UNCHANGED files
        <3>1. UNCHANGED << disk, okRows >>
            BY <2>2 DEF files, EndWith
        <3>2. /\ result'[cur] = "failed" /\ cur' = cur + 1 /\ pc' = "next"
              /\ \A p \in Ops \ {cur} : result'[p] = result[p]
            BY <1>0, <1>f, <2>0, <2>2, EndsAre, EndsWithout
        <3>3. FirstRun'
            BY <1>9b, <2>0, <3>1, <3>2, Removes DEF FirstRun, Pending, Failed, Journalled
        <3> QED
            BY <3>2, <3>3 DEF Wholly
    <2> QED
        BY <1>9b, <2>1, <2>2, Removes
<1>10. CASE WriteResult
    <2>1. /\ pc = "result" /\ pc' = "journal" /\ cur \in Ops
          /\ \A p \in Ops \ {cur} : result'[p] = result[p]
          /\ UNCHANGED << cur, okRows, disk >>
        BY <1>0, <1>10 DEF WriteResult, TypeOK, Recording, files, memory
    <2>2. FirstRun'
        BY <1>g, <2>1 DEF FirstRun, Pending, Failed, Journalled
    <2> QED
        BY <2>1, <2>2 DEF Wholly
<1>11. CASE WriteJournal
    <2>1. /\ cur \in Ops /\ at \in Names /\ okRows \in [Ops -> Seq(Names)]
          /\ pc = "journal" /\ pc' = "index" /\ UNCHANGED << result, disk, cur >>
        BY <1>0, <1>11, JournalWritten DEF WriteJournal, TypeOK, files, memory
    <2>2. okRows'[cur] # << >> /\ \A p \in Ops \ {cur} : okRows'[p] = okRows[p]
        BY <1>11, <2>1, JournalWritten, OneRow DEF Journalled
    <2>3. ~Pending(cur)
        BY <1>11, <2>1 DEF IInv, Recorded, Recording, HasMoved, Moved, Pending
    <2>4. FirstRun'
        BY <1>g, <2>1, <2>2, <2>3 DEF FirstRun, Pending, Failed, Journalled
    <2> QED
        BY <2>1, <2>4 DEF Wholly
<1>12. CASE MoveRow \/ LeaveRow \/ SpendProposal \/ AskBackup
    <2>1. /\ pc \in {"index", "spend", "backup"} /\ pc' \in {"spend", "backup", "entry"}
          /\ UNCHANGED << cur, result, okRows, disk >>
        BY <1>12 DEF MoveRow, LeaveRow, SpendProposal, AskBackup, records, files, memory
    <2>2. FirstRun'
        BY <1>g, <2>1 DEF FirstRun, Pending, Failed, Journalled
    <2> QED
        BY <2>1, <2>2 DEF Wholly
<1>13. CASE RowRaises
    <2>1. /\ cur \in Ops /\ pc = "index" /\ UNCHANGED << disk, okRows >>
          /\ EndWith("failed") /\ "failed" \in Results \ (Moved \cup {"none"})
        BY <1>0, <1>f, <1>13, EndsAre DEF RowRaises, files, EndWith, Recording
    <2>2. FirstRun
        BY <1>g, <2>1
    <2>3. /\ result'[cur] = "failed" /\ cur' = cur + 1 /\ pc' = "next"
          /\ \A p \in Ops \ {cur} : result'[p] = result[p]
        BY <1>0, <1>f, <2>1, EndsWithout
    <2>4. FirstRun'
        BY <2>1, <2>2, <2>3 DEF FirstRun, Pending, Failed, Journalled
    <2> QED
        BY <2>3, <2>4 DEF Wholly
<1>14. CASE WriteEntry
    <2>1. /\ pc = "entry" /\ pc' = "next" /\ cur' = cur + 1 /\ cur \in Ops
          /\ UNCHANGED << result, okRows, disk >>
        BY <1>0, <1>f, <1>14 DEF WriteEntry, Advance, records, files, Recording
    <2>2. FirstRun'
        BY <1>g, <2>1 DEF FirstRun, Pending, Failed, Journalled
    <2> QED
        BY <2>1, <2>2 DEF Wholly
<1>15. CASE Close
    <2>1. /\ pc = "next" /\ pc' = "settle" /\ cur \in 1 .. N + 1 /\ cur > N
          /\ UNCHANGED << result, okRows >>
        BY <1>0, <1>15 DEF Close, records, TypeOK
    <2>2. \A o \in Ops : o < cur
        BY <2>1
    <2>3. Decided
        BY <1>f, <2>1, <2>2 DEF Wholly, FirstRun, Decided
    <2> QED
        BY <2>1, <2>3 DEF Wholly, Decided, Pending, Failed, Journalled
<1>16. CASE Settle
    BY <1>f, <1>16 DEF Settle, Forget, records, Wholly, Decided, Pending, Failed, Journalled
<1>17. CASE Others
    <2>1. pc = "idle" /\ pc' = "idle" /\ UNCHANGED << result, okRows, status >>
        BY <1>17 DEF Others, ByHand, Claim, Scan, ScanTooSoon, Outsider, records
    <2> QED
        BY <1>f, <2>1 DEF Wholly, Decided, Pending, Failed, Journalled
<1>18. CASE UNCHANGED vars
    <2>1. UNCHANGED << result, okRows, status, pc, cur, disk >>
        BY <1>18 DEF vars, records, files, memory
    <2> QED
        BY <1>f, <2>1 DEF Wholly, FirstRun, Decided, Pending, Failed, Journalled
<1> QED
    BY <1>1, <1>2, <1>3, <1>4, <1>4a, <1>4b, <1>5, <1>6, <1>7, <1>8, <1>9, <1>9a, <1>9b,
       <1>10, <1>11, <1>12, <1>13, <1>14, <1>15, <1>16, <1>17, <1>18 DEF Next, Step

LEMMA SpecUInv == Spec => [](IInv /\ UInv)
<1>1. Init => IInv /\ UInv
    BY InitIInv, InitUInv
<1>2. IInv /\ UInv /\ [Next]_vars => IInv' /\ UInv'
    BY NextIInv, NextUncut, NextFollows, NextWholly DEF UInv
<1> QED
    BY <1>1, <1>2, PTL DEF Spec

-------------------------------------------------------------------------------
(* The index.                                                              *)

\* Where an operation may put a file, and so a row.
Home(o, m) == m \in Names /\ m[1] = DestOf[o]

\* Names in the records are names the operation may use.
AtHome ==
    /\ \A o \in Ops : HasMoved(o) => Home(o, final[o])
    /\ \A o \in Ops : row[o] = Src(o) \/ Home(o, row[o])
    /\ pc \in {"remove"} \cup Recording => Home(cur, at)
    /\ pc = "index" => HasMoved(cur) /\ at = final[cur]

\* Operations get their results in order.
InOrder ==
    /\ \A o, p \in Ops : o < p /\ Pending(o) => Pending(p)
    /\ pc \in {"next", "refuse", "remove"} \cup Recording =>
          \A o \in Ops : o < cur => ~Pending(o)
    /\ pc \in {"remove"} \cup Recording /\ ~finishing => \A o \in Ops : cur < o => Pending(o)
    /\ pc \in Recording \ {"result"} => ~Pending(cur)

\* A file does not come to stand where an operation after its own began.
Vacated ==
    \A o, p \in Ops :
        o < p /\ (HasMoved(p) \/ (p = cur /\ pc = "result")) => disk[Src(p)] # o

\* The index has the file, or the reason why it has not
Indexed(o) == row[o] = final[o] \/ AddressTaken(o) \/ disk[final[o]] # o

MayTrail ==
    CASE pc = "idle" -> IF status = "executing" THEN Ops ELSE {}
      [] pc = "finish" -> {o \in Ops : cur <= o}
      [] pc \in {"result", "journal", "index"} ->
            {o \in Ops : o = cur \/ (finishing /\ cur <= o)}
      [] pc \in {"spend", "backup", "entry"} -> {o \in Ops : finishing /\ cur < o}
      [] OTHER -> {}

Trailing == \A o \in Ops \ MayTrail : HasMoved(o) => Indexed(o)

XInv == AtHome /\ InOrder /\ Vacated /\ Trailing

LEMMA InitXInv == Init => XInv
<1> SUFFICES ASSUME Init PROVE XInv
    OBVIOUS
<1>1. \A o \in Ops : result[o] = "none" /\ row[o] = Src(o) /\ ~HasMoved(o)
    BY DEF Init, HasMoved, Moved
<1>2. pc = "idle" /\ status # "executing"
    BY DEF Init
<1> QED
    BY <1>1, <1>2 DEF XInv, AtHome, InOrder, Vacated, Trailing, MayTrail, Recording, Pending

\* Nothing an operation may use is another's, but for the source it leaves.
LEMMA HomesApart ==
    /\ \A o, p \in Ops, m \in Names : Home(o, m) /\ Home(p, m) => o = p
    /\ \A o \in Ops : Src(o) \in Names /\ ~Home(o, Src(o))
    /\ \A o \in Ops, n \in 1 .. MaxNum : Home(o, << DestOf[o], n >>)
    /\ \A o \in Ops : Home(o, Dest(o))
BY NameFacts, PlanAssumption DEF Home, Src, Dest

LEMMA NextAtHome == IInv /\ XInv /\ [Next]_vars => AtHome'
<1> SUFFICES ASSUME IInv, AtHome, [Next]_vars
             PROVE  AtHome'
    BY DEF XInv
<1>0. TypeOK /\ (pc \in Recording => cur \in Ops)
    BY DEF IInv, Recorded
<1> USE <1>0, HomesApart DEF AtHome, HasMoved, Recording, files, index, records, after, memory
<1>1. CASE Commit \/ FinishedRecords \/ Proceed \/ SkipTerminal \/ Close \/ Settle \/ Crash
    BY <1>1 DEF Commit, FinishedRecords, Proceed, SkipTerminal, Close, Settle, Crash,
       Advance, Forget
<1>2. CASE FinishRecords
    <2>1. cur <= N => cur \in Ops
        BY Counting DEF TypeOK
    <2> QED
        BY <1>2, <2>1 DEF FinishRecords, Advance
<1>3. CASE Refuse \/ RefusedAll
    BY <1>3 DEF Refuse, RefusedAll
<1>3a. CASE RefuseOne
    <2>1. cur \in Ops
        BY <1>3a, Counting DEF RefuseOne, TypeOK
    <2>2. /\ result'[cur] \notin Moved
          /\ \A p \in Ops \ {cur} : result'[p] = result[p] /\ final'[p] = final[p]
        BY <1>3a, <2>1 DEF RefuseOne, TypeOK, Moved
    <2> QED
        BY <1>3a, <2>2 DEF RefuseOne
<1>4. ASSUME NEW o \in Ops, SkipMissing(o) \/ SkipChanged(o) \/ MoveFails(o)
      PROVE  AtHome'
    <2>1. /\ cur \in Ops /\ UNCHANGED row
          /\ \E r \in Results \ (Moved \cup {"none"}) : EndWith(r)
        BY <1>4, EndsAre DEF SkipMissing, SkipChanged, MoveFails, At
    <2>2. /\ result'[cur] \notin Moved /\ pc' \in {"finish", "next"}
          /\ \A p \in Ops \ {cur} : result'[p] = result[p] /\ final'[p] = final[p]
        BY <2>1, EndsWithout
    <2> QED
        BY <2>1, <2>2
<1>5. ASSUME NEW o \in Ops, RecoverMove(o)
      PROVE  AtHome'
    BY <1>5 DEF RecoverMove, At
<1>6. ASSUME NEW o \in Ops, MoveFile(o) \/ LandCopy(o)
      PROVE  AtHome'
    BY <1>6, Moves, Copies
<1>6a. CASE RemoveSource
    <2>1. CASE pc' = "result" /\ UNCHANGED << records, memory, index >>
        BY <1>6a, <2>1, Removes
    <2>2. CASE EndWith("failed") /\ UNCHANGED index
        <3>1. /\ result'[cur] \notin Moved /\ pc' \in {"finish", "next"}
              /\ \A p \in Ops \ {cur} : result'[p] = result[p] /\ final'[p] = final[p]
            BY <1>6a, <2>2, Removes, EndsAre, EndsWithout
        <3> QED
            BY <2>2, <3>1
    <2> QED
        BY <1>6a, <2>1, <2>2, Removes
<1>7. CASE WriteResult
    <2>1. /\ \A p \in Ops \ {cur} : result'[p] = result[p] /\ final'[p] = final[p]
          /\ \/ UNCHANGED << result, final >>
             \/ final'[cur] = at
          /\ pc = "result" /\ pc' = "journal" /\ UNCHANGED << row, cur, at >>
        BY <1>7 DEF WriteResult, TypeOK
    <2> QED
        BY <2>1
<1>8. CASE WriteJournal
    <2>1. HasMoved(cur) /\ at = final[cur]
        BY <1>8 DEF WriteJournal, IInv, Recorded
    <2> QED
        BY <1>8, <2>1 DEF WriteJournal
<1>9. CASE MoveRow
    <2>1. row' = [row EXCEPT ![cur] = at] /\ Home(cur, at) /\ cur \in Ops
        BY <1>9 DEF MoveRow
    <2> QED
        BY <1>9, <2>1 DEF MoveRow, TypeOK
<1>10. CASE LeaveRow \/ SpendProposal \/ AskBackup
    BY <1>10 DEF LeaveRow, SpendProposal, AskBackup
<1>11. CASE RowRaises
    <2>1. CASE EndWith("failed")
        <3>1. /\ result'[cur] \notin Moved /\ pc' \in {"finish", "next"}
              /\ \A p \in Ops \ {cur} : result'[p] = result[p] /\ final'[p] = final[p]
            BY <1>11, <2>1, EndsAre, EndsWithout DEF RowRaises
        <3> QED
            BY <1>11, <3>1 DEF RowRaises
    <2>2. CASE Forget /\ UNCHANGED records
        BY <1>11, <2>2 DEF RowRaises, Forget
    <2> QED
        BY <1>11, <2>1, <2>2 DEF RowRaises
<1>12. CASE WriteEntry
    BY <1>12 DEF WriteEntry, Advance
<1>13. CASE Others
    BY <1>13 DEF Others, ByHand, Claim, Scan, ScanTooSoon, Outsider
<1>14. CASE UNCHANGED vars
    BY <1>14 DEF vars
<1> QED
    BY <1>1, <1>2, <1>3, <1>3a, <1>4, <1>5, <1>6, <1>6a, <1>7, <1>8, <1>9, <1>10, <1>11,
       <1>12, <1>13, <1>14 DEF Next, Step

LEMMA NextInOrder == IInv /\ XInv /\ [Next]_vars => InOrder'
<1> SUFFICES ASSUME IInv, InOrder, [Next]_vars
             PROVE  InOrder'
    BY DEF XInv
<1>0. /\ TypeOK /\ cur \in 1 .. N + 1 /\ (pc \in Recording => cur \in Ops)
      /\ pc = "next" => ~finishing
    BY DEF IInv, Recorded, TypeOK, Passes
<1> USE <1>0, CountOrder DEF InOrder, Pending, Recording, records, after, memory
<1>1. CASE Commit \/ FinishedRecords \/ Proceed \/ Close \/ Settle \/ Crash
    BY <1>1 DEF Commit, FinishedRecords, Proceed, Close, Settle, Crash, Forget
<1>2. CASE FinishRecords
    <2>1. UNCHANGED result /\ finishing /\ finishing'
        BY <1>2 DEF FinishRecords, IInv, Passes
    <2>2. CASE result[cur] \in Moved /\ pc' = "result" /\ UNCHANGED cur
        <3>1. result[cur] # "none" /\ cur \in Ops
            BY <1>2, <2>2, Counting DEF Moved, FinishRecords
        <3> QED
            BY <2>1, <2>2, <3>1
    <2>3. CASE Advance
        BY <2>1, <2>3 DEF Advance
    <2> QED
        BY <1>2, <2>2, <2>3 DEF FinishRecords
<1>3. CASE Refuse \/ RefusedAll
    BY <1>3 DEF Refuse, RefusedAll
<1>3a. CASE RefuseOne
    <2>1. cur \in Ops /\ cur' = cur + 1 /\ pc = "refuse" /\ pc' = "refuse"
        BY <1>3a, Counting DEF RefuseOne
    <2>2. result'[cur] # "none" /\ \A p \in Ops \ {cur} : result'[p] = result[p]
        BY <1>3a, <2>1 DEF RefuseOne, TypeOK
    <2> QED
        BY <2>1, <2>2
<1>4. CASE SkipTerminal
    BY <1>4 DEF SkipTerminal, Advance
<1>5. ASSUME NEW o \in Ops, SkipMissing(o) \/ SkipChanged(o) \/ MoveFails(o)
      PROVE  InOrder'
    <2>1. /\ cur \in Ops /\ pc = "next"
          /\ \E r \in Results \ (Moved \cup {"none"}) : EndWith(r)
        BY <1>5, EndsAre DEF SkipMissing, SkipChanged, MoveFails, At
    <2>2. /\ result'[cur] # "none" /\ pc' = "next" /\ cur' = cur + 1
          /\ \A p \in Ops \ {cur} : result'[p] = result[p]
        BY <2>1, EndsWithout
    <2> QED
        BY <2>1, <2>2
<1>6. ASSUME NEW o \in Ops, RecoverMove(o) \/ MoveFile(o) \/ LandCopy(o)
      PROVE  InOrder'
    <2>1. /\ pc = "next" /\ pc' \in {"result", "remove"} /\ cur \in Ops /\ result[cur] = "none"
          /\ UNCHANGED << result, cur, finishing >>
        BY <1>6 DEF RecoverMove, MoveFile, LandCopy, Resolve, At
    <2> QED
        BY <2>1
<1>6a. CASE RemoveSource
    <2>1. pc = "remove" /\ cur \in Ops /\ ~finishing
        BY <1>6a, Removes
    <2>2. CASE pc' = "result" /\ UNCHANGED << records, memory >>
        BY <2>1, <2>2
    <2>3. CASE EndWith("failed")
        <3>1. /\ result'[cur] # "none" /\ cur' = cur + 1 /\ pc' = "next"
              /\ \A p \in Ops \ {cur} : result'[p] = result[p]
            BY <2>1, <2>3, EndsAre, EndsWithout
        <3> QED
            BY <2>1, <3>1
    <2> QED
        BY <1>6a, <2>2, <2>3, Removes
<1>7. CASE WriteResult
    <2>1. /\ \A p \in Ops \ {cur} : result'[p] = result[p]
          /\ result'[cur] # "none"
          /\ pc = "result" /\ pc' = "journal" /\ UNCHANGED << cur, finishing >>
        BY <1>7 DEF WriteResult, TypeOK
    <2> QED
        BY <2>1
<1>8. CASE WriteJournal \/ MoveRow \/ LeaveRow \/ SpendProposal \/ AskBackup
    BY <1>8 DEF WriteJournal, MoveRow, LeaveRow, SpendProposal, AskBackup
<1>9. CASE RowRaises
    <2>1. CASE EndWith("failed")
        <3>1. /\ result'[cur] # "none" /\ cur' = cur + 1
              /\ pc' = IF finishing THEN "finish" ELSE "next"
              /\ \A p \in Ops \ {cur} : result'[p] = result[p]
            BY <1>9, <2>1, EndsAre, EndsWithout DEF RowRaises
        <3> QED
            BY <1>9, <3>1 DEF RowRaises
    <2>2. CASE Forget /\ UNCHANGED records
        BY <1>9, <2>2 DEF RowRaises, Forget
    <2> QED
        BY <1>9, <2>1, <2>2 DEF RowRaises
<1>10. CASE WriteEntry
    BY <1>10 DEF WriteEntry, Advance
<1>11. CASE Others
    BY <1>11 DEF Others, ByHand, Claim, Scan, ScanTooSoon, Outsider
<1>12. CASE UNCHANGED vars
    BY <1>12 DEF vars
<1> QED
    BY <1>1, <1>2, <1>3, <1>3a, <1>4, <1>5, <1>6, <1>6a, <1>7, <1>8, <1>9, <1>10, <1>11, <1>12
    DEF Next, Step

\* The program moves no file to where it stood before, and nobody else moves one.
LEMMA NoneReturns ==
    ASSUME IInv, [Next]_vars, NEW o \in Ops, ~Pending(o), NEW m \in Names, disk[m] # o
    PROVE  disk'[m] # o
<1>1. ASSUME NEW p \in Ops, MoveFile(p)
      PROVE  disk'[m] # o
    <2>1. Pending(p) /\ p # o
        BY <1>1, Moves
    <2>2. m \in {Src(p), at'} \/ disk'[m] = disk[m]
        BY <1>1, Moves
    <2> QED
        BY <1>1, <2>1, <2>2, Moves, SourcesApart
<1>1a. ASSUME NEW p \in Ops, LandCopy(p)
       PROVE  disk'[m] # o
    <2>1. Pending(p) /\ p # o
        BY <1>1a, Copies
    <2>2. m = at' \/ disk'[m] = disk[m]
        BY <1>1a, Copies
    <2> QED
        BY <1>1a, <2>1, <2>2, Copies
<1>1b. CASE RemoveSource
    <2>1. UNCHANGED disk \/ (m = Src(cur) /\ disk'[m] = Nothing) \/ disk'[m] = disk[m]
        BY <1>1b, Removes DEF files
    <2> QED
        BY <2>1, SourcesApart
<1>2. ASSUME NEW k \in Names, ByHand(k)
      PROVE  disk'[m] # o
    <2>1. PICK c \in {Nothing, Foreign} : disk' = [disk EXCEPT ![k] = c]
        BY <1>2 DEF ByHand, Put
    <2> QED
        BY <2>1, NameFacts DEF IInv, TypeOK
<1>3. CASE UNCHANGED disk
    BY <1>3
<1> QED
    BY <1>1, <1>1a, <1>1b, <1>2, <1>3 DEF Next, Step, Others, vars, files, Commit, FinishRecords,
       FinishedRecords, Refuse, RefuseOne, RefusedAll, Proceed, SkipTerminal, SkipMissing, SkipChanged, RecoverMove,
       MoveFails, WriteResult, WriteJournal, MoveRow, LeaveRow, RowRaises, SpendProposal,
       AskBackup, WriteEntry, Close, Settle, Crash, Claim, Scan, ScanTooSoon

\* How an operation comes to be called moved, or to be about to be
LEMMA BecomesMoved ==
    ASSUME IInv, [Next]_vars, NEW p \in Ops,
           HasMoved(p)' \/ (p = cur' /\ pc' = "result")
    PROVE  \/ HasMoved(p) \/ (p = cur /\ pc = "result")
           \/ disk'[Src(p)] = Nothing
<1>0. TypeOK /\ (pc \in Recording => cur \in Ops)
    BY DEF IInv, Recorded
<1> USE DEF HasMoved, records, after, memory
<1>1. CASE Commit \/ FinishedRecords \/ Proceed \/ SkipTerminal \/ Close \/ Settle \/ Crash
    BY <1>1 DEF Commit, FinishedRecords, Proceed, SkipTerminal, Close, Settle, Crash,
       Advance, Forget
<1>2. CASE FinishRecords
    BY <1>2 DEF FinishRecords, Advance
<1>3. CASE Refuse \/ RefusedAll
    BY <1>3 DEF Refuse, RefusedAll
<1>3a. CASE RefuseOne
    BY <1>3a DEF RefuseOne, Moved, IInv, TypeOK
<1>4. ASSUME NEW o \in Ops, SkipMissing(o) \/ SkipChanged(o) \/ MoveFails(o)
      PROVE  HasMoved(p)
    <2>1. /\ cur \in Ops
          /\ \E r \in Results \ (Moved \cup {"none"}) : EndWith(r)
        BY <1>4, EndsAre DEF SkipMissing, SkipChanged, MoveFails, At
    <2>2. /\ result'[cur] \notin Moved /\ pc' \in {"finish", "next"}
          /\ \A q \in Ops \ {cur} : result'[q] = result[q]
        BY <1>0, <2>1, EndsWithout
    <2> QED
        BY <2>2
<1>5. ASSUME NEW o \in Ops, RecoverMove(o)
      PROVE  HasMoved(p) \/ disk'[Src(p)] = Nothing
    BY <1>5 DEF RecoverMove, At, files
<1>6. ASSUME NEW o \in Ops, MoveFile(o) \/ LandCopy(o)
      PROVE  HasMoved(p) \/ disk'[Src(p)] = Nothing
    BY <1>6, Moves, Copies
<1>6a. CASE RemoveSource
    <2>1. CASE UNCHANGED << records, memory >> /\ disk'[Src(cur)] = Nothing
        BY <2>1
    <2>2. CASE EndWith("failed")
        <3>1. /\ result'[cur] \notin Moved /\ pc' \in {"finish", "next"}
              /\ \A q \in Ops \ {cur} : result'[q] = result[q]
            BY <1>0, <1>6a, <2>2, Removes, EndsAre, EndsWithout
        <3> QED
            BY <3>1
    <2> QED
        BY <1>6a, <2>1, <2>2, Removes
<1>7. CASE WriteResult
    <2>1. \A q \in Ops \ {cur} : result'[q] = result[q]
        BY <1>0, <1>7 DEF WriteResult, TypeOK
    <2> QED
        BY <1>7, <2>1 DEF WriteResult
<1>8. CASE WriteJournal \/ MoveRow \/ LeaveRow \/ SpendProposal \/ AskBackup
    BY <1>8 DEF WriteJournal, MoveRow, LeaveRow, SpendProposal, AskBackup
<1>9. CASE RowRaises
    <2>1. CASE EndWith("failed")
        <3>1. /\ result'[cur] \notin Moved /\ pc' \in {"finish", "next"}
              /\ \A q \in Ops \ {cur} : result'[q] = result[q]
            BY <1>0, <1>9, <2>1, EndsAre, EndsWithout DEF RowRaises, Recording
        <3> QED
            BY <3>1
    <2>2. CASE Forget /\ UNCHANGED records
        BY <2>2 DEF Forget
    <2> QED
        BY <1>9, <2>1, <2>2 DEF RowRaises
<1>10. CASE WriteEntry
    BY <1>10 DEF WriteEntry, Advance
<1>11. CASE Others
    BY <1>11 DEF Others, ByHand, Claim, Scan, ScanTooSoon, Outsider
<1>12. CASE UNCHANGED vars
    BY <1>12 DEF vars
<1> QED
    BY <1>1, <1>2, <1>3, <1>3a, <1>4, <1>5, <1>6, <1>6a, <1>7, <1>8, <1>9, <1>10, <1>11, <1>12
    DEF Next, Step

LEMMA NextVacated == IInv /\ XInv /\ [Next]_vars => Vacated'
<1> SUFFICES ASSUME IInv, XInv, [Next]_vars, NEW o \in Ops, NEW p \in Ops, o < p,
                    HasMoved(p)' \/ (p = cur' /\ pc' = "result")
             PROVE  disk'[Src(p)] # o
    BY DEF Vacated, HasMoved
<1>1. CASE disk'[Src(p)] = Nothing
    BY <1>1, SourcesApart
<1>2. CASE HasMoved(p) \/ (p = cur /\ pc = "result")
    <2>1. disk[Src(p)] # o
        BY <1>2 DEF XInv, Vacated
    <2>2. ~Pending(o)
        BY <1>2 DEF XInv, InOrder, HasMoved, Moved, Pending, Recording
    <2> QED
        BY <2>1, <2>2, NoneReturns, NameFacts
<1> QED
    BY <1>1, <1>2, BecomesMoved

\* What keeps an operation's index row, or the excuse for it, as it was.
LEMMA IndexedKept ==
    ASSUME IInv, [Next]_vars, NEW o \in Ops, HasMoved(o), Indexed(o), Home(o, final[o]),
           final'[o] = final[o],
           UNCHANGED row,
           others[final[o]] # "none" => others'[final[o]] # "none"
    PROVE  Indexed(o)'
<1>1. ~Pending(o)
    BY DEF HasMoved, Moved, Pending
<1>2. disk[final[o]] # o => disk'[final[o]] # o
    BY <1>1, NoneReturns DEF Home
<1> QED
    BY <1>2 DEF Indexed, AddressTaken

LEMMA NextTrailing == IInv /\ XInv /\ [Next]_vars => Trailing'
<1> SUFFICES ASSUME IInv, XInv, [Next]_vars, NEW o \in Ops, o \notin MayTrail', HasMoved(o)'
             PROVE  Indexed(o)'
    BY DEF Trailing, HasMoved, Indexed, AddressTaken
<1>0. /\ TypeOK /\ Passes /\ cur \in 1 .. N + 1
      /\ pc \in Recording => cur \in Ops /\ at \in Names /\ Home(cur, at)
      /\ pc = "index" => HasMoved(cur) /\ at = final[cur]
      /\ o \notin MayTrail /\ HasMoved(o) => Indexed(o)
      /\ HasMoved(o) => Home(o, final[o])
    BY DEF IInv, Recorded, TypeOK, XInv, Trailing, AtHome
<1> USE CountOrder
\* A step that leaves the records, the rows and the names in others alone
<1>k. ASSUME HasMoved(o), o \notin MayTrail, final'[o] = final[o], UNCHANGED row,
             others[final[o]] # "none" => others'[final[o]] # "none"
      PROVE  Indexed(o)'
    BY <1>0, <1>k, IndexedKept
<1>1. CASE Commit
    <2>1. /\ UNCHANGED << row, others, result, final >> /\ pc = "idle" /\ cur' = cur /\ cur = 1
          /\ IF status = "executing" THEN pc' = "finish" ELSE pc' \in {"settle", "check"}
        BY <1>0, <1>1 DEF Commit, index, records, Passes
    <2>2. o \notin MayTrail
        BY <2>1 DEF MayTrail
    <2> QED
        BY <2>1, <2>2, <1>k DEF HasMoved
<1>2. CASE FinishRecords
    <2>1. UNCHANGED << row, others, result, final >> /\ pc = "finish" /\ cur \in Ops /\ finishing
          /\ UNCHANGED finishing
        BY <1>0, <1>2, Counting DEF FinishRecords, index, records, Passes
    <2>2. CASE result[cur] \in Moved /\ pc' = "result" /\ UNCHANGED cur
        <3>1. o \notin MayTrail
            BY <2>1, <2>2 DEF MayTrail
        <3> QED
            BY <2>1, <3>1, <1>k DEF HasMoved
    <2>3. CASE /\ result[cur] \notin Moved \/ (Journalled(cur) /\ ~IndexBehind(cur))
               /\ cur' = cur + 1 /\ pc' = "finish"
        <3>1. CASE o = cur
            BY <2>1, <2>3, <3>1 DEF HasMoved, IndexBehind, Indexed
        <3>2. CASE o # cur
            <4>1. o \notin MayTrail
                BY <2>1, <2>3, <3>2 DEF MayTrail
            <4> QED
                BY <2>1, <4>1, <1>k DEF HasMoved
        <3> QED
            BY <3>1, <3>2
    <2> QED
        BY <1>2, <2>1, <2>2, <2>3 DEF FinishRecords, Advance
<1>3. CASE FinishedRecords
    <2>1. UNCHANGED << row, others, result, final >> /\ pc = "finish" /\ cur > N
        BY <1>3 DEF FinishedRecords, index, records
    <2>2. o \notin MayTrail
        BY <1>0, <2>1 DEF MayTrail
    <2> QED
        BY <2>1, <2>2, <1>k DEF HasMoved
<1>4. CASE RefuseOne
    <2>1. cur \in Ops /\ pc = "refuse" /\ UNCHANGED << row, others >>
        BY <1>0, <1>4, Counting DEF RefuseOne, index
    <2>2. /\ result'[cur] \notin Moved
          /\ \A p \in Ops \ {cur} : result'[p] = result[p] /\ final'[p] = final[p]
        BY <1>0, <1>4, <2>1 DEF RefuseOne, TypeOK, Moved
    <2>3. o # cur /\ HasMoved(o) /\ final'[o] = final[o] /\ o \notin MayTrail
        BY <2>1, <2>2 DEF HasMoved, MayTrail
    <2> QED
        BY <2>1, <2>3, <1>k
<1>5. CASE Refuse \/ RefusedAll \/ Proceed \/ SkipTerminal \/ Close
    <2>1. UNCHANGED << row, others, result, final >> /\ pc \in {"check", "refuse", "next"}
        BY <1>5 DEF Refuse, RefusedAll, Proceed, SkipTerminal, Close, index, records
    <2>2. o \notin MayTrail
        BY <2>1 DEF MayTrail
    <2> QED
        BY <2>1, <2>2, <1>k DEF HasMoved
<1>6. ASSUME NEW q \in Ops, SkipMissing(q) \/ SkipChanged(q) \/ MoveFails(q)
      PROVE  Indexed(o)'
    <2>1. /\ cur \in Ops /\ pc = "next" /\ UNCHANGED << row, others >>
          /\ \E r \in Results \ (Moved \cup {"none"}) : EndWith(r)
        BY <1>6, EndsAre DEF SkipMissing, SkipChanged, MoveFails, At, index
    <2>2. /\ result'[cur] \notin Moved
          /\ \A p \in Ops \ {cur} : result'[p] = result[p] /\ final'[p] = final[p]
        BY <1>0, <2>1, EndsWithout
    <2>3. o # cur /\ HasMoved(o) /\ final'[o] = final[o] /\ o \notin MayTrail
        BY <2>1, <2>2 DEF HasMoved, MayTrail
    <2> QED
        BY <2>1, <2>3, <1>k
<1>7. ASSUME NEW q \in Ops, RecoverMove(q) \/ MoveFile(q) \/ LandCopy(q)
      PROVE  Indexed(o)'
    <2>1. /\ UNCHANGED << row, others, result, final >> /\ pc = "next"
        BY <1>7 DEF RecoverMove, MoveFile, LandCopy, Resolve, At, index, records
    <2>2. o \notin MayTrail
        BY <2>1 DEF MayTrail
    <2> QED
        BY <2>1, <2>2, <1>k DEF HasMoved
<1>7a. CASE RemoveSource
    <2>1. UNCHANGED << row, others >> /\ pc = "remove" /\ cur \in Ops
        BY <1>7a, Removes DEF index
    <2>2. o \notin MayTrail
        BY <2>1 DEF MayTrail
    <2>3. CASE UNCHANGED << result, final >>
        BY <2>1, <2>2, <2>3, <1>k DEF HasMoved
    <2>4. CASE EndWith("failed")
        <3>1. /\ result'[cur] \notin Moved
              /\ \A p \in Ops \ {cur} : result'[p] = result[p] /\ final'[p] = final[p]
            BY <1>0, <2>1, <2>4, EndsAre, EndsWithout
        <3>2. o # cur /\ HasMoved(o) /\ final'[o] = final[o]
            BY <3>1 DEF HasMoved
        <3> QED
            BY <2>1, <2>2, <3>2, <1>k
    <2> QED
        BY <1>7a, <2>3, <2>4, Removes DEF records
<1>8. CASE WriteResult
    <2>1. /\ \A p \in Ops \ {cur} : result'[p] = result[p] /\ final'[p] = final[p]
          /\ pc = "result" /\ pc' = "journal" /\ UNCHANGED << cur, finishing, row, others >>
        BY <1>0, <1>8 DEF WriteResult, TypeOK, index, memory
    <2>2. o # cur /\ o \notin MayTrail
        BY <2>1 DEF MayTrail
    <2> QED
        BY <2>1, <2>2, <1>k DEF HasMoved
<1>9. CASE WriteJournal
    <2>1. /\ UNCHANGED << result, final, cur, finishing, row, others >>
          /\ pc = "journal" /\ pc' = "index"
        BY <1>9 DEF WriteJournal, index, memory
    <2>2. o \notin MayTrail
        BY <2>1 DEF MayTrail
    <2> QED
        BY <2>1, <2>2, <1>k DEF HasMoved
<1>10. CASE MoveRow
    <2>1. /\ cur \in Ops /\ at \in Names /\ at = final[cur] /\ Home(cur, at) /\ HasMoved(cur)
          /\ pc = "index" /\ pc' = "spend"
          /\ row' = [row EXCEPT ![cur] = at]
          /\ \A m \in Names \ {at} : others'[m] = others[m]
          /\ UNCHANGED << disk, result, final, cur, finishing >>
        BY <1>0, <1>10 DEF MoveRow, TypeOK, files, records, memory, Recording
    <2>2. row \in [Ops -> Names]
        BY <1>0 DEF TypeOK
    <2>3. CASE o = cur
        BY <2>1, <2>2, <2>3 DEF Indexed
    <2>4. CASE o # cur
        <3>1. HasMoved(o) /\ o \notin MayTrail /\ (finishing => o < cur)
            BY <2>1, <2>4 DEF HasMoved, MayTrail
        <3>2. Indexed(o) /\ Home(o, final[o]) /\ final[o] # at
            BY <1>0, <2>1, <2>4, <3>1, HomesApart
        <3>3. CASE row[o] = final[o] \/ others[final[o]] # "none" \/ disk[final[o]] # o
            BY <2>1, <2>2, <2>4, <3>2, <3>3 DEF Indexed, AddressTaken, Home
        <3>4. CASE \E p \in Ops \ {o} : row[p] = final[o]
            <4>1. PICK p \in Ops \ {o} : row[p] = final[o]
                BY <3>4
            <4>2. CASE p # cur
                BY <2>1, <2>2, <4>1, <4>2 DEF Indexed, AddressTaken
            <4>3. CASE p = cur
                <5>1. row[cur] = Src(cur)
                    <6>1. row[cur] = Src(cur) \/ Home(cur, row[cur])
                        BY <2>1 DEF XInv, AtHome
                    <6>2. row[cur] \in Names /\ Home(o, row[cur])
                        BY <2>1, <2>2, <3>2, <4>1, <4>3
                    <6> QED
                        BY <2>1, <2>4, <6>1, <6>2, HomesApart
                <5>2. o < cur
                    <6>1. ~finishing => ~(cur < o)
                        BY <2>1, <3>1 DEF XInv, InOrder, HasMoved, Moved, Pending, Recording
                    <6> QED
                        BY <2>1, <2>4, <3>1, <6>1
                <5>3. disk[final[o]] # o
                    BY <2>1, <4>1, <4>3, <5>1, <5>2 DEF XInv, Vacated
                <5> QED
                    BY <2>1, <5>3 DEF Indexed
            <4> QED
                BY <4>2, <4>3
        <3> QED
            BY <3>2, <3>3, <3>4 DEF Indexed, AddressTaken
    <2> QED
        BY <2>3, <2>4
<1>11. CASE LeaveRow
    <2>1. /\ cur \in Ops /\ at = final[cur] /\ HasMoved(cur)
          /\ pc = "index" /\ pc' = "spend"
          /\ UNCHANGED << disk, result, final, row, others, cur, finishing >>
        BY <1>0, <1>11 DEF LeaveRow, files, index, records, memory, Recording
    <2>2. CASE o = cur
        <3>1. disk[at] = Nothing \/ Clash
            BY <1>11 DEF LeaveRow, Blocked
        <3> QED
            BY <2>1, <2>2, <3>1, SourcesApart DEF Clash, Indexed, AddressTaken
    <2>3. CASE o # cur
        <3>1. HasMoved(o) /\ o \notin MayTrail
            BY <2>1, <2>3 DEF HasMoved, MayTrail
        <3> QED
            BY <2>1, <3>1, <1>k
    <2> QED
        BY <2>2, <2>3
<1>12. CASE RowRaises
    <2>1. /\ cur \in Ops /\ at \in Names /\ Home(cur, at) /\ pc = "index" /\ UNCHANGED row
          /\ \A m \in Names \ {at} : others'[m] = others[m]
        BY <1>0, <1>12 DEF RowRaises, TypeOK, Recording
    <2>2. CASE ~finishing /\ EndWith("failed")
        <3>1. /\ result'[cur] \notin Moved
              /\ \A p \in Ops \ {cur} : result'[p] = result[p] /\ final'[p] = final[p]
            BY <1>0, <2>1, <2>2, EndsAre, EndsWithout
        <3>2. o # cur /\ HasMoved(o) /\ final'[o] = final[o] /\ o \notin MayTrail
            BY <2>1, <2>2, <3>1 DEF HasMoved, MayTrail
        <3>3. final[o] \in Names \ {at}
            BY <1>0, <2>1, <3>2, HomesApart DEF Home
        <3> QED
            BY <2>1, <3>2, <3>3, <1>k
    <2>3. CASE finishing /\ Forget /\ UNCHANGED status
        <3>1. pc' = "idle" /\ status' = "executing"
            BY <1>0, <2>1, <2>3 DEF Forget, Passes
        <3>2. o \in MayTrail'
            BY <3>1 DEF MayTrail
        <3> QED
            BY <3>2
    <2> QED
        BY <1>12, <2>2, <2>3 DEF RowRaises
<1>13. CASE SpendProposal \/ AskBackup
    <2>1. /\ UNCHANGED << result, final, cur, finishing, row, others >>
          /\ pc \in {"spend", "backup"} /\ pc' \in {"backup", "entry"}
        BY <1>13 DEF SpendProposal, AskBackup, index, records, memory
    <2>2. o \notin MayTrail
        BY <2>1 DEF MayTrail
    <2> QED
        BY <2>1, <2>2, <1>k DEF HasMoved
<1>14. CASE WriteEntry
    <2>1. /\ UNCHANGED << result, final, finishing, row, others >>
          /\ pc = "entry" /\ cur \in Ops /\ cur' = cur + 1
          /\ pc' = IF finishing THEN "finish" ELSE "next"
        BY <1>0, <1>14 DEF WriteEntry, Advance, index, records, Recording
    <2>2. o \notin MayTrail
        BY <2>1 DEF MayTrail
    <2> QED
        BY <2>1, <2>2, <1>k DEF HasMoved
<1>15. CASE Settle \/ Crash
    <2>1. /\ UNCHANGED << result, final, row, others, status >>
          /\ pc # "idle" /\ pc' = "idle"
        BY <1>15 DEF Settle, Crash, Forget, index, records
    <2>2. pc = "settle"
        BY <1>0, <2>1 DEF Passes, MayTrail
    <2>3. o \notin MayTrail
        BY <2>2 DEF MayTrail
    <2> QED
        BY <2>1, <2>3, <1>k DEF HasMoved
<1>16. CASE Others
    <2>1. /\ UNCHANGED << result, final, row, status, pc, cur, finishing >>
          /\ \A m \in Names : others[m] # "none" => others'[m] # "none"
        BY <1>0, <1>16
        DEF Others, ByHand, Claim, Scan, ScanTooSoon, Outsider, index, records, memory, TypeOK
    <2>2. o \notin MayTrail
        BY <2>1 DEF MayTrail
    <2> QED
        BY <1>0, <2>1, <2>2, <1>k DEF HasMoved, Home
<1>17. CASE UNCHANGED vars
    <2>1. /\ UNCHANGED << result, final, row, others, status, pc, cur, finishing >>
        BY <1>17 DEF vars, index, records, memory
    <2>2. o \notin MayTrail
        BY <2>1 DEF MayTrail
    <2> QED
        BY <2>1, <2>2, <1>k DEF HasMoved
<1> QED
    BY <1>1, <1>2, <1>3, <1>4, <1>5, <1>6, <1>7, <1>7a, <1>8, <1>9, <1>10, <1>11, <1>12,
       <1>13, <1>14, <1>15, <1>16, <1>17 DEF Next, Step

LEMMA SpecXInv == Spec => [](IInv /\ XInv)
<1>1. Init => IInv /\ XInv
    BY InitIInv, InitXInv
<1>2. IInv /\ XInv /\ [Next]_vars => IInv' /\ XInv'
    BY NextIInv, NextAtHome, NextInOrder, NextVacated, NextTrailing DEF XInv
<1> QED
    BY <1>1, <1>2, PTL DEF Spec

-------------------------------------------------------------------------------
(* The files.                                                              *)

\* A copy that waits for its source to go is the only other one.
Paired ==
    pc = "remove" /\ crashes = 0 /\ hands = 0 =>
        \A m \in Names : disk[m] = cur <=> m \in {Src(cur), at}

\* In a plan that was never killed nothing is written over a failure.
LEMMA FailedStays ==
    ASSUME IInv, UInv, [Next]_vars, crashes' = 0, NEW o \in Ops, Failed(o)
    PROVE  Failed(o)'
<1>0. TypeOK /\ (pc \in Recording => cur \in Ops) /\ result[o] # "none"
    BY DEF IInv, Recorded, Failed
<1>1. CASE UNCHANGED result
    BY <1>1 DEF Failed
<1>2. CASE \E r \in Results : EndWith(r) /\ cur \in Ops /\ (Pending(cur) \/ r = "failed")
    BY <1>0, <1>2 DEF EndWith, TypeOK, Failed, Pending
<1>3. CASE RefuseOne
    <2>1. crashes = 0 /\ pc = "refuse" /\ Coherent /\ cur \in Ops
        BY <1>0, <1>3, Counting DEF RefuseOne, outside, IInv, Passes, TypeOK
    <2>2. Pending(cur)
        BY <2>1, CountOrder DEF UInv, Wholly
    <2> QED
        BY <1>0, <1>3, <2>1, <2>2 DEF RefuseOne, TypeOK, Failed, Pending
<1>4. CASE WriteResult
    <2>1. UNCHANGED result \/ (Pending(cur) /\ \A p \in Ops \ {cur} : result'[p] = result[p])
        BY <1>0, <1>4 DEF WriteResult, TypeOK, IInv, Recorded, Recording
    <2> QED
        BY <1>0, <2>1 DEF Failed, Pending
<1>5. ASSUME NEW p \in Ops, SkipMissing(p) \/ SkipChanged(p) \/ MoveFails(p)
      PROVE  Failed(o)'
    <2>1. cur \in Ops /\ Pending(cur) /\ \E r \in Results : EndWith(r)
        BY <1>5 DEF SkipMissing, SkipChanged, MoveFails, At, Results
    <2> QED
        BY <1>2, <2>1
<1>6. CASE RemoveSource \/ RowRaises
    <2>1. cur \in Ops /\ (UNCHANGED result \/ EndWith("failed")) /\ "failed" \in Results
        BY <1>0, <1>6, Removes DEF RowRaises, records, Results, Recording
    <2> QED
        BY <1>1, <1>2, <2>1
<1> QED
    BY <1>1, <1>3, <1>4, <1>5, <1>6 DEF Next, Step, Others, vars, records, Commit,
       FinishRecords, FinishedRecords, Refuse, RefusedAll, Proceed, SkipTerminal, RecoverMove,
       MoveFile, LandCopy, WriteJournal, MoveRow, LeaveRow, SpendProposal, AskBackup,
       WriteEntry, Close, Settle, Crash, ByHand, Claim, Scan, ScanTooSoon, Outsider

LEMMA InitAtOnePlace == Init => NoFileLost /\ Paired
<1> SUFFICES ASSUME Init, NEW o \in Ops
             PROVE  \E m \in Names : \A k \in Names : disk[k] = o <=> k = m
    BY DEF Init, NoFileLost, OncePlaced, Paired
<1> USE NameFacts
<1>1. \A p \in Ops : OpAt(SrcOf[p]) \in Ops /\ SrcOf[OpAt(SrcOf[p])] = SrcOf[p]
    BY DEF OpAt
<1>2. \A p \in Ops : OpAt(SrcOf[p]) = p
    BY <1>1, PlanAssumption
<1>3. ASSUME NEW k \in Names, NEW p \in Ops, k = Src(p) PROVE disk[k] = p
    <2>1. k[1] = SrcOf[p]
        BY <1>3 DEF Src
    <2> QED
        BY <1>2, <1>3, <2>1 DEF Init
<1>4. ASSUME NEW k \in Names, \A p \in Ops : k # Src(p) PROVE disk[k] # o
    BY <1>4 DEF Init
<1>5. \A k \in Names : disk[k] = o <=> k = Src(o)
    BY <1>3, <1>4
<1> QED
    BY <1>5

\* A file that no step is about stays where it is.
LEMMA Elsewhere ==
    ASSUME NEW p \in Ops, \A k \in Names : disk'[k] = p <=> disk[k] = p,
           \E m \in Names : disk[m] = p,
           OncePlaced(p) \/ Doubled(p), Doubled(p) => Doubled(p)'
    PROVE  (\E m \in Names : disk'[m] = p) /\ (OncePlaced(p)' \/ Doubled(p)')
<1>1. OncePlaced(p) => OncePlaced(p)'
    BY DEF OncePlaced
<1> QED
    BY <1>1

LEMMA NextPaired ==
    ASSUME IInv, UInv, NoFileLost, Paired, [Next]_vars
    PROVE  Paired'
<1> SUFFICES ASSUME pc' = "remove", crashes' = 0, hands' = 0
             PROVE  \A m \in Names : disk'[m] = cur' <=> m \in {Src(cur'), at'}
    BY DEF Paired
<1>1. ASSUME NEW o \in Ops, LandCopy(o)
      PROVE  \A m \in Names : disk'[m] = cur' <=> m \in {Src(cur'), at'}
    <2>1. /\ o = cur /\ cur' = cur /\ hands = 0 /\ crashes = 0 /\ Pending(o) /\ pc = "next"
          /\ disk[Src(o)] = o /\ disk'[at'] = o /\ at' \in Names /\ Src(o) \in Names
          /\ \A m \in Names \ {at'} : disk'[m] = disk[m]
        BY <1>1, Copies, NameFacts DEF outside
    <2>2. OncePlaced(o)
        BY <2>1 DEF NoFileLost, Doubled, Pending
    <2>3. \A m \in Names : disk[m] = o <=> m = Src(o)
        BY <2>1, <2>2 DEF OncePlaced
    <2> QED
        BY <2>1, <2>3
<1>2. CASE UNCHANGED << files, pc, cur, at, outside >>
    BY <1>2 DEF Paired, files, outside
<1>3. ASSUME NEW o \in Ops,
             \/ SkipMissing(o) \/ SkipChanged(o) \/ RecoverMove(o) \/ MoveFile(o) \/ MoveFails(o)
      PROVE  pc' # "remove"
    BY <1>3 DEF SkipMissing, SkipChanged, RecoverMove, MoveFile, MoveFails, EndWith, Advance
<1>4. CASE Others
    BY <1>4 DEF Others, ByHand, Claim, Scan, ScanTooSoon, Outsider
<1> QED
    BY <1>1, <1>2, <1>3, <1>4 DEF Next, Step, vars, memory, Commit, FinishRecords,
       FinishedRecords, Refuse, RefuseOne, RefusedAll, Proceed, SkipTerminal, RemoveSource,
       WriteResult, WriteJournal, MoveRow, LeaveRow, RowRaises, SpendProposal, AskBackup,
       WriteEntry, Close, Settle, Crash, EndWith, Advance, Forget

LEMMA NextPlaced ==
    ASSUME IInv, UInv, NoFileLost, Paired, [Next]_vars
    PROVE  NoFileLost'
<1> SUFFICES ASSUME hands' = 0, NEW p \in Ops
             PROVE  (\E m \in Names : disk'[m] = p) /\ (OncePlaced(p)' \/ Doubled(p)')
    BY DEF NoFileLost
<1>0. crashes \in Nat /\ hands \in Nat
    BY DEF IInv, TypeOK
<1>a. Others => hands' = hands + 1
    BY DEF Others, ByHand, Claim, Scan, ScanTooSoon, Outsider
<1>b. Crash => crashes' = crashes + 1 /\ hands' = hands
    BY DEF Crash
<1>c. UNCHANGED outside \/ Crash \/ Others
    BY DEF Next, Step, vars, outside, Commit, FinishRecords, FinishedRecords, Refuse, RefuseOne,
       RefusedAll, Proceed, SkipTerminal, SkipMissing, SkipChanged, RecoverMove, MoveFile,
       LandCopy, RemoveSource, MoveFails, WriteResult, WriteJournal, MoveRow, LeaveRow, RowRaises,
       SpendProposal, AskBackup, WriteEntry, Close, Settle
<1>1. hands = 0 /\ ~Others
    BY <1>0, <1>a, <1>b, <1>c DEF outside
<1>2. (\E m \in Names : disk[m] = p) /\ (OncePlaced(p) \/ Doubled(p))
    BY <1>1 DEF NoFileLost
<1>3. crashes > 0 => crashes' > 0
    BY <1>0, <1>1, <1>b, <1>c DEF outside
<1>4. crashes' \in Nat
    BY NextIInv DEF IInv, TypeOK
<1>5. Failed(p) => crashes' > 0 \/ Failed(p)'
    BY <1>4, FailedStays
<1>6. pc # "remove" \/ p # cur => (Doubled(p) => Doubled(p)')
    BY <1>3, <1>5 DEF Doubled, Failed
<1>7. ASSUME NEW o \in Ops, MoveFile(o)
      PROVE  (\E m \in Names : disk'[m] = p) /\ (OncePlaced(p)' \/ Doubled(p)')
    <2>1. /\ Src(o) \in Names /\ at' \in Names /\ pc = "next" /\ at' # Src(o)
          /\ disk[Src(o)] = o /\ disk[at'] = Nothing
          /\ disk'[Src(o)] = Nothing /\ disk'[at'] = o
          /\ \A m \in Names \ {Src(o), at'} : disk'[m] = disk[m]
        BY <1>7, Moves, NameFacts
    <2>2. CASE p = o
        <3>1. OncePlaced(o) \/ Doubled(o)'
            BY <1>2, <1>6, <2>1, <2>2
        <3>2. ASSUME OncePlaced(o) PROVE OncePlaced(o)'
            <4>1. \A k \in Names : disk[k] = o <=> k = Src(o)
                BY <2>1, <3>2 DEF OncePlaced
            <4>2. \A k \in Names : disk'[k] = o <=> k = at'
                BY <2>1, <4>1, NameFacts
            <4> QED
                BY <2>1, <4>2 DEF OncePlaced
        <3> QED
            BY <2>1, <2>2, <3>1, <3>2
    <2>3. CASE p # o
        <3>1. \A k \in Names : disk'[k] = p <=> disk[k] = p
            BY <2>1, <2>3, NameFacts
        <3> QED
            BY <1>2, <1>6, <2>1, <3>1, Elsewhere
    <2> QED
        BY <2>2, <2>3
<1>8. ASSUME NEW o \in Ops, LandCopy(o)
      PROVE  (\E m \in Names : disk'[m] = p) /\ (OncePlaced(p)' \/ Doubled(p)')
    <2>1. /\ at' \in Names /\ pc = "next" /\ disk[at'] = Nothing /\ disk'[at'] = o
          /\ o = cur /\ o \in Crosses /\ pc' = "remove" /\ cur' = cur
          /\ \A m \in Names \ {at'} : disk'[m] = disk[m]
        BY <1>8, Copies
    <2>2. CASE p = o
        BY <2>1, <2>2 DEF Doubled
    <2>3. CASE p # o
        <3>1. \A k \in Names : disk'[k] = p <=> disk[k] = p
            BY <2>1, <2>3, NameFacts
        <3> QED
            BY <1>2, <1>6, <2>1, <3>1, Elsewhere
    <2> QED
        BY <2>2, <2>3
<1>9. CASE RemoveSource /\ disk'[Src(cur)] = Nothing
    <2>1. /\ cur \in Ops /\ cur \in Crosses /\ pc = "remove" /\ Src(cur) \in Names
          /\ at \in Names /\ at # Src(cur) /\ disk[at] = cur /\ disk[Src(cur)] = cur
          /\ \A m \in Names \ {Src(cur)} : disk'[m] = disk[m]
        BY <1>9, Removes, NameFacts DEF files
    <2>2. CASE p = cur
        <3>1. disk'[at] = p
            BY <2>1, <2>2
        <3>2. CASE crashes > 0
            BY <1>3, <2>1, <2>2, <3>1, <3>2 DEF Doubled
        <3>3. CASE crashes = 0
            <4>1. \A m \in Names : disk[m] = cur <=> m \in {Src(cur), at}
                BY <1>1, <2>1, <3>3 DEF Paired
            <4>2. \A m \in Names : disk'[m] = cur <=> m = at
                BY <1>9, <2>1, <4>1, NameFacts
            <4> QED
                BY <2>1, <2>2, <3>1, <4>2 DEF OncePlaced
        <3> QED
            BY <1>0, <3>2, <3>3
    <2>3. CASE p # cur
        <3>1. \A k \in Names : disk'[k] = p <=> disk[k] = p
            BY <1>9, <2>1, <2>3, NameFacts
        <3> QED
            BY <1>2, <1>6, <2>3, <3>1, Elsewhere
    <2> QED
        BY <2>2, <2>3
<1>10. CASE UNCHANGED disk /\ (Doubled(p) => Doubled(p)')
    BY <1>2, <1>10, Elsewhere
<1>11. CASE RemoveSource /\ EndWith("failed") /\ UNCHANGED files
    <2>1. p = cur => Failed(p)'
        BY <1>11 DEF EndWith, IInv, TypeOK, Failed
    <2> QED
        BY <1>6, <1>10, <1>11, <2>1 DEF files, Doubled, Failed
<1>12. CASE Crash
    BY <1>0, <1>10, <1>12 DEF Crash, files, Doubled
<1>13. CASE UNCHANGED vars
    BY <1>10, <1>13 DEF vars, files, records, memory, outside, Doubled
<1>14. CASE UNCHANGED disk /\ pc # "remove"
    BY <1>6, <1>10, <1>14
<1>15. RemoveSource => (RemoveSource /\ disk'[Src(cur)] = Nothing)
                       \/ (RemoveSource /\ EndWith("failed") /\ UNCHANGED files)
    BY Removes
<1> QED
    BY <1>1, <1>7, <1>8, <1>9, <1>11, <1>12, <1>13, <1>14, <1>15 DEF Next, Step, files, Commit,
       FinishRecords, FinishedRecords, Refuse, RefuseOne, RefusedAll, Proceed, SkipTerminal,
       SkipMissing, SkipChanged, RecoverMove, MoveFails, At, WriteResult, WriteJournal, MoveRow,
       LeaveRow, RowRaises, SpendProposal, AskBackup, WriteEntry, Close, Settle

-------------------------------------------------------------------------------
(* The theorems.                                                           *)

(* A plan that was never killed leaves nothing undone, whatever it was stopped by:
   each of the calls that end _record_move has been made for every file it moved. *)
THEOREM NothingLeftUndone == Spec => []FollowedUp
<1>1. IInv /\ UInv => FollowedUp
    BY DEF UInv, Follows, FollowedUp, Over, HasMoved, DoneAfter, Recording
<1> QED
    BY <1>1, SpecUInv, PTL

(* A coherent plan that was never killed moves every file or none, for any number of
   operations and of commits, unless a move itself failed. *)
THEOREM AllOfItOrNone == Spec => []AllOrNothingUnkilled
<1>1. IInv /\ UInv => AllOrNothingUnkilled
    BY DEF UInv, Wholly, Decided, Failed, AllOrNothingUnkilled, AllOrNothing, Over
<1> QED
    BY <1>1, SpecUInv, PTL

(* Killed as often as it may be, a plan that is over leaves the index with every file
   it moved, or with the reason why not: _finish_records goes through the operations
   in order, and so never frees for one the address another is waiting for. *)
THEOREM IndexCatchesUp == Spec => []IndexFollows
<1>1. IInv /\ XInv => IndexFollows
    <2> SUFFICES ASSUME IInv, XInv, Over, NEW o \in Ops, result[o] \in Moved
                 PROVE  Indexed(o)
        BY DEF IndexFollows, Indexed
    <2>1. MayTrail = {}
        BY DEF Over, MayTrail
    <2> QED
        BY <2>1 DEF XInv, Trailing, HasMoved
<1> QED
    BY <1>1, SpecXInv, PTL

(* As long as nobody else touches the files no file of the plan is ever nowhere, and
   one is at two names only if its move between two filesystems was killed or failed:
   an operation whose name another has not left goes round it, for any plan, any order
   of failures and any number of kills. *)
THEOREM NoFileIsLost == Spec => []NoFileLost
<1>1. Init => IInv /\ UInv /\ NoFileLost /\ Paired
    BY InitIInv, InitUInv, InitAtOnePlace
<1>2. IInv /\ UInv /\ NoFileLost /\ Paired /\ [Next]_vars
        => IInv' /\ UInv' /\ NoFileLost' /\ Paired'
    BY NextIInv, NextUncut, NextFollows, NextWholly, NextPlaced, NextPaired DEF UInv
<1> QED
    BY <1>1, <1>2, PTL DEF Spec
================================================================================
