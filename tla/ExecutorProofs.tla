---------------------------- MODULE ExecutorProofs ----------------------------
(***************************************************************************)
(* Proofs about Executor for every plan, every number of crashes and every *)
(* act of people and scans.  The invariant says, beside the types, what    *)
(* each statement of _record_move may rely on (Recorded), and the removal  *)
(* of a source (Landed), that the journal never disagrees with the result  *)
(* (Ahead, Agree), and which operations can still have a result without a  *)
(* journal row (Caught).                                                   *)
(***************************************************************************)
EXTENDS Executor, TLAPS

HasMoved(o) == result[o] \in Moved

\* What the process knows about the operation whose move it is recording.
Recorded ==
    pc \in Recording =>
        /\ cur \in Ops
        /\ at \in Names
        /\ << cur, at >> \in stood
        /\ pc = "result" =>
              /\ ~recovering => Pending(cur)
              /\ Pending(cur) \/ (HasMoved(cur) /\ at = final[cur])
        /\ pc = "journal" =>
              /\ ~recovering => ~Journalled(cur)
              /\ HasMoved(cur) /\ at = final[cur]

\* What it knows between the copy and the removal of the source.
Landed ==
    pc = "remove" =>
        /\ cur \in Crosses /\ Pending(cur) /\ ~recovering
        /\ at \in Names /\ << cur, at >> \in stood
        /\ at # Src(cur) /\ disk[at] = cur /\ disk[Src(cur)] = cur

\* An operation without a result has no journal row either.
Ahead == \A o \in Ops : Pending(o) => ~Journalled(o)

\* A journal row and a result name one address.
Agree == \A o \in Ops : HasMoved(o) /\ Journalled(o) => okRows[o] = << final[o] >>

\* The operations that can say they moved without a journal row: while a run is
\* at it, the one it is recording; and those the finish pass has not reached.
MayLack ==
    CASE pc = "idle" -> IF status = "executing" THEN Ops ELSE {}
      [] pc = "finish" -> {o \in Ops : cur <= o}
      [] pc \in {"result", "journal"} -> {o \in Ops : o = cur \/ (finishing /\ cur <= o)}
      [] pc \in {"index", "spend", "backup", "entry"} ->
            {o \in Ops : finishing /\ cur < o}
      [] OTHER -> {}

Caught == \A o \in Ops \ MayLack : HasMoved(o) => Journalled(o)

\* The finish pass belongs to a plan that is still 'executing'.
Passes ==
    /\ pc \notin {"idle", "settle"} => status = "executing"
    /\ pc = "idle" => cur = 1
    /\ pc = "finish" => finishing
    /\ pc \in {"check", "refuse", "next", "remove", "close"} => ~finishing
    /\ pc = "refuse" => Coherent

\* Whatever stands somewhere now is among what has stood there.
Standing == \A m \in Names : disk[m] \in Ops => << disk[m], m >> \in stood

IInv ==
    /\ TypeOK
    /\ Standing
    /\ Recorded
    /\ Landed
    /\ Ahead
    /\ JournalledOnce
    /\ NoFalseRecord
    /\ Agree
    /\ Caught
    /\ Passes

-------------------------------------------------------------------------------

LEMMA NameFacts ==
    /\ \A o \in Ops : Src(o) \in Names /\ Dest(o) \in Names
    /\ \A o \in Ops, n \in 1 .. MaxNum : << DestOf[o], n >> \in Names
    /\ \A o \in Ops : o # Nothing /\ o # Foreign
    /\ NoName \notin Names
BY PlanAssumption DEF Src, Dest, Names, Ops, Nothing, Foreign, NoName

LEMMA Counting ==
    /\ 1 \in 1 .. N + 1
    /\ \A o \in Ops : o \in 1 .. N + 1 /\ o + 1 \in 1 .. N + 1
    /\ \A k \in 1 .. N + 1 : k <= N => k \in Ops
BY PlanAssumption DEF Ops

LEMMA OneRow ==
    ASSUME NEW x \in Names
    PROVE  /\ Append(<< >>, x) = << x >>
           /\ << x >> # << >>
           /\ Len(<< x >>) = 1
           /\ << x >>[1] = x
           /\ << x >> \in Seq(Names)
OBVIOUS

LEMMA InitIInv == Init => IInv
<1> SUFFICES ASSUME Init PROVE IInv
    OBVIOUS
<1> USE NameFacts, Counting, KindAssumption
<1>1. \A b \in Bases : (\E o \in Ops : << b, 1 >> = Src(o)) => OpAt(b) \in Ops
    BY DEF OpAt, Src
<1>2. disk \in [Names -> Ops \cup {Nothing, Foreign}]
    <2>1. ASSUME NEW m \in Names, NEW o \in Ops, m = Src(o)
          PROVE  OpAt(m[1]) \in Ops
        <3>1. m[1] = SrcOf[o]
            BY <2>1 DEF Src
        <3> QED
            BY <3>1 DEF OpAt
    <2> QED
        BY <2>1 DEF Init
<1>3. others \in [Names -> {"none", "fresh", "claimed"}]
    BY DEF Init
<1>4. /\ stood \subseteq Ops \X Names
      /\ row \in [Ops -> Names]
    BY DEF Init
<1>5. /\ okRows \in [Ops -> Seq(Names)]
      /\ \A o \in Ops : okRows[o] = << >> /\ Len(okRows[o]) = 0
    BY DEF Init
<1>6. TypeOK
    BY <1>2, <1>3, <1>4, <1>5 DEF Init, TypeOK, Results
<1>7. Recorded /\ Landed /\ Ahead /\ JournalledOnce /\ NoFalseRecord /\ Agree /\ Caught /\ Passes
    BY <1>5 DEF Init, Recorded, Landed, Recording, Ahead, JournalledOnce, NoFalseRecord, Agree,
       Caught, HasMoved, Moved, Journalled, Passes
<1>8. Standing
    <2> SUFFICES ASSUME NEW m \in Names, disk[m] \in Ops
                 PROVE  << disk[m], m >> \in stood
        BY DEF Standing
    <2>1. PICK o \in Ops : m = Src(o)
        BY DEF Init
    <2>2. m[1] = SrcOf[o]
        BY <2>1 DEF Src
    <2>3. OpAt(m[1]) \in Ops /\ SrcOf[OpAt(m[1])] = m[1]
        BY <2>2 DEF OpAt
    <2>4. OpAt(m[1]) = o
        BY <2>2, <2>3, PlanAssumption
    <2> QED
        BY <2>1, <2>4 DEF Init
<1> QED
    BY <1>6, <1>7, <1>8 DEF IInv

-------------------------------------------------------------------------------
(* Types.                                                                  *)

\* A process that ends, for whatever reason.
LEMMA ForgetType ==
    ASSUME Forget
    PROVE  /\ pc' \in Places \cup {"idle"}
           /\ cur' \in 1 .. N + 1
           /\ resuming' \in BOOLEAN /\ recovering' \in BOOLEAN
           /\ finishing' \in BOOLEAN /\ bad' \in BOOLEAN
           /\ at' \in Names \cup {NoName}
BY Counting DEF Forget

\* An operation that ends without a move.
LEMMA EndWithType ==
    ASSUME TypeOK, cur \in Ops, NEW r \in Results, EndWith(r)
    PROVE  /\ result' \in [Ops -> Results]
           /\ final' \in [Ops -> Names \cup {NoName}]
           /\ pc' \in Places \cup {"idle"}
           /\ cur' \in 1 .. N + 1
           /\ bad' \in BOOLEAN
           /\ UNCHANGED << okRows, status, resuming, recovering, finishing, at >>
<1>1. result' \in [Ops -> Results] /\ final' \in [Ops -> Names \cup {NoName}]
    BY DEF EndWith, TypeOK
<1>2. pc' \in Places \cup {"idle"} /\ cur' \in 1 .. N + 1 /\ bad' \in BOOLEAN
    BY Counting DEF EndWith, Advance, Places
<1> QED
    BY <1>1, <1>2 DEF EndWith

LEMMA NextType == IInv /\ [Next]_vars => TypeOK'
<1> SUFFICES ASSUME IInv, [Next]_vars PROVE TypeOK'
    OBVIOUS
<1> USE NameFacts, Counting, KindAssumption
<1> USE DEF IInv, TypeOK, files, index, records, after, memory, outside
<1> USE DEF Results, Moved, Places, Recording
<1>put. ASSUME NEW d \in [Names -> Ops \cup {Nothing, Foreign}], Put(d)
        PROVE  /\ disk' \in [Names -> Ops \cup {Nothing, Foreign}]
               /\ stood' \subseteq Ops \X Names
    BY <1>put DEF Put
<1>1. CASE Commit
    BY <1>1 DEF Commit
<1>2. CASE FinishRecords
    <2>1. cur \in Ops
        BY <1>2 DEF FinishRecords
    <2>2. at' \in Names \cup {NoName} /\ recovering' \in BOOLEAN
        <3>1. at' = final[cur] \/ at' = at
            BY <1>2 DEF FinishRecords
        <3>2. recovering' = TRUE \/ recovering' = recovering
            BY <1>2 DEF FinishRecords
        <3> HIDE DEF Results, Moved, Places, Recording
        <3> QED
            BY <2>1, <3>1, <3>2
    <2>3. cur' \in 1 .. N + 1 /\ pc' \in Places \cup {"idle"}
        BY <1>2, <2>1 DEF FinishRecords, Advance
    <2>4. UNCHANGED << files, index, records, after, status, resuming, finishing, bad, outside >>
        BY <1>2 DEF FinishRecords
    <2> QED
        BY <2>2, <2>3, <2>4
<1>3. CASE FinishedRecords
    BY <1>3 DEF FinishedRecords
<1>4. CASE Refuse \/ RefusedAll
    BY <1>4 DEF Refuse, RefusedAll
<1>4a. CASE RefuseOne
    <2>1. cur \in Ops /\ "skipped_missing" \in Results /\ "skipped_changed" \in Results
        BY <1>4a DEF RefuseOne
    <2>2. result' \in [Ops -> Results] /\ final' \in [Ops -> Names \cup {NoName}]
        BY <1>4a, <2>1 DEF RefuseOne
    <2> QED
        BY <1>4a, <2>1, <2>2 DEF RefuseOne
<1>5. CASE Proceed
    BY <1>5 DEF Proceed
<1>6. CASE SkipTerminal
    BY <1>6 DEF SkipTerminal, Advance
<1>7. ASSUME NEW o \in Ops, SkipMissing(o) \/ SkipChanged(o) \/ MoveFails(o)
      PROVE  TypeOK'
    <2>1. \E r \in Results : EndWith(r)
        BY <1>7 DEF SkipMissing, SkipChanged, MoveFails
    <2>2. cur \in Ops /\ UNCHANGED << files, index, after, outside >>
        BY <1>7 DEF SkipMissing, SkipChanged, MoveFails, At
    <2> HIDE DEF Results, Moved, Places
    <2> QED
        BY <2>1, <2>2, EndWithType
<1>8. ASSUME NEW o \in Ops, RecoverMove(o)
      PROVE  TypeOK'
    BY <1>8 DEF RecoverMove, At
<1>9. ASSUME NEW o \in Ops, MoveFile(o)
      PROVE  TypeOK'
    <2>1. at' \in Names
        BY <1>9 DEF MoveFile, Resolve, FreeNumbers
    <2>2. /\ disk' \in [Names -> Ops \cup {Nothing, Foreign}]
          /\ stood' \subseteq Ops \X Names
        BY <1>9, <1>put DEF MoveFile
    <2> QED
        BY <1>9, <2>1, <2>2 DEF MoveFile, Resolve, At
<1>9a. ASSUME NEW o \in Ops, LandCopy(o)
       PROVE  TypeOK'
    <2>1. at' \in Names
        BY <1>9a DEF LandCopy, Resolve, FreeNumbers
    <2>2. /\ disk' \in [Names -> Ops \cup {Nothing, Foreign}]
          /\ stood' \subseteq Ops \X Names
        BY <1>9a, <1>put DEF LandCopy
    <2> QED
        BY <1>9a, <2>1, <2>2 DEF LandCopy, Resolve, At
<1>9b. CASE RemoveSource
    <2>1. cur \in Ops /\ "failed" \in Results
        BY <1>9b DEF RemoveSource, Landed
    <2>2. CASE Put([disk EXCEPT ![Src(cur)] = Nothing])
               /\ pc' = "result" /\ UNCHANGED << records, status, memory >>
        <3>1. /\ disk' \in [Names -> Ops \cup {Nothing, Foreign}]
              /\ stood' \subseteq Ops \X Names
            BY <2>2, <1>put
        <3> QED
            BY <1>9b, <2>2, <3>1 DEF RemoveSource
    <2>3. CASE EndWith("failed") /\ UNCHANGED files
        <3> HIDE DEF Results, Moved, Places
        <3> QED
            BY <1>9b, <2>1, <2>3, EndWithType DEF RemoveSource
    <2> QED
        BY <1>9b, <2>2, <2>3 DEF RemoveSource
<1>10. CASE WriteResult
    <2>1. cur \in Ops /\ at \in Names
        BY <1>10 DEF WriteResult, Recorded
    <2>2. result' \in [Ops -> Results]
        <3> DEFINE r == IF at = Dest(cur) THEN "done" ELSE "renamed_collision"
        <3>1. r \in Results
            OBVIOUS
        <3>2. result' = result \/ result' = [result EXCEPT ![cur] = r]
            BY <1>10 DEF WriteResult
        <3> HIDE DEF r
        <3> QED
            BY <2>1, <3>1, <3>2
    <2>3. final' \in [Ops -> Names \cup {NoName}]
        BY <1>10, <2>1 DEF WriteResult
    <2> QED
        BY <1>10, <2>2, <2>3 DEF WriteResult
<1>11. CASE WriteJournal
    <2>1. okRows' \in [Ops -> Seq(Names)]
        BY <1>11 DEF WriteJournal, Recorded
    <2> QED
        BY <1>11, <2>1 DEF WriteJournal
<1>12. CASE MoveRow
    BY <1>12 DEF MoveRow, Recorded
<1>13. CASE LeaveRow
    BY <1>13 DEF LeaveRow
<1>14. CASE RowRaises
    <2>1. cur \in Ops /\ at \in Names /\ "failed" \in Results
        BY <1>14 DEF RowRaises, Recorded
    <2>2. /\ others' \in [Names -> {"none", "fresh", "claimed"}]
          /\ UNCHANGED << files, row, touched, after, outside >>
        BY <1>14 DEF RowRaises
    <2>3. EndWith("failed") \/ (Forget /\ UNCHANGED << records, status >>)
        BY <1>14 DEF RowRaises
    <2> HIDE DEF Results, Moved, Places
    <2>4. CASE EndWith("failed")
        BY <2>1, <2>2, <2>4, EndWithType
    <2>5. CASE Forget /\ UNCHANGED << records, status >>
        BY <2>2, <2>5, ForgetType
    <2> QED
        BY <2>3, <2>4, <2>5
<1>15. CASE SpendProposal
    BY <1>15 DEF SpendProposal, Recorded
<1>16. CASE AskBackup
    BY <1>16 DEF AskBackup, Recorded
<1>17. CASE WriteEntry
    BY <1>17 DEF WriteEntry, Advance, Recorded
<1>18. CASE Close
    BY <1>18 DEF Close
<1>19. CASE Settle
    BY <1>19 DEF Settle, Forget
<1>20. CASE Crash
    <2> HIDE DEF Places
    <2> QED
        BY <1>20, ForgetType DEF Crash
<1>21. ASSUME NEW m \in Names, ByHand(m)
       PROVE  TypeOK'
    <2>1. /\ disk' \in [Names -> Ops \cup {Nothing, Foreign}]
          /\ stood' \subseteq Ops \X Names
        BY <1>21, <1>put DEF ByHand
    <2> QED
        BY <1>21, <2>1 DEF ByHand, Outsider
<1>22. ASSUME NEW m \in Names, Claim(m)
       PROVE  TypeOK'
    BY <1>22 DEF Claim, Outsider
<1>23. CASE Scan
    BY <1>23 DEF Scan, Outsider
<1>24. ASSUME NEW o \in Ops, ScanTooSoon(o)
       PROVE  TypeOK'
    BY <1>24 DEF ScanTooSoon, Outsider
<1>25. CASE UNCHANGED vars
    BY <1>25 DEF vars
<1> QED
    BY <1>1, <1>2, <1>3, <1>4, <1>4a, <1>5, <1>6, <1>7, <1>8, <1>9, <1>9a, <1>9b, <1>10,
       <1>11, <1>12, <1>13, <1>14, <1>15, <1>16, <1>17, <1>18, <1>19, <1>20, <1>21, <1>22, <1>23, <1>24, <1>25
       DEF Next, Step, Others

-------------------------------------------------------------------------------
(* The process.                                                            *)

LEMMA NextPasses == IInv /\ [Next]_vars => Passes'
<1> SUFFICES ASSUME IInv, [Next]_vars PROVE Passes'
    OBVIOUS
<1> USE DEF IInv, Passes, Recording, Places, Moved, memory, records, after
<1>1. CASE Commit
    BY <1>1 DEF Commit
<1>2. CASE FinishRecords \/ FinishedRecords \/ Refuse \/ RefuseOne \/ RefusedAll
           \/ Proceed \/ SkipTerminal
    BY <1>2 DEF FinishRecords, FinishedRecords, Refuse, RefuseOne, RefusedAll, Proceed,
       SkipTerminal, Advance
<1>3. ASSUME NEW o \in Ops,
             \/ SkipMissing(o) \/ SkipChanged(o) \/ RecoverMove(o)
             \/ MoveFile(o) \/ LandCopy(o) \/ MoveFails(o)
      PROVE  Passes'
    BY <1>3 DEF SkipMissing, SkipChanged, RecoverMove, MoveFile, LandCopy, MoveFails, Resolve,
       At, EndWith, Advance
<1>3a. CASE RemoveSource
    BY <1>3a DEF RemoveSource, EndWith, Advance
<1>4. CASE WriteResult \/ WriteJournal \/ MoveRow \/ LeaveRow
    BY <1>4 DEF WriteResult, WriteJournal, MoveRow, LeaveRow
<1>5. CASE RowRaises
    BY <1>5 DEF RowRaises, EndWith, Forget, Advance
<1>6. CASE SpendProposal \/ AskBackup \/ WriteEntry
    BY <1>6 DEF SpendProposal, AskBackup, WriteEntry, Advance
<1>7. CASE Close \/ Settle \/ Crash
    BY <1>7 DEF Close, Settle, Crash, Forget
<1>8. CASE Others
    BY <1>8 DEF Others, ByHand, Claim, Scan, ScanTooSoon, Outsider
<1>9. CASE UNCHANGED vars
    BY <1>9 DEF vars
<1> QED
    BY <1>1, <1>2, <1>3, <1>3a, <1>4, <1>5, <1>6, <1>7, <1>8, <1>9 DEF Next, Step

\* What is remembered of where files stood is never forgotten.
LEMMA StoodGrows == IInv /\ [Next]_vars => stood \subseteq stood'
<1> SUFFICES ASSUME IInv, [Next]_vars PROVE stood \subseteq stood'
    OBVIOUS
<1>1. ASSUME NEW o \in Ops, MoveFile(o) \/ LandCopy(o)
      PROVE  stood \subseteq stood'
    BY <1>1 DEF MoveFile, LandCopy, Put
<1>1a. CASE RemoveSource
    BY <1>1a DEF RemoveSource, Put, files
<1>2. ASSUME NEW m \in Names, ByHand(m)
      PROVE  stood \subseteq stood'
    BY <1>2 DEF ByHand, Put
<1>3. CASE UNCHANGED stood
    BY <1>3
<1> QED
    BY <1>1, <1>1a, <1>2, <1>3 DEF Next, Step, Others, vars, files, Commit, FinishRecords,
       FinishedRecords, Refuse, RefuseOne, RefusedAll, Proceed, SkipTerminal, SkipMissing, SkipChanged, RecoverMove,
       MoveFails, WriteResult, WriteJournal, MoveRow, LeaveRow, RowRaises, SpendProposal,
       AskBackup, WriteEntry, Close, Settle, Crash, Claim, Scan, ScanTooSoon

\* The name a file is about to get.
LEMMA Resolved ==
    ASSUME NEW o \in Ops, Resolve(o)
    PROVE  /\ o = cur /\ Pending(o) /\ pc = "next" /\ disk[Src(o)] = o
           /\ \E n \in 1 .. MaxNum : at' = << DestOf[o], n >>
           /\ at' \in Names /\ at' # Src(o) /\ disk[at'] = Nothing
<1>1. \E n \in FreeNumbers(o) : at' = << DestOf[o], n >>
    BY DEF Resolve
<1>2. \A n \in 1 .. MaxNum : << DestOf[o], n >> # Src(o)
    BY PlanAssumption DEF Src
<1> QED
    BY <1>1, <1>2, NameFacts DEF Resolve, At, FreeNumbers

\* The name a move ended at has held the file.
LEMMA MoveStands ==
    ASSUME IInv, NEW o \in Ops, MoveFile(o)
    PROVE  at' \in Names /\ << o, at' >> \in stood'
<1>1. at' \in Names
    BY Resolved DEF MoveFile
<1>2. disk' = [disk EXCEPT ![Src(o)] = Nothing, ![at'] = o]
    BY DEF MoveFile, Put
<1>3. disk'[at'] = o
    BY <1>1, <1>2 DEF IInv, TypeOK
<1> QED
    BY <1>1, <1>3 DEF MoveFile, Put

\* So has the name a copy takes, and the source still holds the file.
LEMMA CopyStands ==
    ASSUME IInv, NEW o \in Ops, LandCopy(o)
    PROVE  Landed'
<1>1. at' \in Names /\ at' # Src(o) /\ o = cur /\ Pending(cur) /\ disk[Src(o)] = o
    BY Resolved DEF LandCopy
<1>2. disk' = [disk EXCEPT ![at'] = o]
    BY DEF LandCopy, Put
<1>3. disk'[at'] = o /\ disk'[Src(o)] = o
    BY <1>1, <1>2, NameFacts DEF IInv, TypeOK
<1>4. << o, at' >> \in stood'
    BY <1>1, <1>3 DEF LandCopy, Put
<1> QED
    BY <1>1, <1>3, <1>4 DEF LandCopy, Landed, records, Pending

LEMMA NextLanded == IInv /\ [Next]_vars => Landed'
<1> SUFFICES ASSUME IInv, [Next]_vars PROVE Landed'
    OBVIOUS
<1>1. ASSUME NEW o \in Ops, LandCopy(o) PROVE Landed'
    BY <1>1, CopyStands
<1>2. CASE UNCHANGED vars
    BY <1>2 DEF vars, files, records, memory, IInv, Landed, Pending
<1>3. CASE pc' # "remove"
    BY <1>3 DEF Landed
<1>4. ASSUME NEW o \in Ops,
             \/ SkipMissing(o) \/ SkipChanged(o) \/ RecoverMove(o) \/ MoveFile(o) \/ MoveFails(o)
      PROVE  pc' # "remove"
    BY <1>4 DEF SkipMissing, SkipChanged, RecoverMove, MoveFile, MoveFails, EndWith, Advance
<1>5. CASE Others
    BY <1>3, <1>5 DEF Others, ByHand, Claim, Scan, ScanTooSoon, Outsider
<1> QED
    BY <1>1, <1>2, <1>3, <1>4, <1>5 DEF Next, Step, Commit, FinishRecords, FinishedRecords,
       Refuse, RefuseOne, RefusedAll, Proceed, SkipTerminal, RemoveSource, WriteResult,
       WriteJournal, MoveRow, LeaveRow, RowRaises, SpendProposal, AskBackup, WriteEntry, Close,
       Settle, Crash, EndWith, Advance, Forget

LEMMA NextRecorded == IInv /\ [Next]_vars => Recorded'
<1> SUFFICES ASSUME IInv, [Next]_vars PROVE Recorded'
    OBVIOUS
<1>0. stood \subseteq stood'
    BY StoodGrows
<1> USE Counting, NameFacts
<1> USE DEF IInv, Recorded, Recording, HasMoved, Journalled, Pending, Moved
<1> USE DEF files, index, records, after, memory, outside
<1>1. CASE Commit \/ FinishedRecords \/ Refuse \/ RefuseOne \/ RefusedAll
           \/ Proceed \/ SkipTerminal
    BY <1>1 DEF Commit, FinishedRecords, Refuse, RefuseOne, RefusedAll, Proceed, SkipTerminal,
       Advance
<1>2. CASE FinishRecords
    <2>1. CASE /\ result[cur] \in Moved
               /\ pc' = "result" /\ recovering' = TRUE /\ at' = final[cur] /\ UNCHANGED cur
        <3>1. cur \in Ops
            BY <1>2 DEF FinishRecords, TypeOK
        <3>2. << cur, final[cur] >> \in stood /\ final[cur] \in Names
            BY <2>1, <3>1 DEF NoFalseRecord, TypeOK
        <3> QED
            BY <1>2, <2>1, <3>1, <3>2 DEF FinishRecords
    <2>2. CASE Advance
        BY <1>2, <2>2 DEF FinishRecords, Advance
    <2> QED
        BY <1>2, <2>1, <2>2 DEF FinishRecords
<1>3. ASSUME NEW o \in Ops, SkipMissing(o) \/ SkipChanged(o) \/ MoveFails(o)
      PROVE  Recorded'
    BY <1>3 DEF SkipMissing, SkipChanged, MoveFails, EndWith, Advance, At, Passes
<1>4. ASSUME NEW o \in Ops, RecoverMove(o)
      PROVE  Recorded'
    <2>1. << o, Dest(o) >> \in stood
        BY <1>4 DEF RecoverMove, AlreadyMoved, Standing
    <2> QED
        BY <1>4, <2>1 DEF RecoverMove, At
<1>5. ASSUME NEW o \in Ops, MoveFile(o)
      PROVE  Recorded'
    BY <1>5, MoveStands DEF MoveFile, Resolve, At
<1>5a. ASSUME NEW o \in Ops, LandCopy(o)
       PROVE  Recorded'
    BY <1>5a DEF LandCopy
<1>5b. CASE RemoveSource
    <2>1. cur \in Ops
        BY <1>5b, KindAssumption DEF RemoveSource, Landed
    <2> QED
        BY <1>0, <1>5b, <2>1 DEF RemoveSource, EndWith, Advance, Landed, Passes
<1>6. CASE WriteResult
    BY <1>6 DEF WriteResult, Ahead, TypeOK
<1>7. CASE WriteJournal \/ MoveRow \/ LeaveRow \/ SpendProposal \/ AskBackup
    BY <1>7 DEF WriteJournal, MoveRow, LeaveRow, SpendProposal, AskBackup
<1>8. CASE RowRaises
    BY <1>8 DEF RowRaises, EndWith, Forget, Advance
<1>9. CASE WriteEntry \/ Close \/ Settle \/ Crash
    BY <1>9 DEF WriteEntry, Advance, Close, Settle, Crash, Forget
<1>10. CASE Others
    BY <1>10 DEF Others, ByHand, Claim, Scan, ScanTooSoon, Outsider
<1>11. CASE UNCHANGED vars
    BY <1>11 DEF vars
<1> QED
    BY <1>1, <1>2, <1>3, <1>4, <1>5, <1>5a, <1>5b, <1>6, <1>7, <1>8, <1>9, <1>10, <1>11
    DEF Next, Step

\* Whatever stands somewhere now is among what has stood there.
LEMMA NextStanding == IInv /\ [Next]_vars => Standing'
<1> SUFFICES ASSUME IInv, [Next]_vars PROVE Standing'
    OBVIOUS
<1>1. ASSUME NEW o \in Ops, MoveFile(o) \/ LandCopy(o)
      PROVE  Standing'
    BY <1>1 DEF MoveFile, LandCopy, Put, Standing
<1>1a. CASE RemoveSource
    BY <1>1a DEF RemoveSource, Put, Standing, IInv, files
<1>2. ASSUME NEW m \in Names, ByHand(m)
      PROVE  Standing'
    BY <1>2 DEF ByHand, Put, Standing
<1>3. CASE UNCHANGED << disk, stood >>
    BY <1>3 DEF IInv, Standing
<1> QED
    BY <1>1, <1>1a, <1>2, <1>3 DEF Next, Step, Others, vars, files, Commit, FinishRecords,
       FinishedRecords, Refuse, RefuseOne, RefusedAll, Proceed, SkipTerminal, SkipMissing, SkipChanged, RecoverMove,
       MoveFails, WriteResult, WriteJournal, MoveRow, LeaveRow, RowRaises, SpendProposal,
       AskBackup, WriteEntry, Close, Settle, Crash, Claim, Scan, ScanTooSoon

-------------------------------------------------------------------------------
(* The journal.                                                            *)

Journal == Ahead /\ JournalledOnce /\ NoFalseRecord /\ Agree

LEMMA EndWithJournal ==
    ASSUME IInv, stood \subseteq stood', cur \in Ops,
           NEW r \in Results \ (Moved \cup {"none"}), EndWith(r)
    PROVE  Journal'
BY DEF IInv, TypeOK, EndWith, Journal, Ahead, JournalledOnce, NoFalseRecord, Agree,
       HasMoved, Journalled, Pending

\* Either the row was there already, or it is the only one.
LEMMA JournalWritten ==
    ASSUME IInv, WriteJournal
    PROVE  /\ cur \in Ops /\ at \in Names
           /\ \/ Journalled(cur) /\ UNCHANGED okRows
              \/ okRows' = [okRows EXCEPT ![cur] = << at >>]
<1>1. cur \in Ops /\ at \in Names
    BY DEF IInv, Recorded, Recording, WriteJournal
<1>2. CASE recovering /\ Journalled(cur)
    BY <1>1, <1>2 DEF WriteJournal
<1>3. CASE ~(recovering /\ Journalled(cur))
    <2>1. okRows[cur] = << >>
        BY <1>3 DEF IInv, Recorded, Recording, WriteJournal, Journalled
    <2> QED
        BY <1>1, <1>3, <2>1, OneRow DEF WriteJournal
<1> QED
    BY <1>2, <1>3

LEMMA NextJournal == IInv /\ [Next]_vars => Journal'
<1> SUFFICES ASSUME IInv, [Next]_vars PROVE Journal'
    OBVIOUS
<1>0. stood \subseteq stood'
    BY StoodGrows
<1> USE DEF Journal
<1>1. CASE UNCHANGED records
    BY <1>0, <1>1 DEF records, IInv, Ahead, JournalledOnce, NoFalseRecord, Agree, HasMoved,
       Journalled, Pending
<1>2. CASE RefuseOne
    <2>1. cur \in Ops /\ UNCHANGED okRows
        BY <1>2, Counting DEF RefuseOne, IInv, TypeOK
    <2>2. /\ \A o \in Ops \ {cur} : result'[o] = result[o] /\ final'[o] = final[o]
          /\ result'[cur] \notin Moved /\ result'[cur] # "none"
        BY <1>2, <2>1 DEF RefuseOne, IInv, TypeOK, Moved
    <2> QED
        BY <1>0, <2>1, <2>2 DEF IInv, Ahead, JournalledOnce, NoFalseRecord, Agree,
           HasMoved, Journalled, Pending
<1>2a. CASE RemoveSource
    <2>1. cur \in Ops /\ "failed" \in Results \ (Moved \cup {"none"})
        BY <1>2a, KindAssumption DEF RemoveSource, IInv, Landed, Results, Moved
    <2> QED
        BY <1>0, <1>1, <1>2a, <2>1, EndWithJournal DEF RemoveSource
<1>3. ASSUME NEW o \in Ops, SkipMissing(o) \/ SkipChanged(o) \/ MoveFails(o)
      PROVE  Journal'
    <2>1. cur \in Ops /\ \E r \in Results \ (Moved \cup {"none"}) : EndWith(r)
        BY <1>3 DEF SkipMissing, SkipChanged, MoveFails, At, Results, Moved
    <2> QED
        BY <1>0, <2>1, EndWithJournal
<1>4. CASE RowRaises
    <2>1. cur \in Ops
        BY <1>4 DEF RowRaises, IInv, Recorded, Recording
    <2>2. "failed" \in Results \ (Moved \cup {"none"})
        BY DEF Results, Moved
    <2>3. CASE EndWith("failed")
        BY <1>0, <2>1, <2>2, <2>3, EndWithJournal
    <2>4. CASE UNCHANGED records
        BY <2>4, <1>1
    <2> QED
        BY <1>4, <2>3, <2>4 DEF RowRaises
<1>5. CASE WriteResult
    <2>1. cur \in Ops /\ << cur, at >> \in stood
        BY <1>5 DEF WriteResult, IInv, Recorded, Recording
    <2>2. CASE UNCHANGED << result, final >>
        BY <1>5, <2>2, <1>1 DEF WriteResult, records
    <2>3. CASE ~(recovering /\ ~Pending(cur))
        <3>1. ~Journalled(cur)
            BY <1>5, <2>1, <2>3 DEF WriteResult, IInv, Recorded, Recording, Ahead
        <3>2. /\ \A o \in Ops \ {cur} : result'[o] = result[o] /\ final'[o] = final[o]
              /\ result'[cur] \in Moved /\ final'[cur] = at /\ UNCHANGED okRows
            BY <1>5, <2>1, <2>3 DEF WriteResult, IInv, TypeOK, Moved
        <3>3. result'[cur] # "none"
            BY <3>2 DEF Moved
        <3> QED
            BY <1>0, <2>1, <3>1, <3>2, <3>3 DEF IInv, Ahead, JournalledOnce, NoFalseRecord,
               Agree, HasMoved, Journalled, Pending
    <2> QED
        BY <1>5, <2>2, <2>3 DEF WriteResult
<1>6. CASE WriteJournal
    <2>1. /\ << cur, at >> \in stood /\ result[cur] \in Moved /\ at = final[cur]
          /\ UNCHANGED << result, final >>
        BY <1>6 DEF WriteJournal, IInv, Recorded, Recording, HasMoved
    <2>2. CASE UNCHANGED okRows
        BY <2>1, <2>2, <1>1 DEF records
    <2>3. CASE okRows' = [okRows EXCEPT ![cur] = << at >>]
        <3>1. cur \in Ops /\ at \in Names
            BY <1>6, JournalWritten
        <3>2. /\ \A o \in Ops \ {cur} : okRows'[o] = okRows[o]
              /\ okRows'[cur] = << at >>
            BY <2>3, <3>1 DEF IInv, TypeOK
        <3>3. /\ Len(okRows'[cur]) = 1 /\ okRows'[cur][1] = at
              /\ okRows'[cur] # << >>
            BY <3>1, <3>2, OneRow
        <3>4. result[cur] # "none"
            BY <2>1 DEF Moved
        <3>5. JournalledOnce' /\ Agree'
            BY <2>1, <3>1, <3>2, <3>3 DEF IInv, JournalledOnce, Agree, HasMoved, Journalled
        <3>6. NoFalseRecord' /\ Ahead'
            BY <1>0, <2>1, <3>1, <3>2, <3>3, <3>4 DEF IInv, NoFalseRecord, Ahead, Journalled,
               Pending
        <3> QED
            BY <3>5, <3>6
    <2> QED
        BY <1>6, <2>2, <2>3, JournalWritten
<1> QED
    BY <1>1, <1>2, <1>2a, <1>3, <1>4, <1>5, <1>6 DEF Next, Step, Others, vars, Commit, Refuse,
       RefusedAll, FinishRecords, FinishedRecords, Proceed, SkipTerminal, RecoverMove, MoveFile,
       LandCopy, MoveRow, LeaveRow, SpendProposal, AskBackup, WriteEntry, Close, Settle, Crash, ByHand, Claim,
       Scan, ScanTooSoon, Outsider

-------------------------------------------------------------------------------
(* The operations the journal may lag behind.                              *)

LEMMA CountOrder ==
    /\ \A o \in Ops : o \in Nat /\ 1 <= o /\ o <= N
    /\ N \in Nat
    /\ \A k \in 1 .. N + 1 : k \in Nat /\ 1 <= k
BY PlanAssumption DEF Ops

LEMMA NextCaught == IInv /\ [Next]_vars => Caught'
<1> SUFFICES ASSUME IInv, [Next]_vars PROVE Caught'
    OBVIOUS
<1> USE CountOrder
<1> USE DEF Caught, MayLack, HasMoved, Journalled, Recording
<1> USE DEF records, memory, after
<1>0. cur \in 1 .. N + 1 /\ Passes /\ Recorded /\ Caught
    BY DEF IInv, TypeOK
<1>1. CASE Commit
    <2>1. UNCHANGED << result, okRows, cur >> /\ cur = 1
        BY <1>0, <1>1 DEF Commit, Passes
    <2>2. CASE status = "executing"
        <3>1. pc' = "finish"
            BY <1>1, <2>2 DEF Commit
        <3>2. MayLack' = Ops
            BY <2>1, <3>1
        <3> QED
            BY <3>2
    <2>3. CASE status # "executing"
        <3>1. MayLack = {}
            BY <1>1, <2>3 DEF Commit
        <3> QED
            BY <1>0, <2>1, <3>1
    <2> QED
        BY <2>2, <2>3
<1>2. CASE FinishRecords
    BY <1>0, <1>2 DEF FinishRecords, Advance, Passes
<1>3. CASE FinishedRecords
    BY <1>0, <1>3 DEF FinishedRecords
<1>4. CASE Refuse \/ RefusedAll
    BY <1>0, <1>4 DEF Refuse, RefusedAll
<1>4a. CASE RefuseOne
    <2>1. \A o \in Ops : result'[o] \in Moved => result[o] \in Moved
        BY <1>4a DEF RefuseOne, Moved, IInv, TypeOK
    <2> QED
        BY <1>0, <1>4a, <2>1 DEF RefuseOne
<1>4b. CASE RemoveSource
    <2>1. CASE pc' = "result" /\ UNCHANGED << records, memory >>
        BY <1>0, <1>4b, <2>1 DEF RemoveSource, Passes
    <2>2. CASE EndWith("failed")
        <3>1. cur \in Ops /\ ~finishing /\ pc = "remove"
            BY <1>0, <1>4b, KindAssumption DEF RemoveSource, Passes, IInv, Landed
        <3>2. \A p \in Ops : result'[p] \in Moved => result[p] \in Moved
            BY <3>1, <2>2 DEF EndWith, IInv, TypeOK, Moved
        <3> QED
            BY <1>0, <2>2, <3>1, <3>2 DEF EndWith, Advance
    <2> QED
        BY <1>4b, <2>1, <2>2 DEF RemoveSource
<1>5. CASE Proceed \/ SkipTerminal
    BY <1>0, <1>5 DEF Proceed, SkipTerminal, Advance, Passes
<1>6. ASSUME NEW o \in Ops, SkipMissing(o) \/ SkipChanged(o) \/ MoveFails(o)
      PROVE  Caught'
    <2>1. /\ pc = "next" /\ cur \in Ops /\ ~finishing
          /\ \E r \in Results \ Moved : EndWith(r)
        BY <1>0, <1>6 DEF SkipMissing, SkipChanged, MoveFails, At, Results, Moved, Passes
    <2>2. \A p \in Ops : result'[p] \in Moved => result[p] \in Moved
        BY <2>1 DEF EndWith, IInv, TypeOK
    <2> QED
        BY <1>0, <2>1, <2>2 DEF EndWith, Advance
<1>7. ASSUME NEW o \in Ops, RecoverMove(o) \/ MoveFile(o) \/ LandCopy(o)
      PROVE  Caught'
    BY <1>0, <1>7 DEF RecoverMove, MoveFile, LandCopy, Resolve, At, Passes
<1>8. CASE WriteResult
    <2>1. cur \in Ops /\ \A p \in Ops \ {cur} : result'[p] = result[p]
        BY <1>0, <1>8 DEF WriteResult, Recorded, IInv, TypeOK
    <2> QED
        BY <1>0, <1>8, <2>1 DEF WriteResult
<1>9. CASE WriteJournal
    <2>1. /\ pc = "journal" /\ pc' = "index"
          /\ UNCHANGED << result, cur, finishing >>
        BY <1>9 DEF WriteJournal
    <2>2. cur \in Ops /\ at \in Names /\ okRows \in [Ops -> Seq(Names)]
        BY <1>9, JournalWritten DEF IInv, TypeOK
    <2>3. \/ okRows'[cur] = okRows[cur] /\ okRows[cur] # << >>
          \/ okRows'[cur] = << at >>
        BY <1>9, <2>2, JournalWritten
    <2>4. okRows'[cur] # << >>
        BY <2>2, <2>3, OneRow
    <2>5. \A p \in Ops \ {cur} : okRows'[p] = okRows[p]
        BY <1>9, <2>2, JournalWritten
    <2>6. \A p \in Ops : p \notin MayLack' => p = cur \/ p \notin MayLack
        BY <1>0, <2>1, <2>2
    <2>7. \A p \in Ops \ MayLack : HasMoved(p) => Journalled(p)
        BY <1>0
    <2> HIDE DEF MayLack
    <2> QED
        BY <2>1, <2>4, <2>5, <2>6, <2>7
<1>10. CASE MoveRow \/ LeaveRow \/ SpendProposal \/ AskBackup
    BY <1>0, <1>10 DEF MoveRow, LeaveRow, SpendProposal, AskBackup
<1>11. CASE RowRaises
    <2>1. CASE EndWith("failed")
        <3>1. cur \in Ops /\ ~finishing
            BY <1>0, <1>11, <2>1 DEF RowRaises, Recorded, EndWith, Forget, Advance
        <3>2. \A p \in Ops : result'[p] \in Moved => result[p] \in Moved
            BY <3>1, <2>1 DEF EndWith, IInv, TypeOK, Moved
        <3> QED
            BY <1>0, <1>11, <2>1, <3>1, <3>2 DEF RowRaises, EndWith, Advance
    <2>2. CASE Forget /\ UNCHANGED status
        BY <1>0, <1>11, <2>2 DEF RowRaises, Forget, Passes
    <2> QED
        BY <1>11, <2>1, <2>2 DEF RowRaises
<1>12. CASE WriteEntry
    BY <1>0, <1>12 DEF WriteEntry, Advance
<1>13. CASE Close
    BY <1>0, <1>13 DEF Close
<1>14. CASE Settle \/ Crash
    BY <1>0, <1>14 DEF Settle, Crash, Forget, Passes
<1>15. CASE Others
    BY <1>0, <1>15 DEF Others, ByHand, Claim, Scan, ScanTooSoon, Outsider
<1>16. CASE UNCHANGED vars
    BY <1>0, <1>16 DEF vars
<1> QED
    BY <1>1, <1>2, <1>3, <1>4, <1>4a, <1>4b, <1>5, <1>6, <1>7, <1>8, <1>9, <1>10, <1>11,
       <1>12, <1>13, <1>14, <1>15, <1>16 DEF Next, Step

-------------------------------------------------------------------------------
(* The index: a decided row is left alone.                                 *)

\* The steps that write an items row of another file, and what they may do to it.
LEMMA NextClaims ==
    ASSUME IInv, [Next]_vars, NEW m \in Names, others[m] = "claimed"
    PROVE  others'[m] = "claimed"
<1>0. /\ TypeOK
      /\ pc = "index" => cur \in Ops /\ at \in Names
    BY DEF IInv, Recorded, Recording
<1>1. CASE MoveRow \/ RowRaises
    BY <1>0, <1>1 DEF MoveRow, RowRaises, Retires, TypeOK
<1>2. CASE Others
    BY <1>0, <1>2 DEF Others, Scan, Claim, ByHand, ScanTooSoon, HasRow, TypeOK, index
<1>3. CASE FinishRecords \/ FinishedRecords \/ Refuse \/ RefuseOne \/ RefusedAll
           \/ Proceed \/ SkipTerminal \/ RemoveSource
    BY <1>3 DEF FinishRecords, FinishedRecords, Refuse, RefuseOne, RefusedAll, Proceed,
       SkipTerminal, RemoveSource, index
<1>4. ASSUME NEW o \in Ops,
             \/ SkipMissing(o) \/ SkipChanged(o) \/ RecoverMove(o)
             \/ MoveFile(o) \/ LandCopy(o) \/ MoveFails(o)
      PROVE  others' = others
    BY <1>4 DEF SkipMissing, SkipChanged, RecoverMove, MoveFile, LandCopy, MoveFails, index
<1>5. CASE WriteResult \/ WriteJournal \/ LeaveRow \/ SpendProposal \/ AskBackup
           \/ WriteEntry \/ Close \/ Settle
    BY <1>5 DEF WriteResult, WriteJournal, LeaveRow, SpendProposal, AskBackup,
       WriteEntry, Close, Settle, index
<1>6. CASE Commit \/ Crash \/ UNCHANGED vars
    BY <1>6 DEF Commit, Crash, vars, index
<1> QED
    BY <1>1, <1>2, <1>3, <1>4, <1>5, <1>6 DEF Next, Step

-------------------------------------------------------------------------------
(* The theorems.                                                           *)

LEMMA NextIInv == IInv /\ [Next]_vars => IInv'
BY NextType, NextStanding, NextRecorded, NextLanded, NextJournal, NextCaught, NextPasses DEF IInv, Journal

LEMMA SpecIInv == Spec => []IInv
BY InitIInv, NextIInv, PTL DEF Spec

(* The statuses, results and rows of every plan stay in their types, whatever is
   killed and whoever acts between runs. *)
THEOREM TypeCorrect == Spec => []TypeOK
BY SpecIInv, PTL DEF IInv

(* However many times a plan is killed and committed again, no move of it has two
   forward 'ok' rows in the journal. *)
THEOREM NeverJournalledTwice == Spec => []JournalledOnce
BY SpecIInv, PTL DEF IInv

(* No crash, resumption or act of a person makes the journal or a result name an
   address where the file has not stood. *)
THEOREM NeverAFalseRecord == Spec => []NoFalseRecord
BY SpecIInv, PTL DEF IInv

(* In a plan that is over, the journal has exactly the row each moved operation
   calls for: the finish pass leaves none out. *)
THEOREM JournalComplete == Spec => []JournalAgrees
<1>1. IInv => JournalAgrees
    <2> SUFFICES ASSUME IInv, Over, NEW o \in Ops, result[o] \in Moved
                 PROVE  okRows[o] = << final[o] >>
        BY DEF JournalAgrees
    <2>1. MayLack = {}
        BY DEF Over, MayLack
    <2>2. Journalled(o)
        BY <2>1 DEF IInv, Caught, HasMoved
    <2> QED
        BY <2>2 DEF IInv, Agree, HasMoved
<1> QED
    BY <1>1, SpecIInv, PTL

(* No resumption retires the row of a file that a decision has been made about. *)
THEOREM DecisionsAreLeft == Spec => ClaimsSurvive
<1>1. IInv /\ [Next]_vars => [\A m \in Names : others[m] = "claimed"
                                               => others'[m] = "claimed"]_vars
    BY NextClaims
<1> QED
    BY <1>1, SpecIInv, PTL DEF Spec, ClaimsSurvive

===============================================================================
