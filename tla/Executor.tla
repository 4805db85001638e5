------------------------------- MODULE Executor -------------------------------
(***************************************************************************)
(* One approved plan carried out by executor.execute_plan, one database    *)
(* statement per step, with a crash possible between any two of them, the  *)
(* plan committed again afterwards, and people and scans acting between    *)
(* runs.  The plan's operations are 1 .. N in seq order; file o is the     *)
(* file operation o was approved to move, and o is also its contents.      *)
(*                                                                         *)
(* A name is << b, n >>: the place b, or the n-th name resolve_collision   *)
(* tries for it.  Moving one file is one step here, or two when it goes    *)
(* from one filesystem to another: the copy is in place, then the source   *)
(* is removed.  FileMove has every filesystem call, and what people can do *)
(* in the middle of them.                                                  *)
(*                                                                         *)
(* Left out: adoption, merge, duplicate-evidence, relationship-drift and   *)
(* comparison plans (all of them further reasons to refuse before a move), *)
(* the roots check, and the text of the journal.                           *)
(***************************************************************************)
EXTENDS Naturals, Sequences

CONSTANTS
    N,              \* operations of the plan
    Bases,          \* the places files are moved from and to
    MaxNum,         \* bound: names resolve_collision may try
    SrcOf, DestOf,  \* each operation's source and approved destination
    Quarantines,    \* operations that set a file aside
    Filings,        \* operations whose destination is the library
    Restores,       \* operations that bring a file back out of quarantine
    Crosses,        \* operations from one filesystem to another
    Coherent,       \* the plan is one decision: all of it or none of it
    Settles,        \* the plan answers one quarantine entry
    RowsAtDest,     \* destinations another item's row may already name
    MaxCrashes,     \* bound: crashes
    MaxHands        \* bound: acts of people and of scans between runs

Ops == 1 .. N
Nothing == 0
Foreign == N + 1
Names == Bases \X (1 .. MaxNum)
NoName == << >>

ASSUME PlanAssumption ==
    /\ N \in Nat \ {0}
    /\ MaxNum \in Nat \ {0}
    /\ SrcOf \in [Ops -> Bases]
    /\ DestOf \in [Ops -> Bases]
    /\ \A o, p \in Ops : o # p => SrcOf[o] # SrcOf[p] /\ DestOf[o] # DestOf[p]
    /\ \A o \in Ops : SrcOf[o] # DestOf[o]

ASSUME KindAssumption ==
    /\ Quarantines \subseteq Ops
    /\ Filings \subseteq Ops \ Quarantines
    /\ Restores \subseteq Ops \ Quarantines
    /\ Crosses \subseteq Ops
    /\ Coherent \in BOOLEAN
    /\ Settles \in BOOLEAN
    /\ Settles => Restores # {}
    /\ RowsAtDest \subseteq {o \in Ops : \A p \in Ops : SrcOf[p] # DestOf[o]}
    /\ MaxCrashes \in Nat
    /\ MaxHands \in Nat

Src(o) == << SrcOf[o], 1 >>
Dest(o) == << DestOf[o], 1 >>

VARIABLES
    disk,           \* what is at each name
    stood,          \* << o, m >>: file o has been seen to stand at name m
    row,            \* where the items row of file o says it is
    others,         \* other items rows: "none", "fresh" or "claimed" at a name
    touched,        \* files whose item a scan has called 'unstable'
    result, final,  \* plan_ops.result and plan_ops.final_relpath
    okRows,         \* the forward 'ok' history rows of o: where each says it went
    entry,          \* the quarantine entry of o
    asked,          \* files with a request in the backup queue
    spent,          \* files whose proposal is committed
    status,         \* plans.status
    pc,             \* the process: "idle" or the statement it runs next
    cur,            \* the operation it is at
    resuming,       \* the plan said 'executing' when this run began
    recovering,     \* _record_move is finishing an earlier run's move
    finishing,      \* the run is still in _finish_records
    bad,            \* this run has counted something other than a move
    at,             \* final_dest
    crashes, hands

files    == << disk, stood >>
index    == << row, others, touched >>
records  == << result, final, okRows >>
after    == << entry, asked, spent >>
memory   == << cur, resuming, recovering, finishing, bad, at >>
outside  == << crashes, hands >>
vars == << files, index, records, after, status, pc, memory, outside >>

Moved == {"done", "renamed_collision"}
Results == Moved \cup {"none", "skipped_missing", "skipped_changed", "failed"}
Recording == {"result", "journal", "index", "spend", "backup", "entry"}
Places == {"finish", "check", "refuse", "next", "remove", "close", "settle"} \cup Recording

OpAt(b) == CHOOSE o \in Ops : SrcOf[o] = b

Init ==
    /\ \E occupied \in SUBSET {o \in Ops : \A p \in Ops : SrcOf[p] # DestOf[o]} :
          disk = [m \in Names |->
                    IF \E o \in Ops : m = Src(o) THEN OpAt(m[1])
                    ELSE IF \E o \in occupied : m = Dest(o) THEN Foreign ELSE Nothing]
    /\ stood = {<< o, Src(o) >> : o \in Ops}
    /\ row = [o \in Ops |-> Src(o)]
    /\ \E known \in SUBSET RowsAtDest, kind \in {"fresh", "claimed"} :
          others = [m \in Names |->
                      IF \E o \in known : m = Dest(o) THEN kind ELSE "none"]
    /\ touched = {}
    /\ result = [o \in Ops |-> "none"]
    /\ final = [o \in Ops |-> NoName]
    /\ okRows = [o \in Ops |-> << >>]
    /\ entry = [o \in Ops |-> IF o \in Restores THEN "held" ELSE "none"]
    /\ asked = {}
    /\ spent = {}
    /\ status = "approved"
    /\ pc = "idle"
    /\ cur = 1
    /\ resuming = FALSE
    /\ recovering = FALSE
    /\ finishing = FALSE
    /\ bad = FALSE
    /\ at = NoName
    /\ crashes = 0
    /\ hands = 0

-------------------------------------------------------------------------------
(* The run: _execute_plan_unlocked, under the lock.                        *)

\* Every file that stands somewhere new is remembered as having stood there.
Put(d) ==
    /\ disk' = d
    /\ stood' = stood \cup {<< d[m], m >> : m \in {k \in Names : d[k] \in Ops}}

\* The process has ended, and its memory with it.
Forget ==
    /\ pc' = "idle"
    /\ cur' = 1
    /\ resuming' = FALSE
    /\ recovering' = FALSE
    /\ finishing' = FALSE
    /\ bad' = FALSE
    /\ at' = NoName

\* A plan already done is not run again, but what follows it is.
Commit ==
    /\ pc = "idle"
    /\ resuming' = (status = "executing")
    /\ finishing' = (status = "executing")
    /\ \/ /\ status = "done"
          /\ pc' = "settle"
          /\ UNCHANGED status
       \/ /\ status # "done"
          /\ status' = "executing"
          /\ pc' = IF status = "executing" THEN "finish" ELSE "check"
    /\ UNCHANGED << files, index, records, after, cur, recovering, bad, at, outside >>

\* Mutant: a result that says moved is taken for the history row.
JournalledByResult(o) == result[o] \in Moved

\* _journalled: the forward 'ok' row is there.
Journalled(o) == okRows[o] # << >>

\* Mutant: nobody looks at the index.
IndexIgnored(o) == FALSE

\* _index_behind
IndexBehind(o) == row[o] # final[o]

\* On to the next operation of the pass the process is in.
Advance ==
    /\ cur' = cur + 1
    /\ pc' = IF finishing THEN "finish" ELSE "next"

\* _finish_records: a move whose result was written, but not its journal row or
\* its index row, has its records finished.
FinishRecords ==
    /\ pc = "finish"
    /\ cur <= N
    /\ \/ /\ result[cur] \in Moved
          /\ ~Journalled(cur) \/ IndexBehind(cur)
          /\ pc' = "result"
          /\ recovering' = TRUE
          /\ at' = final[cur]
          /\ UNCHANGED cur
       \/ /\ result[cur] \notin Moved \/ (Journalled(cur) /\ ~IndexBehind(cur))
          /\ Advance
          /\ UNCHANGED << recovering, at >>
    /\ UNCHANGED << files, index, records, after, status, resuming, finishing, bad, outside >>

\* Mutant: the pass over the records is never left.
FinishedRecordsKeep ==
    /\ pc = "finish"
    /\ cur > N
    /\ pc' = "check"
    /\ UNCHANGED << files, index, records, after, status, memory, outside >>

FinishedRecords ==
    /\ pc = "finish"
    /\ cur > N
    /\ pc' = "check"
    /\ finishing' = FALSE
    /\ UNCHANGED << files, index, records, after, status,
                    cur, resuming, recovering, bad, at, outside >>

Pending(o) == result[o] = "none"

\* Mutant: only a source that is gone is noticed.
StaleMissing == \E o \in Ops : Pending(o) /\ disk[Src(o)] = Nothing

\* _incoherent_ops
Stale == \E o \in Ops : Pending(o) /\ disk[Src(o)] # o

\* A coherent plan with one pending source gone or changed is
\* refused whole.
Refuse ==
    /\ pc = "check"
    /\ Coherent /\ Stale
    /\ cur' = 1
    /\ pc' = "refuse"
    /\ UNCHANGED << files, index, records, after, status,
                    resuming, recovering, finishing, bad, at, outside >>

\* Row by row it gets a result, the rows of finished operations too.
RefuseOne ==
    /\ pc = "refuse"
    /\ cur <= N
    /\ result' = [result EXCEPT ![cur] = IF disk[Src(cur)] = Nothing THEN "skipped_missing"
                                                                    ELSE "skipped_changed"]
    /\ final' = [final EXCEPT ![cur] = NoName]
    /\ cur' = cur + 1
    /\ UNCHANGED << files, index, okRows, after, status, pc,
                    resuming, recovering, finishing, bad, at, outside >>

RefusedAll ==
    /\ pc = "refuse"
    /\ cur > N
    /\ status' = "failed"
    /\ pc' = "settle"
    /\ UNCHANGED << files, index, records, after, memory, outside >>

Proceed ==
    /\ pc = "check"
    /\ ~(Coherent /\ Stale)
    /\ cur' = 1
    /\ pc' = "next"
    /\ UNCHANGED << files, index, records, after, status,
                    resuming, recovering, finishing, bad, at, outside >>

-------------------------------------------------------------------------------
(* One operation: _execute_op.                                             *)

\* An operation with any result at all is never executed again.
SkipTerminal ==
    /\ pc = "next"
    /\ cur <= N
    /\ ~Pending(cur)
    /\ Advance
    /\ UNCHANGED << files, index, records, after, status,
                    resuming, recovering, finishing, bad, at, outside >>

At(o) == pc = "next" /\ cur <= N /\ o = cur /\ Pending(o)

\* The operation ends without a move having been recorded.
EndWith(r) ==
    /\ result' = [result EXCEPT ![cur] = r]
    /\ final' = [final EXCEPT ![cur] = NoName]
    /\ bad' = TRUE
    /\ Advance
    /\ UNCHANGED << okRows, status, resuming, recovering, finishing, at >>

\* Mutant: any file at the approved destination is the moved one.
AlreadyMovedAnything(o) == resuming /\ disk[Dest(o)] # Nothing

AlreadyMoved(o) == resuming /\ disk[Dest(o)] = o

SkipMissing(o) ==
    /\ At(o)
    /\ disk[Src(o)] = Nothing
    /\ ~AlreadyMoved(o)
    /\ EndWith("skipped_missing")
    /\ UNCHANGED << files, index, after, outside >>

SkipChanged(o) ==
    /\ At(o)
    /\ disk[Src(o)] \notin {Nothing, o}
    /\ EndWith("skipped_changed")
    /\ UNCHANGED << files, index, after, outside >>

\* _already_moved: the source is gone, and a resumed run finds the approved
\* destination holding exactly the approved bytes.
RecoverMove(o) ==
    /\ At(o)
    /\ disk[Src(o)] = Nothing
    /\ AlreadyMoved(o)
    /\ at' = Dest(o)
    /\ recovering' = TRUE
    /\ pc' = "result"
    /\ UNCHANGED << files, index, records, after, status, cur, resuming, finishing, bad, outside >>

\* Mutant: nobody looks whether a name is taken.
NumbersUnlooked(o) == 1 .. MaxNum

FreeNumbers(o) == {n \in 1 .. MaxNum : disk[<< DestOf[o], n >>] = Nothing}

\* resolve_collision
Resolve(o) ==
    /\ At(o)
    /\ disk[Src(o)] = o
    /\ \E n \in FreeNumbers(o) :                 \* bound: some number is free
          /\ \A k \in FreeNumbers(o) : n <= k
          /\ at' = << DestOf[o], n >>

\* _move_verified on one filesystem: os.rename.
MoveFile(o) ==
    /\ o \notin Crosses
    /\ Resolve(o)
    /\ Put([disk EXCEPT ![Src(o)] = Nothing, ![at'] = o])
    /\ recovering' = FALSE
    /\ pc' = "result"
    /\ UNCHANGED << index, records, after, status, cur, resuming, finishing, bad, outside >>

\* From one filesystem to another: the verified copy takes the name.
LandCopy(o) ==
    /\ o \in Crosses
    /\ Resolve(o)
    /\ Put([disk EXCEPT ![at'] = o])
    /\ recovering' = FALSE
    /\ pc' = "remove"
    /\ UNCHANGED << index, records, after, status, cur, resuming, finishing, bad, outside >>

\* os.remove(src), or it raises and the file stays at both names.
RemoveSource ==
    /\ pc = "remove"
    /\ \/ /\ Put([disk EXCEPT ![Src(cur)] = Nothing])
          /\ pc' = "result"
          /\ UNCHANGED << records, status, memory >>
       \/ EndWith("failed") /\ UNCHANGED files
    /\ UNCHANGED << index, after, outside >>

\* The move raised before the file was at its name: no space, no permission, a
\* copy that did not verify.
MoveFails(o) ==
    /\ At(o)
    /\ disk[Src(o)] = o
    /\ EndWith("failed")
    /\ UNCHANGED << files, index, after, outside >>

-------------------------------------------------------------------------------
(* The records of one move: _record_move, statement by statement.          *)

WriteResult ==
    /\ pc = "result"
    /\ \/ /\ recovering /\ ~Pending(cur)
          /\ UNCHANGED << result, final >>
       \/ /\ ~(recovering /\ ~Pending(cur))
          /\ result' = [result EXCEPT ![cur] =
                          IF at = Dest(cur) THEN "done" ELSE "renamed_collision"]
          /\ final' = [final EXCEPT ![cur] = at]
    /\ pc' = "journal"
    /\ UNCHANGED << files, index, okRows, after, status, memory, outside >>

\* Mutant: recovering does not look for the row of the earlier run.
WriteJournalAgain ==
    /\ pc = "journal"
    /\ okRows' = [okRows EXCEPT ![cur] = Append(@, at)]
    /\ pc' = "index"
    /\ UNCHANGED << files, index, result, final, after, status, memory, outside >>

WriteJournal ==
    /\ pc = "journal"
    /\ okRows' = IF recovering /\ Journalled(cur) THEN okRows
                 ELSE [okRows EXCEPT ![cur] = Append(@, at)]
    /\ pc' = "index"
    /\ UNCHANGED << files, index, result, final, after, status, memory, outside >>

\* Another item's row already has the address: UNIQUE (root, relpath).
Clash ==
    \/ others[at] # "none"
    \/ \E p \in Ops \ {cur} : row[p] = at

\* Mutant: whatever row is there is retired.
RetiresAny == recovering /\ others[at] # "none"

\* A recovering _address_free retires a row that is a discovery and nothing else.
Retires == recovering /\ others[at] = "fresh"
Blocked == recovering /\ ~Retires /\ Clash
IllegalState == cur \in Quarantines /\ cur \in touched

MoveRow ==
    /\ pc = "index"
    /\ disk[at] # Nothing
    /\ ~Blocked /\ ~IllegalState /\ (Clash => Retires)
    /\ row' = [row EXCEPT ![cur] = at]
    /\ others' = IF Retires THEN [others EXCEPT ![at] = "none"] ELSE others
    /\ touched' = touched \ {cur}
    /\ pc' = "spend"
    /\ UNCHANGED << files, records, after, status, memory, outside >>

\* Recovering, and the file is gone again or the address is somebody else's.
LeaveRow ==
    /\ pc = "index"
    /\ recovering
    /\ disk[at] = Nothing \/ Blocked
    /\ pc' = "spend"
    /\ UNCHANGED << files, index, records, after, status, memory, outside >>

\* assert_transition or the UNIQUE constraint raises.  The loop answers with
\* the result 'failed'; the finish pass has nobody to answer, and the run ends.
RowRaises ==
    /\ pc = "index"
    /\ disk[at] # Nothing /\ ~Blocked
    /\ IllegalState \/ (Clash /\ ~Retires)
    /\ others' = IF Retires THEN [others EXCEPT ![at] = "none"] ELSE others
    /\ \/ /\ ~finishing
          /\ EndWith("failed")
       \/ /\ finishing
          /\ Forget
          /\ UNCHANGED << records, status >>
    /\ UNCHANGED << files, row, touched, after, outside >>

\* _mark_proposal_committed and settle_decision
SpendProposal ==
    /\ pc = "spend"
    /\ spent' = spent \cup {cur}
    /\ pc' = "backup"
    /\ UNCHANGED << files, index, records, entry, asked, status, memory, outside >>

\* enqueue_backup_item, for what now lives in the library
AskBackup ==
    /\ pc = "backup"
    /\ asked' = IF cur \in Filings THEN asked \cup {cur} ELSE asked
    /\ pc' = "entry"
    /\ UNCHANGED << files, index, records, entry, spent, status, memory, outside >>

\* Mutant: the call is left out.
WriteEntryForgotten ==
    /\ pc = "entry"
    /\ Advance
    /\ UNCHANGED << files, index, records, after, status,
                    resuming, recovering, finishing, bad, at, outside >>

\* record_quarantine_entry
WriteEntry ==
    /\ pc = "entry"
    /\ entry' = IF cur \in Quarantines /\ ~(recovering /\ entry[cur] # "none")
                THEN [entry EXCEPT ![cur] = "held"] ELSE entry
    /\ Advance
    /\ UNCHANGED << files, index, records, asked, spent, status,
                    resuming, recovering, finishing, bad, at, outside >>

-------------------------------------------------------------------------------
(* The end of a run.                                                       *)

\* Mutant: a status the plans table does not have.
ClosePartial ==
    /\ pc = "next"
    /\ cur > N
    /\ status' = IF bad THEN "partial" ELSE "done"
    /\ pc' = "settle"
    /\ UNCHANGED << files, index, records, after, memory, outside >>

\* The status is taken from what this run counted.
Close ==
    /\ pc = "next"
    /\ cur > N
    /\ status' = IF bad THEN "failed" ELSE "done"
    /\ pc' = "settle"
    /\ UNCHANGED << files, index, records, after, memory, outside >>

\* The entry settle_quarantine_plan closes: its first operation out of quarantine,
\* whatever the result of that operation.
BroughtBack == {o \in Restores : Settles /\ \A p \in Restores : o <= p}

\* Outside the lock, after it: a plan that is not done settles nothing.
Settle ==
    /\ pc = "settle"
    /\ entry' = [o \in Ops |-> IF status = "done" /\ o \in BroughtBack
                               THEN "restored" ELSE entry[o]]
    /\ Forget
    /\ UNCHANGED << files, index, records, asked, spent, status, outside >>

-------------------------------------------------------------------------------
(* Everybody else.                                                         *)

Crash ==
    /\ pc # "idle"
    /\ crashes < MaxCrashes
    /\ crashes' = crashes + 1
    /\ Forget
    /\ UNCHANGED << files, index, records, after, status, hands >>

Outsider ==
    /\ pc = "idle"
    /\ hands < MaxHands
    /\ hands' = hands + 1
    /\ UNCHANGED << records, after, status, pc, memory, crashes >>

\* A person deletes a file, or drops one of their own at a name.
ByHand(m) ==
    /\ Outsider
    /\ \E c \in {Nothing, Foreign} \ {disk[m]} : Put([disk EXCEPT ![m] = c])
    /\ UNCHANGED index

HasRow(m) == others[m] # "none" \/ \E o \in Ops : row[o] = m

\* A scan gives a row to every file that has none, and looks again at every
\* file it had called unstable.  A file it no longer sees keeps its state:
\* _mark_missing only dates its row.
Scan ==
    /\ Outsider
    /\ others' = [m \in Names |-> IF disk[m] # Nothing /\ ~HasRow(m)
                                  THEN "fresh" ELSE others[m]]
    /\ touched' = {o \in touched : disk[row[o]] = Nothing}
    /\ UNCHANGED << files, row >>

\* A file rewritten or touched within the stability window is 'unstable'.
ScanTooSoon(o) ==
    /\ Outsider
    /\ disk[row[o]] # Nothing
    /\ touched' = touched \cup {o}
    /\ UNCHANGED << files, row, others >>

\* A discovered file acquires a decision of its own.
Claim(m) ==
    /\ Outsider
    /\ others[m] = "fresh"
    /\ others' = [others EXCEPT ![m] = "claimed"]
    /\ UNCHANGED << files, row, touched >>

Step ==
    \/ FinishRecords \/ FinishedRecords \/ Refuse \/ RefuseOne \/ RefusedAll
    \/ Proceed \/ SkipTerminal
    \/ \E o \in Ops :
          \/ SkipMissing(o) \/ SkipChanged(o) \/ RecoverMove(o)
          \/ MoveFile(o) \/ LandCopy(o) \/ MoveFails(o)
    \/ RemoveSource
    \/ WriteResult \/ WriteJournal \/ MoveRow \/ LeaveRow \/ RowRaises
    \/ SpendProposal \/ AskBackup \/ WriteEntry \/ Close \/ Settle

Others ==
    \/ \E m \in Names : ByHand(m) \/ Claim(m)
    \/ Scan
    \/ \E o \in Ops : ScanTooSoon(o)

Next == Commit \/ Step \/ Crash \/ Others

Spec == Init /\ [][Next]_vars

-------------------------------------------------------------------------------

(* Every variable stays in its type: the statuses and results are those db.py
   and executor.py can write, and the process is at one of its statements. *)
TypeOK ==
    /\ disk \in [Names -> Ops \cup {Nothing, Foreign}]
    /\ stood \subseteq Ops \X Names
    /\ row \in [Ops -> Names]
    /\ others \in [Names -> {"none", "fresh", "claimed"}]
    /\ touched \subseteq Ops
    /\ result \in [Ops -> Results]
    /\ final \in [Ops -> Names \cup {NoName}]
    /\ okRows \in [Ops -> Seq(Names)]
    /\ entry \in [Ops -> {"none", "held", "restored"}]
    /\ asked \subseteq Ops /\ spent \subseteq Ops
    /\ status \in {"approved", "executing", "done", "failed"}
    /\ pc \in Places \cup {"idle"}
    /\ cur \in 1 .. N + 1
    /\ resuming \in BOOLEAN /\ recovering \in BOOLEAN
    /\ finishing \in BOOLEAN /\ bad \in BOOLEAN
    /\ at \in Names \cup {NoName}
    /\ crashes \in Nat /\ hands \in Nat

\* No process is at the plan, and no run of it is left to finish.
Over == pc = "idle" /\ status \in {"done", "failed"}

(* However often the plan is killed and committed again, an operation has at most
   one forward 'ok' row: History never shows, and Undo never reverses, one move
   twice (_journalled, executor.py:759). *)
JournalledOnce == \A o \in Ops : Len(okRows[o]) <= 1

(* "It may never leave a record saying something happened which did not"
   (crash-recovery.md:16): an 'ok' row and a result that says moved both name an
   address where the approved file has really stood. *)
NoFalseRecord ==
    \A o \in Ops :
        /\ Journalled(o) => << o, okRows[o][1] >> \in stood
        /\ result[o] \in Moved => << o, final[o] >> \in stood

OncePlaced(o) == \E m \in Names : \A k \in Names : disk[k] = o <=> k = m

\* The file is on its way between two filesystems, or was left there twice.
Doubled(o) ==
    o \in Crosses /\ (crashes > 0 \/ result[o] = "failed" \/ (pc = "remove" /\ o = cur))

(* No step of the program takes a file's bytes out of the world: an operation that
   finds its name still held by a file that should have left it goes round it.  And
   with nobody else acting a file is at two names only if it was going from one
   filesystem to another, and the run was killed or the removal failed. *)
NoFileLost ==
    hands = 0 => \A o \in Ops :
        /\ \E m \in Names : disk[m] = o
        /\ OncePlaced(o) \/ Doubled(o)

\* Another item has the address operation o's file was moved to.
AddressTaken(o) == others[final[o]] # "none" \/ \E p \in Ops \ {o} : row[p] = final[o]

(* When a plan is over, an operation that says it moved has exactly one 'ok' row
   and it names the address the operation says: _finish_records has written what
   a crash between the two statements left out (executor.py:659). *)
JournalAgrees ==
    Over => \A o \in Ops : result[o] \in Moved => okRows[o] = << final[o] >>

(* When a plan is over, the index follows every file to the address its operation
   says, unless the address belongs to another item or the file has gone since. *)
IndexFollows ==
    Over => \A o \in Ops : result[o] \in Moved =>
        row[o] = final[o] \/ AddressTaken(o) \/ disk[final[o]] # o

(* "A row that has somehow acquired a decision of its own is left alone"
   (_address_free, executor.py:771): no step removes a claimed row. *)
ClaimsSurvive == [][\A m \in Names : others[m] = "claimed" => others'[m] = "claimed"]_vars

(* Whatever a plan set aside is on the Quarantine page: the row that lets a person
   bring it back is there once the plan is over. *)
SetAsideIsListed ==
    Over => \A o \in Quarantines : result[o] \in Moved => entry[o] # "none"

(* A plan that was never killed leaves nothing undone: every file it moved has its
   proposal spent, is on the Quarantine page if it was set aside, and has been asked
   to be backed up if it was filed (the calls that end _record_move). *)
FollowedUp ==
    (Over /\ crashes = 0) => \A o \in Ops : result[o] \in Moved =>
        /\ o \in spent
        /\ o \in Quarantines => entry[o] # "none"
        /\ o \in Filings => o \in asked

(* "If any part of it has moved on since it was approved, none of it runs"
   (executor.py:214): a coherent plan that is over moved every file or none, as
   long as no move itself failed. *)
AllOrNothing ==
    (Coherent /\ Over /\ \A o \in Ops : result[o] # "failed") =>
        \/ \A o \in Ops : Journalled(o)
        \/ \A o \in Ops : ~Journalled(o)

(* The same of a coherent plan that was never killed: whatever people do between its
   approval and its commits, it is all of it or none. *)
AllOrNothingUnkilled == crashes = 0 => AllOrNothing

(* The run makes progress, and people who find a plan interrupted commit it again:
   "Committing the plan again is what finishes it" (commit_state.py). *)
Fairness == WF_vars(Step) /\ WF_vars(Commit /\ status = "executing")
FairSpec == Spec /\ Fairness

(* A plan once begun does not stay 'executing' for ever. *)
Finishes == status = "executing" ~> status \in {"done", "failed"}

(* Nor does one whose items no scan has called unstable. *)
FinishesUntouched == [](touched = {}) => Finishes

===============================================================================
