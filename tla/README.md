# LibrAIry in TLA+

LibrAIry files what arrives in an inbox into a library. It proposes a place for
each file, a person approves, and a *plan* of moves is carried out; anything it
replaces goes to quarantine, and every decision can be undone. Its promise is in
`docs/PRODUCT.md`: it never deletes a user's file, never overwrites one, and
records what it did. `docs/architecture/crash-recovery.md` adds what must hold
when it is killed: *"A crash may lose work. It may never lose a file, and it may
never leave a record saying something happened which did not."*

These modules model the part of LibrAIry that keeps that promise: the code that
moves files and writes down that it did; the conversion queue, whose results are
adopted into the library by such a plan; and the two ways bytes leave the machine,
the backup queue and the offline drive. Paths below are relative to
`src/librairy/` unless they begin with `docs/` or `tests/`.

## Inventory

| Component | State it keeps | Operations | What is hard |
| --- | --- | --- | --- |
| **Executor** `executor.py`, `paths.py` | `plans.status`, `plan_ops.result`, `plan_ops.final_relpath`; the files | carry out a plan, resume a killed one, refuse a coherent one whole | one rename and four committed statements per file; a kill between any two; a person at the same files |
| **History, Undo** `history.py`, `undo_sequence.py` | `history` | reverse a plan, one operation at a time; refuse when something later was built on it | kills, a lock taken after the check, names taken meanwhile, undoing twice |
| **Quarantine** `quarantine*.py`, `replacement.py`, `delete_queue.py` | `quarantine_entries` | set aside, restore (one, or a whole decision), replace, mark for deletion | entries follow files through commits, undos and kills they were not part of |
| **Scanner, lifecycle** `scanner.py`, `lifecycle.py`, `reconcile.py` | `items` (root, relpath, state) | index, call unstable, find vanished files, recognise moved ones | a scan looks at a library half way through a plan |
| **Planner** `planner.py`, `plan_conflicts.py`, `withdrawals.py` | `plans`, `plan_ops`, `proposals` | draft, approve, refuse conflicts, send back | two approvals at once: check and write are two statements |
| **Commit state** `commit_state.py`, `web/commit*.py` | none | say what is running, waiting, interrupted | the lock, not the row, is the evidence of a running plan |
| **Locks** `locks.py` | one `flock` | acquire with or without waiting | released by the kernel when its holder dies |
| **Roots** `roots.py` | last seen filesystem of each root | observe, refuse a plan whose root is gone or another | a drive that leaves between the check and the move |
| **Worker, supervisor** `worker.py`, `supervisor.py` | none that survives but `_OWNED`'s encoder | cycle under the lock: poll, scan, classify, back up, drives, sends, launch; restart children | a cycle that finds the lock held ends the worker; its encoder lives on |
| **Backup** `backup.py`, `backup_runs.py` | `backup_queue` | request, copy, verify, retry, discard | bytes that change while they are copied; bytes that come back; a kill during a copy |
| **Transfers** `transfer_*.py`, `offline_drives.py` | `offline_presence`, `transfer_requests`, `backup_runs` | look, compare, copy, ask, answer | a drive pulled, swapped or cloned between a look and a copy; a request left running |
| **Optimization** `optimization_*.py` | `optimization_jobs`, staging directories, the handle of the running encoder | queue, encode, verify, cancel, discard, adopt, compensate, restore | two processes write the same rows; adoption is two operations that must hold together |
| **Corrections, audit, duplicates, classification, search, web** | findings, proposals, evidence, the search mirror | propose and present | data and heuristics; the moves they lead to are the executor's |

Components interact through three things: the SQLite database, which runs in
autocommit, so **each statement is a transaction of its own and a kill falls
between any two**; the files; and one `flock`. Commit and Undo take the lock;
a scan is part of the worker's cycle, under the same lock. The web server's buttons
(queue, cancel, discard, approve, send) take no lock and write beside both. A person,
or another program, changes files whenever they like and takes no lock.

## Modules

| Module | Models | Lines about |
| --- | --- | --- |
| `FileStore` | what moving a file promises, abstractly: names, contents, a file that is in one place and, on the way, in two | – |
| `FileMove` | one operation's move, one filesystem call per step: fingerprint, `resolve_collision`, rename, and across filesystems copy, verify, replace, remove, each of which may raise | `executor._execute_op`, `_move_verified`, `_already_moved` |
| `Executor` | a whole plan, one database statement per step, over moves of one step, or of two across filesystems | `execute_plan`, `_record_move`, `_finish_records`, `_address_free`, `settle_quarantine_plan` |
| `Undo` | many decisions one after another (each committed in one step, as `Executor` shows it when nothing kills it) and Undo, one statement per step | `undo_plan`, `undo_op`, `_reverse`, `assert_clear` |
| `MCExecutor`, `MCUndo` | the plans and symmetry that TLC checks | – |
| `Optimization` | the conversion queue: the rows, the worker's poll, verification, launch and reconcile one statement per step, the encoder, and the queue page's buttons in the other process | `optimization_queue`, `optimization_process`, `worker._optimization_*`, `review.apply_queue_action` |
| `Adoption` | EXTENDS it with using a result: preflight, approval, cancellation, the plan of two operations, its compensation, the restore | `optimization_adopt`, `optimization_preflight`, `optimization_source`, `executor._execute_adoption_op`, `_compensate_adoption`, `optimization_disposal.restore_original` |
| `Backup` | the backup queue on one library path that items hold in turn: asking, a run, two hashes around rclone's copy and check | `backup.enqueue_backup_item`, `_due_backups`, `_copy_and_verify`, `_discard` |
| `Transfers` | EXTENDS it with one offline drive, the policy on it and the sends people ask for | `offline_drives`, `transfer_requests`, `transfer_run`, `transfer_paths`, `worker._offline_drives` |
| `FileMoveProofs`, `ExecutorProofs`, `ExecutorRunProofs`, `UndoProofs`, `OptimizationProofs`, `AdoptionProofs`, `AdoptionRunProofs`, `OffsiteProofs` | the theorems | – |

`Adoption` and `Transfers` compose by extension: each conjoins its own actions with
those of the module below (`UNCHANGED` on the other side) and adds the guard both
share in the code, the one lock (`act = "idle"`, `doing = "idle"`), to the actions
that take it. `Undo` stands on `Executor`, and `Executor` on `FileMove`, by atomicity: what the
lower module takes many steps over is one step of the upper one, and the lower one
says what a kill in the middle leaves. `FileMove` implements `FileStore` formally:
its property `Implements` is `FileStore`'s specification under `held <- disk`.

How state corresponds to the code:

* `disk` is the file system: in `FileMove` contents at each name; in `Executor` and
  `Undo` a name is `<< place, n >>`, the n-th name `resolve_collision` tries
  (`x.jpg`, `x (2).jpg`, …) and a file is also its own fingerprint.
* `row` is the `items` row of each file of the plan, `others` any other row at a
  name: `"fresh"` when a scan has merely discovered it, `"claimed"` when it has
  acquired a decision (`reconcile._CLAIMS`), which decides whether `_address_free`
  may retire it. `touched` are the items in state `unstable`.
* `result`, `final` are `plan_ops`; `okRows` (`journal` in `Undo`) are the `'ok'`
  rows of `history`; `entry` is `quarantine_entries`; `spent` and `asked` the
  proposal and the backup request.
* `pc` names the statement the process runs next, and everything `Forget` resets
  is the process's memory: a crash keeps the database and the files and nothing else.
* In `Optimization` a source has one kind of conversion (the live index is per kind and
  preset; the advisor offers one kind of a file), bytes are versions (an edit makes a
  new one) and an encoder's
  output is named by the encoder: `staging[j]` is the one whose output stands at job
  j's path, `out[j]` the column `output_fingerprint`. `owned` is the worker's
  `_OWNED`; the web server's is always empty, so `ClearStaging` terminates nothing.
  `phase` says whether the worker is down, reconciling or cycling.
* In `Adoption`, `place` is where the original is, `target` what stands at the name
  the result goes to (the same name when the conversion keeps the suffix,
  `SamePath`), `standing` the operations journalled `ok` and not reversed, `recovery`
  the plans with an `adoption_recovery` row, `act` the statement the holder of the
  lock runs next. `spoiled`, which no action reads, are the sources of three
  accidents the code does not recover from (below, known limits), and `crossed` those
  an adoption of which, half way, met a second one, found its result's name taken, or
  could not remove its output from staging.
* In `Backup` a request, the key of `backup_queue`, is an item and a version;
  `remote` is what the path holds there. An edit puts any other version in place, an
  earlier one too; `reverted`, which no guard reads, says that one brought the request's
  bytes back between rclone's check and the second hash. In `Transfers`, `mount` is what is at the
  drive's mount point, `held` what the drive holds; `astray` and `moved`, which no
  action reads but to reset, say that rclone wrote elsewhere and that the mount point
  changed under it. `stays` is the item whose commit asked for a backup and that
  nobody has touched since.
* `stood`, `cut`, `behind`, `raced` and `unheard` are history variables: the properties
  read them and no guard does. `stood` is where each file has ever been. `cut` are journal
  rows whose reversal was killed, or raised, before its last statement; `behind`, those of
  which the index has not heard, because that was before its row moved or because the
  address was taken. Both lose a row when a later undo does for it what was left
  undone. `raced` says that a plan
  was committed between an undo's last check and its lock; `unheard`, that the second
  reversal of one operation was killed between its rename and its row.

## Runs

| Run | Asks | Bounds |
| --- | --- | --- |
| `file_move` | The move, call by call, any call of which may raise: `NoHalfFile` (no real name holds an unfinished copy), `ExactlyOnce` (the bytes are never nowhere, and twice only across filesystems after a kill or a failure), `TempsCleared` (what is left in flight, and when), `RecordIsTrue`, `LandedIsNotMissing`, `Implements` | three names, two contents, two kills, two acts of a person between runs, both kinds of filesystem, both answers to a collision, alone or in a coherent plan |
| `executor_filing` | An ordinary plan of two arrivals, one of which crosses filesystems: `JournalledOnce`, `NoFalseRecord`, `JournalAgrees`, `ClaimsSurvive`, and that the plan `Finishes` | two operations, two numbers per place, two kills, one act of a person or scan, a destination already known to the index or occupied |
| `executor_swap` | "Use this instead", a coherent plan where one file makes way for another at its own address: `NoFileLost` (each file stands somewhere, and twice only across filesystems after a kill or a failed removal), `IndexFollows`, `AllOrNothingUnkilled`, `FollowedUp`, `FinishesUntouched` | as above, both operations crossing filesystems, two outside acts |
| `undo` | Decisions and undos in any order: `JournalKnows`, `StandingHolds`, `IndexKnows`, `ListedWhileHeld`, `TrueReversal`, `NewerStandsOnce` | two files, two filed places and quarantine, two decisions, three presses of Undo, one kill, one act of a person, two outside acts in all (scans, decisions on what they discover, people); other commands may come between the check and the lock. `IndexKnows` leaves out the files of `behind`, `ListedWhileHeld` those of `cut` |
| `adoption` | The queue and adoptions together. `OneActive` (one active row whatever the two processes write), `RunningIsBacked` (a running row has a worker that holds its encoder), `VerifiedOnly` (what is ready and what is in the library is the finished, recorded output of an encode of that file), `NeitherVersionNever` (outside an adoption, and while none waits to be taken up again, the library holds the original, a result, or somebody's file at the result's name), `JournalIsDisk` (History and the disk agree on both operations of an adoption), `FailedStandsOnNothing` (of one that failed nothing stands, or a person is asked), and that `RunningSettles` | one source whose conversion keeps its name and one whose does not; two jobs and two encoders before there is an adoption, one of each beside it (`MaxBeside`); two adoptions; one upset: a death, an edit, a file taken or dropped. 480,835 states |
| `offsite` | The backup queue and the drive. `DoneWasSent` (at the step that says `done` the remote holds those bytes, unless an edit brought them back after rclone's check), `OneWaiting`, `OnlyOurDrive` (nothing is written to another drive, a clone or an empty mount point unless it changed after the last look), `CommittedIsSettled` (what a commit asked for and nobody disturbs ends sent, tried as often as it may be, or, after an accident only, left `copying`), `DriveIsCompared` | an original and the result that takes its path, two versions of each, two edits in all, two attempts, one upset, one send; the drive swapped without limit. 702,267 states |
| `optimization_cancel` | finding: Cancel does not stop the encode | one job, nobody dies |
| `file_move_twice` | finding: two copies after a kill | one kill |
| `executor_unlisted` | finding: set aside and not listed | one operation, one kill |
| `executor_torn` | finding: half of a coherent plan | one kill, one outside act |
| `undo_held` | finding: undone quarantine still held | no kill, nobody else |
| `undo_newer` | finding: an undo takes back a newer decision | no kill, nobody else |

Why these bounds are enough to be interesting: two operations are the fewest for which
order, resumption half way and coherence matter; a second number per place is a
collision; the second kill falls in the recovery from the first, which is where
`_finish_records` and `_already_moved` could write twice; two decisions and three
presses are the fewest in which one is built on another, is undone out of order, and an
undo that was killed is pressed again. Files in `Undo` are interchangeable, so `MCUndo`
declares a symmetry (no liveness is checked there). Two jobs for the queue are the
fewest for which one can outlive the other or wait behind it; `Within` keeps a crowded
queue and an adoption apart, because together they are too many states for a run: what
two jobs for one file do to each other's adoptions is left to the theorems, which have
no such bound, and to the larger instances below. Two adoptions are one that fails or is
restored and one more. Two items with two versions each are the fewest in which a
request is superseded and in which a path changes hands; two edits are the fewest that
bring earlier bytes back. One upset per run of `adoption` and `offsite` is one kill at
any statement. `adoption` and `offsite` run without the deadlock check, because a quiet
installation may stop. `undo` runs without the deadlock check because it is people who
commit and press: when the bounds are used up nothing need happen. `FileMove` has its
`Rest` step instead, so that a deadlock in it is a real one; in `Executor` a plan can
always be committed again.

Larger instances, too long for a run, were explored once with the same invariants and no
error: `Undo` by random behaviours of five and six decisions, twelve presses and three
kills, with two places in quarantine or three files (ten minutes each); `Adoption` with
one source, two jobs, two encoders, two upsets and two adoptions of it beside each other
(`MaxBeside = 2`), its conversion keeping the name (34,466,251) or not (46,361,465),
before its move and its refusal were taken apart into statements; since then, one source
with three upsets, and two jobs with two upsets.

### Fairness

`Executor!Fairness` is weak fairness of `Step`, a process that runs keeps
running, and of `Commit` while the plan says `executing`. The second is a person:
`commit_state.py` shows an interrupted plan and says *"Committing the plan again is
what finishes it"*. A crash and everything outside the program have no fairness.
The crash bound is what makes `Finishes` meaningful: a plan killed for ever never
ends.

`Optimization!OFairness`, kept by `Adoption!Fairness`: the worker is started again
when it died (the supervisor's loop) and reconciles; a worker that lives cycles, and
each cycle polls, on busy ones too (`worker.run_once` polls first); an encode of a
finite file ends. `Adoption` adds that whoever holds the lock works until it lets go.
No button has fairness. `WF(Poll)` beside `WF(Cycle)` says that a launch or a
decision does not take the place of the poll for ever, which is the order of the
calls in a cycle.

`Transfers!Fairness`: a backup run goes on, a transfer goes on, each cycle looks for
the drive, and `MIN_INTERVAL` passes. The drive, people, scans and kills have none;
`MaxUpsets` bounds the kills, which is what makes `CommittedIsSettled` and
`DriveIsCompared` meaningful.

### Findings

Each is a run whose single property quotes the repository and is violated.

1. **Two copies across filesystems** (`file_move_twice`). `_move_verified` replaces
   the destination and then removes the source. A kill between the two leaves both;
   the second run finds the source, takes the copy of the killed run for a collision,
   and files the source as `x (2)`: `renamed_collision`, with a copy at each of the two
   names. The drill `test_no_crash_loses_a_file_or_duplicates_one`
   says there may never be two.
2. **In quarantine and not listed** (`executor_unlisted`). `_finish_records` asks
   whether the journal and the index agree; the quarantine entry, written after
   both, is not asked about and never written. `_mark_proposal_committed` and the
   backup request are lost in the same way.
3. **Half a coherent plan** (`executor_torn`). A resumed coherent plan is checked
   for its pending operations only; if a pending source has changed it is refused
   with half of it moved, and every operation's result is overwritten.
4. **Back in the library and still held** (`undo_held`). The entry is looked up at
   the address the file came from; it went back to a numbered name.
5. **Cancel does not stop the encode** (`optimization_cancel`).
   `optimization_process.stop` finds the encoder in `_OWNED`, which belongs to the
   process that started it. The button runs in the web server, the encoder belongs to
   the worker, and they are separate processes (`supervisor.child_specs`): the row
   says cancelled, the directory is gone, and ffmpeg goes on to the end.
   `docs/storage-optimization.md` says: *"Cancel stops the encode: SIGTERM, a bounded
   wait, then SIGKILL, then the staging directory is cleared."* When it ends, the
   worker's poll takes the cancelled row through `verifying` to `failed`.
6. **Undo of a newer decision** (`undo_newer`). An undone plan passes the gate. If a
   later plan has made the same move, undoing the first again reverses the later one.

### Known limits of the code the properties step around

* `Finishes` is checked for an ordinary filing and, for a plan that quarantines,
  only where no scan has called its item unstable (`FinishesUntouched`).
  Otherwise `assert_transition` raises out of `_finish_records`, before the loop
  that catches exceptions, on every commit, and the plan stays `executing`.
* A failed call does what no later run repairs, because `failed` is a result for good.
  If `blake2b_file(temp)` or `os.replace` raises (`executor.py:955`, `958`), or the
  unlinking of a bad copy does, the `.part` file stays beside the name; if
  `os.remove(src)` raises (`executor.py:959`) the file stands twice under a result that
  says it did not move. `TempsCleared`, `ExactlyOnce` and `NoFileLost` say that these
  are the only ways.
* `_incoherent_ops` looks at the sources of pending operations and does not ask
  `_already_moved`. A coherent plan killed between a rename and its result is refused
  when it is committed again: the file has moved, the row says `skipped_missing`, and
  the index and History do not follow. `LandedIsNotMissing` leaves coherent plans out,
  and `IndexFollows` and `JournalAgrees` speak of operations whose result says moved.
* That refusal is two statements for each operation. Killed among them, the plan is
  `executing` with some operations refused, and the next commit runs the others if
  their sources are in place by then; if all were refused, it finds nothing to do, says
  `done`, and `settle_quarantine_plan` marks the entry restored.
* A failed plan that is committed again counts nothing, becomes `done`, and
  `settle_quarantine_plan` then marks its entry restored though no file moved.
  Whether a person can reach that is a question about pages, so it is no property.
* `_already_put_back` is asked only of an operation that nothing has reversed. One that
  was reversed, committed again and undone again, and killed between the rename and the
  row of that second undo, is in neither place when Undo is pressed once more: History
  never hears of it. `unheard` keeps this out of `JournalKnows` and `StandingHolds`.
* `_catch_up_after_undo` looks for the file at its old address. After a reversal
  that renumbered and was killed before its index row, the index is never brought
  up. Nor is it when two files had exchanged addresses and the undos of both were killed
  there: each row stands at the address the other needs, and `_origin_free` refuses both.
  And `_update_item_after_undo` moves whichever row has the address, so that the row of a
  file the index has lost may be moved in place of another's. `IndexKnows` therefore leaves out
  the files in `behind`; what is proved is that no other is ever misplaced.
* `_catch_up_after_undo` brings up the index and not the quarantine entry: after a kill
  between the two, a file whose restore was undone is in quarantine and not listed.
  `ListedWhileHeld` leaves out the files in `cut`.
* A plan committed between `assert_clear` and the lock may put the file back where
  it came from; the waiting undo then finds it "already put back" and records a
  reversal nobody made. `raced` keeps these behaviours out of `StandingHolds` and
  `NewerStandsOnce`; every other property of `undo` is checked with them in.
* `_unsettle_quarantine_after_undo` holds every restored entry of the item again,
  whichever plan made it: a file may be listed twice.

Of adoptions (three of these accidents put a source into `spoiled` and three into
`crossed`, and the properties about files are claimed of the others):

* Killed at or after the second operation's rename, an adoption that is committed again
  is refused as a whole, because `target_is_clear` finds its own result at the target:
  the plan says `failed` and the files have moved. Killed during a compensation, it ends
  `done` with the original in quarantine and the result in staging. Both put the source
  into `spoiled`. A kill before that rename is recovered from, and the properties claim
  it.
* Killed after a compensation and before the plan's own UPDATE, or after a refusal by
  `target_is_clear` and before it, the plan is `executing` with results; the next commit
  counts nothing and says `done`, though nothing stands. Killed between the two rows of
  that refusal, it has one operation refused and one pending: if the name is free by
  then, the result is adopted beside the original that was to make way for it.
* If `os.remove` raises after the output has taken its name in the library, the second
  operation is `failed` and the first is taken back: the result stays in the library and
  no row knows it.
* An adoption killed after its first operation and committed again when the name its
  result goes to has been taken is refused as a whole by `target_is_clear`
  (`executor.py:245`): the plan says `failed`, the original stays in quarantine, and no
  `adoption_recovery` row asks anybody for it. The comment at `executor.py:292` says
  *"If the second half cannot happen, the first half must not stand."*
* `plan_conflicts` looks at plans that are `approved`, so a second adoption of a file may
  be approved while the first is `executing`, and be the one that takes the name. These
  three put the source into `crossed`, which `JournalIsDisk` and `FailedStandsOnNothing` leave
  out; `NeitherVersionNever` is claimed, and proved, for them too, but what it admits at
  the name is any file: where that is somebody else's, the original may be the one in
  quarantine and neither version in the library.
* `cancel_adoption` reads and then deletes; a commit that began in between moves the
  original and has no plan to journal it under (`spoiled`).
* An original that a person edits or removes from quarantine half way through an
  adoption stops the compensation; History then asks for a recovery (`spoiled`).
* An exception in `_verify` (a timeout of ffprobe) leaves the row `verifying`, which
  counts as active: the queue waits until the worker is restarted. An UPDATE refused
  after the encoder has started leaves an encoder nobody owns.
* More than five restarts of a child within a minute stop everything
  (`supervisor.py`); `OFairness` assumes it does not come to that.

Of backups and transfers:

* `done` is said of bytes once sent. When a path goes from A to B and back to A
  (two items, or an edit that restores what was), A's row is done while the remote
  holds B, and `INSERT OR IGNORE` asks for nothing, although the docstring of
  `enqueue_backup_item` says done bytes are still there. An undo that brings a file
  back asks for no backup either. And when the file is edited, sent, and edited back
  between `rclone check` and the second hash, both hashes find A and the row says `done`
  with B on the remote, although `_copy_and_verify` says of that hash that it closes the
  race. A row that used up its attempts while its file was
  elsewhere is never revived. An edit from outside is never asked for by a scan.
* A worker that dies in a copy, or an rclone that takes longer than its two minutes
  (nobody catches `TimeoutExpired`), leaves a row `copying` that no query reads again;
  `CommittedIsSettled` counts that as an end, after such an accident only.
* A kill, or an exception, after `_begin` leaves a send `running` for ever.
* The comparison is by path and length, so other content of the same length passes
  for the content that is there; and rclone copies the folder, not the list the
  comparison made, so a file that arrives in between goes too.

## Proofs

The proof modules prove, for every value of the constants that
satisfies the named assumptions:

| Theorem | Says |
| --- | --- |
| `FileMoveProofs!TypeCorrect`, `HalfNeverNamed`, `OnePlace` | `TypeOK`, `NoHalfFile`, `ExactlyOnce` are invariants |
| `NoOverwrite`, `TruthfulRecord` | `NeverOverwrites`, `RecordIsTrue`, if people act between runs |
| `MoveImplementsStore` | `FileMove` implements `FileStore`, if people act between runs |
| `NothingInFlight`, `LandedIsFound` | with nobody else at the files, however often it is killed: an operation that is over leaves no in-flight file unless it failed or was refused for another's sake (`TempsCleared`), and outside coherent plans no file the program has landed is called missing (`LandedIsNotMissing`) |
| `ExecutorProofs!TypeCorrect` | `TypeOK` is an invariant of any plan |
| `NeverJournalledTwice`, `NeverAFalseRecord`, `JournalComplete` | the journal has each move at most once, truly, and completely when the plan is over |
| `DecisionsAreLeft` | the index never loses a claimed row |
| `ExecutorRunProofs!NoFileIsLost` | `NoFileLost`: with nobody else at the files, each file stands somewhere in every state; at two names only if it was crossing filesystems and was killed, failed, or is between copy and removal |
| `IndexCatchesUp` | `IndexFollows`: however often it is killed, a plan that is over leaves the file of each operation that says it moved in the index, or the reason why not |
| `NothingLeftUndone`, `AllOfItOrNone` | never killed, a plan makes every call that ends `_record_move` for every file it moved (`FollowedUp`), and a coherent one moves all its files or none unless a move itself failed (`AllOrNothingUnkilled`) |
| `UndoProofs!UndoTypes` | `TypeOK` is an invariant of any number of decisions, presses, kills and scans |
| `HistoryKnows` | `JournalKnows`: with no killed undo left to find, what History says last of a file is where it is |
| `DecisionsAreKept` | `StandingHolds`: every file is where the last decision about it that stands put it |
| `IndexHasEveryFile` | `IndexKnows`: the index has every file where it is, but for those of whose reversal it has not heard |
| `QuarantineIsListed` | `ListedWhileHeld`: a file in quarantine has a held entry, unless an undo of it ended before its last statement |
| `ReversalsAreTrue`, `NewerIsNotReversed` | `TrueReversal` and `NewerStandsOnce`, action properties |
| `OptimizationProofs!QueueInvariant`, `QueueTypes` | the queue by itself keeps its types and the invariant below |
| `ReadyIsVerified` | of the queue by itself, what a ready row offers is the finished, recorded output of an encode of that file |
| `AdoptionProofs!AdoptionTypes`, `AtMostOneActive`, `RunningHasItsWorker` | `TypeOK`, `OneActive`, `RunningIsBacked` are invariants of the queue with adoptions |
| `OnlyVerifiedOutputs` | `VerifiedOnly`: so it is with adoptions beside the queue, and of what an adoption has put in the library |
| `AdoptionRunProofs!AlwaysOneVersion` | `NeitherVersionNever` |
| `HistoryIsDisk`, `FailedIsTakenBack` | `JournalIsDisk` and `FailedStandsOnNothing` |
| `OffsiteProofs!OffsiteTypes`, `OneRequestWaits`, `OnlyTheDriveIsWritten` | `TypeOK`, `OneWaiting`, `OnlyOurDrive` are invariants |
| `DoneIsSaidOfBytesSent` | `DoneWasSent`, an action property: no step says `done` unless the remote holds the bytes, or an edit brought them back between rclone's check and the second hash |

*If people act between runs* is `Undisturbed`, the hypothesis that `PersonActs` is
not `"anytime"`. It is needed: `resolve_collision` and the rename are two calls,
and a file dropped between them is replaced.

The invariants are not inductive alone. `JournalledOnce` needs to know where the
process is: that an operation whose row is about to be written has none unless the
run is recovering, which is what `_journalled` asks about. `ExecutorProofs!IInv` is
that strengthening. `Recorded` says what each statement of `_record_move` may rely on
(`at` is a name where the file has stood; by the journal statement the result says
moved, and to `at`); `Ahead`, that no journal row precedes its result; `Agree`, that
row and result name one address; `Caught`, which operations may say they moved
without a row: the one at hand, those the finish pass has not reached, and, between
runs, only operations of a plan still `executing`; `Passes`, that the finish pass
belongs to such a plan. `JournalComplete` follows: when the plan is over nothing may
lack a row.

In `FileMoveProofs` the strengthening is `Own`, what the process knows of its own
temporary file whoever else acts (at `"replace"` it holds the approved bytes);
`Alone`, what it knows of the source and the destination while nobody else acts during
a run; `Somewhere`, that the approved bytes are never nowhere; and `OneCopy`, that
without a kill across filesystems they are at one place but for the moment between
`os.replace` and `os.remove`, and when `os.remove` has failed.

For the queue, `OneActive` alone is not inductive: `Poll` and `Record` write an active
or a live state to a row they do not read again. `OptimizationProofs!OInv` adds
`HandleIsActive` (while the worker owns an encoder no row is active but that
encoder's, which is why a poll that brings a cancelled row back to life makes no
second one), `SettlesAll` (while it reconciles it owns nothing and has every active row
on its list), `WorkerKnows` (where the cycle and the button are, they have a job) and
`RunningIsBacked` itself. `AdoptionProofs` reuses it: a step of an adoption leaves the
queue's variables alone, or is a step of the queue, but for those that move the
output, the index row or the worker, which are proved one by one (`OKept`).

`OffsiteProofs` adds to `OneWaiting` that what a run has read and not come to may still
be tried and that its attempts are below the limit (`RunKnows`), and that nothing else
of the item waits while its request is copied (`CopiesAlone`), without which a copy
that fails would make a second waiting request. `DoneWasSent` rests on `SentOrGone`:
once rclone has agreed, the remote holds the request's bytes, or the path no longer
does, or an edit has brought them back (`reverted`). Nothing else brings a file to the
path: a commit or an undo waits for the lock. `DriveKnows` is what
`OnlyOurDrive` needs: at `"copy"` the mount point holds the drive or has changed.

`Tidy`, under `TempsCleared`, says why a killed copy is always found again: an in-flight
file is beside the first free name only, the one the next run resolves to, and only if
that run comes to clear it; what ends with one is an operation that failed, or that was
refused with its plan.

`ExecutorRunProofs` adds four. `Follows` and `Uncut`: in a plan that was never killed
only the operation at hand may lack one of the calls that end `_record_move`, and there
is nothing to resume or finish. `Wholly`: a coherent plan's first run has moved what is
before `cur`, and what is after it waits untouched, because preflight has found every
source in place and every destination free. `XInv`, for the index: `Trailing` says which
operations may say they moved without their row having followed (those the finish pass
has not reached, and the one at hand), `InOrder` that results are written in the order
of the operations, and `Vacated` that a file does not come to stand at the address a
later one of the plan has left, where that one's row may still be. And for `NoFileLost`,
which is not inductive either, `Paired` (while a copy waits for its source to go, it and
the source are the only two) and `FailedStays` (unkilled, no refusal is written over a
failure).

In `UndoProofs`, `UndoAt` says what each statement of an undo may rely on: before the
lock, unless somebody came between, that the plan is clear; at the journal statement,
that the file is where it landed. `Told` gives `JournalKnows`: History is right about a
file but for a reversal between its rename and its row, or killed there and not yet found
again (`MistakenAbout`). `StandingHolds` is about whole sequences of decisions and needs
the shape they have: the decisions *left* about a file (those that stand, without the one
in flight and those a killed undo has taken back) are a pile, each having taken the file
from the place where the ones under it leave it (`Seat`), and the file is where the top
one has (`Piled`). A commit adds to the top; `assert_clear` is what lets Undo take from
the top only; a row reversed twice is where the argument ends, and the property too
(`Sound`).

`IndexKnows` turns on one fact: nothing moves the row at an address where another file
may be. Between the rename and the index the address the file has left is empty and the
file is where it landed (`Carried`), and every file of which the index has heard, but the
one in hand, stands at its row (`AtItsRow`); so no such row is at the empty address, and
the statement that moves whatever row is there moves the row in hand or one the index had
lost before. With `OneName` that is the property. `Listed` builds on it: a row moves into
quarantine by a commit, which makes an entry, or by an undo, whose last statement must
find one to hold again. It does, because the decision it reverses took the file out of
quarantine and so answered an entry, and no step removes one (`Entered`), and because by
then the row is where the file landed, or the row of the journal is in `behind`
(`IndexedNow`) and stays in `cut` (`BehindIsCut`).

`VInv` and `Verified`, for `VerifiedOnly`: an output is recorded once and by its own
encoder (`RecordedOnce`), a directory holds only what its job's encoders wrote
(`OwnDirectory`), and what `Record` writes is what `Verify` hashed, since nothing was
launched in between (`HashedIsVerified`). In `AdoptionRunProofs`, `Local` relates a plan's
status, its two results, the journal and the statement at hand of one adoption. Over it
stand three invariants. `Answered`: for every original outside the library with nothing
at its name some adoption is its `Holder`, holding it in quarantine with its bytes, and at
work or waiting to be taken up again; `Restorable` keeps a restore or a compensation from
removing the result before the original can come back. `Failing`: what a compensation
has still to take back before it calls the plan failed. `JInv`: at most one adoption at
a time may move a file or has moved it (`Claims`), an original outside the library is
journalled or has its `Holder`, and a result at the name is of an adoption that has put it
there and has journalled it or is about to (`Put`).

Proving found what TLC's bounds had hidden. `JournalKnows` and `StandingHolds` were
false of a third press after a second kill, which `unheard` now names and `undo` with
three presses reaches; `IndexKnows` and `ListedWhileHeld` were false of long sequences
(two killed undos of files that had exchanged addresses; an index brought up without its
entry), for which `behind` was separated from `cut`; `JournalIsDisk` and
`FailedStandsOnNothing` were false of two adoptions of one file, which `crossed` names.

Each invariant and strengthening was model-checked before it was proved. Every safety
property of a run that expects a pass, invariant or action property, has its theorem. What
stays with TLC is liveness (`Finishes`, `FinishesUntouched`, `RunningSettles`,
`CommittedIsSettled`, `DriveIsCompared`), which the prover cannot reach.

## Not modelled

* Preflights that can only refuse a plan before it moves anything: merge collisions,
  duplicate evidence, relationships, comparisons, roots.
* Quarantine's direct restore, requests, group restores and the delete pile; moving a
  preserved original to the delete pile; History's Undo of an adoption (it runs the
  reversal of `Restore` without its preflight).
* The middle of a move in `Undo` and of operation 1 and the reversals in `Adoption`: one
  step each, as a rename is. A copy whose source cannot be removed is in `FileMove`, in
  `Executor` and in operation 2 of an adoption.
* Scanner internals (stability window, hashing batches, recognising moved files): a
  scan is what the other components see of it.
* Planner: one plan at a time is approved; two approvals racing are a hazard without
  a property.
* Several drives, destinations and policies, their registration, pruning, the record
  of what is only at a destination; the schedule of the backup queue.
* The advisor, ffmpeg's command line, and the clock, load and disk gates of `decide`.
* Classification, naming, models and services outside, audits, search, pages: data, or
  presentation of what the modelled components write. They are most of the code's
  lines, and say what is proposed rather than what is done.

## Plan

Done: `FileStore`, `FileMove`, `Executor`, `Undo`, `Optimization`, `Adoption`,
`Backup`, `Transfers`, and the proofs of every safety property of the passing runs.

What would come next, each with a run in place of one of the narrower ones:

1. **`Scanner`**: items through discovered, unstable, classified, missing; the
   stability window; `recognize`. No half file is ever ready; a vanished file's
   decision survives; every file left alone becomes ready.
2. **Quarantine requests**, group restores and the direct restore, and approvals
   racing at the planner.
3. **Proofs**: that `Undo`'s commit in one step is what `Executor` does when nothing
   kills it, as a refinement; and of the modules above.
