------------------------------- MODULE FileMove -------------------------------
(***************************************************************************)
(* One plan operation moving one file: executor._execute_op and            *)
(* _move_verified, one filesystem call per step, with a crash possible     *)
(* between any two of them and the operation committed again afterwards    *)
(* (_already_moved).  The records written once the bytes have arrived are  *)
(* Executor's; here they are the single step Record.                       *)
(*                                                                         *)
(* A name is a number.  0 is the source; n >= 1 is the n-th name           *)
(* resolve_collision would try: 1 the approved destination, 2 its " (2)"   *)
(* and so on.  temp[n] is the .part-<plan> file written beside name n.     *)
(*                                                                         *)
(* Any call may raise: the operation is then 'failed', for good, and the   *)
(* files stay as the call found them.                                      *)
(*                                                                         *)
(* Left out: symlinks, normalising file modes, and the duplicate-evidence  *)
(* check (a fact about another file).                                      *)
(***************************************************************************)
EXTENDS Naturals

CONSTANTS
    MaxNum,         \* bound: names at the destination
    Contents,       \* whole contents a file can have
    Approved,       \* the contents whose fingerprint the plan recorded
    Nothing,        \* a free name
    Half,           \* a file that is not yet, or not rightly, all there
    PersonActs,     \* when a person may change files
    MaxHands,       \* bound: acts of a person
    MaxCrashes      \* bound: crashes

ASSUME SizesAssumption ==
    /\ MaxNum \in Nat \ {0}
    /\ MaxHands \in Nat
    /\ MaxCrashes \in Nat

ASSUME ContentsAssumption ==
    /\ Approved \in Contents
    /\ Nothing \notin Contents
    /\ Half \notin Contents
    /\ Half # Nothing

ASSUME PersonAssumption == PersonActs \in {"never", "betweenRuns", "anytime"}

Source == 0
Plain == 1
Names == 1 .. MaxNum
Places == {Source} \cup Names

VARIABLES
    disk,       \* contents at the source and at each destination name
    temp,       \* contents of each name's in-flight file
    crossDevice,\* source and destination are different filesystems
    renumbers,  \* FALSE for merges and adoptions, which refuse instead
    coherent,   \* the operation is part of a plan that is one decision
    pc,         \* where the process is, "idle" between runs
    resuming,   \* the plan still said 'executing' when this run began
    final,      \* the name resolve_collision answered, 0 before it is asked
    result,     \* plan_ops.result, "none" until written
    hands,      \* acts of a person so far
    crashes     \* crashes so far

settings == << crossDevice, renumbers, coherent >>
vars == << disk, temp, settings, pc, resuming, final, result, hands, crashes >>

Moved == {"done", "renamed_collision"}
Results == Moved \cup
    {"none", "skipped_missing", "skipped_changed", "refused_collision", "failed"}
Working == {"begin", "hash", "resolve", "clear", "rename", "copy", "copying",
            "verify", "replace", "remove", "record"}

Init ==
    /\ disk \in [Places -> Contents \cup {Nothing}]
    /\ disk[Source] = Approved
    /\ \A n \in Names : disk[n] # Approved
    /\ \E n \in Names : disk[n] = Nothing
    /\ temp = [n \in Names |-> Nothing]
    /\ crossDevice \in BOOLEAN
    /\ renumbers \in BOOLEAN
    /\ coherent \in BOOLEAN
    /\ pc = "idle"
    /\ resuming = FALSE
    /\ final = 0
    /\ result = "none"
    /\ hands = 0
    /\ crashes = 0

(***************************************************************************)
(* The run ends for this operation with result r: _finish_op and _journal. *)
(***************************************************************************)
Conclude(r) ==
    /\ result' = r
    /\ pc' = "done"

\* The plan becomes 'executing'.  A coherent one is looked over first
\* (_incoherent_ops): when the source of a pending operation is gone or changed,
\* this one's or another's, no operation runs.  Nobody asks here whether an
\* earlier run has moved the file.
Preflight ==
    /\ pc = "idle"
    /\ \/ /\ coherent => disk[Source] = Approved
          /\ pc' = "begin"
          /\ UNCHANGED result
       \/ coherent /\ disk[Source] = Nothing /\ Conclude("skipped_missing")
       \/ coherent /\ disk[Source] # Nothing /\ Conclude("skipped_changed")
    /\ UNCHANGED << settings, disk, temp, resuming, final, hands, crashes >>

\* Mutant: any file at the approved destination counts as the moved one.
BeginUnverified ==
    /\ pc = "begin"
    /\ \/ /\ disk[Source] # Nothing
          /\ pc' = "hash"
          /\ UNCHANGED << result, final >>
       \/ /\ disk[Source] = Nothing
          /\ final' = Plain
          /\ Conclude(IF resuming /\ disk[Plain] # Nothing THEN "done" ELSE "skipped_missing")
    /\ UNCHANGED << settings, disk, temp, resuming, hands, crashes >>

\* src.exists(), and when it does not, _already_moved: only a resumed run may
\* conclude from the bytes at the approved destination that it moved them.
Begin ==
    /\ pc = "begin"
    /\ \/ /\ disk[Source] # Nothing
          /\ pc' = "hash"
          /\ UNCHANGED << result, final >>
       \/ /\ disk[Source] = Nothing
          /\ resuming /\ disk[Plain] = Approved
          /\ final' = Plain
          /\ Conclude("done")
       \/ /\ disk[Source] = Nothing
          /\ ~(resuming /\ disk[Plain] = Approved)
          /\ Conclude("skipped_missing")
          /\ UNCHANGED final
    /\ UNCHANGED << settings, disk, temp, resuming, hands, crashes >>

\* blake2b_file(src) against the plan's fingerprint.  It raises when the source
\* has vanished since exists(), or cannot be read.
Hash ==
    /\ pc = "hash"
    /\ \/ /\ disk[Source] = Approved
          /\ pc' = "resolve"
          /\ UNCHANGED result
       \/ disk[Source] \notin {Approved, Nothing} /\ Conclude("skipped_changed")
       \/ Conclude("failed")
    /\ UNCHANGED << settings, disk, temp, resuming, final, hands, crashes >>

Free == {n \in Names : disk[n] = Nothing}

\* Mutant: the approved name, taken or not.
ResolvePlain ==
    /\ pc = "resolve"
    /\ final' = Plain
    /\ pc' = "clear"
    /\ UNCHANGED << settings, disk, temp, resuming, result, hands, crashes >>

\* Mutant: an in-flight file makes a name taken.
ResolveBesideTemps ==
    /\ pc = "resolve"
    /\ IF disk[Plain] # Nothing /\ ~renumbers
       THEN Conclude("refused_collision") /\ UNCHANGED final
       ELSE /\ final' \in Free
            /\ \A n \in Free : final' <= n \/ temp[n] # Nothing
            /\ pc' = "clear"
            /\ UNCHANGED result
    /\ UNCHANGED << settings, disk, temp, resuming, hands, crashes >>

\* resolve_collision: the first name nothing is at.
Resolve ==
    /\ pc = "resolve"
    /\ IF disk[Plain] # Nothing /\ ~renumbers
       THEN Conclude("refused_collision") /\ UNCHANGED final
       ELSE /\ final' \in Free
            /\ \A n \in Free : final' <= n
            /\ pc' = "clear"
            /\ UNCHANGED result
    /\ UNCHANGED << settings, disk, temp, resuming, hands, crashes >>

\* mkdir of the parent, and temp.unlink(missing_ok=True)
ClearTemp ==
    /\ pc = "clear"
    /\ \/ /\ temp' = [temp EXCEPT ![final] = Nothing]
          /\ pc' = "rename"
          /\ UNCHANGED result
       \/ Conclude("failed") /\ UNCHANGED temp
    /\ UNCHANGED << settings, disk, resuming, final, hands, crashes >>

\* os.rename: replaces whatever is at the destination, moves whatever is at
\* the source, and answers EXDEV before it looks at either.
RenameFile ==
    /\ pc = "rename"
    /\ \/ /\ crossDevice
          /\ pc' = "copy"
          /\ UNCHANGED << disk, result >>
       \/ /\ ~crossDevice /\ disk[Source] # Nothing
          /\ disk' = [disk EXCEPT ![Source] = Nothing, ![final] = disk[Source]]
          /\ pc' = "record"
          /\ UNCHANGED result
       \/ Conclude("failed") /\ UNCHANGED disk
    /\ UNCHANGED << settings, temp, resuming, final, hands, crashes >>

\* shutil.copy2 opens both files; what a crash leaves now is half a file.
OpenCopy ==
    /\ pc = "copy"
    /\ \/ /\ disk[Source] # Nothing
          /\ temp' = [temp EXCEPT ![final] = Half]
          /\ pc' = "copying"
          /\ UNCHANGED result
       \/ Conclude("failed") /\ UNCHANGED temp
    /\ UNCHANGED << settings, disk, resuming, final, hands, crashes >>

\* The copy ends: with what the source holds, or, on storage that lies, with
\* something else.
FinishCopy ==
    /\ pc = "copying"
    /\ \E c \in {disk[Source], Half} \ {Nothing} : temp' = [temp EXCEPT ![final] = c]
    /\ pc' = "verify"
    /\ UNCHANGED << settings, disk, resuming, final, result, hands, crashes >>

\* The operation fails, and its in-flight file is unlinked, or cannot be.
Discard ==
    /\ temp' \in {temp, [temp EXCEPT ![final] = Nothing]}
    /\ Conclude("failed")

\* copy2 raises OSError (no space, I/O error): the handler unlinks the copy.
CopyFails ==
    /\ pc = "copying"
    /\ Discard
    /\ UNCHANGED << settings, disk, resuming, final, hands, crashes >>

\* Mutant: the copy is trusted.
VerifySkipped ==
    /\ pc = "verify"
    /\ pc' = "replace"
    /\ UNCHANGED << settings, disk, temp, resuming, final, result, hands, crashes >>

\* blake2b_file(temp) against the plan's fingerprint: other bytes are unlinked;
\* when they cannot be read nobody unlinks them.
Verify ==
    /\ pc = "verify"
    /\ \/ /\ temp[final] = Approved
          /\ pc' = "replace"
          /\ UNCHANGED << temp, result >>
       \/ temp[final] # Approved /\ Discard
       \/ Conclude("failed") /\ UNCHANGED temp
    /\ UNCHANGED << settings, disk, resuming, final, hands, crashes >>

\* os.replace(temp, dest); when it raises the whole copy stays in flight.
Replace ==
    /\ pc = "replace"
    /\ \/ /\ disk' = [disk EXCEPT ![final] = temp[final]]
          /\ temp' = [temp EXCEPT ![final] = Nothing]
          /\ pc' = "remove"
          /\ UNCHANGED result
       \/ Conclude("failed") /\ UNCHANGED << disk, temp >>
    /\ UNCHANGED << settings, resuming, final, hands, crashes >>

\* Mutant: the source is left behind.
RemoveForgotten ==
    /\ pc = "remove"
    /\ pc' = "record"
    /\ UNCHANGED << settings, disk, temp, resuming, final, result, hands, crashes >>

\* os.remove(src): whatever is there goes.  It raises when nothing is there, or
\* when what is there may not be removed: the file then stands twice.
RemoveSource ==
    /\ pc = "remove"
    /\ \/ /\ disk[Source] # Nothing
          /\ disk' = [disk EXCEPT ![Source] = Nothing]
          /\ pc' = "record"
          /\ UNCHANGED result
       \/ Conclude("failed") /\ UNCHANGED disk
    /\ UNCHANGED << settings, temp, resuming, final, hands, crashes >>

\* Mutant: a result the table does not have.
RecordMisspelt ==
    /\ pc = "record"
    /\ Conclude(IF final = Plain THEN "done" ELSE "renamed")
    /\ UNCHANGED << settings, disk, temp, resuming, final, hands, crashes >>

\* _record_move begins: the result is written.
Record ==
    /\ pc = "record"
    /\ Conclude(IF final = Plain THEN "done" ELSE "renamed_collision")
    /\ UNCHANGED << settings, disk, temp, resuming, final, hands, crashes >>

(***************************************************************************)
(* Around the run.                                                         *)
(***************************************************************************)

\* Mutant: 'executing' is written only when the run ends.
CrashForgotten ==
    /\ pc \in Working
    /\ crashes < MaxCrashes
    /\ crashes' = crashes + 1
    /\ pc' = "idle"
    /\ final' = 0
    /\ UNCHANGED << settings, disk, temp, resuming, result, hands >>

\* The process is killed: the plan stays 'executing', memory is gone.
Crash ==
    /\ pc \in Working
    /\ crashes < MaxCrashes
    /\ Free # {}                                \* bound: never out of numbers
    /\ crashes' = crashes + 1
    /\ pc' = "idle"
    /\ resuming' = TRUE
    /\ final' = 0
    /\ UNCHANGED << settings, disk, temp, result, hands >>

\* A person edits, deletes, or drops a file.
ByHand ==
    /\ hands < MaxHands
    /\ \/ PersonActs = "anytime"
       \/ PersonActs = "betweenRuns" /\ pc = "idle"
    /\ hands' = hands + 1
    /\ \E p \in Places, c \in Contents \cup {Nothing} :
          /\ c # disk[p]
          /\ disk' = [disk EXCEPT ![p] = c]
    /\ \E n \in Names : disk'[n] = Nothing      \* bound: never out of numbers
    /\ UNCHANGED << settings, temp, pc, resuming, final, result, crashes >>

Rest ==
    /\ pc = "done"
    /\ UNCHANGED vars

Step ==
    \/ Preflight \/ Begin \/ Hash \/ Resolve \/ ClearTemp \/ RenameFile
    \/ OpenCopy \/ FinishCopy \/ CopyFails \/ Verify \/ Replace \/ RemoveSource
    \/ Record

Next == Step \/ Crash \/ ByHand \/ Rest

Spec == Init /\ [][Next]_vars

-------------------------------------------------------------------------------

(* Every variable stays in its type: the in-flight file, the chosen name and
   the operation's result are what executor.py can write. *)
TypeOK ==
    /\ disk \in [Places -> Contents \cup {Nothing, Half}]
    /\ crossDevice \in BOOLEAN /\ renumbers \in BOOLEAN /\ coherent \in BOOLEAN
    /\ temp \in [Names -> Contents \cup {Nothing, Half}]
    /\ pc \in Working \cup {"idle", "done"}
    /\ resuming \in BOOLEAN
    /\ final \in Places
    /\ result \in Results
    /\ hands \in Nat
    /\ crashes \in Nat

(* "A half-written file never wears the real one" (paths.py:10-15): however
   copies fail and crashes fall, no real name holds an unfinished copy. *)
NoHalfFile == \A p \in Places : disk[p] # Half

(* No step of the program changes what a destination name in use holds:
   docs/PRODUCT.md:59, "never overwrites an existing file". *)
NeverOverwrites ==
    [][hands' = hands => \A n \in Names : disk[n] # Nothing => disk'[n] = disk[n]]_vars

(* docs/PRODUCT.md:56, "never deletes user files": a step of the program that
   takes a file away from the source leaves those bytes at a destination. *)
SourceLeavesForACopy ==
    [][(hands' = hands /\ disk'[Source] # disk[Source])
         => \E n \in Names : disk'[n] = disk[Source]]_vars

(* A result that says the file moved is written only while the file stands, with
   the approved bytes, at the name the record gives. *)
RecordIsTrue ==
    [][(result' # result /\ result' \in Moved) => disk'[final'] = Approved]_vars

(* A file the program put at the approved name is never afterwards called
   missing: wherever the run was killed, the resumed one finds its own work
   (_already_moved).  Not so for a coherent plan, whose preflight does not ask. *)
LandedIsNotMissing ==
    [][(result' # result /\ result' = "skipped_missing" /\ hands = 0 /\ ~coherent)
         => disk[Plain] # Approved]_vars

Once == \E p \in Places : \A q \in Places : disk[q] = Approved <=> q = p

(* An operation that says it moved the file leaves it somewhere exactly once: the
   drill test_no_crash_loses_a_file_or_duplicates_one in
   tests/test_recovery_drills.py asks this of every crash. *)
NoSecondCopy == (pc = "done" /\ hands = 0 /\ result \in Moved) => Once

(* With nobody else at the files the approved bytes are never nowhere, whatever
   raises and whenever the run is killed; and when the operation is over they are
   at one place, unless it went from one filesystem to another and was killed on
   the way or failed. *)
ExactlyOnce ==
    /\ hands = 0 => \E p \in Places : disk[p] = Approved
    /\ (pc = "done" /\ hands = 0 /\ (crossDevice => crashes = 0 /\ result # "failed"))
         => Once

(* With nobody else at the files, what a killed run left in flight is found again
   and cleared, or used, by the next.  Only an operation that failed, or was refused
   for the sake of another of its plan, may end with a file in flight; it is then
   beside the one name the operation would have got, and the whole file stands at
   the source. *)
TempsCleared ==
    (pc = "done" /\ hands = 0) => \A n \in Names : temp[n] # Nothing =>
        /\ result \in {"failed", "skipped_changed"}
        /\ n \in Free /\ \A k \in Free : n <= k
        /\ disk[Source] = Approved

(* The detailed move implements the promise: what is on disk is the store. *)
Store == INSTANCE FileStore WITH held <- disk

Implements == Store!Spec

===============================================================================
