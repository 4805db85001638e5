---------------------------- MODULE FileMoveProofs ----------------------------
(***************************************************************************)
(* Proofs about FileMove for every number of names, contents, crashes and  *)
(* acts of a person.  The invariant has three parts: the type invariant;   *)
(* what the process knows about its own in-flight file, whoever else acts; *)
(* and what it knows about the source and the destination, which holds     *)
(* only while nobody else changes files during a run.                      *)
(***************************************************************************)
EXTENDS FileMove, TLAPS

\* The steps at which a destination name has been chosen.
HasName == {"clear", "rename", "copy", "copying", "verify", "replace", "remove", "record"}

\* What no person can disturb: the temporary name is the program's own.
Own ==
    /\ pc \in HasName => final \in Names
    /\ pc = "replace" => temp[final] = Approved
    /\ pc \in {"copy", "copying", "verify", "replace", "remove"} => crossDevice
    /\ pc # "done" => result = "none"

\* What holds while the files are left alone during a run.
Alone ==
    /\ pc = "hash" => disk[Source] # Nothing
    /\ pc \in (HasName \cup {"resolve"}) \ {"record"} => disk[Source] = Approved
    /\ pc \in HasName \ {"remove", "record"} => disk[final] = Nothing
    /\ pc \in {"remove", "record"} => disk[final] = Approved

Undisturbed == PersonActs # "anytime"

\* The file is at one place, but for the moment between os.replace and os.remove,
\* and when os.remove has failed.
OneCopy ==
    IF pc = "remove"
    THEN \A p \in Places : disk[p] = Approved <=> p \in {Source, final}
    ELSE Once \/ (crossDevice /\ result = "failed")

Unbroken == hands = 0 /\ (crossDevice => crashes = 0)

Somewhere == \E p \in Places : disk[p] = Approved

IInv ==
    /\ TypeOK
    /\ NoHalfFile
    /\ Own
    /\ Undisturbed \/ hands = 0 => Alone
    /\ hands = 0 => Somewhere
    /\ Unbroken => OneCopy

-------------------------------------------------------------------------------

LEMMA PlacesFacts ==
    /\ Names \subseteq Places
    /\ Source \in Places
    /\ Source \notin Names
    /\ Plain \in Names
    /\ Free \subseteq Names
BY SizesAssumption DEF Places, Names, Source, Plain, Free

LEMMA InitIInv == Init => IInv
<1> SUFFICES ASSUME Init PROVE IInv
    OBVIOUS
<1> USE ContentsAssumption, PlacesFacts
<1>1. TypeOK
    BY DEF Init, TypeOK, Results, Places, Source
<1>2. NoHalfFile
    BY DEF Init, NoHalfFile
<1>3. Own /\ Alone
    BY DEF Init, Own, Alone, HasName
<1>4. OneCopy
    <2>1. \A q \in Places : disk[q] = Approved <=> q = Source
        BY DEF Init, Places
    <2> QED
        BY <2>1 DEF Init, OneCopy, Once
<1>5. Somewhere
    BY DEF Init, Somewhere
<1> QED
    BY <1>1, <1>2, <1>3, <1>4, <1>5 DEF IInv

Basic == TypeOK /\ NoHalfFile /\ Own /\ (Undisturbed \/ hands = 0 => Alone)

LEMMA NextBasic == IInv /\ [Next]_vars => Basic'
<1> SUFFICES ASSUME IInv, [Next]_vars PROVE Basic'
    OBVIOUS
<1> USE DEF Basic
<1> USE ContentsAssumption, PlacesFacts
<1> USE DEF IInv, TypeOK, NoHalfFile, Own, Alone, HasName, Conclude, Discard, Results, Moved, Working, settings
<1>0. CASE Preflight
    BY <1>0 DEF Preflight
<1>1. CASE Begin
    BY <1>1 DEF Begin, Source
<1>2. CASE Hash
    BY <1>2 DEF Hash
<1>3. CASE Resolve
    BY <1>3 DEF Resolve, Free
<1>4. CASE ClearTemp
    BY <1>4 DEF ClearTemp
<1>5. CASE RenameFile
    BY <1>5 DEF RenameFile
<1>6. CASE OpenCopy
    BY <1>6 DEF OpenCopy
<1>7. CASE FinishCopy
    BY <1>7 DEF FinishCopy
<1>8. CASE CopyFails
    BY <1>8 DEF CopyFails
<1>9. CASE Verify
    BY <1>9 DEF Verify
<1>10. CASE Replace
    BY <1>10 DEF Replace
<1>11. CASE RemoveSource
    BY <1>11 DEF RemoveSource
<1>12. CASE Record
    BY <1>12 DEF Record
<1>13. CASE Crash
    BY <1>13 DEF Crash, Source
<1>14. CASE ByHand
    BY <1>14 DEF ByHand, Undisturbed
<1>15. CASE UNCHANGED vars
    BY <1>15 DEF vars, settings
<1> QED
    BY <1>0, <1>1, <1>2, <1>3, <1>4, <1>5, <1>6, <1>7, <1>8, <1>9, <1>10, <1>11,
       <1>12, <1>13, <1>14, <1>15 DEF Next, Step, Rest

LEMMA NextSomewhere == IInv /\ [Next]_vars => (hands = 0 => Somewhere)'
<1> SUFFICES ASSUME IInv, [Next]_vars, hands' = 0 PROVE Somewhere'
    OBVIOUS
<1> USE ContentsAssumption, PlacesFacts
<1>1. hands = 0
    BY DEF IInv, TypeOK, Next, Step, Rest, vars, settings, Preflight, Begin, Hash, Resolve,
       ClearTemp, RenameFile, OpenCopy, FinishCopy, CopyFails, Verify, Replace, RemoveSource,
       Record, Crash, ByHand
<1>2. TypeOK /\ Own /\ Alone
    BY <1>1 DEF IInv
<1>3. PICK p \in Places : disk[p] = Approved
    BY <1>1 DEF IInv, Somewhere
<1>4. CASE UNCHANGED disk
    BY <1>3, <1>4 DEF Somewhere
<1>5. CASE RenameFile
    <2>1. final \in Names /\ disk[Source] = Approved
        BY <1>2, <1>5 DEF RenameFile, Own, Alone, HasName
    <2>2. UNCHANGED disk \/ disk' = [disk EXCEPT ![Source] = Nothing, ![final] = disk[Source]]
        BY <1>5 DEF RenameFile
    <2>3. UNCHANGED disk \/ disk'[final] = Approved
        BY <1>2, <2>1, <2>2 DEF TypeOK
    <2> QED
        BY <1>4, <2>1, <2>3 DEF Somewhere
<1>6. CASE Replace
    <2>1. UNCHANGED disk \/ disk' = [disk EXCEPT ![final] = temp[final]]
        BY <1>6 DEF Replace
    <2>2. final \in Names /\ disk[Source] = Approved
        BY <1>2, <1>6 DEF Replace, Own, Alone, HasName
    <2>3. disk'[Source] = Approved
        BY <1>2, <2>1, <2>2 DEF TypeOK
    <2> QED
        BY <2>3 DEF Somewhere
<1>7. CASE RemoveSource
    <2>1. UNCHANGED disk \/ disk' = [disk EXCEPT ![Source] = Nothing]
        BY <1>7 DEF RemoveSource
    <2>2. final \in Names /\ disk[final] = Approved
        BY <1>2, <1>7 DEF RemoveSource, Own, Alone, HasName
    <2>3. disk'[final] = Approved
        BY <1>2, <2>1, <2>2 DEF TypeOK
    <2> QED
        BY <2>2, <2>3 DEF Somewhere
<1>8. CASE ByHand
    BY <1>1, <1>8 DEF ByHand, IInv, TypeOK
<1> QED
    BY <1>4, <1>5, <1>6, <1>7, <1>8 DEF Next, Step, Rest, vars, Preflight, Begin, Hash,
       Resolve, ClearTemp, OpenCopy, FinishCopy, CopyFails, Verify, Record, Crash

LEMMA NextOneCopy == IInv /\ [Next]_vars => (Unbroken => OneCopy)'
<1> SUFFICES ASSUME IInv, [Next]_vars, Unbroken' PROVE OneCopy'
    OBVIOUS
<1> USE ContentsAssumption, PlacesFacts
<1>1. Unbroken
    BY DEF IInv, TypeOK, Unbroken, Next, Step, Rest, vars, settings, Preflight, Begin, Hash,
       Resolve, ClearTemp, RenameFile, OpenCopy, FinishCopy, CopyFails, Verify, Replace,
       RemoveSource, Record, Crash, ByHand
<1>2. TypeOK /\ NoHalfFile /\ Own /\ Alone /\ OneCopy
    BY <1>1 DEF IInv, Unbroken
<1>8. CASE UNCHANGED << disk, pc, final, result, settings >>
    BY <1>2, <1>8 DEF OneCopy, Once, settings
<1>9. CASE UNCHANGED << disk, settings >> /\ pc \notin {"remove", "done"} /\ pc' # "remove"
    BY <1>2, <1>9 DEF OneCopy, Once, Own
<1>3. CASE RenameFile
    <2>1. CASE UNCHANGED disk
        BY <1>3, <1>9, <2>1 DEF RenameFile, Conclude
    <2>2. CASE disk' = [disk EXCEPT ![Source] = Nothing, ![final] = disk[Source]]
               /\ pc' = "record" /\ UNCHANGED final
        <3>1. final \in Names /\ disk[Source] = Approved
            BY <1>2, <1>3 DEF RenameFile, Own, Alone, HasName
        <3>2. \A q \in Places : disk[q] = Approved <=> q = Source
            BY <1>2, <1>3, <3>1 DEF RenameFile, OneCopy, Once, Own
        <3>3. \A q \in Places : disk'[q] = Approved <=> q = final
            BY <1>2, <2>2, <3>1, <3>2 DEF TypeOK
        <3> QED
            BY <2>2, <3>1, <3>3 DEF OneCopy, Once
    <2> QED
        BY <1>3, <2>1, <2>2 DEF RenameFile
<1>4. CASE Replace
    <2>0. CASE UNCHANGED << disk, settings >> /\ pc' = "done"
        BY <1>4, <1>9, <2>0 DEF Replace
    <2>1. final \in Names /\ disk[Source] = Approved /\ temp[final] = Approved
        BY <1>2, <1>4 DEF Replace, Own, Alone, HasName
    <2>2. \A q \in Places : disk[q] = Approved <=> q = Source
        BY <1>2, <1>4, <2>1 DEF Replace, OneCopy, Once, Own
    <2>3. CASE disk' = [disk EXCEPT ![final] = temp[final]] /\ pc' = "remove"
        BY <1>2, <1>4, <2>1, <2>2, <2>3 DEF Replace, OneCopy, TypeOK
    <2> QED
        BY <1>4, <2>0, <2>3 DEF Replace, Conclude
<1>5. CASE RemoveSource
    <2>0. CASE UNCHANGED disk /\ result' = "failed" /\ pc' = "done"
        BY <1>2, <1>5, <2>0 DEF RemoveSource, Own, OneCopy, settings
    <2>1. final \in Names /\ disk[Source] = Approved
        BY <1>2, <1>5 DEF RemoveSource, Own, Alone, HasName
    <2>2. \A q \in Places : disk[q] = Approved <=> q \in {Source, final}
        BY <1>2, <1>5 DEF RemoveSource, OneCopy
    <2>3. CASE disk' = [disk EXCEPT ![Source] = Nothing] /\ pc' = "record"
        <3>1. \A q \in Places : disk'[q] = Approved <=> q = final
            BY <1>2, <1>5, <2>1, <2>2, <2>3 DEF TypeOK
        <3> QED
            BY <2>1, <2>3, <3>1 DEF OneCopy, Once
    <2> QED
        BY <1>5, <2>0, <2>3 DEF RemoveSource, Conclude
<1>6. CASE Crash
    <2>1. ~crossDevice
        BY <1>6 DEF Crash, IInv, TypeOK, Unbroken, settings
    <2>2. pc # "remove" /\ pc # "done"
        BY <1>2, <1>6, <2>1 DEF Own, Crash, Working
    <2> QED
        BY <1>6, <1>9, <2>2 DEF Crash
<1>7. CASE ByHand
    BY <1>7 DEF ByHand, IInv, TypeOK, Unbroken
<1> QED
    BY <1>3, <1>4, <1>5, <1>6, <1>7, <1>8, <1>9 DEF Next, Step, Rest, vars, Preflight, Begin,
       Hash, Resolve, ClearTemp, OpenCopy, FinishCopy, CopyFails, Verify, Record, Conclude, Discard

LEMMA NextIInv == IInv /\ [Next]_vars => IInv'
BY NextBasic, NextSomewhere, NextOneCopy DEF IInv, Basic

LEMMA SpecIInv == Spec => []IInv
BY InitIInv, NextIInv, PTL DEF Spec

(* The types hold however many names, crashes and acts of a person there are. *)
THEOREM TypeCorrect == Spec => []TypeOK
BY SpecIInv, PTL DEF IInv

(* No real name ever holds an unfinished copy, even while a person changes files
   in the middle of the move. *)
THEOREM HalfNeverNamed == Spec => []NoHalfFile
BY SpecIInv, PTL DEF IInv

(* While nobody else touches the files the bytes are never nowhere; and a finished
   operation leaves them at one place, unless it went between two filesystems and
   was killed or failed there. *)
THEOREM OnePlace == Spec => []ExactlyOnce
<1>1. IInv => ExactlyOnce
    BY DEF IInv, Unbroken, OneCopy, Somewhere, ExactlyOnce
<1> QED
    BY <1>1, SpecIInv, PTL

-------------------------------------------------------------------------------

(* While files are left alone during a run, the move never writes over a name in
   use, on one filesystem or across two. *)
THEOREM NoOverwrite == ASSUME Undisturbed PROVE Spec => NeverOverwrites
<1>1. IInv /\ [Next]_vars =>
        [hands' = hands => \A n \in Names : disk[n] # Nothing => disk'[n] = disk[n]]_vars
    <2> SUFFICES ASSUME IInv, Next, hands' = hands, NEW n \in Names, disk[n] # Nothing
                 PROVE  disk'[n] = disk[n]
        BY DEF vars, settings
    <2> USE PlacesFacts, Undisturbed
    <2> USE DEF IInv, TypeOK, Own, Alone, HasName
    <2>1. CASE RenameFile
        BY <2>1 DEF RenameFile
    <2>2. CASE Replace
        BY <2>2 DEF Replace
    <2>3. CASE RemoveSource
        BY <2>3 DEF RemoveSource
    <2>4. CASE ByHand
        BY <2>4 DEF ByHand
    <2>5. CASE UNCHANGED disk
        BY <2>5
    <2> QED
        BY <2>1, <2>2, <2>3, <2>4, <2>5 DEF Next, Step, Rest, vars, settings, Preflight, Begin,
           Hash, Resolve, ClearTemp, OpenCopy, FinishCopy, CopyFails, Verify, Record, Crash
<1> QED
    BY <1>1, SpecIInv, PTL DEF Spec, NeverOverwrites

(* While files are left alone during a run, a result that says the file moved is
   written only while the approved bytes stand where the record says. *)
THEOREM TruthfulRecord == ASSUME Undisturbed PROVE Spec => RecordIsTrue
<1>1. IInv /\ [Next]_vars =>
        [(result' # result /\ result' \in Moved) => disk'[final'] = Approved]_vars
    <2> SUFFICES ASSUME IInv, Next, result' # result, result' \in Moved
                 PROVE  disk'[final'] = Approved
        BY DEF vars, settings
    <2> USE PlacesFacts, Undisturbed
    <2> USE DEF IInv, TypeOK, Own, Alone, HasName, Conclude, Moved
    <2>1. CASE Begin
        BY <2>1 DEF Begin
    <2>2. CASE Record
        BY <2>2 DEF Record
    <2> QED
        BY <2>1, <2>2 DEF Next, Step, Rest, vars, settings, Preflight, Hash, Resolve, ClearTemp,
           RenameFile, OpenCopy, FinishCopy, CopyFails, Discard, Verify, Replace, RemoveSource,
           Crash, ByHand
<1> QED
    BY <1>1, SpecIInv, PTL DEF Spec, RecordIsTrue

(* While files are left alone during a run, the statement-by-statement move
   implements the store that never overwrites and never loses the last copy. *)
THEOREM MoveImplementsStore == ASSUME Undisturbed PROVE Spec => Implements
<1>1. Init => Store!Init
    BY DEF Init, Store!Init
<1>2. IInv /\ [Next]_vars => [Store!Next]_(Store!store)
    <2> SUFFICES ASSUME IInv, Next PROVE Store!Next \/ UNCHANGED << disk, hands >>
        BY DEF vars, settings, Store!store
    <2> USE PlacesFacts, Undisturbed
    <2> USE DEF IInv, TypeOK, Own, Alone, HasName
    <2>1. CASE RenameFile
        <3>1. CASE UNCHANGED disk
            BY <2>1, <3>1 DEF RenameFile
        <3>2. CASE ~UNCHANGED disk
            <4>1. Store!Rename(Source, final)
                BY <2>1, <3>2, ContentsAssumption DEF RenameFile, Store!Rename
            <4> QED
                BY <4>1, <2>1 DEF RenameFile, Store!Next
        <3> QED
            BY <3>1, <3>2
    <2>2. CASE Replace
        <3>1. UNCHANGED << disk, hands >> \/ Store!Land(Source, final)
            BY <2>2, ContentsAssumption DEF Replace, Store!Land
        <3> QED
            BY <3>1, <2>2 DEF Replace, Store!Next
    <2>3. CASE RemoveSource
        <3>1. UNCHANGED << disk, hands >> \/ Store!Leave(Source)
            BY <2>3, ContentsAssumption DEF RemoveSource, Store!Leave
        <3> QED
            BY <3>1 DEF Store!Next
    <2>4. CASE ByHand
        <3>1. Store!ByHand
            BY <2>4 DEF ByHand, Store!ByHand
        <3> QED
            BY <3>1 DEF Store!Next
    <2>5. CASE UNCHANGED << disk, hands >>
        BY <2>5
    <2> QED
        BY <2>1, <2>2, <2>3, <2>4, <2>5 DEF Next, Step, Rest, vars, settings, Preflight, Begin,
           Hash, Resolve, ClearTemp, OpenCopy, FinishCopy, CopyFails, Verify, Record, Crash
<1> QED
    BY <1>1, <1>2, SpecIInv, PTL DEF Spec, Implements, Store!Spec

-------------------------------------------------------------------------------
(* What a run that was killed leaves in flight, when nobody else acts.     *)

\* The name resolve_collision answers: it is the same until the file has come to it.
FirstFree(n) == n \in Free /\ \A k \in Free : n <= k

Clean == \A n \in Names : temp[n] = Nothing

\* Only the first free name can have an in-flight file, and only if the run goes on
\* to clear it: the copy of a killed run is found again under that name.
Tidy ==
    /\ disk[Source] \in {Approved, Nothing}
    /\ disk[Source] = Nothing => Clean
    /\ \A n \in Names : temp[n] # Nothing =>
          FirstFree(n) /\ (renumbers \/ disk[Plain] = Nothing)
    /\ pc \in HasName \ {"remove", "record"} =>
          FirstFree(final) /\ (renumbers \/ disk[Plain] = Nothing)
    /\ pc \in {"rename", "copy", "remove", "record"} => Clean
    /\ pc = "done" => Clean \/ result \in {"failed", "skipped_changed"}
    /\ pc \in {"idle", "begin"} /\ disk[Source] = Nothing => resuming

TInv == IInv /\ (hands = 0 => Tidy)

LEMMA OneFirst == \A m, n \in Names : FirstFree(m) /\ FirstFree(n) => m = n
<1> SUFFICES ASSUME NEW m \in Names, NEW n \in Names, FirstFree(m), FirstFree(n)
             PROVE  m = n
    OBVIOUS
<1>1. m \in Nat /\ n \in Nat /\ m <= n /\ n <= m
    BY SizesAssumption DEF FirstFree, Names
<1> QED
    BY <1>1

LEMMA NextTidy == TInv /\ [Next]_vars => (hands = 0 => Tidy)'
<1> SUFFICES ASSUME IInv, hands = 0 => Tidy, [Next]_vars, hands' = 0 PROVE Tidy'
    BY DEF TInv
<1>1. CASE ByHand
    BY <1>1 DEF ByHand, IInv, TypeOK
<1>0. hands = 0 \/ ByHand
    BY DEF Next, Step, Rest, vars, settings, Preflight, Begin, Hash, Resolve, ClearTemp,
       RenameFile, OpenCopy, FinishCopy, CopyFails, Verify, Replace, RemoveSource, Record, Crash
<1> SUFFICES ASSUME hands = 0 PROVE Tidy'
    BY <1>0, <1>1
<1>t. /\ Tidy /\ TypeOK /\ Own /\ Alone
    BY DEF IInv
<1>n. /\ pc \in HasName => final \in Names
      /\ pc \in HasName \ {"remove", "record"} => disk[Source] = Approved
    BY <1>t DEF Own, Alone
<1> USE ContentsAssumption, PlacesFacts
<1> USE <1>t, <1>n DEF Tidy, Clean, FirstFree, HasName, settings, Conclude, Discard
<1>1a. CASE Preflight
    BY <1>1a DEF Preflight, Free
<1>2. CASE Begin
    BY <1>2 DEF Begin, Free
<1>3. CASE Hash
    BY <1>3 DEF Hash, Free, Alone
<1>4. CASE Resolve
    <2>1. UNCHANGED << disk, temp, settings, resuming >> /\ pc = "resolve"
        BY <1>4 DEF Resolve
    <2>2. CASE disk[Plain] # Nothing /\ ~renumbers
        BY <1>4, <2>1, <2>2 DEF Resolve, Free
    <2>3. CASE ~(disk[Plain] # Nothing /\ ~renumbers)
        BY <1>4, <2>1, <2>3 DEF Resolve, Free
    <2> QED
        BY <2>2, <2>3
<1>5. CASE ClearTemp
    <2>1. pc = "clear" /\ UNCHANGED << disk, settings, resuming, final >>
        BY <1>5 DEF ClearTemp
    <2>2. CASE temp' = [temp EXCEPT ![final] = Nothing] /\ pc' = "rename"
        <3>1. \A n \in Names : temp'[n] = Nothing
            BY <2>1, <2>2, OneFirst DEF TypeOK
        <3> QED
            BY <2>1, <2>2, <3>1 DEF Free
    <2>3. CASE UNCHANGED temp /\ pc' = "done" /\ result' = "failed"
        BY <2>1, <2>3 DEF Free
    <2> QED
        BY <1>5, <2>2, <2>3 DEF ClearTemp
<1>6. CASE RenameFile
    <2>1. /\ UNCHANGED << temp, settings, resuming, final >> /\ pc = "rename"
          /\ \/ UNCHANGED disk /\ pc' \in {"copy", "done"}
             \/ disk' = [disk EXCEPT ![Source] = Nothing, ![final] = disk[Source]]
                /\ pc' = "record"
        BY <1>6 DEF RenameFile
    <2>2. CASE UNCHANGED disk
        BY <2>1, <2>2 DEF Free
    <2>3. CASE disk' = [disk EXCEPT ![Source] = Nothing, ![final] = disk[Source]]
               /\ pc' = "record"
        BY <2>1, <2>3 DEF TypeOK
    <2> QED
        BY <2>1, <2>2, <2>3
<1>7. CASE OpenCopy
    <2>1. pc = "copy" /\ UNCHANGED << disk, settings, resuming, final >>
        BY <1>7 DEF OpenCopy
    <2>2. renumbers \/ disk[Plain] = Nothing
        BY <1>7, <2>1
    <2>3. CASE temp' = [temp EXCEPT ![final] = Half] /\ pc' = "copying"
        BY <2>1, <2>2, <2>3 DEF Free, TypeOK
    <2>4. CASE UNCHANGED temp /\ pc' = "done" /\ result' = "failed"
        BY <2>1, <2>4 DEF Free
    <2> QED
        BY <1>7, <2>3, <2>4 DEF OpenCopy
<1>8. CASE FinishCopy
    BY <1>8 DEF FinishCopy, Free, TypeOK
<1>9. CASE CopyFails
    BY <1>9, OneFirst DEF CopyFails, Free, TypeOK
<1>10. CASE Verify
    BY <1>10, OneFirst DEF Verify, Free, TypeOK
<1>11. CASE Replace
    <2>1. pc = "replace" /\ UNCHANGED << settings, resuming, final >>
        BY <1>11 DEF Replace
    <2>2. CASE /\ temp' = [temp EXCEPT ![final] = Nothing] /\ pc' = "remove"
               /\ disk' = [disk EXCEPT ![final] = temp[final]]
        <3>1. \A n \in Names : temp'[n] = Nothing
            BY <2>1, <2>2, OneFirst DEF TypeOK
        <3>2. disk'[Source] = disk[Source]
            BY <2>1, <2>2 DEF TypeOK
        <3> QED
            BY <2>1, <2>2, <3>1, <3>2
    <2>3. CASE UNCHANGED << disk, temp >> /\ pc' = "done" /\ result' = "failed"
        BY <2>1, <2>3 DEF Free
    <2> QED
        BY <1>11, <2>2, <2>3 DEF Replace
<1>12. CASE RemoveSource
    BY <1>12 DEF RemoveSource, TypeOK
<1>13. CASE Record
    BY <1>13 DEF Record, Free
<1>14. CASE Crash
    BY <1>14 DEF Crash, Free, Working
<1>15. CASE UNCHANGED vars
    BY <1>15 DEF vars, Free
<1> QED
    BY <1>1, <1>1a, <1>2, <1>3, <1>4, <1>5, <1>6, <1>7, <1>8, <1>9, <1>10, <1>11,
       <1>12, <1>13, <1>14, <1>15 DEF Next, Step, Rest

LEMMA SpecTInv == Spec => []TInv
<1>1. Init => Tidy
    BY ContentsAssumption, PlacesFacts DEF Init, Tidy, Clean, HasName
<1>2. Init => TInv
    BY <1>1, InitIInv DEF TInv
<1>3. TInv /\ [Next]_vars => TInv'
    BY NextIInv, NextTidy DEF TInv
<1> QED
    BY <1>2, <1>3, PTL DEF Spec

(* However often a run is killed, and wherever: with nobody else at the files, only an
   operation that failed, or was refused for the sake of another, ends with a file in
   flight, and then beside the first free name and with the whole file at the source. *)
THEOREM NothingInFlight == Spec => []TempsCleared
<1>1. TInv => TempsCleared
    BY DEF TInv, Tidy, Clean, FirstFree, TempsCleared
<1> QED
    BY <1>1, SpecTInv, PTL

(* But for a coherent plan, whose preflight does not ask, the program never calls missing
   a file it has itself put at the approved name. *)
THEOREM LandedIsFound == Spec => LandedIsNotMissing
<1>1. TInv /\ [Next]_vars =>
        [(result' # result /\ result' = "skipped_missing" /\ hands = 0 /\ ~coherent)
           => disk[Plain] # Approved]_vars
    <2> SUFFICES ASSUME TInv, Next, result' # result, result' = "skipped_missing",
                        hands = 0, ~coherent
                 PROVE  disk[Plain] # Approved
        OBVIOUS
    <2>1. Begin
        BY DEF Next, Step, Rest, vars, settings, Preflight, Hash, Discard, Resolve, ClearTemp,
           RenameFile, OpenCopy, FinishCopy, CopyFails, Verify, Replace, RemoveSource, Record, Crash, ByHand, Conclude
    <2>2. resuming
        BY <2>1 DEF Begin, TInv, Tidy, Conclude
    <2> QED
        BY <2>1, <2>2 DEF Begin, Conclude
<1> QED
    BY <1>1, SpecTInv, PTL DEF Spec, LandedIsNotMissing
===============================================================================
