---------------------------- MODULE OffsiteProofs ----------------------------
(***************************************************************************)
(* Proofs about the backup queue and the transfers to an offline drive,    *)
(* for any number of items, versions, edits, attempts, sends, accidents.   *)
(*                                                                         *)
(* That "done" is said of bytes that went up rests on the two hashes, and  *)
(* on nobody but a commit or an undo, which wait for the run, bringing a   *)
(* file to the path.  So bytes that are no longer there when rclone        *)
(* compares are there for the second hash only if an edit in between has   *)
(* brought them back.                                                      *)
(***************************************************************************)
EXTENDS Transfers, TLAPS

\* The steps that change what Backup keeps
BSteps == Run \/ Decisions \/ WorkerDies \/ People

Busy == does \in {"copy", "check", "hash again"}

\* What a run has read and not come to may still be tried; what it is at is
\* nobody's but its own
RunKnows ==
    /\ does = "idle" => due = {}
    /\ \A r \in due : tries[r] < MaxAttempts /\ queue[r] \in {"queued", "failed", "none"}
    /\ Busy => /\ with \in Requests /\ with \notin due /\ tries[with] < MaxAttempts
               /\ queue[with] \in {"copying", "none"}

\* No other request of its item waits while it is copied
CopiesAlone ==
    Busy /\ queue[with] = "copying" =>
        \A s \in Requests : s[1] = with[1] => queue[s] \notin {"queued", "failed"}

\* What rclone agreed about was sent, or has gone, or was brought back since
SentOrGone ==
    does = "hash again" /\ agrees => remote = with \/ AtPath # with \/ reverted

BInv == BTypeOK /\ RunKnows /\ OneWaiting /\ CopiesAlone /\ SentOrGone

LEMMA Bounds ==
    MaxVersion \in Nat /\ MaxEdits \in Nat /\ MaxAttempts \in Nat /\ MaxUpsets \in Nat
BY BoundsAssumption

LEMMA OneMore == ASSUME NEW m \in Nat, NEW n \in 0 .. m, n < m PROVE n + 1 \in 0 .. m
OBVIOUS

LEMMA StillBelow ==
    ASSUME NEW m \in Nat, NEW n \in 0 .. m, n < m, NEW k, k = 0 \/ k = n
    PROVE  k < m
OBVIOUS

LEMMA FromZero == ASSUME NEW m \in Nat PROVE 0 \in 0 .. m
OBVIOUS

LEMMA SomeBytes == ASSUME NEW r \in Requests PROVE r # Nobody
BY DEF Requests, Nobody

States == {"none", "queued", "copying", "done", "failed"}

LEMMA PathTyped == BTypeOK => AtPath \in Requests \cup {Nobody}
BY DEF BTypeOK, AtPath, Requests

\* A failed attempt touches the row it is about and no other
LEMMA Failing ==
    ASSUME BTypeOK, NEW r \in Requests, tries[r] < MaxAttempts, Fail(r)
    PROVE  /\ queue' \in [Requests -> States]
           /\ tries' \in [Requests -> 0 .. MaxAttempts]
           /\ \A x \in Requests \ {r} : queue'[x] = queue[x] /\ tries'[x] = tries[x]
           /\ queue'[r] = IF queue[r] = "none" THEN "none" ELSE "failed"
<1>1. tries[r] + 1 \in 0 .. MaxAttempts
  <2>1. tries[r] \in 0 .. MaxAttempts
    BY DEF BTypeOK
  <2> QED
    BY <2>1, Bounds, OneMore, Zenon
<1> QED
  BY <1>1 DEF BTypeOK, Fail, Write, States

\* What asking does to a row
LEMMA Asking ==
    ASSUME NEW q \in [Requests -> States], NEW r \in Requests
    PROVE  /\ EnqueueBackupItem(q, r) \in [Requests -> States]
           /\ \A x \in Requests :
                 EnqueueBackupItem(q, r)[x] =
                    IF x[1] = r[1] /\ x # r /\ q[x] \in {"queued", "failed"} THEN "none"
                    ELSE IF x = r /\ q[x] = "none" THEN "queued"
                    ELSE q[x]
BY DEF EnqueueBackupItem, Pending, States

\* What discarding a request does to the rows: it goes, and then asks or not
LEMMA Discarding ==
    ASSUME BTypeOK, NEW r \in Requests, Discard(r)
    PROVE  /\ queue' \in [Requests -> States]
           /\ tries' \in [Requests -> 0 .. MaxAttempts]
           /\ \A x \in Requests : tries'[x] = 0 \/ tries'[x] = tries[x]
           /\ \/ queue' = [queue EXCEPT ![r] = "none"]
              \/ \E a \in Requests :
                    queue' = EnqueueBackupItem([queue EXCEPT ![r] = "none"], a)
<1> DEFINE gone == [queue EXCEPT ![r] = "none"]
<1>1. gone \in [Requests -> States]
  BY DEF BTypeOK, States
<1>2. queue' = gone \/ \E a \in Requests : queue' = EnqueueBackupItem(gone, a)
  <2>1. CASE owner # Nobody /\ AtPath = << owner, known[owner] >>
    <3>1. AtPath \in Requests
      BY <2>1 DEF BTypeOK, Requests
    <3> QED
      BY <2>1, <3>1 DEF Discard
  <2>2. CASE ~(owner # Nobody /\ AtPath = << owner, known[owner] >>)
    BY <2>2 DEF Discard
  <2> QED
    BY <2>1, <2>2
<1>3. queue' \in [Requests -> States]
  <2>1. ASSUME NEW a \in Requests, queue' = EnqueueBackupItem(gone, a)
        PROVE  queue' \in [Requests -> States]
    BY <1>1, <2>1, Asking
  <2> QED
    BY <1>1, <1>2, <2>1
<1>4. tries' = [x \in Requests |-> IF queue'[x] = "none" THEN 0 ELSE tries[x]]
  BY DEF Discard, Counted
<1>5. /\ tries' \in [Requests -> 0 .. MaxAttempts]
      /\ \A x \in Requests : tries'[x] = 0 \/ tries'[x] = tries[x]
  BY <1>4, FromZero, Bounds DEF BTypeOK
<1> QED
  BY <1>2, <1>3, <1>5

\* A discarded request leaves a row waiting only if it was, or asks anew
LEMMA DiscardingRows ==
    ASSUME BTypeOK, NEW r \in Requests, Discard(r), NEW x \in Requests
    PROVE  /\ queue'[x] \in {queue[x], "none", "queued"}
           /\ queue'[x] = "queued" => x = r \/ queue[x] \in {"queued", "none"}
<1> DEFINE gone == [queue EXCEPT ![r] = "none"]
<1>1. gone \in [Requests -> States] /\ gone[x] = IF x = r THEN "none" ELSE queue[x]
  BY DEF BTypeOK, States
<1>2. CASE queue' = gone
  BY <1>1, <1>2
<1>3. ASSUME NEW a \in Requests, queue' = EnqueueBackupItem(gone, a)
      PROVE  /\ queue'[x] \in {queue[x], "none", "queued"}
             /\ queue'[x] = "queued" => x = r \/ queue[x] \in {"queued", "none"}
  <2> HIDE DEF gone
  <2>1. queue'[x] = IF x[1] = a[1] /\ x # a /\ gone[x] \in {"queued", "failed"} THEN "none"
                    ELSE IF x = a /\ gone[x] = "none" THEN "queued" ELSE gone[x]
    BY <1>1, <1>3, Asking
  <2> QED
    BY <1>1, <2>1
<1> QED
  BY <1>2, <1>3, Discarding

LEMMA BTypeStep == BTypeOK /\ RunKnows /\ (BSteps \/ UNCHANGED bvars) => BTypeOK'
<1> SUFFICES ASSUME BTypeOK, RunKnows, BSteps \/ UNCHANGED bvars
             PROVE  BTypeOK'
  OBVIOUS
<1> USE Bounds DEF BTypeOK, RunKnows, Busy, States, bvars, library, run
<1>1. ASSUME NEW i \in Items, Commit(i)
      PROVE  BTypeOK'
  <2>1. known[i] \in Versions /\ bytes[i] \in Versions /\ << i, bytes[i] >> \in Requests
    BY DEF Requests
  <2>2. queue' \in [Requests -> States]
    BY <1>1, <2>1, Asking DEF Commit
  <2>3. tries' \in [Requests -> 0 .. MaxAttempts]
    BY <1>1 DEF Commit, Counted
  <2> QED
    BY <1>1, <2>2, <2>3 DEF Commit
<1>2. ASSUME Withdraw
      PROVE  BTypeOK'
  BY <1>2 DEF Withdraw
<1>3. ASSUME NEW i \in Items, Restore(i)
      PROVE  BTypeOK'
  BY <1>3 DEF Restore
<1>4. ASSUME RunBegins
      PROVE  BTypeOK'
  BY <1>4 DEF RunBegins, Pending
<1>5. ASSUME RunEnds
      PROVE  BTypeOK'
  BY <1>5 DEF RunEnds
<1>6. ASSUME NEW r \in Requests, HashBefore(r)
      PROVE  BTypeOK'
  <2>1. /\ does' \in {"next", "copy"} /\ with' \in {with, r} /\ due' \subseteq due
        /\ UNCHANGED << enabled, library, agrees, reverted, remote, upsets >>
    BY <1>6 DEF HashBefore
  <2>2. queue' \in [Requests -> States] /\ tries' \in [Requests -> 0 .. MaxAttempts]
    <3>1. r \in due /\ tries[r] < MaxAttempts
      BY <1>6 DEF HashBefore
    <3>2. CASE Fail(r)
      BY <3>1, <3>2, Failing
    <3>3. CASE Discard(r)
      BY <3>3, Discarding
    <3>4. CASE Write(r, "copying") /\ UNCHANGED tries
      BY <3>4 DEF Write
    <3> QED
      BY <1>6, <3>2, <3>3, <3>4 DEF HashBefore
  <2> QED
    BY <2>1, <2>2
<1>7. ASSUME Copy
      PROVE  BTypeOK'
  <2>1. /\ does' \in {"next", "check"} /\ with' \in {with, Nobody} /\ agrees' \in BOOLEAN
        /\ reverted' \in BOOLEAN /\ UNCHANGED << due, enabled, library, upsets >>
    BY <1>7 DEF Copy, Onward, GoOn
  <2>2. queue' \in [Requests -> States] /\ tries' \in [Requests -> 0 .. MaxAttempts]
    BY <1>7, Failing DEF Copy
  <2>3. remote' \in Requests \cup {Nobody}
    BY <1>7, PathTyped DEF Copy
  <2> QED
    BY <2>1, <2>2, <2>3
<1>8. ASSUME Check
      PROVE  BTypeOK'
  BY <1>8 DEF Check, GoOn, AtPath
<1>9. ASSUME HashAfter
      PROVE  BTypeOK'
  <2>1. /\ does' = "next" /\ with' = Nobody /\ agrees' = FALSE
        /\ reverted' = FALSE /\ UNCHANGED << due, enabled, library, remote, upsets >>
    BY <1>9 DEF HashAfter, Onward, GoOn
  <2>2. queue' \in [Requests -> States] /\ tries' \in [Requests -> 0 .. MaxAttempts]
    <3>1. with \in Requests /\ tries[with] < MaxAttempts
      BY <1>9 DEF HashAfter
    <3>2. CASE Fail(with)
      BY <3>1, <3>2, Failing
    <3>3. CASE Discard(with)
      BY <3>1, <3>3, Discarding
    <3>4. CASE Write(with, "done") /\ UNCHANGED tries
      BY <3>1, <3>4 DEF Write
    <3> QED
      BY <1>9, <3>2, <3>3, <3>4 DEF HashAfter
  <2> QED
    BY <2>1, <2>2
<1>10. ASSUME WorkerDies
      PROVE  BTypeOK'
  <2>1. upsets' \in 0 .. MaxUpsets
    <3>1. upsets \in 0 .. MaxUpsets /\ upsets < MaxUpsets /\ upsets' = upsets + 1
      BY <1>10 DEF WorkerDies
    <3> QED
      BY <3>1, Bounds, OneMore, Zenon
  <2> QED
    BY <1>10, <2>1 DEF WorkerDies
<1>11. ASSUME NEW i \in Items, Edit(i)
      PROVE  BTypeOK'
  <2>1. edits' \in 0 .. MaxEdits
    <3>1. edits \in 0 .. MaxEdits /\ edits < MaxEdits /\ edits' = edits + 1
      BY <1>11 DEF Edit
    <3> QED
      BY <3>1, Bounds, OneMore, Zenon
  <2>2. bytes' \in [Items -> Versions]
    BY <1>11 DEF Edit
  <2>3. stays' \in Items \cup {Nobody}
    BY <1>11 DEF Edit
  <2>4. reverted' \in BOOLEAN
    BY <1>11, Zenon DEF Edit
  <2>5. UNCHANGED << enabled, here, owner, known, lost, queue, tries, due, does, with, agrees,
                     remote, upsets >>
    BY <1>11 DEF Edit
  <2> QED
    BY <2>1, <2>2, <2>3, <2>4, <2>5
<1>12. ASSUME TakeAway
      PROVE  BTypeOK'
  <2>1. upsets' \in 0 .. MaxUpsets
    <3>1. upsets \in 0 .. MaxUpsets /\ upsets < MaxUpsets /\ upsets' = upsets + 1
      BY <1>12 DEF TakeAway
    <3> QED
      BY <3>1, Bounds, OneMore, Zenon
  <2>2. lost' \subseteq Items
    BY <1>12 DEF TakeAway
  <2> QED
    BY <1>12, <2>1, <2>2 DEF TakeAway
<1>13. ASSUME Scan
      PROVE  BTypeOK'
  BY <1>13 DEF Scan, AtPath
<1>14. CASE UNCHANGED bvars
  BY <1>14 DEF AtPath
<1> QED
  BY <1>1, <1>2, <1>3, <1>4, <1>5, <1>6, <1>7, <1>8, <1>9, <1>10, <1>11, <1>12,
     <1>13, <1>14
  DEF BSteps, Run, Decisions, People

LEMMA RunStep == BTypeOK /\ RunKnows /\ (BSteps \/ UNCHANGED bvars) => RunKnows'
<1> SUFFICES ASSUME BTypeOK, RunKnows, BSteps \/ UNCHANGED bvars
             PROVE  RunKnows'
  OBVIOUS
<1> USE Bounds DEF BTypeOK, RunKnows, Busy, Versions, bvars, library, run
<1>1. ASSUME NEW i \in Items, Commit(i)
      PROVE  RunKnows'
  BY <1>1 DEF Commit, EnqueueBackupItem, Counted
<1>2. ASSUME Withdraw
      PROVE  RunKnows'
  BY <1>2 DEF Withdraw
<1>3. ASSUME NEW i \in Items, Restore(i)
      PROVE  RunKnows'
  BY <1>3 DEF Restore
<1>4. ASSUME RunBegins
      PROVE  RunKnows'
  BY <1>4 DEF RunBegins, Pending
<1>5. ASSUME RunEnds
      PROVE  RunKnows'
  BY <1>5 DEF RunEnds
<1>6. ASSUME NEW r \in Requests, HashBefore(r)
      PROVE  RunKnows'
  <2>1. r \in due /\ due' = due \ {r} /\ tries[r] < MaxAttempts
    BY <1>6 DEF HashBefore
  <2>2. CASE does' = "next" /\ Fail(r)
    BY <2>1, <2>2, Failing
  <2>3. CASE does' = "next" /\ Discard(r)
    <3>1. ASSUME NEW x \in due' PROVE tries'[x] < MaxAttempts
      <4>1. x \in Requests /\ tries[x] \in 0 .. MaxAttempts /\ tries[x] < MaxAttempts
        BY <2>1
      <4>2. tries'[x] = 0 \/ tries'[x] = tries[x]
        BY <2>1, <2>3, <4>1, Discarding
      <4> QED
        BY <4>1, <4>2, Bounds, StillBelow, Zenon
    <3>2. ASSUME NEW x \in due' PROVE queue'[x] \in {"queued", "failed", "none"}
      BY <2>1, <2>3, DiscardingRows
    <3> QED
      BY <2>3, <3>1, <3>2
  <2>4. CASE does' = "copy" /\ with' = r /\ Write(r, "copying") /\ UNCHANGED tries
    BY <2>1, <2>4 DEF Write
  <2> QED
    BY <1>6, <2>2, <2>3, <2>4 DEF HashBefore
<1>7. ASSUME Copy
      PROVE  RunKnows'
  BY <1>7 DEF Copy, Fail, Write, Onward, GoOn, AtPath
<1>8. ASSUME Check
      PROVE  RunKnows'
  BY <1>8 DEF Check, GoOn, AtPath
<1>9. ASSUME HashAfter
      PROVE  RunKnows'
  <2>1. /\ with \in Requests /\ with \notin due /\ due' = due /\ does' = "next"
        /\ tries[with] < MaxAttempts
    BY <1>9 DEF HashAfter, Onward, GoOn
  <2>2. CASE Fail(with)
    BY <2>1, <2>2, Failing
  <2>3. CASE Discard(with)
    <3>1. ASSUME NEW x \in due' PROVE tries'[x] < MaxAttempts
      <4>1. x \in Requests /\ tries[x] \in 0 .. MaxAttempts /\ tries[x] < MaxAttempts
        BY <2>1
      <4>2. tries'[x] = 0 \/ tries'[x] = tries[x]
        BY <2>1, <2>3, <4>1, Discarding
      <4> QED
        BY <4>1, <4>2, Bounds, StillBelow, Zenon
    <3>2. ASSUME NEW x \in due' PROVE queue'[x] \in {"queued", "failed", "none"}
      BY <2>1, <2>3, DiscardingRows
    <3> QED
      BY <2>1, <3>1, <3>2
  <2>4. CASE Write(with, "done") /\ UNCHANGED tries
    BY <2>1, <2>4 DEF Write
  <2> QED
    BY <1>9, <2>2, <2>3, <2>4 DEF HashAfter
<1>10. ASSUME WorkerDies
      PROVE  RunKnows'
  BY <1>10 DEF WorkerDies
<1>11. ASSUME NEW i \in Items, Edit(i)
      PROVE  RunKnows'
  BY <1>11 DEF Edit, AtPath
<1>12. ASSUME TakeAway
      PROVE  RunKnows'
  BY <1>12 DEF TakeAway, AtPath
<1>13. ASSUME Scan
      PROVE  RunKnows'
  BY <1>13 DEF Scan, AtPath
<1>14. CASE UNCHANGED bvars
  BY <1>14 DEF AtPath
<1> QED
  BY <1>1, <1>2, <1>3, <1>4, <1>5, <1>6, <1>7, <1>8, <1>9, <1>10, <1>11, <1>12,
     <1>13, <1>14
  DEF BSteps, Run, Decisions, People

OneOf(q) ==
    \A r, s \in Requests :
        r[1] = s[1] /\ q[r] \in {"queued", "failed"} /\ q[s] \in {"queued", "failed"} => r = s

\* Asking removes what it would stand beside
LEMMA AskingKeepsOne ==
    ASSUME NEW q \in [Requests -> States], OneOf(q), NEW a \in Requests
    PROVE  OneOf(EnqueueBackupItem(q, a))
<1> DEFINE p == EnqueueBackupItem(q, a)
<1>1. \A x \in Requests :
         p[x] = IF x[1] = a[1] /\ x # a /\ q[x] \in {"queued", "failed"} THEN "none"
                ELSE IF x = a /\ q[x] = "none" THEN "queued" ELSE q[x]
  BY Asking
<1>2. SUFFICES ASSUME NEW r \in Requests, NEW s \in Requests, r[1] = s[1],
                      p[r] \in {"queued", "failed"}, p[s] \in {"queued", "failed"}
               PROVE  r = s
  BY DEF OneOf
<1> HIDE DEF p
<1>3. CASE r = a \/ s = a
  BY <1>1, <1>2, <1>3
<1>4. CASE r # a /\ s # a
  <2>1. q[r] = p[r] /\ q[s] = p[s]
    BY <1>1, <1>2, <1>4
  <2> QED
    BY <1>2, <2>1 DEF OneOf
<1> QED
  BY <1>3, <1>4

LEMMA DiscardingKeepsOne ==
    ASSUME BTypeOK, NEW r \in Requests, Discard(r), OneOf(queue)
    PROVE  OneOf(queue')
<1> DEFINE gone == [queue EXCEPT ![r] = "none"]
<1>1. gone \in [Requests -> States]
  BY DEF BTypeOK, States
<1>2. OneOf(gone)
  BY DEF OneOf, BTypeOK
<1>3. queue' = gone \/ \E a \in Requests : queue' = EnqueueBackupItem(gone, a)
  BY Discarding
<1> HIDE DEF gone
<1>4. ASSUME NEW a \in Requests, queue' = EnqueueBackupItem(gone, a)
      PROVE  OneOf(queue')
  BY <1>1, <1>2, <1>4, AskingKeepsOne
<1> QED
  BY <1>2, <1>3, <1>4

\* A failed attempt leaves one request waiting if its row was waiting, or alone
LEMMA FailingKeepsOne ==
    ASSUME BTypeOK, NEW r \in Requests, tries[r] < MaxAttempts, Fail(r), OneOf(queue),
           \/ queue[r] \in {"queued", "failed", "none"}
           \/ \A s \in Requests : s[1] = r[1] => queue[s] \notin {"queued", "failed"}
    PROVE  OneOf(queue')
<1>1. /\ \A x \in Requests \ {r} : queue'[x] = queue[x]
      /\ queue'[r] = IF queue[r] = "none" THEN "none" ELSE "failed"
  BY Failing
<1>2. SUFFICES ASSUME NEW x \in Requests, NEW y \in Requests, x[1] = y[1], x # y,
                      queue'[x] \in {"queued", "failed"}, queue'[y] \in {"queued", "failed"}
               PROVE  FALSE
  BY DEF OneOf
<1> QED
  BY <1>1, <1>2 DEF OneOf

LEMMA AloneStep ==
    BTypeOK /\ RunKnows /\ OneWaiting /\ CopiesAlone /\ (BSteps \/ UNCHANGED bvars)
        => OneWaiting' /\ CopiesAlone'
<1> SUFFICES ASSUME BTypeOK, RunKnows, OneWaiting, CopiesAlone, BSteps \/ UNCHANGED bvars
             PROVE  OneWaiting' /\ CopiesAlone'
  OBVIOUS
<1>a. OneOf(queue) /\ (OneOf(queue') => OneWaiting')
  BY DEF OneOf, OneWaiting, Pending
<1>b. queue \in [Requests -> States]
  BY DEF BTypeOK, States
<1>1. CASE UNCHANGED queue /\ (Busy' => Busy /\ UNCHANGED with)
  BY <1>1, <1>a DEF CopiesAlone, OneOf, Busy
<1>2. ASSUME NEW i \in Items, Commit(i)
      PROVE  OneWaiting' /\ CopiesAlone'
  <2>1. ~Busy' /\ << i, bytes[i] >> \in Requests
    BY <1>2 DEF Commit, Busy, run, Requests, BTypeOK
  <2>2. queue' = queue \/ queue' = EnqueueBackupItem(queue, << i, bytes[i] >>)
    BY <1>2 DEF Commit
  <2>3. OneOf(queue')
    BY <1>a, <1>b, <2>1, <2>2, AskingKeepsOne
  <2> QED
    BY <1>a, <2>1, <2>3 DEF CopiesAlone
<1>3. ASSUME NEW r \in Requests, HashBefore(r)
      PROVE  OneWaiting' /\ CopiesAlone'
  <2>1. tries[r] < MaxAttempts /\ queue[r] \in {"queued", "failed", "none"}
    BY <1>3 DEF HashBefore, RunKnows
  <2>2. CASE does' = "next" /\ Fail(r)
    <3>1. OneOf(queue')
      BY <1>a, <2>1, <2>2, FailingKeepsOne
    <3> QED
      BY <1>a, <2>2, <3>1 DEF CopiesAlone, Busy
  <2>3. CASE does' = "next" /\ Discard(r)
    <3>1. OneOf(queue')
      BY <1>a, <2>3, DiscardingKeepsOne
    <3> QED
      BY <1>a, <2>3, <3>1 DEF CopiesAlone, Busy
  <2>4. CASE with' = r /\ Write(r, "copying")
    <3>1. queue' = IF queue[r] = "none" THEN queue ELSE [queue EXCEPT ![r] = "copying"]
      BY <2>4 DEF Write
    <3>2. OneOf(queue')
      BY <1>a, <1>b, <3>1 DEF OneOf
    <3>3. ASSUME queue'[r] = "copying", NEW s \in Requests, s[1] = r[1]
          PROVE  queue'[s] \notin {"queued", "failed"}
      BY <1>a, <1>b, <2>1, <3>1, <3>3 DEF OneOf
    <3> QED
      BY <1>a, <2>4, <3>2, <3>3 DEF CopiesAlone
  <2> QED
    BY <1>3, <2>2, <2>3, <2>4 DEF HashBefore
<1>4. ASSUME Copy
      PROVE  OneWaiting' /\ CopiesAlone'
  <2>1. Busy /\ with \in Requests /\ tries[with] < MaxAttempts
    BY <1>4 DEF Copy, Busy, RunKnows
  <2>2. CASE UNCHANGED queue /\ UNCHANGED with
    BY <1>1, <2>1, <2>2
  <2>3. CASE Fail(with) /\ Onward
    <3>1. OneOf(queue')
      BY <1>a, <2>1, <2>3, FailingKeepsOne DEF CopiesAlone, RunKnows
    <3> QED
      BY <1>a, <2>3, <3>1 DEF CopiesAlone, Busy, Onward, GoOn
  <2> QED
    BY <1>4, <2>2, <2>3 DEF Copy
<1>5. ASSUME HashAfter
      PROVE  OneWaiting' /\ CopiesAlone'
  <2>1. Busy /\ with \in Requests /\ tries[with] < MaxAttempts /\ ~Busy'
    BY <1>5 DEF HashAfter, Busy, RunKnows, Onward, GoOn
  <2>2. CASE Fail(with)
    <3>1. OneOf(queue')
      BY <1>a, <2>1, <2>2, FailingKeepsOne DEF CopiesAlone, RunKnows
    <3> QED
      BY <1>a, <2>1, <3>1 DEF CopiesAlone
  <2>3. CASE Discard(with)
    <3>1. OneOf(queue')
      BY <1>a, <2>1, <2>3, DiscardingKeepsOne
    <3> QED
      BY <1>a, <2>1, <3>1 DEF CopiesAlone
  <2>4. CASE Write(with, "done")
    <3>1. OneOf(queue')
      BY <1>a, <1>b, <2>1, <2>4 DEF OneOf, Write
    <3> QED
      BY <1>a, <2>1, <3>1 DEF CopiesAlone
  <2> QED
    BY <1>5, <2>2, <2>3, <2>4 DEF HashAfter
<1>6. Withdraw \/ RunBegins \/ RunEnds \/ Check \/ WorkerDies \/ TakeAway \/ Scan
      \/ (\E i \in Items : Restore(i) \/ Edit(i)) \/ UNCHANGED bvars
        => UNCHANGED queue /\ (Busy' => Busy /\ UNCHANGED with)
  BY DEF Withdraw, RunBegins, RunEnds, Check, WorkerDies, TakeAway, Scan, Restore, Edit,
         Busy, GoOn, run, bvars
<1> QED
  BY <1>1, <1>2, <1>3, <1>4, <1>5, <1>6 DEF BSteps, Run, Decisions, People

\* Between the first hash and the second nobody puts a file at the path, and an
\* edit that brings the request's bytes back is known as one
LEMMA SentStep ==
    BTypeOK /\ RunKnows /\ SentOrGone /\ (BSteps \/ UNCHANGED bvars) => SentOrGone'
<1> SUFFICES ASSUME BTypeOK, RunKnows, SentOrGone, BSteps \/ UNCHANGED bvars,
                    does' = "hash again"
             PROVE  SentOrGone'
  BY DEF SentOrGone
<1>0. does = "hash again" => with \in Requests
  BY DEF RunKnows, Busy
<1>a. does = "hash again" => with # Nobody
  BY <1>0, SomeBytes
<1>1. CASE UNCHANGED << bytes, here, does, with, agrees, reverted, remote >>
  BY <1>1 DEF SentOrGone, AtPath
<1>2. CASE Check
  <2>1. /\ UNCHANGED << with, remote >> /\ AtPath' = AtPath
        /\ agrees' => remote = AtPath
    BY <1>2 DEF Check, AtPath, GoOn, library
  <2> QED
    BY <2>1 DEF SentOrGone
<1>3. CASE TakeAway
  <2>1. UNCHANGED << with, does, agrees, remote >> /\ AtPath' = Nobody
    BY <1>3 DEF TakeAway, AtPath, run
  <2> QED
    BY <1>a, <2>1 DEF SentOrGone
<1>4. ASSUME NEW i \in Items, Edit(i)
      PROVE  SentOrGone'
  <2>1. PICK v \in Versions :
           /\ bytes' = [bytes EXCEPT ![i] = v]
           /\ reverted' = (reverted \/ (does = "hash again" /\ here = i /\ with = << i, v >>))
    BY <1>4 DEF Edit
  <2>2. UNCHANGED << here, with, does, agrees, remote >>
    BY <1>4 DEF Edit
  <2>3. bytes'[i] = v /\ \A k \in Items \ {i} : bytes'[k] = bytes[k]
    BY <2>1 DEF BTypeOK
  <2>4. CASE here = i
    <3>1. AtPath' = << i, v >> \/ AtPath' = Nobody
      BY <2>2, <2>3, <2>4 DEF AtPath
    <3>2. AtPath' = with => reverted'
      BY <1>a, <2>1, <2>2, <2>4, <3>1
    <3> QED
      BY <2>2, <3>2 DEF SentOrGone
  <2>5. CASE here # i
    <3>1. AtPath' = AtPath
      BY <2>2, <2>3, <2>5 DEF AtPath, BTypeOK
    <3>2. reverted => reverted'
      BY <2>1
    <3> QED
      BY <2>2, <3>1, <3>2 DEF SentOrGone
  <2> QED
    BY <2>4, <2>5
<1>5. Scan \/ UNCHANGED bvars
        => UNCHANGED << bytes, here, does, with, agrees, reverted, remote >>
  BY DEF Scan, bvars, library, run
<1>6. /\ \A i \in Items : ~Commit(i) /\ ~Restore(i)
      /\ ~Withdraw /\ ~RunBegins /\ ~RunEnds /\ ~HashAfter /\ ~WorkerDies /\ ~Copy
      /\ \A r \in Requests : ~HashBefore(r)
  BY DEF Commit, Restore, Withdraw, RunBegins, RunEnds, HashAfter, WorkerDies, Copy, HashBefore,
         Onward, GoOn, run
<1> QED
  BY <1>1, <1>2, <1>3, <1>4, <1>5, <1>6 DEF BSteps, Run, Decisions, People

------------------------------------------------------------------------------
(* Beside the drive.                                                         *)

\* The mount point changed under a copy that does not reach the drive
DriveKnows ==
    /\ doing = "copy" /\ mount # "drive" => moved
    /\ astray => moved

TInv == BInv /\ TTypeOK /\ DriveKnows

LEMMA TStart == Init => TInv
<1> SUFFICES ASSUME Init PROVE TInv
  OBVIOUS
<1>a. /\ 0 \in 0 .. MaxVersion /\ 0 \in 0 .. MaxEdits
      /\ 0 \in 0 .. MaxAttempts /\ 0 \in 0 .. MaxUpsets
  BY FromZero, Bounds
<1>1. BTypeOK
  BY <1>a DEF Init, BInit, BTypeOK, Versions
<1>2. RunKnows /\ OneWaiting /\ CopiesAlone /\ SentOrGone
  BY DEF Init, BInit, RunKnows, OneWaiting, CopiesAlone, SentOrGone, Busy, Pending
<1>3. TTypeOK
  BY DEF Init, BInit, TInit, TTypeOK
<1>4. DriveKnows
  BY DEF Init, TInit, DriveKnows
<1> QED
  BY <1>1, <1>2, <1>3, <1>4 DEF TInv, BInv

\* A step of a transfer, of a person at the drive or of the clock leaves the
\* queue, the run and the library alone, but for the count of accidents
LEMMA Apart ==
    ASSUME BInv, Next
    PROVE  \/ BSteps \/ UNCHANGED bvars
           \/ TransferDies
BY DEF Next, BSteps, Ask, Take, Poll, Transfer, LookForDrive, Compare, CheckAgain, CopyOut,
       Close, Answer, Hour, Mount

LEMMA BStep == BInv /\ [Next]_vars => BInv'
<1> SUFFICES ASSUME BInv, [Next]_vars
             PROVE  BInv'
  OBVIOUS
<1>1. CASE BSteps \/ UNCHANGED bvars
  BY <1>1, BTypeStep, RunStep, AloneStep, SentStep DEF BInv
<1>2. CASE TransferDies
  <2>1. UNCHANGED << enabled, library, queue, tries, run, remote >>
    BY <1>2 DEF TransferDies
  <2>2. upsets' \in 0 .. MaxUpsets
    <3>1. upsets \in 0 .. MaxUpsets /\ upsets < MaxUpsets /\ upsets' = upsets + 1
      BY <1>2 DEF TransferDies, BInv, BTypeOK
    <3> QED
      BY <3>1, Bounds, OneMore, Zenon
  <2>3. BTypeOK'
    BY <2>1, <2>2 DEF BInv, BTypeOK, library, run
  <2>4. RunKnows' /\ OneWaiting' /\ CopiesAlone' /\ SentOrGone'
    BY <2>1 DEF BInv, RunKnows, OneWaiting, CopiesAlone, SentOrGone, Busy, AtPath, Pending,
                library, run
  <2> QED
    BY <2>3, <2>4 DEF BInv
<1> QED
  BY <1>1, <1>2, Apart DEF vars

LEMMA TStep == TTypeOK /\ DriveKnows /\ [Next]_vars /\ BTypeOK => TTypeOK' /\ DriveKnows'
<1> SUFFICES ASSUME TTypeOK, DriveKnows, [Next]_vars, BTypeOK
             PROVE  TTypeOK' /\ DriveKnows'
  OBVIOUS
<1> DEFINE Kept == TTypeOK /\ DriveKnows
<1> USE DEF TTypeOK, DriveKnows
<1>1. ASSUME NEW n \in Sends, Ask(n)
      PROVE  Kept'
  BY <1>1 DEF Ask
<1>2. ASSUME NEW n \in Sends, Take(n)
      PROVE  Kept'
  BY <1>2 DEF Take, Start
<1>3. ASSUME Poll
      PROVE  Kept'
  BY <1>3 DEF Poll, Look, Probe, Start, Idle
<1>4. ASSUME LookForDrive
      PROVE  Kept'
  BY <1>4 DEF LookForDrive, Look, Probe
<1>5. ASSUME Compare
      PROVE  Kept'
  BY <1>5 DEF Compare, Rest
<1>6. ASSUME CheckAgain
      PROVE  Kept'
  BY <1>6 DEF CheckAgain, CheckedOffline
<1>7. ASSUME CopyOut
      PROVE  Kept'
  <2>1. AtPath \in Requests \cup {Nobody}
    BY PathTyped
  <2>2. /\ held' \in Requests \cup {Nobody} /\ doing' = "close"
        /\ ok' \in BOOLEAN
    BY <1>7, <2>1 DEF CopyOut
  <2>3. astray' \in BOOLEAN /\ (astray' => astray \/ mount # "drive")
    <3>1. astray' = astray \/ (astray' = TRUE /\ mount # "drive")
      BY <1>7 DEF CopyOut
    <3>2. astray \in BOOLEAN
      OBVIOUS
    <3>3. CASE astray' = astray
      BY <3>2, <3>3, Zenon
    <3>4. CASE astray' = TRUE /\ mount # "drive"
      BY <3>4, Zenon
    <3> QED
      BY <3>1, <3>3, <3>4, Zenon
  <2> QED
    BY <1>7, <2>2, <2>3 DEF CopyOut
<1>8. ASSUME Close
      PROVE  Kept'
  BY <1>8 DEF Close, Rest
<1>9. ASSUME Answer
      PROVE  Kept'
  BY <1>9 DEF Answer, Rest
<1>10. ASSUME TransferDies
      PROVE  Kept'
  BY <1>10 DEF TransferDies, Rest
<1>11. ASSUME NEW m \in {"nothing", "drive", "other", "clone"}, Mount(m)
      PROVE  Kept'
  <2>1. /\ mount' = m /\ moved' = (moved \/ doing = "copy")
        /\ UNCHANGED << presence, held, ask, ran, turn, doing, whose, ok, astray >>
    BY <1>11 DEF Mount
  <2>2. moved' \in BOOLEAN /\ (moved => moved') /\ (doing = "copy" => moved')
    BY <2>1, Zenon
  <2>3. TTypeOK'
    BY <2>1, <2>2
  <2> QED
    BY <2>1, <2>2, <2>3
<1>12. ASSUME Hour
      PROVE  Kept'
  BY <1>12 DEF Hour
<1>13. CASE UNCHANGED drive
  BY <1>13 DEF drive
<1> QED
  BY <1>1, <1>2, <1>3, <1>4, <1>5, <1>6, <1>7, <1>8, <1>9, <1>10, <1>11, <1>12, <1>13
  DEF Next, Transfer, vars

THEOREM OffsiteInvariant == Spec => []TInv
<1>1. Init => TInv
  BY TStart
<1>2. TInv /\ [Next]_vars => TInv'
  BY BStep, TStep DEF TInv, BInv
<1> QED
  BY <1>1, <1>2, PTL DEF Spec

\* Every variable of the queue and of the transfers holds what the code can put
\* in it, the attempts of a request among them
THEOREM OffsiteTypes == Spec => []TypeOK
<1>1. TInv => TypeOK
  BY DEF TInv, BInv, TypeOK
<1> QED
  BY <1>1, OffsiteInvariant, PTL

\* Of one item at most one request waits
THEOREM OneRequestWaits == Spec => []OneWaiting
<1>1. TInv => OneWaiting
  BY DEF TInv, BInv
<1> QED
  BY <1>1, OffsiteInvariant, PTL

\* rclone writes at the mount point, and not to the drive, only if the drive was
\* pulled or swapped after the look that precedes the copy
THEOREM OnlyTheDriveIsWritten == Spec => []OnlyOurDrive
<1>1. TInv => OnlyOurDrive
  BY DEF TInv, DriveKnows, OnlyOurDrive
<1> QED
  BY <1>1, OffsiteInvariant, PTL

\* "done" is said of bytes the remote holds at that step, unless an edit brought
\* them back to the path between rclone's check and the second hash: for any
\* number of edits, items and deaths
THEOREM DoneIsSaidOfBytesSent == Spec => DoneWasSent
<1> DEFINE Said == \A r \in Requests : queue[r] # "done" /\ queue'[r] = "done" => remote = r \/ reverted
<1>1. ASSUME TInv, [Next]_vars
      PROVE  Said
  <2> SUFFICES ASSUME NEW r \in Requests, queue[r] # "done", queue'[r] = "done"
               PROVE  remote = r \/ reverted
    OBVIOUS
  <2>a. BTypeOK /\ RunKnows /\ SentOrGone
    BY <1>1 DEF TInv, BInv
  <2>1. CASE HashAfter
    <3>1. with \in Requests /\ tries[with] < MaxAttempts /\ Busy /\ does = "hash again"
      BY <2>a, <2>1 DEF HashAfter, RunKnows, Busy
    <3>2. CASE Fail(with)
      BY <2>a, <3>1, <3>2, Failing
    <3>3. CASE Discard(with)
      BY <2>a, <3>1, <3>3, DiscardingRows
    <3>4. CASE AtPath = with /\ agrees /\ Write(with, "done")
      <4>1. r = with
        BY <2>a, <3>1, <3>4 DEF Write, BTypeOK
      <4>2. remote = with \/ reverted
        BY <2>a, <3>1, <3>4 DEF SentOrGone
      <4> QED
        BY <4>1, <4>2
    <3> QED
      BY <2>1, <3>2, <3>3, <3>4 DEF HashAfter
  <2>2. ASSUME NEW x \in Requests, HashBefore(x)
        PROVE  FALSE
    <3>1. tries[x] < MaxAttempts
      BY <2>a, <2>2 DEF HashBefore, RunKnows
    <3>2. CASE Fail(x)
      BY <2>a, <3>1, <3>2, Failing
    <3>3. CASE Discard(x)
      BY <2>a, <3>3, DiscardingRows
    <3>4. CASE Write(x, "copying")
      BY <2>a, <3>4 DEF Write, BTypeOK
    <3> QED
      BY <2>2, <3>2, <3>3, <3>4 DEF HashBefore
  <2>3. ASSUME Copy
        PROVE  FALSE
    <3>1. with \in Requests /\ tries[with] < MaxAttempts
      BY <2>a, <2>3 DEF Copy, RunKnows, Busy
    <3>2. CASE Fail(with)
      BY <2>a, <3>1, <3>2, Failing
    <3> QED
      BY <2>3, <3>2 DEF Copy
  <2>4. ASSUME NEW i \in Items, Commit(i)
        PROVE  FALSE
    <3>1. << i, bytes[i] >> \in Requests /\ queue \in [Requests -> States]
      BY <2>a DEF BTypeOK, Requests, States
    <3>2. queue' = queue \/ queue' = EnqueueBackupItem(queue, << i, bytes[i] >>)
      BY <2>4 DEF Commit
    <3> QED
      BY <3>1, <3>2, Asking
  <2>5. UNCHANGED queue => FALSE
    OBVIOUS
  <2>6. Withdraw \/ RunBegins \/ RunEnds \/ Check \/ WorkerDies \/ TakeAway \/ Scan
        \/ (\E i \in Items : Restore(i) \/ Edit(i)) \/ TransferDies \/ UNCHANGED bvars
          => UNCHANGED queue
    BY DEF Withdraw, RunBegins, RunEnds, Check, WorkerDies, TakeAway, Scan, Restore, Edit,
           TransferDies, bvars
  <2> QED
    BY <1>1, <2>1, <2>2, <2>3, <2>4, <2>5, <2>6, Apart
    DEF TInv, vars, BSteps, Run, Decisions, People
<1>2. TInv /\ [Next]_vars => [Said]_bvars
  BY <1>1
<1> QED
  BY <1>2, OffsiteInvariant, PTL DEF Spec, DoneWasSent
=============================================================================
