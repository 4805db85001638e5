--------------------------------- MODULE Undo ---------------------------------
(***************************************************************************)
(* Decisions committed one after another about the same files, and Undo of *)
(* any of them: history.undo_plan and undo_op, one operation at a time     *)
(* under the lock and one statement at a time within it, with              *)
(* undo_sequence.assert_clear before each.  A commit is one step here,     *)
(* with everything it records; Executor has its statements.                *)
(*                                                                         *)
(* A name is << b, n >>, the n-th name resolve_collision tries at place b. *)
(* A file is also its contents and its items row.  Only plans that move    *)
(* what they were approved to move are modelled: a refused one leaves no   *)
(* forward 'ok' row, and so nothing to undo.                               *)
(*                                                                         *)
(* Left out: adoptions, the roots check, journals older than plan_ops,     *)
(* refused rows of the journal (nothing reads them back), the delete       *)
(* queue, and the removal of directories an undo has emptied.              *)
(***************************************************************************)
EXTENDS Naturals, Sequences, FiniteSetsExt

CONSTANTS
    Files,
    Filed, Held,    \* places outside quarantine, and in it
    MaxNum,         \* bound: names resolve_collision may try
    Nothing, Foreign,
    MaxPlans,       \* bound: plans committed
    MaxPresses,     \* bound: presses of Undo
    MaxCrashes,     \* bound: crashes
    MaxHands,       \* bound: acts of people on files
    MaxOutside      \* bound: those, scans, and decisions on what they discover

ASSUME PlacesAssumption ==
    /\ Filed \cap Held = {}
    /\ {Nothing, Foreign} \cap Files = {} /\ Nothing # Foreign
    /\ MaxNum \in Nat \ {0}
    /\ {MaxPlans, MaxPresses, MaxCrashes, MaxHands, MaxOutside} \subseteq Nat

Bases == Filed \cup Held
Names == Bases \X (1 .. MaxNum)
NoName == << >>
Plans == 1 .. MaxPlans
InQuarantine(m) == m[1] \in Held

VARIABLES
    disk,       \* what is at each name
    row,        \* where the items row of each file says it is
    others,     \* other items rows: "none", "fresh" or "claimed" at a name
    touched,    \* files whose item a scan has called 'unstable'
    journal,    \* the 'ok' rows of history, oldest first
    entry,      \* the quarantine entry a plan has made for a file
    plans,      \* plans committed so far
    pc,         \* the undo: "idle" or the statement it runs next
    undoing,    \* the plan being reversed
    todo,       \* the journal rows it has yet to reverse
    landed,     \* where the current file went back to
    found,      \* an earlier run had put it back already
    cut,        \* journal rows whose reversal ended before its last statement
    behind,     \* journal rows of whose reversal the index has not heard
    unheard,    \* a second reversal of an operation, which History never heard of
    raced,      \* a command came between an undo's last check and its lock
    presses, crashes, hands, scans

files  == << disk >>
index  == << row, others, touched >>
memory == << undoing, todo, landed, found >>
counts == << presses, crashes, hands, scans >>
vars == << files, index, journal, entry, plans, pc, memory, cut, behind, unheard, raced, counts >>

Start == {s \in [Files -> Filed] : \A f, g \in Files : f # g => s[f] # s[g]}

Init ==
    /\ \E s \in Start :
          /\ row = [f \in Files |-> << s[f], 1 >>]
          /\ disk = [m \in Names |->
                       IF \E f \in Files : m = << s[f], 1 >>
                       THEN CHOOSE f \in Files : m = << s[f], 1 >> ELSE Nothing]
    /\ others = [m \in Names |-> "none"]
    /\ touched = {}
    /\ journal = << >>
    /\ entry = [p \in Plans |-> [f \in Files |-> "none"]]
    /\ plans = 0
    /\ pc = "idle"
    /\ undoing = 0
    /\ todo = {}
    /\ landed = NoName
    /\ found = FALSE
    /\ cut = {}
    /\ behind = {}
    /\ unheard = FALSE
    /\ raced = FALSE
    /\ presses = 0 /\ crashes = 0 /\ hands = 0 /\ scans = 0

-------------------------------------------------------------------------------
(* What the journal says: undo_sequence.                                   *)

Rows == DOMAIN journal
Forward(p) == {h \in Rows : journal[h].way = "forward" /\ journal[h].plan = p}

\* _REVERSAL_EXISTS: rows are matched by the operation they are about.
Reversed(h) ==
    \E u \in Rows : /\ u > h
                    /\ journal[u].way = "back"
                    /\ journal[u].plan = journal[h].plan
                    /\ journal[u].file = journal[h].file

\* _EXECUTED
Standing == {h \in Rows : journal[h].way = "forward" /\ ~Reversed(h)}

\* _later_decisions: by identity, or by continuation.
BuiltOn(h) ==
    {k \in Standing :
        /\ k > h
        /\ journal[k].plan # journal[h].plan
        /\ journal[k].file = journal[h].file \/ journal[k].from = journal[h].to}

\* Mutant: no later decision is ever in the way.
ClearAlways(p) == Forward(p) # {}

\* assert_clear: a plan already reversed passes.
Clear(p) == \A h \in Forward(p) \cap Standing : BuiltOn(h) = {}

-------------------------------------------------------------------------------
(* A decision is committed.                                                *)

FreeNumbers(d, b) == {n \in 1 .. MaxNum : d[<< b, n >>] = Nothing}

HasRow(m) == others[m] # "none" \/ \E f \in Files : row[f] = m

\* The lock is free: no undo is at work, or it has not yet got it.
LockFree ==
    /\ pc \in {"idle", "gate", "wait"}
    /\ raced' = (raced \/ pc = "wait")

\* One move: file f goes from where its row says to the first free name at b.
Move(d, f, b) ==
    [plan |-> plans + 1, file |-> f, way |-> "forward",
     from |-> row[f], to |-> << b, Min(FreeNumbers(d, b)) >>]

After(d, j) == [d EXCEPT ![j.from] = Nothing, ![j.to] = j.file]

Possible(d, f, b) ==
    /\ d[row[f]] = f
    /\ b # row[f][1]
    /\ ~ (InQuarantine(row[f]) /\ b \in Held)         \* the delete pile, which is left out
    /\ FreeNumbers(d, b) # {}
    /\ InQuarantine(row[f]) => \E p \in Plans : entry[p][f] = "held"

Allowed(j) ==
    /\ others[j.to] = "none"
    /\ ~ (InQuarantine(j.to) /\ j.file \in touched)

\* A file set aside gets an entry.
SetAside(j) ==
    entry' = IF InQuarantine(j.to)
             THEN [entry EXCEPT ![j.plan][j.file] = "held"] ELSE entry

\* A plan of one operation.  One that brings a file out of quarantine answers one
\* entry of that file, and settles it (settle_quarantine_plan).
Commit(f, b) ==
    /\ LockFree
    /\ plans < MaxPlans
    /\ Possible(disk, f, b)
    /\ LET j == Move(disk, f, b)
       IN /\ Allowed(j)
          /\ \A g \in Files : row[g] # j.to
          /\ disk' = After(disk, j)
          /\ row' = [row EXCEPT ![f] = j.to]
          /\ touched' = touched \ {f}
          /\ journal' = Append(journal, j)
          /\ IF InQuarantine(j.from) /\ ~InQuarantine(j.to)
             THEN \E p \in Plans : /\ entry[p][f] = "held"
                                   /\ entry' = [entry EXCEPT ![p][f] = "restored"]
             ELSE SetAside(j)
    /\ plans' = plans + 1
    /\ UNCHANGED << others, pc, memory, cut, behind, counts, unheard >>

\* A coherent plan of two: the filed copy f makes way, and the copy g takes its
\* address (replacement.swap_specs).
CommitSwap(f, g, q) ==
    /\ LockFree
    /\ plans < MaxPlans
    /\ f # g
    /\ ~InQuarantine(row[f]) /\ q \in Held
    /\ Possible(disk, f, q) /\ disk[row[g]] = g /\ row[g][1] # row[f][1]
    /\ LET j == Move(disk, f, q)
           k == [plan |-> plans + 1, file |-> g, way |-> "forward",
                 from |-> row[g], to |-> row[f]]
       IN /\ Allowed(j) /\ \A h \in Files : row[h] # j.to
          /\ disk' = After(After(disk, j), k)
          /\ row' = [row EXCEPT ![f] = j.to, ![g] = k.to]
          /\ touched' = touched \ {f, g}
          /\ journal' = journal \o << j, k >>
          /\ IF InQuarantine(k.from)
             THEN \E p \in Plans :
                     /\ entry[p][g] = "held"
                     /\ entry' = [entry EXCEPT ![plans + 1][f] = "held", ![p][g] = "restored"]
             ELSE SetAside(j)
    /\ plans' = plans + 1
    /\ UNCHANGED << others, pc, memory, cut, behind, counts, unheard >>

-------------------------------------------------------------------------------
(* Undo.                                                                   *)

Forget ==
    /\ pc' = "idle"
    /\ undoing' = 0
    /\ todo' = {}
    /\ landed' = NoName
    /\ found' = FALSE

\* undo_plan: assert_clear, then the plan's rows, newest first.
Press(p) ==
    /\ pc = "idle"
    /\ presses < MaxPresses
    /\ Forward(p) # {}
    /\ Clear(p)
    /\ undoing' = p
    /\ todo' = Forward(p)
    /\ pc' = "gate"
    /\ presses' = presses + 1
    /\ UNCHANGED << files, index, journal, entry, plans, landed, found, cut, behind, crashes, hands, scans, raced, unheard >>

Current == Max(todo)
This == journal[Current]

\* undo_op asks assert_clear again; an UndoError ends the whole reversal.
Gate ==
    /\ pc = "gate"
    /\ IF todo # {} /\ Clear(undoing)
       THEN pc' = "wait" /\ UNCHANGED memory
       ELSE Forget
    /\ UNCHANGED << files, index, journal, entry, plans, cut, behind, counts, raced, unheard >>

NextOne ==
    /\ todo' = todo \ {Current}
    /\ pc' = "gate"
    /\ landed' = NoName
    /\ found' = FALSE
    /\ UNCHANGED undoing

\* The lock is held by somebody else for as long as anybody waits.
Busy ==
    /\ pc = "wait"
    /\ NextOne
    /\ UNCHANGED << files, index, journal, entry, plans, cut, behind, counts, raced, unheard >>

\* Under the lock, the file is where the journal says: it goes back, to the
\* address it came from or, when that is taken, to another name there.
MoveBack ==
    /\ pc = "wait"
    /\ disk[This.to] = This.file
    /\ FreeNumbers(disk, This.from[1]) # {}        \* bound: some number is free
    /\ landed' = IF disk[This.from] = Nothing THEN This.from
                 ELSE << This.from[1], Min(FreeNumbers(disk, This.from[1])) >>
    /\ disk' = [disk EXCEPT ![This.to] = Nothing, ![landed'] = This.file]
    /\ found' = FALSE
    /\ pc' = "record"
    /\ UNCHANGED << index, journal, entry, plans, undoing, todo, cut, behind, counts, raced, unheard >>

\* Mutant: whatever is at the origin is the file.
FoundAnything ==
    /\ pc = "wait"
    /\ disk[This.to] = Nothing
    /\ ~Reversed(Current)
    /\ disk[This.from] # Nothing
    /\ landed' = This.from
    /\ found' = TRUE
    /\ pc' = "record"
    /\ UNCHANGED << files, index, journal, entry, plans, undoing, todo, cut, behind, counts, raced, unheard >>

\* _already_put_back: the file is not there, nothing has reversed the operation,
\* and the origin holds its bytes.
FoundBack ==
    /\ pc = "wait"
    /\ disk[This.to] = Nothing
    /\ ~Reversed(Current)
    /\ disk[This.from] = This.file
    /\ landed' = This.from
    /\ found' = TRUE
    /\ pc' = "record"
    /\ UNCHANGED << files, index, journal, entry, plans, undoing, todo, cut, behind, counts, raced, unheard >>

\* Refused: somebody else's bytes are there, or nothing is and it is nowhere known.
RefuseBack ==
    /\ pc = "wait"
    /\ \/ disk[This.to] \notin {Nothing, This.file}
       \/ /\ disk[This.to] = Nothing
          /\ ~Reversed(Current) /\ disk[This.from] # This.file
    /\ NextOne
    /\ UNCHANGED << files, index, journal, entry, plans, cut, behind, counts, raced, unheard >>

\* The items row, of whatever file, that has the address.
IndexAt(m) == {f \in Files : row[f] = m}

\* _origin_free: the address is nobody's, or a mere discovery's, which is retired.
OriginFree(m) == others[m] # "claimed" /\ IndexAt(m) = {}
Retired(m) == [others EXCEPT ![m] = "none"]

\* Mutant: the address the file came from, whatever name it got.
MoveRowPlain(m, to, o) ==
    /\ row' = [f \in Files |-> IF row[f] = m THEN This.from ELSE row[f]]
    /\ touched' = touched \ IndexAt(m)
    /\ others' = IF o[m] = "none" THEN o ELSE [o EXCEPT ![m] = "none", ![to] = o[m]]

\* _update_item_after_undo: whatever row has address m is given address to, with o
\* the other rows by then, unless assert_transition or UNIQUE (root, relpath) raises.
RowRaises(m, to, o) ==
    \/ InQuarantine(to) /\ IndexAt(m) \cap touched # {}
    \/ HasRow(m) /\ (o[to] # "none" \/ IndexAt(to) # {})

MoveRow(m, to, o) ==
    /\ row' = [f \in Files |-> IF row[f] = m THEN to ELSE row[f]]
    /\ touched' = touched \ IndexAt(m)
    /\ others' = IF o[m] = "none" THEN o ELSE [o EXCEPT ![m] = "none", ![to] = o[m]]

\* An exception ends the whole reversal.
Raise(o) ==
    /\ Forget
    /\ cut' = cut \cup {Current}
    /\ behind' = behind \cup {Current}
    /\ others' = o
    /\ UNCHANGED << row, touched >>

\* _catch_up_after_undo: reversed already, and the index may not have heard of it.
CatchUp ==
    /\ pc = "wait"
    /\ disk[This.to] = Nothing
    /\ Reversed(Current)
    /\ LET free == HasRow(This.to) /\ OriginFree(This.from)
           there == disk[This.from] = This.file
           raises == RowRaises(This.to, This.from, Retired(This.from))
       IN \/ /\ ~free
             /\ NextOne
             /\ UNCHANGED << index, cut, behind >>
          \/ /\ free /\ ~there
             /\ NextOne
             /\ others' = Retired(This.from)
             /\ UNCHANGED << row, touched, cut, behind >>
          \/ /\ free /\ there /\ raises
             /\ Raise(Retired(This.from))
          \/ /\ free /\ there /\ ~raises
             /\ MoveRow(This.to, This.from, Retired(This.from))
             /\ behind' = IF row[This.file] = This.to THEN behind \ {Current} ELSE behind
             /\ NextOne
             /\ UNCHANGED cut
    /\ UNCHANGED << files, journal, entry, plans, counts, raced, unheard >>

\* Mutant: an action nothing looks for.
RecordMisspelt ==
    /\ pc = "record"
    /\ journal' = Append(journal, [plan |-> This.plan, file |-> This.file, way |-> "undone",
                                   from |-> This.to, to |-> landed])
    /\ pc' = "index"
    /\ UNCHANGED << files, index, entry, plans, memory, cut, behind, counts, raced, unheard >>

\* Mutant: the address the file came from, whatever name it got.
RecordOrigin ==
    /\ pc = "record"
    /\ journal' = Append(journal, [plan |-> This.plan, file |-> This.file, way |-> "back",
                                   from |-> This.to, to |-> This.from])
    /\ pc' = "index"
    /\ UNCHANGED << files, index, entry, plans, memory, cut, behind, counts, raced, unheard >>

\* _record_undo
Record ==
    /\ pc = "record"
    /\ journal' = Append(journal, [plan |-> This.plan, file |-> This.file, way |-> "back",
                                   from |-> This.to, to |-> landed])
    /\ pc' = "index"
    /\ UNCHANGED << files, index, entry, plans, memory, cut, behind, counts, raced, unheard >>

\* The items row follows; a reversal that was found asks _origin_free first.  The row
\* that moves is whichever has the address the file was at.
Index ==
    /\ pc = "index"
    /\ LET o == IF found THEN Retired(landed) ELSE others
           blocked == found /\ ~OriginFree(landed)
       IN \/ /\ ~blocked
             /\ RowRaises(This.to, landed, o)
             /\ Raise(o)
          \/ /\ \/ blocked /\ UNCHANGED index
                \/ /\ ~blocked
                   /\ ~RowRaises(This.to, landed, o)
                   /\ MoveRow(This.to, landed, o)
             /\ behind' = IF row[This.file] = (IF blocked THEN landed ELSE This.to)
                          THEN behind \ {Current} ELSE behind \cup {Current}
             /\ pc' = "entries"
             /\ UNCHANGED << memory, cut >>
    /\ UNCHANGED << files, journal, entry, plans, counts, raced, unheard >>

\* Mutant: only an undone quarantine is heard of.
EntriesSettleOnly ==
    /\ pc = "entries"
    /\ entry' = [p \in Plans |-> [f \in Files |->
         IF InQuarantine(This.to) /\ p = This.plan /\ row[f] = This.from
            /\ entry[p][f] = "held" THEN "restored"
         ELSE entry[p][f]]]
    /\ cut' = IF Current \in behind THEN cut \cup {Current} ELSE cut \ {Current}
    /\ NextOne
    /\ UNCHANGED << files, index, journal, plans, behind, counts, raced, unheard >>

\* _settle_quarantine_after_undo: the item now at the address the file came from;
\* _unsettle_quarantine_after_undo: every entry of the item now where it landed.
Entries ==
    /\ pc = "entries"
    /\ entry' = [p \in Plans |-> [f \in Files |->
         IF InQuarantine(This.to) /\ p = This.plan /\ row[f] = This.from
            /\ entry[p][f] = "held" THEN "restored"
         ELSE IF ~InQuarantine(This.to) /\ InQuarantine(This.from) /\ row[f] = landed
            /\ entry[p][f] = "restored" THEN "held"
         ELSE entry[p][f]]]
    /\ cut' = IF Current \in behind THEN cut \cup {Current} ELSE cut \ {Current}
    /\ NextOne
    /\ UNCHANGED << files, index, journal, plans, behind, counts, raced, unheard >>

Crash ==
    /\ pc # "idle"
    /\ crashes < MaxCrashes
    /\ crashes' = crashes + 1
    /\ cut' = IF pc \in {"record", "index", "entries"} THEN cut \cup {Current} ELSE cut
    /\ behind' = IF pc \in {"record", "index"} THEN behind \cup {Current} ELSE behind
    /\ unheard' = (unheard \/ (pc = "record" /\ Reversed(Current)))
    /\ Forget
    /\ UNCHANGED << files, index, journal, entry, plans, presses, hands, scans, raced >>

-------------------------------------------------------------------------------
(* Everybody else.                                                         *)

\* A person deletes a file, drops one of their own, or carries one elsewhere.
ByHand(m) ==
    /\ pc = "idle"
    /\ hands < MaxHands /\ hands + scans < MaxOutside
    /\ hands' = hands + 1
    /\ \/ \E c \in {Nothing, Foreign} \ {disk[m]} : disk' = [disk EXCEPT ![m] = c]
       \/ \E k \in Names : /\ disk[m] # Nothing /\ disk[k] = Nothing
                           /\ disk' = [disk EXCEPT ![m] = Nothing, ![k] = disk[m]]
    /\ UNCHANGED << index, journal, entry, plans, pc, memory, cut, behind, presses, crashes, scans, raced, unheard >>

Looks ==
    /\ pc = "idle"
    /\ hands + scans < MaxOutside
    /\ scans' = scans + 1
    /\ UNCHANGED << files, journal, entry, plans, pc, memory, cut, behind, presses, crashes, hands, raced, unheard >>

\* A scan gives a row to every file that has none, and looks again at every file
\* it had called unstable; it only dates the row of a file it no longer sees.
Scan ==
    /\ Looks
    /\ others' = [m \in Names |-> IF disk[m] # Nothing /\ ~HasRow(m)
                                  THEN "fresh" ELSE others[m]]
    /\ touched' = {f \in touched : disk[row[f]] = Nothing}
    /\ UNCHANGED row

\* A file rewritten or touched within the stability window is 'unstable'.
ScanTooSoon(f) ==
    /\ Looks
    /\ disk[row[f]] # Nothing
    /\ touched' = touched \cup {f}
    /\ UNCHANGED << row, others >>

\* A discovered file acquires a decision of its own.
Claim(m) ==
    /\ Looks
    /\ others[m] = "fresh"
    /\ others' = [others EXCEPT ![m] = "claimed"]
    /\ UNCHANGED << row, touched >>

Reverse ==
    \/ Gate \/ Busy \/ MoveBack \/ FoundBack \/ RefuseBack \/ CatchUp
    \/ Record \/ Index \/ Entries

Next ==
    \/ \E f \in Files, b \in Bases : Commit(f, b)
    \/ \E f, g \in Files, q \in Held : CommitSwap(f, g, q)
    \/ \E p \in Plans : Press(p)
    \/ Reverse \/ Crash
    \/ \E m \in Names : ByHand(m) \/ Claim(m)
    \/ Scan
    \/ \E f \in Files : ScanTooSoon(f)

Spec == Init /\ [][Next]_vars
-------------------------------------------------------------------------------

(* Every variable stays in its type: the journal has the rows executor.py and
   history.py write, and the undo is at one of its statements. *)
TypeOK ==
    /\ disk \in [Names -> Files \cup {Nothing, Foreign}]
    /\ row \in [Files -> Names]
    /\ others \in [Names -> {"none", "fresh", "claimed"}]
    /\ touched \subseteq Files
    /\ journal \in Seq([plan : Plans, file : Files, way : {"forward", "back"},
                        from : Names, to : Names])
    /\ entry \in [Plans -> [Files -> {"none", "held", "restored"}]]
    /\ plans \in 0 .. MaxPlans
    /\ pc \in {"idle", "gate", "wait", "record", "index", "entries"}
    /\ undoing \in {0} \cup Plans
    /\ todo \subseteq Rows /\ cut \subseteq Rows /\ behind \subseteq Rows
    /\ raced \in BOOLEAN /\ unheard \in BOOLEAN
    /\ landed \in Names \cup {NoName}
    /\ found \in BOOLEAN

Idle == pc = "idle"
About(f) == {h \in Rows : journal[h].file = f}
StandsAt(f, m) == disk[m] = f

\* The files with a row in S.
FilesOf(S) == {journal[h].file : h \in S}

\* Every undo that was killed before its row has been found again.
Heard == \A c \in cut : Reversed(c)

(* As long as no person moves files, the last thing History says of a file is where
   it is: an undo killed between the rename and its row has been heard of as soon
   as Undo is pressed again and finds it (_already_put_back).  That is not looked for
   when the operation had been reversed once before: then History never hears. *)
JournalKnows ==
    (Idle /\ hands = 0 /\ Heard /\ ~unheard) =>
        \A f \in Files : About(f) # {} => StandsAt(f, journal[Max(About(f))].to)

\* An operation that has two reversals in the journal.
TwiceReversed ==
    \E u, v \in Rows : /\ u # v
                       /\ journal[u].way = "back" /\ journal[v].way = "back"
                       /\ journal[u].plan = journal[v].plan
                       /\ journal[u].file = journal[v].file

\* Where the decisions that stand say file f is.
Decided(f) ==
    LET standing == About(f) \cap Standing
    IN IF standing = {} THEN journal[Min(About(f))].from ELSE journal[Max(standing)].to

(* Undoing decisions in any order the program allows leaves every file at the place
   of the last decision about it that stands, or where it was before them all, unless
   a command came between an undo's check and its lock or a row was reversed twice,
   whether History heard of the second time or not. *)
StandingHolds ==
    (Idle /\ hands = 0 /\ Heard /\ ~raced /\ ~unheard /\ ~TwiceReversed) =>
        \A f \in Files : About(f) # {} =>
            \E n \in 1 .. MaxNum : StandsAt(f, << Decided(f)[1], n >>)

(* The index has every file where it is, but for those of which it has not heard: a
   reversal that was killed or that raised before its row, and has not been brought up
   since (_catch_up_after_undo), or that found the address taken (_origin_free).  No
   undo, found again or brought up, moves the row of another file than these. *)
IndexKnows ==
    (Idle /\ hands = 0) =>
        \A f \in Files \ FilesOf(behind) : \A m \in Names : StandsAt(f, m) => row[f] = m

(* "The file is exactly where the reversal put it" (_already_put_back): every ok
   reversal that History gains names an address where the file then stands. *)
TrueReversal ==
    [][\A h \in DOMAIN journal' \ Rows :
          journal'[h].way = "back" => disk'[journal'[h].to] = journal'[h].file]_vars

\* The undo takes file f from where it is.
TakesBack(f) ==
    /\ pc = "wait" /\ pc' = "record"
    /\ \E m \in Names : StandsAt(f, m) /\ ~StandsAt(f, m)'
LaterDecision(f) ==
    \E k \in About(f) \cap Standing : k > Current /\ journal[k].plan # undoing

(* "Reversing an old decision must not quietly reverse a newer one"
   (undo-sequencing.md:3): an undo takes back no file that a later decision, which
   stands, has moved. *)
NewerStands == [][\A f \in Files : ~(TakesBack(f) /\ LaterDecision(f))]_vars

(* So it is for an operation that had not been reversed before, as long as no other
   command comes between the last check and the lock. *)
NewerStandsOnce ==
    [][raced \/ \A f \in Files : ~(TakesBack(f) /\ LaterDecision(f) /\ ~Reversed(Current))]_vars

(* "A quarantine that has been undone is not a file in quarantine any more"
   (_settle_quarantine_after_undo): no file outside quarantine is listed as held. *)
HeldIsInQuarantine ==
    Idle => \A p \in Plans, f \in Files : entry[p][f] = "held" =>
        \A m \in Names : StandsAt(f, m) => InQuarantine(m)

(* "A restore that has been undone is a file in quarantine again"
   (_unsettle_quarantine_after_undo): whatever sequence of decisions and undos put a
   file in quarantine, it is listed there, unless an undo of it was cut short and has
   not been carried to its end since. *)
ListedWhileHeld ==
    (Idle /\ hands = 0) =>
        \A f \in Files \ FilesOf(cut) :
            InQuarantine(row[f]) => \E p \in Plans : entry[p][f] = "held"

===============================================================================
