------------------------------ MODULE UndoProofs ------------------------------
(***************************************************************************)
(* What is proved of Undo, for any files and places, and any number of     *)
(* plans, presses, crashes, scans and acts of people.                      *)
(***************************************************************************)
EXTENDS Undo, WellFoundedInduction, TLAPS

Op == [plan : Plans, file : Files, way : {"forward", "back"}, from : Names, to : Names]

(* The least and the greatest of a set of numbers, which Undo takes of the names that
   are free, of the rows to reverse and of the rows about a file.                     *)
LEMMA LeastIs ==
    ASSUME NEW S, S \subseteq Nat, S # {}
    PROVE  Min(S) \in S /\ \A y \in S : Min(S) <= y
PROOF
  <1>1. \E x \in S : \A y \in S : ~(<<y, x>> \in OpToRel(<, Nat))
    BY NatLessThanWellFounded, WFMin
  <1>2. PICK x \in S : \A y \in S : ~(<<y, x>> \in OpToRel(<, Nat))
    BY <1>1
  <1>3. ASSUME NEW y \in S
        PROVE  x <= y
    <2>1. <<y, x>> \in Nat \X Nat /\ <<y, x>>[1] = y /\ <<y, x>>[2] = x
      OBVIOUS
    <2>2. y < x => <<y, x>> \in OpToRel(<, Nat)
      BY <2>1 DEF OpToRel
    <2>3. ~(y < x)
      BY <1>2, <2>2
    <2>4. x \in Nat /\ y \in Nat
      OBVIOUS
    <2> QED BY <2>3, <2>4
  <1> QED BY <1>3 DEF Min

LEMMA GreatestIs ==
    ASSUME NEW n \in Nat, NEW S, S \subseteq 1 .. n, S # {}
    PROVE  Max(S) \in S /\ \A y \in S : y <= Max(S)
PROOF
  <1> DEFINE T == {n - x : x \in S}
  <1>1. T \subseteq Nat /\ T # {}
    <2>1. \A x \in S : x \in Nat /\ x <= n /\ n - x \in Nat
      OBVIOUS
    <2> QED BY <2>1
  <1>2. Min(T) \in T /\ \A y \in T : Min(T) <= y
    BY <1>1, LeastIs
  <1>3. PICK x \in S : Min(T) = n - x
    BY <1>2
  <1>4. \A y \in S : n - y \in T
    OBVIOUS
  <1>5. ASSUME NEW y \in S
        PROVE  y <= x
    <2>1. n - x <= n - y
      BY <1>2, <1>3, <1>4
    <2>2. x \in Nat /\ y \in Nat
      OBVIOUS
    <2> QED BY <2>1, <2>2
  <1> QED BY <1>5 DEF Max

LEMMA MaxIs ==
    ASSUME NEW S, S \subseteq Nat, NEW x \in S, \A y \in S : y <= x
    PROVE  Max(S) = x
PROOF
  <1>1. \A z \in S : (\A y \in S : z >= y) => z = x
    OBVIOUS
  <1> QED BY <1>1 DEF Max

-------------------------------------------------------------------------------
(* Types.                                                                  *)

\* While an undo is past its check it is about a row, and past the move it knows
\* where the file landed.
AtRow ==
    /\ pc \in {"wait", "record", "index", "entries"} => todo # {}
    /\ pc \in {"record", "index", "entries"} => landed \in Names

UType == TypeOK /\ AtRow

LEMMA RowsAre == TypeOK => /\ Len(journal) \in Nat /\ Rows = 1 .. Len(journal)
                           /\ \A h \in Rows : journal[h] \in Op
  <1> SUFFICES ASSUME TypeOK
               PROVE  /\ Len(journal) \in Nat /\ Rows = 1 .. Len(journal)
                      /\ \A h \in Rows : journal[h] \in Op
    OBVIOUS
  <1>1. journal \in Seq(Op)
    BY DEF TypeOK, Op
  <1> QED BY <1>1 DEF Rows

LEMMA CurrentIs == UType /\ pc \in {"wait", "record", "index", "entries"} =>
                     /\ Current \in todo /\ Current \in Rows /\ This \in Op
                     /\ \A h \in todo : h <= Current
  <1> SUFFICES ASSUME UType, pc \in {"wait", "record", "index", "entries"}
               PROVE  /\ Current \in todo /\ Current \in Rows /\ This \in Op
                      /\ \A h \in todo : h <= Current
    OBVIOUS
  <1>1. todo \subseteq Rows /\ todo # {}
    BY DEF UType, TypeOK, AtRow
  <1>2. todo \subseteq 1 .. Len(journal) /\ Len(journal) \in Nat
    BY <1>1, RowsAre DEF UType
  <1>3. Current \in todo /\ \A h \in todo : h <= Current
    BY <1>1, <1>2, GreatestIs DEF Current
  <1> QED BY <1>1, <1>3, RowsAre DEF This, UType

LEMMA FreeIs == ASSUME NEW d, NEW b \in Bases, FreeNumbers(d, b) # {}
                PROVE  /\ << b, Min(FreeNumbers(d, b)) >> \in Names
                       /\ d[<< b, Min(FreeNumbers(d, b)) >>] = Nothing
  <1>1. FreeNumbers(d, b) \subseteq Nat /\ FreeNumbers(d, b) \subseteq 1 .. MaxNum
    BY PlacesAssumption DEF FreeNumbers
  <1>2. Min(FreeNumbers(d, b)) \in FreeNumbers(d, b)
    BY <1>1, LeastIs
  <1> QED BY <1>1, <1>2 DEF FreeNumbers, Names

\* What a journal that grows by a row, or by two, has.
LEMMA Longer ==
    ASSUME TypeOK, NEW j \in Op, journal' = Append(journal, j)
    PROVE  /\ journal' \in Seq(Op)
           /\ Rows' = Rows \cup {Len(journal) + 1} /\ Len(journal) + 1 \notin Rows
           /\ \A h \in Rows : journal'[h] = journal[h]
           /\ journal'[Len(journal) + 1] = j
  <1>1. journal \in Seq(Op)
    BY DEF TypeOK, Op
  <1> QED BY <1>1 DEF Rows

LEMMA LongerByTwo ==
    ASSUME TypeOK, NEW j \in Op, NEW k \in Op, journal' = journal \o << j, k >>
    PROVE  /\ journal' \in Seq(Op)
           /\ Rows' = Rows \cup {Len(journal) + 1, Len(journal) + 2}
           /\ Len(journal) + 1 \notin Rows /\ Len(journal) + 2 \notin Rows
           /\ \A h \in Rows : journal'[h] = journal[h]
           /\ journal'[Len(journal) + 1] = j /\ journal'[Len(journal) + 2] = k
  <1>1. journal \in Seq(Op)
    BY DEF TypeOK, Op
  <1> QED BY <1>1 DEF Rows

LEMMA InitUType == Init => UType
  <1> SUFFICES ASSUME Init PROVE UType
    OBVIOUS
  <1>1. PICK s \in Start :
          /\ row = [f \in Files |-> << s[f], 1 >>]
          /\ disk = [m \in Names |->
                       IF \E f \in Files : m = << s[f], 1 >>
                       THEN CHOOSE f \in Files : m = << s[f], 1 >> ELSE Nothing]
    BY DEF Init
  <1>2. \A f \in Files : << s[f], 1 >> \in Names
    BY PlacesAssumption DEF Start, Names, Bases
  <1>3. row \in [Files -> Names]
    BY <1>1, <1>2
  <1>4. disk \in [Names -> Files \cup {Nothing, Foreign}]
    BY <1>1
  <1>5. journal \in Seq(Op)
    BY DEF Init
  <1>6. /\ plans \in 0 .. MaxPlans /\ undoing \in {0} \cup Plans
        /\ landed \in Names \cup {NoName}
        /\ others \in [Names -> {"none", "fresh", "claimed"}]
        /\ entry \in [Plans -> [Files -> {"none", "held", "restored"}]]
    BY PlacesAssumption DEF Init
  <1>7. /\ touched \subseteq Files /\ todo \subseteq Rows /\ cut \subseteq Rows /\ behind \subseteq Rows
        /\ raced \in BOOLEAN /\ unheard \in BOOLEAN /\ found \in BOOLEAN
        /\ pc = "idle"
    BY DEF Init
  <1> QED BY <1>3, <1>4, <1>5, <1>6, <1>7 DEF UType, TypeOK, AtRow, Op


\* A move a commit makes is a row of the journal.
LEMMA MoveIs ==
    ASSUME UType, plans < MaxPlans, NEW f \in Files, NEW b \in Bases, Possible(disk, f, b)
    PROVE  LET j == Move(disk, f, b)
           IN  /\ j \in Op /\ j.plan = plans + 1 /\ j.file = f /\ j.way = "forward"
               /\ j.from = row[f] /\ disk[j.from] = f
               /\ j.to[1] = b /\ disk[j.to] = Nothing /\ j.to # j.from
  <1>1. FreeNumbers(disk, b) # {} /\ row[f] \in Names /\ plans + 1 \in Plans
    BY PlacesAssumption DEF Possible, UType, TypeOK, Plans
  <1>2. /\ << b, Min(FreeNumbers(disk, b)) >> \in Names
        /\ disk[<< b, Min(FreeNumbers(disk, b)) >>] = Nothing
    BY <1>1, FreeIs
  <1> QED BY <1>1, <1>2 DEF Move, Op, Possible

\* Where a file that goes back lands: at a free name of the place it came from.
LEMMA LandsFree ==
    ASSUME UType, MoveBack
    PROVE  /\ landed' \in Names /\ disk[landed'] = Nothing
           /\ disk[This.to] = This.file /\ This.file \in Files /\ landed' # This.to
  <1>1. This \in Op
    BY CurrentIs DEF MoveBack
  <1>2. This.from \in Names /\ This.from[1] \in Bases /\ This.file \in Files
    BY <1>1 DEF Op, Names
  <1>3. FreeNumbers(disk, This.from[1]) # {}
    BY DEF MoveBack
  <1>4. landed' \in Names /\ disk[landed'] = Nothing
    BY <1>2, <1>3, FreeIs DEF MoveBack
  <1> QED BY <1>2, <1>4, PlacesAssumption DEF MoveBack

LEMMA NextUType == UType /\ [Next]_vars => UType'
  <1> SUFFICES ASSUME UType, [Next]_vars PROVE UType'
    OBVIOUS
  <1> USE DEF UType
  <1>t. TypeOK /\ AtRow
    OBVIOUS
  <1>j. journal \in Seq(Op)
    BY DEF TypeOK, Op
  <1>n. MaxPlans \in Nat
    BY PlacesAssumption
  <1>c. pc \in {"wait", "record", "index", "entries"} =>
          /\ Current \in todo /\ This \in Op /\ todo \ {Current} \subseteq Rows
    BY CurrentIs DEF TypeOK
  \* What most steps leave alone, and what they may do to the memory of the undo.
  <1>k. ASSUME UNCHANGED << disk, journal, plans, raced, unheard >>,
               row' \in [Files -> Names], others' \in [Names -> {"none", "fresh", "claimed"}],
               touched' \subseteq Files,
               entry' \in [Plans -> [Files -> {"none", "held", "restored"}]],
               pc' \in {"idle", "gate", "wait", "record", "index", "entries"},
               undoing' \in {0} \cup Plans, todo' \subseteq Rows, cut' \subseteq Rows,
               behind' \subseteq Rows,
               landed' \in Names \cup {NoName}, found' \in BOOLEAN, AtRow'
        PROVE  UType'
    BY <1>k, <1>t DEF TypeOK, Rows
  <1>f. ASSUME Forget
        PROVE  /\ pc' = "idle" /\ undoing' \in {0} \cup Plans /\ todo' \subseteq Rows
               /\ landed' \in Names \cup {NoName} /\ found' \in BOOLEAN /\ AtRow'
    BY <1>f DEF Forget, AtRow
  <1>o. ASSUME NextOne, pc \in {"wait", "record", "index", "entries"}
        PROVE  /\ pc' = "gate" /\ undoing' \in {0} \cup Plans /\ todo' \subseteq Rows
               /\ landed' \in Names \cup {NoName} /\ found' \in BOOLEAN /\ AtRow'
    BY <1>o, <1>c, <1>t DEF NextOne, AtRow, TypeOK
  <1>m. ASSUME NEW m \in Names, NEW to \in Names,
               NEW o \in [Names -> {"none", "fresh", "claimed"}], MoveRow(m, to, o)
        PROVE  /\ row' \in [Files -> Names] /\ touched' \subseteq Files
               /\ others' \in [Names -> {"none", "fresh", "claimed"}]
    BY <1>m, <1>t DEF MoveRow, TypeOK
  <1>r. ASSUME NEW m \in Names
        PROVE  Retired(m) \in [Names -> {"none", "fresh", "claimed"}]
    BY <1>t DEF Retired, TypeOK
  <1>1. ASSUME NEW f \in Files, NEW b \in Bases, Commit(f, b)
        PROVE  UType'
    <2> DEFINE j == Move(disk, f, b)
    <2>1. /\ j \in Op /\ j.plan = plans + 1 /\ j.file = f /\ j.plan \in Plans
          /\ j.from \in Names /\ j.to \in Names
      BY <1>1, MoveIs DEF Commit, Op
    <2>2. /\ disk' = After(disk, j) /\ row' = [row EXCEPT ![f] = j.to]
          /\ touched' = touched \ {f} /\ journal' = Append(journal, j)
          /\ plans' = plans + 1 /\ plans < MaxPlans
          /\ UNCHANGED << others, pc, undoing, todo, landed, found, cut, behind, unheard >>
          /\ raced' = (raced \/ pc = "wait")
      BY <1>1 DEF Commit, LockFree, memory
    <2> HIDE DEF j
    <2>3. Rows \subseteq Rows' /\ journal' \in Seq(Op)
      BY <1>t, <2>1, <2>2, Longer
    <2>4. entry' \in [Plans -> [Files -> {"none", "held", "restored"}]]
      <3>1. \/ entry' = entry \/ entry' = [entry EXCEPT ![j.plan][j.file] = "held"]
            \/ \E p \in Plans : entry' = [entry EXCEPT ![p][f] = "restored"]
        BY <1>1 DEF Commit, SetAside, j
      <3>2. entry \in [Plans -> [Files -> {"none", "held", "restored"}]]
        BY <1>t DEF TypeOK
      <3>3. CASE entry' = entry \/ entry' = [entry EXCEPT ![j.plan][j.file] = "held"]
        BY <3>2, <3>3, <2>1
      <3>4. CASE \E p \in Plans : entry' = [entry EXCEPT ![p][f] = "restored"]
        BY <3>2, <3>4
      <3> QED BY <3>1, <3>3, <3>4
    <2>5. disk' \in [Names -> Files \cup {Nothing, Foreign}] /\ row' \in [Files -> Names]
      BY <2>1, <2>2, <1>t DEF TypeOK, After
    <2>6. plans' \in 0 .. MaxPlans /\ raced' \in BOOLEAN /\ touched' \subseteq Files
      BY <2>2, <1>n, <1>t DEF TypeOK
    <2>7. todo' \subseteq Rows' /\ cut' \subseteq Rows' /\ behind' \subseteq Rows'
      BY <2>2, <2>3, <1>t DEF TypeOK
    <2>8. TypeOK'
      BY <2>2, <2>3, <2>4, <2>5, <2>6, <2>7, <1>t DEF TypeOK, Op
    <2>9. AtRow'
      BY <2>2, <1>t DEF AtRow
    <2> QED BY <2>8, <2>9
  <1>2. ASSUME NEW f \in Files, NEW g \in Files, NEW q \in Held, CommitSwap(f, g, q)
        PROVE  UType'
    <2> DEFINE j == Move(disk, f, q)
               k == [plan |-> plans + 1, file |-> g, way |-> "forward",
                     from |-> row[g], to |-> row[f]]
    <2>1. /\ j \in Op /\ j.file = f /\ j.plan = plans + 1 /\ j.plan \in Plans
          /\ j.from \in Names /\ j.to \in Names
      BY <1>2, MoveIs DEF CommitSwap, Op, Bases
    <2>2. k \in Op /\ k.file = g /\ k.from = row[g] /\ k.to = row[f] /\ plans + 1 \in Plans
      BY <1>2, <1>t, <1>n DEF CommitSwap, Op, TypeOK, Plans
    <2>3. /\ disk' = After(After(disk, j), k)
          /\ row' = [row EXCEPT ![f] = j.to, ![g] = k.to]
          /\ touched' = touched \ {f, g} /\ journal' = journal \o << j, k >>
          /\ plans' = plans + 1 /\ plans < MaxPlans
          /\ UNCHANGED << others, pc, undoing, todo, landed, found, cut, behind, unheard >>
          /\ raced' = (raced \/ pc = "wait")
      BY <1>2 DEF CommitSwap, LockFree, memory
    <2>4. entry' \in [Plans -> [Files -> {"none", "held", "restored"}]]
      <3>1. \/ entry' = entry \/ entry' = [entry EXCEPT ![j.plan][j.file] = "held"]
            \/ \E p \in Plans :
                  entry' = [entry EXCEPT ![plans + 1][f] = "held", ![p][g] = "restored"]
        BY <1>2 DEF CommitSwap, SetAside
      <3>2. entry \in [Plans -> [Files -> {"none", "held", "restored"}]]
            /\ plans + 1 \in Plans /\ j.plan \in Plans /\ j.file = f
        BY <2>1, <2>2, <1>t DEF TypeOK
      <3> HIDE DEF j, k
      <3>3. CASE entry' = entry
        BY <3>2, <3>3
      <3>4. CASE entry' = [entry EXCEPT ![j.plan][j.file] = "held"]
        BY <3>2, <3>4
      <3>5. ASSUME NEW p \in Plans,
                   entry' = [entry EXCEPT ![plans + 1][f] = "held", ![p][g] = "restored"]
            PROVE  entry' \in [Plans -> [Files -> {"none", "held", "restored"}]]
        BY <3>2, <3>5
      <3> QED BY <3>1, <3>3, <3>4, <3>5
    <2> HIDE DEF j, k
    <2>5. Rows \subseteq Rows' /\ journal' \in Seq(Op)
      BY <1>t, <2>1, <2>2, <2>3, LongerByTwo
    <2>6. disk' \in [Names -> Files \cup {Nothing, Foreign}] /\ row' \in [Files -> Names]
      BY <2>1, <2>2, <2>3, <1>t DEF TypeOK, After
    <2>7. plans' \in 0 .. MaxPlans /\ raced' \in BOOLEAN /\ touched' \subseteq Files
      BY <2>3, <1>n, <1>t DEF TypeOK
    <2>8. todo' \subseteq Rows' /\ cut' \subseteq Rows' /\ behind' \subseteq Rows'
      BY <2>3, <2>5, <1>t DEF TypeOK
    <2>9. TypeOK'
      BY <2>3, <2>4, <2>5, <2>6, <2>7, <2>8, <1>t DEF TypeOK, Op
    <2>10. AtRow'
      BY <2>3, <1>t DEF AtRow
    <2> QED BY <2>9, <2>10
  <1>3. ASSUME NEW p \in Plans, Press(p)
        PROVE  UType'
    BY <1>3, <1>t, <1>k DEF Press, TypeOK, AtRow, files, index, Forward
  <1>4. CASE Gate
    <2>1. CASE pc' = "wait" /\ UNCHANGED memory /\ todo # {}
      BY <1>4, <2>1, <1>t, <1>k DEF Gate, TypeOK, AtRow, files, index, memory
    <2>2. CASE Forget
      BY <1>4, <2>2, <1>t, <1>f, <1>k DEF Gate, TypeOK, files, index
    <2> QED BY <1>4, <2>1, <2>2 DEF Gate
  <1>5. CASE Busy \/ RefuseBack
    BY <1>5, <1>t, <1>o, <1>k DEF Busy, RefuseBack, TypeOK, files, index
  <1>6. CASE MoveBack
    <2>1. landed' \in Names /\ This \in Op
      BY <1>6, LandsFree, <1>c DEF MoveBack
    <2>2. disk' \in [Names -> Files \cup {Nothing, Foreign}]
      BY <1>6, <2>1, <1>t DEF MoveBack, Op, TypeOK
    <2>3. AtRow' /\ pc' = "record" /\ todo' \subseteq Rows /\ found' \in BOOLEAN
      BY <1>6, <2>1, <1>t DEF MoveBack, AtRow, TypeOK
    <2> QED BY <1>6, <2>1, <2>2, <2>3, <1>t DEF MoveBack, index, TypeOK, Rows
  <1>7. CASE FoundBack
    BY <1>7, <1>t, <1>c, <1>k DEF FoundBack, TypeOK, AtRow, files, index, Op
  <1>8. CASE CatchUp
    <2>1. This.to \in Names /\ This.from \in Names
          /\ Retired(This.from) \in [Names -> {"none", "fresh", "claimed"}]
      BY <1>8, <1>c, <1>r DEF CatchUp, Op
    <2>2. /\ UNCHANGED << disk, journal, entry, plans, raced, unheard >>
          /\ \/ NextOne /\ UNCHANGED << index, cut, behind >>
             \/ NextOne /\ others' = Retired(This.from) /\ UNCHANGED << row, touched, cut, behind >>
             \/ Raise(Retired(This.from))
             \/ /\ MoveRow(This.to, This.from, Retired(This.from))
                /\ behind' \subseteq behind /\ NextOne /\ UNCHANGED cut
      BY <1>8 DEF CatchUp, files
    <2>3. pc = "wait" /\ Current \in Rows
      BY <1>8, CurrentIs DEF CatchUp
    <2>4. CASE NextOne /\ UNCHANGED << index, cut, behind >>
      BY <2>2, <2>3, <2>4, <1>o, <1>k, <1>t DEF TypeOK, index
    <2>5. CASE NextOne /\ others' = Retired(This.from) /\ UNCHANGED << row, touched, cut, behind >>
      BY <2>1, <2>2, <2>3, <2>5, <1>o, <1>k, <1>t DEF TypeOK
    <2>6. CASE Raise(Retired(This.from))
      BY <2>1, <2>2, <2>3, <2>6, <1>f, <1>k, <1>t DEF TypeOK, Raise
    <2>7. CASE /\ MoveRow(This.to, This.from, Retired(This.from))
               /\ behind' \subseteq behind /\ NextOne /\ UNCHANGED cut
      BY <2>1, <2>2, <2>3, <2>7, <1>m, <1>o, <1>k, <1>t DEF TypeOK
    <2> QED BY <2>2, <2>4, <2>5, <2>6, <2>7
  <1>9. CASE Record
    <2> DEFINE u == [plan |-> This.plan, file |-> This.file, way |-> "back",
                     from |-> This.to, to |-> landed]
    <2>1. u \in Op
      BY <1>9, <1>c, <1>t DEF Record, Op, AtRow
    <2>2. journal' = Append(journal, u) /\ pc' = "index"
          /\ UNCHANGED << disk, row, others, touched, entry, plans, undoing, todo, landed,
                          found, cut, behind, raced, unheard >>
      BY <1>9 DEF Record, files, index, memory
    <2> HIDE DEF u
    <2>3. Rows \subseteq Rows' /\ journal' \in Seq(Op)
      BY <1>t, <2>1, <2>2, Longer
    <2>4. TypeOK'
      BY <2>2, <2>3, <1>t DEF TypeOK, Op
    <2>5. AtRow'
      BY <1>9, <2>2, <1>t DEF AtRow, Record
    <2> QED BY <2>4, <2>5
  <1>10. CASE Index
    <2> DEFINE o == IF found THEN Retired(landed) ELSE others
    <2>1. This.to \in Names /\ landed \in Names /\ pc = "index" /\ Current \in Rows
      BY <1>10, <1>c, <1>t, CurrentIs DEF Index, Op, AtRow
    <2>2. o \in [Names -> {"none", "fresh", "claimed"}]
      BY <2>1, <1>r, <1>t DEF TypeOK
    <2>3. /\ UNCHANGED << disk, journal, entry, plans, raced, unheard >>
          /\ \/ Raise(o)
             \/ /\ UNCHANGED index \/ MoveRow(This.to, landed, o)
                /\ behind' \subseteq behind \cup {Current} /\ pc' = "entries" /\ UNCHANGED << memory, cut >>
      BY <1>10 DEF Index, files
    <2> HIDE DEF o
    <2>4. CASE Raise(o)
      BY <2>1, <2>2, <2>3, <2>4, <1>f, <1>k, <1>t DEF TypeOK, Raise
    <2>5. CASE /\ UNCHANGED index \/ MoveRow(This.to, landed, o)
               /\ behind' \subseteq behind \cup {Current} /\ pc' = "entries" /\ UNCHANGED << memory, cut >>
      <3>1. /\ row' \in [Files -> Names] /\ touched' \subseteq Files
            /\ others' \in [Names -> {"none", "fresh", "claimed"}]
        BY <2>1, <2>2, <2>5, <1>m, <1>t DEF index, TypeOK
      <3>2. AtRow'
        BY <2>1, <2>5, <1>t DEF AtRow, memory
      <3>3. /\ behind' \subseteq Rows /\ pc' = "entries"
            /\ UNCHANGED << cut, undoing, todo, landed, found >>
        BY <2>1, <2>5, <1>t DEF memory, TypeOK
      <3> QED BY <2>3, <3>1, <3>2, <3>3, <1>k, <1>t DEF TypeOK
    <2> QED BY <2>3, <2>4, <2>5
  <1>11. CASE Entries
    <2>1. entry' \in [Plans -> [Files -> {"none", "held", "restored"}]]
      BY <1>11, <1>t DEF Entries, TypeOK
    <2>2. Current \in Rows /\ pc = "entries" /\ cut' \in {cut \cup {Current}, cut \ {Current}}
      BY <1>11, CurrentIs DEF Entries
    <2>3. cut' \subseteq Rows
      BY <2>2, <1>t DEF TypeOK
    <2> QED BY <1>11, <2>1, <2>2, <2>3, <1>o, <1>k, <1>t DEF Entries, TypeOK, files, index
  <1>12. CASE Crash
    <2>1. cut' \subseteq Rows /\ behind' \subseteq Rows /\ unheard' \in BOOLEAN
      <3>1. pc \in {"record", "index", "entries"} => Current \in Rows
        BY CurrentIs
      <3> QED BY <1>12, <3>1, <1>t DEF Crash, TypeOK
    <2> QED BY <1>12, <2>1, <1>f, <1>t DEF Crash, files, index, TypeOK, Rows
  <1>13. ASSUME NEW m \in Names, ByHand(m)
         PROVE  UType'
    <2>1. disk' \in [Names -> Files \cup {Nothing, Foreign}]
      BY <1>13, <1>t DEF ByHand, TypeOK
    <2> QED BY <1>13, <2>1, <1>t DEF ByHand, index, memory, TypeOK, AtRow, Rows
  <1>14. ASSUME NEW m \in Names, Claim(m)
         PROVE  UType'
    BY <1>14, <1>t, <1>k DEF Claim, Looks, files, memory, TypeOK, AtRow
  <1>15. CASE Scan
    BY <1>15, <1>t, <1>k DEF Scan, Looks, files, memory, TypeOK, AtRow
  <1>16. ASSUME NEW f \in Files, ScanTooSoon(f)
         PROVE  UType'
    BY <1>16, <1>t, <1>k DEF ScanTooSoon, Looks, files, memory, TypeOK, AtRow
  <1>17. CASE UNCHANGED vars
    BY <1>17, <1>t, <1>k DEF vars, files, index, memory, TypeOK, AtRow
  <1> QED BY <1>1, <1>2, <1>3, <1>4, <1>5, <1>6, <1>7, <1>8, <1>9, <1>10, <1>11, <1>12,
             <1>13, <1>14, <1>15, <1>16, <1>17 DEF Next, Reverse

LEMMA SpecUType == Spec => []UType
BY InitUType, NextUType, PTL DEF Spec

(* In any number of plans, presses and crashes every variable stays in its type. *)
THEOREM UndoTypes == Spec => []TypeOK
  <1>1. UType => TypeOK
    BY DEF UType
  <1> QED BY <1>1, SpecUType, PTL


-------------------------------------------------------------------------------
(* What an undo at work knows.                                             *)

UndoAt ==
    /\ pc # "idle" => todo \subseteq Forward(undoing)
    /\ (pc = "wait" /\ ~raced) => Clear(undoing)
    /\ pc = "record" => disk[landed] = This.file
    /\ pc \in {"index", "entries"} => Reversed(Current)

(* Where History is mistaken about a file: a reversal of it is between the rename and
   its row, or was killed there, and then is still to be found.                       *)
MistakenAbout(f) ==
    \/ pc = "record" /\ This.file = f
    \/ \E c \in cut : journal[c].file = f /\ ~Reversed(c)

Told ==
    hands \in Nat /\ ((hands = 0 /\ ~unheard) =>
        \A f \in Files : About(f) # {} =>
            StandsAt(f, journal[Max(About(f))].to) \/ MistakenAbout(f))

JInv == UType /\ UndoAt /\ Told


\* What depends on the journal alone.
LEMMA SameJournal ==
    ASSUME journal' = journal
    PROVE  /\ Rows' = Rows
           /\ \A h : Reversed(h)' <=> Reversed(h)
           /\ \A p : Forward(p)' = Forward(p) /\ (Clear(p)' <=> Clear(p))
           /\ \A f : About(f)' = About(f)
BY DEF Rows, Reversed, Forward, Clear, BuiltOn, Standing, About

\* What rows N that are new to the journal change of it.
LEMMA Grown ==
    ASSUME NEW N, Rows' = Rows \cup N, N \cap Rows = {},
           \A h \in Rows : journal'[h] = journal[h]
    PROVE  /\ \A p : Forward(p) \subseteq Forward(p)'
           /\ \A f : (\A n \in N : journal'[n].file # f) => About(f)' = About(f)
           /\ \A h \in Rows :
                 (\A n \in N : journal'[n].way = "back" =>
                                  journal'[n].file # journal[h].file)
                    => (Reversed(h)' <=> Reversed(h))
  <1>1. \A p : Forward(p) \subseteq Forward(p)'
    BY DEF Forward
  <1>2. \A f : (\A n \in N : journal'[n].file # f) => About(f)' = About(f)
    BY DEF About
  <1>3. ASSUME NEW h \in Rows,
               \A n \in N : journal'[n].way = "back" => journal'[n].file # journal[h].file
        PROVE  Reversed(h)' <=> Reversed(h)
    <2>1. Reversed(h)' => Reversed(h)
      BY <1>3 DEF Reversed
    <2>2. Reversed(h) => Reversed(h)'
      BY <1>3 DEF Reversed
    <2> QED BY <2>1, <2>2
  <1> QED BY <1>1, <1>2, <1>3

\* The rows two kinds of commit add, and the one an undo adds.
LEMMA CommitAdds ==
    ASSUME UType, NEW f \in Files, NEW b \in Bases, Commit(f, b)
    PROVE  LET j == Move(disk, f, b)
           IN  /\ Rows' = Rows \cup {Len(journal) + 1} /\ Len(journal) + 1 \notin Rows
               /\ \A h \in Rows : journal'[h] = journal[h]
               /\ journal'[Len(journal) + 1] = j
               /\ j.way = "forward" /\ j.file = f /\ disk' = After(disk, j)
               /\ disk[j.from] = f /\ disk[j.to] = Nothing /\ j.to # j.from
               /\ j.from \in Names /\ j.to \in Names /\ j.from = row[f]
  <1> DEFINE j == Move(disk, f, b)
  <1>1. /\ j \in Op /\ j.way = "forward" /\ j.file = f
        /\ disk[j.from] = f /\ disk[j.to] = Nothing /\ j.to # j.from /\ j.from = row[f]
    BY MoveIs DEF Commit
  <1>2. journal' = Append(journal, j) /\ disk' = After(disk, j)
    BY DEF Commit
  <1> HIDE DEF j
  <1>3. j.from \in Names /\ j.to \in Names
    BY <1>1 DEF Op
  <1>4. /\ Rows' = Rows \cup {Len(journal) + 1} /\ Len(journal) + 1 \notin Rows
        /\ \A h \in Rows : journal'[h] = journal[h]
        /\ journal'[Len(journal) + 1] = j
    BY <1>1, <1>2, Longer DEF UType
  <1> QED BY <1>1, <1>2, <1>3, <1>4 DEF j

LEMMA SwapAdds ==
    ASSUME UType, NEW f \in Files, NEW g \in Files, NEW q \in Held, CommitSwap(f, g, q)
    PROVE  LET j == Move(disk, f, q)
               k == [plan |-> plans + 1, file |-> g, way |-> "forward",
                     from |-> row[g], to |-> row[f]]
           IN  /\ Rows' = Rows \cup {Len(journal) + 1, Len(journal) + 2}
               /\ Len(journal) + 1 \notin Rows /\ Len(journal) + 2 \notin Rows
               /\ \A h \in Rows : journal'[h] = journal[h]
               /\ journal'[Len(journal) + 1] = j /\ journal'[Len(journal) + 2] = k
               /\ disk' = After(After(disk, j), k)
               /\ j.way = "forward" /\ j.file = f /\ f # g
               /\ disk[row[f]] = f /\ disk[row[g]] = g /\ disk[j.to] = Nothing
               /\ j.from = row[f] /\ j.to \in Names /\ row[f] \in Names /\ row[g] \in Names
               /\ j.to # row[f] /\ j.to # row[g] /\ row[f] # row[g]
  <1> DEFINE j == Move(disk, f, q)
             k == [plan |-> plans + 1, file |-> g, way |-> "forward",
                   from |-> row[g], to |-> row[f]]
  <1>1. /\ j \in Op /\ j.way = "forward" /\ j.file = f
        /\ disk[j.from] = f /\ disk[j.to] = Nothing /\ j.to # j.from /\ j.from = row[f]
    BY MoveIs DEF CommitSwap, Bases
  <1>2. /\ journal' = journal \o << j, k >> /\ disk' = After(After(disk, j), k)
        /\ f # g /\ disk[row[g]] = g /\ row[g] # j.to /\ row[g][1] # row[f][1]
    BY DEF CommitSwap
  <1>3. row[f] \in Names /\ row[g] \in Names /\ k \in Op
    BY PlacesAssumption DEF UType, TypeOK, Op, CommitSwap, Plans
  <1> HIDE DEF j, k
  <1>4. j.to \in Names
    BY <1>1 DEF Op
  <1>5. /\ Rows' = Rows \cup {Len(journal) + 1, Len(journal) + 2}
        /\ Len(journal) + 1 \notin Rows /\ Len(journal) + 2 \notin Rows
        /\ \A h \in Rows : journal'[h] = journal[h]
        /\ journal'[Len(journal) + 1] = j /\ journal'[Len(journal) + 2] = k
    BY <1>1, <1>2, <1>3, LongerByTwo DEF UType
  <1> QED BY <1>1, <1>2, <1>3, <1>4, <1>5 DEF j, k

LEMMA RecordAdds ==
    ASSUME UType, Record
    PROVE  /\ Rows' = Rows \cup {Len(journal) + 1} /\ Len(journal) + 1 \notin Rows
           /\ \A h \in Rows : journal'[h] = journal[h]
           /\ journal'[Len(journal) + 1] =
                 [plan |-> This.plan, file |-> This.file, way |-> "back",
                  from |-> This.to, to |-> landed]
           /\ Current \in Rows /\ This \in Op /\ Len(journal) + 1 > Current
  <1> DEFINE u == [plan |-> This.plan, file |-> This.file, way |-> "back",
                   from |-> This.to, to |-> landed]
  <1>1. Current \in Rows /\ This \in Op /\ landed \in Names
    BY CurrentIs DEF Record, UType, AtRow
  <1>2. u \in Op /\ journal' = Append(journal, u)
    BY <1>1 DEF Record, Op
  <1> HIDE DEF u
  <1>3. /\ Rows' = Rows \cup {Len(journal) + 1} /\ Len(journal) + 1 \notin Rows
        /\ \A h \in Rows : journal'[h] = journal[h]
        /\ journal'[Len(journal) + 1] = u
    BY <1>2, Longer DEF UType
  <1>4. Len(journal) + 1 > Current
    BY <1>1, RowsAre DEF UType
  <1> QED BY <1>1, <1>3, <1>4 DEF u


\* Only a commit and the record of a reversal write History.
LEMMA Writers ==
    ASSUME [Next]_vars
    PROVE  \/ \E f \in Files, b \in Bases : Commit(f, b)
           \/ \E f, g \in Files, q \in Held : CommitSwap(f, g, q)
           \/ Record
           \/ journal' = journal
BY DEF Next, Reverse, Press, Gate, Busy, MoveBack, FoundBack, RefuseBack, CatchUp, Index,
       Entries, Crash, ByHand, Claim, Scan, ScanTooSoon, Looks, vars

LEMMA InitUndoAt == Init => UndoAt
BY DEF Init, UndoAt

LEMMA NextUndoAt == UType /\ UndoAt /\ [Next]_vars => UndoAt'
  <1> SUFFICES ASSUME UType, UndoAt, [Next]_vars PROVE UndoAt'
    OBVIOUS
  <1>1. ASSUME NEW N, Rows' = Rows \cup N, N \cap Rows = {},
               \A h \in Rows : journal'[h] = journal[h],
               pc \in {"idle", "gate", "wait"}, raced' = (raced \/ pc = "wait"),
               UNCHANGED << pc, undoing, todo >>
        PROVE  UndoAt'
    <2>1. \A p : Forward(p) \subseteq Forward(p)'
      BY <1>1, Grown
    <2> QED BY <1>1, <2>1 DEF UndoAt
  <1>2. ASSUME NEW f \in Files, NEW b \in Bases, Commit(f, b)
        PROVE  UndoAt'
    <2>1. /\ Rows' = Rows \cup {Len(journal) + 1} /\ {Len(journal) + 1} \cap Rows = {}
          /\ \A h \in Rows : journal'[h] = journal[h]
      BY <1>2, CommitAdds
    <2>2. /\ pc \in {"idle", "gate", "wait"} /\ raced' = (raced \/ pc = "wait")
          /\ UNCHANGED << pc, undoing, todo >>
      BY <1>2 DEF Commit, LockFree, memory
    <2> QED BY <2>1, <2>2, <1>1
  <1>3. ASSUME NEW f \in Files, NEW g \in Files, NEW q \in Held, CommitSwap(f, g, q)
        PROVE  UndoAt'
    <2> DEFINE N == {Len(journal) + 1, Len(journal) + 2}
    <2>1. /\ Rows' = Rows \cup N /\ N \cap Rows = {}
          /\ \A h \in Rows : journal'[h] = journal[h]
      <3>1. /\ Rows' = Rows \cup {Len(journal) + 1, Len(journal) + 2}
            /\ Len(journal) + 1 \notin Rows /\ Len(journal) + 2 \notin Rows
            /\ \A h \in Rows : journal'[h] = journal[h]
        BY <1>3, SwapAdds
      <3> QED BY <3>1
    <2>2. /\ pc \in {"idle", "gate", "wait"} /\ raced' = (raced \/ pc = "wait")
          /\ UNCHANGED << pc, undoing, todo >>
      BY <1>3 DEF CommitSwap, LockFree, memory
    <2> HIDE DEF N
    <2> QED BY <2>1, <2>2, <1>1
  <1>4. CASE Record
    <2> DEFINE n == Len(journal) + 1
    <2>1. /\ Rows' = Rows \cup {n} /\ n \notin Rows /\ n > Current
          /\ \A h \in Rows : journal'[h] = journal[h]
          /\ journal'[n].plan = This.plan /\ journal'[n].file = This.file
          /\ journal'[n].way = "back" /\ Current \in Rows
      BY <1>4, RecordAdds
    <2>2. pc' = "index" /\ todo' = todo /\ undoing' = undoing /\ pc = "record"
      BY <1>4 DEF Record, memory
    <2>3. \A p : Forward(p) \subseteq Forward(p)'
      <3> HIDE DEF n
      <3>1. Rows' = Rows \cup {n} /\ {n} \cap Rows = {}
        BY <2>1
      <3> QED BY <2>1, <3>1, Grown
    <2>4. Current' = Current /\ journal'[Current] = This
      BY <2>1, <2>2 DEF Current, This
    <2> HIDE DEF n
    <2>5. Reversed(Current)'
      BY <2>1, <2>4 DEF Reversed
    <2> QED BY <2>2, <2>3, <2>5 DEF UndoAt
  <1>5. CASE journal' = journal
    <2>1. /\ Rows' = Rows
          /\ \A h : Reversed(h)' <=> Reversed(h)
          /\ \A p : Forward(p)' = Forward(p) /\ (Clear(p)' <=> Clear(p))
      BY <1>5, SameJournal
    <2> DEFINE Same == UNCHANGED << pc, undoing, todo, raced >>
    <2>2. Same /\ pc # "record" => UndoAt'
      <3> SUFFICES ASSUME Same, pc # "record" PROVE UndoAt'
        OBVIOUS
      <3>1. Current' = Current
        BY DEF Current
      <3> QED BY <2>1, <3>1 DEF UndoAt
    <2>3. NextOne /\ pc # "idle" => UndoAt'
      BY <2>1 DEF NextOne, UndoAt
    <2>4. Forget => UndoAt'
      BY DEF Forget, UndoAt
    <2>5. ASSUME NEW p \in Plans, Press(p)
          PROVE  UndoAt'
      BY <2>1, <2>5 DEF Press, UndoAt
    <2>6. CASE Gate
      <3>1. CASE Forget
        BY <2>4, <3>1
      <3>2. CASE Clear(undoing) /\ pc' = "wait" /\ UNCHANGED memory
        BY <2>1, <2>6, <3>2 DEF Gate, memory, UndoAt
      <3> QED BY <2>6, <3>1, <3>2 DEF Gate
    <2>7. CASE Busy \/ RefuseBack \/ Entries
      BY <2>3, <2>7 DEF Busy, RefuseBack, Entries
    <2>8. CASE MoveBack \/ FoundBack
      <3>1. pc = "wait" /\ pc' = "record" /\ UNCHANGED << undoing, todo >>
        BY <2>8 DEF MoveBack, FoundBack
      <3>2. This' = This
        BY <3>1, <1>5 DEF This, Current
      <3>3. disk'[landed'] = This.file
        <4>1. CASE MoveBack
          <5>1. landed' \in Names /\ disk' = [disk EXCEPT ![This.to] = Nothing,
                                                          ![landed'] = This.file]
            BY <4>1, LandsFree DEF MoveBack
          <5> QED BY <5>1 DEF UType, TypeOK
        <4>2. CASE FoundBack
          BY <4>2 DEF FoundBack, files
        <4> QED BY <2>8, <4>1, <4>2
      <3> QED BY <2>1, <3>1, <3>2, <3>3 DEF UndoAt
    <2>9. CASE CatchUp
      <3>1. pc # "idle" /\ (NextOne \/ Forget)
        BY <2>9 DEF CatchUp, Raise
      <3> QED BY <3>1, <2>3, <2>4
    <2>10. CASE Index
      <3>1. CASE Forget
        BY <2>4, <3>1
      <3>2. CASE pc' = "entries" /\ UNCHANGED memory
        <4>1. pc = "index" /\ Current' = Current
          BY <2>10, <3>2 DEF Index, memory, Current
        <4> QED BY <2>1, <3>2, <4>1 DEF UndoAt, memory
      <3> QED BY <2>10, <3>1, <3>2 DEF Index, Raise
    <2>11. CASE Crash
      BY <2>4, <2>11 DEF Crash
    <2>12. ASSUME NEW m \in Names, ByHand(m)
           PROVE  UndoAt'
      BY <2>2, <2>12 DEF ByHand, memory
    <2>13. ASSUME (\E m \in Names : Claim(m)) \/ Scan \/ \E f \in Files : ScanTooSoon(f)
           PROVE  UndoAt'
      BY <2>2, <2>13 DEF Claim, Scan, ScanTooSoon, Looks, memory
    <2>14. CASE UNCHANGED vars
      <3>1. Current' = Current /\ This' = This
        BY <2>14 DEF vars, memory, Current, This
      <3> QED BY <2>1, <2>14, <3>1 DEF UndoAt, vars, memory, files
    <2> QED BY <2>5, <2>6, <2>7, <2>8, <2>9, <2>10, <2>11, <2>12, <2>13, <2>14,
               <1>2, <1>3, <1>4 DEF Next, Reverse
  <1> QED BY <1>2, <1>3, <1>4, <1>5, Writers

LEMMA SpecUndoAt == Spec => [](UType /\ UndoAt)
  <1>1. Init => UType /\ UndoAt
    BY InitUType, InitUndoAt
  <1>2. UType /\ UndoAt /\ [Next]_vars => (UType /\ UndoAt)'
    BY NextUType, NextUndoAt
  <1> QED BY <1>1, <1>2, PTL DEF Spec


(* Whatever was killed, found again or renumbered before, a reversal that History gains
   names an address where the file stands.                                            *)
THEOREM ReversalsAreTrue == Spec => TrueReversal
  <1> DEFINE True == \A h \in DOMAIN journal' \ Rows :
                        journal'[h].way = "back" => disk'[journal'[h].to] = journal'[h].file
  <1>1. ASSUME UType, UndoAt, [Next]_vars
        PROVE  True
    <2>1. ASSUME NEW f \in Files, NEW b \in Bases, Commit(f, b)
          PROVE  True
      <3> DEFINE n == Len(journal) + 1
      <3>1. DOMAIN journal' = Rows \cup {n} /\ journal'[n].way = "forward"
        BY <1>1, <2>1, CommitAdds DEF Rows
      <3> QED BY <3>1
    <2>2. ASSUME NEW f \in Files, NEW g \in Files, NEW q \in Held, CommitSwap(f, g, q)
          PROVE  True
      <3> DEFINE n == Len(journal) + 1
                 k == Len(journal) + 2
      <3>1. DOMAIN journal' = Rows \cup {n, k}
        BY <1>1, <2>2, SwapAdds DEF Rows
      <3>2. journal'[n].way = "forward" /\ journal'[k].way = "forward"
        <4> DEFINE j == Move(disk, f, q)
                   l == [plan |-> plans + 1, file |-> g, way |-> "forward",
                         from |-> row[g], to |-> row[f]]
        <4>1. journal'[n] = j /\ j.way = "forward" /\ journal'[k] = l
          BY <1>1, <2>2, SwapAdds
        <4> QED BY <4>1
      <3> QED BY <3>1, <3>2
    <2>3. CASE Record
      <3> DEFINE n == Len(journal) + 1
      <3>1. DOMAIN journal' = Rows \cup {n}
        BY <1>1, <2>3, RecordAdds DEF Rows
      <3>2. journal'[n].to = landed /\ journal'[n].file = This.file
        BY <1>1, <2>3, RecordAdds
      <3>3. disk'[landed] = This.file
        BY <1>1, <2>3 DEF Record, UndoAt, files
      <3> QED BY <3>1, <3>2, <3>3
    <2>4. CASE journal' = journal
      BY <2>4 DEF Rows
    <2> QED BY <1>1, <2>1, <2>2, <2>3, <2>4, Writers
  <1>2. UType /\ UndoAt /\ [Next]_vars => [True]_vars
    BY <1>1
  <1> HIDE DEF True
  <1>3. Spec => [][True]_vars
    BY <1>2, SpecUndoAt, PTL DEF Spec
  <1> QED BY <1>3 DEF TrueReversal, True

\* Only MoveBack, on its way from the check to the record, takes a file from anywhere.
LEMMA TakenBack ==
    ASSUME UType, [Next]_vars, NEW f \in Files, TakesBack(f)
    PROVE  MoveBack /\ This.file = f
  <1>1. PICK m \in Names : disk[m] = f /\ ~(disk'[m] = f)
    BY DEF TakesBack, StandsAt
  <1>2. pc = "wait" /\ pc' = "record"
    BY DEF TakesBack
  <1>3. MoveBack \/ FoundBack
    BY <1>2 DEF Next, Reverse, Commit, CommitSwap, LockFree, Press, Gate, Busy, RefuseBack,
                CatchUp, Record, Index, Entries, Raise, Forget, NextOne, Crash, ByHand,
                Claim, Scan, ScanTooSoon, Looks, vars
  <1>4. MoveBack
    BY <1>1, <1>3 DEF FoundBack, files
  <1>5. /\ disk[This.to] = This.file /\ disk[landed'] = Nothing /\ landed' # This.to
        /\ disk' = [disk EXCEPT ![This.to] = Nothing, ![landed'] = This.file]
    BY <1>4, LandsFree DEF MoveBack
  <1>6. m = This.to
    BY <1>1, <1>5, PlacesAssumption DEF UType, TypeOK
  <1> QED BY <1>1, <1>4, <1>5, <1>6

(* As long as no command comes between the check and the lock, an undo of an operation
   for the first time takes back no file that a later decision, which stands, has moved:
   whatever was committed since it was pressed. *)
THEOREM NewerIsNotReversed == Spec => NewerStandsOnce
  <1> DEFINE Good == raced \/ \A f \in Files :
                        ~(TakesBack(f) /\ LaterDecision(f) /\ ~Reversed(Current))
  <1>1. ASSUME UType, UndoAt, [Next]_vars
        PROVE  Good
    <2> SUFFICES ASSUME ~raced, NEW f \in Files, TakesBack(f), LaterDecision(f),
                        ~Reversed(Current)
                 PROVE  FALSE
      OBVIOUS
    <2>1. This.file = f /\ pc = "wait"
      BY <1>1, TakenBack DEF MoveBack
    <2>2. Clear(undoing) /\ todo \subseteq Forward(undoing) /\ Current \in todo
      BY <1>1, <2>1, CurrentIs DEF UndoAt
    <2>3. Current \in Forward(undoing) \cap Standing
      BY <2>2 DEF Forward, Standing
    <2>4. BuiltOn(Current) = {}
      BY <2>2, <2>3 DEF Clear
    <2>5. PICK k \in About(f) \cap Standing : k > Current /\ journal[k].plan # undoing
      BY DEF LaterDecision
    <2>6. journal[Current].plan = undoing /\ journal[Current].file = f
      BY <2>1, <2>2 DEF Forward, This
    <2>7. k \in BuiltOn(Current)
      BY <2>5, <2>6 DEF BuiltOn, About
    <2> QED BY <2>4, <2>7
  <1>2. UType /\ UndoAt /\ [Next]_vars => [Good]_vars
    BY <1>1
  <1> HIDE DEF Good
  <1>3. Spec => [][Good]_vars
    BY <1>2, SpecUndoAt, PTL DEF Spec
  <1> QED BY <1>3 DEF NewerStandsOnce, Good


-------------------------------------------------------------------------------
(* What History says of a file, and where it is.                           *)

LEMMA RowsAbout ==
    ASSUME UType, NEW f, About(f) # {}
    PROVE  Max(About(f)) \in About(f) /\ Max(About(f)) \in Rows
  <1>1. Len(journal) \in Nat /\ About(f) \subseteq 1 .. Len(journal)
    BY RowsAre DEF UType, About
  <1>2. Max(About(f)) \in About(f)
    BY <1>1, GreatestIs
  <1> QED BY <1>2 DEF About

\* The newest row about a file is the last that a journal gains about it.
LEMMA NewestIs ==
    ASSUME UType, NEW n \in Nat, NEW f, NEW M, Rows' = Rows \cup M, n \in M,
           M \subseteq Nat, \A m \in M : journal'[m].file = f => m = n,
           \A h \in Rows : h < n, journal'[n].file = f
    PROVE  Max(About(f)') = n
  <1>1. About(f)' \subseteq Nat
    <2>1. Rows \subseteq Nat
      BY RowsAre DEF UType
    <2> QED BY <2>1 DEF About
  <1>2. n \in About(f)' /\ \A h \in About(f)' : h <= n
    <2>1. n \in Rows' /\ \A h \in Rows' : h \in Rows \/ h \in M
      OBVIOUS
    <2>2. \A h \in Rows : h \in Nat
      BY RowsAre DEF UType
    <2> QED BY <2>1, <2>2 DEF About
  <1> QED BY <1>1, <1>2, MaxIs

LEMMA InitTold == Init => Told
BY DEF Init, Told, About, Rows

\* A file whose newest row a step leaves, and which it does not move.
LEMMA StillTold ==
    ASSUME UType, NEW f, About(f) # {}, About(f)' = About(f),
           \A h \in Rows : journal'[h] = journal[h],
           StandsAt(f, journal[Max(About(f))].to),
           \A m \in Names : disk[m] = f => disk'[m] = f
    PROVE  StandsAt(f, journal[Max(About(f))].to)'
  <1>1. Max(About(f))' = Max(About(f)) /\ Max(About(f)) \in Rows
    BY RowsAbout
  <1>2. journal[Max(About(f))].to \in Names
    BY <1>1, RowsAre DEF UType, Op
  <1> QED BY <1>1, <1>2 DEF StandsAt

\* The acts of people are counted, and a reversal History missed is not forgotten.
LEMMA Counted ==
    ASSUME [Next]_vars
    PROVE  /\ hands' = hands \/ hands' = hands + 1
           /\ unheard' = unheard \/ unheard' = (unheard \/ (pc = "record" /\ Reversed(Current)))
  <1>1. ASSUME NEW f \in Files, NEW b \in Bases, Commit(f, b)
        PROVE  hands' = hands /\ unheard' = unheard
    BY <1>1 DEF Commit, counts
  <1>2. ASSUME NEW f \in Files, NEW g \in Files, NEW q \in Held, CommitSwap(f, g, q)
        PROVE  hands' = hands /\ unheard' = unheard
    BY <1>2 DEF CommitSwap, counts
  <1>3. ASSUME Reverse \/ (\E p \in Plans : Press(p)) \/ UNCHANGED vars
        PROVE  hands' = hands /\ unheard' = unheard
    BY <1>3 DEF Reverse, Press, Gate, Busy, MoveBack, FoundBack, RefuseBack, CatchUp, Record,
                Index, Entries, counts, vars
  <1>4. CASE Crash
    BY <1>4 DEF Crash
  <1>5. ASSUME NEW m \in Names, ByHand(m) \/ Claim(m)
        PROVE  (hands' = hands \/ hands' = hands + 1) /\ unheard' = unheard
    BY <1>5 DEF ByHand, Claim, Looks
  <1>6. ASSUME Scan \/ \E f \in Files : ScanTooSoon(f)
        PROVE  hands' = hands /\ unheard' = unheard
    BY <1>6 DEF Scan, ScanTooSoon, Looks
  <1> QED BY <1>1, <1>2, <1>3, <1>4, <1>5, <1>6 DEF Next

LEMMA NextTold == UType /\ UndoAt /\ Told /\ [Next]_vars => Told'
  <1> SUFFICES ASSUME UType, UndoAt, Told, [Next]_vars PROVE Told'
    OBVIOUS
  <1> DEFINE Fine(f) == StandsAt(f, journal[Max(About(f))].to) \/ MistakenAbout(f)
  <1>h. hands' \in Nat /\ (hands' = 0 => hands = 0) /\ (unheard => unheard')
    <2>1. hands' \in Nat /\ (hands' = 0 => hands = 0)
      BY Counted DEF Told
    <2>2. unheard => unheard'
      BY Counted, Zenon
    <2> QED BY <2>1, <2>2
  <1> SUFFICES ASSUME hands' = 0, ~unheard', NEW f \in Files, About(f)' # {}
               PROVE  Fine(f)'
    BY <1>h DEF Told
  <1>f. About(f) # {} => Fine(f)
    BY <1>h DEF Told
  <1>i. hands = 0
    BY <1>h
  <1>p. /\ f \in Files /\ f # Nothing /\ disk \in [Names -> Files \cup {Nothing, Foreign}]
    BY PlacesAssumption DEF UType, TypeOK
  <1> HIDE DEF Fine
  \* A step that gives History no row about f, and leaves f and its killed reversals.
  <1>s. ASSUME About(f)' = About(f), \A h \in Rows : journal'[h] = journal[h],
               \A m \in Names : disk[m] = f => disk'[m] = f,
               \A h \in Rows : journal[h].file = f => (Reversed(h)' <=> Reversed(h)),
               pc = "record" => This.file # f,
               \A c \in cut : c \in cut' \/ Reversed(c)
        PROVE  Fine(f)'
    <2>1. CASE StandsAt(f, journal[Max(About(f))].to)
      BY <1>s, <2>1, StillTold DEF Fine
    <2>2. CASE MistakenAbout(f)
      <3>1. PICK c \in cut : journal[c].file = f /\ ~Reversed(c)
        BY <1>s, <2>2 DEF MistakenAbout
      <3>2. c \in Rows /\ c \in cut'
        BY <1>s, <3>1 DEF UType, TypeOK
      <3>3. journal'[c].file = f /\ ~Reversed(c)'
        BY <1>s, <3>1, <3>2
      <3> QED BY <3>2, <3>3 DEF Fine, MistakenAbout
    <2> QED BY <1>f, <1>s, <2>1, <2>2 DEF Fine
  <1>1. ASSUME NEW g \in Files, NEW b \in Bases, Commit(g, b)
        PROVE  Fine(f)'
    <2> DEFINE n == Len(journal) + 1
               j == Move(disk, g, b)
    <2>1. /\ Rows' = Rows \cup {n} /\ n \notin Rows
          /\ \A h \in Rows : journal'[h] = journal[h]
          /\ journal'[n] = j
          /\ j.way = "forward" /\ j.file = g /\ disk' = After(disk, j)
          /\ disk[j.from] = g /\ disk[j.to] = Nothing /\ j.to # j.from
          /\ j.from \in Names /\ j.to \in Names
      BY <1>1, CommitAdds
    <2>2. n \in Nat /\ \A h \in Rows : h < n
      BY RowsAre DEF UType
    <2>3. cut' = cut /\ pc \in {"idle", "gate", "wait"}
      BY <1>1 DEF Commit, LockFree
    <2> HIDE DEF n, j
    <2>4. CASE f = g
      <3>1. Max(About(f)') = n
        <4>1. {n} \subseteq Nat /\ n \in {n} /\ journal'[n].file = f
          BY <2>1, <2>2, <2>4
        <4> QED BY <2>1, <2>2, <4>1, NewestIs
      <3>2. disk'[j.to] = f
        BY <2>1, <2>4, <1>p DEF After
      <3> QED BY <2>1, <3>1, <3>2 DEF Fine, StandsAt
    <2>5. CASE f # g
      <3>1. \A m \in Names : disk[m] = f => disk'[m] = f
        BY <2>1, <2>5, <1>p DEF After
      <3>2. {n} \cap Rows = {} /\ \A m \in {n} : journal'[m].file # f /\ journal'[m].way # "back"
        BY <2>1, <2>5
      <3>3. About(f)' = About(f)
        BY <2>1, <3>2 DEF About
      <3>4. \A h \in Rows : Reversed(h)' <=> Reversed(h)
        BY <2>1, <3>2, Grown
      <3> QED BY <2>1, <2>3, <3>1, <3>3, <3>4, <1>s
    <2> QED BY <2>4, <2>5
  <1>2. ASSUME NEW g \in Files, NEW k \in Files, NEW q \in Held, CommitSwap(g, k, q)
        PROVE  Fine(f)'
    <2> DEFINE n == Len(journal) + 1
               o == Len(journal) + 2
               j == Move(disk, g, q)
               l == [plan |-> plans + 1, file |-> k, way |-> "forward",
                     from |-> row[k], to |-> row[g]]
    <2>1. /\ Rows' = Rows \cup {n, o} /\ n \notin Rows /\ o \notin Rows
          /\ \A h \in Rows : journal'[h] = journal[h]
          /\ journal'[n] = j /\ journal'[o] = l
          /\ disk' = After(After(disk, j), l)
          /\ j.way = "forward" /\ j.file = g /\ g # k
          /\ disk[row[g]] = g /\ disk[row[k]] = k /\ disk[j.to] = Nothing
          /\ j.from = row[g] /\ j.to \in Names /\ row[g] \in Names /\ row[k] \in Names
          /\ j.to # row[g] /\ j.to # row[k] /\ row[g] # row[k]
      BY <1>2, SwapAdds
    <2>2. n \in Nat /\ o \in Nat /\ n # o /\ \A h \in Rows : h < n /\ h < o
      BY RowsAre DEF UType
    <2>3. cut' = cut /\ pc \in {"idle", "gate", "wait"}
      BY <1>2 DEF CommitSwap, LockFree
    <2>4. l.way = "forward" /\ l.file = k /\ l.from = row[k] /\ l.to = row[g]
      OBVIOUS
    <2> HIDE DEF n, o, j, l
    <2>5. \A m \in Names : disk'[m] = IF m = row[k] THEN Nothing
                                      ELSE IF m = row[g] THEN k
                                      ELSE IF m = j.to THEN g ELSE disk[m]
      BY <2>1, <2>4, <1>p DEF After
    <2>6. CASE f = g
      <3>1. Max(About(f)') = n
        <4>1. {n, o} \subseteq Nat /\ n \in {n, o} /\ journal'[n].file = f
              /\ \A m \in {n, o} : journal'[m].file = f => m = n
          BY <2>1, <2>2, <2>4, <2>6
        <4> QED BY <2>1, <2>2, <4>1, NewestIs
      <3>2. disk'[j.to] = f
        BY <2>1, <2>5, <2>6
      <3> QED BY <2>1, <3>1, <3>2 DEF Fine, StandsAt
    <2>7. CASE f = k
      <3>1. Max(About(f)') = o
        <4>1. {n, o} \subseteq Nat /\ o \in {n, o} /\ journal'[o].file = f
              /\ \A m \in {n, o} : journal'[m].file = f => m = o
          BY <2>1, <2>2, <2>4, <2>7
        <4> QED BY <2>1, <2>2, <4>1, NewestIs
      <3>2. disk'[l.to] = f
        BY <2>1, <2>4, <2>5, <2>7
      <3> QED BY <2>1, <3>1, <3>2 DEF Fine, StandsAt
    <2>8. CASE f # g /\ f # k
      <3>1. \A m \in Names : disk[m] = f => disk'[m] = f
        BY <2>1, <2>4, <2>8, <1>p DEF After
      <3>2. {n, o} \cap Rows = {}
            /\ \A m \in {n, o} : journal'[m].file # f /\ journal'[m].way # "back"
        BY <2>1, <2>4, <2>8
      <3>3. About(f)' = About(f)
        BY <2>1, <3>2 DEF About
      <3>4. \A h \in Rows : Reversed(h)' <=> Reversed(h)
        BY <2>1, <3>2, Grown
      <3> QED BY <2>1, <2>3, <3>1, <3>3, <3>4, <1>s
    <2> QED BY <2>6, <2>7, <2>8
  <1>3. CASE Record
    <2> DEFINE n == Len(journal) + 1
    <2>1. /\ Rows' = Rows \cup {n} /\ n \notin Rows
          /\ \A h \in Rows : journal'[h] = journal[h]
          /\ journal'[n].file = This.file /\ journal'[n].to = landed
      BY <1>3, RecordAdds
    <2>2. n \in Nat /\ \A h \in Rows : h < n
      BY RowsAre DEF UType
    <2>3. cut' = cut /\ disk' = disk /\ disk[landed] = This.file
      BY <1>3 DEF Record, files, UndoAt
    <2> HIDE DEF n
    <2>4. CASE f = This.file
      <3>1. Max(About(f)') = n
        <4>1. {n} \subseteq Nat /\ n \in {n} /\ journal'[n].file = f
          BY <2>1, <2>2, <2>4
        <4> QED BY <2>1, <2>2, <4>1, NewestIs
      <3> QED BY <2>1, <2>3, <2>4, <3>1 DEF Fine, StandsAt
    <2>5. CASE f # This.file
      <3>1. {n} \cap Rows = {} /\ journal'[n].file # f
        BY <2>1, <2>5
      <3>2. About(f)' = About(f)
            /\ \A h \in Rows : journal[h].file = f => (Reversed(h)' <=> Reversed(h))
        BY <2>1, <3>1, Grown
      <3> QED BY <2>1, <2>3, <2>5, <3>2, <1>s
    <2> QED BY <2>4, <2>5
  <1>4. CASE journal' = journal
    <2>1. About(f)' = About(f) /\ (\A h : Reversed(h)' <=> Reversed(h)) /\ Rows' = Rows
      BY <1>4, SameJournal
    <2>2. ASSUME disk' = disk, pc # "record", \A c \in cut : c \in cut' \/ Reversed(c)
          PROVE  Fine(f)'
      BY <1>4, <2>1, <2>2, <1>s
    <2>3. CASE MoveBack
      <3>1. /\ pc = "wait" /\ pc' = "record" /\ UNCHANGED << undoing, todo, cut >>
            /\ disk' = [disk EXCEPT ![This.to] = Nothing, ![landed'] = This.file]
        BY <2>3 DEF MoveBack
      <3>2. This' = This
        BY <3>1, <1>4 DEF This, Current
      <3>3. /\ disk[This.to] = This.file /\ disk[landed'] = Nothing /\ landed' \in Names
        BY <2>3, LandsFree
      <3>4. CASE This.file = f
        BY <3>1, <3>2, <3>4 DEF Fine, MistakenAbout
      <3>5. CASE This.file # f
        <4>1. \A m \in Names : disk[m] = f => disk'[m] = f
          BY <3>1, <3>3, <3>5, <1>p
        <4> QED BY <1>4, <2>1, <3>1, <3>5, <4>1, <1>s
      <3> QED BY <3>4, <3>5
    <2>4. CASE Crash
      <3>0. unheard' = (unheard \/ (pc = "record" /\ Reversed(Current)))
            /\ disk' = disk /\ cut \subseteq cut' /\ (pc = "record" => Current \in cut')
        BY <2>4 DEF Crash, files
      <3>1. disk' = disk /\ cut \subseteq cut' /\ (pc = "record" => Current \in cut')
            /\ ~(pc = "record" /\ Reversed(Current))
        BY <3>0, Zenon
      <3>2. CASE pc = "record" /\ This.file = f
        <4>1. Current \in cut' /\ ~Reversed(Current)
          BY <3>1, <3>2
        <4>2. journal'[Current].file = f /\ ~Reversed(Current) 
          BY <1>4, <3>2, <4>1 DEF This
        <4>3. \E c \in cut' : journal'[c].file = f /\ ~Reversed(c)'
          BY <2>1, <4>1, <4>2
        <4> QED BY <4>3 DEF Fine, MistakenAbout
      <3>3. CASE ~(pc = "record" /\ This.file = f)
        BY <1>4, <2>1, <3>1, <3>3, <1>s
      <3> QED BY <3>2, <3>3
    <2>5. CASE Index \/ CatchUp \/ Entries
      <3>1. disk' = disk /\ pc # "record" /\ Reversed(Current)
        BY <2>5 DEF Index, CatchUp, Entries, files, UndoAt
      <3>2. cut' = cut \/ cut' = cut \cup {Current} \/ cut' = cut \ {Current}
        BY <2>5 DEF Index, CatchUp, Entries, Raise
      <3> QED BY <3>1, <3>2, <2>2
    <2>6. ASSUME NEW m \in Names, ByHand(m)
          PROVE  FALSE
      BY <2>6, <1>i DEF ByHand
    <2>7. ASSUME \/ \E p \in Plans : Press(p)
                 \/ Gate \/ Busy \/ FoundBack \/ RefuseBack
                 \/ \E m \in Names : Claim(m)
                 \/ Scan \/ \E g \in Files : ScanTooSoon(g)
          PROVE  Fine(f)'
      <3>1. disk' = disk /\ pc # "record" /\ cut' = cut
        BY <2>7 DEF Press, Gate, Busy, FoundBack, RefuseBack, Claim, Scan,
                    ScanTooSoon, Looks, files
      <3> QED BY <3>1, <2>2
    <2>8. CASE UNCHANGED vars
      <3>1. UNCHANGED << disk, journal, cut, pc, This, About(f), Rows >>
        BY <2>8 DEF vars, memory, files, This, Current, About, Rows
      <3>2. UNCHANGED Fine(f)
        BY <2>1, <3>1 DEF Fine, StandsAt, MistakenAbout
      <3> QED BY <1>f, <3>1, <3>2
    <2> QED BY <2>3, <2>4, <2>5, <2>6, <2>7, <2>8, <1>1, <1>2, <1>3 DEF Next, Reverse
  <1> QED BY <1>1, <1>2, <1>3, <1>4, Writers

LEMMA SpecJInv == Spec => []JInv
  <1>1. Init => JInv
    BY InitUType, InitUndoAt, InitTold DEF JInv
  <1>2. JInv /\ [Next]_vars => JInv'
    BY NextUType, NextUndoAt, NextTold DEF JInv
  <1> QED BY <1>1, <1>2, PTL DEF Spec

(* However many decisions are committed and undone, and wherever an undo is killed: once
   every killed undo has been found again, what History says last of a file is where the
   file is. *)
THEOREM HistoryKnows == Spec => []JournalKnows
  <1>1. JInv => JournalKnows
    BY DEF JInv, Told, MistakenAbout, JournalKnows, Heard, Idle
  <1> QED BY <1>1, SpecJInv, PTL


-------------------------------------------------------------------------------
(* Where the decisions that stand say a file is.                           *)

\* A plan is about a file once, and takes it from one place to another.
RowsOnce ==
    /\ plans \in Nat
    /\ \A h \in Rows : /\ journal[h].plan <= plans
                       /\ journal[h].way = "forward" =>
                             journal[h].from[1] # journal[h].to[1]
    /\ \A h, k \in Rows :
          /\ journal[h].way = "forward" /\ journal[k].way = "forward"
          /\ journal[h].plan = journal[k].plan /\ journal[h].file = journal[k].file
          => h = k

\* A file is at one name, as long as no person copies what the journal moves.
OneName == hands = 0 => \A m, n \in Names : disk[m] \in Files /\ disk[m] = disk[n] => m = n

\* The decisions whose file is where they put it or was moved on from there: those that
\* stand, but for the one being reversed and those a killed undo has reversed.
InFlight == IF pc = "record" THEN {Current} ELSE {}
Left == Standing \ (cut \cup InFlight)

\* The rows of journal j about file f; the decisions of S about the same file as row h
\* and before it; the place at which decisions S leave file f.
RowsOf(j, f) == {h \in DOMAIN j : j[h].file = f}
Under(j, S, h) == {k \in S : k < h /\ j[k].file = j[h].file}
Seat(j, f, S) == IF S = {} THEN j[Min(RowsOf(j, f))].from[1] ELSE j[Max(S)].to[1]

(* The decisions left about a file are a pile: each that stands took it from where the
   ones under it had left it, and the file is where the topmost has.                  *)
Piled ==
    /\ \A h \in Standing :
          journal[h].from[1] = Seat(journal, journal[h].file, Under(journal, Left, h))
    /\ \A f \in Files, m \in Names :
          disk[m] = f /\ RowsOf(journal, f) # {} =>
             m[1] = Seat(journal, f, Left \cap RowsOf(journal, f))

\* What StandingHolds leaves out, and a second reversal on its way to the journal.
Sound ==
    /\ hands = 0 /\ ~raced /\ ~unheard /\ ~TwiceReversed
    /\ ~(pc = "record" /\ Reversed(Current))

PInv == RowsOnce /\ OneName /\ (Sound => Piled)


LEMMA InitPInv == Init => PInv
  <1> SUFFICES ASSUME Init PROVE PInv
    OBVIOUS
  <1>1. Rows = {} /\ journal = << >> /\ plans = 0
    BY DEF Init, Rows
  <1>2. RowsOnce
    BY <1>1 DEF RowsOnce
  <1>3. OneName
    <2>1. PICK s \in Start :
            disk = [m \in Names |-> IF \E f \in Files : m = << s[f], 1 >>
                                    THEN CHOOSE f \in Files : m = << s[f], 1 >> ELSE Nothing]
      BY DEF Init
    <2>2. \A m \in Names : disk[m] \in Files => disk[m] \in Files /\ m = << s[disk[m]], 1 >>
      BY <2>1, PlacesAssumption
    <2> QED BY <2>2 DEF OneName
  <1>4. Piled
    BY <1>1 DEF Piled, Standing, RowsOf
  <1> QED BY <1>2, <1>3, <1>4 DEF PInv

LEMMA NextRowsOnce == UType /\ RowsOnce /\ [Next]_vars => RowsOnce'
  <1> SUFFICES ASSUME UType, RowsOnce, [Next]_vars PROVE RowsOnce'
    OBVIOUS
  <1>n. \A h \in Rows : journal[h].plan \in Nat
    BY RowsAre, PlacesAssumption DEF UType, Op, Plans
  <1>1. ASSUME NEW f \in Files, NEW b \in Bases, Commit(f, b)
        PROVE  RowsOnce'
    <2> DEFINE n == Len(journal) + 1
               j == Move(disk, f, b)
    <2>1. /\ Rows' = Rows \cup {n} /\ n \notin Rows
          /\ \A h \in Rows : journal'[h] = journal[h]
          /\ journal'[n] = j
      BY <1>1, CommitAdds
    <2>2. j.plan = plans + 1 /\ plans' = plans + 1 /\ j.from[1] # j.to[1]
      <3>1. j.plan = plans + 1 /\ j.from = row[f] /\ j.to[1] = b
        BY <1>1, MoveIs DEF Commit
      <3>2. b # row[f][1] /\ plans' = plans + 1
        BY <1>1 DEF Commit, Possible
      <3> QED BY <3>1, <3>2
    <2> HIDE DEF n, j
    <2>3. plans' \in Nat /\ \A h \in Rows : journal[h].plan < plans'
      BY <2>2, <1>n DEF RowsOnce
    <2> QED BY <2>1, <2>2, <2>3, <1>n DEF RowsOnce
  <1>2. ASSUME NEW f \in Files, NEW g \in Files, NEW q \in Held, CommitSwap(f, g, q)
        PROVE  RowsOnce'
    <2> DEFINE n == Len(journal) + 1
               o == Len(journal) + 2
               j == Move(disk, f, q)
               l == [plan |-> plans + 1, file |-> g, way |-> "forward",
                     from |-> row[g], to |-> row[f]]
    <2>1. /\ Rows' = Rows \cup {n, o} /\ n \notin Rows /\ o \notin Rows
          /\ \A h \in Rows : journal'[h] = journal[h]
          /\ journal'[n] = j /\ journal'[o] = l /\ j.file = f /\ f # g
      BY <1>2, SwapAdds
    <2>2. j.plan = plans + 1 /\ plans' = plans + 1 /\ j.from[1] # j.to[1]
          /\ row[g][1] # row[f][1]
      <3>1. j.plan = plans + 1 /\ j.from = row[f] /\ j.to[1] = q
        BY <1>2, MoveIs DEF CommitSwap, Bases
      <3>2. q # row[f][1] /\ plans' = plans + 1 /\ row[g][1] # row[f][1]
        BY <1>2 DEF CommitSwap, Possible
      <3> QED BY <3>1, <3>2
    <2>3. l.plan = plans + 1 /\ l.file = g /\ l.from[1] # l.to[1]
      BY <2>2
    <2>4. n # o
      BY RowsAre DEF UType
    <2> HIDE DEF n, o, j, l
    <2>5. plans' \in Nat /\ \A h \in Rows : journal[h].plan < plans'
      BY <2>2, <1>n DEF RowsOnce
    <2>6. journal'[n].file # journal'[o].file
      BY <2>1, <2>3
    <2>7. \A h \in Rows' : /\ journal'[h].plan <= plans'
                           /\ journal'[h].way = "forward" =>
                                 journal'[h].from[1] # journal'[h].to[1]
      BY <2>1, <2>2, <2>3, <2>5, <1>n DEF RowsOnce
    <2>8. ASSUME NEW h \in Rows', NEW k \in Rows',
                 journal'[h].way = "forward", journal'[k].way = "forward",
                 journal'[h].plan = journal'[k].plan, journal'[h].file = journal'[k].file
          PROVE  h = k
      <3>1. CASE h \in Rows /\ k \in Rows
        BY <2>1, <2>8, <3>1 DEF RowsOnce
      <3>2. CASE h \in {n, o} /\ k \in {n, o}
        BY <2>6, <2>8, <3>2
      <3>3. \A m \in {n, o} : journal'[m].plan = plans'
        BY <2>1, <2>2, <2>3
      <3>4. \A m \in Rows : journal'[m].plan # plans'
        <4>1. \A m \in Rows : journal'[m].plan \in Nat /\ journal'[m].plan < plans'
          BY <2>1, <2>5, <1>n
        <4> QED BY <2>5, <4>1
      <3>5. h \in {n, o} <=> journal'[h].plan = plans'
        BY <2>1, <3>3, <3>4
      <3>6. k \in {n, o} <=> journal'[k].plan = plans'
        BY <2>1, <3>3, <3>4
      <3> QED BY <2>1, <2>8, <3>1, <3>2, <3>5, <3>6
    <2> QED BY <2>5, <2>7, <2>8 DEF RowsOnce
  <1>3. CASE Record
    <2> DEFINE n == Len(journal) + 1
    <2>1. /\ Rows' = Rows \cup {n} /\ n \notin Rows
          /\ \A h \in Rows : journal'[h] = journal[h]
          /\ journal'[n].plan = This.plan /\ journal'[n].way = "back" /\ Current \in Rows
      BY <1>3, RecordAdds
    <2>2. plans' = plans
      BY <1>3 DEF Record
    <2> HIDE DEF n
    <2> QED BY <2>1, <2>2 DEF RowsOnce, This
  <1>4. CASE journal' = journal
    <2>1. plans' = plans \/ (\E f \in Files, b \in Bases : Commit(f, b))
          \/ (\E f, g \in Files, q \in Held : CommitSwap(f, g, q))
      BY DEF Next, Reverse, Press, Gate, Busy, MoveBack, FoundBack, RefuseBack, CatchUp,
             Record, Index, Entries, Crash, ByHand, Claim, Scan, ScanTooSoon, Looks, vars
    <2> QED BY <1>1, <1>2, <1>4, <2>1 DEF RowsOnce, Rows
  <1> QED BY <1>1, <1>2, <1>3, <1>4, Writers

\* Who moves files.
LEMMA Movers ==
    ASSUME [Next]_vars
    PROVE  \/ \E f \in Files, b \in Bases : Commit(f, b)
           \/ \E f, g \in Files, q \in Held : CommitSwap(f, g, q)
           \/ MoveBack
           \/ \E m \in Names : ByHand(m)
           \/ disk' = disk
BY DEF Next, Reverse, Press, Gate, Busy, Record, FoundBack, RefuseBack, CatchUp, Index,
       Entries, Crash, Claim, Scan, ScanTooSoon, Looks, vars, files

LEMMA NextOneName == UType /\ OneName /\ Told /\ [Next]_vars => OneName'
  <1> SUFFICES ASSUME UType, OneName, Told, [Next]_vars, hands' = 0
               PROVE  \A m, n \in Names : disk'[m] \in Files /\ disk'[m] = disk'[n] => m = n
    BY DEF OneName
  <1>h. hands = 0
    BY Counted DEF Told
  <1>o. \A m, n \in Names : disk[m] \in Files /\ disk[m] = disk[n] => m = n
    BY <1>h DEF OneName
  <1>p. Nothing \notin Files /\ disk \in [Names -> Files \cup {Nothing, Foreign}]
    BY PlacesAssumption DEF UType, TypeOK
  <1>1. ASSUME NEW f \in Files, NEW from \in Names, NEW to \in Names, disk[from] = f,
               disk[to] = Nothing, disk' = [disk EXCEPT ![from] = Nothing, ![to] = f]
        PROVE  \A m, n \in Names : disk'[m] \in Files /\ disk'[m] = disk'[n] => m = n
    BY <1>1, <1>o, <1>p
  <1>2. ASSUME NEW f \in Files, NEW b \in Bases, Commit(f, b)
        PROVE  \A m, n \in Names : disk'[m] \in Files /\ disk'[m] = disk'[n] => m = n
    <2> DEFINE j == Move(disk, f, b)
    <2>1. /\ disk[j.from] = f /\ disk[j.to] = Nothing
          /\ j.from \in Names /\ j.to \in Names
          /\ disk' = [disk EXCEPT ![j.from] = Nothing, ![j.to] = f]
      BY <1>2, CommitAdds DEF After
    <2> HIDE DEF j
    <2> QED BY <2>1, <1>1
  <1>3. ASSUME NEW f \in Files, NEW g \in Files, NEW q \in Held, CommitSwap(f, g, q)
        PROVE  \A m, n \in Names : disk'[m] \in Files /\ disk'[m] = disk'[n] => m = n
    <2> DEFINE j == Move(disk, f, q)
               l == [plan |-> plans + 1, file |-> g, way |-> "forward",
                     from |-> row[g], to |-> row[f]]
    <2>1. /\ disk' = After(After(disk, j), l)
          /\ j.file = f /\ f # g
          /\ disk[row[f]] = f /\ disk[row[g]] = g /\ disk[j.to] = Nothing
          /\ j.from = row[f] /\ j.to \in Names /\ row[f] \in Names /\ row[g] \in Names
          /\ j.to # row[f] /\ j.to # row[g] /\ row[f] # row[g]
      BY <1>3, SwapAdds
    <2>2. l.file = g /\ l.from = row[g] /\ l.to = row[f]
      OBVIOUS
    <2> HIDE DEF j, l
    <2>3. \A m \in Names : disk'[m] = IF m = row[g] THEN Nothing
                                      ELSE IF m = row[f] THEN g
                                      ELSE IF m = j.to THEN f ELSE disk[m]
      BY <2>1, <2>2, <1>p DEF After
    <2> QED BY <2>1, <2>3, <1>o, <1>p
  <1>4. CASE MoveBack
    <2>1. This \in Op
      BY <1>4, CurrentIs DEF MoveBack
    <2>2. This.to \in Names /\ This.file \in Files
      BY <2>1 DEF Op
    <2>3. /\ landed' \in Names /\ disk[landed'] = Nothing /\ disk[This.to] = This.file
          /\ disk' = [disk EXCEPT ![This.to] = Nothing, ![landed'] = This.file]
      BY <1>4, LandsFree DEF MoveBack
    <2> QED BY <2>2, <2>3, <1>1
  <1>5. ASSUME NEW m \in Names, ByHand(m)
        PROVE  FALSE
    BY <1>5, <1>h DEF ByHand
  <1> QED BY <1>2, <1>3, <1>4, <1>5, <1>o, Movers


LEMMA Extends ==
    ASSUME UType, [Next]_vars
    PROVE  Rows \subseteq Rows' /\ \A h \in Rows : journal'[h] = journal[h]
  <1>1. ASSUME NEW f \in Files, NEW b \in Bases, Commit(f, b)
        PROVE  Rows \subseteq Rows' /\ \A h \in Rows : journal'[h] = journal[h]
    <2>1. Rows' = Rows \cup {Len(journal) + 1} /\ \A h \in Rows : journal'[h] = journal[h]
      BY <1>1, CommitAdds
    <2> QED BY <2>1
  <1>2. ASSUME NEW f \in Files, NEW g \in Files, NEW q \in Held, CommitSwap(f, g, q)
        PROVE  Rows \subseteq Rows' /\ \A h \in Rows : journal'[h] = journal[h]
    <2>1. Rows' = Rows \cup {Len(journal) + 1, Len(journal) + 2}
          /\ \A h \in Rows : journal'[h] = journal[h]
      BY <1>2, SwapAdds
    <2> QED BY <2>1
  <1>3. CASE Record
    BY <1>3, RecordAdds
  <1>4. CASE journal' = journal
    BY <1>4 DEF Rows
  <1> QED BY <1>1, <1>2, <1>3, <1>4, Writers

\* What is left out once stays left out.
LEMMA SoundBefore ==
    ASSUME UType, Told, [Next]_vars, Sound'
    PROVE  Sound
  <1>1. hands = 0
    BY Counted DEF Told, Sound
  <1>2. ~unheard
    <2>1. ~unheard' /\ (unheard' = unheard
             \/ unheard' = (unheard \/ (pc = "record" /\ Reversed(Current))))
      BY Counted DEF Sound
    <2> QED BY <2>1, Zenon
  <1>3. ~raced
    <2>1. raced' = raced \/ raced' = (raced \/ pc = "wait")
      <3>1. ASSUME NEW f \in Files, NEW b \in Bases, Commit(f, b)
            PROVE  raced' = (raced \/ pc = "wait")
        BY <3>1 DEF Commit, LockFree
      <3>2. ASSUME NEW f \in Files, NEW g \in Files, NEW q \in Held, CommitSwap(f, g, q)
            PROVE  raced' = (raced \/ pc = "wait")
        BY <3>2 DEF CommitSwap, LockFree
      <3>3. CASE Reverse \/ Crash \/ (\E p \in Plans : Press(p)) \/ UNCHANGED vars
        BY <3>3 DEF Reverse, Press, Gate, Busy, MoveBack, FoundBack, RefuseBack, CatchUp,
                    Record, Index, Entries, Crash, vars
      <3>4. CASE Scan \/ (\E m \in Names : ByHand(m) \/ Claim(m))
                 \/ (\E f \in Files : ScanTooSoon(f))
        BY <3>4 DEF ByHand, Claim, Scan, ScanTooSoon, Looks
      <3> QED BY <3>1, <3>2, <3>3, <3>4 DEF Next
    <2>2. ~raced'
      BY DEF Sound
    <2> QED BY <2>1, <2>2, Zenon
  <1>4. ~TwiceReversed
    <2>1. TwiceReversed => TwiceReversed'
      BY Extends DEF TwiceReversed
    <2> QED BY <2>1 DEF Sound
  <1>5. ~(pc = "record" /\ Reversed(Current))
    <2> SUFFICES ASSUME pc = "record", Reversed(Current) PROVE FALSE
      OBVIOUS
    <2>1. Record \/ Crash \/ UNCHANGED vars
      BY DEF Next, Reverse, Commit, CommitSwap, LockFree, Press, Gate, Busy, MoveBack,
             FoundBack, RefuseBack, CatchUp, Index, Entries, ByHand, Claim, Scan,
             ScanTooSoon, Looks
    <2>2. CASE Record
      <3> DEFINE n == Len(journal) + 1
      <3>1. /\ n \in Rows' /\ n \notin Rows /\ journal'[n].way = "back"
            /\ journal'[n].plan = This.plan /\ journal'[n].file = This.file
        BY <2>2, RecordAdds
      <3> HIDE DEF n
      <3>2. PICK u \in Rows : /\ journal[u].way = "back" /\ journal[u].plan = This.plan
                              /\ journal[u].file = This.file
        BY DEF Reversed, This
      <3>3. u \in Rows' /\ journal'[u] = journal[u] /\ u # n
        BY <3>1, <3>2, Extends
      <3>4. TwiceReversed'
        BY <3>1, <3>2, <3>3 DEF TwiceReversed
      <3> QED BY <3>4 DEF Sound
    <2>3. CASE Crash
      <3>1. unheard' = (unheard \/ (pc = "record" /\ Reversed(Current)))
        BY <2>3 DEF Crash
      <3>2. ~unheard'
        BY DEF Sound
      <3> QED BY <3>1, <3>2, Zenon
    <2>4. CASE UNCHANGED vars
      <3>1. pc' = "record" /\ journal' = journal /\ Current' = Current
        BY <2>4 DEF vars, memory, Current
      <3>2. Reversed(Current)'
        BY <3>1 DEF Reversed, Rows
      <3> QED BY <3>1, <3>2 DEF Sound
    <2> QED BY <2>1, <2>2, <2>3, <2>4
  <1> QED BY <1>1, <1>2, <1>3, <1>4, <1>5 DEF Sound

\* Where decisions leave a file depends on the rows they are and on the oldest about it.
LEMMA SeatSame ==
    ASSUME UType, \A h \in Rows : journal'[h] = journal[h],
           NEW f, RowsOf(journal, f) # {}, RowsOf(journal, f) \subseteq RowsOf(journal', f),
           RowsOf(journal', f) \subseteq Nat,
           \A h \in RowsOf(journal', f) : h \in RowsOf(journal, f) \/ \A r \in Rows : r < h,
           NEW S, S \subseteq Rows
    PROVE  Seat(journal', f, S) = Seat(journal, f, S)
  <1> DEFINE A == RowsOf(journal, f)
             B == RowsOf(journal', f)
  <1>r. Len(journal) \in Nat /\ Rows = 1 .. Len(journal) /\ Rows \subseteq Nat
    BY RowsAre DEF UType
  <1>a. A \subseteq Rows
    BY DEF RowsOf, Rows
  <1>b. \A h \in B : h \in A \/ \A r \in Rows : r < h
    OBVIOUS
  <1>c. A \subseteq B /\ A # {} /\ B \subseteq Nat
    OBVIOUS
  <1> HIDE DEF A, B
  <1>1. Min(A) \in A /\ \A y \in A : Min(A) <= y
    BY <1>a, <1>r, <1>c, LeastIs
  <1>2. Min(B) \in B /\ \A y \in B : Min(B) <= y
    BY <1>c, LeastIs
  <1>3. Min(B) = Min(A)
    <2>1. Min(A) \in Nat /\ Min(B) \in Nat /\ Min(B) <= Min(A)
      BY <1>1, <1>2, <1>c
    <2>2. Min(B) \in A
      BY <1>1, <1>2, <1>a, <1>b, <2>1
    <2> QED BY <1>1, <2>1, <2>2
  <1>4. S # {} => Max(S) \in S
    BY <1>r, GreatestIs
  <1>5. journal'[Min(A)] = journal[Min(A)] /\ (S # {} => journal'[Max(S)] = journal[Max(S)])
    BY <1>a, <1>1, <1>4
  <1> QED BY <1>3, <1>5 DEF Seat, A, B

\* The rows a step writes.
Gained == DOMAIN journal' \ Rows

\* The pile under what one commit adds: rows Gained, each about a file it moves.
LEMMA PileGrows ==
    ASSUME UType, Piled,
           Gained \subseteq Nat, Rows' = Rows \cup Gained, \A n \in Gained : \A h \in Rows : h < n,
           \A h \in Rows : journal'[h] = journal[h],
           \A n \in Gained : /\ journal'[n].way = "forward" /\ journal'[n].file \in Files
                        /\ journal'[n].from \in Names
                        /\ disk[journal'[n].from] = journal'[n].file,
           \A n, m \in Gained : journal'[n].file = journal'[m].file => n = m,
           \A n \in Gained, m \in Names : disk'[m] = journal'[n].file => m = journal'[n].to,
           \A f \in Files, m \in Names :
              (\A n \in Gained : journal'[n].file # f) /\ disk'[m] = f => disk[m] = f,
           pc \in {"idle", "gate", "wait"}, pc' = pc, cut' = cut
    PROVE  Piled'
  <1>l. Len(journal) \in Nat /\ Rows = 1 .. Len(journal) /\ Rows \subseteq Nat
    BY RowsAre DEF UType
  <1>n. Gained \cap Rows = {}
    BY <1>l
  <1>d. DOMAIN journal = Rows /\ DOMAIN journal' = Rows \cup Gained
    BY DEF Rows
  <1>1. \A h \in Rows : Reversed(h)' <=> Reversed(h)
    <2>1. \A n \in Gained : journal'[n].way # "back"
      OBVIOUS
    <2> QED BY <1>n, <2>1, Grown
  <1>2. \A n \in Gained : ~Reversed(n)'
    <2>1. \A n \in Gained, u \in Rows' : journal'[u].way = "back" => u \in Rows
      OBVIOUS
    <2>2. \A n \in Gained, u \in Rows : n \in Nat /\ u \in Nat /\ u < n
      BY <1>l
    <2>3. \A n \in Gained, u \in Rows : ~(u > n)
      BY <2>2
    <2> QED BY <2>1, <2>3 DEF Reversed
  <1>3. Standing' = Standing \cup Gained
    <2>1. \A h \in Rows : h \in Standing' <=> h \in Standing
      BY <1>1 DEF Standing
    <2>2. \A n \in Gained : n \in Standing'
      BY <1>2 DEF Standing
    <2>3. Standing \subseteq Rows /\ Standing' \subseteq Rows \cup Gained
      BY DEF Standing
    <2> QED BY <2>1, <2>2, <2>3
  <1>4. Left' = Left \cup Gained /\ Left \subseteq Rows
    <2>1. cut \subseteq Rows
      BY DEF UType, TypeOK
    <2>2. InFlight = {} /\ InFlight' = {}
      BY DEF InFlight
    <2>3. Left = Standing \ cut /\ Left' = Standing' \ cut'
      BY <2>2 DEF Left
    <2> QED BY <1>3, <1>n, <2>1, <2>3 DEF Standing
  <1>a. ASSUME NEW f
        PROVE  /\ RowsOf(journal', f) = RowsOf(journal, f) \cup {n \in Gained : journal'[n].file = f}
               /\ RowsOf(journal, f) \subseteq Rows
    BY <1>d DEF RowsOf
  <1>s. ASSUME NEW f, RowsOf(journal, f) # {}, NEW S, S \subseteq Rows
        PROVE  Seat(journal', f, S) = Seat(journal, f, S)
    <2>1. \A n \in Gained : n \in Nat /\ \A r \in Rows : r < n
      OBVIOUS
    <2>2. /\ RowsOf(journal, f) \subseteq RowsOf(journal', f)
          /\ RowsOf(journal', f) \subseteq Nat
          /\ \A h \in RowsOf(journal', f) : h \in RowsOf(journal, f) \/ \A r \in Rows : r < h
      BY <1>a, <1>l, <2>1
    <2> QED BY <2>2, <1>s, SeatSame
  <1>5. ASSUME NEW h \in Standing
        PROVE  journal'[h].from[1] = Seat(journal', journal'[h].file, Under(journal', Left', h))
    <2>1. h \in Rows /\ journal'[h] = journal[h]
      BY DEF Standing
    <2>2. Under(journal', Left', h) = Under(journal, Left, h) /\ Under(journal, Left, h) \subseteq Rows
      <3>1. \A k \in Gained : ~(k < h)
        <4>1. \A k \in Gained : k \in Nat /\ h \in Nat /\ h < k
          BY <1>l, <2>1
        <4> QED BY <4>1
      <3>2. \A k \in Left : journal'[k] = journal[k]
        BY <1>4
      <3> QED BY <1>4, <2>1, <3>1, <3>2 DEF Under
    <2>3. RowsOf(journal, journal[h].file) # {}
      BY <1>d, <2>1 DEF RowsOf
    <2>4. Seat(journal', journal[h].file, Under(journal, Left, h)) =
             Seat(journal, journal[h].file, Under(journal, Left, h))
      BY <1>s, <2>2, <2>3
    <2>5. journal[h].from[1] = Seat(journal, journal[h].file, Under(journal, Left, h))
      BY DEF Piled
    <2> QED BY <2>1, <2>2, <2>4, <2>5
  <1>6. ASSUME NEW n \in Gained
        PROVE  journal'[n].from[1] = Seat(journal', journal'[n].file, Under(journal', Left', n))
    <2> DEFINE f == journal'[n].file
    <2>f. f \in Files /\ journal'[n].from \in Names /\ disk[journal'[n].from] = f
      OBVIOUS
    <2>1. Under(journal', Left', n) = Left \cap RowsOf(journal, f)
      <3>1. \A k \in Left : k < n /\ journal'[k] = journal[k]
        BY <1>4
      <3>2. \A k \in Gained : journal'[k].file = f => k = n
        OBVIOUS
      <3>3. ~(n < n)
        OBVIOUS
      <3>4. \A k \in Left : k \in RowsOf(journal, f) <=> journal[k].file = f
        BY <1>d, <1>4 DEF RowsOf
      <3>5. Under(journal', Left', n) = {k \in Left' : k < n /\ journal'[k].file = f}
        BY DEF Under
      <3> HIDE DEF f
      <3>6. {k \in Left' : k < n /\ journal'[k].file = f} = {k \in Left : journal[k].file = f}
        BY <1>4, <3>1, <3>2, <3>3
      <3> QED BY <3>4, <3>5, <3>6
    <2>u. Under(journal', Left', n) \subseteq Rows
      BY <1>4, <2>1
    <2>2. CASE RowsOf(journal, f) = {}
      <3>1. RowsOf(journal', f) = {n}
        <4>1. {k \in Gained : journal'[k].file = f} = {n}
          OBVIOUS
        <4> QED BY <1>a, <2>2, <4>1
      <3>2. Min({n}) = n
        BY LeastIs
      <3>3. Under(journal', Left', n) = {}
        BY <2>1, <2>2
      <3> QED BY <3>1, <3>2, <3>3 DEF Seat
    <2>3. CASE RowsOf(journal, f) # {}
      <3>1. Seat(journal', f, Left \cap RowsOf(journal, f)) =
               Seat(journal, f, Left \cap RowsOf(journal, f))
        BY <1>4, <1>s, <2>3
      <3>2. journal'[n].from[1] = Seat(journal, f, Left \cap RowsOf(journal, f))
        BY <2>3, <2>f DEF Piled
      <3> QED BY <2>1, <3>1, <3>2
    <2> QED BY <2>2, <2>3
  <1>7. ASSUME NEW f \in Files, NEW m \in Names, disk'[m] = f, RowsOf(journal', f) # {}
        PROVE  m[1] = Seat(journal', f, Left' \cap RowsOf(journal', f))
    <2>1. CASE \E n \in Gained : journal'[n].file = f
      <3>1. PICK n \in Gained : journal'[n].file = f
        BY <2>1
      <3>2. m = journal'[n].to
        BY <1>7, <3>1
      <3> DEFINE T == Left' \cap RowsOf(journal', f)
      <3>3. n \in T /\ \A h \in T : h = n \/ h \in Rows
        <4>1. n \in RowsOf(journal', f) /\ n \in Left'
          BY <1>4, <1>a, <3>1
        <4>2. \A h \in RowsOf(journal', f) : h \in Rows \/ (h \in Gained /\ journal'[h].file = f)
          BY <1>a
        <4> QED BY <3>1, <4>1, <4>2
      <3> HIDE DEF T
      <3>4. T \subseteq Nat /\ \A h \in T : h <= n
        <4>1. \A h \in Rows : h \in Nat /\ h <= n
          BY <1>l, <3>1
        <4> QED BY <3>3, <4>1
      <3>5. Max(T) = n
        BY <3>3, <3>4, MaxIs
      <3> QED BY <3>2, <3>3, <3>5 DEF Seat, T
    <2>2. CASE \A n \in Gained : journal'[n].file # f
      <3>1. RowsOf(journal', f) = RowsOf(journal, f) /\ RowsOf(journal, f) # {}
        <4>1. {k \in Gained : journal'[k].file = f} = {}
          BY <2>2
        <4>2. RowsOf(journal', f) = RowsOf(journal, f) \cup {k \in Gained : journal'[k].file = f}
          BY <1>a
        <4> QED BY <1>7, <4>1, <4>2
      <3>2. Left' \cap RowsOf(journal', f) = Left \cap RowsOf(journal, f)
        BY <1>4, <1>a, <1>n, <3>1
      <3>3. Seat(journal', f, Left \cap RowsOf(journal, f)) =
               Seat(journal, f, Left \cap RowsOf(journal, f))
        BY <1>4, <1>s, <3>1
      <3>4. m[1] = Seat(journal, f, Left \cap RowsOf(journal, f))
        BY <1>7, <2>2, <3>1 DEF Piled
      <3> QED BY <3>2, <3>3, <3>4
    <2> QED BY <2>1, <2>2
  <1> QED BY <1>3, <1>5, <1>6, <1>7 DEF Piled


LEMMA QuietPile ==
    ASSUME Piled, journal' = journal, disk' = disk, Left' = Left
    PROVE  Piled'
  <1>1. Standing' = Standing
    BY DEF Standing, Reversed, Rows
  <1> QED BY <1>1 DEF Piled

\* assert_clear: what is reversed for the first time is the topmost decision about its file.
LEMMA Topmost ==
    ASSUME UType, UndoAt, RowsOnce, pc = "wait", ~raced, ~Reversed(Current)
    PROVE  /\ Current \in Standing /\ This \in Op /\ Current \in Rows
           /\ \A k \in Standing : journal[k].file = This.file => k <= Current
  <1>1. Clear(undoing) /\ todo \subseteq Forward(undoing) /\ Current \in todo
        /\ This \in Op /\ Current \in Rows
    BY CurrentIs DEF UndoAt
  <1>2. Current \in Forward(undoing) \cap Standing
    BY <1>1 DEF Forward, Standing
  <1>3. BuiltOn(Current) = {}
    BY <1>1, <1>2 DEF Clear
  <1>4. ASSUME NEW k \in Standing, journal[k].file = This.file, k > Current
        PROVE  FALSE
    <2>1. journal[k].plan # journal[Current].plan
      <3>1. k \in Rows /\ journal[k].way = "forward" /\ journal[Current].way = "forward"
        BY <1>2 DEF Standing
      <3>2. k # Current
        BY <1>1, <1>4, RowsAre DEF UType
      <3> QED BY <1>1, <1>4, <3>1, <3>2 DEF RowsOnce, This
    <2>2. k \in BuiltOn(Current)
      BY <1>4, <2>1 DEF BuiltOn, This
    <2> QED BY <1>3, <2>2
  <1>5. \A k \in Standing : k \in Nat /\ Current \in Nat
    BY <1>1, RowsAre DEF UType, Standing
  <1> QED BY <1>1, <1>2, <1>4, <1>5

LEMMA LeftIs ==
    ASSUME UType
    PROVE  /\ Left \subseteq Standing /\ Standing \subseteq Rows /\ Rows \subseteq Nat
           /\ Rows = 1 .. Len(journal) /\ Len(journal) \in Nat
           /\ \A f : RowsOf(journal, f) = {h \in Rows : journal[h].file = f}
BY RowsAre DEF Left, Standing, RowsOf, Rows, UType

\* The file a first reversal takes is where the decision put it, which is then on top of
\* the pile; a file found back at its origin is not there.
LEMMA OnTop ==
    ASSUME UType, UndoAt, RowsOnce, Piled, pc = "wait", ~raced, ~Reversed(Current)
    PROVE  /\ disk[This.to] = This.file => Current \in Left
           /\ disk[This.from] = This.file => Current \notin Left
           /\ Left \cap RowsOf(journal, This.file) =
                 Under(journal, Left, Current) \cup ({Current} \cap Left)
           /\ This.from[1] = Seat(journal, This.file, Under(journal, Left, Current))
  <1> DEFINE f == This.file
             T == Left \cap RowsOf(journal, f)
             U == Under(journal, Left, Current)
  <1>1. /\ Current \in Standing /\ This \in Op /\ Current \in Rows
        /\ \A k \in Standing : journal[k].file = f => k <= Current
    BY Topmost
  <1>2. f \in Files /\ This.to \in Names /\ This.from \in Names
    BY <1>1 DEF Op
  <1>3. This.from[1] # This.to[1]
    BY <1>1 DEF RowsOnce, Standing, This
  <1>4. Current \in RowsOf(journal, f)
    BY <1>1, LeftIs DEF This
  <1>5. T = U \cup ({Current} \cap Left)
    <2>1. U = {k \in Left : k < Current /\ journal[k].file = f}
      BY DEF Under, This
    <2>2. T = {k \in Left : journal[k].file = f}
      BY LeftIs
    <2>3. \A k \in Left : journal[k].file = f => k < Current \/ k = Current
      BY <1>1, LeftIs
    <2>4. journal[Current].file = f
      BY DEF This
    <2> HIDE DEF f, T, U
    <2> QED BY <2>1, <2>2, <2>3, <2>4
  <1>6. This.from[1] = Seat(journal, f, U)
    BY <1>1 DEF Piled, This
  <1>7. \A m \in Names : disk[m] = f => m[1] = Seat(journal, f, T)
    BY <1>2, <1>4 DEF Piled
  <1>8. Current \notin Left => T = U
    BY <1>5
  <1>9. Current \in Left => Seat(journal, f, T) = This.to[1]
    <2> SUFFICES ASSUME Current \in Left PROVE Seat(journal, f, T) = This.to[1]
      OBVIOUS
    <2>1. Current \in T /\ T \subseteq Nat
      BY <1>4, LeftIs
    <2>2. \A k \in T : k <= Current
      BY <1>1, LeftIs
    <2> HIDE DEF T
    <2>3. Max(T) = Current
      BY <2>1, <2>2, MaxIs
    <2> QED BY <2>1, <2>3 DEF Seat, This
  <1> HIDE DEF f, T, U
  <1> QED BY <1>2, <1>3, <1>5, <1>6, <1>7, <1>8, <1>9 DEF f, T, U


LEMMA NextPiled ==
    ASSUME UType, UndoAt, Told, RowsOnce, OneName, Piled, Sound, Sound', OneName',
           [Next]_vars
    PROVE  Piled'
  <1>p. disk \in [Names -> Files \cup {Nothing, Foreign}] /\ Nothing \notin Files
    BY PlacesAssumption DEF UType, TypeOK
  <1>o. /\ \A m, n \in Names : disk[m] \in Files /\ disk[m] = disk[n] => m = n
        /\ \A m, n \in Names : disk'[m] \in Files /\ disk'[m] = disk'[n] => m = n
    BY DEF Sound, OneName
  <1>r. ~raced /\ (pc = "record" => ~Reversed(Current))
    BY DEF Sound
  <1>l. /\ Left \subseteq Standing /\ Standing \subseteq Rows /\ Rows \subseteq Nat
        /\ Rows = 1 .. Len(journal) /\ Len(journal) \in Nat
    BY LeftIs
  <1>1. ASSUME NEW f \in Files, NEW b \in Bases, Commit(f, b)
        PROVE  Piled'
    <2> DEFINE n == Len(journal) + 1
               j == Move(disk, f, b)
    <2>1. /\ Rows' = Rows \cup {n} /\ n \notin Rows
          /\ \A h \in Rows : journal'[h] = journal[h]
          /\ journal'[n] = j
          /\ j.way = "forward" /\ j.file = f /\ disk' = After(disk, j)
          /\ disk[j.from] = f /\ disk[j.to] = Nothing /\ j.to # j.from
          /\ j.from \in Names /\ j.to \in Names
      BY <1>1, CommitAdds
    <2>2. n \in Nat /\ \A h \in Rows : h < n
      BY <1>l
    <2>3. cut' = cut /\ pc \in {"idle", "gate", "wait"} /\ pc' = pc
      BY <1>1 DEF Commit, LockFree
    <2> HIDE DEF n, j
    <2>g. Gained = {n}
      BY <2>1 DEF Gained, Rows
    <2>4. \A m \in Names : disk'[m] = IF m = j.to THEN f ELSE IF m = j.from THEN Nothing ELSE disk[m]
      BY <2>1, <1>p DEF After
    <2>5. \A m \in Names : disk'[m] = f => m = j.to
      BY <2>1, <2>4, <1>o
    <2>6. \A g \in Files, m \in Names : f # g /\ disk'[m] = g => disk[m] = g
      BY <2>4, <1>p
    <2>7. /\ Gained \subseteq Nat /\ Rows' = Rows \cup Gained /\ \A k \in Gained : \A h \in Rows : h < k
          /\ \A k \in Gained : /\ journal'[k].way = "forward" /\ journal'[k].file \in Files
                          /\ journal'[k].from \in Names
                          /\ disk[journal'[k].from] = journal'[k].file
          /\ \A k, m \in Gained : journal'[k].file = journal'[m].file => k = m
      BY <2>1, <2>2, <2>g
    <2>8. \A k \in Gained, m \in Names : disk'[m] = journal'[k].file => m = journal'[k].to
      BY <2>1, <2>5, <2>g
    <2>9. \A g \in Files, m \in Names :
              (\A k \in Gained : journal'[k].file # g) /\ disk'[m] = g => disk[m] = g
      BY <2>1, <2>6, <2>g
    <2> QED BY <2>1, <2>3, <2>7, <2>8, <2>9, PileGrows
  <1>2. ASSUME NEW f \in Files, NEW g \in Files, NEW q \in Held, CommitSwap(f, g, q)
        PROVE  Piled'
    <2> DEFINE n == Len(journal) + 1
               o == Len(journal) + 2
               j == Move(disk, f, q)
               l == [plan |-> plans + 1, file |-> g, way |-> "forward",
                     from |-> row[g], to |-> row[f]]
    <2>1. /\ Rows' = Rows \cup {n, o} /\ n \notin Rows /\ o \notin Rows
          /\ \A h \in Rows : journal'[h] = journal[h]
          /\ journal'[n] = j /\ journal'[o] = l
          /\ disk' = After(After(disk, j), l)
          /\ j.way = "forward" /\ j.file = f /\ f # g
          /\ disk[row[f]] = f /\ disk[row[g]] = g /\ disk[j.to] = Nothing
          /\ j.from = row[f] /\ j.to \in Names /\ row[f] \in Names /\ row[g] \in Names
          /\ j.to # row[f] /\ j.to # row[g] /\ row[f] # row[g]
      BY <1>2, SwapAdds
    <2>2. n \in Nat /\ o \in Nat /\ n # o /\ \A h \in Rows : h < n /\ h < o
      BY <1>l
    <2>3. cut' = cut /\ pc \in {"idle", "gate", "wait"} /\ pc' = pc
      BY <1>2 DEF CommitSwap, LockFree
    <2>4. l.way = "forward" /\ l.file = g /\ l.from = row[g] /\ l.to = row[f]
      OBVIOUS
    <2> HIDE DEF n, o, j, l
    <2>g. Gained = {n, o}
      BY <2>1 DEF Gained, Rows
    <2>5. \A m \in Names : disk'[m] = IF m = row[g] THEN Nothing
                                      ELSE IF m = row[f] THEN g
                                      ELSE IF m = j.to THEN f ELSE disk[m]
      BY <2>1, <2>4, <1>p DEF After
    <2>6. \A m \in Names : (disk'[m] = f => m = j.to) /\ (disk'[m] = g => m = row[f])
      BY <2>1, <2>5, <1>o, <1>p
    <2>7. \A k \in Files, m \in Names : f # k /\ g # k /\ disk'[m] = k => disk[m] = k
      BY <2>5, <1>p
    <2>8. /\ Gained \subseteq Nat /\ Rows' = Rows \cup Gained /\ \A k \in Gained : \A h \in Rows : h < k
          /\ \A k \in Gained : /\ journal'[k].way = "forward" /\ journal'[k].file \in Files
                          /\ journal'[k].from \in Names
                          /\ disk[journal'[k].from] = journal'[k].file
          /\ \A k, m \in Gained : journal'[k].file = journal'[m].file => k = m
      BY <2>1, <2>2, <2>4, <2>g
    <2>9. \A k \in Gained, m \in Names : disk'[m] = journal'[k].file => m = journal'[k].to
      BY <2>1, <2>4, <2>6, <2>g
    <2>10. \A k \in Files, m \in Names :
              (\A x \in Gained : journal'[x].file # k) /\ disk'[m] = k => disk[m] = k
      BY <2>1, <2>4, <2>7, <2>g
    <2> QED BY <2>1, <2>3, <2>8, <2>9, <2>10, PileGrows
  <1>3. CASE Record
    <2> DEFINE n == Len(journal) + 1
    <2>1. /\ Rows' = Rows \cup {n} /\ n \notin Rows
          /\ \A h \in Rows : journal'[h] = journal[h]
          /\ journal'[n].plan = This.plan /\ journal'[n].file = This.file
          /\ journal'[n].way = "back" /\ Current \in Rows
      BY <1>3, RecordAdds
    <2>2. pc = "record" /\ pc' = "index" /\ cut' = cut /\ disk' = disk
          /\ todo \subseteq Forward(undoing) /\ Current \in todo
      BY <1>3, CurrentIs DEF Record, files, UndoAt
    <2>n. n \in Nat /\ \A h \in Rows : h < n
      BY <1>l
    <2> HIDE DEF n
    <2>3. Standing' = Standing \ {Current}
      <3>0. DOMAIN journal = Rows /\ DOMAIN journal' = Rows \cup {n}
        BY <2>1 DEF Rows
      <3>1. ASSUME NEW h \in Rows, journal[h].way = "forward"
            PROVE  Reversed(h)' <=> (Reversed(h) \/ h = Current)
        <4>1. n \in Nat /\ n > h
          BY <2>n, <1>l
        <4>2. journal[Current].way = "forward"
          BY <2>2 DEF Forward
        <4>3. h = Current <=> /\ journal'[n].plan = journal'[h].plan
                              /\ journal'[n].file = journal'[h].file
          BY <2>1, <3>1, <4>2 DEF RowsOnce, This
        <4>4. Reversed(h)' <=> (\E u \in Rows \cup {n} :
                 u > h /\ journal'[u].way = "back" /\ journal'[u].plan = journal'[h].plan
                 /\ journal'[u].file = journal'[h].file)
          BY <2>1 DEF Reversed
        <4> QED BY <2>1, <4>1, <4>3, <4>4 DEF Reversed
      <3>2. \A h \in Rows : h \in Standing' <=> (h \in Standing /\ h # Current)
        BY <2>1, <3>1 DEF Standing
      <3>3. n \notin Standing' /\ Standing' \subseteq Rows \cup {n} /\ Standing \subseteq Rows
        BY <2>1 DEF Standing
      <3> QED BY <2>1, <3>2, <3>3
    <2>4. Left' = Left
      <3>1. InFlight = {Current} /\ InFlight' = {}
        BY <2>2 DEF InFlight
      <3> QED BY <2>2, <2>3, <3>1 DEF Left
    <2>5. ASSUME NEW f
          PROVE  /\ RowsOf(journal, f) \subseteq Rows
                 /\ \A h \in Rows : h \in RowsOf(journal', f) <=> h \in RowsOf(journal, f)
                 /\ RowsOf(journal', f) \subseteq Rows \cup {n}
                 /\ f # This.file => n \notin RowsOf(journal', f)
      <3>1. DOMAIN journal = Rows /\ DOMAIN journal' = Rows \cup {n}
        BY <2>1 DEF Rows
      <3> QED BY <2>1, <3>1 DEF RowsOf
    <2>6. ASSUME NEW f, RowsOf(journal, f) # {}, NEW S, S \subseteq Rows
          PROVE  Seat(journal', f, S) = Seat(journal, f, S)
      <3>1. /\ RowsOf(journal, f) \subseteq RowsOf(journal', f)
            /\ RowsOf(journal', f) \subseteq Nat
            /\ \A h \in RowsOf(journal', f) : h \in RowsOf(journal, f) \/ \A r \in Rows : r < h
        BY <2>5, <2>n, <1>l
      <3> QED BY <2>1, <2>6, <3>1, SeatSame
    <2>7. ASSUME NEW h \in Standing'
          PROVE  journal'[h].from[1] =
                    Seat(journal', journal'[h].file, Under(journal', Left', h))
      <3>1. h \in Standing /\ h \in Rows /\ journal'[h] = journal[h]
        BY <1>l, <2>1, <2>3
      <3>2. Under(journal', Left', h) = Under(journal, Left, h)
            /\ Under(journal, Left, h) \subseteq Rows
        <4>1. \A k \in Left : journal'[k] = journal[k] /\ k \in Rows
          BY <1>l, <2>1
        <4> QED BY <2>4, <3>1, <4>1 DEF Under
      <3>3. RowsOf(journal, journal[h].file) # {}
        BY <3>1, LeftIs
      <3>4. journal[h].from[1] = Seat(journal, journal[h].file, Under(journal, Left, h))
        BY <3>1 DEF Piled
      <3> QED BY <2>6, <3>1, <3>2, <3>3, <3>4
    <2>8. ASSUME NEW f \in Files, NEW m \in Names, disk'[m] = f, RowsOf(journal', f) # {}
          PROVE  m[1] = Seat(journal', f, Left' \cap RowsOf(journal', f))
      <3>1. RowsOf(journal, f) # {}
        <4>1. CASE f = This.file
          BY <2>1, <4>1, LeftIs DEF This
        <4>2. CASE f # This.file
          BY <2>5, <2>8, <4>2
        <4> QED BY <4>1, <4>2
      <3>2. Left' \cap RowsOf(journal', f) = Left \cap RowsOf(journal, f)
        BY <1>l, <2>4, <2>5
      <3>3. Left \cap RowsOf(journal, f) \subseteq Rows
        BY <1>l
      <3>4. m[1] = Seat(journal, f, Left \cap RowsOf(journal, f))
        BY <2>2, <2>8, <3>1 DEF Piled
      <3> QED BY <2>6, <3>1, <3>2, <3>3, <3>4
    <2> QED BY <2>7, <2>8 DEF Piled
  <1>4. CASE MoveBack
    <2>1. /\ pc = "wait" /\ pc' = "record" /\ cut' = cut /\ journal' = journal
          /\ UNCHANGED << undoing, todo >> /\ landed'[1] = This.from[1]
      <3>1. This \in Op
        BY <1>4, CurrentIs DEF MoveBack
      <3>2. This.from \in Names
        BY <3>1 DEF Op
      <3> QED BY <1>4, <3>2 DEF MoveBack
    <2>2. Current' = Current /\ Standing' = Standing
      BY <2>1 DEF Current, Standing, Reversed, Rows
    <2>3. ~Reversed(Current)
      <3>1. ~Reversed(Current)'
        BY <2>1 DEF Sound
      <3>2. Reversed(Current)' <=> Reversed(Current)
        BY <2>1, <2>2 DEF Reversed, Rows
      <3> QED BY <3>1, <3>2
    <2>4. /\ landed' \in Names /\ disk[landed'] = Nothing
          /\ disk[This.to] = This.file /\ This.file \in Files /\ landed' # This.to
          /\ disk' = [disk EXCEPT ![This.to] = Nothing, ![landed'] = This.file]
      BY <1>4, LandsFree DEF MoveBack
    <2>5. /\ Current \in Left
          /\ Left \cap RowsOf(journal, This.file) =
                Under(journal, Left, Current) \cup ({Current} \cap Left)
          /\ This.from[1] = Seat(journal, This.file, Under(journal, Left, Current))
      BY <1>r, <2>1, <2>3, <2>4, OnTop
    <2>6. Left' = Left \ {Current}
      <3>1. InFlight = {} /\ InFlight' = {Current}
        BY <2>1, <2>2 DEF InFlight
      <3> QED BY <2>1, <2>2, <3>1 DEF Left
    <2>7. \A k \in Standing : journal[k].file = This.file => k <= Current
      BY <1>r, <2>1, <2>3, Topmost
    <2>8. ASSUME NEW h \in Standing'
          PROVE  journal'[h].from[1] =
                    Seat(journal', journal'[h].file, Under(journal', Left', h))
      <3>1. h \in Standing /\ h \in Nat /\ Current \in Nat
        BY <1>l, <2>2, <2>5
      <3>2. ~(Current < h /\ journal[h].file = This.file)
        BY <2>7, <3>1
      <3>3. Current \notin Under(journal, Left, h)
        BY <3>2 DEF Under, This
      <3>4. Under(journal, Left', h) = Under(journal, Left, h)
        BY <2>6, <3>3 DEF Under
      <3> QED BY <2>1, <3>1, <3>4 DEF Piled
    <2>9. ASSUME NEW f \in Files, NEW m \in Names, disk'[m] = f, RowsOf(journal', f) # {}
          PROVE  m[1] = Seat(journal', f, Left' \cap RowsOf(journal', f))
      <3>1. CASE f = This.file
        <4>1. m = landed'
          BY <2>4, <2>9, <3>1, <1>o, <1>p
        <4>2. Current \notin Under(journal, Left, Current)
          <5>1. Current \in Nat
            BY <1>l, <2>5
          <5> QED BY <5>1 DEF Under
        <4>3. Left' \cap RowsOf(journal, f) = Under(journal, Left, Current)
          BY <2>5, <2>6, <3>1, <4>2
        <4> QED BY <2>1, <2>5, <3>1, <4>1, <4>3
      <3>2. CASE f # This.file
        <4>1. disk[m] = f
          BY <2>4, <2>9, <3>2, <1>p
        <4>2. Current \notin RowsOf(journal, f)
          BY <3>2, LeftIs DEF This
        <4>3. Left' \cap RowsOf(journal, f) = Left \cap RowsOf(journal, f)
          BY <2>6, <4>2
        <4> QED BY <2>1, <2>9, <4>1, <4>3 DEF Piled
      <3> QED BY <3>1, <3>2
    <2> QED BY <2>8, <2>9 DEF Piled
  <1>5. CASE FoundBack
    <2>1. /\ pc = "wait" /\ pc' = "record" /\ cut' = cut /\ journal' = journal
          /\ UNCHANGED << undoing, todo >> /\ disk[This.from] = This.file
          /\ ~Reversed(Current) /\ disk' = disk
      BY <1>5 DEF FoundBack, files
    <2>2. Current' = Current /\ Standing' = Standing
      BY <2>1 DEF Current, Standing, Reversed, Rows
    <2>3. Current \notin Left
      BY <1>r, <2>1, OnTop
    <2>4. InFlight = {} /\ InFlight' = {Current}
      BY <2>1, <2>2 DEF InFlight
    <2>5. Left' = Left
      BY <2>1, <2>2, <2>3, <2>4 DEF Left
    <2> QED BY <2>1, <2>5, QuietPile
  <1>6. ASSUME journal' = journal, disk' = disk, pc # "record", pc' # "record",
               \A c \in Standing : c \in cut' <=> c \in cut
        PROVE  Piled'
    <2>1. Standing' = Standing
      BY <1>6 DEF Standing, Reversed, Rows
    <2>2. InFlight = {} /\ InFlight' = {}
      BY <1>6 DEF InFlight
    <2>3. Left' = Left
      BY <1>6, <2>1, <2>2 DEF Left
    <2> QED BY <1>6, <2>3, QuietPile
  <1>7. CASE Index \/ CatchUp \/ Entries
    <2>1. /\ disk' = disk /\ journal' = journal /\ pc # "record" /\ pc' # "record"
          /\ Reversed(Current)
          /\ cut' = cut \/ cut' = cut \cup {Current} \/ cut' = cut \ {Current}
      BY <1>7 DEF Index, CatchUp, Entries, Raise, Forget, NextOne, files, UndoAt
    <2>2. Current \notin Standing
      BY <2>1 DEF Standing
    <2> QED BY <2>1, <2>2, <1>6
  <1>8. CASE Crash
    <2>1. disk' = disk /\ journal' = journal /\ pc' = "idle"
          /\ cut' = IF pc \in {"record", "index", "entries"} THEN cut \cup {Current} ELSE cut
      BY <1>8 DEF Crash, Forget, files
    <2>2. Standing' = Standing /\ InFlight' = {}
      BY <2>1 DEF Standing, Reversed, Rows, InFlight
    <2>3. Left' = Left
      <3>1. CASE pc = "record"
        <4>1. InFlight = {Current} /\ cut' = cut \cup {Current}
          BY <2>1, <3>1 DEF InFlight
        <4> QED BY <2>2, <4>1 DEF Left
      <3>2. CASE pc \in {"index", "entries"}
        <4>1. InFlight = {} /\ cut' = cut \cup {Current} /\ Reversed(Current)
          BY <2>1, <3>2 DEF InFlight, UndoAt
        <4>2. Current \notin Standing
          BY <4>1 DEF Standing
        <4> QED BY <2>2, <4>1, <4>2 DEF Left
      <3>3. CASE pc \notin {"record", "index", "entries"}
        <4>1. InFlight = {} /\ cut' = cut
          BY <2>1, <3>3 DEF InFlight
        <4> QED BY <2>2, <4>1 DEF Left
      <3> QED BY <3>1, <3>2, <3>3
    <2> QED BY <2>1, <2>3, QuietPile
  <1>9. ASSUME NEW m \in Names, ByHand(m)
        PROVE  FALSE
    <2>1. hands = 0 /\ hands' = 0
      BY DEF Sound
    <2> QED BY <1>9, <2>1 DEF ByHand
  <1>10. ASSUME \/ \E p \in Plans : Press(p)
                \/ Gate \/ Busy \/ RefuseBack
                \/ \E m \in Names : Claim(m)
                \/ Scan \/ \E f \in Files : ScanTooSoon(f)
         PROVE  Piled'
    <2>1. disk' = disk /\ journal' = journal /\ pc # "record" /\ pc' # "record" /\ cut' = cut
      BY <1>10 DEF Press, Gate, Forget, Busy, NextOne, RefuseBack, Claim, Scan,
                   ScanTooSoon, Looks, files
    <2> QED BY <2>1, <1>6
  <1>11. CASE UNCHANGED vars
    <2>1. journal' = journal /\ disk' = disk /\ UNCHANGED << pc, todo, cut >>
      BY <1>11 DEF vars, memory, files
    <2>2. Left' = Left
      BY <2>1 DEF Left, Standing, Reversed, Rows, InFlight, Current
    <2> QED BY <2>1, <2>2, QuietPile
  <1> QED BY <1>1, <1>2, <1>3, <1>4, <1>5, <1>7, <1>8, <1>9, <1>10, <1>11 DEF Next, Reverse

LEMMA NextPInv == JInv /\ PInv /\ [Next]_vars => PInv'
  <1> SUFFICES ASSUME UType, UndoAt, Told, PInv, [Next]_vars PROVE PInv'
    BY DEF JInv
  <1>1. RowsOnce'
    BY NextRowsOnce DEF PInv
  <1>2. OneName'
    BY NextOneName DEF PInv
  <1>3. Sound' => Piled'
    <2> SUFFICES ASSUME Sound' PROVE Piled'
      OBVIOUS
    <2>1. Sound
      BY SoundBefore
    <2> QED BY <1>2, <2>1, NextPiled DEF PInv
  <1> QED BY <1>1, <1>2, <1>3 DEF PInv

LEMMA SpecPInv == Spec => [](JInv /\ PInv)
  <1>1. Init => PInv
    BY InitPInv
  <1>2. JInv /\ PInv /\ [Next]_vars => PInv'
    BY NextPInv
  <1> QED BY <1>1, <1>2, SpecJInv, PTL DEF Spec

(* Whatever decisions are undone, and in whatever order the program allows it, every file
   is where the last decision about it that stands has put it, or where it was before all
   of them: no undo takes a file from under a decision that was built on the one undone. *)
THEOREM DecisionsAreKept == Spec => []StandingHolds
  <1>1. JInv /\ PInv => StandingHolds
    <2> SUFFICES ASSUME JInv, PInv, Idle, hands = 0, Heard, ~raced, ~unheard, ~TwiceReversed,
                        NEW f \in Files, About(f) # {}
                 PROVE  \E n \in 1 .. MaxNum : StandsAt(f, << Decided(f)[1], n >>)
      BY DEF StandingHolds
    <2> DEFINE A == RowsOf(journal, f)
               S == Left \cap A
               m == journal[Max(About(f))].to
    <2>1. UType /\ Told /\ Piled
      BY DEF JInv, PInv, Sound, Idle
    <2>2. About(f) = A /\ A \subseteq Rows /\ Rows \subseteq Nat
      BY <2>1, LeftIs DEF About
    <2>3. Left = Standing
      BY DEF Left, InFlight, Idle, Heard, Standing
    <2>4. disk[m] = f
      BY <2>1 DEF Told, MistakenAbout, StandsAt, Idle, Heard
    <2>5. m \in Names
      <3>1. Max(About(f)) \in Rows
        BY <2>1, RowsAbout
      <3>2. journal[Max(About(f))] \in Op
        BY <2>1, <3>1, RowsAre DEF UType
      <3> HIDE DEF m
      <3> QED BY <3>2 DEF Op, m
    <2>6. m[1] = Seat(journal, f, S)
      BY <2>1, <2>2, <2>4, <2>5 DEF Piled
    <2>7. Seat(journal, f, S) = Decided(f)[1]
      BY <2>2, <2>3 DEF Seat, Decided
    <2>8. PICK n \in 1 .. MaxNum : m = << m[1], n >>
      BY <2>5 DEF Names
    <2> QED BY <2>4, <2>6, <2>7, <2>8 DEF StandsAt
  <1> QED BY <1>1, SpecPInv, PTL

-------------------------------------------------------------------------------
(* Where the index says a file is.                                         *)

\* Between the rename and the index, a file has left one address and stands at another.
Carried ==
    pc \in {"record", "index"} => disk[This.to] = Nothing /\ disk[landed] = This.file

\* Its reversal has not come to the index.
InHand(f) == pc \in {"record", "index"} /\ This.file = f

AtItsRow ==
    hands = 0 => \A f \in Files \ FilesOf(behind) : InHand(f) \/ disk[row[f]] = f

KInv == Carried /\ AtItsRow

LEMMA InitKInv == Init => KInv
  <1> SUFFICES ASSUME Init PROVE KInv
    OBVIOUS
  <1>1. PICK s \in Start :
          /\ row = [f \in Files |-> << s[f], 1 >>]
          /\ disk = [m \in Names |-> IF \E f \in Files : m = << s[f], 1 >>
                                     THEN CHOOSE f \in Files : m = << s[f], 1 >> ELSE Nothing]
    BY DEF Init
  <1>2. ASSUME NEW f \in Files
        PROVE  disk[row[f]] = f
    <2>1. << s[f], 1 >> \in Names /\ row[f] = << s[f], 1 >>
      BY <1>1, PlacesAssumption DEF Start, Names, Bases
    <2>2. \A g \in Files : << s[f], 1 >> = << s[g], 1 >> => g = f
      BY DEF Start
    <2>3. (CHOOSE g \in Files : << s[f], 1 >> = << s[g], 1 >>) = f
      BY <2>2
    <2> QED BY <1>1, <2>1, <2>3
  <1> QED BY <1>2 DEF KInv, Carried, AtItsRow, Init

\* What the statement that writes the index does, and what catching up does.
LEMMA IndexDoes ==
    ASSUME UType, Index
    PROVE  /\ pc = "index" /\ UNCHANGED << disk, journal, entry, plans >>
           /\ \A f \in Files : row[f] # This.to => row'[f] = row[f]
           /\ behind \ {Current} \subseteq behind' /\ cut \subseteq cut'
           /\ \/ /\ pc' = "idle" /\ Current \in behind' /\ Current \in cut'
                 /\ behind' \subseteq behind \cup {Current}
              \/ /\ pc' = "entries" /\ UNCHANGED << undoing, todo, landed, cut >>
                 /\ row'[This.file] = landed \/ Current \in behind'
                 /\ behind' \subseteq behind \cup {Current}
  <1> DEFINE o == IF found THEN Retired(landed) ELSE others
             blocked == found /\ ~OriginFree(landed)
  <1>1. This.file \in Files
    BY CurrentIs DEF Index, Op
  <1>2. /\ pc = "index" /\ UNCHANGED << disk, journal, entry, plans >>
        /\ \/ Raise(o)
           \/ /\ \/ blocked /\ UNCHANGED index
                 \/ ~blocked /\ MoveRow(This.to, landed, o)
              /\ behind' = IF row[This.file] = (IF blocked THEN landed ELSE This.to)
                           THEN behind \ {Current} ELSE behind \cup {Current}
              /\ pc' = "entries" /\ UNCHANGED << memory, cut >>
    BY DEF Index, files
  <1> HIDE DEF o, blocked
  <1>3. CASE Raise(o)
    BY <1>2, <1>3 DEF Raise, Forget
  <1>4. CASE /\ blocked /\ UNCHANGED index
             /\ behind' = IF row[This.file] = landed
                          THEN behind \ {Current} ELSE behind \cup {Current}
             /\ pc' = "entries" /\ UNCHANGED << memory, cut >>
    BY <1>2, <1>4 DEF index, memory
  <1>5. CASE /\ ~blocked /\ MoveRow(This.to, landed, o)
             /\ behind' = IF row[This.file] = This.to
                          THEN behind \ {Current} ELSE behind \cup {Current}
             /\ pc' = "entries" /\ UNCHANGED << memory, cut >>
    BY <1>1, <1>2, <1>5 DEF MoveRow, memory
  <1> QED BY <1>2, <1>3, <1>4, <1>5

LEMMA CatchUpDoes ==
    ASSUME UType, CatchUp
    PROVE  /\ pc = "wait" /\ pc' \in {"idle", "gate"}
           /\ UNCHANGED << disk, journal, entry, plans >> /\ disk[This.to] = Nothing
           /\ \A f \in Files : row[f] # This.to => row'[f] = row[f]
           /\ behind \ {Current} \subseteq behind' /\ cut \subseteq cut'
           /\ behind' \ behind \subseteq cut'
           /\ behind \subseteq behind' \/ (row'[This.file] = This.from /\ disk[This.from] = This.file)
  <1> DEFINE o == Retired(This.from)
  <1>1. This.file \in Files
    BY CurrentIs DEF CatchUp, Op
  <1>2. /\ pc = "wait" /\ UNCHANGED << disk, journal, entry, plans >> /\ disk[This.to] = Nothing
        /\ \/ NextOne /\ UNCHANGED << row, cut, behind >>
           \/ Raise(o)
           \/ /\ MoveRow(This.to, This.from, o) /\ disk[This.from] = This.file
              /\ behind' = IF row[This.file] = This.to THEN behind \ {Current} ELSE behind
              /\ NextOne /\ UNCHANGED cut
    BY DEF CatchUp, files, index
  <1> HIDE DEF o
  <1>3. CASE NextOne /\ UNCHANGED << row, cut, behind >>
    BY <1>2, <1>3 DEF NextOne
  <1>4. CASE Raise(o)
    BY <1>2, <1>4 DEF Raise, Forget
  <1>5. CASE /\ MoveRow(This.to, This.from, o) /\ disk[This.from] = This.file
             /\ behind' = IF row[This.file] = This.to THEN behind \ {Current} ELSE behind
             /\ NextOne /\ UNCHANGED cut
    BY <1>1, <1>2, <1>5 DEF MoveRow, NextOne
  <1> QED BY <1>2, <1>3, <1>4, <1>5

LEMMA NextCarried == UType /\ Carried /\ [Next]_vars => Carried'
  <1> SUFFICES ASSUME UType, Carried, [Next]_vars, pc' \in {"record", "index"}
               PROVE  (disk[This.to] = Nothing /\ disk[landed] = This.file)'
    BY DEF Carried
  <1>1. CASE MoveBack
    <2>1. /\ UNCHANGED << journal, todo >>
          /\ disk' = [disk EXCEPT ![This.to] = Nothing, ![landed'] = This.file]
          /\ landed' \in Names /\ This.file \in Files /\ landed' # This.to
      BY <1>1, LandsFree DEF MoveBack
    <2>2. This' = This /\ This.to \in Names /\ disk \in [Names -> Files \cup {Nothing, Foreign}]
      BY <1>1, <2>1, CurrentIs DEF This, Current, UType, TypeOK, Op, MoveBack
    <2> QED BY <2>1, <2>2
  <1>2. CASE FoundBack
    BY <1>2 DEF FoundBack, files, This, Current
  <1>3. CASE Record
    <2>1. /\ \A h \in Rows : journal'[h] = journal[h]
          /\ Current \in Rows
      BY <1>3, RecordAdds
    <2>2. UNCHANGED << disk, todo, landed >> /\ pc = "record"
      BY <1>3 DEF Record, files, memory
    <2>3. This' = This
      BY <2>1, <2>2 DEF This, Current
    <2> QED BY <2>2, <2>3 DEF Carried
  <1>4. CASE UNCHANGED vars
    <2>1. UNCHANGED << pc, journal, todo, disk, landed >>
      BY <1>4 DEF vars, files, memory
    <2>2. This' = This
      BY <2>1 DEF This, Current
    <2> QED BY <2>1, <2>2 DEF Carried
  <1>5. ASSUME NEW f \in Files, NEW b \in Bases, Commit(f, b)
        PROVE  FALSE
    BY <1>5 DEF Commit, LockFree
  <1>6. ASSUME NEW f \in Files, NEW g \in Files, NEW q \in Held, CommitSwap(f, g, q)
        PROVE  FALSE
    BY <1>6 DEF CommitSwap, LockFree
  <1>7. ASSUME Gate \/ Busy \/ RefuseBack \/ CatchUp \/ Index \/ Entries
        PROVE  FALSE
    <2>1. CASE Gate \/ Busy \/ RefuseBack \/ Entries
      BY <2>1 DEF Gate, Forget, Busy, NextOne, RefuseBack, Entries
    <2>2. CASE CatchUp
      BY <2>2, CatchUpDoes
    <2>3. CASE Index
      BY <2>3, IndexDoes
    <2> QED BY <1>7, <2>1, <2>2, <2>3
  <1>8. ASSUME \/ \E p \in Plans : Press(p)
               \/ Crash
               \/ \E m \in Names : ByHand(m) \/ Claim(m)
               \/ Scan \/ \E f \in Files : ScanTooSoon(f)
        PROVE  FALSE
    BY <1>8 DEF Press, Crash, Forget, ByHand, Claim, Scan, ScanTooSoon, Looks
  <1> QED BY <1>1, <1>2, <1>3, <1>4, <1>5, <1>6, <1>7, <1>8 DEF Next, Reverse

\* The files of the rows of S, when the journal grows.
LEMMA SameFiles ==
    ASSUME NEW S \in SUBSET Rows, \A h \in Rows : journal'[h] = journal[h]
    PROVE  FilesOf(S)' = FilesOf(S)
BY DEF FilesOf

LEMMA NextAtItsRow == UType /\ Told /\ KInv /\ [Next]_vars => AtItsRow'
  <1> SUFFICES ASSUME UType, Told, Carried, AtItsRow, [Next]_vars, hands' = 0,
                      NEW f \in Files, f \notin FilesOf(behind)', ~InHand(f)'
               PROVE  disk'[row'[f]] = f
    BY DEF AtItsRow, KInv
  <1>0. /\ hands = 0 /\ disk \in [Names -> Files \cup {Nothing, Foreign}]
        /\ row \in [Files -> Names] /\ behind \subseteq Rows
        /\ Nothing \notin Files /\ row[f] \in Names
    BY Counted, PlacesAssumption DEF Told, UType, TypeOK
  <1>1. ASSUME f \notin FilesOf(behind), ~InHand(f)
        PROVE  disk[row[f]] = f
    BY <1>0, <1>1 DEF AtItsRow
  <1>2. ASSUME NEW g \in Files, NEW b \in Bases, Commit(g, b)
        PROVE  disk'[row'[f]] = f
    <2>1. /\ \A h \in Rows : journal'[h] = journal[h]
          /\ disk' = After(disk, Move(disk, g, b))
      BY <1>2, CommitAdds
    <2>2. /\ row' = [row EXCEPT ![g] = Move(disk, g, b).to] /\ behind' = behind
          /\ pc \in {"idle", "gate", "wait"} /\ pc' = pc
      BY <1>2 DEF Commit, LockFree
    <2> DEFINE j == Move(disk, g, b)
    <2>3. /\ disk[j.from] = g /\ disk[j.to] = Nothing /\ j.file = g
          /\ j.from \in Names /\ j.to \in Names /\ j.from = row[g]
      BY <1>2, CommitAdds
    <2>4. disk[row[f]] = f
      BY <1>0, <1>1, <2>1, <2>2, SameFiles DEF InHand
    <2> HIDE DEF j
    <2>5. disk' = [disk EXCEPT ![j.from] = Nothing, ![j.to] = g] /\ row' = [row EXCEPT ![g] = j.to]
      BY <2>1, <2>2, <2>3 DEF After, j
    <2>6. CASE f = g
      BY <1>0, <2>3, <2>5, <2>6
    <2>7. CASE f # g
      BY <1>0, <2>3, <2>4, <2>5, <2>7
    <2> QED BY <2>6, <2>7
  <1>3. ASSUME NEW a \in Files, NEW g \in Files, NEW q \in Held, CommitSwap(a, g, q)
        PROVE  disk'[row'[f]] = f
    <2> DEFINE j == Move(disk, a, q)
               k == [plan |-> plans + 1, file |-> g, way |-> "forward",
                     from |-> row[g], to |-> row[a]]
    <2>1. /\ \A h \in Rows : journal'[h] = journal[h]
          /\ disk' = After(After(disk, j), k)
          /\ j.file = a /\ a # g
          /\ disk[row[a]] = a /\ disk[row[g]] = g /\ disk[j.to] = Nothing
          /\ j.from = row[a] /\ j.to \in Names /\ row[a] \in Names /\ row[g] \in Names
          /\ j.to # row[a] /\ j.to # row[g] /\ row[a] # row[g]
      BY <1>3, SwapAdds
    <2>2. /\ row' = [row EXCEPT ![a] = j.to, ![g] = row[a]] /\ behind' = behind
          /\ pc \in {"idle", "gate", "wait"} /\ pc' = pc
      BY <1>3 DEF CommitSwap, LockFree
    <2>3. k.from = row[g] /\ k.to = row[a] /\ k.file = g
      OBVIOUS
    <2> HIDE DEF j, k
    <2>4. disk[row[f]] = f
      BY <1>0, <1>1, <2>1, <2>2, SameFiles DEF InHand
    <2>5. disk' = [[disk EXCEPT ![row[a]] = Nothing, ![j.to] = a]
                      EXCEPT ![row[g]] = Nothing, ![row[a]] = g]
      BY <2>1, <2>3 DEF After
    <2>6. CASE f = a
      BY <1>0, <2>1, <2>2, <2>5, <2>6
    <2>7. CASE f = g
      BY <1>0, <2>1, <2>2, <2>5, <2>7
    <2>8. CASE f # a /\ f # g
      BY <1>0, <2>1, <2>2, <2>4, <2>5, <2>8
    <2> QED BY <2>6, <2>7, <2>8
  <1>4. CASE MoveBack
    <2>1. /\ UNCHANGED << journal, todo, row, behind >> /\ pc = "wait" /\ pc' = "record"
          /\ disk' = [disk EXCEPT ![This.to] = Nothing, ![landed'] = This.file]
          /\ landed' \in Names /\ disk[landed'] = Nothing /\ disk[This.to] = This.file
      BY <1>4, LandsFree DEF MoveBack, index
    <2>2. This' = This /\ f # This.file
      BY <2>1 DEF This, Current, InHand
    <2>3. disk[row[f]] = f
      BY <1>0, <1>1, <2>1, SameFiles DEF InHand
    <2> QED BY <1>0, <2>1, <2>2, <2>3
  <1>5. CASE Record
    <2>1. /\ \A h \in Rows : journal'[h] = journal[h]
          /\ Current \in Rows
      BY <1>5, RecordAdds
    <2>2. UNCHANGED << disk, row, behind, todo >> /\ pc = "record" /\ pc' = "index"
      BY <1>5 DEF Record, files, index, memory
    <2>3. This' = This
      BY <2>1, <2>2 DEF This, Current
    <2> QED BY <1>0, <1>1, <2>1, <2>2, <2>3, SameFiles DEF InHand
  <1>6. CASE Index
    <2>1. /\ pc = "index" /\ UNCHANGED << disk, journal, entry, plans >>
          /\ (row[f] # This.to => row'[f] = row[f])
          /\ behind \ {Current} \subseteq behind'
          /\ Current \in behind' \/ row'[This.file] = landed
      BY <1>6, IndexDoes
    <2>2. disk[This.to] = Nothing /\ disk[landed] = This.file
      BY <2>1 DEF Carried
    <2>3. Current \in Rows /\ This = journal[Current]
      BY <2>1, CurrentIs DEF This
    <2>4. CASE This.file = f
      <3>1. Current \notin behind'
        BY <2>1, <2>3, <2>4 DEF FilesOf
      <3> QED BY <2>1, <2>2, <2>4, <3>1
    <2>5. CASE This.file # f
      <3>1. f \notin FilesOf(behind)
        BY <2>1, <2>3, <2>5 DEF FilesOf
      <3>2. disk[row[f]] = f
        BY <1>1, <2>5, <3>1 DEF InHand
      <3> QED BY <1>0, <2>1, <2>2, <3>2
    <2> QED BY <2>4, <2>5
  <1>7. CASE CatchUp
    <2>1. /\ pc = "wait" /\ UNCHANGED << disk, journal, entry, plans >> /\ disk[This.to] = Nothing
          /\ (row[f] # This.to => row'[f] = row[f])
          /\ behind \ {Current} \subseteq behind'
          /\ behind \subseteq behind' \/ (row'[This.file] = This.from /\ disk[This.from] = This.file)
      BY <1>7, CatchUpDoes
    <2>2. Current \in Rows /\ This = journal[Current]
      BY <2>1, CurrentIs DEF This
    <2>3. CASE f \notin FilesOf(behind)
      <3>1. disk[row[f]] = f
        BY <1>1, <2>1, <2>3 DEF InHand
      <3> QED BY <1>0, <2>1, <3>1
    <2>4. CASE f \in FilesOf(behind)
      <3>1. PICK h \in behind : journal[h].file = f
        BY <2>4 DEF FilesOf
      <3>2. h \notin behind'
        BY <2>1, <3>1 DEF FilesOf
      <3>3. h = Current /\ f = This.file
        BY <2>1, <2>2, <3>1, <3>2
      <3> QED BY <2>1, <3>1, <3>2, <3>3
    <2> QED BY <2>3, <2>4
  <1>8. CASE Crash
    <2>1. /\ UNCHANGED << disk, row, journal >>
          /\ (pc \in {"record", "index"} => Current \in behind')
          /\ behind \subseteq behind'
      BY <1>8 DEF Crash, files, index
    <2>2. f \notin FilesOf(behind)
      BY <2>1 DEF FilesOf
    <2>3. ~InHand(f)
      <3>1. SUFFICES ASSUME pc \in {"record", "index"}, This.file = f PROVE FALSE
        BY DEF InHand
      <3> QED BY <2>1, <3>1 DEF FilesOf, This
    <2> QED BY <1>1, <2>1, <2>2, <2>3
  <1>9. ASSUME NEW m \in Names, ByHand(m)
        PROVE  FALSE
    BY <1>0, <1>9 DEF ByHand
  <1>10. ASSUME UNCHANGED << disk, row, journal, behind >>, pc \notin {"record", "index"}
         PROVE  disk'[row'[f]] = f
    BY <1>1, <1>10 DEF FilesOf, InHand
  <1>11. ASSUME \/ \E p \in Plans : Press(p)
                \/ Gate \/ Busy \/ RefuseBack \/ FoundBack \/ Entries
                \/ \E m \in Names : Claim(m)
                \/ Scan \/ \E g \in Files : ScanTooSoon(g)
         PROVE  disk'[row'[f]] = f
    BY <1>10, <1>11 DEF Press, Gate, Busy, RefuseBack, FoundBack, Entries, Claim, Scan,
                        ScanTooSoon, Looks, files, index
  <1>12. CASE UNCHANGED vars
    <2>1. UNCHANGED << disk, row, journal, behind, pc, todo >>
      BY <1>12 DEF vars, files, index, memory
    <2>2. InHand(f)' = InHand(f) /\ FilesOf(behind)' = FilesOf(behind)
      BY <2>1 DEF InHand, This, Current, FilesOf
    <2> QED BY <1>1, <2>1, <2>2
  <1> QED BY <1>2, <1>3, <1>4, <1>5, <1>6, <1>7, <1>8, <1>9, <1>11, <1>12 DEF Next, Reverse

LEMMA SpecKInv == Spec => []KInv
  <1>1. UType /\ Told /\ KInv /\ [Next]_vars => KInv'
    BY NextCarried, NextAtItsRow DEF KInv
  <1> QED BY <1>1, InitKInv, SpecJInv, PTL DEF Spec, JInv

(* The index has every file where it is, whatever was decided, undone, killed, scanned or
   found again, but for the files of which a reversal was killed or raised before the row
   moved, or found the address taken: nothing else moves the wrong row. *)
THEOREM IndexHasEveryFile == Spec => []IndexKnows
  <1>1. UType /\ OneName /\ KInv => IndexKnows
    <2> SUFFICES ASSUME UType, OneName, KInv, Idle, hands = 0,
                        NEW f \in Files \ FilesOf(behind), NEW m \in Names, StandsAt(f, m)
                 PROVE  row[f] = m
      BY DEF IndexKnows
    <2>1. disk[row[f]] = f
      BY DEF KInv, AtItsRow, InHand, Idle
    <2>2. row[f] \in Names /\ disk[m] = f
      BY DEF UType, TypeOK, StandsAt
    <2> QED BY <2>1, <2>2 DEF OneName
  <1> QED BY <1>1, SpecKInv, SpecPInv, PTL DEF JInv, PInv

-------------------------------------------------------------------------------
(* What is listed in quarantine.                                           *)

\* Past the rename, past the index, and of whom the index has not heard.
Past == pc \in {"record", "index", "entries"}
LandedAt == Past => landed[1] = This.from[1]
IndexedNow == pc = "entries" => row[This.file] = landed \/ Current \in behind
BehindIsCut == behind \subseteq cut \cup (IF pc = "entries" THEN {Current} ELSE {})

\* A decision that brings a file out of quarantine answers an entry, which is kept.
Entered ==
    \A h \in Rows :
        journal[h].way = "forward" /\ InQuarantine(journal[h].from) =>
            /\ ~InQuarantine(journal[h].to)
            /\ \E p \in Plans : entry[p][journal[h].file] # "none"

Listed ==
    hands = 0 => \A f \in Files \ FilesOf(cut) :
        \/ Past /\ This.file = f
        \/ InQuarantine(row[f]) => \E p \in Plans : entry[p][f] = "held"

LInv == LandedAt /\ IndexedNow /\ BehindIsCut /\ Entered /\ Listed

LEMMA InitLInv == Init => LInv
  <1> SUFFICES ASSUME Init PROVE LInv
    OBVIOUS
  <1>1. PICK s \in Start : row = [f \in Files |-> << s[f], 1 >>]
    BY DEF Init
  <1>2. \A f \in Files : ~InQuarantine(row[f])
    BY <1>1, PlacesAssumption DEF Start, InQuarantine
  <1>3. pc = "idle" /\ journal = << >> /\ behind = {}
    BY DEF Init
  <1> QED BY <1>2, <1>3 DEF LInv, LandedAt, IndexedNow, BehindIsCut, Entered, Listed, Past, Rows

\* What a commit does to the entries and to the index.
LEMMA CommitEnters ==
    ASSUME UType, NEW f \in Files, NEW b \in Bases, Commit(f, b)
    PROVE  /\ pc \in {"idle", "gate", "wait"} /\ UNCHANGED << pc, cut, behind, hands >>
           /\ \A g \in Files \ {f} : row'[g] = row[g]
           /\ \A p \in Plans, g \in Files :
                 /\ entry[p][g] # "none" => entry'[p][g] # "none"
                 /\ g # f /\ entry[p][g] = "held" => entry'[p][g] = "held"
           /\ InQuarantine(row'[f]) => \E p \in Plans : entry'[p][f] = "held"
           /\ InQuarantine(row[f]) => /\ ~InQuarantine(Move(disk, f, b).to)
                                      /\ \E p \in Plans : entry'[p][f] # "none"
  <1> DEFINE j == Move(disk, f, b)
  <1>1. /\ pc \in {"idle", "gate", "wait"} /\ UNCHANGED << pc, cut, behind, hands >>
        /\ row' = [row EXCEPT ![f] = j.to] /\ plans < MaxPlans /\ Possible(disk, f, b)
        /\ \/ /\ InQuarantine(j.from)
              /\ \E p \in Plans : /\ entry[p][f] = "held"
                                  /\ entry' = [entry EXCEPT ![p][f] = "restored"]
           \/ /\ ~(InQuarantine(j.from) /\ ~InQuarantine(j.to))
              /\ SetAside(j)
    BY DEF Commit, LockFree, counts
  <1>2. /\ j.plan = plans + 1 /\ j.file = f /\ j.from = row[f] /\ j.to[1] = b
        /\ plans + 1 \in Plans
    BY <1>1, MoveIs, PlacesAssumption DEF UType, TypeOK, Plans
  <1>3. InQuarantine(row[f]) => ~InQuarantine(j.to)
    BY <1>1, <1>2 DEF Possible, InQuarantine
  <1>4. entry \in [Plans -> [Files -> {"none", "held", "restored"}]] /\ row \in [Files -> Names]
    BY DEF UType, TypeOK
  <1>5. SetAside(j) <=> entry' = IF InQuarantine(j.to)
                                 THEN [entry EXCEPT ![plans + 1][f] = "held"] ELSE entry
    BY <1>2 DEF SetAside
  <1> HIDE DEF j
  <1>6. row'[f] = j.to /\ \A g \in Files \ {f} : row'[g] = row[g]
    BY <1>1, <1>4
  <1>7. ASSUME InQuarantine(j.from), NEW p \in Plans, entry[p][f] = "held",
               entry' = [entry EXCEPT ![p][f] = "restored"]
        PROVE  /\ \A r \in Plans, g \in Files :
                     /\ entry[r][g] # "none" => entry'[r][g] # "none"
                     /\ g # f /\ entry[r][g] = "held" => entry'[r][g] = "held"
               /\ ~InQuarantine(row'[f])
               /\ entry'[p][f] # "none"
    BY <1>2, <1>3, <1>4, <1>6, <1>7
  <1>8. ASSUME ~(InQuarantine(j.from) /\ ~InQuarantine(j.to)), SetAside(j)
        PROVE  /\ \A r \in Plans, g \in Files :
                     /\ entry[r][g] # "none" => entry'[r][g] # "none"
                     /\ g # f /\ entry[r][g] = "held" => entry'[r][g] = "held"
               /\ InQuarantine(row'[f]) => entry'[plans + 1][f] = "held"
               /\ ~InQuarantine(row[f])
    BY <1>2, <1>3, <1>4, <1>5, <1>6, <1>8
  <1> QED BY <1>1, <1>2, <1>3, <1>6, <1>7, <1>8 DEF j

LEMMA SwapEnters ==
    ASSUME UType, NEW f \in Files, NEW g \in Files, NEW q \in Held, CommitSwap(f, g, q)
    PROVE  /\ pc \in {"idle", "gate", "wait"} /\ UNCHANGED << pc, cut, behind, hands >>
           /\ \A h \in Files \ {f, g} : row'[h] = row[h]
           /\ ~InQuarantine(row[f]) /\ row'[g] = row[f]
           /\ \A p \in Plans, h \in Files :
                 /\ entry[p][h] # "none" => entry'[p][h] # "none"
                 /\ h # g /\ entry[p][h] = "held" => entry'[p][h] = "held"
           /\ \E p \in Plans : entry'[p][f] = "held"
           /\ InQuarantine(row[g]) => \E p \in Plans : entry'[p][g] # "none"
  <1> DEFINE j == Move(disk, f, q)
  <1>1. /\ pc \in {"idle", "gate", "wait"} /\ UNCHANGED << pc, cut, behind, hands >>
        /\ row' = [row EXCEPT ![f] = j.to, ![g] = row[f]] /\ plans < MaxPlans
        /\ ~InQuarantine(row[f]) /\ f # g
        /\ \/ \E p \in Plans :
                 /\ entry[p][g] = "held"
                 /\ entry' = [entry EXCEPT ![plans + 1][f] = "held", ![p][g] = "restored"]
           \/ ~InQuarantine(row[g]) /\ SetAside(j)
    BY DEF CommitSwap, LockFree, counts
  <1>2. /\ j.plan = plans + 1 /\ j.file = f /\ j.to[1] = q /\ plans + 1 \in Plans
    BY <1>1, MoveIs, PlacesAssumption DEF UType, TypeOK, Plans, CommitSwap, Bases
  <1>3. entry \in [Plans -> [Files -> {"none", "held", "restored"}]] /\ row \in [Files -> Names]
    BY DEF UType, TypeOK
  <1>4. SetAside(j) => entry' = [entry EXCEPT ![plans + 1][f] = "held"]
    BY <1>2 DEF SetAside, InQuarantine
  <1> HIDE DEF j
  <1>5. row'[g] = row[f] /\ \A h \in Files \ {f, g} : row'[h] = row[h]
    BY <1>1, <1>3
  <1>6. ASSUME NEW p \in Plans, entry[p][g] = "held",
               entry' = [entry EXCEPT ![plans + 1][f] = "held", ![p][g] = "restored"]
        PROVE  /\ \A r \in Plans, h \in Files :
                     /\ entry[r][h] # "none" => entry'[r][h] # "none"
                     /\ h # g /\ entry[r][h] = "held" => entry'[r][h] = "held"
               /\ entry'[plans + 1][f] = "held"
               /\ entry'[p][g] # "none"
    BY <1>1, <1>2, <1>3, <1>6
  <1>7. ASSUME SetAside(j)
        PROVE  /\ \A r \in Plans, h \in Files :
                     /\ entry[r][h] # "none" => entry'[r][h] # "none"
                     /\ h # g /\ entry[r][h] = "held" => entry'[r][h] = "held"
               /\ entry'[plans + 1][f] = "held"
    BY <1>1, <1>2, <1>3, <1>4, <1>7
  <1> QED BY <1>1, <1>2, <1>5, <1>6, <1>7

\* What the statement about the entries does, and a crash.
LEMMA EntriesDoes ==
    ASSUME UType, Entries
    PROVE  /\ pc = "entries" /\ pc' = "gate"
           /\ UNCHANGED << journal, row, behind, hands >>
           /\ cut' = IF Current \in behind THEN cut \cup {Current} ELSE cut \ {Current}
           /\ \A p \in Plans, f \in Files :
                 /\ entry[p][f] # "none" => entry'[p][f] # "none"
                 /\ entry[p][f] = "held" =>
                       \/ entry'[p][f] = "held"
                       \/ InQuarantine(This.to) /\ row[f] = This.from
                 /\ entry[p][f] # "none" /\ ~InQuarantine(This.to) /\ InQuarantine(This.from)
                       /\ row[f] = landed => entry'[p][f] = "held"
  <1>1. /\ pc = "entries" /\ pc' = "gate"
        /\ UNCHANGED << journal, row, behind, hands >>
        /\ cut' = IF Current \in behind THEN cut \cup {Current} ELSE cut \ {Current}
    BY DEF Entries, NextOne, index, counts
  <1>2. entry \in [Plans -> [Files -> {"none", "held", "restored"}]]
    BY DEF UType, TypeOK
  <1>3. ASSUME NEW p \in Plans, NEW f \in Files
        PROVE  entry'[p][f] = IF InQuarantine(This.to) /\ p = This.plan /\ row[f] = This.from
                                 /\ entry[p][f] = "held" THEN "restored"
                              ELSE IF ~InQuarantine(This.to) /\ InQuarantine(This.from)
                                      /\ row[f] = landed /\ entry[p][f] = "restored" THEN "held"
                              ELSE entry[p][f]
    BY DEF Entries
  <1> QED BY <1>1, <1>2, <1>3

LEMMA CrashDoes ==
    ASSUME Crash
    PROVE  /\ pc' = "idle" /\ UNCHANGED << disk, row, entry, journal, hands >>
           /\ Past => Current \in cut'
           /\ cut \subseteq cut'
           /\ behind' \subseteq behind \cup {Current}
           /\ behind' # behind => Current \in cut'
BY DEF Crash, Forget, Past, files, index

\* The other steps leave the index, the entries and the journal.
LEMMA OtherSteps ==
    ASSUME [Next]_vars
    PROVE  \/ \E f \in Files, b \in Bases : Commit(f, b)
           \/ \E f, g \in Files, q \in Held : CommitSwap(f, g, q)
           \/ MoveBack \/ FoundBack \/ Record \/ Index \/ CatchUp \/ Entries \/ Crash
           \/ /\ UNCHANGED << journal, row, entry, cut, behind >>
              /\ pc \notin {"record", "index", "entries"} /\ pc' \notin {"record", "index", "entries"}
           \/ UNCHANGED vars
  <1>1. ASSUME \/ Gate \/ Busy \/ RefuseBack
               \/ \E p \in Plans : Press(p)
        PROVE  /\ UNCHANGED << journal, row, entry, cut, behind >>
               /\ pc \notin {"record", "index", "entries"} /\ pc' \notin {"record", "index", "entries"}
    BY <1>1 DEF Press, Gate, Forget, Busy, NextOne, RefuseBack, index
  <1>2. ASSUME \/ \E m \in Names : ByHand(m) \/ Claim(m)
               \/ Scan \/ \E f \in Files : ScanTooSoon(f)
        PROVE  /\ UNCHANGED << journal, row, entry, cut, behind >>
               /\ pc \notin {"record", "index", "entries"} /\ pc' \notin {"record", "index", "entries"}
    BY <1>2 DEF ByHand, Claim, Scan, ScanTooSoon, Looks, index
  <1> QED BY <1>1, <1>2 DEF Next, Reverse

LEMMA NextWhereItIs ==
    UType /\ LandedAt /\ IndexedNow /\ BehindIsCut /\ [Next]_vars
        => LandedAt' /\ IndexedNow' /\ BehindIsCut'
  <1> SUFFICES ASSUME UType, LandedAt, IndexedNow, BehindIsCut, [Next]_vars
               PROVE  LandedAt' /\ IndexedNow' /\ BehindIsCut'
    OBVIOUS
  <1>1. ASSUME pc' \notin {"record", "index", "entries"}, behind' \subseteq cut'
        PROVE  LandedAt' /\ IndexedNow' /\ BehindIsCut'
    BY <1>1 DEF LandedAt, IndexedNow, BehindIsCut, Past
  <1>2. ASSUME NEW f \in Files, NEW b \in Bases, Commit(f, b)
        PROVE  LandedAt' /\ IndexedNow' /\ BehindIsCut'
    <2>1. pc \in {"idle", "gate", "wait"} /\ UNCHANGED << pc, cut, behind >>
      BY <1>2, CommitEnters
    <2> QED BY <1>1, <2>1 DEF BehindIsCut
  <1>3. ASSUME NEW f \in Files, NEW g \in Files, NEW q \in Held, CommitSwap(f, g, q)
        PROVE  LandedAt' /\ IndexedNow' /\ BehindIsCut'
    <2>1. pc \in {"idle", "gate", "wait"} /\ UNCHANGED << pc, cut, behind >>
      BY <1>3, SwapEnters
    <2> QED BY <1>1, <2>1 DEF BehindIsCut
  <1>4. ASSUME MoveBack \/ FoundBack
        PROVE  LandedAt' /\ IndexedNow' /\ BehindIsCut'
    <2>1. /\ pc = "wait" /\ pc' = "record" /\ UNCHANGED << journal, todo, cut, behind >>
          /\ landed'[1] = This.from[1]
      BY <1>4 DEF MoveBack, FoundBack
    <2>2. This' = This
      BY <2>1 DEF This, Current
    <2> QED BY <2>1, <2>2 DEF LandedAt, IndexedNow, BehindIsCut, Past
  <1>5. CASE Record
    <2>1. (\A h \in Rows : journal'[h] = journal[h]) /\ Current \in Rows
      BY <1>5, RecordAdds
    <2>2. pc = "record" /\ pc' = "index" /\ UNCHANGED << todo, landed, cut, behind >>
      BY <1>5 DEF Record, memory
    <2>3. This' = This
      BY <2>1, <2>2 DEF This, Current
    <2> QED BY <2>2, <2>3 DEF LandedAt, IndexedNow, BehindIsCut, Past
  <1>6. CASE Index
    <2>1. /\ pc = "index" /\ journal' = journal /\ behind \subseteq cut /\ cut \subseteq cut'
          /\ behind' \subseteq behind \cup {Current}
          /\ \/ pc' = "idle" /\ Current \in cut'
             \/ /\ pc' = "entries" /\ UNCHANGED << todo, landed >>
                /\ row'[This.file] = landed \/ Current \in behind'
      BY <1>6, IndexDoes DEF BehindIsCut
    <2>2. CASE pc' = "idle" /\ Current \in cut'
      BY <1>1, <2>1, <2>2
    <2>3. CASE /\ pc' = "entries" /\ UNCHANGED << todo, landed >>
               /\ row'[This.file] = landed \/ Current \in behind'
      <3>1. This' = This /\ Current' = Current
        BY <2>1, <2>3 DEF This, Current
      <3> QED BY <2>1, <2>3, <3>1 DEF LandedAt, IndexedNow, BehindIsCut, Past
    <2> QED BY <2>1, <2>2, <2>3
  <1>7. CASE CatchUp
    <2>1. /\ pc = "wait" /\ pc' \in {"idle", "gate"} /\ cut \subseteq cut'
          /\ behind' \ behind \subseteq cut'
      BY <1>7, CatchUpDoes
    <2> QED BY <1>1, <2>1 DEF BehindIsCut
  <1>8. CASE Entries
    <2>1. /\ pc = "entries" /\ pc' = "gate" /\ behind' = behind
          /\ cut' = IF Current \in behind THEN cut \cup {Current} ELSE cut \ {Current}
      BY <1>8, EntriesDoes
    <2> QED BY <1>1, <2>1 DEF BehindIsCut
  <1>9. CASE Crash
    <2>1. /\ pc' = "idle" /\ cut \subseteq cut' /\ (Past => Current \in cut')
          /\ behind' \subseteq behind \cup {Current} /\ (behind' # behind => Current \in cut')
      BY <1>9, CrashDoes
    <2> QED BY <1>1, <2>1 DEF BehindIsCut, Past
  <1>10. CASE /\ UNCHANGED << journal, row, entry, cut, behind >>
              /\ pc \notin {"record", "index", "entries"}
              /\ pc' \notin {"record", "index", "entries"}
    BY <1>1, <1>10 DEF BehindIsCut
  <1>11. CASE UNCHANGED vars
    <2>1. UNCHANGED << pc, landed, journal, todo, row, behind, cut >>
      BY <1>11 DEF vars, memory, index
    <2>2. This' = This /\ Current' = Current
      BY <2>1 DEF This, Current
    <2> QED BY <2>1, <2>2 DEF LandedAt, IndexedNow, BehindIsCut, Past
  <1> QED BY <1>2, <1>3, <1>4, <1>5, <1>6, <1>7, <1>8, <1>9, <1>10, <1>11, OtherSteps

LEMMA NextEntered == UType /\ UndoAt /\ Entered /\ [Next]_vars => Entered'
  <1> SUFFICES ASSUME UType, Entered, [Next]_vars PROVE Entered'
    OBVIOUS
  <1> DEFINE Enters(j) == j.way = "forward" /\ InQuarantine(j.from) =>
                             /\ ~InQuarantine(j.to)
                             /\ \E p \in Plans : entry'[p][j.file] # "none"
  <1>1. ASSUME \A p \in Plans, f \in Files : entry[p][f] # "none" => entry'[p][f] # "none",
               NEW h \in Rows, journal'[h] = journal[h]
        PROVE  Enters(journal'[h])
    <2>1. journal[h].file \in Files
      BY <1>1, RowsAre DEF UType, Op
    <2> QED BY <1>1, <2>1 DEF Entered
  <1>2. ASSUME UNCHANGED << journal, entry >>
        PROVE  Entered'
    BY <1>2 DEF Entered, Rows
  <1>3. ASSUME NEW f \in Files, NEW b \in Bases, Commit(f, b)
        PROVE  Entered'
    <2> DEFINE j == Move(disk, f, b)
    <2>1. /\ Rows' = Rows \cup {Len(journal) + 1}
          /\ \A h \in Rows : journal'[h] = journal[h]
          /\ journal'[Len(journal) + 1] = j /\ j.file = f /\ j.from = row[f]
      BY <1>3, CommitAdds
    <2>2. /\ \A p \in Plans, g \in Files : entry[p][g] # "none" => entry'[p][g] # "none"
          /\ InQuarantine(row[f]) => /\ ~InQuarantine(j.to)
                                     /\ \E p \in Plans : entry'[p][f] # "none"
      BY <1>3, CommitEnters
    <2> HIDE DEF j
    <2>3. Enters(j)
      BY <2>1, <2>2
    <2>4. \A h \in Rows' : Enters(journal'[h])
      BY <1>1, <2>1, <2>2, <2>3
    <2> QED BY <2>4 DEF Entered
  <1>4. ASSUME NEW f \in Files, NEW g \in Files, NEW q \in Held, CommitSwap(f, g, q)
        PROVE  Entered'
    <2> DEFINE j == Move(disk, f, q)
               k == [plan |-> plans + 1, file |-> g, way |-> "forward",
                     from |-> row[g], to |-> row[f]]
    <2>1. /\ Rows' = Rows \cup {Len(journal) + 1, Len(journal) + 2}
          /\ \A h \in Rows : journal'[h] = journal[h]
          /\ journal'[Len(journal) + 1] = j /\ journal'[Len(journal) + 2] = k
          /\ j.from = row[f]
      BY <1>4, SwapAdds
    <2>2. /\ \A p \in Plans, h \in Files : entry[p][h] # "none" => entry'[p][h] # "none"
          /\ ~InQuarantine(row[f])
          /\ InQuarantine(row[g]) => \E p \in Plans : entry'[p][g] # "none"
      BY <1>4, SwapEnters
    <2>3. Enters(k)
      BY <2>2
    <2> HIDE DEF j, k
    <2>4. \A h \in Rows' : Enters(journal'[h])
      BY <1>1, <2>1, <2>2, <2>3
    <2> QED BY <2>4 DEF Entered
  <1>5. CASE Record
    <2>1. /\ Rows' = Rows \cup {Len(journal) + 1}
          /\ \A h \in Rows : journal'[h] = journal[h]
          /\ journal'[Len(journal) + 1].way = "back"
      BY <1>5, RecordAdds
    <2>2. entry' = entry
      BY <1>5 DEF Record
    <2>3. \A h \in Rows' : Enters(journal'[h])
      BY <1>1, <2>1, <2>2
    <2> QED BY <2>3 DEF Entered
  <1>6. CASE Entries
    <2>1. /\ journal' = journal
          /\ \A p \in Plans, f \in Files : entry[p][f] # "none" => entry'[p][f] # "none"
      BY <1>6, EntriesDoes
    <2>2. \A h \in Rows : Enters(journal'[h])
      BY <1>1, <2>1
    <2> QED BY <2>1, <2>2 DEF Entered, Rows
  <1>7. ASSUME MoveBack \/ FoundBack
        PROVE  Entered'
    BY <1>2, <1>7 DEF MoveBack, FoundBack
  <1>8. ASSUME Index \/ CatchUp \/ Crash
        PROVE  Entered'
    BY <1>2, <1>8, IndexDoes, CatchUpDoes, CrashDoes
  <1>9. CASE UNCHANGED vars
    BY <1>2, <1>9 DEF vars
  <1> QED BY <1>2, <1>3, <1>4, <1>5, <1>6, <1>7, <1>8, <1>9, OtherSteps

LEMMA NextListed == UType /\ UndoAt /\ Told /\ KInv /\ LInv /\ [Next]_vars => Listed'
  <1> SUFFICES ASSUME UType, UndoAt, Told, KInv, LInv, [Next]_vars, hands' = 0,
                      NEW f \in Files, f \notin FilesOf(cut)', ~(Past /\ This.file = f)',
                      InQuarantine(row'[f])
               PROVE  \E p \in Plans : entry'[p][f] = "held"
    BY DEF Listed
  <1>0. hands = 0 /\ cut \subseteq Rows
    BY Counted DEF Told, UType, TypeOK
  <1>1. ASSUME f \notin FilesOf(cut), ~(Past /\ This.file = f), row'[f] = row[f]
        PROVE  \E p \in Plans : entry[p][f] = "held"
    BY <1>0, <1>1 DEF LInv, Listed
  <1>2. ASSUME NEW g \in Files, NEW b \in Bases, Commit(g, b)
        PROVE  \E p \in Plans : entry'[p][f] = "held"
    <2>1. \A h \in Rows : journal'[h] = journal[h]
      BY <1>2, CommitAdds
    <2>2. /\ pc \in {"idle", "gate", "wait"} /\ UNCHANGED << pc, cut >>
          /\ \A h \in Files \ {g} : row'[h] = row[h]
          /\ \A p \in Plans, h \in Files : h # g /\ entry[p][h] = "held" => entry'[p][h] = "held"
          /\ InQuarantine(row'[g]) => \E p \in Plans : entry'[p][g] = "held"
      BY <1>2, CommitEnters
    <2>3. f \notin FilesOf(cut) /\ ~Past
      BY <1>0, <2>1, <2>2, SameFiles DEF Past
    <2> QED BY <1>1, <2>2, <2>3
  <1>3. ASSUME NEW a \in Files, NEW g \in Files, NEW q \in Held, CommitSwap(a, g, q)
        PROVE  \E p \in Plans : entry'[p][f] = "held"
    <2>1. \A h \in Rows : journal'[h] = journal[h]
      BY <1>3, SwapAdds
    <2>2. /\ pc \in {"idle", "gate", "wait"} /\ UNCHANGED << pc, cut >>
          /\ \A h \in Files \ {a, g} : row'[h] = row[h]
          /\ ~InQuarantine(row[a]) /\ row'[g] = row[a]
          /\ \A p \in Plans, h \in Files : h # g /\ entry[p][h] = "held" => entry'[p][h] = "held"
          /\ \E p \in Plans : entry'[p][a] = "held"
      BY <1>3, SwapEnters
    <2>3. f \notin FilesOf(cut) /\ ~Past
      BY <1>0, <2>1, <2>2, SameFiles DEF Past
    <2> QED BY <1>1, <2>2, <2>3
  <1>4. ASSUME MoveBack \/ FoundBack
        PROVE  \E p \in Plans : entry'[p][f] = "held"
    <2>1. pc = "wait" /\ UNCHANGED << journal, row, entry, cut >>
      BY <1>4 DEF MoveBack, FoundBack, index
    <2>2. f \notin FilesOf(cut) /\ ~Past
      BY <2>1 DEF Past, FilesOf
    <2> QED BY <1>1, <2>1, <2>2
  <1>5. CASE Record
    <2>1. (\A h \in Rows : journal'[h] = journal[h]) /\ Current \in Rows
      BY <1>5, RecordAdds
    <2>2. pc = "record" /\ pc' = "index" /\ UNCHANGED << todo, row, entry, cut >>
      BY <1>5 DEF Record, memory, index
    <2>3. This' = This
      BY <2>1, <2>2 DEF This, Current
    <2>4. f \notin FilesOf(cut) /\ ~(Past /\ This.file = f)
      BY <1>0, <2>1, <2>2, <2>3, SameFiles DEF Past
    <2> QED BY <1>1, <2>2, <2>4
  <1>6. CASE Index
    <2>1. /\ pc = "index" /\ UNCHANGED << disk, journal, entry >>
          /\ (row[f] # This.to => row'[f] = row[f]) /\ cut \subseteq cut'
          /\ \/ pc' = "idle" /\ Current \in cut'
             \/ pc' = "entries" /\ UNCHANGED todo
      BY <1>6, IndexDoes
    <2>2. f # This.file
      BY <2>1 DEF Past, This, Current, FilesOf
    <2>3. f \notin FilesOf(cut) /\ f \notin FilesOf(behind)
      BY <2>1 DEF LInv, BehindIsCut, FilesOf
    <2>4. disk[row[f]] = f
      BY <1>0, <2>2, <2>3 DEF KInv, AtItsRow, InHand
    <2>5. disk[This.to] = Nothing /\ Nothing \notin Files
      BY <2>1, PlacesAssumption DEF KInv, Carried
    <2> QED BY <1>1, <2>1, <2>2, <2>3, <2>4, <2>5
  <1>7. CASE CatchUp
    <2>1. /\ pc = "wait" /\ UNCHANGED << journal, entry >> /\ disk[This.to] = Nothing
          /\ (row[f] # This.to => row'[f] = row[f]) /\ cut \subseteq cut'
      BY <1>7, CatchUpDoes
    <2>2. f \notin FilesOf(cut) /\ f \notin FilesOf(behind)
      BY <2>1 DEF LInv, BehindIsCut, FilesOf
    <2>3. disk[row[f]] = f
      BY <1>0, <2>1, <2>2 DEF KInv, AtItsRow, InHand
    <2> QED BY <1>1, <2>1, <2>2, <2>3, PlacesAssumption DEF Past
  <1>8. CASE Entries
    <2>1. /\ pc = "entries" /\ UNCHANGED << journal, row, behind >>
          /\ cut' = IF Current \in behind THEN cut \cup {Current} ELSE cut \ {Current}
          /\ \A p \in Plans :
                /\ entry[p][f] = "held" =>
                      \/ entry'[p][f] = "held"
                      \/ InQuarantine(This.to) /\ row[f] = This.from
                /\ entry[p][f] # "none" /\ ~InQuarantine(This.to) /\ InQuarantine(This.from)
                      /\ row[f] = landed => entry'[p][f] = "held"
      BY <1>8, EntriesDoes
    <2>2. This.way = "forward" /\ Current \in Rows /\ This.file \in Files
      BY <2>1, CurrentIs DEF UndoAt, Forward, This, Op
    <2>3. InQuarantine(This.from) => /\ ~InQuarantine(This.to)
                                     /\ \E p \in Plans : entry[p][This.file] # "none"
      BY <2>2 DEF LInv, Entered, This
    <2>4. CASE f = This.file
      <3>1. Current \notin behind
        BY <2>1, <2>4 DEF FilesOf, This
      <3>2. row[f] = landed /\ landed[1] = This.from[1]
        BY <2>1, <2>4, <3>1 DEF LInv, IndexedNow, LandedAt, Past
      <3>3. InQuarantine(This.from)
        BY <2>1, <3>2 DEF InQuarantine
      <3> QED BY <2>1, <2>3, <2>4, <3>2, <3>3
    <2>5. CASE f # This.file
      <3>1. f \notin FilesOf(cut)
        BY <2>1, <2>5 DEF FilesOf, This
      <3>2. PICK p \in Plans : entry[p][f] = "held"
        BY <1>1, <2>1, <2>5, <3>1
      <3>3. ~(InQuarantine(This.to) /\ row[f] = This.from)
        BY <2>1, <2>3
      <3> QED BY <2>1, <3>2, <3>3
    <2> QED BY <2>4, <2>5
  <1>9. CASE Crash
    <2>1. /\ UNCHANGED << row, entry, journal >> /\ (Past => Current \in cut') /\ cut \subseteq cut'
      BY <1>9, CrashDoes
    <2>2. f \notin FilesOf(cut) /\ ~(Past /\ This.file = f)
      BY <2>1 DEF FilesOf, This
    <2> QED BY <1>1, <2>1, <2>2
  <1>10. CASE /\ UNCHANGED << journal, row, entry, cut, behind >>
              /\ pc \notin {"record", "index", "entries"}
              /\ pc' \notin {"record", "index", "entries"}
    <2>1. f \notin FilesOf(cut) /\ ~Past
      BY <1>10 DEF FilesOf, Past
    <2> QED BY <1>1, <1>10, <2>1
  <1>11. CASE UNCHANGED vars
    <2>1. UNCHANGED << pc, todo, journal, row, entry, cut >>
      BY <1>11 DEF vars, memory, index
    <2>2. This' = This /\ FilesOf(cut)' = FilesOf(cut) /\ Past' = Past
      BY <2>1 DEF This, Current, FilesOf, Past
    <2> QED BY <1>1, <2>1, <2>2
  <1> QED BY <1>2, <1>3, <1>4, <1>5, <1>6, <1>7, <1>8, <1>9, <1>10, <1>11, OtherSteps

LEMMA SpecLInv == Spec => []LInv
  <1>1. UType /\ UndoAt /\ Told /\ KInv /\ LInv /\ [Next]_vars => LInv'
    BY NextWhereItIs, NextEntered, NextListed DEF LInv
  <1> QED BY <1>1, InitLInv, SpecKInv, SpecJInv, PTL DEF Spec, JInv

(* Every file in quarantine is listed there, whatever was decided and undone, but for the
   files of which an undo ended before its last statement: the entry that an undo of a
   restore must bring back is still there to be brought back. *)
THEOREM QuarantineIsListed == Spec => []ListedWhileHeld
  <1>1. LInv => ListedWhileHeld
    BY DEF LInv, Listed, ListedWhileHeld, Idle, Past
  <1> QED BY <1>1, SpecLInv, PTL
=============================================================================
