------------------------------ MODULE FileStore ------------------------------
(***************************************************************************)
(* What LibrAIry promises about every file a person gives it, whatever     *)
(* module moves it: a program step may rename a file to a free name, may   *)
(* put a second whole copy at a free name, and may take one copy away only *)
(* while another copy of the same bytes stands.  It never makes up bytes,  *)
(* never writes over a name in use and never removes the last copy         *)
(* (docs/PRODUCT.md:56 and :59).                                           *)
(*                                                                         *)
(* People act too, and nothing is promised about them: they may put        *)
(* anything anywhere.  hands counts their acts, so that a step of the      *)
(* program can be told from a step of theirs.                              *)
(***************************************************************************)
EXTENDS Naturals

CONSTANTS
    Places,     \* the names a file can have
    Contents,   \* whole contents of files
    Nothing     \* what a free name holds

VARIABLES
    held,       \* what each place holds
    hands       \* how many times a person has changed the store

store == << held, hands >>

Init ==
    /\ held \in [Places -> Contents \cup {Nothing}]
    /\ hands = 0

\* os.rename to a free name, on one filesystem
Rename(p, q) ==
    /\ held[p] # Nothing
    /\ held[q] = Nothing
    /\ held' = [held EXCEPT ![p] = Nothing, ![q] = held[p]]
    /\ UNCHANGED hands

\* A verified copy gets its real name; the original still stands.
Land(p, q) ==
    /\ held[p] # Nothing
    /\ held[q] = Nothing
    /\ held' = [held EXCEPT ![q] = held[p]]
    /\ UNCHANGED hands

\* One copy goes while another copy of the same bytes stays.
Leave(p) ==
    /\ \E q \in Places \ {p} : held[q] = held[p]
    /\ held' = [held EXCEPT ![p] = Nothing]
    /\ UNCHANGED hands

ByHand ==
    /\ \E p \in Places, c \in Contents \cup {Nothing} : held' = [held EXCEPT ![p] = c]
    /\ hands' = hands + 1

Next ==
    \/ \E p, q \in Places : Rename(p, q) \/ Land(p, q)
    \/ \E p \in Places : Leave(p)
    \/ ByHand

Spec == Init /\ [][Next]_store

==============================================================================
