------------------------- MODULE MCExecutor -------------------------
(***************************************************************************)
(* The instances of Executor that TLC checks.  A plan of two operations is *)
(* the smallest in which one operation can be over while the other is not. *)
(***************************************************************************)
EXTENDS Executor, TLC

\* Two arrivals filed side by side.
TwoBases == {"inboxA", "inboxB", "libraryA", "libraryB"}
TwoSrc == (1 :> "inboxA") @@ (2 :> "inboxB")
TwoDest == (1 :> "libraryA") @@ (2 :> "libraryB")

\* "Use this instead" (quarantine_replace.py): the filed copy is set aside and the
\* held one takes its address.
SwapBases == {"library", "held", "aside"}
SwapSrc == (1 :> "library") @@ (2 :> "held")
SwapDest == (1 :> "aside") @@ (2 :> "library")

\* One file, out of quarantine or into it.
OneBases == {"from", "to"}
OneSrc == 1 :> "from"
OneDest == 1 :> "to"

======================================================================
