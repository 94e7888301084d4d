-------------------------- MODULE ReprocessContract --------------------------
(***************************************************************************)
(* What reprocessing promises about one user's transactions table: the     *)
(* rows are recorded before they are deleted, a deletion is always         *)
(* followed by the return of every recorded row, and a job that stops      *)
(* in between is never taken for one that finished.                        *)
(***************************************************************************)
CONSTANT Tx

VARIABLES
    rows,   \* the transactions table
    owed,   \* ids recorded by the most recent backup
    phase   \* settled, rebuilding, or stranded until an operator steps in

vars == <<rows, owed, phase>>

\* Types of what the contract speaks of.
TypeOK ==
    /\ rows \in SUBSET Tx
    /\ owed \in SUBSET Tx
    /\ phase \in {"settled", "rebuilding", "stranded"}

Init ==
    /\ rows \in SUBSET Tx
    /\ owed = {}
    /\ phase = "settled"

\* New or replayed rows are written at any time.
Insert ==
    /\ \E t \in Tx : rows' = rows \cup {t}
    /\ UNCHANGED <<owed, phase>>

Record ==
    /\ phase = "settled"
    /\ owed' = rows
    /\ UNCHANGED <<rows, phase>>

Wipe ==
    /\ phase = "settled"
    /\ rows' = {}
    /\ phase' \in {"rebuilding", "stranded"}
    /\ UNCHANGED owed

Restore ==
    /\ phase = "rebuilding"
    /\ rows' = rows \cup owed
    /\ phase' = "settled"
    /\ UNCHANGED owed

Verified ==
    /\ phase = "rebuilding"
    /\ owed \subseteq rows
    /\ phase' = "settled"
    /\ UNCHANGED <<rows, owed>>

Strand ==
    /\ phase = "rebuilding"
    /\ phase' = "stranded"
    /\ UNCHANGED <<rows, owed>>

Recover ==
    /\ phase = "stranded"
    /\ rows' = rows \cup owed
    /\ phase' = "settled"
    /\ UNCHANGED owed

Next == Insert \/ Record \/ Wipe \/ Restore \/ Verified \/ Strand \/ Recover

Spec == Init /\ [][Next]_vars
=============================================================================
