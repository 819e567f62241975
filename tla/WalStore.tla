------------------------------ MODULE WalStore ------------------------------
(***************************************************************************)
(* What the write-ahead log promises the engine.  The log is the set of    *)
(* the sequence numbers that a process which starts now would replay: what *)
(* no checkpoint covers.  A number is in doubt until it is settled, which  *)
(* it is before its call returns; a stop takes numbers in doubt only, from *)
(* the end of the log.  All this holds until somebody writes behind a      *)
(* failure, or after a kill in the middle of a reclamation or a creation.  *)
(* From then on only what was settled is sure to be replayed, and if the   *)
(* failure left the descriptor inside the log, no more than the beginning  *)
(* of that.                                                                *)
(***************************************************************************)
EXTENDS Integers

CONSTANT Numbers    \* the sequence numbers that may be assigned

VARIABLES
    open,       \* a process uses the log
    log,        \* the numbers that a start would replay
    settled,    \* those of them that no stop takes away
    covered,    \* the numbers up to the checkpoint
    trouble,    \* who writes now writes behind a failure
    misplaced,  \* and what is written replaces the end of the log
    reliable    \* nobody has done so

vars == <<open, log, settled, covered, trouble, misplaced, reliable>>

Init ==
    /\ open = FALSE
    /\ log = {}
    /\ settled = {}
    /\ covered = {}
    /\ trouble = FALSE
    /\ misplaced = FALSE
    /\ reliable = TRUE

Open ==
    /\ ~open
    /\ open' = TRUE
    /\ UNCHANGED <<log, settled, covered, trouble, misplaced, reliable>>

\* A new number is above all that the log or the checkpoint knows.
Append(n) ==
    /\ open /\ reliable /\ ~trouble
    /\ \A m \in log \cup covered : m < n
    /\ log' = log \cup {n}
    /\ UNCHANGED <<open, settled, covered, trouble, misplaced, reliable>>

Settle ==
    /\ open /\ reliable
    /\ settled' \in SUBSET log
    /\ settled \subseteq settled'
    /\ UNCHANGED <<open, log, covered, trouble, misplaced, reliable>>

\* The checkpoint reaches a number of the log.
Covering(c) == covered' = covered \cup {n \in Numbers : n <= c}

Cover(c) ==
    /\ open /\ reliable
    /\ c \in log
    /\ Covering(c)
    /\ log' = log \ covered'
    /\ settled' = settled \ covered'
    /\ UNCHANGED <<open, trouble, misplaced, reliable>>

\* A call fails, or a scan has repaired what had failed.  Only a scan that fails
\* leaves the descriptor inside the log.
Trouble ==
    /\ reliable
    /\ trouble' \in BOOLEAN
    /\ misplaced' \in BOOLEAN
    /\ misplaced' => open /\ trouble'
    /\ UNCHANGED <<open, log, settled, covered, reliable>>

\* A kill interrupts at most the last write.
Stop ==
    /\ open /\ reliable
    /\ open' = FALSE
    /\ trouble' \in BOOLEAN
    /\ misplaced' = FALSE
    /\ \/ log' = log
       \/ \E n \in log \ settled :
             /\ \A m \in log : m <= n
             /\ log' = log \ {n}
    /\ UNCHANGED <<settled, covered, reliable>>

\* A power loss takes from the end of the log what is in doubt; what it leaves may
\* be settled, and a checkpoint that was in doubt is decided.
LosePower ==
    /\ reliable
    /\ open' = FALSE
    /\ trouble' = FALSE
    /\ misplaced' = FALSE
    /\ covered' = covered \/ \E c \in log : Covering(c)
    /\ \E lost \in SUBSET (log \ settled) :
          /\ \A n \in lost, m \in log \ lost : m < n
          /\ log' = (log \ lost) \ covered'
    /\ settled' \in SUBSET log'
    /\ settled \subseteq settled' \cup covered'
    /\ UNCHANGED reliable

\* Somebody writes behind a failure.
Break ==
    /\ open /\ reliable /\ trouble /\ ~misplaced
    /\ reliable' = FALSE
    /\ log' = settled
    /\ UNCHANGED <<open, settled, covered, trouble, misplaced>>

\* Somebody writes into the log: what was settled is sure to be there up to a point.
Overwrite ==
    /\ open /\ misplaced
    /\ reliable' = FALSE
    /\ \E kept \in SUBSET settled :
          /\ \A n \in kept, m \in settled \ kept : n < m
          /\ settled' = kept
    /\ log' = settled'
    /\ UNCHANGED <<open, covered, trouble, misplaced>>

\* Nothing else takes what was settled.
Endure ==
    /\ ~reliable
    /\ open' \in BOOLEAN
    /\ trouble' \in BOOLEAN
    /\ misplaced' \in BOOLEAN
    /\ covered \subseteq covered'
    /\ settled \subseteq settled' \cup covered'
    /\ log' = settled'
    /\ UNCHANGED reliable

\* A scan finds the log in order, or a new log is made, and no answer was given in
\* between.
Regain ==
    /\ ~reliable
    /\ reliable' = TRUE
    /\ open' = TRUE
    /\ trouble' = FALSE
    /\ misplaced' = FALSE
    /\ log' \in SUBSET (Numbers \ covered)
    /\ settled \subseteq log'
    /\ UNCHANGED <<settled, covered>>

Next ==
    \/ Open
    \/ \E n \in Numbers : Append(n)
    \/ Settle
    \/ \E c \in log : Cover(c)
    \/ Trouble
    \/ Stop
    \/ LosePower
    \/ Break
    \/ Overwrite
    \/ Endure
    \/ Regain

Spec == Init /\ [][Next]_vars
=============================================================================
