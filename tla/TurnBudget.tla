------------------------------- MODULE TurnBudget -------------------------------
(***************************************************************************)
(* What a training rollout promises the trainer: while it is open it hands *)
(* out turns 1..N, each at most once; a turn that was handed out is        *)
(* delivered; and the rollout closes only with every turn delivered.  The  *)
(* only other way out is the death of the process, in a rollout or outside *)
(* of one.                                                                 *)
(***************************************************************************)
EXTENDS Naturals

CONSTANT N      \* the turns the trainer asked for

VARIABLES open, granted, delivered, aborted
vars == <<open, granted, delivered, aborted>>

Init == open = FALSE /\ granted = {} /\ delivered = {} /\ aborted = FALSE

Open == /\ ~open /\ ~aborted
        /\ open' = TRUE
        /\ UNCHANGED <<granted, delivered, aborted>>

Grant == /\ open
         /\ \E t \in 1..N \ granted : granted' = granted \cup {t}
         /\ UNCHANGED <<open, delivered, aborted>>

Deliver == /\ open
           /\ \E t \in granted \ delivered : delivered' = delivered \cup {t}
           /\ UNCHANGED <<open, granted, aborted>>

Close == /\ open
         /\ delivered = 1..N
         /\ open' = FALSE /\ granted' = {} /\ delivered' = {}
         /\ UNCHANGED aborted

Abort == /\ ~aborted
         /\ open' = FALSE /\ granted' = {} /\ delivered' = {} /\ aborted' = TRUE

Next == Open \/ Grant \/ Deliver \/ Close \/ Abort

Spec == Init /\ [][Next]_vars
===============================================================================
