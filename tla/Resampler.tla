----------------------------- MODULE Resampler ------------------------------
(***************************************************************************)
(* What FFTResampler promises its caller (spec.md sections 4.1 and 5),     *)
(* with no threads and no lane: between Start and the return of Finish the *)
(* caller adds tasks, and each added task is resampled, once and as one    *)
(* step; Finish first stops new tasks and returns only when every task is  *)
(* resampled; the resampler can be started again or destroyed after.      *)
(***************************************************************************)
CONSTANTS Tasks

Phases == {"constructed", "running", "finishing", "finished", "destroyed"}

VARIABLES
    phase,     \* where the caller is in the resampler's life
    pending,   \* tasks added and not yet resampled
    resampled  \* tasks whose output is complete

avars == <<phase, pending, resampled>>

ATypeOK ==
    /\ phase \in Phases
    /\ pending \in SUBSET Tasks
    /\ resampled \in SUBSET Tasks

AInit ==
    /\ phase = "constructed"
    /\ pending = {}
    /\ resampled = {}

AStart ==
    /\ phase \in {"constructed", "finished"}
    /\ phase' = "running"
    /\ UNCHANGED <<pending, resampled>>

(* A task is added once; its buffers are the caller's until Finish.        *)
AAdd(t) ==
    /\ phase = "running"
    /\ t \notin pending \cup resampled
    /\ pending' = pending \cup {t}
    /\ UNCHANGED <<phase, resampled>>

(* A pending task is resampled, while the pool runs or Finish waits.       *)
AResample(t) ==
    /\ phase \in {"running", "finishing"}
    /\ t \in pending
    /\ pending' = pending \ {t}
    /\ resampled' = resampled \cup {t}
    /\ UNCHANGED phase

ABeginFinish ==
    /\ phase = "running"
    /\ phase' = "finishing"
    /\ UNCHANGED <<pending, resampled>>

(* Finish returns only when nothing is pending.                            *)
AEndFinish ==
    /\ phase = "finishing"
    /\ pending = {}
    /\ phase' = "finished"
    /\ UNCHANGED <<pending, resampled>>

ADestroy ==
    /\ phase \in {"constructed", "finished"}
    /\ phase' = "destroyed"
    /\ UNCHANGED <<pending, resampled>>

ANext ==
    \/ AStart
    \/ \E t \in Tasks : AAdd(t) \/ AResample(t)
    \/ ABeginFinish
    \/ AEndFinish
    \/ ADestroy

ASafeSpec == AInit /\ [][ANext]_avars

(* Every added task is eventually resampled, and a Finish that has begun   *)
(* returns.                                                                *)
ASpec ==
    /\ ASafeSpec
    /\ \A t \in Tasks : WF_avars(AResample(t))
    /\ WF_avars(AEndFinish)

=============================================================================
