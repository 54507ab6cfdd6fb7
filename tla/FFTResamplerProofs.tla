------------------------ MODULE FFTResamplerProofs -------------------------
(***************************************************************************)
(* Proofs about the FFTResampler pool, for every set of workers and tasks  *)
(* and every window setting.                                               *)
(*                                                                         *)
(* TypeOK is not inductive by itself: completing a task adds task[w] to    *)
(* done, which is a task only because a worker inside runSingle holds one  *)
(* (HoldsTask).  FinishDrains needs more: every queued task is somewhere   *)
(* (Accounted), and when Finish's join returns the lane is empty and no    *)
(* worker holds a task (PoolShape).  IInv is their conjunction.            *)
(***************************************************************************)
EXTENDS FFTResampler, FiniteSetTheorems, TLAPS

USE WorkersAssumption, TasksAssumption, WindowAssumption

(* The lane's capacity is a natural number.                                *)
LEMMA CapacityNat == Capacity \in Nat
BY FS_CardinalityType DEF Capacity

LEMMA InitIInv == Init => IInv
<1> SUFFICES ASSUME Init PROVE IInv
  OBVIOUS
<1>1. TypeOK
  <2>1. lane \in Seq(Tasks) /\ Len(lane) <= Capacity
    BY CapacityNat DEF Init
  <2>2. wpc \in [Workers -> WorkerPCs] /\ task \in [Workers -> Tasks \cup {NoTask}]
    BY DEF Init, WorkerPCs
  <2>3. cache \in [Caches -> CacheStates]
    BY DEF Init, Caches, CacheStates
  <2>4. QED
    BY <2>1, <2>2, <2>3 DEF Init, TypeOK, CallerPCs
<1>2. HoldsTask /\ Accounted /\ NothingInvented
  BY DEF Init, HoldsTask, Accounted, NothingInvented, Queued, BusyPCs, WorkerPCs
<1>3. PoolShape
  BY DEF Init, PoolShape, BusyPCs, WorkerPCs
<1>4. NoTaskRunTwice
  BY DEF Init, NoTaskRunTwice, BusyPCs, WorkerPCs
<1>5. QED
  BY <1>1, <1>2, <1>3, <1>4 DEF IInv, PoolInv

(* Each step of the pool keeps PoolInv: one case per action.               *)
LEMMA NextPoolInv == IInv /\ [Next]_vars => PoolInv'
<1> SUFFICES ASSUME IInv, [Next]_vars PROVE PoolInv'
  OBVIOUS
<1> USE CapacityNat DEF IInv, PoolInv, TypeOK, HoldsTask, Accounted, NothingInvented, PoolShape, Queued,
        BusyPCs, WorkerPCs, CallerPCs, Caches, CacheStates
<1>1. CASE Start
  <2>1. TypeOK'
    BY <1>1 DEF Start
  <2>2. HoldsTask' /\ Accounted' /\ NothingInvented'
    BY <1>1 DEF Start
  <2>3. PoolShape'
    BY <1>1 DEF Start
  <2>4. QED
    BY <2>1, <2>2, <2>3
<1>2. ASSUME NEW t \in Tasks, AddTask(t) PROVE PoolInv'
  BY <1>2 DEF AddTask
<1>3. CASE FinishWriteEnd
  BY <1>3 DEF FinishWriteEnd
<1>4. CASE FinishJoin
  BY <1>4 DEF FinishJoin
<1>5. CASE Destroy
  <2>1. TypeOK' /\ HoldsTask'
    BY <1>5 DEF Destroy
  <2>2. Accounted' /\ NothingInvented'
    BY <1>5 DEF Destroy
  <2>3. PoolShape'
    BY <1>5 DEF Destroy
  <2>4. QED
    BY <2>1, <2>2, <2>3
<1>6. ASSUME NEW w \in Workers, WorkerRead(w) PROVE PoolInv'
  <2>1. TypeOK' /\ HoldsTask' /\ PoolShape'
    BY <1>6 DEF WorkerRead, Goto
  <2>4. NothingInvented'
    <3>1. \A i \in 1..Len(Tail(lane)) : Tail(lane)[i] \in Queued
      BY <1>6 DEF WorkerRead
    <3>2. Head(lane) \in Queued
      BY <1>6 DEF WorkerRead
    <3>3. QED
      BY <3>1, <3>2, <1>6 DEF WorkerRead, Goto
  <2>2. Accounted'
    <3> SUFFICES ASSUME NEW t \in submitted',
                        t \notin done',
                        ~\E v \in Workers : wpc'[v] \in BusyPCs /\ task'[v] = t
                 PROVE  t \in Queued'
      OBVIOUS
    <3>1. t # Head(lane)
      BY <1>6 DEF WorkerRead, Goto
    <3>2. PICK i \in 1..Len(lane) : lane[i] = t
      BY <1>6, <3>1 DEF WorkerRead, Goto
    <3>3. i # 1
      BY <3>1, <3>2, <1>6 DEF WorkerRead
    <3>4. i - 1 \in 1..Len(Tail(lane)) /\ Tail(lane)[i - 1] = t
      BY <3>2, <3>3, <1>6 DEF WorkerRead
    <3>5. QED
      BY <3>4, <1>6 DEF WorkerRead
  <2>3. QED
    BY <2>1, <2>2, <2>4
<1>7. ASSUME NEW w \in Workers, WorkerExit(w) PROVE PoolInv'
  BY <1>7 DEF WorkerExit, Goto
<1>8. ASSUME NEW w \in Workers, CheckWindow(w) PROVE PoolInv'
  BY <1>8 DEF CheckWindow, Goto
<1>9. ASSUME NEW w \in Workers, NEW c \in Caches, NEW from \in BusyPCs,
             NEW to \in BusyPCs, ResizeCache(w, c, from, to) \/ FillCache(w, c, from, to)
      PROVE PoolInv'
  BY <1>9 DEF ResizeCache, FillCache, Goto
<1>10. ASSUME NEW w \in Workers, Multiply(w) PROVE PoolInv'
  BY <1>10 DEF Multiply, Goto
<1>11. ASSUME NEW w \in Workers, Transform(w) \/ Unapply(w) PROVE PoolInv'
  BY <1>11 DEF Transform, Unapply, Complete, Goto
<1>12. CASE Terminated \/ UNCHANGED vars
  BY <1>12 DEF Terminated, vars
<1>13. QED
  BY <1>1, <1>2, <1>3, <1>4, <1>5, <1>6, <1>7, <1>8, <1>9, <1>10, <1>11, <1>12
  DEF Next, CallerStep, WorkerStep, MakeWindowRow, MakeWindowCol, MakeWindowOut

(* Each step keeps the tasks exclusive: one case per action that moves a   *)
(* task (onto the lane, off the lane, into done) or a worker in or out of  *)
(* runSingle.                                                              *)
LEMMA NextExclusive == IInv /\ [Next]_vars => NoTaskRunTwice'
<1> SUFFICES ASSUME IInv, [Next]_vars PROVE NoTaskRunTwice'
  OBVIOUS
<1> USE DEF IInv, PoolInv, TypeOK, BusyPCs, WorkerPCs
<1>1. CASE Start
  BY <1>1 DEF Start, NoTaskRunTwice
<1>2. ASSUME NEW t \in Tasks, AddTask(t) PROVE NoTaskRunTwice'
  <2>1. t \notin Queued /\ t \notin done
        /\ \A w \in Workers : wpc[w] \in BusyPCs => task[w] # t
    BY <1>2 DEF AddTask, NothingInvented
  <2>2. QED
    BY <1>2, <2>1 DEF AddTask, NoTaskRunTwice, Queued
<1>3. CASE FinishWriteEnd \/ Destroy
  BY <1>3 DEF FinishWriteEnd, Destroy, NoTaskRunTwice
<1>4. CASE FinishJoin
  BY <1>4 DEF FinishJoin, NoTaskRunTwice
<1>5. ASSUME NEW w \in Workers, WorkerRead(w) PROVE NoTaskRunTwice'
  <2>1. wpc[w] \notin BusyPCs /\ lane # <<>>
    BY <1>5 DEF WorkerRead
  <2>2. \A i \in 1..Len(Tail(lane)) : Tail(lane)[i] = lane[i + 1]
    BY <1>5 DEF WorkerRead
  <2>3. \A i \in 1..Len(Tail(lane)) : Tail(lane)[i] # Head(lane)
    BY <2>1, <2>2 DEF NoTaskRunTwice
  <2>4. QED
    BY <1>5, <2>1, <2>2, <2>3 DEF WorkerRead, Goto, NoTaskRunTwice
<1>6. ASSUME NEW w \in Workers, WorkerExit(w) \/ CheckWindow(w) \/ Multiply(w)
      PROVE NoTaskRunTwice'
  BY <1>6 DEF WorkerExit, CheckWindow, Multiply, Goto, NoTaskRunTwice
<1>7. ASSUME NEW w \in Workers, NEW c \in Caches, NEW from \in BusyPCs,
             NEW to \in BusyPCs, ResizeCache(w, c, from, to) \/ FillCache(w, c, from, to)
      PROVE NoTaskRunTwice'
  BY <1>7 DEF ResizeCache, FillCache, Goto, NoTaskRunTwice
<1>8. ASSUME NEW w \in Workers, Transform(w) \/ Unapply(w) PROVE NoTaskRunTwice'
  <2>1. wpc[w] \in BusyPCs /\ lane' = lane /\ UNCHANGED <<cpc, closed, submitted>>
    BY <1>8 DEF Transform, Unapply
  <2>2. CASE Complete(w)
    BY <2>1, <2>2 DEF Complete, Goto, NoTaskRunTwice
  <2>3. CASE ~Complete(w)
    BY <1>8, <2>3 DEF Transform, Unapply, Goto, NoTaskRunTwice
  <2>4. QED
    BY <2>2, <2>3
<1>9. CASE Terminated \/ UNCHANGED vars
  BY <1>9 DEF Terminated, vars, NoTaskRunTwice
<1>10. QED
  BY <1>1, <1>2, <1>3, <1>4, <1>5, <1>6, <1>7, <1>8, <1>9
  DEF Next, CallerStep, WorkerStep, MakeWindowRow, MakeWindowCol, MakeWindowOut, Caches

LEMMA NextIInv == IInv /\ [Next]_vars => IInv'
BY NextPoolInv, NextExclusive DEF IInv

(* IInv holds in every reachable state of the pool.                        *)
THEOREM Invariance == Spec => []IInv
BY InitIInv, NextIInv, PTL DEF Spec

(* Type correctness: every variable of the pool keeps its type, and the    *)
(* lane never holds more tasks than there are workers.                     *)
THEOREM TypeCorrect == Spec => []TypeOK
<1>1. IInv => TypeOK
  BY DEF IInv, PoolInv
<1>2. QED
  BY Invariance, <1>1, PTL

(* Finish returns only when every task the caller queued has its output    *)
(* complete (runThread drains the lane before leaving, the join waits for  *)
(* the task in hand), for any number of workers and tasks.                 *)
THEOREM FinishDrainsTheorem == Spec => []FinishDrains
<1>1. IInv => FinishDrains
  <2> SUFFICES ASSUME IInv, cpc \in {"finished", "destroyed"}
               PROVE  done = submitted
    BY DEF FinishDrains
  <2>1. lane = <<>> /\ \A w \in Workers : wpc[w] = "idle"
    BY DEF IInv, PoolInv, PoolShape
  <2>2. submitted \subseteq done
    BY <2>1 DEF IInv, PoolInv, Accounted, Queued, BusyPCs, WorkerPCs
  <2>3. done \subseteq submitted
    BY DEF IInv, PoolInv, NothingInvented
  <2>4. QED
    BY <2>2, <2>3
<1>2. QED
  BY Invariance, <1>1, PTL

(* The destructor destroys the FFTW plans only after every worker thread   *)
(* has been joined, for any number of workers.                             *)
THEOREM PlansOutliveWorkersTheorem == Spec => []PlansOutliveWorkers
<1>1. IInv => PlansOutliveWorkers
  BY DEF IInv, PoolInv, PoolShape, PlansOutliveWorkers
<1>2. QED
  BY Invariance, <1>1, PTL


-----------------------------------------------------------------------------
(* The refinement: each step of the pool is a step of the abstract         *)
(* Resampler under the mapping, or leaves the mapped state unchanged.      *)
LEMMA StepRefines == IInv /\ [Next]_vars => [R!ANext]_R!avars
<1> SUFFICES ASSUME IInv, [Next]_vars PROVE [R!ANext]_R!avars
  OBVIOUS
<1> USE DEF IInv, PoolInv, TypeOK, BusyPCs, WorkerPCs, AbstractPhase
<1>1. CASE Start
  BY <1>1 DEF Start, R!ANext, R!AStart
<1>2. ASSUME NEW t \in Tasks, AddTask(t) PROVE [R!ANext]_R!avars
  <2>1. R!AAdd(t)
    BY <1>2 DEF AddTask, R!AAdd, NothingInvented
  <2>2. QED
    BY <2>1 DEF R!ANext
<1>3. CASE FinishWriteEnd
  BY <1>3 DEF FinishWriteEnd, R!ANext, R!ABeginFinish
<1>4. CASE FinishJoin
  <2>1. lane = <<>> /\ \A w \in Workers : wpc[w] \notin BusyPCs
    BY <1>4, WorkersAssumption DEF FinishJoin, PoolShape
  <2>2. submitted \subseteq done
    BY <2>1 DEF Accounted, Queued
  <2>3. R!AEndFinish
    BY <1>4, <2>2 DEF FinishJoin, R!AEndFinish
  <2>4. QED
    BY <2>3 DEF R!ANext
<1>5. CASE Destroy
  BY <1>5 DEF Destroy, R!ANext, R!ADestroy
<1>6. ASSUME NEW w \in Workers, Transform(w) \/ Unapply(w) PROVE [R!ANext]_R!avars
  <2>1. wpc[w] \in BusyPCs /\ UNCHANGED <<cpc, submitted>>
    BY <1>6 DEF Transform, Unapply
  <2>2. CASE Complete(w)
    <3>1. task[w] \in submitted /\ task[w] \notin done /\ cpc \in {"running", "joining"}
      BY <2>1 DEF HoldsTask, NothingInvented, NoTaskRunTwice, PoolShape
    <3>2. R!AResample(task[w])
      BY <2>1, <2>2, <3>1 DEF Complete, R!AResample
    <3>3. QED
      BY <3>2, <2>1 DEF R!ANext, HoldsTask
  <2>3. CASE ~Complete(w)
    BY <1>6, <2>3 DEF Transform, Unapply, R!avars, AbstractPhase
  <2>4. QED
    BY <2>2, <2>3
<1>7. ASSUME NEW w \in Workers,
             \/ WorkerRead(w) \/ WorkerExit(w) \/ CheckWindow(w) \/ Multiply(w)
             \/ MakeWindowRow(w) \/ MakeWindowCol(w) \/ MakeWindowOut(w)
      PROVE [R!ANext]_R!avars
  <2>1. CASE WorkerRead(w) \/ WorkerExit(w) \/ CheckWindow(w) \/ Multiply(w)
    BY <2>1 DEF WorkerRead, WorkerExit, CheckWindow, Multiply, R!avars
  <2>2. CASE MakeWindowRow(w) \/ MakeWindowCol(w) \/ MakeWindowOut(w)
    <3>1. UNCHANGED <<cpc, submitted, done>>
      BY <2>2 DEF MakeWindowRow, MakeWindowCol, MakeWindowOut, ResizeCache, FillCache
    <3>2. QED
      BY <3>1 DEF R!avars
  <2>3. QED
    BY <1>7, <2>1, <2>2
<1>8. CASE Terminated \/ UNCHANGED vars
  BY <1>8 DEF Terminated, vars, R!avars, AbstractPhase
<1>9. QED
  BY <1>1, <1>2, <1>3, <1>4, <1>5, <1>6, <1>7, <1>8 DEF Next, CallerStep, WorkerStep

(* The pool implements the safety part of the abstract Resampler, for any  *)
(* number of workers and tasks: the mapped initial state is the abstract   *)
(* one and every step maps to an abstract step or a stutter.              *)
THEOREM Refinement == Spec => R!ASafeSpec
<1>1. Init => R!AInit
  BY DEF Init, R!AInit, AbstractPhase
<1>2. QED
  BY <1>1, StepRefines, Invariance, PTL DEF Spec, R!ASafeSpec


-----------------------------------------------------------------------------
(***************************************************************************)
(* One worker thread (cpuCount = 1): the lazy window caches are complete   *)
(* whenever they are read.  The window run checks this with TLC, and the   *)
(* race run shows that it fails with two workers.                          *)
(***************************************************************************)

(* The states WindowBuild speaks of are functions on Caches.               *)
LEMMA CacheOfType ==
    ASSUME NEW r \in CacheStates, NEW c \in CacheStates, NEW o \in CacheStates
    PROVE  CacheOf(r, c, o) \in [Caches -> CacheStates]
BY DEF CacheOf, Caches

(* The constructor leaves every cache empty.                               *)
LEMMA InitWindowBuild ==
    ASSUME NEW w0 \in Workers, Init
    PROVE  WindowBuild(w0)
BY DEF Init, WindowBuild, NoCaches, CacheOf, Caches

(* A step of the only worker, or of the caller, keeps WindowBuild.         *)
LEMMA NextWindowBuild ==
    ASSUME NEW w0, Workers = {w0}, IInv, WindowBuild(w0), [Next]_vars
    PROVE  WindowBuild(w0)'
<1> USE DEF WindowBuild
<1>0. /\ wpc \in [Workers -> WorkerPCs] /\ cache \in [Caches -> CacheStates]
      /\ (cpc \in {"constructed", "finished"} => wpc[w0] = "idle")
  BY DEF IInv, PoolInv, TypeOK, PoolShape
<1>1. CASE Start
  BY <1>0, <1>1 DEF Start
<1>2. CASE FinishJoin
  BY <1>0, <1>2 DEF FinishJoin
<1>3. CASE \/ \E t \in Tasks : AddTask(t)
           \/ FinishWriteEnd \/ Destroy \/ Terminated \/ UNCHANGED vars
  BY <1>3 DEF AddTask, FinishWriteEnd, Destroy, Terminated, vars
<1>4. ASSUME NEW w \in Workers, WorkerStep(w) PROVE WindowBuild(w0)'
  <2>1. w = w0
    OBVIOUS
  <2>2. CASE WorkerRead(w)
    BY <1>0, <2>1, <2>2 DEF WorkerRead, Goto
  <2>9. CASE WorkerExit(w) \/ Multiply(w)
    BY <1>0, <2>1, <2>9 DEF WorkerExit, Multiply, Goto
  <2>3. CASE CheckWindow(w)
    BY <1>0, <2>1, <2>3 DEF CheckWindow, Goto, NoCaches, CachesBuilt, CacheOf
  <2>4. CASE MakeWindowRow(w)
    BY <1>0, <2>1, <2>4 DEF MakeWindowRow, ResizeCache, FillCache, Goto,
                            NoCaches, CacheOf, Caches
  <2>5. CASE MakeWindowCol(w)
    BY <1>0, <2>1, <2>5 DEF MakeWindowCol, ResizeCache, FillCache, Goto,
                            CachesBuilt, CacheOf, Caches
  <2>6. CASE MakeWindowOut(w)
    BY <1>0, <2>1, <2>6 DEF MakeWindowOut, ResizeCache, FillCache, Goto,
                            CachesBuilt, CacheOf, Caches
  <2>7. CASE Transform(w) \/ Unapply(w)
    BY <1>0, <2>1, <2>7 DEF Transform, Unapply, Complete, Goto
  <2>8. QED
    BY <1>4, <2>2, <2>3, <2>4, <2>5, <2>6, <2>7, <2>9 DEF WorkerStep
<1>5. QED
  BY <1>1, <1>2, <1>3, <1>4 DEF Next, CallerStep


(* With one worker thread, every read of a window cache, the multiply of   *)
(* applyWindow and the divide of unapplyWindow, finds it completely        *)
(* written, for every window function and correction setting and any      *)
(* number of tasks.  The cache race needs a second thread.                 *)
THEOREM WindowReadyOneWorker ==
    ASSUME NEW w0, Workers = {w0}
    PROVE  Spec => []WindowReadyBeforeUse
<1>1. Init => IInv /\ WindowBuild(w0)
  BY InitIInv, InitWindowBuild
<1>2. IInv /\ WindowBuild(w0) /\ [Next]_vars => (IInv /\ WindowBuild(w0))'
  BY NextIInv, NextWindowBuild
<1>3. WindowBuild(w0) => WindowReadyBeforeUse
  BY DEF WindowBuild, WindowReadyBeforeUse, CachesBuilt, CacheOf, Unwindowed
<1>4. QED
  BY <1>1, <1>2, <1>3, PTL DEF Spec

=============================================================================
