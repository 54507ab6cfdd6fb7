---------------------------- MODULE FFTResampler ----------------------------
(***************************************************************************)
(* The FFTResampler of src/fftresampler.cpp as a concurrent system: one    *)
(* caller thread that starts the worker pool, queues resample tasks on the *)
(* bounded lane and calls Finish and the destructor, and the pool's worker *)
(* threads, each running runThread: read a task, runSingle it.             *)
(*                                                                         *)
(* The images themselves are abstracted away: a task is a model value that *)
(* stands for its (input, output) buffer pair.  What is kept is the        *)
(* control of runSingle and of applyWindow, and the shared state every     *)
(* worker touches: the lane, the two FFTW plans and the three lazily built *)
(* window caches _windowRowIn, _windowColIn and _windowOut.                *)
(*                                                                         *)
(* A window cache is "empty" (the uvector has size 0), "sized" (resize has *)
(* run, the values are not yet written: ao::uvector leaves them            *)
(* uninitialised) or "ready".                                              *)
(*                                                                         *)
(* Start, AddTask and Finish live in fftresampler.h, which is not part of  *)
(* the sources: they are modelled from spec.md section 4.1 and 5.          *)
(***************************************************************************)
EXTENDS Naturals, Sequences, FiniteSets

CONSTANTS
    Workers,        \* the pool's threads; their number is the cpuCount
    Tasks,          \* the (input, output) buffer pairs the caller resamples
    NoTask,         \* what a worker that holds no task holds
    Window,         \* _windowFunction, fixed before the pool runs
    CorrectWindow   \* _correctWindow

WindowFunctions == {"Rectangular", "Tukey", "Hann"}

ASSUME WorkersAssumption == Workers # {} /\ IsFiniteSet(Workers)
ASSUME TasksAssumption == NoTask \notin Tasks
ASSUME WindowAssumption ==
    Window \in WindowFunctions /\ CorrectWindow \in BOOLEAN

(* The lane _tasks(cpuCount) holds as many tasks as there are workers.     *)
Capacity == Cardinality(Workers)

Caches == {"rowIn", "colIn", "out"}
CacheStates == {"empty", "sized", "ready"}

CallerPCs == {"constructed", "running", "joining", "finished", "destroyed"}

(* Where a worker is inside runThread / runSingle / applyWindow.           *)
WorkerPCs == {"idle", "read", "checkWin", "rowResize", "rowFill",
              "colResize", "colFill", "outResize", "outFill",
              "multiply", "transform", "unapply", "exited"}

(* The places at which a worker holds a task.                              *)
BusyPCs == WorkerPCs \ {"idle", "read", "exited"}

VARIABLES
    cpc,         \* the caller thread
    lane,        \* the queued tasks, oldest first
    closed,      \* write_end has been called on the lane
    submitted,   \* the tasks the caller has queued so far
    wpc,         \* wpc[w]: where worker w is
    task,        \* task[w]: the task worker w is running
    done,        \* the tasks whose output buffer is complete
    cache,       \* cache[c]: the state of window cache c
    plansAlive   \* _inToFPlan and _fToOutPlan have not been destroyed

vars == <<cpc, lane, closed, submitted, wpc, task, done, cache, plansAlive>>

TypeOK ==
    /\ cpc \in CallerPCs
    /\ lane \in Seq(Tasks) /\ Len(lane) <= Capacity
    /\ closed \in BOOLEAN
    /\ submitted \in SUBSET Tasks
    /\ wpc \in [Workers -> WorkerPCs]
    /\ task \in [Workers -> Tasks \cup {NoTask}]
    /\ done \in SUBSET Tasks
    /\ cache \in [Caches -> CacheStates]
    /\ plansAlive \in BOOLEAN

-----------------------------------------------------------------------------
(* The window branch of runSingle (line 54) is taken for every window but  *)
(* the rectangular one, and unapplyWindow (line 115) only when correction  *)
(* is on as well.                                                          *)
Windowed == Window # "Rectangular"
Unwindowed == CorrectWindow /\ Windowed

(* The constructor builds both plans; no thread runs yet.                  *)
Init ==
    /\ cpc = "constructed"
    /\ lane = <<>>
    /\ closed = FALSE
    /\ submitted = {}
    /\ wpc = [w \in Workers |-> "idle"]
    /\ task = [w \in Workers |-> NoTask]
    /\ done = {}
    /\ cache = [c \in Caches |-> "empty"]
    /\ plansAlive = TRUE

(* Start: one thread per lane slot, each entering runThread.  After a      *)
(* Finish the lane has been cleared and the pool may be started again.     *)
Start ==
    /\ cpc \in {"constructed", "finished"}
    /\ cpc' = "running"
    /\ wpc' = [w \in Workers |-> "read"]
    /\ closed' = FALSE
    /\ UNCHANGED <<lane, submitted, task, done, cache, plansAlive>>

(* Mutant of AddTask: a lane whose write never blocks.                     *)
AddTaskUnbounded(t) ==
    /\ cpc = "running"
    /\ t \notin submitted
    /\ lane' = Append(lane, t)
    /\ submitted' = submitted \cup {t}
    /\ UNCHANGED <<cpc, closed, wpc, task, done, cache, plansAlive>>

(* AddTask: the lane's write blocks while the lane is full.                *)
AddTask(t) ==
    /\ cpc = "running"
    /\ t \notin submitted
    /\ Len(lane) < Capacity
    /\ lane' = Append(lane, t)
    /\ submitted' = submitted \cup {t}
    /\ UNCHANGED <<cpc, closed, wpc, task, done, cache, plansAlive>>

(* Mutant of FinishWriteEnd: Finish that forgets write_end.                *)
FinishWithoutWriteEnd ==
    /\ cpc = "running"
    /\ cpc' = "joining"
    /\ UNCHANGED <<closed, lane, submitted, wpc, task, done, cache, plansAlive>>

(* Finish, first half: write_end on the lane, then block in the joins.     *)
FinishWriteEnd ==
    /\ cpc = "running"
    /\ closed' = TRUE
    /\ cpc' = "joining"
    /\ UNCHANGED <<lane, submitted, wpc, task, done, cache, plansAlive>>

(* Mutant of FinishJoin: the join does not wait for the threads.           *)
FinishJoinNoWait ==
    /\ cpc = "joining"
    /\ cpc' = "finished"
    /\ wpc' = [w \in Workers |-> "idle"]
    /\ lane' = <<>>
    /\ UNCHANGED <<closed, submitted, task, done, cache, plansAlive>>

(* Finish, second half: every thread has left runThread; the threads are   *)
(* joined and cleared and the lane is cleared.                             *)
FinishJoin ==
    /\ cpc = "joining"
    /\ \A w \in Workers : wpc[w] = "exited"
    /\ cpc' = "finished"
    /\ wpc' = [w \in Workers |-> "idle"]
    /\ lane' = <<>>
    /\ UNCHANGED <<closed, submitted, task, done, cache, plansAlive>>

(* Mutant of Destroy: a destructor that does not call Finish first.        *)
DestroyWithoutFinish ==
    /\ cpc \in {"constructed", "running", "finished"}
    /\ cpc' = "destroyed"
    /\ plansAlive' = FALSE
    /\ UNCHANGED <<lane, closed, submitted, wpc, task, done, cache>>

(* ~FFTResampler: Finish() (a no-op once the pool is joined, and with no   *)
(* thread to join before Start), then both plans are destroyed.  From a    *)
(* running pool the destructor's Finish is FinishWriteEnd and FinishJoin.  *)
Destroy ==
    /\ cpc \in {"constructed", "finished"}
    /\ cpc' = "destroyed"
    /\ plansAlive' = FALSE
    /\ UNCHANGED <<lane, closed, submitted, wpc, task, done, cache>>

-----------------------------------------------------------------------------
(* Moving worker w from one place to the next, nothing else changing.      *)
Goto(w, pc) == wpc' = [wpc EXCEPT ![w] = pc]

(* runThread: _tasks.read(task) hands out the oldest queued task; it       *)
(* blocks on an empty lane.  runSingle starts by zeroing the non-finite    *)
(* input samples, which touches the task's own buffer only, and then takes *)
(* the window branch or goes to the transforms.                            *)
WorkerRead(w) ==
    /\ wpc[w] = "read"
    /\ lane # <<>>
    /\ task' = [task EXCEPT ![w] = Head(lane)]
    /\ lane' = Tail(lane)
    /\ Goto(w, IF Windowed THEN "checkWin" ELSE "transform")
    /\ UNCHANGED <<cpc, closed, submitted, done, cache, plansAlive>>

(* Mutant of WorkerExit: the loop ends on write_end even with tasks left.  *)
WorkerExitUndrained(w) ==
    /\ wpc[w] = "read"
    /\ closed
    /\ Goto(w, "exited")
    /\ UNCHANGED <<cpc, lane, closed, submitted, task, done, cache, plansAlive>>

(* runThread: read returns false once the lane is empty and write_end has  *)
(* been called, and the thread leaves its loop.                            *)
WorkerExit(w) ==
    /\ wpc[w] = "read"
    /\ lane = <<>>
    /\ closed
    /\ Goto(w, "exited")
    /\ UNCHANGED <<cpc, lane, closed, submitted, task, done, cache, plansAlive>>

(* applyWindow, line 222: the caches are built only if _windowRowIn is     *)
(* empty.  There is no lock around this check.                             *)
CheckWindow(w) ==
    /\ wpc[w] = "checkWin"
    /\ Goto(w, IF cache["rowIn"] = "empty" THEN "rowResize" ELSE "multiply")
    /\ UNCHANGED <<cpc, lane, closed, submitted, task, done, cache, plansAlive>>

(* data.resize(width) in makeWindow / makeTukeyWindow, or                  *)
(* _windowOut.resize(...) in applyWindow: a vector that already has the    *)
(* size keeps its contents.                                                *)
ResizeCache(w, c, from, to) ==
    /\ wpc[w] = from
    /\ cache' = [cache EXCEPT ![c] = IF @ = "empty" THEN "sized" ELSE @]
    /\ Goto(w, to)
    /\ UNCHANGED <<cpc, lane, closed, submitted, task, done, plansAlive>>

(* The loop that writes every value of the cache.                          *)
FillCache(w, c, from, to) ==
    /\ wpc[w] = from
    /\ cache' = [cache EXCEPT ![c] = "ready"]
    /\ Goto(w, to)
    /\ UNCHANGED <<cpc, lane, closed, submitted, task, done, plansAlive>>

(* makeWindow(_windowRowIn, _inputWidth), lines 224 and 182-218.           *)
MakeWindowRow(w) ==
    \/ ResizeCache(w, "rowIn", "rowResize", "rowFill")
    \/ FillCache(w, "rowIn", "rowFill", "colResize")

(* Mutant of MakeWindowCol: the _correctWindow branch of applyWindow is    *)
(* lost, so _windowOut is never built.                                     *)
MakeWindowColNoCorrection(w) ==
    \/ ResizeCache(w, "colIn", "colResize", "colFill")
    \/ FillCache(w, "colIn", "colFill", "multiply")

(* makeWindow(_windowColIn, _inputHeight), line 225; then the correction   *)
(* image is built only when _correctWindow is set (line 226).              *)
MakeWindowCol(w) ==
    \/ ResizeCache(w, "colIn", "colResize", "colFill")
    \/ FillCache(w, "colIn", "colFill",
                 IF CorrectWindow THEN "outResize" ELSE "multiply")

(* Lines 228-243: _windowOut is resized, then filled by running the window *)
(* image through runSingle(task, true), which executes both plans and      *)
(* skips the window branch.                                                *)
MakeWindowOut(w) ==
    \/ ResizeCache(w, "out", "outResize", "outFill")
    \/ FillCache(w, "out", "outFill", "multiply")

(* Lines 246-253: the input is multiplied by _windowRowIn[x] *             *)
(* _windowColIn[y].  The caches are only read.                             *)
Multiply(w) ==
    /\ wpc[w] = "multiply"
    /\ Goto(w, "transform")
    /\ UNCHANGED <<cpc, lane, closed, submitted, task, done, cache, plansAlive>>

(* The end of the task: its output buffer is complete and the worker goes  *)
(* back to the lane.                                                       *)
Complete(w) ==
    /\ done' = done \cup {task[w]}
    /\ task' = [task EXCEPT ![w] = NoTask]
    /\ Goto(w, "read")

(* Lines 57-113: r2c with _inToFPlan, the spectral remap into a fresh      *)
(* buffer and c2r with _fToOutPlan into the output.  Then either           *)
(* unapplyWindow or the end of runSingle.                                  *)
Transform(w) ==
    /\ wpc[w] = "transform"
    /\ IF Unwindowed
       THEN Goto(w, "unapply") /\ UNCHANGED <<task, done>>
       ELSE Complete(w)
    /\ UNCHANGED <<cpc, lane, closed, submitted, cache, plansAlive>>

(* unapplyWindow, lines 256-262: the output is divided by _windowOut.      *)
Unapply(w) ==
    /\ wpc[w] = "unapply"
    /\ Complete(w)
    /\ UNCHANGED <<cpc, lane, closed, submitted, cache, plansAlive>>

(* One step of worker w.                                                   *)
WorkerStep(w) ==
    \/ WorkerRead(w)
    \/ WorkerExit(w)
    \/ CheckWindow(w)
    \/ MakeWindowRow(w)
    \/ MakeWindowCol(w)
    \/ MakeWindowOut(w)
    \/ Multiply(w)
    \/ Transform(w)
    \/ Unapply(w)

(* The program has ended once the resampler is destroyed.                  *)
Terminated ==
    /\ cpc = "destroyed"
    /\ UNCHANGED vars

CallerStep ==
    \/ Start
    \/ \E t \in Tasks : AddTask(t)
    \/ FinishWriteEnd
    \/ FinishJoin
    \/ Destroy

Next ==
    \/ CallerStep
    \/ \E w \in Workers : WorkerStep(w)
    \/ Terminated

(* Every worker is an OS thread and is scheduled; a join returns once the  *)
(* threads have ended.  Nothing obliges the caller to call Finish.         *)
Fairness ==
    /\ \A w \in Workers : WF_vars(WorkerStep(w))
    /\ WF_vars(FinishJoin)

Spec == Init /\ [][Next]_vars /\ Fairness

-----------------------------------------------------------------------------
(***************************************************************************)
(* Properties.                                                             *)
(***************************************************************************)

(* Finish returns only when every task the caller queued has its output    *)
(* complete: the caller reads the output buffers after Finish, so a worker *)
(* that left runThread with tasks still on the lane, or a join that did    *)
(* not wait for a running task, would hand back unfinished images.         *)
FinishDrains ==
    cpc \in {"finished", "destroyed"} => done = submitted

(* The destructor destroys the FFTW plans only after every worker thread   *)
(* has been joined: no thread can still execute a plan (fftw_execute_dft_* *)
(* in runSingle) or wait on the lane of a destroyed resampler.             *)
PlansOutliveWorkers ==
    ~plansAlive => \A w \in Workers : wpc[w] = "idle"

(* Whenever a worker reads a window cache, the cache has been completely   *)
(* written: applyWindow multiplies by _windowRowIn and _windowColIn, and   *)
(* unapplyWindow divides by _windowOut (spec section 5: the lazily built   *)
(* caches must be compute-once, read-many).                                *)
WindowReadyBeforeUse ==
    \A w \in Workers :
        /\ wpc[w] = "multiply" =>
               cache["rowIn"] = "ready" /\ cache["colIn"] = "ready"
        /\ wpc[w] = "unapply" => cache["out"] = "ready"

(* Every queued task is eventually resampled, with or without a Finish,    *)
(* and a Finish that has begun eventually returns (spec section 4.1: no    *)
(* cancellation, Finish blocks until drained).                             *)
Progress ==
    /\ \A t \in Tasks : t \in submitted ~> t \in done
    /\ cpc = "joining" ~> cpc = "finished"

-----------------------------------------------------------------------------
(***************************************************************************)
(* The pool implements the abstract Resampler: the caller's joining is     *)
(* Finish in progress, a task is pending from AddTask until its worker     *)
(* completes it, and that completion is the abstract resample step.        *)
(***************************************************************************)
AbstractPhase ==
    IF cpc = "joining" THEN "finishing" ELSE cpc

R == INSTANCE Resampler WITH
        phase <- AbstractPhase,
        pending <- submitted \ done,
        resampled <- done

(* Every behaviour of the pool is one the caller was promised: tasks are   *)
(* added only while running, each is resampled once, Finish returns only   *)
(* with nothing pending, and, under the threads' fairness, every added     *)
(* task is resampled and a begun Finish returns.                          *)
ImplementsResampler == R!ASpec

-----------------------------------------------------------------------------
(***************************************************************************)
(* The inductive invariant behind FinishDrains (proved in                  *)
(* FFTResamplerProofs).                                                    *)
(***************************************************************************)

(* The tasks still queued on the lane.                                     *)
Queued == {lane[i] : i \in 1..Len(lane)}

(* A worker inside runSingle holds a task.                                 *)
HoldsTask == \A w \in Workers : wpc[w] \in BusyPCs => task[w] \in Tasks

(* No queued task is lost: it is on the lane, held by a worker, or done.   *)
Accounted ==
    \A t \in submitted :
        \/ t \in Queued
        \/ t \in done
        \/ \E w \in Workers : wpc[w] \in BusyPCs /\ task[w] = t

(* Nothing is resampled that the caller did not queue.                    *)
NothingInvented ==
    /\ Queued \subseteq submitted
    /\ done \subseteq submitted
    /\ \A w \in Workers : wpc[w] \in BusyPCs => task[w] \in submitted

(* How the caller's place and the workers' places go together.            *)
PoolShape ==
    /\ ~plansAlive => cpc = "destroyed"
    /\ cpc = "running" => ~closed
    /\ cpc \in {"constructed", "finished", "destroyed"} =>
           lane = <<>> /\ \A w \in Workers : wpc[w] = "idle"
    /\ \A w \in Workers :
           wpc[w] = "exited" => cpc = "joining" /\ lane = <<>>
    /\ \A w \in Workers : wpc[w] = "read" => cpc \in {"running", "joining"}
    /\ \A w \in Workers : wpc[w] \in BusyPCs => cpc \in {"running", "joining"}

PoolInv == TypeOK /\ HoldsTask /\ Accounted /\ NothingInvented /\ PoolShape

(* Part of the inductive invariant: the lane never holds                    *)
(* a task twice, no two workers inside runSingle hold the same task, and a *)
(* task on the lane or in a worker's hands is not yet complete (two        *)
(* workers writing one output buffer, or a task read twice from the lane,  *)
(* would race on the caller's output image).                              *)
NoTaskRunTwice ==
    /\ \A i, j \in 1..Len(lane) : i # j => lane[i] # lane[j]
    /\ \A i \in 1..Len(lane) :
           /\ lane[i] \notin done
           /\ \A w \in Workers : wpc[w] \in BusyPCs => task[w] # lane[i]
    /\ \A v, w \in Workers :
           v # w /\ wpc[v] \in BusyPCs /\ wpc[w] \in BusyPCs => task[v] # task[w]
    /\ \A w \in Workers : wpc[w] \in BusyPCs => task[w] \notin done

IInv == PoolInv /\ NoTaskRunTwice


-----------------------------------------------------------------------------
(***************************************************************************)
(* The inductive invariant behind WindowReadyBeforeUse for one worker      *)
(* (proved in FFTResamplerProofs): where worker w is in applyWindow fixes  *)
(* the state of every cache, and outside the build the caches are either   *)
(* all empty or all built.  A second worker breaks it: its CheckWindow can *)
(* see _windowRowIn non-empty while w is still filling it.                 *)
(***************************************************************************)
CacheOf(r, c, o) == [rowIn |-> r, colIn |-> c, out |-> o]

NoCaches == CacheOf("empty", "empty", "empty")

CachesBuilt == CacheOf("ready", "ready", IF CorrectWindow THEN "ready" ELSE "empty")

WindowBuild(w) ==
    /\ wpc[w] = "rowResize" => cache = NoCaches
    /\ wpc[w] = "rowFill" => cache = CacheOf("sized", "empty", "empty")
    /\ wpc[w] = "colResize" => cache = CacheOf("ready", "empty", "empty")
    /\ wpc[w] = "colFill" => cache = CacheOf("ready", "sized", "empty")
    /\ wpc[w] = "outResize" => cache = CacheOf("ready", "ready", "empty") /\ CorrectWindow
    /\ wpc[w] = "outFill" => cache = CacheOf("ready", "ready", "sized") /\ CorrectWindow
    /\ wpc[w] \in {"idle", "read", "checkWin", "exited", "transform", "unapply"} =>
           cache \in {NoCaches, CachesBuilt}
    /\ wpc[w] = "multiply" => cache = CachesBuilt
    /\ wpc[w] \in {"transform", "unapply"} /\ Windowed => cache = CachesBuilt
    /\ wpc[w] = "unapply" => Unwindowed

=============================================================================
