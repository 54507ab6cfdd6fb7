# TLA+ models of wsclean-idg

This directory holds TLA+ specifications of the code under `src/`, TLC
configurations that model-check them, and TLAPS proofs. `PROJECT.json` lists
the components, the runs, the mutants, the map from each definition to the
source lines it models, the findings and the hazards.

## The system and its parts

| Part | Source | What it does |
|---|---|---|
| FFTResampler | `src/fftresampler.cpp` | Resamples images by zero-padding or cropping their spectrum. `cpuCount` worker threads (`runThread`) take tasks from a bounded lane (`ao::lane<Task>`) and run `runSingle`: an optional window, an r2c FFT, a spectral remap and a c2r FFT. The window tables are built lazily by the first task that needs them (`applyWindow`). `SingleFT` is a separate centred transform. |
| MultiScaleTransforms | `src/multiscale/multiscaletransforms.h` | Builds the multiscale kernels (tapered quadratic or Gaussian) and stamps one into an image (`AddShapeComponent`). |
| CommandLine | `src/main/commandline.cpp` | `ParseWithoutValidation` walks `argv`, sets `Settings`, and returns whether WSClean should run. `Validate` and `Run` hand over to `Settings` and `WSClean`. |
| LSDeconvolution | `src/deconvolution/lsdeconvolution.h` | Declarations only. |
| WSCFitsWriter | `src/io/wscfitswriter.h` | Declarations of FITS output. |
| Prediction example | `src/gridding/examples/wspredictionexample.cpp` | A sequential example program. |

How the parts interact:
- The command line chooses, among other settings, the multiscale shape: `-multiscale-shape`, and `-save-source-list` forces Gaussian.
- The resampler is used by the imaging code, which is not in `src/`. Its caller adds tasks between `Start` and `Finish`.
- The interaction that matters for correctness is internal to the resampler: its workers share the lane and the window caches.

## Modules

### FFTResampler.tla: the pool and the window caches

**State.**
- Caller: `cpc`, the caller's phase (constructed, running, joining, finished, destroyed); `submitted`, the tasks queued so far; `plansAlive`, whether the FFTW plans still exist.
- Lane: `lane`, a sequence of at most `Capacity = |Workers|` tasks; `closed`, whether `write_end` was called.
- Workers: `wpc[w]`, where worker `w` is in `runThread`/`runSingle`/`applyWindow`; `task[w]`, the task it holds; `done`, the completed tasks.
- Caches: `cache[c]` is `empty`, `sized` or `ready` for `_windowRowIn`, `_windowColIn` and `_windowOut`. `sized` means `resize` was called but the fill loop has not finished.

**Actions.**
- Caller: `Start`, `AddTask(t)` (which blocks on a full lane), `FinishWriteEnd`, `FinishJoin` and `Destroy` (the destructor: `Finish` and then `fftw_destroy_plan`).
- Workers:
  - `WorkerRead` and `WorkerExit` (the `_tasks.read` loop);
  - `CheckWindow` (the unlocked `_windowRowIn.empty()` test);
  - the resize and fill of each cache (`MakeWindowRow`, `MakeWindowCol`, `MakeWindowOut`);
  - `Multiply` (lines 246-253), `Transform` (lines 57-116) and `Unapply` (`unapplyWindow`).

  Each is one step, so the workers interleave at every point where the code touches shared state.

**Spec-modelled parts.** `Start`, `AddTask` and `Finish` are in `fftresampler.h`, which is not in `src/`. Their models follow the lane's documented semantics and are marked `spec_modelled` in the map.

**Fairness.** Each worker is weakly fair (`WF_vars(WorkerStep(w))`), as is the join (`FinishJoin`). Workers are OS threads that the scheduler runs, and a join returns once its thread has exited. The caller gets no fairness: it may never call `AddTask` or `Finish`.

### Resampler.tla: what the pool promises

`Resampler` is the abstract specification of the resampler, as its caller sees it, with no threads and no lane. `phase` is the caller's phase, `pending` the tasks added and not yet resampled, and `resampled` the tasks whose output is complete. `AAdd(t)` adds a task while running. `AResample(t)` completes a pending task in one step, while running or while `Finish` waits. `ABeginFinish` and `AEndFinish` bracket `Finish`; it returns only when nothing is pending. `ASpec` adds weak fairness on resampling and on the end of `Finish`.

`FFTResampler` implements it through `R == INSTANCE Resampler WITH phase <- AbstractPhase, pending <- submitted \ done, resampled <- done`. `AbstractPhase` maps `joining` to `finishing` and keeps every other phase. A task is pending from `AddTask` until the worker's last step on it (`Transform`, or `Unapply` with a corrected window), which is the abstract `AResample`. Reading from the lane, the window steps and `Multiply` are stutters, as are the two steps of `Finish` other than the join and the write end.

### SpectralRemap.tla: the index arithmetic of the transforms

The remap of `runSingle` (lines 69-105) is the set of copies `[src, dst]` between flat half-spectrum indices. `SingleFT` is modelled twice: its input shift (lines 121-140), the set of (`data` index, input index) pairs, as `SingleFTShift`; and the set of output pixels it writes (lines 148-177), as `SingleFTTargets`.

- `OldY` and `NewY` keep the `size_t` wrap, modulo `2^SizeBits`. `SizeBitsAssumption` ensures this gives the results that 64-bit `size_t` gives on the checked sides.
- The reference `ReferenceLowCopies` is defined independently, from frequencies: bin (fx, fy) holds column fx and row fy mod H.
- The state is the four grid sides, fixed per instance. Each property is checked for every combination of sides in `1..MaxSide`.

### MultiScaleShape.tla: kernel sizes and the clipped stamp

- `TaperedQuadraticKernelSize` and `GaussianKernelSize` compute the side `n` of the kernel for a scale `k/ScaleDen`. With that representation `ceil` is exact.
- `ShapeComponentWrites` is the set of (image pixel, kernel index) pairs that `AddShapeComponent` adds, with its loop bounds.
- It is compared with `ReferenceWrites`: every pixel under the kernel centred on (x, y) receives the sample at the same offset.
- `KernelSamplesWritten` is the set of kernel samples that `makeGaussianFunction` and `taperedQuadraticShapeFunction` write after the uninitialising `resize(n*n)`. At scale 0 the tapered quadratic kernel writes only `output2d[0]`. `KernelPeakIndex` is the sample that `KernelPeakValue` reads.

### CommandLine.tla: the argument loop

**State.**
- `argv`, from every sequence of up to `MaxArgs` tokens of `Tokens`.
- `argi`, and the `settings` fields the properties read.
- The locals `dryRun`, `mfWeighting` and `noMFWeighting`.
- `filenames`, and `result` (parsing, printed, dryrun, run, error, ub).
- `role[i]`, what the parse took `argv[i]` for. This is a history variable for the properties.

**Actions.** One action models each handler or class of handlers; `PROJECT.json` maps each to its lines.
- `Option(n, step, Valid, new)` is the common shape:
  - read `argv[argi+1..argi+n]` in order;
  - a value at or past `argc` is `"ub"`, and one that does not parse is `"error"` (an exception);
  - otherwise set the settings and advance `argi` by `step + 1`.
- `argv[argc]` is a null pointer. `std::string` or `strtol` of it is undefined behaviour, and so is reading `argv[argc+1]`.
- After the loop:
  - `NoInput` throws when there is no input and the mode is not a restore mode;
  - `Return` computes `mfWeighting`, collects the input files and returns `!dryRun`.
- `HaveIDG` is the build's `HAVE_IDG`.

## Runs

| Run | Expect | Shows |
|---|---|---|
| `pool` | pass | Two workers, three tasks and a lane of two. Finish returns only when every queued task is done (`FinishDrains`). The plans outlive the workers (`PlansOutliveWorkers`). The pool implements the abstract `Resampler`, fairness included (`ImplementsResampler`), so every added task is eventually resampled. `TypeOK` includes the lane bound, which `AddTask`'s capacity guard gives. |
| `window` | pass | One worker with a corrected Tukey window. The caches are ready whenever they are used (`WindowReadyBeforeUse`). Every queued task completes, and a started `Finish` returns (`Progress`). |
| `race` | violation | With two workers, `WindowReadyBeforeUse` fails. A worker multiplies by a `_windowRowIn` that another has resized but not filled. |
| `remap` | pass | All sides 1..6. The remap stays in bounds and writes each bin at most once (`RemapWellFormed`). The loop moves each common frequency to the same frequency (`RemapLowFrequencies`). `SingleFT`'s shift reads each input pixel once and puts the image centre at the FFT origin (`SingleFTInputCentred`). |
| `nyquist` | violation | For a narrower output, the extra column takes input column `inW/2` into output column `outW/2`, which is another frequency. |
| `singleft` | violation | For an odd width, `SingleFT` never writes the last column. |
| `stamp` | pass | For every image side up to 4, position, scale up to 6 px and shape: kernels are odd, and Gaussian kernels fit the image (`KernelSizeOdd`). The stamp adds exactly the overlapping samples (`ShapeComponentClipped`). Every kernel sample is written, the centre included, which at scale 0 depends on the size rule giving n = 1 (`KernelFullyWritten`). |
| `cmdline_options` | pass | Flags (including the beam-fitting ones), restore, version, unknown options and files. `argi` never passes `argc` (`TypeOK`), which the no-input check at line 1448, a test of `argi == argc` alone, relies on. Every argument is taken exactly once (`EveryArgumentOnce`). |
| `cmdline_values` | pass | Options with 1, 2, 3 or a variable number of values: no value is skipped or re-read as an option or file. |
| `cmdline_overrides` | pass | The handlers that force other settings, with enumerated and lower-bounded values: every argument is taken exactly once (`EveryArgumentOnce`). |
| `cmdline_overread` | violation | `wsclean -name` uses `argv[argc]`. |
| `cmdline_iuwt` | violation | `-iuwt -negative` runs IUWT with negative components, against the comment at line 961. |

Every property of a passing run has a mutant in `PROJECT.json`: a plausible bug in a mapped definition, which TLC catches under the run's configuration.

**Bounds.**
- Pool: two workers and three tasks make the lane fill, so `AddTask` blocks. They also let two workers race on the window caches and let a task be queued while another is processed.
- Remap: sides 1..6 cover odd and even sides, equal sizes, and up- and downsampling in each dimension, including side 1.
- Stamp: sides up to 4 with scales up to 6 px. This gives kernels smaller than, equal to and larger than the image, at every position including the corners.
- Command line: up to 4 arguments give an option with all its values followed by a file, or two options in both orders.

## Findings

1. **Window-cache data race** (`fftresampler.cpp:222`). The lazy initialisation in `applyWindow` is not synchronised. With more than one worker and a non-rectangular window, a task can be windowed with uninitialised values.
2. **Nyquist column from the wrong frequency** (`fftresampler.cpp:100-104`). When downsampling in width, output column `outW/2` gets input column `inW/2`. With `inW = 2` and `outW = 1` the loop copies nothing (`minMidX = 0`), and the output's only column, the DC bin, is filled from input column 1 instead of input column 0.
3. **SingleFT leaves a column unwritten** (`fftresampler.cpp:159-175`). This happens for odd widths.
4. **Missing option values read past argv** (`commandline.cpp`, every `++argi; argv[argi]`). An option that takes a value, given last, is undefined behaviour rather than an error message.
5. **`-iuwt` followed by `-negative`** runs IUWT with negative components, which the comment at `commandline.cpp:961-964` says are unstable. The outcome depends on the order of options. `Settings::Validate` is not in `src/`, so whether it rejects the combination is not known here.

A further note, not a run: the resampler scales by `1/(minW*minH)`. This preserves the peak value, not the sum: the output sum grows by `outW*outH/(minW*minH)`. The spec's upsampling scenario should be read with that in mind.

## Proofs

`FFTResamplerProofs.tla` proves, for every finite non-empty set of workers, every set of tasks and every window setting, under `WorkersAssumption`, `TasksAssumption` and `WindowAssumption`:

- `TypeCorrect`: `Spec => []TypeOK`.
- `FinishDrainsTheorem`: `Spec => []FinishDrains`.
- `PlansOutliveWorkersTheorem`: `Spec => []PlansOutliveWorkers`.

- `Refinement`: `Spec => R!ASafeSpec`. The pool implements the safety part of the abstract `Resampler`.

None of these is inductive on its own, so all of them follow from `Invariance: Spec => []IInv`. `IInv` is the conjunction of:
- `TypeOK`;
- `HoldsTask`: a worker inside `runSingle` holds a task;
- `Accounted`: every submitted task is queued, done, or held by a busy worker;
- `NothingInvented`: what is queued, held or done was submitted;
- `PoolShape`: how the caller's phase constrains the lane and the workers. For example, after the join the lane is empty and every worker is idle; a worker has exited only while the caller joins; and plans are destroyed only in the destroyed phase.

- `NoTaskRunTwice`: the lane has no duplicates, and holds no task that is done or held by a busy worker. Busy workers hold distinct tasks, none of them done. This is a conjunct of the invariant only, not a checked property. It holds because the model takes `ao::lane::read` (a library outside `src/`) as one atomic pop, and because `AddTask` never resubmits a task. It says nothing about this code beyond that.

`PoolInv` is the first five conjuncts. `NextPoolInv` and `NextExclusive` prove each part preserved, and `InitIInv` and `NextIInv` combine them, with one case per action. `NoTaskRunTwice` rests on `PoolInv`: a task read from the lane was not on it twice, so no other worker or lane entry holds it. `FinishDrains` then follows because, once finished, nothing is queued or held, so `Accounted` puts every submitted task in `done`. `IInv` was also checked by TLC on the pool configurations.

`Refinement` uses two steps. `Init` maps to `R!AInit`. `StepRefines` shows that, under `IInv`, every `Next` step maps to an `R!ANext` step or a stutter:
- `Transform`/`Unapply` completing a task map to `AResample`, because `NoTaskRunTwice` says the task was not done before;
- `AddTask` maps to `AAdd`. Its guard takes a task not yet submitted, and `NothingInvented` says such a task is not done;
- `FinishWriteEnd` maps to `ABeginFinish`;
- `FinishJoin` maps to `AEndFinish`. At the join, `PoolShape` says the lane is empty and no worker is busy, so `Accounted` puts every submitted task in `done` and nothing is pending.

`CommandLineProofs.tla` proves, for every token set and every `MaxArgs`, that every reachable state of `ParseWithoutValidation` satisfies `TypeOK` (so `argi` never passes `argc`) and `EveryArgumentOnce`, each as its own theorem. They follow from `ParseInvariance: Spec => []CInv`, where `CInv` is the conjunction of:
- `TypeOK`;
- `ArgsTaken` (in `CommandLine.tla`): while parsing, each argument before `argi` has exactly one role and none after it has any; after a return, every argument has one;
- `GoodSettings(settings)`: the reorder flags are exclusive, and `continuedRun` implies `makePSF`;
- `NoRunWithoutInput`: the check at lines 1448-1450.

`GoodSettings` and `NoRunWithoutInput` are conjuncts of the invariant only. Each restates a handler's paired assignments or the guard at line 1448, so neither is a checked property.

`EveryArgumentOnce` is not inductive alone: a handler's step needs to know that the values it takes had no role before. The proof has four generic step lemmas:
- `OptionStep`: a handler reading `n` values, which succeeds or stops with an error;
- `LocalFlagStep`;
- `StopStep`;
- `ReturnStep`.

`NextCInv` instantiates them once per handler. Each handler only has to show that the settings it installs keep `GoodSettings`.

The proof of `LocalFlagStep` (a flag that consumes no value) treats the argument at `argi` separately from the arguments before and after it. The role of that argument gains `"option"`, and no other role changes.

`FFTResamplerProofs.tla` also proves `WindowReadyOneWorker`: `Spec => []WindowReadyBeforeUse` for a pool of one worker (`Workers = {w0}`, which is `cpuCount = 1`), for every window function, correction setting and task count. It rests on `WindowBuild(w0)` (in `FFTResampler.tla`), which pins down the cache contents at each point of the worker's `makeWindow` sequence:
- resizing the row cache;
- filling it;
- the same two steps for the column cache;
- the same two steps for the output cache, which is built only when `CorrectWindow` holds.

`WindowBuild` also says that outside `makeWindow` the caches are either all empty or all built (`CachesBuilt`), and that `multiply` and a windowed `unapply` see them built. `WindowBuild` needs `PoolShape` from `IInv` (an idle worker at start and join), so the step lemma `NextWindowBuild` assumes `IInv`. TLC checked `WindowBuild` on one worker with the Tukey, Hann and rectangular windows. With two workers `WindowBuild` is false: one worker can find the caches half-built by another. The `race` run shows this, so the theorem's hypothesis is the real condition, not a convenience.

`MultiScaleShapeProofs.tla` proves, for every image side, scale, scale unit (`ScaleDen`), position and shape, under `ShapeConstantsAssumption`:
- `KernelSizeOddTheorem`. `KernelSizeFacts` shows that both kernel-size formulas give `2 * ceil(...) + 1`, and that the Gaussian clamp to `maxN` (decremented when even) keeps the side odd.
- `KernelFullyWrittenTheorem`. The tapered quadratic of scale 0 is the separate case `n = 1`. Otherwise `PeakInKernel` puts `n/2 + (n/2) * n` in `0..n*n-1`.
- `ShapeComponentClippedTheorem`. The clamped loop ranges `left..right-1` and `top..bottom-1` equal the sets of image columns and rows under the kernel, because `n - n/2 = (n+1)/2`. The loop's sample index equals the reference index pointwise.

The arguments of one call never change, so each theorem is a fact about every state `TypeOK` allows.

`SpectralRemapProofs.tla` proves, for every input and output side in `1..MaxSide`, under `SideAssumption` and `SizeBitsAssumption`:
- `RemapWellFormedTheorem`: every copy reads and writes inside its array, and no two copies write the same cell.
- `RemapLowFrequenciesTheorem`: the copies are exactly the shared frequencies, each sent to the cell of the same signed frequency.
- `SingleFTInputCentredTheorem`: the half-shift is a permutation that sends the centre to 0.

The argument is:
- `RowWrap`: the `size_t` expressions `OldY` and `NewY`, reduced modulo `2^SizeBits`, both equal `y - m` (plus `H` when negative). This uses `ModWrap` and the bound `4 * MaxSide + 4 < 2^SizeBits`.
- `RowInjective` and `StrideUnique`: distinct (row, column) pairs give distinct flat indices because the column is below the stride.
- `CopyShape`: the form of every copy.
- `HalfShiftOnto`: the half-shift of `fftresampler.cpp:127-134` is onto `0..N-1`.

`SizeBitsAssumption` states `2^SizeBits \in Nat` and the bound `4 * MaxSide + 4 < 2^SizeBits`. The first is there because tlapm has no axioms for `^`. The second is the condition under which the 64-bit wrap gives the intended rows. The proofs name the modulus `Modulus` and hide its definition.

**Only model-checked.**
- `Progress` and `ImplementsResampler`'s fairness part. These are liveness under weak fairness, and TLAPS cannot reason about `ENABLED` here.
- `WindowReadyBeforeUse` for more than one worker. There it is violated (`race`).
- `IUWTWithoutNegative`, `ValuesWithinArgv`, `NyquistSameFrequency` and `SingleFTCoversOutput`, which are violated.

## Not modelled

- The numerical content: FFT values, window samples, kernel samples and normalisation. These are real arithmetic, which TLC does not check.
- `LSDeconvolution`, `WSCFitsWriter` and the prediction example (declarations, I/O, and a fixed sequential call sequence).
- In `commandline.cpp`:
  - `printHelp`, `printHeader` and `deprecated`, which only print;
  - `Validate` and `Run`, which call code that is not in `src/`;
  - about 100 further option handlers. Each has the shape of a modelled one and sets fields that no property reads.
- `Start`/`AddTask` misuse (adding tasks outside `Start`/`Finish`). It is the caller's contract, in `fftresampler.h`, which is not in `src/`.

## Plan for later work

- Prove `ArgsTaken`-style role facts for the remaining command-line handlers as they are modelled.
- A refinement of the window caches to an abstract "built once, read after" cache.
- Add the remaining forcing handlers' intended implications, if a source of intent can be found.
