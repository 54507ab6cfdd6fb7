\* Two workers, three tasks: the lane (capacity 2) fills and AddTask blocks.
\* The rectangular window never touches the window caches.
CONSTANTS
    Workers = {w1, w2}
    Tasks = {t1, t2, t3}
    NoTask = NoTask
    Window = "Rectangular"
    CorrectWindow = FALSE
SPECIFICATION Spec
INVARIANTS
    TypeOK
    FinishDrains
    PlansOutliveWorkers
PROPERTIES
    ImplementsResampler
