\* One worker (cpuCount = 1) with a corrected Tukey window: the lazy window
\* caches are built by the first task and reused by the later ones.
CONSTANTS
    Workers = {w1}
    Tasks = {t1, t2, t3}
    NoTask = NoTask
    Window = "Tukey"
    CorrectWindow = TRUE
SPECIFICATION Spec
INVARIANTS
    WindowReadyBeforeUse
PROPERTIES
    Progress
