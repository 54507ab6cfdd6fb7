\* Two workers with a corrected Tukey window: both run applyWindow on a cold
\* cache.  Expected to violate WindowReadyBeforeUse.
CONSTANTS
    Workers = {w1, w2}
    Tasks = {t1, t2}
    NoTask = NoTask
    Window = "Tukey"
    CorrectWindow = TRUE
SPECIFICATION Spec
INVARIANTS
    WindowReadyBeforeUse
