\* Each line below is violated: uncomment one at a time.
SPECIFICATION Spec
CONSTANTS
    Offers <- Shops
    Dates = {1, 2, 3, 4}
    Month <- MonthOf
    Cheap = 7
    Balance = 13
CHECK_DEADLOCK FALSE
INVARIANT PreviewIsCharge
\* INVARIANT AnswerIsTheForm
\* INVARIANT WaivedAlike
