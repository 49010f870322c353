CONSTANTS
    None = None
    here = here
    there = there
    file = file
    x = x
    y = y
    blank = blank
    Projects = {here, there}
    Home = here
    Paths = {file}
    Fragments = {x, y, blank}
    Trailing = blank
    Patches <- MCPatches
    InitialText <- MCInitialText
    MaxPlans = 2
    MaxCalls = 5
    MaxEdits = 1
    MaxSwitches = 1
    MaxCrashes = 1
SPECIFICATION Spec
INVARIANT TypeOK
INVARIANT OnlyReviewedTextIsPatched
INVARIANT AppliedOncePerReview
INVARIANT HistoryIsWhatHappened
PROPERTY WritesOnlyItsFragments
CHECK_DEADLOCK FALSE
