CONSTANTS
    PAGE_MAX = 3
    PageMails = 1
    CloudPages = {4}
    MaxAsked = 1
    MaxSaves = 2
    MaxMishaps = 2
SPECIFICATION Spec
INVARIANTS
    KeepsSettings
    ScreenTrue
PROPERTIES
    ReadersTrue
    BackToClock
