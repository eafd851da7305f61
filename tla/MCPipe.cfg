SPECIFICATION FairSpec
CONSTANTS
    report = report
    shell = shell
    boot = boot
    Writers = {report, shell, boot}
    Length <- MCLength
    Size = 4
    Blank = Blank
    NoThread = NoThread
    MaxEvents = 2
INVARIANTS
    NothingLost
    CutOnlyWhenFull
    NoLostWakeup
PROPERTIES
    AllRead
