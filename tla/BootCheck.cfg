SPECIFICATION FairSpec
CONSTANTS
    Subnet = 3
    Leases = {1, 3}
    MailSize = 2
    MaxSwitches = 3
    MaxMishaps = 1
    ShellScans = 1
INVARIANTS
    OnMeansAddress
PROPERTIES
    ImplementsStatusSource
    DetectsOff
    FindsComputer
