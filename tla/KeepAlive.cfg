SPECIFICATION FairKeepAlive
CONSTANTS
    Keep = 30
    Delay = 24
INVARIANTS
    BrokerContent
PROPERTIES
    NoticesSilence
