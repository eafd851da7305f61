SPECIFICATION FairSpec
CONSTANTS
    ui = ui
    mqtt = mqtt
    key = key
    m1 = m1
    m2 = m2
    NoMail = NoMail
    Threads <- MCThreads
    Mails <- MCMails
    Prio <- MCPrio
    Size = 2
INVARIANTS
    NoLostMailWakeup
    NoLostRoomWakeup
    MostUrgentFirst
PROPERTIES
    ImplementsBoundedQueue
    MailMeetsReceiver
