SPECIFICATION Spec
CONSTANTS
    MinMaxFrameSize = 2
    m1 = m1
    m2 = m2
    Mechanisms <- MCMechanisms
    Offered <- MCOffered
    Incoming <- MCIncoming
INVARIANTS
    TypeOK
    DialogueInv
    StateTellsHistory
    LimitsFromOpens
    DialogueTold
PROPERTIES
    OpenWrittenOnce
    NoFrameAfterClose
    SaslEstablishment
    DialogueNeverRestarts
