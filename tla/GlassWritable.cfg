SPECIFICATION Spec
CONSTANTS
    ta = ta  tb = tb  vs = vs
    Deleted = Deleted  Unread = Unread  NoDoc = NoDoc
    Docs <- MCDocs  Start <- MCStart  BadDoc <- MCBadDoc  Document <- MCDocument
    Handle = {h1, h2}  MaxDocid = 2  MaxWdf = 2  FlushThreshold = 3  MaxCalls = 5
INVARIANTS DocumentsAsStored PostingsInvert StatisticsAgree
CHECK_DEADLOCK FALSE
PROPERTY ImplementsDocStore
