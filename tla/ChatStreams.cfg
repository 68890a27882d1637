SPECIFICATION FairSpec
CONSTANTS
    h1 = h1
    h2 = h2
    h3 = h3
    Chats = {h1, h2, h3}
    Impatient = {h1}
    PoolSize = 2
    Capacity = 1
    MaxEvent = 2
    Texts = {2}
    MaxFrames <- Lengths
CHECK_DEADLOCK FALSE
INVARIANTS
    PageSeesTheReply
PROPERTIES
    ChatsEnd
