\* A streamed answer and three replies on two channels that a page replaces.
SPECIFICATION FairSpec
CONSTANTS
    d1 = d1
    d2 = d2
    e1 = e1
    f1 = f1
    note = note
    hint = hint
    r1 = r1
    r2 = r2
    r3 = r3
    web = web
    chat = chat
    Msgs = {d1, d2, e1, f1, note, hint, r1, r2, r3}
    Scripts <- MCScripts
    Channels = {web, chat}
    Pages = {w1}
    Kind <- MCKind
    ChannelOf <- MCChannelOf
    StreamOf <- MCStreamOf
    TextOf <- MCTextOf
    Answers <- MCAnswers
    Origin <- MCOrigin
    NoText = NoText
    NoOrigin = NoOrigin
    Shown = {web}
    MaxAttempts = 2
    CacheSize = 1
    MaxInstances = 3
INVARIANTS
    Accounted
    SuppressedRepeats
PROPERTIES
    InOrder
    Settled
CHECK_DEADLOCK FALSE
