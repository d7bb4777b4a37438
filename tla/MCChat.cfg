SPECIFICATION FairChatSpec
CONSTANTS
    Sessions = {s1}
    Turns = {t1, t2}
    Notes = {n1, n2}
    MaxReplies = 1
    NoSession = NoSession
    MaxMishaps = 1
CHECK_DEADLOCK FALSE
INVARIANTS ChatTypeOK SubscribersMissNothing PushedIsSaved TranscriptInOrder
PROPERTY AskedIsAnswered
