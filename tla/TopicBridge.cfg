CONSTANTS
    ha = ha
    hb = hb
    hc = hc
    hd = hd
    ca = ca
    cb = cb
    cc = cc
    Handles = {ha, hb, hc, hd}
    Channels = {ca, cb, cc}
    channelOf <- MCChannelOf
    targets <- MCTargets
    Depth = 2
    MaxMessages = 4
SPECIFICATION FairTopicSpec
INVARIANTS
    TopicTypeOK
    NoEcho
    OrderIsKept
    LossIsOverflow
PROPERTIES
    NewestIsHeard
    ImplementsTopicRelay
CHECK_DEADLOCK FALSE
