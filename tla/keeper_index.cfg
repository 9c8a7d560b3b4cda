SPECIFICATION FairSpec
CONSTANTS
    None = None
    head = head
    tail = tail
    acct = acct
    feed = feed
    Rules = {head, tail}
    Link <- ChainLink
    Consumes = {tail}
    Total <- HeadOnce
    Keys = {acct, feed}
    WatchKeys <- ChainKeys
    Old = {head}
    MaxFaults = 1
INVARIANTS TypeOK IndexesAgree
PROPERTY Converges
