SPECIFICATION FairSpec
CONSTANTS
    l1 = l1  l2 = l2  l3 = l3  l4 = l4
    None = None
    Links = {l1, l2, l3, l4}
    first = l1
    Publishers = {p1}
    MaxPublishes = 2
    MaxDrops = 3
INVARIANTS TypeOK SingleConsumer
PROPERTIES CacheHeals ConsumerRecovers
CHECK_DEADLOCK FALSE
