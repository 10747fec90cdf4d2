CONSTANTS
    Domain = "topic"
    RouteKeys = {}
    StatusKeys = {}
    MessageKeys = {}
    DetailKey = detail
    GroupKey = group
    Kinds = {"upsert"}
    Asked = {list}
    ListStore = list
    KeyedStores = {}
    NoStore = none
    Tasks = {t1, t2}
    Requests = {r1, r2}
    Mutators = {m1}
    TTL = 0
    MaxClock = 1
    MaxWrites = 1
SPECIFICATION HandlersFairSpec
CHECK_DEADLOCK FALSE
INVARIANT ListReadsAreMonotonic
PROPERTY HandlersAnswer
