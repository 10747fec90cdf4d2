CONSTANTS
    Domain = "topic"
    RouteKeys = {route}
    StatusKeys = {}
    MessageKeys = {}
    DetailKey = detail
    GroupKey = group
    Kinds = {"send"}
    Asked = {route}
    ListStore = list
    KeyedStores = {s1, s2}
    NoStore = none
    Tasks = {t1, t2}
    Requests = {r1, r2}
    Mutators = {m1}
    TTL = 0
    MaxClock = 0
    MaxWrites = 2
SPECIFICATION Spec
SYMMETRY Symmetry
VIEW Observable
CHECK_DEADLOCK FALSE
INVARIANTS TypeOK SingleFlight KeyedReadsSeeAnsweredWrites
