SPECIFICATION Spec
CONSTANT None = None
CONSTANT ConfKeys = {"k", "l"}
CONSTANT Ns <- TwoNamespaces
CONSTANT ConfValues = {"v"}
CONSTANT Enc <- Encrypted
CONSTANT Torn = "torn"
CONSTANT ConfClients = {"c"}
CONSTANT Ips = {"i"}
CONSTANT ConfVersions <- Writes
CONSTANT Handles = {h1, h2}
CONSTANT Products = {"p", "q"}
CONSTANT FirstCapacity = 1
CONSTANT GivesAway = TRUE
CONSTANT MaxBuffers = 2
CONSTANT OrderVersions = 2
CONSTANT Types = {"OrderCreated", "OrderPlaced"}
CONSTANT MaxEvents = 3
CONSTANT MaxConcurrent = 2
CONSTANT FailureThreshold = 2
CONSTANT HalfOpenMax = 2
CONSTANT Timeout = 2
CONSTANT Burst = 2
CONSTANT MaxRetries = 2
CONSTANT MaxDepth = 3
CONSTANT MaxCalls = 6
CONSTANT MaxTime = 4
CONSTANT Keys = {"k1", "k2"}
CONSTANT Clients = {"c1", "c2"}
CONSTANT MaxKeys = 1
CONSTANT TTL = 1
CONSTANT Mean0 = 2
CONSTANT Variance0 = 1
CONSTANT Phi = 1
CONSTANT MaxChecks = 5
CONSTANT StepCount = 3
CONSTANT Compensable = {0, 2}
CONSTANT StepRetries = 1
CONSTANT MaxSagas = 2
CONSTANT Services = {"inventory", "payment"}
CONSTANT LogCapacity = 2
CONSTANT BusEvents = 3
INVARIANT BrokerSound
INVARIANT TopicAgrees
INVARIANT CacheSound
INVARIANT ConfigSound
INVARIANT RoutingSound
INVARIANT SagasSound
 
INVARIANT OrdersSound
INVARIANT ResilienceSound
CHECK_DEADLOCK FALSE
