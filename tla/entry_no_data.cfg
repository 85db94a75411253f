SPECIFICATION FairSpec
CONSTANTS
    c1 = c1
    c2 = c2
    x = x
    z = z
    One = One
    Zero = z
    Nil = Nil
    Consumers <- OneConsumer
    Founder = c1
    Bytes <- AllBytes
    Responses <- TrailersOnly
    Capacities <- SomeCapacities
    BlockSize = 2
    MaxCount = 1000
PROPERTIES
    ServeReturns
CHECK_DEADLOCK FALSE
