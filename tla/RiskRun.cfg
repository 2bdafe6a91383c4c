CONSTANTS
    Full = 1200
    Tolerance = 4
    HalfGrain = 1
    Lot = 2
    Names <- MCNames
    TopN = 2
    MaxSingle = 660
    MaxIndustry = 760
    MaxTurnover = 537
    Reserve = 120
    Dates = 3
    Raws <- MCRaws
    Labels <- MCLabels
    Policies <- MCPolicies
    Orders <- MCOrders
    Contexts <- MCContexts
    Engines = {"v1", "v3"}
    MaxOrders = 2
    MaxStops = 1
    MaxCalls = 2
SPECIFICATION Spec
INVARIANTS TargetsPassOwnLimits StageResumes TradedIsAllowed
CHECK_DEADLOCK FALSE
