CONSTANTS
    c1 = c1
    c2 = c2
    c3 = c3
    big = big
    small = small
    unlisted = unlisted
    alien = alien
    Calls <- MCCalls
    Models <- MCModels
    ModelOf <- MCModelOf
    MaxTokens <- MCMaxTokens
    ProviderOf <- MCProviderOf
    RouterLimit <- MCRouterLimit
    DefaultLimit = 4
    MaxRetries = 1
SPECIFICATION FairSpec
INVARIANTS RouterSeesFewRequests CapsAreSafe
PROPERTIES ResendsOnlyAfterFailure EveryCallReturns
CHECK_DEADLOCK FALSE
