CONSTANTS
    c1 = c1
    c2 = c2
    c3 = c3
    big = big
    small = small
    unlisted = unlisted
    alien = alien
    Calls <- MCCalls2
    Models <- MCModels
    ModelOf <- MCModelOf2
    MaxTokens <- MCMaxTokens2
    ProviderOf <- MCProviderOf
    RouterLimit <- MCRouterLimit
    DefaultLimit = 4
    MaxRetries = 3
SPECIFICATION Spec
INVARIANTS RetriesCanSucceed
CHECK_DEADLOCK FALSE
