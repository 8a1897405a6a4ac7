CONSTANTS
    order = order
    echo = echo
    malformed = malformed
    w1 = w1
    w2 = w2
    Workers <- MCWorkers
    Events <- MCEvents
    EventType <- MCEventType
    SourceContext <- MCSourceContext
    ValidPayload <- MCValidPayload
    MAX_OUTBOX_ATTEMPTS = 2
    BatchSize = 2
    MaxCrashes = 1
    MaxOverruns = 1
SPECIFICATION FairSpec
INVARIANT GivesUpOnlyWhenExhausted
PROPERTIES ImplementsHandoff EveryEventSettles
CHECK_DEADLOCK FALSE
