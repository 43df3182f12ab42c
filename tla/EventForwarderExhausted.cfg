CONSTANTS
    Events = {e1, e2, e3}
    Undefined = Undefined
    Capacity = 3
    MaxRetries = 1
    MaxConcurrent = 2
SPECIFICATION Spec
INVARIANT ExhaustedEventStaysBuffered
