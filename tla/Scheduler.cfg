\* Overlapping fires of a one-time, a repeating and a limited task.
SPECIFICATION FairSpec
CONSTANTS
    once = once
    always = always
    twice = twice
    Task = {once, always, twice}
    OneTime = {once}
    Delay <- MCDelay
    Until <- MCUntil
    Limit <- MCLimit
    MaxTime = 2
    MaxOpen = 2
    MaxRuns = 3
    NoTime = NoTime
    NoLimit = NoLimit
 
PROPERTY DisabledForGood
    KeepsFiring
CHECK_DEADLOCK FALSE
