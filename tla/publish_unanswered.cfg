SPECIFICATION Spec
CONSTANTS
    Base = 3
    Digits = 3
    Byte = 6
    ProtocolName <- MCProtocolName
    Client <- MCClient
    Greeting <- MCGreeting
    Publication <- MCPublication
    Subscription <- MCSubscription
    Withdrawal <- MCWithdrawal
    Switch <- MCSwitch
    BadGreeting <- MCBadGreeting
    Garbage <- MCGarbage
    MaxPackets = 2
    MaxMishaps = 0
INVARIANT Answered
