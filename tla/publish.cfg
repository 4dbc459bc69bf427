SPECIFICATION Spec
CONSTANTS
    Base = 3
    Digits = 3
    Byte = 6
    ProtocolName <- MCProtocolName
    Client <- MCClient
    Greeting <- MCGreeting
    Publication <- MCPublication
    Subscription <- MCSubscription
    Withdrawal <- MCWithdrawal
    Switch <- MCSwitch
    BadGreeting <- MCBadGreeting
    Garbage <- MCGarbage
    MaxPackets = 3
    MaxMishaps = 1
INVARIANTS TypeOK StreamsInStep InOrderOnce QoSAsAsked NumberedApart RecordedFirst ReachesSubscribers ConnectRead BehavedStay
