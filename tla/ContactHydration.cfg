\* Two contacts, two pollers, every order of snapshots, under fairness.
CONSTANTS
    c1 = c1
    c2 = c2
    Contacts = {c1, c2}
    Pollers = {p1, p2}
    NoPoller = NoPoller
    NoContact = NoContact
    Asked <- AskedInTurn
    Limit = 2
    Snapshots <- DatedAndUndated
    Repeated = TRUE
    Rejected = {}
    MaxFaults = 2
SPECIFICATION FairSpec
PROPERTIES
    FieldNeverOlder
    FailureByHolder
    EveryNeedHydrated
CHECK_DEADLOCK FALSE
