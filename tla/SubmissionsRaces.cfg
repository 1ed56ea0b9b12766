SPECIFICATION SubmissionsSpec
CONSTANTS
    None = None
    Absent = Absent
    e1 = e1
    e2 = e2
    p1 = p1
    p2 = p2
    Clients = {1, 2}
    Workers = {w}
    Emails = {e1, e2}
    Phones = {p1, p2}
    MaxRequests = 3
    Situations <- MCSituations
INVARIANTS
    ToldOnceOfARow
PROPERTIES
    FailuresAreRaces
    LinkedToItsCustomer
    TelegramLosesItsChatInARaceOnly
    TasksEnd
