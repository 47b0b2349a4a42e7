SPECIFICATION Spec
CONSTANTS
    Requests = {r1, r2, r3}
    None = None
    QueueLimit = 1
    ReceiptLimit = 2
INVARIANTS
    PermitsConserved
    CountersExact
    OneWorkerCall
    CleanPipes
    ReceiptsExact
PROPERTIES
    DistrustedWorkerStops
    ImplementsService
