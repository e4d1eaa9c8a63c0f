SPECIFICATION Spec
CONSTANTS
    Values = {v1, v2, v3}
    Tickets = {t1}
    Gateways = {g1, g2}
    Nobody = Nobody
    Manager = Manager
    Absent = Absent
    SessionTTL = 2
    TicketTTL = 1
    MaxNow = 2
    MaxEra = 1
SYMMETRY Symmetry
INVARIANTS
    TypeOK
    GrantsAreOwned
    RevokedStaysRevoked
PROPERTY GrantsAsPromised
