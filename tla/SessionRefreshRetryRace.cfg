SPECIFICATION FreeSpec
CONSTANTS
    Session = {s1}
    Request = {r1, r2}
    MaxInFlight = 2
    MaxToken = 4
    MaxFaults = 0
PROPERTY
    GraceIsNotReuse
\* Every request may be answered and no device have a reason to send another.
CHECK_DEADLOCK FALSE
