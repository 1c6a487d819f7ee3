SPECIFICATION MCSpec
CONSTANTS
    Session = {s1, s2}
    Request = {r1, r2}
    MaxInFlight = 2
    MaxToken = 5
    MaxFaults = 1
SYMMETRY RequestSymmetry
INVARIANTS
    TypeOK
    
    ActiveIsClean
PROPERTY
    PatientRetryIsNotReuse
\* Every request may be answered and no device have a reason to send another.
CHECK_DEADLOCK FALSE
