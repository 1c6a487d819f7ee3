-------------------------- MODULE MCSessionRefresh --------------------------
(* Instances of SessionRefresh for TLC. *)
EXTENDS SessionRefresh, TLC

RequestSymmetry == Permutations(Request)

\* "patient": a device waits for its answer, which may be lost, before it asks
\* again, and no call fails.  "hasty": retries overtake the first request, and
\* calls fail.
VARIABLE mode

MCInit == Init /\ mode \in {"patient", "hasty"}

Patient == mode = "patient" =>
    /\ faults' = 0
    /\ \A s \in Session : Cardinality({r \in Request : req'[r].pc # "idle" /\ req'[r].dev = s}) <= 1

MCNext == Next /\ UNCHANGED mode /\ Patient

MCSpec == MCInit /\ [][MCNext]_<<vars, mode>>

\* Nothing is held back.
FreeInit == Init /\ mode = "free"
FreeSpec == FreeInit /\ [][Next /\ UNCHANGED mode]_<<vars, mode>>

\* HandUsable for devices that wait for their answers.
HandUsablePatiently == mode = "patient" => HandUsable

\* GraceIsNotReuse for devices that wait for their answers (the run
\* refresh_retry_race shows that it fails otherwise).
PatientRetryIsNotReuse ==
    [][mode = "patient" => \A r \in Request : At(r, "revoke") /\ req'[r].pc = "reject"
         => grace[req[r].tok] = None]_<<vars, mode>>
=============================================================================
