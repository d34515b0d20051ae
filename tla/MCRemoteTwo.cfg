CONSTANTS
    Hart = {0, 1}
    Frame = {1}
    Deaf = {1}
    Victim = {1}
SPECIFICATION Spec
INVARIANTS NoRequestStranded RevokedIsUnreachable
PROPERTIES ShootdownEnds WokenRuns
