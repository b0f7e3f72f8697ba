SPECIFICATION MCSpec
CONSTANTS
    Apps = {radarr, vaultwarden}
    AtFirst = {vaultwarden}
    MediaSet = {radarr}
    Flows = {f1, f2}
    MaxEvents = 2
INVARIANTS BatchAsReviewed SaysWhatHappened
PROPERTIES ListsFresh FreezeReaches RingEnds GoesOn
CHECK_DEADLOCK FALSE
