\* Two alerts of one name and one of another; the clock covers one cooldown.
SPECIFICATION FairSpec
CONSTANTS
    Checkers = {c1, c2}
    Names <- MCNames
    Callbacks <- MCCallbacks
    Throwing = {"database"}
    Cooldown = 2
    MaxTime = 2
    Nobody = Nobody
INVARIANTS
    CooldownRespected
    EveryFiringIsTold
PROPERTIES
    NoSilentBreach
    BreachIsReported
