CONSTANTS
    CondReqs = {"none", "native", "script"}
    HitReqs <- MCHitReqs
    MaxIgnore = 1

SPECIFICATION Spec

INVARIANT OptionsApplied
