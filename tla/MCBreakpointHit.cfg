CONSTANTS
    CondReqs = {"none", "native", "script"}
    HitReqs <- MCHitReqs
    MaxIgnore = 1

SPECIFICATION Spec

INVARIANT TypeOK
INVARIANT NoSpuriousStop
PROPERTY SettingsRefined
