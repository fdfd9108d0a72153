SPECIFICATION Spec
CONSTANTS
    dawn = dawn
    noon = noon
    dusk = dusk
    sample = sample
    Articles = {dawn, noon, dusk, sample}
    Demo = {sample}
    Events = {e1, e2, e3}
    Sessions = {s1, s2}
    Nowhere = Nowhere
    NoOne = NoOne
    Nothing = Nothing
    Published <- MCPublished
    Window = 1
    MaxTime = 2
    MaxCorrections = 2
SYMMETRY Interchangeable
INVARIANTS TypeOK EventsAreCoherent LastSeenCovers EveryArticleIsListed
PROPERTIES LockedAdmitsNothing
