SPECIFICATION Spec
CONSTANTS
    Sessions = {s1, s2}
    Deployments = {d1}
    Reviews = {v1}
    Users = {u1, u2, u3}
    None = None
SYMMETRY Symmetry
CONSTRAINT OneKind
INVARIANTS
    TypeOK
    StartedWasApproved
    TrailIsPath
    DecidedBySecondPerson
