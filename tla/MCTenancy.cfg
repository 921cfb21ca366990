SPECIFICATION Spec
CONSTANTS
    ka = ka
    kb = kb
    ra = ra
    rb = rb
    rc = rc
    o = o
    other = other
    p0 = p0
    p1 = p1
    e0 = e0
    e1 = e1
    idem = idem
    extid = extid
    Nil = Nil
    Server = {s}
    Key = {ka, kb}
    Request = {ra, rb, rc}
    Organization = {o, other}
    Project = {p0, p1}
    Environment = {e0, e1}
    DefaultOrganizationID = o
    DefaultProjectID = p0
    DefaultEnvironmentID = e0
    IdempotencyKey = {idem}
    ExternalID = {extid}
    Flags <- MCFlags
    Grants <- MCGrants
    KeyOf <- MCKeyOf
    IdempotencyOf <- MCIdempotencyOf
    ExternalOf <- MCExternalOf
    MaxFailures = 1
INVARIANTS
    TypeOK
    RefusedWritesNothing
    EnvironmentExists
    VerifiesUnlessStray
    ToldIsOwn
    DropRepresented
