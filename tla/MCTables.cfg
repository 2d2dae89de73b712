SPECIFICATION TablesSpec
CONSTANTS
    i1 = i1
    i2 = i2
    r1 = r1
    r2 = r2
    r3 = r3
    o1 = o1
    o2 = o2
    o3 = o3
    ant = ant
    l1 = l1
    c1 = c1
    c2 = c2
    c3 = c3
    p1 = p1
    p2 = p2
    p3 = p3
    d3 = d3
    Ids = {i1, i2}
    Names = {n1}
    Addresses = {a1}
    Sids = {s1, s2}
    Links = {k1}
    Requests = {r1, r2}
    Owners = {o1, o2, o3}
    SiteIds = {s1, s2, s3}
    AntennaIds = {ant}
    LinkIds = {l1}
    CoverageIds = {c1, c2, c3}
    Places = {p1, p2, p3}
    Designs = {i1, i2, d3}
    Edits = {r1, r2, r3}
    MaxSites = 1
    MaxCoverages = 1
    Scenes <- ScenesOf
    None = None
SYMMETRY Symmetry
INVARIANTS RevokedByChange EmptyApp ConfirmedOnly LinkOnce RefsStay LimitsOvershoot GainCopied ResultOfNow
