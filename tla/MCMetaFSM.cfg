\* Every table, index and cascade of the state machine.
SPECIFICATION Spec
CONSTANTS
    UserIds = {u1, u2}
    GroupIds = {g1, g2}
    ProjectIds = {p1}
    TokenIds = {t1, t2}
    TraceIds = {r1}
    Names = {"ann", "Ann", "bob"}
    OAuthKeys = {o1}
    Hashes = {h1, h2}
    Versions = {}
    Reasons = {"lost"}
    MetaKeys = {"jwt"}
    MetaValues = {"s1"}
    Lower <- MCLower
    Nil = Nil
SYMMETRY IdSymmetry
CONSTRAINT OneSide
INVARIANTS TypeOK RowIndexInv TokenIndexInv MembershipInv SnapshotRoundTrip
PROPERTIES StatusFollowsRules AttributionStable
