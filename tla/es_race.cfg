SPECIFICATION FairSpec
CONSTANTS
    Setting = {s1, s2}
    Org = {o1, o2}
    None = None
    Call = {c1, c2}
INVARIANTS OnePrimaryOrderly
PROPERTIES NeverWithoutPrimary OwnOrganizationOnly PrimaryProtected EveryRequestAnswered
