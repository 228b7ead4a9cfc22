CONSTANTS
    Request = {r1, r2}
    Old = {c1, c2}
    Link = {l1, l2}
    MaxSlug = 2
    Starts = {2}
    Ends = {1, 2}
    None = None
    Absent = Absent
    Keep = Keep
SPECIFICATION Spec
SYMMETRY Symmetry
CHECK_DEADLOCK FALSE
INVARIANT CampaignsInv
INVARIANT NeverStuck
PROPERTY RefinesBoard
PROPERTY ChangesOnlyAsked
