SPECIFICATION Spec
CONSTANTS
    None = None
    x = x
    xy = xy
    z = z
    zy = zy
    Cmds = {c1, c2, c3}
    Old = {o1}
    SlugOf <- MCSlugOf
    Slugs = {x, xy, z, zy}
    Longer <- MCLonger
    Dirs = {d1, d2}
    Asks <- MCAsks
    MaxSaves = 2
SYMMETRY Symmetry
CONSTRAINT Scenarios
INVARIANTS
    TypedWhereChecked BypassNotRefused PromptTold PreseedsMerge
CHECK_DEADLOCK FALSE
