SPECIFICATION Spec
CONSTANTS
    Folder = {f1, f2}
    Root = Root
    None = None
    Name = {a}
    Call = {c1}
    File = {x1, x2}
    Limit = 1
SYMMETRY Symmetry
INVARIANTS TypeOK PathExtendsParent WalkClimbs
PROPERTIES PagingMissesNothing
