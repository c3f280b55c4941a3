CONSTANTS
    Visitors <- MCVisitors
    Kind <- MCKind
    Elems <- MCElems
    Inner <- MCInner
    Roots <- MCRoots
SPECIFICATION Spec
\* main returns once every Visit has returned.
CHECK_DEADLOCK FALSE
INVARIANTS
    TypeOK
    MainOutputDocumented
