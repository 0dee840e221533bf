\* Two maps that are set, inserted into each other and copied.
CONSTANTS
    Map = {m, n}
    Key = {k1, k2}
    Value = {v1, v2}
    Element = {e1, e2, e3, e4}
    None = None
SPECIFICATION MapSpec
INVARIANTS TypeOK Coherent
PROPERTY ImplementsOrderedMap
