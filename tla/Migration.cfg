SPECIFICATION Spec
CONSTANTS
    None = None
    v1 = v1
    v2 = v2
    v3 = v3
    n1 = n1
    n2 = n2
    x1 = x1
    a1 = a1
    a2 = a2
    b1 = b1
    s = s
    t = t
    Version = {v1, v2, v3}
    Current = v3
    Name = {n1, n2}
    Foreign = {x1}
    Args = {a1, a2, b1}
    Shape = {s, t}
    Names <- NamesOf
    Ordinal = {0, 1}
    MaxDepth = 2
    Declared <- DeclaredOf
    Sessions <- Families
CHECK_DEADLOCK FALSE
INVARIANTS IdsStayUnique ClassesKept ChainsRebuilt OnlyDropsAreLost NoCycleMet
PROPERTIES StoredEmbeds
