SPECIFICATION FairSpec
CONSTANTS
    r = r
    a = a
    b = b
    c = c
    d = d
    Workers = {w1}
    Refs = {r, a, b, c, d}
    Root = r
    References <- Knot
    KubernetesRefs = {a, c}
    MappedImageRefs = {a}
    Faulty = {b}
    RootMarker = ROOT
    Zero = zero
INVARIANTS DependenciesExact
PROPERTIES Walks
