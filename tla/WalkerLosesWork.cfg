SPECIFICATION Spec
CONSTANTS
    r = r
    a = a
    b = b
    c = c
    d = d
    Workers = {w1, w2}
    Refs = {r, a, b}
    Root = r
    References <- Chain
    KubernetesRefs = {}
    MappedImageRefs = {a}
    Faulty = {}
    RootMarker = ROOT
    Zero = zero
INVARIANTS AllDependenciesWalked
