SPECIFICATION TimedSpec
CONSTANTS
    r = r
    a = a
    b = b
    c = c
    d = d
    Workers = {w1, w2, w3}
    Refs = {r, a, b}
    Root = r
    References <- Line
    KubernetesRefs = {}
    MappedImageRefs = {a}
    Faulty = {b}
    RootMarker = ROOT
    Zero = zero
PROPERTIES WalkReturns
