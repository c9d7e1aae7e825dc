SPECIFICATION Spec
CONSTANTS
    r = r
    a = a
    b = b
    c = c
    d = d
    Workers = {w1, w2, w3}
    Refs = {r, a, b}
    Root = r
    References <- Cycle
    KubernetesRefs = {a, b}
    MappedImageRefs = {a}
    Faulty = {b}
    RootMarker = ROOT
    Zero = zero
INVARIANTS TypeOK CountersExact QueueIsWatched ReturnsWhenQuiet PushedOnce DependentsExact KubernetesUnique
SYMMETRY WorkerSymmetry
