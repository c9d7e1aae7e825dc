SPECIFICATION Spec
CONSTANTS
    none = none
    root = root
    gardener = gardener
    etcd = etcd
    kube = kube
    tool = tool
    newTool = newTool
    partial = partial
    broken = broken
    Refs = {root, gardener, etcd, kube, tool, newTool, partial, broken}
    Name <- Names
    Descriptors <- AllDescriptors
    CamelCase <- Camel
    None = none
    Repositories <- TwoRepositories
    Stored <- StoredInTwo
    Host <- TheirHosts
    Sorted <- ByName
    DefaultNames = {"gardener", "etcd"}
    CustomNames = {"tool"}
    Configurations <- FourRoots
    MaxRuns = 2
    Absent = absent
    Torn = torn
INVARIANTS TypeOK OrderDoesNotMatter ImagesAreWhereTheyAreSaidToBe OutputsBelongTogether
PROPERTY ReplacedWhenComplete
