SPECIFICATION SpecAll
CONSTANTS
    c1 = c1
    c2 = c2
    s1 = s1
    s2 = s2
    i1 = i1
    i2 = i2
    top = top
    sub = sub
    Client = {c1, c2}
    Server = {s1, s2}
    Id = {i1, i2}
    HomeOf <- MCHomeOf
    n1 = n1
    n2 = n2
    InitLine <- MCInitLine
    CommandLine <- MCCommandLine
    Name = {n1, n2}
    Dir = {top, sub}
    Parent <- MCParent
    None = None
    Words = {"https", "host", "8443", "sub", "ws"}
    Paths <- MCPaths
    Scheme = "https"
    Host = "host"
    Port = "8443"
    Workspaces <- MCWorkspaces
SYMMETRY Symm
INVARIANT ReachesVerified
INVARIANT KeysOfServer
PROPERTY ReplacesOnlyWithLeave
PROPERTY TakenHasCause
