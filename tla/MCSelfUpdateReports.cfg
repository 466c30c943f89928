SPECIFICATION SpecAll
CONSTANTS
    p1 = p1
    p2 = p2
    p3 = p3
    Proc = {p1, p2, p3}
    Installed = Installed
    Nothing = Nothing
    MaxInt = 4
    Triples <- MCTriples
    Others <- MCOthers
    Pres <- MCPres
PROPERTIES
    InstallsWhatItReports
SYMMETRY Symmetry
CHECK_DEADLOCK FALSE
