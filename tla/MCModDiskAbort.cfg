SPECIFICATION Spec
CONSTANTS
    Versions = {v1, v2}
    v1 = v1
    v2 = v2
    main = main
    art = art
    Files <- MCFiles
    Saves = {s1}
    MaxKills = 1
    None = None
    Torn = Torn
PROPERTY
    AbortIsSafe
