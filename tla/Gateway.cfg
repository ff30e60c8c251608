SPECIFICATION MCSpec
CONSTANTS
    p1 = p1
    p2 = p2
    k1 = k1
    k2 = k2
    k3 = k3
    gpt = gpt
    odd = odd
    openai = openai
    python = python
    language = language
    what = what
    Requests = {r1, r2, r3}
    Projects = {p1, p2}
    Keys = {k1, k2, k3}
    Models = {gpt, odd}
    Bodies <- MCBodies
    Routes <- MCRoutes
    Family <- MCFamily
    Rpm = 2
    Window = 2
    Ttl = 2
    MaxCache = 2
    MaxDelay = 1
    MaxTime = 2
    MaxClears = 1
    None = None
    SModels = {gpt, odd}
    Prompts <- MCPrompts
    Settings = {k1}
    Stopwords = {what}
    ThNum = 1
    ThDen = 3
    MaxEntries = 2
    Life = 2
    MaxClock = 2
    MaxPuts = 3
    Absent = Absent
SYMMETRY Symmetry
INVARIANTS RateHeld  SemanticSound
PROPERTY LiveAnswersStay
CHECK_DEADLOCK FALSE
