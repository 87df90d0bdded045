SPECIFICATION MCSpec
CONSTANTS
    s1 = s1
    s2 = s2
    p1 = p1
    p2 = p2
    t1 = t1
    t2 = t2
    here = here
    Blank = Blank
    None = None
    Servers <- MCServers
    Players <- MCPlayers
    Templates <- MCTemplates
    Places <- MCPlaces
    MaxEvents = 4
SYMMETRY MCSymmetry
INVARIANTS
    PartsBelongTogether
    SelectorNamesContent
    ToggleShowsDesired
PROPERTIES
    CommandGoesToChoice
    UneditedSettingsStay
CHECK_DEADLOCK FALSE
