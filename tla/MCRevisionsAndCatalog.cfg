SPECIFICATION MCSpec
CONSTANTS
    Ids = {a, b}
    Revisions = {1, 2, 3, 4}
    Instances = {u, v}
    Contents = {x, y}
    Unassigned = {y}
    Absent = Absent
    NoAnswer = NoAnswer
    o1 = o1
    o2 = o2
    o3 = o3
    editor = editor
    CatalogIds <- MCCatalogIds
    Devices <- MCDevices
    Networks <- MCNetworks
    Placeables <- MCPlaceables
    Decisions <- MCDecisions
    Clients <- MCClients
    Policies <- MCPolicies
    Targets <- MCTargets
    Existing <- MCTargets
    Locators <- MCLocators
    Naming <- MCNaming
    Labels <- MCLabels
    Cells <- MCCells
    EditDocuments <- MCEditDocuments
    MaxSaves = 2
    MaxRegrants = 1
INVARIANTS TokenBinding TokensAreUnambiguous AnswersNeverMislead CatalogSound EditsTold
PROPERTIES ImplementsContract OnlyAttachingSkips EditsKeepTheRest
SYMMETRY Symmetries
CHECK_DEADLOCK FALSE
