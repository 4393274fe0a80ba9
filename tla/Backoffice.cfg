SPECIFICATION Spec
CONSTANTS
    s1 = s1
    s2 = s2
    n1 = n1
    n2 = n2
    d1 = d1
    d2 = d2
    d3 = d3
    x1 = x1
    x2 = x2
    c1 = c1
    c2 = c2
    i1 = i1
    today = today
    tomorrow = tomorrow
    None = None
    Unborn = Unborn
    Gone = Gone
    Stores <- MCStores
    Devices <- MCDevices
    Names <- MCNames
    Serials <- MCSerials
    Calls <- MCCalls
    Budgets <- MCBudgets
    Imports <- MCImports
    Files <- MCFiles
    Days <- MCDays
    DayOf <- MCDayOf
    PageSize = 2
CHECK_DEADLOCK FALSE
SYMMETRY MCSymmetry
INVARIANTS
    DuplicatesBounded
    InactiveExplained
    ImportIsPrefix
    ReportOrderFree
    PageShowsNewer
    FiguresAddUp
PROPERTIES
    ReportedSuccessStays
