\* The editor with its server routes: at most three operations that read the
\* clock, a history of two commands.
CONSTANTS
    Plugins <- MCPlugins
    Places <- MCPlaces
    Files <- MCFiles
    Posted <- MCPosted
    l1 = l1
    l2 = l2
    Callers = {l1, l2}
    Catalogues <- MCCatalogues
    MaxHistory = 2
    MaxClock = 4
SPECIFICATION MCSpec
INVARIANTS
    TypeOK
    UndoneToTheStart
    IdsStayUnique
    CompilerAgrees
    LayoutFollowsEdges
    ReimportKeepsTasks
    RunsOnlyValid
    PluginsInOrder
