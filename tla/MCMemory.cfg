\* Two starts of ktsnd and one application, with kills and failing calls; and
\* seven pages, with requests of 1, 2, 3 and 4 pages.
SPECIFICATION MemSpec
CONSTANTS
    Daemons = {d1, d2}
    Apps = {a1}
    None = None
    RegionSize = 32768
    PageSize = 4096
    HeaderSize = 40
    EntrySize = 24
    Requests = {1, 8192, 8193, 16000}
    Unset = Unset
INVARIANTS
    ShmInv
    Reachable
    RestartPossible
    InsideObject
    LayoutUsable
    BlocksApart
    BookExact
    NullMeansNoRoom
    AllocInv
PROPERTIES
    SigintRemoves
    FirstFit
    AllocReturns
CHECK_DEADLOCK FALSE
