\* A region of sixteen pages: the allocator counts fifteen, and its data
\* starts three pages into the region.
CONSTANTS
    RegionSize = 65536
    PageSize = 4096
    HeaderSize = 40
    EntrySize = 24
    Requests = {4096, 20480}
    Unset = Unset
SPECIFICATION AllocSpec
INVARIANTS BlocksInRegion
