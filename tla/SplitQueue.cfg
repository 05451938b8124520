CONSTANTS
    IndexMod = 8
    MaxQueue = 4
    Sizes = {1, 2, 3}
    Requests = {10, 11}
SPECIFICATION FairSpec
INVARIANTS QueueSound DeviceSeesRequest
PROPERTY ImplementsRequestQueue
