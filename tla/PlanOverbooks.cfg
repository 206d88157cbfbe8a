CONSTANTS
    chat = chat
    embed = embed
    gpu0 = gpu0
    Model = {chat, embed}
    Lmstudio = {}
    Profile <- OneEach
    Gpu = {gpu0}
    ExternalGpus = {gpu0}
    Capacity <- OneRoom
    Demands <- Queues
    Job = {j1}
    Client = {c1}
    MaxInstances = 2
    MaxFaults = 0
    Restarts = FALSE
SPECIFICATION Spec
INVARIANTS PlacementsFit
CHECK_DEADLOCK FALSE
