CONSTANTS
    chat = chat
    embed = embed
    gpu0 = gpu0
    Model = {chat}
    Lmstudio = {chat}
    Profile <- AtMostOne
    Gpu = {gpu0}
    ExternalGpus = {gpu0}
    Capacity <- Room
    Demands <- Queues
    Job = {j1, j2}
    Client = {c1}
    MaxInstances = 2
    MaxFaults = 0
    Restarts = FALSE
SPECIFICATION Spec
PROPERTIES GracefulReload
CHECK_DEADLOCK FALSE
