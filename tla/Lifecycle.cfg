CONSTANTS
    chat = chat
    embed = embed
    gpu0 = gpu0
    Model = {chat}
    Lmstudio = {chat}
    Profile <- OneOrTwo
    Gpu = {gpu0}
    ExternalGpus = {gpu0}
    Capacity <- Room
    Demands <- Queues
    Job = {j1, j2}
    Client = {c1}
    MaxInstances = 2
    MaxFaults = 1
    Restarts = TRUE
SPECIFICATION Spec
INVARIANTS TypeOK InitialisingUntouched PortsDistinct
PROPERTIES LeasedBackendKept OrphansHaveCause IdleStopKeepsMinimum
SYMMETRY Jobs
CONSTRAINT OneHandlerAfterFault
