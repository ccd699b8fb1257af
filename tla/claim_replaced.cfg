SPECIFICATION Spec
CONSTANTS
    ann = ann  bob = bob  i1 = i1  ns1 = ns1  elsewhere = elsewhere
    mas = mas  key = key  pw = pw  ws = ws  relay = relay
    Users = {ann, bob}
    Requests <- SomeRequests
    Modes <- SomeModes
    Clusters <- SomeClusters
    CoreOf <- OneCore
    MaxJobs = 3
    MaxFaults = 1
    Blank = Blank  None = None
PROPERTIES RunningAskedFor
CHECK_DEADLOCK FALSE
