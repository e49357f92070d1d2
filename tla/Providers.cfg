SPECIFICATION ProvidersLiveSpec
CONSTANTS
    Provs = {"baseten"}
    Pods = {"pod"}
    Bases = {"m", "n"}
    PodAdapters = {""}
    MaxFaults = 2
  
PROPERTY ProviderIsRouted
