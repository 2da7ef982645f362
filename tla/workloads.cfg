CONSTANTS
    Insts <- MCInsts
    Revised <- MCRevised
    Layers <- MCLayers
    Names <- MCNames
    Installed <- MCInstalled
    Stores <- MCStores
    Catalog <- MCCatalog
    Models <- MCModels
    HFToken = TRUE
    Width = 4
    MaxEdits = 2
SPECIFICATION FairSpec
INVARIANTS TypeOK EnoughGPUs WorkersFitPipeline OneWayToScale AdaptersAddressable
    PodsFollowGPU ModelServerFirst SourceFits EmbeddingsServed
PROPERTIES EngineFlagsSettle PredictorSettles
CHECK_DEADLOCK FALSE
