CONSTANTS
    Insts <- LlmInsts
    Revised <- LlmRevised
    Layers <- MCLayers
    Names <- MCNames
    Installed <- MCInstalled
    Stores <- MCStores
    Catalog <- MCCatalog
    Models <- MCModels
    HFToken = TRUE
    Width = 4
    MaxEdits = 1
SPECIFICATION Spec
INVARIANTS WorkersMatchPipeline
CHECK_DEADLOCK FALSE
