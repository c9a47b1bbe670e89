\* InventoryModel with up to three calls of reload(); the application makes one.
CONSTANTS
    MaxReloads = 3
    CatalogErrors <- SomeErrors
SPECIFICATION FairSpec
INVARIANTS WorkerIsOwned NothingOutlivesModel StoppedLoadsStaySilent
           OverlayStandsForLoad
PROPERTIES ImplementsFeed JoinReturns ReloadNotified ReloadAnswered
