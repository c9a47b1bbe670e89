CONSTANTS
    PackageIds <- Four
    Inputs <- MCInputs
SPECIFICATION FairSpec
INVARIANTS FirstFaultIsReported OrderIsPermutation OrderObeysInputs CycleIsReal
           OrderIsLeast
PROPERTIES Terminates
