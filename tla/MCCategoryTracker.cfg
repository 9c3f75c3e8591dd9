CONSTANT Samples <- RunSamples
SPECIFICATION Spec
INVARIANTS LabelsAreValid DisplayIsSafe LabelsFollowChains LowNeedsItsChain
PROPERTY ImplementsCategoryRun
