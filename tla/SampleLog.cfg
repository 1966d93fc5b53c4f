SPECIFICATION Spec
CONSTANTS
    Handlers = {h1, h2}
    FirstNumber = 0
    MaxCommands = 4
INVARIANTS DistinctSamples RowsHaveDataset EarlierSamplesEnded
PROPERTIES NoHandlerCarriedOver
