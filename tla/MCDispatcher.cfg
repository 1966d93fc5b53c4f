SPECIFICATION FairSpec
CONSTANTS
    NConns = 2
    NDatagrams = 3
    NCommands = 1
    Kids <- MCKids
    Tables <- MCTables
    MaxTries = 8
INVARIANTS Custody BoundedWaiting
PROPERTIES ConnSettled DatagramTaken CommandsObeyed
CHECK_DEADLOCK FALSE
