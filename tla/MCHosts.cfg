SPECIFICATION Spec
CONSTANTS
    Hosts = {"h1"}
    Payloads <- MCPayloads
    MaxSaves = 2
INVARIANTS
    RecordsInv
