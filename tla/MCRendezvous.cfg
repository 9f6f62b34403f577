SPECIFICATION RendezvousSpec
CONSTANTS
    IDs <- MCIDs
    Namespaces <- MCNamespaces
    StringKeys <- MCStringKeys
    Width = 2
    MaxUint32 = 2
    Scores = {0, 1}
    MaxCalls = 2
    None = None
INVARIANTS
    StablePlacement
    InputsApart
