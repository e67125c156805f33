CONSTANTS
    MaxPeers <- MC_MaxPeers
SPECIFICATION Spec
INVARIANTS
    ClickGoesToPresentTadpole
