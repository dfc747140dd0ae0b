SPECIFICATION FairSpec
CONSTANTS
    Pkgs <- MCPkgs
    Root <- MCRoot
    Universes <- MCUniverses
INVARIANTS Sound NewestOfAccepted CaretKeepsLeading
PROPERTIES Ends
CHECK_DEADLOCK FALSE
