SPECIFICATION Spec
CONSTANTS
    Shells <- MCShells
    Versions <- MCVersions
    Contents <- MCContents
    Files <- MCFiles
    Entry <- MCEntry
    FilesOf <- MCFilesOf
    Scenes <- MCScenes
INVARIANTS InstalledIsWhole HealsItself LockedCanBeImported
CHECK_DEADLOCK FALSE
