SPECIFICATION Spec
CONSTANTS
    f = f
    g = g
    fBackup = fBackup
    gBackup = gBackup
    NoFile = NoFile
    Files <- MCFiles
    Names <- MCNames
    BackupOf <- MCBackupOf
    Faults = {"perm", "unlink", "rename", "open", "write", "crash"}
    MaxVersions = 3
INVARIANTS TypeOK  FailedSaveKeepsFile
PROPERTY SavesAtomically
CHECK_DEADLOCK FALSE
