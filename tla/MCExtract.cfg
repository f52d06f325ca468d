CONSTANTS
  Inputs <- MCInputs
  BackupOf <- MCBackupOf
SPECIFICATION Spec
INVARIANTS
    DirectoryTimes
    Honest
    DelayedModes
    OldFilesSafe
PROPERTY RetryProgress
