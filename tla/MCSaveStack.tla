---------------------------- MODULE MCSaveStack ----------------------------
(* An instance of SaveStack for TLC: two names and their backups.          *)
EXTENDS SaveStack, TLC

CONSTANTS f, g, fBackup, gBackup

MCFiles == {f, g, fBackup, gBackup}
MCNames == {f, g}
MCBackupOf == f :> fBackup @@ g :> gBackup
=============================================================================
