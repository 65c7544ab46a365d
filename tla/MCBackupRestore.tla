-------------------------- MODULE MCBackupRestore --------------------------
(* Instances of BackupRestore for TLC.                                       *)
EXTENDS BackupRestore

CONSTANTS x, y
MCRecords == {x, y}

\* Backups of a running store; a restore after a purge; restores after deletions that
\* fail, fail to be undone or are killed; repeated restores with a nested
\* configuration; kills of the daemon around a backup and its restore; a restore that is
\* killed, and another one.
MCScenarios ==
    {[acts |-> {"capture", "forget", "purge", "backup", "kill"}, records |-> {x, y},
      owned |-> {y}, nested |-> FALSE, jobs |-> 1, restores |-> 0, left |-> 1],
     [acts |-> {"capture", "purge", "backup", "restore"}, records |-> {x, y},
      owned |-> {y}, nested |-> FALSE, jobs |-> 1, restores |-> 1, left |-> 0],
     [acts |-> {"capture", "forget", "purge", "backup", "restore", "undo", "restore_kill"},
      records |-> {x}, owned |-> {x}, nested |-> FALSE, jobs |-> 1, restores |-> 1, left |-> 2],
     [acts |-> {"capture", "forget", "backup", "restore", "reload"}, records |-> {x},
      owned |-> {}, nested |-> TRUE, jobs |-> 1, restores |-> 2, left |-> 2],
     [acts |-> {"capture", "backup", "restore", "kill"}, records |-> {x},
      owned |-> {}, nested |-> FALSE, jobs |-> 2, restores |-> 1, left |-> 2],
     [acts |-> {"capture", "forget", "backup", "restore", "restore_kill"}, records |-> {x},
      owned |-> {}, nested |-> FALSE, jobs |-> 1, restores |-> 2, left |-> 2]}
=============================================================================
