-------------------------- MODULE PluginDataProofs --------------------------
(***************************************************************************)
(* Proofs about what the host keeps of a plugin.                           *)
(*                                                                         *)
(* Cleanup: for every bound on the commits, nothing of an owner whose       *)
(* receipt was cleared comes back, and, when no token of an old load is     *)
(* used again, packages in use stay on disk and a deletion in progress is   *)
(* only of what an uninstall promised to erase.                            *)
(*                                                                         *)
(* The clipboard: for any plugins, managers and observer threads, those who *)
(* record are those granted once refreshes do not overlap, no observer      *)
(* thread is lost, and what a selection capture borrowed of the clipboard   *)
(* is neither recorded nor put over the user's own copy.                   *)
(***************************************************************************)
EXTENDS SelectionCopy, UninstallCleanup, SequenceTheorems, TLAPS

-----------------------------------------------------------------------------
(* Cleanup: what holds of every token *)

Fixed(j) == j.pc \in {"idle", "old"}

\* Numbers of commits only grow; 0 stands for none.
Numbers ==
    /\ \A c \in {config, book, job.config} :
          /\ c.life <= commits /\ c.digest <= commits
          /\ c.status # "none" => c.life >= 1 /\ c.digest >= 1
    /\ job.old <= commits
    /\ ~Fixed(job) => job.config.status # "none"
    /\ packages \subseteq 1..commits /\ erased \subseteq 1..commits
    /\ \A o \in DataOwners : data[o] \subseteq 1..commits
    /\ active # 0 => book.status = "enabled"

\* Nothing is in memory before the load.
Unloaded ==
    host # "up" => /\ book = NoConfig /\ active = 0 /\ prepared = {}
                   /\ job = IdleJob /\ command = IdleCommand

\* The receipt of a complete uninstall is written first and cleared last, and no
\* install commit is between its token and its publication meanwhile.
Commanded ==
    /\ command.pc = "begun" => ~receipt
    /\ command.pc \in {"persist", "clear"} => receipt /\ ~command.retain
    /\ command.pc \in {"publish", "clean"} => (receipt <=> ~command.retain)
    /\ Uninstalling => Fixed(job) /\ book.status # "none"

\* What is in memory outlives no erasure that has been made.
MemoryFresh ==
    ~receipt \/ command.pc \in {"clean", "clear"} =>
        /\ book.life \notin erased
        /\ ~Fixed(job) => job.config.life \notin erased /\ job.config.digest \notin erased
DiskFresh ==
    ~receipt \/ command.pc = "clear" =>
        /\ data["storage"] \cap erased = {}
        /\ config.life \notin erased
        /\ packages \cap erased = {}

CleanupInvariant ==
    CleanupTypeOK /\ Numbers /\ Unloaded /\ Commanded /\ MemoryFresh /\ DiskFresh

LEMMA CleanupStarts == CleanupInit => CleanupInvariant
<1> SUFFICES ASSUME CleanupInit PROVE CleanupInvariant
  OBVIOUS
<1> USE CleanupAssumption DEF CleanupInit
<1>1. NoConfig \in Configs /\ NoConfig.status = "none" /\ NoConfig.life = 0
      /\ NoConfig.digest = 0
  BY DEF NoConfig, Configs
<1>2. CleanupTypeOK
  <2>1. IdleJob \in [pc : {"idle", "package", "config", "publish", "old"}, config : Configs,
                     old : 0..MaxCommits]
        /\ IdleCommand \in [pc : {"idle", "begun", "persist", "publish", "clean", "clear"},
                            retain : BOOLEAN]
    BY <1>1 DEF IdleJob, IdleCommand
  <2>2. data \in [DataOwners -> SUBSET Digests]
    OBVIOUS
  <2> HIDE DEF CleanupInit
  <2>3. /\ receipt = FALSE /\ config = NoConfig /\ book = NoConfig /\ packages = {}
        /\ host = "down" /\ active = 0 /\ prepared = {} /\ job = IdleJob
        /\ command = IdleCommand /\ commits = 0 /\ erased = {}
    BY DEF CleanupInit
  <2>4. /\ config \in Configs /\ book \in Configs
        /\ job \in [pc : {"idle", "package", "config", "publish", "old"}, config : Configs,
                   old : 0..MaxCommits]
        /\ command \in [pc : {"idle", "begun", "persist", "publish", "clean", "clear"},
                        retain : BOOLEAN]
        /\ receipt \in BOOLEAN
    BY <1>1, <2>1, <2>3, Zenon
  <2>5. /\ packages \in SUBSET Digests
        /\ host \in {"down", "retried", "up"} /\ active \in 0..MaxCommits
        /\ prepared \in SUBSET {"absent", "present"}
        /\ commits \in 0..MaxCommits /\ erased \in SUBSET Digests
    BY <2>3
  <2>. QED BY <2>2, <2>4, <2>5 DEF CleanupTypeOK
<1>3. Numbers
  BY <1>1 DEF Numbers, IdleJob, Fixed, DataOwners
<1>4. Unloaded /\ Commanded
  BY DEF Unloaded, Commanded, IdleCommand, Uninstalling
<1>5. MemoryFresh /\ DiskFresh
  BY <1>1 DEF MemoryFresh, DiskFresh, DataOwners
<1>. QED BY <1>2, <1>3, <1>4, <1>5 DEF CleanupInvariant

LEMMA CleanupTyped ==
  ASSUME CleanupTypeOK, Numbers, Unloaded, [CleanupNext]_cleanupVars
  PROVE  CleanupTypeOK'
<1> USE CleanupAssumption
    DEF CleanupTypeOK, Configs, Numbers, Unloaded, Digests, Fixed, diskVars,
        memoryVars, NoConfig, IdleJob, IdleCommand, DataOwners
<1>1. CASE Prepare
  BY <1>1 DEF Prepare
<1>2. CASE CancelToken
  BY <1>2 DEF CancelToken
<1>3. CASE BeginCommit
  BY <1>3 DEF BeginCommit, Reserved, Installed
<1>4. CASE PersistPackage
  BY <1>4 DEF PersistPackage
<1>5. CASE PersistConfig
  BY <1>5 DEF PersistConfig
<1>6. CASE PublishInstall
  BY <1>6 DEF PublishInstall, StillGood
<1>7. CASE RemoveOldPackage
  BY <1>7 DEF RemoveOldPackage
<1>8. CASE Enable
  BY <1>8 DEF Enable, SetsEnabled, StillGood, Reserved
<1>9. CASE Disable
  BY <1>9 DEF Disable, SetsEnabled, StillGood, Reserved
<1>10. CASE WriteStorage
  BY <1>10 DEF WriteStorage, Writes
<1>11. CASE RecordHistory
  BY <1>11 DEF RecordHistory, Writes
<1>12. CASE \E retain \in BOOLEAN : BeginUninstall(retain)
  BY <1>12 DEF BeginUninstall, Reserved
<1>13. CASE AbortUninstall
  BY <1>13 DEF AbortUninstall
<1>14. CASE CommitReceipt
  BY <1>14 DEF CommitReceipt, CommandGoes
<1>15. CASE PersistUninstalled
  BY <1>15 DEF PersistUninstalled, CommandGoes
<1>16. CASE PublishUninstall
  BY <1>16 DEF PublishUninstall, CommandGoes, StillGood
<1>17. CASE CleanOwners
  <2>1. PICK removed \in SUBSET AllOwners :
            /\ Removes(removed)
            /\ command' \in {IdleCommand, [command EXCEPT !.pc = "clear"]}
    BY <1>17 DEF CleanOwners, CommandGoes, AllOwners
  <2>2. /\ data' \in [DataOwners -> SUBSET Digests] /\ config' \in Configs
        /\ packages' \in SUBSET Digests
    BY <2>1 DEF Removes
  <2>3. command' \in [pc : {"idle", "begun", "persist", "publish", "clean", "clear"},
                      retain : BOOLEAN]
    <3>1. CASE command' = IdleCommand
      BY <3>1
    <3>2. CASE command' = [command EXCEPT !.pc = "clear"]
      BY <3>2
    <3>. QED BY <2>1, <3>1, <3>2
  <2>4. UNCHANGED <<receipt, memoryVars, job, commits, erased>>
    BY <1>17 DEF CleanOwners
  <2>. QED BY <2>2, <2>3, <2>4
<1>18. CASE ClearReceipt
  BY <1>18 DEF ClearReceipt
<1>19. CASE Crash
  BY <1>19 DEF Crash
<1>20. CASE RetryCleanup
  <2>1. UNCHANGED diskVars
        \/ \E owners : Removes(owners) /\ receipt' \in BOOLEAN
    BY <1>20 DEF RetryCleanup
  <2>2. /\ data' \in [DataOwners -> SUBSET Digests] /\ config' \in Configs
        /\ packages' \in SUBSET Digests /\ receipt' \in BOOLEAN
    <3>1. CASE UNCHANGED diskVars
      BY <3>1
    <3>2. ASSUME NEW owners, Removes(owners), receipt' \in BOOLEAN
          PROVE  /\ data' \in [DataOwners -> SUBSET Digests] /\ config' \in Configs
                 /\ packages' \in SUBSET Digests /\ receipt' \in BOOLEAN
      BY <3>2 DEF Removes
    <3>. QED BY <2>1, <3>1, <3>2
  <2>3. host' = "retried" /\ UNCHANGED <<book, active, prepared, job, command, commits, erased>>
    BY <1>20 DEF RetryCleanup
  <2>. QED BY <2>2, <2>3
<1>21. CASE Load
  BY <1>21 DEF Load, Installed
<1>22. CASE UNCHANGED cleanupVars
  BY <1>22 DEF cleanupVars
<1>. QED
  BY <1>1, <1>2, <1>3, <1>4, <1>5, <1>6, <1>7, <1>8, <1>9, <1>10, <1>11, <1>12, <1>13,
     <1>14, <1>15, <1>16, <1>17, <1>18, <1>19, <1>20, <1>21, <1>22
     DEF CleanupNext, InstallStep, UninstallStep

LEMMA CleanupNumbered ==
  ASSUME CleanupInvariant, [CleanupNext]_cleanupVars
  PROVE  Numbers'
<1> USE CleanupAssumption
    DEF CleanupInvariant, CleanupTypeOK, Configs, Numbers, Unloaded, Commanded,
        Uninstalling, Fixed, Digests, diskVars, memoryVars, NoConfig, IdleJob,
        IdleCommand, DataOwners
<1>1. CASE Prepare
  BY <1>1 DEF Prepare
<1>2. CASE CancelToken
  BY <1>2 DEF CancelToken
<1>3. CASE BeginCommit
  BY <1>3 DEF BeginCommit, Reserved, Installed
<1>4. CASE PersistPackage
  BY <1>4 DEF PersistPackage
<1>5. CASE PersistConfig
  BY <1>5 DEF PersistConfig
<1>6. CASE PublishInstall
  BY <1>6 DEF PublishInstall, StillGood
<1>7. CASE RemoveOldPackage
  BY <1>7 DEF RemoveOldPackage
<1>8. CASE Enable
  BY <1>8 DEF Enable, SetsEnabled, StillGood, Reserved
<1>9. CASE Disable
  BY <1>9 DEF Disable, SetsEnabled, StillGood, Reserved
<1>10. CASE WriteStorage
  BY <1>10 DEF WriteStorage, Writes
<1>11. CASE RecordHistory
  BY <1>11 DEF RecordHistory, Writes
<1>12. CASE \E retain \in BOOLEAN : BeginUninstall(retain)
  BY <1>12 DEF BeginUninstall, Reserved
<1>13. CASE AbortUninstall
  BY <1>13 DEF AbortUninstall
<1>14. CASE CommitReceipt
  BY <1>14 DEF CommitReceipt, CommandGoes
<1>15. CASE PersistUninstalled
  BY <1>15 DEF PersistUninstalled, CommandGoes
<1>16. CASE PublishUninstall
  BY <1>16 DEF PublishUninstall, CommandGoes, StillGood
<1>17. CASE CleanOwners
  BY <1>17 DEF CleanOwners, CommandGoes, Removes
<1>18. CASE ClearReceipt
  BY <1>18 DEF ClearReceipt
<1>19. CASE Crash
  BY <1>19 DEF Crash
<1>20. CASE RetryCleanup
  BY <1>20 DEF RetryCleanup, Removes
<1>21. CASE Load
  BY <1>21 DEF Load, Installed
<1>22. CASE UNCHANGED cleanupVars
  BY <1>22 DEF cleanupVars
<1>. QED
  BY <1>1, <1>2, <1>3, <1>4, <1>5, <1>6, <1>7, <1>8, <1>9, <1>10, <1>11, <1>12, <1>13,
     <1>14, <1>15, <1>16, <1>17, <1>18, <1>19, <1>20, <1>21, <1>22
     DEF CleanupNext, InstallStep, UninstallStep

LEMMA CleanupUnloaded ==
  ASSUME CleanupInvariant, [CleanupNext]_cleanupVars
  PROVE  Unloaded'
<1> USE CleanupAssumption
    DEF CleanupInvariant, Unloaded, Commanded, Uninstalling, Fixed, diskVars,
        memoryVars, NoConfig, IdleJob, IdleCommand, DataOwners
<1>1. CASE Prepare
  BY <1>1 DEF Prepare
<1>2. CASE CancelToken
  BY <1>2 DEF CancelToken
<1>3. CASE BeginCommit
  BY <1>3 DEF BeginCommit, Reserved, Installed
<1>4. CASE PersistPackage
  BY <1>4 DEF PersistPackage
<1>5. CASE PersistConfig
  BY <1>5 DEF PersistConfig
<1>6. CASE PublishInstall
  BY <1>6 DEF PublishInstall, StillGood
<1>7. CASE RemoveOldPackage
  BY <1>7 DEF RemoveOldPackage
<1>8. CASE Enable
  BY <1>8 DEF Enable, SetsEnabled, StillGood, Reserved
<1>9. CASE Disable
  BY <1>9 DEF Disable, SetsEnabled, StillGood, Reserved
<1>10. CASE WriteStorage
  BY <1>10 DEF WriteStorage, Writes
<1>11. CASE RecordHistory
  BY <1>11 DEF RecordHistory, Writes
<1>12. CASE \E retain \in BOOLEAN : BeginUninstall(retain)
  BY <1>12 DEF BeginUninstall, Reserved
<1>13. CASE AbortUninstall
  BY <1>13 DEF AbortUninstall
<1>14. CASE CommitReceipt
  BY <1>14 DEF CommitReceipt, CommandGoes
<1>15. CASE PersistUninstalled
  BY <1>15 DEF PersistUninstalled, CommandGoes
<1>16. CASE PublishUninstall
  BY <1>16 DEF PublishUninstall, CommandGoes, StillGood
<1>17. CASE CleanOwners
  BY <1>17 DEF CleanOwners, CommandGoes, Removes
<1>18. CASE ClearReceipt
  BY <1>18 DEF ClearReceipt
<1>19. CASE Crash
  BY <1>19 DEF Crash
<1>20. CASE RetryCleanup
  BY <1>20 DEF RetryCleanup, Removes
<1>21. CASE Load
  BY <1>21 DEF Load, Installed
<1>22. CASE UNCHANGED cleanupVars
  BY <1>22 DEF cleanupVars
<1>. QED
  BY <1>1, <1>2, <1>3, <1>4, <1>5, <1>6, <1>7, <1>8, <1>9, <1>10, <1>11, <1>12, <1>13,
     <1>14, <1>15, <1>16, <1>17, <1>18, <1>19, <1>20, <1>21, <1>22
     DEF CleanupNext, InstallStep, UninstallStep

LEMMA CleanupCommanded ==
  ASSUME CleanupInvariant, [CleanupNext]_cleanupVars
  PROVE  Commanded'
<1> USE CleanupAssumption
    DEF CleanupInvariant, CleanupTypeOK, Unloaded, Commanded, Uninstalling, Fixed,
        diskVars, memoryVars, NoConfig, IdleJob, IdleCommand, DataOwners
<1>1. CASE Prepare
  BY <1>1 DEF Prepare
<1>2. CASE CancelToken
  BY <1>2 DEF CancelToken
<1>3. CASE BeginCommit
  BY <1>3 DEF BeginCommit, Reserved, Installed
<1>4. CASE PersistPackage
  BY <1>4 DEF PersistPackage
<1>5. CASE PersistConfig
  BY <1>5 DEF PersistConfig
<1>6. CASE PublishInstall
  BY <1>6 DEF PublishInstall, StillGood
<1>7. CASE RemoveOldPackage
  BY <1>7 DEF RemoveOldPackage
<1>8. CASE Enable
  BY <1>8 DEF Enable, SetsEnabled, StillGood, Reserved
<1>9. CASE Disable
  BY <1>9 DEF Disable, SetsEnabled, StillGood, Reserved
<1>10. CASE WriteStorage
  BY <1>10 DEF WriteStorage, Writes
<1>11. CASE RecordHistory
  BY <1>11 DEF RecordHistory, Writes
<1>12. CASE \E retain \in BOOLEAN : BeginUninstall(retain)
  BY <1>12 DEF BeginUninstall, Reserved
<1>13. CASE AbortUninstall
  BY <1>13 DEF AbortUninstall
<1>14. CASE CommitReceipt
  BY <1>14 DEF CommitReceipt, CommandGoes
<1>15. CASE PersistUninstalled
  BY <1>15 DEF PersistUninstalled, CommandGoes
<1>16. CASE PublishUninstall
  BY <1>16 DEF PublishUninstall, CommandGoes, StillGood
<1>17. CASE CleanOwners
  <2>1. /\ command' = IdleCommand
           \/ (~command.retain /\ command' = [command EXCEPT !.pc = "clear"])
        /\ command.pc = "clean" /\ UNCHANGED <<receipt, book, job>>
    BY <1>17 DEF CleanOwners, CommandGoes
  <2>2. CASE command' = IdleCommand
    BY <2>1, <2>2
  <2>3. CASE ~command.retain /\ command' = [command EXCEPT !.pc = "clear"]
    <3>1. command'.pc = "clear" /\ command'.retain = FALSE
      BY <2>3
    <3>. QED BY <2>1, <2>3, <3>1
  <2>. QED BY <2>1, <2>2, <2>3
<1>18. CASE ClearReceipt
  BY <1>18 DEF ClearReceipt
<1>19. CASE Crash
  BY <1>19 DEF Crash
<1>20. CASE RetryCleanup
  BY <1>20 DEF RetryCleanup, Removes
<1>21. CASE Load
  BY <1>21 DEF Load, Installed
<1>22. CASE UNCHANGED cleanupVars
  BY <1>22 DEF cleanupVars
<1>. QED
  BY <1>1, <1>2, <1>3, <1>4, <1>5, <1>6, <1>7, <1>8, <1>9, <1>10, <1>11, <1>12, <1>13,
     <1>14, <1>15, <1>16, <1>17, <1>18, <1>19, <1>20, <1>21, <1>22
     DEF CleanupNext, InstallStep, UninstallStep

LEMMA MemoryStaysFresh ==
  ASSUME CleanupInvariant, [CleanupNext]_cleanupVars
  PROVE  MemoryFresh'
<1> USE CleanupAssumption
    DEF CleanupInvariant, CleanupTypeOK, Numbers, Unloaded, Commanded, Uninstalling,
        Fixed, MemoryFresh, DiskFresh, Configs, Installed, diskVars, memoryVars,
        NoConfig, IdleJob, IdleCommand, DataOwners
<1>1. CASE Prepare
  BY <1>1 DEF Prepare
<1>2. CASE CancelToken
  BY <1>2 DEF CancelToken
<1>3. CASE BeginCommit
  BY <1>3 DEF BeginCommit, Reserved
<1>4. CASE PersistPackage
  BY <1>4 DEF PersistPackage
<1>5. CASE PersistConfig
  BY <1>5 DEF PersistConfig
<1>6. CASE PublishInstall
  BY <1>6 DEF PublishInstall, StillGood
<1>7. CASE RemoveOldPackage
  BY <1>7 DEF RemoveOldPackage
<1>8. CASE Enable
  BY <1>8 DEF Enable, SetsEnabled, StillGood, Reserved
<1>9. CASE Disable
  BY <1>9 DEF Disable, SetsEnabled, StillGood, Reserved
<1>10. CASE WriteStorage
  BY <1>10 DEF WriteStorage, Writes
<1>11. CASE RecordHistory
  BY <1>11 DEF RecordHistory, Writes
<1>12. CASE \E retain \in BOOLEAN : BeginUninstall(retain)
  BY <1>12 DEF BeginUninstall, Reserved
<1>13. CASE AbortUninstall
  BY <1>13 DEF AbortUninstall
<1>14. CASE CommitReceipt
  BY <1>14 DEF CommitReceipt, CommandGoes
<1>15. CASE PersistUninstalled
  BY <1>15 DEF PersistUninstalled, CommandGoes
<1>16. CASE PublishUninstall
  <2>1. /\ command.pc = "publish" /\ command'.pc = "clean"
        /\ UNCHANGED <<receipt, job, erased>>
        /\ book' = IF command.retain THEN [book EXCEPT !.status = "uninstalled"] ELSE NoConfig
    BY <1>16 DEF PublishUninstall, CommandGoes
  <2>2. command.retain => book'.life = book.life
    BY <2>1
  <2>3. ~command.retain => book'.life = 0
    BY <2>1
  <2>4. 0 \notin erased /\ Fixed(job) /\ (command.retain => ~receipt)
    BY <2>1
  <2>. QED BY <2>1, <2>2, <2>3, <2>4
<1>17. CASE CleanOwners
  BY <1>17 DEF CleanOwners, CommandGoes, Removes
<1>18. CASE ClearReceipt
  BY <1>18 DEF ClearReceipt
<1>19. CASE Crash
  BY <1>19 DEF Crash
<1>20. CASE RetryCleanup
  BY <1>20 DEF RetryCleanup, Removes
<1>21. CASE Load
  BY <1>21 DEF Load
<1>22. CASE UNCHANGED cleanupVars
  BY <1>22 DEF cleanupVars
<1>. QED
  BY <1>1, <1>2, <1>3, <1>4, <1>5, <1>6, <1>7, <1>8, <1>9, <1>10, <1>11, <1>12, <1>13,
     <1>14, <1>15, <1>16, <1>17, <1>18, <1>19, <1>20, <1>21, <1>22
     DEF CleanupNext, InstallStep, UninstallStep

LEMMA DiskStaysFresh ==
  ASSUME CleanupInvariant, [CleanupNext]_cleanupVars
  PROVE  DiskFresh'
<1> USE CleanupAssumption
    DEF CleanupInvariant, CleanupTypeOK, Numbers, Unloaded, Commanded, Uninstalling,
        Fixed, MemoryFresh, DiskFresh, Configs, Installed, Digests, AllOwners,
        RecoveryOrder, diskVars, memoryVars, NoConfig, IdleJob, IdleCommand, DataOwners
<1>1. CASE Prepare
  BY <1>1 DEF Prepare
<1>2. CASE CancelToken
  BY <1>2 DEF CancelToken
<1>3. CASE BeginCommit
  BY <1>3 DEF BeginCommit, Reserved
<1>4. CASE PersistPackage
  BY <1>4 DEF PersistPackage
<1>5. CASE PersistConfig
  BY <1>5 DEF PersistConfig
<1>6. CASE PublishInstall
  BY <1>6 DEF PublishInstall, StillGood
<1>7. CASE RemoveOldPackage
  BY <1>7 DEF RemoveOldPackage
<1>8. CASE Enable
  BY <1>8 DEF Enable, SetsEnabled, StillGood, Reserved
<1>9. CASE Disable
  BY <1>9 DEF Disable, SetsEnabled, StillGood, Reserved
<1>10. CASE WriteStorage
  BY <1>10 DEF WriteStorage, Writes
<1>11. CASE RecordHistory
  BY <1>11 DEF RecordHistory, Writes
<1>12. CASE \E retain \in BOOLEAN : BeginUninstall(retain)
  BY <1>12 DEF BeginUninstall, Reserved
<1>13. CASE AbortUninstall
  BY <1>13 DEF AbortUninstall
<1>14. CASE CommitReceipt
  BY <1>14 DEF CommitReceipt, CommandGoes
<1>15. CASE PersistUninstalled
  BY <1>15 DEF PersistUninstalled, CommandGoes
<1>16. CASE PublishUninstall
  BY <1>16 DEF PublishUninstall, CommandGoes, StillGood
<1>17. CASE CleanOwners
  BY <1>17 DEF CleanOwners, CommandGoes, Removes
<1>18. CASE ClearReceipt
  BY <1>18 DEF ClearReceipt
<1>19. CASE Crash
  BY <1>19 DEF Crash
<1>20. CASE RetryCleanup
  <2>1. CASE UNCHANGED diskVars
    BY <1>20, <2>1 DEF RetryCleanup
  <2>2. CASE \E done \in 0..Len(RecoveryOrder) :
               /\ Removes({RecoveryOrder[i] : i \in 1..done})
               /\ receipt' \in IF done = Len(RecoveryOrder) THEN BOOLEAN ELSE {TRUE}
    <3>1. PICK done \in 0..3 :
               /\ Removes({RecoveryOrder[i] : i \in 1..done})
               /\ receipt' \in IF done = 3 THEN BOOLEAN ELSE {TRUE}
      BY <2>2
    <3>2. UNCHANGED <<erased, command>> /\ command.pc = "idle" /\ 0 \notin erased
      BY <1>20 DEF RetryCleanup
    <3>3. CASE done = 3
      <4>1. {"storage", "state", "packages"} = {RecoveryOrder[i] : i \in 1..done}
        BY <3>3
      <4>2. Removes({"storage", "state", "packages"})
        BY <3>1, <4>1
      <4>. QED BY <3>2, <4>2 DEF Removes
    <3>4. CASE done # 3
      BY <3>1, <3>2, <3>4
    <3>. QED BY <3>3, <3>4
  <2>. QED BY <1>20, <2>1, <2>2 DEF RetryCleanup
<1>21. CASE Load
  BY <1>21 DEF Load
<1>22. CASE UNCHANGED cleanupVars
  BY <1>22 DEF cleanupVars
<1>. QED
  BY <1>1, <1>2, <1>3, <1>4, <1>5, <1>6, <1>7, <1>8, <1>9, <1>10, <1>11, <1>12, <1>13,
     <1>14, <1>15, <1>16, <1>17, <1>18, <1>19, <1>20, <1>21, <1>22
     DEF CleanupNext, InstallStep, UninstallStep

-----------------------------------------------------------------------------
(* Cleanup without stale tokens *)

\* No install commit begins while an uninstall cleans up or a receipt is pending.
TokensHeld ==
    /\ command.pc # "idle" => Fixed(job)
    /\ command.pc \in {"clean", "clear"} => prepared = {}
    /\ receipt => Fixed(job) /\ (Uninstalling \/ prepared = {})

\* A pending receipt covers everything there is.
PendingErased ==
    receipt => /\ config.life \in erased \cup {0} /\ book.life \in erased \cup {0}
               /\ \A o \in DataOwners : data[o] \subseteq erased

\* Who is being cleaned up is uninstalled, on disk and in memory.
UninstalledStays ==
    /\ command.retain /\ command.pc \in {"publish", "clean"} => config.status = "uninstalled"
    /\ command.retain /\ command.pc = "clean" => book.status = "uninstalled"
    /\ ~command.retain /\ command.pc \in {"clean", "clear"} => book = NoConfig
    /\ command.pc = "clear" => config = NoConfig

\* A commit installs a package that is newer than every other and removes one that
\* nothing is configured for.
PackagesOrdered ==
    /\ PackageKept
    /\ job.pc = "config" => job.config.digest \in packages
    /\ job.pc \in {"package", "config"} => config.digest < job.config.digest
    /\ job.pc = "publish" => config.digest = job.config.digest
    /\ ~Fixed(job) => job.old < job.config.digest
    /\ job.pc = "old" => /\ Installed(config) => config.digest # job.old
                         /\ Installed(book) => book.digest # job.old

OrderlyInvariant ==
    CleanupInvariant /\ TokensHeld /\ PendingErased /\ UninstalledStays /\ PackagesOrdered

LEMMA TokensStayHeld ==
  ASSUME StaleTokens = FALSE, OrderlyInvariant, [CleanupNext]_cleanupVars
  PROVE  TokensHeld'
<1> USE CleanupAssumption
    DEF OrderlyInvariant, CleanupInvariant, CleanupTypeOK, Unloaded, Commanded,
        Uninstalling, Fixed, TokensHeld, StillGood, diskVars, memoryVars, NoConfig,
        IdleJob, IdleCommand, DataOwners
<1>1. CASE Prepare
  BY <1>1 DEF Prepare
<1>2. CASE CancelToken
  BY <1>2 DEF CancelToken
<1>3. CASE BeginCommit
  BY <1>3 DEF BeginCommit, Reserved, Installed
<1>4. CASE PersistPackage
  BY <1>4 DEF PersistPackage
<1>5. CASE PersistConfig
  BY <1>5 DEF PersistConfig
<1>6. CASE PublishInstall
  BY <1>6 DEF PublishInstall
<1>7. CASE RemoveOldPackage
  BY <1>7 DEF RemoveOldPackage
<1>8. CASE Enable
  BY <1>8 DEF Enable, SetsEnabled, Reserved
<1>9. CASE Disable
  BY <1>9 DEF Disable, SetsEnabled, Reserved
<1>10. CASE WriteStorage
  BY <1>10 DEF WriteStorage, Writes
<1>11. CASE RecordHistory
  BY <1>11 DEF RecordHistory, Writes
<1>12. CASE \E retain \in BOOLEAN : BeginUninstall(retain)
  BY <1>12 DEF BeginUninstall, Reserved
<1>13. CASE AbortUninstall
  BY <1>13 DEF AbortUninstall
<1>14. CASE CommitReceipt
  BY <1>14 DEF CommitReceipt, CommandGoes
<1>15. CASE PersistUninstalled
  BY <1>15 DEF PersistUninstalled, CommandGoes
<1>16. CASE PublishUninstall
  BY <1>16 DEF PublishUninstall, CommandGoes
<1>17. CASE CleanOwners
  BY <1>17 DEF CleanOwners, CommandGoes, Removes
<1>18. CASE ClearReceipt
  BY <1>18 DEF ClearReceipt
<1>19. CASE Crash
  BY <1>19 DEF Crash
<1>20. CASE RetryCleanup
  BY <1>20 DEF RetryCleanup, Removes
<1>21. CASE Load
  BY <1>21 DEF Load, Installed
<1>22. CASE UNCHANGED cleanupVars
  BY <1>22 DEF cleanupVars
<1>. QED
  BY <1>1, <1>2, <1>3, <1>4, <1>5, <1>6, <1>7, <1>8, <1>9, <1>10, <1>11, <1>12, <1>13,
     <1>14, <1>15, <1>16, <1>17, <1>18, <1>19, <1>20, <1>21, <1>22
     DEF CleanupNext, InstallStep, UninstallStep

LEMMA PendingStaysErased ==
  ASSUME StaleTokens = FALSE, OrderlyInvariant, [CleanupNext]_cleanupVars
  PROVE  PendingErased'
<1> USE CleanupAssumption
    DEF OrderlyInvariant, CleanupInvariant, CleanupTypeOK, Unloaded, Commanded,
        Uninstalling, Fixed, Numbers, TokensHeld, PendingErased, Configs, Installed,
        diskVars, memoryVars, NoConfig, IdleJob, IdleCommand, DataOwners
<1>1. CASE Prepare
  BY <1>1 DEF Prepare
<1>2. CASE CancelToken
  BY <1>2 DEF CancelToken
<1>3. CASE BeginCommit
  BY <1>3 DEF BeginCommit, Reserved
<1>4. CASE PersistPackage
  BY <1>4 DEF PersistPackage
<1>5. CASE PersistConfig
  BY <1>5 DEF PersistConfig
<1>6. CASE PublishInstall
  BY <1>6 DEF PublishInstall, StillGood
<1>7. CASE RemoveOldPackage
  BY <1>7 DEF RemoveOldPackage
<1>8. CASE Enable
  BY <1>8 DEF Enable, SetsEnabled, StillGood, Reserved
<1>9. CASE Disable
  BY <1>9 DEF Disable, SetsEnabled, StillGood, Reserved
<1>10. CASE WriteStorage
  BY <1>10 DEF WriteStorage, Writes
<1>11. CASE RecordHistory
  BY <1>11 DEF RecordHistory, Writes
<1>12. CASE \E retain \in BOOLEAN : BeginUninstall(retain)
  BY <1>12 DEF BeginUninstall, Reserved
<1>13. CASE AbortUninstall
  BY <1>13 DEF AbortUninstall
<1>14. CASE CommitReceipt
  BY <1>14 DEF CommitReceipt, CommandGoes
<1>15. CASE PersistUninstalled
  BY <1>15 DEF PersistUninstalled, CommandGoes
<1>16. CASE PublishUninstall
  BY <1>16 DEF PublishUninstall, CommandGoes, StillGood
<1>17. CASE CleanOwners
  BY <1>17 DEF CleanOwners, CommandGoes, Removes
<1>18. CASE ClearReceipt
  BY <1>18 DEF ClearReceipt
<1>19. CASE Crash
  BY <1>19 DEF Crash
<1>20. CASE RetryCleanup
  <2>1. UNCHANGED <<erased, book>>
    BY <1>20 DEF RetryCleanup
  <2>2. CASE ~receipt
    BY <1>20, <2>2 DEF RetryCleanup
  <2>3. CASE receipt
    <3>1. PICK owners : Removes(owners)
      BY <1>20, <2>3 DEF RetryCleanup
    <3>2. \A o \in DataOwners : data'[o] \subseteq data[o]
      BY <3>1 DEF Removes
    <3>3. config' = config \/ config' = NoConfig
      BY <3>1 DEF Removes
    <3>4. config'.life \in erased \cup {0}
      BY <2>3, <3>3
    <3>. QED BY <2>1, <2>3, <3>2, <3>4
  <2>. QED BY <2>2, <2>3
<1>21. CASE Load
  BY <1>21 DEF Load
<1>22. CASE UNCHANGED cleanupVars
  BY <1>22 DEF cleanupVars
<1>. QED
  BY <1>1, <1>2, <1>3, <1>4, <1>5, <1>6, <1>7, <1>8, <1>9, <1>10, <1>11, <1>12, <1>13,
     <1>14, <1>15, <1>16, <1>17, <1>18, <1>19, <1>20, <1>21, <1>22
     DEF CleanupNext, InstallStep, UninstallStep

LEMMA UninstalledKeeps ==
  ASSUME StaleTokens = FALSE, OrderlyInvariant, [CleanupNext]_cleanupVars
  PROVE  UninstalledStays'
<1> USE CleanupAssumption
    DEF OrderlyInvariant, CleanupInvariant, CleanupTypeOK, Unloaded, Commanded,
        Uninstalling, Fixed, TokensHeld, UninstalledStays, Installed, Configs,
        AllOwners, diskVars, memoryVars, NoConfig, IdleJob, IdleCommand, DataOwners
<1>1. CASE Prepare
  BY <1>1 DEF Prepare
<1>2. CASE CancelToken
  BY <1>2 DEF CancelToken
<1>3. CASE BeginCommit
  BY <1>3 DEF BeginCommit, Reserved
<1>4. CASE PersistPackage
  BY <1>4 DEF PersistPackage
<1>5. CASE PersistConfig
  BY <1>5 DEF PersistConfig
<1>6. CASE PublishInstall
  BY <1>6 DEF PublishInstall, StillGood
<1>7. CASE RemoveOldPackage
  BY <1>7 DEF RemoveOldPackage
<1>8. CASE Enable
  BY <1>8 DEF Enable, SetsEnabled, StillGood, Reserved
<1>9. CASE Disable
  BY <1>9 DEF Disable, SetsEnabled, StillGood, Reserved
<1>10. CASE WriteStorage
  BY <1>10 DEF WriteStorage, Writes
<1>11. CASE RecordHistory
  BY <1>11 DEF RecordHistory, Writes
<1>12. CASE \E retain \in BOOLEAN : BeginUninstall(retain)
  BY <1>12 DEF BeginUninstall, Reserved
<1>13. CASE AbortUninstall
  BY <1>13 DEF AbortUninstall
<1>14. CASE CommitReceipt
  BY <1>14 DEF CommitReceipt, CommandGoes
<1>15. CASE PersistUninstalled
  BY <1>15 DEF PersistUninstalled, CommandGoes
<1>16. CASE PublishUninstall
  BY <1>16 DEF PublishUninstall, CommandGoes, StillGood
<1>17. CASE CleanOwners
  BY <1>17 DEF CleanOwners, CommandGoes, Removes
<1>18. CASE ClearReceipt
  BY <1>18 DEF ClearReceipt
<1>19. CASE Crash
  BY <1>19 DEF Crash
<1>20. CASE RetryCleanup
  BY <1>20 DEF RetryCleanup, Removes
<1>21. CASE Load
  BY <1>21 DEF Load
<1>22. CASE UNCHANGED cleanupVars
  BY <1>22 DEF cleanupVars
<1>. QED
  BY <1>1, <1>2, <1>3, <1>4, <1>5, <1>6, <1>7, <1>8, <1>9, <1>10, <1>11, <1>12, <1>13,
     <1>14, <1>15, <1>16, <1>17, <1>18, <1>19, <1>20, <1>21, <1>22
     DEF CleanupNext, InstallStep, UninstallStep

LEMMA PackagesKept ==
  ASSUME StaleTokens = FALSE, OrderlyInvariant, [CleanupNext]_cleanupVars
  PROVE  PackagesOrdered'
<1> USE CleanupAssumption
    DEF OrderlyInvariant, CleanupInvariant, CleanupTypeOK, Unloaded, Commanded,
        Uninstalling, Fixed, Numbers, TokensHeld, UninstalledStays, PackagesOrdered,
        PackageKept, Installed, Configs, Digests, diskVars, memoryVars, NoConfig,
        IdleJob, IdleCommand, DataOwners
<1>1. CASE Prepare
  BY <1>1 DEF Prepare
<1>2. CASE CancelToken
  BY <1>2 DEF CancelToken
<1>3. CASE BeginCommit
  BY <1>3 DEF BeginCommit, Reserved
<1>4. CASE PersistPackage
  BY <1>4 DEF PersistPackage
<1>5. CASE PersistConfig
  BY <1>5 DEF PersistConfig
<1>6. CASE PublishInstall
  BY <1>6 DEF PublishInstall, StillGood
<1>7. CASE RemoveOldPackage
  BY <1>7 DEF RemoveOldPackage
<1>8. CASE Enable
  BY <1>8 DEF Enable, SetsEnabled, StillGood, Reserved
<1>9. CASE Disable
  BY <1>9 DEF Disable, SetsEnabled, StillGood, Reserved
<1>10. CASE WriteStorage
  BY <1>10 DEF WriteStorage, Writes
<1>11. CASE RecordHistory
  BY <1>11 DEF RecordHistory, Writes
<1>12. CASE \E retain \in BOOLEAN : BeginUninstall(retain)
  BY <1>12 DEF BeginUninstall, Reserved
<1>13. CASE AbortUninstall
  BY <1>13 DEF AbortUninstall
<1>14. CASE CommitReceipt
  BY <1>14 DEF CommitReceipt, CommandGoes
<1>15. CASE PersistUninstalled
  BY <1>15 DEF PersistUninstalled, CommandGoes
<1>16. CASE PublishUninstall
  BY <1>16 DEF PublishUninstall, CommandGoes, StillGood
<1>17. CASE CleanOwners
  BY <1>17 DEF CleanOwners, CommandGoes, Removes
<1>18. CASE ClearReceipt
  BY <1>18 DEF ClearReceipt
<1>19. CASE Crash
  BY <1>19 DEF Crash
<1>20. CASE RetryCleanup
  <2>1. job'.pc = "idle" /\ book' = NoConfig
    BY <1>20 DEF RetryCleanup
  <2>2. PackageKept'
    <3>1. CASE ~receipt
      BY <1>20, <3>1 DEF RetryCleanup
    <3>2. CASE receipt
      <4>1. PICK done \in 0..3 :
               /\ Removes({RecoveryOrder[i] : i \in 1..done})
               /\ receipt' \in IF done = 3 THEN BOOLEAN ELSE {TRUE}
        BY <1>20, <3>2 DEF RetryCleanup, RecoveryOrder
      <4>2. done = 3 => "state" \in {RecoveryOrder[i] : i \in 1..done}
        BY DEF RecoveryOrder
      <4>3. done = 3 => config' = NoConfig
        BY <4>1, <4>2 DEF Removes
      <4>4. CASE done = 3
        BY <4>3, <4>4
      <4>5. CASE done # 3
        <5>1. receipt'
          BY <4>1, <4>5, Zenon
        <5>. QED BY <5>1
      <4>. QED BY <4>4, <4>5
    <3>. QED BY <3>1, <3>2
  <2>. QED BY <2>1, <2>2
<1>21. CASE Load
  BY <1>21 DEF Load
<1>22. CASE UNCHANGED cleanupVars
  BY <1>22 DEF cleanupVars
<1>. QED
  BY <1>1, <1>2, <1>3, <1>4, <1>5, <1>6, <1>7, <1>8, <1>9, <1>10, <1>11, <1>12, <1>13,
     <1>14, <1>15, <1>16, <1>17, <1>18, <1>19, <1>20, <1>21, <1>22
     DEF CleanupNext, InstallStep, UninstallStep

LEMMA OrderlyStarts == CleanupInit => OrderlyInvariant
<1> SUFFICES ASSUME CleanupInit PROVE OrderlyInvariant
  OBVIOUS
<1>1. CleanupInvariant
  BY CleanupStarts
<1>2. TokensHeld /\ PendingErased /\ UninstalledStays /\ PackagesOrdered
  BY DEF CleanupInit, TokensHeld, PendingErased, UninstalledStays, PackagesOrdered, PackageKept,
         Installed, Fixed, IdleJob, IdleCommand, NoConfig
<1>. QED BY <1>1, <1>2 DEF OrderlyInvariant

-----------------------------------------------------------------------------
(* The theorems of the cleanup *)

LEMMA CleanupSteps ==
  ASSUME CleanupInvariant, [CleanupNext]_cleanupVars
  PROVE  CleanupInvariant'
BY CleanupTyped, CleanupNumbered, CleanupUnloaded, CleanupCommanded, MemoryStaysFresh,
   DiskStaysFresh DEF CleanupInvariant

LEMMA OrderlySteps ==
  ASSUME StaleTokens = FALSE, OrderlyInvariant, [CleanupNext]_cleanupVars
  PROVE  OrderlyInvariant'
BY CleanupSteps, TokensStayHeld, PendingStaysErased, UninstalledKeeps, PackagesKept
   DEF OrderlyInvariant

\* The inductive invariant of the cleanup: numbers of commits only grow, nothing is in
\* memory before the load, the receipt brackets the cleanup, and what is in memory or on
\* disk when no receipt is pending was never to be erased.
THEOREM CleanupCorrect == CleanupSpec => []CleanupInvariant
BY CleanupStarts, CleanupSteps, PTL DEF CleanupSpec

\* Once no receipt is pending, no stored data, configuration or package of an erased
\* installation is left, whatever deletions failed and wherever the program ended
\* (commit_uninstall, finish_uninstall_cleanup, retry_pending_owner_cleanup).
THEOREM ErasedForGood == CleanupSpec => []ErasedIsGone
<1>1. CleanupInvariant => ErasedIsGone
  BY DEF CleanupInvariant, DiskFresh, ErasedIsGone
<1>. QED BY <1>1, CleanupCorrect, PTL

\* A configuration that the next start will load has its package on disk, at every point
\* a crash may come, as long as no package prepared before a whole uninstall is committed.
THEOREM PackagesKeptOnDisk ==
  ASSUME StaleTokens = FALSE
  PROVE  CleanupSpec => []PackageKept
<1>1. CleanupInit => OrderlyInvariant
  BY OrderlyStarts
<1>2. OrderlyInvariant /\ [CleanupNext]_cleanupVars => OrderlyInvariant'
  BY OrderlySteps
<1>3. OrderlyInvariant => PackageKept
  BY DEF OrderlyInvariant, PackagesOrdered
<1>. QED BY <1>1, <1>2, <1>3, PTL DEF CleanupSpec

\* Only data that a durable receipt promised to erase are ever deleted, under the same
\* condition: not by an update, a restart or a recovery that comes late.
THEOREM DeletionsPromised ==
  ASSUME StaleTokens = FALSE
  PROVE  CleanupSpec => OnlyErasedDeleted
<1>1. CleanupInit => OrderlyInvariant
  BY OrderlyStarts
<1>2. OrderlyInvariant /\ [CleanupNext]_cleanupVars => OrderlyInvariant'
  BY OrderlySteps
<1>3. OrderlyInvariant /\ [CleanupNext]_cleanupVars
        => \A o \in DataOwners : data[o] \ data'[o] \subseteq erased
  <2> SUFFICES ASSUME OrderlyInvariant, [CleanupNext]_cleanupVars, NEW o \in DataOwners
               PROVE  data[o] \ data'[o] \subseteq erased
    OBVIOUS
  <2>1. receipt => data[o] \subseteq erased
    BY DEF OrderlyInvariant, PendingErased
  <2>2. data \in [DataOwners -> SUBSET Digests]
    BY DEF OrderlyInvariant, CleanupInvariant, CleanupTypeOK
  <2>3. CASE CleanOwners
    <3>1. CASE receipt
      BY <2>1, <3>1
    <3>2. CASE ~receipt
      <4>1. command.retain
        BY <2>3, <3>2 DEF CleanOwners, OrderlyInvariant, CleanupInvariant, Commanded
      <4>2. data'[o] = data[o]
        BY <2>2, <2>3, <4>1 DEF CleanOwners, Removes, DataOwners
      <4>. QED BY <4>2
    <3>. QED BY <3>1, <3>2
  <2>4. CASE RetryCleanup
    BY <2>1, <2>4 DEF RetryCleanup, diskVars
  <2>5. CASE WriteStorage \/ RecordHistory
    BY <2>2, <2>5 DEF WriteStorage, RecordHistory, Writes
  <2>6. CASE UNCHANGED data
    BY <2>6
  <2>7. CleanOwners \/ RetryCleanup \/ WriteStorage \/ RecordHistory \/ UNCHANGED data
    BY DEF CleanupNext, InstallStep, UninstallStep, Prepare, CancelToken, BeginCommit,
           PersistPackage, PersistConfig, PublishInstall, RemoveOldPackage, Enable, Disable,
           SetsEnabled, BeginUninstall, AbortUninstall, CommitReceipt, PersistUninstalled,
           PublishUninstall, ClearReceipt, Crash, Load, cleanupVars, diskVars
  <2>. QED BY <2>3, <2>4, <2>5, <2>6, <2>7
<1>. QED BY <1>1, <1>2, <1>3, PTL DEF CleanupSpec, OnlyErasedDeleted

-----------------------------------------------------------------------------
(* The clipboard: types *)

Copies == [seq : Nat, by : {"user", "other", "temp", "restored"}]

HistorySteps == {"unused", "starting", "polling", "asleep", "callback", "reading",
                 "storing", "ended"}
\* Where a manager goes on once a thread has ended.
NextSteps == {"idle", "ensure", "forget", "erase"}

ManagerTypes == [pc : ManagerSteps, list : SUBSET Plugins, thread : Observers \cup {None},
                 next : NextSteps, erases : Plugins \cup {None}, purge : BOOLEAN]
ObserverTypes == [pc : HistorySteps, stop : BOOLEAN, last : Nat, seen : Copies \cup {None}]

ManagersTyped == manager \in [Managers -> ManagerTypes]
ObserversTyped == observer \in [Observers -> ObserverTypes]
ServiceTypes ==
    /\ granted \in SUBSET Plugins /\ authorized \in SUBSET Plugins
    /\ handle \in Observers \cup {None}
    /\ suppressed \in Nat
    /\ excluded \in Seq(Nat) /\ Len(excluded) <= MaxExcluded
    /\ gate \in Observers \cup {None, "selection"}
    /\ history \in [Plugins -> SUBSET Copies]
    /\ clip \in Copies
    /\ latest \in Managers \cup {None, "overtaken"}
    /\ selection \in [pc : {"idle", "copy", "read", "restore"}, baseline : Nat,
                      observed : Nat, touched : BOOLEAN]
    /\ delivered \in SUBSET Nat
    /\ userCopy \in Nat

CopyTypes == ServiceTypes /\ ManagersTyped /\ ObserversTyped

\* Whoever stops, awaits or installs a thread has one.
ThreadsHeld ==
    \A m \in Managers :
        manager[m].pc \in {"stop", "join", "install"} => manager[m].thread \in Observers

\* Nothing is granted to a plugin that is being uninstalled.  Whoever read last has yet to
\* apply its list; once every change has been read, that list, or when it was applied last
\* the list of those authorized, is what is granted.
EveryChangeRead == \A m \in Managers : manager[m].pc # "snapshot"
GrantsFollowed ==
    /\ \A m \in Managers : manager[m].erases \notin granted
    /\ latest \in Managers =>
          manager[latest].pc = "sync" /\ (EveryChangeRead => manager[latest].list = granted)
    /\ latest = None /\ EveryChangeRead => authorized = granted

\* The gate is held by whoever reads the clipboard to record it, and by a transaction.
GateHeld ==
    /\ gate = "selection" <=> selection.pc # "idle"
    /\ \A o \in Observers : observer[o].pc \in {"reading", "storing"} => gate = o

\* What a capture returned is of the past or excluded; what it put back is excluded.
CurrentExcluded ==
    /\ \A n \in delivered : n <= clip.seq
    /\ clip.seq \in delivered \/ clip.by = "restored" => IsExcluded(clip.seq)

\* What an observer is about to record.
SeenAllowed ==
    \A o \in Observers :
        observer[o].pc \in {"reading", "storing"} =>
            /\ observer[o].seen \in Copies
            /\ observer[o].seen.seq <= clip.seq
            /\ observer[o].seen.seq \notin delivered
            /\ observer[o].seen.by # "restored"

\* Histories are of the past, and of the time before a transaction that runs.
Recorded ==
    \A p \in Plugins : \A c \in history[p] :
        /\ c.by # "restored" /\ c.seq \notin delivered
        /\ c.seq <= clip.seq
        /\ gate = "selection" => c.seq <= selection.baseline

\* The numbers a transaction and a user's copy go by.
Baselines ==
    /\ userCopy <= clip.seq
    /\ selection.baseline <= clip.seq
    /\ selection.observed <= clip.seq
    /\ selection.observed # 0 /\ clip.seq = selection.observed => clip.by = "temp"
    /\ selection.pc # "idle" /\ ~selection.touched => userCopy <= selection.baseline

-----------------------------------------------------------------------------
(* The clipboard: what is excluded stays within the limit *)

\* exclude_sequence: the number is among those kept, and no more than the limit are.
LEMMA ExcludeKnown ==
  ASSUME NEW known \in Seq(Nat), Len(known) <= MaxExcluded, NEW n \in Nat
  PROVE  /\ Exclude(known, n) \in Seq(Nat)
         /\ Len(Exclude(known, n)) <= MaxExcluded
         /\ \E i \in DOMAIN Exclude(known, n) : Exclude(known, n)[i] = n
<1> USE ClipboardAssumption
<1>1. CASE \E i \in DOMAIN known : known[i] = n
  BY <1>1 DEF Exclude
<1>2. CASE ~ \E i \in DOMAIN known : known[i] = n
  <2> DEFINE added == Append(known, n)
  <2>1. added \in Seq(Nat) /\ Len(added) = Len(known) + 1 /\ added[Len(added)] = n
    BY AppendProperties
  <2> HIDE DEF added
  <2>2. CASE Len(added) <= MaxExcluded
    <3>1. Exclude(known, n) = added
      BY <1>2, <2>2 DEF Exclude, added
    <3>2. Len(added) \in DOMAIN added
      BY <2>1
    <3>. QED
      BY <2>1, <2>2, <3>1, <3>2
  <2>3. CASE Len(added) > MaxExcluded
    <3>1. Exclude(known, n) = Newest(added)
      BY <1>2, <2>3, <2>1 DEF Exclude, added
    <3> DEFINE first == Len(added) - MaxExcluded + 1
    <3>2. first \in 1..Len(added) /\ first \in Int /\ Len(added) - first + 1 = MaxExcluded
      BY <2>1, <2>3
    <3>3. /\ Newest(added) \in Seq(Nat)
          /\ Len(Newest(added)) = MaxExcluded
          /\ \A i \in 1..MaxExcluded : Newest(added)[i] = added[first + i - 1]
      BY <2>1, <3>2, SubSeqProperties DEF Newest
    <3>4. MaxExcluded \in 1..MaxExcluded /\ first + MaxExcluded - 1 = Len(added)
      BY <2>1, <2>3
    <3>5. Newest(added)[MaxExcluded] = n
      BY <2>1, <3>3, <3>4
    <3>6. MaxExcluded \in DOMAIN Newest(added)
      BY <3>3, <3>4
    <3>. QED
      BY <3>1, <3>3, <3>5, <3>6
  <2>. QED
    BY <2>1, <2>2, <2>3
<1>. QED
  BY <1>1, <1>2

-----------------------------------------------------------------------------
(* The clipboard: what the steps of a manager leave it with *)

\* Only m changes, and keeps the types.
Changes(m) ==
    /\ manager' \in [Managers -> ManagerTypes]
    /\ \A n \in Managers \ {m} : manager'[n] = manager[n]

\* Publish: a new refresh, that of an uninstall or not.
LEMMA PublishDone ==
  ASSUME CopyTypes, NEW m \in Managers, NEW grants, NEW erases \in Plugins \cup {None},
         NEW purge \in BOOLEAN, Publish(m, grants, erases, purge)
  PROVE  /\ Changes(m)
         /\ manager'[m].pc = "snapshot" /\ manager'[m].thread = None
         /\ manager'[m].erases = erases
<1> DEFINE begun == [IdleManager EXCEPT !.pc = "snapshot"]
           named == [begun EXCEPT !.erases = erases]
           whole == [named EXCEPT !.purge = purge]
<1>1. begun \in ManagerTypes /\ begun.pc = "snapshot" /\ begun.thread = None
  BY DEF IdleManager, ManagerTypes, ManagerSteps, NextSteps
<1>4. manager' = [manager EXCEPT ![m] = whole]
  BY DEF Publish
<1> HIDE DEF begun
<1>2. named \in ManagerTypes /\ named.pc = "snapshot" /\ named.thread = None
      /\ named.erases = erases
  BY <1>1 DEF ManagerTypes
<1> HIDE DEF named
<1>3. whole \in ManagerTypes /\ whole.pc = "snapshot" /\ whole.thread = None
      /\ whole.erases = erases
  BY <1>2 DEF ManagerTypes
<1> HIDE DEF whole
<1>. QED
  BY <1>3, <1>4 DEF CopyTypes, ServiceTypes, ManagersTyped, Changes

\* SnapshotGrants: the list is what is granted.
LEMMA SnapshotDone ==
  ASSUME CopyTypes, NEW m \in Managers, SnapshotGrants(m)
  PROVE  /\ Changes(m)
         /\ manager'[m].pc = "sync" /\ manager'[m].list = granted
         /\ manager'[m].thread = manager[m].thread
         /\ manager'[m].erases = manager[m].erases
<1> DEFINE step == [manager[m] EXCEPT !.pc = "sync"]
           whole == [step EXCEPT !.list = granted]
<1>1. manager[m] \in ManagerTypes
  BY DEF CopyTypes, ServiceTypes, ManagersTyped
<1>2. step \in ManagerTypes /\ step.pc = "sync" /\ step.thread = manager[m].thread
      /\ step.erases = manager[m].erases
  BY <1>1 DEF ManagerTypes, ManagerSteps
<1> HIDE DEF step
<1>3. whole \in ManagerTypes /\ whole.pc = "sync" /\ whole.list = granted
      /\ whole.thread = manager[m].thread /\ whole.erases = manager[m].erases
  BY <1>2 DEF ManagerTypes, CopyTypes, ServiceTypes, ManagersTyped
<1>4. manager' = [manager EXCEPT ![m] = whole]
  BY DEF SnapshotGrants, step, CopyTypes, ServiceTypes, ManagersTyped
<1> HIDE DEF whole
<1>. QED
  BY <1>3, <1>4 DEF CopyTypes, ServiceTypes, ManagersTyped, Changes

\* Authorizes: on with the next step, or with the thread the service let go of.
LEMMA AuthorizesDone ==
  ASSUME CopyTypes, NEW m \in Managers, NEW plugins, NEW next \in {"ensure", "erase"},
         Authorizes(m, plugins, next)
  PROVE  /\ Changes(m)
         /\ manager'[m].erases = manager[m].erases
         /\ \/ /\ plugins = {} /\ handle # None /\ handle' = None
               /\ manager'[m].pc = "stop" /\ manager'[m].thread = handle
            \/ /\ handle' = handle
               /\ manager'[m].pc = next /\ manager'[m].thread = manager[m].thread
<1>1. manager[m] \in ManagerTypes
  BY DEF CopyTypes, ServiceTypes, ManagersTyped
<1>2. CASE plugins = {} /\ handle # None
  <2> DEFINE step == [manager[m] EXCEPT !.pc = "stop"]
             held == [step EXCEPT !.thread = handle]
             whole == [held EXCEPT !.next = next]
  <2>1. step \in ManagerTypes /\ step.pc = "stop" /\ step.erases = manager[m].erases
    BY <1>1 DEF ManagerTypes, ManagerSteps
  <2> HIDE DEF step
  <2>2. held \in ManagerTypes /\ held.pc = "stop" /\ held.thread = handle
        /\ held.erases = manager[m].erases
    BY <2>1 DEF ManagerTypes, CopyTypes, ServiceTypes, ManagersTyped
  <2> HIDE DEF held
  <2>3. whole \in ManagerTypes /\ whole.pc = "stop" /\ whole.thread = handle
        /\ whole.erases = manager[m].erases
    BY <2>2 DEF ManagerTypes, NextSteps
  <2>4. manager' = [manager EXCEPT ![m] = whole] /\ handle' = None
    BY <1>2 DEF Authorizes, step, held, CopyTypes, ServiceTypes, ManagersTyped
  <2> HIDE DEF whole
  <2>. QED
    BY <1>2, <2>3, <2>4 DEF CopyTypes, ServiceTypes, ManagersTyped, Changes
<1>3. CASE ~(plugins = {} /\ handle # None)
  <2> DEFINE step == [manager[m] EXCEPT !.pc = next]
  <2>1. step \in ManagerTypes /\ step.pc = next /\ step.erases = manager[m].erases
        /\ step.thread = manager[m].thread
    BY <1>1 DEF ManagerTypes, ManagerSteps
  <2>2. manager' = [manager EXCEPT ![m] = step] /\ handle' = handle
    BY <1>3 DEF Authorizes, Goes, CopyTypes, ServiceTypes, ManagersTyped
  <2> HIDE DEF step
  <2>. QED
    BY <2>1, <2>2 DEF CopyTypes, ServiceTypes, ManagersTyped, Changes
<1>. QED
  BY <1>2, <1>3

\* Refreshed, and the end of InstallThread: idle, or on with the uninstall.
LEMMA RefreshedDone ==
  ASSUME CopyTypes, NEW m \in Managers, Refreshed(m)
  PROVE  /\ Changes(m)
         /\ manager'[m].pc \in {"idle", "forget"}
         /\ manager'[m].erases = manager[m].erases
<1>1. manager[m] \in ManagerTypes
  BY DEF CopyTypes, ServiceTypes, ManagersTyped
<1>2. CASE manager[m].erases = None
  <2>1. manager' = [manager EXCEPT ![m] = IdleManager]
    BY <1>2 DEF Refreshed, CopyTypes, ServiceTypes, ManagersTyped
  <2>2. IdleManager \in ManagerTypes /\ IdleManager.pc = "idle" /\ IdleManager.erases = None
    BY DEF IdleManager, ManagerTypes, ManagerSteps, NextSteps
  <2>. QED
    BY <1>2, <2>1, <2>2 DEF CopyTypes, ServiceTypes, ManagersTyped, Changes
<1>3. CASE manager[m].erases # None
  <2> DEFINE step == [manager[m] EXCEPT !.pc = "forget"]
             whole == [step EXCEPT !.list = {}]
  <2>1. step \in ManagerTypes /\ step.pc = "forget" /\ step.erases = manager[m].erases
    BY <1>1 DEF ManagerTypes, ManagerSteps
  <2> HIDE DEF step
  <2>2. whole \in ManagerTypes /\ whole.pc = "forget" /\ whole.erases = manager[m].erases
    BY <2>1 DEF ManagerTypes
  <2>3. manager' = [manager EXCEPT ![m] = whole]
    BY <1>3 DEF Refreshed, step, CopyTypes, ServiceTypes, ManagersTyped
  <2> HIDE DEF whole
  <2>. QED
    BY <2>2, <2>3 DEF CopyTypes, ServiceTypes, ManagersTyped, Changes
<1>. QED
  BY <1>2, <1>3

\* EnsureObserver: a thread is wanted, or the refresh is over.
LEMMA EnsureDone ==
  ASSUME CopyTypes, NEW m \in Managers, EnsureObserver(m)
  PROVE  /\ Changes(m)
         /\ manager'[m].pc \in {"start", "idle", "forget"}
         /\ manager'[m].erases = manager[m].erases
<1>1. CASE authorized # {} /\ handle = None
  <2> DEFINE step == [manager[m] EXCEPT !.pc = "start"]
  <2>1. manager[m] \in ManagerTypes
    BY DEF CopyTypes, ServiceTypes, ManagersTyped
  <2>2. step \in ManagerTypes /\ step.pc = "start" /\ step.erases = manager[m].erases
    BY <2>1 DEF ManagerTypes, ManagerSteps
  <2>3. manager' = [manager EXCEPT ![m] = step]
    BY <1>1 DEF EnsureObserver, Goes, CopyTypes, ServiceTypes, ManagersTyped
  <2> HIDE DEF step
  <2>. QED
    BY <2>2, <2>3 DEF CopyTypes, ServiceTypes, ManagersTyped, Changes
<1>2. CASE ~(authorized # {} /\ handle = None)
  <2>1. Refreshed(m)
    BY <1>2 DEF EnsureObserver
  <2>. QED
    BY <2>1, RefreshedDone
<1>. QED
  BY <1>1, <1>2

\* InstallThread: the thread is to be stopped, or is the service's.
LEMMA InstallDone ==
  ASSUME CopyTypes, NEW m \in Managers, InstallThread(m)
  PROVE  /\ Changes(m)
         /\ manager'[m].erases = manager[m].erases
         /\ \/ /\ handle' = handle
               /\ manager'[m].pc = "stop" /\ manager'[m].thread = manager[m].thread
            \/ /\ handle = None /\ handle' = manager[m].thread
               /\ manager'[m].pc \in {"idle", "forget"}
<1>1. manager[m] \in ManagerTypes
  BY DEF CopyTypes, ServiceTypes, ManagersTyped
<1>2. CASE authorized = {} \/ handle # None
  <2> DEFINE step == [manager[m] EXCEPT !.pc = "stop"]
             next == IF manager[m].erases = None THEN "idle" ELSE "forget"
             whole == [step EXCEPT !.next = next]
  <2>1. step \in ManagerTypes /\ step.pc = "stop" /\ step.erases = manager[m].erases
        /\ step.thread = manager[m].thread
    BY <1>1 DEF ManagerTypes, ManagerSteps
  <2>2. next \in NextSteps
    BY DEF NextSteps
  <2>3. manager' = [manager EXCEPT ![m] = whole] /\ handle' = handle
    BY <1>2 DEF InstallThread, CopyTypes, ServiceTypes, ManagersTyped
  <2> HIDE DEF step, next
  <2>4. whole \in ManagerTypes /\ whole.pc = "stop" /\ whole.erases = manager[m].erases
        /\ whole.thread = manager[m].thread
    BY <2>1, <2>2 DEF ManagerTypes
  <2> HIDE DEF whole
  <2>. QED
    BY <2>3, <2>4 DEF CopyTypes, ServiceTypes, ManagersTyped, Changes
<1>3. CASE ~(authorized = {} \/ handle # None) /\ manager[m].erases = None
  <2>1. manager' = [manager EXCEPT ![m] = IdleManager] /\ handle' = manager[m].thread
    BY <1>3 DEF InstallThread, CopyTypes, ServiceTypes, ManagersTyped
  <2>2. IdleManager \in ManagerTypes /\ IdleManager.pc = "idle" /\ IdleManager.erases = None
    BY DEF IdleManager, ManagerTypes, ManagerSteps, NextSteps
  <2>. QED
    BY <1>3, <2>1, <2>2 DEF CopyTypes, ServiceTypes, ManagersTyped, Changes
<1>4. CASE ~(authorized = {} \/ handle # None) /\ manager[m].erases # None
  <2> DEFINE step == [manager[m] EXCEPT !.pc = "forget"]
             whole == [step EXCEPT !.thread = None]
  <2>1. step \in ManagerTypes /\ step.pc = "forget" /\ step.erases = manager[m].erases
    BY <1>1 DEF ManagerTypes, ManagerSteps
  <2>2. manager' = [manager EXCEPT ![m] = whole] /\ handle' = manager[m].thread
    BY <1>4 DEF InstallThread, CopyTypes, ServiceTypes, ManagersTyped
  <2> HIDE DEF step
  <2>3. whole \in ManagerTypes /\ whole.pc = "forget" /\ whole.erases = manager[m].erases
    BY <2>1 DEF ManagerTypes
  <2> HIDE DEF whole
  <2>. QED
    BY <1>4, <2>2, <2>3 DEF CopyTypes, ServiceTypes, ManagersTyped, Changes
<1>. QED
  BY <1>2, <1>3, <1>4

\* StopThread, StartThread, JoinThread, EraseHistory.
LEMMA StopDone ==
  ASSUME CopyTypes, NEW m \in Managers, StopThread(m)
  PROVE  /\ Changes(m)
         /\ manager'[m].pc = "join" /\ manager'[m].thread = manager[m].thread
         /\ manager'[m].erases = manager[m].erases
<1>1. manager[m] \in ManagerTypes
  BY DEF CopyTypes, ServiceTypes, ManagersTyped
<1>. QED
  BY <1>1 DEF StopThread, Goes, CopyTypes, ServiceTypes, ManagersTyped, Changes, ManagerTypes,
     ManagerSteps

LEMMA StartDone ==
  ASSUME CopyTypes, NEW m \in Managers, NEW o \in Observers,
         manager' = [manager EXCEPT ![m].pc = "install", ![m].thread = o]
  PROVE  /\ Changes(m)
         /\ manager'[m].pc = "install" /\ manager'[m].thread = o
         /\ manager'[m].erases = manager[m].erases
<1> DEFINE step == [manager[m] EXCEPT !.pc = "install"]
           whole == [step EXCEPT !.thread = o]
<1>1. manager[m] \in ManagerTypes
  BY DEF CopyTypes, ServiceTypes, ManagersTyped
<1>2. step \in ManagerTypes /\ step.pc = "install" /\ step.erases = manager[m].erases
  BY <1>1 DEF ManagerTypes, ManagerSteps
<1>3. manager' = [manager EXCEPT ![m] = whole]
  BY DEF CopyTypes, ServiceTypes, ManagersTyped
<1> HIDE DEF step
<1>4. whole \in ManagerTypes /\ whole.pc = "install" /\ whole.thread = o
      /\ whole.erases = manager[m].erases
  BY <1>2 DEF ManagerTypes
<1> HIDE DEF whole
<1>. QED
  BY <1>3, <1>4 DEF CopyTypes, ServiceTypes, ManagersTyped, Changes

LEMMA JoinDone ==
  ASSUME CopyTypes, NEW m \in Managers, JoinThread(m)
  PROVE  /\ Changes(m)
         /\ manager'[m].pc \in NextSteps /\ manager'[m].thread = None
         /\ manager'[m].erases = manager[m].erases
<1> DEFINE step == [manager[m] EXCEPT !.pc = manager[m].next]
           whole == [step EXCEPT !.thread = None]
<1>1. manager[m] \in ManagerTypes
  BY DEF CopyTypes, ServiceTypes, ManagersTyped
<1>2. step \in ManagerTypes /\ step.pc \in NextSteps /\ step.erases = manager[m].erases
  BY <1>1 DEF ManagerTypes, ManagerSteps, NextSteps
<1>3. manager' = [manager EXCEPT ![m] = whole]
  BY DEF JoinThread, CopyTypes, ServiceTypes, ManagersTyped
<1> HIDE DEF step
<1>4. whole \in ManagerTypes /\ whole.pc \in NextSteps /\ whole.thread = None
      /\ whole.erases = manager[m].erases
  BY <1>2 DEF ManagerTypes
<1> HIDE DEF whole
<1>. QED
  BY <1>3, <1>4 DEF CopyTypes, ServiceTypes, ManagersTyped, Changes

LEMMA EraseDone ==
  ASSUME CopyTypes, NEW m \in Managers, EraseHistory(m)
  PROVE  /\ Changes(m)
         /\ manager'[m].pc = "idle" /\ manager'[m].erases = None
<1>1. IdleManager \in ManagerTypes /\ IdleManager.pc = "idle" /\ IdleManager.erases = None
  BY DEF IdleManager, ManagerTypes, ManagerSteps, NextSteps
<1>2. manager' = [manager EXCEPT ![m] = IdleManager]
  BY DEF EraseHistory
<1>. QED
  BY <1>1, <1>2 DEF CopyTypes, ServiceTypes, ManagersTyped, Changes

-----------------------------------------------------------------------------
(* The clipboard: each part of the invariant is kept *)


\* Every step keeps the types.
LEMMA ManagersTypedKept ==
  ASSUME CopyTypes, [CopyNext]_clipboardVars
  PROVE  ManagersTyped'
<1> USE ClipboardAssumption
    DEF CopyTypes, ManagersTyped, clipboardVars, hostVars, serviceVars, copyVars
<1>1. ASSUME NEW m \in Managers, NEW p \in Plugins, Grant(m, p), UNCHANGED copyVars
      PROVE  ManagersTyped'
  BY <1>1, PublishDone DEF Changes, Grant
<1>2. ASSUME NEW m \in Managers, NEW p \in Plugins, Revoke(m, p), UNCHANGED copyVars
      PROVE  ManagersTyped'
  BY <1>2, PublishDone DEF Changes, Revoke
<1>3. ASSUME NEW m \in Managers, NEW p \in Plugins, NEW purge \in BOOLEAN,
          Uninstall(m, p, purge), UNCHANGED copyVars
      PROVE  ManagersTyped'
  BY <1>3, PublishDone DEF Changes, Uninstall
<1>4. ASSUME NEW m \in Managers, SnapshotGrants(m), UNCHANGED copyVars
      PROVE  ManagersTyped'
  BY <1>4, SnapshotDone DEF Changes
<1>5. ASSUME NEW m \in Managers, SyncAuthorized(m), UNCHANGED copyVars
      PROVE  ManagersTyped'
  BY <1>5, AuthorizesDone DEF Changes, SyncAuthorized
<1>6. ASSUME NEW m \in Managers, StopThread(m), UNCHANGED copyVars
      PROVE  ManagersTyped'
  BY <1>6, StopDone DEF Changes
<1>7. ASSUME NEW m \in Managers, JoinThread(m), UNCHANGED copyVars
      PROVE  ManagersTyped'
  BY <1>7, JoinDone DEF Changes
<1>8. ASSUME NEW m \in Managers, EnsureObserver(m), UNCHANGED copyVars
      PROVE  ManagersTyped'
  BY <1>8, EnsureDone DEF Changes
<1>9. ASSUME NEW m \in Managers, StartThread(m), UNCHANGED copyVars
      PROVE  ManagersTyped'
  BY <1>9, StartDone DEF Changes, StartThread
<1>10. ASSUME NEW m \in Managers, InstallThread(m), UNCHANGED copyVars
      PROVE  ManagersTyped'
  BY <1>10, InstallDone DEF Changes
<1>11. ASSUME NEW m \in Managers, ForgetPlugin(m), UNCHANGED copyVars
      PROVE  ManagersTyped'
  BY <1>11, AuthorizesDone DEF Changes, ForgetPlugin
<1>12. ASSUME NEW m \in Managers, EraseHistory(m), UNCHANGED copyVars
      PROVE  ManagersTyped'
  BY <1>12, EraseDone DEF Changes
<1>13. ASSUME NEW o \in Observers, BeginPolling(o), UNCHANGED copyVars
      PROVE  ManagersTyped'
  BY <1>13 DEF BeginPolling
<1>14. ASSUME NEW o \in Observers, LoopTop(o), UNCHANGED copyVars
      PROVE  ManagersTyped'
  BY <1>14 DEF LoopTop, ThreadGoes
<1>15. ASSUME NEW o \in Observers, Wake(o), UNCHANGED copyVars
      PROVE  ManagersTyped'
  BY <1>15 DEF Wake
<1>16. ASSUME NEW o \in Observers, CaptureSuppressed(o), UNCHANGED copyVars
      PROVE  ManagersTyped'
  BY <1>16 DEF CaptureSuppressed, ThreadGoes
<1>17. ASSUME NEW o \in Observers, CaptureRefused(o), UNCHANGED copyVars
      PROVE  ManagersTyped'
  BY <1>17 DEF CaptureRefused, ThreadGoes
<1>18. ASSUME NEW o \in Observers, CaptureAdmitted(o), UNCHANGED copyVars
      PROVE  ManagersTyped'
  BY <1>18 DEF CaptureAdmitted
<1>19. ASSUME NEW o \in Observers, ReadFails(o), UNCHANGED copyVars
      PROVE  ManagersTyped'
  BY <1>19 DEF ReadFails, ReleasesGate
<1>20. ASSUME NEW o \in Observers, ReadContents(o), UNCHANGED copyVars
      PROVE  ManagersTyped'
  BY <1>20 DEF ReadContents, ThreadGoes
<1>21. ASSUME NEW o \in Observers, StoreRecord(o), UNCHANGED copyVars
      PROVE  ManagersTyped'
  BY <1>21 DEF StoreRecord, ReleasesGate, Recorders
<1>22. ASSUME AppCopy, UNCHANGED copyVars
      PROVE  ManagersTyped'
  BY <1>22 DEF AppCopy, Written
<1>23. CASE SelectionBegins
  BY <1>23 DEF SelectionBegins, NoSelection
<1>24. CASE SelectionRefused
  BY <1>24 DEF SelectionRefused, SelectionEnds, NoSelection
<1>25. CASE InjectCopy
  BY <1>25 DEF InjectCopy
<1>26. CASE ReadCopy
  BY <1>26 DEF ReadCopy, Fresh
<1>27. CASE ReadGivesUp
  BY <1>27 DEF ReadGivesUp
<1>28. CASE RestoreContents
  BY <1>28 DEF RestoreContents, SelectionEnds, NoSelection, Written, Fresh, StillOwned
<1>29. CASE RestoreNothing
  BY <1>29 DEF RestoreNothing, SelectionEnds, NoSelection
<1>30. CASE TargetCopies
  BY <1>30 DEF TargetCopies, Written
<1>31. CASE UserCopies
  BY <1>31 DEF UserCopies, Written
<1>32. CASE UserTouches
  BY <1>32 DEF UserTouches
<1>33. CASE BeginPaste
  BY <1>33 DEF BeginPaste
<1>34. CASE WritePaste
  BY <1>34 DEF WritePaste, Written
<1>35. CASE CancelPaste
  BY <1>35 DEF CancelPaste
<1>36. CASE PanelCopies
  BY <1>36 DEF PanelCopies, Written
<1>37. CASE UNCHANGED clipboardVars
  BY <1>37
<1>. QED
  BY <1>1, <1>2, <1>3, <1>4, <1>5, <1>6, <1>7, <1>8, <1>9, <1>10, <1>11, <1>12, <1>13,
     <1>14, <1>15, <1>16, <1>17, <1>18, <1>19, <1>20, <1>21, <1>22, <1>23, <1>24,
     <1>25, <1>26, <1>27, <1>28, <1>29, <1>30, <1>31, <1>32, <1>33, <1>34, <1>35,
     <1>36, <1>37
     DEF CopyNext, SelectionStep, WriterStep, HistoryNext, ManagementStep, RefreshStep,
         ObserverStep

\* A thread goes to another step, with what it last saw or with what it is to record.
LEMMA ThreadTyped ==
  ASSUME ObserversTyped, NEW o \in Observers, NEW pc \in HistorySteps, NEW n \in Nat,
         NEW seen \in Copies \cup {None},
         \/ observer' = [observer EXCEPT ![o].pc = pc]
         \/ observer' = [observer EXCEPT ![o].pc = pc, ![o].last = n]
         \/ observer' = [observer EXCEPT ![o].last = n, ![o].pc = pc]
         \/ observer' = [observer EXCEPT ![o].pc = pc, ![o].seen = seen]
  PROVE  /\ ObserversTyped'
         /\ \A x \in Observers \ {o} : observer'[x] = observer[x]
         /\ observer'[o].stop = observer[o].stop
         /\ observer'[o].pc = pc
<1>1. observer[o] \in ObserverTypes
  BY DEF ObserversTyped
<1> DEFINE step == [observer[o] EXCEPT !.pc = pc]
           later == [observer[o] EXCEPT !.last = n]
           three == [step EXCEPT !.last = n]
           back == [later EXCEPT !.pc = pc]
           four == [step EXCEPT !.seen = seen]
<1>2. \/ observer' = [observer EXCEPT ![o] = step]
      \/ observer' = [observer EXCEPT ![o] = three]
      \/ observer' = [observer EXCEPT ![o] = back]
      \/ observer' = [observer EXCEPT ![o] = four]
  BY DEF ObserversTyped
<1>3. /\ step \in ObserverTypes /\ step.pc = pc /\ step.stop = observer[o].stop
      /\ later \in ObserverTypes /\ later.stop = observer[o].stop
  BY <1>1 DEF ObserverTypes
<1> HIDE DEF step, later
<1>4. /\ three \in ObserverTypes /\ three.pc = pc /\ three.stop = observer[o].stop
      /\ four \in ObserverTypes /\ four.pc = pc /\ four.stop = observer[o].stop
      /\ back \in ObserverTypes /\ back.pc = pc /\ back.stop = observer[o].stop
  BY <1>3 DEF ObserverTypes
<1> HIDE DEF three, back, four
<1>. QED
  BY <1>2, <1>3, <1>4 DEF ObserversTyped


LEMMA ObserversTypedKept ==
  ASSUME CopyTypes, ThreadsHeld, [CopyNext]_clipboardVars
  PROVE  ObserversTyped'
<1> USE ClipboardAssumption
    DEF ThreadsHeld, clipboardVars, hostVars, serviceVars, copyVars
<1>1. ASSUME NEW m \in Managers, NEW p \in Plugins, Grant(m, p), UNCHANGED copyVars
      PROVE  ObserversTyped'
  BY <1>1 DEF Grant, Publish, Idle, IdleManager, CopyTypes, ObserversTyped
<1>2. ASSUME NEW m \in Managers, NEW p \in Plugins, Revoke(m, p), UNCHANGED copyVars
      PROVE  ObserversTyped'
  BY <1>2 DEF Revoke, Publish, Idle, IdleManager, CopyTypes, ObserversTyped
<1>3. ASSUME NEW m \in Managers, NEW p \in Plugins, NEW purge \in BOOLEAN,
          Uninstall(m, p, purge), UNCHANGED copyVars
      PROVE  ObserversTyped'
  BY <1>3 DEF Uninstall, Publish, Idle, IdleManager, CopyTypes, ObserversTyped
<1>4. ASSUME NEW m \in Managers, SnapshotGrants(m), UNCHANGED copyVars
      PROVE  ObserversTyped'
  BY <1>4 DEF SnapshotGrants, CopyTypes, ObserversTyped
<1>5. ASSUME NEW m \in Managers, SyncAuthorized(m), UNCHANGED copyVars
      PROVE  ObserversTyped'
  BY <1>5 DEF SyncAuthorized, Authorizes, Goes, CopyTypes, ObserversTyped
<1>6. ASSUME NEW m \in Managers, StopThread(m), UNCHANGED copyVars
      PROVE  ObserversTyped'
  BY <1>6 DEF StopThread, CopyTypes, ObserversTyped, ObserverTypes
<1>7. ASSUME NEW m \in Managers, JoinThread(m), UNCHANGED copyVars
      PROVE  ObserversTyped'
  <2>1. NoThread \in ObserverTypes
    BY DEF NoThread, ObserverTypes, HistorySteps
  <2>. QED
    BY <1>7, <2>1 DEF JoinThread, CopyTypes, ObserversTyped
<1>8. ASSUME NEW m \in Managers, EnsureObserver(m), UNCHANGED copyVars
      PROVE  ObserversTyped'
  BY <1>8 DEF EnsureObserver, Goes, Refreshed, IdleManager, CopyTypes, ObserversTyped
<1>9. ASSUME NEW m \in Managers, StartThread(m), UNCHANGED copyVars
      PROVE  ObserversTyped'
  <2>1. PICK o \in Observers : observer' = [observer EXCEPT ![o].pc = "starting"]
    BY <1>9 DEF StartThread
  <2>. QED
    BY <2>1, ThreadTyped DEF CopyTypes, HistorySteps
<1>10. ASSUME NEW m \in Managers, InstallThread(m), UNCHANGED copyVars
      PROVE  ObserversTyped'
  BY <1>10 DEF InstallThread, IdleManager, CopyTypes, ObserversTyped
<1>11. ASSUME NEW m \in Managers, ForgetPlugin(m), UNCHANGED copyVars
      PROVE  ObserversTyped'
  BY <1>11 DEF ForgetPlugin, Authorizes, Goes, CopyTypes, ObserversTyped
<1>12. ASSUME NEW m \in Managers, EraseHistory(m), UNCHANGED copyVars
      PROVE  ObserversTyped'
  BY <1>12 DEF EraseHistory, IdleManager, CopyTypes, ObserversTyped
<1>13. ASSUME NEW o \in Observers, BeginPolling(o), UNCHANGED copyVars
      PROVE  ObserversTyped'
  <2>1. PICK pc \in HistorySteps, n \in Nat :
            observer' = [observer EXCEPT ![o].pc = pc, ![o].last = n]
    BY <1>13 DEF BeginPolling, HistorySteps, CopyTypes, ServiceTypes, Copies
  <2>. QED
    BY <2>1, ThreadTyped DEF CopyTypes
<1>14. ASSUME NEW o \in Observers, LoopTop(o), UNCHANGED copyVars
      PROVE  ObserversTyped'
  <2>1. PICK pc \in HistorySteps : observer' = [observer EXCEPT ![o].pc = pc]
    BY <1>14 DEF LoopTop, ThreadGoes, HistorySteps
  <2>. QED
    BY <2>1, ThreadTyped DEF CopyTypes
<1>15. ASSUME NEW o \in Observers, Wake(o), UNCHANGED copyVars
      PROVE  ObserversTyped'
  <2>1. PICK pc \in HistorySteps, n \in Nat :
            observer' = [observer EXCEPT ![o].last = n, ![o].pc = pc]
    BY <1>15 DEF Wake, HistorySteps, CopyTypes, ServiceTypes, Copies
  <2>. QED
    BY <2>1, ThreadTyped DEF CopyTypes
<1>16. ASSUME NEW o \in Observers, CaptureSuppressed(o), UNCHANGED copyVars
      PROVE  ObserversTyped'
  <2>1. PICK pc \in HistorySteps : observer' = [observer EXCEPT ![o].pc = pc]
    BY <1>16 DEF CaptureSuppressed, ThreadGoes, HistorySteps
  <2>. QED
    BY <2>1, ThreadTyped DEF CopyTypes
<1>17. ASSUME NEW o \in Observers, CaptureRefused(o), UNCHANGED copyVars
      PROVE  ObserversTyped'
  <2>1. PICK pc \in HistorySteps : observer' = [observer EXCEPT ![o].pc = pc]
    BY <1>17 DEF CaptureRefused, ThreadGoes, HistorySteps
  <2>. QED
    BY <2>1, ThreadTyped DEF CopyTypes
<1>18. ASSUME NEW o \in Observers, CaptureAdmitted(o), UNCHANGED copyVars
      PROVE  ObserversTyped'
  <2>1. PICK pc \in HistorySteps, seen \in Copies \cup {None} :
            observer' = [observer EXCEPT ![o].pc = pc, ![o].seen = seen]
    BY <1>18 DEF CaptureAdmitted, HistorySteps, CopyTypes, ServiceTypes
  <2>. QED
    BY <2>1, ThreadTyped DEF CopyTypes
<1>19. ASSUME NEW o \in Observers, ReadFails(o), UNCHANGED copyVars
      PROVE  ObserversTyped'
  <2>1. PICK pc \in HistorySteps, seen \in Copies \cup {None} :
            observer' = [observer EXCEPT ![o].pc = pc, ![o].seen = seen]
    BY <1>19 DEF ReadFails, ReleasesGate, HistorySteps, CopyTypes, ServiceTypes
  <2>. QED
    BY <2>1, ThreadTyped DEF CopyTypes
<1>20. ASSUME NEW o \in Observers, ReadContents(o), UNCHANGED copyVars
      PROVE  ObserversTyped'
  <2>1. PICK pc \in HistorySteps : observer' = [observer EXCEPT ![o].pc = pc]
    BY <1>20 DEF ReadContents, ThreadGoes, HistorySteps
  <2>. QED
    BY <2>1, ThreadTyped DEF CopyTypes
<1>21. ASSUME NEW o \in Observers, StoreRecord(o), UNCHANGED copyVars
      PROVE  ObserversTyped'
  <2>1. PICK pc \in HistorySteps, seen \in Copies \cup {None} :
            observer' = [observer EXCEPT ![o].pc = pc, ![o].seen = seen]
    BY <1>21 DEF StoreRecord, ReleasesGate, HistorySteps, CopyTypes, ServiceTypes
  <2>. QED
    BY <2>1, ThreadTyped DEF CopyTypes
<1>22. ASSUME AppCopy, UNCHANGED copyVars
      PROVE  ObserversTyped'
  BY <1>22 DEF AppCopy, Written, CopyTypes, ObserversTyped
<1>23. CASE SelectionBegins
  BY <1>23 DEF SelectionBegins, NoSelection, CopyTypes, ObserversTyped
<1>24. CASE SelectionRefused
  BY <1>24 DEF SelectionRefused, SelectionEnds, NoSelection, CopyTypes, ObserversTyped
<1>25. CASE InjectCopy
  BY <1>25 DEF InjectCopy, CopyTypes, ObserversTyped
<1>26. CASE ReadCopy
  BY <1>26 DEF ReadCopy, Fresh, CopyTypes, ObserversTyped
<1>27. CASE ReadGivesUp
  BY <1>27 DEF ReadGivesUp, CopyTypes, ObserversTyped
<1>28. CASE RestoreContents
  BY <1>28 DEF RestoreContents, SelectionEnds, NoSelection, Written, Fresh, StillOwned,
         CopyTypes, ObserversTyped
<1>29. CASE RestoreNothing
  BY <1>29 DEF RestoreNothing, SelectionEnds, NoSelection, CopyTypes, ObserversTyped
<1>30. CASE TargetCopies
  BY <1>30 DEF TargetCopies, Written, CopyTypes, ObserversTyped
<1>31. CASE UserCopies
  BY <1>31 DEF UserCopies, Written, CopyTypes, ObserversTyped
<1>32. CASE UserTouches
  BY <1>32 DEF UserTouches, CopyTypes, ObserversTyped
<1>33. CASE BeginPaste
  BY <1>33 DEF BeginPaste, CopyTypes, ObserversTyped
<1>34. CASE WritePaste
  BY <1>34 DEF WritePaste, Written, CopyTypes, ObserversTyped
<1>35. CASE CancelPaste
  BY <1>35 DEF CancelPaste, CopyTypes, ObserversTyped
<1>36. CASE PanelCopies
  BY <1>36 DEF PanelCopies, Written, CopyTypes, ObserversTyped
<1>37. CASE UNCHANGED clipboardVars
  BY <1>37 DEF CopyTypes, ObserversTyped
<1>. QED
  BY <1>1, <1>2, <1>3, <1>4, <1>5, <1>6, <1>7, <1>8, <1>9, <1>10, <1>11, <1>12, <1>13,
     <1>14, <1>15, <1>16, <1>17, <1>18, <1>19, <1>20, <1>21, <1>22, <1>23, <1>24,
     <1>25, <1>26, <1>27, <1>28, <1>29, <1>30, <1>31, <1>32, <1>33, <1>34, <1>35,
     <1>36, <1>37
     DEF CopyNext, SelectionStep, WriterStep, HistoryNext, ManagementStep, RefreshStep,
         ObserverStep

\* A manager that stops, awaits or installs a thread has one.
LEMMA ThreadsHeldKept ==
  ASSUME CopyTypes, ThreadsHeld, [CopyNext]_clipboardVars
  PROVE  ThreadsHeld'
<1> USE ClipboardAssumption
    DEF CopyTypes, ServiceTypes, ManagersTyped, ObserversTyped, ThreadsHeld,
        ManagerTypes, HistorySteps, NextSteps, clipboardVars, hostVars, serviceVars,
        copyVars
<1>1. ASSUME NEW m \in Managers, NEW p \in Plugins, Grant(m, p), UNCHANGED copyVars
      PROVE  ThreadsHeld'
  BY <1>1 DEF Grant, Publish, Idle, IdleManager
<1>2. ASSUME NEW m \in Managers, NEW p \in Plugins, Revoke(m, p), UNCHANGED copyVars
      PROVE  ThreadsHeld'
  BY <1>2 DEF Revoke, Publish, Idle, IdleManager
<1>3. ASSUME NEW m \in Managers, NEW p \in Plugins, NEW purge \in BOOLEAN,
          Uninstall(m, p, purge), UNCHANGED copyVars
      PROVE  ThreadsHeld'
  BY <1>3 DEF Uninstall, Publish, Idle, IdleManager
<1>4. ASSUME NEW m \in Managers, SnapshotGrants(m), UNCHANGED copyVars
      PROVE  ThreadsHeld'
  BY <1>4 DEF SnapshotGrants
<1>5. ASSUME NEW m \in Managers, SyncAuthorized(m), UNCHANGED copyVars
      PROVE  ThreadsHeld'
  <2>1. Changes(m) /\ manager'[m].erases = manager[m].erases
        /\ \/ /\ manager[m].list = {} /\ handle # None /\ handle' = None
              /\ manager'[m].pc = "stop" /\ manager'[m].thread = handle
           \/ /\ handle' = handle
              /\ manager'[m].pc = "ensure" /\ manager'[m].thread = manager[m].thread
    BY <1>5, AuthorizesDone DEF SyncAuthorized
  <2>2. manager[m].pc = "sync" /\ authorized' = manager[m].list
        /\ UNCHANGED <<granted, observer, clip>>
    BY <1>5 DEF SyncAuthorized, Authorizes
  <2>. QED
    BY <2>1, <2>2 DEF Changes
<1>6. ASSUME NEW m \in Managers, StopThread(m), UNCHANGED copyVars
      PROVE  ThreadsHeld'
  BY <1>6 DEF StopThread, Goes
<1>7. ASSUME NEW m \in Managers, JoinThread(m), UNCHANGED copyVars
      PROVE  ThreadsHeld'
  BY <1>7 DEF JoinThread, NoThread
<1>8. ASSUME NEW m \in Managers, EnsureObserver(m), UNCHANGED copyVars
      PROVE  ThreadsHeld'
  <2>1. Changes(m) /\ manager'[m].pc \in {"start", "idle", "forget"}
        /\ manager'[m].erases = manager[m].erases
    BY <1>8, EnsureDone
  <2>2. manager[m].pc = "ensure" /\ UNCHANGED <<granted, serviceVars, observer, clip, latest>>
    BY <1>8 DEF EnsureObserver
  <2>. QED
    BY <2>1, <2>2 DEF Changes
<1>9. ASSUME NEW m \in Managers, StartThread(m), UNCHANGED copyVars
      PROVE  ThreadsHeld'
  BY <1>9 DEF StartThread
<1>10. ASSUME NEW m \in Managers, InstallThread(m), UNCHANGED copyVars
      PROVE  ThreadsHeld'
  <2>1. Changes(m) /\ manager'[m].erases = manager[m].erases
        /\ \/ /\ handle' = handle
              /\ manager'[m].pc = "stop" /\ manager'[m].thread = manager[m].thread
           \/ /\ handle = None /\ handle' = manager[m].thread
              /\ manager'[m].pc \in {"idle", "forget"}
    BY <1>10, InstallDone
  <2>2. manager[m].pc = "install" /\ UNCHANGED <<granted, authorized, observer, clip, latest>>
    BY <1>10 DEF InstallThread
  <2>. QED
    BY <2>1, <2>2 DEF Changes
<1>11. ASSUME NEW m \in Managers, ForgetPlugin(m), UNCHANGED copyVars
      PROVE  ThreadsHeld'
  <2>1. Changes(m) /\ manager'[m].erases = manager[m].erases
        /\ \/ /\ authorized \ {manager[m].erases} = {} /\ handle # None /\ handle' = None
              /\ manager'[m].pc = "stop" /\ manager'[m].thread = handle
           \/ /\ handle' = handle
              /\ manager'[m].pc = "erase" /\ manager'[m].thread = manager[m].thread
    BY <1>11, AuthorizesDone DEF ForgetPlugin
  <2>2. manager[m].pc = "forget" /\ authorized' = authorized \ {manager[m].erases}
        /\ UNCHANGED <<granted, observer, clip, latest>>
    BY <1>11 DEF ForgetPlugin, Authorizes
  <2>. QED
    BY <2>1, <2>2 DEF Changes
<1>12. ASSUME NEW m \in Managers, EraseHistory(m), UNCHANGED copyVars
      PROVE  ThreadsHeld'
  BY <1>12 DEF EraseHistory, IdleManager
<1>13. ASSUME NEW o \in Observers, BeginPolling(o), UNCHANGED copyVars
      PROVE  ThreadsHeld'
  BY <1>13 DEF BeginPolling
<1>14. ASSUME NEW o \in Observers, LoopTop(o), UNCHANGED copyVars
      PROVE  ThreadsHeld'
  BY <1>14 DEF LoopTop, ThreadGoes
<1>15. ASSUME NEW o \in Observers, Wake(o), UNCHANGED copyVars
      PROVE  ThreadsHeld'
  BY <1>15 DEF Wake
<1>16. ASSUME NEW o \in Observers, CaptureSuppressed(o), UNCHANGED copyVars
      PROVE  ThreadsHeld'
  BY <1>16 DEF CaptureSuppressed, ThreadGoes
<1>17. ASSUME NEW o \in Observers, CaptureRefused(o), UNCHANGED copyVars
      PROVE  ThreadsHeld'
  BY <1>17 DEF CaptureRefused, ThreadGoes
<1>18. ASSUME NEW o \in Observers, CaptureAdmitted(o), UNCHANGED copyVars
      PROVE  ThreadsHeld'
  BY <1>18 DEF CaptureAdmitted
<1>19. ASSUME NEW o \in Observers, ReadFails(o), UNCHANGED copyVars
      PROVE  ThreadsHeld'
  BY <1>19 DEF ReadFails, ReleasesGate
<1>20. ASSUME NEW o \in Observers, ReadContents(o), UNCHANGED copyVars
      PROVE  ThreadsHeld'
  BY <1>20 DEF ReadContents, ThreadGoes
<1>21. ASSUME NEW o \in Observers, StoreRecord(o), UNCHANGED copyVars
      PROVE  ThreadsHeld'
  BY <1>21 DEF StoreRecord, ReleasesGate, Recorders
<1>22. ASSUME AppCopy, UNCHANGED copyVars
      PROVE  ThreadsHeld'
  BY <1>22 DEF AppCopy, Written
<1>23. CASE SelectionBegins
  BY <1>23 DEF SelectionBegins, NoSelection
<1>24. CASE SelectionRefused
  BY <1>24 DEF SelectionRefused, SelectionEnds, NoSelection
<1>25. CASE InjectCopy
  BY <1>25 DEF InjectCopy
<1>26. CASE ReadCopy
  BY <1>26 DEF ReadCopy, Fresh
<1>27. CASE ReadGivesUp
  BY <1>27 DEF ReadGivesUp
<1>28. CASE RestoreContents
  BY <1>28 DEF RestoreContents, SelectionEnds, NoSelection, Written, Fresh, StillOwned
<1>29. CASE RestoreNothing
  BY <1>29 DEF RestoreNothing, SelectionEnds, NoSelection
<1>30. CASE TargetCopies
  BY <1>30 DEF TargetCopies, Written
<1>31. CASE UserCopies
  BY <1>31 DEF UserCopies, Written
<1>32. CASE UserTouches
  BY <1>32 DEF UserTouches
<1>33. CASE BeginPaste
  BY <1>33 DEF BeginPaste
<1>34. CASE WritePaste
  BY <1>34 DEF WritePaste, Written
<1>35. CASE CancelPaste
  BY <1>35 DEF CancelPaste
<1>36. CASE PanelCopies
  BY <1>36 DEF PanelCopies, Written
<1>37. CASE UNCHANGED clipboardVars
  BY <1>37
<1>. QED
  BY <1>1, <1>2, <1>3, <1>4, <1>5, <1>6, <1>7, <1>8, <1>9, <1>10, <1>11, <1>12, <1>13,
     <1>14, <1>15, <1>16, <1>17, <1>18, <1>19, <1>20, <1>21, <1>22, <1>23, <1>24,
     <1>25, <1>26, <1>27, <1>28, <1>29, <1>30, <1>31, <1>32, <1>33, <1>34, <1>35,
     <1>36, <1>37
     DEF CopyNext, SelectionStep, WriterStep, HistoryNext, ManagementStep, RefreshStep,
         ObserverStep

\* A manager that is through with its list, and leaves those authorized that are granted.
LEMMA FollowStep ==
  ASSUME CopyTypes, GrantsFollowed, NEW m \in Managers, Changes(m),
         manager[m].pc \notin {"snapshot", "sync"}, manager'[m].pc # "snapshot",
         manager'[m].erases = manager[m].erases, UNCHANGED <<granted, latest>>,
         authorized = granted => authorized' = authorized
  PROVE  GrantsFollowed'
<1>1. \A n \in Managers : manager'[n].erases \notin granted'
  BY DEF GrantsFollowed, Changes
<1>2. EveryChangeRead' => EveryChangeRead
  BY DEF EveryChangeRead, Changes
<1>3. latest \in Managers => latest # m /\ manager'[latest] = manager[latest]
  BY DEF GrantsFollowed, Changes
<1>. QED
  BY <1>1, <1>2, <1>3 DEF GrantsFollowed

\* A manager that keeps in its hands, or the service's, the threads that were there.
LEMMA AccountStep ==
  ASSUME CopyTypes, ObserverAccounted, NEW m \in Managers, Changes(m), observer' = observer,
         \A o \in Observers :
             handle = o \/ (manager[m].thread = o /\ manager[m].pc \in {"install", "stop"})
               => \/ handle' = o
                  \/ manager'[m].thread = o /\ manager'[m].pc \in {"install", "stop"}
  PROVE  ObserverAccounted'
<1> SUFFICES ASSUME NEW o \in Observers, observer[o].pc # "unused", ~observer[o].stop
             PROVE  \/ handle' = o
                    \/ \E n \in Managers : manager'[n].thread = o
                                           /\ manager'[n].pc \in {"install", "stop"}
  BY DEF ObserverAccounted
<1>1. CASE handle = o \/ (manager[m].thread = o /\ manager[m].pc \in {"install", "stop"})
  BY <1>1
<1>2. CASE \E n \in Managers \ {m} : manager[n].thread = o
                                      /\ manager[n].pc \in {"install", "stop"}
  BY <1>2 DEF Changes
<1>. QED
  BY <1>1, <1>2 DEF ObserverAccounted


\* The list that was read last is what is granted, in its manager's hands or applied.
LEMMA GrantsFollowedKept ==
  ASSUME CopyTypes, ThreadsHeld, GrantsFollowed, [CopyNext]_clipboardVars
  PROVE  GrantsFollowed'
<1> USE ClipboardAssumption, ManagersAssumption
    DEF CopyTypes, ServiceTypes, ManagersTyped, ObserversTyped, ThreadsHeld,
        ManagerTypes, HistorySteps, NextSteps, GrantsFollowed, EveryChangeRead, Idle,
        clipboardVars, hostVars, serviceVars, copyVars
<1>1. ASSUME NEW m \in Managers, NEW p \in Plugins, Grant(m, p), UNCHANGED copyVars
      PROVE  GrantsFollowed'
  BY <1>1 DEF Grant, Publish, IdleManager
<1>2. ASSUME NEW m \in Managers, NEW p \in Plugins, Revoke(m, p), UNCHANGED copyVars
      PROVE  GrantsFollowed'
  BY <1>2 DEF Revoke, Publish, IdleManager
<1>3. ASSUME NEW m \in Managers, NEW p \in Plugins, NEW purge \in BOOLEAN,
          Uninstall(m, p, purge), UNCHANGED copyVars
      PROVE  GrantsFollowed'
  BY <1>3 DEF Uninstall, Publish, IdleManager
<1>4. ASSUME NEW m \in Managers, SnapshotGrants(m), UNCHANGED copyVars
      PROVE  GrantsFollowed'
  <2>1. Changes(m) /\ manager'[m].pc = "sync" /\ manager'[m].list = granted
        /\ manager'[m].erases = manager[m].erases
    BY <1>4, SnapshotDone
  <2>2. latest' = m /\ UNCHANGED <<granted, serviceVars, observer, clip>>
    BY <1>4 DEF SnapshotGrants
  <2>. QED
    BY <2>1, <2>2 DEF Changes
<1>5. ASSUME NEW m \in Managers, SyncAuthorized(m), UNCHANGED copyVars
      PROVE  GrantsFollowed'
  <2>1. Changes(m) /\ manager'[m].erases = manager[m].erases
        /\ manager'[m].pc \in {"stop", "ensure"}
    BY <1>5, AuthorizesDone DEF SyncAuthorized
  <2>2. /\ manager[m].pc = "sync" /\ authorized' = manager[m].list
        /\ latest' = IF latest = m THEN None
                     ELSE IF latest \in Managers THEN latest ELSE "overtaken"
        /\ UNCHANGED <<granted, observer, clip>>
    BY <1>5 DEF SyncAuthorized, Authorizes
  <2>3. EveryChangeRead' => EveryChangeRead
    BY <2>1, <2>2 DEF EveryChangeRead, Changes
  <2>4. \A n \in Managers : manager'[n].erases \notin granted'
    BY <2>1, <2>2 DEF Changes
  <2>5. latest' = None => latest = m
    BY <2>2
  <2>6. latest' \in Managers => latest' = latest /\ latest # m
    BY <2>2
  <2>. QED
    BY <2>1, <2>2, <2>3, <2>4, <2>5, <2>6 DEF Changes
<1>6. ASSUME NEW m \in Managers, StopThread(m), UNCHANGED copyVars
      PROVE  GrantsFollowed'
  BY <1>6 DEF StopThread, Goes
<1>7. ASSUME NEW m \in Managers, JoinThread(m), UNCHANGED copyVars
      PROVE  GrantsFollowed'
  BY <1>7 DEF JoinThread, NoThread
<1>8. ASSUME NEW m \in Managers, EnsureObserver(m), UNCHANGED copyVars
      PROVE  GrantsFollowed'
  <2>1. Changes(m) /\ manager'[m].pc \in {"start", "idle", "forget"}
        /\ manager'[m].erases = manager[m].erases
    BY <1>8, EnsureDone
  <2>2. manager[m].pc = "ensure" /\ UNCHANGED <<granted, serviceVars, observer, clip, latest>>
    BY <1>8 DEF EnsureObserver
  <2>. QED
    BY <2>1, <2>2, FollowStep
<1>9. ASSUME NEW m \in Managers, StartThread(m), UNCHANGED copyVars
      PROVE  GrantsFollowed'
  <2>1. PICK o \in Observers : manager' = [manager EXCEPT ![m].pc = "install", ![m].thread = o]
    BY <1>9 DEF StartThread
  <2>2. Changes(m) /\ manager'[m].pc = "install" /\ manager'[m].erases = manager[m].erases
    BY <2>1, StartDone
  <2>3. manager[m].pc = "start" /\ UNCHANGED <<granted, authorized, latest>>
    BY <1>9 DEF StartThread
  <2>. QED
    BY <2>2, <2>3, FollowStep
<1>10. ASSUME NEW m \in Managers, InstallThread(m), UNCHANGED copyVars
      PROVE  GrantsFollowed'
  <2>1. Changes(m) /\ manager'[m].erases = manager[m].erases
        /\ \/ /\ handle' = handle
              /\ manager'[m].pc = "stop" /\ manager'[m].thread = manager[m].thread
           \/ /\ handle = None /\ handle' = manager[m].thread
              /\ manager'[m].pc \in {"idle", "forget"}
    BY <1>10, InstallDone
  <2>2. manager[m].pc = "install" /\ UNCHANGED <<granted, authorized, observer, clip, latest>>
    BY <1>10 DEF InstallThread
  <2>. QED
    BY <2>1, <2>2, FollowStep
<1>11. ASSUME NEW m \in Managers, ForgetPlugin(m), UNCHANGED copyVars
      PROVE  GrantsFollowed'
  <2>1. Changes(m) /\ manager'[m].erases = manager[m].erases
        /\ \/ /\ authorized \ {manager[m].erases} = {} /\ handle # None /\ handle' = None
              /\ manager'[m].pc = "stop" /\ manager'[m].thread = handle
           \/ /\ handle' = handle
              /\ manager'[m].pc = "erase" /\ manager'[m].thread = manager[m].thread
    BY <1>11, AuthorizesDone DEF ForgetPlugin
  <2>2. manager[m].pc = "forget" /\ authorized' = authorized \ {manager[m].erases}
        /\ UNCHANGED <<granted, observer, clip, latest>>
    BY <1>11 DEF ForgetPlugin, Authorizes
  <2>3. authorized = granted => authorized' = authorized
    BY <2>2
  <2>. QED
    BY <2>1, <2>2, <2>3, FollowStep
<1>12. ASSUME NEW m \in Managers, EraseHistory(m), UNCHANGED copyVars
      PROVE  GrantsFollowed'
  BY <1>12 DEF EraseHistory, IdleManager
<1>13. ASSUME NEW o \in Observers, BeginPolling(o), UNCHANGED copyVars
      PROVE  GrantsFollowed'
  BY <1>13 DEF BeginPolling
<1>14. ASSUME NEW o \in Observers, LoopTop(o), UNCHANGED copyVars
      PROVE  GrantsFollowed'
  BY <1>14 DEF LoopTop, ThreadGoes
<1>15. ASSUME NEW o \in Observers, Wake(o), UNCHANGED copyVars
      PROVE  GrantsFollowed'
  BY <1>15 DEF Wake
<1>16. ASSUME NEW o \in Observers, CaptureSuppressed(o), UNCHANGED copyVars
      PROVE  GrantsFollowed'
  BY <1>16 DEF CaptureSuppressed, ThreadGoes
<1>17. ASSUME NEW o \in Observers, CaptureRefused(o), UNCHANGED copyVars
      PROVE  GrantsFollowed'
  BY <1>17 DEF CaptureRefused, ThreadGoes
<1>18. ASSUME NEW o \in Observers, CaptureAdmitted(o), UNCHANGED copyVars
      PROVE  GrantsFollowed'
  BY <1>18 DEF CaptureAdmitted
<1>19. ASSUME NEW o \in Observers, ReadFails(o), UNCHANGED copyVars
      PROVE  GrantsFollowed'
  BY <1>19 DEF ReadFails, ReleasesGate
<1>20. ASSUME NEW o \in Observers, ReadContents(o), UNCHANGED copyVars
      PROVE  GrantsFollowed'
  BY <1>20 DEF ReadContents, ThreadGoes
<1>21. ASSUME NEW o \in Observers, StoreRecord(o), UNCHANGED copyVars
      PROVE  GrantsFollowed'
  BY <1>21 DEF StoreRecord, ReleasesGate, Recorders
<1>22. ASSUME AppCopy, UNCHANGED copyVars
      PROVE  GrantsFollowed'
  BY <1>22 DEF AppCopy, Written
<1>23. CASE SelectionBegins
  BY <1>23 DEF SelectionBegins, NoSelection
<1>24. CASE SelectionRefused
  BY <1>24 DEF SelectionRefused, SelectionEnds, NoSelection
<1>25. CASE InjectCopy
  BY <1>25 DEF InjectCopy
<1>26. CASE ReadCopy
  BY <1>26 DEF ReadCopy, Fresh
<1>27. CASE ReadGivesUp
  BY <1>27 DEF ReadGivesUp
<1>28. CASE RestoreContents
  BY <1>28 DEF RestoreContents, SelectionEnds, NoSelection, Written, Fresh, StillOwned
<1>29. CASE RestoreNothing
  BY <1>29 DEF RestoreNothing, SelectionEnds, NoSelection
<1>30. CASE TargetCopies
  BY <1>30 DEF TargetCopies, Written
<1>31. CASE UserCopies
  BY <1>31 DEF UserCopies, Written
<1>32. CASE UserTouches
  BY <1>32 DEF UserTouches
<1>33. CASE BeginPaste
  BY <1>33 DEF BeginPaste
<1>34. CASE WritePaste
  BY <1>34 DEF WritePaste, Written
<1>35. CASE CancelPaste
  BY <1>35 DEF CancelPaste
<1>36. CASE PanelCopies
  BY <1>36 DEF PanelCopies, Written
<1>37. CASE UNCHANGED clipboardVars
  BY <1>37
<1>. QED
  BY <1>1, <1>2, <1>3, <1>4, <1>5, <1>6, <1>7, <1>8, <1>9, <1>10, <1>11, <1>12, <1>13,
     <1>14, <1>15, <1>16, <1>17, <1>18, <1>19, <1>20, <1>21, <1>22, <1>23, <1>24,
     <1>25, <1>26, <1>27, <1>28, <1>29, <1>30, <1>31, <1>32, <1>33, <1>34, <1>35,
     <1>36, <1>37
     DEF CopyNext, SelectionStep, WriterStep, HistoryNext, ManagementStep, RefreshStep,
         ObserverStep

\* No thread is lost between its manager and the service.
LEMMA AccountedKept ==
  ASSUME CopyTypes, ThreadsHeld, ObserverAccounted, [CopyNext]_clipboardVars
  PROVE  ObserverAccounted'
<1> USE ClipboardAssumption
    DEF CopyTypes, ServiceTypes, ManagersTyped, ObserversTyped, ThreadsHeld,
        ManagerTypes, ObserverTypes, HistorySteps, NextSteps, ObserverAccounted,
        clipboardVars, hostVars, serviceVars, copyVars
<1>1. ASSUME NEW m \in Managers, NEW p \in Plugins, Grant(m, p), UNCHANGED copyVars
      PROVE  ObserverAccounted'
  <2>1. Changes(m)
    BY <1>1, PublishDone DEF Grant
  <2>2. granted' = granted \cup {p} /\ UNCHANGED latest
        /\ Idle(m) /\ (\A n \in Managers : manager[n].erases # p)
        /\ UNCHANGED <<serviceVars, observer, clip>>
    BY <1>1 DEF Grant, Publish
  <2> HIDE DEF ObserverAccounted
  <2>. QED
    BY <2>1, <2>2, AccountStep DEF Idle
<1>2. ASSUME NEW m \in Managers, NEW p \in Plugins, Revoke(m, p), UNCHANGED copyVars
      PROVE  ObserverAccounted'
  <2>1. Changes(m)
    BY <1>2, PublishDone DEF Revoke
  <2>2. granted' = granted \ {p} /\ UNCHANGED latest
        /\ Idle(m) /\ UNCHANGED <<serviceVars, observer, clip>>
    BY <1>2 DEF Revoke, Publish
  <2> HIDE DEF ObserverAccounted
  <2>. QED
    BY <2>1, <2>2, AccountStep DEF Idle
<1>3. ASSUME NEW m \in Managers, NEW p \in Plugins, NEW purge \in BOOLEAN,
          Uninstall(m, p, purge), UNCHANGED copyVars
      PROVE  ObserverAccounted'
  <2>1. Publish(m, granted \ {p}, p, purge)
    BY <1>3 DEF Uninstall
  <2>2. Changes(m)
    BY <2>1, PublishDone
  <2>3. manager[m].pc = "idle" /\ UNCHANGED <<handle, observer>>
    BY <2>1 DEF Publish, Idle
  <2> HIDE DEF ObserverAccounted
  <2>. QED
    BY <2>2, <2>3, AccountStep
<1>4. ASSUME NEW m \in Managers, SnapshotGrants(m), UNCHANGED copyVars
      PROVE  ObserverAccounted'
  <2>1. Changes(m) /\ manager'[m].pc = "sync" /\ manager'[m].list = granted
        /\ manager'[m].thread = manager[m].thread /\ manager'[m].erases = manager[m].erases
    BY <1>4, SnapshotDone
  <2>2. manager[m].pc = "snapshot" /\ UNCHANGED <<granted, serviceVars, observer, clip>>
    BY <1>4 DEF SnapshotGrants
  <2> HIDE DEF ObserverAccounted
  <2>. QED
    BY <2>1, <2>2, AccountStep DEF Idle
<1>5. ASSUME NEW m \in Managers, SyncAuthorized(m), UNCHANGED copyVars
      PROVE  ObserverAccounted'
  <2>1. Changes(m) /\ manager'[m].erases = manager[m].erases
        /\ \/ /\ manager[m].list = {} /\ handle # None /\ handle' = None
              /\ manager'[m].pc = "stop" /\ manager'[m].thread = handle
           \/ /\ handle' = handle
              /\ manager'[m].pc = "ensure" /\ manager'[m].thread = manager[m].thread
    BY <1>5, AuthorizesDone DEF SyncAuthorized
  <2>2. manager[m].pc = "sync" /\ authorized' = manager[m].list
        /\ UNCHANGED <<granted, observer, clip>>
    BY <1>5 DEF SyncAuthorized, Authorizes
  <2> HIDE DEF ObserverAccounted
  <2>. QED
    BY <2>1, <2>2, AccountStep DEF Idle
<1>6. ASSUME NEW m \in Managers, StopThread(m), UNCHANGED copyVars
      PROVE  ObserverAccounted'
  BY <1>6 DEF StopThread, Goes
<1>7. ASSUME NEW m \in Managers, JoinThread(m), UNCHANGED copyVars
      PROVE  ObserverAccounted'
  BY <1>7 DEF JoinThread, NoThread
<1>8. ASSUME NEW m \in Managers, EnsureObserver(m), UNCHANGED copyVars
      PROVE  ObserverAccounted'
  <2>1. Changes(m) /\ manager'[m].pc \in {"start", "idle", "forget"}
        /\ manager'[m].erases = manager[m].erases
    BY <1>8, EnsureDone
  <2>2. manager[m].pc = "ensure" /\ UNCHANGED <<granted, serviceVars, observer, clip, latest>>
    BY <1>8 DEF EnsureObserver
  <2> HIDE DEF ObserverAccounted
  <2>. QED
    BY <2>1, <2>2, AccountStep DEF Idle
<1>9. ASSUME NEW m \in Managers, StartThread(m), UNCHANGED copyVars
      PROVE  ObserverAccounted'
  BY <1>9 DEF StartThread
<1>10. ASSUME NEW m \in Managers, InstallThread(m), UNCHANGED copyVars
      PROVE  ObserverAccounted'
  <2>1. Changes(m) /\ manager'[m].erases = manager[m].erases
        /\ \/ /\ handle' = handle
              /\ manager'[m].pc = "stop" /\ manager'[m].thread = manager[m].thread
           \/ /\ handle = None /\ handle' = manager[m].thread
              /\ manager'[m].pc \in {"idle", "forget"}
    BY <1>10, InstallDone
  <2>2. manager[m].pc = "install" /\ UNCHANGED <<granted, authorized, observer, clip, latest>>
    BY <1>10 DEF InstallThread
  <2> HIDE DEF ObserverAccounted
  <2>. QED
    BY <2>1, <2>2, AccountStep DEF Idle
<1>11. ASSUME NEW m \in Managers, ForgetPlugin(m), UNCHANGED copyVars
      PROVE  ObserverAccounted'
  <2>1. Changes(m) /\ manager'[m].erases = manager[m].erases
        /\ \/ /\ authorized \ {manager[m].erases} = {} /\ handle # None /\ handle' = None
              /\ manager'[m].pc = "stop" /\ manager'[m].thread = handle
           \/ /\ handle' = handle
              /\ manager'[m].pc = "erase" /\ manager'[m].thread = manager[m].thread
    BY <1>11, AuthorizesDone DEF ForgetPlugin
  <2>2. manager[m].pc = "forget" /\ authorized' = authorized \ {manager[m].erases}
        /\ UNCHANGED <<granted, observer, clip, latest>>
    BY <1>11 DEF ForgetPlugin, Authorizes
  <2> HIDE DEF ObserverAccounted
  <2>. QED
    BY <2>1, <2>2, AccountStep DEF Idle
<1>12. ASSUME NEW m \in Managers, EraseHistory(m), UNCHANGED copyVars
      PROVE  ObserverAccounted'
  BY <1>12 DEF EraseHistory, IdleManager
<1>13. ASSUME NEW o \in Observers, BeginPolling(o), UNCHANGED copyVars
      PROVE  ObserverAccounted'
  BY <1>13 DEF BeginPolling
<1>14. ASSUME NEW o \in Observers, LoopTop(o), UNCHANGED copyVars
      PROVE  ObserverAccounted'
  BY <1>14 DEF LoopTop, ThreadGoes
<1>15. ASSUME NEW o \in Observers, Wake(o), UNCHANGED copyVars
      PROVE  ObserverAccounted'
  <2>1. PICK pc \in HistorySteps, n \in Nat :
            observer' = [observer EXCEPT ![o].last = n, ![o].pc = pc]
    BY <1>15 DEF Wake, HistorySteps, CopyTypes, ServiceTypes, Copies
  <2> HIDE DEF ObserversTyped, ObserverTypes, HistorySteps
  <2>2. /\ \A x \in Observers \ {o} : observer'[x] = observer[x]
        /\ observer'[o].stop = observer[o].stop
    BY <2>1, ThreadTyped
  <2>3. observer[o].pc # "unused" /\ manager' = manager /\ handle' = handle
    BY <1>15 DEF Wake
  <2>. QED
    BY <2>2, <2>3
<1>16. ASSUME NEW o \in Observers, CaptureSuppressed(o), UNCHANGED copyVars
      PROVE  ObserverAccounted'
  BY <1>16 DEF CaptureSuppressed, ThreadGoes
<1>17. ASSUME NEW o \in Observers, CaptureRefused(o), UNCHANGED copyVars
      PROVE  ObserverAccounted'
  BY <1>17 DEF CaptureRefused, ThreadGoes
<1>18. ASSUME NEW o \in Observers, CaptureAdmitted(o), UNCHANGED copyVars
      PROVE  ObserverAccounted'
  BY <1>18 DEF CaptureAdmitted
<1>19. ASSUME NEW o \in Observers, ReadFails(o), UNCHANGED copyVars
      PROVE  ObserverAccounted'
  <2>1. PICK pc \in HistorySteps, seen \in Copies \cup {None} :
            observer' = [observer EXCEPT ![o].pc = pc, ![o].seen = seen]
    BY <1>19 DEF ReadFails, ReleasesGate, HistorySteps, CopyTypes, ServiceTypes
  <2> HIDE DEF ObserversTyped, ObserverTypes, HistorySteps
  <2>2. /\ \A x \in Observers \ {o} : observer'[x] = observer[x]
        /\ observer'[o].stop = observer[o].stop
    BY <2>1, ThreadTyped
  <2>3. observer[o].pc # "unused" /\ manager' = manager /\ handle' = handle
    BY <1>19 DEF ReadFails
  <2>. QED
    BY <2>2, <2>3
<1>20. ASSUME NEW o \in Observers, ReadContents(o), UNCHANGED copyVars
      PROVE  ObserverAccounted'
  BY <1>20 DEF ReadContents, ThreadGoes
<1>21. ASSUME NEW o \in Observers, StoreRecord(o), UNCHANGED copyVars
      PROVE  ObserverAccounted'
  BY <1>21 DEF StoreRecord, ReleasesGate, Recorders
<1>22. ASSUME AppCopy, UNCHANGED copyVars
      PROVE  ObserverAccounted'
  BY <1>22 DEF AppCopy, Written
<1>23. CASE SelectionBegins
  BY <1>23 DEF SelectionBegins, NoSelection
<1>24. CASE SelectionRefused
  BY <1>24 DEF SelectionRefused, SelectionEnds, NoSelection
<1>25. CASE InjectCopy
  BY <1>25 DEF InjectCopy
<1>26. CASE ReadCopy
  BY <1>26 DEF ReadCopy, Fresh
<1>27. CASE ReadGivesUp
  BY <1>27 DEF ReadGivesUp
<1>28. CASE RestoreContents
  BY <1>28 DEF RestoreContents, SelectionEnds, NoSelection, Written, Fresh, StillOwned
<1>29. CASE RestoreNothing
  BY <1>29 DEF RestoreNothing, SelectionEnds, NoSelection
<1>30. CASE TargetCopies
  BY <1>30 DEF TargetCopies, Written
<1>31. CASE UserCopies
  BY <1>31 DEF UserCopies, Written
<1>32. CASE UserTouches
  BY <1>32 DEF UserTouches
<1>33. CASE BeginPaste
  BY <1>33 DEF BeginPaste
<1>34. CASE WritePaste
  BY <1>34 DEF WritePaste, Written
<1>35. CASE CancelPaste
  BY <1>35 DEF CancelPaste
<1>36. CASE PanelCopies
  BY <1>36 DEF PanelCopies, Written
<1>37. CASE UNCHANGED clipboardVars
  BY <1>37
<1>. QED
  BY <1>1, <1>2, <1>3, <1>4, <1>5, <1>6, <1>7, <1>8, <1>9, <1>10, <1>11, <1>12, <1>13,
     <1>14, <1>15, <1>16, <1>17, <1>18, <1>19, <1>20, <1>21, <1>22, <1>23, <1>24,
     <1>25, <1>26, <1>27, <1>28, <1>29, <1>30, <1>31, <1>32, <1>33, <1>34, <1>35,
     <1>36, <1>37
     DEF CopyNext, SelectionStep, WriterStep, HistoryNext, ManagementStep, RefreshStep,
         ObserverStep

\* The gate is held by whoever reads, and by a transaction.
LEMMA GateHeldKept ==
  ASSUME CopyTypes, ThreadsHeld, GateHeld, [CopyNext]_clipboardVars
  PROVE  GateHeld'
<1> USE ClipboardAssumption
    DEF CopyTypes, ServiceTypes, ManagersTyped, ObserversTyped, ThreadsHeld,
        ObserverTypes, GateHeld, clipboardVars, hostVars, serviceVars, copyVars
<1>1. ASSUME NEW m \in Managers, NEW p \in Plugins, Grant(m, p), UNCHANGED copyVars
      PROVE  GateHeld'
  BY <1>1 DEF Grant, Publish, Idle, IdleManager
<1>2. ASSUME NEW m \in Managers, NEW p \in Plugins, Revoke(m, p), UNCHANGED copyVars
      PROVE  GateHeld'
  BY <1>2 DEF Revoke, Publish, Idle, IdleManager
<1>3. ASSUME NEW m \in Managers, NEW p \in Plugins, NEW purge \in BOOLEAN,
          Uninstall(m, p, purge), UNCHANGED copyVars
      PROVE  GateHeld'
  BY <1>3 DEF Uninstall, Publish, Idle, IdleManager
<1>4. ASSUME NEW m \in Managers, SnapshotGrants(m), UNCHANGED copyVars
      PROVE  GateHeld'
  BY <1>4 DEF SnapshotGrants
<1>5. ASSUME NEW m \in Managers, SyncAuthorized(m), UNCHANGED copyVars
      PROVE  GateHeld'
  BY <1>5 DEF SyncAuthorized, Authorizes, Goes
<1>6. ASSUME NEW m \in Managers, StopThread(m), UNCHANGED copyVars
      PROVE  GateHeld'
  BY <1>6 DEF StopThread, Goes
<1>7. ASSUME NEW m \in Managers, JoinThread(m), UNCHANGED copyVars
      PROVE  GateHeld'
  BY <1>7 DEF JoinThread, NoThread
<1>8. ASSUME NEW m \in Managers, EnsureObserver(m), UNCHANGED copyVars
      PROVE  GateHeld'
  BY <1>8 DEF EnsureObserver, Goes, Refreshed, IdleManager
<1>9. ASSUME NEW m \in Managers, StartThread(m), UNCHANGED copyVars
      PROVE  GateHeld'
  BY <1>9 DEF StartThread
<1>10. ASSUME NEW m \in Managers, InstallThread(m), UNCHANGED copyVars
      PROVE  GateHeld'
  BY <1>10 DEF InstallThread, IdleManager
<1>11. ASSUME NEW m \in Managers, ForgetPlugin(m), UNCHANGED copyVars
      PROVE  GateHeld'
  BY <1>11 DEF ForgetPlugin, Authorizes, Goes
<1>12. ASSUME NEW m \in Managers, EraseHistory(m), UNCHANGED copyVars
      PROVE  GateHeld'
  BY <1>12 DEF EraseHistory, IdleManager
<1>13. ASSUME NEW o \in Observers, BeginPolling(o), UNCHANGED copyVars
      PROVE  GateHeld'
  BY <1>13 DEF BeginPolling
<1>14. ASSUME NEW o \in Observers, LoopTop(o), UNCHANGED copyVars
      PROVE  GateHeld'
  BY <1>14 DEF LoopTop, ThreadGoes
<1>15. ASSUME NEW o \in Observers, Wake(o), UNCHANGED copyVars
      PROVE  GateHeld'
  BY <1>15 DEF Wake
<1>16. ASSUME NEW o \in Observers, CaptureSuppressed(o), UNCHANGED copyVars
      PROVE  GateHeld'
  BY <1>16 DEF CaptureSuppressed, ThreadGoes
<1>17. ASSUME NEW o \in Observers, CaptureRefused(o), UNCHANGED copyVars
      PROVE  GateHeld'
  BY <1>17 DEF CaptureRefused, ThreadGoes
<1>18. ASSUME NEW o \in Observers, CaptureAdmitted(o), UNCHANGED copyVars
      PROVE  GateHeld'
  BY <1>18 DEF CaptureAdmitted
<1>19. ASSUME NEW o \in Observers, ReadFails(o), UNCHANGED copyVars
      PROVE  GateHeld'
  BY <1>19 DEF ReadFails, ReleasesGate
<1>20. ASSUME NEW o \in Observers, ReadContents(o), UNCHANGED copyVars
      PROVE  GateHeld'
  BY <1>20 DEF ReadContents, ThreadGoes
<1>21. ASSUME NEW o \in Observers, StoreRecord(o), UNCHANGED copyVars
      PROVE  GateHeld'
  BY <1>21 DEF StoreRecord, ReleasesGate, Recorders
<1>22. ASSUME AppCopy, UNCHANGED copyVars
      PROVE  GateHeld'
  BY <1>22 DEF AppCopy, Written
<1>23. CASE SelectionBegins
  BY <1>23 DEF SelectionBegins, NoSelection
<1>24. CASE SelectionRefused
  BY <1>24 DEF SelectionRefused, SelectionEnds, NoSelection
<1>25. CASE InjectCopy
  BY <1>25 DEF InjectCopy
<1>26. CASE ReadCopy
  BY <1>26 DEF ReadCopy, Fresh
<1>27. CASE ReadGivesUp
  BY <1>27 DEF ReadGivesUp
<1>28. CASE RestoreContents
  BY <1>28 DEF RestoreContents, SelectionEnds, NoSelection, Written, Fresh, StillOwned
<1>29. CASE RestoreNothing
  BY <1>29 DEF RestoreNothing, SelectionEnds, NoSelection
<1>30. CASE TargetCopies
  BY <1>30 DEF TargetCopies, Written
<1>31. CASE UserCopies
  BY <1>31 DEF UserCopies, Written
<1>32. CASE UserTouches
  BY <1>32 DEF UserTouches
<1>33. CASE BeginPaste
  BY <1>33 DEF BeginPaste
<1>34. CASE WritePaste
  BY <1>34 DEF WritePaste, Written
<1>35. CASE CancelPaste
  BY <1>35 DEF CancelPaste
<1>36. CASE PanelCopies
  BY <1>36 DEF PanelCopies, Written
<1>37. CASE UNCHANGED clipboardVars
  BY <1>37
<1>. QED
  BY <1>1, <1>2, <1>3, <1>4, <1>5, <1>6, <1>7, <1>8, <1>9, <1>10, <1>11, <1>12, <1>13,
     <1>14, <1>15, <1>16, <1>17, <1>18, <1>19, <1>20, <1>21, <1>22, <1>23, <1>24,
     <1>25, <1>26, <1>27, <1>28, <1>29, <1>30, <1>31, <1>32, <1>33, <1>34, <1>35,
     <1>36, <1>37
     DEF CopyNext, SelectionStep, WriterStep, HistoryNext, ManagementStep, RefreshStep,
         ObserverStep

LEMMA ServiceTypesKept ==
  ASSUME CopyTypes, ThreadsHeld, SeenAllowed, [CopyNext]_clipboardVars
  PROVE  ServiceTypes'
<1> USE ClipboardAssumption
    DEF CopyTypes, ServiceTypes, ManagersTyped, ObserversTyped, ThreadsHeld,
        ManagerTypes, ObserverTypes, Copies, HistorySteps, clipboardVars, hostVars,
        serviceVars, copyVars
<1>1. ASSUME NEW m \in Managers, NEW p \in Plugins, Grant(m, p), UNCHANGED copyVars
      PROVE  ServiceTypes'
  BY <1>1 DEF Grant, Publish, Idle, IdleManager
<1>2. ASSUME NEW m \in Managers, NEW p \in Plugins, Revoke(m, p), UNCHANGED copyVars
      PROVE  ServiceTypes'
  BY <1>2 DEF Revoke, Publish, Idle, IdleManager
<1>3. ASSUME NEW m \in Managers, NEW p \in Plugins, NEW purge \in BOOLEAN,
          Uninstall(m, p, purge), UNCHANGED copyVars
      PROVE  ServiceTypes'
  BY <1>3 DEF Uninstall, Publish, Idle, IdleManager
<1>4. ASSUME NEW m \in Managers, SnapshotGrants(m), UNCHANGED copyVars
      PROVE  ServiceTypes'
  BY <1>4 DEF SnapshotGrants
<1>5. ASSUME NEW m \in Managers, SyncAuthorized(m), UNCHANGED copyVars
      PROVE  ServiceTypes'
  BY <1>5 DEF SyncAuthorized, Authorizes, Goes
<1>6. ASSUME NEW m \in Managers, StopThread(m), UNCHANGED copyVars
      PROVE  ServiceTypes'
  BY <1>6 DEF StopThread, Goes
<1>7. ASSUME NEW m \in Managers, JoinThread(m), UNCHANGED copyVars
      PROVE  ServiceTypes'
  BY <1>7 DEF JoinThread, NoThread
<1>8. ASSUME NEW m \in Managers, EnsureObserver(m), UNCHANGED copyVars
      PROVE  ServiceTypes'
  BY <1>8 DEF EnsureObserver, Goes, Refreshed, IdleManager
<1>9. ASSUME NEW m \in Managers, StartThread(m), UNCHANGED copyVars
      PROVE  ServiceTypes'
  BY <1>9 DEF StartThread
<1>10. ASSUME NEW m \in Managers, InstallThread(m), UNCHANGED copyVars
      PROVE  ServiceTypes'
  BY <1>10 DEF InstallThread, IdleManager
<1>11. ASSUME NEW m \in Managers, ForgetPlugin(m), UNCHANGED copyVars
      PROVE  ServiceTypes'
  BY <1>11 DEF ForgetPlugin, Authorizes, Goes
<1>12. ASSUME NEW m \in Managers, EraseHistory(m), UNCHANGED copyVars
      PROVE  ServiceTypes'
  BY <1>12 DEF EraseHistory, IdleManager
<1>13. ASSUME NEW o \in Observers, BeginPolling(o), UNCHANGED copyVars
      PROVE  ServiceTypes'
  BY <1>13 DEF BeginPolling
<1>14. ASSUME NEW o \in Observers, LoopTop(o), UNCHANGED copyVars
      PROVE  ServiceTypes'
  BY <1>14 DEF LoopTop, ThreadGoes
<1>15. ASSUME NEW o \in Observers, Wake(o), UNCHANGED copyVars
      PROVE  ServiceTypes'
  BY <1>15 DEF Wake
<1>16. ASSUME NEW o \in Observers, CaptureSuppressed(o), UNCHANGED copyVars
      PROVE  ServiceTypes'
  BY <1>16 DEF CaptureSuppressed, ThreadGoes
<1>17. ASSUME NEW o \in Observers, CaptureRefused(o), UNCHANGED copyVars
      PROVE  ServiceTypes'
  BY <1>17 DEF CaptureRefused, ThreadGoes
<1>18. ASSUME NEW o \in Observers, CaptureAdmitted(o), UNCHANGED copyVars
      PROVE  ServiceTypes'
  BY <1>18 DEF CaptureAdmitted
<1>19. ASSUME NEW o \in Observers, ReadFails(o), UNCHANGED copyVars
      PROVE  ServiceTypes'
  BY <1>19 DEF ReadFails, ReleasesGate
<1>20. ASSUME NEW o \in Observers, ReadContents(o), UNCHANGED copyVars
      PROVE  ServiceTypes'
  BY <1>20 DEF ReadContents, ThreadGoes
<1>21. ASSUME NEW o \in Observers, StoreRecord(o), UNCHANGED copyVars
      PROVE  ServiceTypes'
  <2>1. history' \in [Plugins -> SUBSET Copies]
    <3>1. observer[o].seen \in Copies
      BY <1>21 DEF StoreRecord, SeenAllowed
    <3>. QED
      BY <1>21, <3>1 DEF StoreRecord
  <2>. QED
    BY <1>21, <2>1 DEF StoreRecord, ReleasesGate
<1>22. ASSUME AppCopy, UNCHANGED copyVars
      PROVE  ServiceTypes'
  BY <1>22 DEF AppCopy, Written
<1>23. CASE SelectionBegins
  BY <1>23 DEF SelectionBegins, NoSelection
<1>24. CASE SelectionRefused
  BY <1>24 DEF SelectionRefused, SelectionEnds, NoSelection
<1>25. CASE InjectCopy
  BY <1>25 DEF InjectCopy
<1>26. CASE ReadCopy
  <2>1. /\ Exclude(excluded, clip.seq) \in Seq(Nat)
        /\ Len(Exclude(excluded, clip.seq)) <= MaxExcluded
    BY ExcludeKnown
  <2>2. PICK rendered \in {clip.seq, clip.seq + 1} :
            /\ clip' = [clip EXCEPT !.seq = rendered]
            /\ excluded' = Exclude(Exclude(excluded, clip.seq), rendered)
            /\ selection' = [selection EXCEPT !.pc = "restore", !.observed = rendered]
            /\ delivered' \in {delivered, delivered \cup {clip.seq, rendered}}
    BY <1>26 DEF ReadCopy
  <2>3. rendered \in Nat
    BY <2>2
  <2> DEFINE once == Exclude(excluded, clip.seq)
  <2> HIDE DEF once
  <2>4. excluded' = Exclude(once, rendered) /\ once \in Seq(Nat) /\ Len(once) <= MaxExcluded
    BY <2>1, <2>2 DEF once
  <2>5. excluded' \in Seq(Nat) /\ Len(excluded') <= MaxExcluded
    BY <2>3, <2>4, ExcludeKnown
  <2>6. selection' \in [pc : {"idle", "copy", "read", "restore"}, baseline : Nat,
                       observed : Nat, touched : BOOLEAN]
    <3> DEFINE step == [selection EXCEPT !.pc = "restore"]
    <3>1. step \in [pc : {"idle", "copy", "read", "restore"}, baseline : Nat,
                   observed : Nat, touched : BOOLEAN]
      OBVIOUS
    <3>2. selection' = [step EXCEPT !.observed = rendered]
      BY <2>2
    <3> HIDE DEF step
    <3>. QED
      BY <2>3, <3>1, <3>2
  <2>7. clip' \in Copies /\ delivered' \in SUBSET Nat
    BY <2>2, <2>3
  <2>. QED
    BY <1>26, <2>5, <2>6, <2>7 DEF ReadCopy
<1>27. CASE ReadGivesUp
  BY <1>27 DEF ReadGivesUp
<1>28. CASE RestoreContents
  <2>1. /\ Exclude(excluded, clip.seq) \in Seq(Nat)
        /\ Len(Exclude(excluded, clip.seq)) <= MaxExcluded
    BY ExcludeKnown
  <2>2. excluded' = Exclude(IF selection.observed = 0 THEN Exclude(excluded, clip.seq)
                                                ELSE excluded, clip.seq + 1)
    BY <1>28 DEF RestoreContents
  <2>3. excluded' \in Seq(Nat) /\ Len(excluded') <= MaxExcluded
    BY <2>1, <2>2, ExcludeKnown
  <2>. QED
    BY <1>28, <2>3 DEF RestoreContents, SelectionEnds, NoSelection, Written
<1>29. CASE RestoreNothing
  BY <1>29 DEF RestoreNothing, SelectionEnds, NoSelection
<1>30. CASE TargetCopies
  BY <1>30 DEF TargetCopies, Written
<1>31. CASE UserCopies
  <2>1. selection' = selection \/ selection' = [selection EXCEPT !.touched = TRUE]
    BY <1>31 DEF UserCopies
  <2>2. selection' \in [pc : {"idle", "copy", "read", "restore"}, baseline : Nat,
                       observed : Nat, touched : BOOLEAN]
    BY <2>1
  <2>. QED
    BY <1>31, <2>2 DEF UserCopies, Written
<1>32. CASE UserTouches
  BY <1>32 DEF UserTouches
<1>33. CASE BeginPaste
  BY <1>33 DEF BeginPaste
<1>34. CASE WritePaste
  BY <1>34 DEF WritePaste, Written
<1>35. CASE CancelPaste
  BY <1>35 DEF CancelPaste
<1>36. CASE PanelCopies
  BY <1>36 DEF PanelCopies, Written
<1>37. CASE UNCHANGED clipboardVars
  BY <1>37
<1> HIDE DEF ServiceTypes
<1>. QED
  BY <1>1, <1>2, <1>3, <1>4, <1>5, <1>6, <1>7, <1>8, <1>9, <1>10, <1>11, <1>12, <1>13,
     <1>14, <1>15, <1>16, <1>17, <1>18, <1>19, <1>20, <1>21, <1>22, <1>23, <1>24,
     <1>25, <1>26, <1>27, <1>28, <1>29, <1>30, <1>31, <1>32, <1>33, <1>34, <1>35,
     <1>36, <1>37
     DEF CopyNext, SelectionStep, WriterStep, HistoryNext, ManagementStep, RefreshStep,
         ObserverStep

\* What a capture returned or put back is excluded while it is current.
LEMMA CurrentKept ==
  ASSUME CopyTypes, ThreadsHeld, GateHeld, CurrentExcluded, [CopyNext]_clipboardVars
  PROVE  CurrentExcluded'
<1> USE ClipboardAssumption
    DEF CopyTypes, ServiceTypes, ManagersTyped, ObserversTyped, ThreadsHeld,
        ObserverTypes, Copies, GateHeld, CurrentExcluded, IsExcluded, clipboardVars,
        hostVars, serviceVars, copyVars
<1>1. ASSUME NEW m \in Managers, NEW p \in Plugins, Grant(m, p), UNCHANGED copyVars
      PROVE  CurrentExcluded'
  BY <1>1 DEF Grant, Publish, Idle, IdleManager
<1>2. ASSUME NEW m \in Managers, NEW p \in Plugins, Revoke(m, p), UNCHANGED copyVars
      PROVE  CurrentExcluded'
  BY <1>2 DEF Revoke, Publish, Idle, IdleManager
<1>3. ASSUME NEW m \in Managers, NEW p \in Plugins, NEW purge \in BOOLEAN,
          Uninstall(m, p, purge), UNCHANGED copyVars
      PROVE  CurrentExcluded'
  BY <1>3 DEF Uninstall, Publish, Idle, IdleManager
<1>4. ASSUME NEW m \in Managers, SnapshotGrants(m), UNCHANGED copyVars
      PROVE  CurrentExcluded'
  BY <1>4 DEF SnapshotGrants
<1>5. ASSUME NEW m \in Managers, SyncAuthorized(m), UNCHANGED copyVars
      PROVE  CurrentExcluded'
  BY <1>5 DEF SyncAuthorized, Authorizes, Goes
<1>6. ASSUME NEW m \in Managers, StopThread(m), UNCHANGED copyVars
      PROVE  CurrentExcluded'
  BY <1>6 DEF StopThread, Goes
<1>7. ASSUME NEW m \in Managers, JoinThread(m), UNCHANGED copyVars
      PROVE  CurrentExcluded'
  BY <1>7 DEF JoinThread, NoThread
<1>8. ASSUME NEW m \in Managers, EnsureObserver(m), UNCHANGED copyVars
      PROVE  CurrentExcluded'
  BY <1>8 DEF EnsureObserver, Goes, Refreshed, IdleManager
<1>9. ASSUME NEW m \in Managers, StartThread(m), UNCHANGED copyVars
      PROVE  CurrentExcluded'
  BY <1>9 DEF StartThread
<1>10. ASSUME NEW m \in Managers, InstallThread(m), UNCHANGED copyVars
      PROVE  CurrentExcluded'
  BY <1>10 DEF InstallThread, IdleManager
<1>11. ASSUME NEW m \in Managers, ForgetPlugin(m), UNCHANGED copyVars
      PROVE  CurrentExcluded'
  BY <1>11 DEF ForgetPlugin, Authorizes, Goes
<1>12. ASSUME NEW m \in Managers, EraseHistory(m), UNCHANGED copyVars
      PROVE  CurrentExcluded'
  BY <1>12 DEF EraseHistory, IdleManager
<1>13. ASSUME NEW o \in Observers, BeginPolling(o), UNCHANGED copyVars
      PROVE  CurrentExcluded'
  BY <1>13 DEF BeginPolling
<1>14. ASSUME NEW o \in Observers, LoopTop(o), UNCHANGED copyVars
      PROVE  CurrentExcluded'
  BY <1>14 DEF LoopTop, ThreadGoes
<1>15. ASSUME NEW o \in Observers, Wake(o), UNCHANGED copyVars
      PROVE  CurrentExcluded'
  BY <1>15 DEF Wake
<1>16. ASSUME NEW o \in Observers, CaptureSuppressed(o), UNCHANGED copyVars
      PROVE  CurrentExcluded'
  BY <1>16 DEF CaptureSuppressed, ThreadGoes
<1>17. ASSUME NEW o \in Observers, CaptureRefused(o), UNCHANGED copyVars
      PROVE  CurrentExcluded'
  BY <1>17 DEF CaptureRefused, ThreadGoes
<1>18. ASSUME NEW o \in Observers, CaptureAdmitted(o), UNCHANGED copyVars
      PROVE  CurrentExcluded'
  BY <1>18 DEF CaptureAdmitted
<1>19. ASSUME NEW o \in Observers, ReadFails(o), UNCHANGED copyVars
      PROVE  CurrentExcluded'
  BY <1>19 DEF ReadFails, ReleasesGate
<1>20. ASSUME NEW o \in Observers, ReadContents(o), UNCHANGED copyVars
      PROVE  CurrentExcluded'
  BY <1>20 DEF ReadContents, ThreadGoes
<1>21. ASSUME NEW o \in Observers, StoreRecord(o), UNCHANGED copyVars
      PROVE  CurrentExcluded'
  BY <1>21 DEF StoreRecord, ReleasesGate, Recorders
<1>22. ASSUME AppCopy, UNCHANGED copyVars
      PROVE  CurrentExcluded'
  <2>1. /\ clip'.seq = clip.seq + 1 /\ clip'.by = "other"
        /\ UNCHANGED <<delivered, excluded>>
    BY <1>22 DEF AppCopy, Written
  <2>2. clip.seq \in Nat /\ delivered \subseteq Nat
    OBVIOUS
  <2>. QED
    BY <2>1, <2>2
<1>23. CASE SelectionBegins
  BY <1>23 DEF SelectionBegins, NoSelection
<1>24. CASE SelectionRefused
  BY <1>24 DEF SelectionRefused, SelectionEnds, NoSelection
<1>25. CASE InjectCopy
  BY <1>25 DEF InjectCopy
<1>26. CASE ReadCopy
  <2>1. /\ Exclude(excluded, clip.seq) \in Seq(Nat)
        /\ Len(Exclude(excluded, clip.seq)) <= MaxExcluded
    BY ExcludeKnown
  <2>2. PICK rendered \in {clip.seq, clip.seq + 1} :
            /\ clip' = [clip EXCEPT !.seq = rendered]
            /\ excluded' = Exclude(Exclude(excluded, clip.seq), rendered)
            /\ delivered' \in {delivered, delivered \cup {clip.seq, rendered}}
    BY <1>26 DEF ReadCopy
  <2>3. clip'.seq = rendered /\ rendered \in Nat /\ clip.seq <= rendered
    BY <2>2
  <2> DEFINE once == Exclude(excluded, clip.seq)
  <2> HIDE DEF once
  <2>4. excluded' = Exclude(once, rendered) /\ once \in Seq(Nat) /\ Len(once) <= MaxExcluded
    BY <2>1, <2>2 DEF once
  <2>5. \E i \in DOMAIN excluded' : excluded'[i] = clip'.seq
    BY <2>3, <2>4, ExcludeKnown
  <2>6. \A n \in delivered' : n <= clip'.seq
    <3>1. \A n \in delivered : n \in Nat /\ n <= clip.seq
      OBVIOUS
    <3>2. clip.seq \in Nat
      OBVIOUS
    <3>3. \A n \in delivered' : n \in delivered \/ n = clip.seq \/ n = rendered
      BY <2>2
    <3>4. ASSUME NEW n \in delivered'
          PROVE  n <= rendered
      <4>1. CASE n \in delivered
        BY <2>3, <3>1, <3>2, <4>1
      <4>2. CASE n = clip.seq \/ n = rendered
        BY <2>3, <3>2, <4>2
      <4>. QED
        BY <3>3, <4>1, <4>2
    <3>. QED
      BY <2>3, <3>4
  <2>. QED
    BY <2>5, <2>6
<1>27. CASE ReadGivesUp
  BY <1>27 DEF ReadGivesUp
<1>28. CASE RestoreContents
  <2>1. /\ Exclude(excluded, clip.seq) \in Seq(Nat)
        /\ Len(Exclude(excluded, clip.seq)) <= MaxExcluded
    BY ExcludeKnown
  <2>2. excluded' = Exclude(IF selection.observed = 0 THEN Exclude(excluded, clip.seq)
                                                ELSE excluded, clip.seq + 1)
    BY <1>28 DEF RestoreContents
  <2>3. clip'.seq = clip.seq + 1 /\ delivered' = delivered
    BY <1>28 DEF RestoreContents, Written
  <2>4. \E i \in DOMAIN excluded' : excluded'[i] = clip'.seq
    BY <2>1, <2>2, <2>3, ExcludeKnown
  <2>. QED
    BY <2>3, <2>4
<1>29. CASE RestoreNothing
  BY <1>29 DEF RestoreNothing, SelectionEnds, NoSelection
<1>30. CASE TargetCopies
  BY <1>30 DEF TargetCopies, Written
<1>31. CASE UserCopies
  BY <1>31 DEF UserCopies, Written
<1>32. CASE UserTouches
  BY <1>32 DEF UserTouches
<1>33. CASE BeginPaste
  BY <1>33 DEF BeginPaste
<1>34. CASE WritePaste
  BY <1>34 DEF WritePaste, Written
<1>35. CASE CancelPaste
  BY <1>35 DEF CancelPaste
<1>36. CASE PanelCopies
  BY <1>36 DEF PanelCopies, Written
<1>37. CASE UNCHANGED clipboardVars
  BY <1>37
<1>. QED
  BY <1>1, <1>2, <1>3, <1>4, <1>5, <1>6, <1>7, <1>8, <1>9, <1>10, <1>11, <1>12, <1>13,
     <1>14, <1>15, <1>16, <1>17, <1>18, <1>19, <1>20, <1>21, <1>22, <1>23, <1>24,
     <1>25, <1>26, <1>27, <1>28, <1>29, <1>30, <1>31, <1>32, <1>33, <1>34, <1>35,
     <1>36, <1>37
     DEF CopyNext, SelectionStep, WriterStep, HistoryNext, ManagementStep, RefreshStep,
         ObserverStep

\* An observer reads only what it may record.
LEMMA SeenKept ==
  ASSUME CopyTypes, ThreadsHeld, GateHeld, CurrentExcluded, SeenAllowed, [CopyNext]_clipboardVars
  PROVE  SeenAllowed'
<1> USE ClipboardAssumption
    DEF CopyTypes, ServiceTypes, ManagersTyped, ObserversTyped, ThreadsHeld,
        ObserverTypes, Copies, GateHeld, CurrentExcluded, IsExcluded, SeenAllowed,
        clipboardVars, hostVars, serviceVars, copyVars
<1>1. ASSUME NEW m \in Managers, NEW p \in Plugins, Grant(m, p), UNCHANGED copyVars
      PROVE  SeenAllowed'
  BY <1>1 DEF Grant, Publish, Idle, IdleManager
<1>2. ASSUME NEW m \in Managers, NEW p \in Plugins, Revoke(m, p), UNCHANGED copyVars
      PROVE  SeenAllowed'
  BY <1>2 DEF Revoke, Publish, Idle, IdleManager
<1>3. ASSUME NEW m \in Managers, NEW p \in Plugins, NEW purge \in BOOLEAN,
          Uninstall(m, p, purge), UNCHANGED copyVars
      PROVE  SeenAllowed'
  BY <1>3 DEF Uninstall, Publish, Idle, IdleManager
<1>4. ASSUME NEW m \in Managers, SnapshotGrants(m), UNCHANGED copyVars
      PROVE  SeenAllowed'
  BY <1>4 DEF SnapshotGrants
<1>5. ASSUME NEW m \in Managers, SyncAuthorized(m), UNCHANGED copyVars
      PROVE  SeenAllowed'
  BY <1>5 DEF SyncAuthorized, Authorizes, Goes
<1>6. ASSUME NEW m \in Managers, StopThread(m), UNCHANGED copyVars
      PROVE  SeenAllowed'
  BY <1>6 DEF StopThread, Goes
<1>7. ASSUME NEW m \in Managers, JoinThread(m), UNCHANGED copyVars
      PROVE  SeenAllowed'
  BY <1>7 DEF JoinThread, NoThread
<1>8. ASSUME NEW m \in Managers, EnsureObserver(m), UNCHANGED copyVars
      PROVE  SeenAllowed'
  BY <1>8 DEF EnsureObserver, Goes, Refreshed, IdleManager
<1>9. ASSUME NEW m \in Managers, StartThread(m), UNCHANGED copyVars
      PROVE  SeenAllowed'
  BY <1>9 DEF StartThread
<1>10. ASSUME NEW m \in Managers, InstallThread(m), UNCHANGED copyVars
      PROVE  SeenAllowed'
  BY <1>10 DEF InstallThread, IdleManager
<1>11. ASSUME NEW m \in Managers, ForgetPlugin(m), UNCHANGED copyVars
      PROVE  SeenAllowed'
  BY <1>11 DEF ForgetPlugin, Authorizes, Goes
<1>12. ASSUME NEW m \in Managers, EraseHistory(m), UNCHANGED copyVars
      PROVE  SeenAllowed'
  BY <1>12 DEF EraseHistory, IdleManager
<1>13. ASSUME NEW o \in Observers, BeginPolling(o), UNCHANGED copyVars
      PROVE  SeenAllowed'
  BY <1>13 DEF BeginPolling
<1>14. ASSUME NEW o \in Observers, LoopTop(o), UNCHANGED copyVars
      PROVE  SeenAllowed'
  BY <1>14 DEF LoopTop, ThreadGoes
<1>15. ASSUME NEW o \in Observers, Wake(o), UNCHANGED copyVars
      PROVE  SeenAllowed'
  BY <1>15 DEF Wake
<1>16. ASSUME NEW o \in Observers, CaptureSuppressed(o), UNCHANGED copyVars
      PROVE  SeenAllowed'
  BY <1>16 DEF CaptureSuppressed, ThreadGoes
<1>17. ASSUME NEW o \in Observers, CaptureRefused(o), UNCHANGED copyVars
      PROVE  SeenAllowed'
  BY <1>17 DEF CaptureRefused, ThreadGoes
<1>18. ASSUME NEW o \in Observers, CaptureAdmitted(o), UNCHANGED copyVars
      PROVE  SeenAllowed'
  BY <1>18 DEF CaptureAdmitted
<1>19. ASSUME NEW o \in Observers, ReadFails(o), UNCHANGED copyVars
      PROVE  SeenAllowed'
  BY <1>19 DEF ReadFails, ReleasesGate
<1>20. ASSUME NEW o \in Observers, ReadContents(o), UNCHANGED copyVars
      PROVE  SeenAllowed'
  BY <1>20 DEF ReadContents, ThreadGoes
<1>21. ASSUME NEW o \in Observers, StoreRecord(o), UNCHANGED copyVars
      PROVE  SeenAllowed'
  BY <1>21 DEF StoreRecord, ReleasesGate, Recorders
<1>22. ASSUME AppCopy, UNCHANGED copyVars
      PROVE  SeenAllowed'
  BY <1>22 DEF AppCopy, Written
<1>23. CASE SelectionBegins
  BY <1>23 DEF SelectionBegins, NoSelection
<1>24. CASE SelectionRefused
  BY <1>24 DEF SelectionRefused, SelectionEnds, NoSelection
<1>25. CASE InjectCopy
  BY <1>25 DEF InjectCopy
<1>26. CASE ReadCopy
  BY <1>26 DEF ReadCopy, Fresh
<1>27. CASE ReadGivesUp
  BY <1>27 DEF ReadGivesUp
<1>28. CASE RestoreContents
  BY <1>28 DEF RestoreContents, SelectionEnds, NoSelection, Written, Fresh, StillOwned
<1>29. CASE RestoreNothing
  BY <1>29 DEF RestoreNothing, SelectionEnds, NoSelection
<1>30. CASE TargetCopies
  BY <1>30 DEF TargetCopies, Written
<1>31. CASE UserCopies
  BY <1>31 DEF UserCopies, Written
<1>32. CASE UserTouches
  BY <1>32 DEF UserTouches
<1>33. CASE BeginPaste
  BY <1>33 DEF BeginPaste
<1>34. CASE WritePaste
  BY <1>34 DEF WritePaste, Written
<1>35. CASE CancelPaste
  BY <1>35 DEF CancelPaste
<1>36. CASE PanelCopies
  BY <1>36 DEF PanelCopies, Written
<1>37. CASE UNCHANGED clipboardVars
  BY <1>37
<1>. QED
  BY <1>1, <1>2, <1>3, <1>4, <1>5, <1>6, <1>7, <1>8, <1>9, <1>10, <1>11, <1>12, <1>13,
     <1>14, <1>15, <1>16, <1>17, <1>18, <1>19, <1>20, <1>21, <1>22, <1>23, <1>24,
     <1>25, <1>26, <1>27, <1>28, <1>29, <1>30, <1>31, <1>32, <1>33, <1>34, <1>35,
     <1>36, <1>37
     DEF CopyNext, SelectionStep, WriterStep, HistoryNext, ManagementStep, RefreshStep,
         ObserverStep

\* A history holds nothing a capture returned or put back.
LEMMA RecordedKept ==
  ASSUME CopyTypes, ThreadsHeld, GateHeld, CurrentExcluded, SeenAllowed, Baselines,
         Recorded, [CopyNext]_clipboardVars
  PROVE  Recorded'
<1> USE ClipboardAssumption
    DEF CopyTypes, ServiceTypes, ManagersTyped, ObserversTyped, ThreadsHeld,
        ObserverTypes, Copies, GateHeld, CurrentExcluded, SeenAllowed, Baselines,
        Recorded, clipboardVars, hostVars, serviceVars, copyVars
<1>1. ASSUME NEW m \in Managers, NEW p \in Plugins, Grant(m, p), UNCHANGED copyVars
      PROVE  Recorded'
  BY <1>1 DEF Grant, Publish, Idle, IdleManager
<1>2. ASSUME NEW m \in Managers, NEW p \in Plugins, Revoke(m, p), UNCHANGED copyVars
      PROVE  Recorded'
  BY <1>2 DEF Revoke, Publish, Idle, IdleManager
<1>3. ASSUME NEW m \in Managers, NEW p \in Plugins, NEW purge \in BOOLEAN,
          Uninstall(m, p, purge), UNCHANGED copyVars
      PROVE  Recorded'
  BY <1>3 DEF Uninstall, Publish, Idle, IdleManager
<1>4. ASSUME NEW m \in Managers, SnapshotGrants(m), UNCHANGED copyVars
      PROVE  Recorded'
  BY <1>4 DEF SnapshotGrants
<1>5. ASSUME NEW m \in Managers, SyncAuthorized(m), UNCHANGED copyVars
      PROVE  Recorded'
  BY <1>5 DEF SyncAuthorized, Authorizes, Goes
<1>6. ASSUME NEW m \in Managers, StopThread(m), UNCHANGED copyVars
      PROVE  Recorded'
  BY <1>6 DEF StopThread, Goes
<1>7. ASSUME NEW m \in Managers, JoinThread(m), UNCHANGED copyVars
      PROVE  Recorded'
  BY <1>7 DEF JoinThread, NoThread
<1>8. ASSUME NEW m \in Managers, EnsureObserver(m), UNCHANGED copyVars
      PROVE  Recorded'
  BY <1>8 DEF EnsureObserver, Goes, Refreshed, IdleManager
<1>9. ASSUME NEW m \in Managers, StartThread(m), UNCHANGED copyVars
      PROVE  Recorded'
  BY <1>9 DEF StartThread
<1>10. ASSUME NEW m \in Managers, InstallThread(m), UNCHANGED copyVars
      PROVE  Recorded'
  BY <1>10 DEF InstallThread, IdleManager
<1>11. ASSUME NEW m \in Managers, ForgetPlugin(m), UNCHANGED copyVars
      PROVE  Recorded'
  BY <1>11 DEF ForgetPlugin, Authorizes, Goes
<1>12. ASSUME NEW m \in Managers, EraseHistory(m), UNCHANGED copyVars
      PROVE  Recorded'
  BY <1>12 DEF EraseHistory, IdleManager
<1>13. ASSUME NEW o \in Observers, BeginPolling(o), UNCHANGED copyVars
      PROVE  Recorded'
  BY <1>13 DEF BeginPolling
<1>14. ASSUME NEW o \in Observers, LoopTop(o), UNCHANGED copyVars
      PROVE  Recorded'
  BY <1>14 DEF LoopTop, ThreadGoes
<1>15. ASSUME NEW o \in Observers, Wake(o), UNCHANGED copyVars
      PROVE  Recorded'
  BY <1>15 DEF Wake
<1>16. ASSUME NEW o \in Observers, CaptureSuppressed(o), UNCHANGED copyVars
      PROVE  Recorded'
  BY <1>16 DEF CaptureSuppressed, ThreadGoes
<1>17. ASSUME NEW o \in Observers, CaptureRefused(o), UNCHANGED copyVars
      PROVE  Recorded'
  BY <1>17 DEF CaptureRefused, ThreadGoes
<1>18. ASSUME NEW o \in Observers, CaptureAdmitted(o), UNCHANGED copyVars
      PROVE  Recorded'
  BY <1>18 DEF CaptureAdmitted
<1>19. ASSUME NEW o \in Observers, ReadFails(o), UNCHANGED copyVars
      PROVE  Recorded'
  BY <1>19 DEF ReadFails, ReleasesGate
<1>20. ASSUME NEW o \in Observers, ReadContents(o), UNCHANGED copyVars
      PROVE  Recorded'
  BY <1>20 DEF ReadContents, ThreadGoes
<1>21. ASSUME NEW o \in Observers, StoreRecord(o), UNCHANGED copyVars
      PROVE  Recorded'
  BY <1>21 DEF StoreRecord, ReleasesGate, Recorders
<1>22. ASSUME AppCopy, UNCHANGED copyVars
      PROVE  Recorded'
  BY <1>22 DEF AppCopy, Written
<1>23. CASE SelectionBegins
  BY <1>23 DEF SelectionBegins, NoSelection
<1>24. CASE SelectionRefused
  BY <1>24 DEF SelectionRefused, SelectionEnds, NoSelection
<1>25. CASE InjectCopy
  BY <1>25 DEF InjectCopy
<1>26. CASE ReadCopy
  <2>1. /\ selection.pc = "read" /\ clip.seq # selection.baseline
        /\ UNCHANGED <<history, gate>> /\ selection'.baseline = selection.baseline
    BY <1>26 DEF ReadCopy, Fresh
  <2>2. PICK rendered \in {clip.seq, clip.seq + 1} :
            /\ clip'.seq = rendered
            /\ delivered' \subseteq delivered \cup {clip.seq, rendered}
    BY <1>26 DEF ReadCopy
  <2>3. \A p \in Plugins : \A c \in history[p] :
            c.seq \in Nat /\ c.seq <= selection.baseline /\ c.seq \notin delivered /\ c.by # "restored"
    BY <2>1
  <2>4. selection.baseline \in Nat /\ clip.seq \in Nat /\ selection.baseline < clip.seq
    BY <2>1
  <2>. QED
    BY <2>1, <2>2, <2>3, <2>4
<1>27. CASE ReadGivesUp
  BY <1>27 DEF ReadGivesUp
<1>28. CASE RestoreContents
  BY <1>28 DEF RestoreContents, SelectionEnds, NoSelection, Written, Fresh, StillOwned
<1>29. CASE RestoreNothing
  BY <1>29 DEF RestoreNothing, SelectionEnds, NoSelection
<1>30. CASE TargetCopies
  BY <1>30 DEF TargetCopies, Written
<1>31. CASE UserCopies
  BY <1>31 DEF UserCopies, Written
<1>32. CASE UserTouches
  BY <1>32 DEF UserTouches
<1>33. CASE BeginPaste
  BY <1>33 DEF BeginPaste
<1>34. CASE WritePaste
  BY <1>34 DEF WritePaste, Written
<1>35. CASE CancelPaste
  BY <1>35 DEF CancelPaste
<1>36. CASE PanelCopies
  BY <1>36 DEF PanelCopies, Written
<1>37. CASE UNCHANGED clipboardVars
  BY <1>37
<1>. QED
  BY <1>1, <1>2, <1>3, <1>4, <1>5, <1>6, <1>7, <1>8, <1>9, <1>10, <1>11, <1>12, <1>13,
     <1>14, <1>15, <1>16, <1>17, <1>18, <1>19, <1>20, <1>21, <1>22, <1>23, <1>24,
     <1>25, <1>26, <1>27, <1>28, <1>29, <1>30, <1>31, <1>32, <1>33, <1>34, <1>35,
     <1>36, <1>37
     DEF CopyNext, SelectionStep, WriterStep, HistoryNext, ManagementStep, RefreshStep,
         ObserverStep

\* The numbers a transaction remembers are of the past.
LEMMA BaselinesKept ==
  ASSUME CopyTypes, Baselines, [CopyNext]_clipboardVars
  PROVE  Baselines'
<1> USE ClipboardAssumption
    DEF CopyTypes, ServiceTypes, ManagersTyped, ObserversTyped, Copies, Baselines,
        clipboardVars, hostVars, serviceVars, copyVars
<1>1. ASSUME NEW m \in Managers, NEW p \in Plugins, Grant(m, p), UNCHANGED copyVars
      PROVE  Baselines'
  BY <1>1 DEF Grant, Publish, Idle, IdleManager
<1>2. ASSUME NEW m \in Managers, NEW p \in Plugins, Revoke(m, p), UNCHANGED copyVars
      PROVE  Baselines'
  BY <1>2 DEF Revoke, Publish, Idle, IdleManager
<1>3. ASSUME NEW m \in Managers, NEW p \in Plugins, NEW purge \in BOOLEAN,
          Uninstall(m, p, purge), UNCHANGED copyVars
      PROVE  Baselines'
  BY <1>3 DEF Uninstall, Publish, Idle, IdleManager
<1>4. ASSUME NEW m \in Managers, SnapshotGrants(m), UNCHANGED copyVars
      PROVE  Baselines'
  BY <1>4 DEF SnapshotGrants
<1>5. ASSUME NEW m \in Managers, SyncAuthorized(m), UNCHANGED copyVars
      PROVE  Baselines'
  BY <1>5 DEF SyncAuthorized, Authorizes, Goes
<1>6. ASSUME NEW m \in Managers, StopThread(m), UNCHANGED copyVars
      PROVE  Baselines'
  BY <1>6 DEF StopThread, Goes
<1>7. ASSUME NEW m \in Managers, JoinThread(m), UNCHANGED copyVars
      PROVE  Baselines'
  BY <1>7 DEF JoinThread, NoThread
<1>8. ASSUME NEW m \in Managers, EnsureObserver(m), UNCHANGED copyVars
      PROVE  Baselines'
  BY <1>8 DEF EnsureObserver, Goes, Refreshed, IdleManager
<1>9. ASSUME NEW m \in Managers, StartThread(m), UNCHANGED copyVars
      PROVE  Baselines'
  BY <1>9 DEF StartThread
<1>10. ASSUME NEW m \in Managers, InstallThread(m), UNCHANGED copyVars
      PROVE  Baselines'
  BY <1>10 DEF InstallThread, IdleManager
<1>11. ASSUME NEW m \in Managers, ForgetPlugin(m), UNCHANGED copyVars
      PROVE  Baselines'
  BY <1>11 DEF ForgetPlugin, Authorizes, Goes
<1>12. ASSUME NEW m \in Managers, EraseHistory(m), UNCHANGED copyVars
      PROVE  Baselines'
  BY <1>12 DEF EraseHistory, IdleManager
<1>13. ASSUME NEW o \in Observers, BeginPolling(o), UNCHANGED copyVars
      PROVE  Baselines'
  BY <1>13 DEF BeginPolling
<1>14. ASSUME NEW o \in Observers, LoopTop(o), UNCHANGED copyVars
      PROVE  Baselines'
  BY <1>14 DEF LoopTop, ThreadGoes
<1>15. ASSUME NEW o \in Observers, Wake(o), UNCHANGED copyVars
      PROVE  Baselines'
  BY <1>15 DEF Wake
<1>16. ASSUME NEW o \in Observers, CaptureSuppressed(o), UNCHANGED copyVars
      PROVE  Baselines'
  BY <1>16 DEF CaptureSuppressed, ThreadGoes
<1>17. ASSUME NEW o \in Observers, CaptureRefused(o), UNCHANGED copyVars
      PROVE  Baselines'
  BY <1>17 DEF CaptureRefused, ThreadGoes
<1>18. ASSUME NEW o \in Observers, CaptureAdmitted(o), UNCHANGED copyVars
      PROVE  Baselines'
  BY <1>18 DEF CaptureAdmitted
<1>19. ASSUME NEW o \in Observers, ReadFails(o), UNCHANGED copyVars
      PROVE  Baselines'
  BY <1>19 DEF ReadFails, ReleasesGate
<1>20. ASSUME NEW o \in Observers, ReadContents(o), UNCHANGED copyVars
      PROVE  Baselines'
  BY <1>20 DEF ReadContents, ThreadGoes
<1>21. ASSUME NEW o \in Observers, StoreRecord(o), UNCHANGED copyVars
      PROVE  Baselines'
  BY <1>21 DEF StoreRecord, ReleasesGate, Recorders
<1>22. ASSUME AppCopy, UNCHANGED copyVars
      PROVE  Baselines'
  BY <1>22 DEF AppCopy, Written
<1>23. CASE SelectionBegins
  BY <1>23 DEF SelectionBegins, NoSelection
<1>24. CASE SelectionRefused
  BY <1>24 DEF SelectionRefused, SelectionEnds, NoSelection
<1>25. CASE InjectCopy
  BY <1>25 DEF InjectCopy
<1>26. CASE ReadCopy
  BY <1>26 DEF ReadCopy, Fresh
<1>27. CASE ReadGivesUp
  BY <1>27 DEF ReadGivesUp
<1>28. CASE RestoreContents
  BY <1>28 DEF RestoreContents, SelectionEnds, NoSelection, Written, Fresh, StillOwned
<1>29. CASE RestoreNothing
  BY <1>29 DEF RestoreNothing, SelectionEnds, NoSelection
<1>30. CASE TargetCopies
  BY <1>30 DEF TargetCopies, Written
<1>31. CASE UserCopies
  BY <1>31 DEF UserCopies, Written
<1>32. CASE UserTouches
  BY <1>32 DEF UserTouches
<1>33. CASE BeginPaste
  BY <1>33 DEF BeginPaste
<1>34. CASE WritePaste
  BY <1>34 DEF WritePaste, Written
<1>35. CASE CancelPaste
  BY <1>35 DEF CancelPaste
<1>36. CASE PanelCopies
  BY <1>36 DEF PanelCopies, Written
<1>37. CASE UNCHANGED clipboardVars
  BY <1>37
<1>. QED
  BY <1>1, <1>2, <1>3, <1>4, <1>5, <1>6, <1>7, <1>8, <1>9, <1>10, <1>11, <1>12, <1>13,
     <1>14, <1>15, <1>16, <1>17, <1>18, <1>19, <1>20, <1>21, <1>22, <1>23, <1>24,
     <1>25, <1>26, <1>27, <1>28, <1>29, <1>30, <1>31, <1>32, <1>33, <1>34, <1>35,
     <1>36, <1>37
     DEF CopyNext, SelectionStep, WriterStep, HistoryNext, ManagementStep, RefreshStep,
         ObserverStep

-----------------------------------------------------------------------------
(* The clipboard: theorems *)

CopyInvariant ==
    /\ CopyTypes /\ ThreadsHeld /\ GrantsFollowed /\ ObserverAccounted
    /\ GateHeld /\ CurrentExcluded /\ SeenAllowed /\ Recorded /\ Baselines

LEMMA CopyInitial == HistoryInit /\ CopyInit => CopyInvariant
<1> SUFFICES ASSUME HistoryInit, CopyInit
             PROVE  CopyInvariant
  OBVIOUS
<1> USE ClipboardAssumption DEF HistoryInit, CopyInit, NoSelection
<1>1. ServiceTypes
  BY DEF ServiceTypes, Copies
<1>2. IdleManager \in ManagerTypes /\ IdleManager.pc = "idle" /\ IdleManager.erases = None
  BY DEF IdleManager, ManagerTypes, ManagerSteps, NextSteps
<1>3. NoThread \in ObserverTypes /\ NoThread.pc = "unused"
  BY DEF NoThread, ObserverTypes, HistorySteps
<1>4. CopyTypes
  BY <1>1, <1>2, <1>3 DEF CopyTypes, ManagersTyped, ObserversTyped
<1>5. ThreadsHeld /\ GrantsFollowed
  BY <1>2, ManagersAssumption DEF ThreadsHeld, GrantsFollowed, Idle
<1>6. ObserverAccounted /\ GateHeld /\ SeenAllowed
  BY <1>3 DEF ObserverAccounted, GateHeld, SeenAllowed
<1>7. CurrentExcluded /\ Recorded /\ Baselines
  BY DEF CurrentExcluded, Recorded, Baselines
<1>. QED
  BY <1>4, <1>5, <1>6, <1>7 DEF CopyInvariant

LEMMA CopyKept == CopyInvariant /\ [CopyNext]_clipboardVars => CopyInvariant'
<1> SUFFICES ASSUME CopyInvariant, [CopyNext]_clipboardVars
             PROVE  CopyInvariant'
  OBVIOUS
<1> USE DEF CopyInvariant
<1>1. CopyTypes'
  BY ManagersTypedKept, ObserversTypedKept, ServiceTypesKept DEF CopyTypes
<1>2. ThreadsHeld' /\ GrantsFollowed' /\ ObserverAccounted'
  BY ThreadsHeldKept, GrantsFollowedKept, AccountedKept
<1>3. GateHeld' /\ CurrentExcluded' /\ SeenAllowed'
  BY GateHeldKept, CurrentKept, SeenKept
<1>4. Recorded' /\ Baselines'
  BY RecordedKept, BaselinesKept
<1>. QED
  BY <1>1, <1>2, <1>3, <1>4

\* The clipboard's whole invariant holds of every reachable state.
THEOREM CopyCorrect == CopySpec => []CopyInvariant
  BY CopyInitial, CopyKept, PTL DEF CopySpec

\* Once every published change has been read, and the list that was read last is the one that
\* was applied last, those who record are those whose configuration grants it, for any
\* number of plugins, overlapping managers and observer threads.
THEOREM GrantsFollow == CopySpec => []AuthorizationFollows
<1>1. CopyInvariant => AuthorizationFollows
  BY DEF CopyInvariant, GrantsFollowed, EveryChangeRead, AuthorizationFollows
<1>. QED
  BY <1>1, CopyCorrect, PTL

\* No observer thread is lost: one that was not told to stop is the service's or a manager's.
THEOREM ObserversCounted == CopySpec => []ObserverAccounted
<1>1. CopyInvariant => ObserverAccounted
  BY DEF CopyInvariant
<1>. QED
  BY <1>1, CopyCorrect, PTL

\* No history holds a text a capture returned or the contents put back after it.
THEOREM TemporaryForgotten == CopySpec => []TemporaryNotRecorded
<1>1. CopyInvariant => TemporaryNotRecorded
  BY DEF CopyInvariant, Recorded, TemporaryNotRecorded
<1>. QED
  BY <1>1, CopyCorrect, PTL

\* Putting the earlier contents back overwrites the target's copy only, and nothing the
\* user has copied since.
THEOREM UserCopySafe == CopySpec => UserCopyKept
<1> DEFINE kept == clip'.by = "restored" /\ clip' # clip
                      => clip.by = "temp" /\ userCopy <= selection.baseline
<1>1. ASSUME CopyInvariant, [CopyNext]_clipboardVars
      PROVE  [kept]_clipboardVars
  <2> SUFFICES ASSUME CopyNext, clip'.by = "restored", clip' # clip
               PROVE  clip.by = "temp" /\ userCopy <= selection.baseline
    BY <1>1
  <2>1. clip \in Copies
    BY <1>1 DEF CopyInvariant, CopyTypes, ServiceTypes
  <2>2. CASE RestoreContents
    <3>1. selection.pc = "restore" /\ (IF selection.observed = 0 THEN Fresh ELSE StillOwned)
      BY <2>2 DEF RestoreContents
    <3>2. Baselines
      BY <1>1 DEF CopyInvariant
    <3>. QED
      BY <3>1, <3>2 DEF Baselines, Fresh, StillOwned
  <2>3. CASE ReadCopy
    <3>1. clip'.by = clip.by /\ clip.by = "temp"
      BY <2>1, <2>3 DEF ReadCopy, Fresh, Copies
    <3>. QED
      BY <3>1
  <2>4. CASE clip' = Written("temp") \/ clip' = Written("user") \/ clip' = Written("other")
    BY <2>4 DEF Written
  <2>5. CASE HistoryNext /\ UNCHANGED copyVars
    <3>1. ASSUME NEW m \in Managers, ManagementStep(m)
          PROVE  clip' = clip
      BY <3>1 DEF ManagementStep, RefreshStep, Grant, Revoke, Uninstall, Publish,
                  SnapshotGrants, SyncAuthorized, StopThread, JoinThread, EnsureObserver,
                  StartThread, InstallThread, ForgetPlugin, EraseHistory, Authorizes
    <3>2. ASSUME NEW o \in Observers, ObserverStep(o)
          PROVE  clip' = clip
      BY <3>2 DEF ObserverStep, BeginPolling, LoopTop, Wake, CaptureSuppressed,
                  CaptureRefused, CaptureAdmitted, ReadFails, ReadContents, StoreRecord
    <3>3. ASSUME AppCopy
          PROVE  clip' = Written("other")
      BY <3>3 DEF AppCopy
    <3>. QED
      BY <2>4, <2>5, <3>1, <3>2, <3>3 DEF HistoryNext
  <2>6. CASE SelectionStep /\ ~ReadCopy /\ ~RestoreContents
    BY <2>6 DEF SelectionStep, SelectionBegins, SelectionRefused, InjectCopy, ReadGivesUp,
                RestoreNothing, hostVars
  <2>7. CASE WriterStep
    BY <2>4, <2>7 DEF WriterStep, TargetCopies, UserCopies, UserTouches, BeginPaste,
                      WritePaste, CancelPaste, PanelCopies, hostVars
  <2>. QED
    BY <2>2, <2>3, <2>5, <2>6, <2>7 DEF CopyNext
<1>. QED
  BY <1>1, CopyCorrect, PTL DEF CopySpec, UserCopyKept
=============================================================================
