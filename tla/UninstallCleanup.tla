-------------------------- MODULE UninstallCleanup --------------------------
(***************************************************************************)
(* What the installations and uninstalls of one plugin leave on disk when  *)
(* deletions fail and the program ends between two steps: the install      *)
(* commit and the uninstall of activation.rs, the receipts of              *)
(* owner_cleanup.rs, the recovery of the next start.                       *)
(*                                                                         *)
(* A commit is numbered and its number is the digest of the package it     *)
(* installs; an installation bears the number of the commit that began it, *)
(* and so do the data it writes.  "storage" stands for storage and secrets *)
(* (the same calls in a row), "history" is the clipboard history.  A       *)
(* commit_with_backup happens or does not: the outcome the code classifies *)
(* as unknown is left out, and so are Windows, timers and requests.        *)
(* MaxCommits bounds the commits.  StaleTokens: whether a package prepared *)
(* while the plugin was absent may be committed after another of the same  *)
(* plugin was installed and completely uninstalled.                        *)
(***************************************************************************)
EXTENDS Naturals, Sequences, FiniteSets

CONSTANTS MaxCommits, StaleTokens

ASSUME CleanupAssumption == MaxCommits \in Nat /\ StaleTokens \in BOOLEAN

VARIABLES
    receipt, config, packages, data,  \* on disk: receipt, state.json, package and data roots
    host,      \* "down", "retried" (between the recovery and the load), "up"
    book,      \* the configuration in memory
    active,    \* digest of the published bundle, 0 for none
    prepared,  \* outstanding tokens, by the configuration they were prepared over
    job,       \* the install commit in progress, on a worker thread
    command,   \* the uninstall in progress, on the main thread
    commits,   \* commits begun
    erased     \* installations whose data a durable receipt has promised to erase

diskVars == <<receipt, config, packages, data>>
memoryVars == <<host, book, active, prepared>>
cleanupVars == <<diskVars, memoryVars, job, command, commits, erased>>

Digests == 1..MaxCommits
DataOwners == {"storage", "history"}
NoConfig == [status |-> "none", life |-> 0, digest |-> 0]
IdleJob == [pc |-> "idle", config |-> NoConfig, old |-> 0]
IdleCommand == [pc |-> "idle", retain |-> FALSE]

Configs == [status : {"none", "enabled", "disabled", "uninstalled"},
            life : 0..MaxCommits, digest : 0..MaxCommits]

CleanupTypeOK ==
    /\ receipt \in BOOLEAN
    /\ config \in Configs /\ book \in Configs
    /\ packages \in SUBSET Digests
    /\ data \in [DataOwners -> SUBSET Digests]
    /\ host \in {"down", "retried", "up"}
    /\ active \in 0..MaxCommits
    /\ prepared \in SUBSET {"absent", "present"}
    /\ job \in [pc : {"idle", "package", "config", "publish", "old"}, config : Configs,
                old : 0..MaxCommits]
    /\ command \in [pc : {"idle", "begun", "persist", "publish", "clean", "clear"},
                    retain : BOOLEAN]
    /\ commits \in 0..MaxCommits
    /\ erased \in SUBSET Digests

Installed(c) == c.status \in {"enabled", "disabled"}
Uninstalling == command.pc \in {"begun", "persist", "publish"}
Reserved == job.pc \in {"package", "config", "publish"} \/ Uninstalling

----------------------------------------------------------------------------
\* Installing.  A token is good for the configuration it was prepared over: that of an
\* absent plugin is the same after every complete uninstall, any other never comes back.

Prepare ==
    /\ host = "up" /\ command.pc = "idle" /\ ~receipt
    /\ prepared' = prepared \cup {IF book.status = "none" THEN "absent" ELSE "present"}
    /\ UNCHANGED <<diskVars, host, book, active, job, command, commits, erased>>

CancelToken ==
    /\ host = "up"
    /\ \E token \in prepared : prepared' = prepared \ {token}
    /\ UNCHANGED <<diskVars, host, book, active, job, command, commits, erased>>

StillGood == IF StaleTokens THEN prepared \cap {"absent"} ELSE {}

\* From the token to the reservation.
BeginCommit ==
    /\ host = "up" /\ job.pc = "idle" /\ ~Reserved /\ commits < MaxCommits
    /\ LET token == IF book.status = "none" THEN "absent" ELSE "present"
           number == commits + 1
       IN /\ token \in prepared
          /\ prepared' = prepared \ {token}
          /\ commits' = number
          /\ job' = [pc |-> "package", old |-> book.digest,
                     config |-> [status |-> IF book.status = "disabled" THEN "disabled"
                                                                        ELSE "enabled",
                                 life |-> IF Installed(book) THEN book.life ELSE number,
                                 digest |-> number]]
    /\ UNCHANGED <<diskVars, host, book, active, command, erased>>

PersistPackage ==
    /\ job.pc = "package"
    /\ \/ packages' = packages \cup {job.config.digest} /\ job' = [job EXCEPT !.pc = "config"]
       \/ job' = IdleJob /\ UNCHANGED packages
    /\ UNCHANGED <<receipt, config, data, memoryVars, command, commits, erased>>

PersistConfig ==
    /\ job.pc = "config"
    /\ \/ config' = job.config /\ job' = [job EXCEPT !.pc = "publish"] /\ UNCHANGED packages
       \/ packages' = packages \ {job.config.digest} /\ job' = IdleJob /\ UNCHANGED config
    /\ UNCHANGED <<receipt, data, memoryVars, command, commits, erased>>

PublishInstall ==
    /\ job.pc = "publish"
    /\ book' = job.config
    /\ active' = IF job.config.status = "enabled" THEN job.config.digest ELSE 0
    /\ prepared' = StillGood
    /\ job' = [job EXCEPT !.pc = "old"]
    /\ UNCHANGED <<diskVars, host, command, commits, erased>>

\* Fault: the directory of all packages of the plugin goes.
RemoveAllPackages ==
    /\ job.pc = "old"
    /\ packages' \in {packages, {}}
    /\ job' = IdleJob
    /\ UNCHANGED <<receipt, config, data, memoryVars, command, commits, erased>>

\* The package before this one; that it cannot be removed is ignored.
RemoveOldPackage ==
    /\ job.pc = "old"
    /\ packages' \in {packages, packages \ {job.old}}
    /\ job' = IdleJob
    /\ UNCHANGED <<receipt, config, data, memoryVars, command, commits, erased>>

\* Durable, then published: one step, a crash in between is one after it.
SetsEnabled(status) ==
    /\ config' = [book EXCEPT !.status = status]
    /\ book' = config'
    /\ active' = IF status = "enabled" THEN book.digest ELSE 0
    /\ prepared' = StillGood
    /\ UNCHANGED <<receipt, packages, data, host, job, command, commits, erased>>

Enable ==
    /\ host = "up" /\ ~Reserved
    /\ book.status = "disabled" /\ book.digest \in packages
    /\ SetsEnabled("enabled")

Disable ==
    /\ host = "up" /\ ~Reserved
    /\ book.status = "enabled" /\ active # 0
    /\ SetsEnabled("disabled")

\* A data call of the Runtime or the window, which the data gate admits; a copy
\* recorded for the plugin, which its configuration admits.
Writes(owner) == data' = [data EXCEPT ![owner] = @ \cup {book.life}]

WriteStorage ==
    /\ host = "up" /\ active # 0 /\ ~Uninstalling
    /\ Writes("storage")
    /\ UNCHANGED <<receipt, config, packages, memoryVars, job, command, commits, erased>>

RecordHistory ==
    /\ host = "up" /\ book.status = "enabled"
    /\ Writes("history")
    /\ UNCHANGED <<receipt, config, packages, memoryVars, job, command, commits, erased>>

----------------------------------------------------------------------------
\* Uninstalling: one command on the main thread.

CommandGoes(pc) == command' = [command EXCEPT !.pc = pc]

BeginUninstall(retain) ==
    /\ host = "up" /\ command.pc = "idle" /\ ~receipt /\ ~Reserved
    /\ book.status # "none"
    /\ command' = [pc |-> "begun", retain |-> retain]
    /\ UNCHANGED <<diskVars, memoryVars, job, commits, erased>>

\* The window does not close, or the first durable write fails.
AbortUninstall ==
    /\ command.pc = "begun"
    /\ command' = IdleCommand
    /\ UNCHANGED <<diskVars, memoryVars, job, commits, erased>>

\* From here on a complete uninstall cannot be taken back.
CommitReceipt ==
    /\ command.pc = "begun" /\ ~command.retain
    /\ receipt' = TRUE
    /\ erased' = erased \cup 1..commits
    /\ CommandGoes("persist")
    /\ UNCHANGED <<config, packages, data, memoryVars, job, commits>>

\* That the state of a complete uninstall cannot be written is ignored.
PersistUninstalled ==
    /\ command.pc = IF command.retain THEN "begun" ELSE "persist"
    /\ config' \in {[book EXCEPT !.status = "uninstalled"]}
                   \cup (IF command.retain THEN {} ELSE {config})
    /\ CommandGoes("publish")
    /\ UNCHANGED <<receipt, packages, data, memoryVars, job, commits, erased>>

PublishUninstall ==
    /\ command.pc = "publish"
    /\ book' = IF command.retain THEN [book EXCEPT !.status = "uninstalled"] ELSE NoConfig
    /\ active' = 0
    /\ prepared' = StillGood
    /\ CommandGoes("clean")
    /\ UNCHANGED <<diskVars, host, job, commits, erased>>

Removes(owners) ==
    /\ data' = [o \in DataOwners |-> IF o \in owners THEN {} ELSE data[o]]
    /\ config' = IF "state" \in owners THEN NoConfig ELSE config
    /\ packages' = IF "packages" \in owners THEN {} ELSE packages

AllOwners == {"history", "storage", "state", "packages"}

\* Fault: a deletion that fails is not noticed.
CleanUnnoticed ==
    /\ command.pc = "clean"
    /\ \E removed \in SUBSET (IF command.retain THEN {"packages"} ELSE AllOwners) :
          /\ Removes(removed)
          /\ IF command.retain THEN command' = IdleCommand ELSE CommandGoes("clear")
    /\ UNCHANGED <<receipt, memoryVars, job, commits, erased>>

\* Fault: the data that were to be kept go too.
CleanRetained ==
    /\ command.pc = "clean"
    /\ \E removed \in SUBSET AllOwners :
          /\ Removes(removed)
          /\ IF command.retain \/ removed # AllOwners THEN command' = IdleCommand
                                                      ELSE CommandGoes("clear")
    /\ UNCHANGED <<receipt, memoryVars, job, commits, erased>>

\* finish_uninstall_cleanup tries every owner; what cannot be deleted stays.
CleanOwners ==
    /\ command.pc = "clean"
    /\ LET owners == IF command.retain THEN {"packages"} ELSE AllOwners
       IN \E removed \in SUBSET owners :
             /\ Removes(removed)
             /\ IF command.retain \/ removed # owners THEN command' = IdleCommand
                                                      ELSE CommandGoes("clear")
    /\ UNCHANGED <<receipt, memoryVars, job, commits, erased>>

ClearReceipt ==
    /\ command.pc = "clear"
    /\ receipt' \in BOOLEAN
    /\ command' = IdleCommand
    /\ UNCHANGED <<config, packages, data, memoryVars, job, commits, erased>>

----------------------------------------------------------------------------
\* The end of the program and the next start.

Crash ==
    /\ host # "down"
    /\ host' = "down" /\ book' = NoConfig /\ active' = 0 /\ prepared' = {}
    /\ job' = IdleJob /\ command' = IdleCommand
    /\ UNCHANGED <<diskVars, commits, erased>>

RecoveryOrder == <<"storage", "state", "packages">>

\* retry_pending_owner_cleanup: up to the first failure, the receipt last.  The start
\* goes on whatever came of it.
RetryCleanup ==
    /\ host = "down"
    /\ host' = "retried"
    /\ IF receipt
       THEN \E done \in 0..Len(RecoveryOrder) :
               /\ Removes({RecoveryOrder[i] : i \in 1..done})
               /\ receipt' \in IF done = Len(RecoveryOrder) THEN BOOLEAN ELSE {TRUE}
       ELSE UNCHANGED diskVars
    /\ UNCHANGED <<book, active, prepared, job, command, commits, erased>>

\* A plugin whose receipt is pending is left out; one whose package is not there is
\* disabled for the fault.
Load ==
    /\ host = "retried"
    /\ host' = "up"
    /\ LET kept == IF Installed(config) /\ ~receipt /\ config.digest \notin packages
                   THEN [config EXCEPT !.status = "disabled"] ELSE config
       IN /\ config' = kept /\ book' = kept
          /\ active' = IF kept.status = "enabled" /\ ~receipt THEN kept.digest ELSE 0
    /\ UNCHANGED <<receipt, packages, data, prepared, job, command, commits, erased>>

----------------------------------------------------------------------------

CleanupInit ==
    /\ receipt = FALSE /\ config = NoConfig /\ packages = {}
    /\ data = [o \in DataOwners |-> {}]
    /\ host = "down" /\ book = NoConfig /\ active = 0 /\ prepared = {}
    /\ job = IdleJob /\ command = IdleCommand
    /\ commits = 0 /\ erased = {}

InstallStep ==
    \/ Prepare \/ CancelToken \/ BeginCommit \/ PersistPackage \/ PersistConfig
    \/ PublishInstall \/ RemoveOldPackage \/ Enable \/ Disable \/ WriteStorage \/ RecordHistory

UninstallStep ==
    \/ \E retain \in BOOLEAN : BeginUninstall(retain)
    \/ AbortUninstall \/ CommitReceipt \/ PersistUninstalled \/ PublishUninstall
    \/ CleanOwners \/ ClearReceipt

CleanupNext == InstallStep \/ UninstallStep \/ Crash \/ RetryCleanup \/ Load

CleanupSpec == CleanupInit /\ [][CleanupNext]_cleanupVars

----------------------------------------------------------------------------
\* Once no receipt is pending, nothing is left of an installation that was to be erased
\* but, possibly, its clipboard history: no stored data, no configuration, no package
\* (commit_uninstall, finish_uninstall_cleanup, retry_pending_owner_cleanup).
ErasedIsGone ==
    ~receipt => /\ data["storage"] \cap erased = {}
                /\ config.life \notin erased
                /\ packages \cap erased = {}

\* A configuration that will be loaded at the next start has its package on disk, at
\* every point a crash may come (the order of persist, persist_prepared, remove_package_tree).
PackageKept ==
    Installed(config) /\ config.status = "enabled" /\ ~receipt => config.digest \in packages

\* Only what was to be erased is ever deleted from the plugin's data: not by an update, a
\* restart, an uninstall that keeps the data, or a recovery that comes late.
OnlyErasedDeleted ==
    [][\A o \in DataOwners : data[o] \ data'[o] \subseteq erased]_cleanupVars
=============================================================================
