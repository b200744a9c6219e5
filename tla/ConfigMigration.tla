-------------------------- MODULE ConfigMigration --------------------------
(***************************************************************************)
(* What argvus-greeter-setup (packaging/greetd) does to greetd's           *)
(* configuration: --migrate-paths rewrites two legacy launch paths in      *)
(* place, and unless that was all it was asked for the packaged file is    *)
(* installed over it.  Both back the file up first, under a name that      *)
(* carries the time the script was started.  A file is not written at      *)
(* once: a script killed in between leaves it torn.                        *)
(***************************************************************************)
EXTENDS Naturals

CONSTANTS
  MaxRuns,     \* bound: invocations of the script, no two in one second
  MaxEditions, \* bound: configurations an administrator has written
  RunsMayDie   \* whether a run may end before its time

ASSUME RunsAssumption == MaxRuns \in Nat /\ MaxEditions \in Nat
ASSUME DeathAssumption == RunsMayDie \in BOOLEAN

VARIABLES
  config,   \* /etc/greetd/config.toml
  backup,   \* backup[r]: config.toml.bak-<the time run r was started>
  draft,    \* config.toml.argvus-migrate: the rewritten text
  run,      \* invocations so far
  task,     \* of the last one: 1 and 2 migrate a line, 3 installs, 0 is none
  step,     \* within the task
  options,  \* what it was asked for
  original  \* history: the administrator's last edition, as it was written

configVars == <<config, backup, draft, run, task, step, options, original>>

Invocation == 1 .. MaxRuns

\* The launch paths migrate_paths looks for in this file, in its order.
Line == {"greeter", "session"}
LineOf(t) == IF t = 1 THEN "greeter" ELSE "session"

\* A configuration is an administrator's edition, with the legacy lines that
\* are in it, or the packaged one; "torn" is a file only partly written.
Config == [kind : {"absent", "torn", "packaged", "admin"},
           edition : 0 .. MaxEditions, legacy : SUBSET Line]
Plain(kind) == [kind |-> kind, edition |-> 0, legacy |-> {}]
Admin(n, lines) == [kind |-> "admin", edition |-> n, legacy |-> lines]

ConfigTypeOK ==
  /\ config \in Config
  /\ backup \in [Invocation -> Config]
  /\ draft \in Config
  /\ run \in 0 .. MaxRuns
  /\ task \in 0 .. 3
  /\ step \in {"check", "copy", "write", "fill"}
  /\ options \in [migrate : BOOLEAN, install : BOOLEAN]
  /\ original \in Config

ConfigInit ==
  /\ \/ config \in {Plain("absent"), Plain("packaged")}
     \/ MaxEditions > 0 /\ \E lines \in SUBSET Line : config = Admin(1, lines)
  /\ original = config
  /\ backup = [r \in Invocation |-> Plain("absent")]
  /\ draft = Plain("absent")
  /\ run = 0
  /\ task = 0
  /\ step = "check"
  /\ options = [migrate |-> FALSE, install |-> FALSE]

-----------------------------------------------------------------------------

\* --migrate-paths alone exits before the installation.
StartRun ==
  /\ task = 0 /\ run < MaxRuns
  /\ run' = run + 1
  /\ \E o \in [migrate : BOOLEAN, install : BOOLEAN] :
       /\ o.migrate \/ o.install
       /\ options' = o
       /\ task' = IF o.migrate THEN 1 ELSE 3
  /\ step' = "check"
  /\ UNCHANGED <<config, backup, draft, original>>

\* Mutant: nothing ends the run.
AfterFallsThrough(t) == t + 1

\* The task after this one.
After(t) == CASE t = 1 -> 2
              [] t = 2 -> IF options.install THEN 3 ELSE 0
              [] OTHER -> 0

GoTo(t, s) == task' = t /\ step' = s

\* A line is migrated if the file has it; what is installed over is backed
\* up if there is something and it differs.
Concerned ==
  IF task = 3 THEN config.kind \in {"torn", "admin"}
  ELSE LineOf(task) \in config.legacy

NothingToDo ==
  /\ task # 0 /\ step = "check" /\ ~Concerned
  /\ IF task = 3 THEN GoTo(3, "write") ELSE GoTo(After(task), "check")
  /\ UNCHANGED <<config, backup, draft, run, options, original>>

\* Mutant: one name for the backups of all runs.
SingleBackup(r) == 1

\* BACKUP_SUFFIX is the same for all backups of a run.
BackupOf(r) == r

\* cp opens the backup...
OpenBackup ==
  /\ task # 0 /\ step = "check" /\ Concerned
  /\ backup' = [backup EXCEPT ![BackupOf(run)] = Plain("torn")]
  /\ GoTo(task, "copy")
  /\ UNCHANGED <<config, draft, run, options, original>>

\* ...and copies.
CopyBackup ==
  /\ task # 0 /\ step = "copy"
  /\ backup' = [backup EXCEPT ![BackupOf(run)] = config]
  /\ GoTo(task, "write")
  /\ UNCHANGED <<config, draft, run, options, original>>

\* sed writes the draft; then cat, or install, opens the file itself.
OpenFile ==
  /\ task # 0 /\ step = "write"
  /\ draft' = IF task = 3 THEN draft
              ELSE [config EXCEPT !.legacy = @ \ {LineOf(task)}]
  /\ config' = Plain("torn")
  /\ GoTo(task, "fill")
  /\ UNCHANGED <<backup, run, options, original>>

FillFile ==
  /\ task # 0 /\ step = "fill"
  /\ config' = IF task = 3 THEN Plain("packaged") ELSE draft
  /\ GoTo(After(task), "check")
  /\ UNCHANGED <<backup, draft, run, options, original>>

\* A signal, or `set -e`: cp, sed, cat or install fails.
RunDies ==
  /\ RunsMayDie /\ task # 0
  /\ GoTo(0, "check")
  /\ UNCHANGED <<config, backup, draft, run, options, original>>

\* Between two runs the administrator writes the file anew.
WriteEdition(lines) ==
  /\ task = 0 /\ original.edition < MaxEditions
  /\ config' = Admin(original.edition + 1, lines)
  /\ original' = config'
  /\ UNCHANGED <<backup, draft, run, task, step, options>>

ConfigNext ==
  \/ StartRun \/ NothingToDo \/ OpenBackup \/ CopyBackup
  \/ OpenFile \/ FillFile \/ RunDies
  \/ \E lines \in SUBSET Line : WriteEdition(lines)

ConfigSpec == ConfigInit /\ [][ConfigNext]_configVars

-----------------------------------------------------------------------------

\* The files that can be restored.
Kept == {config} \cup {backup[r] : r \in Invocation}

\* At every instant the administrator's last edition is in the configuration
\* or in a backup, complete but for the migrated lines, whatever runs were
\* asked for and wherever they died.  (migrate_line, the backup before the
\* installation)
EditionsSurvive ==
  original.kind = "admin" =>
    \E c \in Kept : c.kind = "admin" /\ c.edition = original.edition

\* The repository says more: that the backups make the operation reversible,
\* so that after a run the last edition is still there as it was written.  A
\* run backs up under one name, once per line and once before installing, and
\* each copy replaces the one before.  (argvus-greeter-setup "Timestamped
\* backups make the operation reversible"; false even if no run dies)
OperationIsReversible ==
  task = 0 /\ original.kind = "admin" => original \in Kept
=============================================================================
