------------------------------- MODULE Backup -------------------------------
(***************************************************************************)
(* `workloadctl backup` and `workloadctl restore`, one such process at a   *)
(* time, step by step beside the units and their payloads.                 *)
(*                                                                         *)
(* A backup copies data/ in two steps, the two halves of the tree, and an  *)
(* archive holds the version each half had.  A mount is a directory of     *)
(* data/, or data/ itself, that leads elsewhere: `elsewhere` is whether    *)
(* what lies there is still as its owner left it.                          *)
(***************************************************************************)
EXTENDS VmControl

VARIABLES
    op,         \* the backup or restore at work
    archive,    \* the last archive written of each workload
    mount,      \* what is mounted on each workload's data/ or under it
    elsewhere,  \* whether the mounted directory still has what it had
    present     \* whether the workload's config is there

backupVars == <<op, archive, mount, elsewhere, present>>

Mounts == {"none", "bind_under", "filesystem_under", "bind_on", "filesystem_on"}

NoArchive == [first |-> -1, second |-> -1, under |-> FALSE, asked |-> "none"]

NoOp == [pc |-> "idle", workload |-> CHOOSE w \in Workloads : TRUE,
         noStop |-> FALSE, wasActive |-> FALSE, boots |-> 0, asked |-> "none",
         first |-> -1, second |-> -1, under |-> FALSE, force |-> FALSE,
         warned |-> FALSE]

BackupInit ==
    /\ op = NoOp
    /\ archive = [w \in Workloads |-> NoArchive]
    /\ mount = [w \in Workloads |-> "none"]
    /\ elsewhere = [w \in Workloads |-> TRUE]
    /\ present = [w \in Workloads |-> TRUE]

At(pc) == op.pc = pc

Step(from, to) ==
    At(from) /\ op' = IF to = "idle" THEN NoOp ELSE [op EXCEPT !.pc = to]

-----------------------------------------------------------------------------
(* Backup *)

\* A crash-consistent backup of a VM, which is to resume what it paused.
Resumes == op.noStop /\ op.workload \in VMs

\* `backup`: a crash-consistent one of a VM looks at the unit first.
StartBackup(w, crash) ==
    /\ At("idle") /\ present[w]
    /\ Spend("archives")
    /\ op' = [NoOp EXCEPT !.workload = w, !.noStop = crash,
                          !.asked = IF crash THEN "crash" ELSE "cold",
                          !.pc = IF crash /\ w \in VMs THEN "probe" ELSE "check"]
    /\ UNCHANGED <<unit, guest, monitor, tap, skew, data, boots>>
    /\ UNCHANGED <<archive, mount, elsewhere, present>>

\* backup_vm_crash: nothing to pause means a cold backup.
Probe ==
    /\ At("probe")
    /\ op' = IF unit[op.workload] = "active"
               THEN [op EXCEPT !.pc = "connect"]
               ELSE [op EXCEPT !.pc = "check", !.noStop = FALSE]
    /\ UNCHANGED vmVars /\ UNCHANGED <<archive, mount, elsewhere, present>>

Connect ==
    /\ Step("connect", "pause")
    /\ Reachable(op.workload)
    /\ monitor' = [monitor EXCEPT ![op.workload] = "backup"]
    /\ UNCHANGED <<unit, guest, tap, skew, data, boots, left>>
    /\ UNCHANGED <<archive, mount, elsewhere, present>>

ConnectFails ==
    /\ Step("connect", "idle")
    /\ Unreachable(op.workload)
    /\ UNCHANGED vmVars /\ UNCHANGED <<archive, mount, elsewhere, present>>

\* Mutant of Pause: QMP `stop` is left out.
PauseNothing ==
    /\ At("pause")
    /\ op' = [op EXCEPT !.pc = "check", !.boots = boots[op.workload]]
    /\ monitor[op.workload] = "backup"
    /\ UNCHANGED vmVars /\ UNCHANGED <<archive, mount, elsewhere, present>>

\* QMP `stop`.
Pause ==
    /\ At("pause")
    /\ op' = [op EXCEPT !.pc = "check", !.boots = boots[op.workload]]
    /\ monitor[op.workload] = "backup"
    /\ guest' = [guest EXCEPT ![op.workload] = "paused"]
    /\ UNCHANGED <<unit, monitor, tap, skew, data, boots, left>>
    /\ UNCHANGED <<archive, mount, elsewhere, present>>

\* QMP `stop` without an answer: the monitor is gone, or (a fault) the answer
\* does not come in time, whether or not the vCPUs were paused.
PauseFails ==
    /\ Step("pause", "idle")
    /\ \/ /\ monitor[op.workload] # "backup"
          /\ UNCHANGED <<guest, monitor, left>>
       \/ /\ monitor[op.workload] = "backup"
          /\ Spend("faults")
          /\ guest' \in {guest, [guest EXCEPT ![op.workload] = "paused"]}
          /\ monitor' = [monitor EXCEPT ![op.workload] = "free"]
    /\ UNCHANGED <<unit, tap, skew, data, boots>>
    /\ UNCHANGED <<archive, mount, elsewhere, present>>

\* backup_impl: an active service is stopped, unless it was told not to.
Check ==
    LET w == op.workload
        active == unit[w] = "active"
    IN  /\ At("check")
        /\ op' = [op EXCEPT !.wasActive = active,
                            !.boots = IF Resumes THEN @ ELSE boots[w],
                            !.asked = IF unit[w] \notin {"active", "inactive"}
                                        THEN "unsettled" ELSE @,
                            !.pc = IF active /\ ~op.noStop THEN "stopped"
                                                           ELSE "copy"]
        /\ unit' = IF active /\ ~op.noStop
                     THEN [unit EXCEPT ![w] = StopState(w)] ELSE unit
        /\ UNCHANGED <<guest, monitor, tap, skew, data, boots, left>>
        /\ UNCHANGED <<archive, mount, elsewhere, present>>

\* `systemctl stop` returns: the service has come to a stop, and may have been
\* started again since.
Stopped(from, to) ==
    /\ Step(from, to)
    /\ unit[op.workload] = "inactive" \/ boots[op.workload] # op.boots
    /\ UNCHANGED vmVars /\ UNCHANGED <<archive, mount, elsewhere, present>>

\* `systemctl stop` fails, at once or with the service on its way down.  For a
\* backup (check=True) that is the end, ahead of the try whose finally would start
\* the service again; a restore does not look, and goes on.
StopFails ==
    /\ Spend("faults")
    /\ \/ /\ At("stopped") \/ (At("check") /\ unit[op.workload] = "active" /\ ~op.noStop)
          /\ op' = NoOp
       \/ Step("halted", "config")
    /\ UNCHANGED <<unit, guest, monitor, tap, skew, data, boots>>
    /\ UNCHANGED <<archive, mount, elsewhere, present>>

\* A directory that is a mount is left out of the archive (_ignore_mount_points),
\* data/ itself being one is not.
Captured(w) == mount[w] \notin {"bind_under", "filesystem_under"}

\* The config, the credentials and the first half of data/; then the rest.
Copy ==
    /\ At("copy")
    /\ op' = [op EXCEPT !.pc = "copy_on", !.first = data[op.workload],
                        !.under = Captured(op.workload)]
    /\ UNCHANGED vmVars /\ UNCHANGED <<archive, mount, elsewhere, present>>

CopyOn ==
    /\ At("copy_on")
    /\ op' = [op EXCEPT !.pc = "tar", !.second = data[op.workload]]
    /\ UNCHANGED vmVars /\ UNCHANGED <<archive, mount, elsewhere, present>>

\* tar writes the archive; it is "raced" when the workload was started since its
\* guest was paused, or else since the service was looked at.
Tar ==
    /\ Step("tar", "finally")
    /\ archive' = [archive EXCEPT ![op.workload] =
                      [first |-> op.first, second |-> op.second,
                       under |-> op.under,
                       asked |-> IF boots[op.workload] # op.boots
                                   THEN "raced" ELSE op.asked]]
    /\ UNCHANGED vmVars /\ UNCHANGED <<mount, elsewhere, present>>

\* A copy that fails, or is interrupted from the keyboard, goes to the finally.
CopyFails ==
    /\ op.pc \in {"copy", "copy_on", "tar"}
    /\ op' = [op EXCEPT !.pc = "finally"]
    /\ Spend("faults")
    /\ UNCHANGED <<unit, guest, monitor, tap, skew, data, boots>>
    /\ UNCHANGED <<archive, mount, elsewhere, present>>

\* Mutant of Resume: a copy that failed resumes nothing.
ResumeIfCopied ==
    LET v == op.workload
    IN  /\ Resumes /\ Step("finally", "resync")
        /\ guest' = [guest EXCEPT ![v] =
                        IF monitor[v] = "backup" /\ op.second # -1
                          THEN "running" ELSE @]
        /\ UNCHANGED <<unit, monitor, tap, skew, data, boots, left>>
        /\ UNCHANGED <<archive, mount, elsewhere, present>>

\* QMP `cont`: the guest lost what the copy took, an hour at most or a minute.
Resume ==
    LET v == op.workload
    IN  /\ Resumes /\ Step("finally", "resync")
        /\ IF monitor[v] = "backup"
             THEN /\ guest' = [guest EXCEPT ![v] = "running"]
                  /\ \E lost \in {60, 3600} :
                        skew' = [skew EXCEPT ![v] = -lost]
             ELSE UNCHANGED <<guest, skew>>
        /\ UNCHANGED <<unit, monitor, tap, data, boots, left>>
        /\ UNCHANGED <<archive, mount, elsewhere, present>>

\* QMP `cont` answered by an error, or not answered in time, whether or not the
\* vCPUs run again: a warning that the VM may remain paused.
ResumeFails ==
    LET v == op.workload
    IN  /\ Resumes /\ At("finally") /\ monitor[v] = "backup"
        /\ op' = [op EXCEPT !.pc = "resync", !.warned = TRUE]
        /\ Spend("faults")
        /\ \/ UNCHANGED <<guest, skew>>
           \/ /\ guest' = [guest EXCEPT ![v] = "running"]
              /\ skew' = [skew EXCEPT ![v] = -60]
        /\ UNCHANGED <<unit, monitor, tap, data, boots>>
        /\ UNCHANGED <<archive, mount, elsewhere, present>>

\* _resync_after_pause, and the monitor is let go.
Resync ==
    LET v == op.workload
    IN  /\ Step("resync", "idle")
        /\ skew' = [skew EXCEPT
                      ![v] = KeepGuestClock(v, BACKUP_RESYNC_THRESHOLD_SECONDS)]
        /\ monitor' = [monitor EXCEPT ![v] = IF @ = "backup" THEN "free" ELSE @]
        /\ UNCHANGED <<unit, guest, tap, data, boots, left>>
        /\ UNCHANGED <<archive, mount, elsewhere, present>>

\* The finally of the others: a service that was stopped is started again, which
\* waits for a stop that is under way.
StartAgain ==
    LET w == op.workload
        restarts == op.wasActive /\ ~op.noStop
    IN  /\ ~Resumes /\ Step("finally", IF restarts THEN "started" ELSE "idle")
        /\ restarts => unit[w] \notin {"stopping", "ending"}
        /\ IF restarts /\ unit[w] = "inactive"
             THEN Supervise(w)
             ELSE UNCHANGED <<unit, guest, monitor, tap, skew, boots>>
        /\ UNCHANGED <<data, left>>
        /\ UNCHANGED <<archive, mount, elsewhere, present>>

\* Mutant of StartedAgain: it waits for the service to be up.
StartedAgainUp ==
    /\ Step("started", "idle")
    /\ unit[op.workload] = "active"
    /\ UNCHANGED vmVars /\ UNCHANGED <<archive, mount, elsewhere, present>>

\* `systemctl start` returns, the start having failed or not.
StartedAgain ==
    /\ Step("started", "idle")
    /\ unit[op.workload] # "activating"
    /\ UNCHANGED vmVars /\ UNCHANGED <<archive, mount, elsewhere, present>>

\* The command is killed (SIGTERM, SIGHUP or SIGKILL): no finally runs, and the
\* kernel closes its connection to the monitor.
KillBackup ==
    /\ op.pc # "idle"
    /\ Spend("kills")
    /\ op' = NoOp
    /\ monitor' = [monitor EXCEPT
                     ![op.workload] = IF @ = "backup" THEN "free" ELSE @]
    /\ UNCHANGED <<unit, guest, tap, skew, data, boots>>
    /\ UNCHANGED <<archive, mount, elsewhere, present>>

-----------------------------------------------------------------------------
(* Restore *)

\* `restore`: refused without --force while the workload has a config; then
\* `systemctl stop`.
StartRestore(w, force) ==
    /\ At("idle") /\ archive[w] # NoArchive
    /\ present[w] => force
    /\ Spend("archives")
    /\ op' = [NoOp EXCEPT !.pc = "halted", !.workload = w, !.force = force,
                          !.boots = boots[w]]
    /\ unit' = [unit EXCEPT ![w] = StopState(w)]
    /\ UNCHANGED <<guest, monitor, tap, skew, data, boots>>
    /\ UNCHANGED <<archive, mount, elsewhere, present>>

\* The config and the credentials are written before the tree is looked at.
RestoreConfig ==
    /\ Step("config", "guard")
    /\ present' = [present EXCEPT ![op.workload] = TRUE]
    /\ UNCHANGED vmVars /\ UNCHANGED <<archive, mount, elsewhere>>

\* _assert_no_mounts_under, from mountinfo.
MountsUnder(w) == mount[w] \in {"bind_under", "filesystem_under"}

\* _assert_data_dir_is_not_a_mount.
DataDirIsMount(w) == mount[w] \in {"bind_on", "filesystem_on"}

\* A mount, or (a fault) a link out of the archive's tree, ends the restore here.
Guard ==
    LET refused == \/ MountsUnder(op.workload)
                   \/ op.force /\ DataDirIsMount(op.workload)
    IN  /\ \/ Step("guard", IF refused THEN "idle" ELSE "tree") /\ UNCHANGED left
           \/ Step("guard", "idle") /\ Spend("faults")
        /\ UNCHANGED <<unit, guest, monitor, tap, skew, data, boots>>
        /\ UNCHANGED <<archive, mount, elsewhere, present>>

\* rmtree, which follows any mount, with --force; then copytree, which writes
\* through a mount where the archive has a directory.
RestoreTree ==
    LET w == op.workload
    IN  /\ Step("tree", "idle")
        /\ data' = [data EXCEPT ![w] = archive[w].first]
        /\ elsewhere' = [elsewhere EXCEPT ![w] =
                            /\ @
                            /\ op.force => mount[w] = "none"
                            /\ archive[w].under =>
                                 mount[w] \notin {"bind_under", "filesystem_under"}]
        /\ UNCHANGED <<unit, guest, monitor, tap, skew, boots, left>>
        /\ UNCHANGED <<archive, mount, present>>

-----------------------------------------------------------------------------
(* The operator *)

\* A directory is mounted on data/ or under it, at any time but between the guards
\* of a restore and its rmtree.
Mount(w, what) ==
    /\ ~At("tree") /\ mount[w] = "none" /\ what # "none"
    /\ Spend("mounts")
    /\ mount' = [mount EXCEPT ![w] = what]
    /\ UNCHANGED <<unit, guest, monitor, tap, skew, data, boots>>
    /\ UNCHANGED <<op, archive, elsewhere, present>>

\* The workload's config is deleted, its data/ kept.
Forget(w) ==
    /\ At("idle") /\ unit[w] = "inactive" /\ present[w]
    /\ Spend("mounts")
    /\ present' = [present EXCEPT ![w] = FALSE]
    /\ UNCHANGED <<unit, guest, monitor, tap, skew, data, boots>>
    /\ UNCHANGED <<op, archive, mount, elsewhere>>

\* What the command does, failures aside.
BackupStep ==
    \/ Probe \/ Connect \/ ConnectFails \/ Pause \/ PauseFails
    \/ Check \/ Stopped("stopped", "copy")
    \/ Copy \/ CopyOn \/ Tar
    \/ Resume \/ Resync \/ StartAgain \/ StartedAgain
    \/ Stopped("halted", "config") \/ RestoreConfig \/ Guard \/ RestoreTree

BackupNext ==
    \/ BackupStep \/ StopFails \/ CopyFails \/ ResumeFails \/ KillBackup
    \/ \E w \in left.on :
          \/ \E crash \in BOOLEAN : StartBackup(w, crash)
          \/ \E force \in BOOLEAN : StartRestore(w, force)
          \/ \E what \in Mounts : Mount(w, what)
          \/ Forget(w)
=============================================================================
