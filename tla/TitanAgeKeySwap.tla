-------------------------- MODULE TitanAgeKeySwap --------------------------
(***************************************************************************)
(* scripts/titan-age-key-swap.sh: replace the age key that sops-nix reads  *)
(* on titan by the host's own, first installing old and new together, then *)
(* the new one alone, and only then destroying the backup of the old one.  *)
(*                                                                         *)
(* A path holds no key file, {}, or one with a set of identities, {ids}; a *)
(* file that is being written, or that a failing write left, has some of   *)
(* them.  The running generation's titan.yaml is the set of identities     *)
(* that open it.                                                           *)
(* Around the script, comin deploys when it runs, commands fail, a signal  *)
(* may run the trap after any command, and the script or the host may die. *)
(*                                                                         *)
(* Modelled is the run on the host, without --no-activate.  The start of   *)
(* comin at 306 is left to the cleanup that follows it.  Activation of the *)
(* current generation is taken to leave a stopped comin stopped, and       *)
(* switch-to-configuration to exist.                                       *)
(***************************************************************************)
EXTENDS Integers

CONSTANTS
    Identities,     \* the age identities there are
    Titan,          \* the one whose public half is TITAN_RECIPIENT
    Fleet,          \* those that open the fleet's secrets.yaml
    Signals         \* whether INT or TERM may arrive

ASSUME IdentitiesAssumption ==
    /\ Titan \in Identities
    /\ Fleet \subseteq Identities
    /\ Signals \in BOOLEAN

VARIABLES
    pc,         \* the next command of the script, "idle" when it does not run
    rc,         \* the status it is going to exit with, or exited with
    trapped,    \* a signal's trap runs: its `exit` will run the EXIT trap too
    installed,  \* INSTALLED
    saved,      \* BACKUP is not empty
    cominWas,   \* COMIN_WAS_ACTIVE
    keep,       \* KEEP_BACKUP
    cand,       \* the identity in KEY_FILE
    key,        \* the file KEY_DEST
    backup,     \* the file $WORK/previous-key.txt
    kept,       \* the file KEY_DEST.backup
    keyFile,    \* KEY_FILE still exists
    comin,      \* comin runs
    gen,        \* the identities that open the running generation's titan.yaml
    found,      \* history: KEY_DEST when this run started
    foundComin, \* history: comin when this run started
    proved,     \* history: what this run has activated, nothing, both or alone
    faults      \* history: what went wrong in this run

shell == <<installed, saved, cominWas, keep, cand>>
files == <<key, backup, kept, keyFile>>
host == <<comin, gen>>
history == <<found, foundComin, proved>>
vars == <<pc, rc, trapped, shell, files, host, history, faults>>

----------------------------------------------------------------------------
Missing == {}
File(ids) == {ids}
Files == {Missing} \cup {File(ids) : ids \in SUBSET Identities}
\* The identities at a path.
Ids(f) == UNION f
\* What a write of `ids` that fails, or has not ended, may have left.
Torn(ids) == {Missing} \cup {File(part) : part \in SUBSET ids \ {ids}}

Putting == {"putBoth", "putFirst", "putAlone"}
Writing == {"writeBoth", "writeFirst", "writeAlone"}
Activating == {"activateBoth", "activateFirst", "activateAlone"}
Cleaning == {"cleanup", "restore", "copying", "startComin", "systemctl", "wipe"}

TypeOK ==
    /\ pc \in {"idle", "check", "stop", "save", "markBoth", "markFirst", "secrets",
               "drop", "wipeKey"} \cup Putting \cup Writing \cup Activating \cup Cleaning
    /\ rc \in {0, 1}
    /\ trapped \in BOOLEAN
    /\ shell \in BOOLEAN \X BOOLEAN \X BOOLEAN \X BOOLEAN \X Identities
    /\ files \in Files \X Files \X Files \X BOOLEAN
    /\ host \in BOOLEAN \X SUBSET Identities
    /\ history \in Files \X BOOLEAN \X {"nothing", "both", "alone"}
    /\ faults \subseteq {"write", "signal", "kill", "stop", "start"}

Init ==
    /\ pc = "idle"
    /\ rc = 1
    /\ trapped = FALSE
    /\ installed = FALSE
    /\ saved = FALSE
    /\ cominWas = FALSE
    /\ keep = FALSE
    /\ cand = Titan
    /\ key \in Files \ {File({})}
    /\ backup = Missing
    /\ kept = Missing
    /\ keyFile = FALSE
    /\ comin \in BOOLEAN
    /\ gen \in SUBSET Identities
    /\ found = key
    /\ foundComin = comin
    /\ proved = "nothing"
    /\ faults = {}

----------------------------------------------------------------------------
Goto(p) == pc' = p /\ UNCHANGED <<rc, trapped>>
MutDie == pc' = "cleanup" /\ rc' = 2 /\ UNCHANGED trapped
\* die, or a command that set -e ends the script for: the EXIT trap runs.
Die == pc' = "cleanup" /\ rc' = 1 /\ UNCHANGED trapped
Fault(f) == faults' = faults \cup {f}

\* A run, from an operator who has put a candidate key in place.
Start(c, k) ==
    /\ pc = "idle"
    /\ pc' = "check"
    /\ rc' = 0
    /\ trapped' = FALSE
    /\ installed' = FALSE
    /\ saved' = FALSE
    /\ cominWas' = FALSE
    /\ keep' = k
    /\ cand' = c
    /\ keyFile' = TRUE
    /\ backup' = Missing
    /\ found' = key
    /\ foundComin' = comin
    /\ proved' = "nothing"
    /\ faults' = {}
    /\ UNCHANGED <<key, kept, host>>

\* The recipient, and that it does not open secrets.yaml; whether it opens the
\* deployed titan.yaml is skipped when the closure cannot be searched.
Accepted(skip) == cand = Titan /\ cand \notin Fleet /\ (skip \/ cand \in gen)

CheckCandidate ==
    /\ pc = "check"
    /\ \E skip \in BOOLEAN : Accepted(skip)
    /\ Goto("stop")
    /\ UNCHANGED <<shell, files, host, history, faults>>

\* Any check may refuse, that of the repository's own titan.yaml included.
RefuseCandidate ==
    /\ pc = "check"
    /\ Die
    /\ UNCHANGED <<shell, files, host, history, faults>>

MutStopComin ==
    /\ pc = "stop"
    /\ Goto("save")
    /\ cominWas' = comin
    /\ UNCHANGED <<comin, gen, installed, saved, keep, cand, files, history, faults>>

\* stop_comin; a failing systemctl is ignored.
StopComin ==
    /\ pc = "stop"
    /\ Goto("save")
    /\ cominWas' = comin
    /\ \/ comin' = FALSE /\ UNCHANGED faults
       \/ comin /\ Fault("stop") /\ UNCHANGED comin
    /\ UNCHANGED <<gen, installed, saved, keep, cand, files, history>>

Save ==
    /\ pc = "save"
    /\ IF key = Missing
         THEN Goto("putFirst") /\ UNCHANGED <<saved, backup>>
         ELSE Goto("putBoth") /\ saved' = TRUE /\ backup' = key
    /\ UNCHANGED <<installed, cominWas, keep, cand, key, kept, keyFile, host, history,
                   faults>>

SaveFails ==
    /\ pc = "save"
    /\ key # Missing
    /\ Die
    /\ saved' = TRUE
    /\ backup' \in Torn(Ids(key))
    /\ Fault("write")
    /\ UNCHANGED <<installed, cominWas, keep, cand, key, kept, keyFile, host, history>>

----------------------------------------------------------------------------
MutWritten == {cand}

\* Both keys are written when there is a previous one, then the candidate alone.
Written == IF pc = "writeBoth" THEN Ids(backup) \cup {cand} ELSE {cand}

\* put_key is not atomic: install unlinks KEY_DEST, cp truncates it.
PutKey ==
    /\ pc \in Putting
    /\ Goto(IF pc = "putBoth" THEN "writeBoth"
            ELSE IF pc = "putFirst" THEN "writeFirst" ELSE "writeAlone")
    /\ key' \in {Missing, File({})}
    /\ UNCHANGED <<shell, backup, kept, keyFile, host, history, faults>>

KeyWritten ==
    /\ pc \in Writing
    /\ Goto(IF pc = "writeBoth" THEN "markBoth"
            ELSE IF pc = "writeFirst" THEN "markFirst" ELSE "activateAlone")
    /\ key' = File(Written)
    /\ UNCHANGED <<shell, backup, kept, keyFile, host, history, faults>>

\* Neither install nor cp writes all of it, or the checksums differ.
PutKeyFails ==
    /\ pc \in Writing
    /\ Die
    /\ key' \in Torn(Written)
    /\ Fault("write")
    /\ UNCHANGED <<shell, backup, kept, keyFile, host, history>>

MutMarkInstalled ==
    /\ pc \in {"markBoth", "markFirst"}
    /\ Goto(IF pc = "markBoth" THEN "activateBoth" ELSE "activateFirst")
    /\ UNCHANGED <<shell, files, host, history, faults>>

\* INSTALLED=1, after put_key has returned.
MarkInstalled ==
    /\ pc \in {"markBoth", "markFirst"}
    /\ Goto(IF pc = "markBoth" THEN "activateBoth" ELSE "activateFirst")
    /\ installed' = TRUE
    /\ UNCHANGED <<saved, cominWas, keep, cand, files, host, history, faults>>

----------------------------------------------------------------------------
MutActivationSucceeds ==
    /\ pc \in Activating
    /\ Ids(key) \cap gen # {}
    /\ Goto(IF pc = "activateAlone" THEN "drop" ELSE "putAlone")
    /\ proved' = IF pc = "activateBoth" THEN "both" ELSE proved
    /\ UNCHANGED <<shell, files, host, found, foundComin, faults>>

\* sops-nix decrypts during activation.
ActivationSucceeds ==
    /\ pc \in Activating
    /\ Ids(key) \cap gen # {}
    /\ Goto(IF pc = "activateAlone" THEN "secrets" ELSE "putAlone")
    /\ proved' = IF pc = "activateBoth" THEN "both" ELSE proved
    /\ UNCHANGED <<shell, files, host, found, foundComin, faults>>

ActivationFails ==
    /\ pc \in Activating
    /\ Die
    /\ UNCHANGED <<shell, files, host, history, faults>>

SecretsPresent ==
    /\ pc = "secrets"
    /\ Goto("drop")
    /\ proved' = "alone"
    /\ UNCHANGED <<shell, files, host, found, foundComin, faults>>

SecretsMissing ==
    /\ pc = "secrets"
    /\ Die
    /\ UNCHANGED <<shell, files, host, history, faults>>

----------------------------------------------------------------------------
MutDropBackup ==
    /\ pc = "drop"
    /\ Goto("wipeKey")
    /\ backup' = IF keep THEN backup ELSE Missing
    /\ saved' = FALSE
    /\ UNCHANGED <<installed, cominWas, keep, cand, key, kept, keyFile, host, history,
                   faults>>

\* --keep-backup moves the old key (without one, the mv fails and nothing
\* happens), the default shreds it.
DropBackup ==
    /\ pc = "drop"
    /\ Goto("wipeKey")
    /\ kept' = IF keep /\ saved THEN backup ELSE kept
    /\ backup' = Missing
    /\ saved' = FALSE
    /\ UNCHANGED <<installed, cominWas, keep, cand, key, keyFile, host, history, faults>>

\* A failing mv does not end the script (it is the left of an `&&`), a failing
\* wipe does.
DropBackupFails ==
    /\ pc = "drop"
    /\ saved
    /\ Fault("write")
    /\ IF keep THEN Goto("wipeKey") /\ saved' = FALSE
               ELSE Die /\ UNCHANGED saved
    /\ UNCHANGED <<installed, cominWas, keep, cand, files, host, history>>

WipeKey ==
    /\ pc = "wipeKey"
    /\ Goto("cleanup")
    /\ keyFile' = FALSE
    /\ UNCHANGED <<shell, key, backup, kept, host, history, faults>>

WipeKeyFails ==
    /\ pc = "wipeKey"
    /\ Die
    /\ Fault("write")
    /\ UNCHANGED <<shell, files, host, history>>

----------------------------------------------------------------------------
\* cleanup: a failed run that had installed something restores the backup.
Cleanup ==
    /\ pc = "cleanup"
    /\ Goto(IF rc = 1 /\ installed /\ saved THEN "restore" ELSE "startComin")
    /\ UNCHANGED <<shell, files, host, history, faults>>

\* cp truncates KEY_DEST, unless there is nothing to copy.
Restore ==
    /\ pc = "restore"
    /\ IF backup = Missing
         THEN Goto("startComin") /\ UNCHANGED key
         ELSE Goto("copying") /\ key' = File({})
    /\ UNCHANGED <<shell, backup, kept, keyFile, host, history, faults>>

\* The activation after it changes nothing here, and its result is ignored.
Restored ==
    /\ pc = "copying"
    /\ Goto("startComin")
    /\ key' = backup
    /\ UNCHANGED <<shell, backup, kept, keyFile, host, history, faults>>

RestoreFails ==
    /\ pc = "copying"
    /\ Goto("startComin")
    /\ key' \in Torn(Ids(backup)) \ {Missing}
    /\ Fault("write")
    /\ UNCHANGED <<shell, backup, kept, keyFile, host, history>>

MutStartComin ==
    /\ pc = "startComin"
    /\ Goto("wipe")
    /\ UNCHANGED <<shell, files, host, history, faults>>

\* start_comin clears COMIN_WAS_ACTIVE before it calls systemctl.
StartComin ==
    /\ pc = "startComin"
    /\ Goto(IF cominWas THEN "systemctl" ELSE "wipe")
    /\ cominWas' = FALSE
    /\ UNCHANGED <<installed, saved, keep, cand, files, host, history, faults>>

Systemctl ==
    /\ pc = "systemctl"
    /\ Goto("wipe")
    /\ \/ comin' = TRUE /\ UNCHANGED faults
       \/ Fault("start") /\ UNCHANGED comin
    /\ UNCHANGED <<shell, files, gen, history>>

\* After the wiping, the `exit` of a signal's trap runs the EXIT trap.
Exit == trapped' = FALSE /\ pc' = IF trapped THEN "cleanup" ELSE "idle"

Wipe ==
    /\ pc = "wipe"
    /\ Exit
    /\ backup' = Missing
    /\ UNCHANGED <<rc, shell, key, kept, keyFile, host, history, faults>>

\* set -e ends the trap with the status of the failing wipe.
WipeFails ==
    /\ pc = "wipe"
    /\ backup # Missing
    /\ Exit
    /\ rc' = 1
    /\ Fault("write")
    /\ UNCHANGED <<shell, files, host, history>>

----------------------------------------------------------------------------
\* The trap of a signal runs between two commands; its `rc=$?` is the status of
\* the one before.
Signal ==
    /\ Signals
    /\ pc \notin {"idle", "copying"} \cup Writing
    /\ pc' = "cleanup"
    /\ rc' \in {0, 1}
    /\ trapped' = (trapped \/ pc \notin Cleaning)
    /\ Fault("signal")
    /\ UNCHANGED <<shell, files, host, history>>

\* ^C also kills a command that is writing; the trap finds its status.
Interrupt ==
    /\ Signals
    /\ pc \in {"copying"} \cup Writing
    /\ pc' = "cleanup"
    /\ rc' = 1
    /\ trapped' = (trapped \/ pc # "copying")
    /\ key' \in Torn(IF pc = "copying" THEN Ids(backup) ELSE Written)
    /\ faults' = faults \cup {"signal", "write"}
    /\ UNCHANGED <<shell, backup, kept, keyFile, host, history>>

\* SIGKILL: no trap runs.
Kill ==
    /\ pc # "idle"
    /\ Goto("idle")
    /\ Fault("kill")
    /\ UNCHANGED <<shell, files, host, history>>

\* /run is empty afterwards, and systemd starts comin.
Reboot ==
    /\ Goto("idle")
    /\ keyFile' = FALSE
    /\ comin' = TRUE
    /\ faults' = IF pc = "idle" THEN faults ELSE faults \cup {"kill"}
    /\ UNCHANGED <<shell, key, backup, kept, gen, history>>

\* comin activates a generation of its choice with the key it finds.
CominDeploys ==
    /\ comin
    /\ gen' \in SUBSET Identities
    /\ UNCHANGED <<pc, rc, trapped, shell, files, comin, history, faults>>

----------------------------------------------------------------------------
Script ==
    \/ CheckCandidate \/ RefuseCandidate \/ StopComin \/ Save \/ SaveFails
    \/ PutKey \/ KeyWritten \/ PutKeyFails \/ MarkInstalled
    \/ ActivationSucceeds \/ ActivationFails \/ SecretsPresent \/ SecretsMissing
    \/ DropBackup \/ DropBackupFails \/ WipeKey \/ WipeKeyFails

Trap ==
    \/ Cleanup \/ Restore \/ Restored \/ RestoreFails
    \/ StartComin \/ Systemctl \/ Wipe \/ WipeFails

Next ==
    \/ \E c \in Identities, k \in BOOLEAN : Start(c, k)
    \/ Script
    \/ Trap
    \/ Signal
    \/ Interrupt
    \/ Kill
    \/ Reboot
    \/ CominDeploys

Spec == Init /\ [][Next]_vars

----------------------------------------------------------------------------
Spared(S) == faults \cap S = {}
Ended == pc = "idle" /\ Spared({"kill"})

\* "A failure at any point restores the previous key and re-activates, so a
\* non-zero exit means the host is exactly as it was" (hosts/titan/README.md
\* 353).  On a host without a key there is no previous one.
FailureRestores == Ended /\ rc = 1 /\ found # Missing => key = found

\* As long as no write fails and no signal comes, it does (cleanup 179-183),
\* whichever check or activation failed.
FailureRestoresUnlessWriteFails == Spared({"write", "signal"}) => FailureRestores

\* Until an activation with both keys was healthy, and as long as no write fails
\* or is cut short by ^C, every identity the host had is in the key file or in a
\* copy beside it, through signals, a killed script and a reboot, whatever is
\* half-written ("the host's only path to its own secrets", 10-14).
OldKeyInReach ==
    Spared({"write"}) /\ proved = "nothing" /\ found # Missing
      => Ids(found) \subseteq Ids(key) \cup Ids(backup)

\* A run that nothing interrupts destroys the old key only after the new one was
\* activated alone with every secret in place (277-304).
DestroyedOnlyWhenProved ==
    Spared({"write", "signal"}) /\ ~(Ids(found) \subseteq Ids(key) \cup Ids(backup) \cup Ids(kept))
      => proved = "alone"

\* A run that reports success has narrowed the host to Titan's identity, proved
\* on its own, has shredded its input, and has kept or destroyed the old key as
\* told ("refuses to report success until it has proved each thing", 8).
SuccessIsProved ==
    Ended /\ rc = 0 /\ Spared({"write", "signal"}) =>
      /\ key = File({Titan})
      /\ Ids(key) \cap Fleet = {}
      /\ proved = "alone"
      /\ ~keyFile
      /\ backup = Missing
      /\ keep /\ found # Missing => kept = found

\* comin never activates while the key file is half-written, if systemctl stops
\* it and no signal makes the cleanup run twice (stop_comin 151-164).
CominSeesWholeKeys ==
    [][gen' # gen /\ Spared({"stop", "signal"}) => pc \notin Writing \cup {"copying"}]_vars

\* However the script ends, comin runs again if it ran before (start_comin 165,
\* 188), unless systemctl fails or a signal hits start_comin.
CominPutBack == Ended /\ Spared({"start", "signal"}) => comin \/ ~foundComin
=============================================================================
