---------------------- MODULE TitanAgeKeySwap_proofs ----------------------
(***************************************************************************)
(* Proofs about the swap of titan's age key, for any identities and any    *)
(* key file to start from.                                                 *)
(***************************************************************************)
EXTENDS TitanAgeKeySwap, TLAPS

\* A path with no file has no identities, one with a file those of the file.
LEMMA IdsOf == Ids(Missing) = {} /\ \A S : Ids(File(S)) = S
BY DEF Ids, Missing, File

----------------------------------------------------------------------------
(* Types, in groups that change for different reasons. *)

CommandType ==
    pc \in {"idle", "check", "stop", "save", "markBoth", "markFirst", "secrets",
            "drop", "wipeKey"} \cup Putting \cup Writing \cup Activating \cup Cleaning

FlagTypes ==
    /\ trapped \in BOOLEAN /\ installed \in BOOLEAN /\ saved \in BOOLEAN
    /\ cominWas \in BOOLEAN /\ keep \in BOOLEAN /\ keyFile \in BOOLEAN
    /\ comin \in BOOLEAN /\ foundComin \in BOOLEAN

ValueTypes ==
    /\ rc \in {0, 1}
    /\ cand \in Identities
    /\ gen \in SUBSET Identities
    /\ proved \in {"nothing", "both", "alone"}
    /\ faults \subseteq {"write", "signal", "kill", "stop", "start"}

FileTypes == key \in Files /\ backup \in Files /\ kept \in Files /\ found \in Files

LEMMA CommandStep == ASSUME CommandType, [Next]_vars PROVE CommandType'
<1> USE DEF CommandType, Cleaning, Goto, Die, Fault, shell, files, host, history
<1>1. CASE Script
  BY <1>1 DEF Script, CheckCandidate, RefuseCandidate, StopComin, Save, SaveFails,
     PutKey, KeyWritten, PutKeyFails, MarkInstalled, ActivationSucceeds, ActivationFails,
     SecretsPresent, SecretsMissing, DropBackup, DropBackupFails, WipeKey, WipeKeyFails, Putting, Writing, Activating
<1>2. CASE Trap
  BY <1>2 DEF Trap, Cleanup, Restore, Restored, RestoreFails, StartComin, Systemctl, Wipe,
     WipeFails, Exit
<1>3. QED
  BY <1>1, <1>2 DEF vars, Next, Start, Signal, Interrupt, Kill, Reboot, CominDeploys

LEMMA FlagStep == ASSUME FlagTypes, [Next]_vars PROVE FlagTypes'
<1> USE DEF FlagTypes, Goto, Die, Fault, shell, files, host, history
<1>1. CASE Script
  <2>1. CASE CheckCandidate \/ RefuseCandidate \/ StopComin \/ Save \/ SaveFails
    BY <2>1 DEF CheckCandidate, RefuseCandidate, StopComin, Save, SaveFails
  <2>2. CASE PutKey \/ KeyWritten \/ PutKeyFails \/ MarkInstalled
    BY <2>2 DEF PutKey, KeyWritten, PutKeyFails, MarkInstalled
  <2>3. CASE ActivationSucceeds \/ ActivationFails \/ SecretsPresent \/ SecretsMissing
    BY <2>3 DEF ActivationSucceeds, ActivationFails, SecretsPresent, SecretsMissing
  <2>4. CASE DropBackup \/ DropBackupFails \/ WipeKey \/ WipeKeyFails
    BY <2>4 DEF DropBackup, DropBackupFails, WipeKey, WipeKeyFails
  <2>5. QED
    BY <1>1, <2>1, <2>2, <2>3, <2>4 DEF Script
<1>2. CASE Trap
  BY <1>2 DEF Trap, Cleanup, Restore, Restored, RestoreFails, StartComin, Systemctl, Wipe,
     WipeFails, Exit
<1>3. CASE Signal \/ Interrupt
  BY <1>3 DEF Signal, Interrupt
<1>4. CASE Kill \/ Reboot \/ CominDeploys \/ UNCHANGED vars
  BY <1>4 DEF Kill, Reboot, CominDeploys, vars
<1>5. ASSUME NEW c \in Identities, NEW k \in BOOLEAN, Start(c, k) PROVE FlagTypes'
  BY <1>5 DEF Start
<1>6. QED
  BY <1>1, <1>2, <1>3, <1>4, <1>5 DEF Next

LEMMA ValueStep == ASSUME ValueTypes, [Next]_vars PROVE ValueTypes'
<1> USE DEF ValueTypes, Goto, Die, Fault, shell, files, host, history
<1>1. CASE Script
  BY <1>1 DEF Script, CheckCandidate, RefuseCandidate, StopComin, Save, SaveFails,
     PutKey, KeyWritten, PutKeyFails, MarkInstalled, ActivationSucceeds, ActivationFails,
     SecretsPresent, SecretsMissing, DropBackup, DropBackupFails, WipeKey, WipeKeyFails
<1>2. CASE Trap
  BY <1>2 DEF Trap, Cleanup, Restore, Restored, RestoreFails, StartComin, Systemctl, Wipe,
     WipeFails, Exit
<1>3. QED
  BY <1>1, <1>2 DEF vars, Next, Start, Signal, Interrupt, Kill, Reboot, CominDeploys

\* What is written, in full or in part, is a file of identities, or none.
LEMMA WritesFiles ==
    /\ Missing \in Files
    /\ \A f \in Files : Ids(f) \in SUBSET Identities
    /\ \A ids \in SUBSET Identities : File(ids) \in Files /\ Torn(ids) \subseteq Files
<1>1. \A f \in Files : Ids(f) \in SUBSET Identities
  BY IdsOf DEF Files
<1>2. \A ids \in SUBSET Identities : \A part \in SUBSET ids \ {ids} : part \in SUBSET Identities
  OBVIOUS
<1>3. QED
  BY <1>1, <1>2 DEF Files, Torn

LEMMA FileStep == ASSUME FileTypes, cand \in Identities, [Next]_vars PROVE FileTypes'
<1> USE DEF FileTypes, shell, files, host, history
<1>1. Ids(key) \in SUBSET Identities /\ Ids(backup) \in SUBSET Identities
  BY WritesFiles
<1>2. Written \in SUBSET Identities
  BY <1>1 DEF Written
<1>3. Missing \in Files /\ File({}) \in Files /\ File(Written) \in Files
  BY <1>2, WritesFiles
<1>4. /\ Torn(Written) \subseteq Files
      /\ Torn(Ids(key)) \subseteq Files
      /\ Torn(Ids(backup)) \subseteq Files
  BY <1>1, <1>2, WritesFiles
<1>5. CASE Script
  BY <1>3, <1>4, <1>5 DEF Script, CheckCandidate, RefuseCandidate, StopComin, Save, SaveFails,
     PutKey, KeyWritten, PutKeyFails, MarkInstalled, ActivationSucceeds, ActivationFails,
     SecretsPresent, SecretsMissing, DropBackup, DropBackupFails, WipeKey, WipeKeyFails
<1>6. CASE Trap
  BY <1>3, <1>4, <1>6 DEF Trap, Cleanup, Restore, Restored, RestoreFails, StartComin, Systemctl, Wipe,
     WipeFails, Exit
<1>7. CASE Interrupt
  BY <1>4, <1>7 DEF Interrupt
<1>8. QED
  BY <1>3, <1>5, <1>6, <1>7 DEF vars, Next, Start, Signal, Kill, Reboot, CominDeploys

\* Every variable keeps its type, whatever fails, is killed or interrupted.
THEOREM SwapTypeCorrect == Spec => []TypeOK
<1> DEFINE Types == CommandType /\ FlagTypes /\ ValueTypes /\ FileTypes
<1>1. Init => Types
  BY WritesFiles, IdentitiesAssumption
     DEF Init, CommandType, FlagTypes, ValueTypes, FileTypes
<1>2. Types /\ [Next]_vars => Types'
  <2>1. ValueTypes => cand \in Identities
    BY DEF ValueTypes
  <2>2. QED
    BY <2>1, CommandStep, FlagStep, ValueStep, FileStep
<1>3. Types => TypeOK
  BY DEF CommandType, FlagTypes, ValueTypes, FileTypes, TypeOK, shell, files, host, history
<1>4. QED
  BY <1>1, <1>2, <1>3, PTL DEF Spec

----------------------------------------------------------------------------
(* The key that was there is in reach until both keys were activated. *)

\* How far a run may be that has not activated both keys.
EarlyPc == {"idle", "check", "stop", "save", "putBoth", "writeBoth", "markBoth",
            "activateBoth"} \cup Cleaning

\* Where the old key is at each command, while no write has failed and nothing
\* was activated: in the file until it is rewritten, and in the backup from then on.
ReachInv ==
    Spared({"write"}) /\ proved = "nothing" /\ found # Missing =>
      /\ pc \in EarlyPc
      /\ backup \in {Missing, found}
      /\ pc \in {"putBoth", "writeBoth", "markBoth", "activateBoth", "copying"} => backup = found
      /\ pc \in {"check", "stop", "save"} => key = found
      /\ pc \notin {"writeBoth", "copying", "idle"} => Ids(found) \subseteq Ids(key)
      /\ Ids(found) \subseteq Ids(key) \cup Ids(backup)

\* Every step keeps it.
LEMMA ReachStep == ReachInv /\ [Next]_vars => ReachInv'
<1> SUFFICES ASSUME ReachInv, [Next]_vars PROVE ReachInv'
  OBVIOUS
<1> USE DEF ReachInv, EarlyPc, Cleaning, Spared, Fault, Goto, Die, files, host, shell, history
<1>1. CASE UNCHANGED vars
  BY <1>1 DEF vars, Ids
<1>2. ASSUME NEW c \in Identities, NEW k \in BOOLEAN, Start(c, k) PROVE ReachInv'
  BY <1>2, IdsOf DEF Start, Ids
<1>3. CASE Script
  <2>1. CASE CheckCandidate \/ RefuseCandidate \/ StopComin
    BY <2>1 DEF CheckCandidate, RefuseCandidate, StopComin, Ids
  <2>2. CASE Save \/ SaveFails
    BY <2>2 DEF Save, SaveFails, Ids
  <2>3. CASE PutKey
    BY <2>3 DEF PutKey, Putting, Ids
  <2>4. CASE KeyWritten
    <3>1. Ids(key') = Written
      BY <2>4, IdsOf DEF KeyWritten
    <3>2. QED
      BY <2>4, <3>1 DEF KeyWritten, Writing, Written, Ids
  <2>5. CASE PutKeyFails \/ SaveFails \/ DropBackupFails \/ WipeKeyFails
    BY <2>5 DEF PutKeyFails, SaveFails, DropBackupFails, WipeKeyFails
  <2>6. CASE MarkInstalled
    BY <2>6 DEF MarkInstalled, Ids
  <2>7. CASE ActivationSucceeds \/ ActivationFails
    BY <2>7 DEF ActivationSucceeds, ActivationFails, Activating, Ids
  <2>8. CASE SecretsPresent \/ SecretsMissing \/ DropBackup \/ WipeKey
    BY <2>8 DEF SecretsPresent, SecretsMissing, DropBackup, WipeKey
  <2>9. QED
    BY <1>3, <2>1, <2>2, <2>3, <2>4, <2>5, <2>6, <2>7, <2>8 DEF Script
<1>4. CASE Trap
  <2>1. CASE Cleanup \/ StartComin \/ Systemctl
    BY <2>1 DEF Cleanup, StartComin, Systemctl, Ids
  <2>2. CASE Restore
    BY <2>2, IdsOf DEF Restore, Ids
  <2>3. CASE Restored \/ RestoreFails
    BY <2>3 DEF Restored, RestoreFails, Ids
  <2>4. CASE Wipe \/ WipeFails
    BY <2>4, IdsOf DEF Wipe, WipeFails, Exit, Ids
  <2>5. QED
    BY <1>4, <2>1, <2>2, <2>3, <2>4 DEF Trap
<1>5. CASE Signal \/ Interrupt
  BY <1>5 DEF Signal, Interrupt, Writing, Ids
<1>6. CASE Kill \/ Reboot \/ CominDeploys
  BY <1>6 DEF Kill, Reboot, CominDeploys, Ids
<1>7. QED
  BY <1>1, <1>2, <1>3, <1>4, <1>5, <1>6 DEF Next

\* Whatever fails, is killed or interrupted, short of a failing write: until the
\* host has activated with both keys, the key it had is in KEY_DEST or in the
\* backup, also while KEY_DEST is being rewritten.
THEOREM OldKeyStaysInReach == Spec => []OldKeyInReach
<1>1. Init => ReachInv
  BY IdsOf DEF Init, ReachInv, EarlyPc, Cleaning, Spared, Ids
<1>2. ReachInv => OldKeyInReach
  BY DEF ReachInv, OldKeyInReach
<1>3. QED
  BY <1>1, <1>2, ReachStep, PTL DEF Spec

----------------------------------------------------------------------------
(* What a run that no write failure and no signal disturbs does. *)

\* The commands before the backup, and those from there to its end.
Before == {"check", "stop", "save"}
Backed == {"markBoth", "markFirst", "secrets", "drop"} \cup Putting \cup Writing
          \cup Activating

\* What the run is for has been done.
Done ==
    /\ key = File({Titan})
    /\ Titan \notin Fleet
    /\ proved = "alone"
    /\ backup = Missing
    /\ keep /\ found # Missing => kept = found

\* The phases of such a run, in the order of the script.
RunInv ==
    Spared({"write", "signal"}) =>
      /\ rc \in {0, 1}
      /\ ~trapped
      /\ pc # "idle" => Spared({"kill"})
      /\ pc \in Before \cup Backed \cup {"wipeKey"} => rc = 0
      /\ pc \in Before => key = found /\ backup = Missing /\ ~installed /\ ~saved
      /\ pc \in {"stop", "save", "wipeKey"} \cup Backed => cand = Titan /\ Titan \notin Fleet
      /\ pc \in Backed => backup = found /\ (saved <=> found # Missing)
      /\ pc \in {"activateBoth", "activateFirst", "putAlone", "writeAlone", "activateAlone",
                 "secrets", "drop"} => installed
      /\ pc \in {"activateAlone", "secrets", "drop"} => key = File({cand})
      /\ pc = "drop" => proved = "alone"
      /\ pc = "wipeKey" => Done
      /\ pc \in Cleaning \cup {"idle"} /\ rc = 0 /\ Spared({"kill"}) => Done /\ ~keyFile
      /\ pc = "cleanup" /\ rc = 1 =>
           IF installed /\ saved THEN backup = found ELSE found \in {key, Missing}
      /\ pc \in {"restore", "copying"} => rc = 1 /\ backup = found
      /\ pc \in {"startComin", "systemctl", "wipe", "idle"} /\ rc = 1 /\ found # Missing
           /\ Spared({"kill"}) => key = found
      /\ proved # "alone" => Ids(found) \subseteq Ids(key) \cup Ids(backup)

\* Every step keeps the phases.
LEMMA RunStep == RunInv /\ [Next]_vars => RunInv'
<1> SUFFICES ASSUME RunInv, [Next]_vars PROVE RunInv'
  OBVIOUS
<1> USE DEF RunInv, Done, Before, Backed, Cleaning, Putting, Writing, Activating, Spared,
        Fault, Goto, Die, files, host, shell, history
<1>1. CASE UNCHANGED vars
  BY <1>1 DEF vars, Ids
<1>2. ASSUME NEW c \in Identities, NEW k \in BOOLEAN, Start(c, k) PROVE RunInv'
  BY <1>2, IdsOf DEF Start, Ids
<1>3. CASE Script
  <2>1. CASE CheckCandidate \/ RefuseCandidate
    BY <2>1 DEF CheckCandidate, RefuseCandidate, Accepted, Ids
  <2>2. CASE StopComin
    BY <2>2 DEF StopComin, Ids
  <2>3. CASE Save
    BY <2>3 DEF Save, Ids
  <2>4. CASE PutKey
    BY <2>4 DEF PutKey, Ids
  <2>5. CASE KeyWritten
    BY <2>5 DEF KeyWritten, Written, Ids
  <2>6. CASE PutKeyFails \/ SaveFails \/ DropBackupFails \/ WipeKeyFails
    BY <2>6 DEF PutKeyFails, SaveFails, DropBackupFails, WipeKeyFails
  <2>7. CASE MarkInstalled
    BY <2>7 DEF MarkInstalled, Ids
  <2>8. CASE ActivationSucceeds
    BY <2>8 DEF ActivationSucceeds, Ids
  <2>9. CASE ActivationFails
    BY <2>9 DEF ActivationFails, Ids
  <2>10. CASE SecretsPresent \/ SecretsMissing
    BY <2>10 DEF SecretsPresent, SecretsMissing, Ids
  <2>11. CASE DropBackup \/ WipeKey
    BY <2>11 DEF DropBackup, WipeKey, Ids
  <2>12. QED
    BY <1>3, <2>1, <2>2, <2>3, <2>4, <2>5, <2>6, <2>7, <2>8, <2>9, <2>10, <2>11 DEF Script
<1>4. CASE Trap
  <2>1. CASE Cleanup
    BY <2>1 DEF Cleanup, Ids
  <2>2. CASE Restore
    BY <2>2 DEF Restore, Ids
  <2>3. CASE Restored \/ RestoreFails
    BY <2>3 DEF Restored, RestoreFails, Ids
  <2>4. CASE StartComin \/ Systemctl
    BY <2>4 DEF StartComin, Systemctl, Ids
  <2>5. CASE Wipe \/ WipeFails
    BY <2>5 DEF Wipe, WipeFails, Exit, Ids
  <2>6. QED
    BY <1>4, <2>1, <2>2, <2>3, <2>4, <2>5 DEF Trap
<1>5. CASE Signal \/ Interrupt
  BY <1>5 DEF Signal, Interrupt
<1>6. CASE Kill
  BY <1>6 DEF Kill, Ids
<1>7. CASE Reboot
  BY <1>7 DEF Reboot, Ids
<1>8. CASE CominDeploys
  BY <1>8 DEF CominDeploys, Ids
<1>9. QED
  BY <1>1, <1>2, <1>3, <1>4, <1>5, <1>6, <1>7, <1>8 DEF Next

LEMMA RunInvariant == Spec => []RunInv
<1>1. Init => RunInv
  BY DEF Init, RunInv, Done, Before, Backed, Cleaning, Putting, Writing, Activating, Spared, Ids
<1>2. QED
  BY <1>1, RunStep, PTL DEF Spec

\* If no write fails and no signal comes, a run that exits with a failure leaves
\* the key file as it was, whichever command failed.
THEOREM FailedRunsRestore == Spec => []FailureRestoresUnlessWriteFails
<1>1. RunInv => FailureRestoresUnlessWriteFails
  BY DEF RunInv, FailureRestoresUnlessWriteFails, FailureRestores, Ended, Spared
<1>2. QED
  BY <1>1, RunInvariant, PTL

\* If no write fails and no signal comes, the old key disappears only after the
\* new one was activated alone, also when the script or the host dies.
THEOREM OldKeyDestroyedLast == Spec => []DestroyedOnlyWhenProved
<1>1. RunInv => DestroyedOnlyWhenProved
  BY DEF RunInv, DestroyedOnlyWhenProved, Spared
<1>2. QED
  BY <1>1, RunInvariant, PTL

\* A success that no signal and no failing write forged is one that was proved.
THEOREM SuccessMeansProved == Spec => []SuccessIsProved
<1>1. RunInv => SuccessIsProved
  BY IdsOf DEF RunInv, Done, Cleaning, SuccessIsProved, Ended, Spared
<1>2. QED
  BY <1>1, RunInvariant, PTL

----------------------------------------------------------------------------
(* comin and the key file. *)

\* Between stop_comin and the end of the restore comin is stopped, and a cleanup
\* that comes before it has nothing to restore.
CominInv ==
    Spared({"stop", "signal"}) =>
      /\ ~trapped
      /\ pc \in {"check", "stop"} => ~installed
      /\ pc \in {"save", "wipeKey", "restore", "copying"} \cup Backed => ~comin
      /\ pc = "cleanup" /\ comin => ~installed

\* Every step keeps it.
LEMMA CominStep == CominInv /\ [Next]_vars => CominInv'
<1> SUFFICES ASSUME CominInv, [Next]_vars PROVE CominInv'
  OBVIOUS
<1> USE DEF CominInv, Backed, Cleaning, Putting, Writing, Activating, Spared, Fault, Goto,
        Die, files, host, shell, history
<1>1. CASE UNCHANGED vars
  BY <1>1 DEF vars
<1>2. ASSUME NEW c \in Identities, NEW k \in BOOLEAN, Start(c, k) PROVE CominInv'
  BY <1>2 DEF Start
<1>3. CASE Script
  BY <1>3 DEF Script, CheckCandidate, RefuseCandidate, StopComin, Save, SaveFails, PutKey,
     KeyWritten, PutKeyFails, MarkInstalled, ActivationSucceeds, ActivationFails,
     SecretsPresent, SecretsMissing, DropBackup, DropBackupFails, WipeKey, WipeKeyFails
<1>4. CASE Trap
  BY <1>4 DEF Trap, Cleanup, Restore, Restored, RestoreFails, StartComin, Systemctl, Wipe,
     WipeFails, Exit
<1>5. CASE Signal \/ Interrupt \/ Kill \/ Reboot \/ CominDeploys
  BY <1>5 DEF Signal, Interrupt, Kill, Reboot, CominDeploys
<1>6. QED
  BY <1>1, <1>2, <1>3, <1>4, <1>5 DEF Next

\* If systemctl stops comin and no signal comes, comin never deploys while the
\* key file is half-written, whatever else fails.
THEOREM CominNeverReadsHalfAKey == Spec => CominSeesWholeKeys
<1>1. Init => CominInv
  BY DEF Init, CominInv, Backed, Putting, Writing, Activating, Spared
<1>2. CominInv /\ [Next]_vars =>
      [gen' # gen /\ Spared({"stop", "signal"}) => pc \notin Writing \cup {"copying"}]_vars
  <2> SUFFICES ASSUME CominInv, Next, gen' # gen, Spared({"stop", "signal"})
               PROVE  pc \notin Writing \cup {"copying"}
    OBVIOUS
  <2>1. comin
    BY DEF Next, Start, Script, CheckCandidate, RefuseCandidate, StopComin, Save, SaveFails,
       PutKey, KeyWritten, PutKeyFails, MarkInstalled, ActivationSucceeds, ActivationFails,
       SecretsPresent, SecretsMissing, DropBackup, DropBackupFails, WipeKey, WipeKeyFails,
       Trap, Cleanup, Restore, Restored, RestoreFails, StartComin, Systemctl, Wipe,
       WipeFails, Signal, Interrupt, Kill, Reboot, CominDeploys, host
  <2>2. QED
    BY <2>1 DEF CominInv, Backed, Writing
<1>3. QED
  BY <1>1, <1>2, CominStep, PTL DEF Spec, CominSeesWholeKeys

\* A comin that ran before runs, or COMIN_WAS_ACTIVE still says that it did, or it
\* is just being started.
PutBackInv ==
    Spared({"start", "signal"}) =>
      /\ ~trapped
      /\ pc # "idle" => Spared({"kill"})
      /\ pc \in {"check", "stop"} /\ foundComin => comin
      /\ foundComin /\ Spared({"kill"}) =>
           comin \/ pc = "systemctl" \/ (cominWas /\ pc \notin {"idle", "wipe"})

\* Every step keeps it.
LEMMA PutBackStep == PutBackInv /\ [Next]_vars => PutBackInv'
<1> SUFFICES ASSUME PutBackInv, [Next]_vars PROVE PutBackInv'
  OBVIOUS
<1> USE DEF PutBackInv, Cleaning, Putting, Writing, Activating, Spared, Fault, Goto, Die,
        files, host, shell, history
<1>1. CASE UNCHANGED vars
  BY <1>1 DEF vars
<1>2. ASSUME NEW c \in Identities, NEW k \in BOOLEAN, Start(c, k) PROVE PutBackInv'
  BY <1>2 DEF Start
<1>3. CASE Script
  BY <1>3 DEF Script, CheckCandidate, RefuseCandidate, StopComin, Save, SaveFails, PutKey,
     KeyWritten, PutKeyFails, MarkInstalled, ActivationSucceeds, ActivationFails,
     SecretsPresent, SecretsMissing, DropBackup, DropBackupFails, WipeKey, WipeKeyFails
<1>4. CASE Trap
  BY <1>4 DEF Trap, Cleanup, Restore, Restored, RestoreFails, StartComin, Systemctl, Wipe,
     WipeFails, Exit
<1>5. CASE Signal \/ Interrupt \/ Kill \/ Reboot \/ CominDeploys
  BY <1>5 DEF Signal, Interrupt, Kill, Reboot, CominDeploys
<1>6. QED
  BY <1>1, <1>2, <1>3, <1>4, <1>5 DEF Next

\* Unless systemctl fails, a signal comes or the script is killed, comin runs
\* after every run that found it running.
THEOREM CominIsPutBack == Spec => []CominPutBack
<1>1. Init => PutBackInv
  BY DEF Init, PutBackInv, Spared
<1>2. PutBackInv => CominPutBack
  BY DEF PutBackInv, CominPutBack, Ended, Spared
<1>3. QED
  BY <1>1, <1>2, PutBackStep, PTL DEF Spec
=============================================================================
