---------------------------- MODULE VmSeed_proofs -----------------------------
(***************************************************************************)
(* The host's record of how a guest was provisioned is true, the heals are *)
(* bounded, the seed that a launch boots is the one of the configuration,  *)
(* and a quiet launch boots the instance of before: for every set of       *)
(* configurations and any number of ids and events.                        *)
(***************************************************************************)
EXTENDS VmSeed, TLAPS

-----------------------------------------------------------------------------
(* The inductive invariant.                                                  *)

\* Where a setup has accepted its seed, and where it is still to write it.
Accepted == setup.at \in {"mark", "iso", "seal", "active"}
Writing == setup.at \in {"mark", "iso", "seal"}

(* Ids are minted in order, and what names one names one that was minted.  The *)
(* id a setup found ill is not the one on file any more.                       *)
IdInv ==
    /\ id <= minted /\ iso.id <= minted /\ disk.inst <= minted
    /\ Accepted => id # None
    /\ past.ill # None => past.ill # id

(* The VM runs only after its setup, and its watch only beside it.             *)
UpInv ==
    /\ guest.up => setup.at = "active"
    /\ watch # None => guest.up /\ watch \in {id, Expired, Broken}

(* What the guest says, and what diagnose carries, has been reported.          *)
ToldInv ==
    /\ guest.up /\ disk.inst # None /\ ParseGuestProbe(guest.says) # "none"
           => ParseGuestProbe(guest.says) \in past.reported[disk.inst]
    /\ diag # NoDiag => /\ diag.status \in {"done", "failed"}
                        /\ diag.named => diag.status \in past.reported[diag.id]

(* No record is of an id that was not minted yet.                              *)
MintInv == marker.id <= minted /\ diag.id <= minted

(* Unless a setup was cut short, the guest runs the id on file, so that what   *)
(* it says and what diagnose carries is of that id even where the guest does   *)
(* not name it; and no outcome is there for an id whose seed is being written. *)
KnownInv ==
    /\ guest.up /\ ~past.torn => disk.inst = id
    /\ ~past.torn /\ diag # NoDiag /\ diag.id = id => diag.status \in past.reported[id]
    /\ Writing /\ setup.fresh => /\ diag # NoDiag => diag.id # id
                                 /\ marker.id = id => marker.status = "unverified"

(* The heals of the lineage that the host has on record: the marker's, the one *)
(* a setup is about to write, or none where the marker is of another id.       *)
Counted ==
    IF setup.at = "mark" THEN setup.heals ELSE IF marker.id = id THEN marker.heals ELSE 0

HealInv ==
    /\ marker.heals <= MaxHealAttempts /\ setup.heals <= MaxHealAttempts
    /\ past.heals <= Counted + past.losses

(* What a setup that accepted its seed has seen to.                            *)
AcceptInv ==
    LET c == setup.config
    IN  /\ Accepted => pinned /\ SeedContract(c, UserData(c))
        /\ Accepted /\ c.volume = "home" => "ours" \in share
        /\ setup.at = "render" /\ c.volume = "home" /\ parts["client"] # "half" => "ours" \in share

(* Unless a setup was cut short, the seed on tmpfs and the disk of that id are *)
(* of the text of the fingerprint, but while a setup writes; and a disk never  *)
(* has the id that a setup minted before the VM is started on it.              *)
SeedInv ==
    /\ id = None => fp = NoText
    /\ setup.at = "mark" => setup.fresh
    /\ setup.at \in {"parts", "render"} => ~setup.fresh
    /\ Writing => IF setup.fresh THEN disk.inst # id ELSE fp = UserData(setup.config)
    /\ setup.at = "seal" => iso = [id |-> id, text |-> UserData(setup.config), state |-> "whole"]
    /\ ~past.torn /\ ~Writing /\ iso.state # "none"
           => iso = [id |-> id, text |-> fp, state |-> "whole"]
    /\ ~past.torn /\ ~(Writing /\ setup.fresh) /\ disk.inst = id => disk.text = fp
    /\ ~past.torn /\ setup.at = "active" => fp = UserData(setup.config) /\ iso.state # "none"

(* After a quiet launch nothing calls for another instance-id.                 *)
QuietInv ==
    past.quiet =>
        /\ ~past.torn /\ ~(Writing /\ setup.fresh)
        /\ id # None /\ disk.inst \in {None, id}
        /\ fp # NoText /\ fp = UserData(config)
        /\ setup.at \in {"parts", "render", "iso", "seal", "active"}
               => fp = UserData(setup.config)
        /\ "failed" \notin past.reported[id]

-----------------------------------------------------------------------------
(* Types.                                                                    *)

(* TypeOK, by what the actions change together. *)
FilesOK ==
    /\ parts \in [Parts -> {"none", "half", "whole"}]
    /\ share \subseteq {"ours", "operator"} /\ pinned \in BOOLEAN
SeedOK ==
    /\ fp \in Text /\ id \in Ids /\ minted \in Ids
    /\ iso \in [id : Ids, text : Text, state : {"none", "partial", "whole"}]
MarkerOK ==
    /\ marker \in [id : Ids, status : {"unverified", "done", "failed"}, heals : Nat]
    /\ diag \in [id : Ids, status : {"none", "done", "failed"}, named : BOOLEAN]
UnitOK ==
    /\ config \in Configs
    /\ setup \in [at : SetupStates, config : Configs, heals : Nat, fresh : BOOLEAN]
    /\ want \in BOOLEAN /\ op \in {"idle", "resetup", "restart"}
VmOK ==
    /\ guest \in [up : BOOLEAN, first : BOOLEAN, says : {"running", "done", "error", "disabled"},
                 named : BOOLEAN]
    /\ disk \in [inst : Ids, text : Text, result : {"none", "part", "done", "error"}]
    /\ watch \in Ids \cup {Expired, Broken}
PastOK ==
    past \in [reported : [Ids -> SUBSET {"done", "failed"}], heals : Nat, losses : Nat,
              torn : BOOLEAN, quiet : BOOLEAN, ill : Ids, asked : Ids, late : BOOLEAN,
              unnamed : BOOLEAN]

(* The type invariant is its parts. *)
LEMMA TypeParts ==
    TypeOK <=> /\ FilesOK /\ SeedOK /\ MarkerOK /\ UnitOK /\ VmOK /\ PastOK
               /\ events \in 0 .. MaxEvents
    BY DEF TypeOK, FilesOK, SeedOK, MarkerOK, UnitOK, VmOK, PastOK

(* The user-data of a configuration is a text. *)
LEMMA UserDataType ==
    ASSUME NEW c \in Configs
    PROVE  UserData(c) \in Text
<1>1. c \in Config
    BY SeedAssumption
<1>2. c.custom \in BOOLEAN /\ c.text \in Text /\ c.inspect \in BOOLEAN
    BY <1>1 DEF Config
<1>3. DefaultUserData(c) \in Text
    BY DEF DefaultUserData, Text, Marks
<1> QED
    BY <1>2, <1>3 DEF UserData

(* The files of the first steps of setup. *)
LEMMA FilesNext == FilesOK /\ [Next]_vars => FilesOK'
<1> SUFFICES ASSUME FilesOK, [Next]_vars PROVE FilesOK'
    OBVIOUS
<1>same. ASSUME UNCHANGED <<parts, share, pinned>> PROVE FilesOK'
    BY <1>same DEF FilesOK
<1>cut. ASSUME NEW last \in {"none", "half"}, parts' \in CutParts(last), UNCHANGED <<share, pinned>>
        PROVE  FilesOK'
    BY <1>cut DEF FilesOK, CutParts, Generated
<1>1. CASE Prepare
    BY <1>1 DEF Prepare, FilesOK, Parts, SetupNvram, GenerateSshKeypair, GenerateVmHostKeypair,
       Generated, SeedAuthorizedKeys
<1>2. CASE PrepareFails \/ KillSetup \/ HostReboot
    BY <1>2, <1>cut, <1>same DEF PrepareFails, KillSetup, HostReboot
<1>3. CASE KeepSeed \/ ResolveInstanceId
    BY <1>3, Zenon DEF KeepSeed, ResolveInstanceId, WriteKnownHosts, FilesOK
<1>4. CASE RejectSeed \/ MarkUnverified \/ BuildIso \/ SealSeed \/ BuildIsoFails
    BY <1>4, <1>same DEF RejectSeed, MarkUnverified, BuildIso, SealSeed, BuildIsoFails, files
<1>5. CASE Vm \/ Diagnose
    BY <1>5, <1>same, Zenon DEF Vm, Diagnose, Launch, LaunchFails, CloudInitEnds, WatchAnswered,
       WatchExpires, WatchBreaks, DiagnoseAsks, DiagnoseRecords, DiagnoseDrops, files
<1>6. CASE Operator
    BY <1>6, <1>same DEF Operator, SaveFiles, Start, Stop, Restart, Update, Recreate,
       RecreateAgain, RecreateEnds, EditApplies, files
<1>7. CASE UNCHANGED vars
    BY <1>7, <1>same DEF vars, files
<1> QED
    BY <1>1, <1>2, <1>3, <1>4, <1>5, <1>6, <1>7 DEF Next, Setup, Faults

(* The fingerprint, the id and the seed. *)
LEMMA SeedTypesNext == SeedOK /\ UnitOK /\ [Next]_vars => SeedOK'
<1> SUFFICES ASSUME SeedOK, UnitOK, [Next]_vars PROVE SeedOK'
    OBVIOUS
<1>same. ASSUME UNCHANGED <<fp, id, iso, minted>> PROVE SeedOK'
    BY <1>same DEF SeedOK
<1>text. UserData(setup.config) \in Text
    BY UserDataType DEF UnitOK
<1>part. [iso EXCEPT !.state = "partial"] \in [id : Ids, text : Text, state : {"none", "partial", "whole"}]
    BY DEF SeedOK
<1>1. CASE ResolveInstanceId
    <2>1. minted < MaxIds => minted + 1 \in Ids
      BY SeedAssumption DEF SeedOK, Ids
    <2> QED BY <1>1, <2>1 DEF ResolveInstanceId, SeedOK
<1>2. CASE BuildIso
    BY <1>2, <1>text DEF BuildIso, SeedOK, files
<1>3. CASE SealSeed
    BY <1>3, <1>text DEF SealSeed, SeedOK
<1>4. CASE BuildIsoFails \/ KillSetup
    BY <1>4, <1>part DEF BuildIsoFails, KillSetup, SeedOK, files
<1>5. CASE HostReboot
    <2>1. NoText \in Text /\ None \in Ids
      BY SeedAssumption DEF NoText, Text, None, Ids
    <2> QED BY <1>5, <2>1 DEF HostReboot, NoIso, SeedOK
<1>6. CASE Prepare \/ RejectSeed \/ KeepSeed \/ MarkUnverified \/ PrepareFails
    BY <1>6, <1>same DEF Prepare, RejectSeed, KeepSeed, MarkUnverified, PrepareFails, files
<1>7. CASE Vm \/ Diagnose
    BY <1>7, <1>same, Zenon DEF Vm, Diagnose, Launch, LaunchFails, CloudInitEnds, WatchAnswered,
       WatchExpires, WatchBreaks, DiagnoseAsks, DiagnoseRecords, DiagnoseDrops, files
<1>8. CASE Operator
    BY <1>8, <1>same DEF Operator, SaveFiles, Start, Stop, Restart, Update, Recreate,
       RecreateAgain, RecreateEnds, EditApplies, files
<1>9. CASE UNCHANGED vars
    BY <1>9, <1>same DEF vars, files
<1> QED
    BY <1>1, <1>2, <1>3, <1>4, <1>5, <1>6, <1>7, <1>8, <1>9 DEF Next, Setup, Faults

(* The marker and what diagnose holds. *)
LEMMA MarkerTypesNext ==
    MarkerOK /\ SeedOK /\ UnitOK /\ VmOK /\ ToldInv /\ [Next]_vars => MarkerOK'
<1> SUFFICES ASSUME MarkerOK, SeedOK, UnitOK, VmOK, ToldInv, [Next]_vars PROVE MarkerOK'
    OBVIOUS
<1>same. ASSUME UNCHANGED <<marker, diag>> PROVE MarkerOK'
    BY <1>same DEF MarkerOK
<1>none. NoDiag \in [id : Ids, status : {"none", "done", "failed"}, named : BOOLEAN]
    BY SeedAssumption DEF NoDiag, None, Ids
<1>told. GuestProvisionResult \in {"none", "done", "failed"}
    BY DEF GuestProvisionResult, ParseGuestProbe
<1>rec. ASSUME NEW i \in Ids, NEW status \in {"done", "failed"}, RecordOutcome(i, status)
        PROVE  marker' \in [id : Ids, status : {"unverified", "done", "failed"}, heals : Nat]
    BY <1>rec DEF RecordOutcome, ProvisionMarker, HealAttempts, MarkerOK
<1>1. CASE MarkUnverified
    BY <1>1 DEF MarkUnverified, ProvisionMarker, MarkerOK, SeedOK, UnitOK
<1>2. CASE WatchAnswered
    BY <1>2, <1>told, <1>rec DEF WatchAnswered, AnswersFor, MarkerOK
<1>3. CASE DiagnoseAsks
    BY <1>3, <1>told DEF DiagnoseAsks, MarkerOK, SeedOK, VmOK, files
<1>4. CASE DiagnoseRecords
    <2>1. diag.id \in Ids /\ diag.status \in {"done", "failed"}
      BY <1>4 DEF DiagnoseRecords, MarkerOK, ToldInv
    <2> QED BY <1>4, <1>rec, <1>none, <2>1 DEF DiagnoseRecords, MarkerOK
<1>10. CASE DiagnoseDrops
    BY <1>10, <1>none DEF DiagnoseDrops, MarkerOK, files
<1>5. CASE HostReboot
    BY <1>5, <1>none DEF HostReboot, MarkerOK
<1>6. CASE Setup /\ ~MarkUnverified
    BY <1>6, <1>same DEF Setup, Prepare, RejectSeed, KeepSeed, ResolveInstanceId, BuildIso,
       SealSeed, files
<1>7. CASE PrepareFails \/ BuildIsoFails \/ KillSetup \/ Launch \/ LaunchFails \/ CloudInitEnds
           \/ WatchExpires \/ WatchBreaks
    BY <1>7, <1>same, Zenon DEF PrepareFails, BuildIsoFails, KillSetup, Launch, LaunchFails,
       CloudInitEnds, WatchExpires, WatchBreaks, files
<1>8. CASE Operator
    BY <1>8, <1>same DEF Operator, SaveFiles, Start, Stop, Restart, Update, Recreate,
       RecreateAgain, RecreateEnds, EditApplies, files
<1>9. CASE UNCHANGED vars
    BY <1>9, <1>same DEF vars, files
<1> QED
    BY <1>1, <1>2, <1>3, <1>4, <1>5, <1>6, <1>7, <1>8, <1>9, <1>10 DEF Next, Faults, Vm, Diagnose

(* The configuration and the units. *)
LEMMA UnitTypesNext == UnitOK /\ SeedOK /\ MarkerOK /\ VmOK /\ [Next]_vars => UnitOK'
<1> SUFFICES ASSUME UnitOK, SeedOK, MarkerOK, VmOK, [Next]_vars PROVE UnitOK'
    OBVIOUS
<1> DEFINE SetupType == [at : SetupStates, config : Configs, heals : Nat, fresh : BOOLEAN]
<1>same. ASSUME UNCHANGED <<config, setup, want, op>> PROVE UnitOK'
    BY <1>same DEF UnitOK
<1>at. ASSUME NEW step \in SetupStates, At(step) PROVE setup' \in SetupType
    BY <1>at DEF At, UnitOK
<1>new. ASSUME NEW c \in Configs PROVE SetupStarted(c) \in SetupType
    BY <1>new DEF SetupStarted, SetupStates, Steps
<1>pull. ASSUME SetupPulledIn PROVE setup' \in SetupType
    BY <1>pull, <1>new DEF SetupPulledIn, UnitOK
<1>s. {"parts", "render", "mark", "iso", "seal", "active", "failed"} \subseteq SetupStates
    BY DEF SetupStates, Steps
<1>1. CASE ResolveInstanceId
    <2>1. (IF Healing THEN HealAttempts(marker, id) + 1 ELSE 0) \in Nat
      BY DEF HealAttempts, MarkerOK
    <2>2. setup' \in SetupType
      <3>1. CASE Mints
        BY <1>1, <1>s, <2>1, <3>1, Zenon DEF ResolveInstanceId, UnitOK
      <3>2. CASE ~Mints
        BY <1>1, <1>at, <1>s, <3>2 DEF ResolveInstanceId
      <3> QED BY <3>1, <3>2
    <2> QED BY <1>1, <2>2 DEF ResolveInstanceId, UnitOK
<1>2. CASE Setup /\ ~ResolveInstanceId
    <2>1. setup' \in SetupType
      BY <1>2, <1>at, <1>s DEF Setup, Prepare, RejectSeed, KeepSeed, MarkUnverified, BuildIso,
         SealSeed, SetupFails
    <2> QED BY <1>2, <2>1, Zenon DEF Setup, Prepare, RejectSeed, KeepSeed, MarkUnverified, BuildIso,
         SealSeed, SetupFails, UnitOK
<1>3. CASE PrepareFails \/ BuildIsoFails \/ KillSetup
    <2>1. setup' \in SetupType
      BY <1>3, <1>at, <1>s DEF PrepareFails, BuildIsoFails, KillSetup, SetupFails
    <2> QED BY <1>3, <2>1, Zenon DEF PrepareFails, BuildIsoFails, KillSetup, SetupFails, UnitOK
<1>4. CASE HostReboot
    BY <1>4, <1>new DEF HostReboot, UnitOK
<1>5. CASE Vm \/ Diagnose
    BY <1>5, Zenon DEF Vm, Diagnose, Launch, LaunchFails, CloudInitEnds, WatchAnswered,
       WatchExpires, WatchBreaks, DiagnoseAsks, DiagnoseRecords, DiagnoseDrops, units, UnitOK
<1>6. CASE SaveFiles \/ Stop \/ RecreateEnds
    BY <1>6, Zenon DEF SaveFiles, Stop, RecreateEnds, Edited, VmOff, units, UnitOK
<1>7. CASE Start \/ Restart \/ Update
    BY <1>7, <1>pull, Zenon DEF Start, Restart, Update, UnitOK
<1>8. CASE Recreate \/ RecreateAgain \/ EditApplies
    <2>1. want \/ guest.up \in BOOLEAN
      BY DEF UnitOK, VmOK
    <2>2. SetupStarted(config) \in SetupType
      BY <1>new DEF UnitOK
    <2>3. CASE EditApplies
      BY <2>1, <2>3, <1>new DEF EditApplies, Edited, SetupRestarted, UnitOK
    <2>4. CASE Recreate \/ RecreateAgain
      BY <2>1, <2>2, <2>4 DEF Recreate, RecreateAgain, SetupRestarted, UnitOK
    <2> QED BY <1>8, <2>3, <2>4
<1>9. CASE UNCHANGED vars
    BY <1>9, <1>same DEF vars, units
<1> QED
    BY <1>1, <1>2, <1>3, <1>4, <1>5, <1>6, <1>7, <1>8, <1>9 DEF Next, Faults, Operator

(* The guest, its disk and its watch. *)
LEMMA VmTypesNext == VmOK /\ SeedOK /\ [Next]_vars => VmOK'
<1> SUFFICES ASSUME VmOK, SeedOK, [Next]_vars PROVE VmOK'
    OBVIOUS
<1>same. ASSUME UNCHANGED <<guest, disk, watch>> PROVE VmOK'
    BY <1>same DEF VmOK
<1>off. ASSUME VmOff, disk' \in {disk, Blank} PROVE VmOK'
    <2>1. None \in Ids /\ NoText \in Text
      BY SeedAssumption DEF Ids, None, NoText, Text
    <2> QED BY <1>off, <2>1 DEF VmOff, Off, Blank, VmOK
<1>1. CASE Launch
    <2>1. Booted \in [inst : Ids, text : Text, result : {"none", "part", "done", "error"}]
      BY DEF Booted, VmOK, SeedOK
    <2>2. WatchStarts \in Ids
      BY SeedAssumption DEF WatchStarts, None, Ids, SeedOK
    <2> QED BY <1>1, <2>1, <2>2 DEF Launch, VmOK
<1>2. CASE CloudInitEnds
    BY <1>2 DEF CloudInitEnds, VmOK
<1>3. CASE WatchAnswered \/ WatchExpires \/ WatchBreaks
    BY <1>3, SeedAssumption DEF WatchAnswered, WatchExpires, WatchBreaks, VmOK, None, Ids
<1>4. CASE HostReboot \/ Stop \/ Restart \/ Update \/ Recreate \/ RecreateAgain \/ EditApplies
    BY <1>4, <1>off DEF HostReboot, Stop, Restart, Update, Recreate, RecreateAgain, EditApplies,
       SetupRestarted
<1>5. CASE SaveFiles \/ Start \/ RecreateEnds
    BY <1>5, <1>same, <1>off DEF SaveFiles, Start, RecreateEnds, vm
<1>6. CASE Setup
    BY <1>6, <1>same DEF Setup, Prepare, RejectSeed, KeepSeed, ResolveInstanceId, MarkUnverified,
       BuildIso, SealSeed, vm
<1>7. CASE PrepareFails \/ BuildIsoFails \/ KillSetup \/ LaunchFails \/ Diagnose
    BY <1>7, <1>same DEF PrepareFails, BuildIsoFails, KillSetup, LaunchFails, Diagnose,
       DiagnoseAsks, DiagnoseRecords, DiagnoseDrops, vm
<1>8. CASE UNCHANGED vars
    BY <1>8, <1>same DEF vars, vm
<1> QED
    BY <1>1, <1>2, <1>3, <1>4, <1>5, <1>6, <1>7, <1>8 DEF Next, Faults, Vm, Operator

(* What the model remembers for the properties. *)
LEMMA PastTypesNext == PastOK /\ SeedOK /\ VmOK /\ [Next]_vars => PastOK'
<1> SUFFICES ASSUME PastOK, SeedOK, VmOK, [Next]_vars PROVE PastOK'
    OBVIOUS
<1>same. ASSUME UNCHANGED past PROVE PastOK'
    BY <1>same DEF PastOK
<1>none. None \in Ids
    BY SeedAssumption DEF None, Ids
<1>noted. Noted \in [reported : [Ids -> SUBSET {"done", "failed"}], heals : Nat, losses : Nat,
                     torn : BOOLEAN, quiet : BOOLEAN, ill : Ids, asked : Ids, late : BOOLEAN,
                     unnamed : BOOLEAN]
    BY <1>none DEF Noted, PastOK, SeedOK
<1>torn. Torn \in [reported : [Ids -> SUBSET {"done", "failed"}], heals : Nat, losses : Nat,
                   torn : BOOLEAN, quiet : BOOLEAN, ill : Ids, asked : Ids, late : BOOLEAN,
                   unnamed : BOOLEAN]
    <2>1. (past.torn \/ setup.at \in {"mark", "iso", "seal"}) \in BOOLEAN
      OBVIOUS
    <2>2. (IF setup.at = "mark" THEN past.losses + 1 ELSE past.losses) \in Nat
      BY DEF PastOK
    <2> QED BY <2>1, <2>2, Zenon DEF Torn, PastOK
<1>1. CASE ResolveInstanceId
    <2>1. /\ (IF Healing THEN Noted.heals + 1 ELSE 0) \in Nat
          /\ (IF Healing THEN Noted.losses ELSE 0) \in Nat
      BY <1>noted
    <2>2. CASE Mints
      <3>1. past' = [Noted EXCEPT !.heals = IF Healing THEN Noted.heals + 1 ELSE 0,
                                  !.losses = IF Healing THEN Noted.losses ELSE 0]
        BY <1>1, <2>2 DEF ResolveInstanceId
      <3> QED BY <1>noted, <2>1, <3>1, Zenon DEF PastOK
    <2>3. CASE ~Mints
      BY <1>1, <1>noted, <2>3 DEF ResolveInstanceId, PastOK
    <2> QED BY <2>2, <2>3
<1>2. CASE KeepSeed \/ KillSetup \/ HostReboot
    BY <1>2, <1>noted, <1>torn, <1>same DEF KeepSeed, KillSetup, HostReboot, PastOK
<1>3. CASE SealSeed \/ BuildIsoFails
    BY <1>3, Zenon DEF SealSeed, BuildIsoFails, PastOK
<1>4. CASE Launch
    <2>1. disk.inst \in Ids
      BY DEF VmOK
    <2> QED BY <1>4, <1>none, <2>1, Zenon DEF Launch, PastOK
<1>5. CASE CloudInitEnds
    <2>1. disk.inst \in Ids
      BY DEF VmOK
    <2>2. \A r \in {"done", "error"} : ParseGuestProbe(r) \in {"done", "failed"}
      BY DEF ParseGuestProbe
    <2>3. PICK r \in {"done", "error"} :
            past' = [past EXCEPT !.reported[disk.inst] = @ \cup {ParseGuestProbe(r)},
                                 !.quiet = @ /\ r = "done"]
      BY <1>5, Zenon DEF CloudInitEnds
    <2>4. (past.quiet /\ r = "done") \in BOOLEAN
      OBVIOUS
    <2>5. past.reported[disk.inst] \cup {ParseGuestProbe(r)} \in SUBSET {"done", "failed"}
      BY <2>1, <2>2 DEF PastOK
    <2> QED BY <2>1, <2>3, <2>4, <2>5, Zenon DEF PastOK
<1>6. CASE SaveFiles \/ EditApplies
    <2>1. PICK c \in Configs : past' = [past EXCEPT !.quiet = @ /\ UserData(c) = UserData(config)]
      BY <1>6 DEF SaveFiles, EditApplies, Edited
    <2>2. (past.quiet /\ UserData(c) = UserData(config)) \in BOOLEAN
      OBVIOUS
    <2> QED BY <2>1, <2>2, Zenon DEF PastOK
<1>10. CASE Restart
    BY <1>10, <1>none DEF Restart, PastOK, SeedOK
<1>11. CASE DiagnoseRecords
    <2>1. (marker.id # diag.id) \in BOOLEAN
      OBVIOUS
    <2>2. (IF marker.id = diag.id THEN past.losses ELSE past.losses + 1) \in Nat
      BY DEF PastOK
    <2>3. (~diag.named) \in BOOLEAN
      OBVIOUS
    <2> QED BY <1>11, <2>1, <2>2, <2>3, Zenon DEF DiagnoseRecords, PastOK
<1>12. CASE WatchAnswered
    <2>1. (~guest.named) \in BOOLEAN
      OBVIOUS
    <2> QED BY <1>12, <2>1, Zenon DEF WatchAnswered, PastOK
<1>7. CASE Prepare \/ RejectSeed \/ MarkUnverified \/ BuildIso \/ PrepareFails
    BY <1>7, <1>same DEF Prepare, RejectSeed, MarkUnverified, BuildIso, PrepareFails
<1>8. CASE LaunchFails \/ WatchExpires \/ WatchBreaks \/ DiagnoseAsks \/ DiagnoseDrops \/ Start
           \/ Stop \/ Update \/ Recreate \/ RecreateAgain \/ RecreateEnds
    BY <1>8, <1>same DEF LaunchFails, WatchExpires, WatchBreaks, DiagnoseAsks, DiagnoseDrops, Start,
       Stop, Update, Recreate, RecreateAgain, RecreateEnds
<1>9. CASE UNCHANGED vars
    BY <1>9, <1>same DEF vars
<1> QED
    BY <1>1, <1>2, <1>3, <1>4, <1>5, <1>6, <1>7, <1>8, <1>9, <1>10, <1>11, <1>12 DEF Next, Setup,
       Faults, Vm, Diagnose, Operator

(* The count of events. *)
LEMMA EventsNext == events \in 0 .. MaxEvents /\ [Next]_vars => events' \in 0 .. MaxEvents
<1> SUFFICES ASSUME events \in 0 .. MaxEvents, [Next]_vars PROVE events' \in 0 .. MaxEvents
    OBVIOUS
<1>1. Event \/ UNCHANGED events
    BY Zenon DEF Next, Setup, Faults, Vm, Diagnose, Operator, Prepare, RejectSeed, KeepSeed,
       ResolveInstanceId, MarkUnverified, BuildIso, SealSeed, PrepareFails, BuildIsoFails,
       KillSetup, HostReboot, Launch, LaunchFails, CloudInitEnds, WatchAnswered, WatchExpires,
       WatchBreaks, DiagnoseAsks, DiagnoseRecords, DiagnoseDrops, SaveFiles, Start, Stop, Restart, Update, Recreate,
       RecreateAgain, RecreateEnds, EditApplies, vars
<1> QED
    BY <1>1, SeedAssumption DEF Event

(* Every step keeps the types. *)
LEMMA TypeNext == TypeOK /\ ToldInv /\ [Next]_vars => TypeOK'
<1>1. ASSUME TypeOK, ToldInv, [Next]_vars
      PROVE  FilesOK' /\ SeedOK' /\ MarkerOK' /\ UnitOK' /\ VmOK' /\ PastOK' /\ events' \in 0 .. MaxEvents
    BY <1>1, TypeParts, FilesNext, SeedTypesNext, MarkerTypesNext, UnitTypesNext, VmTypesNext,
       PastTypesNext, EventsNext
<1> QED
    BY <1>1 DEF TypeOK, FilesOK, SeedOK, MarkerOK, UnitOK, VmOK, PastOK

-----------------------------------------------------------------------------
(* Who changes what.                                                         *)

(* A step of setup moves it on and keeps what it loaded. *)
LEMMA AtFields ==
    ASSUME UnitOK, NEW step, At(step)
    PROVE  /\ setup'.at = step /\ setup'.config = setup.config
           /\ setup'.heals = setup.heals /\ setup'.fresh = setup.fresh
    BY DEF At, UnitOK

(* The steps that leave setup where it is. *)
Beside ==
    \/ Vm \/ Diagnose \/ SaveFiles \/ Stop \/ RecreateEnds \/ UNCHANGED vars

(* The steps that start it, or find it running. *)
Starts == HostReboot \/ Start \/ Restart \/ Update \/ Recreate \/ RecreateAgain \/ EditApplies

(* Every step is one of setup, an end of it, a start of it or beside it. *)
LEMMA Kinds ==
    ASSUME [Next]_vars
    PROVE  \/ Prepare \/ RejectSeed \/ KeepSeed \/ ResolveInstanceId \/ MarkUnverified \/ BuildIso
           \/ SealSeed \/ PrepareFails \/ BuildIsoFails \/ KillSetup \/ Starts \/ Beside
    BY DEF Next, Setup, Faults, Operator, Starts, Beside

(* What the steps beside setup leave alone. *)
LEMMA BesideKeeps ==
    ASSUME Beside
    PROVE  UNCHANGED <<setup, parts, share, pinned, fp, id, iso, minted>>
    BY Zenon DEF Beside, Vm, Diagnose, Launch, LaunchFails, CloudInitEnds, WatchAnswered, WatchExpires,
       WatchBreaks, DiagnoseAsks, DiagnoseRecords, DiagnoseDrops, SaveFiles, Stop, RecreateEnds, vars, files, units

(* Only a launch makes a disk another instance; the end of cloud-init leaves    *)
(* a result on it.                                                              *)
LEMMA DiskSteps ==
    ASSUME VmOK, Beside
    PROVE  \/ Launch /\ disk' = Booted
           \/ CloudInitEnds /\ disk'.inst = disk.inst /\ disk'.text = disk.text
           \/ UNCHANGED disk
<1>1. CASE Launch
    BY <1>1 DEF Launch
<1>2. CASE CloudInitEnds
    BY <1>2, Zenon DEF CloudInitEnds, VmOK
<1>3. CASE Beside /\ ~Launch /\ ~CloudInitEnds
    BY <1>3 DEF Beside, Vm, Diagnose, LaunchFails, WatchAnswered, WatchExpires, WatchBreaks, DiagnoseAsks,
       DiagnoseRecords, DiagnoseDrops, SaveFiles, Stop, RecreateEnds, vars, vm
<1> QED
    BY <1>1, <1>2, <1>3

(* A start of setup loads the configuration; only a reboot cuts one short. *)
LEMMA StartsDo ==
    ASSUME UnitOK, Starts
    PROVE  /\ UNCHANGED <<share, pinned, fp, id, marker, minted>>
           /\ HostReboot \/ UNCHANGED <<parts, iso>>
           /\ \/ UNCHANGED <<setup, config>> /\ setup.at \notin {"inactive", "failed"}
              \/ /\ setup' = SetupStarted(config') /\ setup'.at = "parts"
                 /\ setup'.config = config' /\ setup'.heals = 0
                 /\ HostReboot \/ setup.at \notin Steps
<1>1. setup.at \in SetupStates
    BY DEF UnitOK
<1>2. ASSUME NEW c PROVE /\ SetupStarted(c).at = "parts" /\ SetupStarted(c).config = c
                         /\ SetupStarted(c).heals = 0
    BY DEF SetupStarted
<1>3. CASE Start \/ Restart \/ Update
    BY <1>1, <1>2, <1>3 DEF Start, Restart, Update, SetupPulledIn, Steps, files
<1>4. CASE Recreate \/ RecreateAgain \/ EditApplies
    BY <1>1, <1>2, <1>4 DEF Recreate, RecreateAgain, EditApplies, Edited, SetupRestarted, Steps, files
<1>5. CASE HostReboot
    BY <1>2, <1>5 DEF HostReboot
<1> QED
    BY <1>3, <1>4, <1>5 DEF Starts

(* Reports stay, and only a launch makes the past quiet. *)
LEMMA PastSteps ==
    ASSUME PastOK, VmOK, [Next]_vars
    PROVE  /\ \A i \in Ids : past.reported[i] \subseteq past'.reported[i]
           /\ CloudInitEnds \/ Launch \/ past'.reported = past.reported
           /\ past'.quiet => Launch \/ past.quiet
<1>same. ASSUME UNCHANGED past
         PROVE  past'.reported = past.reported /\ past'.quiet = past.quiet
    BY <1>same
<1>1. CASE Launch \/ CloudInitEnds
    <2>1. disk.inst \in Ids
      BY DEF VmOK
    <2>2. CASE Launch
      BY <2>1, <2>2 DEF Launch, PastOK
    <2>3. CASE CloudInitEnds
      <3>1. PICK r : past' = [past EXCEPT !.reported[disk.inst] = @ \cup {ParseGuestProbe(r)},
                                          !.quiet = @ /\ r = "done"]
        BY <2>3, Zenon DEF CloudInitEnds
      <3> QED BY <2>1, <2>3, <3>1 DEF PastOK
    <2> QED BY <1>1, <2>2, <2>3
<1>2. CASE KeepSeed
    BY <1>2 DEF KeepSeed, Noted, PastOK
<1>3. CASE ResolveInstanceId
    BY <1>3, Zenon DEF ResolveInstanceId, Noted, PastOK
<1>4. CASE SealSeed \/ BuildIsoFails
    BY <1>4, Zenon DEF SealSeed, BuildIsoFails, PastOK
<1>5. CASE KillSetup \/ HostReboot
    BY <1>5, Zenon DEF KillSetup, HostReboot, Torn, PastOK
<1>6. CASE DiagnoseRecords \/ WatchAnswered \/ Restart \/ SaveFiles \/ EditApplies
    BY <1>6, Zenon DEF DiagnoseRecords, WatchAnswered, Restart, SaveFiles, EditApplies, Edited, PastOK
<1>7. CASE Prepare \/ RejectSeed \/ MarkUnverified \/ BuildIso \/ PrepareFails
    BY <1>7, <1>same DEF Prepare, RejectSeed, MarkUnverified, BuildIso, PrepareFails
<1>8. CASE LaunchFails \/ WatchExpires \/ WatchBreaks \/ DiagnoseAsks \/ DiagnoseDrops \/ Start
           \/ Stop \/ Update \/ Recreate \/ RecreateAgain \/ RecreateEnds
    BY <1>8, <1>same DEF LaunchFails, WatchExpires, WatchBreaks, DiagnoseAsks, DiagnoseDrops, Start,
       Stop, Update, Recreate, RecreateAgain, RecreateEnds
<1>9. CASE UNCHANGED vars
    BY <1>9, <1>same DEF vars
<1> QED
    BY <1>1, <1>2, <1>3, <1>4, <1>5, <1>6, <1>7, <1>8, <1>9 DEF Next, Setup, Faults, Vm, Diagnose,
       Operator

-----------------------------------------------------------------------------
(* The parts of the inductive invariant.                                     *)

(* Ids are fresh. *)
LEMMA IdNext ==
    ASSUME TypeOK, IdInv, SeedInv, [Next]_vars
    PROVE  IdInv'
<1>t. /\ SeedOK /\ UnitOK /\ VmOK /\ PastOK
      /\ id \in Nat /\ minted \in Nat /\ iso.id \in Nat /\ disk.inst \in Nat /\ None = 0
    BY TypeParts, SeedAssumption DEF SeedOK, VmOK, Ids, None
<1>keep. ASSUME UNCHANGED <<id, minted>>, iso'.id \in {iso.id, id, None},
                disk'.inst \in {disk.inst, iso.id, None}, past'.ill \in {past.ill, None},
                Accepted' => id # None
         PROVE  IdInv'
    BY <1>keep, <1>t DEF IdInv
<1>1. CASE ResolveInstanceId
    <2>1. UNCHANGED <<iso, disk>> /\ (Accepted' => id' # None)
      <3>1. id # None \/ Mints
        BY DEF Mints
      <3> QED BY <1>1, <1>t, <3>1 DEF ResolveInstanceId, vm
    <2>2. past'.ill = IF Healing THEN id ELSE None
      BY <1>1, <1>t, Zenon DEF ResolveInstanceId, Noted, PastOK
    <2>3. CASE Mints
      BY <1>1, <1>t, <2>1, <2>2, <2>3 DEF ResolveInstanceId, IdInv
    <2>4. CASE ~Mints
      <3>1. UNCHANGED <<id, minted>> /\ ~Healing
        BY <1>1, <2>4 DEF ResolveInstanceId, Mints
      <3> QED BY <1>keep, <2>1, <2>2, <3>1
    <2> QED BY <2>3, <2>4
<1>2. CASE KeepSeed
    <2>1. id # None
      BY <1>2 DEF KeepSeed, UpToDate, FpUnchanged, SeedInv
    <2>2. past'.ill \in {past.ill, None}
      BY <1>2, <1>t DEF KeepSeed, UpToDate, Noted, PastOK
    <2> QED BY <1>2, <1>keep, <2>1, <2>2 DEF KeepSeed, vm
<1>3. CASE MarkUnverified \/ BuildIso \/ SealSeed \/ BuildIsoFails
    <2>1. id # None
      BY <1>3 DEF MarkUnverified, BuildIso, SealSeed, BuildIsoFails, IdInv, Accepted
    <2>2. iso'.id \in {iso.id, id}
      BY <1>3, <1>t DEF MarkUnverified, BuildIso, SealSeed, BuildIsoFails, SeedOK
    <2>3. past'.ill = past.ill
      BY <1>3, <1>t, Zenon DEF MarkUnverified, BuildIso, SealSeed, BuildIsoFails, PastOK
    <2> QED BY <1>3, <1>keep, <2>1, <2>2, <2>3 DEF MarkUnverified, BuildIso, SealSeed, BuildIsoFails,
         files, vm
<1>4. CASE Prepare \/ RejectSeed \/ PrepareFails \/ KillSetup
    <2>1. ~Accepted' /\ iso'.id = iso.id
      BY <1>4, <1>t, AtFields DEF Prepare, RejectSeed, PrepareFails, KillSetup, SetupFails, Accepted,
         SeedOK
    <2>2. past'.ill = past.ill
      BY <1>4, <1>t, Zenon DEF Prepare, RejectSeed, PrepareFails, KillSetup, Torn, PastOK
    <2> QED BY <1>4, <1>keep, <2>1, <2>2 DEF Prepare, RejectSeed, PrepareFails, KillSetup, files, vm
<1>5. CASE Starts
    <2>1. UNCHANGED <<id, minted>> /\ (Accepted' => Accepted)
      BY <1>5, <1>t, StartsDo DEF Accepted
    <2>2. iso'.id \in {iso.id, None} /\ disk'.inst \in {disk.inst, None}
      BY <1>5 DEF Starts, HostReboot, Start, Restart, Update, Recreate, RecreateAgain, EditApplies,
         NoIso, Blank, vm
    <2>3. past'.ill = past.ill
      BY <1>5, <1>t, Zenon DEF Starts, HostReboot, Start, Restart, Update, Recreate, RecreateAgain,
         EditApplies, Edited, Torn, PastOK
    <2> QED BY <1>keep, <2>1, <2>2, <2>3 DEF IdInv
<1>6. CASE Beside
    <2>1. UNCHANGED <<id, minted, iso, setup>>
      BY <1>6, BesideKeeps
    <2>2. disk'.inst \in {disk.inst, iso.id}
      BY <1>6, <1>t, DiskSteps DEF Booted
    <2>3. past'.ill = past.ill
      BY <1>6, <1>t, Zenon DEF Beside, Vm, Diagnose, Launch, LaunchFails, CloudInitEnds, WatchAnswered,
         WatchExpires, WatchBreaks, DiagnoseAsks, DiagnoseRecords, DiagnoseDrops, SaveFiles, Stop,
         RecreateEnds, Edited, PastOK, vars
    <2> QED BY <1>keep, <2>1, <2>2, <2>3 DEF IdInv, Accepted
<1> QED
    BY <1>1, <1>2, <1>3, <1>4, <1>5, <1>6, Kinds

(* The VM is up only while its setup is done, and so no setup runs under a    *)
(* guest or its watch.                                                        *)
LEMMA UpNext ==
    ASSUME TypeOK, UpInv, [Next]_vars
    PROVE  UpInv'
<1>t. SeedOK /\ UnitOK /\ VmOK
    BY TypeParts
<1>off. ASSUME VmOff PROVE UpInv'
    BY <1>off DEF VmOff, Off, UpInv
<1>down. ASSUME ~guest.up, UNCHANGED <<guest, watch>> PROVE UpInv'
    BY <1>down DEF UpInv
<1>same. ASSUME UNCHANGED <<guest, watch, id, setup>> PROVE UpInv'
    BY <1>same DEF UpInv
<1>1. CASE Setup \/ PrepareFails \/ BuildIsoFails \/ KillSetup
    <2>1. setup.at # "active" /\ UNCHANGED <<guest, watch>>
      BY <1>1 DEF Setup, Prepare, RejectSeed, KeepSeed, ResolveInstanceId, MarkUnverified, BuildIso,
         SealSeed, PrepareFails, BuildIsoFails, KillSetup, Steps, vm
    <2> QED BY <1>down, <2>1 DEF UpInv
<1>2. CASE HostReboot \/ Stop \/ Restart \/ Update \/ Recreate \/ RecreateAgain \/ EditApplies
    BY <1>2, <1>off DEF HostReboot, Stop, Restart, Update, Recreate, RecreateAgain, EditApplies,
       SetupRestarted
<1>3. CASE Start
    BY <1>3, <1>down DEF Start, vm
<1>4. CASE Launch
    BY <1>4, <1>t DEF Launch, WatchStarts, UpInv, files
<1>5. CASE CloudInitEnds
    <2>1. guest'.up = guest.up
      BY <1>5, <1>t, Zenon DEF CloudInitEnds, VmOK
    <2> QED BY <1>5, <2>1 DEF CloudInitEnds, UpInv, files, units
<1>6. CASE WatchAnswered \/ WatchExpires \/ WatchBreaks
    BY <1>6 DEF WatchAnswered, WatchExpires, WatchBreaks, UpInv, files, units
<1>7. CASE RecreateEnds
    BY <1>7, <1>off, <1>same DEF RecreateEnds, files
<1>8. CASE LaunchFails \/ Diagnose \/ SaveFiles \/ UNCHANGED vars
    BY <1>8, <1>same DEF LaunchFails, Diagnose, DiagnoseAsks, DiagnoseRecords, DiagnoseDrops, SaveFiles,
       files, units, vm, vars
<1> QED
    BY <1>1, <1>2, <1>3, <1>4, <1>5, <1>6, <1>7, <1>8 DEF Next, Faults, Vm, Operator

(* What is said has been reported. *)
LEMMA ToldNext ==
    ASSUME TypeOK, ToldInv, UpInv, [Next]_vars
    PROVE  ToldInv'
<1>t. SeedOK /\ MarkerOK /\ UnitOK /\ VmOK /\ PastOK
    BY TypeParts
<1>g. /\ \A i \in Ids : past.reported[i] \subseteq past'.reported[i]
      /\ diag.id \in Ids /\ disk.inst \in Ids
    BY <1>t, PastSteps DEF MarkerOK, VmOK
<1>guest. ASSUME UNCHANGED <<guest, disk>> \/ VmOff, diag' \in {diag, NoDiag} PROVE ToldInv'
    BY <1>guest, <1>g DEF ToldInv, VmOff, Off
<1>1. CASE Launch
    <2>1. diag' = diag
      BY <1>1 DEF Launch
    <2>2. CASE iso.state = "partial" /\ disk.inst # None
      <3>1. disk' = disk /\ guest'.says = "disabled"
        BY <1>1, <2>2 DEF Launch, Booted
      <3>2. "done" \in past'.reported[disk.inst]
        BY <1>1, <1>t, <1>g, <2>2 DEF Launch, PastOK
      <3> QED BY <1>g, <2>1, <3>1, <3>2 DEF ToldInv, ParseGuestProbe
    <2>3. CASE ~(iso.state = "partial" /\ disk.inst # None)
      <3>1. guest'.says = "running"
        BY <1>1, <2>3 DEF Launch
      <3> QED BY <1>g, <2>1, <3>1 DEF ToldInv, ParseGuestProbe
    <2> QED BY <2>2, <2>3
<1>2. CASE CloudInitEnds
    <2>1. PICK r : /\ guest' = [guest EXCEPT !.says = r] /\ disk'.inst = disk.inst
                   /\ past' = [past EXCEPT !.reported[disk.inst] = @ \cup {ParseGuestProbe(r)},
                                           !.quiet = @ /\ r = "done"]
      BY <1>2, <1>t, Zenon DEF CloudInitEnds, VmOK
    <2>2. guest'.says = r /\ ParseGuestProbe(r) \in past'.reported[disk.inst]
      BY <1>t, <1>g, <2>1 DEF VmOK, PastOK
    <2> QED BY <1>2, <1>g, <2>1, <2>2 DEF CloudInitEnds, ToldInv
<1>3. CASE DiagnoseAsks
    <2>1. /\ UNCHANGED <<guest, disk, past>>
          /\ diag' = [id |-> id, status |-> GuestProvisionResult, named |-> guest.named]
          /\ GuestProvisionResult # "none" /\ (guest.named => disk.inst = id)
      BY <1>3 DEF DiagnoseAsks, AnswersFor, vm
    <2>2. GuestProvisionResult \in past.reported[disk.inst] /\ GuestProvisionResult \in {"done", "failed"}
      BY <2>1 DEF GuestProvisionResult, ParseGuestProbe, ToldInv
    <2> QED BY <2>1, <2>2 DEF ToldInv
<1>4. CASE HostReboot \/ Stop \/ Restart \/ Update \/ Recreate \/ RecreateAgain \/ EditApplies
           \/ RecreateEnds
    BY <1>4, <1>guest DEF HostReboot, Stop, Restart, Update, Recreate, RecreateAgain, EditApplies,
       RecreateEnds, SetupRestarted
<1>5. CASE Setup \/ PrepareFails \/ BuildIsoFails \/ KillSetup
    BY <1>5, <1>guest DEF Setup, Prepare, RejectSeed, KeepSeed, ResolveInstanceId, MarkUnverified,
       BuildIso, SealSeed, PrepareFails, BuildIsoFails, KillSetup, vm
<1>6. CASE LaunchFails \/ WatchAnswered \/ WatchExpires \/ WatchBreaks \/ DiagnoseRecords
           \/ DiagnoseDrops \/ SaveFiles \/ Start \/ UNCHANGED vars
    BY <1>6, <1>guest DEF LaunchFails, WatchAnswered, WatchExpires, WatchBreaks, DiagnoseRecords,
       DiagnoseDrops, SaveFiles, Start, vm, vars
<1> QED
    BY <1>1, <1>2, <1>3, <1>4, <1>5, <1>6 DEF Next, Faults, Vm, Diagnose, Operator

(* Records are of minted ids. *)
LEMMA MintNext ==
    ASSUME TypeOK, IdInv, UpInv, MintInv, [Next]_vars
    PROVE  MintInv'
<1>t. /\ SeedOK /\ MarkerOK /\ UnitOK /\ VmOK /\ PastOK
      /\ id \in Nat /\ minted \in Nat /\ marker.id \in Nat /\ diag.id \in Nat /\ None = 0
    BY TypeParts, SeedAssumption DEF SeedOK, MarkerOK, Ids, None
<1>keep. ASSUME minted' \in {minted, minted + 1}, marker'.id \in {marker.id, id, diag.id},
                diag'.id \in {diag.id, id, None}
         PROVE  MintInv'
    BY <1>keep, <1>t DEF MintInv, IdInv
<1>n. NoDiag.id = None
    BY DEF NoDiag
<1>1. CASE WatchAnswered
    <2>1. watch = id
      BY <1>1, <1>t, SeedAssumption DEF WatchAnswered, UpInv, Expired, Broken, Ids, None
    <2> QED BY <1>1, <1>keep, <2>1 DEF WatchAnswered, RecordOutcome, ProvisionMarker
<1>2. CASE Diagnose
    BY <1>2, <1>keep, <1>n DEF Diagnose, DiagnoseAsks, DiagnoseRecords, DiagnoseDrops, RecordOutcome,
       ProvisionMarker, files
<1>3. CASE Setup
    BY <1>3, <1>keep DEF Setup, Prepare, RejectSeed, KeepSeed, ResolveInstanceId, MarkUnverified,
       BuildIso, SealSeed, ProvisionMarker, files
<1>4. CASE Faults \/ Launch \/ LaunchFails \/ CloudInitEnds \/ WatchExpires \/ WatchBreaks
    <2>1. UNCHANGED <<minted, marker>> /\ diag' \in {diag, NoDiag}
      BY <1>4, Zenon DEF Faults, PrepareFails, BuildIsoFails, KillSetup, HostReboot, Launch,
         LaunchFails, CloudInitEnds, WatchExpires, WatchBreaks, files
    <2> QED BY <1>keep, <1>n, <2>1
<1>5. CASE Operator \/ UNCHANGED vars
    BY <1>5, <1>keep DEF Operator, SaveFiles, Start, Stop, Restart, Update, Recreate, RecreateAgain,
       RecreateEnds, EditApplies, files, vars
<1> QED
    BY <1>1, <1>2, <1>3, <1>4, <1>5 DEF Next, Vm

(* Only a setup that writes a fresh id makes good for one that was cut short,  *)
(* and no guest is up then.                                                    *)
LEMMA TornSteps ==
    ASSUME UnitOK, PastOK, [Next]_vars
    PROVE  /\ past.torn /\ ~past'.torn => SealSeed /\ setup.fresh
           /\ past'.unnamed = past.unnamed \/ WatchAnswered \/ DiagnoseRecords
<1>same. ASSUME UNCHANGED past
         PROVE  past'.torn = past.torn /\ past'.unnamed = past.unnamed
    BY <1>same
<1>1. CASE Launch \/ CloudInitEnds
    BY <1>1, Zenon DEF Launch, CloudInitEnds, PastOK
<1>2. CASE KeepSeed
    BY <1>2 DEF KeepSeed, Noted, PastOK
<1>3. CASE ResolveInstanceId
    BY <1>3, Zenon DEF ResolveInstanceId, Noted, PastOK
<1>4. CASE SealSeed \/ BuildIsoFails
    BY <1>4 DEF SealSeed, BuildIsoFails, PastOK
<1>5. CASE KillSetup \/ HostReboot
    BY <1>5, Zenon DEF KillSetup, HostReboot, Torn, PastOK
<1>6. CASE DiagnoseRecords \/ WatchAnswered \/ Restart \/ SaveFiles \/ EditApplies
    BY <1>6, Zenon DEF DiagnoseRecords, WatchAnswered, Restart, SaveFiles, EditApplies, Edited, PastOK
<1>7. CASE Prepare \/ RejectSeed \/ MarkUnverified \/ BuildIso \/ PrepareFails
    BY <1>7, <1>same DEF Prepare, RejectSeed, MarkUnverified, BuildIso, PrepareFails
<1>8. CASE LaunchFails \/ WatchExpires \/ WatchBreaks \/ DiagnoseAsks \/ DiagnoseDrops \/ Start
           \/ Stop \/ Update \/ Recreate \/ RecreateAgain \/ RecreateEnds
    BY <1>8, <1>same DEF LaunchFails, WatchExpires, WatchBreaks, DiagnoseAsks, DiagnoseDrops, Start,
       Stop, Update, Recreate, RecreateAgain, RecreateEnds
<1>9. CASE UNCHANGED vars
    BY <1>9, <1>same DEF vars
<1> QED
    BY <1>1, <1>2, <1>3, <1>4, <1>5, <1>6, <1>7, <1>8, <1>9 DEF Next, Setup, Faults, Vm, Diagnose,
       Operator

(* What the host hears is of the id on file, and no id has an outcome before   *)
(* its seed is written.                                                        *)
LEMMA KnownNext ==
    ASSUME TypeOK, IdInv, UpInv, ToldInv, MintInv, SeedInv, KnownInv, [Next]_vars
    PROVE  KnownInv'
<1>t. /\ SeedOK /\ MarkerOK /\ UnitOK /\ VmOK /\ PastOK
      /\ id \in Ids /\ disk.inst \in Ids /\ diag.id \in Ids
      /\ minted \in Nat /\ marker.id \in Nat /\ diag.id \in Nat
    BY TypeParts DEF SeedOK, MarkerOK, VmOK, Ids
<1>g. /\ \A i \in Ids : past.reported[i] \subseteq past'.reported[i]
      /\ past.torn /\ ~past'.torn => SealSeed /\ setup.fresh
    BY <1>t, PastSteps, TornSteps
<1>keep. ASSUME ~SealSeed, id' = id, diag' \in {diag, NoDiag}, UNCHANGED marker,
                Writing' /\ setup'.fresh => Writing /\ setup.fresh,
                guest'.up => guest.up /\ disk'.inst = disk.inst
         PROVE  KnownInv'
    BY <1>keep, <1>t, <1>g DEF KnownInv
<1>1. CASE ResolveInstanceId
    <2>0. UNCHANGED <<diag, marker, guest, disk>> /\ ~guest.up
      BY <1>1 DEF ResolveInstanceId, UpInv, vm
    <2>1. CASE Mints
      <3>1. id' = minted + 1
        BY <1>1, <2>1 DEF ResolveInstanceId
      <3>2. id' # diag.id /\ id' # marker.id
        BY <1>t, <3>1 DEF MintInv
      <3> QED BY <2>0, <3>2 DEF KnownInv
    <2>2. CASE ~Mints
      <3>1. id' = id /\ ~SealSeed /\ ~setup'.fresh
        BY <1>1, <1>t, <2>2, AtFields DEF ResolveInstanceId, SealSeed, SeedInv
      <3> QED BY <1>keep, <2>0, <3>1
    <2> QED BY <2>1, <2>2
<1>2. CASE MarkUnverified
    <2>1. /\ UNCHANGED <<id, diag, guest, past>> /\ ~guest.up /\ setup.at = "mark"
          /\ marker'.status = "unverified" /\ setup'.fresh = setup.fresh
      BY <1>2, <1>t, AtFields DEF MarkUnverified, ProvisionMarker, UpInv, vm
    <2> QED BY <2>1 DEF KnownInv, Writing
<1>3. CASE SealSeed
    <2>1. /\ UNCHANGED <<id, diag, marker, guest>> /\ ~guest.up /\ setup.at = "seal"
          /\ setup'.at = "active"
      BY <1>3, <1>t, AtFields DEF SealSeed, UpInv, vm
    <2>2. ~past'.torn => ~past.torn \/ setup.fresh
      BY <1>g
    <2> QED BY <1>t, <1>g, <2>1, <2>2 DEF KnownInv, Writing
<1>4. CASE Prepare \/ RejectSeed \/ KeepSeed \/ BuildIso \/ PrepareFails \/ BuildIsoFails \/ KillSetup
    <2>1. /\ UNCHANGED <<id, diag, marker, guest, disk>> /\ ~SealSeed
          /\ Writing' => Writing /\ setup'.fresh = setup.fresh
      <3>1. CASE Prepare \/ RejectSeed \/ KeepSeed \/ BuildIso
        BY <3>1, <1>t, AtFields DEF Prepare, RejectSeed, KeepSeed, BuildIso, SealSeed, SetupFails,
           Writing, files, vm
      <3>2. CASE PrepareFails \/ BuildIsoFails \/ KillSetup
        <4>1. UNCHANGED <<id, diag, marker, guest, disk>> /\ ~Writing'
          BY <3>2, <1>t, AtFields DEF PrepareFails, BuildIsoFails, KillSetup, SetupFails, Writing, files, vm
        <4>2. ~SealSeed
          BY <3>2, <1>t, AtFields DEF PrepareFails, BuildIsoFails, KillSetup, SealSeed, SetupFails
        <4> QED BY <4>1, <4>2
      <3> QED BY <1>4, <3>1, <3>2
    <2> QED BY <1>keep, <2>1
<1>5. CASE Starts
    <2>1. id' = id /\ marker' = marker /\ (Writing' => Writing /\ setup' = setup)
      BY <1>5, <1>t, StartsDo DEF Writing
    <2>2. diag' \in {diag, NoDiag} /\ (guest'.up => guest.up /\ disk' = disk)
      BY <1>5 DEF Starts, HostReboot, Start, Restart, Update, Recreate, RecreateAgain, EditApplies,
         SetupRestarted, VmOff, Off, vm
    <2>3. ~SealSeed
      <3>1. CASE SealSeed
        BY <3>1, <2>1, <1>5, <1>t, AtFields, StartsDo DEF SealSeed
      <3> QED BY <3>1
    <2> QED BY <1>keep, <2>1, <2>2, <2>3
<1>6. CASE Beside
    <2>1. UNCHANGED <<id, iso, setup>>
      BY <1>6, BesideKeeps
    <2>2. ~SealSeed /\ (guest.up => ~Writing)
      BY <1>t, <2>1, AtFields DEF SealSeed, UpInv, Writing
    <2>3. CASE Launch
      <3>1. /\ UNCHANGED <<diag, marker>> /\ disk' = Booted /\ setup.at = "active"
        BY <2>3 DEF Launch, files
      <3>2. ASSUME ~past'.torn PROVE disk'.inst = id
        <4>1. ~past.torn /\ ~Writing
          BY <1>g, <2>2, <3>1, <3>2 DEF Writing
        <4>2. iso = [id |-> id, text |-> fp, state |-> "whole"]
          BY <3>1, <4>1, Zenon DEF SeedInv
        <4> QED BY <3>1, <4>2 DEF Booted
      <3> QED BY <1>t, <1>g, <2>1, <2>2, <3>1, <3>2 DEF KnownInv, Writing
    <2>4. CASE WatchAnswered
      <3>1. /\ UNCHANGED <<diag, guest, disk>> /\ guest.up
        BY <2>4 DEF WatchAnswered
      <3> QED BY <1>t, <1>g, <2>1, <2>2, <3>1 DEF KnownInv, Writing
    <2>5. CASE DiagnoseAsks
      <3>1. /\ UNCHANGED <<marker, guest, disk, past>> /\ guest.up /\ GuestProvisionResult # "none"
            /\ diag' = [id |-> id, status |-> GuestProvisionResult, named |-> guest.named]
        BY <2>5 DEF DiagnoseAsks, AnswersFor, files, vm
      <3>2. GuestProvisionResult \in past.reported[disk.inst]
        BY <3>1 DEF GuestProvisionResult, ToldInv
      <3> QED BY <2>1, <2>2, <3>1, <3>2 DEF KnownInv, Writing
    <2>6. CASE DiagnoseRecords
      <3>1. /\ UNCHANGED <<guest, disk>> /\ diag # NoDiag /\ diag' = NoDiag /\ marker'.id = diag.id
        BY <2>6 DEF DiagnoseRecords, RecordOutcome, ProvisionMarker, vm
      <3> QED BY <1>t, <1>g, <2>1, <2>2, <3>1 DEF KnownInv, Writing
    <2>7. CASE CloudInitEnds
      <3>1. UNCHANGED <<diag, marker>> /\ guest.up /\ disk'.inst = disk.inst
        BY <2>7, <1>t, Zenon DEF CloudInitEnds, VmOK, files
      <3> QED BY <1>keep, <2>1, <2>2, <3>1 DEF Writing
    <2>8. CASE LaunchFails \/ WatchExpires \/ WatchBreaks \/ DiagnoseDrops \/ SaveFiles \/ Stop
               \/ RecreateEnds \/ UNCHANGED vars
      <3>1. UNCHANGED <<marker, disk>> /\ diag' \in {diag, NoDiag} /\ (guest' \in {guest, Off})
        BY <2>8, Zenon DEF LaunchFails, WatchExpires, WatchBreaks, DiagnoseDrops, SaveFiles, Stop,
           RecreateEnds, VmOff, files, vm, vars
      <3>2. guest'.up => guest.up
        BY <3>1 DEF Off
      <3> QED BY <1>keep, <2>1, <2>2, <3>1, <3>2 DEF Writing
    <2> QED BY <1>6, <2>3, <2>4, <2>5, <2>6, <2>7, <2>8 DEF Beside, Vm, Diagnose
<1> QED
    BY <1>1, <1>2, <1>3, <1>4, <1>5, <1>6, Kinds

(* The marker is written with what was reported, or with no outcome. *)
LEMMA EvidenceNext ==
    ASSUME TypeOK, UpInv, ToldInv, MintInv, KnownInv, MarkerIsEvidence, [Next]_vars
    PROVE  MarkerIsEvidence'
<1>t. SeedOK /\ MarkerOK /\ UnitOK /\ VmOK /\ PastOK
    BY TypeParts
<1>g. /\ \A i \in Ids : past.reported[i] \subseteq past'.reported[i]
      /\ past.torn /\ ~past'.torn => SealSeed /\ setup.fresh
      /\ past'.unnamed = past.unnamed \/ WatchAnswered \/ DiagnoseRecords
      /\ marker.id \in Ids /\ diag.id \in Ids /\ disk.inst \in Ids /\ id \in Ids
    BY <1>t, PastSteps, TornSteps DEF MarkerOK, VmOK, SeedOK
<1>same. ASSUME UNCHANGED <<marker, id>>, ~SealSeed, ~WatchAnswered, ~DiagnoseRecords
         PROVE  MarkerIsEvidence'
    BY <1>same, <1>g DEF MarkerIsEvidence
<1>1. CASE MarkUnverified
    BY <1>1 DEF MarkUnverified, ProvisionMarker, MarkerIsEvidence
<1>2. CASE WatchAnswered
    <2>1. watch = id /\ guest.up
      BY <1>2, <1>t, SeedAssumption DEF WatchAnswered, UpInv, Expired, Broken, Ids, None
    <2>2. /\ marker'.id = id /\ marker'.status = GuestProvisionResult /\ id' = id
          /\ past'.unnamed = ~guest.named /\ past'.torn = past.torn
      BY <1>2, <1>t, <2>1 DEF WatchAnswered, RecordOutcome, ProvisionMarker, PastOK
    <2>3. GuestProvisionResult \in past.reported[disk.inst] /\ (guest.named => disk.inst = id)
      BY <1>2, <2>1 DEF WatchAnswered, AnswersFor, GuestProvisionResult, ToldInv
    <2> QED BY <1>g, <2>1, <2>2, <2>3 DEF MarkerIsEvidence, KnownInv
<1>3. CASE DiagnoseRecords
    <2>1. /\ marker'.id = diag.id /\ marker'.status = diag.status /\ id' = id /\ diag # NoDiag
          /\ past'.unnamed = ~diag.named /\ past'.torn = past.torn
      BY <1>3, <1>t DEF DiagnoseRecords, RecordOutcome, ProvisionMarker, PastOK
    <2> QED BY <1>g, <2>1 DEF MarkerIsEvidence, ToldInv, KnownInv
<1>4. CASE ResolveInstanceId
    <2>1. UNCHANGED marker /\ ~SealSeed /\ (~Mints => id' = id) /\ (Mints => id' = minted + 1)
      BY <1>4 DEF ResolveInstanceId, SealSeed
    <2>2. Mints => id' # marker.id
      <3>1. minted \in Nat /\ marker.id \in Nat
        BY <1>t DEF SeedOK, MarkerOK, Ids
      <3> QED BY <2>1, <3>1 DEF MintInv
    <2>3. past'.unnamed = past.unnamed
      BY <1>4, <1>t, Zenon DEF ResolveInstanceId, Noted, PastOK
    <2>4. CASE Mints
      BY <1>g, <2>1, <2>2, <2>3, <2>4 DEF MarkerIsEvidence
    <2>5. CASE ~Mints
      BY <1>g, <2>1, <2>3, <2>5 DEF MarkerIsEvidence
    <2> QED BY <2>4, <2>5
<1>5. CASE SealSeed
    <2>1. UNCHANGED <<marker, id>> /\ setup.at = "seal"
      BY <1>5 DEF SealSeed
    <2>2. past'.unnamed = past.unnamed
      BY <1>5, <1>t, Zenon DEF SealSeed, PastOK
    <2>3. past.torn /\ ~past'.torn /\ marker.id = id => marker.status = "unverified"
      BY <1>g, <2>1 DEF KnownInv, Writing
    <2> QED BY <1>g, <2>1, <2>2, <2>3 DEF MarkerIsEvidence
<1>6. CASE ~MarkUnverified /\ ~WatchAnswered /\ ~DiagnoseRecords /\ ~ResolveInstanceId /\ ~SealSeed
    <2>1. CASE Setup \/ Faults
      BY <1>6, <2>1, <1>same DEF Setup, Faults, Prepare, RejectSeed, KeepSeed, BuildIso, PrepareFails,
         BuildIsoFails, KillSetup, HostReboot, files
    <2>2. CASE Vm \/ Diagnose
      BY <1>6, <2>2, <1>same DEF Vm, Diagnose, Launch, LaunchFails, CloudInitEnds, WatchExpires,
         WatchBreaks, DiagnoseAsks, DiagnoseDrops, files
    <2>3. CASE Operator \/ UNCHANGED vars
      BY <1>6, <2>3, <1>same DEF Operator, SaveFiles, Start, Stop, Restart, Update, Recreate,
         RecreateAgain, RecreateEnds, EditApplies, files, vars
    <2> QED BY <2>1, <2>2, <2>3 DEF Next
<1> QED
    BY <1>1, <1>2, <1>3, <1>4, <1>5, <1>6

(* A heal is counted where it is made, and a count that is lost is a loss. *)
LEMMA HealNext ==
    ASSUME TypeOK, IdInv, UpInv, HealInv, [Next]_vars
    PROVE  HealInv'
<1>t. SeedOK /\ MarkerOK /\ UnitOK /\ VmOK /\ PastOK
    BY TypeParts
<1>n. /\ marker.heals \in Nat /\ setup.heals \in Nat /\ past.heals \in Nat /\ past.losses \in Nat
      /\ MaxHealAttempts = 1
    BY <1>t DEF MarkerOK, UnitOK, PastOK, MaxHealAttempts
<1>c. Counted \in Nat /\ Counted <= 1
    BY <1>n DEF Counted, HealInv
<1>same. ASSUME past'.heals = past.heals, past'.losses = past.losses, UNCHANGED <<marker, id>>,
                setup'.heals \in {setup.heals, 0},
                setup'.at = "mark" => setup.at = "mark" /\ setup'.heals = setup.heals,
                setup.at = "mark" => setup'.at = "mark"
         PROVE  HealInv'
    BY <1>same, <1>n DEF HealInv, Counted
<1>1. CASE ResolveInstanceId
    <2>1. CASE Mints
      <3>1. /\ setup'.at = "mark" /\ UNCHANGED marker
            /\ setup'.heals = IF Healing THEN HealAttempts(marker, id) + 1 ELSE 0
        BY <1>1, <1>t, <2>1, Zenon DEF ResolveInstanceId, UnitOK
      <3>2. /\ past'.heals = IF Healing THEN past.heals + 1 ELSE 0
            /\ past'.losses = IF Healing THEN past.losses ELSE 0
        BY <1>1, <1>t, <2>1, Zenon DEF ResolveInstanceId, Noted, PastOK
      <3>3. CASE Healing
        <4>1. marker.id = id /\ marker.heals = 0 /\ HealAttempts(marker, id) = 0 /\ setup.at # "mark"
          BY <1>1, <1>n, <3>3 DEF Healing, ShouldHeal, MarkerReportsFailure, HealAttempts,
             ResolveInstanceId
        <4>2. Counted = 0 /\ past.heals <= past.losses
          BY <1>n, <4>1 DEF Counted, HealInv
        <4> QED BY <1>n, <3>1, <3>2, <3>3, <4>1, <4>2 DEF Counted, HealInv
      <3>4. CASE ~Healing
        BY <1>n, <3>1, <3>2, <3>4 DEF Counted, HealInv
      <3> QED BY <3>3, <3>4
    <2>2. CASE ~Mints
      <3>1. past'.heals = past.heals /\ past'.losses = past.losses
        BY <1>1, <1>t, <2>2 DEF ResolveInstanceId, Noted, PastOK
      <3> QED BY <1>1, <1>t, <1>same, <2>2, <3>1, AtFields DEF ResolveInstanceId
    <2> QED BY <2>1, <2>2
<1>2. CASE MarkUnverified
    <2>1. /\ marker'.id = id /\ marker'.heals = setup.heals /\ id' = id /\ setup'.at = "iso"
          /\ setup'.heals = setup.heals /\ past' = past /\ setup.at = "mark"
      BY <1>2, <1>t, AtFields DEF MarkUnverified, ProvisionMarker
    <2> QED BY <1>n, <2>1 DEF HealInv, Counted
<1>3. CASE KillSetup \/ HostReboot
    <2>1. /\ UNCHANGED <<marker, id>> /\ setup'.at # "mark" /\ setup'.heals \in {setup.heals, 0}
      BY <1>3, <1>t, AtFields DEF KillSetup, HostReboot, SetupFails, SetupStarted
    <2>2. CASE setup.at = "mark"
      <3>1. past'.heals = past.heals /\ past'.losses = past.losses + 1
        BY <1>3, <1>t, <2>2, Zenon DEF KillSetup, HostReboot, Torn, Steps, PastOK
      <3> QED BY <1>n, <1>c, <2>1, <2>2, <3>1 DEF HealInv, Counted
    <2>3. CASE setup.at # "mark"
      <3>1. past'.heals = past.heals /\ past'.losses = past.losses
        BY <1>3, <1>t, <2>3, Zenon DEF KillSetup, HostReboot, Torn, PastOK
      <3> QED BY <1>same, <2>1, <2>3, <3>1
    <2> QED BY <2>2, <2>3
<1>4. CASE WatchAnswered
    <2>1. watch = id /\ setup.at = "active"
      BY <1>4, <1>t, SeedAssumption DEF WatchAnswered, UpInv, Expired, Broken, Ids, None
    <2>2. marker'.id = id /\ marker'.heals = IF marker.id = id THEN marker.heals ELSE 0
      BY <1>4, <2>1 DEF WatchAnswered, RecordOutcome, ProvisionMarker, HealAttempts
    <2>3. UNCHANGED <<setup, id>> /\ past'.heals = past.heals /\ past'.losses = past.losses
      BY <1>4, <1>t DEF WatchAnswered, PastOK, units
    <2> QED BY <1>n, <2>1, <2>2, <2>3 DEF HealInv, Counted
<1>5. CASE DiagnoseRecords
    <2>1. /\ marker'.heals = IF marker.id = diag.id THEN marker.heals ELSE 0
          /\ marker'.id = diag.id /\ UNCHANGED <<setup, id>>
      BY <1>5 DEF DiagnoseRecords, RecordOutcome, ProvisionMarker, HealAttempts, units
    <2>2. /\ past'.heals = past.heals
          /\ past'.losses = IF marker.id = diag.id THEN past.losses ELSE past.losses + 1
      BY <1>5, <1>t DEF DiagnoseRecords, PastOK
    <2> QED BY <1>n, <1>c, <2>1, <2>2 DEF HealInv, Counted
<1>6. CASE Prepare \/ RejectSeed \/ KeepSeed \/ BuildIso \/ SealSeed \/ PrepareFails \/ BuildIsoFails
    <2>1. /\ UNCHANGED <<marker, id>> /\ setup.at # "mark" /\ setup'.at # "mark"
          /\ setup'.heals = setup.heals
      BY <1>6, <1>t, AtFields DEF Prepare, RejectSeed, KeepSeed, BuildIso, SealSeed, PrepareFails,
         BuildIsoFails, SetupFails, files
    <2>2. past'.heals = past.heals /\ past'.losses = past.losses
      BY <1>6, <1>t, Zenon DEF Prepare, RejectSeed, KeepSeed, BuildIso, SealSeed, PrepareFails,
         BuildIsoFails, Noted, PastOK
    <2> QED BY <1>same, <2>1, <2>2
<1>7. CASE Starts /\ ~HostReboot
    <2>1. past'.heals = past.heals /\ past'.losses = past.losses
      BY <1>7, <1>t DEF Starts, Start, Restart, Update, Recreate, RecreateAgain, EditApplies, Edited,
         PastOK
    <2> QED BY <1>7, <1>t, <1>same, <2>1, StartsDo DEF Steps
<1>8. CASE Beside /\ ~WatchAnswered /\ ~DiagnoseRecords
    <2>1. UNCHANGED <<setup, marker, id>>
      BY <1>8, Zenon DEF Beside, Vm, Diagnose, Launch, LaunchFails, CloudInitEnds, WatchExpires,
         WatchBreaks, DiagnoseAsks, DiagnoseDrops, SaveFiles, Stop, RecreateEnds, vars, files, units
    <2>2. past'.heals = past.heals /\ past'.losses = past.losses
      BY <1>8, <1>t, Zenon DEF Beside, Vm, Diagnose, Launch, LaunchFails, CloudInitEnds, WatchExpires,
         WatchBreaks, DiagnoseAsks, DiagnoseDrops, SaveFiles, Stop, RecreateEnds, Edited, vars, PastOK
    <2> QED BY <1>same, <2>1, <2>2
<1> QED
    BY <1>1, <1>2, <1>3, <1>4, <1>5, <1>6, <1>7, <1>8, Kinds

(* A seed that goes to be written has been checked, and its key is pinned. *)
LEMMA AcceptNext ==
    ASSUME TypeOK, AcceptInv, [Next]_vars
    PROVE  AcceptInv'
<1>t. FilesOK /\ UnitOK
    BY TypeParts
<1>on. ASSUME Accepted, setup'.config = setup.config, UNCHANGED <<pinned, share>>,
              setup'.at # "render"
       PROVE  AcceptInv'
    BY <1>on DEF AcceptInv, Accepted
<1>off. ASSUME setup'.at \in {"parts", "failed"} PROVE AcceptInv'
    BY <1>off DEF AcceptInv, Accepted
<1>same. ASSUME UNCHANGED <<setup, pinned, share, parts>> PROVE AcceptInv'
    BY <1>same DEF AcceptInv, Accepted
<1>1. CASE Prepare
    <2>1. setup'.at = "render" /\ setup'.config = setup.config
      BY <1>1, <1>t, AtFields DEF Prepare
    <2>2. parts'["client"] = Generated("client")
      BY <1>1 DEF Prepare, GenerateSshKeypair
    <2>3. setup.config.volume = "home" /\ Generated("client") = "whole" => "ours" \in share'
      BY <1>1 DEF Prepare, SeedsHomeShare, GenerateSshKeypair, SeedAuthorizedKeys
    <2>4. Generated("client") \in {"whole", "half"}
      BY <1>t DEF Generated, FilesOK, Parts
    <2> QED BY <2>1, <2>2, <2>3, <2>4 DEF AcceptInv, Accepted
<1>2. CASE KeepSeed \/ ResolveInstanceId
    <2>1. /\ setup'.config = setup.config /\ setup'.at # "render" /\ setup.at = "render"
          /\ pinned' = TRUE /\ UNCHANGED share /\ ~SeedRejected(setup.config)
      <3>1. CASE KeepSeed
        BY <3>1, <1>t, AtFields DEF KeepSeed, WriteKnownHosts
      <3>2. CASE ResolveInstanceId /\ Mints
        BY <3>2, <1>t, Zenon DEF ResolveInstanceId, WriteKnownHosts, UnitOK
      <3>3. CASE ResolveInstanceId /\ ~Mints
        BY <3>3, <1>t, AtFields DEF ResolveInstanceId, WriteKnownHosts
      <3> QED BY <1>2, <3>1, <3>2, <3>3, Zenon
    <2> QED BY <2>1 DEF AcceptInv, Accepted, SeedRejected
<1>3. CASE MarkUnverified \/ BuildIso \/ SealSeed \/ BuildIsoFails
    BY <1>3, <1>t, <1>on, AtFields DEF MarkUnverified, BuildIso, SealSeed, BuildIsoFails, Accepted,
       files
<1>4. CASE RejectSeed \/ PrepareFails \/ KillSetup
    BY <1>4, <1>t, <1>off, AtFields DEF RejectSeed, PrepareFails, KillSetup, SetupFails
<1>5. CASE Starts
    <2>1. CASE HostReboot
      BY <2>1, <1>off DEF HostReboot, SetupStarted
    <2> QED BY <1>5, <1>t, <1>off, <1>same, <2>1, StartsDo
<1>6. CASE Beside
    BY <1>6, <1>same, BesideKeeps
<1> QED
    BY <1>1, <1>2, <1>3, <1>4, <1>5, <1>6, Kinds

(* The seed on tmpfs and the disk follow the fingerprint. *)
LEMMA SeedNext ==
    ASSUME TypeOK, IdInv, UpInv, SeedInv, [Next]_vars
    PROVE  SeedInv'
<1>t. /\ SeedOK /\ UnitOK /\ VmOK /\ PastOK
      /\ minted \in Nat /\ disk.inst \in Nat /\ None = 0
    BY TypeParts DEF SeedOK, VmOK, Ids, None
<1>still. ASSUME UNCHANGED <<fp, id, iso, disk>>, past'.torn = past.torn, ~Writing, ~Writing',
                 setup'.at # "active", setup'.at \in {"parts", "render"} => ~setup'.fresh
          PROVE  SeedInv'
    BY <1>still DEF SeedInv, Writing
<1>cut. ASSUME UNCHANGED <<fp, id>>, past'.torn, setup'.at \in {"failed", "active"} PROVE SeedInv'
    BY <1>cut DEF SeedInv, Writing
<1>1. CASE Prepare \/ RejectSeed \/ PrepareFails
    <2>1. /\ UNCHANGED <<fp, id, iso, disk>> /\ past' = past /\ ~Writing
          /\ setup'.at \in {"render", "failed"} /\ setup'.fresh = setup.fresh
          /\ setup.at \in {"parts", "render"}
      BY <1>1, <1>t, AtFields, Zenon DEF Prepare, RejectSeed, PrepareFails, SetupFails, Writing, files, vm
    <2> QED BY <1>still, <2>1 DEF SeedInv, Writing
<1>2. CASE KillSetup
    <2>1. UNCHANGED <<fp, id, disk>> /\ setup'.at = "failed"
      BY <1>2, <1>t, AtFields DEF KillSetup, SetupFails, vm
    <2>2. past'.torn = (past.torn \/ Writing)
      BY <1>2, <1>t DEF KillSetup, Torn, PastOK, Writing
    <2>3. CASE Writing
      BY <1>cut, <2>1, <2>2, <2>3, Zenon
    <2>4. CASE ~Writing
      <3>1. UNCHANGED iso
        BY <1>2, <2>4 DEF KillSetup, Writing
      <3> QED BY <1>still, <1>t, <2>1, <2>2, <2>4, <3>1 DEF Writing, PastOK
    <2> QED BY <2>3, <2>4
<1>3. CASE HostReboot
    <2>1. /\ UNCHANGED <<fp, id, disk>> /\ iso' = NoIso /\ setup'.at = "parts" /\ ~setup'.fresh
      BY <1>3 DEF HostReboot, SetupStarted
    <2>2. ~past'.torn => ~past.torn /\ ~Writing
      BY <1>3, <1>t, Zenon DEF HostReboot, Torn, PastOK, Writing, Steps
    <2> QED BY <2>1, <2>2 DEF SeedInv, Writing, NoIso
<1>4. CASE KeepSeed
    <2>1. /\ UNCHANGED <<fp, id, iso, disk>> /\ past'.torn = past.torn
          /\ setup'.at = "active" /\ setup'.config = setup.config
          /\ setup.at = "render" /\ fp = UserData(setup.config) /\ iso.state # "none"
      BY <1>4, <1>t, AtFields DEF KeepSeed, UpToDate, FpUnchanged, Noted, PastOK, vm
    <2> QED BY <2>1, Zenon DEF SeedInv, Writing
<1>5. CASE ResolveInstanceId
    <2>0. /\ UNCHANGED <<fp, iso, disk>> /\ setup.at = "render" /\ ~setup.fresh
      BY <1>5 DEF ResolveInstanceId, SeedInv, vm
    <2>1. CASE Mints
      <3>1. setup'.at = "mark" /\ setup'.fresh /\ id' = minted + 1
        BY <1>5, <1>t, <2>1, Zenon DEF ResolveInstanceId, UnitOK
      <3>2. id' # None /\ disk'.inst # id'
        BY <1>t, <2>0, <3>1 DEF IdInv
      <3> QED BY <3>1, <3>2 DEF SeedInv, Writing
    <2>2. CASE ~Mints
      <3>1. setup'.at = "iso" /\ ~setup'.fresh /\ setup'.config = setup.config /\ id' = id
        BY <1>5, <1>t, <2>0, <2>2, AtFields DEF ResolveInstanceId
      <3>2. fp = UserData(setup.config)
        BY <2>2 DEF Mints, FpUnchanged
      <3>3. past'.torn = past.torn
        BY <1>5, <1>t, <2>2 DEF ResolveInstanceId, Noted, PastOK
      <3> QED BY <2>0, <3>1, <3>2, <3>3 DEF SeedInv, Writing
    <2> QED BY <2>1, <2>2
<1>6. CASE MarkUnverified
    <2>1. /\ UNCHANGED <<fp, id, iso, disk, past>> /\ setup.at = "mark" /\ setup'.at = "iso"
          /\ setup'.config = setup.config /\ setup'.fresh = setup.fresh
      BY <1>6, <1>t, AtFields DEF MarkUnverified, vm
    <2> QED BY <2>1 DEF SeedInv, Writing
<1>7. CASE BuildIso
    <2>1. /\ UNCHANGED <<fp, id, disk, past>> /\ setup.at = "iso" /\ setup'.at = "seal"
          /\ setup'.config = setup.config /\ setup'.fresh = setup.fresh
          /\ iso' = [id |-> id, text |-> UserData(setup.config), state |-> "whole"]
      BY <1>7, <1>t, AtFields DEF BuildIso, files, vm
    <2> QED BY <2>1, Zenon DEF SeedInv, Writing
<1>8. CASE SealSeed
    <2>1. /\ UNCHANGED <<id, iso, disk>> /\ fp' = UserData(setup.config)
          /\ setup.at = "seal" /\ setup'.at = "active" /\ setup'.config = setup.config
      BY <1>8, <1>t, AtFields DEF SealSeed, vm
    <2>2. ~past'.torn => ~past.torn \/ setup.fresh
      BY <1>8, <1>t DEF SealSeed, PastOK
    <2>3. id # None /\ iso = [id |-> id, text |-> fp', state |-> "whole"]
      BY <2>1 DEF IdInv, Accepted, SeedInv
    <2>4. ~past'.torn /\ disk.inst = id => disk.text = fp'
      BY <2>1, <2>2 DEF SeedInv, Writing
    <2> QED BY <2>1, <2>3, <2>4 DEF SeedInv, Writing
<1>9. CASE BuildIsoFails
    <2>1. UNCHANGED <<fp, id>> /\ setup'.at = "active" /\ past'.torn
      BY <1>9, <1>t, AtFields DEF BuildIsoFails, PastOK, files
    <2> QED BY <1>cut, <2>1
<1>10. CASE Starts /\ ~HostReboot
    <2>1. /\ UNCHANGED <<fp, id, iso>> /\ past'.torn = past.torn
          /\ \/ UNCHANGED setup
             \/ setup'.at = "parts" /\ ~setup'.fresh /\ ~Writing
      <3>1. past'.torn = past.torn
        <4>1. CASE Update \/ Recreate \/ RecreateAgain
          BY <4>1, <1>t DEF Update, Recreate, RecreateAgain, PastOK
        <4>2. CASE Start \/ Restart \/ EditApplies
          BY <4>2, <1>t DEF Start, Restart, EditApplies, Edited, PastOK
        <4> QED BY <1>10, <4>1, <4>2, Zenon DEF Starts
      <3> QED BY <1>10, <1>t, <3>1, StartsDo DEF Steps, Writing, SetupStarted
    <2>2. UNCHANGED disk \/ (disk' = Blank /\ ~Writing)
      BY <1>10 DEF Starts, Start, Restart, Update, Recreate, RecreateAgain, EditApplies, UpInv,
         Writing, vm
    <2>3. disk'.inst = id => disk' = disk \/ disk'.text = fp
      BY <2>2 DEF Blank, SeedInv
    <2> QED BY <2>1, <2>2, <2>3 DEF SeedInv, Writing
<1>11. CASE Beside
    <2>1. UNCHANGED <<fp, id, iso, setup>>
      BY <1>11, BesideKeeps
    <2>2. past'.torn = past.torn
      BY <1>11, <1>t, Zenon DEF Beside, Vm, Diagnose, Launch, LaunchFails, CloudInitEnds, WatchAnswered,
         WatchExpires, WatchBreaks, DiagnoseAsks, DiagnoseRecords, DiagnoseDrops, SaveFiles, Stop,
         RecreateEnds, Edited, PastOK, vars
    <2>3. CASE Launch /\ disk' = Booted
      <3>1. setup.at = "active"
        BY <2>3 DEF Launch
      <3>2. ASSUME ~past.torn, disk'.inst = id PROVE disk'.text = fp
        <4>1. CASE iso.state = "whole" /\ iso.id # disk.inst
          <5>1. disk'.text = iso.text
            BY <2>3, <4>1 DEF Booted
          <5>2. iso.state # "none" /\ ~Writing
            BY <3>1, <4>1 DEF Writing
          <5>3. iso = [id |-> id, text |-> fp, state |-> "whole"]
            BY <3>2, <5>2, Zenon DEF SeedInv
          <5> QED BY <5>1, <5>3
        <4>2. CASE ~(iso.state = "whole" /\ iso.id # disk.inst)
          <5>1. disk' = disk
            BY <2>3, <4>2 DEF Booted
          <5> QED BY <3>1, <3>2, <5>1 DEF SeedInv, Writing
        <4> QED BY <4>1, <4>2
      <3> QED BY <2>1, <2>2, <3>1, <3>2 DEF SeedInv, Writing
    <2>4. CASE disk'.inst = disk.inst /\ disk'.text = disk.text
      BY <2>1, <2>2, <2>4 DEF SeedInv, Writing
    <2> QED BY <1>11, <1>t, <2>3, <2>4, DiskSteps
<1> QED
    BY <1>1, <1>2, <1>3, <1>4, <1>5, <1>6, <1>7, <1>8, <1>9, <1>10, <1>11, Kinds

(* An accepted seed is not empty: it says where the host key comes from. *)
LEMMA AcceptedIsSome ==
    ASSUME AcceptInv, Accepted
    PROVE  UserData(setup.config) # NoText
<1> DEFINE c == setup.config
<1>1. CASE c.custom
    <2>1. UserData(c).says \cap {"ssh_keys", "write_files"} # {}
      BY <1>1 DEF AcceptInv, SeedContract, HostKeyContract
    <2>2. NoText.says = {}
      BY DEF NoText
    <2> QED BY <2>1, <2>2
<1>2. CASE ~c.custom
    BY <1>2 DEF UserData, DefaultUserData, NoText
<1> QED
    BY <1>1, <1>2

(* After a quiet launch setup finds its seed current, or writes it again under *)
(* the same id.                                                                *)
LEMMA QuietNext ==
    ASSUME TypeOK, MarkerIsEvidence, IdInv, UpInv, AcceptInv, SeedInv, QuietInv, [Next]_vars
    PROVE  QuietInv'
<1>t. SeedOK /\ MarkerOK /\ UnitOK /\ VmOK /\ PastOK /\ id \in Ids /\ disk.inst \in Ids
    BY TypeParts DEF SeedOK, VmOK
<1>s. /\ past'.quiet => Launch \/ past.quiet
      /\ CloudInitEnds \/ Launch \/ past'.reported = past.reported
    BY <1>t, PastSteps
<1>keep. ASSUME past.quiet, UNCHANGED <<fp, id>>, ~past'.torn, past'.reported = past.reported,
                UserData(config') = UserData(config), disk'.inst \in {disk.inst, None},
                ~(Writing' /\ setup'.fresh),
                setup'.at \in {"parts", "render", "iso", "seal", "active"} => fp = UserData(setup'.config)
         PROVE  QuietInv'
    BY <1>keep DEF QuietInv
<1>loud. ASSUME ~past'.quiet PROVE QuietInv'
    BY <1>loud DEF QuietInv
<1>1. CASE Launch
    <2>0. SUFFICES ASSUME past'.quiet PROVE QuietInv'
      BY <1>loud
    <2>1. /\ setup.at = "active" /\ UNCHANGED <<config, fp, id, setup>> /\ disk' = Booted
      BY <1>1 DEF Launch, files
    <2>2. "failed" \notin past.reported[iso.id] /\ ~past.torn /\ config = setup.config
      BY <1>1, <1>t, <2>0 DEF Launch, PastOK
    <2>3. /\ past'.torn = past.torn
          /\ \A i \in Ids : past'.reported[i] \in {past.reported[i], past.reported[i] \cup {"done"}}
      BY <1>1, <1>t DEF Launch, PastOK
    <2>4. iso = [id |-> id, text |-> fp, state |-> "whole"] /\ fp = UserData(setup.config)
      BY <2>1, <2>2 DEF SeedInv, Writing
    <2>5. fp # NoText /\ id # None
      BY <2>1, <2>4, AcceptedIsSome DEF IdInv, Accepted
    <2>6. disk'.inst = id
      BY <2>1, <2>4 DEF Booted
    <2>7. "failed" \notin past'.reported[id'] /\ ~past'.torn
      BY <1>t, <2>1, <2>2, <2>3, <2>4
    <2>8. fp' = UserData(config') /\ fp' = UserData(setup'.config) /\ ~Writing'
      BY <2>1, <2>2, <2>4 DEF Writing
    <2> QED BY <2>1, <2>5, <2>6, <2>7, <2>8, Zenon DEF QuietInv
<1>2. CASE CloudInitEnds
    <2>0. SUFFICES ASSUME past'.quiet PROVE QuietInv'
      BY <1>loud
    <2>1. PICK r : past' = [past EXCEPT !.reported[disk.inst] = @ \cup {ParseGuestProbe(r)},
                                        !.quiet = @ /\ r = "done"]
      BY <1>2, Zenon DEF CloudInitEnds
    <2>2. past.quiet /\ r = "done" /\ past'.torn = past.torn
      BY <1>t, <2>0, <2>1, Zenon DEF PastOK
    <2>3. ParseGuestProbe(r) = "done"
      BY <2>2 DEF ParseGuestProbe
    <2>4. \A i \in Ids : past'.reported[i] \in {past.reported[i], past.reported[i] \cup {"done"}}
      BY <1>t, <2>1, <2>3 DEF PastOK
    <2>5. UNCHANGED <<config, fp, id, setup>> /\ disk'.inst = disk.inst
      BY <1>2, <1>t DEF CloudInitEnds, VmOK, files, units
    <2> QED BY <1>t, <2>2, <2>4, <2>5 DEF QuietInv, Writing
<1>q. SUFFICES ASSUME ~Launch, ~CloudInitEnds, past.quiet PROVE QuietInv'
    BY <1>1, <1>2, <1>s, <1>loud
<1>r. past'.reported = past.reported
    BY <1>q, <1>s
<1>3. CASE Prepare \/ RejectSeed \/ PrepareFails
    <2>1. /\ UNCHANGED <<config, fp, id, disk, past>> /\ setup'.at \in {"render", "failed"}
          /\ setup'.config = setup.config /\ setup.at \in {"parts", "render"}
      BY <1>3, <1>t, AtFields DEF Prepare, RejectSeed, PrepareFails, SetupFails, files, vm
    <2> QED BY <1>keep, <1>q, <2>1 DEF QuietInv, Writing
<1>4. CASE KillSetup \/ BuildIsoFails
    BY <1>4, <1>t, <1>loud, Zenon DEF KillSetup, BuildIsoFails, Torn, PastOK
<1>5. CASE KeepSeed
    <2>1. /\ UNCHANGED <<config, fp, id, disk>> /\ past'.torn = past.torn /\ setup'.at = "active"
          /\ setup'.config = setup.config /\ setup.at = "render"
      BY <1>5, <1>t, AtFields DEF KeepSeed, Noted, PastOK, vm
    <2> QED BY <1>keep, <1>q, <1>r, <2>1, Zenon DEF QuietInv, Writing
<1>6. CASE ResolveInstanceId
    <2>1. setup.at = "render" /\ UNCHANGED <<config, fp, disk>>
      BY <1>6 DEF ResolveInstanceId, vm
    <2>2. FpUnchanged /\ id # None
      BY <1>q, <2>1 DEF FpUnchanged, QuietInv
    <2>3. ~Healing
      BY <1>q DEF Healing, ShouldHeal, MarkerReportsFailure, MarkerIsEvidence, QuietInv
    <2>4. setup'.at = "iso" /\ setup'.config = setup.config /\ setup'.fresh = setup.fresh /\ id' = id
      BY <1>6, <1>t, <2>2, <2>3, AtFields DEF ResolveInstanceId, Mints
    <2>5. past'.torn = past.torn
      BY <1>6, <1>t, <2>2, <2>3 DEF ResolveInstanceId, Mints, Noted, PastOK
    <2>6. ~setup.fresh
      BY <2>1 DEF SeedInv
    <2> QED BY <1>keep, <1>q, <1>r, <2>1, <2>4, <2>5, <2>6 DEF QuietInv
<1>7. CASE MarkUnverified
    BY <1>7, <1>q DEF MarkUnverified, QuietInv, SeedInv, Writing
<1>8. CASE BuildIso \/ SealSeed
    <2>1. /\ UNCHANGED <<config, id, disk>> /\ setup'.at \in {"seal", "active"}
          /\ setup'.config = setup.config /\ setup'.fresh = setup.fresh
          /\ setup.at \in {"iso", "seal"} /\ fp' \in {fp, UserData(setup.config)}
      BY <1>8, <1>t, AtFields DEF BuildIso, SealSeed, files, vm
    <2>2. past'.torn => past.torn
      BY <1>8, <1>t DEF BuildIso, SealSeed, PastOK
    <2>3. fp' = fp /\ fp = UserData(setup.config) /\ ~setup.fresh
      BY <1>q, <2>1 DEF QuietInv, Writing
    <2> QED BY <1>keep, <1>q, <1>r, <2>1, <2>2, <2>3 DEF QuietInv
<1>9. CASE Starts
    <2>0. SUFFICES ASSUME past'.quiet PROVE QuietInv'
      BY <1>loud
    <2>1. past'.torn = past.torn /\ UserData(config') = UserData(config)
      <3>1. CASE HostReboot
        BY <1>t, <2>0, <3>1 DEF HostReboot, Torn, PastOK
      <3>2. CASE Start \/ Restart \/ Update \/ Recreate \/ RecreateAgain
        BY <1>t, <3>2 DEF Start, Restart, Update, Recreate, RecreateAgain, PastOK
      <3>3. CASE EditApplies
        BY <1>t, <2>0, <3>3, Zenon DEF EditApplies, Edited, PastOK
      <3> QED BY <1>9, <3>1, <3>2, <3>3 DEF Starts
    <2>2. disk'.inst \in {disk.inst, None}
      BY <1>9 DEF Starts, HostReboot, Start, Restart, Update, Recreate, RecreateAgain, EditApplies,
         Blank, vm
    <2>3. UNCHANGED <<fp, id>> /\ (UNCHANGED setup \/ (setup'.at = "parts" /\ setup'.config = config'))
      BY <1>9, <1>t, StartsDo
    <2> QED BY <1>keep, <1>q, <1>r, <2>1, <2>2, <2>3 DEF QuietInv, Writing
<1>10. CASE Beside
    <2>0. SUFFICES ASSUME past'.quiet PROVE QuietInv'
      BY <1>loud
    <2>1. UNCHANGED <<fp, id, setup>>
      BY <1>10, BesideKeeps
    <2>2. UNCHANGED disk
      BY <1>10, <1>q, <1>t, DiskSteps
    <2>3. past'.torn = past.torn /\ UserData(config') = UserData(config)
      BY <1>10, <1>q, <1>t, <2>0, Zenon DEF Beside, Vm, Diagnose, LaunchFails, WatchAnswered, WatchExpires,
         WatchBreaks, DiagnoseAsks, DiagnoseRecords, DiagnoseDrops, SaveFiles, Stop, RecreateEnds, Edited, PastOK, vars
    <2> QED BY <1>keep, <1>q, <1>r, <2>1, <2>2, <2>3, Zenon DEF QuietInv, Writing
<1> QED
    BY <1>3, <1>4, <1>5, <1>6, <1>7, <1>8, <1>9, <1>10, Kinds

-----------------------------------------------------------------------------
(* The theorems.                                                             *)

(* The inductive invariant. *)
SeedAndMarkerInv ==
    /\ TypeOK /\ MarkerIsEvidence /\ IdInv /\ UpInv /\ ToldInv /\ MintInv /\ HealInv
    /\ AcceptInv /\ SeedInv /\ KnownInv /\ QuietInv

(* A VM that was never set up satisfies the inductive invariant. *)
LEMMA InitHolds == Init => SeedAndMarkerInv
<1> SUFFICES ASSUME Init PROVE SeedAndMarkerInv
    OBVIOUS
<1>0. None \in Ids /\ NoText \in Text
    BY SeedAssumption DEF None, Ids, NoText, Text
<1>1. TypeOK
    <2>1. FilesOK /\ SeedOK /\ MarkerOK
      BY <1>0, Zenon DEF Init, FilesOK, SeedOK, MarkerOK, NoMarker, NoIso, NoDiag, None
    <2>2. UnitOK /\ VmOK
      BY <1>0, Zenon DEF Init, UnitOK, VmOK, SetupStates, Off, Blank
    <2>3. PastOK
      <3>1. [i \in Ids |-> {}] \in [Ids -> SUBSET {"done", "failed"}]
        OBVIOUS
      <3> QED BY <1>0, <3>1 DEF Init, PastOK
    <2>4. events \in 0 .. MaxEvents
      <3>1. events = 0
        BY Zenon DEF Init
      <3> QED BY <3>1, SeedAssumption
    <2> QED BY <2>1, <2>2, <2>3, <2>4, TypeParts
<1>i. /\ id = None /\ minted = 0 /\ iso.id = None /\ disk.inst = None /\ setup.at = "inactive"
      /\ setup.heals = 0 /\ ~guest.up /\ watch = None /\ diag = NoDiag
      /\ marker.status = "unverified" /\ marker.heals = 0 /\ marker.id = None
    BY DEF Init, NoIso, Blank, NoMarker, Off
<1>p. past.ill = None /\ past.heals = 0 /\ past.losses = 0
    BY DEF Init
<1>2. MarkerIsEvidence /\ UpInv /\ ToldInv
    BY <1>i, Zenon DEF MarkerIsEvidence, UpInv, ToldInv
<1>5. IdInv /\ MintInv
    BY <1>i, <1>p DEF IdInv, MintInv, NoDiag, Accepted, None
<1>6. KnownInv
    BY <1>i DEF KnownInv, Writing
<1>3. HealInv
    <2>1. Counted = 0
      BY <1>i, Zenon DEF Counted
    <2> QED BY <1>i, <1>p, <2>1 DEF HealInv, MaxHealAttempts
<1>4. AcceptInv /\ SeedInv /\ QuietInv
    BY DEF Init, AcceptInv, SeedInv, QuietInv, Accepted, Writing, NoIso, Blank
<1> QED
    BY <1>1, <1>2, <1>3, <1>4, <1>5, <1>6 DEF SeedAndMarkerInv

(* The inductive invariant holds in every reachable state. *)
LEMMA SeedAndMarkerInvariant == Spec => []SeedAndMarkerInv
<1>1. SeedAndMarkerInv /\ [Next]_vars => SeedAndMarkerInv'
    BY TypeNext, EvidenceNext, IdNext, UpNext, ToldNext, MintNext, HealNext, AcceptNext, SeedNext,
       KnownNext, QuietNext
    DEF SeedAndMarkerInv
<1> QED
    BY InitHolds, <1>1, PTL DEF Spec

(* Whatever order the watch, a late diagnose, a rotation of the id and a crash *)
(* come in, an outcome in the marker was reported by the guest of that very    *)
(* instance-id, even by a guest that does not name it unless the seed of the   *)
(* id on file was never written; and a lineage is healed once, and once more   *)
(* per lost count.                                                             *)
THEOREM MarkerStaysTrue == Spec => []MarkerIsTrue
<1>1. SeedAndMarkerInv => MarkerIsTrue
    <2> SUFFICES ASSUME SeedAndMarkerInv PROVE MarkerIsTrue
      OBVIOUS
    <2>1. /\ marker.heals \in Nat /\ setup.heals \in Nat /\ past.heals \in Nat /\ past.losses \in Nat
      BY DEF SeedAndMarkerInv, TypeOK
    <2>2. Counted \in Nat /\ Counted <= MaxHealAttempts
      BY <2>1 DEF SeedAndMarkerInv, HealInv, Counted, MaxHealAttempts
    <2>3. HealsBounded
      BY <2>1, <2>2 DEF SeedAndMarkerInv, HealInv, HealsBounded, MaxHealAttempts
    <2> QED BY <2>3 DEF SeedAndMarkerInv, MarkerIsTrue
<1> QED
    BY SeedAndMarkerInvariant, <1>1, PTL

(* A setup that was not cut short leaves the seed of its configuration under    *)
(* the id on file, a fresh id where a failure was recorded, and a guest that    *)
(* finished the provisioning of it can be reached and works if the seed wires   *)
(* up what it mentions: no contract misses a thing that is left out.            *)
THEOREM SeedKeepsServing == Spec => []SeedServes
<1>1. SeedAndMarkerInv => SeedServes
    <2> SUFFICES ASSUME SeedAndMarkerInv PROVE SeedServes
      OBVIOUS
    <2>1. SeedIsCurrent
      BY DEF SeedAndMarkerInv, SeedInv, SeedIsCurrent, Writing
    <2>2. HealApplies
      BY <2>1 DEF SeedAndMarkerInv, IdInv, SeedIsCurrent, HealApplies
    <2>3. AcceptedSeedWorks
      <3> DEFINE c == setup.config
      <3>0. SUFFICES ASSUME guest.up, disk.inst = id, ~past.torn, disk.text.says \subseteq disk.text.gives
                     PROVE  /\ pinned /\ KeyPresented(disk.text)
                            /\ c.inspect => "ca" \in disk.text.gives \cup c.provides
                            /\ c.volume # "none" => "mounts" \in disk.text.gives \cup c.provides
                            /\ c.volume = "home" => "ours" \in share
                            /\ CoversHome(c) => \/ "context" \in disk.text.gives \/ (~c.custom /\ c.opts)
                                                \/ c.provides \cap {"mounts", "home_context"} # {}
        BY DEF AcceptedSeedWorks, Wired
      <3>1. setup.at = "active"
        BY <3>0 DEF SeedAndMarkerInv, UpInv
      <3>2. disk.text = UserData(c)
        BY <2>1, <3>0, <3>1 DEF SeedIsCurrent
      <3>3. pinned /\ SeedContract(c, UserData(c)) /\ (c.volume = "home" => "ours" \in share)
        BY <3>1 DEF SeedAndMarkerInv, AcceptInv, Accepted
      <3>4. CASE c.custom
        BY <3>0, <3>2, <3>3, <3>4 DEF SeedContract, HostKeyContract, CaContract, MountContract,
           KeyPresented, CoversHome
      <3>5. CASE ~c.custom
        <4>0. disk.text = DefaultUserData(c)
          BY <3>2, <3>5 DEF UserData
        <4>1. /\ "ssh_keys" \in disk.text.gives /\ (c.inspect => "ca" \in disk.text.gives)
              /\ c.volume # "none" => "mounts" \in disk.text.gives
              /\ MountContext(c) => "context" \in disk.text.gives
          BY <4>0 DEF DefaultUserData
        <4>2. CoversHome(c) => MountContext(c) \/ c.opts
          BY DEF MountContext
        <4> QED BY <3>3, <3>5, <4>1, <4>2, Zenon DEF KeyPresented
      <3> QED BY <3>4, <3>5
    <2> QED BY <2>1, <2>2, <2>3 DEF SeedServes
<1> QED
    BY SeedAndMarkerInvariant, <1>1, PTL

(* Without an edit, a reported failure or a setup cut short, the next launch   *)
(* boots the instance the disk was provisioned as.                             *)
THEOREM QuietLaunchKeeps == Spec => QuietLaunchKeepsInstance
<1>1. ASSUME SeedAndMarkerInv, [Next]_vars
      PROVE  [guest'.up /\ ~guest.up /\ past.quiet => disk.inst \in {None, disk'.inst}]_vars
    <2> SUFFICES ASSUME guest'.up, ~guest.up, past.quiet PROVE disk.inst \in {None, disk'.inst}
      OBVIOUS
    <2>1. CASE Launch
      <3>1. iso.id = id /\ iso.state = "whole" /\ disk.inst \in {None, id}
        BY <1>1, <2>1 DEF Launch, SeedAndMarkerInv, SeedInv, QuietInv, Writing
      <3> QED BY <2>1, <3>1 DEF Launch, Booted
    <2>2. CASE ~Launch
      <3>1. VmOff \/ UNCHANGED guest \/ CloudInitEnds
        BY <1>1, <2>2, Zenon DEF Next, Setup, Faults, Vm, Diagnose, Operator, Prepare, RejectSeed, KeepSeed,
           ResolveInstanceId, MarkUnverified, BuildIso, SealSeed, PrepareFails, BuildIsoFails,
           KillSetup, HostReboot, LaunchFails, WatchAnswered, WatchExpires, WatchBreaks, DiagnoseAsks,
           DiagnoseRecords, DiagnoseDrops, SaveFiles, Start, Stop, Restart, Update, Recreate, RecreateAgain,
           RecreateEnds, EditApplies, SetupRestarted, vm, vars
      <3>2. CASE VmOff
        BY <3>2 DEF VmOff, Off
      <3>3. CASE UNCHANGED guest
        BY <3>3
      <3>4. CASE CloudInitEnds
        BY <3>4 DEF CloudInitEnds
      <3> QED BY <3>1, <3>2, <3>3, <3>4
    <2> QED BY <2>1, <2>2
<1>2. SeedAndMarkerInv /\ [Next]_vars
        => [guest'.up /\ ~guest.up /\ past.quiet => disk.inst \in {None, disk'.inst}]_vars
    BY <1>1
<1> QED
    BY SeedAndMarkerInvariant, <1>2, PTL DEF Spec, QuietLaunchKeepsInstance
====
