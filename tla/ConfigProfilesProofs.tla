------------------------ MODULE ConfigProfilesProofs ------------------------
(***************************************************************************)
(* Proofs about ConfigProfiles, for any number of commands, profiles,      *)
(* documents and backup identifiers, any environments, edits and losses of *)
(* power: one command at a time, a whole active file, and every            *)
(* replacement reversible.                                                 *)
(***************************************************************************)
EXTENDS ConfigProfiles, FiniteSetTheorems, TLAPS

Sound(f) == f.data \in Documents /\ f.synced = TRUE

ActiveSound == Sound(active) /\ Sound(settled) /\ \A p \in Profiles : Sound(profile[p])

(* What a command has read is what it accepts, and stays.                  *)
Loaded == Holding \ {"locked"}

LocalsFit ==
  \A c \in Commands :
    /\ pc[c] \in Holding \cup {"preflighted"} => job[c] \in Job
    /\ pc[c] \in Loaded =>
         /\ snap[c] \in File /\ snap[c].data \in Valid[c]
         /\ chosen[c] \in File /\ chosen[c].data \in Valid[c]

(* Replacing the active file is the end of a publication, and the middle   *)
(* of a restoration.                                                       *)
PhaseFits ==
  \A c \in Commands :
    /\ pc[c] \in Steps \ {"stage", "staged", "clear", "renamed", "published", "ended", "dead"}
         => phase[c] = "publish"
    /\ pc[c] \notin {"renamed", "published", "ended", "dead"} /\ phase[c] = "publish"
         => ~wrote[c]
    /\ pc[c] \in {"renamed", "published"} \/ phase[c] = "recover" => wrote[c]

TemporaryFits ==
  \A c \in Commands :
    pc[c] \in {"staged", "clear"} =>
      temp[c] \in File /\ temp[c].data = Replacement(c) /\ temp[c].synced = TRUE

(* The backup a command has made: the copy, then the manifest, then both   *)
(* durable before the active file is touched, and for good.                *)
Copied(c) ==
  slot[c] \in BackupIds /\ backup[slot[c]].yaml \in {snap[c].data, Torn}
Described(c) == Copied(c) /\ backup[slot[c]].json = snap[c].data
Saved(c)     == Described(c) /\ backup[slot[c]].synced = TRUE

BackupFits(c) ==
  /\ pc[c] = "yaml" => Copied(c) /\ backup[slot[c]].json = None
  /\ pc[c] = "json" => Described(c)
  /\ pc[c] \in {"stage", "staged", "clear", "renamed", "published"} \/ wrote[c] =>
       snap[c] \in File /\ snap[c].data \in Documents /\ Saved(c)
BackupsFit == \A c \in Commands : BackupFits(c)

(* The file that is about to be replaced is the one that was read, unless  *)
(* an edit landed after the last look at it.                               *)
CheckedFits ==
  \A c \in Commands :
    pc[c] = "clear" /\ phase[c] = "publish" => late[c] \/ active.id = snap[c].id

ConfigInvariant ==
  /\ TypeOK /\ Exclusive /\ ActiveSound /\ LocalsFit /\ PhaseFits /\ TemporaryFits
  /\ BackupsFit /\ CheckedFits

-----------------------------------------------------------------------------
(* What a command selects and installs.                                    *)

LEMMA SelectedIsFile ==
  ASSUME TypeOK, NEW j \in Job, Selectable(j)
  PROVE  SelectedFile(j) \in File
<1>1. CASE j.kind = "apply"
  BY <1>1 DEF TypeOK, Job, SelectedFile
<1>2. CASE j.kind = "rollback"
  BY <1>2 DEF Job, Selectable, Intact, SelectedFile, File
<1>3. QED
  BY <1>1, <1>2 DEF Job

LEMMA InstalledIsAccepted ==
  ASSUME LocalsFit, NEW c \in Commands, pc[c] \in Loaded
  PROVE  Replacement(c) \in Valid[c] /\ Replacement(c) \in Documents
BY DocumentsAssumption DEF LocalsFit, Replacement

-----------------------------------------------------------------------------
(* Every step keeps the invariant.                                         *)

LEMMA BeginKeeps ==
  ASSUME ConfigInvariant, NEW c \in Commands, Begin(c)
  PROVE  ConfigInvariant'
<1> USE DEF ConfigInvariant, Begin, End, Advance, files, locals, history, counters
<1>1. TypeOK'
  BY DEF TypeOK, Steps, Codes
<1>2. Exclusive'
  BY DEF TypeOK, Exclusive, Holding, Idle, Steps
<1>3. ActiveSound'
  BY DEF ActiveSound, Sound
<1>4. LocalsFit'
  BY DEF TypeOK, LocalsFit, Loaded, Holding, Idle, Steps
<1>5. PhaseFits'
  BY DEF TypeOK, PhaseFits, Holding, Idle, Steps
<1>6. TemporaryFits'
  BY DEF TypeOK, TemporaryFits, Replacement, Steps, Idle, LocalsFit
<1>7. BackupsFit'
  BY DEF TypeOK, BackupsFit, BackupFits, Copied, Described, Saved, Steps, Idle, Pair,
         Half, PhaseFits
<1>8. CheckedFits'
  BY DEF TypeOK, CheckedFits, Steps, Idle
<1>9. QED
  BY <1>1, <1>2, <1>3, <1>4, <1>5, <1>6, <1>7, <1>8

LEMMA TakeLockKeeps ==
  ASSUME ConfigInvariant, NEW c \in Commands, TakeLock(c)
  PROVE  ConfigInvariant'
<1> USE DEF ConfigInvariant, TakeLock, End, Advance, files, locals, history, counters
<1>1. TypeOK'
  BY DEF TypeOK, Steps, Codes
<1>2. Exclusive'
  BY NamesAssumption DEF TypeOK, Exclusive, Holding, Idle, Steps
<1>3. ActiveSound'
  BY DEF ActiveSound, Sound
<1>4. LocalsFit'
  BY DEF TypeOK, LocalsFit, Loaded, Holding, Idle, Steps
<1>5. PhaseFits'
  BY DEF TypeOK, PhaseFits, Holding, Idle, Steps
<1>6. TemporaryFits'
  BY DEF TypeOK, TemporaryFits, Replacement, Steps, Idle, LocalsFit
<1>7. BackupsFit'
  BY DEF TypeOK, BackupsFit, BackupFits, Copied, Described, Saved, Steps, Idle, Pair, Half
<1>8. CheckedFits'
  BY DEF TypeOK, CheckedFits, Steps, Idle
<1>9. QED
  BY <1>1, <1>2, <1>3, <1>4, <1>5, <1>6, <1>7, <1>8

LEMMA LoadKeeps ==
  ASSUME ConfigInvariant, NEW c \in Commands, Load(c)
  PROVE  ConfigInvariant'
<1> USE DEF ConfigInvariant
<1>1. TypeOK'
  <2>1. job[c] \in Job
    BY DEF Load, LocalsFit, Holding, Idle, Steps
  <2>2. Selectable(job[c]) => SelectedFile(job[c]) \in File
    BY <2>1, SelectedIsFile
  <2>3. QED
    BY <2>2 DEF Load, End, Advance, files, locals, history, counters, TypeOK, Steps, Codes
<1>2. Exclusive'
  BY DEF Load, End, Advance, files, locals, history, counters, TypeOK, Exclusive, Holding,
         Idle, Steps
<1>3. ActiveSound'
  BY DEF Load, End, Advance, files, locals, history, counters, ActiveSound, Sound
<1>4. LocalsFit'
  BY SelectedIsFile
  DEF Load, End, Advance, files, locals, history, counters, TypeOK, LocalsFit, Loaded,
      Holding, Idle, Steps
<1>5. PhaseFits'
  BY DEF Load, End, Advance, files, locals, history, counters, TypeOK, PhaseFits, Holding,
         Idle, Steps
<1>6. TemporaryFits'
  BY DEF Load, End, Advance, files, locals, history, counters, TypeOK, TemporaryFits,
         Replacement, Steps, Idle, LocalsFit
<1>7. BackupsFit'
  BY DEF Load, End, Advance, files, locals, history, counters, TypeOK, BackupsFit,
         BackupFits, Copied, Described, Saved, Steps, Idle, Pair, Half, PhaseFits
<1>8. CheckedFits'
  BY DEF Load, End, Advance, files, locals, history, counters, TypeOK, CheckedFits, Steps,
         Idle
<1>9. QED
  BY <1>1, <1>2, <1>3, <1>4, <1>5, <1>6, <1>7, <1>8

LEMMA RecheckKeeps ==
  ASSUME ConfigInvariant, NEW c \in Commands, Recheck(c)
  PROVE  ConfigInvariant'
<1> USE DEF ConfigInvariant, Recheck, End, Advance, files, locals, history, counters
<1>1. TypeOK'
  BY DEF TypeOK, Steps, Codes
<1>2. Exclusive'
  BY DEF TypeOK, Exclusive, Holding, Idle, Steps
<1>3. ActiveSound'
  BY DEF ActiveSound, Sound
<1>4. LocalsFit'
  BY DEF TypeOK, LocalsFit, Loaded, Holding, Idle, Steps
<1>5. PhaseFits'
  BY DEF TypeOK, PhaseFits, Holding, Idle, Steps
<1>6. TemporaryFits'
  BY DEF TypeOK, TemporaryFits, Replacement, Steps, Idle, LocalsFit
<1>7. BackupsFit'
  BY DEF TypeOK, BackupsFit, BackupFits, Copied, Described, Saved, Steps, Idle, Pair, Half
<1>8. CheckedFits'
  BY DEF TypeOK, CheckedFits, Steps, Idle
<1>9. QED
  BY <1>1, <1>2, <1>3, <1>4, <1>5, <1>6, <1>7, <1>8

LEMMA EnsureCapacityKeeps ==
  ASSUME ConfigInvariant, NEW c \in Commands, EnsureCapacity(c)
  PROVE  ConfigInvariant'
<1> USE DEF ConfigInvariant, EnsureCapacity, End, Advance, files, locals, history, counters
<1>1. TypeOK'
  BY DEF TypeOK, Steps, Codes
<1>2. Exclusive'
  BY DEF TypeOK, Exclusive, Holding, Idle, Steps
<1>3. ActiveSound'
  BY DEF ActiveSound, Sound
<1>4. LocalsFit'
  BY DEF TypeOK, LocalsFit, Loaded, Holding, Idle, Steps
<1>5. PhaseFits'
  BY DEF TypeOK, PhaseFits, Holding, Idle, Steps
<1>6. TemporaryFits'
  BY DEF TypeOK, TemporaryFits, Replacement, Steps, Idle, LocalsFit
<1>7. BackupsFit'
  BY DEF TypeOK, BackupsFit, BackupFits, Copied, Described, Saved, Steps, Idle, Pair, Half
<1>8. CheckedFits'
  BY DEF TypeOK, CheckedFits, Steps, Idle
<1>9. QED
  BY <1>1, <1>2, <1>3, <1>4, <1>5, <1>6, <1>7, <1>8

LEMMA WriteCopyKeeps ==
  ASSUME ConfigInvariant, NEW c \in Commands, WriteCopy(c)
  PROVE  ConfigInvariant'
<1> USE DEF ConfigInvariant
<1>1. TypeOK'
  <2>1. snap[c].data \in Documents
    BY DocumentsAssumption DEF WriteCopy, LocalsFit, Loaded, Holding, Idle, Steps
  <2>2. /\ [NoPair EXCEPT !.yaml = snap[c].data] \in Pair
        /\ [NoPair EXCEPT !.yaml = Torn] \in Pair
    BY <2>1 DEF NoPair, Pair, Half
  <2>3. QED
    BY <2>2
    DEF WriteCopy, End, Advance, files, locals, history, counters, TypeOK, Steps, Codes
<1>2. Exclusive'
  BY DEF WriteCopy, End, Advance, files, locals, history, counters, TypeOK, Exclusive,
         Holding, Idle, Steps
<1>3. ActiveSound'
  BY DEF WriteCopy, End, Advance, files, locals, history, counters, ActiveSound, Sound
<1>4. LocalsFit'
  BY DEF WriteCopy, End, Advance, files, locals, history, counters, TypeOK, LocalsFit,
         Loaded, Holding, Idle, Steps
<1>5. PhaseFits'
  BY DEF WriteCopy, End, Advance, files, locals, history, counters, TypeOK, PhaseFits,
         Holding, Idle, Steps
<1>6. TemporaryFits'
  BY DEF WriteCopy, End, Advance, files, locals, history, counters, TypeOK, TemporaryFits,
         Replacement, Steps, Idle, LocalsFit
<1>7. BackupsFit'
  <2>1. pc[c] = "room" /\ lock = c /\ ~wrote[c] /\ snap[c].data \in Documents
    BY DocumentsAssumption
    DEF WriteCopy, Exclusive, PhaseFits, LocalsFit, Loaded, Holding, Idle, Steps
  <2>2. ASSUME NEW d \in Commands, d # c  PROVE BackupFits(d)'
    <3>1. pc[d] \notin {"yaml", "json"} /\ BackupFits(d)
      BY <2>1, <2>2 DEF Exclusive, BackupsFit, Holding, Idle, Steps
    <3>2. /\ pc'[d] = pc[d] /\ wrote'[d] = wrote[d] /\ snap'[d] = snap[d] /\ slot'[d] = slot[d]
      BY <2>2 DEF WriteCopy, End, Advance, files, locals, history, counters, TypeOK
    <3>3. ASSUME Saved(d), snap[d].data \in Documents  PROVE Saved(d)'
      <4>1. slot[d] \in Occupied
        BY <3>3, DocumentsAssumption DEF Saved, Described, Copied, Occupied
      <4>2. backup'[slot[d]] = backup[slot[d]]
        BY <4>1 DEF WriteCopy, TypeOK, Occupied
      <4>3. QED
        BY <3>2, <3>3, <4>2 DEF Saved, Described, Copied
    <3>4. QED
      BY <3>1, <3>2, <3>3 DEF BackupFits
  <2>3. BackupFits(c)'
    <3>1. pc'[c] \in {"yaml", "ended"} /\ ~wrote'[c]
      BY <2>1 DEF WriteCopy, End, Advance, files, locals, history, counters, TypeOK
    <3>2. CASE pc'[c] = "yaml"
      <4>1. PICK b \in BackupIds :
              /\ slot' = [slot EXCEPT ![c] = b]
              /\ backup' = [backup EXCEPT ![b] = [NoPair EXCEPT !.yaml = snap[c].data]]
        BY <3>2 DEF WriteCopy, End, Advance, TypeOK
      <4>2. Copied(c)' /\ backup'[slot'[c]].json = None
        BY <4>1, <2>1
        DEF Copied, NoPair, TypeOK, WriteCopy, files, locals, history, counters
      <4>3. QED
        BY <3>1, <3>2, <4>2 DEF BackupFits
    <3>3. QED
      BY <3>1, <3>2 DEF BackupFits
  <2>4. QED
    BY <2>2, <2>3 DEF BackupsFit
<1>8. CheckedFits'
  BY DEF WriteCopy, End, Advance, files, locals, history, counters, TypeOK, CheckedFits,
         Steps, Idle
<1>9. QED
  BY <1>1, <1>2, <1>3, <1>4, <1>5, <1>6, <1>7, <1>8

LEMMA WriteManifestKeeps ==
  ASSUME ConfigInvariant, NEW c \in Commands, WriteManifest(c)
  PROVE  ConfigInvariant'
<1> USE DEF ConfigInvariant
<1>1. TypeOK'
  <2>1. snap[c].data \in Documents /\ slot[c] \in BackupIds
    BY DocumentsAssumption
    DEF WriteManifest, LocalsFit, Loaded, Holding, Idle, Steps, BackupsFit, BackupFits, Copied
  <2>2. backup[slot[c]] \in Pair
    BY <2>1 DEF TypeOK
  <2>3. /\ [backup[slot[c]] EXCEPT !.json = snap[c].data] \in Pair
        /\ [backup[slot[c]] EXCEPT !.json = Torn] \in Pair
    BY <2>1, <2>2 DEF Pair, Half
  <2>4. backup' \in [BackupIds -> Pair]
    BY <2>1, <2>3 DEF WriteManifest, TypeOK
  <2>5. QED
    BY <2>4
    DEF WriteManifest, End, Advance, files, locals, history, counters, TypeOK, Steps, Codes
<1>2. Exclusive'
  BY DEF WriteManifest, End, Advance, files, locals, history, counters, TypeOK, Exclusive,
         Holding, Idle, Steps
<1>3. ActiveSound'
  BY DEF WriteManifest, End, Advance, files, locals, history, counters, ActiveSound, Sound
<1>4. LocalsFit'
  BY DEF WriteManifest, End, Advance, files, locals, history, counters, TypeOK, LocalsFit,
         Loaded, Holding, Idle, Steps
<1>5. PhaseFits'
  BY DEF WriteManifest, End, Advance, files, locals, history, counters, TypeOK, PhaseFits,
         Holding, Idle, Steps
<1>6. TemporaryFits'
  BY DEF WriteManifest, End, Advance, files, locals, history, counters, TypeOK,
         TemporaryFits, Replacement, Steps, Idle, LocalsFit
<1>7. BackupsFit'
  <2>1. /\ pc[c] = "yaml" /\ lock = c /\ ~wrote[c] /\ snap[c].data \in Documents
        /\ Copied(c) /\ backup[slot[c]].json = None
    BY DocumentsAssumption
    DEF WriteManifest, Exclusive, PhaseFits, LocalsFit, Loaded, BackupsFit, BackupFits, Holding, Idle, Steps
  <2>2. ASSUME NEW d \in Commands, d # c  PROVE BackupFits(d)'
    <3>1. pc[d] \notin {"yaml", "json"} /\ BackupFits(d)
      BY <2>1, <2>2 DEF Exclusive, BackupsFit, Holding, Idle, Steps
    <3>2. /\ pc'[d] = pc[d] /\ wrote'[d] = wrote[d] /\ snap'[d] = snap[d] /\ slot'[d] = slot[d]
      BY <2>2 DEF WriteManifest, End, Advance, files, locals, history, counters, TypeOK
    <3>3. ASSUME Saved(d), snap[d].data \in Documents  PROVE Saved(d)'
      <4>1. slot[d] # slot[c]
        BY <2>1, <3>3, DocumentsAssumption DEF Saved, Described
      <4>2. backup'[slot[d]] = backup[slot[d]]
        BY <4>1, <3>3 DEF WriteManifest, TypeOK, Saved, Described, Copied
      <4>3. QED
        BY <3>2, <3>3, <4>2 DEF Saved, Described, Copied
    <3>4. QED
      BY <3>1, <3>2, <3>3 DEF BackupFits
  <2>3. BackupFits(c)'
    <3>1. pc'[c] \in {"json", "ended"} /\ ~wrote'[c]
      BY <2>1 DEF WriteManifest, End, Advance, files, locals, history, counters, TypeOK
    <3>2. CASE pc'[c] = "json"
      <4>1. backup' = [backup EXCEPT ![slot[c]].json = snap[c].data]
        BY <3>2 DEF WriteManifest, End, Advance, TypeOK
      <4>2. backup'[slot[c]] = [backup[slot[c]] EXCEPT !.json = snap[c].data]
        BY <4>1, <2>1 DEF Copied, TypeOK
      <4>3. backup[slot[c]] \in Pair
        BY <2>1 DEF Copied, TypeOK
      <4>4. Described(c)'
        BY <4>2, <4>3, <2>1
        DEF Described, Copied, Pair, WriteManifest, files, locals, history, counters
      <4>5. QED
        BY <3>1, <3>2, <4>4 DEF BackupFits
    <3>3. QED
      BY <3>1, <3>2 DEF BackupFits
  <2>4. QED
    BY <2>2, <2>3 DEF BackupsFit
<1>8. CheckedFits'
  BY DEF WriteManifest, End, Advance, files, locals, history, counters, TypeOK,
         CheckedFits, Steps, Idle
<1>9. QED
  BY <1>1, <1>2, <1>3, <1>4, <1>5, <1>6, <1>7, <1>8

LEMMA SyncBackupsKeeps ==
  ASSUME ConfigInvariant, NEW c \in Commands, SyncBackups(c)
  PROVE  ConfigInvariant'
<1> USE DEF ConfigInvariant
<1>1. TypeOK'
  <2>1. \A b \in BackupIds : [backup[b] EXCEPT !.synced = TRUE] \in Pair
    BY DEF TypeOK, Pair
  <2>2. backup' \in [BackupIds -> Pair]
    BY <2>1 DEF SyncBackups, TypeOK
  <2>3. QED
    BY <2>2
    DEF SyncBackups, End, Advance, files, locals, history, counters, TypeOK, Steps, Codes
<1>2. Exclusive'
  BY DEF SyncBackups, End, Advance, files, locals, history, counters, TypeOK, Exclusive,
         Holding, Idle, Steps
<1>3. ActiveSound'
  BY DEF SyncBackups, End, Advance, files, locals, history, counters, ActiveSound, Sound
<1>4. LocalsFit'
  BY DEF SyncBackups, End, Advance, files, locals, history, counters, TypeOK, LocalsFit,
         Loaded, Holding, Idle, Steps
<1>5. PhaseFits'
  BY DEF SyncBackups, End, Advance, files, locals, history, counters, TypeOK, PhaseFits,
         Holding, Idle, Steps
<1>6. TemporaryFits'
  BY DEF SyncBackups, End, Advance, files, locals, history, counters, TypeOK,
         TemporaryFits, Replacement, Steps, Idle, LocalsFit
<1>7. BackupsFit'
  BY DocumentsAssumption
  DEF SyncBackups, End, Advance, files, locals, history, counters, TypeOK, BackupsFit,
      BackupFits, Copied, Described, Saved, Steps, Idle, Pair, Half, Exclusive, Holding,
      PhaseFits, LocalsFit, Loaded, Occupied
<1>8. CheckedFits'
  BY DEF SyncBackups, End, Advance, files, locals, history, counters, TypeOK, CheckedFits,
         Steps, Idle
<1>9. QED
  BY <1>1, <1>2, <1>3, <1>4, <1>5, <1>6, <1>7, <1>8

LEMMA StageTemporaryKeeps ==
  ASSUME ConfigInvariant, NEW c \in Commands, StageTemporary(c)
  PROVE  ConfigInvariant'
<1> USE DEF ConfigInvariant
<1>1. TypeOK'
  <2> DEFINE staged == [data |-> Replacement(c), id |-> stamp + 1, synced |-> TRUE]
  <2>1. Replacement(c) \in Documents
    BY InstalledIsAccepted DEF StageTemporary, Loaded, Holding, Idle, Steps
  <2>2. staged \in File /\ stamp + 1 \in Nat
    BY <2>1 DEF TypeOK, File
  <2>3. CASE /\ temp' = [temp EXCEPT ![c] = staged] /\ stamp' = stamp + 1
             /\ Advance(c, "staged") /\ UNCHANGED <<exit, lock>>
    <3> HIDE DEF staged
    <3>1. QED
      BY <2>2, <2>3
      DEF StageTemporary, Advance, files, locals, history, counters, TypeOK, Steps, Codes
  <2>4. CASE GiveUp(c) /\ UNCHANGED stamp
    BY <2>4
    DEF StageTemporary, End, Advance, GiveUp, files, locals, history, counters, TypeOK,
        Steps, Codes
  <2>5. QED
    BY <2>3, <2>4 DEF StageTemporary
<1>2. Exclusive'
  BY DEF StageTemporary, End, Advance, GiveUp, files, locals, history, counters, TypeOK,
         Exclusive, Holding, Idle, Steps
<1>3. ActiveSound'
  BY DEF StageTemporary, End, Advance, GiveUp, files, locals, history, counters,
         ActiveSound, Sound
<1>4. LocalsFit'
  BY DEF StageTemporary, End, Advance, GiveUp, files, locals, history, counters, TypeOK,
         LocalsFit, Loaded, Holding, Idle, Steps
<1>5. PhaseFits'
  BY DEF StageTemporary, End, Advance, GiveUp, files, locals, history, counters, TypeOK,
         PhaseFits, Holding, Idle, Steps
<1>6. TemporaryFits'
  <2> DEFINE staged == [data |-> Replacement(c), id |-> stamp + 1, synced |-> TRUE]
  <2>1. Replacement(c) \in Documents
    BY InstalledIsAccepted DEF StageTemporary, Loaded, Holding, Idle, Steps
  <2>2. staged \in File /\ staged.data = Replacement(c) /\ staged.synced = TRUE
    BY <2>1 DEF TypeOK, File
  <2>3. \A d \in Commands : Replacement(d)' = Replacement(d)
    BY DEF StageTemporary, files, locals, history, counters, Replacement
  <2>4. CASE temp' = [temp EXCEPT ![c] = staged] /\ Advance(c, "staged")
    <3> HIDE DEF staged
    <3>1. QED
      BY <2>2, <2>3, <2>4 DEF Advance, TypeOK, TemporaryFits, Steps
  <2>5. CASE GiveUp(c)
    BY <2>3, <2>5 DEF End, Advance, GiveUp, TypeOK, TemporaryFits, Steps
  <2>6. QED
    BY <2>4, <2>5 DEF StageTemporary
<1>7. BackupsFit'
  BY DEF StageTemporary, End, Advance, GiveUp, files, locals, history, counters, TypeOK,
         BackupsFit, BackupFits, Copied, Described, Saved, Steps, Idle, Pair, Half
<1>8. CheckedFits'
  BY DEF StageTemporary, End, Advance, GiveUp, files, locals, history, counters, TypeOK,
         CheckedFits, Steps, Idle
<1>9. QED
  BY <1>1, <1>2, <1>3, <1>4, <1>5, <1>6, <1>7, <1>8

LEMMA RecheckIdentityKeeps ==
  ASSUME ConfigInvariant, NEW c \in Commands, RecheckIdentity(c)
  PROVE  ConfigInvariant'
<1> USE DEF ConfigInvariant, RecheckIdentity, End, Advance, GiveUp, SameIdentity, files,
    locals, history, counters
<1>1. TypeOK'
  BY DEF TypeOK, Steps, Codes
<1>2. Exclusive'
  BY DEF TypeOK, Exclusive, Holding, Idle, Steps
<1>3. ActiveSound'
  BY DEF ActiveSound, Sound
<1>4. LocalsFit'
  BY DEF TypeOK, LocalsFit, Loaded, Holding, Idle, Steps
<1>5. PhaseFits'
  BY DEF TypeOK, PhaseFits, Holding, Idle, Steps
<1>6. TemporaryFits'
  BY DEF TypeOK, TemporaryFits, Replacement, Steps, Idle, LocalsFit
<1>7. BackupsFit'
  BY DEF TypeOK, BackupsFit, BackupFits, Copied, Described, Saved, Steps, Idle, Pair, Half
<1>8. CheckedFits'
  BY DEF TypeOK, CheckedFits, Steps, Idle
<1>9. QED
  BY <1>1, <1>2, <1>3, <1>4, <1>5, <1>6, <1>7, <1>8

LEMMA ReplaceKeeps ==
  ASSUME ConfigInvariant, NEW c \in Commands, Replace(c)
  PROVE  ConfigInvariant'
<1> USE DEF ConfigInvariant, Replace, End, Advance, GiveUp, files, locals, history, counters
<1>1. TypeOK'
  BY DEF TypeOK, Steps, Codes, TemporaryFits
<1>2. Exclusive'
  BY DEF TypeOK, Exclusive, Holding, Idle, Steps
<1>3. ActiveSound'
  BY InstalledIsAccepted DEF ActiveSound, Sound, TemporaryFits, Loaded, Holding, Idle, Steps
<1>4. LocalsFit'
  BY DEF TypeOK, LocalsFit, Loaded, Holding, Idle, Steps
<1>5. PhaseFits'
  BY DEF TypeOK, PhaseFits, Holding, Idle, Steps
<1>6. TemporaryFits'
  BY DEF TypeOK, TemporaryFits, Replacement, Steps, Idle, LocalsFit
<1>7. BackupsFit'
  BY DEF TypeOK, BackupsFit, BackupFits, Copied, Described, Saved, Steps, Idle, Pair, Half
<1>8. CheckedFits'
  BY DEF TypeOK, CheckedFits, Steps, Idle, Exclusive, Holding
<1>9. QED
  BY <1>1, <1>2, <1>3, <1>4, <1>5, <1>6, <1>7, <1>8

LEMMA SyncDirectoryKeeps ==
  ASSUME ConfigInvariant, NEW c \in Commands, SyncDirectory(c)
  PROVE  ConfigInvariant'
<1> USE DEF ConfigInvariant, SyncDirectory, End, Advance, Recover, files, locals, history,
    counters
<1>1. TypeOK'
  BY DEF TypeOK, Steps, Codes
<1>2. Exclusive'
  BY DEF TypeOK, Exclusive, Holding, Idle, Steps
<1>3. ActiveSound'
  BY DEF ActiveSound, Sound
<1>4. LocalsFit'
  BY DEF TypeOK, LocalsFit, Loaded, Holding, Idle, Steps
<1>5. PhaseFits'
  BY DEF TypeOK, PhaseFits, Holding, Idle, Steps
<1>6. TemporaryFits'
  BY DEF TypeOK, TemporaryFits, Replacement, Steps, Idle, LocalsFit
<1>7. BackupsFit'
  BY DEF TypeOK, BackupsFit, BackupFits, Copied, Described, Saved, Steps, Idle, Pair, Half
<1>8. CheckedFits'
  BY DEF TypeOK, CheckedFits, Steps, Idle
<1>9. QED
  BY <1>1, <1>2, <1>3, <1>4, <1>5, <1>6, <1>7, <1>8

LEMMA VerifyPublishedKeeps ==
  ASSUME ConfigInvariant, NEW c \in Commands, VerifyPublished(c)
  PROVE  ConfigInvariant'
<1> USE DEF ConfigInvariant, VerifyPublished, End, Advance, Recover, files, locals,
    history, counters
<1>1. TypeOK'
  BY DEF TypeOK, Steps, Codes
<1>2. Exclusive'
  BY DEF TypeOK, Exclusive, Holding, Idle, Steps
<1>3. ActiveSound'
  BY DEF ActiveSound, Sound
<1>4. LocalsFit'
  BY DEF TypeOK, LocalsFit, Loaded, Holding, Idle, Steps
<1>5. PhaseFits'
  BY DEF TypeOK, PhaseFits, Holding, Idle, Steps
<1>6. TemporaryFits'
  BY DEF TypeOK, TemporaryFits, Replacement, Steps, Idle, LocalsFit
<1>7. BackupsFit'
  BY DEF TypeOK, BackupsFit, BackupFits, Copied, Described, Saved, Steps, Idle, Pair, Half
<1>8. CheckedFits'
  BY DEF TypeOK, CheckedFits, Steps, Idle
<1>9. QED
  BY <1>1, <1>2, <1>3, <1>4, <1>5, <1>6, <1>7, <1>8

LEMMA KillKeeps ==
  ASSUME ConfigInvariant, NEW c \in Commands, Kill(c)
  PROVE  ConfigInvariant'
<1> USE DEF ConfigInvariant, Kill, Advance, files, locals, history, counters
<1>1. TypeOK'
  BY DEF TypeOK, Steps, Codes
<1>2. Exclusive'
  BY DEF TypeOK, Exclusive, Holding, Idle, Steps
<1>3. ActiveSound'
  BY DEF ActiveSound, Sound
<1>4. LocalsFit'
  BY DEF TypeOK, LocalsFit, Loaded, Holding, Idle, Steps
<1>5. PhaseFits'
  BY DEF TypeOK, PhaseFits, Holding, Idle, Steps
<1>6. TemporaryFits'
  BY DEF TypeOK, TemporaryFits, Replacement, Steps, Idle, LocalsFit
<1>7. BackupsFit'
  BY DEF TypeOK, BackupsFit, BackupFits, Copied, Described, Saved, Steps, Idle, Pair, Half
<1>8. CheckedFits'
  BY DEF TypeOK, CheckedFits, Steps, Idle
<1>9. QED
  BY <1>1, <1>2, <1>3, <1>4, <1>5, <1>6, <1>7, <1>8

LEMMA EditActiveKeeps ==
  ASSUME ConfigInvariant, NEW d \in Documents, EditActive(d)
  PROVE  ConfigInvariant'
<1> USE DEF ConfigInvariant
<1>1. Written(d) \in File /\ Sound(Written(d))
  BY DEF TypeOK, File, Written, Sound
<1>2. TypeOK'
  BY <1>1 DEF EditActive, files, locals, history, counters, TypeOK
<1>3. ActiveSound'
  BY <1>1 DEF EditActive, files, locals, history, counters, ActiveSound
<1>4. CheckedFits'
  BY DEF EditActive, files, locals, history, counters, CheckedFits, TypeOK
<1>5. /\ Exclusive' /\ LocalsFit' /\ PhaseFits' /\ TemporaryFits' /\ BackupsFit'
  BY DEF EditActive, files, locals, history, counters, Exclusive, LocalsFit, PhaseFits,
         TemporaryFits, Replacement,
         BackupsFit, BackupFits, Copied, Described, Saved
<1>6. QED
  BY <1>2, <1>3, <1>4, <1>5

LEMMA EditProfileKeeps ==
  ASSUME ConfigInvariant, NEW p \in Profiles, NEW d \in Documents, EditProfile(p, d)
  PROVE  ConfigInvariant'
<1> USE DEF ConfigInvariant
<1>1. Written(d) \in File /\ Sound(Written(d))
  BY DEF TypeOK, File, Written, Sound
<1>2. TypeOK'
  BY <1>1 DEF EditProfile, files, locals, history, counters, TypeOK
<1>3. ActiveSound'
  BY <1>1 DEF EditProfile, files, locals, history, counters, ActiveSound, TypeOK
<1>4. /\ Exclusive' /\ LocalsFit' /\ PhaseFits' /\ TemporaryFits' /\ BackupsFit' /\ CheckedFits'
  BY DEF EditProfile, files, locals, history, counters, Exclusive, LocalsFit, PhaseFits,
         TemporaryFits, Replacement,
         BackupsFit, BackupFits, Copied, Described, Saved, CheckedFits
<1>5. QED
  BY <1>2, <1>3, <1>4

LEMMA DamageBackupKeeps ==
  ASSUME ConfigInvariant, NEW b \in BackupIds, DamageBackup(b)
  PROVE  ConfigInvariant'
<1> USE DEF ConfigInvariant
<1>1. backup[b] \in Pair
  BY DEF TypeOK
<1>2. [backup[b] EXCEPT !.yaml = Torn] \in Pair
  BY <1>1 DEF Pair, Half
<1>3. TypeOK'
  BY <1>2 DEF DamageBackup, files, locals, history, counters, TypeOK
<1>4. /\ Exclusive' /\ ActiveSound' /\ LocalsFit' /\ PhaseFits' /\ TemporaryFits' /\ CheckedFits'
  BY DEF DamageBackup, files, locals, history, counters, Exclusive, ActiveSound,
         LocalsFit, PhaseFits, TemporaryFits,
         Replacement, CheckedFits
<1>5. \A x \in BackupIds : /\ backup'[x].json = backup[x].json
                         /\ backup'[x].synced = backup[x].synced
                         /\ backup'[x].yaml \in {backup[x].yaml, Torn}
  BY <1>1 DEF DamageBackup, TypeOK, Pair
<1>6. UNCHANGED <<pc, slot, snap, wrote>>
  BY DEF DamageBackup, files, locals, history, counters
<1>7. BackupsFit'
  BY <1>5, <1>6 DEF BackupsFit, BackupFits, Copied, Described, Saved
<1>8. QED
  BY <1>3, <1>4, <1>7

LEMMA PowerLossKeeps ==
  ASSUME ConfigInvariant, PowerLoss
  PROVE  ConfigInvariant'
<1> USE DEF ConfigInvariant
<1>1. active' \in {active, settled} /\ settled' = active'
  BY DEF PowerLoss, ActiveSound, Sound, Surviving
<1>2. ASSUME NEW x \in BackupIds  PROVE backup'[x] \in Pair
  <2>1. backup[x] \in Pair
    BY DEF TypeOK
  <2>2. PICK copies, manifests \in SUBSET Occupied :
          backup' = [b \in BackupIds |->
                       SurvivingPair(backup[b], b \in copies, b \in manifests)]
    BY DEF PowerLoss
  <2>3. backup'[x] = SurvivingPair(backup[x], x \in copies, x \in manifests)
    BY <2>2
  <2>4. QED
    BY <2>1, <2>3 DEF SurvivingPair, Pair, Half
<1>3. ASSUME NEW x \in BackupIds, backup[x].synced = TRUE  PROVE backup'[x] = backup[x]
  BY <1>3 DEF PowerLoss, SurvivingPair
<1>4. \E copies, manifests \in SUBSET Occupied :
        backup' = [b \in BackupIds |->
                     SurvivingPair(backup[b], b \in copies, b \in manifests)]
  BY DEF PowerLoss
<1>5. backup' \in [BackupIds -> Pair]
  BY <1>2, <1>4
<1>6. TypeOK'
  BY <1>1, <1>5 DEF PowerLoss, files, locals, history, counters, TypeOK, Steps
<1>7. /\ \A c \in Commands : pc'[c] \in Idle /\ (pc'[c] # pc[c] => pc'[c] = "dead")
      /\ UNCHANGED <<slot, snap, wrote, phase, late>>
  BY DEF PowerLoss, files, locals, history, counters, TypeOK, Idle
<1>8. Exclusive' /\ LocalsFit' /\ PhaseFits' /\ TemporaryFits' /\ CheckedFits'
  BY <1>7 DEF Exclusive, LocalsFit, PhaseFits, TemporaryFits, CheckedFits, Holding, Loaded,
              Idle, Steps
<1>9. ActiveSound'
  BY <1>1 DEF PowerLoss, ActiveSound, Sound
<1>10. BackupsFit'
  <2>1. ASSUME NEW c \in Commands, wrote[c]
        PROVE  snap[c] \in File /\ snap[c].data \in Documents /\ Saved(c)'
    <3>1. snap[c] \in File /\ snap[c].data \in Documents /\ Saved(c)
      BY <2>1 DEF BackupsFit, BackupFits
    <3>2. backup'[slot[c]] = backup[slot[c]]
      BY <3>1, <1>3 DEF Saved, Described, Copied
    <3>3. QED
      BY <3>1, <3>2, <1>7 DEF Saved, Described, Copied
  <2>2. QED
    BY <2>1, <1>7 DEF BackupsFit, BackupFits, Idle
<1>11. QED
  BY <1>6, <1>8, <1>9, <1>10

-----------------------------------------------------------------------------
(* The theorems.                                                           *)

LEMMA InitEstablishes ==
  ASSUME Init PROVE ConfigInvariant
<1>1. \A d \in Documents : Original(d) \in File /\ Sound(Original(d))
  BY DEF Original, File, Sound
<1>2. /\ active \in File /\ Sound(active)
      /\ profile \in [Profiles -> File] /\ \A p \in Profiles : Sound(profile[p])
  BY <1>1 DEF Init
<1>3. NoPair \in Pair
  BY DEF NoPair, Pair, Half
<1>4. TypeOK
  BY <1>2, <1>3 DEF Init, TypeOK, Steps, Codes
<1>5. ActiveSound
  BY <1>2 DEF Init, ActiveSound
<1>6. Exclusive /\ LocalsFit /\ PhaseFits /\ TemporaryFits /\ BackupsFit /\ CheckedFits
  BY DEF Init, Exclusive, LocalsFit, Loaded, Holding, Idle, Steps, PhaseFits, TemporaryFits,
         BackupsFit, BackupFits, CheckedFits
<1>7. QED
  BY <1>4, <1>5, <1>6 DEF ConfigInvariant

LEMMA NextKeeps ==
  ASSUME ConfigInvariant, [Next]_vars PROVE ConfigInvariant'
<1>1. ASSUME NEW c \in Commands, Step(c) PROVE ConfigInvariant'
  BY <1>1, BeginKeeps, TakeLockKeeps, LoadKeeps, RecheckKeeps, EnsureCapacityKeeps,
     WriteCopyKeeps, WriteManifestKeeps, SyncBackupsKeeps, StageTemporaryKeeps,
     RecheckIdentityKeeps, ReplaceKeeps, SyncDirectoryKeeps, VerifyPublishedKeeps DEF Step
<1>2. CASE Environment
  BY <1>2, KillKeeps, EditActiveKeeps, EditProfileKeeps, DamageBackupKeeps, PowerLossKeeps
  DEF Environment
<1>3. CASE UNCHANGED vars
  BY <1>3
  DEF ConfigInvariant, vars, files, locals, history, counters, TypeOK, Exclusive,
      ActiveSound, LocalsFit,
              PhaseFits, TemporaryFits, Replacement, BackupsFit, BackupFits, Copied,
              Described, Saved, CheckedFits
<1>4. QED
  BY <1>1, <1>2, <1>3 DEF Next

\* What a command has read, staged and saved fits where it is: the inductive
\* invariant behind the others (apply and rollback of service.py).
THEOREM ConfigInvariantHolds == Spec => []ConfigInvariant
<1>1. Init => ConfigInvariant
  BY InitEstablishes
<1>2. ConfigInvariant /\ [Next]_vars => ConfigInvariant'
  BY NextKeeps
<1>3. QED
  BY <1>1, <1>2, PTL DEF Spec

\* Every variable keeps its type.
THEOREM ConfigTypeCorrect == Spec => []TypeOK
BY ConfigInvariantHolds, PTL DEF ConfigInvariant

\* For any number of commands, one at a time is inside mutation_lock.
THEOREM ExclusiveHolds == Spec => []Exclusive
BY ConfigInvariantHolds, PTL DEF ConfigInvariant

\* The active file is never torn, whatever fails and whenever power is lost.
THEOREM WholeDocumentHolds == Spec => []WholeDocument
<1>1. ConfigInvariant => WholeDocument
  BY DEF ConfigInvariant, ActiveSound, Sound, WholeDocument
<1>2. QED
  BY <1>1, ConfigInvariantHolds, PTL

\* What a command has replaced is in a durable, described backup for good.
THEOREM ReversibleHolds == Spec => []Reversible
<1>1. ConfigInvariant => Reversible
  <2>1. ASSUME ConfigInvariant, NEW c \in Commands, wrote[c]
        PROVE  \E b \in BackupIds : /\ backup[b].synced
                                   /\ backup[b].json = snap[c].data
                                   /\ backup[b].yaml \in {snap[c].data, Torn}
    <3>1. Saved(c)
      BY <2>1 DEF ConfigInvariant, BackupsFit, BackupFits
    <3>2. QED
      BY <3>1 DEF Saved, Described, Copied
  <2>2. QED
    BY <2>1 DEF Reversible
<1>2. QED
  BY <1>1, ConfigInvariantHolds, PTL

\* An exit code says what became of the active file.
THEOREM ExitTellsTruthHolds == Spec => ExitTellsTruth
<1> DEFINE Truth(c) ==
      /\ exit'[c] \in {"no_change", "invalid", "busy"} => ~wrote[c]
      /\ exit'[c] = "success" => wrote[c] /\ active.data = chosen[c].data
      /\ exit'[c] = "restored" => wrote[c] /\ active.data = snap[c].data
<1>1. ASSUME ConfigInvariant, NEW d \in Commands, Step(d), NEW c \in Commands, exit'[c] # exit[c]
      PROVE  Truth(c)
  <2>1. c = d
    BY <1>1
    DEF Step, Begin, TakeLock, Load, Recheck, EnsureCapacity, WriteCopy, WriteManifest,
                SyncBackups, StageTemporary, RecheckIdentity, Replace, SyncDirectory,
                VerifyPublished, GiveUp, Recover, End, ConfigInvariant, TypeOK
  <2>2. /\ phase[c] \in {"publish", "recover"}
        /\ \A code : exit' = [exit EXCEPT ![c] = code] => exit'[c] = code
    BY <1>1 DEF ConfigInvariant, TypeOK
  <2>3. CASE Begin(c) \/ TakeLock(c) \/ Load(c) \/ Recheck(c) \/ EnsureCapacity(c)
             \/ WriteCopy(c) \/ WriteManifest(c) \/ SyncBackups(c)
    <3>1. ~wrote[c]
      BY <1>1, <2>3
      DEF ConfigInvariant, PhaseFits, Begin, TakeLock, Load, Recheck, EnsureCapacity,
                  WriteCopy, WriteManifest, SyncBackups, Steps
    <3>2. exit'[c] \in {"no_change", "invalid", "busy"}
      BY <1>1, <2>2, <2>3 DEF Begin, TakeLock, Load, Recheck, EnsureCapacity, WriteCopy,
                  WriteManifest, SyncBackups, End
    <3>3. QED
      BY <3>1, <3>2
  <2>4. CASE StageTemporary(c) \/ RecheckIdentity(c) \/ Replace(c)
    <3>1. exit'[c] = IF phase[c] = "publish" THEN "invalid" ELSE "restoration_failed"
      BY <1>1, <2>2, <2>4 DEF StageTemporary, RecheckIdentity, Replace, GiveUp, End
    <3>2. phase[c] = "publish" => ~wrote[c]
      BY <1>1, <2>4
      DEF ConfigInvariant, PhaseFits, StageTemporary, RecheckIdentity, Replace, Steps
    <3>3. QED
      BY <2>2, <3>1, <3>2
  <2>5. CASE SyncDirectory(c)
    BY <1>1, <2>2, <2>5 DEF SyncDirectory, Recover, End
  <2>6. CASE VerifyPublished(c)
    <3>1. wrote[c]
      BY <1>1, <2>6 DEF ConfigInvariant, PhaseFits, VerifyPublished
    <3>2. QED
      BY <1>1, <2>2, <2>6, <3>1 DEF VerifyPublished, Recover, End, Replacement
  <2>7. QED
    BY <1>1, <2>1, <2>3, <2>4, <2>5, <2>6 DEF Step
<1>2. ConfigInvariant /\ [Next]_vars =>
        [\A c \in Commands : exit'[c] # exit[c] => Truth(c)]_vars
  BY <1>1 DEF Next, Environment, Kill, EditActive, EditProfile, DamageBackup, PowerLoss
<1>3. QED
  BY <1>2, ConfigInvariantHolds, PTL DEF Spec, ExitTellsTruth

\* What a publication replaces is what was backed up, but for an edit after
\* the last check.
THEOREM ReplacesWhatItBackedUpHolds == Spec => ReplacesWhatItBackedUp
<1>1. ConfigInvariant =>
        \A c \in Commands : pc[c] = "clear" /\ phase[c] = "publish" =>
                             late[c] \/ active.id = snap[c].id
  BY DEF ConfigInvariant, CheckedFits
<1>2. ConfigInvariant /\ [Next]_vars =>
        [\A c \in Commands :
           pc[c] = "clear" /\ pc'[c] = "renamed" /\ phase[c] = "publish"
             => late[c] \/ active.id = snap[c].id]_vars
  BY <1>1
<1>3. QED
  BY <1>2, ConfigInvariantHolds, PTL DEF Spec, ReplacesWhatItBackedUp

\* What a command installs passes validation in its own environment.
THEOREM InstallsValidHolds == Spec => InstallsValid
<1>1. ASSUME ConfigInvariant, Next, NEW c \in Commands, pc[c] = "clear", pc'[c] = "renamed"
      PROVE  active'.data \in Valid[c]
  <2>1. Replace(c)
    <3>1. ~Environment
      BY <1>1
      DEF Environment, Kill, EditActive, EditProfile, DamageBackup, PowerLoss, Advance,
                  ConfigInvariant, TypeOK
    <3>2. PICK d \in Commands : Step(d)
      BY <1>1, <3>1 DEF Next
    <3>3. \A x, y : Advance(x, y) => pc'[c] = IF x = c THEN y ELSE pc[c]
      BY <1>1 DEF Advance, ConfigInvariant, TypeOK
    <3>4. pc'[c] = "renamed" => d = c /\ Replace(c)
      BY <1>1, <3>2, <3>3
      DEF Step, Begin, TakeLock, Load, Recheck, EnsureCapacity, WriteCopy,
         WriteManifest, SyncBackups, StageTemporary, RecheckIdentity, Replace, SyncDirectory,
         VerifyPublished, GiveUp, Recover, End
    <3>5. QED
      BY <1>1, <3>4
  <2>2. active' = temp[c]
    BY <1>1, <2>1 DEF Replace, GiveUp, End, Advance, ConfigInvariant, TypeOK
  <2>3. temp[c].data = Replacement(c)
    BY <1>1 DEF ConfigInvariant, TemporaryFits
  <2>4. QED
    BY <1>1, <2>2, <2>3, InstalledIsAccepted
    DEF ConfigInvariant, Loaded, Holding, Idle, Steps
<1>2. ConfigInvariant /\ [Next]_vars =>
        [\A c \in Commands :
           pc[c] = "clear" /\ pc'[c] = "renamed" => active'.data \in Valid[c]]_vars
  BY <1>1
<1>3. QED
  BY <1>2, ConfigInvariantHolds, PTL DEF Spec, InstallsValid

-----------------------------------------------------------------------------
(* Counting the backups.                                                   *)

CapacityFits ==
  /\ CapacityHeld
  /\ \A c \in Commands : pc[c] = "room" => Cardinality(Occupied) < MaximumBackups

LEMMA OccupiedCounts ==
  /\ IsFiniteSet(Occupied) /\ Cardinality(Occupied) \in Nat
  /\ \A S \in SUBSET Occupied : Cardinality(S) <= Cardinality(Occupied) /\ Cardinality(S) \in Nat
<1>1. IsFiniteSet(Occupied)
  BY NamesAssumption, FS_Subset DEF Occupied
<1>2. QED
  BY <1>1, FS_Subset, FS_CardinalityType

LEMMA FewerKeepsCapacity ==
  ASSUME CapacityFits, Occupied' \subseteq Occupied,
         \A c \in Commands : pc'[c] = "room" => pc[c] = "room"
  PROVE  CapacityFits'
<1>1. Cardinality(Occupied') <= Cardinality(Occupied) /\ Cardinality(Occupied') \in Nat
  BY OccupiedCounts
<1>2. QED
  BY <1>1, OccupiedCounts, BoundsAssumption DEF CapacityFits, CapacityHeld

LEMMA WriteCopyKeepsCapacity ==
  ASSUME ConfigInvariant, CapacityFits, NEW c \in Commands, WriteCopy(c)
  PROVE  CapacityFits'
<1>1. pc[c] = "room" /\ Cardinality(Occupied) < MaximumBackups
  BY DEF WriteCopy, CapacityFits
<1>2. \A d \in Commands : pc'[d] # "room"
  BY <1>1
  DEF WriteCopy, End, Advance, ConfigInvariant, Exclusive, TypeOK, Holding, Idle, Steps
<1>3. PICK b : Occupied' \subseteq Occupied \cup {b}
  <2>1. CASE UNCHANGED backup
    BY <2>1 DEF Occupied
  <2>2. CASE \E b \in BackupIds : \E p : backup' = [backup EXCEPT ![b] = p]
    BY <2>2 DEF Occupied, ConfigInvariant, TypeOK
  <2>3. QED
    BY <2>1, <2>2 DEF WriteCopy
<1>4. /\ IsFiniteSet(Occupied \cup {b})
      /\ Cardinality(Occupied \cup {b}) <= Cardinality(Occupied) + 1
      /\ Cardinality(Occupied \cup {b}) \in Nat
  <2>1. /\ IsFiniteSet(Occupied \cup {b})
        /\ Cardinality(Occupied \cup {b}) =
             IF b \in Occupied THEN Cardinality(Occupied) ELSE Cardinality(Occupied) + 1
    BY OccupiedCounts, FS_AddElement
  <2>2. QED
    BY <2>1, OccupiedCounts
<1>5. Cardinality(Occupied') <= Cardinality(Occupied \cup {b}) /\ Cardinality(Occupied') \in Nat
  BY <1>3, <1>4, FS_Subset, FS_CardinalityType
<1>6. CapacityHeld'
  BY <1>1, <1>4, <1>5, OccupiedCounts, BoundsAssumption DEF CapacityHeld
<1>7. QED
  BY <1>2, <1>6 DEF CapacityFits

LEMMA EnsureCapacityKeepsCapacity ==
  ASSUME ConfigInvariant, CapacityFits, NEW c \in Commands, EnsureCapacity(c)
  PROVE  CapacityFits'
<1>1. Occupied' = Occupied
  BY DEF EnsureCapacity, Occupied
<1>2. Cardinality(Occupied') = Cardinality(Occupied)
  BY <1>1
<1>3. \A d \in Commands :
        pc'[d] = "room" => pc[d] = "room" \/ Cardinality(Occupied) < MaximumBackups
  BY DEF EnsureCapacity, End, Advance, ConfigInvariant, TypeOK
<1>4. QED
  BY <1>2, <1>3 DEF CapacityFits, CapacityHeld

LEMMA StepsKeepCapacity ==
  ASSUME ConfigInvariant, CapacityFits, NEW c \in Commands, Step(c)
  PROVE  CapacityFits'
<1>1. CASE Begin(c) \/ TakeLock(c) \/ Load(c) \/ Recheck(c) \/ StageTemporary(c)
           \/ RecheckIdentity(c) \/ Replace(c) \/ SyncDirectory(c) \/ VerifyPublished(c)
  <2>1. UNCHANGED backup
    BY <1>1 DEF Begin, TakeLock, Load, Recheck, StageTemporary, RecheckIdentity, Replace,
                SyncDirectory, VerifyPublished
  <2>2. \A d \in Commands : pc'[d] = "room" => pc[d] = "room"
    BY <1>1 DEF Begin, TakeLock, Load, Recheck, StageTemporary, RecheckIdentity, Replace,
                SyncDirectory, VerifyPublished, GiveUp, Recover, End, Advance,
                ConfigInvariant, TypeOK
  <2>3. Occupied' = Occupied
    BY <2>1 DEF Occupied
  <2>4. QED
    BY <2>2, <2>3, FewerKeepsCapacity
<1>2. CASE WriteManifest(c)
  <2>1. slot[c] \in Occupied
    BY <1>2, DocumentsAssumption
    DEF WriteManifest, ConfigInvariant, BackupsFit, BackupFits, Copied, Occupied, LocalsFit,
        Loaded, Holding, Idle, Steps
  <2>2. \A b \in BackupIds : b # slot[c] => backup'[b] = backup[b]
    BY <1>2 DEF WriteManifest, ConfigInvariant, TypeOK
  <2>3. Occupied' \subseteq Occupied
    BY <2>1, <2>2 DEF Occupied
  <2>4. \A d \in Commands : pc'[d] = "room" => pc[d] = "room"
    BY <1>2 DEF WriteManifest, End, Advance, ConfigInvariant, TypeOK
  <2>5. QED
    BY <2>3, <2>4, FewerKeepsCapacity
<1>3. CASE SyncBackups(c)
  <2>1. \A b \in BackupIds : b \notin Occupied => backup'[b] = backup[b]
    BY <1>3 DEF SyncBackups
  <2>2. Occupied' \subseteq Occupied
    BY <2>1 DEF Occupied
  <2>3. \A d \in Commands : pc'[d] = "room" => pc[d] = "room"
    BY <1>3 DEF SyncBackups, End, Advance, ConfigInvariant, TypeOK
  <2>4. QED
    BY <2>2, <2>3, FewerKeepsCapacity
<1>4. QED
  BY <1>1, <1>2, <1>3, WriteCopyKeepsCapacity, EnsureCapacityKeepsCapacity DEF Step

LEMMA EnvironmentKeepsCapacity ==
  ASSUME ConfigInvariant, CapacityFits, Environment
  PROVE  CapacityFits'
<1>1. \A c \in Commands : pc'[c] = "room" => pc[c] = "room"
  BY DEF Environment, Kill, EditActive, EditProfile, DamageBackup, PowerLoss, Advance,
         ConfigInvariant, TypeOK
<1>2. Occupied' \subseteq Occupied
  <2>1. CASE \E b \in BackupIds : DamageBackup(b)
    <3>1. PICK b \in BackupIds : DamageBackup(b)
      BY <2>1
    <3>2. b \in Occupied /\ \A x \in BackupIds : x # b => backup'[x] = backup[x]
      BY <3>1, DocumentsAssumption DEF DamageBackup, Occupied, ConfigInvariant, TypeOK
    <3>3. QED
      BY <3>2 DEF Occupied
  <2>2. CASE PowerLoss
    <3>1. ASSUME NEW b \in BackupIds, b \notin Occupied  PROVE b \notin Occupied'
      <4>1. backup[b].yaml = None /\ backup[b].json = None /\ backup[b] \in Pair
        BY <3>1 DEF Occupied, ConfigInvariant, TypeOK
      <4>2. backup'[b].yaml = None /\ backup'[b].json = None
        BY <2>2, <4>1 DEF PowerLoss, SurvivingPair
      <4>3. QED
        BY <4>2 DEF Occupied
    <3>2. QED
      BY <3>1 DEF Occupied
  <2>3. CASE UNCHANGED backup
    BY <2>3 DEF Occupied
  <2>4. QED
    BY <2>1, <2>2, <2>3 DEF Environment, Kill, EditActive, EditProfile
<1>3. QED
  BY <1>1, <1>2, FewerKeepsCapacity

\* The number of managed identifiers never exceeds --maximum-backups.
THEOREM CapacityHeldHolds == Spec => []CapacityHeld
<1>1. Init => CapacityFits
  <2>1. ASSUME Init PROVE Occupied = {}
    BY <2>1 DEF Init, Occupied, NoPair
  <2>2. QED
    BY <2>1, FS_EmptySet, BoundsAssumption DEF Init, CapacityFits, CapacityHeld
<1>2. ConfigInvariant /\ CapacityFits /\ [Next]_vars => CapacityFits'
  <2>1. ASSUME CapacityFits, UNCHANGED vars PROVE CapacityFits'
    <3>1. Occupied' = Occupied
      BY <2>1 DEF vars, files, Occupied
    <3>2. QED
      BY <2>1, <3>1, FewerKeepsCapacity DEF vars
  <2>2. QED
    BY <2>1, StepsKeepCapacity, EnvironmentKeepsCapacity DEF Next
<1>3. CapacityFits => CapacityHeld
  BY DEF CapacityFits
<1>4. QED
  BY <1>1, <1>2, <1>3, ConfigInvariantHolds, PTL DEF Spec

=============================================================================
