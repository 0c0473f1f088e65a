--------------------------- MODULE ConfigProfiles ---------------------------
(***************************************************************************)
(* Activation and rollback of a complete configuration document            *)
(* (aurora_core/config_profiles): the `aurora config profile apply` and    *)
(* `rollback` commands, each a process of its own, on one active file, one *)
(* profile directory and one backup directory.  Around them an editor      *)
(* writes the active file and the profiles without taking the lock, a      *)
(* backup goes bad, a command is killed, any file operation fails, and the *)
(* machine loses power.                                                    *)
(*                                                                         *)
(* A document is an opaque value; Valid[c] holds those that pass raw and   *)
(* effective validation in command c, whose AURORA_ environment overrides  *)
(* what the document says.  A stamp stands for the identity of a file      *)
(* (device, inode, size, times): every write gives a fresh one.            *)
(***************************************************************************)
EXTENDS Naturals, FiniteSets

CONSTANTS Commands,        \* the command processes; each runs one command
          Profiles,        \* profile ids, each with its file
          Documents,       \* complete documents
          Valid,           \* those a command accepts, in its environment
          Torn,            \* bytes that are not a complete document
          None,            \* no file, no holder, nothing chosen yet
          BackupIds,       \* identifiers the clock and the token can produce
          MaximumBackups,  \* --maximum-backups
          MaxEdits,        \* bound: writes by the editor and damaged backups
          MaxLosses        \* bound: losses of power

ASSUME DocumentsAssumption ==
  Valid \in [Commands -> SUBSET Documents] /\ Torn \notin Documents /\ None \notin Documents \cup {Torn}
ASSUME NamesAssumption ==
  None \notin Commands \cup BackupIds /\ IsFiniteSet(BackupIds)
ASSUME BoundsAssumption ==
  MaximumBackups \in Nat \ {0} /\ MaxEdits \in Nat /\ MaxLosses \in Nat

VARIABLES active,   \* the file the configuration path names
          settled,  \* the file it names after a loss of power, once synced
          profile,  \* the profile files
          backup,   \* the pairs in the backup directory
          temp,     \* the temporary file of a command
          lock,     \* the command that holds .aurora-config.lock
          pc, job, snap, chosen, slot, phase,  \* a command's progress and locals
          exit,     \* the exit code of a command that ended
          wrote,    \* history: the command has replaced the active file
          late,     \* history: an edit landed after its last identity check
          edits, losses, stamp

files    == <<active, settled, profile, backup, temp>>
locals   == <<job, snap, chosen, slot, phase>>
history  == <<wrote, late>>
counters == <<edits, losses, stamp>>
vars     == <<files, lock, pc, locals, exit, history, counters>>

Job  == [kind : {"apply"}, of : Profiles] \cup [kind : {"rollback"}, of : BackupIds]
File == [data : Documents \cup {Torn}, id : Nat, synced : BOOLEAN]
Half == Documents \cup {Torn, None}
Pair == [yaml : Half, json : Half, synced : BOOLEAN]
NoPair == [yaml |-> None, json |-> None, synced |-> FALSE]

Steps == {"start", "preflighted", "locked", "loaded", "unchanged", "room", "yaml",
          "json", "stage", "staged", "clear", "renamed", "published", "ended", "dead"}
Idle    == {"start", "ended", "dead"}
Holding == Steps \ (Idle \cup {"preflighted"})

Codes == {"none", "success", "no_change", "invalid", "busy", "restored",
          "restoration_failed"}

TypeOK ==
  /\ active \in File /\ settled \in File
  /\ profile \in [Profiles -> File]
  /\ backup \in [BackupIds -> Pair]
  /\ temp \in [Commands -> File \cup {None}]
  /\ lock \in Commands \cup {None}
  /\ pc \in [Commands -> Steps]
  /\ job \in [Commands -> Job \cup {None}]
  /\ snap \in [Commands -> File \cup {None}]
  /\ chosen \in [Commands -> File \cup {None}]
  /\ slot \in [Commands -> BackupIds \cup {None}]
  /\ phase \in [Commands -> {"publish", "recover"}]
  /\ exit \in [Commands -> Codes]
  /\ wrote \in [Commands -> BOOLEAN] /\ late \in [Commands -> BOOLEAN]
  /\ edits \in Nat /\ losses \in Nat /\ stamp \in Nat

Original(d) == [data |-> d, id |-> 0, synced |-> TRUE]

Init ==
  /\ active \in {Original(d) : d \in Documents}
  /\ settled = active
  /\ profile \in [Profiles -> {Original(d) : d \in Documents}]
  /\ backup = [b \in BackupIds |-> NoPair]
  /\ temp = [c \in Commands |-> None]
  /\ lock = None
  /\ pc = [c \in Commands |-> "start"]
  /\ job = [c \in Commands |-> None]
  /\ snap = [c \in Commands |-> None]
  /\ chosen = [c \in Commands |-> None]
  /\ slot = [c \in Commands |-> None]
  /\ phase = [c \in Commands |-> "publish"]
  /\ exit = [c \in Commands |-> "none"]
  /\ wrote = [c \in Commands |-> FALSE]
  /\ late = [c \in Commands |-> FALSE]
  /\ edits = 0 /\ losses = 0 /\ stamp = 0

-----------------------------------------------------------------------------
(* The backup directory.                                                   *)

\* An identifier counts as soon as one of its two files exists.
Occupied == {b \in BackupIds : backup[b].yaml # None \/ backup[b].json # None}

\* The manifest holds the digest and the byte count of the bytes it describes.
Intact(b) == backup[b].yaml \in Documents /\ backup[b].json = backup[b].yaml

SelectedFile(j) ==
  IF j.kind = "apply" THEN profile[j.of]
  ELSE [data |-> backup[j.of].yaml, id |-> 0, synced |-> TRUE]

Selectable(j) == j.kind = "rollback" => Intact(j.of)

-----------------------------------------------------------------------------
(* A command: apply or rollback.                                           *)

Advance(c, step) == pc' = [pc EXCEPT ![c] = step]

\* Leaving the `with` block: the temporary is unlinked and the lock returned.
End(c, code) ==
  /\ Advance(c, "ended")
  /\ exit' = [exit EXCEPT ![c] = code]
  /\ lock' = IF lock = c THEN None ELSE lock
  /\ temp' = [temp EXCEPT ![c] = None]

\* The arguments are checked, then the paths are inspected, before the lock.
Begin(c) ==
  /\ pc[c] = "start"
  /\ \E j \in Job :
       /\ job' = [job EXCEPT ![c] = j]
       /\ \/ /\ j.kind = "rollback" =>
                    backup[j.of].yaml # None /\ backup[j.of].json # None
             /\ Advance(c, "preflighted")
             /\ UNCHANGED <<exit, lock, temp>>
          \/ End(c, "invalid")  \* confirmation, argument or path refused
  /\ UNCHANGED <<active, settled, profile, backup, snap, chosen, slot, phase,
                 history, counters>>

\* flock(LOCK_EX | LOCK_NB): contention answers at once, nobody queues.
TakeLock(c) ==
  /\ pc[c] = "preflighted"
  /\ \/ lock = None /\ lock' = c /\ Advance(c, "locked") /\ UNCHANGED <<exit, temp>>
     \/ lock # None /\ End(c, "busy")
     \/ End(c, "invalid")
  /\ UNCHANGED <<active, settled, profile, backup, locals, history, counters>>

\* The first reading of the active file and of the selected document.  They
\* are two reads of files nobody writes together, so one step loses nothing:
\* a write between them is seen by Recheck exactly as one after them.
Load(c) ==
  /\ pc[c] = "locked"
  /\ LET selected == SelectedFile(job[c]) IN
     \/ /\ active.data \in Valid[c]
        /\ Selectable(job[c]) /\ selected.data \in Valid[c]
        /\ \/ /\ job[c].kind = "apply" /\ selected.data = active.data
              /\ End(c, "no_change")
              /\ UNCHANGED <<snap, chosen>>
           \/ /\ job[c].kind = "rollback" \/ selected.data # active.data
              /\ snap' = [snap EXCEPT ![c] = active]
              /\ chosen' = [chosen EXCEPT ![c] = selected]
              /\ Advance(c, "loaded")
              /\ UNCHANGED <<exit, lock, temp>>
     \/ End(c, "invalid") /\ UNCHANGED <<snap, chosen>>
  /\ UNCHANGED <<active, settled, profile, backup, job, slot, phase, history, counters>>

\* The second reading must find the same identity and the same bytes.
Recheck(c) ==
  /\ pc[c] = "loaded"
  /\ \/ /\ active = snap[c]
        /\ Selectable(job[c]) /\ SelectedFile(job[c]) = chosen[c]
        /\ Advance(c, "unchanged")
        /\ UNCHANGED <<exit, lock, temp>>
     \/ End(c, "invalid")
  /\ UNCHANGED <<active, settled, profile, backup, locals, history, counters>>

EnsureCapacity(c) ==
  /\ pc[c] = "unchanged"
  /\ \/ /\ Cardinality(Occupied) < MaximumBackups
        /\ Advance(c, "room")
        /\ UNCHANGED <<exit, lock, temp>>
     \/ End(c, "invalid")
  /\ UNCHANGED <<active, settled, profile, backup, locals, history, counters>>

\* write_new_file: created exclusively, written and synced; on a failure it is
\* unlinked, and stays behind in pieces when the unlink fails too.
WriteCopy(c) ==
  /\ pc[c] = "room"
  /\ \/ \E b \in BackupIds \ Occupied :
          /\ slot' = [slot EXCEPT ![c] = b]
          /\ \/ /\ backup' = [backup EXCEPT ![b] = [NoPair EXCEPT !.yaml = snap[c].data]]
                /\ Advance(c, "yaml")
                /\ UNCHANGED <<exit, lock, temp>>
             \/ backup' = [backup EXCEPT ![b] = [NoPair EXCEPT !.yaml = Torn]]
                /\ End(c, "invalid")
     \/ End(c, "invalid") /\ UNCHANGED <<backup, slot>>
  /\ UNCHANGED <<active, settled, profile, job, snap, chosen, phase, history, counters>>

\* The manifest follows; when it fails the copy stays as an orphan half.
WriteManifest(c) ==
  /\ pc[c] = "yaml"
  /\ \/ /\ backup' = [backup EXCEPT ![slot[c]].json = snap[c].data]
        /\ Advance(c, "json")
        /\ UNCHANGED <<exit, lock, temp>>
     \/ backup' = [backup EXCEPT ![slot[c]].json = Torn] /\ End(c, "invalid")
     \/ End(c, "invalid") /\ UNCHANGED backup
  /\ UNCHANGED <<active, settled, profile, locals, history, counters>>

\* Bug: the backup directory is not synced.
BackupsUnsynced(c) ==
  /\ pc[c] = "json" /\ Advance(c, "stage")
  /\ UNCHANGED <<files, lock, locals, exit, history, counters>>

\* fsync of the backup directory makes every name in it outlive a power loss.
SyncBackups(c) ==
  /\ pc[c] = "json"
  /\ \/ /\ backup' = [b \in BackupIds |->
                        IF b \in Occupied THEN [backup[b] EXCEPT !.synced = TRUE]
                        ELSE backup[b]]
        /\ Advance(c, "stage")
        /\ UNCHANGED <<exit, lock, temp>>
     \/ End(c, "invalid") /\ UNCHANGED backup
  /\ UNCHANGED <<active, settled, profile, locals, history, counters>>

-----------------------------------------------------------------------------
(* atomic_replace, once to publish and once more to restore.               *)

\* A failed publication before os.replace leaves the file alone; a failed
\* restoration is reported as such whatever it did.
GiveUp(c) == End(c, IF phase[c] = "publish" THEN "invalid" ELSE "restoration_failed")

\* Only the publication names the identity it expects to replace.
SameIdentity(c) == phase[c] = "publish" => active.id = snap[c].id

Replacement(c) == IF phase[c] = "publish" THEN chosen[c].data ELSE snap[c].data

\* Bug: the temporary is published without fsync.
StageUnsynced(c) ==
  /\ pc[c] = "stage" /\ SameIdentity(c)
  /\ temp' = [temp EXCEPT ![c] =
                [data |-> Replacement(c), id |-> stamp + 1, synced |-> FALSE]]
  /\ stamp' = stamp + 1 /\ Advance(c, "staged")
  /\ UNCHANGED <<active, settled, profile, backup, lock, locals, exit, history,
                 edits, losses>>

\* The temporary is written and synced beside the destination.
StageTemporary(c) ==
  /\ pc[c] = "stage"
  /\ \/ /\ SameIdentity(c)
        /\ temp' = [temp EXCEPT ![c] =
                      [data |-> Replacement(c), id |-> stamp + 1, synced |-> TRUE]]
        /\ stamp' = stamp + 1
        /\ Advance(c, "staged")
        /\ UNCHANGED <<exit, lock>>
     \/ GiveUp(c) /\ UNCHANGED stamp
  /\ UNCHANGED <<active, settled, profile, backup, locals, history, edits, losses>>

\* Bug: the identity is not looked at again before os.replace.
NoSecondCheck(c) ==
  /\ pc[c] = "staged" /\ Advance(c, "clear")
  /\ UNCHANGED <<files, lock, locals, exit, history, counters>>

RecheckIdentity(c) ==
  /\ pc[c] = "staged"
  /\ \/ SameIdentity(c) /\ Advance(c, "clear") /\ UNCHANGED <<exit, lock, temp>>
     \/ GiveUp(c)  \* another identity, or the stat failed
  /\ UNCHANGED <<active, settled, profile, backup, locals, history, counters>>

\* os.replace: between the last check and this step an editor may still write.
Replace(c) ==
  /\ pc[c] = "clear"
  /\ \/ /\ active' = temp[c]
        /\ temp' = [temp EXCEPT ![c] = None]
        /\ wrote' = [wrote EXCEPT ![c] = TRUE]
        /\ Advance(c, "renamed")
        /\ UNCHANGED <<exit, lock>>
     \/ GiveUp(c) /\ UNCHANGED <<active, wrote>>
  /\ UNCHANGED <<settled, profile, backup, locals, late, counters>>

\* A failure from here on is a failure after publication.
Recover(c) ==
  IF phase[c] = "publish"
  THEN /\ phase' = [phase EXCEPT ![c] = "recover"]
       /\ Advance(c, "stage")
       /\ UNCHANGED <<exit, lock, temp>>
  ELSE End(c, "restoration_failed") /\ UNCHANGED phase

\* Bug: a failed fsync of the directory counts as not published.
SyncFailureUnpublished(c) ==
  /\ pc[c] = "renamed"
  /\ \/ settled' = active /\ Advance(c, "published") /\ UNCHANGED <<exit, lock, temp>>
     \/ GiveUp(c) /\ UNCHANGED settled
  /\ UNCHANGED <<active, profile, backup, locals, history, counters>>

SyncDirectory(c) ==
  /\ pc[c] = "renamed"
  /\ \/ settled' = active /\ Advance(c, "published") /\ UNCHANGED <<exit, lock, temp, phase>>
     \/ Recover(c) /\ UNCHANGED settled
  /\ UNCHANGED <<active, profile, backup, job, snap, chosen, slot, history, counters>>

\* Bug: the file is read again until it holds the expected bytes.
VerifyUntilEqual(c) ==
  /\ pc[c] = "published"
  /\ active.data = Replacement(c) /\ active.data \in Valid[c]
  /\ End(c, IF phase[c] = "publish" THEN "success" ELSE "restored")
  /\ UNCHANGED <<active, settled, profile, backup, locals, history, counters>>

\* The published file is opened again: exact bytes, then validation.
VerifyPublished(c) ==
  /\ pc[c] = "published"
  /\ \/ /\ active.data = Replacement(c) /\ active.data \in Valid[c]
        /\ End(c, IF phase[c] = "publish" THEN "success" ELSE "restored")
        /\ UNCHANGED phase
     \/ Recover(c)
  /\ UNCHANGED <<active, settled, profile, backup, job, snap, chosen, slot, history,
                 counters>>

Step(c) ==
  \/ Begin(c) \/ TakeLock(c) \/ Load(c) \/ Recheck(c) \/ EnsureCapacity(c)
  \/ WriteCopy(c) \/ WriteManifest(c) \/ SyncBackups(c)
  \/ StageTemporary(c) \/ RecheckIdentity(c) \/ Replace(c) \/ SyncDirectory(c)
  \/ VerifyPublished(c)

-----------------------------------------------------------------------------
(* What happens around the commands.                                       *)

\* A killed command (or one interrupted: KeyboardInterrupt is no Exception)
\* drops its lock with its descriptor and restores nothing.
Kill(c) ==
  /\ pc[c] \notin Idle
  /\ Advance(c, "dead")
  /\ lock' = IF lock = c THEN None ELSE lock
  /\ temp' = [temp EXCEPT ![c] = None]
  /\ UNCHANGED <<active, settled, profile, backup, locals, exit, history, counters>>

Written(d) == [data |-> d, id |-> stamp + 1, synced |-> TRUE]

\* The editor does not know the lock; what it saves it saves durably.
EditActive(d) ==
  /\ edits < MaxEdits /\ edits' = edits + 1
  /\ active' = Written(d) /\ settled' = active' /\ stamp' = stamp + 1
  /\ late' = [c \in Commands |-> late[c] \/ (pc[c] = "clear" /\ phase[c] = "publish")]
  /\ UNCHANGED <<profile, backup, temp, lock, pc, locals, exit, wrote, losses>>

EditProfile(p, d) ==
  /\ edits < MaxEdits /\ edits' = edits + 1
  /\ profile' = [profile EXCEPT ![p] = Written(d)] /\ stamp' = stamp + 1
  /\ UNCHANGED <<active, settled, backup, temp, lock, pc, locals, exit, history, losses>>

DamageBackup(b) ==
  /\ edits < MaxEdits /\ edits' = edits + 1
  /\ backup[b].yaml \in Documents
  /\ backup' = [backup EXCEPT ![b].yaml = Torn]
  /\ UNCHANGED <<active, settled, profile, temp, lock, pc, locals, exit, history,
                 losses, stamp>>

\* After a loss of power a directory names the file it named before or after
\* an unsynced change, and unsynced bytes are gone.
Surviving(f) == IF f.synced THEN f ELSE [f EXCEPT !.data = Torn]
SurvivingPair(p, copy, manifest) ==
  IF p.synced THEN p
  ELSE [yaml |-> IF copy THEN p.yaml ELSE None,
        json |-> IF manifest THEN p.json ELSE None,
        synced |-> copy \/ manifest]

PowerLoss ==
  /\ losses < MaxLosses /\ losses' = losses + 1
  /\ active' \in {Surviving(active), Surviving(settled)}
  /\ settled' = active'
  /\ \E copies, manifests \in SUBSET Occupied :
       backup' = [b \in BackupIds |->
                    SurvivingPair(backup[b], b \in copies, b \in manifests)]
  /\ pc' = [c \in Commands |-> IF pc[c] \in Idle THEN pc[c] ELSE "dead"]
  /\ lock' = None
  /\ temp' = [c \in Commands |-> None]
  /\ UNCHANGED <<profile, locals, exit, history, edits, stamp>>

Environment ==
  \/ \E c \in Commands : Kill(c)
  \/ \E d \in Documents : EditActive(d) \/ \E p \in Profiles : EditProfile(p, d)
  \/ \E b \in BackupIds : DamageBackup(b)
  \/ PowerLoss

Next == (\E c \in Commands : Step(c)) \/ Environment

Spec == Init /\ [][Next]_vars

\* A started process is scheduled until it exits.
FairSpec == Spec /\ \A c \in Commands : WF_vars(Step(c) /\ pc[c] # "start")

-----------------------------------------------------------------------------
(* Properties.                                                             *)

\* Two commands never both hold the mutation lock of the backup directory
\* (filesystem.mutation_lock).
Exclusive == \A c \in Commands : pc[c] \in Holding => lock = c

\* Apply and rollback count the managed identifiers before they create one
\* more; the count, orphan halves included, never exceeds --maximum-backups
\* (ensure_capacity is a check and create an act, under one lock).
CapacityHeld == Cardinality(Occupied) <= MaximumBackups

\* Whatever fails, is killed or loses power, the configuration path names a
\* complete document and never part of one (atomic_replace).
WholeDocument == active.data \in Documents

\* Once a command has replaced the active file, the bytes it replaced are
\* in a backup pair that outlives the command and a loss of power: its
\* manifest describes them, and the copy holds them unless it was damaged
\* from outside (create before _publish_with_recovery).
Reversible ==
  \A c \in Commands : wrote[c] =>
    \E b \in BackupIds :
      /\ backup[b].synced
      /\ backup[b].json = snap[c].data
      /\ backup[b].yaml \in {snap[c].data, Torn}

\* The exit code says what became of the active file: 2, 3 and a no-op left
\* it alone, 0 installed the selected document, 4 brought the previous bytes
\* back (the exit codes of docs/configuration-profiles.md).
ExitTellsTruth ==
  [][\A c \in Commands : exit'[c] # exit[c] =>
       /\ exit'[c] \in {"no_change", "invalid", "busy"} => ~wrote[c]
       /\ exit'[c] = "success" => wrote[c] /\ active.data = chosen[c].data
       /\ exit'[c] = "restored" => wrote[c] /\ active.data = snap[c].data]_vars

\* A publication replaces the very file that was backed up; only an edit
\* that lands after the last identity check can be lost by it (the two
\* checks of expected_identity in atomic_replace).
ReplacesWhatItBackedUp ==
  [][\A c \in Commands :
       pc[c] = "clear" /\ pc'[c] = "renamed" /\ phase[c] = "publish"
         => late[c] \/ active.id = snap[c].id]_vars

\* No command ever installs a document that fails validation, a rollback to
\* a managed backup and an automatic restoration included.
InstallsValid ==
  [][\A c \in Commands :
       pc[c] = "clear" /\ pc'[c] = "renamed" => active'.data \in Valid[c]]_vars

\* Every started command comes to an end: contention is answered, and the
\* one restoration is not retried ("There is no indefinite retry").
EveryCommandEnds ==
  \A c \in Commands : pc[c] # "start" ~> pc[c] \in {"ended", "dead"}

=============================================================================
