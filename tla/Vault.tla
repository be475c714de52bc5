------------------------------- MODULE Vault -------------------------------
(***************************************************************************)
(* The encrypted vault of op4-core/src/storage/vault.rs: one file with a   *)
(* normal and a duress section, a marker file next to it that holds the    *)
(* sequence number of the last save, and the process that has the vault    *)
(* unlocked.  Every file operation of write_atomic is a step, each may     *)
(* fail, and the process may be killed (or, if PowerCuts, the machine may  *)
(* lose power) between any two of them.                                    *)
(*                                                                         *)
(* The payload (keys, contacts, conversations, outbox) is abstracted to a  *)
(* member of Doc: the properties only tell payloads apart.                 *)
(***************************************************************************)
EXTENDS Naturals

CONSTANTS
  Doc,        \* payloads the application saves
  EmptyDoc,   \* VaultPayload::default(), what create() writes
  DuressDoc,  \* the decoy payload
  NoFile, Torn, Closed, NoJob,
  MaxSeq,     \* bound: saves are not started beyond this sequence number
  PowerCuts,  \* may the machine lose power (renames not yet on disk vanish)?
  Tampering   \* may a closed vault be replaced by an older copy of itself?

Docs == Doc \cup {EmptyDoc, DuressDoc}
Pass == {"normal", "duress"}
Salt == {"normal_salt", "duress_salt"}

\* argon2id_derive(passphrase, salt): equal only for equal arguments.
Key == Pass \X Salt
NormalKey(p) == <<p, "normal_salt">>
DuressKey(p) == <<p, "duress_salt">>

\* One AEAD section of the file: the key that opens it and what it holds.
Section == [key : Key, seq : Nat, doc : Docs]
Version == [normal : Section, duress : Section]
Marker  == [seq : Nat, key : Key]
Session == [seq : Nat, doc : Docs, duress : BOOLEAN, key : Key, other : Section]
Job     == [op : {"create", "setup", "save"}, file : {"vault", "marker"},
            step : {"keys", "write", "sync", "rename"}]
Tmp     == [data : Version \cup Marker \cup {Torn}, synced : BOOLEAN]

ASSUME VaultConstants ==
  /\ MaxSeq \in Nat
  /\ PowerCuts \in BOOLEAN
  /\ Tampering \in BOOLEAN
  /\ EmptyDoc \notin Doc
  /\ DuressDoc \notin Doc \cup {EmptyDoc}
  /\ NoFile # Torn
  /\ {NoFile, Torn, Closed} \cap Docs = {}
  /\ {NoFile, Torn} \cap (Version \cup Marker \cup Tmp) = {}
  /\ Closed \notin Session
  /\ NoJob \notin Job

VARIABLES
  vaultFile,  \* what the name vault.op4 shows: NoFile, Torn or a Version
  marker,     \* what the name vault.seq shows
  tmp,        \* the temporary file vault.tmp that both writers use
  olderVault, \* entries for vault.op4 that a power cut can bring back
  olderMarker,\* entries for vault.seq that a power cut can bring back
  dirty,      \* files renamed into place before their data was on disk
  mem,        \* the VaultUnlocked of the running process, or Closed
  job,        \* the file operation the process is about to do, or NoJob
  acked,      \* history: what the last successful save() wrote
  versions,   \* history: every version vault.op4 has shown
  tampered,   \* history: an older copy was put back or the marker removed
  cut         \* history: the power failed

older == <<olderVault, olderMarker>>
disk == <<vaultFile, marker, tmp, older, dirty>>
ghost == <<acked, versions, tampered, cut>>
vars == <<disk, mem, job, ghost>>

Files == {"vault", "marker"}

TypeOK ==
  /\ vaultFile \in Version \cup {NoFile, Torn}
  /\ marker \in Marker \cup {NoFile, Torn}
  /\ tmp \in Tmp \cup {NoFile}
  /\ olderVault \subseteq Version \cup {NoFile}
  /\ olderMarker \subseteq Marker \cup {NoFile}
  /\ dirty \subseteq Files
  /\ mem \in Session \cup {Closed}
  /\ job \in Job \cup {NoJob}
  /\ acked \in [seq : Nat, doc : Docs]
  /\ versions \subseteq Version
  /\ tampered \in BOOLEAN
  /\ cut \in BOOLEAN

Init ==
  /\ vaultFile = NoFile
  /\ marker = NoFile
  /\ tmp = NoFile
  /\ olderVault = {} /\ olderMarker = {}
  /\ dirty = {}
  /\ mem = Closed
  /\ job = NoJob
  /\ acked = [seq |-> 0, doc |-> EmptyDoc]
  /\ versions = {}
  /\ tampered = FALSE
  /\ cut = FALSE

-----------------------------------------------------------------------------
(* What the code computes.                                                 *)

\* build_vault_file: the payload under the session's key, the other section
\* verbatim.  Salts stay where they are, so a session that saves under a key
\* derived with the wrong salt leaves a section no passphrase opens.
BuildVaultFile(s) ==
  [normal |-> [key |-> s.key, seq |-> s.seq, doc |-> s.doc], duress |-> s.other]

\* Which mode unlock() enters for a passphrase on a given version.
OpensNormal(v, p) == v.normal.key = NormalKey(p)
OpensDuress(v, p) == ~OpensNormal(v, p) /\ v.duress.key = DuressKey(p)

\* read_sequence_marker: missing, damaged or signed with another key is None.
MarkerReadable(key) == marker \notin {NoFile, Torn} /\ marker.key = key

\* Mutant: a marker one ahead is taken for a save that was interrupted.
CheckRollbackTolerant ==
  IF MarkerReadable(mem.key) THEN mem.seq + 1 < marker.seq ELSE mem.seq > 0

\* check_rollback().  A marker that is missing or unreadable is an alarm on a
\* vault that was ever saved, as the comment at vault.rs:421 says; the comment
\* above the function (vault.rs:417) says that it is none.
CheckRollback ==
  IF MarkerReadable(mem.key) THEN mem.seq < marker.seq ELSE mem.seq > 0

\* Mutant: the two writers swapped.
ContentsSwapped(file) ==
  IF file = "marker" THEN BuildVaultFile(mem) ELSE [seq |-> mem.seq, key |-> mem.key]

\* What save() hands to write_atomic for the file of the current job.
Contents(file) ==
  IF file = "vault" THEN BuildVaultFile(mem) ELSE [seq |-> mem.seq, key |-> mem.key]

StartWrite(op, file) == job' = [op |-> op, file |-> file, step |-> "write"]

-----------------------------------------------------------------------------
(* The calls of the application.                                           *)

\* create(): a vault with an empty payload, sequence number 0, no marker.
StartCreate ==
  /\ mem' = [seq |-> 0, doc |-> EmptyDoc, duress |-> FALSE,
             key |-> NormalKey("normal"),
             other |-> [key |-> DuressKey("duress"), seq |-> 0, doc |-> DuressDoc]]
  /\ StartWrite("create", "vault")
  /\ UNCHANGED <<disk, ghost>>

\* Mutant: the first-run wizard does not look whether a vault exists.
CreateAlways == mem = Closed /\ StartCreate

Create == vaultFile = NoFile /\ mem = Closed /\ StartCreate

\* create_new_vault() goes on with the identity keys and its first save().
SetupKeys(d) ==
  /\ job # NoJob /\ job.step = "keys"
  /\ mem.seq < MaxSeq
  /\ mem' = [mem EXCEPT !.doc = d, !.seq = @ + 1]
  /\ StartWrite("setup", "vault")
  /\ UNCHANGED <<disk, ghost>>

\* unlock(): the normal key first, then the duress key; in duress mode the
\* session keeps the normal section as the opaque other one.
Unlock(p) ==
  /\ mem = Closed /\ vaultFile \notin {NoFile, Torn}
  /\ \/ /\ OpensNormal(vaultFile, p)
        /\ mem' = [seq |-> vaultFile.normal.seq, doc |-> vaultFile.normal.doc,
                   duress |-> FALSE, key |-> NormalKey(p), other |-> vaultFile.duress]
     \/ /\ OpensDuress(vaultFile, p)
        /\ mem' = [seq |-> vaultFile.duress.seq, doc |-> vaultFile.duress.doc,
                   duress |-> TRUE, key |-> DuressKey(p), other |-> vaultFile.normal]
  /\ UNCHANGED <<disk, job, ghost>>

\* The application changes the payload in memory.
Edit(d) ==
  /\ mem # Closed /\ job = NoJob
  /\ d # mem.doc
  /\ mem' = [mem EXCEPT !.doc = d]
  /\ UNCHANGED <<disk, job, ghost>>

\* save(): the sequence number goes up in memory before anything is written
\* and stays up if the write fails.
StartSave ==
  /\ mem # Closed /\ job = NoJob
  /\ mem.seq < MaxSeq
  /\ mem' = [mem EXCEPT !.seq = @ + 1]
  /\ StartWrite("save", "vault")
  /\ UNCHANGED <<disk, ghost>>

\* Mutant: save() without its DuressSave guard.
SaveAnySession == StartSave

\* A decoy session never saves.
Save == StartSave /\ ~mem.duress

-----------------------------------------------------------------------------
(* write_atomic: write the temporary file, sync it, rename it into place.  *)

WriteTmp ==
  /\ job # NoJob /\ job.step = "write"
  /\ tmp' = [data |-> Contents(job.file), synced |-> FALSE]
  /\ job' = [job EXCEPT !.step = "sync"]
  /\ UNCHANGED <<vaultFile, marker, older, dirty, mem, ghost>>

\* Mutant: sync_all is never called.
SyncSkipped ==
  /\ job # NoJob /\ job.step = "sync"
  /\ job' = [job EXCEPT !.step = "rename"]
  /\ UNCHANGED <<vaultFile, marker, tmp, older, dirty, mem, ghost>>

SyncTmp ==
  /\ job # NoJob /\ job.step = "sync"
  /\ tmp' = [tmp EXCEPT !.synced = TRUE]
  /\ job' = [job EXCEPT !.step = "rename"]
  /\ UNCHANGED <<vaultFile, marker, older, dirty, mem, ghost>>

\* The directory is not synced: the entry a rename replaces may come back
\* after a power cut.
Shadow(entries, old) == IF PowerCuts THEN entries \cup {old} ELSE entries

\* Data that was not synced is torn if the power fails after its rename.
Renamed(file) ==
  /\ dirty' = IF tmp.synced THEN dirty \ {file} ELSE dirty \cup {file}
  /\ tmp' = NoFile

\* save() goes on to the marker; create() has none and goes on to the keys.
RenameVault ==
  /\ job # NoJob /\ job.step = "rename" /\ job.file = "vault"
  /\ Renamed("vault")
  /\ olderVault' = Shadow(olderVault, vaultFile)
  /\ vaultFile' = tmp.data
  /\ versions' = versions \cup {tmp.data}
  /\ job' = IF job.op = "create"
            THEN [op |-> "setup", file |-> "vault", step |-> "keys"]
            ELSE [job EXCEPT !.file = "marker", !.step = "write"]
  /\ UNCHANGED <<marker, olderMarker, mem, acked, tampered, cut>>

\* The rename of the marker is the last thing save() does: it returns Ok.
RenameMarker ==
  /\ job # NoJob /\ job.step = "rename" /\ job.file = "marker"
  /\ Renamed("marker")
  /\ olderMarker' = Shadow(olderMarker, marker)
  /\ marker' = tmp.data
  /\ acked' = [seq |-> mem.seq, doc |-> mem.doc]
  /\ job' = NoJob
  /\ UNCHANGED <<vaultFile, olderVault, mem, versions, tampered, cut>>

\* Mutant: an error of the first write_atomic does not stop save().
FailIgnored ==
  /\ job # NoJob /\ job.step # "keys"
  /\ job' = IF job.op = "save" /\ job.file = "vault"
            THEN [job EXCEPT !.file = "marker", !.step = "write"] ELSE NoJob
  /\ mem' = IF job.op = "save" THEN mem ELSE Closed
  /\ UNCHANGED <<disk, ghost>>

\* Mutant: a failed save() takes its sequence number back.
FailReusesSeq ==
  /\ job # NoJob /\ job.step # "keys"
  /\ job' = NoJob
  /\ mem' = IF job.op = "save" THEN [mem EXCEPT !.seq = @ - 1] ELSE Closed
  /\ UNCHANGED <<disk, ghost>>

\* A file operation fails: save() returns the error and the session goes on,
\* except that first-run setup exits the program.
Fail ==
  /\ job # NoJob /\ job.step # "keys"
  /\ tmp' \in {tmp} \cup (IF job.step = "write" THEN {[data |-> Torn, synced |-> FALSE]} ELSE {})
  /\ job' = NoJob
  /\ mem' = IF job.op = "save" THEN mem ELSE Closed
  /\ UNCHANGED <<vaultFile, marker, older, dirty, ghost>>

-----------------------------------------------------------------------------
(* The environment.                                                        *)

\* The process exits or is killed; what was renamed stays.
Exit ==
  /\ mem # Closed
  /\ mem' = Closed
  /\ job' = NoJob
  /\ UNCHANGED <<disk, ghost>>

\* The operating system writes the directory back.
DirectoryReachesDisk ==
  /\ PowerCuts /\ older # <<{}, {}>>
  /\ olderVault' = {} /\ olderMarker' = {}
  /\ dirty' = {}
  /\ UNCHANGED <<vaultFile, marker, tmp, mem, job, ghost>>

PowerCut ==
  /\ PowerCuts
  /\ vaultFile' \in olderVault \cup (IF "vault" \in dirty THEN {Torn} ELSE {vaultFile})
  /\ marker' \in olderMarker \cup (IF "marker" \in dirty THEN {Torn} ELSE {marker})
  /\ olderVault' = {} /\ olderMarker' = {}
  /\ dirty' = {}
  /\ tmp' = NoFile
  /\ mem' = Closed
  /\ job' = NoJob
  /\ cut' = TRUE
  /\ UNCHANGED <<acked, versions, tampered>>

\* A closed vault is replaced by an older copy of itself.
Restore(v) ==
  /\ Tampering /\ mem = Closed
  /\ v \in versions \ {vaultFile}
  /\ vaultFile' = v
  /\ tampered' = TRUE
  /\ UNCHANGED <<marker, tmp, older, dirty, mem, job, acked, versions, cut>>

RemoveMarker ==
  /\ Tampering /\ mem = Closed /\ marker # NoFile
  /\ marker' = NoFile
  /\ tampered' = TRUE
  /\ UNCHANGED <<vaultFile, tmp, older, dirty, mem, job, acked, versions, cut>>

WriteAtomic == WriteTmp \/ SyncTmp \/ RenameVault \/ RenameMarker \/ Fail

Next ==
  \/ Create
  \/ \E d \in Doc : SetupKeys(d)
  \/ \E p \in Pass : Unlock(p)
  \/ \E d \in Doc : Edit(d)
  \/ Save
  \/ WriteAtomic
  \/ Exit
  \/ DirectoryReachesDisk
  \/ PowerCut
  \/ \E v \in versions : Restore(v)
  \/ RemoveMarker

Spec == Init /\ [][Next]_vars

-----------------------------------------------------------------------------
(* Properties.                                                             *)

\* write_atomic syncs the data before the rename, so neither file is ever
\* half written, whatever the process or the power supply does.
NeverTorn == Torn \notin {vaultFile, marker}

\* The two sections keep their meaning across every save, failed save and
\* crash: the normal passphrase opens the real payload and the duress
\* passphrase the decoy (the DuressSave guard and the verbatim other section).
PassphrasesKeepMeaning ==
  vaultFile \notin {NoFile, Torn} =>
    /\ OpensNormal(vaultFile, "normal") /\ vaultFile.normal.doc # DuressDoc
    /\ OpensDuress(vaultFile, "duress")
    /\ vaultFile.duress = [key |-> DuressKey("duress"), seq |-> 0, doc |-> DuressDoc]

\* A payload whose save() returned Ok is not lost when the process dies: the
\* file holds it, or a later one.  (After a power cut it may be gone.)
AckedDurable ==
  acked.seq > 0 /\ ~tampered /\ ~cut =>
    /\ vaultFile \notin {NoFile, Torn}
    /\ vaultFile.normal.seq >= acked.seq
    /\ vaultFile.normal.seq = acked.seq => vaultFile.normal.doc = acked.doc

\* A sequence number names one content: two different versions of the file
\* never carry the same number (the marker compares nothing else).
SeqNamesVersion ==
  ~tampered /\ ~cut =>
    \A v, w \in versions : v.normal.seq = w.normal.seq => v = w

\* An older copy is noticed: unlocking a version from before the last
\* successful save makes check_rollback() true, unless it is the empty vault
\* of create() and the marker was removed with it.  This holds because a
\* removed marker is an alarm: under the comment at vault.rs:417 ("`false` if
\* OK or no marker exists") removing the marker would hide every rollback.
RollbackDetected ==
  [][ \A p \in Pass :
        Unlock(p) /\ ~mem'.duress /\ mem'.seq < acked.seq /\ ~cut =>
          CheckRollback' \/ (mem'.seq = 0 /\ marker = NoFile) ]_vars

-----------------------------------------------------------------------------
(* The vault implements the register: renaming vault.op4 is the commit.    *)

Register == INSTANCE VaultRegister WITH
  reverted <- tampered \/ cut,
  stored  <- IF vaultFile \in {NoFile, Torn} THEN vaultFile ELSE vaultFile.normal.doc,
  session <- IF mem = Closed THEN Closed ELSE IF mem.duress THEN Closed ELSE mem.doc,
  history <- {v.normal.doc : v \in versions}

\* Every behaviour of the vault is one of the register.
ImplementsRegister == Register!RSpec

=============================================================================
