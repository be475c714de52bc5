---------------------------- MODULE VaultProofs ----------------------------
(***************************************************************************)
(* Proofs about Vault, for any payloads and any number of saves.  The      *)
(* properties are not inductive: they rest on what the process holds in    *)
(* the middle of a save, which VaultInv spells out.                        *)
(***************************************************************************)
EXTENDS Vault, TLAPS

\* The decoy section create() writes, which no save ever touches.
DecoySection == [key |-> DuressKey("duress"), seq |-> 0, doc |-> DuressDoc]

\* A version whose two sections open with their own passphrases.
Sound(v) ==
  /\ v.normal.key = NormalKey("normal")
  /\ v.normal.doc # DuressDoc
  /\ v.duress = DecoySection

\* The process between two file operations: only a normal session saves, and
\* the temporary file holds what the session holds.
JobInv ==
  job # NoJob =>
    /\ mem # Closed /\ ~mem.duress
    /\ job.op = "create" => job.file = "vault" /\ mem.doc = EmptyDoc
    /\ job.step = "keys" => job.op = "setup" /\ job.file = "vault"
    /\ job.step \in {"sync", "rename"} => tmp # NoFile /\ tmp.data = Contents(job.file)
    /\ job.step = "rename" => tmp.synced

\* Every version that is, was or may come back as vault.op4 is sound.
SoundInv ==
  /\ Torn \notin {vaultFile, marker}
  /\ dirty = {}
  /\ vaultFile # NoFile => vaultFile \in versions
  /\ olderVault \subseteq versions \cup {NoFile}
  /\ \A v \in versions : Sound(v)
  /\ mem # Closed => IF mem.duress THEN mem.key # NormalKey("normal")
                                   ELSE mem.doc # DuressDoc /\ mem.other = DecoySection
                                        /\ mem.key = NormalKey("normal")
  /\ marker # NoFile => marker.key = NormalKey("normal")
  /\ \A m \in olderMarker : m # NoFile => m.key = NormalKey("normal")

\* Sequence numbers: the file carries the highest number so far, and a save
\* under way writes a higher one.
SeqInv ==
  ~tampered /\ ~cut =>
    /\ vaultFile = NoFile => versions = {}
    /\ \A v \in versions : v.normal.seq <= vaultFile.normal.seq
    /\ \A v, w \in versions : v.normal.seq = w.normal.seq => v = w
    /\ mem # Closed /\ ~mem.duress /\ vaultFile # NoFile => mem.seq >= vaultFile.normal.seq
    /\ job # NoJob => (vaultFile = NoFile <=> job.op = "create")
    /\ job # NoJob /\ job.op # "create" /\ job.file = "vault" /\ job.step # "keys" =>
         mem.seq > vaultFile.normal.seq
    /\ job # NoJob /\ job.file = "marker" => vaultFile = BuildVaultFile(mem)
    /\ mem # Closed /\ job = NoJob => vaultFile # NoFile

\* The marker carries the number of the last successful save.
AckInv ==
  /\ ~cut /\ marker # NoFile => marker.seq = acked.seq
  /\ ~cut /\ ~tampered =>
       /\ marker = NoFile => acked.seq = 0
       /\ vaultFile = NoFile => acked.seq = 0
       /\ vaultFile # NoFile =>
            /\ acked.seq <= vaultFile.normal.seq
            /\ acked.seq = vaultFile.normal.seq /\ acked.seq > 0 =>
                 acked.doc = vaultFile.normal.doc

VaultInv == TypeOK /\ JobInv /\ SoundInv /\ SeqInv /\ AckInv
-----------------------------------------------------------------------------

\* The initial state satisfies the invariant.
LEMMA InitInv == Init => VaultInv
<1> SUFFICES ASSUME Init PROVE VaultInv
  OBVIOUS
<1>1. TypeOK
  BY VaultConstants DEF Init, TypeOK, Docs
<1>2. JobInv /\ SoundInv
  BY VaultConstants DEF Init, JobInv, SoundInv
<1>3. SeqInv /\ AckInv
  BY DEF Init, SeqInv, AckInv
<1> QED BY <1>1, <1>2, <1>3 DEF VaultInv

\* The special values are no files, sessions or jobs.
LEMMA Distinct ==
  /\ NoFile # Torn /\ NoFile \notin Tmp /\ Closed \notin Session /\ NoJob \notin Job
  /\ {NoFile, Torn} \cap (Version \cup Marker) = {}
  /\ DuressDoc # EmptyDoc /\ DuressDoc \notin Doc
  /\ {NoFile, Torn, Closed} \cap Docs = {}
BY VaultConstants

\* What the steps of write_atomic leave in the temporary file.
LEMMA TmpFiles ==
  /\ \A c \in Version \cup Marker \cup {Torn} : \A b \in BOOLEAN :
       [data |-> c, synced |-> b] \in Tmp
  /\ \A t \in Tmp : LET u == [t EXCEPT !.synced = TRUE]
                    IN  u \in Tmp /\ u.data = t.data /\ u.synced
BY DEF Tmp

\* The sessions that create() and unlock() build.
LEMMA SessionOf ==
  ASSUME NEW q \in Nat, NEW d \in Docs, NEW b \in BOOLEAN, NEW k \in Key, NEW o \in Section
  PROVE  [seq |-> q, doc |-> d, duress |-> b, key |-> k, other |-> o] \in Session
BY DEF Session

\* The keys of the passphrases are keys, and no duress key opens the normal section.
LEMMA KeysAreKeys ==
  /\ \A p \in Pass : NormalKey(p) \in Key /\ DuressKey(p) \in Key
  /\ \A p \in Pass : DuressKey(p) # NormalKey("normal")
  /\ DecoySection \in Section
<1>1. \A p \in Pass : NormalKey(p) \in Key /\ DuressKey(p) \in Key
  BY DEF NormalKey, DuressKey, Key, Salt
<1>2. "duress" \in Pass
  BY DEF Pass
<1> QED BY <1>1, <1>2 DEF NormalKey, DuressKey, DecoySection, Section, Docs

\* The first-run setup changes the payload and the sequence number.
LEMMA SessionSetup ==
  ASSUME mem \in Session, NEW d \in Docs
  PROVE  LET s == [mem EXCEPT !.doc = d, !.seq = @ + 1]
         IN  s \in Session /\ s.key = mem.key /\ s.duress = mem.duress /\ s.doc = d
             /\ s.other = mem.other /\ s.seq = mem.seq + 1
<1>1. mem.seq + 1 \in Nat
  BY DEF Session
<1>2. [mem EXCEPT !.doc = d, !.seq = @ + 1] \in Session
  BY <1>1 DEF Session
<1> QED BY <1>2 DEF Session

\* A session whose document is edited is a session.
LEMMA SessionEdit ==
  ASSUME mem \in Session, NEW d \in Docs
  PROVE  LET s == [mem EXCEPT !.doc = d]
         IN  s \in Session /\ s.duress = mem.duress /\ s.doc = d
<1>1. [mem EXCEPT !.doc = d] \in Session
  BY DEF Session
<1> QED BY <1>1 DEF Session

\* The jobs that start a save.
LEMMA SaveJobs ==
  \A o \in {"create", "setup", "save"} : [op |-> o, file |-> "vault", step |-> "write"] \in Job
BY DEF Job

\* Moving a job on changes only the fields named.
LEMMA JobMoves ==
  ASSUME job \in Job, NEW f \in {"vault", "marker"},
         NEW s \in {"keys", "write", "sync", "rename"}
  PROVE  LET j == [job EXCEPT !.step = s]
             k == [job EXCEPT !.file = f, !.step = s]
         IN  /\ j \in Job /\ j.op = job.op /\ j.file = job.file /\ j.step = s
             /\ k \in Job /\ k.op = job.op /\ k.file = f /\ k.step = s
             /\ j # NoJob /\ k # NoJob
<1>1. [job EXCEPT !.step = s] \in Job /\ [job EXCEPT !.file = f, !.step = s] \in Job
  BY DEF Job
<1> QED BY <1>1, VaultConstants DEF Job

\* build_vault_file of a normal session is a sound version.
LEMMA BuildSound ==
  ASSUME mem \in Session, mem.key = NormalKey("normal"), mem.doc # DuressDoc,
         mem.other = DecoySection
  PROVE  BuildVaultFile(mem) \in Version /\ Sound(BuildVaultFile(mem))
BY DEF BuildVaultFile, Sound, Version, Section, Session

\* A step of write_atomic that does not rename anything.
LEMMA QuietWrite ==
  ASSUME VaultInv, WriteTmp \/ SyncTmp \/ Fail
  PROVE  VaultInv'
<1> USE Distinct
<1>0. job \in Job /\ mem \in Session /\ ~mem.duress /\ job # NoJob
  BY DEF VaultInv, TypeOK, JobInv, WriteTmp, SyncTmp, Fail
<1>1. CASE WriteTmp
  <2>1. Contents(job.file) \in Version \cup Marker
    BY <1>0, BuildSound DEF VaultInv, SoundInv, JobInv, Contents, Marker, Session
  <2>2. tmp' \in Tmp /\ tmp' # NoFile /\ tmp'.data = Contents(job.file)
    BY <1>1, <2>1, TmpFiles DEF WriteTmp
  <2>3. job' \in Job /\ job'.op = job.op /\ job'.file = job.file /\ job'.step = "sync"
    BY <1>0, <1>1, JobMoves DEF WriteTmp
  <2>4. UNCHANGED <<vaultFile, marker, older, dirty, mem, ghost>>
    BY <1>1 DEF WriteTmp
  <2>5. TypeOK'
    BY <2>2, <2>3, <2>4 DEF VaultInv, TypeOK, ghost, older
  <2>6. Contents(job.file)' = Contents(job.file)
    BY <2>3, <2>4 DEF Contents, BuildVaultFile
  <2>7. JobInv'
    BY <1>0, <2>2, <2>3, <2>4, <2>6 DEF VaultInv, JobInv
  <2>8. SoundInv' /\ AckInv'
    BY <2>4 DEF VaultInv, SoundInv, AckInv, ghost, older
  <2>9. SeqInv'
    BY <1>0, <1>1, <2>3, <2>4 DEF VaultInv, SeqInv, WriteTmp, ghost, BuildVaultFile
  <2> QED BY <2>5, <2>7, <2>8, <2>9 DEF VaultInv
<1>2. CASE SyncTmp
  <2>1. tmp \in Tmp /\ tmp.data = Contents(job.file)
    BY <1>2 DEF SyncTmp, VaultInv, TypeOK, JobInv
  <2>2. tmp' \in Tmp /\ tmp' # NoFile /\ tmp'.data = Contents(job.file) /\ tmp'.synced
    BY <1>2, <2>1, TmpFiles DEF SyncTmp
  <2>3. job' \in Job /\ job'.op = job.op /\ job'.file = job.file /\ job'.step = "rename"
    BY <1>0, <1>2, JobMoves DEF SyncTmp
  <2>4. UNCHANGED <<vaultFile, marker, older, dirty, mem, ghost>>
    BY <1>2 DEF SyncTmp
  <2>5. TypeOK'
    BY <2>2, <2>3, <2>4 DEF VaultInv, TypeOK, ghost, older
  <2>6. Contents(job.file)' = Contents(job.file)
    BY <2>3, <2>4 DEF Contents, BuildVaultFile
  <2>7. JobInv'
    BY <1>0, <2>2, <2>3, <2>4, <2>6 DEF VaultInv, JobInv
  <2>8. SoundInv' /\ AckInv'
    BY <2>4 DEF VaultInv, SoundInv, AckInv, ghost, older
  <2>9. SeqInv'
    BY <1>0, <1>2, <2>3, <2>4 DEF VaultInv, SeqInv, SyncTmp, ghost, BuildVaultFile
  <2> QED BY <2>5, <2>7, <2>8, <2>9 DEF VaultInv
<1>3. CASE Fail
  <2>0. [data |-> Torn, synced |-> FALSE] \in Tmp
    BY TmpFiles
  <2>1. tmp' \in Tmp \cup {NoFile}
    BY <1>3, <2>0 DEF Fail, VaultInv, TypeOK
  <2>2. TypeOK' /\ JobInv'
    BY <1>3, <2>1 DEF VaultInv, TypeOK, Fail, JobInv, ghost, older
  <2>3. SoundInv' /\ AckInv'
    BY <1>3 DEF VaultInv, SoundInv, AckInv, Fail, ghost, older
  <2>4. SeqInv'
    BY <1>0, <1>3 DEF VaultInv, SeqInv, Fail, ghost, Job
  <2> QED BY <2>2, <2>3, <2>4 DEF VaultInv
<1> QED BY <1>1, <1>2, <1>3

\* The two renames: the commit of the vault and of the marker.
LEMMA RenameVaultInv == ASSUME VaultInv, RenameVault PROVE VaultInv'
<1> USE Distinct
<1> DEFINE new == BuildVaultFile(mem)
<1>1. /\ mem \in Session /\ ~mem.duress /\ mem # Closed
      /\ tmp.data = new /\ tmp.synced /\ tmp # NoFile
  BY DEF VaultInv, TypeOK, JobInv, RenameVault, Contents
<1>2. new \in Version /\ Sound(new) /\ new.normal.seq = mem.seq /\ new.normal.doc = mem.doc
  BY <1>1, BuildSound DEF VaultInv, SoundInv, BuildVaultFile
<1>3. vaultFile' = new /\ versions' = versions \cup {new} /\ vaultFile' # NoFile /\ vaultFile' # Torn
  BY <1>1, <1>2 DEF RenameVault
<1>4. /\ job' \in Job /\ job' # NoJob /\ job'.op # "create"
      /\ job'.step = "keys" => job'.op = "setup" /\ job'.file = "vault"
      /\ job'.step \in {"keys", "write"} /\ (job'.file = "vault" => job'.step = "keys")
  <2>1. job \in Job
    BY DEF VaultInv, TypeOK, RenameVault
  <2>2. CASE job.op = "create"
    BY <2>1, <2>2 DEF RenameVault, Job
  <2>3. CASE job.op # "create"
    BY <2>1, <2>3, JobMoves DEF RenameVault
  <2> QED BY <2>2, <2>3
<1>5. TypeOK'
  BY <1>1, <1>2, <1>3, <1>4 DEF VaultInv, TypeOK, RenameVault, Renamed, Shadow, Job, SoundInv, Files
<1>6. JobInv'
  BY <1>1, <1>4 DEF JobInv, RenameVault
<1>7. SoundInv'
  BY <1>1, <1>2, <1>3 DEF VaultInv, SoundInv, RenameVault, Renamed, Shadow, Sound
<1>8. ASSUME ~tampered, ~cut
      PROVE  \A v \in versions : v.normal.seq < new.normal.seq /\ v.normal.seq \in Nat
  <2>1. CASE vaultFile = NoFile
    BY <1>8, <2>1 DEF VaultInv, SeqInv
  <2>2. CASE vaultFile # NoFile
    <3>1. mem.seq > vaultFile.normal.seq
      BY <1>1, <1>8, <2>2 DEF VaultInv, SeqInv, JobInv, RenameVault
    <3>2. \A v \in versions : v.normal.seq <= vaultFile.normal.seq /\ v.normal.seq \in Nat
      BY <1>8 DEF VaultInv, SeqInv, TypeOK, Version, Section
    <3>3. vaultFile.normal.seq \in Nat /\ mem.seq \in Nat
      BY <1>1, <2>2, <3>2 DEF VaultInv, SoundInv, Session
    <3> QED BY <1>2, <3>1, <3>2, <3>3
  <2> QED BY <2>1, <2>2
<1>9. new.normal.seq \in Nat
  BY <1>2 DEF Version, Section
<1>10. SeqInv'
  <2> SUFFICES ASSUME ~tampered, ~cut PROVE SeqInv'
    BY DEF SeqInv, RenameVault
  <2>1. \A v \in versions' : v.normal.seq <= vaultFile'.normal.seq
    BY <1>3, <1>8, <1>9
  <2>2. \A v, w \in versions' : v.normal.seq = w.normal.seq => v = w
    BY <1>3, <1>8, <1>9 DEF VaultInv, SeqInv
  <2>3. mem' = mem /\ mem'.seq >= vaultFile'.normal.seq /\ vaultFile' = BuildVaultFile(mem)'
    BY <1>2, <1>3, <1>9 DEF RenameVault, BuildVaultFile
  <2> QED BY <1>3, <1>4, <2>1, <2>2, <2>3 DEF SeqInv
<1>11. AckInv'
  <2>1. UNCHANGED <<marker, acked, tampered, cut>>
    BY DEF RenameVault
  <2>2. ASSUME ~tampered, ~cut PROVE acked.seq < new.normal.seq \/ acked.seq = 0
    BY <1>8, <1>9, <2>2 DEF VaultInv, AckInv, SoundInv, TypeOK
  <2>3. acked.seq \in Nat
    BY DEF VaultInv, TypeOK
  <2> QED BY <1>3, <1>9, <2>1, <2>2, <2>3 DEF VaultInv, AckInv
<1> QED BY <1>5, <1>6, <1>7, <1>10, <1>11 DEF VaultInv

\* The rename puts the new marker file in place: the one the session opened, or saved.
LEMMA RenameMarkerInv == ASSUME VaultInv, RenameMarker PROVE VaultInv'
<1> USE Distinct
<1>1. /\ mem \in Session /\ ~mem.duress /\ mem # Closed
      /\ tmp.data = [seq |-> mem.seq, key |-> mem.key] /\ tmp.synced /\ tmp # NoFile
  BY DEF VaultInv, TypeOK, JobInv, RenameMarker, Contents
<1>2. marker' \in Marker /\ marker'.seq = mem.seq /\ marker'.key = NormalKey("normal")
  BY <1>1 DEF RenameMarker, Marker, Session, VaultInv, SoundInv
<1>3. TypeOK'
  BY <1>1, <1>2 DEF VaultInv, TypeOK, RenameMarker, Renamed, Shadow, SoundInv, Session, Files
<1>4. JobInv'
  BY DEF JobInv, RenameMarker
<1>5. SoundInv'
  BY <1>1, <1>2 DEF VaultInv, SoundInv, RenameMarker, Renamed, Shadow, Sound, TypeOK
<1>6. UNCHANGED <<vaultFile, mem, versions, tampered, cut>> /\ job' = NoJob /\ marker' # NoFile
      /\ acked'.seq = mem.seq /\ acked'.doc = mem.doc /\ marker'.seq = acked'.seq
  BY <1>1, <1>2 DEF RenameMarker
<1>7. ASSUME ~tampered, ~cut
      PROVE  vaultFile # NoFile /\ vaultFile = BuildVaultFile(mem)
  BY <1>7 DEF VaultInv, SeqInv, JobInv, RenameMarker
<1>8. SeqInv'
  BY <1>6, <1>7 DEF VaultInv, SeqInv
<1>9. AckInv'
  <2>1. ASSUME ~tampered, ~cut
        PROVE  vaultFile.normal.seq = mem.seq /\ vaultFile.normal.doc = mem.doc
    BY <1>7, <2>1 DEF BuildVaultFile
  <2>2. mem.seq \in Nat
    BY <1>1 DEF Session
  <2> QED BY <1>6, <1>7, <2>1, <2>2 DEF AckInv
<1> QED BY <1>3, <1>4, <1>5, <1>8, <1>9 DEF VaultInv

\* What unlock() puts in memory.
LEMMA UnlockOpens ==
  ASSUME VaultInv, NEW p \in Pass, Unlock(p)
  PROVE  /\ mem' \in Session /\ mem' # Closed
         /\ mem'.duress => mem'.key # NormalKey("normal")
         /\ ~mem'.duress => /\ mem'.key = NormalKey("normal")
                            /\ mem'.seq = vaultFile.normal.seq
                            /\ mem'.doc = vaultFile.normal.doc
                            /\ mem'.other = vaultFile.duress
<1>1. vaultFile \in Version /\ Sound(vaultFile)
  BY DEF VaultInv, TypeOK, SoundInv, Unlock
<1>2. NormalKey(p) \in Key /\ DuressKey(p) \in Key
  BY KeysAreKeys
<1>3. /\ vaultFile.normal \in Section /\ vaultFile.duress \in Section
      /\ vaultFile.normal.seq \in Nat /\ vaultFile.normal.doc \in Docs
      /\ vaultFile.duress.seq \in Nat /\ vaultFile.duress.doc \in Docs
  BY <1>1 DEF Version, Section
<1>4. \A b \in BOOLEAN, k \in Key :
        /\ [seq |-> vaultFile.normal.seq, doc |-> vaultFile.normal.doc, duress |-> b,
            key |-> k, other |-> vaultFile.duress] \in Session
        /\ [seq |-> vaultFile.duress.seq, doc |-> vaultFile.duress.doc, duress |-> b,
            key |-> k, other |-> vaultFile.normal] \in Session
  BY <1>3, SessionOf
<1>5. mem' \in Session /\ mem' # Closed
  <2>1. TRUE \in BOOLEAN /\ FALSE \in BOOLEAN
    OBVIOUS
  <2> QED BY <1>2, <1>4, <2>1, Distinct DEF Unlock
<1> QED
  BY <1>1, <1>5 DEF Unlock, Sound, OpensNormal, OpensDuress, NormalKey, DuressKey

\* The calls that start from a closed vault or a session at rest.
LEMMA CallInv ==
  ASSUME VaultInv, Create \/ (\E d \in Doc : SetupKeys(d)) \/ (\E p \in Pass : Unlock(p))
                   \/ (\E d \in Doc : Edit(d)) \/ Save
  PROVE  VaultInv'
<1> USE Distinct
<1>1. CASE Create
  <2>1. mem' \in Session /\ mem' # Closed /\ mem'.key = NormalKey("normal") /\ ~mem'.duress
        /\ mem'.doc = EmptyDoc /\ mem'.other = DecoySection
    <3>1. "normal" \in Pass /\ EmptyDoc \in Docs /\ 0 \in Nat /\ FALSE \in BOOLEAN
      BY DEF Pass, Docs
    <3>2. mem' \in Session
      BY <1>1, <3>1, SessionOf, KeysAreKeys DEF Create, StartCreate, DecoySection
    <3> QED BY <1>1, <3>2 DEF Create, StartCreate, DecoySection
  <2>2. job' \in Job /\ job' # NoJob /\ job'.op = "create" /\ job'.file = "vault"
        /\ job'.step = "write"
    BY <1>1, SaveJobs DEF Create, StartCreate, StartWrite
  <2>3. UNCHANGED <<disk, ghost>> /\ vaultFile = NoFile
    BY <1>1 DEF Create, StartCreate
  <2>4. TypeOK' /\ JobInv'
    BY <2>1, <2>2, <2>3 DEF VaultInv, TypeOK, JobInv, disk, ghost, older
  <2>5. SoundInv'
    BY <2>1, <2>3 DEF VaultInv, SoundInv, disk, ghost, older
  <2>6. SeqInv' /\ AckInv'
    BY <2>2, <2>3 DEF VaultInv, SeqInv, AckInv, disk, ghost, older
  <2> QED BY <2>4, <2>5, <2>6 DEF VaultInv
<1>2. ASSUME NEW d \in Doc, SetupKeys(d) PROVE VaultInv'
  <2>0. mem \in Session /\ mem # Closed /\ ~mem.duress /\ job.op = "setup" /\ job # NoJob
        /\ job.file = "vault" /\ mem.seq \in Nat
    BY <1>2 DEF SetupKeys, VaultInv, TypeOK, JobInv, Session
  <2>1. mem' \in Session /\ mem'.key = mem.key /\ ~mem'.duress /\ mem'.doc = d
        /\ mem'.other = mem.other /\ mem'.seq = mem.seq + 1
    <3>1. d \in Docs
      BY DEF Docs
    <3> QED BY <1>2, <2>0, <3>1, SessionSetup DEF SetupKeys
  <2>2. job' \in Job /\ job' # NoJob /\ job'.op = "setup" /\ job'.file = "vault"
        /\ job'.step = "write"
    BY <1>2, <2>0, SaveJobs DEF SetupKeys, StartWrite
  <2>3. UNCHANGED <<disk, ghost>>
    BY <1>2 DEF SetupKeys
  <2>4. TypeOK' /\ JobInv'
    BY <2>1, <2>2, <2>3 DEF VaultInv, TypeOK, JobInv, disk, ghost, older
  <2>5. SoundInv'
    BY <2>0, <2>1, <2>3 DEF VaultInv, SoundInv, disk, ghost, older
  <2>6. vaultFile # NoFile => vaultFile.normal.seq \in Nat
    BY DEF VaultInv, SoundInv, TypeOK, Version, Section
  <2>7. SeqInv' /\ AckInv'
    BY <2>0, <2>1, <2>2, <2>3, <2>6 DEF VaultInv, SeqInv, AckInv, disk, ghost, older
  <2> QED BY <2>4, <2>5, <2>7 DEF VaultInv
<1>3. ASSUME NEW p \in Pass, Unlock(p) PROVE VaultInv'
  <2>0. vaultFile \in Version /\ Sound(vaultFile) /\ job = NoJob
    BY <1>3 DEF VaultInv, TypeOK, SoundInv, JobInv, Unlock
  <2>1. mem' \in Session /\ mem' # Closed
    BY <1>3, UnlockOpens
  <2>2. IF mem'.duress THEN mem'.key # NormalKey("normal")
                       ELSE mem'.doc # DuressDoc /\ mem'.other = DecoySection
                            /\ mem'.key = NormalKey("normal")
                            /\ mem'.seq = vaultFile.normal.seq
    BY <1>3, <2>0, UnlockOpens DEF Sound
  <2>3. TypeOK' /\ JobInv'
    BY <1>3, <2>0, <2>1 DEF VaultInv, TypeOK, JobInv, Unlock, disk, ghost, older
  <2>4. SoundInv'
    BY <1>3, <2>1, <2>2 DEF VaultInv, SoundInv, Unlock, disk, ghost, older
  <2>5. SeqInv' /\ AckInv'
    BY <1>3, <2>0, <2>1, <2>2 DEF VaultInv, SeqInv, AckInv, Unlock, disk, ghost, older,
                                  Version, Section
  <2> QED BY <2>3, <2>4, <2>5 DEF VaultInv
<1>4. ASSUME NEW d \in Doc, Edit(d) PROVE VaultInv'
  <2>1. TypeOK' /\ JobInv'
    BY <1>4 DEF VaultInv, TypeOK, Edit, JobInv, Session, Docs, disk, ghost, older
  <2>2. SoundInv'
    BY <1>4 DEF VaultInv, SoundInv, Edit, disk, ghost, older, TypeOK, Session
  <2>3. SeqInv' /\ AckInv'
    BY <1>4 DEF VaultInv, SeqInv, AckInv, Edit, disk, ghost, older, TypeOK, Session
  <2> QED BY <2>1, <2>2, <2>3 DEF VaultInv
<1>5. CASE Save
  <2>0. mem \in Session /\ mem # Closed /\ ~mem.duress /\ job = NoJob /\ mem.seq \in Nat
    BY <1>5 DEF Save, StartSave, VaultInv, TypeOK, Session
  <2>1. mem' \in Session /\ mem'.key = mem.key /\ ~mem'.duress /\ mem'.doc = mem.doc
        /\ mem'.other = mem.other /\ mem'.seq = mem.seq + 1
    BY <1>5, <2>0 DEF Save, StartSave, Session
  <2>2. job' \in Job /\ job' # NoJob /\ job'.op = "save" /\ job'.file = "vault"
        /\ job'.step = "write"
    BY <1>5, SaveJobs DEF Save, StartSave, StartWrite
  <2>3. UNCHANGED <<disk, ghost>>
    BY <1>5 DEF Save, StartSave
  <2>4. TypeOK' /\ JobInv'
    BY <2>1, <2>2, <2>3 DEF VaultInv, TypeOK, JobInv, disk, ghost, older
  <2>5. SoundInv'
    BY <2>0, <2>1, <2>3 DEF VaultInv, SoundInv, disk, ghost, older
  <2>6. vaultFile # NoFile => vaultFile.normal.seq \in Nat
    BY DEF VaultInv, SoundInv, TypeOK, Version, Section
  <2>7. SeqInv' /\ AckInv'
    BY <2>0, <2>1, <2>2, <2>3, <2>6 DEF VaultInv, SeqInv, AckInv, disk, ghost, older
  <2> QED BY <2>4, <2>5, <2>7 DEF VaultInv
<1> QED BY <1>1, <1>2, <1>3, <1>4, <1>5

\* What the environment does to the process and to the files.
LEMMA EnvironmentInv ==
  ASSUME VaultInv, Exit \/ DirectoryReachesDisk \/ PowerCut
                   \/ (\E v \in versions : Restore(v)) \/ RemoveMarker
  PROVE  VaultInv'
<1> USE Distinct
<1>1. CASE Exit
  BY <1>1 DEF VaultInv, TypeOK, JobInv, SoundInv, SeqInv, AckInv, Exit, disk, ghost, older
<1>2. CASE DirectoryReachesDisk
  <2>1. TypeOK' /\ JobInv'
    BY <1>2 DEF VaultInv, TypeOK, JobInv, DirectoryReachesDisk, ghost, Contents, BuildVaultFile
  <2>2. SoundInv' /\ SeqInv' /\ AckInv'
    BY <1>2 DEF VaultInv, SoundInv, SeqInv, AckInv, DirectoryReachesDisk, ghost
  <2> QED BY <2>1, <2>2 DEF VaultInv
<1>3. CASE PowerCut
  <2>1. TypeOK' /\ JobInv'
    BY <1>3 DEF VaultInv, TypeOK, JobInv, SoundInv, PowerCut, ghost
  <2>2. SoundInv'
    BY <1>3 DEF VaultInv, SoundInv, PowerCut, ghost, TypeOK
  <2>3. SeqInv' /\ AckInv'
    BY <1>3 DEF VaultInv, SeqInv, AckInv, PowerCut, ghost
  <2> QED BY <2>1, <2>2, <2>3 DEF VaultInv
<1>4. ASSUME NEW v \in versions, Restore(v) PROVE VaultInv'
  <2>1. TypeOK' /\ JobInv'
    BY <1>4 DEF VaultInv, TypeOK, JobInv, Restore, older
  <2>2. SoundInv'
    BY <1>4 DEF VaultInv, TypeOK, SoundInv, Restore, older
  <2>3. SeqInv' /\ AckInv'
    BY <1>4 DEF VaultInv, SeqInv, AckInv, Restore, older
  <2> QED BY <2>1, <2>2, <2>3 DEF VaultInv
<1>5. CASE RemoveMarker
  BY <1>5 DEF VaultInv, TypeOK, JobInv, SoundInv, SeqInv, AckInv, RemoveMarker, older
<1> QED BY <1>1, <1>2, <1>3, <1>4, <1>5

\* VaultInv is inductive.
THEOREM Invariance == Spec => []VaultInv
<1>1. VaultInv /\ [Next]_vars => VaultInv'
  <2> SUFFICES ASSUME VaultInv, [Next]_vars PROVE VaultInv'
    OBVIOUS
  <2>1. CASE UNCHANGED vars
    BY <2>1 DEF vars, disk, ghost, older, VaultInv, TypeOK, JobInv, SoundInv, SeqInv, AckInv,
                Contents, BuildVaultFile
  <2> QED
    BY <2>1, CallInv, QuietWrite, RenameVaultInv, RenameMarkerInv, EnvironmentInv
       DEF Next, WriteAtomic
<1> QED BY <1>1, InitInv, PTL DEF Spec

\* Every variable stays in its type.
THEOREM TypeCorrect == Spec => []TypeOK
BY Invariance, PTL DEF VaultInv

\* write_atomic never lets a half-written file be seen, power cuts included.
THEOREM NeverTornAlways == Spec => []NeverTorn
<1>1. VaultInv => NeverTorn
  BY DEF VaultInv, SoundInv, NeverTorn
<1> QED BY <1>1, Invariance, PTL

\* Both passphrases keep opening what they opened when the vault was created.
THEOREM PassphrasesAlwaysKeepMeaning == Spec => []PassphrasesKeepMeaning
<1>1. VaultInv => PassphrasesKeepMeaning
  BY DEF VaultInv, SoundInv, Sound, PassphrasesKeepMeaning, OpensNormal, OpensDuress,
         DecoySection, NormalKey, DuressKey
<1> QED BY <1>1, Invariance, PTL

\* No acknowledged save is lost to a crash.
THEOREM AckedAlwaysDurable == Spec => []AckedDurable
<1>1. VaultInv => AckedDurable
  BY DEF VaultInv, TypeOK, SoundInv, AckInv, AckedDurable, Version, Section
<1> QED BY <1>1, Invariance, PTL

\* Sequence numbers identify versions.
THEOREM SeqAlwaysNamesVersion == Spec => []SeqNamesVersion
<1>1. VaultInv => SeqNamesVersion
  BY DEF VaultInv, SeqInv, SeqNamesVersion
<1> QED BY <1>1, Invariance, PTL

-----------------------------------------------------------------------------

\* Unlocking an older copy raises the alarm of check_rollback().
THEOREM RollbackAlwaysDetected == Spec => RollbackDetected
<1> DEFINE Alarm ==
      \A p \in Pass :
        Unlock(p) /\ ~mem'.duress /\ mem'.seq < acked.seq /\ ~cut =>
          CheckRollback' \/ (mem'.seq = 0 /\ marker = NoFile)
<1>1. VaultInv => Alarm
  <2> SUFFICES ASSUME VaultInv, NEW p \in Pass, Unlock(p), ~mem'.duress,
                      mem'.seq < acked.seq, ~cut
               PROVE  CheckRollback' \/ (mem'.seq = 0 /\ marker = NoFile)
    OBVIOUS
  <2>1. vaultFile \in Version /\ Sound(vaultFile) /\ marker' = marker
    BY DEF VaultInv, TypeOK, SoundInv, Unlock, disk
  <2>2. mem'.key = NormalKey("normal") /\ mem'.seq = vaultFile.normal.seq
    BY <2>1 DEF Unlock, Sound, OpensNormal, OpensDuress, NormalKey, DuressKey
  <2>3. mem'.seq \in Nat
    BY <2>1, <2>2 DEF Version, Section
  <2>4. CASE marker = NoFile
    BY <2>1, <2>3, <2>4 DEF CheckRollback, MarkerReadable
  <2>5. CASE marker # NoFile
    <3>1. marker.key = mem'.key /\ marker.seq = acked.seq /\ marker # Torn
      BY <2>2, <2>5 DEF VaultInv, SoundInv, AckInv
    <3>2. MarkerReadable(mem.key)'
      BY <2>1, <2>5, <3>1 DEF MarkerReadable
    <3> QED BY <2>1, <3>1, <3>2 DEF CheckRollback
  <2> QED BY <2>4, <2>5
<1>2. VaultInv => [Alarm]_vars
  BY <1>1
<1> QED BY <1>2, Invariance, PTL DEF RollbackDetected

\* The vault implements the register: its only commit is the rename of
\* vault.op4, and every other step leaves the stored payload alone.
THEOREM Refinement == Spec => ImplementsRegister
<1> USE Distinct
<1>1. Init => Register!RInit
  BY DEF Init, Register!RInit
<1>2. VaultInv /\ [Next]_vars => [Register!RNext]_(Register!rvars)
  <2> SUFFICES ASSUME VaultInv, [Next]_vars
               PROVE  [Register!RNext]_(Register!rvars)
    OBVIOUS
  <2> USE DEF Register!rvars
  <2>1. vaultFile # Torn
    BY DEF VaultInv, SoundInv
  <2>2. CASE UNCHANGED vars
    BY <2>2 DEF vars, disk, ghost
  <2>3. CASE Create
    BY <2>1, <2>3 DEF Create, StartCreate, Register!RNext, Register!ROpen, disk, ghost
  <2>4. ASSUME NEW d \in Doc, SetupKeys(d) PROVE [Register!RNext]_(Register!rvars)
    <3>1. mem \in Session /\ mem # Closed /\ ~mem.duress /\ d \in Docs
      BY <2>4 DEF SetupKeys, VaultInv, TypeOK, JobInv, Docs
    <3>2. mem' \in Session /\ ~mem'.duress /\ mem'.doc = d
      BY <2>4, <3>1, SessionSetup DEF SetupKeys
    <3>3. mem.doc \in Docs
      BY <3>1 DEF Session
    <3> QED
      BY <2>4, <3>1, <3>2, <3>3 DEF SetupKeys, Register!RNext, Register!REdit, disk, ghost
  <2>5. ASSUME NEW p \in Pass, Unlock(p) PROVE [Register!RNext]_(Register!rvars)
    <3>1. vaultFile \in Version /\ vaultFile # NoFile
      BY <2>5 DEF Unlock, VaultInv, TypeOK
    <3>2. vaultFile.normal.doc \in Docs
      BY <3>1 DEF Version, Section
    <3> QED
      BY <2>1, <2>5, <3>1, <3>2, UnlockOpens
         DEF Unlock, Register!RNext, Register!ROpen, disk, ghost
  <2>6. ASSUME NEW d \in Doc, Edit(d) PROVE [Register!RNext]_(Register!rvars)
    <3>1. mem \in Session /\ mem # Closed /\ d \in Docs
      BY <2>6 DEF Edit, VaultInv, TypeOK, Docs
    <3>2. mem' \in Session /\ mem'.duress = mem.duress /\ mem'.doc = d
      BY <2>6, <3>1, SessionEdit DEF Edit
    <3>3. mem.doc \in Docs
      BY <3>1 DEF Session
    <3> QED
      BY <2>6, <3>1, <3>2, <3>3 DEF Edit, Register!RNext, Register!REdit, disk, ghost
  <2>7. CASE Save
    BY <2>7 DEF Save, StartSave, VaultInv, TypeOK, Session, disk, ghost
  <2>8. CASE WriteTmp \/ SyncTmp \/ RenameMarker
    BY <2>8 DEF WriteTmp, SyncTmp, RenameMarker, ghost
  <2>9. CASE RenameVault
    <3> DEFINE new == BuildVaultFile(mem)
    <3>1. /\ mem \in Session /\ mem # Closed /\ ~mem.duress /\ mem' = mem
          /\ vaultFile' = new /\ versions' = versions \cup {new}
          /\ UNCHANGED <<tampered, cut>>
      BY <2>9 DEF RenameVault, VaultInv, TypeOK, JobInv, Contents
    <3>2. new \in Version /\ new.normal.doc = mem.doc
      BY <3>1, BuildSound DEF VaultInv, SoundInv, BuildVaultFile
    <3>3. vaultFile' # NoFile /\ vaultFile' # Torn
      BY <3>1, <3>2
    <3>4. mem.doc \in Docs
      BY <3>1 DEF Session
    <3>5. {v.normal.doc : v \in versions'} = {v.normal.doc : v \in versions} \cup {mem.doc}
      BY <3>1, <3>2
    <3> QED BY <3>1, <3>2, <3>3, <3>4, <3>5 DEF Register!RNext, Register!RCommit
  <2>10. CASE Fail
    BY <2>10 DEF Fail, Register!RNext, Register!RClose, ghost
  <2>11. CASE Exit
    BY <2>11 DEF Exit, Register!RNext, Register!RClose, disk, ghost
  <2>12. CASE DirectoryReachesDisk
    BY <2>12 DEF DirectoryReachesDisk, ghost
  <2>13. CASE PowerCut
    <3>1. vaultFile' = NoFile \/ vaultFile' \in versions
      BY <2>13 DEF PowerCut, VaultInv, SoundInv
    <3>2. vaultFile' \in versions => vaultFile' # NoFile /\ vaultFile' # Torn
      BY DEF VaultInv, TypeOK
    <3>3. versions' = versions /\ mem' = Closed /\ cut'
      BY <2>13 DEF PowerCut, ghost
    <3> QED BY <3>1, <3>2, <3>3 DEF Register!RNext, Register!RRevert
  <2>14. ASSUME NEW v \in versions, Restore(v) PROVE [Register!RNext]_(Register!rvars)
    BY <2>14 DEF Restore, VaultInv, TypeOK, Register!RNext, Register!RRevert
  <2>15. CASE RemoveMarker
    <3>1. vaultFile = NoFile \/ vaultFile \in versions
      BY DEF VaultInv, SoundInv
    <3> QED
      BY <2>15, <3>1 DEF RemoveMarker, VaultInv, TypeOK, Register!RNext, Register!RRevert
  <2> QED
    BY <2>2, <2>3, <2>4, <2>5, <2>6, <2>7, <2>8, <2>9, <2>10, <2>11, <2>12, <2>13, <2>14,
       <2>15 DEF Next, WriteAtomic
<1> QED BY <1>1, <1>2, Invariance, PTL DEF Spec, ImplementsRegister, Register!RSpec

=============================================================================
