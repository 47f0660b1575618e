------------------------------- MODULE Backup -------------------------------
(***************************************************************************)
(* backup.Create and backup.Restore beside a stopped node of Storage: the  *)
(* WAL file and the snapshot file are copied and their checksums written   *)
(* to a manifest; Restore copies them to an empty data directory and       *)
(* compares.  Either may be cut off at any point, and the image may decay  *)
(* while it is kept.                                                       *)
(*                                                                         *)
(* Directories are functions from file names to contents.  A checksum is   *)
(* modelled by the content it was taken of.                                *)
(***************************************************************************)
EXTENDS Storage

CONSTANT MaxDamage     \* bound on damages to the image

VARIABLE vault         \* the backup: its step, image, manifest and restored directory

NoFiles == << >>

NoVault == [step |-> "none", image |-> NoFiles, manifest |-> NoFiles, dir |-> NoFiles,
            damage |-> 0]

(* The data directory: raft.wal exists once a node has run, snapshot.bin   *)
(* once one was saved.                                                     *)
DataFiles ==
    (IF durable # << >> \/ used.crashes > 0 THEN {"wal"} ELSE {})
    \cup (IF snap.path # NoFile THEN {"snap"} ELSE {})

Content(name) == IF name = "wal" THEN durable ELSE snap.path

First(names) == IF "wal" \in names THEN "wal" ELSE "snap"

Stop(v) == [v EXCEPT !.step = "stopped"]

(* What a copy that is cut off leaves of a file: nothing, or all but the   *)
(* end of it.  Only the difference to the whole file matters here.         *)
Partial(name, f) ==
    IF name = "wal" THEN { SubSeq(f, 1, n) : n \in {0, Len(f) - 1} \cap Nat } ELSE {Garbage}

(* copyVerified creates the file, which is not there yet, and copies. *)
CopyVerified(name, f, dir) == name :> f @@ dir

-----------------------------------------------------------------------------
(* Create: one step per file, then the manifest.  The node is down.        *)

Create ==
    /\ vault.step = "none" /\ proc.stage = "down" /\ kind = "file"
    /\ vault' = [vault EXCEPT !.step = "create"]

CreateFile ==
    /\ vault.step = "create" /\ DataFiles # DOMAIN vault.image
    /\ LET name == First(DataFiles \ DOMAIN vault.image)
       IN  \/ vault' = [vault EXCEPT !.image = CopyVerified(name, Content(name), @),
                                     !.manifest = CopyVerified(name, Content(name), @)]
           \/ \E f \in Partial(name, Content(name)) :
                vault' = Stop([vault EXCEPT !.image = CopyVerified(name, f, @),
                                            !.manifest = NoFiles])

(* No data is an error; otherwise the manifest is written, or is not, or   *)
(* not in a form that Restore can read.                                    *)
WriteManifest ==
    /\ vault.step = "create" /\ DataFiles = DOMAIN vault.image
    /\ \/ DataFiles # {} /\ vault' = [vault EXCEPT !.step = "saved"]
       \/ vault' = Stop([vault EXCEPT !.manifest = NoFiles])

(* The image decays: a file rots or loses its end. *)
Damage ==
    /\ vault.step \in {"saved", "restore"} /\ vault.damage < MaxDamage
    /\ \E name \in DOMAIN vault.image :
         \E f \in Partial(name, vault.image[name])
                  \cup (IF name = "wal" THEN Rot(vault.image[name]) ELSE {}) :
           vault' = [vault EXCEPT !.image[name] = f, !.damage = @ + 1]

-----------------------------------------------------------------------------
(* Restore, into a directory that must be empty. *)

Restore ==
    /\ vault.step \in {"saved", "stopped"}
    /\ vault.manifest # NoFiles /\ vault.dir = NoFiles
    /\ vault' = [vault EXCEPT !.step = "restore"]

(* Wrong: what was copied is not compared with the manifest. *)
BadVerified(name) == TRUE

Verified(name) == vault.image[name] = vault.manifest[name]

RestoreFile ==
    /\ vault.step = "restore" /\ DOMAIN vault.dir # DOMAIN vault.manifest
    /\ LET name == First(DOMAIN vault.manifest \ DOMAIN vault.dir)
           copied == [vault EXCEPT !.dir = CopyVerified(name, vault.image[name], @)]
       IN  \/ vault' = IF Verified(name) THEN copied ELSE Stop(copied)
           \/ vault' = Stop(vault)
           \/ \E f \in Partial(name, vault.image[name]) :
                vault' = Stop([vault EXCEPT !.dir = CopyVerified(name, f, @)])

Return ==
    /\ vault.step = "restore" /\ DOMAIN vault.dir = DOMAIN vault.manifest
    /\ vault' = [vault EXCEPT !.step = "restored"]

(* The operator puts the image aside and starts the node again. *)
Resume ==
    /\ vault.step \notin {"none", "done"}
    /\ vault' = [NoVault EXCEPT !.step = "done"]

-----------------------------------------------------------------------------
BackupInit == Init /\ vault = NoVault

BackupNext ==
    \/ vault.step \in {"none", "done"} /\ Next /\ UNCHANGED vault
    \/ /\ Create \/ CreateFile \/ WriteManifest \/ Damage \/ Restore \/ RestoreFile
          \/ Return \/ Resume
       /\ UNCHANGED vars

(* A backup does not keep the node down for ever. *)
BackupSpec == BackupInit /\ [][BackupNext]_<<vars, vault>> /\ Fairness /\ WF_vault(Resume)

(* backup.Restore returned nil: the restored directory holds the files of  *)
(* the stopped node, whatever happened to the image and to earlier         *)
(* attempts, and a node opened on it recovers what the original would.     *)
RestoredIsOriginal ==
    vault.step = "restored" =>
        /\ DOMAIN vault.dir = DataFiles
        /\ \A name \in DataFiles : vault.dir[name] = Content(name)
=============================================================================
