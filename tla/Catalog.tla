-------------------------------- MODULE Catalog --------------------------------
(***************************************************************************)
(* The sample store: capture goroutines that write a sample into a         *)
(* temporary folder, rename it into place, enter it in the catalog and     *)
(* enforce the quota (the tail of capture in dataset/recorder.go,          *)
(* dataset/catalog.go), and an export that streams the catalogued samples  *)
(* meanwhile (dataset/web.go).                                             *)
(*                                                                         *)
(* A sample is a number, in the order of the names, which begin with the   *)
(* time of the capture.  A folder is the set of its files, each of size    *)
(* one, and is absent when empty.                                          *)
(***************************************************************************)
EXTENDS Naturals, FiniteSets

CONSTANTS
    Samples,     \* the captures of all sessions
    Frames,      \* the image files of a sample
    Quota,       \* in files
    MaxCrashes,  \* bound: crashes of the process
    MaxFailures  \* bound: removals and measurements refused by the file system

ASSUME StoreAssumption ==
    /\ Samples \subseteq Nat \ {0} /\ IsFiniteSet(Samples)
    /\ IsFiniteSet(Frames) /\ "label" \notin Frames
    /\ {Quota, MaxCrashes, MaxFailures} \subseteq Nat

VARIABLES
    dir,       \* files under the name of a sample
    temp,      \* files in its .sample- folder
    pc,        \* place of its capture
    measured,  \* local to AddPath: the size of the folder
    listed,    \* keys of Catalog.samples
    size,      \* their entry.Size
    usedBytes,
    lock,      \* capture that holds Catalog.mu in EnforceQuota, 0 if none
    export,    \* an export of the dashboard
    crashes, failures,
    unread     \* history: samples whose label or size the file system would not
               \* show when the program last asked for it

catalog == <<listed, size, usedBytes>>
mishaps == <<crashes, failures, unread>>
vars    == <<dir, temp, pc, measured, catalog, lock, export, mishaps>>

Files == Frames \cup {"label"}

Oldest(S) == CHOOSE s \in S : \A t \in S : s <= t

(* The units that sizes are made of, each one told by its number.  A sum   *)
(* of sizes is the number of their units.                                  *)
Units(f, S) == UNION {{s} \X (1..f[s]) : s \in S}

Sum(f, S) == Cardinality(Units(f, S))

Bytes(folders) == [s \in Samples |-> Cardinality(folders[s])]

Goto(s, place) == pc' = [pc EXCEPT ![s] = place]

FileSystemRefuses ==
    /\ failures < MaxFailures
    /\ failures' = failures + 1
    /\ UNCHANGED crashes

-----------------------------------------------------------------------------
(***************************************************************************)
(* A capture.                                                              *)
(***************************************************************************)

(* Captures are scheduled in the order of their names and then on their    *)
(* own.                                                                    *)
Begin(s) ==
    /\ pc[s] = "idle"
    /\ \A t \in Samples : t < s => pc[t] # "idle"
    /\ Goto(s, "writing")
    /\ UNCHANGED <<dir, temp, measured, catalog, lock, export, mishaps>>

(* The label is written last. *)
WriteFile(s, f) ==
    /\ pc[s] = "writing"
    /\ f \in Files \ temp[s]
    /\ f = "label" => Frames \subseteq temp[s]
    /\ temp' = [temp EXCEPT ![s] = @ \cup {f}]
    /\ UNCHANGED <<dir, pc, measured, catalog, lock, export, mishaps>>

(* Mutant: the temporary folder is not removed on the way out. *)
WriteFailsLeaving(s) ==
    /\ pc[s] = "writing"
    /\ Goto(s, "failed")
    /\ UNCHANGED <<dir, temp, measured, catalog, lock, export, mishaps>>

(* On the way out the temporary folder is removed. *)
WriteFails(s) ==
    /\ pc[s] = "writing"
    /\ temp' = [temp EXCEPT ![s] = {}]
    /\ Goto(s, "failed")
    /\ UNCHANGED <<dir, measured, catalog, lock, export, mishaps>>

(* Nobody looks at the error of that removal, which may leave anything. *)
WriteFailsAndStays(s) ==
    /\ pc[s] = "writing"
    /\ FileSystemRefuses
    /\ \E left \in SUBSET temp[s] : temp' = [temp EXCEPT ![s] = left]
    /\ Goto(s, "littered")
    /\ UNCHANGED <<dir, measured, catalog, lock, export, unread>>

(* Mutant: the folder is published before its label is written. *)
RenameEarly(s) ==
    /\ pc[s] = "writing"
    /\ Frames \subseteq temp[s]
    /\ dir' = [dir EXCEPT ![s] = temp[s]]
    /\ temp' = [temp EXCEPT ![s] = {}]
    /\ Goto(s, "renamed")
    /\ UNCHANGED <<measured, catalog, lock, export, mishaps>>

Rename(s) ==
    /\ pc[s] = "writing"
    /\ temp[s] = Files
    /\ dir' = [dir EXCEPT ![s] = temp[s]]
    /\ temp' = [temp EXCEPT ![s] = {}]
    /\ Goto(s, "renamed")
    /\ UNCHANGED <<measured, catalog, lock, export, mishaps>>

(* AddPath walks the folder before it takes the lock. *)
Measure(s) ==
    /\ pc[s] = "renamed"
    /\ measured' = [measured EXCEPT ![s] = Cardinality(dir[s])]
    /\ Goto(s, "measured")
    /\ UNCHANGED <<dir, temp, catalog, lock, export, mishaps>>

(* The walk fails: the capture ends without an entry and without a look at *)
(* the quota, and the folder stays.                                        *)
MeasureFails(s) ==
    /\ pc[s] = "renamed"
    /\ FileSystemRefuses
    /\ unread' = unread \cup {s}
    /\ Goto(s, "failed")
    /\ UNCHANGED <<dir, temp, measured, catalog, lock, export>>

AddPath(s) ==
    /\ pc[s] = "measured" /\ lock = 0
    /\ listed' = listed \cup {s}
    /\ size' = [size EXCEPT ![s] = measured[s]]
    /\ usedBytes' = measured[s] + IF s \in listed THEN usedBytes - size[s] ELSE usedBytes
    /\ Goto(s, "added")
    /\ UNCHANGED <<dir, temp, measured, lock, export, mishaps>>

-----------------------------------------------------------------------------
(***************************************************************************)
(* EnforceQuota, which holds the lock from its first step to its last and  *)
(* removes whole folders, one file after the other.                        *)
(***************************************************************************)

(* Mutant: off by one at the boundary. *)
OverQuotaByTwo == Quota > 0 /\ usedBytes > Quota + 1

OverQuota == Quota > 0 /\ usedBytes > Quota

Enforces(s) == pc[s] = "enforcing" /\ lock = s

EnforceQuota(s) ==
    /\ pc[s] = "added" /\ lock = 0
    /\ IF OverQuota
       THEN Goto(s, "enforcing") /\ lock' = s
       ELSE Goto(s, "done") /\ UNCHANGED lock
    /\ UNCHANGED <<dir, temp, measured, catalog, export, mishaps>>

(* Mutant: the names are sorted the other way. *)
VictimNewest == CHOOSE s \in listed : \A t \in listed : t <= s

Victim == Oldest(listed)

Removing(s) == Enforces(s) /\ OverQuota /\ listed # {}

RemoveFile(s, f) ==
    /\ Removing(s)
    /\ f \in dir[Victim]
    /\ dir' = [dir EXCEPT ![Victim] = @ \ {f}]
    /\ UNCHANGED <<temp, pc, measured, catalog, lock, export, mishaps>>

(* Mutant: the bytes of the entry are not given back. *)
RemoveEntryKeepingBytes(s) ==
    /\ Removing(s)
    /\ dir[Victim] = {}
    /\ listed' = listed \ {Victim}
    /\ UNCHANGED <<dir, temp, pc, measured, size, usedBytes, lock, export, mishaps>>

(* Mutant: the entry is dropped before its folder. *)
RemoveEntryFirst(s) ==
    /\ Removing(s)
    /\ listed' = listed \ {Victim}
    /\ usedBytes' = usedBytes - size[Victim]
    /\ UNCHANGED <<dir, temp, pc, measured, size, lock, export, mishaps>>

RemoveEntry(s) ==
    /\ Removing(s)
    /\ dir[Victim] = {}
    /\ listed' = listed \ {Victim}
    /\ usedBytes' = usedBytes - size[Victim]
    /\ UNCHANGED <<dir, temp, pc, measured, size, lock, export, mishaps>>

(* Mutant: the early return does not release the lock. *)
RemoveFailsLocked(s) ==
    /\ Removing(s)
    /\ FileSystemRefuses
    /\ Goto(s, "refused")
    /\ UNCHANGED <<dir, temp, measured, catalog, lock, export, unread>>

(* RemoveAll returns an error, having removed what it could. *)
RemoveFails(s) ==
    /\ Removing(s)
    /\ FileSystemRefuses
    /\ lock' = 0
    /\ Goto(s, "refused")
    /\ UNCHANGED <<dir, temp, measured, catalog, export, unread>>

QuotaMet(s) ==
    /\ Enforces(s) /\ ~Removing(s)
    /\ lock' = 0
    /\ Goto(s, "done")
    /\ UNCHANGED <<dir, temp, measured, catalog, export, mishaps>>

Capture(s) ==
    \/ Begin(s)
    \/ \E f \in Files : WriteFile(s, f)
    \/ WriteFails(s) \/ WriteFailsAndStays(s) \/ Rename(s)
    \/ Measure(s) \/ MeasureFails(s) \/ AddPath(s)
    \/ EnforceQuota(s)
    \/ \E f \in Files : RemoveFile(s, f)
    \/ RemoveEntry(s) \/ RemoveFails(s) \/ QuotaMet(s)

-----------------------------------------------------------------------------
(***************************************************************************)
(* An export: the inventory is read under the lock, everything after that  *)
(* without it.  Every file is checked before the first one is sent and     *)
(* read again when it is sent, so the check is one step here.              *)
(***************************************************************************)

ExportUnchanged == UNCHANGED <<dir, temp, pc, measured, catalog, lock, mishaps>>

StartExport ==
    /\ export.step = "idle" /\ lock = 0
    /\ export' = [export EXCEPT !.step = "checking", !.inventory = listed, !.todo = listed]
    /\ ExportUnchanged

ExportCheck ==
    /\ export.step = "checking"
    /\ export' = [export EXCEPT !.step = IF \A s \in export.inventory : dir[s] = Files
                                         THEN "streaming" ELSE "refused"]
    /\ ExportUnchanged

Sending == Oldest(export.todo)

(* Mutant: a frame that has disappeared is skipped.                        *)
ExportReadSkipping(f) ==
    /\ export.step = "streaming" /\ export.todo # {}
    /\ export' = IF f \in dir[Sending]
                 THEN [export EXCEPT !.sent[Sending] = @ \cup {f}]
                 ELSE [export EXCEPT !.todo = @ \ {Sending}]
    /\ ExportUnchanged

(* All the frames of a sample are read before any of them is sent. *)
ExportRead(f) ==
    /\ export.step = "streaming" /\ export.todo # {}
    /\ f \in Frames \ export.sent[Sending]
    /\ export' = IF f \in dir[Sending]
                 THEN [export EXCEPT !.sent[Sending] = @ \cup {f}]
                 ELSE [export EXCEPT !.step = "aborted"]
    /\ ExportUnchanged

ExportSend ==
    /\ export.step = "streaming" /\ export.todo # {}
    /\ Frames \subseteq export.sent[Sending]
    /\ export' = [export EXCEPT !.todo = @ \ {Sending}]
    /\ ExportUnchanged

ExportManifest ==
    /\ export.step = "streaming" /\ export.todo = {}
    /\ export' = [export EXCEPT !.step = "complete"]
    /\ ExportUnchanged

Export ==
    \/ StartExport \/ ExportCheck \/ ExportSend \/ ExportManifest
    \/ \E f \in Frames : ExportRead(f)

-----------------------------------------------------------------------------

InProgress == {"writing", "renamed", "measured", "added", "enforcing"}

Labelled == {s \in Samples : "label" \in dir[s]}

(* Mutant: the catalog of the last session is taken over. *)
scanLastSession(skipped) == listed

(* A folder is a sample when its label can be read and its files measured; *)
(* any other is skipped.                                                   *)
scanStoredSamples(skipped) == Labelled \ skipped

(* The process ends at any point and is started again: NewCatalog scans    *)
(* the folders, and nobody looks at temporary ones.                        *)
CrashAndRestart ==
    /\ crashes < MaxCrashes
    /\ crashes' = crashes + 1
    /\ unread' \in SUBSET Labelled
    /\ failures' = failures + Cardinality(unread') /\ failures' <= MaxFailures
    /\ pc' = [s \in Samples |-> IF pc[s] \in InProgress THEN "lost" ELSE pc[s]]
    /\ lock' = 0
    /\ export' = IF export.step \in {"checking", "streaming"}
                 THEN [export EXCEPT !.step = "aborted"] ELSE export
    /\ listed' = scanStoredSamples(unread')
    /\ size' = Bytes(dir)
    /\ usedBytes' = Sum(Bytes(dir), listed')
    /\ UNCHANGED <<dir, temp, measured>>

Init ==
    /\ dir = [s \in Samples |-> {}] /\ temp = dir
    /\ pc = [s \in Samples |-> "idle"]
    /\ measured = [s \in Samples |-> 0] /\ size = measured
    /\ listed = {} /\ usedBytes = 0 /\ lock = 0
    /\ export = [step |-> "idle", inventory |-> {}, todo |-> {},
                 sent |-> [s \in Samples |-> {}]]
    /\ crashes = 0 /\ failures = 0 /\ unread = {}

Next == (\E s \in Samples : Capture(s)) \/ Export \/ CrashAndRestart

Spec == Init /\ [][Next]_vars

(* Goroutines are scheduled, and sync.RWMutex wakes its waiters in turn.   *)
Fairness ==
    \A s \in Samples :
        /\ WF_vars(pc[s] # "idle" /\ Capture(s))
        /\ SF_vars(AddPath(s)) /\ SF_vars(EnforceQuota(s))

FairSpec == Spec /\ Fairness

-----------------------------------------------------------------------------

(* The running total of the catalog is the sum of its entries, and no      *)
(* entry understates its folder: sizes measured before the lock is taken,  *)
(* entries of folders that could not be removed and the scan after a crash *)
(* in the middle of a removal all keep the quota from being overrun        *)
(* unnoticed.                                                              *)
BytesAccounted ==
    /\ usedBytes = Sum(size, listed)
    /\ \A s \in listed : Cardinality(dir[s]) <= size[s]

(* A complete sample is outside the catalog only in the moment before its  *)
(* capture enters it, or when the file system would not show it: that may  *)
(* cost a sample its entry until the next start (AddPath, NewCatalog), but *)
(* a crash between rename and AddPath, or a failed removal, never does.    *)
WholeSamplesListed ==
    \A s \in Samples : dir[s] = Files =>
        s \in listed \cup unread \/ pc[s] \in {"renamed", "measured"}

(* While the process runs, storage over quota is always the business of    *)
(* some capture, or of one that was refused a removal: captures that enter *)
(* their samples while another one enforces leave no excess behind.        *)
OverrunHandled ==
    crashes = 0 /\ Quota > 0 /\ usedBytes > Quota =>
        \E s \in Samples : pc[s] \in {"added", "enforcing", "refused"}

(* dataset/README.md: "When the quota is exceeded, the oldest complete     *)
(* sample folders are removed first."  A file leaves a folder only while   *)
(* the quota is exceeded, and every other sample of the catalog is newer.  *)
OldestRemovedFirst ==
    [][\A s \in Samples : ~(dir[s] \subseteq dir'[s]) =>
          /\ usedBytes > Quota
          /\ \A t \in listed \ {s} : s < t]_vars

(* A sample as a reader of the folders finds it. *)
Appearance(s) ==
    CASE dir[s] = Files -> "whole"
      [] dir[s] \notin {{}, Files} -> "torn"
      [] dir[s] = {} /\ pc[s] \in {"idle", "writing"} -> "absent"
      [] dir[s] = {} /\ pc[s] \notin {"idle", "writing"} -> "gone"

Store == INSTANCE SampleStore
            WITH store <- [s \in Samples |-> Appearance(s)],
                 inventory <- listed, unseen <- unread

(* The catalog implements the abstract store: captures that overlap,       *)
(* removals that fail halfway and a process that ends anywhere never show  *)
(* a reader part of a new sample, bring back one that has been removed, or *)
(* drop one from the inventory that is still there and can be read.        *)
SampleStoreKept == Store!Spec

(* Every sample that the inventory lists with a file missing, whenever the *)
(* lock is free, is owed to a removal that was refused or to a crash, each *)
(* to one of its own: a refusal tears no second sample, and neither do the *)
(* captures that come after it and start with the same victim.             *)
DamageBounded ==
    lock = 0 => Cardinality({s \in listed : dir[s] # Files})
                  <= Cardinality({s \in Samples : pc[s] = "refused"}) + crashes

(* dataset/README.md: an archive that ends with the completion manifest    *)
(* holds every frame of every sample it names, although captures remove    *)
(* folders while it is streamed.                                           *)
ExportComplete ==
    export.step = "complete" => \A s \in export.inventory : export.sent[s] = Frames

StorageOf(S) == Sum(Bytes(dir), S) + Sum(Bytes(temp), S)

Ended == \A s \in Samples : pc[s] \notin InProgress

(* nixos/dataset.nix: quotaGB is the "Maximum dataset storage in GiB".     *)
(* Once every capture has ended, and the catalog is within the quota, so   *)
(* is the storage of the samples, temporary folders included.  The setup   *)
(* files under .sessions, which nobody counts either, come on top.         *)
DiskWithinQuota ==
    Ended /\ Quota > 0 /\ usedBytes <= Quota => StorageOf(Samples) <= Quota

(* A process that never crashed keeps to it, although captures run         *)
(* concurrently, fail and are refused removals: what is above the quota    *)
(* then is a temporary folder the file system would not remove or a sample *)
(* it would not measure, and those alone.                                  *)
FoldersWithinQuota ==
    crashes = 0 /\ Ended /\ Quota > 0 /\ usedBytes <= Quota =>
        StorageOf({s \in Samples : pc[s] # "littered"} \ unread) <= Quota

(* Every capture that begins ends, whoever holds the lock and whichever    *)
(* removal fails.                                                          *)
CapturesEnd ==
    \A s \in Samples : pc[s] = "writing" ~> pc[s] \notin InProgress
=============================================================================
