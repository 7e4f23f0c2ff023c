----------------------------- MODULE CatalogProofs -----------------------------
(***************************************************************************)
(* For any number of captures, files, crashes and failing removals: what   *)
(* the catalog lists, what it removes and what an export contains.         *)
(***************************************************************************)
EXTENDS Catalog, FiniteSetTheorems, WellFoundedInduction, TLAPS

(* A finite set of samples that is not empty has an oldest one: the one    *)
(* whose set of older samples is smallest.                                 *)
LEMMA OldestExists ==
    ASSUME NEW S \in SUBSET Nat, IsFiniteSet(S), S # {}
    PROVE  Oldest(S) \in S /\ \A t \in S : Oldest(S) <= t
<1> DEFINE Older(s) == {t \in S : t < s}
           T == {Older(s) : s \in S}
           R == StrictSubsetOrdering(S)
<1>1. IsWellFoundedOn(R, SUBSET S)
  BY FS_StrictSubsetOrderingWellFounded, FS_FiniteSubsetsOfFinite
<1>2. T \subseteq SUBSET S /\ T # {}
  OBVIOUS
<1>3. PICK X \in T : \A Y \in T : <<Y, X>> \notin R
  <2> HIDE DEF R, T
  <2> QED
    BY <1>1, <1>2, WFMin
<1>4. PICK m \in S : X = Older(m)
  BY <1>3
<1>5. ASSUME NEW y \in S, y < m PROVE FALSE
  <2>1. m \in Int /\ \A t \in S : t \in Int
    OBVIOUS
  <2>2. y < m /\ ~(y < y) /\ \A t \in S : t < y => t < m
    BY <1>5, <2>1
  <2>3. <<Older(y), Older(m)>> \in R
    <3>1. Older(y) \subseteq Older(m) /\ Older(y) # Older(m)
      BY <2>2
    <3>2. Older(y) \in SUBSET S /\ Older(m) \in SUBSET S
      OBVIOUS
    <3>3. QED
      BY <3>1, <3>2 DEF StrictSubsetOrdering
  <2>4. QED
    BY <2>3, <1>3, <1>4
<1>6. \A t \in S : m <= t
  BY <1>5
<1>7. QED
  BY <1>6 DEF Oldest

LEMMA VictimListed ==
    ASSUME listed \subseteq Samples, listed # {}
    PROVE  Victim \in listed /\ \A t \in listed : Victim <= t
<1>1. listed \in SUBSET Nat /\ IsFiniteSet(listed)
  BY StoreAssumption, FS_Subset
<1>2. QED
  BY <1>1, OldestExists DEF Victim

-----------------------------------------------------------------------------
(***************************************************************************)
(* The export.  What has been left behind in the inventory has been sent   *)
(* in full.                                                                *)
(***************************************************************************)
ExportTyped ==
    export \in [step : {"idle", "checking", "streaming", "complete", "refused", "aborted"},
                inventory : SUBSET Samples,
                todo : SUBSET Samples,
                sent : [Samples -> SUBSET Frames]]

SentSoFar ==
    /\ export.step \in {"idle", "checking"} => export.todo = export.inventory
    /\ export.step \in {"streaming", "complete"} =>
          \A s \in export.inventory \ export.todo : export.sent[s] = Frames
    /\ export.step = "complete" => export.todo = {}

ExportInv == listed \subseteq Samples /\ ExportTyped /\ SentSoFar

LEMMA ListedStep ==
    ASSUME listed \subseteq Samples, [Next]_vars
    PROVE  listed' \subseteq Samples
<1>1. CASE \E s \in Samples : Capture(s)
  BY <1>1 DEF Capture, Begin, WriteFile, WriteFails, WriteFailsAndStays, Rename, Measure,
              MeasureFails, AddPath, EnforceQuota, RemoveFile, RemoveEntry, RemoveFails,
              QuotaMet, catalog
<1>2. CASE Export
  BY <1>2 DEF Export, StartExport, ExportCheck, ExportSend, ExportManifest, ExportRead,
              ExportUnchanged, catalog
<1>3. CASE CrashAndRestart
  BY <1>3 DEF CrashAndRestart, scanStoredSamples, Labelled
<1>4. CASE UNCHANGED vars
  BY <1>4 DEF vars, catalog
<1>5. QED
  BY <1>1, <1>2, <1>3, <1>4 DEF Next

LEMMA ExportStep == ExportInv /\ [Next]_vars => ExportInv'
<1> SUFFICES ASSUME ExportInv, [Next]_vars PROVE ExportTyped' /\ SentSoFar'
  BY ListedStep DEF ExportInv
<1>1. CASE UNCHANGED export
  BY <1>1 DEF ExportInv, ExportTyped, SentSoFar
<1>2. CASE StartExport
  BY <1>2 DEF StartExport, ExportInv, ExportTyped, SentSoFar
<1>3. CASE ExportCheck
  BY <1>3 DEF ExportCheck, ExportInv, ExportTyped, SentSoFar
<1>4. CASE \E f \in Frames : ExportRead(f)
  BY <1>4 DEF ExportRead, ExportInv, ExportTyped, SentSoFar
<1>5. CASE ExportSend
  <2>1. /\ export.step = "streaming" /\ Frames \subseteq export.sent[Sending]
        /\ export' = [export EXCEPT !.todo = @ \ {Sending}]
    BY <1>5 DEF ExportSend
  <2>2. /\ export'.step = "streaming" /\ export'.inventory = export.inventory
        /\ export'.todo = export.todo \ {Sending} /\ export'.sent = export.sent
    BY <2>1 DEF ExportInv, ExportTyped
  <2>3. ExportTyped'
    BY <2>1 DEF ExportInv, ExportTyped
  <2>4. ASSUME NEW s \in export'.inventory \ export'.todo
        PROVE  export'.sent[s] = Frames
    <3>1. s \in Samples /\ export.sent[s] \subseteq Frames
      BY <2>2 DEF ExportInv, ExportTyped
    <3>2. CASE s \in export.todo
      BY <2>1, <2>2, <3>1, <3>2
    <3>3. CASE s \notin export.todo
      BY <2>1, <2>2, <3>3 DEF ExportInv, SentSoFar
    <3>4. QED
      BY <3>2, <3>3
  <2>5. QED
    BY <2>2, <2>3, <2>4 DEF SentSoFar
<1>6. CASE ExportManifest
  BY <1>6 DEF ExportManifest, ExportInv, ExportTyped, SentSoFar
<1>7. CASE CrashAndRestart
  BY <1>7 DEF CrashAndRestart, ExportInv, ExportTyped, SentSoFar
<1>8. ASSUME NEW s \in Samples, Capture(s) PROVE UNCHANGED export
  BY <1>8 DEF Capture, Begin, WriteFile, WriteFails, WriteFailsAndStays, Rename, Measure,
              MeasureFails, AddPath, EnforceQuota, RemoveFile, RemoveEntry, RemoveFails,
              QuotaMet
<1>9. QED
  BY <1>1, <1>2, <1>3, <1>4, <1>5, <1>6, <1>7, <1>8 DEF Next, Export, vars

(* An archive that ends with the completion manifest holds every frame of  *)
(* every sample of its inventory (serveWebDataset), whatever captures      *)
(* remove meanwhile and wherever the process crashes.                      *)
THEOREM ExportsAreComplete == Spec => []ExportComplete
<1>1. Init => ExportInv
  BY DEF Init, ExportInv, ExportTyped, SentSoFar
<1>2. ExportInv => ExportComplete
  BY DEF ExportInv, ExportTyped, SentSoFar, ExportComplete
<1>3. QED
  BY <1>1, <1>2, ExportStep, PTL DEF Spec

-----------------------------------------------------------------------------
(***************************************************************************)
(* The store.  A sample is in the catalog only once its capture has put it *)
(* there; until then its folder is absent or whole, and nobody removes it. *)
(***************************************************************************)
Places == InProgress \cup {"idle", "done", "failed", "littered", "refused", "lost"}

StoreTyped ==
    /\ dir \in [Samples -> SUBSET Files]
    /\ pc \in [Samples -> Places]
    /\ listed \subseteq Samples
    /\ lock \in Samples \cup {0}
    /\ crashes \in Nat
    /\ unread \subseteq Samples

NotYetListed ==
    \A s \in Samples : pc[s] \in {"idle", "writing", "renamed", "measured"} => s \notin listed

Unpublished == \A s \in Samples : pc[s] \in {"idle", "writing"} => dir[s] = {}

Published == \A s \in Samples : pc[s] \in {"renamed", "measured"} => dir[s] = Files

StoreInv == StoreTyped /\ NotYetListed /\ Unpublished /\ Published

LEMMA StoreInit == Init => StoreInv
BY StoreAssumption
   DEF Init, StoreInv, StoreTyped, NotYetListed, Unpublished, Published, Places, InProgress, Files

LEMMA StoreStep == StoreInv /\ [Next]_vars => StoreInv'
<1> SUFFICES ASSUME StoreInv, [Next]_vars PROVE StoreInv'
  OBVIOUS
<1> USE DEF StoreInv, StoreTyped, NotYetListed, Unpublished, Published, Places, InProgress, Goto
<1>1. ASSUME NEW s \in Samples, Capture(s) PROVE StoreInv'
  <2>1. CASE Begin(s)
    BY <2>1 DEF Begin, catalog, mishaps
  <2>2. CASE \E f \in Files : WriteFile(s, f)
    BY <2>2 DEF WriteFile, catalog, mishaps
  <2>3. CASE WriteFails(s)
    BY <2>3 DEF WriteFails, catalog, mishaps
  <2>3a. CASE WriteFailsAndStays(s)
    BY <2>3a DEF WriteFailsAndStays, FileSystemRefuses, catalog
  <2>4. CASE Rename(s)
    BY <2>4 DEF Rename, catalog, mishaps
  <2>5. CASE Measure(s)
    BY <2>5 DEF Measure, catalog, mishaps
  <2>5a. CASE MeasureFails(s)
    BY <2>5a DEF MeasureFails, FileSystemRefuses, catalog
  <2>6. CASE AddPath(s)
    BY <2>6 DEF AddPath, mishaps
  <2>7. CASE EnforceQuota(s)
    BY <2>7 DEF EnforceQuota, catalog, mishaps
  <2>8. CASE \E f \in Files : RemoveFile(s, f)
    <3>1. PICK f \in Files : RemoveFile(s, f)
      BY <2>8
    <3>2. Victim \in listed
      BY <3>1, VictimListed DEF RemoveFile, Removing
    <3>3. QED
      BY <3>1, <3>2 DEF RemoveFile, catalog, mishaps
  <2>9. CASE RemoveEntry(s)
    BY <2>9 DEF RemoveEntry, mishaps
  <2>10. CASE RemoveFails(s)
    BY <2>10 DEF RemoveFails, FileSystemRefuses, catalog
  <2>11. CASE QuotaMet(s)
    BY <2>11 DEF QuotaMet, catalog, mishaps
  <2>12. QED
    BY <1>1, <2>1, <2>2, <2>3, <2>3a, <2>4, <2>5, <2>5a, <2>6, <2>7, <2>8, <2>9, <2>10, <2>11
       DEF Capture
<1>2. CASE Export
  BY <1>2 DEF Export, StartExport, ExportCheck, ExportSend, ExportManifest, ExportRead,
              ExportUnchanged, catalog, mishaps
<1>3. CASE CrashAndRestart
  BY <1>3 DEF CrashAndRestart, scanStoredSamples, Labelled
<1>4. CASE UNCHANGED vars
  BY <1>4 DEF vars, catalog, mishaps
<1>5. QED
  BY <1>1, <1>2, <1>3, <1>4 DEF Next

LEMMA StoreInvariant == Spec => []StoreInv
BY StoreInit, StoreStep, PTL DEF Spec

(* A file leaves a sample's folder only while the quota is exceeded and    *)
(* every other sample of the catalog is newer (EnforceQuota), in any       *)
(* interleaving of captures, after any crash and any failed removal.       *)
THEOREM OldestGoFirst == Spec => OldestRemovedFirst
<1>1. ASSUME StoreInv, [Next]_vars, NEW s \in Samples, ~(dir[s] \subseteq dir'[s])
      PROVE  usedBytes > Quota /\ \A t \in listed \ {s} : s < t
  <2>1. PICK c \in Samples : \E f \in Files : RemoveFile(c, f)
    <3>1. dir' # dir
      BY <1>1
    <3>2. ~CrashAndRestart /\ ~Export /\ ~UNCHANGED vars
      BY <3>1 DEF CrashAndRestart, Export, StartExport, ExportCheck, ExportSend,
                  ExportManifest, ExportRead, ExportUnchanged, vars
    <3>3. PICK c \in Samples : Capture(c)
      BY <1>1, <3>2 DEF Next
    <3>4. ~Rename(c)
      BY <1>1 DEF Rename, StoreInv, StoreTyped
    <3>5. QED
      BY <3>1, <3>3, <3>4 DEF Capture, Begin, WriteFile, WriteFails, WriteFailsAndStays,
                              Measure, MeasureFails, AddPath, EnforceQuota, RemoveEntry,
                              RemoveFails, QuotaMet
  <2>2. Removing(c) /\ \E f \in Files : dir' = [dir EXCEPT ![Victim] = @ \ {f}]
    BY <2>1 DEF RemoveFile
  <2>3. s = Victim
    BY <2>2, <1>1 DEF StoreInv, StoreTyped
  <2>4. Victim \in listed /\ \A t \in listed : Victim <= t
    BY <2>2, <1>1, VictimListed DEF Removing, StoreInv, StoreTyped
  <2>5. ASSUME NEW t \in listed \ {s} PROVE s < t
    <3>1. s \in Nat /\ t \in Nat
      BY StoreAssumption, <1>1 DEF StoreInv, StoreTyped
    <3>2. QED
      BY <3>1, <2>3, <2>4
  <2>6. QED
    BY <2>2, <2>5 DEF Removing, OverQuota
<1>2. StoreInv /\ [Next]_vars =>
         [\A s \in Samples : ~(dir[s] \subseteq dir'[s]) =>
             /\ usedBytes > Quota
             /\ \A t \in listed \ {s} : s < t]_vars
  BY <1>1
<1>3. QED
  BY <1>2, StoreInvariant, PTL DEF Spec, OldestRemovedFirst

-----------------------------------------------------------------------------

(* No complete sample is outside the catalog but for the moment between    *)
(* the rename and AddPath, and those whose measurement the file system     *)
(* refused when the program last tried: no crash at any point in between   *)
(* and no failed removal costs a sample its entry.                         *)
THEOREM WholeSamplesAreListed == Spec => []WholeSamplesListed
<1>1. Init => WholeSamplesListed
  BY DEF Init, WholeSamplesListed, Files
<1>2. StoreInv /\ WholeSamplesListed /\ [Next]_vars => WholeSamplesListed'
  <2> SUFFICES ASSUME StoreInv, WholeSamplesListed, [Next]_vars PROVE WholeSamplesListed'
    OBVIOUS
  <2> USE DEF StoreInv, StoreTyped, WholeSamplesListed, Goto, Files
  <2>1. ASSUME NEW s \in Samples, Capture(s) PROVE WholeSamplesListed'
    <3>1. CASE Rename(s)
      BY <3>1 DEF Rename, catalog, mishaps
    <3>2. CASE \E f \in Files : RemoveFile(s, f)
      BY <3>2 DEF RemoveFile, catalog, mishaps
    <3>3. CASE RemoveEntry(s)
      BY <3>3 DEF RemoveEntry, mishaps
    <3>4. CASE AddPath(s)
      BY <3>4 DEF AddPath, mishaps
    <3>5. CASE \/ Begin(s) \/ (\E f \in Files : WriteFile(s, f)) \/ Measure(s)
               \/ WriteFails(s) \/ WriteFailsAndStays(s) \/ MeasureFails(s)
      BY <3>5 DEF Begin, WriteFile, WriteFails, WriteFailsAndStays, Measure, MeasureFails,
                  catalog, mishaps
    <3>6. CASE EnforceQuota(s) \/ RemoveFails(s) \/ QuotaMet(s)
      BY <3>6 DEF EnforceQuota, RemoveFails, QuotaMet, Enforces, Removing, catalog, mishaps
    <3>7. QED
      BY <2>1, <3>1, <3>2, <3>3, <3>4, <3>5, <3>6 DEF Capture
  <2>2. CASE Export
    BY <2>2 DEF Export, StartExport, ExportCheck, ExportSend, ExportManifest, ExportRead,
                ExportUnchanged, catalog, mishaps
  <2>3. CASE CrashAndRestart
    BY <2>3 DEF CrashAndRestart, scanStoredSamples, Labelled
  <2>4. CASE UNCHANGED vars
    BY <2>4 DEF vars, catalog, mishaps
  <2>5. QED
    BY <2>1, <2>2, <2>3, <2>4 DEF Next
<1>3. QED
  BY <1>1, <1>2, StoreInvariant, PTL DEF Spec

-----------------------------------------------------------------------------
(***************************************************************************)
(* Damaged samples.  Apart from the one that is being removed, there is at *)
(* most one for each capture that was refused a removal and each crash.    *)
(***************************************************************************)
Damaged == {s \in Samples : dir[s] # Files /\ (s \in listed \/ dir[s] # {})}

UnderRemoval == IF lock # 0 /\ OverQuota /\ listed # {} THEN {Victim} ELSE {}

Abandoned == Damaged \ UnderRemoval

Refused == {s \in Samples : pc[s] = "refused"}

DamageInv == Cardinality(Abandoned) <= Cardinality(Refused) + crashes

LEMMA CountsTyped ==
    ASSUME NEW S \in SUBSET Samples
    PROVE  IsFiniteSet(S) /\ Cardinality(S) \in Nat
BY StoreAssumption, FS_Subset, FS_CardinalityType

LEMMA DamageKept ==
    ASSUME StoreInv, DamageInv, Abandoned' \subseteq Abandoned, Refused \subseteq Refused',
           crashes' = crashes
    PROVE  DamageInv'
<1>1. Abandoned \in SUBSET Samples /\ Refused \in SUBSET Samples /\ Refused' \in SUBSET Samples
  BY DEF Abandoned, Damaged, Refused
<1>2. Cardinality(Abandoned') <= Cardinality(Abandoned)
  BY <1>1, CountsTyped, FS_Subset
<1>3. Cardinality(Refused) <= Cardinality(Refused')
  BY <1>1, CountsTyped, FS_Subset
<1>4. /\ Cardinality(Abandoned) \in Nat /\ Cardinality(Abandoned') \in Nat
      /\ Cardinality(Refused) \in Nat /\ Cardinality(Refused') \in Nat
  BY <1>1, CountsTyped
<1>5. crashes \in Nat
  BY DEF StoreInv, StoreTyped
<1> QED
  BY <1>2, <1>3, <1>4, <1>5 DEF DamageInv

(* The sample under removal is given up, and paid for. *)
LEMMA DamageAdded ==
    ASSUME StoreInv, DamageInv, Abandoned' \subseteq Damaged,
           \/ crashes' = crashes + 1 /\ Refused' = Refused
           \/ /\ crashes' = crashes
              /\ \E c \in Samples \ Refused : Refused' = Refused \cup {c}
    PROVE  DamageInv'
<1>1. PICK v : Damaged \subseteq Abandoned \cup {v}
  BY DEF Abandoned, UnderRemoval
<1>2. /\ Abandoned \in SUBSET Samples /\ Abandoned' \in SUBSET Samples
      /\ Refused \in SUBSET Samples
  BY DEF Abandoned, Damaged, Refused
<1>3. /\ IsFiniteSet(Abandoned) /\ IsFiniteSet(Refused) /\ Cardinality(Abandoned) \in Nat
      /\ Cardinality(Abandoned') \in Nat /\ Cardinality(Refused) \in Nat
  BY <1>2, CountsTyped
<1>4. IsFiniteSet(Abandoned \cup {v}) /\ Cardinality(Abandoned \cup {v}) <= Cardinality(Abandoned) + 1
  BY <1>3, FS_AddElement
<1>5. Cardinality(Abandoned') <= Cardinality(Abandoned \cup {v})
  BY <1>1, <1>4, FS_Subset
<1>6. Cardinality(Abandoned \cup {v}) \in Nat
  BY <1>4, FS_CardinalityType
<1>7. Cardinality(Abandoned') <= Cardinality(Abandoned) + 1
  BY <1>3, <1>4, <1>5, <1>6
<1>8. crashes \in Nat
  BY DEF StoreInv, StoreTyped
<1>9. CASE crashes' = crashes + 1 /\ Refused' = Refused
  BY <1>3, <1>7, <1>8, <1>9 DEF DamageInv
<1>10. CASE /\ crashes' = crashes
            /\ \E c \in Samples \ Refused : Refused' = Refused \cup {c}
  <2>1. Cardinality(Refused') = Cardinality(Refused) + 1
    BY <1>3, <1>10, FS_AddElement
  <2>2. QED
    BY <1>3, <1>7, <1>8, <1>10, <2>1 DEF DamageInv
<1> QED
  BY <1>9, <1>10

LEMMA DamageCapture ==
    ASSUME StoreInv, DamageInv, NEW c \in Samples, Capture(c)
    PROVE  DamageInv'
<1> USE DEF Goto
<1>1. CASE \/ Begin(c) \/ (\E f \in Files : WriteFile(c, f)) \/ WriteFails(c)
           \/ WriteFailsAndStays(c) \/ Measure(c) \/ MeasureFails(c)
  <2>1. UNCHANGED <<dir, listed, usedBytes, lock, crashes>> /\ Refused \subseteq Refused'
    BY <1>1 DEF Begin, WriteFile, WriteFails, WriteFailsAndStays, Measure, MeasureFails,
                FileSystemRefuses, Refused, catalog, mishaps, StoreInv, StoreTyped
  <2>2. Abandoned' = Abandoned
    BY <2>1 DEF Abandoned, Damaged, UnderRemoval, OverQuota, Victim
  <2>3. QED
    BY <2>1, <2>2, DamageKept
<1>2. CASE Rename(c)
  <2>1. /\ UNCHANGED <<listed, usedBytes, lock, crashes>>
        /\ dir' = [dir EXCEPT ![c] = Files] /\ pc' = [pc EXCEPT ![c] = "renamed"]
        /\ pc[c] = "writing"
    BY <1>2 DEF Rename, catalog, mishaps
  <2>2. Damaged' \subseteq Damaged /\ UnderRemoval' = UnderRemoval
    BY <2>1 DEF Damaged, UnderRemoval, OverQuota, Victim, StoreInv, StoreTyped
  <2>3. Refused \subseteq Refused'
    BY <2>1 DEF Refused, StoreInv, StoreTyped
  <2>4. QED
    BY <2>1, <2>2, <2>3, DamageKept DEF Abandoned
<1>3. CASE AddPath(c) \/ EnforceQuota(c)
  <2>1. /\ UNCHANGED <<dir, crashes>> /\ lock = 0 /\ Refused \subseteq Refused'
        /\ listed' = listed \/ (listed' = listed \cup {c} /\ dir[c] = Files)
    BY <1>3 DEF AddPath, EnforceQuota, Refused, catalog, mishaps, StoreInv, StoreTyped, Published
  <2>2. Damaged' \subseteq Damaged /\ UnderRemoval = {}
    BY <2>1 DEF Damaged, UnderRemoval
  <2>3. QED
    BY <2>1, <2>2, DamageKept DEF Abandoned
<1>4. CASE \E f \in Files : RemoveFile(c, f)
  <2>1. PICK v : v = Victim
    OBVIOUS
  <2>2. /\ UNCHANGED <<listed, usedBytes, lock, crashes, pc>> /\ Removing(c) /\ lock = c
        /\ \E f : dir' = [dir EXCEPT ![v] = dir[v] \ {f}]
    BY <1>4, <2>1 DEF RemoveFile, Removing, Enforces, catalog, mishaps
  <2>3. UnderRemoval = {v} /\ UnderRemoval' = {v}
    BY <2>1, <2>2, StoreAssumption DEF UnderRemoval, OverQuota, Victim, Removing
  <2>4. \A s \in Samples : s # v => dir'[s] = dir[s]
    BY <2>2 DEF StoreInv, StoreTyped
  <2>5. Abandoned' \subseteq Abandoned /\ Refused' = Refused
    BY <2>2, <2>3, <2>4 DEF Abandoned, Damaged, Refused
  <2>6. QED
    BY <2>2, <2>5, DamageKept
<1>5. CASE RemoveEntry(c)
  <2>1. PICK v : v = Victim
    OBVIOUS
  <2>2. /\ UNCHANGED <<dir, crashes, pc>> /\ Removing(c) /\ lock = c
        /\ dir[v] = {} /\ listed' = listed \ {v}
    BY <1>5, <2>1 DEF RemoveEntry, Removing, Enforces, mishaps
  <2>3. UnderRemoval = {v}
    BY <2>1, <2>2, StoreAssumption DEF UnderRemoval, OverQuota, Removing
  <2>4. Damaged' \subseteq Damaged \ {v} /\ Refused' = Refused
    BY <2>2 DEF Damaged, Refused
  <2>5. QED
    BY <2>2, <2>3, <2>4, DamageKept DEF Abandoned
<1>6. CASE RemoveFails(c)
  <2>1. /\ UNCHANGED <<dir, listed, crashes>> /\ pc[c] = "enforcing"
        /\ pc' = [pc EXCEPT ![c] = "refused"]
    BY <1>6 DEF RemoveFails, FileSystemRefuses, Removing, Enforces, catalog
  <2>2. Abandoned' \subseteq Damaged
    BY <2>1 DEF Abandoned, Damaged
  <2>3. c \in Samples \ Refused /\ Refused' = Refused \cup {c}
    BY <2>1 DEF Refused, StoreInv, StoreTyped
  <2>4. QED
    BY <2>1, <2>2, <2>3, DamageAdded
<1>7. CASE QuotaMet(c)
  <2>1. UNCHANGED <<dir, listed, crashes>> /\ (~OverQuota \/ listed = {})
    BY <1>7 DEF QuotaMet, Removing, catalog, mishaps
  <2>2. Abandoned' \subseteq Abandoned
    BY <2>1 DEF Abandoned, Damaged, UnderRemoval
  <2>3. Refused \subseteq Refused'
    BY <1>7 DEF QuotaMet, Enforces, Refused, StoreInv, StoreTyped
  <2>4. QED
    BY <2>1, <2>2, <2>3, DamageKept
<1>8. QED
  BY <1>1, <1>2, <1>3, <1>4, <1>5, <1>6, <1>7 DEF Capture

LEMMA DamageStep == StoreInv /\ DamageInv /\ [Next]_vars => DamageInv'
<1> SUFFICES ASSUME StoreInv, DamageInv, [Next]_vars PROVE DamageInv'
  OBVIOUS
<1>1. CASE Export \/ UNCHANGED vars
  <2>1. UNCHANGED <<dir, pc, listed, usedBytes, lock, crashes>>
    BY <1>1 DEF Export, StartExport, ExportCheck, ExportSend, ExportManifest, ExportRead,
                ExportUnchanged, catalog, mishaps, vars
  <2>2. Abandoned' = Abandoned /\ Refused' = Refused
    BY <2>1 DEF Abandoned, Damaged, UnderRemoval, OverQuota, Victim, Refused
  <2>3. QED
    BY <2>1, <2>2, DamageKept
<1>2. CASE CrashAndRestart
  <2>1. /\ dir' = dir /\ crashes' = crashes + 1
        /\ listed' \subseteq {s \in Samples : "label" \in dir[s]}
        /\ pc' = [s \in Samples |-> IF pc[s] \in InProgress THEN "lost" ELSE pc[s]]
    BY <1>2 DEF CrashAndRestart, scanStoredSamples, Labelled
  <2>2. Abandoned' \subseteq Damaged
    BY <2>1 DEF Abandoned, Damaged
  <2>3. Refused' = Refused
    BY <2>1 DEF Refused, InProgress
  <2>4. QED
    BY <2>1, <2>2, <2>3, DamageAdded
<1>3. QED
  BY <1>1, <1>2, DamageCapture DEF Next

(* A reader that takes the lock of the catalog, as the export does for its *)
(* inventory, finds at most one sample with a file missing for each        *)
(* capture that was refused a removal and each crash (EnforceQuota, which  *)
(* never lets go in between, and NewCatalog).                              *)
THEOREM DamageIsBounded == Spec => []DamageBounded
<1>1. Init => DamageInv
  <2> SUFFICES ASSUME Init PROVE DamageInv
    OBVIOUS
  <2>1. Abandoned = {} /\ Refused \in SUBSET Samples /\ crashes = 0
    BY DEF Init, Abandoned, Damaged, Refused
  <2>2. Cardinality(Abandoned) = 0 /\ Cardinality(Refused) \in Nat
    BY <2>1, FS_EmptySet, CountsTyped
  <2>3. QED
    BY <2>1, <2>2 DEF DamageInv
<1>2. StoreInv /\ DamageInv => DamageBounded
  <2> SUFFICES ASSUME StoreInv, DamageInv, lock = 0
               PROVE  Cardinality({s \in listed : dir[s] # Files}) <= Cardinality(Refused) + crashes
    BY DEF DamageBounded, Refused
  <2>1. {s \in listed : dir[s] # Files} \subseteq Abandoned
    BY DEF Abandoned, Damaged, UnderRemoval, StoreInv, StoreTyped
  <2>2. /\ Abandoned \in SUBSET Samples /\ {s \in listed : dir[s] # Files} \in SUBSET Samples
        /\ Refused \in SUBSET Samples
    BY DEF Abandoned, Damaged, Refused, StoreInv, StoreTyped
  <2>3. Cardinality({s \in listed : dir[s] # Files}) <= Cardinality(Abandoned)
    BY <2>1, <2>2, CountsTyped, FS_Subset
  <2>4. QED
    BY <2>2, <2>3, CountsTyped DEF DamageInv, StoreInv, StoreTyped
<1>3. QED
  BY <1>1, <1>2, DamageStep, StoreInvariant, PTL DEF Spec

-----------------------------------------------------------------------------
(***************************************************************************)
(* Sums of sizes.                                                          *)
(***************************************************************************)
LEMMA UnitsFinite ==
    ASSUME NEW f \in [Samples -> Nat], NEW S \in SUBSET Samples
    PROVE  IsFiniteSet(Units(f, S)) /\ Sum(f, S) \in Nat
<1> DEFINE Of(s) == {s} \X (1..f[s])
           T == {Of(s) : s \in S}
           g == [s \in S |-> Of(s)]
<1>1. IsFiniteSet(S)
  BY StoreAssumption, FS_Subset
<1>2. IsFiniteSet(T)
  <2>1. g \in Surjection(S, T)
    BY DEF Surjection
  <2> HIDE DEF T, g
  <2>2. QED
    BY <1>1, <2>1, FS_Surjection
<1>3. ASSUME NEW X \in T PROVE IsFiniteSet(X)
  <2>1. PICK s \in S : X = Of(s)
    BY <1>3
  <2>2. f[s] \in Int /\ 1 \in Int
    OBVIOUS
  <2>3. IsFiniteSet(1..f[s]) /\ IsFiniteSet({s})
    <3> HIDE DEF T, g, Of
    <3>1. IsFiniteSet(1..f[s])
      BY <2>2, FS_Interval
    <3>2. QED
      BY <3>1, FS_Singleton
  <2>4. QED
    BY <2>1, <2>3, FS_Product
<1>4. IsFiniteSet(UNION T)
  <2> HIDE DEF T
  <2> QED
    BY <1>2, <1>3, FS_UNION
<1>5. QED
  BY <1>4, FS_CardinalityType DEF Sum, Units

LEMMA SumEmpty ==
    ASSUME NEW f
    PROVE  Sum(f, {}) = 0
BY FS_EmptySet DEF Sum, Units

(* The sum depends on the sizes of its samples only. *)
LEMMA SumSame ==
    ASSUME NEW f, NEW g, NEW S, \A s \in S : f[s] = g[s]
    PROVE  Sum(f, S) = Sum(g, S)
<1>1. Units(f, S) = Units(g, S)
  BY DEF Units
<1>2. QED
  BY <1>1 DEF Sum

LEMMA SumAdd ==
    ASSUME NEW f \in [Samples -> Nat], NEW S \in SUBSET Samples, NEW s \in Samples \ S
    PROVE  Sum(f, S \cup {s}) = Sum(f, S) + f[s]
<1> DEFINE own == {s} \X (1..f[s])
<1>1. Units(f, S \cup {s}) = Units(f, S) \cup own
  BY DEF Units
<1>2. Units(f, S) \cap own = {}
  BY DEF Units
<1>3. f[s] \in Nat
  OBVIOUS
<1>4. IsFiniteSet(own) /\ Cardinality(own) = f[s]
  <2>1. IsFiniteSet(1..f[s]) /\ Cardinality(1..f[s]) = f[s]
    BY <1>3, FS_Interval
  <2>2. IsFiniteSet({s}) /\ Cardinality({s}) = 1
    BY FS_Singleton
  <2>3. IsFiniteSet(own) /\ Cardinality(own) = 1 * f[s]
    BY <2>1, <2>2, FS_Product
  <2>4. QED
    BY <1>3, <2>3
<1>5. IsFiniteSet(Units(f, S)) /\ Cardinality(Units(f, S)) \in Nat
  BY UnitsFinite DEF Sum
<1> HIDE DEF own
<1>6. Cardinality(Units(f, S) \cup own) = Cardinality(Units(f, S)) + f[s]
  <2>1. Cardinality(Units(f, S) \cap own) = 0
    BY <1>2, FS_EmptySet
  <2>2. Cardinality(Units(f, S) \cup own)
          = Cardinality(Units(f, S)) + Cardinality(own) - Cardinality(Units(f, S) \cap own)
    BY <1>4, <1>5, FS_Union
  <2>3. QED
    BY <1>3, <1>4, <1>5, <2>1, <2>2
<1>7. QED
  BY <1>1, <1>6 DEF Sum

LEMMA SumRemove ==
    ASSUME NEW f \in [Samples -> Nat], NEW S \in SUBSET Samples, NEW s \in S
    PROVE  Sum(f, S \ {s}) = Sum(f, S) - f[s]
<1>1. (S \ {s}) \cup {s} = S /\ s \in Samples \ (S \ {s}) /\ S \ {s} \in SUBSET Samples
  OBVIOUS
<1>2. Sum(f, S) = Sum(f, S \ {s}) + f[s]
  BY <1>1, SumAdd
<1>3. Sum(f, S \ {s}) \in Nat /\ f[s] \in Nat
  BY <1>1, UnitsFinite
<1>4. QED
  BY <1>2, <1>3

(* Larger sizes of more samples: what is left out has none. *)
LEMMA SumBounded ==
    ASSUME NEW f \in [Samples -> Nat], NEW g \in [Samples -> Nat],
           NEW S \in SUBSET Samples, NEW T \in SUBSET Samples,
           \A s \in S : f[s] = 0 \/ (s \in T /\ f[s] <= g[s])
    PROVE  Sum(f, S) <= Sum(g, T)
<1>1. Units(f, S) \subseteq Units(g, T)
  BY DEF Units
<1>2. IsFiniteSet(Units(g, T))
  BY UnitsFinite
<1>3. QED
  BY <1>1, <1>2, FS_Subset DEF Sum

-----------------------------------------------------------------------------
(***************************************************************************)
(* The accounts.  An entry is the size of a folder measured when it was    *)
(* whole or found by the scan, and from then on the folder only shrinks.   *)
(***************************************************************************)
SizesTyped ==
    /\ size \in [Samples -> Nat]
    /\ measured \in [Samples -> Nat]

MeasuredWhole ==
    \A s \in Samples : pc[s] = "measured" => measured[s] = Cardinality(dir[s])

AccountInv == SizesTyped /\ MeasuredWhole /\ BytesAccounted

LEMMA FolderFinite ==
    ASSUME NEW folder \in SUBSET Files
    PROVE  IsFiniteSet(folder) /\ Cardinality(folder) \in Nat
<1>1. IsFiniteSet(Files)
  BY StoreAssumption, FS_AddElement DEF Files
<1>2. QED
  BY <1>1, FS_Subset, FS_CardinalityType

LEMMA BytesTyped ==
    ASSUME NEW folders \in [Samples -> SUBSET Files]
    PROVE  Bytes(folders) \in [Samples -> Nat]
BY FolderFinite DEF Bytes

LEMMA AccountInit == Init => AccountInv
<1> SUFFICES ASSUME Init PROVE AccountInv
  OBVIOUS
<1>1. usedBytes = Sum(size, listed)
  BY SumEmpty DEF Init
<1>2. QED
  BY <1>1 DEF Init, AccountInv, SizesTyped, MeasuredWhole, BytesAccounted

(* Steps that leave the catalog and the folders of its samples alone. *)
LEMMA AccountKept ==
    ASSUME StoreInv, AccountInv, UNCHANGED <<catalog, measured>>,
           \A s \in listed : dir'[s] \subseteq dir[s],
           \A s \in Samples : pc'[s] = "measured" => pc[s] = "measured" /\ dir'[s] = dir[s]
    PROVE  AccountInv'
<1>1. SizesTyped' /\ MeasuredWhole'
  BY DEF AccountInv, SizesTyped, MeasuredWhole, catalog
<1>2. usedBytes' = Sum(size', listed')
  BY DEF AccountInv, BytesAccounted, catalog
<1>3. ASSUME NEW s \in listed' PROVE Cardinality(dir'[s]) <= size'[s]
  <2>1. s \in listed /\ s \in Samples /\ dir[s] \in SUBSET Files /\ size'[s] = size[s]
    BY <1>3 DEF StoreInv, StoreTyped, catalog
  <2>2. IsFiniteSet(dir[s]) /\ Cardinality(dir[s]) \in Nat /\ dir'[s] \in SUBSET dir[s]
    BY <2>1, FolderFinite
  <2>3. Cardinality(dir'[s]) <= Cardinality(dir[s]) /\ Cardinality(dir'[s]) \in Nat
    BY <2>2, FS_Subset, FS_CardinalityType
  <2>4. Cardinality(dir[s]) <= size[s] /\ size[s] \in Nat
    BY <2>1 DEF AccountInv, BytesAccounted, SizesTyped
  <2>5. QED
    BY <2>1, <2>2, <2>3, <2>4
<1>4. QED
  BY <1>1, <1>2, <1>3 DEF AccountInv, BytesAccounted

LEMMA AccountCapture ==
    ASSUME StoreInv, AccountInv, NEW c \in Samples, Capture(c)
    PROVE  AccountInv'
<1> USE DEF Goto
<1>1. CASE \/ Begin(c) \/ (\E f \in Files : WriteFile(c, f)) \/ WriteFails(c)
           \/ WriteFailsAndStays(c) \/ MeasureFails(c)
           \/ EnforceQuota(c) \/ RemoveFails(c) \/ QuotaMet(c)
  <2>1. /\ UNCHANGED <<catalog, measured, dir>>
        /\ \E place \in Places \ {"measured"} : pc' = pc \/ pc' = [pc EXCEPT ![c] = place]
    BY <1>1 DEF Begin, WriteFile, WriteFails, WriteFailsAndStays, MeasureFails, EnforceQuota,
                RemoveFails, QuotaMet, Places, InProgress
  <2>2. QED
    BY <2>1, AccountKept DEF StoreInv, StoreTyped
<1>2. CASE Rename(c)
  <2>1. /\ UNCHANGED <<catalog, measured>> /\ pc[c] = "writing"
        /\ pc' = [pc EXCEPT ![c] = "renamed"] /\ dir' = [dir EXCEPT ![c] = temp[c]]
    BY <1>2 DEF Rename
  <2>2. c \notin listed
    BY <2>1 DEF StoreInv, NotYetListed
  <2>3. QED
    BY <2>1, <2>2, AccountKept DEF StoreInv, StoreTyped
<1>3. CASE Measure(c)
  <2>1. /\ UNCHANGED <<catalog, dir>>
        /\ pc' = [pc EXCEPT ![c] = "measured"]
        /\ measured' = [measured EXCEPT ![c] = Cardinality(dir[c])]
    BY <1>3 DEF Measure
  <2>2. Cardinality(dir[c]) \in Nat
    BY FolderFinite DEF StoreInv, StoreTyped
  <2>3. SizesTyped' /\ MeasuredWhole'
    BY <2>1, <2>2 DEF AccountInv, SizesTyped, MeasuredWhole, catalog, StoreInv, StoreTyped
  <2>4. BytesAccounted'
    BY <2>1 DEF AccountInv, BytesAccounted, catalog
  <2>5. QED
    BY <2>3, <2>4 DEF AccountInv
<1>4. CASE AddPath(c)
  <2>1. /\ pc[c] = "measured" /\ UNCHANGED <<dir, measured>>
        /\ listed' = listed \cup {c}
        /\ size' = [size EXCEPT ![c] = measured[c]]
        /\ usedBytes' = measured[c] + IF c \in listed THEN usedBytes - size[c] ELSE usedBytes
        /\ pc' = [pc EXCEPT ![c] = "added"]
    BY <1>4 DEF AddPath
  <2>2. /\ c \notin listed /\ listed \in SUBSET Samples /\ measured[c] = Cardinality(dir[c])
        /\ measured[c] \in Nat
    BY <2>1 DEF StoreInv, StoreTyped, NotYetListed, AccountInv, MeasuredWhole, SizesTyped
  <2>3. SizesTyped' /\ MeasuredWhole'
    BY <2>1, <2>2 DEF AccountInv, SizesTyped, MeasuredWhole, StoreInv, StoreTyped
  <2>4. PICK after \in [Samples -> Nat] : after = size'
    BY <2>3 DEF SizesTyped
  <2>5. after[c] = measured[c] /\ \A s \in listed : after[s] = size[s]
    BY <2>1, <2>2, <2>4 DEF AccountInv, SizesTyped
  <2>6. Sum(after, listed \cup {c}) = Sum(after, listed) + measured[c]
    BY <2>2, <2>5, SumAdd
  <2>7. Sum(after, listed) = Sum(size, listed)
    BY <2>5, SumSame
  <2>8. usedBytes = Sum(size, listed) /\ Sum(size, listed) \in Nat
    BY <2>2, UnitsFinite DEF AccountInv, BytesAccounted, SizesTyped
  <2>9. usedBytes' = Sum(after, listed \cup {c})
    BY <2>1, <2>2, <2>6, <2>7, <2>8
  <2>10. ASSUME NEW s \in listed' PROVE Cardinality(dir'[s]) <= size'[s]
    <3>1. CASE s = c
      BY <2>1, <2>2, <2>4, <2>5, <3>1
    <3>2. CASE s \in listed
      BY <2>1, <2>4, <2>5, <3>2 DEF AccountInv, BytesAccounted
    <3>3. QED
      BY <2>1, <2>10, <3>1, <3>2
  <2>11. BytesAccounted'
    BY <2>1, <2>4, <2>9, <2>10 DEF BytesAccounted
  <2>12. QED
    BY <2>3, <2>11 DEF AccountInv
<1>5. CASE \E f \in Files : RemoveFile(c, f)
  <2>1. /\ UNCHANGED <<catalog, measured, pc>>
        /\ Victim \in listed
        /\ \E f : dir' = [dir EXCEPT ![Victim] = dir[Victim] \ {f}]
    BY <1>5, VictimListed DEF RemoveFile, Removing, StoreInv, StoreTyped
  <2>2. PICK v : v = Victim
    OBVIOUS
  <2>3. v \in Samples /\ pc[v] # "measured"
    BY <2>1, <2>2 DEF StoreInv, StoreTyped, NotYetListed
  <2>4. \A s \in Samples : dir'[s] \subseteq dir[s] /\ (s # v => dir'[s] = dir[s])
    BY <2>1, <2>2, <2>3 DEF StoreInv, StoreTyped
  <2>5. QED
    BY <2>1, <2>3, <2>4, AccountKept DEF StoreInv, StoreTyped
<1>6. CASE RemoveEntry(c)
  <2>1. PICK v : v = Victim
    OBVIOUS
  <2>2. /\ listed' = listed \ {v} /\ usedBytes' = usedBytes - size[v]
        /\ UNCHANGED <<dir, pc, measured, size>> /\ v \in listed
    BY <1>6, <2>1, VictimListed DEF RemoveEntry, Removing, StoreInv, StoreTyped
  <2>3. Sum(size, listed \ {v}) = Sum(size, listed) - size[v]
    BY <2>2, SumRemove DEF AccountInv, SizesTyped, StoreInv, StoreTyped
  <2>4. usedBytes' = Sum(size', listed')
    BY <2>2, <2>3 DEF AccountInv, BytesAccounted
  <2>5. QED
    BY <2>2, <2>4 DEF AccountInv, SizesTyped, MeasuredWhole, BytesAccounted
<1>7. QED
  BY <1>1, <1>2, <1>3, <1>4, <1>5, <1>6 DEF Capture

LEMMA AccountRestart ==
    ASSUME StoreInv, AccountInv, CrashAndRestart
    PROVE  AccountInv'
<1>1. /\ UNCHANGED <<dir, measured>> /\ listed' \subseteq Samples /\ size' = Bytes(dir)
      /\ usedBytes' = Sum(Bytes(dir), listed')
      /\ \A s \in Samples : pc'[s] # "measured"
  BY DEF CrashAndRestart, InProgress, scanStoredSamples, Labelled
<1>2. Bytes(dir) \in [Samples -> Nat]
  BY BytesTyped DEF StoreInv, StoreTyped
<1>3. \A s \in listed' : Cardinality(dir'[s]) <= size'[s]
  <2> SUFFICES ASSUME NEW s \in Samples PROVE Cardinality(dir[s]) <= Bytes(dir)[s]
    BY <1>1
  <2>1. Cardinality(dir[s]) \in Nat /\ Bytes(dir)[s] = Cardinality(dir[s])
    BY FolderFinite DEF StoreInv, StoreTyped, Bytes
  <2>2. QED
    BY <2>1
<1>4. SizesTyped' /\ MeasuredWhole'
  BY <1>1, <1>2 DEF AccountInv, SizesTyped, MeasuredWhole
<1>5. QED
  BY <1>1, <1>3, <1>4 DEF AccountInv, BytesAccounted

LEMMA AccountStep == StoreInv /\ AccountInv /\ [Next]_vars => AccountInv'
<1> SUFFICES ASSUME StoreInv, AccountInv, [Next]_vars PROVE AccountInv'
  OBVIOUS
<1>1. CASE Export \/ UNCHANGED vars
  <2>1. UNCHANGED <<dir, pc, measured, catalog>>
    BY <1>1 DEF Export, StartExport, ExportCheck, ExportSend, ExportManifest, ExportRead,
                ExportUnchanged, vars
  <2>2. QED
    BY <2>1, AccountKept
<1>2. QED
  BY <1>1, AccountCapture, AccountRestart DEF Next

(* The running total of the catalog is the sum of its entries, and no      *)
(* entry understates its folder (AddPath, EnforceQuota, NewCatalog), for   *)
(* any captures, crashes and removals that fail halfway.                   *)
THEOREM AccountsAreRight == Spec => []BytesAccounted
<1>1. AccountInv => BytesAccounted
  BY DEF AccountInv
<1>2. QED
  BY <1>1, AccountInit, AccountStep, StoreInvariant, PTL DEF Spec

(* While the process runs, a storage over quota is the business of some    *)
(* capture, or of one that was refused a removal (EnforceQuota), however   *)
(* captures enter and enforce between each other: a capture turns away     *)
(* only from a catalog within the quota, and an empty one is within any.   *)
THEOREM OverrunIsHandled == Spec => []OverrunHandled
<1>1. Init => OverrunHandled
  BY StoreAssumption DEF Init, OverrunHandled
<1>2. StoreInv /\ AccountInv /\ OverrunHandled /\ [Next]_vars => OverrunHandled'
  <2> SUFFICES ASSUME StoreInv, AccountInv, OverrunHandled, [Next]_vars,
                      crashes' = 0, Quota > 0, usedBytes' > Quota
               PROVE  \E s \in Samples : pc'[s] \in {"added", "enforcing", "refused"}
    BY DEF OverrunHandled
  <2> DEFINE Concerned(s) == pc[s] \in {"added", "enforcing", "refused"}
  <2> USE DEF Goto
  <2>1. CASE crashes = 0 /\ usedBytes' = usedBytes
              /\ \A s \in Samples : Concerned(s) => Concerned(s)'
    BY <2>1 DEF OverrunHandled
  <2>2. ASSUME NEW c \in Samples, Capture(c)
        PROVE  \E s \in Samples : pc'[s] \in {"added", "enforcing", "refused"}
    <3>1. CASE \/ Begin(c) \/ (\E f \in Files : WriteFile(c, f)) \/ WriteFails(c)
               \/ WriteFailsAndStays(c) \/ Rename(c) \/ Measure(c) \/ MeasureFails(c)
               \/ (\E f \in Files : RemoveFile(c, f))
      BY <2>1, <3>1 DEF Begin, WriteFile, WriteFails, WriteFailsAndStays, Rename, Measure,
                        MeasureFails, FileSystemRefuses, RemoveFile, catalog, mishaps,
                        StoreInv, StoreTyped
    <3>2. CASE AddPath(c)
      BY <3>2 DEF AddPath, StoreInv, StoreTyped
    <3>3. CASE EnforceQuota(c)
      <4>1. pc' = [pc EXCEPT ![c] = "enforcing"]
        BY <3>3 DEF EnforceQuota, OverQuota, catalog
      <4>2. QED
        BY <4>1 DEF StoreInv, StoreTyped
    <3>4. CASE RemoveEntry(c)
      BY <3>4 DEF RemoveEntry, Removing, Enforces
    <3>5. CASE RemoveFails(c)
      BY <3>5 DEF RemoveFails, StoreInv, StoreTyped
    <3>6. CASE QuotaMet(c)
      <4>1. usedBytes' = usedBytes /\ listed = {}
        BY <3>6 DEF QuotaMet, Removing, OverQuota, catalog
      <4>2. usedBytes = 0
        BY <4>1, SumEmpty DEF AccountInv, BytesAccounted
      <4>3. QED
        BY <4>1, <4>2, StoreAssumption
    <3>7. QED
      BY <2>2, <3>1, <3>2, <3>3, <3>4, <3>5, <3>6 DEF Capture
  <2>3. CASE Export \/ UNCHANGED vars
    <3>1. UNCHANGED <<pc, usedBytes, crashes>>
      BY <2>3 DEF Export, StartExport, ExportCheck, ExportSend, ExportManifest, ExportRead,
                  ExportUnchanged, catalog, mishaps, vars
    <3>2. QED
      BY <2>1, <3>1
  <2>4. CASE CrashAndRestart
    BY <2>4 DEF CrashAndRestart, StoreInv, StoreTyped
  <2>5. QED
    BY <2>2, <2>3, <2>4 DEF Next
<1>3. QED
  BY <1>1, <1>2, AccountInit, AccountStep, StoreInvariant, PTL DEF Spec

-----------------------------------------------------------------------------
(***************************************************************************)
(* The quota.  What is on the disk and not in the catalog belongs to a     *)
(* capture in progress, as long as nothing has crashed, or is what the     *)
(* file system would not remove or measure.                                *)
(***************************************************************************)
TempTyped == temp \in [Samples -> SUBSET Files]

TempInProgress ==
    crashes = 0 => \A s \in Samples : pc[s] \notin {"writing", "littered"} => temp[s] = {}

NothingUnlisted ==
    crashes = 0 => \A s \in Samples :
        dir[s] # {} => s \in listed \cup unread \/ pc[s] \in {"renamed", "measured"}

DiskInv == TempTyped /\ TempInProgress /\ NothingUnlisted

LEMMA DiskInit == Init => DiskInv
BY DEF Init, DiskInv, TempTyped, TempInProgress, NothingUnlisted

LEMMA DiskStep == StoreInv /\ DiskInv /\ [Next]_vars => DiskInv'
<1> SUFFICES ASSUME StoreInv, DiskInv, [Next]_vars PROVE DiskInv'
  OBVIOUS
<1> USE DEF DiskInv, TempTyped, TempInProgress, NothingUnlisted, StoreInv, StoreTyped, Goto
<1>1. ASSUME NEW c \in Samples, Capture(c) PROVE DiskInv'
  <2>1. CASE Begin(c) \/ Measure(c) \/ MeasureFails(c) \/ RemoveFails(c) \/ QuotaMet(c)
             \/ EnforceQuota(c)
    BY <2>1 DEF Begin, Measure, MeasureFails, RemoveFails, FileSystemRefuses, QuotaMet,
                EnforceQuota, Enforces, Removing, catalog, mishaps
  <2>2. CASE \E f \in Files : WriteFile(c, f)
    BY <2>2 DEF WriteFile, catalog, mishaps
  <2>3. CASE WriteFails(c)
    BY <2>3 DEF WriteFails, catalog, mishaps
  <2>3a. CASE WriteFailsAndStays(c)
    BY <2>3a DEF WriteFailsAndStays, FileSystemRefuses, catalog
  <2>4. CASE Rename(c)
    BY <2>4 DEF Rename, catalog, mishaps
  <2>5. CASE AddPath(c)
    BY <2>5 DEF AddPath, mishaps
  <2>6. CASE \E f \in Files : RemoveFile(c, f)
    BY <2>6 DEF RemoveFile, catalog, mishaps
  <2>7. CASE RemoveEntry(c)
    BY <2>7 DEF RemoveEntry, mishaps
  <2>8. QED
    BY <1>1, <2>1, <2>2, <2>3, <2>3a, <2>4, <2>5, <2>6, <2>7 DEF Capture
<1>2. CASE Export
  BY <1>2 DEF Export, StartExport, ExportCheck, ExportSend, ExportManifest, ExportRead,
              ExportUnchanged, catalog, mishaps
<1>3. CASE CrashAndRestart
  BY <1>3 DEF CrashAndRestart
<1>4. CASE UNCHANGED vars
  BY <1>4 DEF vars, catalog, mishaps
<1>5. QED
  BY <1>1, <1>2, <1>3, <1>4 DEF Next

(* Without a crash, once every capture has ended and the catalog is within *)
(* the quota, so are the folders of the samples, temporary ones included,  *)
(* but for temporary folders the file system would not remove and samples  *)
(* it would not measure (capture, AddPath, EnforceQuota): the folders      *)
(* outside the catalog are gone and no entry understates its folder.       *)
THEOREM FoldersKeepToQuota == Spec => []FoldersWithinQuota
<1>1. StoreInv /\ AccountInv /\ DiskInv => FoldersWithinQuota
  <2> DEFINE S == {s \in Samples : pc[s] # "littered"} \ unread
  <2> SUFFICES ASSUME StoreInv, AccountInv, DiskInv, crashes = 0, Ended,
                      Quota > 0, usedBytes <= Quota
               PROVE  Sum(Bytes(dir), S) + Sum(Bytes(temp), S) <= Quota
    BY DEF FoldersWithinQuota, StorageOf
  <2>1. Bytes(dir) \in [Samples -> Nat] /\ Bytes(temp) \in [Samples -> Nat]
    BY BytesTyped DEF StoreInv, StoreTyped, DiskInv, TempTyped
  <2>2. \A s \in S :
           Bytes(dir)[s] = 0 \/ (s \in listed /\ Bytes(dir)[s] <= size[s])
    BY FS_EmptySet
       DEF DiskInv, NothingUnlisted, Ended, InProgress, AccountInv, BytesAccounted, Bytes
  <2>3. \A s \in S : Bytes(temp)[s] = 0
    <3>1. \A s \in S : temp[s] = {}
      BY DEF DiskInv, TempInProgress, Ended, InProgress
    <3>2. QED
      BY <3>1, FS_EmptySet DEF Bytes
  <2>4. S \in SUBSET Samples
    OBVIOUS
  <2> HIDE DEF S
  <2>5. Sum(Bytes(dir), S) <= Sum(size, listed)
    BY <2>1, <2>2, <2>4, SumBounded DEF AccountInv, SizesTyped, StoreInv, StoreTyped
  <2>6. Sum(Bytes(temp), S) <= Sum(Bytes(temp), {})
    BY <2>1, <2>3, <2>4, SumBounded
  <2>7. /\ Sum(Bytes(dir), S) \in Nat /\ Sum(Bytes(temp), S) \in Nat
        /\ Sum(Bytes(temp), {}) = 0
    BY <2>1, <2>4, UnitsFinite, SumEmpty
  <2>8. usedBytes = Sum(size, listed) /\ Sum(size, listed) \in Nat
    BY UnitsFinite DEF AccountInv, BytesAccounted, SizesTyped, StoreInv, StoreTyped
  <2>9. QED
    BY <2>5, <2>6, <2>7, <2>8, StoreAssumption
<1>2. QED
  BY <1>1, AccountInit, AccountStep, DiskInit, DiskStep, StoreInvariant, PTL DEF Spec

-----------------------------------------------------------------------------
(***************************************************************************)
(* The abstract store.  A step of a capture changes the appearance of one  *)
(* sample at most: its own, or that of the victim.                         *)
(***************************************************************************)
Shown == [s \in Samples |-> Appearance(s)]

Hidden == {"idle", "writing"}

LEMMA Appearances ==
    ASSUME NEW s \in Samples
    PROVE  /\ dir[s] = Files => Shown[s] = "whole"
           /\ dir[s] # Files /\ dir[s] # {} => Shown[s] = "torn"
           /\ dir[s] = {} /\ pc[s] \in Hidden => Shown[s] = "absent"
           /\ dir[s] = {} /\ pc[s] \notin Hidden => Shown[s] = "gone"
  BY DEF Files, Shown, Appearance, Hidden

LEMMA AppearancesAfter ==
    ASSUME NEW s \in Samples
    PROVE  /\ dir'[s] = Files => Shown'[s] = "whole"
           /\ dir'[s] # Files /\ dir'[s] # {} => Shown'[s] = "torn"
           /\ dir'[s] = {} /\ pc'[s] \in Hidden => Shown'[s] = "absent"
           /\ dir'[s] = {} /\ pc'[s] \notin Hidden => Shown'[s] = "gone"
  BY DEF Files, Shown, Appearance, Hidden

LEMMA OneChanges ==
    ASSUME NEW s \in Samples, NEW state, Shown'[s] = state,
           \A t \in Samples \ {s} : dir'[t] = dir[t] /\ pc'[t] = pc[t]
    PROVE  Shown' = [Shown EXCEPT ![s] = state]
<1>1. \A t \in Samples \ {s} : Appearance(t)' = Appearance(t)
  BY DEF Appearance
<1> QED
  BY <1>1 DEF Shown

LEMMA NoneChanges ==
    ASSUME dir' = dir, \A t \in Samples : pc'[t] \in Hidden <=> pc[t] \in Hidden
    PROVE  Shown' = Shown
<1>1. \A t \in Samples : Appearance(t)' = Appearance(t)
  BY DEF Appearance, Hidden
<1> QED
  BY <1>1 DEF Shown

LEMMA StoreRefinedInit == Init => Store!Init
<1> SUFFICES ASSUME Init PROVE Store!Init
  OBVIOUS
<1>1. \A s \in Samples : Appearance(s) = "absent"
  BY DEF Init, Appearance, Files
<1> QED
  BY <1>1 DEF Init, Store!Init

LEMMA StoreRefinedCapture ==
    ASSUME StoreInv, StoreInv', NEW s \in Samples, Capture(s)
    PROVE  [Store!Next]_<<Shown, listed, unread>>
<1> USE DEF Goto
<1>1. CASE Begin(s) \/ (\E f \in Files : WriteFile(s, f)) \/ Measure(s)
           \/ EnforceQuota(s) \/ RemoveFails(s) \/ QuotaMet(s)
  <2>1. /\ dir' = dir /\ listed' = listed /\ unread' = unread
        /\ \E place : pc' = [pc EXCEPT ![s] = place] /\ (place \in Hidden <=> pc[s] \in Hidden)
    BY <1>1 DEF Begin, WriteFile, Measure, EnforceQuota, RemoveFails, QuotaMet, Removing,
                Enforces, catalog, mishaps, Hidden, StoreInv, StoreTyped
  <2>2. \A t \in Samples : pc'[t] \in Hidden <=> pc[t] \in Hidden
    BY <2>1 DEF StoreInv, StoreTyped
  <2>3. QED
    BY <2>1, <2>2, NoneChanges
<1>2. CASE WriteFails(s) \/ WriteFailsAndStays(s)
  <2>1. /\ pc[s] = "writing" /\ dir' = dir /\ listed' = listed /\ unread' = unread
        /\ \E place \in {"failed", "littered"} : pc' = [pc EXCEPT ![s] = place]
    BY <1>2 DEF WriteFails, WriteFailsAndStays, catalog, mishaps
  <2>2. dir[s] = {} /\ pc'[s] \in {"failed", "littered"} /\ \A t \in Samples \ {s} : pc'[t] = pc[t]
    BY <2>1 DEF StoreInv, StoreTyped, Unpublished
  <2>3. Shown[s] = "absent" /\ Shown'[s] = "gone"
    BY <2>1, <2>2, Appearances, AppearancesAfter DEF Hidden
  <2>4. Shown' = [Shown EXCEPT ![s] = "gone"]
    BY <2>1, <2>2, <2>3, OneChanges
  <2>5. QED
    BY <2>1, <2>3, <2>4 DEF Store!Next, Store!GiveUp, Store!Becomes, Shown
<1>3. CASE Rename(s)
  <2>1. /\ pc[s] = "writing" /\ listed' = listed /\ unread' = unread
        /\ pc' = [pc EXCEPT ![s] = "renamed"] /\ dir' = [dir EXCEPT ![s] = Files]
    BY <1>3 DEF Rename, catalog, mishaps
  <2>2. /\ dir[s] = {} /\ dir'[s] = Files
        /\ \A t \in Samples \ {s} : dir'[t] = dir[t] /\ pc'[t] = pc[t]
    BY <2>1 DEF StoreInv, StoreTyped, Unpublished
  <2>3. Shown[s] = "absent" /\ Shown'[s] = "whole"
    BY <2>1, <2>2, Appearances, AppearancesAfter DEF Hidden
  <2>4. Shown' = [Shown EXCEPT ![s] = "whole"]
    BY <2>2, <2>3, OneChanges
  <2>5. QED
    BY <2>1, <2>3, <2>4 DEF Store!Next, Store!Appear, Store!Becomes, Shown
<1>4. CASE AddPath(s)
  <2>1. /\ pc[s] = "measured" /\ dir' = dir /\ listed' = listed \cup {s} /\ unread' = unread
        /\ pc' = [pc EXCEPT ![s] = "added"]
    BY <1>4 DEF AddPath, mishaps
  <2>2. Shown[s] = "whole"
    BY <2>1, Appearances DEF StoreInv, Published
  <2>3. Shown' = Shown
    <3>1. \A t \in Samples : pc'[t] \in Hidden <=> pc[t] \in Hidden
      BY <2>1 DEF StoreInv, StoreTyped, Hidden
    <3>2. QED
      BY <2>1, <3>1, NoneChanges
  <2>4. QED
    BY <2>1, <2>2, <2>3 DEF Store!Next, Store!Enter, Shown
<1>5. CASE \E f \in Files : RemoveFile(s, f)
  <2>1. PICK f \in Files : RemoveFile(s, f)
    BY <1>5
  <2>2. PICK v : v = Victim
    OBVIOUS
  <2>3. v \in listed /\ v \in Samples /\ \A t \in listed : v <= t
    BY <2>1, <2>2, VictimListed DEF RemoveFile, Removing, StoreInv, StoreTyped
  <2>4. /\ f \in dir[v] /\ dir' = [dir EXCEPT ![v] = dir[v] \ {f}]
        /\ pc' = pc /\ listed' = listed /\ unread' = unread
    BY <2>1, <2>2 DEF RemoveFile, catalog, mishaps
  <2>5. /\ dir'[v] # Files /\ dir[v] # {} /\ pc[v] \notin Hidden
        /\ \A t \in Samples \ {v} : dir'[t] = dir[t] /\ pc'[t] = pc[t]
    BY <2>1, <2>3, <2>4 DEF StoreInv, StoreTyped, NotYetListed, Hidden
  <2>6. Shown[v] \in {"whole", "torn"} /\ Shown'[v] \in {"torn", "gone"}
    BY <2>3, <2>4, <2>5, Appearances, AppearancesAfter
  <2>7. PICK state \in {"torn", "gone"} : Shown' = [Shown EXCEPT ![v] = state]
    BY <2>3, <2>5, <2>6, OneChanges
  <2>8. \A t \in listed \ {v} : v < t
    BY <2>3, StoreAssumption DEF StoreInv, StoreTyped
  <2>9. QED
    BY <2>3, <2>4, <2>6, <2>7, <2>8 DEF Store!Next, Store!Remove, Store!Becomes, Shown
<1>6. CASE RemoveEntry(s)
  <2>1. PICK v : v = Victim
    OBVIOUS
  <2>2. v \in listed /\ v \in Samples
    BY <1>6, <2>1, VictimListed DEF RemoveEntry, Removing, StoreInv, StoreTyped
  <2>3. dir[v] = {} /\ dir' = dir /\ pc' = pc /\ listed' = listed \ {v} /\ unread' = unread
    BY <1>6, <2>1 DEF RemoveEntry, mishaps
  <2>4. Shown[v] = "gone"
    BY <2>2, <2>3, Appearances DEF StoreInv, NotYetListed, Hidden
  <2>5. Shown' = Shown
    BY <2>3, NoneChanges
  <2>6. QED
    BY <2>2, <2>3, <2>4, <2>5 DEF Store!Next, Store!Leave, Shown
<1>7. CASE MeasureFails(s)
  <2>1. /\ pc[s] = "renamed" /\ dir' = dir /\ listed' = listed /\ unread' = unread \cup {s}
        /\ pc' = [pc EXCEPT ![s] = "failed"]
    BY <1>7 DEF MeasureFails, catalog
  <2>2. Shown[s] = "whole" /\ s \notin listed
    BY <2>1, Appearances DEF StoreInv, Published, NotYetListed
  <2>3. Shown' = Shown
    <3>1. \A t \in Samples : pc'[t] \in Hidden <=> pc[t] \in Hidden
      BY <2>1 DEF StoreInv, StoreTyped, Hidden
    <3>2. QED
      BY <2>1, <3>1, NoneChanges
  <2>4. QED
    BY <2>1, <2>2, <2>3 DEF Store!Next, Store!Miss, Shown
<1> QED
  BY <1>1, <1>2, <1>3, <1>4, <1>5, <1>6, <1>7 DEF Capture

LEMMA StoreRefinedRestart ==
    ASSUME StoreInv, StoreInv', CrashAndRestart
    PROVE  Store!Restart
<1>1. /\ dir' = dir
      /\ pc' = [s \in Samples |-> IF pc[s] \in InProgress THEN "lost" ELSE pc[s]]
      /\ listed' = {s \in Samples : "label" \in dir[s]} \ unread'
      /\ unread' \subseteq {s \in Samples : "label" \in dir[s]}
  BY DEF CrashAndRestart, scanStoredSamples, Labelled
<1> DEFINE lost == {s \in Samples : pc[s] = "writing"}
<1>2. \A s \in Samples : Shown'[s] = IF s \in lost THEN "gone" ELSE Shown[s]
  <2> SUFFICES ASSUME NEW s \in Samples
               PROVE  Shown'[s] = IF s \in lost THEN "gone" ELSE Shown[s]
    OBVIOUS
  <2>1. CASE s \in lost
    <3>1. dir'[s] = {} /\ pc'[s] = "lost"
      BY <1>1, <2>1 DEF StoreInv, Unpublished, InProgress
    <3>2. Shown'[s] = "gone"
      BY <3>1, Appearances, AppearancesAfter DEF Hidden
    <3>3. QED
      BY <2>1, <3>2
  <2>2. CASE s \notin lost
    <3>1. dir'[s] = dir[s] /\ (pc'[s] \in Hidden <=> pc[s] \in Hidden)
      BY <1>1, <2>2 DEF Hidden, InProgress
    <3>2. Shown'[s] = Shown[s]
      BY <3>1 DEF Shown, Appearance, Hidden
    <3>3. QED
      BY <2>2, <3>2
  <2>3. QED
    BY <2>1, <2>2
<1>3. lost \subseteq {s \in Samples : Shown[s] = "absent"}
  BY Appearances DEF StoreInv, Unpublished, Hidden
<1>4. Shown' = [s \in Samples |-> IF s \in lost THEN "gone" ELSE Shown[s]]
  BY <1>2 DEF Shown
<1>5. {s \in Samples : Shown[s] = "whole"} \ unread' \subseteq listed'
  <2> SUFFICES ASSUME NEW s \in Samples, Shown[s] = "whole" PROVE "label" \in dir[s]
    BY <1>1
  <2>1. dir[s] = Files
    BY Appearances
  <2>2. QED
    BY <2>1 DEF Files
<1>6. /\ listed' \cap unread' = {}
      /\ listed' \cup unread' \subseteq
            {s \in Samples : Shown[s] = "whole"} \cup {s \in Samples : Shown[s] = "torn"}
  BY <1>1, Appearances
<1> HIDE DEF lost
<1> QED
  BY <1>3, <1>4, <1>5, <1>6 DEF Store!Restart, Store!InState, Shown

LEMMA StoreRefinedStep ==
    ASSUME StoreInv, StoreInv', [Next]_vars
    PROVE  [Store!Next]_<<Shown, listed, unread>>
<1>1. ASSUME NEW s \in Samples, Capture(s) PROVE [Store!Next]_<<Shown, listed, unread>>
  BY <1>1, StoreRefinedCapture
<1>2. CASE Export \/ UNCHANGED vars
  <2>1. dir' = dir /\ pc' = pc /\ listed' = listed /\ unread' = unread
    BY <1>2 DEF Export, StartExport, ExportCheck, ExportSend, ExportManifest, ExportRead,
                ExportUnchanged, catalog, mishaps, vars
  <2>2. QED
    BY <2>1, NoneChanges
<1>3. CASE CrashAndRestart
  BY <1>3, StoreRefinedRestart DEF Store!Next
<1> QED
  BY <1>1, <1>2, <1>3 DEF Next

(* The catalog implements SampleStore: whatever captures overlap, removals *)
(* fail and crashes happen, samples appear whole, are removed oldest first *)
(* and leave the inventory when they are gone (capture, AddPath,           *)
(* EnforceQuota and NewCatalog).                                           *)
THEOREM ImplementsStore == Spec => SampleStoreKept
<1>1. StoreInv /\ StoreInv' /\ [Next]_vars => [Store!Next]_<<Shown, listed, unread>>
  BY StoreRefinedStep
<1> QED
  BY <1>1, StoreRefinedInit, StoreInvariant, PTL DEF Spec, SampleStoreKept, Store!Spec, Shown
=============================================================================
