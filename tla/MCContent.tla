------------------------------ MODULE MCContent ------------------------------
(***************************************************************************)
(* What users store, for TLC: a creator's public page with its media and   *)
(* reports, and a private file of a commission.  The two share no state,   *)
(* so `part` chooses the one a behaviour is about, the other stays as it   *)
(* begins, and their state spaces add instead of multiply.                 *)
(*   page:   a claimed handle and a processed asset; publications,         *)
(*           renames, suspensions, reports of a user and the cleanup       *)
(*   upload: from nothing; uploads, processing and guests' reports around  *)
(*           a single publication                                          *)
(*   scans:  two scans of one file, a harmless and a harmful version       *)
(*   file:   one scan, the order, its evidence hold and the retention      *)
(***************************************************************************)
EXTENDS Storefront, CommissionFiles, TLC

VARIABLE part

mcVars == <<part, storeVars, fileVars>>

ScanSymmetry == Permutations(Scans)

readyInit ==
  /\ creator = "active" /\ page = TRUE
  /\ claim = [h \in Handles |-> IF h = CHOOSE h0 \in Handles : TRUE THEN "canonical" ELSE "free"]
  /\ draft = {}
  /\ showcase = [s \in Showcases |-> "none"]
  /\ position = [s \in Showcases |-> 0]
  /\ showMedia = [s \in Showcases |-> {}]
  /\ revisions = <<>> /\ head = 0 /\ projection = NoProjection
  /\ asset = [a \in Assets |-> "ready"]
  /\ sourceDeleted = {} /\ open = {} /\ leased = {}
  /\ torn = {} /\ unrecorded = {}
  /\ attempt = [a \in Assets |-> 1]
  /\ job = [a \in Assets |-> "completed"]
  /\ tries = [a \in Assets |-> 0] /\ stalls = [a \in Assets |-> 0]
  /\ work = [w \in Workers |-> Idle]
  /\ stored = [a \in Assets |-> Variants]
  /\ cleanup = NoCleanup
  /\ ReportsInit

MCInit ==
  /\ FileInit
  /\ \/ part = "page" /\ readyInit /\ context = "brief"
     \/ part = "upload" /\ StoreInit /\ context = "brief"
     \/ part = "scans" /\ StoreInit /\ context = "thread"
     \/ part = "file" /\ StoreInit

\* Bounds of the explorations.
pageBound   == challenge' = challenge
uploadBound == /\ Len(revisions') <= 1
               /\ creator' = "active"
               /\ \A h \in Handles : claim'[h] \in {"free", "canonical"}
scansBound  == order' = "open" /\ ~evidenceHold'
fileBound   == \E s \in Scans : pc'[s] = "queued"

MCNext ==
  /\ UNCHANGED part
  /\ \/ part = "page" /\ StoreNext /\ pageBound /\ UNCHANGED fileVars
     \/ part = "upload" /\ StoreNext /\ uploadBound /\ UNCHANGED fileVars
     \/ part = "scans" /\ FileNext /\ scansBound /\ UNCHANGED storeVars
     \/ part = "file" /\ FileNext /\ fileBound /\ UNCHANGED storeVars

MCSpec == MCInit /\ [][MCNext]_mcVars

\* Bytes that somebody relies on are kept, and only bytes that were scanned are served:
\* media of drafts and published pages, reported evidence, private files
\* (reconcileAssets, purge, copyToClean, settle).
StoredBytesAreKept ==
  /\ CatalogTypeOK /\ MediaTypeOK /\ ReportsTypeOK /\ FileTypeOK
  /\ DraftMediaKept /\ ReportedEvidenceKept
  /\ ServedBytesWereScanned /\ ReleasedBytesAreGone

\* As in Storefront and CommissionFiles: what the database's triggers accept.
ContentGuardsAccept == StoreGuardsAccept /\ FileGuardsAccept
=============================================================================
