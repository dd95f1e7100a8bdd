--------------------------- MODULE CommissionFiles ---------------------------
(***************************************************************************)
(* One private file of a commission: the upload grant, the scans, the copy *)
(* into the clean bucket, attaching, retention and the purge of both       *)
(* buckets (packages/commission-files/src, migrations 0037 to 0044).       *)
(*                                                                         *)
(* A scan is one execution of processCommissionFileScan.  Its writes are   *)
(* fenced by the row version: current holds the scans that have seen the   *)
(* latest version.  Storage calls are steps of their own, a copy request   *)
(* that was given up may still complete at the provider.                   *)
(***************************************************************************)
EXTENDS Naturals, FiniteSets

CONSTANTS Scans,     \* executions of the scan job
          Versions,  \* object versions the owner may put, 1 .. n
          Harmful    \* versions that the scanner or the type check refuses

ASSUME FileConstants == Versions \subseteq Nat /\ Harmful \subseteq Versions

VARIABLES context,    \* context of the file
          state,      \* state of the row, "none" before it
          lease,      \* scan_lease_expires_at: "none", "held", "expired"
          retryAt,    \* next_scan_at is in the future
          late,       \* instants that have passed: upload, scan, unsent, closure
          intent,     \* clean_copy_intent
          cleanCopy,  \* clean_version_id, <<>> or <<scan, version>>
          stamps,     \* buckets with a purge stamp
          current,    \* scans whose claimed version is the version of the row
          pc,         \* step of each scan
          seen,       \* version each scan judges, 0 before it
          quarantine, \* versions in the quarantine bucket
          latest,     \* version put last, 0 before any
          clean,      \* copies in the clean bucket
          flying,     \* copy requests at the provider
          sweep,      \* purge in progress: the row it read, the buckets, may it mark clean
          order,      \* the order's outcome
          due,        \* its retention periods that are over
          evidenceHold, \* an evidence hold is active
          checked     \* retention found no hold and will delete

rowVars     == <<state, lease, retryAt, intent, cleanCopy, stamps>>
scanVars    == <<pc, seen>>
storageVars == <<quarantine, latest, clean, flying>>
orderVars   == <<order, due, evidenceHold>>
fileVars    == <<context, rowVars, late, current, scanVars, storageVars, sweep, orderVars, checked>>

Contexts == {"brief", "thread", "submission", "resolution_evidence"}
TERMINAL == {"rejected", "scan_failed", "expired", "discarded", "deleted"}
Buckets  == {"quarantine", "clean"}
NoSweep  == [stage |-> "none"]

FileInit ==
  /\ context \in Contexts
  /\ state = "none" /\ lease = "none" /\ retryAt = FALSE
  /\ late = {} /\ intent = FALSE /\ cleanCopy = <<>> /\ stamps = {}
  /\ current = {} /\ pc = [s \in Scans |-> "queued"] /\ seen = [s \in Scans |-> 0]
  /\ quarantine = {} /\ latest = 0 /\ clean = {} /\ flying = {}
  /\ sweep = NoSweep /\ order = "open" /\ due = {} /\ evidenceHold = FALSE /\ checked = FALSE

-----------------------------------------------------------------------------
(* The owner of the file.                                                  *)

createUpload ==
  /\ state = "none"
  /\ state' = "awaiting_upload"
  /\ UNCHANGED <<context, lease, retryAt, late, intent, cleanCopy, stamps, current,
                 scanVars, storageVars, sweep, orderVars, checked>>

\* The grant lasts until the upload expires, also after completeFile.
put(v) ==
  /\ state # "none" /\ "upload" \notin late
  /\ v > latest
  /\ latest' = v /\ quarantine' = quarantine \cup {v}
  /\ UNCHANGED <<context, rowVars, late, current, scanVars, clean, flying, sweep, orderVars, checked>>

completeFile ==
  /\ state = "awaiting_upload" /\ "upload" \notin late
  /\ state' = "scanning" /\ current' = {}
  /\ UNCHANGED <<context, lease, retryAt, late, intent, cleanCopy, stamps,
                 scanVars, storageVars, sweep, orderVars, checked>>

discard ==
  /\ state \in {"awaiting_upload", "scanning", "clean"}
  /\ state' = "discarded" /\ lease' = "none" /\ retryAt' = FALSE /\ current' = {}
  /\ UNCHANGED <<context, late, intent, cleanCopy, stamps,
                 scanVars, storageVars, sweep, orderVars, checked>>

\* Attaching a clean file to the order, by the port of its context.
attach ==
  /\ state = "clean"
  /\ state' = "attached" /\ current' = {}
  /\ UNCHANGED <<context, lease, retryAt, late, intent, cleanCopy, stamps,
                 scanVars, storageVars, sweep, orderVars, checked>>

attachBriefFiles         == context = "brief" /\ order = "open" /\ attach
attachOrderFiles         == context \in {"thread", "submission"} /\ order = "open" /\ attach
attachResolutionEvidence == context = "resolution_evidence" /\ attach

-----------------------------------------------------------------------------
(* A scan.                                                                 *)

go(s, step) == pc' = [pc EXCEPT ![s] = step]

\* The conditional update that takes the lease; past the scan deadline the file
\* fails at once.
claimScan(s) ==
  /\ pc[s] = "queued"
  /\ state = "scanning" /\ ~retryAt /\ lease # "held"
  /\ lease' = "held" /\ current' = {s}
  /\ go(s, IF "scan" \in late THEN "overdue" ELSE "claimed")
  /\ UNCHANGED <<context, state, retryAt, late, intent, cleanCopy, stamps, seen,
                 storageVars, sweep, orderVars, checked>>

\* Fault model of settle: the update names the row without its version.
settleUnfenced(s, to) ==
  /\ state' = to /\ lease' = "none" /\ current' = {} /\ UNCHANGED <<context, late, stamps>>

\* Applies a result if the row has not changed since the claim.
settle(s, to) ==
  IF s \in current
  THEN state' = to /\ lease' = "none" /\ current' = {} /\ UNCHANGED <<context, late, stamps>>
  ELSE UNCHANGED <<context, state, lease, late, stamps, current>>

failOverdue(s) ==
  /\ pc[s] = "overdue"
  /\ settle(s, "scan_failed") /\ go(s, "done")
  /\ retryAt' = IF s \in current THEN FALSE ELSE retryAt
  /\ UNCHANGED <<intent, cleanCopy, seen, storageVars, sweep, orderVars, checked>>

\* headVersion: the newest version in quarantine is the one that is opened and judged.
headVersion(s) ==
  /\ pc[s] = "claimed"
  /\ latest \in quarantine
  /\ seen' = [seen EXCEPT ![s] = latest] /\ go(s, "opened")
  /\ UNCHANGED <<context, rowVars, late, current, storageVars, sweep, orderVars, checked>>

reject(s) ==
  /\ \/ pc[s] = "claimed" /\ latest \notin quarantine
     \/ pc[s] = "opened" /\ seen[s] \in Harmful
  /\ settle(s, "rejected") /\ go(s, "done")
  /\ UNCHANGED <<retryAt, intent, cleanCopy, seen, storageVars, sweep, orderVars, checked>>

\* The scanner or the storage is unavailable, the signatures are stale or the
\* copy cannot be verified.
retry(s) ==
  /\ pc[s] \in {"claimed", "opened", "intended", "copying", "copied"}
  /\ settle(s, state) /\ go(s, "done")
  /\ retryAt' = (retryAt \/ s \in current)
  /\ UNCHANGED <<intent, cleanCopy, seen, storageVars, sweep, orderVars, checked>>

crash(s) ==
  /\ pc[s] \notin {"queued", "done"} /\ go(s, "done")
  /\ UNCHANGED <<context, rowVars, late, current, seen, storageVars, sweep, orderVars, checked>>

\* The intent is committed under the claim before the provider is asked.
copyIntent(s) ==
  /\ pc[s] = "opened" /\ seen[s] \notin Harmful
  /\ IF s \in current /\ state = "scanning"
     THEN intent' = TRUE /\ current' = {s} /\ go(s, "intended")
     ELSE go(s, "done") /\ UNCHANGED <<intent, current>>
  /\ UNCHANGED <<context, state, lease, retryAt, late, cleanCopy, stamps, seen,
                 storageVars, sweep, orderVars, checked>>

\* Without its source the request fails, and the scan retries.
copyToClean(s) ==
  /\ pc[s] = "intended" /\ seen[s] \in quarantine
  /\ flying' = flying \cup {<<s, seen[s]>>} /\ go(s, "copying")
  /\ UNCHANGED <<context, rowVars, late, current, seen, quarantine, latest, clean, sweep, orderVars, checked>>

\* The provider completes a copy request, also one whose scan gave up, or loses it.
copyLands(c, lands) ==
  /\ flying' = flying \ {c}
  /\ clean' = IF lands THEN clean \cup {c} ELSE clean
  /\ pc' = IF lands /\ pc[c[1]] = "copying" THEN [pc EXCEPT ![c[1]] = "copied"] ELSE pc
  /\ UNCHANGED <<context, rowVars, late, current, seen, quarantine, latest, sweep, orderVars, checked>>

\* The copy is verified by a second head and the file becomes clean.
settleClean(s) ==
  /\ pc[s] = "copied"
  /\ \E c \in clean : c[1] = s
  /\ settle(s, "clean")
  /\ cleanCopy' = IF s \in current THEN CHOOSE c \in clean : c[1] = s ELSE cleanCopy
  /\ retryAt' = IF s \in current THEN FALSE ELSE retryAt
  /\ go(s, IF s \in current THEN "purge" ELSE "done")
  /\ UNCHANGED <<intent, seen, storageVars, sweep, orderVars, checked>>

\* The scan's own purge of quarantine; maintenance repeats one that fails.
purgeQuarantine(s) ==
  /\ pc[s] = "purge"
  /\ quarantine' = {} /\ go(s, "done")
  /\ stamps' = stamps \cup {"quarantine"}
  /\ current' = IF "quarantine" \in stamps THEN current ELSE {}
  /\ UNCHANGED <<context, state, lease, retryAt, late, intent, cleanCopy, seen, latest, clean, flying, sweep, orderVars, checked>>
-----------------------------------------------------------------------------
(* Time.                                                                   *)

\* Storage requests end within a minute: none is left a day after the end.
timePasses(t) ==
  /\ t \in {"upload", "scan", "unsent", "closure"} \ late
  /\ CASE t = "upload"  -> state # "none"
       [] t = "scan"    -> state = "scanning"
       [] t = "unsent"  -> state = "clean"
       [] t = "closure" -> state \in TERMINAL /\ flying = {} /\ \A s \in Scans : pc[s] # "intended"
  /\ late' = late \cup {t}
  /\ UNCHANGED <<context, rowVars, current, scanVars, storageVars, sweep, orderVars, checked>>

leaseExpires ==
  /\ lease = "held" /\ lease' = "expired"
  /\ UNCHANGED <<context, state, retryAt, intent, cleanCopy, stamps, late, current, scanVars, storageVars, sweep, orderVars, checked>>

retryDue ==
  /\ retryAt /\ retryAt' = FALSE
  /\ UNCHANGED <<context, state, lease, intent, cleanCopy, stamps, late, current, scanVars, storageVars, sweep, orderVars, checked>>

-----------------------------------------------------------------------------
(* Maintenance.  Each bulk update repeats its predicate.                    *)

end(to) ==
  /\ state' = to /\ lease' = "none" /\ retryAt' = FALSE /\ current' = {}
  /\ UNCHANGED <<context, late, intent, cleanCopy, stamps, scanVars, storageVars, sweep, orderVars, checked>>

expire       == state = "awaiting_upload" /\ "upload" \in late /\ end("expired")
discardStale == state = "clean" /\ "unsent" \in late /\ end("discarded")
scanFailed   == state = "scanning" /\ "scan" \in late /\ lease # "held" /\ end("scan_failed")

\* A worker died in its scan: the next attempt is due at once.
recover ==
  /\ state = "scanning" /\ lease = "expired"
  /\ lease' = "none" /\ retryAt' = FALSE /\ current' = {}
  /\ UNCHANGED <<context, state, late, intent, cleanCopy, stamps, scanVars, storageVars, sweep, orderVars, checked>>

\* The purge of one candidate: read, delete in storage, mark.
purgeCandidate ==
  \/ state \in TERMINAL /\ stamps # Buckets
  \/ state \in {"clean", "attached"} /\ "quarantine" \notin stamps

canMarkClean == /\ state \in TERMINAL /\ "clean" \notin stamps
                /\ intent => "closure" \in late

readPurge ==
  /\ sweep = NoSweep /\ purgeCandidate
  /\ sweep' = [stage |-> "read", row |-> state, marksClean |-> canMarkClean,
               buckets |-> (IF state \in TERMINAL THEN Buckets ELSE {"quarantine"}) \ stamps]
  /\ UNCHANGED <<context, rowVars, late, current, scanVars, storageVars, orderVars, checked>>

deleteAllVersions ==
  /\ sweep.stage = "read"
  /\ quarantine' = IF "quarantine" \in sweep.buckets THEN {} ELSE quarantine
  /\ clean' = IF "clean" \in sweep.buckets THEN {} ELSE clean
  /\ sweep' = [sweep EXCEPT !.stage = "deleted"]
  /\ UNCHANGED <<context, rowVars, late, current, scanVars, latest, flying, orderVars, checked>>

\* The mark requires the state it read and absent stamps.
markPurged ==
  /\ sweep.stage = "deleted"
  /\ LET marks == sweep.buckets \ (IF sweep.marksClean THEN {} ELSE {"clean"}) IN
     IF state = sweep.row /\ marks \cap stamps = {}
     THEN stamps' = stamps \cup marks /\ current' = {}
     ELSE UNCHANGED <<stamps, current>>
  /\ sweep' = NoSweep
  /\ UNCHANGED <<context, state, lease, retryAt, intent, cleanCopy, late, scanVars, storageVars, orderVars, checked>>

purgeFails ==
  /\ sweep # NoSweep /\ sweep' = NoSweep
  /\ UNCHANGED <<context, rowVars, late, current, scanVars, storageVars, orderVars, checked>>

-----------------------------------------------------------------------------
(* The order, its evidence hold and the retention of attached files.  They   *)
(* matter to attached files only, and change while the file is attached.     *)

orderEnds(o) ==
  /\ state = "attached" /\ order = "open" /\ order' = o
  /\ UNCHANGED <<context, rowVars, late, current, scanVars, storageVars, sweep, due, evidenceHold, checked>>

retentionPasses(d) ==
  /\ state = "attached" /\ order # "open" /\ d \notin due /\ due' = due \cup {d}
  /\ UNCHANGED <<context, rowVars, late, current, scanVars, storageVars, sweep, order, evidenceHold, checked>>

\* A case of the order opens or ends.
setHold(b) ==
  /\ state = "attached" /\ evidenceHold # b /\ evidenceHold' = b
  /\ UNCHANGED <<context, rowVars, late, current, scanVars, storageVars, sweep, order, due, checked>>

retentionDue ==
  \/ context = "brief" /\ order = "closed_unpaid" /\ "30d" \in due
  \/ order = "completed" /\ "180d" \in due
  \/ order = "closed_paid" /\ "180d" \in due
  \/ order = "closed_unpaid" /\ context = "resolution_evidence" /\ "180d" \in due

\* The hold is read, and the file deleted by a later statement.
checkHold ==
  /\ state = "attached" /\ retentionDue /\ ~evidenceHold /\ ~checked
  /\ checked' = TRUE
  /\ UNCHANGED <<context, rowVars, late, current, scanVars, storageVars, sweep, orderVars>>

deleteRetained ==
  /\ checked /\ checked' = FALSE
  /\ IF state = "attached"
     THEN state' = "deleted" /\ current' = {}
     ELSE UNCHANGED <<state, current>>
  /\ UNCHANGED <<context, lease, retryAt, intent, cleanCopy, stamps, late, scanVars, storageVars, sweep, orderVars>>

-----------------------------------------------------------------------------
scanStep(s) == \/ claimScan(s) \/ failOverdue(s) \/ headVersion(s) \/ reject(s) \/ retry(s) \/ crash(s)
               \/ copyIntent(s) \/ copyToClean(s) \/ settleClean(s) \/ purgeQuarantine(s)

runCommissionFileMaintenance ==
  \/ expire \/ discardStale \/ scanFailed \/ recover
  \/ readPurge \/ deleteAllVersions \/ markPurged \/ purgeFails
  \/ checkHold \/ deleteRetained

FileNext ==
  \/ createUpload \/ completeFile \/ discard
  \/ attachBriefFiles \/ attachOrderFiles \/ attachResolutionEvidence
  \/ \E v \in Versions : put(v)
  \/ \E s \in Scans : scanStep(s)
  \/ \E c \in flying, lands \in BOOLEAN : copyLands(c, lands)
  \/ \E t \in {"upload", "scan", "unsent", "closure"} : timePasses(t)
  \/ leaseExpires \/ retryDue
  \/ runCommissionFileMaintenance
  \/ \E o \in {"completed", "closed_unpaid", "closed_paid"} : orderEnds(o)
  \/ \E d \in {"30d", "180d"} : retentionPasses(d)
  \/ \E b \in BOOLEAN : setHold(b)

FileSpec == FileInit /\ [][FileNext]_fileVars

-----------------------------------------------------------------------------
(* What the database accepts of a change of the row (migration 0043).        *)

fileTransitions ==
  [awaiting_upload |-> {"scanning", "expired", "discarded"},
   scanning |-> {"clean", "rejected", "scan_failed", "discarded"},
   clean |-> {"attached", "discarded"},
   attached |-> {"deleted"}]

guardFile ==
  /\ (state # state' /\ state # "none") =>
       state \in DOMAIN fileTransitions /\ state' \in fileTransitions[state]
  /\ intent => intent'
  /\ (intent' /\ ~intent) => state' = "scanning" /\ "clean" \notin stamps'
  /\ (intent' /\ "clean" \in stamps' \ stamps) => state' \in TERMINAL /\ "closure" \in late
  /\ stamps \subseteq stamps'
  /\ (cleanCopy # <<>>) => cleanCopy' = cleanCopy
  /\ (lease' # "none" \/ retryAt') => state' = "scanning"

\* Bytes the file counts for in the quota of its order.
countsForQuota == state # "none" /\ ~(state \in TERMINAL /\ stamps = Buckets)

-----------------------------------------------------------------------------
FileTypeOK ==
  /\ context \in Contexts
  /\ state \in {"none", "awaiting_upload", "scanning", "clean", "attached"} \cup TERMINAL
  /\ lease \in {"none", "held", "expired"} /\ {retryAt, intent, evidenceHold, checked} \subseteq BOOLEAN
  /\ stamps \subseteq Buckets /\ current \subseteq Scans
  /\ clean \cup flying \subseteq Scans \X Versions /\ quarantine \subseteq Versions

\* What a clean or attached file serves is stored in the clean bucket and is a
\* copy of a version that passed its scan, whatever versions the owner put
\* meanwhile, whichever scan lost its lease, and whatever maintenance purged.
ServedBytesWereScanned ==
  state \in {"clean", "attached"} => cleanCopy \in clean /\ cleanCopy[2] \notin Harmful

\* A file that no longer counts for the quota has nothing in the clean bucket,
\* and no copy request that could still put something there.
ReleasedBytesAreGone ==
  (state # "none" /\ ~countsForQuota) => clean = {} /\ flying = {}

\* No scan, command or sweep makes a change that the guard of the table aborts.
FileGuardsAccept == [][guardFile]_fileVars
=============================================================================
