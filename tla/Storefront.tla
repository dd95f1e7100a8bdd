----------------------------- MODULE Storefront -----------------------------
(***************************************************************************)
(* A creator's public page with the media it shows and the reports about   *)
(* it: Catalog, PublicMedia and PublicReports composed through the ports    *)
(* they read (media catalog port, visibility port, moderation snapshots,    *)
(* retention holds), the page row lock and the retention fence              *)
(* (packages/database/src/public-media-retention-fence.ts).                 *)
(***************************************************************************)
EXTENDS Catalog, PublicMedia, PublicReports

storeVars == <<catalogVars, mediaVars, reportVars>>

\* resolveReadyAssets and resolveOwnedAssets of the media service.
resolveReadyAssets == {a \in Assets : asset[a] = "ready"}
resolveOwnedAssets == {a \in Assets : asset[a] \notin {"none", "failed", "deleted"}}

\* The cleanup holds the page row and the asset's retention fence from its last
\* check to its commit; commands, reports and triage wait for them.
pageFree == cleanup.stage # "checked"

pageVisible == loadEffective(resolveReadyAssets, pageHeld, heldShowcases)

\* snapshot(..., visibleOnly): the target of a report is shown right now.
resolveVisibleReportTarget(t) ==
  pageVisible /\ (t = "page" \/ t \in visibleShowcases(heldShowcases))

\* Media of a reported target in the revision it was reported in.
targetAssets(t, n) ==
  IF t = "page" THEN revisionAssets(n)
  ELSE IF t \in DOMAIN revisions[n].shows THEN revisions[n].shows[t] ELSE {}

\* The assets the triage service protects from the cleanup.
protectedAssetIds == UNION {targetAssets(e[1], e[2]) : e \in evidence}

\* The media that anybody may fetch.
delivered == {a \in Assets : isDerivativePublic(a, pageVisible, heldShowcases)}

-----------------------------------------------------------------------------
creatorCommands ==
  /\ pageFree
  /\ \/ initialize
     \/ \E h \in Handles : claimHandle(h) \/ renameHandle(h)
     \/ \E assets \in draftInputs : saveDraft(assets, resolveOwnedAssets)
     \/ \E s \in Showcases, i \in showcaseInputs :
          upsertShowcase(s, i[1], i[2], resolveOwnedAssets)
     \/ \E s \in Showcases : removeShowcase(s)
     \/ \E order \in [1 .. Cardinality(active) -> active] : reorderShowcases(order)
     \/ publish(resolveReadyAssets, pageHeld, heldShowcases)
     \/ unpublish

otherCatalogSteps ==
  /\ pageFree
  /\ \/ clearPublishedHeadForSuspension \/ capabilityRestored
     \/ \E h \in Handles : otherPageClaims(h)

catalogStep == (creatorCommands \/ otherCatalogSteps) /\ UNCHANGED <<mediaVars, reportVars>>

\* The draft must refer to an upload before it is completed.
uploadStep ==
  /\ \E a \in Assets : createUploadIntent(a) \/ completeUpload(a, a \in references.draft)
  /\ UNCHANGED <<catalogVars, reportVars>>

workerStep ==
  /\ (\E w \in Workers : processing(w)) \/ processingFaults \/ queueSteps
  /\ UNCHANGED <<catalogVars, reportVars>>

cleanupStep ==
  /\ cleanupSteps(references, protectedAssetIds)
  /\ UNCHANGED <<catalogVars, reportVars>>

reportStep ==
  /\ \/ \E c \in Challenges : issueReportChallenge(c) \/ challengeExpires(c)
     \/ \E e \in accepted : securityEventExpires(e)
     \/ /\ pageFree
        /\ \E q \in Guests \cup Actors, c \in Challenges, t \in Showcases \cup {"page"},
              n \in DOMAIN revisions :
             LET visible == n = head /\ resolveVisibleReportTarget(t) IN
               submitReport(q, c, t, n, visible) \/ submitReportRejected(q, c, t, n, visible)
     \/ /\ pageFree
        /\ \E r \in Reports : dismiss(r) \/ hide(r) \/ restore(r)
  /\ UNCHANGED <<catalogVars, mediaVars>>

StoreInit == CatalogInit /\ MediaInit /\ ReportsInit
StoreNext == catalogStep \/ uploadStep \/ workerStep \/ cleanupStep \/ reportStep
StoreSpec == StoreInit /\ [][StoreNext]_storeVars

-----------------------------------------------------------------------------
\* A published page that nobody holds is listed, delivers the media it shows
\* and is reached by every handle it ever had; any other page delivers nothing:
\* head, projection, claims and media never drift apart, whatever the order of
\* renames, publications, suspensions and cleanups
\* (catalog-service.ts, public-catalog-query.ts loadEffectiveBatch).
PublishedPageResolves ==
  IF head = 0 \/ pageHeld
  THEN ~listPublicCreators(pageVisible) /\ delivered = {}
  ELSE
  /\ listPublicCreators(pageVisible)
  /\ revisions[head].profile \subseteq delivered
  /\ \A h \in Handles : /\ claim[h] = "canonical" => resolvePublicCreator(h, pageVisible) = "visible"
                        /\ claim[h] = "alias" => resolvePublicCreator(h, pageVisible) = "redirect"

\* The cleanup never deletes an asset that the draft refers to: a writer that
\* came first is seen by the last check, a writer that came second sees the
\* deleted row (media-cleanup.ts candidateStillEligible, the page lock).
DraftMediaKept == \A a \in references.draft : asset[a] # "deleted"

\* The media of a target under an open report or an active hold stays until the
\* report is triaged or the hold released, also after the creator replaced it
\* (triage-service.ts protectedAssetIds, media-cleanup.ts).
ReportedEvidenceKept == protectedAssetIds \subseteq resolveReadyAssets

\* Media that the published revision shows elsewhere than in showcase t.
shownBeside(t) ==
  revisions[head].profile
    \cup UNION {revisions[head].shows[s] : s \in DOMAIN revisions[head].shows \ {t}}

\* A report whose target triage has hidden: of a page nothing is delivered, of a
\* showcase nothing that the page does not show elsewhere.
HeldIsNotDelivered ==
  \A r \in Reports : (report[r].state = "held" /\ delivered # {}) =>
    report[r].target # "page" /\ delivered \subseteq shownBeside(report[r].target)

\* Nothing of a held page or showcase is delivered, and what is hidden stays out
\* of any later revision until the hold is released (triage-service.ts hide,
\* public-catalog-query.ts loadEffectiveBatch, catalog-service.ts publish).
HeldContentStaysHidden ==
  [][/\ HeldIsNotDelivered'
     /\ pageHeld /\ pageHeld' => head' \in {head, 0}
     /\ \A s \in heldShowcases \cap heldShowcases' :
          head' \notin {head, 0} => s \notin DOMAIN revisions'[head'].shows]_storeVars

\* Every write of the page, its reports and its holds passes the triggers of
\* migrations 0020 and 0022, so no legal command fails in the database.
StoreGuardsAccept == [][catalogGuards /\ triageGuards]_storeVars
=============================================================================
