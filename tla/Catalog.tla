------------------------------ MODULE Catalog ------------------------------
(***************************************************************************)
(* The page of one creator: handle claims, draft, showcases, immutable     *)
(* publication revisions, the published head, the discovery projection,    *)
(* and the public query that joins them (packages/catalog, migration       *)
(* 0020).  Other pages share only the handles, claimed by them in          *)
(* otherPageClaims.                                                        *)
(*                                                                         *)
(* Every command of a creator locks the page row first; the version fence, *)
(* idempotent replays, the rename cooldown, recent authentication and the  *)
(* text limits only refuse a command, and a refused command changes        *)
(* nothing.                                                                *)
(***************************************************************************)
EXTENDS Naturals, Sequences, FiniteSets

CONSTANTS Showcases,     \* identities of showcases
          Positions,     \* 0 .. 11 in the code
          Handles,       \* normalized handles
          ProfileAssets, \* assets with purpose avatar or cover
          ShowAssets,    \* assets with purpose showcase
          MaxRevisions   \* bound: publications of the page

ASSUME CatalogAssumption ==
  /\ IsFiniteSet(Showcases) /\ MaxRevisions \in Nat
  /\ IsFiniteSet(Positions) /\ Positions # {} /\ Positions = 0 .. Cardinality(Positions) - 1

VARIABLES creator,     \* capability state of the creator
          page,        \* the creator has initialized a page
          claim,       \* who holds a handle, and as what
          draft,       \* avatar and cover of the draft
          showcase,    \* "none", "active", "removed"
          position,    \* position of a showcase
          showMedia,   \* media of a showcase
          revisions,   \* creator_publication_revisions with their showcases
          head,        \* published_revision_id, 0 for null
          projection   \* creator_discovery_projections row

catalogVars == <<creator, page, claim, draft, showcase, position, showMedia,
                 revisions, head, projection>>
draftVars   == <<draft, showcase, position, showMedia>>

NoProjection == [revision |-> 0, handle |-> {}, enabled |-> FALSE]

CatalogInit ==
  /\ creator = "active" /\ page = FALSE
  /\ claim = [h \in Handles |-> "free"]
  /\ draft = {}
  /\ showcase = [s \in Showcases |-> "none"]
  /\ position = [s \in Showcases |-> 0]
  /\ showMedia = [s \in Showcases |-> {}]
  /\ revisions = <<>> /\ head = 0
  /\ projection = NoProjection

-----------------------------------------------------------------------------
active    == {s \in Showcases : showcase[s] = "active"}
canonical == {h \in Handles : claim[h] = "canonical"}

\* References of a publication revision.
revisionAssets(n) == revisions[n].profile \cup UNION {revisions[n].shows[s] : s \in DOMAIN revisions[n].shows}

\* The reference sets of claimCandidates: draft_refs, revision_refs, live_refs.
references ==
  [draft     |-> draft \cup UNION {showMedia[s] : s \in active},
   revisions |-> UNION {revisionAssets(n) : n \in DOMAIN revisions},
   live      |-> IF head = 0 THEN {} ELSE revisionAssets(head)]

\* The port must answer for every reference, with an asset of the owner and of
\* the purpose asked for.
exactReadyMap(refs, ready)  == refs \subseteq ready
exactOwnedMap(refs, usable) == refs \subseteq usable

\* References the draft did not have must be usable assets, read under the
\* retention fence; usable is what resolveOwnedAssets returns, less the failed.
validateNewMediaReferences(refs, kept, usable) == exactOwnedMap(refs \ kept, usable)

\* What the normalizers let through: assets of the right purpose.
draftInputs    == SUBSET ProfileAssets
showcaseInputs == Positions \X SUBSET ShowAssets

\* Every mutation locks the owner's page; handles and publications need an
\* active creator, drafts do not.
mutate(activeOnly) == page /\ (activeOnly => creator = "active")

-----------------------------------------------------------------------------
initialize ==
  /\ ~page
  /\ creator = "active"
  /\ page' = TRUE
  /\ UNCHANGED <<creator, claim, draftVars, revisions, head, projection>>

\* The unique index on normalized handles refuses a handle that is taken.
claimHandle(h) ==
  /\ mutate(TRUE)
  /\ canonical = {}
  /\ claim[h] = "free"
  /\ claim' = [claim EXCEPT ![h] = "canonical"]
  /\ UNCHANGED <<creator, page, draftVars, revisions, head, projection>>

\* Fault model of renameHandle: leaves the discovery projection behind.
renameHandleOnly(h) ==
  /\ mutate(TRUE)
  /\ canonical # {}
  /\ claim[h] = "free"
  /\ claim' = [k \in Handles |-> IF k = h THEN "canonical"
                                 ELSE IF k \in canonical THEN "alias" ELSE claim[k]]
  /\ UNCHANGED <<creator, page, draftVars, revisions, head, projection>>

renameHandle(h) ==
  /\ mutate(TRUE)
  /\ canonical # {}
  /\ claim[h] = "free"
  /\ claim' = [k \in Handles |-> IF k = h THEN "canonical"
                                 ELSE IF k \in canonical THEN "alias" ELSE claim[k]]
  /\ projection' = IF projection = NoProjection THEN NoProjection
                   ELSE [projection EXCEPT !.handle = {h}]
  /\ UNCHANGED <<creator, page, draftVars, revisions, head>>

\* Another creator's page takes the handle.
otherPageClaims(h) ==
  /\ claim[h] = "free"
  /\ claim' = [claim EXCEPT ![h] = "other"]
  /\ UNCHANGED <<creator, page, draftVars, revisions, head, projection>>

\* A suspended creator may still edit the draft.
saveDraft(assets, usable) ==
  /\ mutate(FALSE)
  /\ validateNewMediaReferences(assets, draft, usable)
  /\ draft' = assets
  /\ UNCHANGED <<creator, page, claim, showcase, position, showMedia, revisions, head, projection>>

\* The position must be free or the showcase's own; media is replaced and only
\* what the showcase did not have is validated.
upsertShowcase(s, p, media, usable) ==
  /\ mutate(FALSE)
  /\ showcase[s] \in {"none", "active"}
  /\ \A t \in active \ {s} : position[t] # p
  /\ Cardinality(active \cup {s}) <= Cardinality(Positions)
  /\ validateNewMediaReferences(media, IF showcase[s] = "active" THEN showMedia[s] ELSE {}, usable)
  /\ showcase' = [showcase EXCEPT ![s] = "active"]
  /\ position' = [position EXCEPT ![s] = p]
  /\ showMedia' = [showMedia EXCEPT ![s] = media]
  /\ UNCHANGED <<creator, page, claim, draft, revisions, head, projection>>

removeShowcase(s) ==
  /\ mutate(FALSE)
  /\ s \in active
  /\ showcase' = [showcase EXCEPT ![s] = "removed"]
  /\ UNCHANGED <<creator, page, claim, draft, position, showMedia, revisions, head, projection>>

\* Every active showcase gets the index it has in the command.
reorderShowcases(order) ==
  /\ mutate(FALSE)
  /\ active # {}
  /\ Len(order) = Cardinality(active) /\ {order[i] : i \in DOMAIN order} = active
  /\ position' = [s \in Showcases |->
                    IF s \in active THEN (CHOOSE i \in DOMAIN order : order[i] = s) - 1
                                    ELSE position[s]]
  /\ UNCHANGED <<creator, page, claim, draft, showcase, showMedia, revisions, head, projection>>

\* Every reference of the draft must resolve to a ready asset and no target of
\* the page may be held; the whole draft becomes the next revision.
publish(ready, pageHeld, heldShowcases) ==
  /\ mutate(TRUE)
  /\ canonical # {}
  /\ ~pageHeld /\ active \cap heldShowcases = {}
  /\ exactReadyMap(references.draft, ready)
  /\ Len(revisions) < MaxRevisions
  /\ revisions' = Append(revisions, [profile |-> draft, handle |-> canonical,
                                     shows |-> [s \in active |-> showMedia[s]]])
  /\ head' = Len(revisions) + 1
  /\ projection' = [revision |-> Len(revisions) + 1, handle |-> canonical, enabled |-> TRUE]
  /\ UNCHANGED <<creator, page, claim, draftVars>>

unpublish ==
  /\ mutate(TRUE)
  /\ head # 0
  /\ projection.revision = head
  /\ head' = 0
  /\ projection' = [projection EXCEPT !.enabled = FALSE]
  /\ UNCHANGED <<creator, page, claim, draftVars, revisions>>

\* Called by the transaction that suspends the creator.
clearPublishedHeadForSuspension ==
  /\ creator = "active"
  /\ head # 0 => projection.revision = head
  /\ creator' = "suspended"
  /\ head' = 0
  /\ projection' = [projection EXCEPT !.enabled = FALSE]
  /\ UNCHANGED <<page, claim, draftVars, revisions>>

\* The penalty ends; nothing is republished.
capabilityRestored ==
  /\ creator = "suspended"
  /\ creator' = "active"
  /\ UNCHANGED <<page, claim, draftVars, revisions, head, projection>>

-----------------------------------------------------------------------------
(* The public query.                                                       *)

\* Fault model of visibleShowcases: the query asks for the hold on the page only.
visibleShowcasesAll(heldShowcases) == DOMAIN revisions[head].shows

\* Showcases of the published revision that no hold hides.
visibleShowcases(heldShowcases) == DOMAIN revisions[head].shows \ heldShowcases

\* loadEffectiveBatch: head, projection, handles, capability, holds and media
\* must agree, or the page is not shown.
loadEffective(ready, pageHeld, heldShowcases) ==
  /\ head # 0
  /\ canonical # {}
  /\ \A h \in revisions[head].handle : claim[h] \in {"canonical", "alias"}
  /\ projection.enabled /\ projection.revision = head /\ projection.handle = canonical
  /\ creator = "active"
  /\ ~pageHeld
  /\ revisions[head].profile
       \cup UNION {revisions[head].shows[s] : s \in visibleShowcases(heldShowcases)} \subseteq ready

\* resolvePublicCreator: an alias redirects to the canonical handle.
resolvePublicCreator(h, visible) ==
  IF claim[h] \in {"free", "other"} \/ ~visible THEN "not_found"
  ELSE IF claim[h] = "alias" THEN "redirect" ELSE "visible"

\* The directory and the sitemap list enabled projections whose page is shown.
listPublicCreators(visible) == projection.enabled /\ visible

\* isDerivativePublic: only what the effective page shows is delivered.
isDerivativePublic(a, visible, heldShowcases) ==
  /\ visible
  /\ \/ a \in revisions[head].profile
     \/ \E s \in visibleShowcases(heldShowcases) : a \in revisions[head].shows[s]

-----------------------------------------------------------------------------
CatalogTypeOK ==
  /\ creator \in {"active", "suspended"} /\ page \in BOOLEAN
  /\ claim \in [Handles -> {"free", "canonical", "alias", "other"}]
  /\ draft \subseteq ProfileAssets
  /\ showcase \in [Showcases -> {"none", "active", "removed"}]
  /\ position \in [Showcases -> Positions]
  /\ showMedia \in [Showcases -> SUBSET ShowAssets]
  /\ Len(revisions) <= MaxRevisions /\ head \in 0 .. Len(revisions)

\* The guards of migration 0020: a claim only ever becomes an alias, and only
\* when another canonical claim replaces it; there is one canonical claim;
\* active positions are unique; publication records are append-only.
catalogGuards ==
  /\ \A h \in Handles :
       /\ claim[h] = "other" => claim'[h] = "other"
       /\ claim[h] = "alias" => claim'[h] = "alias"
       /\ (claim[h] = "canonical" /\ claim'[h] # "canonical") =>
            claim'[h] = "alias" /\ \E k \in Handles : claim'[k] = "canonical"
       /\ claim[h] = "free" => claim'[h] # "alias"
  /\ Cardinality(canonical') <= 1
  /\ \A s, t \in active' : s # t => position'[s] # position'[t]
  /\ Cardinality(active') <= Cardinality(Positions)
  /\ SubSeq(revisions', 1, Len(revisions)) = revisions
=============================================================================
