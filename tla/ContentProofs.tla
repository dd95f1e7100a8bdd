---------------------------- MODULE ContentProofs -----------------------------
(***************************************************************************)
(* Proofs about what users store: Storefront with its page, media, reports *)
(* and cleanup, and CommissionFiles.                                       *)
(*                                                                         *)
(* StoreInv has a part per table and four that join them.  HeadIsShown:    *)
(* the published revision, its projection, its claims and its media        *)
(* agree.  DraftMediaKept: the draft refers to no deleted asset.           *)
(* CleanupSpares: between the last check of the cleanup and its commit,    *)
(* the asset it takes is neither in the draft nor published nor evidence,  *)
(* because whoever could make it so waits for the page lock.               *)
(* EvidenceKept: what a report in triage points at is a revision with its  *)
(* media ready.                                                            *)
(*                                                                         *)
(* WorkInv is about the processing of media: the numbers of attempts tell  *)
(* the workers of an asset apart, and whoever holds the lock of the job    *)
(* runs the latest attempt.                                                *)
(*                                                                         *)
(* FileInv says what a scan, the copy intent and a purge know of the row   *)
(* of a private file: a scan within its fence has the file to itself, no   *)
(* copy is in transit without an intent or after the closure period, and   *)
(* what a purge read of a terminal row still holds when it marks the row.  *)
(***************************************************************************)
EXTENDS MCContent, FiniteSetTheorems, SequenceTheorems, TLAPS

Claims == {"free", "canonical", "alias", "other"}
Revision ==
  [profile : SUBSET ProfileAssets, handle : SUBSET Handles,
   shows : UNION {[S -> SUBSET ShowAssets] : S \in SUBSET Showcases}]

CatalogRows ==
  /\ claim \in [Handles -> Claims]
  /\ showcase \in [Showcases -> {"none", "active", "removed"}]
  /\ showMedia \in [Showcases -> SUBSET ShowAssets]
  /\ position = [s \in Showcases |-> position[s]]
  /\ draft \subseteq ProfileAssets
  /\ revisions \in Seq(Revision) /\ head \in 0 .. Len(revisions)

OneCanonical == \A h, k \in canonical : h = k
PositionsDiffer ==
  /\ \A s, t \in active : s # t => position[s] # position[t]
  /\ Cardinality(active) <= Cardinality(Positions)

\* Published head, projection, claims and media agree.
HeadIsShown ==
  head # 0 =>
    /\ creator = "active" /\ canonical # {}
    /\ \A h \in revisions[head].handle : claim[h] \in {"canonical", "alias"}
    /\ projection = [revision |-> head, handle |-> canonical, enabled |-> TRUE]
    /\ revisionAssets(head) \subseteq resolveReadyAssets

Derivatives == {"ready_unreferenced", "superseded_derivative"}
CleanupRows ==
  /\ asset \in [Assets -> AssetStates]
  /\ cleanup = NoCleanup \/ cleanup \in [stage : {"claimed", "checked"}, asset : Assets, rule : Rules]

\* The draft refers to uploads of the owner.
DraftOwned == references.draft \subseteq Assets

\* What the cleanup is about to delete is used by nobody.
CleanupSpares ==
  (cleanup.stage = "checked" /\ cleanup.rule \in Derivatives) =>
    cleanup.asset \notin references.draft \cup references.live \cup protectedAssetIds

Filed == [state : {"open", "dismissed", "held", "closed"}, target : Showcases \cup {"page"},
          revision : Nat, requester : Guests \cup Actors]

\* Reports are numbered in order, and a hold goes with its report.
ReportRows ==
  /\ report \in [Reports -> {NoReport} \cup Filed]
  /\ hold \in [Reports -> {"none", "active", "released"}]
  /\ \E n \in Nat : filed = 1 .. n
  /\ \A r \in Reports : /\ hold[r] = "active" <=> report[r].state = "held"
                        /\ hold[r] = "released" <=> report[r].state = "closed"

\* The reports whose media is evidence.
Evident(r) == report[r].state = "open" \/ hold[r] = "active"
EvidenceKept ==
  \A r \in Reports : Evident(r) =>
    /\ report[r].revision \in DOMAIN revisions
    /\ targetAssets(report[r].target, report[r].revision) \subseteq resolveReadyAssets

CatalogInv == CatalogRows /\ OneCanonical /\ PositionsDiffer
StoreInv ==
  /\ CatalogInv /\ HeadIsShown /\ DraftOwned /\ DraftMediaKept
  /\ CleanupRows /\ CleanupSpares /\ ReportRows /\ EvidenceKept
---------------------------------------------------------------------------
(* The page.                                                                *)

\* A revision is appended; the ones before it stay.
LEMMA Appended ==
  ASSUME NEW S, NEW q \in Seq(S), NEW e \in S
  PROVE  /\ Append(q, e) \in Seq(S) /\ Len(Append(q, e)) = Len(q) + 1 /\ Len(q) \in Nat
         /\ Append(q, e)[Len(q) + 1] = e
         /\ \A i \in 1 .. Len(q) : Append(q, e)[i] = q[i]
         /\ DOMAIN q = 1 .. Len(q) /\ DOMAIN Append(q, e) = 1 .. Len(q) + 1
         /\ SubSeq(Append(q, e), 1, Len(q)) = q
<1>1. /\ Append(q, e) \in Seq(S) /\ Len(Append(q, e)) = Len(q) + 1
      /\ \A i \in 1 .. Len(q) : Append(q, e)[i] = q[i]
      /\ Append(q, e)[Len(q) + 1] = e
  BY AppendProperties
<1>2. Len(q) \in Nat /\ DOMAIN q = 1 .. Len(q)
  BY LenProperties
<1>3. DOMAIN Append(q, e) = 1 .. Len(q) + 1
  BY <1>1, LenProperties
<1> DEFINE a == Append(q, e)
           n == Len(q)
           t == SubSeq(a, 1, n)
<1>4. \A i \in 1 .. n : a[i] \in S
  BY <1>1, <1>2, ElementOfSeq
<1> HIDE DEF a
<1>5. /\ t \in Seq(S)
      /\ Len(t) = IF 1 <= n THEN n - 1 + 1 ELSE 0
      /\ \A i \in 1 .. n - 1 + 1 : t[i] = a[1 + i - 1]
  <2>1. n \in Int /\ 1 \in Int
    BY <1>2
  <2> HIDE DEF n
  <2> QED
    BY <1>4, <2>1, SubSeqProperties
<1>6. Len(t) = n /\ \A i \in 1 .. n : t[i] = q[i]
  <2>1. Len(t) = n
    BY <1>2, <1>5
  <2>2. ASSUME NEW i \in 1 .. n PROVE t[i] = q[i]
    <3>1. i \in 1 .. n - 1 + 1 /\ 1 + i - 1 = i /\ i \in 1 .. Len(q)
      BY <1>2
    <3>2. t[i] = a[i]
      BY <1>5, <3>1
    <3> QED
      BY <1>1, <3>1, <3>2 DEF a
  <2> QED
    BY <2>1, <2>2
<1>7. t = q
  BY <1>5, <1>6, SeqEqual
<1> QED
  BY <1>1, <1>2, <1>3, <1>7 DEF a

\* Evidence outlives every step that takes no media and no revision away.
LEMMA EvidenceStays ==
  ASSUME EvidenceKept, UNCHANGED <<report, hold>>, resolveReadyAssets \subseteq resolveReadyAssets',
         \A n \in DOMAIN revisions : n \in DOMAIN revisions' /\ revisions'[n] = revisions[n]
  PROVE  EvidenceKept'
<1> SUFFICES ASSUME NEW r \in Reports, Evident(r)
             PROVE  /\ report[r].revision \in DOMAIN revisions'
                    /\ targetAssets(report[r].target, report[r].revision)' \subseteq resolveReadyAssets'
  BY DEF EvidenceKept, Evident
<1>1. /\ report[r].revision \in DOMAIN revisions
      /\ targetAssets(report[r].target, report[r].revision) \subseteq resolveReadyAssets
  BY DEF EvidenceKept
<1>2. revisions'[report[r].revision] = revisions[report[r].revision]
  BY <1>1
<1>3. targetAssets(report[r].target, report[r].revision)' = targetAssets(report[r].target, report[r].revision)
  BY <1>2 DEF targetAssets, revisionAssets
<1> QED
  BY <1>1, <1>3

\* A published page whose tables stay as they are.
LEMMA ShownStays ==
  ASSUME HeadIsShown, UNCHANGED <<creator, claim, revisions, head, projection>>,
         resolveReadyAssets \subseteq resolveReadyAssets'
  PROVE  HeadIsShown'
BY DEF HeadIsShown, canonical, revisionAssets

\* One canonical claim is at most one element.
LEMMA CanonicalOnce ==
  ASSUME OneCanonical PROVE Cardinality(canonical) <= 1
<1>1. CASE canonical = {}
  <2>1. Cardinality({}) = 0
    BY FS_EmptySet
  <2> QED
    BY <1>1, <2>1
<1>2. CASE canonical # {}
  <2>1. PICK k : canonical = {k}
    BY <1>2 DEF OneCanonical
  <2>2. Cardinality({k}) = 1
    BY FS_Singleton
  <2> QED
    BY <2>1, <2>2
<1> QED
  BY <1>1, <1>2

\* Commands that leave the claims alone: the rest of what the triggers ask.
LEMMA GuardsOfPage ==
  ASSUME OneCanonical, PositionsDiffer', claim \in [Handles -> Claims], UNCHANGED claim,
         SubSeq(revisions', 1, Len(revisions)) = revisions
  PROVE  catalogGuards /\ OneCanonical'
<1>1. OneCanonical' /\ canonical' = canonical
  BY DEF OneCanonical, canonical
<1>2. Cardinality(canonical') <= 1
  BY <1>1, CanonicalOnce
<1>3. \A h \in Handles : claim'[h] = claim[h]
  OBVIOUS
<1>4. \A s, t \in active' : s # t => position'[s] # position'[t]
  BY DEF PositionsDiffer
<1>5. Cardinality(active') <= Cardinality(Positions)
  BY DEF PositionsDiffer
<1> HIDE DEF canonical
<1>6. \A h \in Handles :
       /\ claim[h] = "other" => claim'[h] = "other"
       /\ claim[h] = "alias" => claim'[h] = "alias"
       /\ (claim[h] = "canonical" /\ claim'[h] # "canonical") =>
            claim'[h] = "alias" /\ \E k \in Handles : claim'[k] = "canonical"
       /\ claim[h] = "free" => claim'[h] # "alias"
  BY <1>3
<1> QED
  BY <1>1, <1>2, <1>4, <1>5, <1>6 DEF catalogGuards

\* Commands on handles.
LEMMA HandleStep ==
  ASSUME CatalogInv, HeadIsShown, NEW h \in Handles, claimHandle(h) \/ renameHandle(h) \/ otherPageClaims(h), UNCHANGED asset
  PROVE  /\ CatalogInv' /\ HeadIsShown' /\ catalogGuards
         /\ UNCHANGED <<revisions, head, draft, showcase, showMedia>>
<1>t. /\ claim \in [Handles -> Claims] /\ revisions \in Seq(Revision) /\ head \in 0 .. Len(revisions)
      /\ Cardinality(active) <= Cardinality(Positions)
      /\ \A s, t \in active : s # t => position[s] # position[t]
  BY DEF CatalogInv, CatalogRows, PositionsDiffer
<1>0. UNCHANGED <<creator, revisions, head, draft, showcase, position, showMedia>> /\ claim[h] = "free"
  BY DEF claimHandle, renameHandle, otherPageClaims, draftVars
\* The new canonical claims are the old ones or the handle alone.
<1>1. /\ claim' \in [Handles -> Claims]
      /\ \A k \in Handles : k # h => claim'[k] = claim[k] \/ (claim[k] = "canonical" /\ claim'[k] = "alias")
      /\ claim'[h] # "alias"
      /\ \/ canonical' = canonical /\ UNCHANGED projection /\ claim'[h] = "other"
         \/ canonical' = {h} /\ canonical = {} /\ UNCHANGED projection
         \/ canonical' = {h} /\ projection' = IF projection = NoProjection THEN NoProjection
                                              ELSE [projection EXCEPT !.handle = {h}]
      /\ \A k \in Handles : claim[k] = "canonical" /\ claim'[k] # "canonical" => claim'[k] = "alias" /\ canonical' = {h}
  <2>1. CASE claimHandle(h)
    <3>1. claim' = [claim EXCEPT ![h] = "canonical"] /\ canonical = {} /\ UNCHANGED projection
      BY <2>1 DEF claimHandle
    <3>2. canonical' = {h}
      BY <3>1, <1>t DEF canonical
    <3> QED
      BY <3>1, <3>2, <1>t, <1>0 DEF Claims, canonical
  <2>2. CASE renameHandle(h)
    <3>1. /\ claim' = [k \in Handles |-> IF k = h THEN "canonical"
                                         ELSE IF k \in canonical THEN "alias" ELSE claim[k]]
          /\ projection' = IF projection = NoProjection THEN NoProjection ELSE [projection EXCEPT !.handle = {h}]
      BY <2>2 DEF renameHandle
    <3>2. canonical' = {h}
      BY <3>1, <1>t DEF canonical
    <3>3. claim' \in [Handles -> Claims]
      BY <3>1, <1>t DEF Claims
    <3> QED
      BY <3>1, <3>2, <3>3, <1>t DEF canonical
  <2>3. CASE otherPageClaims(h)
    <3>1. claim' = [claim EXCEPT ![h] = "other"] /\ UNCHANGED projection
      BY <2>3 DEF otherPageClaims
    <3>2. canonical' = canonical
      BY <3>1, <1>t, <1>0 DEF canonical
    <3>3. \A k \in Handles : k # h => claim'[k] = claim[k]
      BY <3>1, <1>t
    <3>4. claim' \in [Handles -> Claims] /\ claim'[h] = "other"
      BY <3>1, <1>t DEF Claims
    <3> QED
      BY <3>1, <3>2, <3>3, <3>4, <1>0
  <2> QED
    BY <2>1, <2>2, <2>3
<1>2. CatalogRows' /\ PositionsDiffer'
  BY <1>0, <1>1 DEF CatalogInv, CatalogRows, PositionsDiffer, active
<1>3. OneCanonical'
  BY <1>1 DEF CatalogInv, OneCanonical
<1>4. HeadIsShown'
  <2> SUFFICES ASSUME head # 0
               PROVE  /\ creator = "active" /\ canonical' # {}
                      /\ \A k \in revisions[head].handle : claim'[k] \in {"canonical", "alias"}
                      /\ projection' = [revision |-> head, handle |-> canonical', enabled |-> TRUE]
                      /\ revisionAssets(head) \subseteq resolveReadyAssets
    BY <1>0 DEF HeadIsShown, revisionAssets, resolveReadyAssets
  <2>1. /\ creator = "active" /\ canonical # {}
        /\ \A k \in revisions[head].handle : claim[k] \in {"canonical", "alias"}
        /\ projection = [revision |-> head, handle |-> canonical, enabled |-> TRUE]
        /\ revisionAssets(head) \subseteq resolveReadyAssets
    BY DEF HeadIsShown
  <2>2. revisions[head].handle \subseteq Handles
    <3>1. revisions[head] \in Revision
      BY <1>t, ElementOfSeq
    <3> QED
      BY <3>1 DEF Revision
  <2>3. \A k \in revisions[head].handle : claim'[k] \in {"canonical", "alias"}
    BY <2>1, <2>2, <1>0, <1>1
  <2>4. projection # NoProjection
    BY <2>1 DEF NoProjection
  <2>5. projection' = [revision |-> head, handle |-> canonical', enabled |-> TRUE]
    BY <2>1, <2>4, <1>1
  <2> QED
    BY <2>1, <2>3, <2>5, <1>1
<1>5. Cardinality(canonical') <= 1
  <2>1. CASE canonical' = {}
    <3>1. Cardinality({}) = 0
      BY FS_EmptySet
    <3> QED
      BY <2>1, <3>1
  <2>2. CASE canonical' # {}
    <3>1. PICK k : canonical' = {k}
      BY <2>2, <1>3 DEF OneCanonical
    <3>2. Cardinality({k}) = 1
      BY FS_Singleton
    <3> QED
      BY <3>1, <3>2
  <2> QED
    BY <2>1, <2>2
<1>6. SubSeq(revisions', 1, Len(revisions)) = revisions
  BY <1>0, <1>t, SubSeqFull
<1>7. catalogGuards
  <2>1. ASSUME NEW k \in Handles
        PROVE  /\ claim[k] = "other" => claim'[k] = "other"
               /\ claim[k] = "alias" => claim'[k] = "alias"
               /\ (claim[k] = "canonical" /\ claim'[k] # "canonical") =>
                    claim'[k] = "alias" /\ \E j \in Handles : claim'[j] = "canonical"
               /\ claim[k] = "free" => claim'[k] # "alias"
    <3>1. canonical' = {h} => claim'[h] = "canonical"
      BY DEF canonical
    <3> QED
      BY <3>1, <1>0, <1>1
  <2>2. /\ \A s, t \in active' : s # t => position'[s] # position'[t]
        /\ Cardinality(active') <= Cardinality(Positions)
    BY <1>0, <1>t DEF active
  <2> QED
    BY <2>1, <2>2, <1>5, <1>6 DEF catalogGuards
<1> QED
  BY <1>0, <1>2, <1>3, <1>4, <1>7 DEF CatalogInv

\* Commands on the draft: the published page does not move.
LEMMA DraftStep ==
  ASSUME CatalogInv, HeadIsShown, DraftOwned, DraftMediaKept, IsFiniteSet(Showcases), UNCHANGED asset,
         \/ \E assets \in draftInputs : saveDraft(assets, resolveOwnedAssets)
         \/ \E s \in Showcases, i \in showcaseInputs : upsertShowcase(s, i[1], i[2], resolveOwnedAssets)
         \/ \E s \in Showcases : removeShowcase(s)
         \/ \E arranged \in [1 .. Cardinality(active) -> active] : reorderShowcases(arranged)
  PROVE  /\ CatalogInv' /\ HeadIsShown' /\ DraftOwned' /\ DraftMediaKept' /\ catalogGuards
         /\ UNCHANGED <<revisions, head>>
<1>t. /\ claim \in [Handles -> Claims] /\ revisions \in Seq(Revision) /\ head \in 0 .. Len(revisions)
      /\ showcase \in [Showcases -> {"none", "active", "removed"}]
      /\ showMedia \in [Showcases -> SUBSET ShowAssets]
      /\ position = [s \in Showcases |-> position[s]]
      /\ draft \subseteq ProfileAssets
      /\ \A s, t \in active : s # t => position[s] # position[t]
      /\ Cardinality(active) <= Cardinality(Positions)
      /\ OneCanonical
  BY DEF CatalogInv, CatalogRows, PositionsDiffer
<1>o. /\ \A a \in draft : a \in Assets /\ asset[a] # "deleted"
      /\ \A s \in active : \A a \in showMedia[s] : a \in Assets /\ asset[a] # "deleted"
  BY DEF DraftOwned, DraftMediaKept, references
<1>u. \A a \in resolveOwnedAssets : a \in Assets /\ asset[a] # "deleted"
  BY DEF resolveOwnedAssets
<1>f. IsFiniteSet(active) /\ IsFiniteSet(active')
  <2>1. active \subseteq Showcases /\ active' \subseteq Showcases
    BY DEF active
  <2> QED
    BY <2>1, FS_Subset
\* What a command on the draft leaves to show.
<1> DEFINE Goal ==
      /\ UNCHANGED <<creator, claim, revisions, head, projection>>
      /\ showcase' \in [Showcases -> {"none", "active", "removed"}]
      /\ showMedia' \in [Showcases -> SUBSET ShowAssets]
      /\ position' = [s \in Showcases |-> position'[s]]
      /\ draft' \subseteq ProfileAssets
      /\ \A s, t \in active' : s # t => position'[s] # position'[t]
      /\ Cardinality(active') <= Cardinality(Positions)
      /\ \A a \in draft' : a \in Assets /\ asset[a] # "deleted"
      /\ \A s \in active' : \A a \in showMedia'[s] : a \in Assets /\ asset[a] # "deleted"
<1>1. ASSUME NEW assets \in draftInputs, saveDraft(assets, resolveOwnedAssets) PROVE Goal
  <2>1. /\ draft' = assets /\ assets \ draft \subseteq resolveOwnedAssets /\ assets \subseteq ProfileAssets
        /\ UNCHANGED <<creator, claim, showcase, position, showMedia, revisions, head, projection>>
    BY <1>1 DEF saveDraft, validateNewMediaReferences, exactOwnedMap, draftInputs
  <2>2. active' = active
    BY <2>1 DEF active
  <2>3. \A a \in draft' : a \in Assets /\ asset[a] # "deleted"
    BY <2>1, <1>o, <1>u
  <2> QED
    BY <2>1, <2>2, <2>3, <1>t, <1>o
<1>2. ASSUME NEW s \in Showcases, NEW i \in showcaseInputs, upsertShowcase(s, i[1], i[2], resolveOwnedAssets) PROVE Goal
  <2> DEFINE p == i[1]
             media == i[2]
  <2>1. /\ media \subseteq ShowAssets
        /\ \A t \in active \ {s} : position[t] # p
        /\ Cardinality(active \cup {s}) <= Cardinality(Positions)
        /\ media \ (IF showcase[s] = "active" THEN showMedia[s] ELSE {}) \subseteq resolveOwnedAssets
        /\ showcase' = [showcase EXCEPT ![s] = "active"]
        /\ position' = [position EXCEPT ![s] = p]
        /\ showMedia' = [showMedia EXCEPT ![s] = media]
        /\ UNCHANGED <<creator, claim, draft, revisions, head, projection>>
    BY <1>2 DEF upsertShowcase, validateNewMediaReferences, exactOwnedMap, showcaseInputs
  <2> HIDE DEF p, media
  <2>2. active' = active \cup {s}
    BY <2>1, <1>t DEF active
  <2>3. /\ position'[s] = p /\ showMedia'[s] = media
        /\ \A t \in Showcases : t # s => position'[t] = position[t] /\ showMedia'[t] = showMedia[t]
    BY <2>1, <1>t
  <2>4. \A t \in active : t \in Showcases
    BY DEF active
  <2>5. \A t, q \in active' : t # q => position'[t] # position'[q]
    <3> SUFFICES ASSUME NEW t \in active', NEW q \in active', t # q PROVE position'[t] # position'[q]
      OBVIOUS
    <3>1. CASE t = s
      BY <3>1, <2>1, <2>2, <2>3, <2>4
    <3>2. CASE q = s
      BY <3>2, <2>1, <2>2, <2>3, <2>4
    <3>3. CASE t # s /\ q # s
      <4>1. t \in active /\ q \in active
        BY <3>3, <2>2
      <4> QED
        BY <3>3, <4>1, <2>3, <2>4, <1>t
    <3> QED
      BY <3>1, <3>2, <3>3
  <2>6. \A a \in media : a \in Assets /\ asset[a] # "deleted"
    <3>1. CASE showcase[s] = "active"
      <4>1. s \in active
        BY <3>1 DEF active
      <4> QED
        BY <3>1, <4>1, <2>1, <1>o, <1>u
    <3>2. CASE showcase[s] # "active"
      BY <3>2, <2>1, <1>u
    <3> QED
      BY <3>1, <3>2
  <2>7. \A t \in active' : \A a \in showMedia'[t] : a \in Assets /\ asset[a] # "deleted"
    BY <2>2, <2>3, <2>4, <2>6, <1>o
  <2>8. /\ showcase' \in [Showcases -> {"none", "active", "removed"}]
        /\ showMedia' \in [Showcases -> SUBSET ShowAssets]
        /\ position' = [t \in Showcases |-> position'[t]]
    BY <2>1, <1>t
  <2> QED
    BY <2>1, <2>2, <2>5, <2>7, <2>8, <1>o, <1>t
<1>3. ASSUME NEW s \in Showcases, removeShowcase(s) PROVE Goal
  <2>1. /\ showcase' = [showcase EXCEPT ![s] = "removed"]
        /\ UNCHANGED <<creator, claim, draft, position, showMedia, revisions, head, projection>>
    BY <1>3 DEF removeShowcase
  <2>2. active' \subseteq active
    BY <2>1, <1>t DEF active
  <2>3. Cardinality(active') <= Cardinality(active) /\ Cardinality(active') \in Nat /\ Cardinality(active) \in Nat
    BY <2>2, <1>f, FS_Subset, FS_CardinalityType
  <2>4. Cardinality(active') <= Cardinality(Positions)
    BY <2>3, <1>t, CatalogAssumption, FS_CardinalityType
  <2>5. showcase' \in [Showcases -> {"none", "active", "removed"}]
    BY <2>1, <1>t
  <2> QED
    BY <2>1, <2>2, <2>4, <2>5, <1>t, <1>o
<1>4. ASSUME NEW arranged \in [1 .. Cardinality(active) -> active], reorderShowcases(arranged) PROVE Goal
  <2>1. /\ {arranged[i] : i \in DOMAIN arranged} = active
        /\ position' = [s \in Showcases |->
                          IF s \in active THEN (CHOOSE i \in DOMAIN arranged : arranged[i] = s) - 1 ELSE position[s]]
        /\ UNCHANGED <<creator, claim, draft, showcase, showMedia, revisions, head, projection>>
    BY <1>4 DEF reorderShowcases
  <2>2. active' = active /\ active \subseteq Showcases
    BY <2>1 DEF active
  <2> DEFINE at(s) == CHOOSE i \in DOMAIN arranged : arranged[i] = s
  <2>3. \A s \in active : at(s) \in DOMAIN arranged /\ arranged[at(s)] = s
    BY <2>1
  <2>4. \A s \in active : position'[s] = at(s) - 1
    BY <2>1, <2>2
  <2>5. DOMAIN arranged \subseteq Int
    BY <1>f, FS_CardinalityType
  <2> HIDE DEF at
  <2>6. \A s, t \in active' : s # t => position'[s] # position'[t]
    BY <2>2, <2>3, <2>4, <2>5
  <2>7. position' = [s \in Showcases |-> position'[s]]
    BY <2>1
  <2> QED
    BY <2>1, <2>2, <2>6, <2>7, <1>t, <1>o
<1>5. Goal
  BY <1>1, <1>2, <1>3, <1>4
<1>6. CatalogRows' /\ PositionsDiffer' /\ DraftOwned' /\ DraftMediaKept'
  BY <1>5, <1>t DEF CatalogRows, PositionsDiffer, DraftOwned, DraftMediaKept, references
<1>7. resolveReadyAssets' = resolveReadyAssets
  BY DEF resolveReadyAssets
<1>8. HeadIsShown'
  BY <1>5, <1>7, ShownStays
<1>9. SubSeq(revisions', 1, Len(revisions)) = revisions
  BY <1>5, <1>t, SubSeqFull
<1>10. catalogGuards /\ OneCanonical'
  BY <1>5, <1>6, <1>9, <1>t, GuardsOfPage
<1> QED
  BY <1>5, <1>6, <1>8, <1>10 DEF CatalogInv

\* The whole draft becomes the next revision, its media ready.
LEMMA PublishStep ==
  ASSUME CatalogInv, DraftOwned, DraftMediaKept, UNCHANGED asset,
         publish(resolveReadyAssets, pageHeld, heldShowcases)
  PROVE  /\ CatalogInv' /\ HeadIsShown' /\ DraftOwned' /\ DraftMediaKept' /\ catalogGuards
         /\ \A n \in DOMAIN revisions : n \in DOMAIN revisions' /\ revisions'[n] = revisions[n]
         /\ head' \notin {head, 0} /\ DOMAIN revisions'[head'].shows = active
         /\ ~pageHeld /\ active \cap heldShowcases = {}
<1>t. /\ claim \in [Handles -> Claims] /\ revisions \in Seq(Revision) /\ head \in 0 .. Len(revisions)
      /\ showMedia \in [Showcases -> SUBSET ShowAssets]
      /\ draft \subseteq ProfileAssets /\ OneCanonical
  BY DEF CatalogInv, CatalogRows
<1> DEFINE e == [profile |-> draft, handle |-> canonical, shows |-> [s \in active |-> showMedia[s]]]
           n == Len(revisions) + 1
<1>1. /\ creator = "active" /\ canonical # {} /\ ~pageHeld /\ active \cap heldShowcases = {}
      /\ references.draft \subseteq resolveReadyAssets
      /\ revisions' = Append(revisions, e) /\ head' = n
      /\ projection' = [revision |-> n, handle |-> canonical, enabled |-> TRUE]
      /\ UNCHANGED <<creator, page, claim, draft, showcase, position, showMedia>>
  BY DEF publish, mutate, exactReadyMap, draftVars
<1>2. active \subseteq Showcases /\ canonical \subseteq Handles
  BY DEF active, canonical
<1>3. e \in Revision
  <2>1. [s \in active |-> showMedia[s]] \in [active -> SUBSET ShowAssets]
    BY <1>2, <1>t
  <2>2. [s \in active |-> showMedia[s]] \in UNION {[S -> SUBSET ShowAssets] : S \in SUBSET Showcases}
    BY <2>1, <1>2
  <2> QED
    BY <2>2, <1>2, <1>t DEF Revision
<1>e. /\ e.profile = draft /\ e.handle = canonical /\ e.shows = [s \in active |-> showMedia[s]]
      /\ DOMAIN e.shows = active /\ \A s \in active : e.shows[s] = showMedia[s]
  OBVIOUS
<1>l. Len(revisions) \in Nat
  BY <1>t, LenProperties
<1> HIDE DEF e
<1>4. /\ revisions' \in Seq(Revision) /\ Len(revisions') = n /\ revisions'[n] = e
      /\ \A i \in 1 .. Len(revisions) : revisions'[i] = revisions[i]
      /\ DOMAIN revisions = 1 .. Len(revisions) /\ DOMAIN revisions' = 1 .. n
      /\ SubSeq(revisions', 1, Len(revisions)) = revisions
  BY <1>1, <1>3, <1>t, Appended
<1>5. active' = active /\ canonical' = canonical
  BY <1>1 DEF active, canonical
<1>6. CatalogRows' /\ PositionsDiffer'
  <2>1. head' \in 0 .. Len(revisions')
    BY <1>1, <1>4, <1>l
  <2>2. revisions' \in Seq(Revision)
    BY <1>4
  <2> QED
    BY <1>1, <1>5, <2>1, <2>2 DEF CatalogInv, CatalogRows, PositionsDiffer
<1>7. DraftOwned' /\ DraftMediaKept'
  BY <1>1, <1>5 DEF DraftOwned, DraftMediaKept, references
<1>8. HeadIsShown'
  <2>1. revisions'[head'] = e
    BY <1>1, <1>4
  <2>2. revisionAssets(head)' = e.profile \cup UNION {e.shows[s] : s \in DOMAIN e.shows}
    BY <2>1 DEF revisionAssets
  <2>3. revisionAssets(head)' \subseteq references.draft
    BY <2>2, <1>e DEF references
  <2>4. resolveReadyAssets' = resolveReadyAssets
    BY DEF resolveReadyAssets
  <2>5. \A h \in canonical : claim'[h] = "canonical"
    BY <1>1 DEF canonical
  <2>6. projection' = [revision |-> head', handle |-> canonical', enabled |-> TRUE]
    BY <1>1, <1>5
  <2> QED
    BY <1>1, <1>5, <1>e, <2>1, <2>3, <2>4, <2>5, <2>6 DEF HeadIsShown
<1>9. catalogGuards /\ OneCanonical'
  BY <1>1, <1>4, <1>6, <1>t, GuardsOfPage
<1>10. head' \notin {head, 0}
  BY <1>1, <1>l, <1>t
<1>11. \A i \in DOMAIN revisions : i \in DOMAIN revisions' /\ revisions'[i] = revisions[i]
  BY <1>4, <1>l
<1>12. DOMAIN revisions'[head'].shows = active
  BY <1>1, <1>4, <1>e
<1> QED
  BY <1>1, <1>6, <1>7, <1>8, <1>9, <1>10, <1>11, <1>12 DEF CatalogInv

\* Opening the page, withdrawing it, suspension and its end: nothing is published.
LEMMA HeadStep ==
  ASSUME CatalogInv, HeadIsShown, DraftOwned, DraftMediaKept, UNCHANGED asset,
         initialize \/ unpublish \/ clearPublishedHeadForSuspension \/ capabilityRestored
  PROVE  /\ CatalogInv' /\ HeadIsShown' /\ DraftOwned' /\ DraftMediaKept' /\ catalogGuards
         /\ UNCHANGED revisions /\ head' \in {head, 0}
<1>t. /\ claim \in [Handles -> Claims] /\ revisions \in Seq(Revision) /\ head \in 0 .. Len(revisions) /\ OneCanonical
  BY DEF CatalogInv, CatalogRows
<1>l. Len(revisions) \in Nat
  BY <1>t, LenProperties
<1>1. /\ UNCHANGED <<claim, draft, showcase, position, showMedia, revisions>> /\ head' \in {head, 0}
  BY DEF initialize, unpublish, clearPublishedHeadForSuspension, capabilityRestored, draftVars
<1>2. active' = active
  BY <1>1 DEF active
<1>3. CatalogRows' /\ PositionsDiffer'
  BY <1>1, <1>2, <1>l DEF CatalogInv, CatalogRows, PositionsDiffer
<1>4. DraftOwned' /\ DraftMediaKept'
  BY <1>1, <1>2 DEF DraftOwned, DraftMediaKept, references
<1>5. HeadIsShown'
  <2>1. CASE head' = 0
    BY <2>1 DEF HeadIsShown
  <2>2. CASE head' # 0
    <3>1. head # 0 /\ head' = head
      BY <2>2, <1>1
    <3>2. creator = "active"
      BY <3>1 DEF HeadIsShown
    <3>3. UNCHANGED <<creator, projection>>
      BY <2>2, <3>2 DEF initialize, unpublish, clearPublishedHeadForSuspension, capabilityRestored
    <3>4. resolveReadyAssets' = resolveReadyAssets
      BY DEF resolveReadyAssets
    <3> QED
      BY <3>1, <3>3, <3>4, <1>1, ShownStays
  <2> QED
    BY <2>1, <2>2
<1>6. SubSeq(revisions', 1, Len(revisions)) = revisions
  BY <1>1, <1>t, SubSeqFull
<1>7. catalogGuards /\ OneCanonical'
  BY <1>1, <1>3, <1>6, <1>t, GuardsOfPage
<1> QED
  BY <1>1, <1>3, <1>4, <1>5, <1>7 DEF CatalogInv

\* Every step of the page.  A revision that becomes the head has no held target.
LEMMA CatalogStep ==
  ASSUME CatalogInv, HeadIsShown, DraftOwned, DraftMediaKept, EvidenceKept, catalogStep
  PROVE  /\ CatalogInv' /\ HeadIsShown' /\ DraftOwned' /\ DraftMediaKept' /\ catalogGuards /\ EvidenceKept'
         /\ head' \notin {head, 0} =>
              /\ ~pageHeld
              /\ DOMAIN revisions'[head'].shows \cap heldShowcases = {}
<1>0. UNCHANGED <<asset, report, hold>> /\ resolveReadyAssets' = resolveReadyAssets
  BY DEF catalogStep, mediaVars, reportVars, resolveReadyAssets
<1> DEFINE Goal == /\ CatalogInv' /\ HeadIsShown' /\ DraftOwned' /\ DraftMediaKept' /\ catalogGuards
                   /\ \A n \in DOMAIN revisions : n \in DOMAIN revisions' /\ revisions'[n] = revisions[n]
                   /\ head' \notin {head, 0} =>
                        /\ ~pageHeld
                        /\ DOMAIN revisions'[head'].shows \cap heldShowcases = {}
<1>1. ASSUME NEW h \in Handles, claimHandle(h) \/ renameHandle(h) \/ otherPageClaims(h) PROVE Goal
  <2>1. /\ CatalogInv' /\ HeadIsShown' /\ catalogGuards
        /\ UNCHANGED <<revisions, head, draft, showcase, showMedia>>
    BY <1>0, <1>1, HandleStep
  <2>2. DraftOwned' /\ DraftMediaKept'
    BY <1>0, <2>1 DEF DraftOwned, DraftMediaKept, references, active
  <2> QED
    BY <2>1, <2>2
<1>2. ASSUME \/ \E assets \in draftInputs : saveDraft(assets, resolveOwnedAssets)
             \/ \E s \in Showcases, i \in showcaseInputs : upsertShowcase(s, i[1], i[2], resolveOwnedAssets)
             \/ \E s \in Showcases : removeShowcase(s)
             \/ \E arranged \in [1 .. Cardinality(active) -> active] : reorderShowcases(arranged)
      PROVE  Goal
  <2>1. /\ CatalogInv' /\ HeadIsShown' /\ DraftOwned' /\ DraftMediaKept' /\ catalogGuards
        /\ UNCHANGED <<revisions, head>>
    BY <1>0, <1>2, DraftStep, CatalogAssumption
  <2> QED
    BY <2>1
<1>3. ASSUME publish(resolveReadyAssets, pageHeld, heldShowcases) PROVE Goal
  BY <1>0, <1>3, PublishStep
<1>4. ASSUME initialize \/ unpublish \/ clearPublishedHeadForSuspension \/ capabilityRestored PROVE Goal
  <2>1. /\ CatalogInv' /\ HeadIsShown' /\ DraftOwned' /\ DraftMediaKept' /\ catalogGuards
        /\ UNCHANGED revisions /\ head' \in {head, 0}
    BY <1>0, <1>4, HeadStep
  <2> QED
    BY <2>1
<1> HIDE DEF Goal
<1>5. Goal
  BY <1>1, <1>2, <1>3, <1>4 DEF catalogStep, creatorCommands, otherCatalogSteps
<1>6. EvidenceKept'
  BY <1>0, <1>5, EvidenceStays DEF Goal
<1> QED
  BY <1>5, <1>6 DEF Goal
---------------------------------------------------------------------------
(* Media and cleanup.                                                       *)

\* Uploads and workers take no asset that is ready away and delete none.
LEMMA MediaStep ==
  ASSUME asset \in [Assets -> AssetStates], uploadStep \/ workerStep
  PROVE  /\ asset' \in [Assets -> AssetStates] /\ UNCHANGED <<cleanup, catalogVars, reportVars>>
         /\ \A a \in Assets : /\ asset[a] = "ready" => asset'[a] = "ready"
                              /\ asset[a] # "deleted" => asset'[a] # "deleted"
<1> DEFINE Goal == /\ asset' \in [Assets -> AssetStates] /\ UNCHANGED cleanup
                   /\ \A b \in Assets : /\ asset[b] = "ready" => asset'[b] = "ready"
                                        /\ asset[b] # "deleted" => asset'[b] # "deleted"
<1>0. ASSUME NEW a, NEW v \in AssetStates \ {"deleted"}, asset' = [asset EXCEPT ![a] = v],
             asset[a] \notin {"ready", "deleted"}, UNCHANGED cleanup
      PROVE  Goal
  BY <1>0
<1>s. {"awaiting_upload", "pending", "processing", "ready", "failed"} \subseteq AssetStates \ {"deleted"}
  BY DEF AssetStates
<1>1. ASSUME NEW a \in Assets, createUploadIntent(a) \/ completeUpload(a, a \in references.draft) PROVE Goal
  <2>1. PICK v \in {"awaiting_upload", "pending"} : asset' = [asset EXCEPT ![a] = v]
    BY <1>1 DEF createUploadIntent, completeUpload
  <2>2. asset[a] \in {"none", "awaiting_upload"} /\ UNCHANGED cleanup
    BY <1>1 DEF createUploadIntent, completeUpload
  <2> QED
    BY <1>0, <1>s, <2>1, <2>2
<1>2. ASSUME NEW w \in Workers, processing(w) PROVE Goal
  <2> DEFINE x == work[w].asset
  <2>1. ASSUME NEW a \in Assets, claimAsset(w, a) PROVE Goal
    <3>1. asset' = [asset EXCEPT ![a] = "processing"] /\ asset[a] \in {"pending", "processing"} /\ UNCHANGED cleanup
      BY <2>1 DEF claimAsset
    <3> QED
      BY <1>0, <1>s, <3>1
  <2>2. ASSUME NEW v \in Variants, ensureDerivativeVersion(w, v) PROVE Goal
    BY <2>2 DEF ensureDerivativeVersion
  <2>3. ASSUME finalizeReady(w) \/ finalizeFailure(w) \/ recordRetryableFailure(w) PROVE Goal
    <3>1. PICK v \in {"ready", "failed", "pending"} : asset' = [asset EXCEPT ![x] = v]
      BY <2>3 DEF finalizeReady, finalizeFailure, recordRetryableFailure
    <3>2. asset[x] = "processing" /\ UNCHANGED cleanup
      BY <2>3 DEF finalizeReady, finalizeFailure, recordRetryableFailure, currentAttempt
    <3> HIDE DEF x
    <3> QED
      BY <1>0, <1>s, <3>1, <3>2
  <2>4. ASSUME attemptFenced(w) PROVE Goal
    BY <2>4 DEF attemptFenced
  <2> HIDE DEF Goal
  <2> QED
    BY <1>2, <2>1, <2>2, <2>3, <2>4 DEF processing
<1>3. ASSUME processingFaults PROVE Goal
  BY <1>3 DEF processingFaults, failureUnrecorded, claimFails, workerDies, jobStalls
<1>4. ASSUME NEW a \in Assets, claimAssetSettled(a) \/ claimAssetExhausted(a) \/ leaseLapses(a) PROVE Goal
  <2>1. CASE claimAssetExhausted(a)
    <3>1. asset' = [asset EXCEPT ![a] = "failed"] /\ asset[a] \in {"pending", "processing"} /\ UNCHANGED cleanup
      BY <2>1 DEF claimAssetExhausted
    <3> QED
      BY <1>0, <1>s, <3>1
  <2>2. CASE claimAssetSettled(a) \/ leaseLapses(a)
    BY <2>2 DEF claimAssetSettled, leaseLapses
  <2> HIDE DEF Goal
  <2> QED
    BY <1>4, <2>1, <2>2
<1>5. Goal
  <2> HIDE DEF Goal
  <2> QED
    BY <1>1, <1>2, <1>3, <1>4 DEF uploadStep, workerStep, queueSteps
<1>6. UNCHANGED <<catalogVars, reportVars>>
  BY DEF uploadStep, workerStep
<1> QED
  BY <1>5, <1>6

\* What a draft, a published page and a report rest on survives a step of media.
LEMMA MediaKept ==
  ASSUME StoreInv, UNCHANGED <<catalogVars, reportVars>>, asset' \in [Assets -> AssetStates],
         \A a \in Assets : /\ asset[a] = "ready" /\ asset'[a] # "ready" => a \notin references.live \cup protectedAssetIds
                           /\ asset[a] # "deleted" /\ asset'[a] = "deleted" => a \notin references.draft
  PROVE  /\ CatalogInv' /\ HeadIsShown' /\ DraftOwned' /\ DraftMediaKept' /\ ReportRows' /\ EvidenceKept'
         /\ catalogGuards /\ triageGuards
<1>1. UNCHANGED <<creator, claim, draft, showcase, position, showMedia, revisions, head, projection, report, hold>>
  BY DEF catalogVars, draftVars, reportVars
<1>2. UNCHANGED <<active, canonical, references, protectedAssetIds>>
  BY <1>1 DEF active, canonical, references, revisionAssets, protectedAssetIds, targetAssets, evidence, activeHolds,
              filed
<1>3. CatalogInv'
  BY <1>1, <1>2 DEF StoreInv, CatalogInv, CatalogRows, OneCanonical, PositionsDiffer
<1>4. DraftOwned' /\ DraftMediaKept'
  BY <1>2 DEF StoreInv, DraftOwned, DraftMediaKept
<1>5. HeadIsShown'
  <2> SUFFICES ASSUME head # 0 PROVE revisionAssets(head) \subseteq resolveReadyAssets'
    BY <1>1, <1>2 DEF StoreInv, HeadIsShown, revisionAssets
  <2>1. revisionAssets(head) = references.live
    BY DEF references
  <2>2. revisionAssets(head) \subseteq resolveReadyAssets
    BY DEF StoreInv, HeadIsShown
  <2> QED
    BY <2>1, <2>2 DEF resolveReadyAssets
<1>6. ReportRows'
  BY <1>1 DEF StoreInv, ReportRows, filed
<1>7. EvidenceKept'
  <2> SUFFICES ASSUME NEW r \in Reports, Evident(r)
               PROVE  /\ report[r].revision \in DOMAIN revisions
                      /\ targetAssets(report[r].target, report[r].revision) \subseteq resolveReadyAssets'
    BY <1>1 DEF EvidenceKept, Evident, targetAssets, revisionAssets
  <2>1. /\ report[r].revision \in DOMAIN revisions
        /\ targetAssets(report[r].target, report[r].revision) \subseteq resolveReadyAssets
    BY DEF StoreInv, EvidenceKept
  <2>2. r \in {q \in filed : report[q].state = "open"} \cup activeHolds
    BY DEF Evident, filed, activeHolds, NoReport
  <2>3. <<report[r].target, report[r].revision>> \in evidence
    BY <2>2 DEF evidence
  <2>4. targetAssets(report[r].target, report[r].revision) \subseteq protectedAssetIds
    BY <2>3 DEF protectedAssetIds
  <2> QED
    BY <2>1, <2>4 DEF resolveReadyAssets
<1>8. catalogGuards
  <2>1. revisions \in Seq(Revision) /\ claim \in [Handles -> Claims] /\ OneCanonical
    BY DEF StoreInv, CatalogInv, CatalogRows
  <2>2. SubSeq(revisions', 1, Len(revisions)) = revisions
    BY <1>1, <2>1, SubSeqFull
  <2> QED
    BY <1>1, <1>3, <2>1, <2>2, GuardsOfPage DEF CatalogInv
<1>9. triageGuards
  BY <1>1 DEF triageGuards
<1> QED
  BY <1>3, <1>4, <1>5, <1>6, <1>7, <1>8, <1>9

\* The cleanup: what it checked is used by nobody, and only that is deleted.
LEMMA CleanupStep ==
  ASSUME StoreInv, cleanupStep
  PROVE  StoreInv' /\ catalogGuards /\ triageGuards
<1>1. UNCHANGED <<catalogVars, reportVars>> /\ cleanupSteps(references, protectedAssetIds)
  BY DEF cleanupStep
<1>2. UNCHANGED <<references, protectedAssetIds>>
  BY <1>1 DEF catalogVars, draftVars, reportVars, active, references, revisionAssets, protectedAssetIds, targetAssets,
              evidence, activeHolds, filed
<1>t. asset \in [Assets -> AssetStates] /\ CleanupRows /\ CleanupSpares
  BY DEF StoreInv, CleanupRows
\* What an action of the cleanup leaves to show.
<1> DEFINE Goal ==
      /\ CleanupRows' /\ CleanupSpares'
      /\ \A a \in Assets : asset'[a] # asset[a] =>
            asset'[a] = "deleted" /\ a \notin references.draft \cup references.live \cup protectedAssetIds
<1>3. ASSUME NEW a \in Assets, NEW rule \in Rules, claimCandidates(a, rule, references) PROVE Goal
  <2>1. cleanup' = [stage |-> "claimed", asset |-> a, rule |-> rule] /\ UNCHANGED asset
    BY <1>3 DEF claimCandidates
  <2> QED
    BY <2>1, <1>t DEF CleanupRows, CleanupSpares
<1>4. ASSUME candidateStillEligible(references, protectedAssetIds) PROVE Goal
  <2>1. UNCHANGED asset /\ cleanup.stage = "claimed"
    BY <1>4 DEF candidateStillEligible
  <2>2. cleanup \in [stage : {"claimed", "checked"}, asset : Assets, rule : Rules]
    BY <1>t, <2>1 DEF CleanupRows, NoCleanup
  <2>3. CASE cleanup' = NoCleanup
    BY <2>1, <2>3, <1>t DEF CleanupRows, CleanupSpares, NoCleanup
  <2>4. CASE cleanup' # NoCleanup
    <3>1. /\ eligible(cleanup.asset, cleanup.rule, references) /\ cleanup.asset \notin protectedAssetIds
          /\ cleanup' = [cleanup EXCEPT !.stage = "checked"]
      BY <1>4, <2>4 DEF candidateStillEligible
    <3>2. /\ cleanup' \in [stage : {"claimed", "checked"}, asset : Assets, rule : Rules]
          /\ cleanup'.asset = cleanup.asset /\ cleanup'.rule = cleanup.rule
      BY <2>2, <3>1
    <3>3. references.live \subseteq references.revisions
      <4>1. revisions \in Seq(Revision) /\ head \in 0 .. Len(revisions)
        BY DEF StoreInv, CatalogInv, CatalogRows
      <4>2. DOMAIN revisions = 1 .. Len(revisions) /\ Len(revisions) \in Nat
        BY <4>1, LenProperties
      <4>3. head # 0 => head \in DOMAIN revisions
        BY <4>1, <4>2
      <4> QED
        BY <4>3 DEF references
    <3>4. cleanup.rule \in Derivatives => cleanup.asset \notin references.draft \cup references.live
      BY <3>1, <3>3 DEF eligible, Derivatives
    <3>5. CleanupSpares'
      BY <1>2, <3>1, <3>2, <3>4 DEF CleanupSpares
    <3> QED
      BY <2>1, <3>2, <3>5, <1>t DEF CleanupRows
  <2> QED
    BY <2>3, <2>4
<1>5. ASSUME deleteSource \/ cleanupFails PROVE Goal
  BY <1>5, <1>t DEF deleteSource, cleanupFails, CleanupRows, CleanupSpares, NoCleanup
<1>6. ASSUME NEW v \in Variants, deleteDerivative(v) PROVE Goal
  <2>1. UNCHANGED <<asset, cleanup>>
    BY <1>6 DEF deleteDerivative
  <2> QED
    BY <2>1, <1>2, <1>t DEF CleanupRows, CleanupSpares
<1>7. ASSUME deleteDerivatives PROVE Goal
  <2>1. /\ cleanup.asset \notin references.draft \cup references.live \cup protectedAssetIds
        /\ asset' = [asset EXCEPT ![cleanup.asset] = "deleted"] /\ cleanup' = NoCleanup
    BY <1>7, <1>t DEF deleteDerivatives, CleanupSpares, Derivatives
  <2>2. CleanupRows' /\ CleanupSpares'
    BY <2>1, <1>t DEF CleanupRows, CleanupSpares, NoCleanup, AssetStates
  <2> QED
    BY <2>1, <2>2, <1>t
<1> HIDE DEF Goal
<1>8. Goal
  BY <1>1, <1>3, <1>4, <1>5, <1>6, <1>7 DEF cleanupSteps
<1>9. /\ CatalogInv' /\ HeadIsShown' /\ DraftOwned' /\ DraftMediaKept' /\ ReportRows' /\ EvidenceKept'
      /\ catalogGuards /\ triageGuards
  <2>1. asset' \in [Assets -> AssetStates]
    BY <1>8 DEF Goal, CleanupRows
  <2> QED
    BY <1>1, <1>8, <2>1, MediaKept DEF Goal
<1> QED
  BY <1>8, <1>9 DEF StoreInv, Goal
---------------------------------------------------------------------------
(* Reports.                                                                 *)

\* The media of a target is media of the revision.
LEMMA TargetsAreShown ==
  ASSUME NEW t, NEW n PROVE targetAssets(t, n) \subseteq revisionAssets(n)
BY DEF targetAssets, revisionAssets

\* Intake: the next report is about what is shown right now.
LEMMA IntakeStep ==
  ASSUME StoreInv, NEW q \in Guests \cup Actors, NEW c \in Challenges, NEW t \in Showcases \cup {"page"},
         NEW n \in DOMAIN revisions,
         submitReport(q, c, t, n, n = head /\ resolveVisibleReportTarget(t)),
         UNCHANGED <<catalogVars, mediaVars>>
  PROVE  ReportRows' /\ EvidenceKept' /\ triageGuards
<1> DEFINE k == nextReport
           e == [state |-> "open", target |-> t, revision |-> n, requester |-> q]
<1>1. /\ k \in Reports /\ n = head /\ pageVisible
      /\ report' = [report EXCEPT ![k] = e] /\ UNCHANGED hold
  BY DEF submitReport, resolveVisibleReportTarget
<1>2. PICK m \in Nat : filed = 1 .. m
  BY DEF StoreInv, ReportRows
<1>3. k = m + 1 /\ k \notin filed
  <2>1. Cardinality(1 .. m) = m
    <3>1. Cardinality(1 .. m) = IF 1 > m THEN 0 ELSE m - 1 + 1
      BY FS_Interval
    <3> QED
      BY <3>1
  <2> QED
    BY <1>2, <2>1 DEF nextReport
<1> HIDE DEF k
<1>t. /\ report \in [Reports -> {NoReport} \cup Filed]
      /\ hold \in [Reports -> {"none", "active", "released"}]
      /\ \A r \in Reports : /\ hold[r] = "active" <=> report[r].state = "held"
                            /\ hold[r] = "released" <=> report[r].state = "closed"
  BY DEF StoreInv, ReportRows
<1>4. report[k] = NoReport /\ hold[k] = "none"
  <2>1. report[k] = NoReport
    BY <1>1, <1>3 DEF filed
  <2> QED
    BY <1>1, <1>t, <2>1 DEF NoReport
<1>5. e \in Filed /\ e # NoReport
  <2>1. revisions \in Seq(Revision)
    BY DEF StoreInv, CatalogInv, CatalogRows
  <2>2. n \in Nat
    BY <2>1, LenProperties
  <2> QED
    BY <2>2 DEF Filed, NoReport
<1>e. e.state = "open" /\ e.target = t /\ e.revision = n
  OBVIOUS
<1> HIDE DEF e
<1>6. /\ report'[k] = e /\ report' \in [Reports -> {NoReport} \cup Filed]
      /\ \A r \in Reports : r # k => report'[r] = report[r]
  BY <1>1, <1>5, <1>t
<1>7. ReportRows'
  <2>1. filed' = filed \cup {k}
    BY <1>1, <1>5, <1>6 DEF filed
  <2>2. filed' = 1 .. m + 1
    BY <1>2, <1>3, <2>1
  <2>3. \A r \in Reports : /\ hold'[r] = "active" <=> report'[r].state = "held"
                           /\ hold'[r] = "released" <=> report'[r].state = "closed"
    BY <1>1, <1>4, <1>6, <1>e, <1>t
  <2> QED
    BY <1>1, <1>6, <1>t, <2>2, <2>3 DEF ReportRows
<1>8. UNCHANGED <<revisions, asset>> /\ resolveReadyAssets' = resolveReadyAssets
  BY DEF catalogVars, mediaVars, resolveReadyAssets
<1>9. EvidenceKept'
  <2> SUFFICES ASSUME NEW r \in Reports, Evident(r)'
               PROVE  /\ report'[r].revision \in DOMAIN revisions
                      /\ targetAssets(report'[r].target, report'[r].revision) \subseteq resolveReadyAssets
    BY <1>8 DEF EvidenceKept, targetAssets, revisionAssets
  <2>1. CASE r = k
    <3>1. revisionAssets(n) \subseteq resolveReadyAssets
      BY <1>1 DEF StoreInv, HeadIsShown, pageVisible, loadEffective
    <3> QED
      BY <1>6, <1>e, <2>1, <3>1, TargetsAreShown
  <2>2. CASE r # k
    <3>1. report'[r] = report[r] /\ Evident(r)
      BY <1>1, <1>6, <2>2 DEF Evident
    <3> QED
      BY <3>1 DEF StoreInv, EvidenceKept
  <2> QED
    BY <2>1, <2>2
<1>10. triageGuards
  BY <1>1, <1>4, <1>6, <1>e DEF triageGuards
<1> QED
  BY <1>7, <1>9, <1>10

\* Triage: a report and its hold move together, and the evidence only shrinks.
LEMMA TriageStep ==
  ASSUME StoreInv, NEW k \in Reports, dismiss(k) \/ hide(k) \/ restore(k), UNCHANGED <<catalogVars, mediaVars>>
  PROVE  ReportRows' /\ EvidenceKept' /\ triageGuards
<1>t. /\ report \in [Reports -> {NoReport} \cup Filed]
      /\ hold \in [Reports -> {"none", "active", "released"}]
      /\ \A r \in Reports : /\ hold[r] = "active" <=> report[r].state = "held"
                            /\ hold[r] = "released" <=> report[r].state = "closed"
  BY DEF StoreInv, ReportRows
<1>1. PICK v \in {"dismissed", "held", "closed"} :
        /\ report' = [report EXCEPT ![k].state = v]
        /\ report[k].state = IF v = "closed" THEN "held" ELSE "open"
        /\ hold' = IF v = "dismissed" THEN hold ELSE [hold EXCEPT ![k] = IF v = "held" THEN "active" ELSE "released"]
  <2>1. CASE dismiss(k)
    BY <2>1 DEF dismiss
  <2>2. CASE hide(k)
    BY <2>2 DEF hide
  <2>3. CASE restore(k)
    BY <2>3 DEF restore
  <2> QED
    BY <2>1, <2>2, <2>3
<1>2. report[k] \in Filed
  BY <1>1, <1>t DEF NoReport
<1>3. /\ report'[k] = [report[k] EXCEPT !.state = v]
      /\ \A r \in Reports : r # k => report'[r] = report[r] /\ hold'[r] = hold[r]
  BY <1>1, <1>t
<1>4. /\ report'[k] \in Filed /\ report'[k].state = v
      /\ report'[k].target = report[k].target /\ report'[k].revision = report[k].revision
  BY <1>2, <1>3 DEF Filed
<1>5. /\ report' \in [Reports -> {NoReport} \cup Filed]
      /\ hold' \in [Reports -> {"none", "active", "released"}]
  <2>1. hold' \in [Reports -> {"none", "active", "released"}]
    BY <1>1, <1>t
  <2>2. report' = [report EXCEPT ![k] = report'[k]]
    BY <1>1, <1>3
  <2> QED
    BY <1>4, <1>t, <2>1, <2>2
<1>6. /\ hold'[k] = "active" <=> v = "held"
      /\ hold'[k] = "released" <=> v = "closed"
  BY <1>1, <1>t
<1>7. ReportRows'
  <2>1. NoReport \notin Filed
    BY DEF NoReport, Filed
  <2>2. filed' = filed
    BY <1>2, <1>3, <1>4, <2>1 DEF filed
  <2>3. \A r \in Reports : /\ hold'[r] = "active" <=> report'[r].state = "held"
                           /\ hold'[r] = "released" <=> report'[r].state = "closed"
    <3>1. /\ report'[k].state = "held" <=> v = "held"
          /\ report'[k].state = "closed" <=> v = "closed"
      BY <1>4
    <3>2. \A r \in Reports : r # k => hold'[r] = hold[r] /\ report'[r].state = report[r].state
      BY <1>3
    <3> QED
      BY <1>6, <1>t, <3>1, <3>2
  <2>4. \E n \in Nat : filed' = 1 .. n
    BY <2>2 DEF StoreInv, ReportRows
  <2> QED
    BY <1>5, <2>3, <2>4 DEF ReportRows
<1>8. UNCHANGED <<revisions, asset>> /\ resolveReadyAssets' = resolveReadyAssets
  BY DEF catalogVars, mediaVars, resolveReadyAssets
<1>9. EvidenceKept'
  <2> SUFFICES ASSUME NEW r \in Reports, Evident(r)'
               PROVE  /\ report'[r].revision \in DOMAIN revisions
                      /\ targetAssets(report'[r].target, report'[r].revision) \subseteq resolveReadyAssets
    BY <1>8 DEF EvidenceKept, targetAssets, revisionAssets
  <2>1. Evident(r)
    <3>1. CASE r = k
      <4>1. v = "held"
        BY <1>4, <1>6, <3>1 DEF Evident
      <4> QED
        BY <1>1, <3>1, <4>1 DEF Evident
    <3>2. CASE r # k
      BY <1>3, <3>2 DEF Evident
    <3> QED
      BY <3>1, <3>2
  <2>2. report'[r].revision = report[r].revision /\ report'[r].target = report[r].target
    BY <1>3, <1>4
  <2> QED
    BY <2>1, <2>2 DEF StoreInv, EvidenceKept
<1>10. triageGuards
  <2>1. ASSUME NEW r \in Reports
        PROVE
    /\ (report[r] # NoReport /\ report'[r] # report[r]) =>
         /\ <<report[r].state, report'[r].state>> \in
              {<<"open", "dismissed">>, <<"open", "held">>, <<"held", "closed">>}
         /\ report'[r] = [report[r] EXCEPT !.state = report'[r].state]
    /\ report[r] = NoReport /\ report'[r] # NoReport => report'[r].state = "open"
    /\ (hold[r] = "none" /\ hold'[r] # "none") => report'[r].state = "held"
    /\ (hold[r] = "active" /\ hold'[r] # "active") =>
         hold'[r] = "released" /\ report'[r].state = "closed"
    /\ hold[r] = "released" => hold'[r] = "released"
    <3>1. CASE r # k
      BY <1>3, <3>1
    <3>2. CASE r = k
      <4>1. report[k] # NoReport
        BY <1>1 DEF NoReport
      <4>2. /\ <<report[k].state, v>> \in {<<"open", "dismissed">>, <<"open", "held">>, <<"held", "closed">>}
        BY <1>1
      <4>3. hold[k] = IF v = "closed" THEN "active" ELSE "none"
        BY <1>1, <1>t
      <4>4. hold'[k] = IF v = "dismissed" THEN "none" ELSE IF v = "held" THEN "active" ELSE "released"
        BY <1>1, <1>t, <4>3
      <4> QED
        BY <1>3, <1>4, <3>2, <4>1, <4>2, <4>3, <4>4
    <3> QED
      BY <3>1, <3>2
  <2> QED
    BY <2>1 DEF triageGuards
<1> QED
  BY <1>7, <1>9, <1>10

\* Every step about reports.
LEMMA ReportStep ==
  ASSUME StoreInv, reportStep
  PROVE  StoreInv' /\ catalogGuards /\ triageGuards
<1>1. UNCHANGED <<catalogVars, mediaVars>>
  BY DEF reportStep
<1>2. UNCHANGED <<creator, claim, draft, showcase, position, showMedia, revisions, head, projection, asset, cleanup>>
  BY <1>1 DEF catalogVars, draftVars, mediaVars
<1>3. /\ CatalogInv' /\ HeadIsShown' /\ DraftOwned' /\ DraftMediaKept' /\ CleanupRows'
  BY <1>2 DEF StoreInv, CatalogInv, CatalogRows, OneCanonical, PositionsDiffer, HeadIsShown, DraftOwned, DraftMediaKept,
              CleanupRows, active, canonical, references, revisionAssets, resolveReadyAssets
<1>4. catalogGuards
  <2>1. revisions \in Seq(Revision) /\ claim \in [Handles -> Claims] /\ OneCanonical
    BY DEF StoreInv, CatalogInv, CatalogRows
  <2>2. SubSeq(revisions', 1, Len(revisions)) = revisions
    BY <1>2, <2>1, SubSeqFull
  <2> QED
    BY <1>2, <1>3, <2>1, <2>2, GuardsOfPage DEF CatalogInv
<1> DEFINE Goal == ReportRows' /\ EvidenceKept' /\ triageGuards /\ (pageFree \/ UNCHANGED <<report, hold>>)
<1>5. ASSUME UNCHANGED <<report, hold>> PROVE Goal
  <2>1. ReportRows' /\ triageGuards
    BY <1>5 DEF StoreInv, ReportRows, filed, triageGuards
  <2>2. EvidenceKept'
    BY <1>2, <1>5 DEF StoreInv, EvidenceKept, Evident, targetAssets, revisionAssets, resolveReadyAssets
  <2> QED
    BY <1>5, <2>1, <2>2
<1>6. ASSUME pageFree, NEW q \in Guests \cup Actors, NEW c \in Challenges, NEW t \in Showcases \cup {"page"},
             NEW n \in DOMAIN revisions, submitReport(q, c, t, n, n = head /\ resolveVisibleReportTarget(t))
      PROVE  Goal
  BY <1>1, <1>6, IntakeStep
<1>7. ASSUME pageFree, NEW r \in Reports, dismiss(r) \/ hide(r) \/ restore(r) PROVE Goal
  BY <1>1, <1>7, TriageStep
<1>8. \/ UNCHANGED <<report, hold>>
      \/ /\ pageFree
         /\ \E q \in Guests \cup Actors, c \in Challenges, t \in Showcases \cup {"page"}, n \in DOMAIN revisions :
              submitReport(q, c, t, n, n = head /\ resolveVisibleReportTarget(t))
      \/ pageFree /\ \E r \in Reports : dismiss(r) \/ hide(r) \/ restore(r)
  BY DEF reportStep, issueReportChallenge, challengeExpires, securityEventExpires, submitReportRejected
<1> HIDE DEF Goal
<1>9. Goal
  BY <1>5, <1>6, <1>7, <1>8
<1>10. CleanupSpares'
  <2>1. CASE pageFree
    BY <1>2, <2>1 DEF CleanupSpares, pageFree
  <2>2. CASE UNCHANGED <<report, hold>>
    <3>1. UNCHANGED <<references, protectedAssetIds>>
      BY <1>2, <2>2 DEF active, references, revisionAssets, protectedAssetIds, targetAssets, evidence, activeHolds, filed
    <3> QED
      BY <1>2, <3>1 DEF StoreInv, CleanupSpares
  <2> QED
    BY <1>9, <2>1, <2>2 DEF Goal
<1> QED
  BY <1>3, <1>4, <1>9, <1>10 DEF StoreInv, Goal
---------------------------------------------------------------------------
(* The invariant and the theorems.                                          *)

\* An empty page, no media and no report.
LEMMA StoreStarts ==
  StoreInit => StoreInv
<1> SUFFICES ASSUME StoreInit PROVE StoreInv
  OBVIOUS
<1> USE DEF StoreInit
<1>1. active = {} /\ canonical = {} /\ references.draft = {}
  BY DEF CatalogInit, active, canonical, references
<1>2. CatalogRows
  <2>1. <<>> \in Seq(Revision) /\ Len(<<>>) = 0
    BY EmptySeq
  <2>2. claim \in [Handles -> Claims] /\ showMedia \in [Showcases -> SUBSET ShowAssets]
    BY DEF CatalogInit, Claims
  <2> QED
    BY <2>1, <2>2 DEF CatalogInit, CatalogRows
<1>3. OneCanonical /\ PositionsDiffer
  <2>1. Cardinality({}) = 0 /\ Cardinality(Positions) \in Nat
    BY FS_EmptySet, FS_CardinalityType, CatalogAssumption
  <2> QED
    BY <1>1, <2>1 DEF OneCanonical, PositionsDiffer
<1>4. HeadIsShown /\ DraftOwned /\ DraftMediaKept
  BY <1>1 DEF CatalogInit, HeadIsShown, DraftOwned, DraftMediaKept
<1>5. CleanupRows /\ CleanupSpares
  BY DEF MediaInit, CleanupRows, CleanupSpares, NoCleanup, AssetStates
<1>6. ReportRows /\ EvidenceKept
  <2>1. filed = {} /\ 0 \in Nat /\ 1 .. 0 = {}
    BY DEF ReportsInit, filed
  <2> QED
    BY <2>1 DEF ReportsInit, ReportRows, EvidenceKept, Evident, NoReport
<1> QED
  BY <1>2, <1>3, <1>4, <1>5, <1>6 DEF StoreInv, CatalogInv

\* What a step of the store keeps and what it may do.
LEMMA StoreStep ==
  ASSUME StoreInv, StoreNext
  PROVE  /\ StoreInv' /\ catalogGuards /\ triageGuards
         /\ head' \notin {head, 0} =>
              /\ ~pageHeld
              /\ DOMAIN revisions'[head'].shows \cap heldShowcases = {}
<1> DEFINE Publishes == head' \notin {head, 0} =>
                          /\ ~pageHeld
                          /\ DOMAIN revisions'[head'].shows \cap heldShowcases = {}
           Goal == StoreInv' /\ catalogGuards /\ triageGuards /\ Publishes
<1>1. ASSUME catalogStep PROVE Goal
  <2>1. UNCHANGED <<asset, cleanup, report, hold>> /\ pageFree
    BY <1>1 DEF catalogStep, creatorCommands, otherCatalogSteps, mediaVars, reportVars
  <2>2. /\ CatalogInv' /\ HeadIsShown' /\ DraftOwned' /\ DraftMediaKept' /\ catalogGuards /\ EvidenceKept'
        /\ Publishes
    BY <1>1, CatalogStep DEF StoreInv
  <2>3. /\ CleanupRows' /\ ReportRows' /\ triageGuards /\ CleanupSpares'
    BY <2>1 DEF StoreInv, CleanupRows, ReportRows, filed, triageGuards, CleanupSpares, pageFree
  <2> QED
    BY <2>2, <2>3 DEF StoreInv
<1>2. ASSUME uploadStep \/ workerStep PROVE Goal
  <2>1. /\ asset' \in [Assets -> AssetStates] /\ UNCHANGED <<cleanup, catalogVars, reportVars>>
        /\ \A a \in Assets : /\ asset[a] = "ready" => asset'[a] = "ready"
                             /\ asset[a] # "deleted" => asset'[a] # "deleted"
    BY <1>2, MediaStep DEF StoreInv, CleanupRows
  <2>2. /\ CatalogInv' /\ HeadIsShown' /\ DraftOwned' /\ DraftMediaKept' /\ ReportRows' /\ EvidenceKept'
        /\ catalogGuards /\ triageGuards
    BY <2>1, MediaKept
  <2>3. UNCHANGED <<references, protectedAssetIds>>
    BY <2>1 DEF catalogVars, draftVars, reportVars, active, references, revisionAssets, protectedAssetIds, targetAssets,
                evidence, activeHolds, filed
  <2>4. CleanupRows' /\ CleanupSpares'
    BY <2>1, <2>3 DEF StoreInv, CleanupRows, CleanupSpares
  <2>5. UNCHANGED head
    BY <2>1 DEF catalogVars
  <2> QED
    BY <2>2, <2>4, <2>5 DEF StoreInv
<1>3. ASSUME cleanupStep PROVE Goal
  <2>1. UNCHANGED head
    BY <1>3 DEF cleanupStep, catalogVars
  <2> QED
    BY <1>3, <2>1, CleanupStep
<1>4. ASSUME reportStep PROVE Goal
  <2>1. UNCHANGED head
    BY <1>4 DEF reportStep, catalogVars
  <2> QED
    BY <1>4, <2>1, ReportStep
<1> HIDE DEF Goal
<1>5. Goal
  BY <1>1, <1>2, <1>3, <1>4 DEF StoreNext
<1> QED
  BY <1>5 DEF Goal

\* A step that changes nothing.
LEMMA StoreStutters ==
  StoreInv /\ UNCHANGED storeVars => StoreInv'
BY DEF StoreInv, CatalogInv, CatalogRows, OneCanonical, PositionsDiffer, HeadIsShown, DraftOwned, DraftMediaKept,
       CleanupRows, CleanupSpares, ReportRows, EvidenceKept, Evident, active, canonical, references, revisionAssets,
       resolveReadyAssets, protectedAssetIds, targetAssets, evidence, activeHolds, filed,
       storeVars, catalogVars, draftVars, mediaVars, jobVars, reportVars

\* The invariant in every state: head, projection, claims, media, cleanup and
\* reports agree, whatever commands, workers, the cleanup and triage do
\* (catalog-service.ts, media-worker.ts, media-cleanup.ts, triage-service.ts).
THEOREM StoreAgrees == StoreSpec => []StoreInv
<1>1. StoreInit => StoreInv
  BY StoreStarts
<1>2. StoreInv /\ [StoreNext]_storeVars => StoreInv'
  BY StoreStep, StoreStutters
<1> QED
  BY <1>1, <1>2, PTL DEF StoreSpec

\* What the public query answers follows from the invariant.
LEMMA ShownPageResolves ==
  StoreInv => PublishedPageResolves
<1> SUFFICES ASSUME StoreInv PROVE PublishedPageResolves
  OBVIOUS
<1>1. CASE head = 0 \/ pageHeld
  <2>1. ~pageVisible
    BY <1>1 DEF pageVisible, loadEffective
  <2> QED
    BY <1>1, <2>1 DEF PublishedPageResolves, listPublicCreators, delivered, isDerivativePublic
<1>2. CASE ~(head = 0 \/ pageHeld)
  <2>1. /\ creator = "active" /\ canonical # {}
        /\ \A h \in revisions[head].handle : claim[h] \in {"canonical", "alias"}
        /\ projection = [revision |-> head, handle |-> canonical, enabled |-> TRUE]
        /\ revisionAssets(head) \subseteq resolveReadyAssets
    BY <1>2 DEF StoreInv, HeadIsShown
  <2>2. pageVisible
    <3>1. projection.enabled /\ projection.revision = head /\ projection.handle = canonical
      BY <2>1
    <3>2. revisions[head].profile
            \cup UNION {revisions[head].shows[s] : s \in visibleShowcases(heldShowcases)} \subseteq revisionAssets(head)
      BY DEF visibleShowcases, revisionAssets
    <3> QED
      BY <1>2, <2>1, <3>1, <3>2 DEF pageVisible, loadEffective
  <2>3. revisions[head].profile \subseteq delivered
    <3>1. revisions[head].profile \subseteq Assets
      BY <2>1 DEF revisionAssets, resolveReadyAssets
    <3> QED
      BY <2>2, <3>1 DEF delivered, isDerivativePublic
  <2>4. listPublicCreators(pageVisible)
    BY <2>1, <2>2 DEF listPublicCreators
  <2>5. ASSUME NEW h \in Handles
        PROVE  /\ claim[h] = "canonical" => resolvePublicCreator(h, pageVisible) = "visible"
               /\ claim[h] = "alias" => resolvePublicCreator(h, pageVisible) = "redirect"
    BY <2>2 DEF resolvePublicCreator
  <2> QED
    BY <1>2, <2>3, <2>4, <2>5 DEF PublishedPageResolves
<1> QED
  BY <1>1, <1>2

\* A published page that nobody holds resolves, any other delivers nothing
\* (public-catalog-query.ts loadEffectiveBatch, catalog-service.ts).
THEOREM PageResolves == StoreSpec => []PublishedPageResolves
BY StoreAgrees, ShownPageResolves, PTL

\* The cleanup deletes nothing the draft refers to and nothing under a report
\* (media-cleanup.ts candidateStillEligible under the page lock).
THEOREM MediaOutlivesCleanup == StoreSpec => [](DraftMediaKept /\ ReportedEvidenceKept)
<1>1. StoreInv => DraftMediaKept /\ ReportedEvidenceKept
  <2> SUFFICES ASSUME StoreInv PROVE ReportedEvidenceKept
    BY DEF StoreInv
  <2>1. \A r \in Reports : Evident(r) => targetAssets(report[r].target, report[r].revision) \subseteq resolveReadyAssets
    BY DEF StoreInv, EvidenceKept
  <2>2. \A e \in evidence : \E r \in Reports : Evident(r) /\ e = <<report[r].target, report[r].revision>>
    BY DEF evidence, Evident, activeHolds, filed
  <2> QED
    BY <2>1, <2>2 DEF ReportedEvidenceKept, protectedAssetIds
<1> QED
  BY <1>1, StoreAgrees, PTL

\* A report that triage holds has an active hold, which the public query obeys.
LEMMA HeldIsHidden ==
  StoreInv => HeldIsNotDelivered
<1> SUFFICES ASSUME StoreInv, NEW r \in Reports, report[r].state = "held", delivered # {}
             PROVE  report[r].target # "page" /\ delivered \subseteq shownBeside(report[r].target)
  BY DEF HeldIsNotDelivered
<1>1. r \in activeHolds
  BY DEF StoreInv, ReportRows, activeHolds
<1>2. pageVisible /\ ~pageHeld
  BY DEF delivered, isDerivativePublic, pageVisible, loadEffective
<1>3. report[r].target # "page" /\ report[r].target \in heldShowcases
  BY <1>1, <1>2 DEF pageHeld, heldShowcases
<1>4. ASSUME NEW a \in delivered PROVE a \in shownBeside(report[r].target)
  BY <1>3 DEF delivered, isDerivativePublic, visibleShowcases, shownBeside
<1> QED
  BY <1>3, <1>4

\* Nothing of a held page or showcase is delivered, and nothing held enters a new
\* revision until the hold is released (triage-service.ts hide,
\* public-catalog-query.ts loadEffectiveBatch, catalog-service.ts publish).
THEOREM HeldStaysHidden == StoreSpec => HeldContentStaysHidden
<1>1. StoreInv /\ StoreNext =>
        /\ pageHeld /\ pageHeld' => head' \in {head, 0}
        /\ \A s \in heldShowcases \cap heldShowcases' :
             head' \notin {head, 0} => s \notin DOMAIN revisions'[head'].shows
  BY StoreStep
<1> QED
  BY <1>1, HeldIsHidden, StoreAgrees, PTL DEF StoreSpec, HeldContentStaysHidden

\* Every write of a legal command passes the triggers of the page and of triage
\* (migrations 0020 and 0022).
THEOREM StoreIsAccepted == StoreSpec => StoreGuardsAccept
<1>1. StoreInv /\ StoreNext => catalogGuards /\ triageGuards
  BY StoreStep
<1> QED
  BY <1>1, StoreAgrees, PTL DEF StoreSpec, StoreGuardsAccept
---------------------------------------------------------------------------
(* The processing of media.  WorkInv: the number of an attempt tells the    *)
(* workers of an asset apart, and the one that holds the lock of the job    *)
(* runs the latest attempt; a job fails only by stalls or with a delivery   *)
(* that no attempt records; what the cleanup has checked stays so.          *)

Running == [asset : Assets, attempt : Nat, locked : BOOLEAN, done : SUBSET Variants]
JobStates == {"none", "waiting", "active", "completed", "failed"}
WorkRows ==
  /\ sourceDeleted \subseteq Assets /\ open \subseteq Assets /\ leased \subseteq Assets
  /\ torn \subseteq Assets /\ unrecorded \subseteq Assets
  /\ attempt \in [Assets -> 0 .. MaxAttempts]
  /\ job \in [Assets -> JobStates]
  /\ tries \in [Assets -> Nat] /\ stalls \in [Assets -> 0 .. MaxStalls + 1]
  /\ stored \in [Assets -> SUBSET Variants]
  /\ work \in [Workers -> {Idle} \cup Running]

RunsFor(w, a) == work[w] # Idle /\ work[w].asset = a

\* What a worker may rely on, whoever took its asset over meanwhile.
WorkerStands ==
  \A w \in Workers, a \in Assets : RunsFor(w, a) =>
    /\ asset[a] \notin {"none", "awaiting_upload"} /\ work[w].attempt <= attempt[a]
    /\ work[w].locked => /\ work[w].attempt = attempt[a] /\ (tries[a] < attempt[a] \/ a \in unrecorded)
                         /\ asset[a] = "processing" /\ job[a] = "active"
    /\ asset[a] \in {"pending", "processing"} => work[w].done \subseteq stored[a]
AttemptsDiffer ==
  \A v, w \in Workers, a \in Assets : (v # w /\ RunsFor(v, a) /\ RunsFor(w, a)) => work[v].attempt # work[w].attempt

\* Attempt, job and source follow the state of the asset.
JobFollows ==
  \A a \in Assets :
    /\ a \in open <=> asset[a] = "processing"
    /\ tries[a] <= attempt[a] \/ a \in unrecorded
    /\ tries[a] <= JobAttempts /\ (job[a] # "failed" => tries[a] < JobAttempts)
    /\ job[a] = "failed" => stalls[a] > MaxStalls \/ a \in unrecorded
    /\ stalls[a] > MaxStalls => job[a] = "failed"
    /\ job[a] = "none" <=> asset[a] \in {"none", "awaiting_upload"}
    /\ a \in sourceDeleted => asset[a] \in Settled

\* Only a deletion of derivatives leaves a ready asset without its objects.
Deleting(a) == cleanup.stage = "checked" /\ cleanup.rule \in Derivatives /\ cleanup.asset = a
CleanupFollows ==
  /\ cleanup.stage = "checked" =>
       asset[cleanup.asset] = IF cleanup.rule = "failed_quarantine" THEN "failed" ELSE "ready"
  /\ \A a \in Assets : (asset[a] = "ready" /\ a \notin torn /\ ~Deleting(a)) => stored[a] = Variants

WorkInv == CleanupRows /\ WorkRows /\ WorkerStands /\ AttemptsDiffer /\ JobFollows /\ CleanupFollows
Accepted == \A a \in Assets : assetLifecycle(a) /\ attemptLifecycle(a)

\* The cleanup and the objects when another part of the system moves.
LEMMA CleanupWaits ==
  ASSUME CleanupRows, CleanupFollows, UNCHANGED <<cleanup, torn, stored>>, asset' \in [Assets -> AssetStates],
         \A a \in Assets : asset[a] \in {"ready", "failed"} => asset'[a] = asset[a],
         \A a \in Assets : asset'[a] = "ready" => asset[a] = "ready" \/ stored[a] = Variants
  PROVE  CleanupRows' /\ CleanupFollows'
<1>1. CleanupRows'
  BY DEF CleanupRows
<1>2. cleanup.stage = "checked" => cleanup.asset \in Assets
  BY DEF CleanupRows, NoCleanup
<1>3. \A a \in Assets : Deleting(a)' <=> Deleting(a)
  BY DEF Deleting
<1> QED
  BY <1>1, <1>2, <1>3 DEF CleanupFollows

\* An upload: no worker knows the asset yet.
LEMMA UploadWork ==
  ASSUME WorkInv, NEW a \in Assets, NEW owned \in BOOLEAN, createUploadIntent(a) \/ completeUpload(a, owned)
  PROVE  WorkInv' /\ Accepted
<1>t. /\ asset \in [Assets -> AssetStates] /\ job \in [Assets -> JobStates]
      /\ stalls \in [Assets -> 0 .. MaxStalls + 1] /\ MaxStalls \in Nat
  BY MediaConstants DEF WorkInv, CleanupRows, WorkRows
<1>s. {"none", "awaiting_upload", "pending"} \subseteq AssetStates /\ "waiting" \in JobStates
  BY DEF AssetStates, JobStates
<1>1. /\ \/ asset[a] = "none" /\ asset' = [asset EXCEPT ![a] = "awaiting_upload"] /\ UNCHANGED job
         \/ asset[a] = "awaiting_upload" /\ asset' = [asset EXCEPT ![a] = "pending"] /\ job' = [job EXCEPT ![a] = "waiting"]
      /\ UNCHANGED <<sourceDeleted, attempt, open, leased, tries, stalls, work, stored, cleanup, torn, unrecorded>>
  BY DEF createUploadIntent, completeUpload, jobVars, historyVars
<1>2. /\ asset' \in [Assets -> AssetStates] /\ job' \in [Assets -> JobStates]
      /\ \A b \in Assets : b # a => asset'[b] = asset[b] /\ job'[b] = job[b]
      /\ \/ asset[a] = "none" /\ asset'[a] = "awaiting_upload" /\ job'[a] = job[a]
         \/ asset[a] = "awaiting_upload" /\ asset'[a] = "pending" /\ job'[a] = "waiting"
  BY <1>1, <1>t, <1>s
<1>3. CleanupRows' /\ CleanupFollows'
  BY <1>1, <1>2, CleanupWaits DEF WorkInv
<1>4. WorkRows'
  BY <1>1, <1>2 DEF WorkInv, WorkRows
<1>5. WorkerStands' /\ AttemptsDiffer'
  <2>1. AttemptsDiffer'
    BY <1>1 DEF WorkInv, AttemptsDiffer, RunsFor
  <2>2. \A w \in Workers : ~RunsFor(w, a)
    BY <1>2 DEF WorkInv, WorkerStands
  <2> QED
    BY <1>1, <1>2, <2>1, <2>2 DEF WorkInv, WorkerStands, RunsFor
<1>6. JobFollows'
  BY <1>1, <1>2 DEF WorkInv, JobFollows, Settled
<1>7. Accepted
  BY <1>1, <1>2, <1>6 DEF Accepted, assetLifecycle, attemptLifecycle, WorkInv, JobFollows, Settled
<1> QED
  BY <1>3, <1>4, <1>5, <1>6, <1>7 DEF WorkInv

\* A delivery that meets a settled or exhausted asset, and a lease that lapses.
LEMMA QueueWork ==
  ASSUME WorkInv, NEW a \in Assets, claimAssetSettled(a) \/ claimAssetExhausted(a) \/ leaseLapses(a)
  PROVE  WorkInv' /\ Accepted
<1>t. /\ asset \in [Assets -> AssetStates] /\ job \in [Assets -> JobStates]
      /\ stalls \in [Assets -> 0 .. MaxStalls + 1] /\ MaxStalls \in Nat
  BY MediaConstants DEF WorkInv, CleanupRows, WorkRows
<1>s. "failed" \in AssetStates /\ "completed" \in JobStates
  BY DEF AssetStates, JobStates
<1>1. /\ UNCHANGED <<sourceDeleted, attempt, tries, stalls, work, stored, cleanup, torn, unrecorded>>
      /\ \/ /\ asset[a] \notin {"pending", "processing"} /\ UNCHANGED <<asset, open, leased>>
            /\ job[a] = "waiting" /\ job' = [job EXCEPT ![a] = "completed"]
         \/ /\ asset[a] \in {"pending", "processing"} /\ asset' = [asset EXCEPT ![a] = "failed"]
            /\ open' = open \ {a} /\ UNCHANGED leased
            /\ job[a] = "waiting" /\ job' = [job EXCEPT ![a] = "completed"]
         \/ UNCHANGED <<asset, open, job>> /\ leased' = leased \ {a}
  BY DEF claimAssetSettled, claimAssetExhausted, leaseLapses, jobVars, historyVars
<1>2. /\ asset' \in [Assets -> AssetStates] /\ job' \in [Assets -> JobStates]
      /\ \A b \in Assets : b # a => asset'[b] = asset[b] /\ job'[b] = job[b] /\ (b \in open' <=> b \in open)
      /\ UNCHANGED <<sourceDeleted, attempt, tries, stalls, work, stored, cleanup, torn, unrecorded>>
      /\ \/ asset'[a] = asset[a] /\ (a \in open' <=> a \in open) /\ job'[a] = job[a]
         \/ /\ job[a] = "waiting" /\ job'[a] = "completed"
            /\ \/ asset[a] \notin {"pending", "processing"} /\ asset'[a] = asset[a] /\ (a \in open' <=> a \in open)
               \/ asset[a] \in {"pending", "processing"} /\ asset'[a] = "failed" /\ a \notin open'
  BY <1>1, <1>t, <1>s
<1>3. CleanupRows' /\ CleanupFollows'
  BY <1>2, CleanupWaits DEF WorkInv
<1>4. WorkRows'
  BY <1>1, <1>2 DEF WorkInv, WorkRows
<1>5. WorkerStands' /\ AttemptsDiffer'
  <2>1. AttemptsDiffer'
    BY <1>2 DEF WorkInv, AttemptsDiffer, RunsFor
  <2>2. \A w \in Workers : RunsFor(w, a) /\ work[w].locked => job[a] = "active"
    BY DEF WorkInv, WorkerStands
  <2> QED
    BY <1>2, <2>1, <2>2 DEF WorkInv, WorkerStands, RunsFor
<1>6. JobFollows'
  BY <1>2 DEF WorkInv, JobFollows, Settled
<1>7. Accepted
  BY <1>2, <1>6 DEF Accepted, assetLifecycle, attemptLifecycle, WorkInv, JobFollows, Settled
<1> QED
  BY <1>3, <1>4, <1>5, <1>6, <1>7 DEF WorkInv

\* A worker takes an asset: nobody holds the lock, its number is new.
LEMMA ClaimWork ==
  ASSUME WorkInv, NEW w \in Workers, NEW a \in Assets, claimAsset(w, a)
  PROVE  WorkInv' /\ Accepted
<1>t. /\ asset \in [Assets -> AssetStates] /\ job \in [Assets -> JobStates] /\ attempt \in [Assets -> 0 .. MaxAttempts]
      /\ stalls \in [Assets -> 0 .. MaxStalls + 1] /\ MaxStalls \in Nat /\ MaxAttempts \in Nat
      /\ tries \in [Assets -> Nat] /\ work \in [Workers -> {Idle} \cup Running]
  BY MediaConstants DEF WorkInv, CleanupRows, WorkRows
<1>s. "processing" \in AssetStates /\ "active" \in JobStates
  BY DEF AssetStates, JobStates
<1> DEFINE e == [asset |-> a, attempt |-> attempt[a] + 1, locked |-> TRUE, done |-> {}]
<1>1. /\ work[w] = Idle /\ job[a] = "waiting" /\ asset[a] \in {"pending", "processing"} /\ attempt[a] < MaxAttempts
      /\ asset' = [asset EXCEPT ![a] = "processing"] /\ attempt' = [attempt EXCEPT ![a] = attempt[a] + 1]
      /\ open' = open \cup {a} /\ leased' = leased \cup {a} /\ job' = [job EXCEPT ![a] = "active"]
      /\ work' = [work EXCEPT ![w] = e]
      /\ UNCHANGED <<sourceDeleted, tries, stalls, stored, cleanup, torn, unrecorded>>
  BY DEF claimAsset, historyVars
<1>e. /\ e \in Running /\ e # Idle /\ e.asset = a /\ e.attempt = attempt[a] + 1 /\ e.locked = TRUE /\ e.done = {}
      /\ attempt[a] + 1 \in 0 .. MaxAttempts
  <2>1. attempt[a] \in Nat /\ attempt[a] + 1 \in 0 .. MaxAttempts
    BY <1>1, <1>t
  <2> QED
    BY <2>1 DEF Running, Idle
<1> HIDE DEF e
<1>2. /\ asset' \in [Assets -> AssetStates] /\ job' \in [Assets -> JobStates] /\ attempt' \in [Assets -> 0 .. MaxAttempts]
      /\ work' \in [Workers -> {Idle} \cup Running]
      /\ \A b \in Assets : b # a => /\ asset'[b] = asset[b] /\ job'[b] = job[b] /\ attempt'[b] = attempt[b]
                                    /\ b \in open' <=> b \in open
      /\ asset'[a] = "processing" /\ job'[a] = "active" /\ attempt'[a] = attempt[a] + 1 /\ a \in open'
      /\ work'[w] = e /\ \A v \in Workers : v # w => work'[v] = work[v]
  BY <1>1, <1>t, <1>s, <1>e
<1>3. CleanupRows' /\ CleanupFollows'
  BY <1>1, <1>2, CleanupWaits DEF WorkInv
<1>4. WorkRows'
  BY <1>1, <1>2 DEF WorkInv, WorkRows
<1>5. \A v \in Workers, b \in Assets : RunsFor(v, b)' <=> (v = w /\ b = a) \/ (v # w /\ RunsFor(v, b))
  BY <1>1, <1>2, <1>e DEF RunsFor
<1>6. \A v \in Workers : RunsFor(v, a) => /\ ~work[v].locked /\ work[v].attempt <= attempt[a]
                                          /\ work[v].done \subseteq stored[a]
  BY <1>1, <1>t DEF WorkInv, WorkerStands
<1>n. \A b \in Assets : /\ attempt[b] \in Nat /\ tries[b] \in Nat /\ (tries[b] <= attempt[b] \/ b \in unrecorded)
                        /\ tries[b] <= JobAttempts /\ (job[b] # "failed" => tries[b] < JobAttempts)
  BY <1>t DEF WorkInv, JobFollows
<1>r. \A v \in Workers, b \in Assets : RunsFor(v, b) => work[v].attempt \in Nat /\ work[v].locked \in BOOLEAN
  BY <1>t DEF RunsFor, Running
<1>7. WorkerStands'
  <2> SUFFICES ASSUME NEW v \in Workers, NEW b \in Assets, RunsFor(v, b)'
               PROVE
    /\ asset'[b] \notin {"none", "awaiting_upload"} /\ work'[v].attempt <= attempt'[b]
    /\ work'[v].locked => /\ work'[v].attempt = attempt'[b] /\ (tries'[b] < attempt'[b] \/ b \in unrecorded')
                          /\ asset'[b] = "processing" /\ job'[b] = "active"
    /\ asset'[b] \in {"pending", "processing"} => work'[v].done \subseteq stored'[b]
    BY DEF WorkerStands
  <2>1. CASE v = w
    <3>1. b = a
      BY <1>5, <2>1
    <3> QED
      BY <2>1, <3>1, <1>1, <1>2, <1>e, <1>n
  <2>2. CASE v # w /\ b = a
    <3>1. RunsFor(v, a) /\ work'[v] = work[v]
      BY <1>2, <1>5, <2>2
    <3> QED
      BY <2>2, <3>1, <1>1, <1>2, <1>6, <1>n, <1>r
  <2>3. CASE v # w /\ b # a
    <3>1. RunsFor(v, b) /\ work'[v] = work[v]
      BY <1>2, <1>5, <2>3
    <3> QED
      BY <2>3, <3>1, <1>1, <1>2 DEF WorkInv, WorkerStands
  <2> QED
    BY <2>1, <2>2, <2>3
<1>8. AttemptsDiffer'
  <2> SUFFICES ASSUME NEW v \in Workers, NEW u \in Workers, NEW b \in Assets, v # u, RunsFor(v, b)', RunsFor(u, b)'
               PROVE  work'[v].attempt # work'[u].attempt
    BY DEF AttemptsDiffer
  <2>1. CASE v # w /\ u # w
    BY <2>1, <1>2, <1>5 DEF WorkInv, AttemptsDiffer
  <2>2. CASE v = w
    <3>1. RunsFor(u, a) /\ work'[u] = work[u]
      BY <1>2, <1>5, <2>2
    <3> QED
      BY <3>1, <2>2, <1>2, <1>6, <1>e, <1>n, <1>r
  <2>3. CASE u = w
    <3>1. RunsFor(v, a) /\ work'[v] = work[v]
      BY <1>2, <1>5, <2>3
    <3> QED
      BY <3>1, <2>3, <1>2, <1>6, <1>e, <1>n, <1>r
  <2> QED
    BY <2>1, <2>2, <2>3
<1>9. JobFollows'
  BY <1>1, <1>2, <1>n, <1>t DEF WorkInv, JobFollows, Settled
<1>10. Accepted
  BY <1>1, <1>2, <1>9 DEF Accepted, assetLifecycle, attemptLifecycle, WorkInv, JobFollows, Settled
<1> QED
  BY <1>3, <1>4, <1>7, <1>8, <1>9, <1>10 DEF WorkInv

\* A derivative object is put, whether or not the attempt was taken over.
LEMMA DerivativeWork ==
  ASSUME WorkInv, NEW w \in Workers, NEW v \in Variants, ensureDerivativeVersion(w, v)
  PROVE  WorkInv' /\ Accepted
<1> DEFINE a == work[w].asset
           e == [work[w] EXCEPT !.done = work[w].done \cup {v}]
<1>t. /\ asset \in [Assets -> AssetStates] /\ stored \in [Assets -> SUBSET Variants]
      /\ work \in [Workers -> {Idle} \cup Running]
  BY DEF WorkInv, CleanupRows, WorkRows
<1>1. /\ work[w] # Idle /\ work' = [work EXCEPT ![w] = e] /\ stored' = [stored EXCEPT ![a] = stored[a] \cup {v}]
      /\ UNCHANGED <<asset, sourceDeleted, attempt, open, leased, job, tries, stalls, cleanup, torn, unrecorded>>
  BY DEF ensureDerivativeVersion, jobVars, historyVars
<1>e. /\ e \in Running /\ e # Idle /\ e.asset = a /\ a \in Assets /\ e.attempt = work[w].attempt
      /\ e.locked = work[w].locked /\ e.done = work[w].done \cup {v} /\ RunsFor(w, a)
  <2>1. work[w] \in Running
    BY <1>1, <1>t
  <2> QED
    BY <1>1, <2>1 DEF Running, Idle, RunsFor
<1> HIDE DEF e, a
<1>2. /\ work' \in [Workers -> {Idle} \cup Running] /\ stored' \in [Assets -> SUBSET Variants]
      /\ work'[w] = e /\ \A u \in Workers : u # w => work'[u] = work[u]
      /\ stored'[a] = stored[a] \cup {v} /\ \A b \in Assets : stored[b] \subseteq stored'[b] /\ stored'[b] \subseteq Variants
      /\ \A b \in Assets : stored[b] = Variants => stored'[b] = Variants
  BY <1>1, <1>e, <1>t
<1>3. CleanupRows' /\ CleanupFollows'
  <2>1. \A b \in Assets : Deleting(b)' <=> Deleting(b)
    BY <1>1 DEF Deleting
  <2> QED
    BY <1>1, <1>2, <2>1 DEF WorkInv, CleanupRows, CleanupFollows
<1>4. WorkRows'
  BY <1>1, <1>2 DEF WorkInv, WorkRows
<1>5. \A u \in Workers, b \in Assets : /\ RunsFor(u, b)' <=> RunsFor(u, b)
                                       /\ work'[u].attempt = work[u].attempt /\ work'[u].locked = work[u].locked
  <2>1. \A b : RunsFor(w, b)' <=> RunsFor(w, b)
    BY <1>1, <1>2, <1>e DEF RunsFor, a
  <2> QED
    BY <1>2, <1>e, <2>1 DEF RunsFor
<1>6. WorkerStands' /\ AttemptsDiffer'
  <2>1. ASSUME NEW u \in Workers, NEW b \in Assets, RunsFor(u, b), asset[b] \in {"pending", "processing"}
        PROVE  work'[u].done \subseteq stored'[b]
    <3>1. work[u].done \subseteq stored[b]
      BY <2>1 DEF WorkInv, WorkerStands
    <3>2. CASE u = w
      <4>1. b = a
        BY <2>1, <3>2 DEF RunsFor, a
      <4> QED
        BY <3>1, <3>2, <4>1, <1>2, <1>e
    <3>3. CASE u # w
      BY <3>1, <3>3, <1>2
    <3> QED
      BY <3>2, <3>3
  <2> QED
    BY <1>1, <1>5, <2>1 DEF WorkInv, WorkerStands, AttemptsDiffer
<1>7. JobFollows'
  BY <1>1 DEF WorkInv, JobFollows
<1>8. Accepted
  BY <1>1, <1>7 DEF Accepted, assetLifecycle, attemptLifecycle, WorkInv, JobFollows, Settled
<1> QED
  BY <1>3, <1>4, <1>6, <1>7, <1>8 DEF WorkInv

\* The end of an attempt: the job follows only if the worker still has its lock,
\* and a failure it may report leaves the queue another delivery.
LEMMA EndWork ==
  ASSUME WorkInv, NEW w \in Workers,
         finalizeReady(w) \/ finalizeFailure(w) \/ recordRetryableFailure(w) \/ attemptFenced(w)
  PROVE  WorkInv' /\ Accepted
<1> DEFINE a == work[w].asset
<1>t. /\ asset \in [Assets -> AssetStates] /\ job \in [Assets -> JobStates] /\ attempt \in [Assets -> 0 .. MaxAttempts]
      /\ stalls \in [Assets -> 0 .. MaxStalls + 1] /\ MaxStalls \in Nat /\ MaxAttempts \in Nat /\ JobAttempts \in Nat
      /\ tries \in [Assets -> Nat] /\ work \in [Workers -> {Idle} \cup Running] /\ stored \in [Assets -> SUBSET Variants]
  BY MediaConstants DEF WorkInv, CleanupRows, WorkRows
<1>s. {"pending", "ready", "failed"} \subseteq AssetStates /\ {"completed", "waiting", "failed"} \subseteq JobStates
  BY DEF AssetStates, JobStates
<1>0. work[w] # Idle
  BY DEF finalizeReady, finalizeFailure, recordRetryableFailure, attemptFenced
<1>w. work[w] \in Running /\ a \in Assets /\ RunsFor(w, a) /\ work[w].attempt \in Nat /\ work[w].done \subseteq Variants
  <2>1. work[w] \in Running
    BY <1>0, <1>t
  <2> QED
    BY <1>0, <2>1 DEF Running, RunsFor
\* The state of the asset.
<1>1. /\ UNCHANGED <<sourceDeleted, attempt, stalls, stored, cleanup, torn, unrecorded>>
      /\ work' = [work EXCEPT ![w] = Idle]
      /\ \/ UNCHANGED <<asset, open, leased>> /\ ~currentAttempt(w)
         \/ /\ currentAttempt(w) /\ open' = open \ {a} /\ leased' = leased \ {a}
            /\ \E v \in {"pending", "ready", "failed"} :
                 asset' = [asset EXCEPT ![a] = v] /\ (v = "ready" => work[w].done = Variants)
  BY DEF finalizeReady, finalizeFailure, recordRetryableFailure, attemptFenced, endDelivery, historyVars
<1> HIDE DEF a
<1>2. work[w].locked => /\ currentAttempt(w) /\ work[w].attempt = attempt[a] /\ job[a] = "active"
                        /\ tries[a] < attempt[a] \/ a \in unrecorded
  BY <1>w DEF WorkInv, WorkerStands, JobFollows, currentAttempt, a
\* The job and its failures.
<1>3. \/ UNCHANGED <<job, tries>> /\ ~work[w].locked
      \/ /\ work[w].locked /\ job[a] = "active"
         /\ \/ job' = [job EXCEPT ![a] = "completed"] /\ tries' = tries
            \/ /\ job' = [job EXCEPT ![a] = "waiting"] /\ tries[a] + 1 < JobAttempts
               /\ tries' = [tries EXCEPT ![a] = tries[a] + 1]
            \/ /\ job' = [job EXCEPT ![a] = "failed"] /\ tries[a] + 1 <= JobAttempts /\ a \in unrecorded
               /\ tries' = [tries EXCEPT ![a] = tries[a] + 1]
  <2>1. CASE ~work[w].locked
    BY <2>1 DEF finalizeReady, finalizeFailure, recordRetryableFailure, attemptFenced, endDelivery
  <2>2. CASE work[w].locked /\ (finalizeReady(w) \/ finalizeFailure(w))
    BY <1>2, <2>2 DEF finalizeReady, finalizeFailure, endDelivery, a
  <2>3. CASE work[w].locked /\ recordRetryableFailure(w)
    <3>1. /\ work[w].attempt < MaxAttempts /\ tries' = [tries EXCEPT ![a] = tries[a] + 1]
          /\ job' = [job EXCEPT ![a] = IF tries[a] + 1 >= JobAttempts THEN "failed" ELSE "waiting"]
      BY <2>3 DEF recordRetryableFailure, endDelivery, failJob, a
    <3>2. tries[a] \in Nat /\ tries[a] + 1 <= JobAttempts
      <4>1. tries[a] \in Nat /\ tries[a] < JobAttempts
        BY <1>2, <1>t, <1>w, <2>3 DEF WorkInv, JobFollows
      <4> QED
        BY <4>1, <1>t
    <3>3. tries[a] + 1 >= JobAttempts => a \in unrecorded
      <4>1. /\ tries[a] \in Nat /\ attempt[a] \in Nat /\ attempt[a] < MaxAttempts
            /\ tries[a] < attempt[a] \/ a \in unrecorded
        BY <1>2, <1>t, <1>w, <2>3, <3>1
      <4> QED
        BY <4>1, <1>t, LimitsAgree
    <3>4. CASE tries[a] + 1 >= JobAttempts
      BY <1>2, <2>3, <3>1, <3>2, <3>3, <3>4
    <3>5. CASE ~(tries[a] + 1 >= JobAttempts)
      <4>1. tries[a] + 1 < JobAttempts
        BY <3>2, <3>5, <1>t
      <4> QED
        BY <1>2, <2>3, <3>1, <3>5, <4>1
    <3> QED
      BY <3>4, <3>5
  <2>4. CASE work[w].locked /\ attemptFenced(w)
    BY <1>2, <2>4 DEF attemptFenced
  <2> QED
    BY <2>1, <2>2, <2>3, <2>4
<1>4. /\ asset' \in [Assets -> AssetStates] /\ job' \in [Assets -> JobStates] /\ tries' \in [Assets -> Nat]
      /\ work' \in [Workers -> {Idle} \cup Running] /\ open' \subseteq Assets /\ leased' \subseteq Assets
      /\ \A b \in Assets : b # a => /\ asset'[b] = asset[b] /\ job'[b] = job[b] /\ tries'[b] = tries[b]
                                    /\ b \in open' <=> b \in open
      /\ work'[w] = Idle /\ \A v \in Workers : v # w => work'[v] = work[v]
  <2>1. asset' \in [Assets -> AssetStates] /\ job' \in [Assets -> JobStates]
    BY <1>1, <1>3, <1>s, <1>t
  <2>2. tries' \in [Assets -> Nat] /\ work' \in [Workers -> {Idle} \cup Running]
    BY <1>1, <1>3, <1>t, <1>w
  <2>3. open' \subseteq Assets /\ leased' \subseteq Assets
    BY <1>1 DEF WorkInv, WorkRows
  <2> QED
    BY <1>1, <1>3, <1>t, <2>1, <2>2, <2>3
<1>n. \A b \in Assets : /\ attempt[b] \in Nat /\ tries[b] \in Nat /\ (tries[b] <= attempt[b] \/ b \in unrecorded)
                        /\ tries[b] <= JobAttempts /\ (job[b] # "failed" => tries[b] < JobAttempts)
  BY <1>t DEF WorkInv, JobFollows
<1>5. \/ asset'[a] = asset[a] /\ (a \in open' <=> a \in open) /\ job'[a] = job[a] /\ tries'[a] = tries[a]
         /\ ~work[w].locked
      \/ /\ asset[a] = "processing" /\ asset'[a] \in {"pending", "ready", "failed"} /\ a \notin open'
         /\ work[w].attempt = attempt[a]
         /\ asset'[a] = "ready" => work[w].done = Variants
         /\ \/ job'[a] = job[a] /\ tries'[a] = tries[a]
            \/ /\ job[a] = "active" /\ job'[a] \in {"completed", "waiting", "failed"}
               /\ tries[a] < attempt[a] \/ a \in unrecorded
               /\ tries'[a] \in {tries[a], tries[a] + 1} /\ tries'[a] <= JobAttempts
               /\ IF job'[a] = "failed" THEN a \in unrecorded ELSE tries'[a] < JobAttempts
  <2>1. CASE ~currentAttempt(w)
    BY <1>1, <1>2, <1>3, <2>1
  <2>2. CASE currentAttempt(w)
    <3>1. /\ asset[a] = "processing" /\ asset'[a] \in {"pending", "ready", "failed"} /\ a \notin open'
          /\ work[w].attempt = attempt[a] /\ (asset'[a] = "ready" => work[w].done = Variants)
      BY <1>1, <1>t, <1>w, <2>2 DEF currentAttempt, a
    <3>2. \/ job'[a] = job[a] /\ tries'[a] = tries[a]
          \/ /\ job[a] = "active" /\ job'[a] \in {"completed", "waiting", "failed"}
             /\ tries[a] < attempt[a] \/ a \in unrecorded
             /\ tries'[a] \in {tries[a], tries[a] + 1} /\ tries'[a] <= JobAttempts
             /\ IF job'[a] = "failed" THEN a \in unrecorded ELSE tries'[a] < JobAttempts
      <4>1. tries[a] \in Nat /\ (job[a] # "failed" => tries[a] < JobAttempts)
        BY <1>n, <1>w
      <4>2. CASE ~work[w].locked
        BY <1>3, <4>2
      <4>3. CASE work[w].locked /\ job' = [job EXCEPT ![a] = "completed"] /\ tries' = tries
        <5>1. job'[a] = "completed" /\ tries'[a] = tries[a]
          BY <4>3, <1>t, <1>w
        <5> QED
          BY <1>2, <1>t, <4>1, <4>3, <5>1
      <4>4. CASE /\ work[w].locked /\ job' = [job EXCEPT ![a] = "waiting"] /\ tries[a] + 1 < JobAttempts
                 /\ tries' = [tries EXCEPT ![a] = tries[a] + 1]
        <5>1. job'[a] = "waiting" /\ tries'[a] = tries[a] + 1
          BY <4>4, <1>t, <1>w
        <5> QED
          BY <1>2, <1>t, <4>1, <4>4, <5>1
      <4>5. CASE /\ work[w].locked /\ job' = [job EXCEPT ![a] = "failed"] /\ tries[a] + 1 <= JobAttempts
                 /\ a \in unrecorded /\ tries' = [tries EXCEPT ![a] = tries[a] + 1]
        <5>1. job'[a] = "failed" /\ tries'[a] = tries[a] + 1
          BY <4>5, <1>t, <1>w
        <5> QED
          BY <1>2, <1>t, <4>1, <4>5, <5>1
      <4> QED
        BY <1>3, <4>2, <4>3, <4>4, <4>5
    <3> QED
      BY <3>1, <3>2
  <2> QED
    BY <2>1, <2>2
<1>6. CleanupRows' /\ CleanupFollows'
  <2>1. asset'[a] = "ready" => asset[a] = "ready" \/ stored[a] = Variants
    <3>1. asset[a] = "processing" => work[w].done \subseteq stored[a]
      BY <1>w DEF WorkInv, WorkerStands
    <3>2. stored[a] \subseteq Variants
      BY <1>t, <1>w
    <3> QED
      BY <1>5, <3>1, <3>2
  <2> QED
    BY <1>1, <1>4, <1>5, <2>1, CleanupWaits DEF WorkInv
<1>7. WorkRows'
  BY <1>1, <1>4 DEF WorkInv, WorkRows
<1>8. \A v \in Workers, b \in Assets : RunsFor(v, b)' <=> v # w /\ RunsFor(v, b)
  BY <1>4 DEF RunsFor
<1>9. AttemptsDiffer'
  BY <1>4, <1>8 DEF WorkInv, AttemptsDiffer
<1>10. WorkerStands'
  <2> SUFFICES ASSUME NEW v \in Workers, NEW b \in Assets, v # w, RunsFor(v, b)
               PROVE
    /\ asset'[b] \notin {"none", "awaiting_upload"} /\ work[v].attempt <= attempt[b]
    /\ work[v].locked => /\ work[v].attempt = attempt[b] /\ (tries'[b] < attempt[b] \/ b \in unrecorded)
                         /\ asset'[b] = "processing" /\ job'[b] = "active"
    /\ asset'[b] \in {"pending", "processing"} => work[v].done \subseteq stored[b]
    BY <1>1, <1>4, <1>8 DEF WorkerStands
  <2>1. /\ asset[b] \notin {"none", "awaiting_upload"} /\ work[v].attempt <= attempt[b]
        /\ work[v].locked => /\ work[v].attempt = attempt[b] /\ (tries[b] < attempt[b] \/ b \in unrecorded)
                             /\ asset[b] = "processing" /\ job[b] = "active"
        /\ asset[b] \in {"pending", "processing"} => work[v].done \subseteq stored[b]
    BY DEF WorkInv, WorkerStands
  <2>2. CASE b # a
    <3>1. /\ asset'[b] = asset[b] /\ job'[b] = job[b] /\ tries'[b] = tries[b]
          /\ b \in open' <=> b \in open
      BY <1>4, <2>2
    <3> QED
      BY <2>1, <3>1
  <2>3. CASE b = a
    <3>1. work[v].attempt # work[w].attempt
      BY <1>w, <2>3 DEF WorkInv, AttemptsDiffer
    <3> QED
      BY <1>5, <2>1, <2>3, <3>1
  <2> QED
    BY <2>2, <2>3
<1>11. JobFollows'
  <2> SUFFICES ASSUME NEW b \in Assets
               PROVE
    /\ b \in open' <=> asset'[b] = "processing"
    /\ tries'[b] <= attempt[b] \/ b \in unrecorded
    /\ tries'[b] <= JobAttempts /\ (job'[b] # "failed" => tries'[b] < JobAttempts)
    /\ job'[b] = "failed" => stalls[b] > MaxStalls \/ b \in unrecorded
    /\ stalls[b] > MaxStalls => job'[b] = "failed"
    /\ job'[b] = "none" <=> asset'[b] \in {"none", "awaiting_upload"}
    /\ b \in sourceDeleted => asset'[b] \in Settled
    BY <1>1 DEF JobFollows
  <2>1. /\ b \in open <=> asset[b] = "processing"
        /\ tries[b] <= attempt[b] \/ b \in unrecorded
        /\ tries[b] <= JobAttempts /\ (job[b] # "failed" => tries[b] < JobAttempts)
        /\ job[b] = "failed" => stalls[b] > MaxStalls \/ b \in unrecorded
        /\ stalls[b] > MaxStalls => job[b] = "failed"
        /\ job[b] = "none" <=> asset[b] \in {"none", "awaiting_upload"}
        /\ b \in sourceDeleted => asset[b] \in Settled
    BY DEF WorkInv, JobFollows
  <2>2. CASE b # a
    <3>1. /\ asset'[b] = asset[b] /\ job'[b] = job[b] /\ tries'[b] = tries[b]
          /\ b \in open' <=> b \in open
      BY <1>4, <2>2
    <3> QED
      BY <2>1, <3>1
  <2>3. CASE b = a
    <3>1. tries'[a] <= attempt[a] \/ a \in unrecorded
      BY <1>5, <1>n, <1>w
    <3> QED
      BY <1>5, <2>1, <2>3, <3>1 DEF Settled
  <2> QED
    BY <2>2, <2>3
<1>12. Accepted
  <2> SUFFICES ASSUME NEW b \in Assets PROVE assetLifecycle(b) /\ attemptLifecycle(b)
    BY DEF Accepted
  <2>1. attemptLifecycle(b)
    BY <1>1, <1>4, <1>5, <1>11 DEF attemptLifecycle, JobFollows
  <2>2. CASE b # a
    BY <1>1, <1>4, <2>1, <2>2 DEF assetLifecycle, WorkInv, JobFollows, Settled
  <2>3. CASE b = a
    BY <1>1, <1>5, <2>1, <2>3 DEF assetLifecycle, WorkInv, JobFollows, Settled
  <2> QED
    BY <2>2, <2>3
<1> QED
  BY <1>6, <1>7, <1>9, <1>10, <1>11, <1>12 DEF WorkInv

\* A worker dies, or its job stalls: the queue delivers again or gives the job up.
LEMMA FaultWork ==
  ASSUME WorkInv, (\E w \in Workers : workerDies(w)) \/ (\E a \in Assets : jobStalls(a))
  PROVE  WorkInv' /\ Accepted
<1>t. /\ job \in [Assets -> JobStates] /\ stalls \in [Assets -> 0 .. MaxStalls + 1] /\ MaxStalls \in Nat
      /\ work \in [Workers -> {Idle} \cup Running]
  BY MediaConstants DEF WorkInv, WorkRows
<1>0. UNCHANGED <<asset, sourceDeleted, attempt, open, leased, tries, stored, cleanup, torn, unrecorded>>
  BY DEF workerDies, jobStalls, jobVars, historyVars
<1>1. CleanupRows' /\ CleanupFollows'
  BY <1>0 DEF WorkInv, CleanupRows, CleanupFollows, Deleting
<1>2. CASE \E w \in Workers : workerDies(w)
  <2> PICK w \in Workers : workerDies(w)
    BY <1>2
  <2>1. work' = [work EXCEPT ![w] = Idle] /\ UNCHANGED <<job, stalls>>
    BY DEF workerDies, jobVars
  <2>2. work' \in [Workers -> {Idle} \cup Running]
    BY <2>1, <1>t
  <2>3. \A v \in Workers, b \in Assets : RunsFor(v, b)' => RunsFor(v, b) /\ work'[v] = work[v]
    BY <2>1, <1>t DEF RunsFor
  <2>4. WorkRows'
    BY <1>0, <2>1, <2>2 DEF WorkInv, WorkRows
  <2>5. WorkerStands' /\ AttemptsDiffer'
    BY <1>0, <2>1, <2>3 DEF WorkInv, WorkerStands, AttemptsDiffer
  <2>6. JobFollows'
    BY <1>0, <2>1 DEF WorkInv, JobFollows
  <2>7. Accepted
    BY <1>0, <2>6 DEF Accepted, assetLifecycle, attemptLifecycle, WorkInv, JobFollows, Settled
  <2> QED
    BY <1>1, <2>4, <2>5, <2>6, <2>7 DEF WorkInv
<1>3. CASE \E a \in Assets : jobStalls(a)
  <2> PICK a \in Assets : jobStalls(a)
    BY <1>3
  <2>1. /\ job[a] = "active" /\ stalls' = [stalls EXCEPT ![a] = stalls[a] + 1]
        /\ job' = [job EXCEPT ![a] = IF stalls[a] < MaxStalls THEN "waiting" ELSE "failed"]
        /\ work' = [w \in Workers |-> IF work[w] # Idle /\ work[w].asset = a
                                     THEN [work[w] EXCEPT !.locked = FALSE] ELSE work[w]]
    BY DEF jobStalls
  <2>2. ~(stalls[a] > MaxStalls) /\ stalls[a] \in Nat
    BY <2>1, <1>t DEF WorkInv, JobFollows
  <2>3. /\ stalls' \in [Assets -> 0 .. MaxStalls + 1] /\ job' \in [Assets -> JobStates]
        /\ \A b \in Assets : b # a => job'[b] = job[b] /\ stalls'[b] = stalls[b]
        /\ job'[a] \in {"waiting", "failed"} /\ (job'[a] = "failed" <=> stalls'[a] > MaxStalls)
    <3>1. {"waiting", "failed"} \subseteq JobStates
      BY DEF JobStates
    <3>2. stalls[a] + 1 \in 0 .. MaxStalls + 1
      BY <2>2, <1>t
    <3> QED
      BY <2>1, <2>2, <3>1, <3>2, <1>t
  <2>4. ASSUME NEW w \in Workers
        PROVE  /\ work'[w] \in {Idle} \cup Running
               /\ \A b \in Assets : RunsFor(w, b)' <=> RunsFor(w, b)
               /\ work[w] # Idle => /\ work'[w].attempt = work[w].attempt /\ work'[w].done = work[w].done
                                    /\ work'[w].locked => work[w].locked /\ work[w].asset # a
    <3>1. CASE work[w] # Idle /\ work[w].asset = a
      <4>1. work'[w] = [work[w] EXCEPT !.locked = FALSE] /\ work[w] \in Running
        BY <2>1, <3>1, <1>t
      <4>2. /\ work'[w] \in Running /\ work'[w].asset = work[w].asset /\ work'[w] # Idle
            /\ work'[w].attempt = work[w].attempt /\ work'[w].done = work[w].done /\ work'[w].locked = FALSE
        BY <4>1 DEF Running, Idle
      <4> QED
        BY <3>1, <4>2 DEF RunsFor
    <3>2. CASE ~(work[w] # Idle /\ work[w].asset = a)
      <4>1. work'[w] = work[w]
        BY <2>1, <3>2
      <4> QED
        BY <3>2, <4>1, <1>t DEF RunsFor
    <3> QED
      BY <3>1, <3>2
  <2>5. WorkRows'
    <3>1. work' \in [Workers -> {Idle} \cup Running]
      BY <2>1, <2>4
    <3> QED
      BY <1>0, <2>3, <3>1 DEF WorkInv, WorkRows
  <2>6. AttemptsDiffer'
    BY <2>4 DEF WorkInv, AttemptsDiffer, RunsFor
  <2>7. WorkerStands'
    <3> SUFFICES ASSUME NEW w \in Workers, NEW b \in Assets, RunsFor(w, b)
                 PROVE
      /\ asset[b] \notin {"none", "awaiting_upload"} /\ work'[w].attempt <= attempt[b]
      /\ work'[w].locked => /\ work'[w].attempt = attempt[b] /\ (tries[b] < attempt[b] \/ b \in unrecorded)
                            /\ asset[b] = "processing" /\ job'[b] = "active"
      /\ asset[b] \in {"pending", "processing"} => work'[w].done \subseteq stored[b]
      BY <1>0, <2>4 DEF WorkerStands
    <3>1. /\ work'[w].attempt = work[w].attempt /\ work'[w].done = work[w].done
          /\ work'[w].locked => work[w].locked /\ b # a
      BY <2>4 DEF RunsFor
    <3> QED
      BY <2>3, <3>1 DEF WorkInv, WorkerStands
  <2>8. JobFollows'
    BY <1>0, <2>1, <2>3 DEF WorkInv, JobFollows
  <2>9. Accepted
    BY <1>0, <2>8 DEF Accepted, assetLifecycle, attemptLifecycle, WorkInv, JobFollows, Settled
  <2> QED
    BY <1>1, <2>5, <2>6, <2>7, <2>8, <2>9 DEF WorkInv
<1> QED
  BY <1>2, <1>3

\* A delivery fails without a record: it costs the job a try, and the asset is noted.
LEMMA UnrecordedWork ==
  ASSUME WorkInv, (\E w \in Workers : failureUnrecorded(w)) \/ (\E a \in Assets : claimFails(a))
  PROVE  WorkInv' /\ Accepted
<1>t. /\ job \in [Assets -> JobStates] /\ tries \in [Assets -> Nat] /\ JobAttempts \in Nat
      /\ work \in [Workers -> {Idle} \cup Running] /\ unrecorded \subseteq Assets
  BY MediaConstants DEF WorkInv, WorkRows
<1>0. UNCHANGED <<asset, sourceDeleted, attempt, open, leased, stalls, stored, cleanup, torn>>
  BY DEF failureUnrecorded, claimFails, endDelivery
\* The job that is failed, if there is one: its lock is free afterwards.
<1> DEFINE Counts(a) == /\ job[a] \in {"waiting", "active"} /\ failJob(a) /\ unrecorded' = unrecorded \cup {a}
                        /\ \A v \in Workers : RunsFor(v, a)' => ~work[v].locked
<1>1. /\ work' \in [Workers -> {Idle} \cup Running]
      /\ \A v \in Workers, b \in Assets : RunsFor(v, b)' => RunsFor(v, b) /\ work'[v] = work[v]
      /\ UNCHANGED <<job, tries, unrecorded>> \/ \E a \in Assets : Counts(a)
  <2>1. ASSUME NEW a \in Assets, claimFails(a)
        PROVE  UNCHANGED work /\ Counts(a)
    <3>1. job[a] = "waiting" /\ failJob(a) /\ unrecorded' = unrecorded \cup {a} /\ UNCHANGED work
      BY <2>1 DEF claimFails
    <3> QED
      BY <3>1 DEF WorkInv, WorkerStands, RunsFor
  <2>2. ASSUME NEW w \in Workers, failureUnrecorded(w)
        PROVE  /\ work' = [work EXCEPT ![w] = Idle]
               /\ UNCHANGED <<job, tries, unrecorded>> \/ \E a \in Assets : Counts(a)
    <3>1. work[w] # Idle /\ work' = [work EXCEPT ![w] = Idle]
      BY <2>2 DEF failureUnrecorded, endDelivery
    <3>2. CASE ~work[w].locked
      BY <2>2, <3>1, <3>2 DEF failureUnrecorded, endDelivery
    <3>3. CASE work[w].locked
      <4>0. PICK a \in Assets : a = work[w].asset
        BY <3>1, <1>t DEF Running
      <4>1. RunsFor(w, a)
        BY <3>1, <4>0 DEF RunsFor
      <4>2. failJob(a) /\ unrecorded' = unrecorded \cup {a}
        BY <2>2, <3>3, <4>0 DEF failureUnrecorded, endDelivery
      <4>3. job[a] = "active" /\ work[w].attempt = attempt[a]
        BY <3>3, <4>1 DEF WorkInv, WorkerStands
      <4>4. ASSUME NEW v \in Workers, RunsFor(v, a)' PROVE ~work[v].locked
        <5>1. v # w /\ RunsFor(v, a)
          BY <3>1, <4>4, <1>t DEF RunsFor
        <5>2. work[v].attempt # work[w].attempt
          BY <4>1, <5>1 DEF WorkInv, AttemptsDiffer
        <5> QED
          BY <4>1, <4>3, <5>1, <5>2 DEF WorkInv, WorkerStands
      <4> QED
        BY <3>1, <4>1, <4>2, <4>3, <4>4
    <3> QED
      BY <3>1, <3>2, <3>3
  <2> HIDE DEF Counts
  <2>3. CASE \E a \in Assets : claimFails(a)
    BY <2>1, <2>3, <1>t DEF RunsFor
  <2>4. CASE \E w \in Workers : failureUnrecorded(w)
    BY <2>2, <2>4, <1>t DEF RunsFor
  <2> QED
    BY <2>3, <2>4
<1>2. CleanupRows' /\ CleanupFollows'
  BY <1>0 DEF WorkInv, CleanupRows, CleanupFollows, Deleting
<1>3. AttemptsDiffer'
  BY <1>1 DEF WorkInv, AttemptsDiffer
<1>4. CASE UNCHANGED <<job, tries, unrecorded>>
  <2>1. WorkRows'
    BY <1>0, <1>1, <1>4 DEF WorkInv, WorkRows
  <2>2. WorkerStands'
    BY <1>0, <1>1, <1>4 DEF WorkInv, WorkerStands
  <2>3. JobFollows'
    BY <1>0, <1>4 DEF WorkInv, JobFollows
  <2>4. Accepted
    BY <1>0, <2>3 DEF Accepted, assetLifecycle, attemptLifecycle, WorkInv, JobFollows, Settled
  <2> QED
    BY <1>2, <1>3, <2>1, <2>2, <2>3, <2>4 DEF WorkInv
<1>5. CASE \E a \in Assets : Counts(a)
  <2> PICK a \in Assets : Counts(a)
    BY <1>5
  <2>1. /\ job[a] \in {"waiting", "active"} /\ unrecorded' = unrecorded \cup {a}
        /\ tries' = [tries EXCEPT ![a] = tries[a] + 1]
        /\ job' = [job EXCEPT ![a] = IF tries[a] + 1 >= JobAttempts THEN "failed" ELSE "waiting"]
        /\ \A v \in Workers : RunsFor(v, a)' => ~work[v].locked
    BY DEF failJob
  <2>2. tries[a] \in Nat /\ tries[a] < JobAttempts
    BY <2>1, <1>t DEF WorkInv, JobFollows
  <2>3. /\ job' \in [Assets -> JobStates] /\ tries' \in [Assets -> Nat] /\ unrecorded' \subseteq Assets
        /\ \A b \in Assets : b # a => /\ job'[b] = job[b] /\ tries'[b] = tries[b]
                                      /\ b \in unrecorded' <=> b \in unrecorded
        /\ job'[a] \in {"waiting", "failed"} /\ a \in unrecorded'
        /\ tries'[a] <= JobAttempts /\ (job'[a] # "failed" => tries'[a] < JobAttempts)
    <3>1. {"waiting", "failed"} \subseteq JobStates
      BY DEF JobStates
    <3>2. job' \in [Assets -> JobStates] /\ tries' \in [Assets -> Nat] /\ unrecorded' \subseteq Assets
      BY <2>1, <2>2, <3>1, <1>t
    <3>3. tries'[a] = tries[a] + 1 /\ job'[a] = IF tries[a] + 1 >= JobAttempts THEN "failed" ELSE "waiting"
      BY <2>1, <1>t
    <3> QED
      BY <2>1, <2>2, <3>2, <3>3, <1>t
  <2>4. WorkRows'
    BY <1>0, <1>1, <2>3 DEF WorkInv, WorkRows
  <2>5. WorkerStands'
    <3> SUFFICES ASSUME NEW v \in Workers, NEW b \in Assets, RunsFor(v, b)'
                 PROVE
      /\ asset[b] \notin {"none", "awaiting_upload"} /\ work[v].attempt <= attempt[b]
      /\ work[v].locked => /\ work[v].attempt = attempt[b] /\ (tries'[b] < attempt[b] \/ b \in unrecorded')
                           /\ asset[b] = "processing" /\ job'[b] = "active"
      /\ asset[b] \in {"pending", "processing"} => work[v].done \subseteq stored[b]
      BY <1>0, <1>1 DEF WorkerStands
    <3>1. RunsFor(v, b)
      BY <1>1
    <3>2. CASE b = a
      BY <2>1, <3>1, <3>2 DEF WorkInv, WorkerStands
    <3>3. CASE b # a
      BY <2>3, <3>1, <3>3 DEF WorkInv, WorkerStands
    <3> QED
      BY <3>2, <3>3
  <2>6. JobFollows'
    <3>1. ~(stalls[a] > MaxStalls) /\ (job[a] = "none" <=> asset[a] \in {"none", "awaiting_upload"})
      BY <2>1 DEF WorkInv, JobFollows
    <3> QED
      BY <1>0, <2>1, <2>3, <3>1 DEF WorkInv, JobFollows
  <2>7. Accepted
    BY <1>0, <2>6 DEF Accepted, assetLifecycle, attemptLifecycle, WorkInv, JobFollows, Settled
  <2> QED
    BY <1>2, <1>3, <2>4, <2>5, <2>6, <2>7 DEF WorkInv
<1> QED
  BY <1>1, <1>4, <1>5

\* The cleanup: what it has checked is still so when it deletes.
LEMMA CleanupWork ==
  ASSUME WorkInv, NEW refs, NEW held, cleanupSteps(refs, held)
  PROVE  WorkInv' /\ Accepted
<1>t. /\ asset \in [Assets -> AssetStates] /\ stored \in [Assets -> SUBSET Variants]
      /\ cleanup = NoCleanup \/ cleanup \in [stage : {"claimed", "checked"}, asset : Assets, rule : Rules]
      /\ sourceDeleted \subseteq Assets /\ torn \subseteq Assets
  BY DEF WorkInv, CleanupRows, WorkRows
<1>0. UNCHANGED <<attempt, open, leased, job, tries, stalls, work, unrecorded>>
  BY DEF cleanupSteps, claimCandidates, candidateStillEligible, deleteSource, deleteDerivative, deleteDerivatives,
         cleanupFails, jobVars, historyVars
<1>k. cleanup.stage # "none" => cleanup \in [stage : {"claimed", "checked"}, asset : Assets, rule : Rules] /\ cleanup.asset \in Assets
  BY <1>t DEF NoCleanup
<1> DEFINE x == cleanup.asset
\* What an action of the cleanup leaves to show.
<1> DEFINE Goal ==
      /\ CleanupRows' /\ CleanupFollows'
      /\ stored' \in [Assets -> SUBSET Variants] /\ sourceDeleted' \subseteq Assets /\ torn' \subseteq Assets
      /\ \A b \in Assets : asset[b] # "ready" => stored'[b] = stored[b]
      /\ \A b \in Assets : asset'[b] = asset[b] \/ (asset[b] = "ready" /\ asset'[b] = "deleted")
      /\ \A b \in Assets : b \in sourceDeleted => b \in sourceDeleted'
      /\ \A b \in Assets : b \in sourceDeleted' => b \in sourceDeleted \/ asset[b] \in {"ready", "failed"}
<1>f. /\ cleanup.stage = "checked" => asset[x] = IF cleanup.rule = "failed_quarantine" THEN "failed" ELSE "ready"
      /\ \A b \in Assets : (asset[b] = "ready" /\ b \notin torn /\ ~Deleting(b)) => stored[b] = Variants
  BY DEF WorkInv, CleanupFollows
<1>1. ASSUME NEW b \in Assets, NEW rule \in Rules, claimCandidates(b, rule, refs) PROVE Goal
  <2>1. /\ cleanup' = [stage |-> "claimed", asset |-> b, rule |-> rule] /\ UNCHANGED <<asset, sourceDeleted, stored, torn>>
        /\ cleanup = NoCleanup
    BY <1>1 DEF claimCandidates, historyVars
  <2>2. \A c : ~Deleting(c) /\ ~Deleting(c)'
    BY <2>1 DEF Deleting, NoCleanup
  <2>3. CleanupRows'
    BY <2>1, <1>t DEF CleanupRows
  <2> QED
    BY <2>1, <2>2, <2>3, <1>t, <1>f DEF CleanupFollows
<1>2. ASSUME candidateStillEligible(refs, held) PROVE Goal
  <2>1. /\ cleanup.stage = "claimed" /\ UNCHANGED <<asset, sourceDeleted, stored, torn>>
        /\ \/ cleanup' = NoCleanup
           \/ cleanup' = [cleanup EXCEPT !.stage = "checked"] /\ eligible(cleanup.asset, cleanup.rule, refs)
    BY <1>2 DEF candidateStillEligible, historyVars
  <2>2. \A c : ~Deleting(c)
    BY <2>1 DEF Deleting
  <2>3. CASE cleanup' = NoCleanup
    <3>1. cleanup'.stage # "checked"
      BY <2>3 DEF NoCleanup
    <3>2. CleanupRows'
      BY <2>1, <2>3, <1>t DEF CleanupRows
    <3> QED
      BY <2>1, <2>2, <3>1, <3>2, <1>t, <1>f DEF CleanupFollows
  <2>4. CASE cleanup' = [cleanup EXCEPT !.stage = "checked"] /\ eligible(cleanup.asset, cleanup.rule, refs)
    <3>1. /\ cleanup' \in [stage : {"claimed", "checked"}, asset : Assets, rule : Rules]
          /\ cleanup'.asset = x /\ cleanup'.rule = cleanup.rule /\ cleanup.rule \in Rules
      BY <2>1, <2>4, <1>k
    <3>2. asset[x] = IF cleanup.rule = "failed_quarantine" THEN "failed" ELSE "ready"
      BY <2>4, <3>1 DEF eligible, Rules
    <3>3. CleanupRows'
      BY <2>1, <3>1, <1>t DEF CleanupRows
    <3> QED
      BY <2>1, <2>2, <3>1, <3>2, <3>3, <1>t, <1>f DEF CleanupFollows
  <2> QED
    BY <2>1, <2>3, <2>4
<1>3. ASSUME deleteSource PROVE Goal
  <2>1. /\ cleanup.stage = "checked" /\ cleanup.rule \notin Derivatives /\ cleanup' = NoCleanup
        /\ sourceDeleted' = sourceDeleted \cup {x} /\ UNCHANGED <<asset, stored, torn>>
    BY <1>3 DEF deleteSource, Derivatives, historyVars
  <2>2. (\A c : ~Deleting(c) /\ ~Deleting(c)') /\ cleanup'.stage # "checked" /\ CleanupRows'
    BY <2>1, <1>t DEF Deleting, NoCleanup, CleanupRows
  <2>3. x \in Assets /\ asset[x] \in {"ready", "failed"}
    BY <2>1, <1>k, <1>f
  <2> QED
    BY <2>1, <2>2, <2>3, <1>t, <1>f DEF CleanupFollows
<1>4. ASSUME NEW v \in Variants, deleteDerivative(v) PROVE Goal
  <2>1. /\ cleanup.stage = "checked" /\ cleanup.rule \in Derivatives
        /\ stored' = [stored EXCEPT ![x] = stored[x] \ {v}] /\ UNCHANGED <<asset, sourceDeleted, cleanup, torn>>
    BY <1>4 DEF deleteDerivative, Derivatives, historyVars
  <2>2. x \in Assets /\ asset[x] = "ready"
    BY <2>1, <1>k, <1>f DEF Derivatives
  <2>3. /\ stored' \in [Assets -> SUBSET Variants] /\ \A b \in Assets : b # x => stored'[b] = stored[b]
    BY <2>1, <2>2, <1>t
  <2>4. \A b : (Deleting(b)' <=> Deleting(b)) /\ (Deleting(b) <=> b = x)
    BY <2>1 DEF Deleting
  <2>5. CleanupRows'
    BY <2>1, <1>t DEF CleanupRows
  <2> QED
    BY <2>1, <2>2, <2>3, <2>4, <2>5, <1>t, <1>f DEF CleanupFollows
<1>5. ASSUME deleteDerivatives PROVE Goal
  <2>1. /\ cleanup.stage = "checked" /\ cleanup.rule \in Derivatives /\ cleanup' = NoCleanup
        /\ asset' = [asset EXCEPT ![x] = "deleted"] /\ UNCHANGED <<sourceDeleted, stored, torn>>
    BY <1>5 DEF deleteDerivatives, Derivatives, historyVars
  <2>2. x \in Assets /\ asset[x] = "ready" /\ "deleted" \in AssetStates
    BY <2>1, <1>k, <1>f DEF Derivatives, AssetStates
  <2>3. asset' \in [Assets -> AssetStates] /\ asset'[x] = "deleted" /\ \A b \in Assets : b # x => asset'[b] = asset[b]
    BY <2>1, <2>2, <1>t
  <2>4. (\A b : ~Deleting(b)') /\ (\A b : Deleting(b) => b = x) /\ cleanup'.stage # "checked"
    BY <2>1 DEF Deleting, NoCleanup
  <2>5. CleanupRows'
    BY <2>1, <2>3 DEF CleanupRows
  <2> QED
    BY <2>1, <2>2, <2>3, <2>4, <2>5, <1>t, <1>f DEF CleanupFollows
<1>6. ASSUME cleanupFails PROVE Goal
  <2>1. /\ cleanup.stage = "checked" /\ cleanup' = NoCleanup /\ UNCHANGED <<asset, sourceDeleted, stored>>
        /\ torn' = IF stored[x] = Variants THEN torn ELSE torn \cup {x}
    BY <1>6 DEF cleanupFails
  <2>2. (\A b : ~Deleting(b)') /\ (\A b : Deleting(b) => b = x) /\ cleanup'.stage # "checked" /\ x \in Assets
    BY <2>1, <1>k DEF Deleting, NoCleanup
  <2>3. CleanupRows'
    BY <2>1, <1>t DEF CleanupRows
  <2>4. \A b \in Assets : b \notin torn' => b \notin torn /\ (b = x => stored[x] = Variants)
    BY <2>1
  <2> QED
    BY <2>1, <2>2, <2>3, <2>4, <1>t, <1>f DEF CleanupFollows
<1> HIDE DEF Goal
<1>7. Goal
  BY <1>1, <1>2, <1>3, <1>4, <1>5, <1>6 DEF cleanupSteps
<1>8. WorkRows'
  BY <1>0, <1>7 DEF WorkInv, WorkRows, Goal
<1>9. WorkerStands' /\ AttemptsDiffer'
  <2>1. AttemptsDiffer'
    BY <1>0 DEF WorkInv, AttemptsDiffer, RunsFor
  <2> QED
    BY <1>0, <1>7, <2>1 DEF WorkInv, WorkerStands, RunsFor, Goal
<1>10. JobFollows'
  BY <1>0, <1>7 DEF WorkInv, JobFollows, Settled, Goal
<1>11. Accepted
  <2> SUFFICES ASSUME NEW b \in Assets PROVE assetLifecycle(b) /\ attemptLifecycle(b)
    BY DEF Accepted
  <2>1. attemptLifecycle(b)
    BY <1>0, <1>10 DEF attemptLifecycle, JobFollows
  <2>2. assetLifecycle(b)
    BY <1>7, <1>10 DEF assetLifecycle, JobFollows, Settled, Goal
  <2> QED
    BY <2>1, <2>2
<1> QED
  BY <1>7, <1>8, <1>9, <1>10, <1>11 DEF WorkInv, Goal

\* No upload, no job, no cleanup.
LEMMA WorkStarts ==
  MediaInit => WorkInv
<1> SUFFICES ASSUME MediaInit PROVE WorkInv
  OBVIOUS
<1>c. MaxAttempts \in Nat /\ MaxStalls \in Nat /\ JobAttempts \in Nat \ {0}
  BY MediaConstants
<1>1. CleanupRows /\ CleanupFollows
  BY DEF MediaInit, CleanupRows, CleanupFollows, NoCleanup, AssetStates
<1>2. WorkRows
  BY <1>c DEF MediaInit, WorkRows, JobStates
<1>3. WorkerStands /\ AttemptsDiffer
  BY DEF MediaInit, WorkerStands, AttemptsDiffer, RunsFor
<1>4. JobFollows
  BY <1>c DEF MediaInit, JobFollows
<1> QED
  BY <1>1, <1>2, <1>3, <1>4 DEF WorkInv

\* A step of the store, as media sees it.
LEMMA WorkStep ==
  ASSUME WorkInv, StoreNext, ~UNCHANGED mediaVars
  PROVE  WorkInv' /\ Accepted
<1>1. ASSUME uploadStep PROVE WorkInv' /\ Accepted
  <2> PICK a \in Assets : createUploadIntent(a) \/ completeUpload(a, a \in references.draft)
    BY <1>1 DEF uploadStep
  <2>1. PICK o \in BOOLEAN : createUploadIntent(a) \/ completeUpload(a, o)
    BY DEF completeUpload
  <2> QED
    BY <2>1, UploadWork
<1>2. ASSUME workerStep PROVE WorkInv' /\ Accepted
  <2>1. ASSUME NEW w \in Workers, processing(w) PROVE WorkInv' /\ Accepted
    BY <2>1, ClaimWork, DerivativeWork, EndWork DEF processing
  <2>2. ASSUME processingFaults PROVE WorkInv' /\ Accepted
    BY <2>2, FaultWork, UnrecordedWork DEF processingFaults
  <2>3. ASSUME queueSteps PROVE WorkInv' /\ Accepted
    BY <2>3, QueueWork DEF queueSteps
  <2> QED
    BY <1>2, <2>1, <2>2, <2>3 DEF workerStep
<1>3. ASSUME cleanupStep PROVE WorkInv' /\ Accepted
  BY <1>3, CleanupWork DEF cleanupStep
<1>4. ~catalogStep /\ ~reportStep
  BY DEF catalogStep, reportStep
<1> QED
  BY <1>1, <1>2, <1>3, <1>4 DEF StoreNext

\* The invariant of media in every state of the store
\* (media-worker.ts, media-queue.ts, media-cleanup.ts).
THEOREM WorkAgrees == StoreSpec => []WorkInv
<1>1. StoreInit => WorkInv
  BY WorkStarts DEF StoreInit
<1>2. WorkInv /\ UNCHANGED mediaVars => WorkInv'
  BY DEF WorkInv, CleanupRows, WorkRows, WorkerStands, AttemptsDiffer, RunsFor, JobFollows, CleanupFollows, Deleting,
         mediaVars, jobVars, historyVars
<1>3. WorkInv /\ [StoreNext]_storeVars => WorkInv'
  <2>1. UNCHANGED storeVars => UNCHANGED mediaVars
    BY DEF storeVars
  <2> QED
    BY <1>2, <2>1, WorkStep
<1> QED
  BY <1>1, <1>3, PTL DEF StoreSpec

\* A ready asset is complete in storage, and a job gives up only after the database
\* has, after its worker was lost too often, or after a delivery that failed without
\* a record (media-worker.ts claimAsset, finalizeReady and recordRetryableFailure,
\* media-queue.ts).
THEOREM MediaStaysStored == StoreSpec => []MediaIsStored
<1>1. WorkInv => MediaIsStored
  <2> SUFFICES ASSUME WorkInv PROVE MediaIsStored
    OBVIOUS
  <2>t. /\ tries \in [Assets -> Nat] /\ attempt \in [Assets -> 0 .. MaxAttempts]
        /\ MaxAttempts \in Nat /\ JobAttempts \in Nat
    BY MediaConstants DEF WorkInv, WorkRows
  <2>1. tries \in [Assets -> 0 .. JobAttempts]
    <3>1. ASSUME NEW a \in Assets PROVE tries[a] \in 0 .. JobAttempts
      BY <2>t, LimitsAgree DEF WorkInv, JobFollows
    <3> QED
      BY <2>t, <3>1
  <2>2. MediaTypeOK
    BY <2>1 DEF WorkInv, CleanupRows, WorkRows, JobStates, MediaTypeOK
  <2>3. ReadyIsStored
    BY DEF WorkInv, CleanupFollows, Deleting, ReadyIsStored
  <2>4. JobsOutlastAttempts
    BY DEF WorkInv, JobFollows, JobsOutlastAttempts
  <2> QED
    BY <2>2, <2>3, <2>4 DEF MediaIsStored
<1> QED
  BY <1>1, WorkAgrees, PTL

\* Every write of an asset and its attempts passes the triggers of migration 0021,
\* whatever came back late.
THEOREM MediaIsAccepted == StoreSpec => LifecycleGuardsAccept
<1>1. WorkInv /\ [StoreNext]_storeVars =>
        [\A a \in Assets : assetLifecycle(a) /\ attemptLifecycle(a)]_mediaVars
  <2>1. UNCHANGED storeVars => UNCHANGED mediaVars
    BY DEF storeVars
  <2> QED
    BY <2>1, WorkStep DEF Accepted
<1> QED
  BY <1>1, WorkAgrees, PTL DEF StoreSpec, LifecycleGuardsAccept
---------------------------------------------------------------------------
(* A private file.                                                          *)

FileStates == {"none", "awaiting_upload", "scanning", "clean", "attached"} \cup TERMINAL
FileSteps  == {"queued", "overdue", "claimed", "opened", "intended", "copying", "copied", "purge", "done"}
FileRows ==
  /\ FileTypeOK
  /\ latest \in Versions \cup {0}
  /\ pc \in [Scans -> FileSteps]
  /\ seen \in [Scans -> Versions \cup {0}]
  /\ sweep = NoSweep \/ sweep \in [stage : {"read", "deleted"}, row : FileStates,
                                   marksClean : BOOLEAN, buckets : SUBSET Buckets]

\* A scan whose fence still holds has a file in scanning to itself, and nothing
\* of a scan is left on the row once it is over.
ScanHoldsRow ==
  /\ current # {} => state = "scanning" /\ ~retryAt
  /\ lease # "none" \/ retryAt => state = "scanning"
  /\ cleanCopy # <<>> => state \notin {"none", "awaiting_upload", "scanning"}

NothingInTransit == flying = {} /\ \A s \in Scans : pc[s] # "intended"

\* Only versions that passed are copied, not before the intent is on the row and
\* not after the closure period.
CopiesPassed ==
  /\ \A c \in clean \cup flying : c[2] \notin Harmful
  /\ \A s \in Scans : pc[s] = "intended" => seen[s] \notin Harmful
  /\ ~intent => clean = {} /\ NothingInTransit
  /\ "closure" \in late => state \in TERMINAL /\ NothingInTransit

NoMoreCopies == intent => "closure" \in late

\* What a purge read of a terminal row stays true until it marks the row.
SweepSeesRow ==
  sweep # NoSweep =>
    /\ sweep.row \in TERMINAL => state = sweep.row
    /\ "clean" \in sweep.buckets => sweep.row \in TERMINAL
    /\ sweep.marksClean => "clean" \in sweep.buckets /\ NoMoreCopies
    /\ sweep.marksClean /\ sweep.stage = "deleted" => clean = {}

CleanStampIsFinal ==
  "clean" \in stamps => state \in TERMINAL /\ clean = {} /\ NoMoreCopies

FileInv ==
  /\ FileRows /\ ScanHoldsRow /\ CopiesPassed /\ SweepSeesRow /\ CleanStampIsFinal
  /\ ServedBytesWereScanned

\* How the states of a file differ.
LEMMA FileNames ==
  /\ {"rejected", "scan_failed", "expired", "discarded", "deleted"} \subseteq TERMINAL
  /\ TERMINAL \cap {"none", "awaiting_upload", "scanning", "clean", "attached"} = {}
  /\ FileStates = {"none", "awaiting_upload", "scanning", "clean", "attached"} \cup TERMINAL
  /\ {"none", "awaiting_upload", "scanning", "clean", "attached"} \subseteq FileStates
BY DEF TERMINAL, FileStates

LEMMA FileStep ==
  ASSUME FileInv, FileNext
  PROVE  FileInv' /\ guardFile
<1> DEFINE Goal == FileInv' /\ guardFile
<1> SUFFICES Goal
  OBVIOUS
<1> HIDE DEF Goal
<1>0. /\ FileRows /\ ScanHoldsRow /\ CopiesPassed /\ SweepSeesRow /\ CleanStampIsFinal /\ ServedBytesWereScanned
  BY DEF FileInv
<1>1. CASE createUpload
  BY <1>1 DEF createUpload, TERMINAL, Buckets, NoSweep, Contexts, FileSteps, Goal, FileInv, FileRows,
         FileTypeOK, ScanHoldsRow, CopiesPassed, NothingInTransit, NoMoreCopies, SweepSeesRow,
         CleanStampIsFinal, ServedBytesWereScanned, guardFile, fileTransitions, rowVars, scanVars,
         storageVars, orderVars
<1>2. CASE completeFile
  BY <1>2 DEF completeFile, TERMINAL, Buckets, NoSweep, Contexts, FileSteps, Goal, FileInv, FileRows,
         FileTypeOK, ScanHoldsRow, CopiesPassed, NothingInTransit, NoMoreCopies, SweepSeesRow,
         CleanStampIsFinal, ServedBytesWereScanned, guardFile, fileTransitions, rowVars, scanVars,
         storageVars, orderVars
<1>3. CASE discard
  <2>1. FileRows'
    BY <1>0, <1>3, FileNames DEF discard, rowVars, scanVars, storageVars, orderVars, FileRows,
           FileTypeOK, Contexts, FileSteps, Buckets, NoSweep
  <2>2. ScanHoldsRow'
    BY <1>0, <1>3, FileNames DEF discard, rowVars, scanVars, storageVars, orderVars, ScanHoldsRow
  <2>3. CopiesPassed'
    BY <1>0, <1>3, FileNames DEF discard, rowVars, scanVars, storageVars, orderVars, CopiesPassed,
           NothingInTransit, ScanHoldsRow, FileRows, FileTypeOK
  <2>4. SweepSeesRow'
    BY <1>0, <1>3, FileNames DEF discard, rowVars, scanVars, storageVars, orderVars, SweepSeesRow,
           NoMoreCopies, NoSweep, ScanHoldsRow, FileRows, FileTypeOK
  <2>5. CleanStampIsFinal' /\ ServedBytesWereScanned'
    BY <1>0, <1>3, FileNames DEF discard, rowVars, scanVars, storageVars, orderVars,
           CleanStampIsFinal, NoMoreCopies, ServedBytesWereScanned, ScanHoldsRow, CopiesPassed,
           SweepSeesRow, NoSweep
  <2>6. guardFile
    BY <1>0, <1>3, FileNames DEF discard, rowVars, scanVars, storageVars, orderVars, guardFile,
           fileTransitions, ScanHoldsRow, CleanStampIsFinal, SweepSeesRow, NoMoreCopies, NoSweep, FileRows,
           FileTypeOK
  <2> QED
    BY <2>1, <2>2, <2>3, <2>4, <2>5, <2>6 DEF Goal, FileInv
<1>4. CASE attachBriefFiles \/ attachOrderFiles \/ attachResolutionEvidence
  <2>1. FileRows'
    BY <1>0, <1>4, FileNames DEF attachBriefFiles, attachOrderFiles, attachResolutionEvidence,
           attach, rowVars, scanVars, storageVars, orderVars, FileRows, FileTypeOK, Contexts, FileSteps,
           Buckets, NoSweep
  <2>2. ScanHoldsRow'
    BY <1>0, <1>4, FileNames DEF attachBriefFiles, attachOrderFiles, attachResolutionEvidence,
           attach, rowVars, scanVars, storageVars, orderVars, ScanHoldsRow
  <2>3. CopiesPassed'
    BY <1>0, <1>4, FileNames DEF attachBriefFiles, attachOrderFiles, attachResolutionEvidence,
           attach, rowVars, scanVars, storageVars, orderVars, CopiesPassed, NothingInTransit, ScanHoldsRow,
           FileRows, FileTypeOK
  <2>4. SweepSeesRow'
    BY <1>0, <1>4, FileNames DEF attachBriefFiles, attachOrderFiles, attachResolutionEvidence,
           attach, rowVars, scanVars, storageVars, orderVars, SweepSeesRow, NoMoreCopies, NoSweep,
           ScanHoldsRow, FileRows, FileTypeOK
  <2>5. CleanStampIsFinal' /\ ServedBytesWereScanned'
    BY <1>0, <1>4, FileNames DEF attachBriefFiles, attachOrderFiles, attachResolutionEvidence,
           attach, rowVars, scanVars, storageVars, orderVars, CleanStampIsFinal, NoMoreCopies,
           ServedBytesWereScanned, ScanHoldsRow, CopiesPassed, SweepSeesRow, NoSweep
  <2>6. guardFile
    BY <1>0, <1>4, FileNames DEF attachBriefFiles, attachOrderFiles, attachResolutionEvidence,
           attach, rowVars, scanVars, storageVars, orderVars, guardFile, fileTransitions, ScanHoldsRow,
           CleanStampIsFinal, SweepSeesRow, NoMoreCopies, NoSweep, FileRows, FileTypeOK
  <2> QED
    BY <2>1, <2>2, <2>3, <2>4, <2>5, <2>6 DEF Goal, FileInv
<1>5. CASE \E v \in Versions : put(v)
  BY <1>5 DEF put, TERMINAL, Buckets, NoSweep, Contexts, FileSteps, Goal, FileInv, FileRows,
         FileTypeOK, ScanHoldsRow, CopiesPassed, NothingInTransit, NoMoreCopies, SweepSeesRow,
         CleanStampIsFinal, ServedBytesWereScanned, guardFile, fileTransitions, rowVars, scanVars,
         storageVars, orderVars
<1>6. CASE \E c \in flying, lands \in BOOLEAN : copyLands(c, lands)
  BY <1>6 DEF copyLands, TERMINAL, Buckets, NoSweep, Contexts, FileSteps, Goal, FileInv, FileRows,
         FileTypeOK, ScanHoldsRow, CopiesPassed, NothingInTransit, NoMoreCopies, SweepSeesRow,
         CleanStampIsFinal, ServedBytesWereScanned, guardFile, fileTransitions, rowVars, scanVars,
         storageVars, orderVars
<1>7. CASE \E t \in {"upload", "scan", "unsent", "closure"} : timePasses(t)
  <2>1. FileRows'
    BY <1>0, <1>7, FileNames DEF timePasses, rowVars, scanVars, storageVars, orderVars, FileRows,
           FileTypeOK, Contexts, FileSteps, Buckets, NoSweep
  <2>2. ScanHoldsRow'
    BY <1>0, <1>7, FileNames DEF timePasses, rowVars, scanVars, storageVars, orderVars, ScanHoldsRow
  <2>3. CopiesPassed'
    <3>1. PICK t \in {"upload", "scan", "unsent", "closure"} : timePasses(t)
      BY <1>7
    <3>2. late' = late \cup {t} /\ UNCHANGED <<state, clean, flying, pc, seen, intent>>
      BY <3>1 DEF timePasses, rowVars, scanVars, storageVars
    <3>3. "closure" \in late' => state \in TERMINAL /\ NothingInTransit
      <4>1. CASE t = "closure"
        BY <1>0, <3>1, <4>1, <3>2 DEF timePasses, CopiesPassed, NothingInTransit
      <4>2. CASE t # "closure"
        BY <1>0, <3>2, <4>2 DEF CopiesPassed
      <4> QED
        BY <4>1, <4>2
    <3> QED
      BY <1>0, <3>2, <3>3 DEF CopiesPassed, NothingInTransit
  <2>4. SweepSeesRow'
    BY <1>0, <1>7, FileNames DEF timePasses, rowVars, scanVars, storageVars, orderVars, SweepSeesRow,
           NoMoreCopies, NoSweep, ScanHoldsRow, FileRows, FileTypeOK
  <2>5. CleanStampIsFinal' /\ ServedBytesWereScanned'
    BY <1>0, <1>7, FileNames DEF timePasses, rowVars, scanVars, storageVars, orderVars,
           CleanStampIsFinal, NoMoreCopies, ServedBytesWereScanned, ScanHoldsRow, CopiesPassed,
           SweepSeesRow, NoSweep
  <2>6. guardFile
    BY <1>0, <1>7, FileNames DEF timePasses, rowVars, scanVars, storageVars, orderVars, guardFile,
           fileTransitions, ScanHoldsRow, CleanStampIsFinal, SweepSeesRow, NoMoreCopies, NoSweep, FileRows,
           FileTypeOK
  <2> QED
    BY <2>1, <2>2, <2>3, <2>4, <2>5, <2>6 DEF Goal, FileInv
<1>8. CASE leaseExpires
  <2>1. FileRows'
    BY <1>0, <1>8, FileNames DEF leaseExpires, rowVars, scanVars, storageVars, orderVars, FileRows,
           FileTypeOK, Contexts, FileSteps, Buckets, NoSweep
  <2>2. ScanHoldsRow'
    BY <1>0, <1>8, FileNames DEF leaseExpires, rowVars, scanVars, storageVars, orderVars,
           ScanHoldsRow
  <2>3. CopiesPassed'
    BY <1>0, <1>8, FileNames DEF leaseExpires, rowVars, scanVars, storageVars, orderVars,
           CopiesPassed, NothingInTransit, ScanHoldsRow, FileRows, FileTypeOK
  <2>4. SweepSeesRow'
    BY <1>0, <1>8, FileNames DEF leaseExpires, rowVars, scanVars, storageVars, orderVars,
           SweepSeesRow, NoMoreCopies, NoSweep, ScanHoldsRow, FileRows, FileTypeOK
  <2>5. CleanStampIsFinal' /\ ServedBytesWereScanned'
    BY <1>0, <1>8, FileNames DEF leaseExpires, rowVars, scanVars, storageVars, orderVars,
           CleanStampIsFinal, NoMoreCopies, ServedBytesWereScanned, ScanHoldsRow, CopiesPassed,
           SweepSeesRow, NoSweep
  <2>6. guardFile
    BY <1>0, <1>8, FileNames DEF leaseExpires, rowVars, scanVars, storageVars, orderVars, guardFile,
           fileTransitions, ScanHoldsRow, CleanStampIsFinal, SweepSeesRow, NoMoreCopies, NoSweep, FileRows,
           FileTypeOK
  <2> QED
    BY <2>1, <2>2, <2>3, <2>4, <2>5, <2>6 DEF Goal, FileInv
<1>9. CASE retryDue
  <2>1. FileRows'
    BY <1>0, <1>9, FileNames DEF retryDue, rowVars, scanVars, storageVars, orderVars, FileRows,
           FileTypeOK, Contexts, FileSteps, Buckets, NoSweep
  <2>2. ScanHoldsRow'
    BY <1>0, <1>9, FileNames DEF retryDue, rowVars, scanVars, storageVars, orderVars, ScanHoldsRow
  <2>3. CopiesPassed'
    BY <1>0, <1>9, FileNames DEF retryDue, rowVars, scanVars, storageVars, orderVars, CopiesPassed,
           NothingInTransit, ScanHoldsRow, FileRows, FileTypeOK
  <2>4. SweepSeesRow'
    BY <1>0, <1>9, FileNames DEF retryDue, rowVars, scanVars, storageVars, orderVars, SweepSeesRow,
           NoMoreCopies, NoSweep, ScanHoldsRow, FileRows, FileTypeOK
  <2>5. CleanStampIsFinal' /\ ServedBytesWereScanned'
    BY <1>0, <1>9, FileNames DEF retryDue, rowVars, scanVars, storageVars, orderVars,
           CleanStampIsFinal, NoMoreCopies, ServedBytesWereScanned, ScanHoldsRow, CopiesPassed,
           SweepSeesRow, NoSweep
  <2>6. guardFile
    BY <1>0, <1>9, FileNames DEF retryDue, rowVars, scanVars, storageVars, orderVars, guardFile,
           fileTransitions, ScanHoldsRow, CleanStampIsFinal, SweepSeesRow, NoMoreCopies, NoSweep, FileRows,
           FileTypeOK
  <2> QED
    BY <2>1, <2>2, <2>3, <2>4, <2>5, <2>6 DEF Goal, FileInv
<1>10. CASE expire \/ discardStale \/ scanFailed
  <2>1. FileRows'
    BY <1>0, <1>10, FileNames DEF expire, discardStale, scanFailed, end, rowVars, scanVars,
           storageVars, orderVars, FileRows, FileTypeOK, Contexts, FileSteps, Buckets, NoSweep
  <2>2. ScanHoldsRow'
    BY <1>0, <1>10, FileNames DEF expire, discardStale, scanFailed, end, rowVars, scanVars,
           storageVars, orderVars, ScanHoldsRow
  <2>3. CopiesPassed'
    BY <1>0, <1>10, FileNames DEF expire, discardStale, scanFailed, end, rowVars, scanVars,
           storageVars, orderVars, CopiesPassed, NothingInTransit, ScanHoldsRow, FileRows, FileTypeOK
  <2>4. SweepSeesRow'
    BY <1>0, <1>10, FileNames DEF expire, discardStale, scanFailed, end, rowVars, scanVars,
           storageVars, orderVars, SweepSeesRow, NoMoreCopies, NoSweep, ScanHoldsRow, FileRows, FileTypeOK
  <2>5. CleanStampIsFinal' /\ ServedBytesWereScanned'
    BY <1>0, <1>10, FileNames DEF expire, discardStale, scanFailed, end, rowVars, scanVars,
           storageVars, orderVars, CleanStampIsFinal, NoMoreCopies, ServedBytesWereScanned, ScanHoldsRow,
           CopiesPassed, SweepSeesRow, NoSweep
  <2>6. guardFile
    BY <1>0, <1>10, FileNames DEF expire, discardStale, scanFailed, end, rowVars, scanVars,
           storageVars, orderVars, guardFile, fileTransitions, ScanHoldsRow, CleanStampIsFinal,
           SweepSeesRow, NoMoreCopies, NoSweep, FileRows, FileTypeOK
  <2> QED
    BY <2>1, <2>2, <2>3, <2>4, <2>5, <2>6 DEF Goal, FileInv
<1>11. CASE recover
  BY <1>11 DEF recover, TERMINAL, Buckets, NoSweep, Contexts, FileSteps, Goal, FileInv, FileRows,
         FileTypeOK, ScanHoldsRow, CopiesPassed, NothingInTransit, NoMoreCopies, SweepSeesRow,
         CleanStampIsFinal, ServedBytesWereScanned, guardFile, fileTransitions, rowVars, scanVars,
         storageVars, orderVars
<1>12. CASE readPurge
  BY <1>12 DEF readPurge, purgeCandidate, canMarkClean, FileStates, TERMINAL, Buckets, NoSweep,
         Contexts, FileSteps, Goal, FileInv, FileRows, FileTypeOK, ScanHoldsRow, CopiesPassed,
         NothingInTransit, NoMoreCopies, SweepSeesRow, CleanStampIsFinal, ServedBytesWereScanned, guardFile,
         fileTransitions, rowVars, scanVars, storageVars, orderVars
<1>13. CASE deleteAllVersions
  BY <1>13 DEF deleteAllVersions, TERMINAL, Buckets, NoSweep, Contexts, FileSteps, Goal, FileInv,
         FileRows, FileTypeOK, ScanHoldsRow, CopiesPassed, NothingInTransit, NoMoreCopies, SweepSeesRow,
         CleanStampIsFinal, ServedBytesWereScanned, guardFile, fileTransitions, rowVars, scanVars,
         storageVars, orderVars
<1>14. CASE markPurged
  <2>1. FileRows'
    <3>1. /\ sweep' = NoSweep /\ stamps' \subseteq stamps \cup sweep.buckets /\ current' \in {current, {}}
          /\ UNCHANGED <<context, state, lease, retryAt, intent, cleanCopy, late, pc, seen, quarantine, latest,
                         clean, flying, order, due, evidenceHold, checked>>
      BY <1>14 DEF markPurged, scanVars, storageVars, orderVars
    <3>2. sweep.buckets \subseteq Buckets
      BY <1>0, <1>14 DEF FileRows, markPurged, NoSweep
    <3>3. stamps' \subseteq Buckets /\ current' \subseteq Scans
      BY <1>0, <3>1, <3>2 DEF FileRows, FileTypeOK
    <3> QED
      BY <1>0, <3>1, <3>3 DEF FileRows, FileTypeOK
  <2>2. ScanHoldsRow'
    BY <1>0, <1>14, FileNames DEF markPurged, rowVars, scanVars, storageVars, orderVars, ScanHoldsRow
  <2>3. CopiesPassed'
    BY <1>0, <1>14, FileNames DEF markPurged, rowVars, scanVars, storageVars, orderVars,
           CopiesPassed, NothingInTransit, ScanHoldsRow, FileRows, FileTypeOK
  <2>4. SweepSeesRow'
    BY <1>0, <1>14, FileNames DEF markPurged, rowVars, scanVars, storageVars, orderVars,
           SweepSeesRow, NoMoreCopies, NoSweep, ScanHoldsRow, FileRows, FileTypeOK
  <2>5. CleanStampIsFinal' /\ ServedBytesWereScanned'
    BY <1>0, <1>14, FileNames DEF markPurged, rowVars, scanVars, storageVars, orderVars,
           CleanStampIsFinal, NoMoreCopies, ServedBytesWereScanned, ScanHoldsRow, CopiesPassed,
           SweepSeesRow, NoSweep
  <2>6. guardFile
    BY <1>0, <1>14, FileNames DEF markPurged, rowVars, scanVars, storageVars, orderVars, guardFile,
           fileTransitions, ScanHoldsRow, CleanStampIsFinal, SweepSeesRow, NoMoreCopies, NoSweep, FileRows,
           FileTypeOK
  <2> QED
    BY <2>1, <2>2, <2>3, <2>4, <2>5, <2>6 DEF Goal, FileInv
<1>15. CASE purgeFails
  BY <1>15 DEF purgeFails, TERMINAL, Buckets, NoSweep, Contexts, FileSteps, Goal, FileInv, FileRows,
         FileTypeOK, ScanHoldsRow, CopiesPassed, NothingInTransit, NoMoreCopies, SweepSeesRow,
         CleanStampIsFinal, ServedBytesWereScanned, guardFile, fileTransitions, rowVars, scanVars,
         storageVars, orderVars
<1>16. CASE checkHold
  <2>1. FileRows'
    BY <1>0, <1>16, FileNames DEF checkHold, rowVars, scanVars, storageVars, orderVars, FileRows,
           FileTypeOK, Contexts, FileSteps, Buckets, NoSweep
  <2>2. ScanHoldsRow'
    BY <1>0, <1>16, FileNames DEF checkHold, rowVars, scanVars, storageVars, orderVars, ScanHoldsRow
  <2>3. CopiesPassed'
    BY <1>0, <1>16, FileNames DEF checkHold, rowVars, scanVars, storageVars, orderVars, CopiesPassed,
           NothingInTransit, ScanHoldsRow, FileRows, FileTypeOK
  <2>4. SweepSeesRow'
    BY <1>0, <1>16, FileNames DEF checkHold, rowVars, scanVars, storageVars, orderVars, SweepSeesRow,
           NoMoreCopies, NoSweep, ScanHoldsRow, FileRows, FileTypeOK
  <2>5. CleanStampIsFinal' /\ ServedBytesWereScanned'
    BY <1>0, <1>16, FileNames DEF checkHold, rowVars, scanVars, storageVars, orderVars,
           CleanStampIsFinal, NoMoreCopies, ServedBytesWereScanned, ScanHoldsRow, CopiesPassed,
           SweepSeesRow, NoSweep
  <2>6. guardFile
    BY <1>0, <1>16, FileNames DEF checkHold, rowVars, scanVars, storageVars, orderVars, guardFile,
           fileTransitions, ScanHoldsRow, CleanStampIsFinal, SweepSeesRow, NoMoreCopies, NoSweep, FileRows,
           FileTypeOK
  <2> QED
    BY <2>1, <2>2, <2>3, <2>4, <2>5, <2>6 DEF Goal, FileInv
<1>17. CASE deleteRetained
  <2>1. FileRows'
    BY <1>0, <1>17, FileNames DEF deleteRetained, rowVars, scanVars, storageVars, orderVars,
           FileRows, FileTypeOK, Contexts, FileSteps, Buckets, NoSweep
  <2>2. ScanHoldsRow'
    BY <1>0, <1>17, FileNames DEF deleteRetained, rowVars, scanVars, storageVars, orderVars,
           ScanHoldsRow
  <2>3. CopiesPassed'
    BY <1>0, <1>17, FileNames DEF deleteRetained, rowVars, scanVars, storageVars, orderVars,
           CopiesPassed, NothingInTransit, ScanHoldsRow, FileRows, FileTypeOK
  <2>4. SweepSeesRow'
    BY <1>0, <1>17, FileNames DEF deleteRetained, rowVars, scanVars, storageVars, orderVars,
           SweepSeesRow, NoMoreCopies, NoSweep, ScanHoldsRow, FileRows, FileTypeOK
  <2>5. CleanStampIsFinal' /\ ServedBytesWereScanned'
    BY <1>0, <1>17, FileNames DEF deleteRetained, rowVars, scanVars, storageVars, orderVars,
           CleanStampIsFinal, NoMoreCopies, ServedBytesWereScanned, ScanHoldsRow, CopiesPassed,
           SweepSeesRow, NoSweep
  <2>6. guardFile
    BY <1>0, <1>17, FileNames DEF deleteRetained, rowVars, scanVars, storageVars, orderVars,
           guardFile, fileTransitions, ScanHoldsRow, CleanStampIsFinal, SweepSeesRow, NoMoreCopies, NoSweep,
           FileRows, FileTypeOK
  <2> QED
    BY <2>1, <2>2, <2>3, <2>4, <2>5, <2>6 DEF Goal, FileInv
<1>18. CASE \/ \E o \in {"completed", "closed_unpaid", "closed_paid"} : orderEnds(o)
           \/ \E d \in {"30d", "180d"} : retentionPasses(d)
           \/ \E b \in BOOLEAN : setHold(b)
  <2>1. FileRows'
    BY <1>0, <1>18, FileNames DEF orderEnds, retentionPasses, setHold, rowVars, scanVars,
           storageVars, orderVars, FileRows, FileTypeOK, Contexts, FileSteps, Buckets, NoSweep
  <2>2. ScanHoldsRow'
    BY <1>0, <1>18, FileNames DEF orderEnds, retentionPasses, setHold, rowVars, scanVars,
           storageVars, orderVars, ScanHoldsRow
  <2>3. CopiesPassed'
    BY <1>0, <1>18, FileNames DEF orderEnds, retentionPasses, setHold, rowVars, scanVars,
           storageVars, orderVars, CopiesPassed, NothingInTransit, ScanHoldsRow, FileRows, FileTypeOK
  <2>4. SweepSeesRow'
    BY <1>0, <1>18, FileNames DEF orderEnds, retentionPasses, setHold, rowVars, scanVars,
           storageVars, orderVars, SweepSeesRow, NoMoreCopies, NoSweep, ScanHoldsRow, FileRows, FileTypeOK
  <2>5. CleanStampIsFinal' /\ ServedBytesWereScanned'
    BY <1>0, <1>18, FileNames DEF orderEnds, retentionPasses, setHold, rowVars, scanVars,
           storageVars, orderVars, CleanStampIsFinal, NoMoreCopies, ServedBytesWereScanned, ScanHoldsRow,
           CopiesPassed, SweepSeesRow, NoSweep
  <2>6. guardFile
    BY <1>0, <1>18, FileNames DEF orderEnds, retentionPasses, setHold, rowVars, scanVars,
           storageVars, orderVars, guardFile, fileTransitions, ScanHoldsRow, CleanStampIsFinal,
           SweepSeesRow, NoMoreCopies, NoSweep, FileRows, FileTypeOK
  <2> QED
    BY <2>1, <2>2, <2>3, <2>4, <2>5, <2>6 DEF Goal, FileInv
<1>19. ASSUME NEW s \in Scans, claimScan(s) PROVE Goal
  BY <1>19 DEF claimScan, settle, go, TERMINAL, Buckets, NoSweep, Contexts, FileSteps, Goal, FileInv,
         FileRows, FileTypeOK, ScanHoldsRow, CopiesPassed, NothingInTransit, NoMoreCopies, SweepSeesRow,
         CleanStampIsFinal, ServedBytesWereScanned, guardFile, fileTransitions, rowVars, scanVars,
         storageVars, orderVars
<1>20. ASSUME NEW s \in Scans, failOverdue(s) PROVE Goal
  <2>1. FileRows'
    BY <1>0, <1>20, FileNames DEF failOverdue, settle, go, rowVars, scanVars, storageVars, orderVars,
           FileRows, FileTypeOK, Contexts, FileSteps, Buckets, NoSweep
  <2>2. ScanHoldsRow'
    BY <1>0, <1>20, FileNames DEF failOverdue, settle, go, rowVars, scanVars, storageVars, orderVars,
           ScanHoldsRow
  <2>3. CopiesPassed'
    BY <1>0, <1>20, FileNames DEF failOverdue, settle, go, rowVars, scanVars, storageVars, orderVars,
           CopiesPassed, NothingInTransit, ScanHoldsRow, FileRows, FileTypeOK
  <2>4. SweepSeesRow'
    BY <1>0, <1>20, FileNames DEF failOverdue, settle, go, rowVars, scanVars, storageVars, orderVars,
           SweepSeesRow, NoMoreCopies, NoSweep, ScanHoldsRow, FileRows, FileTypeOK
  <2>5. CleanStampIsFinal' /\ ServedBytesWereScanned'
    BY <1>0, <1>20, FileNames DEF failOverdue, settle, go, rowVars, scanVars, storageVars, orderVars,
           CleanStampIsFinal, NoMoreCopies, ServedBytesWereScanned, ScanHoldsRow, CopiesPassed,
           SweepSeesRow, NoSweep
  <2>6. guardFile
    BY <1>0, <1>20, FileNames DEF failOverdue, settle, go, rowVars, scanVars, storageVars, orderVars,
           guardFile, fileTransitions, ScanHoldsRow, CleanStampIsFinal, SweepSeesRow, NoMoreCopies, NoSweep,
           FileRows, FileTypeOK
  <2> QED
    BY <2>1, <2>2, <2>3, <2>4, <2>5, <2>6 DEF Goal, FileInv
<1>21. ASSUME NEW s \in Scans, headVersion(s) PROVE Goal
  BY <1>21 DEF headVersion, settle, go, TERMINAL, Buckets, NoSweep, Contexts, FileSteps, Goal,
         FileInv, FileRows, FileTypeOK, ScanHoldsRow, CopiesPassed, NothingInTransit, NoMoreCopies,
         SweepSeesRow, CleanStampIsFinal, ServedBytesWereScanned, guardFile, fileTransitions, rowVars,
         scanVars, storageVars, orderVars
<1>22. ASSUME NEW s \in Scans, reject(s) PROVE Goal
  <2>1. FileRows'
    BY <1>0, <1>22, FileNames DEF reject, settle, go, rowVars, scanVars, storageVars, orderVars,
           FileRows, FileTypeOK, Contexts, FileSteps, Buckets, NoSweep
  <2>2. ScanHoldsRow'
    BY <1>0, <1>22, FileNames DEF reject, settle, go, rowVars, scanVars, storageVars, orderVars,
           ScanHoldsRow
  <2>3. CopiesPassed'
    BY <1>0, <1>22, FileNames DEF reject, settle, go, rowVars, scanVars, storageVars, orderVars,
           CopiesPassed, NothingInTransit, ScanHoldsRow, FileRows, FileTypeOK
  <2>4. SweepSeesRow'
    BY <1>0, <1>22, FileNames DEF reject, settle, go, rowVars, scanVars, storageVars, orderVars,
           SweepSeesRow, NoMoreCopies, NoSweep, ScanHoldsRow, FileRows, FileTypeOK
  <2>5. CleanStampIsFinal' /\ ServedBytesWereScanned'
    BY <1>0, <1>22, FileNames DEF reject, settle, go, rowVars, scanVars, storageVars, orderVars,
           CleanStampIsFinal, NoMoreCopies, ServedBytesWereScanned, ScanHoldsRow, CopiesPassed,
           SweepSeesRow, NoSweep
  <2>6. guardFile
    BY <1>0, <1>22, FileNames DEF reject, settle, go, rowVars, scanVars, storageVars, orderVars,
           guardFile, fileTransitions, ScanHoldsRow, CleanStampIsFinal, SweepSeesRow, NoMoreCopies, NoSweep,
           FileRows, FileTypeOK
  <2> QED
    BY <2>1, <2>2, <2>3, <2>4, <2>5, <2>6 DEF Goal, FileInv
<1>23. ASSUME NEW s \in Scans, retry(s) PROVE Goal
  <2>1. FileRows'
    BY <1>0, <1>23, FileNames DEF retry, settle, go, rowVars, scanVars, storageVars, orderVars,
           FileRows, FileTypeOK, Contexts, FileSteps, Buckets, NoSweep
  <2>2. ScanHoldsRow'
    BY <1>0, <1>23, FileNames DEF retry, settle, go, rowVars, scanVars, storageVars, orderVars,
           ScanHoldsRow
  <2>3. CopiesPassed'
    BY <1>0, <1>23, FileNames DEF retry, settle, go, rowVars, scanVars, storageVars, orderVars,
           CopiesPassed, NothingInTransit, ScanHoldsRow, FileRows, FileTypeOK
  <2>4. SweepSeesRow'
    BY <1>0, <1>23, FileNames DEF retry, settle, go, rowVars, scanVars, storageVars, orderVars,
           SweepSeesRow, NoMoreCopies, NoSweep, ScanHoldsRow, FileRows, FileTypeOK
  <2>5. CleanStampIsFinal' /\ ServedBytesWereScanned'
    BY <1>0, <1>23, FileNames DEF retry, settle, go, rowVars, scanVars, storageVars, orderVars,
           CleanStampIsFinal, NoMoreCopies, ServedBytesWereScanned, ScanHoldsRow, CopiesPassed,
           SweepSeesRow, NoSweep
  <2>6. guardFile
    BY <1>0, <1>23, FileNames DEF retry, settle, go, rowVars, scanVars, storageVars, orderVars,
           guardFile, fileTransitions, ScanHoldsRow, CleanStampIsFinal, SweepSeesRow, NoMoreCopies, NoSweep,
           FileRows, FileTypeOK
  <2> QED
    BY <2>1, <2>2, <2>3, <2>4, <2>5, <2>6 DEF Goal, FileInv
<1>24. ASSUME NEW s \in Scans, crash(s) PROVE Goal
  BY <1>24 DEF crash, settle, go, TERMINAL, Buckets, NoSweep, Contexts, FileSteps, Goal, FileInv,
         FileRows, FileTypeOK, ScanHoldsRow, CopiesPassed, NothingInTransit, NoMoreCopies, SweepSeesRow,
         CleanStampIsFinal, ServedBytesWereScanned, guardFile, fileTransitions, rowVars, scanVars,
         storageVars, orderVars
<1>25. ASSUME NEW s \in Scans, copyIntent(s) PROVE Goal
  <2>1. FileRows'
    <3>1. /\ intent' \in {intent, TRUE} /\ current' \in {current, {s}}
          /\ \E step \in {"intended", "done"} : pc' = [pc EXCEPT ![s] = step]
          /\ UNCHANGED <<context, state, lease, retryAt, cleanCopy, late, stamps, seen, quarantine, latest,
                         clean, flying, sweep, order, due, evidenceHold, checked>>
      BY <1>25 DEF copyIntent, go, storageVars, orderVars
    <3>2. pc' \in [Scans -> FileSteps]
      BY <1>0, <3>1 DEF FileRows, FileSteps
    <3> QED
      BY <1>0, <3>1, <3>2 DEF FileRows, FileTypeOK
  <2>2. ScanHoldsRow'
    BY <1>0, <1>25, FileNames DEF copyIntent, settle, go, rowVars, scanVars, storageVars, orderVars,
           ScanHoldsRow
  <2>3. CopiesPassed'
    BY <1>0, <1>25, FileNames DEF copyIntent, settle, go, rowVars, scanVars, storageVars, orderVars,
           CopiesPassed, NothingInTransit, ScanHoldsRow, FileRows, FileTypeOK
  <2>4. SweepSeesRow'
    BY <1>0, <1>25, FileNames DEF copyIntent, settle, go, rowVars, scanVars, storageVars, orderVars,
           SweepSeesRow, NoMoreCopies, NoSweep, ScanHoldsRow, FileRows, FileTypeOK
  <2>5. CleanStampIsFinal' /\ ServedBytesWereScanned'
    BY <1>0, <1>25, FileNames DEF copyIntent, settle, go, rowVars, scanVars, storageVars, orderVars,
           CleanStampIsFinal, NoMoreCopies, ServedBytesWereScanned, ScanHoldsRow, CopiesPassed,
           SweepSeesRow, NoSweep
  <2>6. guardFile
    BY <1>0, <1>25, FileNames DEF copyIntent, settle, go, rowVars, scanVars, storageVars, orderVars,
           guardFile, fileTransitions, ScanHoldsRow, CleanStampIsFinal, SweepSeesRow, NoMoreCopies, NoSweep,
           FileRows, FileTypeOK
  <2> QED
    BY <2>1, <2>2, <2>3, <2>4, <2>5, <2>6 DEF Goal, FileInv
<1>26. ASSUME NEW s \in Scans, copyToClean(s) PROVE Goal
  BY <1>26 DEF copyToClean, settle, go, TERMINAL, Buckets, NoSweep, Contexts, FileSteps, Goal,
         FileInv, FileRows, FileTypeOK, ScanHoldsRow, CopiesPassed, NothingInTransit, NoMoreCopies,
         SweepSeesRow, CleanStampIsFinal, ServedBytesWereScanned, guardFile, fileTransitions, rowVars,
         scanVars, storageVars, orderVars
<1>27. ASSUME NEW s \in Scans, settleClean(s) PROVE Goal
  <2>1. FileRows'
    BY <1>0, <1>27, FileNames DEF settleClean, settle, go, rowVars, scanVars, storageVars, orderVars,
           FileRows, FileTypeOK, Contexts, FileSteps, Buckets, NoSweep
  <2>2. ScanHoldsRow'
    BY <1>0, <1>27, FileNames DEF settleClean, settle, go, rowVars, scanVars, storageVars, orderVars,
           ScanHoldsRow
  <2>3. CopiesPassed'
    BY <1>0, <1>27, FileNames DEF settleClean, settle, go, rowVars, scanVars, storageVars, orderVars,
           CopiesPassed, NothingInTransit, ScanHoldsRow, FileRows, FileTypeOK
  <2>4. SweepSeesRow'
    BY <1>0, <1>27, FileNames DEF settleClean, settle, go, rowVars, scanVars, storageVars, orderVars,
           SweepSeesRow, NoMoreCopies, NoSweep, ScanHoldsRow, FileRows, FileTypeOK
  <2>5. CleanStampIsFinal' /\ ServedBytesWereScanned'
    BY <1>0, <1>27, FileNames DEF settleClean, settle, go, rowVars, scanVars, storageVars, orderVars,
           CleanStampIsFinal, NoMoreCopies, ServedBytesWereScanned, ScanHoldsRow, CopiesPassed,
           SweepSeesRow, NoSweep
  <2>6. guardFile
    BY <1>0, <1>27, FileNames DEF settleClean, settle, go, rowVars, scanVars, storageVars, orderVars,
           guardFile, fileTransitions, ScanHoldsRow, CleanStampIsFinal, SweepSeesRow, NoMoreCopies, NoSweep,
           FileRows, FileTypeOK
  <2> QED
    BY <2>1, <2>2, <2>3, <2>4, <2>5, <2>6 DEF Goal, FileInv
<1>28. ASSUME NEW s \in Scans, purgeQuarantine(s) PROVE Goal
  BY <1>28 DEF purgeQuarantine, settle, go, TERMINAL, Buckets, NoSweep, Contexts, FileSteps, Goal,
         FileInv, FileRows, FileTypeOK, ScanHoldsRow, CopiesPassed, NothingInTransit, NoMoreCopies,
         SweepSeesRow, CleanStampIsFinal, ServedBytesWereScanned, guardFile, fileTransitions, rowVars,
         scanVars, storageVars, orderVars
<1> QED
  BY <1>1, <1>2, <1>3, <1>4, <1>5, <1>6, <1>7, <1>8, <1>9, <1>10, <1>11, <1>12, <1>13, <1>14, <1>15,
     <1>16, <1>17, <1>18, <1>19, <1>20, <1>21, <1>22, <1>23, <1>24, <1>25, <1>26, <1>27, <1>28 DEF FileNext,
     scanStep, runCommissionFileMaintenance

LEMMA FileStarts == FileInit => FileInv
BY FileConstants DEF FileInit, FileInv, FileRows, FileTypeOK, ScanHoldsRow, CopiesPassed, NothingInTransit,
   SweepSeesRow, CleanStampIsFinal, ServedBytesWereScanned, NoSweep, Contexts, FileSteps, TERMINAL

LEMMA FileStutters ==
  FileInv /\ UNCHANGED fileVars => FileInv'
BY DEF FileInv, FileRows, FileTypeOK, ScanHoldsRow, CopiesPassed, NothingInTransit, SweepSeesRow, NoMoreCopies,
       CleanStampIsFinal, ServedBytesWereScanned, fileVars, rowVars, scanVars, storageVars, orderVars

\* Whatever scans, commands, lapsed leases and sweeps meet on a file, the row keeps to
\* what its scan and its purge know of it (processCommissionFileScan, maintenance.ts).
THEOREM FilesAgree == FileSpec => []FileInv
<1>1. FileInv /\ [FileNext]_fileVars => FileInv'
  BY FileStep, FileStutters
<1> QED
  BY <1>1, FileStarts, PTL DEF FileSpec

\* The owner and the counterparty of a file get bytes that passed the scan, and a file
\* that left the quota has left the storage (copyToClean, settle, the purge of both buckets).
THEOREM ServedFilesWereScanned ==
  FileSpec => [](FileTypeOK /\ ServedBytesWereScanned /\ ReleasedBytesAreGone)
<1>1. FileInv => FileTypeOK /\ ServedBytesWereScanned /\ ReleasedBytesAreGone
  <2>1. FileInv /\ state # "none" /\ ~countsForQuota => "clean" \in stamps
    BY DEF countsForQuota, Buckets
  <2> QED
    BY <2>1 DEF FileInv, FileRows, CleanStampIsFinal, NoMoreCopies, CopiesPassed, NothingInTransit, ReleasedBytesAreGone
<1> QED
  BY <1>1, FilesAgree, PTL

\* No scan, command or sweep makes a change that the triggers of migration 0043 abort.
THEOREM FilesAreAccepted == FileSpec => FileGuardsAccept
<1>1. FileInv /\ [FileNext]_fileVars => [guardFile]_fileVars
  BY FileStep
<1> QED
  BY <1>1, FilesAgree, PTL DEF FileSpec, FileGuardsAccept

---------------------------------------------------------------------------
(* What users store, together.                                              *)

\* The columns that no other part of the invariant is about.
StoreColumns ==
  /\ creator \in {"active", "suspended"} /\ page \in BOOLEAN
  /\ position \in [Showcases -> Positions]
  /\ Len(revisions) <= MaxRevisions
  /\ challenge \in [Challenges -> {"none", "issued", "consumed"}]

LEMMA ColumnsStart == StoreInit => StoreColumns
<1>1. 0 \in Positions
  BY CatalogAssumption, FS_CardinalityType, FS_EmptySet
<1>2. StoreInit => /\ creator \in {"active", "suspended"} /\ page \in BOOLEAN
                   /\ position \in [Showcases -> Positions]
  BY <1>1 DEF StoreInit, CatalogInit
<1>3. StoreInit => Len(revisions) <= MaxRevisions
  <2>1. StoreInit => Len(revisions) = 0
    BY DEF StoreInit, CatalogInit
  <2> QED
    BY <2>1, CatalogAssumption
<1>4. StoreInit => challenge \in [Challenges -> {"none", "issued", "consumed"}]
  BY DEF StoreInit, ReportsInit
<1> QED
  BY <1>2, <1>3, <1>4 DEF StoreColumns

\* The index of a showcase in a command is a position.
LEMMA ReorderedPositions ==
  ASSUME CatalogInv, StoreColumns,
         NEW arranged \in [1 .. Cardinality(active) -> active], reorderShowcases(arranged)
  PROVE  position' \in [Showcases -> Positions]
<1>f. IsFiniteSet(active) /\ Cardinality(active) \in Nat /\ Cardinality(Positions) \in Nat
  BY CatalogAssumption, FS_Subset, FS_CardinalityType DEF active
<1>c. Cardinality(active) <= Cardinality(Positions)
  BY DEF CatalogInv, PositionsDiffer
<1> DEFINE at(s) == CHOOSE i \in DOMAIN arranged : arranged[i] = s
<1>1. /\ {arranged[i] : i \in DOMAIN arranged} = active
      /\ position' = [s \in Showcases |-> IF s \in active THEN at(s) - 1 ELSE position[s]]
  BY DEF reorderShowcases
<1>2. \A s \in active : at(s) \in 1 .. Cardinality(active)
  BY <1>1
<1> HIDE DEF at
<1>3. \A s \in active : at(s) - 1 \in Positions
  <2>1. \A s \in active : at(s) - 1 \in 0 .. Cardinality(Positions) - 1
    BY <1>2, <1>c, <1>f
  <2> QED
    BY <2>1, CatalogAssumption
<1> QED
  BY <1>1, <1>3 DEF StoreColumns

LEMMA ColumnsStep ==
  ASSUME StoreInv, StoreColumns, StoreNext
  PROVE  StoreColumns'
<1>r. revisions \in Seq(Revision)
  BY DEF StoreInv, CatalogInv, CatalogRows
<1>1. CASE catalogStep
  <2>0. UNCHANGED challenge
    BY <1>1 DEF catalogStep, reportVars
  <2>1. creator' \in {"active", "suspended"} /\ page' \in BOOLEAN
    BY <1>1 DEF catalogStep, creatorCommands, otherCatalogSteps, StoreColumns, initialize, claimHandle, renameHandle,
       saveDraft, upsertShowcase, removeShowcase, reorderShowcases, publish, unpublish,
       clearPublishedHeadForSuspension, capabilityRestored, otherPageClaims
  <2>2. position' \in [Showcases -> Positions]
    <3>1. CASE \E arranged \in [1 .. Cardinality(active) -> active] : reorderShowcases(arranged)
      BY <3>1, ReorderedPositions DEF StoreInv
    <3>2. CASE \E s \in Showcases, i \in showcaseInputs : upsertShowcase(s, i[1], i[2], resolveOwnedAssets)
      BY <3>2 DEF upsertShowcase, showcaseInputs, StoreColumns
    <3>3. ASSUME UNCHANGED position PROVE position' \in [Showcases -> Positions]
      BY <3>3 DEF StoreColumns
    <3> QED
      BY <1>1, <3>1, <3>2, <3>3 DEF catalogStep, creatorCommands, otherCatalogSteps, draftVars, initialize, claimHandle,
         renameHandle, saveDraft, removeShowcase, publish, unpublish, clearPublishedHeadForSuspension,
         capabilityRestored, otherPageClaims
  <2>3. Len(revisions') <= MaxRevisions
    <3>1. CASE publish(resolveReadyAssets, pageHeld, heldShowcases)
      <4>1. PICK e : revisions' = Append(revisions, e) /\ Len(revisions) < MaxRevisions
        BY <3>1 DEF publish
      <4>2. Len(revisions') = Len(revisions) + 1 /\ Len(revisions) \in Nat
        BY <4>1, <1>r
      <4> QED
        BY <4>1, <4>2, CatalogAssumption
    <3>2. ASSUME UNCHANGED revisions PROVE Len(revisions') <= MaxRevisions
      BY <3>2 DEF StoreColumns
    <3> QED
      BY <1>1, <3>1, <3>2 DEF catalogStep, creatorCommands, otherCatalogSteps, initialize, claimHandle, renameHandle,
         saveDraft, upsertShowcase, removeShowcase, reorderShowcases, unpublish, clearPublishedHeadForSuspension,
         capabilityRestored, otherPageClaims
  <2> QED
    BY <2>0, <2>1, <2>2, <2>3 DEF StoreColumns
<1>2. CASE uploadStep \/ workerStep \/ cleanupStep
  BY <1>2 DEF uploadStep, workerStep, cleanupStep, catalogVars, reportVars, StoreColumns
<1>3. CASE reportStep
  <2>1. UNCHANGED catalogVars
    BY <1>3 DEF reportStep
  <2>2. challenge' \in [Challenges -> {"none", "issued", "consumed"}]
    BY <1>3 DEF reportStep, issueReportChallenge, challengeExpires, securityEventExpires, submitReport,
       submitReportRejected, dismiss, hide, restore, StoreColumns
  <2> QED
    BY <2>1, <2>2 DEF catalogVars, StoreColumns
<1> QED
  BY <1>1, <1>2, <1>3 DEF StoreNext

LEMMA ColumnsStay == StoreSpec => []StoreColumns
<1>1. StoreColumns /\ UNCHANGED storeVars => StoreColumns'
  BY DEF StoreColumns, storeVars, catalogVars, draftVars, reportVars
<1>2. StoreInv /\ StoreColumns /\ [StoreNext]_storeVars => StoreColumns'
  BY <1>1, ColumnsStep
<1> QED
  BY <1>2, ColumnsStart, StoreAgrees, PTL DEF StoreSpec

\* As the run checks it: nothing that a draft, a page, a report or a private file relies
\* on is deleted, and no unscanned byte is served (media-cleanup.ts, triage-service.ts,
\* processCommissionFileScan, maintenance.ts).
THEOREM ContentBytesAreKept == StoreSpec /\ FileSpec => []StoredBytesAreKept
<1>1. StoreInv /\ StoreColumns => CatalogTypeOK /\ ReportsTypeOK
  BY DEF StoreInv, CatalogInv, CatalogRows, Claims, StoreColumns, CatalogTypeOK, ReportRows, Filed, filed, ReportsTypeOK
<1>2. MediaIsStored => MediaTypeOK
  BY DEF MediaIsStored
<1> QED
  BY <1>1, <1>2, StoreAgrees, ColumnsStay, MediaStaysStored, MediaOutlivesCleanup, ServedFilesWereScanned, PTL
  DEF StoredBytesAreKept

\* The triggers of the page, of triage and of the file rows accept every write
\* (migrations 0020, 0022 and 0043).
THEOREM ContentIsAccepted == StoreSpec /\ FileSpec => ContentGuardsAccept
BY StoreIsAccepted, FilesAreAccepted DEF ContentGuardsAccept

=============================================================================
