------------------------ MODULE ResultsRegistryProofs ------------------------
(***************************************************************************)
(* Proofs about ResultsRegistry and, at the end, about PaperEvidence, for  *)
(* any receipts and bounds.  Receipts are immutable but for their render   *)
(* record, so what holds of a receipt when it is published holds for ever  *)
(* as long as what it names is not published a second time (Related); and  *)
(* the inventory a release was checked against is the accepted one for as  *)
(* long as the versions agree (RightsRecorded).                            *)
(* What an active receipt cites stays reachable from the active ones,      *)
(* because a retirement either hands everything on or is refused           *)
(* (HeirsKept, HeirsLost).                                                 *)
(***************************************************************************)
EXTENDS PaperEvidence, FiniteSetTheorems, WellFoundedInduction, TLAPS

(* Every edit may advance the version, and nothing else does. *)
Counted == accepted.version <= edits

(* What a published receipt names is published. *)
Related ==
    \A r \in Published :
        /\ receipt[r].supersedes \subseteq Published
        /\ IsRelease(r) => receipt[r].analysis \in Published

(* No release is newer than the accepted inventory, and where there is a   *)
(* Gate 2, one of the same version has only data that its inventory        *)
(* classifies as open.                                                     *)
RightsRecorded ==
    \A r \in Receipts :
        /\ receipt[r].rights <= accepted.version
        /\ IF IsRelease(r)
           THEN ~accepted.manual /\ receipt[r].rights = accepted.version
                    => receipt[r].data \subseteq accepted.open
           ELSE receipt[r].data = {}

IInv ==
    /\ TypeOK /\ Counted /\ Related /\ RightsRecorded
    /\ PendingAlone /\ PairsTravelTogether

-----------------------------------------------------------------------------
(* The initial registry is empty. *)
LEMMA InitHolds == Init => IInv
<1> SUFFICES ASSUME Init PROVE IInv
  OBVIOUS
<1> USE BoundAssumption, NoneAssumption
<1>1. Blank \in Attempt
  BY DEF Blank, Attempt, Roles
<1>2. TypeOK
  BY <1>1 DEF Init, TypeOK, Published
<1>3. Counted
  BY DEF Init, Counted
<1>4. Related /\ PendingAlone /\ PairsTravelTogether
  BY DEF Init, Related, PendingAlone, PairsTravelTogether, Published
<1>5. RightsRecorded
  BY DEF Init, RightsRecorded, IsRelease, Blank
<1> QED
  BY <1>2, <1>3, <1>4, <1>5 DEF IInv

(* What agents do to sources and exhibits touches no list and no receipt. *)
LEMMA FilesKeep ==
    ASSUME IInv, UNCHANGED <<receipt, registry, accepted>>, edits' \in 0..MaxEdits,
           edits' >= edits, stale' \subseteq Published, damaged' \subseteq Published
    PROVE  IInv'
<1> USE BoundAssumption DEF registry
<1>1. Published' = Published
  BY DEF Published
<1>2. TypeOK'
  BY <1>1 DEF IInv, TypeOK
<1>3. Counted'
  <2>1. accepted.version \in Nat /\ edits \in Nat /\ edits' \in Nat
    BY DEF IInv, TypeOK
  <2> QED
    BY <2>1 DEF IInv, Counted
<1>4. Related'
  BY <1>1 DEF IInv, Related, IsRelease
<1>5. RightsRecorded'
  BY DEF IInv, RightsRecorded, IsRelease, RightsStand
<1>6. PendingAlone'
  BY DEF IInv, PendingAlone
<1>7. PairsTravelTogether'
  BY DEF IInv, PairsTravelTogether, IsRelease, IsAnalysis, ReleasesOf
<1> QED
  BY <1>2, <1>3, <1>4, <1>5, <1>6, <1>7 DEF IInv

(* A new inventory: every release that was checked is of an older version. *)
LEMMA AdvanceKeeps == ASSUME IInv, AdvanceRights PROVE IInv'
<1> USE BoundAssumption DEF registry
<1>1. PICK open \in SUBSET Data :
          accepted' = [manual |-> FALSE, version |-> accepted.version + 1, open |-> open]
  BY DEF AdvanceRights
<1>2. /\ UNCHANGED <<receipt, active, pending, retired, successor, stale, damaged>>
      /\ edits < MaxEdits /\ edits' = edits + 1
  BY DEF AdvanceRights
<1>3. Published' = Published
  BY <1>2 DEF Published
<1>4. accepted.version \in Nat /\ edits \in Nat /\ accepted.version <= edits
  BY DEF IInv, TypeOK, Counted
<1>5. accepted'.version = accepted.version + 1 /\ accepted'.open = open
  BY <1>1
<1>6. TypeOK'
  <2>1. accepted' \in [manual: Modes, version: 0..MaxEdits, open: SUBSET Data]
    <3>1. ~accepted.manual /\ accepted.manual \in Modes /\ Modes \subseteq BOOLEAN
      BY ModesAssumption DEF AdvanceRights, IInv, TypeOK
    <3>2. FALSE \in Modes
      BY <3>1
    <3>3. accepted.version + 1 \in 0..MaxEdits
      BY <1>2, <1>4
    <3> QED
      BY <1>1, <3>2, <3>3
  <2> QED
    BY <1>2, <1>3, <1>4, <2>1 DEF IInv, TypeOK
<1>7. Counted'
  BY <1>2, <1>4, <1>5 DEF Counted
<1>8. Related'
  BY <1>2, <1>3 DEF IInv, Related, IsRelease
<1>9. RightsRecorded'
  <2> SUFFICES ASSUME NEW r \in Receipts
               PROVE  /\ receipt[r].rights <= accepted.version + 1
                      /\ receipt[r].rights # accepted.version + 1
                      /\ ~IsRelease(r) => receipt[r].data = {}
    BY <1>2, <1>5 DEF RightsRecorded, IsRelease, RightsStand
  <2>1. receipt[r].rights \in Nat
    BY DEF IInv, TypeOK, Attempt
  <2>2. receipt[r].rights <= accepted.version
    BY DEF IInv, RightsRecorded
  <2>3. ~IsRelease(r) => receipt[r].data = {}
    BY DEF IInv, RightsRecorded
  <2> QED
    BY <1>4, <2>1, <2>2, <2>3
<1>10. PendingAlone'
  BY <1>2 DEF IInv, PendingAlone
<1>11. PairsTravelTogether'
  BY <1>2 DEF IInv, PairsTravelTogether, IsRelease, IsAnalysis, ReleasesOf
<1> QED
  BY <1>6, <1>7, <1>8, <1>9, <1>10, <1>11 DEF IInv

-----------------------------------------------------------------------------
(* Rendering changes the render record of a receipt and nothing else of it. *)
LEMMA RenderKeeps ==
    ASSUME IInv, NEW r \in Published, RenderPending(r)
    PROVE  IInv'
<1> USE BoundAssumption DEF registry
<1>1. /\ receipt' = [receipt EXCEPT ![r].rendered = TRUE]
      /\ damaged' = damaged \ {r}
      /\ UNCHANGED <<active, pending, retired, successor, stale, accepted, edits>>
  BY DEF RenderPending
<1>2. Published' = Published /\ receipt \in [Receipts -> Attempt] /\ Published \subseteq Receipts
  BY <1>1 DEF Published, IInv, TypeOK
<1>3. ASSUME NEW q \in Receipts
      PROVE  /\ receipt'[q] \in Attempt
             /\ receipt'[q].role = receipt[q].role
             /\ receipt'[q].analysis = receipt[q].analysis
             /\ receipt'[q].supersedes = receipt[q].supersedes
             /\ receipt'[q].rights = receipt[q].rights
             /\ receipt'[q].data = receipt[q].data
  <2>1. CASE q = r
    <3>1. receipt'[q] = [receipt[q] EXCEPT !.rendered = TRUE]
      BY <1>1, <1>2, <2>1
    <3>2. receipt[q] \in Attempt
      BY <1>2
    <3> QED
      BY <3>1, <3>2 DEF Attempt
  <2>2. CASE q # r
    BY <1>1, <1>2, <2>2
  <2> QED
    BY <2>1, <2>2
<1>4. TypeOK'
  <2>1. receipt' \in [Receipts -> Attempt]
    BY <1>1, <1>2, <1>3
  <2> QED
    BY <1>1, <1>2, <2>1 DEF IInv, TypeOK
<1>5. Counted'
  BY <1>1 DEF IInv, Counted
<1>6. Related'
  BY <1>2, <1>3 DEF IInv, Related, IsRelease
<1>7. RightsRecorded'
  BY <1>1, <1>3 DEF IInv, RightsRecorded, IsRelease, RightsStand
<1>8. PendingAlone'
  BY <1>1, <1>3 DEF IInv, PendingAlone, TypeOK
<1>9. PairsTravelTogether'
  <2>1. \A q \in active \cup retired : q \in Receipts
    BY DEF IInv, TypeOK
  <2>2. ASSUME NEW q \in active', IsRelease(q)'
        PROVE  {receipt'[s].analysis : s \in receipt'[q].supersedes}
                   = receipt'[receipt'[q].analysis].supersedes
    <3>1. q \in active /\ IsRelease(q) /\ q \in Published
      BY <1>1, <1>3, <2>1, <2>2 DEF IsRelease, Published
    <3>2. receipt[q].supersedes \subseteq Receipts /\ receipt[q].analysis \in Receipts
      BY <1>2, <3>1 DEF IInv, Related
    <3>3. {receipt[s].analysis : s \in receipt[q].supersedes}
              = receipt[receipt[q].analysis].supersedes
      BY <3>1 DEF IInv, PairsTravelTogether
    <3>4. {receipt'[s].analysis : s \in receipt[q].supersedes}
              = {receipt[s].analysis : s \in receipt[q].supersedes}
      BY <1>3, <3>2
    <3> QED
      BY <1>3, <2>1, <3>1, <3>2, <3>3, <3>4
  <2>3. ASSUME NEW a \in retired', IsAnalysis(a)', successor'[a] # None
        PROVE  \E w \in ReleasesOf(a, retired)' :
                   successor'[w] \in ReleasesOf(successor[a], active \cup retired)'
    <3>1. a \in retired /\ IsAnalysis(a) /\ successor[a] # None
      BY <1>1, <1>3, <2>1, <2>3 DEF IsAnalysis
    <3>2. PICK w \in ReleasesOf(a, retired) :
                successor[w] \in ReleasesOf(successor[a], active \cup retired)
      BY <3>1 DEF IInv, PairsTravelTogether
    <3> QED
      BY <1>1, <1>3, <2>1, <3>2 DEF ReleasesOf, IsRelease
  <2> QED
    BY <2>2, <2>3 DEF PairsTravelTogether
<1> QED
  BY <1>4, <1>5, <1>6, <1>7, <1>8, <1>9 DEF IInv
-----------------------------------------------------------------------------
(* Commands that move receipts between the lists leave every receipt as it *)
(* is; what is left to show of each is what became of the lists.           *)
LEMMA MoveKeeps ==
    ASSUME IInv, UNCHANGED <<receipt, files>>, Published' = Published,
           active' \subseteq Receipts, pending' \subseteq pending,
           retired' \subseteq Receipts, active' \cap pending' = {},
           (active' \cup pending') \cap retired' = {},
           successor' \in [Receipts -> Receipts \cup {None}],
           PairsTravelTogether'
    PROVE  IInv'
<1> USE BoundAssumption DEF files
<1>1. TypeOK'
  <2>1. pending' \subseteq Receipts
    BY DEF IInv, TypeOK
  <2> QED
    BY <2>1 DEF IInv, TypeOK
<1>2. Counted'
  BY DEF IInv, Counted
<1>3. Related'
  BY DEF IInv, Related, IsRelease
<1>4. RightsRecorded'
  BY DEF IInv, RightsRecorded, IsRelease, RightsStand
<1>5. PendingAlone'
  BY DEF IInv, PendingAlone
<1> QED
  BY <1>1, <1>2, <1>3, <1>4, <1>5 DEF IInv

(* A plain receipt becomes active: no pair is touched. *)
LEMMA ActivateKeeps ==
    ASSUME IInv, NEW r \in Published, Activate(r)
    PROVE  IInv'
<1>1. /\ r \in pending /\ receipt[r].role = "plain"
      /\ active' = active \cup {r} /\ pending' = pending \ {r}
      /\ UNCHANGED <<receipt, retired, successor, files>>
  BY DEF Activate, MayActivate
<1>2. Published' = Published
  BY <1>1 DEF Published
<1>3. ~IsRelease(r)
  BY <1>1 DEF IsRelease
<1>4. PairsTravelTogether'
  <2>1. ASSUME NEW q \in active', IsRelease(q)'
        PROVE  {receipt'[s].analysis : s \in receipt'[q].supersedes}
                   = receipt'[receipt'[q].analysis].supersedes
    <3>1. q \in active /\ IsRelease(q)
      BY <1>1, <1>3, <2>1 DEF IsRelease
    <3> QED
      BY <1>1, <3>1 DEF IInv, PairsTravelTogether
  <2>2. ASSUME NEW a \in retired', IsAnalysis(a)', successor'[a] # None
        PROVE  \E w \in ReleasesOf(a, retired)' :
                   successor'[w] \in ReleasesOf(successor[a], active \cup retired)'
    <3>1. PICK w \in ReleasesOf(a, retired) :
                successor[w] \in ReleasesOf(successor[a], active \cup retired)
      BY <1>1, <2>2 DEF IInv, PairsTravelTogether, IsAnalysis
    <3> QED
      BY <1>1, <3>1 DEF ReleasesOf, IsRelease
  <2> QED
    BY <2>1, <2>2 DEF PairsTravelTogether
<1> QED
  BY <1>1, <1>2, <1>4, MoveKeeps DEF IInv, TypeOK

(* A plain active receipt, or any pending one, is retired: the pairs of    *)
(* the past keep their members, for nobody leaves the lists altogether.    *)
LEMMA RetireKeeps ==
    ASSUME IInv, NEW r \in Published, NEW by \in active \cup {None}, Retire(r, by)
    PROVE  IInv'
<1>1. /\ active' = active \ {r} /\ pending' = pending \ {r}
      /\ retired' = retired \cup {r}
      /\ successor' = [successor EXCEPT ![r] = by]
      /\ UNCHANGED <<receipt, files>>
  BY DEF Retire
<1>2. \/ r \in pending /\ by = None
      \/ r \in active /\ receipt[r].role = "plain"
  BY DEF Retire, MayRetire
<1>3. /\ active \subseteq Receipts /\ pending \subseteq Receipts /\ retired \subseteq Receipts
      /\ active \cap pending = {} /\ (active \cup pending) \cap retired = {}
      /\ successor \in [Receipts -> Receipts \cup {None}]
  BY DEF IInv, TypeOK
<1>4. Published' = Published
  BY <1>1, <1>2 DEF Published
<1>5. successor' \in [Receipts -> Receipts \cup {None}]
  BY <1>1, <1>3
<1>6. \A q \in retired : q # r /\ successor'[q] = successor[q]
  BY <1>1, <1>2, <1>3
<1>7. active \cup retired \subseteq active' \cup retired'
  BY <1>1
<1>8. PairsTravelTogether'
  <2>1. ASSUME NEW q \in active', IsRelease(q)'
        PROVE  {receipt'[s].analysis : s \in receipt'[q].supersedes}
                   = receipt'[receipt'[q].analysis].supersedes
    <3>1. q \in active /\ IsRelease(q)
      BY <1>1, <2>1 DEF IsRelease
    <3> QED
      BY <1>1, <3>1 DEF IInv, PairsTravelTogether
  <2>2. ASSUME NEW a \in retired', IsAnalysis(a)', successor'[a] # None
        PROVE  \E w \in ReleasesOf(a, retired)' :
                   successor'[w] \in ReleasesOf(successor[a], active \cup retired)'
    <3>1. a # r
      <4>1. CASE r \in pending /\ by = None
        <5>1. successor'[r] = None
          BY <1>1, <1>3, <4>1
        <5> QED
          BY <2>2, <5>1
      <4>2. CASE receipt[r].role = "plain"
        BY <1>1, <2>2, <4>2 DEF IsAnalysis
      <4> QED
        BY <1>2, <4>1, <4>2
    <3>2. a \in retired /\ IsAnalysis(a) /\ successor[a] # None
      BY <1>1, <1>6, <2>2, <3>1 DEF IsAnalysis
    <3>3. PICK w \in ReleasesOf(a, retired) :
                successor[w] \in ReleasesOf(successor[a], active \cup retired)
      BY <3>2 DEF IInv, PairsTravelTogether
    <3>4. w \in ReleasesOf(a, retired)'
      BY <1>1, <3>3 DEF ReleasesOf, IsRelease
    <3>5. successor'[w] \in ReleasesOf(successor[a], active \cup retired)'
      BY <1>1, <1>6, <1>7, <3>2, <3>3 DEF ReleasesOf, IsRelease
    <3> QED
      BY <3>4, <3>5
  <2> QED
    BY <2>1, <2>2 DEF PairsTravelTogether
<1> QED
  BY <1>1, <1>2, <1>3, <1>4, <1>5, <1>8, MoveKeeps
(* A release that mirrors its analysis supersedes the releases of exactly  *)
(* the analyses which that one supersedes.                                 *)
LEMMA MirrorsPair ==
    ASSUME NEW olds, NEW oldReleases, Mirrors(olds, oldReleases)
    PROVE  {receipt[q].analysis : q \in oldReleases} = olds
<1>1. oldReleases = UNION {ReleasesOf(o, active) : o \in olds}
  BY DEF Mirrors
<1>2. ASSUME NEW q \in oldReleases
      PROVE  receipt[q].analysis \in olds
  BY DEF Mirrors
<1>3. ASSUME NEW o \in olds
      PROVE  \E q \in oldReleases : receipt[q].analysis = o
  <2>1. Cardinality(ReleasesOf(o, active)) = 1
    BY DEF Mirrors
  <2>2. PICK q : q \in ReleasesOf(o, active)
    BY <2>1, FS_EmptySet
  <2>3. q \in oldReleases
    BY <1>1, <2>2
  <2> QED
    BY <2>2, <2>3 DEF ReleasesOf
<1> QED
  BY <1>2, <1>3

(* An analysis and its release become active together. *)
LEMMA ActivatePairKeeps ==
    ASSUME IInv, NEW a \in active \cup pending, NEW r, ActivatePair(a, r)
    PROVE  IInv'
<1>1. /\ a \in pending /\ r \in pending /\ IsRelease(r) /\ receipt[r].analysis = a
      /\ IsAnalysis(a)
      /\ Mirrors(receipt[a].supersedes, receipt[r].supersedes)
      /\ active' = active \cup {a, r} /\ pending' = pending \ {a, r}
      /\ UNCHANGED <<receipt, retired, successor, files>>
  BY DEF ActivatePair, ReleasesOf
<1>2. Published' = Published
  BY <1>1 DEF Published
<1>3. PairsTravelTogether'
  <2>1. ASSUME NEW q \in active', IsRelease(q)'
        PROVE  {receipt'[s].analysis : s \in receipt'[q].supersedes}
                   = receipt'[receipt'[q].analysis].supersedes
    <3>1. CASE q = r
      BY <1>1, <3>1, MirrorsPair
    <3>2. CASE q \in active
      BY <1>1, <2>1, <3>2 DEF IInv, PairsTravelTogether, IsRelease
    <3>3. q # a
      BY <1>1, <2>1 DEF IsRelease, IsAnalysis
    <3> QED
      BY <1>1, <3>1, <3>2, <3>3
  <2>2. ASSUME NEW b \in retired', IsAnalysis(b)', successor'[b] # None
        PROVE  \E w \in ReleasesOf(b, retired)' :
                   successor'[w] \in ReleasesOf(successor[b], active \cup retired)'
    <3>1. PICK w \in ReleasesOf(b, retired) :
                successor[w] \in ReleasesOf(successor[b], active \cup retired)
      BY <1>1, <2>2 DEF IInv, PairsTravelTogether, IsAnalysis
    <3> QED
      BY <1>1, <3>1 DEF ReleasesOf, IsRelease
  <2> QED
    BY <2>1, <2>2 DEF PairsTravelTogether
<1> QED
  BY <1>1, <1>2, <1>3, MoveKeeps DEF IInv, TypeOK

(* A pair is retired: alone, or for the halves of one active pair. *)
LEMMA RetirePairKeeps ==
    ASSUME IInv, NEW a \in active \cup pending, NEW r \in ReleasesOf(a, active \cup pending),
           NEW byA \in active \cup {None}, NEW byR \in active \cup {None},
           RetirePair(a, r, byA, byR)
    PROVE  IInv'
<1>1. /\ active' = active \ {a, r} /\ pending' = pending \ {a, r}
      /\ retired' = retired \cup {a, r}
      /\ successor' = [successor EXCEPT ![a] = byA, ![r] = byR]
      /\ UNCHANGED <<receipt, files>>
  BY DEF RetirePair
<1>2. r \in active \cup pending /\ IsRelease(r) /\ receipt[r].analysis = a
  BY DEF ReleasesOf
<1>3. \/ byA = None
      \/ MatchingPair(a, r, byA, byR)
  BY DEF RetirePair, MayRetirePair
<1>4. /\ active \subseteq Receipts /\ pending \subseteq Receipts /\ retired \subseteq Receipts
      /\ active \cap pending = {} /\ (active \cup pending) \cap retired = {}
      /\ successor \in [Receipts -> Receipts \cup {None}]
  BY DEF IInv, TypeOK
<1>5. Published' = Published
  BY <1>1, <1>2 DEF Published
<1>6. /\ successor' \in [Receipts -> Receipts \cup {None}]
      /\ successor'[r] = byR /\ (a # r => successor'[a] = byA)
      /\ \A q \in retired : successor'[q] = successor[q]
  BY <1>1, <1>2, <1>4
<1>7. active \cup retired \subseteq active' \cup retired'
  BY <1>1
<1>8. PairsTravelTogether'
  <2>1. ASSUME NEW q \in active', IsRelease(q)'
        PROVE  {receipt'[s].analysis : s \in receipt'[q].supersedes}
                   = receipt'[receipt'[q].analysis].supersedes
    <3>1. q \in active /\ IsRelease(q)
      BY <1>1, <2>1 DEF IsRelease
    <3> QED
      BY <1>1, <3>1 DEF IInv, PairsTravelTogether
  <2>2. ASSUME NEW b \in retired', IsAnalysis(b)', successor'[b] # None
        PROVE  \E w \in ReleasesOf(b, retired)' :
                   successor'[w] \in ReleasesOf(successor[b], active \cup retired)'
    <3>1. CASE b \in retired
      <4>1. PICK w \in ReleasesOf(b, retired) :
                  successor[w] \in ReleasesOf(successor[b], active \cup retired)
        BY <1>1, <1>6, <2>2, <3>1 DEF IInv, PairsTravelTogether, IsAnalysis
      <4>2. w \in ReleasesOf(b, retired)'
        BY <1>1, <4>1 DEF ReleasesOf, IsRelease
      <4>3. successor'[w] \in ReleasesOf(successor[b], active \cup retired)'
        BY <1>1, <1>6, <1>7, <3>1, <4>1 DEF ReleasesOf, IsRelease
      <4> QED
        BY <4>2, <4>3
    <3>2. CASE b \notin retired
      <4>1. b = a /\ a # r
        BY <1>1, <1>2, <2>2, <3>2 DEF IsAnalysis, IsRelease
      <4>2. byA # None /\ successor'[a] = byA
        BY <1>6, <2>2, <4>1
      <4>3. byR \in active /\ IsRelease(byR) /\ receipt[byR].analysis = byA
        BY <1>3, <4>2 DEF MatchingPair, ReleasesOf
      <4>4. r \in ReleasesOf(b, retired)'
        BY <1>1, <1>2, <4>1 DEF ReleasesOf, IsRelease
      <4>5. successor'[r] \in ReleasesOf(successor[b], active \cup retired)'
        BY <1>1, <1>6, <1>7, <4>1, <4>2, <4>3 DEF ReleasesOf, IsRelease
      <4> QED
        BY <4>4, <4>5
    <3> QED
      BY <3>1, <3>2
  <2> QED
    BY <2>1, <2>2 DEF PairsTravelTogether
<1> QED
  BY <1>1, <1>2, <1>4, <1>5, <1>6, <1>8, MoveKeeps
-----------------------------------------------------------------------------
(* A path without history is left while some path is. *)
LEMMA FreshPathFresh ==
    ASSUME Published # Receipts, Published \subseteq Receipts
    PROVE  FreshPath \in Receipts /\ FreshPath \notin Published
<1>1. \E r \in Receipts : r \notin Published
  OBVIOUS
<1> QED
  BY <1>1 DEF FreshPath

(* A new attempt is published as pending. *)
LEMMA RunKeeps ==
    ASSUME IInv, Published # Receipts,
           NEW role \in Roles, NEW a \in pending \cup {None}, NEW sup \in Named(active),
           NEW ops \in Named(Published), NEW inputs \in SUBSET Data, NEW data \in SUBSET Data,
           Run(role, a, sup, ops, inputs, data)
    PROVE  IInv'
<1> USE BoundAssumption DEF files
<1> DEFINE f == FreshPath
           new == [role |-> role, analysis |-> a, supersedes |-> sup, operands |-> ops,
                   rendered |-> FALSE,
                   rights |-> IF role = "release" THEN accepted.version ELSE 0,
                   data |-> data]
<1>1. /\ receipt' = [receipt EXCEPT ![f] = new]
      /\ pending' = pending \cup {f}
      /\ UNCHANGED <<active, retired, successor, stale, damaged, accepted, edits>>
  BY DEF Run
<1>2. /\ active \subseteq Receipts /\ pending \subseteq Receipts /\ retired \subseteq Receipts
      /\ receipt \in [Receipts -> Attempt]
      /\ accepted.version \in 0..MaxEdits
  BY DEF IInv, TypeOK
<1>3. f \in Receipts /\ f \notin Published
  BY <1>2, FreshPathFresh DEF Published
<1>4. Published' = Published \cup {f}
  BY <1>1 DEF Published
<1>5. sup \subseteq active /\ ops \subseteq Published /\ active \subseteq Published
      /\ pending \subseteq Published /\ retired \subseteq Published
  BY DEF Named, Published
<1>6. new \in Attempt
  <2>1. sup \subseteq Receipts /\ ops \subseteq Receipts /\ a \in Receipts \cup {None}
    BY <1>2, <1>5 DEF Published
  <2>2. (IF role = "release" THEN accepted.version ELSE 0) \in 0..MaxEdits
    BY <1>2
  <2> QED
    BY <2>1, <2>2 DEF Attempt
<1>7. receipt'[f] = new /\ \A q \in Published : receipt'[q] = receipt[q]
  BY <1>1, <1>2, <1>3
<1> HIDE DEF f, new
<1>8. /\ receipt'[f].role = role /\ receipt'[f].analysis = a /\ receipt'[f].supersedes = sup
      /\ receipt'[f].rights = (IF role = "release" THEN accepted.version ELSE 0)
      /\ receipt'[f].data = data
  BY <1>7 DEF new
<1>9. IF role = "release"
      THEN /\ pending = {a} /\ a # None
           /\ ~accepted.manual => data \subseteq accepted.open
      ELSE /\ pending = {} /\ data = {}
  BY DEF Run, MayRun, PlanStands, Turn, FilesCleared, Opened
<1>10. TypeOK'
  <2>1. receipt' \in [Receipts -> Attempt]
    BY <1>1, <1>2, <1>3, <1>6
  <2>2. /\ pending' \subseteq Receipts /\ active' \cap pending' = {}
        /\ (active' \cup pending') \cap retired' = {}
    BY <1>1, <1>2, <1>3 DEF IInv, TypeOK, Published
  <2>3. stale' \subseteq Published' /\ damaged' \subseteq Published'
    BY <1>1, <1>4 DEF IInv, TypeOK
  <2> QED
    BY <1>1, <2>1, <2>2, <2>3 DEF IInv, TypeOK
<1>11. Counted'
  BY <1>1 DEF IInv, Counted
<1>12. Related'
  <2> SUFFICES ASSUME NEW r \in Published'
               PROVE  /\ receipt'[r].supersedes \subseteq Published \cup {f}
                      /\ receipt'[r].role = "release" => receipt'[r].analysis \in Published \cup {f}
    BY <1>4 DEF Related, IsRelease
  <2>1. CASE r = f
    BY <1>5, <1>8, <1>9, <2>1
  <2>2. CASE r \in Published
    BY <1>7, <2>2 DEF IInv, Related, IsRelease
  <2> QED
    BY <1>4, <2>1, <2>2
<1>13. RightsRecorded'
  <2> SUFFICES ASSUME NEW r \in Receipts
               PROVE  /\ receipt'[r].rights <= accepted.version
                      /\ IF receipt'[r].role = "release"
                         THEN ~accepted.manual /\ receipt'[r].rights = accepted.version
                                  => receipt'[r].data \subseteq accepted.open
                         ELSE receipt'[r].data = {}
    BY <1>1 DEF RightsRecorded, IsRelease, RightsStand
  <2>1. CASE r = f
    <3>1. accepted.version \in Nat /\ accepted.version <= accepted.version /\ 0 <= accepted.version
      BY <1>2
    <3> QED
      BY <1>8, <1>9, <2>1, <3>1
  <2>2. CASE r # f
    <3>1. receipt'[r] = receipt[r]
      BY <1>1, <1>2, <2>2
    <3> QED
      BY <3>1 DEF IInv, RightsRecorded, IsRelease, RightsStand
  <2> QED
    BY <2>1, <2>2
<1>14. PendingAlone'
  <2> SUFFICES ASSUME NEW p \in pending \cup {f}, NEW q \in pending \cup {f}, p # q
               PROVE  receipt'[p].analysis = q \/ receipt'[q].analysis = p
    BY <1>1 DEF PendingAlone
  <2>1. role = "release" /\ pending = {a}
    BY <1>9
  <2>2. (p = f /\ q = a) \/ (p = a /\ q = f)
    BY <2>1
  <2> QED
    BY <1>8, <2>2
<1>15. PairsTravelTogether'
  <2>1. ASSUME NEW q \in active', IsRelease(q)'
        PROVE  {receipt'[s].analysis : s \in receipt'[q].supersedes}
                   = receipt'[receipt'[q].analysis].supersedes
    <3>1. q \in active /\ q \in Published /\ receipt'[q] = receipt[q]
      BY <1>1, <1>5, <1>7
    <3>2. IsRelease(q)
      BY <2>1, <3>1 DEF IsRelease
    <3>3. receipt[q].supersedes \subseteq Published /\ receipt[q].analysis \in Published
      BY <3>1, <3>2 DEF IInv, Related
    <3>4. {receipt[s].analysis : s \in receipt[q].supersedes}
              = receipt[receipt[q].analysis].supersedes
      BY <3>1, <3>2 DEF IInv, PairsTravelTogether
    <3>5. {receipt'[s].analysis : s \in receipt[q].supersedes}
              = {receipt[s].analysis : s \in receipt[q].supersedes}
      BY <1>7, <3>3
    <3> QED
      BY <1>7, <3>1, <3>3, <3>4, <3>5
  <2>2. ASSUME NEW b \in retired', IsAnalysis(b)', successor'[b] # None
        PROVE  \E w \in ReleasesOf(b, retired)' :
                   successor'[w] \in ReleasesOf(successor[b], active \cup retired)'
    <3>1. b \in retired /\ IsAnalysis(b) /\ successor[b] # None
      BY <1>1, <1>5, <1>7, <2>2 DEF IsAnalysis
    <3>2. PICK w \in ReleasesOf(b, retired) :
                successor[w] \in ReleasesOf(successor[b], active \cup retired)
      BY <3>1 DEF IInv, PairsTravelTogether
    <3>3. \A q \in active \cup retired : receipt'[q] = receipt[q]
      BY <1>5, <1>7
    <3> QED
      BY <1>1, <3>2, <3>3 DEF ReleasesOf, IsRelease
  <2> QED
    BY <2>1, <2>2 DEF PairsTravelTogether
<1> QED
  BY <1>10, <1>11, <1>12, <1>13, <1>14, <1>15 DEF IInv

-----------------------------------------------------------------------------
(* Every command and every edit keeps the invariant. *)
LEMMA StepKeeps == IInv /\ [Next]_vars => IInv'
<1> SUFFICES ASSUME IInv, [Next]_vars
             PROVE  IInv'
  OBVIOUS
<1> USE BoundAssumption
<1>1. ASSUME Published # Receipts,
             NEW role \in Roles, NEW a \in pending \cup {None}, NEW sup \in Named(active),
             NEW ops \in Named(Published), NEW inputs \in SUBSET Data,
             NEW data \in SUBSET Data, Run(role, a, sup, ops, inputs, data)
      PROVE  IInv'
  BY <1>1, RunKeeps
<1>2. ASSUME NEW r \in Published, RenderPending(r)
      PROVE  IInv'
  BY <1>2, RenderKeeps
<1>3. ASSUME NEW r \in Published, Rerender(r)
      PROVE  IInv'
  <2>1. UNCHANGED <<receipt, registry, accepted, stale, edits>> /\ damaged' = damaged \ {r}
    BY <1>3 DEF Rerender
  <2>2. edits \in 0..MaxEdits /\ edits >= edits /\ stale \subseteq Published /\ damaged \subseteq Published
    BY DEF IInv, TypeOK
  <2> QED
    BY <2>1, <2>2, FilesKeep
<1>4. ASSUME NEW r \in Published, Activate(r)
      PROVE  IInv'
  BY <1>4, ActivateKeeps
<1>5. ASSUME NEW r \in Published, Damage(r)
      PROVE  IInv'
  <2>1. /\ UNCHANGED <<receipt, registry, accepted, stale>> /\ damaged' = damaged \cup {r}
        /\ edits < MaxEdits /\ edits' = edits + 1
    BY <1>5 DEF Damage
  <2>2. edits \in 0..MaxEdits /\ stale \subseteq Published /\ damaged \subseteq Published
    BY DEF IInv, TypeOK
  <2>3. edits' \in 0..MaxEdits /\ edits' >= edits
    BY <2>1, <2>2
  <2> QED
    BY <2>1, <2>2, <2>3, FilesKeep
<1>6. ASSUME NEW r \in Published, NEW by \in active \cup {None}, Retire(r, by)
      PROVE  IInv'
  BY <1>6, RetireKeeps
<1>7. ASSUME NEW a \in active \cup pending, NEW r \in ReleasesOf(a, active \cup pending),
             ActivatePair(a, r)
      PROVE  IInv'
  BY <1>7, ActivatePairKeeps
<1>8. ASSUME NEW a \in active \cup pending, NEW r \in ReleasesOf(a, active \cup pending),
             NEW byA \in active \cup {None}, NEW byR \in active \cup {None},
             RetirePair(a, r, byA, byR)
      PROVE  IInv'
  BY <1>8, RetirePairKeeps
<1>9. ASSUME NEW S \in {Published} \cup {{r} : r \in Published}, Edit(S)
      PROVE  IInv'
  <2>1. /\ UNCHANGED <<receipt, registry, accepted, damaged>> /\ stale' = stale \cup S
        /\ edits < MaxEdits /\ edits' = edits + 1
    BY <1>9 DEF Edit
  <2>2. edits \in 0..MaxEdits /\ stale \subseteq Published /\ damaged \subseteq Published
    BY DEF IInv, TypeOK
  <2>3. edits' \in 0..MaxEdits /\ edits' >= edits
    BY <2>1, <2>2
  <2>4. S \subseteq Published
    OBVIOUS
  <2> QED
    BY <2>1, <2>2, <2>3, <2>4, FilesKeep
<1>10. CASE Restore
  <2>1. UNCHANGED <<receipt, registry, accepted, damaged, edits>> /\ stale' = {}
    BY <1>10 DEF Restore
  <2>2. edits \in 0..MaxEdits /\ edits >= edits /\ damaged \subseteq Published
    BY DEF IInv, TypeOK
  <2> QED
    BY <2>1, <2>2, FilesKeep
<1>11. CASE AdvanceRights
  BY <1>11, AdvanceKeeps
<1>12. CASE UNCHANGED vars
  <2>1. UNCHANGED <<receipt, registry, accepted, stale, damaged, edits>>
    BY <1>12 DEF vars, files
  <2>2. edits \in 0..MaxEdits /\ edits >= edits /\ stale \subseteq Published /\ damaged \subseteq Published
    BY DEF IInv, TypeOK
  <2> QED
    BY <2>1, <2>2, FilesKeep
<1> QED
  BY <1>1, <1>2, <1>3, <1>4, <1>5, <1>6, <1>7, <1>8, <1>9, <1>10, <1>11, <1>12 DEF Next

(* An audit that accepts has found every active release up to date with    *)
(* the inventory, under which all of its data was open.                    *)
LEMMA RightsClear == IInv => ReleasesCleared
<1> SUFFICES ASSUME IInv, ~accepted.manual, NEW r \in active, AuditAccepts
             PROVE  receipt[r].data \subseteq accepted.open
  BY DEF ReleasesCleared
<1>1. r \in Receipts
  BY DEF IInv, TypeOK
<1>2. IsRelease(r) => receipt[r].rights = accepted.version
  BY DEF AuditAccepts, Sound, ProducerSound, RightsStand
<1> QED
  BY <1>1, <1>2 DEF IInv, RightsRecorded

-----------------------------------------------------------------------------
LEMMA InvariantHolds == Spec => []IInv
<1> QED
  BY InitHolds, StepKeeps, PTL DEF Spec

(* The registry's lists are disjoint and its entries are well formed       *)
(* (_validate_registry_value()).                                           *)
THEOREM RegistryTypeCorrect == Spec => []TypeOK
<1>1. IInv => TypeOK
  BY DEF IInv
<1> QED
  BY <1>1, InvariantHolds, PTL

(* One attempt at a time is pending, with the release bound to it          *)
(* (validate_registration_plan()).                                         *)
THEOREM PendingAloneHolds == Spec => []PendingAlone
<1>1. IInv => PendingAlone
  BY DEF IInv
<1> QED
  BY <1>1, InvariantHolds, PTL

(* An analysis and its dataset release are superseded and handed on        *)
(* together (command_activate_pair(), command_retire_pair()).              *)
THEOREM PairsTravelTogetherHolds == Spec => []PairsTravelTogether
<1>1. IInv => PairsTravelTogether
  BY DEF IInv
<1> QED
  BY <1>1, InvariantHolds, PTL

(* Where there is a Gate 2, what the audit passes is open under the rights *)
(* inventory of the day (_validate_dataset_rights_authority()).            *)
THEOREM ReleasesClearedHolds == Spec => []ReleasesCleared
<1> QED
  BY RightsClear, InvariantHolds, PTL

-----------------------------------------------------------------------------
(* The proof that nothing active is stranded.  Who cites whom and who was  *)
(* handed on to whom are found by Closure, a recursive function, about     *)
(* which the argument needs three facts: what it returns contains what it  *)
(* was given, is closed, and is the least such set.  They are proved by    *)
(* induction over the rounds of the search: a round that is not yet closed *)
(* adds a receipt, and there are no more receipts than rounds.  Induction  *)
(* is stated about a set of numbers, and not about a predicate.            *)

LEMMA LeastNumber ==
    ASSUME NEW U, U \subseteq Nat, U # {}
    PROVE  \E x \in U : \A y \in U : x <= y
<1>1. \E x \in U : \A y \in U : ~ (<<y, x>> \in OpToRel(<, Nat))
  BY WFMin, NatLessThanWellFounded, Zenon
<1>2. PICK x \in U : \A y \in U : ~ (<<y, x>> \in OpToRel(<, Nat))
  BY <1>1
<1>3. \A y \in U : ~(y < x)
  BY <1>2, Zenon DEF OpToRel
<1> QED
  BY <1>3

LEMMA SetInduction ==
    ASSUME NEW U, 0 \in U, \A n \in Nat : n \in U => n + 1 \in U
    PROVE  Nat \subseteq U
<1>1. SUFFICES ASSUME Nat \ U # {} PROVE FALSE
  OBVIOUS
<1>2. PICK x \in Nat \ U : \A y \in Nat \ U : x <= y
  BY <1>1, LeastNumber
<1>3. x # 0 /\ x - 1 \in Nat /\ x - 1 \in U
  BY <1>2
<1> QED
  BY <1>2, <1>3

(* One round of the search adds what is one step away. *)
Nearer(next, X) == X \cup UNION {next[r] : r \in X}

(* The number of the last round. *)
Rounds == Cardinality(Receipts) - 1

(* The equation that Closure's function solves. *)
Grows(next, S, f) ==
    [n \in 0..Cardinality(Receipts) - 1 |-> IF n = 0 THEN S ELSE Nearer(next, f[n-1])]

LEMMA RoundsNatural == Receipts # {} => Rounds \in Nat
<1>1. Cardinality(Receipts) \in Nat /\ (Cardinality(Receipts) = 0 <=> Receipts = {})
  BY ReceiptsAssumption, FS_CardinalityType, FS_EmptySet
<1> QED
  BY <1>1 DEF Rounds

(* It has a solution. *)
LEMMA SearchExists ==
    ASSUME NEW next, NEW S, Receipts # {}
    PROVE  \E f : f = Grows(next, S, f)
<1> DEFINE Upto(m, f) == f = [n \in 0..m |-> IF n = 0 THEN S ELSE Nearer(next, f[n-1])]
           U == {m \in Nat : \E f : Upto(m, f)}
<1>1. 0 \in U
  <2>1. Upto(0, [n \in 0..0 |-> S])
    OBVIOUS
  <2> QED
    BY <2>1
<1>2. ASSUME NEW m \in Nat, m \in U PROVE m + 1 \in U
  <2>1. PICK f : Upto(m, f)
    BY <1>2
  <2> DEFINE g == [n \in 0..m+1 |-> IF n = m + 1 THEN Nearer(next, f[m]) ELSE f[n]]
             h == [n \in 0..m+1 |-> IF n = 0 THEN S ELSE Nearer(next, g[n-1])]
  <2>2. ASSUME NEW n \in 0..m+1 PROVE g[n] = h[n]
    <3>1. CASE n = 0
      BY <2>1, <3>1
    <3>2. CASE n # 0 /\ n # m + 1
      <4>1. n \in 0..m /\ n - 1 \in 0..m /\ n - 1 \in 0..m+1 /\ n - 1 # m + 1
        BY <3>2
      <4>2. g[n] = f[n] /\ g[n-1] = f[n-1]
        BY <4>1, <3>2
      <4>3. f[n] = Nearer(next, f[n-1])
        BY <4>1, <2>1, <3>2
      <4>4. h[n] = Nearer(next, g[n-1])
        BY <3>2
      <4> QED
        BY <4>2, <4>3, <4>4
    <3>3. CASE n = m + 1
      <4>1. n - 1 = m /\ m \in 0..m+1 /\ m # m + 1 /\ n # 0
        BY <3>3
      <4>2. g[n] = Nearer(next, f[m]) /\ g[m] = f[m]
        BY <4>1, <3>3
      <4>3. h[n] = Nearer(next, g[m])
        BY <4>1
      <4> QED
        BY <4>2, <4>3
    <3> QED
      BY <3>1, <3>2, <3>3
  <2>3. g = h
    <3> HIDE DEF Upto
    <3>1. g = [n \in 0..m+1 |-> g[n]] /\ h = [n \in 0..m+1 |-> h[n]]
      OBVIOUS
    <3> HIDE DEF g, h
    <3> QED
      BY <3>1, <2>2
  <2>4. Upto(m + 1, g)
    BY <2>3
  <2> QED
    <3> HIDE DEF g, h, Upto
    <3> QED
      BY <2>4
<1>3. Nat \subseteq U
  <2> HIDE DEF U
  <2> QED
    BY <1>1, <1>2, SetInduction
<1>4. \E f : Upto(Rounds, f)
  BY <1>3, RoundsNatural
<1> QED
  BY <1>4 DEF Grows, Rounds

(* What the search has found after each round, and what it returns. *)
LEMMA Search ==
    ASSUME NEW next, NEW S, Receipts # {}
    PROVE  \E f : /\ f[0] = S
                  /\ \A n \in Nat : n < Rounds => f[n+1] = Nearer(next, f[n])
                  /\ Closure(next, S) = f[Rounds]
<1> DEFINE w == CHOOSE f : f = Grows(next, S, f)
<1>1. w = Grows(next, S, w)
  BY SearchExists
<1>2. Closure(next, S) = w[Rounds]
  BY DEF Closure, Grows, Nearer, Rounds
<1> HIDE DEF w
<1>3. 0 \in 0..Rounds /\ Rounds \in Nat
  BY RoundsNatural
<1>4. \A n \in 0..Rounds : w[n] = IF n = 0 THEN S ELSE Nearer(next, w[n-1])
  <2> DEFINE g == Grows(next, S, w)
  <2>1. \A n \in 0..Rounds : g[n] = IF n = 0 THEN S ELSE Nearer(next, w[n-1])
    BY DEF Grows, Rounds
  <2> HIDE DEF g
  <2>2. w = g
    BY <1>1 DEF g
  <2> QED
    BY <2>1, <2>2
<1>5. w[0] = S
  BY <1>3, <1>4
<1>6. \A n \in Nat : n < Rounds => w[n+1] = Nearer(next, w[n])
  <2> SUFFICES ASSUME NEW n \in Nat, n < Rounds PROVE w[n+1] = Nearer(next, w[n])
    OBVIOUS
  <2>1. n + 1 \in 0..Rounds /\ n + 1 # 0 /\ (n + 1) - 1 = n
    BY <1>3
  <2> QED
    BY <1>4, <2>1
<1> QED
  BY <1>2, <1>5, <1>6

(* next stays among the receipts. *)
Steps(next) == \A r \in Receipts : next[r] \subseteq Receipts

(* Nothing leads out of X. *)
Closed(next, X) == \A r \in X : next[r] \subseteq X

(* It returns a set that is closed and contains S, ... *)
LEMMA ClosureContains ==
    ASSUME NEW next, NEW S \in SUBSET Receipts, Receipts # {}, Steps(next)
    PROVE  /\ S \subseteq Closure(next, S)
           /\ Closure(next, S) \subseteq Receipts
           /\ Closed(next, Closure(next, S))
<1>1. PICK f : /\ f[0] = S
               /\ \A n \in Nat : n < Rounds => f[n+1] = Nearer(next, f[n])
               /\ Closure(next, S) = f[Rounds]
  BY Search
<1> DEFINE Far(n) == Closed(next, f[n]) \/ Cardinality(f[n]) >= n + 1
           U == {n \in Nat : n <= Rounds =>
                   S \subseteq f[n] /\ f[n] \subseteq Receipts /\ Far(n)}
<1>0. Rounds \in Nat
  BY RoundsNatural
<1>2. 0 \in U
  <2>1. Far(0)
    <3>1. CASE S = {}
      BY <3>1, <1>1 DEF Closed
    <3>2. CASE S # {}
      <4>1. IsFiniteSet(S)
        BY ReceiptsAssumption, FS_Subset
      <4>2. Cardinality(S) \in Nat /\ Cardinality(S) # 0
        BY <4>1, <3>2, FS_CardinalityType, FS_EmptySet
      <4> QED
        BY <4>2, <1>1
    <3> QED
      BY <3>1, <3>2
  <2> QED
    BY <2>1, <1>1
<1>3. ASSUME NEW n \in Nat, n \in U PROVE n + 1 \in U
  <2> SUFFICES ASSUME n + 1 <= Rounds
               PROVE  S \subseteq f[n+1] /\ f[n+1] \subseteq Receipts /\ Far(n+1)
    OBVIOUS
  <2>1. n <= Rounds /\ n < Rounds
    BY <1>0
  <2>2. S \subseteq f[n] /\ f[n] \subseteq Receipts /\ Far(n)
    BY <2>1, <1>3
  <2>3. f[n+1] = Nearer(next, f[n])
    BY <2>1, <1>1
  <2>4. f[n] \subseteq f[n+1] /\ f[n+1] \subseteq Receipts
    BY <2>2, <2>3 DEF Nearer, Steps
  <2>5. Far(n+1)
    <3>1. CASE Closed(next, f[n])
      <4>1. f[n+1] = f[n]
        BY <3>1, <2>3 DEF Closed, Nearer
      <4> QED
        BY <3>1, <4>1
    <3>2. CASE ~Closed(next, f[n])
      <4> DEFINE X == f[n]
                 Y == f[n+1]
      <4>1. X # Y
        BY <3>2, <2>3 DEF Closed, Nearer
      <4>2. IsFiniteSet(X) /\ IsFiniteSet(Y)
        BY ReceiptsAssumption, <2>2, <2>4, FS_Subset
      <4>3. Cardinality(X) >= n + 1
        BY <2>2, <3>2
      <4>4. X \subseteq Y
        BY <2>4
      <4> HIDE DEF X, Y
      <4>5. Cardinality(X) <= Cardinality(Y) /\ Cardinality(X) # Cardinality(Y)
        BY <4>1, <4>2, <4>4, FS_Subset
      <4>6. Cardinality(X) \in Nat /\ Cardinality(Y) \in Nat
        BY <4>2, FS_CardinalityType
      <4>7. Cardinality(Y) >= (n + 1) + 1
        BY <4>3, <4>5, <4>6
      <4> QED
        BY <4>7 DEF Y
    <3> QED
      BY <3>1, <3>2
  <2> QED
    BY <2>2, <2>4, <2>5
<1>4. Nat \subseteq U
  <2> HIDE DEF U
  <2> QED
    BY <1>2, <1>3, SetInduction
<1>5. S \subseteq f[Rounds] /\ f[Rounds] \subseteq Receipts /\ Far(Rounds)
  BY <1>0, <1>4
<1>6. ASSUME Cardinality(f[Rounds]) >= Rounds + 1 PROVE f[Rounds] = Receipts
  <2> DEFINE Y == f[Rounds]
  <2>1. Y \in SUBSET Receipts /\ Cardinality(Y) >= Rounds + 1
    BY <1>5, <1>6
  <2> HIDE DEF Y
  <2>2. Cardinality(Y) <= Cardinality(Receipts) /\ (Cardinality(Receipts) = Cardinality(Y) => Receipts = Y)
    BY <2>1, ReceiptsAssumption, FS_Subset
  <2>3. Cardinality(Receipts) \in Nat /\ Cardinality(Y) \in Nat
    BY <2>1, ReceiptsAssumption, FS_Subset, FS_CardinalityType
  <2>4. Receipts = Y
    BY <2>1, <2>2, <2>3 DEF Rounds
  <2> QED
    BY <2>4 DEF Y
<1>7. Closed(next, f[Rounds])
  BY <1>5, <1>6 DEF Closed, Steps
<1> QED
  BY <1>1, <1>5, <1>7

(* ... and it is the least one. *)
LEMMA ClosureLeast ==
    ASSUME NEW next, NEW S, Receipts # {}, NEW T, S \subseteq T, Closed(next, T)
    PROVE  Closure(next, S) \subseteq T
<1>1. PICK f : /\ f[0] = S
               /\ \A n \in Nat : n < Rounds => f[n+1] = Nearer(next, f[n])
               /\ Closure(next, S) = f[Rounds]
  BY Search
<1> DEFINE U == {n \in Nat : n <= Rounds => f[n] \subseteq T}
<1>0. Rounds \in Nat
  BY RoundsNatural
<1>2. 0 \in U
  BY <1>1
<1>3. ASSUME NEW n \in Nat, n \in U PROVE n + 1 \in U
  <2> SUFFICES ASSUME n + 1 <= Rounds PROVE f[n+1] \subseteq T
    OBVIOUS
  <2>1. n <= Rounds /\ n < Rounds
    BY <1>0
  <2>2. f[n] \subseteq T /\ f[n+1] = Nearer(next, f[n])
    BY <2>1, <1>3, <1>1
  <2> QED
    BY <2>2 DEF Nearer, Closed
<1>4. Nat \subseteq U
  <2> HIDE DEF U
  <2> QED
    BY <1>2, <1>3, SetInduction
<1> QED
  BY <1>0, <1>1, <1>4

-----------------------------------------------------------------------------
(* Handing on *)

Links(R, next) == [s \in Receipts |-> {r \in R : next[r] = s}]
Citing(rec) == [r \in Receipts |-> rec[r].operands]

(* What is handed on to somebody in S, with S. *)
HandedTo(R, next, S) == Closure(Links(R, next), S)

LEMMA HandedContains ==
    ASSUME NEW R \in SUBSET Receipts, NEW next, NEW S \in SUBSET Receipts, Receipts # {}
    PROVE  /\ S \subseteq HandedTo(R, next, S)
           /\ HandedTo(R, next, S) \subseteq Receipts
           /\ \A r \in R : next[r] \in HandedTo(R, next, S) => r \in HandedTo(R, next, S)
<1> DEFINE l == Links(R, next)
           H == Closure(l, S)
<1>1. Steps(l)
  BY DEF Steps, Links
<1> HIDE DEF l
<1>2. S \subseteq H /\ H \subseteq Receipts /\ Closed(l, H)
  BY <1>1, ClosureContains
<1> HIDE DEF H
<1>3. \A r \in R : next[r] \in H => r \in H
  BY <1>2 DEF Closed, Links, l
<1> QED
  BY <1>2, <1>3 DEF HandedTo, H, l

LEMMA HandedLeast ==
    ASSUME NEW R \in SUBSET Receipts, NEW next, NEW S, Receipts # {},
           NEW T \in SUBSET Receipts, S \subseteq T, \A r \in R : next[r] \in T => r \in T
    PROVE  HandedTo(R, next, S) \subseteq T
<1>1. Closed(Links(R, next), T)
  BY DEF Closed, Links
<1> QED
  BY <1>1, ClosureLeast DEF HandedTo

(* More hands, and hands that reach those of before, keep what there was. *)
LEMMA HandedGrows ==
    ASSUME NEW R \in SUBSET Receipts, NEW next, NEW S \in SUBSET Receipts, Receipts # {},
           NEW R2 \in SUBSET Receipts, NEW next2, NEW S2 \in SUBSET Receipts,
           R \subseteq R2, \A r \in R : next2[r] = next[r],
           S \subseteq HandedTo(R2, next2, S2)
    PROVE  HandedTo(R, next, S) \subseteq HandedTo(R2, next2, S2)
<1> DEFINE T == HandedTo(R2, next2, S2)
<1>1. T \subseteq Receipts /\ \A r \in R2 : next2[r] \in T => r \in T
  BY HandedContains
<1> HIDE DEF T
<1>2. S \subseteq T
  BY DEF T
<1>3. HandedTo(R, next, S) \subseteq T
  BY <1>1, <1>2, HandedLeast
<1> QED
  BY <1>3 DEF T

(* Who is handed on to S comes to one part of S or to the other. *)
LEMMA HandedSplits ==
    ASSUME NEW R \in SUBSET Receipts, NEW next, Receipts # {},
           NEW S \in SUBSET Receipts, NEW A \in SUBSET Receipts, NEW B \in SUBSET Receipts,
           S \subseteq A \cup B
    PROVE  HandedTo(R, next, S) \subseteq HandedTo(R, next, A) \cup HandedTo(R, next, B)
<1> DEFINE X == HandedTo(R, next, A)
           Y == HandedTo(R, next, B)
<1>1. /\ A \subseteq X /\ X \subseteq Receipts /\ \A r \in R : next[r] \in X => r \in X
      /\ B \subseteq Y /\ Y \subseteq Receipts /\ \A r \in R : next[r] \in Y => r \in Y
  BY HandedContains
<1> HIDE DEF X, Y
<1>2. HandedTo(R, next, S) \subseteq X \cup Y
  <2>1. X \cup Y \in SUBSET Receipts /\ S \subseteq X \cup Y
    BY <1>1
  <2>2. \A r \in R : next[r] \in X \cup Y => r \in X \cup Y
    BY <1>1
  <2> QED
    BY <2>1, <2>2, HandedLeast
<1> QED
  BY <1>2 DEF X, Y

(* Receipts that keep their operands are cited as before. *)
LEMMA CitedShrinks ==
    ASSUME NEW rec, NEW rec2, NEW ops \in SUBSET Receipts, Receipts # {},
           \A r \in Receipts : rec[r].operands \subseteq Receipts,
           \A r \in Closure(Citing(rec), ops) : rec2[r].operands = rec[r].operands
    PROVE  Closure(Citing(rec2), ops) \subseteq Closure(Citing(rec), ops)
<1> DEFINE n == Citing(rec)
           C == Closure(n, ops)
<1>1. Steps(n)
  BY DEF Steps, Citing
<1> HIDE DEF n
<1>2. ops \subseteq C /\ C \subseteq Receipts /\ Closed(n, C)
  BY <1>1, ClosureContains
<1>3. \A r \in C : rec2[r].operands = rec[r].operands
  BY DEF n
<1> HIDE DEF C
<1>4. Closed(Citing(rec2), C)
  BY <1>2, <1>3 DEF Closed, Citing, n
<1>5. Closure(Citing(rec2), ops) \subseteq C
  BY <1>2, <1>4, ClosureLeast
<1> QED
  BY <1>5 DEF C, n

-----------------------------------------------------------------------------
(* Nothing active is stranded *)

LEMMA HeirsAre ==
    /\ \A S : Heirs(S) = HandedTo(retired, successor, S)
    /\ Eligible = HandedTo(retired, successor, active)
    /\ Eligible' = HandedTo(retired', successor', active')
  BY DEF Eligible, Heirs, HandedTo, Links

LEMMA CitedAre ==
    /\ \A ops : Cited(ops) = Closure(Citing(receipt), ops)
    /\ \A d : Cited(receipt[d].operands)' = Closure(Citing(receipt'), receipt'[d].operands)
  BY DEF Cited, Citing

LEMMA EligiblePublished == TypeOK /\ Receipts # {} => Eligible \subseteq active \cup retired
<1> SUFFICES ASSUME TypeOK, Receipts # {} PROVE Eligible \subseteq active \cup retired
  OBVIOUS
<1>1. HandedTo(retired, successor, active) \subseteq active \cup retired
  BY HandedLeast DEF TypeOK
<1> QED
  BY <1>1, HeirsAre

(* The commands that lose no heir: whoever becomes active is anchored, and *)
(* only receipts without history change what they cite.                    *)
LEMMA HeirsKept ==
    ASSUME TypeOK, TypeOK', OperandsAnchored,
           \A r \in active \cup retired : receipt'[r].operands = receipt[r].operands,
           retired \subseteq retired', \A r \in retired : successor'[r] = successor[r],
           active \subseteq Eligible',
           \A d \in active' \ active :
               /\ Cited(receipt[d].operands) \subseteq Eligible
               /\ receipt'[d].operands = receipt[d].operands
    PROVE  OperandsAnchored'
<1> SUFFICES ASSUME NEW d \in active'
             PROVE  Cited(receipt[d].operands)' \subseteq Eligible'
  BY DEF OperandsAnchored
<1>1. d \in Receipts /\ Receipts # {}
  BY DEF TypeOK
<1>2. \A r \in Receipts : receipt[r].operands \subseteq Receipts
  BY DEF TypeOK, Attempt
<1>3. Cited(receipt[d].operands) \subseteq Eligible
  BY DEF OperandsAnchored
<1>4. receipt'[d].operands = receipt[d].operands
  OBVIOUS
<1>5. Cited(receipt[d].operands)' \subseteq Cited(receipt[d].operands)
  <2> DEFINE C == Closure(Citing(receipt), receipt[d].operands)
  <2>1. \A r \in C : receipt'[r].operands = receipt[r].operands
    BY <1>1, <1>3, EligiblePublished, CitedAre
  <2>2. Closure(Citing(receipt'), receipt[d].operands) \subseteq C
    <3> DEFINE ops == receipt[d].operands
    <3>1. ops \in SUBSET Receipts
      BY <1>1, <1>2
    <3> HIDE DEF ops
    <3>2. Closure(Citing(receipt'), ops) \subseteq Closure(Citing(receipt), ops)
      BY <1>1, <1>2, <2>1, <3>1, CitedShrinks DEF ops
    <3> QED
      BY <3>2 DEF ops
  <2> QED
    BY <1>4, <2>2, CitedAre
<1>6. Eligible \subseteq Eligible'
  <2>1. /\ retired \in SUBSET Receipts /\ active \in SUBSET Receipts
        /\ retired' \in SUBSET Receipts /\ active' \in SUBSET Receipts
    BY DEF TypeOK
  <2>2. active \subseteq HandedTo(retired', successor', active')
    BY HeirsAre
  <2>3. HandedTo(retired, successor, active) \subseteq HandedTo(retired', successor', active')
    BY <1>1, <2>1, <2>2, HandedGrows
  <2> QED
    BY <2>3, HeirsAre
<1> QED
  BY <1>3, <1>5, <1>6

(* A receipt without a replacement leaves: nobody cites what it inherited. *)
LEMMA HeirsLost ==
    ASSUME TypeOK, TypeOK', OperandsAnchored, NEW targets \in SUBSET active,
           Dependents(targets) = {}, receipt' = receipt, active' = active \ targets,
           retired \subseteq retired', \A r \in retired : successor'[r] = successor[r]
    PROVE  OperandsAnchored'
<1> SUFFICES ASSUME NEW d \in active'
             PROVE  Cited(receipt[d].operands)' \subseteq Eligible'
  BY DEF OperandsAnchored
<1>1. d \in Receipts /\ Receipts # {} /\ d \in active \ targets
  BY DEF TypeOK
<1> DEFINE C == Cited(receipt[d].operands)
<1>2. Cited(receipt[d].operands)' = C
  BY CitedAre
<1>3. C \cap Heirs(targets) = {}
  BY <1>1 DEF Dependents
<1>4. C \subseteq Eligible
  BY <1>1 DEF OperandsAnchored
<1> HIDE DEF C
<1>5. /\ retired \in SUBSET Receipts /\ active \in SUBSET Receipts
      /\ retired' \in SUBSET Receipts /\ active' \in SUBSET Receipts
      /\ targets \in SUBSET Receipts
  BY DEF TypeOK
<1>6. HandedTo(retired, successor, active)
         \subseteq HandedTo(retired, successor, targets) \cup HandedTo(retired, successor, active')
  <2>1. active \subseteq targets \cup active'
    OBVIOUS
  <2> QED
    BY <1>1, <1>5, <2>1, HandedSplits
<1>7. HandedTo(retired, successor, active') \subseteq HandedTo(retired', successor', active')
  <2>1. active' \subseteq HandedTo(retired', successor', active')
    BY <1>1, <1>5, HandedContains
  <2> QED
    BY <1>1, <1>5, <2>1, HandedGrows
<1> QED
  BY <1>2, <1>3, <1>4, <1>6, <1>7, HeirsAre

(* Who is replaced stays an heir of the active ones through who replaces   *)
(* it.                                                                     *)
LEMMA Inherited ==
    ASSUME TypeOK', Receipts # {}, NEW q \in retired', successor'[q] \in active'
    PROVE  q \in Eligible'
<1>1. retired' \in SUBSET Receipts /\ active' \in SUBSET Receipts
  BY DEF TypeOK
<1>2. /\ active' \subseteq HandedTo(retired', successor', active')
      /\ \A r \in retired' : successor'[r] \in HandedTo(retired', successor', active')
             => r \in HandedTo(retired', successor', active')
  BY <1>1, HandedContains
<1> QED
  BY <1>2, HeirsAre

LEMMA StillActive ==
    ASSUME TypeOK', Receipts # {}
    PROVE  active' \subseteq Eligible'
<1>1. retired' \in SUBSET Receipts /\ active' \in SUBSET Receipts
  BY DEF TypeOK
<1>2. active' \subseteq HandedTo(retired', successor', active')
  BY <1>1, HandedContains
<1> QED
  BY <1>2, HeirsAre

(* Whatever does not move the lists. *)
LEMMA ListsStand ==
    ASSUME TypeOK, TypeOK', OperandsAnchored, UNCHANGED <<active, retired, successor>>,
           \A r \in active \cup retired : receipt'[r].operands = receipt[r].operands
    PROVE  OperandsAnchored'
<1>1. CASE Receipts = {}
  BY <1>1 DEF TypeOK, OperandsAnchored
<1>2. CASE Receipts # {}
  BY <1>2, StillActive, HeirsKept
<1> QED
  BY <1>1, <1>2

LEMMA RetireAnchors ==
    ASSUME TypeOK, TypeOK', OperandsAnchored, NEW r \in Published,
           NEW by \in active \cup {None}, Retire(r, by)
    PROVE  OperandsAnchored'
<1>1. /\ active' = active \ {r} /\ retired' = retired \cup {r}
      /\ successor' = [successor EXCEPT ![r] = by]
      /\ receipt' = receipt
  BY DEF Retire, files
<1>2. /\ r \in Receipts /\ Receipts # {}
      /\ active \cap pending = {} /\ (active \cup pending) \cap retired = {}
      /\ successor \in [Receipts -> Receipts \cup {None}]
  BY DEF TypeOK, Published
<1>3. r \in active \cup pending
  BY DEF Retire, MayRetire
<1>4. successor'[r] = by /\ \A q \in retired : successor'[q] = successor[q]
  BY <1>1, <1>2, <1>3
<1>5. active' \subseteq Eligible'
  BY <1>2, StillActive
<1>6. CASE r \in pending
  BY <1>1, <1>2, <1>4, <1>5, <1>6, HeirsKept
<1>7. CASE r \in active /\ by = None
  <2>1. Dependents({r}) = {}
    BY <1>2, <1>7 DEF Retire, MayRetire, MayLeave
  <2> QED
    BY <1>1, <1>4, <1>7, <2>1, HeirsLost
<1>8. CASE r \in active /\ by # None
  <2>1. by \in active \ {r}
    BY <1>2, <1>8 DEF Retire, MayRetire, Replacements
  <2>2. r \in Eligible'
    BY <1>1, <1>2, <1>4, <2>1, Inherited
  <2>3. active \subseteq Eligible'
    BY <1>1, <1>5, <2>2
  <2> QED
    BY <1>1, <1>4, <2>3, HeirsKept
<1> QED
  BY <1>3, <1>6, <1>7, <1>8

LEMMA RetirePairAnchors ==
    ASSUME TypeOK, TypeOK', OperandsAnchored, NEW a \in active \cup pending,
           NEW r \in ReleasesOf(a, active \cup pending),
           NEW byA \in active \cup {None}, NEW byR \in active \cup {None},
           RetirePair(a, r, byA, byR)
    PROVE  OperandsAnchored'
<1>1. /\ active' = active \ {a, r} /\ retired' = retired \cup {a, r}
      /\ successor' = [successor EXCEPT ![a] = byA, ![r] = byR]
      /\ receipt' = receipt
  BY DEF RetirePair, files
<1>2. /\ a \in Receipts /\ r \in Receipts /\ Receipts # {}
      /\ active \cap pending = {} /\ (active \cup pending) \cap retired = {}
      /\ successor \in [Receipts -> Receipts \cup {None}]
      /\ r \in active \cup pending
  BY DEF TypeOK, ReleasesOf
<1>3. /\ successor'[r] = byR /\ (a # r => successor'[a] = byA)
      /\ \A q \in retired : successor'[q] = successor[q]
  <2>1. \A q \in retired : q \in Receipts /\ q # a /\ q # r
    BY <1>2 DEF TypeOK
  <2>2. successor'[r] = byR /\ (a # r => successor'[a] = byA)
    BY <1>1, <1>2
  <2>3. \A q \in retired : successor'[q] = successor[q]
    BY <1>1, <1>2, <2>1
  <2> QED
    BY <2>2, <2>3
<1>4. active' \subseteq Eligible'
  BY <1>2, StillActive
<1>5. CASE a \in pending
  <2>1. r \in pending
    BY <1>2, <1>5 DEF RetirePair, MayRetirePair, ReleasesOf
  <2> QED
    BY <1>1, <1>2, <1>3, <1>4, <1>5, <2>1, HeirsKept
<1>6. CASE a \in active
  <2>1. /\ r \in active
        /\ MayLeave({a, r}, byA)
        /\ \/ byA = None /\ byR = None
           \/ MatchingPair(a, r, byA, byR)
    BY <1>2, <1>6 DEF RetirePair, MayRetirePair, ReleasesOf
  <2>2. CASE byA = None
    <3>1. Dependents({a, r}) = {}
      BY <2>1, <2>2 DEF MayLeave
    <3> QED
      BY <1>1, <1>3, <1>6, <2>1, <3>1, HeirsLost
  <2>3. CASE MatchingPair(a, r, byA, byR)
    <3>1. byA \in active' /\ byR \in active'
      BY <1>1, <2>3 DEF MatchingPair, Replacements
    <3>2. r \in Eligible' /\ a \in Eligible'
      BY <1>1, <1>2, <1>3, <3>1, Inherited
    <3>3. active \subseteq Eligible'
      BY <1>1, <1>4, <3>2
    <3> QED
      BY <1>1, <1>3, <3>3, HeirsKept
  <2> QED
    BY <2>1, <2>2, <2>3
<1> QED
  BY <1>5, <1>6

(* What becomes active was sound, and so its operands are eligible. *)
LEMMA ActivateAnchors ==
    ASSUME TypeOK, TypeOK', OperandsAnchored, NEW new, active' = active \cup new,
           \A d \in new : Sound(d), UNCHANGED <<receipt, retired, successor>>
    PROVE  OperandsAnchored'
<1>1. CASE Receipts = {}
  BY <1>1 DEF TypeOK, OperandsAnchored
<1>2. CASE Receipts # {}
  <2>1. active \subseteq Eligible'
    BY <1>2, StillActive
  <2>2. \A d \in active' \ active : Cited(receipt[d].operands) \subseteq Eligible
    BY DEF Sound, ProducerSound, OperandsSound
  <2> QED
    BY <2>1, <2>2, HeirsKept
<1> QED
  BY <1>1, <1>2

(* Every command keeps the operands anchored. *)
LEMMA StepAnchors == TypeOK /\ TypeOK' /\ OperandsAnchored /\ [Next]_vars => OperandsAnchored'
<1> SUFFICES ASSUME TypeOK, TypeOK', OperandsAnchored, [Next]_vars
             PROVE  OperandsAnchored'
  OBVIOUS
<1>1. ASSUME Published # Receipts,
             NEW role \in Roles, NEW a \in pending \cup {None}, NEW sup \in Named(active),
             NEW ops \in Named(Published), NEW inputs \in SUBSET Data,
             NEW data \in SUBSET Data, Run(role, a, sup, ops, inputs, data)
      PROVE  OperandsAnchored'
  <2>1. UNCHANGED <<active, retired, successor>>
    BY <1>1 DEF Run
  <2>2. FreshPath \in Receipts /\ FreshPath \notin active \cup retired
    BY <1>1, FreshPathFresh DEF TypeOK, Published
  <2>3. \A r \in active \cup retired : receipt'[r].operands = receipt[r].operands
    BY <1>1, <2>2 DEF Run, TypeOK
  <2> QED
    BY <2>1, <2>3, ListsStand
<1>2. ASSUME NEW r \in Published, RenderPending(r)
      PROVE  OperandsAnchored'
  <2>1. UNCHANGED <<active, retired, successor>>
    BY <1>2 DEF RenderPending, registry
  <2>2. \A q \in active \cup retired : receipt'[q].operands = receipt[q].operands
    <3>1. receipt' = [receipt EXCEPT ![r].rendered = TRUE]
      BY <1>2 DEF RenderPending
    <3>2. \A q \in Receipts : receipt[q] \in Attempt
      BY DEF TypeOK
    <3>3. \A q \in active \cup retired : q \in Receipts /\ q # r
      BY <1>2 DEF RenderPending, TypeOK
    <3> QED
      BY <3>1, <3>3 DEF TypeOK
  <2> QED
    BY <2>1, <2>2, ListsStand
<1>3. ASSUME NEW r \in Published, Activate(r)
      PROVE  OperandsAnchored'
  <2> DEFINE new == {r}
  <2>1. /\ active' = active \cup new /\ UNCHANGED <<receipt, retired, successor>>
        /\ \A d \in new : Sound(d)
    BY <1>3 DEF Activate, MayActivate
  <2> HIDE DEF new
  <2> QED
    BY <2>1, ActivateAnchors
<1>4. ASSUME NEW r \in Published, NEW by \in active \cup {None}, Retire(r, by)
      PROVE  OperandsAnchored'
  BY <1>4, RetireAnchors
<1>5. ASSUME NEW a, NEW r, ActivatePair(a, r)
      PROVE  OperandsAnchored'
  <2> DEFINE new == {a, r}
  <2>1. /\ active' = active \cup new /\ UNCHANGED <<receipt, retired, successor>>
        /\ \A d \in new : Sound(d)
    BY <1>5 DEF ActivatePair
  <2> HIDE DEF new
  <2> QED
    BY <2>1, ActivateAnchors
<1>6. ASSUME NEW a \in active \cup pending, NEW r \in ReleasesOf(a, active \cup pending),
             NEW byA \in active \cup {None}, NEW byR \in active \cup {None},
             RetirePair(a, r, byA, byR)
      PROVE  OperandsAnchored'
  BY <1>6, RetirePairAnchors
<1>7. CASE \/ \E r \in Published : Rerender(r) \/ Damage(r)
           \/ \E S \in {Published} \cup {{r} : r \in Published} : Edit(S)
           \/ Restore
           \/ AdvanceRights
           \/ UNCHANGED vars
  <2>1. UNCHANGED <<receipt, active, retired, successor>>
    BY <1>7 DEF Rerender, Damage, Edit, Restore, AdvanceRights, vars, registry
  <2> QED
    BY <2>1, ListsStand
<1> QED
  BY <1>1, <1>2, <1>3, <1>4, <1>5, <1>6, <1>7 DEF Next

(* Retirement strands no active comparison: whatever an active receipt     *)
(* cites, through any number of receipts, is active or was handed on link  *)
(* by link to something active.                                            *)
THEOREM OperandsAnchoredHolds == Spec => []OperandsAnchored
<1>1. Init => OperandsAnchored
  BY DEF Init, OperandsAnchored
<1>2. IInv => TypeOK
  BY DEF IInv
<1> QED
  BY <1>1, <1>2, InvariantHolds, StepAnchors, PTL DEF Spec

-----------------------------------------------------------------------------
(* The proof that verify-paper passes nothing which an auditor has not      *)
(* confirmed.  An input is not prepared anew while an auditor works on it,  *)
(* so that what stood when the auditor began is what the input still names; *)
(* a PASS that is written only if the input still stands has therefore seen *)
(* one state at both ends, the one whose digest it carries.                 *)

GateFunctions ==
    /\ input = [t \in Attempts |-> input[t]]
    /\ opened = [d \in Auditors |-> opened[d]]
    /\ report = [d \in Auditors |-> report[d]]
    /\ \A d \in Auditors : report[d] = [t \in Attempts |-> report[d][t]]

AttemptsNamed ==
    /\ \A d \in Auditors : opened[d] # None => opened[d].attempt \in Attempts
    /\ bound # None => bound.attempt \in Attempts

(* prepare-audit comes before the auditors of its attempt.                  *)
OpenedStands ==
    \A d \in Auditors :
        opened[d] # None => opened[d].first = input[opened[d].attempt]

(* verify-audit-input, at the beginning and at the end of an audit.         *)
PassSawOne ==
    \A d \in Auditors, t \in Attempts :
        report[d][t] # None => report[d][t].seen = {report[d][t].digest}

AuditInv == GateFunctions /\ AttemptsNamed /\ OpenedStands /\ PassSawOne

-----------------------------------------------------------------------------
LEMMA AuditInvInit == PaperInit => AuditInv
BY DEF PaperInit, AuditInv, GateFunctions, AttemptsNamed, OpenedStands, PassSawOne

LEMMA AuditUntouched ==
    ASSUME AuditInv, UNCHANGED audit
    PROVE  AuditInv'
BY DEF AuditInv, audit, GateFunctions, AttemptsNamed, OpenedStands, PassSawOne

LEMMA PrepareKeeps ==
    ASSUME AuditInv, NEW t \in Attempts, Prepare(t)
    PROVE  AuditInv'
<1>1. /\ input' = [input EXCEPT ![t] = Frozen]
      /\ UNCHANGED <<report, opened, bound>>
      /\ \A d \in Auditors : opened[d] # None => opened[d].attempt # t
  BY DEF Prepare
<1>2. GateFunctions' /\ AttemptsNamed' /\ PassSawOne'
  BY <1>1 DEF AuditInv, GateFunctions, AttemptsNamed, PassSawOne
<1>3. ASSUME NEW d \in Auditors, opened[d] # None
      PROVE  opened[d].first = input'[opened[d].attempt]
  BY <1>1, <1>3 DEF AuditInv, GateFunctions, AttemptsNamed, OpenedStands
<1>4. OpenedStands'
  BY <1>1, <1>3 DEF OpenedStands
<1> QED
  BY <1>2, <1>4 DEF AuditInv

LEMMA OpenKeeps ==
    ASSUME AuditInv, NEW d \in Auditors, NEW t \in Attempts, Open(d, t)
    PROVE  AuditInv'
<1>1. /\ opened' = [opened EXCEPT ![d] = [attempt |-> t, first |-> Frozen]]
      /\ UNCHANGED <<input, report, bound>>
      /\ input[t] = Frozen
  BY DEF Open, InputStands
<1>2. GateFunctions' /\ PassSawOne'
  BY <1>1 DEF AuditInv, GateFunctions, PassSawOne
<1>3. ASSUME NEW e \in Auditors
      PROVE  IF e = d THEN opened'[e].attempt = t /\ opened'[e].first = Frozen
                      ELSE opened'[e] = opened[e]
  BY <1>1 DEF AuditInv, GateFunctions
<1>4. AttemptsNamed' /\ OpenedStands'
  BY <1>1, <1>3 DEF AuditInv, AttemptsNamed, OpenedStands
<1> QED
  BY <1>2, <1>4 DEF AuditInv

(* The one step that writes a PASS.                                         *)
LEMMA CloseKeeps ==
    ASSUME AuditInv, NEW d \in Auditors, Close(d)
    PROVE  AuditInv'
<1> DEFINE t == opened[d].attempt
           verdict == IF InputStands(input[t])
                      THEN [digest |-> opened[d].first, seen |-> {opened[d].first, Frozen}]
                      ELSE None
<1>1. /\ opened[d] # None
      /\ opened' = [opened EXCEPT ![d] = None]
      /\ report' = [report EXCEPT ![d][t] = verdict]
      /\ UNCHANGED <<input, bound>>
  BY DEF Close
<1>2. t \in Attempts /\ opened[d].first = input[t]
  BY <1>1 DEF AuditInv, AttemptsNamed, OpenedStands
<1>3. verdict # None => verdict.seen = {verdict.digest}
  BY <1>2 DEF InputStands
<1> HIDE DEF t, verdict
<1>4. ASSUME NEW e \in Auditors, NEW u \in Attempts
      PROVE  report'[e][u] = IF e = d /\ u = t THEN verdict ELSE report[e][u]
  BY <1>1, <1>2 DEF AuditInv, GateFunctions
<1>5. PassSawOne'
  BY <1>3, <1>4 DEF AuditInv, PassSawOne
<1>6. GateFunctions'
  BY <1>1, <1>2 DEF AuditInv, GateFunctions
<1>7. ASSUME NEW e \in Auditors, opened'[e] # None
      PROVE  opened'[e] = opened[e]
  BY <1>1, <1>7 DEF AuditInv, GateFunctions
<1>8. AttemptsNamed' /\ OpenedStands'
  BY <1>1, <1>7 DEF AuditInv, AttemptsNamed, OpenedStands
<1> QED
  BY <1>5, <1>6, <1>8 DEF AuditInv

LEMMA KilledKeeps ==
    ASSUME AuditInv, NEW d \in Auditors, Killed(d)
    PROVE  AuditInv'
<1>1. opened' = [opened EXCEPT ![d] = None] /\ UNCHANGED <<input, report, bound>>
  BY DEF Killed
<1>2. GateFunctions' /\ PassSawOne'
  BY <1>1 DEF AuditInv, GateFunctions, PassSawOne
<1>3. ASSUME NEW e \in Auditors, opened'[e] # None
      PROVE  opened'[e] = opened[e]
  BY <1>1, <1>3 DEF AuditInv, GateFunctions
<1>4. AttemptsNamed' /\ OpenedStands'
  BY <1>1, <1>3 DEF AuditInv, AttemptsNamed, OpenedStands
<1> QED
  BY <1>2, <1>4 DEF AuditInv

LEMMA BindKeeps ==
    ASSUME AuditInv, NEW t \in Attempts, Bind(t)
    PROVE  AuditInv'
BY DEF Bind, AuditInv, GateFunctions, AttemptsNamed, OpenedStands, PassSawOne

LEMMA PaperStepKeeps == AuditInv /\ [PaperNext]_paperVars => AuditInv'
<1> SUFFICES ASSUME AuditInv, [PaperNext]_paperVars PROVE AuditInv'
  OBVIOUS
<1>1. CASE Lifecycle
  BY <1>1, AuditUntouched DEF Lifecycle
<1>2. CASE \E t \in Attempts : Prepare(t) \/ Bind(t)
  BY <1>2, PrepareKeeps, BindKeeps
<1>3. CASE \E d \in Auditors : \E t \in Attempts : Open(d, t)
  BY <1>3, OpenKeeps
<1>4. CASE \E d \in Auditors : Close(d) \/ Killed(d)
  BY <1>4, CloseKeeps, KilledKeeps
<1>5. CASE \E p \in Papers \ {paper} : Rewrite(p)
  BY <1>5, AuditUntouched DEF Rewrite
<1>6. CASE UNCHANGED paperVars
  BY <1>6, AuditUntouched DEF paperVars
<1> QED
  BY <1>1, <1>2, <1>3, <1>4, <1>5, <1>6 DEF PaperNext, Gate

(* verify-paper passes what it finds in place under the digest the auditors *)
(* passed.                                                                  *)
LEMMA PassedIsFrozen == AuditInv => BoundWasAudited
<1> SUFFICES ASSUME AuditInv, VerifyPasses, NEW d \in Auditors
             PROVE  report[d][bound.attempt].seen = {Frozen}
  BY DEF BoundWasAudited
<1>1. /\ bound.attempt \in Attempts
      /\ report[d][bound.attempt] # None
      /\ report[d][bound.attempt].digest = bound.digest
      /\ bound.digest = Frozen
  BY DEF AuditInv, AttemptsNamed, VerifyPasses, Passed, InputStands
<1> QED
  BY <1>1 DEF AuditInv, PassSawOne

-----------------------------------------------------------------------------
(* Where verify-paper passes, both auditors confirmed, at the beginning and *)
(* at the end of their work, what is in place (verify-audit-input,          *)
(* bind-paper, verify-paper), for any number of attempts and receipts.      *)
THEOREM BoundWasAuditedHolds == PaperSpec => []BoundWasAudited
<1>1. PaperSpec => []AuditInv
  BY AuditInvInit, PaperStepKeeps, PTL DEF PaperSpec
<1> QED
  BY <1>1, PassedIsFrozen, PTL

(* Soundness is read off the registry and the files alone. *)
LEMMA SoundStands ==
    UNCHANGED vars => \A r \in active : Sound(r)' <=> Sound(r)
<1> SUFFICES ASSUME UNCHANGED vars
             PROVE  \A r \in active : Sound(r)' <=> Sound(r)
  OBVIOUS
<1>1. UNCHANGED <<receipt, active, pending, retired, successor, stale, damaged, accepted>>
  BY DEF vars, registry, files
<1>2. Eligible' = Eligible
  BY <1>1, HeirsAre
<1>3. \A d \in active : Cited(receipt[d].operands)' = Cited(receipt[d].operands)
  BY <1>1, CitedAre
<1> QED
  BY <1>1, <1>2, <1>3 DEF Sound, ProducerSound, OperandsSound, IsRelease, RightsStand

(* What bind-paper accepts, verify-paper accepts: what it binds is what is *)
(* in place, and it looks at everything that verify-paper looks at.  None  *)
(* stands for Python's None, which is no paper receipt.                    *)
THEOREM BindingVerifiesHolds ==
    ASSUME \A t, i : [attempt |-> t, digest |-> i] # None
    PROVE  PaperSpec => BindingVerifies
<1>1. ASSUME NEW t \in Attempts, Bind(t)
      PROVE  VerifyPasses'
  <2>1. /\ AuditAccepts /\ InputStands(input[t])
        /\ \A d \in Auditors : Passed(d, t, input[t])
        /\ bound' = [attempt |-> t, digest |-> input[t]]
        /\ UNCHANGED <<vars, paper, input, report, opened>>
    BY <1>1 DEF Bind, MayBind
  <2>2. bound' # None /\ bound'.attempt = t /\ bound'.digest = input[t]
    BY <2>1
  <2>3. input'[bound'.attempt] = bound'.digest
    BY <2>1, <2>2
  <2>4. \A d \in Auditors : Passed(d, bound.attempt, bound.digest)'
    BY <2>1, <2>2 DEF Passed
  <2>5. InputStands(bound.digest)'
    <3>1. UNCHANGED <<receipt, active, pending, retired, successor>>
      BY <2>1 DEF vars, registry
    <3>2. Frozen' = Frozen
      BY <2>1, <3>1 DEF Frozen, registry
    <3>3. Discoverable'
      BY <2>1, <3>1 DEF InputStands, Discoverable
    <3> QED
      BY <2>1, <2>2, <3>2, <3>3 DEF InputStands
  <2>6. \A r \in active' : Sound(r)'
    <3>1. active' = active /\ \A r \in active : Sound(r)
      BY <2>1 DEF vars, registry, AuditAccepts
    <3> QED
      BY <2>1, <3>1, SoundStands
  <2> QED
    BY <2>2, <2>3, <2>4, <2>5, <2>6 DEF VerifyPasses
<1>2. ASSUME [PaperNext]_paperVars, ~(\E t \in Attempts : Bind(t))
      PROVE  bound' = bound
  BY <1>2 DEF PaperNext, Lifecycle, audit, Gate, Prepare, Open, Close, Killed, Rewrite, paperVars
<1>3. [PaperNext]_paperVars => [bound' # bound => VerifyPasses']_paperVars
  BY <1>1, <1>2
<1> QED
  BY <1>3, PTL DEF PaperSpec, BindingVerifies
=============================================================================
