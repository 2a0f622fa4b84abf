--------------------------- MODULE SessionProofs ---------------------------
(***************************************************************************)
(* Proofs about Capability and SessionStart: a teammate's authority, and   *)
(* the session that holds it.                                              *)
(*                                                                         *)
(* Of Capability, for every set of leases and checkers and every bound:    *)
(* its types, that a check never answers "current" of a lease that had     *)
(* lost its authority, that no lease is revived, and that the epoch        *)
(* implements Authority.                                                   *)
(*                                                                         *)
(* Of SessionStart, for every set of callers: its types, that no usable    *)
(* session holds a superseded policy, that no session is overwritten in    *)
(* the map, and that the band never says "starting" with no start under    *)
(* way.                                                                    *)
(***************************************************************************)
EXTENDS Capability, SessionStart, TLAPS
-----------------------------------------------------------------------------
(* Capability.                                                             *)


(* What a lease and the epoch it was captured from say of each other.  The *)
(* fourth conjunct is why reopening revives nothing: while the epoch is    *)
(* closed, every lease from before the closing is an authority behind.     *)
LeaseInv ==
  \A l \in Made :
    /\ lease[l] \in Lease
    /\ lease[l].generation <= epoch.generation
    /\ lease[l].authority <= epoch.authority
    /\ (~epoch.active /\ lease[l].activeAtCapture)
         => lease[l].authority < epoch.authority
    /\ \A k \in lease[l].over :
         /\ k \in Made
         /\ lease[k].generation = lease[l].generation
         /\ lease[k].authority = lease[l].authority
         /\ lease[k].lasting = lease[l].lasting
         /\ lease[k].activeAtCapture = lease[l].activeAtCapture

(* A check under way of a lease that was not current still has the reason  *)
(* ahead of it: a flag it has not loaded, or the epoch.                    *)
CheckInv ==
  \A c \in Checkers :
    check[c].answer = "reading" =>
      /\ check[c].of \in Made
      /\ ~check[c].began => \/ ~EpochHolds(check[c].of)
                            \/ \E k \in check[c].unread : k \in revoked

HandlesInv == EpochTypeOK /\ revoked \subseteq Made /\ LeaseInv /\ CheckInv /\ CheckSound

LEMMA UnmadeIsNoLease == Unmade \notin Lease
BY NoHandleAssumption DEF Unmade, Lease

LEMMA IdleIsNoCheck == Idle \notin Check /\ Idle.answer = "none"
BY DEF Idle, Check

(* A lease a call writes is made, and the others keep their record.        *)
LEMMA MadeOf ==
  ASSUME EpochTypeOK
  PROVE  \A l \in Leases : l \in Made <=> lease[l] \in Lease
BY UnmadeIsNoLease DEF EpochTypeOK, Made

(* Every step keeps the leases made and can only take authority from them. *)
LEMMA StepKeepsMade ==
  ASSUME EpochTypeOK, [EpochNext]_epochVars
  PROVE  \A l \in Made : l \in Made' /\ lease'[l] = lease[l]
<1>1. CASE \E l \in Leases, lasting \in BOOLEAN : Capture(l, lasting)
  BY <1>1 DEF EpochTypeOK, Made, Capture
<1>2. CASE \E l, parent \in Leases : Scoped(l, parent)
  BY <1>2 DEF EpochTypeOK, Made, Scoped
<1>3. CASE UNCHANGED lease
  BY <1>3 DEF Made
<1> QED
  BY <1>1, <1>2, <1>3
  DEF EpochNext, epochVars, Revoke, Invalidate, Stop, ReplaceSession, Activate,
      BeginCheck, LoadRevoked, ReadEpoch

LEMMA StepKeepsRevoked ==
  ASSUME EpochTypeOK, [EpochNext]_epochVars
  PROVE  revoked \subseteq revoked'
BY DEF EpochTypeOK, EpochNext, epochVars, Capture, Scoped, Revoke, Invalidate, Stop,
       ReplaceSession, Activate, BeginCheck, LoadRevoked, ReadEpoch

(* The counters only grow, and only a growing authority closes the epoch.  *)
LEMMA EpochMoves ==
  ASSUME epoch \in Epoch, Invalidate \/ Stop \/ ReplaceSession \/ Activate
  PROVE  /\ epoch' \in Epoch
         /\ epoch.generation <= epoch'.generation
         /\ epoch.authority <= epoch'.authority
         /\ \/ epoch'.active
            \/ epoch.authority < epoch'.authority
            \/ epoch'.active = epoch.active
<1>0. epoch.generation \in Nat /\ epoch.authority \in Nat /\ epoch.active \in BOOLEAN
  BY DEF Epoch
<1>1. CASE Invalidate
  <2>1. epoch' = [generation |-> epoch.generation + 1,
                  authority |-> epoch.authority + 1, active |-> FALSE]
    BY <1>1 DEF Invalidate
  <2>2. epoch' \in Epoch
    BY <1>0, <2>1 DEF Epoch
  <2>3. /\ epoch'.generation = epoch.generation + 1
        /\ epoch'.authority = epoch.authority + 1
    BY <2>1
  <2> QED
    BY <1>0, <2>2, <2>3
<1>2. CASE Stop
  <2>1. epoch' = [generation |-> epoch.generation + 1,
                  authority |-> epoch.authority + 1, active |-> epoch.active]
    BY <1>2 DEF Stop, Epoch
  <2> QED
    BY <1>0, <2>1 DEF Epoch
<1>3. CASE ReplaceSession
  <2>1. epoch' = [generation |-> epoch.generation + 1,
                  authority |-> epoch.authority, active |-> epoch.active]
    BY <1>3 DEF ReplaceSession, Epoch
  <2> QED
    BY <1>0, <2>1 DEF Epoch
<1>4. CASE Activate
  <2>1. epoch' = [generation |-> epoch.generation,
                  authority |-> epoch.authority, active |-> TRUE]
    BY <1>4 DEF Activate, Epoch
  <2> QED
    BY <1>0, <2>1 DEF Epoch
<1> QED
  BY <1>1, <1>2, <1>3, <1>4

LEMMA StepRevivesNoEpoch ==
  ASSUME HandlesInv, [EpochNext]_epochVars
  PROVE  \A l \in Made : EpochHolds(l)' => EpochHolds(l)
<1> SUFFICES ASSUME NEW l \in Made, EpochHolds(l)'
             PROVE  EpochHolds(l)
  OBVIOUS
<1> USE DEF HandlesInv
<1>1. lease'[l] = lease[l] /\ lease[l] \in Lease
  BY StepKeepsMade DEF LeaseInv
<1>2. epoch \in Epoch
  BY DEF EpochTypeOK
<1>3. CASE UNCHANGED epoch
  BY <1>1, <1>3 DEF EpochHolds
<1>4. CASE Invalidate
  BY <1>2, <1>4 DEF Invalidate, EpochHolds, Epoch
<1>5. CASE Stop
  BY <1>1, <1>2, <1>5 DEF Stop, EpochHolds, Epoch, Lease, LeaseInv
<1>6. CASE ReplaceSession
  BY <1>1, <1>2, <1>6 DEF ReplaceSession, EpochHolds, Epoch, Lease, LeaseInv
<1>7. CASE Activate
  BY <1>1, <1>2, <1>7 DEF Activate, EpochHolds, Epoch, Lease, LeaseInv
<1> QED
  BY <1>3, <1>4, <1>5, <1>6, <1>7
  DEF EpochNext, epochVars, Capture, Scoped, Revoke, BeginCheck, LoadRevoked, ReadEpoch

-----------------------------------------------------------------------------
LEMMA InitHandlesInv == EpochInit => HandlesInv
<1> SUFFICES ASSUME EpochInit PROVE HandlesInv
  OBVIOUS
<1>1. Made = {}
  BY DEF EpochInit, Made
<1>2. EpochTypeOK
  BY DEF EpochInit, EpochTypeOK, Epoch
<1>3. CheckInv /\ CheckSound
  BY IdleIsNoCheck DEF EpochInit, CheckInv, CheckSound
<1> QED
  BY <1>1, <1>2, <1>3 DEF EpochInit, HandlesInv, LeaseInv

LEMMA StepTypeOK ==
  ASSUME HandlesInv, [EpochNext]_epochVars
  PROVE  EpochTypeOK'
<1> USE DEF HandlesInv, EpochTypeOK
<1>0. CASE UNCHANGED epochVars
  BY <1>0 DEF epochVars
<1>1. ASSUME NEW l \in Leases, NEW lasting \in BOOLEAN, Capture(l, lasting)
      PROVE  EpochTypeOK'
  BY <1>1 DEF Capture, Lease, Epoch
<1>2. ASSUME NEW l \in Leases, NEW parent \in Leases, Scoped(l, parent)
      PROVE  EpochTypeOK'
  <2>1. lease[parent] \in Lease /\ Chain(parent) \in SUBSET Leases
    BY <1>2, MadeOf DEF Scoped, Chain, Lease, LeaseInv
  <2> QED
    BY <1>2, <2>1 DEF Scoped, Lease
<1>3. ASSUME NEW l \in Leases, Revoke(l) PROVE EpochTypeOK'
  BY <1>3 DEF Revoke
<1>4. CASE Invalidate \/ Stop \/ ReplaceSession \/ Activate
  <2>1. UNCHANGED <<lease, revoked, check>>
    BY <1>4 DEF Invalidate, Stop, ReplaceSession, Activate
  <2> QED
    BY <1>4, <2>1, EpochMoves
<1>5. ASSUME NEW c \in Checkers, NEW l \in Leases, BeginCheck(c, l)
      PROVE  EpochTypeOK'
  <2>1. Chain(l) \in SUBSET Leases /\ Current(l) \in BOOLEAN
    BY <1>5 DEF BeginCheck, Chain, Lease, LeaseInv, Current
  <2>2. [of |-> l, unread |-> Chain(l), began |-> Current(l),
         answer |-> "reading"] \in Check
    BY <2>1 DEF Check
  <2> QED
    BY <1>5, <2>2 DEF BeginCheck
<1>6. ASSUME NEW c \in Checkers, NEW k \in Leases, LoadRevoked(c, k)
      PROVE  EpochTypeOK'
  <2>1. check[c] \in Check
    BY <1>6, IdleIsNoCheck DEF LoadRevoked
  <2>2. /\ [check[c] EXCEPT !.answer = "stale"] \in Check
        /\ [check[c] EXCEPT !.unread = @ \ {k}] \in Check
    BY <2>1 DEF Check
  <2> QED
    BY <1>6, <2>2 DEF LoadRevoked
<1>7. ASSUME NEW c \in Checkers, ReadEpoch(c) PROVE EpochTypeOK'
  <2>1. check[c] \in Check
    BY <1>7, IdleIsNoCheck DEF ReadEpoch
  <2>2. \A a \in {"current", "stale"} : [check[c] EXCEPT !.answer = a] \in Check
    BY <2>1 DEF Check
  <2> QED
    BY <1>7, <2>2 DEF ReadEpoch
<1> QED
  BY <1>0, <1>1, <1>2, <1>3, <1>4, <1>5, <1>6, <1>7 DEF EpochNext

LEMMA StepLeaseInv ==
  ASSUME HandlesInv, [EpochNext]_epochVars
  PROVE  LeaseInv' /\ revoked' \subseteq Made'
<1> USE DEF HandlesInv
<1>a. epoch \in Epoch /\ \A l \in Leases : l \in Made <=> lease[l] \in Lease
  BY MadeOf DEF EpochTypeOK
<1>0. CASE UNCHANGED <<epoch, lease, revoked>>
  BY <1>0 DEF LeaseInv, Made
<1>1. ASSUME NEW l \in Leases, NEW lasting \in BOOLEAN, Capture(l, lasting)
      PROVE  LeaseInv' /\ revoked' \subseteq Made'
  <2> DEFINE new == [generation |-> epoch.generation,
                     authority |-> epoch.authority, lasting |-> lasting,
                     activeAtCapture |-> epoch.active, over |-> {}]
  <2>1. new \in Lease
    BY <1>a DEF Lease, Epoch
  <2>2. Made' = Made \cup {l} /\ lease'[l] = new
        /\ \A k \in Made : lease'[k] = lease[k]
    BY <1>1, <2>1, UnmadeIsNoLease DEF Capture, Made, EpochTypeOK
  <2>3. epoch' = epoch /\ revoked' = revoked
    BY <1>1 DEF Capture
  <2> QED
    BY <1>a, <2>1, <2>2, <2>3 DEF LeaseInv, Epoch
<1>2. ASSUME NEW l \in Leases, NEW parent \in Leases, Scoped(l, parent)
      PROVE  LeaseInv' /\ revoked' \subseteq Made'
  <2> DEFINE new == [lease[parent] EXCEPT !.over = Chain(parent)]
  <2>1. parent \in Made /\ lease[parent] \in Lease
        /\ Chain(parent) \in SUBSET Leases
    BY <1>2, <1>a DEF Scoped, Chain, Lease, LeaseInv
  <2>2. /\ new \in Lease
        /\ new.over = Chain(parent)
        /\ new.generation = lease[parent].generation
        /\ new.authority = lease[parent].authority
        /\ new.lasting = lease[parent].lasting
        /\ new.activeAtCapture = lease[parent].activeAtCapture
    BY <2>1 DEF Lease
  <2>3. Made' = Made \cup {l} /\ lease'[l] = new
        /\ \A k \in Made : lease'[k] = lease[k]
    <3>1. lease' = [lease EXCEPT ![l] = new] /\ l \notin Made
      BY <1>2 DEF Scoped
    <3> HIDE DEF new
    <3> QED
      BY <3>1, <2>2, UnmadeIsNoLease DEF Made, EpochTypeOK
  <2>4. epoch' = epoch /\ revoked' = revoked
    BY <1>2 DEF Scoped
  <2>5. \A k \in Chain(parent) :
          /\ k \in Made
          /\ lease[k].generation = new.generation
          /\ lease[k].authority = new.authority
          /\ lease[k].lasting = new.lasting
          /\ lease[k].activeAtCapture = new.activeAtCapture
    BY <2>1, <2>2 DEF Chain, LeaseInv
  <2> HIDE DEF new
  <2> QED
    BY <1>a, <2>1, <2>2, <2>3, <2>4, <2>5 DEF LeaseInv
<1>3. ASSUME NEW l \in Leases, Revoke(l)
      PROVE  LeaseInv' /\ revoked' \subseteq Made'
  BY <1>3 DEF Revoke, LeaseInv, Made
<1>4. CASE Invalidate \/ Stop \/ ReplaceSession \/ Activate
  <2>1. lease' = lease /\ revoked' = revoked /\ Made' = Made
    BY <1>4 DEF Invalidate, Stop, ReplaceSession, Activate, Made
  <2>2. /\ epoch' \in Epoch
        /\ epoch.generation <= epoch'.generation
        /\ epoch.authority <= epoch'.authority
        /\ \/ epoch'.active
           \/ epoch.authority < epoch'.authority
           \/ epoch'.active = epoch.active
    BY <1>4, <1>a, EpochMoves
  <2> QED
    BY <1>a, <2>1, <2>2 DEF LeaseInv, Lease, Epoch
<1> QED
  BY <1>0, <1>1, <1>2, <1>3, <1>4
  DEF EpochNext, epochVars, BeginCheck, LoadRevoked, ReadEpoch

(* Along a chain the epoch is compared with the same fields.               *)
LEMMA ChainSharesEpoch ==
  ASSUME LeaseInv, NEW l \in Made, NEW k \in Chain(l)
  PROVE  k \in Made /\ (EpochHolds(k) <=> EpochHolds(l))
BY DEF LeaseInv, Chain, EpochHolds

LEMMA StepCheckInv ==
  ASSUME HandlesInv, [EpochNext]_epochVars
  PROVE  CheckInv' /\ CheckSound'
<1> USE DEF HandlesInv
<1>1. /\ revoked \subseteq revoked'
      /\ \A l \in Made : l \in Made'
      /\ \A l \in Made : EpochHolds(l)' => EpochHolds(l)
  BY StepKeepsMade, StepKeepsRevoked, StepRevivesNoEpoch
<1>2. CASE UNCHANGED check
  BY <1>1, <1>2 DEF CheckInv, CheckSound
<1>3. ASSUME NEW c \in Checkers, NEW l \in Leases, BeginCheck(c, l)
      PROVE  CheckInv' /\ CheckSound'
  <2>1. /\ l \in Made
        /\ check'[c] = [of |-> l, unread |-> Chain(l), began |-> Current(l),
                        answer |-> "reading"]
        /\ \A d \in Checkers \ {c} : check'[d] = check[d]
    BY <1>3 DEF BeginCheck, EpochTypeOK
  <2>2. ~Current(l) => \/ ~EpochHolds(l)
                       \/ \E k \in Chain(l) : k \in revoked
    BY <2>1, ChainSharesEpoch DEF Current
  <2>3. UNCHANGED <<epoch, lease, revoked>>
    BY <1>3 DEF BeginCheck
  <2> QED
    BY <1>1, <2>1, <2>2, <2>3 DEF CheckInv, CheckSound, EpochHolds
<1>4. ASSUME NEW c \in Checkers, NEW k \in Leases, LoadRevoked(c, k)
      PROVE  CheckInv' /\ CheckSound'
  <2>1. /\ check[c] \in Check /\ check[c].answer = "reading"
        /\ \A d \in Checkers \ {c} : check'[d] = check[d]
        /\ UNCHANGED <<epoch, lease, revoked>>
    BY <1>4, IdleIsNoCheck DEF LoadRevoked, EpochTypeOK
  <2>2. CASE k \in revoked
    <3>1. check'[c].answer = "stale"
      BY <1>4, <2>1, <2>2 DEF LoadRevoked, EpochTypeOK, Check
    <3> QED
      BY <2>1, <3>1 DEF CheckInv, CheckSound, EpochHolds, Made
  <2>3. CASE k \notin revoked
    <3>1. /\ check'[c].answer = "reading"
          /\ check'[c].of = check[c].of
          /\ check'[c].began = check[c].began
          /\ check'[c].unread = check[c].unread \ {k}
      BY <1>4, <2>1, <2>3 DEF LoadRevoked, EpochTypeOK, Check
    <3> QED
      BY <2>1, <2>3, <3>1 DEF CheckInv, CheckSound, EpochHolds, Made
  <2> QED
    BY <2>2, <2>3
<1>5. ASSUME NEW c \in Checkers, ReadEpoch(c)
      PROVE  CheckInv' /\ CheckSound'
  <2>1. /\ check[c] \in Check /\ check[c].answer = "reading"
        /\ check[c].unread = {}
        /\ check'[c].began = check[c].began
        /\ check'[c].answer = IF EpochHolds(check[c].of) THEN "current"
                                                         ELSE "stale"
        /\ \A d \in Checkers \ {c} : check'[d] = check[d]
        /\ UNCHANGED <<epoch, lease, revoked>>
    BY <1>5, IdleIsNoCheck DEF ReadEpoch, EpochTypeOK, Check
  <2>2. EpochHolds(check[c].of) => check[c].began
    BY <2>1 DEF CheckInv, Check
  <2> QED
    BY <2>1, <2>2 DEF CheckInv, CheckSound, EpochHolds, Made
<1> QED
  BY <1>2, <1>3, <1>4, <1>5
  DEF EpochNext, epochVars, Capture, Scoped, Revoke, Invalidate, Stop, ReplaceSession,
      Activate

-----------------------------------------------------------------------------
LEMMA Inductive == EpochSpec => []HandlesInv
<1>1. HandlesInv /\ [EpochNext]_epochVars => HandlesInv'
  BY StepTypeOK, StepLeaseInv, StepCheckInv DEF HandlesInv
<1> QED
  BY InitHandlesInv, <1>1, PTL DEF EpochSpec

(* Every scoped lease is tied to leases that were made and holds what they *)
(* were captured with, and the types are right (scoped, capture), for any  *)
(* number of leases and chain lengths.                                     *)
THEOREM LeasesStayTied == EpochSpec => []LeasesAreTied
<1>1. HandlesInv => LeasesAreTied
  <2> SUFFICES ASSUME HandlesInv PROVE LeasesAreTied
    OBVIOUS
  <2>1. EpochTypeOK /\ revoked \subseteq Made /\ LeaseInv
    BY DEF HandlesInv
  <2>2. ASSUME NEW l \in Made
        PROVE  /\ lease[l].generation <= epoch.generation
               /\ lease[l].authority <= epoch.authority
    BY <2>1 DEF LeaseInv
  <2>3. ASSUME NEW l \in Made, NEW k \in lease[l].over
        PROVE  k \in Made /\ CapturedOf(k) = CapturedOf(l)
    <3>1. /\ k \in Made
          /\ lease[k].generation = lease[l].generation
          /\ lease[k].authority = lease[l].authority
          /\ lease[k].lasting = lease[l].lasting
          /\ lease[k].activeAtCapture = lease[l].activeAtCapture
      BY <2>1, <2>3 DEF LeaseInv
    <3> QED
      BY <3>1 DEF CapturedOf
  <2> QED
    BY <2>1, <2>2, <2>3 DEF LeasesAreTied
<1> QED
  BY Inductive, <1>1, PTL

(* A check that answers "current" was begun on a lease that held authority *)
(* (is_current), for any number of tool calls, leases and chain lengths.   *)
THEOREM ChecksAreSound == EpochSpec => []CheckSound
BY Inductive, PTL DEF HandlesInv

(* No step of the epoch, and no other lease, gives a lease its authority   *)
(* back (invalidate, stop, replace_session, activate, revoke).             *)
THEOREM NoLeaseRevives == EpochSpec => NeverRevived
<1>1. HandlesInv /\ [EpochNext]_epochVars => \A l \in Made : Current(l)' => Current(l)
  <2> SUFFICES ASSUME HandlesInv, [EpochNext]_epochVars, NEW l \in Made, Current(l)'
               PROVE  Current(l)
    OBVIOUS
  <2>1. \A k \in Chain(l) : k \in Made
    BY DEF HandlesInv, LeaseInv, Chain
  <2>2. lease'[l] = lease[l]
    BY StepKeepsMade DEF HandlesInv
  <2>3. Chain(l)' = Chain(l)
    BY <2>2 DEF Chain
  <2> QED
    BY <2>1, <2>3, StepKeepsRevoked, StepRevivesNoEpoch DEF HandlesInv, Current
<1>2. (\A l \in Made : Current(l)' => Current(l))
        => [\A l \in Made : Current(l)' => Current(l)]_epochVars
  OBVIOUS
<1> QED
  BY Inductive, <1>1, <1>2, PTL DEF EpochSpec, NeverRevived

(* A step that keeps the teammate's authority, leaves the epoch open and   *)
(* revokes nothing, keeps every lasting lease current: the leases of a     *)
(* chain are all lasting or none is (replace_session, lasting, scoped).    *)
THEOREM LastingIsKept == EpochSpec => LastingOutlivesReplacement
<1> DEFINE Untouched == epoch'.authority = epoch.authority /\ epoch'.active
                         /\ revoked' = revoked
           Kept == \A l \in Made : (lease[l].lasting /\ Current(l)) => Current(l)'
<1>1. HandlesInv /\ [EpochNext]_epochVars => (Untouched => Kept)
  <2> SUFFICES ASSUME HandlesInv, [EpochNext]_epochVars, Untouched,
                      NEW l \in Made, lease[l].lasting, Current(l)
               PROVE  Current(l)'
    OBVIOUS
  <2> USE DEF HandlesInv
  <2>1. /\ Chain(l)' = Chain(l) /\ l \in Made'
        /\ \A k \in Chain(l) : k \in Made /\ lease'[k] = lease[k]
    BY StepKeepsMade DEF LeaseInv, Chain
  <2>2. \A k \in Chain(l) : lease[k].lasting
    BY DEF LeaseInv, Chain
  <2>3. \A k \in Chain(l) : EpochHolds(k) => EpochHolds(k)'
    BY <2>1, <2>2 DEF EpochHolds
  <2> QED
    BY <2>1, <2>3 DEF Current
<1>2. (Untouched => Kept) => [Untouched => Kept]_epochVars
  OBVIOUS
<1> QED
  BY Inductive, <1>1, <1>2, PTL DEF EpochSpec, LastingOutlivesReplacement

(* Nothing gives a lease its authority back, and nothing but the           *)
(* teammate's authority or a revocation takes a lasting one's away.        *)
THEOREM LeasesLiveOnce == EpochSpec => LeaseLife
BY NoLeaseRevives, LastingIsKept DEF LeaseLife
-----------------------------------------------------------------------------
(* The refinement: a current lease is live, any other made lease is spent. *)
Live == {l \in Leases : Current(l)}
Spent == {l \in Made : ~Current(l)}

LEMMA MadeIsLiveOrSpent == Made = Live \cup Spent /\ Live \cap Spent = {}
BY DEF Live, Spent, Current, Made

(* A step that makes no lease ends some of them.                           *)
LEMMA OldLeasesOnlyEnd ==
  ASSUME HandlesInv, [EpochNext]_epochVars, Made' = Made
  PROVE  Live' \subseteq Live /\ Spent' = Spent \cup (Live \ Live')
<1>1. \A l \in Made : Current(l)' => Current(l)
  <2> SUFFICES ASSUME NEW l \in Made, Current(l)'
               PROVE  Current(l)
    OBVIOUS
  <2>1. Chain(l)' = Chain(l) /\ \A k \in Chain(l) : k \in Made
    BY StepKeepsMade DEF Chain, HandlesInv, LeaseInv
  <2> QED
    BY <2>1, StepKeepsRevoked, StepRevivesNoEpoch DEF HandlesInv, Current
<1> QED
  BY <1>1 DEF Live, Spent, Current, Made

(* A step that only makes the lease l leaves the others as they were.      *)
LEMMA OthersKept ==
  ASSUME HandlesInv, NEW l \in Leases, l \notin Made, Made' = Made \cup {l},
         \A k \in Made : lease'[k] = lease[k], UNCHANGED <<epoch, revoked>>
  PROVE  \A k \in Made : Current(k)' = Current(k)
<1> SUFFICES ASSUME NEW k \in Made PROVE Current(k)' = Current(k)
  OBVIOUS
<1>1. Chain(k)' = Chain(k) /\ \A j \in Chain(k) : j \in Made
  BY DEF Chain, HandlesInv, LeaseInv
<1>2. \A j \in Chain(k) : EpochHolds(j)' = EpochHolds(j)
  BY <1>1 DEF EpochHolds
<1> QED
  BY <1>1, <1>2 DEF Current

LEMMA StepImplements ==
  ASSUME HandlesInv, [EpochNext]_epochVars
  PROVE  [Promise!Next]_(Promise!vars)
<1> USE DEF HandlesInv
<1>i. LeaseInv' /\ EpochTypeOK'
  BY StepLeaseInv, StepTypeOK
<1>1. ASSUME NEW l \in Leases, NEW lasting \in BOOLEAN, Capture(l, lasting)
      PROVE  Promise!Grant
  <2>1. /\ Made' = Made \cup {l} /\ l \notin Made
        /\ \A k \in Made : lease'[k] = lease[k]
        /\ UNCHANGED <<epoch, revoked>>
    <3>1. lease'[l] \in Lease
      BY <1>1 DEF Capture, EpochTypeOK, Lease, Epoch
    <3> QED
      BY <1>1, <3>1, UnmadeIsNoLease DEF Capture, Made, EpochTypeOK
  <2>2. \A k \in Made : Current(k)' = Current(k)
    BY <2>1, OthersKept
  <2>3. Current(l)' => epoch.active
    BY <1>1 DEF Capture, Current, Chain, EpochHolds
  <2> QED
    BY <2>1, <2>2, <2>3 DEF Promise!Grant, Current, Made
<1>2. ASSUME NEW l \in Leases, NEW parent \in Leases, Scoped(l, parent)
      PROVE  Promise!Grant
  <2>1. /\ Made' = Made \cup {l} /\ l \notin Made
        /\ \A k \in Made : lease'[k] = lease[k]
        /\ UNCHANGED <<epoch, revoked>>
    <3>1. /\ parent \in Made /\ lease[parent] \in Lease
          /\ Chain(parent) \in SUBSET Leases
      BY <1>2, MadeOf DEF Scoped, Chain, Lease, LeaseInv
    <3>2. lease'[l] \in Lease
      BY <1>2, <3>1 DEF Scoped, EpochTypeOK, Lease
    <3> QED
      BY <1>2, <3>2, UnmadeIsNoLease DEF Scoped, Made, EpochTypeOK
  <2>2. \A k \in Made : Current(k)' = Current(k)
    BY <2>1, OthersKept
  <2>3. Current(l)' => epoch.active
    BY <2>1 DEF Current, Chain, EpochHolds
  <2> QED
    BY <2>1, <2>2, <2>3 DEF Promise!Grant, Current, Made
<1>3. ASSUME Made' = Made, UNCHANGED epoch
      PROVE  Promise!End
  BY <1>3, OldLeasesOnlyEnd DEF Promise!End, Live, Spent
<1>4. CASE Invalidate
  <2>1. Made' = Made /\ epoch'.active = FALSE
    BY <1>4 DEF Invalidate, Made
  <2>2. Live' = {}
    BY <2>1 DEF Live, Current, Chain, EpochHolds
  <2>3. Promise!Close
    BY <2>1, <2>2, OldLeasesOnlyEnd DEF Promise!Close, Live, Spent
  <2> QED
    BY <2>3 DEF Promise!Next
<1>5. CASE Stop \/ ReplaceSession
  <2>1. Made' = Made /\ epoch'.active = epoch.active
    BY <1>5 DEF Stop, ReplaceSession, Made, EpochTypeOK, Epoch
  <2>2. Promise!End
    BY <2>1, OldLeasesOnlyEnd DEF Promise!End, Live, Spent
  <2> QED
    BY <2>2 DEF Promise!Next
<1>6. CASE Activate
  <2>1. /\ Made' = Made /\ epoch'.active = TRUE /\ UNCHANGED <<lease, revoked>>
        /\ epoch'.authority = epoch.authority
        /\ epoch'.generation = epoch.generation
    BY <1>6 DEF Activate, Made, EpochTypeOK, Epoch
  <2>2. \A l \in Made : EpochHolds(l) => EpochHolds(l)'
    BY <2>1 DEF EpochHolds
  <2>3. \A l \in Made : Chain(l)' = Chain(l) /\ \A k \in Chain(l) : k \in Made
    BY <2>1 DEF Chain, LeaseInv
  <2>4. \A l \in Leases : Current(l) => Current(l)'
    BY <2>1, <2>2, <2>3 DEF Current
  <2>5. Live' = Live /\ Spent' = Spent
    BY <2>1, <2>4, OldLeasesOnlyEnd DEF Live, Spent
  <2>6. Promise!Reopen
    BY <2>1, <2>5 DEF Promise!Reopen, Live, Spent
  <2> QED
    BY <2>6 DEF Promise!Next
<1>7. CASE UNCHANGED lease /\ UNCHANGED epoch
  <2>1. Made' = Made
    BY <1>7 DEF Made
  <2> QED
    BY <1>3, <1>7, <2>1 DEF Promise!Next
<1> QED
  BY <1>1, <1>2, <1>4, <1>5, <1>6, <1>7
  DEF EpochNext, epochVars, Revoke, BeginCheck, LoadRevoked, ReadEpoch, Promise!Next

(* The epoch and its leases implement Authority: whatever a teammate's     *)
(* policy updates, stops, swaps, scopes and revocations do, a handle goes  *)
(* from live to spent and never back.                                      *)
THEOREM ImplementsAuthority == EpochSpec => Implements
<1>1. EpochInit => Promise!Init
  BY DEF EpochInit, Promise!Init, Current, Made
<1> QED
  BY <1>1, StepImplements, Inductive, PTL DEF EpochSpec, Implements, Promise!Spec
-----------------------------------------------------------------------------
(* SessionStart.                                                           *)


(* Who holds the policy lock, by where it is in its call.                  *)
HoldsPolicy(t) ==
  \/ task[t].pc \in {"revise", "append", "renew", "activate", "forget"}
  \/ task[t].call = "delete" /\ task[t].pc \in {"swap", "settle", "end"}

LockInv == \A t \in Tasks : policyLock = t <=> HoldsPolicy(t)

(* Who holds a start gate.                                                 *)
HoldsGate(t) ==
  \/ task[t].pc \in {"gated", "lock", "renew", "activate", "mark", "read",
                     "open", "publish", "fail", "leave"}
  \/ task[t].call \in {"swap", "rebuild"} /\ task[t].pc \in {"swap", "settle"}

GateInv ==
  \A t \in Tasks : HoldsGate(t) => gates[task[t].gate] = t

(* Where each call can be.                                                 *)
ShapeInv ==
  \A t \in Tasks :
    /\ task[t].pc = "gate" => task[t].call \in {"start", "swap", "rebuild", "update"}
    /\ task[t].pc \in {"swap", "settle"} => task[t].call \in {"swap", "rebuild", "stop", "delete"}
    /\ task[t].pc = "end" => task[t].call \in {"stop", "delete"}
    /\ task[t].pc \in {"policy", "revise", "append"} => task[t].call \in {"update", "delete"}
    /\ task[t].pc \in {"reattach", "lock", "renew", "activate"} => task[t].call = "update"
    /\ task[t].pc = "forget" => task[t].call = "delete"

(* The quarantine: it is closed while a record is being written and once   *)
(* the teammate is gone, and only a gone teammate is forgotten.            *)
LifeInv ==
  /\ \A t \in Tasks : task[t].gate <= life
  /\ \A t \in Tasks : task[t].pc = "append" => policy # Gone /\ ~epochs[1].active
  /\ \A t \in Tasks : task[t].pc = "activate" => policy # Gone
  /\ \A t \in Tasks : HoldsPolicy(t) /\ task[t].call = "delete"
                        /\ task[t].pc \notin {"revise", "append"} => policy = Gone
  /\ life = 2 => policy = Gone
  /\ policy = Gone => ~epochs[1].active

(* A lease is never ahead of its epoch, and while the epoch is closed every*)
(* lease from before the closing is a generation behind: so opening the    *)
(* epoch again revives none.                                               *)
LeaseIn(l, eps, named) ==
  /\ l.life <= named
  /\ l.generation <= eps[l.life].generation
  /\ l.active /\ ~eps[l.life].active => l.generation < eps[l.life].generation

LeasesInv == /\ LeaseIn(session.lease, epochs, life)
             /\ \A t \in Tasks : LeaseIn(task[t].lease, epochs, life)

(* What a start has read is the durable record, as long as its lease holds.*)
ReadInv ==
  \A t \in Tasks : /\ task[t].pc \in {"open", "publish"}
                   /\ Valid(task[t].lease)
                   => task[t].read = policy

(* A start past the look finds the place empty until it takes it.          *)
Bringing(t) ==
  \/ task[t].pc \in {"mark", "read", "open", "publish"}
  \/ task[t].call \in {"swap", "rebuild"} /\ task[t].pc = "settle"

PlaceInv == \A t \in Tasks : Bringing(t) => ~session.up

RestingInv == session.up => resting = "stopped"

Safe == /\ TypeOK /\ ShapeInv /\ LockInv /\ LifeInv /\ LeasesInv /\ ReadInv
        /\ NoStalePolicy

IInv == Safe /\ GateInv /\ PlaceInv /\ RestingInv /\ StartingHasAStart
-----------------------------------------------------------------------------
(* The call a task's record stands for, field by field.                    *)
IsCall(k, call, pc, l, read, gate) ==
  /\ k.call = call
  /\ k.pc = pc
  /\ k.lease = l
  /\ k.read = read
  /\ k.gate = gate

(* A step that moves task t: what it is next, and nothing of the others.   *)
Moves(t, call, pc, l, read, gate) ==
  /\ task' \in [Tasks -> Task]
  /\ IsCall(task'[t], call, pc, l, read, gate)
  /\ \A u \in Tasks \ {t} : task'[u] = task[u]

Keeps(t, pc) == Moves(t, task[t].call, pc, task[t].lease, task[t].read, task[t].gate)

(* Replacing a task's record replaces its fields, and no other task's.     *)
LEMMA Becomes ==
  ASSUME TypeOK, NEW t \in Tasks, NEW k \in Task, Become(t, k),
         NEW call, NEW pc, NEW l, NEW read, NEW gate, IsCall(k, call, pc, l, read, gate)
  PROVE  Moves(t, call, pc, l, read, gate)
BY DEF TypeOK, Become, Moves

(* Moving a task on changes where it is and nothing else of it.            *)
LEMMA Goes ==
  ASSUME TypeOK, NEW t \in Tasks, NEW pc \in Pcs, Go(t, pc)
  PROVE  Keeps(t, pc)
<1> DEFINE k == [task[t] EXCEPT !.pc = pc]
<1>1. k \in Task /\ IsCall(k, task[t].call, pc, task[t].lease, task[t].read, task[t].gate)
  BY DEF TypeOK, Task, IsCall
<1>2. Become(t, k)
  BY DEF Go
<1> HIDE DEF k
<1> QED
  BY <1>1, <1>2, Becomes DEF Keeps

(* Epoch tables a step writes.                                             *)
LEMMA EpochsTyped ==
  ASSUME TypeOK
  PROVE  /\ Advanced \in Epochs
         /\ Quarantined \in Epochs
         /\ Activated \in Epochs
         /\ Advanced[life] = [generation |-> epochs[life].generation + 1,
                             active |-> epochs[life].active]
         /\ Quarantined[life] = [generation |-> epochs[life].generation + 1,
                                active |-> FALSE]
         /\ Activated[life] = [generation |-> epochs[life].generation,
                              active |-> TRUE]
         /\ \A i \in Lives \ {life} : /\ Advanced[i] = epochs[i]
                                     /\ Quarantined[i] = epochs[i]
                                     /\ Activated[i] = epochs[i]
<1>1. epochs \in Epochs /\ life \in Lives
  BY DEF TypeOK, Epochs
<1>2. /\ epochs[life].generation \in Nat
      /\ epochs[life].generation + 1 \in Nat
      /\ epochs[life].active \in BOOLEAN
  BY <1>1 DEF Epochs
<1> QED
  BY <1>1, <1>2 DEF Advanced, Quarantined, Activated, Epochs

(* A capture is a lease on the epoch that the id names.                    *)
LEMMA CapturedTyped ==
  ASSUME TypeOK, NEW eps \in Epochs
  PROVE  /\ Captured(eps) \in SessionLease
         /\ Captured(eps).life = life
         /\ Captured(eps).generation = eps[life].generation
         /\ Captured(eps).active = eps[life].active
BY DEF TypeOK, Captured, SessionLease, Lives, Epochs

(* Valid, in the epochs a step leaves.                                      *)
ValidIn(l, eps) == /\ l.active
                   /\ eps[l.life].active
                   /\ eps[l.life].generation = l.generation

(* No move of the epochs puts a lease ahead of its epoch or revives it, and *)
(* what is captured of them is neither ahead nor behind.                    *)
LEMMA LeasesAge ==
  ASSUME TypeOK
  PROVE  \A eps \in {epochs, Advanced, Quarantined, Activated} :
           /\ \A l \in SessionLease : LeaseIn(l, epochs, life) =>
                /\ LeaseIn(l, eps, life)
                /\ ValidIn(l, eps) => Valid(l)
           /\ LeaseIn(Captured(eps), eps, life)
           /\ LeaseIn(NoLease, eps, life)
<1> SUFFICES ASSUME NEW eps \in {epochs, Advanced, Quarantined, Activated}
    PROVE  /\ \A l \in SessionLease : LeaseIn(l, epochs, life) =>
                /\ LeaseIn(l, eps, life)
                /\ ValidIn(l, eps) => Valid(l)
           /\ LeaseIn(Captured(eps), eps, life)
           /\ LeaseIn(NoLease, eps, life)
  OBVIOUS
<1>1. epochs \in Epochs /\ life \in Lives
  BY DEF TypeOK
<1>2. eps \in Epochs
  BY <1>1, EpochsTyped
<1>3. /\ \A i \in Lives \ {life} : eps[i] = epochs[i]
      /\ epochs[life].generation <= eps[life].generation
      /\ \/ eps[life].active
         \/ epochs[life].generation < eps[life].generation
         \/ ~epochs[life].active /\ eps[life].active = epochs[life].active
      /\ \/ eps[life].generation # epochs[life].generation
         \/ eps[life].generation = epochs[life].generation
  BY <1>1, EpochsTyped DEF Epochs
<1>4. ASSUME NEW l \in SessionLease, LeaseIn(l, epochs, life)
      PROVE  LeaseIn(l, eps, life) /\ (ValidIn(l, eps) => Valid(l))
  BY <1>1, <1>2, <1>3, <1>4 DEF LeaseIn, ValidIn, Valid, SessionLease, Lives, Epochs
<1>5. LeaseIn(Captured(eps), eps, life)
  BY <1>1, <1>2, CapturedTyped DEF LeaseIn, Lives, Epochs
<1>6. LeaseIn(NoLease, eps, life)
  BY <1>1, <1>2 DEF LeaseIn, NoLease, Lives, Epochs
<1> QED
  BY <1>4, <1>5, <1>6

(* The steps that change nothing the callers share but the band and the    *)
(* gates: they move the task that takes them.                              *)
LocalStep(t) ==
  \/ \E call \in Calls : Ask(t, call) \/ AskChange(t, call)
  \/ AskStop(t) \/ TakeGate(t) \/ FindSession(t)
  \/ DropWaiting(t) \/ DropInside(t)
  \/ MarkStarting(t) \/ ReadPersona(t) \/ BuildAgent(t) \/ EndStarting(t)
  \/ LeaveGate(t) \/ SwapRefused(t) \/ Settle(t) \/ AskReattach(t)

(* Where such a step takes the task.                                       *)
LocalMove(t) ==
  \/ /\ task[t].pc = "idle"
     /\ \E call \in {"start", "swap", "rebuild"} :
          Moves(t, call, "gate", Captured(epochs), task[t].read, life)
  \/ /\ task[t].pc = "idle"
     /\ \E call \in {"update", "delete"} :
          Moves(t, call, "policy", task[t].lease, task[t].read, task[t].gate)
  \/ /\ task[t].pc = "idle"
     /\ Moves(t, "stop", "swap", task[t].lease, task[t].read, task[t].gate)
  \/ /\ task[t].pc = "gate"
     /\ \/ task[t].call = "start" /\ Keeps(t, "gated")
        \/ task[t].call \in {"swap", "rebuild"} /\ Keeps(t, "swap")
        \/ task[t].call = "update" /\ Keeps(t, "lock")
  \/ task[t].pc \in {"policy", "gate", "swap", "mark"} /\ Keeps(t, "refused")
       /\ (task[t].pc = "swap" => task[t].call = "swap")
  \/ task[t].pc \in {"gate", "lock"} /\ Keeps(t, "dropped")
  \/ /\ task[t].pc = "gated"
     /\ (~session.up /\ Keeps(t, "mark")) \/ Keeps(t, "leave")
  \/ task[t].pc = "mark" /\ Keeps(t, "read")
  \/ /\ task[t].pc = "read"
     /\ \/ /\ policy \in Nat
           /\ Moves(t, task[t].call, "open", task[t].lease, policy, task[t].gate)
        \/ Keeps(t, "fail")
  \/ task[t].pc = "open" /\ (Keeps(t, "publish") \/ Keeps(t, "fail"))
  \/ task[t].pc = "fail" /\ Keeps(t, "leave")
  \/ task[t].pc = "leave" /\ Keeps(t, "done")
  \/ /\ task[t].pc = "swap" /\ task[t].call \in {"swap", "rebuild"}
     /\ Keeps(t, "leave")
  \/ /\ task[t].pc = "settle"
     /\ \/ task[t].call \in {"stop", "delete"} /\ Keeps(t, "end")
        \/ task[t].call \in {"swap", "rebuild"} /\ Keeps(t, "mark")
  \/ /\ task[t].pc = "reattach"
     /\ \/ Keeps(t, "turned")
        \/ Moves(t, task[t].call, "gate", task[t].lease, task[t].read, life)

(* Such a step moves the task and keeps policy, epochs, session and lock.  *)
LEMMA LocalMoves ==
  ASSUME TypeOK, NEW t \in Tasks, LocalStep(t)
  PROVE  LocalMove(t) /\ UNCHANGED <<policy, epochs, life, session, policyLock>>
<1>1. UNCHANGED <<policy, epochs, life, session, policyLock>>
  BY DEF LocalStep, Ask, AskStop, AskChange, TakeGate, FindSession,
     DropWaiting, DropInside,
     MarkStarting, ReadPersona, BuildAgent, EndStarting, LeaveGate,
     SwapRefused, Settle, AskReattach
<1>2. ASSUME NEW call \in Calls, Ask(t, call)
      PROVE  LocalMove(t)
  <2> DEFINE k == [task[t] EXCEPT !.call = call, !.pc = "gate", !.gate = life,
                                    !.lease = Captured(epochs)]
  <2>1. k \in Task /\ IsCall(k, call, "gate", Captured(epochs), task[t].read, life)
    BY CapturedTyped, ZenonT(60) DEF TypeOK, Task, Pcs, IsCall
  <2>2. Become(t, k) /\ At(t, "idle") /\ call \in {"start", "swap", "rebuild"}
    BY <1>2 DEF Ask
  <2> HIDE DEF k
  <2> QED
    BY <1>2, <2>1, <2>2, Becomes DEF At, LocalMove
<1>3. ASSUME AskStop(t)
      PROVE  LocalMove(t)
  <2> DEFINE k == [task[t] EXCEPT !.call = "stop", !.pc = "swap"]
  <2>1. k \in Task /\ IsCall(k, "stop", "swap", task[t].lease, task[t].read, task[t].gate)
    BY DEF TypeOK, Task, Pcs, Calls, IsCall
  <2>2. Become(t, k) /\ At(t, "idle")
    BY <1>3 DEF AskStop
  <2> HIDE DEF k
  <2> QED
    BY <1>3, <2>1, <2>2, Becomes DEF At, LocalMove
<1>4. ASSUME NEW call \in Calls, AskChange(t, call)
      PROVE  LocalMove(t)
  <2> DEFINE k == [task[t] EXCEPT !.call = call, !.pc = "policy"]
  <2>1. k \in Task /\ IsCall(k, call, "policy", task[t].lease, task[t].read, task[t].gate)
    BY DEF TypeOK, Task, Pcs, IsCall
  <2>2. Become(t, k) /\ At(t, "idle") /\ call \in {"update", "delete"}
    BY <1>4 DEF AskChange
  <2> HIDE DEF k
  <2> QED
    BY <1>4, <2>1, <2>2, Becomes DEF At, LocalMove
<1>5. ASSUME ReadPersona(t)
      PROVE  LocalMove(t)
  <2> DEFINE k == [task[t] EXCEPT !.pc = "open", !.read = policy]
  <2>1. CASE Go(t, "fail")
    BY <1>5, <2>1, Goes DEF ReadPersona, At, Pcs, LocalMove
  <2>2. CASE policy # Gone /\ Become(t, k)
    <3>1. policy \in Nat
      BY <2>2 DEF TypeOK
    <3>2. k \in Task /\ IsCall(k, task[t].call, "open", task[t].lease, policy, task[t].gate)
      BY <3>1 DEF TypeOK, Task, Pcs, IsCall
    <3> HIDE DEF k
    <3> QED
      BY <1>5, <2>2, <3>1, <3>2, Becomes DEF ReadPersona, At, LocalMove
  <2> QED
    BY <1>5, <2>1, <2>2 DEF ReadPersona, LocalMove
<1>6. ASSUME AskReattach(t)
      PROVE  LocalMove(t)
  <2> DEFINE k == [task[t] EXCEPT !.pc = "gate", !.gate = life]
  <2>1. CASE Go(t, "turned")
    BY <1>6, <2>1, Goes DEF AskReattach, At, Pcs, LocalMove
  <2>2. CASE Become(t, k)
    <3>1. k \in Task /\ IsCall(k, task[t].call, "gate", task[t].lease, task[t].read, life)
      BY DEF TypeOK, Task, Pcs, IsCall
    <3> HIDE DEF k
    <3> QED
      BY <1>6, <2>2, <3>1, Becomes DEF AskReattach, At, LocalMove
  <2> QED
    BY <1>6, <2>1, <2>2 DEF AskReattach, LocalMove
<1>7. CASE TakeGate(t)
  BY <1>7, Goes DEF TakeGate, At, Is, Pcs, LocalMove
<1>8. CASE FindSession(t)
  BY <1>8, Goes DEF FindSession, At, Is, Pcs, LocalMove
<1>9. CASE DropWaiting(t)
  BY <1>9, Goes DEF DropWaiting, At, Is, Pcs, LocalMove
<1>16. CASE DropInside(t)
  BY <1>16, Goes DEF DropInside, At, Is, Pcs, LocalMove
<1>10. CASE MarkStarting(t)
  BY <1>10, Goes DEF MarkStarting, At, Is, Pcs, LocalMove
<1>11. CASE BuildAgent(t)
  BY <1>11, Goes DEF BuildAgent, At, Is, Pcs, LocalMove
<1>12. CASE EndStarting(t)
  BY <1>12, Goes DEF EndStarting, At, Is, Pcs, LocalMove
<1>13. CASE LeaveGate(t)
  BY <1>13, Goes DEF LeaveGate, At, Is, Pcs, LocalMove
<1>14. CASE SwapRefused(t)
  BY <1>14, Goes DEF SwapRefused, At, Is, Pcs, LocalMove
<1>15. CASE Settle(t)
  BY <1>15, Goes DEF Settle, At, Is, Pcs, LocalMove
<1> QED
  BY <1>1, <1>2, <1>3, <1>4, <1>5, <1>6, <1>7, <1>8, <1>9, <1>10, <1>11,
     <1>12, <1>13, <1>14, <1>15, <1>16 DEF LocalStep

(* What each of the other steps does to the task that takes it.            *)
LEMMA PublishMoves ==
  ASSUME TypeOK, NEW t \in Tasks, Publish(t)
  PROVE  /\ task[t].pc = "publish"
         /\ \/ Valid(task[t].lease) /\ Keeps(t, "leave")
            \/ ~Valid(task[t].lease) /\ Keeps(t, "fail")
BY Goes DEF Publish, At, Is, Pcs

LEMMA SwapOutMoves ==
  ASSUME TypeOK, NEW t \in Tasks, SwapOut(t)
  PROVE  /\ task[t].pc = "swap"
         /\ \/ Moves(t, task[t].call, "settle", Captured(Advanced), task[t].read,
                     task[t].gate)
            \/ /\ task[t].call = "rebuild"
               /\ Moves(t, task[t].call, "fail", Captured(Advanced), task[t].read,
                        task[t].gate)
<1> DEFINE pc == IF Is(t, "rebuild") /\ ~session.up THEN "fail" ELSE "settle"
           k == [task[t] EXCEPT !.lease = Captured(Advanced), !.pc = pc]
<1>1. Become(t, k) /\ At(t, "swap")
  BY DEF SwapOut
<1>2. pc = "settle" \/ (pc = "fail" /\ task[t].call = "rebuild")
  BY DEF Is
<1>3. pc \in Pcs
  BY <1>2 DEF Pcs
<1> HIDE DEF pc
<1>4. k \in Task /\ IsCall(k, task[t].call, pc, Captured(Advanced), task[t].read, task[t].gate)
  BY <1>3, EpochsTyped, CapturedTyped, ZenonT(60) DEF TypeOK, Task, IsCall
<1> HIDE DEF k
<1>5. Moves(t, task[t].call, pc, Captured(Advanced), task[t].read, task[t].gate)
  BY <1>1, <1>4, Becomes
<1> QED
  BY <1>1, <1>2, <1>5 DEF At

LEMMA EndEpochMoves ==
  ASSUME TypeOK, NEW t \in Tasks, EndEpoch(t)
  PROVE  /\ task[t].pc = "end"
         /\ \/ task[t].call = "stop" /\ Keeps(t, "done")
            \/ task[t].call = "delete" /\ Keeps(t, "forget")
BY Goes DEF EndEpoch, At, Is, Pcs

LEMMA TakePolicyLockMoves ==
  ASSUME TypeOK, NEW t \in Tasks, TakePolicyLock(t)
  PROVE  \/ task[t].pc = "policy" /\ Keeps(t, "revise")
         \/ task[t].pc = "lock" /\ Keeps(t, "renew")
BY Goes DEF TakePolicyLock, At, Is, Pcs

LEMMA ReviseMoves ==
  ASSUME TypeOK, NEW t \in Tasks, Revise(t)
  PROVE  /\ task[t].pc = "revise"
         /\ \/ policy # Gone /\ InvalidateRoom /\ Keeps(t, "append") /\ policyLock' = policyLock
            \/ policyLock' = None /\ Keeps(t, "refused") /\ epochs' = epochs /\ session' = session
BY Goes DEF Revise, At, Is, Pcs

LEMMA AppendMoves ==
  ASSUME TypeOK, NEW t \in Tasks, Append(t)
  PROVE  /\ task[t].pc = "append"
         /\ \/ /\ task[t].call = "update" /\ Keeps(t, "reattach")
               /\ policy' = policy + 1 /\ policyLock' = None
            \/ /\ task[t].call = "delete" /\ Keeps(t, "swap")
               /\ policy' = Gone /\ policyLock' = policyLock
BY Goes DEF Append, At, Is, Pcs

LEMMA AppendFailsMoves ==
  ASSUME TypeOK, NEW t \in Tasks, AppendFails(t)
  PROVE  task[t].pc = "append" /\ Keeps(t, "unwritten")
BY Goes DEF AppendFails, At, Is, Pcs

LEMMA ReattachInvalidateMoves ==
  ASSUME TypeOK, NEW t \in Tasks, ReattachInvalidate(t)
  PROVE  /\ task[t].pc = "renew"
         /\ \/ policy # Gone /\ InvalidateRoom /\ Keeps(t, "activate") /\ policyLock' = policyLock
            \/ policyLock' = None /\ Keeps(t, "leave") /\ epochs' = epochs /\ session' = session
BY Goes DEF ReattachInvalidate, At, Is, Pcs

LEMMA ReattachActivateMoves ==
  ASSUME TypeOK, NEW t \in Tasks, ReattachActivate(t)
  PROVE  /\ task[t].pc = "activate"
         /\ \/ /\ session.up
               /\ Moves(t, task[t].call, "mark", Captured(Activated), task[t].read,
                        task[t].gate)
            \/ /\ ~session.up
               /\ Moves(t, task[t].call, "leave", Captured(Activated), task[t].read,
                        task[t].gate)
<1> DEFINE pc == IF session.up THEN "mark" ELSE "leave"
           k == [task[t] EXCEPT !.lease = Captured(Activated), !.pc = pc]
<1>1. Become(t, k) /\ At(t, "activate")
  BY DEF ReattachActivate
<1>2. (session.up /\ pc = "mark") \/ (~session.up /\ pc = "leave")
  OBVIOUS
<1>3. pc \in Pcs
  BY <1>2 DEF Pcs
<1> HIDE DEF pc
<1>4. k \in Task /\ IsCall(k, task[t].call, pc, Captured(Activated), task[t].read, task[t].gate)
  BY <1>3, EpochsTyped, CapturedTyped, ZenonT(60) DEF TypeOK, Task, IsCall
<1> HIDE DEF k
<1>5. Moves(t, task[t].call, pc, Captured(Activated), task[t].read, task[t].gate)
  BY <1>1, <1>4, Becomes
<1> QED
  BY <1>1, <1>2, <1>5 DEF At

LEMMA ForgetMoves ==
  ASSUME TypeOK, NEW t \in Tasks, Forget(t)
  PROVE  task[t].pc = "forget" /\ Keeps(t, "done")
BY Goes DEF Forget, At, Is, Pcs

(* The steps of the host, and the end.                                     *)
HostStep == PrepareRestart \/ InstallFails \/ Quiet

(* The steps of the host touch no caller.                                  *)
LEMMA HostMoves ==
  ASSUME HostStep
  PROVE  UNCHANGED <<policy, epochs, life, session, resting, gates, policyLock, task>>
BY DEF HostStep, PrepareRestart, InstallFails, Quiet, vars

(* Every step is a caller's or the host's.                                 *)
LEMMA NextCases ==
  ASSUME Next
  PROVE  \/ \E t \in Tasks :
              \/ LocalStep(t) \/ Publish(t) \/ SwapOut(t) \/ EndEpoch(t)
              \/ TakePolicyLock(t) \/ Revise(t) \/ Append(t) \/ AppendFails(t)
              \/ ReattachInvalidate(t) \/ ReattachActivate(t) \/ Forget(t)
         \/ HostStep
BY DEF Next, Step, StartStep, StopStep, ChangeStep, LocalStep, HostStep

(* An empty entry of the map is a session record like the others.          *)
LEMMA NoSessionTyped ==
  NoSession \in Session /\ ~NoSession.up /\ NoSession.lease = NoLease
BY DEF NoSession, NoLease, Session, SessionLease, Lives

(* Types are kept by every step: an append writes a record that is there.  *)
LEMMA TypeStep ==
  ASSUME TypeOK, LifeInv, Next
  PROVE  TypeOK'
<1>1. ASSUME NEW t \in Tasks, LocalStep(t)
      PROVE  TypeOK'
  <2>1. task' \in [Tasks -> Task]
    BY <1>1, LocalMoves DEF LocalMove, Keeps, Moves
  <2>2. resting' \in {resting, "stopped", "starting"}
    BY <1>1
    DEF LocalStep, Ask, AskStop, AskChange, TakeGate, FindSession,
     DropWaiting, DropInside,
       MarkStarting, ReadPersona, BuildAgent, EndStarting, LeaveGate,
       SwapRefused, Settle, AskReattach
  <2>3. gates' \in [Lives -> Tasks \cup {None}] /\ installing' = installing
    BY <1>1
    DEF LocalStep, TypeOK, Ask, AskStop, AskChange, TakeGate, FindSession,
       DropWaiting, DropInside, MarkStarting, ReadPersona, BuildAgent,
       EndStarting,
       LeaveGate, SwapRefused, Settle, AskReattach
  <2> QED
    BY <1>1, <2>1, <2>2, <2>3, LocalMoves DEF TypeOK
<1>2. ASSUME NEW t \in Tasks, Publish(t)
      PROVE  TypeOK'
  <2>1. [up |-> TRUE, ready |-> TRUE, lease |-> task[t].lease, policy |-> task[t].read,
         by |-> t] \in Session
    BY DEF TypeOK, Task, Session
  <2> QED
    BY <1>2, <2>1, PublishMoves DEF Publish, TypeOK, Keeps, Moves
<1>3. ASSUME NEW t \in Tasks, SwapOut(t)
      PROVE  TypeOK'
  BY <1>3, SwapOutMoves, EpochsTyped, NoSessionTyped
  DEF SwapOut, TypeOK, Keeps, Moves
<1>4. ASSUME NEW t \in Tasks, EndEpoch(t)
      PROVE  TypeOK'
  BY <1>4, EndEpochMoves, EpochsTyped DEF EndEpoch, TypeOK, Keeps, Moves
<1>5. ASSUME NEW t \in Tasks, TakePolicyLock(t)
      PROVE  TypeOK'
  BY <1>5, TakePolicyLockMoves DEF TakePolicyLock, TypeOK, Keeps, Moves
<1>6. ASSUME NEW t \in Tasks, Revise(t)
      PROVE  TypeOK'
  BY <1>6, ReviseMoves, EpochsTyped, ZenonT(60)
  DEF Revise, TypeOK, Keeps, Moves, InvalidateRoom, Session
<1>7. ASSUME NEW t \in Tasks, Append(t)
      PROVE  TypeOK'
  BY <1>7, AppendMoves DEF Append, TypeOK, Keeps, Moves, LifeInv
<1>8. ASSUME NEW t \in Tasks, AppendFails(t)
      PROVE  TypeOK'
  BY <1>8, AppendFailsMoves DEF AppendFails, TypeOK, Keeps, Moves
<1>9. ASSUME NEW t \in Tasks, ReattachInvalidate(t)
      PROVE  TypeOK'
  BY <1>9, ReattachInvalidateMoves, EpochsTyped
  DEF ReattachInvalidate, TypeOK, Keeps, Moves, InvalidateRoom, Session
<1>10. ASSUME NEW t \in Tasks, ReattachActivate(t)
      PROVE  TypeOK'
  BY <1>10, ReattachActivateMoves, EpochsTyped, NoSessionTyped
  DEF ReattachActivate, TypeOK, Keeps, Moves
<1>11. ASSUME NEW t \in Tasks, Forget(t)
      PROVE  TypeOK'
  BY <1>11, ForgetMoves DEF Forget, TypeOK, Keeps, Moves, Lives
<1>12. CASE HostStep
  BY <1>12, HostMoves
  DEF TypeOK, HostStep, PrepareRestart, InstallFails, Quiet, vars
<1> QED
  BY <1>1, <1>2, <1>3, <1>4, <1>5, <1>6, <1>7, <1>8, <1>9, <1>10, <1>11,
     <1>12, NextCases

(* Each call keeps to its own path.                                        *)
LEMMA ShapeStep ==
  ASSUME TypeOK, ShapeInv, Next
  PROVE  ShapeInv'
<1>1. ASSUME NEW t \in Tasks, LocalStep(t)
      PROVE  ShapeInv'
  BY <1>1, LocalMoves DEF LocalMove, ShapeInv, Keeps, Moves, IsCall
<1>2. ASSUME NEW t \in Tasks, Publish(t) \/ SwapOut(t) \/ EndEpoch(t)
           \/ TakePolicyLock(t) \/ Revise(t) \/ Append(t)
           \/ AppendFails(t) \/ ReattachInvalidate(t)
           \/ ReattachActivate(t) \/ Forget(t)
      PROVE  ShapeInv'
  BY <1>2, PublishMoves, SwapOutMoves, EndEpochMoves, TakePolicyLockMoves,
     ReviseMoves, AppendMoves, AppendFailsMoves, ReattachInvalidateMoves,
     ReattachActivateMoves, ForgetMoves
  DEF ShapeInv, Keeps, Moves, IsCall
<1>3. CASE HostStep
  BY <1>3, HostMoves DEF ShapeInv
<1> QED
  BY <1>1, <1>2, <1>3, NextCases

(* The policy lock is taken and let go where the holder's path says.       *)
LEMMA LockStep ==
  ASSUME TypeOK, ShapeInv, LockInv, Next
  PROVE  LockInv'
<1>1. ASSUME NEW t \in Tasks, LocalStep(t)
      PROVE  LockInv'
  BY <1>1, LocalMoves
  DEF LocalMove, LockInv, ShapeInv, HoldsPolicy, Keeps, Moves, IsCall
<1>2. ASSUME NEW t \in Tasks, Publish(t) \/ SwapOut(t) \/ EndEpoch(t)
      PROVE  LockInv'
  <2>1. policyLock' = policyLock
    BY <1>2 DEF Publish, SwapOut, EndEpoch
  <2> QED
    BY <1>2, <2>1, PublishMoves, SwapOutMoves, EndEpochMoves
    DEF LockInv, ShapeInv, HoldsPolicy, Keeps, Moves, IsCall
<1>3. ASSUME NEW t \in Tasks, TakePolicyLock(t)
      PROVE  LockInv'
  BY <1>3, DistinctAssumption, TakePolicyLockMoves
  DEF TakePolicyLock, LockInv, ShapeInv, HoldsPolicy, Keeps, Moves, IsCall
<1>4. ASSUME NEW t \in Tasks, Revise(t)
      PROVE  LockInv'
  BY <1>4, DistinctAssumption, ReviseMoves
  DEF Revise, LockInv, ShapeInv, HoldsPolicy, Keeps, Moves, IsCall
<1>5. ASSUME NEW t \in Tasks, Append(t)
      PROVE  LockInv'
  BY <1>5, DistinctAssumption, AppendMoves
  DEF Append, LockInv, ShapeInv, HoldsPolicy, Keeps, Moves, IsCall
<1>6. ASSUME NEW t \in Tasks, AppendFails(t)
      PROVE  LockInv'
  BY <1>6, DistinctAssumption, AppendFailsMoves
  DEF AppendFails, LockInv, ShapeInv, HoldsPolicy, Keeps, Moves, IsCall
<1>7. ASSUME NEW t \in Tasks, ReattachInvalidate(t)
      PROVE  LockInv'
  BY <1>7, DistinctAssumption, ReattachInvalidateMoves
  DEF ReattachInvalidate, LockInv, ShapeInv, HoldsPolicy, Keeps, Moves, IsCall
<1>8. ASSUME NEW t \in Tasks, ReattachActivate(t)
      PROVE  LockInv'
  <2>1. policyLock' = None
    BY <1>8 DEF ReattachActivate
  <2> QED
    BY <1>8, <2>1, DistinctAssumption, ReattachActivateMoves
    DEF LockInv, ShapeInv, HoldsPolicy, Keeps, Moves, IsCall
<1>9. ASSUME NEW t \in Tasks, Forget(t)
      PROVE  LockInv'
  BY <1>9, DistinctAssumption, ForgetMoves
  DEF Forget, LockInv, ShapeInv, HoldsPolicy, Keeps, Moves, IsCall
<1>10. CASE HostStep
  BY <1>10, HostMoves DEF LockInv, HoldsPolicy
<1> QED
  BY <1>1, <1>2, <1>3, <1>4, <1>5, <1>6, <1>7, <1>8, <1>9, <1>10, NextCases

(* Writing and forgetting happen behind a closed epoch.                    *)
LEMMA LifeStep ==
  ASSUME TypeOK, ShapeInv, LockInv, LifeInv, Next
  PROVE  LifeInv'
<1>0. /\ session \in Session /\ life \in Lives /\ epochs \in Epochs
      /\ \A u \in Tasks : task[u] \in Task
  BY DEF TypeOK
<1>1. ASSUME NEW t \in Tasks, LocalStep(t)
      PROVE  LifeInv'
  BY <1>1, <1>0, LocalMoves
  DEF LocalMove, LifeInv, ShapeInv, HoldsPolicy, Keeps, Moves, IsCall, Task,
     Lives
<1>2. ASSUME NEW t \in Tasks, Publish(t)
      PROVE  LifeInv'
  <2>1. policy' = policy /\ epochs' = epochs /\ life' = life
    BY <1>2 DEF Publish
  <2> QED
    BY <1>2, <2>1, PublishMoves
    DEF LifeInv, ShapeInv, HoldsPolicy, Keeps, Moves, IsCall
<1>3. ASSUME NEW t \in Tasks, SwapOut(t) \/ EndEpoch(t)
      PROVE  LifeInv'
  <2>1. policy' = policy /\ epochs'[1].active = epochs[1].active /\ life' = life
    BY <1>3, <1>0, EpochsTyped DEF SwapOut, EndEpoch, Lives
  <2> QED
    BY <1>3, <1>0, <2>1, SwapOutMoves, EndEpochMoves
    DEF LifeInv, ShapeInv, HoldsPolicy, Keeps, Moves, IsCall, Task
<1>4. ASSUME NEW t \in Tasks, TakePolicyLock(t)
      PROVE  LifeInv'
  <2>1. policy' = policy /\ epochs' = epochs /\ life' = life
    BY <1>4 DEF TakePolicyLock
  <2> QED
    BY <1>4, <2>1, TakePolicyLockMoves
    DEF LifeInv, ShapeInv, HoldsPolicy, Keeps, Moves, IsCall
<1>5. ASSUME NEW t \in Tasks, Revise(t) \/ ReattachInvalidate(t)
      PROVE  LifeInv'
  <2>1. policy' = policy /\ life' = life
    BY <1>5 DEF Revise, ReattachInvalidate
  <2>2. CASE InvalidateRoom /\ policy # Gone
    <3>1. life = 1 /\ ~epochs'[1].active
      BY <1>0, <2>2, EpochsTyped DEF LifeInv, Lives, InvalidateRoom
    <3> QED
      BY <1>5, <1>0, <2>1, <2>2, <3>1, ReviseMoves, ReattachInvalidateMoves
      DEF LifeInv, ShapeInv, HoldsPolicy, Keeps, Moves, IsCall, Task
  <2>3. CASE epochs' = epochs /\ ~Keeps(t, "append") /\ ~Keeps(t, "activate")
    BY <1>5, <1>0, <2>1, <2>3, ReviseMoves, ReattachInvalidateMoves
    DEF LifeInv, ShapeInv, HoldsPolicy, Keeps, Moves, IsCall, Task
  <2> QED
    BY <1>5, <2>2, <2>3, ReviseMoves, ReattachInvalidateMoves
    DEF Keeps, Moves, IsCall
<1>6. ASSUME NEW t \in Tasks, Append(t)
      PROVE  LifeInv'
  <2>1. epochs' = epochs /\ life' = life
    BY <1>6 DEF Append
  <2>2. HoldsPolicy(t) /\ \A u \in Tasks \ {t} : ~HoldsPolicy(u)
    BY <1>6, AppendMoves DEF LockInv, HoldsPolicy
  <2>3. policy # Gone /\ ~epochs[1].active /\ life = 1
    BY <1>6, <1>0, AppendMoves DEF LifeInv, Lives
  <2>4. policy' = Gone \/ (task[t].call = "update" /\ policy' \in Nat)
    BY <1>6, <2>3, AppendMoves DEF TypeOK
  <2> QED
    BY <1>6, <1>0, <2>1, <2>2, <2>3, <2>4, AppendMoves
    DEF LifeInv, ShapeInv, HoldsPolicy, Keeps, Moves, IsCall, Task
<1>7. ASSUME NEW t \in Tasks, AppendFails(t)
      PROVE  LifeInv'
  <2>1. policy' = policy /\ epochs' = epochs /\ life' = life
    BY <1>7 DEF AppendFails
  <2> QED
    BY <1>7, <2>1, AppendFailsMoves
    DEF LifeInv, ShapeInv, HoldsPolicy, Keeps, Moves, IsCall
<1>8. ASSUME NEW t \in Tasks, ReattachActivate(t)
      PROVE  LifeInv'
  <2>1. policy' = policy /\ life' = life
    BY <1>8 DEF ReattachActivate
  <2>2. HoldsPolicy(t) /\ \A u \in Tasks \ {t} : ~HoldsPolicy(u)
    BY <1>8, ReattachActivateMoves DEF LockInv, HoldsPolicy
  <2>3. policy # Gone
    BY <1>8, ReattachActivateMoves DEF LifeInv
  <2> QED
    BY <1>8, <1>0, <2>1, <2>2, <2>3, ReattachActivateMoves
    DEF LifeInv, ShapeInv, HoldsPolicy, Keeps, Moves, IsCall, Task
<1>9. ASSUME NEW t \in Tasks, Forget(t)
      PROVE  LifeInv'
  <2>1. policy' = policy /\ epochs' = epochs /\ life' = 2
    BY <1>9 DEF Forget
  <2>2. policy = Gone
    BY <1>9, ForgetMoves DEF LifeInv, ShapeInv, HoldsPolicy
  <2> QED
    BY <1>9, <1>0, <2>1, <2>2, ForgetMoves
    DEF LifeInv, ShapeInv, HoldsPolicy, Keeps, Moves, IsCall, Task, Lives
<1>10. CASE HostStep
  BY <1>10, HostMoves DEF LifeInv, HoldsPolicy
<1> QED
  BY <1>1, <1>2, <1>3, <1>4, <1>5, <1>6, <1>7, <1>8, <1>9, <1>10, NextCases

(* Every lease keeps behind its epoch.                                     *)
LEMMA LeasesStep ==
  ASSUME TypeOK, LeasesInv, Next
  PROVE  LeasesInv'
<1>0. /\ session \in Session /\ session.lease \in SessionLease
      /\ \A u \in Tasks : task[u].lease \in SessionLease
  BY DEF TypeOK, Task, Session
<1>1. ASSUME NEW t \in Tasks, LocalStep(t)
      PROVE  LeasesInv'
  BY <1>1, <1>0, LeasesAge, LocalMoves
  DEF LocalMove, LeasesInv, Keeps, Moves, IsCall
<1>2. ASSUME NEW t \in Tasks, Publish(t) \/ TakePolicyLock(t) \/ Append(t)
           \/ AppendFails(t)
      PROVE  LeasesInv'
  <2>1. epochs' = epochs /\ life' = life
        /\ session'.lease \in {session.lease, task[t].lease}
    BY <1>2 DEF Publish, TakePolicyLock, Append, AppendFails
  <2> QED
    BY <1>2, <1>0, <2>1, PublishMoves, TakePolicyLockMoves, AppendMoves,
       AppendFailsMoves
    DEF LeasesInv, Keeps, Moves, IsCall
<1>3. ASSUME NEW t \in Tasks, SwapOut(t)
      PROVE  LeasesInv'
  <2>1. epochs' = Advanced /\ life' = life /\ session'.lease = NoLease
    BY <1>3, NoSessionTyped DEF SwapOut
  <2> QED
    BY <1>3, <1>0, <2>1, LeasesAge, SwapOutMoves
    DEF LeasesInv, Keeps, Moves, IsCall
<1>4. ASSUME NEW t \in Tasks, EndEpoch(t)
      PROVE  LeasesInv'
  <2>1. epochs' = Advanced /\ life' = life /\ session' = session
    BY <1>4 DEF EndEpoch
  <2> QED
    BY <1>4, <1>0, <2>1, LeasesAge, EndEpochMoves
    DEF LeasesInv, Keeps, Moves, IsCall
<1>5. ASSUME NEW t \in Tasks, Revise(t) \/ ReattachInvalidate(t)
      PROVE  LeasesInv'
  <2>1. life' = life /\ epochs' \in {epochs, Quarantined} /\ session'.lease = session.lease
    BY <1>5, <1>0 DEF Revise, ReattachInvalidate, InvalidateRoom, Session
  <2> QED
    BY <1>5, <1>0, <2>1, LeasesAge, ReviseMoves, ReattachInvalidateMoves
    DEF LeasesInv, Keeps, Moves, IsCall
<1>6. ASSUME NEW t \in Tasks, ReattachActivate(t)
      PROVE  LeasesInv'
  <2>1. epochs' = Activated /\ life' = life /\ session'.lease = NoLease
    BY <1>6, NoSessionTyped DEF ReattachActivate
  <2> QED
    BY <1>6, <1>0, <2>1, LeasesAge, ReattachActivateMoves
    DEF LeasesInv, Keeps, Moves, IsCall
<1>7. ASSUME NEW t \in Tasks, Forget(t)
      PROVE  LeasesInv'
  <2>1. epochs' = epochs /\ life' = 2 /\ session' = session
    BY <1>7 DEF Forget
  <2>2. \A l \in SessionLease : LeaseIn(l, epochs, life) => LeaseIn(l, epochs, 2)
    BY DEF LeaseIn, SessionLease, Lives
  <2> QED
    BY <1>7, <1>0, <2>1, <2>2, ForgetMoves DEF LeasesInv, Keeps, Moves, IsCall
<1>8. CASE HostStep
  BY <1>8, HostMoves DEF LeasesInv
<1> QED
  BY <1>1, <1>2, <1>3, <1>4, <1>5, <1>6, <1>7, <1>8, NextCases

(* A start's reading is superseded only behind a closed epoch.             *)
LEMMA ReadStep ==
  ASSUME TypeOK, LifeInv, LeasesInv, ReadInv, Next
  PROVE  ReadInv'
<1>0. /\ session \in Session /\ session.lease \in SessionLease
      /\ \A u \in Tasks : task[u].lease \in SessionLease
  BY DEF TypeOK, Task, Session
<1>1. ASSUME NEW t \in Tasks, LocalStep(t)
      PROVE  ReadInv'
  <2>1. LocalMove(t) /\ policy' = policy /\ epochs' = epochs
    BY <1>1, LocalMoves
  <2>2. /\ task' \in [Tasks -> Task]
        /\ \A u \in Tasks \ {t} : (task')[u] = task[u]
    BY <2>1 DEF LocalMove, Keeps, Moves
  <2>3. (task')[t].pc = "open" => (task')[t].read = policy
    BY <2>1 DEF LocalMove, Keeps, Moves, IsCall
  <2>4. (task')[t].pc = "publish" =>
          /\ task[t].pc = "open"
          /\ (task')[t].lease = task[t].lease /\ (task')[t].read = task[t].read
    BY <2>1 DEF LocalMove, Keeps, Moves, IsCall
  <2>5. ASSUME NEW u \in Tasks, task'[u].pc \in {"open", "publish"},
               Valid(task[u].lease)'
        PROVE  task'[u].read = policy'
    <3>1. CASE u = t
      BY <3>1, <2>1, <2>3, <2>4, <2>5 DEF ReadInv, Valid
    <3> QED
      BY <3>1, <2>1, <2>2, <2>5 DEF ReadInv, Valid
  <2> QED
    BY <2>5 DEF ReadInv, Valid
<1>2. ASSUME NEW t \in Tasks, Publish(t) \/ TakePolicyLock(t)
           \/ AppendFails(t) \/ Forget(t)
      PROVE  ReadInv'
  <2>1. policy' = policy /\ epochs' = epochs
    BY <1>2 DEF Publish, TakePolicyLock, AppendFails, Forget
  <2> QED
    BY <1>2, <2>1, PublishMoves, TakePolicyLockMoves, AppendFailsMoves,
       ForgetMoves
    DEF ReadInv, Valid, Keeps, Moves, IsCall
<1>3. ASSUME NEW t \in Tasks, SwapOut(t) \/ EndEpoch(t) \/ Revise(t)
           \/ ReattachInvalidate(t) \/ ReattachActivate(t)
      PROVE  ReadInv'
  <2>1. policy' = policy /\ epochs' \in {epochs, Advanced, Quarantined, Activated}
    BY <1>3
    DEF SwapOut, EndEpoch, Revise, ReattachInvalidate, ReattachActivate,
       InvalidateRoom
  <2>2. /\ \A u \in Tasks \ {t} : task'[u] = task[u]
        /\ task'[t].pc \notin {"open", "publish"}
    BY <1>3, SwapOutMoves, EndEpochMoves, ReviseMoves, ReattachInvalidateMoves,
       ReattachActivateMoves DEF Keeps, Moves, IsCall
  <2> QED
    BY <1>0, <2>1, <2>2, LeasesAge, SMTT(60) DEF ReadInv, Valid, ValidIn, LeasesInv
<1>4. ASSUME NEW t \in Tasks, Append(t)
      PROVE  ReadInv'
  <2>1. epochs' = epochs /\ life = 1 /\ ~epochs[1].active
    BY <1>4, AppendMoves DEF Append, LifeInv, TypeOK, Lives
  <2>2. \A u \in Tasks : ~Valid(task[u].lease)
    BY <1>0, <2>1 DEF LeasesInv, LeaseIn, Valid, SessionLease, Lives
  <2> QED
    BY <1>4, <2>1, <2>2, AppendMoves DEF ReadInv, Valid, Keeps, Moves, IsCall
<1>5. CASE HostStep
  BY <1>5, HostMoves DEF ReadInv, Valid
<1> QED
  BY <1>1, <1>2, <1>3, <1>4, <1>5, NextCases

(* Nor is the session's.                                                   *)
LEMMA NoStaleStep ==
  ASSUME TypeOK, LifeInv, LeasesInv, ReadInv, NoStalePolicy, Next
  PROVE  NoStalePolicy'
<1>0. /\ session \in Session /\ session.lease \in SessionLease
      /\ \A u \in Tasks : task[u].lease \in SessionLease
  BY DEF TypeOK, Task, Session
<1>1. ASSUME NEW t \in Tasks, LocalStep(t)
      PROVE  NoStalePolicy'
  BY <1>1, LocalMoves DEF NoStalePolicy, Valid
<1>2. ASSUME NEW t \in Tasks, Publish(t)
      PROVE  NoStalePolicy'
  <2>1. policy' = policy /\ epochs' = epochs
    BY <1>2 DEF Publish
  <2>2. CASE Valid(task[t].lease)
    <3>1. session'.lease = task[t].lease /\ session'.policy = task[t].read
      BY <1>2, <2>2 DEF Publish
    <3>2. task[t].read = policy
      BY <1>2, <2>2, PublishMoves DEF ReadInv
    <3> QED
      BY <2>1, <3>1, <3>2 DEF NoStalePolicy
  <2>3. CASE ~Valid(task[t].lease)
    BY <1>2, <2>1, <2>3 DEF Publish, NoStalePolicy, Valid
  <2> QED
    BY <2>2, <2>3
<1>3. ASSUME NEW t \in Tasks, SwapOut(t) \/ ReattachActivate(t)
      PROVE  NoStalePolicy'
  BY <1>3, NoSessionTyped DEF SwapOut, ReattachActivate, NoStalePolicy
<1>4. ASSUME NEW t \in Tasks, EndEpoch(t) \/ Revise(t) \/ ReattachInvalidate(t)
      PROVE  NoStalePolicy'
  <2>1. /\ policy' = policy /\ epochs' \in {epochs, Advanced, Quarantined}
        /\ session'.lease = session.lease /\ session'.up = session.up
        /\ session'.policy = session.policy
    BY <1>4, <1>0 DEF EndEpoch, Revise, ReattachInvalidate, InvalidateRoom, Session
  <2> QED
    BY <1>0, <2>1, LeasesAge DEF NoStalePolicy, Valid, ValidIn, LeasesInv
<1>5. ASSUME NEW t \in Tasks, TakePolicyLock(t) \/ AppendFails(t) \/ Forget(t)
      PROVE  NoStalePolicy'
  BY <1>5 DEF TakePolicyLock, AppendFails, Forget, NoStalePolicy, Valid
<1>6. ASSUME NEW t \in Tasks, Append(t)
      PROVE  NoStalePolicy'
  <2>1. epochs' = epochs /\ session' = session /\ life = 1 /\ ~epochs[1].active
    BY <1>6, AppendMoves DEF Append, LifeInv, TypeOK, Lives
  <2>2. ~Valid(session.lease)
    BY <1>0, <2>1 DEF LeasesInv, LeaseIn, Valid, SessionLease, Lives
  <2> QED
    BY <2>1, <2>2 DEF NoStalePolicy, Valid
<1>7. CASE HostStep
  BY <1>7, HostMoves DEF NoStalePolicy, Valid
<1> QED
  BY <1>1, <1>2, <1>3, <1>4, <1>5, <1>6, <1>7, NextCases

(* The first invariant holds at the start,                                 *)
LEMMA SafeInit ==
  ASSUME Init
  PROVE  Safe
<1> USE DistinctAssumption DEF Init
<1>1. NoLease \in SessionLease /\ NoLease.life = 1 /\ NoLease.generation = 0 /\ ~NoLease.active
  BY DEF NoLease, SessionLease, Lives
<1>2. NoSession \in Session /\ NoSession.lease = NoLease /\ ~NoSession.up
  BY <1>1 DEF NoSession, Session
<1>3. TypeOK
  BY <1>1, <1>2 DEF TypeOK, Task, Pcs, Epochs, Lives
<1>4. ShapeInv /\ LockInv /\ LifeInv
  BY DEF ShapeInv, LockInv, LifeInv, HoldsPolicy, Lives
<1>5. LeasesInv
  BY <1>1, <1>2 DEF LeasesInv, LeaseIn, Lives
<1>6. ReadInv /\ NoStalePolicy
  BY <1>2 DEF ReadInv, NoStalePolicy
<1> QED
  BY <1>3, <1>4, <1>5, <1>6 DEF Safe

(* and every step keeps it,                                                *)
LEMMA SafeNext ==
  ASSUME Safe, [Next]_vars
  PROVE  Safe'
<1>1. CASE Next
  BY <1>1, TypeStep, ShapeStep, LockStep, LifeStep, LeasesStep, ReadStep,
     NoStaleStep DEF Safe
<1>2. CASE UNCHANGED vars
  BY <1>2
  DEF vars, Safe, TypeOK, ShapeInv, LockInv, HoldsPolicy, LifeInv, LeasesInv,
     ReadInv,
              NoStalePolicy, Valid
<1> QED
  BY <1>1, <1>2

(* so it always holds.                                                     *)
LEMMA SafeAlways == Spec => []Safe
BY SafeInit, SafeNext, PTL DEF Spec

(* Every variable keeps its type, for any number of callers.               *)
THEOREM TypesCorrect == Spec => []TypeOK
BY SafeAlways, PTL DEF Safe

(* No interleaving of starts, swaps, rebuilds, stops, updates and deletions*)
(* leaves a usable session built from a record that is not the durable one.*)
THEOREM PolicyIsNeverStale == Spec => []NoStalePolicy
BY SafeAlways, PTL DEF Safe

-----------------------------------------------------------------------------
(* A start gate names the task that holds it.                              *)
LEMMA GateStep ==
  ASSUME TypeOK, ShapeInv, GateInv, Next
  PROVE  GateInv'
<1>0. gates \in [Lives -> Tasks \cup {None}] /\ \A u \in Tasks : task[u].gate \in Lives
  BY DEF TypeOK, Task
<1>1. ASSUME NEW t \in Tasks, LocalStep(t)
      PROVE  GateInv'
  <2>1. CASE TakeGate(t)
    <3>1. gates[task[t].gate] = None
          /\ \A i \in Lives : gates'[i] = IF i = task[t].gate THEN t ELSE gates[i]
      BY <1>0, <2>1 DEF TakeGate
    <3>2. Keeps(t, task'[t].pc) /\ ~HoldsGate(t)
      BY <1>1, <2>1, LocalMoves
      DEF LocalMove, TakeGate, At, GateInv, HoldsGate, ShapeInv, Keeps, Moves,
         IsCall
    <3> QED
      BY <1>1, <1>0, <3>1, <3>2, DistinctAssumption
      DEF GateInv, HoldsGate, Keeps, Moves, IsCall
  <2>2. CASE LeaveGate(t)
    <3>1. \A i \in Lives : gates'[i] = IF i = task[t].gate THEN None ELSE gates[i]
      BY <1>0, <2>2 DEF LeaveGate
    <3>2. gates[task[t].gate] = t
      BY <2>2 DEF GateInv, HoldsGate, LeaveGate, At
    <3>3. Keeps(t, "done")
      BY <1>1, <2>2, LocalMoves
      DEF LocalMove, LeaveGate, At, Keeps, Moves, IsCall
    <3> QED
      BY <1>1, <1>0, <3>1, <3>2, <3>3
      DEF GateInv, HoldsGate, Keeps, Moves, IsCall
  <2>3. CASE gates' = gates /\ (At(t, "gate") => Go(t, "refused"))
    <3>1. task[t].pc = "gate" => task'[t].pc = "refused"
      BY <2>3, Goes DEF At, Pcs, Keeps, Moves, IsCall
    <3> QED
      BY <1>1, <2>3, <3>1, LocalMoves
      DEF LocalMove, GateInv, HoldsGate, ShapeInv, Keeps, Moves, IsCall
  <2>5. CASE DropInside(t)
    <3>1. \A i \in Lives :
            gates'[i] = IF i = task[t].gate /\ gates[i] = t THEN None ELSE gates[i]
      BY <1>0, <2>5 DEF DropInside
    <3>2. Keeps(t, "dropped") \/ Keeps(t, "refused")
      BY <2>5, Goes DEF DropInside, Pcs
    <3>3. ~HoldsGate(t)'
      BY <3>2 DEF HoldsGate, Keeps, Moves, IsCall
    <3>4. ASSUME NEW u \in Tasks \ {t}, HoldsGate(u)'
          PROVE  gates'[task'[u].gate] = u
      <4>1. task'[u] = task[u] /\ HoldsGate(u)
        BY <3>2, <3>4 DEF HoldsGate, Keeps, Moves
      <4>2. gates[task[u].gate] = u /\ task[u].gate \in Lives
        BY <1>0, <4>1 DEF GateInv
      <4> QED
        BY <3>1, <4>1, <4>2
    <3> QED
      BY <3>3, <3>4 DEF GateInv
  <2>4. \/ TakeGate(t) \/ LeaveGate(t) \/ DropInside(t)
        \/ gates' = gates /\ (At(t, "gate") => Go(t, "refused"))
    BY <1>1
    DEF LocalStep, At, Ask, AskStop, AskChange, FindSession, DropWaiting,
       MarkStarting, ReadPersona, BuildAgent, EndStarting, SwapRefused,
       Settle, AskReattach
  <2> QED
    BY <1>1, <2>1, <2>2, <2>3, <2>4, <2>5
<1>2. ASSUME NEW t \in Tasks, Publish(t) \/ SwapOut(t) \/ EndEpoch(t)
           \/ TakePolicyLock(t) \/ Revise(t) \/ Append(t)
           \/ AppendFails(t) \/ ReattachInvalidate(t)
           \/ ReattachActivate(t) \/ Forget(t)
      PROVE  GateInv'
  <2>1. gates' = gates
    BY <1>2
    DEF Publish, SwapOut, EndEpoch, TakePolicyLock, Revise, Append,
       AppendFails, ReattachInvalidate, ReattachActivate, Forget
  <2> QED
    BY <1>2, <2>1, PublishMoves, SwapOutMoves, EndEpochMoves,
       TakePolicyLockMoves, ReviseMoves, AppendMoves, AppendFailsMoves,
       ReattachInvalidateMoves, ReattachActivateMoves, ForgetMoves
    DEF GateInv, HoldsGate, ShapeInv, Keeps, Moves, IsCall
<1>3. CASE HostStep
  BY <1>3, HostMoves DEF GateInv, HoldsGate
<1> QED
  BY <1>1, <1>2, <1>3, NextCases

(* The start that publishes holds the only gate there is: once the teammate*)
(* is gone and a second gate can exist, nobody has a record to start from. *)
LEMMA PublishIsAlone ==
  ASSUME TypeOK, ShapeInv, LifeInv, ReadInv, GateInv,
         NEW t \in Tasks, task[t].pc = "publish", Valid(task[t].lease)
  PROVE  \A u \in Tasks \ {t} : ~Bringing(u)
<1>1. task[t].read = policy /\ task[t].read \in Nat
  BY DEF ReadInv, TypeOK, Task
<1>2. life = 1
  BY <1>1, DistinctAssumption DEF LifeInv, TypeOK, Lives
<1>3. \A u \in Tasks : task[u].gate = 1
  BY <1>2 DEF LifeInv, TypeOK, Task, Lives
<1>4. \A u \in Tasks : Bringing(u) => HoldsGate(u)
  BY DEF Bringing, HoldsGate
<1>5. HoldsGate(t)
  BY DEF HoldsGate
<1> QED
  BY <1>3, <1>4, <1>5 DEF GateInv

(* Nobody takes the place that another start has found empty.              *)
LEMMA PlaceStep ==
  ASSUME TypeOK, ShapeInv, LifeInv, ReadInv, GateInv, PlaceInv, Next
  PROVE  PlaceInv'
<1>0. session \in Session
  BY DEF TypeOK
<1>1. ASSUME NEW t \in Tasks, LocalStep(t)
      PROVE  PlaceInv'
  BY <1>1, LocalMoves
  DEF LocalMove, PlaceInv, Bringing, ShapeInv, Keeps, Moves, IsCall
<1>2. ASSUME NEW t \in Tasks, Publish(t)
      PROVE  PlaceInv'
  <2>1. CASE ~Valid(task[t].lease)
    <3>1. session' = session
      BY <1>2, <2>1 DEF Publish
    <3> QED
      BY <1>2, <3>1, PublishMoves
      DEF PlaceInv, Bringing, ShapeInv, Keeps, Moves, IsCall
  <2>2. CASE Valid(task[t].lease)
    <3>1. \A u \in Tasks \ {t} : ~Bringing(u)
      BY <1>2, <2>2, PublishMoves, PublishIsAlone
    <3>2. Keeps(t, "leave")
      BY <1>2, <2>2, PublishMoves DEF Keeps, Moves, IsCall
    <3> QED
      BY <3>1, <3>2 DEF PlaceInv, Bringing, Keeps, Moves, IsCall
  <2> QED
    BY <2>1, <2>2
<1>3. ASSUME NEW t \in Tasks, SwapOut(t) \/ ReattachActivate(t)
      PROVE  PlaceInv'
  BY <1>3, NoSessionTyped DEF SwapOut, ReattachActivate, PlaceInv
<1>4. ASSUME NEW t \in Tasks, EndEpoch(t) \/ TakePolicyLock(t)
           \/ Revise(t) \/ Append(t) \/ AppendFails(t)
           \/ ReattachInvalidate(t) \/ Forget(t)
      PROVE  PlaceInv'
  <2>1. session'.up = session.up
    BY <1>4, <1>0
    DEF EndEpoch, TakePolicyLock, Revise, Append, AppendFails,
       ReattachInvalidate, Forget,
              InvalidateRoom, Session
  <2> QED
    BY <1>4, <2>1, EndEpochMoves, TakePolicyLockMoves, ReviseMoves,
       AppendMoves, AppendFailsMoves, ReattachInvalidateMoves, ForgetMoves
    DEF PlaceInv, Bringing, ShapeInv, Keeps, Moves, IsCall
<1>5. CASE HostStep
  BY <1>5, HostMoves DEF PlaceInv, Bringing
<1> QED
  BY <1>1, <1>2, <1>3, <1>4, <1>5, NextCases

(* The band is wiped by whoever ends the start that wrote it.              *)
LEMMA BandStep ==
  ASSUME TypeOK, RestingInv, StartingHasAStart, Next
  PROVE  RestingInv' /\ StartingHasAStart'
<1>0. session \in Session
  BY DEF TypeOK
<1>1. ASSUME NEW t \in Tasks, LocalStep(t)
      PROVE  RestingInv' /\ StartingHasAStart'
  <2>1. CASE Settle(t) \/ EndStarting(t)
    <3>1. session' = session /\ resting' = "stopped"
      BY <2>1 DEF Settle, EndStarting, RestingInv
    <3> QED
      BY <3>1 DEF RestingInv, StartingHasAStart
  <2>2. CASE MarkStarting(t)
    <3>1. session' = session /\ resting' = IF session.up THEN resting ELSE "starting"
      BY <2>2 DEF MarkStarting
    <3>2. Keeps(t, "read")
      BY <2>2, Goes DEF MarkStarting, Pcs
    <3> QED
      BY <3>1, <3>2 DEF RestingInv, StartingHasAStart, Keeps, Moves, IsCall
  <2>3. CASE resting' = resting /\ ~At(t, "fail")
    BY <1>1, <2>3, LocalMoves
    DEF LocalMove, At, RestingInv, StartingHasAStart, Keeps, Moves, IsCall
  <2>4. \/ Settle(t) \/ EndStarting(t) \/ MarkStarting(t)
        \/ resting' = resting /\ ~At(t, "fail")
    BY <1>1
    DEF LocalStep, At, Ask, AskStop, AskChange, TakeGate, FindSession,
       DropWaiting, DropInside, ReadPersona, BuildAgent, LeaveGate,
       SwapRefused, AskReattach
  <2> QED
    BY <2>1, <2>2, <2>3, <2>4
<1>2. ASSUME NEW t \in Tasks, Publish(t)
      PROVE  RestingInv' /\ StartingHasAStart'
  <2>1. CASE Valid(task[t].lease)
    BY <1>2, <2>1 DEF Publish, RestingInv, StartingHasAStart
  <2>2. CASE ~Valid(task[t].lease)
    <3>1. session' = session /\ resting' = resting
      BY <1>2, <2>2 DEF Publish
    <3>2. Keeps(t, "fail")
      BY <1>2, <2>2, PublishMoves DEF Keeps, Moves, IsCall
    <3> QED
      BY <3>1, <3>2 DEF RestingInv, StartingHasAStart, Keeps, Moves, IsCall
  <2> QED
    BY <2>1, <2>2
<1>3. ASSUME NEW t \in Tasks, SwapOut(t) \/ ReattachActivate(t)
      PROVE  RestingInv' /\ StartingHasAStart'
  <2>1. resting' \in {resting, "stopped"} /\ ~session'.up
    BY <1>3, NoSessionTyped DEF SwapOut, ReattachActivate
  <2> QED
    BY <1>3, <2>1, SwapOutMoves, ReattachActivateMoves
    DEF RestingInv, StartingHasAStart, Keeps, Moves, IsCall
<1>4. ASSUME NEW t \in Tasks, EndEpoch(t) \/ TakePolicyLock(t)
           \/ Revise(t) \/ Append(t) \/ AppendFails(t)
           \/ ReattachInvalidate(t) \/ Forget(t)
      PROVE  RestingInv' /\ StartingHasAStart'
  <2>1. resting' = resting /\ session'.up = session.up
    BY <1>4, <1>0
    DEF EndEpoch, TakePolicyLock, Revise, Append, AppendFails,
       ReattachInvalidate, Forget,
              InvalidateRoom, Session
  <2> QED
    BY <1>4, <2>1, EndEpochMoves, TakePolicyLockMoves, ReviseMoves,
       AppendMoves, AppendFailsMoves, ReattachInvalidateMoves, ForgetMoves
    DEF RestingInv, StartingHasAStart, Keeps, Moves, IsCall
<1>5. CASE HostStep
  BY <1>5, HostMoves DEF RestingInv, StartingHasAStart
<1> QED
  BY <1>1, <1>2, <1>3, <1>4, <1>5, NextCases

(* No step replaces a session by another.                                  *)
LEMMA PlaceKept ==
  ASSUME TypeOK, PlaceInv, Next
  PROVE  session.up /\ session'.up => session'.by = session.by
<1>0. session \in Session
  BY DEF TypeOK
<1>1. ASSUME NEW t \in Tasks, LocalStep(t)
      PROVE  session.up /\ session'.up => session'.by = session.by
  BY <1>1, LocalMoves
<1>2. ASSUME NEW t \in Tasks, Publish(t)
      PROVE  session.up /\ session'.up => session'.by = session.by
  BY <1>2, PublishMoves DEF PlaceInv, Bringing
<1>3. ASSUME NEW t \in Tasks, SwapOut(t) \/ ReattachActivate(t)
      PROVE  session.up /\ session'.up => session'.by = session.by
  BY <1>3, NoSessionTyped DEF SwapOut, ReattachActivate
<1>4. ASSUME NEW t \in Tasks, EndEpoch(t) \/ TakePolicyLock(t)
           \/ Revise(t) \/ Append(t) \/ AppendFails(t)
           \/ ReattachInvalidate(t) \/ Forget(t)
      PROVE  session.up /\ session'.up => session'.by = session.by
  BY <1>4, <1>0
  DEF EndEpoch, TakePolicyLock, Revise, Append, AppendFails,
     ReattachInvalidate, Forget,
            InvalidateRoom, Session
<1>5. CASE HostStep
  BY <1>5, HostMoves
<1> QED
  BY <1>1, <1>2, <1>3, <1>4, <1>5, NextCases

(* The whole invariant holds at the start,                                 *)
LEMMA StandsInit ==
  ASSUME Init
  PROVE  IInv
<1> USE DistinctAssumption DEF Init
<1>1. ~NoSession.up
  BY DEF NoSession
<1>2. GateInv /\ PlaceInv /\ RestingInv /\ StartingHasAStart
  BY <1>1
  DEF GateInv, HoldsGate, PlaceInv, Bringing, RestingInv, StartingHasAStart
<1> QED
  BY <1>2, SafeInit DEF IInv

(* and every step keeps it,                                                *)
LEMMA StandsNext ==
  ASSUME IInv, [Next]_vars
  PROVE  IInv'
<1>1. Safe'
  BY SafeNext DEF IInv
<1>2. CASE Next
  BY <1>1, <1>2, GateStep, PlaceStep, BandStep DEF IInv, Safe
<1>3. CASE UNCHANGED vars
  BY <1>1, <1>3
  DEF vars, IInv, GateInv, HoldsGate, PlaceInv, Bringing, RestingInv,
                    StartingHasAStart
<1> QED
  BY <1>2, <1>3

(* so it always holds.                                                     *)
LEMMA StandsAlways == Spec => []IInv
BY StandsInit, StandsNext, PTL DEF Spec

(* A failed, refused or dropped start never leaves the band on "starting", *)
(* whatever stops and swaps cross it.                                      *)
THEOREM BandIsHonest == Spec => []StartingHasAStart
BY StandsAlways, PTL DEF IInv

(* What the room shows of a start is so, its types included.               *)
THEOREM BandAlwaysTrue == Spec => []BandIsTrue
<1>1. TypeOK /\ StartingHasAStart => BandIsTrue
  BY DEF BandIsTrue
<1> QED
  BY <1>1, TypesCorrect, BandIsHonest, PTL

(* A session that is up is never replaced in the map by another, so no     *)
(* agent runs on with nobody able to stop it: the one gate, and the record *)
(* that a second gate's holder no longer finds, keep two starts apart.     *)
THEOREM NobodyIsOrphaned == Spec => NoAgentOrphaned
<1>1. IInv /\ [Next]_vars
        => [session.up /\ session'.up => session'.by = session.by]_vars
  BY PlaceKept DEF IInv, Safe
<1> QED
  BY <1>1, StandsAlways, PTL DEF Spec, NoAgentOrphaned
=============================================================================
