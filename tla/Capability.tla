----------------------------- MODULE Capability -----------------------------
(***************************************************************************)
(* A session's authority over its tools                                    *)
(* (crates/hotline-tools/src/capability.rs).                               *)
(*                                                                         *)
(* One epoch per teammate, shared by every handle; leases captured from    *)
(* it, scoped from one another and revoked; and the check every tool makes *)
(* before it acts, which reads the revocation flags and the epoch one at a *)
(* time while the rest of the room goes on.  The wrap of the u64 counters  *)
(* is out of reach: MaxGeneration stands below 2^64.                       *)
(***************************************************************************)
EXTENDS Naturals

CONSTANTS Leases,         \* identities of CapabilityLease values
          Checkers,       \* tool calls that check a lease
          NoHandle,       \* no lease
          MaxGeneration   \* bound on the invalidations, stops and swaps

ASSUME BoundAssumption == MaxGeneration \in Nat
ASSUME NoHandleAssumption == NoHandle \notin Leases

VARIABLES epoch,    \* CapabilityState, behind its mutex
          lease,    \* the immutable part of each lease that was captured
          revoked,  \* the leases whose own AtomicBool is set
          check     \* the is_current call of each checker

epochVars == <<epoch, lease, revoked, check>>

Epoch == [generation : Nat, authority : Nat, active : BOOLEAN]

(* `over` holds the leases a scoped lease depends on, all the way up.      *)
Lease == [generation : Nat, authority : Nat, lasting : BOOLEAN,
          activeAtCapture : BOOLEAN, over : SUBSET Leases]

Unmade == [generation |-> 0, authority |-> 0, lasting |-> FALSE,
           activeAtCapture |-> FALSE, over |-> {NoHandle}]

(* One is_current call: the lease asked about, the flags still to load,    *)
(* whether the lease was current as the call began, and the answer.        *)
Check == [of : Leases, unread : SUBSET Leases, began : BOOLEAN,
          answer : {"reading", "current", "stale"}]
Idle == [of |-> NoHandle, unread |-> {}, began |-> FALSE, answer |-> "none"]

Made == {l \in Leases : lease[l] # Unmade}

EpochInit == /\ epoch = [generation |-> 0, authority |-> 0, active |-> TRUE]
             /\ lease = [l \in Leases |-> Unmade]
             /\ revoked = {}
             /\ check = [c \in Checkers |-> Idle]
-----------------------------------------------------------------------------
(* Mutant: a lease captured inside the quarantine counts once it lifts.    *)
EpochHoldsAnyCapture(l) ==
  /\ epoch.active
  /\ epoch.authority = lease[l].authority
  /\ lease[l].lasting \/ epoch.generation = lease[l].generation

(* What is_current compares under the epoch's lock.                        *)
EpochHolds(l) ==
  /\ lease[l].activeAtCapture
  /\ epoch.active
  /\ epoch.authority = lease[l].authority
  /\ lease[l].lasting \/ epoch.generation = lease[l].generation

Chain(l) == {l} \cup lease[l].over

(* A lease no reader could find stale.                                     *)
Current(l) == /\ l \in Made
              /\ \A k \in Chain(l) : k \notin revoked /\ EpochHolds(k)
-----------------------------------------------------------------------------
(* capture: an atomic snapshot of the epoch, ordinary or lasting.          *)
Capture(l, lasting) ==
  /\ l \notin Made
  /\ lease' = [lease EXCEPT ![l] =
       [generation |-> epoch.generation, authority |-> epoch.authority,
        lasting |-> lasting, activeAtCapture |-> epoch.active, over |-> {}]]
  /\ UNCHANGED <<epoch, revoked, check>>

(* Mutant: a scoped lease is captured afresh, and only tied to its parent. *)
ScopedAfresh(l, parent) ==
  /\ l \notin Made
  /\ parent \in Made
  /\ lease' = [lease EXCEPT ![l] =
       [generation |-> epoch.generation, authority |-> epoch.authority,
        lasting |-> lease[parent].lasting, activeAtCapture |-> epoch.active,
        over |-> Chain(parent)]]
  /\ UNCHANGED <<epoch, revoked, check>>

(* scoped: the parent's snapshot, not the epoch's, tied to the parent.     *)
Scoped(l, parent) ==
  /\ l \notin Made
  /\ parent \in Made
  /\ lease' = [lease EXCEPT ![l] = [lease[parent] EXCEPT !.over = Chain(parent)]]
  /\ UNCHANGED <<epoch, revoked, check>>

Revoke(l) == /\ l \in Made \ revoked
             /\ revoked' = revoked \cup {l}
             /\ UNCHANGED <<epoch, lease, check>>

Bounded == epoch.generation < MaxGeneration

(* Mutant: a policy update advances only what a session's handles follow.  *)
InvalidateSessionOnly ==
  /\ Bounded
  /\ epoch' = [epoch EXCEPT !.generation = @ + 1, !.active = FALSE]
  /\ UNCHANGED <<lease, revoked, check>>

Invalidate == /\ Bounded
              /\ epoch' = [generation |-> epoch.generation + 1,
                           authority |-> epoch.authority + 1,
                           active |-> FALSE]
              /\ UNCHANGED <<lease, revoked, check>>

Stop == /\ Bounded
        /\ epoch' = [epoch EXCEPT !.generation = @ + 1, !.authority = @ + 1]
        /\ UNCHANGED <<lease, revoked, check>>

ReplaceSession == /\ Bounded
                  /\ epoch' = [epoch EXCEPT !.generation = @ + 1]
                  /\ UNCHANGED <<lease, revoked, check>>

Activate == /\ epoch' = [epoch EXCEPT !.active = TRUE]
            /\ UNCHANGED <<lease, revoked, check>>
-----------------------------------------------------------------------------
(* Mutant: the dependencies of a scoped lease are not asked.               *)
BeginCheckOwnFlag(c, l) ==
  /\ check[c].answer # "reading"
  /\ l \in Made
  /\ check' = [check EXCEPT ![c] = [of |-> l, unread |-> {l},
                                    began |-> Current(l), answer |-> "reading"]]
  /\ UNCHANGED <<epoch, lease, revoked>>

(* is_current, as the interleavings see it: a relaxed order of the loads,  *)
(* which covers the code's (own flag, then each dependency's check, then   *)
(* the epoch).  The fields it compares are the same along a chain, so the  *)
(* epoch is read once, last.                                               *)
BeginCheck(c, l) ==
  /\ check[c].answer # "reading"
  /\ l \in Made
  /\ check' = [check EXCEPT ![c] = [of |-> l, unread |-> Chain(l),
                                    began |-> Current(l), answer |-> "reading"]]
  /\ UNCHANGED <<epoch, lease, revoked>>

LoadRevoked(c, k) ==
  /\ check[c].answer = "reading"
  /\ k \in check[c].unread
  /\ \/ k \in revoked /\ check' = [check EXCEPT ![c].answer = "stale"]
     \/ k \notin revoked /\ check' = [check EXCEPT ![c].unread = @ \ {k}]
  /\ UNCHANGED <<epoch, lease, revoked>>

ReadEpoch(c) ==
  /\ check[c].answer = "reading"
  /\ check[c].unread = {}
  /\ check' = [check EXCEPT ![c].answer =
                 IF EpochHolds(check[c].of) THEN "current" ELSE "stale"]
  /\ UNCHANGED <<epoch, lease, revoked>>
-----------------------------------------------------------------------------
EpochNext == \/ \E l \in Leases, lasting \in BOOLEAN : Capture(l, lasting)
             \/ \E l, parent \in Leases : Scoped(l, parent)
             \/ \E l \in Leases : Revoke(l)
             \/ Invalidate
             \/ Stop
             \/ ReplaceSession
             \/ Activate
             \/ \E c \in Checkers, l \in Leases : BeginCheck(c, l)
             \/ \E c \in Checkers, k \in Leases : LoadRevoked(c, k)
             \/ \E c \in Checkers : ReadEpoch(c)

EpochSpec == EpochInit /\ [][EpochNext]_epochVars
-----------------------------------------------------------------------------
EpochTypeOK == /\ epoch \in Epoch
               /\ lease \in [Leases -> Lease \cup {Unmade}]
               /\ revoked \in SUBSET Leases
               /\ check \in [Checkers -> Check \cup {Idle}]

(* What a lease was captured with.                                         *)
CapturedOf(l) == <<lease[l].generation, lease[l].authority, lease[l].lasting,
                 lease[l].activeAtCapture>>

(* A scoped lease is tied to leases that were made, and holds what they    *)
(* were captured with however far the epoch has moved since: a step of     *)
(* the chain never outlives another, and one look at the epoch serves all  *)
(* of them (scoped, capture, is_current).                                  *)
LeasesAreTied ==
  /\ EpochTypeOK
  /\ revoked \subseteq Made
  /\ \A l \in Made : /\ lease[l].generation <= epoch.generation
                     /\ lease[l].authority <= epoch.authority
                     /\ \A k \in lease[l].over :
                          k \in Made /\ CapturedOf(k) = CapturedOf(l)

(* A check that answers "current" was asked of a lease that held authority *)
(* when the call began: a tool whose teammate was stopped, or whose policy *)
(* was replaced, before the check started is always refused, although the  *)
(* flags and the epoch are read one by one (is_current).                   *)
CheckSound == \A c \in Checkers : check[c].answer = "current" => check[c].began

(* A lease that lost its authority never regains it: reopening the epoch   *)
(* after a policy change revives no handle from before it or from inside   *)
(* the quarantine (activate, active_at_capture).                           *)
NeverRevived == [][\A l \in Made : Current(l)' => Current(l)]_epochVars

(* A session's replacement ends its own handles and leaves what the        *)
(* teammate's requests hold of it: currency of a lasting lease changes only *)
(* when the authority or a revocation does (replace_session, lasting).     *)
LastingOutlivesReplacement ==
  [][(epoch'.authority = epoch.authority /\ epoch'.active /\ revoked' = revoked)
       => \A l \in Made : (lease[l].lasting /\ Current(l)) => Current(l)']_epochVars

(* A lease's whole life: spent, it never comes back, and a lasting one is  *)
(* spent by nothing but its teammate's authority or a revocation.          *)
LeaseLife == NeverRevived /\ LastingOutlivesReplacement

(* The detailed epoch implements the promise.                              *)
Promise == INSTANCE Authority
             WITH open <- epoch.active,
                  live <- {l \in Leases : Current(l)},
                  spent <- {l \in Made : ~Current(l)}
Implements == Promise!Spec
=============================================================================
