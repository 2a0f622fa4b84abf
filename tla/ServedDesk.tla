----------------------------- MODULE ServedDesk -----------------------------
(***************************************************************************)
(* A served desk's listener and what becomes of a socket it takes in       *)
(* (remote/server.rs run, handle, sealed_door, relay_door, sealed_session; *)
(* remote/relay.rs arrive, accept, join, host): a phone's wire, the        *)
(* control socket of a desk that stands in, a visitor to that desk, the    *)
(* desk's callback for a visitor; and of the sockets this desk dials       *)
(* itself, for the phones that visit it at its own relay (stand_once).     *)
(*                                                                         *)
(* `at` is where a socket's own task is.  A visitor's ends once the hub    *)
(* has the socket (`waiting`, then a callback's `joins`).                  *)
(***************************************************************************)
EXTENDS Admission, RelayHub

CONSTANTS Wires, Callbacks, Dialed,
          Crowds,     \* bound: the sets of sockets that come at all
          RevokesMax  \* bound: devices whose grant is taken back

ASSUME KindsAssumption ==
  /\ Conns = Hosts \cup Visitors \cup Wires \cup Callbacks \cup Dialed
  /\ Dialed \cap (Hosts \cup Visitors \cup Wires \cup Callbacks) = {}
  /\ Hosts \cap (Visitors \cup Wires \cup Callbacks) = {}
  /\ Visitors \cap (Wires \cup Callbacks) = {} /\ Wires \cap Callbacks = {}
  /\ Device \in [Conns \ Visitors -> Devices]
  /\ Nobody = None

VARIABLES at,       \* [Conns -> Places]
          joins,    \* the visitor each callback took
          revoked   \* devices whose grant is taken back

vars == <<poolVars, hubVars, at, joins, revoked>>

Places == {"new", "held", "http", "upgrading", "arriving", "notifying",
           "handshake", "proven", "seated", "replacing", "slotted",
           "registered", "hosting", "leaving", "claimed", "joined", "gone"}

TypeOK == /\ Range(pool) \subseteq Conns
          /\ owners \in [Conns -> SUBSET {"http", "task"}]
          /\ seat \in [Conns -> Devices \cup {Nobody}]
          /\ young \subseteq Conns /\ evicted \subseteq Conns
          /\ late \subseteq Conns
          /\ held \in Conns \cup {Nobody} /\ awaits \in Conns \cup {Nobody}
          /\ host \in Hosts \cup {None} /\ cancelled \subseteq Hosts
          /\ slots \subseteq Hosts /\ queued \subseteq Hosts
          /\ others \in 0 .. HostsMax
          /\ ticket \in [Visitors -> Hosts \cup {None}]
          /\ waiting \subseteq Visitors /\ told \subseteq Visitors
          /\ at \in [Conns -> Places]
          /\ joins \in [Callbacks -> Visitors \cup {None}]
          /\ revoked \subseteq Devices

Init == /\ AdmissionInit /\ HubInit
        /\ \E crowd \in Crowds :
             at = [c \in Conns |-> IF c \in crowd THEN "new" ELSE "gone"]
        /\ joins = [c \in Callbacks |-> None]
        /\ revoked = {}
-----------------------------------------------------------------------------
Goes(c, where) == at' = [at EXCEPT ![c] = where]

Moves(c, from, to) == at[c] = from /\ Goes(c, to)

(* run: one socket at a time, held until admission has room for it.        *)
Arrives(c) == /\ c \notin Dialed
              /\ Moves(c, "new", "held") /\ Hears(c)
              /\ UNCHANGED <<hubVars, joins, revoked>>

(* stand_once: a socket the desk dials for a visit holds no permit yet.    *)
Dials(c) == /\ c \in Dialed
            /\ Moves(c, "new", "handshake")
            /\ UNCHANGED <<poolVars, hubVars, joins, revoked>>

TakesIn == /\ Admit /\ Goes(held, "http")
           /\ UNCHANGED <<hubVars, joins, revoked>>

PutsOut == Evict /\ UNCHANGED <<hubVars, at, joins, revoked>>

Ages(c) == /\ Grows(c) \/ Deadline(c)
           /\ UNCHANGED <<hubVars, at, joins, revoked>>

(* The HTTP connection's task is over: upgraded, hung up, or expired.      *)
HttpEnds(c) ==
  /\ "http" \in owners[c]
  /\ LetsGo(c, "http")
  /\ Goes(c, IF at[c] = "http" THEN "gone" ELSE at[c])
  /\ UNCHANGED <<hubVars, joins, revoked>>

(* sealed_door: a task for the upgraded socket, with the permit.           *)
SealedDoor(c) ==
  /\ c \notin Visitors \cup Dialed
  /\ Moves(c, "http", "handshake")
  /\ Shares(c)
  /\ UNCHANGED <<hubVars, joins, revoked>>

(* A task of a socket ends before it got what it came for: the socket      *)
(* closed, something was refused, it expired.                              *)
Fails(c) ==
  /\ at[c] \in {"handshake", "proven"}
  /\ Goes(c, "gone") /\ LetsGo(c, "task")
  /\ UNCHANGED <<hubVars, joins, revoked>>

(* sealed_session: the device has a grant, and the answer is on its way.   *)
Proves(c) == /\ c \in Hosts \cup Wires \cup Dialed
             /\ Device[c] \notin revoked /\ ~Expired(c)
             /\ Moves(c, "handshake", "proven")
             /\ UNCHANGED <<poolVars, hubVars, joins, revoked>>

TakesSeat(c) == /\ \/ c \in Wires /\ Authenticate(c, Device[c])
                   \/ c \in Dialed /\ SeatRelayed(c, Device[c])
                /\ Device[c] \notin revoked
                /\ Moves(c, "proven", "seated")
                /\ UNCHANGED <<hubVars, joins, revoked>>

SessionEnds(c) == /\ Moves(c, "seated", "gone")
                  /\ LetsGo(c, "task")
                  /\ UNCHANGED <<hubVars, joins, revoked>>
-----------------------------------------------------------------------------
(* host: a slot, or the predecessor's retirement, while still pending.     *)
StandsIn(c) ==
  /\ c \in Hosts /\ at[c] = "proven"
  /\ Device[c] \notin revoked /\ Stands(c)
  /\ \/ Slot(c) /\ Goes(c, "slotted")
     \/ Retire(c) /\ Goes(c, "replacing")
  /\ UNCHANGED <<poolVars, joins, revoked>>

GetsSlot(c) == /\ ~Expired(c) /\ Device[c] \notin revoked
               /\ Moves(c, "replacing", "slotted")
               /\ Acquire(c)
               /\ UNCHANGED <<poolVars, joins, revoked>>

StopsReplacing(c) == /\ Expired(c) \/ Device[c] \in revoked
                     /\ Moves(c, "replacing", "gone")
                     /\ Dequeue(c) /\ LetsGo(c, "task")
                     /\ UNCHANGED <<joins, revoked>>

(* Mutant: the place is registered though its permit no longer stands.     *)
RegistersLate(c) == /\ Moves(c, "slotted", "registered")
                    /\ Register(c, revoked)
                    /\ UNCHANGED <<poolVars, joins, revoked>>

Registers(c) == /\ Stands(c)
                /\ Moves(c, "slotted", "registered")
                /\ Register(c, revoked)
                /\ UNCHANGED <<poolVars, joins, revoked>>

(* The permit no longer stood: nothing is touched.                         *)
RegistersNot(c) == /\ ~Stands(c)
                   /\ Moves(c, "slotted", "gone")
                   /\ ReturnSlot(c) /\ LetsGo(c, "task")
                   /\ UNCHANGED <<joins, revoked>>

(* The relay is full, which it says before it closes.                      *)
RefusesDesk(c) == /\ Stands(c) /\ MayRefuse
                  /\ Moves(c, "slotted", "leaving")
                  /\ LetsGo(c, "task")
                  /\ UNCHANGED <<hubVars, joins, revoked>>

(* drop(seat): from here only the generation's token ends it.              *)
Serves(c) == /\ Moves(c, "registered", "hosting")
             /\ LetsGo(c, "task")
             /\ UNCHANGED <<hubVars, joins, revoked>>

HostEnds(c) == /\ Moves(c, "hosting", "leaving")
               /\ Unregister(c)
               /\ UNCHANGED <<poolVars, joins, revoked>>

Leaves(c) == /\ Moves(c, "leaving", "gone")
             /\ ReturnSlot(c)
             /\ UNCHANGED <<poolVars, joins, revoked>>
-----------------------------------------------------------------------------
(* relay_door: a ticket, and a task for the upgraded socket.               *)
RelayDoor(v) == /\ v \in Visitors
                /\ Moves(v, "http", "upgrading")
                /\ Visit(v) /\ Shares(v)
                /\ UNCHANGED <<joins, revoked>>

Upgraded(v) == /\ ~Expired(v)
               /\ Moves(v, "upgrading", "arriving")
               /\ LetsGo(v, "task")
               /\ UNCHANGED <<hubVars, joins, revoked>>

NotUpgraded(v) == /\ Moves(v, "upgrading", "gone")
                  /\ Drops(v) /\ LetsGo(v, "task")
                  /\ UNCHANGED <<joins, revoked>>

(* arrive: the socket waits in the hub, if its ticket is current.          *)
Arrive(v) == /\ \/ Moves(v, "arriving", "notifying") /\ Waits(v)
                \/ Moves(v, "arriving", "gone") /\ ~Current(v) /\ Drops(v)
             /\ UNCHANGED <<poolVars, joins, revoked>>

(* The notice goes to the generation the ticket is of; its channel may be  *)
(* full, and is closed when its host is done.                              *)
Notify(v) ==
  /\ Moves(v, "notifying", "gone")
  /\ \/ /\ v \in waiting
        /\ at[ticket[v]] \in {"registered", "hosting", "leaving"}
        /\ Notifies(v)
     \/ v \in waiting /\ Drops(v)
     \/ v \notin waiting /\ UNCHANGED hubVars
  /\ UNCHANGED <<poolVars, joins, revoked>>

(* Nobody dialed back within ACCEPT_WITHIN.                                *)
WaitExpires(v) == /\ v \in waiting
                  /\ Drops(v)
                  /\ UNCHANGED <<poolVars, at, joins, revoked>>

(* accept: the callback proves its device and claims the visitor.          *)
Accept(c, v) ==
  /\ c \in Callbacks /\ v \in told
  /\ at[c] = "handshake" /\ ~Expired(c) /\ Device[c] \notin revoked
  /\ \/ /\ Claim(v, Device[c])
        /\ Goes(c, "claimed")
        /\ joins' = [joins EXCEPT ![c] = v]
        /\ UNCHANGED poolVars
     \/ /\ ClaimsStale(v)
        /\ Goes(c, "gone") /\ LetsGo(c, "task")
        /\ UNCHANGED joins
  /\ UNCHANGED revoked

(* The generation of the visitor a callback took.                          *)
Generation(c) == ticket[joins[c]]

Joins(c) == /\ Moves(c, "claimed", "joined")
            /\ ~Expired(c) /\ Generation(c) \notin cancelled
            /\ LetsGo(c, "task")
            /\ UNCHANGED <<hubVars, joins, revoked>>

NotJoined(c) == /\ Moves(c, "claimed", "gone")
                /\ Drops(joins[c]) /\ LetsGo(c, "task")
                /\ joins' = [joins EXCEPT ![c] = None]
                /\ UNCHANGED revoked

JoinEnds(c) == /\ Moves(c, "joined", "gone")
               /\ Drops(joins[c])
               /\ joins' = [joins EXCEPT ![c] = None]
               /\ UNCHANGED <<poolVars, revoked>>

(* Bound: a device is revoked while it has a socket here, for without one  *)
(* there is nothing of it to end.                                          *)
IsHere(d) == \E c \in Conns \ Visitors : Device[c] = d /\ at[c] # "gone"

(* Remote::revoke: the grant, and the device's token with its children.    *)
Revokes(d) == /\ d \notin revoked /\ Cardinality(revoked) < RevokesMax
              /\ IsHere(d)
              /\ revoked' = revoked \cup {d}
              /\ Cancels(d)
              /\ UNCHANGED <<poolVars, at, joins>>

Elsewhere == OtherLeaves /\ UNCHANGED <<poolVars, at, joins, revoked>>
-----------------------------------------------------------------------------
HostNext(c) == \/ StandsIn(c) \/ GetsSlot(c) \/ StopsReplacing(c)
               \/ Registers(c) \/ RegistersNot(c) \/ RefusesDesk(c)
               \/ Serves(c) \/ HostEnds(c) \/ Leaves(c)

VisitorNext(v) == \/ RelayDoor(v) \/ Upgraded(v) \/ NotUpgraded(v)
                  \/ Arrive(v) \/ Notify(v) \/ WaitExpires(v)

CallbackNext(c) == \/ \E v \in Visitors : Accept(c, v)
                   \/ Joins(c) \/ NotJoined(c) \/ JoinEnds(c)

SocketNext(c) == \/ Arrives(c) \/ Ages(c) \/ HttpEnds(c) \/ SealedDoor(c)
                 \/ Dials(c) \/ Fails(c) \/ Proves(c) \/ TakesSeat(c)
                 \/ SessionEnds(c)

Next == \/ TakesIn \/ PutsOut \/ Elsewhere
        \/ \E c \in Conns : SocketNext(c)
        \/ \E c \in Hosts : HostNext(c)
        \/ \E v \in Visitors : VisitorNext(v)
        \/ \E c \in Callbacks : CallbackNext(c)
        \/ \E d \in Devices : Revokes(d)

(* Every task runs and every clock goes on, so that what is owed happens.  *)
(* A peer owes nothing: only an expired permit, a cancelled token or a     *)
(* passed time ends what waits for one.  Sockets have one use each, so one *)
(* condition for all that is owed leaves none of it undone.                *)
Owed(c) ==
  \/ Ages(c)
  \/ HttpEnds(c) /\ (Expired(c) \/ at[c] # "http")
  \/ Fails(c) /\ Expired(c)
  \/ c \notin Visitors /\ Device[c] \in revoked /\ SessionEnds(c)

OwedHost(c) ==
  \/ StopsReplacing(c) \/ Registers(c) \/ RegistersNot(c) \/ Serves(c)
  \/ Leaves(c)
  \/ c \in cancelled /\ HostEnds(c)

OwedVisitor(v) ==
  \/ Expired(v) /\ NotUpgraded(v)
  \/ Arrive(v) \/ Notify(v) \/ WaitExpires(v)

OwedCallback(c) ==
  \/ Expired(c) /\ NotJoined(c)
  \/ at[c] = "joined" /\ Generation(c) \in cancelled /\ JoinEnds(c)

Fairness == WF_vars(\/ TakesIn \/ PutsOut
                    \/ \E c \in Conns : Owed(c)
                    \/ \E c \in Hosts : OwedHost(c)
                    \/ \E v \in Visitors : OwedVisitor(v)
                    \/ \E c \in Callbacks : OwedCallback(c))

Spec == Init /\ [][Next]_vars /\ Fairness
-----------------------------------------------------------------------------
(* What waits in the hub waits for the generation that is registered: a    *)
(* replaced or ended one leaves no visitor behind whom nobody can claim    *)
(* (register, retire, unregister, wait).                                   *)
WaitingIsCurrent == \A v \in waiting : ticket[v] = host /\ host # None

(* A control socket that serves and was not cancelled is the one           *)
(* registered: however replacements and endings interleave, no live desk   *)
(* is out of reach and no two stand in at once (register, unregister).     *)
ServingIsRegistered ==
  \A c \in Hosts : at[c] \in {"registered", "hosting"} /\ c \notin cancelled
                   => host = c

(* A capability is good once, and for the device that stands in: a visitor *)
(* taken waits no more, has one callback, and it is that device's (claim). *)
JoinedByItsDesk ==
  \A c \in Callbacks : at[c] \in {"claimed", "joined"} =>
    /\ joins[c] \notin waiting
    /\ Device[c] = Device[Generation(c)]
    /\ \A other \in Callbacks \ {c} : joins[other] # joins[c]

(* The desk's visits, waiting or joined, stay within its budget through    *)
(* every registration ("Budgets survive registrations", relay.rs).         *)
VisitsBounded == Cardinality(Visiting) <= VisitsPerDesk

(* The controls of all desks hold no more slots than there are (controls). *)
SlotsBounded == Cardinality(slots) + others <= HostsMax

(* What is cancelled in a step is cancelled by one of the three that may.  *)
CancelledRightly ==
  \A g \in cancelled' \ cancelled :
    \/ Device[g] \in revoked'
    \/ at[g] = "hosting" /\ at'[g] = "leaving"
    \/ \E c \in Hosts \ {g} : at[c] # at'[c] /\ Stands(c)

(* "An expired replacement cannot cancel or replace the current            *)
(* generation" (host): one is cancelled only as its device is revoked, as  *)
(* its own control ends, or by a control whose permit stands.              *)
OnlyStandingReplaces == [][CancelledRightly]_vars

(* What has to end: the wait of the listener, which stands still till the  *)
(* last owner of the one it put out lets go; the sessions of a revoked     *)
(* device and the joins of a cancelled generation; a visitor's place in    *)
(* the budget that no callback has taken.                                  *)
Settled ==
  /\ held = Nobody
  /\ \A c \in Hosts \cup Wires \cup Dialed :
       at[c] \in {"seated", "registered", "hosting"}
       => Device[c] \notin revoked
  /\ \A c \in Callbacks : at[c] = "joined" => Generation(c) \notin cancelled
  /\ \A v \in Visiting :
       \E c \in Callbacks : at[c] = "joined" /\ joins[c] = v

(* However sockets come, stall, expire and go, it all ends (accept,        *)
(* expired, revoke, wait, join): nothing keeps the listener, a revoked     *)
(* device or a place for a visitor for ever.                               *)
Settles == []<>Settled

(* Nothing grows past its limit: the admission pool, its parts, the hub    *)
(* and a desk's visits (admission.rs, relay.rs).                           *)
Bounded == TypeOK /\ WithinBounds /\ SlotsBounded /\ VisitsBounded

(* Whoever has a seat, stands in, waits or is joined has it by right: one  *)
(* put out takes no seat, one desk stands in, and its visitors are its own.*)
SeatsAreTrue == /\ EvictedIsNotSeated /\ WaitingIsCurrent
                /\ ServingIsRegistered /\ JoinedByItsDesk
=============================================================================
