------------------------------ MODULE RelayHub ------------------------------
(***************************************************************************)
(* What a served desk keeps for one desk that stands in on it              *)
(* (remote/relay.rs, Hub): the registered generation, which is the control *)
(* socket that registered it, the visitors waiting for the desk to dial    *)
(* back, and what bounds both.                                             *)
(***************************************************************************)
EXTENDS Integers, FiniteSets

CONSTANTS Hosts,     \* control sockets of the desk, one generation each
          Visitors,  \* sockets that want to reach the desk
          Device,    \* the device each socket of the desk proves to be
          None,      \* no socket
          HostsMax, VisitsPerDesk,
          OthersMax  \* bound: slots that other desks' controls hold before

ASSUME HubAssumption == /\ None \notin Hosts \cup Visitors
                        /\ IsFiniteSet(Hosts) /\ IsFiniteSet(Visitors)
                        /\ HostsMax \in Nat \ {0} /\ VisitsPerDesk \in Nat
                        /\ OthersMax \in 0 .. HostsMax

VARIABLES host,       \* Hub.hosts.desks[desk], if it is there
          cancelled,  \* generations whose token is cancelled
          slots,      \* control sockets that hold one of Hub.controls
          queued,     \* those that wait for one, for the old to be done
          others,     \* slots that controls of other desks hold
          ticket,     \* the generation of each visitor's Ticket
          waiting,    \* Hub.hosts.waiting
          told        \* of those, the ones whose capability the desk was sent

hubVars == <<host, cancelled, slots, queued, others, ticket, waiting, told>>

HubInit == /\ host = None /\ cancelled = {}
           /\ slots = {} /\ queued = {} /\ others \in 0 .. OthersMax
           /\ ticket = [v \in Visitors |-> None]
           /\ waiting = {} /\ told = {}
-----------------------------------------------------------------------------
(* Slots not held: a semaphore hands a returned permit to those in its     *)
(* queue before try_acquire sees it.                                       *)
Free == HostsMax - others - Cardinality(slots)

TrySlot == Free > Cardinality(queued)

(* Visitors whose Ticket is dropped with the wait of generation g.         *)
WaitersOf(g) == {v \in waiting : ticket[v] = g}

DropsWaiters(gone) ==
  /\ waiting' = waiting \ gone /\ told' = told \ gone
  /\ ticket' = [v \in Visitors |-> IF v \in gone THEN None ELSE ticket[v]]

(* host's first look: a slot, or the predecessor retired and one awaited.  *)
Slot(c) == /\ TrySlot
           /\ slots' = slots \cup {c}
           /\ UNCHANGED <<host, cancelled, queued, others, ticket, waiting,
                          told>>

Retire(c) == /\ ~TrySlot
             /\ host # None
             /\ cancelled' = cancelled \cup {host}
             /\ DropsWaiters(WaitersOf(host))
             /\ queued' = queued \cup {c}
             /\ UNCHANGED <<host, slots, others>>

(* The awaited slot; and one who waits no more.                            *)
Acquire(c) == /\ c \in queued
              /\ Free > 0
              /\ slots' = slots \cup {c} /\ queued' = queued \ {c}
              /\ UNCHANGED <<host, cancelled, others, ticket, waiting, told>>

Dequeue(c) == /\ queued' = queued \ {c}
              /\ UNCHANGED <<host, cancelled, slots, others, ticket, waiting,
                             told>>

ReturnSlot(c) == /\ slots' = slots \ {c}
                 /\ UNCHANGED <<host, cancelled, queued, others, ticket,
                                waiting, told>>

(* Mutant: the old generation is left to find out by itself.               *)
RegisterKeepsOld(c, revoked) ==
  /\ host' = c
  /\ cancelled' = cancelled \cup (IF Device[c] \in revoked THEN {c} ELSE {})
  /\ DropsWaiters(IF host = None THEN {} ELSE WaitersOf(host))
  /\ UNCHANGED <<slots, queued, others>>

(* Hub::register: the old generation is cancelled with what waits for it.  *)
(* The token is a child of the device's, so it may be cancelled as it is.  *)
Register(c, revoked) ==
  /\ host' = c
  /\ cancelled' = cancelled \cup ({host} \ {None})
                            \cup (IF Device[c] \in revoked THEN {c} ELSE {})
  /\ DropsWaiters(IF host = None THEN {} ELSE WaitersOf(host))
  /\ UNCHANGED <<slots, queued, others>>

(* register's refusal: as many budgets are kept as may be, and this        *)
(* desk's, which nobody visits, is not among them.                         *)
MayRefuse == host = None /\ \A v \in Visitors : ticket[v] = None

(* Hub::unregister, of the generation it was called for.                   *)
Unregister(c) ==
  IF host = c
  THEN /\ host' = None
       /\ cancelled' = cancelled \cup {c}
       /\ DropsWaiters(WaitersOf(c))
       /\ UNCHANGED <<slots, queued, others>>
  ELSE UNCHANGED hubVars

(* A control of another desk is done.                                      *)
OtherLeaves == /\ others > 0 /\ others' = others - 1
               /\ UNCHANGED <<host, cancelled, slots, queued, ticket, waiting,
                              told>>
-----------------------------------------------------------------------------
Visiting == {v \in Visitors : ticket[v] # None}

(* The desk's budget, which outlives its registrations.                    *)
RoomToVisit == Cardinality(Visiting) < VisitsPerDesk

(* Hub::visit, let in.  Refused (offline, busy, too often), it leaves      *)
(* everything as it is.                                                    *)
Visit(v) ==
  /\ host # None /\ host \notin cancelled
  /\ RoomToVisit
  /\ ticket' = [ticket EXCEPT ![v] = host]
  /\ UNCHANGED <<host, cancelled, slots, queued, others, waiting, told>>

Current(v) == ticket[v] \notin cancelled /\ host = ticket[v]

(* A Ticket is dropped, with the wait or without one.                      *)
Drops(v) == /\ DropsWaiters({v})
            /\ UNCHANGED <<host, cancelled, slots, queued, others>>

(* Hub::wait, of a ticket that is current.                                 *)
Waits(v) == /\ Current(v)
            /\ waiting' = waiting \cup {v}
            /\ UNCHANGED <<host, cancelled, slots, queued, others, ticket,
                           told>>

(* arrive: the notice is in the generation's channel.                      *)
Notifies(v) == /\ told' = told \cup {v}
               /\ UNCHANGED <<host, cancelled, slots, queued, others, ticket,
                              waiting>>

RightDevice(v, d) == d = Device[ticket[v]]

Takes(v) == /\ waiting' = waiting \ {v} /\ told' = told \ {v}
            /\ UNCHANGED <<host, cancelled, slots, queued, others, ticket>>

(* Hub::claim: taken once, by the device that stands in; one no longer     *)
(* current is dropped.                                                     *)
Claim(v, d) == /\ v \in waiting /\ Current(v) /\ RightDevice(v, d)
               /\ Takes(v)

ClaimsStale(v) == v \in waiting /\ ~Current(v) /\ Drops(v)

(* Mutant: a generation's token is no child of its device's.               *)
CancelsNone(d) == UNCHANGED hubVars

(* The device's grant is taken back, and with it its tokens.               *)
Cancels(d) ==
  /\ cancelled' = cancelled \cup {c \in slots : Device[c] = d}
  /\ UNCHANGED <<host, slots, queued, others, ticket, waiting, told>>
=============================================================================
