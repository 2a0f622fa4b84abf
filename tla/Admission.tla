----------------------------- MODULE Admission -----------------------------
(***************************************************************************)
(* Who may hold a connection to the desk (remote/admission.rs): a pool in  *)
(* which a socket nobody has vouched for yet is pending, for a while, and  *)
(* may be put out to make room, and a proven device holds a seat, one that *)
(* came in over the relay too.                                             *)
(*                                                                         *)
(* A connection's entry is there for as long as its permit has an owner:   *)
(* the HTTP connection's task, and the task of its upgraded socket.  The   *)
(* listener takes in one socket at a time, and waits with it for the entry *)
(* it put out to be gone.                                                  *)
(***************************************************************************)
EXTENDS Sequences, SequencesExt, FiniteSets, Integers

CONSTANTS Conns,     \* sockets, one use each
          Ip,        \* where each is from
          Devices,   \* devices the desk has granted something
          Nobody,    \* no device, no connection
          PendingMax, PendingPerIp, AuthenticatedMax, AuthenticatedPerDevice

ASSUME NobodyAssumption == Nobody \notin Conns \cup Devices
ASSUME PoolAssumption ==
  /\ PendingMax \in Nat \ {0} /\ PendingPerIp \in Nat \ {0}
  /\ AuthenticatedMax \in Nat /\ AuthenticatedPerDevice \in Nat
  /\ Ip \in [Conns -> Range(Ip)]

VARIABLES pool,     \* Admission.connections, in order
          owners,   \* of each connection's permit
          seat,     \* Connection.device: whose seat it is
          young,    \* not past its replace_after
          evicted,  \* its permit's token
          late,     \* past the deadline set as it was accepted
          held,     \* the socket the listener has accepted
          awaits    \* the entry whose end the listener waits for

poolVars == <<pool, owners, seat, young, evicted, late, held, awaits>>

AdmissionInit == /\ pool = <<>>
                 /\ owners = [c \in Conns |-> {}]
                 /\ seat = [c \in Conns |-> Nobody]
                 /\ young = {} /\ evicted = {} /\ late = {}
                 /\ held = Nobody /\ awaits = Nobody
-----------------------------------------------------------------------------
(* Places in the pool of what is pending, and of what is from one address. *)
Pendings == {i \in DOMAIN pool : seat[pool[i]] = Nobody}
PendingsFrom(ip) == {i \in Pendings : Ip[pool[i]] = ip}
Seated(d) == {c \in Range(pool) : seat[c] = d}

HasSeat(d) ==
  /\ Cardinality(UNION {Seated(e) : e \in Devices}) < AuthenticatedMax
  /\ Cardinality(Seated(d)) < AuthenticatedPerDevice

(* listener.accept: one more socket.                                       *)
Hears(c) ==
  /\ held = Nobody
  /\ held' = c
  /\ UNCHANGED <<pool, owners, seat, young, evicted, late, awaits>>

(* Mutant: only the pending ones of its own address have to make room.     *)
VictimsFrom(ip) ==
  IF Cardinality(PendingsFrom(ip)) >= PendingPerIp THEN PendingsFrom(ip)
  ELSE {}

(* Who has to go before one more from `ip` is taken in, the oldest of      *)
(* these: the pending ones of its own address, or all.                     *)
Victims(ip) ==
  IF Cardinality(PendingsFrom(ip)) >= PendingPerIp THEN PendingsFrom(ip)
  ELSE IF Cardinality(Pendings) >= PendingMax THEN Pendings
  ELSE {}

(* Admission::accept, one look under the lock.  An entry that is young is  *)
(* waited for, and so is one put out, which ends when its owners let go.   *)
Woken == \/ awaits \notin Range(pool)
         \/ awaits \notin evicted /\ awaits \notin young

Admit ==
  /\ held # Nobody
  /\ Woken
  /\ Victims(Ip[held]) = {}
  /\ pool' = Append(pool, held)
  /\ owners' = [owners EXCEPT ![held] = {"http"}]
  /\ young' = young \cup {held}
  /\ held' = Nobody /\ awaits' = Nobody
  /\ UNCHANGED <<seat, evicted, late>>

Evict ==
  /\ held # Nobody
  /\ Woken
  /\ \E i \in Victims(Ip[held]) :
       /\ \A j \in Victims(Ip[held]) : i <= j
       /\ awaits' = pool[i]
       /\ evicted' = IF pool[i] \in young THEN evicted
                     ELSE evicted \cup {pool[i]}
  /\ UNCHANGED <<pool, owners, seat, young, late, held>>

(* Time: the grace of the one waited for is over, and a deadline passes.   *)
Grows(c) == /\ c \in young /\ c = awaits
            /\ young' = young \ {c}
            /\ UNCHANGED <<pool, owners, seat, evicted, late, held, awaits>>

Deadline(c) == /\ c \in Range(pool) \/ c = held
               /\ c \notin late \cup evicted /\ seat[c] = Nobody
               /\ late' = late \cup {c}
               /\ UNCHANGED <<pool, owners, seat, young, evicted, held,
                              awaits>>

(* Permit::expired: never again once a device is authenticated.            *)
Expired(c) == seat[c] = Nobody /\ c \in evicted \cup late

(* Permit::while_pending, and authenticate's first look, under the lock.   *)
Stands(c) == c \notin evicted \cup late

(* Permit::authenticate: promotion shares the lock with eviction.          *)
Authenticate(c, d) ==
  /\ Stands(c) /\ HasSeat(d) /\ seat[c] = Nobody
  /\ seat' = [seat EXCEPT ![c] = d]
  /\ UNCHANGED <<pool, owners, young, evicted, late, held, awaits>>

(* Admission::seat: a relayed device takes a seat, with a permit that is   *)
(* new, and never was pending: it has no address to be counted against.    *)
SeatRelayed(c, d) ==
  /\ HasSeat(d)
  /\ pool' = Append(pool, c)
  /\ owners' = [owners EXCEPT ![c] = {"task"}]
  /\ seat' = [seat EXCEPT ![c] = d]
  /\ young' = young \ {c} /\ evicted' = evicted \ {c} /\ late' = late \ {c}
  /\ UNCHANGED <<held, awaits>>

(* The task of the upgraded socket becomes an owner.                       *)
Shares(c) == /\ owners' = [owners EXCEPT ![c] = @ \cup {"task"}]
             /\ UNCHANGED <<pool, seat, young, evicted, late, held, awaits>>

(* An owner lets its permit go; the last of them ends the entry, and with  *)
(* it what was known of the permit.  No id is in the pool twice.           *)
LetsGo(c, who) ==
  LET gone == IF owners[c] \subseteq {who} THEN {c} ELSE {} IN
  /\ owners' = [owners EXCEPT ![c] = @ \ {who}]
  /\ pool' = IF gone = {} THEN pool ELSE RemoveFirst(pool, c)
  /\ seat' = [seat EXCEPT ![c] = IF c \in gone THEN Nobody ELSE @]
  /\ young' = young \ gone
  /\ evicted' = evicted \ gone
  /\ late' = late \ gone
  /\ UNCHANGED <<held, awaits>>
-----------------------------------------------------------------------------
(* Pending sockets, in all and from one address, and seats, in all and of  *)
(* one device, stay within their bounds, whatever is taken in, promoted,   *)
(* seated over the relay and let go (accept, authenticate, seat).          *)
WithinBounds ==
  /\ Cardinality(Pendings) <= PendingMax
  /\ \A ip \in Range(Ip) : Cardinality(PendingsFrom(ip)) <= PendingPerIp
  /\ \A d \in Devices : Cardinality(Seated(d)) <= AuthenticatedPerDevice
  /\ Cardinality(UNION {Seated(d) : d \in Devices}) <= AuthenticatedMax

(* One that was told to go to make room never takes a seat ("an evicted    *)
(* handshake cannot take a seat", Permit::authenticate).                   *)
EvictedIsNotSeated == \A c \in Conns : c \in evicted => seat[c] = Nobody
=============================================================================
