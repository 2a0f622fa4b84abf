---------------------------- MODULE ComputerGate ----------------------------
(***************************************************************************)
(* The gate in front of one teammate's computer                            *)
(* (crates/hotline-core/src/computer/gate.rs).                             *)
(*                                                                         *)
(* Several agents of one teammate share its computer.  Each has a gate of  *)
(* its own, with any number of calls in it, and the one lease of Leases    *)
(* says whose calls go through.  Leases.take, Call::drop, Leases.release   *)
(* and the end of a gate (serve) each run under the one mutex, and what an *)
(* agent does between them runs beside all the others.  The clock is the   *)
(* flag `idle`: Timing::idle has passed since `last`.                      *)
(***************************************************************************)
EXTENDS Integers, FiniteSets

CONSTANTS Agents,   \* the Holders: one for each agent ever made
          Calls,    \* requests at the gates, at one time
          None      \* nobody

ASSUME CallsAssumption == IsFiniteSet(Calls)
ASSUME NobodyAssumption == None \notin Agents

VARIABLES held,      \* Held.by, or None for no entry
          inFlight,  \* Held.in_flight
          released,  \* Held.released
          idle,      \* Held.last is Timing::idle ago
          at,        \* where each call is
          by,        \* the agent that made it
          alive,     \* the authority each gate asks of (CapabilityLease)
          gate       \* each agent's listener

gateVars == <<held, inFlight, released, idle, at, by, alive, gate>>
leaseVars == <<held, inFlight, released, idle>>
agentVars == <<alive, gate>>

GateInit == /\ held = None
            /\ inFlight = 0
            /\ released = FALSE
            /\ idle = FALSE
            /\ at = [c \in Calls |-> "out"]
            /\ by = [c \in Calls |-> None]
            /\ alive = [a \in Agents |-> TRUE]
            /\ gate = [a \in Agents |-> "none"]
-----------------------------------------------------------------------------
Is(c, pc) == at[c] = pc
Goes(c, pc) == at' = [at EXCEPT ![c] = pc]
Leaves(c) == /\ at' = [at EXCEPT ![c] = "out"]
             /\ by' = [by EXCEPT ![c] = None]

(* A call that has a Call value: dropping it is what ends the call.        *)
Live == {c \in Calls : at[c] \in {"granted", "sent"}}

(* The entry as it is when nobody has the computer.                        *)
NoEntry == /\ held' = None
           /\ inFlight' = 0
           /\ released' = FALSE
           /\ idle' = FALSE

(* serve: the gate of a new agent starts to listen.                        *)
Serve(a) == /\ gate[a] = "none"
            /\ alive[a]
            /\ gate' = [gate EXCEPT ![a] = "open"]
            /\ UNCHANGED <<leaseVars, at, by, alive>>

(* forward: a tool call of a living agent comes in.                        *)
Arrive(c, a) == /\ Is(c, "out")
                /\ gate[a] = "open"
                /\ alive[a]
                /\ at' = [at EXCEPT ![c] = "waiting"]
                /\ by' = [by EXCEPT ![c] = a]
                /\ UNCHANGED <<leaseVars, agentVars>>

(* take, the three ways in: nobody has it, the agent has it already, and   *)
(* the one who has it has stopped using it.                                *)
TakeFree(c) == /\ held = None
               /\ held' = by[c]
               /\ inFlight' = 1
               /\ released' = FALSE
               /\ idle' = FALSE

TakeAgain(c) == /\ held = by[c]
                /\ inFlight' = inFlight + 1
                /\ released' = FALSE
                /\ UNCHANGED <<held, idle>>

TakeIdle(c) == /\ held \notin {None, by[c]}
               /\ inFlight = 0 /\ idle
               /\ held' = by[c]
               /\ inFlight' = 1
               /\ released' = FALSE
               /\ idle' = FALSE

Take(c) == /\ Is(c, "waiting")
           /\ alive[by[c]]
           /\ TakeFree(c) \/ TakeAgain(c) \/ TakeIdle(c)
           /\ Goes(c, "granted")
           /\ UNCHANGED <<by, agentVars>>

(* take: Refused::Revoked, found whenever the lease could be given.        *)
Revoked(c) == /\ Is(c, "waiting")
              /\ ~alive[by[c]]
              /\ Leaves(c)
              /\ UNCHANGED <<leaseVars, agentVars>>

(* take: Refused::Busy, once the wait has run out.                         *)
Busy(c) == /\ Is(c, "waiting")
           /\ alive[by[c]]
           /\ held \notin {None, by[c]} /\ ~(inFlight = 0 /\ idle)
           /\ Leaves(c)
           /\ UNCHANGED <<leaseVars, agentVars>>

(* Call::drop.  The subtraction saturates.                                 *)
Drop(c) == IF held # by[c] THEN UNCHANGED leaseVars
           ELSE IF released /\ inFlight <= 1 THEN NoEntry
           ELSE /\ inFlight' = IF inFlight = 0 THEN 0 ELSE inFlight - 1
                /\ idle' = FALSE
                /\ UNCHANGED <<held, released>>

(* forward, with the lease in hand: the authority is asked once more.      *)
Forward(c) == /\ Is(c, "granted")
              /\ alive[by[c]]
              /\ Goes(c, "sent")
              /\ UNCHANGED <<leaseVars, by, agentVars>>

TurnedBack(c) == /\ Is(c, "granted")
                 /\ ~alive[by[c]]
                 /\ Drop(c)
                 /\ Leaves(c)
                 /\ UNCHANGED agentVars

(* The answer has been read to its end, or the computer did not answer.    *)
Answered(c) == /\ Is(c, "sent")
               /\ Drop(c)
               /\ Leaves(c)
               /\ UNCHANGED agentVars

(* The agent hangs up, and the handler's future is dropped where it is.    *)
HangUp(c) == /\ at[c] # "out"
             /\ IF Is(c, "waiting") THEN UNCHANGED leaseVars ELSE Drop(c)
             /\ Leaves(c)
             /\ UNCHANGED agentVars

(* Leases::release.                                                        *)
LetGo(a) == IF held # a THEN UNCHANGED leaseVars
            ELSE IF inFlight > 0
            THEN /\ released' = TRUE
                 /\ UNCHANGED <<held, inFlight, idle>>
            ELSE NoEntry

(* A turn of the agent's thread is over, or its queue ends late            *)
(* (let_go_of_computer).                                                   *)
Release(a) == /\ gate[a] # "none"
              /\ LetGo(a)
              /\ UNCHANGED <<at, by, agentVars>>

(* The agent's lease is revoked: its thread parks, closes or is stopped.   *)
Revoke(a) == /\ alive[a]
             /\ alive' = [alive EXCEPT ![a] = FALSE]
             /\ UNCHANGED <<leaseVars, at, by, gate>>

(* Mutant: the gate does not wait for the requests that are in it.         *)
GateEndsAtOnce(a) == /\ gate[a] = "open"
                     /\ ~alive[a]
                     /\ gate' = [gate EXCEPT ![a] = "shut"]
                     /\ LetGo(a)
                     /\ UNCHANGED <<at, by, alive>>

(* serve: the authority is gone, the last request is answered, and the     *)
(* gate lets go of what it held.                                           *)
GateEnds(a) == /\ gate[a] = "open"
               /\ ~alive[a]
               /\ \A c \in Calls : by[c] # a
               /\ gate' = [gate EXCEPT ![a] = "shut"]
               /\ LetGo(a)
               /\ UNCHANGED <<at, by, alive>>

IdlePasses == /\ held # None
              /\ ~idle
              /\ idle' = TRUE
              /\ UNCHANGED <<held, inFlight, released, at, by, agentVars>>

CallStep(c) == \/ Take(c) \/ Revoked(c) \/ Forward(c) \/ TurnedBack(c)
               \/ Answered(c)

-----------------------------------------------------------------------------
GateTypeOK == /\ held \in Agents \cup {None}
              /\ inFlight \in Nat
              /\ released \in BOOLEAN /\ idle \in BOOLEAN
              /\ at \in [Calls -> {"out", "waiting", "granted", "sent"}]
              /\ by \in [Calls -> Agents \cup {None}]
              /\ alive \in [Agents -> BOOLEAN]
              /\ gate \in [Agents -> {"none", "open", "shut"}]

(* Every call that got through, whatever was released, taken over or       *)
(* revoked since, belongs to the one agent that has the computer: two      *)
(* agents never drive it at once (Leases, Call::drop).                     *)
OneDriver == \A c \in Live : by[c] = held

(* The count the lease is let go of by is the number of the holder's calls *)
(* that have not ended, so it is neither given up under a call nor kept    *)
(* after the last one (Held.in_flight, Call::drop).                        *)
CountIsTrue == /\ held # None => inFlight = Cardinality(Live)
               /\ held = None => Live = {}

(* An agent whose gate has ended has given the computer back for good,     *)
(* with calls in flight, waiting or just granted when its authority ended  *)
(* and with releases of its thread still to come (serve, take, release).   *)
EndedHoldsNothing == \A a \in Agents : gate[a] = "shut" => held # a
=============================================================================
