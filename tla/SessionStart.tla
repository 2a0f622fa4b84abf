---------------------------- MODULE SessionStart ----------------------------
(***************************************************************************)
(* Bringing one teammate's main session up and taking it down              *)
(* (crates/hotline-core/src/session/start.rs), while the wire changes its  *)
(* policy or deletes it (wire/commands/persona.rs).                        *)
(*                                                                         *)
(* Every caller is a task.  A task runs from one await or lock to the next *)
(* in one step; what a synchronous mutex guards is one step too.  Three    *)
(* locks are held across steps: the teammate's start gate, the room's      *)
(* policy lock, and the activity lock that an update of the desk itself    *)
(* takes for writing.                                                      *)
(*                                                                         *)
(* A lease is the ordinary one of Capability: its generation follows every *)
(* stop, swap and policy update, so comparing it compares the authority.   *)
(***************************************************************************)
EXTENDS Naturals

CONSTANTS Tasks,   \* callers: the wire's commands, messages, the schedule
          None,    \* no holder
          Gone     \* the room stream holds the teammate's tombstone

ASSUME DistinctAssumption == None \notin Tasks /\ Gone \notin Nat

VARIABLES policy,      \* version of the record on the room stream, or Gone
          epochs,      \* the epoch objects made for this id
          life,        \* which of them capabilities and starts now name
          session,     \* the entry of Room::sessions
          resting,     \* what Room::resting says while there is no session
          gates,       \* holder of each start gate made for this id
          policyLock,  \* holder of Room::policy_updates
          installing,  \* prepare_restart holds the activity lock
          task         \* each task's call

vars == <<policy, epochs, life, session, resting, gates, policyLock,
          installing, task>>

(* The objects made before the teammate was forgotten, and after.          *)
Lives == {1, 2}

Calls == {"start", "swap", "rebuild", "stop", "update", "delete"}

SessionLease == [life : Lives, generation : Nat, active : BOOLEAN]
NoLease == [life |-> 1, generation |-> 0, active |-> FALSE]

NoSession == [up |-> FALSE, ready |-> FALSE, lease |-> NoLease, policy |-> 0,
              by |-> None]

Init == /\ policy = 1
        /\ epochs = [i \in Lives |-> [generation |-> 0, active |-> TRUE]]
        /\ life = 1
        /\ session = NoSession
        /\ resting = "stopped"
        /\ gates = [i \in Lives |-> None]
        /\ policyLock = None
        /\ installing = FALSE
        /\ task = [t \in Tasks |-> [call |-> "none", pc |-> "idle",
                                    lease |-> NoLease, read |-> 0, gate |-> 1]]
-----------------------------------------------------------------------------
(* CapabilityLease::is_current, for an ordinary lease.                     *)
Valid(l) == /\ l.active
            /\ epochs[l.life].active
            /\ epochs[l.life].generation = l.generation

(* CapabilityEpoch::lease on the epoch the map names, as `eps` leaves it.  *)
Captured(eps) == [life |-> life, generation |-> eps[life].generation,
                  active |-> eps[life].active]

Advanced == [epochs EXCEPT ![life] =
               [generation |-> epochs[life].generation + 1, active |-> epochs[life].active]]
Quarantined == [epochs EXCEPT ![life] =
                  [generation |-> epochs[life].generation + 1, active |-> FALSE]]
Activated == [epochs EXCEPT ![life] =
                [generation |-> epochs[life].generation, active |-> TRUE]]

At(t, pc) == task[t].pc = pc
Become(t, next) == task' = [task EXCEPT ![t] = next]
Go(t, pc) == Become(t, [task[t] EXCEPT !.pc = pc])
Is(t, call) == task[t].call = call

(* The pcs at which a task holds a work lease: Room::working.              *)
Working(t) == \/ task[t].pc \in {"gate", "gated", "lock", "renew", "activate",
                                 "mark", "read", "open", "publish", "fail",
                                 "leave"}
              \/ /\ task[t].call \in {"swap", "rebuild"}
                 /\ task[t].pc \in {"swap", "settle"}
-----------------------------------------------------------------------------
(* A call that starts, swaps or rebuilds is refused while the desk is      *)
(* being updated.  A start captures its lease before it waits at the gate. *)
Ask(t, call) ==
  /\ At(t, "idle")
  /\ call \in {"start", "swap", "rebuild"}
  /\ ~installing
  /\ Become(t, [task[t] EXCEPT !.call = call, !.pc = "gate", !.gate = life,
                               !.lease = Captured(epochs)])
  /\ UNCHANGED <<policy, epochs, life, session, resting, gates, policyLock,
                 installing>>

TakeGate(t) ==
  /\ At(t, "gate")
  /\ gates[task[t].gate] = None
  /\ gates' = [gates EXCEPT ![task[t].gate] = t]
  /\ \/ Is(t, "start") /\ Go(t, "gated")
     \/ task[t].call \in {"swap", "rebuild"} /\ Go(t, "swap")
     \/ Is(t, "update") /\ Go(t, "lock")
  /\ UNCHANGED <<policy, epochs, life, session, resting, policyLock, installing>>

(* Mutant: the start does not look for a session that is already up.       *)
FindNothing(t) ==
  /\ At(t, "gated")
  /\ \/ Valid(task[t].lease) /\ Go(t, "mark")
     \/ ~Valid(task[t].lease) /\ Go(t, "leave")
  /\ UNCHANGED <<policy, epochs, life, session, resting, gates, policyLock,
                 installing>>

(* start, once through the gate: a session that is up is the answer.       *)
FindSession(t) ==
  /\ At(t, "gated")
  /\ \/ Valid(task[t].lease) /\ ~session.up /\ Go(t, "mark")
     \/ (~Valid(task[t].lease) \/ session.up) /\ Go(t, "leave")
  /\ UNCHANGED <<policy, epochs, life, session, resting, gates, policyLock,
                 installing>>

(* A remote seat's call is a future, dropped where it awaits when its      *)
(* socket is cut: here with nothing done that it would have undone.        *)
DropWaiting(t) ==
  /\ At(t, "policy") \/ (At(t, "gate") /\ ~Is(t, "update"))
  /\ Go(t, "refused")
  /\ UNCHANGED <<policy, epochs, life, session, resting, gates, policyLock,
                 installing>>

(* And here in the middle: an update before it reopened what it closed, or *)
(* an update or a swap that took the session down.  Guards it held go with *)
(* it.  A call dropped while its agent starts ends as BuildAgent's failure.*)
DropInside(t) ==
  /\ \/ Is(t, "update") /\ task[t].pc \in {"gate", "lock", "mark"}
     \/ Is(t, "swap") /\ task[t].pc \in {"swap", "mark"}
  /\ gates' = [gates EXCEPT ![task[t].gate] = IF @ = t THEN None ELSE @]
  /\ \/ task[t].pc \in {"gate", "lock"} /\ Go(t, "dropped")
     \/ task[t].pc \in {"swap", "mark"} /\ Go(t, "refused")
  /\ UNCHANGED <<policy, epochs, life, session, resting, policyLock, installing>>
-----------------------------------------------------------------------------
(* start_now, for whoever holds the gate and a lease.                      *)
MarkStarting(t) ==
  /\ At(t, "mark")
  /\ resting' = IF session.up THEN resting ELSE "starting"
  /\ Go(t, "read")
  /\ UNCHANGED <<policy, epochs, life, session, gates, policyLock, installing>>

ReadPersona(t) ==
  /\ At(t, "read")
  /\ \/ /\ Valid(task[t].lease)
        /\ policy # Gone
        /\ Become(t, [task[t] EXCEPT !.pc = "open", !.read = policy])
     \/ (~Valid(task[t].lease) \/ policy = Gone) /\ Go(t, "fail")
  /\ UNCHANGED <<policy, epochs, life, session, resting, gates, policyLock,
                 installing>>

(* The second check, then thread_agent: the agent is built and started, or *)
(* fails to, or the start is dropped while it waits for it.                *)
BuildAgent(t) ==
  /\ At(t, "open")
  /\ \/ Valid(task[t].lease) /\ Go(t, "publish")
     \/ Go(t, "fail")
  /\ UNCHANGED <<policy, epochs, life, session, resting, gates, policyLock,
                 installing>>

(* Under the lifecycle lock: the last check, and the session joins.        *)
Publish(t) ==
  /\ At(t, "publish")
  /\ \/ /\ Valid(task[t].lease)
        /\ session' = [up |-> TRUE, ready |-> TRUE, lease |-> task[t].lease,
                       policy |-> task[t].read, by |-> t]
        /\ resting' = "stopped"
        /\ Go(t, "leave")
     \/ /\ ~Valid(task[t].lease)
        /\ Go(t, "fail")
        /\ UNCHANGED <<session, resting>>
  /\ UNCHANGED <<policy, epochs, life, gates, policyLock, installing>>

(* Mutant: a start that fails leaves the band as it was.                   *)
EndStartingSilently(t) ==
  /\ At(t, "fail")
  /\ Go(t, "leave")
  /\ UNCHANGED <<policy, epochs, life, session, resting, gates, policyLock,
                 installing>>

EndStarting(t) ==
  /\ At(t, "fail")
  /\ resting' = IF session.up THEN resting ELSE "stopped"
  /\ Go(t, "leave")
  /\ UNCHANGED <<policy, epochs, life, session, gates, policyLock, installing>>

LeaveGate(t) ==
  /\ At(t, "leave")
  /\ gates' = [gates EXCEPT ![task[t].gate] = None]
  /\ Go(t, "done")
  /\ UNCHANGED <<policy, epochs, life, session, resting, policyLock, installing>>
-----------------------------------------------------------------------------
(* A person's stop takes no gate and no work lease.                        *)
AskStop(t) ==
  /\ At(t, "idle")
  /\ Become(t, [task[t] EXCEPT !.call = "stop", !.pc = "swap"])
  /\ UNCHANGED <<policy, epochs, life, session, resting, gates, policyLock,
                 installing>>

(* swap_out_unless_claimed's critical section: the session leaves the map, *)
(* its handles end and the replacement's authority is captured, at once.   *)
(* A rebuild with no session to replace only settles the band and leaves.  *)
SwapOut(t) ==
  /\ At(t, "swap")
  /\ Is(t, "swap") => session.up /\ Valid(session.lease)
  /\ epochs' = Advanced
  /\ session' = NoSession
  /\ Become(t, [task[t] EXCEPT !.lease = Captured(Advanced),
       !.pc = IF Is(t, "rebuild") /\ ~session.up THEN "fail" ELSE "settle"])
  /\ UNCHANGED <<policy, life, resting, gates, policyLock, installing>>

(* A message that finds no usable session, and a rebuild that finds the    *)
(* turn claimed, touch nothing.                                            *)
SwapRefused(t) ==
  /\ At(t, "swap")
  /\ \/ Is(t, "swap") /\ ~(session.up /\ Valid(session.lease))
     \/ Is(t, "rebuild") /\ session.up
  /\ Go(t, "leave")
  /\ UNCHANGED <<policy, epochs, life, session, resting, gates, policyLock,
                 installing>>

(* What follows the critical section: the band says stopped, unless a      *)
(* session has come up meanwhile.                                          *)
Settle(t) ==
  /\ At(t, "settle")
  /\ resting' = IF session.up THEN resting ELSE "stopped"
  /\ \/ task[t].call \in {"stop", "delete"} /\ Go(t, "end")
     \/ task[t].call \in {"swap", "rebuild"} /\ Go(t, "mark")
  /\ UNCHANGED <<policy, epochs, life, session, gates, policyLock, installing>>

(* stop_session's own advance of the epoch, after the swap.                *)
EndEpoch(t) ==
  /\ At(t, "end")
  /\ epochs' = Advanced
  /\ \/ Is(t, "stop") /\ Go(t, "done")
     \/ Is(t, "delete") /\ Go(t, "forget")
  /\ UNCHANGED <<policy, life, session, resting, gates, policyLock, installing>>
-----------------------------------------------------------------------------
(* A change to what the teammate may do, and its deletion.                 *)
AskChange(t, call) ==
  /\ At(t, "idle")
  /\ call \in {"update", "delete"}
  /\ Become(t, [task[t] EXCEPT !.call = call, !.pc = "policy"])
  /\ UNCHANGED <<policy, epochs, life, session, resting, gates, policyLock,
                 installing>>

TakePolicyLock(t) ==
  /\ policyLock = None
  /\ policyLock' = t
  /\ \/ At(t, "policy") /\ Go(t, "revise")
     \/ At(t, "lock") /\ Go(t, "renew")
  /\ UNCHANGED <<policy, epochs, life, session, resting, gates, installing>>

(* Mutant: the update ends the old handles and leaves the epoch open.      *)
InvalidateLeavingOpen == /\ epochs' = Advanced
                         /\ session' = [session EXCEPT !.ready = FALSE]

(* Room::invalidate: close the epoch, revoke the session, keep its record. *)
InvalidateRoom == /\ epochs' = Quarantined
                  /\ session' = [session EXCEPT !.ready = FALSE]

(* update_persona and delete_persona before the append.                    *)
Revise(t) ==
  /\ At(t, "revise")
  /\ \/ /\ policy # Gone
        /\ InvalidateRoom
        /\ Go(t, "append")
        /\ UNCHANGED policyLock
     \/ /\ policy = Gone
        /\ policyLock' = None
        /\ Go(t, "refused")
        /\ UNCHANGED <<epochs, session>>
  /\ UNCHANGED <<policy, life, resting, gates, installing>>

(* Mutant: an update keeps the policy lock while it reattaches.            *)
AppendHoldingLock(t) ==
  /\ At(t, "append")
  /\ \/ Is(t, "update") /\ policy' = policy + 1 /\ Go(t, "reattach")
     \/ Is(t, "delete") /\ policy' = Gone /\ Go(t, "swap")
  /\ UNCHANGED <<epochs, life, session, resting, gates, policyLock, installing>>

(* The durable append.  An update lets the policy lock go before it        *)
(* reattaches; a deletion keeps it until the id is forgotten.              *)
Append(t) ==
  /\ At(t, "append")
  /\ \/ /\ Is(t, "update")
        /\ policy' = policy + 1
        /\ policyLock' = None
        /\ Go(t, "reattach")
     \/ /\ Is(t, "delete")
        /\ policy' = Gone
        /\ Go(t, "swap")
        /\ UNCHANGED policyLock
  /\ UNCHANGED <<epochs, life, session, resting, gates, installing>>

AppendFails(t) ==
  /\ At(t, "append")
  /\ policyLock' = None
  /\ Go(t, "unwritten")
  /\ UNCHANGED <<policy, epochs, life, session, resting, gates, installing>>

(* reattach asks for a work lease, and is refused while an update of the   *)
(* desk is being installed.                                                *)
AskReattach(t) ==
  /\ At(t, "reattach")
  /\ \/ installing /\ Go(t, "turned")
     \/ /\ ~installing
        /\ Become(t, [task[t] EXCEPT !.pc = "gate", !.gate = life])
  /\ UNCHANGED <<policy, epochs, life, session, resting, gates, policyLock,
                 installing>>

(* reattach_held, holding the gate and then the policy lock.               *)
ReattachInvalidate(t) ==
  /\ At(t, "renew")
  /\ \/ /\ policy # Gone
        /\ InvalidateRoom
        /\ Go(t, "activate")
        /\ UNCHANGED policyLock
     \/ /\ policy = Gone
        /\ policyLock' = None
        /\ Go(t, "leave")
        /\ UNCHANGED <<epochs, session>>
  /\ UNCHANGED <<policy, life, resting, gates, installing>>

ReattachActivate(t) ==
  /\ At(t, "activate")
  /\ epochs' = Activated
  /\ session' = NoSession
  /\ resting' = IF session.up THEN "stopped" ELSE resting
  /\ policyLock' = None
  /\ Become(t, [task[t] EXCEPT !.lease = Captured(Activated),
                               !.pc = IF session.up THEN "mark" ELSE "leave"])
  /\ UNCHANGED <<policy, life, gates, installing>>

(* forget: the maps let go of the epoch and the gate.                      *)
Forget(t) ==
  /\ At(t, "forget")
  /\ life' = 2
  /\ policyLock' = None
  /\ Go(t, "done")
  /\ UNCHANGED <<policy, epochs, session, resting, gates, installing>>
-----------------------------------------------------------------------------
(* prepare_restart is refused while anything holds a work lease, and is    *)
(* undone when the installation fails.                                     *)
PrepareRestart == /\ ~installing
                  /\ \A t \in Tasks : ~Working(t)
                  /\ installing' = TRUE
                  /\ UNCHANGED <<policy, epochs, life, session, resting, gates,
                                 policyLock, task>>

InstallFails == /\ installing
                /\ installing' = FALSE
                /\ UNCHANGED <<policy, epochs, life, session, resting, gates,
                               policyLock, task>>

(* The ways a policy change stops short of reopening what it closed.       *)
Short(t) == task[t].pc \in {"unwritten", "turned", "dropped"}

Ended(t) == task[t].pc \in {"done", "refused"} \/ Short(t)

(* Nobody is calling any more.                                             *)
Quiet == (\A t \in Tasks : Ended(t)) /\ UNCHANGED vars

StartStep(t) == \/ TakeGate(t) \/ FindSession(t) \/ MarkStarting(t)
                \/ ReadPersona(t) \/ BuildAgent(t) \/ Publish(t)
                \/ EndStarting(t) \/ LeaveGate(t)
StopStep(t) == SwapOut(t) \/ SwapRefused(t) \/ Settle(t) \/ EndEpoch(t)
ChangeStep(t) == \/ TakePolicyLock(t) \/ Revise(t) \/ Append(t)
                 \/ AppendFails(t) \/ AskReattach(t) \/ ReattachInvalidate(t)
                 \/ ReattachActivate(t) \/ Forget(t)
Step(t) == StartStep(t) \/ StopStep(t) \/ ChangeStep(t)

Next == \/ \E t \in Tasks : \/ \E call \in Calls : Ask(t, call)
                            \/ AskStop(t)
                            \/ \E call \in Calls : AskChange(t, call)
                            \/ DropWaiting(t) \/ DropInside(t)
                            \/ Step(t)
        \/ PrepareRestart \/ InstallFails \/ Quiet

Spec == Init /\ [][Next]_vars

(* A task that can run does, and the tokio locks are fair queues.  Being   *)
(* dropped is no Step: nothing keeps a remote's call from it.              *)
Fairness == \A t \in Tasks : SF_vars(Step(t))

FairSpec == Spec /\ Fairness
-----------------------------------------------------------------------------
Pcs == {"idle", "gate", "gated", "mark", "read", "open", "publish", "fail",
        "leave", "swap", "settle", "end", "policy", "revise", "append",
        "reattach", "lock", "renew", "activate", "forget", "done", "refused",
        "unwritten", "turned", "dropped"}

Task == [call : Calls \cup {"none"}, pc : Pcs, lease : SessionLease, read : Nat,
         gate : Lives]
Session == [up : BOOLEAN, ready : BOOLEAN, lease : SessionLease, policy : Nat,
            by : Tasks \cup {None}]
Epochs == [Lives -> [generation : Nat, active : BOOLEAN]]

TypeOK ==
  /\ policy \in Nat \cup {Gone}
  /\ epochs \in Epochs
  /\ life \in Lives
  /\ session \in Session
  /\ resting \in {"stopped", "starting"}
  /\ gates \in [Lives -> Tasks \cup {None}]
  /\ policyLock \in Tasks \cup {None}
  /\ installing \in BOOLEAN
  /\ task \in [Tasks -> Task]

(* A session whose handles still work was built from the record that is    *)
(* durable now: no start, swap or rebuild that races a policy update or a  *)
(* deletion, wherever it was when the update began, can publish the old    *)
(* policy in a usable lease (CapabilityEpoch, start_now_inner).            *)
NoStalePolicy ==
  session.up /\ Valid(session.lease) => session.policy = policy

(* A session joins only an empty place: one that is up is never replaced   *)
(* in the map by another, which would leave its agent running with nobody  *)
(* able to stop it (Room::start, start_gate).                              *)
NoAgentOrphaned == [][session.up /\ session'.up => session'.by = session.by]_vars

(* The band says "starting" only while a start is under way; a start that  *)
(* failed, was refused or was dropped, and a stop that crossed it, leave   *)
(* it saying so (Ending, end_starting, swap_out_unless_claimed).           *)
StartingHasAStart ==
  resting = "starting" =>
    \E t \in Tasks : task[t].pc \in {"read", "open", "publish", "fail"}

(* A quarantine is lifted, unless the teammate is gone or a policy change  *)
(* stopped short: its record was not written, its reattach was refused, or *)
(* its remote's socket was cut before it reopened (reattach_held).         *)
QuarantineEnds ==
  ~epochs[life].active ~> \/ epochs[life].active
                          \/ policy = Gone
                          \/ \E t \in Tasks : Short(t)

(* Every call comes to an end: the start gate and the policy lock are      *)
(* taken in an order that nobody can be stuck on (policy_update_lock).     *)
CallsEnd == \A t \in Tasks : ~At(t, "idle") ~> Ended(t)

(* What the room shows of a start is so: its parts are what they can be,   *)
(* and it is not left saying "starting" (swap_out_unless_claimed).         *)
BandIsTrue == TypeOK /\ StartingHasAStart

(* Nothing hangs: no call waits for ever on a gate or a lock, whoever was  *)
(* dropped beside it, and none that runs its course leaves the teammate    *)
(* quarantined (reattach_held, update_config).                             *)
NothingHangs == QuarantineEnds /\ CallsEnd

=============================================================================
