----------------------------- MODULE Computers -----------------------------
(***************************************************************************)
(* One teammate's computer and the agents that share it: the container of  *)
(* Container behind the gates of ComputerGate, and the room's sweep        *)
(* (crates/hotline-core/src/session/computer.rs, session/chapters.rs).     *)
(*                                                                         *)
(* An agent's start brings the container up (grant_computer) and puts a    *)
(* gate in front of it; the sweep asks the sessions and the gate's lease   *)
(* who is using it; the person stops and removes it; the desk restarts.    *)
(***************************************************************************)
EXTENDS ComputerGate, Container

CONSTANTS Mains,   \* the agents that are the teammate's own session
          Person   \* the person at the pane

ASSUME CallersAssumption ==
  /\ Callers = Agents \cup {Person} /\ Person \notin Agents
  /\ Mains \subseteq Agents

vars == <<gateVars, containerVars>>

Init == GateInit /\ ContainerInit

(* sweep_computers: a session of the teammate's own is up, or the gate's   *)
(* lease is held.                                                          *)
InUse == (\E a \in Mains : gate[a] = "open" /\ alive[a]) \/ held # None

(* grant_computer, computer_at_start: one start of an agent.               *)
Grant(a) == /\ alive[a] /\ gate[a] = "none"
            /\ EnsureRunning(a)
            /\ UNCHANGED gateVars

(* finish_grant: the computer is up, and the agent is handed its gate.     *)
FinishGrant(a) == /\ AtJob(a, "ready")
                  /\ Serve(a)
                  /\ Does(a, "rest")
                  /\ UNCHANGED <<box, live, looked, turn, sweeper, clock,
                                 bearers>>

(* The person's keys in the pane: computer_stop and computer_remove.  What *)
(* else brings the computer up from there (computer_cookies_push) does it  *)
(* as an agent's start does.                                               *)
Pane == (Stop(Person) \/ Remove(Person)) /\ UNCHANGED gateVars

(* An agent ends; with a session of the teammate's own the idle clock      *)
(* starts over.                                                            *)
End(a) == /\ Revoke(a)
          /\ IF a \in Mains /\ gate[a] = "open" THEN MarkIdle
             ELSE UNCHANGED clock
          /\ UNCHANGED <<box, live, looked, turn, job, sweeper, bearers>>

(* The room's maintenance, one round of it at a time.                      *)
Sweep == \/ Adopt /\ UNCHANGED gateVars
         \/ SweepLists(InUse) /\ UNCHANGED gateVars
         \/ SweepStep /\ UNCHANGED gateVars

(* Everything the process kept is gone; what it asked of the computer is   *)
(* cut off.                                                                *)
Restart == /\ DeskRestarts
           /\ NoEntry
           /\ at' = [c \in Calls |-> "out"]
           /\ by' = [c \in Calls |-> None]
           /\ alive' = [a \in Agents |-> TRUE]
           /\ gate' = [a \in Agents |-> "none"]

CallsGo == /\ \E c \in Calls : \/ \E a \in Agents : Arrive(c, a)
                               \/ CallStep(c) \/ Busy(c) \/ HangUp(c)
           /\ UNCHANGED containerVars

GatesGo == /\ (\E a \in Agents : Release(a) \/ GateEnds(a)) \/ IdlePasses
           /\ UNCHANGED containerVars

World == (TimePasses \/ Edited \/ Dies) /\ UNCHANGED gateVars

Next == \/ \E a \in Agents : Grant(a) \/ FinishGrant(a) \/ End(a)
        \/ \E x \in Callers : JobStep(x) /\ UNCHANGED gateVars
        \/ CallsGo \/ GatesGo \/ Pane \/ Sweep \/ World \/ Restart

Spec == Init /\ [][Next]_vars

-----------------------------------------------------------------------------
TypeOK == GateTypeOK /\ ContainerTypeOK

(* The computer is driven by its holder alone, for as long as the holder   *)
(* has a call in flight, and by nobody whose gate has ended (gate.rs).     *)
GateIsTrue == OneDriver /\ CountIsTrue /\ EndedHoldsNothing

(* Each part of the gate and the container is what it can be, and what the *)
(* desk knows of the container is what the container is (computer.rs).     *)
ContainerIsTrue == TypeOK /\ BearerIsTrue /\ ReadIsTrue
=============================================================================
