-------------------------- MODULE ComputersProofs --------------------------
(***************************************************************************)
(* The lease of ComputerGate and the container, in the whole of Computers, *)
(* for any agents, any finite set of calls, any callers and any number of  *)
(* bearers.                                                                *)
(*                                                                         *)
(* The lease: the count and the driver are inductive together with where   *)
(* each call's maker is: a call at a gate belongs to an agent whose gate   *)
(* is open, so a gate that has ended has nothing left that could take it.  *)
(***************************************************************************)
EXTENDS Computers, FiniteSetTheorems, TLAPS

(* Every call at a gate has a maker, and the maker's gate still listens.   *)
MadeAtOpenGate ==
  \A c \in Calls : IF at[c] = "out" THEN by[c] = None
                   ELSE by[c] \in Agents /\ gate[by[c]] = "open"

IInv == /\ GateTypeOK
        /\ MadeAtOpenGate
        /\ OneDriver
        /\ CountIsTrue
        /\ EndedHoldsNothing

LEMMA LiveIsFinite == IsFiniteSet(Live) /\ Cardinality(Live) \in Nat
  <1>1. Live \subseteq Calls
    BY DEF Live
  <1> QED
    BY <1>1, CallsAssumption, FS_Subset, FS_CardinalityType

LEMMA NobodyLive == Live = {} <=> Cardinality(Live) = 0
  BY LiveIsFinite, FS_EmptySet

(* A call that takes the computer is one more that has not ended.          *)
LEMMA TakenAddsOne ==
  ASSUME GateTypeOK, NEW c \in Calls, at[c] = "waiting", Goes(c, "granted")
  PROVE  /\ Live' = Live \cup {c}
         /\ c \notin Live
         /\ Cardinality(Live') = Cardinality(Live) + 1
  <1>1. /\ Live' = Live \cup {c}
        /\ c \notin Live
    BY DEF Live, Goes, GateTypeOK
  <1> QED
    BY <1>1, LiveIsFinite, FS_AddElement

(* A call that ends is one fewer.                                          *)
LEMMA EndedTakesOne ==
  ASSUME GateTypeOK, NEW c \in Live, Leaves(c)
  PROVE  /\ Live' = Live \ {c}
         /\ Cardinality(Live') = Cardinality(Live) - 1
  <1>1. Live' = Live \ {c}
    BY DEF Live, Leaves, GateTypeOK
  <1> QED
    BY <1>1, LiveIsFinite, FS_RemoveElement

(* Moves that leave the set of calls that got through alone.               *)
LEMMA SameLive ==
  ASSUME GateTypeOK, NEW c \in Calls, c \notin Live,
         \/ Leaves(c)
         \/ \E a \in Agents : at' = [at EXCEPT ![c] = "waiting"]
  PROVE  Live' = Live
  BY DEF Live, Leaves, GateTypeOK

LEMMA SentIsLive ==
  ASSUME GateTypeOK, NEW c \in Calls, at[c] = "granted", Goes(c, "sent")
  PROVE  Live' = Live
  BY DEF Live, Goes, GateTypeOK

LEMMA DropKeeps ==
  ASSUME IInv, NEW c \in Live, Drop(c), Leaves(c), UNCHANGED agentVars
  PROVE  IInv'
  <1>1. c \in Calls /\ by[c] = held /\ held # None /\ held \in Agents
    BY DEF IInv, OneDriver, MadeAtOpenGate, Live, GateTypeOK, CountIsTrue
  <1>2. inFlight = Cardinality(Live) /\ inFlight >= 1
    BY <1>1, NobodyLive, LiveIsFinite DEF IInv, CountIsTrue, GateTypeOK
  <1>3. Live' = Live \ {c} /\ Cardinality(Live') = inFlight - 1
    BY <1>2, EndedTakesOne DEF IInv
  <1>4. CASE released /\ inFlight <= 1
    <2>1. held' = None /\ inFlight' = 0 /\ released' = FALSE /\ idle' = FALSE
      BY <1>1, <1>4 DEF Drop, NoEntry
    <2>2. Cardinality(Live') = 0
      BY <1>2, <1>3, <1>4 DEF IInv, GateTypeOK
    <2>3. Live' = {}
      <3>1. IsFiniteSet(Live \ {c})
        BY LiveIsFinite, FS_Subset
      <3>2. Cardinality(Live \ {c}) = 0
        BY <1>3, <2>2
      <3>3. Live \ {c} = {}
        BY <3>1, <3>2, FS_EmptySet
      <3> QED
        BY <1>3, <3>3
    <2>4. GateTypeOK'
      BY <2>1 DEF IInv, GateTypeOK, Leaves, agentVars
    <2>5. MadeAtOpenGate'
      BY DEF IInv, MadeAtOpenGate, Leaves, agentVars, GateTypeOK
    <2>6. EndedHoldsNothing'
      BY <2>1, NobodyAssumption DEF EndedHoldsNothing
    <2> QED
      BY <2>1, <2>3, <2>4, <2>5, <2>6 DEF IInv, OneDriver, CountIsTrue
  <1>5. CASE ~(released /\ inFlight <= 1)
    <2>1. held' = held /\ inFlight' = inFlight - 1 /\ released' = released
          /\ idle' = FALSE
      BY <1>1, <1>2, <1>5 DEF Drop, IInv, GateTypeOK
    <2>2. GateTypeOK'
      <3>1. released' \in BOOLEAN /\ idle' \in BOOLEAN
        BY <2>1, ZenonT(60) DEF IInv, GateTypeOK
      <3>2. inFlight' \in Nat /\ held' \in Agents \cup {None}
        BY <1>2, <2>1 DEF IInv, GateTypeOK
      <3>3. /\ at' \in [Calls -> {"out", "waiting", "granted", "sent"}]
            /\ by' \in [Calls -> Agents \cup {None}]
        BY DEF IInv, GateTypeOK, Leaves
      <3>4. /\ alive' \in [Agents -> BOOLEAN]
            /\ gate' \in [Agents -> {"none", "open", "shut"}]
        BY DEF IInv, GateTypeOK, agentVars
      <3> QED
        BY <3>1, <3>2, <3>3, <3>4 DEF GateTypeOK
    <2>3. MadeAtOpenGate'
      BY DEF IInv, MadeAtOpenGate, Leaves, agentVars, GateTypeOK
    <2>4. OneDriver'
      BY <1>3, <2>1 DEF IInv, OneDriver, Leaves, Live, GateTypeOK
    <2>5. EndedHoldsNothing'
      BY <2>1 DEF IInv, EndedHoldsNothing, agentVars
    <2> QED
      BY <1>1, <1>3, <2>1, <2>2, <2>3, <2>4, <2>5 DEF IInv, CountIsTrue
  <1> QED
    BY <1>4, <1>5

LEMMA TakeKeeps ==
  ASSUME IInv, NEW c \in Calls, Take(c)
  PROVE  IInv'
  <1>1. /\ at[c] = "waiting" /\ by[c] \in Agents /\ gate[by[c]] = "open"
        /\ Goes(c, "granted") /\ by' = by /\ alive' = alive /\ gate' = gate
    BY DEF IInv, Take, Is, MadeAtOpenGate, agentVars
  <1>2. /\ Live' = Live \cup {c}
        /\ c \notin Live
        /\ Cardinality(Live') = Cardinality(Live) + 1
    BY <1>1, TakenAddsOne DEF IInv
  <1>3. /\ held' = by[c]
        /\ inFlight' = Cardinality(Live) + 1
        /\ Live # {} => held = by[c]
    <2>1. CASE TakeFree(c)
      <3>1. held = None /\ held' = by[c] /\ inFlight' = 1
        BY <2>1 DEF TakeFree
      <3>2. Live = {}
        BY <3>1 DEF IInv, CountIsTrue
      <3>3. Cardinality(Live) = 0
        BY <3>2, NobodyLive
      <3> QED
        BY <3>1, <3>2, <3>3
    <2>2. CASE TakeAgain(c)
      BY <1>1, <2>2, NobodyAssumption
         DEF TakeAgain, IInv, CountIsTrue, GateTypeOK
    <2>3. CASE TakeIdle(c)
      <3>1. held # None /\ inFlight = 0 /\ held' = by[c] /\ inFlight' = 1
        BY <2>3 DEF TakeIdle
      <3>2. Cardinality(Live) = 0
        BY <3>1 DEF IInv, CountIsTrue
      <3>3. Live = {}
        BY <3>2, NobodyLive
      <3> QED
        BY <3>1, <3>2, <3>3
    <2> QED
      BY <2>1, <2>2, <2>3 DEF Take
  <1>8. released' \in BOOLEAN /\ idle' \in BOOLEAN
    BY Zenon DEF Take, TakeFree, TakeAgain, TakeIdle, IInv, GateTypeOK
  <1>4. GateTypeOK'
    BY <1>1, <1>3, <1>8, LiveIsFinite DEF IInv, GateTypeOK, Goes
  <1>5. MadeAtOpenGate'
    BY <1>1 DEF IInv, MadeAtOpenGate, Goes, GateTypeOK
  <1>6. OneDriver'
    BY <1>1, <1>2, <1>3 DEF IInv, OneDriver
  <1>7. EndedHoldsNothing'
    BY <1>1, <1>3 DEF EndedHoldsNothing
  <1> QED
    BY <1>1, <1>2, <1>3, <1>4, <1>5, <1>6, <1>7, NobodyAssumption
       DEF IInv, CountIsTrue

(* Leases::release, from a turn that ended or from a gate that did.        *)
LEMMA LetGoKeeps ==
  ASSUME IInv, NEW a \in Agents, LetGo(a), UNCHANGED <<at, by, alive>>,
         \/ gate' = gate
         \/ /\ gate' = [gate EXCEPT ![a] = "shut"]
            /\ \A c \in Calls : by[c] # a
  PROVE  IInv'
  <1>1. Live' = Live
    BY DEF Live
  <1>2. MadeAtOpenGate'
    BY DEF IInv, MadeAtOpenGate, GateTypeOK
  <1>3. CASE held # a
    BY <1>1, <1>2, <1>3
       DEF LetGo, leaseVars, IInv, GateTypeOK, OneDriver, CountIsTrue,
           EndedHoldsNothing
  <1>4. CASE held = a /\ inFlight > 0
    <2>1. Live # {}
      <3>1. Cardinality(Live) # 0
        BY <1>4, NobodyAssumption DEF IInv, CountIsTrue
      <3> QED
        BY <3>1, NobodyLive
    <2>2. \E c \in Calls : by[c] = a
      BY <1>4, <2>1 DEF IInv, OneDriver, Live
    <2> QED
      BY <1>1, <1>2, <1>4, <2>2
         DEF LetGo, IInv, GateTypeOK, OneDriver, CountIsTrue,
             EndedHoldsNothing
  <1>5. CASE held = a /\ ~(inFlight > 0)
    <2>1. held' = None /\ inFlight' = 0 /\ released' = FALSE /\ idle' = FALSE
      BY <1>5 DEF LetGo, NoEntry
    <2>2. Cardinality(Live) = 0
      BY <1>5, NobodyAssumption DEF IInv, CountIsTrue, GateTypeOK
    <2>3. Live' = {}
      BY <1>1, <2>2, NobodyLive
    <2>4. GateTypeOK'
      BY <2>1 DEF IInv, GateTypeOK
    <2>5. EndedHoldsNothing'
      BY <2>1, NobodyAssumption DEF EndedHoldsNothing
    <2> QED
      BY <1>2, <2>1, <2>3, <2>4, <2>5 DEF IInv, OneDriver, CountIsTrue
  <1> QED
    BY <1>3, <1>4, <1>5

(* What changes only where a call is, and leaves the lease alone.          *)
LEMMA CallKeeps ==
  ASSUME IInv, NEW c \in Calls, UNCHANGED <<leaseVars, agentVars>>,
         \/ \E a \in Agents : Arrive(c, a)
         \/ at[c] = "waiting" /\ Leaves(c)
         \/ Forward(c)
  PROVE  IInv'
  <1>1. Live' = Live /\ MadeAtOpenGate' /\ GateTypeOK'
        /\ \A d \in Live : by'[d] = by[d]
    <2>1. CASE \E a \in Agents : Arrive(c, a)
      BY <2>1 DEF Arrive, Is, Live, IInv, MadeAtOpenGate, GateTypeOK, leaseVars,
                  agentVars
    <2>2. CASE at[c] = "waiting" /\ Leaves(c)
      BY <2>2 DEF Leaves, Live, IInv, MadeAtOpenGate, GateTypeOK, leaseVars,
                  agentVars
    <2>3. CASE Forward(c)
      BY <2>3 DEF Forward, Is, Goes, Live, IInv, MadeAtOpenGate, GateTypeOK,
                  leaseVars, agentVars
    <2> QED
      BY <2>1, <2>2, <2>3
  <1> QED
    BY <1>1 DEF IInv, OneDriver, CountIsTrue, EndedHoldsNothing, leaseVars,
                agentVars

LEMMA CallStepKeeps ==
  ASSUME IInv, NEW c \in Calls,
         \/ \E a \in Agents : Arrive(c, a)
         \/ CallStep(c) \/ Busy(c) \/ HangUp(c)
  PROVE  IInv'
  <1>1. CASE \E a \in Agents : Arrive(c, a)
    BY <1>1, CallKeeps DEF Arrive
  <1>2. CASE Take(c)
    BY <1>2, TakeKeeps
  <1>3. CASE Revoked(c) \/ Busy(c)
    BY <1>3, CallKeeps DEF Revoked, Busy, Is
  <1>4. CASE Forward(c)
    BY <1>4, CallKeeps DEF Forward
  <1>5. CASE TurnedBack(c) \/ Answered(c)
    <2>1. c \in Live
      BY <1>5 DEF TurnedBack, Answered, Is, Live
    <2> QED
      BY <1>5, <2>1, DropKeeps DEF TurnedBack, Answered
  <1>6. CASE HangUp(c)
    <2>1. CASE at[c] = "waiting"
      BY <1>6, <2>1, CallKeeps DEF HangUp, Is
    <2>2. CASE at[c] # "waiting"
      <3>1. c \in Live
        BY <1>6, <2>2 DEF HangUp, Live, IInv, GateTypeOK
      <3> QED
        BY <1>6, <2>2, <3>1, DropKeeps DEF HangUp, Is
    <2> QED
      BY <2>1, <2>2
  <1> QED
    BY <1>1, <1>2, <1>3, <1>4, <1>5, <1>6 DEF CallStep

(* Moves of the agents and of the clock, which leave every call alone.     *)
LEMMA AgentKeeps ==
  ASSUME IInv, UNCHANGED <<at, by>>,
         \/ \E a \in Agents : Serve(a) \/ Revoke(a)
         \/ IdlePasses
  PROVE  IInv'
  <1>1. Live' = Live
    BY DEF Live
  <1>2. CASE \E a \in Agents : Serve(a)
    BY <1>1, <1>2 DEF Serve, IInv, GateTypeOK, MadeAtOpenGate, OneDriver,
                      CountIsTrue, EndedHoldsNothing, leaseVars
  <1>3. CASE \E a \in Agents : Revoke(a)
    BY <1>1, <1>3 DEF Revoke, IInv, GateTypeOK, MadeAtOpenGate, OneDriver,
                      CountIsTrue, EndedHoldsNothing, leaseVars
  <1>4. CASE IdlePasses
    BY <1>1, <1>4 DEF IdlePasses, IInv, GateTypeOK, MadeAtOpenGate, OneDriver,
                      CountIsTrue, EndedHoldsNothing, agentVars
  <1> QED
    BY <1>2, <1>3, <1>4

LEMMA StillKeeps == IInv /\ UNCHANGED gateVars => IInv'
  BY DEF gateVars, IInv, GateTypeOK, MadeAtOpenGate, OneDriver, CountIsTrue,
         EndedHoldsNothing, Live

(* A desk that has just started: nobody holds, calls or listens.           *)
LEMMA FreshHolds ==
  ASSUME held = None, inFlight = 0, released = FALSE, idle = FALSE,
         at = [c \in Calls |-> "out"], by = [c \in Calls |-> None],
         alive = [a \in Agents |-> TRUE], gate = [a \in Agents |-> "none"]
  PROVE  IInv
  <1>1. Live = {}
    BY DEF Live
  <1> QED
    BY <1>1 DEF IInv, GateTypeOK, MadeAtOpenGate, OneDriver, CountIsTrue,
                EndedHoldsNothing

LEMMA RestartHolds == Restart => IInv'
  <1>1. SUFFICES ASSUME Restart PROVE IInv'
    OBVIOUS
  <1>2. Live' = {}
    BY <1>1 DEF Restart, Live
  <1> QED
    BY <1>1, <1>2 DEF Restart, NoEntry, IInv, GateTypeOK, MadeAtOpenGate,
                      OneDriver, CountIsTrue, EndedHoldsNothing

LEMMA NextKeeps == IInv /\ [Next]_vars => IInv'
  <1> SUFFICES ASSUME IInv, [Next]_vars PROVE IInv'
    OBVIOUS
  <1>1. CASE \E a \in Agents : FinishGrant(a)
    BY <1>1, AgentKeeps DEF FinishGrant, Serve
  <1>2. CASE \E a \in Agents : End(a)
    BY <1>2, AgentKeeps DEF End, Revoke
  <1>3. CASE CallsGo
    BY <1>3, CallStepKeeps DEF CallsGo
  <1>4. CASE GatesGo
    <2>1. CASE \E a \in Agents : Release(a)
      BY <2>1, LetGoKeeps DEF Release, agentVars
    <2>2. CASE \E a \in Agents : GateEnds(a)
      BY <2>2, LetGoKeeps DEF GateEnds
    <2>3. CASE IdlePasses
      BY <2>3, AgentKeeps DEF IdlePasses
    <2> QED
      BY <1>4, <2>1, <2>2, <2>3 DEF GatesGo
  <1>5. CASE Restart
    BY <1>5, RestartHolds
  <1>6. CASE UNCHANGED gateVars
    BY <1>6, StillKeeps
  <1> QED
    BY <1>1, <1>2, <1>3, <1>4, <1>5, <1>6
       DEF Next, Grant, Pane, Sweep, World, vars, gateVars

(* The invariant that the three parts need of one another.                 *)
LEMMA LeaseInvariant == Spec => []IInv
  <1>1. Init => IInv
    BY FreshHolds DEF Init, GateInit
  <1> QED
    BY <1>1, NextKeeps, PTL DEF Spec

(* Two agents never drive one computer at once, through every release,     *)
(* takeover, revocation and restart (gate.rs, Leases).                     *)
THEOREM NeverTwoDrivers == Spec => []OneDriver
  BY LeaseInvariant, PTL DEF IInv

(* The lease's count is the number of the holder's calls that have not     *)
(* ended, so it is given up when the last of them ends and no sooner       *)
(* (gate.rs, Call::drop).                                                  *)
THEOREM CountAlwaysTrue == Spec => []CountIsTrue
  BY LeaseInvariant, PTL DEF IInv

(* A gate that ended has given the computer back for good (gate.rs, serve).*)
THEOREM EndedNeverHolds == Spec => []EndedHoldsNothing
  BY LeaseInvariant, PTL DEF IInv

(* The computer is driven by its holder alone, for as long as the holder   *)
(* has a call in flight, and by nobody whose gate has ended (gate.rs).     *)
THEOREM GateAlwaysTrue == Spec => []GateIsTrue
  <1>1. IInv => GateIsTrue
    BY DEF IInv, GateIsTrue
  <1> QED
    BY <1>1, LeaseInvariant, PTL
-----------------------------------------------------------------------------
(***************************************************************************)
(* The container: what the desk knows of it is what it is.                 *)
(*                                                                         *)
(* Everything follows from turn_of.  What a caller read of the container,  *)
(* and the bearer it will make one with or publish, stay true until it     *)
(* acts, because only the holder of the lock touches the container or the  *)
(* entry in between; and an entry always has a bearer, so that a container *)
(* nobody can talk to is told from one the desk knows.                     *)
(***************************************************************************)
(* A caller past turn_of, and a sweep at work on the computer, hold it.    *)
Held == {"inspect", "make", "insert", "healthy", "stop", "rm"}

HoldsTurn == /\ \A x \in Callers : job[x].pc \in Held => turn = x
             /\ sweeper.pc = "sweeping" => turn = "sweep"

EntryHasBearer == live.known <=> live.token # Nobody

BearerAgrees == live.known /\ box.exists => live.token = box.token

(* The bearer a caller is about to make a container with, or to publish.   *)
MakerAgrees ==
  \A x \in Callers : job[x].pc \in {"make", "insert"} =>
    /\ job[x].token # Nobody
    /\ live.known => live.token = job[x].token
    /\ box.exists => box.token = job[x].token

Facts == EntryHasBearer /\ BearerAgrees /\ MakerAgrees /\ ReadIsTrue

CInv == ContainerTypeOK /\ HoldsTurn /\ Facts

(* What the container, the entry and a caller can be.                      *)
Boxes == [exists : BOOLEAN, running : BOOLEAN,
          token : 1..MaxBearer \cup {Nobody}, fits : BOOLEAN]
Entries == [known : BOOLEAN, token : 1..MaxBearer \cup {Nobody}]
CallerStates == [pc : {"rest", "inspect", "make", "insert", "healthy", "ready",
                       "stop", "rm"},
                 token : 1..MaxBearer \cup {Nobody}, create : BOOLEAN]

LEMMA Sorts ==
  /\ Absent \in Boxes
  /\ \A b \in Boxes : \A r \in BOOLEAN : [b EXCEPT !.running = r] \in Boxes
  /\ \A b \in Boxes : [b EXCEPT !.fits = FALSE] \in Boxes
  /\ Unknown \in Entries
  /\ \A pc \in {"rest", "inspect", "healthy", "ready", "stop", "rm"} :
       [Resting EXCEPT !.pc = pc] \in CallerStates
  <1>1. Absent \in Boxes /\ Unknown \in Entries
    BY DEF Absent, Boxes, Unknown, Entries
  <1>2. \A b \in Boxes : \A r \in BOOLEAN : [b EXCEPT !.running = r] \in Boxes
    BY DEF Boxes
  <1>3. \A b \in Boxes : [b EXCEPT !.fits = FALSE] \in Boxes
    BY DEF Boxes
  <1>4. \A pc \in {"rest", "inspect", "healthy", "ready", "stop", "rm"} :
          [Resting EXCEPT !.pc = pc] \in CallerStates
    <2>1. Resting \in CallerStates
      BY DEF Resting, CallerStates
    <2> QED
      BY <2>1 DEF CallerStates
  <1> QED
    BY <1>1, <1>2, <1>3, <1>4, ZenonT(60)

LEMMA SortsHold ==
  ASSUME CInv
  PROVE  /\ box \in Boxes /\ live \in Entries
         /\ job \in [Callers -> CallerStates]
  BY DEF CInv, ContainerTypeOK, Boxes, Entries, CallerStates

LEMMA TypeKeeps ==
  ASSUME box' \in Boxes, live' \in Entries, looked' \in BOOLEAN,
         turn' \in Callers \cup {"sweep", Nobody},
         job' \in [Callers -> CallerStates],
         sweeper' \in [pc : {"rest", "listed", "sweeping"},
                       age : {"new", "idle", "old"}],
         clock' \in {"new", "idle", "old"}, bearers' \in 0..MaxBearer
  PROVE  ContainerTypeOK'
  <1>1. /\ box' \in [exists : BOOLEAN, running : BOOLEAN,
                     token : 1..MaxBearer \cup {Nobody}, fits : BOOLEAN]
        /\ live' \in [known : BOOLEAN, token : 1..MaxBearer \cup {Nobody}]
        /\ job' \in [Callers -> [pc : {"rest", "inspect", "make", "insert",
                                       "healthy", "ready", "stop", "rm"},
                                 token : 1..MaxBearer \cup {Nobody},
                                 create : BOOLEAN]]
    BY DEF Boxes, Entries, CallerStates
  <1> QED
    BY <1>1, ZenonT(60) DEF ContainerTypeOK

(* Nobody is between a reading and an act while the lock is free or the    *)
(* sweep's.                                                                *)
LEMMA FreeOfMakers ==
  ASSUME CInv, turn = Nobody \/ turn = "sweep"
  PROVE  \A x \in Callers : job[x].pc \notin Held
  BY ContainerAssumption DEF CInv, HoldsTurn

(* A caller that holds the lock is the only one past it.                   *)
LEMMA AloneInside ==
  ASSUME CInv, NEW x \in Callers, job[x].pc \in Held
  PROVE  /\ turn = x
         /\ sweeper.pc # "sweeping"
         /\ \A y \in Callers \ {x} : job[y].pc \notin Held
  BY ContainerAssumption DEF CInv, HoldsTurn
-----------------------------------------------------------------------------
(* A caller that keeps nothing.                                            *)
LEMMA AtRest ==
  ASSUME NEW p
  PROVE  [Resting EXCEPT !.pc = p] \in
           [pc : {p}, token : {Nobody}, create : {FALSE}]
  <1>1. Resting \in [pc : {"rest"}, token : {Nobody}, create : {FALSE}]
    BY DEF Resting
  <1> QED
    BY <1>1

(* The ways a caller moves on, and what each leaves true of the lock.      *)
LEMMA EndsKeeps ==
  ASSUME CInv, NEW x \in Callers, job[x].pc \in Held,
         NEW pc \in {"rest", "ready"}, Ends(x, pc), UNCHANGED sweeper
  PROVE  /\ HoldsTurn'
         /\ \A y \in Callers : job'[y].pc \notin Held
         /\ job' \in [Callers -> CallerStates]
         /\ turn' \in Callers \cup {"sweep", Nobody}
  <1>1. /\ sweeper.pc # "sweeping"
        /\ \A y \in Callers \ {x} : job[y].pc \notin Held
    BY AloneInside
  <1>2. job' = [job EXCEPT ![x] = [Resting EXCEPT !.pc = pc]]
    BY DEF Ends, Does
  <1>3. job'[x].pc \notin Held
    BY <1>2, AtRest DEF CInv, ContainerTypeOK, Held
  <1>4. \A y \in Callers : job'[y].pc \notin Held
    BY <1>1, <1>2, <1>3 DEF CInv, ContainerTypeOK
  <1>5. HoldsTurn'
    BY <1>1, <1>4 DEF HoldsTurn
  <1> QED
    BY <1>2, <1>4, <1>5, Sorts, SortsHold DEF Ends

(* With nobody past the lock there is nothing a caller could have read.    *)
LEMMA NothingRead ==
  ASSUME \A y \in Callers : job'[y].pc \notin Held
  PROVE  MakerAgrees' /\ ReadIsTrue'
  BY DEF Held, MakerAgrees, ReadIsTrue, AtJob

(* A free lock is taken, by a caller that has read nothing yet.            *)
LEMMA LockKeeps ==
  ASSUME CInv, NEW x \in Callers, NEW pc \in {"inspect", "stop", "rm"},
         turn = Nobody, turn' = x, Does(x, pc), live' \in {live, Unknown},
         UNCHANGED <<box, looked, sweeper, clock, bearers>>
  PROVE  CInv'
  <1>1. \A y \in Callers : job[y].pc \notin Held
    BY FreeOfMakers
  <1>2. job' = [job EXCEPT ![x] = [Resting EXCEPT !.pc = pc]]
    BY DEF Does
  <1>3. /\ job'[x].pc = pc
        /\ \A y \in Callers \ {x} : job'[y].pc \notin Held
    BY <1>1, <1>2, AtRest DEF CInv, ContainerTypeOK
  <1>4. MakerAgrees' /\ ReadIsTrue'
    BY <1>3 DEF Held, MakerAgrees, ReadIsTrue, AtJob
  <1>5. EntryHasBearer' /\ BearerAgrees'
    BY DEF CInv, Facts, EntryHasBearer, BearerAgrees, Unknown
  <1>6. HoldsTurn'
    BY <1>3, ContainerAssumption DEF CInv, HoldsTurn
  <1>7. ContainerTypeOK'
    <2>1. live' \in Entries /\ job' \in [Callers -> CallerStates]
      BY <1>2, Sorts, SortsHold
    <2> QED
      BY <2>1, SortsHold, TypeKeeps DEF CInv, ContainerTypeOK
  <1> QED
    BY <1>4, <1>5, <1>6, <1>7 DEF CInv, Facts

(* A caller ends, having changed nothing that breaks what the desk knows.  *)
LEMMA EndingKeeps ==
  ASSUME CInv, NEW x \in Callers, job[x].pc \in Held,
         NEW pc \in {"rest", "ready"}, Ends(x, pc),
         box' \in Boxes,
         live.known /\ box'.exists => live.token = box'.token,
         UNCHANGED <<live, looked, sweeper, clock, bearers>>
  PROVE  CInv'
  <1>1. /\ HoldsTurn'
        /\ \A y \in Callers : job'[y].pc \notin Held
    BY EndsKeeps
  <1>2. EntryHasBearer' /\ BearerAgrees'
    BY DEF CInv, Facts, EntryHasBearer, BearerAgrees
  <1>3. ContainerTypeOK'
    <2>1. /\ job' \in [Callers -> CallerStates]
          /\ turn' \in Callers \cup {"sweep", Nobody}
      BY EndsKeeps
    <2> QED
      BY <2>1, SortsHold, TypeKeeps DEF CInv, ContainerTypeOK
  <1> QED
    BY <1>1, <1>2, <1>3, NothingRead DEF CInv, Facts

LEMMA InspectKeeps ==
  ASSUME CInv, NEW x \in Callers, Inspect(x)
  PROVE  CInv'
  <1>1. job[x].pc \in Held
    BY DEF Inspect, AtJob, Held
  <1>2. /\ turn = x /\ sweeper.pc # "sweeping"
        /\ \A y \in Callers \ {x} : job[y].pc \notin Held
    BY <1>1, AloneInside
  <1>3. PICK t : /\ t = IF BearerOf # Nobody THEN BearerOf ELSE bearers'
                 /\ job' = [job EXCEPT ![x] =
                              [pc |-> "make", create |-> ~box'.exists,
                               token |-> t]]
    BY DEF Inspect
  <1>4. t \in 1..MaxBearer /\ t # Nobody /\ bearers' \in 0..MaxBearer
    <2>1. CASE BearerOf # Nobody
      BY <1>3, <2>1 DEF Inspect, BearerOf, CInv, ContainerTypeOK
    <2>2. CASE BearerOf = Nobody
      BY <1>3, <2>2, ContainerAssumption DEF Inspect, CInv, ContainerTypeOK
    <2> QED
      BY <2>1, <2>2
  <1>5. /\ live.known => live.token = t
        /\ box'.exists => box'.token = t
    BY <1>3 DEF Inspect, BearerOf, CInv, Facts, EntryHasBearer, BearerAgrees,
                Absent
  <1>6. /\ box' \in {box, Absent}
        /\ UNCHANGED <<live, looked, turn, sweeper, clock>>
    BY DEF Inspect
  <1>7. /\ job'[x] = [pc |-> "make", create |-> ~box'.exists, token |-> t]
        /\ \A y \in Callers \ {x} : job'[y] = job[y]
    BY <1>3 DEF CInv, ContainerTypeOK
  <1>8. ContainerTypeOK'
    <2>1. box' \in Boxes
      BY <1>6, Sorts, SortsHold
    <2>2. job'[x] \in CallerStates
      <3>1. box'.exists \in BOOLEAN
        BY <2>1 DEF Boxes
      <3> QED
        BY <1>4, <1>7, <3>1 DEF CallerStates
    <2>3. job' \in [Callers -> CallerStates]
      BY <1>3, <1>7, <2>2, SortsHold
    <2> QED
      BY <1>4, <1>6, <2>1, <2>3, SortsHold, TypeKeeps
         DEF CInv, ContainerTypeOK
  <1>9. HoldsTurn'
    BY <1>2, <1>6, <1>7 DEF CInv, HoldsTurn
  <1>10. MakerAgrees'
    BY <1>2, <1>4, <1>5, <1>6, <1>7 DEF MakerAgrees, Held
  <1>11. ReadIsTrue'
    BY <1>2, <1>7 DEF ReadIsTrue, Held, AtJob
  <1>12. EntryHasBearer' /\ BearerAgrees'
    BY <1>5, <1>6 DEF CInv, Facts, EntryHasBearer, BearerAgrees, Absent
  <1> QED
    BY <1>8, <1>9, <1>10, <1>11, <1>12 DEF CInv, Facts

(* A caller goes on to publish the bearer it made or found.                *)
LEMMA PublishesKeeps ==
  ASSUME CInv, NEW x \in Callers, AtJob(x, "make"), Publishes(x),
         box'.exists, box'.token = job[x].token,
         box' \in Boxes,
         UNCHANGED <<live, looked, turn, sweeper, clock, bearers>>
  PROVE  CInv'
  <1>1. job[x].pc \in Held
    BY DEF AtJob, Held
  <1>2. /\ turn = x /\ sweeper.pc # "sweeping"
        /\ \A y \in Callers \ {x} : job[y].pc \notin Held
    BY <1>1, AloneInside
  <1>3. /\ job'[x].pc = "insert" /\ job'[x].token = job[x].token
        /\ \A y \in Callers \ {x} : job'[y] = job[y]
    BY DEF Publishes, CInv, ContainerTypeOK
  <1>4. ContainerTypeOK'
    <2>1. job' \in [Callers -> CallerStates]
      BY SortsHold, ZenonT(60) DEF Publishes, CallerStates
    <2> QED
      BY <2>1, SortsHold, TypeKeeps DEF CInv, ContainerTypeOK
  <1>5. HoldsTurn'
    BY <1>2, <1>3 DEF CInv, HoldsTurn
  <1>6. /\ job[x].token # Nobody
        /\ live.known => live.token = job[x].token
    BY DEF CInv, Facts, MakerAgrees, AtJob
  <1>7. MakerAgrees'
    BY <1>2, <1>3, <1>6 DEF MakerAgrees, Held
  <1>8. ReadIsTrue'
    BY <1>2, <1>3 DEF ReadIsTrue, Held, AtJob
  <1>9. EntryHasBearer' /\ BearerAgrees'
    BY <1>6 DEF CInv, Facts, EntryHasBearer, BearerAgrees
  <1> QED
    BY <1>4, <1>5, <1>7, <1>8, <1>9 DEF CInv, Facts

LEMMA CreateKeeps ==
  ASSUME CInv, NEW x \in Callers, Create(x)
  PROVE  CInv'
  <1>1. job[x].pc \in Held /\ AtJob(x, "make")
    BY DEF Create, AtJob, Held
  <1>2. /\ job[x].token \in 1..MaxBearer \cup {Nobody}
        /\ live.known => live.token = job[x].token
    BY <1>1, SortsHold DEF CallerStates, CInv, Facts, MakerAgrees, AtJob
  <1>3. CASE box.exists /\ Ends(x, "rest") /\ UNCHANGED box
    BY <1>1, <1>3, SortsHold, EndingKeeps
       DEF Create, CInv, Facts, BearerAgrees
  <1>4. ASSUME NEW started \in BOOLEAN, NEW fits \in BOOLEAN,
               box' = [exists |-> TRUE, running |-> started,
                       token |-> job[x].token, fits |-> fits],
               IF started THEN Publishes(x) /\ UNCHANGED turn
               ELSE Ends(x, "rest")
        PROVE  CInv'
    <2>1. box' \in Boxes /\ box'.exists /\ box'.token = job[x].token
      BY <1>2, <1>4 DEF Boxes
    <2>2. CASE started
      BY <1>1, <1>4, <2>1, <2>2, PublishesKeeps DEF Create
    <2>3. CASE ~started
      BY <1>1, <1>2, <1>4, <2>1, <2>3, EndingKeeps DEF Create
    <2> QED
      BY <2>2, <2>3
  <1> QED
    BY <1>3, <1>4 DEF Create

LEMMA StartKeeps ==
  ASSUME CInv, NEW x \in Callers, Start(x)
  PROVE  CInv'
  <1>1. job[x].pc \in Held /\ AtJob(x, "make")
    BY DEF Start, AtJob, Held
  <1>2. CASE box.exists
    <2>1. box' = [box EXCEPT !.running = TRUE] /\ Publishes(x)
      BY <1>2 DEF Start
    <2>2. box' \in Boxes
      BY <2>1, Sorts, SortsHold
    <2>3. box.token = job[x].token
      BY <1>1, <1>2 DEF CInv, Facts, MakerAgrees, AtJob
    <2>4. box'.exists /\ box'.token = job[x].token
      BY <1>2, <2>1, <2>3, SortsHold DEF Boxes
    <2> QED
      BY <1>1, <1>2, <2>1, <2>2, <2>4, PublishesKeeps DEF Start
  <1>3. CASE ~box.exists
    BY <1>1, <1>3, SortsHold, EndingKeeps DEF Start
  <1> QED
    BY <1>2, <1>3

(* The entry is the bearer of the container it is for.                     *)
LEMMA InsertKeeps ==
  ASSUME CInv, NEW x \in Callers, Insert(x)
  PROVE  CInv'
  <1>1. job[x].pc \in Held /\ job[x].pc = "insert"
    BY DEF Insert, AtJob, Held
  <1>2. CASE box.running
    <2>1. /\ live' = [known |-> TRUE, token |-> job[x].token]
          /\ clock' = "new"
          /\ job' = [job EXCEPT ![x] = [Resting EXCEPT !.pc = "healthy"]]
          /\ UNCHANGED <<turn, box, looked, sweeper, bearers>>
      BY <1>2 DEF Insert, Does
    <2>2. /\ turn = x /\ sweeper.pc # "sweeping"
          /\ \A y \in Callers \ {x} : job[y].pc \notin Held
      BY <1>1, AloneInside
    <2>3. /\ job'[x].pc = "healthy"
          /\ \A y \in Callers \ {x} : job'[y] = job[y]
      BY <2>1, AtRest DEF CInv, ContainerTypeOK
    <2>4. /\ job[x].token # Nobody
          /\ box.exists => box.token = job[x].token
      BY <1>1 DEF CInv, Facts, MakerAgrees
    <2>5. ContainerTypeOK'
      <3>1. live' \in Entries
        BY <2>1, SortsHold DEF Entries, CallerStates
      <3>2. job' \in [Callers -> CallerStates]
        BY <2>1, Sorts, SortsHold
      <3> QED
        BY <2>1, <3>1, <3>2, SortsHold, TypeKeeps DEF CInv, ContainerTypeOK
    <2>6. HoldsTurn'
      BY <2>1, <2>2, <2>3 DEF HoldsTurn
    <2>7. MakerAgrees' /\ ReadIsTrue'
      BY <2>2, <2>3 DEF MakerAgrees, ReadIsTrue, AtJob, Held
    <2>8. EntryHasBearer' /\ BearerAgrees'
      BY <2>1, <2>4 DEF EntryHasBearer, BearerAgrees
    <2> QED
      BY <2>5, <2>6, <2>7, <2>8 DEF CInv, Facts
  <1>3. CASE ~box.running
    BY <1>1, <1>3, SortsHold, EndingKeeps
       DEF Insert, CInv, Facts, BearerAgrees
  <1> QED
    BY <1>2, <1>3

LEMMA JobKeeps ==
  ASSUME CInv, NEW x \in Callers, JobStep(x)
  PROVE  CInv'
  <1>1. CASE Healthy(x) \/ EnsureFails(x)
    BY <1>1, SortsHold, EndingKeeps
       DEF Healthy, EnsureFails, AtJob, Held, CInv, Facts, BearerAgrees
  <1>2. CASE StopEnds(x)
    <2>1. box' \in Boxes /\ box'.exists = box.exists /\ box'.token = box.token
      <3>1. box' \in {box, [box EXCEPT !.running = FALSE]}
        BY <1>2 DEF StopEnds
      <3>2. box' \in Boxes
        BY <3>1, Sorts, SortsHold
      <3>3. box'.exists = box.exists /\ box'.token = box.token
        BY <3>1, SortsHold DEF Boxes
      <3> QED
        BY <3>2, <3>3
    <2> QED
      BY <1>2, <2>1, EndingKeeps
         DEF StopEnds, AtJob, Held, CInv, Facts, BearerAgrees
  <1>3. CASE RemoveEnds(x)
    <2>1. box' \in Boxes /\ (box'.exists => box' = box)
      <3>1. box' \in {box, Absent} /\ ~Absent.exists
        BY <1>3 DEF RemoveEnds, Absent
      <3> QED
        BY <3>1, Sorts, SortsHold
    <2> QED
      BY <1>3, <2>1, EndingKeeps
         DEF RemoveEnds, AtJob, Held, CInv, Facts, BearerAgrees
  <1> QED
    BY <1>1, <1>2, <1>3, InspectKeeps, CreateKeeps, StartKeeps, InsertKeeps
       DEF JobStep, Ensures
-----------------------------------------------------------------------------
(* Moves that leave every caller where it is.                              *)
LEMMA CallersStay ==
  ASSUME CInv, UNCHANGED <<job, turn, sweeper, live>>, box' \in Boxes,
         box'.exists = box.exists, box'.token = box.token,
         looked' \in BOOLEAN, clock' \in {"new", "idle", "old"},
         UNCHANGED bearers
  PROVE  CInv'
  <1>1. ContainerTypeOK'
    BY SortsHold, TypeKeeps DEF CInv, ContainerTypeOK
  <1>2. HoldsTurn'
    BY DEF CInv, HoldsTurn
  <1>3. MakerAgrees' /\ ReadIsTrue'
    BY DEF CInv, Facts, MakerAgrees, ReadIsTrue, AtJob
  <1>4. EntryHasBearer' /\ BearerAgrees'
    BY DEF CInv, Facts, EntryHasBearer, BearerAgrees
  <1> QED
    BY <1>1, <1>2, <1>3, <1>4 DEF CInv, Facts

LEMMA BoxMoves ==
  ASSUME CInv
  PROVE  \A b \in {box, [box EXCEPT !.running = FALSE],
                   [box EXCEPT !.fits = FALSE]} :
           b \in Boxes /\ b.exists = box.exists /\ b.token = box.token
  <1>1. \A b \in {box, [box EXCEPT !.running = FALSE],
                  [box EXCEPT !.fits = FALSE]} : b \in Boxes
    BY Sorts, SortsHold
  <1>2. \A b \in {box, [box EXCEPT !.running = FALSE],
                  [box EXCEPT !.fits = FALSE]} :
          b.exists = box.exists /\ b.token = box.token
    BY SortsHold DEF Boxes
  <1> QED
    BY <1>1, <1>2

LEMMA AdoptKeeps ==
  ASSUME CInv, Adopt
  PROVE  CInv'
  <1>1. \A y \in Callers : job'[y].pc \notin Held
    BY FreeOfMakers DEF Adopt
  <1>2. HoldsTurn'
    BY <1>1 DEF Adopt, HoldsTurn, CInv
  <1>3. CASE box.exists /\ box.token # Nobody
    <2>1. live' = [known |-> TRUE, token |-> box.token]
          /\ clock' = "new" /\ looked' = TRUE
          /\ UNCHANGED <<box, turn, job, sweeper, bearers>>
      BY <1>3 DEF Adopt
    <2>2. live' \in Entries
      BY <2>1, SortsHold DEF Entries, Boxes
    <2>3. ContainerTypeOK'
      BY <2>1, <2>2, SortsHold, TypeKeeps DEF CInv, ContainerTypeOK
    <2>4. EntryHasBearer' /\ BearerAgrees'
      BY <1>3, <2>1 DEF EntryHasBearer, BearerAgrees
    <2> QED
      BY <1>1, <1>2, <2>3, <2>4, NothingRead DEF CInv, Facts
  <1>4. CASE ~(box.exists /\ box.token # Nobody)
    BY <1>4, BoxMoves, CallersStay DEF Adopt, CInv, ContainerTypeOK
  <1> QED
    BY <1>3, <1>4

LEMMA SweepListsKeeps ==
  ASSUME CInv, NEW used \in BOOLEAN, SweepLists(used)
  PROVE  CInv'
  <1>1. /\ sweeper' \in [pc : {"rest", "listed", "sweeping"},
                        age : {"new", "idle", "old"}]
        /\ sweeper'.pc # "sweeping"
        /\ clock' \in {"new", "idle", "old"}
        /\ UNCHANGED <<box, live, looked, turn, job, bearers>>
    BY DEF SweepLists, CInv, ContainerTypeOK
  <1>2. ContainerTypeOK'
    BY <1>1, SortsHold, TypeKeeps DEF CInv, ContainerTypeOK
  <1>3. HoldsTurn'
    BY <1>1 DEF CInv, HoldsTurn
  <1>4. Facts'
    BY <1>1 DEF CInv, Facts, MakerAgrees, ReadIsTrue, AtJob, EntryHasBearer,
                BearerAgrees
  <1> QED
    BY <1>2, <1>3, <1>4 DEF CInv

LEMMA SweepStepKeeps ==
  ASSUME CInv, SweepStep
  PROVE  CInv'
  <1>1. CASE SweepTurns /\ turn # Nobody
    <2>1. /\ sweeper' = [pc |-> "rest", age |-> "new"]
          /\ UNCHANGED <<box, live, looked, turn, job, clock, bearers>>
      BY <1>1 DEF SweepTurns
    <2>2. ContainerTypeOK'
      BY <2>1, SortsHold, TypeKeeps DEF CInv, ContainerTypeOK
    <2>3. HoldsTurn'
      BY <2>1 DEF CInv, HoldsTurn
    <2>4. Facts'
      BY <2>1 DEF CInv, Facts, MakerAgrees, ReadIsTrue, AtJob,
                  EntryHasBearer, BearerAgrees
    <2> QED
      BY <2>2, <2>3, <2>4 DEF CInv
  <1>2. CASE SweepTurns /\ turn = Nobody
    <2>1. /\ turn' = "sweep" /\ sweeper' = [sweeper EXCEPT !.pc = "sweeping"]
          /\ UNCHANGED <<box, live, looked, job, clock, bearers>>
      BY <1>2 DEF SweepTurns
    <2>2. \A y \in Callers : job'[y].pc \notin Held
      BY <1>2, <2>1, FreeOfMakers
    <2>3. ContainerTypeOK'
      <3>1. sweeper' \in [pc : {"rest", "listed", "sweeping"},
                          age : {"new", "idle", "old"}]
        BY <2>1 DEF CInv, ContainerTypeOK
      <3> QED
        BY <2>1, <3>1, SortsHold, TypeKeeps DEF CInv, ContainerTypeOK
    <2>4. HoldsTurn'
      BY <2>1, <2>2 DEF HoldsTurn
    <2>5. EntryHasBearer' /\ BearerAgrees'
      BY <2>1 DEF CInv, Facts, EntryHasBearer, BearerAgrees
    <2> QED
      BY <2>2, <2>3, <2>4, <2>5, NothingRead DEF CInv, Facts
  <1>3. CASE SweepEnds
    <2>1. turn = "sweep"
      BY <1>3 DEF SweepEnds, CInv, HoldsTurn
    <2>2. /\ turn' = Nobody /\ sweeper' = [pc |-> "rest", age |-> "new"]
          /\ UNCHANGED <<looked, job, clock, bearers>>
      BY <1>3 DEF SweepEnds
    <2>3. \A y \in Callers : job'[y].pc \notin Held
      BY <2>1, <2>2, FreeOfMakers
    <2>4. \/ box' = Absent /\ live' = Unknown
          \/ box' \in {box, [box EXCEPT !.running = FALSE]} /\ live' = live
      BY <1>3 DEF SweepEnds
    <2>5. box' \in Boxes /\ live' \in Entries
      BY <2>4, Sorts, SortsHold
    <2>6. ContainerTypeOK'
      BY <2>2, <2>5, SortsHold, TypeKeeps DEF CInv, ContainerTypeOK
    <2>7. HoldsTurn'
      BY <2>2, <2>3 DEF HoldsTurn
    <2>8. EntryHasBearer' /\ BearerAgrees'
      <3>1. CASE box' = Absent /\ live' = Unknown
        BY <3>1 DEF EntryHasBearer, BearerAgrees, Unknown
      <3>2. CASE box' \in {box, [box EXCEPT !.running = FALSE]} /\ live' = live
        BY <3>2, BoxMoves DEF CInv, Facts, EntryHasBearer, BearerAgrees
      <3> QED
        BY <2>4, <3>1, <3>2
    <2> QED
      BY <2>3, <2>6, <2>7, <2>8, NothingRead DEF CInv, Facts
  <1> QED
    BY <1>1, <1>2, <1>3 DEF SweepStep

(* Moves of the agents and of the world outside.                           *)
LEMMA AroundKeeps ==
  ASSUME CInv,
         \/ \E a \in Agents : End(a)
         \/ TimePasses \/ Edited \/ Dies
         \/ UNCHANGED containerVars
  PROVE  CInv'
  <1>1. /\ UNCHANGED <<live, looked, turn, job, sweeper, bearers>>
        /\ box' \in {box, [box EXCEPT !.running = FALSE],
                    [box EXCEPT !.fits = FALSE]}
        /\ clock' \in {"new", "idle", "old"}
    BY DEF End, MarkIdle, TimePasses, Edited, Dies, containerVars, CInv,
           ContainerTypeOK
  <1> QED
    BY <1>1, BoxMoves, CallersStay DEF CInv, ContainerTypeOK

LEMMA FinishGrantKeeps ==
  ASSUME CInv, NEW a \in Agents, FinishGrant(a)
  PROVE  CInv'
  <1>1. a \in Callers
    BY CallersAssumption
  <1>2. /\ job' = [job EXCEPT ![a] = [Resting EXCEPT !.pc = "rest"]]
        /\ UNCHANGED <<box, live, looked, turn, sweeper, clock, bearers>>
    BY DEF FinishGrant, Does
  <1>3. /\ job'[a].pc = "rest"
        /\ \A y \in Callers \ {a} : job'[y] = job[y]
    BY <1>1, <1>2, AtRest DEF CInv, ContainerTypeOK
  <1>4. ContainerTypeOK'
    <2>1. job' \in [Callers -> CallerStates]
      BY <1>1, <1>2, Sorts, SortsHold
    <2> QED
      BY <1>2, <2>1, SortsHold, TypeKeeps DEF CInv, ContainerTypeOK
  <1>5. HoldsTurn'
    BY <1>2, <1>3 DEF CInv, HoldsTurn, Held
  <1>6. MakerAgrees' /\ ReadIsTrue'
    BY <1>2, <1>3 DEF CInv, Facts, MakerAgrees, ReadIsTrue, AtJob
  <1>7. EntryHasBearer' /\ BearerAgrees'
    BY <1>2 DEF CInv, Facts, EntryHasBearer, BearerAgrees
  <1> QED
    BY <1>4, <1>5, <1>6, <1>7 DEF CInv, Facts

(* A desk that has just started knows of no container, whatever there is.  *)
LEMMA FreshDeskHolds ==
  ASSUME NEW b \in Boxes, NEW n \in 0..MaxBearer,
         box = b, live = Unknown, looked = FALSE, turn = Nobody,
         job = [x \in Callers |-> Resting],
         sweeper = [pc |-> "rest", age |-> "new"], clock = "new", bearers = n
  PROVE  CInv
  <1>1. job \in [Callers -> CallerStates] /\ live \in Entries
    BY DEF Resting, CallerStates, Unknown, Entries
  <1>2. ContainerTypeOK
    <2>1. /\ box \in [exists : BOOLEAN, running : BOOLEAN,
                      token : 1..MaxBearer \cup {Nobody}, fits : BOOLEAN]
          /\ live \in [known : BOOLEAN, token : 1..MaxBearer \cup {Nobody}]
          /\ job \in [Callers -> [pc : {"rest", "inspect", "make", "insert",
                                        "healthy", "ready", "stop", "rm"},
                                  token : 1..MaxBearer \cup {Nobody},
                                  create : BOOLEAN]]
      BY <1>1 DEF Boxes, Entries, CallerStates
    <2>2. /\ looked \in BOOLEAN /\ turn \in Callers \cup {"sweep", Nobody}
          /\ clock \in {"new", "idle", "old"} /\ bearers \in 0..MaxBearer
          /\ sweeper \in [pc : {"rest", "listed", "sweeping"},
                          age : {"new", "idle", "old"}]
      OBVIOUS
    <2> QED
      BY <2>1, <2>2, ZenonT(60) DEF ContainerTypeOK
  <1>3. \A x \in Callers : job[x].pc = "rest"
    BY DEF Resting
  <1>4. HoldsTurn /\ MakerAgrees /\ ReadIsTrue
    BY <1>3 DEF HoldsTurn, MakerAgrees, ReadIsTrue, AtJob, Held
  <1>5. EntryHasBearer /\ BearerAgrees
    BY DEF EntryHasBearer, BearerAgrees, Unknown
  <1> QED
    BY <1>2, <1>4, <1>5 DEF CInv, Facts

LEMMA DeskRestartKeeps ==
  ASSUME CInv, DeskRestarts
  PROVE  CInv'
  <1>1. /\ live' = Unknown /\ looked' = FALSE /\ turn' = Nobody
        /\ job' = [x \in Callers |-> Resting]
        /\ sweeper' = [pc |-> "rest", age |-> "new"]
        /\ clock' = "new" /\ UNCHANGED <<box, bearers>>
    BY DEF DeskRestarts
  <1>2. ContainerTypeOK'
    <2>1. job' \in [Callers -> CallerStates] /\ live' \in Entries
      BY <1>1 DEF Resting, CallerStates, Unknown, Entries
    <2> QED
      BY <1>1, <2>1, SortsHold, TypeKeeps DEF CInv, ContainerTypeOK
  <1>3. \A x \in Callers : job'[x].pc \notin Held
    BY <1>1 DEF Resting, Held
  <1>4. HoldsTurn'
    BY <1>1, <1>3 DEF HoldsTurn
  <1>5. EntryHasBearer' /\ BearerAgrees'
    BY <1>1 DEF EntryHasBearer, BearerAgrees, Unknown
  <1> QED
    BY <1>2, <1>3, <1>4, <1>5, NothingRead DEF CInv, Facts

LEMMA TakesLock ==
  ASSUME CInv, NEW x \in Callers,
         EnsureRunning(x) \/ Stop(x) \/ Remove(x)
  PROVE  CInv'
  <1>1. CASE EnsureRunning(x)
    BY <1>1, LockKeeps DEF EnsureRunning, Lock
  <1>2. CASE Stop(x)
    BY <1>2, LockKeeps DEF Stop, Lock
  <1>3. CASE Remove(x)
    BY <1>3, LockKeeps DEF Remove
  <1> QED
    BY <1>1, <1>2, <1>3

LEMMA ContainerNext == CInv /\ [Next]_vars => CInv'
  <1> SUFFICES ASSUME CInv, [Next]_vars PROVE CInv'
    OBVIOUS
  <1>1. CASE \E a \in Agents : Grant(a)
    BY <1>1, TakesLock, CallersAssumption DEF Grant
  <1>2. CASE Pane
    BY <1>2, TakesLock, CallersAssumption DEF Pane
  <1>3. CASE \E a \in Agents : FinishGrant(a)
    BY <1>3, FinishGrantKeeps
  <1>4. CASE \E x \in Callers : JobStep(x)
    BY <1>4, JobKeeps
  <1>5. CASE Sweep
    <2>1. InUse \in BOOLEAN
      BY DEF InUse
    <2> QED
      BY <1>5, <2>1, AdoptKeeps, SweepListsKeeps, SweepStepKeeps DEF Sweep
  <1>6. CASE Restart
    BY <1>6, DeskRestartKeeps DEF Restart
  <1>7. CASE (\E a \in Agents : End(a)) \/ World \/ UNCHANGED containerVars
    BY <1>7, AroundKeeps DEF World
  <1> QED
    BY <1>1, <1>2, <1>3, <1>4, <1>5, <1>6, <1>7
       DEF Next, CallsGo, GatesGo, vars, containerVars

LEMMA ContainerInvariant == Spec => []CInv
  <1>1. Init => CInv
    <2> SUFFICES ASSUME Init PROVE CInv
      OBVIOUS
    <2>1. box \in Boxes
      <3>1. \A b \in Boxes :
              [b EXCEPT !.exists = TRUE, !.running = TRUE] \in Boxes
        BY DEF Boxes
      <3> QED
        BY <3>1, Sorts DEF Init, ContainerInit
    <2>2. bearers \in 0..MaxBearer
      BY ContainerAssumption DEF Init, ContainerInit
    <2> QED
      BY <2>1, <2>2, FreshDeskHolds DEF Init, ContainerInit
  <1> QED
    BY <1>1, ContainerNext, PTL DEF Spec

(* What the desk knows of a container is what the container is, for any    *)
(* callers, with a runtime that fails at any request and a desk that       *)
(* restarts between any two (computer.rs: turn_of, ensure_running_held).   *)
THEOREM ContainerAlwaysTrue == Spec => []ContainerIsTrue
  <1>1. IInv /\ CInv => ContainerIsTrue
    BY DEF IInv, CInv, Facts, BearerAgrees, ContainerIsTrue, TypeOK,
           BearerIsTrue
  <1> QED
    BY <1>1, LeaseInvariant, ContainerInvariant, PTL
=============================================================================
