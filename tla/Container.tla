----------------------------- MODULE Container -----------------------------
(***************************************************************************)
(* One teammate's container (crates/hotline-core/src/computer.rs).         *)
(*                                                                         *)
(* The desk keeps a map of the containers it knows (Inner::containers) and *)
(* asks a container runtime to make, start, stop and remove them.  Every   *)
(* request to the runtime is awaited, and may fail; Computer::turn_of is   *)
(* the lock that keeps two callers from interleaving theirs.  The sweep    *)
(* reads its list first and walks it afterwards.  A bearer is a number,    *)
(* new for every container made without one the desk knows.                *)
(***************************************************************************)
EXTENDS Integers

CONSTANTS Callers,    \* tasks that bring the computer up or take it away
          Nobody,     \* no caller, no bearer
          MaxBearer   \* bound on the bearers ever made

ASSUME ContainerAssumption == /\ Nobody \notin Callers \cup Nat
                              /\ "sweep" \notin Callers \cup {Nobody}
                              /\ MaxBearer \in Nat

VARIABLES box,      \* the container, as the runtime has it
          live,     \* the desk's entry for it, or Nobody's
          looked,   \* adopt has asked about it
          turn,     \* who holds the lock of turn_of
          job,      \* where each caller is
          sweeper,  \* the sweep: where it is and what its list says
          clock,    \* how long ago last_activity_ms was
          bearers   \* bearers made so far

containerVars == <<box, live, looked, turn, job, sweeper, clock, bearers>>

(* `fits`: made with the folders and limits the teammate has now.  A       *)
(* caller keeps the bearer and whether it found no container to start.     *)
Absent == [exists |-> FALSE, running |-> FALSE, token |-> Nobody, fits |-> TRUE]
Unknown == [known |-> FALSE, token |-> Nobody]
Resting == [pc |-> "rest", token |-> Nobody, create |-> FALSE]

ContainerInit ==
  /\ box \in {Absent, [Absent EXCEPT !.exists = TRUE, !.running = TRUE]}
  /\ live = Unknown
  /\ looked = FALSE
  /\ turn = Nobody
  /\ job = [x \in Callers |-> Resting]
  /\ sweeper = [pc |-> "rest", age |-> "new"]
  /\ clock = "new"
  /\ bearers = 0
-----------------------------------------------------------------------------
AtJob(x, pc) == job[x].pc = pc
Does(x, pc) == job' = [job EXCEPT ![x] = [Resting EXCEPT !.pc = pc]]

(* The caller's future ends and the lock's guard is dropped.               *)
Ends(x, pc) == Does(x, pc) /\ turn' = Nobody

Lock(x, pc) == /\ turn = Nobody
               /\ turn' = x
               /\ Does(x, pc)
               /\ UNCHANGED <<box, live, looked, sweeper, clock, bearers>>

(* Mutant: a caller does not wait for the one before it.                   *)
EnsureAtOnce(x) == /\ AtJob(x, "rest")
                   /\ Does(x, "inspect")
                   /\ UNCHANGED <<box, live, looked, turn, sweeper, clock, bearers>>

EnsureRunning(x) == AtJob(x, "rest") /\ Lock(x, "inspect")

(* ensure_running_held: the bearer the container is known by.              *)
BearerOf == IF box.exists /\ box.token # Nobody THEN box.token ELSE live.token

(* ensure_running_held up to the choice of what to do: a container nobody  *)
(* can talk to, or made for other folders or limits, is removed first.     *)
Inspect(x) ==
  /\ AtJob(x, "inspect")
  /\ box' = IF box.exists /\ (BearerOf = Nobody \/ ~box.fits)
            THEN Absent ELSE box
  /\ IF BearerOf # Nobody
     THEN UNCHANGED bearers
     ELSE bearers < MaxBearer /\ bearers' = bearers + 1
  /\ job' = [job EXCEPT ![x] =
               [pc |-> "make", create |-> ~box'.exists,
                token |-> IF BearerOf # Nobody THEN BearerOf ELSE bearers']]
  /\ UNCHANGED <<live, looked, turn, sweeper, clock>>

Publishes(x) == job' = [job EXCEPT ![x].pc = "insert", ![x].create = FALSE]

(* `create --name`, which the runtime refuses for a name that is taken,    *)
(* with the folders the teammate had when the caller began, and `start`.   *)
Create(x) ==
  /\ AtJob(x, "make") /\ job[x].create
  /\ \/ box.exists /\ Ends(x, "rest") /\ UNCHANGED box
     \/ /\ ~box.exists
        /\ \E started, fits \in BOOLEAN :
             /\ box' = [exists |-> TRUE, running |-> started,
                        token |-> job[x].token, fits |-> fits]
             /\ IF started THEN Publishes(x) /\ UNCHANGED turn
                ELSE Ends(x, "rest")
  /\ UNCHANGED <<live, looked, sweeper, clock, bearers>>

Start(x) == /\ AtJob(x, "make") /\ ~job[x].create
            /\ IF box.exists
               THEN /\ box' = [box EXCEPT !.running = TRUE]
                    /\ Publishes(x)
                    /\ UNCHANGED turn
               ELSE Ends(x, "rest") /\ UNCHANGED box
            /\ UNCHANGED <<live, looked, sweeper, clock, bearers>>

(* The entry goes in once the port is known, and before wait_healthy.      *)
Insert(x) == /\ AtJob(x, "insert")
             /\ IF box.running
                THEN /\ live' = [known |-> TRUE, token |-> job[x].token]
                     /\ clock' = "new"
                     /\ Does(x, "healthy")
                     /\ UNCHANGED turn
                ELSE Ends(x, "rest") /\ UNCHANGED <<live, clock>>
             /\ UNCHANGED <<box, looked, sweeper, bearers>>

Healthy(x) == /\ AtJob(x, "healthy")
              /\ Ends(x, "ready")
              /\ UNCHANGED <<box, live, looked, sweeper, clock, bearers>>

(* The runtime, the pull or wait_healthy fails before the end.             *)
EnsureFails(x) == /\ job[x].pc \in {"inspect", "make", "insert", "healthy"}
                  /\ Ends(x, "rest")
                  /\ UNCHANGED <<box, live, looked, sweeper, clock, bearers>>

Stop(x) == AtJob(x, "rest") /\ Lock(x, "stop")

StopEnds(x) == /\ AtJob(x, "stop")
               /\ box' \in {box, [box EXCEPT !.running = FALSE]}
               /\ Ends(x, "rest")
               /\ UNCHANGED <<live, looked, sweeper, clock, bearers>>

(* remove: the entry goes first, and the bearer with it.                   *)
Remove(x) == /\ AtJob(x, "rest")
             /\ turn = Nobody
             /\ turn' = x
             /\ live' = Unknown
             /\ Does(x, "rm")
             /\ UNCHANGED <<box, looked, sweeper, clock, bearers>>

RemoveEnds(x) == /\ AtJob(x, "rm")
                 /\ box' \in {box, Absent}
                 /\ Ends(x, "rest")
                 /\ UNCHANGED <<live, looked, sweeper, clock, bearers>>
-----------------------------------------------------------------------------
(* adopt, once per teammate: try_lock, the map looked at again under it.   *)
Adopt == /\ sweeper.pc = "rest"
         /\ ~live.known /\ ~looked
         /\ turn = Nobody
         /\ looked' = TRUE
         /\ IF box.exists /\ box.token # Nobody
            THEN /\ live' = [known |-> TRUE, token |-> box.token]
                 /\ clock' = "new"
                 /\ UNCHANGED box
            ELSE /\ box' = [box EXCEPT !.running = FALSE]
                 /\ UNCHANGED <<live, clock>>
         /\ UNCHANGED <<turn, job, sweeper, bearers>>

(* sweep: the clock of a computer in use starts over, and the others are   *)
(* put on the list with the age they have now; one too young for anything  *)
(* to be done about it is left off here.                                   *)
SweepLists(inUse) ==
  /\ sweeper.pc = "rest"
  /\ live.known /\ clock # "new"
  /\ IF inUse
     THEN clock' = "new" /\ UNCHANGED sweeper
     ELSE sweeper' = [pc |-> "listed", age |-> clock] /\ UNCHANGED clock
  /\ UNCHANGED <<box, live, looked, turn, job, bearers>>

(* Its place on the list comes.  A lock that is taken is passed over.      *)
SweepTurns ==
  /\ sweeper.pc = "listed"
  /\ IF turn = Nobody
     THEN /\ turn' = "sweep"
          /\ sweeper' = [sweeper EXCEPT !.pc = "sweeping"]
     ELSE /\ sweeper' = [pc |-> "rest", age |-> "new"]
          /\ UNCHANGED turn
  /\ UNCHANGED <<box, live, looked, job, clock, bearers>>

(* A computer past COMPUTER_HIBERNATE_MS is removed, one past              *)
(* COMPUTER_IDLE_STOP_MS is stopped; the entry of one the runtime would    *)
(* not remove stays for the next sweep.                                    *)
SweepEnds ==
  /\ sweeper.pc = "sweeping"
  /\ \/ /\ box' = IF sweeper.age = "old" THEN Absent
                  ELSE [box EXCEPT !.running = FALSE]
        /\ live' = IF sweeper.age = "old" THEN Unknown ELSE live
     \/ UNCHANGED <<box, live>>
  /\ sweeper' = [pc |-> "rest", age |-> "new"]
  /\ turn' = Nobody
  /\ UNCHANGED <<looked, job, clock, bearers>>
-----------------------------------------------------------------------------
(* mark_idle: a session ended, and the clock starts over.                  *)
MarkIdle == clock' = "new"

TimePasses == /\ clock # "old"
              /\ clock' = IF clock = "new" THEN "idle" ELSE "old"
              /\ UNCHANGED <<box, live, looked, turn, job, sweeper, bearers>>

(* The person edits the teammate's folders or limits.                      *)
Edited == /\ box.exists /\ box.fits
          /\ box' = [box EXCEPT !.fits = FALSE]
          /\ UNCHANGED <<live, looked, turn, job, sweeper, clock, bearers>>

(* The container ends by itself.                                           *)
Dies == /\ box.running
        /\ box' = [box EXCEPT !.running = FALSE]
        /\ UNCHANGED <<live, looked, turn, job, sweeper, clock, bearers>>

(* The desk ends and another starts: its map is empty, the container is    *)
(* what the runtime has.                                                   *)
DeskRestarts == /\ live' = Unknown
                /\ looked' = FALSE
                /\ turn' = Nobody
                /\ job' = [x \in Callers |-> Resting]
                /\ sweeper' = [pc |-> "rest", age |-> "new"]
                /\ clock' = "new"
                /\ UNCHANGED <<box, bearers>>

Ensures(x) == Inspect(x) \/ Create(x) \/ Start(x) \/ Insert(x) \/ Healthy(x)
JobStep(x) == Ensures(x) \/ EnsureFails(x) \/ StopEnds(x) \/ RemoveEnds(x)
SweepStep == SweepTurns \/ SweepEnds
-----------------------------------------------------------------------------
ContainerTypeOK ==
  LET Bearers == 1..MaxBearer \cup {Nobody} IN
  /\ box \in [exists : BOOLEAN, running : BOOLEAN, token : Bearers,
              fits : BOOLEAN]
  /\ live \in [known : BOOLEAN, token : Bearers]
  /\ looked \in BOOLEAN
  /\ turn \in Callers \cup {"sweep", Nobody}
  /\ job \in [Callers -> [pc : {"rest", "inspect", "make", "insert", "healthy",
                                "ready", "stop", "rm"},
                          token : Bearers, create : BOOLEAN]]
  /\ sweeper \in [pc : {"rest", "listed", "sweeping"},
                  age : {"new", "idle", "old"}]
  /\ clock \in {"new", "idle", "old"}
  /\ bearers \in 0..MaxBearer

(* The bearer the desk presents is the container's own, whichever of a     *)
(* making, a stop, a removal, a sweep and a restart it went through and    *)
(* wherever one of them failed: otherwise a running computer refuses       *)
(* everybody (ensure_running_held, remove, adopt).                         *)
BearerIsTrue ==
  live.known /\ box.exists /\ turn = Nobody => live.token = box.token

(* What a caller read of the container under its lock is still so when it  *)
(* acts on it: `create --name` never finds the name taken, and `start`     *)
(* never finds nothing there (turn_of).                                    *)
ReadIsTrue == \A x \in Callers : AtJob(x, "make") => job[x].create = ~box.exists
=============================================================================
