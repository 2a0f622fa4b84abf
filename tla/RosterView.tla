----------------------------- MODULE RosterView -----------------------------
(***************************************************************************)
(* The roster subscription (wire/roster.rs): a view joins the room's       *)
(* teammates, the last word of each tape and each live session into rows.  *)
(* It hears of changes on three bounded feeds that may each lose some, and *)
(* keeps what it last sent of the lists that a row may leave out.          *)
(*                                                                         *)
(* What a row shows of each source is one value.  Pins, the lead and what  *)
(* `lean` cuts are left out.                                               *)
(***************************************************************************)
EXTENDS Outbox

CONSTANTS Subs,       \* subscriptions one socket may open
          RoomDepth,  \* room events a view may have waiting
          InfoDepth   \* session hints a view may have waiting

ASSUME RosterAssumption == {RoomDepth, InfoDepth} \subseteq Nat \ {0}

VARIABLES room,      \* the teammate's name on the room stream, 0 if deleted
          tape,      \* how much each tape holds
          session,   \* the lists of each live session
          owed,      \* teammates whose session changed and was not told yet
          declared,  \* Outbox.roster_options
          views

truthVars == <<room, tape, session, owed>>

Unwatched == [on |-> FALSE, said |-> 0, marks |-> FALSE, knows |-> Without]

Closed == [stage |-> "none", aborted |-> FALSE,
           roomq |-> <<>>, roomLost |-> FALSE,
           infoq |-> <<>>, infoLost |-> FALSE,
           personas |-> [t \in Teammates |-> 0],
           watched |-> [t \in Teammates |-> Unwatched],
           dirty |-> {}, wake |-> FALSE, taken |-> {}]

Open(v) == v.stage \notin {"none", "over"}

ViewsInit == /\ owed = {} /\ declared = FALSE
             /\ views = [s \in Subs |-> Closed]
-----------------------------------------------------------------------------
(* A broadcast: a receiver too far behind loses the oldest and is told.    *)
FedRoom(v, e) ==
  IF ~Open(v) THEN v
  ELSE [v EXCEPT !.roomq = IF Len(@) = RoomDepth THEN Append(Tail(@), e)
                                                 ELSE Append(@, e),
                 !.roomLost = @ \/ Len(v.roomq) = RoomDepth]

FedInfo(v, t) ==
  IF ~Open(v) THEN v
  ELSE [v EXCEPT !.infoq = IF Len(@) = InfoDepth THEN Append(Tail(@), t)
                                                 ELSE Append(@, t),
                 !.infoLost = @ \/ Len(v.infoq) = InfoDepth]

(* Dirty.mark: the mark, then a wake unless one waits already.             *)
Marked(v, ts) == [v EXCEPT !.dirty = @ \cup ts, !.wake = @ \/ ts # {}]

Watching(w, t) ==
  IF w[t].on THEN w
  ELSE [w EXCEPT ![t] = [Unwatched EXCEPT !.on = TRUE, !.said = tape[t]]]

(* refresh: the room is read, the pumps of who is gone are dropped.        *)
Refreshed(v) ==
  [v EXCEPT !.personas = room,
            !.watched = [t \in Teammates |->
              IF room[t] = 0 THEN Unwatched ELSE Watching(v.watched, t)[t]]]

(* roster_entry: a row as it is now.                                       *)
Row(v, t) == [name |-> v.personas[t], said |-> v.watched[t].said,
              lists |-> session[t]]

(* catalogs: what the phone already has is left out of a row.              *)
Shown(v, t) ==
  IF ~declared THEN Row(v, t)
  ELSE [Row(v, t) EXCEPT !.lists = [k \in Keys |->
         IF v.watched[t].knows[k] = @[k] THEN Omitted ELSE @[k]]]

(* A poll that finds its task aborted goes no further than its next await. *)
Looped(v) == [v EXCEPT !.stage = "loop", !.taken = {}]

Snapshotted(v) ==
  [Looped(v) EXCEPT
     !.watched = [t \in Teammates |-> IF v.personas[t] = 0 THEN v.watched[t]
       ELSE [v.watched[t] EXCEPT !.knows = session[t]]]]
-----------------------------------------------------------------------------
Views(s, v) == views' = [views EXCEPT ![s] = v]

Fails == cut'

(* Subscribes: the receivers exist before the view's task first runs.      *)
Subscribed(s) == [Closed EXCEPT !.stage = "subscribed"]

Opens(s) == LET v == views[s] IN
  /\ v.stage = "subscribed"
  /\ Views(s, [Refreshed(v) EXCEPT !.stage = "snapshot"])
  /\ UNCHANGED <<truthVars, declared, outVars>>

SendsSnapshot(s) == LET v == views[s] IN
  /\ v.stage = "snapshot"
  /\ Sends(Snapshot(s, [t \in Teammates |->
       IF v.personas[t] = 0 THEN NoRow ELSE Row(v, t)]))
  /\ Views(s, IF Fails THEN [Closed EXCEPT !.stage = "over"]
              ELSE Snapshotted(v))
  /\ UNCHANGED <<truthVars, declared>>

(* A room event: a teammate as it is now, or its tombstone.                *)
HearsUpsert(s) == LET v == views[s]  e == Head(v.roomq) IN
  /\ v.stage = "loop" /\ ~v.roomLost /\ v.roomq # <<>>
  /\ e.name # 0
  /\ Views(s, [Marked(v, {e.of}) EXCEPT
                 !.roomq = Tail(@),
                 !.personas[e.of] = e.name,
                 !.watched = Watching(@, e.of)])
  /\ UNCHANGED <<truthVars, declared, outVars>>

HearsTombstone(s) == LET v == views[s]  e == Head(v.roomq) IN
  /\ v.stage = "loop" /\ ~v.roomLost /\ v.roomq # <<>>
  /\ e.name = 0
  /\ Sends(Removal(s, e.of))
  /\ Views(s, IF Fails THEN [Closed EXCEPT !.stage = "over"]
              ELSE [v EXCEPT !.roomq = Tail(@), !.personas[e.of] = 0,
                             !.watched[e.of] = Unwatched])
  /\ UNCHANGED <<truthVars, declared>>

(* Room events were lost: everything is read again.                        *)
\* Mutant: what is known of the room is sent again as it was.
RereadsNothing(s) == LET v == views[s] IN
  /\ v.stage = "loop" /\ v.roomLost
  /\ Views(s, [v EXCEPT !.roomLost = FALSE, !.dirty = {},
                        !.stage = "snapshot"])
  /\ UNCHANGED <<truthVars, declared, outVars>>
RoomLagged(s) == LET v == views[s] IN
  /\ v.stage = "loop" /\ v.roomLost
  /\ Views(s, [Refreshed(v) EXCEPT !.roomLost = FALSE, !.dirty = {},
                                   !.stage = "snapshot"])
  /\ UNCHANGED <<truthVars, declared, outVars>>

(* Session hints, the whole burst.  Of somebody not on the roster: nothing.*)
HearsInfos(s) == LET v == views[s] IN
  /\ v.stage = "loop" /\ ~v.infoLost /\ v.infoq # <<>>
  /\ Views(s, [Marked(v, {t \in Range(v.infoq) : v.personas[t] # 0})
                 EXCEPT !.infoq = <<>>])
  /\ UNCHANGED <<truthVars, declared, outVars>>

\* Mutant: a lost hint is not made up for.
ShrugsInfos(s) == LET v == views[s] IN
  /\ v.stage = "loop" /\ v.infoLost
  /\ Views(s, [v EXCEPT !.infoLost = FALSE])
  /\ UNCHANGED <<truthVars, declared, outVars>>
InfosLagged(s) == LET v == views[s] IN
  /\ v.stage = "loop" /\ v.infoLost
  /\ Views(s, [v EXCEPT !.infoLost = FALSE, !.dirty = {},
                        !.stage = "snapshot"])
  /\ UNCHANGED <<truthVars, declared, outVars>>

(* Woken: what is marked is taken, then sent row by row.                   *)
Woken(s) == LET v == views[s] IN
  /\ v.stage = "loop" /\ v.wake
  /\ Views(s, [v EXCEPT !.wake = FALSE, !.taken = v.dirty, !.dirty = {},
                        !.stage = "rows"])
  /\ UNCHANGED <<truthVars, declared, outVars>>

SendsRow(s, t) == LET v == views[s] IN
  /\ v.stage = "rows" /\ t \in v.taken
  /\ IF v.personas[t] = 0 \/ ~v.watched[t].on
       THEN /\ Views(s, [v EXCEPT !.taken = @ \ {t}])
            /\ UNCHANGED outVars
       ELSE /\ Sends(RosterRow(s, t, Shown(v, t)))
            /\ Views(s, IF Fails THEN [Closed EXCEPT !.stage = "over"]
                        ELSE [v EXCEPT !.taken = @ \ {t},
                                       !.watched[t].knows = session[t]])
  /\ UNCHANGED <<truthVars, declared>>

RowsSent(s) == LET v == views[s] IN
  /\ v.stage = "rows" /\ v.taken = {}
  /\ Views(s, Looped(v))
  /\ UNCHANGED <<truthVars, declared, outVars>>

(* A pump: what its tape says is shown first, and marked then.             *)
Projects(s, t) == LET v == views[s] IN
  /\ Open(v) /\ v.watched[t].on /\ ~v.watched[t].marks
  /\ v.watched[t].said # tape[t]
  /\ Views(s, [v EXCEPT !.watched[t].said = tape[t],
                        !.watched[t].marks = TRUE])
  /\ UNCHANGED <<truthVars, declared, outVars>>

Marks(s, t) == LET v == views[s] IN
  /\ Open(v) /\ v.watched[t].marks
  /\ Views(s, [Marked(v, {t}) EXCEPT !.watched[t].marks = FALSE])
  /\ UNCHANGED <<truthVars, declared, outVars>>

Ends(s) == LET v == views[s] IN
  /\ v.stage \in {"subscribed", "loop"} /\ v.aborted
  /\ Views(s, [Closed EXCEPT !.stage = "over"])
  /\ UNCHANGED <<truthVars, declared, outVars>>

ViewSteps(s) ==
  \/ Opens(s) \/ SendsSnapshot(s) \/ HearsUpsert(s) \/ HearsTombstone(s)
  \/ RoomLagged(s) \/ HearsInfos(s) \/ InfosLagged(s) \/ Woken(s)
  \/ RowsSent(s) \/ Ends(s)
  \/ \E t \in Teammates : SendsRow(s, t) \/ Projects(s, t) \/ Marks(s, t)
-----------------------------------------------------------------------------
(* The desk: a teammate made, renamed or deleted; a session whose lists    *)
(* change and, after that, the hint that says so; a line on a tape.        *)
Writes(t, name) ==
  /\ room' = [room EXCEPT ![t] = name]
  /\ views' = [s \in Subs |-> FedRoom(views[s], [of |-> t, name |-> name])]
  /\ UNCHANGED <<tape, session, owed>>

Lists(t, lists) ==
  /\ session' = [session EXCEPT ![t] = lists] /\ owed' = owed \cup {t}
  /\ UNCHANGED <<room, tape, views>>

Hints(t) ==
  /\ t \in owed /\ owed' = owed \ {t}
  /\ views' = [s \in Subs |-> FedInfo(views[s], t)]
  /\ UNCHANGED <<room, tape, session, declared, outVars>>

Speaks(t) ==
  /\ tape' = [tape EXCEPT ![t] = @ + 1]
  /\ UNCHANGED <<room, session, owed, views>>
=============================================================================
