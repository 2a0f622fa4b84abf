-------------------------------- MODULE Log --------------------------------
(***************************************************************************)
(* One stream of the log (crates/hotline-store/src/log.rs): the file, the  *)
(* fold kept in memory, the live feeds of the wire's subscriptions, and    *)
(* what a restart makes of the file (session/lifecycle.rs, settle).        *)
(*                                                                         *)
(* The writer lock makes each call one step.  A step can be cut in the     *)
(* middle by the end of the process or by a disk that is full: the file is *)
(* then left without its last newline.  An event is an id, the number of   *)
(* the write it came from, and whether it is a card that waits for its     *)
(* answer.  The pages the system has not written back are not modelled: a  *)
(* process that ends leaves what it wrote.                                 *)
(***************************************************************************)
EXTENDS Integers, Sequences, FiniteSets

CONSTANTS Ids, Subscribers,
          Tools,      \* the ids whose events are of kind "tool"
          Phones,     \* the subscribers whose outbox is a phone's
          Older,      \* the events of the closed segments of a tape,
                      \* written before any that are counted
          Depth,      \* SUBSCRIPTION_DEPTH
          MaxWrites,  \* bound: appends asked for
          MaxFaults,  \* bound: refused, cut and killed steps
          Disks,      \* what a step that is cut can leave, see disk
          Cold        \* no fold in memory

Event == [id : Ids, n : Nat, card : BOOLEAN]
Junk == [junk |-> TRUE]    \* a line that does not parse
Half == [half |-> TRUE]    \* the beginning of a line, no newline behind it
Ended == [ended |-> TRUE]  \* the file ends with a newline

ASSUME LogAssumption ==
  /\ Depth \in Nat \ {0} /\ MaxWrites \in Nat /\ MaxFaults \in Nat
  /\ Tools \subseteq Ids /\ Phones \subseteq Subscribers
  /\ Older \in Seq(Event) /\ \A i \in DOMAIN Older : Older[i].n = 0
  /\ Disks \subseteq {"whole", "tears", "cuts"}
  /\ Cold \notin Seq(Event)

VARIABLES lines,    \* the open segment, each line an event or Junk
          tail,     \* what follows its last newline: Ended, Half or an event
          cache,    \* the fold in memory, or Cold
          phase,    \* the process: "off", "settling" or "on"
          todo,     \* what settle has still to append
          written,  \* what append has answered Ok for (ghost)
          disk,     \* "whole": a cut append leaves nothing; "tears": part of
                    \* its line; "cuts": a compaction can be cut too
          subs,     \* the feeds: view is what the client is sent, shed
                    \* the tools of which it was not sent everything
          writes, faults

logVars == <<lines, tail, cache, phase, todo, written, disk, subs,
             writes, faults>>

NoFeed == [on |-> FALSE, view |-> <<>>, queue |-> <<>>, missed |-> FALSE,
           shed |-> {}]

LogInit == /\ lines = <<>> /\ tail = Ended /\ written = <<>>
           /\ cache = Cold
           /\ phase = "off"
           /\ todo = <<>>
           /\ disk \in Disks
           /\ subs = [s \in Subscribers |-> NoFeed]
           /\ writes = 0 /\ faults = 0
-----------------------------------------------------------------------------
(* The k-th of a set of places, and fold: each id once, where it first     *)
(* appears, as it was last written.  What is not an event is skipped       *)
(* (parse_lines): a last line that is whole but for its newline is read,   *)
(* half a line is not.                                                     *)
IsEvent(l) == l \notin {Junk, Half, Ended}

Places(s, id) == {i \in DOMAIN s : IsEvent(s[i]) /\ s[i].id = id}

Nth(S, k) ==
  CHOOSE i \in S : Cardinality({j \in S : j < i}) = k - 1

Firsts(s) == {i \in DOMAIN s : /\ IsEvent(s[i])
                               /\ \A j \in Places(s, s[i].id) : i <= j}

Lasts(s) == {i \in DOMAIN s : /\ IsEvent(s[i])
                              /\ \A j \in Places(s, s[i].id) : j <= i}

Latest(s, id) == s[CHOOSE i \in Places(s, id) : i \in Lasts(s)]

Fold(s) == [k \in 1..Cardinality(Firsts(s)) |->
              Latest(s, s[Nth(Firsts(s), k)].id)]

(* Not the code's: each id where it was last written.                      *)
FoldLatest(s) == [k \in 1..Cardinality(Lasts(s)) |-> s[Nth(Lasts(s), k)]]

(* The same, one event at a time, as the fold in memory and a client do it.*)
Supersede(view, e) ==
  IF \E k \in DOMAIN view : view[k].id = e.id
    THEN [k \in DOMAIN view |-> IF view[k].id = e.id THEN e ELSE view[k]]
    ELSE Append(view, e)

(* What is read: the open segment, and every segment.                      *)
Segment == Append(lines, tail)
OnDisk == Older \o Segment

(* with_fold: what a load answers, and what it leaves in memory.           *)
Answer == IF cache # Cold THEN cache ELSE Fold(OnDisk)

Remember == cache' = IF tail = Ended THEN Answer ELSE cache

(* write_all: on a line that was never ended, the bytes run together.      *)
Land(e) == /\ lines' = Append(lines, IF tail = Ended THEN e ELSE Junk)
           /\ tail' = Ended

(* A write_all cut short: nothing, part of the line, or all but its end.   *)
Tear(e) == /\ lines' = lines
           /\ \/ tail' = tail
              \/ disk # "whole" /\ tail' = IF tail = Ended THEN e ELSE Half
              \/ disk # "whole" /\ tail' = Half

(* The broadcast, after the bytes are on disk.                             *)
Publish(e) ==
  subs' = [s \in Subscribers |->
    IF ~subs[s].on THEN subs[s]
    ELSE LET queue == Append(subs[s].queue, e)
         IN  IF Len(queue) > Depth
               THEN [subs[s] EXCEPT !.queue = Tail(queue), !.missed = TRUE]
               ELSE [subs[s] EXCEPT !.queue = queue]]

Take(e) == /\ Land(e)
           /\ cache' = IF cache = Cold THEN Cold ELSE Supersede(cache, e)
           /\ Publish(e)
           /\ written' = Append(written, e)

Fault == faults < MaxFaults /\ faults' = faults + 1

(* The events asked for next.  A tool's is no card.                        *)
Asked == {[id |-> i, n |-> writes + 1, card |-> FALSE] : i \in Ids} \cup
         {[id |-> i, n |-> writes + 1, card |-> TRUE] : i \in Ids \ Tools}
-----------------------------------------------------------------------------
Write == /\ phase = "on" /\ writes < MaxWrites
         /\ \E e \in Asked : Take(e)
         /\ writes' = writes + 1
         /\ UNCHANGED <<phase, todo, faults, disk>>

(* Mutant: the fold in memory outlives a failed append.                    *)
WriteFailsCached ==
  /\ phase = "on" /\ writes < MaxWrites
  /\ \E e \in Asked : Tear(e)
  /\ writes' = writes + 1 /\ Fault
  /\ UNCHANGED <<cache, phase, todo, written, subs, disk>>

(* append's error path.                                                    *)
WriteFails == /\ phase = "on" /\ writes < MaxWrites
              /\ \E e \in Asked : Tear(e)
              /\ cache' = Cold
              /\ writes' = writes + 1 /\ Fault
              /\ UNCHANGED <<phase, todo, written, subs, disk>>

Load == /\ phase = "on"
        /\ Remember
        /\ UNCHANGED <<lines, tail, phase, todo, written, subs, writes, faults,
                       disk>>

(* try_load and Cache::trim.                                               *)
Evict == /\ phase = "on"
         /\ cache' = Cold
         /\ UNCHANGED <<lines, tail, phase, todo, written, subs, writes,
                        faults, disk>>

(* stream_events: the fold and the feed behind it, in one critical section.*)
Fed == [on |-> TRUE, view |-> Answer, queue |-> <<>>, missed |-> FALSE,
        shed |-> {}]

Subscribe(s) ==
  /\ phase = "on" /\ ~subs[s].on
  /\ subs' = [subs EXCEPT ![s] = Fed]
  /\ Remember
  /\ UNCHANGED <<lines, tail, phase, todo, written, writes, faults, disk>>

Unsubscribe(s) ==
  /\ subs[s].on
  /\ subs' = [subs EXCEPT ![s] = NoFeed]
  /\ UNCHANGED <<lines, tail, cache, phase, todo, written, writes, faults,
                 disk>>

Receive(s) ==
  /\ subs[s].on /\ ~subs[s].missed /\ subs[s].queue # <<>>
  /\ subs' = [subs EXCEPT
                 ![s].view = Supersede(subs[s].view, Head(subs[s].queue)),
                 ![s].queue = Tail(subs[s].queue)]
  /\ UNCHANGED <<lines, tail, cache, phase, todo, written, writes, faults,
                 disk>>

Sheds(s) == IF s \in Phones THEN Tools ELSE {}

(* send_droppable to a phone: a tool's event is shed when the outbox is    *)
(* full, at once or from among the frames that wait in it (Outbox).  The   *)
(* frames keep their order, so whether an event will be is settled here.   *)
Shed(s) ==
  /\ subs[s].on /\ ~subs[s].missed /\ subs[s].queue # <<>>
  /\ Head(subs[s].queue).id \in Sheds(s)
  /\ subs' = [subs EXCEPT ![s].queue = Tail(subs[s].queue),
                          ![s].shed = @ \cup {Head(subs[s].queue).id}]
  /\ UNCHANGED <<lines, tail, cache, phase, todo, written, writes, faults,
                 disk>>

(* Mutant: a feed that has missed events goes on with what it has.         *)
CatchUpWithQueue(s) ==
  /\ subs[s].on /\ subs[s].missed
  /\ subs' = [subs EXCEPT ![s].missed = FALSE]
  /\ UNCHANGED <<lines, tail, cache, phase, todo, written, writes, faults,
                 disk>>

(* A feed that has missed events starts again from the fold.               *)
CatchUp(s) ==
  /\ subs[s].on /\ subs[s].missed
  /\ subs' = [subs EXCEPT ![s] = Fed]
  /\ Remember
  /\ UNCHANGED <<lines, tail, phase, todo, written, writes, faults, disk>>
-----------------------------------------------------------------------------
(* settle: every card still open is written again as expired, and then the *)
(* stream is compacted, before anything is served.                         *)
Cards(view) == {k \in DOMAIN view : view[k].card}

Expired(view) ==
  [k \in 1..Cardinality(Cards(view)) |->
     [view[Nth(Cards(view), k)] EXCEPT !.card = FALSE]]

Settle == /\ phase = "off"
          /\ phase' = "settling"
          /\ todo' = Expired(Answer)
          /\ Remember
          /\ UNCHANGED <<lines, tail, written, subs, writes, faults, disk>>

Expire == /\ phase = "settling" /\ todo # <<>>
          /\ Take(Head(todo))
          /\ todo' = Tail(todo)
          /\ UNCHANGED <<phase, writes, faults, disk>>

ExpireFails == /\ phase = "settling" /\ todo # <<>>
               /\ Tear(Head(todo))
               /\ cache' = Cold
               /\ todo' = Tail(todo) /\ Fault
               /\ UNCHANGED <<phase, written, subs, writes, disk>>

(* Mutant: the compacted segment is in the order of the last writes.       *)
CompactLatest ==
  /\ phase = "settling" /\ todo = <<>>
  /\ phase' = "on"
  /\ lines' = FoldLatest(Segment) /\ tail' = Ended /\ cache' = Cold
  /\ UNCHANGED <<todo, written, subs, writes, faults, disk>>

(* compact rewrites the open segment with its own fold, and leaves a file  *)
(* with nothing to read in it as it is.                                    *)
Compact == /\ phase = "settling" /\ todo = <<>>
           /\ phase' = "on"
           /\ IF \/ Fold(Segment) = <<>>
                 \/ tail = Ended /\ lines = Fold(Segment)
                THEN UNCHANGED <<lines, tail, cache>>
                ELSE lines' = Fold(Segment) /\ tail' = Ended /\ cache' = Cold
           /\ UNCHANGED <<todo, written, subs, writes, faults, disk>>

(* fs::write truncates the file and then writes it: a compaction that is   *)
(* cut leaves a prefix, and the process goes on when the disk was full.    *)
CutCompact == /\ phase = "settling" /\ todo = <<>> /\ disk = "cuts"
              /\ Fold(Segment) # <<>>
              /\ ~(tail = Ended /\ lines = Fold(Segment))
              /\ \E k \in 0..(Len(Fold(Segment)) - 1) :
                   lines' = SubSeq(Fold(Segment), 1, k)
              /\ tail' \in {Ended, Half}
              /\ cache' = Cold
              /\ phase' \in {"on", "off"} /\ Fault
              /\ UNCHANGED <<todo, written, subs, writes, disk>>

(* The process ends, between two steps or in the middle of an append.      *)
Exit == /\ phase # "off" /\ Fault
        /\ phase' = "off"
        /\ cache' = Cold
        /\ todo' = <<>>
        /\ subs' = [s \in Subscribers |-> NoFeed]
        /\ UNCHANGED <<written, disk>>
        /\ \/ UNCHANGED <<lines, tail, writes>>
           \/ /\ phase = "on" /\ writes < MaxWrites
              /\ \E e \in Asked : Tear(e)
              /\ writes' = writes + 1
           \/ /\ phase = "settling" /\ todo # <<>>
              /\ Tear(Head(todo))
              /\ UNCHANGED writes

LogNext == \/ Write \/ WriteFails \/ Load \/ Evict
           \/ \E s \in Subscribers : \/ Subscribe(s) \/ Unsubscribe(s)
                                     \/ Receive(s) \/ Shed(s)
                                     \/ CatchUp(s)
           \/ Settle \/ Expire \/ ExpireFails \/ Compact \/ CutCompact
           \/ Exit

LogSpec == LogInit /\ [][LogNext]_logVars
-----------------------------------------------------------------------------
Feed == [on : BOOLEAN, view : Seq(Event), queue : Seq(Event),
         missed : BOOLEAN, shed : SUBSET Ids]

LogTypeOK == /\ lines \in Seq(Event \cup {Junk})
             /\ tail \in Event \cup {Half, Ended}
             /\ cache \in Seq(Event) \cup {Cold}
             /\ phase \in {"off", "settling", "on"}
             /\ todo \in Seq(Event)
             /\ written \in Seq(Event)
             /\ subs \in [Subscribers -> Feed]
             /\ disk \in Disks
             /\ writes \in 0..MaxWrites /\ faults \in 0..MaxFaults

(* The fold in memory is the fold of the file, whatever was torn, run      *)
(* together or refused before it was read (with_fold_in, append, compact). *)
CacheIsFold == cache # Cold => cache = Fold(OnDisk)

(* Where no append is torn, a load answers what append answered Ok for,    *)
(* through eviction, restarts and compaction of one segment of several.    *)
LoadIsWritten == disk = "whole" => Answer = Fold(Older \o written)

(* Two folds that hold the same, in one order, of all but some ids.        *)
SameBut(ids, v, w) ==
  /\ \A k \in DOMAIN v : v[k].id \notin ids => \E l \in DOMAIN w : w[l] = v[k]
  /\ \A l \in DOMAIN w : w[l].id \notin ids => \E k \in DOMAIN v : v[k] = w[l]
  /\ \A i, j \in DOMAIN v, k, l \in DOMAIN w :
       v[i] = w[k] /\ v[j] = w[l] /\ v[i].id \notin ids /\ v[j].id \notin ids =>
         (i < j <=> k < l)

(* A subscription repeats nothing and loses nothing but, on a phone, tools:*)
(* what the client is sent, with what waits for it, is what a load answers *)
(* of all but those of which an event was shed                             *)
(* (snapshot_with, publish, stream_events, send_droppable).                *)
FeedIsLoad ==
  \A s \in Subscribers : disk = "whole" /\ subs[s].on /\ ~subs[s].missed =>
    /\ subs[s].shed \subseteq Sheds(s)
    /\ SameBut(subs[s].shed, Fold(subs[s].view \o subs[s].queue), Answer)

(* What a line holds once it is ended stays: later steps, torn appends and *)
(* restarts keep every event where it is, or as it was written since.      *)
History == Fold(Older \o lines)
HistoryStays ==
  [][lines' # lines /\ disk # "cuts" =>
       /\ Len(History) <= Len(History')
       /\ \A k \in DOMAIN History : /\ History[k].id = History'[k].id
                                    /\ History[k].n <= History'[k].n]_logVars

(* What a load answers is what is on the disk and, where no append was     *)
(* torn, what append answered Ok for (with_fold_in, append, compact).      *)
FoldIsTrue == LogTypeOK /\ CacheIsFold /\ LoadIsWritten
=============================================================================
