------------------------------ MODULE WireProofs ------------------------------
(***************************************************************************)
(* What a client of the wire is promised: by its socket, and by the log    *)
(* its subscriptions read.                                                 *)
(*                                                                         *)
(* The socket, for every script, desk, queue length and interleaving of    *)
(* readers, lanes, views and writer: a seat's work ends with it, and while *)
(* it is held what it asked for comes in order.                            *)
(*                                                                         *)
(* SeatsWorkEnds.  What a step opens it opens while the seat is held: a    *)
(* view's own steps need it open, and the ordered worker reads past a cut  *)
(* only once it has seen it.  So one fact has to be carried, that there is *)
(* a view for each subscription, and the rest is one look at each step.    *)
(*                                                                         *)
(* SeatAlwaysServedInOrder.  Two orders are carried.  The frames a seat    *)
(* waits for hold the required ones in the order of their numbers, all of  *)
(* those not yet written (InOrder): a shed or merged frame is taken out of *)
(* the middle and must be none of them.  And the ordered lane holds its    *)
(* frames in the order read (LineInv), each frame read for it being in     *)
(* line, under way or done while the seat is held (DoneInv): so whatever   *)
(* comes before the frame at its head is done.                             *)
(*                                                                         *)
(* The log, for every stream, number of writes, queue length and fault.    *)
(* A fold takes each id at its first place and as it was last written, so  *)
(* it is a set of places and not a recursion; three facts carry all the    *)
(* rest.  One event more supersedes (FoldAppends), which is what the fold  *)
(* in memory and a client do.  What folds alike folds alike with more      *)
(* behind it (FoldMore), and what stands behind may be folded first        *)
(* (FoldOver): a feed may send its queue one by one, and a compaction may  *)
(* rewrite one segment of several.                                         *)
(*                                                                         *)
(* FoldIsTrueHolds.  A fold is kept only of a file whose last line is      *)
(* ended (CacheTrue): without that a torn event would be in memory, and    *)
(* the next append would run into it and take it away.  HistoryStaysHolds  *)
(* needs that what is still to be written (the torn last line, the cards   *)
(* settle found open) was asked for after what the file holds of its id    *)
(* (Chronology).  FeedIsLoadHolds needs that what a client holds is its    *)
(* own fold (ViewsFolded), and that an event left out of a sequence leaves *)
(* the fold of every other id as it is, in its order (FoldWithout).        *)
(***************************************************************************)
EXTENDS Log, SeatedSocket, FiniteSetTheorems, WellFoundedInduction,
        SequenceTheorems, TLAPS

ViewsInv == views = [s \in Subs |-> views[s]]

NothingOpens == \A s \in Subs : Open(views'[s]) => Open(views[s])

(* One view is given a value it has only if it was open.                   *)
LEMMA OneView ==
  ASSUME ViewsInv, NEW s, NEW v, Views(s, v),
         s \in Subs => (Open(v) => Open(views[s]))
  PROVE  ViewsInv' /\ NothingOpens
  BY DEF Views, ViewsInv, NothingOpens

LEMMA ViewOpensNothing ==
  ASSUME ViewsInv, NEW s \in Subs, ViewSteps(s)
  PROVE  ViewsInv' /\ NothingOpens
  <1>1. Open(views[s])
    BY DEF ViewSteps, Open, Opens, SendsSnapshot, HearsUpsert, HearsTombstone,
           RoomLagged, HearsInfos, InfosLagged, Woken, RowsSent, Ends,
           SendsRow, Projects, Marks
  <1>2. \E v : Views(s, v)
    BY DEF ViewSteps, Opens, SendsSnapshot, HearsUpsert, HearsTombstone,
           RoomLagged, HearsInfos, InfosLagged, Woken, RowsSent, Ends,
           SendsRow, Projects, Marks
  <1> QED
    BY <1>1, <1>2, OneView

LEMMA FeedsOpenNothing ==
  ASSUME ViewsInv, NEW t,
         \/ Hints(t)
         \/ \E name : Writes(t, name)
  PROVE  ViewsInv' /\ NothingOpens
  BY DEF Hints, Writes, FedInfo, FedRoom, ViewsInv, NothingOpens

(* The steps that touch no view.                                           *)
LEMMA StillViews ==
  ASSUME ViewsInv, UNCHANGED views
  PROVE  ViewsInv' /\ NothingOpens
  BY DEF ViewsInv, NothingOpens
-----------------------------------------------------------------------------
Keeps == ViewsInv' /\ (cut /\ remote => under' \subseteq under /\ NothingOpens)

LEMMA ReaderKeeps ==
  ASSUME ViewsInv, Reader
  PROVE  Keeps
  <1>1. UNCHANGED <<views, under>>
    BY DEF Reader, Hello, Spawns, Queues
  <1> QED
    BY <1>1, StillViews DEF Keeps

(* The lanes look at the seat before they begin anything.                  *)
LEMMA LanesKeep ==
  ASSUME ViewsInv, NEW l, Begins(l)
  PROVE  Keeps
  <1>1. UNCHANGED views /\ (cut /\ remote => UNCHANGED under)
    BY DEF Begins, Stops
  <1> QED
    BY <1>1, StillViews DEF Keeps

LEMMA CommandsKeep ==
  ASSUME ViewsInv, NEW n,
         BeginsAlone(n) \/ Acts(n) \/ Replies(n) \/ DropsWork(n)
  PROVE  Keeps
  <1>1. CASE BeginsAlone(n)
    <2>1. UNCHANGED views /\ (cut /\ remote => UNCHANGED under)
      BY <1>1 DEF BeginsAlone, Stops
    <2> QED
      BY <2>1, StillViews DEF Keeps
  <1>2. CASE Acts(n)
    <2>1. UNCHANGED under
      BY <1>2 DEF Acts
    <2>2. UNCHANGED views \/ \E t, name : Writes(t, name)
      BY <1>2 DEF Acts, Lists
    <2>3. ViewsInv' /\ NothingOpens
      BY <2>2, StillViews, FeedsOpenNothing
    <2> QED
      BY <2>1, <2>3 DEF Keeps
  <1>3. CASE Replies(n)
    <2>1. UNCHANGED views /\ under' \subseteq under
      BY <1>3 DEF Replies
    <2> QED
      BY <2>1, StillViews DEF Keeps
  <1>4. CASE DropsWork(n)
    <2>1. UNCHANGED views /\ under' \subseteq under
      BY <1>4 DEF DropsWork
    <2> QED
      BY <2>1, StillViews DEF Keeps
  <1> QED
    BY <1>1, <1>2, <1>3, <1>4

(* A subscription is opened only while the seat is held: past a cut the    *)
(* ordered worker reads on only once it has seen it.                       *)
LEMMA OrderedKeeps ==
  ASSUME ViewsInv, Subscribes \/ Unsubscribes \/ Closes
  PROVE  Keeps
  <1>1. CASE Subscribes
    <2> DEFINE n == Head(line["ordered"])
    <2>1. UNCHANGED under /\ (cut => closed)
      BY <1>1 DEF Subscribes, NextOrdered, Sees
    <2>2. CASE closed
      BY <1>1, <2>1, <2>2, StillViews DEF Keeps, Subscribes
    <2>3. CASE ~closed
      <3>1. \/ UNCHANGED views
            \/ Views(Script[n].sub, Subscribed(Script[n].sub))
        BY <1>1, <2>3 DEF Subscribes
      <3>2. ViewsInv'
        BY <3>1, StillViews DEF Views, ViewsInv
      <3> QED
        BY <2>1, <2>3, <3>2 DEF Keeps
    <2> QED
      BY <2>2, <2>3
  <1>2. CASE Unsubscribes
    <2> DEFINE n == Head(line["ordered"])
    <2>1. UNCHANGED under
      BY <1>2 DEF Unsubscribes, NextOrdered
    <2>2. CASE closed
      BY <1>2, <2>1, <2>2, StillViews DEF Keeps, Unsubscribes
    <2>3. CASE ~closed
      <3>1. Views(Script[n].sub, Aborted(views[Script[n].sub]))
        BY <1>2, <2>3 DEF Unsubscribes
      <3>2. ViewsInv' /\ NothingOpens
        BY <3>1, OneView DEF Aborted
      <3> QED
        BY <2>1, <3>2 DEF Keeps
    <2> QED
      BY <2>2, <2>3
  <1>3. CASE Closes
    <2>1. /\ UNCHANGED under
          /\ views' = [s \in Subs |-> Aborted(views[s])]
      BY <1>3 DEF Closes
    <2>2. ViewsInv' /\ NothingOpens
      BY <2>1 DEF ViewsInv, NothingOpens, Aborted
    <2> QED
      BY <2>1, <2>2 DEF Keeps
  <1> QED
    BY <1>1, <1>2, <1>3

(* The views and the desk around the socket.                               *)
LEMMA DeskKeeps ==
  ASSUME ViewsInv, View \/ Told \/ Elsewhere
  PROVE  Keeps
  <1>1. UNCHANGED under
    BY DEF View, Told, Elsewhere, socketVars
  <1>2. CASE View
    BY <1>1, <1>2, ViewOpensNothing DEF View, Keeps
  <1>3. CASE Told
    BY <1>1, <1>3, FeedsOpenNothing DEF Told, Keeps
  <1>4. CASE Elsewhere
    <2>1. UNCHANGED views \/ \E t, name : Writes(t, name)
      BY <1>4 DEF Elsewhere, Lists, Speaks
    <2> QED
      BY <1>1, <2>1, StillViews, FeedsOpenNothing DEF Keeps
  <1> QED
    BY <1>2, <1>3, <1>4

LEMMA OthersKeep ==
  ASSUME ViewsInv, Writer \/ Goes \/ Chatter \/ UNCHANGED vars
  PROVE  Keeps
  <1>1. UNCHANGED <<views, under>>
    BY DEF Writer, Goes, Chatter, vars, socketVars
  <1> QED
    BY <1>1, StillViews DEF Keeps

LEMMA StepKeeps ==
  ASSUME ViewsInv, [Next]_vars
  PROVE  Keeps
  BY ReaderKeeps, LanesKeep, CommandsKeep, OrderedKeeps, DeskKeeps,
     OthersKeep DEF Next, Owed, Workers, Commands

LEMMA ViewsAtFirst ==
  ASSUME Init
  PROVE  ViewsInv
  BY DEF Init, ViewsInit, ViewsInv

(* docs/wire.md: a remote's work ends with its seat.  From the cut on no   *)
(* command is begun for it and no subscription of it opens, whatever the   *)
(* lanes, the independent reads and the ordered worker still held.         *)
THEOREM SeatsWorkEnds == Spec => CutEndsWork
  <1>1. ViewsInv /\ [Next]_vars => ViewsInv'
    BY StepKeeps DEF Keeps
  <1>2. ViewsInv /\ [Next]_vars =>
          [cut /\ remote => /\ under' \subseteq under
                           /\ \A s \in Subs : Open(views'[s]) => Open(views[s])
          ]_vars
    BY StepKeeps DEF Keeps, NothingOpens
  <1>3. Init => ViewsInv
    BY ViewsAtFirst
  <1> QED
    BY <1>1, <1>2, <1>3, PTL DEF Spec, CutEndsWork
-----------------------------------------------------------------------------
(* Least and greatest members, and a sequence without one of its places.   *)
LEMMA LeastNat ==
  ASSUME NEW T, T \subseteq Nat, T # {}
  PROVE  \E x \in T : \A y \in T : x <= y
<1> DEFINE R == OpToRel(<, Nat)
<1>1. IsWellFoundedOn(R, Nat)
  BY NatLessThanWellFounded
<1> HIDE DEF R
<1>2. PICK x \in T : \A y \in T : ~(<<y, x>> \in R)
  BY <1>1, WFMin
<1>3. \A a, b \in Nat : a < b => <<a, b>> \in R
  BY DEF R, OpToRel
<1>4. \A y \in T : ~(y < x)
  BY <1>2, <1>3
<1> QED BY <1>4

LEMMA MinIn ==
  ASSUME NEW T, T \subseteq Nat, T # {}
  PROVE  Min(T) \in T
BY LeastNat DEF Min

LEMMA MaxIn ==
  ASSUME NEW N \in Nat, NEW T, T \subseteq 1 .. N, T # {}
  PROVE  Max(T) \in T
<1>1. PICK x \in {N - y : y \in T} : \A z \in {N - y : y \in T} : x <= z
  <2>1. {N - y : y \in T} \subseteq Nat
    OBVIOUS
  <2>2. {N - y : y \in T} # {}
    OBVIOUS
  <2> QED BY <2>1, <2>2, LeastNat
<1>2. PICK top \in T : x = N - top
  BY <1>1
<1>3. ASSUME NEW y \in T PROVE top >= y
  <2>1. N - y \in {N - z : z \in T}
    OBVIOUS
  <2>2. x <= N - y
    BY <1>1, <2>1
  <2> QED BY <1>2, <2>2
<1> QED BY <1>3 DEF Max

LEMMA RemovedIs ==
  ASSUME NEW S, NEW q \in Seq(S), NEW i \in 1 .. Len(q)
  PROVE  /\ RemoveAt(q, i) \in Seq(S)
         /\ Len(RemoveAt(q, i)) = Len(q) - 1
         /\ \A j \in 1 .. Len(q) - 1 :
              RemoveAt(q, i)[j] = IF j < i THEN q[j] ELSE q[j + 1]
<1>1. /\ SubSeq(q, 1, i - 1) \in Seq(S) /\ Len(SubSeq(q, 1, i - 1)) = i - 1
      /\ \A j \in 1 .. i - 1 : SubSeq(q, 1, i - 1)[j] = q[j]
  OBVIOUS
<1>2. /\ SubSeq(q, i + 1, Len(q)) \in Seq(S)
      /\ Len(SubSeq(q, i + 1, Len(q))) = Len(q) - i
      /\ \A j \in 1 .. Len(q) - i : SubSeq(q, i + 1, Len(q))[j] = q[i + j]
  OBVIOUS
<1>3. PICK a, b : a = SubSeq(q, 1, i - 1) /\ b = SubSeq(q, i + 1, Len(q))
  OBVIOUS
<1>4. RemoveAt(q, i) = a \o b
  BY <1>3 DEF RemoveAt
<1>7. /\ a \in Seq(S) /\ Len(a) = i - 1
      /\ \A j \in 1 .. i - 1 : a[j] = q[j]
  BY <1>1, <1>3
<1>8. /\ b \in Seq(S) /\ Len(b) = Len(q) - i
      /\ \A j \in 1 .. Len(q) - i : b[j] = q[i + j]
  BY <1>2, <1>3
<1>5. a \o b \in Seq(S) /\ Len(a \o b) = Len(q) - 1
  <2>4. a \in Seq(S) /\ b \in Seq(S)
    BY <1>7, <1>8
  <2>1. a \o b \in Seq(S)
    BY <2>4, ConcatProperties
  <2>2. Len(a \o b) = Len(a) + Len(b)
    BY <2>4, ConcatProperties
  <2>3. Len(a) + Len(b) = Len(q) - 1
    BY <1>7, <1>8
  <2> QED BY <2>1, <2>2, <2>3
<1>6. ASSUME NEW j \in 1 .. Len(q) - 1
      PROVE  (a \o b)[j] = IF j < i THEN q[j] ELSE q[j + 1]
  <2>1. CASE j < i
    <3>1. (a \o b)[j] = a[j]
      BY <1>7, <1>8, <2>1
    <3> QED BY <1>7, <2>1, <3>1
  <2>2. CASE ~(j < i)
    <3>1. j - (i - 1) \in 1 .. Len(q) - i /\ i + (j - (i - 1)) = j + 1
      BY <2>2
    <3>2. (a \o b)[j] = b[j - (i - 1)]
      BY <1>7, <1>8, <2>2
    <3>3. b[j - (i - 1)] = q[i + (j - (i - 1))]
      BY <1>8, <3>1
    <3> QED BY <2>2, <3>1, <3>2, <3>3
  <2> QED BY <2>1, <2>2
<1> QED BY <1>4, <1>5, <1>6
-----------------------------------------------------------------------------
(* The required frames of q, in the order of their numbers, from the one   *)
(* after h to s.                                                           *)
Wants(q) == {i \in DOMAIN q : q[i].kind = "required"}

InOrder(q, h, s) ==
  /\ \A i \in Wants(q) : q[i].n \in h + 1 .. s
  /\ \A i, j \in Wants(q) : i < j => q[i].n < q[j].n
  /\ \A k \in h + 1 .. s : \E i \in Wants(q) : q[i].n = k

LEMMA AppendOrder ==
  ASSUME NEW S, NEW q \in Seq(S), NEW f \in S, NEW h \in Nat, NEW s \in Nat,
         InOrder(q, h, s), h <= s,
         NEW t, IF f.kind = "required" THEN f.n = s + 1 /\ t = s + 1 ELSE t = s
  PROVE  InOrder(Append(q, f), h, t)
<1> PICK p : p = Append(q, f)
  OBVIOUS
<1>1. /\ DOMAIN p = 1 .. Len(q) + 1 /\ DOMAIN q = 1 .. Len(q)
      /\ \A i \in DOMAIN q : p[i] = q[i]
      /\ p[Len(q) + 1] = f
  OBVIOUS
<1>2. CASE f.kind = "required"
  <2>1. Wants(p) = Wants(q) \cup {Len(q) + 1}
    BY <1>1, <1>2 DEF Wants
  <2>2. \A i \in Wants(q) : i \in DOMAIN q /\ i < Len(q) + 1 /\ p[i] = q[i]
    BY <1>1 DEF Wants
  <2>3. \A i \in Wants(p) : p[i].n \in h + 1 .. s + 1
    BY <1>1, <1>2, <2>1, <2>2 DEF InOrder
  <2>4. \A i, j \in Wants(p) : i < j => p[i].n < p[j].n
    BY <1>1, <1>2, <2>1, <2>2 DEF InOrder
  <2>5. \A k \in h + 1 .. s + 1 : \E i \in Wants(p) : p[i].n = k
    BY <1>1, <1>2, <2>1, <2>2 DEF InOrder
  <2> QED BY <1>2, <2>3, <2>4, <2>5 DEF InOrder
<1>3. CASE f.kind # "required"
  <2>1. Wants(p) = Wants(q)
    BY <1>1, <1>3 DEF Wants
  <2>2. \A i \in Wants(q) : p[i] = q[i]
    BY <1>1 DEF Wants
  <2> QED BY <1>3, <2>1, <2>2 DEF InOrder
<1> QED BY <1>2, <1>3

LEMMA RemoveOrder ==
  ASSUME NEW S, NEW q \in Seq(S), NEW at \in DOMAIN q, NEW h \in Nat, NEW s \in Nat,
         InOrder(q, h, s), q[at].kind # "required"
  PROVE  InOrder(RemoveAt(q, at), h, s)
<1> PICK p : p = RemoveAt(q, at)
  OBVIOUS
<1>0. DOMAIN q = 1 .. Len(q) /\ Len(q) \in Nat
  OBVIOUS
<1>1. /\ p \in Seq(S) /\ Len(p) = Len(q) - 1
      /\ \A j \in 1 .. Len(q) - 1 : p[j] = IF j < at THEN q[j] ELSE q[j + 1]
  BY <1>0, RemovedIs
<1>2. DOMAIN p = 1 .. Len(q) - 1
  BY <1>1
<1> DEFINE From(j) == IF j < at THEN j ELSE j + 1
<1>3. \A j \in DOMAIN p : p[j] = q[From(j)] /\ From(j) \in DOMAIN q
  BY <1>0, <1>1, <1>2
<1>4. \A j \in DOMAIN p : j \in Wants(p) <=> From(j) \in Wants(q)
  BY <1>3 DEF Wants
<1>5. \A i \in Wants(q) : \E j \in DOMAIN p : From(j) = i
  <2> SUFFICES ASSUME NEW i \in Wants(q) PROVE \E j \in DOMAIN p : From(j) = i
    OBVIOUS
  <2>1. i \in DOMAIN q /\ i # at
    BY DEF Wants
  <2>2. CASE i < at
    <3>1. i \in DOMAIN p /\ From(i) = i
      BY <1>0, <1>2, <2>1, <2>2
    <3> QED BY <3>1
  <2>3. CASE ~(i < at)
    <3>1. i - 1 \in DOMAIN p /\ From(i - 1) = i
      BY <1>0, <1>2, <2>1, <2>3
    <3> QED BY <3>1
  <2> QED BY <2>2, <2>3
<1>6. \A i, j \in DOMAIN p : i < j => From(i) < From(j)
  BY <1>0, <1>2
<1> HIDE DEF From
<1>7. \A i \in Wants(p) : i \in DOMAIN p /\ From(i) \in Wants(q) /\ p[i] = q[From(i)]
  BY <1>3, <1>4 DEF Wants
<1>8. \A i \in Wants(p) : p[i].n \in h + 1 .. s
  BY <1>7 DEF InOrder
<1>9. \A i, j \in Wants(p) : i < j => p[i].n < p[j].n
  BY <1>6, <1>7 DEF InOrder
<1>10. \A k \in h + 1 .. s : \E i \in Wants(p) : p[i].n = k
  <2> SUFFICES ASSUME NEW k \in h + 1 .. s PROVE \E i \in Wants(p) : p[i].n = k
    OBVIOUS
  <2>1. PICK i \in Wants(q) : q[i].n = k
    BY DEF InOrder
  <2>2. PICK j \in DOMAIN p : From(j) = i
    BY <1>5
  <2>3. j \in Wants(p) /\ p[j].n = k
    BY <1>3, <1>4, <2>1, <2>2
  <2> QED BY <2>3
<1> QED BY <1>8, <1>9, <1>10 DEF InOrder

LEMMA TailOrder ==
  ASSUME NEW S, NEW q \in Seq(S), q # <<>>, NEW h \in Nat, NEW s \in Nat,
         InOrder(q, h, s), h <= s
  PROVE  IF Head(q).kind = "required"
         THEN /\ Head(q).n = h + 1 /\ h + 1 <= s
              /\ InOrder(Tail(q), h + 1, s)
         ELSE InOrder(Tail(q), h, s)
<1> PICK p : p = Tail(q)
  OBVIOUS
<1>1. /\ DOMAIN q = 1 .. Len(q) /\ Len(q) \in Nat /\ Len(q) > 0
      /\ DOMAIN p = 1 .. Len(q) - 1
      /\ \A j \in DOMAIN p : p[j] = q[j + 1]
      /\ Head(q) = q[1]
  OBVIOUS
<1>2. \A j \in Wants(p) : j \in DOMAIN p /\ j + 1 \in Wants(q) /\ p[j] = q[j + 1]
                          /\ j \in Nat /\ j > 0
  BY <1>1 DEF Wants
<1>3. \A i \in Wants(q) : i # 1 => i - 1 \in Wants(p) /\ p[i - 1] = q[i]
  <2> SUFFICES ASSUME NEW i \in Wants(q), i # 1
               PROVE  i - 1 \in Wants(p) /\ p[i - 1] = q[i]
    OBVIOUS
  <2>1. i \in 1 .. Len(q) /\ i - 1 \in DOMAIN p /\ (i - 1) + 1 = i
    BY <1>1 DEF Wants
  <2>2. p[i - 1] = q[i]
    BY <1>1, <2>1
  <2> QED BY <2>1, <2>2 DEF Wants
<1>4. CASE Head(q).kind = "required"
  <2>1. 1 \in Wants(q)
    BY <1>1, <1>4 DEF Wants
  <2>2. q[1].n \in h + 1 .. s
    BY <2>1 DEF InOrder
  <2>3. q[1].n = h + 1
    <3>1. PICK i \in Wants(q) : q[i].n = h + 1
      BY <2>2 DEF InOrder
    <3>2. i = 1 \/ 1 < i
      BY <1>1 DEF Wants
    <3>3. 1 < i => q[1].n < q[i].n
      BY <2>1 DEF InOrder
    <3> QED BY <2>2, <3>1, <3>2, <3>3
  <2>4. \A j \in Wants(p) : p[j].n \in h + 2 .. s
    <3> SUFFICES ASSUME NEW j \in Wants(p) PROVE p[j].n \in h + 2 .. s
      OBVIOUS
    <3>1. j + 1 \in Wants(q) /\ 1 < j + 1 /\ p[j].n = q[j + 1].n
      BY <1>2
    <3>2. q[1].n < q[j + 1].n
      BY <2>1, <3>1 DEF InOrder
    <3>3. q[j + 1].n \in h + 1 .. s
      BY <3>1 DEF InOrder
    <3>4. \A x \in h + 1 .. s : h + 1 < x => x \in h + 2 .. s
      OBVIOUS
    <3>5. q[j + 1].n \in h + 2 .. s
      BY <2>3, <3>2, <3>3, <3>4
    <3> QED BY <3>1, <3>5
  <2>5. \A i, j \in Wants(p) : i < j => p[i].n < p[j].n
    <3> SUFFICES ASSUME NEW i \in Wants(p), NEW j \in Wants(p), i < j
                 PROVE  p[i].n < p[j].n
      OBVIOUS
    <3>1. i + 1 < j + 1 /\ i + 1 \in Wants(q) /\ j + 1 \in Wants(q)
      BY <1>2
    <3> QED BY <1>2, <3>1 DEF InOrder
  <2>6. \A k \in h + 2 .. s : \E i \in Wants(p) : p[i].n = k
    <3> SUFFICES ASSUME NEW k \in h + 2 .. s PROVE \E i \in Wants(p) : p[i].n = k
      OBVIOUS
    <3>1. PICK i \in Wants(q) : q[i].n = k
      BY DEF InOrder
    <3>2. i # 1
      BY <2>3, <3>1
    <3>3. i - 1 \in Wants(p) /\ p[i - 1].n = k
      BY <1>3, <3>1, <3>2
    <3> QED BY <3>3
  <2>7. InOrder(p, h + 1, s)
    <3>1. (h + 1) + 1 = h + 2
      OBVIOUS
    <3> QED BY <2>4, <2>5, <2>6, <3>1 DEF InOrder
  <2> QED BY <1>1, <1>4, <2>2, <2>3, <2>7
<1>5. CASE Head(q).kind # "required"
  <2>1. 1 \notin Wants(q)
    BY <1>1, <1>5 DEF Wants
  <2>4. \A j \in Wants(p) : p[j].n \in h + 1 .. s
    BY <1>2 DEF InOrder
  <2>5. \A i, j \in Wants(p) : i < j => p[i].n < p[j].n
    <3> SUFFICES ASSUME NEW i \in Wants(p), NEW j \in Wants(p), i < j
                 PROVE  p[i].n < p[j].n
      OBVIOUS
    <3>1. i + 1 < j + 1 /\ i + 1 \in Wants(q) /\ j + 1 \in Wants(q)
      BY <1>2
    <3> QED BY <1>2, <3>1 DEF InOrder
  <2>6. \A k \in h + 1 .. s : \E i \in Wants(p) : p[i].n = k
    <3> SUFFICES ASSUME NEW k \in h + 1 .. s PROVE \E i \in Wants(p) : p[i].n = k
      OBVIOUS
    <3>1. PICK i \in Wants(q) : q[i].n = k
      BY DEF InOrder
    <3>3. i - 1 \in Wants(p) /\ p[i - 1].n = k
      BY <1>3, <2>1, <3>1
    <3> QED BY <3>3
  <2> QED BY <1>5, <2>4, <2>5, <2>6 DEF InOrder
<1> QED BY <1>4, <1>5
-----------------------------------------------------------------------------
(* What waits to be written.                                                *)
ListValues == {0, 1, Omitted}

RowType == [name : 0 .. 2, said : Nat, lists : [Keys -> ListValues]]

FrameType == [kind : {"required", "droppable", "roster"},
              what : {"reply", "words", "removed", "snapshot", "row"},
              sub : Subs \cup {0}, of : Teammates \cup {""},
              row : RowType, rows : [Teammates -> RowType], n : Nat]

(* A frame made now.                                                       *)
Made(f) == f \in FrameType /\ (f.kind = "required" => f.n = sent + 1)

OutInv ==
  /\ remote \in BOOLEAN /\ cut \in BOOLEAN
  /\ outq \in Seq(FrameType)
  /\ remote => Len(outq) <= Capacity
  /\ sent \in Nat /\ heard \in 0 .. sent
  /\ InOrder(outq, heard, sent)

LEMMA CarriedIs ==
  ASSUME NEW f \in FrameType, NEW old \in FrameType
  PROVE  Carried(f, old) \in FrameType /\ Carried(f, old).kind = f.kind
<1>1. PICK lists : lists = [k \in Keys |-> IF f.row.lists[k] = Omitted
                                           THEN old.row.lists[k]
                                           ELSE f.row.lists[k]]
  OBVIOUS
<1>2. f.row \in RowType /\ old.row \in RowType
  BY DEF FrameType
<1>3. lists \in [Keys -> ListValues]
  BY <1>1, <1>2 DEF RowType
<1>4. PICK row : row = [f.row EXCEPT !.lists = lists]
  OBVIOUS
<1>5. row \in RowType
  BY <1>2, <1>3, <1>4 DEF RowType
<1>6. Carried(f, old) = [f EXCEPT !.row = row]
  BY <1>1, <1>4 DEF Carried
<1> QED BY <1>5, <1>6 DEF FrameType

LEMMA AppendedIs ==
  ASSUME NEW S, NEW p \in Seq(S), NEW e \in S
  PROVE  Append(p, e) \in Seq(S) /\ Len(Append(p, e)) = Len(p) + 1
OBVIOUS

LEMMA OfferedKeeps ==
  ASSUME NEW q \in Seq(FrameType), Len(q) <= Capacity, NEW f \in FrameType,
         NEW h \in Nat, NEW s \in Nat, h <= s, InOrder(q, h, s),
         f.kind = "required" => f.n = s + 1,
         NEW t, t = IF f.kind # "required" \/ Refused(q, f) THEN s ELSE s + 1
  PROVE  /\ Offered(q, f) \in Seq(FrameType) /\ Len(Offered(q, f)) <= Capacity
         /\ InOrder(Offered(q, f), h, t)
<1>1. Len(q) \in Nat /\ DOMAIN q = 1 .. Len(q) /\ Capacity \in Nat /\ Capacity > 0
  BY OutboxAssumption
<1>2. CASE Pending(q, f) # {}
  <2>1. PICK at : at = Max(Pending(q, f))
    OBVIOUS
  <2>2. at \in Pending(q, f)
    <3>1. Pending(q, f) \subseteq 1 .. Len(q)
      BY <1>1 DEF Pending
    <3> QED BY <1>1, <1>2, <2>1, <3>1, MaxIn
  <2>3. at \in DOMAIN q /\ q[at].kind = "roster" /\ f.kind = "roster"
    BY <2>2 DEF Pending
  <2>4. q[at] \in FrameType
    BY <2>3
  <2>5. PICK g : g = Carried(f, q[at])
    OBVIOUS
  <2>6. g \in FrameType /\ g.kind = "roster"
    BY <2>3, <2>4, <2>5, CarriedIs
  <2>7. PICK p : p = RemoveAt(q, at)
    OBVIOUS
  <2>8. p \in Seq(FrameType) /\ Len(p) = Len(q) - 1
    BY <1>1, <2>3, <2>7, RemovedIs
  <2>9. InOrder(p, h, s)
    BY <2>3, <2>7, RemoveOrder
  <2>10. Offered(q, f) = Append(p, g)
    BY <1>2, <2>1, <2>5, <2>7 DEF Offered
  <2>11. Append(p, g) \in Seq(FrameType) /\ Len(Append(p, g)) = Len(q)
    <3>1. Append(p, g) \in Seq(FrameType) /\ Len(Append(p, g)) = Len(p) + 1
      BY <2>6, <2>8, AppendedIs
    <3> QED BY <1>1, <2>8, <3>1
  <2>12. InOrder(Append(p, g), h, s)
    BY <2>6, <2>8, <2>9, AppendOrder
  <2>13. t = s
    BY <2>3
  <2> QED BY <2>10, <2>11, <2>12, <2>13
<1>3. CASE Pending(q, f) = {} /\ ~Full(q, f)
  <2>1. Offered(q, f) = Append(q, f) /\ Len(q) < Capacity
    BY <1>1, <1>3 DEF Offered, Full
  <2>2. ~Refused(q, f)
    BY <1>3 DEF Refused
  <2>3. Append(q, f) \in Seq(FrameType) /\ Len(Append(q, f)) = Len(q) + 1
    OBVIOUS
  <2>4. InOrder(Append(q, f), h, t)
    BY <2>2, AppendOrder
  <2> QED BY <1>1, <2>1, <2>3, <2>4
<1>4. CASE Pending(q, f) = {} /\ Full(q, f) /\ Sheddable(q) # {}
  <2>1. PICK at : at = Min(Sheddable(q))
    OBVIOUS
  <2>2. at \in Sheddable(q)
    <3>1. Sheddable(q) \subseteq Nat
      BY <1>1 DEF Sheddable
    <3> QED BY <1>4, <2>1, <3>1, MinIn
  <2>3. at \in DOMAIN q /\ q[at].kind = "droppable"
    BY <2>2 DEF Sheddable
  <2>7. PICK p : p = RemoveAt(q, at)
    OBVIOUS
  <2>8. p \in Seq(FrameType) /\ Len(p) = Len(q) - 1
    BY <1>1, <2>3, <2>7, RemovedIs
  <2>9. InOrder(p, h, s)
    BY <2>3, <2>7, RemoveOrder
  <2>10. Offered(q, f) = Append(p, f)
    BY <1>4, <2>1, <2>7 DEF Offered
  <2>11. Append(p, f) \in Seq(FrameType) /\ Len(Append(p, f)) = Len(q)
    <3>1. Append(p, f) \in Seq(FrameType) /\ Len(Append(p, f)) = Len(p) + 1
      BY <2>8, AppendedIs
    <3> QED BY <1>1, <2>8, <3>1
  <2>12. ~Refused(q, f)
    BY <1>4 DEF Refused
  <2>13. InOrder(Append(p, f), h, t)
    BY <2>8, <2>9, <2>12, AppendOrder
  <2> QED BY <2>10, <2>11, <2>13
<1>5. CASE Pending(q, f) = {} /\ Full(q, f) /\ Sheddable(q) = {}
  <2>1. Offered(q, f) = q
    BY <1>5 DEF Offered
  <2>2. t = s
    BY <1>5 DEF Refused
  <2> QED BY <2>1, <2>2
<1> QED BY <1>2, <1>3, <1>4, <1>5

LEMMA SendsKeep ==
  ASSUME OutInv, NEW f, Made(f), Sends(f), heard' = heard
  PROVE  OutInv'
<1>1. f \in FrameType /\ (f.kind = "required" => f.n = sent + 1)
  BY DEF Made
<1>2. /\ outq \in Seq(FrameType) /\ heard \in Nat /\ sent \in Nat /\ heard <= sent
      /\ InOrder(outq, heard, sent)
  BY DEF OutInv
<1>3. remote' = remote /\ cut' \in BOOLEAN
  BY DEF Sends, OutInv
<1>4. CASE cut
  BY <1>3, <1>4 DEF Sends, OutInv, InOrder, Wants
<1>5. CASE ~cut /\ remote
  <2>1. /\ outq' = Offered(outq, f)
        /\ sent' = IF f.kind # "required" \/ Refused(outq, f) THEN sent ELSE sent + 1
    BY <1>5 DEF Sends
  <2>2. Len(outq) <= Capacity
    BY <1>5 DEF OutInv
  <2>3. /\ outq' \in Seq(FrameType) /\ Len(outq') <= Capacity
        /\ InOrder(outq', heard, sent')
    BY <1>1, <1>2, <2>1, <2>2, OfferedKeeps
  <2>4. InOrder(outq, heard, sent)'
    BY <2>3 DEF InOrder, Wants
  <2>5. sent' \in Nat /\ heard' \in 0 .. sent'
    BY <1>2, <2>1
  <2> QED BY <1>3, <2>3, <2>4, <2>5 DEF OutInv
<1>6. CASE ~cut /\ ~remote
  <2>1. /\ outq' = Append(outq, f)
        /\ sent' = IF f.kind # "required" THEN sent ELSE sent + 1
    BY <1>6 DEF Sends
  <2>2. outq' \in Seq(FrameType)
    BY <1>1, <1>2, <2>1
  <2>3. InOrder(outq', heard, sent')
    BY <1>1, <1>2, <2>1, AppendOrder
  <2>4. InOrder(outq, heard, sent)'
    BY <2>3 DEF InOrder, Wants
  <2>5. sent' \in Nat /\ heard' \in 0 .. sent'
    BY <1>2, <2>1
  <2> QED BY <1>3, <1>6, <2>2, <2>4, <2>5 DEF OutInv
<1> QED BY <1>4, <1>5, <1>6 DEF OutInv

(* The frames a desk makes.                                                *)
LEMMA NoRowIs == NoRow \in RowType /\ NoRows \in [Teammates -> RowType]
  BY DEF NoRow, NoRows, Without, RowType, ListValues

LEMMA FrameOfIs ==
  ASSUME sent \in Nat, NEW kind \in {"required", "droppable", "roster"},
         NEW what \in {"reply", "words", "removed", "snapshot", "row"},
         NEW sub \in Subs \cup {0}
  PROVE  FrameOf(kind, what, sub) \in FrameType /\ Made(FrameOf(kind, what, sub))
<1>1. (IF kind = "required" THEN sent + 1 ELSE 0) \in Nat
  OBVIOUS
<1>2. FrameOf(kind, what, sub) \in FrameType
  BY <1>1, NoRowIs DEF FrameOf, FrameType
<1> QED BY <1>2 DEF Made, FrameOf

LEMMA MadePlain == sent \in Nat => Made(Reply) /\ Made(Words)
  BY FrameOfIs DEF Reply, Words

LEMMA MadeRemoval ==
  ASSUME sent \in Nat, NEW s \in Subs, NEW t \in Teammates
  PROVE  Made(Removal(s, t))
<1>1. PICK f : f = FrameOf("required", "removed", s)
  OBVIOUS
<1>2. f \in FrameType /\ Made(f)
  BY <1>1, FrameOfIs
<1> QED BY <1>1, <1>2 DEF Made, Removal, FrameType

LEMMA MadeSnapshot ==
  ASSUME sent \in Nat, NEW s \in Subs, NEW rows \in [Teammates -> RowType]
  PROVE  Made(Snapshot(s, rows))
<1>1. PICK f : f = FrameOf("required", "snapshot", s)
  OBVIOUS
<1>2. f \in FrameType /\ Made(f)
  BY <1>1, FrameOfIs
<1> QED BY <1>1, <1>2 DEF Made, Snapshot, FrameType

LEMMA MadeRow ==
  ASSUME sent \in Nat, NEW s \in Subs, NEW t \in Teammates, NEW row \in RowType
  PROVE  Made(RosterRow(s, t, row))
<1>1. PICK f : f = FrameOf("roster", "row", s)
  OBVIOUS
<1>2. f \in FrameType /\ Made(f) /\ f.kind = "roster"
  BY <1>1, FrameOfIs DEF FrameOf
<1> QED BY <1>1, <1>2 DEF Made, RosterRow, FrameType

LEMMA WriterKeeps ==
  ASSUME OutInv, Writer
  PROVE  OutInv'
<1>1. /\ outq \in Seq(FrameType) /\ outq # <<>> /\ heard \in Nat /\ sent \in Nat
      /\ heard <= sent /\ InOrder(outq, heard, sent)
  BY DEF OutInv, Writer
<1>2. /\ outq' = Tail(outq) /\ UNCHANGED <<remote, cut, sent>>
      /\ heard' = IF Head(outq).kind = "required" THEN Head(outq).n ELSE heard
  BY DEF Writer
<1>3. outq' \in Seq(FrameType) /\ Len(outq') = Len(outq) - 1
  BY <1>1, <1>2
<1>4. InOrder(outq', heard', sent') /\ heard' \in 0 .. sent'
  BY <1>1, <1>2, TailOrder
<1>5. InOrder(outq, heard, sent)'
  BY <1>4 DEF InOrder, Wants
<1>6. remote' => Len(outq') <= Capacity
  BY <1>1, <1>2, <1>3, OutboxAssumption DEF OutInv
<1> QED BY <1>2, <1>3, <1>4, <1>5, <1>6 DEF OutInv
-----------------------------------------------------------------------------
(* The views and the desk they show stay what they are.                    *)
WatchType == [on : BOOLEAN, said : Nat, marks : BOOLEAN, knows : [Keys -> ListValues]]

EventType == [of : Teammates, name : 0 .. 2]
RoomQueues == {q \in Seq(EventType) : Len(q) <= RoomDepth}
InfoQueues == {q \in Seq(Teammates) : Len(q) <= InfoDepth}

ViewType == [stage : {"none", "subscribed", "snapshot", "loop", "rows", "over"},
             aborted : BOOLEAN, roomq : RoomQueues, roomLost : BOOLEAN,
             infoq : InfoQueues, infoLost : BOOLEAN,
             personas : [Teammates -> 0 .. 2],
             watched : [Teammates -> WatchType],
             dirty : SUBSET Teammates, wake : BOOLEAN,
             taken : SUBSET Teammates]

ViewTypes == views \in [Subs -> ViewType]

TruthTypes == /\ room \in [Teammates -> 0 .. 2]
              /\ tape \in [Teammates -> Nat]
              /\ session \in [Teammates -> [Keys -> 0 .. 1]]
              /\ owed \subseteq Teammates
              /\ declared \in BOOLEAN

LEMMA DepthIs ==
  /\ RoomDepth \in Nat /\ RoomDepth > 0 /\ InfoDepth \in Nat /\ InfoDepth > 0
  BY RosterAssumption

LEMMA PushIs ==
  ASSUME NEW S, NEW q \in Seq(S), NEW e \in S, NEW d \in Nat, d > 0, Len(q) <= d
  PROVE  /\ Len(q) = d => /\ Append(Tail(q), e) \in Seq(S)
                          /\ Len(Append(Tail(q), e)) <= d
         /\ Len(q) # d => Append(q, e) \in Seq(S) /\ Len(Append(q, e)) <= d
<1>1. CASE Len(q) = d
  <2>1. Tail(q) \in Seq(S) /\ Len(Tail(q)) = d - 1
    <3>1. q # <<>>
      BY <1>1
    <3> QED BY <1>1, <3>1
  <2> QED BY <1>1, <2>1, AppendedIs
<1>2. CASE Len(q) # d
  <2>1. Append(q, e) \in Seq(S) /\ Len(Append(q, e)) = Len(q) + 1
    BY AppendedIs
  <2> QED BY <1>2, <2>1
<1> QED BY <1>1, <1>2

LEMMA FedRoomIs ==
  ASSUME NEW v \in ViewType, NEW e \in EventType
  PROVE  FedRoom(v, e) \in ViewType
<1>1. PICK q : q = IF Len(v.roomq) = RoomDepth THEN Append(Tail(v.roomq), e)
                                               ELSE Append(v.roomq, e)
  OBVIOUS
<1>2. v.roomq \in Seq(EventType) /\ Len(v.roomq) <= RoomDepth
  BY DEF ViewType, RoomQueues
<1>3. q \in RoomQueues
  BY <1>1, <1>2, DepthIs, PushIs DEF RoomQueues
<1>4. PICK lost \in BOOLEAN : lost = (v.roomLost \/ Len(v.roomq) = RoomDepth)
  OBVIOUS
<1>5. FedRoom(v, e) = IF ~Open(v) THEN v
                      ELSE [v EXCEPT !.roomq = q, !.roomLost = lost]
  BY <1>1, <1>4 DEF FedRoom
<1> QED BY <1>3, <1>5, ZenonT(60) DEF ViewType

LEMMA FedInfoIs ==
  ASSUME NEW v \in ViewType, NEW t \in Teammates
  PROVE  FedInfo(v, t) \in ViewType
<1>1. PICK q : q = IF Len(v.infoq) = InfoDepth THEN Append(Tail(v.infoq), t)
                                               ELSE Append(v.infoq, t)
  OBVIOUS
<1>2. v.infoq \in Seq(Teammates) /\ Len(v.infoq) <= InfoDepth
  BY DEF ViewType, InfoQueues
<1>3. q \in InfoQueues
  BY <1>1, <1>2, DepthIs, PushIs DEF InfoQueues
<1>4. PICK lost \in BOOLEAN : lost = (v.infoLost \/ Len(v.infoq) = InfoDepth)
  OBVIOUS
<1>5. FedInfo(v, t) = IF ~Open(v) THEN v
                      ELSE [v EXCEPT !.infoq = q, !.infoLost = lost]
  BY <1>1, <1>4 DEF FedInfo
<1> QED BY <1>3, <1>5, ZenonT(60) DEF ViewType

LEMMA UnwatchedIs == Unwatched \in WatchType
  BY DEF Unwatched, WatchType, Without, ListValues

LEMMA ClosedIs ==
  Closed \in ViewType /\ [Closed EXCEPT !.stage = "over"] \in ViewType
  /\ [Closed EXCEPT !.stage = "subscribed"] \in ViewType
<1>1. <<>> \in RoomQueues /\ <<>> \in InfoQueues
  BY DepthIs DEF RoomQueues, InfoQueues
<1>2. Closed \in ViewType
  BY <1>1, UnwatchedIs DEF Closed, ViewType
<1> QED BY <1>2 DEF ViewType

LEMMA MarkedIs ==
  ASSUME NEW v \in ViewType, NEW ts \in SUBSET Teammates
  PROVE  Marked(v, ts) \in ViewType
<1>1. PICK wake \in BOOLEAN : wake = (v.wake \/ ts # {})
  OBVIOUS
<1>2. Marked(v, ts) = [v EXCEPT !.dirty = @ \cup ts, !.wake = wake]
  BY <1>1 DEF Marked
<1> QED BY <1>2 DEF ViewType

LEMMA WatchingIs ==
  ASSUME TruthTypes, NEW w \in [Teammates -> WatchType], NEW t \in Teammates
  PROVE  Watching(w, t) \in [Teammates -> WatchType]
<1>1. PICK u : u = [Unwatched EXCEPT !.on = TRUE, !.said = tape[t]]
  OBVIOUS
<1>2. u \in WatchType
  BY <1>1, UnwatchedIs DEF WatchType, TruthTypes
<1>3. Watching(w, t) = w \/ Watching(w, t) = [w EXCEPT ![t] = u]
  BY <1>1 DEF Watching
<1> QED BY <1>2, <1>3

LEMMA RefreshedIs ==
  ASSUME TruthTypes, NEW v \in ViewType
  PROVE  Refreshed(v) \in ViewType
<1>1. v.watched \in [Teammates -> WatchType]
  BY DEF ViewType
<1>2. PICK w : w = [t \in Teammates |->
              IF room[t] = 0 THEN Unwatched ELSE Watching(v.watched, t)[t]]
  OBVIOUS
<1>3. \A t \in Teammates : Watching(v.watched, t)[t] \in WatchType
  BY <1>1, WatchingIs
<1>4. w \in [Teammates -> WatchType]
  BY <1>2, <1>3, UnwatchedIs
<1>5. Refreshed(v) = [v EXCEPT !.personas = room, !.watched = w]
  BY <1>2 DEF Refreshed
<1> QED BY <1>4, <1>5 DEF ViewType, TruthTypes

LEMMA RowIs ==
  ASSUME TruthTypes, NEW v \in ViewType, NEW t \in Teammates
  PROVE  Row(v, t) \in RowType /\ Shown(v, t) \in RowType
<1>1. session[t] \in [Keys -> ListValues]
  BY DEF TruthTypes, ListValues
<1>2. v.personas[t] \in 0 .. 2 /\ v.watched[t] \in WatchType
  BY DEF ViewType
<1>3. Row(v, t) \in RowType
  BY <1>1, <1>2 DEF Row, RowType, WatchType
<1>4. PICK lists : lists = [k \in Keys |->
         IF v.watched[t].knows[k] = Row(v, t).lists[k] THEN Omitted
         ELSE Row(v, t).lists[k]]
  OBVIOUS
<1>5. lists \in [Keys -> ListValues]
  BY <1>3, <1>4 DEF RowType, ListValues
<1>6. Shown(v, t) = Row(v, t) \/ Shown(v, t) = [Row(v, t) EXCEPT !.lists = lists]
  BY <1>4 DEF Shown
<1> QED BY <1>3, <1>5, <1>6 DEF RowType

LEMMA LoopedIs ==
  ASSUME NEW v \in ViewType
  PROVE  Looped(v) \in ViewType
  BY DEF Looped, ViewType

LEMMA SnapshottedIs ==
  ASSUME TruthTypes, NEW v \in ViewType
  PROVE  Snapshotted(v) \in ViewType
<1>1. PICK w : w = [t \in Teammates |-> IF v.personas[t] = 0 THEN v.watched[t]
                     ELSE [v.watched[t] EXCEPT !.knows = session[t]]]
  OBVIOUS
<1>2. \A t \in Teammates : v.watched[t] \in WatchType
                           /\ session[t] \in [Keys -> ListValues]
  BY DEF ViewType, TruthTypes, ListValues
<1>3. w \in [Teammates -> WatchType]
  BY <1>1, <1>2 DEF WatchType
<1>4. PICK u : u = Looped(v)
  OBVIOUS
<1>5. u \in ViewType
  BY <1>4, LoopedIs
<1>6. Snapshotted(v) = [u EXCEPT !.watched = w]
  BY <1>1, <1>4 DEF Snapshotted
<1> QED BY <1>3, <1>5, <1>6 DEF ViewType

LEMMA AbortedIs ==
  ASSUME NEW v \in ViewType
  PROVE  Aborted(v) \in ViewType
  BY DEF Aborted, ViewType
-----------------------------------------------------------------------------
(* What a view's step keeps.                                               *)
ViewsKept == /\ ViewTypes' /\ OutInv'
             /\ UNCHANGED truthVars /\ declared' = declared

LEMMA ViewSet ==
  ASSUME ViewTypes, NEW s \in Subs, NEW v \in ViewType, Views(s, v)
  PROVE  ViewTypes'
  BY DEF ViewTypes, Views

LEMMA OutStays ==
  ASSUME OutInv, UNCHANGED outVars, heard' = heard
  PROVE  OutInv'
  BY DEF OutInv, outVars, InOrder, Wants

LEMMA PlainViewSteps ==
  ASSUME ViewTypes, TruthTypes, OutInv, heard' = heard, NEW s \in Subs,
         \/ Opens(s) \/ RoomLagged(s) \/ HearsInfos(s) \/ InfosLagged(s)
         \/ Woken(s) \/ RowsSent(s) \/ Ends(s)
  PROVE  ViewsKept
<1>1. views[s] \in ViewType
  BY DEF ViewTypes
<1>2. OutInv' /\ UNCHANGED truthVars /\ declared' = declared
  BY OutStays DEF Opens, RoomLagged, HearsInfos, InfosLagged, Woken, RowsSent,
                  Ends
<1>3. PICK u : u = Refreshed(views[s])
  OBVIOUS
<1>4. u \in ViewType
  BY <1>1, <1>3, RefreshedIs
<1>5. CASE Opens(s)
  <2>1. Views(s, [u EXCEPT !.stage = "snapshot"])
    BY <1>3, <1>5 DEF Opens
  <2>2. [u EXCEPT !.stage = "snapshot"] \in ViewType
    BY <1>4 DEF ViewType
  <2> QED BY <1>2, <2>1, <2>2, ViewSet DEF ViewsKept
<1>6. CASE RoomLagged(s)
  <2>1. Views(s, [u EXCEPT !.roomLost = FALSE, !.dirty = {}, !.stage = "snapshot"])
    BY <1>3, <1>6 DEF RoomLagged
  <2>2. [u EXCEPT !.roomLost = FALSE, !.dirty = {}, !.stage = "snapshot"] \in ViewType
    BY <1>4 DEF ViewType
  <2> QED BY <1>2, <2>1, <2>2, ViewSet DEF ViewsKept
<1>7. CASE HearsInfos(s)
  <2>1. PICK ts : ts = {t \in Range(views[s].infoq) : views[s].personas[t] # 0}
    OBVIOUS
  <2>2. ts \in SUBSET Teammates
    <3>1. views[s].infoq \in Seq(Teammates)
      BY <1>1 DEF ViewType, InfoQueues
    <3>2. Range(views[s].infoq) \subseteq Teammates
      BY <3>1 DEF Range
    <3> QED BY <2>1, <3>2
  <2>3. PICK m : m = Marked(views[s], ts)
    OBVIOUS
  <2>4. m \in ViewType
    BY <1>1, <2>2, <2>3, MarkedIs
  <2>5. Views(s, [m EXCEPT !.infoq = <<>>])
    BY <1>7, <2>1, <2>3 DEF HearsInfos
  <2>6. <<>> \in InfoQueues
    BY DepthIs DEF InfoQueues
  <2>7. [m EXCEPT !.infoq = <<>>] \in ViewType
    BY <2>4, <2>6 DEF ViewType
  <2> QED BY <1>2, <2>5, <2>7, ViewSet DEF ViewsKept
<1>8. CASE InfosLagged(s)
  <2>1. PICK v : Views(s, v) /\ v = [views[s] EXCEPT !.infoLost = FALSE, !.dirty = {},
                                                     !.stage = "snapshot"]
    BY <1>8 DEF InfosLagged
  <2>2. v \in ViewType
    BY <1>1, <2>1 DEF ViewType
  <2> QED BY <1>2, <2>1, <2>2, ViewSet DEF ViewsKept
<1>9. CASE Woken(s)
  <2>1. PICK v : Views(s, v) /\ v = [views[s] EXCEPT !.wake = FALSE,
                    !.taken = views[s].dirty, !.dirty = {}, !.stage = "rows"]
    BY <1>9 DEF Woken
  <2>2. v \in ViewType
    BY <1>1, <2>1 DEF ViewType
  <2> QED BY <1>2, <2>1, <2>2, ViewSet DEF ViewsKept
<1>10. CASE RowsSent(s)
  BY <1>1, <1>2, <1>10, LoopedIs, ViewSet DEF RowsSent, ViewsKept
<1>11. CASE Ends(s)
  BY <1>2, <1>11, ClosedIs, ViewSet DEF Ends, ViewsKept
<1> QED BY <1>5, <1>6, <1>7, <1>8, <1>9, <1>10, <1>11

LEMMA HearsUpsertKeeps ==
  ASSUME ViewTypes, TruthTypes, OutInv, heard' = heard, NEW s \in Subs,
         HearsUpsert(s)
  PROVE  ViewsKept
<1>1. views[s] \in ViewType
  BY DEF ViewTypes
<1>2. OutInv' /\ UNCHANGED truthVars /\ declared' = declared
  BY OutStays DEF HearsUpsert
<1>3. /\ views[s].roomq \in Seq(EventType) /\ views[s].roomq # <<>>
      /\ Len(views[s].roomq) <= RoomDepth
  BY <1>1 DEF ViewType, RoomQueues, HearsUpsert
<1>4. PICK e : e = Head(views[s].roomq)
  OBVIOUS
<1>5. e \in EventType
  BY <1>3, <1>4
<1>6. PICK q : q = Tail(views[s].roomq)
  OBVIOUS
<1>7. q \in RoomQueues
  <2>1. Tail(views[s].roomq) \in Seq(EventType)
        /\ Len(Tail(views[s].roomq)) = Len(views[s].roomq) - 1
    BY <1>3
  <2> QED BY <1>3, <1>6, <2>1, DepthIs DEF RoomQueues
<1>8. e.of \in Teammates /\ e.name \in 0 .. 2
  BY <1>5 DEF EventType
<1>9. PICK m : m = Marked(views[s], {e.of})
  OBVIOUS
<1>10. m \in ViewType
  BY <1>1, <1>8, <1>9, MarkedIs
<1>11. PICK w : w = Watching(m.watched, e.of)
  OBVIOUS
<1>12. w \in [Teammates -> WatchType]
  <2>1. m.watched \in [Teammates -> WatchType]
    BY <1>10 DEF ViewType
  <2> QED BY <1>8, <1>11, <2>1, WatchingIs
<1>13. PICK ps : ps = [m.personas EXCEPT ![e.of] = e.name]
  OBVIOUS
<1>14. ps \in [Teammates -> 0 .. 2]
  BY <1>8, <1>10, <1>13 DEF ViewType
<1>15. m.roomq = views[s].roomq
  BY <1>1, <1>9 DEF Marked, ViewType
<1>16. Views(s, [m EXCEPT !.roomq = q, !.personas = ps, !.watched = w])
  BY <1>4, <1>6, <1>9, <1>11, <1>13, <1>15 DEF HearsUpsert
<1>17. [m EXCEPT !.roomq = q, !.personas = ps, !.watched = w] \in ViewType
  BY <1>7, <1>10, <1>12, <1>14 DEF ViewType
<1> QED BY <1>2, <1>16, <1>17, ViewSet DEF ViewsKept

LEMMA HearsTombstoneKeeps ==
  ASSUME ViewTypes, TruthTypes, OutInv, heard' = heard, NEW s \in Subs,
         HearsTombstone(s)
  PROVE  ViewsKept
<1>1. views[s] \in ViewType
  BY DEF ViewTypes
<1>3. /\ views[s].roomq \in Seq(EventType) /\ views[s].roomq # <<>>
      /\ Len(views[s].roomq) <= RoomDepth
  BY <1>1 DEF ViewType, RoomQueues, HearsTombstone
<1>4. PICK e : e = Head(views[s].roomq)
  OBVIOUS
<1>5. e \in EventType
  BY <1>3, <1>4
<1>6. PICK q : q = Tail(views[s].roomq)
  OBVIOUS
<1>7. q \in RoomQueues
  <2>1. Tail(views[s].roomq) \in Seq(EventType)
        /\ Len(Tail(views[s].roomq)) = Len(views[s].roomq) - 1
    BY <1>3
  <2> QED BY <1>3, <1>6, <2>1, DepthIs DEF RoomQueues
<1>8. e.of \in Teammates /\ e.name \in 0 .. 2
  BY <1>5 DEF EventType
<1>9. PICK f : f = Removal(s, e.of) /\ Made(f)
  BY <1>8, MadeRemoval DEF OutInv
<1>2. OutInv' /\ UNCHANGED truthVars /\ declared' = declared
  BY <1>4, <1>9, SendsKeep DEF HearsTombstone
<1>10. PICK v : v = [views[s] EXCEPT !.roomq = Tail(@), !.personas[e.of] = 0,
                                     !.watched[e.of] = Unwatched]
  OBVIOUS
<1>11. v \in ViewType
  <2>1. PICK ps : ps = [views[s].personas EXCEPT ![e.of] = 0]
    OBVIOUS
  <2>2. PICK w : w = [views[s].watched EXCEPT ![e.of] = Unwatched]
    OBVIOUS
  <2>3. ps \in [Teammates -> 0 .. 2] /\ w \in [Teammates -> WatchType]
    BY <1>1, <1>8, <2>1, <2>2, UnwatchedIs DEF ViewType
  <2>4. v = [views[s] EXCEPT !.roomq = q, !.personas = ps, !.watched = w]
    BY <1>6, <1>10, <2>1, <2>2
  <2> QED BY <1>1, <1>7, <2>3, <2>4 DEF ViewType
<1>12. Views(s, v) \/ Views(s, [Closed EXCEPT !.stage = "over"])
  BY <1>4, <1>10 DEF HearsTombstone
<1> QED BY <1>2, <1>11, <1>12, ClosedIs, ViewSet DEF ViewsKept

LEMMA SendsSnapshotKeeps ==
  ASSUME ViewTypes, TruthTypes, OutInv, heard' = heard, NEW s \in Subs,
         SendsSnapshot(s)
  PROVE  ViewsKept
<1>1. views[s] \in ViewType
  BY DEF ViewTypes
<1>2. PICK rows : rows = [t \in Teammates |->
            IF views[s].personas[t] = 0 THEN NoRow ELSE Row(views[s], t)]
  OBVIOUS
<1>3. rows \in [Teammates -> RowType]
  BY <1>1, <1>2, RowIs, NoRowIs
<1>4. Sends(Snapshot(s, rows)) /\ UNCHANGED truthVars /\ declared' = declared
  BY <1>2 DEF SendsSnapshot
<1>5. Made(Snapshot(s, rows))
  BY <1>3, MadeSnapshot DEF OutInv
<1>6. OutInv'
  BY <1>4, <1>5, SendsKeep
<1>7. \/ Views(s, Snapshotted(views[s]))
      \/ Views(s, [Closed EXCEPT !.stage = "over"])
  BY DEF SendsSnapshot
<1> QED BY <1>1, <1>4, <1>6, <1>7, SnapshottedIs, ClosedIs, ViewSet DEF ViewsKept

LEMMA SendsRowKeeps ==
  ASSUME ViewTypes, TruthTypes, OutInv, heard' = heard, NEW s \in Subs,
         NEW t \in Teammates, SendsRow(s, t)
  PROVE  ViewsKept
<1>1. views[s] \in ViewType
  BY DEF ViewTypes
<1>2. UNCHANGED truthVars /\ declared' = declared
  BY DEF SendsRow
<1>3. PICK u : u = [views[s] EXCEPT !.taken = @ \ {t}]
  OBVIOUS
<1>4. u \in ViewType
  BY <1>1, <1>3 DEF ViewType
<1>5. CASE views[s].personas[t] = 0 \/ ~views[s].watched[t].on
  <2>1. Views(s, u) /\ UNCHANGED outVars
    BY <1>3, <1>5 DEF SendsRow
  <2> QED BY <1>2, <1>4, <2>1, ViewSet, OutStays DEF ViewsKept
<1>6. CASE ~(views[s].personas[t] = 0 \/ ~views[s].watched[t].on)
  <2>1. PICK row : row = Shown(views[s], t) /\ row \in RowType
    BY <1>1, RowIs
  <2>2. Made(RosterRow(s, t, row))
    BY <2>1, MadeRow DEF OutInv
  <2>3. OutInv'
    BY <1>6, <2>1, <2>2, SendsKeep DEF SendsRow
  <2>4. PICK w : w = [views[s].watched EXCEPT ![t] = [@ EXCEPT !.knows = session[t]]]
    OBVIOUS
  <2>5. w \in [Teammates -> WatchType]
    <3>1. views[s].watched \in [Teammates -> WatchType]
          /\ session[t] \in [Keys -> ListValues]
      BY <1>1 DEF ViewType, TruthTypes, ListValues
    <3> QED BY <2>4, <3>1 DEF WatchType
  <2>6. \/ Views(s, [u EXCEPT !.watched = w])
        \/ Views(s, [Closed EXCEPT !.stage = "over"])
    BY <1>1, <1>3, <1>6, <2>4 DEF SendsRow, ViewType
  <2>7. [u EXCEPT !.watched = w] \in ViewType
    BY <1>4, <2>5 DEF ViewType
  <2> QED BY <1>2, <2>3, <2>6, <2>7, ViewSet, ClosedIs DEF ViewsKept
<1> QED BY <1>5, <1>6

LEMMA PumpsKeep ==
  ASSUME ViewTypes, TruthTypes, OutInv, heard' = heard, NEW s \in Subs,
         NEW t \in Teammates, Projects(s, t) \/ Marks(s, t)
  PROVE  ViewsKept
<1>1. views[s] \in ViewType
  BY DEF ViewTypes
<1>2. OutInv' /\ UNCHANGED truthVars /\ declared' = declared
  BY OutStays DEF Projects, Marks
<1>3. CASE Projects(s, t)
  <2>1. PICK w : w = [views[s].watched EXCEPT
                        ![t] = [@ EXCEPT !.said = tape[t], !.marks = TRUE]]
    OBVIOUS
  <2>2. w \in [Teammates -> WatchType]
    <3>1. PICK u : u = [views[s].watched[t] EXCEPT !.said = tape[t], !.marks = TRUE]
      OBVIOUS
    <3>2. views[s].watched \in [Teammates -> WatchType]
      BY <1>1 DEF ViewType
    <3>3. u \in WatchType
      BY <3>1, <3>2 DEF WatchType, TruthTypes
    <3>4. w = [views[s].watched EXCEPT ![t] = u]
      BY <2>1, <3>1
    <3> QED BY <3>2, <3>3, <3>4
  <2>3. Views(s, [views[s] EXCEPT !.watched = w])
    BY <1>1, <1>3, <2>1 DEF Projects, ViewType, WatchType
  <2>4. [views[s] EXCEPT !.watched = w] \in ViewType
    BY <1>1, <2>2 DEF ViewType
  <2> QED BY <1>2, <2>3, <2>4, ViewSet DEF ViewsKept
<1>4. CASE Marks(s, t)
  <2>1. PICK m : m = Marked(views[s], {t})
    OBVIOUS
  <2>2. m \in ViewType
    BY <1>1, <2>1, MarkedIs
  <2>3. PICK w : w = [m.watched EXCEPT ![t] = [@ EXCEPT !.marks = FALSE]]
    OBVIOUS
  <2>4. w \in [Teammates -> WatchType]
    BY <2>2, <2>3, ZenonT(60) DEF ViewType, WatchType
  <2>5. Views(s, [m EXCEPT !.watched = w])
    BY <1>4, <2>1, <2>3 DEF Marks
  <2>6. [m EXCEPT !.watched = w] \in ViewType
    BY <2>2, <2>4 DEF ViewType
  <2> QED BY <1>2, <2>5, <2>6, ViewSet DEF ViewsKept
<1> QED BY <1>3, <1>4

LEMMA ViewStepsKeep ==
  ASSUME ViewTypes, TruthTypes, OutInv, heard' = heard, NEW s \in Subs,
         ViewSteps(s)
  PROVE  ViewsKept
  BY PlainViewSteps, HearsUpsertKeeps, HearsTombstoneKeeps,
     SendsSnapshotKeeps, SendsRowKeeps, PumpsKeep DEF ViewSteps
-----------------------------------------------------------------------------
(* The desk, its lanes and its workers leave all of that as it should be.  *)
LEMMA ScriptIs ==
  ASSUME scene \in Scenes
  PROVE  /\ Script \in Seq(Ask) /\ Frames = 1 .. Len(Script) /\ Len(Script) \in Nat
         /\ \A n \in Frames : Script[n] \in Ask
  BY ScenesAssumption DEF Script, Frames

LEMMA AskIs ==
  ASSUME scene \in Scenes, NEW n \in Frames
  PROVE  /\ Script[n].kind \in {"hello", "sub", "unsub", "cmd"}
         /\ Script[n].kind \in {"sub", "unsub"} => Script[n].sub \in Subs
         /\ Script[n].kind = "cmd" =>
              /\ Script[n].lane \in Teammates \cup {"ordered", "alone"}
              /\ Script[n].of \in Teammates
              /\ Script[n].to \in 0 .. 2
              /\ Script[n].does # "write" => Script[n].to \in 0 .. 1
<1>1. Script[n] \in Ask
  BY ScriptIs
<1> QED BY <1>1 DEF Ask

LEMMA LaneIs ==
  ASSUME scene \in Scenes, NEW n \in Frames
  PROVE  /\ LaneOf(n) # "alone" => LaneOf(n) \in Lanes
         /\ Script[n].kind # "cmd" => LaneOf(n) = "ordered"
  BY AskIs DEF LaneOf, Lanes

LEMMA SameScript ==
  ASSUME scene' = scene
  PROVE  /\ Script' = Script /\ Frames' = Frames
         /\ \A n : LaneOf(n)' = LaneOf(n)
  BY DEF Script, Frames, LaneOf
-----------------------------------------------------------------------------
DeskTypes == scene \in Scenes /\ OutInv /\ ViewTypes /\ TruthTypes

LEMMA SendsMeans ==
  ASSUME NEW f, Sends(f)
  PROVE  remote' = remote /\ (cut => cut')
  BY DEF Sends

LEMMA TruthStays ==
  ASSUME TruthTypes, UNCHANGED truthVars, declared' = declared
  PROVE  TruthTypes'
  BY DEF TruthTypes, truthVars

LEMMA ViewsStay ==
  ASSUME ViewTypes, UNCHANGED views
  PROVE  ViewTypes'
  BY DEF ViewTypes

LEMMA WritesKeep ==
  ASSUME ViewTypes, TruthTypes, declared' = declared,
         NEW t \in Teammates, NEW name \in 0 .. 2, Writes(t, name)
  PROVE  ViewTypes' /\ TruthTypes'
<1>1. PICK e : e = [of |-> t, name |-> name]
  OBVIOUS
<1>2. e \in EventType
  BY <1>1 DEF EventType
<1>3. views' = [s \in Subs |-> FedRoom(views[s], e)]
  BY <1>1 DEF Writes
<1>4. ViewTypes'
  BY <1>2, <1>3, FedRoomIs DEF ViewTypes
<1>5. TruthTypes'
  BY DEF Writes, TruthTypes
<1> QED BY <1>4, <1>5

LEMMA HintsKeep ==
  ASSUME ViewTypes, TruthTypes, NEW t \in Teammates, Hints(t)
  PROVE  ViewTypes' /\ TruthTypes'
<1>1. views' = [s \in Subs |-> FedInfo(views[s], t)]
  BY DEF Hints
<1>2. ViewTypes'
  BY <1>1, FedInfoIs DEF ViewTypes
<1>3. TruthTypes'
  BY DEF Hints, TruthTypes
<1> QED BY <1>2, <1>3

LEMMA ListsKeep ==
  ASSUME ViewTypes, TruthTypes, declared' = declared,
         NEW t \in Teammates, NEW lists \in [Keys -> 0 .. 1], Lists(t, lists)
  PROVE  ViewTypes' /\ TruthTypes'
  BY ViewsStay DEF Lists, TruthTypes

LEMMA ElsewhereKeeps ==
  ASSUME ViewTypes, TruthTypes, Elsewhere
  PROVE  ViewTypes' /\ TruthTypes'
<1>1. declared' = declared
  BY DEF Elsewhere
<1>2. PICK t \in Teammates :
        \/ \E name \in 0 .. 2 : Writes(t, name)
        \/ \E k \in Keys : Lists(t, [session[t] EXCEPT ![k] = 1 - @])
        \/ Speaks(t)
  BY DEF Elsewhere
<1>3. ASSUME NEW k \in Keys, Lists(t, [session[t] EXCEPT ![k] = 1 - @])
      PROVE  ViewTypes' /\ TruthTypes'
  <2>1. session[t] \in [Keys -> 0 .. 1]
    BY DEF TruthTypes
  <2>2. [session[t] EXCEPT ![k] = 1 - @] \in [Keys -> 0 .. 1]
    BY <2>1
  <2> QED BY <1>1, <1>3, <2>2, ListsKeep
<1>4. CASE Speaks(t)
  BY <1>1, <1>4, ViewsStay DEF Speaks, TruthTypes
<1> QED BY <1>1, <1>2, <1>3, <1>4, WritesKeep

LEMMA ActsKeeps ==
  ASSUME DeskTypes, NEW n \in Frames, Script[n].kind = "cmd", Acts(n)
  PROVE  ViewTypes' /\ TruthTypes'
<1>1. /\ Script[n].of \in Teammates /\ Script[n].to \in 0 .. 2
      /\ Script[n].does # "write" => Script[n].to \in 0 .. 1
  BY AskIs DEF DeskTypes
<1>2. declared' = declared
  BY DEF Acts
<1>3. \/ Writes(Script[n].of, Script[n].to)
      \/ /\ Script[n].does # "write"
         /\ Lists(Script[n].of, [k \in Keys |-> Script[n].to])
      \/ UNCHANGED <<truthVars, views>>
  BY DEF Acts
<1>4. CASE Writes(Script[n].of, Script[n].to)
  BY <1>1, <1>2, <1>4, WritesKeep DEF DeskTypes
<1>5. CASE /\ Script[n].does # "write"
           /\ Lists(Script[n].of, [k \in Keys |-> Script[n].to])
  <2>1. [k \in Keys |-> Script[n].to] \in [Keys -> 0 .. 1]
    BY <1>1, <1>5
  <2> QED BY <1>1, <1>2, <1>5, <2>1, ListsKeep DEF DeskTypes
<1>6. CASE UNCHANGED <<truthVars, views>>
  BY <1>2, <1>6, TruthStays, ViewsStay DEF DeskTypes
<1> QED BY <1>3, <1>4, <1>5, <1>6

Held == scene' = scene /\ remote' = remote /\ (cut => cut')

LEMMA OrderedDesk ==
  ASSUME DeskTypes, line["ordered"] \in Seq(Frames),
         Subscribes \/ Unsubscribes \/ Closes
  PROVE  OutInv' /\ ViewTypes' /\ TruthTypes' /\ Held
<1> PICK n : n = Head(line["ordered"])
  OBVIOUS
<1>1. Made(Reply)
  BY MadePlain DEF DeskTypes, OutInv
<1>2. ASSUME Sends(Reply), heard' = heard
      PROVE  OutInv' /\ remote' = remote /\ (cut => cut')
  BY <1>1, <1>2, SendsKeep, SendsMeans DEF DeskTypes
<1>3. ASSUME UNCHANGED outVars, heard' = heard
      PROVE  OutInv' /\ remote' = remote /\ (cut => cut')
  BY <1>3, OutStays DEF DeskTypes, outVars
<1>4. CASE Subscribes
  <2>1. UNCHANGED <<truthVars, declared, scene, heard>>
        /\ (Sends(Reply) \/ UNCHANGED outVars)
    BY <1>4 DEF Subscribes, NextOrdered
  <2>2. n \in Frames /\ Script[n].kind = "sub"
    BY <1>4 DEF Subscribes, NextOrdered
  <2>3. Script[n].sub \in Subs
    BY <2>2, AskIs DEF DeskTypes
  <2>4. UNCHANGED views \/ Views(Script[n].sub, Subscribed(Script[n].sub))
    BY <1>4 DEF Subscribes
  <2>5. ViewTypes'
    BY <2>3, <2>4, ClosedIs, ViewSet, ViewsStay DEF Subscribed, DeskTypes
  <2> QED BY <1>2, <1>3, <2>1, <2>5, TruthStays DEF Held, DeskTypes
<1>5. CASE Unsubscribes
  <2>1. UNCHANGED <<truthVars, declared, scene, heard>>
        /\ (Sends(Reply) \/ UNCHANGED outVars)
    BY <1>5 DEF Unsubscribes, NextOrdered
  <2>2. n \in Frames /\ Script[n].kind = "unsub"
    BY <1>5 DEF Unsubscribes, NextOrdered
  <2>3. Script[n].sub \in Subs
    BY <2>2, AskIs DEF DeskTypes
  <2>4. UNCHANGED views \/ Views(Script[n].sub, Aborted(views[Script[n].sub]))
    BY <1>5 DEF Unsubscribes
  <2>5. views[Script[n].sub] \in ViewType
    BY <2>3 DEF DeskTypes, ViewTypes
  <2>6. ViewTypes'
    BY <2>3, <2>4, <2>5, AbortedIs, ViewSet, ViewsStay DEF DeskTypes
  <2> QED BY <1>2, <1>3, <2>1, <2>6, TruthStays DEF Held, DeskTypes
<1>6. CASE Closes
  <2>1. UNCHANGED <<truthVars, declared, scene, heard, outVars>>
        /\ views' = [s \in Subs |-> Aborted(views[s])]
    BY <1>6 DEF Closes
  <2>2. ViewTypes'
    BY <2>1, AbortedIs DEF ViewTypes, DeskTypes
  <2> QED BY <1>3, <2>1, <2>2, TruthStays DEF Held, DeskTypes
<1> QED BY <1>4, <1>5, <1>6

LEMMA DeskStep ==
  ASSUME DeskTypes, line["ordered"] \in Seq(Frames),
         \A n \in under : n \in Frames /\ Script[n].kind = "cmd", [Next]_vars
  PROVE  DeskTypes' /\ Held
<1> SUFFICES OutInv' /\ ViewTypes' /\ TruthTypes' /\ Held
  BY DEF DeskTypes, Held
<1>0. OutInv /\ ViewTypes /\ TruthTypes /\ Made(Reply) /\ Made(Words)
  BY MadePlain DEF DeskTypes, OutInv
<1>1. ASSUME NEW f, Made(f), Sends(f), heard' = heard
      PROVE  OutInv' /\ remote' = remote /\ (cut => cut')
  BY <1>0, <1>1, SendsKeep, SendsMeans
<1>2. ASSUME UNCHANGED outVars, heard' = heard
      PROVE  OutInv' /\ remote' = remote /\ (cut => cut')
  BY <1>0, <1>2, OutStays DEF outVars
<1>3. CASE Reader
  <2>1. CASE Hello
    <3>1. Sends(Reply) /\ UNCHANGED <<truthVars, views, scene, heard>> /\ declared' = TRUE
      BY <2>1 DEF Hello
    <3>2. TruthTypes'
      BY <1>0, <3>1 DEF TruthTypes, truthVars
    <3> QED BY <1>0, <1>1, <3>1, <3>2, ViewsStay DEF Held
  <2>2. CASE Spawns \/ Queues
    <3>1. UNCHANGED <<truthVars, views, scene, heard, declared, outVars>>
      BY <2>2 DEF Spawns, Queues
    <3> QED BY <1>0, <1>2, <3>1, ViewsStay, TruthStays DEF Held
  <2> QED BY <1>3, <2>1, <2>2 DEF Reader
<1>4. ASSUME NEW l \in Lanes, Begins(l)
      PROVE  OutInv' /\ ViewTypes' /\ TruthTypes' /\ Held
  <2>1. UNCHANGED <<truthVars, views, scene, heard, declared, outVars>>
    BY <1>4 DEF Begins
  <2> QED BY <1>0, <1>2, <2>1, ViewsStay, TruthStays DEF Held
<1>5. ASSUME NEW n \in Frames, BeginsAlone(n) \/ Acts(n) \/ Replies(n) \/ DropsWork(n)
      PROVE  OutInv' /\ ViewTypes' /\ TruthTypes' /\ Held
  <2>1. CASE BeginsAlone(n) \/ DropsWork(n)
    <3>1. UNCHANGED <<truthVars, views, scene, heard, declared, outVars>>
      BY <2>1 DEF BeginsAlone, DropsWork
    <3> QED BY <1>0, <1>2, <3>1, ViewsStay, TruthStays DEF Held
  <2>2. CASE Acts(n)
    <3>1. UNCHANGED <<scene, heard, outVars>> /\ n \in under
      BY <2>2 DEF Acts
    <3>2. ViewTypes' /\ TruthTypes'
      BY <2>2, <3>1, ActsKeeps
    <3> QED BY <1>2, <3>1, <3>2 DEF Held
  <2>3. CASE Replies(n)
    <3>1. UNCHANGED <<truthVars, views, scene, heard, declared>> /\ Sends(Reply)
      BY <2>3 DEF Replies
    <3> QED BY <1>0, <1>1, <3>1, ViewsStay, TruthStays DEF Held
  <2> QED BY <1>5, <2>1, <2>2, <2>3
<1>6. CASE Subscribes \/ Unsubscribes \/ Closes
  BY <1>6, OrderedDesk
<1>7. CASE View
  <2>1. PICK s \in Subs : ViewSteps(s)
    BY <1>7 DEF View
  <2>2. scene' = scene /\ heard' = heard
    BY <1>7 DEF View, socketVars
  <2>3. ViewsKept
    BY <1>0, <2>1, <2>2, ViewStepsKeep
  <2>5. UNCHANGED outVars \/ \E f : Sends(f)
    <3>1. CASE \/ Opens(s) \/ HearsUpsert(s) \/ RoomLagged(s) \/ HearsInfos(s)
               \/ InfosLagged(s) \/ Woken(s) \/ RowsSent(s) \/ Ends(s)
               \/ \E t \in Teammates : Projects(s, t) \/ Marks(s, t)
      BY <3>1 DEF Opens, HearsUpsert, RoomLagged, HearsInfos, InfosLagged,
                  Woken, RowsSent, Ends, Projects, Marks
    <3>2. CASE SendsSnapshot(s)
      BY <3>2 DEF SendsSnapshot
    <3>3. CASE HearsTombstone(s)
      BY <3>3 DEF HearsTombstone
    <3>4. ASSUME NEW t \in Teammates, SendsRow(s, t)
          PROVE  UNCHANGED outVars \/ \E f : Sends(f)
      BY <3>4 DEF SendsRow
    <3> QED BY <2>1, <3>1, <3>2, <3>3, <3>4 DEF ViewSteps
  <2>4. remote' = remote /\ (cut => cut')
    BY <2>5, SendsMeans DEF outVars
  <2> QED BY <1>0, <2>2, <2>3, <2>4, TruthStays DEF ViewsKept, Held
<1>8. CASE Told
  <2>1. PICK t \in Teammates : Hints(t)
    BY <1>8 DEF Told
  <2>2. scene' = scene /\ heard' = heard /\ UNCHANGED outVars
    BY <1>8, <2>1 DEF Told, socketVars, Hints
  <2> QED BY <1>0, <1>2, <2>1, <2>2, HintsKeep DEF Held
<1>9. CASE Writer
  <2>1. UNCHANGED <<truthVars, declared, views, remote, cut, scene>>
    BY <1>9 DEF Writer
  <2> QED BY <1>0, <1>9, <2>1, WriterKeeps, ViewsStay, TruthStays DEF Held
<1>10. CASE Elsewhere
  <2>1. UNCHANGED <<outVars, scene, heard>>
    BY <1>10 DEF Elsewhere, socketVars
  <2> QED BY <1>0, <1>2, <1>10, <2>1, ElsewhereKeeps DEF Held
<1>11. CASE Chatter
  <2>1. Sends(Words) /\ UNCHANGED <<truthVars, declared, views, scene, heard>>
    BY <1>11 DEF Chatter, socketVars
  <2> QED BY <1>0, <1>1, <2>1, ViewsStay, TruthStays DEF Held
<1>12. CASE Goes
  <2>1. cut' = TRUE /\ UNCHANGED <<truthVars, declared, views, remote, outq, sent,
                                   scene, heard>>
    BY <1>12 DEF Goes, socketVars
  <2>2. OutInv'
    BY <1>0, <2>1 DEF OutInv, InOrder, Wants
  <2> QED BY <1>0, <2>1, <2>2, ViewsStay, TruthStays DEF Held
<1>13. CASE UNCHANGED vars
  <2>1. UNCHANGED <<truthVars, views, scene, heard, declared, outVars>>
    BY <1>13 DEF vars, socketVars
  <2> QED BY <1>0, <1>2, <2>1, ViewsStay, TruthStays DEF Held
<1> QED
  BY <1>3, <1>4, <1>5, <1>6, <1>7, <1>8, <1>9, <1>10, <1>11, <1>12, <1>13
  DEF Next, Owed, Workers, Commands
-----------------------------------------------------------------------------
(* The lanes.                                                              *)
SocketTypes ==
  /\ read \in 0 .. Len(Script)
  /\ spawned \subseteq Frames /\ under \subseteq Frames /\ acted \subseteq Frames
  /\ closed \in BOOLEAN /\ (closed => cut)
  /\ line \in [Lanes -> Seq(Frames)]
  /\ \A n \in spawned \cup under : Script[n].kind = "cmd"

(* The ordered lane holds its frames in the order they were read.          *)
LineInv(q) ==
  \A i \in DOMAIN q :
    /\ LaneOf(q[i]) = "ordered" /\ q[i] \in 1 .. read
    /\ \A j \in DOMAIN q : i < j => q[i] < q[j]

Waiting(q, m) == \E i \in DOMAIN q : q[i] = m

(* While the seat is held nothing read for the ordered worker is lost.     *)
DoneInv ==
  ~cut => \A m \in 1 .. read :
            LaneOf(m) = "ordered" => m \in acted \cup under \/ Waiting(line["ordered"], m)

SocketInv == SocketTypes /\ LineInv(line["ordered"]) /\ DoneInv /\ SeesWhatItDid

SeatInv == DeskTypes /\ SocketInv

(* What the steps of the lanes and of the desk do to the ordered lane.     *)
LEMMA QuietSocket ==
  ASSUME SeatInv, Held, closed' \in {closed, cut},
         UNCHANGED <<read, line, acted>>,
         spawned' \subseteq spawned, under' \subseteq under \cup spawned,
         cut' \/ under \ acted \subseteq under'
  PROVE  SocketInv'
<1>1. SocketTypes'
  BY SameScript DEF SeatInv, SocketInv, SocketTypes, Held, DeskTypes, OutInv
<1>2. LineInv(line["ordered"])'
  BY SameScript DEF SeatInv, SocketInv, LineInv, Held
<1>3. DoneInv'
  BY SameScript DEF SeatInv, SocketInv, DoneInv, Held, Waiting
<1>4. SeesWhatItDid'
  BY SameScript DEF SeatInv, SocketInv, SeesWhatItDid, Held
<1> QED BY <1>1, <1>2, <1>3, <1>4 DEF SocketInv

LEMMA OrderedTyped ==
  ASSUME SocketTypes
  PROVE  "ordered" \in Lanes /\ line["ordered"] \in Seq(Frames)
  BY DEF SocketTypes, Lanes

(* A sequence of frames, with one more at its end or without its first.    *)
LEMMA LongerLine ==
  ASSUME SeatInv, Held, NEW n, n = read + 1, read' = n, n \in Frames,
         LaneOf(n) = "ordered",
         line' = [line EXCEPT !["ordered"] = Append(@, n)]
  PROVE  /\ LineInv(line["ordered"])'
         /\ \A m : Waiting(line["ordered"], m) \/ m = n => Waiting(line'["ordered"], m)
<1> PICK q : q = line["ordered"]
  OBVIOUS
<1>a. q \in Seq(Frames) /\ "ordered" \in Lanes /\ LineInv(q)
  BY OrderedTyped DEF SeatInv, SocketInv
<1>b. line \in [Lanes -> Seq(Frames)]
  BY DEF SeatInv, SocketInv, SocketTypes
<1>c. line'["ordered"] = Append(q, n)
  BY <1>a, <1>b
<1>d. read \in Nat
  BY ScriptIs DEF SeatInv, SocketInv, SocketTypes, DeskTypes
<1>1. q \in Seq(Frames) /\ line'["ordered"] = Append(q, n) /\ LineInv(q)
      /\ read \in Nat
  BY <1>a, <1>c, <1>d
<1> PICK p : p = line'["ordered"]
  OBVIOUS
<1>2. /\ DOMAIN q = 1 .. Len(q) /\ Len(q) \in Nat /\ DOMAIN p = 1 .. Len(q) + 1
      /\ \A i \in DOMAIN q : p[i] = q[i]
      /\ p[Len(q) + 1] = n
  BY <1>1
<1>3. \A i \in DOMAIN q : /\ LaneOf(q[i]) = "ordered" /\ q[i] \in 1 .. read
                          /\ \A j \in DOMAIN q : i < j => q[i] < q[j]
  BY <1>1 DEF LineInv
<1>4. \A i \in DOMAIN p : (i \in DOMAIN q /\ i < Len(q) + 1) \/ i = Len(q) + 1
  BY <1>2
<1>5. \A i \in DOMAIN p : LaneOf(p[i]) = "ordered" /\ p[i] \in 1 .. n
  BY <1>1, <1>2, <1>3, <1>4
<1>6. ASSUME NEW i \in DOMAIN p, NEW j \in DOMAIN p, i < j PROVE p[i] < p[j]
  <2>1. i \in DOMAIN q
    BY <1>2, <1>6
  <2>2. CASE j \in DOMAIN q
    BY <1>2, <1>3, <1>6, <2>1, <2>2
  <2>3. CASE j = Len(q) + 1
    BY <1>1, <1>2, <1>3, <2>1, <2>3
  <2> QED BY <1>4, <2>2, <2>3
<1>7. LineInv(line["ordered"])'
  BY <1>5, <1>6, SameScript DEF LineInv, Held
<1>8. ASSUME NEW m, Waiting(q, m) \/ m = n PROVE Waiting(p, m)
  BY <1>2, <1>8 DEF Waiting
<1> QED BY <1>7, <1>8

LEMMA TailIs ==
  ASSUME NEW S, NEW q \in Seq(S), q # <<>>
  PROVE  /\ DOMAIN q = 1 .. Len(q) /\ Len(q) \in Nat /\ Len(q) > 0
         /\ DOMAIN Tail(q) = 1 .. Len(q) - 1
         /\ \A i \in DOMAIN Tail(q) : Tail(q)[i] = q[i + 1]
         /\ Head(q) = q[1]
  OBVIOUS

LEMMA ShorterLine ==
  ASSUME SeatInv, Held, line["ordered"] # <<>>, read' = read,
         line' = [line EXCEPT !["ordered"] = Tail(@)]
  PROVE  /\ LineInv(line["ordered"])'
         /\ \A m : Waiting(line["ordered"], m) /\ m # Head(line["ordered"])
              => Waiting(line'["ordered"], m)
         /\ \A m : Waiting(line["ordered"], m) => m >= Head(line["ordered"])
         /\ Head(line["ordered"]) \in Frames /\ Head(line["ordered"]) \in 1 .. read
<1> PICK q : q = line["ordered"]
  OBVIOUS
<1>a. q \in Seq(Frames) /\ "ordered" \in Lanes /\ LineInv(q)
  BY OrderedTyped DEF SeatInv, SocketInv
<1>b. line \in [Lanes -> Seq(Frames)]
  BY DEF SeatInv, SocketInv, SocketTypes
<1>c. line'["ordered"] = Tail(q)
  BY <1>a, <1>b
<1>d. read \in Nat
  BY ScriptIs DEF SeatInv, SocketInv, SocketTypes, DeskTypes
<1>1. q \in Seq(Frames) /\ line'["ordered"] = Tail(q) /\ LineInv(q)
      /\ read \in Nat /\ q # <<>>
  BY <1>a, <1>c, <1>d
<1> PICK p : p = line'["ordered"]
  OBVIOUS
<1>2. /\ DOMAIN q = 1 .. Len(q) /\ Len(q) \in Nat /\ Len(q) > 0
      /\ DOMAIN p = 1 .. Len(q) - 1
      /\ \A i \in DOMAIN p : p[i] = q[i + 1]
      /\ Head(q) = q[1]
  <2>1. p = Tail(q) /\ q \in Seq(Frames) /\ q # <<>>
    BY <1>1
  <2> QED BY <2>1, TailIs
<1>3. \A i \in DOMAIN q : /\ LaneOf(q[i]) = "ordered" /\ q[i] \in 1 .. read
                          /\ \A j \in DOMAIN q : i < j => q[i] < q[j]
  BY <1>1 DEF LineInv
<1>4. \A i \in DOMAIN p : i + 1 \in DOMAIN q /\ p[i] = q[i + 1]
  BY <1>2
<1>5. \A i \in DOMAIN p : LaneOf(p[i]) = "ordered" /\ p[i] \in 1 .. read
  BY <1>3, <1>4
<1>6. ASSUME NEW i \in DOMAIN p, NEW j \in DOMAIN p, i < j PROVE p[i] < p[j]
  <2>1. i + 1 < j + 1
    BY <1>2, <1>6
  <2> QED BY <1>3, <1>4, <2>1
<1>7. LineInv(line["ordered"])'
  BY <1>5, <1>6, SameScript DEF LineInv, Held
<1>8. ASSUME NEW m, Waiting(q, m), m # Head(q) PROVE Waiting(p, m)
  <2>1. PICK i \in DOMAIN q : q[i] = m
    BY <1>8 DEF Waiting
  <2>2. i # 1
    BY <1>2, <1>8, <2>1
  <2>3. i - 1 \in DOMAIN p /\ p[i - 1] = m
    BY <1>2, <2>1, <2>2
  <2> QED BY <2>3 DEF Waiting
<1>9. ASSUME NEW m, Waiting(q, m) PROVE m >= Head(q)
  <2>1. PICK i \in DOMAIN q : q[i] = m
    BY <1>9 DEF Waiting
  <2>2. i = 1 \/ 1 < i
    BY <1>2
  <2>3. 1 \in DOMAIN q /\ q[1] \in 1 .. read /\ m \in 1 .. read
    BY <1>2, <1>3, <2>1
  <2>4. 1 < i => q[1] < q[i]
    BY <1>3, <2>3
  <2> QED BY <1>2, <2>1, <2>2, <2>3, <2>4
<1>10. Head(q) \in Frames /\ Head(q) \in 1 .. read
  BY <1>1, <1>2, <1>3
<1> QED BY <1>7, <1>8, <1>9, <1>10

LEMMA ReaderSocket ==
  ASSUME SeatInv, Held, Reader
  PROVE  SocketInv'
<1> PICK n : n = read + 1
  OBVIOUS
<1>1. read' = n /\ n \in Frames /\ ~cut /\ UNCHANGED <<under, closed>>
  BY DEF Reader, Hello, Spawns, Queues
<1>2. scene \in Scenes /\ Frames = 1 .. Len(Script) /\ Len(Script) \in Nat
      /\ read \in 0 .. Len(Script)
  BY ScriptIs DEF SeatInv, DeskTypes, SocketInv, SocketTypes
<1>3. read' \in 0 .. Len(Script) /\ \A m \in 1 .. read' : m \in 1 .. read \/ m = n
  BY <1>1, <1>2
<1>s. Script' = Script /\ Frames' = Frames /\ (\A m : LaneOf(m)' = LaneOf(m))
  BY SameScript DEF Held
<1>o. "ordered" \in Lanes /\ line["ordered"] \in Seq(Frames)
  BY OrderedTyped DEF SeatInv, SocketInv
<1>4. ASSUME UNCHANGED line PROVE LineInv(line["ordered"])'
  <2>1. \A i \in DOMAIN line["ordered"] : line["ordered"][i] \in 1 .. read'
    BY <1>1, <1>2 DEF SeatInv, SocketInv, LineInv
  <2> QED BY <1>s, <1>4, <2>1 DEF SeatInv, SocketInv, LineInv
<1>5. CASE Hello
  <2>1. acted' = acted \cup {n} /\ UNCHANGED <<line, spawned>>
        /\ Script[n].kind = "hello"
    BY <1>5 DEF Hello
  <2>2. SocketTypes'
    BY <1>1, <1>3, <1>s, <2>1 DEF SeatInv, SocketInv, SocketTypes, Held
  <2>3. DoneInv'
    BY <1>1, <1>3, <1>s, <2>1 DEF SeatInv, SocketInv, DoneInv, Held
  <2>4. SeesWhatItDid'
    BY <1>s, <2>1 DEF SeatInv, SocketInv, SeesWhatItDid
  <2> QED BY <1>4, <2>1, <2>2, <2>3, <2>4 DEF SocketInv
<1>6. CASE Spawns
  <2>1. /\ spawned' = spawned \cup {n} /\ UNCHANGED <<line, acted, cut>>
        /\ Script[n].kind = "cmd" /\ Script[n].lane = "alone"
    BY <1>6 DEF Spawns, outVars
  <2>2. SocketTypes'
    BY <1>1, <1>3, <1>s, <2>1 DEF SeatInv, SocketInv, SocketTypes
  <2>3. LaneOf(n) # "ordered"
    BY <2>1 DEF LaneOf
  <2>4. DoneInv'
    BY <1>1, <1>3, <1>s, <2>1, <2>3 DEF SeatInv, SocketInv, DoneInv
  <2>5. SeesWhatItDid'
    BY <1>s, <2>1 DEF SeatInv, SocketInv, SeesWhatItDid
  <2> QED BY <1>4, <2>1, <2>2, <2>4, <2>5 DEF SocketInv
<1>7. CASE Queues
  <2>1. /\ line' = [line EXCEPT ![LaneOf(n)] = Append(@, n)]
        /\ UNCHANGED <<spawned, acted, cut>> /\ LaneOf(n) \in Lanes
    BY <1>1, <1>2, <1>7, LaneIs DEF Queues, outVars
  <2>2. line \in [Lanes -> Seq(Frames)]
    BY DEF SeatInv, SocketInv, SocketTypes
  <2>3. Append(line[LaneOf(n)], n) \in Seq(Frames)
    BY <1>1, <2>1, <2>2, AppendedIs
  <2>4. line' \in [Lanes -> Seq(Frames)]
    BY <2>1, <2>2, <2>3
  <2>5. SocketTypes'
    BY <1>1, <1>3, <1>s, <2>1, <2>4 DEF SeatInv, SocketInv, SocketTypes
  <2>6. SeesWhatItDid'
    BY <1>s, <2>1 DEF SeatInv, SocketInv, SeesWhatItDid
  <2>7. CASE LaneOf(n) = "ordered"
    <3>1. /\ LineInv(line["ordered"])'
          /\ \A m : Waiting(line["ordered"], m) \/ m = n => Waiting(line'["ordered"], m)
      BY <1>1, <2>1, <2>7, LongerLine
    <3>2. DoneInv'
      BY <1>1, <1>3, <1>s, <2>1, <3>1 DEF SeatInv, SocketInv, DoneInv, Waiting
    <3> QED BY <2>5, <2>6, <3>1, <3>2 DEF SocketInv
  <2>8. CASE LaneOf(n) # "ordered"
    <3>1. line'["ordered"] = line["ordered"]
      BY <2>1, <2>2, <2>8, <1>o
    <3>2. DoneInv'
      BY <1>1, <1>3, <1>s, <2>1, <2>8, <3>1 DEF SeatInv, SocketInv, DoneInv, Waiting
    <3>3. LineInv(line["ordered"])'
      <4>1. \A i \in DOMAIN line["ordered"] : line["ordered"][i] \in 1 .. read'
        BY <1>1, <1>2 DEF SeatInv, SocketInv, LineInv
      <4> QED BY <1>s, <3>1, <4>1 DEF SeatInv, SocketInv, LineInv
    <3> QED BY <2>5, <2>6, <3>2, <3>3 DEF SocketInv
  <2> QED BY <2>7, <2>8
<1> QED BY <1>5, <1>6, <1>7 DEF Reader

LEMMA BeginsSocket ==
  ASSUME SeatInv, Held, NEW l \in Lanes, Begins(l)
  PROVE  SocketInv'
<1> PICK n : n = Head(line[l])
  OBVIOUS
<1>1. /\ line[l] # <<>> /\ Script[n].kind = "cmd"
      /\ UNCHANGED <<read, spawned, acted, closed, cut>>
      /\ \/ Stops /\ line' = [line EXCEPT ![l] = <<>>] /\ UNCHANGED under
         \/ line' = [line EXCEPT ![l] = Tail(@)] /\ under' = under \cup {n}
  BY DEF Begins, outVars
<1>2. line \in [Lanes -> Seq(Frames)] /\ line[l] \in Seq(Frames)
  BY DEF SeatInv, SocketInv, SocketTypes
<1>3. n \in Frames /\ Tail(line[l]) \in Seq(Frames) /\ <<>> \in Seq(Frames)
  BY <1>1, <1>2
<1>s. Script' = Script /\ Frames' = Frames /\ (\A m : LaneOf(m)' = LaneOf(m))
  BY SameScript DEF Held
<1>o. "ordered" \in Lanes /\ line["ordered"] \in Seq(Frames)
  BY OrderedTyped DEF SeatInv, SocketInv
<1>4. line' \in [Lanes -> Seq(Frames)]
  BY <1>1, <1>2, <1>3
<1>5. SocketTypes'
  BY <1>1, <1>3, <1>4, <1>s DEF SeatInv, SocketInv, SocketTypes
<1>6. SeesWhatItDid'
  BY <1>1, <1>s DEF SeatInv, SocketInv, SeesWhatItDid
<1>7. CASE l # "ordered"
  <2>1. line'["ordered"] = line["ordered"]
    BY <1>1, <1>2, <1>7, <1>o
  <2>2. LineInv(line["ordered"])'
    BY <1>1, <1>s, <2>1 DEF SeatInv, SocketInv, LineInv
  <2>3. DoneInv'
    BY <1>1, <1>s, <2>1 DEF SeatInv, SocketInv, DoneInv, Waiting
  <2> QED BY <1>5, <1>6, <2>2, <2>3 DEF SocketInv
<1>8. CASE l = "ordered" /\ Stops /\ line' = [line EXCEPT ![l] = <<>>]
  <2>1. line'["ordered"] = <<>> /\ DOMAIN line'["ordered"] = {} /\ cut'
    BY <1>1, <1>2, <1>8 DEF Stops
  <2>2. LineInv(line["ordered"])' /\ DoneInv'
    BY <2>1 DEF LineInv, DoneInv
  <2> QED BY <1>5, <1>6, <2>2 DEF SocketInv
<1>9. CASE /\ l = "ordered" /\ line' = [line EXCEPT ![l] = Tail(@)]
           /\ under' = under \cup {n}
  <2>1. /\ LineInv(line["ordered"])'
        /\ \A m : Waiting(line["ordered"], m) /\ m # n => Waiting(line'["ordered"], m)
    BY <1>1, <1>9, ShorterLine
  <2>2. DoneInv'
    BY <1>1, <1>9, <1>s, <2>1 DEF SeatInv, SocketInv, DoneInv, Waiting
  <2> QED BY <1>5, <1>6, <2>1, <2>2 DEF SocketInv
<1> QED BY <1>1, <1>7, <1>8, <1>9

LEMMA ActsSocket ==
  ASSUME SeatInv, Held, NEW n \in Frames, Acts(n)
  PROVE  SocketInv'
<1>1. n \in under /\ acted' = acted \cup {n}
      /\ UNCHANGED <<read, line, spawned, under, closed, cut>>
  BY DEF Acts, outVars
<1>s. Script' = Script /\ Frames' = Frames /\ (\A m : LaneOf(m)' = LaneOf(m))
  BY SameScript DEF Held
<1>2. Script[n].kind = "cmd"
  BY <1>1 DEF SeatInv, SocketInv, SocketTypes
<1>3. SocketTypes'
  BY <1>1, <1>s DEF SeatInv, SocketInv, SocketTypes
<1>4. LineInv(line["ordered"])'
  BY <1>1, <1>s DEF SeatInv, SocketInv, LineInv
<1>5. DoneInv'
  BY <1>1, <1>s DEF SeatInv, SocketInv, DoneInv, Waiting
<1>6. SeesWhatItDid'
  BY <1>1, <1>2, <1>s DEF SeatInv, SocketInv, SeesWhatItDid
<1> QED BY <1>3, <1>4, <1>5, <1>6 DEF SocketInv

(* What the ordered worker does it does after all that was read before.    *)
LEMMA OrderedSocket ==
  ASSUME SeatInv, Held, Subscribes \/ Unsubscribes
  PROVE  SocketInv'
<1> PICK q, n : q = line["ordered"] /\ n = Head(q)
  OBVIOUS
<1>1. /\ q # <<>> /\ Idle("ordered") /\ Sees("ordered")
      /\ line' = [line EXCEPT !["ordered"] = Tail(@)]
      /\ UNCHANGED <<read, spawned, under, closed>>
  BY DEF Subscribes, Unsubscribes, NextOrdered
<1>2. IF closed THEN acted' = acted ELSE acted' = acted \cup {n}
  BY DEF Subscribes, Unsubscribes
<1>s. Script' = Script /\ Frames' = Frames /\ (\A m : LaneOf(m)' = LaneOf(m))
  BY SameScript DEF Held
<1>o. "ordered" \in Lanes /\ q \in Seq(Frames) /\ line \in [Lanes -> Seq(Frames)]
  BY OrderedTyped DEF SeatInv, SocketInv, SocketTypes
<1>3. /\ LineInv(line["ordered"])'
      /\ \A m : Waiting(q, m) /\ m # n => Waiting(line'["ordered"], m)
      /\ \A m : Waiting(q, m) => m >= n
      /\ n \in Frames /\ n \in 1 .. read
  BY <1>1, ShorterLine
<1>4. line' \in [Lanes -> Seq(Frames)]
  <2>1. Tail(q) \in Seq(Frames)
    BY <1>1, <1>o
  <2> QED BY <1>1, <1>o, <2>1
<1>5. SocketTypes'
  BY <1>1, <1>2, <1>3, <1>4, <1>s DEF SeatInv, SocketInv, SocketTypes, Held
<1>6. closed => cut
  BY DEF SeatInv, SocketInv, SocketTypes
<1>7. DoneInv'
  BY <1>1, <1>2, <1>3, <1>6, <1>s, ZenonT(60) DEF SeatInv, SocketInv, DoneInv, Waiting, Held
<1>8. ASSUME ~closed, NEW m \in 1 .. n - 1, LaneOf(m) = "ordered" PROVE m \in acted
  <2>1. ~cut
    BY <1>1, <1>8 DEF Sees
  <2>2. read \in Nat /\ n \in Nat
    BY <1>3 DEF SeatInv, SocketInv, SocketTypes
  <2>3. m \in 1 .. read /\ ~(m >= n)
    BY <1>3, <2>2
  <2>4. m \notin under
    BY <1>1, <1>8 DEF Idle
  <2> QED BY <1>3, <1>8, <2>1, <2>3, <2>4 DEF SeatInv, SocketInv, DoneInv
<1>9. SeesWhatItDid'
  BY <1>2, <1>8, <1>s DEF SeatInv, SocketInv, SeesWhatItDid
<1> QED BY <1>3, <1>5, <1>7, <1>9 DEF SocketInv

LEMMA ClosesSocket ==
  ASSUME SeatInv, Held, Closes
  PROVE  SocketInv'
<1>1. cut /\ closed' = TRUE /\ UNCHANGED <<read, spawned, under, acted>>
      /\ (UNCHANGED line \/ line' = [line EXCEPT !["ordered"] = <<>>])
  BY DEF Closes
<1>s. Script' = Script /\ Frames' = Frames /\ (\A m : LaneOf(m)' = LaneOf(m))
  BY SameScript DEF Held
<1>o. "ordered" \in Lanes /\ line \in [Lanes -> Seq(Frames)]
  BY OrderedTyped DEF SeatInv, SocketInv, SocketTypes
<1>e. <<>> \in Seq(Frames)
  OBVIOUS
<1>2. line' \in [Lanes -> Seq(Frames)]
      /\ (UNCHANGED line \/ line'["ordered"] = <<>>)
  <2>1. CASE UNCHANGED line
    BY <1>o, <2>1
  <2>2. CASE line' = [line EXCEPT !["ordered"] = <<>>]
    BY <1>o, <1>e, <2>2
  <2> QED BY <1>1, <2>1, <2>2
<1>3. SocketTypes'
  BY <1>1, <1>2, <1>s DEF SeatInv, SocketInv, SocketTypes, Held
<1>4. LineInv(line["ordered"])'
  <2>1. CASE UNCHANGED line
    BY <1>1, <1>s, <2>1 DEF SeatInv, SocketInv, LineInv
  <2>2. CASE line'["ordered"] = <<>>
    BY <2>2 DEF LineInv
  <2> QED BY <1>2, <2>1, <2>2
<1>5. DoneInv'
  BY <1>1 DEF DoneInv, Held
<1>6. SeesWhatItDid'
  BY <1>1, <1>s DEF SeatInv, SocketInv, SeesWhatItDid
<1> QED BY <1>3, <1>4, <1>5, <1>6 DEF SocketInv

LEMMA SeatNext == SeatInv /\ [Next]_vars => SeatInv'
<1> SUFFICES ASSUME SeatInv, [Next]_vars PROVE SeatInv'
  OBVIOUS
<1>1. DeskTypes' /\ Held
  <2>1. line["ordered"] \in Seq(Frames)
    BY OrderedTyped DEF SeatInv, SocketInv
  <2>2. \A n \in under : n \in Frames /\ Script[n].kind = "cmd"
    BY DEF SeatInv, SocketInv, SocketTypes
  <2> QED BY <2>1, <2>2, DeskStep DEF SeatInv
<1>2. SocketInv'
  <2>1. CASE Reader
    BY <1>1, <2>1, ReaderSocket
  <2>2. ASSUME NEW l \in Lanes, Begins(l) PROVE SocketInv'
    BY <1>1, <2>2, BeginsSocket
  <2>3. ASSUME NEW n \in Frames,
               BeginsAlone(n) \/ Acts(n) \/ Replies(n) \/ DropsWork(n)
        PROVE  SocketInv'
    <3>1. CASE Acts(n)
      BY <1>1, <3>1, ActsSocket
    <3>2. CASE BeginsAlone(n) \/ Replies(n) \/ DropsWork(n)
      <4>1. /\ UNCHANGED <<read, line, acted, closed>>
            /\ spawned' \subseteq spawned /\ under' \subseteq under \cup spawned
            /\ cut' \/ under \ acted \subseteq under'
        BY <1>1, <3>2 DEF BeginsAlone, Replies, DropsWork, Stops, Held
      <4> QED BY <1>1, <4>1, QuietSocket
    <3> QED BY <2>3, <3>1, <3>2
  <2>4. CASE Subscribes \/ Unsubscribes \/ Closes
    BY <1>1, <2>4, OrderedSocket, ClosesSocket
  <2>5. CASE \/ View \/ Told \/ Writer \/ Elsewhere \/ Chatter \/ Goes
             \/ UNCHANGED vars
    <3>1. UNCHANGED <<read, line, acted, closed, spawned, under>>
      BY <2>5 DEF View, Told, Writer, Elsewhere, Chatter, Goes, vars, socketVars
    <3> QED BY <1>1, <3>1, QuietSocket
  <2> QED BY <2>1, <2>2, <2>3, <2>4, <2>5 DEF Next, Owed, Workers, Commands
<1> QED BY <1>1, <1>2 DEF SeatInv

LEMMA SeatInit == Init => SeatInv
<1> SUFFICES ASSUME Init PROVE SeatInv
  OBVIOUS
<1>1. scene \in Scenes /\ remote \in BOOLEAN
  BY ScenesAssumption DEF Init
<1>2. OutInv
  <2>1. outq = <<>> /\ sent = 0 /\ cut = FALSE /\ heard = 0
    BY DEF Init, OutboxInit
  <2>2. <<>> \in Seq(FrameType) /\ DOMAIN <<>> = {} /\ Len(<<>>) = 0
    OBVIOUS
  <2>3. InOrder(outq, heard, sent)
    BY <2>1, <2>2 DEF InOrder, Wants
  <2>4. Capacity \in Nat /\ 0 <= Capacity
    BY OutboxAssumption
  <2>5. cut \in BOOLEAN
    BY <2>1
  <2>7. heard \in 0 .. sent /\ sent \in Nat
    <3>1. sent = 0 /\ heard = 0
      BY <2>1
    <3> QED BY <3>1
  <2>6. outq \in Seq(FrameType) /\ Len(outq) <= Capacity
    BY <2>1, <2>2, <2>4
  <2> QED BY <1>1, <2>3, <2>5, <2>6, <2>7 DEF OutInv
<1>3. ViewTypes
  <2>1. views = [s \in Subs |-> Closed]
    BY DEF Init, ViewsInit
  <2>2. Closed \in ViewType
    BY ClosedIs
  <2> HIDE DEF Closed
  <2> QED BY <2>1, <2>2 DEF ViewTypes
<1>4. TruthTypes
  <2>1. /\ room = [t \in Teammates |-> 1] /\ tape = [t \in Teammates |-> 0]
        /\ session = [t \in Teammates |-> [k \in Keys |-> 0]]
        /\ owed = {} /\ declared = FALSE
    BY DEF Init, ViewsInit
  <2>2. room \in [Teammates -> 0 .. 2] /\ tape \in [Teammates -> Nat]
    BY <2>1
  <2>3. session \in [Teammates -> [Keys -> 0 .. 1]]
    <3>1. [k \in Keys |-> 0] \in [Keys -> 0 .. 1]
      OBVIOUS
    <3> QED BY <2>1, <3>1
  <2>4. owed \subseteq Teammates /\ declared \in BOOLEAN
    BY <2>1
  <2> QED BY <2>2, <2>3, <2>4 DEF TruthTypes
<1>5. SocketInv
  <2>1. /\ read = 0 /\ line = [l \in Lanes |-> <<>>] /\ spawned = {} /\ under = {}
        /\ acted = {} /\ closed = FALSE
    BY DEF Init
  <2>2. <<>> \in Seq(Frames) /\ DOMAIN <<>> = {}
    OBVIOUS
  <2>3. Len(Script) \in Nat
    BY <1>1, ScriptIs
  <2>4. SocketTypes
    <3>1. line \in [Lanes -> Seq(Frames)]
      BY <2>1, <2>2
    <3>2. read \in 0 .. Len(Script)
      BY <2>1, <2>3
    <3>3. spawned \cup under = {}
      BY <2>1
    <3> QED BY <2>1, <3>1, <3>2, <3>3 DEF SocketTypes
  <2>5. LineInv(line["ordered"])
    BY <2>1, <2>2 DEF LineInv, Lanes
  <2>6. DoneInv /\ SeesWhatItDid
    BY <2>1 DEF DoneInv, SeesWhatItDid
  <2> QED BY <2>4, <2>5, <2>6 DEF SocketInv
<1> QED BY <1>1, <1>2, <1>3, <1>4, <1>5 DEF SeatInv, DeskTypes

LEMMA SeatHolds == SeatInv => SeatIsServedInOrder
<1> SUFFICES ASSUME SeatInv PROVE SeatIsServedInOrder
  OBVIOUS
<1>1. RequiredInOrder
  <2>1. InOrder(outq, heard, sent) /\ heard \in Nat /\ sent \in Nat
    BY DEF SeatInv, DeskTypes, OutInv
  <2>2. PICK waits : waits = {i \in DOMAIN outq : outq[i].kind = "required"}
    OBVIOUS
  <2>3. waits = Wants(outq)
    BY <2>2 DEF Wants
  <2>4. {outq[i].n : i \in waits} = heard + 1 .. sent
    BY <2>1, <2>3 DEF InOrder
  <2>5. \A i, j \in waits : i < j => outq[i].n < outq[j].n
    BY <2>1, <2>3 DEF InOrder
  <2> QED BY <2>2, <2>4, <2>5 DEF RequiredInOrder
<1>2. \A s \in Subs :
       /\ views[s].stage \in {"none", "subscribed", "snapshot", "loop", "rows", "over"}
       /\ Len(views[s].roomq) <= RoomDepth
       /\ Len(views[s].infoq) <= InfoDepth
       /\ views[s].dirty \subseteq Teammates
       /\ views[s].taken \subseteq Teammates
  BY DEF SeatInv, DeskTypes, ViewTypes, ViewType, RoomQueues, InfoQueues
<1>3. TypeOK
  BY <1>2 DEF TypeOK, SeatInv, DeskTypes, OutInv, TruthTypes, SocketInv, SocketTypes
<1>4. SeesWhatItDid
  BY DEF SeatInv, SocketInv
<1> QED BY <1>1, <1>3, <1>4 DEF SeatIsServedInOrder

(* While a seat is held, every required frame made for it and not yet      *)
(* written waits, in its turn, behind a bounded queue for a phone, and a   *)
(* subscription is opened only after every ordered frame sent before it    *)
(* has been done (queue.rs Sender::send, Outbox::send, open_ordered).      *)
THEOREM SeatAlwaysServedInOrder == Spec => []SeatIsServedInOrder
  BY SeatInit, SeatNext, SeatHolds, PTL DEF Spec
-----------------------------------------------------------------------------
(* Induction over the numbers, for a set of them.                          *)
LEMMA UpTo ==
  ASSUME NEW N \in Nat, NEW Q, 0 \in Q,
         \A n \in Nat : n < N /\ n \in Q => n + 1 \in Q
  PROVE  \A n \in 0 .. N : n \in Q
  <1> DEFINE T == {n \in 0 .. N : n \notin Q}
  <1> SUFFICES ASSUME T # {} PROVE FALSE
    OBVIOUS
  <1>1. T \subseteq Nat
    OBVIOUS
  <1>2. PICK x \in T : \A y \in T : x <= y
    BY <1>1, LeastNat
  <1>3. x # 0 /\ x \in Nat
    OBVIOUS
  <1>4. x - 1 \in Nat /\ x - 1 < N /\ x - 1 < x /\ x - 1 \in 0 .. N
        /\ x = (x - 1) + 1
    BY <1>3
  <1>5. x - 1 \in Q
    BY <1>2, <1>4
  <1> QED
    BY <1>4, <1>5

(* How many of S are before i.                                             *)
Rank(S, i) == Cardinality({j \in S : j < i})

(* The place a number has among those of a set.                             *)
LEMMA RankIs ==
  ASSUME NEW S, S \subseteq Nat, IsFiniteSet(S), NEW i
  PROVE  Rank(S, i) \in Nat /\ IsFiniteSet({j \in S : j < i})
  <1>1. {j \in S : j < i} \in SUBSET S
    OBVIOUS
  <1> QED
    BY <1>1, FS_Subset, FS_CardinalityType DEF Rank

(* A member has a greater place than every smaller one.                     *)
LEMMA RankGrows ==
  ASSUME NEW S, S \subseteq Nat, IsFiniteSet(S), NEW i \in S, NEW j \in S, i < j
  PROVE  Rank(S, i) < Rank(S, j) /\ Rank(S, j) < Cardinality(S)
  <1> DEFINE A == {x \in S : x < i}
             B == {x \in S : x < j}
  <1>0. (\A x \in S : x < i => x < j) /\ ~(i < i) /\ ~(j < j)
    OBVIOUS
  <1>1. A \in SUBSET B /\ B \in SUBSET S /\ i \in B /\ i \notin A /\ j \notin B
    BY <1>0
  <1>2. IsFiniteSet(A) /\ IsFiniteSet(B) /\ Cardinality(A) \in Nat
        /\ Cardinality(B) \in Nat /\ Cardinality(S) \in Nat
    BY RankIs, FS_CardinalityType DEF Rank
  <1> HIDE DEF A, B
  <1>3. Cardinality(A) <= Cardinality(B) /\ Cardinality(A) # Cardinality(B)
    BY <1>1, <1>2, FS_Subset
  <1>4. Cardinality(B) <= Cardinality(S) /\ Cardinality(B) # Cardinality(S)
    BY <1>1, <1>2, FS_Subset
  <1> QED
    BY <1>2, <1>3, <1>4 DEF A, B, Rank

(* A place is one of as many as there are members.                          *)
LEMMA RankBelow ==
  ASSUME NEW S, S \subseteq Nat, IsFiniteSet(S), NEW i \in S
  PROVE  Rank(S, i) < Cardinality(S)
  <1> DEFINE B == {x \in S : x < i}
  <1>0. ~(i < i)
    OBVIOUS
  <1>1. B \in SUBSET S /\ i \notin B
    BY <1>0
  <1>2. IsFiniteSet(B) /\ Cardinality(B) \in Nat /\ Cardinality(S) \in Nat
    BY RankIs, FS_CardinalityType DEF Rank
  <1> HIDE DEF B
  <1>4. Cardinality(B) <= Cardinality(S) /\ Cardinality(B) # Cardinality(S)
    BY <1>1, <1>2, FS_Subset
  <1> QED
    BY <1>2, <1>4 DEF B, Rank

(* Every place up to the number of members is some member's.                *)
LEMMA RankExists ==
  ASSUME NEW S, S \subseteq Nat, IsFiniteSet(S), NEW k \in 1 .. Cardinality(S)
  PROVE  \E i \in S : Rank(S, i) = k - 1
  <1> DEFINE C == Cardinality(S)
             Q == {m \in Nat : m < C => \E i \in S : Rank(S, i) = m}
  <1>0. C \in Nat
    BY FS_CardinalityType
  <1> HIDE DEF C
  <1>1. 0 \in Q
    <2> SUFFICES ASSUME 0 < C PROVE \E i \in S : Rank(S, i) = 0
      BY DEF Q
    <2>1. S # {}
      BY FS_EmptySet DEF C
    <2>2. PICK i \in S : \A j \in S : i <= j
      BY <2>1, LeastNat
    <2>3. \A j \in S : ~(j < i)
      BY <2>2
    <2>4. {j \in S : j < i} = {}
      BY <2>3
    <2> QED
      BY <2>4, FS_EmptySet DEF Rank
  <1>2. ASSUME NEW m \in Nat, m < C, m \in Q PROVE m + 1 \in Q
    <2> SUFFICES ASSUME m + 1 < C PROVE \E i \in S : Rank(S, i) = m + 1
      BY DEF Q
    <2>1. PICK i \in S : Rank(S, i) = m
      BY <1>0, <1>2 DEF Q
    <2> DEFINE A == {j \in S : j < i}
               U == {j \in S : i < j}
    <2>0. ~(i < i) /\ \A j \in S : j < i \/ j = i \/ i < j
      OBVIOUS
    <2>2. IsFiniteSet(A) /\ i \notin A /\ Cardinality(A) = m
      BY <2>0, <2>1, RankIs DEF Rank
    <2>3. Cardinality(A \cup {i}) = m + 1
      BY <2>2, FS_AddElement
    <2>4. U # {}
      <3>1. SUFFICES ASSUME U = {} PROVE FALSE
        OBVIOUS
      <3>2. S = A \cup {i}
        BY <2>0, <3>1
      <3> QED
        BY <1>0, <2>3, <3>2 DEF C
    <2>5. PICK n \in U : \A j \in U : n <= j
      BY <2>4, LeastNat
    <2>6. n \in S /\ i < n /\ \A j \in S : i < j => n <= j
      BY <2>5
    <2>7. \A j \in S : j < n <=> j < i \/ j = i
      BY <2>0, <2>6
    <2>8. {j \in S : j < n} = A \cup {i}
      BY <2>7
    <2> QED
      BY <2>3, <2>6, <2>8 DEF Rank
  <1>3. \A m \in 0 .. C : m \in Q
    <2> HIDE DEF Q
    <2> QED
      BY <1>0, <1>1, <1>2, UpTo
  <1>4. k - 1 \in 0 .. C /\ k - 1 < C /\ k - 1 \in Nat
    BY <1>0 DEF C
  <1> QED
    BY <1>3, <1>4 DEF Q

(* Nth is a place of S with that rank, and there is one of each.           *)
LEMMA NthIs ==
  ASSUME NEW S, S \subseteq Nat, IsFiniteSet(S), NEW k \in 1 .. Cardinality(S)
  PROVE  Nth(S, k) \in S /\ Rank(S, Nth(S, k)) = k - 1
  <1>1. \E i \in S : Cardinality({j \in S : j < i}) = k - 1
    BY RankExists DEF Rank
  <1> QED
    BY <1>1 DEF Nth, Rank

(* Nth is the member that has the place.                                    *)
LEMMA NthOf ==
  ASSUME NEW S, S \subseteq Nat, IsFiniteSet(S), NEW i \in S
  PROVE  \E k \in 1 .. Cardinality(S) : Nth(S, k) = i /\ k = Rank(S, i) + 1
  <1> DEFINE k == Rank(S, i) + 1
  <1>0. Cardinality(S) \in Nat
    BY FS_CardinalityType
  <1>1. Rank(S, i) \in Nat
    BY RankIs
  <1>2. Rank(S, i) < Cardinality(S)
    BY RankBelow
  <1>3. k \in 1 .. Cardinality(S) /\ k - 1 = Rank(S, i)
    BY <1>0, <1>1, <1>2
  <1> HIDE DEF k
  <1>4. Nth(S, k) \in S /\ Rank(S, Nth(S, k)) = Rank(S, i)
    BY <1>3, NthIs
  <1>5. i \in Nat /\ Nth(S, k) \in Nat
    BY <1>4
  <1>6. ~(Nth(S, k) < i)
    <2> SUFFICES ASSUME Nth(S, k) < i PROVE FALSE
      OBVIOUS
    <2>1. Rank(S, Nth(S, k)) < Rank(S, i)
      BY <1>4, RankGrows
    <2> QED
      BY <1>1, <1>4, <2>1
  <1>7. ~(i < Nth(S, k))
    <2> SUFFICES ASSUME i < Nth(S, k) PROVE FALSE
      OBVIOUS
    <2>1. Rank(S, i) < Rank(S, Nth(S, k))
      BY <1>4, RankGrows
    <2> QED
      BY <1>1, <1>4, <2>1
  <1>8. Nth(S, k) = i
    BY <1>5, <1>6, <1>7
  <1> QED
    BY <1>3, <1>8 DEF k

(* Nth keeps the order.                                                     *)
LEMMA NthOrder ==
  ASSUME NEW S, S \subseteq Nat, IsFiniteSet(S),
         NEW k \in 1 .. Cardinality(S), NEW l \in 1 .. Cardinality(S), k < l
  PROVE  Nth(S, k) < Nth(S, l)
  <1>1. /\ Nth(S, k) \in S /\ Rank(S, Nth(S, k)) = k - 1
        /\ Nth(S, l) \in S /\ Rank(S, Nth(S, l)) = l - 1
    BY NthIs
  <1>0. Cardinality(S) \in Nat
    BY FS_CardinalityType
  <1>2. k - 1 \in Nat /\ l - 1 \in Nat /\ k - 1 < l - 1
        /\ ~(l - 1 < k - 1) /\ l - 1 # k - 1
    BY <1>0
  <1>5. Nth(S, k) \in Nat /\ Nth(S, l) \in Nat
    BY <1>1
  <1>3. ~(Nth(S, l) < Nth(S, k))
    <2> SUFFICES ASSUME Nth(S, l) < Nth(S, k) PROVE FALSE
      OBVIOUS
    <2>1. Rank(S, Nth(S, l)) < Rank(S, Nth(S, k))
      BY <1>1, RankGrows
    <2> QED
      BY <1>1, <1>2, <2>1
  <1>4. Nth(S, l) # Nth(S, k)
    BY <1>1, <1>2
  <1> QED
    BY <1>5, <1>3, <1>4

(* One more place, behind all of them.                                     *)
LEMMA NthMore ==
  ASSUME NEW S, S \subseteq Nat, IsFiniteSet(S), NEW m \in Nat, \A i \in S : i < m
  PROVE  /\ Cardinality(S \cup {m}) = Cardinality(S) + 1
         /\ Nth(S \cup {m}, Cardinality(S) + 1) = m
         /\ \A k \in 1 .. Cardinality(S) : Nth(S \cup {m}, k) = Nth(S, k)
  <1> DEFINE T == S \cup {m}
  <1>0. m \notin S
    <2>1. ~(m < m)
      OBVIOUS
    <2> QED
      BY <2>1
  <1>1. /\ T \subseteq Nat /\ IsFiniteSet(T)
        /\ Cardinality(T) = Cardinality(S) + 1 /\ Cardinality(S) \in Nat
    BY <1>0, FS_AddElement, FS_CardinalityType
  <1>2. {j \in T : j < m} = S
    <2>1. ~(m < m)
      OBVIOUS
    <2> QED
      BY <2>1
  <1>3. ASSUME NEW i \in S PROVE {j \in T : j < i} = {j \in S : j < i}
    <2>1. ~(m < i)
      OBVIOUS
    <2> QED
      BY <2>1
  <1>4. Rank(T, m) = Cardinality(S)
    BY <1>2 DEF Rank
  <1>5. \A i \in S : Rank(T, i) = Rank(S, i)
    BY <1>3 DEF Rank
  <1>6. m \in T /\ S \subseteq T
    OBVIOUS
  <1> HIDE DEF T
  <1>7. Nth(T, Cardinality(S) + 1) = m
    BY <1>1, <1>4, <1>6, NthOf
  <1>8. ASSUME NEW k \in 1 .. Cardinality(S) PROVE Nth(T, k) = Nth(S, k)
    <2>1. Nth(S, k) \in S /\ Rank(S, Nth(S, k)) = k - 1
      BY NthIs
    <2>2. Rank(T, Nth(S, k)) = k - 1 /\ Nth(S, k) \in T
      BY <1>5, <1>6, <2>1
    <2>3. PICK l \in 1 .. Cardinality(T) :
             Nth(T, l) = Nth(S, k) /\ l = Rank(T, Nth(S, k)) + 1
      BY <1>1, <2>2, NthOf
    <2>4. l = (k - 1) + 1 /\ k \in Nat
      BY <1>1, <2>2, <2>3
    <2> QED
      BY <2>3, <2>4
  <1> QED
    BY <1>1, <1>7, <1>8 DEF T
-----------------------------------------------------------------------------
Line == Event \cup {Junk, Half, Ended}

(* Events are told from what a torn file holds.                             *)
LEMMA LineIs == /\ \A e \in Event : IsEvent(e)
                /\ \A x \in Line : IsEvent(x) => x \in Event
                /\ ~IsEvent(Junk) /\ ~IsEvent(Half) /\ ~IsEvent(Ended)
  <1>1. ASSUME NEW e \in Event PROVE e # Junk /\ e # Half /\ e # Ended
    <2>1. /\ DOMAIN e = {"id", "n", "card"}
          /\ DOMAIN Junk = {"junk"} /\ DOMAIN Half = {"half"} /\ DOMAIN Ended = {"ended"}
      BY DEF Event, Junk, Half, Ended
    <2>2. "id" \notin DOMAIN Junk /\ "id" \notin DOMAIN Half /\ "id" \notin DOMAIN Ended
          /\ "id" \in DOMAIN e
      BY <2>1
    <2> QED
      BY <2>2
  <1> QED
    BY <1>1 DEF IsEvent, Line

(* The places where an id comes first.                                      *)
LEMMA FirstsIs ==
  ASSUME NEW s \in Seq(Line)
  PROVE  /\ Firsts(s) \subseteq Nat /\ IsFiniteSet(Firsts(s))
         /\ Cardinality(Firsts(s)) \in Nat
         /\ \A i \in Firsts(s) : i \in 1 .. Len(s) /\ s[i] \in Event
  <1>1. IsFiniteSet(1 .. Len(s))
    BY FS_Interval
  <1>2. Firsts(s) \in SUBSET (1 .. Len(s))
    BY DEF Firsts
  <1>3. IsFiniteSet(Firsts(s))
    BY <1>1, <1>2, FS_Subset
  <1>4. \A i \in Firsts(s) : s[i] \in Line /\ IsEvent(s[i])
    BY DEF Firsts
  <1> QED
    BY <1>2, <1>3, <1>4, LineIs, FS_CardinalityType

(* The places of an id hold events with it.                                 *)
LEMMA PlaceIs ==
  ASSUME NEW s \in Seq(Line), NEW id
  PROVE  /\ Places(s, id) \subseteq 1 .. Len(s)
         /\ \A i \in Places(s, id) : s[i] \in Event /\ s[i].id = id
  <1>1. \A i \in Places(s, id) : i \in 1 .. Len(s) /\ s[i] \in Line /\ IsEvent(s[i])
                                 /\ s[i].id = id
    BY DEF Places
  <1> QED
    BY <1>1, LineIs

(* What is there has a first place.                                         *)
LEMMA FirstExists ==
  ASSUME NEW s \in Seq(Line), NEW id, NEW j \in Places(s, id)
  PROVE  \E i \in Places(s, id) : i \in Firsts(s) /\ i <= j
  <1>1. Places(s, id) \subseteq Nat
    BY PlaceIs
  <1>2. PICK i \in Places(s, id) : \A x \in Places(s, id) : i <= x
    BY <1>1, LeastNat
  <1> QED
    BY <1>2 DEF Places, Firsts

(* What is there has a last place.                                          *)
LEMMA LastExists ==
  ASSUME NEW s \in Seq(Line), NEW id, NEW j \in Places(s, id)
  PROVE  \E i \in Places(s, id) : i \in Lasts(s)
  <1> DEFINE P == Places(s, id)
             T == {Len(s) - x : x \in P}
  <1>0. P \subseteq 1 .. Len(s) /\ Len(s) \in Nat
    BY PlaceIs
  <1>a. j \in P
    OBVIOUS
  <1> HIDE DEF P
  <1>1. T \subseteq Nat /\ T # {}
    BY <1>0, <1>a
  <1>2. PICK m \in T : \A y \in T : m <= y
    BY <1>1, LeastNat
  <1>3. PICK i \in P : m = Len(s) - i
    BY <1>2
  <1>4. ASSUME NEW x \in P PROVE x <= i
    <2>1. m <= Len(s) - x
      BY <1>2
    <2>2. x \in Nat /\ i \in Nat
      BY <1>0
    <2> QED
      BY <1>0, <1>3, <2>1, <2>2
  <1> QED
    BY <1>3, <1>4 DEF P, Places, Lasts

(* The latest event of an id is the one at its last place.                  *)
LEMMA LatestIs ==
  ASSUME NEW s \in Seq(Line), NEW id, NEW l \in Places(s, id), l \in Lasts(s)
  PROVE  Latest(s, id) = s[l]
  <1> DEFINE c == CHOOSE i \in Places(s, id) : i \in Lasts(s)
  <1>1. c \in Places(s, id) /\ c \in Lasts(s)
    OBVIOUS
  <1>2. Latest(s, id) = s[c]
    BY DEF Latest
  <1> HIDE DEF c
  <1>3. c <= l /\ l <= c /\ c \in 1 .. Len(s) /\ l \in 1 .. Len(s)
    BY <1>1 DEF Places, Lasts
  <1> QED
    BY <1>2, <1>3

(* Each place of a fold holds the last event of the id that comes first     *)
(* there.                                                                   *)
LEMMA FoldIs ==
  ASSUME NEW s \in Seq(Line)
  PROVE  /\ Fold(s) \in Seq(Event)
         /\ Len(Fold(s)) = Cardinality(Firsts(s))
         /\ \A k \in 1 .. Len(Fold(s)) :
              /\ Nth(Firsts(s), k) \in Firsts(s)
              /\ Fold(s)[k].id = s[Nth(Firsts(s), k)].id
              /\ \E l \in Lasts(s) : /\ l \in Places(s, Fold(s)[k].id)
                                     /\ Fold(s)[k] = s[l]
  <1> DEFINE F == Firsts(s)
             C == Cardinality(F)
  <1>1. C \in Nat
    BY FirstsIs
  <1>2. ASSUME NEW k \in 1 .. C
        PROVE  /\ Nth(F, k) \in F
               /\ Latest(s, s[Nth(F, k)].id) \in Event
               /\ Latest(s, s[Nth(F, k)].id).id = s[Nth(F, k)].id
               /\ \E l \in Lasts(s) : /\ l \in Places(s, s[Nth(F, k)].id)
                                      /\ Latest(s, s[Nth(F, k)].id) = s[l]
    <2>1. Nth(F, k) \in F
      BY FirstsIs, NthIs
    <2>2. PICK i \in F : i = Nth(F, k)
      BY <2>1
    <2>3. i \in Places(s, s[i].id)
      BY <2>2 DEF Firsts, Places
    <2>4. PICK l \in Places(s, s[i].id) : l \in Lasts(s)
      BY <2>3, LastExists
    <2>5. s[l] \in Event /\ s[l].id = s[i].id
      BY <2>4, PlaceIs
    <2>6. Latest(s, s[i].id) = s[l]
      BY <2>4, LatestIs
    <2> QED
      BY <2>2, <2>4, <2>5, <2>6
  <1>3. Fold(s) = [k \in 1 .. C |-> Latest(s, s[Nth(F, k)].id)]
    BY DEF Fold
  <1> HIDE DEF C, F
  <1>4. Fold(s) \in Seq(Event) /\ Len(Fold(s)) = C
    BY <1>1, <1>2, <1>3
  <1>5. \A k \in 1 .. C : Fold(s)[k] = Latest(s, s[Nth(F, k)].id)
    BY <1>3
  <1> QED
    BY <1>2, <1>4, <1>5 DEF C, F

(* Each id of s once.                                                      *)
LEMMA FoldIds ==
  ASSUME NEW s \in Seq(Line)
  PROVE  /\ \A i \in 1 .. Len(s) : IsEvent(s[i]) =>
              \E k \in 1 .. Len(Fold(s)) : Fold(s)[k].id = s[i].id
         /\ \A k, l \in 1 .. Len(Fold(s)) : Fold(s)[k].id = Fold(s)[l].id => k = l
  <1> DEFINE F == Firsts(s)
  <1>1. ASSUME NEW i \in 1 .. Len(s), IsEvent(s[i])
        PROVE  \E k \in 1 .. Len(Fold(s)) : Fold(s)[k].id = s[i].id
    <2>1. i \in Places(s, s[i].id)
      BY <1>1 DEF Places
    <2>2. PICK j \in Places(s, s[i].id) : j \in F
      BY <2>1, FirstExists
    <2>3. s[j].id = s[i].id
      BY <2>2, PlaceIs
    <2>4. PICK k \in 1 .. Cardinality(F) : Nth(F, k) = j
      BY <2>2, FirstsIs, NthOf
    <2>5. k \in 1 .. Len(Fold(s))
      BY FoldIs
    <2>6. Fold(s)[k].id = s[Nth(F, k)].id
      BY <2>5, FoldIs
    <2> QED
      BY <2>3, <2>4, <2>5, <2>6
  <1>2. ASSUME NEW k \in 1 .. Len(Fold(s)), NEW l \in 1 .. Len(Fold(s)),
               Fold(s)[k].id = Fold(s)[l].id
        PROVE  ~(k < l)
    <2> SUFFICES ASSUME k < l PROVE FALSE
      OBVIOUS
    <2>1. k \in 1 .. Cardinality(F) /\ l \in 1 .. Cardinality(F)
      BY FoldIs
    <2>2. Nth(F, k) < Nth(F, l)
      BY <2>1, FirstsIs, NthOrder
    <2>3. /\ Nth(F, k) \in F /\ Nth(F, l) \in F
          /\ s[Nth(F, k)].id = s[Nth(F, l)].id
      BY <1>2, FoldIs
    <2> HIDE DEF F
    <2>4. PICK i \in F, j \in F : i = Nth(F, k) /\ j = Nth(F, l)
      BY <2>3
    <2>5. s[i].id = s[j].id /\ i < j
      BY <2>2, <2>3, <2>4
    <2>6. i \in 1 .. Len(s) /\ j \in 1 .. Len(s) /\ i \in Places(s, s[j].id)
      BY <2>4, <2>5 DEF F, Firsts, Places
    <2>7. j <= i
      BY <2>4, <2>6 DEF F, Firsts
    <2> QED
      BY <2>5, <2>6, <2>7
  <1>3. Len(Fold(s)) \in Nat
    BY FoldIs
  <1>4. ASSUME NEW k \in 1 .. Len(Fold(s)), NEW l \in 1 .. Len(Fold(s)),
               Fold(s)[k].id = Fold(s)[l].id
        PROVE  k = l
    BY <1>2, <1>3, <1>4
  <1> QED
    BY <1>1, <1>4

(* Nothing folds to nothing.                                                *)
LEMMA FoldNothing == Fold(<<>>) = <<>>
  <1>1. <<>> \in Seq(Line)
    OBVIOUS
  <1>2. Firsts(<<>>) = {}
    BY DEF Firsts
  <1>3. Len(Fold(<<>>)) = 0 /\ Fold(<<>>) \in Seq(Event)
    BY <1>1, <1>2, FoldIs, FS_EmptySet
  <1> QED
    BY <1>3
-----------------------------------------------------------------------------
(* A line that is no event changes nothing.                                *)
LEMMA FoldSkips ==
  ASSUME NEW s \in Seq(Line), NEW x \in Line, ~IsEvent(x)
  PROVE  Fold(Append(s, x)) = Fold(s)
  <1> DEFINE t == Append(s, x)
             m == Len(s) + 1
  <1>1. /\ t \in Seq(Line) /\ Len(t) = m /\ Len(s) \in Nat /\ m \in Nat
        /\ DOMAIN s = 1 .. Len(s) /\ DOMAIN t = DOMAIN s \cup {m} /\ m \notin DOMAIN s
        /\ \A i \in DOMAIN s : t[i] = s[i]
        /\ t[m] = x
    OBVIOUS
  <1> HIDE DEF t, m
  <1>2. \A id : Places(t, id) = Places(s, id)
    BY <1>1 DEF Places
  <1>3. Firsts(t) = Firsts(s)
    BY <1>1, <1>2 DEF Firsts
  <1>4. Lasts(t) = Lasts(s)
    BY <1>1, <1>2 DEF Lasts
  <1>5. Fold(t) \in Seq(Event) /\ Fold(s) \in Seq(Event) /\ Len(Fold(t)) = Len(Fold(s))
    BY <1>1, <1>3, FoldIs
  <1>6. ASSUME NEW k \in 1 .. Len(Fold(s)) PROVE Fold(t)[k] = Fold(s)[k]
    <2> DEFINE i == Nth(Firsts(s), k)
    <2>1. PICK l \in Lasts(s) : /\ l \in Places(s, Fold(s)[k].id)
                                /\ Fold(s)[k] = s[l]
      BY FoldIs
    <2>2. PICK o \in Lasts(t) : /\ o \in Places(t, Fold(t)[k].id)
                                /\ Fold(t)[k] = t[o]
      BY <1>1, <1>5, FoldIs
    <2>3. i \in Firsts(s) /\ Fold(s)[k].id = s[i].id
      BY FoldIs
    <2>4. Fold(t)[k].id = t[i].id
      BY <1>1, <1>3, <1>5, FoldIs
    <2>5. i \in DOMAIN s
      BY <2>3 DEF Firsts
    <2> HIDE DEF i
    <2>6. o \in Lasts(s) /\ o \in Places(s, Fold(s)[k].id) /\ o \in DOMAIN s
      BY <1>1, <1>2, <1>4, <2>2, <2>3, <2>4, <2>5 DEF Lasts
    <2>7. Latest(s, Fold(s)[k].id) = s[l] /\ Latest(s, Fold(s)[k].id) = s[o]
      BY <2>1, <2>6, LatestIs
    <2> QED
      BY <1>1, <2>1, <2>2, <2>6, <2>7
  <1>7. Fold(t) = Fold(s)
    BY <1>5, <1>6
  <1> QED
    BY <1>7 DEF t

(* What Supersede answers.                                                 *)
LEMMA SupersedeIs ==
  ASSUME NEW v \in Seq(Event), NEW e \in Event
  PROVE  /\ Supersede(v, e) \in Seq(Event)
         /\ (\E k \in 1 .. Len(v) : v[k].id = e.id) =>
              /\ Len(Supersede(v, e)) = Len(v)
              /\ \A k \in 1 .. Len(v) :
                   Supersede(v, e)[k] = IF v[k].id = e.id THEN e ELSE v[k]
         /\ ~(\E k \in 1 .. Len(v) : v[k].id = e.id) => Supersede(v, e) = Append(v, e)
  <1>1. CASE \E k \in 1 .. Len(v) : v[k].id = e.id
    <2>1. Supersede(v, e) = [k \in 1 .. Len(v) |-> IF v[k].id = e.id THEN e ELSE v[k]]
      BY <1>1 DEF Supersede
    <2> QED
      BY <1>1, <2>1
  <1>2. CASE ~(\E k \in 1 .. Len(v) : v[k].id = e.id)
    <2>1. Supersede(v, e) = Append(v, e)
      BY <1>2 DEF Supersede
    <2> QED
      BY <1>2, <2>1
  <1> QED
    BY <1>1, <1>2

(* The fold of one event more, whichever is the place of its id.           *)
LEMMA FoldAppends ==
  ASSUME NEW s \in Seq(Line), NEW e \in Event
  PROVE  Fold(Append(s, e)) = Supersede(Fold(s), e)
  <1> DEFINE t == Append(s, e)
             m == Len(s) + 1
             V == Fold(s)
             W == Fold(t)
  <1>1. /\ t \in Seq(Line) /\ Len(t) = m /\ Len(s) \in Nat /\ m \in Nat
        /\ DOMAIN s = 1 .. Len(s) /\ DOMAIN t = DOMAIN s \cup {m} /\ m \notin DOMAIN s
        /\ \A i \in DOMAIN s : t[i] = s[i] /\ i < m /\ i \in Nat
        /\ t[m] = e
    BY DEF Line
  <1> HIDE DEF t, m
  <1>2. IsEvent(e)
    BY LineIs
  <1>3. /\ \A id : id # e.id => Places(t, id) = Places(s, id)
        /\ Places(t, e.id) = Places(s, e.id) \cup {m}
    BY <1>1, <1>2 DEF Places
  <1>4. /\ V \in Seq(Event) /\ W \in Seq(Event)
        /\ Len(V) = Cardinality(Firsts(s)) /\ Len(W) = Cardinality(Firsts(t))
        /\ Len(V) \in Nat /\ Len(W) \in Nat
    BY <1>1, FoldIs
  <1>5. m \in Lasts(t) /\ m \in Places(t, e.id) /\ Latest(t, e.id) = e
    <2>1. \A i \in Places(t, e.id) : i <= m
      BY <1>1, PlaceIs
    <2>2. m \in Lasts(t)
      BY <1>1, <1>2, <2>1 DEF Lasts
    <2> QED
      BY <1>1, <1>3, <2>2, LatestIs
  <1>6. ASSUME NEW k \in 1 .. Len(W), W[k].id = e.id PROVE W[k] = e
    <2>1. PICK l \in Lasts(t) : l \in Places(t, W[k].id) /\ W[k] = t[l]
      BY <1>1, FoldIs
    <2>2. Latest(t, e.id) = t[l]
      BY <1>1, <1>6, <2>1, LatestIs
    <2> QED
      BY <1>5, <2>1, <2>2
  <1>7. ASSUME NEW k \in 1 .. Len(W), NEW j \in 1 .. Len(V), W[k].id = V[j].id,
               W[k].id # e.id
        PROVE  W[k] = V[j]
    <2>1. PICK l \in Lasts(t) : l \in Places(t, W[k].id) /\ W[k] = t[l]
      BY <1>1, FoldIs
    <2>2. PICK o \in Lasts(s) : o \in Places(s, V[j].id) /\ V[j] = s[o]
      BY FoldIs
    <2>3. l \in Places(s, V[j].id) /\ l \in DOMAIN s /\ t[l] = s[l]
      BY <1>1, <1>3, <1>7, <2>1 DEF Places
    <2>4. s[l].id = V[j].id /\ s[l].id # e.id
      BY <1>7, <2>3, PlaceIs
    <2>5. l \in Lasts(s)
      BY <1>1, <1>3, <2>1, <2>3, <2>4 DEF Lasts
    <2>6. Latest(s, V[j].id) = s[l] /\ Latest(s, V[j].id) = s[o]
      BY <2>2, <2>3, <2>5, LatestIs
    <2> QED
      BY <2>1, <2>2, <2>3, <2>6
  <1>8. CASE \E j \in 1 .. Len(V) : V[j].id = e.id
    <2>1. PICK j \in 1 .. Len(V) : V[j].id = e.id
      BY <1>8
    <2>2. PICK l \in Lasts(s) : l \in Places(s, e.id)
      BY <2>1, FoldIs
    <2>3. l \in DOMAIN s /\ l < m /\ s[l].id = e.id
      BY <1>1, <2>2, PlaceIs
    <2>4. m \notin Firsts(t)
      BY <1>1, <1>3, <2>2, <2>3 DEF Firsts
    <2>5. \A i \in DOMAIN s : i \in Firsts(t) <=> i \in Firsts(s)
      BY <1>1, <1>3 DEF Firsts
    <2>6. Firsts(t) = Firsts(s)
      BY <1>1, <2>4, <2>5 DEF Firsts
    <2>7. Len(W) = Len(V)
      BY <1>4, <2>6
    <2>8. ASSUME NEW k \in 1 .. Len(V)
          PROVE  W[k] = IF V[k].id = e.id THEN e ELSE V[k]
      <3> DEFINE i == Nth(Firsts(s), k)
      <3>1. i \in Firsts(s) /\ V[k].id = s[i].id
        BY FoldIs
      <3>2. W[k].id = t[i].id
        BY <1>1, <2>6, <2>7, FoldIs
      <3>3. i \in DOMAIN s
        BY <3>1 DEF Firsts
      <3> HIDE DEF i
      <3>4. W[k].id = V[k].id
        BY <1>1, <3>1, <3>2, <3>3
      <3> QED
        BY <1>6, <1>7, <2>7, <3>4
    <2>9. /\ Supersede(V, e) \in Seq(Event) /\ Len(Supersede(V, e)) = Len(V)
          /\ \A k \in 1 .. Len(V) :
               Supersede(V, e)[k] = IF V[k].id = e.id THEN e ELSE V[k]
      BY <1>4, <1>8, SupersedeIs
    <2> HIDE DEF V, W
    <2>10. W = Supersede(V, e)
      BY <1>4, <2>7, <2>8, <2>9
    <2> QED
      BY <2>10 DEF V, W, t
  <1>9. CASE ~(\E j \in 1 .. Len(V) : V[j].id = e.id)
    <2>1. Places(s, e.id) = {}
      <3> SUFFICES ASSUME NEW i \in Places(s, e.id) PROVE FALSE
        OBVIOUS
      <3>1. i \in 1 .. Len(s) /\ IsEvent(s[i]) /\ s[i].id = e.id
        BY DEF Places
      <3> QED
        BY <1>9, <3>1, FoldIds
    <2>2. m \in Firsts(t)
      BY <1>1, <1>2, <1>3, <2>1 DEF Firsts
    <2>3. \A i \in DOMAIN s : IsEvent(s[i]) => s[i].id # e.id
      BY <2>1 DEF Places
    <2>4. \A i \in DOMAIN s : i \in Firsts(t) <=> i \in Firsts(s)
      BY <1>1, <1>3, <2>3 DEF Firsts
    <2>5. Firsts(t) = Firsts(s) \cup {m}
      BY <1>1, <2>2, <2>4 DEF Firsts
    <2>6. \A i \in Firsts(s) : i < m
      BY <1>1 DEF Firsts
    <2>7. /\ Len(W) = Len(V) + 1
          /\ Nth(Firsts(t), Len(V) + 1) = m
          /\ \A k \in 1 .. Len(V) : Nth(Firsts(t), k) = Nth(Firsts(s), k)
      <3> DEFINE F == Firsts(s)
      <3>1. F \subseteq Nat /\ IsFiniteSet(F)
        BY FirstsIs
      <3>2. \A i \in F : i < m
        BY <2>6
      <3> HIDE DEF F
      <3>3. /\ Cardinality(F \cup {m}) = Cardinality(F) + 1
            /\ Nth(F \cup {m}, Cardinality(F) + 1) = m
            /\ \A k \in 1 .. Cardinality(F) : Nth(F \cup {m}, k) = Nth(F, k)
        BY <1>1, <3>1, <3>2, NthMore
      <3> QED
        BY <1>4, <2>5, <3>3 DEF F
    <2>8. ASSUME NEW k \in 1 .. Len(V) PROVE W[k] = V[k]
      <3> DEFINE i == Nth(Firsts(s), k)
      <3>1. i \in Firsts(s) /\ V[k].id = s[i].id
        BY FoldIs
      <3>0. k \in 1 .. Len(W)
        BY <1>4, <2>7
      <3>2. W[k].id = t[i].id
        BY <1>1, <2>7, <3>0, FoldIs
      <3>3. i \in DOMAIN s
        BY <3>1 DEF Firsts
      <3> HIDE DEF i
      <3>4. W[k].id = V[k].id
        BY <1>1, <3>1, <3>2, <3>3
      <3>5. V[k].id # e.id
        BY <1>9
      <3> QED
        BY <1>7, <3>0, <3>4, <3>5
    <2>9. W[Len(V) + 1] = e
      <3>1. Len(V) + 1 \in 1 .. Len(W)
        BY <1>4, <2>7
      <3>2. W[Len(V) + 1].id = t[m].id
        BY <1>1, <2>7, <3>1, FoldIs
      <3> QED
        BY <1>1, <1>6, <3>1, <3>2
    <2>10. Supersede(V, e) = Append(V, e)
      BY <1>4, <1>9, SupersedeIs
    <2> HIDE DEF V, W
    <2>11. W = Append(V, e)
      BY <1>4, <2>7, <2>8, <2>9
    <2> QED
      BY <2>10, <2>11 DEF V, W, t
  <1> QED
    BY <1>8, <1>9
-----------------------------------------------------------------------------
(* The last event of an id written anew in its place.                      *)
LEMMA FoldReplaces ==
  ASSUME NEW s \in Seq(Line), NEW u \in Seq(Line), NEW e \in Event,
         NEW j \in 1 .. Len(s), j \in Lasts(s), s[j].id = e.id,
         Len(u) = Len(s), u[j] = e,
         \A i \in 1 .. Len(s) : i # j => u[i] = s[i]
  PROVE  Fold(u) = Supersede(Fold(s), e)
  <1> DEFINE V == Fold(s)
             W == Fold(u)
  <1>1. /\ DOMAIN s = 1 .. Len(s) /\ DOMAIN u = DOMAIN s /\ Len(s) \in Nat
        /\ \A i \in DOMAIN s : i # j => u[i] = s[i]
        /\ IsEvent(u[j]) /\ IsEvent(s[j]) /\ u[j].id = s[j].id
    BY LineIs DEF Lasts
  <1>2. \A i \in DOMAIN s : /\ IsEvent(u[i]) = IsEvent(s[i])
                            /\ u[i].id = s[i].id
    BY <1>1 DEF IsEvent
  <1>3. \A id : Places(u, id) = Places(s, id)
    BY <1>1, <1>2 DEF Places
  <1>4. Firsts(u) = Firsts(s) /\ Lasts(u) = Lasts(s)
    BY <1>1, <1>2, <1>3 DEF Firsts, Lasts
  <1>5. V \in Seq(Event) /\ W \in Seq(Event) /\ Len(W) = Len(V)
    BY <1>4, FoldIs
  <1>6. ASSUME NEW k \in 1 .. Len(V)
        PROVE  W[k] = IF V[k].id = e.id THEN e ELSE V[k]
    <2> DEFINE i == Nth(Firsts(s), k)
    <2>1. i \in Firsts(s) /\ V[k].id = s[i].id
      BY FoldIs
    <2>2. W[k].id = u[i].id
      BY <1>4, <1>5, FoldIs
    <2>3. i \in DOMAIN s
      BY <2>1 DEF Firsts
    <2> HIDE DEF i
    <2>4. W[k].id = V[k].id
      BY <1>2, <2>1, <2>2, <2>3
    <2>5. PICK l \in Lasts(u) : l \in Places(u, W[k].id) /\ W[k] = u[l]
      BY <1>5, FoldIs
    <2>6. PICK o \in Lasts(s) : o \in Places(s, V[k].id) /\ V[k] = s[o]
      BY FoldIs
    <2>7. l \in Places(s, V[k].id) /\ l \in Lasts(s)
      BY <1>3, <1>4, <2>4, <2>5
    <2>8. /\ l \in DOMAIN s /\ o \in DOMAIN s /\ s[l].id = V[k].id
          /\ s[o].id = V[k].id /\ o <= l /\ l <= o
      BY <2>6, <2>7 DEF Places, Lasts
    <2>9. l = o
      BY <1>1, <2>8
    <2>10. CASE V[k].id = e.id
      <3>1. j \in Places(s, V[k].id)
        BY <1>1, <2>10 DEF Places
      <3>2. j <= l /\ l <= j
        BY <1>1, <2>7, <2>8, <2>10, <3>1 DEF Lasts
      <3>3. l = j
        BY <1>1, <2>8, <3>2
      <3> QED
        BY <2>5, <2>10, <3>3
    <2>11. CASE V[k].id # e.id
      <3>1. l # j
        BY <2>8, <2>11
      <3> QED
        BY <1>1, <2>5, <2>6, <2>8, <2>9, <2>11, <3>1
    <2> QED
      BY <2>10, <2>11
  <1>7. \E k \in 1 .. Len(V) : V[k].id = e.id
    BY <1>1, FoldIds
  <1>8. /\ Supersede(V, e) \in Seq(Event) /\ Len(Supersede(V, e)) = Len(V)
        /\ \A k \in 1 .. Len(V) :
             Supersede(V, e)[k] = IF V[k].id = e.id THEN e ELSE V[k]
    BY <1>5, <1>7, SupersedeIs
  <1> HIDE DEF V, W
  <1>9. W = Supersede(V, e)
    BY <1>5, <1>6, <1>8
  <1> QED
    BY <1>9 DEF V, W

(* One sequence behind another.                                             *)
LEMMA BehindIs ==
  ASSUME NEW S, NEW a \in Seq(S), NEW v \in Seq(S)
  PROVE  /\ a \o v \in Seq(S) /\ Len(a \o v) = Len(a) + Len(v)
         /\ Len(a) \in Nat /\ Len(v) \in Nat
         /\ \A i \in 1 .. Len(a) : (a \o v)[i] = a[i]
         /\ \A i \in 1 .. Len(v) : /\ Len(a) + i \in 1 .. Len(a \o v)
                                   /\ (a \o v)[Len(a) + i] = v[i]
  OBVIOUS

(* A fold with one event more, behind what came before it.                 *)
LEMMA FoldBehind ==
  ASSUME NEW a \in Seq(Line), NEW v \in Seq(Event), NEW e \in Event,
         \A k, l \in 1 .. Len(v) : v[k].id = v[l].id => k = l
  PROVE  Fold(a \o Supersede(v, e)) = Supersede(Fold(a \o v), e)
  <1>0. v \in Seq(Line)
    BY DEF Line
  <1>1. CASE ~(\E k \in 1 .. Len(v) : v[k].id = e.id)
    <2>1. Supersede(v, e) = Append(v, e)
      BY <1>1, SupersedeIs
    <2>2. e \in Line
      BY DEF Line
    <2>3. a \o Append(v, e) = Append(a \o v, e) /\ a \o v \in Seq(Line)
      BY <1>0, <2>2
    <2> QED
      BY <2>1, <2>3, FoldAppends
  <1>2. CASE \E k \in 1 .. Len(v) : v[k].id = e.id
    <2>1. PICK k \in 1 .. Len(v) : v[k].id = e.id
      BY <1>2
    <2> DEFINE w == Supersede(v, e)
               s == a \o v
               u == a \o w
               j == Len(a) + k
    <2>2. /\ w \in Seq(Event) /\ Len(w) = Len(v)
          /\ \A i \in 1 .. Len(v) : w[i] = IF v[i].id = e.id THEN e ELSE v[i]
      BY <1>2, SupersedeIs
    <2> HIDE DEF w
    <2>3. w \in Seq(Line)
      BY <2>2 DEF Line
    <2>4. w[k] = e /\ \A i \in 1 .. Len(v) : i # k => w[i] = v[i] /\ v[i].id # e.id
      BY <2>1, <2>2
    <2>5. /\ s \in Seq(Line) /\ u \in Seq(Line) /\ Len(u) = Len(s)
          /\ Len(a) \in Nat /\ Len(v) \in Nat /\ Len(s) = Len(a) + Len(v)
          /\ \A i \in 1 .. Len(a) : s[i] = a[i] /\ u[i] = a[i]
          /\ \A i \in 1 .. Len(v) : s[Len(a) + i] = v[i] /\ u[Len(a) + i] = w[i]
      <3>1. /\ s \in Seq(Line) /\ Len(s) = Len(a) + Len(v)
            /\ Len(a) \in Nat /\ Len(v) \in Nat
            /\ \A i \in 1 .. Len(a) : s[i] = a[i]
            /\ \A i \in 1 .. Len(v) : s[Len(a) + i] = v[i]
        BY <1>0, BehindIs
      <3>2. /\ u \in Seq(Line) /\ Len(u) = Len(a) + Len(w)
            /\ \A i \in 1 .. Len(a) : u[i] = a[i]
            /\ \A i \in 1 .. Len(w) : u[Len(a) + i] = w[i]
        BY <2>3, BehindIs
      <3> HIDE DEF s, u
      <3> QED
        BY <2>2, <3>1, <3>2
    <2>6. /\ j \in 1 .. Len(s) /\ s[j] = v[k] /\ u[j] = e
      BY <2>4, <2>5
    <2>7. \A i \in 1 .. Len(s) :
            i \in 1 .. Len(a) \/ \E n \in 1 .. Len(v) : i = Len(a) + n
      <3>1. ASSUME NEW i \in 1 .. Len(s), ~(i \in 1 .. Len(a))
            PROVE  i - Len(a) \in 1 .. Len(v) /\ i = Len(a) + (i - Len(a))
        BY <2>5, <3>1
      <3> QED
        BY <3>1
    <2>8. ASSUME NEW i \in 1 .. Len(s), i # j
          PROVE  u[i] = s[i] /\ (s[i].id = e.id => i < j)
      <3>1. CASE i \in 1 .. Len(a)
        BY <2>5, <3>1
      <3>2. CASE \E n \in 1 .. Len(v) : i = Len(a) + n
        <4>1. PICK n \in 1 .. Len(v) : i = Len(a) + n
          BY <3>2
        <4>2. n # k
          BY <2>8, <4>1
        <4> QED
          BY <2>4, <2>5, <4>1, <4>2
      <3> QED
        BY <2>7, <3>1, <3>2
    <2>9. j \in Lasts(s)
      <3>1. IsEvent(s[j])
        BY <2>6, LineIs
      <3>2. \A i \in Places(s, s[j].id) : i \in 1 .. Len(s) /\ s[i].id = e.id
        BY <2>1, <2>6 DEF Places
      <3>3. ASSUME NEW i \in Places(s, s[j].id) PROVE i <= j
        <4>1. i \in Nat /\ j \in Nat
          BY <2>5, <2>6, <3>2
        <4>2. i = j \/ i < j
          BY <2>8, <3>2
        <4> QED
          BY <4>1, <4>2
      <3> QED
        BY <2>6, <3>1, <3>3 DEF Lasts
    <2>a. s[j].id = e.id
      BY <2>1, <2>6
    <2>b. \A i \in 1 .. Len(s) : i # j => u[i] = s[i]
      BY <2>8
    <2> HIDE DEF s, u, j
    <2>10. Fold(u) = Supersede(Fold(s), e)
      BY <2>5, <2>6, <2>9, <2>a, <2>b, FoldReplaces
    <2> QED
      BY <2>10 DEF u, s, w
  <1> QED
    BY <1>1, <1>2

(* The first n of a sequence, and of one behind another.                   *)
LEMMA OneMore ==
  ASSUME NEW s \in Seq(Line), NEW u \in Seq(Line), NEW n \in Nat, n < Len(u)
  PROVE  /\ SubSeq(u, 1, n) \in Seq(Line)
         /\ s \o SubSeq(u, 1, n) \in Seq(Line)
         /\ u[n + 1] \in Line
         /\ SubSeq(u, 1, n + 1) = Append(SubSeq(u, 1, n), u[n + 1])
         /\ s \o SubSeq(u, 1, n + 1) = Append(s \o SubSeq(u, 1, n), u[n + 1])
  <1> DEFINE p == SubSeq(u, 1, n)
             q == SubSeq(u, 1, n + 1)
  <1>1. /\ p \in Seq(Line) /\ Len(p) = n /\ \A i \in 1 .. n : p[i] = u[i]
        /\ q \in Seq(Line) /\ Len(q) = n + 1 /\ \A i \in 1 .. n + 1 : q[i] = u[i]
        /\ u[n + 1] \in Line
    OBVIOUS
  <1> HIDE DEF p, q
  <1>2. q = Append(p, u[n + 1])
    BY <1>1
  <1>3. s \o q = Append(s \o p, u[n + 1]) /\ s \o p \in Seq(Line)
    BY <1>1, <1>2
  <1> QED
    BY <1>1, <1>2, <1>3 DEF p, q

(* What folds alike folds alike with more behind it.                        *)
LEMMA FoldMore ==
  ASSUME NEW s \in Seq(Line), NEW t \in Seq(Line), NEW u \in Seq(Line),
         Fold(s) = Fold(t)
  PROVE  Fold(s \o u) = Fold(t \o u)
  <1> DEFINE N == Len(u)
             p(n) == SubSeq(u, 1, n)
             Q == {n \in Nat : n <= N => Fold(s \o p(n)) = Fold(t \o p(n))}
  <1>0. N \in Nat
    OBVIOUS
  <1>1. 0 \in Q
    <2>1. p(0) = <<>> /\ s \o <<>> = s /\ t \o <<>> = t
      OBVIOUS
    <2> QED
      BY <2>1
  <1>2. ASSUME NEW n \in Nat, n < N, n \in Q PROVE n + 1 \in Q
    <2>1. Fold(s \o p(n)) = Fold(t \o p(n))
      BY <1>0, <1>2
    <2>2. /\ s \o p(n) \in Seq(Line) /\ t \o p(n) \in Seq(Line) /\ u[n + 1] \in Line
          /\ s \o p(n + 1) = Append(s \o p(n), u[n + 1])
          /\ t \o p(n + 1) = Append(t \o p(n), u[n + 1])
      BY <1>2, OneMore
    <2> HIDE DEF p
    <2>3. CASE u[n + 1] \in Event
      <3>1. /\ Fold(s \o p(n + 1)) = Supersede(Fold(s \o p(n)), u[n + 1])
            /\ Fold(t \o p(n + 1)) = Supersede(Fold(t \o p(n)), u[n + 1])
        BY <2>2, <2>3, FoldAppends
      <3> QED
        BY <2>1, <3>1
    <2>4. CASE u[n + 1] \notin Event
      <3>1. ~IsEvent(u[n + 1])
        BY <2>2, <2>4, LineIs
      <3>2. /\ Fold(s \o p(n + 1)) = Fold(s \o p(n))
            /\ Fold(t \o p(n + 1)) = Fold(t \o p(n))
        BY <2>2, <3>1, FoldSkips
      <3> QED
        BY <2>1, <3>2
    <2> QED
      BY <2>3, <2>4
  <1>3. \A n \in 0 .. N : n \in Q
    <2> HIDE DEF Q, N
    <2> QED
      BY <1>0, <1>1, <1>2, UpTo
  <1>4. N \in Q /\ p(N) = u
    BY <1>0, <1>3
  <1> HIDE DEF p
  <1> QED
    BY <1>0, <1>4

(* Folding what was folded before, behind what came before it.             *)
LEMMA FoldOver ==
  ASSUME NEW a \in Seq(Line), NEW b \in Seq(Line)
  PROVE  Fold(a \o Fold(b)) = Fold(a \o b)
  <1> DEFINE N == Len(b)
             p(n) == SubSeq(b, 1, n)
             Q == {n \in Nat : n <= N => Fold(a \o Fold(p(n))) = Fold(a \o p(n))}
  <1>0. N \in Nat
    OBVIOUS
  <1>1. 0 \in Q
    <2>1. p(0) = <<>>
      OBVIOUS
    <2> HIDE DEF p
    <2> QED
      BY <2>1, FoldNothing
  <1>2. ASSUME NEW n \in Nat, n < N, n \in Q PROVE n + 1 \in Q
    <2>1. Fold(a \o Fold(p(n))) = Fold(a \o p(n))
      BY <1>0, <1>2
    <2>2. /\ p(n) \in Seq(Line) /\ a \o p(n) \in Seq(Line) /\ b[n + 1] \in Line
          /\ p(n + 1) = Append(p(n), b[n + 1])
          /\ a \o p(n + 1) = Append(a \o p(n), b[n + 1])
      BY <1>2, OneMore
    <2> HIDE DEF p
    <2>3. CASE b[n + 1] \in Event
      <3>1. /\ Fold(p(n + 1)) = Supersede(Fold(p(n)), b[n + 1])
            /\ Fold(a \o p(n + 1)) = Supersede(Fold(a \o p(n)), b[n + 1])
        BY <2>2, <2>3, FoldAppends
      <3>2. /\ Fold(p(n)) \in Seq(Event)
            /\ \A k, l \in 1 .. Len(Fold(p(n))) :
                 Fold(p(n))[k].id = Fold(p(n))[l].id => k = l
        BY <2>2, FoldIs, FoldIds
      <3>3. Fold(a \o Supersede(Fold(p(n)), b[n + 1]))
              = Supersede(Fold(a \o Fold(p(n))), b[n + 1])
        BY <2>3, <3>2, FoldBehind
      <3> QED
        BY <2>1, <3>1, <3>3
    <2>4. CASE b[n + 1] \notin Event
      <3>1. ~IsEvent(b[n + 1])
        BY <2>2, <2>4, LineIs
      <3>2. /\ Fold(p(n + 1)) = Fold(p(n))
            /\ Fold(a \o p(n + 1)) = Fold(a \o p(n))
        BY <2>2, <3>1, FoldSkips
      <3> QED
        BY <2>1, <3>2
    <2> QED
      BY <2>3, <2>4
  <1>3. \A n \in 0 .. N : n \in Q
    <2> HIDE DEF Q, N
    <2> QED
      BY <1>0, <1>1, <1>2, UpTo
  <1>4. N \in Q /\ p(N) = b
    BY <1>0, <1>3
  <1> HIDE DEF p
  <1> QED
    BY <1>0, <1>4

(* A fold is its own fold.                                                  *)
LEMMA FoldTwice ==
  ASSUME NEW b \in Seq(Line)
  PROVE  Fold(Fold(b)) = Fold(b)
  <1>1. Fold(<<>> \o Fold(b)) = Fold(<<>> \o b)
    <2>1. <<>> \in Seq(Line)
      OBVIOUS
    <2> QED
      BY <2>1, FoldOver
  <1>2. Fold(b) \in Seq(Event)
    BY FoldIs
  <1>3. <<>> \o Fold(b) = Fold(b) /\ <<>> \o b = b
    BY <1>2
  <1> QED
    BY <1>1, <1>3
-----------------------------------------------------------------------------
(* The fold keeps the order of the first places.                            *)
LEMMA FoldOrder ==
  ASSUME NEW s \in Seq(Line), NEW i \in 1 .. Len(Fold(s)), NEW j \in 1 .. Len(Fold(s))
  PROVE  i < j <=> Nth(Firsts(s), i) < Nth(Firsts(s), j)
  <1> DEFINE F == Firsts(s)
  <1>1. /\ F \subseteq Nat /\ IsFiniteSet(F) /\ Cardinality(F) \in Nat
        /\ Len(Fold(s)) = Cardinality(F)
        /\ Nth(F, i) \in F /\ Nth(F, j) \in F
    BY FirstsIs, FoldIs
  <1> HIDE DEF F
  <1>2. i < j => Nth(F, i) < Nth(F, j)
    BY <1>1, NthOrder
  <1>3. j < i => Nth(F, j) < Nth(F, i)
    BY <1>1, NthOrder
  <1>4. i \in Nat /\ j \in Nat /\ Nth(F, i) \in Nat /\ Nth(F, j) \in Nat
    <2>1. i \in Nat /\ j \in Nat
      OBVIOUS
    <2>2. Nth(F, i) \in Nat /\ Nth(F, j) \in Nat
      BY <1>1
    <2> QED
      BY <2>1, <2>2
  <1>5. ~(i < j) => i = j \/ j < i
    BY <1>4
  <1>6. ~(Nth(F, i) < Nth(F, i))
    BY <1>4
  <1>7. Nth(F, j) < Nth(F, i) => ~(Nth(F, i) < Nth(F, j))
    BY <1>4
  <1> QED
    BY <1>2, <1>3, <1>5, <1>6, <1>7 DEF F

(* An id has one first place and one last.                                  *)
LEMMA PlacesMeet ==
  ASSUME NEW s \in Seq(Line)
  PROVE  /\ \A i, j \in Firsts(s) : s[i].id = s[j].id => i = j
         /\ \A i, j \in Lasts(s) : s[i].id = s[j].id => i = j
  <1>1. \A i \in DOMAIN s : i \in Nat
    OBVIOUS
  <1>2. ASSUME NEW i \in Firsts(s), NEW j \in Firsts(s), s[i].id = s[j].id PROVE i = j
    <2>1. i \in Places(s, s[j].id) /\ j \in Places(s, s[i].id)
      BY <1>2 DEF Firsts, Places
    <2>2. i <= j /\ j <= i /\ i \in Nat /\ j \in Nat
      BY <1>1, <1>2, <2>1 DEF Firsts
    <2> QED
      BY <2>2
  <1>3. ASSUME NEW i \in Lasts(s), NEW j \in Lasts(s), s[i].id = s[j].id PROVE i = j
    <2>1. i \in Places(s, s[j].id) /\ j \in Places(s, s[i].id)
      BY <1>3 DEF Lasts, Places
    <2>2. i <= j /\ j <= i /\ i \in Nat /\ j \in Nat
      BY <1>1, <1>3, <2>1 DEF Lasts
    <2> QED
      BY <2>2
  <1> QED
    BY <1>2, <1>3

(* t is s with e in one place more, g telling where each of s is in it.    *)
Inserted(s, t, e, p, g) ==
  /\ p \in DOMAIN t /\ t[p] = e
  /\ \A i \in DOMAIN s : g[i] \in DOMAIN t /\ g[i] \in Nat /\ t[g[i]] = s[i]
  /\ \A i, j \in DOMAIN s : i <= j <=> g[i] <= g[j]
  /\ \A x \in DOMAIN t : x = p \/ \E i \in DOMAIN s : x = g[i]

(* What is first and last of the other ids is so without it.               *)
LEMMA ApartPlaces ==
  ASSUME NEW s \in Seq(Line), NEW t \in Seq(Line), NEW e \in Event, NEW p, NEW g,
         Inserted(s, t, e, p, g)
  PROVE  /\ \A i \in Lasts(s) : s[i].id # e.id => g[i] \in Lasts(t)
         /\ \A i \in Firsts(s) : s[i].id # e.id => g[i] \in Firsts(t)
  <1>1. ASSUME NEW id, id # e.id, NEW x \in Places(t, id)
        PROVE  \E i \in Places(s, id) : x = g[i]
    <2>1. x \in DOMAIN t /\ IsEvent(t[x]) /\ t[x].id = id
      BY DEF Places
    <2>2. x # p
      BY <1>1, <2>1 DEF Inserted
    <2>3. PICK i \in DOMAIN s : x = g[i]
      BY <2>1, <2>2 DEF Inserted
    <2>4. t[x] = s[i]
      BY <2>3 DEF Inserted
    <2> QED
      BY <2>1, <2>3, <2>4 DEF Places
  <1>2. ASSUME NEW i \in Lasts(s), s[i].id # e.id PROVE g[i] \in Lasts(t)
    <2>1. i \in DOMAIN s /\ IsEvent(s[i]) /\ \A j \in Places(s, s[i].id) : j <= i
      BY DEF Lasts
    <2>2. g[i] \in DOMAIN t /\ t[g[i]] = s[i]
      BY <2>1 DEF Inserted
    <2>3. ASSUME NEW x \in Places(t, s[i].id) PROVE x <= g[i]
      <3>1. PICK j \in Places(s, s[i].id) : x = g[j]
        BY <1>1, <1>2
      <3>2. j \in DOMAIN s /\ j <= i
        BY <2>1 DEF Places
      <3> QED
        BY <2>1, <3>1, <3>2 DEF Inserted
    <2> QED
      BY <2>1, <2>2, <2>3 DEF Lasts
  <1>3. ASSUME NEW i \in Firsts(s), s[i].id # e.id PROVE g[i] \in Firsts(t)
    <2>1. i \in DOMAIN s /\ IsEvent(s[i]) /\ \A j \in Places(s, s[i].id) : i <= j
      BY DEF Firsts
    <2>2. g[i] \in DOMAIN t /\ t[g[i]] = s[i]
      BY <2>1 DEF Inserted
    <2>3. ASSUME NEW x \in Places(t, s[i].id) PROVE g[i] <= x
      <3>1. PICK j \in Places(s, s[i].id) : x = g[j]
        BY <1>1, <1>3
      <3>2. j \in DOMAIN s /\ i <= j
        BY <2>1 DEF Places
      <3> QED
        BY <2>1, <3>1, <3>2 DEF Inserted
    <2> QED
      BY <2>1, <2>2, <2>3 DEF Firsts
  <1> QED
    BY <1>2, <1>3

(* An event left out changes the fold of no other id.                       *)
LEMMA FoldApart ==
  ASSUME NEW s \in Seq(Line), NEW t \in Seq(Line), NEW e \in Event, NEW p, NEW g,
         Inserted(s, t, e, p, g)
  PROVE  SameBut({e.id}, Fold(s), Fold(t))
  <1> DEFINE V == Fold(s)
             W == Fold(t)
  <1>1. /\ V \in Seq(Event) /\ W \in Seq(Event)
        /\ DOMAIN V = 1 .. Len(V) /\ DOMAIN W = 1 .. Len(W)
    BY FoldIs
  <1>2. ASSUME NEW k \in 1 .. Len(V), NEW l \in 1 .. Len(W), V[k].id # e.id,
               V[k].id = W[l].id
        PROVE  V[k] = W[l]
    <2>1. PICK i \in Lasts(s) : i \in Places(s, V[k].id) /\ V[k] = s[i]
      BY FoldIs
    <2>2. PICK o \in Lasts(t) : o \in Places(t, W[l].id) /\ W[l] = t[o]
      BY FoldIs
    <2>3. i \in DOMAIN s /\ s[i].id = V[k].id
      BY <2>1 DEF Places
    <2>0. g[i] \in Lasts(t)
      BY <1>2, <2>3, ApartPlaces
    <2>4. g[i] \in Lasts(t) /\ t[g[i]] = s[i]
      BY <2>0, <2>3 DEF Inserted
    <2>5. t[o].id = t[g[i]].id
      BY <1>2, <2>2, <2>3, <2>4 DEF Places
    <2>6. o = g[i]
      BY <2>4, <2>5, PlacesMeet
    <2> QED
      BY <2>1, <2>2, <2>4, <2>6
  <1>3. ASSUME NEW k \in 1 .. Len(V), V[k].id # e.id
        PROVE  \E l \in 1 .. Len(W) : W[l].id = V[k].id
    <2>1. PICK i \in Lasts(s) : i \in Places(s, V[k].id) /\ V[k] = s[i]
      BY FoldIs
    <2>2. i \in DOMAIN s /\ IsEvent(s[i])
      BY <2>1 DEF Places
    <2>3. g[i] \in 1 .. Len(t) /\ t[g[i]] = V[k] /\ IsEvent(t[g[i]])
      BY <2>1, <2>2 DEF Inserted
    <2> QED
      BY <2>3, FoldIds
  <1>4. ASSUME NEW l \in 1 .. Len(W), W[l].id # e.id
        PROVE  \E k \in 1 .. Len(V) : V[k].id = W[l].id
    <2>1. PICK o \in Lasts(t) : o \in Places(t, W[l].id) /\ W[l] = t[o]
      BY FoldIs
    <2>2. o \in DOMAIN t /\ IsEvent(t[o]) /\ o # p
      BY <1>4, <2>1 DEF Places, Inserted
    <2>3. PICK i \in DOMAIN s : o = g[i]
      BY <2>2 DEF Inserted
    <2>4. i \in 1 .. Len(s) /\ s[i] = W[l] /\ IsEvent(s[i])
      BY <2>1, <2>2, <2>3 DEF Inserted
    <2> QED
      BY <2>4, FoldIds
  <1>5. ASSUME NEW i \in 1 .. Len(V), NEW j \in 1 .. Len(V),
               NEW k \in 1 .. Len(W), NEW l \in 1 .. Len(W),
               V[i] = W[k], V[j] = W[l], V[i].id # e.id, V[j].id # e.id
        PROVE  i < j <=> k < l
    <2> DEFINE a == Nth(Firsts(s), i)
               b == Nth(Firsts(s), j)
               c == Nth(Firsts(t), k)
               d == Nth(Firsts(t), l)
    <2>1. /\ a \in Firsts(s) /\ V[i].id = s[a].id /\ b \in Firsts(s) /\ V[j].id = s[b].id
          /\ c \in Firsts(t) /\ W[k].id = t[c].id /\ d \in Firsts(t) /\ W[l].id = t[d].id
      BY FoldIs
    <2>2. (i < j <=> a < b) /\ (k < l <=> c < d)
      BY FoldOrder
    <2> HIDE DEF a, b, c, d, V, W
    <2>3. a \in DOMAIN s /\ b \in DOMAIN s
      BY <2>1 DEF Firsts
    <2>0. g[a] \in Firsts(t) /\ g[b] \in Firsts(t)
      BY <1>5, <2>1, ApartPlaces
    <2>4. /\ g[a] \in Firsts(t) /\ t[g[a]] = s[a] /\ g[b] \in Firsts(t) /\ t[g[b]] = s[b]
      BY <2>0, <2>3 DEF Inserted
    <2>5. c = g[a] /\ d = g[b]
      BY <1>5, <2>1, <2>4, PlacesMeet
    <2>6. (b <= a <=> d <= c) /\ g[a] \in Nat /\ g[b] \in Nat /\ a \in Nat /\ b \in Nat
      BY <2>3, <2>5 DEF Inserted
    <2> QED
      BY <2>2, <2>5, <2>6
  <1> HIDE DEF V, W
  <1>6. SameBut({e.id}, V, W)
    <2>1. ASSUME NEW k \in DOMAIN V, V[k].id \notin {e.id}
          PROVE  \E l \in DOMAIN W : W[l] = V[k]
      BY <1>1, <1>2, <1>3, <2>1
    <2>2. ASSUME NEW l \in DOMAIN W, W[l].id \notin {e.id}
          PROVE  \E k \in DOMAIN V : V[k] = W[l]
      <3>1. PICK k \in 1 .. Len(V) : V[k].id = W[l].id
        BY <1>1, <1>4, <2>2
      <3>2. V[k] = W[l]
        BY <1>1, <1>2, <2>2, <3>1
      <3> QED
        BY <1>1, <3>2
    <2> QED
      BY <1>1, <1>5, <2>1, <2>2 DEF SameBut
  <1> QED
    BY <1>6 DEF V, W

(* The same, of an event between two sequences.                            *)
LEMMA FoldWithout ==
  ASSUME NEW v \in Seq(Event), NEW e \in Event, NEW q \in Seq(Event)
  PROVE  SameBut({e.id}, Fold(v \o q), Fold(v \o (<<e>> \o q)))
  <1> DEFINE s == v \o q
             t == v \o (<<e>> \o q)
             p == Len(v) + 1
             g == [i \in 1 .. Len(s) |-> IF i <= Len(v) THEN i ELSE i + 1]
  <1>1. /\ s \in Seq(Event) /\ t \in Seq(Event) /\ Len(v) \in Nat /\ Len(q) \in Nat
        /\ Len(s) = Len(v) + Len(q) /\ Len(t) = Len(s) + 1
        /\ \A i \in 1 .. Len(s) : s[i] = IF i <= Len(v) THEN v[i] ELSE q[i - Len(v)]
    OBVIOUS
  <1>2. \A i \in 1 .. Len(t) : t[i] = IF i <= Len(v) THEN v[i]
                                      ELSE (<<e>> \o q)[i - Len(v)]
    OBVIOUS
  <1>3. \A i \in 1 .. (Len(q) + 1) : (<<e>> \o q)[i] = IF i = 1 THEN e ELSE q[i - 1]
    OBVIOUS
  <1>4. DOMAIN s = 1 .. Len(s) /\ DOMAIN t = 1 .. Len(t) /\ Len(s) \in Nat
    BY <1>1
  <1>5. \A i \in 1 .. Len(s) : g[i] = IF i <= Len(v) THEN i ELSE i + 1
    OBVIOUS
  <1> HIDE DEF s, t, g
  <1>6. p \in DOMAIN t /\ t[p] = e
    <2>1. p \in 1 .. Len(t) /\ ~(p <= Len(v)) /\ p - Len(v) = 1
          /\ 1 \in 1 .. (Len(q) + 1)
      BY <1>1
    <2>2. t[p] = (<<e>> \o q)[1]
      BY <1>2, <2>1
    <2> QED
      BY <1>3, <1>4, <2>1, <2>2
  <1>7. ASSUME NEW i \in 1 .. Len(s) PROVE g[i] \in 1 .. Len(t) /\ t[g[i]] = s[i]
    <2>1. CASE i <= Len(v)
      <3>1. i \in 1 .. Len(t) /\ g[i] = i
        BY <1>1, <1>5, <2>1
      <3> QED
        BY <1>1, <1>2, <2>1, <3>1
    <2>2. CASE ~(i <= Len(v))
      <3>1. /\ g[i] = i + 1 /\ i + 1 \in 1 .. Len(t) /\ ~(i + 1 <= Len(v))
            /\ (i + 1) - Len(v) \in 1 .. (Len(q) + 1) /\ (i + 1) - Len(v) # 1
            /\ ((i + 1) - Len(v)) - 1 = i - Len(v)
        BY <1>1, <1>5, <2>2
      <3>2. t[i + 1] = (<<e>> \o q)[(i + 1) - Len(v)]
        BY <1>2, <3>1
      <3>3. t[i + 1] = q[i - Len(v)]
        BY <1>3, <3>1, <3>2
      <3> QED
        BY <1>1, <2>2, <3>1, <3>3
    <2> QED
      BY <2>1, <2>2
  <1>8. ASSUME NEW i \in 1 .. Len(s), NEW j \in 1 .. Len(s)
        PROVE  i <= j <=> g[i] <= g[j]
    BY <1>1, <1>5
  <1>9. ASSUME NEW x \in 1 .. Len(t) PROVE x = p \/ \E i \in 1 .. Len(s) : x = g[i]
    <2>1. CASE x <= Len(v)
      <3>1. x \in 1 .. Len(s)
        BY <1>1, <2>1
      <3> QED
        BY <1>5, <2>1, <3>1
    <2>2. CASE ~(x <= Len(v)) /\ x # p
      <3>1. x - 1 \in 1 .. Len(s) /\ ~(x - 1 <= Len(v)) /\ x = (x - 1) + 1
        BY <1>1, <2>2
      <3> QED
        BY <1>5, <3>1
    <2> QED
      BY <2>1, <2>2
  <1>10. Inserted(s, t, e, p, g)
    <2>1. \A i \in 1 .. Len(s) : g[i] \in Nat
      BY <1>4, <1>7
    <2> HIDE DEF p
    <2> QED
      BY <1>4, <1>6, <1>7, <1>8, <1>9, <2>1 DEF Inserted
  <1>11. s \in Seq(Line) /\ t \in Seq(Line)
    BY <1>1 DEF Line
  <1>12. SameBut({e.id}, Fold(s), Fold(t))
    BY <1>10, <1>11, FoldApart
  <1> QED
    BY <1>12 DEF s, t
-----------------------------------------------------------------------------
(* Each id once.                                                            *)
Distinct(v) == \A i, j \in DOMAIN v : v[i].id = v[j].id => i = j

LEMMA FoldDistinct == ASSUME NEW s \in Seq(Line) PROVE Distinct(Fold(s))
  <1>1. Fold(s) \in Seq(Event)
    BY FoldIs
  <1>2. DOMAIN Fold(s) = 1 .. Len(Fold(s))
    BY <1>1
  <1> QED
    BY <1>2, FoldIds DEF Distinct

LEMMA SameSelf ==
  ASSUME NEW S, NEW v, Distinct(v)
  PROVE  SameBut(S, v, v)
  BY DEF SameBut, Distinct

LEMMA SameMore ==
  ASSUME NEW S, NEW T, S \subseteq T, NEW v, NEW w, SameBut(S, v, w)
  PROVE  SameBut(T, v, w)
  BY DEF SameBut

LEMMA SameThrough ==
  ASSUME NEW S, NEW u, NEW v, NEW w, SameBut(S, u, v), SameBut(S, v, w)
  PROVE  SameBut(S, u, w)
  <1>1. ASSUME NEW k \in DOMAIN u, u[k].id \notin S PROVE \E l \in DOMAIN w : w[l] = u[k]
    <2>1. PICK l \in DOMAIN v : v[l] = u[k]
      BY <1>1 DEF SameBut
    <2> QED
      BY <1>1, <2>1 DEF SameBut
  <1>2. ASSUME NEW l \in DOMAIN w, w[l].id \notin S PROVE \E k \in DOMAIN u : u[k] = w[l]
    <2>1. PICK k \in DOMAIN v : v[k] = w[l]
      BY <1>2 DEF SameBut
    <2> QED
      BY <1>2, <2>1 DEF SameBut
  <1>3. ASSUME NEW i \in DOMAIN u, NEW j \in DOMAIN u, NEW k \in DOMAIN w, NEW l \in DOMAIN w,
               u[i] = w[k], u[j] = w[l], u[i].id \notin S, u[j].id \notin S
        PROVE  i < j <=> k < l
    <2>1. PICK x \in DOMAIN v : v[x] = u[i]
      BY <1>3 DEF SameBut
    <2>2. PICK y \in DOMAIN v : v[y] = u[j]
      BY <1>3 DEF SameBut
    <2>3. i < j <=> x < y
      BY <1>3, <2>1, <2>2 DEF SameBut
    <2>4. x < y <=> k < l
      <3>1. v[x] = w[k] /\ v[y] = w[l] /\ v[x].id \notin S /\ v[y].id \notin S
        BY <1>3, <2>1, <2>2
      <3> QED
        BY <1>3, <2>1, <2>2, <3>1 DEF SameBut
    <2> QED
      BY <2>3, <2>4
  <1> QED
    BY <1>1, <1>2, <1>3 DEF SameBut

(* What an event more leaves of each place.                                 *)
LEMMA SupersededAt ==
  ASSUME NEW v \in Seq(Event), NEW e \in Event
  PROVE  LET x == Supersede(v, e)
         IN  /\ \A k \in DOMAIN v : /\ k \in DOMAIN x /\ x[k].id = v[k].id
                                    /\ x[k] = IF v[k].id = e.id THEN e ELSE v[k]
             /\ \A k \in DOMAIN x : k \notin DOMAIN v =>
                  /\ x[k] = e /\ \A j \in DOMAIN v : v[j].id # e.id /\ j < k /\ ~(k < j)
                  /\ \A l \in DOMAIN x : l \notin DOMAIN v => ~(k < l)
             /\ \E k \in DOMAIN x : x[k] = e
  <1> DEFINE x == Supersede(v, e)
  <1>0. Len(v) \in Nat /\ DOMAIN v = 1 .. Len(v) /\ x \in Seq(Event) /\ DOMAIN x = 1 .. Len(x)
    BY SupersedeIs
  <1>1. CASE \E k \in 1 .. Len(v) : v[k].id = e.id
    <2>1. /\ Len(x) = Len(v)
          /\ \A k \in 1 .. Len(v) : x[k] = IF v[k].id = e.id THEN e ELSE v[k]
      BY <1>1, SupersedeIs
    <2> HIDE DEF x
    <2>2. \A k \in DOMAIN x : k \in DOMAIN v
      BY <1>0, <2>1
    <2> QED
      BY <1>0, <1>1, <2>1, <2>2 DEF x
  <1>2. CASE ~(\E k \in 1 .. Len(v) : v[k].id = e.id)
    <2>1. x = Append(v, e)
      BY <1>2, SupersedeIs
    <2> HIDE DEF x
    <2>2. /\ Len(x) = Len(v) + 1 /\ x[Len(v) + 1] = e
          /\ \A k \in 1 .. Len(v) : x[k] = v[k]
      BY <2>1
    <2>3. \A k \in DOMAIN x : k \notin DOMAIN v => k = Len(v) + 1
      BY <1>0, <2>2
    <2>4. \A j \in DOMAIN v : j < Len(v) + 1 /\ ~(Len(v) + 1 < j) /\ j \in DOMAIN x
      BY <1>0, <2>2
    <2>5. Len(v) + 1 \in DOMAIN x /\ ~(Len(v) + 1 < Len(v) + 1)
      BY <1>0, <2>2
    <2> QED
      BY <1>0, <1>2, <2>2, <2>3, <2>4, <2>5 DEF x
  <1> QED
    BY <1>1, <1>2

(* One event more on both sides.                                            *)
LEMMA SameSuperseded ==
  ASSUME NEW S, NEW v \in Seq(Event), NEW w \in Seq(Event), NEW e \in Event,
         Distinct(v), Distinct(w), SameBut(S, v, w)
  PROVE  SameBut(S, Supersede(v, e), Supersede(w, e))
  <1> DEFINE x == Supersede(v, e)
             y == Supersede(w, e)
  <1>1. /\ \A k \in DOMAIN v : /\ k \in DOMAIN x /\ x[k].id = v[k].id
                               /\ x[k] = IF v[k].id = e.id THEN e ELSE v[k]
        /\ \A k \in DOMAIN x : k \notin DOMAIN v =>
             /\ x[k] = e /\ \A j \in DOMAIN v : v[j].id # e.id /\ j < k /\ ~(k < j)
             /\ \A l \in DOMAIN x : l \notin DOMAIN v => ~(k < l)
        /\ \E k \in DOMAIN x : x[k] = e
    BY SupersededAt
  <1>2. /\ \A k \in DOMAIN w : /\ k \in DOMAIN y /\ y[k].id = w[k].id
                               /\ y[k] = IF w[k].id = e.id THEN e ELSE w[k]
        /\ \A k \in DOMAIN y : k \notin DOMAIN w =>
             /\ y[k] = e /\ \A j \in DOMAIN w : w[j].id # e.id /\ j < k /\ ~(k < j)
             /\ \A l \in DOMAIN y : l \notin DOMAIN w => ~(k < l)
        /\ \E k \in DOMAIN y : y[k] = e
    BY SupersededAt
  <1> HIDE DEF x, y
  <1>3. ASSUME NEW i \in DOMAIN v, NEW k \in DOMAIN w, v[i].id = w[k].id, v[i].id \notin S
        PROVE  v[i] = w[k]
    <2>1. PICK l \in DOMAIN w : w[l] = v[i]
      BY <1>3 DEF SameBut
    <2> QED
      BY <1>3, <2>1 DEF Distinct
  <1>4. ASSUME NEW k \in DOMAIN x, x[k].id \notin S PROVE \E l \in DOMAIN y : y[l] = x[k]
    <2>1. CASE x[k] = e
      BY <1>2, <2>1
    <2>2. CASE x[k] # e
      <3>1. k \in DOMAIN v /\ v[k].id # e.id /\ x[k] = v[k]
        BY <1>1, <2>2
      <3>2. PICK l \in DOMAIN w : w[l] = v[k]
        BY <1>4, <3>1 DEF SameBut
      <3> QED
        BY <1>2, <3>1, <3>2
    <2> QED
      BY <2>1, <2>2
  <1>5. ASSUME NEW l \in DOMAIN y, y[l].id \notin S PROVE \E k \in DOMAIN x : x[k] = y[l]
    <2>1. CASE y[l] = e
      BY <1>1, <2>1
    <2>2. CASE y[l] # e
      <3>1. l \in DOMAIN w /\ w[l].id # e.id /\ y[l] = w[l]
        BY <1>2, <2>2
      <3>2. PICK k \in DOMAIN v : v[k] = w[l]
        BY <1>5, <3>1 DEF SameBut
      <3> QED
        BY <1>1, <3>1, <3>2
    <2> QED
      BY <2>1, <2>2
  <1>6. ASSUME NEW i \in DOMAIN x, NEW k \in DOMAIN y, x[i] = y[k], x[i].id \notin S
        PROVE  i \in DOMAIN v <=> k \in DOMAIN w
    <2>1. ASSUME i \in DOMAIN v, k \notin DOMAIN w PROVE FALSE
      <3>1. y[k] = e /\ \A j \in DOMAIN w : w[j].id # e.id
        BY <1>2, <2>1
      <3>2. v[i].id = e.id /\ v[i].id \notin S
        BY <1>1, <1>6, <2>1, <3>1
      <3>3. PICK l \in DOMAIN w : w[l] = v[i]
        BY <2>1, <3>2 DEF SameBut
      <3> QED
        BY <3>1, <3>2, <3>3
    <2>2. ASSUME i \notin DOMAIN v, k \in DOMAIN w PROVE FALSE
      <3>1. x[i] = e /\ \A j \in DOMAIN v : v[j].id # e.id
        BY <1>1, <2>2
      <3>2. w[k].id = e.id /\ w[k].id \notin S
        BY <1>2, <1>6, <2>2, <3>1
      <3>3. PICK l \in DOMAIN v : v[l] = w[k]
        BY <2>2, <3>2 DEF SameBut
      <3> QED
        BY <3>1, <3>2, <3>3
    <2> QED
      BY <2>1, <2>2
  <1>7. ASSUME NEW i \in DOMAIN x, NEW j \in DOMAIN x, NEW k \in DOMAIN y, NEW l \in DOMAIN y,
               x[i] = y[k], x[j] = y[l], x[i].id \notin S, x[j].id \notin S
        PROVE  i < j <=> k < l
    <2>0. (i \in DOMAIN v <=> k \in DOMAIN w) /\ (j \in DOMAIN v <=> l \in DOMAIN w)
      BY <1>6, <1>7
    <2>1. CASE i \in DOMAIN v /\ j \in DOMAIN v
      <3>1. /\ v[i].id = w[k].id /\ v[j].id = w[l].id /\ v[i].id \notin S /\ v[j].id \notin S
        BY <1>1, <1>2, <1>7, <2>0, <2>1
      <3>2. v[i] = w[k] /\ v[j] = w[l]
        BY <1>3, <2>0, <2>1, <3>1
      <3> QED
        BY <2>0, <2>1, <3>1, <3>2 DEF SameBut
    <2>2. CASE i \in DOMAIN v /\ j \notin DOMAIN v
      BY <1>1, <1>2, <2>0, <2>2
    <2>3. CASE i \notin DOMAIN v /\ j \in DOMAIN v
      BY <1>1, <1>2, <2>0, <2>3
    <2>4. CASE i \notin DOMAIN v /\ j \notin DOMAIN v
      BY <1>1, <1>2, <2>0, <2>4
    <2> QED
      BY <2>1, <2>2, <2>3, <2>4
  <1>8. SameBut(S, x, y)
    BY <1>4, <1>5, <1>7 DEF SameBut
  <1> QED
    BY <1>8 DEF x, y
-----------------------------------------------------------------------------
(* A fold in memory is of a file whose last line is ended.                 *)
CacheTrue == cache # Cold => tail = Ended /\ cache = Fold(OnDisk)

(* Where nothing is torn, the file holds what append answered Ok for.      *)
NothingTorn ==
  disk = "whole" => tail = Ended /\ History = Fold(Older \o written)

(* What a client holds is its own fold.                                    *)
ViewsFolded == \A s \in Subscribers : Fold(subs[s].view) = subs[s].view

(* No event of v with the id of e was asked for after e.                   *)
Later(v, e) == \A k \in 1 .. Len(v) : v[k].id = e.id => v[k].n <= e.n

(* What is still to be written, torn or not, is newer than what is held.   *)
Chronology ==
  disk # "cuts" =>
    /\ \A k \in 1 .. Len(History) : History[k].n <= writes
    /\ tail \in Event => tail.n <= writes /\ Later(History, tail)
    /\ \A j \in 1 .. Len(todo) :
         /\ todo[j].n <= writes /\ Later(History, todo[j])
         /\ tail \in Event /\ tail.id = todo[j].id => tail.n <= todo[j].n
    /\ \A i, j \in 1 .. Len(todo) : todo[i].id = todo[j].id => i = j

(* Only settle has anything left to write.                                 *)
Settling == todo # <<>> => phase = "settling"

(* The inductive invariant.                                                *)
LogInv == /\ LogTypeOK
          /\ CacheTrue
          /\ NothingTorn
          /\ ViewsFolded
          /\ FeedIsLoad
          /\ Chronology
          /\ Settling
-----------------------------------------------------------------------------
(* The file, with t behind its lines.                                      *)
LEMMA DiskIs ==
  ASSUME NEW l \in Seq(Event \cup {Junk}), NEW t \in Event \cup {Half, Ended}
  PROVE  /\ Append(l, t) \in Seq(Line) /\ Older \o l \in Seq(Line)
         /\ Older \o Append(l, t) \in Seq(Line)
         /\ Fold(Older \o l) \in Seq(Event)
         /\ Fold(Older \o Append(l, t)) \in Seq(Event)
         /\ t \in {Half, Ended} => Fold(Older \o Append(l, t)) = Fold(Older \o l)
         /\ t \in Event =>
              Fold(Older \o Append(l, t)) = Supersede(Fold(Older \o l), t)
  <1>1. Older \in Seq(Line)
    BY LogAssumption DEF Line
  <1>2. l \in Seq(Line) /\ t \in Line
    BY DEF Line
  <1>3. /\ Append(l, t) \in Seq(Line) /\ Older \o l \in Seq(Line)
        /\ Older \o Append(l, t) = Append(Older \o l, t)
        /\ Older \o Append(l, t) \in Seq(Line)
    BY <1>1, <1>2
  <1>4. CASE t \in Event
    <2>1. t \notin {Half, Ended}
      BY <1>4, LineIs
    <2> QED
      BY <1>3, <1>4, <2>1, FoldAppends, FoldIs
  <1>5. CASE t \in {Half, Ended}
    <2>1. ~IsEvent(t)
      BY <1>5, LineIs
    <2>2. t \notin Event
      BY <2>1, LineIs
    <2> QED
      BY <1>2, <1>3, <1>5, <2>1, <2>2, FoldSkips, FoldIs
  <1> QED
    BY <1>4, <1>5

(* The file as it is.                                                       *)
LEMMA DiskNow ==
  ASSUME LogTypeOK
  PROVE  /\ Segment \in Seq(Line) /\ Older \o lines \in Seq(Line)
         /\ OnDisk \in Seq(Line) /\ OnDisk = Older \o Segment
         /\ History \in Seq(Event) /\ Fold(OnDisk) \in Seq(Event)
         /\ tail \in {Half, Ended} => Fold(OnDisk) = History
         /\ tail \in Event => Fold(OnDisk) = Supersede(History, tail)
         /\ tail \in Event => tail \notin {Half, Ended}
         /\ \A i, j \in 1 .. Len(History) : History[i].id = History[j].id => i = j
         /\ Fold(Fold(OnDisk)) = Fold(OnDisk)
  <1>1. lines \in Seq(Event \cup {Junk}) /\ tail \in Event \cup {Half, Ended}
    BY DEF LogTypeOK
  <1>2. tail \in Event => tail \notin {Half, Ended}
    BY LineIs
  <1>3. /\ Segment \in Seq(Line) /\ Older \o lines \in Seq(Line)
        /\ OnDisk \in Seq(Line) /\ OnDisk = Older \o Segment
        /\ History \in Seq(Event) /\ Fold(OnDisk) \in Seq(Event)
        /\ tail \in {Half, Ended} => Fold(OnDisk) = History
        /\ tail \in Event => Fold(OnDisk) = Supersede(History, tail)
    BY <1>1, DiskIs DEF OnDisk, Segment, History
  <1>4. \A i, j \in 1 .. Len(History) : History[i].id = History[j].id => i = j
    BY <1>3, FoldIds DEF History
  <1>5. Fold(Fold(OnDisk)) = Fold(OnDisk)
    BY <1>3, FoldTwice
  <1> QED
    BY <1>2, <1>3, <1>4, <1>5

(* A load answers the fold of the file, whatever is in memory.             *)
LEMMA AnswerIs ==
  ASSUME LogTypeOK, CacheTrue
  PROVE  /\ Answer = Fold(OnDisk) /\ Answer \in Seq(Event)
         /\ Fold(Answer) = Answer
         /\ tail = Ended => Answer = History
  <1>1. Answer = Fold(OnDisk)
    BY DEF Answer, CacheTrue
  <1> QED
    BY <1>1, DiskNow

(* What stands when the file is the same, and a load leaves its fold.      *)
LEMMA Remembered ==
  ASSUME LogTypeOK, CacheTrue, Remember \/ cache' = Cold \/ cache' = cache,
         UNCHANGED <<lines, tail>>
  PROVE  /\ cache' \in Seq(Event) \cup {Cold} /\ CacheTrue'
         /\ OnDisk' = OnDisk /\ History' = History /\ Answer' = Answer
  <1>1. OnDisk' = OnDisk /\ History' = History
    BY DEF OnDisk, Segment, History
  <1>2. Answer = Fold(OnDisk) /\ Answer \in Seq(Event)
    BY AnswerIs
  <1>3. cache' \in Seq(Event) \cup {Cold}
    BY <1>2 DEF Remember, LogTypeOK
  <1>4. CacheTrue'
    BY <1>1, <1>2 DEF Remember, CacheTrue
  <1>5. Answer' = Fold(OnDisk)'
    BY <1>1, <1>4 DEF Answer, CacheTrue
  <1> QED
    BY <1>1, <1>2, <1>3, <1>4, <1>5
-----------------------------------------------------------------------------
(* What v held w holds in its place, as it was or as written since.        *)
Stays(v, w) == /\ Len(v) <= Len(w)
               /\ \A k \in DOMAIN v : v[k].id = w[k].id /\ v[k].n <= w[k].n

(* What a sequence of events holds.                                         *)
LEMMA EventsOf ==
  ASSUME NEW v \in Seq(Event)
  PROVE  /\ DOMAIN v = 1 .. Len(v) /\ Len(v) \in Nat
         /\ \A k \in 1 .. Len(v) : v[k] \in Event /\ v[k].n \in Nat
  <1>1. \A k \in 1 .. Len(v) : v[k] \in Event
    OBVIOUS
  <1>2. \A e \in Event : e.n \in Nat
    BY DEF Event
  <1> QED
    BY <1>1, <1>2

(* What was newer than all of its id stays so, if it is newer than e.       *)
LEMMA SupersedeLater ==
  ASSUME NEW v \in Seq(Event), NEW e \in Event, NEW f \in Event,
         Later(v, f), e.id = f.id => e.n <= f.n
  PROVE  Later(Supersede(v, e), f)
  <1> DEFINE w == Supersede(v, e)
  <1>1. CASE \E k \in 1 .. Len(v) : v[k].id = e.id
    <2>1. Len(w) = Len(v) /\ \A k \in 1 .. Len(v) :
                               w[k] = IF v[k].id = e.id THEN e ELSE v[k]
      BY <1>1, SupersedeIs
    <2> HIDE DEF w
    <2>2. \A k \in 1 .. Len(w) : w[k].id = f.id => w[k].n <= f.n
      BY <2>1 DEF Later
    <2> QED
      BY <2>2 DEF Later, w
  <1>2. CASE ~(\E k \in 1 .. Len(v) : v[k].id = e.id)
    <2>1. w = Append(v, e)
      BY <1>2, SupersedeIs
    <2>2. Len(w) = Len(v) + 1 /\ w[Len(v) + 1] = e /\ Len(v) \in Nat
          /\ \A k \in 1 .. Len(v) : w[k] = v[k]
      BY <2>1
    <2> HIDE DEF w
    <2>3. \A k \in 1 .. Len(w) : k \in 1 .. Len(v) \/ k = Len(v) + 1
      BY <2>2
    <2>4. \A k \in 1 .. Len(w) : w[k].id = f.id => w[k].n <= f.n
      BY <2>2, <2>3 DEF Later
    <2> QED
      BY <2>4 DEF Later, w
  <1> QED
    BY <1>1, <1>2

(* An event that is not older than those of its id takes nothing away.      *)
LEMMA SupersedeStays ==
  ASSUME NEW v \in Seq(Event), NEW e \in Event, Later(v, e),
         NEW n \in Nat, e.n <= n, \A k \in 1 .. Len(v) : v[k].n <= n
  PROVE  /\ Stays(v, Supersede(v, e))
         /\ \A k \in 1 .. Len(Supersede(v, e)) : Supersede(v, e)[k].n <= n
  <1> DEFINE w == Supersede(v, e)
  <1>0. DOMAIN v = 1 .. Len(v) /\ Len(v) \in Nat /\ \A k \in 1 .. Len(v) : v[k].n \in Nat
    BY EventsOf
  <1>1. CASE \E k \in 1 .. Len(v) : v[k].id = e.id
    <2>1. Len(w) = Len(v) /\ \A k \in 1 .. Len(v) :
                               w[k] = IF v[k].id = e.id THEN e ELSE v[k]
      BY <1>1, SupersedeIs
    <2> HIDE DEF w
    <2>2. Stays(v, w)
      BY <1>0, <2>1 DEF Later, Stays
    <2>3. \A k \in 1 .. Len(w) : w[k].n <= n
      BY <2>1
    <2> QED
      BY <2>2, <2>3 DEF w
  <1>2. CASE ~(\E k \in 1 .. Len(v) : v[k].id = e.id)
    <2>1. w = Append(v, e)
      BY <1>2, SupersedeIs
    <2>2. Len(w) = Len(v) + 1 /\ w[Len(v) + 1] = e
          /\ \A k \in 1 .. Len(v) : w[k] = v[k]
      BY <2>1
    <2> HIDE DEF w
    <2>3. \A k \in 1 .. Len(w) : k \in 1 .. Len(v) \/ k = Len(v) + 1
      BY <1>0, <2>2
    <2>4. Stays(v, w)
      BY <1>0, <2>2 DEF Stays
    <2>5. \A k \in 1 .. Len(w) : w[k].n <= n
      BY <2>2, <2>3
    <2> QED
      BY <2>4, <2>5 DEF w
  <1> QED
    BY <1>1, <1>2

(* What is not touched stays.                                               *)
LEMMA StaysSame == ASSUME NEW v \in Seq(Event) PROVE Stays(v, v)
  BY EventsOf DEF Stays

(* Each feed gets the event behind what waits, or has missed something.    *)
LEMMA PublishIs ==
  ASSUME subs \in [Subscribers -> Feed], NEW e \in Event, Publish(e)
  PROVE  /\ subs' \in [Subscribers -> Feed]
         /\ \A s \in Subscribers :
              /\ subs'[s].view = subs[s].view /\ subs'[s].on = subs[s].on
              /\ subs'[s].shed = subs[s].shed
              /\ subs[s].on /\ ~subs'[s].missed =>
                   ~subs[s].missed /\ subs'[s].queue = Append(subs[s].queue, e)
  <1>1. ASSUME NEW s \in Subscribers
        PROVE  LET f == subs[s]
                   q == Append(f.queue, e)
                   g == IF ~f.on THEN f
                        ELSE IF Len(q) > Depth
                             THEN [f EXCEPT !.queue = Tail(q), !.missed = TRUE]
                             ELSE [f EXCEPT !.queue = q]
               IN  /\ subs'[s] = g /\ g \in Feed /\ g.view = f.view /\ g.on = f.on
                   /\ g.shed = f.shed
                   /\ f.on /\ ~g.missed => ~f.missed /\ g.queue = q
    <2> DEFINE f == subs[s]
               q == Append(f.queue, e)
               g == IF ~f.on THEN f
                    ELSE IF Len(q) > Depth
                         THEN [f EXCEPT !.queue = Tail(q), !.missed = TRUE]
                         ELSE [f EXCEPT !.queue = q]
    <2>1. subs'[s] = g
      BY DEF Publish
    <2>2. f \in Feed
      OBVIOUS
    <2> HIDE DEF f
    <2>3. /\ f.queue \in Seq(Event) /\ f.view \in Seq(Event)
          /\ f.on \in BOOLEAN /\ f.missed \in BOOLEAN /\ f.shed \in SUBSET Ids
          /\ f = [on |-> f.on, view |-> f.view, queue |-> f.queue, missed |-> f.missed,
                   shed |-> f.shed]
      BY <2>2 DEF Feed
    <2>4. q \in Seq(Event) /\ q # <<>> /\ Tail(q) \in Seq(Event)
      BY <2>3
    <2>5. CASE ~f.on
      BY <2>1, <2>2, <2>5 DEF f
    <2>6. CASE f.on /\ Len(q) > Depth
      <3>1. g = [f EXCEPT !.queue = Tail(q), !.missed = TRUE]
        BY <2>6
      <3> HIDE DEF q, g
      <3>2. g = [on |-> f.on, view |-> f.view, queue |-> Tail(q), missed |-> TRUE,
                 shed |-> f.shed]
        BY <2>2, <3>1 DEF Feed
      <3>3. /\ g \in Feed /\ g.view = f.view /\ g.on = f.on /\ g.missed = TRUE
            /\ g.shed = f.shed
        BY <2>3, <2>4, <3>2 DEF Feed
      <3> QED
        BY <2>1, <3>3 DEF f, g, q
    <2>7. CASE f.on /\ ~(Len(q) > Depth)
      <3>1. g = [f EXCEPT !.queue = q]
        BY <2>7
      <3> HIDE DEF q, g
      <3>2. g = [on |-> f.on, view |-> f.view, queue |-> q, missed |-> f.missed,
                 shed |-> f.shed]
        BY <2>2, <3>1 DEF Feed
      <3>3. /\ g \in Feed /\ g.view = f.view /\ g.on = f.on /\ g.missed = f.missed
            /\ g.queue = q /\ g.shed = f.shed
        BY <2>3, <2>4, <3>2 DEF Feed
      <3> QED
        BY <2>1, <3>3 DEF f, g, q
    <2> QED
      BY <2>5, <2>6, <2>7
  <1>2. subs' = [s \in Subscribers |-> subs'[s]]
    BY DEF Publish
  <1> QED
    BY <1>1, <1>2
-----------------------------------------------------------------------------
(* A feed as it is.                                                         *)
LEMMA FeedOf ==
  ASSUME LogTypeOK, NEW s \in Subscribers
  PROVE  /\ subs[s] \in Feed /\ subs[s].view \in Seq(Event)
         /\ subs[s].queue \in Seq(Event)
  <1>1. subs[s] \in Feed
    BY DEF LogTypeOK
  <1> QED
    BY <1>1 DEF Feed

(* An append that succeeds.                                                *)
LEMMA TakeKeeps ==
  ASSUME LogInv, NEW e \in Event, Take(e), disk' = disk
  PROVE  /\ lines' \in Seq(Event \cup {Junk}) /\ tail' = Ended
         /\ cache' \in Seq(Event) \cup {Cold} /\ written' \in Seq(Event)
         /\ subs' \in [Subscribers -> Feed]
         /\ CacheTrue' /\ NothingTorn' /\ ViewsFolded' /\ FeedIsLoad'
         /\ tail = Ended => History' = Supersede(History, e)
         /\ tail # Ended => History' = History
  <1>0. /\ LogTypeOK /\ CacheTrue /\ NothingTorn /\ ViewsFolded /\ FeedIsLoad
        /\ lines \in Seq(Event \cup {Junk}) /\ written \in Seq(Event)
        /\ cache \in Seq(Event) \cup {Cold} /\ subs \in [Subscribers -> Feed]
    BY DEF LogInv, LogTypeOK
  <1>1. lines' \in Seq(Event \cup {Junk}) /\ tail' = Ended
    BY <1>0 DEF Take, Land
  <1>2. written' = Append(written, e) /\ written' \in Seq(Event)
    BY <1>0 DEF Take
  <1>3. Answer = Fold(OnDisk) /\ (tail = Ended => Answer = History)
    BY <1>0, AnswerIs
  <1>4. Fold(OnDisk)' = History' /\ OnDisk' \in Seq(Line)
    BY <1>1, DiskIs DEF OnDisk, Segment, History
  <1>5. tail = Ended => History' = Supersede(History, e)
    <2> SUFFICES ASSUME tail = Ended PROVE History' = Supersede(History, e)
      OBVIOUS
    <2>1. lines' = Append(lines, e)
      BY DEF Take, Land
    <2> QED
      BY <1>0, <2>1, DiskIs DEF History
  <1>6. tail # Ended => History' = History
    <2> SUFFICES ASSUME tail # Ended PROVE History' = History
      OBVIOUS
    <2>1. lines' = Append(lines, Junk)
      BY DEF Take, Land
    <2>2. Older \o lines \in Seq(Line) /\ Junk \in Line /\ ~IsEvent(Junk)
      BY <1>0, DiskNow, LineIs DEF Line
    <2>3. Older \o Append(lines, Junk) = Append(Older \o lines, Junk)
      BY <1>0, LogAssumption
    <2> QED
      BY <2>1, <2>2, <2>3, FoldSkips DEF History
  <1>7. cache' \in Seq(Event) \cup {Cold} /\ CacheTrue'
    <2>1. CASE cache = Cold
      <3>1. cache' = Cold
        BY <2>1 DEF Take
      <3> QED
        BY <3>1 DEF CacheTrue
    <2>2. CASE cache # Cold
      <3>1. tail = Ended /\ cache = History /\ cache \in Seq(Event)
        BY <1>0, <1>3, <2>2 DEF CacheTrue, Answer
      <3>2. cache' = Supersede(History, e)
        BY <2>2, <3>1 DEF Take
      <3>3. Supersede(History, e) \in Seq(Event)
        BY <3>1, SupersedeIs
      <3>4. cache' = Fold(OnDisk)'
        BY <1>4, <1>5, <3>1, <3>2
      <3> QED
        BY <1>1, <3>2, <3>3, <3>4 DEF CacheTrue
    <2> QED
      BY <2>1, <2>2
  <1>8. NothingTorn'
    <2> SUFFICES ASSUME disk = "whole"
                 PROVE  tail' = Ended /\ History' = Fold(Older \o written')
      BY DEF NothingTorn
    <2>1. tail = Ended /\ History = Fold(Older \o written)
      BY <1>0 DEF NothingTorn
    <2>2. written \in Seq(Event \cup {Junk}) /\ e \in Event \cup {Half, Ended}
      BY <1>0
    <2>3. Fold(Older \o Append(written, e)) = Supersede(Fold(Older \o written), e)
      BY <2>2, DiskIs
    <2> QED
      BY <1>1, <1>2, <1>5, <2>1, <2>3
  <1>9. /\ subs' \in [Subscribers -> Feed]
        /\ \A s \in Subscribers :
             /\ subs'[s].view = subs[s].view /\ subs'[s].on = subs[s].on
             /\ subs'[s].shed = subs[s].shed
             /\ subs[s].on /\ ~subs'[s].missed =>
                  ~subs[s].missed /\ subs'[s].queue = Append(subs[s].queue, e)
    <2>1. Publish(e)
      BY DEF Take
    <2> QED
      BY <1>0, <2>1, PublishIs
  <1>10. ViewsFolded'
    BY <1>0, <1>9 DEF ViewsFolded
  <1>11. FeedIsLoad'
    <2> SUFFICES ASSUME NEW s \in Subscribers, disk = "whole", subs'[s].on,
                        ~subs'[s].missed
                 PROVE  /\ subs'[s].shed \subseteq Sheds(s)
                        /\ SameBut(subs'[s].shed,
                                   Fold(subs'[s].view \o subs'[s].queue), Answer')
      BY DEF FeedIsLoad, Sheds
    <2>1. tail = Ended
      BY <1>0 DEF NothingTorn
    <2>2. /\ subs[s].on /\ ~subs[s].missed /\ subs'[s].view = subs[s].view
          /\ subs'[s].queue = Append(subs[s].queue, e) /\ subs'[s].shed = subs[s].shed
      BY <1>9
    <2>3. subs[s].view \in Seq(Event) /\ subs[s].queue \in Seq(Event)
      BY <1>0, FeedOf
    <2>4. /\ subs[s].shed \subseteq Sheds(s)
          /\ SameBut(subs[s].shed, Fold(subs[s].view \o subs[s].queue), History)
      BY <1>0, <1>3, <2>1, <2>2 DEF FeedIsLoad
    <2> DEFINE v == subs[s].view
               q == subs[s].queue
    <2>5. v \o Append(q, e) = Append(v \o q, e) /\ v \o q \in Seq(Line)
      <3>1. v \in Seq(Event) /\ q \in Seq(Event)
        BY <2>3
      <3> HIDE DEF v, q
      <3>2. v \o Append(q, e) = Append(v \o q, e) /\ v \o q \in Seq(Event)
        BY <3>1
      <3> QED
        BY <3>2 DEF Line
    <2>6. Fold(Append(v \o q, e)) = Supersede(Fold(v \o q), e)
      BY <2>5, FoldAppends
    <2>7. Answer' = Fold(OnDisk)'
      BY <1>7 DEF Answer, CacheTrue
    <2>8. History \in Seq(Event) /\ Distinct(History)
      BY <1>0, DiskNow, FoldDistinct DEF History
    <2>9. Fold(v \o q) \in Seq(Event) /\ Distinct(Fold(v \o q))
      BY <2>5, FoldIs, FoldDistinct
    <2>10. SameBut(subs[s].shed, Supersede(Fold(v \o q), e), Supersede(History, e))
      <3> DEFINE S == subs[s].shed
                 F == Fold(v \o q)
                 H == History
      <3>1. SameBut(S, F, H) /\ F \in Seq(Event) /\ H \in Seq(Event)
            /\ Distinct(F) /\ Distinct(H)
        BY <2>4, <2>8, <2>9
      <3> HIDE DEF S, F, H
      <3>2. SameBut(S, Supersede(F, e), Supersede(H, e))
        BY <3>1, SameSuperseded
      <3> QED
        BY <3>2 DEF S, F, H
    <2>11. Answer' = Supersede(History, e)
      BY <1>4, <1>5, <2>1, <2>7
    <2>12. Fold(subs'[s].view \o subs'[s].queue) = Supersede(Fold(v \o q), e)
      BY <2>2, <2>5, <2>6
    <2> HIDE DEF v, q
    <2> QED
      BY <2>2, <2>4, <2>10, <2>11, <2>12
  <1> QED
    BY <1>1, <1>2, <1>5, <1>6, <1>7, <1>8, <1>9, <1>10, <1>11

(* An append cut short.                                                    *)
LEMMA TearKeeps ==
  ASSUME LogInv, NEW e \in Event, Tear(e), cache' = Cold, disk' = disk,
         written' = written
  PROVE  /\ lines' \in Seq(Event \cup {Junk}) /\ tail' \in Event \cup {Half, Ended}
         /\ lines' = lines /\ History' = History
         /\ tail' \in Event => tail' = tail \/ tail' = e
         /\ CacheTrue' /\ NothingTorn'
         /\ disk = "whole" => Answer' = Answer
  <1>0. LogTypeOK /\ CacheTrue /\ NothingTorn
    BY DEF LogInv
  <1>1. /\ lines' \in Seq(Event \cup {Junk}) /\ tail' \in Event \cup {Half, Ended}
        /\ lines' = lines
    BY <1>0 DEF LogTypeOK, Tear
  <1>2. History' = History
    BY <1>1 DEF History
  <1>3. tail' \in Event => tail' = tail \/ tail' = e
    BY LineIs DEF Tear
  <1>4. disk = "whole" => tail' = tail
    BY DEF Tear
  <1>5. CacheTrue'
    BY DEF CacheTrue
  <1>6. NothingTorn'
    BY <1>0, <1>2, <1>4 DEF NothingTorn
  <1>7. disk = "whole" => Answer' = Answer
    <2> SUFFICES ASSUME disk = "whole" PROVE Answer' = Answer
      OBVIOUS
    <2>1. OnDisk' = OnDisk
      BY <1>1, <1>4 DEF OnDisk, Segment
    <2>2. Answer' = Fold(OnDisk)'
      BY DEF Answer
    <2> QED
      BY <1>0, <2>1, <2>2, AnswerIs
  <1> QED
    BY <1>1, <1>2, <1>3, <1>5, <1>6, <1>7

(* What is written is not older than what is there.                        *)
LEMMA TakeOrder ==
  ASSUME LogInv, NEW e \in Event, Take(e), disk' = disk,
         writes' \in Nat, writes <= writes', e.n <= writes',
         disk # "cuts" => Later(History, e),
         todo' \in Seq(Event),
         \A j \in 1 .. Len(todo') :
           \E i \in 1 .. Len(todo) : todo'[j] = todo[i] /\ todo[i].id # e.id,
         \A i, j \in 1 .. Len(todo') : todo'[i].id = todo'[j].id => i = j
  PROVE  Chronology' /\ (disk # "cuts" => Stays(History, History'))
  <1> SUFFICES ASSUME disk # "cuts"
               PROVE  Chronology' /\ Stays(History, History')
    BY DEF Chronology
  <1>0. LogTypeOK /\ Chronology /\ writes \in Nat /\ todo \in Seq(Event)
    BY DEF LogInv, LogTypeOK
  <1>1. /\ tail' = Ended /\ tail' \notin Event
        /\ tail = Ended => History' = Supersede(History, e)
        /\ tail # Ended => History' = History
    BY TakeKeeps, LineIs
  <1>2. /\ History \in Seq(Event) /\ Later(History, e)
        /\ \A k \in 1 .. Len(History) : History[k].n <= writes /\ History[k].n \in Nat
    BY <1>0, DiskNow, EventsOf DEF Chronology
  <1>3. \A k \in 1 .. Len(History) : History[k].n <= writes'
    BY <1>0, <1>2
  <1>4. /\ Stays(History, History')
        /\ \A k \in 1 .. Len(History') : History'[k].n <= writes'
    <2>1. CASE tail = Ended
      BY <1>1, <1>2, <1>3, <2>1, SupersedeStays
    <2>2. CASE tail # Ended
      BY <1>1, <1>2, <1>3, <2>2, StaysSame
    <2> QED
      BY <2>1, <2>2
  <1>5. ASSUME NEW j \in 1 .. Len(todo')
        PROVE  todo'[j].n <= writes' /\ Later(History', todo'[j])
    <2>1. PICK i \in 1 .. Len(todo) : todo'[j] = todo[i] /\ todo[i].id # e.id
      OBVIOUS
    <2>2. /\ todo[i] \in Event /\ todo[i].n \in Nat /\ todo[i].n <= writes
          /\ Later(History, todo[i])
      BY <1>0, EventsOf DEF Chronology
    <2>3. Later(History', todo[i])
      <3>1. CASE tail = Ended
        BY <1>1, <1>2, <2>1, <2>2, <3>1, SupersedeLater
      <3>2. CASE tail # Ended
        BY <1>1, <2>2, <3>2
      <3> QED
        BY <3>1, <3>2
    <2> QED
      BY <1>0, <2>1, <2>2, <2>3
  <1>6. Chronology'
    BY <1>1, <1>4, <1>5 DEF Chronology
  <1> QED
    BY <1>4, <1>6

(* A torn append is not older than what is there either.                    *)
LEMMA TearOrder ==
  ASSUME LogInv, NEW e \in Event, Tear(e), cache' = Cold, disk' = disk,
         written' = written, writes' \in Nat, writes <= writes', e.n <= writes',
         disk # "cuts" => Later(History, e),
         todo' \in Seq(Event),
         \A j \in 1 .. Len(todo') :
           \E i \in 1 .. Len(todo) : todo'[j] = todo[i] /\ todo[i].id # e.id,
         \A i, j \in 1 .. Len(todo') : todo'[i].id = todo'[j].id => i = j
  PROVE  Chronology'
  <1> SUFFICES ASSUME disk # "cuts" PROVE Chronology'
    BY DEF Chronology
  <1>0. /\ LogTypeOK /\ Chronology /\ writes \in Nat /\ todo \in Seq(Event)
        /\ \A x \in Event : x.n \in Nat
    BY DEF LogInv, LogTypeOK, Event
  <1>1. History' = History /\ (tail' \in Event => tail' = tail \/ tail' = e)
    BY TearKeeps
  <1>2. /\ History \in Seq(Event)
        /\ \A k \in 1 .. Len(History) : History[k].n <= writes /\ History[k].n \in Nat
    BY <1>0, DiskNow, EventsOf DEF Chronology
  <1>3. \A k \in 1 .. Len(History') : History'[k].n <= writes'
    BY <1>0, <1>1, <1>2
  <1>4. tail' \in Event => tail'.n <= writes' /\ Later(History', tail')
    <2>1. ASSUME tail' \in Event, tail' = tail
          PROVE  tail'.n <= writes' /\ Later(History', tail')
      <3>1. tail \in Event /\ tail.n <= writes /\ Later(History, tail) /\ tail.n \in Nat
        BY <1>0, <2>1 DEF Chronology
      <3> QED
        BY <1>0, <1>1, <2>1, <3>1
    <2>2. ASSUME tail' \in Event, tail' = e
          PROVE  tail'.n <= writes' /\ Later(History', tail')
      BY <1>1, <2>2
    <2> QED
      BY <1>1, <2>1, <2>2
  <1>5. ASSUME NEW j \in 1 .. Len(todo')
        PROVE  /\ todo'[j].n <= writes' /\ Later(History', todo'[j])
               /\ tail' \in Event /\ tail'.id = todo'[j].id => tail'.n <= todo'[j].n
    <2>1. PICK i \in 1 .. Len(todo) : todo'[j] = todo[i] /\ todo[i].id # e.id
      OBVIOUS
    <2>2. /\ todo[i].n \in Nat /\ todo[i].n <= writes /\ Later(History, todo[i])
          /\ tail \in Event /\ tail.id = todo[i].id => tail.n <= todo[i].n
      BY <1>0, EventsOf DEF Chronology
    <2>3. tail' \in Event /\ tail'.id = todo[i].id => tail'.n <= todo[i].n
      BY <1>1, <2>1, <2>2
    <2>4. todo[i].n <= writes'
      BY <1>0, <2>2
    <2> QED
      BY <1>1, <2>1, <2>2, <2>3, <2>4
  <1> QED
    BY <1>3, <1>4, <1>5 DEF Chronology
-----------------------------------------------------------------------------
(* What a step makes of the lines.                                         *)
HistoryStep == lines' # lines /\ disk # "cuts" => Stays(History, History')

(* A desk that was never started.                                           *)
LEMMA InitInv == LogInit => LogInv
  <1> SUFFICES ASSUME LogInit PROVE LogInv
    OBVIOUS
  <1>1. LogTypeOK
    BY LogAssumption DEF LogInit, LogTypeOK, Feed, NoFeed
  <1>2. cache = Cold /\ tail = Ended /\ tail \notin Event /\ lines = <<>> /\ todo = <<>>
        /\ written = <<>> /\ writes = 0
    BY LineIs DEF LogInit
  <1>3. CacheTrue /\ NothingTorn /\ Settling
    BY <1>2 DEF CacheTrue, NothingTorn, Settling, History
  <1>4. ViewsFolded
    BY FoldNothing DEF LogInit, NoFeed, ViewsFolded
  <1>5. FeedIsLoad
    BY DEF LogInit, NoFeed, FeedIsLoad
  <1>6. \A k \in 1 .. Len(History) : History[k].n <= 0
    <2>1. Older \in Seq(Line) /\ History = Fold(Older)
      BY <1>2, LogAssumption DEF History, Line
    <2>2. ASSUME NEW k \in 1 .. Len(History) PROVE History[k].n = 0
      <3>1. PICK l \in Lasts(Older) : History[k] = Older[l]
        BY <2>1, FoldIs
      <3>2. l \in DOMAIN Older
        BY DEF Lasts
      <3> QED
        BY <3>1, <3>2, LogAssumption
    <2> QED
      BY <2>2
  <1>7. Chronology
    BY <1>2, <1>6 DEF Chronology
  <1> QED
    BY <1>1, <1>3, <1>4, <1>5, <1>7 DEF LogInv

(* What is asked for next is newer than all there is.                      *)
LEMMA AskedIs ==
  ASSUME LogInv, NEW e \in Asked
  PROVE  /\ e \in Event /\ e.n = writes + 1 /\ writes \in Nat
         /\ disk # "cuts" => Later(History, e)
  <1>0. LogTypeOK /\ Chronology /\ writes \in Nat
    BY DEF LogInv, LogTypeOK
  <1>1. e \in Event /\ e.n = writes + 1
    <2>1. PICK i \in Ids, c \in BOOLEAN : e = [id |-> i, n |-> writes + 1, card |-> c]
      BY DEF Asked
    <2> QED
      BY <1>0, <2>1 DEF Event
  <1>2. ASSUME disk # "cuts" PROVE Later(History, e)
    <2>1. \A k \in 1 .. Len(History) : History[k].n <= writes /\ History[k].n \in Nat
      BY <1>0, <1>2, DiskNow, EventsOf DEF Chronology
    <2> QED
      BY <1>0, <1>1, <2>1 DEF Later
  <1> QED
    BY <1>0, <1>1, <1>2

(* The steps of the log, one by one: an append that succeeds, and one that  *)
(* fails.                                                                   *)
LEMMA WriteKeeps == LogInv /\ Write => LogInv' /\ HistoryStep
  <1> SUFFICES ASSUME LogInv, Write PROVE LogInv' /\ HistoryStep
    OBVIOUS
  <1>1. PICK e \in Asked : Take(e)
    BY DEF Write
  <1>2. /\ phase = "on" /\ writes < MaxWrites /\ writes' = writes + 1
        /\ phase' = phase /\ todo' = todo /\ faults' = faults /\ disk' = disk
    BY DEF Write
  <1>3. LogTypeOK /\ todo = <<>>
    BY <1>2 DEF LogInv, Settling
  <1>4. e \in Event /\ e.n = writes' /\ writes \in Nat /\ writes' \in Nat /\ writes <= writes'
        /\ (disk # "cuts" => Later(History, e))
    BY <1>2, AskedIs
  <1>5. /\ lines' \in Seq(Event \cup {Junk}) /\ tail' = Ended
        /\ cache' \in Seq(Event) \cup {Cold} /\ written' \in Seq(Event)
        /\ subs' \in [Subscribers -> Feed]
        /\ CacheTrue' /\ NothingTorn' /\ ViewsFolded' /\ FeedIsLoad'
    BY <1>1, <1>2, <1>4, TakeKeeps
  <1>6. todo' = <<>> /\ todo' \in Seq(Event)
    BY <1>2, <1>3
  <1>7. Chronology' /\ (disk # "cuts" => Stays(History, History'))
    BY <1>1, <1>2, <1>4, <1>6, TakeOrder
  <1>8. LogTypeOK'
    BY <1>2, <1>3, <1>5, <1>6, LogAssumption DEF LogTypeOK
  <1>9. Settling'
    BY <1>6 DEF Settling
  <1> QED
    BY <1>5, <1>7, <1>8, <1>9 DEF LogInv, HistoryStep

(* An append that fails leaves what the feeds have been sent.               *)
LEMMA WriteFailsKeeps == LogInv /\ WriteFails => LogInv' /\ HistoryStep
  <1> SUFFICES ASSUME LogInv, WriteFails PROVE LogInv' /\ HistoryStep
    OBVIOUS
  <1>1. PICK e \in Asked : Tear(e)
    BY DEF WriteFails
  <1>2. /\ phase = "on" /\ writes < MaxWrites /\ writes' = writes + 1 /\ cache' = Cold
        /\ faults < MaxFaults /\ faults' = faults + 1
        /\ phase' = phase /\ todo' = todo /\ disk' = disk /\ written' = written
        /\ subs' = subs
    BY DEF WriteFails, Fault
  <1>3. LogTypeOK /\ todo = <<>> /\ ViewsFolded /\ FeedIsLoad
    BY <1>2 DEF LogInv, Settling
  <1>4. e \in Event /\ e.n = writes' /\ writes \in Nat /\ writes' \in Nat /\ writes <= writes'
        /\ (disk # "cuts" => Later(History, e))
    BY <1>2, AskedIs
  <1>5. /\ lines' \in Seq(Event \cup {Junk}) /\ tail' \in Event \cup {Half, Ended}
        /\ CacheTrue' /\ NothingTorn' /\ lines' = lines
        /\ disk = "whole" => Answer' = Answer
    BY <1>1, <1>2, <1>4, TearKeeps
  <1>6. todo' = <<>> /\ todo' \in Seq(Event)
    BY <1>2, <1>3
  <1>7. Chronology'
    BY <1>1, <1>2, <1>4, <1>6, TearOrder
  <1>8. LogTypeOK'
    BY <1>2, <1>3, <1>5, <1>6, LogAssumption DEF LogTypeOK
  <1>9. Settling' /\ ViewsFolded' /\ FeedIsLoad'
    BY <1>2, <1>3, <1>5, <1>6 DEF Settling, ViewsFolded, FeedIsLoad
  <1> QED
    BY <1>5, <1>7, <1>8, <1>9 DEF LogInv, HistoryStep
-----------------------------------------------------------------------------
(* The file is left as it is.                                              *)
LEMMA FileStill ==
  ASSUME LogInv, Remember \/ cache' = Cold \/ cache' = cache,
         UNCHANGED <<lines, tail, written, disk>>
  PROVE  /\ cache' \in Seq(Event) \cup {Cold} /\ CacheTrue' /\ NothingTorn'
         /\ History' = History /\ Answer' = Answer
         /\ lines' \in Seq(Event \cup {Junk}) /\ tail' \in Event \cup {Half, Ended}
         /\ written' \in Seq(Event)
  <1>1. LogTypeOK /\ CacheTrue /\ NothingTorn
    BY DEF LogInv
  <1>2. /\ cache' \in Seq(Event) \cup {Cold} /\ CacheTrue'
        /\ History' = History /\ Answer' = Answer
    BY <1>1, Remembered
  <1>3. NothingTorn'
    BY <1>1, <1>2 DEF NothingTorn
  <1> QED
    BY <1>1, <1>2, <1>3 DEF LogTypeOK

(* The order is that of a file and of what settle has still to write.       *)
LEMMA OrderStill ==
  ASSUME Chronology, UNCHANGED <<lines, tail, disk, writes>>,
         todo' = todo \/ todo' = <<>>
  PROVE  Chronology'
  <1>1. History' = History
    BY DEF History
  <1> QED
    BY <1>1 DEF Chronology

(* A load, and an eviction.                                                 *)
LEMMA LoadKeeps == LogInv /\ (Load \/ Evict) => LogInv' /\ HistoryStep
  <1> SUFFICES ASSUME LogInv, Load \/ Evict PROVE LogInv' /\ HistoryStep
    OBVIOUS
  <1>1. /\ Remember \/ cache' = Cold
        /\ UNCHANGED <<lines, tail, phase, todo, written, subs, writes, faults, disk>>
    BY DEF Load, Evict
  <1>2. /\ cache' \in Seq(Event) \cup {Cold} /\ CacheTrue' /\ NothingTorn'
        /\ Answer' = Answer
    BY <1>1, FileStill
  <1>3. Chronology'
    BY <1>1, OrderStill DEF LogInv
  <1>4. LogTypeOK'
    BY <1>1, <1>2 DEF LogInv, LogTypeOK
  <1>5. Settling' /\ ViewsFolded' /\ FeedIsLoad'
    BY <1>1, <1>2 DEF LogInv, Settling, ViewsFolded, FeedIsLoad
  <1> QED
    BY <1>1, <1>2, <1>3, <1>4, <1>5 DEF LogInv, HistoryStep

(* One feed is set, to one that is off, has missed something or folds to   *)
(* what a load answers of all but what was shed.                           *)
LEMMA FeedSet ==
  ASSUME LogInv, NEW s \in Subscribers, NEW f \in Feed, subs' = [subs EXCEPT ![s] = f],
         Fold(f.view) = f.view,
         disk = "whole" /\ f.on /\ ~f.missed =>
           /\ f.shed \subseteq Sheds(s)
           /\ SameBut(f.shed, Fold(f.view \o f.queue), Answer),
         Remember \/ cache' = cache,
         UNCHANGED <<lines, tail, phase, todo, written, writes, faults, disk>>
  PROVE  LogInv' /\ HistoryStep
  <1>1. /\ cache' \in Seq(Event) \cup {Cold} /\ CacheTrue' /\ NothingTorn'
        /\ Answer' = Answer
    BY FileStill
  <1>2. Chronology'
    BY OrderStill DEF LogInv
  <1>3. LogTypeOK /\ subs \in [Subscribers -> Feed]
    BY DEF LogInv, LogTypeOK
  <1>4. /\ subs' \in [Subscribers -> Feed] /\ subs'[s] = f
        /\ \A x \in Subscribers : x # s => subs'[x] = subs[x]
    BY <1>3
  <1>5. LogTypeOK'
    BY <1>1, <1>3, <1>4 DEF LogTypeOK
  <1>6. ViewsFolded'
    BY <1>4 DEF LogInv, ViewsFolded
  <1>7. FeedIsLoad'
    BY <1>1, <1>4 DEF LogInv, FeedIsLoad, Sheds
  <1>8. Settling' /\ lines' = lines
    BY DEF LogInv, Settling
  <1> QED
    BY <1>1, <1>2, <1>5, <1>6, <1>7, <1>8 DEF LogInv, HistoryStep

(* A feed starts, or starts again, from the fold.                           *)
LEMMA SubscribeKeeps ==
  ASSUME LogInv, NEW s \in Subscribers, Subscribe(s) \/ CatchUp(s)
  PROVE  LogInv' /\ HistoryStep
  <1> DEFINE f == Fed
  <1>1. /\ subs' = [subs EXCEPT ![s] = f] /\ Remember
        /\ UNCHANGED <<lines, tail, phase, todo, written, writes, faults, disk>>
    BY DEF Subscribe, CatchUp
  <1>2. Answer \in Seq(Event) /\ Fold(Answer) = Answer
    BY AnswerIs DEF LogInv
  <1>3. f \in Feed
    BY <1>2 DEF Feed, Fed
  <1>4. f.view = Answer /\ f.queue = <<>> /\ Answer \o <<>> = Answer /\ f.shed = {}
    BY <1>2 DEF Fed
  <1> HIDE DEF f
  <1>5. SameBut(f.shed, Fold(f.view \o f.queue), Answer)
    <2>1. Answer \in Seq(Line)
      BY <1>2 DEF Line
    <2>2. Distinct(Answer)
      BY <1>2, <2>1, FoldDistinct
    <2> QED
      BY <1>2, <1>4, <2>2, SameSelf
  <1>6. f.shed \subseteq Sheds(s) /\ Fold(f.view) = f.view
    BY <1>2, <1>4
  <1> QED
    BY <1>1, <1>3, <1>5, <1>6, FeedSet

(* A feed ends.                                                             *)
LEMMA UnsubscribeKeeps ==
  ASSUME LogInv, NEW s \in Subscribers, Unsubscribe(s)
  PROVE  LogInv' /\ HistoryStep
  <1>1. /\ subs' = [subs EXCEPT ![s] = NoFeed] /\ cache' = cache
        /\ UNCHANGED <<lines, tail, phase, todo, written, writes, faults, disk>>
    BY DEF Unsubscribe
  <1>2. NoFeed \in Feed /\ NoFeed.view = <<>> /\ NoFeed.on = FALSE
    BY DEF NoFeed, Feed
  <1> QED
    BY <1>1, <1>2, FoldNothing, FeedSet

(* A feed with two of its fields set.                                       *)
LEMMA FeedWith ==
  ASSUME NEW g \in Feed, NEW w, NEW r, NEW h,
         h = [g EXCEPT !.view = w, !.queue = r]
  PROVE  h = [on |-> g.on, view |-> w, queue |-> r, missed |-> g.missed, shed |-> g.shed]
  BY DEF Feed

(* An event moves from the queue of a feed to what its client holds.        *)
LEMMA ReceiveKeeps ==
  ASSUME LogInv, NEW s \in Subscribers, Receive(s)
  PROVE  LogInv' /\ HistoryStep
  <1> DEFINE v == subs[s].view
             q == subs[s].queue
             e == Head(q)
             w == Supersede(v, e)
             d == subs[s].shed
             f == [on |-> TRUE, view |-> w, queue |-> Tail(q), missed |-> FALSE,
                   shed |-> d]
  <1>0. /\ LogTypeOK /\ subs \in [Subscribers -> Feed] /\ ViewsFolded /\ FeedIsLoad
        /\ subs[s] \in Feed /\ v \in Seq(Event) /\ q \in Seq(Event) /\ d \in SUBSET Ids
    BY FeedOf DEF LogInv, LogTypeOK, Feed
  <1>1. /\ subs[s].on /\ ~subs[s].missed /\ q # <<>> /\ cache' = cache
        /\ UNCHANGED <<lines, tail, phase, todo, written, writes, faults, disk>>
    BY DEF Receive
  <1>2. subs' = [subs EXCEPT ![s] = f]
    <2>1. subs' = [subs EXCEPT ![s].view = w, ![s].queue = Tail(q)]
      BY DEF Receive
    <2> HIDE DEF w, q
    <2>2. subs' = [subs EXCEPT ![s] = [subs[s] EXCEPT !.view = w, !.queue = Tail(q)]]
      BY <1>0, <2>1
    <2>3. subs[s].on = TRUE /\ subs[s].missed = FALSE
      BY <1>0, <1>1 DEF Feed
    <2>4. [subs[s] EXCEPT !.view = w, !.queue = Tail(q)]
            = [on |-> subs[s].on, view |-> w, queue |-> Tail(q), missed |-> subs[s].missed,
               shed |-> d]
      <3> DEFINE g == subs[s]
                 r == Tail(q)
                 h == [g EXCEPT !.view = w, !.queue = r]
      <3>1. g \in Feed /\ h = [g EXCEPT !.view = w, !.queue = r]
        BY <1>0
      <3> HIDE DEF g, r, h
      <3>2. h = [on |-> g.on, view |-> w, queue |-> r, missed |-> g.missed, shed |-> g.shed]
        BY <3>1, FeedWith
      <3> QED
        BY <3>2 DEF g, r, h
    <2> QED
      BY <2>2, <2>3, <2>4
  <1>3. e \in Event /\ Tail(q) \in Seq(Event) /\ q = <<e>> \o Tail(q)
    <2> HIDE DEF q
    <2> QED
      BY <1>0, <1>1
  <1>4. w \in Seq(Event) /\ w = Fold(Append(v, e)) /\ Append(v, e) \in Seq(Event)
    <2>1. Fold(v) = v
      BY <1>0 DEF ViewsFolded
    <2>2. v \in Seq(Line)
      BY <1>0 DEF Line
    <2> HIDE DEF v, e
    <2> QED
      BY <1>0, <1>3, <2>1, <2>2, FoldAppends, SupersedeIs
  <1>5. f \in Feed /\ f.view = w /\ f.queue = Tail(q) /\ f.shed = d
    BY <1>0, <1>3, <1>4 DEF Feed
  <1>6. Append(v, e) \in Seq(Line) /\ Tail(q) \in Seq(Line) /\ w \in Seq(Line)
    BY <1>3, <1>4 DEF Line
  <1>7. Fold(w) = w
    BY <1>4, <1>6, FoldTwice
  <1>8. Append(v, e) \o Tail(q) = v \o q
    <2> HIDE DEF v, q, e
    <2>1. Append(v, e) \o Tail(q) = v \o (<<e>> \o Tail(q))
      BY <1>0, <1>3
    <2> QED
      BY <1>3, <2>1
  <1>9. Fold(w \o Tail(q)) = Fold(v \o q)
    <2> DEFINE a == Append(v, e)
               r == Tail(q)
    <2>1. Fold(w) = Fold(a) /\ w \in Seq(Line) /\ a \in Seq(Line) /\ r \in Seq(Line)
      BY <1>4, <1>6, <1>7
    <2> HIDE DEF a, r, w
    <2>2. Fold(w \o r) = Fold(a \o r)
      BY <2>1, FoldMore
    <2> QED
      BY <1>8, <2>2 DEF a, r
  <1>10. disk = "whole" => /\ d \subseteq Sheds(s)
                           /\ SameBut(d, Fold(w \o Tail(q)), Answer)
    BY <1>0, <1>1, <1>9 DEF FeedIsLoad
  <1> HIDE DEF f, w, d
  <1> QED
    BY <1>1, <1>2, <1>5, <1>7, <1>10, FeedSet

(* An event of a tool is shed: of all others the client holds the same.    *)
LEMMA ShedKeeps ==
  ASSUME LogInv, NEW s \in Subscribers, Shed(s)
  PROVE  LogInv' /\ HistoryStep
  <1> DEFINE v == subs[s].view
             q == subs[s].queue
             e == Head(q)
             d == subs[s].shed
             f == [on |-> TRUE, view |-> v, queue |-> Tail(q), missed |-> FALSE,
                   shed |-> d \cup {e.id}]
  <1>0. /\ LogTypeOK /\ subs \in [Subscribers -> Feed] /\ ViewsFolded /\ FeedIsLoad
        /\ subs[s] \in Feed /\ v \in Seq(Event) /\ q \in Seq(Event) /\ d \in SUBSET Ids
    BY FeedOf DEF LogInv, LogTypeOK, Feed
  <1>1. /\ subs[s].on /\ ~subs[s].missed /\ q # <<>> /\ cache' = cache
        /\ e.id \in Sheds(s)
        /\ UNCHANGED <<lines, tail, phase, todo, written, writes, faults, disk>>
    BY DEF Shed
  <1>3. e \in Event /\ Tail(q) \in Seq(Event) /\ q = <<e>> \o Tail(q)
    <2> HIDE DEF q
    <2> QED
      BY <1>0, <1>1
  <1>4. e.id \in Ids
    BY <1>3 DEF Event
  <1>2. subs' = [subs EXCEPT ![s] = f]
    <2> DEFINE g == subs[s]
               r == Tail(q)
               c == d \cup {e.id}
               h == [g EXCEPT !.queue = r, !.shed = c]
    <2>1. subs' = [subs EXCEPT ![s].queue = r, ![s].shed = c]
      BY DEF Shed
    <2>2. g \in Feed /\ g.on = TRUE /\ g.missed = FALSE /\ g.view = v
      BY <1>0, <1>1 DEF Feed
    <2>3. h = [g EXCEPT !.queue = r, !.shed = c]
      OBVIOUS
    <2>4. subs' = [subs EXCEPT ![s] = h]
      <3> HIDE DEF r, c
      <3> QED
        BY <1>0, <2>1
    <2> HIDE DEF g, r, c, h, v
    <2>5. h = [on |-> g.on, view |-> g.view, queue |-> r, missed |-> g.missed, shed |-> c]
      BY <2>2, <2>3 DEF Feed
    <2>6. h = [on |-> TRUE, view |-> v, queue |-> r, missed |-> FALSE, shed |-> c]
      BY <2>2, <2>5
    <2> QED
      BY <2>4, <2>6 DEF r, c
  <1>5. /\ f \in Feed /\ f.view = v /\ f.queue = Tail(q) /\ f.shed = d \cup {e.id}
    BY <1>0, <1>3, <1>4 DEF Feed
  <1>6. Fold(v) = v
    BY <1>0 DEF ViewsFolded
  <1>7. disk = "whole" => /\ d \subseteq Sheds(s)
                          /\ SameBut(d, Fold(v \o q), Answer)
    BY <1>0, <1>1 DEF FeedIsLoad
  <1>8. SameBut({e.id}, Fold(v \o Tail(q)), Fold(v \o q))
    <2> DEFINE r == Tail(q)
    <2>1. v \in Seq(Event) /\ e \in Event /\ r \in Seq(Event) /\ q = <<e>> \o r
      BY <1>0, <1>3
    <2> HIDE DEF v, e, r, q
    <2>2. SameBut({e.id}, Fold(v \o r), Fold(v \o (<<e>> \o r)))
      BY <2>1, FoldWithout
    <2>3. SameBut({e.id}, Fold(v \o r), Fold(v \o q))
      BY <2>1, <2>2
    <2> QED
      BY <2>3 DEF r
  <1>9. disk = "whole" => /\ d \cup {e.id} \subseteq Sheds(s)
                          /\ SameBut(d \cup {e.id}, Fold(v \o Tail(q)), Answer)
    <2> DEFINE A == Fold(v \o Tail(q))
               B == Fold(v \o q)
               D == d \cup {e.id}
               E == {e.id}
    <2> SUFFICES ASSUME disk = "whole" PROVE SameBut(D, A, Answer)
      BY <1>1, <1>7
    <2>1. SameBut(E, A, B) /\ SameBut(d, B, Answer) /\ E \subseteq D /\ d \subseteq D
      BY <1>7, <1>8
    <2> HIDE DEF A, B, D, E, d
    <2>2. SameBut(D, A, B) /\ SameBut(D, B, Answer)
      BY <2>1, SameMore
    <2> QED
      BY <2>2, SameThrough
  <1> HIDE DEF f, v, q, d, e
  <1> QED
    BY <1>1, <1>2, <1>5, <1>6, <1>9, FeedSet
-----------------------------------------------------------------------------
(* The cards of a fold, each once.                                         *)
LEMMA ExpiredIs ==
  ASSUME NEW v \in Seq(Event),
         \A i, j \in 1 .. Len(v) : v[i].id = v[j].id => i = j
  PROVE  /\ Expired(v) \in Seq(Event)
         /\ \A j \in 1 .. Len(Expired(v)) :
              \E i \in 1 .. Len(v) : /\ Expired(v)[j].id = v[i].id
                                     /\ Expired(v)[j].n = v[i].n
         /\ \A i, j \in 1 .. Len(Expired(v)) :
              Expired(v)[i].id = Expired(v)[j].id => i = j
  <1> DEFINE C == Cards(v)
             N == Cardinality(C)
             x == Expired(v)
  <1>1. C \in SUBSET (1 .. Len(v)) /\ IsFiniteSet(1 .. Len(v))
    BY FS_Interval DEF Cards
  <1>2. C \subseteq Nat /\ IsFiniteSet(C) /\ N \in Nat
    BY <1>1, FS_Subset, FS_CardinalityType
  <1>3. x = [k \in 1 .. N |-> [v[Nth(C, k)] EXCEPT !.card = FALSE]]
    BY DEF Expired
  <1>4. \A e \in Event : /\ [e EXCEPT !.card = FALSE] \in Event
                         /\ [e EXCEPT !.card = FALSE].id = e.id
                         /\ [e EXCEPT !.card = FALSE].n = e.n
    BY DEF Event
  <1>5. ASSUME NEW k \in 1 .. N
        PROVE  /\ Nth(C, k) \in 1 .. Len(v) /\ x[k] \in Event
               /\ x[k].id = v[Nth(C, k)].id /\ x[k].n = v[Nth(C, k)].n
    <2>1. Nth(C, k) \in 1 .. Len(v)
      BY <1>1, <1>2, NthIs
    <2>2. v[Nth(C, k)] \in Event
      BY <2>1
    <2>3. x[k] = [v[Nth(C, k)] EXCEPT !.card = FALSE]
      BY <1>3
    <2> HIDE DEF x, C, N
    <2> QED
      BY <1>4, <2>1, <2>2, <2>3
  <1> HIDE DEF x, C, N
  <1>6. x \in Seq(Event) /\ Len(x) = N
    <2>1. x = [k \in 1 .. N |-> x[k]]
      BY <1>3
    <2>2. \A k \in 1 .. N : x[k] \in Event
      BY <1>5
    <2> QED
      BY <1>2, <2>1, <2>2
  <1>7. ASSUME NEW k \in 1 .. N, NEW l \in 1 .. N, x[k].id = x[l].id
        PROVE  ~(k < l)
    <2> SUFFICES ASSUME k < l PROVE FALSE
      OBVIOUS
    <2>1. Nth(C, k) = Nth(C, l)
      BY <1>5, <1>7
    <2>2. Nth(C, k) < Nth(C, l)
      BY <1>2, NthOrder DEF N
    <2>3. Nth(C, l) \in Nat
      BY <1>5
    <2> QED
      BY <2>1, <2>2, <2>3
  <1>8. \A k, l \in 1 .. N : x[k].id = x[l].id => k = l
    BY <1>2, <1>7
  <1> QED
    BY <1>5, <1>6, <1>8 DEF x

(* settle reads the cards that are open.                                    *)
LEMMA SettleKeeps == LogInv /\ Settle => LogInv' /\ HistoryStep
  <1> SUFFICES ASSUME LogInv, Settle PROVE LogInv' /\ HistoryStep
    OBVIOUS
  <1>1. /\ Remember /\ phase' = "settling" /\ todo' = Expired(Answer)
        /\ UNCHANGED <<lines, tail, written, subs, writes, faults, disk>>
    BY DEF Settle
  <1>2. LogTypeOK /\ CacheTrue /\ Chronology /\ writes \in Nat
    BY DEF LogInv, LogTypeOK
  <1>3. /\ cache' \in Seq(Event) \cup {Cold} /\ CacheTrue' /\ NothingTorn'
        /\ Answer' = Answer /\ History' = History
    BY <1>1, FileStill
  <1>4. /\ Answer = Fold(OnDisk) /\ Answer \in Seq(Event) /\ OnDisk \in Seq(Line)
        /\ \A i, j \in 1 .. Len(Answer) : Answer[i].id = Answer[j].id => i = j
    BY <1>2, AnswerIs, DiskNow, FoldIds
  <1>5. /\ todo' \in Seq(Event)
        /\ \A j \in 1 .. Len(todo') :
             \E i \in 1 .. Len(Answer) : /\ todo'[j].id = Answer[i].id
                                         /\ todo'[j].n = Answer[i].n
        /\ \A i, j \in 1 .. Len(todo') : todo'[i].id = todo'[j].id => i = j
    <2> DEFINE a == Answer
               x == Expired(a)
    <2>1. a \in Seq(Event) /\ \A i, j \in 1 .. Len(a) : a[i].id = a[j].id => i = j
      BY <1>4
    <2> HIDE DEF a
    <2>2. /\ x \in Seq(Event)
          /\ \A j \in 1 .. Len(x) :
               \E i \in 1 .. Len(a) : x[j].id = a[i].id /\ x[j].n = a[i].n
          /\ \A i, j \in 1 .. Len(x) : x[i].id = x[j].id => i = j
      BY <2>1, ExpiredIs
    <2>3. todo' = x
      BY <1>1 DEF a
    <2> HIDE DEF x
    <2> QED
      BY <2>2, <2>3 DEF a
  <1>6. LogTypeOK'
    BY <1>1, <1>2, <1>3, <1>5 DEF LogTypeOK
  <1>7. Settling' /\ ViewsFolded' /\ FeedIsLoad'
    BY <1>1, <1>3 DEF LogInv, Settling, ViewsFolded, FeedIsLoad
  <1>8. ASSUME disk # "cuts", NEW i \in 1 .. Len(Answer)
        PROVE  /\ Answer[i].n <= writes /\ Later(History, Answer[i])
               /\ tail \in Event /\ tail.id = Answer[i].id => tail.n <= Answer[i].n
    <2>0. /\ History \in Seq(Event)
          /\ \A k \in 1 .. Len(History) : History[k].n <= writes /\ History[k].n \in Nat
          /\ \A k, l \in 1 .. Len(History) : History[k].id = History[l].id => k = l
      BY <1>2, <1>8, DiskNow, EventsOf DEF Chronology
    <2>1. CASE tail \notin Event
      <3>1. Answer = History
        BY <1>2, <1>4, <2>1, DiskNow DEF LogTypeOK
      <3>2. Later(History, Answer[i])
        BY <2>0, <3>1 DEF Later
      <3> QED
        BY <2>0, <2>1, <3>1, <3>2
    <2>2. CASE tail \in Event
      <3>1. Answer = Supersede(History, tail)
        BY <1>2, <1>4, <2>2, DiskNow
      <3>2. tail.n <= writes /\ Later(History, tail) /\ tail.n \in Nat
        <4>1. \A e \in Event : e.n \in Nat
          BY DEF Event
        <4> QED
          BY <1>2, <1>8, <2>2, <4>1 DEF Chronology
      <3>3. CASE \E k \in 1 .. Len(History) : History[k].id = tail.id
        <4>1. Len(Answer) = Len(History)
              /\ Answer[i] = IF History[i].id = tail.id THEN tail ELSE History[i]
          <5>1. /\ Len(Answer) = Len(History)
                /\ \A k \in 1 .. Len(History) :
                     Answer[k] = IF History[k].id = tail.id THEN tail ELSE History[k]
            <6> DEFINE v == History
                       e == tail
                       w == Supersede(v, e)
            <6>1. v \in Seq(Event) /\ e \in Event
                  /\ \E k \in 1 .. Len(v) : v[k].id = e.id
              BY <2>0, <2>2, <3>3
            <6> HIDE DEF v, e
            <6>2. Len(w) = Len(v) /\ \A k \in 1 .. Len(v) :
                                       w[k] = IF v[k].id = e.id THEN e ELSE v[k]
              BY <6>1, SupersedeIs
            <6>3. Answer = w
              BY <3>1 DEF v, e
            <6> QED
              BY <6>2, <6>3 DEF v, e
          <5> QED
            BY <5>1
        <4>2. CASE History[i].id = tail.id
          BY <3>2, <4>1, <4>2
        <4>3. CASE History[i].id # tail.id
          <5>1. Answer[i] = History[i] /\ i \in 1 .. Len(History)
            BY <4>1, <4>3
          <5>2. Later(History, Answer[i])
            BY <2>0, <5>1 DEF Later
          <5> QED
            BY <2>0, <4>3, <5>1, <5>2
        <4> QED
          BY <4>2, <4>3
      <3>4. CASE ~(\E k \in 1 .. Len(History) : History[k].id = tail.id)
        <4>1. Answer = Append(History, tail)
          BY <2>0, <2>2, <3>1, <3>4, SupersedeIs
        <4>2. CASE i = Len(History) + 1
          <5>1. Answer[i] = tail
            BY <2>0, <4>1, <4>2
          <5> QED
            BY <3>2, <5>1
        <4>3. CASE i # Len(History) + 1
          <5>1. i \in 1 .. Len(History) /\ Answer[i] = History[i]
            BY <2>0, <4>1, <4>3
          <5>2. Later(History, Answer[i])
            BY <2>0, <5>1 DEF Later
          <5> QED
            BY <2>0, <3>4, <5>1, <5>2
        <4> QED
          BY <4>2, <4>3
      <3> QED
        BY <3>3, <3>4
    <2> QED
      BY <2>1, <2>2
  <1>9. Chronology'
    <2> SUFFICES ASSUME disk # "cuts" PROVE Chronology'
      BY <1>1 DEF Chronology
    <2>1. ASSUME NEW j \in 1 .. Len(todo')
          PROVE  /\ todo'[j].n <= writes /\ Later(History, todo'[j])
                 /\ tail \in Event /\ tail.id = todo'[j].id => tail.n <= todo'[j].n
      <3>1. PICK i \in 1 .. Len(Answer) : todo'[j].id = Answer[i].id
                                          /\ todo'[j].n = Answer[i].n
        BY <1>5
      <3> QED
        BY <1>8, <3>1 DEF Later
    <2> QED
      BY <1>1, <1>2, <1>3, <1>5, <2>1 DEF Chronology
  <1> QED
    BY <1>1, <1>3, <1>6, <1>7, <1>9 DEF LogInv, HistoryStep
-----------------------------------------------------------------------------
(* The next card of settle, and those behind it.                           *)
LEMMA NextCard ==
  ASSUME LogInv, todo # <<>>
  PROVE  /\ Head(todo) \in Event /\ Head(todo).n \in Nat
         /\ disk # "cuts" => Later(History, Head(todo)) /\ Head(todo).n <= writes
         /\ Tail(todo) \in Seq(Event)
         /\ disk # "cuts" =>
              /\ \A j \in 1 .. Len(Tail(todo)) :
                   \E i \in 1 .. Len(todo) : /\ Tail(todo)[j] = todo[i]
                                             /\ todo[i].id # Head(todo).id
              /\ \A i, j \in 1 .. Len(Tail(todo)) :
                   Tail(todo)[i].id = Tail(todo)[j].id => i = j
  <1>0. LogTypeOK /\ Chronology /\ todo \in Seq(Event)
    BY DEF LogInv, LogTypeOK
  <1>1. /\ Head(todo) \in Event /\ Head(todo) = todo[1] /\ 1 \in 1 .. Len(todo)
        /\ Tail(todo) \in Seq(Event) /\ Len(Tail(todo)) = Len(todo) - 1
        /\ \A j \in 1 .. Len(Tail(todo)) : /\ Tail(todo)[j] = todo[j + 1]
                                           /\ j + 1 \in 1 .. Len(todo) /\ j + 1 # 1
    BY <1>0
  <1>2. Head(todo).n \in Nat
    BY <1>1 DEF Event
  <1>3. ASSUME disk # "cuts"
        PROVE  /\ Later(History, Head(todo)) /\ Head(todo).n <= writes
               /\ \A i, j \in 1 .. Len(todo) : todo[i].id = todo[j].id => i = j
    BY <1>0, <1>1, <1>3 DEF Chronology
  <1>4. ASSUME disk # "cuts", NEW j \in 1 .. Len(Tail(todo))
        PROVE  \E i \in 1 .. Len(todo) : /\ Tail(todo)[j] = todo[i]
                                         /\ todo[i].id # Head(todo).id
    BY <1>1, <1>3, <1>4
  <1>5. ASSUME disk # "cuts", NEW i \in 1 .. Len(Tail(todo)),
               NEW j \in 1 .. Len(Tail(todo)), Tail(todo)[i].id = Tail(todo)[j].id
        PROVE  i = j
    BY <1>1, <1>3, <1>5
  <1> QED
    BY <1>1, <1>2, <1>3, <1>4, <1>5

(* settle appends a card as expired.                                        *)
LEMMA ExpireKeeps == LogInv /\ Expire => LogInv' /\ HistoryStep
  <1> SUFFICES ASSUME LogInv, Expire PROVE LogInv' /\ HistoryStep
    OBVIOUS
  <1> DEFINE e == Head(todo)
  <1>1. /\ phase = "settling" /\ todo # <<>> /\ Take(e) /\ todo' = Tail(todo)
        /\ UNCHANGED <<phase, writes, faults, disk>>
    BY DEF Expire
  <1>2. LogTypeOK /\ writes \in Nat
    BY DEF LogInv, LogTypeOK
  <1>3. /\ e \in Event /\ todo' \in Seq(Event)
        /\ disk # "cuts" =>
             /\ Later(History, e) /\ e.n <= writes'
             /\ \A j \in 1 .. Len(todo') :
                  \E i \in 1 .. Len(todo) : todo'[j] = todo[i] /\ todo[i].id # e.id
             /\ \A i, j \in 1 .. Len(todo') : todo'[i].id = todo'[j].id => i = j
    BY <1>1, NextCard
  <1> HIDE DEF e
  <1>4. /\ lines' \in Seq(Event \cup {Junk}) /\ tail' = Ended
        /\ cache' \in Seq(Event) \cup {Cold} /\ written' \in Seq(Event)
        /\ subs' \in [Subscribers -> Feed]
        /\ CacheTrue' /\ NothingTorn' /\ ViewsFolded' /\ FeedIsLoad'
    BY <1>1, <1>3, TakeKeeps
  <1>5. Chronology' /\ (disk # "cuts" => Stays(History, History'))
    <2>1. CASE disk = "cuts"
      BY <1>1, <2>1 DEF Chronology
    <2>2. CASE disk # "cuts"
      <3>1. writes' \in Nat /\ writes <= writes' /\ disk' = disk
        BY <1>1, <1>2
      <3> QED
        BY <1>1, <1>3, <2>2, <3>1, TakeOrder
    <2> QED
      BY <2>1, <2>2
  <1>6. LogTypeOK'
    BY <1>1, <1>2, <1>3, <1>4 DEF LogTypeOK
  <1>7. Settling'
    BY <1>1 DEF Settling
  <1> QED
    BY <1>4, <1>5, <1>6, <1>7 DEF LogInv, HistoryStep

(* settle goes on when an append fails.                                     *)
LEMMA ExpireFailsKeeps == LogInv /\ ExpireFails => LogInv' /\ HistoryStep
  <1> SUFFICES ASSUME LogInv, ExpireFails PROVE LogInv' /\ HistoryStep
    OBVIOUS
  <1> DEFINE e == Head(todo)
  <1>1. /\ phase = "settling" /\ todo # <<>> /\ Tear(e) /\ todo' = Tail(todo)
        /\ cache' = Cold /\ faults < MaxFaults /\ faults' = faults + 1
        /\ UNCHANGED <<phase, written, subs, writes, disk>>
    BY DEF ExpireFails, Fault
  <1>2. LogTypeOK /\ writes \in Nat /\ ViewsFolded /\ FeedIsLoad
    BY DEF LogInv, LogTypeOK
  <1>3. /\ e \in Event /\ todo' \in Seq(Event)
        /\ disk # "cuts" =>
             /\ Later(History, e) /\ e.n <= writes'
             /\ \A j \in 1 .. Len(todo') :
                  \E i \in 1 .. Len(todo) : todo'[j] = todo[i] /\ todo[i].id # e.id
             /\ \A i, j \in 1 .. Len(todo') : todo'[i].id = todo'[j].id => i = j
    BY <1>1, NextCard
  <1> HIDE DEF e
  <1>4. /\ lines' \in Seq(Event \cup {Junk}) /\ tail' \in Event \cup {Half, Ended}
        /\ CacheTrue' /\ NothingTorn' /\ lines' = lines
        /\ disk = "whole" => Answer' = Answer
    BY <1>1, <1>3, TearKeeps
  <1>5. Chronology'
    <2>1. CASE disk = "cuts"
      BY <1>1, <2>1 DEF Chronology
    <2>2. CASE disk # "cuts"
      <3>1. writes' \in Nat /\ writes <= writes' /\ disk' = disk /\ written' = written
        BY <1>1, <1>2
      <3> QED
        BY <1>1, <1>3, <2>2, <3>1, TearOrder
    <2> QED
      BY <2>1, <2>2
  <1>6. LogTypeOK'
    BY <1>1, <1>2, <1>3, <1>4, LogAssumption DEF LogTypeOK
  <1>7. Settling' /\ ViewsFolded' /\ FeedIsLoad'
    BY <1>1, <1>2, <1>4 DEF Settling, ViewsFolded, FeedIsLoad
  <1> QED
    BY <1>4, <1>5, <1>6, <1>7 DEF LogInv, HistoryStep

(* What a compaction writes: the events of the segment, each once.         *)
LEMMA Compacted ==
  ASSUME LogTypeOK
  PROVE  /\ Fold(Segment) \in Seq(Event) /\ Fold(Segment) \in Seq(Event \cup {Junk})
         /\ Fold(Older \o Fold(Segment)) = Fold(OnDisk)
  <1>1. Segment \in Seq(Line) /\ OnDisk = Older \o Segment
    BY DiskNow
  <1>2. Fold(Segment) \in Seq(Event)
    BY <1>1, FoldIs
  <1>3. Older \in Seq(Line)
    BY LogAssumption DEF Line
  <1>4. \A s \in Seq(Event) : s \in Seq(Event \cup {Junk})
    OBVIOUS
  <1>5. Fold(Older \o Fold(Segment)) = Fold(Older \o Segment)
    BY <1>1, <1>3, FoldOver
  <1> QED
    BY <1>1, <1>2, <1>4, <1>5

(* The whole segment is rewritten.                                         *)
LEMMA RewriteKeeps ==
  ASSUME LogInv, lines' = Fold(Segment), tail' = Ended, cache' = Cold,
         disk' = disk, writes' = writes, written' = written, todo' = <<>>
  PROVE  /\ lines' \in Seq(Event \cup {Junk})
         /\ CacheTrue' /\ NothingTorn' /\ Chronology'
         /\ Answer' = Answer
         /\ disk # "cuts" => Stays(History, History')
  <1>0. LogTypeOK /\ CacheTrue /\ NothingTorn /\ Chronology /\ writes \in Nat
    BY DEF LogInv, LogTypeOK
  <1>1. lines' \in Seq(Event \cup {Junk}) /\ History' = Fold(OnDisk)
    BY <1>0, Compacted DEF History
  <1>2. tail' \notin Event
    BY LineIs
  <1>3. Fold(OnDisk)' = History'
    <2>1. OnDisk' = Older \o Append(lines', Ended) /\ History' = Fold(Older \o lines')
      BY DEF OnDisk, Segment, History
    <2> QED
      BY <1>1, <2>1, DiskIs
  <1>4. CacheTrue' /\ Answer' = Answer
    <2>1. Answer' = Fold(OnDisk)'
      BY DEF Answer
    <2> QED
      BY <1>0, <1>1, <1>3, <2>1, AnswerIs DEF CacheTrue
  <1>5. NothingTorn'
    <2>1. disk = "whole" => tail = Ended /\ Fold(OnDisk) = History
      BY <1>0, DiskNow DEF NothingTorn
    <2> QED
      BY <1>0, <1>1, <2>1 DEF NothingTorn
  <1>6. ASSUME disk # "cuts"
        PROVE  /\ Stays(History, History')
               /\ \A k \in 1 .. Len(History') : History'[k].n <= writes
    <2>1. /\ History \in Seq(Event)
          /\ \A k \in 1 .. Len(History) : History[k].n <= writes
      BY <1>0, <1>6, DiskNow DEF Chronology
    <2>2. CASE tail \notin Event
      <3>1. History' = History
        BY <1>0, <1>1, <2>2, DiskNow DEF LogTypeOK
      <3> QED
        BY <2>1, <3>1, StaysSame
    <2>3. CASE tail \in Event
      <3>1. History' = Supersede(History, tail)
        BY <1>0, <1>1, <2>3, DiskNow
      <3>2. tail.n <= writes /\ Later(History, tail)
        BY <1>0, <1>6, <2>3 DEF Chronology
      <3> QED
        BY <1>0, <2>1, <2>3, <3>1, <3>2, SupersedeStays
    <2> QED
      BY <2>2, <2>3
  <1>7. Chronology'
    BY <1>2, <1>6 DEF Chronology
  <1> QED
    BY <1>1, <1>4, <1>5, <1>6, <1>7

(* A compaction, of a file that is its own fold and of any other.           *)
LEMMA CompactKeeps == LogInv /\ Compact => LogInv' /\ HistoryStep
  <1> SUFFICES ASSUME LogInv, Compact PROVE LogInv' /\ HistoryStep
    OBVIOUS
  <1>1. /\ todo = <<>> /\ phase' = "on"
        /\ UNCHANGED <<todo, written, subs, writes, faults, disk>>
        /\ \/ UNCHANGED <<lines, tail, cache>>
           \/ lines' = Fold(Segment) /\ tail' = Ended /\ cache' = Cold
    BY DEF Compact
  <1>2. LogTypeOK /\ ViewsFolded /\ FeedIsLoad /\ Chronology
    BY DEF LogInv
  <1>3. /\ lines' \in Seq(Event \cup {Junk}) /\ tail' \in Event \cup {Half, Ended}
        /\ cache' \in Seq(Event) \cup {Cold}
        /\ CacheTrue' /\ NothingTorn' /\ Chronology' /\ Answer' = Answer
        /\ HistoryStep
    <2>1. CASE UNCHANGED <<lines, tail, cache>>
      <3>1. /\ lines' \in Seq(Event \cup {Junk}) /\ tail' \in Event \cup {Half, Ended}
            /\ cache' \in Seq(Event) \cup {Cold}
            /\ CacheTrue' /\ NothingTorn' /\ Answer' = Answer
        BY <1>1, <2>1, FileStill
      <3>2. Chronology'
        BY <1>1, <1>2, <2>1, OrderStill
      <3> QED
        BY <2>1, <3>1, <3>2 DEF HistoryStep
    <2>2. CASE lines' = Fold(Segment) /\ tail' = Ended /\ cache' = Cold
      <3>1. /\ lines' \in Seq(Event \cup {Junk})
            /\ CacheTrue' /\ NothingTorn' /\ Chronology' /\ Answer' = Answer
            /\ disk # "cuts" => Stays(History, History')
        BY <1>1, <2>2, RewriteKeeps
      <3> QED
        BY <2>2, <3>1 DEF HistoryStep
    <2> QED
      BY <1>1, <2>1, <2>2
  <1>4. LogTypeOK'
    BY <1>1, <1>2, <1>3 DEF LogTypeOK
  <1>5. Settling' /\ ViewsFolded' /\ FeedIsLoad'
    BY <1>1, <1>2, <1>3 DEF Settling, ViewsFolded, FeedIsLoad
  <1> QED
    BY <1>3, <1>4, <1>5 DEF LogInv

(* A compaction that is cut: there, only what is in memory is promised.     *)
LEMMA CutCompactKeeps == LogInv /\ CutCompact => LogInv' /\ HistoryStep
  <1> SUFFICES ASSUME LogInv, CutCompact PROVE LogInv' /\ HistoryStep
    OBVIOUS
  <1>1. /\ todo = <<>> /\ disk = "cuts" /\ tail' \in {Ended, Half} /\ cache' = Cold
        /\ phase' \in {"on", "off"} /\ faults < MaxFaults /\ faults' = faults + 1
        /\ UNCHANGED <<todo, written, subs, writes, disk>>
    BY DEF CutCompact, Fault
  <1>2. LogTypeOK /\ ViewsFolded /\ Fold(Segment) \in Seq(Event \cup {Junk})
    BY Compacted DEF LogInv
  <1>3. lines' \in Seq(Event \cup {Junk})
    <2>1. PICK k \in 0 .. (Len(Fold(Segment)) - 1) : lines' = SubSeq(Fold(Segment), 1, k)
      BY DEF CutCompact
    <2> DEFINE v == Fold(Segment)
    <2>2. v \in Seq(Event \cup {Junk}) /\ k \in 0 .. (Len(v) - 1) /\ lines' = SubSeq(v, 1, k)
      BY <1>2, <2>1
    <2> HIDE DEF v
    <2>3. k \in Nat /\ k <= Len(v) /\ Len(v) \in Nat
          /\ \A i \in 1 .. Len(v) : v[i] \in Event \cup {Junk}
      BY <2>2
    <2>4. SubSeq(v, 1, k) \in Seq(Event \cup {Junk})
      BY <2>2, <2>3
    <2> QED
      BY <2>2, <2>4
  <1>4. LogTypeOK'
    BY <1>1, <1>2, <1>3, LogAssumption DEF LogTypeOK
  <1>5. CacheTrue' /\ NothingTorn' /\ FeedIsLoad' /\ Chronology' /\ HistoryStep
    BY <1>1 DEF CacheTrue, NothingTorn, FeedIsLoad, Chronology, HistoryStep
  <1>6. Settling' /\ ViewsFolded'
    BY <1>1, <1>2 DEF Settling, ViewsFolded
  <1> QED
    BY <1>4, <1>5, <1>6 DEF LogInv

(* The process ends between two steps or in an append of either phase.      *)
LEMMA ExitKeeps == LogInv /\ Exit => LogInv' /\ HistoryStep
  <1> SUFFICES ASSUME LogInv, Exit PROVE LogInv' /\ HistoryStep
    OBVIOUS
  <1>1. /\ phase' = "off" /\ cache' = Cold /\ todo' = <<>>
        /\ faults < MaxFaults /\ faults' = faults + 1
        /\ subs' = [s \in Subscribers |-> NoFeed]
        /\ UNCHANGED <<written, disk>>
        /\ \/ UNCHANGED <<lines, tail, writes>>
           \/ /\ writes < MaxWrites
              /\ \E e \in Asked : Tear(e)
              /\ writes' = writes + 1
           \/ /\ todo # <<>>
              /\ Tear(Head(todo))
              /\ UNCHANGED writes
    BY DEF Exit, Fault
  <1>2. LogTypeOK /\ Chronology /\ writes \in Nat
    BY DEF LogInv, LogTypeOK
  <1>3. /\ subs' \in [Subscribers -> Feed] /\ ViewsFolded' /\ FeedIsLoad'
    <2>1. NoFeed \in Feed /\ NoFeed.view = <<>> /\ NoFeed.on = FALSE
      BY DEF NoFeed, Feed
    <2>2. \A s \in Subscribers : subs'[s] = NoFeed
      BY <1>1
    <2>3. subs' \in [Subscribers -> Feed]
      BY <1>1, <2>1
    <2> QED
      BY <2>1, <2>2, <2>3, FoldNothing DEF ViewsFolded, FeedIsLoad
  <1>4. Settling' /\ todo' \in Seq(Event) /\ faults' \in 0 .. MaxFaults
        /\ \A j \in 1 .. Len(todo') : FALSE
    BY <1>1, <1>2, LogAssumption DEF Settling, LogTypeOK
  <1>5. /\ lines' \in Seq(Event \cup {Junk}) /\ tail' \in Event \cup {Half, Ended}
        /\ CacheTrue' /\ NothingTorn' /\ Chronology' /\ lines' = lines
        /\ writes' \in 0 .. MaxWrites
    <2>1. CASE UNCHANGED <<lines, tail, writes>>
      <3>1. /\ lines' \in Seq(Event \cup {Junk}) /\ tail' \in Event \cup {Half, Ended}
            /\ CacheTrue' /\ NothingTorn'
        BY <1>1, <2>1, FileStill
      <3>2. Chronology'
        BY <1>1, <1>2, <2>1, OrderStill
      <3> QED
        BY <1>2, <2>1, <3>1, <3>2 DEF LogTypeOK
    <2>2. CASE /\ writes < MaxWrites
               /\ \E e \in Asked : Tear(e)
               /\ writes' = writes + 1
      <3>1. PICK e \in Asked : Tear(e)
        BY <2>2
      <3>2. e \in Event /\ e.n <= writes' /\ writes' \in Nat /\ writes <= writes'
            /\ (disk # "cuts" => Later(History, e))
        BY <2>2, AskedIs
      <3>3. /\ lines' \in Seq(Event \cup {Junk}) /\ tail' \in Event \cup {Half, Ended}
            /\ CacheTrue' /\ NothingTorn' /\ lines' = lines
        BY <1>1, <3>1, <3>2, TearKeeps
      <3>4. Chronology'
        BY <1>1, <1>4, <3>1, <3>2, TearOrder
      <3> QED
        BY <1>2, <2>2, <3>3, <3>4, LogAssumption DEF LogTypeOK
    <2>3. CASE todo # <<>> /\ Tear(Head(todo)) /\ UNCHANGED writes
      <3> DEFINE e == Head(todo)
      <3>1. /\ e \in Event /\ Tear(e)
            /\ disk # "cuts" => Later(History, e) /\ e.n <= writes'
        BY <2>3, NextCard
      <3> HIDE DEF e
      <3>2. /\ lines' \in Seq(Event \cup {Junk}) /\ tail' \in Event \cup {Half, Ended}
            /\ CacheTrue' /\ NothingTorn' /\ lines' = lines
        BY <1>1, <3>1, TearKeeps
      <3>3. Chronology'
        <4>1. CASE disk = "cuts"
          BY <1>1, <4>1 DEF Chronology
        <4>2. CASE disk # "cuts"
          <5>1. writes' \in Nat /\ writes <= writes'
            BY <1>2, <2>3
          <5> QED
            BY <1>1, <1>4, <3>1, <4>2, <5>1, TearOrder
        <4> QED
          BY <4>1, <4>2
      <3> QED
        BY <1>2, <2>3, <3>2, <3>3 DEF LogTypeOK
    <2> QED
      BY <1>1, <2>1, <2>2, <2>3
  <1>6. LogTypeOK'
    BY <1>1, <1>2, <1>3, <1>4, <1>5 DEF LogTypeOK
  <1> QED
    BY <1>3, <1>4, <1>5, <1>6 DEF LogInv, HistoryStep

(* No step.                                                                 *)
LEMMA LogStutters == LogInv /\ UNCHANGED logVars => LogInv' /\ HistoryStep
  <1> SUFFICES ASSUME LogInv, UNCHANGED logVars PROVE LogInv' /\ HistoryStep
    OBVIOUS
  <1>1. UNCHANGED <<lines, tail, cache, phase, todo, written, disk, subs, writes, faults>>
    BY DEF logVars
  <1>2. /\ CacheTrue' /\ NothingTorn' /\ Answer' = Answer
    BY <1>1, FileStill
  <1>3. Chronology'
    BY <1>1, OrderStill DEF LogInv
  <1>4. LogTypeOK'
    BY <1>1 DEF LogInv, LogTypeOK
  <1>5. Settling' /\ ViewsFolded' /\ FeedIsLoad'
    BY <1>1, <1>2 DEF LogInv, Settling, ViewsFolded, FeedIsLoad
  <1> QED
    BY <1>1, <1>2, <1>3, <1>4, <1>5 DEF LogInv, HistoryStep

(* Every step of the log.                                                   *)
LEMMA LogNextKeeps == LogInv /\ [LogNext]_logVars => LogInv' /\ HistoryStep
  <1> SUFFICES ASSUME LogInv, [LogNext]_logVars PROVE LogInv' /\ HistoryStep
    OBVIOUS
  <1>1. CASE Write \/ WriteFails
    BY <1>1, WriteKeeps, WriteFailsKeeps
  <1>2. CASE Load \/ Evict
    BY <1>2, LoadKeeps
  <1>3. ASSUME NEW s \in Subscribers,
               \/ Subscribe(s) \/ Unsubscribe(s)
               \/ Receive(s) \/ Shed(s) \/ CatchUp(s)
        PROVE  LogInv' /\ HistoryStep
    BY <1>3, SubscribeKeeps, UnsubscribeKeeps, ReceiveKeeps, ShedKeeps
  <1>4. CASE Settle
    BY <1>4, SettleKeeps
  <1>5. CASE Expire \/ ExpireFails
    BY <1>5, ExpireKeeps, ExpireFailsKeeps
  <1>6. CASE Compact \/ CutCompact
    BY <1>6, CompactKeeps, CutCompactKeeps
  <1>7. CASE Exit
    BY <1>7, ExitKeeps
  <1>8. CASE UNCHANGED logVars
    BY <1>8, LogStutters
  <1> QED
    BY <1>1, <1>2, <1>3, <1>4, <1>5, <1>6, <1>7, <1>8 DEF LogNext

(* The invariant, and with it the theorems.                                 *)
LEMMA LogInvHolds == LogSpec => []LogInv
  <1>1. LogInv /\ [LogNext]_logVars => LogInv'
    BY LogNextKeeps
  <1> QED
    BY InitInv, <1>1, PTL DEF LogSpec

(* What a load answers is what is on the disk and, where no append was     *)
(* torn, what append answered Ok for, whatever the steps of append, load,  *)
(* eviction, settle, compact and restart before it (with_fold_in).         *)
THEOREM FoldIsTrueHolds == LogSpec => []FoldIsTrue
  <1>1. LogInv => FoldIsTrue
    <2> SUFFICES ASSUME LogInv PROVE FoldIsTrue
      OBVIOUS
    <2>1. LogTypeOK /\ CacheTrue /\ NothingTorn
      BY DEF LogInv
    <2>2. Answer = Fold(OnDisk) /\ (tail = Ended => Answer = History)
      BY <2>1, AnswerIs
    <2> QED
      BY <2>1, <2>2 DEF FoldIsTrue, CacheIsFold, LoadIsWritten, CacheTrue, NothingTorn
  <1> QED
    BY LogInvHolds, <1>1, PTL

(* A subscription that has missed nothing is sent, with what waits for it, *)
(* what a load answers, in its order: of everything on the desk's own      *)
(* windows, of all but the tools an event was shed of on a phone           *)
(* (snapshot_with, publish, stream_events, send_droppable).                *)
THEOREM FeedIsLoadHolds == LogSpec => []FeedIsLoad
  <1>1. LogInv => FeedIsLoad
    BY DEF LogInv
  <1> QED
    BY LogInvHolds, <1>1, PTL

(* What a line holds once it is ended stays, as it is or as written since, *)
(* through torn appends, restarts and compactions that run to their end.   *)
THEOREM HistoryStaysHolds == LogSpec => HistoryStays
  <1>1. LogInv /\ [LogNext]_logVars =>
          [lines' # lines /\ disk # "cuts" =>
             /\ Len(History) <= Len(History')
             /\ \A k \in DOMAIN History : /\ History[k].id = History'[k].id
                                          /\ History[k].n <= History'[k].n]_logVars
    BY LogNextKeeps DEF HistoryStep, Stays
  <1> QED
    BY LogInvHolds, <1>1, PTL DEF LogSpec, HistoryStays
=============================================================================
