---------------------------- MODULE RemoteProofs ----------------------------
(***************************************************************************)
(* The ways into a desk, for any sockets, addresses, devices, requests and *)
(* bounds.  Of two linked desks (LinkedDesks), first: that a request's     *)
(* work begins once and its note is kept once, that the two stores agree   *)
(* on how it ended, and that a link made anew starts no work of the one    *)
(* before.  Of the pool and the relay hub, in the whole of ServedDesk:     *)
(* that one put out takes no seat, who waits, who stands in, and who is    *)
(* joined with whom, and that nothing grows past its limit.                *)
(*                                                                         *)
(* The first have one invariant, LinksInv, shown in two layers.  What a    *)
(* step does to the channels is told by Crosses(puts, says, asks): which   *)
(* commands, answers and awaited requests are there that were not.  What   *)
(* it does to the records is told by Follows.  Mixed then shows, once for  *)
(* all steps, that what is to be read stays true of the records.           *)
(*                                                                         *)
(* The others have parts that are inductive apart: PoolInv is about the    *)
(* permits, HubInv about the hub and where the sockets' tasks are, and     *)
(* BoundInv, beside them, about how many there are of each.                *)
(***************************************************************************)
EXTENDS ServedDesk, LinkedDesks, FiniteSetTheorems, FunctionTheorems, TLAPS

Commands == {"request", "note", "result", "stop"}
(* A frame as the channels carry it, and whether somebody waits for what it*)
(* leads to.                                                               *)
FrameSet == [is : Commands \cup Answers \cup {"roster", "unlink"},
             of : Requests \cup {Nothing}, awaited : BOOLEAN]

(* The types of what the desks read, and of their calls.                   *)
Channels(l, w, u, c) ==
  /\ l \in [Desks -> BOOLEAN]
  /\ w \in [Desks -> Seq(FrameSet)] /\ u \in [Desks -> Seq(FrameSet)]
  /\ c \in [Desks -> PendingCalls \cup {Nothing}]

(* The i-th frame of s is of one of these kinds, and awaited.              *)
Awaits(s, i, kinds) == /\ i \in 1 .. Len(s)
                       /\ s[i].awaited = TRUE /\ s[i].is \in kinds

(* What is awaited over a desk's channels is what its call waits for: its  *)
(* command on the way out, or one answer on the way in.                    *)
Fits(up, in, out, old, c) ==
  /\ up => \A i \in Nat : Awaits(out, i, Commands) =>
       /\ c # Nothing /\ c.old = FALSE /\ c.answer = "none"
       /\ c.f.is = out[i].is /\ c.f.of = out[i].of
  /\ up => \A i, j \in Nat : Awaits(out, i, Commands)
                               /\ Awaits(out, j, Commands) => i = j
  /\ up => \A i, j \in Nat : ~(Awaits(out, i, Commands)
                                 /\ Awaits(in, j, Answers))
  /\ \A i \in Nat : Awaits(in, i, Answers) =>
       c # Nothing /\ c.old = FALSE /\ c.answer = "none" /\ c.f.of = in[i].of
  /\ \A i, j \in Nat : Awaits(in, i, Answers) /\ Awaits(in, j, Answers) => i = j
  /\ \A i \in Nat : Awaits(old, i, Answers) =>
       c # Nothing /\ c.old = TRUE /\ c.answer = "none" /\ c.f.of = old[i].of
  /\ \A i, j \in Nat : Awaits(old, i, Answers) /\ Awaits(old, j, Answers) => i = j

(* Every call fits what is to be read.                                     *)
FitsAll(l, w, u, c) ==
  \A d \in Desks : Fits(l[d], w[d], w[Other(d)], u[d], c[d])

(* A frame is to be read at d.                                             *)
On(w, u, d, is, of) ==
  \/ \E i \in 1 .. Len(w[d]) : w[d][i].is = is /\ w[d][i].of = of
  \/ \E i \in 1 .. Len(u[d]) : u[d][i].is = is /\ u[d][i].of = of

(* The call of d has answer a, or that is on its way.                      *)
Says(w, u, c, d, is, of, a) ==
  /\ c[d] # Nothing /\ c[d].f.is = is /\ c[d].f.of = of
  /\ \/ c[d].answer = a
     \/ \E i \in Nat : Awaits(w[d], i, {a}) \/ Awaits(u[d], i, {a})

(* The i-th frame on its way to the answerer's desk is a request the       *)
(* asker's waits for; and what that desk learns before it comes to it.     *)
Asks(l, w, i, r) == /\ l[Asker] = TRUE
                    /\ Awaits(w[Answerer], i, {"request"})
                    /\ w[Answerer][i].of = r
Before(w, u, c, i, r) ==
  /\ c[Answerer] # Nothing
  /\ c[Answerer].f.of = r /\ c[Answerer].f.is \in {"result", "stop"}
  /\ \/ c[Answerer].answer \in Answers
     \/ \E j \in Nat : j < i /\ Awaits(w[Answerer], j, Answers)
     \/ \E j \in Nat : Awaits(u[Answerer], j, Answers)

(* What a step adds to what is to be read, answered and asked.             *)
Carries(l, w, u, c, l2, w2, u2, c2, puts, says, asks) ==
  /\ FitsAll(l2, w2, u2, c2)
  /\ \A d \in Desks, is \in Commands, r \in Requests :
       On(w2, u2, d, is, r) => On(w, u, d, is, r) \/ <<d, is, r>> \in puts
  /\ \A d \in Desks, is \in Commands, r \in Requests, a \in Answers :
       Says(w2, u2, c2, d, is, r, a) =>
         Says(w, u, c, d, is, r, a) \/ <<d, is, r, a>> \in says
  /\ \A i \in Nat, r \in Requests :
       Asks(l2, w2, i, r) =>
         \/ r \in asks
         \/ \E j \in Nat : /\ Asks(l, w, j, r)
                           /\ Before(w2, u2, c2, i, r) => Before(w, u, c, j, r)

(* What is in t was in s, so much further on, or is said to nobody.        *)
Thins(t, s, k) ==
  \A i \in 1 .. Len(t) :
    \/ t[i] = Goodbye
    \/ /\ i + k \in 1 .. Len(s)
       /\ t[i].is = s[i + k].is /\ t[i].of = s[i + k].of
       /\ t[i].awaited = TRUE => s[i + k].awaited = TRUE

(* Nothing is awaited by d.                                                *)
Quiet(l, w, u, d) ==
  \A i \in Nat : /\ ~Awaits(w[d], i, Answers) /\ ~Awaits(u[d], i, Answers)
                 /\ l[d] => ~Awaits(w[Other(d)], i, Commands)
Thinner(l, w, u, c, l2, w2, u2, c2) ==
  \A d \in Desks :
    /\ l2[d] => l[d]
    /\ \E k \in Nat : Thins(w2[d], w[d], k)
    /\ \E k \in Nat : Thins(u2[d], u[d], k)
    /\ \/ c2[d] = c[d]
       \/ Quiet(l2, w2, u2, d) /\ (c2[d] = Nothing \/ c2[d].answer \notin Answers)

(* There are two desks, and each is the other's other.                     *)
LEMMA TheDesks ==
  /\ Desks = {Asker, Answerer} /\ Asker # Answerer
  /\ Other(Asker) = Answerer /\ Other(Answerer) = Asker
  /\ \A d \in Desks : Other(d) \in Desks /\ Other(d) # d /\ Other(Other(d)) = d
  <1>1. Desks = {Asker, Answerer} /\ Asker # Answerer
    BY AskerAssumption
  <1>2. Other(Asker) = Answerer
    BY <1>1 DEF Other
  <1>3. Other(Answerer) = Asker
    BY <1>1 DEF Other
  <1> QED
    BY <1>1, <1>2, <1>3

(* What a non-empty sequence is without its head.                          *)
LEMMA TailSays ==
  ASSUME NEW S, NEW s \in Seq(S), s # <<>>
  PROVE  /\ Len(s) \in Nat /\ Len(s) > 0 /\ Len(Tail(s)) = Len(s) - 1
         /\ \A i \in 1 .. Len(s) - 1 : Tail(s)[i] = s[i + 1]
         /\ Head(s) = s[1] /\ Head(s) \in S /\ Tail(s) \in Seq(S)
  OBVIOUS

(* What a sequence is with one more at its end.                            *)
LEMMA PutSays ==
  ASSUME NEW S, NEW s \in Seq(S), NEW f \in S
  PROVE  /\ Len(s) \in Nat /\ Len(Append(s, f)) = Len(s) + 1
         /\ \A i \in 1 .. Len(s) : Append(s, f)[i] = s[i]
         /\ Append(s, f)[Len(s) + 1] = f /\ Append(s, f) \in Seq(S)
  OBVIOUS

(* What is awaited in a tail was awaited one place further on.             *)
LEMMA TailAwaits ==
  ASSUME NEW S, NEW s \in Seq(S), s # <<>>
  PROVE  /\ \A i \in 1 .. Len(Tail(s)) : i + 1 \in 1 .. Len(s) /\ Tail(s)[i] = s[i + 1]
         /\ \A kinds : \A i \in Nat : Awaits(Tail(s), i, kinds) =>
              /\ i > 0 /\ i + 1 \in Nat /\ Awaits(s, i + 1, kinds)
              /\ Tail(s)[i] = s[i + 1]
  <1>1. \A i \in 1 .. Len(Tail(s)) : i + 1 \in 1 .. Len(s) /\ Tail(s)[i] = s[i + 1]
    BY TailSays
  <1> QED
    BY <1>1 DEF Awaits

(* What is awaited once a frame is put was awaited, or is that frame.      *)
LEMMA PutAwaits ==
  ASSUME NEW S, NEW s \in Seq(S), NEW f \in S
  PROVE  /\ \A i \in 1 .. Len(Append(s, f)) :
              \/ i \in 1 .. Len(s) /\ Append(s, f)[i] = s[i]
              \/ Append(s, f)[i] = f
         /\ \A kinds : \A i \in Nat : Awaits(Append(s, f), i, kinds) =>
              \/ i <= Len(s) /\ Awaits(s, i, kinds) /\ Append(s, f)[i] = s[i]
              \/ /\ i = Len(s) + 1 /\ Append(s, f)[i] = f
                 /\ f.awaited = TRUE /\ f.is \in kinds
  <1>1. \A i \in 1 .. Len(Append(s, f)) :
          \/ i \in 1 .. Len(s) /\ i <= Len(s) /\ Append(s, f)[i] = s[i]
          \/ i = Len(s) + 1 /\ Append(s, f)[i] = f
    BY PutSays
  <1> QED
    BY <1>1 DEF Awaits

(* A tail is its sequence, one place further on.                           *)
LEMMA ThinsTail ==
  ASSUME NEW S, NEW s \in Seq(S), s # <<>>
  PROVE  Thins(Tail(s), s, 1)
  BY TailSays DEF Thins

(* A sequence thins itself, and nothing thins anything.                    *)
LEMMA ThinsSame ==
  ASSUME NEW S, NEW s \in Seq(S)
  PROVE  Thins(s, s, 0) /\ Thins(<<>>, s, 0)
  BY DEF Thins

(* A goodbye put at the end is awaited by nobody.                          *)
LEMMA ThinsGoodbye ==
  ASSUME NEW S, NEW s \in Seq(S), Goodbye \in S
  PROVE  Thins(Append(s, Goodbye), s, 0)
  BY PutSays DEF Thins

(* Once the call gave up, no frame of those kinds is awaited.              *)
LEMMA ThinsUnawaited ==
  ASSUME NEW s \in Seq(FrameSet), NEW kinds
  PROVE  /\ Thins(Unawaited(s, kinds), s, 0)
         /\ Unawaited(s, kinds) \in Seq(FrameSet)
         /\ \A i \in Nat : ~Awaits(Unawaited(s, kinds), i, kinds)
  <1> DEFINE t == Unawaited(s, kinds)
  <1>1. \A i \in 1 .. Len(s) :
          /\ s[i] \in FrameSet
          /\ t[i] = [s[i] EXCEPT !.awaited = s[i].awaited /\ s[i].is \notin kinds]
    BY DEF Unawaited
  <1>2. \A i \in 1 .. Len(s) :
          /\ t[i] \in FrameSet /\ t[i].is = s[i].is /\ t[i].of = s[i].of
          /\ t[i].awaited = (s[i].awaited /\ s[i].is \notin kinds)
    BY <1>1, Zenon DEF FrameSet
  <1>3. t = [i \in 1 .. Len(s) |-> t[i]] /\ Len(s) \in Nat
    BY DEF Unawaited
  <1>4. t \in Seq(FrameSet) /\ Len(t) = Len(s)
    BY <1>2, <1>3
  <1> HIDE DEF t
  <1>5. \A i \in 1 .. Len(s) : s[i].awaited \in BOOLEAN /\ t[i].awaited \in BOOLEAN
    BY <1>1, <1>2 DEF FrameSet
  <1>6. \A i \in 1 .. Len(s) :
          t[i].awaited = TRUE => s[i].awaited = TRUE /\ s[i].is \notin kinds
    BY <1>2, <1>5
  <1> QED
    BY <1>2, <1>3, <1>4, <1>6 DEF t, Thins, Awaits

(* What a task of an ended channel still reads is of that channel.         *)
LEMMA ThinsPrefix ==
  ASSUME NEW S, NEW s \in Seq(S), NEW k \in 0 .. Len(s)
  PROVE  Thins(SubSeq(s, 1, k), s, 0) /\ SubSeq(s, 1, k) \in Seq(S)
  BY DEF Thins

(* A refused goodbye leaves the frames behind it.                          *)
LEMMA ThinsRefusing ==
  ASSUME NEW S, NEW s \in Seq(S)
  PROVE  Refusing(s) \in Seq(S) /\ \E k \in Nat : Thins(Refusing(s), s, k)
  <1>1. CASE s # <<>> /\ Head(s) = Goodbye
    BY <1>1, TailSays, ThinsTail DEF Refusing
  <1>2. CASE ~(s # <<>> /\ Head(s) = Goodbye)
    BY <1>2, ThinsSame DEF Refusing
  <1> QED
    BY <1>1, <1>2

(* What is awaited in t was awaited in s, of the same request.             *)
LEMMA ThinsAwaits ==
  ASSUME NEW t, NEW s, NEW k \in Nat, Thins(t, s, k)
  PROVE  \A i \in Nat, kinds \in {Answers, Commands, {"ok"}, {"refused"}, {"request"}} :
           Awaits(t, i, kinds) =>
             /\ i + k \in Nat /\ Awaits(s, i + k, kinds)
             /\ t[i].is = s[i + k].is /\ t[i].of = s[i + k].of
  <1>1. Goodbye.awaited = FALSE
    BY DEF Goodbye
  <1> QED
    BY <1>1 DEF Thins, Awaits

(* What is awaited in t is awaited in s, so much further on.               *)
Fewer(t, s, kinds, k) ==
  \A i \in Nat : Awaits(t, i, kinds) =>
    /\ i + k \in Nat /\ Awaits(s, i + k, kinds)
    /\ t[i].is = s[i + k].is /\ t[i].of = s[i + k].of

(* What fits a call fits it when less is awaited.                          *)
LEMMA FitsFewer ==
  ASSUME NEW up, NEW in, NEW out, NEW old, NEW c, Fits(up, in, out, old, c),
         NEW up2, NEW in2, NEW out2, NEW old2, up2 => up,
         \E k \in Nat : Fewer(in2, in, Answers, k),
         \E k \in Nat : Fewer(out2, out, Commands, k),
         \E k \in Nat : Fewer(old2, old, Answers, k)
  PROVE  Fits(up2, in2, out2, old2, c)
  <1>1. PICK k \in Nat : Fewer(in2, in, Answers, k)
    OBVIOUS
  <1>2. PICK n \in Nat : Fewer(out2, out, Commands, n)
    OBVIOUS
  <1>3. PICK m \in Nat : Fewer(old2, old, Answers, m)
    OBVIOUS
  <1> QED
    BY <1>1, <1>2, <1>3 DEF Fits, Fewer

(* As much is awaited where nothing changed,                               *)
LEMMA FewerSame ==
  ASSUME NEW S, NEW s \in Seq(S), NEW kinds
  PROVE  \E k \in Nat : Fewer(s, s, kinds, k)
  <1>1. Fewer(s, s, kinds, 0)
    BY DEF Fewer, Awaits
  <1> QED
    BY <1>1

(* or where a frame of another kind was put,                               *)
LEMMA FewerPut ==
  ASSUME NEW S, NEW s \in Seq(S), NEW f \in S, NEW kinds, f.is \notin kinds
  PROVE  \E k \in Nat : Fewer(Append(s, f), s, kinds, k)
  <1>1. Fewer(Append(s, f), s, kinds, 0)
    BY PutSays DEF Fewer, Awaits
  <1> QED
    BY <1>1

(* or once the head was read,                                              *)
LEMMA FewerTail ==
  ASSUME NEW S, NEW s \in Seq(S), s # <<>>, NEW kinds
  PROVE  \E k \in Nat : Fewer(Tail(s), s, kinds, k)
  <1>1. Fewer(Tail(s), s, kinds, 1)
    BY TailSays DEF Fewer, Awaits
  <1> QED
    BY <1>1

(* or where only what nobody awaits came.                                  *)
LEMMA FewerThins ==
  ASSUME NEW t, NEW s, \E k \in Nat : Thins(t, s, k)
  PROVE  /\ \E k \in Nat : Fewer(t, s, Answers, k)
         /\ \E k \in Nat : Fewer(t, s, Commands, k)
  <1>1. PICK k \in Nat : Thins(t, s, k)
    OBVIOUS
  <1>2. Fewer(t, s, Answers, k) /\ Fewer(t, s, Commands, k)
    BY <1>1, ThinsAwaits DEF Fewer
  <1> QED
    BY <1>2

(* So what fits a call still does when its channels are thinned.           *)
LEMMA FitsThinner ==
  ASSUME NEW up, NEW in, NEW out, NEW old, NEW c, Fits(up, in, out, old, c),
         NEW up2, NEW in2, NEW out2, NEW old2, up2 => up,
         \E k \in Nat : Thins(in2, in, k), \E k \in Nat : Thins(out2, out, k),
         \E k \in Nat : Thins(old2, old, k)
  PROVE  Fits(up2, in2, out2, old2, c)
  <1>1. \E k \in Nat : Fewer(in2, in, Answers, k)
    BY FewerThins
  <1>2. \E k \in Nat : Fewer(out2, out, Commands, k)
    BY FewerThins
  <1>3. \E k \in Nat : Fewer(old2, old, Answers, k)
    BY FewerThins
  <1> QED
    BY <1>1, <1>2, <1>3, FitsFewer

(* Nothing is awaited: any call fits.                                      *)
LEMMA FitsQuiet ==
  ASSUME NEW l, NEW w, NEW u, NEW d, NEW c, Quiet(l, w, u, d)
  PROVE  Fits(l[d], w[d], w[Other(d)], u[d], c)
  BY DEF Fits, Quiet

(* A step that only thins the channels adds nothing to what is to be read, *)
(* answered or asked.                                                      *)
LEMMA ThinnerCarries ==
  ASSUME NEW l, NEW w, NEW u, NEW c, NEW l2, NEW w2, NEW u2, NEW c2,
         FitsAll(l, w, u, c), Thinner(l, w, u, c, l2, w2, u2, c2)
  PROVE  Carries(l, w, u, c, l2, w2, u2, c2, {}, {}, {})
  <1>1. FitsAll(l2, w2, u2, c2)
    <2> SUFFICES ASSUME NEW d \in Desks
                 PROVE  Fits(l2[d], w2[d], w2[Other(d)], u2[d], c2[d])
      BY DEF FitsAll
    <2>1. CASE c2[d] = c[d]
      BY <2>1, TheDesks, FitsThinner DEF FitsAll, Thinner
    <2>2. CASE Quiet(l2, w2, u2, d)
      BY <2>2, FitsQuiet
    <2> QED
      BY <2>1, <2>2 DEF Thinner
  <1>2. ASSUME NEW d \in Desks, NEW is \in Commands, NEW r \in Requests,
               On(w2, u2, d, is, r)
        PROVE  On(w, u, d, is, r)
    <2>1. PICK k \in Nat : Thins(w2[d], w[d], k)
      BY DEF Thinner
    <2>2. PICK m \in Nat : Thins(u2[d], u[d], m)
      BY DEF Thinner
    <2>3. Goodbye.is \notin Commands
      BY DEF Goodbye, Commands
    <2>4. CASE \E i \in 1 .. Len(w2[d]) : w2[d][i].is = is /\ w2[d][i].of = r
      BY <2>1, <2>3, <2>4 DEF Thins, On
    <2>5. CASE \E i \in 1 .. Len(u2[d]) : u2[d][i].is = is /\ u2[d][i].of = r
      BY <2>2, <2>3, <2>5 DEF Thins, On
    <2> QED
      BY <1>2, <2>4, <2>5 DEF On
  <1>3. ASSUME NEW d \in Desks, NEW is \in Commands, NEW r \in Requests,
               NEW a \in Answers, Says(w2, u2, c2, d, is, r, a)
        PROVE  Says(w, u, c, d, is, r, a)
    <2>1. PICK k \in Nat : Thins(w2[d], w[d], k)
      BY DEF Thinner
    <2>2. PICK m \in Nat : Thins(u2[d], u[d], m)
      BY DEF Thinner
    <2>3. a = "ok" \/ a = "refused"
      BY DEF Answers
    <2>6. \A i \in Nat : Awaits(w2[d], i, {a}) =>
            i + k \in Nat /\ Awaits(w[d], i + k, {a})
      BY <2>1, <2>3, ThinsAwaits
    <2>7. \A i \in Nat : Awaits(u2[d], i, {a}) =>
            i + m \in Nat /\ Awaits(u[d], i + m, {a})
      BY <2>2, <2>3, ThinsAwaits
    <2>4. CASE c2[d] = c[d]
      <3>1. CASE c2[d].answer = a
        BY <1>3, <2>4, <3>1 DEF Says
      <3>2. CASE \E i \in Nat : Awaits(w2[d], i, {a})
        BY <1>3, <2>4, <2>6, <3>2 DEF Says
      <3>3. CASE \E i \in Nat : Awaits(u2[d], i, {a})
        BY <1>3, <2>4, <2>7, <3>3 DEF Says
      <3> QED
        BY <1>3, <3>1, <3>2, <3>3 DEF Says
    <2>5. CASE Quiet(l2, w2, u2, d) /\ (c2[d] = Nothing \/ c2[d].answer \notin Answers)
      <3>1. \A i \in Nat : ~Awaits(w2[d], i, {a}) /\ ~Awaits(u2[d], i, {a})
        BY <2>5 DEF Quiet, Awaits
      <3> QED
        BY <1>3, <2>3, <2>5, <3>1 DEF Says
    <2> QED
      BY <2>4, <2>5 DEF Thinner
  <1>4. ASSUME NEW i \in Nat, NEW r \in Requests, Asks(l2, w2, i, r)
        PROVE  \E j \in Nat : /\ Asks(l, w, j, r)
                              /\ Before(w2, u2, c2, i, r) => Before(w, u, c, j, r)
    <2>1. PICK k \in Nat : Thins(w2[Answerer], w[Answerer], k)
      BY TheDesks DEF Thinner
    <2>2. PICK m \in Nat : Thins(u2[Answerer], u[Answerer], m)
      BY TheDesks DEF Thinner
    <2>3. l2[Asker] => l[Asker]
      BY TheDesks DEF Thinner
    <2>4. Asks(l, w, i + k, r) /\ i + k \in Nat
      BY <1>4, <2>1, <2>3, ThinsAwaits DEF Asks
    <2>5. ASSUME Before(w2, u2, c2, i, r)
          PROVE  Before(w, u, c, i + k, r)
      <3>1. CASE c2[Answerer] = c[Answerer]
        <4>1. CASE c2[Answerer].answer \in Answers
          BY <2>5, <3>1, <4>1 DEF Before
        <4>2. CASE \E j \in Nat : j < i /\ Awaits(w2[Answerer], j, Answers)
          <5>1. PICK j \in Nat : j < i /\ Awaits(w2[Answerer], j, Answers)
            BY <4>2
          <5>2. j + k \in Nat /\ j + k < i + k /\ Awaits(w[Answerer], j + k, Answers)
            BY <5>1, <2>1, ThinsAwaits
          <5> QED
            BY <2>5, <3>1, <5>2 DEF Before
        <4>3. CASE \E j \in Nat : Awaits(u2[Answerer], j, Answers)
          BY <2>5, <2>2, <3>1, <4>3, ThinsAwaits DEF Before
        <4> QED
          BY <2>5, <4>1, <4>2, <4>3 DEF Before
      <3>2. CASE /\ Quiet(l2, w2, u2, Answerer)
                 /\ c2[Answerer] = Nothing \/ c2[Answerer].answer \notin Answers
        BY <2>5, <3>2 DEF Before, Quiet, Answers
      <3> QED
        BY <3>1, <3>2, TheDesks DEF Thinner
    <2> QED
      BY <2>4, <2>5
  <1> QED
    BY <1>1, <1>2, <1>3, <1>4 DEF Carries

(* A command goes out over a channel.                                      *)
LEMMA CallCarries ==
  ASSUME NEW l, NEW w, NEW u, NEW c, Channels(l, w, u, c), FitsAll(l, w, u, c),
         NEW d \in Desks, c[d] = Nothing, l[d] = TRUE,
         NEW f \in FrameSet, f.is \in Commands, f.awaited = TRUE,
         d = Answerer => f.is # "request",
         NEW w2, NEW c2, w2 = [w EXCEPT ![Other(d)] = Append(@, f)],
         c2 = [c EXCEPT ![d] = [f |-> f, old |-> FALSE, answer |-> "none"]],
         c2[d] # Nothing
  PROVE  Carries(l, w, u, c, l, w2, u, c2, {<<Other(d), f.is, f.of>>}, {},
                 IF d = Asker THEN {f.of} ELSE {})
  <1> DEFINE e == Other(d)
             n == Len(w[e]) + 1
  <1>1. e \in Desks /\ e # d /\ Other(e) = d /\ Desks = {d, e}
    BY TheDesks
  <1> HIDE DEF e
  <1>2. w[d] \in Seq(FrameSet) /\ w[e] \in Seq(FrameSet) /\ u[d] \in Seq(FrameSet)
        /\ u[e] \in Seq(FrameSet)
    BY <1>1 DEF Channels
  <1>3. /\ w2[d] = w[d] /\ w2[e] = Append(w[e], f) /\ c2[e] = c[e]
        /\ c2[d] = [f |-> f, old |-> FALSE, answer |-> "none"]
    BY <1>1 DEF Channels, e
  <1>4. /\ c2[d].f = f /\ c2[d].old = FALSE /\ c2[d].answer = "none"
        /\ f.is \notin Answers
    BY <1>3 DEF Commands, Answers
  <1>5. Fits(l[d], w[d], w[e], u[d], c[d]) /\ Fits(l[e], w[e], w[d], u[e], c[e])
    BY <1>1 DEF FitsAll, e
  <1>6. \A i \in Nat : /\ ~Awaits(w[d], i, Answers) /\ ~Awaits(u[d], i, Answers)
                       /\ ~Awaits(w[e], i, Commands)
    BY <1>5 DEF Fits
  <1>7. n \in Nat /\ n > 0 /\ Len(w[e]) \in Nat /\ Len(w2[e]) = n /\ w2[e][n] = f
        /\ \A i \in 1 .. n - 1 : w2[e][i] = w[e][i]
    BY <1>2, <1>3, PutSays
  <1>8. \A i \in Nat : Awaits(w2[e], i, Commands) => i = n
    BY <1>6, <1>7 DEF Awaits
  <1>9. FitsAll(l, w2, u, c2)
    <2>1. Fits(l[d], w[d], w2[e], u[d], c2[d])
      BY <1>4, <1>6, <1>7, <1>8 DEF Fits
    <2>2. \E k \in Nat : Fewer(w2[e], w[e], Answers, k)
      BY <1>2, <1>3, <1>4, FewerPut
    <2>3. /\ \E k \in Nat : Fewer(w[d], w[d], Commands, k)
          /\ \E k \in Nat : Fewer(u[e], u[e], Answers, k)
      BY <1>2, FewerSame
    <2>4. Fits(l[e], w2[e], w[d], u[e], c[e])
      BY <1>5, <2>2, <2>3, FitsFewer
    <2> QED
      BY <1>1, <1>3, <2>1, <2>4 DEF FitsAll, e
  <1>10. ASSUME NEW x \in Desks, NEW is \in Commands, NEW r \in Requests,
                On(w2, u, x, is, r)
         PROVE  On(w, u, x, is, r) \/ <<x, is, r>> = <<e, f.is, f.of>>
    <2>1. CASE x = d
      BY <1>3, <1>10, <2>1 DEF On
    <2>2. CASE x = e
      BY <1>7, <1>10, <2>2 DEF On
    <2> QED
      BY <1>1, <2>1, <2>2
  <1>11. ASSUME NEW x \in Desks, NEW is \in Commands, NEW r \in Requests,
                NEW a \in Answers, Says(w2, u, c2, x, is, r, a)
         PROVE  Says(w, u, c, x, is, r, a)
    <2>0. \A s, i : Awaits(s, i, {a}) => Awaits(s, i, Answers)
      BY DEF Awaits
    <2>1. x # d
      BY <1>3, <1>4, <1>6, <1>11, <2>0 DEF Says, Answers
    <2>2. \A i \in Nat : Awaits(w2[e], i, {a}) => Awaits(w[e], i, {a})
      BY <1>4, <1>7 DEF Awaits
    <2> QED
      BY <1>1, <1>3, <1>11, <2>1, <2>2 DEF Says
  <1>12. ASSUME NEW i \in Nat, NEW r \in Requests, Asks(l, w2, i, r),
                ~(d = Asker /\ r = f.of)
         PROVE  /\ Asks(l, w, i, r)
                /\ Before(w2, u, c2, i, r) => Before(w, u, c, i, r)
    <2>1. CASE d = Asker
      <3>1. e = Answerer /\ c2[Answerer] = c[Answerer]
        BY <1>1, <1>3, <2>1, TheDesks
      <3>2. Asks(l, w, i, r) /\ i < n
        BY <1>7, <1>12, <2>1, <3>1 DEF Asks, Awaits
      <3>3. \A j \in Nat : j < i /\ Awaits(w2[e], j, Answers) => Awaits(w[e], j, Answers)
        BY <1>7, <3>2 DEF Awaits
      <3> QED
        BY <3>1, <3>2, <3>3 DEF Before
    <2>2. CASE d = Answerer
      <3>1. w2[Answerer] = w[Answerer]
        BY <1>3, <2>2
      <3>2. ~Before(w2, u, c2, i, r)
        BY <1>4, <1>6, <2>2, <3>1 DEF Before, Answers
      <3> QED
        BY <1>12, <3>1, <3>2 DEF Asks
    <2> QED
      BY <2>1, <2>2, TheDesks
  <1> QED
    BY <1>9, <1>10, <1>11, <1>12 DEF Carries, e

(* The command its caller waits for is answered over the same channel.     *)
LEMMA ReplyCarries ==
  ASSUME NEW l, NEW w, NEW u, NEW c, Channels(l, w, u, c), FitsAll(l, w, u, c),
         NEW d \in Desks, w[d] # <<>>, l[Other(d)] = TRUE,
         NEW f, f = Head(w[d]), f.is \in Commands, f.awaited = TRUE,
         NEW a \in Answers,
         NEW g \in FrameSet, g.is = a, g.of = f.of, g.awaited = TRUE,
         NEW w2, w2[d] = Tail(w[d]), w2[Other(d)] = Append(w[Other(d)], g)
  PROVE  Carries(l, w, u, c, l, w2, u, c, {}, {<<Other(d), f.is, f.of, a>>}, {})
  <1> DEFINE e == Other(d)
             n == Len(w[e]) + 1
  <1>1. e \in Desks /\ e # d /\ Other(e) = d /\ Desks = {d, e}
    BY TheDesks
  <1> HIDE DEF e
  <1>2. w[d] \in Seq(FrameSet) /\ w[e] \in Seq(FrameSet) /\ u[d] \in Seq(FrameSet)
        /\ u[e] \in Seq(FrameSet)
    BY <1>1 DEF Channels
  <1>3. w2[d] = Tail(w[d]) /\ w2[e] = Append(w[e], g) /\ l[e] = TRUE
    BY DEF e
  <1>4. /\ Len(w[d]) \in Nat /\ Len(w[d]) > 0 /\ Len(w2[d]) = Len(w[d]) - 1
        /\ \A i \in 1 .. Len(w[d]) - 1 : w2[d][i] = w[d][i + 1]
        /\ f = w[d][1]
    BY <1>2, <1>3, TailSays
  <1>5. /\ n \in Nat /\ n > 0 /\ Len(w[e]) \in Nat /\ Len(w2[e]) = n
        /\ w2[e][n] = g /\ \A i \in 1 .. n - 1 : w2[e][i] = w[e][i]
    BY <1>2, <1>3, PutSays
  <1>6. Fits(l[d], w[d], w[e], u[d], c[d]) /\ Fits(l[e], w[e], w[d], u[e], c[e])
    BY <1>1 DEF FitsAll, e
  <1>7. 1 \in Nat /\ Awaits(w[d], 1, Commands)
    BY <1>4 DEF Awaits
  <1>8. /\ c[e] # Nothing /\ c[e].old = FALSE /\ c[e].answer = "none"
        /\ c[e].f.is = f.is /\ c[e].f.of = f.of
        /\ \A i \in Nat : Awaits(w[d], i, Commands) => i = 1
        /\ \A i \in Nat : ~Awaits(w[e], i, Answers) /\ ~Awaits(u[e], i, Answers)
    BY <1>3, <1>4, <1>6, <1>7 DEF Fits
  <1>9. g.is \notin Commands /\ g.is \in Answers
    BY DEF Commands, Answers
  <1>15. /\ \A i \in 1 .. Len(w2[d]) : i + 1 \in 1 .. Len(w[d]) /\ w2[d][i] = w[d][i + 1]
         /\ \A kinds : \A i \in Nat : Awaits(w2[d], i, kinds) =>
              i > 0 /\ i + 1 \in Nat /\ Awaits(w[d], i + 1, kinds)
    BY <1>2, <1>3, TailAwaits
  <1>16. /\ \A i \in 1 .. Len(w2[e]) :
              \/ i \in 1 .. Len(w[e]) /\ w2[e][i] = w[e][i]
              \/ w2[e][i] = g
         /\ \A kinds : \A i \in Nat : Awaits(w2[e], i, kinds) =>
              \/ i < n /\ Awaits(w[e], i, kinds) /\ w2[e][i] = w[e][i]
              \/ i = n /\ w2[e][i] = g /\ g.is \in kinds
    <2>1. /\ \A i \in 1 .. Len(Append(w[e], g)) :
               \/ i \in 1 .. Len(w[e]) /\ Append(w[e], g)[i] = w[e][i]
               \/ Append(w[e], g)[i] = g
          /\ \A kinds : \A i \in Nat : Awaits(Append(w[e], g), i, kinds) =>
               \/ i <= Len(w[e]) /\ Awaits(w[e], i, kinds) /\ Append(w[e], g)[i] = w[e][i]
               \/ /\ i = Len(w[e]) + 1 /\ Append(w[e], g)[i] = g
                  /\ g.awaited = TRUE /\ g.is \in kinds
      BY <1>2, PutAwaits, Zenon
    <2>2. \A i \in Nat : i <= Len(w[e]) => i < n
      BY <1>5
    <2>3. ASSUME NEW kinds, NEW i \in Nat, Awaits(w2[e], i, kinds)
          PROVE  \/ i < n /\ Awaits(w[e], i, kinds) /\ w2[e][i] = w[e][i]
                 \/ i = n /\ w2[e][i] = g /\ g.is \in kinds
      BY <1>3, <2>1, <2>2, <2>3
    <2> QED
      BY <1>3, <2>1, <2>3
  <1>10. \A i \in Nat : /\ ~Awaits(w2[d], i, Commands)
                        /\ Awaits(w2[e], i, Answers) => i = n
    <2>1. ASSUME NEW i \in Nat PROVE ~Awaits(w2[d], i, Commands)
      <3>1. i > 0 => i + 1 # 1
        OBVIOUS
      <3> QED
        BY <1>8, <1>15, <3>1
    <2> QED
      BY <1>8, <1>16, <2>1
  <1>11. FitsAll(l, w2, u, c)
    <2>1. Fits(l[e], w2[e], w2[d], u[e], c[e])
      BY <1>5, <1>8, <1>10 DEF Fits
    <2>2. /\ \E k \in Nat : Fewer(w2[d], w[d], Answers, k)
          /\ \E k \in Nat : Fewer(w2[e], w[e], Commands, k)
          /\ \E k \in Nat : Fewer(u[d], u[d], Answers, k)
      BY <1>2, <1>3, <1>9, FewerTail, FewerPut, FewerSame
    <2>3. Fits(l[d], w2[d], w2[e], u[d], c[d])
      BY <1>6, <2>2, FitsFewer
    <2> QED
      BY <1>1, <2>1, <2>3 DEF FitsAll, e
  <1>12. ASSUME NEW x \in Desks, NEW is \in Commands, NEW r \in Requests,
                On(w2, u, x, is, r)
         PROVE  On(w, u, x, is, r)
    <2>1. CASE x = d
      BY <1>15, <1>12, <2>1 DEF On
    <2>2. CASE x = e
      BY <1>16, <1>9, <1>12, <2>2 DEF On
    <2> QED
      BY <1>1, <2>1, <2>2
  <1>13. ASSUME NEW x \in Desks, NEW is \in Commands, NEW r \in Requests,
                NEW b \in Answers, Says(w2, u, c, x, is, r, b)
         PROVE  Says(w, u, c, x, is, r, b) \/ <<x, is, r, b>> = <<e, f.is, f.of, a>>
    <2>0. \A s, i : Awaits(s, i, {b}) => Awaits(s, i, Answers) /\ s[i].is = b
      BY DEF Awaits
    <2>1. CASE x = d
      <3>1. \A i \in Nat : Awaits(w2[d], i, {b}) =>
              i + 1 \in Nat /\ Awaits(w[d], i + 1, {b})
        BY <1>15
      <3> QED
        BY <1>13, <2>1, <3>1 DEF Says
    <2>2. CASE x = e
      <3>1. \A i \in Nat : Awaits(w2[e], i, {b}) => b = a
        BY <1>5, <1>10, <2>0
      <3> QED
        BY <1>8, <1>13, <2>0, <2>2, <3>1 DEF Says, Answers
    <2> QED
      BY <1>1, <2>1, <2>2
  <1>14. ASSUME NEW i \in Nat, NEW r \in Requests, Asks(l, w2, i, r)
         PROVE  Asks(l, w, i, r) /\ ~Before(w2, u, c, i, r)
    <2>0. "request" \in Commands /\ "request" # g.is
      BY <1>9 DEF Commands
    <2>1. d # Answerer
      BY <1>10, <1>14, <2>0 DEF Asks, Awaits
    <2>2. e = Answerer
      BY <1>1, <2>1, TheDesks
    <2>3. Asks(l, w, i, r) /\ i < n
      BY <1>5, <1>14, <2>0, <2>2 DEF Asks, Awaits
    <2> QED
      BY <1>8, <1>10, <2>2, <2>3 DEF Before, Answers
  <1> QED
    BY <1>11, <1>12, <1>13, <1>14 DEF Carries, e

(* The answer its call waits for comes.                                    *)
LEMMA AnswerCarries ==
  ASSUME NEW l, NEW w, NEW u, NEW c, Channels(l, w, u, c), FitsAll(l, w, u, c),
         NEW d \in Desks, w[d] # <<>>,
         NEW f, f = Head(w[d]), f.is \in Answers, f.awaited = TRUE,
         NEW w2, w2[d] = Tail(w[d]), w2[Other(d)] = w[Other(d)],
         NEW c2, c2[d] # Nothing, c2[d].answer = f.is, c2[d].f = c[d].f,
         c2[Other(d)] = c[Other(d)]
  PROVE  Carries(l, w, u, c, l, w2, u, c2, {}, {}, {})
  <1> DEFINE e == Other(d)
  <1>1. e \in Desks /\ e # d /\ Other(e) = d /\ Desks = {d, e}
    BY TheDesks
  <1> HIDE DEF e
  <1>2. w[d] \in Seq(FrameSet) /\ w[e] \in Seq(FrameSet) /\ u[d] \in Seq(FrameSet)
        /\ u[e] \in Seq(FrameSet)
    BY <1>1 DEF Channels
  <1>3. w2[d] = Tail(w[d]) /\ w2[e] = w[e] /\ c2[e] = c[e]
    BY DEF e
  <1>4. /\ Len(w[d]) \in Nat /\ Len(w[d]) > 0 /\ Len(w2[d]) = Len(w[d]) - 1
        /\ \A i \in 1 .. Len(w[d]) - 1 : w2[d][i] = w[d][i + 1]
        /\ f = w[d][1]
    BY <1>2, <1>3, TailSays
  <1>5. Fits(l[d], w[d], w[e], u[d], c[d]) /\ Fits(l[e], w[e], w[d], u[e], c[e])
    BY <1>1 DEF FitsAll, e
  <1>6. 1 \in Nat /\ Awaits(w[d], 1, Answers) /\ Awaits(w[d], 1, {f.is})
    BY <1>4 DEF Awaits
  <1>7. /\ c[d] # Nothing /\ c[d].old = FALSE /\ c[d].answer = "none"
        /\ \A i \in Nat : Awaits(w[d], i, Answers) => i = 1
        /\ \A i \in Nat : ~Awaits(u[d], i, Answers)
        /\ l[d] => \A i \in Nat : ~Awaits(w[e], i, Commands)
    BY <1>5, <1>6 DEF Fits
  <1>13. /\ \A i \in 1 .. Len(w2[d]) : i + 1 \in 1 .. Len(w[d]) /\ w2[d][i] = w[d][i + 1]
         /\ \A kinds : \A i \in Nat : Awaits(w2[d], i, kinds) =>
              /\ i > 0 /\ i + 1 \in Nat /\ Awaits(w[d], i + 1, kinds)
              /\ w2[d][i] = w[d][i + 1]
    <2>1. /\ \A i \in 1 .. Len(Tail(w[d])) :
               i + 1 \in 1 .. Len(w[d]) /\ Tail(w[d])[i] = w[d][i + 1]
          /\ \A kinds : \A i \in Nat : Awaits(Tail(w[d]), i, kinds) =>
               /\ i > 0 /\ i + 1 \in Nat /\ Awaits(w[d], i + 1, kinds)
               /\ Tail(w[d])[i] = w[d][i + 1]
      BY <1>2, TailAwaits
    <2>2. w2[d] = Tail(w[d])
      BY <1>3
    <2> QED
      BY <2>1, <2>2, Zenon
  <1>8. Quiet(l, w2, u, d)
    <2>1. ASSUME NEW i \in Nat PROVE ~Awaits(w2[d], i, Answers)
      <3>1. i > 0 => i + 1 # 1
        OBVIOUS
      <3> QED
        BY <1>7, <1>13, <3>1
    <2> QED
      BY <1>3, <1>7, <2>1 DEF Quiet, e
  <1>9. FitsAll(l, w2, u, c2)
    <2>1. Fits(l[d], w2[d], w2[e], u[d], c2[d])
      BY <1>8, FitsQuiet DEF e
    <2>2. /\ \E k \in Nat : Fewer(w[e], w[e], Answers, k)
          /\ \E k \in Nat : Fewer(w2[d], w[d], Commands, k)
          /\ \E k \in Nat : Fewer(u[e], u[e], Answers, k)
      BY <1>2, <1>3, FewerTail, FewerSame
    <2>3. Fits(l[e], w[e], w2[d], u[e], c[e])
      BY <1>5, <2>2, FitsFewer
    <2> QED
      BY <1>1, <1>3, <2>1, <2>3 DEF FitsAll, e
  <1>10. ASSUME NEW x \in Desks, NEW is \in Commands, NEW r \in Requests,
                On(w2, u, x, is, r)
         PROVE  On(w, u, x, is, r)
    <2>1. CASE x = d
      BY <1>13, <1>10, <2>1 DEF On
    <2>2. CASE x = e
      BY <1>3, <1>10, <2>2 DEF On
    <2> QED
      BY <1>1, <2>1, <2>2
  <1>11. ASSUME NEW x \in Desks, NEW is \in Commands, NEW r \in Requests,
                NEW a \in Answers, Says(w2, u, c2, x, is, r, a)
         PROVE  Says(w, u, c, x, is, r, a)
    <2>1. CASE x = d
      <3>1. \A i \in Nat : ~Awaits(w2[d], i, {a}) /\ ~Awaits(u[d], i, {a})
        BY <1>8 DEF Quiet, Awaits
      <3> QED
        BY <1>6, <1>7, <1>11, <2>1, <3>1 DEF Says
    <2>2. CASE x = e
      BY <1>3, <1>11, <2>2 DEF Says
    <2> QED
      BY <1>1, <2>1, <2>2
  <1>12. ASSUME NEW i \in Nat, NEW r \in Requests, Asks(l, w2, i, r)
         PROVE  \E j \in Nat : /\ Asks(l, w, j, r)
                               /\ Before(w2, u, c2, i, r) => Before(w, u, c, j, r)
    <2>1. CASE d = Asker
      <3>1. e = Answerer
        BY <2>1, TheDesks DEF e
      <3> QED
        BY <1>3, <1>12, <3>1 DEF Asks, Before
    <2>2. CASE d = Answerer
      <3>1. i + 1 \in Nat /\ Asks(l, w, i + 1, r)
        BY <1>12, <1>13, <2>2 DEF Asks
      <3>2. Before(w2, u, c2, i, r) => Before(w, u, c, i + 1, r)
        <4>1. 1 < i + 1
          BY <1>12 DEF Asks, Awaits
        <4> QED
          BY <1>6, <1>7, <2>2, <4>1 DEF Before
      <3> QED
        BY <3>1, <3>2
    <2> QED
      BY <2>1, <2>2, TheDesks
  <1> QED
    BY <1>9, <1>10, <1>11, <1>12 DEF Carries

(* The task of the channel before reads its answer to a call.              *)
LEMMA OldAnswerCarries ==
  ASSUME NEW l, NEW w, NEW u, NEW c, Channels(l, w, u, c), FitsAll(l, w, u, c),
         NEW d \in Desks, u[d] # <<>>,
         NEW f, f = Head(u[d]), f.is \in Answers, f.awaited = TRUE,
         NEW u2, u2[d] = Tail(u[d]), u2[Other(d)] = u[Other(d)],
         NEW c2, c2[d] # Nothing, c2[d].answer = f.is, c2[d].f = c[d].f,
         c2[Other(d)] = c[Other(d)]
  PROVE  Carries(l, w, u, c, l, w, u2, c2, {}, {}, {})
  <1> DEFINE e == Other(d)
  <1>1. e \in Desks /\ e # d /\ Other(e) = d /\ Desks = {d, e}
    BY TheDesks
  <1> HIDE DEF e
  <1>2. w[d] \in Seq(FrameSet) /\ w[e] \in Seq(FrameSet) /\ u[d] \in Seq(FrameSet)
        /\ u[e] \in Seq(FrameSet)
    BY <1>1 DEF Channels
  <1>3. u2[d] = Tail(u[d]) /\ u2[e] = u[e] /\ c2[e] = c[e]
    BY DEF e
  <1>4. /\ Len(u[d]) \in Nat /\ Len(u[d]) > 0 /\ Len(u2[d]) = Len(u[d]) - 1
        /\ \A i \in 1 .. Len(u[d]) - 1 : u2[d][i] = u[d][i + 1]
        /\ f = u[d][1]
    BY <1>2, <1>3, TailSays
  <1>5. Fits(l[d], w[d], w[e], u[d], c[d]) /\ Fits(l[e], w[e], w[d], u[e], c[e])
    BY <1>1 DEF FitsAll, e
  <1>6. 1 \in Nat /\ Awaits(u[d], 1, Answers) /\ Awaits(u[d], 1, {f.is})
    BY <1>4 DEF Awaits
  <1>7. /\ c[d] # Nothing /\ c[d].old = TRUE /\ c[d].answer = "none"
        /\ \A i \in Nat : Awaits(u[d], i, Answers) => i = 1
        /\ \A i \in Nat : ~Awaits(w[d], i, Answers)
        /\ l[d] => \A i \in Nat : ~Awaits(w[e], i, Commands)
    BY <1>5, <1>6 DEF Fits
  <1>13. /\ \A i \in 1 .. Len(u2[d]) : i + 1 \in 1 .. Len(u[d]) /\ u2[d][i] = u[d][i + 1]
         /\ \A kinds : \A i \in Nat : Awaits(u2[d], i, kinds) =>
              i > 0 /\ i + 1 \in Nat /\ Awaits(u[d], i + 1, kinds)
    BY <1>2, <1>3, TailAwaits
  <1>8. Quiet(l, w, u2, d)
    <2>1. ASSUME NEW i \in Nat PROVE ~Awaits(u2[d], i, Answers)
      <3>1. i > 0 => i + 1 # 1
        OBVIOUS
      <3> QED
        BY <1>7, <1>13, <3>1
    <2> QED
      BY <1>3, <1>7, <2>1 DEF Quiet, e
  <1>9. FitsAll(l, w, u2, c2)
    <2>1. Fits(l[d], w[d], w[e], u2[d], c2[d])
      BY <1>8, FitsQuiet DEF e
    <2> QED
      BY <1>1, <1>3, <1>5, <2>1 DEF FitsAll, e
  <1>10. ASSUME NEW x \in Desks, NEW is \in Commands, NEW r \in Requests,
                On(w, u2, x, is, r)
         PROVE  On(w, u, x, is, r)
    <2>1. CASE x = d
      BY <1>13, <1>10, <2>1 DEF On
    <2>2. CASE x = e
      BY <1>3, <1>10, <2>2 DEF On
    <2> QED
      BY <1>1, <2>1, <2>2
  <1>11. ASSUME NEW x \in Desks, NEW is \in Commands, NEW r \in Requests,
                NEW a \in Answers, Says(w, u2, c2, x, is, r, a)
         PROVE  Says(w, u, c, x, is, r, a)
    <2>1. CASE x = d
      <3>1. \A i \in Nat : ~Awaits(w[d], i, {a}) /\ ~Awaits(u2[d], i, {a})
        BY <1>8 DEF Quiet, Awaits
      <3> QED
        BY <1>6, <1>7, <1>11, <2>1, <3>1 DEF Says
    <2>2. CASE x = e
      BY <1>3, <1>11, <2>2 DEF Says
    <2> QED
      BY <1>1, <2>1, <2>2
  <1>12. ASSUME NEW i \in Nat, NEW r \in Requests, Asks(l, w, i, r),
                Before(w, u2, c2, i, r)
         PROVE  Before(w, u, c, i, r)
    <2>1. CASE d = Asker
      <3>1. e = Answerer
        BY <2>1, TheDesks DEF e
      <3> QED
        BY <1>3, <1>12, <3>1 DEF Before
    <2>2. CASE d = Answerer
      BY <1>6, <1>7, <1>12, <2>2 DEF Before
    <2> QED
      BY <2>1, <2>2, TheDesks
  <1> QED
    BY <1>9, <1>10, <1>11, <1>12 DEF Carries

(* A channel opens, in the place of one that has not noticed its end.      *)
LEMMA OpenCarries ==
  ASSUME NEW l, NEW w, NEW u, NEW c, Channels(l, w, u, c), FitsAll(l, w, u, c),
         NEW d \in Desks, u[d] = <<>>, ~l[d] => w[d] = <<>>,
         c[d] # Nothing => c[d].old = FALSE,
         NEW l2, NEW w2, w2 = [x \in Desks |-> <<Roster>>],
         NEW k \in 0 .. Len(w[d]),
         NEW u2, u2 = [u EXCEPT ![d] = SubSeq(w[d], 1, k)],
         NEW c2, c2 = [c EXCEPT ![d] = IF l[d] /\ @ # Nothing
                                       THEN [@ EXCEPT !.old = TRUE] ELSE @],
         l[d] /\ c[d] # Nothing =>
           /\ c2[d] # Nothing /\ c2[d].old = TRUE
           /\ c2[d].f = c[d].f /\ c2[d].answer = c[d].answer
  PROVE  Carries(l, w, u, c, l2, w2, u2, c2, {}, {}, {})
  <1> DEFINE e == Other(d)
  <1>1. e \in Desks /\ e # d /\ Other(e) = d /\ Desks = {d, e}
    BY TheDesks
  <1> HIDE DEF e
  <1>2. w[d] \in Seq(FrameSet) /\ u \in [Desks -> Seq(FrameSet)]
        /\ c \in [Desks -> PendingCalls \cup {Nothing}]
    BY <1>1 DEF Channels
  <1>3. u2[d] = SubSeq(w[d], 1, k) /\ u2[e] = u[e] /\ c2[e] = c[e]
    BY <1>1, <1>2
  <1>4. \A x \in Desks : \A i \in 1 .. Len(w2[x]) :
          w2[x][i].is = "roster" /\ w2[x][i].awaited = FALSE
    BY DEF Roster
  <1>5. \A kinds : \A x \in Desks, i \in Nat : ~Awaits(w2[x], i, kinds)
    BY <1>4 DEF Awaits
  <1>6. Fits(l[d], w[d], w[e], u[d], c[d]) /\ Fits(l[e], w[e], w[d], u[e], c[e])
    BY <1>1 DEF FitsAll, e
  <1>7. \A i \in 1 .. Len(u2[d]) : i \in 1 .. Len(w[d]) /\ u2[d][i] = w[d][i]
    BY <1>2, <1>3
  <1>8. \A kinds : \A i \in Nat : Awaits(u2[d], i, kinds) =>
          Awaits(w[d], i, kinds) /\ l[d] /\ u2[d][i] = w[d][i]
    BY <1>7 DEF Awaits
  <1>9. FitsAll(l2, w2, u2, c2)
    <2>3. \A i \in Nat : Awaits(u2[d], i, Answers) =>
            /\ c[d] # Nothing /\ c2[d] # Nothing /\ c2[d].old = TRUE
            /\ c[d].answer = "none" /\ c2[d].f = c[d].f
            /\ c2[d].answer = c[d].answer /\ c[d].f.of = u2[d][i].of
      <3>1. ASSUME NEW i \in Nat, Awaits(u2[d], i, Answers)
            PROVE  /\ c[d] # Nothing /\ l[d] /\ c[d].answer = "none"
                   /\ c[d].f.of = u2[d][i].of
        <4>1. Awaits(w[d], i, Answers) /\ l[d] /\ u2[d][i] = w[d][i]
          BY <1>8, <3>1
        <4> QED
          BY <1>6, <4>1 DEF Fits
      <3> QED
        BY <3>1
    <2>4. \A i, j \in Nat :
            Awaits(u2[d], i, Answers) /\ Awaits(u2[d], j, Answers) => i = j
      BY <1>6, <1>8 DEF Fits
    <2>1. Fits(l2[d], w2[d], w2[e], u2[d], c2[d])
      BY <1>1, <1>5, <2>3, <2>4 DEF Fits
    <2>2. Fits(l2[e], w2[e], w2[d], u[e], c[e])
      BY <1>1, <1>5, <1>6 DEF Fits
    <2> QED
      BY <1>1, <1>3, <2>1, <2>2 DEF FitsAll, e
  <1>10. ASSUME NEW x \in Desks, NEW is \in Commands, NEW r \in Requests,
                On(w2, u2, x, is, r)
         PROVE  On(w, u, x, is, r)
    <2>0. is # "roster"
      BY DEF Commands
    <2>1. CASE x = d
      BY <1>4, <1>7, <1>10, <2>0, <2>1 DEF On
    <2>2. CASE x = e
      BY <1>3, <1>4, <1>10, <2>0, <2>2 DEF On
    <2> QED
      BY <1>1, <2>1, <2>2
  <1>11. ASSUME NEW x \in Desks, NEW is \in Commands, NEW r \in Requests,
                NEW a \in Answers, Says(w2, u2, c2, x, is, r, a)
         PROVE  Says(w, u, c, x, is, r, a)
    <2>1. CASE x = d
      <3>1. /\ c[d] # Nothing /\ c2[d].f = c[d].f /\ c2[d].answer = c[d].answer
        BY <1>1, <1>2, <1>11, <2>1 DEF Says
      <3>2. ~Awaits(w2[d], 1, {a}) /\ \A i \in Nat : ~Awaits(w2[d], i, {a})
        BY <1>5
      <3>3. \A i \in Nat : Awaits(u2[d], i, {a}) => Awaits(w[d], i, {a})
        BY <1>8
      <3> QED
        BY <1>11, <2>1, <3>1, <3>2, <3>3 DEF Says
    <2>2. CASE x = e
      <3>1. \A i \in Nat : ~Awaits(w2[e], i, {a})
        BY <1>1, <1>5
      <3> QED
        BY <1>3, <1>11, <2>2, <3>1 DEF Says
    <2> QED
      BY <1>1, <2>1, <2>2
  <1>12. \A i \in Nat, r \in Requests : ~Asks(l2, w2, i, r)
    BY <1>5, TheDesks DEF Asks
  <1> QED
    BY <1>9, <1>10, <1>11, <1>12 DEF Carries

(* The link's own types: at most one link is begun more than faults came.  *)
ChannelTypes ==
  /\ Channels(live, wire, unread, call)
  /\ record \in [Desks -> BOOLEAN] /\ shown \in [Desks -> BOOLEAN]
  /\ dials \in Desks /\ ending \in [Desks -> {"no", "sweep", "remove"}]
  /\ faults \in Nat /\ links \in Nat /\ links >= 1 /\ links <= faults + 1

(* A desk reads nothing without a channel, and nothing at all without its  *)
(* record.                                                                 *)
ChannelsFit ==
  /\ FitsAll(live, wire, unread, call)
  /\ \A d \in Desks : /\ ~live[d] => wire[d] = <<>>
                      /\ ~record[d] => ~live[d] /\ unread[d] = <<>>

(* A desk goes on with its call, or with none, or makes one.               *)
CallsStay(puts) ==
  \A d \in Desks : \/ call'[d] = Nothing
                   \/ call[d] # Nothing /\ call'[d].f = call[d].f
                   \/ <<Other(d), call'[d].f.is, call'[d].f.of>> \in puts

(* What a step does to the channels, but for the link's record.            *)
Crosses(puts, says, asks) ==
  /\ Channels(live', wire', unread', call') /\ CallsStay(puts)
  /\ Carries(live, wire, unread, call, live', wire', unread', call',
             puts, says, asks)
  /\ \A d \in Desks : /\ ~live'[d] => wire'[d] = <<>>
                      /\ ~record[d] => ~live'[d] /\ unread'[d] = <<>>

(* The frames the two desks send each other are frames.                    *)
LEMMA FramesTyped ==
  /\ Roster \in FrameSet /\ Goodbye \in FrameSet
  /\ \A is \in Commands, r \in Requests :
       /\ Frame(is, r) \in FrameSet /\ Frame(is, r).is = is
       /\ Frame(is, r).of = r /\ Frame(is, r).awaited = TRUE
  BY DEF Roster, Goodbye, Frame, FrameSet, Commands, Answers

(* The forms in which a step leaves a desk's channel thinned.              *)
LEMMA ThinSame ==
  ASSUME NEW s \in Seq(FrameSet)
  PROVE  /\ \E k \in Nat : Thins(s, s, k)
         /\ \E k \in Nat : Thins(<<>>, s, k)
         /\ \E k \in Nat : Thins(Append(s, Goodbye), s, k)
         /\ s # <<>> => \E k \in Nat : Thins(Tail(s), s, k)
  BY ThinsSame, ThinsTail, ThinsGoodbye, FramesTyped

(* A step that leaves the channels alone.                                  *)
LEMMA StillCrosses ==
  ASSUME ChannelTypes, ChannelsFit, UNCHANGED <<live, wire, unread, call>>
  PROVE  Crosses({}, {}, {})
  <1>1. Thinner(live, wire, unread, call, live', wire', unread', call')
    BY ThinSame DEF Thinner, ChannelTypes, Channels
  <1>2. CallsStay({})
    BY DEF CallsStay
  <1> QED
    BY <1>1, <1>2, ThinnerCarries DEF Crosses, ChannelTypes, ChannelsFit

(* A desk that waits for no call, or for one that has its answer.          *)
LEMMA NothingAwaited ==
  ASSUME ChannelTypes, ChannelsFit, NEW d \in Desks,
         call[d] = Nothing \/ call[d].answer # "none"
  PROVE  Quiet(live, wire, unread, d)
  BY DEF ChannelsFit, FitsAll, Fits, Quiet

(* A step that only thins them, and makes no call.                         *)
LEMMA ThinnerCrosses ==
  ASSUME ChannelTypes, ChannelsFit, Channels(live', wire', unread', call'),
         CallsStay({}),
         Thinner(live, wire, unread, call, live', wire', unread', call'),
         \A d \in Desks : /\ ~live'[d] => wire'[d] = <<>>
                          /\ ~record[d] => ~live'[d] /\ unread'[d] = <<>>
  PROVE  Crosses({}, {}, {})
  BY ThinnerCarries DEF Crosses, ChannelTypes, ChannelsFit

(* Links::call puts a command that its caller then waits for.              *)
LEMMA CallsCrosses ==
  ASSUME ChannelTypes, ChannelsFit, NEW d \in Desks, NEW is \in Commands,
         NEW r \in Requests, d = Answerer => is # "request",
         Calls(d, Frame(is, r))
  PROVE  Crosses({<<Other(d), is, r>>}, {}, IF d = Asker THEN {r} ELSE {})
  <1> DEFINE f == Frame(is, r)
             a == IF live[d] THEN "none" ELSE "offline"
             new == [f |-> f, old |-> FALSE, answer |-> a]
  <1>1. f \in FrameSet /\ f.is = is /\ f.of = r /\ f.awaited = TRUE
    BY FramesTyped
  <1>2. new \in PendingCalls /\ new # Nothing /\ new.answer \notin Answers
    <2>1. f \in [is : {"request", "note", "result", "stop"}, of : Requests,
                 awaited : BOOLEAN]
      BY DEF Frame, Commands
    <2>2. a \in {"none", "offline"}
      OBVIOUS
    <2> HIDE DEF f, a
    <2>3. new \in PendingCalls
      BY <2>1, <2>2, Zenon DEF PendingCalls
    <2> QED
      BY <2>2, <2>3, NothingAssumption DEF Answers
  <1>3. call[d] = Nothing /\ call' = [call EXCEPT ![d] = new]
        /\ live' = live /\ unread' = unread
    BY DEF Calls
  <1>4. live[d] => new = [f |-> f, old |-> FALSE, answer |-> "none"]
    OBVIOUS
  <1> HIDE DEF new
  <1>5. call' \in [Desks -> PendingCalls \cup {Nothing}] /\ call'[d] = new
        /\ \A x \in Desks : x # d => call'[x] = call[x]
    BY <1>2, <1>3 DEF ChannelTypes, Channels
  <1>6. Other(d) \in Desks /\ Other(d) # d
    BY TheDesks
  <1>7. wire' = IF live[d] /\ live[Other(d)]
                THEN [wire EXCEPT ![Other(d)] = Append(@, f)] ELSE wire
    BY DEF Calls, Put
  <1> HIDE DEF f
  <1>10. CallsStay({<<Other(d), is, r>>})
    BY <1>1, <1>2, <1>5 DEF CallsStay, new
  <1>8. CASE live[d] /\ live[Other(d)]
    <2>1. wire' = [wire EXCEPT ![Other(d)] = Append(@, f)]
      BY <1>7, <1>8
    <2>2. wire' \in [Desks -> Seq(FrameSet)]
      BY <1>1, <1>6, <2>1 DEF ChannelTypes, Channels
    <2>3. Carries(live, wire, unread, call, live, wire', unread, call',
                  {<<Other(d), f.is, f.of>>}, {}, IF d = Asker THEN {f.of} ELSE {})
      <3>1. call' = [call EXCEPT ![d] = [f |-> f, old |-> FALSE, answer |-> "none"]]
        BY <1>3, <1>4, <1>8
      <3>2. live[d] = TRUE
        BY <1>8 DEF ChannelTypes, Channels
      <3> QED
        BY <1>1, <1>2, <1>3, <1>5, <2>1, <3>1, <3>2, CallCarries
        DEF ChannelTypes, ChannelsFit
    <2>4. \A x \in Desks : ~live[x] => wire'[x] = wire[x]
      BY <1>8, <2>1 DEF ChannelTypes, Channels
    <2>5. Carries(live, wire, unread, call, live', wire', unread', call',
                  {<<Other(d), is, r>>}, {}, IF d = Asker THEN {r} ELSE {})
      BY <1>1, <1>3, <2>3
    <2> QED
      BY <1>3, <1>5, <1>10, <2>2, <2>4, <2>5
         DEF Crosses, ChannelTypes, Channels, ChannelsFit
  <1>9. CASE ~(live[d] /\ live[Other(d)])
    <2>1. wire' = wire
      BY <1>7, <1>9
    <2>2. Quiet(live', wire', unread', d)
      BY <1>3, <2>1, NothingAwaited
    <2>3. Thinner(live, wire, unread, call, live', wire', unread', call')
      BY <1>2, <1>3, <1>5, <2>1, <2>2, ThinSame DEF Thinner, ChannelTypes, Channels
    <2>4. Carries(live, wire, unread, call, live', wire', unread', call', {}, {}, {})
      BY <2>3, ThinnerCarries DEF ChannelsFit
    <2> QED
      BY <1>3, <1>5, <1>10, <2>1, <2>4
      DEF Carries, Crosses, ChannelTypes, Channels, ChannelsFit
  <1> QED
    BY <1>8, <1>9

(* A call that has its answer returns: nothing of it is awaited.           *)
LEMMA ReturnsCrosses ==
  ASSUME ChannelTypes, ChannelsFit, NEW d \in Desks, call[d] # Nothing,
         call[d].answer # "none", Returns(d)
  PROVE  Crosses({}, {}, {})
  <1>1. /\ call' = [call EXCEPT ![d] = Nothing]
        /\ live' = live /\ wire' = wire /\ unread' = unread
    BY DEF Returns
  <1>2. call' \in [Desks -> PendingCalls \cup {Nothing}] /\ call'[d] = Nothing
        /\ \A x \in Desks : x # d => call'[x] = call[x]
    BY <1>1 DEF ChannelTypes, Channels
  <1>3. Quiet(live', wire', unread', d)
    BY <1>1, NothingAwaited
  <1>4. Thinner(live, wire, unread, call, live', wire', unread', call')
    BY <1>1, <1>2, <1>3, ThinSame DEF Thinner, ChannelTypes, Channels
  <1>5. CallsStay({})
    BY <1>2 DEF CallsStay
  <1> QED
    BY <1>1, <1>2, <1>4, <1>5, ThinnerCrosses DEF ChannelTypes, Channels, ChannelsFit

(* What reading the next frame leaves.                                     *)
LEMMA ReadLeaves ==
  ASSUME ChannelTypes, ChannelsFit, NEW d \in Desks, NEW old \in BOOLEAN,
         NEW f, Comes(d, old, f), NEW w2, NEW u2,
         w2 = Read(d, old)[1], u2 = Read(d, old)[2]
  PROVE  /\ f \in FrameSet /\ record[d] /\ (~old => live[d])
         /\ w2 \in [Desks -> Seq(FrameSet)] /\ u2 \in [Desks -> Seq(FrameSet)]
         /\ \A x \in Desks : x # d => w2[x] = wire[x] /\ u2[x] = unread[x]
         /\ IF old THEN /\ unread[d] # <<>> /\ f = Head(unread[d])
                        /\ w2[d] = wire[d] /\ u2[d] = Tail(unread[d])
                   ELSE /\ wire[d] # <<>> /\ f = Head(wire[d])
                        /\ w2[d] = Tail(wire[d]) /\ u2[d] = unread[d]
  <1>0. wire[d] \in Seq(FrameSet) /\ unread[d] \in Seq(FrameSet)
    BY DEF ChannelTypes, Channels
  <1>1. CASE old
    <2>1. w2 = wire /\ u2 = [unread EXCEPT ![d] = Tail(@)]
      BY <1>1 DEF Read
    <2>2. unread[d] # <<>> /\ f = Head(unread[d])
      BY <1>1 DEF Comes
    <2>3. f \in FrameSet /\ Tail(unread[d]) \in Seq(FrameSet)
      BY <1>0, <2>2, TailSays
    <2> QED
      BY <1>1, <2>1, <2>2, <2>3 DEF ChannelTypes, Channels, ChannelsFit
  <1>2. CASE ~old
    <2>1. w2 = [wire EXCEPT ![d] = Tail(@)] /\ u2 = unread
      BY <1>2 DEF Read
    <2>2. wire[d] # <<>> /\ f = Head(wire[d])
      BY <1>2 DEF Comes
    <2>3. f \in FrameSet /\ Tail(wire[d]) \in Seq(FrameSet)
      BY <1>0, <2>2, TailSays
    <2> QED
      BY <1>2, <2>1, <2>2, <2>3 DEF ChannelTypes, Channels, ChannelsFit
  <1> QED
    BY <1>1, <1>2

(* Reading a frame thins the channel it is read from.                      *)
LEMMA ReadThins ==
  ASSUME ChannelTypes, ChannelsFit, NEW d \in Desks, NEW old \in BOOLEAN,
         NEW f, Comes(d, old, f), NEW w2, NEW u2,
         w2 = Read(d, old)[1], u2 = Read(d, old)[2]
  PROVE  \A x \in Desks : /\ \E k \in Nat : Thins(w2[x], wire[x], k)
                          /\ \E k \in Nat : Thins(u2[x], unread[x], k)
                          /\ ~live[x] => w2[x] = <<>>
                          /\ ~record[x] => u2[x] = <<>>
  <1> SUFFICES ASSUME NEW x \in Desks
               PROVE  /\ \E k \in Nat : Thins(w2[x], wire[x], k)
                      /\ \E k \in Nat : Thins(u2[x], unread[x], k)
                      /\ ~live[x] => w2[x] = <<>>
                      /\ ~record[x] => u2[x] = <<>>
    OBVIOUS
  <1>0. wire[x] \in Seq(FrameSet) /\ unread[x] \in Seq(FrameSet)
    BY DEF ChannelTypes, Channels
  <1>4. /\ record[d] /\ (~old => live[d])
        /\ x # d => w2[x] = wire[x] /\ u2[x] = unread[x]
        /\ IF old THEN /\ unread[d] # <<>>
                       /\ w2[d] = wire[d] /\ u2[d] = Tail(unread[d])
                  ELSE /\ wire[d] # <<>>
                       /\ w2[d] = Tail(wire[d]) /\ u2[d] = unread[d]
    BY ReadLeaves
  <1>5. (~live[x] => wire[x] = <<>>) /\ (~record[x] => unread[x] = <<>>)
    BY DEF ChannelsFit
  <1>1. CASE x # d
    BY <1>0, <1>1, <1>4, <1>5, ThinSame
  <1>2. CASE x = d /\ old
    BY <1>0, <1>2, <1>4, <1>5, ThinSame
  <1>3. CASE x = d /\ ~old
    BY <1>0, <1>3, <1>4, <1>5, ThinSame
  <1> QED
    BY <1>1, <1>2, <1>3

(* A frame is read, and nobody is told.                                    *)
LEMMA SkimCrosses ==
  ASSUME ChannelTypes, ChannelsFit, NEW d \in Desks, NEW old \in BOOLEAN,
         NEW f, Comes(d, old, f),
         wire' = Read(d, old)[1], unread' = Read(d, old)[2],
         live' = live, call' = call
  PROVE  Crosses({}, {}, {})
  <1>1. Channels(live', wire', unread', call')
    <2>1. wire' \in [Desks -> Seq(FrameSet)] /\ unread' \in [Desks -> Seq(FrameSet)]
      BY ReadLeaves
    <2> QED
      BY <2>1 DEF ChannelTypes, Channels
  <1>2. Thinner(live, wire, unread, call, live', wire', unread', call')
    BY ReadThins DEF Thinner
  <1>3. \A x \in Desks : /\ ~live'[x] => wire'[x] = <<>>
                         /\ ~record[x] => ~live'[x] /\ unread'[x] = <<>>
    BY ReadThins DEF ChannelsFit
  <1>4. CallsStay({})
    BY DEF CallsStay
  <1> QED
    BY <1>1, <1>2, <1>3, <1>4, ThinnerCrosses

(* on_offer answers a command: who called hears that, unless the frame was *)
(* of a channel that is no more, or nobody waits.                          *)
LEMMA RepliesCrosses ==
  ASSUME ChannelTypes, ChannelsFit, NEW d \in Desks, NEW old \in BOOLEAN,
         NEW f, Comes(d, old, f), f.is \in Commands, NEW a \in Answers,
         Replies(d, old, f, a)
  PROVE  Crosses({}, IF old \/ ~f.awaited \/ ~live[Other(d)] THEN {}
                     ELSE {<<Other(d), f.is, f.of, a>>}, {})
  <1> DEFINE g == [f EXCEPT !.is = a]
             w1 == Read(d, old)[1]
  <1>1. /\ unread' = Read(d, old)[2] /\ live' = live /\ call' = call
        /\ wire' = IF old \/ ~f.awaited \/ ~live[Other(d)] THEN w1
                   ELSE [w1 EXCEPT ![Other(d)] = Append(@, g)]
    BY DEF Replies, Put
  <1>2. CASE old \/ ~f.awaited \/ ~live[Other(d)]
    BY <1>1, <1>2, SkimCrosses
  <1>3. CASE ~(old \/ ~f.awaited \/ ~live[Other(d)])
    <2>1. /\ f \in FrameSet /\ record[d] /\ live[d]
          /\ w1 \in [Desks -> Seq(FrameSet)] /\ unread' \in [Desks -> Seq(FrameSet)]
          /\ \A x \in Desks : x # d => w1[x] = wire[x]
          /\ wire[d] # <<>> /\ f = Head(wire[d]) /\ w1[d] = Tail(wire[d])
      BY <1>1, <1>3, ReadLeaves
    <2>2. unread' = unread
      BY <1>1, <1>3 DEF Read
    <2>3. /\ g \in FrameSet /\ g.is = a /\ g.of = f.of /\ g.awaited = f.awaited
          /\ f.awaited \in BOOLEAN
      BY <2>1 DEF FrameSet, Answers
    <2>4. wire' = [w1 EXCEPT ![Other(d)] = Append(@, g)]
      BY <1>1, <1>3
    <2> HIDE DEF g, w1
    <2>5. Other(d) \in Desks /\ Other(d) # d /\ live[Other(d)] = TRUE
      BY <1>3, TheDesks DEF ChannelTypes, Channels
    <2>9. /\ w1[Other(d)] = wire[Other(d)] /\ w1[Other(d)] \in Seq(FrameSet)
          /\ Append(w1[Other(d)], g) \in Seq(FrameSet)
      BY <2>1, <2>3, <2>5
    <2>6. /\ wire' \in [Desks -> Seq(FrameSet)]
          /\ wire'[d] = Tail(wire[d])
          /\ wire'[Other(d)] = Append(wire[Other(d)], g)
      BY <2>1, <2>4, <2>5, <2>9
    <2>7. Carries(live, wire, unread, call, live, wire', unread, call,
                  {}, {<<Other(d), f.is, f.of, a>>}, {})
      BY <1>3, <2>1, <2>3, <2>5, <2>6, ReplyCarries DEF ChannelTypes, ChannelsFit
    <2>8. \A x \in Desks : live[x]
      BY <2>1, <2>5, TheDesks
    <2> QED
      BY <1>1, <1>3, <2>2, <2>6, <2>7, <2>8
         DEF CallsStay, Crosses, ChannelTypes, Channels, ChannelsFit
  <1> QED
    BY <1>2, <1>3

(* A pending call that was answered is one,                                *)
LEMMA PendingAnswered ==
  ASSUME NEW x \in PendingCalls, NEW a \in {"none", "offline"} \cup Answers
  PROVE  /\ [x EXCEPT !.answer = a] \in PendingCalls
         /\ [x EXCEPT !.answer = a].answer = a /\ [x EXCEPT !.answer = a].f = x.f
         /\ x # Nothing
  BY NothingAssumption, ZenonT(30) DEF PendingCalls

(* and so is one of the channel before.                                    *)
LEMMA PendingOld ==
  ASSUME NEW x \in PendingCalls
  PROVE  /\ [x EXCEPT !.old = TRUE] \in PendingCalls
         /\ [x EXCEPT !.old = TRUE].old = TRUE /\ [x EXCEPT !.old = TRUE].f = x.f
         /\ [x EXCEPT !.old = TRUE].answer = x.answer
  BY ZenonT(30) DEF PendingCalls

(* A desk reads an answer: its call has it, if it waits for it.            *)
LEMMA TakesAnswerCrosses ==
  ASSUME ChannelTypes, ChannelsFit, NEW d \in Desks, TakesAnswer(d)
  PROVE  Crosses({}, {}, {})
  <1>1. PICK old \in BOOLEAN :
          LET queue == IF old THEN unread[d] ELSE wire[d] IN
          /\ queue # <<>> /\ Head(queue).is \in Answers
          /\ wire' = Read(d, old)[1] /\ unread' = Read(d, old)[2]
          /\ call' = IF Head(queue).awaited
                       THEN [call EXCEPT ![d].answer = Head(queue).is] ELSE call
          /\ live' = live
    BY DEF TakesAnswer
  <1> DEFINE f == Head(IF old THEN unread[d] ELSE wire[d])
  <1>2. /\ Comes(d, old, f) /\ f.is \in Answers
        /\ call' = IF f.awaited THEN [call EXCEPT ![d].answer = f.is] ELSE call
    BY <1>1 DEF Comes
  <1> HIDE DEF f
  <1>3. /\ f \in FrameSet /\ record[d] /\ (~old => live[d])
        /\ wire' \in [Desks -> Seq(FrameSet)] /\ unread' \in [Desks -> Seq(FrameSet)]
        /\ \A x \in Desks : x # d => wire'[x] = wire[x] /\ unread'[x] = unread[x]
        /\ IF old THEN /\ unread[d] # <<>> /\ f = Head(unread[d])
                       /\ wire'[d] = wire[d] /\ unread'[d] = Tail(unread[d])
                  ELSE /\ wire[d] # <<>> /\ f = Head(wire[d])
                       /\ wire'[d] = Tail(wire[d]) /\ unread'[d] = unread[d]
    BY <1>1, <1>2, ReadLeaves
  <1>4. CASE ~f.awaited
    BY <1>1, <1>2, <1>4, SkimCrosses
  <1>5. CASE f.awaited
    <2>1. f.awaited = TRUE
      BY <1>3, <1>5 DEF FrameSet
    <2>2. Other(d) \in Desks /\ Other(d) # d
      BY TheDesks
    <2>3. call[d] \in PendingCalls
      <3>0. wire[d] \in Seq(FrameSet) /\ unread[d] \in Seq(FrameSet)
            /\ call[d] \in PendingCalls \cup {Nothing}
        BY DEF ChannelTypes, Channels
      <3>1. 1 \in Nat /\ (Awaits(unread[d], 1, Answers) \/ Awaits(wire[d], 1, Answers))
        BY <1>2, <1>3, <2>1, <3>0, TailSays DEF Awaits
      <3>2. call[d] # Nothing
        BY <3>1 DEF ChannelsFit, FitsAll, Fits
      <3> QED
        BY <3>0, <3>2
    <2>4. call' = [call EXCEPT ![d] = [call[d] EXCEPT !.answer = f.is]]
      BY <1>2, <1>5
    <2>5. /\ [call[d] EXCEPT !.answer = f.is] \in PendingCalls
          /\ call'[d] = [call[d] EXCEPT !.answer = f.is]
          /\ call'[d].answer = f.is /\ call'[d].f = call[d].f /\ call'[d] # Nothing
      <3>1. f.is \in {"none", "offline"} \cup Answers
        BY <1>2
      <3>2. /\ [call[d] EXCEPT !.answer = f.is] \in PendingCalls
            /\ [call[d] EXCEPT !.answer = f.is].answer = f.is
            /\ [call[d] EXCEPT !.answer = f.is].f = call[d].f
        BY <2>3, <3>1, PendingAnswered
      <3>3. call'[d] = [call[d] EXCEPT !.answer = f.is]
        BY <2>4 DEF ChannelTypes, Channels
      <3> QED
        BY <3>2, <3>3, NothingAssumption
    <2>6. /\ call' \in [Desks -> PendingCalls \cup {Nothing}]
          /\ \A x \in Desks : x # d => call'[x] = call[x]
      BY <2>4, <2>5 DEF ChannelTypes, Channels
    <2>7. Carries(live, wire, unread, call, live', wire', unread', call', {}, {}, {})
      <3>0. /\ Channels(live, wire, unread, call) /\ FitsAll(live, wire, unread, call)
            /\ call'[d] # Nothing /\ call'[d].answer = f.is /\ call'[d].f = call[d].f
            /\ call'[Other(d)] = call[Other(d)] /\ wire'[Other(d)] = wire[Other(d)]
            /\ unread'[Other(d)] = unread[Other(d)]
            /\ f.is \in Answers /\ f.awaited = TRUE /\ live' = live
        BY <1>1, <1>2, <1>3, <2>1, <2>2, <2>5, <2>6 DEF ChannelTypes, ChannelsFit
      <3>1. CASE old
        <4>1. wire' = wire
          BY <1>1, <3>1 DEF Read
        <4>2. unread[d] # <<>> /\ f = Head(unread[d]) /\ unread'[d] = Tail(unread[d])
          BY <1>3, <3>1
        <4>3. Carries(live, wire, unread, call, live, wire, unread', call', {}, {}, {})
          BY <3>0, <4>2, OldAnswerCarries
        <4> QED
          BY <3>0, <4>1, <4>3
      <3>2. CASE ~old
        <4>1. unread' = unread
          BY <1>1, <3>2 DEF Read
        <4>2. wire[d] # <<>> /\ f = Head(wire[d]) /\ wire'[d] = Tail(wire[d])
          BY <1>3, <3>2
        <4>3. Carries(live, wire, unread, call, live, wire', unread, call', {}, {}, {})
          BY <3>0, <4>2, AnswerCarries
        <4> QED
          BY <3>0, <4>1, <4>3
      <3> QED
        BY <3>1, <3>2
    <2>8. \A x \in Desks : /\ ~live'[x] => wire'[x] = <<>>
                           /\ ~record[x] => ~live'[x] /\ unread'[x] = <<>>
      BY <1>1, <1>2, ReadThins DEF ChannelsFit
    <2>9. CallsStay({})
      BY <2>3, <2>5, <2>6, NothingAssumption DEF CallsStay
    <2> QED
      BY <1>1, <1>3, <2>6, <2>7, <2>8, <2>9 DEF Crosses, ChannelTypes, Channels
  <1> QED
    BY <1>4, <1>5

(* A desk's channels end, and what of its calls was on them.               *)
LEMMA EndCrosses ==
  ASSUME ChannelTypes, ChannelsFit, NEW d \in Desks, NEW c,
         \/ c = call[d] \/ c = Nothing
         \/ call[d] # Nothing /\ c = [call[d] EXCEPT !.answer = "offline"],
         c # call[d] => \A i \in Nat : ~Awaits(unread'[d], i, Answers),
         call' = [call EXCEPT ![d] = c],
         live' = [live EXCEPT ![d] = FALSE],
         wire' = [wire EXCEPT ![d] = <<>>],
         unread' = unread \/ unread' = [unread EXCEPT ![d] = <<>>]
  PROVE  Crosses({}, {}, {})
  <1>1. /\ live' \in [Desks -> BOOLEAN] /\ live'[d] = FALSE
        /\ wire' \in [Desks -> Seq(FrameSet)] /\ wire'[d] = <<>>
        /\ unread' \in [Desks -> Seq(FrameSet)]
        /\ unread'[d] = unread[d] \/ unread'[d] = <<>>
    <2>1. <<>> \in Seq(FrameSet)
      OBVIOUS
    <2>2. live' \in [Desks -> BOOLEAN] /\ live'[d] = FALSE
      BY DEF ChannelTypes, Channels
    <2>3. wire' \in [Desks -> Seq(FrameSet)] /\ wire'[d] = <<>>
      BY <2>1 DEF ChannelTypes, Channels
    <2>4. CASE unread' = unread
      BY <2>2, <2>3, <2>4 DEF ChannelTypes, Channels
    <2>5. CASE unread' = [unread EXCEPT ![d] = <<>>]
      BY <2>1, <2>2, <2>3, <2>5 DEF ChannelTypes, Channels
    <2> QED
      BY <2>4, <2>5
  <1>2. \A x \in Desks : x # d => /\ live'[x] = live[x] /\ wire'[x] = wire[x]
                                  /\ unread'[x] = unread[x] /\ call'[x] = call[x]
    BY DEF ChannelTypes, Channels
  <1>3. /\ c \in PendingCalls \cup {Nothing}
        /\ \/ c = call[d] \/ c = Nothing
           \/ c.answer = "offline" /\ call[d] # Nothing /\ c.f = call[d].f
    <2>1. call[d] \in PendingCalls \cup {Nothing}
      BY DEF ChannelTypes, Channels
    <2>2. CASE call[d] # Nothing /\ c = [call[d] EXCEPT !.answer = "offline"]
      <3>1. "offline" \in {"none", "offline"} \cup Answers
        OBVIOUS
      <3>2. call[d] \in PendingCalls
        BY <2>1, <2>2
      <3> QED
        BY <2>2, <3>1, <3>2, PendingAnswered
    <2> QED
      BY <2>1, <2>2
  <1>4. call'[d] = c /\ call' \in [Desks -> PendingCalls \cup {Nothing}]
    BY <1>3 DEF ChannelTypes, Channels
  <1>5. c # call[d] => Quiet(live', wire', unread', d)
    BY <1>1 DEF Quiet, Awaits
  <1>6. Thinner(live, wire, unread, call, live', wire', unread', call')
    <2> SUFFICES ASSUME NEW x \in Desks
                 PROVE  /\ live'[x] => live[x]
                        /\ \E k \in Nat : Thins(wire'[x], wire[x], k)
                        /\ \E k \in Nat : Thins(unread'[x], unread[x], k)
                        /\ \/ call'[x] = call[x]
                           \/ /\ Quiet(live', wire', unread', x)
                              /\ call'[x] = Nothing \/ call'[x].answer \notin Answers
      BY DEF Thinner
    <2>0. wire[x] \in Seq(FrameSet) /\ unread[x] \in Seq(FrameSet)
      BY DEF ChannelTypes, Channels
    <2>1. CASE x = d
      <3>1. "offline" \notin Answers
        BY DEF Answers
      <3> QED
        BY <1>1, <1>3, <1>4, <1>5, <2>0, <2>1, <3>1, ThinSame
    <2>2. CASE x # d
      BY <1>2, <2>0, <2>2, ThinSame
    <2> QED
      BY <2>1, <2>2
  <1>7. \A x \in Desks : /\ ~live'[x] => wire'[x] = <<>>
                         /\ ~record[x] => ~live'[x] /\ unread'[x] = <<>>
    BY <1>1, <1>2 DEF ChannelsFit
  <1>8. CallsStay({})
    BY <1>2, <1>3, <1>4 DEF CallsStay
  <1> QED
    BY <1>1, <1>4, <1>6, <1>7, <1>8, ThinnerCrosses DEF Channels

(* A channel closes under a desk,                                          *)
LEMMA ClosesCrosses ==
  ASSUME ChannelTypes, ChannelsFit, NEW d \in Desks, Closes(d)
  PROVE  Crosses({}, {}, {})
  <1> DEFINE c == Offline(d, FALSE)
  <1>1. /\ live' = [live EXCEPT ![d] = FALSE] /\ wire' = [wire EXCEPT ![d] = <<>>]
        /\ call' = [call EXCEPT ![d] = c] /\ unread' = unread
    BY DEF Closes
  <1>2. \/ c = call[d]
        \/ /\ call[d] # Nothing /\ call[d].old = FALSE
           /\ c = [call[d] EXCEPT !.answer = "offline"]
    BY DEF Offline, Answered
  <1>3. c # call[d] => \A i \in Nat : ~Awaits(unread'[d], i, Answers)
    BY <1>1, <1>2 DEF ChannelsFit, FitsAll, Fits
  <1> HIDE DEF c
  <1> QED
    BY <1>1, <1>2, <1>3, EndCrosses

(* a desk forgets the link,                                                *)
LEMMA ForgetCrosses ==
  ASSUME ChannelTypes, ChannelsFit, NEW d \in Desks, Forget(d)
  PROVE  /\ Crosses({}, {}, {}) /\ ~live'[d] /\ unread'[d] = <<>>
  <1> DEFINE c == IF call[d] # Nothing /\ call[d].answer = "none"
                  THEN [call[d] EXCEPT !.answer = "offline"] ELSE call[d]
  <1>1. /\ live' = [live EXCEPT ![d] = FALSE] /\ wire' = [wire EXCEPT ![d] = <<>>]
        /\ call' = [call EXCEPT ![d] = c]
        /\ unread' = [unread EXCEPT ![d] = <<>>]
    BY DEF Forget
  <1>2. \/ c = call[d]
        \/ call[d] # Nothing /\ c = [call[d] EXCEPT !.answer = "offline"]
    OBVIOUS
  <1> HIDE DEF c
  <1>3. ~live'[d] /\ unread'[d] = <<>>
    BY <1>1 DEF ChannelTypes, Channels
  <1>4. \A i \in Nat : ~Awaits(unread'[d], i, Answers)
    BY <1>3 DEF Awaits
  <1>5. Crosses({}, {}, {})
    BY <1>1, <1>2, <1>4, EndCrosses
  <1> QED
    BY <1>3, <1>5

(* a desk restarts,                                                        *)
LEMMA RestartCrosses ==
  ASSUME ChannelTypes, ChannelsFit, NEW d \in Desks, LinkRestarts(d)
  PROVE  Crosses({}, {}, {})
  <1>1. /\ live' = [live EXCEPT ![d] = FALSE] /\ wire' = [wire EXCEPT ![d] = <<>>]
        /\ call' = [call EXCEPT ![d] = Nothing]
        /\ unread' = [unread EXCEPT ![d] = <<>>]
    BY DEF LinkRestarts
  <1>2. unread'[d] = <<>>
    BY <1>1 DEF ChannelTypes, Channels
  <1>3. \A i \in Nat : ~Awaits(unread'[d], i, Answers)
    BY <1>2 DEF Awaits
  <1> QED
    BY <1>1, <1>3, EndCrosses

(* or its task of the channel before ends.                                 *)
LEMMA OldClosesCrosses ==
  ASSUME ChannelTypes, ChannelsFit, NEW d \in Desks, OldCloses(d)
  PROVE  Crosses({}, {}, {})
  <1> DEFINE c == Offline(d, TRUE)
  <1>1. /\ live' = live /\ wire' = wire
        /\ call' = [call EXCEPT ![d] = c] /\ unread' = [unread EXCEPT ![d] = <<>>]
    BY DEF OldCloses
  <1>2. \/ c = call[d]
        \/ /\ call[d] # Nothing /\ call[d].old = TRUE
           /\ c = [call[d] EXCEPT !.answer = "offline"]
    BY DEF Offline, Answered
  <1> HIDE DEF c
  <1>3. /\ unread' \in [Desks -> Seq(FrameSet)] /\ unread'[d] = <<>>
        /\ \A x \in Desks : x # d => unread'[x] = unread[x]
    <2>1. <<>> \in Seq(FrameSet)
      OBVIOUS
    <2> QED
      BY <1>1, <2>1 DEF ChannelTypes, Channels
  <1>4. /\ c \in PendingCalls \cup {Nothing}
        /\ \/ c = call[d]
           \/ c.answer = "offline" /\ call[d] # Nothing /\ c.f = call[d].f
    <2>1. call[d] \in PendingCalls \cup {Nothing}
      BY DEF ChannelTypes, Channels
    <2>2. CASE call[d] # Nothing /\ c = [call[d] EXCEPT !.answer = "offline"]
      <3>1. "offline" \in {"none", "offline"} \cup Answers
        OBVIOUS
      <3>2. call[d] \in PendingCalls
        BY <2>1, <2>2
      <3> QED
        BY <2>2, <3>1, <3>2, PendingAnswered
    <2> QED
      BY <1>2, <2>1, <2>2
  <1>5. /\ call'[d] = c /\ call' \in [Desks -> PendingCalls \cup {Nothing}]
        /\ \A x \in Desks : x # d => call'[x] = call[x]
    BY <1>1, <1>4 DEF ChannelTypes, Channels
  <1>6. c # call[d] => Quiet(live', wire', unread', d)
    <2>1. c # call[d] => call[d].old = TRUE
      BY <1>2
    <2>2. \A i \in Nat : ~Awaits(unread'[d], i, Answers)
      BY <1>3 DEF Awaits
    <2> QED
      BY <1>1, <2>1, <2>2 DEF Quiet, ChannelsFit, FitsAll, Fits
  <1>7. Thinner(live, wire, unread, call, live', wire', unread', call')
    <2> SUFFICES ASSUME NEW x \in Desks
                 PROVE  /\ live'[x] => live[x]
                        /\ \E k \in Nat : Thins(wire'[x], wire[x], k)
                        /\ \E k \in Nat : Thins(unread'[x], unread[x], k)
                        /\ \/ call'[x] = call[x]
                           \/ /\ Quiet(live', wire', unread', x)
                              /\ call'[x] = Nothing \/ call'[x].answer \notin Answers
      BY DEF Thinner
    <2>0. wire[x] \in Seq(FrameSet) /\ unread[x] \in Seq(FrameSet)
      BY DEF ChannelTypes, Channels
    <2>1. "offline" \notin Answers
      BY DEF Answers
    <2> QED
      BY <1>1, <1>3, <1>4, <1>5, <1>6, <2>0, <2>1, ThinSame
  <1>8. CallsStay({})
    BY <1>4, <1>5 DEF CallsStay
  <1>9. \A x \in Desks : /\ ~live'[x] => wire'[x] = <<>>
                         /\ ~record[x] => ~live'[x] /\ unread'[x] = <<>>
    BY <1>1, <1>3 DEF ChannelsFit
  <1> QED
    BY <1>1, <1>3, <1>5, <1>7, <1>8, <1>9, ThinnerCrosses DEF ChannelTypes, Channels

(* Unawaited, of an empty sequence.                                        *)
LEMMA UnawaitedNone ==
  ASSUME NEW kinds
  PROVE  Unawaited(<<>>, kinds) = <<>>
  BY DEF Unawaited

(* A call that waited LINK_TIMEOUT gives up, and what was sent for it, or  *)
(* may come, is nobody's.                                                  *)
LEMMA TimesOutCrosses ==
  ASSUME ChannelTypes, ChannelsFit, NEW d \in Desks, TimesOut(d)
  PROVE  Crosses({}, {}, {})
  <1> DEFINE e == Other(d)
             is == call[d].f.is
             c == [call[d] EXCEPT !.answer = "offline"]
  <1>1. /\ call[d] # Nothing /\ call[d].answer = "none"
        /\ live' = live
        /\ call' = [call EXCEPT ![d] = c]
        /\ wire' = [wire EXCEPT ![d] = Unawaited(@, Answers),
                                ![e] = Unawaited(@, {is})]
        /\ unread' = [unread EXCEPT ![d] = Unawaited(@, Answers),
                                    ![e] = Unawaited(@, {is})]
    BY DEF TimesOut, Answered
  <1>2. e \in Desks /\ e # d /\ Other(e) = d /\ Desks = {d, e}
    BY TheDesks
  <1> HIDE DEF e
  <1>3. /\ c \in PendingCalls /\ c.answer = "offline" /\ c.f = call[d].f
    <2>1. "offline" \in {"none", "offline"} \cup Answers
      OBVIOUS
    <2>2. call[d] \in PendingCalls
      BY <1>1 DEF ChannelTypes, Channels
    <2> QED
      BY <2>1, <2>2, PendingAnswered
  <1> HIDE DEF c, is
  <1>4. /\ call'[d] = c /\ call' \in [Desks -> PendingCalls \cup {Nothing}]
        /\ call'[e] = call[e]
    BY <1>1, <1>2, <1>3 DEF ChannelTypes, Channels
  <1>5. /\ wire[d] \in Seq(FrameSet) /\ wire[e] \in Seq(FrameSet)
        /\ unread[d] \in Seq(FrameSet) /\ unread[e] \in Seq(FrameSet)
    BY <1>2 DEF ChannelTypes, Channels
  <1>6. /\ wire'[d] = Unawaited(wire[d], Answers)
        /\ wire'[e] = Unawaited(wire[e], {is})
        /\ unread'[d] = Unawaited(unread[d], Answers)
        /\ unread'[e] = Unawaited(unread[e], {is})
    BY <1>1, <1>2 DEF ChannelTypes, Channels
  <1>7. /\ wire'[d] \in Seq(FrameSet) /\ Thins(wire'[d], wire[d], 0)
        /\ wire'[e] \in Seq(FrameSet) /\ Thins(wire'[e], wire[e], 0)
        /\ unread'[d] \in Seq(FrameSet) /\ Thins(unread'[d], unread[d], 0)
        /\ unread'[e] \in Seq(FrameSet) /\ Thins(unread'[e], unread[e], 0)
    BY <1>5, <1>6, ThinsUnawaited
  <1>8. \A i \in Nat : /\ ~Awaits(wire'[d], i, Answers)
                       /\ ~Awaits(unread'[d], i, Answers)
                       /\ ~Awaits(wire'[e], i, {is})
    BY <1>5, <1>6, ThinsUnawaited
  <1>9. Quiet(live', wire', unread', d)
    <2>1. ASSUME live[d], NEW i \in Nat, Awaits(wire'[e], i, Commands)
          PROVE  FALSE
      <3>1. 0 \in Nat /\ i + 0 = i
        OBVIOUS
      <3>2. Awaits(wire[e], i, Commands) /\ wire'[e][i].is = wire[e][i].is
        BY <1>7, <2>1, <3>1, ThinsAwaits
      <3>3. wire[e][i].is = is
        BY <2>1, <3>2 DEF ChannelsFit, FitsAll, Fits, e, is
      <3> QED
        BY <1>8, <2>1, <3>2, <3>3 DEF Awaits
    <2> QED
      BY <1>1, <1>8, <2>1 DEF Quiet, e
  <1>10. Thinner(live, wire, unread, call, live', wire', unread', call')
    <2>1. "offline" \notin Answers /\ 0 \in Nat
      BY DEF Answers
    <2> QED
      BY <1>1, <1>2, <1>3, <1>4, <1>7, <1>9, <2>1 DEF Thinner
  <1>11. CallsStay({})
    BY <1>1, <1>2, <1>3, <1>4 DEF CallsStay
  <1>12. \A x \in Desks : /\ ~live'[x] => wire'[x] = <<>>
                          /\ ~record[x] => ~live'[x] /\ unread'[x] = <<>>
    BY <1>1, <1>2, <1>6, UnawaitedNone DEF ChannelsFit
  <1>13. wire' \in [Desks -> Seq(FrameSet)] /\ unread' \in [Desks -> Seq(FrameSet)]
    BY <1>1, <1>2, <1>6, <1>7 DEF ChannelTypes, Channels
  <1> QED
    BY <1>1, <1>4, <1>10, <1>11, <1>12, <1>13, ThinnerCrosses DEF ChannelTypes, Channels

(* A channel opens: the acceptor's call goes on over the channel before.   *)
LEMMA OpensCrosses ==
  ASSUME ChannelTypes, ChannelsFit, Opens
  PROVE  Crosses({}, {}, {})
  <1> DEFINE d == Other(dials)
             c == IF live[d] /\ call[d] # Nothing
                  THEN [call[d] EXCEPT !.old = TRUE] ELSE call[d]
  <1>1. PICK k \in 0 .. Len(wire[d]) :
          unread' = [unread EXCEPT ![d] = SubSeq(wire[d], 1, k)]
    BY DEF Opens
  <1>2. /\ record[dials] /\ record[d]
        /\ unread[d] = <<>> /\ (call[d] # Nothing => ~call[d].old)
        /\ live' = [x \in Desks |-> TRUE]
        /\ call' = [call EXCEPT ![d] = c]
        /\ wire' = [x \in Desks |-> <<Roster>>]
    BY DEF Opens
  <1>3. call' = [call EXCEPT ![d] = IF live[d] /\ @ # Nothing
                                    THEN [@ EXCEPT !.old = TRUE] ELSE @]
    BY <1>2
  <1>4. d \in Desks /\ d # dials /\ Desks = {d, dials}
    BY TheDesks DEF ChannelTypes
  <1> HIDE DEF d
  <1>5. /\ c \in PendingCalls \cup {Nothing}
        /\ call[d] = Nothing => c = Nothing
        /\ call[d] # Nothing => c # Nothing /\ c.f = call[d].f
        /\ live[d] /\ call[d] # Nothing =>
             /\ c # Nothing /\ c.old = TRUE
             /\ c.f = call[d].f /\ c.answer = call[d].answer
    <2>1. call[d] \in PendingCalls \cup {Nothing}
      BY <1>4 DEF ChannelTypes, Channels
    <2>2. CASE live[d] /\ call[d] # Nothing
      BY <2>1, <2>2, PendingOld, NothingAssumption
    <2> QED
      BY <2>1, <2>2
  <1> HIDE DEF c
  <1>6. /\ call'[d] = c /\ call' \in [Desks -> PendingCalls \cup {Nothing}]
        /\ call'[dials] = call[dials]
    BY <1>2, <1>4, <1>5 DEF ChannelTypes, Channels
  <1>7. wire' \in [Desks -> Seq(FrameSet)]
    BY <1>2, FramesTyped
  <1>8. unread' \in [Desks -> Seq(FrameSet)]
    <2>1. wire[d] \in Seq(FrameSet)
      BY <1>4 DEF ChannelTypes, Channels
    <2>2. SubSeq(wire[d], 1, k) \in Seq(FrameSet)
      BY <2>1, ThinsPrefix
    <2> QED
      BY <1>1, <2>2 DEF ChannelTypes, Channels
  <1>9. call[d] # Nothing => call[d].old = FALSE
    <2>1. call[d] \in PendingCalls \cup {Nothing}
      BY <1>4 DEF ChannelTypes, Channels
    <2> QED
      BY <1>2, <2>1 DEF PendingCalls
  <1>10. Carries(live, wire, unread, call, live', wire', unread', call', {}, {}, {})
    BY <1>1, <1>2, <1>3, <1>4, <1>5, <1>6, <1>9, OpenCarries
       DEF ChannelTypes, ChannelsFit
  <1>11. CallsStay({})
    BY <1>4, <1>5, <1>6 DEF CallsStay
  <1>12. \A x \in Desks : live'[x] /\ record[x]
    BY <1>2, <1>4
  <1>13. live' \in [Desks -> BOOLEAN]
    BY <1>2
  <1> QED
    BY <1>6, <1>7, <1>8, <1>10, <1>11, <1>12, <1>13 DEF Crosses, Channels

(* unlink says goodbye on the channel,                                     *)
LEMMA UnlinkCrosses ==
  ASSUME ChannelTypes, ChannelsFit, NEW d \in Desks, Unlink(d)
  PROVE  Crosses({}, {}, {})
  <1> DEFINE e == Other(d)
  <1>1. /\ live' = live /\ unread' = unread /\ call' = call
        /\ wire' = IF live[d] /\ live[e] THEN [wire EXCEPT ![e] = Append(@, Goodbye)]
                   ELSE wire
    BY DEF Unlink, Put
  <1>2. e \in Desks
    BY TheDesks
  <1> HIDE DEF e
  <1>3. wire[e] \in Seq(FrameSet) /\ Append(wire[e], Goodbye) \in Seq(FrameSet)
    BY <1>2, FramesTyped DEF ChannelTypes, Channels
  <1>4. wire' \in [Desks -> Seq(FrameSet)]
    BY <1>1, <1>3 DEF ChannelTypes, Channels
  <1>5. \A x \in Desks : \/ wire'[x] = wire[x]
                         \/ live[x] /\ wire'[x] = Append(wire[x], Goodbye)
    BY <1>1, <1>2 DEF ChannelTypes, Channels
  <1>6. Thinner(live, wire, unread, call, live', wire', unread', call')
    <2> SUFFICES ASSUME NEW x \in Desks
                 PROVE  /\ \E k \in Nat : Thins(wire'[x], wire[x], k)
                        /\ \E k \in Nat : Thins(unread[x], unread[x], k)
      BY <1>1 DEF Thinner
    <2>1. wire[x] \in Seq(FrameSet) /\ unread[x] \in Seq(FrameSet)
      BY DEF ChannelTypes, Channels
    <2> QED
      BY <1>5, <2>1, ThinSame
  <1>7. CallsStay({})
    BY <1>1 DEF CallsStay
  <1>8. \A x \in Desks : /\ ~live'[x] => wire'[x] = <<>>
                         /\ ~record[x] => ~live'[x] /\ unread'[x] = <<>>
    BY <1>1, <1>5 DEF ChannelsFit
  <1> QED
    BY <1>1, <1>4, <1>6, <1>7, <1>8, ThinnerCrosses DEF ChannelTypes, Channels

(* and the other desk may fail to end its side, and leave it unread.       *)
LEMMA UnlinkFailsCrosses ==
  ASSUME ChannelTypes, ChannelsFit, NEW d \in Desks, UnlinkFails(d)
  PROVE  Crosses({}, {}, {})
  <1>1. /\ live' = live /\ call' = call
        /\ wire' = [wire EXCEPT ![d] = Refusing(@)]
        /\ unread' = [unread EXCEPT ![d] = Refusing(@)]
    BY DEF UnlinkFails
  <1>2. /\ wire[d] \in Seq(FrameSet) /\ unread[d] \in Seq(FrameSet)
        /\ Refusing(<<>>) = <<>>
    BY DEF ChannelTypes, Channels, Refusing
  <1>3. /\ Refusing(wire[d]) \in Seq(FrameSet) /\ Refusing(unread[d]) \in Seq(FrameSet)
        /\ \E k \in Nat : Thins(Refusing(wire[d]), wire[d], k)
        /\ \E k \in Nat : Thins(Refusing(unread[d]), unread[d], k)
    BY <1>2, ThinsRefusing
  <1>4. wire' \in [Desks -> Seq(FrameSet)] /\ unread' \in [Desks -> Seq(FrameSet)]
    BY <1>1, <1>3 DEF ChannelTypes, Channels
  <1>5. \A x \in Desks :
          /\ wire'[x] = IF x = d THEN Refusing(wire[d]) ELSE wire[x]
          /\ unread'[x] = IF x = d THEN Refusing(unread[d]) ELSE unread[x]
    BY <1>1 DEF ChannelTypes, Channels
  <1>6. Thinner(live, wire, unread, call, live', wire', unread', call')
    <2> SUFFICES ASSUME NEW x \in Desks
                 PROVE  /\ \E k \in Nat : Thins(wire'[x], wire[x], k)
                        /\ \E k \in Nat : Thins(unread'[x], unread[x], k)
      BY <1>1 DEF Thinner
    <2>1. wire[x] \in Seq(FrameSet) /\ unread[x] \in Seq(FrameSet)
      BY DEF ChannelTypes, Channels
    <2> QED
      BY <1>3, <1>5, <2>1, ThinSame
  <1>7. CallsStay({})
    BY <1>1 DEF CallsStay
  <1>8. \A x \in Desks : /\ ~live'[x] => wire'[x] = <<>>
                         /\ ~record[x] => ~live'[x] /\ unread'[x] = <<>>
    BY <1>1, <1>2, <1>5 DEF ChannelsFit
  <1> QED
    BY <1>1, <1>4, <1>6, <1>7, <1>8, ThinnerCrosses DEF ChannelTypes, Channels

(* The records of a request, on its sender's desk and on the answerer's.   *)
AskedSet == [phase : {"unsent", "queued", "running", "reply", "done", "stopped"},
             handoff : BOOLEAN,
             by : {"nobody", "answer", "failure", "person", "asker"},
             lease : BOOLEAN]
WorkSet == [phase : {"absent", "queued", "running", "reply", "sending", "done",
                     "stopped"},
            handoff : BOOLEAN, begun : BOOLEAN, failed : BOOLEAN,
            byPerson : BOOLEAN, owed : {"no", "yes", "told"}, lease : BOOLEAN,
            link : Nat]
RequestTypes ==
  /\ asked \in [Requests -> AskedSet] /\ work \in [Requests -> WorkSet]
  /\ note \in [Requests -> {"none", "kept", "sent", "dropped"}]
  /\ begins \in [Requests -> Nat] /\ keeps \in [Requests -> Nat]

(* A request nobody waits for on its sender's desk; one whose answer, or   *)
(* whose stop, may be on its way; one whose end was said.                  *)
OverAtAsker(a) == a.phase \in {"reply", "done", "stopped"}
Returnable(x) == \/ x.phase \in {"reply", "sending", "done"}
                 \/ x.phase = "stopped" /\ x.byPerson = FALSE
Stoppable(x) == x.phase = "stopped" /\ x.byPerson = TRUE
Ignored(x) == x.phase = "stopped" /\ (x.byPerson = FALSE \/ x.owed = "no")
ToldOf(x) == x.phase = "done" \/ x.owed = "told"
Gone(r) == r \in unkept \/ OverAtAsker(asked[r])
Excused(r) == r \in turned \cup unkept \/ Ignored(work[r])

(* Each desk calls only what it has to call.                               *)
CallsOk == /\ call[Asker] # Nothing => call[Asker].f.is = "request"
           /\ call[Answerer] # Nothing => call[Answerer].f.is # "request"

(* What is to be read is true: a request was written down, a result is of  *)
(* work that is over, a stop of work that a person stopped.                *)
FramesOk ==
  \A r \in Requests :
    /\ On(wire, unread, Answerer, "request", r) => asked[r].phase # "unsent"
    /\ On(wire, unread, Asker, "result", r) => Returnable(work[r])
    /\ On(wire, unread, Asker, "stop", r) => Stoppable(work[r])

(* What is answered is true: who is told a result or a stop was taken, or  *)
(* that there is no such request, is told of a request that is over on its *)
(* sender's desk; a refused request is one that the answerer turned away or*)
(* ended itself.                                                           *)
AnswersOk ==
  \A r \in Requests :
    /\ \A is \in {"result", "stop"}, a \in Answers :
         Says(wire, unread, call, Answerer, is, r, a) => Gone(r)
    /\ Says(wire, unread, call, Asker, "request", r, "refused") => Excused(r)

(* A request that is sent again while its caller waits comes before its    *)
(* sender is told of its work's end: it is not refused, then, for work that*)
(* went well.                                                              *)
AsksOk ==
  \A r \in Requests \ unkept, i \in Nat :
    Asks(live, wire, i, r) => /\ ~ToldOf(work[r])
                              /\ ~Before(wire, unread, call, i, r)

(* What was told is so, and a failure has a reason.                        *)
EndsOk ==
  \A r \in Requests :
    /\ ToldOf(work[r]) => Gone(r)
    /\ asked[r].by = "failure" => Excused(r) \/ work[r].failed = TRUE

(* A record of a request, and that of what is asked, fit.                  *)
WorkFits(x, a, b, k, rec, n) ==
  /\ x.phase = "absent" => x.begun = FALSE /\ x.failed = FALSE /\ b = 0
  /\ x.phase # "absent" => a.phase # "unsent" /\ a.handoff = x.handoff
  /\ x.phase \in {"queued", "running"} => x.failed = FALSE
  /\ x.phase # "stopped" => x.byPerson = FALSE /\ x.owed = "no"
  /\ x.byPerson = TRUE => x.handoff = TRUE /\ x.failed = FALSE
  /\ b = 0 \/ (b = 1 /\ x.begun = TRUE)
  /\ k \in {0, 1}
  /\ x.link <= n
  /\ x.lease = TRUE /\ x.phase # "absent" => x.link = 0 \/ (rec = TRUE /\ x.link = n)
WorkOk == \A r \in Requests : WorkFits(work[r], asked[r], begins[r], keeps[r],
                                       record[Answerer], links)

(* The inductive invariant. ChannelsFit is about the channels alone, WorkOk*)
(* about the two records of a request, and the five others relate the two. *)
LinksInv == /\ ChannelTypes /\ ChannelsFit /\ RequestTypes /\ WorkOk
            /\ CallsOk /\ FramesOk /\ AnswersOk /\ AsksOk /\ EndsOk

(* What a step may do to a request's record on either desk.                *)
AskedGoes(a, b) ==
  /\ a.phase # "unsent" => b.phase # "unsent" /\ b.handoff = a.handoff
  /\ OverAtAsker(a) => OverAtAsker(b)
WorkGoes(x, y) ==
  /\ Returnable(x) => Returnable(y)
  /\ Stoppable(x) => Stoppable(y)
  /\ Ignored(x) => Ignored(y)
  /\ x.failed = TRUE => y.failed = TRUE

(* The answerer's desk has the answer to what it told of a request.        *)
HasAnswer(r) == /\ call[Answerer] # Nothing /\ call[Answerer].f.of = r
                /\ call[Answerer].f.is \in {"result", "stop"}
                /\ call[Answerer].answer \in Answers

(* What a step may do to all the records: none goes back, and only an      *)
(* answer makes it that a sender was told.                                 *)
Follows ==
  /\ unkept \subseteq unkept' /\ turned \subseteq turned'
  /\ \A r \in Requests :
       /\ AskedGoes(asked[r], asked'[r]) /\ WorkGoes(work[r], work'[r])
       /\ ToldOf(work'[r]) => ToldOf(work[r]) \/ HasAnswer(r)
       /\ asked'[r].by = "failure" =>
            asked[r].by = "failure" \/ Excused(r)' \/ work'[r].failed = TRUE

(* What a step may put on the channels, answer, and ask.                   *)
PutsOk(puts) ==
  \A is \in Commands, r \in Requests :
    /\ <<Answerer, is, r>> \in puts => is = "request" /\ asked'[r].phase # "unsent"
    /\ <<Asker, is, r>> \in puts =>
         /\ is # "request"
         /\ is = "result" => Returnable(work'[r])
         /\ is = "stop" => Stoppable(work'[r])
SaysOk(says) ==
  \A is \in Commands, r \in Requests, a \in Answers :
    /\ <<Answerer, is, r, a>> \in says => (is \in {"result", "stop"} => Gone(r)')
    /\ <<Asker, is, r, a>> \in says =>
         (is = "request" /\ a = "refused" => Excused(r)')
NewAsksOk(asks, says) ==
  /\ asks = {} \/ says = {}
  /\ \A r \in asks : r \in unkept' \/ (~ToldOf(work'[r]) /\ ~Gone(r))

(* What a step keeps of a request's end stays.                             *)
LEMMA GoesKeeps ==
  ASSUME Follows, NEW r \in Requests
  PROVE  /\ Gone(r) => Gone(r)'
         /\ Excused(r) => Excused(r)'
  BY DEF Follows, Gone, Excused, AskedGoes, WorkGoes

(* A call is of a command, and of a request.                               *)
LEMMA CallIs ==
  ASSUME ChannelTypes, NEW d \in Desks, call[d] # Nothing
  PROVE  /\ call[d].f.is \in Commands /\ call[d].f.of \in Requests
         /\ call[d].answer \in {"none", "offline"} \cup Answers
  BY DEF ChannelTypes, Channels, PendingCalls, Commands

(* The heart of the argument: a step whose records go on as they may, and  *)
(* whose channels carry only what is allowed, keeps what relates the two.  *)
LEMMA Mixed ==
  ASSUME LinksInv, Follows, NEW puts, NEW says, NEW asks, Crosses(puts, says, asks),
         PutsOk(puts), SaysOk(says), NewAsksOk(asks, says)
  PROVE  CallsOk' /\ FramesOk' /\ AnswersOk' /\ AsksOk' /\ EndsOk'
  <1>1. "request" \in Commands /\ "result" \in Commands /\ "stop" \in Commands
        /\ Asker \in Desks /\ Answerer \in Desks
        /\ Other(Asker) = Answerer /\ Other(Answerer) = Asker
    BY TheDesks DEF Commands
  <1>2. Carries(live, wire, unread, call, live', wire', unread', call', puts, says, asks)
    BY DEF Crosses
  <1>3. Channels(live', wire', unread', call')
    BY DEF Crosses
  <1>4. CallsOk'
    <2>1. \A d \in Desks : call'[d] # Nothing =>
            call'[d].f.is \in Commands /\ call'[d].f.of \in Requests
      BY <1>3 DEF Channels, PendingCalls, Commands
    <2>2. call'[Asker] # Nothing => call'[Asker].f.is = "request"
      BY <1>1, <2>1 DEF Crosses, CallsStay, PutsOk, LinksInv, CallsOk
    <2>3. call'[Answerer] # Nothing => call'[Answerer].f.is # "request"
      BY <1>1, <2>1 DEF Crosses, CallsStay, PutsOk, LinksInv, CallsOk
    <2> QED
      BY <2>2, <2>3 DEF CallsOk
  <1>5. FramesOk'
    <2> SUFFICES ASSUME NEW r \in Requests
                 PROVE  /\ On(wire', unread', Answerer, "request", r) =>
                             asked'[r].phase # "unsent"
                        /\ On(wire', unread', Asker, "result", r) => Returnable(work'[r])
                        /\ On(wire', unread', Asker, "stop", r) => Stoppable(work'[r])
      BY DEF FramesOk
    <2>1. /\ asked[r].phase # "unsent" => asked'[r].phase # "unsent"
          /\ Returnable(work[r]) => Returnable(work'[r])
          /\ Stoppable(work[r]) => Stoppable(work'[r])
      BY DEF Follows, AskedGoes, WorkGoes
    <2>2. On(wire', unread', Answerer, "request", r) => asked'[r].phase # "unsent"
      BY <1>1, <1>2, <2>1 DEF Carries, PutsOk, LinksInv, FramesOk
    <2>3. On(wire', unread', Asker, "result", r) => Returnable(work'[r])
      BY <1>1, <1>2, <2>1 DEF Carries, PutsOk, LinksInv, FramesOk
    <2>4. On(wire', unread', Asker, "stop", r) => Stoppable(work'[r])
      BY <1>1, <1>2, <2>1 DEF Carries, PutsOk, LinksInv, FramesOk
    <2> QED
      BY <2>2, <2>3, <2>4
  <1>6. AnswersOk'
    <2>1. ASSUME NEW r \in Requests, NEW is \in {"result", "stop"}, NEW a \in Answers,
                 Says(wire', unread', call', Answerer, is, r, a)
          PROVE  Gone(r)'
      <3>1. is \in Commands
        BY <1>1
      <3>2. CASE Says(wire, unread, call, Answerer, is, r, a)
        BY <3>2, GoesKeeps DEF LinksInv, AnswersOk
      <3>3. CASE <<Answerer, is, r, a>> \in says
        BY <3>1, <3>3 DEF SaysOk
      <3> QED
        BY <1>1, <1>2, <2>1, <3>1, <3>2, <3>3 DEF Carries
    <2>2. ASSUME NEW r \in Requests,
                 Says(wire', unread', call', Asker, "request", r, "refused")
          PROVE  Excused(r)'
      <3>1. "refused" \in Answers
        BY DEF Answers
      <3>2. CASE Says(wire, unread, call, Asker, "request", r, "refused")
        BY <3>2, GoesKeeps DEF LinksInv, AnswersOk
      <3>3. CASE <<Asker, "request", r, "refused">> \in says
        BY <1>1, <3>1, <3>3 DEF SaysOk
      <3> QED
        BY <1>1, <1>2, <2>2, <3>1, <3>2, <3>3 DEF Carries
    <2> QED
      BY <2>1, <2>2 DEF AnswersOk
  <1>7. AsksOk'
    <2> SUFFICES ASSUME NEW r \in Requests \ unkept', NEW i \in Nat,
                        Asks(live', wire', i, r)
                 PROVE  ~ToldOf(work'[r]) /\ ~Before(wire', unread', call', i, r)
      BY DEF AsksOk
    <2>0. r \in Requests /\ r \notin unkept /\ r \notin unkept'
      BY DEF Follows
    <2>1. CASE r \in asks
      <3>1. ~ToldOf(work'[r]) /\ ~Gone(r) /\ says = {}
        BY <2>0, <2>1 DEF NewAsksOk
      <3>2. ASSUME Before(wire', unread', call', i, r)
            PROVE  FALSE
        <4>1. PICK is \in {"result", "stop"}, a \in Answers :
                Says(wire', unread', call', Answerer, is, r, a)
          BY <3>2 DEF Before, Says, Awaits
        <4>2. is \in Commands
          BY <1>1
        <4>3. Says(wire, unread, call, Answerer, is, r, a)
          BY <1>1, <1>2, <2>0, <3>1, <4>1, <4>2 DEF Carries
        <4> QED
          BY <2>0, <3>1, <4>3 DEF LinksInv, AnswersOk
      <3> QED
        BY <3>1, <3>2
    <2>2. CASE r \notin asks
      <3>1. PICK j \in Nat : /\ Asks(live, wire, j, r)
                             /\ Before(wire', unread', call', i, r) =>
                                  Before(wire, unread, call, j, r)
        BY <1>2, <2>0, <2>2 DEF Carries
      <3>2. ~ToldOf(work[r]) /\ ~Before(wire, unread, call, j, r)
        BY <2>0, <3>1 DEF LinksInv, AsksOk
      <3>3. ~HasAnswer(r)
        BY <3>2 DEF HasAnswer, Before
      <3> QED
        BY <2>0, <3>1, <3>2, <3>3 DEF Follows
    <2> QED
      BY <2>1, <2>2
  <1>8. EndsOk'
    <2>1. ASSUME NEW r \in Requests, ToldOf(work'[r])
          PROVE  Gone(r)'
      <3>1. CASE ToldOf(work[r])
        BY <3>1, GoesKeeps DEF LinksInv, EndsOk
      <3>2. CASE HasAnswer(r)
        <4>1. Says(wire, unread, call, Answerer, call[Answerer].f.is, r,
                   call[Answerer].answer)
          BY <3>2 DEF HasAnswer, Says
        <4>2. call[Answerer].f.is \in {"result", "stop"} /\ call[Answerer].answer \in Answers
          BY <3>2 DEF HasAnswer
        <4> QED
          BY <4>1, <4>2, GoesKeeps DEF LinksInv, AnswersOk
      <3> QED
        BY <2>1, <3>1, <3>2 DEF Follows
    <2>2. ASSUME NEW r \in Requests, asked'[r].by = "failure"
          PROVE  Excused(r)' \/ work'[r].failed = TRUE
      BY <2>2, GoesKeeps DEF LinksInv, EndsOk, Follows, WorkGoes
    <2> QED
      BY <2>1, <2>2 DEF EndsOk
  <1> QED
    BY <1>4, <1>5, <1>6, <1>7, <1>8

(* A record that stays goes on as it may.                                  *)
LEMMA GoesSame ==
  \A a, x : AskedGoes(a, a) /\ WorkGoes(x, x)
  BY DEF AskedGoes, WorkGoes

(* A step that leaves both desks' records as they are.                     *)
LEMMA RecordsStay ==
  ASSUME LinksInv, UNCHANGED <<asked, work, begins, keeps, unkept, turned>>,
         record'[Answerer] = record[Answerer], links' = links,
         note' \in [Requests -> {"none", "kept", "sent", "dropped"}]
  PROVE  Follows /\ RequestTypes' /\ WorkOk'
  <1>1. Follows
    BY GoesSame DEF Follows
  <1>2. RequestTypes'
    BY DEF LinksInv, RequestTypes
  <1>3. WorkOk'
    BY DEF LinksInv, WorkOk
  <1> QED
    BY <1>1, <1>2, <1>3

(* A record of work fits what its sender's became.                         *)
LEMMA FitsAsked ==
  ASSUME NEW x, NEW a, NEW b, NEW m, NEW k, NEW rec, NEW n,
         WorkFits(x, a, m, k, rec, n), AskedGoes(a, b)
  PROVE  WorkFits(x, b, m, k, rec, n)
  BY DEF WorkFits, AskedGoes

(* A step of the asker's desk, of one request or of them all.              *)
LEMMA AskedMoves ==
  ASSUME LinksInv, UNCHANGED <<work, begins, keeps, turned>>,
         record'[Answerer] = record[Answerer], links' = links,
         note' \in [Requests -> {"none", "kept", "sent", "dropped"}],
         unkept \subseteq unkept', asked' \in [Requests -> AskedSet],
         \A r \in Requests :
           /\ AskedGoes(asked[r], asked'[r])
           /\ asked'[r].by = "failure" =>
                \/ asked[r].by = "failure" \/ Excused(r) \/ r \in unkept'
                \/ work[r].failed = TRUE
  PROVE  Follows /\ RequestTypes' /\ WorkOk'
  <1>1. Follows
    <2>1. \A r \in Requests : Excused(r) \/ r \in unkept' => Excused(r)'
      BY DEF Excused
    <2> QED
      BY <2>1, GoesSame DEF Follows
  <1>2. RequestTypes'
    BY DEF LinksInv, RequestTypes
  <1>3. WorkOk'
    BY FitsAsked DEF LinksInv, WorkOk
  <1> QED
    BY <1>1, <1>2, <1>3

(* A step of the answerer's.                                               *)
LEMMA WorkMoves ==
  ASSUME LinksInv, UNCHANGED <<asked, keeps, unkept>>,
         note' \in [Requests -> {"none", "kept", "sent", "dropped"}],
         turned \subseteq turned', begins' \in [Requests -> Nat],
         work' \in [Requests -> WorkSet],
         \A r \in Requests :
           /\ WorkFits(work'[r], asked[r], begins'[r], keeps[r],
                       record'[Answerer], links')
           /\ WorkGoes(work[r], work'[r])
           /\ ToldOf(work'[r]) => ToldOf(work[r]) \/ HasAnswer(r)
  PROVE  Follows /\ RequestTypes' /\ WorkOk'
  <1>1. Follows
    BY GoesSame DEF Follows
  <1>2. RequestTypes'
    BY DEF LinksInv, RequestTypes
  <1>3. WorkOk'
    BY DEF WorkOk
  <1> QED
    BY <1>1, <1>2, <1>3

(* A step that puts, says and asks nothing is allowed.                     *)
LEMMA NothingNew == PutsOk({}) /\ SaysOk({}) /\ NewAsksOk({}, {})
  BY DEF PutsOk, SaysOk, NewAsksOk

(* The fields of a record changed.                                         *)
LEMMA AskedPhase ==
  ASSUME NEW a \in AskedSet,
         NEW p \in {"unsent", "queued", "running", "reply", "done", "stopped"}
  PROVE  /\ [a EXCEPT !.phase = p] \in AskedSet
         /\ [a EXCEPT !.phase = p].phase = p
         /\ [a EXCEPT !.phase = p].by = a.by
         /\ [a EXCEPT !.phase = p].handoff = a.handoff
  BY ZenonT(30) DEF AskedSet

(* The same, of a record that ends,                                        *)
LEMMA AskedEnd ==
  ASSUME NEW a \in AskedSet,
         NEW p \in {"unsent", "queued", "running", "reply", "done", "stopped"},
         NEW b \in {"nobody", "answer", "failure", "person", "asker"}
  PROVE  /\ [a EXCEPT !.phase = p, !.by = b] \in AskedSet
         /\ [a EXCEPT !.phase = p, !.by = b].phase = p
         /\ [a EXCEPT !.phase = p, !.by = b].by = b
         /\ [a EXCEPT !.phase = p, !.by = b].handoff = a.handoff
  BY ZenonT(30) DEF AskedSet

(* and of its lease.                                                       *)
LEMMA AskedLease ==
  ASSUME NEW a \in AskedSet, NEW l \in BOOLEAN
  PROVE  /\ [a EXCEPT !.lease = l] \in AskedSet
         /\ [a EXCEPT !.lease = l].phase = a.phase
         /\ [a EXCEPT !.lease = l].by = a.by
         /\ [a EXCEPT !.lease = l].handoff = a.handoff
  BY ZenonT(30) DEF AskedSet

(* One request's record changes on its sender's desk.                      *)
LEMMA AskedAt ==
  ASSUME LinksInv, NEW r \in Requests, NEW b \in AskedSet,
         AskedGoes(asked[r], b), asked' = [asked EXCEPT ![r] = b],
         b.by = "failure" => \/ asked[r].by = "failure" \/ Excused(r)
                             \/ work[r].failed = TRUE
  PROVE  /\ asked' \in [Requests -> AskedSet]
         /\ \A q \in Requests :
              /\ AskedGoes(asked[q], asked'[q])
              /\ asked'[q].by = "failure" =>
                   \/ asked[q].by = "failure" \/ Excused(q) \/ q \in unkept'
                   \/ work[q].failed = TRUE
  <1>1. asked \in [Requests -> AskedSet]
    BY DEF LinksInv, RequestTypes
  <1>2. /\ asked' \in [Requests -> AskedSet]
        /\ \A q \in Requests : asked'[q] = IF q = r THEN b ELSE asked[q]
    BY <1>1
  <1> QED
    BY <1>2, GoesSame

(* The asker writes a request down, before it is sent.                     *)
LEMMA SendsGoes ==
  ASSUME LinksInv, NEW r \in Requests, Sends(r)
  PROVE  Follows /\ RequestTypes' /\ WorkOk'
  <1>1. PICK h \in BOOLEAN :
          asked' = [asked EXCEPT ![r] = [Unsent EXCEPT !.phase = "queued",
                                                       !.handoff = h]]
    BY DEF Sends
  <1> DEFINE b == [Unsent EXCEPT !.phase = "queued", !.handoff = h]
  <1>2. b \in AskedSet /\ b.by = "nobody" /\ b.phase = "queued"
    BY DEF Unsent, AskedSet
  <1>3. asked' = [asked EXCEPT ![r] = b] /\ asked[r].phase = "unsent"
    BY <1>1 DEF Sends
  <1> HIDE DEF b
  <1>4. AskedGoes(asked[r], b)
    BY <1>3 DEF AskedGoes, OverAtAsker
  <1>7. /\ UNCHANGED <<work, begins, keeps, turned>> /\ unkept' = unkept
        /\ record' = record /\ links' = links
        /\ note' \in [Requests -> {"none", "kept", "sent", "dropped"}]
    BY DEF Sends, linkVars, LinksInv, RequestTypes
  <1> QED
    BY <1>2, <1>3, <1>4, <1>7, AskedAt, AskedMoves

(* What is still pending on the asker's desk is stopped.                   *)
LEMMA StopGoes ==
  ASSUME LinksInv, NEW a \in AskedSet, NEW b,
         \/ b = [a EXCEPT !.phase = "stopped"]
         \/ b = [a EXCEPT !.phase = "stopped", !.by = "asker"]
  PROVE  /\ b \in AskedSet /\ AskedGoes(a, b)
         /\ b.by = "failure" => a.by = "failure"
  <1>1. "stopped" \in {"unsent", "queued", "running", "reply", "done", "stopped"}
        /\ "asker" \in {"nobody", "answer", "failure", "person", "asker"}
    OBVIOUS
  <1>2. /\ b \in AskedSet /\ b.phase = "stopped" /\ b.handoff = a.handoff
        /\ b.by = a.by \/ b.by = "asker"
    <2>1. CASE b = [a EXCEPT !.phase = "stopped"]
      BY <1>1, <2>1, AskedPhase, Zenon
    <2>2. CASE b = [a EXCEPT !.phase = "stopped", !.by = "asker"]
      BY <2>2, ZenonT(30) DEF AskedSet
    <2> QED
      BY <2>1, <2>2
  <1> QED
    BY <1>2 DEF AskedGoes, OverAtAsker

(* The sweep after a link's end, or the asker, stops a request.            *)
LEMMA AskerSweepsGoes ==
  ASSUME LinksInv, NEW r \in Requests, AskerSweeps(r) \/ AskerStops(r)
  PROVE  Follows /\ RequestTypes' /\ WorkOk'
  <1>1. /\ UNCHANGED <<work, begins, keeps, turned>> /\ unkept' = unkept
        /\ record' = record /\ links' = links
        /\ note' \in [Requests -> {"none", "kept", "sent", "dropped"}]
    BY DEF AskerSweeps, AskerStops, linkVars, LinksInv, RequestTypes
  <1>2. asked \in [Requests -> AskedSet] /\ asked[r] \in AskedSet
    BY DEF LinksInv, RequestTypes
  <1>3. PICK b : /\ asked' = [asked EXCEPT ![r] = b]
                 /\ \/ b = [asked[r] EXCEPT !.phase = "stopped"]
                    \/ b = [asked[r] EXCEPT !.phase = "stopped", !.by = "asker"]
    <2>1. CASE AskerSweeps(r)
      <3>1. asked' = [asked EXCEPT ![r] = [asked[r] EXCEPT !.phase = "stopped"]]
        BY <2>1 DEF AskerSweeps
      <3> QED
        BY <3>1
    <2>2. CASE AskerStops(r)
      <3>1. asked' = [asked EXCEPT ![r] = [asked[r] EXCEPT !.phase = "stopped",
                                                           !.by = "asker"]]
        BY <1>2, <2>2 DEF AskerStops
      <3> QED
        BY <3>1
    <2> QED
      BY <2>1, <2>2
  <1>4. b \in AskedSet /\ AskedGoes(asked[r], b)
        /\ (b.by = "failure" => asked[r].by = "failure")
    BY <1>2, <1>3, StopGoes
  <1> QED
    BY <1>1, <1>3, <1>4, AskedAt, AskedMoves

(* The asker's desk delivers an answer it has kept.                        *)
LEMMA DeliversGoes ==
  ASSUME LinksInv, NEW r \in Requests, Delivers(r)
  PROVE  Follows /\ RequestTypes' /\ WorkOk'
  <1>1. /\ UNCHANGED <<work, begins, keeps, turned>> /\ unkept' = unkept
        /\ record' = record /\ links' = links
        /\ note' \in [Requests -> {"none", "kept", "sent", "dropped"}]
        /\ asked' = [asked EXCEPT ![r] = [asked[r] EXCEPT !.phase = "done"]]
    BY DEF Delivers, linkVars, LinksInv, RequestTypes
  <1> DEFINE b == [asked[r] EXCEPT !.phase = "done"]
  <1>2. asked \in [Requests -> AskedSet] /\ asked[r] \in AskedSet
    BY DEF LinksInv, RequestTypes
  <1>3. b \in AskedSet /\ b.phase = "done" /\ b.by = asked[r].by
        /\ b.handoff = asked[r].handoff
    BY <1>2, AskedPhase
  <1>4. asked' = [asked EXCEPT ![r] = b]
    BY <1>1
  <1> HIDE DEF b
  <1>5. AskedGoes(asked[r], b)
    BY <1>3 DEF AskedGoes, OverAtAsker
  <1> QED
    BY <1>1, <1>3, <1>4, <1>5, AskedAt, AskedMoves

(* forward_linked_request: the answer to the request says whether the other*)
(* desk took it, refused it, or was not reached.                           *)
LEMMA ForwardedGoes ==
  ASSUME LinksInv, NEW r \in Requests, Forwarded(r)
  PROVE  Follows /\ RequestTypes' /\ WorkOk'
  <1>1. /\ UNCHANGED <<work, begins, keeps, turned>> /\ unkept' = unkept
        /\ record' = record /\ links' = links
        /\ note' \in [Requests -> {"none", "kept", "sent", "dropped"}]
    BY DEF Forwarded, Returns, LinksInv, RequestTypes
  <1>2. asked \in [Requests -> AskedSet] /\ asked[r] \in AskedSet
    BY DEF LinksInv, RequestTypes
  <1>3. \/ asked' = asked
        \/ /\ Answered(Asker, "refused")
           /\ asked' = [asked EXCEPT ![r] = Failed(asked[r])]
        \/ asked' = [asked EXCEPT ![r] = [asked[r] EXCEPT !.phase =
                       IF asked[r].phase = "queued" THEN "running" ELSE asked[r].phase]]
    BY DEF Forwarded
  <1>4. CASE asked' = asked
    <2>1. \A q \in Requests : AskedGoes(asked[q], asked'[q])
      BY <1>4, GoesSame
    <2> QED
      BY <1>1, <1>2, <1>4, <2>1, AskedMoves
  <1>5. CASE /\ Answered(Asker, "refused")
             /\ asked' = [asked EXCEPT ![r] = Failed(asked[r])]
    <2>1. Says(wire, unread, call, Asker, "request", r, "refused")
      BY <1>5 DEF Forwarded, Returned, Answered, Says
    <2>2. Excused(r)
      BY <2>1 DEF LinksInv, AnswersOk
    <2>3. "reply" \in {"unsent", "queued", "running", "reply", "done", "stopped"}
          /\ "failure" \in {"nobody", "answer", "failure", "person", "asker"}
      OBVIOUS
    <2>4. \/ Failed(asked[r]) = asked[r]
          \/ /\ Open(asked[r].phase)
             /\ Failed(asked[r]) = [asked[r] EXCEPT !.phase = "reply", !.by = "failure"]
      BY DEF Failed
    <2>5. Failed(asked[r]) \in AskedSet /\ AskedGoes(asked[r], Failed(asked[r]))
      <3>1. CASE Failed(asked[r]) = asked[r]
        BY <1>2, <3>1, GoesSame
      <3>2. CASE Failed(asked[r]) = [asked[r] EXCEPT !.phase = "reply", !.by = "failure"]
        <4>1. /\ Failed(asked[r]) \in AskedSet /\ Failed(asked[r]).phase = "reply"
              /\ Failed(asked[r]).handoff = asked[r].handoff
          BY <1>2, <3>2, ZenonT(30) DEF AskedSet
        <4> QED
          BY <4>1 DEF AskedGoes, OverAtAsker
      <3> QED
        BY <2>4, <3>1, <3>2
    <2> QED
      BY <1>1, <1>5, <2>2, <2>5, AskedAt, AskedMoves
  <1>6. CASE asked' = [asked EXCEPT ![r] = [asked[r] EXCEPT !.phase =
                       IF asked[r].phase = "queued" THEN "running" ELSE asked[r].phase]]
    <2> DEFINE p == IF asked[r].phase = "queued" THEN "running" ELSE asked[r].phase
               b == [asked[r] EXCEPT !.phase = p]
    <2>1. p \in {"unsent", "queued", "running", "reply", "done", "stopped"}
          /\ (p = asked[r].phase \/ (asked[r].phase = "queued" /\ p = "running"))
      BY <1>2 DEF AskedSet
    <2>2. asked' = [asked EXCEPT ![r] = b]
      BY <1>6
    <2> HIDE DEF p
    <2>3. b \in AskedSet /\ b.phase = p /\ b.by = asked[r].by
          /\ b.handoff = asked[r].handoff
      BY <1>2, <2>1, AskedPhase
    <2> HIDE DEF b
    <2>4. AskedGoes(asked[r], b)
      BY <2>1, <2>3 DEF AskedGoes, OverAtAsker
    <2> QED
      BY <1>1, <2>2, <2>3, <2>4, AskedAt, AskedMoves
  <1> QED
    BY <1>3, <1>4, <1>5, <1>6

(* What settle_linked_request makes of a frame that may be on its way.     *)
Heard(r, is) == SettledBy(r, is, /\ is = "result" /\ ~work[r].failed
                                 /\ work[r].phase # "stopped")

(* Whichever it was, the request is over, and failed only for a reason.    *)
SettledTo(r, b) ==
  \/ b = asked /\ OverAtAsker(asked[r])
  \/ \E a \in AskedSet :
       /\ b = [asked EXCEPT ![r] = a] /\ OverAtAsker(a)
       /\ a.handoff = asked[r].handoff
       /\ a.by = "failure" => Excused(r) \/ work[r].failed = TRUE

(* settle_linked_request: whatever result or stop is read, the request is  *)
(* over on its sender's desk, and failed only if its work had failed.      *)
LEMMA SettledGoes ==
  ASSUME LinksInv, NEW r \in Requests, NEW is \in {"result", "stop"},
         is = "result" => Returnable(work[r]), is = "stop" => Stoppable(work[r]),
         NEW b, b = Heard(r, is)
  PROVE  SettledTo(r, b)
  <1>0. asked \in [Requests -> AskedSet] /\ asked[r] \in AskedSet /\ work[r] \in WorkSet
    BY DEF LinksInv, RequestTypes
  <1>1. WorkFits(work[r], asked[r], begins[r], keeps[r], record[Answerer], links)
    BY DEF LinksInv, WorkOk
  <1>2. asked[r].phase # "unsent" /\ asked[r].handoff = work[r].handoff
    BY <1>1 DEF WorkFits, Returnable, Stoppable
  <1>3. CASE asked[r].phase \notin {"queued", "running"}
    BY <1>0, <1>2, <1>3 DEF Heard, SettledBy, OverAtAsker, AskedSet, SettledTo
  <1>4. CASE asked[r].phase \in {"queued", "running"} /\ is = "stop"
    <2>1. asked[r].handoff = TRUE
      BY <1>1, <1>2, <1>4 DEF WorkFits, Stoppable
    <2> DEFINE a == [asked[r] EXCEPT !.phase = "stopped", !.by = "person"]
    <2>2. b = [asked EXCEPT ![r].phase = "stopped", ![r].by = "person"]
      BY <1>4, <2>1 DEF Heard, SettledBy
    <2>3. b = [asked EXCEPT ![r] = a]
      BY <1>0, <2>2
    <2>4. "stopped" \in {"unsent", "queued", "running", "reply", "done", "stopped"}
          /\ "person" \in {"nobody", "answer", "failure", "person", "asker"}
      OBVIOUS
    <2>5. a \in AskedSet /\ a.phase = "stopped" /\ a.by = "person"
          /\ a.handoff = asked[r].handoff
      BY <1>0, ZenonT(30) DEF AskedSet
    <2> QED
      BY <2>3, <2>5 DEF OverAtAsker, SettledTo
  <1>5. CASE asked[r].phase \in {"queued", "running"} /\ is = "result"
    <2> DEFINE said == ~work[r].failed /\ work[r].phase # "stopped"
               by == IF said THEN "answer" ELSE "failure"
               a == [asked[r] EXCEPT !.phase = "reply", !.by = by]
    <2>1. b = [asked EXCEPT ![r].phase = "reply", ![r].by = by]
      BY <1>5 DEF Heard, SettledBy
    <2>2. "reply" \in {"unsent", "queued", "running", "reply", "done", "stopped"}
          /\ by \in {"nobody", "answer", "failure", "person", "asker"}
      OBVIOUS
    <2>3. by = "failure" => Excused(r) \/ work[r].failed = TRUE
      BY <1>0, <1>5 DEF Returnable, Excused, Ignored, WorkSet
    <2> HIDE DEF by
    <2>4. b = [asked EXCEPT ![r] = a]
      BY <1>0, <2>1
    <2>5. a \in AskedSet /\ a.phase = "reply" /\ a.by = by
          /\ a.handoff = asked[r].handoff
      BY <1>0, <2>2, ZenonT(30) DEF AskedSet
    <2> QED
      BY <2>3, <2>4, <2>5 DEF OverAtAsker, SettledTo
  <1> QED
    BY <1>3, <1>4, <1>5

(* The asker's desk reads a result or a stop, and answers: once it says so,*)
(* the request is over there.                                              *)
LEMMA TakesResultGoes ==
  ASSUME LinksInv, NEW r \in Requests, TakesResult(r)
  PROVE  /\ Follows /\ RequestTypes' /\ WorkOk'
         /\ \E is \in {"result", "stop"}, a \in Answers :
              Crosses({}, {<<Answerer, is, r, a>>}, {}) \/ Crosses({}, {}, {})
         /\ Gone(r)'
  <1>1. PICK old \in BOOLEAN, awaited \in BOOLEAN, saved \in BOOLEAN,
             is \in {"result", "stop"} :
          LET f == [Frame(is, r) EXCEPT !.awaited = awaited]
              heard == SettledBy(r, is, is = "result" /\ ~work[r].failed
                                        /\ work[r].phase # "stopped") IN
          /\ Comes(Asker, old, f)
          /\ asked' = IF record[Asker] /\ saved THEN heard ELSE asked
          /\ unkept' = IF saved THEN unkept ELSE unkept \cup {r}
          /\ Replies(Asker, old, f,
                     IF record[Asker] /\ saved THEN "ok" ELSE "refused")
    BY DEF TakesResult
  <1> DEFINE f == [Frame(is, r) EXCEPT !.awaited = awaited]
             a == IF record[Asker] /\ saved THEN "ok" ELSE "refused"
  <1>0. PICK heard : heard = Heard(r, is)
    OBVIOUS
  <1>2. /\ Comes(Asker, old, f) /\ Replies(Asker, old, f, a)
        /\ asked' = IF record[Asker] /\ saved THEN heard ELSE asked
    BY <1>0, <1>1 DEF Heard
  <1>3. f.is = is /\ f.of = r /\ a \in Answers /\ is \in Commands
    BY DEF Frame, Answers, Commands
  <1> HIDE DEF f, a
  <1>4. Asker \in Desks /\ Other(Asker) = Answerer
    BY TheDesks
  <1>5. ChannelTypes /\ ChannelsFit
    BY DEF LinksInv
  <1>6. Crosses({}, IF old \/ ~f.awaited \/ ~live[Other(Asker)] THEN {}
                    ELSE {<<Other(Asker), f.is, f.of, a>>}, {})
    BY <1>2, <1>3, <1>4, <1>5, RepliesCrosses
  <1>7. Crosses({}, {<<Answerer, is, r, a>>}, {}) \/ Crosses({}, {}, {})
    BY <1>3, <1>4, <1>6
  <1>8. f \in FrameSet /\ record[Asker]
    BY <1>2, <1>4, <1>5, ReadLeaves
  <1>9. On(wire, unread, Asker, is, r)
    <2>1. wire[Asker] \in Seq(FrameSet) /\ unread[Asker] \in Seq(FrameSet)
      BY <1>4, <1>5 DEF ChannelTypes, Channels
    <2>2. CASE old
      <3>1. 1 \in 1 .. Len(unread[Asker]) /\ unread[Asker][1] = f
        BY <1>2, <2>1, <2>2, TailSays DEF Comes
      <3> QED
        BY <1>3, <3>1 DEF On
    <2>3. CASE ~old
      <3>1. 1 \in 1 .. Len(wire[Asker]) /\ wire[Asker][1] = f
        BY <1>2, <2>1, <2>3, TailSays DEF Comes
      <3> QED
        BY <1>3, <3>1 DEF On
    <2> QED
      BY <2>2, <2>3
  <1>10. /\ is = "result" => Returnable(work[r])
         /\ is = "stop" => Stoppable(work[r])
    BY <1>9 DEF LinksInv, FramesOk
  <1>11. \/ heard = asked /\ OverAtAsker(asked[r])
         \/ \E b \in AskedSet :
              /\ heard = [asked EXCEPT ![r] = b] /\ OverAtAsker(b)
              /\ b.handoff = asked[r].handoff
              /\ b.by = "failure" => Excused(r) \/ work[r].failed = TRUE
    <2>1. SettledTo(r, heard)
      BY <1>0, <1>10, SettledGoes
    <2> QED
      BY <2>1 DEF SettledTo
  <1>12. /\ UNCHANGED <<work, begins, keeps, turned>> /\ unkept \subseteq unkept'
         /\ record' = record /\ links' = links
         /\ note' \in [Requests -> {"none", "kept", "sent", "dropped"}]
    BY <1>1 DEF TakesResult, Replies, LinksInv, RequestTypes
  <1>13. asked \in [Requests -> AskedSet]
    BY DEF LinksInv, RequestTypes
  <1>14. CASE asked' = asked
    <2>1. \A q \in Requests : AskedGoes(asked[q], asked'[q])
      BY <1>14, GoesSame
    <2>2. Follows /\ RequestTypes' /\ WorkOk'
      BY <1>12, <1>13, <1>14, <2>1, AskedMoves
    <2>3. Gone(r)'
      <3>1. CASE saved
        <4>1. heard = asked
          BY <1>2, <1>8, <1>14, <3>1
        <4>2. OverAtAsker(asked[r])
          <5>1. ASSUME NEW b \in AskedSet, heard = [asked EXCEPT ![r] = b], OverAtAsker(b)
                PROVE  OverAtAsker(asked[r])
            <6>1. heard[r] = b
              BY <1>13, <5>1
            <6> QED
              BY <4>1, <5>1, <6>1
          <5> QED
            BY <1>11, <5>1
        <4> QED
          BY <1>14, <4>2 DEF Gone
      <3>2. CASE ~saved
        BY <1>1, <3>2 DEF Gone
      <3> QED
        BY <3>1, <3>2
    <2> QED
      BY <1>3, <1>7, <2>2, <2>3
  <1>15. CASE asked' # asked
    <2>1. asked' = heard /\ heard # asked
      BY <1>2, <1>15
    <2>2. PICK b \in AskedSet :
            /\ heard = [asked EXCEPT ![r] = b] /\ OverAtAsker(b)
            /\ b.handoff = asked[r].handoff
            /\ b.by = "failure" => Excused(r) \/ work[r].failed = TRUE
      BY <1>11, <2>1
    <2>3. asked' = [asked EXCEPT ![r] = b] /\ asked'[r] = b
      BY <1>13, <2>1, <2>2
    <2>4. AskedGoes(asked[r], b)
      BY <2>2 DEF AskedGoes, OverAtAsker
    <2>5. Follows /\ RequestTypes' /\ WorkOk'
      BY <1>12, <2>2, <2>3, <2>4, AskedAt, AskedMoves
    <2>6. Gone(r)'
      BY <2>2, <2>3 DEF Gone
    <2> QED
      BY <1>3, <1>7, <2>5, <2>6
  <1> QED
    BY <1>14, <1>15

(* What a step keeps, but for the rest of the state's types.               *)
Kept == /\ RequestTypes' /\ WorkOk' /\ CallsOk' /\ FramesOk' /\ AnswersOk'
        /\ AsksOk' /\ EndsOk'
        /\ Channels(live', wire', unread', call')
        /\ FitsAll(live', wire', unread', call')
        /\ \A d \in Desks : /\ ~live'[d] => wire'[d] = <<>>
                            /\ ~record[d] => ~live'[d] /\ unread'[d] = <<>>

(* What a step keeps follows from what it does to the records and what it  *)
(* puts on the channels,                                                   *)
LEMMA KeptBy ==
  ASSUME LinksInv, Follows, RequestTypes', WorkOk', NEW puts, NEW says, NEW asks,
         Crosses(puts, says, asks), PutsOk(puts), SaysOk(says),
         NewAsksOk(asks, says)
  PROVE  Kept
  <1>1. CallsOk' /\ FramesOk' /\ AnswersOk' /\ AsksOk' /\ EndsOk'
    BY Mixed
  <1> QED
    BY <1>1 DEF Kept, Crosses, Carries

(* or, when it puts nothing, from the records alone.                       *)
LEMMA KeptStill ==
  ASSUME LinksInv, Follows, RequestTypes', WorkOk', Crosses({}, {}, {})
  PROVE  Kept
  BY NothingNew, KeptBy

(* A record of work is one, and fits its sender's.                         *)
LEMMA WorkTyped ==
  ASSUME LinksInv, NEW r \in Requests
  PROVE  /\ asked[r] \in AskedSet /\ work[r] \in WorkSet
         /\ begins[r] \in Nat /\ keeps[r] \in Nat
         /\ WorkFits(work[r], asked[r], begins[r], keeps[r], record[Answerer], links)
  BY DEF LinksInv, RequestTypes, WorkOk

Phases == {"absent", "queued", "running", "reply", "sending", "done", "stopped"}

(* The forms a step's change of the record takes.                          *)
Came(x, p, b) == [x EXCEPT !.phase = p, !.failed = b]
Went(x, p) == [x EXCEPT !.phase = p]
Began(x) == [x EXCEPT !.begun = TRUE]
OwedNow(x, o) == [x EXCEPT !.owed = o]
Leased(x, l) == [x EXCEPT !.lease = l]
Anew(x, n, p, b) == [x EXCEPT !.lease = TRUE, !.link = n, !.phase = p, !.failed = b]

(* The record with a phase and a failure,                                  *)
LEMMA WorkPhase ==
  ASSUME NEW x \in WorkSet, NEW p \in Phases, NEW b \in BOOLEAN, NEW y,
         y = Came(x, p, b)
  PROVE  /\ y \in WorkSet /\ y.phase = p /\ y.failed = b
         /\ y.handoff = x.handoff /\ y.begun = x.begun /\ y.byPerson = x.byPerson
         /\ y.owed = x.owed /\ y.lease = x.lease /\ y.link = x.link
  BY ZenonT(60) DEF Came, WorkSet, Phases

(* with a phase,                                                           *)
LEMMA WorkOnlyPhase ==
  ASSUME NEW x \in WorkSet, NEW p \in Phases, NEW y, y = Went(x, p)
  PROVE  /\ y \in WorkSet /\ y.phase = p /\ y.failed = x.failed
         /\ y.handoff = x.handoff /\ y.begun = x.begun /\ y.byPerson = x.byPerson
         /\ y.owed = x.owed /\ y.lease = x.lease /\ y.link = x.link
  BY ZenonT(60) DEF Went, WorkSet, Phases

(* with its turn begun,                                                    *)
LEMMA WorkBegun ==
  ASSUME NEW x \in WorkSet, NEW y, y = Began(x)
  PROVE  /\ y \in WorkSet /\ y.phase = x.phase /\ y.failed = x.failed
         /\ y.handoff = x.handoff /\ y.begun = TRUE /\ y.byPerson = x.byPerson
         /\ y.owed = x.owed /\ y.lease = x.lease /\ y.link = x.link
  BY ZenonT(60) DEF Began, WorkSet

(* ended,                                                                  *)
LEMMA WorkEnded ==
  ASSUME NEW x \in WorkSet, NEW p \in BOOLEAN, NEW o \in {"no", "yes", "told"},
         NEW y, y = Ended(x, p, o)
  PROVE  /\ y \in WorkSet /\ y.phase = "stopped" /\ y.failed = x.failed
         /\ y.handoff = x.handoff /\ y.begun = x.begun /\ y.byPerson = p
         /\ y.owed = o /\ y.lease = x.lease /\ y.link = x.link
  BY ZenonT(60) DEF WorkSet, Ended

(* with what its sender is owed,                                           *)
LEMMA WorkOwed ==
  ASSUME NEW x \in WorkSet, NEW o \in {"no", "yes", "told"}, NEW y,
         y = OwedNow(x, o)
  PROVE  /\ y \in WorkSet /\ y.phase = x.phase /\ y.failed = x.failed
         /\ y.handoff = x.handoff /\ y.begun = x.begun /\ y.byPerson = x.byPerson
         /\ y.owed = o /\ y.lease = x.lease /\ y.link = x.link
  BY ZenonT(60) DEF OwedNow, WorkSet

(* with its lease,                                                         *)
LEMMA WorkLeased ==
  ASSUME NEW x \in WorkSet, NEW l \in BOOLEAN, NEW y, y = Leased(x, l)
  PROVE  /\ y \in WorkSet /\ y.phase = x.phase /\ y.failed = x.failed
         /\ y.handoff = x.handoff /\ y.begun = x.begun /\ y.byPerson = x.byPerson
         /\ y.owed = x.owed /\ y.lease = l /\ y.link = x.link
  BY ZenonT(60) DEF Leased, WorkSet

(* and as accept_linked_request writes it.                                 *)
LEMMA WorkAccepted ==
  ASSUME NEW r \in Requests, asked[r].handoff \in BOOLEAN, links \in Nat,
         NEW y, y = Accepted(r)
  PROVE  /\ y \in WorkSet /\ y.phase = "queued" /\ y.failed = FALSE
         /\ y.handoff = asked[r].handoff /\ y.begun = FALSE /\ y.byPerson = FALSE
         /\ y.owed = "no" /\ y.lease = TRUE /\ y.link = links
  BY DEF Accepted, WorkSet, Absent

(* One request's record changes on the answerer's desk.                    *)
LEMMA WorkAt ==
  ASSUME LinksInv, NEW r \in Requests, NEW y \in WorkSet,
         work' = [work EXCEPT ![r] = y],
         UNCHANGED <<asked, keeps, unkept, begins>>,
         record'[Answerer] = record[Answerer], links' = links,
         note' \in [Requests -> {"none", "kept", "sent", "dropped"}],
         turned \subseteq turned',
         WorkFits(y, asked[r], begins[r], keeps[r], record[Answerer], links),
         WorkGoes(work[r], y), ToldOf(y) => ToldOf(work[r]) \/ HasAnswer(r)
  PROVE  Follows /\ RequestTypes' /\ WorkOk'
  <1>1. work \in [Requests -> WorkSet] /\ begins \in [Requests -> Nat]
    BY DEF LinksInv, RequestTypes
  <1>2. /\ work' \in [Requests -> WorkSet]
        /\ \A q \in Requests : work'[q] = IF q = r THEN y ELSE work[q]
    BY <1>1
  <1>3. \A q \in Requests :
          /\ WorkFits(work'[q], asked[q], begins'[q], keeps[q],
                      record'[Answerer], links')
          /\ WorkGoes(work[q], work'[q])
          /\ ToldOf(work'[q]) => ToldOf(work[q]) \/ HasAnswer(q)
    BY <1>2, GoesSame DEF LinksInv, WorkOk
  <1> QED
    BY <1>1, <1>2, <1>3, WorkMoves

(* An accepted request's turn is queued,                                   *)
LEMMA AdmitsGoes ==
  ASSUME LinksInv, NEW r \in Requests, Admits(r)
  PROVE  Follows /\ RequestTypes' /\ WorkOk'
  <1>0. work[r] \in WorkSet
    BY WorkTyped
  <1>1. PICK b \in BOOLEAN :
          work' = [work EXCEPT ![r].phase = IF b THEN "reply" ELSE "running",
                               ![r].failed = b]
    BY DEF Admits
  <1>2. PICK p \in Phases : p = IF b THEN "reply" ELSE "running"
    BY DEF Phases
  <1>3. PICK y : y = Came(work[r], p, b)
    OBVIOUS
  <1>4. work' = [work EXCEPT ![r] = y]
    BY <1>1, <1>2, <1>3 DEF Came, LinksInv, RequestTypes
  <1>5. work[r].phase = "queued"
    BY DEF Admits
  <1>6. /\ y \in WorkSet /\ y.phase = p /\ y.failed = b
        /\ y.handoff = work[r].handoff /\ y.begun = work[r].begun
        /\ y.byPerson = work[r].byPerson
        /\ y.owed = work[r].owed /\ y.lease = work[r].lease /\ y.link = work[r].link
    BY <1>0, <1>3, WorkPhase
  <1>7. WorkFits(y, asked[r], begins[r], keeps[r], record[Answerer], links)
    BY <1>2, <1>5, <1>6, WorkTyped DEF WorkFits
  <1>8. WorkGoes(work[r], y) /\ (ToldOf(y) => ToldOf(work[r]))
    BY <1>2, <1>5, <1>6, WorkTyped
       DEF WorkFits, WorkGoes, Returnable, Stoppable, Ignored, ToldOf
  <1>9. /\ UNCHANGED <<asked, keeps, unkept, begins, turned, record, links, note>>
    BY DEF Admits, linkVars
  <1>10. note' \in [Requests -> {"none", "kept", "sent", "dropped"}]
    BY <1>9 DEF LinksInv, RequestTypes
  <1> QED
    BY <1>4, <1>6, <1>7, <1>8, <1>9, <1>10, WorkAt

(* or ends with an answer or a failure,                                    *)
LEMMA FinishesGoes ==
  ASSUME LinksInv, NEW r \in Requests, Finishes(r)
  PROVE  Follows /\ RequestTypes' /\ WorkOk'
  <1>0. work[r] \in WorkSet /\ "reply" \in Phases
    BY WorkTyped DEF Phases
  <1>1. PICK b \in BOOLEAN :
          work' = [work EXCEPT ![r].phase = "reply", ![r].failed = b]
    BY DEF Finishes
  <1>3. PICK y : y = Came(work[r], "reply", b)
    OBVIOUS
  <1>4. work' = [work EXCEPT ![r] = y]
    BY <1>1, <1>3 DEF Came, LinksInv, RequestTypes
  <1>5. work[r].phase = "running"
    BY DEF Finishes
  <1>6. /\ y \in WorkSet /\ y.phase = "reply" /\ y.failed = b
        /\ y.handoff = work[r].handoff /\ y.begun = work[r].begun
        /\ y.byPerson = work[r].byPerson
        /\ y.owed = work[r].owed /\ y.lease = work[r].lease /\ y.link = work[r].link
    BY <1>0, <1>3, WorkPhase
  <1>7. WorkFits(y, asked[r], begins[r], keeps[r], record[Answerer], links)
    BY <1>5, <1>6, WorkTyped DEF WorkFits
  <1>8. WorkGoes(work[r], y) /\ (ToldOf(y) => ToldOf(work[r]))
    BY <1>5, <1>6, WorkTyped
       DEF WorkFits, WorkGoes, Returnable, Stoppable, Ignored, ToldOf
  <1>9. /\ UNCHANGED <<asked, keeps, unkept, begins, turned, record, links, note>>
    BY DEF Finishes, linkVars
  <1>10. note' \in [Requests -> {"none", "kept", "sent", "dropped"}]
    BY <1>9 DEF LinksInv, RequestTypes
  <1> QED
    BY <1>4, <1>6, <1>7, <1>8, <1>9, <1>10, WorkAt

(* or begins, under a lease that stands.                                   *)
LEMMA BeginsGoes ==
  ASSUME LinksInv, NEW r \in Requests, Begins(r)
  PROVE  Follows /\ RequestTypes' /\ WorkOk'
  <1>0. work[r] \in WorkSet /\ begins[r] \in Nat
    BY WorkTyped
  <1>1. work' = [work EXCEPT ![r].begun = TRUE]
    BY DEF Begins
  <1>2. PICK y : y = Began(work[r])
    OBVIOUS
  <1>3. /\ work' \in [Requests -> WorkSet] /\ work'[r] = y /\ y \in WorkSet
        /\ \A q \in Requests : q # r => work'[q] = work[q]
    <2>1. y \in WorkSet
      BY <1>0, <1>2, WorkBegun
    <2>2. work' = [work EXCEPT ![r] = y]
      BY <1>1, <1>2 DEF Began, LinksInv, RequestTypes
    <2> QED
      BY <2>1, <2>2 DEF LinksInv, RequestTypes
  <1>4. work[r].phase = "running" /\ work[r].begun = FALSE
    BY <1>0 DEF Begins, WorkSet
  <1>5. /\ y.phase = work[r].phase /\ y.begun = TRUE /\ y.failed = work[r].failed
        /\ y.handoff = work[r].handoff /\ y.byPerson = work[r].byPerson
        /\ y.owed = work[r].owed /\ y.lease = work[r].lease /\ y.link = work[r].link
    BY <1>0, <1>2, WorkBegun
  <1>6. /\ begins' \in [Requests -> Nat] /\ begins'[r] = begins[r] + 1
        /\ \A q \in Requests : q # r => begins'[q] = begins[q]
    BY <1>0 DEF Begins, LinksInv, RequestTypes
  <1>7. WorkFits(y, asked[r], begins'[r], keeps[r], record[Answerer], links)
    <2>1. begins[r] = 0
      BY <1>4, WorkTyped DEF WorkFits
    <2>2. begins'[r] = 1
      BY <1>6, <2>1
    <2> QED
      BY <1>4, <1>5, <2>2, WorkTyped DEF WorkFits
  <1>8. WorkGoes(work[r], y) /\ (ToldOf(y) => ToldOf(work[r]))
    BY <1>4, <1>5 DEF WorkGoes, Returnable, Stoppable, Ignored, ToldOf
  <1>9. /\ UNCHANGED <<asked, keeps, unkept, turned, record, links, note>>
    BY DEF Begins, linkVars
  <1>10. note' \in [Requests -> {"none", "kept", "sent", "dropped"}]
    BY <1>9 DEF LinksInv, RequestTypes
  <1>11. \A q \in Requests :
           /\ WorkFits(work'[q], asked[q], begins'[q], keeps[q],
                       record'[Answerer], links')
           /\ WorkGoes(work[q], work'[q])
           /\ ToldOf(work'[q]) => ToldOf(work[q]) \/ HasAnswer(q)
    <2> SUFFICES ASSUME NEW q \in Requests
                 PROVE  /\ WorkFits(work'[q], asked[q], begins'[q], keeps[q],
                                    record[Answerer], links)
                        /\ WorkGoes(work[q], work'[q])
                        /\ ToldOf(work'[q]) => ToldOf(work[q])
      BY <1>9
    <2>1. CASE q = r
      BY <1>3, <1>7, <1>8, <2>1
    <2>2. CASE q # r
      BY <1>3, <1>6, <2>2, GoesSame, WorkTyped
    <2> QED
      BY <2>1, <2>2
  <1> QED
    BY <1>3, <1>6, <1>9, <1>10, <1>11, WorkMoves

(* Work ended on the answerer's desk.                                      *)
LEMMA StopsWorkGoes ==
  ASSUME LinksInv, NEW r \in Requests, NEW p \in BOOLEAN,
         NEW o \in {"no", "yes"}, StopsWork(r, p, o), Pending(work[r]),
         p = TRUE => work[r].handoff = TRUE /\ work[r].phase \in {"queued", "running"},
         UNCHANGED <<asked, keeps, unkept, begins, turned, record, links>>
  PROVE  Follows /\ RequestTypes' /\ WorkOk'
  <1>0. work[r] \in WorkSet /\ o \in {"no", "yes", "told"}
    BY WorkTyped
  <1>1. PICK y : y = Ended(work[r], p, o)
    OBVIOUS
  <1>2. work' = [work EXCEPT ![r] = y]
    BY <1>1 DEF StopsWork
  <1>3. note' \in [Requests -> {"none", "kept", "sent", "dropped"}]
    BY DEF StopsWork, LinksInv, RequestTypes
  <1>4. /\ y \in WorkSet /\ y.phase = "stopped" /\ y.failed = work[r].failed
        /\ y.handoff = work[r].handoff /\ y.begun = work[r].begun
        /\ y.byPerson = p /\ y.owed = o
        /\ y.lease = work[r].lease /\ y.link = work[r].link
    BY <1>0, <1>1, WorkEnded
  <1>5. work[r].phase \in {"queued", "running", "reply", "sending", "done"}
    BY DEF Pending, Open
  <1>6. WorkFits(y, asked[r], begins[r], keeps[r], record[Answerer], links)
    BY <1>4, <1>5, WorkTyped DEF WorkFits
  <1>7. WorkGoes(work[r], y) /\ (ToldOf(y) => ToldOf(work[r]))
    BY <1>4, <1>5 DEF WorkGoes, Returnable, Stoppable, Ignored, ToldOf
  <1> QED
    BY <1>2, <1>3, <1>4, <1>6, <1>7, WorkAt

(* A person, the exchange or the sweep stops work on the answerer's desk.  *)
LEMMA StopsGo ==
  ASSUME LinksInv, NEW r \in Requests,
         PersonStops(r) \/ ExchangeStops(r) \/ AnswererSweeps(r)
  PROVE  Follows /\ RequestTypes' /\ WorkOk'
  <1>0. work[r] \in WorkSet
    BY WorkTyped
  <1>1. UNCHANGED <<asked, keeps, unkept, begins, turned, record, links>>
    BY DEF PersonStops, ExchangeStops, AnswererSweeps, linkVars
  <1>2. "yes" \in {"no", "yes"} /\ "no" \in {"no", "yes"}
        /\ TRUE \in BOOLEAN /\ FALSE \in BOOLEAN
    OBVIOUS
  <1>3. CASE PersonStops(r)
    <2>1. StopsWork(r, TRUE, "yes") /\ Pending(work[r])
          /\ work[r].handoff = TRUE /\ work[r].phase \in {"queued", "running"}
      BY <1>0, <1>3 DEF PersonStops, Pending, Open, WorkSet
    <2> QED
      BY <1>1, <1>2, <2>1, StopsWorkGoes
  <1>4. CASE ExchangeStops(r)
    BY <1>1, <1>2, <1>4, StopsWorkGoes DEF ExchangeStops
  <1>5. CASE AnswererSweeps(r)
    <2>1. PICK o \in {"no", "yes"} : o = IF record[Answerer] THEN "yes" ELSE "no"
      OBVIOUS
    <2>2. StopsWork(r, FALSE, o) /\ Pending(work[r])
      BY <1>5, <2>1 DEF AnswererSweeps, Orphaned, Pending
    <2> QED
      BY <1>1, <1>2, <2>2, StopsWorkGoes
  <1> QED
    BY <1>3, <1>4, <1>5

(* The answerer's desk sends a result or a stop, or learns of its end.     *)
LEMMA ReturnsStopKept ==
  ASSUME LinksInv, NEW r \in Requests, ReturnsStop(r)
  PROVE  Kept
  <1>0. /\ work[r] \in WorkSet /\ work[r].owed = "yes" /\ work[r].phase = "stopped"
        /\ ChannelTypes /\ ChannelsFit
    BY WorkTyped DEF ReturnsStop, Owing, WorkFits, LinksInv
  <1>1. CASE record[Answerer]
    <2> DEFINE is == IF work[r].byPerson THEN "stop" ELSE "result"
    <2>1. /\ Calls(Answerer, Frame(is, r))
          /\ UNCHANGED <<asked, work, note, begins, keeps, unkept, turned>>
      BY <1>1 DEF ReturnsStop
    <2>2. is \in Commands /\ is # "request" /\ is \in {"stop", "result"}
      BY DEF Commands
    <2>3. /\ is = "result" => work[r].byPerson = FALSE
          /\ is = "stop" => work[r].byPerson = TRUE
      BY <1>0 DEF WorkSet
    <2> HIDE DEF is
    <2>4. record' = record /\ links' = links
      BY <2>1 DEF Calls
    <2>5. Crosses({<<Other(Answerer), is, r>>}, {}, IF Answerer = Asker THEN {r} ELSE {})
      BY <1>0, <2>1, <2>2, TheDesks, CallsCrosses
    <2>6. Crosses({<<Asker, is, r>>}, {}, {})
      BY <2>5, TheDesks
    <2>7. Follows /\ RequestTypes' /\ WorkOk'
      <3>1. note' \in [Requests -> {"none", "kept", "sent", "dropped"}]
        BY <2>1 DEF LinksInv, RequestTypes
      <3> QED
        BY <2>1, <2>4, <3>1, RecordsStay
    <2>8. PutsOk({<<Asker, is, r>>})
      BY <1>0, <2>1, <2>2, <2>3, TheDesks DEF PutsOk, Returnable, Stoppable
    <2> QED
      BY <2>6, <2>7, <2>8, NothingNew, KeptBy
  <1>2. CASE ~record[Answerer]
    <2>1. /\ work' = [work EXCEPT ![r].owed = "no"]
          /\ UNCHANGED <<linkVars, asked, note, begins, keeps, unkept, turned>>
      BY <1>2 DEF ReturnsStop
    <2>2. PICK y : y = OwedNow(work[r], "no")
      OBVIOUS
    <2>3. work' = [work EXCEPT ![r] = y]
      BY <2>1, <2>2 DEF OwedNow, LinksInv, RequestTypes
    <2>4. "no" \in {"no", "yes", "told"}
      OBVIOUS
    <2>5. /\ y \in WorkSet /\ y.phase = work[r].phase /\ y.failed = work[r].failed
          /\ y.handoff = work[r].handoff /\ y.begun = work[r].begun
          /\ y.byPerson = work[r].byPerson
          /\ y.owed = "no" /\ y.lease = work[r].lease /\ y.link = work[r].link
      BY <1>0, <2>2, <2>4, WorkOwed
    <2>6. WorkFits(y, asked[r], begins[r], keeps[r], record[Answerer], links)
      BY <1>0, <2>5, WorkTyped DEF WorkFits
    <2>7. WorkGoes(work[r], y) /\ (ToldOf(y) => ToldOf(work[r]))
      BY <1>0, <2>5 DEF WorkGoes, Returnable, Stoppable, Ignored, ToldOf
    <2>8. note' \in [Requests -> {"none", "kept", "sent", "dropped"}]
      BY <2>1 DEF LinksInv, RequestTypes
    <2>9. Follows /\ RequestTypes' /\ WorkOk'
      BY <2>1, <2>3, <2>5, <2>6, <2>7, <2>8, WorkAt DEF linkVars
    <2>10. Crosses({}, {}, {})
      BY <1>0, <2>1, StillCrosses DEF linkVars
    <2> QED
      BY <2>9, <2>10, KeptStill
  <1> QED
    BY <1>1, <1>2

(* A result is claimed, and its call made.                                 *)
LEMMA ClaimsKept ==
  ASSUME LinksInv, NEW r \in Requests, Claims(r)
  PROVE  Kept
  <1>0. /\ work[r] \in WorkSet /\ work[r].phase \in {"reply", "sending"}
        /\ ChannelTypes /\ ChannelsFit /\ "sending" \in Phases
        /\ "result" \in Commands
    BY WorkTyped DEF Claims, LinksInv, Phases, Commands
  <1>1. /\ Calls(Answerer, Frame("result", r))
        /\ work' = [work EXCEPT ![r].phase = "sending"]
        /\ UNCHANGED <<asked, note, begins, keeps, unkept, turned>>
    BY DEF Claims
  <1>2. PICK y : y = Went(work[r], "sending")
    OBVIOUS
  <1>3. work' = [work EXCEPT ![r] = y]
    BY <1>1, <1>2 DEF Went, LinksInv, RequestTypes
  <1>4. /\ y \in WorkSet /\ y.phase = "sending" /\ y.failed = work[r].failed
        /\ y.handoff = work[r].handoff /\ y.begun = work[r].begun
        /\ y.byPerson = work[r].byPerson /\ y.owed = work[r].owed
        /\ y.lease = work[r].lease /\ y.link = work[r].link
    BY <1>0, <1>2, WorkOnlyPhase
  <1>5. WorkFits(y, asked[r], begins[r], keeps[r], record[Answerer], links)
    BY <1>0, <1>4, WorkTyped DEF WorkFits
  <1>6. WorkGoes(work[r], y) /\ (ToldOf(y) => ToldOf(work[r]))
    BY <1>0, <1>4 DEF WorkGoes, Returnable, Stoppable, Ignored, ToldOf
  <1>7. record' = record /\ links' = links
    BY <1>1 DEF Calls
  <1>8. note' \in [Requests -> {"none", "kept", "sent", "dropped"}]
    BY <1>1 DEF LinksInv, RequestTypes
  <1>9. Follows /\ RequestTypes' /\ WorkOk'
    BY <1>1, <1>3, <1>4, <1>5, <1>6, <1>7, <1>8, WorkAt
  <1>10. Crosses({<<Asker, "result", r>>}, {}, {})
    <2>1. Crosses({<<Other(Answerer), "result", r>>}, {},
                  IF Answerer = Asker THEN {r} ELSE {})
      BY <1>0, <1>1, TheDesks, CallsCrosses
    <2> QED
      BY <2>1, TheDesks
  <1>11. PutsOk({<<Asker, "result", r>>})
    <2>1. Returnable(work'[r])
      BY <1>3, <1>4 DEF LinksInv, RequestTypes, Returnable
    <2> QED
      BY <2>1, TheDesks DEF PutsOk
  <1> QED
    BY <1>9, <1>10, <1>11, NothingNew, KeptBy

(* The call returns: the result was taken, or is kept to be sent again.    *)
LEMMA ResultSentKept ==
  ASSUME LinksInv, NEW r \in Requests, ResultSent(r)
  PROVE  Kept
  <1>0. /\ work[r] \in WorkSet /\ ChannelTypes /\ ChannelsFit
        /\ "done" \in Phases /\ "told" \in {"no", "yes", "told"}
    BY WorkTyped DEF LinksInv, Phases
  <1>1. /\ call[Answerer] # Nothing /\ call[Answerer].answer # "none"
        /\ call[Answerer].f.is \in {"result", "stop"} /\ call[Answerer].f.of = r
        /\ Returns(Answerer)
        /\ UNCHANGED <<asked, note, begins, keeps, unkept, turned>>
    BY DEF ResultSent, Returned
  <1>2. Told => HasAnswer(r)
    BY <1>1 DEF Told, Answered, HasAnswer, Answers
  <1>3. record' = record /\ links' = links
    BY <1>1 DEF Returns
  <1>4. Crosses({}, {}, {})
    BY <1>0, <1>1, TheDesks, ReturnsCrosses
  <1>5. note' \in [Requests -> {"none", "kept", "sent", "dropped"}]
    BY <1>1 DEF LinksInv, RequestTypes
  <1>6. \/ work' = work
        \/ /\ Told /\ work[r].phase = "sending"
           /\ work' = [work EXCEPT ![r] = Went(work[r], "done")]
        \/ /\ Told /\ work[r].phase = "stopped" /\ work[r].owed = "yes"
           /\ work' = [work EXCEPT ![r] = OwedNow(work[r], "told")]
    <2>1. PICK saved \in BOOLEAN :
            work' = [work EXCEPT ![r] =
              IF ~saved THEN @
              ELSE IF work[r].phase = "sending"
              THEN [work[r] EXCEPT !.phase = IF Told THEN "done" ELSE @]
              ELSE IF work[r].phase = "stopped"
              THEN [work[r] EXCEPT !.owed = IF Told /\ @ = "yes" THEN "told" ELSE @]
              ELSE work[r]]
      BY DEF ResultSent
    <2>2. /\ work \in [Requests -> WorkSet]
          /\ [work EXCEPT ![r] = work[r]] = work
          /\ [work[r] EXCEPT !.phase = work[r].phase] = work[r]
          /\ [work[r] EXCEPT !.owed = work[r].owed] = work[r]
      BY <1>0 DEF LinksInv, RequestTypes, WorkSet
    <2> QED
      BY <2>1, <2>2 DEF Went, OwedNow
  <1>7. CASE work' = work
    <2>1. Follows /\ RequestTypes' /\ WorkOk'
      BY <1>1, <1>3, <1>5, <1>7, RecordsStay
    <2> QED
      BY <1>4, <2>1, KeptStill
  <1>8. CASE /\ Told /\ work[r].phase = "sending"
             /\ work' = [work EXCEPT ![r] = Went(work[r], "done")]
    <2>1. PICK y : y = Went(work[r], "done")
      OBVIOUS
    <2>2. /\ y \in WorkSet /\ y.phase = "done" /\ y.failed = work[r].failed
          /\ y.handoff = work[r].handoff /\ y.begun = work[r].begun
          /\ y.byPerson = work[r].byPerson /\ y.owed = work[r].owed
          /\ y.lease = work[r].lease /\ y.link = work[r].link
      BY <1>0, <2>1, WorkOnlyPhase
    <2>3. WorkFits(y, asked[r], begins[r], keeps[r], record[Answerer], links)
      BY <1>8, <2>2, WorkTyped DEF WorkFits
    <2>4. WorkGoes(work[r], y)
      BY <1>8, <2>2 DEF WorkGoes, Returnable, Stoppable, Ignored
    <2>5. Follows /\ RequestTypes' /\ WorkOk'
      BY <1>1, <1>2, <1>3, <1>5, <1>8, <2>1, <2>2, <2>3, <2>4, WorkAt
    <2> QED
      BY <1>4, <2>5, KeptStill
  <1>9. CASE /\ Told /\ work[r].phase = "stopped" /\ work[r].owed = "yes"
             /\ work' = [work EXCEPT ![r] = OwedNow(work[r], "told")]
    <2>1. PICK y : y = OwedNow(work[r], "told")
      OBVIOUS
    <2>2. /\ y \in WorkSet /\ y.phase = work[r].phase /\ y.failed = work[r].failed
          /\ y.handoff = work[r].handoff /\ y.begun = work[r].begun
          /\ y.byPerson = work[r].byPerson /\ y.owed = "told"
          /\ y.lease = work[r].lease /\ y.link = work[r].link
      BY <1>0, <2>1, WorkOwed
    <2>3. WorkFits(y, asked[r], begins[r], keeps[r], record[Answerer], links)
      BY <1>9, <2>2, WorkTyped DEF WorkFits
    <2>4. WorkGoes(work[r], y)
      BY <1>9, <2>2 DEF WorkGoes, Returnable, Stoppable, Ignored
    <2>5. Follows /\ RequestTypes' /\ WorkOk'
      BY <1>1, <1>2, <1>3, <1>5, <1>9, <2>1, <2>2, <2>3, <2>4, WorkAt
    <2> QED
      BY <1>4, <2>5, KeptStill
  <1> QED
    BY <1>6, <1>7, <1>8, <1>9

(* A request that is answered while its caller waits is not of work whose  *)
(* sender has been told.                                                   *)
LEMMA AskedNotTold ==
  ASSUME LinksInv, NEW r \in Requests, NEW f, Comes(Answerer, FALSE, f),
         f.is = "request", f.of = r, f.awaited = TRUE, live[Asker] = TRUE
  PROVE  r \in unkept \/ ~ToldOf(work[r])
  <1>1. wire[Answerer] \in Seq(FrameSet) /\ wire[Answerer] # <<>>
        /\ f = Head(wire[Answerer])
    BY TheDesks DEF LinksInv, ChannelTypes, Channels, Comes
  <1>2. 1 \in 1 .. Len(wire[Answerer]) /\ wire[Answerer][1] = f
    BY <1>1, TailSays
  <1>3. Asks(live, wire, 1, r)
    BY <1>2 DEF Asks, Awaits
  <1>4. 1 \in Nat
    OBVIOUS
  <1> QED
    BY <1>3, <1>4 DEF LinksInv, AsksOk

(* accept_linked_request takes a request it does not know, once.           *)
LEMMA TakesRequestGoes ==
  ASSUME LinksInv, NEW r \in Requests, NEW new \in BOOLEAN,
         new = TRUE => ~Known(r) /\ record[Answerer] = TRUE
                       /\ asked[r].phase # "unsent",
         work' = IF new THEN [work EXCEPT ![r] = Accepted(r)] ELSE work,
         UNCHANGED <<asked, note, begins, keeps, unkept, record, links>>,
         turned \subseteq turned'
  PROVE  Follows /\ RequestTypes' /\ WorkOk'
  <1>0. /\ asked[r] \in AskedSet /\ work[r] \in WorkSet
        /\ WorkFits(work[r], asked[r], begins[r], keeps[r], record[Answerer], links)
        /\ links \in Nat
    BY WorkTyped DEF LinksInv, ChannelTypes
  <1>1. note' \in [Requests -> {"none", "kept", "sent", "dropped"}]
    BY DEF LinksInv, RequestTypes
  <1>2. CASE new
    <2>1. PICK y : y = Accepted(r)
      OBVIOUS
    <2>2. asked[r].handoff \in BOOLEAN
      BY <1>0 DEF AskedSet
    <2>3. /\ y \in WorkSet /\ y.phase = "queued" /\ y.failed = FALSE
          /\ y.handoff = asked[r].handoff /\ y.begun = FALSE /\ y.byPerson = FALSE
          /\ y.owed = "no" /\ y.lease = TRUE /\ y.link = links
      BY <1>0, <2>1, <2>2, WorkAccepted
    <2>4. work[r].phase = "absent" /\ record[Answerer] = TRUE
          /\ asked[r].phase # "unsent"
      BY <1>2 DEF Known
    <2>5. WorkFits(y, asked[r], begins[r], keeps[r], record[Answerer], links)
      BY <1>0, <2>3, <2>4 DEF WorkFits
    <2>6. WorkGoes(work[r], y) /\ (ToldOf(y) => ToldOf(work[r]))
      BY <1>0, <2>3, <2>4 DEF WorkFits, WorkGoes, Returnable, Stoppable, Ignored, ToldOf
    <2>7. work' = [work EXCEPT ![r] = y]
      BY <1>2, <2>1
    <2> QED
      BY <1>1, <2>3, <2>5, <2>6, <2>7, WorkAt
  <1>3. CASE ~new
    <2>1. PICK y : y = work[r]
      OBVIOUS
    <2>2. work' = [work EXCEPT ![r] = y]
      BY <1>3, <2>1 DEF LinksInv, RequestTypes
    <2> QED
      BY <1>0, <1>1, <2>1, <2>2, GoesSame, WorkAt
  <1> QED
    BY <1>2, <1>3

(* A request is read: taken, known already, or refused.                    *)
LEMMA TakesRequestKept ==
  ASSUME LinksInv, NEW r \in Requests, TakesRequest(r)
  PROVE  Kept
  <1>0. /\ ChannelTypes /\ ChannelsFit /\ Answerer \in Desks
        /\ Other(Answerer) = Asker /\ work[r] \in WorkSet
        /\ WorkFits(work[r], asked[r], begins[r], keeps[r], record[Answerer], links)
    BY WorkTyped, TheDesks DEF LinksInv
  <1>1. PICK old \in BOOLEAN, awaited \in BOOLEAN, open \in BOOLEAN,
             saved \in BOOLEAN :
          LET f == [Frame("request", r) EXCEPT !.awaited = awaited]
              new == ~Known(r) /\ record[Answerer] /\ open
          IN
          /\ Comes(Answerer, old, f)
          /\ ~saved => new
          /\ work' = IF new /\ saved THEN [work EXCEPT ![r] = Accepted(r)] ELSE work
          /\ turned' = IF open /\ saved THEN turned ELSE turned \cup {r}
          /\ Replies(Answerer, old, f,
                     IF /\ record[Answerer] /\ open /\ saved
                        /\ Known(r) => ~Over(r)
                     THEN "ok" ELSE "refused")
    BY DEF TakesRequest
  <1>2. PICK f : f = [Frame("request", r) EXCEPT !.awaited = awaited]
    OBVIOUS
  <1>3. f.is = "request" /\ f.of = r /\ f.awaited = awaited /\ "request" \in Commands
    BY <1>2 DEF Frame, Commands
  <1>4. PICK a \in Answers :
          a = IF /\ record[Answerer] /\ open /\ saved
                 /\ Known(r) => ~Over(r)
              THEN "ok" ELSE "refused"
    BY DEF Answers
  <1>5. PICK new \in BOOLEAN : new = (~Known(r) /\ record[Answerer] /\ open /\ saved)
    OBVIOUS
  <1>6. /\ Comes(Answerer, old, f) /\ Replies(Answerer, old, f, a)
        /\ work' = IF new THEN [work EXCEPT ![r] = Accepted(r)] ELSE work
        /\ turned' = IF open /\ saved THEN turned ELSE turned \cup {r}
    BY <1>1, <1>2, <1>4, <1>5
  <1>7. /\ UNCHANGED <<asked, note, begins, keeps, unkept, record>>
        /\ links' = links
    BY <1>6 DEF TakesRequest, Replies
  <1>8. record[Answerer] = TRUE
    <2>1. record[Answerer]
      BY <1>0, <1>6, ReadLeaves
    <2> QED
      BY <1>0, <2>1 DEF ChannelTypes
  <1>9. asked[r].phase # "unsent"
    <2>1. wire[Answerer] \in Seq(FrameSet) /\ unread[Answerer] \in Seq(FrameSet)
      BY <1>0 DEF ChannelTypes, Channels
    <2>2. On(wire, unread, Answerer, "request", r)
      <3>1. CASE old
        <4>1. 1 \in 1 .. Len(unread[Answerer]) /\ unread[Answerer][1] = f
          BY <1>6, <2>1, <3>1, TailSays DEF Comes
        <4> QED
          BY <1>3, <4>1 DEF On
      <3>2. CASE ~old
        <4>1. 1 \in 1 .. Len(wire[Answerer]) /\ wire[Answerer][1] = f
          BY <1>6, <2>1, <3>2, TailSays DEF Comes
        <4> QED
          BY <1>3, <4>1 DEF On
      <3> QED
        BY <3>1, <3>2
    <2> QED
      BY <2>2 DEF LinksInv, FramesOk
  <1>10. Follows /\ RequestTypes' /\ WorkOk'
    BY <1>5, <1>6, <1>7, <1>8, <1>9, TakesRequestGoes
  <1>11. Crosses({}, IF old \/ ~f.awaited \/ ~live[Asker] THEN {}
                     ELSE {<<Asker, f.is, f.of, a>>}, {})
    BY <1>0, <1>3, <1>6, RepliesCrosses
  <1>12. CASE old \/ ~f.awaited \/ ~live[Asker]
    BY <1>10, <1>11, <1>12, KeptStill
  <1>13. CASE ~(old \/ ~f.awaited \/ ~live[Asker])
    <2>1. Crosses({}, {<<Asker, "request", r, a>>}, {})
      BY <1>3, <1>11, <1>13
    <2>2. ASSUME a = "refused"
          PROVE  Excused(r)'
      <3>1. CASE ~open \/ ~saved
        BY <1>6, <3>1 DEF Excused
      <3>2. CASE open /\ saved
        <4>1. Known(r) /\ Over(r)
          BY <1>4, <1>8, <2>2, <3>2
        <4>2. new = FALSE /\ work' = work
          BY <1>5, <1>6, <4>1
        <4>3. r \in unkept \/ ~ToldOf(work[r])
          <5>1. old = FALSE /\ f.awaited = TRUE /\ live[Asker] = TRUE
            BY <1>0, <1>3, <1>13, TheDesks DEF ChannelTypes, Channels
          <5> QED
            BY <1>3, <1>6, <5>1, AskedNotTold
        <4>4. r \in unkept \/ Ignored(work[r])
          BY <1>0, <4>1, <4>3 DEF Over, Ignored, ToldOf, WorkSet
        <4> QED
          BY <1>7, <4>2, <4>4 DEF Excused
      <3> QED
        BY <3>1, <3>2
    <2>3. SaysOk({<<Asker, "request", r, a>>})
      BY <2>2, TheDesks DEF SaysOk
    <2> QED
      BY <1>10, <2>1, <2>3, NothingNew, KeptBy DEF NewAsksOk
  <1> QED
    BY <1>12, <1>13

(* Notes.                                                                  *)
LEMMA NotesStay ==
  ASSUME LinksInv,
         UNCHANGED <<asked, work, begins, keeps, unkept, turned, record, links>>,
         note' \in [Requests -> {"none", "kept", "sent", "dropped"}]
  PROVE  Follows /\ RequestTypes' /\ WorkOk'
  BY RecordsStay

(* A note is left,                                                         *)
LEMMA LeavesNoteKept ==
  ASSUME LinksInv, NEW r \in Requests, LeavesNote(r)
  PROVE  Kept
  <1>1. /\ UNCHANGED <<asked, work, begins, keeps, unkept, turned, record, links>>
        /\ UNCHANGED <<live, wire, unread, call>>
    BY DEF LeavesNote, linkVars
  <1>2. note' \in [Requests -> {"none", "kept", "sent", "dropped"}]
    BY DEF LeavesNote, LinksInv, RequestTypes
  <1>3. Follows /\ RequestTypes' /\ WorkOk'
    BY <1>1, <1>2, NotesStay
  <1>4. Crosses({}, {}, {})
    BY <1>1, StillCrosses DEF LinksInv
  <1> QED
    BY <1>3, <1>4, KeptStill

(* sent,                                                                   *)
LEMMA SendsNoteKept ==
  ASSUME LinksInv, NEW r \in Requests, SendsNote(r)
  PROVE  Kept
  <1>0. /\ ChannelTypes /\ ChannelsFit /\ "note" \in Commands
    BY DEF LinksInv, Commands
  <1>1. /\ Calls(Answerer, Frame("note", r))
        /\ UNCHANGED <<asked, work, note, begins, keeps, unkept, turned>>
    BY DEF SendsNote, requestVars
  <1>2. record' = record /\ links' = links
    BY <1>1 DEF Calls
  <1>3. note' \in [Requests -> {"none", "kept", "sent", "dropped"}]
    BY <1>1 DEF LinksInv, RequestTypes
  <1>4. Follows /\ RequestTypes' /\ WorkOk'
    BY <1>1, <1>2, <1>3, NotesStay
  <1>5. Crosses({<<Asker, "note", r>>}, {}, {})
    <2>1. Crosses({<<Other(Answerer), "note", r>>}, {},
                  IF Answerer = Asker THEN {r} ELSE {})
      BY <1>0, <1>1, TheDesks, CallsCrosses
    <2> QED
      BY <2>1, TheDesks
  <1>6. PutsOk({<<Asker, "note", r>>})
    BY TheDesks DEF PutsOk
  <1> QED
    BY <1>4, <1>5, <1>6, NothingNew, KeptBy

(* heard of,                                                               *)
LEMMA NoteSentKept ==
  ASSUME LinksInv, NEW r \in Requests, NoteSent(r)
  PROVE  Kept
  <1>0. /\ ChannelTypes /\ ChannelsFit
    BY DEF LinksInv
  <1>1. /\ call[Answerer] # Nothing /\ call[Answerer].answer # "none"
        /\ Returns(Answerer)
        /\ UNCHANGED <<asked, work, begins, keeps, unkept, turned>>
    BY DEF NoteSent, Returned
  <1>2. record' = record /\ links' = links
    BY <1>1 DEF Returns
  <1>3. note' \in [Requests -> {"none", "kept", "sent", "dropped"}]
    BY DEF NoteSent, LinksInv, RequestTypes
  <1>4. Follows /\ RequestTypes' /\ WorkOk'
    BY <1>1, <1>2, <1>3, NotesStay
  <1>5. Crosses({}, {}, {})
    BY <1>0, <1>1, TheDesks, ReturnsCrosses
  <1> QED
    BY <1>4, <1>5, KeptStill

(* A record fits with a note kept or not.                                  *)
LEMMA FitsKept ==
  ASSUME NEW x, NEW a, NEW b, NEW k, NEW rec, NEW n, NEW m \in {0, 1},
         WorkFits(x, a, b, k, rec, n)
  PROVE  WorkFits(x, a, b, m, rec, n)
  BY DEF WorkFits

(* and kept on the asker's desk, once.                                     *)
LEMMA TakesNoteKept ==
  ASSUME LinksInv, NEW r \in Requests, TakesNote(r)
  PROVE  Kept
  <1>0. /\ ChannelTypes /\ ChannelsFit /\ Asker \in Desks /\ Other(Asker) = Answerer
        /\ keeps \in [Requests -> Nat] /\ "note" \in Commands
    BY TheDesks DEF LinksInv, RequestTypes, Commands
  <1>1. PICK old \in BOOLEAN, awaited \in BOOLEAN :
          LET f == [Frame("note", r) EXCEPT !.awaited = awaited] IN
          /\ Comes(Asker, old, f)
          /\ keeps' = [keeps EXCEPT ![r] = @ + (IF NoteKept(r) THEN 1 ELSE 0)]
          /\ Replies(Asker, old, f, IF record[Asker] THEN "ok" ELSE "refused")
    BY DEF TakesNote
  <1>2. PICK f : f = [Frame("note", r) EXCEPT !.awaited = awaited]
    OBVIOUS
  <1>3. f.is = "note" /\ f.of = r
    BY <1>2 DEF Frame
  <1>4. PICK a \in Answers : a = IF record[Asker] THEN "ok" ELSE "refused"
    BY DEF Answers
  <1>5. /\ Comes(Asker, old, f) /\ Replies(Asker, old, f, a)
        /\ keeps' = [keeps EXCEPT ![r] = @ + (IF NoteKept(r) THEN 1 ELSE 0)]
    BY <1>1, <1>2, <1>4
  <1>6. /\ UNCHANGED <<asked, work, note, begins, unkept, turned, record>>
        /\ links' = links
    BY <1>5 DEF TakesNote, Replies
  <1>7. /\ keeps' \in [Requests -> Nat]
        /\ \A q \in Requests : keeps'[q] \in {0, 1}
    <2>1. \A q \in Requests : keeps[q] \in {0, 1}
      BY WorkTyped DEF WorkFits
    <2>2. keeps[r] + (IF NoteKept(r) THEN 1 ELSE 0) \in {0, 1}
      BY <2>1 DEF NoteKept
    <2>3. keeps[r] + (IF NoteKept(r) THEN 1 ELSE 0) \in Nat
      BY <2>2
    <2> QED
      BY <1>0, <1>5, <2>1, <2>2, <2>3
  <1>8. Follows
    BY <1>6, GoesSame DEF Follows
  <1>9. RequestTypes'
    BY <1>6, <1>7 DEF LinksInv, RequestTypes
  <1>10. WorkOk'
    <2> SUFFICES ASSUME NEW q \in Requests
                 PROVE  WorkFits(work[q], asked[q], begins[q], keeps'[q],
                                 record[Answerer], links)
      BY <1>6 DEF WorkOk
    <2> QED
      BY <1>7, WorkTyped, FitsKept
  <1>11. Crosses({}, IF old \/ ~f.awaited \/ ~live[Answerer] THEN {}
                     ELSE {<<Answerer, f.is, f.of, a>>}, {})
    BY <1>0, <1>3, <1>5, RepliesCrosses
  <1>12. Crosses({}, {}, {}) \/ Crosses({}, {<<Answerer, "note", r, a>>}, {})
    BY <1>3, <1>11
  <1>13. SaysOk({<<Answerer, "note", r, a>>}) /\ NewAsksOk({}, {<<Answerer, "note", r, a>>})
    BY TheDesks DEF SaysOk, NewAsksOk
  <1> QED
    BY <1>8, <1>9, <1>10, <1>12, <1>13, NothingNew, KeptStill, KeptBy

(* A request is sent, or sent again, while no call of it is on its way.    *)
LEMMA ForwardsKept ==
  ASSUME LinksInv, NEW r \in Requests, Forwards(r)
  PROVE  Kept
  <1>0. /\ ChannelTypes /\ ChannelsFit /\ "request" \in Commands
    BY DEF LinksInv, Commands
  <1>1. /\ Calls(Asker, Frame("request", r)) /\ asked[r].phase = "queued"
        /\ UNCHANGED <<asked, work, note, begins, keeps, unkept, turned>>
    BY DEF Forwards, requestVars
  <1>2. record' = record /\ links' = links
    BY <1>1 DEF Calls
  <1>3. note' \in [Requests -> {"none", "kept", "sent", "dropped"}]
    BY <1>1 DEF LinksInv, RequestTypes
  <1>4. Follows /\ RequestTypes' /\ WorkOk'
    BY <1>1, <1>2, <1>3, NotesStay
  <1>5. Crosses({<<Answerer, "request", r>>}, {}, {r})
    <2>1. Crosses({<<Other(Asker), "request", r>>}, {},
                  IF Asker = Asker THEN {r} ELSE {})
      BY <1>0, <1>1, TheDesks, CallsCrosses
    <2> QED
      BY <2>1, TheDesks
  <1>6. PutsOk({<<Answerer, "request", r>>})
    BY <1>1, TheDesks DEF PutsOk
  <1>7. NewAsksOk({r}, {})
    <2>1. r \in unkept \/ ~Gone(r)
      BY <1>1 DEF Gone, OverAtAsker
    <2>2. r \in unkept \/ ~ToldOf(work[r])
      BY <2>1 DEF LinksInv, EndsOk
    <2> QED
      BY <1>1, <2>1, <2>2 DEF NewAsksOk
  <1> QED
    BY <1>4, <1>5, <1>6, <1>7, NothingNew, KeptBy

(* Work of a link that ended has no lease of it when the next begins.      *)
LEMMA FitsLinked ==
  ASSUME NEW x, NEW a, NEW b, NEW k, NEW rec, NEW n \in Nat, x.link \in Nat,
         WorkFits(x, a, b, k, FALSE, n)
  PROVE  WorkFits(x, a, b, k, rec, n + 1)
  <1>1. x.link <= n /\ (x.lease = TRUE /\ x.phase # "absent" => x.link = 0)
    BY DEF WorkFits
  <1>2. x.link <= n + 1
    BY <1>1
  <1> QED
    BY <1>1, <1>2 DEF WorkFits

(* The channel's own steps.                                                *)
LEMMA ChannelKept ==
  ASSUME LinksInv, ChannelStep, UNCHANGED requestVars
  PROVE  Kept
  <1>0. ChannelTypes /\ ChannelsFit
    BY DEF LinksInv
  <1>1. UNCHANGED <<asked, work, note, begins, keeps, unkept, turned>>
    BY DEF requestVars
  <1>2. note' \in [Requests -> {"none", "kept", "sent", "dropped"}]
    BY <1>1 DEF LinksInv, RequestTypes
  <1>3. ASSUME NEW d \in Desks, Links(d)
        PROVE  Kept
    <2>1. /\ record' = [x \in Desks |-> TRUE] /\ links' = links + 1
          /\ record[Answerer] = FALSE
          /\ UNCHANGED <<live, wire, unread, call>>
      BY <1>0, <1>3, TheDesks DEF Links, ChannelTypes
    <2>2. Crosses({}, {}, {})
      BY <1>0, <2>1, StillCrosses
    <2>3. Follows
      BY <1>1, GoesSame DEF Follows
    <2>4. RequestTypes'
      BY <1>1, <1>2 DEF LinksInv, RequestTypes
    <2>5. WorkOk'
      <3> SUFFICES ASSUME NEW r \in Requests
                   PROVE  WorkFits(work[r], asked[r], begins[r], keeps[r],
                                   record'[Answerer], links')
        BY <1>1 DEF WorkOk
      <3>1. links \in Nat /\ work[r].link \in Nat
        BY <1>0, WorkTyped DEF ChannelTypes, WorkSet
      <3> QED
        BY <2>1, <3>1, WorkTyped, FitsLinked
    <2> QED
      BY <2>2, <2>3, <2>4, <2>5, KeptStill
  <1>4. ASSUME record' = record, links' = links, Crosses({}, {}, {})
        PROVE  Kept
    BY <1>1, <1>2, <1>4, NotesStay, KeptStill
  <1>5. CASE Opens
    BY <1>0, <1>4, <1>5, OpensCrosses DEF Opens
  <1>6. ASSUME NEW d \in Desks, Closes(d)
        PROVE  Kept
    BY <1>0, <1>4, <1>6, ClosesCrosses DEF Closes
  <1>7. ASSUME NEW d \in Desks, OldCloses(d)
        PROVE  Kept
    BY <1>0, <1>4, <1>7, OldClosesCrosses DEF OldCloses
  <1>8. ASSUME NEW d \in Desks, TimesOut(d)
        PROVE  Kept
    BY <1>0, <1>4, <1>8, TimesOutCrosses DEF TimesOut
  <1>9. ASSUME NEW d \in Desks, TakesRoster(d)
        PROVE  Kept
    <2>1. PICK old \in BOOLEAN :
            /\ Comes(d, old, Roster)
            /\ wire' = Read(d, old)[1] /\ unread' = Read(d, old)[2]
            /\ live' = live /\ call' = call /\ record' = record /\ links' = links
      BY <1>9 DEF TakesRoster
    <2>2. Crosses({}, {}, {})
      BY <1>0, <2>1, SkimCrosses
    <2> QED
      BY <1>4, <2>1, <2>2
  <1>10. ASSUME NEW d \in Desks, TakesAnswer(d)
         PROVE  Kept
    BY <1>0, <1>4, <1>10, TakesAnswerCrosses DEF TakesAnswer
  <1>11. ASSUME NEW d \in Desks, TakesGoodbye(d) \/ Refused(d)
         PROVE  Kept
    <2>1. UNCHANGED <<live, wire, unread, call, record, links>>
      BY <1>11 DEF TakesGoodbye, Refused
    <2> QED
      BY <1>0, <1>4, <2>1, StillCrosses
  <1> QED
    BY <1>3, <1>5, <1>6, <1>7, <1>8, <1>9, <1>10, <1>11 DEF ChannelStep

(* A desk says goodbye, or fails to end its side.                          *)
LEMMA UnlinksKept ==
  ASSUME LinksInv, NEW d \in Desks,
         \/ Unlink(d) /\ UNCHANGED requestVars
         \/ UnlinkFails(d)
  PROVE  Kept
  <1>0. ChannelTypes /\ ChannelsFit
    BY DEF LinksInv
  <1>1. /\ UNCHANGED <<asked, work, note, begins, keeps, unkept, turned>>
        /\ record' = record /\ links' = links
    BY DEF requestVars, Unlink, UnlinkFails
  <1>2. note' \in [Requests -> {"none", "kept", "sent", "dropped"}]
    BY <1>1 DEF LinksInv, RequestTypes
  <1>3. Crosses({}, {}, {})
    BY <1>0, UnlinkCrosses, UnlinkFailsCrosses
  <1> QED
    BY <1>1, <1>2, <1>3, NotesStay, KeptStill

(* The asker's own steps.                                                  *)
LEMMA AskerKept ==
  ASSUME LinksInv, NEW r \in Requests,
         Sends(r) \/ AskerStep(r) \/ AskerStops(r)
  PROVE  Kept
  <1>0. ChannelTypes /\ ChannelsFit
    BY DEF LinksInv
  <1>1. CASE Sends(r)
    <2>1. UNCHANGED <<live, wire, unread, call>>
      BY <1>1 DEF Sends, linkVars
    <2> QED
      BY <1>0, <1>1, <2>1, SendsGoes, StillCrosses, KeptStill
  <1>2. CASE AskerSweeps(r) \/ AskerStops(r)
    <2>1. UNCHANGED <<live, wire, unread, call>>
      BY <1>2 DEF AskerSweeps, AskerStops, linkVars
    <2> QED
      BY <1>0, <1>2, <2>1, AskerSweepsGoes, StillCrosses, KeptStill
  <1>3. CASE Delivers(r)
    <2>1. UNCHANGED <<live, wire, unread, call>>
      BY <1>3 DEF Delivers, linkVars
    <2> QED
      BY <1>0, <1>3, <2>1, DeliversGoes, StillCrosses, KeptStill
  <1>4. CASE Forwarded(r)
    <2>1. call[Asker] # Nothing /\ call[Asker].answer # "none" /\ Returns(Asker)
      BY <1>4 DEF Forwarded, Returned
    <2> QED
      BY <1>0, <1>4, <2>1, TheDesks, ForwardedGoes, ReturnsCrosses, KeptStill
  <1>5. CASE TakesResult(r)
    <2>1. /\ Follows /\ RequestTypes' /\ WorkOk' /\ Gone(r)'
          /\ \E is \in {"result", "stop"}, a \in Answers :
               Crosses({}, {<<Answerer, is, r, a>>}, {}) \/ Crosses({}, {}, {})
      BY <1>5, TakesResultGoes
    <2>2. PICK is \in {"result", "stop"}, a \in Answers :
            Crosses({}, {<<Answerer, is, r, a>>}, {}) \/ Crosses({}, {}, {})
      BY <2>1
    <2>3. SaysOk({<<Answerer, is, r, a>>}) /\ NewAsksOk({}, {<<Answerer, is, r, a>>})
      BY <2>1, TheDesks DEF SaysOk, NewAsksOk
    <2> QED
      BY <2>1, <2>2, <2>3, NothingNew, KeptStill, KeptBy
  <1> QED
    BY <1>1, <1>2, <1>3, <1>4, <1>5, ForwardsKept, TakesNoteKept DEF AskerStep

(* The answerer's own steps.                                               *)
LEMMA AnswererKept ==
  ASSUME LinksInv, NEW r \in Requests,
         \/ AnswererStep(r) \/ LeavesNote(r) \/ PersonStops(r) \/ ExchangeStops(r)
  PROVE  Kept
  <1>0. ChannelTypes /\ ChannelsFit
    BY DEF LinksInv
  <1>1. ASSUME Admits(r) \/ Begins(r) \/ Finishes(r)
        PROVE  Kept
    <2>1. UNCHANGED <<live, wire, unread, call>>
      BY <1>1 DEF Admits, Begins, Finishes, linkVars
    <2> QED
      BY <1>0, <1>1, <2>1, AdmitsGoes, BeginsGoes, FinishesGoes, StillCrosses, KeptStill
  <1>2. ASSUME PersonStops(r) \/ ExchangeStops(r) \/ AnswererSweeps(r)
        PROVE  Kept
    <2>1. UNCHANGED <<live, wire, unread, call>>
      BY <1>2 DEF PersonStops, ExchangeStops, AnswererSweeps, linkVars
    <2> QED
      BY <1>0, <1>2, <2>1, StopsGo, StillCrosses, KeptStill
  <1> QED
    BY <1>1, <1>2, TakesRequestKept, SendsNoteKept, NoteSentKept, ReturnsStopKept,
       ClaimsKept, ResultSentKept, LeavesNoteKept DEF AnswererStep

(* What the end of a link, or a restart, does to all requests at once.     *)
LEMMA SweepsKept ==
  ASSUME LinksInv, NEW d \in Desks, Sweeps(d)
  PROVE  Kept
  <1>0. ChannelTypes /\ ChannelsFit /\ asked \in [Requests -> AskedSet]
        /\ work \in [Requests -> WorkSet]
    BY DEF LinksInv, RequestTypes
  <1>1. /\ UNCHANGED <<live, wire, unread, call, record, links>>
        /\ UNCHANGED <<begins, keeps, unkept, turned>>
    BY DEF Sweeps
  <1>2. Crosses({}, {}, {})
    BY <1>0, <1>1, StillCrosses
  <1>3. note' \in [Requests -> {"none", "kept", "sent", "dropped"}]
    BY DEF Sweeps, LinksInv, RequestTypes
  <1>4. CASE d = Asker
    <2>1. asked' = EndedAll(asked) /\ UNCHANGED work
      BY <1>4 DEF Sweeps
    <2>2. \A r \in Requests :
            asked'[r] = IF ~Pending(asked[r]) THEN asked[r]
                        ELSE [asked[r] EXCEPT !.phase = "stopped"]
      BY <2>1 DEF EndedAll
    <2>3. \A r \in Requests :
            /\ asked'[r] \in AskedSet /\ AskedGoes(asked[r], asked'[r])
            /\ asked'[r].by = "failure" => asked[r].by = "failure"
      <3> SUFFICES ASSUME NEW r \in Requests
                   PROVE  /\ asked'[r] \in AskedSet
                          /\ AskedGoes(asked[r], asked'[r])
                          /\ asked'[r].by = "failure" => asked[r].by = "failure"
        OBVIOUS
      <3>0. asked[r] \in AskedSet
        BY <1>0
      <3>1. CASE ~Pending(asked[r])
        BY <2>2, <3>0, <3>1, GoesSame
      <3>2. CASE Pending(asked[r])
        BY <2>2, <3>0, <3>2, StopGoes
      <3> QED
        BY <3>1, <3>2
    <2>4. asked' \in [Requests -> AskedSet]
      BY <2>1, <2>3 DEF EndedAll
    <2>5. Follows /\ RequestTypes' /\ WorkOk'
      BY <1>1, <1>3, <2>1, <2>3, <2>4, AskedMoves
    <2> QED
      BY <1>2, <2>5, KeptStill
  <1>5. CASE d # Asker
    <2>1. work' = [r \in Requests |-> IF Pending(work[r])
                   THEN Ended(work[r], FALSE, "no") ELSE work[r]]
          /\ UNCHANGED asked
      BY <1>5 DEF Sweeps
    <2>2. \A r \in Requests :
            /\ work'[r] \in WorkSet
            /\ WorkFits(work'[r], asked[r], begins[r], keeps[r],
                        record[Answerer], links)
            /\ WorkGoes(work[r], work'[r])
            /\ ToldOf(work'[r]) => ToldOf(work[r])
      <3> SUFFICES ASSUME NEW r \in Requests
                   PROVE  /\ work'[r] \in WorkSet
                          /\ WorkFits(work'[r], asked[r], begins[r], keeps[r],
                                      record[Answerer], links)
                          /\ WorkGoes(work[r], work'[r])
                          /\ ToldOf(work'[r]) => ToldOf(work[r])
        OBVIOUS
      <3>1. CASE ~Pending(work[r])
        BY <1>0, <2>1, <3>1, GoesSame, WorkTyped
      <3>2. CASE Pending(work[r])
        <4>1. "no" \in {"no", "yes", "told"} /\ work[r] \in WorkSet
          BY <1>0
        <4>0. PICK n \in BOOLEAN : n = FALSE
          OBVIOUS
        <4>2. PICK y : y = Ended(work[r], n, "no") /\ work'[r] = y
          BY <2>1, <3>2, <4>0
        <4>3. /\ work'[r] \in WorkSet /\ work'[r].phase = "stopped"
              /\ work'[r].failed = work[r].failed
              /\ work'[r].handoff = work[r].handoff /\ work'[r].begun = work[r].begun
              /\ work'[r].byPerson = FALSE /\ work'[r].owed = "no"
              /\ work'[r].lease = work[r].lease /\ work'[r].link = work[r].link
          <5>1. /\ y \in WorkSet /\ y.phase = "stopped" /\ y.failed = work[r].failed
                /\ y.handoff = work[r].handoff /\ y.begun = work[r].begun
                /\ y.byPerson = n /\ y.owed = "no"
                /\ y.lease = work[r].lease /\ y.link = work[r].link
            BY <4>1, <4>2, WorkEnded
          <5> QED
            BY <4>0, <4>2, <5>1
        <4>4. work[r].phase \in {"queued", "running", "reply", "sending", "done"}
          BY <3>2 DEF Pending, Open
        <4>5. WorkFits(work'[r], asked[r], begins[r], keeps[r], record[Answerer],
                       links)
          BY <4>3, <4>4, WorkTyped DEF WorkFits
        <4>6. WorkGoes(work[r], work'[r]) /\ ~ToldOf(work'[r])
          BY <4>3, <4>4 DEF WorkGoes, Returnable, Stoppable, Ignored, ToldOf
        <4> QED
          BY <4>3, <4>5, <4>6
      <3> QED
        BY <3>1, <3>2
    <2>3. work' \in [Requests -> WorkSet] /\ begins' \in [Requests -> Nat]
      BY <1>1, <2>1, <2>2 DEF LinksInv, RequestTypes
    <2>4. \A r \in Requests :
            WorkFits(work'[r], asked[r], begins'[r], keeps[r], record'[Answerer],
                     links')
      BY <1>1, <2>2
    <2>5. Follows /\ RequestTypes' /\ WorkOk'
      BY <1>1, <1>3, <2>1, <2>2, <2>3, <2>4, WorkMoves
    <2> QED
      BY <1>2, <2>5, KeptStill
  <1> QED
    BY <1>4, <1>5

(* Leases end, on the asker's desk.                                        *)
LEMMA LeasesGo ==
  ASSUME LinksInv, asked' \in [Requests -> AskedSet],
         \A r \in Requests : /\ asked'[r].phase = asked[r].phase
                             /\ asked'[r].by = asked[r].by
                             /\ asked'[r].handoff = asked[r].handoff,
         UNCHANGED <<work, note, begins, keeps, unkept, turned>>,
         record'[Answerer] = record[Answerer], links' = links
  PROVE  Follows /\ RequestTypes' /\ WorkOk'
  <1>1. \A r \in Requests : AskedGoes(asked[r], asked'[r])
    BY DEF AskedGoes, OverAtAsker
  <1>2. note' \in [Requests -> {"none", "kept", "sent", "dropped"}]
    BY DEF LinksInv, RequestTypes
  <1> QED
    BY <1>1, <1>2, AskedMoves

(* A link ends on a desk: its leases end, whatever its requests are.       *)
LEMMA UnlinkedKept ==
  ASSUME LinksInv, NEW d \in Desks, Unlinked(d)
  PROVE  Kept
  <1>0. ChannelTypes /\ ChannelsFit /\ asked \in [Requests -> AskedSet]
        /\ work \in [Requests -> WorkSet]
    BY DEF LinksInv, RequestTypes
  <1>1. /\ UNCHANGED <<note, begins, keeps, unkept, turned>> /\ links' = links
        /\ record' = [record EXCEPT ![d] = FALSE] /\ Forget(d)
    BY DEF Unlinked
  <1>2. Crosses({}, {}, {})
    BY <1>0, <1>1, ForgetCrosses
  <1>3. note' \in [Requests -> {"none", "kept", "sent", "dropped"}]
    BY <1>1 DEF LinksInv, RequestTypes
  <1>4. CASE d = Asker
    <2>1. asked' = LeasesEnd(asked, "unsent") /\ UNCHANGED work
          /\ record'[Answerer] = record[Answerer]
      BY <1>0, <1>1, <1>4, TheDesks DEF Unlinked, ChannelTypes
    <2>2. \A r \in Requests :
            /\ asked'[r] \in AskedSet /\ asked'[r].phase = asked[r].phase
            /\ asked'[r].by = asked[r].by /\ asked'[r].handoff = asked[r].handoff
      <3> SUFFICES ASSUME NEW r \in Requests
                   PROVE  /\ asked'[r] \in AskedSet /\ asked'[r].phase = asked[r].phase
                          /\ asked'[r].by = asked[r].by
                          /\ asked'[r].handoff = asked[r].handoff
        OBVIOUS
      <3>1. asked[r] \in AskedSet
        BY <1>0
      <3>2. asked'[r] = [asked[r] EXCEPT !.lease = asked[r].phase = "unsent"]
        BY <2>1 DEF LeasesEnd
      <3> QED
        BY <3>1, <3>2, AskedLease
    <2>3. asked' \in [Requests -> AskedSet]
      BY <2>1, <2>2 DEF LeasesEnd
    <2>4. Follows /\ RequestTypes' /\ WorkOk'
      BY <1>1, <2>1, <2>2, <2>3, LeasesGo
    <2> QED
      BY <1>2, <2>4, KeptStill
  <1>5. CASE d # Asker
    <2>1. work' = LeasesEnd(work, "absent") /\ UNCHANGED asked
      BY <1>0, <1>1, <1>5, TheDesks DEF Unlinked, ChannelTypes
    <2>2. \A r \in Requests :
            /\ work'[r] \in WorkSet
            /\ WorkFits(work'[r], asked[r], begins[r], keeps[r],
                        record'[Answerer], links)
            /\ WorkGoes(work[r], work'[r])
            /\ ToldOf(work'[r]) => ToldOf(work[r])
      <3> SUFFICES ASSUME NEW r \in Requests
                   PROVE  /\ work'[r] \in WorkSet
                          /\ WorkFits(work'[r], asked[r], begins[r], keeps[r],
                                      record'[Answerer], links)
                          /\ WorkGoes(work[r], work'[r])
                          /\ ToldOf(work'[r]) => ToldOf(work[r])
        OBVIOUS
      <3>1. work[r] \in WorkSet
        BY <1>0
      <3>2. PICK l \in BOOLEAN : l = (work[r].phase = "absent")
        OBVIOUS
      <3>3. work'[r] = Leased(work[r], l)
        BY <2>1, <3>2 DEF LeasesEnd, Leased
      <3>4. /\ work'[r] \in WorkSet /\ work'[r].phase = work[r].phase
            /\ work'[r].failed = work[r].failed
            /\ work'[r].handoff = work[r].handoff /\ work'[r].begun = work[r].begun
            /\ work'[r].byPerson = work[r].byPerson /\ work'[r].owed = work[r].owed
            /\ work'[r].lease = l /\ work'[r].link = work[r].link
        BY <3>1, <3>3, WorkLeased
      <3>5. WorkFits(work'[r], asked[r], begins[r], keeps[r], record'[Answerer],
                     links)
        BY <3>2, <3>4, WorkTyped DEF WorkFits
      <3>6. WorkGoes(work[r], work'[r]) /\ (ToldOf(work'[r]) => ToldOf(work[r]))
        BY <3>4 DEF WorkGoes, Returnable, Stoppable, Ignored, ToldOf
      <3> QED
        BY <3>4, <3>5, <3>6
    <2>3. work' \in [Requests -> WorkSet] /\ begins' \in [Requests -> Nat]
      BY <1>1, <2>1, <2>2 DEF LinksInv, RequestTypes, LeasesEnd
    <2>4. \A r \in Requests :
            WorkFits(work'[r], asked[r], begins'[r], keeps[r], record'[Answerer],
                     links')
      BY <1>1, <2>2
    <2>5. Follows /\ RequestTypes' /\ WorkOk'
      BY <1>1, <1>3, <2>1, <2>2, <2>3, <2>4, WorkMoves
    <2> QED
      BY <1>2, <2>5, KeptStill
  <1> QED
    BY <1>4, <1>5

(* reconcile_exchanges: a record a restart left fits, and goes on as it    *)
(* may.                                                                    *)
LEMMA RestartedFits ==
  ASSUME NEW x \in WorkSet, NEW a, NEW m, NEW k, NEW rec, NEW n \in Nat,
         WorkFits(x, a, m, k, rec, n)
  PROVE  /\ Restarted(x) \in WorkSet /\ WorkFits(Restarted(x), a, m, k, rec, n)
         /\ WorkGoes(x, Restarted(x)) /\ (ToldOf(Restarted(x)) => ToldOf(x))
  <1>1. PICK b \in BOOLEAN : b = (x.failed \/ (x.phase = "running" /\ x.begun))
    BY DEF WorkSet
  <1>2. PICK p : p = CASE x.phase = "running" /\ ~x.begun -> "queued"
                     [] \/ x.phase = "sending"
                        \/ (x.phase = "running" /\ x.begun) -> "reply"
                     [] OTHER -> x.phase
    OBVIOUS
  <1>0. PICK z \in Nat : z = 0
    OBVIOUS
  <1>3. PICK y : y = Anew(x, z, p, b)
    OBVIOUS
  <1>4. y = Restarted(x)
    BY <1>0, <1>1, <1>2, <1>3 DEF Restarted, Anew
  <1>5. x.begun \in BOOLEAN /\ x.failed \in BOOLEAN /\ x.phase \in Phases
    BY DEF WorkSet, Phases
  <1>6. ASSUME p \in Phases
        PROVE  /\ y \in WorkSet /\ y.phase = p /\ y.failed = b
               /\ y.handoff = x.handoff /\ y.begun = x.begun
               /\ y.byPerson = x.byPerson /\ y.owed = x.owed
               /\ y.lease = TRUE /\ y.link = z
    BY <1>3, <1>6, ZenonT(60) DEF Anew, WorkSet, Phases
  <1>7. CASE x.phase = "running" /\ x.begun = FALSE
    <2>1. p = "queued" /\ p \in Phases /\ b = FALSE
      BY <1>1, <1>2, <1>7 DEF Phases, WorkFits
    <2> QED
      BY <1>0, <1>4, <1>6, <1>7, <2>1
         DEF WorkFits, WorkGoes, Returnable, Stoppable, Ignored, ToldOf
  <1>8. CASE x.phase = "sending" \/ (x.phase = "running" /\ x.begun = TRUE)
    <2>1. p = "reply" /\ p \in Phases /\ (x.failed = TRUE => b = TRUE)
      BY <1>1, <1>2, <1>8 DEF Phases
    <2> QED
      BY <1>0, <1>4, <1>6, <1>8, <2>1
         DEF WorkFits, WorkGoes, Returnable, Stoppable, Ignored, ToldOf
  <1>9. CASE x.phase \notin {"running", "sending"}
    <2>1. p = x.phase /\ p \in Phases /\ b = x.failed
      BY <1>1, <1>2, <1>5, <1>9
    <2>2. /\ y \in WorkSet /\ y.phase = x.phase /\ y.failed = x.failed
          /\ y.handoff = x.handoff /\ y.begun = x.begun
          /\ y.byPerson = x.byPerson /\ y.owed = x.owed
          /\ y.lease = TRUE /\ y.link = z
      BY <1>6, <2>1
    <2>3. WorkFits(y, a, m, k, rec, n)
      BY <1>0, <2>2 DEF WorkFits
    <2>4. WorkGoes(x, y) /\ (ToldOf(y) => ToldOf(x))
      BY <2>2 DEF WorkGoes, Returnable, Stoppable, Ignored, ToldOf
    <2> QED
      BY <1>4, <2>2, <2>3, <2>4
  <1> QED
    BY <1>5, <1>7, <1>8, <1>9

(* A desk restarts.                                                        *)
LEMMA RestartsKept ==
  ASSUME LinksInv, NEW d \in Desks, Restarts(d)
  PROVE  Kept
  <1>0. ChannelTypes /\ ChannelsFit /\ asked \in [Requests -> AskedSet]
        /\ work \in [Requests -> WorkSet]
    BY DEF LinksInv, RequestTypes
  <1>1. /\ UNCHANGED <<note, begins, keeps, unkept, turned>>
        /\ LinkRestarts(d) /\ record' = record /\ links' = links
    BY DEF Restarts, LinkRestarts
  <1>2. Crosses({}, {}, {})
    BY <1>0, <1>1, RestartCrosses
  <1>3. note' \in [Requests -> {"none", "kept", "sent", "dropped"}]
    BY <1>1 DEF LinksInv, RequestTypes
  <1>4. CASE d = Asker
    <2>1. asked' = [r \in Requests |-> [asked[r] EXCEPT !.lease = TRUE]]
          /\ UNCHANGED work
      BY <1>4 DEF Restarts
    <2>2. \A r \in Requests :
            /\ asked'[r] \in AskedSet /\ asked'[r].phase = asked[r].phase
            /\ asked'[r].by = asked[r].by /\ asked'[r].handoff = asked[r].handoff
      BY <1>0, <2>1, AskedLease
    <2>3. asked' \in [Requests -> AskedSet]
      BY <2>1, <2>2
    <2>4. Follows /\ RequestTypes' /\ WorkOk'
      BY <1>1, <2>1, <2>2, <2>3, LeasesGo
    <2> QED
      BY <1>2, <2>4, KeptStill
  <1>5. CASE d # Asker
    <2>1. work' = [r \in Requests |-> Restarted(work[r])] /\ UNCHANGED asked
      BY <1>5 DEF Restarts
    <2>2. \A r \in Requests :
            /\ work'[r] \in WorkSet
            /\ WorkFits(work'[r], asked[r], begins[r], keeps[r],
                        record[Answerer], links)
            /\ WorkGoes(work[r], work'[r])
            /\ ToldOf(work'[r]) => ToldOf(work[r])
      <3> SUFFICES ASSUME NEW r \in Requests
                   PROVE  /\ work'[r] \in WorkSet
                          /\ WorkFits(work'[r], asked[r], begins[r], keeps[r],
                                      record[Answerer], links)
                          /\ WorkGoes(work[r], work'[r])
                          /\ ToldOf(work'[r]) => ToldOf(work[r])
        OBVIOUS
      <3>1. work[r] \in WorkSet
        BY <1>0
      <3>2. work'[r] = Restarted(work[r]) /\ links \in Nat
        BY <1>0, <2>1 DEF ChannelTypes
      <3> QED
        BY <3>1, <3>2, WorkTyped, RestartedFits
    <2>3. work' \in [Requests -> WorkSet] /\ begins' \in [Requests -> Nat]
      BY <1>1, <2>1, <2>2 DEF LinksInv, RequestTypes
    <2>4. \A r \in Requests :
            WorkFits(work'[r], asked[r], begins'[r], keeps[r], record'[Answerer],
                     links')
      BY <1>1, <2>2
    <2>5. Follows /\ RequestTypes' /\ WorkOk'
      BY <1>1, <1>3, <2>1, <2>2, <2>3, <2>4, WorkMoves
    <2> QED
      BY <1>2, <2>5, KeptStill
  <1> QED
    BY <1>4, <1>5

(* The rest of the link's state.                                           *)
Rest == /\ record' \in [Desks -> BOOLEAN] /\ shown' \in [Desks -> BOOLEAN]
        /\ dials' \in Desks /\ ending' \in [Desks -> {"no", "sweep", "remove"}]
        /\ faults' \in Nat /\ links' \in Nat /\ links' >= 1 /\ links' <= faults' + 1
        /\ \A d \in Desks : record'[d] = FALSE =>
             record[d] = FALSE \/ (live'[d] = FALSE /\ unread'[d] = <<>>)

(* A step that leaves the link's records,                                  *)
LEMMA RestStays ==
  ASSUME LinksInv, UNCHANGED <<record, dials, links>>,
         ending' \in [Desks -> {"no", "sweep", "remove"}],
         shown' \in [Desks -> BOOLEAN],
         faults' = faults \/ faults' = faults + 1
  PROVE  Rest
  BY DEF LinksInv, ChannelTypes, Rest

(* or more of the link,                                                    *)
LEMMA RestSame ==
  ASSUME LinksInv, UNCHANGED <<record, dials, links, ending, shown>>,
         faults' = faults \/ faults' = faults + 1
  PROVE  Rest
  <1>1. /\ ending' \in [Desks -> {"no", "sweep", "remove"}]
        /\ shown' \in [Desks -> BOOLEAN]
    BY DEF LinksInv, ChannelTypes
  <1> QED
    BY <1>1, RestStays

(* or is a fault among those counted,                                      *)
LEMMA FaultsGrow ==
  ASSUME LinksInv
  PROVE  /\ Fault => faults' = faults \/ faults' = faults + 1
         /\ \A saved \in BOOLEAN :
              Written(saved) => faults' = faults \/ faults' = faults + 1
  <1>1. faults + 0 = faults
    BY DEF LinksInv, ChannelTypes
  <1> QED
    BY <1>1 DEF Fault, Written

(* as a request's steps are,                                               *)
LEMMA RequestsRest ==
  ASSUME LinksInv, NEW r \in Requests,
         \/ Sends(r) \/ AskerStep(r) \/ AskerStops(r)
         \/ AnswererStep(r) \/ LeavesNote(r)
         \/ PersonStops(r) \/ ExchangeStops(r)
  PROVE  Rest
  <1>0. faults \in Nat
    BY DEF LinksInv, ChannelTypes
  <1>1. ASSUME UNCHANGED linkVars,
               faults' = faults \/ faults' = faults + 1
        PROVE  Rest
    BY <1>1, RestSame DEF linkVars
  <1>2. ASSUME NEW d \in Desks, NEW f, Calls(d, f), faults' = faults
        PROVE  Rest
    BY <1>2, RestSame DEF Calls
  <1>3. ASSUME NEW d \in Desks, Returns(d),
               faults' = faults \/ faults' = faults + 1
        PROVE  Rest
    BY <1>3, RestSame DEF Returns
  <1>4. Asker \in Desks /\ Answerer \in Desks
    BY TheDesks
  <1>5. CASE Sends(r) \/ AskerSweeps(r) \/ Delivers(r) \/ AskerStops(r)
    BY <1>1, <1>5, FaultsGrow DEF Sends, AskerSweeps, Delivers, AskerStops
  <1>6. CASE Admits(r) \/ Begins(r) \/ Finishes(r) \/ LeavesNote(r)
    BY <1>1, <1>6 DEF Admits, Begins, Finishes, LeavesNote
  <1>7. CASE PersonStops(r) \/ ExchangeStops(r) \/ AnswererSweeps(r)
    BY <1>1, <1>7, FaultsGrow DEF PersonStops, ExchangeStops, AnswererSweeps
  <1>8. CASE Forwards(r) \/ SendsNote(r) \/ Claims(r)
    BY <1>2, <1>4, <1>8 DEF Forwards, SendsNote, Claims
  <1>9. CASE ReturnsStop(r)
    <2>1. CASE record[Answerer]
      BY <1>2, <1>4, <1>9, <2>1 DEF ReturnsStop
    <2>2. CASE ~record[Answerer]
      BY <1>1, <1>9, <2>2 DEF ReturnsStop
    <2> QED
      BY <2>1, <2>2
  <1>10. CASE Forwarded(r)
    <2>1. Returns(Asker) /\ \E saved \in BOOLEAN : Written(saved)
      BY <1>10 DEF Forwarded
    <2> QED
      BY <1>3, <1>4, <2>1, FaultsGrow
  <1>11. CASE NoteSent(r) \/ ResultSent(r)
    <2>1. Returns(Answerer) /\ \E saved \in BOOLEAN : Written(saved)
      BY <1>11 DEF NoteSent, ResultSent
    <2> QED
      BY <1>3, <1>4, <2>1, FaultsGrow
  <1>12. CASE TakesResult(r) \/ TakesNote(r) \/ TakesRequest(r)
    <2>1. UNCHANGED <<record, dials, links, ending, shown>>
      BY <1>12 DEF TakesResult, TakesNote, TakesRequest, Replies
    <2>2. \/ faults' = faults
          \/ \E saved \in BOOLEAN : Written(saved)
      <3>1. CASE TakesResult(r)
        BY <3>1 DEF TakesResult
      <3>2. CASE TakesNote(r)
        BY <3>2 DEF TakesNote
      <3>3. CASE TakesRequest(r)
        <4>1. \E saved, open \in BOOLEAN : Written(open /\ saved)
          BY <3>3 DEF TakesRequest
        <4> QED
          BY <4>1
      <3> QED
        BY <1>12, <3>1, <3>2, <3>3
    <2> QED
      BY <2>1, <2>2, FaultsGrow, RestSame
  <1> QED
    BY <1>5, <1>6, <1>7, <1>8, <1>9, <1>10, <1>11, <1>12 DEF AskerStep, AnswererStep

(* and those of the channel and of the link itself.                        *)
LEMMA LinksRest ==
  ASSUME LinksInv, NEW d \in Desks,
         \/ Closes(d) \/ OldCloses(d) \/ TimesOut(d)
         \/ TakesRoster(d) \/ TakesAnswer(d)
         \/ TakesGoodbye(d) \/ Refused(d) \/ Links(d) \/ Opens
         \/ Unlink(d) /\ Fault
         \/ Sweeps(d) \/ Unlinked(d) \/ UnlinkFails(d) \/ Restarts(d)
  PROVE  Rest
  <1>0. /\ faults \in Nat /\ ending \in [Desks -> {"no", "sweep", "remove"}]
        /\ shown \in [Desks -> BOOLEAN] /\ record \in [Desks -> BOOLEAN]
        /\ ChannelTypes /\ ChannelsFit
    BY DEF LinksInv, ChannelTypes
  <1>1. CASE Opens
    BY <1>0, <1>1, RestStays DEF Opens
  <1>2. CASE Closes(d)
    BY <1>0, <1>2, FaultsGrow, RestStays DEF Closes
  <1>3. CASE OldCloses(d) \/ TimesOut(d) \/ TakesAnswer(d)
    BY <1>3, FaultsGrow, RestSame DEF OldCloses, TimesOut, TakesAnswer
  <1>4. CASE TakesRoster(d)
    BY <1>0, <1>4, RestStays DEF TakesRoster
  <1>5. CASE TakesGoodbye(d) \/ Refused(d)
    BY <1>0, <1>5, RestStays DEF TakesGoodbye, Refused
  <1>6. CASE Links(d)
    <2>1. /\ record' = [x \in Desks |-> TRUE] /\ dials' = d /\ links' = links + 1
          /\ faults' = faults + 1 /\ ending' = ending /\ shown' = shown
      BY <1>6 DEF Links, Fault
    <2> QED
      BY <1>0, <2>1 DEF Rest, ChannelTypes
  <1>7. CASE Unlink(d) /\ Fault
    <2>1. ending' \in [Desks -> {"no", "sweep", "remove"}]
      BY <1>0, <1>7 DEF Unlink
    <2> QED
      BY <1>0, <1>7, <2>1, FaultsGrow, RestStays DEF Unlink
  <1>8. CASE Sweeps(d)
    BY <1>0, <1>8, RestStays DEF Sweeps
  <1>9. CASE Unlinked(d)
    <2>1. /\ record' = [record EXCEPT ![d] = FALSE] /\ links' = links /\ dials' = dials
          /\ faults' = faults /\ ending' = [ending EXCEPT ![d] = "no"]
          /\ shown' = [shown EXCEPT ![d] = FALSE] /\ Forget(d)
      BY <1>9 DEF Unlinked, Forget
    <2>2. live'[d] = FALSE /\ unread'[d] = <<>>
      BY <1>0, <2>1 DEF Forget, ChannelTypes, Channels
    <2>3. \A x \in Desks : record'[x] = FALSE => record[x] = FALSE \/ x = d
      BY <1>0, <2>1
    <2> QED
      BY <1>0, <2>1, <2>2, <2>3 DEF Rest, ChannelTypes
  <1>10. CASE UnlinkFails(d)
    BY <1>0, <1>10, FaultsGrow, RestStays DEF UnlinkFails
  <1>11. CASE Restarts(d)
    BY <1>0, <1>11, FaultsGrow, RestStays DEF Restarts, LinkRestarts
  <1> QED
    BY <1>1, <1>2, <1>3, <1>4, <1>5, <1>6, <1>7, <1>8, <1>9, <1>10, <1>11

(* The parts of the invariant, together.                                   *)
LEMMA LinksInvFrom ==
  ASSUME LinksInv, Kept, Rest
  PROVE  LinksInv'
  <1>1. ChannelTypes'
    BY DEF Kept, Rest, ChannelTypes
  <1>2. ChannelsFit'
    <2>1. \A d \in Desks : /\ ~live'[d] => wire'[d] = <<>>
                           /\ ~record'[d] => ~live'[d] /\ unread'[d] = <<>>
      <3>1. \A d \in Desks : record'[d] \in BOOLEAN /\ live'[d] \in BOOLEAN
        BY DEF Kept, Rest, Channels
      <3> QED
        BY <3>1 DEF Kept, Rest
    <2> QED
      BY <2>1 DEF Kept, ChannelsFit
  <1> QED
    BY <1>1, <1>2 DEF Kept, LinksInv

(* Every step of the two desks keeps the invariant,                        *)
LEMMA LinksInvStep ==
  ASSUME LinksInv, DesksNext
  PROVE  LinksInv'
  <1>1. CASE ChannelStep /\ UNCHANGED requestVars
    <2>1. Kept
      BY <1>1, ChannelKept
    <2>2. Rest
      BY <1>1, TheDesks, LinksRest DEF ChannelStep
    <2> QED
      BY <2>1, <2>2, LinksInvFrom
  <1>2. ASSUME NEW r \in Requests,
               \/ Sends(r) \/ AskerStep(r) \/ AskerStops(r)
               \/ AnswererStep(r) \/ LeavesNote(r)
               \/ PersonStops(r) \/ ExchangeStops(r)
        PROVE  LinksInv'
    <2>1. Rest
      BY <1>2, RequestsRest
    <2>2. Kept
      BY <1>2, AskerKept, AnswererKept
    <2> QED
      BY <2>1, <2>2, LinksInvFrom
  <1>3. ASSUME NEW d \in Desks,
               \/ Sweeps(d) \/ Unlinked(d) \/ UnlinkFails(d) \/ Restarts(d)
               \/ Unlink(d) /\ Fault /\ UNCHANGED requestVars
        PROVE  LinksInv'
    <2>1. Rest
      BY <1>3, LinksRest
    <2>2. Kept
      BY <1>3, SweepsKept, UnlinkedKept, UnlinksKept, RestartsKept
    <2> QED
      BY <2>1, <2>2, LinksInvFrom
  <1> QED
    BY <1>1, <1>2, <1>3 DEF DesksNext

(* as does none,                                                           *)
LEMMA LinksInvStutters ==
  ASSUME LinksInv, UNCHANGED deskVars
  PROVE  LinksInv'
  BY DEF LinksInv, deskVars, linkVars, requestVars, ChannelTypes, ChannelsFit,
     RequestTypes, WorkOk, CallsOk, FramesOk, AnswersOk, AsksOk, EndsOk,
     Gone, Excused

(* and two desks newly linked have it.                                     *)
LEMMA LinksInvInit ==
  ASSUME DesksInit
  PROVE  LinksInv
  <1>0. Asker \in Desks /\ Answerer \in Desks
    BY TheDesks
  <1>1. /\ record = [d \in Desks |-> TRUE] /\ dials \in Desks
        /\ ending = [d \in Desks |-> "no"] /\ live = [d \in Desks |-> FALSE]
        /\ wire = [d \in Desks |-> <<>>] /\ unread = [d \in Desks |-> <<>>]
        /\ call = [d \in Desks |-> Nothing] /\ shown = [d \in Desks |-> FALSE]
        /\ links = 1 /\ faults = 0
    BY DEF DesksInit, LinkInit
  <1>2. /\ asked = [r \in Requests |-> Unsent] /\ work = [r \in Requests |-> Absent]
        /\ note = [r \in Requests |-> "none"]
        /\ begins = [r \in Requests |-> 0] /\ keeps = [r \in Requests |-> 0]
    BY DEF DesksInit
  <1>3. ChannelTypes
    <2>1. <<>> \in Seq(FrameSet)
      OBVIOUS
    <2>2. Channels(live, wire, unread, call)
      BY <1>1, <2>1 DEF Channels
    <2> QED
      BY <1>1, <2>2 DEF ChannelTypes
  <1>4. \A i \in Nat, d \in Desks, kinds \in {Commands, Answers} :
          ~Awaits(wire[d], i, kinds) /\ ~Awaits(unread[d], i, kinds)
    BY <1>1 DEF Awaits
  <1>5. ChannelsFit
    <2>1. FitsAll(live, wire, unread, call)
      BY <1>1, <1>4, TheDesks DEF FitsAll, Fits
    <2> QED
      BY <1>1, <2>1 DEF ChannelsFit
  <1>6. Unsent \in AskedSet /\ Absent \in WorkSet
    BY DEF Unsent, Absent, AskedSet, WorkSet
  <1>7. RequestTypes
    BY <1>2, <1>6 DEF RequestTypes
  <1>8. WorkOk
    BY <1>1, <1>2 DEF WorkOk, WorkFits, Absent
  <1>9. CallsOk
    BY <1>0, <1>1 DEF CallsOk
  <1>10. FramesOk
    BY <1>0, <1>1 DEF FramesOk, On
  <1>11. AnswersOk
    BY <1>0, <1>1 DEF AnswersOk, Says
  <1>12. AsksOk
    BY <1>0, <1>1 DEF AsksOk, Asks
  <1>13. EndsOk
    BY <1>2 DEF EndsOk, ToldOf, Unsent, Absent
  <1> QED
    BY <1>3, <1>5, <1>7, <1>8, <1>9, <1>10, <1>11, <1>12, <1>13 DEF LinksInv

(* So it holds in every behaviour, for any requests and any number of      *)
(* faults.                                                                 *)
LEMMA LinksInvAlways == DesksSpec => []LinksInv
  BY LinksInvInit, LinksInvStep, LinksInvStutters, PTL DEF DesksSpec

(* No more faults come than are counted.                                   *)
FaultsBound == faults <= MaxFaults

(* The faults counted are bounded.                                         *)
LEMMA FaultsBounded == DesksSpec => []FaultsBound
  <1>1. DesksInit => FaultsBound
    BY LinkAssumption DEF DesksInit, LinkInit, FaultsBound
  <1>2. FaultsBound /\ [DesksNext]_deskVars => FaultsBound'
    BY DEF FaultsBound, DesksNext, deskVars
  <1> QED
    BY <1>1, <1>2, PTL DEF DesksSpec

(* Whatever a request's frames meet on the way (lost answers, timeouts,    *)
(* calls made again, new channels, restarts, unlinking),                   *)
(* accept_linked_request has its work begun once, and accept_linked_note   *)
(* keeps its note once.                                                    *)
THEOREM OnceOverTheLinkHolds == DesksSpec => []OnceOverTheLink
  <1>1. LinksInv => OnceOverTheLink
    <2> SUFFICES ASSUME LinksInv, NEW r \in Requests
                 PROVE  begins[r] <= 1 /\ keeps[r] <= 1
      BY DEF OnceOverTheLink, WorkedOnce, NoteKeptOnce
    <2>1. begins[r] = 0 \/ begins[r] = 1
      BY WorkTyped DEF WorkFits
    <2>2. keeps[r] = 0 \/ keeps[r] = 1
      BY WorkTyped DEF WorkFits
    <2> QED
      BY <2>1, <2>2
  <1> QED
    BY <1>1, LinksInvAlways, PTL

(* What is in two sequences joined is of what they are made of.            *)
LEMMA JoinedRange ==
  ASSUME NEW S, NEW s \in Seq(S), NEW t \in Seq(S), NEW f \in Range(s \o t)
  PROVE  f \in S
  <1>1. s \o t \in Seq(S)
    OBVIOUS
  <1>2. PICK u : u = s \o t
    OBVIOUS
  <1>3. PICK i \in DOMAIN u : f = u[i]
    BY <1>2 DEF Range
  <1>4. i \in 1 .. Len(u)
    BY <1>1, <1>2, <1>3
  <1> QED
    BY <1>1, <1>2, <1>3, <1>4

(* The invariant, with the faults bounded, gives the types the run checks. *)
LEMMA LinkTyped ==
  ASSUME LinksInv, FaultsBound
  PROVE  DesksTypeOK
  <1>0. faults \in Nat /\ links \in Nat /\ MaxFaults \in Nat
    BY LinkAssumption DEF LinksInv, ChannelTypes
  <1>1. LinkTypeOK
    <2>1. ASSUME NEW d \in Desks, NEW f \in Range(wire[d] \o unread[d])
          PROVE  [is |-> f.is] \in Frames
      <3>0. wire[d] \in Seq(FrameSet) /\ unread[d] \in Seq(FrameSet)
        BY DEF LinksInv, ChannelTypes, Channels
      <3>3. f \in FrameSet
        BY <2>1, <3>0, JoinedRange
      <3> QED
        BY <3>3 DEF FrameSet, Frames, Commands
    <2>2. ASSUME NEW d \in Desks, call[d] # Nothing
          PROVE  /\ call[d].answer \in {"none", "offline"} \cup Answers
                 /\ call[d].f.is \in {"request", "note", "result", "stop"}
      BY <2>2, CallIs DEF LinksInv, Commands
    <2>3. links \in 1 .. MaxFaults + 1 /\ faults \in 0 .. MaxFaults
      BY <1>0 DEF LinksInv, ChannelTypes, FaultsBound
    <2> QED
      BY <2>1, <2>2, <2>3 DEF LinkTypeOK, LinksInv, ChannelTypes, ChannelsFit, Channels
  <1>2. ASSUME NEW r \in Requests
        PROVE  work[r].link \in 0 .. MaxFaults + 1
    <2>1. work[r].link \in Nat /\ work[r].link <= links /\ links <= faults + 1
      BY WorkTyped DEF WorkSet, WorkFits, LinksInv, ChannelTypes
    <2> QED
      BY <1>0, <2>1 DEF FaultsBound
  <1>3. ASSUME NEW x \in WorkSet, x.link \in 0 .. MaxFaults + 1
        PROVE  x \in [phase : {"absent", "queued", "running", "reply",
                               "sending", "done", "stopped"},
                      handoff : BOOLEAN, begun : BOOLEAN,
                      failed : BOOLEAN,
                      byPerson : BOOLEAN, owed : {"no", "yes", "told"},
                      lease : BOOLEAN,
                      link : 0..MaxFaults + 1]
    BY <1>3 DEF WorkSet
  <1> QED
    BY <1>1, <1>2, <1>3 DEF DesksTypeOK, LinksInv, RequestTypes, AskedSet

(* What the two desks' stores say of a request that ended agrees: who was  *)
(* told of an end has it (ReturnsStop and ResultSent go on only on an      *)
(* answer), a person's stop is not heard as a failure, and an answer stays *)
(* an answer.                                                              *)
THEOREM EndsAgreeHolds == DesksSpec => []EndsAgree
  <1>1. LinksInv /\ FaultsBound => EndsAgree
    <2> SUFFICES ASSUME LinksInv, FaultsBound
                 PROVE  EndsAgree
      OBVIOUS
    <2>1. NothingIsDropped
      BY DEF NothingIsDropped, LinksInv, EndsOk, ToldOf, Gone, OverAtAsker
    <2>2. StopIsHeardAsStop
      <3> SUFFICES ASSUME NEW r \in Requests \ (turned \cup unkept),
                          work[r].phase = "stopped", work[r].byPerson,
                          work[r].owed # "no", asked[r].by = "failure"
                   PROVE  FALSE
        BY DEF StopIsHeardAsStop
      <3>1. work[r].byPerson = TRUE
        BY WorkTyped DEF WorkSet
      <3>2. work[r].failed = FALSE
        BY <3>1, WorkTyped DEF WorkFits
      <3> QED
        BY <3>1, <3>2 DEF LinksInv, EndsOk, Excused, Ignored
    <2>3. AnswerStaysAnswer
      BY DEF AnswerStaysAnswer, LinksInv, EndsOk, Excused, Ignored
    <2> QED
      BY <2>1, <2>2, <2>3, LinkTyped DEF EndsAgree
  <1> QED
    BY <1>1, LinksInvAlways, FaultsBounded, PTL

(* A link made anew starts no work of the one before: the lease a turn     *)
(* begins under is of the link as it is, or of a restart (linked.rs:       *)
(* LinkStore remove, and grants_for_link).                                 *)
THEOREM LinkStartsFromNothingHolds == DesksSpec => LinkStartsFromNothing
  <1>1. LinksInv /\ [DesksNext]_deskVars =>
          [\A r \in Requests :
             begins'[r] > begins[r] => work[r].link \in {0, links}]_deskVars
    <2> SUFFICES ASSUME LinksInv, [DesksNext]_deskVars, NEW r \in Requests,
                        begins'[r] > begins[r]
                 PROVE  work[r].link \in {0, links}
      OBVIOUS
    <2>0. begins \in [Requests -> Nat]
      BY DEF LinksInv, RequestTypes
    <2>1. begins' # begins
      BY <2>0
    <2>2. PICK q \in Requests : Begins(q)
      <3>1. UNCHANGED deskVars => begins' = begins
        BY DEF deskVars, requestVars
      <3>2. UNCHANGED requestVars => begins' = begins
        BY DEF requestVars
      <3>3. \A q \in Requests :
              AskerStep(q) \/ Sends(q) \/ AskerStops(q) => begins' = begins
        <4> SUFFICES ASSUME NEW q \in Requests
                     PROVE  AskerStep(q) \/ Sends(q) \/ AskerStops(q)
                              => begins' = begins
          OBVIOUS
        <4>1. Sends(q) \/ AskerStops(q) \/ AskerSweeps(q) => begins' = begins
          BY DEF Sends, AskerStops, AskerSweeps
        <4>2. Forwards(q) => begins' = begins
          BY <3>2 DEF Forwards
        <4>3. Forwarded(q) \/ Delivers(q) => begins' = begins
          BY DEF Forwarded, Delivers
        <4>4. TakesResult(q) => begins' = begins
          BY DEF TakesResult
        <4>5. TakesNote(q) => begins' = begins
          BY DEF TakesNote
        <4> QED
          BY <4>1, <4>2, <4>3, <4>4, <4>5 DEF AskerStep
      <3>4. \A q \in Requests :
              LeavesNote(q) \/ PersonStops(q) \/ ExchangeStops(q) => begins' = begins
        BY DEF LeavesNote, PersonStops, ExchangeStops
      <3>5. \A q \in Requests : AnswererStep(q) => begins' = begins \/ Begins(q)
        <4> SUFFICES ASSUME NEW q \in Requests
                     PROVE  AnswererStep(q) => begins' = begins \/ Begins(q)
          OBVIOUS
        <4>1. TakesRequest(q) => begins' = begins
          BY DEF TakesRequest
        <4>2. Admits(q) \/ Finishes(q) \/ AnswererSweeps(q) => begins' = begins
          BY DEF Admits, Finishes, AnswererSweeps
        <4>3. SendsNote(q) => begins' = begins
          BY <3>2 DEF SendsNote
        <4>4. NoteSent(q) \/ ReturnsStop(q) \/ Claims(q) => begins' = begins
          BY DEF NoteSent, ReturnsStop, Claims
        <4>5. ResultSent(q) => begins' = begins
          BY DEF ResultSent
        <4> QED
          BY <4>1, <4>2, <4>3, <4>4, <4>5 DEF AnswererStep
      <3>6. \A d \in Desks : Sweeps(d) \/ Unlinked(d) \/ UnlinkFails(d) \/ Restarts(d)
                               => begins' = begins
        BY <3>2 DEF Sweeps, Unlinked, UnlinkFails, Restarts
      <3> QED
        BY <2>1, <3>1, <3>2, <3>3, <3>4, <3>5, <3>6 DEF DesksNext
    <2>3. q = r
      BY <2>0, <2>2 DEF Begins
    <2>4. work[r].phase = "running" /\ work[r].lease = TRUE
      BY <2>2, <2>3, WorkTyped DEF Begins, WorkSet
    <2> QED
      BY <2>4, WorkTyped DEF WorkFits
  <1> QED
    BY <1>1, LinksInvAlways, PTL DEF DesksSpec, LinkStartsFromNothing

-----------------------------------------------------------------------------
PoolInv == /\ seat \in [Conns -> Devices \cup {Nobody}]
           /\ EvictedIsNotSeated

HubTypes == /\ at \in [Conns -> Places]
            /\ host \in Hosts \cup {None}
            /\ ticket \in [Visitors -> Hosts \cup {None}]
            /\ joins \in [Callbacks -> Visitors \cup {None}]
            /\ waiting \subseteq Visitors
            /\ told \subseteq waiting

(* A visitor in the hub has no task that would still do something with it, *)
(* but for the notice to its desk, and none once the desk was told. Until  *)
(* then a visitor holds the ticket it was given at the door.               *)
HandedOver == /\ \A v \in waiting : at[v] \in {"notifying", "gone"}
              /\ \A v \in told : at[v] = "gone"
              /\ \A v \in Visitors : at[v] \in {"upgrading", "arriving"}
                                         => ticket[v] \in Hosts

(* The socket the listener holds has no task of its own yet.               *)
Holding == held # Nobody => held \in Conns /\ at[held] = "held"

(* A callback has a visitor as long as it has claimed one, with its ticket.*)
Taken == \A c \in Callbacks :
           IF at[c] \in {"claimed", "joined"}
           THEN /\ joins[c] \in Visitors /\ at[joins[c]] = "gone"
                /\ ticket[joins[c]] \in Hosts
           ELSE joins[c] = None

HubInv == /\ HubTypes
          /\ HandedOver
          /\ Taken
          /\ WaitingIsCurrent
          /\ ServingIsRegistered
          /\ JoinedByItsDesk

USE KindsAssumption, HubAssumption, PoolAssumption
-----------------------------------------------------------------------------
LEMMA PoolInit == Init => PoolInv
  BY DEF Init, AdmissionInit, PoolInv, EvictedIsNotSeated

(* What puts one out looks at pending ones only.                           *)
LEMMA VictimIsPending ==
  ASSUME NEW ip, NEW i \in Victims(ip)
  PROVE  seat[pool[i]] = Nobody
  BY DEF Victims, PendingsFrom, Pendings

(* An eviction is of a pending one, a promotion of one that stands.        *)
LEMMA PoolMoves ==
  ASSUME PoolInv,
         NEW c \in Conns,
         \/ Admit \/ Evict \/ Hears(c) \/ Grows(c) \/ Deadline(c)
         \/ \E d \in Devices : Authenticate(c, d) \/ SeatRelayed(c, d)
         \/ Shares(c)
         \/ \E who \in {"http", "task"} : LetsGo(c, who)
         \/ UNCHANGED poolVars
  PROVE  PoolInv'
  <1>1. CASE Evict
    BY <1>1, VictimIsPending DEF Evict, PoolInv, EvictedIsNotSeated
  <1>2. CASE \E d \in Devices : Authenticate(c, d)
    BY <1>2 DEF Authenticate, Stands, PoolInv, EvictedIsNotSeated
  <1>3. CASE \E who \in {"http", "task"} : LetsGo(c, who)
    BY <1>3 DEF LetsGo, PoolInv, EvictedIsNotSeated
  <1>4. CASE UNCHANGED <<seat, evicted>>
    BY <1>4 DEF PoolInv, EvictedIsNotSeated
  <1>5. CASE \E d \in Devices : SeatRelayed(c, d)
    BY <1>5 DEF SeatRelayed, PoolInv, EvictedIsNotSeated
  <1> QED
    BY <1>1, <1>2, <1>3, <1>4, <1>5
    DEF Admit, Hears, Grows, Deadline, Shares, poolVars

(* Every step keeps the pool's invariant.                                  *)
LEMMA PoolHolds == PoolInv /\ [Next]_vars => PoolInv'
  <1> SUFFICES ASSUME PoolInv, [Next]_vars PROVE PoolInv'
    OBVIOUS
  <1>1. CASE UNCHANGED vars
    BY <1>1 DEF vars, poolVars, PoolInv, EvictedIsNotSeated
  <1>2. CASE TakesIn \/ PutsOut \/ Elsewhere
    BY <1>2, VictimIsPending
    DEF TakesIn, PutsOut, Elsewhere, Admit, Evict, poolVars, PoolInv,
        EvictedIsNotSeated
  <1>3. ASSUME NEW c \in Conns, SocketNext(c) PROVE PoolInv'
    <2>1. Device[c] \in Devices \/ c \in Visitors
      OBVIOUS
    <2> QED
      BY <1>3, <2>1, PoolMoves
      DEF SocketNext, Arrives, Ages, HttpEnds, SealedDoor, Dials, Fails, Proves,
          TakesSeat, SessionEnds
  <1>4. ASSUME NEW c \in Hosts, HostNext(c) PROVE PoolInv'
    BY <1>4, PoolMoves
    DEF HostNext, StandsIn, GetsSlot, StopsReplacing, Registers,
        RegistersNot, RefusesDesk, Serves, HostEnds, Leaves
  <1>5. ASSUME NEW v \in Visitors, VisitorNext(v) PROVE PoolInv'
    BY <1>5, PoolMoves
    DEF VisitorNext, RelayDoor, Upgraded, NotUpgraded, Arrive, Notify,
        WaitExpires
  <1>6. ASSUME NEW c \in Callbacks, CallbackNext(c) PROVE PoolInv'
    BY <1>6, PoolMoves
    DEF CallbackNext, Accept, Joins, NotJoined, JoinEnds
  <1>7. ASSUME NEW d \in Devices, Revokes(d) PROVE PoolInv'
    BY <1>7 DEF Revokes, poolVars, PoolInv, EvictedIsNotSeated
  <1> QED
    BY <1>1, <1>2, <1>3, <1>4, <1>5, <1>6, <1>7 DEF Next
-----------------------------------------------------------------------------
LEMMA HubStart == Init => HubInv
  BY DEF Init, HubInit, HubInv, HubTypes, HandedOver, Taken, Places,
         WaitingIsCurrent, ServingIsRegistered, JoinedByItsDesk

LEMMA HoldingHolds == HubTypes /\ Holding /\ [Next]_vars => Holding'
  <1> SUFFICES ASSUME HubTypes, Holding, [Next]_vars PROVE Holding'
    OBVIOUS
  <1> USE DEF Holding, HubTypes, Moves, Goes
  <1>1. CASE UNCHANGED vars
    BY <1>1 DEF vars, poolVars
  <1>2. CASE TakesIn \/ PutsOut \/ Elsewhere
    BY <1>2 DEF TakesIn, PutsOut, Elsewhere, Admit, Evict, poolVars
  <1>3. ASSUME NEW c \in Conns, SocketNext(c) PROVE Holding'
    BY <1>3, NobodyAssumption
    DEF SocketNext, Arrives, Ages, HttpEnds, SealedDoor, Dials, Fails, Proves,
        TakesSeat, SessionEnds, Hears, Grows, Deadline, LetsGo, Shares,
        Authenticate, SeatRelayed, poolVars
  <1>4. ASSUME NEW c \in Hosts, HostNext(c) PROVE Holding'
    BY <1>4
    DEF HostNext, StandsIn, GetsSlot, StopsReplacing, Registers,
        RegistersNot, RefusesDesk, Serves, HostEnds, Leaves, LetsGo,
        poolVars
  <1>5. ASSUME NEW v \in Visitors, VisitorNext(v) PROVE Holding'
    BY <1>5
    DEF VisitorNext, RelayDoor, Upgraded, NotUpgraded, Arrive, Notify,
        WaitExpires, LetsGo, Shares, poolVars
  <1>6. ASSUME NEW c \in Callbacks, CallbackNext(c) PROVE Holding'
    BY <1>6
    DEF CallbackNext, Accept, Joins, NotJoined, JoinEnds, LetsGo, poolVars
  <1>7. ASSUME NEW d \in Devices, Revokes(d) PROVE Holding'
    BY <1>7 DEF Revokes, poolVars
  <1> QED
    BY <1>1, <1>2, <1>3, <1>4, <1>5, <1>6, <1>7 DEF Next

(* A visitor is past the relay's door only as one that was given a ticket. *)
Door(c, to) == c \in Visitors => /\ to # "upgrading"
                                 /\ to = "arriving" => at[c] = "upgrading"

(* A socket's task moves on outside the hub, or the hub's slots do.        *)
LEMMA Apart ==
  ASSUME HubInv,
         UNCHANGED <<host, ticket, waiting, told, joins>>,
         cancelled \subseteq cancelled',
         \/ UNCHANGED at
         \/ \E c \in Conns, to \in Places :
              /\ at' = [at EXCEPT ![c] = to]
              /\ at[c] \notin {"claimed", "joined", "notifying", "gone"}
              /\ \/ to \notin {"claimed", "joined", "registered", "hosting"}
                 \/ at[c] = "registered" /\ to = "hosting"
              /\ Door(c, to)
  PROVE  HubInv'
  <1>1. HubTypes' /\ HandedOver' /\ WaitingIsCurrent'
    BY DEF HubInv, HubTypes, HandedOver, WaitingIsCurrent, Door
  <1>2. Taken'
    BY DEF HubInv, HubTypes, Taken
  <1>3. ServingIsRegistered'
    BY DEF HubInv, HubTypes, ServingIsRegistered
  <1>4. JoinedByItsDesk'
    BY DEF HubInv, HubTypes, Taken, JoinedByItsDesk, Generation
  <1> QED
    BY <1>1, <1>2, <1>3, <1>4 DEF HubInv

(* What waits is dropped with its tickets, and a task of the hub's own     *)
(* moves on.                                                               *)
LEMMA Dropping ==
  ASSUME HubInv,
         NEW gone \in SUBSET waiting, DropsWaiters(gone),
         UNCHANGED <<host, joins>>,
         cancelled \subseteq cancelled',
         \/ UNCHANGED at
         \/ \E c \in Conns, to \in Places :
              /\ at' = [at EXCEPT ![c] = to]
              /\ \/ at[c] \notin {"claimed", "joined", "notifying", "gone"}
                 \/ at[c] = "notifying" /\ to = "gone"
              /\ to \notin {"claimed", "joined", "registered", "hosting"}
              /\ Door(c, to)
  PROVE  HubInv'
  <1>1. HubTypes' /\ HandedOver' /\ WaitingIsCurrent'
    BY DEF HubInv, HubTypes, HandedOver, WaitingIsCurrent, DropsWaiters,
           Door
  <1>2. Taken'
    BY DEF HubInv, HubTypes, Taken, JoinedByItsDesk, DropsWaiters
  <1>3. ServingIsRegistered'
    BY DEF HubInv, HubTypes, ServingIsRegistered
  <1>4. JoinedByItsDesk'
    BY DEF HubInv, HubTypes, Taken, JoinedByItsDesk, Generation,
           DropsWaiters
  <1> QED
    BY <1>1, <1>2, <1>3, <1>4 DEF HubInv

LEMMA SocketKeepsHub ==
  ASSUME HubInv, NEW c \in Conns, SocketNext(c)
  PROVE  HubInv'
  <1> USE DEF hubVars, Moves, Goes, Places, Door
  <1>1. CASE Ages(c)
    BY <1>1, Apart DEF Ages
  <1>2. CASE HttpEnds(c)
    <2>1. CASE at[c] = "http"
      BY <1>2, <2>1, Apart DEF HttpEnds
    <2>2. CASE at[c] # "http"
      BY <1>2, <2>2, Apart DEF HttpEnds, HubInv, HubTypes
    <2> QED
      BY <2>1, <2>2
  <1>3. CASE Arrives(c) \/ SealedDoor(c) \/ Dials(c) \/ Fails(c) \/ Proves(c)
    BY <1>3, Apart DEF Arrives, SealedDoor, Dials, Fails, Proves
  <1>4. CASE TakesSeat(c) \/ SessionEnds(c)
    BY <1>4, Apart DEF TakesSeat, SessionEnds
  <1> QED
    BY <1>1, <1>2, <1>3, <1>4 DEF SocketNext

LEMMA HostKeepsHub ==
  ASSUME HubInv, NEW c \in Hosts, HostNext(c)
  PROVE  HubInv'
  <1> USE DEF hubVars, Moves, Goes, Places, Door
  <1>1. CASE StandsIn(c)
    <2>1. CASE Slot(c) /\ Goes(c, "slotted")
      BY <1>1, <2>1, Apart DEF StandsIn, Slot
    <2>2. CASE Retire(c) /\ Goes(c, "replacing")
      BY <1>1, <2>2, Dropping DEF StandsIn, Retire, WaitersOf
    <2> QED
      BY <1>1, <2>1, <2>2 DEF StandsIn
  <1>2. CASE GetsSlot(c) \/ StopsReplacing(c)
    BY <1>2, Apart DEF GetsSlot, Acquire, StopsReplacing, Dequeue
  <1>3. CASE Registers(c)
    <2> USE <1>3 DEF Registers, Register, DropsWaiters, WaitersOf, HubInv
    <2>1. HubTypes' /\ HandedOver' /\ WaitingIsCurrent'
      BY DEF HubTypes, HandedOver, WaitingIsCurrent
    <2>2. Taken'
      BY DEF HubTypes, Taken, JoinedByItsDesk
    <2>3. ServingIsRegistered'
      BY DEF HubTypes, ServingIsRegistered
    <2>4. JoinedByItsDesk'
      BY DEF HubTypes, Taken, JoinedByItsDesk, Generation
    <2> QED
      BY <2>1, <2>2, <2>3, <2>4
  <1>4. CASE RegistersNot(c) \/ RefusesDesk(c) \/ Serves(c) \/ Leaves(c)
    BY <1>4, Apart DEF RegistersNot, RefusesDesk, Serves, Leaves, ReturnSlot
  <1>5. CASE HostEnds(c)
    <2>1. CASE host = c
      <3> USE <1>5, <2>1 DEF HostEnds, Unregister, DropsWaiters, WaitersOf,
                             HubInv
      <3>1. HubTypes' /\ HandedOver' /\ WaitingIsCurrent'
        BY DEF HubTypes, HandedOver, WaitingIsCurrent
      <3>2. Taken'
        BY DEF HubTypes, Taken, JoinedByItsDesk
      <3>3. ServingIsRegistered'
        BY DEF HubTypes, ServingIsRegistered
      <3>4. JoinedByItsDesk'
        BY DEF HubTypes, Taken, JoinedByItsDesk, Generation
      <3> QED
        BY <3>1, <3>2, <3>3, <3>4
    <2>2. CASE host # c
      BY <1>5, <2>2, Apart DEF HostEnds, Unregister
    <2> QED
      BY <2>1, <2>2
  <1> QED
    BY <1>1, <1>2, <1>3, <1>4, <1>5 DEF HostNext

LEMMA VisitorKeepsHub ==
  ASSUME HubInv, NEW v \in Visitors, VisitorNext(v)
  PROVE  HubInv'
  <1> USE DEF hubVars, Moves, Goes, Places, Door
  <1>1. CASE RelayDoor(v)
    <2> USE <1>1 DEF RelayDoor, Visit, HubInv
    <2>1. HubTypes' /\ HandedOver' /\ WaitingIsCurrent'
      BY DEF HubTypes, HandedOver, WaitingIsCurrent
    <2>2. Taken' /\ ServingIsRegistered'
      BY DEF HubTypes, Taken, ServingIsRegistered
    <2>3. JoinedByItsDesk'
      BY DEF HubTypes, Taken, JoinedByItsDesk, Generation
    <2> QED
      BY <2>1, <2>2, <2>3
  <1>2. CASE Upgraded(v)
    BY <1>2, Apart DEF Upgraded
  <1>3. CASE NotUpgraded(v)
    <2> USE <1>3 DEF NotUpgraded, Drops, DropsWaiters, HubInv
    <2>1. HubTypes' /\ HandedOver'
      BY DEF HubTypes, HandedOver
    <2>2. WaitingIsCurrent' /\ ServingIsRegistered'
      BY DEF HubTypes, HandedOver, WaitingIsCurrent, ServingIsRegistered
    <2>3. Taken'
      BY DEF HubTypes, Taken
    <2>4. JoinedByItsDesk'
      BY DEF HubTypes, Taken, JoinedByItsDesk, Generation
    <2> QED
      BY <2>1, <2>2, <2>3, <2>4
  <1>6. CASE Arrive(v)
    <2>1. CASE Moves(v, "arriving", "notifying") /\ Waits(v)
      <3> USE <1>6, <2>1 DEF Arrive, Waits, Current, HubInv
      <3>1. HubTypes'
        BY DEF HubTypes
      <3>2. HandedOver'
        BY DEF HubTypes, HandedOver
      <3>3. WaitingIsCurrent' /\ ServingIsRegistered'
        BY DEF HubTypes, HandedOver, WaitingIsCurrent, ServingIsRegistered
      <3>4. Taken'
        BY DEF HubTypes, Taken
      <3>5. JoinedByItsDesk'
        BY DEF HubTypes, Taken, JoinedByItsDesk, Generation
      <3> QED
        BY <3>1, <3>2, <3>3, <3>4, <3>5
    <2>2. CASE Moves(v, "arriving", "gone") /\ Drops(v)
      <3> USE <1>6, <2>2 DEF Arrive, Drops, DropsWaiters, HubInv
      <3>1. HubTypes'
        BY DEF HubTypes
      <3>2. HandedOver'
        BY DEF HubTypes, HandedOver
      <3>3. WaitingIsCurrent' /\ ServingIsRegistered'
        BY DEF HubTypes, HandedOver, WaitingIsCurrent, ServingIsRegistered
      <3>4. Taken'
        BY DEF HubTypes, Taken
      <3>5. JoinedByItsDesk'
        BY DEF HubTypes, Taken, JoinedByItsDesk, Generation
      <3> QED
        BY <3>1, <3>2, <3>3, <3>4, <3>5
    <2> QED
      BY <1>6, <2>1, <2>2 DEF Arrive
  <1>4. CASE Notify(v)
    <2>1. CASE v \in waiting /\ Notifies(v)
      <3> USE <1>4, <2>1 DEF Notify, Notifies, HubInv
      <3>1. HubTypes' /\ HandedOver' /\ WaitingIsCurrent'
        BY DEF HubTypes, HandedOver, WaitingIsCurrent
      <3>2. Taken' /\ ServingIsRegistered'
        BY DEF HubTypes, Taken, ServingIsRegistered
      <3>3. JoinedByItsDesk'
        BY DEF HubTypes, Taken, JoinedByItsDesk, Generation
      <3> QED
        BY <3>1, <3>2, <3>3
    <2>2. CASE v \in waiting /\ Drops(v)
      <3>1. {v} \in SUBSET waiting /\ DropsWaiters({v})
        BY <2>2 DEF Drops
      <3> QED
        BY <1>4, <2>2, <3>1, Dropping DEF Notify, Drops
    <2>3. CASE v \notin waiting /\ UNCHANGED hubVars
      <3>1. DropsWaiters({})
        BY <2>3 DEF DropsWaiters, HubInv, HubTypes
      <3> QED
        BY <1>4, <2>3, <3>1, Dropping DEF Notify
    <2> QED
      BY <1>4, <2>1, <2>2, <2>3 DEF Notify
  <1>5. CASE WaitExpires(v)
    BY <1>5, Dropping DEF WaitExpires, Drops
  <1> QED
    BY <1>1, <1>2, <1>3, <1>4, <1>5, <1>6 DEF VisitorNext

LEMMA CallbackKeepsHub ==
  ASSUME HubInv, NEW c \in Callbacks, CallbackNext(c)
  PROVE  HubInv'
  <1> USE DEF hubVars, Moves, Goes, Places, Door
  <1>1. ASSUME NEW v \in Visitors, Accept(c, v) PROVE HubInv'
    <2>1. CASE ClaimsStale(v)
      BY <1>1, <2>1, Dropping DEF Accept, ClaimsStale, Drops, Claim, Current
    <2>2. CASE Claim(v, Device[c])
      <3> USE <1>1, <2>2 DEF Accept, Claim, ClaimsStale, Takes, Current,
                             RightDevice, HubInv
      <3>1. HubTypes' /\ HandedOver' /\ WaitingIsCurrent'
        BY DEF HubTypes, HandedOver, WaitingIsCurrent
      <3>2. Taken'
        BY DEF HubTypes, Taken, HandedOver, WaitingIsCurrent
      <3>3. ServingIsRegistered'
        BY DEF HubTypes, ServingIsRegistered
      <3>4. JoinedByItsDesk'
        BY DEF HubTypes, Taken, JoinedByItsDesk, Generation
      <3> QED
        BY <3>1, <3>2, <3>3, <3>4
    <2> QED
      BY <1>1, <2>1, <2>2 DEF Accept
  <1>2. CASE Joins(c) \/ NotJoined(c) \/ JoinEnds(c)
    <2> USE <1>2 DEF Joins, NotJoined, JoinEnds, Drops, DropsWaiters, HubInv
    <2>1. HubTypes' /\ HandedOver' /\ WaitingIsCurrent'
      BY DEF HubTypes, HandedOver, WaitingIsCurrent, JoinedByItsDesk,
             Taken
    <2>2. Taken'
      BY DEF HubTypes, Taken, JoinedByItsDesk
    <2>3. ServingIsRegistered'
      BY DEF HubTypes, ServingIsRegistered
    <2>4. JoinedByItsDesk'
      BY DEF HubTypes, Taken, JoinedByItsDesk, Generation
    <2> QED
      BY <2>1, <2>2, <2>3, <2>4
  <1> QED
    BY <1>1, <1>2 DEF CallbackNext

(* Every step keeps the hub's invariant.                                   *)
LEMMA HubHolds == HubInv /\ Holding /\ [Next]_vars => HubInv'
  <1> SUFFICES ASSUME HubInv, Holding, [Next]_vars PROVE HubInv'
    OBVIOUS
  <1>1. CASE UNCHANGED vars
    BY <1>1, Apart DEF vars, hubVars
  <1>2. CASE PutsOut \/ Elsewhere
    BY <1>2, Apart DEF PutsOut, Elsewhere, OtherLeaves, hubVars
  <1>3. CASE TakesIn
    BY <1>3, Apart
    DEF TakesIn, Admit, Holding, Goes, hubVars, Places, Door
  <1>4. ASSUME NEW d \in Devices, Revokes(d) PROVE HubInv'
    BY <1>4, Apart DEF Revokes, Cancels
  <1> QED
    BY <1>1, <1>2, <1>3, <1>4, SocketKeepsHub, HostKeepsHub,
       VisitorKeepsHub, CallbackKeepsHub DEF Next
-----------------------------------------------------------------------------
(* "Promotion and eviction share a lock, so an evicted handshake cannot    *)
(* take a seat" (Permit::authenticate), whoever comes and when.            *)
THEOREM EvictedTakesNoSeat == Spec => []EvictedIsNotSeated
  <1>1. PoolInv => EvictedIsNotSeated
    BY DEF PoolInv
  <1> QED
    BY <1>1, PoolInit, PoolHolds, PTL DEF Spec

LEMMA Held == Init => Holding
  BY DEF Init, AdmissionInit, Holding

LEMMA HubAlways == Spec => []HubInv
  <1>1. HubInv => HubTypes
    BY DEF HubInv
  <1> QED
    BY <1>1, HubStart, Held, HubHolds, HoldingHolds, PTL DEF Spec

(* What waits in the hub waits for the generation that is registered.      *)
THEOREM WaitersAreCurrent == Spec => []WaitingIsCurrent
  <1>1. HubInv => WaitingIsCurrent
    BY DEF HubInv
  <1> QED
    BY <1>1, HubAlways, PTL

(* A live generation is the one registered: no two stand in at once.       *)
THEOREM OneStandsIn == Spec => []ServingIsRegistered
  <1>1. HubInv => ServingIsRegistered
    BY DEF HubInv
  <1> QED
    BY <1>1, HubAlways, PTL

(* A visitor is joined once, with a callback of the desk's own device.     *)
THEOREM JoinsAreTheDesks == Spec => []JoinedByItsDesk
  <1>1. HubInv => JoinedByItsDesk
    BY DEF HubInv
  <1> QED
    BY <1>1, HubAlways, PTL

(* Whoever has a seat, stands in, waits or is joined has it by right.      *)
THEOREM SeatsAlwaysTrue == Spec => []SeatsAreTrue
  <1>1. PoolInv /\ HubInv => SeatsAreTrue
    BY DEF PoolInv, HubInv, SeatsAreTrue
  <1> QED
    BY <1>1, PoolInit, PoolHolds, HubAlways, PTL DEF Spec
-----------------------------------------------------------------------------
(* The generation registered is of a control socket that still serves.     *)
HostServes == host # None => at[host] \in {"registered", "hosting"}

(* Moves that leave the registered generation and its task alone.          *)
LEMMA Unmoved ==
  ASSUME HubTypes, HostServes, host' = host,
         \/ UNCHANGED at
         \/ \E c \in Conns, to \in Places :
              /\ at' = [at EXCEPT ![c] = to]
              /\ \/ at[c] \notin {"registered", "hosting"}
                 \/ to = "hosting"
  PROVE  HostServes'
  BY DEF HubTypes, HostServes

LEMMA HostServesHolds ==
  ASSUME HubTypes, Holding, HostServes, [Next]_vars
  PROVE  HostServes'
  <1> USE DEF hubVars, Moves, Goes, Places
  <1>1. CASE UNCHANGED vars
    BY <1>1, Unmoved DEF vars
  <1>2. CASE TakesIn
    BY <1>2, Unmoved DEF TakesIn, Admit, Holding
  <1>3. CASE PutsOut \/ Elsewhere
    BY <1>3, Unmoved DEF PutsOut, Elsewhere, OtherLeaves
  <1>4. ASSUME NEW c \in Conns, SocketNext(c) PROVE HostServes'
    <2>1. CASE HttpEnds(c)
      <3>1. CASE at[c] = "http"
        BY <2>1, <3>1, Unmoved DEF HttpEnds
      <3>2. CASE at[c] # "http"
        BY <2>1, <3>2, Unmoved DEF HttpEnds, HubTypes
      <3> QED
        BY <3>1, <3>2
    <2>2. CASE Ages(c)
      BY <2>2, Unmoved DEF Ages
    <2> QED
      BY <1>4, <2>1, <2>2, Unmoved
      DEF SocketNext, Arrives, SealedDoor, Dials, Fails, Proves, TakesSeat,
          SessionEnds
  <1>5. ASSUME NEW c \in Hosts, HostNext(c) PROVE HostServes'
    <2>1. CASE StandsIn(c) \/ GetsSlot(c) \/ StopsReplacing(c)
      BY <2>1, Unmoved
      DEF StandsIn, Slot, Retire, GetsSlot, Acquire, StopsReplacing, Dequeue
    <2>2. CASE Registers(c)
      BY <2>2 DEF Registers, Register, HostServes, HubTypes
    <2>3. CASE HostEnds(c)
      <3>1. CASE host = c
        BY <2>3, <3>1 DEF HostEnds, Unregister, HostServes
      <3>2. CASE host # c
        BY <2>3, <3>2 DEF HostEnds, Unregister, HostServes, HubTypes
      <3> QED
        BY <3>1, <3>2
    <2>4. CASE RegistersNot(c) \/ RefusesDesk(c) \/ Serves(c) \/ Leaves(c)
      BY <2>4, Unmoved
      DEF RegistersNot, RefusesDesk, Serves, Leaves, ReturnSlot
    <2> QED
      BY <1>5, <2>1, <2>2, <2>3, <2>4 DEF HostNext
  <1>6. ASSUME NEW v \in Visitors, VisitorNext(v) PROVE HostServes'
    BY <1>6, Unmoved
    DEF VisitorNext, RelayDoor, Visit, Upgraded, NotUpgraded, Drops, Arrive,
        Waits, Notify, Notifies, WaitExpires
  <1>7. ASSUME NEW c \in Callbacks, CallbackNext(c) PROVE HostServes'
    BY <1>7, Unmoved
    DEF CallbackNext, Accept, Claim, Takes, ClaimsStale, Drops, Joins,
        NotJoined, JoinEnds
  <1>8. ASSUME NEW d \in Devices, Revokes(d) PROVE HostServes'
    BY <1>8, Unmoved DEF Revokes, Cancels
  <1> QED
    BY <1>1, <1>2, <1>3, <1>4, <1>5, <1>6, <1>7, <1>8 DEF Next

LEMMA CancelsRightly ==
  ASSUME HubTypes, HostServes, [Next]_vars
  PROVE  CancelledRightly
  <1> USE DEF CancelledRightly
  <1>1. CASE UNCHANGED cancelled
    BY <1>1
  <1>2. ASSUME NEW c \in Hosts, StandsIn(c), Retire(c) PROVE CancelledRightly
    <2>1. cancelled' \ cancelled \subseteq {host} /\ host # c
      BY <1>2 DEF StandsIn, Retire, HostServes
    <2>2. at'[c] # at[c] /\ Stands(c)
      BY <1>2 DEF StandsIn, Retire, Slot, Goes, HubTypes
    <2> QED
      BY <2>1, <2>2
  <1>3. ASSUME NEW c \in Hosts, Registers(c) PROVE CancelledRightly
    <2>1. \A g \in cancelled' \ cancelled :
            \/ g = host /\ host # c
            \/ Device[g] \in revoked'
      BY <1>3 DEF Registers, Register, Moves, HostServes
    <2>2. at'[c] # at[c] /\ Stands(c)
      BY <1>3 DEF Registers, Moves, Goes, HubTypes
    <2> QED
      BY <2>1, <2>2
  <1>4. ASSUME NEW c \in Hosts, HostEnds(c) PROVE CancelledRightly
    <2>1. cancelled' \ cancelled \subseteq {c}
      BY <1>4 DEF HostEnds, Unregister, hubVars
    <2>2. at[c] = "hosting" /\ at'[c] = "leaving"
      BY <1>4 DEF HostEnds, Moves, Goes, HubTypes
    <2> QED
      BY <2>1, <2>2
  <1>5. ASSUME NEW d \in Devices, Revokes(d) PROVE CancelledRightly
    BY <1>5 DEF Revokes, Cancels
  <1>6. ASSUME NEW c \in Hosts, HostNext(c) PROVE CancelledRightly
    <2>1. CASE StandsIn(c)
      BY <1>1, <1>2, <2>1 DEF StandsIn, Slot
    <2> QED
      BY <1>1, <1>3, <1>4, <1>6, <2>1
      DEF HostNext, GetsSlot, Acquire, StopsReplacing, Dequeue, RegistersNot,
          RefusesDesk, Serves, Leaves, ReturnSlot, hubVars
  <1>7. ASSUME NEW c \in Conns, SocketNext(c) PROVE UNCHANGED cancelled
    BY <1>7
    DEF SocketNext, Arrives, Ages, HttpEnds, SealedDoor, Dials, Fails, Proves,
        TakesSeat, SessionEnds, hubVars
  <1>8. ASSUME NEW v \in Visitors, VisitorNext(v) PROVE UNCHANGED cancelled
    BY <1>8
    DEF VisitorNext, RelayDoor, Visit, Upgraded, NotUpgraded, Drops, Arrive,
        Waits, Notify, Notifies, WaitExpires, hubVars
  <1>9. ASSUME NEW c \in Callbacks, CallbackNext(c) PROVE UNCHANGED cancelled
    BY <1>9
    DEF CallbackNext, Accept, Claim, Takes, ClaimsStale, Drops, Joins,
        NotJoined, JoinEnds, hubVars
  <1> QED
    BY <1>1, <1>5, <1>6, <1>7, <1>8, <1>9
    DEF Next, TakesIn, PutsOut, Elsewhere, OtherLeaves, vars, hubVars

(* "An expired replacement cannot cancel or replace the current            *)
(* generation" (host), whoever else stands in, ends or is revoked.         *)
THEOREM ReplacedByStanding == Spec => OnlyStandingReplaces
  <1>1. Init => HostServes
    BY DEF Init, HubInit, HostServes
  <1>2. HubInv => HubTypes
    BY DEF HubInv
  <1>3. HubInv /\ Holding /\ HostServes /\ [Next]_vars => HostServes'
    BY <1>2, HostServesHolds
  <1>4. HubInv /\ HostServes /\ [Next]_vars => CancelledRightly
    BY <1>2, CancelsRightly
  <1> QED
    BY <1>1, <1>2, <1>3, <1>4, HubStart, Held, HubHolds, HoldingHolds, PTL
    DEF Spec, OnlyStandingReplaces
-----------------------------------------------------------------------------
LEMMA VisitingIsFinite ==
  IsFiniteSet(Visiting) /\ Cardinality(Visiting) \in Nat
  <1>1. Visiting \subseteq Visitors
    BY DEF Visiting
  <1> QED
    BY <1>1, FS_Subset, FS_CardinalityType

(* Tickets are only dropped.                                               *)
LEMMA FewerVisit ==
  ASSUME VisitsBounded, Visiting' \subseteq Visiting
  PROVE  VisitsBounded'
  <1>1. /\ Cardinality(Visiting') \in Nat
        /\ Cardinality(Visiting') <= Cardinality(Visiting)
    BY VisitingIsFinite, FS_Subset, FS_CardinalityType
  <1> QED
    BY <1>1, VisitingIsFinite DEF VisitsBounded

LEMMA AtMostOneMore ==
  ASSUME NEW S, IsFiniteSet(S), NEW x
  PROVE  /\ IsFiniteSet(S \cup {x})
         /\ Cardinality(S \cup {x}) <= Cardinality(S) + 1
  <1>1. Cardinality(S) \in Nat
    BY FS_CardinalityType
  <1>2. CASE x \in S
    <2>1. S \cup {x} = S
      BY <1>2
    <2>2. IsFiniteSet(S \cup {x}) /\ Cardinality(S \cup {x}) = Cardinality(S)
      BY <2>1, ZenonT(60)
    <2> QED
      BY <1>1, <2>2
  <1>3. CASE x \notin S
    <2>1. /\ IsFiniteSet(S \cup {x})
          /\ Cardinality(S \cup {x}) = Cardinality(S) + 1
      BY <1>3, FS_AddElement
    <2> QED
      BY <1>1, <2>1
  <1> QED
    BY <1>2, <1>3

(* A ticket is given where there is room for it.                           *)
LEMMA OneMoreVisits ==
  ASSUME HubTypes, NEW v \in Visitors, Visit(v)
  PROVE  VisitsBounded'
  <1>1. Visiting' \subseteq Visiting \cup {v}
    BY DEF Visit, Visiting, HubTypes
  <1>2. /\ IsFiniteSet(Visiting \cup {v})
        /\ Cardinality(Visiting \cup {v}) <= Cardinality(Visiting) + 1
    BY VisitingIsFinite, AtMostOneMore
  <1>3. /\ Cardinality(Visiting') <= Cardinality(Visiting \cup {v})
        /\ Cardinality(Visiting') \in Nat
        /\ Cardinality(Visiting \cup {v}) \in Nat
    BY <1>1, <1>2, FS_Subset, FS_CardinalityType
  <1>4. Cardinality(Visiting) < VisitsPerDesk
    BY DEF Visit, RoomToVisit
  <1> QED
    BY <1>2, <1>3, <1>4, VisitingIsFinite DEF VisitsBounded

LEMMA VisitsHold ==
  ASSUME HubTypes, VisitsBounded, [Next]_vars
  PROVE  VisitsBounded'
  <1>1. CASE Visiting' \subseteq Visiting
    BY <1>1, FewerVisit
  <1>2. ASSUME NEW gone, DropsWaiters(gone) PROVE Visiting' \subseteq Visiting
    BY <1>2 DEF DropsWaiters, Visiting
  <1>3. ASSUME UNCHANGED ticket PROVE Visiting' \subseteq Visiting
    BY <1>3 DEF Visiting
  <1>4. ASSUME NEW c \in Conns, SocketNext(c) PROVE UNCHANGED ticket
    BY <1>4
    DEF SocketNext, Arrives, Ages, HttpEnds, SealedDoor, Dials, Fails, Proves,
        TakesSeat, SessionEnds, hubVars
  <1>5. ASSUME NEW c \in Hosts, HostNext(c)
        PROVE  UNCHANGED ticket \/ \E gone : DropsWaiters(gone)
    BY <1>5
    DEF HostNext, StandsIn, Slot, Retire, GetsSlot, Acquire, StopsReplacing,
        Dequeue, Registers, Register, RegistersNot, RefusesDesk, Serves,
        HostEnds, Unregister, Leaves, ReturnSlot, hubVars
  <1>6. ASSUME NEW v \in Visitors, VisitorNext(v)
        PROVE  \/ Visit(v) \/ UNCHANGED ticket
               \/ \E gone : DropsWaiters(gone)
    BY <1>6
    DEF VisitorNext, RelayDoor, Upgraded, NotUpgraded, Drops, Arrive, Waits,
        Notify, Notifies, WaitExpires, hubVars
  <1>7. ASSUME NEW c \in Callbacks, CallbackNext(c)
        PROVE  UNCHANGED ticket \/ \E gone : DropsWaiters(gone)
    BY <1>7
    DEF CallbackNext, Accept, Claim, Takes, ClaimsStale, Drops, Joins,
        NotJoined, JoinEnds, hubVars
  <1>8. CASE \/ TakesIn \/ PutsOut \/ Elsewhere \/ UNCHANGED vars
            \/ \E d \in Devices : Revokes(d)
    <2>1. UNCHANGED ticket
      BY <1>8
      DEF TakesIn, PutsOut, Elsewhere, OtherLeaves, Revokes, Cancels, vars,
          hubVars
    <2> QED
      BY <1>1, <1>3, <2>1
  <1> QED
    BY <1>1, <1>2, <1>3, <1>4, <1>5, <1>6, <1>7, <1>8, OneMoreVisits DEF Next

(* A desk's visits stay within its budget through every registration       *)
(* ("Budgets survive registrations", relay.rs).                            *)
THEOREM VisitsStayBounded == Spec => []VisitsBounded
  <1>1. Init => VisitsBounded
    <2> SUFFICES ASSUME Init PROVE VisitsBounded
      OBVIOUS
    <2>1. Visiting = {}
      BY DEF Init, HubInit, Visiting
    <2> QED
      BY <2>1, FS_EmptySet DEF VisitsBounded
  <1>2. HubInv => HubTypes
    BY DEF HubInv
  <1> QED
    BY <1>1, <1>2, HubAlways, VisitsHold, PTL DEF Spec
-----------------------------------------------------------------------------
(* A pool in which nobody is twice, and what its shorter self looks like.  *)
NoRepeats(s) == \A i, j \in DOMAIN s : s[i] = s[j] => i = j

(* Where the k-th place of a sequence was before the i-th was taken out.   *)
Was(i, k) == IF k < i THEN k ELSE k + 1

LEMMA RemovedAt ==
  ASSUME NEW S, NEW s \in Seq(S), NEW i \in 1..Len(s)
  PROVE  /\ RemoveAt(s, i) \in Seq(S) /\ Len(RemoveAt(s, i)) = Len(s) - 1
         /\ \A k \in 1..(Len(s) - 1) : RemoveAt(s, i)[k] = s[Was(i, k)]
<1> DEFINE a == SubSeq(s, 1, i - 1)
           b == SubSeq(s, i + 1, Len(s))
<1>1. /\ a \in Seq(S) /\ Len(a) = i - 1
      /\ \A k \in 1..(i - 1) : a[k] = s[k]
  OBVIOUS
<1>2. /\ b \in Seq(S) /\ Len(b) = Len(s) - i
      /\ \A k \in 1..(Len(s) - i) : b[k] = s[i + k]
  OBVIOUS
<1>3. RemoveAt(s, i) = a \o b
  BY DEF RemoveAt
<1> HIDE DEF a, b
<1>4. /\ a \o b \in Seq(S) /\ Len(a \o b) = Len(s) - 1
      /\ \A k \in 1..(Len(s) - 1) :
           (a \o b)[k] = IF k <= i - 1 THEN a[k] ELSE b[k - (i - 1)]
  <2>1. \A p, q \in Seq(S) :
          /\ p \o q \in Seq(S) /\ Len(p \o q) = Len(p) + Len(q)
          /\ \A k \in 1..(Len(p) + Len(q)) :
               (p \o q)[k] = IF k <= Len(p) THEN p[k] ELSE q[k - Len(p)]
    OBVIOUS
  <2>2. Len(a) + Len(b) = Len(s) - 1
    BY <1>1, <1>2
  <2>3. a \in Seq(S) /\ b \in Seq(S)
    BY <1>1, <1>2
  <2>4. /\ a \o b \in Seq(S) /\ Len(a \o b) = Len(a) + Len(b)
        /\ \A k \in 1..(Len(a) + Len(b)) :
             (a \o b)[k] = IF k <= Len(a) THEN a[k] ELSE b[k - Len(a)]
    BY <2>1, <2>3
  <2> QED BY <1>1, <2>2, <2>4
<1>5. PICK r : r = a \o b
  OBVIOUS
<1>6. \A k \in 1..(Len(s) - 1) : k < i => r[k] = s[k]
  BY <1>1, <1>4, <1>5
<1>7. \A k \in 1..(Len(s) - 1) : k >= i => r[k] = s[k + 1]
  <2>1. \A k \in 1..(Len(s) - 1) : k >= i => r[k] = b[k - (i - 1)]
    BY <1>4, <1>5
  <2>2. \A k \in 1..(Len(s) - 1) : k >= i => b[k - (i - 1)] = s[k + 1]
    <3>1. SUFFICES ASSUME NEW k \in 1..(Len(s) - 1), k >= i
                   PROVE  b[k - (i - 1)] = s[k + 1]
      OBVIOUS
    <3>2. PICK m \in 1..(Len(s) - i) : m = k - (i - 1) /\ i + m = k + 1
      BY <3>1
    <3>3. b[m] = s[i + m]
      BY <1>2
    <3>4. b[m] = s[k + 1]
      BY <3>2, <3>3
    <3> QED BY <3>2, <3>4
  <2> QED BY <2>1, <2>2
<1>8. \A k \in 1..(Len(s) - 1) : r[k] = s[Was(i, k)]
  BY <1>6, <1>7 DEF Was
<1> QED BY <1>3, <1>4, <1>5, <1>8

LEMMA RemovedFirst ==
  ASSUME NEW S, NEW s \in Seq(S), NoRepeats(s), NEW e
  PROVE  \/ RemoveFirst(s, e) = s /\ e \notin Range(s)
         \/ \E i \in 1..Len(s) : s[i] = e /\ RemoveFirst(s, e) = RemoveAt(s, i)
<1>1. CASE \E i \in 1..Len(s) : s[i] = e
  <2>1. PICK i \in 1..Len(s) : s[i] = e
    BY <1>1
  <2>2. \A j \in 1..Len(s) : s[j] = e => j = i
    BY <2>1 DEF NoRepeats
  <2>3. {j \in 1..Len(s) : s[j] = e} = {i}
    BY <2>1, <2>2
  <2>4. Min({i}) = i
    <3>1. \A x \in {i} : \A y \in {i} : x =< y
      OBVIOUS
    <3> QED BY <3>1 DEF Min
  <2>5. SelectInSeq(s, LAMBDA v : v = e) = i
    BY <2>3, <2>4 DEF SelectInSeq
  <2>6. RemoveFirst(s, e) = RemoveAt(s, i)
    BY <1>1, <2>5 DEF RemoveFirst
  <2> QED BY <2>1, <2>6
<1>2. CASE ~\E i \in 1..Len(s) : s[i] = e
  <2>1. RemoveFirst(s, e) = s
    BY <1>2 DEF RemoveFirst
  <2> QED BY <1>2, <2>1 DEF Range
<1> QED BY <1>1, <1>2

(* A socket that is not taken in yet, and a dialed one that is not seated  *)
(* yet, is not in the pool, and has no seat; nobody is in the pool twice.  *)
PoolTypes == /\ pool \in Seq(Conns) /\ NoRepeats(pool)
             /\ seat \in [Conns -> Devices \cup {Nobody}]

Outside(c) == \/ at[c] \in {"new", "held"}
              \/ c \in Dialed /\ at[c] \in {"handshake", "proven"}

Fresh == \A c \in Conns : Outside(c)
                          => c \notin Range(pool) /\ seat[c] = Nobody

PoolFits == /\ PoolTypes
            /\ WithinBounds

LEMMA PoolIsFinite ==
  ASSUME pool \in Seq(Conns)
  PROVE  /\ IsFiniteSet(DOMAIN pool) /\ IsFiniteSet(Range(pool))
<1>1. IsFiniteSet(1..Len(pool)) /\ DOMAIN pool = 1..Len(pool)
  BY FS_Interval
<1>2. pool \in Surjection(DOMAIN pool, Range(pool))
  BY Fun_IsSurj DEF Range, Surjection
<1> QED
  BY <1>1, <1>2, FS_Surjection

LEMMA PendingsAreFinite ==
  ASSUME pool \in Seq(Conns)
  PROVE  /\ IsFiniteSet(Pendings) /\ Cardinality(Pendings) \in Nat
         /\ \A ip : /\ IsFiniteSet(PendingsFrom(ip))
                    /\ Cardinality(PendingsFrom(ip)) \in Nat
<1>1. Pendings \subseteq DOMAIN pool
  BY DEF Pendings
<1>2. IsFiniteSet(Pendings) /\ Cardinality(Pendings) \in Nat
  BY <1>1, PoolIsFinite, FS_Subset, FS_CardinalityType
<1>3. ASSUME NEW ip PROVE /\ IsFiniteSet(PendingsFrom(ip))
                          /\ Cardinality(PendingsFrom(ip)) \in Nat
  <2>1. PendingsFrom(ip) \subseteq Pendings
    BY DEF PendingsFrom
  <2> QED BY <1>2, <2>1, FS_Subset, FS_CardinalityType
<1> QED BY <1>2, <1>3

AllSeated == UNION {Seated(d) : d \in Devices}

LEMMA SeatedAreFinite ==
  ASSUME pool \in Seq(Conns)
  PROVE  /\ IsFiniteSet(AllSeated) /\ Cardinality(AllSeated) \in Nat
         /\ \A d : /\ IsFiniteSet(Seated(d))
                   /\ Cardinality(Seated(d)) \in Nat
<1>1. AllSeated \subseteq Range(pool) /\ \A d : Seated(d) \subseteq Range(pool)
  BY DEF Seated, AllSeated
<1> QED
  BY <1>1, PoolIsFinite, FS_Subset, FS_CardinalityType

(* A part of a finite set is no larger.                                    *)
LEMMA NoMore ==
  ASSUME NEW S, IsFiniteSet(S), NEW T, T \subseteq S, NEW n \in Nat,
         Cardinality(S) <= n
  PROVE  Cardinality(T) <= n
<1>1. /\ Cardinality(T) <= Cardinality(S) /\ IsFiniteSet(T)
      /\ Cardinality(S) \in Nat /\ Cardinality(T) \in Nat
  BY FS_Subset, FS_CardinalityType
<1> QED BY <1>1

LEMMA OneMore ==
  ASSUME NEW S, IsFiniteSet(S), NEW x, NEW T, T \subseteq S \cup {x},
         NEW n \in Nat, Cardinality(S) < n
  PROVE  Cardinality(T) <= n
<1>1. /\ IsFiniteSet(S \cup {x})
      /\ Cardinality(S \cup {x}) <= Cardinality(S) + 1
  BY AtMostOneMore
<1>2. Cardinality(S) \in Nat /\ Cardinality(S \cup {x}) \in Nat
  BY <1>1, FS_CardinalityType
<1>3. Cardinality(S \cup {x}) <= n
  BY <1>1, <1>2
<1> QED BY <1>1, <1>3, NoMore

LEMMA Injected ==
  ASSUME NEW S, IsFiniteSet(S), NEW T, NEW f \in Injection(T, S),
         NEW n \in Nat, Cardinality(S) <= n
  PROVE  Cardinality(T) <= n
<1>1. /\ IsFiniteSet(T) /\ Cardinality(T) <= Cardinality(S)
  BY FS_Injection
<1>2. Cardinality(S) \in Nat /\ Cardinality(T) \in Nat
  BY <1>1, FS_CardinalityType
<1> QED BY <1>1, <1>2

-----------------------------------------------------------------------------
(* One taken in is the last of the pool, where there was room for it.      *)
LEMMA AdmitFits ==
  ASSUME PoolFits, Admit, held \in Conns, held \notin Range(pool),
         seat[held] = Nobody
  PROVE  PoolFits'
<1> USE DEF PoolFits, PoolTypes
<1> DEFINE n == Len(pool) + 1
<1>1. /\ pool' = Append(pool, held) /\ seat' = seat
      /\ Victims(Ip[held]) = {}
  BY DEF Admit
<1>2. /\ pool' \in Seq(Conns) /\ Len(pool') = n /\ pool'[n] = held
      /\ \A i \in 1..Len(pool) : pool'[i] = pool[i]
  BY <1>1
<1>3. DOMAIN pool' = 1..n /\ DOMAIN pool = 1..Len(pool)
  BY <1>2
<1>4. NoRepeats(pool')
  <2>1. \A i \in 1..Len(pool) : pool[i] # held
    BY <1>3 DEF Range
  <2>2. \A i, j \in 1..Len(pool) : pool[i] = pool[j] => i = j
    BY <1>3 DEF NoRepeats
  <2>3. \A i \in 1..n : i \in 1..Len(pool) \/ i = n
    OBVIOUS
  <2> HIDE DEF n
  <2>4. \A i \in 1..Len(pool) : pool'[i] = pool[i] /\ pool'[i] # pool'[n]
    BY <1>2, <2>1
  <2>5. \A i, j \in 1..n : pool'[i] = pool'[j] => i = j
    <3> TAKE i, j \in 1..n
    <3>1. CASE i = n \/ j = n
      BY <2>3, <2>4, <3>1
    <3>2. CASE i \in 1..Len(pool) /\ j \in 1..Len(pool)
      BY <2>2, <2>4, <3>2
    <3> QED BY <2>3, <3>1, <3>2
  <2> QED BY <1>3, <2>5 DEF NoRepeats
<1>5. Pendings' \subseteq Pendings \cup {n}
  BY <1>1, <1>2, <1>3 DEF Pendings
<1>6. \A ip : PendingsFrom(ip)' \subseteq PendingsFrom(ip) \cup {n}
  BY <1>1, <1>2, <1>3, <1>5 DEF Pendings, PendingsFrom
<1>7. \A ip : ip # Ip[held] => PendingsFrom(ip)' \subseteq PendingsFrom(ip)
  BY <1>1, <1>2, <1>3, <1>5 DEF Pendings, PendingsFrom
<1>8. Range(pool') = Range(pool) \cup {held}
  <2>1. \A i \in 1..n : i \in 1..Len(pool) \/ i = n
    OBVIOUS
  <2>2. n \in 1..n /\ 1..Len(pool) \subseteq 1..n
    OBVIOUS
  <2> HIDE DEF n
  <2>3. \A x : x \in Range(pool') <=> \E i \in 1..n : x = pool'[i]
    BY <1>3 DEF Range
  <2>4. \A x : x \in Range(pool) <=> \E i \in 1..Len(pool) : x = pool[i]
    BY <1>3 DEF Range
  <2>5. \A x \in Range(pool') : x \in Range(pool) \/ x = held
    BY <1>2, <2>1, <2>3, <2>4
  <2>6. held \in Range(pool') /\ \A x \in Range(pool) : x \in Range(pool')
    BY <1>2, <2>2, <2>3, <2>4
  <2> QED BY <2>5, <2>6
<1>9. \A d \in Devices : Seated(d)' = Seated(d)
  BY <1>1, <1>8, NobodyAssumption DEF Seated
<1>10. Cardinality({}) = 0
  BY FS_EmptySet
<1>11. Cardinality(PendingsFrom(Ip[held])) < PendingPerIp
  <2>1. CASE Cardinality(PendingsFrom(Ip[held])) >= PendingPerIp
    <3>1. PendingsFrom(Ip[held]) = {}
      BY <1>1, <2>1 DEF Victims
    <3>2. Cardinality(PendingsFrom(Ip[held])) = 0
      BY <1>10, <3>1
    <3> QED BY <2>1, <3>2
  <2> QED BY <2>1, PendingsAreFinite
<1>12. Cardinality(Pendings) < PendingMax
  <2>1. CASE Cardinality(Pendings) >= PendingMax
    <3>1. Pendings = {}
      BY <1>1, <1>11, <2>1, PendingsAreFinite DEF Victims
    <3>2. Cardinality(Pendings) = 0
      BY <1>10, <3>1
    <3> QED BY <2>1, <3>2
  <2> QED BY <2>1, PendingsAreFinite
<1>13. Cardinality(Pendings') <= PendingMax
  BY <1>5, <1>12, PendingsAreFinite, OneMore
<1>14. \A ip \in Range(Ip) : Cardinality(PendingsFrom(ip)') <= PendingPerIp
  <2> TAKE ip \in Range(Ip)
  <2>1. CASE ip = Ip[held]
    <3>1. Cardinality(PendingsFrom(ip)) < PendingPerIp
      BY <1>11, <2>1
    <3> QED BY <1>6, <3>1, PendingsAreFinite, OneMore
  <2>2. CASE ip # Ip[held]
    <3>1. Cardinality(PendingsFrom(ip)) <= PendingPerIp
      BY DEF WithinBounds
    <3> QED BY <1>7, <2>2, <3>1, PendingsAreFinite, NoMore
  <2> QED BY <2>1, <2>2
<1>15. {Seated(d)' : d \in Devices} = {Seated(d) : d \in Devices}
  BY <1>9
<1>16. WithinBounds'
  BY <1>9, <1>13, <1>14, <1>15 DEF WithinBounds
<1>17. seat' \in [Conns -> Devices \cup {Nobody}]
  BY <1>1
<1> QED BY <1>2, <1>4, <1>16, <1>17

(* A seat is given where there is one.                                     *)
LEMMA SeatFits ==
  ASSUME PoolFits, NEW c \in Conns, NEW d \in Devices, Authenticate(c, d)
  PROVE  PoolFits'
<1> USE DEF PoolFits, PoolTypes
<1>1. /\ pool' = pool /\ seat' = [seat EXCEPT ![c] = d] /\ seat[c] = Nobody
      /\ Cardinality(AllSeated) < AuthenticatedMax
      /\ Cardinality(Seated(d)) < AuthenticatedPerDevice
  BY DEF Authenticate, HasSeat, AllSeated
<1>2. Pendings' \subseteq Pendings
  <2>1. \A i \in DOMAIN pool : pool[i] \in Conns
    OBVIOUS
  <2> QED BY <1>1, <2>1, NobodyAssumption DEF Pendings
<1>3. \A ip : PendingsFrom(ip)' \subseteq PendingsFrom(ip)
  BY <1>1, <1>2 DEF PendingsFrom
<1>4. Range(pool) \subseteq Conns
  BY DEF Range
<1>5. \A e \in Devices : Seated(e)' \subseteq Seated(e) \cup {c}
  BY <1>1, <1>4 DEF Seated
<1>6. \A e \in Devices : e # d => Seated(e)' \subseteq Seated(e)
  BY <1>1, <1>4 DEF Seated
<1>7. AllSeated' \subseteq AllSeated \cup {c}
  BY <1>5 DEF AllSeated
<1>8. Cardinality(AllSeated') <= AuthenticatedMax
  BY <1>1, <1>7, SeatedAreFinite, OneMore
<1>9. \A e \in Devices : Cardinality(Seated(e)') <= AuthenticatedPerDevice
  <2> TAKE e \in Devices
  <2>1. CASE e = d
    <3>1. Cardinality(Seated(e)) < AuthenticatedPerDevice
      BY <1>1, <2>1
    <3> QED BY <1>5, <3>1, SeatedAreFinite, OneMore
  <2>2. CASE e # d
    <3>1. Cardinality(Seated(e)) <= AuthenticatedPerDevice
      BY DEF WithinBounds
    <3> QED BY <1>6, <2>2, <3>1, SeatedAreFinite, NoMore
  <2> QED BY <2>1, <2>2
<1>10. Cardinality(Pendings') <= PendingMax
  BY <1>2, PendingsAreFinite, NoMore DEF WithinBounds
<1>11. \A ip \in Range(Ip) : Cardinality(PendingsFrom(ip)') <= PendingPerIp
  <2> TAKE ip \in Range(Ip)
  <2>1. Cardinality(PendingsFrom(ip)) <= PendingPerIp
    BY DEF WithinBounds
  <2> QED BY <1>3, <2>1, PendingsAreFinite, NoMore
<1>12. WithinBounds'
  BY <1>8, <1>9, <1>10, <1>11 DEF WithinBounds, AllSeated
<1> QED BY <1>1, <1>12

(* A socket the desk dialed is the last of the pool, and has a seat there. *)
LEMMA RelayedFits ==
  ASSUME PoolFits, NEW c \in Conns, NEW d \in Devices, SeatRelayed(c, d),
         c \notin Range(pool)
  PROVE  PoolFits'
<1> USE DEF PoolFits, PoolTypes
<1> DEFINE n == Len(pool) + 1
<1>1. /\ pool' = Append(pool, c) /\ seat' = [seat EXCEPT ![c] = d]
      /\ Cardinality(AllSeated) < AuthenticatedMax
      /\ Cardinality(Seated(d)) < AuthenticatedPerDevice
  BY DEF SeatRelayed, HasSeat, AllSeated
<1>2. /\ pool' \in Seq(Conns) /\ Len(pool') = n /\ pool'[n] = c
      /\ \A i \in 1..Len(pool) : pool'[i] = pool[i]
  BY <1>1
<1>3. /\ DOMAIN pool' = 1..n /\ DOMAIN pool = 1..Len(pool)
      /\ n \in 1..n /\ 1..Len(pool) \subseteq 1..n
      /\ \A i \in 1..n : i \in 1..Len(pool) \/ i = n
  BY <1>2
<1> HIDE DEF n
<1>4. \A i \in 1..Len(pool) : pool[i] # c /\ pool[i] \in Conns
  BY <1>3 DEF Range
<1>5. NoRepeats(pool')
  <2>1. \A i, j \in 1..Len(pool) : pool[i] = pool[j] => i = j
    BY <1>3 DEF NoRepeats
  <2>2. \A i, j \in 1..n : pool'[i] = pool'[j] => i = j
    BY <1>2, <1>3, <1>4, <2>1
  <2> QED BY <1>3, <2>2 DEF NoRepeats
<1>6. seat'[c] # Nobody /\ \A i \in 1..Len(pool) : seat'[pool[i]] = seat[pool[i]]
  BY <1>1, <1>4, NobodyAssumption
<1>7. Pendings' \subseteq Pendings
  BY <1>2, <1>3, <1>6 DEF Pendings
<1>8. \A ip : PendingsFrom(ip)' \subseteq PendingsFrom(ip)
  BY <1>2, <1>3, <1>7 DEF Pendings, PendingsFrom
<1>9. \A x \in Range(pool') : \/ x = c
                              \/ x \in Range(pool) /\ seat'[x] = seat[x]
  <2> TAKE x \in Range(pool')
  <2>1. PICK i \in 1..n : x = pool'[i]
    BY <1>3 DEF Range
  <2>2. CASE i = n
    BY <1>2, <2>1, <2>2
  <2>3. CASE i \in 1..Len(pool)
    <3>1. x = pool[i]
      BY <1>2, <2>1, <2>3
    <3>2. pool[i] \in Range(pool)
      BY <1>3, <2>3 DEF Range
    <3>3. seat'[x] = seat[x]
      BY <1>6, <2>3, <3>1
    <3> QED BY <3>1, <3>2, <3>3
  <2> QED BY <1>3, <2>2, <2>3
<1>10. \A e \in Devices : Seated(e)' \subseteq Seated(e) \cup {c}
  BY <1>9 DEF Seated
<1>11. \A e \in Devices : e # d => Seated(e)' \subseteq Seated(e)
  <2>1. seat'[c] = d
    BY <1>1
  <2> QED BY <1>9, <2>1 DEF Seated
<1>12. AllSeated' \subseteq AllSeated \cup {c}
  BY <1>10 DEF AllSeated
<1>13. Cardinality(AllSeated') <= AuthenticatedMax
  BY <1>1, <1>12, SeatedAreFinite, OneMore
<1>14. \A e \in Devices : Cardinality(Seated(e)') <= AuthenticatedPerDevice
  <2> TAKE e \in Devices
  <2>1. CASE e = d
    <3>1. Cardinality(Seated(e)) < AuthenticatedPerDevice
      BY <1>1, <2>1
    <3> QED BY <1>10, <3>1, SeatedAreFinite, OneMore
  <2>2. CASE e # d
    <3>1. Cardinality(Seated(e)) <= AuthenticatedPerDevice
      BY DEF WithinBounds
    <3> QED BY <1>11, <2>2, <3>1, SeatedAreFinite, NoMore
  <2> QED BY <2>1, <2>2
<1>15. Cardinality(Pendings') <= PendingMax
  BY <1>7, PendingsAreFinite, NoMore DEF WithinBounds
<1>16. \A ip \in Range(Ip) : Cardinality(PendingsFrom(ip)') <= PendingPerIp
  <2> TAKE ip \in Range(Ip)
  <2>1. Cardinality(PendingsFrom(ip)) <= PendingPerIp
    BY DEF WithinBounds
  <2> QED BY <1>8, <2>1, PendingsAreFinite, NoMore
<1>17. WithinBounds'
  BY <1>13, <1>14, <1>15, <1>16 DEF WithinBounds, AllSeated
<1>18. seat' \in [Conns -> Devices \cup {Nobody}]
  BY <1>1
<1> QED BY <1>2, <1>5, <1>17, <1>18

(* Where a place of the shorter sequence was.                              *)
LEMMA WasAt ==
  ASSUME NEW n \in Nat, NEW i \in 1..n
  PROVE  /\ \A k \in 1..(n - 1) : Was(i, k) \in 1..n /\ Was(i, k) # i
         /\ \A k, l \in 1..(n - 1) : Was(i, k) = Was(i, l) => k = l
BY DEF Was

(* An entry that ends takes its place, or its seat, with it.               *)
LEMMA GoneFits ==
  ASSUME PoolFits, NEW c \in Conns, NEW i \in 1..Len(pool), pool[i] = c,
         pool' = RemoveAt(pool, i), seat' = [seat EXCEPT ![c] = Nobody]
  PROVE  PoolFits' /\ Range(pool') \subseteq Range(pool)
<1> USE DEF PoolFits, PoolTypes
<1>1. /\ pool' \in Seq(Conns) /\ Len(pool') = Len(pool) - 1
      /\ \A k \in 1..(Len(pool) - 1) : pool'[k] = pool[Was(i, k)]
  BY RemovedAt
<1>2. /\ \A k \in 1..(Len(pool) - 1) :
           Was(i, k) \in 1..Len(pool) /\ Was(i, k) # i
      /\ \A k, l \in 1..(Len(pool) - 1) : Was(i, k) = Was(i, l) => k = l
  <2>1. Len(pool) \in Nat
    OBVIOUS
  <2> QED BY <2>1, WasAt
<1>3. /\ DOMAIN pool' = 1..(Len(pool) - 1) /\ DOMAIN pool = 1..Len(pool)
  BY <1>1
<1>4. \A k \in 1..(Len(pool) - 1) :
        /\ pool'[k] = pool[Was(i, k)] /\ Was(i, k) \in DOMAIN pool
        /\ pool'[k] # c /\ seat'[pool'[k]] = seat[pool[Was(i, k)]]
  <2> TAKE k \in 1..(Len(pool) - 1)
  <2>1. Was(i, k) \in DOMAIN pool /\ Was(i, k) # i
    BY <1>2, <1>3
  <2>2. pool'[k] = pool[Was(i, k)]
    BY <1>1
  <2>3. pool[Was(i, k)] # c
    BY <2>1 DEF NoRepeats
  <2>4. pool[Was(i, k)] \in Conns
    BY <2>1
  <2> QED BY <2>1, <2>2, <2>3, <2>4
<1>5. NoRepeats(pool')
  BY <1>2, <1>3, <1>4 DEF NoRepeats
<1>6. Range(pool') \subseteq Range(pool)
  BY <1>3, <1>4 DEF Range
<1>7. \A d \in Devices : Seated(d)' \subseteq Seated(d)
  <2> SUFFICES ASSUME NEW d \in Devices, NEW x \in Range(pool'), seat'[x] = d
               PROVE  x \in Range(pool) /\ seat[x] = d
    BY DEF Seated
  <2>1. PICK k \in 1..(Len(pool) - 1) : x = pool'[k]
    BY <1>3 DEF Range
  <2>2. /\ x = pool[Was(i, k)] /\ x \in Range(pool) /\ seat'[x] = seat[x]
    BY <1>4, <1>6, <2>1
  <2> QED BY <2>2
<1>8. AllSeated' \subseteq AllSeated
  BY <1>7 DEF AllSeated
<1>9. [k \in Pendings' |-> Was(i, k)] \in Injection(Pendings', Pendings)
  <2>1. \A k \in Pendings' : k \in 1..(Len(pool) - 1)
    BY <1>3 DEF Pendings
  <2>2. \A k \in Pendings' : Was(i, k) \in Pendings
    BY <1>4, <2>1 DEF Pendings
  <2>3. \A k, l \in Pendings' : Was(i, k) = Was(i, l) => k = l
    BY <1>2, <2>1
  <2> QED BY <2>2, <2>3 DEF Injection, IsInjective
<1>10. Cardinality(Pendings') <= PendingMax
  <2>1. PICK f : f \in Injection(Pendings', Pendings)
    BY <1>9
  <2>2. IsFiniteSet(Pendings) /\ Cardinality(Pendings) <= PendingMax
    BY PendingsAreFinite DEF WithinBounds
  <2> QED BY <2>1, <2>2, Injected
<1>11. ASSUME NEW ip \in Range(Ip)
       PROVE  Cardinality(PendingsFrom(ip)') <= PendingPerIp
  <2>1. [k \in PendingsFrom(ip)' |-> Was(i, k)]
           \in Injection(PendingsFrom(ip)', PendingsFrom(ip))
    <3>1. \A k \in PendingsFrom(ip)' : k \in 1..(Len(pool) - 1)
      BY <1>3 DEF Pendings, PendingsFrom
    <3>2. \A k \in PendingsFrom(ip)' : Was(i, k) \in PendingsFrom(ip)
      BY <1>4, <3>1 DEF Pendings, PendingsFrom
    <3>3. \A k, l \in PendingsFrom(ip)' : Was(i, k) = Was(i, l) => k = l
      BY <1>2, <3>1
    <3> QED BY <3>2, <3>3 DEF Injection, IsInjective
  <2>2. Cardinality(PendingsFrom(ip)) <= PendingPerIp
    BY DEF WithinBounds
  <2>3. PICK f : f \in Injection(PendingsFrom(ip)', PendingsFrom(ip))
    BY <2>1
  <2> QED BY <2>2, <2>3, PendingsAreFinite, Injected
<1>12. /\ Cardinality(AllSeated') <= AuthenticatedMax
       /\ \A d \in Devices :
            Cardinality(Seated(d)') <= AuthenticatedPerDevice
  <2>1. Cardinality(AllSeated) <= AuthenticatedMax
    BY DEF WithinBounds, AllSeated
  <2>2. \A d \in Devices : Cardinality(Seated(d)) <= AuthenticatedPerDevice
    BY DEF WithinBounds
  <2>3. Cardinality(AllSeated') <= AuthenticatedMax
    BY <1>8, <2>1, SeatedAreFinite, NoMore
  <2>4. ASSUME NEW d \in Devices
        PROVE  Cardinality(Seated(d)') <= AuthenticatedPerDevice
    <3>1. Seated(d)' \subseteq Seated(d) /\ IsFiniteSet(Seated(d))
      BY <1>7, SeatedAreFinite
    <3>2. Cardinality(Seated(d)) <= AuthenticatedPerDevice
      BY <2>2
    <3> QED BY <3>1, <3>2, NoMore
  <2> QED BY <2>3, <2>4
<1>13. WithinBounds'
  BY <1>10, <1>11, <1>12 DEF WithinBounds, AllSeated
<1> QED BY <1>1, <1>5, <1>6, <1>13

LEMMA SameFits ==
  ASSUME PoolFits, UNCHANGED <<pool, seat>>
  PROVE  PoolFits' /\ Range(pool') \subseteq Range(pool)
BY DEF PoolFits, PoolTypes, WithinBounds, Pendings, PendingsFrom, Seated

LEMMA LetsGoFits ==
  ASSUME PoolFits, NEW c \in Conns, NEW who, LetsGo(c, who)
  PROVE  PoolFits' /\ Range(pool') \subseteq Range(pool)
<1> USE DEF PoolFits, PoolTypes
<1>1. CASE ~(owners[c] \subseteq {who})
  <2>1. UNCHANGED <<pool, seat>>
    BY <1>1 DEF LetsGo
  <2> QED BY <2>1, SameFits
<1>2. CASE owners[c] \subseteq {who}
  <2>1. pool' = RemoveFirst(pool, c) /\ seat' = [seat EXCEPT ![c] = Nobody]
    BY <1>2 DEF LetsGo
  <2>2. CASE \E i \in 1..Len(pool) :
               pool[i] = c /\ RemoveFirst(pool, c) = RemoveAt(pool, i)
    BY <2>1, <2>2, GoneFits
  <2>3. CASE RemoveFirst(pool, c) = pool /\ c \notin Range(pool)
    <3>1. \A x \in Range(pool) : seat'[x] = seat[x] /\ x \in Conns
      BY <2>1, <2>3 DEF Range
    <3>2. \A k \in DOMAIN pool : seat'[pool[k]] = seat[pool[k]]
      BY <3>1 DEF Range
    <3>3. pool' = pool /\ seat' \in [Conns -> Devices \cup {Nobody}]
      BY <2>1, <2>3
    <3>4. Pendings' = Pendings
      BY <3>2, <3>3 DEF Pendings
    <3>5. \A ip : PendingsFrom(ip)' = PendingsFrom(ip)
      BY <3>3, <3>4 DEF PendingsFrom
    <3>6. \A d \in Devices : Seated(d)' = Seated(d)
      BY <3>1, <3>3 DEF Seated
    <3>7. {Seated(d)' : d \in Devices} = {Seated(d) : d \in Devices}
      BY <3>6
    <3>8. WithinBounds'
      BY <3>4, <3>5, <3>6, <3>7 DEF WithinBounds
    <3> QED BY <3>3, <3>8
  <2> QED BY <2>2, <2>3, RemovedFirst
<1> QED BY <1>1, <1>2

(* What a step does to who is in the pool: nothing, or one is taken in,    *)
(* takes a seat, or goes.                                                  *)
Promotes(c, d) == /\ Authenticate(c, d)
                  /\ at[c] = "proven" /\ at' = [at EXCEPT ![c] = "seated"]

Relays(c, d) == /\ SeatRelayed(c, d)
                /\ at[c] = "proven" /\ at' = [at EXCEPT ![c] = "seated"]

PoolStep ==
  \/ UNCHANGED <<pool, seat>>
  \/ Admit /\ at' = [at EXCEPT ![held] = "http"]
  \/ \E c \in Conns, d \in Devices : Promotes(c, d)
  \/ \E c \in Dialed, d \in Devices : Relays(c, d)
  \/ \E c \in Conns : \E who \in {"http", "task"} : LetsGo(c, who)

(* Nobody comes to be held but by arriving, and no socket comes twice.     *)
AtStep == \A c \in Conns : Outside(c)' => Outside(c)

LEMMA StepFits ==
  ASSUME PoolFits, Fresh, HubTypes, Holding, PoolStep
  PROVE  PoolFits'
<1>1. CASE Admit
  <2>1. held \in Conns /\ at[held] = "held"
    BY <1>1 DEF Admit, Holding
  <2>2. held \notin Range(pool) /\ seat[held] = Nobody
    BY <2>1 DEF Fresh, Outside
  <2> QED BY <1>1, <2>1, <2>2, AdmitFits
<1>2. ASSUME NEW c \in Conns, NEW d \in Devices, Promotes(c, d)
      PROVE  PoolFits'
  BY <1>2, SeatFits DEF Promotes
<1>3. ASSUME NEW c \in Dialed, NEW d \in Devices, Relays(c, d)
      PROVE  PoolFits'
  <2>1. c \in Conns /\ c \notin Range(pool)
    BY <1>3 DEF Relays, Fresh, Outside
  <2> QED BY <1>3, <2>1, RelayedFits DEF Relays
<1> QED BY <1>1, <1>2, <1>3, SameFits, LetsGoFits DEF PoolStep

LEMMA StepFresh ==
  ASSUME PoolFits, Fresh, HubTypes, Holding, PoolStep, AtStep
  PROVE  Fresh'
<1> USE DEF HubTypes, PoolFits, PoolTypes
<1>1. CASE Admit /\ at' = [at EXCEPT ![held] = "http"]
  <2>1. held \in Conns /\ at' = [at EXCEPT ![held] = "http"]
    BY <1>1 DEF Admit, Holding
  <2>2. pool' = Append(pool, held) /\ seat' = seat
    BY <1>1 DEF Admit
  <2>3. \A x \in Range(pool') : x \in Range(pool) \/ x = held
    BY <2>1, <2>2 DEF Range
  <2> QED BY <2>1, <2>2, <2>3 DEF Fresh, AtStep, Outside
<1>2. ASSUME NEW c \in Conns, NEW d \in Devices, Promotes(c, d)
      PROVE  Fresh'
  <2>1. at' = [at EXCEPT ![c] = "seated"]
    BY <1>2 DEF Promotes
  <2>2. pool' = pool /\ seat' = [seat EXCEPT ![c] = d]
    BY <1>2 DEF Promotes, Authenticate
  <2>3. \A x \in Conns : Outside(x)' => x # c /\ Outside(x)
    BY <2>1 DEF AtStep, Outside
  <2> QED BY <2>2, <2>3 DEF Fresh
<1>5. ASSUME NEW c \in Dialed, NEW d \in Devices, Relays(c, d)
      PROVE  Fresh'
  <2>1. at' = [at EXCEPT ![c] = "seated"]
    BY <1>5 DEF Relays
  <2>2. pool' = Append(pool, c) /\ seat' = [seat EXCEPT ![c] = d]
    BY <1>5 DEF Relays, SeatRelayed
  <2>3. \A x \in Conns : Outside(x)' => x # c /\ Outside(x)
    BY <2>1 DEF AtStep, Outside
  <2>4. \A x \in Range(pool') : x \in Range(pool) \/ x = c
    BY <2>2 DEF Range
  <2> QED BY <2>2, <2>3, <2>4 DEF Fresh
<1>3. ASSUME NEW c \in Conns, NEW who \in {"http", "task"}, LetsGo(c, who)
      PROVE  Fresh'
  <2>1. Range(pool') \subseteq Range(pool)
    BY <1>3, LetsGoFits
  <2>2. \A x \in Conns : seat'[x] \in {seat[x], Nobody}
    BY <1>3 DEF LetsGo
  <2> QED BY <2>1, <2>2 DEF Fresh, AtStep
<1>4. CASE UNCHANGED <<pool, seat>>
  BY <1>4 DEF Fresh, AtStep
<1> QED BY <1>1, <1>2, <1>3, <1>4, <1>5 DEF PoolStep

(* Every step is such a step.                                              *)
LEMMA EveryPoolStep ==
  ASSUME HubTypes, Holding, [Next]_vars
  PROVE  PoolStep
<1>1. CASE TakesIn \/ PutsOut \/ Elsewhere \/ UNCHANGED vars
           \/ \E d \in Devices : Revokes(d)
  BY <1>1 DEF TakesIn, Goes, PutsOut, Evict, Elsewhere, Revokes, PoolStep,
              vars, poolVars
<1>2. ASSUME NEW c \in Conns, SocketNext(c) PROVE PoolStep
  <2>1. Device[c] \in Devices \/ c \in Visitors
    OBVIOUS
  <2>2. CASE TakesSeat(c)
    <3>1. c \in Conns /\ Device[c] \in Devices
      BY <2>1, <2>2 DEF TakesSeat
    <3>2. at[c] = "proven" /\ at' = [at EXCEPT ![c] = "seated"]
      BY <2>2 DEF TakesSeat, Moves, Goes
    <3>3. CASE Authenticate(c, Device[c])
      BY <3>1, <3>2, <3>3 DEF Promotes, PoolStep
    <3>4. CASE c \in Dialed /\ SeatRelayed(c, Device[c])
      BY <3>1, <3>2, <3>4 DEF Relays, PoolStep
    <3> QED BY <2>2, <3>3, <3>4 DEF TakesSeat
  <2> QED
    BY <1>2, <2>2
    DEF SocketNext, Arrives, Ages, HttpEnds, SealedDoor, Dials, Fails, Proves,
        SessionEnds, Hears, Grows, Deadline, Shares, PoolStep, poolVars
<1>3. ASSUME NEW c \in Hosts, HostNext(c) PROVE PoolStep
  BY <1>3
  DEF HostNext, StandsIn, GetsSlot, StopsReplacing, Registers,
      RegistersNot, RefusesDesk, Serves, HostEnds, Leaves, PoolStep, poolVars
<1>4. ASSUME NEW v \in Visitors, VisitorNext(v) PROVE PoolStep
  BY <1>4
  DEF VisitorNext, RelayDoor, Upgraded, NotUpgraded, Arrive, Notify,
      WaitExpires, Shares, PoolStep, poolVars
<1>5. ASSUME NEW c \in Callbacks, CallbackNext(c) PROVE PoolStep
  BY <1>5
  DEF CallbackNext, Accept, Joins, NotJoined, JoinEnds, PoolStep, poolVars
<1> QED BY <1>1, <1>2, <1>3, <1>4, <1>5 DEF Next

LEMMA EveryAtStep ==
  ASSUME HubTypes, Holding, [Next]_vars
  PROVE  AtStep
<1> USE DEF HubTypes, Moves, Goes, AtStep, Outside
<1>1. CASE TakesIn \/ PutsOut \/ Elsewhere \/ UNCHANGED vars
           \/ \E d \in Devices : Revokes(d)
  BY <1>1 DEF TakesIn, PutsOut, Elsewhere, Revokes, vars
<1>2. ASSUME NEW c \in Conns, SocketNext(c) PROVE AtStep
  BY <1>2
  DEF SocketNext, Arrives, Ages, HttpEnds, SealedDoor, Dials, Fails, Proves,
      TakesSeat, SessionEnds
<1>3. ASSUME NEW c \in Hosts, HostNext(c) PROVE AtStep
  BY <1>3
  DEF HostNext, StandsIn, GetsSlot, StopsReplacing, Registers,
      RegistersNot, RefusesDesk, Serves, HostEnds, Leaves
<1>4. ASSUME NEW v \in Visitors, VisitorNext(v) PROVE AtStep
  BY <1>4
  DEF VisitorNext, RelayDoor, Upgraded, NotUpgraded, Arrive, Notify,
      WaitExpires
<1>5. ASSUME NEW c \in Callbacks, CallbackNext(c) PROVE AtStep
  BY <1>5 DEF CallbackNext, Accept, Joins, NotJoined, JoinEnds
<1> QED BY <1>1, <1>2, <1>3, <1>4, <1>5 DEF Next

PoolMove(c) ==
  \/ Admit \/ Evict \/ Hears(c) \/ Grows(c) \/ Deadline(c)
  \/ \E d \in Devices : Authenticate(c, d) \/ SeatRelayed(c, d)
  \/ Shares(c)
  \/ \E who \in {"http", "task"} : LetsGo(c, who)
  \/ UNCHANGED poolVars

PermitTypes == /\ owners \in [Conns -> SUBSET {"http", "task"}]
               /\ young \subseteq Conns /\ evicted \subseteq Conns
               /\ late \subseteq Conns
               /\ held \in Conns \cup {Nobody}
               /\ awaits \in Conns \cup {Nobody}

LEMMA TypesMove ==
  ASSUME PermitTypes, pool \in Seq(Conns), NEW c \in Conns, PoolMove(c)
  PROVE  PermitTypes'
<1> USE DEF PermitTypes
<1>1. CASE Evict
  <2>1. \A ip : Victims(ip) \subseteq DOMAIN pool
    BY DEF Victims, PendingsFrom, Pendings
  <2>2. \A ip : \A i \in Victims(ip) : pool[i] \in Conns
    BY <2>1
  <2> QED BY <1>1, <2>2 DEF Evict
<1>2. CASE \/ Admit \/ Hears(c) \/ Grows(c) \/ Deadline(c)
           \/ \E d \in Devices : Authenticate(c, d) \/ SeatRelayed(c, d)
           \/ UNCHANGED poolVars
  BY <1>2
  DEF Admit, Hears, Grows, Deadline, Authenticate, SeatRelayed, poolVars
<1>3. CASE Shares(c)
  BY <1>3 DEF Shares
<1>4. CASE \E who \in {"http", "task"} : LetsGo(c, who)
  BY <1>4 DEF LetsGo
<1> QED BY <1>1, <1>2, <1>3, <1>4 DEF PoolMove

LEMMA TypesStep ==
  ASSUME PermitTypes, pool \in Seq(Conns), [Next]_vars
  PROVE  PermitTypes'
<1>1. CASE TakesIn \/ PutsOut \/ Elsewhere \/ UNCHANGED vars
           \/ \E d \in Devices : Revokes(d)
  <2>1. CASE UNCHANGED poolVars
    BY <2>1 DEF PermitTypes, poolVars
  <2>2. CASE Admit \/ Evict
    <3>1. held \in Conns
      BY <2>2 DEF Admit, Evict, PermitTypes
    <3> QED BY <2>2, <3>1, TypesMove DEF PoolMove
  <2> QED
    BY <1>1, <2>1, <2>2 DEF TakesIn, PutsOut, Elsewhere, Revokes, vars
<1>2. ASSUME NEW c \in Conns, SocketNext(c) PROVE PermitTypes'
  <2>1. Device[c] \in Devices \/ c \in Visitors
    OBVIOUS
  <2>2. PoolMove(c)
    BY <1>2, <2>1
    DEF SocketNext, Arrives, Ages, HttpEnds, SealedDoor, Dials, Fails, Proves,
        TakesSeat, SessionEnds, PoolMove
  <2> QED BY <2>2, TypesMove
<1>3. ASSUME NEW c \in Hosts, HostNext(c) PROVE PermitTypes'
  <2>1. PoolMove(c) /\ c \in Conns
    BY <1>3
    DEF HostNext, StandsIn, GetsSlot, StopsReplacing, Registers,
        RegistersNot, RefusesDesk, Serves, HostEnds, Leaves, PoolMove
  <2> QED BY <2>1, TypesMove
<1>4. ASSUME NEW v \in Visitors, VisitorNext(v) PROVE PermitTypes'
  <2>1. PoolMove(v) /\ v \in Conns
    BY <1>4
    DEF VisitorNext, RelayDoor, Upgraded, NotUpgraded, Arrive, Notify,
        WaitExpires, PoolMove
  <2> QED BY <2>1, TypesMove
<1>5. ASSUME NEW c \in Callbacks, CallbackNext(c) PROVE PermitTypes'
  <2>1. PoolMove(c) /\ c \in Conns
    BY <1>5 DEF CallbackNext, Accept, Joins, NotJoined, JoinEnds, PoolMove
  <2> QED BY <2>1, TypesMove
<1> QED BY <1>1, <1>2, <1>3, <1>4, <1>5 DEF Next
-----------------------------------------------------------------------------
SlotTypes == /\ cancelled \subseteq Hosts
             /\ slots \subseteq Hosts /\ queued \subseteq Hosts
             /\ others \in 0 .. HostsMax
             /\ revoked \subseteq Devices

SlotInv == SlotTypes /\ SlotsBounded

LEMMA SlotCounts ==
  ASSUME SlotTypes
  PROVE  /\ IsFiniteSet(slots) /\ Cardinality(slots) \in Nat
         /\ Cardinality(queued) \in Nat
BY FS_Subset, FS_CardinalityType DEF SlotTypes

(* A slot is taken only where one is free.                                 *)
LEMMA TakesSlot ==
  ASSUME SlotInv, NEW c \in Hosts, Free > 0,
         slots' = slots \cup {c}, others' = others
  PROVE  SlotsBounded'
<1>1. /\ Cardinality(slots \cup {c}) <= Cardinality(slots) + 1
      /\ IsFiniteSet(slots \cup {c})
  BY SlotCounts, AtMostOneMore DEF SlotInv
<1>2. Cardinality(slots \cup {c}) \in Nat /\ Cardinality(slots) \in Nat
  BY <1>1, SlotCounts, FS_CardinalityType DEF SlotInv
<1>3. others \in Nat
  BY DEF SlotInv, SlotTypes
<1> QED BY <1>1, <1>2, <1>3 DEF Free, SlotsBounded

LEMMA KeepsSlots ==
  ASSUME SlotInv, slots' \subseteq slots, others' \in Nat, others' <= others
  PROVE  SlotsBounded'
<1>1. /\ Cardinality(slots') <= Cardinality(slots)
      /\ IsFiniteSet(slots')
  BY SlotCounts, FS_Subset DEF SlotInv
<1>2. Cardinality(slots') \in Nat /\ Cardinality(slots) \in Nat
  BY <1>1, SlotCounts, FS_CardinalityType DEF SlotInv
<1>3. others \in Nat
  BY DEF SlotInv, SlotTypes
<1> QED BY <1>1, <1>2, <1>3 DEF SlotInv, SlotsBounded

SlotMove ==
  \/ UNCHANGED <<slots, queued, others>> /\ cancelled' \subseteq Hosts
  \/ \E c \in Hosts : Slot(c) \/ Retire(c) \/ Acquire(c) \/ Dequeue(c)
                       \/ ReturnSlot(c)
  \/ OtherLeaves

LEMMA SlotMoves ==
  ASSUME SlotInv, HubTypes, SlotMove, revoked' \subseteq Devices
  PROVE  SlotInv'
<1> USE DEF SlotInv, SlotTypes
<1>1. others \in Nat /\ others <= HostsMax
  OBVIOUS
<1>2. CASE UNCHANGED <<slots, queued, others>> /\ cancelled' \subseteq Hosts
  BY <1>1, <1>2, KeepsSlots
<1>3. ASSUME NEW c \in Hosts, Slot(c) PROVE SlotInv'
  <2>1. Free > 0
    BY <1>1, <1>3, SlotCounts DEF Slot, TrySlot, Free
  <2>2. SlotsBounded'
    BY <1>3, <2>1, TakesSlot DEF Slot
  <2> QED BY <1>3, <2>2 DEF Slot
<1>4. ASSUME NEW c \in Hosts, Acquire(c) PROVE SlotInv'
  <2>1. SlotsBounded'
    BY <1>4, TakesSlot DEF Acquire
  <2> QED BY <1>4, <2>1 DEF Acquire
<1>5. ASSUME NEW c \in Hosts, Retire(c) PROVE SlotInv'
  <2>1. SlotsBounded'
    BY <1>1, <1>5, KeepsSlots DEF Retire
  <2> QED BY <1>5, <2>1 DEF Retire, HubTypes
<1>6. ASSUME NEW c \in Hosts, Dequeue(c) \/ ReturnSlot(c) PROVE SlotInv'
  <2>1. SlotsBounded'
    BY <1>1, <1>6, KeepsSlots DEF Dequeue, ReturnSlot
  <2> QED BY <1>6, <2>1 DEF Dequeue, ReturnSlot
<1>7. CASE OtherLeaves
  <2>1. others' \in Nat /\ others' <= others /\ others' \in 0 .. HostsMax
    BY <1>1, <1>7 DEF OtherLeaves
  <2>2. SlotsBounded'
    BY <1>7, <2>1, KeepsSlots DEF OtherLeaves
  <2> QED BY <1>7, <2>1, <2>2 DEF OtherLeaves
<1> QED BY <1>2, <1>3, <1>4, <1>5, <1>6, <1>7 DEF SlotMove

LEMMA SlotsHold ==
  ASSUME SlotInv, HubTypes, [Next]_vars
  PROVE  SlotInv'
<1> USE DEF HubTypes
<1>0. cancelled \subseteq Hosts /\ revoked \subseteq Devices
  BY DEF SlotInv, SlotTypes
<1>1. CASE TakesIn \/ PutsOut \/ Elsewhere \/ UNCHANGED vars
  <2>1. SlotMove /\ revoked' = revoked
    BY <1>0, <1>1
    DEF TakesIn, PutsOut, Elsewhere, vars, hubVars, SlotMove
  <2> QED BY <1>0, <2>1, SlotMoves
<1>2. ASSUME NEW d \in Devices, Revokes(d) PROVE SlotInv'
  <2>1. SlotMove /\ revoked' \subseteq Devices
    BY <1>0, <1>2 DEF Revokes, Cancels, SlotMove, SlotInv, SlotTypes
  <2> QED BY <2>1, SlotMoves
<1>3. ASSUME NEW c \in Conns, SocketNext(c) PROVE SlotInv'
  <2>1. SlotMove /\ revoked' = revoked
    BY <1>0, <1>3
    DEF SocketNext, Arrives, Ages, HttpEnds, SealedDoor, Dials, Fails, Proves,
        TakesSeat, SessionEnds, hubVars, SlotMove
  <2> QED BY <1>0, <2>1, SlotMoves
<1>4. ASSUME NEW c \in Hosts, HostNext(c) PROVE SlotInv'
  <2>1. SlotMove /\ revoked' = revoked
    BY <1>0, <1>4
    DEF HostNext, StandsIn, GetsSlot, StopsReplacing, Registers, Register,
        RegistersNot, RefusesDesk, Serves, HostEnds, Unregister, Leaves,
        hubVars, SlotMove
  <2> QED BY <1>0, <2>1, SlotMoves
<1>5. ASSUME NEW v \in Visitors, VisitorNext(v) PROVE SlotInv'
  <2>1. SlotMove /\ revoked' = revoked
    BY <1>0, <1>5
    DEF VisitorNext, RelayDoor, Visit, Upgraded, NotUpgraded, Drops, Arrive,
        Waits, Notify, Notifies, WaitExpires, hubVars, SlotMove
  <2> QED BY <1>0, <2>1, SlotMoves
<1>6. ASSUME NEW c \in Callbacks, CallbackNext(c) PROVE SlotInv'
  <2>1. SlotMove /\ revoked' = revoked
    BY <1>0, <1>6
    DEF CallbackNext, Accept, Claim, Takes, ClaimsStale, Drops, Joins,
        NotJoined, JoinEnds, hubVars, SlotMove
  <2> QED BY <1>0, <2>1, SlotMoves
<1> QED BY <1>1, <1>2, <1>3, <1>4, <1>5, <1>6 DEF Next
-----------------------------------------------------------------------------
BoundInv == /\ PoolFits /\ Fresh /\ PermitTypes
            /\ SlotInv
            /\ VisitsBounded

LEMMA BoundStart == Init => BoundInv
<1> SUFFICES ASSUME Init PROVE BoundInv
  OBVIOUS
<1> USE DEF Init, AdmissionInit, HubInit
<1>1. pool = <<>> /\ Range(pool) = {}
  BY DEF Range
<1>2. pool \in Seq(Conns) /\ NoRepeats(pool) /\ Pendings = {}
  BY <1>1 DEF NoRepeats, Pendings
<1>3. (\A d \in Devices : Seated(d) = {}) /\ AllSeated = {}
  BY <1>1 DEF Seated, AllSeated
<1>4. \A ip : PendingsFrom(ip) = {}
  BY <1>2 DEF PendingsFrom
<1>5. Cardinality({}) = 0
  BY FS_EmptySet
<1>6. WithinBounds
  <2>1. Cardinality(Pendings) <= PendingMax
    BY <1>2, <1>5
  <2>2. \A ip \in Range(Ip) : Cardinality(PendingsFrom(ip)) <= PendingPerIp
    <3> TAKE ip \in Range(Ip)
    <3>1. PendingsFrom(ip) = {}
      BY <1>4
    <3>2. Cardinality(PendingsFrom(ip)) = 0
      BY <1>5, <3>1, ZenonT(60)
    <3> QED BY <3>2
  <2>3. \A d \in Devices : Cardinality(Seated(d)) <= AuthenticatedPerDevice
    <3> TAKE d \in Devices
    <3>1. Seated(d) = {}
      BY <1>3
    <3>2. Cardinality(Seated(d)) = 0
      BY <1>5, <3>1, ZenonT(60)
    <3> QED BY <3>2
  <2>4. Cardinality(AllSeated) <= AuthenticatedMax
    BY <1>3, <1>5
  <2> QED BY <2>1, <2>2, <2>3, <2>4 DEF WithinBounds, AllSeated
<1>7. PoolFits /\ Fresh /\ PermitTypes
  BY <1>1, <1>2, <1>6 DEF PoolFits, PoolTypes, Fresh, PermitTypes
<1>8. SlotInv
  <2>1. others \in 0 .. HostsMax /\ Cardinality(slots) = 0
    BY <1>5
  <2> QED BY <2>1 DEF SlotInv, SlotTypes, SlotsBounded
<1>9. VisitsBounded
  <2>1. Visiting = {}
    BY DEF Visiting
  <2> QED BY <1>5, <2>1 DEF VisitsBounded
<1> QED BY <1>7, <1>8, <1>9 DEF BoundInv

LEMMA BoundHolds ==
  ASSUME BoundInv, HubInv, Holding, [Next]_vars
  PROVE  BoundInv'
<1>1. HubTypes /\ pool \in Seq(Conns)
  BY DEF HubInv, BoundInv, PoolFits, PoolTypes
<1>2. PoolStep /\ AtStep
  BY <1>1, EveryPoolStep, EveryAtStep
<1>3. PoolFits' /\ Fresh'
  BY <1>1, <1>2, StepFits, StepFresh DEF BoundInv
<1>4. PermitTypes'
  BY <1>1, TypesStep DEF BoundInv
<1>5. SlotInv' /\ VisitsBounded'
  BY <1>1, SlotsHold, VisitsHold DEF BoundInv
<1> QED BY <1>3, <1>4, <1>5 DEF BoundInv

(* Nothing grows past its limit: the admission pool and its parts, the     *)
(* slots of the controls, and a desk's visits.                             *)
THEOREM DeskStaysBounded == Spec => []Bounded
<1>1. BoundInv /\ HubInv => Bounded
  <2> SUFFICES ASSUME BoundInv, HubInv PROVE Bounded
    OBVIOUS
  <2>1. Range(pool) \subseteq Conns
    BY DEF BoundInv, PoolFits, PoolTypes, Range
  <2>2. TypeOK
    BY <2>1
    DEF TypeOK, BoundInv, PoolFits, PoolTypes, PermitTypes, SlotInv,
        SlotTypes, HubInv, HubTypes
  <2> QED BY <2>2 DEF Bounded, BoundInv, PoolFits, SlotInv
<1>2. HubInv /\ Holding /\ BoundInv /\ [Next]_vars => BoundInv'
  BY BoundHolds
<1>3. HubInv => HubTypes
  BY DEF HubInv
<1> QED
  BY <1>1, <1>2, <1>3, BoundStart, HubStart, Held, HubHolds, HoldingHolds, PTL
  DEF Spec
=============================================================================
