---------------------------- MODULE DmTurnsProofs ----------------------------
(***************************************************************************)
(* Proofs about DmTurns, for any number of callers, tasks, lines, starts   *)
(* and lines of others: the queue is driven by exactly one, no line of the *)
(* person's is lost unaccounted over a stop and the next start, and the    *)
(* agent hears what was typed in the order it was said.                    *)
(*                                                                         *)
(* The invariants are proved one on top of the other.  TypeInv: types.     *)
(* QueueInv: the claim on the queue.  GateInv: the start gate.  TasksInv:  *)
(* the tasks, and who is coming back for a line.  SaidInv: whatever is     *)
(* held was said.  StopInv: a stop and a resume.  LostInv: where each line *)
(* is.  OrderInv: the order of all that is held.                           *)
(***************************************************************************)
EXTENDS DmTurns, FiniteSetTheorems, WellFoundedInduction, SequenceTheorems,
        TLAPS

(* Induction over the numbers, for a set of them: a set that is not empty  *)
(* has a least member, and one that holds 0 and each successor holds all.  *)
LEMMA LeastNat ==
  ASSUME NEW T, T \subseteq Nat, T # {}
  PROVE  \E x \in T : \A y \in T : x <= y
<1> DEFINE R == OpToRel(<, Nat)
<1>1. IsWellFoundedOn(R, Nat)
  BY NatLessThanWellFounded
<1> HIDE DEF R
<1>2. PICK x \in T : \A y \in T : ~(<<y, x>> \in R)
  BY <1>1, WFMin
<1>3. \A a, b \in Nat : a < b => <<a, b>> \in R
  BY DEF R, OpToRel
<1>4. \A y \in T : ~(y < x)
  BY <1>2, <1>3
<1> QED BY <1>4

LEMMA UpTo ==
  ASSUME NEW N \in Nat, NEW Q, 0 \in Q,
         \A n \in Nat : n < N /\ n \in Q => n + 1 \in Q
  PROVE  \A n \in 0..N : n \in Q
<1> DEFINE T == {n \in 0..N : n \notin Q}
<1>1. SUFFICES ASSUME T # {} PROVE FALSE
  OBVIOUS
<1>2. PICK x \in T : \A y \in T : x <= y
  <2>1. T \subseteq Nat
    OBVIOUS
  <2> QED BY <1>1, <2>1, LeastNat
<1>3. x - 1 \in Nat /\ x - 1 < N /\ x - 1 < x /\ x - 1 \in 0..N /\ x = (x - 1) + 1
  <2>1. x # 0
    OBVIOUS
  <2> QED BY <2>1
<1>4. x - 1 \in Q
  BY <1>2, <1>3
<1>5. x \in Q
  BY <1>3, <1>4
<1> QED BY <1>5
-----------------------------------------------------------------------------
(* What Filter computes, step by step along the sequence.                  *)
FilterStep(s, T, n, before) ==
  IF s[n] \in T THEN Append(before, s[n]) ELSE before

Filtering(s, T, m, f) ==
  /\ f = [n \in 0..m |-> f[n]]
  /\ f[0] = <<>>
  /\ \A n \in 1..m : f[n] = FilterStep(s, T, n, f[n - 1])

(* The function that Filter is defined by exists, and it is what Filter    *)
(* returns.                                                                *)
LEMMA FilteringExists ==
  ASSUME NEW s, NEW T, NEW N \in Nat
  PROVE  \E f : Filtering(s, T, N, f)
<1> DEFINE Q == {m \in Nat : \E f : Filtering(s, T, m, f)}
<1>1. 0 \in Q
  <2>1. Filtering(s, T, 0, [n \in 0..0 |-> <<>>])
    BY DEF Filtering
  <2>2. \E f : Filtering(s, T, 0, f)
    BY <2>1
  <2> QED BY <2>2
<1>2. ASSUME NEW m \in Nat, m \in Q
      PROVE  m + 1 \in Q
  <2>1. PICK f : Filtering(s, T, m, f)
    BY <1>2
  <2> DEFINE g == [n \in 0..(m + 1) |-> IF n = m + 1 THEN FilterStep(s, T, n, f[m])
                                        ELSE f[n]]
  <2>2. g = [n \in 0..(m + 1) |-> g[n]]
    OBVIOUS
  <2>3. g[0] = <<>>
    BY <2>1 DEF Filtering
  <2>4. ASSUME NEW n \in 1..(m + 1)
        PROVE  g[n] = FilterStep(s, T, n, g[n - 1])
    <3>1. g[n - 1] = f[n - 1]
      OBVIOUS
    <3>2. CASE n = m + 1
      <4>1. g[n] = FilterStep(s, T, n, f[m]) /\ n - 1 = m
        BY <3>2
      <4> QED BY <4>1, <3>1
    <3>3. CASE n # m + 1
      <4>1. n \in 1..m /\ g[n] = f[n]
        BY <3>3
      <4>2. f[n] = FilterStep(s, T, n, f[n - 1])
        BY <4>1, <2>1 DEF Filtering
      <4> QED BY <4>1, <4>2, <3>1
    <3> QED BY <3>2, <3>3
  <2> HIDE DEF g
  <2>5. Filtering(s, T, m + 1, g)
    BY <2>2, <2>3, <2>4 DEF Filtering
  <2>6. \E h : Filtering(s, T, m + 1, h)
    BY <2>5
  <2> QED BY <2>6
<1> HIDE DEF Q
<1>3. \A n \in 0..N : n \in Q
  BY <1>1, <1>2, UpTo
<1> QED BY <1>3 DEF Q

LEMMA FilterSteps ==
  ASSUME NEW S, NEW s \in Seq(S), NEW T
  PROVE  \E f : Filtering(s, T, Len(s), f) /\ Filter(s, T) = f[Len(s)]
<1> DEFINE Of(f) == f = [n \in 0..Len(s) |-> IF n = 0 THEN <<>>
                             ELSE IF s[n] \in T THEN Append(f[n - 1], s[n])
                             ELSE f[n - 1]]
<1>n. Len(s) \in Nat
  OBVIOUS
<1>1. PICK h : Filtering(s, T, Len(s), h)
  BY <1>n, FilteringExists
<1>2. \A n \in 0..Len(s) :
        h[n] = IF n = 0 THEN <<>>
               ELSE IF s[n] \in T THEN Append(h[n - 1], s[n]) ELSE h[n - 1]
  <2>1. h[0] = <<>>
    BY <1>1 DEF Filtering
  <2>2. ASSUME NEW n \in 0..Len(s), n # 0
        PROVE  h[n] = IF s[n] \in T THEN Append(h[n - 1], s[n]) ELSE h[n - 1]
    <3>1. n \in 1..Len(s)
      BY <1>n, <2>2
    <3>2. h[n] = FilterStep(s, T, n, h[n - 1])
      BY <1>1, <3>1 DEF Filtering
    <3> QED BY <3>2 DEF FilterStep
  <2> QED BY <2>1, <2>2
<1>3. Of(h)
  <2>1. h = [n \in 0..Len(s) |-> h[n]]
    BY <1>1 DEF Filtering
  <2>2. [n \in 0..Len(s) |-> h[n]]
          = [n \in 0..Len(s) |-> IF n = 0 THEN <<>>
               ELSE IF s[n] \in T THEN Append(h[n - 1], s[n]) ELSE h[n - 1]]
    BY <1>2
  <2> QED BY <2>1, <2>2
<1> DEFINE g == CHOOSE f : Of(f)
<1>4. Filter(s, T) = g[Len(s)]
  BY DEF Filter
<1>5. Of(g)
  BY <1>3
<1> HIDE DEF g
<1>6. g = [n \in 0..Len(s) |-> g[n]]
  BY <1>5
<1>7. g[0] = <<>>
  BY <1>5, <1>n
<1>8. ASSUME NEW n \in 1..Len(s)
      PROVE  g[n] = FilterStep(s, T, n, g[n - 1])
  <2>1. n \in 0..Len(s) /\ n # 0
    BY <1>n
  <2>2. g[n] = IF s[n] \in T THEN Append(g[n - 1], s[n]) ELSE g[n - 1]
    BY <1>5, <2>1
  <2> QED BY <2>2 DEF FilterStep
<1> QED BY <1>4, <1>6, <1>7, <1>8 DEF Filtering

(* What t has of the first n of s: those in T, and two of them in the      *)
(* order they have there.                                                  *)
Picks(t, s, n, T) ==
  /\ \A i \in 1..Len(t) : t[i] \in T /\ \E a \in 1..n : s[a] = t[i]
  /\ \A a \in 1..n : s[a] \in T => \E i \in 1..Len(t) : t[i] = s[a]
  /\ \A i, j \in 1..Len(t) :
       i < j => \E a, b \in 1..n : a < b /\ s[a] = t[i] /\ s[b] = t[j]

LEMMA PicksMore ==
  ASSUME NEW S, NEW s \in Seq(S), NEW T, NEW n \in 1..Len(s),
         NEW t \in Seq(S), Picks(t, s, n - 1, T)
  PROVE  /\ FilterStep(s, T, n, t) \in Seq(S)
         /\ Picks(FilterStep(s, T, n, t), s, n, T)
<1>n. n \in Nat /\ n - 1 \in Nat /\ s[n] \in S /\ n \in 1..n
      /\ \A a \in 1..(n - 1) : a \in 1..n /\ a < n
  OBVIOUS
<1>m. \A a \in 1..n : a = n \/ a \in 1..(n - 1)
  BY <1>n
<1>1. CASE s[n] \notin T
  <2>1. FilterStep(s, T, n, t) = t
    BY <1>1 DEF FilterStep
  <2>2. \A i \in 1..Len(t) : t[i] \in T /\ \E a \in 1..n : s[a] = t[i]
    BY <1>n DEF Picks
  <2>3. \A a \in 1..n : s[a] \in T => \E i \in 1..Len(t) : t[i] = s[a]
    BY <1>m, <1>1 DEF Picks
  <2>4. \A i, j \in 1..Len(t) :
          i < j => \E a, b \in 1..n : a < b /\ s[a] = t[i] /\ s[b] = t[j]
    BY <1>n DEF Picks
  <2> QED BY <2>1, <2>2, <2>3, <2>4 DEF Picks
<1>2. CASE s[n] \in T
  <2> DEFINE u == Append(t, s[n])
  <2>1. FilterStep(s, T, n, t) = u
    BY <1>2 DEF FilterStep
  <2>2. /\ u \in Seq(S) /\ Len(u) = Len(t) + 1 /\ Len(t) \in Nat
        /\ \A i \in 1..Len(t) : u[i] = t[i]
        /\ u[Len(t) + 1] = s[n]
    BY <1>n
  <2>3. \A i \in 1..Len(u) : i = Len(t) + 1 \/ i \in 1..Len(t)
    BY <2>2
  <2>4. \A i \in 1..Len(t) : i \in 1..Len(u)
    BY <2>2
  <2>5. Len(t) + 1 \in 1..Len(u)
    BY <2>2
  <2> HIDE DEF u
  <2>6. \A i \in 1..Len(u) : u[i] \in T /\ \E a \in 1..n : s[a] = u[i]
    <3>1. \A i \in 1..Len(t) : t[i] \in T /\ \E a \in 1..n : s[a] = t[i]
      BY <1>n DEF Picks
    <3> QED BY <3>1, <2>2, <2>3, <1>2, <1>n
  <2>7. \A a \in 1..n : s[a] \in T => \E i \in 1..Len(u) : u[i] = s[a]
    <3>1. \A a \in 1..(n - 1) : s[a] \in T => \E i \in 1..Len(t) : t[i] = s[a]
      BY DEF Picks
    <3> QED BY <3>1, <1>m, <2>2, <2>4, <2>5
  <2>8. ASSUME NEW i \in 1..Len(u), NEW j \in 1..Len(u), i < j
        PROVE  \E a, b \in 1..n : a < b /\ s[a] = u[i] /\ s[b] = u[j]
    <3>1. i \in 1..Len(t) /\ u[i] = t[i]
      BY <2>2, <2>8
    <3>2. CASE j = Len(t) + 1
      <4>1. PICK a \in 1..(n - 1) : s[a] = t[i]
        BY <3>1 DEF Picks
      <4> QED BY <4>1, <3>1, <3>2, <2>2, <1>n
    <3>3. CASE j \in 1..Len(t)
      <4>1. PICK a, b \in 1..(n - 1) : a < b /\ s[a] = t[i] /\ s[b] = t[j]
        BY <3>1, <3>3, <2>8 DEF Picks
      <4> QED BY <4>1, <3>1, <3>3, <2>2, <1>n
    <3> QED BY <3>2, <3>3, <2>3
  <2> QED BY <2>1, <2>2, <2>6, <2>7, <2>8 DEF Picks
<1> QED BY <1>1, <1>2

(* Filter picks the members of T, each as often and in the order it had.   *)
LEMMA FilterPicks ==
  ASSUME NEW S, NEW s \in Seq(S), NEW T
  PROVE  Filter(s, T) \in Seq(S) /\ Picks(Filter(s, T), s, Len(s), T)
<1>n. Len(s) \in Nat
  OBVIOUS
<1>1. PICK f : Filtering(s, T, Len(s), f) /\ Filter(s, T) = f[Len(s)]
  BY FilterSteps
<1> DEFINE Q == {n \in 0..Len(s) : f[n] \in Seq(S) /\ Picks(f[n], s, n, T)}
<1>2. 0 \in Q
  <2>1. f[0] = <<>>
    BY <1>1 DEF Filtering
  <2>2. Picks(<<>>, s, 0, T)
    BY DEF Picks
  <2>3. f[0] \in Seq(S) /\ Picks(f[0], s, 0, T) /\ 0 \in 0..Len(s)
    BY <2>1, <2>2, <1>n
  <2> QED BY <2>3
<1>3. ASSUME NEW n \in Nat, n < Len(s), n \in Q
      PROVE  n + 1 \in Q
  <2>1. n + 1 \in 1..Len(s) /\ n + 1 \in 0..Len(s) /\ (n + 1) - 1 = n
    BY <1>3, <1>n
  <2>2. f[n + 1] = FilterStep(s, T, n + 1, f[n])
    BY <1>1, <2>1 DEF Filtering
  <2>3. f[n] \in Seq(S) /\ Picks(f[n], s, n, T)
    BY <1>3
  <2>4. f[n + 1] \in Seq(S) /\ Picks(f[n + 1], s, n + 1, T)
    BY <2>1, <2>2, <2>3, PicksMore
  <2> QED BY <2>1, <2>4
<1> HIDE DEF Q
<1>4. Len(s) \in Q
  <2>1. \A n \in 0..Len(s) : n \in Q
    BY <1>2, <1>3, <1>n, UpTo
  <2> QED BY <2>1, <1>n
<1> QED BY <1>1, <1>4 DEF Q

(* What is left of a sequence are its members that are in the set.         *)
LEMMA FilterRange ==
  ASSUME NEW S, NEW s \in Seq(S), NEW T
  PROVE  /\ Filter(s, T) \in Seq(S) /\ Filter(s, T) \in Seq(S \cap T)
         /\ Range(Filter(s, T)) = Range(s) \cap T
<1> DEFINE t == Filter(s, T)
<1>1. t \in Seq(S) /\ Picks(t, s, Len(s), T)
  BY FilterPicks
<1> HIDE DEF t
<1>2. Range(t) = Range(s) \cap T
  <2>1. Range(t) = {t[i] : i \in 1..Len(t)} /\ Range(s) = {s[i] : i \in 1..Len(s)}
    BY <1>1 DEF Range
  <2>2. \A x \in Range(t) : x \in Range(s) /\ x \in T
    BY <1>1, <2>1 DEF Picks
  <2>3. \A x \in Range(s) : x \in T => x \in Range(t)
    BY <1>1, <2>1 DEF Picks
  <2> QED BY <2>2, <2>3
<1>3. t \in Seq(S \cap T)
  <2>1. \A i \in 1..Len(t) : t[i] \in S \cap T
    BY <1>1 DEF Picks
  <2>2. t = [i \in 1..Len(t) |-> t[i]] /\ Len(t) \in Nat
    BY <1>1
  <2> QED BY <2>1, <2>2
<1> QED BY <1>1, <1>2, <1>3 DEF t
-----------------------------------------------------------------------------
(* The types, and two facts they need: a caller that has said its line     *)
(* finds one on the tape, and a resume that is handing one on has it.      *)
Sessions == [alive : BOOLEAN, waiting : Seq(Items), running : BOOLEAN,
             unread : SUBSET Lines, shown : {"ready", "thinking"}]
Drivers == [cancelled : BOOLEAN, byRestart : BOOLEAN, inbox : Seq(Lines)]
Tasks == [pc : RunnerPcs, line : Items]
Resumes == [pc : {"read", "each", "admitted", "gated", "done"},
            todo : Seq(Lines), left : Seq(Lines)]
Stops == [pc : {"off", "drain", "keep", "finish", "cut", "wait", "synced"},
          kept : Seq(Lines), shut : BOOLEAN]

SaidFirst == (\E c \in Callers : caller[c] = "said") => \E l \in Lines : tape[l] # "unsaid"
ResumeHasLine == resume.pc \in {"admitted", "gated"} => resume.todo # <<>>
TypeInv == TypeOK /\ SaidFirst /\ ResumeHasLine

(* What the helpers of the model return.                                   *)
LEMMA LoseTypes ==
  ASSUME TypeOK, NEW S, NEW how \in Fates, Lose(S, how)
  PROVE  fate' \in [Lines -> Fates]
BY DEF TypeOK, Lose

LEMMA LatestIsSaid ==
  ASSUME TypeOK, NEW l \in Lines, tape[l] # "unsaid"
  PROVE  /\ Latest \in Lines /\ tape[Latest] # "unsaid"
         /\ \A k \in (Latest + 1)..MaxLines : tape[k] = "unsaid"
<1> DEFINE T == {MaxLines - k : k \in {m \in Lines : tape[m] # "unsaid"}}
<1>b. MaxLines \in Nat
  BY BoundsAssumption
<1>1. T \subseteq Nat /\ T # {}
  BY <1>b DEF Lines
<1>2. PICK x \in T : \A y \in T : x <= y
  BY <1>1, LeastNat
<1>3. PICK m \in Lines : tape[m] # "unsaid" /\ x = MaxLines - m
  BY <1>2
<1>4. ASSUME NEW k \in (m + 1)..MaxLines
      PROVE  tape[k] = "unsaid"
  <2>1. k \in Lines /\ m \in Int /\ k \in Int /\ k > m
    BY <1>b DEF Lines
  <2>2. CASE tape[k] # "unsaid"
    <3>1. MaxLines - k \in T
      BY <2>1, <2>2
    <3>2. x <= MaxLines - k
      BY <3>1, <1>2
    <3> QED BY <3>2, <1>3, <2>1, <1>b
  <2> QED BY <2>2
<1> HIDE DEF T
<1> QED BY <1>3, <1>4 DEF Latest

LEMMA Widen ==
  ASSUME NEW s \in Seq(Lines)
  PROVE  s \in Seq(Items)
BY SeqMonotonic DEF Items

LEMMA PersonsAreLines ==
  ASSUME NEW s \in Seq(Items)
  PROVE  /\ Persons(s) \in Seq(Lines)
         /\ Range(Persons(s)) = Range(s) \cap Lines
<1>1. Items \cap Lines = Lines
  BY DEF Items
<1> QED BY <1>1, FilterRange DEF Persons

LEMMA KeptAreLines ==
  ASSUME NEW p \in Seq(Lines), NEW s \in Seq(Lines)
  PROVE  /\ Kept(p, s) \in Seq(Lines)
         /\ Range(Kept(p, s)) = Range(p) \cup Range(s)
<1> DEFINE t == Filter(s, Lines \ Range(p))
<1>1. t \in Seq(Lines) /\ Range(t) = Range(s) \cap (Lines \ Range(p))
  BY FilterRange
<1> HIDE DEF t
<1>2. p \o t \in Seq(Lines) /\ Range(p \o t) = Range(p) \cup Range(t)
  BY <1>1, ConcatProperties, RangeConcatenation
<1>3. Range(s) \subseteq Lines
  BY RangeOfSeq
<1>4. Kept(p, s) = p \o t
  BY DEF Kept, t
<1> QED BY <1>1, <1>2, <1>3, <1>4

LEMMA KeepTypes ==
  ASSUME TypeOK, NEW s \in Seq(Lines), KeepPending(s)
  PROVE  file' \in Seq(Lines) /\ fate' \in [Lines -> Fates]
<1>1. file \in Seq(Lines) /\ fate \in [Lines -> Fates] /\ "unwritten" \in Fates
  BY DEF TypeOK, Fates
<1>2. CASE file' = Kept(file, s) /\ UNCHANGED fate
  BY <1>1, <1>2, KeptAreLines
<1>3. CASE Lose(Range(s) \ Range(file), "unwritten") /\ UNCHANGED file
  BY <1>1, <1>3, LoseTypes
<1> QED BY <1>2, <1>3 DEF KeepPending

LEMMA SteeringAreLines ==
  ASSUME NEW s \in Seq(Items)
  PROVE  /\ Steering(s) \in Seq(Lines)
         /\ Range(Steering(s)) = Range(s) \cap (Lines \ Spoken)
<1>1. Items \cap (Lines \ Spoken) \subseteq Lines
  OBVIOUS
<1>2. /\ Steering(s) \in Seq(Items \cap (Lines \ Spoken))
      /\ Range(Steering(s)) = Range(s) \cap (Lines \ Spoken)
  BY FilterRange DEF Steering
<1> QED BY <1>1, <1>2, SeqMonotonic

(* A session, a turn and a task keep their type as they are set.           *)
LEMMA SessionSet ==
  ASSUME NEW s \in Sessions
  PROVE  /\ \A w \in Seq(Items) : [s EXCEPT !.waiting = w] \in Sessions
         /\ [s EXCEPT !.running = TRUE] \in Sessions
         /\ [s EXCEPT !.running = FALSE] \in Sessions
         /\ \A w \in Seq(Items) :
              [s EXCEPT !.waiting = w, !.running = FALSE] \in Sessions
         /\ \A w \in Seq(Items) :
              [s EXCEPT !.alive = FALSE, !.waiting = w] \in Sessions
         /\ \A w \in Seq(Items), u \in SUBSET Lines :
              [s EXCEPT !.waiting = w, !.unread = u] \in Sessions
         /\ \A u \in SUBSET Lines : [s EXCEPT !.unread = u] \in Sessions
         /\ \A h \in {"ready", "thinking"}, u \in SUBSET Lines :
              [s EXCEPT !.shown = h, !.unread = u] \in Sessions
         /\ \A h \in {"ready", "thinking"} : [s EXCEPT !.shown = h] \in Sessions
<1>1. \A w \in Seq(Items) : [s EXCEPT !.waiting = w] \in Sessions
  BY DEF Sessions
<1>2. [s EXCEPT !.running = TRUE] \in Sessions
  BY DEF Sessions
<1>3. [s EXCEPT !.running = FALSE] \in Sessions
  BY DEF Sessions
<1>4. \A w \in Seq(Items) :
        [s EXCEPT !.waiting = w, !.running = FALSE] \in Sessions
  BY DEF Sessions
<1>5. \A w \in Seq(Items) :
        [s EXCEPT !.alive = FALSE, !.waiting = w] \in Sessions
  BY DEF Sessions
<1>6. \A w \in Seq(Items), u \in SUBSET Lines :
        [s EXCEPT !.waiting = w, !.unread = u] \in Sessions
  BY DEF Sessions
<1>7. \A u \in SUBSET Lines : [s EXCEPT !.unread = u] \in Sessions
  BY DEF Sessions
<1>8. \A h \in {"ready", "thinking"}, u \in SUBSET Lines :
        [s EXCEPT !.shown = h, !.unread = u] \in Sessions
  BY DEF Sessions
<1>9. \A h \in {"ready", "thinking"} : [s EXCEPT !.shown = h] \in Sessions
  BY DEF Sessions
<1> QED BY <1>1, <1>2, <1>3, <1>4, <1>5, <1>6, <1>7, <1>8, <1>9

(* Each step keeps the types: one lemma for each group of actions.         *)
LEMMA RunnerSet ==
  ASSUME NEW f \in [Runners -> Tasks], NEW r \in Runners
  PROVE  /\ \A pc \in RunnerPcs : [f EXCEPT ![r].pc = pc] \in [Runners -> Tasks]
         /\ \A t \in Tasks : [f EXCEPT ![r] = t] \in [Runners -> Tasks]
         /\ f[r] \in Tasks /\ f[r].line \in Items /\ f[r].pc \in RunnerPcs
BY DEF Tasks

LEMMA SpawnTypes ==
  ASSUME TypeOK, NEW r \in Runners, NEW item \in Items, Spawn(r, item)
  PROVE  runner' \in [Runners -> Tasks]
<1>1. [pc |-> "loop", line |-> item] \in Tasks
  BY DEF Tasks, RunnerPcs
<1>2. runner \in [Runners -> Tasks]
  BY DEF TypeOK, Tasks
<1> QED BY <1>1, <1>2, RunnerSet DEF Spawn

LEMMA ClaimTypes ==
  ASSUME TypeOK, NEW item \in Items, Claim(item)
  PROVE  session' \in Sessions /\ runner' \in [Runners -> Tasks]
<1>1. CASE /\ session.running
           /\ session' = [session EXCEPT !.waiting = Append(@, item)]
           /\ UNCHANGED runner
  <2>1. session \in Sessions /\ session.waiting \in Seq(Items)
    BY DEF TypeOK, Sessions
  <2>2. Append(session.waiting, item) \in Seq(Items)
    BY <2>1
  <2> QED BY <1>1, <2>1, <2>2, SessionSet DEF TypeOK, Tasks
<1>2. CASE /\ ~session.running
           /\ session' = [session EXCEPT !.running = TRUE]
           /\ \E r \in Runners : Spawn(r, item)
  <2>1. session \in Sessions
    BY DEF TypeOK, Sessions
  <2> QED BY <1>2, <2>1, SessionSet, SpawnTypes
<1> QED BY <1>1, <1>2 DEF Claim

LEMMA DispatchTypes ==
  ASSUME TypeOK, NEW item \in Items, Dispatch(item)
  PROVE  /\ file' \in Seq(Lines) /\ fate' \in [Lines -> Fates]
         /\ session' \in Sessions /\ runner' \in [Runners -> Tasks]
<1>1. CASE closing
  <2>1. <<item>> \in Seq(Items)
    OBVIOUS
  <2>2. Persons(<<item>>) \in Seq(Lines)
    BY <2>1, PersonsAreLines
  <2>3. KeepPending(Persons(<<item>>)) /\ UNCHANGED <<session, runner>>
    BY <1>1 DEF Dispatch
  <2>4. file' \in Seq(Lines) /\ fate' \in [Lines -> Fates]
    BY <2>2, <2>3, KeepTypes
  <2> QED BY <2>3, <2>4 DEF TypeOK, Sessions, Tasks
<1>2. CASE ~closing
  BY <1>2, ClaimTypes DEF Dispatch, TypeOK
<1> QED BY <1>1, <1>2

(* What each action sets keeps its type, and its two companions.           *)
LEMMA CallerTypes ==
  ASSUME TypeInv, NEW c \in Callers, Ask(c) \/ CallerStep(c)
  PROVE  TypeInv'
<1>t. TypeOK /\ SaidFirst /\ ResumeHasLine
  BY DEF TypeInv
<1>1. CASE Ask(c)
  BY <1>t, <1>1 DEF TypeInv, TypeOK, SaidFirst, ResumeHasLine, Ask, ghosts, told, era
<1>2. CASE Enter(c)
  <2>1. /\ gate' \in Callers \cup {None, "resume"}
        /\ caller' \in [Callers -> {"idle", "asked", "gated", "said", "claimed"}]
        /\ \A d \in Callers : caller'[d] = "said" => caller[d] = "said"
    BY <1>t, <1>2 DEF TypeOK, Enter
  <2>2. UNCHANGED <<tape, file, session, driver, runner, resume, stop, others,
                    era, ghosts>>
    BY <1>2 DEF Enter
  <2> QED BY <1>t, <2>1, <2>2
      DEF TypeInv, TypeOK, SaidFirst, ResumeHasLine, ghosts, told, era
<1>3. CASE Say(c)
  BY <1>t, <1>3 DEF TypeInv, TypeOK, SaidFirst, ResumeHasLine, Say, ghosts, told, era
<1>4. CASE Refuse(c)
  BY <1>t, <1>4 DEF TypeInv, TypeOK, SaidFirst, ResumeHasLine, Refuse, Leave, ghosts, told, era
<1>5. CASE HandOver(c)
  <2>1. Latest \in Items
    BY <1>t, <1>5, LatestIsSaid DEF SaidFirst, HandOver, Items
  <2>2. Dispatch(Latest)
    BY <1>5 DEF HandOver
  <2>3. /\ file' \in Seq(Lines) /\ fate' \in [Lines -> Fates]
        /\ session' \in Sessions /\ runner' \in [Runners -> Tasks]
    BY <1>t, <2>1, <2>2, DispatchTypes
  <2>4. Leave(c) /\ UNCHANGED <<tape, driver, resume, stop, others, era, told>>
    BY <1>5 DEF HandOver
  <2> QED BY <1>t, <2>3, <2>4
      DEF TypeInv, TypeOK, SaidFirst, ResumeHasLine, Leave, ghosts, told, era, Sessions, Tasks
<1>6. CASE Deliver(c)
  <2>1. Other \in Items
    BY DEF Items
  <2>2. Dispatch(Other)
    BY <1>6 DEF Deliver
  <2>3. /\ file' \in Seq(Lines) /\ fate' \in [Lines -> Fates]
        /\ session' \in Sessions /\ runner' \in [Runners -> Tasks]
    BY <1>t, <2>1, <2>2, DispatchTypes
  <2>4. /\ Leave(c) /\ UNCHANGED <<tape, driver, resume, stop, era, told>>
        /\ others < MaxOthers /\ others' = others + 1
    BY <1>6 DEF Deliver
  <2> QED BY <1>t, <2>3, <2>4, BoundsAssumption
      DEF TypeInv, TypeOK, SaidFirst, ResumeHasLine, Leave, ghosts, told, era, Sessions, Tasks
<1>7. CASE ClaimIdle(c)
  <2>0. session \in Sessions
    BY <1>t DEF TypeOK, Sessions
  <2>1. session' \in Sessions
    <3>1. session' = session \/ session' = [session EXCEPT !.running = TRUE]
      BY <1>7 DEF ClaimIdle
    <3> QED BY <2>0, <3>1, SessionSet
  <2>2. /\ others < MaxOthers /\ others' = others + 1
        /\ UNCHANGED <<tape, file, driver, runner, resume, stop, era, ghosts>>
    BY <1>7 DEF ClaimIdle, Leave
  <2>3. Leave(c) \/ (caller' = [caller EXCEPT ![c] = "claimed"] /\ UNCHANGED gate)
    BY <1>7 DEF ClaimIdle
  <2>4. /\ caller' \in [Callers -> {"idle", "asked", "gated", "said", "claimed"}]
        /\ gate' \in Callers \cup {None, "resume"}
        /\ \A d \in Callers : caller'[d] = "said" => caller[d] = "said"
    BY <1>t, <2>3, ZenonT(60) DEF TypeOK, Leave
  <2>5. others' \in 0..MaxOthers
    BY <1>t, <2>2, BoundsAssumption DEF TypeOK
  <2> QED BY <1>t, <2>1, <2>2, <2>4, <2>5
      DEF TypeInv, TypeOK, SaidFirst, ResumeHasLine, ghosts, told, era, Sessions
<1>8. CASE DeliverClaimed(c)
  <2>0. session \in Sessions /\ Other \in Items
    BY <1>t DEF TypeOK, Sessions, Items
  <2>1. session' \in Sessions
    <3>1. session' = session \/ session' = [session EXCEPT !.running = FALSE]
      BY <1>8 DEF DeliverClaimed
    <3> QED BY <2>0, <3>1, SessionSet
  <2>2. runner' \in [Runners -> Tasks]
    <3>1. runner' = runner \/ \E r \in Runners : Spawn(r, Other)
      BY <1>8 DEF DeliverClaimed
    <3>2. runner \in [Runners -> Tasks]
      BY <1>t DEF TypeOK, Tasks
    <3> QED BY <1>t, <2>0, <3>1, <3>2, SpawnTypes
  <2>3. /\ refused' \in BOOLEAN
        /\ Leave(c)
        /\ UNCHANGED <<tape, file, driver, resume, stop, others, starts, ghosts>>
    <3>1. refused' = refused \/ refused' = TRUE
      BY <1>8 DEF DeliverClaimed
    <3>2. refused \in BOOLEAN
      BY <1>t DEF TypeOK
    <3> QED BY <1>8, <3>1, <3>2 DEF DeliverClaimed
  <2> QED BY <1>t, <2>1, <2>2, <2>3
      DEF TypeInv, TypeOK, SaidFirst, ResumeHasLine, Leave, ghosts, told, Sessions, Tasks
<1> QED BY <1>1, <1>2, <1>3, <1>4, <1>5, <1>6, <1>7, <1>8 DEF CallerStep

LEMMA NudgeTypes ==
  ASSUME TypeInv, Nudge
  PROVE  TypeInv'
<1>t. TypeOK /\ SaidFirst /\ ResumeHasLine
  BY DEF TypeInv
<1>1. Other \in Items
  BY DEF Items
<1>2. session' \in Sessions /\ runner' \in [Runners -> Tasks]
  <2>1. CASE Claim(Other)
    BY <1>t, <1>1, <2>1, ClaimTypes
  <2>2. CASE /\ session' = [session EXCEPT !.waiting = <<Other>> \o @]
             /\ UNCHANGED runner
    <3>1. session.waiting \in Seq(Items) /\ session \in Sessions
      BY <1>t DEF TypeOK, Sessions
    <3>2. <<Other>> \o session.waiting \in Seq(Items)
      BY <1>1, <3>1
    <3> QED BY <1>t, <2>2, <3>1, <3>2 DEF TypeOK, Sessions, Tasks
  <2> QED BY <2>1, <2>2 DEF Nudge
<1>3. /\ others < MaxOthers /\ others' = others + 1
      /\ UNCHANGED <<tape, file, driver, calls, resume, stop, era, ghosts>>
  BY DEF Nudge
<1> QED BY <1>t, <1>2, <1>3, BoundsAssumption
    DEF TypeInv, TypeOK, SaidFirst, ResumeHasLine, calls, ghosts, told, era, Sessions, Tasks

LEMMA LetGoTypes ==
  ASSUME TypeOK, NEW s \in Seq(Items), LetGo(s)
  PROVE  fate' \in [Lines -> Fates]
BY LoseTypes DEF LetGo, Fates

LEMMA TellTypes ==
  ASSUME TypeOK, NEW item \in Items, Tell(<<item>>)
  PROVE  heard' \in Seq(Lines) /\ taken' \in SUBSET Lines
<1>1. <<item>> \in Seq(Items)
  OBVIOUS
<1>2. /\ Persons(<<item>>) \in Seq(Lines)
      /\ Range(Persons(<<item>>)) = Range(<<item>>) \cap Lines
  BY <1>1, PersonsAreLines
<1>3. heard \in Seq(Lines) /\ taken \in SUBSET Lines
  BY DEF TypeOK
<1>4. heard \o Persons(<<item>>) \in Seq(Lines)
  BY <1>2, <1>3
<1> QED BY <1>2, <1>3, <1>4 DEF Tell

LEMMA AbandonTypes ==
  ASSUME TypeOK, NEW r \in Runners, Abandon(r)
  PROVE  /\ session' \in Sessions /\ runner' \in [Runners -> Tasks]
         /\ fate' \in [Lines -> Fates]
<1>1. session \in Sessions /\ session.waiting \in Seq(Items) /\ <<>> \in Seq(Items)
  BY DEF TypeOK, Sessions
<1>2. runner \in [Runners -> Tasks]
  BY DEF TypeOK, Tasks
<1>3. session' \in Sessions
  BY <1>1, SessionSet DEF Abandon
<1>4. runner' \in [Runners -> Tasks]
  BY <1>2, RunnerSet DEF Abandon, RunnerPcs
<1>5. session.waiting \o <<runner[r].line>> \in Seq(Items)
  BY <1>1, <1>2, RunnerSet
<1> QED BY <1>3, <1>4, <1>5, LetGoTypes DEF Abandon

LEMMA TurnTypes ==
  ASSUME TypeInv, NEW r \in Runners,
         SteerInto(r) \/ Consume(r) \/ Update(r) \/ RunnerStep(r)
  PROVE  TypeInv'
<1>t. TypeOK /\ SaidFirst /\ ResumeHasLine
  BY DEF TypeInv
<1>s. /\ session \in Sessions /\ session.waiting \in Seq(Items)
      /\ session.unread \in SUBSET Lines /\ <<>> \in Seq(Items)
  BY <1>t DEF TypeOK, Sessions
<1>r. /\ runner \in [Runners -> Tasks] /\ runner[r].line \in Items
  BY <1>t DEF TypeOK, Tasks
<1>d. driver \in Drivers /\ driver.inbox \in Seq(Lines) /\ NoTurn \in Drivers
  BY <1>t DEF TypeOK, Drivers, NoTurn
<1>1. CASE LoopTop(r)
  <2>1. /\ session' \in Sessions /\ runner' \in [Runners -> Tasks]
        /\ fate' \in [Lines -> Fates]
    <3>1. CASE Abandon(r)
      BY <1>t, <3>1, AbandonTypes
    <3>2. CASE /\ runner' = [runner EXCEPT ![r].pc = "begin"]
               /\ UNCHANGED <<session, fate>>
      BY <1>t, <1>s, <1>r, <3>2, RunnerSet DEF RunnerPcs, TypeOK
    <3> QED BY <1>1, <3>1, <3>2 DEF LoopTop
  <2>2. UNCHANGED <<tape, file, driver, calls, resume, stop, others, era, told>>
    BY <1>1 DEF LoopTop
  <2> QED BY <1>t, <2>1, <2>2
      DEF TypeInv, TypeOK, SaidFirst, ResumeHasLine, calls, era, told, Sessions, Tasks
<1>2. CASE Begin(r)
  <2>1. /\ session' \in Sessions /\ runner' \in [Runners -> Tasks]
        /\ fate' \in [Lines -> Fates]
    <3>1. CASE Abandon(r)
      BY <1>t, <3>1, AbandonTypes
    <3>2. CASE /\ session' = [session EXCEPT !.shown = "thinking",
                                !.unread = @ \cup ({runner[r].line} \ {Other})]
               /\ runner' = [runner EXCEPT ![r].pc = "begun"]
               /\ UNCHANGED fate
      <4>1. session.unread \cup ({runner[r].line} \ {Other}) \in SUBSET Lines
        BY <1>s, <1>r DEF Items
      <4>2. session' \in Sessions
        BY <1>s, <3>2, <4>1, SessionSet
      <4> QED BY <1>t, <1>r, <3>2, <4>2, RunnerSet DEF RunnerPcs, TypeOK
    <3>3. CASE /\ session' = [session EXCEPT !.shown = "thinking"]
               /\ runner' = [runner EXCEPT ![r].pc = "next"]
               /\ UNCHANGED fate
      <4>2. session' \in Sessions
        BY <1>s, <3>3, SessionSet
      <4> QED BY <1>t, <1>r, <3>3, <4>2, RunnerSet DEF RunnerPcs, TypeOK
    <3> QED BY <1>2, <3>1, <3>2, <3>3 DEF Begin
  <2>2. UNCHANGED <<tape, file, driver, calls, resume, stop, others, era, told>>
    BY <1>2 DEF Begin
  <2> QED BY <1>t, <2>1, <2>2
      DEF TypeInv, TypeOK, SaidFirst, ResumeHasLine, calls, era, told, Sessions, Tasks
<1>3. CASE Prompt(r)
  <2>1. heard' \in Seq(Lines) /\ taken' \in SUBSET Lines
    BY <1>t, <1>r, <1>3, TellTypes DEF Prompt
  <2>2. runner' \in [Runners -> Tasks]
    BY <1>r, <1>3, RunnerSet DEF Prompt, RunnerPcs
  <2>3. /\ driver' \in Drivers
        /\ UNCHANGED <<tape, file, session, calls, resume, stop, others, era,
                       fate>>
    BY <1>d, <1>3 DEF Prompt
  <2> QED BY <1>t, <2>1, <2>2, <2>3
      DEF TypeInv, TypeOK, SaidFirst, ResumeHasLine, calls, era, Drivers, Tasks
<1>4. CASE SteerInto(r)
  <2>1. PICK n \in 1..Len(Steering(session.waiting)) :
          LET given == SubSeq(Steering(session.waiting), 1, n)
          IN /\ session' = [session EXCEPT
                  !.waiting = Behind(@, given),
                  !.unread = @ \cup Range(given)]
             /\ driver' = [driver EXCEPT !.inbox = @ \o given]
    BY <1>4 DEF SteerInto
  <2> DEFINE given == SubSeq(Steering(session.waiting), 1, n)
  <2>2. Steering(session.waiting) \in Seq(Lines)
    BY <1>s, SteeringAreLines
  <2>3. given \in Seq(Lines) /\ Range(given) \subseteq Lines
    <3>1. given \in Seq(Lines)
      BY <2>2, SubSeqProperties
    <3> QED BY <3>1, RangeOfSeq
  <2>4. session' = [session EXCEPT !.waiting = Behind(@, given),
                                   !.unread = @ \cup Range(given)]
    BY <2>1
  <2>5. driver' = [driver EXCEPT !.inbox = @ \o given]
    BY <2>1
  <2> HIDE DEF given
  <2>6. Behind(session.waiting, given) \in Seq(Items)
    BY <1>s, FilterRange DEF Behind
  <2>7. session.unread \cup Range(given) \in SUBSET Lines
    BY <1>s, <2>3
  <2>8. session' \in Sessions
    BY <1>s, <2>4, <2>6, <2>7, SessionSet
  <2>9. driver' \in Drivers
    <3>1. driver.inbox \o given \in Seq(Lines)
      BY <1>d, <2>3, ConcatProperties
    <3> QED BY <1>d, <3>1, <2>5 DEF Drivers
  <2> QED BY <1>t, <1>4, <2>8, <2>9, ZenonT(60)
      DEF TypeInv, TypeOK, SaidFirst, ResumeHasLine, SteerInto, calls, era, ghosts, told,
          Drivers, Sessions
<1>5. CASE Consume(r)
  <2>1. Head(driver.inbox) \in Lines /\ Tail(driver.inbox) \in Seq(Lines)
    BY <1>d, <1>5, HeadTailProperties DEF Consume
  <2>2. heard' \in Seq(Lines) /\ taken' \in SUBSET Lines
    BY <1>t, <1>5, <2>1, TellTypes DEF Consume, Items
  <2>3. driver' \in Drivers
    BY <1>d, <1>5, <2>1 DEF Consume, Drivers
  <2> QED BY <1>t, <1>5, <2>2, <2>3
      DEF TypeInv, TypeOK, SaidFirst, ResumeHasLine, Consume, calls, era, Drivers
<1>6. CASE Update(r)
  <2>1. session' \in Sessions
    BY <1>s, <1>6, SessionSet DEF Update
  <2>2. tape' \in [Lines -> {"unsaid", "sent", "read"}]
    BY <1>t, <1>6 DEF TypeOK, Update, Read
  <2>3. \A l \in Lines : tape[l] # "unsaid" => tape'[l] # "unsaid"
    BY <1>t, <1>6 DEF Update, Read
  <2> QED BY <1>t, <1>6, <2>1, <2>2, <2>3
      DEF TypeInv, TypeOK, SaidFirst, ResumeHasLine, Update, calls, era, ghosts, told,
          Sessions
<1>7. CASE TurnEnds(r)
  <2>1. driver' \in Drivers /\ runner' \in [Runners -> Tasks]
    BY <1>d, <1>r, <1>7, RunnerSet DEF TurnEnds, RunnerPcs
  <2>3. fate' \in [Lines -> Fates]
    <3>1. \/ fate' = fate
          \/ Lose(Range(driver.inbox), "cut")
          \/ Lose(Range(driver.inbox), "stopped")
      BY <1>7 DEF TurnEnds
    <3>2. "cut" \in Fates /\ "stopped" \in Fates
      BY DEF Fates
    <3> QED BY <1>t, <3>1, <3>2, LoseTypes DEF TypeOK
  <2> QED BY <1>t, <1>7, <2>1, <2>3
      DEF TypeInv, TypeOK, SaidFirst, ResumeHasLine, TurnEnds, calls, era, told,
          Drivers, Tasks
<1>8. CASE End(r)
  <2>1. driver' \in Drivers /\ runner' \in [Runners -> Tasks]
    BY <1>d, <1>r, <1>8, RunnerSet DEF End, RunnerPcs
  <2>2. /\ file' \in Seq(Lines) /\ fate' \in [Lines -> Fates]
        /\ session' \in Sessions
    <3>1. CASE KeepPending(driver.inbox) /\ UNCHANGED session
      BY <1>t, <1>d, <1>s, <3>1, KeepTypes DEF TypeOK
    <3>2. CASE /\ session' = [session EXCEPT !.waiting = driver.inbox \o @]
               /\ UNCHANGED <<file, fate>>
      <4>1. driver.inbox \o session.waiting \in Seq(Items)
        BY <1>d, <1>s, Widen
      <4> QED BY <1>t, <1>s, <3>2, <4>1, SessionSet DEF TypeOK
    <3> QED BY <1>8, <3>1, <3>2 DEF End
  <2> QED BY <1>t, <1>8, <2>1, <2>2
      DEF TypeInv, TypeOK, SaidFirst, ResumeHasLine, End, calls, era, ghosts, told,
          Drivers, Tasks, Sessions
<1>9. CASE NextLine(r)
  <2>1. session' \in Sessions /\ runner' \in [Runners -> Tasks]
    <3>1. CASE /\ session.waiting # <<>>
               /\ session' = [session EXCEPT !.waiting = Tail(@)]
               /\ runner' = [runner EXCEPT ![r] = [pc |-> "loop",
                                                   line |-> Head(session.waiting)]]
      <4>1. Head(session.waiting) \in Items /\ Tail(session.waiting) \in Seq(Items)
        BY <1>s, <3>1, HeadTailProperties
      <4>2. [pc |-> "loop", line |-> Head(session.waiting)] \in Tasks
        BY <4>1 DEF Tasks, RunnerPcs
      <4>3. session' \in Sessions
        BY <1>s, <3>1, <4>1, SessionSet
      <4> QED BY <1>r, <3>1, <4>2, <4>3, RunnerSet
    <3>2. CASE /\ session' = [session EXCEPT !.running = FALSE]
               /\ runner' = [runner EXCEPT ![r].pc = "rest"]
      BY <1>s, <1>r, <3>2, SessionSet, RunnerSet DEF RunnerPcs
    <3> QED BY <1>9, <3>1, <3>2 DEF NextLine
  <2> QED BY <1>t, <1>9, <2>1
      DEF TypeInv, TypeOK, SaidFirst, ResumeHasLine, NextLine, calls, era, ghosts, told,
          Tasks, Sessions
<1>10. CASE Rest(r)
  <2>1. session' \in Sessions
    <3>1. \/ session' = session
          \/ session' = [session EXCEPT !.running = FALSE]
          \/ session' = [session EXCEPT !.shown = "ready"]
      BY <1>10 DEF Rest
    <3> QED BY <1>s, <3>1, SessionSet
  <2>2. Free \in Tasks
    BY DEF Free, Tasks, RunnerPcs, Items
  <2>3. runner' \in [Runners -> Tasks]
    BY <1>r, <1>10, <2>2, RunnerSet DEF Rest
  <2>4. UNCHANGED <<tape, file, driver, calls, resume, stop, others, era, ghosts>>
    BY <1>10 DEF Rest
  <2> QED BY <1>t, <2>1, <2>3, <2>4
      DEF TypeInv, TypeOK, SaidFirst, ResumeHasLine, calls, era, ghosts, told,
          Tasks, Sessions
<1> QED BY <1>1, <1>2, <1>3, <1>4, <1>5, <1>6, <1>7, <1>8, <1>9, <1>10
    DEF RunnerStep

LEMMA CutTurnTypes ==
  ASSUME TypeOK, NEW byRestart \in BOOLEAN, CutTurn(byRestart)
  PROVE  session' \in Sessions /\ driver' \in Drivers
<1>1. session \in Sessions /\ <<>> \in Seq(Items) /\ driver \in Drivers
  BY DEF TypeOK, Sessions, Drivers
<1>2. session' \in Sessions
  BY <1>1, SessionSet DEF CutTurn
<1>3. driver' \in Drivers
  <2>1. CASE driver' = driver
    BY <1>1, <2>1
  <2>2. CASE driver' = [driver EXCEPT !.cancelled = TRUE, !.byRestart = byRestart]
    <3>1. driver' = [cancelled |-> TRUE, byRestart |-> byRestart,
                     inbox |-> driver.inbox]
      BY <1>1, <2>2 DEF Drivers
    <3> QED BY <1>1, <3>1 DEF Drivers
  <2> QED BY <2>1, <2>2 DEF CutTurn
<1> QED BY <1>2, <1>3

LEMMA StopTypes ==
  ASSUME TypeInv, Cancel \/ Revoke \/ Close \/ StopStep
  PROVE  TypeInv'
<1>t. TypeOK /\ SaidFirst /\ ResumeHasLine
  BY DEF TypeInv
<1>s. /\ session \in Sessions /\ session.waiting \in Seq(Items)
      /\ <<>> \in Seq(Items) /\ driver \in Drivers
      /\ stop \in Stops /\ stop.kept \in Seq(Lines)
  BY <1>t DEF TypeOK, Sessions, Drivers, Stops
<1>1. CASE Cancel
  <2>1. session' \in Sessions /\ driver' \in Drivers
    BY <1>t, <1>1, CutTurnTypes DEF Cancel
  <2>2. fate' \in [Lines -> Fates]
    BY <1>t, <1>s, <1>1, LetGoTypes DEF Cancel
  <2> QED BY <1>t, <1>1, <2>1, <2>2
      DEF TypeInv, TypeOK, SaidFirst, ResumeHasLine, Cancel, calls, era, told,
          Sessions, Drivers
<1>2. CASE Revoke
  <2>1. session' \in Sessions
    BY <1>s, <1>2, SessionSet DEF Revoke
  <2>2. driver' \in Drivers
    BY <1>s, <1>2 DEF Revoke, Drivers
  <2>3. fate' \in [Lines -> Fates]
    BY <1>t, <1>s, <1>2, LetGoTypes DEF Revoke
  <2>4. UNCHANGED <<tape, file, calls, runner, resume, stop, others, era, told>>
    BY <1>2 DEF Revoke
  <2>5. TypeOK'
    BY <1>t, <2>1, <2>2, <2>3, <2>4 DEF TypeOK, calls, era, told, Sessions, Drivers
  <2>6. SaidFirst' /\ ResumeHasLine'
    BY <1>t, <2>4 DEF SaidFirst, ResumeHasLine, calls
  <2> QED BY <2>5, <2>6 DEF TypeInv
<1>3. CASE Close
  <2>1. stop' \in Stops
    BY <1>s, <1>3 DEF Close, Stops
  <2> QED BY <1>t, <1>3, <2>1
      DEF TypeInv, TypeOK, SaidFirst, ResumeHasLine, Close, calls, era, ghosts, told, Stops
<1>4. CASE Drain
  <2>1. Persons(session.waiting) \in Seq(Lines)
    BY <1>s, PersonsAreLines
  <2>2. stop' \in Stops
    BY <1>s, <1>4, <2>1 DEF Drain, Stops
  <2>3. session' \in Sessions
    <3>1. session' = session \/ session' = [session EXCEPT !.waiting = <<>>]
      BY <1>4 DEF Drain
    <3> QED BY <1>s, <3>1, SessionSet
  <2>4. UNCHANGED <<tape, file, driver, calls, runner, resume, others, era, ghosts>>
    BY <1>4 DEF Drain
  <2> QED BY <1>t, <2>2, <2>3, <2>4
      DEF TypeInv, TypeOK, SaidFirst, ResumeHasLine, calls, era, ghosts, told, Stops,
          Sessions
<1>5. CASE Keep
  <2>1. stop' \in Stops
    <3>1. <<>> \in Seq(Lines)
      OBVIOUS
    <3> QED BY <1>s, <1>5, <3>1 DEF Keep, Stops
  <2>2. file' \in Seq(Lines) /\ fate' \in [Lines -> Fates]
    BY <1>t, <1>s, <1>5, KeepTypes DEF Keep
  <2> QED BY <1>t, <1>5, <2>1, <2>2
      DEF TypeInv, TypeOK, SaidFirst, ResumeHasLine, Keep, calls, era, ghosts, told, Stops
<1>6. CASE Finish \/ Wait
  <2>1. stop' \in Stops
    <3>1. \/ stop' = [stop EXCEPT !.pc = "synced", !.shut = TRUE]
          \/ stop' = [stop EXCEPT !.pc = "cut"]
          \/ stop' = [stop EXCEPT !.pc = "synced"]
      BY <1>6 DEF Finish, Wait, ShutOut
    <3>2. [stop EXCEPT !.pc = "synced", !.shut = TRUE] \in Stops
      BY <1>s DEF Stops
    <3>3. [stop EXCEPT !.pc = "cut"] \in Stops
      BY <1>s DEF Stops
    <3>4. [stop EXCEPT !.pc = "synced"] \in Stops
      BY <1>s DEF Stops
    <3> QED BY <3>1, <3>2, <3>3, <3>4
  <2>2. UNCHANGED <<tape, file, session, driver, calls, runner, resume, others,
                    era, ghosts>>
    BY <1>6 DEF Finish, Wait
  <2> QED BY <1>t, <2>1, <2>2
      DEF TypeInv, TypeOK, SaidFirst, ResumeHasLine, calls, era, ghosts, told, Stops
<1>7. CASE Cut
  <2>1. stop' \in Stops
    BY <1>s, <1>7 DEF Cut, Stops
  <2>2. session' \in Sessions /\ driver' \in Drivers
    <3>1. CutTurn(TRUE) \/ UNCHANGED <<session, driver>>
      BY <1>7 DEF Cut
    <3> QED BY <1>t, <1>s, <3>1, CutTurnTypes
  <2>3. UNCHANGED <<tape, file, calls, runner, resume, others, era, ghosts>>
    BY <1>7 DEF Cut
  <2> QED BY <1>t, <2>1, <2>2, <2>3
      DEF TypeInv, TypeOK, SaidFirst, ResumeHasLine, calls, era, ghosts, told, Stops,
          Sessions, Drivers
<1> QED BY <1>1, <1>2, <1>3, <1>4, <1>5, <1>6, <1>7 DEF StopStep

LEMMA ResumeTypes ==
  ASSUME TypeInv, ResumeStep
  PROVE  TypeInv'
<1>t. TypeOK /\ SaidFirst /\ ResumeHasLine
  BY DEF TypeInv
<1>s. /\ resume \in Resumes /\ resume.todo \in Seq(Lines)
      /\ resume.left \in Seq(Lines) /\ file \in Seq(Lines)
  BY <1>t DEF TypeOK, Resumes
<1>h. ASSUME resume.todo # <<>>
      PROVE  /\ Head(resume.todo) \in Lines /\ Tail(resume.todo) \in Seq(Lines)
             /\ Leaving(Head(resume.todo)) \in Resumes
             /\ Leaving(Head(resume.todo)).pc = "each"
  <2>1. Head(resume.todo) \in Lines /\ Tail(resume.todo) \in Seq(Lines)
    BY <1>s, <1>h, HeadTailProperties
  <2>2. Append(resume.left, Head(resume.todo)) \in Seq(Lines)
    BY <1>s, <2>1
  <2> QED BY <2>1, <2>2 DEF Leaving, Resumes
<1>1. CASE ResumeRead
  <2>1. resume' \in Resumes /\ resume'.pc \in {"done", "each"}
    BY <1>s, <1>1 DEF ResumeRead, NoResume, Resumes
  <2> QED BY <1>t, <1>1, <2>1
      DEF TypeInv, TypeOK, SaidFirst, ResumeHasLine, ResumeRead, calls, era, ghosts, told,
          Resumes
<1>2. CASE ResumeAdmit
  <2>1. resume.todo # <<>>
    BY <1>2 DEF ResumeAdmit
  <2>2. \/ resume' = [resume EXCEPT !.todo = Tail(@)]
        \/ resume' = Leaving(Head(resume.todo))
        \/ resume' = [resume EXCEPT !.pc = "admitted"]
    BY <1>2 DEF ResumeAdmit
  <2>3. resume' \in Resumes /\ (resume'.pc = "each" \/ resume'.todo # <<>>)
    <3>1. CASE resume' = [resume EXCEPT !.todo = Tail(@)]
      BY <1>s, <1>2, <1>h, <2>1, <3>1 DEF Resumes, ResumeAdmit
    <3>2. CASE resume' = Leaving(Head(resume.todo))
      BY <1>h, <2>1, <3>2
    <3>3. CASE resume' = [resume EXCEPT !.pc = "admitted"]
      BY <1>s, <2>1, <3>3 DEF Resumes
    <3> QED BY <2>2, <3>1, <3>2, <3>3
  <2>4. fate' \in [Lines -> Fates]
    <3>1. "skipped" \in Fates
      BY DEF Fates
    <3> QED BY <1>t, <1>2, <3>1, LoseTypes DEF ResumeAdmit, TypeOK
  <2> QED BY <1>t, <1>2, <2>3, <2>4, SMTT(60)
      DEF TypeInv, TypeOK, SaidFirst, ResumeHasLine, ResumeAdmit, calls, era, ghosts, told,
          Resumes
<1>3. CASE ResumeEnter
  <2>1. resume.todo # <<>>
    BY <1>t, <1>3 DEF ResumeEnter, ResumeHasLine
  <2>2. resume' \in Resumes /\ (resume'.pc = "each" \/ resume'.todo # <<>>)
    <3>1. CASE resume' = Leaving(Head(resume.todo))
      BY <1>h, <2>1, <3>1
    <3>2. CASE resume' = [resume EXCEPT !.pc = "gated"]
      BY <1>s, <2>1, <3>2 DEF Resumes
    <3> QED BY <1>3, <3>1, <3>2 DEF ResumeEnter
  <2>3. gate' \in Callers \cup {None, "resume"}
    BY <1>t, <1>3 DEF ResumeEnter, TypeOK
  <2>4. UNCHANGED <<tape, file, session, driver, caller, runner, stop, others, era,
                    ghosts>>
    BY <1>3 DEF ResumeEnter
  <2> QED BY <1>t, <2>2, <2>3, <2>4
      DEF TypeInv, TypeOK, SaidFirst, ResumeHasLine, era, ghosts, told, Resumes
<1>4. CASE ResumeHandOver
  <2>1. resume.todo # <<>>
    BY <1>t, <1>4 DEF ResumeHandOver, ResumeHasLine
  <2>2. Head(resume.todo) \in Items /\ Dispatch(Head(resume.todo))
    BY <1>4, <1>h, <2>1 DEF Items, ResumeHandOver
  <2>3. /\ file' \in Seq(Lines) /\ session' \in Sessions
        /\ fate' \in [Lines -> Fates] /\ runner' \in [Runners -> Tasks]
    BY <1>t, <2>2, DispatchTypes
  <2>4. resume' \in Resumes /\ resume'.pc = "each"
    BY <1>s, <1>4, <1>h, <2>1 DEF Resumes, ResumeHandOver
  <2>5. /\ gate' = None
        /\ UNCHANGED <<tape, driver, caller, stop, others, era, told>>
    BY <1>4 DEF ResumeHandOver
  <2> QED BY <1>t, <2>3, <2>4, <2>5
      DEF TypeInv, TypeOK, SaidFirst, ResumeHasLine, era, ghosts, told, Resumes, Sessions,
          Tasks
<1>5. CASE ResumeWrite
  <2>1. resume' \in Resumes /\ resume'.pc = "done"
    BY <1>5 DEF ResumeWrite, NoResume, Resumes
  <2>2. file' \in Seq(Lines)
    BY <1>s, <1>5 DEF ResumeWrite
  <2>3. fate' \in [Lines -> Fates]
    <3>1. "overwritten" \in Fates
      BY DEF Fates
    <3> QED BY <1>t, <1>5, <3>1, LoseTypes DEF ResumeWrite, TypeOK
  <2> QED BY <1>t, <1>5, <2>1, <2>2, <2>3
      DEF TypeInv, TypeOK, SaidFirst, ResumeHasLine, ResumeWrite, calls, era, ghosts, told,
          Resumes
<1> QED BY <1>1, <1>2, <1>3, <1>4, <1>5 DEF ResumeStep

LEMMA StartedTypes ==
  ASSUME Started
  PROVE  /\ session' \in Sessions /\ driver' \in Drivers
         /\ gate' \in Callers \cup {None, "resume"}
         /\ caller' = [c \in Callers |-> "idle"]
         /\ runner' \in [Runners -> Tasks]
         /\ resume' \in Resumes /\ resume'.pc = "read"
         /\ stop' \in Stops /\ heard' \in Seq(Lines)
<1>1. /\ Fresh \in Sessions /\ NoTurn \in Drivers /\ Free \in Tasks
      /\ NoStop \in Stops
  BY DEF Fresh, Sessions, NoTurn, Drivers, Free, Tasks, RunnerPcs, Items, NoStop, Stops
<1> QED BY <1>1 DEF Started, Resumes

(* TypeInv holds at the start and after every step.                        *)
LEMMA TypeInvInit == Init => TypeInv
<1> SUFFICES ASSUME Init PROVE TypeInv
  OBVIOUS
<1>1. /\ Fresh \in Sessions /\ NoTurn \in Drivers /\ Free \in Tasks
      /\ NoStop \in Stops /\ NoResume \in Resumes /\ NoResume.pc = "done"
  BY DEF Fresh, Sessions, NoTurn, Drivers, Free, Tasks, RunnerPcs, Items, NoStop, Stops,
         NoResume, Resumes
<1>2. 0 \in 0..MaxOthers /\ 1 \in 1..MaxStarts
  BY BoundsAssumption
<1>3. SaidFirst /\ ResumeHasLine
  BY <1>1 DEF Init, SaidFirst, ResumeHasLine
<1>4. /\ tape \in [Lines -> {"unsaid", "sent", "read"}]
      /\ file \in Seq(Lines) /\ heard \in Seq(Lines)
      /\ gate \in Callers \cup {None, "resume"}
      /\ caller \in [Callers -> {"idle", "asked", "gated", "said", "claimed"}]
      /\ taken \in SUBSET Lines /\ fate \in [Lines -> Fates]
  BY DEF Init, Fates
<1>r. refused \in BOOLEAN
  BY DEF Init
<1>5. /\ session \in Sessions /\ driver \in Drivers
      /\ runner \in [Runners -> Tasks] /\ resume \in Resumes /\ stop \in Stops
      /\ others \in 0..MaxOthers /\ starts \in 1..MaxStarts
  BY <1>1, <1>2 DEF Init
<1>6. TypeOK
  BY <1>4, <1>r, <1>5 DEF TypeOK, Sessions, Drivers, Tasks, Stops, Resumes
<1> QED BY <1>3, <1>6 DEF TypeInv

LEMMA TypeInvStep == TypeInv /\ [Next]_vars => TypeInv'
<1> SUFFICES ASSUME TypeInv, [Next]_vars PROVE TypeInv'
  OBVIOUS
<1>1. CASE \E c \in Callers : Ask(c) \/ CallerStep(c)
  BY <1>1, CallerTypes
<1>2. CASE \E r \in Runners :
             SteerInto(r) \/ Consume(r) \/ Update(r) \/ RunnerStep(r)
  BY <1>2, TurnTypes
<1>3. CASE Nudge
  BY <1>3, NudgeTypes
<1>4. CASE Cancel \/ Revoke \/ Close \/ StopStep
  BY <1>4, StopTypes
<1>5. CASE ResumeStep
  BY <1>5, ResumeTypes
<1>6. CASE Restart
  <2>1. Started
    BY <1>6 DEF Restart
  <2>2. /\ session' \in Sessions /\ driver' \in Drivers
        /\ gate' \in Callers \cup {None, "resume"}
        /\ caller' = [c \in Callers |-> "idle"]
        /\ runner' \in [Runners -> Tasks]
        /\ resume' \in Resumes /\ resume'.pc = "read"
        /\ stop' \in Stops /\ heard' \in Seq(Lines)
    BY <2>1, StartedTypes
  <2>t. TypeOK
    BY DEF TypeInv
  <2>3. starts' \in 1..MaxStarts /\ refused' \in BOOLEAN
    <3>1. starts \in 1..MaxStarts /\ starts < MaxStarts /\ starts' = starts + 1
      BY <1>6, <2>t DEF Restart, TypeOK
    <3>2. starts' \in 1..MaxStarts
      BY <3>1, BoundsAssumption
    <3>3. refused' = FALSE
      BY <1>6 DEF Restart
    <3> QED BY <3>2, <3>3
  <2>4. fate' \in [Lines -> Fates]
    <3>1. "killed" \in Fates
      BY DEF Fates
    <3> QED BY <1>6, <2>t, <3>1, LoseTypes DEF Restart, TypeOK
  <2>5. UNCHANGED <<tape, file, others, taken>>
    BY <1>6 DEF Restart
  <2> QED BY <2>t, <2>2, <2>3, <2>4, <2>5
      DEF TypeInv, TypeOK, SaidFirst, ResumeHasLine, Sessions, Drivers, Tasks, Stops,
          Resumes
<1>7. CASE Off \/ UNCHANGED vars
  BY <1>7 DEF Off, vars, calls, era, ghosts, told, TypeInv, TypeOK, SaidFirst, ResumeHasLine
<1> QED BY <1>1, <1>2, <1>3, <1>4, <1>5, <1>6, <1>7 DEF Next
-----------------------------------------------------------------------------
(* Who holds the claim, and whether a turn is under way.                   *)
Holding(r) == runner[r].pc \notin {"free", "rest"}
Turning == \E r \in Runners : At(r, "begun") \/ At(r, "turn")
Idle == \A r \in Runners : At(r, "free")

(* The queue while the session answers.                                    *)
QueueInv ==
  answering =>
    /\ \A x, y \in Claims : x = y
    /\ session.running => Claims # {}
    /\ Claims # {} => session.running
    /\ ~refused /\ session.waiting # <<>> => session.running
    /\ ~refused /\ Turning => session.shown = "thinking"
    /\ ~refused /\ Claims = {} /\ Idle => session.shown = "ready"

(* What one step of a task does to the tasks.                              *)
LEMMA RunnerAt ==
  ASSUME TypeOK, NEW r \in Runners, NEW pc,
         runner' = [runner EXCEPT ![r].pc = pc]
  PROVE  /\ \A s \in Runners : s # r => runner'[s] = runner[s]
         /\ runner'[r].pc = pc /\ runner'[r].line = runner[r].line
BY DEF TypeOK

LEMMA RunnerIs ==
  ASSUME TypeOK, NEW r \in Runners, NEW t,
         runner' = [runner EXCEPT ![r] = t]
  PROVE  /\ \A s \in Runners : s # r => runner'[s] = runner[s]
         /\ runner'[r] = t
BY DEF TypeOK

LEMMA SessionFields ==
  ASSUME NEW s \in Sessions
  PROVE  /\ s.alive \in BOOLEAN /\ s.running \in BOOLEAN
         /\ s.waiting \in Seq(Items) /\ s.unread \in SUBSET Lines
         /\ s.shown \in {"ready", "thinking"}
         /\ \A w : [s EXCEPT !.waiting = w].waiting = w
         /\ \A w : [s EXCEPT !.waiting = w].alive = s.alive
         /\ \A w : [s EXCEPT !.waiting = w].running = s.running
         /\ \A w : [s EXCEPT !.waiting = w].shown = s.shown
         /\ \A w : [s EXCEPT !.waiting = w].unread = s.unread
BY DEF Sessions

(* A step that leaves the claim alone, files a line only behind a turn,    *)
(* and says thinking only for a turn.                                      *)
LEMMA ClaimStays ==
  ASSUME QueueInv, answering' => answering,
         answering' =>
           /\ session'.running = session.running
           /\ \/ session'.shown = session.shown /\ (Turning' => Turning)
              \/ session'.shown = "thinking" /\ Claims # {}
           /\ session'.waiting # <<>> => session.waiting # <<>> \/ session.running
           /\ refused' = refused
           /\ Claims' = Claims
           /\ Claims = {} /\ Idle' => Idle
  PROVE  QueueInv'
BY DEF QueueInv

LEMMA ClaimTaken ==
  ASSUME NEW x, Claims' = {x}, session'.running = TRUE, ~Turning'
  PROVE  QueueInv'
BY DEF QueueInv

LEMMA ClaimLetGo ==
  ASSUME Claims' = {}, session'.running = FALSE,
         \/ refused'
         \/ session'.waiting = <<>> /\ (Idle' => session'.shown = "ready")
  PROVE  QueueInv'
<1>1. ~Turning'
  BY DEF Turning, At, Claims
<1> QED BY <1>1 DEF QueueInv

(* Tasks that hold the claim before and after, and calls that do.          *)
LEMMA ClaimsSame ==
  ASSUME \A s \in Runners : Holding(s)' <=> Holding(s),
         \A c \in Callers : caller'[c] = "claimed" <=> caller[c] = "claimed"
  PROVE  Claims' = Claims
BY DEF Claims, Holding

(* Each step keeps QueueInv: one lemma for each group of actions.          *)
LEMMA SpawnHolds ==
  ASSUME TypeOK, NEW r \in Runners, NEW item, Spawn(r, item)
  PROVE  /\ ~Holding(r) /\ Holding(r)' /\ ~Idle'
         /\ \A s \in Runners : s # r => (Holding(s)' <=> Holding(s))
         /\ Turning' => Turning
<1>1. /\ \A s \in Runners : s # r => runner'[s] = runner[s]
      /\ runner'[r] = [pc |-> "loop", line |-> item]
  BY RunnerIs DEF Spawn
<1>2. runner[r].pc = "free"
  BY DEF Spawn, At
<1> QED BY <1>1, <1>2 DEF Holding, Idle, Turning, At

(* Filing a line, or claiming the queue for it.                            *)
LEMMA ClaimQueue ==
  ASSUME TypeOK, QueueInv, NEW item \in Items, Claim(item),
         UNCHANGED refused,
         \A c \in Callers : caller'[c] = "claimed" <=> caller[c] = "claimed"
  PROVE  QueueInv'
<1>s. session \in Sessions
  BY DEF TypeOK, Sessions
<1>1. CASE /\ session.running
           /\ session' = [session EXCEPT !.waiting = Append(@, item)]
           /\ UNCHANGED runner
  <2>1. /\ session'.running = session.running /\ session'.shown = session.shown
        /\ session'.alive = session.alive
    BY <1>s, <1>1, SessionFields
  <2>2. Claims' = Claims
    BY <1>1, ClaimsSame DEF Holding
  <2>3. (Turning' <=> Turning) /\ (Idle' <=> Idle)
    BY <1>1 DEF Turning, Idle, At
  <2> QED BY <1>1, <2>1, <2>2, <2>3, ClaimStays DEF answering
<1>2. CASE /\ ~session.running
           /\ session' = [session EXCEPT !.running = TRUE]
           /\ \E r \in Runners : Spawn(r, item)
  <2>1. session'.running = TRUE /\ session'.alive = session.alive
    BY <1>s, <1>2 DEF Sessions
  <2>2. CASE ~answering
    BY <2>1, <2>2 DEF QueueInv, answering
  <2>3. CASE answering
    <3>1. PICK r \in Runners : Spawn(r, item)
      BY <1>2
    <3>2. Claims = {}
      BY <1>2, <2>3 DEF QueueInv
    <3>3. /\ ~Holding(r) /\ Holding(r)'
          /\ \A s \in Runners : s # r => (Holding(s)' <=> Holding(s))
          /\ Turning' => Turning
      BY <3>1, SpawnHolds
    <3>4. Claims' = {r}
      BY <3>2, <3>3 DEF Claims, Holding
    <3>5. ~Turning
      BY <3>2 DEF Turning, Claims, At
    <3> QED BY <2>1, <3>3, <3>4, <3>5, ClaimTaken
  <2> QED BY <2>2, <2>3
<1> QED BY <1>1, <1>2 DEF Claim

LEMMA DispatchQueue ==
  ASSUME TypeOK, QueueInv, NEW item \in Items, Dispatch(item),
         UNCHANGED refused,
         \A c \in Callers : caller'[c] = "claimed" <=> caller[c] = "claimed"
  PROVE  QueueInv'
<1>1. CASE UNCHANGED <<session, runner>>
  <2>1. Claims' = Claims
    BY <1>1, ClaimsSame DEF Holding
  <2>2. (Turning' <=> Turning) /\ (Idle' <=> Idle)
    BY <1>1 DEF Turning, Idle, At
  <2> QED BY <1>1, <2>1, <2>2, ClaimStays DEF answering
<1>2. CASE Claim(item)
  BY <1>2, ClaimQueue
<1> QED BY <1>1, <1>2 DEF Dispatch

(* Nothing the queue is made of changes but what waits, which only grows   *)
(* behind a turn.                                                          *)
LEMMA TasksStay ==
  ASSUME TypeOK, QueueInv, UNCHANGED <<runner, refused>>,
         session'.alive = TRUE => session.alive = TRUE,
         session'.running = session.running, session'.shown = session.shown,
         session'.waiting # <<>> => session.waiting # <<>>,
         \A c \in Callers : caller'[c] = "claimed" <=> caller[c] = "claimed"
  PROVE  QueueInv'
<1>0. answering' => answering
  BY DEF answering
<1>1. Claims' = Claims
  BY ClaimsSame DEF Holding
<1>2. (Turning' <=> Turning) /\ (Idle' <=> Idle)
  BY DEF Turning, Idle, At
<1> QED BY <1>0, <1>1, <1>2, ClaimStays

LEMMA CallerQueue ==
  ASSUME TypeInv, TypeOK, QueueInv, NEW c \in Callers, Ask(c) \/ CallerStep(c)
  PROVE  QueueInv'
<1>s. session \in Sessions
  BY DEF TypeOK, Sessions
<1>c. caller \in [Callers -> {"idle", "asked", "gated", "said", "claimed"}]
  BY DEF TypeOK
<1>1. CASE Ask(c) \/ Enter(c) \/ Say(c) \/ Refuse(c)
  <2>1. \A d \in Callers : caller'[d] = "claimed" <=> caller[d] = "claimed"
    BY <1>c, <1>1 DEF Ask, Enter, Say, Refuse, Leave
  <2>2. UNCHANGED <<session, runner, refused>>
    BY <1>1 DEF Ask, Enter, Say, Refuse, era
  <2> QED BY <2>1, <2>2, TasksStay
<1>2. CASE HandOver(c)
  <2>1. \A d \in Callers : caller'[d] = "claimed" <=> caller[d] = "claimed"
    BY <1>c, <1>2 DEF HandOver, Leave
  <2>2. Latest \in Items
    BY <1>2, LatestIsSaid DEF TypeInv, SaidFirst, HandOver, Items
  <2>3. Dispatch(Latest) /\ UNCHANGED refused
    BY <1>2 DEF HandOver, era
  <2> QED BY <2>1, <2>2, <2>3, DispatchQueue
<1>3. CASE Deliver(c)
  <2>1. \A d \in Callers : caller'[d] = "claimed" <=> caller[d] = "claimed"
    BY <1>c, <1>3 DEF Deliver, Leave
  <2>2. Other \in Items /\ Dispatch(Other) /\ UNCHANGED refused
    BY <1>3 DEF Deliver, era, Items
  <2> QED BY <2>1, <2>2, DispatchQueue
<1>4. CASE ClaimIdle(c)
  <2>1. CASE session.running /\ Leave(c) /\ UNCHANGED session
    <3>1. \A d \in Callers : caller'[d] = "claimed" <=> caller[d] = "claimed"
      BY <1>c, <1>4, <2>1 DEF ClaimIdle, Leave
    <3>2. UNCHANGED <<runner, refused>>
      BY <1>4 DEF ClaimIdle, era
    <3> QED BY <2>1, <3>1, <3>2, TasksStay
  <2>2. CASE /\ ~session.running
             /\ session' = [session EXCEPT !.running = TRUE]
             /\ caller' = [caller EXCEPT ![c] = "claimed"]
    <3>1. session'.running = TRUE /\ session'.alive = session.alive
      BY <1>s, <2>2 DEF Sessions
    <3>2. CASE ~answering
      BY <3>1, <3>2 DEF QueueInv, answering
    <3>3. CASE answering
      <4>1. Claims = {}
        BY <2>2, <3>3 DEF QueueInv
      <4>2. UNCHANGED runner
        BY <1>4 DEF ClaimIdle
      <4>3. caller'[c] = "claimed"
            /\ \A d \in Callers : d # c => caller'[d] = caller[d]
        BY <1>c, <2>2
      <4>4. Claims' = {c}
        BY <4>1, <4>2, <4>3 DEF Claims
      <4>5. ~Turning'
        BY <4>1, <4>2 DEF Turning, Claims, At
      <4> QED BY <3>1, <4>4, <4>5, ClaimTaken
    <3> QED BY <3>2, <3>3
  <2> QED BY <1>4, <2>1, <2>2 DEF ClaimIdle
<1>5. CASE DeliverClaimed(c)
  <2>1. /\ caller[c] = "claimed" /\ caller'[c] = "idle"
        /\ \A d \in Callers : d # c => caller'[d] = caller[d]
    BY <1>c, <1>5 DEF DeliverClaimed, Leave
  <2>2. c \in Claims
    BY <2>1 DEF Claims
  <2>3. CASE ~answering'
    BY <2>3 DEF QueueInv
  <2>4. CASE answering'
    <3>1. CASE (\E r \in Runners : Spawn(r, Other)) /\ UNCHANGED <<session, refused>>
      <4>1. /\ answering /\ Claims = {c} /\ session'.running = TRUE
        <5>1. answering
          BY <2>4, <3>1 DEF answering
        <5>2. Claims = {c} /\ session.running
          BY <2>2, <5>1 DEF QueueInv
        <5>3. session.running = TRUE
          BY <1>s, <5>2 DEF Sessions
        <5> QED BY <3>1, <5>1, <5>2, <5>3
      <4>2. PICK r \in Runners : Spawn(r, Other)
        BY <3>1
      <4>3. /\ ~Holding(r) /\ Holding(r)'
            /\ \A s \in Runners : s # r => (Holding(s)' <=> Holding(s))
            /\ Turning' => Turning
        BY <4>2, SpawnHolds
      <4>4. \A s \in Runners : ~Holding(s)
        <5>1. ASSUME NEW s \in Runners, Holding(s)
              PROVE  FALSE
          <6>1. s \in Claims
            BY <5>1 DEF Holding, Claims
          <6> QED BY <4>1, <6>1, LinesAssumption
        <5> QED BY <5>1
      <4>5. Claims' = {r}
        <5>1. \A d \in Callers : caller'[d] # "claimed"
          BY <4>1, <2>1 DEF Claims
        <5>2. \A s \in Runners : Holding(s)' <=> s = r
          BY <4>3, <4>4
        <5> QED BY <5>1, <5>2 DEF Claims, Holding
      <4>6. ~Turning
        BY <4>4 DEF Turning, At, Holding
      <4> QED BY <4>1, <4>3, <4>5, <4>6, ClaimTaken
    <3>2. CASE /\ session' = [session EXCEPT !.running = FALSE]
               /\ refused' = TRUE
               /\ UNCHANGED runner
      <4>1. session'.running = FALSE /\ session'.alive = session.alive
        BY <1>s, <3>2 DEF Sessions
      <4>2. Claims = {c}
        BY <2>2, <2>4, <4>1 DEF QueueInv, answering
      <4>3. Claims' = {}
        <5>1. \A d \in Callers : caller'[d] # "claimed"
          BY <4>2, <2>1 DEF Claims
        <5>2. \A s \in Runners : ~Holding(s)
          <6>1. ASSUME NEW s \in Runners, Holding(s)
                PROVE  FALSE
            <7>1. s \in Claims
              BY <6>1 DEF Holding, Claims
            <7> QED BY <4>2, <7>1, LinesAssumption
          <6> QED BY <6>1
        <5> QED BY <3>2, <5>1, <5>2 DEF Claims, Holding
      <4> QED BY <3>2, <4>1, <4>3, ClaimLetGo
    <3> QED BY <1>5, <3>1, <3>2 DEF DeliverClaimed
  <2> QED BY <2>3, <2>4
<1> QED BY <1>1, <1>2, <1>3, <1>4, <1>5 DEF CallerStep

LEMMA NudgeQueue ==
  ASSUME TypeInv, TypeOK, QueueInv, Nudge
  PROVE  QueueInv'
<1>s. session \in Sessions /\ Other \in Items
  BY DEF TypeOK, Sessions, Items
<1>1. UNCHANGED <<refused, caller>>
  BY DEF Nudge, era, calls
<1>2. CASE Claim(Other)
  BY <1>s, <1>1, <1>2, ClaimQueue
<1>3. CASE /\ session.running
           /\ session' = [session EXCEPT !.waiting = <<Other>> \o @]
           /\ UNCHANGED runner
  <2>1. /\ session'.running = session.running /\ session'.shown = session.shown
        /\ session'.alive = session.alive
    BY <1>s, <1>3, SessionFields
  <2>2. Claims' = Claims
    BY <1>1, <1>3, ClaimsSame DEF Holding
  <2>3. (Turning' <=> Turning) /\ (Idle' <=> Idle)
    BY <1>3 DEF Turning, Idle, At
  <2> QED BY <1>1, <1>3, <2>1, <2>2, <2>3, ClaimStays DEF answering
<1> QED BY <1>2, <1>3 DEF Nudge

LEMMA AbandonQueue ==
  ASSUME TypeOK, NEW r \in Runners, Abandon(r)
  PROVE  QueueInv'
<1>1. session \in Sessions
  BY DEF TypeOK, Sessions
<1>2. session'.alive = session.alive
  BY <1>1 DEF Abandon, Sessions
<1> QED BY <1>2 DEF Abandon, answering, QueueInv

(* A task that goes on from one point of its turn to the next.             *)
LEMMA GoesOn ==
  ASSUME TypeOK, QueueInv, NEW r \in Runners, NEW pc, Holding(r),
         runner' = [runner EXCEPT ![r].pc = pc],
         pc \in {"begin", "begun", "turn", "end", "next"},
         UNCHANGED <<refused, caller>>,
         session'.alive = session.alive, session'.running = session.running,
         session'.waiting # <<>> => session.waiting # <<>> \/ session.running
                                      \/ ~session'.alive,
         \/ session'.shown = "thinking"
         \/ session'.shown = session.shown
            /\ (pc \in {"begun", "turn"} => At(r, "begun") \/ At(r, "turn"))
  PROVE  QueueInv'
<1>1. /\ \A s \in Runners : s # r => runner'[s] = runner[s]
      /\ runner'[r].pc = pc
  BY RunnerAt
<1>2. Claims' = Claims
  <2>1. \A s \in Runners : Holding(s)' <=> Holding(s)
    BY <1>1 DEF Holding
  <2> QED BY <2>1, ClaimsSame
<1>3. r \in Claims
  BY DEF Claims, Holding
<1>4. session'.shown = "thinking" \/ (Turning' => Turning)
  BY <1>1 DEF Turning, At
<1>5. answering' <=> answering
  BY DEF answering
<1>6. answering' => (session'.waiting # <<>> => session.waiting # <<>> \/ session.running)
  BY DEF answering
<1> QED BY <1>2, <1>3, <1>4, <1>5, <1>6, ClaimStays

(* The lines a driver takes, and what they leave in the queue.             *)
LEMMA SteerSets ==
  ASSUME TypeOK, NEW r \in Runners, SteerInto(r)
  PROVE  \E given \in Seq(Lines) :
           /\ Range(given) \subseteq Range(session.waiting) \cap (Lines \ Spoken)
           /\ session.waiting # <<>>
           /\ \E n \in 1..Len(Steering(session.waiting)) :
                given = SubSeq(Steering(session.waiting), 1, n)
           /\ session'.waiting = Behind(session.waiting, given)
           /\ session'.waiting \in Seq(Items)
           /\ Range(session'.waiting) \subseteq Range(session.waiting)
           /\ Range(session.waiting)
                \subseteq Range(session'.waiting) \cup Range(given)
           /\ session'.unread = session.unread \cup Range(given)
           /\ session'.alive = session.alive /\ session'.running = session.running
           /\ session'.shown = session.shown
           /\ driver'.inbox = driver.inbox \o given
           /\ driver'.cancelled = driver.cancelled
<1>s. session \in Sessions /\ driver \in Drivers
  BY DEF TypeOK, Sessions, Drivers
<1>w. session.waiting \in Seq(Items)
  BY <1>s, SessionFields
<1>1. PICK n \in 1..Len(Steering(session.waiting)) :
        LET given == SubSeq(Steering(session.waiting), 1, n)
        IN /\ session' = [session EXCEPT
                !.waiting = Behind(@, given),
                !.unread = @ \cup Range(given)]
           /\ driver' = [driver EXCEPT !.inbox = @ \o given]
  BY DEF SteerInto
<1>2. PICK w, given : w = session.waiting /\ given = SubSeq(Steering(w), 1, n)
  OBVIOUS
<1>3. session' = [session EXCEPT !.waiting = Behind(w, given), !.unread = @ \cup Range(given)]
  BY <1>1, <1>2
<1>4. driver' = [driver EXCEPT !.inbox = @ \o given]
  BY <1>1, <1>2
<1>5. w \in Seq(Items) /\ n \in 1..Len(Steering(w))
  BY <1>w, <1>2
<1>6. /\ given \in Seq(Lines) /\ w # <<>>
      /\ Behind(w, given) \in Seq(Items)
      /\ Range(given) \subseteq Range(w) \cap (Lines \ Spoken)
      /\ Range(Behind(w, given)) \subseteq Range(w)
      /\ Range(w) \subseteq Range(Behind(w, given)) \cup Range(given)
  <2> DEFINE t == Steering(w)
  <2>1. t \in Seq(Lines) /\ Range(t) = Range(w) \cap (Lines \ Spoken)
    BY <1>5, SteeringAreLines
  <2>2. given = SubSeq(t, 1, n) /\ n \in 1..Len(t)
    BY <1>2, <1>5
  <2> HIDE DEF t
  <2>3. /\ given \in Seq(Lines) /\ Len(given) = n
        /\ \A i \in 1..n : given[i] = t[i]
    BY <2>1, <2>2, SubSeqProperties
  <2>4. Range(given) \subseteq Range(t)
    <3>1. Range(given) = {given[i] : i \in 1..n}
      BY <2>3, RangeEquality
    <3>2. Range(t) = {t[i] : i \in 1..Len(t)}
      BY <2>1, RangeEquality
    <3>3. \A i \in 1..n : i \in 1..Len(t)
      BY <2>1, <2>2
    <3> QED BY <2>3, <3>1, <3>2, <3>3
  <2>5. w # <<>>
    <3>1. t[1] \in Range(t)
      BY <2>1, <2>2, RangeEquality
    <3>2. t[1] \in Range(w)
      BY <2>1, <3>1
    <3>3. Range(<<>>) = {}
      BY DEF Range
    <3> QED BY <3>2, <3>3
  <2>6. /\ Behind(w, given) \in Seq(Items)
        /\ Range(Behind(w, given)) = Range(w) \cap (Items \ Range(given))
    BY <1>5, FilterRange DEF Behind
  <2>7. Range(w) \subseteq Items
    BY <1>5, RangeOfSeq
  <2> QED BY <2>1, <2>3, <2>4, <2>5, <2>6, <2>7
<1>7. /\ session'.waiting = Behind(w, given)
      /\ session'.unread = session.unread \cup Range(given)
      /\ session'.alive = session.alive
      /\ session'.running = session.running
      /\ session'.shown = session.shown
  BY <1>s, <1>3 DEF Sessions
<1>8. /\ driver'.inbox = driver.inbox \o given
      /\ driver'.cancelled = driver.cancelled
  BY <1>s, <1>4 DEF Drivers
<1> QED BY <1>2, <1>6, <1>7, <1>8

LEMMA TurnQueue ==
  ASSUME TypeInv, TypeOK, QueueInv, NEW r \in Runners,
         SteerInto(r) \/ Consume(r) \/ Update(r) \/ RunnerStep(r)
  PROVE  QueueInv'
<1>s. session \in Sessions
  BY DEF TypeOK, Sessions
<1>1. CASE LoopTop(r)
  <2>1. CASE Abandon(r)
    BY <2>1, AbandonQueue
  <2>2. CASE /\ runner' = [runner EXCEPT ![r].pc = "begin"]
             /\ UNCHANGED <<session, fate>>
    BY <1>1, <2>2, GoesOn DEF LoopTop, Holding, At, era, calls
  <2> QED BY <1>1, <2>1, <2>2 DEF LoopTop
<1>2. CASE Begin(r)
  <2>0. Holding(r) /\ UNCHANGED <<refused, caller>>
    BY <1>2 DEF Begin, Holding, At, era, calls
  <2>1. CASE Abandon(r)
    BY <2>1, AbandonQueue
  <2>2. CASE /\ session' = [session EXCEPT !.shown = "thinking",
                              !.unread = @ \cup ({runner[r].line} \ {Other})]
             /\ runner' = [runner EXCEPT ![r].pc = "begun"]
    <3>1. /\ session'.alive = session.alive /\ session'.running = session.running
          /\ session'.waiting = session.waiting /\ session'.shown = "thinking"
      BY <1>s, <2>2 DEF Sessions
    <3> QED BY <2>0, <2>2, <3>1, GoesOn
  <2>3. CASE /\ session' = [session EXCEPT !.shown = "thinking"]
             /\ runner' = [runner EXCEPT ![r].pc = "next"]
    <3>1. /\ session'.alive = session.alive /\ session'.running = session.running
          /\ session'.waiting = session.waiting /\ session'.shown = "thinking"
      BY <1>s, <2>3 DEF Sessions
    <3> QED BY <2>0, <2>3, <3>1, GoesOn
  <2> QED BY <1>2, <2>1, <2>2, <2>3 DEF Begin
<1>3. CASE Prompt(r)
  BY <1>3, GoesOn DEF Prompt, Holding, At, era, calls
<1>4. CASE SteerInto(r)
  <2>1. PICK given \in Seq(Lines) :
             /\ session.waiting # <<>>
             /\ session'.alive = session.alive
             /\ session'.running = session.running
             /\ session'.shown = session.shown
    BY <1>4, SteerSets
  <2>2. UNCHANGED <<runner, refused, caller>>
    BY <1>4 DEF SteerInto, era, calls
  <2> QED BY <2>1, <2>2, TasksStay
<1>5. CASE Consume(r)
  BY <1>5, TasksStay DEF Consume, era, calls
<1>6. CASE Update(r)
  <2>1. /\ session'.alive = session.alive /\ session'.running = session.running
        /\ session'.waiting = session.waiting /\ session'.shown = session.shown
    BY <1>s, <1>6 DEF Update, Sessions
  <2>2. UNCHANGED <<runner, refused, caller>>
    BY <1>6 DEF Update, era, calls
  <2> QED BY <2>1, <2>2, TasksStay
<1>7. CASE TurnEnds(r)
  <2>1. /\ runner' = [runner EXCEPT ![r].pc = "end"] /\ Holding(r)
        /\ UNCHANGED <<session, refused, caller>>
    BY <1>7 DEF TurnEnds, Holding, At, era, calls
  <2> QED BY <2>1, GoesOn
<1>8. CASE End(r)
  <2>1. /\ runner' = [runner EXCEPT ![r].pc = "next"] /\ Holding(r)
        /\ UNCHANGED <<refused, caller>>
    BY <1>8 DEF End, Holding, At, era, calls
  <2>2. /\ session'.alive = session.alive /\ session'.running = session.running
        /\ session'.shown = session.shown
    <3>1. CASE session' = session
      BY <3>1
    <3>2. CASE session' = [session EXCEPT !.waiting = driver.inbox \o @]
      BY <1>s, <3>2, SessionFields
    <3> QED BY <1>8, <3>1, <3>2 DEF End
  <2>3. session.running \/ ~session'.alive
    <3>1. r \in Claims
      BY <2>1 DEF Claims, Holding
    <3> QED BY <2>2, <3>1 DEF QueueInv, answering
  <2> QED BY <2>1, <2>2, <2>3, GoesOn
<1>9. CASE NextLine(r)
  <2>0. Holding(r) /\ UNCHANGED <<refused, caller>>
    BY <1>9 DEF NextLine, Holding, At, era, calls
  <2>1. CASE /\ session.waiting # <<>>
             /\ session' = [session EXCEPT !.waiting = Tail(@)]
             /\ runner' = [runner EXCEPT ![r] = [pc |-> "loop",
                                                 line |-> Head(session.waiting)]]
    <3>1. /\ session'.alive = session.alive /\ session'.running = session.running
          /\ session'.shown = session.shown
      BY <1>s, <2>1, SessionFields
    <3>2. /\ \A s \in Runners : s # r => runner'[s] = runner[s]
          /\ runner'[r].pc = "loop"
      <4> DEFINE t == [pc |-> "loop", line |-> Head(session.waiting)]
      <4>1. runner' = [runner EXCEPT ![r] = t] /\ t.pc = "loop"
        BY <2>1
      <4> HIDE DEF t
      <4> QED BY <4>1, RunnerIs
    <3>3. Claims' = Claims
      <4>1. \A s \in Runners : Holding(s)' <=> Holding(s)
        BY <2>0, <3>2 DEF Holding
      <4> QED BY <2>0, <4>1, ClaimsSame
    <3>4. (Turning' => Turning) /\ ~Idle'
      BY <3>2 DEF Turning, Idle, At
    <3> QED BY <2>0, <2>1, <3>1, <3>3, <3>4, ClaimStays DEF answering
  <2>2. CASE /\ session.waiting = <<>>
             /\ session' = [session EXCEPT !.running = FALSE]
             /\ runner' = [runner EXCEPT ![r].pc = "rest"]
    <3>1. /\ session'.alive = session.alive /\ session'.running = FALSE
          /\ session'.waiting = <<>>
      BY <1>s, <2>2 DEF Sessions
    <3>2. CASE ~answering
      BY <3>1, <3>2 DEF QueueInv, answering
    <3>3. CASE answering
      <4>1. /\ \A s \in Runners : s # r => runner'[s] = runner[s]
            /\ runner'[r].pc = "rest"
        BY <2>2, RunnerAt
      <4>2. r \in Claims /\ \A x \in Claims : x = r
        BY <2>0, <3>3 DEF Claims, Holding, QueueInv
      <4>3. Claims' = {}
        <5>1. \A c \in Callers : caller'[c] # "claimed"
          BY <2>0, <4>2, LinesAssumption DEF Claims
        <5>2. \A s \in Runners : ~Holding(s)'
          <6>1. ASSUME NEW s \in Runners, s # r
                PROVE  ~Holding(s)'
            <7>1. s \notin Claims
              BY <4>2, <6>1
            <7> QED BY <4>1, <6>1, <7>1 DEF Claims, Holding
          <6>2. ~Holding(r)'
            BY <4>1 DEF Holding
          <6> QED BY <6>1, <6>2
        <5> QED BY <5>1, <5>2 DEF Claims, Holding
      <4>4. ~Idle'
        BY <4>1 DEF Idle, At
      <4> QED BY <3>1, <4>3, <4>4, ClaimLetGo
    <3> QED BY <3>2, <3>3
  <2> QED BY <1>9, <2>1, <2>2 DEF NextLine
<1>10. CASE Rest(r)
  <2>0. /\ ~Holding(r) /\ UNCHANGED <<refused, caller>>
        /\ runner' = [runner EXCEPT ![r] = Free]
    BY <1>10 DEF Rest, Holding, At, era, calls
  <2>1. /\ \A s \in Runners : s # r => runner'[s] = runner[s]
        /\ runner'[r].pc = "free"
    <3>1. /\ \A s \in Runners : s # r => runner'[s] = runner[s]
          /\ runner'[r] = Free
      BY <2>0, RunnerIs
    <3> QED BY <3>1 DEF Free
  <2>2. Claims' = Claims
    <3>1. \A s \in Runners : Holding(s)' <=> Holding(s)
      BY <2>0, <2>1 DEF Holding
    <3> QED BY <2>0, <3>1, ClaimsSame
  <2>3. Turning' => Turning
    BY <2>1 DEF Turning, At
  <2>4. session'.alive = session.alive
    BY <1>s, <1>10 DEF Rest, Sessions
  <2>5. CASE ~answering
    BY <2>4, <2>5 DEF QueueInv, answering
  <2>6. CASE answering /\ session.running
    <3>1. session' = session /\ Claims # {}
      BY <1>10, <2>6 DEF Rest, QueueInv
    <3> QED BY <2>0, <2>2, <2>3, <3>1, ClaimStays DEF answering
  <2>7. CASE answering /\ ~session.running
    <3>1. session' = [session EXCEPT !.shown = "ready"]
      BY <1>10, <2>7 DEF Rest
    <3>2. /\ session'.running = session.running /\ session'.shown = "ready"
          /\ session'.waiting = session.waiting
      BY <1>s, <3>1 DEF Sessions
    <3>3. Claims' = {} /\ (refused \/ session.waiting = <<>>)
      BY <2>2, <2>7 DEF QueueInv
    <3>4. session'.running = FALSE
      BY <1>s, <2>7, <3>2 DEF Sessions
    <3> QED BY <2>0, <3>2, <3>3, <3>4, ClaimLetGo
  <2> QED BY <2>5, <2>6, <2>7
<1> QED BY <1>1, <1>2, <1>3, <1>4, <1>5, <1>6, <1>7, <1>8, <1>9, <1>10
    DEF RunnerStep

LEMMA StopQueue ==
  ASSUME TypeInv, TypeOK, QueueInv, Cancel \/ Revoke \/ Close \/ StopStep
  PROVE  QueueInv'
<1>s. session \in Sessions
  BY DEF TypeOK, Sessions
<1>u. UNCHANGED <<runner, refused, caller>>
  BY DEF Cancel, Revoke, Close, StopStep, Drain, Keep, Finish, Cut, Wait, era, calls
<1>1. CASE CutTurn(FALSE) \/ CutTurn(TRUE)
  <2>1. /\ session'.alive = session.alive /\ session'.running = session.running
        /\ session'.waiting = <<>> /\ session'.shown = session.shown
    BY <1>s, <1>1 DEF CutTurn, Sessions
  <2> QED BY <1>u, <2>1, TasksStay
<1>2. CASE Revoke
  <2>1. session'.alive = FALSE
    BY <1>s, <1>2 DEF Revoke, Sessions
  <2> QED BY <2>1 DEF QueueInv, answering
<1>3. CASE session' = session \/ session' = [session EXCEPT !.waiting = <<>>]
  <2>1. /\ session'.alive = session.alive /\ session'.running = session.running
        /\ session'.waiting # <<>> => session.waiting # <<>>
        /\ session'.shown = session.shown
    <3>1. CASE session' = session
      BY <3>1
    <3>2. CASE session' = [session EXCEPT !.waiting = <<>>]
      BY <1>s, <3>2, SessionFields
    <3> QED BY <1>3, <3>1, <3>2
  <2> QED BY <1>u, <2>1, TasksStay
<1> QED BY <1>1, <1>2, <1>3
    DEF Cancel, Close, StopStep, Drain, Keep, Finish, Cut, Wait

LEMMA ResumeQueue ==
  ASSUME TypeInv, TypeOK, QueueInv, ResumeStep
  PROVE  QueueInv'
<1>u. UNCHANGED <<refused, caller>>
  BY DEF ResumeStep, ResumeRead, ResumeAdmit, ResumeEnter, ResumeHandOver,
         ResumeWrite, era, calls
<1>1. CASE ResumeHandOver
  <2>1. Head(resume.todo) \in Items
    BY <1>1, HeadTailProperties
    DEF TypeInv, TypeOK, ResumeHasLine, ResumeHandOver, Items
  <2>2. Dispatch(Head(resume.todo))
    BY <1>1 DEF ResumeHandOver
  <2> QED BY <1>u, <2>1, <2>2, DispatchQueue
<1>2. CASE UNCHANGED <<session, runner>>
  BY <1>u, <1>2, TasksStay
<1> QED BY <1>1, <1>2
    DEF ResumeStep, ResumeRead, ResumeAdmit, ResumeEnter, ResumeWrite

LEMMA FreshQueue ==
  /\ Init => QueueInv
  /\ Started => QueueInv'
<1>1. ASSUME Init PROVE QueueInv
  <2>1. Claims = {}
    BY <1>1 DEF Init, Claims, Free
  <2> QED BY <1>1, <2>1 DEF Init, QueueInv, Fresh, Turning, At, Free
<1>2. ASSUME Started PROVE QueueInv'
  <2>1. Claims' = {}
    BY <1>2 DEF Started, Claims, Free
  <2> QED BY <1>2, <2>1 DEF Started, QueueInv, Fresh, Turning, At, Free
<1> QED BY <1>1, <1>2

LEMMA QueueStep == TypeInv /\ QueueInv /\ [Next]_vars => QueueInv'
<1> SUFFICES ASSUME TypeInv, QueueInv, [Next]_vars PROVE QueueInv'
  OBVIOUS
<1>t. TypeOK
  BY DEF TypeInv
<1>1. CASE \E c \in Callers : Ask(c) \/ CallerStep(c)
  BY <1>t, <1>1, CallerQueue
<1>2. CASE \E r \in Runners :
             SteerInto(r) \/ Consume(r) \/ Update(r) \/ RunnerStep(r)
  BY <1>t, <1>2, TurnQueue
<1>3. CASE Nudge
  BY <1>t, <1>3, NudgeQueue
<1>4. CASE Cancel \/ Revoke \/ Close \/ StopStep
  BY <1>t, <1>4, StopQueue
<1>5. CASE ResumeStep
  BY <1>t, <1>5, ResumeQueue
<1>6. CASE Restart
  BY <1>6, FreshQueue DEF Restart
<1>7. CASE Off \/ UNCHANGED vars
  <2>1. UNCHANGED <<session, runner, refused, caller>>
    BY <1>7 DEF Off, vars, calls, era
  <2> QED BY <1>t, <2>1, TasksStay
<1> QED BY <1>1, <1>2, <1>3, <1>4, <1>5, <1>6, <1>7 DEF Next
-----------------------------------------------------------------------------
(* The members of a sequence, as it is built and taken apart.              *)
LEMMA RangeFacts ==
  /\ Range(<<>>) = {}
  /\ \A S : \A s \in Seq(S), e \in S :
       Range(Append(s, e)) = Range(s) \cup {e}
  /\ \A S : \A s, t \in Seq(S) : Range(s \o t) = Range(s) \cup Range(t)
  /\ \A S : \A s \in Seq(S) :
       s # <<>> => Range(s) = {Head(s)} \cup Range(Tail(s))
  /\ \A x : Range(<<x>>) = {x}
<1>1. Range(<<>>) = {}
  BY DEF Range
<1>2. ASSUME NEW x
      PROVE  Range(<<x>>) = {x}
  BY DEF Range
<1>3. ASSUME NEW S, NEW s \in Seq(S), NEW e \in S
      PROVE  Range(Append(s, e)) = Range(s) \cup {e}
  <2>1. <<e>> \in Seq(S) /\ Append(s, e) = s \o <<e>>
    BY AppendIsConcat
  <2>2. Range(s \o <<e>>) = Range(s) \cup Range(<<e>>)
    BY <2>1, RangeConcatenation, SMTT(60)
  <2> QED BY <2>1, <2>2, <1>2
<1>4. ASSUME NEW S, NEW s \in Seq(S), NEW t \in Seq(S)
      PROVE  Range(s \o t) = Range(s) \cup Range(t)
  BY RangeConcatenation
<1>5. ASSUME NEW S, NEW s \in Seq(S), s # <<>>
      PROVE  Range(s) = {Head(s)} \cup Range(Tail(s))
  <2>1. /\ Tail(s) \in Seq(S) /\ Len(Tail(s)) = Len(s) - 1
        /\ \A i \in 1..Len(Tail(s)) : Tail(s)[i] = s[i + 1]
        /\ Head(s) = s[1] /\ Len(s) \in Nat \ {0}
    BY <1>5, HeadTailProperties
  <2>2. Range(s) = {s[i] : i \in 1..Len(s)}
    BY RangeEquality
  <2>3. Range(Tail(s)) = {Tail(s)[i] : i \in 1..Len(Tail(s))}
    BY <2>1, RangeEquality
  <2>4. \A i \in 1..Len(s) : i = 1 \/ i - 1 \in 1..Len(Tail(s))
    BY <2>1
  <2>5. ASSUME NEW i \in 1..Len(s), i # 1
        PROVE  s[i] \in Range(Tail(s))
    <3>1. i - 1 \in 1..Len(Tail(s)) /\ (i - 1) + 1 = i
      BY <2>4, <2>5
    <3>2. Tail(s)[i - 1] = s[i]
      BY <2>1, <3>1
    <3> QED BY <2>3, <3>1, <3>2
  <2>6. \A i \in 1..Len(Tail(s)) : i + 1 \in 1..Len(s)
    BY <2>1
  <2>7. 1 \in 1..Len(s)
    BY <2>1
  <2>8. Range(s) \subseteq {Head(s)} \cup Range(Tail(s))
    BY <2>1, <2>2, <2>5
  <2>9. Range(Tail(s)) \subseteq Range(s)
    BY <2>1, <2>2, <2>3, <2>6
  <2>10. Head(s) \in Range(s)
    BY <2>1, <2>2, <2>7
  <2> QED BY <2>8, <2>9, <2>10
<1> QED BY <1>1, <1>2, <1>3, <1>4, <1>5

(* The start gate is held by whoever is past it.                           *)
GateInv ==
  /\ \A c \in Callers : caller[c] \in {"gated", "said", "claimed"} => gate = c
  /\ resume.pc = "gated" => gate = "resume"

LEMMA GateStep == TypeInv /\ GateInv /\ [Next]_vars => GateInv'
<1> SUFFICES ASSUME TypeInv, GateInv, [Next]_vars PROVE GateInv'
  OBVIOUS
<1>t. /\ caller \in [Callers -> {"idle", "asked", "gated", "said", "claimed"}]
      /\ resume \in Resumes
  BY DEF TypeInv, TypeOK, Resumes
<1>1. ASSUME NEW c \in Callers, Ask(c) \/ CallerStep(c)
      PROVE  GateInv'
  <2>1. UNCHANGED resume
    BY <1>1 DEF CallerStep, Ask, Enter, Say, Refuse, HandOver, Deliver, ClaimIdle,
                DeliverClaimed
  <2>2. CASE caller[c] \in {"gated", "said", "claimed"} /\ Leave(c)
    BY <1>t, <2>1, <2>2, LinesAssumption DEF GateInv, Leave
  <2>3. CASE /\ caller[c] \in {"gated", "said", "claimed"} /\ UNCHANGED gate
             /\ \E pc \in {"gated", "said", "claimed"} :
                  caller' = [caller EXCEPT ![c] = pc]
    BY <1>t, <2>1, <2>3 DEF GateInv
  <2>4. CASE /\ caller[c] \in {"idle", "asked"} /\ UNCHANGED gate
             /\ \E pc \in {"idle", "asked"} : caller' = [caller EXCEPT ![c] = pc]
    BY <1>t, <2>1, <2>4 DEF GateInv
  <2>5. CASE /\ gate = None /\ gate' = c
             /\ caller' = [caller EXCEPT ![c] = "gated"]
    BY <1>t, <2>1, <2>5, LinesAssumption DEF GateInv
  <2>6. CASE Ask(c) \/ Enter(c)
    BY <2>4, <2>5, <2>6 DEF Ask, Enter
  <2>7. CASE Say(c) \/ ClaimIdle(c)
    BY <2>2, <2>3, <2>7 DEF Say, ClaimIdle
  <2>8. CASE Refuse(c) \/ HandOver(c) \/ Deliver(c) \/ DeliverClaimed(c)
    BY <2>2, <2>8 DEF Refuse, HandOver, Deliver, DeliverClaimed
  <2> QED BY <1>1, <2>6, <2>7, <2>8 DEF CallerStep
<1>2. CASE ResumeStep
  <2>1. CASE ResumeEnter
    BY <1>t, <1>2, <2>1, LinesAssumption DEF GateInv, ResumeEnter, Leaving, Resumes
  <2>2. CASE ResumeHandOver
    BY <1>t, <2>2, LinesAssumption DEF GateInv, ResumeHandOver, Resumes
  <2>3. CASE ResumeRead \/ ResumeAdmit \/ ResumeWrite
    <3>1. UNCHANGED calls /\ resume'.pc # "gated"
      BY <1>t, <2>3 DEF ResumeRead, ResumeAdmit, ResumeWrite, Leaving, NoResume, Resumes
    <3> QED BY <3>1 DEF GateInv, calls
  <2> QED BY <1>2, <2>1, <2>2, <2>3 DEF ResumeStep
<1>3. CASE Restart
  BY <1>3 DEF Restart, Started, GateInv
<1>4. CASE UNCHANGED <<calls, resume>>
  BY <1>4 DEF GateInv, calls
<1>5. ASSUME NEW r \in Runners,
             SteerInto(r) \/ Consume(r) \/ Update(r) \/ RunnerStep(r)
      PROVE  UNCHANGED <<calls, resume>>
  BY <1>5 DEF SteerInto, Consume, Update, RunnerStep, LoopTop, Begin, Prompt, TurnEnds,
              End, NextLine, Rest
<1>6. CASE \/ Nudge \/ Cancel \/ Revoke \/ Close \/ StopStep \/ Off
           \/ UNCHANGED vars
  <2>1. UNCHANGED <<calls, resume>>
    BY <1>6 DEF Nudge, Cancel, Revoke, Close, StopStep, Drain, Keep, Finish, Cut, Wait,
                Off, vars
  <2> QED BY <2>1, <1>4
<1> QED BY <1>1, <1>2, <1>3, <1>4, <1>5, <1>6 DEF Next

(* The tasks, in a session that answers or one that is over.               *)
Busy(r) == runner[r].pc \in {"begin", "begun", "turn", "end", "next"}
LineIn(items) == Range(items) \cap Lines # {}

RunningIsHeld == session.running => Claims # {}
OneBusy == \A r, s \in Runners : Busy(r) /\ Busy(s) => r = s
InboxIsRead ==
  driver.inbox # <<>> => \E r \in Runners : runner[r].pc \in {"turn", "end"}
Fetched == LineIn(session.waiting) => \E r \in Runners : Holding(r)

TasksInv == RunningIsHeld /\ OneBusy /\ InboxIsRead /\ Fetched

(* A step after which the same tasks are where they were.                  *)
LEMMA TasksKeep ==
  ASSUME TasksInv, UNCHANGED runner,
         RunningIsHeld',
         driver'.inbox = driver.inbox \/ driver'.inbox = <<>>,
         LineIn(session'.waiting) => LineIn(session.waiting)
  PROVE  TasksInv'
<1>2. OneBusy'
  BY DEF TasksInv, OneBusy, Busy
<1>3. InboxIsRead'
  BY DEF TasksInv, InboxIsRead
<1>4. Fetched'
  <2>1. LineIn(session.waiting)' <=> LineIn(session'.waiting)
    BY DEF LineIn
  <2> QED BY <2>1 DEF TasksInv, Fetched, Holding
<1> QED BY <1>2, <1>3, <1>4 DEF TasksInv

(* A step of one task.                                                     *)
LEMMA TaskSteps ==
  ASSUME TasksInv, NEW r \in Runners,
         \A s \in Runners : s # r => runner'[s] = runner[s],
         RunningIsHeld',
         Busy(r)' => \/ Busy(r) 
                     \/ \A s \in Runners : s # r => ~Busy(s),
         driver'.inbox # <<>> =>
           \/ runner'[r].pc \in {"turn", "end"}
           \/ driver.inbox # <<>> /\ runner[r].pc \notin {"turn", "end"},
         LineIn(session'.waiting) =>
           Holding(r)' \/ (LineIn(session.waiting) /\ ~Holding(r))
  PROVE  TasksInv'
<1>2. OneBusy'
  BY DEF TasksInv, OneBusy, Busy
<1>3. InboxIsRead'
  BY DEF TasksInv, InboxIsRead
<1>4. Fetched'
  <2>1. LineIn(session.waiting)' <=> LineIn(session'.waiting)
    BY DEF LineIn
  <2> QED BY <2>1 DEF TasksInv, Fetched, Holding
<1> QED BY <1>2, <1>3, <1>4 DEF TasksInv

LEMMA SpawnTasks ==
  ASSUME TypeOK, TasksInv, NEW r \in Runners, NEW item, Spawn(r, item),
         driver'.inbox = driver.inbox
  PROVE  TasksInv'
<1>1. /\ \A s \in Runners : s # r => runner'[s] = runner[s]
      /\ runner'[r] = [pc |-> "loop", line |-> item]
  BY RunnerIs DEF Spawn
<1>2. runner[r].pc = "free" /\ runner'[r].pc = "loop"
  BY <1>1 DEF Spawn, At
<1>3. RunningIsHeld'
  BY <1>2 DEF RunningIsHeld, Claims
<1>4. ~Busy(r)' /\ Holding(r)' /\ runner[r].pc \notin {"turn", "end"}
  BY <1>2 DEF Busy, Holding
<1> QED BY <1>1, <1>3, <1>4, TaskSteps

(* Each step keeps TasksInv: one lemma for each group of actions.          *)
LEMMA LineInSame ==
  ASSUME NEW w \in Seq(Items), NEW item \in Items
  PROVE  /\ LineIn(Append(w, item)) <=> LineIn(w) \/ item \in Lines
         /\ LineIn(<<item>> \o w) <=> LineIn(w) \/ item \in Lines
         /\ ~LineIn(<<>>)
<1>1. Range(Append(w, item)) = Range(w) \cup {item}
  BY RangeFacts
<1>2. Range(<<item>> \o w) = {item} \cup Range(w)
  <2>0. <<item>> \in Seq(Items)
    OBVIOUS
  <2>1. Range(<<item>>) = {item}
    BY RangeFacts
  <2>2. Range(<<item>> \o w) = Range(<<item>>) \cup Range(w)
    BY <2>0, RangeConcatenation, ZenonT(60)
  <2> QED BY <2>1, <2>2
<1>3. Range(<<>>) = {}
  BY RangeFacts
<1> QED BY <1>1, <1>2, <1>3 DEF LineIn

LEMMA ClaimTasks ==
  ASSUME TypeOK, TasksInv, NEW item \in Items, Claim(item),
         driver'.inbox = driver.inbox,
         \A c \in Callers : caller'[c] = "claimed" <=> caller[c] = "claimed",
         item = Other \/ \A c \in Callers : caller[c] # "claimed"
  PROVE  TasksInv'
<1>s. session \in Sessions /\ session.waiting \in Seq(Items)
  BY DEF TypeOK, Sessions
<1>1. CASE /\ session.running
           /\ session' = [session EXCEPT !.waiting = Append(@, item)]
           /\ UNCHANGED runner
  <2>1. /\ session'.running = session.running
        /\ session'.waiting = Append(session.waiting, item)
    BY <1>s, <1>1, SessionFields
  <2>2. Claims' = Claims
    BY <1>1, ClaimsSame DEF Holding
  <2>3. RunningIsHeld'
    BY <2>1, <2>2 DEF TasksInv, RunningIsHeld
  <2>4. CASE item = Other
    <3>1. item \notin Lines
      BY <2>4, BoundsAssumption DEF Other, Lines
    <3>2. LineIn(session'.waiting) => LineIn(session.waiting)
      <4>1. LineIn(Append(session.waiting, item))
              <=> LineIn(session.waiting) \/ item \in Lines
        BY <1>s, LineInSame
      <4> QED BY <2>1, <3>1, <4>1
    <3> QED BY <1>1, <2>3, <3>2, TasksKeep
  <2>5. CASE \A c \in Callers : caller[c] # "claimed"
    <3>1. PICK r \in Runners : Holding(r)
      BY <1>1, <2>5 DEF TasksInv, RunningIsHeld, Claims, Holding
    <3>2. /\ \A s \in Runners : s # r => runner'[s] = runner[s]
          /\ runner'[r] = runner[r]
      BY <1>1
    <3>3. OneBusy' /\ InboxIsRead'
      BY <1>1 DEF TasksInv, OneBusy, InboxIsRead, Busy
    <3>4. Fetched'
      BY <3>1, <3>2 DEF Fetched, Holding
    <3> QED BY <2>3, <3>3, <3>4 DEF TasksInv
  <2> QED BY <2>4, <2>5
<1>2. CASE \E r \in Runners : Spawn(r, item)
  BY <1>2, SpawnTasks
<1> QED BY <1>1, <1>2 DEF Claim

LEMMA DispatchTasks ==
  ASSUME TypeOK, TasksInv, NEW item \in Items, Dispatch(item),
         driver'.inbox = driver.inbox,
         \A c \in Callers : caller'[c] # "claimed" /\ caller[c] # "claimed"
  PROVE  TasksInv'
<1>1. CASE UNCHANGED <<session, runner>>
  <2>1. Claims' = Claims
    BY <1>1, ClaimsSame DEF Holding
  <2>2. RunningIsHeld'
    BY <1>1, <2>1 DEF TasksInv, RunningIsHeld
  <2> QED BY <1>1, <2>2, TasksKeep
<1>2. CASE Claim(item)
  BY <1>2, ClaimTasks
<1> QED BY <1>1, <1>2 DEF Dispatch

(* Whoever is past the gate is alone there.                                *)
LEMMA PastTheGate ==
  ASSUME GateInv, TypeOK
  PROVE  /\ \A c, d \in Callers :
              /\ caller[c] \in {"gated", "said"}
              => caller[d] # "claimed" /\ (caller[d] = "said" => d = c)
         /\ resume.pc = "gated" =>
              \A d \in Callers : caller[d] \notin {"gated", "said", "claimed"}
BY LinesAssumption DEF GateInv, TypeOK

LEMMA CallerTasks ==
  ASSUME TypeInv, TypeOK, QueueInv, GateInv, TasksInv, NEW c \in Callers,
         Ask(c) \/ CallerStep(c)
  PROVE  TasksInv'
<1>s. session \in Sessions
  BY DEF TypeOK, Sessions
<1>c. caller \in [Callers -> {"idle", "asked", "gated", "said", "claimed"}]
  BY DEF TypeOK
<1>1. CASE Ask(c) \/ Enter(c) \/ Say(c) \/ Refuse(c)
  <2>1. \A d \in Callers : caller'[d] = "claimed" <=> caller[d] = "claimed"
    BY <1>c, <1>1 DEF Ask, Enter, Say, Refuse, Leave
  <2>2. UNCHANGED <<session, runner, driver>>
    BY <1>1 DEF Ask, Enter, Say, Refuse
  <2>3. Claims' = Claims
    BY <2>1, <2>2, ClaimsSame DEF Holding
  <2>4. RunningIsHeld'
    BY <2>2, <2>3 DEF TasksInv, RunningIsHeld
  <2> QED BY <2>2, <2>4, TasksKeep
<1>2. CASE HandOver(c)
  <2>1. \A d \in Callers : caller'[d] # "claimed" /\ caller[d] # "claimed"
    <3>1. \A d \in Callers : caller[d] # "claimed"
      BY <1>2, PastTheGate DEF HandOver
    <3> QED BY <1>c, <1>2, <3>1 DEF HandOver, Leave
  <2>2. Latest \in Items
    BY <1>2, LatestIsSaid DEF TypeInv, SaidFirst, HandOver, Items
  <2>3. Dispatch(Latest) /\ UNCHANGED driver
    BY <1>2 DEF HandOver
  <2> QED BY <2>1, <2>2, <2>3, DispatchTasks
<1>3. CASE Deliver(c)
  <2>1. \A d \in Callers : caller'[d] # "claimed" /\ caller[d] # "claimed"
    <3>1. \A d \in Callers : caller[d] # "claimed"
      BY <1>3, PastTheGate DEF Deliver
    <3> QED BY <1>c, <1>3, <3>1 DEF Deliver, Leave
  <2>2. Other \in Items /\ Dispatch(Other) /\ UNCHANGED driver
    BY <1>3 DEF Deliver, Items
  <2> QED BY <2>1, <2>2, DispatchTasks
<1>4. CASE ClaimIdle(c)
  <2>0. UNCHANGED <<driver, runner>>
    BY <1>4 DEF ClaimIdle
  <2>1. CASE session.running /\ Leave(c) /\ UNCHANGED session
    <3>1. \A d \in Callers : caller'[d] = "claimed" <=> caller[d] = "claimed"
      BY <1>c, <1>4, <2>1 DEF ClaimIdle, Leave
    <3>2. Claims' = Claims
      BY <2>0, <3>1, ClaimsSame DEF Holding
    <3>3. RunningIsHeld'
      BY <2>1, <3>2 DEF TasksInv, RunningIsHeld
    <3> QED BY <2>0, <2>1, <3>3, TasksKeep
  <2>2. CASE /\ session' = [session EXCEPT !.running = TRUE]
             /\ caller' = [caller EXCEPT ![c] = "claimed"]
    <3>1. session'.waiting = session.waiting
      BY <1>s, <2>2 DEF Sessions
    <3>2. RunningIsHeld'
      <4>1. caller'[c] = "claimed"
        BY <1>c, <2>2
      <4> QED BY <4>1 DEF RunningIsHeld, Claims
    <3> QED BY <2>0, <3>1, <3>2, TasksKeep
  <2> QED BY <1>4, <2>1, <2>2 DEF ClaimIdle
<1>5. CASE DeliverClaimed(c)
  <2>0. UNCHANGED driver
    BY <1>5 DEF DeliverClaimed
  <2>1. CASE \E r \in Runners : Spawn(r, Other)
    BY <2>0, <2>1, SpawnTasks
  <2>2. CASE /\ session' = [session EXCEPT !.running = FALSE]
             /\ UNCHANGED runner
    <3>1. session'.running = FALSE /\ session'.waiting = session.waiting
      BY <1>s, <2>2 DEF Sessions
    <3>2. RunningIsHeld'
      BY <3>1 DEF RunningIsHeld
    <3> QED BY <2>0, <2>2, <3>1, <3>2, TasksKeep
  <2> QED BY <1>5, <2>1, <2>2 DEF DeliverClaimed
<1> QED BY <1>1, <1>2, <1>3, <1>4, <1>5 DEF CallerStep

LEMMA NudgeTasks ==
  ASSUME TypeInv, TypeOK, QueueInv, TasksInv, Nudge
  PROVE  TasksInv'
<1>s. session \in Sessions /\ session.waiting \in Seq(Items) /\ Other \in Items
  BY DEF TypeOK, Sessions, Items
<1>1. UNCHANGED <<driver, caller>>
  BY DEF Nudge, calls
<1>2. CASE Claim(Other)
  BY <1>s, <1>1, <1>2, ClaimTasks
<1>3. CASE /\ session' = [session EXCEPT !.waiting = <<Other>> \o @]
           /\ UNCHANGED runner
  <2>1. /\ session'.running = session.running
        /\ session'.waiting = <<Other>> \o session.waiting
    BY <1>s, <1>3, SessionFields
  <2>2. LineIn(session'.waiting) => LineIn(session.waiting)
    <3>1. LineIn(<<Other>> \o session.waiting)
            <=> LineIn(session.waiting) \/ Other \in Lines
      BY <1>s, LineInSame
    <3>2. Other \notin Lines
      BY BoundsAssumption DEF Other, Lines
    <3> QED BY <2>1, <3>1, <3>2
  <2>3. RunningIsHeld'
    <3>1. Claims' = Claims
      BY <1>1, <1>3, ClaimsSame DEF Holding
    <3> QED BY <2>1, <3>1 DEF TasksInv, RunningIsHeld
  <2> QED BY <1>1, <1>3, <2>2, <2>3, TasksKeep
<1> QED BY <1>2, <1>3 DEF Nudge

LEMMA AbandonTasks ==
  ASSUME TypeOK, TasksInv, NEW r \in Runners, Abandon(r), UNCHANGED driver,
         runner[r].pc \in {"loop", "begin"}
  PROVE  TasksInv'
<1>1. session'.running = FALSE /\ session'.waiting = <<>>
  <2>1. session \in Sessions
    BY DEF TypeOK, Sessions
  <2> QED BY <2>1 DEF Abandon, Sessions
<1>2. /\ \A s \in Runners : s # r => runner'[s] = runner[s]
      /\ runner'[r].pc = "rest"
  BY RunnerAt DEF Abandon
<1>3. RunningIsHeld' /\ ~LineIn(session'.waiting) /\ ~Busy(r)'
  BY <1>1, <1>2, RangeFacts DEF RunningIsHeld, LineIn, Busy
<1> QED BY <1>2, <1>3, TaskSteps

(* A task that goes on with its turn, the claim in its hand.               *)
LEMMA TaskGoesOn ==
  ASSUME TypeOK, TasksInv, NEW r \in Runners, NEW pc,
         Busy(r) \/ \A s \in Runners : ~Busy(s),
         pc \in {"begin", "begun", "turn", "end", "next"},
         runner' = [runner EXCEPT ![r].pc = pc],
         driver'.inbox # <<>> =>
           \/ pc \in {"turn", "end"}
           \/ driver.inbox # <<>> /\ runner[r].pc \notin {"turn", "end"}
  PROVE  TasksInv'
<1>1. /\ \A s \in Runners : s # r => runner'[s] = runner[s]
      /\ runner'[r].pc = pc
  BY RunnerAt
<1>2. RunningIsHeld' /\ Holding(r)'
  BY <1>1 DEF RunningIsHeld, Claims, Holding
<1> QED BY <1>1, <1>2, TaskSteps

LEMMA TurnTasks ==
  ASSUME TypeInv, TypeOK, QueueInv, TasksInv, NEW r \in Runners,
         SteerInto(r) \/ Consume(r) \/ Update(r) \/ RunnerStep(r)
  PROVE  TasksInv'
<1>s. session \in Sessions /\ driver \in Drivers
  BY DEF TypeOK, Sessions, Drivers
<1>h. RunningIsHeld
  BY DEF TasksInv
<1>1. CASE LoopTop(r)
  <2>1. runner[r].pc = "loop" /\ UNCHANGED driver
    BY <1>1 DEF LoopTop, At
  <2>2. CASE Abandon(r)
    BY <2>1, <2>2, AbandonTasks
  <2>3. CASE answering /\ runner' = [runner EXCEPT ![r].pc = "begin"]
    <3>1. \A s \in Runners : ~Busy(s)
      <4>1. ASSUME NEW s \in Runners, Busy(s)
            PROVE  FALSE
        <5>1. s \in Claims /\ r \in Claims
          BY <2>1, <4>1 DEF Claims, Busy
        <5>2. s = r
          BY <2>3, <5>1 DEF QueueInv
        <5> QED BY <2>1, <4>1, <5>2 DEF Busy
      <4> QED BY <4>1
    <3> QED BY <2>1, <2>3, <3>1, TaskGoesOn
  <2> QED BY <1>1, <2>2, <2>3 DEF LoopTop
<1>2. CASE Begin(r)
  <2>1. runner[r].pc = "begin" /\ Busy(r) /\ UNCHANGED driver
    BY <1>2 DEF Begin, At, Busy
  <2>2. CASE Abandon(r)
    BY <2>1, <2>2, AbandonTasks
  <2>3. CASE \/ runner' = [runner EXCEPT ![r].pc = "begun"]
             \/ runner' = [runner EXCEPT ![r].pc = "next"]
    BY <2>1, <2>3, TaskGoesOn
  <2> QED BY <1>2, <2>2, <2>3 DEF Begin
<1>3. CASE Prompt(r)
  <2>1. Busy(r) /\ runner' = [runner EXCEPT ![r].pc = "turn"]
    BY <1>3 DEF Prompt, At, Busy
  <2> QED BY <2>1, TaskGoesOn
<1>4. CASE SteerInto(r)
  <2>1. /\ session'.running = session.running
        /\ Range(session'.waiting) \subseteq Range(session.waiting)
    BY <1>4, SteerSets
  <2>2. UNCHANGED <<runner, caller>> /\ runner[r].pc = "turn"
    BY <1>4 DEF SteerInto, calls, At
  <2>3. Claims' = Claims
    BY <2>2, ClaimsSame DEF Holding
  <2>4. RunningIsHeld'
    BY <1>h, <2>1, <2>3 DEF RunningIsHeld
  <2>5. OneBusy'
    BY <2>2 DEF TasksInv, OneBusy, Busy
  <2>6. InboxIsRead'
    BY <2>2 DEF InboxIsRead
  <2>7. Fetched'
    BY <2>1, <2>2 DEF TasksInv, Fetched, LineIn, Holding
  <2> QED BY <2>4, <2>5, <2>6, <2>7 DEF TasksInv
<1>5. CASE Consume(r)
  <2>1. UNCHANGED <<runner, caller, session>> /\ runner[r].pc = "turn"
    BY <1>5 DEF Consume, calls, At
  <2>2. Claims' = Claims
    BY <2>1, ClaimsSame DEF Holding
  <2>3. RunningIsHeld' /\ OneBusy' /\ Fetched'
    BY <2>1, <2>2 DEF TasksInv, RunningIsHeld, OneBusy, Busy, Fetched, Holding, LineIn
  <2>4. InboxIsRead'
    BY <2>1 DEF InboxIsRead
  <2> QED BY <2>3, <2>4 DEF TasksInv
<1>6. CASE Update(r)
  <2>1. session'.running = session.running /\ session'.waiting = session.waiting
    BY <1>s, <1>6 DEF Update, Sessions
  <2>2. UNCHANGED <<runner, caller, driver>>
    BY <1>6 DEF Update, calls
  <2>3. Claims' = Claims
    BY <2>2, ClaimsSame DEF Holding
  <2>4. RunningIsHeld'
    BY <1>h, <2>1, <2>3 DEF RunningIsHeld
  <2> QED BY <2>1, <2>2, <2>4, TasksKeep
<1>7. CASE TurnEnds(r)
  <2>1. Busy(r) /\ runner' = [runner EXCEPT ![r].pc = "end"]
    BY <1>7 DEF TurnEnds, At, Busy
  <2> QED BY <2>1, TaskGoesOn
<1>8. CASE End(r)
  <2>1. /\ Busy(r) /\ runner' = [runner EXCEPT ![r].pc = "next"]
        /\ driver'.inbox = <<>>
    BY <1>8 DEF End, At, Busy, NoTurn
  <2> QED BY <2>1, TaskGoesOn
<1>9. CASE NextLine(r)
  <2>0. runner[r].pc = "next" /\ UNCHANGED driver
    BY <1>9 DEF NextLine, At
  <2>1. CASE runner' = [runner EXCEPT ![r] = [pc |-> "loop",
                                              line |-> Head(session.waiting)]]
    <3> DEFINE t == [pc |-> "loop", line |-> Head(session.waiting)]
    <3>1. runner' = [runner EXCEPT ![r] = t] /\ t.pc = "loop"
      BY <2>1
    <3> HIDE DEF t
    <3>2. /\ \A s \in Runners : s # r => runner'[s] = runner[s]
          /\ runner'[r].pc = "loop"
      BY <3>1, RunnerIs
    <3>3. RunningIsHeld' /\ Holding(r)' /\ ~Busy(r)'
      BY <3>2 DEF RunningIsHeld, Claims, Holding, Busy
    <3> QED BY <2>0, <3>2, <3>3, TaskSteps
  <2>2. CASE /\ session.waiting = <<>>
             /\ session' = [session EXCEPT !.running = FALSE]
             /\ runner' = [runner EXCEPT ![r].pc = "rest"]
    <3>1. session'.running = FALSE /\ session'.waiting = <<>>
      BY <1>s, <2>2 DEF Sessions
    <3>2. /\ \A s \in Runners : s # r => runner'[s] = runner[s]
          /\ runner'[r].pc = "rest"
      BY <2>2, RunnerAt
    <3>3. RunningIsHeld' /\ ~LineIn(session'.waiting) /\ ~Busy(r)'
      BY <3>1, <3>2, RangeFacts DEF RunningIsHeld, LineIn, Busy
    <3> QED BY <2>0, <3>2, <3>3, TaskSteps
  <2> QED BY <1>9, <2>1, <2>2 DEF NextLine
<1>10. CASE Rest(r)
  <2>0. /\ runner[r].pc = "rest" /\ UNCHANGED <<driver, caller>>
        /\ runner' = [runner EXCEPT ![r] = Free]
    BY <1>10 DEF Rest, At, calls
  <2>1. /\ \A s \in Runners : s # r => runner'[s] = runner[s]
        /\ runner'[r].pc = "free"
    <3>1. /\ \A s \in Runners : s # r => runner'[s] = runner[s]
          /\ runner'[r] = Free
      BY <2>0, RunnerIs
    <3> QED BY <3>1 DEF Free
  <2>2. /\ session'.running = session.running \/ session'.running = FALSE
        /\ session'.waiting = session.waiting
    BY <1>s, <1>10 DEF Rest, Sessions
  <2>3. RunningIsHeld'
    <3>1. Claims' = Claims
      <4>1. \A s \in Runners : Holding(s)' <=> Holding(s)
        BY <2>0, <2>1 DEF Holding
      <4> QED BY <2>0, <4>1, ClaimsSame
    <3> QED BY <1>h, <2>2, <3>1 DEF RunningIsHeld
  <2>4. ~Busy(r)' /\ ~Holding(r)
    BY <2>0, <2>1 DEF Busy, Holding
  <2> QED BY <2>0, <2>1, <2>2, <2>3, <2>4, TaskSteps
<1> QED BY <1>1, <1>2, <1>3, <1>4, <1>5, <1>6, <1>7, <1>8, <1>9, <1>10
    DEF RunnerStep

LEMMA TasksStep ==
  TypeInv /\ QueueInv /\ GateInv /\ TasksInv /\ [Next]_vars => TasksInv'
<1> SUFFICES ASSUME TypeInv, QueueInv, GateInv, TasksInv, [Next]_vars
             PROVE  TasksInv'
  OBVIOUS
<1>t. TypeOK
  BY DEF TypeInv
<1>s. session \in Sessions /\ driver \in Drivers
  BY <1>t DEF TypeOK, Sessions, Drivers
<1>k. ASSUME UNCHANGED <<runner, caller>>, driver'.inbox = driver.inbox,
             session'.running = session.running,
             session'.waiting = session.waiting \/ session'.waiting = <<>>
      PROVE  TasksInv'
  <2>1. Claims' = Claims
    BY <1>k, ClaimsSame DEF Holding
  <2>2. RunningIsHeld'
    BY <1>k, <2>1 DEF TasksInv, RunningIsHeld
  <2>3. LineIn(session'.waiting) => LineIn(session.waiting)
    BY <1>k, RangeFacts DEF LineIn
  <2> QED BY <1>k, <2>2, <2>3, TasksKeep
<1>1. CASE \E c \in Callers : Ask(c) \/ CallerStep(c)
  BY <1>t, <1>1, CallerTasks
<1>2. CASE \E r \in Runners :
             SteerInto(r) \/ Consume(r) \/ Update(r) \/ RunnerStep(r)
  BY <1>t, <1>2, TurnTasks
<1>3. CASE Nudge
  BY <1>t, <1>3, NudgeTasks
<1>4. CASE Cancel \/ Revoke \/ Close \/ StopStep
  <2>1. UNCHANGED <<runner, caller>>
    BY <1>4 DEF Cancel, Revoke, Close, StopStep, Drain, Keep, Finish, Cut, Wait, calls
  <2>2. CASE CutTurn(FALSE) \/ CutTurn(TRUE)
    <3>1. /\ session'.running = session.running /\ session'.waiting = <<>>
          /\ driver'.inbox = driver.inbox
      BY <1>s, <2>2 DEF CutTurn, Sessions, Drivers
    <3> QED BY <1>k, <2>1, <3>1
  <2>3. CASE Revoke
    <3>1. /\ session'.running = session.running /\ session'.waiting = <<>>
          /\ driver'.inbox = driver.inbox
      BY <1>s, <2>3 DEF Revoke, Sessions, Drivers
    <3> QED BY <1>k, <2>1, <3>1
  <2>4. CASE /\ session' = session \/ session' = [session EXCEPT !.waiting = <<>>]
             /\ UNCHANGED driver
    <3>1. CASE session' = session
      BY <1>k, <2>1, <2>4, <3>1
    <3>2. CASE session' = [session EXCEPT !.waiting = <<>>]
      <4>1. session'.running = session.running /\ session'.waiting = <<>>
        BY <1>s, <3>2, SessionFields
      <4> QED BY <1>k, <2>1, <2>4, <4>1
    <3> QED BY <2>4, <3>1, <3>2
  <2> QED BY <1>4, <2>2, <2>3, <2>4
      DEF Cancel, Close, StopStep, Drain, Keep, Finish, Cut, Wait
<1>5. CASE ResumeStep
  <2>1. CASE ResumeHandOver
    <3>1. \A d \in Callers : caller'[d] # "claimed" /\ caller[d] # "claimed"
      BY <1>t, <2>1, PastTheGate DEF ResumeHandOver
    <3>2. Head(resume.todo) \in Items
      BY <2>1, HeadTailProperties
      DEF TypeInv, TypeOK, ResumeHasLine, ResumeHandOver, Items
    <3>3. Dispatch(Head(resume.todo)) /\ UNCHANGED driver
      BY <2>1 DEF ResumeHandOver
    <3> QED BY <1>t, <3>1, <3>2, <3>3, DispatchTasks
  <2>2. CASE UNCHANGED <<session, runner, driver, caller>>
    BY <1>k, <2>2
  <2> QED BY <1>5, <2>1, <2>2
      DEF ResumeStep, ResumeRead, ResumeAdmit, ResumeEnter, ResumeWrite, calls
<1>6. CASE Restart
  <2>1. /\ session' = Fresh /\ driver' = NoTurn
        /\ runner' = [r \in Runners |-> Free]
    BY <1>6 DEF Restart, Started
  <2>2. RunningIsHeld' /\ OneBusy' /\ InboxIsRead'
    BY <2>1 DEF RunningIsHeld, OneBusy, InboxIsRead, Fresh, NoTurn, Free, Busy
  <2>3. Fetched'
    BY <2>1, RangeFacts DEF Fetched, Fresh, LineIn
  <2> QED BY <2>2, <2>3 DEF TasksInv
<1>7. CASE Off \/ UNCHANGED vars
  <2>1. UNCHANGED <<session, runner, driver, caller>>
    BY <1>7 DEF Off, vars, calls
  <2> QED BY <1>k, <2>1
<1> QED BY <1>1, <1>2, <1>3, <1>4, <1>5, <1>6, <1>7 DEF Next

-----------------------------------------------------------------------------
(* Where a step puts the lines it moves.                                   *)
LEMMA PersonsOfOne ==
  ASSUME NEW item \in Items
  PROVE  /\ Persons(<<item>>) \in Seq(Lines)
         /\ Range(Persons(<<item>>)) = {item} \cap Lines
<1>1. <<item>> \in Seq(Items)
  OBVIOUS
<1>2. Range(<<item>>) = {item}
  BY RangeFacts
<1> QED BY <1>1, <1>2, PersonsAreLines

(* The lines that were let go of once.                                     *)
Fated == {l \in Lines : fate[l] # "none"}

LEMMA LoseFated ==
  ASSUME TypeOK, NEW S, NEW how \in Fates, how # "none", Lose(S, how)
  PROVE  Fated' = Fated \cup (S \cap Lines)
<1>1. \A l \in Lines : fate'[l] = IF l \in S THEN how ELSE fate[l]
  BY DEF Lose
<1>2. Fated' = {l \in Lines : fate'[l] # "none"}
  BY DEF Fated
<1> QED BY <1>1, <1>2 DEF Fated

LEMMA FatedSame ==
  ASSUME UNCHANGED fate
  PROVE  Fated' = Fated
BY DEF Fated

LEMMA KeepFated ==
  ASSUME TypeOK, NEW s \in Seq(Lines), KeepPending(s)
  PROVE  /\ Range(file) \subseteq Range(file')
         /\ Range(file') \subseteq Range(file) \cup Range(s)
         /\ Fated \subseteq Fated'
         /\ Range(s) \subseteq Range(file') \cup Fated'
<1>1. CASE file' = Kept(file, s) /\ UNCHANGED fate
  <2>1. Range(Kept(file, s)) = Range(file) \cup Range(s)
    BY KeptAreLines DEF TypeOK
  <2> QED BY <1>1, <2>1, FatedSame
<1>2. CASE Lose(Range(s) \ Range(file), "unwritten") /\ UNCHANGED file
  <2>1. "unwritten" \in Fates /\ "unwritten" # "none"
    BY DEF Fates
  <2>2. Fated' = Fated \cup ((Range(s) \ Range(file)) \cap Lines)
    BY <1>2, <2>1, LoseFated
  <2>3. Range(s) \subseteq Lines
    BY RangeOfSeq
  <2> QED BY <1>2, <2>2, <2>3
<1> QED BY <1>1, <1>2 DEF KeepPending

(* What the steps that move lines do to the sets of lines held.            *)
LEMMA DispatchSets ==
  ASSUME TypeOK, NEW item \in Items, Dispatch(item)
  PROVE  /\ session'.unread = session.unread /\ session'.alive = session.alive
         /\ Range(file) \subseteq Range(file')
         /\ Range(file') \subseteq Range(file) \cup {item}
         /\ Range(session.waiting) \subseteq Range(session'.waiting)
         /\ Range(session'.waiting) \subseteq Range(session.waiting) \cup {item}
         /\ \A s \in Runners :
              \/ runner'[s] = runner[s]
              \/ runner[s].pc = "free" /\ runner'[s] = [pc |-> "loop", line |-> item]
         /\ item \in Lines =>
              \/ closing /\ item \in Range(file') \cup Fated'
              \/ item \in Range(session'.waiting)
              \/ \E s \in Runners : runner'[s] = [pc |-> "loop", line |-> item]
         /\ Fated \subseteq Fated'
         /\ closing => session' = session
<1>s. session \in Sessions /\ session.waiting \in Seq(Items) /\ file \in Seq(Lines)
  BY DEF TypeOK, Sessions
<1>1. CASE closing
  <2>1. KeepPending(Persons(<<item>>)) /\ UNCHANGED <<session, runner>>
    BY <1>1 DEF Dispatch
  <2>2. /\ Persons(<<item>>) \in Seq(Lines)
        /\ Range(Persons(<<item>>)) = {item} \cap Lines
    BY PersonsOfOne
  <2>3. /\ Range(file) \subseteq Range(file') /\ Fated \subseteq Fated'
        /\ Range(file') \subseteq Range(file) \cup Range(Persons(<<item>>))
        /\ Range(Persons(<<item>>)) \subseteq Range(file') \cup Fated'
    BY <2>1, <2>2, KeepFated
  <2> QED BY <1>1, <2>1, <2>2, <2>3
<1>2. CASE ~closing
  <2>1. Claim(item) /\ file' = file /\ Fated' = Fated
    BY <1>2, FatedSame DEF Dispatch
  <2>2. CASE /\ session' = [session EXCEPT !.waiting = Append(@, item)]
             /\ UNCHANGED runner
    <3>1. /\ session'.unread = session.unread /\ session'.alive = session.alive
          /\ session'.waiting = Append(session.waiting, item)
      BY <1>s, <2>2, SessionFields
    <3>2. Range(session'.waiting) = Range(session.waiting) \cup {item}
      <4>1. Range(Append(session.waiting, item)) = Range(session.waiting) \cup {item}
        BY <1>s, RangeFacts
      <4> QED BY <3>1, <4>1
    <3> QED BY <1>2, <2>1, <2>2, <3>1, <3>2
  <2>3. CASE /\ session' = [session EXCEPT !.running = TRUE]
             /\ \E r \in Runners : Spawn(r, item)
    <3>1. /\ session'.unread = session.unread /\ session'.alive = session.alive
          /\ session'.waiting = session.waiting
      BY <1>s, <2>3 DEF Sessions
    <3>2. PICK r \in Runners : Spawn(r, item)
      BY <2>3
    <3>3. /\ \A s \in Runners : s # r => runner'[s] = runner[s]
          /\ runner'[r] = [pc |-> "loop", line |-> item]
          /\ runner[r].pc = "free"
      BY <3>2, RunnerIs DEF Spawn, At
    <3> QED BY <1>2, <2>1, <3>1, <3>3
  <2> QED BY <2>1, <2>2, <2>3 DEF Claim
<1> QED BY <1>1, <1>2

LEMMA EndSets ==
  ASSUME TypeOK, NEW r \in Runners, End(r)
  PROVE  /\ session'.unread = session.unread /\ session'.alive = session.alive
         /\ Range(file) \subseteq Range(file')
         /\ Range(file') \subseteq Range(file) \cup Range(driver.inbox)
         /\ Range(session.waiting) \subseteq Range(session'.waiting)
         /\ Range(session'.waiting)
              \subseteq Range(session.waiting) \cup Range(driver.inbox)
         /\ closing => Range(driver.inbox) \subseteq Range(file') \cup Fated'
         /\ ~closing => Range(driver.inbox) \subseteq Range(session'.waiting)
         /\ Fated \subseteq Fated'
         /\ closing => session' = session
         /\ \A s \in Runners : s # r => runner'[s] = runner[s]
         /\ runner'[r].pc = "next" /\ runner'[r].line = runner[r].line
         /\ driver' = NoTurn /\ runner[r].pc = "end"
<1>s. session \in Sessions /\ session.waiting \in Seq(Items) /\ file \in Seq(Lines)
  BY DEF TypeOK, Sessions
<1>d. driver.inbox \in Seq(Lines) /\ driver.inbox \in Seq(Items)
  BY Widen DEF TypeOK
<1>r. /\ \A s \in Runners : s # r => runner'[s] = runner[s]
      /\ runner'[r].pc = "next" /\ runner'[r].line = runner[r].line
  BY RunnerAt DEF End
<1>e. driver' = NoTurn /\ runner[r].pc = "end"
  BY DEF End, At
<1>1. CASE closing
  <2>1. KeepPending(driver.inbox) /\ UNCHANGED session
    BY <1>1 DEF End
  <2>2. /\ Range(file) \subseteq Range(file') /\ Fated \subseteq Fated'
        /\ Range(file') \subseteq Range(file) \cup Range(driver.inbox)
        /\ Range(driver.inbox) \subseteq Range(file') \cup Fated'
    BY <1>d, <2>1, KeepFated
  <2> QED BY <1>1, <1>r, <1>e, <2>1, <2>2
<1>2. CASE ~closing
  <2>1. /\ session' = [session EXCEPT !.waiting = driver.inbox \o @]
        /\ file' = file /\ Fated' = Fated
    BY <1>2, FatedSame DEF End
  <2>2. /\ session'.unread = session.unread /\ session'.alive = session.alive
        /\ session'.waiting = driver.inbox \o session.waiting
    BY <1>s, <2>1, SessionFields
  <2>3. Range(session'.waiting) = Range(driver.inbox) \cup Range(session.waiting)
    BY <1>s, <1>d, <2>2, RangeConcatenation
  <2> QED BY <1>2, <1>r, <1>e, <2>1, <2>2, <2>3
<1> QED BY <1>1, <1>2

LEMMA NextLineSets ==
  ASSUME TypeOK, NEW r \in Runners, NextLine(r)
  PROVE  /\ session'.unread = session.unread /\ session'.alive = session.alive
         /\ Range(session'.waiting) \subseteq Range(session.waiting)
         /\ Range(session.waiting)
              \subseteq Range(session'.waiting) \cup {runner'[r].line}
         /\ session.waiting # <<>> =>
              /\ runner'[r].pc = "loop"
              /\ runner'[r].line \in Range(session.waiting)
         /\ session.waiting = <<>> =>
              /\ session'.waiting = <<>> /\ runner'[r].line = runner[r].line
              /\ runner'[r].pc = "rest"
         /\ \A s \in Runners : s # r => runner'[s] = runner[s]
         /\ runner[r].pc = "next"
<1>s. session \in Sessions /\ session.waiting \in Seq(Items)
  BY DEF TypeOK, Sessions
<1>e. runner[r].pc = "next"
  BY DEF NextLine, At
<1>1. CASE session.waiting # <<>>
  <2> DEFINE t == [pc |-> "loop", line |-> Head(session.waiting)]
  <2>1. /\ session' = [session EXCEPT !.waiting = Tail(@)]
        /\ runner' = [runner EXCEPT ![r] = t]
        /\ t.pc = "loop" /\ t.line = Head(session.waiting)
    BY <1>1 DEF NextLine
  <2> HIDE DEF t
  <2>2. /\ session'.unread = session.unread /\ session'.alive = session.alive
        /\ session'.waiting = Tail(session.waiting)
    BY <1>s, <2>1, SessionFields
  <2>3. /\ \A s \in Runners : s # r => runner'[s] = runner[s]
        /\ runner'[r].pc = "loop" /\ runner'[r].line = Head(session.waiting)
    BY <2>1, RunnerIs
  <2>4. Range(session.waiting)
          = {Head(session.waiting)} \cup Range(Tail(session.waiting))
    BY <1>s, <1>1, RangeFacts
  <2> QED BY <1>1, <1>e, <2>2, <2>3, <2>4
<1>2. CASE session.waiting = <<>>
  <2>1. /\ session' = [session EXCEPT !.running = FALSE]
        /\ runner' = [runner EXCEPT ![r].pc = "rest"]
    BY <1>2 DEF NextLine
  <2>2. /\ session'.unread = session.unread /\ session'.alive = session.alive
        /\ session'.waiting = session.waiting
    BY <1>s, <2>1 DEF Sessions
  <2>3. /\ \A s \in Runners : s # r => runner'[s] = runner[s]
        /\ runner'[r].pc = "rest" /\ runner'[r].line = runner[r].line
    BY <2>1, RunnerAt
  <2> QED BY <1>2, <1>e, <2>2, <2>3
<1> QED BY <1>1, <1>2
-----------------------------------------------------------------------------
(* What is held anywhere has been said, and the tape has no gaps.          *)
Said == {l \in Lines : tape[l] # "unsaid"} \cup {Other}
TapeIsPrefix ==
  \A k, l \in Lines : k < l /\ tape[k] = "unsaid" => tape[l] = "unsaid"
SaidInv ==
  /\ TapeIsPrefix
  /\ Range(file) \subseteq Said
  /\ Range(session.waiting) \subseteq Said
  /\ session.unread \subseteq Said
  /\ Range(driver.inbox) \subseteq Said
  /\ \A r \in Runners : runner[r].line \in Said
  /\ Range(resume.todo) \subseteq Said
  /\ Range(resume.left) \subseteq Said
  /\ Range(stop.kept) \subseteq Said

LEMMA SaidStays ==
  ASSUME UNCHANGED tape
  PROVE  Said' = Said /\ (TapeIsPrefix => TapeIsPrefix')
BY DEF Said, TapeIsPrefix

LEMMA CutSets ==
  ASSUME TypeOK, NEW byRestart, CutTurn(byRestart)
  PROVE  /\ session'.waiting = <<>> /\ session'.unread = {}
         /\ session'.alive = session.alive /\ session'.running = session.running
         /\ driver'.inbox = driver.inbox /\ driver'.cancelled = TRUE
<1>s. session \in Sessions /\ driver \in Drivers
  BY DEF TypeOK, Sessions, Drivers
<1>1. session' = [session EXCEPT !.waiting = <<>>, !.unread = {}]
  BY DEF CutTurn
<1>2. /\ session'.waiting = <<>> /\ session'.unread = {}
      /\ session'.alive = session.alive /\ session'.running = session.running
  BY <1>s, <1>1 DEF Sessions
<1>3. driver'.inbox = driver.inbox /\ driver'.cancelled = TRUE
  <2>1. CASE driver.cancelled
    <3>1. driver' = driver
      BY <2>1 DEF CutTurn
    <3> QED BY <1>s, <2>1, <3>1 DEF Drivers
  <2>2. CASE ~driver.cancelled
    <3>1. driver' = [driver EXCEPT !.cancelled = TRUE, !.byRestart = byRestart]
      BY <2>2 DEF CutTurn
    <3> QED BY <1>s, <3>1 DEF Drivers
  <2> QED BY <2>1, <2>2
<1> QED BY <1>2, <1>3

(* The resume's list, as its head is settled, handed on or left.           *)
LEMMA TodoSets ==
  ASSUME TypeOK, resume.todo # <<>>
  PROVE  /\ Head(resume.todo) \in Lines
         /\ Range(resume.todo) = {Head(resume.todo)} \cup Range(Tail(resume.todo))
         /\ Range(Append(resume.left, Head(resume.todo)))
              = Range(resume.left) \cup {Head(resume.todo)}
<1>1. resume.todo \in Seq(Lines) /\ resume.left \in Seq(Lines)
  BY DEF TypeOK
<1>2. Head(resume.todo) \in Lines
  BY <1>1, HeadTailProperties
<1>3. Range(resume.todo) = {Head(resume.todo)} \cup Range(Tail(resume.todo))
  BY <1>1, RangeFacts
<1>4. Range(Append(resume.left, Head(resume.todo)))
        = Range(resume.left) \cup {Head(resume.todo)}
  BY <1>1, <1>2, RangeFacts
<1> QED BY <1>2, <1>3, <1>4

LEMMA LeavingSets ==
  ASSUME TypeOK, resume.todo # <<>>, resume' = Leaving(Head(resume.todo))
  PROVE  /\ Range(resume'.todo) \cup Range(resume'.left)
              = Range(resume.todo) \cup Range(resume.left)
         /\ resume'.pc = "each"
<1>1. /\ resume'.todo = Tail(resume.todo) /\ resume'.pc = "each"
      /\ resume'.left = Append(resume.left, Head(resume.todo))
  BY DEF Leaving
<1> QED BY <1>1, TodoSets

LEMMA ResumeAdmitSets ==
  ASSUME TypeOK, ResumeAdmit
  PROVE  /\ Range(resume'.todo) \cup Range(resume'.left)
              \subseteq Range(resume.todo) \cup Range(resume.left)
         /\ \A l \in Range(resume.todo) \cup Range(resume.left) :
              \/ l \in Range(resume'.todo) \cup Range(resume'.left)
              \/ l \in Fated' \cup taken
         /\ resume.pc = "each" /\ resume'.pc \in {"each", "admitted"}
         /\ closing => resume'.pc = "each"
         /\ Fated \subseteq Fated'
         /\ UNCHANGED <<tape, file, session, driver, calls, runner, stop, told>>
<1>1. /\ resume.pc = "each" /\ resume.todo # <<>>
      /\ UNCHANGED <<tape, file, session, driver, calls, runner, stop, told>>
  BY DEF ResumeAdmit
<1>r. resume \in Resumes
  BY DEF TypeOK, Resumes
<1>t. Range(resume.todo) = {Head(resume.todo)} \cup Range(Tail(resume.todo))
  BY <1>1, TodoSets
<1>2. CASE tape[Head(resume.todo)] = "read"
  <2>1. /\ resume' = [resume EXCEPT !.todo = Tail(@)]
        /\ Lose({Head(resume.todo)} \ taken, "skipped")
    BY <1>2 DEF ResumeAdmit
  <2>2. /\ resume'.todo = Tail(resume.todo) /\ resume'.left = resume.left
        /\ resume'.pc = "each"
    BY <1>1, <1>r, <2>1 DEF Resumes
  <2>3. "skipped" \in Fates /\ "skipped" # "none"
    BY DEF Fates
  <2>4. Fated' = Fated \cup (({Head(resume.todo)} \ taken) \cap Lines)
    BY <2>1, <2>3, LoseFated
  <2>5. Head(resume.todo) \in Lines
    BY <1>1, TodoSets
  <2> QED BY <1>1, <1>t, <2>2, <2>4, <2>5
<1>3. CASE resume' = Leaving(Head(resume.todo)) /\ UNCHANGED fate
  BY <1>1, <1>3, LeavingSets, FatedSame
<1>4. CASE /\ resume' = [resume EXCEPT !.pc = "admitted"]
           /\ ~closing /\ UNCHANGED fate
  <2>1. /\ resume'.todo = resume.todo /\ resume'.left = resume.left
        /\ resume'.pc = "admitted"
    BY <1>r, <1>4 DEF Resumes
  <2> QED BY <1>1, <1>4, <2>1, FatedSame
<1> QED BY <1>2, <1>3, <1>4 DEF ResumeAdmit

(* Each step keeps SaidInv: one lemma for each group of actions.           *)
LEMMA SaidSame ==
  ASSUME SaidInv, UNCHANGED tape,
         Range(file') \subseteq Said,
         Range(session'.waiting) \subseteq Said,
         session'.unread \subseteq Said,
         Range(driver'.inbox) \subseteq Said,
         \A r \in Runners : runner'[r].line \in Said,
         Range(resume'.todo) \subseteq Said,
         Range(resume'.left) \subseteq Said,
         Range(stop'.kept) \subseteq Said
  PROVE  SaidInv'
<1>1. Said' = Said /\ TapeIsPrefix'
  BY SaidStays DEF SaidInv
<1>2. /\ Range(file)' = Range(file') /\ Range(session.waiting)' = Range(session'.waiting)
      /\ Range(driver.inbox)' = Range(driver'.inbox)
      /\ Range(resume.todo)' = Range(resume'.todo)
      /\ Range(resume.left)' = Range(resume'.left)
      /\ Range(stop.kept)' = Range(stop'.kept)
  OBVIOUS
<1> QED BY <1>1, <1>2 DEF SaidInv

LEMMA CallerSaid ==
  ASSUME TypeInv, TypeOK, SaidInv, NEW c \in Callers, Ask(c) \/ CallerStep(c)
  PROVE  SaidInv'
<1>s. session \in Sessions
  BY DEF TypeOK, Sessions
<1>1. CASE Ask(c) \/ Enter(c) \/ Refuse(c)
  <2>1. UNCHANGED <<tape, file, session, driver, runner, resume, stop>>
    BY <1>1 DEF Ask, Enter, Refuse
  <2> QED BY <2>1, SaidSame DEF SaidInv
<1>2. CASE Say(c)
  <2>1. PICK l \in Lines : /\ tape[l] = "unsaid"
                           /\ \A k \in 1..(l - 1) : tape[k] # "unsaid"
                           /\ tape' = [tape EXCEPT ![l] = "sent"]
    BY <1>2 DEF Say
  <2>2. tape'[l] = "sent" /\ \A k \in Lines : k # l => tape'[k] = tape[k]
    BY <2>1 DEF TypeOK
  <2>3. Said \subseteq Said'
    BY <2>2 DEF Said
  <2>4. TapeIsPrefix'
    <3>1. SUFFICES ASSUME NEW k \in Lines, NEW m \in Lines, k < m,
                          tape'[k] = "unsaid"
                   PROVE  tape'[m] = "unsaid"
      BY DEF TapeIsPrefix
    <3>2. k # l /\ tape[k] = "unsaid"
      BY <2>2, <3>1
    <3>3. k \notin 1..(l - 1) /\ k \in Nat /\ l \in Nat /\ k >= 1
      BY <2>1, <3>2 DEF Lines
    <3>4. m # l
      BY <3>1, <3>2, <3>3
    <3> QED BY <2>2, <3>1, <3>2, <3>4 DEF SaidInv, TapeIsPrefix
  <2>5. UNCHANGED <<file, session, driver, runner, resume, stop>>
    BY <1>2 DEF Say
  <2> QED BY <2>3, <2>4, <2>5 DEF SaidInv
<1>3. ASSUME NEW item \in Said, Dispatch(item),
             UNCHANGED <<tape, driver, resume, stop>>
      PROVE  SaidInv'
  <2>1. item \in Items
    BY DEF Said, Items
  <2>2. /\ session'.unread = session.unread
        /\ Range(file') \subseteq Range(file) \cup {item}
        /\ Range(session'.waiting) \subseteq Range(session.waiting) \cup {item}
        /\ \A s \in Runners :
              \/ runner'[s] = runner[s]
              \/ runner[s].pc = "free" /\ runner'[s] = [pc |-> "loop", line |-> item]
    BY <1>3, <2>1, DispatchSets
  <2>3. \A s \in Runners : runner'[s].line \in Said
    BY <2>2 DEF SaidInv
  <2> QED BY <1>3, <2>2, <2>3, SaidSame DEF SaidInv
<1>4. CASE HandOver(c)
  <2>1. Latest \in Said
    BY <1>4, LatestIsSaid DEF TypeInv, SaidFirst, HandOver, Said
  <2> QED BY <1>3, <1>4, <2>1 DEF HandOver
<1>5. CASE Deliver(c)
  <2>1. Other \in Said
    BY DEF Said
  <2> QED BY <1>3, <1>5, <2>1 DEF Deliver
<1>6. CASE ClaimIdle(c)
  <2>1. session'.waiting = session.waiting /\ session'.unread = session.unread
    BY <1>s, <1>6 DEF ClaimIdle, Sessions
  <2>2. UNCHANGED <<tape, file, driver, runner, resume, stop>>
    BY <1>6 DEF ClaimIdle
  <2> QED BY <2>1, <2>2, SaidSame DEF SaidInv
<1>7. CASE DeliverClaimed(c)
  <2>1. session'.waiting = session.waiting /\ session'.unread = session.unread
    BY <1>s, <1>7 DEF DeliverClaimed, Sessions
  <2>2. UNCHANGED <<tape, file, driver, resume, stop>>
    BY <1>7 DEF DeliverClaimed
  <2>3. \A s \in Runners : runner'[s].line \in Said
    <3>1. CASE \E r \in Runners : Spawn(r, Other)
      <4>1. PICK r \in Runners : Spawn(r, Other)
        BY <3>1
      <4>2. /\ \A s \in Runners : s # r => runner'[s] = runner[s]
            /\ runner'[r] = [pc |-> "loop", line |-> Other]
        BY <4>1, RunnerIs DEF Spawn
      <4> QED BY <4>2 DEF SaidInv, Said
    <3>2. CASE UNCHANGED runner
      BY <3>2 DEF SaidInv
    <3> QED BY <1>7, <3>1, <3>2 DEF DeliverClaimed
  <2> QED BY <2>1, <2>2, <2>3, SaidSame DEF SaidInv
<1> QED BY <1>1, <1>2, <1>4, <1>5, <1>6, <1>7 DEF CallerStep

LEMMA NudgeSets ==
  ASSUME TypeOK, Nudge
  PROVE  /\ session'.unread = session.unread /\ session'.alive = session.alive
         /\ Range(session.waiting) \subseteq Range(session'.waiting)
         /\ Range(session'.waiting) \subseteq Range(session.waiting) \cup {Other}
         /\ \A s \in Runners :
              \/ runner'[s] = runner[s]
              \/ /\ runner[s].pc = "free"
                 /\ runner'[s] = [pc |-> "loop", line |-> Other]
<1>s. session \in Sessions /\ session.waiting \in Seq(Items) /\ Other \in Items
  BY DEF TypeOK, Sessions, Items
<1>1. CASE /\ session' = [session EXCEPT !.waiting = Append(@, Other)]
           /\ UNCHANGED runner
  <2>1. /\ session'.unread = session.unread /\ session'.alive = session.alive
        /\ session'.waiting = Append(session.waiting, Other)
    BY <1>s, <1>1, SessionFields
  <2>2. Range(Append(session.waiting, Other)) = Range(session.waiting) \cup {Other}
    BY <1>s, RangeFacts
  <2> QED BY <1>1, <2>1, <2>2
<1>2. CASE /\ session' = [session EXCEPT !.running = TRUE]
           /\ \E r \in Runners : Spawn(r, Other)
  <2>1. /\ session'.unread = session.unread /\ session'.alive = session.alive
        /\ session'.waiting = session.waiting
    BY <1>s, <1>2 DEF Sessions
  <2>2. PICK r \in Runners : Spawn(r, Other)
    BY <1>2
  <2>3. /\ \A s \in Runners : s # r => runner'[s] = runner[s]
        /\ runner'[r] = [pc |-> "loop", line |-> Other]
        /\ runner[r].pc = "free"
    BY <2>2, RunnerIs DEF Spawn, At
  <2> QED BY <2>1, <2>3
<1>3. CASE /\ session' = [session EXCEPT !.waiting = <<Other>> \o @]
           /\ UNCHANGED runner
  <2>1. /\ session'.unread = session.unread /\ session'.alive = session.alive
        /\ session'.waiting = <<Other>> \o session.waiting
    BY <1>s, <1>3, SessionFields
  <2>2. PICK x \in Items : x = Other
    BY <1>s
  <2>3. <<x>> \in Seq(Items)
    OBVIOUS
  <2>4. Range(<<x>>) = {x}
    BY RangeFacts
  <2>5. Range(<<x>> \o session.waiting) = Range(<<x>>) \cup Range(session.waiting)
    BY <1>s, <2>3, RangeConcatenation, ZenonT(60)
  <2> QED BY <1>3, <2>1, <2>2, <2>4, <2>5
<1> QED BY <1>1, <1>2, <1>3 DEF Nudge, Claim

LEMMA LetGoFated ==
  ASSUME TypeOK, NEW s \in Seq(Items), LetGo(s)
  PROVE  Fated \subseteq Fated' /\ Range(s) \ {Other} \subseteq Fated'
<1>1. "stopped" \in Fates /\ "stopped" # "none"
  BY DEF Fates
<1>2. Fated' = Fated \cup ((Range(s) \ {Other}) \cap Lines)
  BY <1>1, LoseFated DEF LetGo
<1>3. Range(s) \ {Other} \subseteq Lines
  BY RangeOfSeq DEF Items
<1> QED BY <1>2, <1>3

(* A task between two of its points, with the lines it moves.              *)
LEMMA AbandonSets ==
  ASSUME TypeOK, NEW r \in Runners, Abandon(r)
  PROVE  /\ session'.waiting = <<>> /\ session'.unread = session.unread
         /\ session'.alive = session.alive /\ ~session.alive
         /\ \A s \in Runners : s # r => runner'[s] = runner[s]
         /\ runner'[r].pc = "rest" /\ runner'[r].line = runner[r].line
         /\ Fated \subseteq Fated'
         /\ Range(session.waiting) \ {Other} \subseteq Fated'
         /\ runner[r].line # Other => runner[r].line \in Fated'
<1>s. session \in Sessions /\ session.waiting \in Seq(Items)
  BY DEF TypeOK, Sessions
<1>1. /\ session' = [session EXCEPT !.waiting = <<>>, !.running = FALSE]
      /\ ~session.alive
      /\ LetGo(session.waiting \o <<runner[r].line>>)
  BY DEF Abandon, answering
<1>2. /\ session'.waiting = <<>> /\ session'.unread = session.unread
      /\ session'.alive = session.alive
  BY <1>s, <1>1 DEF Sessions
<1>3. /\ \A s \in Runners : s # r => runner'[s] = runner[s]
      /\ runner'[r].pc = "rest" /\ runner'[r].line = runner[r].line
  BY RunnerAt DEF Abandon
<1>4. Range(session.waiting \o <<runner[r].line>>)
        = Range(session.waiting) \cup {runner[r].line}
  <2>1. PICK x : x = runner[r].line
    OBVIOUS
  <2>2. x \in Items
    BY <2>1 DEF TypeOK
  <2>3. <<x>> \in Seq(Items)
    BY <2>2
  <2>4. Range(<<x>>) = {x}
    BY RangeFacts
  <2>5. Range(session.waiting \o <<x>>) = Range(session.waiting) \cup Range(<<x>>)
    BY <1>s, <2>3, RangeConcatenation, ZenonT(60)
  <2> QED BY <2>1, <2>4, <2>5
<1>5. session.waiting \o <<runner[r].line>> \in Seq(Items)
  BY <1>s DEF TypeOK
<1>6. /\ Fated \subseteq Fated'
      /\ Range(session.waiting \o <<runner[r].line>>) \ {Other} \subseteq Fated'
  BY <1>1, <1>5, LetGoFated
<1> QED BY <1>1, <1>2, <1>3, <1>4, <1>6

LEMMA TellSets ==
  ASSUME NEW item \in Items, Tell(<<item>>)
  PROVE  taken' = taken \cup ({item} \cap Lines)
BY PersonsOfOne DEF Tell

LEMMA InboxSets ==
  ASSUME TypeOK, NEW r \in Runners, Consume(r)
  PROVE  /\ driver'.inbox = Tail(driver.inbox)
         /\ Range(driver.inbox) = {Head(driver.inbox)} \cup Range(driver'.inbox)
         /\ Range(driver.inbox) \subseteq Range(driver'.inbox) \cup taken'
         /\ taken \subseteq taken'
<1>d. driver \in Drivers /\ driver.inbox \in Seq(Lines) /\ driver.inbox # <<>>
  BY DEF TypeOK, Drivers, Consume
<1>1. driver'.inbox = Tail(driver.inbox)
  BY <1>d DEF Consume, Drivers
<1>2. Range(driver.inbox) = {Head(driver.inbox)} \cup Range(Tail(driver.inbox))
  BY <1>d, RangeFacts
<1>3. Head(driver.inbox) \in Lines /\ Head(driver.inbox) \in Items
  BY <1>d, HeadTailProperties DEF Items
<1>4. taken' = taken \cup ({Head(driver.inbox)} \cap Lines)
  BY <1>3, TellSets DEF Consume
<1> QED BY <1>1, <1>2, <1>3, <1>4

LEMMA SteerSaid ==
  ASSUME TypeOK, SaidInv, NEW r \in Runners, SteerInto(r)
  PROVE  SaidInv'
<1>1. PICK given \in Seq(Lines) :
        /\ Range(given) \subseteq Range(session.waiting) \cap (Lines \ Spoken)
        /\ Range(session'.waiting) \subseteq Range(session.waiting)
        /\ session'.unread = session.unread \cup Range(given)
        /\ driver'.inbox = driver.inbox \o given
  BY SteerSets
<1>2. driver.inbox \in Seq(Lines)
  BY DEF TypeOK
<1>3. Range(driver.inbox \o given) = Range(driver.inbox) \cup Range(given)
  BY <1>2, RangeConcatenation
<1>4. UNCHANGED <<tape, file, runner, resume, stop>>
  BY DEF SteerInto
<1> QED BY <1>1, <1>3, <1>4, SaidSame DEF SaidInv

LEMMA TurnSaid ==
  ASSUME TypeOK, SaidInv, NEW r \in Runners,
         SteerInto(r) \/ Consume(r) \/ Update(r) \/ RunnerStep(r)
  PROVE  SaidInv'
<1>s. session \in Sessions /\ driver \in Drivers
  BY DEF TypeOK, Sessions, Drivers
<1>z. Range(<<>>) = {} /\ Other \in Said
  BY RangeFacts DEF Said
<1>a. ASSUME Abandon(r), UNCHANGED <<tape, file, driver, resume, stop>>
      PROVE  SaidInv'
  <2>1. /\ session'.waiting = <<>> /\ session'.unread = session.unread
        /\ \A s \in Runners : s # r => runner'[s] = runner[s]
        /\ runner'[r].line = runner[r].line
    BY <1>a, AbandonSets
  <2>2. \A s \in Runners : runner'[s].line \in Said
    BY <2>1 DEF SaidInv
  <2> QED BY <1>a, <1>z, <2>1, <2>2, SaidSame DEF SaidInv
<1>g. ASSUME NEW pc, runner' = [runner EXCEPT ![r].pc = pc]
      PROVE  \A s \in Runners : runner'[s].line \in Said
  <2>1. /\ \A s \in Runners : s # r => runner'[s] = runner[s]
        /\ runner'[r].line = runner[r].line
    BY <1>g, RunnerAt
  <2> QED BY <2>1 DEF SaidInv
<1>1. CASE LoopTop(r)
  <2>1. UNCHANGED <<tape, file, driver, resume, stop>>
    BY <1>1 DEF LoopTop
  <2>2. CASE Abandon(r)
    BY <1>a, <2>1, <2>2
  <2>3. CASE /\ runner' = [runner EXCEPT ![r].pc = "begin"]
             /\ UNCHANGED session
    BY <1>g, <2>1, <2>3, SaidSame DEF SaidInv
  <2> QED BY <1>1, <2>2, <2>3 DEF LoopTop
<1>2. CASE Begin(r)
  <2>1. UNCHANGED <<tape, file, driver, resume, stop>>
    BY <1>2 DEF Begin
  <2>2. CASE Abandon(r)
    BY <1>a, <2>1, <2>2
  <2>3. CASE /\ session' = [session EXCEPT !.shown = "thinking",
                              !.unread = @ \cup ({runner[r].line} \ {Other})]
             /\ runner' = [runner EXCEPT ![r].pc = "begun"]
    <3>1. /\ session'.waiting = session.waiting
          /\ session'.unread = session.unread \cup ({runner[r].line} \ {Other})
      BY <1>s, <2>3 DEF Sessions
    <3> QED BY <1>g, <2>1, <2>3, <3>1, SaidSame DEF SaidInv
  <2>4. CASE /\ session' = [session EXCEPT !.shown = "thinking"]
             /\ runner' = [runner EXCEPT ![r].pc = "next"]
    <3>1. session'.waiting = session.waiting /\ session'.unread = session.unread
      BY <1>s, <2>4 DEF Sessions
    <3> QED BY <1>g, <2>1, <2>4, <3>1, SaidSame DEF SaidInv
  <2> QED BY <1>2, <2>2, <2>3, <2>4 DEF Begin
<1>3. CASE Prompt(r)
  <2>1. /\ UNCHANGED <<tape, file, session, resume, stop>>
        /\ runner' = [runner EXCEPT ![r].pc = "turn"]
        /\ driver'.inbox = <<>>
    BY <1>3 DEF Prompt, NoTurn
  <2> QED BY <1>g, <1>z, <2>1, SaidSame DEF SaidInv
<1>4. CASE SteerInto(r)
  BY <1>4, SteerSaid
<1>5. CASE Consume(r)
  <2>1. Range(driver'.inbox) \subseteq Range(driver.inbox)
    BY <1>5, InboxSets
  <2>2. UNCHANGED <<tape, file, session, runner, resume, stop>>
    BY <1>5 DEF Consume
  <2> QED BY <2>1, <2>2, SaidSame DEF SaidInv
<1>6. CASE Update(r)
  <2>1. session'.waiting = session.waiting /\ session'.unread = {}
    BY <1>s, <1>6 DEF Update, Sessions
  <2>2. UNCHANGED <<file, driver, runner, resume, stop>>
    BY <1>6 DEF Update
  <2>3. \A l \in Lines : tape'[l] = IF l \in session.unread THEN "read" ELSE tape[l]
    BY <1>6 DEF Update, Read
  <2>4. \A l \in Lines : tape'[l] = "unsaid" <=> tape[l] = "unsaid"
    <3>1. \A l \in Lines : l \in session.unread => tape[l] # "unsaid"
      BY BoundsAssumption DEF SaidInv, Said, Lines, Other
    <3> QED BY <2>3, <3>1
  <2>5. Said' = Said /\ TapeIsPrefix'
    BY <2>4 DEF SaidInv, Said, TapeIsPrefix
  <2> QED BY <2>1, <2>2, <2>5 DEF SaidInv
<1>7. CASE TurnEnds(r)
  <2>1. /\ UNCHANGED <<tape, file, session, resume, stop>>
        /\ runner' = [runner EXCEPT ![r].pc = "end"]
        /\ driver' = driver \/ driver'.inbox = <<>>
    BY <1>7 DEF TurnEnds, NoTurn
  <2> QED BY <1>g, <1>z, <2>1, SaidSame DEF SaidInv
<1>8. CASE End(r)
  <2>1. /\ session'.unread = session.unread
        /\ Range(file') \subseteq Range(file) \cup Range(driver.inbox)
        /\ Range(session'.waiting)
             \subseteq Range(session.waiting) \cup Range(driver.inbox)
        /\ \A s \in Runners : s # r => runner'[s] = runner[s]
        /\ runner'[r].line = runner[r].line
        /\ driver' = NoTurn
    BY <1>8, EndSets
  <2>2. driver'.inbox = <<>>
    BY <2>1 DEF NoTurn
  <2>3. UNCHANGED <<tape, resume, stop>>
    BY <1>8 DEF End
  <2>4. \A s \in Runners : runner'[s].line \in Said
    BY <2>1 DEF SaidInv
  <2> QED BY <1>z, <2>1, <2>2, <2>3, <2>4, SaidSame DEF SaidInv
<1>9. CASE NextLine(r)
  <2>1. /\ session'.unread = session.unread
        /\ Range(session'.waiting) \subseteq Range(session.waiting)
        /\ runner'[r].line \in Range(session.waiting) \cup {runner[r].line}
        /\ \A s \in Runners : s # r => runner'[s] = runner[s]
    BY <1>9, NextLineSets
  <2>2. \A s \in Runners : runner'[s].line \in Said
    BY <2>1 DEF SaidInv
  <2>3. UNCHANGED <<tape, file, driver, resume, stop>>
    BY <1>9 DEF NextLine
  <2> QED BY <2>1, <2>2, <2>3, SaidSame DEF SaidInv
<1>10. CASE Rest(r)
  <2>1. session'.waiting = session.waiting /\ session'.unread = session.unread
    BY <1>s, <1>10 DEF Rest, Sessions
  <2>2. /\ \A s \in Runners : s # r => runner'[s] = runner[s]
        /\ runner'[r] = Free
    BY <1>10, RunnerIs DEF Rest
  <2>3. \A s \in Runners : runner'[s].line \in Said
    BY <1>z, <2>2 DEF SaidInv, Free
  <2>4. UNCHANGED <<tape, file, driver, resume, stop>>
    BY <1>10 DEF Rest
  <2> QED BY <2>1, <2>3, <2>4, SaidSame DEF SaidInv
<1> QED BY <1>1, <1>2, <1>3, <1>4, <1>5, <1>6, <1>7, <1>8, <1>9, <1>10
    DEF RunnerStep

LEMMA DrainSets ==
  ASSUME TypeOK, Drain
  PROVE  /\ session'.alive = session.alive /\ session'.unread = session.unread
         /\ session'.running = session.running
         /\ stop'.pc = "keep" /\ stop'.shut = stop.shut
         /\ session.alive => /\ session'.waiting = <<>>
                             /\ Range(stop'.kept) = Range(session.waiting) \cap Lines
         /\ ~session.alive => session' = session /\ stop'.kept = stop.kept
<1>s. session \in Sessions /\ stop \in Stops /\ session.waiting \in Seq(Items)
  BY DEF TypeOK, Sessions, Stops
<1>1. CASE session.alive
  <2>1. /\ stop' = [stop EXCEPT !.pc = "keep", !.kept = Persons(session.waiting)]
        /\ session' = [session EXCEPT !.waiting = <<>>]
    BY <1>1 DEF Drain, answering
  <2>2. Range(Persons(session.waiting)) = Range(session.waiting) \cap Lines
    BY <1>s, PersonsAreLines
  <2>3. /\ stop'.pc = "keep" /\ stop'.shut = stop.shut
        /\ stop'.kept = Persons(session.waiting)
    BY <1>s, <2>1 DEF Stops
  <2>4. /\ session'.alive = session.alive /\ session'.unread = session.unread
        /\ session'.running = session.running /\ session'.waiting = <<>>
    BY <1>s, <2>1, SessionFields
  <2> QED BY <1>1, <2>2, <2>3, <2>4
<1>2. CASE ~session.alive
  <2>1. stop' = [stop EXCEPT !.pc = "keep"] /\ session' = session
    BY <1>2 DEF Drain, answering
  <2>2. stop'.pc = "keep" /\ stop'.shut = stop.shut /\ stop'.kept = stop.kept
    BY <1>s, <2>1 DEF Stops
  <2> QED BY <1>2, <2>1, <2>2
<1> QED BY <1>1, <1>2

LEMMA KeepSets ==
  ASSUME TypeOK, Keep
  PROVE  /\ Range(file) \subseteq Range(file')
         /\ Range(file') \subseteq Range(file) \cup Range(stop.kept)
         /\ Range(stop.kept) \subseteq Range(file') \cup Fated'
         /\ Fated \subseteq Fated'
         /\ stop'.pc = "finish" /\ stop'.kept = <<>> /\ stop'.shut = stop.shut
         /\ stop.pc = "keep"
<1>s. stop \in Stops /\ file \in Seq(Lines) /\ stop.kept \in Seq(Lines)
  BY DEF TypeOK, Stops
<1>1. /\ Range(file) \subseteq Range(file') /\ Fated \subseteq Fated'
      /\ Range(file') \subseteq Range(file) \cup Range(stop.kept)
      /\ Range(stop.kept) \subseteq Range(file') \cup Fated'
  BY <1>s, KeepFated DEF Keep
<1>2. stop'.pc = "finish" /\ stop'.kept = <<>> /\ stop'.shut = stop.shut
  BY <1>s DEF Keep, Stops
<1> QED BY <1>1, <1>2 DEF Keep

LEMMA ShutOutSets ==
  ASSUME TypeOK, NEW next, ShutOut(next)
  PROVE  /\ stop'.kept = stop.kept
         /\ \/ ~Working /\ stop'.pc = "synced" /\ stop'.shut = TRUE
            \/ Working /\ stop'.pc = next /\ stop'.shut = stop.shut
<1>s. stop \in Stops
  BY DEF TypeOK, Stops
<1>1. CASE ~Working /\ stop' = [stop EXCEPT !.pc = "synced", !.shut = TRUE]
  BY <1>s, <1>1 DEF Stops
<1>2. CASE Working /\ stop' = [stop EXCEPT !.pc = next]
  BY <1>s, <1>2 DEF Stops
<1> QED BY <1>1, <1>2 DEF ShutOut

LEMMA StopSaid ==
  ASSUME TypeOK, SaidInv, Cancel \/ Revoke \/ Close \/ StopStep
  PROVE  SaidInv'
<1>s. session \in Sessions /\ driver \in Drivers /\ stop \in Stops
  BY DEF TypeOK, Sessions, Drivers, Stops
<1>z. Range(<<>>) = {}
  BY RangeFacts
<1>1. ASSUME NEW byRestart, CutTurn(byRestart),
             UNCHANGED <<tape, file, runner, resume>>, stop'.kept = stop.kept
      PROVE  SaidInv'
  <2>1. /\ session'.waiting = <<>> /\ session'.unread = {}
        /\ driver'.inbox = driver.inbox
    BY <1>1, CutSets
  <2> QED BY <1>1, <1>z, <2>1, SaidSame DEF SaidInv
<1>2. CASE Cancel
  BY <1>1, <1>2 DEF Cancel
<1>3. CASE Revoke
  <2>1. /\ session'.waiting = <<>> /\ session'.unread = session.unread
        /\ driver'.inbox = driver.inbox
    BY <1>s, <1>3 DEF Revoke, Sessions, Drivers
  <2>2. UNCHANGED <<tape, file, runner, resume, stop>>
    BY <1>3 DEF Revoke
  <2> QED BY <1>z, <2>1, <2>2, SaidSame DEF SaidInv
<1>4. ASSUME UNCHANGED <<tape, file, session, driver, runner, resume>>,
             stop'.kept = stop.kept
      PROVE  SaidInv'
  BY <1>4, SaidSame DEF SaidInv
<1>5. CASE Close
  <2>1. stop'.kept = stop.kept
    BY <1>s, <1>5 DEF Close, Stops
  <2> QED BY <1>4, <1>5, <2>1 DEF Close
<1>6. CASE Drain
  <2>1. Range(session'.waiting) \subseteq Range(session.waiting)
    BY <1>6, <1>z, DrainSets
  <2>2. Range(stop'.kept) \subseteq Range(session.waiting) \cup Range(stop.kept)
    BY <1>6, DrainSets
  <2>3. session'.unread = session.unread
    BY <1>6, DrainSets
  <2>4. UNCHANGED <<tape, file, driver, runner, resume>>
    BY <1>6 DEF Drain
  <2> QED BY <2>1, <2>2, <2>3, <2>4, SaidSame DEF SaidInv
<1>7. CASE Keep
  <2>1. /\ Range(file') \subseteq Range(file) \cup Range(stop.kept)
        /\ stop'.kept = <<>>
    BY <1>7, KeepSets
  <2>2. UNCHANGED <<tape, session, driver, runner, resume>>
    BY <1>7 DEF Keep
  <2> QED BY <1>z, <2>1, <2>2, SaidSame DEF SaidInv
<1>8. CASE Finish
  <2>1. stop'.kept = stop.kept
    BY <1>8, ShutOutSets DEF Finish
  <2> QED BY <1>4, <1>8, <2>1 DEF Finish
<1>9. CASE Cut
  <2>1. stop'.kept = stop.kept
    BY <1>s, <1>9 DEF Cut, Stops
  <2> QED BY <1>1, <1>4, <1>9, <2>1 DEF Cut
<1>10. CASE Wait
  <2>1. stop'.kept = stop.kept
    BY <1>10, ShutOutSets DEF Wait
  <2> QED BY <1>4, <1>10, <2>1 DEF Wait
<1> QED BY <1>2, <1>3, <1>5, <1>6, <1>7, <1>8, <1>9, <1>10 DEF StopStep

LEMMA ResumeSaid ==
  ASSUME TypeInv, TypeOK, SaidInv, ResumeStep
  PROVE  SaidInv'
<1>s. resume \in Resumes
  BY DEF TypeOK, Resumes
<1>z. Range(<<>>) = {}
  BY RangeFacts
<1>1. ASSUME UNCHANGED <<tape, file, session, driver, runner, stop>>,
             Range(resume'.todo) \cup Range(resume'.left)
               \subseteq Range(file) \cup Range(resume.todo) \cup Range(resume.left)
      PROVE  SaidInv'
  BY <1>1, SaidSame DEF SaidInv
<1>2. CASE ResumeRead
  <2>1. UNCHANGED <<tape, file, session, driver, runner, stop>>
    BY <1>2 DEF ResumeRead
  <2>2. /\ resume'.todo = <<>> \/ resume'.todo = file
        /\ resume'.left = <<>>
    BY <1>2 DEF ResumeRead, NoResume
  <2> QED BY <1>1, <1>z, <2>1, <2>2
<1>3. CASE ResumeAdmit
  <2>1. /\ Range(resume'.todo) \cup Range(resume'.left)
              \subseteq Range(resume.todo) \cup Range(resume.left)
        /\ UNCHANGED <<tape, file, session, driver, runner, stop>>
    BY <1>3, ResumeAdmitSets
  <2> QED BY <1>1, <2>1
<1>4. CASE ResumeEnter
  <2>1. resume.todo # <<>>
    BY <1>4 DEF ResumeEnter, TypeInv, ResumeHasLine
  <2>2. Range(resume'.todo) \cup Range(resume'.left)
          = Range(resume.todo) \cup Range(resume.left)
    <3>1. CASE resume' = [resume EXCEPT !.pc = "gated"]
      <4>1. resume'.todo = resume.todo /\ resume'.left = resume.left
        BY <1>s, <3>1 DEF Resumes
      <4> QED BY <4>1
    <3>2. CASE resume' = Leaving(Head(resume.todo))
      BY <2>1, <3>2, LeavingSets
    <3> QED BY <1>4, <3>1, <3>2 DEF ResumeEnter
  <2> QED BY <1>1, <1>4, <2>2 DEF ResumeEnter
<1>5. CASE ResumeHandOver
  <2>1. resume.todo # <<>>
    BY <1>5 DEF ResumeHandOver, TypeInv, ResumeHasLine
  <2>2. /\ Range(resume.todo) = {Head(resume.todo)} \cup Range(Tail(resume.todo))
        /\ Head(resume.todo) \in Lines
    BY <2>1, TodoSets
  <2>3. PICK item : item = Head(resume.todo)
    OBVIOUS
  <2>4. item \in Items /\ Dispatch(item) /\ item \in Range(resume.todo)
    BY <1>5, <2>2, <2>3 DEF ResumeHandOver, Items
  <2>5. /\ session'.unread = session.unread
        /\ Range(file') \subseteq Range(file) \cup {item}
        /\ Range(session'.waiting) \subseteq Range(session.waiting) \cup {item}
        /\ \A s \in Runners :
              \/ runner'[s] = runner[s]
              \/ runner[s].pc = "free" /\ runner'[s] = [pc |-> "loop", line |-> item]
    BY <2>4, DispatchSets
  <2>6. item \in Said
    BY <2>4 DEF SaidInv
  <2>7. \A s \in Runners : runner'[s].line \in Said
    BY <2>5, <2>6 DEF SaidInv
  <2>8. /\ resume'.todo = Tail(resume.todo) /\ resume'.left = resume.left
        /\ UNCHANGED <<tape, driver, stop>>
    BY <1>s, <1>5 DEF ResumeHandOver, Resumes
  <2> QED BY <2>2, <2>5, <2>6, <2>7, <2>8, SaidSame DEF SaidInv
<1>6. CASE ResumeWrite
  <2>1. /\ file' \in {resume.left, file}
        /\ resume'.todo = <<>> /\ resume'.left = <<>>
        /\ UNCHANGED <<tape, session, driver, runner, stop>>
    BY <1>6 DEF ResumeWrite, NoResume
  <2> QED BY <1>z, <2>1, SaidSame DEF SaidInv
<1> QED BY <1>2, <1>3, <1>4, <1>5, <1>6 DEF ResumeStep

LEMMA FreshSaid ==
  /\ Init => SaidInv
  /\ Started /\ UNCHANGED <<tape, file>> /\ SaidInv => SaidInv'
<1>z. Range(<<>>) = {} /\ Other \in Said
  BY RangeFacts DEF Said
<1>1. ASSUME Init PROVE SaidInv
  <2>1. TapeIsPrefix
    BY <1>1 DEF Init, TapeIsPrefix
  <2>2. \A r \in Runners : runner[r].line \in Said
    BY <1>z, <1>1 DEF Init, Free
  <2> QED BY <1>z, <1>1, <2>1, <2>2 DEF Init, SaidInv, Fresh, NoTurn, NoResume, NoStop
<1>2. ASSUME Started, UNCHANGED <<tape, file>>, SaidInv PROVE SaidInv'
  <2>1. /\ session'.waiting = <<>> /\ session'.unread = {}
        /\ driver'.inbox = <<>> /\ resume'.todo = <<>> /\ resume'.left = <<>>
        /\ stop'.kept = <<>> /\ \A r \in Runners : runner'[r].line = Other
    BY <1>2 DEF Started, Fresh, NoTurn, NoStop, Free
  <2> QED BY <1>z, <1>2, <2>1, SaidSame DEF SaidInv
<1> QED BY <1>1, <1>2

LEMMA SaidStep == TypeInv /\ SaidInv /\ [Next]_vars => SaidInv'
<1> SUFFICES ASSUME TypeInv, SaidInv, [Next]_vars PROVE SaidInv'
  OBVIOUS
<1>t. TypeOK
  BY DEF TypeInv
<1>1. CASE \E c \in Callers : Ask(c) \/ CallerStep(c)
  BY <1>t, <1>1, CallerSaid
<1>2. CASE \E r \in Runners :
             SteerInto(r) \/ Consume(r) \/ Update(r) \/ RunnerStep(r)
  BY <1>t, <1>2, TurnSaid
<1>3. CASE Nudge
  <2>1. /\ session'.unread = session.unread
        /\ Range(session'.waiting) \subseteq Range(session.waiting) \cup {Other}
        /\ \A s \in Runners :
             \/ runner'[s] = runner[s]
             \/ runner[s].pc = "free" /\ runner'[s] = [pc |-> "loop", line |-> Other]
    BY <1>t, <1>3, NudgeSets
  <2>2. Other \in Said
    BY DEF Said
  <2>3. \A s \in Runners : runner'[s].line \in Said
    BY <2>1, <2>2 DEF SaidInv
  <2>4. UNCHANGED <<tape, file, driver, resume, stop>>
    BY <1>3 DEF Nudge
  <2> QED BY <2>1, <2>2, <2>3, <2>4, SaidSame DEF SaidInv
<1>4. CASE Cancel \/ Revoke \/ Close \/ StopStep
  BY <1>t, <1>4, StopSaid
<1>5. CASE ResumeStep
  BY <1>t, <1>5, ResumeSaid
<1>6. CASE Restart
  BY <1>6, FreshSaid DEF Restart
<1>7. CASE Off \/ UNCHANGED vars
  <2>1. UNCHANGED <<tape, file, session, driver, runner, resume, stop>>
    BY <1>7 DEF Off, vars
  <2> QED BY <2>1, SaidSame DEF SaidInv
<1> QED BY <1>1, <1>2, <1>3, <1>4, <1>5, <1>6, <1>7 DEF Next
-----------------------------------------------------------------------------
(* What a resume goes through is in the file, which only grows until the   *)
(* resume is over, and a stop that shut the room left nobody at work.      *)
Resuming == resume.pc \in {"each", "admitted", "gated"}
StopInv ==
  /\ Resuming =>
       Range(resume.todo) \cup Range(resume.left) \subseteq Range(file)
  /\ stop.pc \notin {"off", "drain"} /\ answering => ~LineIn(session.waiting)
  /\ stop.kept # <<>> => stop.pc = "keep"
  /\ stop.shut => stop.pc = "synced" /\ ~Working

LEMMA StopSame ==
  ASSUME StopInv, UNCHANGED stop,
         stop.shut =>
           /\ UNCHANGED <<runner, caller>>
           /\ resume' = resume \/ resume'.pc \notin {"admitted", "gated"},
         session'.alive => session.alive,
         Resuming' => Range(resume'.todo) \cup Range(resume'.left) \subseteq Range(file'),
         closing /\ LineIn(session'.waiting) => LineIn(session.waiting)
  PROVE  StopInv'
<1>1. LineIn(session.waiting)' <=> LineIn(session'.waiting)
  BY DEF LineIn
<1>2. /\ Range(resume.todo)' = Range(resume'.todo)
      /\ Range(resume.left)' = Range(resume'.left)
      /\ Range(file)' = Range(file')
  OBVIOUS
<1>3. stop.shut => ~Working'
  BY DEF Working, At, StopInv
<1>4. (closing' <=> closing) /\ (answering' => answering)
  BY DEF closing, answering
<1>6. stop'.pc \notin {"off", "drain"} /\ answering' => ~LineIn(session.waiting)'
  BY <1>1, <1>4 DEF StopInv, closing
<1>7. stop'.kept # <<>> => stop'.pc = "keep"
  BY DEF StopInv
<1>8. stop'.shut => stop'.pc = "synced" /\ ~Working'
  BY <1>3 DEF StopInv
<1> QED BY <1>2, <1>6, <1>7, <1>8 DEF StopInv

(* A line filed with the rest leaves what is being resumed where it is.    *)
LEMMA FiledLate ==
  ASSUME StopInv, UNCHANGED resume, Range(file) \subseteq Range(file')
  PROVE  Resuming' => Range(resume'.todo) \cup Range(resume'.left) \subseteq Range(file')
<1>1. Resuming' <=> Resuming
  BY DEF Resuming
<1> QED BY <1>1 DEF StopInv

(* Each step keeps StopInv: one lemma for each group of actions.           *)
LEMMA CallerStop ==
  ASSUME TypeInv, TypeOK, StopInv, NEW c \in Callers, Ask(c) \/ CallerStep(c)
  PROVE  StopInv'
<1>s. session \in Sessions
  BY DEF TypeOK, Sessions
<1>u. UNCHANGED <<resume, stop>>
  BY DEF CallerStep, Ask, Enter, Say, Refuse, HandOver, Deliver, ClaimIdle,
         DeliverClaimed
<1>q. ~stop.shut
  <2>1. CASE Ask(c)
    BY <2>1 DEF Ask, closing, StopInv
  <2>2. CASE CallerStep(c)
    <3>1. caller[c] # "idle"
      BY <2>2 DEF CallerStep, Enter, Say, Refuse, HandOver, Deliver, ClaimIdle,
                  DeliverClaimed
    <3> QED BY <3>1 DEF StopInv, Working
  <2> QED BY <2>1, <2>2
<1>1. ASSUME NEW item \in Items, Dispatch(item)
      PROVE  StopInv'
  <2>1. /\ session'.alive = session.alive
        /\ Range(file) \subseteq Range(file')
        /\ closing => session' = session
    BY <1>1, DispatchSets
  <2>2. Resuming' => Range(resume'.todo) \cup Range(resume'.left) \subseteq Range(file')
    BY <1>u, <2>1, FiledLate
  <2> QED BY <1>u, <1>q, <2>1, <2>2, StopSame
<1>2. CASE HandOver(c)
  <2>1. Latest \in Items
    BY <1>2, LatestIsSaid DEF TypeInv, SaidFirst, HandOver, Items
  <2> QED BY <1>1, <1>2, <2>1 DEF HandOver
<1>3. CASE Deliver(c)
  BY <1>1, <1>3 DEF Deliver, Items
<1>4. ASSUME session'.alive = session.alive, session'.waiting = session.waiting,
             UNCHANGED file
      PROVE  StopInv'
  <2>1. Resuming' => Range(resume'.todo) \cup Range(resume'.left) \subseteq Range(file')
    BY <1>u, <1>4, FiledLate
  <2> QED BY <1>u, <1>q, <1>4, <2>1, StopSame
<1>5. CASE Ask(c) \/ Enter(c) \/ Say(c) \/ Refuse(c)
  BY <1>4, <1>5 DEF Ask, Enter, Say, Refuse
<1>6. CASE ClaimIdle(c) \/ DeliverClaimed(c)
  <2>1. session'.alive = session.alive /\ session'.waiting = session.waiting
    BY <1>s, <1>6 DEF ClaimIdle, DeliverClaimed, Sessions
  <2>2. UNCHANGED file
    BY <1>6 DEF ClaimIdle, DeliverClaimed
  <2> QED BY <1>4, <2>1, <2>2
<1> QED BY <1>2, <1>3, <1>5, <1>6 DEF CallerStep

LEMMA TurnStop ==
  ASSUME TypeOK, StopInv, NEW r \in Runners,
         SteerInto(r) \/ Consume(r) \/ Update(r) \/ RunnerStep(r)
  PROVE  StopInv'
<1>s. session \in Sessions
  BY DEF TypeOK, Sessions
<1>u. UNCHANGED <<resume, stop>>
  BY DEF SteerInto, Consume, Update, RunnerStep, LoopTop, Begin, Prompt, TurnEnds,
         End, NextLine, Rest
<1>q. ~stop.shut
  <2>1. ~At(r, "free")
    BY DEF SteerInto, Consume, Update, RunnerStep, LoopTop, Begin, Prompt, TurnEnds,
           End, NextLine, Rest, At
  <2> QED BY <2>1 DEF StopInv, Working
<1>1. ASSUME session'.alive = session.alive, Range(file) \subseteq Range(file'),
             closing => Range(session'.waiting) \subseteq Range(session.waiting)
      PROVE  StopInv'
  <2>1. Resuming' => Range(resume'.todo) \cup Range(resume'.left) \subseteq Range(file')
    BY <1>u, <1>1, FiledLate
  <2>2. closing /\ LineIn(session'.waiting) => LineIn(session.waiting)
    BY <1>1 DEF LineIn
  <2> QED BY <1>u, <1>q, <1>1, <2>1, <2>2, StopSame
<1>z. Range(<<>>) = {}
  BY RangeFacts
<1>2. CASE LoopTop(r)
  <2>1. session'.alive = session.alive
    BY <1>2, AbandonSets DEF LoopTop
  <2>2. Range(session'.waiting) \subseteq Range(session.waiting)
    BY <1>2, <1>z, AbandonSets DEF LoopTop
  <2> QED BY <1>1, <1>2, <2>1, <2>2 DEF LoopTop
<1>3. CASE Begin(r)
  <2>1. CASE Abandon(r)
    BY <1>1, <1>3, <1>z, <2>1, AbandonSets DEF Begin
  <2>2. CASE ~Abandon(r)
    <3>1. session'.alive = session.alive /\ session'.waiting = session.waiting
      BY <1>s, <1>3, <2>2 DEF Begin, Sessions
    <3> QED BY <1>1, <1>3, <3>1 DEF Begin
  <2> QED BY <2>1, <2>2
<1>4. CASE Prompt(r) \/ Consume(r) \/ TurnEnds(r)
  BY <1>1, <1>4 DEF Prompt, Consume, TurnEnds
<1>5. CASE SteerInto(r)
  <2>1. /\ session'.alive = session.alive
        /\ Range(session'.waiting) \subseteq Range(session.waiting)
    BY <1>5, SteerSets
  <2> QED BY <1>1, <1>5, <2>1 DEF SteerInto
<1>6. CASE Update(r) \/ Rest(r)
  <2>1. session'.alive = session.alive /\ session'.waiting = session.waiting
    BY <1>s, <1>6 DEF Update, Rest, Sessions
  <2> QED BY <1>1, <1>6, <2>1 DEF Update, Rest
<1>7. CASE End(r)
  <2>1. /\ session'.alive = session.alive
        /\ Range(file) \subseteq Range(file')
        /\ closing => session' = session
    BY <1>7, EndSets
  <2> QED BY <1>1, <2>1
<1>8. CASE NextLine(r)
  <2>1. /\ session'.alive = session.alive
        /\ Range(session'.waiting) \subseteq Range(session.waiting)
    BY <1>8, NextLineSets
  <2> QED BY <1>1, <1>8, <2>1 DEF NextLine
<1> QED BY <1>2, <1>3, <1>4, <1>5, <1>6, <1>7, <1>8 DEF RunnerStep

LEMMA StopStop ==
  ASSUME TypeOK, StopInv, Nudge \/ Cancel \/ Revoke \/ Close \/ StopStep
  PROVE  StopInv'
<1>s. session \in Sessions /\ stop \in Stops
  BY DEF TypeOK, Sessions, Stops
<1>z. Range(<<>>) = {}
  BY RangeFacts
<1>u. UNCHANGED resume
  BY DEF Nudge, Cancel, Revoke, Close, StopStep, Drain, Keep, Finish, Cut, Wait
<1>1. ASSUME UNCHANGED <<file, stop>>,
             ~stop.shut \/ UNCHANGED <<runner, caller>>,
             session'.alive => session.alive,
             LineIn(session'.waiting) => LineIn(session.waiting)
      PROVE  StopInv'
  <2>1. Resuming' => Range(resume'.todo) \cup Range(resume'.left) \subseteq Range(file')
    BY <1>u, <1>1, FiledLate
  <2> QED BY <1>u, <1>1, <2>1, StopSame
<1>2. CASE Nudge
  <2>1. /\ session'.alive = session.alive
        /\ Range(session'.waiting) \subseteq Range(session.waiting) \cup {Other}
    BY <1>2, NudgeSets
  <2>2. LineIn(session'.waiting) => LineIn(session.waiting)
    BY <2>1, BoundsAssumption DEF LineIn, Lines, Other
  <2> QED BY <1>1, <1>2, <2>1, <2>2 DEF Nudge
<1>3. CASE Cancel
  <2>1. session'.waiting = <<>> /\ session'.alive = session.alive
    BY <1>3, CutSets DEF Cancel
  <2> QED BY <1>1, <1>3, <1>z, <2>1 DEF Cancel, LineIn, calls
<1>4. CASE Revoke
  <2>1. session'.waiting = <<>> /\ session'.alive = FALSE
    BY <1>s, <1>4 DEF Revoke, Sessions
  <2> QED BY <1>1, <1>4, <1>z, <2>1 DEF Revoke, LineIn, calls
(* A step of the stop itself, which leaves who is at work alone.           *)
<1>5. ASSUME UNCHANGED <<runner, caller>>,
             Range(file) \subseteq Range(file'),
             session'.alive => session.alive,
             stop'.pc \notin {"off", "drain"} /\ session'.alive
               => ~LineIn(session'.waiting),
             stop'.kept # <<>> => stop'.pc = "keep",
             stop'.shut => stop'.pc = "synced" /\ ~Working
      PROVE  StopInv'
  <2>1. Working' <=> Working
    BY <1>u, <1>5 DEF Working, At
  <2>2. Resuming' => Range(resume'.todo) \cup Range(resume'.left) \subseteq Range(file')
    BY <1>u, <1>5, FiledLate
  <2>4. /\ Range(resume.todo)' = Range(resume'.todo)
        /\ Range(resume.left)' = Range(resume'.left)
        /\ Range(file)' = Range(file')
    OBVIOUS
  <2>3. LineIn(session.waiting)' <=> LineIn(session'.waiting)
    BY DEF LineIn
  <2> QED BY <1>5, <2>1, <2>2, <2>3, <2>4 DEF StopInv, answering
<1>6. CASE Close
  <2>1. stop'.pc = "drain" /\ stop'.kept = stop.kept /\ stop'.shut = stop.shut
    BY <1>s, <1>6 DEF Close, Stops
  <2>2. stop.pc = "off" /\ stop.kept = <<>> /\ ~stop.shut
    BY <1>6 DEF Close, StopInv
  <2> QED BY <1>5, <1>6, <2>1, <2>2 DEF Close, calls
<1>e. ASSUME StopStep PROVE ~stop.shut
  BY <1>e DEF StopStep, Drain, Keep, Finish, Cut, Wait, StopInv
<1>7. CASE Drain
  <2>1. /\ session'.alive = session.alive /\ stop'.pc = "keep"
        /\ stop'.shut = stop.shut
        /\ session.alive => session'.waiting = <<>>
    BY <1>7, DrainSets
  <2>2. ~LineIn(<<>>)
    BY <1>z DEF LineIn
  <2>3. UNCHANGED <<file, runner, caller>> /\ StopStep
    BY <1>7 DEF Drain, calls, StopStep
  <2> QED BY <1>5, <1>e, <2>1, <2>2, <2>3
<1>8. CASE Keep
  <2>1. /\ stop'.pc = "finish" /\ stop'.kept = <<>> /\ stop'.shut = stop.shut
        /\ stop.pc = "keep" /\ Range(file) \subseteq Range(file')
    BY <1>8, KeepSets
  <2>2. UNCHANGED <<runner, caller, session>> /\ StopStep
    BY <1>8 DEF Keep, calls, StopStep
  <2> QED BY <1>5, <1>e, <2>1, <2>2 DEF StopInv, answering
<1>9. CASE Finish
  <2>1. /\ stop'.kept = stop.kept
        /\ \/ ~Working /\ stop'.pc = "synced" /\ stop'.shut = TRUE
           \/ Working /\ stop'.pc = "cut" /\ stop'.shut = stop.shut
    BY <1>9, ShutOutSets DEF Finish
  <2>2. UNCHANGED <<file, runner, caller, session>> /\ StopStep /\ stop.pc = "finish"
    BY <1>9 DEF Finish, calls, StopStep
  <2> QED BY <1>5, <1>e, <2>1, <2>2 DEF StopInv, answering
<1>10. CASE Wait
  <2>1. /\ stop'.kept = stop.kept
        /\ \/ ~Working /\ stop'.pc = "synced" /\ stop'.shut = TRUE
           \/ Working /\ stop'.pc = "synced" /\ stop'.shut = stop.shut
    BY <1>10, ShutOutSets DEF Wait
  <2>2. UNCHANGED <<file, runner, caller, session>> /\ StopStep /\ stop.pc = "wait"
    BY <1>10 DEF Wait, calls, StopStep
  <2> QED BY <1>5, <1>e, <2>1, <2>2 DEF StopInv, answering
<1>11. CASE Cut
  <2>1. stop'.pc = "wait" /\ stop'.kept = stop.kept /\ stop'.shut = stop.shut
    BY <1>s, <1>11 DEF Cut, Stops
  <2>2. UNCHANGED <<file, runner, caller>> /\ StopStep /\ stop.pc = "cut"
    BY <1>11 DEF Cut, calls, StopStep
  <2>3. session'.alive => session.alive
    BY <1>11, CutSets DEF Cut
  <2>4. session'.alive => ~LineIn(session'.waiting)
    <3>1. CASE CutTurn(TRUE)
      <4>1. session'.waiting = <<>>
        BY <3>1, CutSets
      <4> QED BY <1>z, <4>1 DEF LineIn
    <3>2. CASE UNCHANGED session
      BY <2>2, <3>2 DEF StopInv, answering
    <3> QED BY <1>11, <3>1, <3>2 DEF Cut
  <2>5. stop'.kept = <<>>
    BY <2>1, <2>2 DEF StopInv
  <2> QED BY <1>5, <1>e, <2>1, <2>2, <2>3, <2>4, <2>5
<1> QED BY <1>2, <1>3, <1>4, <1>6, <1>7, <1>8, <1>9, <1>10, <1>11 DEF StopStep

LEMMA ResumeStop ==
  ASSUME TypeInv, TypeOK, StopInv, ResumeStep
  PROVE  StopInv'
<1>r. resume \in Resumes
  BY DEF TypeOK, Resumes
<1>z. Range(<<>>) = {}
  BY RangeFacts
<1>q. stop.shut => closing /\ resume.pc \notin {"admitted", "gated"}
  BY DEF StopInv, closing, Working
<1>u. UNCHANGED stop
  BY DEF ResumeStep, ResumeRead, ResumeAdmit, ResumeEnter, ResumeHandOver, ResumeWrite
<1>1. ASSUME session'.alive = session.alive,
             stop.shut => /\ UNCHANGED <<runner, caller>>
                          /\ resume'.pc \notin {"admitted", "gated"},
             Resuming' =>
               Range(resume'.todo) \cup Range(resume'.left) \subseteq Range(file'),
             closing /\ LineIn(session'.waiting) => LineIn(session.waiting)
      PROVE  StopInv'
  BY <1>u, <1>1, StopSame
<1>2. CASE ResumeRead
  <2>1. /\ resume'.todo = <<>> \/ resume'.todo = file
        /\ resume'.left = <<>>
        /\ UNCHANGED <<session, file, runner, caller>>
        /\ resume'.pc \in {"each", "done"}
    BY <1>2 DEF ResumeRead, NoResume, calls
  <2> QED BY <1>1, <1>z, <2>1
<1>3. CASE ResumeAdmit
  <2>1. /\ Range(resume'.todo) \cup Range(resume'.left)
             \subseteq Range(resume.todo) \cup Range(resume.left)
        /\ resume.pc = "each" /\ UNCHANGED <<file, session, runner, caller>>
        /\ closing => resume'.pc = "each"
    BY <1>3, ResumeAdmitSets DEF calls
  <2> QED BY <1>q, <1>1, <2>1 DEF StopInv, Resuming
<1>4. CASE ResumeEnter
  <2>1. resume.todo # <<>> /\ UNCHANGED <<file, session>> /\ resume.pc = "admitted"
    BY <1>4 DEF ResumeEnter, TypeInv, ResumeHasLine
  <2>2. Range(resume'.todo) \cup Range(resume'.left)
          = Range(resume.todo) \cup Range(resume.left)
    <3>1. CASE resume' = [resume EXCEPT !.pc = "gated"]
      <4>1. resume'.todo = resume.todo /\ resume'.left = resume.left
        BY <1>r, <3>1 DEF Resumes
      <4> QED BY <4>1
    <3>2. CASE resume' = Leaving(Head(resume.todo))
      BY <2>1, <3>2, LeavingSets
    <3> QED BY <1>4, <3>1, <3>2 DEF ResumeEnter
  <2> QED BY <1>q, <1>1, <2>1, <2>2 DEF StopInv, Resuming
<1>5. CASE ResumeHandOver
  <2>1. resume.todo # <<>> /\ resume.pc = "gated"
    BY <1>5 DEF ResumeHandOver, TypeInv, ResumeHasLine
  <2>2. /\ Range(resume.todo) = {Head(resume.todo)} \cup Range(Tail(resume.todo))
        /\ Head(resume.todo) \in Lines
    BY <2>1, TodoSets
  <2>3. Head(resume.todo) \in Items /\ Dispatch(Head(resume.todo))
    BY <1>5, <2>2 DEF ResumeHandOver, Items
  <2>4. /\ session'.alive = session.alive /\ Range(file) \subseteq Range(file')
        /\ closing => session' = session
    BY <2>3, DispatchSets
  <2>5. resume'.todo = Tail(resume.todo) /\ resume'.left = resume.left
    BY <1>r, <1>5 DEF ResumeHandOver, Resumes
  <2> QED BY <1>q, <1>1, <2>1, <2>2, <2>4, <2>5 DEF StopInv, Resuming
<1>6. CASE ResumeWrite
  <2>1. /\ ~Resuming' /\ UNCHANGED <<session, runner, caller>>
        /\ resume'.pc = "done"
    BY <1>6 DEF ResumeWrite, NoResume, Resuming, calls
  <2> QED BY <1>1, <2>1
<1> QED BY <1>2, <1>3, <1>4, <1>5, <1>6 DEF ResumeStep

LEMMA FreshStop ==
  /\ Init => StopInv
  /\ Started => StopInv'
<1>z. Range(<<>>) = {}
  BY RangeFacts
<1>1. ASSUME Init PROVE StopInv
  BY <1>z, <1>1 DEF Init, StopInv, Fresh, NoResume, NoStop, closing, Resuming, LineIn
<1>2. ASSUME Started PROVE StopInv'
  BY <1>z, <1>2 DEF Started, StopInv, Fresh, NoStop, closing, Resuming, LineIn
<1> QED BY <1>1, <1>2

LEMMA StopInvStep == TypeInv /\ StopInv /\ [Next]_vars => StopInv'
<1> SUFFICES ASSUME TypeInv, StopInv, [Next]_vars PROVE StopInv'
  OBVIOUS
<1>t. TypeOK
  BY DEF TypeInv
<1>1. CASE \E c \in Callers : Ask(c) \/ CallerStep(c)
  BY <1>t, <1>1, CallerStop
<1>2. CASE \E r \in Runners :
             SteerInto(r) \/ Consume(r) \/ Update(r) \/ RunnerStep(r)
  BY <1>t, <1>2, TurnStop
<1>3. CASE Nudge \/ Cancel \/ Revoke \/ Close \/ StopStep
  BY <1>t, <1>3, StopStop
<1>4. CASE ResumeStep
  BY <1>t, <1>4, ResumeStop
<1>5. CASE Restart
  BY <1>5, FreshStop DEF Restart
<1>6. CASE Off \/ UNCHANGED vars
  <2>1. UNCHANGED <<file, session, runner, caller, resume, stop>>
    BY <1>6 DEF Off, vars, calls
  <2>2. Resuming' => Range(resume'.todo) \cup Range(resume'.left) \subseteq Range(file')
    BY <2>1, FiledLate
  <2> QED BY <2>1, <2>2, StopSame
<1> QED BY <1>1, <1>2, <1>3, <1>4, <1>5, <1>6 DEF Next
-----------------------------------------------------------------------------
(* A line the agent was not told is somewhere: LostInv is the inductive    *)
(* form of NoLineLost, with what a resume has in hand in the place of the  *)
(* file it read it from.                                                   *)
InTasks == {r \in Runners : runner[r].pc \in {"loop", "begin", "begun"}}
Stored == IF Resuming /\ ~closing THEN Range(resume.todo) \cup Range(resume.left)
          ELSE Range(file)
Safe == InMemory \cup Fated \cup Stored
LostInv == \A l \in Lines : tape[l] # "unsaid" /\ l \notin taken => l \in Safe

(* Where a step may leave a line: safe, or with the agent.                 *)
Found == Safe \cup taken \cup {Other}

(* What it takes to show that a step loses no line.                        *)
LEMMA InFound ==
  /\ Range(session'.waiting) \subseteq Found'
  /\ Range(driver'.inbox) \subseteq Found'
  /\ Range(stop'.kept) \subseteq Found'
  /\ \A r \in Runners : runner'[r].pc \in {"loop", "begin", "begun"}
                          => runner'[r].line \in Found'
  /\ \A c \in Callers : caller'[c] = "said" => Latest' \in Found'
  /\ resume'.pc = "gated" => Head(resume'.todo) \in Found'
  /\ Fated' \subseteq Found'
  /\ Stored' \subseteq Found' /\ taken' \subseteq Found' /\ Other \in Found'
BY DEF Found, Safe, InMemory, At

(* Nothing is lost by a step after which all it found is somewhere.        *)
LEMMA NoneLost ==
  ASSUME LostInv, taken \subseteq taken',
         \A l \in Lines : tape'[l] # "unsaid" => tape[l] # "unsaid",
         Range(session.waiting) \subseteq Found',
         Range(driver.inbox) \subseteq Found',
         Range(stop.kept) \subseteq Found',
         \A r \in InTasks : runner[r].line \in Found',
         \A c \in Callers : caller[c] = "said" => Latest \in Found',
         resume.pc = "gated" => Head(resume.todo) \in Found',
         Fated \subseteq Found',
         Stored \subseteq Found'
  PROVE  LostInv'
<1>1. SUFFICES ASSUME NEW l \in Lines, tape'[l] # "unsaid", l \notin taken'
               PROVE  l \in Safe'
  BY DEF LostInv
<1>2. l \in Safe
  BY <1>1 DEF LostInv
<1>3. l \in Found'
  BY <1>1, <1>2 DEF Safe, InMemory, InTasks, At
<1>4. l # Other
  BY BoundsAssumption DEF Lines, Other
<1> QED BY <1>1, <1>3, <1>4 DEF Found

LEMMA LatestSame ==
  ASSUME \A l \in Lines : tape'[l] = "unsaid" <=> tape[l] = "unsaid"
  PROVE  Latest' = Latest
<1> DEFINE P(l) == /\ tape[l] # "unsaid"
                   /\ \A k \in (l + 1)..MaxLines : tape[k] = "unsaid"
           Q(l) == /\ tape'[l] # "unsaid"
                   /\ \A k \in (l + 1)..MaxLines : tape'[k] = "unsaid"
<1>1. ASSUME NEW l \in Lines
      PROVE  P(l) <=> Q(l)
  <2>1. \A k \in (l + 1)..MaxLines : k \in Lines
    BY BoundsAssumption DEF Lines
  <2> QED BY <2>1
<1>2. Latest = CHOOSE l \in Lines : P(l)
  BY DEF Latest
<1>3. Latest' = CHOOSE l \in Lines : Q(l)
  BY DEF Latest
<1> HIDE DEF P, Q
<1>4. (CHOOSE l \in Lines : P(l)) = (CHOOSE l \in Lines : Q(l))
  BY <1>1
<1> QED BY <1>2, <1>3, <1>4

LEMMA SaidIsLatest ==
  ASSUME SaidInv, NEW l \in Lines, tape[l] = "unsaid", tape'[l] = "sent",
         \A k \in Lines : k # l => tape'[k] = tape[k]
  PROVE  Latest' = l
<1>1. /\ l \in Nat /\ MaxLines \in Nat
      /\ \A k \in (l + 1)..MaxLines : k \in Lines /\ k > l
  BY BoundsAssumption DEF Lines
<1>2. \A k \in (l + 1)..MaxLines : tape'[k] = "unsaid"
  BY <1>1 DEF SaidInv, TapeIsPrefix
<1>3. ASSUME NEW m \in Lines, m # l, tape'[m] # "unsaid"
      PROVE  l \in (m + 1)..MaxLines
  <2>1. m \notin (l + 1)..MaxLines
    BY <1>2, <1>3
  <2> QED BY <1>1, <1>3, <2>1 DEF Lines
<1>4. \A m \in Lines : /\ tape'[m] # "unsaid"
                       /\ \A k \in (m + 1)..MaxLines : tape'[k] = "unsaid"
                       => m = l
  BY <1>3
<1>5. Latest' = CHOOSE m \in Lines : /\ tape'[m] # "unsaid"
                       /\ \A k \in (m + 1)..MaxLines : tape'[k] = "unsaid"
  BY DEF Latest
<1> QED BY <1>2, <1>4, <1>5

LEMMA StoredSame ==
  ASSUME StopInv, UNCHANGED resume, Range(file) \subseteq Range(file'),
         closing => closing'
  PROVE  Stored \subseteq Stored'
<1>1. Resuming' <=> Resuming
  BY DEF Resuming
<1>2. Stored' = IF Resuming' /\ ~closing'
                  THEN Range(resume'.todo) \cup Range(resume'.left)
                  ELSE Range(file')
  BY DEF Stored
<1> QED BY <1>1, <1>2 DEF Stored, StopInv

(* A step in which the tasks that hold a line go on holding it.            *)
LEMMA StillLost ==
  ASSUME StopInv, LostInv, UNCHANGED <<tape, driver, resume, stop, taken>>,
         Fated \subseteq Fated',
         Range(file) \subseteq Range(file'),
         Range(session.waiting) \subseteq Range(session'.waiting),
         \A r \in InTasks : runner'[r].pc \in {"loop", "begin", "begun"}
                              /\ runner'[r].line = runner[r].line,
         \A c \in Callers :
           caller[c] = "said" => caller'[c] = "said" \/ Latest \in Found'
  PROVE  LostInv'
<1>1. Stored \subseteq Stored'
  BY StoredSame DEF closing
<1>2. Latest' = Latest
  BY LatestSame
<1>3. \A r \in InTasks : runner[r].line \in Found'
  BY InFound DEF InTasks
<1>4. \A c \in Callers : caller[c] = "said" => Latest \in Found'
  BY <1>2, InFound
<1>5. /\ Range(session.waiting) \subseteq Found'
      /\ Range(driver.inbox) \subseteq Found'
      /\ Range(stop.kept) \subseteq Found'
      /\ resume.pc = "gated" => Head(resume.todo) \in Found'
      /\ Fated \subseteq Found'
      /\ Stored \subseteq Found'
  BY <1>1, InFound
<1> QED BY <1>3, <1>4, <1>5, NoneLost

(* Each step keeps LostInv: one lemma for each group of actions.           *)
LEMMA CallerLost ==
  ASSUME TypeInv, TypeOK, SaidInv, GateInv, StopInv, LostInv, NEW c \in Callers,
         Ask(c) \/ CallerStep(c)
  PROVE  LostInv'
<1>s. session \in Sessions
  BY DEF TypeOK, Sessions
<1>c. caller \in [Callers -> {"idle", "asked", "gated", "said", "claimed"}]
  BY DEF TypeOK
<1>1. CASE Ask(c) \/ Enter(c) \/ Refuse(c)
  <2>1. UNCHANGED <<tape, file, session, driver, runner, resume, stop, taken, fate>>
    BY <1>1 DEF Ask, Enter, Refuse, ghosts, told
  <2>2. \A d \in Callers : caller[d] = "said" => caller'[d] = "said"
    BY <1>c, <1>1 DEF Ask, Enter, Refuse, Leave
  <2> QED BY <2>1, <2>2, FatedSame, StillLost DEF InTasks
<1>2. CASE Say(c)
  <2>1. PICK l \in Lines : /\ tape[l] = "unsaid"
                           /\ tape' = [tape EXCEPT ![l] = "sent"]
    BY <1>2 DEF Say
  <2>2. tape'[l] = "sent" /\ \A k \in Lines : k # l => tape'[k] = tape[k]
    BY <2>1 DEF TypeOK
  <2>3. UNCHANGED <<file, session, driver, runner, resume, stop, taken, fate>>
    BY <1>2 DEF Say, ghosts, told
  <2>4. caller'[c] = "said" /\ \A d \in Callers : caller[d] # "said"
    <3>1. \A d \in Callers : caller[d] # "said"
      BY <1>2, PastTheGate DEF Say
    <3> QED BY <1>c, <1>2, <3>1 DEF Say
  <2>5. Latest' = l
    BY <1>2, <2>1, <2>2, SaidIsLatest
  <2>6. l \in Safe'
    BY <2>4, <2>5 DEF Safe, InMemory
  <2>7. ASSUME NEW k \in Lines, k # l, tape'[k] # "unsaid", k \notin taken'
        PROVE  k \in Safe'
    <3>1. tape[k] # "unsaid" /\ k \notin taken
      BY <2>2, <2>3, <2>7
    <3>2. k \in Safe
      BY <3>1 DEF LostInv
    <3>3. Stored' = Stored /\ Fated' = Fated
      BY <2>3, FatedSame DEF Stored, Resuming, closing
    <3> QED BY <2>3, <2>4, <3>2, <3>3 DEF Safe, InMemory, At
  <2> QED BY <2>6, <2>7 DEF LostInv
<1>3. ASSUME NEW item \in Items, Dispatch(item),
             UNCHANGED <<tape, driver, resume, stop, taken>>,
             \A d \in Callers : caller[d] = "said" =>
                                  caller'[d] = "said" \/ item = Latest
      PROVE  LostInv'
  <2>1. /\ Range(file) \subseteq Range(file')
        /\ Range(session.waiting) \subseteq Range(session'.waiting)
        /\ \A s \in Runners :
              \/ runner'[s] = runner[s]
              \/ runner[s].pc = "free" /\ runner'[s] = [pc |-> "loop", line |-> item]
        /\ item \in Lines =>
              \/ closing /\ item \in Range(file') \cup Fated'
              \/ item \in Range(session'.waiting)
              \/ \E s \in Runners : runner'[s] = [pc |-> "loop", line |-> item]
        /\ Fated \subseteq Fated'
    BY <1>3, DispatchSets
  <2>2. \A s \in InTasks : runner'[s].pc \in {"loop", "begin", "begun"}
                              /\ runner'[s].line = runner[s].line
    BY <2>1 DEF InTasks
  <2>3. (\E d \in Callers : caller[d] = "said" /\ caller'[d] # "said")
           => item \in Found'
    <3>1. SUFFICES ASSUME NEW d \in Callers, caller[d] = "said", caller'[d] # "said"
                   PROVE  item \in Found'
      OBVIOUS
    <3>2. item \in Lines /\ item = Latest
      BY <1>3, <3>1, LatestIsSaid DEF TypeInv, SaidFirst
    <3>3. CASE item \in Range(session'.waiting)
      BY <3>3, InFound
    <3>4. CASE \E s \in Runners : runner'[s] = [pc |-> "loop", line |-> item]
      BY <3>4, InFound
    <3>5. CASE closing /\ item \in Range(file') \cup Fated'
      <4>1. Stored' = Range(file')
        BY <1>3, <3>5 DEF Stored, closing
      <4> QED BY <3>5, <4>1, InFound
    <3> QED BY <2>1, <3>2, <3>3, <3>4, <3>5
  <2>4. \A d \in Callers :
           caller[d] = "said" => caller'[d] = "said" \/ Latest \in Found'
    BY <1>3, <2>3
  <2> QED BY <1>3, <2>1, <2>2, <2>4, StillLost
<1>4. CASE HandOver(c)
  <2>1. Latest \in Items
    BY <1>4, LatestIsSaid DEF TypeInv, SaidFirst, HandOver, Items
  <2>2. \A d \in Callers : caller[d] = "said" => d = c
    BY <1>4, PastTheGate DEF HandOver
  <2>3. /\ Dispatch(Latest)
        /\ UNCHANGED <<tape, driver, resume, stop, taken>>
    <3>1. HandOver(c) => Dispatch(Latest) /\ UNCHANGED <<tape, driver, resume, stop>>
      BY DEF HandOver
    <3> QED BY <1>4, <3>1 DEF HandOver, ghosts, told
  <2> QED BY <1>3, <2>1, <2>3
<1>5. CASE Deliver(c)
  <2>1. \A d \in Callers : caller[d] = "said" => caller'[d] = "said"
    BY <1>c, <1>5 DEF Deliver, Leave
  <2> QED BY <1>3, <1>5, <2>1 DEF Deliver, Items, ghosts, told
<1>6. CASE ClaimIdle(c)
  <2>1. session'.waiting = session.waiting
    BY <1>s, <1>6 DEF ClaimIdle, Sessions
  <2>2. UNCHANGED <<tape, file, driver, runner, resume, stop, taken, fate>>
    BY <1>6 DEF ClaimIdle, ghosts, told
  <2>3. \A d \in Callers : caller[d] = "said" => caller'[d] = "said"
    BY <1>c, <1>6 DEF ClaimIdle, Leave
  <2> QED BY <2>1, <2>2, <2>3, FatedSame, StillLost DEF InTasks
<1>7. CASE DeliverClaimed(c)
  <2>1. session'.waiting = session.waiting
    BY <1>s, <1>7 DEF DeliverClaimed, Sessions
  <2>2. UNCHANGED <<tape, file, driver, resume, stop, taken, fate>>
    BY <1>7 DEF DeliverClaimed, ghosts, told
  <2>3. \A d \in Callers : caller[d] = "said" => caller'[d] = "said"
    BY <1>c, <1>7 DEF DeliverClaimed, Leave
  <2>4. \A s \in InTasks : runner'[s] = runner[s]
    <3>1. CASE \E r \in Runners : Spawn(r, Other)
      <4>1. PICK r \in Runners : Spawn(r, Other)
        BY <3>1
      <4>2. \A s \in Runners : s # r => runner'[s] = runner[s]
        BY <4>1, RunnerIs DEF Spawn
      <4>3. r \notin InTasks
        BY <4>1 DEF Spawn, At, InTasks
      <4> QED BY <4>2, <4>3 DEF InTasks
    <3>2. CASE UNCHANGED runner
      BY <3>2
    <3> QED BY <1>7, <3>1, <3>2 DEF DeliverClaimed
  <2> QED BY <2>1, <2>2, <2>3, <2>4, FatedSame, StillLost DEF InTasks
<1> QED BY <1>1, <1>2, <1>4, <1>5, <1>6, <1>7 DEF CallerStep

LEMMA TurnLost ==
  ASSUME TypeOK, TasksInv, StopInv, LostInv, NEW r \in Runners,
         SteerInto(r) \/ Consume(r) \/ Update(r) \/ RunnerStep(r), SaidInv
  PROVE  LostInv'
<1>s. session \in Sessions /\ driver \in Drivers
  BY DEF TypeOK, Sessions, Drivers
<1>u. UNCHANGED <<resume, stop, caller>>
  BY DEF SteerInto, Consume, Update, RunnerStep, LoopTop, Begin, Prompt, TurnEnds,
         End, NextLine, Rest, calls
<1>z. Range(<<>>) = {}
  BY RangeFacts
(* What a task's step has to show: the lines of the queue, of the inbox,   *)
(* of its own hand, and what was let go of before.                         *)
<1>1. ASSUME taken \subseteq taken', Fated \subseteq Fated',
             Range(file) \subseteq Range(file'),
             Range(session.waiting) \subseteq Found',
             Range(driver.inbox) \subseteq Found',
             r \in InTasks => runner[r].line \in Found',
             \A s \in Runners : s # r => runner'[s] = runner[s],
             \A l \in Lines : tape'[l] = "unsaid" <=> tape[l] = "unsaid"
      PROVE  LostInv'
  <2>1. Latest' = Latest
    BY <1>1, LatestSame
  <2>2. Stored \subseteq Stored'
    BY <1>u, <1>1, StoredSame DEF closing
  <2>3. \A s \in InTasks : runner[s].line \in Found'
    <3>1. ASSUME NEW s \in InTasks, s # r
          PROVE  runner[s].line \in Found'
      <4>1. s \in Runners /\ runner'[s] = runner[s]
        BY <1>1, <3>1 DEF InTasks
      <4> QED BY <4>1, InFound DEF InTasks
    <3> QED BY <1>1, <3>1
  <2>4. /\ Range(stop.kept) \subseteq Found'
        /\ \A c \in Callers : caller[c] = "said" => Latest \in Found'
        /\ resume.pc = "gated" => Head(resume.todo) \in Found'
    BY <1>u, <2>1, InFound
  <2>5. Fated \subseteq Found' /\ Stored \subseteq Found'
    BY <1>1, <2>2, InFound
  <2> QED BY <1>1, <2>3, <2>4, <2>5, NoneLost
<1>a. ASSUME Abandon(r), UNCHANGED <<tape, file, driver, taken>>
      PROVE  LostInv'
  <2>1. /\ \A s \in Runners : s # r => runner'[s] = runner[s]
        /\ Fated \subseteq Fated'
        /\ Range(session.waiting) \ {Other} \subseteq Fated'
        /\ runner[r].line # Other => runner[r].line \in Fated'
    BY <1>a, AbandonSets
  <2>2. Range(session.waiting) \subseteq Found' /\ runner[r].line \in Found'
    BY <2>1, InFound
  <2>3. Range(driver.inbox) \subseteq Found'
    BY <1>a, InFound
  <2> QED BY <1>1, <1>a, <2>1, <2>2, <2>3
<1>2. CASE LoopTop(r)
  <2>0. UNCHANGED <<tape, file, driver, taken>>
    BY <1>2 DEF LoopTop, told
  <2>1. CASE Abandon(r)
    BY <1>a, <2>0, <2>1
  <2>2. CASE /\ runner' = [runner EXCEPT ![r].pc = "begin"]
             /\ UNCHANGED <<session, fate>>
    <3>1. /\ \A s \in Runners : s # r => runner'[s] = runner[s]
          /\ runner'[r].line = runner[r].line /\ runner'[r].pc = "begin"
      BY <2>2, RunnerAt
    <3>2. runner[r].line \in Found'
      BY <3>1, InFound
    <3>3. Range(session.waiting) \subseteq Found' /\ Range(driver.inbox) \subseteq Found'
      BY <2>0, <2>2, InFound
    <3> QED BY <1>1, <2>0, <2>2, <3>1, <3>2, <3>3, FatedSame
  <2> QED BY <1>2, <2>1, <2>2 DEF LoopTop
<1>3. CASE Begin(r)
  <2>0. UNCHANGED <<tape, file, driver, taken>>
    BY <1>3 DEF Begin, told
  <2>1. CASE Abandon(r)
    BY <1>a, <2>0, <2>1
  <2>2. CASE /\ session' = [session EXCEPT !.shown = "thinking",
                              !.unread = @ \cup ({runner[r].line} \ {Other})]
             /\ runner' = [runner EXCEPT ![r].pc = "begun"]
             /\ UNCHANGED fate
    <3>1. /\ \A s \in Runners : s # r => runner'[s] = runner[s]
          /\ runner'[r].line = runner[r].line /\ runner'[r].pc = "begun"
      BY <2>2, RunnerAt
    <3>2. runner[r].line \in Found'
      BY <3>1, InFound
    <3>3. session'.waiting = session.waiting
      BY <1>s, <2>2 DEF Sessions
    <3>4. Range(session.waiting) \subseteq Found' /\ Range(driver.inbox) \subseteq Found'
      BY <2>0, <3>3, InFound
    <3> QED BY <1>1, <2>0, <2>2, <3>1, <3>2, <3>4, FatedSame
  <2>3. CASE /\ runner[r].line = Other
             /\ session' = [session EXCEPT !.shown = "thinking"]
             /\ runner' = [runner EXCEPT ![r].pc = "next"]
             /\ UNCHANGED fate
    <3>1. \A s \in Runners : s # r => runner'[s] = runner[s]
      BY <2>3, RunnerAt
    <3>2. runner[r].line \in Found'
      BY <2>3, InFound
    <3>3. session'.waiting = session.waiting
      BY <1>s, <2>3 DEF Sessions
    <3>4. Range(session.waiting) \subseteq Found' /\ Range(driver.inbox) \subseteq Found'
      BY <2>0, <3>3, InFound
    <3> QED BY <1>1, <2>0, <2>3, <3>1, <3>2, <3>4, FatedSame
  <2> QED BY <1>3, <2>1, <2>2, <2>3 DEF Begin
<1>4. CASE Prompt(r)
  <2>0. /\ UNCHANGED <<tape, file, session>> /\ Fated' = Fated
        /\ runner[r].pc = "begun"
    BY <1>4, FatedSame DEF Prompt, At
  <2>1. \A s \in Runners : s # r => runner'[s] = runner[s]
    BY <1>4, RunnerAt DEF Prompt
  <2>2. driver.inbox = <<>>
    <3>1. ASSUME NEW s \in Runners, runner[s].pc \in {"turn", "end"}
          PROVE  FALSE
      <4>1. s = r
        BY <2>0, <3>1 DEF TasksInv, OneBusy, Busy
      <4> QED BY <2>0, <3>1, <4>1
    <3> QED BY <3>1 DEF TasksInv, InboxIsRead
  <2>3. PICK item \in Items : item = runner[r].line
    BY DEF TypeOK
  <2>4. taken' = taken \cup ({item} \cap Lines)
    BY <1>4, <2>3, TellSets DEF Prompt
  <2>5. runner[r].line \in Found'
    BY <2>3, <2>4, InFound DEF Items
  <2>6. Range(session.waiting) \subseteq Found'
    BY <2>0, InFound
  <2> QED BY <1>1, <1>z, <2>0, <2>1, <2>2, <2>4, <2>5, <2>6
<1>5. CASE SteerInto(r)
  <2>1. PICK given \in Seq(Lines) :
           /\ Range(session.waiting)
                \subseteq Range(session'.waiting) \cup Range(given)
           /\ driver'.inbox = driver.inbox \o given
    BY <1>5, SteerSets
  <2>2. Range(driver.inbox \o given) = Range(driver.inbox) \cup Range(given)
    BY RangeConcatenation DEF TypeOK
  <2>3. UNCHANGED <<tape, file, runner, taken>> /\ Fated' = Fated
    BY <1>5, FatedSame DEF SteerInto, ghosts, told
  <2>4. Range(session.waiting) \subseteq Found' /\ Range(driver.inbox) \subseteq Found'
    BY <2>1, <2>2, InFound
  <2>5. r \in InTasks => runner[r].line \in Found'
    BY <2>3, InFound DEF InTasks
  <2> QED BY <1>1, <2>3, <2>4, <2>5
<1>6. CASE Consume(r)
  <2>1. /\ Range(driver.inbox) \subseteq Range(driver'.inbox) \cup taken'
        /\ taken \subseteq taken'
    BY <1>6, InboxSets
  <2>2. UNCHANGED <<tape, file, session, runner>> /\ Fated' = Fated
    BY <1>6, FatedSame DEF Consume
  <2>3. Range(session.waiting) \subseteq Found' /\ Range(driver.inbox) \subseteq Found'
    BY <2>1, <2>2, InFound
  <2>4. r \in InTasks => runner[r].line \in Found'
    BY <2>2, InFound DEF InTasks
  <2> QED BY <1>1, <2>1, <2>2, <2>3, <2>4
<1>7. CASE Update(r)
  <2>1. session'.waiting = session.waiting
    BY <1>s, <1>7 DEF Update, Sessions
  <2>2. UNCHANGED <<file, driver, runner, taken>> /\ Fated' = Fated
    BY <1>7, FatedSame DEF Update, ghosts, told
  <2>3. \A l \in Lines : tape'[l] = IF l \in session.unread THEN "read" ELSE tape[l]
    BY <1>7 DEF Update, Read
  <2>4. \A l \in Lines : l \in session.unread => tape[l] # "unsaid"
    BY BoundsAssumption DEF SaidInv, Said, Lines, Other
  <2>5. Range(session.waiting) \subseteq Found' /\ Range(driver.inbox) \subseteq Found'
    BY <2>1, <2>2, InFound
  <2>6. r \in InTasks => runner[r].line \in Found'
    BY <2>2, InFound DEF InTasks
  <2> QED BY <1>1, <2>2, <2>3, <2>4, <2>5, <2>6
<1>8. CASE TurnEnds(r)
  <2>0. /\ UNCHANGED <<tape, file, session, taken>> /\ r \notin InTasks
        /\ \A s \in Runners : s # r => runner'[s] = runner[s]
    <3>1. \A s \in Runners : s # r => runner'[s] = runner[s]
      BY <1>8, RunnerAt DEF TurnEnds
    <3> QED BY <1>8, <3>1 DEF TurnEnds, InTasks, At, told
  <2>1. Fated \subseteq Fated' /\ Range(driver.inbox) \subseteq Found'
    <3>1. CASE UNCHANGED <<driver, fate>>
      BY <3>1, FatedSame, InFound
    <3>2. ASSUME NEW how \in Fates, how # "none", Lose(Range(driver.inbox), how)
          PROVE  Fated \subseteq Fated' /\ Range(driver.inbox) \subseteq Found'
      <4>1. Fated' = Fated \cup (Range(driver.inbox) \cap Lines)
        BY <3>2, LoseFated
      <4>2. Range(driver.inbox) \subseteq Lines
        BY RangeOfSeq DEF TypeOK
      <4> QED BY <4>1, <4>2, InFound
    <3>3. /\ "cut" \in Fates /\ "cut" # "none"
          /\ "stopped" \in Fates /\ "stopped" # "none"
      BY DEF Fates
    <3>4. \/ UNCHANGED <<driver, fate>>
          \/ Lose(Range(driver.inbox), "cut")
          \/ Lose(Range(driver.inbox), "stopped")
      BY <1>8 DEF TurnEnds
    <3> QED BY <3>1, <3>2, <3>3, <3>4
  <2>2. Range(session.waiting) \subseteq Found'
    BY <2>0, InFound
  <2> QED BY <1>1, <2>0, <2>1, <2>2
<1>9. CASE End(r)
  <2>1. /\ Range(file) \subseteq Range(file')
        /\ Range(session.waiting) \subseteq Range(session'.waiting)
        /\ closing => Range(driver.inbox) \subseteq Range(file') \cup Fated'
        /\ ~closing => Range(driver.inbox) \subseteq Range(session'.waiting)
        /\ Fated \subseteq Fated'
        /\ \A s \in Runners : s # r => runner'[s] = runner[s]
        /\ runner[r].pc = "end"
    BY <1>9, EndSets
  <2>2. UNCHANGED <<tape, taken>>
    BY <1>9 DEF End, ghosts, told
  <2>3. Range(session.waiting) \subseteq Found'
    BY <2>1, InFound
  <2>4. Range(driver.inbox) \subseteq Found'
    <3>1. CASE closing
      <4>1. Range(file') \subseteq Stored'
        BY <1>u, <3>1 DEF Stored, closing
      <4> QED BY <2>1, <3>1, <4>1, InFound
    <3>2. CASE ~closing
      BY <2>1, <3>2, InFound
    <3> QED BY <3>1, <3>2
  <2>5. r \notin InTasks
    BY <2>1 DEF InTasks
  <2> QED BY <1>1, <2>1, <2>2, <2>3, <2>4, <2>5
<1>10. CASE NextLine(r)
  <2>1. /\ Range(session.waiting)
              \subseteq Range(session'.waiting) \cup {runner'[r].line}
        /\ session.waiting # <<>> => runner'[r].pc = "loop"
        /\ \A s \in Runners : s # r => runner'[s] = runner[s]
        /\ runner[r].pc = "next"
    BY <1>10, NextLineSets
  <2>2. UNCHANGED <<tape, file, driver, taken>> /\ Fated' = Fated
    BY <1>10, FatedSame DEF NextLine, ghosts, told
  <2>3. Range(session.waiting) \subseteq Found'
    <3>1. CASE session.waiting = <<>>
      BY <1>z, <3>1
    <3>2. CASE session.waiting # <<>>
      BY <2>1, <3>2, InFound
    <3> QED BY <3>1, <3>2
  <2>4. Range(driver.inbox) \subseteq Found' /\ r \notin InTasks
    BY <2>1, <2>2, InFound DEF InTasks
  <2> QED BY <1>1, <2>1, <2>2, <2>3, <2>4
<1>11. CASE Rest(r)
  <2>1. session'.waiting = session.waiting
    BY <1>s, <1>11 DEF Rest, Sessions
  <2>2. \A s \in Runners : s # r => runner'[s] = runner[s]
    BY <1>11, RunnerIs DEF Rest
  <2>3. /\ UNCHANGED <<tape, file, driver, taken>> /\ Fated' = Fated
        /\ r \notin InTasks
    BY <1>11, FatedSame DEF Rest, ghosts, told, At, InTasks
  <2>4. Range(session.waiting) \subseteq Found' /\ Range(driver.inbox) \subseteq Found'
    BY <2>1, <2>3, InFound
  <2> QED BY <1>1, <2>2, <2>3, <2>4
<1> QED BY <1>2, <1>3, <1>4, <1>5, <1>6, <1>7, <1>8, <1>9, <1>10, <1>11
    DEF RunnerStep

LEMMA StopLost ==
  ASSUME TypeOK, StopInv, LostInv,
         Nudge \/ Cancel \/ Revoke \/ Close \/ StopStep
  PROVE  LostInv'
<1>s. session \in Sessions /\ driver \in Drivers /\ stop \in Stops
  BY DEF TypeOK, Sessions, Drivers, Stops
<1>z. Range(<<>>) = {}
  BY RangeFacts
<1>u. UNCHANGED <<tape, resume, caller, taken>>
  BY DEF Nudge, Cancel, Revoke, Close, StopStep, Drain, Keep, Finish, Cut, Wait, calls,
         ghosts, told
<1>c. closing => closing'
  <2>1. ASSUME NEW next, ShutOut(next), next \in {"cut", "synced"}
        PROVE  closing'
    BY <2>1, ShutOutSets DEF closing
  <2>2. CASE UNCHANGED stop
    BY <2>2 DEF closing
  <2>3. CASE Close \/ Cut
    BY <1>s, <2>3 DEF Close, Cut, closing, Stops
  <2>4. CASE Drain
    BY <2>4, DrainSets DEF closing
  <2>5. CASE Keep
    BY <2>5, KeepSets DEF closing
  <2> QED BY <2>1, <2>2, <2>3, <2>4, <2>5
      DEF Nudge, Cancel, Revoke, StopStep, Finish, Wait
<1>1. ASSUME Range(file) \subseteq Range(file'), Fated \subseteq Fated',
             Range(session.waiting) \subseteq Found',
             driver'.inbox = driver.inbox,
             Range(stop.kept) \subseteq Found',
             \A s \in InTasks : runner'[s] = runner[s]
      PROVE  LostInv'
  <2>1. Latest' = Latest
    BY <1>u, LatestSame
  <2>2. Stored \subseteq Stored'
    BY <1>u, <1>c, <1>1, StoredSame
  <2>3. \A s \in InTasks : runner[s].line \in Found'
    BY <1>1, InFound DEF InTasks
  <2>4. /\ Range(driver.inbox) \subseteq Found'
        /\ \A c \in Callers : caller[c] = "said" => Latest \in Found'
        /\ resume.pc = "gated" => Head(resume.todo) \in Found'
    BY <1>u, <1>1, <2>1, InFound
  <2>5. Fated \subseteq Found' /\ Stored \subseteq Found'
    BY <1>u, <1>1, <2>2, InFound
  <2> QED BY <1>u, <1>1, <2>3, <2>4, <2>5, NoneLost
<1>2. CASE Nudge
  <2>1. /\ Range(session.waiting) \subseteq Range(session'.waiting)
        /\ \A s \in Runners :
              \/ runner'[s] = runner[s]
              \/ /\ runner[s].pc = "free"
                 /\ runner'[s] = [pc |-> "loop", line |-> Other]
    BY <1>2, NudgeSets
  <2>2. UNCHANGED <<file, driver, stop>> /\ Fated' = Fated
    BY <1>2, FatedSame DEF Nudge, ghosts, told
  <2>3. \A s \in InTasks : runner'[s] = runner[s]
    BY <2>1 DEF InTasks
  <2>4. Range(session.waiting) \subseteq Found' /\ Range(stop.kept) \subseteq Found'
    BY <2>1, <2>2, InFound
  <2> QED BY <1>1, <2>2, <2>3, <2>4
<1>3. CASE Cancel \/ Revoke
  <2>1. driver'.inbox = driver.inbox
    <3>1. CASE Cancel
      BY <3>1, CutSets DEF Cancel
    <3>2. CASE Revoke
      BY <1>s, <3>2 DEF Revoke, Drivers
    <3> QED BY <1>3, <3>1, <3>2
  <2>2. UNCHANGED <<file, stop, runner>> /\ LetGo(session.waiting)
    BY <1>3 DEF Cancel, Revoke
  <2>3. Fated \subseteq Fated' /\ Range(session.waiting) \ {Other} \subseteq Fated'
    BY <2>2, LetGoFated DEF TypeOK
  <2>4. Range(session.waiting) \subseteq Found' /\ Range(stop.kept) \subseteq Found'
    BY <2>2, <2>3, InFound
  <2> QED BY <1>1, <2>1, <2>2, <2>3, <2>4
<1>4. CASE Close
  <2>1. stop'.kept = stop.kept
    BY <1>s, <1>4 DEF Close, Stops
  <2>2. UNCHANGED <<file, session, driver, runner>> /\ Fated' = Fated
    BY <1>4, FatedSame DEF Close, ghosts, told
  <2>3. Range(session.waiting) \subseteq Found' /\ Range(stop.kept) \subseteq Found'
    BY <2>1, <2>2, InFound
  <2> QED BY <1>1, <2>2, <2>3
<1>5. CASE Finish \/ Wait
  <2>1. stop'.kept = stop.kept
    BY <1>5, ShutOutSets DEF Finish, Wait
  <2>2. UNCHANGED <<file, session, driver, runner>> /\ Fated' = Fated
    BY <1>5, FatedSame DEF Finish, Wait, ghosts, told
  <2>3. Range(session.waiting) \subseteq Found' /\ Range(stop.kept) \subseteq Found'
    BY <2>1, <2>2, InFound
  <2> QED BY <1>1, <2>2, <2>3
<1>6. CASE Drain
  <2>1. /\ UNCHANGED <<file, driver, runner>> /\ Fated' = Fated
        /\ stop.pc = "drain"
    BY <1>6, FatedSame DEF Drain, ghosts, told
  <2>2. stop.kept = <<>>
    BY <2>1 DEF StopInv
  <2>3. Range(session.waiting) \subseteq Found'
    <3>1. CASE session.alive
      <4>1. Range(stop'.kept) = Range(session.waiting) \cap Lines
        BY <1>6, <3>1, DrainSets
      <4>2. Range(session.waiting) \subseteq Items
        <5>1. session.waiting \in Seq(Items)
          BY DEF TypeOK
        <5> QED BY <5>1, RangeOfSeq
      <4> QED BY <4>1, <4>2, InFound DEF Items
    <3>2. CASE ~session.alive
      <4>1. session' = session
        BY <1>6, <3>2, DrainSets
      <4> QED BY <4>1, InFound
    <3> QED BY <3>1, <3>2
  <2> QED BY <1>1, <1>z, <2>1, <2>2, <2>3
<1>7. CASE Keep
  <2>1. /\ Range(file) \subseteq Range(file') /\ Fated \subseteq Fated'
        /\ Range(stop.kept) \subseteq Range(file') \cup Fated'
        /\ stop'.pc = "finish"
    BY <1>7, KeepSets
  <2>2. UNCHANGED <<session, driver, runner>>
    BY <1>7 DEF Keep
  <2>3. Range(file') \subseteq Stored'
    BY <2>1 DEF Stored, closing
  <2>4. Range(session.waiting) \subseteq Found' /\ Range(stop.kept) \subseteq Found'
    BY <2>1, <2>2, <2>3, InFound
  <2> QED BY <1>1, <2>1, <2>2, <2>4
<1>8. CASE Cut
  <2>1. UNCHANGED <<file, runner>> /\ Fated' = Fated /\ stop.pc = "cut"
    BY <1>8, FatedSame DEF Cut, ghosts, told
  <2>2. stop'.kept = stop.kept
    BY <1>s, <1>8 DEF Cut, Stops
  <2>3. driver'.inbox = driver.inbox /\ Range(session.waiting) \subseteq Found'
    <3>1. CASE CutTurn(TRUE) /\ answering
      <4>1. driver'.inbox = driver.inbox
        BY <3>1, CutSets
      <4>2. ~LineIn(session.waiting)
        BY <2>1, <3>1 DEF StopInv
      <4>3. Range(session.waiting) \subseteq Items
        <5>1. session.waiting \in Seq(Items)
          BY DEF TypeOK
        <5> QED BY <5>1, RangeOfSeq
      <4> QED BY <4>1, <4>2, <4>3, InFound DEF LineIn, Items
    <3>2. CASE UNCHANGED <<session, driver>>
      BY <3>2, InFound
    <3> QED BY <1>8, <3>1, <3>2 DEF Cut
  <2>4. Range(stop.kept) \subseteq Found'
    BY <2>2, InFound
  <2> QED BY <1>1, <2>1, <2>3, <2>4
<1> QED BY <1>2, <1>3, <1>4, <1>5, <1>6, <1>7, <1>8 DEF StopStep

LEMMA ResumeLost ==
  ASSUME TypeInv, TypeOK, SaidInv, GateInv, StopInv, LostInv, ResumeStep
  PROVE  LostInv'
<1>r. resume \in Resumes
  BY DEF TypeOK, Resumes
<1>z. Range(<<>>) = {}
  BY RangeFacts
<1>u. UNCHANGED <<tape, driver, stop, caller, taken>> /\ (closing' <=> closing)
  BY DEF ResumeStep, ResumeRead, ResumeAdmit, ResumeEnter, ResumeHandOver,
         ResumeWrite, calls, ghosts, told, closing
<1>1. ASSUME Range(session.waiting) \subseteq Range(session'.waiting),
             \A s \in InTasks : runner'[s] = runner[s],
             resume.pc = "gated" => Head(resume.todo) \in Found',
             Fated \subseteq Fated', Stored \subseteq Found'
      PROVE  LostInv'
  <2>1. Latest' = Latest
    BY <1>u, LatestSame
  <2>2. \A s \in InTasks : runner[s].line \in Found'
    BY <1>1, InFound DEF InTasks
  <2>3. /\ Range(session.waiting) \subseteq Found'
        /\ Range(driver.inbox) \subseteq Found'
        /\ Range(stop.kept) \subseteq Found'
        /\ \A c \in Callers : caller[c] = "said" => Latest \in Found'
        /\ Fated \subseteq Found'
    BY <1>u, <1>1, <2>1, InFound
  <2> QED BY <1>u, <1>1, <2>2, <2>3, NoneLost
<1>2. CASE ResumeRead
  <2>1. /\ UNCHANGED <<session, runner, file, fate>> /\ resume.pc = "read"
        /\ resume'.left = <<>>
        /\ \/ resume'.pc = "done"
           \/ resume'.pc = "each" /\ resume'.todo = file
    BY <1>2 DEF ResumeRead, NoResume, ghosts
  <2>2. Stored = Range(file) /\ Stored' = Range(file)
    BY <1>z, <2>1 DEF Stored, Resuming
  <2>3. Stored \subseteq Found'
    BY <2>2, InFound
  <2> QED BY <1>1, <2>1, <2>3, FatedSame
<1>3. CASE ResumeAdmit
  <2>1. /\ \A l \in Range(resume.todo) \cup Range(resume.left) :
              \/ l \in Range(resume'.todo) \cup Range(resume'.left)
              \/ l \in Fated' \cup taken
        /\ resume.pc = "each" /\ resume'.pc \in {"each", "admitted"}
        /\ Fated \subseteq Fated'
        /\ UNCHANGED <<session, runner, file>>
    BY <1>3, ResumeAdmitSets
  <2>2. CASE closing
    <3>1. Stored = Range(file) /\ Stored' = Range(file)
      BY <1>u, <2>1, <2>2 DEF Stored
    <3> QED BY <1>1, <2>1, <3>1, InFound
  <2>3. CASE ~closing
    <3>1. /\ Stored = Range(resume.todo) \cup Range(resume.left)
          /\ Stored' = Range(resume'.todo) \cup Range(resume'.left)
      BY <1>u, <2>1, <2>3 DEF Stored, Resuming
    <3>2. Stored \subseteq Stored' \cup Fated' \cup taken'
      BY <1>u, <2>1, <3>1
    <3> QED BY <1>1, <2>1, <3>2, InFound
  <2> QED BY <2>2, <2>3
<1>4. CASE ResumeEnter
  <2>1. /\ resume.todo # <<>> /\ UNCHANGED <<session, runner, file, fate>>
        /\ resume.pc = "admitted"
    BY <1>4 DEF ResumeEnter, TypeInv, ResumeHasLine, ghosts
  <2>2. Range(resume'.todo) \cup Range(resume'.left)
          = Range(resume.todo) \cup Range(resume.left)
        /\ resume'.pc \in {"each", "gated"}
    <3>1. CASE resume' = [resume EXCEPT !.pc = "gated"]
      <4>1. /\ resume'.todo = resume.todo /\ resume'.left = resume.left
            /\ resume'.pc = "gated"
        BY <1>r, <3>1 DEF Resumes
      <4> QED BY <4>1
    <3>2. CASE resume' = Leaving(Head(resume.todo))
      BY <2>1, <3>2, LeavingSets
    <3> QED BY <1>4, <3>1, <3>2 DEF ResumeEnter
  <2>3. Stored' = Stored
    BY <1>u, <2>1, <2>2 DEF Stored, Resuming
  <2> QED BY <1>1, <2>1, <2>3, FatedSame, InFound
<1>5. CASE ResumeHandOver
  <2>1. resume.todo # <<>> /\ resume.pc = "gated"
    BY <1>5 DEF ResumeHandOver, TypeInv, ResumeHasLine
  <2>2. /\ Range(resume.todo) = {Head(resume.todo)} \cup Range(Tail(resume.todo))
        /\ Head(resume.todo) \in Lines
    BY <2>1, TodoSets
  <2>3. PICK item \in Items : item = Head(resume.todo) /\ item \in Lines
    BY <2>2 DEF Items
  <2>4. Dispatch(item)
    BY <1>5, <2>3 DEF ResumeHandOver
  <2>5. /\ Range(session.waiting) \subseteq Range(session'.waiting)
        /\ \A s \in Runners :
              \/ runner'[s] = runner[s]
              \/ runner[s].pc = "free" /\ runner'[s] = [pc |-> "loop", line |-> item]
        /\ \/ closing /\ item \in Range(file') \cup Fated'
           \/ item \in Range(session'.waiting)
           \/ \E s \in Runners : runner'[s] = [pc |-> "loop", line |-> item]
        /\ Range(file) \subseteq Range(file') /\ Fated \subseteq Fated'
    <3>1. /\ Range(session.waiting) \subseteq Range(session'.waiting)
          /\ \A s \in Runners :
              \/ runner'[s] = runner[s]
              \/ runner[s].pc = "free" /\ runner'[s] = [pc |-> "loop", line |-> item]
          /\ item \in Lines =>
              \/ closing /\ item \in Range(file') \cup Fated'
              \/ item \in Range(session'.waiting)
              \/ \E s \in Runners : runner'[s] = [pc |-> "loop", line |-> item]
          /\ Range(file) \subseteq Range(file') /\ Fated \subseteq Fated'
      BY <2>4, DispatchSets
    <3> QED BY <2>3, <3>1
  <2>6. \A s \in InTasks : runner'[s] = runner[s]
    BY <2>5 DEF InTasks
  <2>7. /\ resume'.todo = Tail(resume.todo) /\ resume'.left = resume.left
        /\ resume'.pc = "each"
    BY <1>r, <1>5 DEF ResumeHandOver, Resumes
  <2>8. closing => Stored' = Range(file') /\ Stored = Range(file)
    BY <1>u DEF Stored
  <2>9. ~closing => /\ Stored' = Range(Tail(resume.todo)) \cup Range(resume.left)
                    /\ Stored = Range(resume.todo) \cup Range(resume.left)
    BY <1>u, <2>1, <2>7 DEF Stored, Resuming
  <2>10. item \in Found'
    BY <2>5, <2>8, InFound
  <2>11. Stored \subseteq Found'
    BY <2>2, <2>3, <2>5, <2>8, <2>9, <2>10, InFound
  <2> QED BY <1>1, <2>3, <2>5, <2>6, <2>10, <2>11
(* What a stop filed while the lines were being handed on is overwritten,  *)
(* unless the write fails.                                                 *)
<1>6. CASE ResumeWrite
  <2>1. /\ resume'.pc = "done" /\ resume.pc = "each"
        /\ resume.todo = <<>> /\ UNCHANGED <<session, runner>>
    BY <1>6 DEF ResumeWrite, NoResume
  <2>2. Stored' = Range(file')
    BY <2>1 DEF Stored, Resuming
  <2>3. ~closing => Stored = Range(resume.left) /\ Stored \subseteq Range(file)
    BY <1>z, <2>1 DEF Stored, Resuming, StopInv
  <2>4. closing => Stored = Range(file)
    BY DEF Stored
  <2>5. CASE UNCHANGED <<file, fate>>
    <3>1. Stored \subseteq Stored'
      BY <2>2, <2>3, <2>4, <2>5
    <3> QED BY <1>1, <2>1, <2>5, <3>1, FatedSame, InFound
  <2>6. CASE file' = resume.left /\ ~closing /\ UNCHANGED fate
    <3>1. Stored \subseteq Stored'
      BY <2>2, <2>3, <2>6
    <3> QED BY <1>1, <2>1, <2>6, <3>1, FatedSame, InFound
  <2>7. CASE /\ file' = resume.left /\ closing
             /\ Lose(Range(file) \ (Range(resume.left) \cup InMemory \cup taken),
                     "overwritten")
    <3>1. "overwritten" \in Fates /\ "overwritten" # "none"
      BY DEF Fates
    <3>2. Fated' = Fated \cup
            ((Range(file) \ (Range(resume.left) \cup InMemory \cup taken)) \cap Lines)
      BY <2>7, <3>1, LoseFated
    <3>3. Range(file) \subseteq Lines
      BY RangeOfSeq DEF TypeOK
    <3>4. InMemory' = InMemory
      <4>1. Latest' = Latest
        BY <1>u, LatestSame
      <4> QED BY <1>u, <2>1, <4>1 DEF InMemory, At
    <3>5. Stored \subseteq Stored' \cup Fated' \cup InMemory' \cup taken'
      BY <1>u, <2>2, <2>4, <2>7, <3>2, <3>3, <3>4
    <3>6. Stored \subseteq Found'
      BY <3>5 DEF Found, Safe
    <3> QED BY <1>1, <2>1, <3>2, <3>6
  <2> QED BY <1>6, <2>5, <2>6, <2>7 DEF ResumeWrite
<1> QED BY <1>2, <1>3, <1>4, <1>5, <1>6 DEF ResumeStep

LEMMA RestartLost ==
  ASSUME TypeInv, TypeOK, TasksInv, StopInv, LostInv, Restart
  PROVE  LostInv'
<1>z. Range(<<>>) = {}
  BY RangeFacts
<1>u. UNCHANGED <<tape, file, taken>>
  BY DEF Restart
<1>1. Stored' = Range(file)
  BY <1>u DEF Restart, Started, Stored, Resuming
<1>2. Stored \subseteq Range(file)
  BY DEF StopInv, Stored
<1>f. /\ Fated \subseteq Fated'
      /\ ~stop.shut => (InMemory \ {Other}) \cap Lines \subseteq Fated' \cup Range(file)
  <2>1. CASE stop.shut
    BY <2>1, FatedSame DEF Restart
  <2>2. CASE ~stop.shut
    <3>1. "killed" \in Fates /\ "killed" # "none"
      BY DEF Fates
    <3>2. Fated' = Fated \cup (((InMemory \ {Other}) \ Range(file)) \cap Lines)
      BY <2>2, <3>1, LoseFated DEF Restart
    <3> QED BY <3>2
  <2> QED BY <2>1, <2>2
<1>3. SUFFICES ASSUME NEW l \in Lines, l \in InMemory
               PROVE  l \in Fated' \cup Range(file)
  <2>1. ASSUME NEW l \in Lines, tape'[l] # "unsaid", l \notin taken'
        PROVE  l \in Safe'
    <3>1. l \in Safe
      BY <1>u, <2>1 DEF LostInv
    <3>2. l \in InMemory \/ l \in Fated \/ l \in Stored
      BY <3>1 DEF Safe
    <3>3. l \in Fated' \/ l \in Stored'
      BY <1>1, <1>2, <1>3, <1>f, <3>2
    <3> QED BY <3>3 DEF Safe
  <2> QED BY <2>1 DEF LostInv
<1>4. CASE ~stop.shut
  <2>1. l # Other
    BY BoundsAssumption DEF Lines, Other
  <2> QED BY <1>3, <1>4, <1>f, <2>1
<1>5. CASE stop.shut
  <2>1. /\ \A r \in Runners : runner[r].pc = "free"
        /\ \A c \in Callers : caller[c] = "idle"
        /\ resume.pc # "gated"
        /\ stop.kept = <<>>
    BY <1>5 DEF StopInv, Working, At
  <2>2. driver.inbox = <<>>
    BY <2>1 DEF TasksInv, InboxIsRead
  <2>3. ~LineIn(session.waiting)
    BY <2>1 DEF TasksInv, Fetched, Holding
  <2>4. InMemory \subseteq Range(session.waiting)
    BY <1>z, <2>1, <2>2 DEF InMemory, At
  <2> QED BY <1>3, <2>3, <2>4 DEF LineIn
<1> QED BY <1>4, <1>5

LEMMA LostStep ==
  /\ TypeInv /\ SaidInv /\ GateInv /\ TasksInv /\ StopInv /\ LostInv
  /\ [Next]_vars
  => LostInv'
<1> SUFFICES ASSUME TypeInv, SaidInv, GateInv, TasksInv, StopInv, LostInv, [Next]_vars
             PROVE  LostInv'
  OBVIOUS
<1>t. TypeOK
  BY DEF TypeInv
<1>1. CASE \E c \in Callers : Ask(c) \/ CallerStep(c)
  BY <1>t, <1>1, CallerLost
<1>2. CASE \E r \in Runners :
             SteerInto(r) \/ Consume(r) \/ Update(r) \/ RunnerStep(r)
  BY <1>t, <1>2, TurnLost
<1>3. CASE Nudge \/ Cancel \/ Revoke \/ Close \/ StopStep
  BY <1>t, <1>3, StopLost
<1>4. CASE ResumeStep
  BY <1>t, <1>4, ResumeLost
<1>5. CASE Restart
  BY <1>t, <1>5, RestartLost
<1>6. CASE Off \/ UNCHANGED vars
  <2>1. UNCHANGED <<tape, file, session, driver, runner, resume, stop, taken, fate,
                    caller>>
    BY <1>6 DEF Off, vars, calls, ghosts, told
  <2> QED BY <2>1, FatedSame, StillLost DEF InTasks
<1> QED BY <1>1, <1>2, <1>3, <1>4, <1>5, <1>6 DEF Next
-----------------------------------------------------------------------------
(* The theorems on the queue and on what is kept.                          *)
QueueIInv == TypeInv /\ QueueInv

(* The types hold; one task drives the queue, `running` says whether one   *)
(* does, no line waits with nobody coming back for it, and the room shows  *)
(* it (turns.rs, dm.rs): for any number of callers, tasks, lines and       *)
(* starts.                                                                 *)
THEOREM QueueStaysDriven == Spec => []QueueIsDriven
<1>1. Init => QueueIInv
  BY TypeInvInit, FreshQueue DEF QueueIInv
<1>2. QueueIInv /\ [Next]_vars => QueueIInv'
  BY TypeInvStep, QueueStep DEF QueueIInv
<1>3. QueueIInv => QueueIsDriven
  <2> SUFFICES ASSUME TypeInv, TypeOK, QueueInv PROVE QueueIsDriven
    BY DEF QueueIInv, TypeInv
  <2>1. OneDriver
    <3>1. SUFFICES ASSUME answering
                   PROVE  /\ Cardinality(Claims) <= 1
                          /\ session.running <=> Claims # {}
      BY DEF OneDriver
    <3>2. session.running <=> Claims # {}
      BY <3>1 DEF QueueInv
    <3>3. CASE Claims = {}
      BY <3>2, <3>3, FS_EmptySet
    <3>4. CASE Claims # {}
      <4>1. PICK x : x \in Claims
        BY <3>4
      <4>2. Claims = {x}
        BY <3>1, <4>1 DEF QueueInv
      <4>3. Cardinality({x}) = 1
        BY FS_Singleton
      <4> QED BY <3>2, <4>2, <4>3
    <3> QED BY <3>3, <3>4
  <2>2. NoLineStranded
    BY DEF NoLineStranded, QueueInv
  <2>3. ShownIsTrue
    BY DEF ShownIsTrue, QueueInv, Turning, Idle
  <2> QED BY <2>1, <2>2, <2>3 DEF QueueIsDriven
<1> QED BY <1>1, <1>2, <1>3, PTL DEF Spec

(* All that NoLineLost rests on.                                           *)
LineIInv == QueueIInv /\ GateInv /\ TasksInv /\ SaidInv /\ StopInv /\ LostInv

LEMMA LineIInvInit == Init => LineIInv
<1> SUFFICES ASSUME Init PROVE LineIInv
  OBVIOUS
<1>1. QueueIInv /\ SaidInv /\ StopInv
  BY TypeInvInit, FreshQueue, FreshSaid, FreshStop DEF QueueIInv
<1>2. GateInv
  BY DEF Init, GateInv, NoResume
<1>3. TasksInv
  BY RangeFacts DEF Init, TasksInv, RunningIsHeld, OneBusy, InboxIsRead, Fetched, Fresh,
                    NoTurn, Free, Busy, LineIn
<1>4. LostInv
  BY DEF Init, LostInv
<1> QED BY <1>1, <1>2, <1>3, <1>4 DEF LineIInv

(* What the person said and no agent was told, whatever its receipt says,  *)
(* is still on its way or in pending.json, or was let go of in one of the  *)
(* six ways the code has: with a stop, a kill, a file that could not be    *)
(* written or a stop that overtakes a resume at any step (stopping.rs).    *)
THEOREM LinesAreKept == Spec => []NoLineLost
<1>1. Init => LineIInv
  BY LineIInvInit
<1>2. LineIInv /\ [Next]_vars => LineIInv'
  BY TypeInvStep, QueueStep, GateStep, TasksStep, SaidStep, StopInvStep, LostStep
  DEF LineIInv, QueueIInv
<1>3. LineIInv => NoLineLost
  <2> SUFFICES ASSUME StopInv, LostInv PROVE NoLineLost
    BY DEF LineIInv
  <2>1. Stored \subseteq Range(file)
    BY DEF StopInv, Stored
  <2> QED BY <2>1 DEF LostInv, Safe, Fated, NoLineLost
<1> QED BY <1>1, <1>2, <1>3, PTL DEF Spec
-----------------------------------------------------------------------------
(* Sequences whose typed lines are in the order they were said, and sets   *)
(* all of one before all of the other.                                     *)
Typed == Lines \ Spoken
Sorted(s) == \A i, j \in 1..Len(s) :
               i < j /\ s[i] \in Typed /\ s[j] \in Typed => s[i] < s[j]
Before(A, B) == \A a \in A, b \in B : a \in Typed /\ b \in Typed => a < b

(* What keeps a sequence in order.                                         *)
LEMMA SortedConcat ==
  ASSUME NEW s \in Seq(Items), NEW t \in Seq(Items), Sorted(s), Sorted(t),
         Before(Range(s), Range(t))
  PROVE  Sorted(s \o t)
<1> DEFINE u == s \o t
<1>1. /\ Len(u) = Len(s) + Len(t) /\ Len(s) \in Nat /\ Len(t) \in Nat
      /\ \A i \in 1..Len(s) : u[i] = s[i]
      /\ \A i \in (Len(s) + 1)..Len(u) : u[i] = t[i - Len(s)]
                                        /\ i - Len(s) \in 1..Len(t)
  OBVIOUS
<1> HIDE DEF u
<1>2. Range(s) = {s[i] : i \in 1..Len(s)} /\ Range(t) = {t[i] : i \in 1..Len(t)}
  BY RangeEquality
<1>3. SUFFICES ASSUME NEW i \in 1..Len(u), NEW j \in 1..Len(u), i < j,
                      u[i] \in Typed, u[j] \in Typed
               PROVE  u[i] < u[j]
  BY DEF Sorted, u
<1>4. CASE j \in 1..Len(s)
  <2>1. i \in 1..Len(s)
    BY <1>1, <1>3, <1>4
  <2> QED BY <1>1, <1>3, <1>4, <2>1 DEF Sorted
<1>5. CASE i \in (Len(s) + 1)..Len(u)
  <2>1. j \in (Len(s) + 1)..Len(u)
    BY <1>1, <1>3, <1>5
  <2>2. PICK a, b \in 1..Len(t) : a = i - Len(s) /\ b = j - Len(s)
    BY <1>1, <1>5, <2>1
  <2>3. a < b /\ u[i] = t[a] /\ u[j] = t[b]
    BY <1>1, <1>3, <1>5, <2>1, <2>2
  <2> QED BY <1>3, <2>2, <2>3 DEF Sorted
<1>6. CASE i \in 1..Len(s) /\ j \in (Len(s) + 1)..Len(u)
  <2>1. u[i] \in Range(s) /\ u[j] \in Range(t)
    BY <1>1, <1>2, <1>6
  <2> QED BY <1>3, <2>1 DEF Before
<1>7. /\ i \in 1..Len(s) \/ i \in (Len(s) + 1)..Len(u)
      /\ j \in 1..Len(s) \/ j \in (Len(s) + 1)..Len(u)
  BY <1>1
<1> QED BY <1>4, <1>5, <1>6, <1>7

LEMMA SortedTail ==
  ASSUME NEW s \in Seq(Items), Sorted(s), s # <<>>
  PROVE  Sorted(Tail(s)) /\ Before({Head(s)}, Range(Tail(s)))
<1> DEFINE t == Tail(s)
<1>1. /\ t \in Seq(Items) /\ Len(t) = Len(s) - 1 /\ Len(s) \in Nat
      /\ \A i \in 1..Len(t) : t[i] = s[i + 1]
      /\ Head(s) = s[1]
  BY HeadTailProperties
<1> HIDE DEF t
<1>2. \A i \in 1..Len(t) : i + 1 \in 1..Len(s)
  BY <1>1
<1>3. 1 \in 1..Len(s)
  BY HeadTailProperties
<1>4. Range(t) = {t[i] : i \in 1..Len(t)}
  BY <1>1, RangeEquality
<1>5. Sorted(t)
  <2>1. SUFFICES ASSUME NEW i \in 1..Len(t), NEW j \in 1..Len(t), i < j,
                        t[i] \in Typed, t[j] \in Typed
                 PROVE  t[i] < t[j]
    BY DEF Sorted
  <2>2. PICK a, b \in 1..Len(s) : a = i + 1 /\ b = j + 1
    BY <1>2
  <2>3. a < b /\ t[i] = s[a] /\ t[j] = s[b]
    BY <1>1, <2>1, <2>2
  <2> QED BY <2>1, <2>2, <2>3 DEF Sorted
<1>6. Before({Head(s)}, Range(t))
  <2>1. SUFFICES ASSUME NEW i \in 1..Len(t), Head(s) \in Typed, t[i] \in Typed
                 PROVE  Head(s) < t[i]
    BY <1>4 DEF Before
  <2>2. PICK b \in 1..Len(s) : b = i + 1
    BY <1>2
  <2>3. 1 < b /\ t[i] = s[b]
    BY <1>1, <2>2
  <2> QED BY <1>1, <1>3, <2>1, <2>2, <2>3 DEF Sorted
<1> QED BY <1>5, <1>6 DEF t

LEMMA SortedFilter ==
  ASSUME NEW s \in Seq(Items), NEW T, Sorted(s)
  PROVE  Sorted(Filter(s, T))
<1> DEFINE t == Filter(s, T)
<1>1. t \in Seq(Items) /\ Picks(t, s, Len(s), T)
  BY FilterPicks
<1> HIDE DEF t
<1>2. SUFFICES ASSUME NEW i \in 1..Len(t), NEW j \in 1..Len(t), i < j,
                      t[i] \in Typed, t[j] \in Typed
               PROVE  t[i] < t[j]
  BY DEF Sorted, t
<1>3. PICK a, b \in 1..Len(s) : a < b /\ s[a] = t[i] /\ s[b] = t[j]
  BY <1>1, <1>2 DEF Picks
<1> QED BY <1>2, <1>3 DEF Sorted

LEMMA SortedPrefix ==
  ASSUME NEW t \in Seq(Lines), Sorted(t), NEW n \in 1..Len(t),
         NEW u \in Seq(Lines), Len(u) = n, \A i \in 1..n : u[i] = t[i]
  PROVE  /\ Sorted(u)
         /\ Before(Range(u), Range(t) \ Range(u))
<1>1. Len(t) \in Nat /\ n \in Nat
  OBVIOUS
<1>2. \A i \in 1..n : i \in 1..Len(t)
  BY <1>1
<1>3. Sorted(u)
  <2>1. SUFFICES ASSUME NEW i \in 1..n, NEW j \in 1..n, i < j,
                        u[i] \in Typed, u[j] \in Typed
                 PROVE  u[i] < u[j]
    BY <1>1 DEF Sorted
  <2>2. i \in 1..Len(t) /\ j \in 1..Len(t) /\ u[i] = t[i] /\ u[j] = t[j]
    BY <1>1, <1>2
  <2> QED BY <2>1, <2>2 DEF Sorted
<1>4. Range(u) = {u[i] : i \in 1..n} /\ Range(t) = {t[i] : i \in 1..Len(t)}
  <2>1. Range(u) = {u[i] : i \in 1..Len(u)}
    BY RangeEquality
  <2>2. Range(t) = {t[i] : i \in 1..Len(t)}
    BY RangeEquality
  <2> QED BY <1>1, <2>1, <2>2
<1>5. Before(Range(u), Range(t) \ Range(u))
  <2>1. SUFFICES ASSUME NEW i \in 1..n, NEW j \in 1..Len(t), t[j] \notin Range(u),
                        u[i] \in Typed, t[j] \in Typed
                 PROVE  u[i] < t[j]
    BY <1>4 DEF Before
  <2>2. j \notin 1..n
    BY <1>1, <1>4, <2>1
  <2>3. i < j
    BY <1>1, <2>2
  <2> QED BY <1>1, <1>2, <2>1, <2>3 DEF Sorted
<1> QED BY <1>3, <1>5

LEMMA SortedShort ==
  Sorted(<<>>) /\ \A x : Sorted(<<x>>)
BY DEF Sorted

LEMMA OtherIsNotTyped == Other \notin Typed /\ Typed \subseteq Lines
BY BoundsAssumption DEF Other, Typed, Lines

(* Where the lines of the first start are, in order: what was heard, then  *)
(* the agent's inbox, then the queue; a line fetched from the queue is     *)
(* before what is left of it, and the line being said comes after all of   *)
(* them.                                                                   *)
Begun == {r \in Runners : runner[r].pc \in {"begin", "begun"}}
Older == Range(heard) \cup Range(driver.inbox) \cup Range(session.waiting)
           \cup {runner[r].line : r \in InTasks}
OrderInv ==
  starts = 1 =>
    /\ resume.pc = "done"
    /\ Range(heard) \subseteq Said
    /\ Sorted(heard)
    /\ \A r \in Begun : Before(Range(heard), {runner[r].line})
    /\ session.alive \/ driver.cancelled \/ driver.inbox = <<>>
    /\ session.alive =>
         /\ Sorted(driver.inbox) /\ Sorted(session.waiting)
         /\ Before(Range(driver.inbox), Range(session.waiting))
         /\ Before(Range(heard), Range(driver.inbox))
         /\ Before(Range(heard), Range(session.waiting))
         /\ \A r \in InTasks : /\ Before({runner[r].line}, Range(session.waiting))
                               /\ Before(Range(heard), {runner[r].line})
         /\ \A c \in Callers : caller[c] = "said" => Before(Older, {Latest})

(* The primed invariant, with its operators expanded once.                 *)
LEMMA PrimedOrder ==
  ASSUME \/ starts' # 1
         \/ /\ resume'.pc = "done"
            /\ Range(heard') \subseteq Said'
            /\ Sorted(heard')
            /\ \A r \in Begun' : Before(Range(heard'), {runner'[r].line})
            /\ session'.alive \/ driver'.cancelled \/ driver'.inbox = <<>>
            /\ session'.alive =>
                 /\ Sorted(driver'.inbox) /\ Sorted(session'.waiting)
                 /\ Before(Range(driver'.inbox), Range(session'.waiting))
                 /\ Before(Range(heard'), Range(driver'.inbox))
                 /\ Before(Range(heard'), Range(session'.waiting))
                 /\ \A r \in InTasks' :
                      /\ Before({runner'[r].line}, Range(session'.waiting))
                      /\ Before(Range(heard'), {runner'[r].line})
                 /\ \A c \in Callers : caller'[c] = "said" => Before(Older', {Latest'})
  PROVE  OrderInv'
BY DEF OrderInv, Sorted, Before

(* A step that tells the agent nothing and puts no line before another.    *)
LEMMA OrderLess ==
  ASSUME OrderInv, UNCHANGED <<starts, heard>>,
         starts = 1 =>
           /\ resume.pc = "done" => resume'.pc = "done"
           /\ \A l \in Lines : tape'[l] = "unsaid" <=> tape[l] = "unsaid"
           /\ session'.alive => session.alive
           /\ session'.alive \/ driver'.cancelled \/ driver'.inbox = <<>>
           /\ session'.alive =>
                /\ Sorted(driver'.inbox) /\ Sorted(session'.waiting)
                /\ Range(driver'.inbox) \subseteq Range(driver.inbox)
                /\ Range(session'.waiting) \subseteq Range(session.waiting) \cup {Other}
                /\ \A c \in Callers : caller'[c] = "said" => caller[c] = "said"
           /\ \A r \in InTasks' :
                \/ r \in InTasks /\ runner'[r].line = runner[r].line
                \/ runner'[r].line = Other
           /\ \A r \in Begun' :
                \/ r \in Begun /\ runner'[r].line = runner[r].line
                \/ session.alive /\ r \in InTasks /\ runner'[r].line = runner[r].line
                \/ runner'[r].line = Other
  PROVE  OrderInv'
<1>1. SUFFICES ASSUME starts' = 1
               PROVE  OrderInv'
  BY PrimedOrder
<1>2. /\ starts = 1 /\ Said' = Said /\ Latest' = Latest
  BY <1>1, LatestSame DEF Said
<1>3. \A r \in Begun' : Before(Range(heard'), {runner'[r].line})
  <2>1. ASSUME NEW r \in Begun'
        PROVE  Before(Range(heard'), {runner'[r].line})
    <3>1. \/ Before(Range(heard), {runner[r].line}) /\ runner'[r].line = runner[r].line
          \/ runner'[r].line = Other
      BY <1>2, <2>1 DEF OrderInv
    <3> QED BY <3>1, OtherIsNotTyped DEF Before
  <2> QED BY <2>1
<1>4. ASSUME session'.alive
      PROVE  /\ Before(Range(driver'.inbox), Range(session'.waiting))
             /\ Before(Range(heard'), Range(driver'.inbox))
             /\ Before(Range(heard'), Range(session'.waiting))
             /\ \A r \in InTasks' :
                  /\ Before({runner'[r].line}, Range(session'.waiting))
                  /\ Before(Range(heard'), {runner'[r].line})
             /\ \A c \in Callers : caller'[c] = "said" => Before(Older', {Latest'})
  <2>1. session.alive
    BY <1>2, <1>4
  <2>2. Before(Range(driver'.inbox), Range(session'.waiting))
    <3>1. Before(Range(driver.inbox), Range(session.waiting))
      BY <1>2, <2>1 DEF OrderInv
    <3> QED BY <1>2, <1>4, <3>1, OtherIsNotTyped DEF Before
  <2>3. Before(Range(heard'), Range(driver'.inbox))
    <3>1. Before(Range(heard), Range(driver.inbox))
      BY <1>2, <2>1 DEF OrderInv
    <3> QED BY <1>2, <1>4, <3>1 DEF Before
  <2>4. Before(Range(heard'), Range(session'.waiting))
    <3>1. Before(Range(heard), Range(session.waiting))
      BY <1>2, <2>1 DEF OrderInv
    <3> QED BY <1>2, <1>4, <3>1, OtherIsNotTyped DEF Before
  <2>5. ASSUME NEW r \in InTasks'
        PROVE  /\ Before({runner'[r].line}, Range(session'.waiting))
               /\ Before(Range(heard'), {runner'[r].line})
    <3>1. CASE runner'[r].line = Other
      BY <3>1, OtherIsNotTyped DEF Before
    <3>2. CASE r \in InTasks /\ runner'[r].line = runner[r].line
      <4>1. /\ Before({runner[r].line}, Range(session.waiting))
            /\ Before(Range(heard), {runner[r].line})
        BY <1>2, <2>1, <3>2 DEF OrderInv
      <4> QED BY <1>2, <1>4, <3>2, <4>1, OtherIsNotTyped DEF Before
    <3> QED BY <1>2, <2>5, <3>1, <3>2
  <2>6. ASSUME NEW c \in Callers, caller'[c] = "said"
        PROVE  Before(Older', {Latest'})
    <3>1. Before(Older, {Latest})
      BY <1>2, <1>4, <2>1, <2>6 DEF OrderInv
    <3>2. \A a \in Older' : a \in Older \/ a = Other
      BY <1>2, <1>4 DEF Older
    <3> QED BY <1>2, <3>1, <3>2, OtherIsNotTyped DEF Before
  <2> QED BY <2>2, <2>3, <2>4, <2>5, <2>6
<1>5. /\ resume'.pc = "done" /\ Range(heard') \subseteq Said' /\ Sorted(heard')
      /\ session'.alive \/ driver'.cancelled \/ driver'.inbox = <<>>
      /\ session'.alive => Sorted(driver'.inbox) /\ Sorted(session'.waiting)
  BY <1>2 DEF OrderInv
<1> QED BY <1>3, <1>4, <1>5, PrimedOrder

(* Whoever holds the claim is alone, and without one no line waits.        *)
LEMMA Alone ==
  ASSUME QueueInv, TasksInv, answering
  PROVE  /\ \A r, s \in Runners : Holding(r) /\ Holding(s) => r = s
         /\ \A r \in Runners, c \in Callers : Holding(r) => caller[c] # "claimed"
         /\ (~session.running => \A r \in Runners : ~Holding(r))
         /\ (~session.running => ~LineIn(session.waiting))
         /\ ((\E c \in Callers : caller[c] = "claimed")
               => ~LineIn(session.waiting) /\ \A r \in Runners : ~Holding(r))
<1>1. ASSUME NEW r \in Runners, NEW s \in Runners, Holding(r), Holding(s)
      PROVE  r = s
  <2>1. r \in Claims /\ s \in Claims
    BY <1>1 DEF Claims, Holding
  <2> QED BY <2>1 DEF QueueInv
<1>2. ASSUME NEW r \in Runners, NEW c \in Callers, Holding(r), caller[c] = "claimed"
      PROVE  FALSE
  <2>1. r \in Claims /\ c \in Claims
    BY <1>2 DEF Claims, Holding
  <2>2. r = c
    BY <2>1 DEF QueueInv
  <2> QED BY <2>2, LinesAssumption
<1>3. ASSUME ~session.running, NEW r \in Runners, Holding(r)
      PROVE  FALSE
  <2>1. r \in Claims
    BY <1>3 DEF Claims, Holding
  <2> QED BY <1>3, <2>1 DEF QueueInv
<1>4. (\A r \in Runners : ~Holding(r)) => ~LineIn(session.waiting)
  BY DEF TasksInv, Fetched
<1> QED BY <1>1, <1>2, <1>3, <1>4

(* Each step keeps OrderInv: one lemma for each group of actions.          *)
LEMMA CallerOrder ==
  ASSUME TypeInv, TypeOK, QueueInv, GateInv, TasksInv, SaidInv, OrderInv,
         NEW c \in Callers, Ask(c) \/ CallerStep(c)
  PROVE  OrderInv'
<1>s. session \in Sessions /\ session.waiting \in Seq(Items)
  BY DEF TypeOK, Sessions
<1>c. caller \in [Callers -> {"idle", "asked", "gated", "said", "claimed"}]
  BY DEF TypeOK
<1>u. UNCHANGED <<starts, heard, driver, resume>>
  BY DEF Ask, CallerStep, Enter, Say, HandOver, Deliver, ClaimIdle, DeliverClaimed,
         Refuse, ghosts, told, era
<1>0. SUFFICES ASSUME starts = 1
               PROVE  OrderInv'
  BY <1>u, PrimedOrder
<1>i. /\ session.alive \/ driver.cancelled \/ driver.inbox = <<>>
      /\ session.alive => Sorted(driver.inbox) /\ Sorted(session.waiting)
  BY <1>0 DEF OrderInv
<1>1. ASSUME UNCHANGED tape, session'.alive = session.alive,
             session'.waiting = session.waiting,
             \A d \in Callers : caller'[d] = "said" => caller[d] = "said",
             \A s \in Runners :
               \/ runner'[s] = runner[s]
               \/ runner'[s] = [pc |-> "loop", line |-> Other]
      PROVE  OrderInv'
  <2>1. /\ \A s \in InTasks' :
             \/ s \in InTasks /\ runner'[s].line = runner[s].line
             \/ runner'[s].line = Other
        /\ \A s \in Begun' : s \in Begun /\ runner'[s].line = runner[s].line
    BY <1>1 DEF InTasks, Begun
  <2> QED BY <1>i, <1>u, <1>1, <2>1, OrderLess
<1>2. CASE Ask(c) \/ Enter(c) \/ Refuse(c)
  <2>1. UNCHANGED <<tape, session, runner>>
    BY <1>2 DEF Ask, Enter, Refuse
  <2>2. \A d \in Callers : caller'[d] = "said" => caller[d] = "said"
    BY <1>c, <1>2 DEF Ask, Enter, Refuse, Leave
  <2> QED BY <1>1, <2>1, <2>2
<1>3. CASE ClaimIdle(c) \/ DeliverClaimed(c)
  <2>1. UNCHANGED tape /\ session'.alive = session.alive
        /\ session'.waiting = session.waiting
    BY <1>s, <1>3 DEF ClaimIdle, DeliverClaimed, Sessions
  <2>2. \A d \in Callers : caller'[d] = "said" => caller[d] = "said"
    BY <1>c, <1>3 DEF ClaimIdle, DeliverClaimed, Leave
  <2>3. \A s \in Runners :
               \/ runner'[s] = runner[s]
               \/ runner'[s] = [pc |-> "loop", line |-> Other]
    <3>1. CASE UNCHANGED runner
      BY <3>1
    <3>2. CASE \E r \in Runners : Spawn(r, Other)
      <4>1. PICK r \in Runners : Spawn(r, Other)
        BY <3>2
      <4>2. /\ \A s \in Runners : s # r => runner'[s] = runner[s]
            /\ runner'[r] = [pc |-> "loop", line |-> Other]
        BY <4>1, RunnerIs DEF Spawn
      <4> QED BY <4>2
    <3> QED BY <1>3, <3>1, <3>2 DEF ClaimIdle, DeliverClaimed
  <2> QED BY <1>1, <2>1, <2>2, <2>3
<1>4. CASE Deliver(c)
  <2>1. /\ UNCHANGED <<tape, driver, resume>>
        /\ Dispatch(Other) /\ Other \in Items
    BY <1>4 DEF Deliver, Items
  <2>2. \A d \in Callers : caller'[d] = "said" => caller[d] = "said"
    BY <1>c, <1>4 DEF Deliver, Leave
  <2>3. /\ session'.alive = session.alive
        /\ Range(session'.waiting) \subseteq Range(session.waiting) \cup {Other}
        /\ \A s \in Runners :
               \/ runner'[s] = runner[s]
               \/ runner'[s] = [pc |-> "loop", line |-> Other]
    BY <2>1, DispatchSets
  <2>4. session.alive => Sorted(session'.waiting)
    <3>1. CASE session'.waiting = session.waiting
      BY <1>i, <3>1
    <3>2. CASE session'.waiting = Append(session.waiting, Other)
      <4>1. PICK x \in Items : x = Other
        BY <2>1
      <4>2. <<x>> \in Seq(Items)
        OBVIOUS
      <4>3. Range(<<x>>) = {x}
        BY RangeFacts
      <4>4. Before(Range(session.waiting), Range(<<x>>))
        BY <4>1, <4>3, OtherIsNotTyped DEF Before
      <4>5. Append(session.waiting, x) = session.waiting \o <<x>>
        BY <1>s, AppendIsConcat
      <4>6. Sorted(<<x>>)
        BY SortedShort
      <4> QED BY <1>i, <1>s, <3>2, <4>1, <4>2, <4>4, <4>5, <4>6, SortedConcat
    <3>3. \/ session'.waiting = session.waiting
          \/ session'.waiting = Append(session.waiting, Other)
      <4>1. CASE session' = session
        BY <4>1
      <4>2. CASE session' = [session EXCEPT !.waiting = Append(@, Other)]
        BY <1>s, <4>2, SessionFields
      <4>3. CASE session' = [session EXCEPT !.running = TRUE]
        BY <1>s, <4>3 DEF Sessions
      <4> QED BY <2>1, <4>1, <4>2, <4>3 DEF Dispatch, Claim
    <3> QED BY <3>1, <3>2, <3>3
  <2>5. /\ \A s \in InTasks' :
             \/ s \in InTasks /\ runner'[s].line = runner[s].line
             \/ runner'[s].line = Other
        /\ \A s \in Begun' : s \in Begun /\ runner'[s].line = runner[s].line
    BY <2>3 DEF InTasks, Begun
  <2> QED BY <1>i, <1>u, <2>1, <2>2, <2>3, <2>4, <2>5, OrderLess
<1>5. CASE Say(c)
  <2>1. PICK l \in Lines : /\ tape[l] = "unsaid"
                           /\ tape' = [tape EXCEPT ![l] = "sent"]
    BY <1>5 DEF Say
  <2>2. tape'[l] = "sent" /\ \A k \in Lines : k # l => tape'[k] = tape[k]
    BY <2>1 DEF TypeOK
  <2>3. UNCHANGED <<session, runner>>
    BY <1>5 DEF Say
  <2>4. Said \subseteq Said'
    BY <2>2 DEF Said
  <2>5. Latest' = l
    BY <1>5, <2>1, <2>2, SaidIsLatest
  <2>6. Before(Said, {l})
    <3>1. ASSUME NEW k \in Said, k \in Typed PROVE k < l
      <4>1. k \in Lines /\ tape[k] # "unsaid"
        BY <3>1, OtherIsNotTyped DEF Said
      <4>2. k # l /\ ~(l < k)
        BY <2>1, <4>1 DEF SaidInv, TapeIsPrefix
      <4> QED BY <4>1, <4>2, BoundsAssumption DEF Lines
    <3> QED BY <3>1 DEF Before
  <2>7. Older \subseteq Said
    BY <1>0 DEF OrderInv, Older, SaidInv, InTasks
  <2>8. Older' = Older
    BY <1>u, <2>3 DEF Older, InTasks
  <2>9. Before(Older', {Latest'})
    BY <2>5, <2>6, <2>7, <2>8 DEF Before
  <2>10. InTasks' = InTasks /\ Begun' = Begun
    BY <2>3 DEF InTasks, Begun
  <2> QED BY <1>0, <1>u, <2>3, <2>4, <2>9, <2>10, PrimedOrder DEF OrderInv
<1>6. CASE HandOver(c)
  <2>1. Latest \in Items /\ Latest \in Lines
    BY <1>6, LatestIsSaid DEF TypeInv, SaidFirst, HandOver, Items
  <2>2. PICK item \in Items : item = Latest
    BY <2>1
  <2>3. Dispatch(item) /\ UNCHANGED tape /\ caller[c] = "said"
    BY <1>6, <2>2 DEF HandOver
  <2>4. \A d \in Callers : caller'[d] # "said"
    <3>1. \A d \in Callers : caller[d] = "said" => d = c
      BY <1>6, PastTheGate DEF HandOver
    <3> QED BY <1>c, <1>6, <3>1 DEF HandOver, Leave
  <2>5. session.alive => Before(Older, {item})
    BY <1>0, <2>2, <2>3 DEF OrderInv
  <2>6. \A d \in Callers : caller[d] # "claimed"
    BY <1>6, PastTheGate DEF HandOver
  <2>7. CASE UNCHANGED <<session, runner>>
    <3>1. InTasks' = InTasks /\ Begun' = Begun
      BY <2>7 DEF InTasks, Begun
    <3> QED BY <1>i, <1>u, <2>3, <2>4, <2>7, <3>1, OrderLess
  <2>8. CASE /\ session.running
             /\ session' = [session EXCEPT !.waiting = Append(@, item)]
             /\ UNCHANGED runner
    <3>1. /\ session'.alive = session.alive
          /\ session'.waiting = Append(session.waiting, item)
      BY <1>s, <2>8, SessionFields
    <3>2. /\ <<item>> \in Seq(Items)
      OBVIOUS
    <3>3. Range(<<item>>) = {item}
      BY RangeFacts
    <3>4. Append(session.waiting, item) = session.waiting \o <<item>>
      BY <1>s, AppendIsConcat
    <3>5. Range(session'.waiting) = Range(session.waiting) \cup {item}
      <4>1. Range(Append(session.waiting, item)) = Range(session.waiting) \cup {item}
        BY <1>s, RangeFacts
      <4> QED BY <3>1, <4>1
    <3>6. InTasks' = InTasks /\ Begun' = Begun
      BY <2>8 DEF InTasks, Begun
    <3>7. ASSUME session.alive
          PROVE  /\ Sorted(session'.waiting)
                 /\ Before(Range(driver.inbox), Range(session'.waiting))
                 /\ Before(Range(heard), Range(session'.waiting))
                 /\ \A r \in InTasks :
                      Before({runner[r].line}, Range(session'.waiting))
      <4>1. Before(Older, {item})
        BY <2>5, <3>7
      <4>2. Sorted(session'.waiting)
        <5>1. Before(Range(session.waiting), Range(<<item>>))
          BY <3>3, <4>1 DEF Before, Older
        <5>2. Sorted(<<item>>)
          BY SortedShort
        <5>3. Sorted(session.waiting \o <<item>>)
          BY <1>i, <1>s, <3>2, <3>7, <5>1, <5>2, SortedConcat
        <5> QED BY <3>1, <3>4, <5>3
      <4>3. Before(Range(driver.inbox), Range(session'.waiting))
        BY <1>0, <3>5, <3>7, <4>1 DEF OrderInv, Before, Older
      <4>4. Before(Range(heard), Range(session'.waiting))
        BY <1>0, <3>5, <3>7, <4>1 DEF OrderInv, Before, Older
      <4>5. ASSUME NEW r \in InTasks
            PROVE  Before({runner[r].line}, Range(session'.waiting))
        <5>1. Before({runner[r].line}, Range(session.waiting))
          BY <1>0, <3>7 DEF OrderInv
        <5>2. runner[r].line \in Older
          BY DEF Older
        <5> QED BY <3>5, <4>1, <5>1, <5>2 DEF Before
      <4> QED BY <4>2, <4>3, <4>4, <4>5
    <3>8. Said' = Said
      BY <2>3 DEF Said
    <3> QED BY <1>0, <1>u, <2>4, <2>8, <3>1, <3>6, <3>7, <3>8, PrimedOrder DEF OrderInv
  <2>9. CASE /\ ~session.running
             /\ session' = [session EXCEPT !.running = TRUE]
             /\ \E r \in Runners : Spawn(r, item)
    <3>1. session'.alive = session.alive /\ session'.waiting = session.waiting
      BY <1>s, <2>9 DEF Sessions
    <3>2. PICK r \in Runners : Spawn(r, item)
      BY <2>9
    <3>3. /\ \A s \in Runners : s # r => runner'[s] = runner[s]
          /\ runner'[r] = [pc |-> "loop", line |-> item]
      BY <3>2, RunnerIs DEF Spawn
    <3>4. \A s \in Begun' : s \in Begun /\ runner'[s].line = runner[s].line
      BY <3>3 DEF Begun
    <3>5. Said' = Said
      BY <2>3 DEF Said
    <3>6. ASSUME session.alive
          PROVE  \A s \in InTasks' :
                   /\ Before({runner'[s].line}, Range(session'.waiting))
                   /\ Before(Range(heard), {runner'[s].line})
      <4>1. /\ ~LineIn(session.waiting)
            /\ \A s \in Runners : ~Holding(s)
        BY <2>9, <3>6, Alone DEF answering
      <4>2. \A s \in InTasks' : s = r
        BY <3>3, <4>1 DEF InTasks, Holding
      <4>3. \A b \in Range(session'.waiting) : b \notin Typed
        BY <3>1, <4>1, OtherIsNotTyped DEF LineIn
      <4>4. Before(Range(heard), {item})
        BY <2>5, <3>6 DEF Before, Older
      <4> QED BY <3>3, <4>2, <4>3, <4>4 DEF Before
    <3> QED BY <1>0, <1>u, <2>4, <3>1, <3>4, <3>5, <3>6, PrimedOrder DEF OrderInv
  <2> QED BY <2>3, <2>7, <2>8, <2>9 DEF Dispatch, Claim
<1> QED BY <1>2, <1>3, <1>4, <1>5, <1>6 DEF CallerStep

LEMMA TellOrder ==
  ASSUME heard \in Seq(Lines), Sorted(heard), NEW item \in Items,
         Before(Range(heard), {item}), Tell(<<item>>)
  PROVE  /\ Sorted(heard')
         /\ Range(heard') = Range(heard) \cup ({item} \cap Lines)
<1>1. /\ Persons(<<item>>) \in Seq(Lines)
      /\ Range(Persons(<<item>>)) = {item} \cap Lines
  BY PersonsOfOne
<1>2. PICK p \in Seq(Lines) : p = Persons(<<item>>)
  BY <1>1
<1>3. <<item>> \in Seq(Items)
  OBVIOUS
<1>4. Sorted(<<item>>)
  BY SortedShort
<1>5. Sorted(p)
  BY <1>2, <1>3, <1>4, SortedFilter DEF Persons
<1>6. heard' = heard \o p /\ Range(p) = {item} \cap Lines
  BY <1>1, <1>2 DEF Tell
<1>7. Before(Range(heard), Range(p))
  BY <1>6 DEF Before
<1>8. heard \in Seq(Items) /\ p \in Seq(Items)
  BY Widen
<1>9. Sorted(heard \o p)
  BY <1>5, <1>7, <1>8, SortedConcat
<1>10. Range(heard \o p) = Range(heard) \cup Range(p)
  BY RangeConcatenation
<1> QED BY <1>6, <1>9, <1>10

(* The lines a driver takes are before the rest of what waits.             *)
LEMMA SteerOrder ==
  ASSUME NEW w \in Seq(Items), Sorted(w), NEW n \in 1..Len(Steering(w)),
         NEW given \in Seq(Lines), given = SubSeq(Steering(w), 1, n)
  PROVE  /\ Sorted(given) /\ Sorted(Behind(w, given))
         /\ Before(Range(given), Range(Behind(w, given)))
<1>1. PICK t \in Seq(Lines) : /\ t = Steering(w)
                              /\ Range(t) = Range(w) \cap (Lines \ Spoken)
  BY SteeringAreLines
<1>2. Sorted(t)
  BY <1>1, SortedFilter DEF Steering
<1>3. n \in 1..Len(t) /\ Len(given) = n /\ \A i \in 1..n : given[i] = t[i]
  BY <1>1, SubSeqProperties
<1>4. Sorted(given) /\ Before(Range(given), Range(t) \ Range(given))
  BY <1>2, <1>3, SortedPrefix
<1>5. PICK v : v = Behind(w, given)
  OBVIOUS
<1>6. Sorted(v) /\ Range(v) = Range(w) \cap (Items \ Range(given))
  <2>1. Sorted(v)
    BY <1>5, SortedFilter DEF Behind
  <2>2. Range(v) = Range(w) \cap (Items \ Range(given))
    BY <1>5, FilterRange DEF Behind
  <2> QED BY <2>1, <2>2
<1>7. Before(Range(given), Range(v))
  BY <1>1, <1>4, <1>6 DEF Before, Typed
<1> QED BY <1>4, <1>5, <1>6, <1>7

LEMMA TurnOrder ==
  ASSUME TypeInv, TypeOK, QueueInv, TasksInv, SaidInv, OrderInv, NEW r \in Runners,
         SteerInto(r) \/ Consume(r) \/ Update(r) \/ RunnerStep(r)
  PROVE  OrderInv'
<1>s. session \in Sessions /\ session.waiting \in Seq(Items) /\ driver \in Drivers
      /\ driver.inbox \in Seq(Lines) /\ driver.inbox \in Seq(Items)
      /\ heard \in Seq(Lines)
  BY Widen DEF TypeOK, Sessions, Drivers
<1>u. UNCHANGED <<starts, resume, caller>>
  BY DEF SteerInto, Consume, Update, RunnerStep, LoopTop, Begin, Prompt, TurnEnds,
         End, NextLine, Rest, era, calls
<1>z. Range(<<>>) = {} /\ Sorted(<<>>)
  BY RangeFacts, SortedShort
<1>0. SUFFICES ASSUME starts = 1
               PROVE  OrderInv'
  BY <1>u, PrimedOrder
<1>i. /\ session.alive \/ driver.cancelled \/ driver.inbox = <<>>
      /\ session.alive =>
           /\ Sorted(driver.inbox) /\ Sorted(session.waiting)
           /\ Before(Range(driver.inbox), Range(session.waiting))
           /\ Before(Range(heard), Range(driver.inbox))
           /\ Before(Range(heard), Range(session.waiting))
           /\ \A c \in Callers : caller[c] = "said" => Before(Older, {Latest})
      /\ resume.pc = "done" /\ Range(heard) \subseteq Said /\ Sorted(heard)
  BY <1>0 DEF OrderInv
<1>h. \A s \in Begun : Before(Range(heard), {runner[s].line})
  BY <1>0 DEF OrderInv
<1>l. session.alive =>
        \A s \in InTasks : /\ Before({runner[s].line}, Range(session.waiting))
                           /\ Before(Range(heard), {runner[s].line})
  BY <1>0 DEF OrderInv
<1>b. Busy(r) => \A s \in Begun : s = r
  BY DEF TasksInv, OneBusy, Busy, Begun
<1>o. session.alive /\ Holding(r) => \A s \in Runners : Holding(s) => s = r
  <2>1. ASSUME session.alive, Holding(r) PROVE \A s \in Runners : Holding(s) => s = r
    BY <2>1, Alone DEF answering
  <2> QED BY <2>1
<1>1. ASSUME UNCHANGED <<heard, driver>>,
             \A l \in Lines : tape'[l] = "unsaid" <=> tape[l] = "unsaid",
             session'.alive = session.alive,
             session'.waiting = session.waiting \/ session'.waiting = <<>>,
             \A s \in Runners : s # r => runner'[s] = runner[s],
             \/ runner'[r].pc \notin {"loop", "begin", "begun"}
             \/ /\ r \in InTasks /\ runner'[r].line = runner[r].line
                /\ runner'[r].pc \in {"begin", "begun"} => session.alive \/ r \in Begun
      PROVE  OrderInv'
  <2>1. /\ \A s \in InTasks' :
             s \in InTasks /\ runner'[s].line = runner[s].line
        /\ \A s \in Begun' :
             \/ s \in Begun /\ runner'[s].line = runner[s].line
             \/ session.alive /\ s \in InTasks /\ runner'[s].line = runner[s].line
    BY <1>1 DEF InTasks, Begun
  <2>2. /\ session.alive => Sorted(session'.waiting)
        /\ Range(session'.waiting) \subseteq Range(session.waiting)
    BY <1>i, <1>z, <1>1
  <2> QED BY <1>i, <1>u, <1>1, <2>1, <2>2, OrderLess
<1>a. ASSUME Abandon(r), UNCHANGED <<tape, driver, heard>>
      PROVE  OrderInv'
  <2>1. /\ session'.waiting = <<>> /\ session'.alive = session.alive
        /\ \A s \in Runners : s # r => runner'[s] = runner[s]
        /\ runner'[r].pc = "rest"
    BY <1>a, AbandonSets
  <2> QED BY <1>1, <1>a, <2>1
<1>2. CASE LoopTop(r)
  <2>0. UNCHANGED <<tape, driver, heard>> /\ r \in InTasks
    BY <1>2 DEF LoopTop, InTasks, At, told
  <2>1. CASE Abandon(r)
    BY <1>a, <2>0, <2>1
  <2>2. CASE /\ answering
             /\ runner' = [runner EXCEPT ![r].pc = "begin"]
             /\ UNCHANGED session
    <3>1. /\ \A s \in Runners : s # r => runner'[s] = runner[s]
          /\ runner'[r].line = runner[r].line
      BY <2>2, RunnerAt
    <3> QED BY <1>1, <2>0, <2>2, <3>1 DEF answering
  <2> QED BY <1>2, <2>1, <2>2 DEF LoopTop
<1>3. CASE Begin(r)
  <2>0. UNCHANGED <<tape, driver, heard>> /\ r \in InTasks /\ r \in Begun
    BY <1>3 DEF Begin, InTasks, Begun, At, told
  <2>1. CASE Abandon(r)
    BY <1>a, <2>0, <2>1
  <2>2. CASE /\ \/ session' = [session EXCEPT !.shown = "thinking",
                              !.unread = @ \cup ({runner[r].line} \ {Other})]
                \/ session' = [session EXCEPT !.shown = "thinking"]
             /\ \/ runner' = [runner EXCEPT ![r].pc = "begun"]
                \/ runner' = [runner EXCEPT ![r].pc = "next"]
    <3>1. session'.alive = session.alive /\ session'.waiting = session.waiting
      BY <1>s, <2>2 DEF Sessions
    <3>2. /\ \A s \in Runners : s # r => runner'[s] = runner[s]
          /\ runner'[r].line = runner[r].line
      BY <2>2, RunnerAt
    <3> QED BY <1>1, <2>0, <3>1, <3>2
  <2> QED BY <1>3, <2>1, <2>2 DEF Begin
<1>4. CASE Update(r)
  <2>1. session'.alive = session.alive /\ session'.waiting = session.waiting
    BY <1>s, <1>4 DEF Update, Sessions
  <2>2. UNCHANGED <<driver, runner, heard>> /\ runner[r].pc = "turn"
    BY <1>4 DEF Update, At, ghosts, told
  <2>3. \A l \in Lines : tape'[l] = IF l \in session.unread THEN "read" ELSE tape[l]
    BY <1>4 DEF Update, Read
  <2>4. \A l \in Lines : l \in session.unread => tape[l] # "unsaid"
    BY BoundsAssumption DEF SaidInv, Said, Lines, Other
  <2> QED BY <1>1, <2>1, <2>2, <2>3, <2>4
<1>5. CASE Rest(r)
  <2>1. session'.alive = session.alive /\ session'.waiting = session.waiting
    BY <1>s, <1>5 DEF Rest, Sessions
  <2>2. UNCHANGED <<tape, driver, heard>>
    BY <1>5 DEF Rest, ghosts, told
  <2>3. /\ \A s \in Runners : s # r => runner'[s] = runner[s]
        /\ runner'[r] = Free
    BY <1>5, RunnerIs DEF Rest
  <2>4. runner'[r].pc = "free"
    BY <2>3 DEF Free
  <2> QED BY <1>1, <2>1, <2>2, <2>3, <2>4
<1>6. CASE TurnEnds(r)
  <2>1. UNCHANGED <<tape, session, heard>> /\ runner[r].pc = "turn"
    BY <1>6 DEF TurnEnds, At, told
  <2>2. /\ \A s \in Runners : s # r => runner'[s] = runner[s]
        /\ runner'[r].pc = "end"
    BY <1>6, RunnerAt DEF TurnEnds
  <2>3. driver' = driver \/ driver' = NoTurn
    BY <1>6 DEF TurnEnds
  <2>4. CASE driver' = driver
    BY <1>1, <2>1, <2>2, <2>4
  <2>5. CASE driver' = NoTurn
    <3>1. driver'.inbox = <<>>
      BY <2>5 DEF NoTurn
    <3>2. /\ \A s \in InTasks' :
               s \in InTasks /\ runner'[s].line = runner[s].line
          /\ \A s \in Begun' : s \in Begun /\ runner'[s].line = runner[s].line
      BY <2>1, <2>2 DEF InTasks, Begun
    <3> QED BY <1>i, <1>u, <1>z, <2>1, <3>1, <3>2, OrderLess
  <2> QED BY <2>3, <2>4, <2>5
<1>7. CASE Prompt(r)
  <2>1. /\ UNCHANGED <<tape, session>> /\ runner[r].pc = "begun"
        /\ driver' = NoTurn /\ Tell(<<runner[r].line>>)
    BY <1>7 DEF Prompt, At
  <2>2. /\ \A s \in Runners : s # r => runner'[s] = runner[s]
        /\ runner'[r].pc = "turn"
    BY <1>7, RunnerAt DEF Prompt
  <2>3. PICK item \in Items : item = runner[r].line
    BY DEF TypeOK
  <2>4. r \in Begun /\ r \in InTasks /\ Busy(r) /\ Holding(r)
    BY <2>1 DEF Begun, InTasks, Busy, Holding
  <2>5. Before(Range(heard), {item})
    BY <1>h, <2>3, <2>4
  <2>6. Tell(<<item>>)
    BY <2>1, <2>3
  <2>7. Sorted(heard') /\ Range(heard') = Range(heard) \cup ({item} \cap Lines)
    BY <1>i, <1>s, <2>5, <2>6, TellOrder
  <2>8. Said' = Said /\ Latest' = Latest
    BY <2>1, LatestSame DEF Said
  <2>9. item \in Said
    BY <2>3 DEF SaidInv
  <2>10. Begun' = {}
    BY <1>b, <2>2, <2>4 DEF Begun
  <2>11. driver'.inbox = <<>>
    BY <2>1 DEF NoTurn
  <2>12. ASSUME session.alive
         PROVE  /\ InTasks' = {}
                /\ Before(Range(heard'), Range(session.waiting))
                /\ \A c \in Callers : caller[c] = "said" => Before(Older', {Latest'})
    <3>1. InTasks' = {}
      BY <1>o, <2>2, <2>4, <2>12 DEF InTasks, Holding
    <3>2. Before(Range(heard'), Range(session.waiting))
      <4>1. Before({item}, Range(session.waiting))
        BY <1>l, <2>3, <2>4, <2>12
      <4> QED BY <1>i, <2>7, <2>12, <4>1 DEF Before
    <3>3. Older' \subseteq Older
      BY <1>z, <2>1, <2>3, <2>4, <2>7, <2>11, <3>1 DEF Older
    <3> QED BY <1>i, <2>8, <2>12, <3>1, <3>2, <3>3 DEF Before
  <2>13. Before(Range(heard'), {}) /\ Before({}, Range(session.waiting))
    BY DEF Before
  <2> QED BY <1>i, <1>u, <1>z, <2>1, <2>7, <2>8, <2>9, <2>10, <2>11, <2>12, <2>13,
             PrimedOrder
<1>8. CASE Consume(r)
  <2>1. /\ UNCHANGED <<tape, session, runner>> /\ runner[r].pc = "turn"
        /\ driver.inbox # <<>> /\ ~driver.cancelled
        /\ Tell(<<Head(driver.inbox)>>)
    BY <1>8 DEF Consume, At
  <2>2. session.alive
    BY <1>i, <2>1
  <2>3. PICK item \in Lines : item = Head(driver.inbox)
    BY <1>s, <2>1, HeadTailProperties
  <2>4. /\ driver'.inbox = Tail(driver.inbox)
        /\ Range(driver.inbox) = {item} \cup Range(driver'.inbox)
    BY <1>8, <2>3, InboxSets
  <2>5. Sorted(driver'.inbox) /\ Before({item}, Range(driver'.inbox))
    BY <1>i, <1>s, <2>1, <2>2, <2>3, <2>4, SortedTail
  <2>6. Before(Range(heard), {item})
    BY <1>i, <2>2, <2>4 DEF Before
  <2>7. Tell(<<item>>) /\ item \in Items
    BY <2>1, <2>3 DEF Items
  <2>8. Sorted(heard') /\ Range(heard') = Range(heard) \cup {item}
    <3>1. Sorted(heard') /\ Range(heard') = Range(heard) \cup ({item} \cap Lines)
      BY <1>i, <1>s, <2>6, <2>7, TellOrder
    <3> QED BY <3>1
  <2>9. Said' = Said /\ Latest' = Latest
    BY <2>1, LatestSame DEF Said
  <2>10. item \in Said
    BY <2>4 DEF SaidInv
  <2>11. InTasks' = {} /\ Begun' = {}
    <3>1. Holding(r) /\ r \notin InTasks
      BY <2>1 DEF Holding, InTasks
    <3>2. \A s \in Runners : s \notin InTasks
      BY <1>o, <2>2, <3>1 DEF Holding, InTasks
    <3> QED BY <2>1, <3>2 DEF InTasks, Begun
  <2>12. /\ Before(Range(driver'.inbox), Range(session.waiting))
         /\ Before(Range(heard'), Range(driver'.inbox))
         /\ Before(Range(heard'), Range(session.waiting))
    <3>1. Before(Range(driver'.inbox), Range(session.waiting))
      BY <1>i, <2>2, <2>4 DEF Before
    <3>2. Before(Range(heard'), Range(driver'.inbox))
      BY <1>i, <2>2, <2>4, <2>5, <2>8 DEF Before
    <3>3. Before(Range(heard'), Range(session.waiting))
      BY <1>i, <2>2, <2>4, <2>8 DEF Before
    <3> QED BY <3>1, <3>2, <3>3
  <2>13. \A c \in Callers : caller[c] = "said" => Before(Older', {Latest'})
    <3>1. Older' \subseteq Older
      BY <2>1, <2>4, <2>8, <2>11 DEF Older
    <3> QED BY <1>i, <2>2, <2>9, <3>1 DEF Before
  <2> QED BY <1>i, <1>u, <2>1, <2>2, <2>5, <2>8, <2>9, <2>10, <2>11, <2>12, <2>13,
             PrimedOrder
<1>9. CASE SteerInto(r)
  <2>1. session.alive /\ UNCHANGED <<tape, runner, heard>> /\ runner[r].pc = "turn"
    BY <1>9 DEF SteerInto, answering, At, ghosts, told
  <2>2. PICK given \in Seq(Lines) :
           /\ Range(given) \subseteq Range(session.waiting)
           /\ \E n \in 1..Len(Steering(session.waiting)) :
                given = SubSeq(Steering(session.waiting), 1, n)
           /\ session'.waiting = Behind(session.waiting, given)
           /\ Range(session'.waiting) \subseteq Range(session.waiting)
           /\ session'.alive = session.alive
           /\ driver'.inbox = driver.inbox \o given
    BY <1>9, SteerSets
  <2>3. PICK w \in Seq(Items) : w = session.waiting
    BY <1>s
  <2>4. PICK n \in 1..Len(Steering(w)) : given = SubSeq(Steering(w), 1, n)
    BY <2>2, <2>3
  <2>5. Sorted(w)
    BY <1>i, <2>1, <2>3
  <2>6. /\ Sorted(given) /\ Sorted(Behind(w, given))
        /\ Before(Range(given), Range(Behind(w, given)))
    BY <2>4, <2>5, SteerOrder
  <2>7. /\ Sorted(given) /\ Sorted(session'.waiting)
        /\ Before(Range(given), Range(session'.waiting))
    BY <2>2, <2>3, <2>6
  <2>8. Range(driver'.inbox) = Range(driver.inbox) \cup Range(given)
    <3>1. Range(driver.inbox \o given) = Range(driver.inbox) \cup Range(given)
      BY <1>s, RangeConcatenation
    <3> QED BY <2>2, <3>1
  <2>9. Sorted(driver'.inbox)
    <3>1. Before(Range(driver.inbox), Range(given))
      BY <1>i, <2>1, <2>2 DEF Before
    <3>2. given \in Seq(Items)
      BY Widen
    <3>3. Sorted(driver.inbox \o given)
      BY <1>i, <1>s, <2>1, <2>7, <3>1, <3>2, SortedConcat
    <3> QED BY <2>2, <3>3
  <2>10. Said' = Said /\ Latest' = Latest
    BY <2>1, LatestSame DEF Said
  <2>11. InTasks' = {} /\ Begun' = {} /\ InTasks = {}
    <3>1. Holding(r) /\ r \notin InTasks
      BY <2>1 DEF Holding, InTasks
    <3>2. \A s \in Runners : s \notin InTasks
      BY <1>o, <2>1, <3>1 DEF Holding, InTasks
    <3> QED BY <2>1, <3>2 DEF InTasks, Begun
  <2>12. /\ Before(Range(driver'.inbox), Range(session'.waiting))
         /\ Before(Range(heard), Range(driver'.inbox))
         /\ Before(Range(heard), Range(session'.waiting))
    <3>1. Before(Range(driver'.inbox), Range(session'.waiting))
      BY <1>i, <2>1, <2>2, <2>7, <2>8 DEF Before
    <3>2. Before(Range(heard), Range(driver'.inbox))
      BY <1>i, <2>1, <2>2, <2>8 DEF Before
    <3>3. Before(Range(heard), Range(session'.waiting))
      BY <1>i, <2>1, <2>2 DEF Before
    <3> QED BY <3>1, <3>2, <3>3
  <2>13. \A c \in Callers : caller[c] = "said" => Before(Older', {Latest'})
    <3>1. Older' \subseteq Older
      BY <2>1, <2>2, <2>8, <2>11 DEF Older
    <3> QED BY <1>i, <2>1, <2>10, <3>1 DEF Before
  <2> QED BY <1>i, <1>u, <2>1, <2>2, <2>7, <2>9, <2>10, <2>11, <2>12, <2>13,
             PrimedOrder
<1>10. CASE End(r)
  <2>1. /\ session'.alive = session.alive
        /\ \A s \in Runners : s # r => runner'[s] = runner[s]
        /\ runner'[r].pc = "next"
        /\ driver' = NoTurn /\ runner[r].pc = "end"
    BY <1>10, EndSets
  <2>2. driver'.inbox = <<>> /\ UNCHANGED <<tape, heard>>
    BY <1>10, <2>1 DEF NoTurn, End, ghosts, told
  <2>3. /\ \A s \in InTasks' :
             s \in InTasks /\ runner'[s].line = runner[s].line
        /\ \A s \in Begun' : s \in Begun /\ runner'[s].line = runner[s].line
    BY <2>1 DEF InTasks, Begun
  <2>4. CASE session' = session
    BY <1>i, <1>u, <1>z, <2>2, <2>3, <2>4, OrderLess
  <2>5. CASE session' = [session EXCEPT !.waiting = driver.inbox \o @]
    <3>1. session'.waiting = driver.inbox \o session.waiting
      BY <1>s, <2>5, SessionFields
    <3>2. Range(session'.waiting) = Range(driver.inbox) \cup Range(session.waiting)
      BY <1>s, <3>1, RangeConcatenation
    <3>3. Said' = Said /\ Latest' = Latest
      BY <2>2, LatestSame DEF Said
    <3>4. ASSUME session.alive
          PROVE  /\ InTasks' = {} /\ Sorted(session'.waiting)
                 /\ Before(Range(heard), Range(session'.waiting))
                 /\ \A c \in Callers : caller[c] = "said" => Before(Older', {Latest'})
      <4>1. InTasks' = {}
        <5>1. Holding(r) /\ r \notin InTasks
          BY <2>1 DEF Holding, InTasks
        <5>2. \A s \in Runners : s \notin InTasks
          BY <1>o, <3>4, <5>1 DEF Holding, InTasks
        <5> QED BY <2>3, <5>2 DEF InTasks
      <4>2. Sorted(session'.waiting)
        BY <1>i, <1>s, <3>1, <3>4, SortedConcat
      <4>3. Before(Range(heard), Range(session'.waiting))
        BY <1>i, <3>2, <3>4 DEF Before
      <4>4. Older' \subseteq Older
        BY <1>z, <2>2, <3>2, <4>1 DEF Older
      <4> QED BY <1>i, <3>3, <3>4, <4>1, <4>2, <4>3, <4>4 DEF Before
    <3>5. Before({}, Range(session'.waiting)) /\ Before(Range(heard), {})
      BY DEF Before
    <3>6. \A s \in Begun' : Before(Range(heard'), {runner'[s].line})
      BY <1>h, <2>2, <2>3
    <3> QED BY <1>i, <1>u, <1>z, <2>1, <2>2, <3>3, <3>4, <3>5, <3>6, PrimedOrder
  <2> QED BY <1>10, <2>4, <2>5 DEF End
<1>11. CASE NextLine(r)
  <2>0. UNCHANGED <<tape, driver, heard>> /\ runner[r].pc = "next"
    BY <1>11 DEF NextLine, ghosts, told, At
  <2>1. CASE session.waiting = <<>>
    <3>1. /\ session'.alive = session.alive /\ session'.waiting = <<>>
          /\ runner'[r].pc = "rest"
          /\ \A s \in Runners : s # r => runner'[s] = runner[s]
      BY <1>11, <2>1, NextLineSets
    <3> QED BY <1>1, <2>0, <3>1
  <2>2. CASE session.waiting # <<>>
    <3>1. /\ session' = [session EXCEPT !.waiting = Tail(@)]
          /\ runner' = [runner EXCEPT ![r] = [pc |-> "loop",
                                              line |-> Head(session.waiting)]]
      BY <1>11, <2>2 DEF NextLine
    <3>2. session'.alive = session.alive /\ session'.waiting = Tail(session.waiting)
      BY <1>s, <3>1, SessionFields
    <3>3. PICK item : item = Head(session.waiting)
      OBVIOUS
    <3>4. /\ \A s \in Runners : s # r => runner'[s] = runner[s]
          /\ runner'[r].pc = "loop" /\ runner'[r].line = item
      <4> DEFINE t == [pc |-> "loop", line |-> Head(session.waiting)]
      <4>1. /\ runner' = [runner EXCEPT ![r] = t]
            /\ t.pc = "loop" /\ t.line = item
        BY <3>1, <3>3
      <4> HIDE DEF t
      <4> QED BY <4>1, RunnerIs
    <3>5. Range(session.waiting) = {item} \cup Range(session'.waiting)
      <4>1. Range(session.waiting)
              = {Head(session.waiting)} \cup Range(Tail(session.waiting))
        BY <1>s, <2>2, RangeFacts
      <4> QED BY <3>2, <3>3, <4>1
    <3>6. Said' = Said /\ Latest' = Latest
      BY <2>0, LatestSame DEF Said
    <3>7. \A s \in Begun' : Before(Range(heard'), {runner'[s].line})
      BY <1>h, <2>0, <3>4 DEF Begun
    <3>8. ASSUME session.alive
          PROVE  /\ Sorted(session'.waiting)
                 /\ Before(Range(driver.inbox), Range(session'.waiting))
                 /\ Before(Range(heard), Range(session'.waiting))
                 /\ \A s \in InTasks' :
                      /\ Before({runner'[s].line}, Range(session'.waiting))
                      /\ Before(Range(heard), {runner'[s].line})
                 /\ \A c \in Callers : caller[c] = "said" => Before(Older', {Latest'})
      <4>1. \A s \in InTasks' : s = r
        <5>1. Holding(r) /\ r \notin InTasks
          BY <2>0 DEF Holding, InTasks
        <5>2. \A s \in Runners : s \notin InTasks
          BY <1>o, <3>8, <5>1 DEF Holding, InTasks
        <5> QED BY <3>4, <5>2 DEF InTasks
      <4>2. Sorted(session'.waiting) /\ Before({item}, Range(session'.waiting))
        BY <1>i, <1>s, <2>2, <3>2, <3>3, <3>8, SortedTail
      <4>3. /\ Before(Range(driver.inbox), Range(session'.waiting))
            /\ Before(Range(heard), Range(session'.waiting))
            /\ Before(Range(heard), {item})
        BY <1>i, <3>5, <3>8 DEF Before
      <4>4. Older' \subseteq Older
        <5>1. \A s \in InTasks' : runner'[s].line \in Older
          BY <3>4, <3>5, <4>1 DEF Older
        <5> QED BY <2>0, <3>5, <5>1 DEF Older
      <4>5. \A c \in Callers : caller[c] = "said" => Before(Older', {Latest'})
        BY <1>i, <3>6, <3>8, <4>4 DEF Before
      <4> QED BY <3>4, <4>1, <4>2, <4>3, <4>5
    <3> QED BY <1>i, <1>u, <2>0, <3>2, <3>6, <3>7, <3>8, PrimedOrder
  <2> QED BY <2>1, <2>2
<1> QED BY <1>2, <1>3, <1>4, <1>5, <1>6, <1>7, <1>8, <1>9, <1>10, <1>11
    DEF RunnerStep

LEMMA NudgeOrder ==
  ASSUME TypeOK, OrderInv, Nudge
  PROVE  OrderInv'
<1>s. session \in Sessions /\ session.waiting \in Seq(Items) /\ Other \in Items
  BY DEF TypeOK, Sessions, Items
<1>u. UNCHANGED <<starts, heard, tape, driver, resume, caller>>
  BY DEF Nudge, era, ghosts, told, calls
<1>1. /\ session'.alive = session.alive
      /\ Range(session'.waiting) \subseteq Range(session.waiting) \cup {Other}
      /\ \A s \in Runners :
           \/ runner'[s] = runner[s]
           \/ runner'[s] = [pc |-> "loop", line |-> Other]
  BY NudgeSets
<1>2. PICK x \in Items : x = Other
  BY <1>s
<1>x. <<x>> \in Seq(Items)
  OBVIOUS
<1>3. PICK one \in Seq(Items) : one = <<x>>
  BY <1>x
<1>4. Range(one) = {x} /\ Sorted(one)
  BY <1>3, RangeFacts, SortedShort
<1>5. /\ Before(Range(session.waiting), Range(one))
      /\ Before(Range(one), Range(session.waiting))
  BY <1>2, <1>4, OtherIsNotTyped DEF Before
<1>6. Append(session.waiting, x) = session.waiting \o one
  BY <1>s, <1>3, AppendIsConcat
<1>7. \/ session'.waiting = session.waiting
      \/ session'.waiting = session.waiting \o one
      \/ session'.waiting = one \o session.waiting
  <2>1. CASE session' = [session EXCEPT !.waiting = Append(@, Other)]
    <3>1. session'.waiting = Append(session.waiting, Other)
      BY <1>s, <2>1, SessionFields
    <3> QED BY <1>2, <1>6, <3>1
  <2>2. CASE session' = [session EXCEPT !.waiting = <<Other>> \o @]
    <3>1. session'.waiting = <<Other>> \o session.waiting
      BY <1>s, <2>2, SessionFields
    <3> QED BY <1>2, <1>3, <3>1
  <2>3. CASE session' = [session EXCEPT !.running = TRUE]
    BY <1>s, <2>3 DEF Sessions
  <2> QED BY <2>1, <2>2, <2>3 DEF Nudge, Claim
<1>8. Sorted(session.waiting) => Sorted(session'.waiting)
  <2> SUFFICES ASSUME Sorted(session.waiting) PROVE Sorted(session'.waiting)
    OBVIOUS
  <2>1. Sorted(session.waiting \o one)
    BY <1>s, <1>4, <1>5, SortedConcat
  <2>2. Sorted(one \o session.waiting)
    BY <1>s, <1>4, <1>5, SortedConcat
  <2> QED BY <1>7, <2>1, <2>2
<1>9. /\ \A s \in InTasks' :
           \/ s \in InTasks /\ runner'[s].line = runner[s].line
           \/ runner'[s].line = Other
      /\ \A s \in Begun' : s \in Begun /\ runner'[s].line = runner[s].line
  BY <1>1 DEF InTasks, Begun
<1>10. starts = 1 => /\ session.alive \/ driver.cancelled \/ driver.inbox = <<>>
                     /\ session.alive => Sorted(driver.inbox)
                                         /\ Sorted(session.waiting)
  BY DEF OrderInv
<1> QED BY <1>u, <1>1, <1>8, <1>9, <1>10, OrderLess

(* Ending the session, a Stop or the steps of a stop for a restart.        *)
LEMMA StopOrder ==
  ASSUME TypeOK, OrderInv, Cancel \/ Revoke \/ Close \/ StopStep
  PROVE  OrderInv'
<1>s. session \in Sessions /\ driver \in Drivers
  BY DEF TypeOK, Sessions, Drivers
<1>z. Range(<<>>) = {} /\ Sorted(<<>>)
  BY RangeFacts, SortedShort
<1>u. UNCHANGED <<starts, heard, tape, resume, caller, runner>>
  BY DEF Cancel, Revoke, Close, StopStep, Drain, Keep, Finish, Cut, Wait, calls,
         ghosts, told, era
<1>r. /\ \A s \in InTasks' : s \in InTasks /\ runner'[s].line = runner[s].line
      /\ \A s \in Begun' : s \in Begun /\ runner'[s].line = runner[s].line
  BY <1>u DEF InTasks, Begun
<1>i. starts = 1 => /\ session.alive \/ driver.cancelled \/ driver.inbox = <<>>
                    /\ session.alive => Sorted(driver.inbox)
                                        /\ Sorted(session.waiting)
  BY DEF OrderInv
<1>1. ASSUME driver'.inbox = driver.inbox,
             session'.alive => session.alive,
             \/ driver'.cancelled = TRUE
             \/ /\ session'.alive = session.alive
                /\ driver'.cancelled = driver.cancelled,
             session'.waiting = session.waiting \/ session'.waiting = <<>>
      PROVE  OrderInv'
  <2>1. /\ Range(session'.waiting) \subseteq Range(session.waiting)
        /\ Sorted(session.waiting) => Sorted(session'.waiting)
    BY <1>z, <1>1
  <2> QED BY <1>i, <1>r, <1>u, <1>1, <2>1, OrderLess
<1>2. ASSUME NEW byRestart, CutTurn(byRestart)
      PROVE  OrderInv'
  <2>1. /\ session'.waiting = <<>> /\ session'.alive = session.alive
        /\ driver'.inbox = driver.inbox /\ driver'.cancelled = TRUE
    BY <1>2, CutSets
  <2> QED BY <1>1, <2>1
<1>3. CASE Cancel
  BY <1>2, <1>3 DEF Cancel
<1>4. CASE Revoke
  <2>1. /\ session' = [session EXCEPT !.alive = FALSE, !.waiting = <<>>]
        /\ driver' = [driver EXCEPT !.cancelled = TRUE]
    BY <1>4 DEF Revoke
  <2>2. /\ session'.waiting = <<>> /\ ~session'.alive
        /\ driver'.inbox = driver.inbox /\ driver'.cancelled = TRUE
    BY <1>s, <2>1 DEF Sessions, Drivers
  <2> QED BY <1>1, <2>2
<1>5. CASE UNCHANGED <<session, driver>>
  BY <1>1, <1>5
<1>6. CASE Close \/ Keep \/ Finish \/ Wait
  BY <1>5, <1>6 DEF Close, Keep, Finish, Wait
<1>7. CASE Drain
  <2>1. driver' = driver /\ session'.alive = session.alive
    BY <1>7, DrainSets DEF Drain
  <2>2. session'.waiting = session.waiting \/ session'.waiting = <<>>
    BY <1>7, DrainSets
  <2> QED BY <1>1, <2>1, <2>2
<1>8. CASE Cut
  BY <1>2, <1>5, <1>8 DEF Cut
<1> QED BY <1>3, <1>4, <1>6, <1>7, <1>8 DEF StopStep

LEMMA OrderStep ==
  TypeInv /\ QueueInv /\ GateInv /\ TasksInv /\ SaidInv /\ OrderInv /\ [Next]_vars
    => OrderInv'
<1> SUFFICES ASSUME TypeInv, QueueInv, GateInv, TasksInv, SaidInv, OrderInv,
                    [Next]_vars
             PROVE  OrderInv'
  OBVIOUS
<1>t. TypeOK
  BY DEF TypeInv
<1>1. CASE \E c \in Callers : Ask(c) \/ CallerStep(c)
  BY <1>t, <1>1, CallerOrder
<1>2. CASE \E r \in Runners :
             SteerInto(r) \/ Consume(r) \/ Update(r) \/ RunnerStep(r)
  BY <1>t, <1>2, TurnOrder
<1>3. CASE Nudge
  BY <1>t, <1>3, NudgeOrder
<1>4. CASE Cancel \/ Revoke \/ Close \/ StopStep
  BY <1>t, <1>4, StopOrder
<1>5. CASE ResumeStep
  <2>1. UNCHANGED starts /\ resume.pc # "done"
    BY <1>5 DEF ResumeStep, ResumeRead, ResumeAdmit, ResumeEnter, ResumeHandOver,
                ResumeWrite, era
  <2>2. starts # 1
    BY <2>1 DEF OrderInv
  <2> QED BY <2>1, <2>2, PrimedOrder
<1>6. CASE Restart
  <2>1. starts \in Nat /\ starts # 0 /\ starts' = starts + 1
    BY <1>t, <1>6, BoundsAssumption DEF Restart, TypeOK
  <2>2. starts' # 1
    BY <2>1
  <2> QED BY <2>2, PrimedOrder
<1>7. CASE Off \/ UNCHANGED vars
  <2>1. UNCHANGED <<starts, heard, tape, session, driver, runner, resume, caller>>
    BY <1>7 DEF Off, vars, calls, ghosts, told, era
  <2>2. InTasks' = InTasks /\ Begun' = Begun
    BY <2>1 DEF InTasks, Begun
  <2>3. starts = 1 => /\ session.alive \/ driver.cancelled \/ driver.inbox = <<>>
                      /\ session.alive => Sorted(driver.inbox)
                                          /\ Sorted(session.waiting)
    BY DEF OrderInv
  <2> QED BY <2>1, <2>2, <2>3, OrderLess
<1> QED BY <1>1, <1>2, <1>3, <1>4, <1>5, <1>6, <1>7 DEF Next

(* All that HeardInOrder rests on.                                         *)
HeardIInv == QueueIInv /\ GateInv /\ TasksInv /\ SaidInv /\ OrderInv

(* Until the desk starts again the agent hears what the person typed in    *)
(* the order it was said, and once, however lines were steered, handed     *)
(* back and queued again (turns.rs steer_into, dm.rs Session::end).        *)
THEOREM HeardStaysInOrder == Spec => []HeardInOrder
<1>1. Init => HeardIInv
  <2> SUFFICES ASSUME Init PROVE HeardIInv
    OBVIOUS
  <2>1. QueueIInv /\ GateInv /\ TasksInv /\ SaidInv
    BY LineIInvInit DEF LineIInv
  <2>2. OrderInv
    <3>1. /\ resume.pc = "done" /\ Range(heard) = {} /\ Sorted(heard)
          /\ driver.inbox = <<>> /\ session.waiting = <<>>
          /\ Begun = {} /\ InTasks = {} /\ \A c \in Callers : caller[c] # "said"
      BY RangeFacts, SortedShort
      DEF Init, NoResume, NoTurn, Fresh, Free, Begun, InTasks
    <3>2. Range(<<>>) = {} /\ Sorted(<<>>)
      BY RangeFacts, SortedShort
    <3>3. Before({}, {})
      BY DEF Before
    <3> QED BY <3>1, <3>2, <3>3 DEF OrderInv
  <2> QED BY <2>1, <2>2 DEF HeardIInv
<1>2. HeardIInv /\ [Next]_vars => HeardIInv'
  BY TypeInvStep, QueueStep, GateStep, TasksStep, SaidStep, OrderStep
  DEF HeardIInv, QueueIInv
<1>3. HeardIInv => HeardInOrder
  <2> SUFFICES ASSUME TypeOK, OrderInv, starts = 1,
                      NEW i \in DOMAIN heard, NEW j \in DOMAIN heard,
                      i < j, {heard[i], heard[j]} \cap Spoken = {}
               PROVE  heard[i] < heard[j]
    BY DEF HeardIInv, QueueIInv, TypeInv, HeardInOrder
  <2>1. heard \in Seq(Lines) /\ DOMAIN heard = 1..Len(heard)
    BY DEF TypeOK
  <2>2. heard[i] \in Lines /\ heard[j] \in Lines
    BY <2>1
  <2>3. heard[i] \in Typed /\ heard[j] \in Typed
    BY <2>2 DEF Typed
  <2> QED BY <2>1, <2>3 DEF OrderInv, Sorted
<1> QED BY <1>1, <1>2, <1>3, PTL DEF Spec
=============================================================================
