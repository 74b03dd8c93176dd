--------------------------- MODULE UpstreamProofs ----------------------------
(***************************************************************************)
(* Proofs about Upstream: what the filter, the decoder, the parser and the *)
(* store make of a stream does not depend on how TCP cuts it into reads,   *)
(* as far as the code gets that right.                                     *)
(*                                                                         *)
(* Every loop of the model is a Fold.  The first part proves, by induction *)
(* over sequences, that a Fold follows its step and that a Fold over two   *)
(* sequences is the Fold over the second from where the first ends.  The   *)
(* library's induction theorems have an operator as a parameter; here the  *)
(* induction is over a set, from the minimum that a well-founded relation  *)
(* has in every set.  Then each loop is shown to be a Fold that two reads  *)
(* continue, exactly or up to what was cut; and that makes the             *)
(* invariants inductive.                                                   *)
(***************************************************************************)
EXTENDS Upstream, SequenceTheorems, WellFoundedInduction, TLAPS

\* Every nonempty set of natural numbers has a least member.
LEMMA LeastNatural ==
    ASSUME NEW T, T \subseteq Nat, T # {}
    PROVE  \E x \in T : \A y \in T : x <= y
<1> DEFINE R == {ss \in Nat \X Nat : ss[1] < ss[2]}
<1>1. IsWellFoundedOn(R, Nat)
  BY NatLessThanWellFounded DEF OpToRel
<1>2. PICK x \in T : \A y \in T : ~ (<<y, x>> \in R)
  <2> HIDE DEF R
  <2> QED BY <1>1, WFMin
<1>3. ASSUME NEW y \in T PROVE x <= y
  <2>1. ~ (<<y, x>> \in R) /\ x \in Nat /\ y \in Nat
    BY <1>2
  <2>2. <<y, x>> \in Nat \X Nat /\ <<y, x>>[1] = y /\ <<y, x>>[2] = x
    BY <2>1
  <2>3. ~ (y < x)
    BY <2>1, <2>2
  <2> QED
    BY <2>1, <2>3
<1> QED
  BY <1>3

\* Induction over the natural numbers, for a set instead of a predicate.
LEMMA Induction ==
    ASSUME NEW T, 0 \in T, \A n \in Nat : n \in T => n + 1 \in T
    PROVE  \A n \in Nat : n \in T
<1> SUFFICES ASSUME NEW m \in Nat, m \notin T PROVE FALSE
  OBVIOUS
<1>1. PICK x \in Nat \ T : \A y \in Nat \ T : x <= y
  BY LeastNatural
<1>2. x # 0 /\ x - 1 \in T
  BY <1>1
<1> QED
  BY <1>1, <1>2

\* Induction over sequences, from the front to the last element.
LEMMA SeqInduction ==
    ASSUME NEW E, NEW P, <<>> \in P,
           \A s \in Seq(E) : s \in P => \A e \in E : Append(s, e) \in P
    PROVE  Seq(E) \subseteq P
<1> DEFINE T == {n \in Nat : \A s \in Seq(E) : Len(s) = n => s \in P}
<1>1. 0 \in T
  BY EmptySeq
<1>2. ASSUME NEW n \in Nat, n \in T PROVE n + 1 \in T
  <2> SUFFICES ASSUME NEW s \in Seq(E), Len(s) = n + 1 PROVE s \in P
    OBVIOUS
  <2>1. s # <<>>
    BY EmptySeq
  <2>2. PICK r \in Seq(E), e \in E : s = Append(r, e)
    BY <2>1, SequenceEmptyOrAppend
  <2>3. Len(r) = n
    BY <2>2, AppendProperties, LenProperties
  <2> QED
    BY <1>2, <2>2, <2>3
<1>3. \A n \in Nat : n \in T
  <2> HIDE DEF T
  <2> QED BY <1>1, <1>2, Induction
<1> QED
  BY <1>3, LenProperties
-----------------------------------------------------------------------------
(***************************************************************************)
(* Fold: its values exist, are unique, and follow the loop.                *)
(***************************************************************************)
\* A loop's step and a loop's table of values.
IsStep(step, V, E) == step \in [V \X E -> V]

IsFold(f, step, base, s) ==
    f = [n \in 0..Len(s) |-> IF n = 0 THEN base ELSE step[<<f[n - 1], s[n]>>]]

\* Fold's CHOOSE has something to choose: the loop has its table of values.
LEMMA FoldExists ==
    ASSUME NEW V, NEW E, NEW step, IsStep(step, V, E), NEW base \in V, NEW s \in Seq(E)
    PROVE  \E f \in [0..Len(s) -> V] : IsFold(f, step, base, s)
<1> DEFINE Upto(m, f) ==
             \A n \in 0..m : f[n] = IF n = 0 THEN base ELSE step[<<f[n - 1], s[n]>>]
           T == {m \in Nat : m <= Len(s) => \E f \in [0..m -> V] : Upto(m, f)}
<1>1. 0 \in T
  <2>1. Upto(0, [n \in 0..0 |-> base])
    OBVIOUS
  <2>2. [n \in 0..0 |-> base] \in [0..0 -> V]
    OBVIOUS
  <2> QED
    BY <2>1, <2>2
<1>2. ASSUME NEW m \in Nat, m \in T PROVE m + 1 \in T
  <2> SUFFICES ASSUME m + 1 <= Len(s) PROVE \E f \in [0..(m + 1) -> V] : Upto(m + 1, f)
    OBVIOUS
  <2>1. Len(s) \in Nat
    BY LenProperties
  <2>2. PICK f \in [0..m -> V] : Upto(m, f)
    BY <1>2, <2>1
  <2>3. s[m + 1] \in E
    BY <2>1, ElementOfSeq
  <2> DEFINE g == [n \in 0..(m + 1) |-> IF n = m + 1 THEN step[<<f[m], s[m + 1]>>] ELSE f[n]]
  <2>4. g \in [0..(m + 1) -> V]
    BY <2>2, <2>3 DEF IsStep
  <2>5. \A n \in 0..m : g[n] = f[n]
    OBVIOUS
  <2>6. g[m + 1] = step[<<g[m], s[m + 1]>>]
    <3>1. m + 1 \in 0..(m + 1) /\ g[m] = f[m]
      OBVIOUS
    <3> QED BY <3>1
  <2>7. Upto(m + 1, g)
    <3> SUFFICES ASSUME NEW n \in 0..(m + 1)
                 PROVE  g[n] = IF n = 0 THEN base ELSE step[<<g[n - 1], s[n]>>]
      OBVIOUS
    <3>1. CASE n = m + 1
      <4>1. n # 0 /\ n - 1 = m
        BY <3>1
      <4> HIDE DEF g
      <4> QED BY <2>6, <3>1, <4>1
    <3>2. CASE n \in 0..m
      <4>1. n # 0 => n - 1 \in 0..m
        BY <3>2
      <4> HIDE DEF g
      <4> QED BY <2>2, <2>5, <3>2, <4>1
    <3> HIDE DEF g
    <3> QED
      BY <3>1, <3>2
  <2> HIDE DEF g
  <2> QED
    BY <2>4, <2>7
<1>3. Len(s) \in T
  <2> HIDE DEF T
  <2> QED BY <1>1, <1>2, Induction, LenProperties
<1>4. PICK f \in [0..Len(s) -> V] : Upto(Len(s), f)
  BY <1>3, LenProperties
<1>5. IsFold(f, step, base, s)
  BY <1>4 DEF IsFold
<1> QED
  BY <1>5

\* One more element does not change the values before it.
LEMMA FoldUnique ==
    ASSUME NEW E, NEW step, NEW base, NEW s \in Seq(E), NEW e \in E, NEW f, NEW g,
           IsFold(f, step, base, s), IsFold(g, step, base, Append(s, e))
    PROVE  \A n \in 0..Len(s) : f[n] = g[n]
<1> DEFINE T == {n \in Nat : n <= Len(s) => f[n] = g[n]}
           t == Append(s, e)
<1>0. /\ Len(s) \in Nat /\ Len(t) = Len(s) + 1
      /\ \A i \in 1..Len(s) : t[i] = s[i]
      /\ IsFold(g, step, base, t)
  BY AppendProperties, LenProperties
<1> HIDE DEF t
<1>1. \A n \in 0..Len(s) : f[n] = IF n = 0 THEN base ELSE step[<<f[n - 1], s[n]>>]
  BY DEF IsFold
<1>2. \A n \in 0..Len(s) : g[n] = IF n = 0 THEN base ELSE step[<<g[n - 1], s[n]>>]
  <2> SUFFICES ASSUME NEW n \in 0..Len(s)
               PROVE  g[n] = IF n = 0 THEN base ELSE step[<<g[n - 1], s[n]>>]
    OBVIOUS
  <2>1. \A k \in 0..Len(t) : g[k] = IF k = 0 THEN base ELSE step[<<g[k - 1], t[k]>>]
    BY <1>0 DEF IsFold
  <2>2. n \in 0..Len(t) /\ (n # 0 => t[n] = s[n])
    BY <1>0
  <2> QED BY <2>1, <2>2
<1>3. 0 \in T
  <2>1. 0 \in 0..Len(s)
    BY <1>0
  <2>2. f[0] = base /\ g[0] = base
    BY <1>1, <1>2, <2>1
  <2> QED BY <2>2
<1>4. ASSUME NEW n \in Nat, n \in T PROVE n + 1 \in T
  <2> SUFFICES ASSUME n + 1 <= Len(s) PROVE f[n + 1] = g[n + 1]
    OBVIOUS
  <2>1. n + 1 \in 0..Len(s) /\ n + 1 # 0 /\ (n + 1) - 1 = n /\ f[n] = g[n]
    BY <1>0, <1>4
  <2>2. f[n + 1] = step[<<f[n], s[n + 1]>>] /\ g[n + 1] = step[<<g[n], s[n + 1]>>]
    BY <1>1, <1>2, <2>1
  <2> QED BY <2>1, <2>2
<1>5. \A n \in Nat : n \in T
  <2> HIDE DEF T
  <2> QED BY <1>3, <1>4, Induction
<1> QED
  BY <1>0, <1>5

\* Fold is the last entry of that table.
LEMMA FoldChosen ==
    ASSUME NEW step, NEW base, NEW s
    PROVE  Fold(step, base, s) = (CHOOSE f : IsFold(f, step, base, s))[Len(s)]
BY DEF Fold, IsFold

\* What the proofs below use of Fold.
LEMMA FoldEmpty ==
    ASSUME NEW V, NEW E, NEW step, IsStep(step, V, E), NEW base \in V
    PROVE  Fold(step, base, <<>>) = base
<1> DEFINE f == CHOOSE h : IsFold(h, step, base, <<>>)
<1>1. <<>> \in Seq(E) /\ Len(<<>>) = 0
  BY EmptySeq
<1>2. IsFold(f, step, base, <<>>)
  BY <1>1, FoldExists
<1>3. f[0] = base
  <2> HIDE DEF f
  <2> QED BY <1>1, <1>2 DEF IsFold
<1> QED
  BY <1>1, <1>3, FoldChosen

\* One more element is one more step.
LEMMA FoldAppend ==
    ASSUME NEW V, NEW E, NEW step, IsStep(step, V, E), NEW base \in V,
           NEW s \in Seq(E), NEW e \in E
    PROVE  Fold(step, base, Append(s, e)) = step[<<Fold(step, base, s), e>>]
<1> DEFINE t == Append(s, e)
           f == CHOOSE h : IsFold(h, step, base, s)
           g == CHOOSE h : IsFold(h, step, base, t)
<1>1. /\ t \in Seq(E) /\ Len(t) = Len(s) + 1 /\ t[Len(s) + 1] = e
      /\ \A i \in 1..Len(s) : s[i] = t[i]
      /\ Len(s) \in Nat
  BY AppendProperties, LenProperties
<1>2. IsFold(f, step, base, s) /\ IsFold(g, step, base, t)
  <2> HIDE DEF t
  <2> QED BY <1>1, FoldExists
<1>3. Fold(step, base, s) = f[Len(s)] /\ Fold(step, base, t) = g[Len(t)]
  BY FoldChosen
<1> HIDE DEF t, f, g
<1>4. f[Len(s)] = g[Len(s)]
  <2>1. \A n \in 0..Len(s) : f[n] = g[n]
    BY <1>2, FoldUnique DEF t
  <2> QED BY <1>1, <2>1
<1>5. g[Len(s) + 1] = step[<<g[Len(s)], t[Len(s) + 1]>>]
  <2>1. \A n \in 0..Len(t) : g[n] = IF n = 0 THEN base ELSE step[<<g[n - 1], t[n]>>]
    BY <1>1, <1>2 DEF IsFold
  <2> QED BY <1>1, <2>1
<1>6. Fold(step, base, t) = step[<<Fold(step, base, s), e>>]
  BY <1>1, <1>3, <1>4, <1>5
<1> QED
  BY <1>6 DEF t

\* A set that the step does not leave holds every value of the loop.
LEMMA FoldWithin ==
    ASSUME NEW V, NEW E, NEW step, IsStep(step, V, E), NEW W, W \subseteq V,
           \A v \in W, e \in E : step[<<v, e>>] \in W, NEW base \in W, NEW s \in Seq(E)
    PROVE  Fold(step, base, s) \in W
<1> DEFINE P == {r \in Seq(E) : Fold(step, base, r) \in W}
<1>0. base \in V
  OBVIOUS
<1>1. <<>> \in P
  BY <1>0, FoldEmpty, EmptySeq
<1>2. ASSUME NEW r \in Seq(E), r \in P, NEW e \in E PROVE Append(r, e) \in P
  <2>1. Fold(step, base, Append(r, e)) = step[<<Fold(step, base, r), e>>]
    BY <1>0, FoldAppend
  <2> QED
    BY <1>2, <2>1, AppendProperties
<1>3. Seq(E) \subseteq P
  <2> HIDE DEF P
  <2> QED BY <1>1, <1>2, SeqInduction
<1> QED
  BY <1>3

\* The loop stays in the set of its steps.
LEMMA FoldType ==
    ASSUME NEW V, NEW E, NEW step, IsStep(step, V, E), NEW base \in V, NEW s \in Seq(E)
    PROVE  Fold(step, base, s) \in V
<1>1. \A v \in V, e \in E : step[<<v, e>>] \in V
  BY DEF IsStep
<1> QED
  BY <1>1, FoldWithin

\* A loop over two sequences is the loop over the second from where the first ends.
LEMMA FoldConcat ==
    ASSUME NEW V, NEW E, NEW step, IsStep(step, V, E), NEW base \in V,
           NEW s \in Seq(E), NEW t \in Seq(E)
    PROVE  Fold(step, base, s \o t) = Fold(step, Fold(step, base, s), t)
<1> DEFINE P == {r \in Seq(E) : Fold(step, base, s \o r) = Fold(step, Fold(step, base, s), r)}
<1>0. Fold(step, base, s) \in V
  BY FoldType
<1>1. <<>> \in P
  BY <1>0, FoldEmpty, EmptySeq, ConcatEmptySeq
<1>2. ASSUME NEW r \in Seq(E), r \in P, NEW e \in E PROVE Append(r, e) \in P
  <2>1. s \o Append(r, e) = Append(s \o r, e) /\ s \o r \in Seq(E) /\ Append(r, e) \in Seq(E)
    OBVIOUS
  <2>2. Fold(step, base, Append(s \o r, e)) = step[<<Fold(step, base, s \o r), e>>]
    <3>1. \A q \in Seq(E) : Fold(step, base, Append(q, e)) = step[<<Fold(step, base, q), e>>]
      BY FoldAppend
    <3> QED BY <2>1, <3>1
  <2>3. Fold(step, Fold(step, base, s), Append(r, e)) = step[<<Fold(step, Fold(step, base, s), r), e>>]
    BY <1>0, FoldAppend
  <2> QED
    BY <1>2, <2>1, <2>2, <2>3
<1>3. Seq(E) \subseteq P
  <2> HIDE DEF P
  <2> QED BY <1>1, <1>2, SeqInduction
<1> QED
  BY <1>3

(***************************************************************************)
(* Ends of sequences.                                                      *)
(***************************************************************************)
\* A sequence that is not empty is its front and its last element.
LEMMA Peel ==
    ASSUME NEW E, NEW s \in Seq(E), s # <<>>
    PROVE  Front(s) \in Seq(E) /\ Last(s) \in E /\ s = Append(Front(s), Last(s))
BY DEF Front, Last

\* The front and the last element of an Append.
LEMMA PeelAppend ==
    ASSUME NEW E, NEW s \in Seq(E), NEW e \in E
    PROVE  /\ Append(s, e) \in Seq(E) /\ Append(s, e) # <<>>
           /\ Front(Append(s, e)) = s /\ Last(Append(s, e)) = e
BY DEF Front, Last

\* An element appended to the second of two sequences.
LEMMA ConcatAppend ==
    ASSUME NEW E, NEW s \in Seq(E), NEW t \in Seq(E), NEW e \in E
    PROVE  s \o Append(t, e) = Append(s \o t, e) /\ s \o t \in Seq(E)
OBVIOUS

\* The end of two sequences is the end of the second.
LEMMA ConcatLast ==
    ASSUME NEW E, NEW s \in Seq(E), NEW t \in Seq(E), t # <<>>
    PROVE  s \o t # <<>> /\ Last(s \o t) = Last(t) /\ Front(s \o t) = s \o Front(t)
<1> DEFINE f == Front(t)
           l == Last(t)
<1>1. /\ f \in Seq(E) /\ l \in E /\ t = Append(f, l)
  BY Peel
<1>2. Front(t) = f /\ Last(t) = l
  OBVIOUS
<1> HIDE DEF f, l
<1>3. s \o t = Append(s \o f, l) /\ s \o f \in Seq(E)
  BY <1>1, ConcatAppend
<1>4. /\ Append(s \o f, l) # <<>>
      /\ Front(Append(s \o f, l)) = s \o f /\ Last(Append(s \o f, l)) = l
  <2>1. \A q \in Seq(E) : Append(q, l) # <<>> /\ Front(Append(q, l)) = q /\ Last(Append(q, l)) = l
    BY <1>1, PeelAppend
  <2> QED BY <1>3, <2>1
<1> QED
  BY <1>2, <1>3, <1>4

\* The sequence of one element.
LEMMA One ==
    ASSUME NEW E, NEW e \in E
    PROVE  /\ <<e>> \in Seq(E) /\ <<e>> # <<>> /\ <<e>> = Append(<<>>, e)
           /\ Last(<<e>>) = e /\ Front(<<e>>) = <<>> /\ Head(<<e>>) = e
BY DEF Last, Front

\* Concatenation with one element is Append.
LEMMA AppendOne ==
    ASSUME NEW E, NEW s \in Seq(E), NEW e \in E
    PROVE  s \o <<e>> = Append(s, e)
OBVIOUS
-----------------------------------------------------------------------------
(***************************************************************************)
(* The filter.                                                             *)
(***************************************************************************)
\* The variables of Filter's loop: its state and its output.
Filters == [state : States, out : Seq(Symbols)]

\* The two parts of what Filter returns.
StateAfter(st, d) == Filter(st, d).state
PassedOn(st, d) == Filter(st, d).out

\* The bytes that telnet.go switches on are bytes, and differ.
LEMMA TelnetBytes ==
    /\ IAC \in Symbols /\ DO \in Symbols /\ SB \in Symbols /\ SE \in Symbols
    /\ IAC # DO /\ IAC # SB /\ IAC # SE /\ DO # SB /\ DO # SE /\ SB # SE
BY TelnetSymbols DEF IAC, DO, SB, SE

\* The switch of Filter yields a state and whether the byte is passed on.
LEMMA AfterType ==
    ASSUME NEW st \in States, NEW b
    PROVE  After(st, b) = [state |-> After(st, b).state, pass |-> After(st, b).pass]
           /\ After(st, b).state \in States /\ After(st, b).pass \in BOOLEAN
BY DEF After, AfterData, AfterIAC, AfterSubnegotiation, AfterSubnegotiationIAC, States

\* The step of Filter's loop.
LEMMA FilterStepIs ==
    ASSUME NEW f \in Filters, NEW b \in Symbols
    PROVE  FilterStep[<<f, b>>] = Filtered(f, b)
BY DEF FilterStep, Filters

\* One byte keeps Filter's variables typed.
LEMMA FilteredType ==
    ASSUME NEW f \in Filters, NEW b \in Symbols
    PROVE  Filtered(f, b) \in Filters
BY AfterType DEF Filtered, Filters

\* One byte, from what the switch says of it.
LEMMA FilteredIs ==
    ASSUME NEW q, NEW o, NEW b, NEW v, NEW w \in BOOLEAN, After(q, b) = [state |-> v, pass |-> w]
    PROVE  Filtered([state |-> q, out |-> o], b) = [state |-> v, out |-> IF w THEN Append(o, b) ELSE o]
BY DEF Filtered

\* Filter's loop is a fold over bytes.
LEMMA FilterStepType == IsStep(FilterStep, Filters, Symbols)
<1>1. \A p \in Filters \X Symbols : Filtered(p[1], p[2]) \in Filters
  BY FilteredType
<1> QED
  BY <1>1 DEF FilterStep, IsStep, Filters

\* What Filter returns.
LEMMA FilterType ==
    ASSUME NEW st \in States, NEW d \in Seq(Symbols)
    PROVE  Filter(st, d) \in Filters /\ Filter(st, d).state \in States
           /\ Filter(st, d).out \in Seq(Symbols)
<1>1. [state |-> st, out |-> <<>>] \in Filters
  BY DEF Filters
<1>2. Filter(st, d) \in Filters
  BY <1>1, FilterStepType, FoldType DEF Filter
<1> QED
  BY <1>2 DEF Filters

\* A read without bytes changes nothing.
LEMMA FilterEmpty ==
    ASSUME NEW st \in States
    PROVE  Filter(st, <<>>) = [state |-> st, out |-> <<>>]
<1>1. [state |-> st, out |-> <<>>] \in Filters
  BY DEF Filters
<1> QED
  BY <1>1, FilterStepType, FoldEmpty DEF Filter

\* A read of one byte more.
LEMMA FilterAppend ==
    ASSUME NEW st \in States, NEW d \in Seq(Symbols), NEW b \in Symbols
    PROVE  Filter(st, Append(d, b)) = Filtered(Filter(st, d), b)
<1> DEFINE base == [state |-> st, out |-> <<>>]
<1>1. base \in Filters
  BY DEF Filters
<1>2. Filter(st, Append(d, b)) = Fold(FilterStep, base, Append(d, b))
      /\ Filter(st, d) = Fold(FilterStep, base, d)
  BY DEF Filter
<1> HIDE DEF base
<1>3. Fold(FilterStep, base, Append(d, b)) = FilterStep[<<Fold(FilterStep, base, d), b>>]
  BY <1>1, FilterStepType, FoldAppend
<1> QED
  BY <1>2, <1>3, FilterStepIs, FilterType

\* The parts of a result that is known.
LEMMA Parts ==
    ASSUME NEW st, NEW d, NEW q, NEW o, Filter(st, d) = [state |-> q, out |-> o]
    PROVE  StateAfter(st, d) = q /\ PassedOn(st, d) = o
BY DEF StateAfter, PassedOn

\* The types of the parts of Filter's result.
LEMMA PartsType ==
    ASSUME NEW st \in States, NEW d \in Seq(Symbols)
    PROVE  /\ StateAfter(st, d) \in States /\ PassedOn(st, d) \in Seq(Symbols)
           /\ Filter(st, d) = [state |-> StateAfter(st, d), out |-> PassedOn(st, d)]
BY FilterType DEF StateAfter, PassedOn, Filters

\* What the filter has passed on before changes nothing.
LEMMA FilterFrom ==
    ASSUME NEW q \in States, NEW o \in Seq(Symbols), NEW d \in Seq(Symbols)
    PROVE  Fold(FilterStep, [state |-> q, out |-> o], d)
             = [state |-> StateAfter(q, d), out |-> o \o PassedOn(q, d)]
<1> DEFINE f == [state |-> q, out |-> o]
           P == {r \in Seq(Symbols) :
                    Fold(FilterStep, f, r) = [state |-> StateAfter(q, r), out |-> o \o PassedOn(q, r)]}
<1>0. f \in Filters
  BY DEF Filters
<1>1. <<>> \in P
  <2>1. Fold(FilterStep, f, <<>>) = f
    <3> HIDE DEF f
    <3> QED BY <1>0, FilterStepType, FoldEmpty
  <2>2. StateAfter(q, <<>>) = q /\ PassedOn(q, <<>>) = <<>>
    BY FilterEmpty, Parts
  <2>3. o \o <<>> = o /\ <<>> \in Seq(Symbols)
    BY EmptySeq
  <2> QED
    BY <2>1, <2>2, <2>3
<1>2. ASSUME NEW r \in Seq(Symbols), r \in P, NEW b \in Symbols PROVE Append(r, b) \in P
  <2> DEFINE u == StateAfter(q, r)
             p == PassedOn(q, r)
             h == [state |-> u, out |-> o \o p]
  <2>1. u \in States /\ p \in Seq(Symbols) /\ Filter(q, r) = [state |-> u, out |-> p]
    BY PartsType
  <2> HIDE DEF u, p
  <2>2. h \in Filters
    BY <2>1 DEF Filters
  <2>3. Fold(FilterStep, f, r) = h
    BY <1>2 DEF u, p
  <2>4. Fold(FilterStep, f, Append(r, b)) = Filtered(h, b)
    <3>1. Fold(FilterStep, f, Append(r, b)) = FilterStep[<<Fold(FilterStep, f, r), b>>]
      <4> HIDE DEF f
      <4> QED BY <1>0, FilterStepType, FoldAppend
    <3> HIDE DEF f, h
    <3> QED BY <2>2, <2>3, <3>1, FilterStepIs
  <2>5. Filter(q, Append(r, b)) = Filtered([state |-> u, out |-> p], b)
    BY <2>1, FilterAppend
  <2>6. PICK v \in States, w \in BOOLEAN : After(u, b) = [state |-> v, pass |-> w]
    BY <2>1, AfterType
  <2>7. o \o Append(p, b) = Append(o \o p, b)
    BY <2>1, ConcatAppend
  <2>8. Filter(q, Append(r, b)) = [state |-> v, out |-> IF w THEN Append(p, b) ELSE p]
    BY <2>5, <2>6, FilteredIs
  <2>9. Fold(FilterStep, f, Append(r, b)) = [state |-> v, out |-> IF w THEN Append(o \o p, b) ELSE o \o p]
    <3> DEFINE op == o \o p
               k == Filtered(h, b)
    <3>1. k = Filtered([state |-> u, out |-> op], b)
      OBVIOUS
    <3>2. Fold(FilterStep, f, Append(r, b)) = k
      BY <2>4
    <3> HIDE DEF op, k, f
    <3>3. Filtered([state |-> u, out |-> op], b) = [state |-> v, out |-> IF w THEN Append(op, b) ELSE op]
      BY <2>6, FilteredIs
    <3>4. k = [state |-> v, out |-> IF w THEN Append(op, b) ELSE op]
      BY <3>1, <3>3
    <3> QED BY <3>2, <3>4 DEF op
  <2>10. StateAfter(q, Append(r, b)) = v /\ PassedOn(q, Append(r, b)) = IF w THEN Append(p, b) ELSE p
    BY <2>8, Parts
  <2>11. Append(r, b) \in Seq(Symbols)
    OBVIOUS
  <2> QED
    BY <2>7, <2>9, <2>10, <2>11
<1>3. Seq(Symbols) \subseteq P
  <2> HIDE DEF P
  <2> QED BY <1>1, <1>2, SeqInduction
<1> QED
  BY <1>3

\* Two reads are one: Filter keeps its state from one call to the next.
LEMMA FilterConcat ==
    ASSUME NEW st \in States, NEW c \in Seq(Symbols), NEW d \in Seq(Symbols)
    PROVE  /\ StateAfter(st, c \o d) = StateAfter(StateAfter(st, c), d)
           /\ PassedOn(st, c \o d) = PassedOn(st, c) \o PassedOn(StateAfter(st, c), d)
<1> DEFINE f == [state |-> st, out |-> <<>>]
<1>1. f \in Filters
  BY DEF Filters
<1>2. Filter(st, c \o d) = Fold(FilterStep, Filter(st, c), d)
  <2>1. Filter(st, c \o d) = Fold(FilterStep, f, c \o d) /\ Filter(st, c) = Fold(FilterStep, f, c)
    BY DEF Filter
  <2> HIDE DEF f
  <2> QED BY <1>1, <2>1, FilterStepType, FoldConcat
<1>3. Filter(st, c) = [state |-> StateAfter(st, c), out |-> PassedOn(st, c)]
      /\ StateAfter(st, c) \in States /\ PassedOn(st, c) \in Seq(Symbols)
  BY PartsType
<1>4. Filter(st, c \o d) = [state |-> StateAfter(StateAfter(st, c), d),
                            out |-> PassedOn(st, c) \o PassedOn(StateAfter(st, c), d)]
  BY <1>2, <1>3, FilterFrom
<1> QED
  BY <1>4, Parts
-----------------------------------------------------------------------------
(***************************************************************************)
(* What the MUD sends.                                                     *)
(***************************************************************************)
\* Doubled is a fold over bytes.
LEMMA DoubleStepType == IsStep(DoubleStep, Seq(Symbols), Symbols)
BY TelnetBytes DEF DoubleStep, IsStep

\* Data with its IACs doubled is bytes.
LEMMA DoubledType ==
    ASSUME NEW d \in Seq(Symbols)
    PROVE  Doubled(d) \in Seq(Symbols)
BY DoubleStepType, FoldType, EmptySeq DEF Doubled

\* Doubled, with one byte more.
LEMMA DoubledAppend ==
    ASSUME NEW d \in Seq(Symbols), NEW b \in Symbols
    PROVE  Doubled(Append(d, b)) = Doubled(d) \o (IF b = IAC THEN <<IAC, IAC>> ELSE <<b>>)
<1>1. Doubled(Append(d, b)) = DoubleStep[<<Doubled(d), b>>]
  <2>1. <<>> \in Seq(Symbols)
    BY EmptySeq
  <2>2. ASSUME NEW o \in Seq(Symbols)
        PROVE  Fold(DoubleStep, o, Append(d, b)) = DoubleStep[<<Fold(DoubleStep, o, d), b>>]
    BY DoubleStepType, FoldAppend
  <2> QED BY <2>1, <2>2 DEF Doubled
<1> QED
  BY <1>1, DoubledType DEF DoubleStep

\* No data, no bytes.
LEMMA DoubledEmpty == Doubled(<<>>) = <<>>
<1>1. <<>> \in Seq(Symbols)
  BY EmptySeq
<1> QED
  BY <1>1, DoubleStepType, FoldEmpty DEF Doubled

\* One byte, or two, from any state.
LEMMA FilterOne ==
    ASSUME NEW st \in States, NEW b \in Symbols
    PROVE  Filter(st, <<b>>) = Filtered([state |-> st, out |-> <<>>], b)
<1>1. <<b>> = Append(<<>>, b) /\ <<>> \in Seq(Symbols)
  BY One
<1> QED
  BY <1>1, FilterAppend, FilterEmpty

\* Two bytes from any state are two steps of the loop.
LEMMA FilterTwo ==
    ASSUME NEW st \in States, NEW b \in Symbols, NEW c \in Symbols
    PROVE  Filter(st, <<b, c>>) = Filtered(Filtered([state |-> st, out |-> <<>>], b), c)
<1>1. <<b, c>> = Append(<<b>>, c) /\ <<b>> \in Seq(Symbols)
  OBVIOUS
<1> QED
  BY <1>1, FilterAppend, FilterOne

\* Output reaches the text as it was meant.
LEMMA OutputPasses ==
    ASSUME NEW d \in Seq(Symbols)
    PROVE  StateAfter("Data", Doubled(d)) = "Data" /\ PassedOn("Data", Doubled(d)) = d
<1> DEFINE P == {r \in Seq(Symbols) :
                    StateAfter("Data", Doubled(r)) = "Data" /\ PassedOn("Data", Doubled(r)) = r}
<1>0. "Data" \in States /\ "IAC" \in States
  BY DEF States
<1>1. <<>> \in P
  BY <1>0, DoubledEmpty, FilterEmpty, EmptySeq, Parts
<1>2. ASSUME NEW r \in Seq(Symbols), r \in P, NEW b \in Symbols PROVE Append(r, b) \in P
  <2> DEFINE x == IF b = IAC THEN <<IAC, IAC>> ELSE <<b>>
  <2>1. x \in Seq(Symbols) /\ Filter("Data", x) = [state |-> "Data", out |-> <<b>>]
    <3>1. CASE b = IAC
      <4>1. Filter("Data", x) = Filtered(Filtered([state |-> "Data", out |-> <<>>], IAC), IAC)
        BY <1>0, <3>1, FilterTwo, TelnetBytes
      <4>2. Filtered([state |-> "Data", out |-> <<>>], IAC) = [state |-> "IAC", out |-> <<>>]
        BY DEF Filtered, After, AfterData
      <4>3. Filtered([state |-> "IAC", out |-> <<>>], IAC) = [state |-> "Data", out |-> <<IAC>>]
        <5>1. Append(<<>>, IAC) = <<IAC>>
          OBVIOUS
        <5>2. After("IAC", IAC) = [state |-> "Data", pass |-> TRUE]
          BY TelnetBytes DEF After, AfterIAC
        <5> QED BY <5>1, <5>2 DEF Filtered
      <4> QED BY <3>1, <4>1, <4>2, <4>3
    <3>2. CASE b # IAC
      BY <1>0, <3>2, FilterOne DEF Filtered, After, AfterData
    <3> QED BY <3>1, <3>2
  <2>2. Doubled(Append(r, b)) = Doubled(r) \o x /\ Doubled(r) \in Seq(Symbols)
    BY DoubledAppend, DoubledType
  <2> HIDE DEF x
  <2>3. StateAfter("Data", Doubled(r) \o x) = "Data" /\ PassedOn("Data", Doubled(r) \o x) = r \o <<b>>
    <3>1. StateAfter("Data", x) = "Data" /\ PassedOn("Data", x) = <<b>>
      BY <2>1, Parts
    <3>2. StateAfter("Data", Doubled(r)) = "Data" /\ PassedOn("Data", Doubled(r)) = r
      BY <1>2
    <3> DEFINE q == "Data"
               c == Doubled(r)
               l == <<b>>
    <3>3. q \in States /\ StateAfter(q, c) = q /\ PassedOn(q, c) = r
          /\ StateAfter(q, x) = q /\ PassedOn(q, x) = l
          /\ c \in Seq(Symbols) /\ x \in Seq(Symbols)
      BY <1>0, <2>1, <2>2, <3>1, <3>2
    <3> HIDE DEF q, c, l
    <3>4. q \in States /\ c \in Seq(Symbols) /\ x \in Seq(Symbols)
      BY <3>3
    <3>5. /\ StateAfter(q, c \o x) = StateAfter(StateAfter(q, c), x)
          /\ PassedOn(q, c \o x) = PassedOn(q, c) \o PassedOn(StateAfter(q, c), x)
      BY <3>4, FilterConcat
    <3> QED BY <3>3, <3>5 DEF q, c, l
  <2>4. Append(r, b) \in Seq(Symbols) /\ r \o <<b>> = Append(r, b)
    BY AppendOne
  <2> QED
    BY <2>2, <2>3, <2>4
<1>3. Seq(Symbols) \subseteq P
  <2> HIDE DEF P
  <2> QED BY <1>1, <1>2, SeqInduction
<1> QED
  BY <1>3

\* Data in which the filter finds the end of a subnegotiation.
LeaksIn(d) == \E i \in 1..(Len(d) - 1) : d[i] = IAC /\ d[i + 1] = SE

\* What does not leak with one byte more does not leak without it.
LEMMA LeaksInAppend ==
    ASSUME NEW d \in Seq(Symbols), NEW b \in Symbols, ~LeaksIn(Append(d, b))
    PROVE  ~LeaksIn(d) /\ ~(d # <<>> /\ Last(d) = IAC /\ b = SE)
<1> DEFINE t == Append(d, b)
<1>1. /\ Len(d) \in Nat /\ Len(t) = Len(d) + 1 /\ t[Len(d) + 1] = b
      /\ \A i \in 1..Len(d) : t[i] = d[i]
  BY AppendProperties, LenProperties
<1>2. \A i \in 1..(Len(t) - 1) : ~(t[i] = IAC /\ t[i + 1] = SE)
  BY DEF LeaksIn
<1> HIDE DEF t
<1>3. ASSUME NEW i \in 1..(Len(d) - 1), d[i] = IAC, d[i + 1] = SE PROVE FALSE
  <2>1. i \in 1..(Len(t) - 1) /\ t[i] = d[i] /\ t[i + 1] = d[i + 1]
    BY <1>1
  <2> QED BY <1>2, <1>3, <2>1
<1>4. ASSUME d # <<>>, d[Len(d)] = IAC, b = SE PROVE FALSE
  <2>1. Len(d) # 0
    BY <1>4, EmptySeq
  <2>2. Len(d) \in 1..(Len(t) - 1) /\ t[Len(d)] = d[Len(d)]
    BY <1>1, <2>1
  <2> QED BY <1>1, <1>2, <1>4, <2>2
<1> QED
  BY <1>3, <1>4 DEF LeaksIn, Last

\* In a subnegotiation nothing is passed on, unless it is ended too early; and
\* the states it is left in are those that the closing IAC SE ends.
LEMMA SubnegotiationPasses ==
    ASSUME NEW d \in Seq(Symbols)
    PROVE  LET q == StateAfter("Subnegotiation", Doubled(d)) IN
           /\ q \in {"Data", "Subnegotiation", "SubnegotiationIAC"}
           /\ ~LeaksIn(d) =>
                /\ PassedOn("Subnegotiation", Doubled(d)) = <<>>
                /\ q = IF d # <<>> /\ Last(d) = IAC
                             THEN "SubnegotiationIAC" ELSE "Subnegotiation"
<1> DEFINE Q(r) == StateAfter("Subnegotiation", Doubled(r))
           O(r) == PassedOn("Subnegotiation", Doubled(r))
           Good(r) ==
             /\ Q(r) \in {"Data", "Subnegotiation", "SubnegotiationIAC"}
             /\ ~LeaksIn(r) =>
                  /\ O(r) = <<>>
                  /\ Q(r) = IF r # <<>> /\ Last(r) = IAC
                            THEN "SubnegotiationIAC" ELSE "Subnegotiation"
           P == {r \in Seq(Symbols) : Good(r)}
<1>0. /\ "Data" \in States /\ "IAC" \in States /\ "Subnegotiation" \in States
      /\ "SubnegotiationIAC" \in States
  BY DEF States
<1>1. <<>> \in P
  <2>1. Q(<<>>) = "Subnegotiation" /\ O(<<>>) = <<>>
    BY <1>0, DoubledEmpty, FilterEmpty, Parts
  <2>2. <<>> \in Seq(Symbols)
    BY EmptySeq
  <2> QED BY <2>1, <2>2
<1>2. ASSUME NEW r \in Seq(Symbols), r \in P, NEW b \in Symbols PROVE Append(r, b) \in P
  <2> DEFINE x == IF b = IAC THEN <<IAC, IAC>> ELSE <<b>>
             c == Doubled(r)
             s == Q(r)
             o == O(r)
             y == Filter(s, x)
  <2>0. /\ s \in {"Data", "Subnegotiation", "SubnegotiationIAC"}
        /\ ~LeaksIn(r) =>
              /\ o = <<>>
              /\ s = IF r # <<>> /\ Last(r) = IAC THEN "SubnegotiationIAC" ELSE "Subnegotiation"
    BY <1>2
  <2>1. x \in Seq(Symbols) /\ c \in Seq(Symbols)
    BY TelnetBytes, DoubledType
  <2>2. /\ Q(Append(r, b)) = StateAfter(s, x)
        /\ O(Append(r, b)) = o \o PassedOn(s, x)
    <3>1. Doubled(Append(r, b)) = c \o x
      BY DoubledAppend
    <3> DEFINE q == "Subnegotiation"
    <3>3. q \in States /\ s = StateAfter(q, c) /\ o = PassedOn(q, c)
          /\ Q(Append(r, b)) = StateAfter(q, c \o x) /\ O(Append(r, b)) = PassedOn(q, c \o x)
      BY <1>0, <3>1
    <3> HIDE DEF s, o, c, x, Q, O, q
    <3> QED BY <2>1, <3>3, FilterConcat
  <2>3. s \in States
    BY <2>0, <1>0
  <2>4. /\ s = "Subnegotiation" =>
             y = [state |-> IF b = IAC THEN "SubnegotiationIAC" ELSE "Subnegotiation", out |-> <<>>]
        /\ s = "SubnegotiationIAC" =>
             y = [state |-> CASE b = SE -> "Data" [] b = IAC -> "SubnegotiationIAC"
                              [] OTHER -> "Subnegotiation", out |-> <<>>]
        /\ s = "Data" => y.state = "Data"
    <3> HIDE DEF s
    <3>1. CASE b = IAC
      <4>1. y = Filtered(Filtered([state |-> s, out |-> <<>>], IAC), IAC)
        BY <2>3, <3>1, FilterTwo, TelnetBytes
      <4>2. s = "Subnegotiation" => y = [state |-> "SubnegotiationIAC", out |-> <<>>]
        BY <4>1 DEF Filtered, After, AfterSubnegotiation, AfterSubnegotiationIAC
      <4>3. s = "SubnegotiationIAC" => y = [state |-> "SubnegotiationIAC", out |-> <<>>]
        BY <4>1, TelnetBytes DEF Filtered, After, AfterSubnegotiationIAC
      <4>4. s = "Data" => y.state = "Data"
        BY <4>1, TelnetBytes DEF Filtered, After, AfterData, AfterIAC
      <4> QED BY <3>1, <4>2, <4>3, <4>4, TelnetBytes
    <3>2. CASE b # IAC
      <4>1. y = Filtered([state |-> s, out |-> <<>>], b)
        BY <2>3, <3>2, FilterOne
      <4> HIDE DEF y
      <4> QED BY <3>2, <4>1 DEF Filtered, After, AfterSubnegotiation, AfterSubnegotiationIAC, AfterData
    <3> QED BY <3>1, <3>2
  <2> DEFINE v == StateAfter(s, x)
             w == PassedOn(s, x)
  <2>9. y.state = v /\ y.out = w
    BY DEF StateAfter, PassedOn
  <2> HIDE DEF v, w, y
  <2>5. Q(Append(r, b)) \in {"Data", "Subnegotiation", "SubnegotiationIAC"}
    <3>1. Q(Append(r, b)) = v
      BY <2>2 DEF v
    <3> HIDE DEF s, Q, O
    <3>2. v \in {"Data", "Subnegotiation", "SubnegotiationIAC"}
      BY <2>0, <2>4, <2>9
    <3> QED BY <3>1, <3>2
  <2>6. ASSUME ~LeaksIn(Append(r, b))
        PROVE  /\ O(Append(r, b)) = <<>>
               /\ Q(Append(r, b)) = IF b = IAC THEN "SubnegotiationIAC" ELSE "Subnegotiation"
    <3>1. ~LeaksIn(r) /\ ~(r # <<>> /\ Last(r) = IAC /\ b = SE)
      BY <2>6, LeaksInAppend
    <3>2. Q(Append(r, b)) = v /\ O(Append(r, b)) = o \o w
      BY <2>2 DEF v, w
    <3> HIDE DEF s, o, Q, O
    <3>3. y = [state |-> IF b = IAC THEN "SubnegotiationIAC" ELSE "Subnegotiation", out |-> <<>>]
      BY <2>0, <2>4, <3>1
    <3>4. w = <<>> /\ o = <<>> /\ v = IF b = IAC THEN "SubnegotiationIAC" ELSE "Subnegotiation"
      BY <2>0, <2>9, <3>1, <3>3
    <3>5. <<>> \o <<>> = <<>>
      OBVIOUS
    <3> QED BY <3>2, <3>4, <3>5
  <2>7. Append(r, b) \in Seq(Symbols) /\ Append(r, b) # <<>> /\ Last(Append(r, b)) = b
    BY PeelAppend
  <2> QED
    BY <2>5, <2>6, <2>7
<1>3. Seq(Symbols) \subseteq P
  <2> HIDE DEF P
  <2> QED BY <1>1, <1>2, SeqInduction
<1> QED
  BY <1>3

\* What one token adds to the terminal output.
MeaningOf(t) == IF t.kind = "output" THEN t.data ELSE <<>>

\* The data of each kind of token.
LEMMA TokenData ==
    ASSUME NEW t \in Tokens
    PROVE  /\ t.kind \in {"output", "subnegotiation", "negotiation", "command"}
           /\ t.data \in Seq(Symbols)
           /\ t.kind = "negotiation" => \E b \in Symbols : t.data = <<b>>
           /\ t.kind = "command" => \E b \in Symbols \ {IAC, DO, SB} : t.data = <<b>>
<1>1. ASSUME NEW S, NEW d \in [1..1 -> S] PROVE d[1] \in S /\ d = <<d[1]>> /\ d \in Seq(S)
  <2>1. d \in Seq(S) /\ DOMAIN d = 1..1 /\ d[1] \in S
    <3>1. 1 \in Nat /\ DOMAIN d = 1..1 /\ \A i \in 1..1 : d[i] \in S
      OBVIOUS
    <3>2. Seq(S) = UNION {[1..n -> S] : n \in Nat}
      BY SeqDef
    <3>3. [1..1 -> S] \in {[1..n -> S] : n \in Nat}
      OBVIOUS
    <3> QED BY <3>1, <3>2, <3>3
  <2>2. Len(d) = 1
    BY <2>1, LenProperties
  <2>3. <<d[1]>> \in Seq(S) /\ Len(<<d[1]>>) = 1 /\ <<d[1]>>[1] = d[1]
    BY <2>1
  <2>4. d = <<d[1]>>
    BY <2>1, <2>2, <2>3, SeqEqual
  <2> QED BY <2>1, <2>4
<1>2. CASE t \in [kind : {"output", "subnegotiation"}, data : Seq(Symbols)]
  BY <1>2
<1>3. CASE t \in [kind : {"negotiation"}, data : [1..1 -> Symbols]]
  BY <1>1, <1>3
<1>4. CASE t \in [kind : {"command"}, data : [1..1 -> Symbols \ {IAC, DO, SB}]]
  <2>1. t.kind = "command" /\ t.data \in [1..1 -> Symbols \ {IAC, DO, SB}]
    BY <1>4
  <2>2. t.data[1] \in Symbols \ {IAC, DO, SB} /\ t.data = <<t.data[1]>>
    BY <1>1, <2>1
  <2>3. t.data \in Seq(Symbols)
    BY <2>2
  <2> QED BY <2>1, <2>2, <2>3
<1> QED
  BY <1>2, <1>3, <1>4 DEF Tokens

\* From the data state and back to it, with what was meant.
LEMMA TokenPasses ==
    ASSUME NEW t \in Tokens
    PROVE  /\ BytesOf(t) \in Seq(Symbols) /\ MeaningOf(t) \in Seq(Symbols)
           /\ StateAfter("Data", BytesOf(t)) = "Data"
           /\ ~Leaks(t) => PassedOn("Data", BytesOf(t)) = MeaningOf(t)
<1>0. "Data" \in States /\ "IAC" \in States /\ "SkipOption" \in States /\ "Subnegotiation" \in States
      /\ "SubnegotiationIAC" \in States
  BY DEF States
<1>1. MeaningOf(t) \in Seq(Symbols) /\ t.data \in Seq(Symbols)
  BY TokenData, EmptySeq DEF MeaningOf
<1>2. CASE t.kind = "output"
  <2>1. BytesOf(t) = Doubled(t.data)
    BY <1>2 DEF BytesOf
  <2> QED BY <1>1, <1>2, <2>1, OutputPasses, DoubledType DEF MeaningOf
<1>3. CASE t.kind = "subnegotiation"
  <2> DEFINE a == <<IAC, SB>>
             d == Doubled(t.data)
             z == <<IAC, SE>>
             s == StateAfter("Subnegotiation", d)
             o == PassedOn("Subnegotiation", d)
  <2>1. BytesOf(t) = (a \o d) \o z
    BY <1>3 DEF BytesOf
  <2>2. a \in Seq(Symbols) /\ d \in Seq(Symbols) /\ z \in Seq(Symbols)
    BY TelnetBytes, DoubledType, <1>1
  <2>3. a \o d \in Seq(Symbols) /\ (a \o d) \o z \in Seq(Symbols)
    <3> HIDE DEF a, d, z
    <3> QED BY <2>2
  <2>4. Filter("Data", a) = [state |-> "Subnegotiation", out |-> <<>>]
    <3>1. Filter("Data", a) = Filtered(Filtered([state |-> "Data", out |-> <<>>], IAC), SB)
      BY <1>0, FilterTwo, TelnetBytes
    <3>2. Filtered([state |-> "Data", out |-> <<>>], IAC) = [state |-> "IAC", out |-> <<>>]
      BY DEF Filtered, After, AfterData
    <3>3. Filtered([state |-> "IAC", out |-> <<>>], SB) = [state |-> "Subnegotiation", out |-> <<>>]
      BY TelnetBytes DEF Filtered, After, AfterIAC
    <3> QED BY <3>1, <3>2, <3>3
  <2>5. s \in States /\ o \in Seq(Symbols)
    BY <1>0, <2>2, PartsType
  <2>6. StateAfter("Data", a \o d) = s /\ PassedOn("Data", a \o d) = o
    <3> DEFINE q == "Data"
               w == "Subnegotiation"
    <3>1. StateAfter(q, a) = w /\ PassedOn(q, a) = <<>>
      BY <2>4, Parts
    <3>2. q \in States /\ s = StateAfter(w, d) /\ o = PassedOn(w, d) /\ <<>> \o o = o
      <4>1. <<>> \o o = o
        <5> HIDE DEF o
        <5> QED BY <2>5
      <4> QED BY <1>0, <4>1
    <3> HIDE DEF a, d, s, o, q, w
    <3>3. StateAfter(q, a \o d) = s /\ PassedOn(q, a \o d) = o
      <4>1. /\ StateAfter(q, a \o d) = StateAfter(StateAfter(q, a), d)
            /\ PassedOn(q, a \o d) = PassedOn(q, a) \o PassedOn(StateAfter(q, a), d)
        <5>1. q \in States
          BY <3>2
        <5> QED BY <2>2, <5>1, FilterConcat
      <4> QED BY <3>1, <3>2, <4>1
    <3> QED BY <3>3 DEF q
  <2>7. ASSUME NEW q \in {"Data", "Subnegotiation", "SubnegotiationIAC"}
        PROVE  Filter(q, z) = [state |-> "Data", out |-> <<>>]
    <3>1. Filter(q, z) = Filtered(Filtered([state |-> q, out |-> <<>>], IAC), SE)
      BY <1>0, FilterTwo, TelnetBytes
    <3>2. CASE q = "Data"
      <4>1. Filtered([state |-> q, out |-> <<>>], IAC) = [state |-> "IAC", out |-> <<>>]
        BY <3>2 DEF Filtered, After, AfterData
      <4>2. Filtered([state |-> "IAC", out |-> <<>>], SE) = [state |-> "Data", out |-> <<>>]
        BY TelnetBytes DEF Filtered, After, AfterIAC
      <4> QED BY <3>1, <4>1, <4>2
    <3>3. CASE q # "Data"
      <4>1. Filtered([state |-> q, out |-> <<>>], IAC) = [state |-> "SubnegotiationIAC", out |-> <<>>]
        BY <3>3, TelnetBytes DEF Filtered, After, AfterSubnegotiation, AfterSubnegotiationIAC
      <4>2. Filtered([state |-> "SubnegotiationIAC", out |-> <<>>], SE) = [state |-> "Data", out |-> <<>>]
        BY TelnetBytes DEF Filtered, After, AfterSubnegotiationIAC
      <4> QED BY <3>1, <4>1, <4>2
    <3> QED BY <3>2, <3>3
  <2>8. s \in {"Data", "Subnegotiation", "SubnegotiationIAC"} /\ (~LeaksIn(t.data) => o = <<>>)
    BY <1>1, SubnegotiationPasses
  <2>9. StateAfter("Data", BytesOf(t)) = "Data" /\ PassedOn("Data", BytesOf(t)) = o
    <3> DEFINE ad == a \o d
               q == "Data"
    <3>1. StateAfter(s, z) = q /\ PassedOn(s, z) = <<>>
      <4> HIDE DEF s, z
      <4>1. Filter(s, z) = [state |-> "Data", out |-> <<>>]
        BY <2>7, <2>8
      <4> QED BY <4>1, Parts
    <3>2. o \o <<>> = o
      <4> HIDE DEF o
      <4> QED BY <2>5
    <3>3. ad \in Seq(Symbols) /\ StateAfter(q, ad) = s /\ PassedOn(q, ad) = o
          /\ BytesOf(t) = ad \o z /\ q \in States
      BY <1>0, <2>1, <2>3, <2>6
    <3> HIDE DEF ad, z, s, o, q
    <3>4. StateAfter(q, ad \o z) = q /\ PassedOn(q, ad \o z) = o
      <4>1. /\ StateAfter(q, ad \o z) = StateAfter(StateAfter(q, ad), z)
            /\ PassedOn(q, ad \o z) = PassedOn(q, ad) \o PassedOn(StateAfter(q, ad), z)
        <5>1. q \in States /\ ad \in Seq(Symbols)
          BY <3>3
        <5> QED BY <2>2, <5>1, FilterConcat
      <4>2. StateAfter(q, ad) = s /\ PassedOn(q, ad) = o
        BY <3>3
      <4> QED BY <3>1, <3>2, <4>1, <4>2
    <3> QED BY <3>3, <3>4 DEF q
  <2> HIDE DEF a, d, z, s, o
  <2>10. Leaks(t) <=> LeaksIn(t.data)
    BY <1>3 DEF Leaks, LeaksIn
  <2> QED
    BY <1>1, <1>3, <2>1, <2>3, <2>8, <2>9, <2>10 DEF MeaningOf
<1>4. CASE t.kind = "negotiation"
  <2>1. PICK b \in Symbols : t.data = <<b>>
    BY <1>4, TokenData
  <2>2. BytesOf(t) = Append(<<IAC, DO>>, b) /\ <<IAC, DO>> \in Seq(Symbols)
    BY <1>4, <2>1, TelnetBytes DEF BytesOf
  <2>3. Filter("Data", BytesOf(t)) = Filtered(Filter("Data", <<IAC, DO>>), b)
    BY <1>0, <2>2, FilterAppend
  <2>4. Filter("Data", <<IAC, DO>>) = [state |-> "SkipOption", out |-> <<>>]
    <3>1. Filter("Data", <<IAC, DO>>) = Filtered(Filtered([state |-> "Data", out |-> <<>>], IAC), DO)
      BY <1>0, FilterTwo, TelnetBytes
    <3>2. Filtered([state |-> "Data", out |-> <<>>], IAC) = [state |-> "IAC", out |-> <<>>]
      BY DEF Filtered, After, AfterData
    <3>3. Filtered([state |-> "IAC", out |-> <<>>], DO) = [state |-> "SkipOption", out |-> <<>>]
      BY TelnetBytes DEF Filtered, After, AfterIAC
    <3> QED BY <3>1, <3>2, <3>3
  <2>5. Filtered([state |-> "SkipOption", out |-> <<>>], b) = [state |-> "Data", out |-> <<>>]
    BY DEF Filtered, After
  <2>6. BytesOf(t) \in Seq(Symbols)
    BY <2>2
  <2> QED
    BY <1>1, <1>4, <2>3, <2>4, <2>5, <2>6, Parts DEF MeaningOf
<1>5. CASE t.kind = "command"
  <2>1. PICK b \in Symbols \ {IAC, DO, SB} : t.data = <<b>>
    BY <1>5, TokenData
  <2>2. BytesOf(t) = <<IAC, b>> /\ <<IAC, b>> \in Seq(Symbols)
    <3>1. BytesOf(t) = <<IAC>> \o <<b>>
      BY <1>5, <2>1 DEF BytesOf
    <3>2. <<IAC>> \o <<b>> = <<IAC, b>>
      <4>1. ASSUME NEW c \in Symbols, NEW e \in Symbols PROVE <<c>> \o <<e>> = <<c, e>>
        <5>1. <<c>> \in Seq(Symbols)
          OBVIOUS
        <5>2. <<c>> \o <<e>> = Append(<<c>>, e)
          BY <5>1, AppendOne
        <5>3. <<c, e>> = Append(<<c>>, e)
          OBVIOUS
        <5> QED BY <5>2, <5>3
      <4> QED BY <4>1, TelnetBytes
    <3>3. <<IAC, b>> \in Seq(Symbols)
      BY TelnetBytes
    <3> QED BY <3>1, <3>2, <3>3
  <2>3. Filter("Data", <<IAC, b>>) = Filtered(Filtered([state |-> "Data", out |-> <<>>], IAC), b)
    BY <1>0, FilterTwo, TelnetBytes
  <2>4. Filtered([state |-> "Data", out |-> <<>>], IAC) = [state |-> "IAC", out |-> <<>>]
    BY DEF Filtered, After, AfterData
  <2>5. Filtered([state |-> "IAC", out |-> <<>>], b) = [state |-> "Data", out |-> <<>>]
    BY <2>1 DEF Filtered, After, AfterIAC
  <2> QED
    BY <1>1, <1>5, <2>2, <2>3, <2>4, <2>5, Parts DEF MeaningOf
<1> QED
  BY <1>2, <1>3, <1>4, <1>5, TokenData

\* Bytes is a fold over tokens.
LEMMA BytesStepType == IsStep(BytesStep, Seq(Symbols), Tokens)
<1>1. \A p \in Seq(Symbols) \X Tokens : p[1] \o BytesOf(p[2]) \in Seq(Symbols)
  BY TokenPasses
<1> QED
  BY <1>1 DEF BytesStep, IsStep

\* Meaning is a fold over tokens.
LEMMA MeaningStepType == IsStep(MeaningStep, Seq(Symbols), Tokens)
<1>1. \A p \in Seq(Symbols) \X Tokens : p[1] \o MeaningOf(p[2]) \in Seq(Symbols)
  BY TokenPasses
<1> QED
  BY <1>1 DEF MeaningStep, MeaningOf, IsStep

\* The bytes and the meaning of one token more.
LEMMA BytesFacts ==
    ASSUME NEW ts \in Seq(Tokens)
    PROVE  /\ Bytes(ts) \in Seq(Symbols) /\ Meaning(ts) \in Seq(Symbols)
           /\ Bytes(<<>>) = <<>> /\ Meaning(<<>>) = <<>>
           /\ \A t \in Tokens : /\ Bytes(Append(ts, t)) = Bytes(ts) \o BytesOf(t)
                                /\ Meaning(Append(ts, t)) = Meaning(ts) \o MeaningOf(t)
<1>1. <<>> \in Seq(Symbols)
  BY EmptySeq
<1>2. Bytes(ts) \in Seq(Symbols) /\ Meaning(ts) \in Seq(Symbols)
  BY <1>1, BytesStepType, MeaningStepType, FoldType DEF Bytes, Meaning
<1>3. Bytes(<<>>) = <<>> /\ Meaning(<<>>) = <<>>
  BY <1>1, BytesStepType, MeaningStepType, FoldEmpty DEF Bytes, Meaning
<1>4. ASSUME NEW t \in Tokens
      PROVE  Bytes(Append(ts, t)) = BytesStep[<<Bytes(ts), t>>]
             /\ Meaning(Append(ts, t)) = MeaningStep[<<Meaning(ts), t>>]
  <2>1. ASSUME NEW o \in Seq(Symbols)
        PROVE  /\ Fold(BytesStep, o, Append(ts, t)) = BytesStep[<<Fold(BytesStep, o, ts), t>>]
               /\ Fold(MeaningStep, o, Append(ts, t)) = MeaningStep[<<Fold(MeaningStep, o, ts), t>>]
    BY BytesStepType, MeaningStepType, FoldAppend
  <2> QED BY <1>1, <2>1 DEF Bytes, Meaning
<1>5. ASSUME NEW t \in Tokens, NEW o \in Seq(Symbols)
      PROVE  BytesStep[<<o, t>>] = o \o BytesOf(t) /\ MeaningStep[<<o, t>>] = o \o MeaningOf(t)
  BY DEF BytesStep, MeaningStep, MeaningOf
<1> QED
  BY <1>2, <1>3, <1>4, <1>5

\* The bytes of a part of the stream are a part of its bytes.
LEMMA BytesConcat ==
    ASSUME NEW ts \in Seq(Tokens), NEW us \in Seq(Tokens)
    PROVE  \E d \in Seq(Symbols) : Bytes(ts \o us) = Bytes(ts) \o d
<1> DEFINE P == {r \in Seq(Tokens) : \E d \in Seq(Symbols) : Bytes(ts \o r) = Bytes(ts) \o d}
<1>1. <<>> \in P
  <2>1. <<>> \in Seq(Tokens) /\ <<>> \in Seq(Symbols) /\ ts \o <<>> = ts
    BY EmptySeq
  <2>2. Bytes(ts) \o <<>> = Bytes(ts)
    BY BytesFacts, ConcatEmptySeq
  <2> QED BY <2>1, <2>2
<1>2. ASSUME NEW r \in Seq(Tokens), r \in P, NEW t \in Tokens PROVE Append(r, t) \in P
  <2>1. ts \o Append(r, t) = Append(ts \o r, t) /\ ts \o r \in Seq(Tokens) /\ Append(r, t) \in Seq(Tokens)
    BY ConcatAppend, PeelAppend
  <2>2. PICK d \in Seq(Symbols) : Bytes(ts \o r) = Bytes(ts) \o d
    BY <1>2
  <2>3. Bytes(ts) \in Seq(Symbols) /\ BytesOf(t) \in Seq(Symbols)
    BY BytesFacts, TokenPasses
  <2>4. Bytes(Append(ts \o r, t)) = Bytes(ts \o r) \o BytesOf(t)
    <3>1. \A q \in Seq(Tokens) : Bytes(Append(q, t)) = Bytes(q) \o BytesOf(t)
      BY BytesFacts
    <3> QED BY <2>1, <3>1
  <2>5. (Bytes(ts) \o d) \o BytesOf(t) = Bytes(ts) \o (d \o BytesOf(t)) /\ d \o BytesOf(t) \in Seq(Symbols)
    BY <2>3, ConcatAssociative
  <2> QED
    BY <2>1, <2>2, <2>4, <2>5
<1>3. Seq(Tokens) \subseteq P
  <2> HIDE DEF P
  <2> QED BY <1>1, <1>2, SeqInduction
<1> QED
  BY <1>3

\* The filter on whole tokens: it is in its data state again, and what it has
\* passed on is what was meant, if no subnegotiation leaks.
LEMMA TokensPass ==
    ASSUME NEW ts \in Seq(Tokens)
    PROVE  /\ StateAfter("Data", Bytes(ts)) = "Data"
           /\ (\A i \in 1..Len(ts) : ~Leaks(ts[i])) => PassedOn("Data", Bytes(ts)) = Meaning(ts)
<1> DEFINE Clean(r) == \A i \in 1..Len(r) : ~Leaks(r[i])
           P == {r \in Seq(Tokens) :
                    /\ StateAfter("Data", Bytes(r)) = "Data"
                    /\ Clean(r) => PassedOn("Data", Bytes(r)) = Meaning(r)}
<1>0. "Data" \in States
  BY DEF States
<1>1. <<>> \in P
  <2>1. <<>> \in Seq(Tokens)
    BY EmptySeq
  <2>2. Bytes(<<>>) = <<>> /\ Meaning(<<>>) = <<>>
    BY <2>1, BytesFacts
  <2>3. StateAfter("Data", <<>>) = "Data" /\ PassedOn("Data", <<>>) = <<>>
    BY <1>0, FilterEmpty, Parts
  <2> QED BY <2>1, <2>2, <2>3
<1>2. ASSUME NEW r \in Seq(Tokens), r \in P, NEW t \in Tokens PROVE Append(r, t) \in P
  <2> DEFINE b == Bytes(r)
             c == BytesOf(t)
  <2>1. b \in Seq(Symbols) /\ c \in Seq(Symbols) /\ Bytes(Append(r, t)) = b \o c
        /\ Meaning(Append(r, t)) = Meaning(r) \o MeaningOf(t)
    BY BytesFacts, TokenPasses
  <2>2. StateAfter("Data", b) = "Data" /\ (Clean(r) => PassedOn("Data", b) = Meaning(r))
    BY <1>2
  <2>3. StateAfter("Data", c) = "Data" /\ (~Leaks(t) => PassedOn("Data", c) = MeaningOf(t))
    BY TokenPasses
  <2>5. Clean(Append(r, t)) => Clean(r) /\ ~Leaks(t)
    <3>1. /\ Len(r) \in Nat /\ Len(Append(r, t)) = Len(r) + 1 /\ Append(r, t)[Len(r) + 1] = t
          /\ \A i \in 1..Len(r) : Append(r, t)[i] = r[i]
      BY AppendProperties, LenProperties
    <3>2. \A i \in 1..Len(r) : i \in 1..(Len(r) + 1)
      BY <3>1
    <3>3. Len(r) + 1 \in 1..(Len(r) + 1)
      BY <3>1
    <3> QED BY <3>1, <3>2, <3>3
  <2>6. Append(r, t) \in Seq(Tokens)
    BY PeelAppend
  <2>7. StateAfter("Data", b \o c) = "Data"
        /\ PassedOn("Data", b \o c) = PassedOn("Data", b) \o PassedOn("Data", c)
    <3> DEFINE q == "Data"
    <3>1. q \in States /\ StateAfter(q, b) = q /\ StateAfter(q, c) = q
      BY <1>0, <2>2, <2>3
    <3> HIDE DEF b, c, q
    <3>2. /\ StateAfter(q, b \o c) = StateAfter(StateAfter(q, b), c)
          /\ PassedOn(q, b \o c) = PassedOn(q, b) \o PassedOn(StateAfter(q, b), c)
      <4>1. q \in States
        BY <3>1
      <4> QED BY <2>1, <4>1, FilterConcat
    <3> QED BY <3>1, <3>2 DEF q
  <2> HIDE DEF b, c
  <2>8. Clean(Append(r, t)) => PassedOn("Data", b \o c) = Meaning(r) \o MeaningOf(t)
    <3> HIDE DEF Clean
    <3> QED BY <2>2, <2>3, <2>5, <2>7
  <2> HIDE DEF Clean
  <2> QED BY <2>1, <2>6, <2>7, <2>8
<1>3. Seq(Tokens) \subseteq P
  <2> HIDE DEF P
  <2> QED BY <1>1, <1>2, SeqInduction
<1> QED
  BY <1>3

\* The bytes read so far.
SoFar == SubSeq(Bytes(stream), 1, pos)

\* Reading in pieces is reading at once: readUpstream keeps one filter for the
\* connection, and it keeps its state from one read to the next.
FilterInv ==
    /\ stream \in Seq(Tokens)
    /\ pos \in 0..Len(Bytes(stream))
    /\ state = StateAfter("Data", SoFar)
    /\ passed = PassedOn("Data", SoFar)

\* A part of a sequence has its elements.
LEMMA Cut ==
    ASSUME NEW E, NEW s \in Seq(E), NEW m \in Int, NEW n \in Int, 1 <= m, n <= Len(s)
    PROVE  SubSeq(s, m, n) \in Seq(E)
<1>1. \A i \in m..n : s[i] \in E
  BY ElementOfSeq, LenProperties
<1> QED
  BY <1>1, SubSeqProperties

\* The types of what has been read, and of what the filter has made of it.
LEMMA SoFarType ==
    ASSUME FilterInv
    PROVE  /\ Bytes(stream) \in Seq(Symbols) /\ Len(Bytes(stream)) \in Nat /\ pos \in Nat
           /\ SoFar \in Seq(Symbols) /\ state \in States /\ passed \in Seq(Symbols)
<1> DEFINE b == Bytes(stream)
<1>1. b \in Seq(Symbols)
  BY BytesFacts DEF FilterInv
<1>2. Len(b) \in Nat /\ pos \in Nat /\ pos <= Len(b)
  BY <1>1, LenProperties DEF FilterInv
<1>3. SoFar \in Seq(Symbols)
  <2> HIDE DEF b
  <2>1. SubSeq(b, 1, pos) \in Seq(Symbols)
    BY <1>1, <1>2, Cut
  <2> QED BY <2>1 DEF SoFar, b
<1>4. "Data" \in States
  BY DEF States
<1> QED
  BY <1>1, <1>2, <1>3, <1>4, PartsType DEF FilterInv

\* What one Read does to the filter.
LEMMA ReadFilters ==
    ASSUME FilterInv, NEW n \in 1..(Len(Bytes(stream)) - pos),
           NEW f, f = Filter(state, SubSeq(Bytes(stream), pos + 1, pos + n)),
           pos' = pos + n, state' = f.state, passed' = passed \o f.out, stream' = stream
    PROVE  FilterInv' /\ f.out \in Seq(Symbols)
<1> DEFINE b == Bytes(stream)
           r == SubSeq(b, pos + 1, pos + n)
           D == "Data"
<1>1. /\ b \in Seq(Symbols) /\ Len(b) \in Nat /\ pos \in Nat /\ n \in Nat /\ pos + n \in 0..Len(b)
      /\ SoFar \in Seq(Symbols) /\ D \in States
  BY SoFarType DEF States
<1>2. SoFar' = SubSeq(b, 1, pos + n)
  BY DEF SoFar
<1>3. state = StateAfter(D, SoFar) /\ passed = PassedOn(D, SoFar) /\ SoFar = SubSeq(b, 1, pos)
  BY DEF FilterInv, SoFar
<1>4. f.state = StateAfter(state, r) /\ f.out = PassedOn(state, r)
  BY DEF StateAfter, PassedOn
<1> HIDE DEF b, D
<1>5. r \in Seq(Symbols)
  BY <1>1, Cut
<1>6. SubSeq(b, 1, pos + n) = SoFar \o r
  <2>1. 1 \in 1..(Len(b) + 1) /\ pos \in (1 - 1)..Len(b) /\ pos + n \in pos..Len(b)
    BY <1>1
  <2>2. SubSeq(b, 1, pos) \o SubSeq(b, pos + 1, pos + n) = SubSeq(b, 1, pos + n)
    BY <1>1, <2>1, ConcatAdjacentSubSeq
  <2> QED BY <1>3, <2>2
<1> HIDE DEF r
<1>7. /\ StateAfter(D, SoFar \o r) = StateAfter(StateAfter(D, SoFar), r)
      /\ PassedOn(D, SoFar \o r) = PassedOn(D, SoFar) \o PassedOn(StateAfter(D, SoFar), r)
  BY <1>1, <1>5, FilterConcat
<1>8. state' = StateAfter(D, SoFar') /\ passed' = PassedOn(D, SoFar')
  BY <1>2, <1>3, <1>4, <1>6, <1>7
<1>9. stream' \in Seq(Tokens) /\ pos' \in 0..Len(Bytes(stream'))
  BY <1>1 DEF FilterInv, b
<1>10. f.out \in Seq(Symbols)
  BY <1>4, <1>5, SoFarType, PartsType
<1> QED
  BY <1>8, <1>9, <1>10 DEF FilterInv, D

\* Every step keeps FilterInv: only readUpstream calls Filter.
LEMMA FilterInvStep == FilterInv /\ [Next]_vars => FilterInv'
<1> SUFFICES ASSUME FilterInv, [Next]_vars PROVE FilterInv'
  OBVIOUS
<1>1. ASSUME UNCHANGED <<stream, pos, state, passed>> PROVE FilterInv'
  BY <1>1 DEF FilterInv, SoFar
<1>2. CASE Read
  <2>1. PICK n \in 1..(Len(Bytes(stream)) - pos) :
          LET f == Filter(state, SubSeq(Bytes(stream), pos + 1, pos + n)) IN
          pos' = pos + n /\ state' = f.state /\ passed' = passed \o f.out
    BY <1>2 DEF Read
  <2>2. stream' = stream
    BY <1>2 DEF Read
  <2> QED BY <2>1, <2>2, ReadFilters
<1>3. CASE UpsertDelta
  BY <1>1, <1>3 DEF UpsertDelta, streamVars
<1>4. CASE GetLatest
  BY <1>1, <1>4 DEF GetLatest, streamVars
<1>5. CASE Release
  BY <1>1, <1>5 DEF Release, streamVars
<1>6. CASE UNCHANGED vars
  BY <1>1, <1>6 DEF vars, streamVars
<1> QED
  BY <1>2, <1>3, <1>4, <1>5, <1>6 DEF Next

\* Nothing has been read at first.
LEMMA FilterInvInit == Init => FilterInv
<1> SUFFICES ASSUME Init PROVE FilterInv
  OBVIOUS
<1>1. stream \in Seq(Tokens) /\ pos = 0 /\ state = "Data" /\ passed = <<>>
  BY StreamsAssumption DEF Init
<1>2. Len(Bytes(stream)) \in Nat
  BY <1>1, BytesFacts, LenProperties
<1>3. SoFar = <<>>
  BY <1>1, SubSeqEmpty DEF SoFar
<1>4. StateAfter("Data", <<>>) = "Data" /\ PassedOn("Data", <<>>) = <<>>
  <2>1. "Data" \in States
    BY DEF States
  <2> QED BY <2>1, FilterEmpty, Parts
<1> QED
  BY <1>1, <1>2, <1>3, <1>4 DEF FilterInv

\* At a token's end the filter has passed on what the MUD meant.
LEMMA FilterInvImplies == FilterInv => FilterIsTelnet
<1> SUFFICES ASSUME FilterInv, NEW k \in 0..Len(stream),
                    pos = Len(Bytes(SubSeq(stream, 1, k)))
             PROVE  /\ state = "Data"
                    /\ (\A i \in 1..k : ~Leaks(stream[i])) => passed = Meaning(SubSeq(stream, 1, k))
  BY DEF FilterIsTelnet
<1> DEFINE sent == SubSeq(stream, 1, k)
           rest == SubSeq(stream, k + 1, Len(stream))
<1>1. stream \in Seq(Tokens) /\ Len(stream) \in Nat /\ k \in Nat /\ k <= Len(stream)
  BY LenProperties DEF FilterInv
<1>2. sent \in Seq(Tokens) /\ rest \in Seq(Tokens)
  BY <1>1, Cut
<1>3. sent \o rest = stream
  <2>1. 1 \in 1..(Len(stream) + 1) /\ k \in (1 - 1)..Len(stream) /\ Len(stream) \in k..Len(stream)
    BY <1>1
  <2>2. sent \o rest = SubSeq(stream, 1, Len(stream))
    BY <1>1, <2>1, ConcatAdjacentSubSeq
  <2> QED BY <1>1, <2>2, SubSeqFull
<1>4. Len(sent) = k /\ \A i \in 1..k : sent[i] = stream[i]
  <2>1. \A i \in 1..k : stream[i] \in Tokens
    BY <1>1, ElementOfSeq
  <2>2. /\ Len(SubSeq(stream, 1, k)) = IF 1 <= k THEN k - 1 + 1 ELSE 0
        /\ \A i \in 1..(k - 1 + 1) : SubSeq(stream, 1, k)[i] = stream[1 + i - 1]
    BY <1>1, <2>1, SubSeqProperties
  <2>3. k - 1 + 1 = k /\ (~(1 <= k) => k = 0) /\ \A i \in 1..k : 1 + i - 1 = i
    BY <1>1
  <2> QED BY <2>2, <2>3
<1> HIDE DEF sent, rest
<1> DEFINE b == Bytes(sent)
<1>5. b \in Seq(Symbols)
  BY <1>2, BytesFacts
<1>6. PICK d \in Seq(Symbols) : Bytes(stream) = b \o d
  BY <1>2, <1>3, BytesConcat
<1>7. SoFar = b
  <2>1. pos = Len(b)
    BY DEF sent
  <2> HIDE DEF b
  <2>2. SubSeq(b \o d, 1, Len(b)) = b
    <3>1. Len(b) \in Nat
      BY <1>5, LenProperties
    <3>2. CASE Len(b) = 0
      <4>1. b = <<>>
        BY <1>5, <3>2, EmptySeq
      <4> QED BY <3>2, <4>1, SubSeqEmpty
    <3>3. CASE Len(b) # 0
      <4>1. 1 \in 1..Len(b) /\ Len(b) \in 1..Len(b)
        BY <3>1, <3>3
      <4>2. SubSeq(b \o d, 1, Len(b)) = SubSeq(b, 1, Len(b))
        BY <1>5, <4>1, SubSeqOfConcat1
      <4> QED BY <1>5, <4>2, SubSeqFull
    <3> QED BY <3>2, <3>3
  <2> QED BY <1>6, <2>1, <2>2 DEF SoFar
<1>8. /\ StateAfter("Data", b) = "Data"
      /\ (\A i \in 1..Len(sent) : ~Leaks(sent[i])) => PassedOn("Data", b) = Meaning(sent)
  BY <1>2, TokensPass
<1>9. state = "Data" /\ ((\A i \in 1..k : ~Leaks(stream[i])) => passed = Meaning(sent))
  BY <1>4, <1>7, <1>8 DEF FilterInv
<1> QED
  BY <1>9 DEF sent

\* telnet.go, Filter: at the end of each token the filter is in its data state
\* and has passed on what the MUD meant, for every stream and however TCP cuts
\* it into reads.
THEOREM FilterAgrees == Spec => []FilterIsTelnet
BY FilterInvInit, FilterInvStep, FilterInvImplies, PTL DEF Spec

-----------------------------------------------------------------------------
(***************************************************************************)
(* The decoder.                                                            *)
(***************************************************************************)
\* The bytes and letters that Decode looks at differ.
LEMMA TextBytes ==
    /\ CR \in Symbols /\ LF \in Symbols /\ YA \in Symbols /\ ya \in Symbols /\ IAC \in Symbols
    /\ CR # LF /\ CR # YA /\ CR # ya /\ LF # YA /\ LF # ya /\ YA # ya
    /\ IAC # CR /\ IAC # LF /\ IAC # YA
    /\ ~IsLower(LF)
BY TextSymbols, TelnetBytes DEF CR, LF, YA, ya, IAC, IsLower, lower, DO, SB, SE

\* The replacement of CR LF is a fold over symbols.
LEMMA JoinStepType == IsStep(JoinStep, Seq(Symbols), Symbols)
<1>1. ASSUME NEW o \in Seq(Symbols), NEW r \in Symbols PROVE Joined(o, r) \in Seq(Symbols)
  <2>1. o # <<>> => Front(o) \in Seq(Symbols)
    BY Peel
  <2> QED BY <2>1, TextBytes DEF Joined
<1>2. \A p \in Seq(Symbols) \X Symbols : Joined(p[1], p[2]) \in Seq(Symbols)
  BY <1>1
<1> QED
  BY <1>2 DEF JoinStep, IsStep

\* The replacement of the letter artifact is a fold over symbols.
LEMMA YaStepType == IsStep(YaStep, Seq(Symbols), Symbols)
<1>1. ASSUME NEW o \in Seq(Symbols), NEW r \in Symbols PROVE YaFixed(o, r) \in Seq(Symbols)
  BY TextBytes DEF YaFixed
<1>2. \A p \in Seq(Symbols) \X Symbols : YaFixed(p[1], p[2]) \in Seq(Symbols)
  BY <1>1
<1> QED
  BY <1>2 DEF YaStep, IsStep

\* How the passes of the decoder go on with one more symbol.
LEMMA JoinFacts ==
    ASSUME NEW d \in Seq(Symbols)
    PROVE  /\ JoinCRLF(d) \in Seq(Symbols)
           /\ JoinCRLF(<<>>) = <<>>
           /\ \A r \in Symbols : JoinCRLF(Append(d, r)) = Joined(JoinCRLF(d), r)
<1>1. <<>> \in Seq(Symbols)
  BY EmptySeq
<1>2. JoinCRLF(d) \in Seq(Symbols)
  BY <1>1, JoinStepType, FoldType DEF JoinCRLF
<1>3. JoinCRLF(<<>>) = <<>>
  BY <1>1, JoinStepType, FoldEmpty DEF JoinCRLF
<1>4. ASSUME NEW r \in Symbols PROVE JoinCRLF(Append(d, r)) = JoinStep[<<JoinCRLF(d), r>>]
  <2>1. ASSUME NEW o \in Seq(Symbols)
        PROVE  Fold(JoinStep, o, Append(d, r)) = JoinStep[<<Fold(JoinStep, o, d), r>>]
    BY JoinStepType, FoldAppend
  <2> QED BY <1>1, <2>1 DEF JoinCRLF
<1>5. ASSUME NEW r \in Symbols, NEW o \in Seq(Symbols) PROVE JoinStep[<<o, r>>] = Joined(o, r)
  BY DEF JoinStep
<1> QED
  BY <1>2, <1>3, <1>4, <1>5

\* And the pass over the letter artifact.
LEMMA YaFacts ==
    ASSUME NEW d \in Seq(Symbols)
    PROVE  /\ FixYa(d) \in Seq(Symbols)
           /\ FixYa(<<>>) = <<>>
           /\ \A r \in Symbols : FixYa(Append(d, r)) = YaFixed(FixYa(d), r)
<1>1. <<>> \in Seq(Symbols)
  BY EmptySeq
<1>2. FixYa(d) \in Seq(Symbols)
  BY <1>1, YaStepType, FoldType DEF FixYa
<1>3. FixYa(<<>>) = <<>>
  BY <1>1, YaStepType, FoldEmpty DEF FixYa
<1>4. ASSUME NEW r \in Symbols PROVE FixYa(Append(d, r)) = YaStep[<<FixYa(d), r>>]
  <2>1. ASSUME NEW o \in Seq(Symbols)
        PROVE  Fold(YaStep, o, Append(d, r)) = YaStep[<<Fold(YaStep, o, d), r>>]
    BY YaStepType, FoldAppend
  <2> QED BY <1>1, <2>1 DEF FixYa
<1>5. ASSUME NEW r \in Symbols, NEW o \in Seq(Symbols) PROVE YaStep[<<o, r>>] = YaFixed(o, r)
  BY DEF YaStep
<1> QED
  BY <1>2, <1>3, <1>4, <1>5

\* CP1251 letter by letter.
Letter(b) == IF b = IAC THEN ya ELSE b

\* CP1251 goes letter by letter.
LEMMA CpType ==
    ASSUME NEW d \in Seq(Symbols)
    PROVE  /\ Cp1251(d) \in Seq(Symbols) /\ Len(Cp1251(d)) = Len(d)
           /\ \A i \in 1..Len(d) : Cp1251(d)[i] = Letter(d[i])
<1>1. Len(d) \in Nat /\ DOMAIN d = 1..Len(d) /\ \A i \in 1..Len(d) : d[i] \in Symbols
  BY LenProperties, ElementOfSeq
<1>2. Cp1251(d) \in [1..Len(d) -> Symbols]
  BY <1>1, TextBytes DEF Cp1251
<1>3. Cp1251(d) \in Seq(Symbols)
  <2>1. Seq(Symbols) = UNION {[1..n -> Symbols] : n \in Nat}
    BY SeqDef
  <2> QED BY <1>1, <1>2, <2>1
<1>4. DOMAIN Cp1251(d) = 1..Len(d)
  BY <1>2
<1>5. Len(Cp1251(d)) = Len(d)
  <2>1. DOMAIN Cp1251(d) = 1..Len(Cp1251(d)) /\ Len(Cp1251(d)) \in Nat
    BY <1>3, LenProperties
  <2> QED BY <1>1, <1>4, <2>1
<1> QED
  BY <1>1, <1>3, <1>5 DEF Cp1251, Letter

\* CP1251 of one byte more.
LEMMA CpFacts ==
    ASSUME NEW d \in Seq(Symbols)
    PROVE  /\ Cp1251(<<>>) = <<>>
           /\ \A r \in Symbols : Letter(r) \in Symbols
                                 /\ Cp1251(Append(d, r)) = Append(Cp1251(d), Letter(r))
<1>1. Cp1251(<<>>) = <<>>
  <2>1. <<>> \in Seq(Symbols) /\ Len(<<>>) = 0
    BY EmptySeq
  <2>2. Cp1251(<<>>) \in Seq(Symbols) /\ Len(Cp1251(<<>>)) = 0
    BY <2>1, CpType
  <2> QED BY <2>2, EmptySeq
<1>2. ASSUME NEW r \in Symbols
      PROVE  Letter(r) \in Symbols /\ Cp1251(Append(d, r)) = Append(Cp1251(d), Letter(r))
  <2> DEFINE t == Append(d, r)
             u == Cp1251(t)
             c == Cp1251(d)
             v == Append(c, Letter(r))
  <2>1. /\ t \in Seq(Symbols) /\ Len(t) = Len(d) + 1 /\ t[Len(d) + 1] = r /\ Len(d) \in Nat
        /\ \A i \in 1..Len(d) : t[i] = d[i]
    BY AppendProperties, LenProperties
  <2>2. Letter(r) \in Symbols
    BY TextBytes DEF Letter
  <2>3. c \in Seq(Symbols) /\ Len(c) = Len(d) /\ \A i \in 1..Len(d) : c[i] = Letter(d[i])
    BY CpType
  <2>4. /\ v \in Seq(Symbols) /\ Len(v) = Len(d) + 1 /\ v[Len(d) + 1] = Letter(r)
        /\ \A i \in 1..Len(d) : v[i] = c[i]
    <3> HIDE DEF c
    <3> QED BY <2>2, <2>3, AppendProperties
  <2> HIDE DEF t
  <2>5. u \in Seq(Symbols) /\ Len(u) = Len(t) /\ \A i \in 1..Len(t) : u[i] = Letter(t[i])
    BY <2>1, CpType
  <2> HIDE DEF u, c, v
  <2>6. \A i \in 1..Len(u) : u[i] = v[i]
    <3> SUFFICES ASSUME NEW i \in 1..Len(u) PROVE u[i] = v[i]
      OBVIOUS
    <3>1. i = Len(d) + 1 \/ i \in 1..Len(d)
      BY <2>1, <2>5
    <3> QED BY <2>1, <2>3, <2>4, <2>5, <3>1
  <2>7. u = v
    BY <2>1, <2>4, <2>5, <2>6, SeqEqual
  <2> QED BY <2>2, <2>7 DEF u, v, t, c
<1> QED
  BY <1>1, <1>2

\* Decode returns symbols.
LEMMA DecodeType ==
    ASSUME NEW d \in Seq(Symbols)
    PROVE  Decode(d) \in Seq(Symbols)
BY CpType, JoinFacts, YaFacts DEF Decode
-----------------------------------------------------------------------------
\* A loop that does not tell two bytes apart does not see the decoder.
LEMMA SameAfterCp ==
    ASSUME NEW V, NEW step, IsStep(step, V, Symbols), NEW base \in V, NEW d \in Seq(Symbols),
           \A v \in V : step[<<v, IAC>>] = step[<<v, ya>>]
    PROVE  Fold(step, base, Cp1251(d)) = Fold(step, base, d)
<1> DEFINE P == {r \in Seq(Symbols) : Fold(step, base, Cp1251(r)) = Fold(step, base, r)}
<1>1. <<>> \in P
  BY CpFacts, EmptySeq
<1>2. ASSUME NEW r \in Seq(Symbols), r \in P, NEW b \in Symbols PROVE Append(r, b) \in P
  <2> DEFINE c == Cp1251(r)
             l == Letter(b)
  <2>1. c \in Seq(Symbols) /\ l \in Symbols /\ Cp1251(Append(r, b)) = Append(c, l)
    BY CpType, CpFacts
  <2>2. Fold(step, base, c) = Fold(step, base, r)
    BY <1>2
  <2>3. Fold(step, base, r) \in V
    BY FoldType
  <2>4. step[<<Fold(step, base, r), l>>] = step[<<Fold(step, base, r), b>>]
    BY <2>3 DEF Letter
  <2> HIDE DEF c, l
  <2>5. Fold(step, base, Append(c, l)) = step[<<Fold(step, base, c), l>>]
    BY <2>1, FoldAppend
  <2>6. Fold(step, base, Append(r, b)) = step[<<Fold(step, base, r), b>>]
    BY FoldAppend
  <2>7. Append(r, b) \in Seq(Symbols)
    OBVIOUS
  <2> QED
    BY <2>1, <2>2, <2>4, <2>5, <2>6, <2>7
<1>3. Seq(Symbols) \subseteq P
  <2> HIDE DEF P
  <2> QED BY <1>1, <1>2, SeqInduction
<1> QED
  BY <1>3

\* Nor does a loop to which a CR in front of an LF is nothing see the CRs go.
LEMMA SameAfterJoin ==
    ASSUME NEW V, NEW step, IsStep(step, V, Symbols), NEW base \in V, NEW d \in Seq(Symbols),
           \A v \in V : step[<<step[<<v, CR>>], LF>>] = step[<<v, LF>>]
    PROVE  Fold(step, base, JoinCRLF(d)) = Fold(step, base, d)
<1> DEFINE P == {r \in Seq(Symbols) : Fold(step, base, JoinCRLF(r)) = Fold(step, base, r)}
<1>1. <<>> \in P
  BY JoinFacts, EmptySeq
<1>2. ASSUME NEW r \in Seq(Symbols), r \in P, NEW b \in Symbols PROVE Append(r, b) \in P
  <2> DEFINE j == JoinCRLF(r)
  <2>1. j \in Seq(Symbols) /\ JoinCRLF(Append(r, b)) = Joined(j, b)
    BY JoinFacts
  <2>2. Fold(step, base, j) = Fold(step, base, r)
    BY <1>2
  <2> HIDE DEF j
  <2>3. Fold(step, base, Append(r, b)) = step[<<Fold(step, base, r), b>>]
    BY FoldAppend
  <2>4. Append(r, b) \in Seq(Symbols)
    OBVIOUS
  <2>5. Fold(step, base, Joined(j, b)) = step[<<Fold(step, base, j), b>>]
    <3>1. CASE b = LF /\ j # <<>> /\ Last(j) = CR
      <4> DEFINE q == Front(j)
      <4>1. q \in Seq(Symbols) /\ j = Append(q, CR)
        BY <2>1, <3>1, Peel
      <4>2. Joined(j, b) = Append(q, LF)
        BY <3>1 DEF Joined
      <4> HIDE DEF q
      <4>3. Fold(step, base, q) \in V
        BY <4>1, FoldType
      <4>4. Fold(step, base, Append(q, CR)) = step[<<Fold(step, base, q), CR>>]
            /\ Fold(step, base, Append(q, LF)) = step[<<Fold(step, base, q), LF>>]
        BY <4>1, FoldAppend, TextBytes
      <4>5. step[<<step[<<Fold(step, base, q), CR>>], LF>>] = step[<<Fold(step, base, q), LF>>]
        BY <4>3
      <4> QED BY <3>1, <4>1, <4>2, <4>4, <4>5
    <3>2. CASE ~(b = LF /\ j # <<>> /\ Last(j) = CR)
      <4>1. Joined(j, b) = Append(j, b)
        BY <3>2 DEF Joined
      <4>2. Fold(step, base, Append(j, b)) = step[<<Fold(step, base, j), b>>]
        BY <2>1, FoldAppend
      <4> QED BY <4>1, <4>2
    <3> QED BY <3>1, <3>2
  <2> QED
    BY <2>1, <2>2, <2>3, <2>4, <2>5 DEF j
<1>3. Seq(Symbols) \subseteq P
  <2> HIDE DEF P
  <2> QED BY <1>1, <1>2, SeqInduction
<1> QED
  BY <1>3

\* Nor does one that does not tell the letter's case.
LEMMA SameAfterYa ==
    ASSUME NEW V, NEW step, IsStep(step, V, Symbols), NEW base \in V, NEW d \in Seq(Symbols),
           \A v \in V : step[<<v, YA>>] = step[<<v, ya>>]
    PROVE  Fold(step, base, FixYa(d)) = Fold(step, base, d)
<1> DEFINE P == {r \in Seq(Symbols) : Fold(step, base, FixYa(r)) = Fold(step, base, r)}
<1>1. <<>> \in P
  BY YaFacts, EmptySeq
<1>2. ASSUME NEW r \in Seq(Symbols), r \in P, NEW b \in Symbols PROVE Append(r, b) \in P
  <2> DEFINE y == FixYa(r)
             l == IF b = YA /\ y # <<>> /\ IsLower(Last(y)) THEN ya ELSE b
  <2>1. y \in Seq(Symbols) /\ FixYa(Append(r, b)) = Append(y, l) /\ l \in Symbols
    BY YaFacts, TextBytes DEF YaFixed
  <2>2. Fold(step, base, y) = Fold(step, base, r)
    BY <1>2
  <2>3. Fold(step, base, r) \in V
    BY FoldType
  <2>4. step[<<Fold(step, base, r), l>>] = step[<<Fold(step, base, r), b>>]
    BY <2>3
  <2> HIDE DEF y, l
  <2>5. Fold(step, base, Append(y, l)) = step[<<Fold(step, base, y), l>>]
    BY <2>1, FoldAppend
  <2>6. Fold(step, base, Append(r, b)) = step[<<Fold(step, base, r), b>>]
    BY FoldAppend
  <2>7. Append(r, b) \in Seq(Symbols)
    OBVIOUS
  <2> QED
    BY <2>1, <2>2, <2>4, <2>5, <2>6, <2>7
<1>3. Seq(Symbols) \subseteq P
  <2> HIDE DEF P
  <2> QED BY <1>1, <1>2, SeqInduction
<1> QED
  BY <1>3

\* All three together: such a loop sees no difference between text and bytes.
LEMMA SameAfterDecode ==
    ASSUME NEW V, NEW step, IsStep(step, V, Symbols), NEW base \in V, NEW d \in Seq(Symbols),
           \A v \in V : /\ step[<<v, IAC>>] = step[<<v, ya>>]
                        /\ step[<<v, YA>>] = step[<<v, ya>>]
                        /\ step[<<step[<<v, CR>>], LF>>] = step[<<v, LF>>]
    PROVE  Fold(step, base, Decode(d)) = Fold(step, base, d)
<1> DEFINE c == Cp1251(d)
           j == JoinCRLF(c)
<1>1. c \in Seq(Symbols) /\ j \in Seq(Symbols) /\ Decode(d) = FixYa(j)
  BY CpType, JoinFacts DEF Decode
<1>2. Fold(step, base, c) = Fold(step, base, d)
  BY SameAfterCp
<1> HIDE DEF c
<1>3. Fold(step, base, j) = Fold(step, base, c)
  BY <1>1, SameAfterJoin
<1> HIDE DEF j
<1>4. Fold(step, base, FixYa(j)) = Fold(step, base, j)
  BY <1>1, SameAfterYa
<1> QED
  BY <1>1, <1>2, <1>3, <1>4

-----------------------------------------------------------------------------
(***************************************************************************)
(* Where a text may be cut.                                                *)
(***************************************************************************)
\* The ends of a text when CR LF is replaced at its end.
LEMMA JoinedEnds ==
    ASSUME NEW o \in Seq(Symbols), NEW r \in Symbols
    PROVE  /\ Joined(o, r) \in Seq(Symbols) /\ Joined(o, r) # <<>> /\ Last(Joined(o, r)) = r
           /\ Head(Joined(o, r)) \in {IF o = <<>> THEN r ELSE Head(o), LF}
<1>1. CASE r = LF /\ o # <<>> /\ Last(o) = CR
  <2> DEFINE q == Front(o)
  <2>1. q \in Seq(Symbols) /\ o = Append(q, CR) /\ Joined(o, r) = Append(q, LF)
    BY <1>1, Peel DEF Joined
  <2> HIDE DEF q
  <2>2. Head(o) = (IF q = <<>> THEN CR ELSE Head(q)) /\ Head(Append(q, LF)) = (IF q = <<>> THEN LF ELSE Head(q))
    BY <2>1, HeadTailAppend
  <2>3. Append(q, LF) \in Seq(Symbols) /\ Append(q, LF) # <<>> /\ Last(Append(q, LF)) = LF
    BY <2>1, TextBytes, PeelAppend
  <2> QED BY <1>1, <2>1, <2>2, <2>3
<1>2. CASE ~(r = LF /\ o # <<>> /\ Last(o) = CR)
  <2>1. Joined(o, r) = Append(o, r)
    BY <1>2 DEF Joined
  <2>2. Head(Append(o, r)) = IF o = <<>> THEN r ELSE Head(o)
    BY HeadTailAppend
  <2> QED BY <2>1, <2>2, PeelAppend
<1> QED
  BY <1>1, <1>2

\* Replacing CR LF keeps a text's last symbol, and its first but for a CR.
LEMMA JoinEnds ==
    ASSUME NEW d \in Seq(Symbols), d # <<>>
    PROVE  /\ JoinCRLF(d) # <<>> /\ Last(JoinCRLF(d)) = Last(d)
           /\ Head(JoinCRLF(d)) \in {Head(d), LF}
<1> DEFINE P == {r \in Seq(Symbols) : r # <<>> =>
                    /\ JoinCRLF(r) # <<>> /\ Last(JoinCRLF(r)) = Last(r)
                    /\ Head(JoinCRLF(r)) \in {Head(r), LF}}
<1>1. <<>> \in P
  BY EmptySeq
<1>2. ASSUME NEW r \in Seq(Symbols), r \in P, NEW b \in Symbols PROVE Append(r, b) \in P
  <2> DEFINE j == JoinCRLF(r)
             t == Append(r, b)
  <2>1. j \in Seq(Symbols) /\ JoinCRLF(t) = Joined(j, b) /\ (r = <<>> => j = <<>>)
    BY JoinFacts
  <2>2. t \in Seq(Symbols) /\ Last(t) = b /\ Head(t) = IF r = <<>> THEN b ELSE Head(r)
    BY PeelAppend, HeadTailAppend
  <2>3. r # <<>> => j # <<>> /\ Head(j) \in {Head(r), LF}
    BY <1>2
  <2> HIDE DEF j, t
  <2>4. /\ Joined(j, b) # <<>> /\ Last(Joined(j, b)) = b
        /\ Head(Joined(j, b)) \in {IF j = <<>> THEN b ELSE Head(j), LF}
    BY <2>1, JoinedEnds
  <2> QED
    BY <2>1, <2>2, <2>3, <2>4 DEF t
<1>3. Seq(Symbols) \subseteq P
  <2> HIDE DEF P
  <2> QED BY <1>1, <1>2, SeqInduction
<1> QED
  BY <1>3

\* CR LF is replaced in two texts as in one, unless the cut is inside it.
LEMMA JoinConcat ==
    ASSUME NEW c \in Seq(Symbols), NEW d \in Seq(Symbols),
           ~(c # <<>> /\ d # <<>> /\ Last(c) = CR /\ Head(d) = LF)
    PROVE  JoinCRLF(c \o d) = JoinCRLF(c) \o JoinCRLF(d)
<1> DEFINE P == {r \in Seq(Symbols) :
                    ~(c # <<>> /\ r # <<>> /\ Last(c) = CR /\ Head(r) = LF) =>
                        JoinCRLF(c \o r) = JoinCRLF(c) \o JoinCRLF(r)}
           k == JoinCRLF(c)
<1>0. k \in Seq(Symbols) /\ (c = <<>> => k = <<>>) /\ (c # <<>> => k # <<>> /\ Last(k) = Last(c))
  BY JoinFacts, JoinEnds
<1>1. <<>> \in P
  <2>1. c \o <<>> = c /\ JoinCRLF(<<>>) = <<>> /\ <<>> \in Seq(Symbols) /\ k \o <<>> = k
    <3> HIDE DEF k
    <3> QED BY <1>0, JoinFacts, EmptySeq, ConcatEmptySeq
  <2> QED BY <2>1
<1>2. ASSUME NEW r \in Seq(Symbols), r \in P, NEW b \in Symbols PROVE Append(r, b) \in P
  <2> DEFINE t == Append(r, b)
             j == JoinCRLF(r)
  <2>1. /\ t \in Seq(Symbols) /\ t # <<>> /\ Head(t) = (IF r = <<>> THEN b ELSE Head(r))
        /\ c \o t = Append(c \o r, b) /\ c \o r \in Seq(Symbols)
    <3>1. t \in Seq(Symbols) /\ t # <<>> /\ Head(t) = (IF r = <<>> THEN b ELSE Head(r))
      BY PeelAppend, HeadTailAppend
    <3>2. c \o t = Append(c \o r, b) /\ c \o r \in Seq(Symbols)
      BY ConcatAppend
    <3> QED BY <3>1, <3>2
  <2> SUFFICES ASSUME ~(c # <<>> /\ Last(c) = CR /\ Head(t) = LF)
               PROVE  JoinCRLF(c \o t) = k \o JoinCRLF(t)
    BY <2>1
  <2>2. j \in Seq(Symbols) /\ JoinCRLF(t) = Joined(j, b)
        /\ (r = <<>> => j = <<>>) /\ (r # <<>> => j # <<>> /\ Last(j) = Last(r))
    BY JoinFacts, JoinEnds
  <2>3. JoinCRLF(c \o t) = Joined(JoinCRLF(c \o r), b)
    <3>1. \A q \in Seq(Symbols) : JoinCRLF(Append(q, b)) = Joined(JoinCRLF(q), b)
      BY JoinFacts
    <3> QED BY <2>1, <3>1
  <2>4. JoinCRLF(c \o r) = k \o j
    BY <1>2, <2>1
  <2> HIDE DEF k, j, t
  <2>5. Joined(k \o j, b) = k \o Joined(j, b)
    <3>1. CASE r = <<>>
      <4>1. j = <<>> /\ k \o j = k
        BY <1>0, <2>2, <3>1, ConcatEmptySeq
      <4>2. Joined(j, b) = Append(<<>>, b) /\ Append(<<>>, b) = <<b>>
        BY <4>1, One DEF Joined
      <4>3. ~(b = LF /\ k # <<>> /\ Last(k) = CR)
        BY <1>0, <2>1, <3>1
      <4>4. Joined(k, b) = Append(k, b)
        BY <4>3 DEF Joined
      <4>5. k \o <<b>> = Append(k, b)
        BY <1>0, AppendOne
      <4> QED BY <4>1, <4>2, <4>4, <4>5
    <3>2. CASE r # <<>>
      <4>1. j # <<>> /\ k \o j # <<>> /\ Last(k \o j) = Last(j) /\ Front(k \o j) = k \o Front(j)
            /\ Front(j) \in Seq(Symbols)
        BY <1>0, <2>2, <3>2, ConcatLast, Peel
      <4>2. \A q \in Seq(Symbols), x \in Symbols : k \o Append(q, x) = Append(k \o q, x)
        BY <1>0, ConcatAppend
      <4> QED BY <2>2, <4>1, <4>2, TextBytes DEF Joined
    <3> QED BY <3>1, <3>2
  <2> QED
    BY <2>2, <2>3, <2>4, <2>5
<1>3. Seq(Symbols) \subseteq P
  <2> HIDE DEF P
  <2> QED BY <1>1, <1>2, SeqInduction
<1> QED
  BY <1>3

\* The letter artifact is replaced in two texts as in one, unless a lower-case
\* letter and the letter of the artifact meet at the cut.
LEMMA YaConcat ==
    ASSUME NEW c \in Seq(Symbols), NEW d \in Seq(Symbols),
           ~(FixYa(c) # <<>> /\ d # <<>> /\ IsLower(Last(FixYa(c))) /\ Head(d) = YA)
    PROVE  FixYa(c \o d) = FixYa(c) \o FixYa(d)
<1> DEFINE k == FixYa(c)
           P == {r \in Seq(Symbols) :
                    ~(k # <<>> /\ r # <<>> /\ IsLower(Last(k)) /\ Head(r) = YA) =>
                        FixYa(c \o r) = k \o FixYa(r)}
<1>0. k \in Seq(Symbols)
  BY YaFacts
<1>1. <<>> \in P
  <2>1. c \o <<>> = c /\ FixYa(<<>>) = <<>> /\ <<>> \in Seq(Symbols) /\ k \o <<>> = k
    <3> HIDE DEF k
    <3> QED BY <1>0, YaFacts, EmptySeq, ConcatEmptySeq
  <2> QED BY <2>1
<1>2. ASSUME NEW r \in Seq(Symbols), r \in P, NEW b \in Symbols PROVE Append(r, b) \in P
  <2> DEFINE t == Append(r, b)
             y == FixYa(r)
  <2>1. /\ t \in Seq(Symbols) /\ t # <<>> /\ Head(t) = (IF r = <<>> THEN b ELSE Head(r))
        /\ c \o t = Append(c \o r, b) /\ c \o r \in Seq(Symbols)
    <3>1. t \in Seq(Symbols) /\ t # <<>> /\ Head(t) = (IF r = <<>> THEN b ELSE Head(r))
      BY PeelAppend, HeadTailAppend
    <3>2. c \o t = Append(c \o r, b) /\ c \o r \in Seq(Symbols)
      BY ConcatAppend
    <3> QED BY <3>1, <3>2
  <2> SUFFICES ASSUME ~(k # <<>> /\ IsLower(Last(k)) /\ Head(t) = YA)
               PROVE  FixYa(c \o t) = k \o FixYa(t)
    BY <2>1
  <2>2. y \in Seq(Symbols) /\ FixYa(t) = YaFixed(y, b) /\ (r = <<>> => y = <<>>)
    BY YaFacts
  <2>3. FixYa(c \o t) = YaFixed(FixYa(c \o r), b)
    <3>1. \A q \in Seq(Symbols) : FixYa(Append(q, b)) = YaFixed(FixYa(q), b)
      BY YaFacts
    <3> QED BY <2>1, <3>1
  <2>4. FixYa(c \o r) = k \o y
    BY <1>2, <2>1
  <2>6. r # <<>> => y # <<>>
    <3> SUFFICES ASSUME r # <<>> PROVE y # <<>>
      OBVIOUS
    <3>1. Front(r) \in Seq(Symbols) /\ Last(r) \in Symbols /\ r = Append(Front(r), Last(r))
      BY Peel
    <3>2. y = YaFixed(FixYa(Front(r)), Last(r)) /\ FixYa(Front(r)) \in Seq(Symbols)
      BY <3>1, YaFacts
    <3>3. \A q \in Seq(Symbols), e \in Symbols : Append(q, e) # <<>>
      BY PeelAppend
    <3> HIDE DEF y
    <3> QED BY <3>1, <3>2, <3>3, TextBytes DEF YaFixed
  <2> HIDE DEF k, y, t
  <2>5. YaFixed(k \o y, b) = k \o YaFixed(y, b)
    <3>1. \A e \in Symbols : k \o Append(y, e) = Append(k \o y, e)
      BY <1>0, <2>2, ConcatAppend
    <3>2. CASE r = <<>>
      <4>1. y = <<>> /\ k \o y = k
        BY <1>0, <2>2, <3>2, ConcatEmptySeq
      <4>2. ~(b = YA /\ k # <<>> /\ IsLower(Last(k)))
        BY <2>1, <3>2
      <4>3. YaFixed(k \o y, b) = Append(k \o y, b)
        BY <4>1, <4>2 DEF YaFixed
      <4>4. YaFixed(y, b) = Append(y, b)
        BY <4>1 DEF YaFixed
      <4> QED BY <3>1, <4>3, <4>4
    <3>3. CASE r # <<>>
      <4>1. y # <<>> /\ k \o y # <<>> /\ Last(k \o y) = Last(y)
        BY <1>0, <2>2, <2>6, <3>3, ConcatLast
      <4> QED BY <3>1, <4>1, TextBytes DEF YaFixed
    <3> QED BY <3>2, <3>3
  <2> QED
    BY <2>2, <2>3, <2>4, <2>5
<1>3. Seq(Symbols) \subseteq P
  <2> HIDE DEF P
  <2> QED BY <1>1, <1>2, SeqInduction
<1> QED
  BY <1>3

\* CP1251 of two reads is CP1251 of each.
LEMMA CpConcat ==
    ASSUME NEW c \in Seq(Symbols), NEW d \in Seq(Symbols)
    PROVE  Cp1251(c \o d) = Cp1251(c) \o Cp1251(d)
<1> DEFINE u == Cp1251(c)
           v == Cp1251(d)
           w == Cp1251(c \o d)
<1>1. c \o d \in Seq(Symbols) /\ Len(c \o d) = Len(c) + Len(d) /\ Len(c) \in Nat /\ Len(d) \in Nat
      /\ \A i \in 1..(Len(c) + Len(d)) : (c \o d)[i] = IF i <= Len(c) THEN c[i] ELSE d[i - Len(c)]
  BY ConcatProperties, LenProperties
<1>2. u \in Seq(Symbols) /\ Len(u) = Len(c) /\ \A i \in 1..Len(c) : u[i] = Letter(c[i])
  BY CpType
<1>3. v \in Seq(Symbols) /\ Len(v) = Len(d) /\ \A i \in 1..Len(d) : v[i] = Letter(d[i])
  BY CpType
<1>4. w \in Seq(Symbols) /\ Len(w) = Len(c \o d) /\ \A i \in 1..Len(c \o d) : w[i] = Letter((c \o d)[i])
  BY <1>1, CpType
<1> HIDE DEF u, v, w
<1>5. u \o v \in Seq(Symbols) /\ Len(u \o v) = Len(c) + Len(d)
      /\ \A i \in 1..(Len(c) + Len(d)) : (u \o v)[i] = IF i <= Len(c) THEN u[i] ELSE v[i - Len(c)]
  <2>1. u \in Seq(Symbols) /\ v \in Seq(Symbols)
    BY <1>2, <1>3
  <2>2. u \o v \in Seq(Symbols) /\ Len(u \o v) = Len(u) + Len(v)
        /\ \A i \in 1..(Len(u) + Len(v)) : (u \o v)[i] = IF i <= Len(u) THEN u[i] ELSE v[i - Len(u)]
    BY <2>1, ConcatProperties
  <2>3. Len(u) = Len(c) /\ Len(v) = Len(d)
    BY <1>2, <1>3
  <2> QED BY <2>2, <2>3
<1>6. \A i \in 1..Len(w) : w[i] = (u \o v)[i]
  <2> SUFFICES ASSUME NEW i \in 1..(Len(c) + Len(d)) PROVE w[i] = (u \o v)[i]
    BY <1>1, <1>4
  <2>1. CASE i <= Len(c)
    <3>1. i \in 1..Len(c)
      BY <1>1, <2>1
    <3> QED BY <1>1, <1>2, <1>4, <1>5, <2>1, <3>1
  <2>2. CASE ~(i <= Len(c))
    <3>1. i - Len(c) \in 1..Len(d)
      BY <1>1, <2>2
    <3> QED BY <1>1, <1>3, <1>4, <1>5, <2>2, <3>1
  <2> QED BY <2>1, <2>2
<1>7. w = u \o v
  BY <1>1, <1>4, <1>5, <1>6, SeqEqual
<1> QED
  BY <1>7 DEF u, v, w

\* CP1251 keeps a text's ends, letter by letter.
LEMMA CpEnds ==
    ASSUME NEW d \in Seq(Symbols)
    PROVE  /\ (d = <<>>) <=> (Cp1251(d) = <<>>)
           /\ d # <<>> => /\ Last(Cp1251(d)) = Letter(Last(d))
                          /\ Head(Cp1251(d)) = Letter(Head(d))
<1> DEFINE u == Cp1251(d)
<1>1. u \in Seq(Symbols) /\ Len(u) = Len(d) /\ \A i \in 1..Len(d) : u[i] = Letter(d[i])
  BY CpType
<1> HIDE DEF u
<1>2. Len(d) \in Nat /\ (d = <<>> <=> Len(d) = 0) /\ (u = <<>> <=> Len(u) = 0)
  BY <1>1, EmptySeq, LenProperties
<1>3. d # <<>> => Last(d) = d[Len(d)] /\ Last(u) = u[Len(u)] /\ Head(d) = d[1] /\ Head(u) = u[1]
  BY <1>1, <1>2 DEF Last
<1>4. d # <<>> => 1 \in 1..Len(d) /\ Len(d) \in 1..Len(d)
  BY <1>2
<1>5. /\ (d = <<>>) <=> (u = <<>>)
      /\ d # <<>> => Last(u) = Letter(Last(d)) /\ Head(u) = Letter(Head(d))
  BY <1>1, <1>2, <1>3, <1>4
<1> QED
  BY <1>5 DEF u

\* One big read and two reads give the same text, unless the cut is inside a
\* pair that the decoder looks at.
LEMMA DecodeConcat ==
    ASSUME NEW c \in Seq(Symbols), NEW d \in Seq(Symbols), ~Splits(c, d)
    PROVE  Decode(c \o d) = Decode(c) \o Decode(d)
<1> DEFINE u == Cp1251(c)
           v == Cp1251(d)
           j == JoinCRLF(u)
           k == JoinCRLF(v)
<1>1. u \in Seq(Symbols) /\ v \in Seq(Symbols) /\ Cp1251(c \o d) = u \o v
  BY CpType, CpConcat
<1>2. Decode(c) = FixYa(j) /\ Decode(d) = FixYa(k) /\ Decode(c \o d) = FixYa(JoinCRLF(u \o v))
  BY <1>1 DEF Decode
<1>3. /\ (c = <<>>) <=> (u = <<>>)
      /\ (d = <<>>) <=> (v = <<>>)
      /\ c # <<>> => Last(u) = Letter(Last(c))
      /\ d # <<>> => Head(v) = Letter(Head(d))
  BY CpEnds
<1> HIDE DEF u, v
<1>4. JoinCRLF(u \o v) = j \o k
  <2>1. ~(u # <<>> /\ v # <<>> /\ Last(u) = CR /\ Head(v) = LF)
    BY <1>3, TextBytes DEF Splits, Letter
  <2> QED BY <1>1, <2>1, JoinConcat
<1>5. /\ j \in Seq(Symbols) /\ k \in Seq(Symbols)
      /\ u = <<>> => j = <<>>
      /\ v = <<>> => k = <<>>
      /\ v # <<>> => Head(k) \in {Head(v), LF}
  BY <1>1, JoinFacts, JoinEnds
<1> HIDE DEF j, k
<1>6. FixYa(j \o k) = FixYa(j) \o FixYa(k)
  <2>1. ~(FixYa(j) # <<>> /\ k # <<>> /\ IsLower(Last(FixYa(j))) /\ Head(k) = YA)
    <3> SUFFICES ASSUME FixYa(j) # <<>>, k # <<>>, IsLower(Last(FixYa(j))), Head(k) = YA PROVE FALSE
      OBVIOUS
    <3>1. c # <<>>
      <4>1. c = <<>> => FixYa(j) = <<>>
        BY <1>3, <1>5, YaFacts
      <4> QED BY <4>1
    <3>2. d # <<>> /\ Head(v) = YA
      BY <1>3, <1>5, TextBytes
    <3>3. Head(d) = YA
      BY <1>3, <3>2, TextBytes DEF Letter
    <3> QED BY <1>2, <3>1, <3>2, <3>3 DEF Splits
  <2> QED BY <1>5, <2>1, YaConcat
<1> QED
  BY <1>2, <1>4, <1>6
-----------------------------------------------------------------------------
(***************************************************************************)
(* Texts up to CRs in front of an LF and the case of the letter.           *)
(***************************************************************************)
Looses == [out : Seq(Symbols), crs : Seq({CR})]

\* Loose is a fold over symbols.
LEMMA LooseStepFacts ==
    /\ IsStep(LooseStep, Looses, Symbols)
    /\ \A l \in Looses, r \in Symbols : LooseStep[<<l, r>>] = Loosened(l, r)
    /\ [out |-> <<>>, crs |-> <<>>] \in Looses
<1>1. ASSUME NEW l \in Looses, NEW r \in Symbols PROVE Loosened(l, r) \in Looses
  <2>1. l.out \in Seq(Symbols) /\ l.crs \in Seq({CR}) /\ l = [out |-> l.out, crs |-> l.crs]
    BY DEF Looses
  <2>2. PICK o \in Seq(Symbols), q \in Seq({CR}) : l = [out |-> o, crs |-> q]
    BY <2>1
  <2>3. q \in Seq(Symbols)
    BY TextBytes, SeqMonotonic
  <2>4. Append(q, CR) \in Seq({CR}) /\ Append(o, LF) \in Seq(Symbols) /\ <<>> \in Seq({CR})
    BY TextBytes, EmptySeq
  <2>5. o \o q \in Seq(Symbols)
    BY <2>3, ConcatProperties
  <2>6. \A e \in Symbols : Append(o \o q, e) \in Seq(Symbols)
    BY <2>5
  <2> QED BY <2>2, <2>4, <2>6, TextBytes DEF Loosened, Looses
<1>2. \A p \in Looses \X Symbols : Loosened(p[1], p[2]) \in Looses
  BY <1>1
<1>3. IsStep(LooseStep, Looses, Symbols)
  BY <1>2 DEF LooseStep, IsStep, Looses
<1>4. \A l \in Looses, r \in Symbols : LooseStep[<<l, r>>] = Loosened(l, r)
  BY DEF LooseStep, Looses
<1>5. <<>> \in Seq(Symbols) /\ <<>> \in Seq({CR})
  BY EmptySeq
<1> QED
  BY <1>3, <1>4, <1>5 DEF Looses

\* To Loose the three passes of the decoder change nothing: the byte 255 counts
\* as the letter, a CR in front of an LF as none, and the letter's case as lower.
LEMMA LooseDecode ==
    ASSUME NEW l \in Looses, NEW d \in Seq(Symbols)
    PROVE  Fold(LooseStep, l, Decode(d)) = Fold(LooseStep, l, Cp1251(d))
<1> DEFINE c == Cp1251(d)
           j == JoinCRLF(c)
<1>1. c \in Seq(Symbols) /\ j \in Seq(Symbols) /\ Decode(d) = FixYa(j)
  BY CpType, JoinFacts DEF Decode
<1> HIDE DEF c
<1>2. \A v \in Looses : LooseStep[<<v, YA>>] = LooseStep[<<v, ya>>]
  <2> SUFFICES ASSUME NEW v \in Looses PROVE Loosened(v, YA) = Loosened(v, ya)
    BY LooseStepFacts, TextBytes
  <2> QED BY TextBytes DEF Loosened
<1>3. \A v \in Looses : LooseStep[<<LooseStep[<<v, CR>>], LF>>] = LooseStep[<<v, LF>>]
  <2> SUFFICES ASSUME NEW v \in Looses PROVE LooseStep[<<LooseStep[<<v, CR>>], LF>>] = LooseStep[<<v, LF>>]
    OBVIOUS
  <2>1. LooseStep[<<v, CR>>] = Loosened(v, CR) /\ LooseStep[<<v, LF>>] = Loosened(v, LF)
        /\ Loosened(v, CR) \in Looses
    BY LooseStepFacts, TextBytes DEF IsStep
  <2>2. LooseStep[<<Loosened(v, CR), LF>>] = Loosened(Loosened(v, CR), LF)
    BY <2>1, LooseStepFacts, TextBytes
  <2>3. Loosened(Loosened(v, CR), LF) = Loosened(v, LF)
    <3>1. PICK o \in Seq(Symbols), q \in Seq({CR}) : v = [out |-> o, crs |-> q]
      BY DEF Looses
    <3>2. Loosened(v, CR) = [out |-> o, crs |-> Append(q, CR)]
      BY <3>1, TextBytes DEF Loosened
    <3> QED BY <3>1, <3>2, TextBytes DEF Loosened
  <2> QED BY <2>1, <2>2, <2>3
<1>4. Fold(LooseStep, l, j) = Fold(LooseStep, l, c)
  BY <1>1, <1>3, LooseStepFacts, SameAfterJoin
<1> HIDE DEF j
<1>5. Fold(LooseStep, l, FixYa(j)) = Fold(LooseStep, l, j)
  BY <1>1, <1>2, LooseStepFacts, SameAfterYa
<1> QED
  BY <1>1, <1>4, <1>5 DEF c
-----------------------------------------------------------------------------
\* The text of all reads is, to Loose, the bytes as CP1251 has them.
TextInv ==
    /\ text \in Seq(Symbols)
    /\ Loose(text) = Loose(Cp1251(passed))
    /\ splitPair \/ text = Decode(passed)

\* What one Read does to the text.
LEMMA ReadDecodes ==
    ASSUME TextInv, passed \in Seq(Symbols), NEW o \in Seq(Symbols),
           passed' = passed \o o, text' = text \o Decode(o),
           splitPair' = (splitPair \/ Splits(passed, o))
    PROVE  TextInv'
<1> DEFINE t == Decode(o)
           base == [out |-> <<>>, crs |-> <<>>]
           c == Cp1251(passed)
           e == Cp1251(o)
<1>1. t \in Seq(Symbols) /\ text \in Seq(Symbols) /\ text' \in Seq(Symbols)
  BY DecodeType DEF TextInv
<1>2. c \in Seq(Symbols) /\ e \in Seq(Symbols) /\ Cp1251(passed') = c \o e
  BY CpType, CpConcat
<1>3. splitPair' \/ text' = Decode(passed')
  BY DecodeConcat DEF TextInv
<1>4. Fold(LooseStep, base, text) = Fold(LooseStep, base, c)
  BY DEF TextInv, Loose
<1> DEFINE l == Fold(LooseStep, base, c)
<1>5. base \in Looses /\ IsStep(LooseStep, Looses, Symbols)
  BY LooseStepFacts
<1>6. Loose(text') = Fold(LooseStep, base, text \o t) /\ Loose(Cp1251(passed')) = Fold(LooseStep, base, c \o e)
  BY <1>2 DEF Loose
<1> HIDE DEF base, c
<1>7. l \in Looses
  BY <1>2, <1>5, FoldType
<1>8. Fold(LooseStep, l, t) = Fold(LooseStep, l, e)
  <2> HIDE DEF l
  <2> QED BY <1>7, LooseDecode
<1> HIDE DEF t, e
<1>9. Fold(LooseStep, base, text \o t) = Fold(LooseStep, Fold(LooseStep, base, text), t)
  BY <1>1, <1>5, FoldConcat
<1>10. Fold(LooseStep, base, c \o e) = Fold(LooseStep, l, e)
  BY <1>2, <1>5, FoldConcat
<1> QED
  BY <1>1, <1>3, <1>4, <1>6, <1>8, <1>9, <1>10 DEF TextInv

\* Every step keeps TextInv: only readUpstream calls Decode.
LEMMA TextInvStep == FilterInv /\ TextInv /\ [Next]_vars => TextInv'
<1> SUFFICES ASSUME FilterInv, TextInv, [Next]_vars PROVE TextInv'
  OBVIOUS
<1>1. ASSUME UNCHANGED <<passed, text, splitPair>> PROVE TextInv'
  BY <1>1 DEF TextInv
<1>2. CASE Read
  <2>1. PICK n \in 1..(Len(Bytes(stream)) - pos) :
          LET f == Filter(state, SubSeq(Bytes(stream), pos + 1, pos + n)) IN
          /\ pos' = pos + n /\ state' = f.state /\ passed' = passed \o f.out
          /\ text' = text \o Decode(f.out) /\ splitPair' = (splitPair \/ Splits(passed, f.out))
    BY <1>2 DEF Read
  <2>2. stream' = stream
    BY <1>2 DEF Read
  <2> DEFINE f == Filter(state, SubSeq(Bytes(stream), pos + 1, pos + n))
  <2>3. f.out \in Seq(Symbols)
    BY <2>1, <2>2, ReadFilters
  <2> QED BY <2>1, <2>3, ReadDecodes, SoFarType
<1>3. CASE UpsertDelta
  BY <1>1, <1>3 DEF UpsertDelta, streamVars
<1>4. CASE GetLatest
  BY <1>1, <1>4 DEF GetLatest, streamVars
<1>5. CASE Release
  BY <1>1, <1>5 DEF Release, streamVars
<1>6. CASE UNCHANGED vars
  BY <1>1, <1>6 DEF vars, streamVars
<1> QED
  BY <1>2, <1>3, <1>4, <1>5, <1>6 DEF Next

\* No text at first.
LEMMA TextInvInit == Init => TextInv
<1> SUFFICES ASSUME Init PROVE TextInv
  OBVIOUS
<1>1. <<>> \in Seq(Symbols)
  BY EmptySeq
<1>2. Cp1251(<<>>) = <<>> /\ Decode(<<>>) = <<>>
  BY <1>1, CpFacts, JoinFacts, YaFacts DEF Decode
<1> QED
  BY <1>1, <1>2 DEF Init, TextInv

\* TextInv says it of the bytes; LooseDecode turns them into text.
LEMMA TextInvImplies == FilterInv /\ TextInv => TextIsWhole
<1> SUFFICES ASSUME FilterInv, TextInv PROVE TextIsWhole
  OBVIOUS
<1>1. passed \in Seq(Symbols)
  BY SoFarType
<1>2. Loose(Decode(passed)) = Loose(Cp1251(passed))
  BY <1>1, LooseDecode, LooseStepFacts DEF Loose
<1> QED
  BY <1>2 DEF TextInv, TextIsWhole

\* text.go, Decode of each read: the texts of the reads, one after the other,
\* are the text of all bytes read at once, unless a read ended inside a pair that
\* Decode looks at; and even then they differ only in CRs before an LF or in the
\* letter's case.
THEOREM TextOfReads == Spec => []TextIsWhole
<1>1. Init => FilterInv /\ TextInv
  BY FilterInvInit, TextInvInit
<1>2. (FilterInv /\ TextInv) /\ [Next]_vars => (FilterInv /\ TextInv)'
  BY FilterInvStep, TextInvStep
<1> QED
  BY <1>1, <1>2, TextInvImplies, PTL DEF Spec

-----------------------------------------------------------------------------
(***************************************************************************)
(* The prompts of a text.                                                  *)
(***************************************************************************)
\* The variables of the loop that removes color codes.
Colors == [out : Seq(Symbols), esc : BOOLEAN]
Uncolored == [out |-> <<>>, esc |-> FALSE]
Coloring(d) == Fold(StripStep, Uncolored, d)

\* The removal of color codes is a fold over symbols.
LEMMA StripStepType ==
    /\ IsStep(StripStep, Colors, Symbols)
    /\ \A c \in Colors, r \in Symbols : StripStep[<<c, r>>] = Stripped(c, r)
    /\ Uncolored \in Colors
<1>1. ASSUME NEW c \in Colors, NEW r \in Symbols PROVE Stripped(c, r) \in Colors
  <2>1. c.out \in Seq(Symbols)
    BY DEF Colors
  <2>2. Front(c.out) \in Seq(Symbols)
    <3>1. CASE c.out = <<>>
      <4>1. Len(<<>>) - 1 < 1 /\ Len(<<>>) - 1 \in Int
        BY EmptySeq
      <4>2. SubSeq(<<>>, 1, Len(<<>>) - 1) = <<>>
        BY <4>1, SubSeqEmpty
      <4> QED BY <3>1, <4>2, EmptySeq DEF Front
    <3>2. CASE c.out # <<>>
      BY <2>1, <3>2, Peel
    <3> QED BY <3>1, <3>2
  <2>3. Append(c.out, r) \in Seq(Symbols)
    BY <2>1
  <2> QED BY <2>2, <2>3 DEF Stripped, Colors
<1>2. \A p \in Colors \X Symbols : Stripped(p[1], p[2]) \in Colors
  BY <1>1
<1>3. IsStep(StripStep, Colors, Symbols)
  BY <1>2 DEF StripStep, IsStep, Colors
<1>4. \A c \in Colors, r \in Symbols : StripStep[<<c, r>>] = Stripped(c, r)
  BY DEF StripStep, Colors
<1>5. <<>> \in Seq(Symbols)
  BY EmptySeq
<1> QED
  BY <1>3, <1>4, <1>5 DEF Colors, Uncolored

\* The removal of color codes, with one symbol more.
LEMMA ColoringFacts ==
    ASSUME NEW d \in Seq(Symbols)
    PROVE  /\ Coloring(d) \in Colors /\ Coloring(<<>>) = Uncolored
           /\ \A r \in Symbols : Coloring(Append(d, r)) = Stripped(Coloring(d), r)
           /\ StripColors(d) = Coloring(d).out
<1>1. Coloring(d) \in Colors /\ Coloring(<<>>) = Uncolored
  BY StripStepType, FoldType, FoldEmpty DEF Coloring
<1>2. ASSUME NEW r \in Symbols PROVE Coloring(Append(d, r)) = Stripped(Coloring(d), r)
  <2>1. Coloring(Append(d, r)) = StripStep[<<Coloring(d), r>>]
    BY StripStepType, FoldAppend DEF Coloring
  <2> QED BY <1>1, <2>1, StripStepType
<1> QED
  BY <1>1, <1>2 DEF StripColors, Coloring, Uncolored

\* A pending color code is at the end of the text.
LEMMA PendingColor ==
    ASSUME NEW d \in Seq(Symbols)
    PROVE  LET c == Coloring(d) IN c.esc => c.out # <<>> /\ Last(c.out) = Esc
<1> DEFINE P == {r \in Seq(Symbols) :
                    Coloring(r).esc => Coloring(r).out # <<>> /\ Last(Coloring(r).out) = Esc}
<1>1. <<>> \in P
  BY ColoringFacts, EmptySeq DEF Uncolored
<1>2. ASSUME NEW r \in Seq(Symbols), r \in P, NEW b \in Symbols PROVE Append(r, b) \in P
  <2> DEFINE c == Coloring(r)
  <2>1. c \in Colors /\ Coloring(Append(r, b)) = Stripped(c, b)
    BY ColoringFacts
  <2> HIDE DEF c
  <2>2. Append(c.out, b) # <<>> /\ Last(Append(c.out, b)) = b
    BY <2>1, PeelAppend DEF Colors
  <2>3. Stripped(c, b).esc => Stripped(c, b).out # <<>> /\ Last(Stripped(c, b).out) = Esc
    BY <2>2 DEF Stripped
  <2>4. Append(r, b) \in Seq(Symbols)
    OBVIOUS
  <2> QED
    BY <2>1, <2>3, <2>4
<1>3. Seq(Symbols) \subseteq P
  <2> HIDE DEF P
  <2> QED BY <1>1, <1>2, SeqInduction
<1> QED
  BY <1>3
-----------------------------------------------------------------------------
\* The first half that a symbol may complete, if any; and the prompt it makes.
Pending == {<<>>} \union {<<r>> : r \in Symbols}
Prompts == {None} \union {<<r[2]>> : r \in Symbols}
Opens(r) == IF r[1] = "open" THEN <<r>> ELSE <<>>
Closes(pend, r) == pend # <<>> /\ r = Close(pend[1][2])
PromptOf(pend) == IF pend[1][2] = Overflow THEN None ELSE <<pend[1][2]>>

\* The search for prompts as a loop over a text without colors ...
Finds == [pend : Pending, prompt : Prompts]
FoundNext(q, r) ==
    [pend |-> Opens(r), prompt |-> IF Closes(q.pend, r) THEN PromptOf(q.pend) ELSE q.prompt]
FindStep == [p \in Finds \X Symbols |-> FoundNext(p[1], p[2])]
NothingFound == [pend |-> <<>>, prompt |-> None]

\* ... and over the bytes as they come.
Scans == [pend : Pending, esc : BOOLEAN, prompt : Prompts]
Scanned(z, r) ==
    [pend |-> IF r = Esc THEN (IF z.esc THEN <<>> ELSE z.pend)
              ELSE IF z.esc /\ r = ColorEnd THEN z.pend ELSE Opens(r),
     esc |-> (r = Esc),
     prompt |-> IF ~z.esc /\ Closes(z.pend, r) THEN PromptOf(z.pend) ELSE z.prompt]
ScanStep == [p \in Scans \X Symbols |-> Scanned(p[1], p[2])]
NothingScanned == [pend |-> <<>>, esc |-> FALSE, prompt |-> None]
Scan(d) == Fold(ScanStep, NothingScanned, d)

\* The halves of a prompt are neither color codes nor line ends.
LEMMA Kinds ==
    /\ \A r : r \in {CR, LF, YA, ya, IAC, Esc, ColorEnd} => r[1] # "open" /\ \A v : r # Close(v)
    /\ \A v : Close(v)[1] # "open"
    /\ Esc # ColorEnd
    /\ \A r \in {CR, LF, YA, ya, IAC} : r # Esc /\ r # ColorEnd
<1>1. ASSUME NEW v PROVE Close(v)[1] = "close"
  BY DEF Close
<1>2. /\ CR[1] = "CR" /\ LF[1] = "LF" /\ YA[1] = "YA" /\ ya[1] = "ya" /\ IAC[1] = "IAC"
      /\ Esc[1] = "esc" /\ ColorEnd[1] = "m"
  BY DEF CR, LF, YA, ya, IAC, Esc, ColorEnd
<1>3. ASSUME NEW r \in {CR, LF, YA, ya, IAC, Esc, ColorEnd} PROVE r[1] # "open" /\ r[1] # "close"
  BY <1>2
<1>4. Esc # ColorEnd /\ \A r \in {CR, LF, YA, ya, IAC} : r # Esc /\ r # ColorEnd
  BY DEF CR, LF, YA, ya, IAC, Esc, ColorEnd
<1> QED
  BY <1>1, <1>3, <1>4

\* The prompt that a pending first half makes.
LEMMA PendingFacts ==
    ASSUME NEW pend \in Pending
    PROVE  pend # <<>> => PromptOf(pend) \in Prompts /\ pend[1] \in Symbols /\ pend = <<pend[1]>>
BY DEF Pending, PromptOf, Prompts

\* A symbol opens a prompt or does not.
LEMMA OpensType ==
    ASSUME NEW r \in Symbols
    PROVE  Opens(r) \in Pending /\ (Opens(r) # <<>> <=> r[1] = "open")
           /\ (r[1] = "open" => Opens(r)[1] = r)
BY DEF Opens, Pending

\* The search in a text without colors is a fold over symbols.
LEMMA FindStepFacts ==
    /\ IsStep(FindStep, Finds, Symbols)
    /\ \A q \in Finds, r \in Symbols : FindStep[<<q, r>>] = FoundNext(q, r)
    /\ NothingFound \in Finds
<1>1. ASSUME NEW q \in Finds, NEW r \in Symbols PROVE FoundNext(q, r) \in Finds
  <2>1. q.pend \in Pending /\ q.prompt \in Prompts
    BY DEF Finds
  <2>2. Closes(q.pend, r) => PromptOf(q.pend) \in Prompts
    BY <2>1, PendingFacts DEF Closes
  <2> QED BY <2>1, <2>2, OpensType DEF FoundNext, Finds
<1>2. \A p \in Finds \X Symbols : FoundNext(p[1], p[2]) \in Finds
  BY <1>1
<1>3. IsStep(FindStep, Finds, Symbols)
  BY <1>2 DEF FindStep, IsStep
<1>4. \A q \in Finds, r \in Symbols : FindStep[<<q, r>>] = FoundNext(q, r)
  BY DEF FindStep
<1> QED
  BY <1>3, <1>4 DEF Finds, NothingFound, Pending, Prompts

\* The search in bytes is a fold over symbols.
LEMMA ScanStepFacts ==
    /\ IsStep(ScanStep, Scans, Symbols)
    /\ \A z \in Scans, r \in Symbols : ScanStep[<<z, r>>] = Scanned(z, r)
    /\ NothingScanned \in Scans
<1>1. ASSUME NEW z \in Scans, NEW r \in Symbols PROVE Scanned(z, r) \in Scans
  <2>1. z.pend \in Pending /\ z.prompt \in Prompts /\ <<>> \in Pending
    BY DEF Scans, Pending
  <2>2. Closes(z.pend, r) => PromptOf(z.pend) \in Prompts
    BY <2>1, PendingFacts DEF Closes
  <2> QED BY <2>1, <2>2, OpensType DEF Scanned, Scans
<1>2. \A p \in Scans \X Symbols : Scanned(p[1], p[2]) \in Scans
  BY <1>1
<1>3. IsStep(ScanStep, Scans, Symbols)
  BY <1>2 DEF ScanStep, IsStep
<1>4. \A z \in Scans, r \in Symbols : ScanStep[<<z, r>>] = Scanned(z, r)
  BY DEF ScanStep
<1> QED
  BY <1>3, <1>4 DEF Scans, NothingScanned, Pending, Prompts

\* The search in bytes, with one byte more.
LEMMA ScanFacts ==
    ASSUME NEW d \in Seq(Symbols)
    PROVE  /\ Scan(d) \in Scans /\ Scan(<<>>) = NothingScanned
           /\ \A r \in Symbols : Scan(Append(d, r)) = Scanned(Scan(d), r)
<1>1. Scan(d) \in Scans /\ Scan(<<>>) = NothingScanned
  BY ScanStepFacts, FoldType, FoldEmpty DEF Scan
<1>2. ASSUME NEW r \in Symbols PROVE Scan(Append(d, r)) = Scanned(Scan(d), r)
  <2>1. Scan(Append(d, r)) = ScanStep[<<Scan(d), r>>]
    BY ScanStepFacts, FoldAppend DEF Scan
  <2> QED BY <1>1, <2>1, ScanStepFacts
<1> QED
  BY <1>1, <1>2
-----------------------------------------------------------------------------
\* The last of some places.
LEMMA GreatestPlace ==
    ASSUME NEW n \in Nat, NEW T, T \subseteq 1..n, T # {}
    PROVE  Max(T) \in T /\ \A y \in T : y <= Max(T)
<1> DEFINE U == {n - x : x \in T}
<1>1. U \subseteq Nat /\ U # {}
  <2>1. ASSUME NEW x \in T PROVE n - x \in Nat
    <3>1. x \in 1..n
      OBVIOUS
    <3> QED BY <3>1
  <2>2. \E x \in T : n - x \in U
    OBVIOUS
  <2> QED BY <2>1, <2>2
<1>2. PICK u \in U : \A y \in U : u <= y
  <2> HIDE DEF U
  <2> QED BY <1>1, LeastNatural
<1>3. PICK x \in T : u = n - x
  BY <1>2
<1>4. ASSUME NEW y \in T PROVE x >= y
  <2>1. n - y \in U
    OBVIOUS
  <2>2. n - x <= n - y
    BY <1>2, <1>3, <2>1
  <2>3. x \in Int /\ y \in Int
    OBVIOUS
  <2> QED BY <2>2, <2>3
<1>5. \E m \in T : \A y \in T : m >= y
  BY <1>4
<1>6. Max(T) \in T /\ \A y \in T : Max(T) >= y
  BY <1>5 DEF Max
<1>7. \A y \in T : y \in Int
  OBVIOUS
<1> QED
  BY <1>6, <1>7

\* The first of some places.
LEMMA LeastPlace ==
    ASSUME NEW n \in Nat, NEW T, T \subseteq 1..n, T # {}
    PROVE  Min(T) \in T /\ \A y \in T : Min(T) <= y
<1>1. T \subseteq Nat
  OBVIOUS
<1>2. \E m \in T : \A y \in T : m <= y
  BY <1>1, LeastNatural
<1> QED
  BY <1>2 DEF Min

\* One more symbol completes a prompt or none.
LEMMA PromptAppend ==
    ASSUME NEW t \in Seq(Symbols), NEW r \in Symbols
    PROVE  ParsePrompt(Append(t, r)) =
             LET pend == IF t = <<>> THEN <<>> ELSE Opens(Last(t)) IN
             IF Closes(pend, r) THEN PromptOf(pend) ELSE ParsePrompt(t)
<1> DEFINE u == Append(t, r)
           pend == IF t = <<>> THEN <<>> ELSE Opens(Last(t))
           v == Last(t)[2]
<1>1. /\ u \in Seq(Symbols) /\ Len(u) = Len(t) + 1 /\ u[Len(t) + 1] = r /\ Len(t) \in Nat
      /\ \A i \in 1..Len(t) : u[i] = t[i]
  BY AppendProperties, LenProperties
<1>2. Last(t) = t[Len(t)] /\ (t = <<>> <=> Len(t) = 0)
  BY EmptySeq DEF Last
<1>3. Closes(pend, r) <=> Len(t) # 0 /\ t[Len(t)][1] = "open" /\ r = Close(t[Len(t)][2])
  <2>1. CASE t = <<>>
    BY <1>2, <2>1 DEF Closes
  <2>2. CASE t # <<>>
    <3>1. t[Len(t)] \in Symbols
      BY <1>1, <1>2, <2>2, ElementOfSeq
    <3> QED BY <1>2, <2>2, <3>1, OpensType DEF Closes
  <2> QED BY <2>1, <2>2
<1>4. Closes(pend, r) => pend[1] = t[Len(t)]
  <2>1. Closes(pend, r) => t # <<>> /\ t[Len(t)] \in Symbols /\ t[Len(t)][1] = "open"
    BY <1>1, <1>2, <1>3, ElementOfSeq
  <2> QED BY <1>2, <2>1, OpensType
<1> HIDE DEF u, pend
<1>5. PromptsIn(u) = PromptsIn(t) \union (IF Closes(pend, r) THEN {Len(t)} ELSE {})
  <2>1. ASSUME NEW i \in 1..(Len(u) - 1)
        PROVE  i \in PromptsIn(u) <=> i \in PromptsIn(t) \/ (Closes(pend, r) /\ i = Len(t))
    <3>1. i \in 1..Len(t) /\ u[i] = t[i]
      BY <1>1
    <3>2. CASE i = Len(t)
      <4>1. i \notin PromptsIn(t)
        BY <1>1, <3>2 DEF PromptsIn
      <4>2. i \in PromptsIn(u) <=> t[i][1] = "open" /\ r = Close(t[i][2])
        BY <1>1, <3>1, <3>2 DEF PromptsIn
      <4> QED BY <1>1, <1>3, <3>2, <4>1, <4>2
    <3>3. CASE i # Len(t)
      <4>1. i \in 1..(Len(t) - 1) /\ i + 1 \in 1..Len(t)
        BY <1>1, <3>1, <3>3
      <4>2. u[i + 1] = t[i + 1]
        BY <1>1, <4>1
      <4> QED BY <3>1, <3>3, <4>1, <4>2 DEF PromptsIn
    <3> QED BY <3>2, <3>3
  <2>2. PromptsIn(u) \subseteq 1..(Len(u) - 1) /\ PromptsIn(t) \subseteq 1..(Len(u) - 1)
    BY <1>1 DEF PromptsIn
  <2>3. Closes(pend, r) => Len(t) \in 1..(Len(u) - 1)
    BY <1>1, <1>3
  <2> QED BY <2>1, <2>2, <2>3
<1>6. PromptsIn(t) \subseteq 1..Len(t) /\ PromptsIn(u) \subseteq 1..Len(t)
  BY <1>1 DEF PromptsIn
<1>7. CASE Closes(pend, r)
  <2>1. Len(t) \in PromptsIn(u)
    BY <1>5, <1>7
  <2>2. Max(PromptsIn(u)) \in 1..Len(t) /\ Len(t) <= Max(PromptsIn(u))
    BY <1>1, <1>6, <2>1, GreatestPlace
  <2>3. Max(PromptsIn(u)) = Len(t) /\ u[Len(t)] = t[Len(t)]
    BY <1>1, <2>2
  <2>4. ParsePrompt(u) = IF t[Len(t)][2] = Overflow THEN None ELSE <<t[Len(t)][2]>>
    BY <2>1, <2>3 DEF ParsePrompt
  <2>5. ParsePrompt(u) = PromptOf(pend)
    BY <1>4, <1>7, <2>4 DEF PromptOf
  <2> QED BY <1>7, <2>5 DEF u, pend
<1>8. CASE ~Closes(pend, r)
  <2>1. PromptsIn(u) = PromptsIn(t)
    BY <1>5, <1>8
  <2>2. PromptsIn(t) # {} => Max(PromptsIn(t)) \in 1..Len(t)
    BY <1>1, <1>6, GreatestPlace
  <2>3. ParsePrompt(u) = ParsePrompt(t)
    BY <1>1, <2>1, <2>2 DEF ParsePrompt
  <2> QED BY <1>8, <2>3 DEF u, pend
<1> QED
  BY <1>7, <1>8

\* ParsePrompt is what the search finds.
LEMMA FindsPrompt ==
    ASSUME NEW d \in Seq(Symbols)
    PROVE  Fold(FindStep, NothingFound, d)
             = [pend |-> IF d = <<>> THEN <<>> ELSE Opens(Last(d)), prompt |-> ParsePrompt(d)]
<1> DEFINE Found(r) == Fold(FindStep, NothingFound, r)
           Now(r) == [pend |-> IF r = <<>> THEN <<>> ELSE Opens(Last(r)), prompt |-> ParsePrompt(r)]
           P == {r \in Seq(Symbols) : Found(r) = Now(r)}
<1>1. <<>> \in P
  <2>1. <<>> \in Seq(Symbols) /\ Len(<<>>) = 0
    BY EmptySeq
  <2>2. PromptsIn(<<>>) = {}
    BY <2>1 DEF PromptsIn
  <2>3. ParsePrompt(<<>>) = None
    BY <2>2 DEF ParsePrompt
  <2>4. Found(<<>>) = NothingFound
    BY FindStepFacts, FoldEmpty
  <2> QED BY <2>1, <2>3, <2>4 DEF NothingFound
<1>2. ASSUME NEW r \in Seq(Symbols), r \in P, NEW b \in Symbols PROVE Append(r, b) \in P
  <2> DEFINE q == Found(r)
             pend == IF r = <<>> THEN <<>> ELSE Opens(Last(r))
             t == Append(r, b)
  <2>1. t \in Seq(Symbols) /\ t # <<>> /\ Last(t) = b
    BY PeelAppend
  <2>2. q \in Finds
    BY FindStepFacts, FoldType
  <2>3. q.pend = pend /\ q.prompt = ParsePrompt(r)
    BY <1>2
  <2>4. Found(t) = FoundNext(q, b)
    <3>1. Found(t) = FindStep[<<q, b>>]
      BY FindStepFacts, FoldAppend
    <3> HIDE DEF q, Found
    <3> QED BY <2>2, <3>1, FindStepFacts
  <2>5. ParsePrompt(t) = IF Closes(pend, b) THEN PromptOf(pend) ELSE ParsePrompt(r)
    BY PromptAppend
  <2> HIDE DEF q, pend, t, Found
  <2>6. FoundNext(q, b) = [pend |-> Opens(b), prompt |-> IF Closes(pend, b) THEN PromptOf(pend) ELSE ParsePrompt(r)]
    BY <2>3 DEF FoundNext
  <2>7. Found(t) = Now(t)
    BY <2>1, <2>4, <2>5, <2>6
  <2> QED
    BY <2>1, <2>7 DEF t, Found
<1>3. Seq(Symbols) \subseteq P
  <2> HIDE DEF P
  <2> QED BY <1>1, <1>2, SeqInduction
<1> QED
  BY <1>3

\* The CRs in front of an LF are in no prompt.
LEMMA PromptJoin ==
    ASSUME NEW t \in Seq(Symbols)
    PROVE  ParsePrompt(JoinCRLF(t)) = ParsePrompt(t)
<1>1. ASSUME NEW v \in Finds PROVE FindStep[<<FindStep[<<v, CR>>], LF>>] = FindStep[<<v, LF>>]
  <2>1. FindStep[<<v, CR>>] = FoundNext(v, CR) /\ FindStep[<<v, LF>>] = FoundNext(v, LF)
        /\ FoundNext(v, CR) \in Finds
    BY FindStepFacts, TextBytes DEF IsStep
  <2>2. FindStep[<<FoundNext(v, CR), LF>>] = FoundNext(FoundNext(v, CR), LF)
    BY <2>1, FindStepFacts, TextBytes
  <2>3. ASSUME NEW q \in Finds, NEW r \in {CR, LF}
        PROVE  FoundNext(q, r) = [pend |-> <<>>, prompt |-> q.prompt]
    BY Kinds DEF FoundNext, Opens, Closes
  <2> QED BY <2>1, <2>2, <2>3
<1>2. JoinCRLF(t) \in Seq(Symbols)
  BY JoinFacts
<1>3. Fold(FindStep, NothingFound, JoinCRLF(t)) = Fold(FindStep, NothingFound, t)
  BY <1>1, FindStepFacts, SameAfterJoin
<1>4. \A s \in Seq(Symbols) : Fold(FindStep, NothingFound, s).prompt = ParsePrompt(s)
  BY FindsPrompt
<1> QED
  BY <1>2, <1>3, <1>4

\* A color code between the halves of a prompt does not matter, a cut one does.
LEMMA ScanColors ==
    ASSUME NEW d \in Seq(Symbols)
    PROVE  LET c == Coloring(d)
               z == Scan(d)
           IN  /\ z.esc = c.esc
               /\ Fold(FindStep, NothingFound, IF c.esc THEN Front(c.out) ELSE c.out)
                    = [pend |-> z.pend, prompt |-> z.prompt]
<1> DEFINE Plain(c) == IF c.esc THEN Front(c.out) ELSE c.out
           Found(r) == Fold(FindStep, NothingFound, r)
           P == {r \in Seq(Symbols) :
                    /\ Scan(r).esc = Coloring(r).esc
                    /\ Found(Plain(Coloring(r))) = [pend |-> Scan(r).pend, prompt |-> Scan(r).prompt]}
<1>1. <<>> \in P
  <2>1. Coloring(<<>>) = Uncolored /\ Scan(<<>>) = NothingScanned /\ <<>> \in Seq(Symbols)
    BY ColoringFacts, ScanFacts, EmptySeq
  <2>2. Plain(Uncolored) = <<>> /\ Uncolored.esc = FALSE
    BY DEF Uncolored
  <2>3. Found(<<>>) = NothingFound
    BY FindStepFacts, FoldEmpty
  <2>4. NothingFound = [pend |-> NothingScanned.pend, prompt |-> NothingScanned.prompt]
        /\ NothingScanned.esc = FALSE
    BY DEF NothingFound, NothingScanned
  <2> HIDE DEF Plain, Found
  <2>5. Found(Plain(Coloring(<<>>))) = NothingFound
    BY <2>1, <2>2, <2>3
  <2> QED BY <2>1, <2>2, <2>4, <2>5
<1>2. ASSUME NEW r \in Seq(Symbols), r \in P, NEW b \in Symbols PROVE Append(r, b) \in P
  <2> DEFINE c == Coloring(r)
             z == Scan(r)
             o == c.out
             t == Append(r, b)
  <2>1. c \in Colors /\ Coloring(t) = Stripped(c, b) /\ z \in Scans /\ Scan(t) = Scanned(z, b)
    BY ColoringFacts, ScanFacts
  <2>2. z.esc = c.esc /\ Found(Plain(c)) = [pend |-> z.pend, prompt |-> z.prompt]
    BY <1>2
  <2>3. c.esc => o # <<>> /\ Last(o) = Esc
    BY PendingColor
  <2>4. t \in Seq(Symbols)
    OBVIOUS
  <2> HIDE DEF c, z, t
  <2>5. o \in Seq(Symbols) /\ c.esc \in BOOLEAN
    BY <2>1 DEF Colors
  <2>6. ASSUME NEW s \in Seq(Symbols), NEW e \in Symbols
        PROVE  /\ Found(Append(s, e)) = FoundNext(Found(s), e)
               /\ Append(s, e) # <<>> /\ Front(Append(s, e)) = s
    <3>1. Found(Append(s, e)) = FindStep[<<Found(s), e>>] /\ Found(s) \in Finds
      BY FindStepFacts, FoldAppend, FoldType
    <3> HIDE DEF Found
    <3> QED BY <3>1, FindStepFacts, PeelAppend
  <2> DEFINE k == Stripped(c, b)
             y == Scanned(z, b)
  <2> SUFFICES y.esc = k.esc /\ Found(Plain(k)) = [pend |-> y.pend, prompt |-> y.prompt]
    BY <2>1, <2>4 DEF t
  <2>7. CASE c.esc
    <3> DEFINE q == Front(o)
    <3>1. q \in Seq(Symbols) /\ Esc \in Symbols /\ o = Append(q, Esc)
      BY <2>3, <2>5, <2>7, Peel
    <3>2. Found(q) = [pend |-> z.pend, prompt |-> z.prompt] /\ z.esc
      BY <2>2, <2>7
    <3> HIDE DEF q, o, Found
    <3>3. Found(o) = [pend |-> <<>>, prompt |-> z.prompt]
      <4>1. Found(o) = FoundNext(Found(q), Esc)
        BY <2>6, <3>1
      <4> QED BY <3>2, <4>1, Kinds DEF FoundNext, Opens, Closes
    <3>4. CASE b = ColorEnd
      <4>1. k = [out |-> q, esc |-> FALSE]
        BY <2>7, <3>4 DEF Stripped, q, o
      <4>2. y = [pend |-> z.pend, esc |-> FALSE, prompt |-> z.prompt]
        BY <3>2, <3>4, Kinds DEF Scanned
      <4> QED BY <3>2, <4>1, <4>2
    <3>5. CASE b # ColorEnd
      <4>1. k = [out |-> Append(o, b), esc |-> b = Esc]
        BY <3>5 DEF Stripped, o
      <4>2. y = [pend |-> IF b = Esc THEN <<>> ELSE Opens(b), esc |-> b = Esc, prompt |-> z.prompt]
        BY <3>2, <3>5 DEF Scanned
      <4>3. Found(Append(o, b)) = [pend |-> Opens(b), prompt |-> z.prompt] /\ Front(Append(o, b)) = o
        <5>1. Found(Append(o, b)) = FoundNext(Found(o), b) /\ Front(Append(o, b)) = o
          BY <2>5, <2>6
        <5> QED BY <3>3, <5>1 DEF FoundNext, Closes
      <4>4. CASE b = Esc
        <5> HIDE DEF k, y
        <5>1. k.esc /\ k.out = Append(o, b) /\ y.esc /\ y.pend = <<>> /\ y.prompt = z.prompt
          BY <4>1, <4>2, <4>4
        <5>2. Plain(k) = o
          BY <4>3, <5>1
        <5> HIDE DEF Plain
        <5> QED BY <3>3, <5>1, <5>2
      <4>5. CASE b # Esc
        <5> HIDE DEF k, y
        <5>1. ~k.esc /\ k.out = Append(o, b) /\ ~y.esc /\ y.pend = Opens(b) /\ y.prompt = z.prompt
              /\ k.esc = FALSE /\ y.esc = FALSE
          BY <4>1, <4>2, <4>5
        <5>2. Plain(k) = Append(o, b)
          BY <5>1
        <5> HIDE DEF Plain
        <5> QED BY <4>3, <5>1, <5>2
      <4> QED BY <4>4, <4>5
    <3> QED BY <3>4, <3>5
  <2>8. CASE ~c.esc
    <3>1. Found(o) = [pend |-> z.pend, prompt |-> z.prompt] /\ ~z.esc
      BY <2>2, <2>8
    <3>2. Found(Append(o, b)) = FoundNext(Found(o), b) /\ Front(Append(o, b)) = o
      BY <2>5, <2>6
    <3> HIDE DEF o, Found
    <3>3. k = [out |-> Append(o, b), esc |-> b = Esc]
      BY <2>8 DEF Stripped, o
    <3>4. y = [pend |-> IF b = Esc THEN z.pend ELSE Opens(b), esc |-> b = Esc,
               prompt |-> IF Closes(z.pend, b) THEN PromptOf(z.pend) ELSE z.prompt]
      BY <3>1 DEF Scanned
    <3>5. CASE b = Esc
      <4>1. ~Closes(z.pend, b)
        BY <3>5, Kinds DEF Closes
      <4> HIDE DEF k, y
      <4>2. k.esc = TRUE /\ k.out = Append(o, b) /\ y.esc = TRUE /\ y.pend = z.pend /\ y.prompt = z.prompt
        BY <3>3, <3>4, <3>5, <4>1
      <4>3. Plain(k) = o
        BY <3>2, <4>2
      <4> HIDE DEF Plain
      <4> QED BY <3>1, <4>2, <4>3
    <3>6. CASE b # Esc
      <4> HIDE DEF k, y
      <4>1. /\ k.esc = FALSE /\ k.out = Append(o, b) /\ y.esc = FALSE /\ y.pend = Opens(b)
            /\ y.prompt = IF Closes(z.pend, b) THEN PromptOf(z.pend) ELSE z.prompt
        BY <3>3, <3>4, <3>6
      <4>2. FoundNext(Found(o), b)
              = [pend |-> Opens(b), prompt |-> IF Closes(z.pend, b) THEN PromptOf(z.pend) ELSE z.prompt]
        BY <3>1 DEF FoundNext
      <4>3. Plain(k) = Append(o, b)
        BY <4>1
      <4> HIDE DEF Plain
      <4> QED BY <3>2, <4>1, <4>2, <4>3
    <3> QED BY <3>5, <3>6
  <2> QED
    BY <2>5, <2>7, <2>8
<1>3. Seq(Symbols) \subseteq P
  <2> HIDE DEF P
  <2> QED BY <1>1, <1>2, SeqInduction
<1> QED
  BY <1>3

\* Parse's prompt, from the bytes as they come.
LEMMA ScanFindsPrompt ==
    ASSUME NEW d \in Seq(Symbols)
    PROVE  ParsePrompt(Normalize(Decode(d))) = Scan(d).prompt
<1> DEFINE e == Decode(d)
           c == Coloring(e)
           o == c.out
<1>1. e \in Seq(Symbols)
  BY DecodeType
<1>2. Scan(e) = Scan(d)
  <2> DEFINE Cleared(p) == [pend |-> <<>>, esc |-> FALSE, prompt |-> p]
  <2>1. ASSUME NEW v \in Scans, NEW r \in {CR, LF, YA, ya, IAC}
        PROVE  ScanStep[<<v, r>>] = Cleared(v.prompt) /\ ScanStep[<<v, r>>] \in Scans
    <3>1. ScanStep[<<v, r>>] = Scanned(v, r) /\ ScanStep[<<v, r>>] \in Scans
      BY ScanStepFacts, TextBytes DEF IsStep
    <3>2. ~Closes(v.pend, r) /\ Opens(r) = <<>> /\ r # Esc /\ r # ColorEnd
      BY Kinds DEF Opens, Closes
    <3> QED BY <3>1, <3>2 DEF Scanned
  <2>3. \A p : Cleared(p).prompt = p
    OBVIOUS
  <2> HIDE DEF Cleared
  <2>2. ASSUME NEW v \in Scans
        PROVE  /\ ScanStep[<<v, IAC>>] = ScanStep[<<v, ya>>]
               /\ ScanStep[<<v, YA>>] = ScanStep[<<v, ya>>]
               /\ ScanStep[<<ScanStep[<<v, CR>>], LF>>] = ScanStep[<<v, LF>>]
    <3>1. /\ ScanStep[<<v, IAC>>] = ScanStep[<<v, ya>>]
          /\ ScanStep[<<v, YA>>] = ScanStep[<<v, ya>>]
      BY <2>1
    <3> DEFINE w == ScanStep[<<v, CR>>]
    <3>2. w \in Scans /\ w = Cleared(v.prompt)
      BY <2>1
    <3>3. w.prompt = v.prompt
      BY <2>3, <3>2
    <3> HIDE DEF w
    <3>4. ScanStep[<<w, LF>>] = Cleared(w.prompt) /\ ScanStep[<<v, LF>>] = Cleared(v.prompt)
      BY <2>1, <3>2
    <3> QED BY <3>1, <3>3, <3>4 DEF w
  <2> QED BY <2>2, ScanStepFacts, SameAfterDecode DEF Scan
<1> HIDE DEF e
<1>3. c \in Colors /\ StripColors(e) = o
  BY <1>1, ColoringFacts
<1>4. /\ Scan(e).esc = c.esc
      /\ Fold(FindStep, NothingFound, IF c.esc THEN Front(o) ELSE o)
           = [pend |-> Scan(e).pend, prompt |-> Scan(e).prompt]
  BY <1>1, ScanColors
<1>5. c.esc => o # <<>> /\ Last(o) = Esc
  BY <1>1, PendingColor
<1> HIDE DEF c
<1>6. o \in Seq(Symbols) /\ c.esc \in BOOLEAN
  BY <1>3 DEF Colors
<1> HIDE DEF o
<1>7. ParsePrompt(o) = Scan(e).prompt
  <2>0. \A s \in Seq(Symbols) : ParsePrompt(s) = Fold(FindStep, NothingFound, s).prompt
    BY FindsPrompt
  <2>1. CASE c.esc
    <3> DEFINE q == Front(o)
    <3>1. q \in Seq(Symbols) /\ Esc \in Symbols /\ o = Append(q, Esc)
      BY <1>5, <1>6, <2>1, Peel
    <3>2. Fold(FindStep, NothingFound, q).prompt = Scan(e).prompt
      BY <1>4, <2>1
    <3> HIDE DEF q
    <3>3. ParsePrompt(q) = Scan(e).prompt
      BY <2>0, <3>1, <3>2
    <3>4. ParsePrompt(Append(q, Esc)) = ParsePrompt(q)
      <4>1. \A pend : ~Closes(pend, Esc)
        BY Kinds DEF Closes
      <4> QED BY <3>1, <4>1, PromptAppend
    <3> QED BY <3>1, <3>3, <3>4
  <2>2. CASE ~c.esc
    BY <1>4, <1>6, <2>0, <2>2
  <2> QED BY <1>6, <2>1, <2>2
<1>8. ParsePrompt(Normalize(e)) = ParsePrompt(o)
  BY <1>3, <1>6, PromptJoin DEF Normalize
<1> QED
  BY <1>2, <1>7, <1>8 DEF e

\* The bytes without a value that overflows.
Calm == {r \in Symbols : r[1] = "open" => r[2] # Overflow}

\* A sequence of calm bytes, said of its places.
LEMMA CalmSeq ==
    ASSUME NEW d \in Seq(Symbols)
    PROVE  d \in Seq(Calm) <=> \A i \in DOMAIN d : d[i][1] = "open" => d[i][2] # Overflow
<1>1. Len(d) \in Nat /\ DOMAIN d = 1..Len(d) /\ \A i \in 1..Len(d) : d[i] \in Symbols
  BY LenProperties, ElementOfSeq
<1>2. ASSUME d \in Seq(Calm) PROVE \A i \in DOMAIN d : d[i] \in Calm
  BY <1>1, <1>2, ElementOfSeq
<1>3. ASSUME \A i \in DOMAIN d : d[i][1] = "open" => d[i][2] # Overflow PROVE d \in Seq(Calm)
  <2>1. \A i \in 1..Len(d) : d[i] \in Calm
    BY <1>1, <1>3 DEF Calm
  <2>2. SubSeq(d, 1, Len(d)) \in Seq(Calm)
    BY <1>1, <2>1, SubSeqProperties
  <2> QED BY <2>2, SubSeqFull
<1> QED
  BY <1>2, <1>3 DEF Calm

\* The parts of calm bytes are calm.
LEMMA CalmParts ==
    ASSUME NEW c \in Seq(Symbols), NEW d \in Seq(Symbols), c \o d \in Seq(Calm)
    PROVE  c \in Seq(Calm) /\ d \in Seq(Calm)
<1> DEFINE u == c \o d
<1>1. /\ Len(u) = Len(c) + Len(d) /\ Len(c) \in Nat /\ Len(d) \in Nat
      /\ \A i \in 1..(Len(c) + Len(d)) : u[i] = IF i <= Len(c) THEN c[i] ELSE d[i - Len(c)]
  BY ConcatProperties, LenProperties
<1>2. \A i \in 1..Len(u) : u[i] \in Calm
  BY ElementOfSeq
<1> HIDE DEF u
<1>3. ASSUME NEW i \in 1..Len(c) PROVE c[i] \in Calm
  <2>1. i \in 1..Len(u) /\ u[i] = c[i]
    BY <1>1
  <2> QED BY <1>2, <2>1
<1>4. ASSUME NEW i \in 1..Len(d) PROVE d[i] \in Calm
  <2>1. i + Len(c) \in 1..Len(u) /\ u[i + Len(c)] = d[i]
    BY <1>1
  <2> QED BY <1>2, <2>1
<1>5. SubSeq(c, 1, Len(c)) \in Seq(Calm)
  BY <1>1, <1>3, SubSeqProperties
<1>6. SubSeq(d, 1, Len(d)) \in Seq(Calm)
  BY <1>1, <1>4, SubSeqProperties
<1> QED
  BY <1>5, <1>6, SubSeqFull
-----------------------------------------------------------------------------
\* A scan that goes on from an earlier read, p, and one that starts afresh, q.
GoesOn(p, q, w) ==
    /\ p.pend = q.pend
    /\ p.esc = q.esc \/ p.pend = <<>>
    /\ p.prompt = IF q.prompt = None THEN w ELSE q.prompt
    /\ q.pend # <<>> => q.pend[1][2] # Overflow

\* One byte keeps the two scans together.
LEMMA GoesOnStep ==
    ASSUME NEW p \in Scans, NEW q \in Scans, NEW w, GoesOn(p, q, w), NEW r \in Calm
    PROVE  GoesOn(Scanned(p, r), Scanned(q, r), w)
<1>1. r \in Symbols /\ (r[1] = "open" => r[2] # Overflow)
  BY DEF Calm
<1>2. PICK pp \in Pending, pe \in BOOLEAN, pv \in Prompts : p = [pend |-> pp, esc |-> pe, prompt |-> pv]
  BY DEF Scans
<1>3. PICK qp \in Pending, qe \in BOOLEAN, qv \in Prompts : q = [pend |-> qp, esc |-> qe, prompt |-> qv]
  BY DEF Scans
<1>4. /\ pp = qp
      /\ pe = qe \/ pp = <<>>
      /\ pv = IF qv = None THEN w ELSE qv
      /\ qp # <<>> => qp[1][2] # Overflow
  BY <1>2, <1>3 DEF GoesOn
<1> DEFINE P == Scanned(p, r)
           Q == Scanned(q, r)
<1>5. /\ P.pend = IF r = Esc THEN (IF pe THEN <<>> ELSE pp)
                  ELSE IF pe /\ r = ColorEnd THEN pp ELSE Opens(r)
      /\ P.esc = (r = Esc)
      /\ P.prompt = IF ~pe /\ Closes(pp, r) THEN PromptOf(pp) ELSE pv
  BY <1>2 DEF Scanned
<1>6. /\ Q.pend = IF r = Esc THEN (IF qe THEN <<>> ELSE qp)
                  ELSE IF qe /\ r = ColorEnd THEN qp ELSE Opens(r)
      /\ Q.esc = (r = Esc)
      /\ Q.prompt = IF ~qe /\ Closes(qp, r) THEN PromptOf(qp) ELSE qv
  BY <1>3 DEF Scanned
<1> HIDE DEF P, Q
<1>7. Opens(r) # <<>> => r[1] = "open" /\ Opens(r)[1] = r
  BY <1>1, OpensType
<1>8. r = ColorEnd => Opens(r) = <<>>
  BY Kinds DEF Opens
<1>9. P.pend = Q.pend
  BY <1>4, <1>5, <1>6, <1>8
<1>10. P.esc = Q.esc
  BY <1>5, <1>6
<1>11. Q.pend # <<>> => Q.pend[1][2] # Overflow
  BY <1>1, <1>4, <1>6, <1>7
<1>12. P.prompt = IF Q.prompt = None THEN w ELSE Q.prompt
  <2>1. CASE Closes(qp, r) /\ ~qe
    <3>1. qp # <<>> /\ PromptOf(qp) = <<qp[1][2]>>
      BY <1>4, <2>1 DEF Closes, PromptOf
    <3>2. PromptOf(qp) # None
      BY <3>1 DEF None
    <3>3. pe = qe /\ Closes(pp, r)
      BY <1>4, <2>1, <3>1
    <3> QED BY <1>4, <1>5, <1>6, <2>1, <3>2, <3>3
  <2>2. CASE ~(Closes(qp, r) /\ ~qe)
    <3>1. ~(Closes(pp, r) /\ ~pe)
      BY <1>4, <2>2 DEF Closes
    <3> QED BY <1>4, <1>5, <1>6, <2>2, <3>1
  <2> QED BY <2>1, <2>2
<1> QED
  BY <1>9, <1>10, <1>11, <1>12 DEF GoesOn, P, Q

\* So they stay together over a whole read.
LEMMA GoesOnAlways ==
    ASSUME NEW p \in Scans, p.pend = <<>>, NEW d \in Seq(Calm)
    PROVE  GoesOn(Fold(ScanStep, p, d), Scan(d), p.prompt)
<1> DEFINE F(r) == Fold(ScanStep, p, r)
           w == p.prompt
           P == {r \in Seq(Calm) : GoesOn(F(r), Scan(r), w)}
<1>0. Calm \subseteq Symbols
  BY DEF Calm
<1>1. <<>> \in P
  <2>1. <<>> \in Seq(Calm) /\ <<>> \in Seq(Symbols)
    BY EmptySeq
  <2>2. F(<<>>) = p /\ Scan(<<>>) = NothingScanned
    BY <2>1, ScanStepFacts, ScanFacts, FoldEmpty
  <2>3. GoesOn(p, NothingScanned, w)
    BY DEF GoesOn, NothingScanned
  <2> QED BY <2>1, <2>2, <2>3
<1>2. ASSUME NEW r \in Seq(Calm), r \in P, NEW b \in Calm PROVE Append(r, b) \in P
  <2>1. r \in Seq(Symbols) /\ b \in Symbols
    BY <1>0, SeqMonotonic
  <2>2. F(Append(r, b)) = ScanStep[<<F(r), b>>] /\ F(r) \in Scans
    BY <2>1, ScanStepFacts, FoldAppend, FoldType
  <2>3. Scan(Append(r, b)) = Scanned(Scan(r), b) /\ Scan(r) \in Scans
    BY <2>1, ScanFacts
  <2>4. GoesOn(F(r), Scan(r), w)
    BY <1>2
  <2>5. Append(r, b) \in Seq(Calm)
    OBVIOUS
  <2> HIDE DEF F, w
  <2>6. F(Append(r, b)) = Scanned(F(r), b)
    BY <2>1, <2>2, ScanStepFacts
  <2>7. GoesOn(Scanned(F(r), b), Scanned(Scan(r), b), w)
    BY <2>2, <2>3, <2>4, GoesOnStep
  <2> QED BY <2>3, <2>5, <2>6, <2>7
<1>3. Seq(Calm) \subseteq P
  <2> HIDE DEF P
  <2> QED BY <1>1, <1>2, SeqInduction
<1> QED
  BY <1>3

\* Only the first half of a prompt, or color codes after it, are pending.
LEMMA PendingInPrompt ==
    ASSUME NEW d \in Seq(Symbols), Scan(d).pend # <<>>
    PROVE  InPrompt(d)
<1> DEFINE P == {r \in Seq(Symbols) : Scan(r).pend # <<>> => InPrompt(r)}
<1>1. <<>> \in P
  <2>1. <<>> \in Seq(Symbols)
    BY EmptySeq
  <2>2. Scan(<<>>).pend = <<>>
    BY <2>1, ScanFacts DEF NothingScanned
  <2> QED BY <2>1, <2>2
<1>2. ASSUME NEW r \in Seq(Symbols), r \in P, NEW b \in Symbols PROVE Append(r, b) \in P
  <2> DEFINE t == Append(r, b)
             z == Scan(r)
  <2>1. /\ t \in Seq(Symbols) /\ Len(t) = Len(r) + 1 /\ t[Len(r) + 1] = b /\ Len(r) \in Nat
        /\ \A i \in 1..Len(r) : t[i] = r[i]
        /\ DOMAIN t = 1..Len(t) /\ DOMAIN r = 1..Len(r)
    BY AppendProperties, LenProperties
  <2>2. Scan(t) = Scanned(z, b)
    BY ScanFacts
  <2> HIDE DEF t, z
  <2> SUFFICES ASSUME Scan(t).pend # <<>> PROVE InPrompt(t)
    BY <2>1 DEF t
  <2>3. CASE b \in {Esc, ColorEnd}
    <3>1. z.pend # <<>>
      <4>1. Opens(ColorEnd) = <<>>
        BY Kinds DEF Opens
      <4> QED BY <2>2, <2>3, <4>1 DEF Scanned
    <3>2. PICK i \in 1..Len(r) : r[i][1] = "open" /\ \A j \in (i + 1)..Len(r) : r[j] \in {Esc, ColorEnd}
      BY <1>2, <2>1, <3>1 DEF InPrompt, z
    <3>3. i \in DOMAIN t /\ t[i] = r[i]
      BY <2>1
    <3>4. ASSUME NEW j \in (i + 1)..Len(t) PROVE t[j] \in {Esc, ColorEnd}
      <4>1. (j \in (i + 1)..Len(r) /\ j \in 1..Len(r)) \/ j = Len(r) + 1
        BY <2>1
      <4> QED BY <2>1, <2>3, <3>2, <4>1
    <3> QED BY <3>2, <3>3, <3>4 DEF InPrompt
  <2>4. CASE b \notin {Esc, ColorEnd}
    <3>1. Opens(b) # <<>>
      BY <2>2, <2>4 DEF Scanned
    <3>2. b[1] = "open"
      BY <3>1, OpensType
    <3>3. Len(t) \in DOMAIN t /\ t[Len(t)] = b /\ (Len(t) + 1)..Len(t) = {}
      BY <2>1
    <3> QED BY <3>2, <3>3 DEF InPrompt
  <2> QED BY <2>3, <2>4
<1>3. Seq(Symbols) \subseteq P
  <2> HIDE DEF P
  <2> QED BY <1>1, <1>2, SeqInduction
<1> QED
  BY <1>3

\* Two reads: the prompt of the second one, or else that of the first.
LEMMA PromptConcat ==
    ASSUME NEW c \in Seq(Symbols), NEW d \in Seq(Symbols), ~InPrompt(c), d \in Seq(Calm)
    PROVE  Scan(c \o d).prompt = IF Scan(d).prompt = None THEN Scan(c).prompt ELSE Scan(d).prompt
<1>1. Scan(c) \in Scans /\ Scan(c).pend = <<>>
  BY ScanFacts, PendingInPrompt
<1>2. Scan(c \o d) = Fold(ScanStep, Scan(c), d)
  BY ScanStepFacts, FoldConcat DEF Scan
<1> DEFINE p == Scan(c)
           q == Scan(d)
           u == Fold(ScanStep, p, d)
<1>3. GoesOn(u, q, p.prompt)
  <2>1. p \in Scans /\ p.pend = <<>>
    BY <1>1
  <2> HIDE DEF p
  <2> QED BY <2>1, GoesOnAlways
<1>4. Scan(c \o d) = u
  BY <1>2
<1> HIDE DEF u, p, q
<1>5. u.prompt = IF q.prompt = None THEN p.prompt ELSE q.prompt
  BY <1>3 DEF GoesOn
<1> QED
  BY <1>4, <1>5 DEF p, q
-----------------------------------------------------------------------------
\* The prompt that UpsertDelta leaves in the store.
Newest == IF delta.prompt = None THEN store.prompt ELSE delta.prompt

\* As long as no read ended inside a prompt, the newest prompt is the one that a
\* scan of all bytes finds.
PromptInv ==
    ~midPrompt => /\ ~InPrompt(passed)
                  /\ passed \in Seq(Calm) => Newest = Scan(passed).prompt

\* Every step keeps PromptInv: a read finds its own prompt, and mergeSnapshot
\* keeps the stored one where a read found none.
LEMMA PromptInvStep == FilterInv /\ PromptInv /\ [Next]_vars => PromptInv'
<1> SUFFICES ASSUME FilterInv, PromptInv, [Next]_vars PROVE PromptInv'
  OBVIOUS
<1>1. ASSUME UNCHANGED <<passed, midPrompt, delta, store>> PROVE PromptInv'
  BY <1>1 DEF PromptInv, Newest
<1>2. CASE Read
  <2>1. PICK n \in 1..(Len(Bytes(stream)) - pos) :
          LET f == Filter(state, SubSeq(Bytes(stream), pos + 1, pos + n)) IN
          /\ pos' = pos + n /\ state' = f.state /\ passed' = passed \o f.out
          /\ delta' \in Parse(Decode(f.out)) /\ midPrompt' = (midPrompt \/ InPrompt(passed'))
    BY <1>2 DEF Read
  <2>2. stream' = stream /\ delta = EmptyDelta /\ store' = store
    BY <1>2 DEF Read
  <2> DEFINE f == Filter(state, SubSeq(Bytes(stream), pos + 1, pos + n))
             o == f.out
  <2>3. o \in Seq(Symbols) /\ passed \in Seq(Symbols)
    BY <2>1, <2>2, ReadFilters, SoFarType
  <2>4. passed' = passed \o o /\ delta' \in Parse(Decode(o)) /\ midPrompt' = (midPrompt \/ InPrompt(passed'))
    BY <2>1
  <2> HIDE DEF o, f
  <2>5. delta'.prompt = Scan(o).prompt
    <3>1. delta'.prompt = ParsePrompt(Normalize(Decode(o)))
      BY <2>4 DEF Parse
    <3> QED BY <2>3, <3>1, ScanFindsPrompt
  <2>6. Newest = store.prompt
    BY <2>2 DEF Newest, EmptyDelta
  <2>7. Newest' = IF Scan(o).prompt = None THEN store.prompt ELSE Scan(o).prompt
    BY <2>2, <2>5 DEF Newest
  <2> SUFFICES ASSUME ~midPrompt', passed' \in Seq(Calm) PROVE Newest' = Scan(passed').prompt
    BY <2>4 DEF PromptInv
  <2>8. ~midPrompt /\ passed \in Seq(Calm) /\ o \in Seq(Calm)
    BY <2>3, <2>4, CalmParts
  <2>9. ~InPrompt(passed) /\ store.prompt = Scan(passed).prompt
    BY <2>6, <2>8 DEF PromptInv
  <2>10. Scan(passed \o o).prompt = IF Scan(o).prompt = None THEN Scan(passed).prompt ELSE Scan(o).prompt
    BY <2>3, <2>8, <2>9, PromptConcat
  <2> QED BY <2>4, <2>7, <2>9, <2>10
<1>3. CASE UpsertDelta
  <2>1. passed' = passed /\ midPrompt' = midPrompt /\ delta' = EmptyDelta
        /\ store'.prompt = IF delta.prompt = None THEN store.prompt ELSE delta.prompt
    BY <1>3 DEF UpsertDelta, streamVars, Merged
  <2>2. Newest' = Newest
    BY <2>1 DEF Newest, EmptyDelta
  <2> QED BY <2>1, <2>2 DEF PromptInv
<1>4. CASE GetLatest
  BY <1>1, <1>4 DEF GetLatest, streamVars
<1>5. CASE Release
  BY <1>1, <1>5 DEF Release, streamVars
<1>6. CASE UNCHANGED vars
  BY <1>1, <1>6 DEF vars, streamVars
<1> QED
  BY <1>2, <1>3, <1>4, <1>5, <1>6 DEF Next

\* No prompt at first.
LEMMA PromptInvInit == Init => PromptInv
<1> SUFFICES ASSUME Init PROVE PromptInv
  OBVIOUS
<1>1. passed = <<>> /\ Newest = None
  BY DEF Init, Newest, EmptyDelta
<1>2. <<>> \in Seq(Symbols) /\ DOMAIN <<>> = {}
  BY EmptySeq
<1>3. Scan(<<>>).prompt = None
  <2>1. Scan(<<>>) = NothingScanned
    BY <1>2, ScanFacts
  <2>2. NothingScanned.prompt = None
    BY DEF NothingScanned
  <2> QED BY <2>1, <2>2
<1> QED
  BY <1>1, <1>2, <1>3 DEF PromptInv, InPrompt

\* Once the delta is stored, the newest prompt is the stored one.
LEMMA PromptInvImplies == FilterInv /\ PromptInv => PromptIsNewest
<1> SUFFICES ASSUME FilterInv, PromptInv, delta = EmptyDelta, ~midPrompt,
                    \A i \in DOMAIN passed : passed[i][1] = "open" => passed[i][2] # Overflow
             PROVE  store.prompt = ParsePrompt(Normalize(Decode(passed)))
  BY DEF PromptIsNewest
<1>1. passed \in Seq(Symbols)
  BY SoFarType
<1>2. passed \in Seq(Calm)
  BY <1>1, CalmSeq
<1>3. Newest = store.prompt
  BY DEF Newest, EmptyDelta
<1> QED
  BY <1>1, <1>2, <1>3, ScanFindsPrompt DEF PromptInv

\* parser.go, ParsePrompt of each read, and mergeSnapshot: the stored prompt is
\* the last one of all that was read, unless a read ended inside a prompt or a
\* value overflowed.
THEOREM PromptOfStream == Spec => []PromptIsNewest
<1>1. Init => FilterInv /\ PromptInv
  BY FilterInvInit, PromptInvInit
<1>2. (FilterInv /\ PromptInv) /\ [Next]_vars => (FilterInv /\ PromptInv)'
  BY FilterInvStep, PromptInvStep
<1> QED
  BY <1>1, <1>2, PromptInvImplies, PTL DEF Spec

-----------------------------------------------------------------------------
(***************************************************************************)
(* The lines of a text.                                                    *)
(***************************************************************************)
\* Lists of lines.
LineLists == Seq(Seq(Symbols)) \ {<<>>}
OneLine == << <<>> >>

\* One symbol keeps the lines typed.
LEMMA LinedType ==
    ASSUME NEW ls \in LineLists, NEW r \in Symbols
    PROVE  Lined(ls, r) \in LineLists
<1>1. ls \in Seq(Seq(Symbols)) /\ ls # <<>>
  BY DEF LineLists
<1>2. Front(ls) \in Seq(Seq(Symbols)) /\ Last(ls) \in Seq(Symbols) /\ <<>> \in Seq(Symbols)
  BY <1>1, Peel, EmptySeq
<1> DEFINE l == Append(Last(ls), r)
<1>3. l \in Seq(Symbols)
  BY <1>2, PeelAppend
<1> HIDE DEF l
<1>4. Append(Front(ls), l) \in LineLists /\ Append(ls, <<>>) \in LineLists
  BY <1>1, <1>2, <1>3, PeelAppend DEF LineLists
<1> QED
  BY <1>4 DEF Lined, l

\* Splitting into lines is a fold over symbols.
LEMMA LineStepFacts ==
    /\ IsStep(LineStep, LineLists, Symbols)
    /\ \A ls \in LineLists, r \in Symbols : LineStep[<<ls, r>>] = Lined(ls, r)
    /\ OneLine \in LineLists
<1>1. \A p \in LineLists \X Symbols : Lined(p[1], p[2]) \in LineLists
  BY LinedType
<1>2. IsStep(LineStep, LineLists, Symbols)
  BY <1>1 DEF LineStep, IsStep, LineLists
<1>3. \A ls \in LineLists, r \in Symbols : LineStep[<<ls, r>>] = Lined(ls, r)
  BY DEF LineStep, LineLists
<1>4. OneLine \in LineLists
  <2>1. <<>> \in Seq(Symbols)
    BY EmptySeq
  <2> QED BY <2>1, One DEF OneLine, LineLists
<1> QED
  BY <1>2, <1>3, <1>4

\* The lines of a text, with one symbol more.
LEMMA LinesFacts ==
    ASSUME NEW d \in Seq(Symbols)
    PROVE  /\ Lines(d) \in LineLists /\ Lines(<<>>) = OneLine
           /\ \A r \in Symbols : Lines(Append(d, r)) = Lined(Lines(d), r)
<1>0. Lines(d) = Fold(LineStep, OneLine, d) /\ Lines(<<>>) = Fold(LineStep, OneLine, <<>>)
      /\ \A r : Lines(Append(d, r)) = Fold(LineStep, OneLine, Append(d, r))
  BY DEF Lines, OneLine
<1>1. Lines(d) \in LineLists /\ Lines(<<>>) = OneLine
  BY <1>0, LineStepFacts, FoldType, FoldEmpty
<1>2. ASSUME NEW r \in Symbols PROVE Lines(Append(d, r)) = Lined(Lines(d), r)
  <2>1. Lines(Append(d, r)) = LineStep[<<Lines(d), r>>]
    BY <1>0, LineStepFacts, FoldAppend
  <2> QED BY <1>1, <2>1, LineStepFacts
<1> QED
  BY <1>1, <1>2

\* A symbol goes to the last line.
LEMMA LinedConcat ==
    ASSUME NEW ks \in Seq(Seq(Symbols)), NEW ls \in LineLists, NEW r \in Symbols
    PROVE  Lined(ks \o ls, r) = ks \o Lined(ls, r)
<1>1. ls \in Seq(Seq(Symbols)) /\ ls # <<>>
  BY DEF LineLists
<1>2. Last(ks \o ls) = Last(ls) /\ Front(ks \o ls) = ks \o Front(ls)
      /\ Front(ls) \in Seq(Seq(Symbols)) /\ Last(ls) \in Seq(Symbols)
  BY <1>1, ConcatLast, Peel
<1> DEFINE l == Append(Last(ls), r)
<1>3. l \in Seq(Symbols) /\ <<>> \in Seq(Symbols)
  BY <1>2, PeelAppend, EmptySeq
<1>4. \A q \in Seq(Seq(Symbols)), e \in Seq(Symbols) : ks \o Append(q, e) = Append(ks \o q, e)
  BY ConcatAppend
<1>5. Append(Last(ks \o ls), r) = l
  BY <1>2
<1> HIDE DEF l
<1>6. ks \o Append(Front(ls), l) = Append(ks \o Front(ls), l) /\ ks \o Append(ls, <<>>) = Append(ks \o ls, <<>>)
  BY <1>1, <1>2, <1>3, <1>4
<1>7. Lined(ks \o ls, r) = IF r = LF THEN Append(ks \o ls, <<>>) ELSE Append(ks \o Front(ls), l)
  BY <1>2, <1>5 DEF Lined
<1>8. Lined(ls, r) = IF r = LF THEN Append(ls, <<>>) ELSE Append(Front(ls), l)
  BY DEF Lined, l
<1> QED
  BY <1>6, <1>7, <1>8

\* After an LF the lines begin afresh.
LEMMA LinesFrom ==
    ASSUME NEW ks \in Seq(Seq(Symbols)), NEW d \in Seq(Symbols)
    PROVE  Fold(LineStep, Append(ks, <<>>), d) = ks \o Lines(d)
<1> DEFINE base == Append(ks, <<>>)
           P == {r \in Seq(Symbols) : Fold(LineStep, base, r) = ks \o Lines(r)}
<1>0. <<>> \in Seq(Symbols)
  BY EmptySeq
<1>1. base \in LineLists
  BY <1>0, PeelAppend DEF LineLists
<1>2. <<>> \in P
  <2>1. Fold(LineStep, base, <<>>) = base
    <3> HIDE DEF base
    <3> QED BY <1>1, LineStepFacts, FoldEmpty
  <2>2. ks \o OneLine = base
    BY <1>0, AppendOne DEF OneLine
  <2>3. Lines(<<>>) = OneLine
    BY <1>0, LinesFacts
  <2> QED BY <1>0, <2>1, <2>2, <2>3
<1>3. ASSUME NEW r \in Seq(Symbols), r \in P, NEW b \in Symbols PROVE Append(r, b) \in P
  <2>1. Append(r, b) \in Seq(Symbols) /\ Lines(r) \in LineLists /\ Lines(Append(r, b)) = Lined(Lines(r), b)
    BY PeelAppend, LinesFacts
  <2>2. Fold(LineStep, base, r) = ks \o Lines(r)
    BY <1>3
  <2> HIDE DEF base
  <2>3. Fold(LineStep, base, Append(r, b)) = LineStep[<<Fold(LineStep, base, r), b>>]
        /\ Fold(LineStep, base, r) \in LineLists
    BY <1>1, LineStepFacts, FoldAppend, FoldType
  <2>4. Fold(LineStep, base, Append(r, b)) = Lined(Fold(LineStep, base, r), b)
    BY <2>3, LineStepFacts
  <2>5. Lined(ks \o Lines(r), b) = ks \o Lined(Lines(r), b)
    BY <2>1, LinedConcat
  <2> QED BY <2>1, <2>2, <2>4, <2>5
<1>4. Seq(Symbols) \subseteq P
  <2> HIDE DEF P
  <2> QED BY <1>2, <1>3, SeqInduction
<1> QED
  BY <1>4

\* A text in front of a new line.
AtLine(d) == d = <<>> \/ Last(d) = LF

\* A text that ends with an LF has an empty last line.
LEMMA LinesAtLine ==
    ASSUME NEW d \in Seq(Symbols), AtLine(d)
    PROVE  \E ks \in Seq(Seq(Symbols)) : Lines(d) = Append(ks, <<>>)
<1>1. CASE d = <<>>
  <2>1. Lines(d) = OneLine
    BY <1>1, LinesFacts
  <2>2. <<>> \in Seq(Symbols) /\ <<>> \in Seq(Seq(Symbols))
    BY EmptySeq
  <2>3. OneLine = Append(<<>>, <<>>)
    BY <2>2, One DEF OneLine
  <2> QED BY <2>1, <2>2, <2>3
<1>2. CASE d # <<>>
  <2> DEFINE q == Front(d)
  <2>1. q \in Seq(Symbols) /\ d = Append(q, LF)
    BY <1>2, Peel DEF AtLine
  <2> HIDE DEF q
  <2>2. Lines(Append(q, LF)) = Lined(Lines(q), LF) /\ Lines(q) \in LineLists
    BY <2>1, LinesFacts, TextBytes
  <2>3. Lined(Lines(q), LF) = Append(Lines(q), <<>>)
    BY DEF Lined
  <2> QED BY <2>1, <2>2, <2>3 DEF LineLists
<1> QED
  BY <1>1, <1>2
-----------------------------------------------------------------------------
(***************************************************************************)
(* Equipment.                                                              *)
(***************************************************************************)
\* TrimSpace returns a part of the line.
LEMMA TrimType ==
    ASSUME NEW l \in Seq(Symbols)
    PROVE  Trim(l) \in Seq(Symbols)
<1> DEFINE kept == {i \in DOMAIN l : l[i] # CR}
<1>1. Len(l) \in Nat /\ DOMAIN l = 1..Len(l)
  BY LenProperties
<1>2. CASE kept = {}
  BY <1>2, EmptySeq DEF Trim
<1>3. CASE kept # {}
  <2>1. kept \subseteq 1..Len(l)
    BY <1>1
  <2>2. Trim(l) = SubSeq(l, Min(kept), Max(kept))
    BY <1>3 DEF Trim
  <2> HIDE DEF kept
  <2>3. Min(kept) \in 1..Len(l) /\ Max(kept) \in 1..Len(l)
    BY <1>1, <1>3, <2>1, LeastPlace, GreatestPlace
  <2>4. Min(kept) \in Int /\ Max(kept) \in Int /\ 1 <= Min(kept) /\ Max(kept) <= Len(l)
    BY <1>1, <2>3
  <2> QED BY <2>2, <2>4, Cut
<1> QED
  BY <1>2, <1>3

\* A label ends in its line, and the item is what follows.
LEMMA ItemType ==
    ASSUME NEW l \in Seq(Symbols)
    PROVE  LabelEnd(l) \in 0..Len(l) /\ Item(l) \in Seq(Symbols)
<1> DEFINE colons == {i \in DOMAIN l : l[i][1] = "colon"}
<1>1. Len(l) \in Nat /\ DOMAIN l = 1..Len(l) /\ (l # <<>> => Len(l) # 0)
  BY LenProperties, EmptySeq
<1>2. LabelEnd(l) \in 0..Len(l)
  <2>1. colons # {} => Min(colons) \in 1..Len(l)
    <3>1. colons \subseteq 1..Len(l)
      BY <1>1
    <3> HIDE DEF colons
    <3> QED BY <1>1, <3>1, LeastPlace
  <2>2. LabelEnd(l) = CASE l # <<>> /\ l[1][1] = "label" -> 1
                        [] colons # {} -> Min(colons)
                        [] OTHER -> 0
    BY DEF LabelEnd
  <2> HIDE DEF colons
  <2>3. 0 \in 0..Len(l) /\ (l # <<>> => 1 \in 0..Len(l)) /\ \A m \in 1..Len(l) : m \in 0..Len(l)
    BY <1>1
  <2> QED BY <2>1, <2>2, <2>3
<1> DEFINE n == LabelEnd(l)
<1>3. SubSeq(l, n + 1, Len(l)) \in Seq(Symbols)
  <2> HIDE DEF n
  <2>1. n \in 0..Len(l)
    BY <1>2 DEF n
  <2> QED BY <1>1, <2>1, Cut
<1>4. Item(l) \in Seq(Symbols)
  BY <1>3, TrimType DEF Item
<1> QED
  BY <1>2, <1>4

\* A line fills slots only with an item that is not empty.
LEMMA SlotsFilledType ==
    ASSUME NEW l \in Seq(Symbols)
    PROVE  /\ SlotsFilled(l) \subseteq Slots
           /\ SlotsFilled(l) # {} => Item(l) # NoItem
<1>1. SlotsNamed(l) \subseteq Slots
  BY SlotsAssumption DEF SlotsNamed
<1> QED
  BY <1>1 DEF SlotsFilled, NoItem

\* Maps without an empty item.
Filled == {m \in EquipmentMaps : \A s \in Slots : m[s] # <<NoItem>>}

\* An entry of a map is told from no entry.
LEMMA OneItem ==
    ASSUME NEW i \in Seq(Symbols)
    PROVE  <<i>> \in [1..1 -> Seq(Symbols)] /\ <<i>> # None /\ (<<i>> = <<NoItem>> => i = NoItem)
<1>1. <<i>> \in Seq(Seq(Symbols)) /\ Len(<<i>>) = 1 /\ <<i>>[1] = i
  OBVIOUS
<1>2. <<i>> \in [1..1 -> Seq(Symbols)]
  <2>1. <<i>> \in [1..Len(<<i>>) -> Seq(Symbols)]
    BY <1>1, LenProperties
  <2> QED BY <1>1, <2>1
<1> QED
  BY <1>1, <1>2 DEF None, NoItem

\* A line keeps the maps typed, and without empty items.
LEMMA WornFacts ==
    ASSUME NEW maps \in SUBSET EquipmentMaps, NEW line \in Seq(Symbols)
    PROVE  /\ Worn(maps, line) \in SUBSET EquipmentMaps
           /\ maps \subseteq Filled => Worn(maps, line) \subseteq Filled
<1> DEFINE l == Trim(line)
           i == Item(l)
           F == SlotsFilled(l)
<1>1. l \in Seq(Symbols)
  BY TrimType
<1> HIDE DEF l
<1>2. i \in Seq(Symbols) /\ F \subseteq Slots /\ (F # {} => i # NoItem)
  BY <1>1, ItemType, SlotsFilledType
<1>3. Worn(maps, line) = IF F = {} THEN maps ELSE {[m EXCEPT ![s] = <<i>>] : m \in maps, s \in F}
  BY DEF Worn, l
<1> HIDE DEF i, F
<1>4. <<i>> \in [1..1 -> Seq(Symbols)] /\ (<<i>> = <<NoItem>> => i = NoItem)
  BY <1>2, OneItem
<1>5. ASSUME NEW m \in EquipmentMaps, NEW s \in F
      PROVE  /\ [m EXCEPT ![s] = <<i>>] \in EquipmentMaps
             /\ m \in Filled => [m EXCEPT ![s] = <<i>>] \in Filled
  <2>1. [m EXCEPT ![s] = <<i>>] \in EquipmentMaps
    BY <1>4 DEF EquipmentMaps
  <2>2. \A x \in Slots : [m EXCEPT ![s] = <<i>>][x] = IF x = s THEN <<i>> ELSE m[x]
    BY DEF EquipmentMaps
  <2>3. m \in Filled => \A x \in Slots : [m EXCEPT ![s] = <<i>>][x] # <<NoItem>>
    BY <1>2, <1>4, <2>2 DEF Filled
  <2> QED BY <2>1, <2>3 DEF Filled
<1> QED
  BY <1>3, <1>5

\* The empty map has no entries.
LEMMA EmptyMapFilled == EmptyMap \in Filled /\ \A s \in Slots : EmptyMap[s] = None
<1>1. None # <<NoItem>>
  BY DEF None, NoItem
<1> QED
  BY <1>1 DEF EmptyMap, Filled, EquipmentMaps

\* ParseEquipment is a fold over lines.
LEMMA WornStepFacts ==
    /\ IsStep(WornStep, SUBSET EquipmentMaps, Seq(Symbols))
    /\ \A ms \in SUBSET EquipmentMaps, l \in Seq(Symbols) : WornStep[<<ms, l>>] = Worn(ms, l)
    /\ {EmptyMap} \in SUBSET EquipmentMaps
<1>1. \A p \in (SUBSET EquipmentMaps) \X Seq(Symbols) : Worn(p[1], p[2]) \in SUBSET EquipmentMaps
  BY WornFacts
<1>2. IsStep(WornStep, SUBSET EquipmentMaps, Seq(Symbols))
  BY <1>1 DEF WornStep, IsStep
<1>3. \A ms \in SUBSET EquipmentMaps, l \in Seq(Symbols) : WornStep[<<ms, l>>] = Worn(ms, l)
  BY DEF WornStep
<1> QED
  BY <1>2, <1>3, EmptyMapFilled DEF Filled

\* Parse returns no map with an empty item.
LEMMA ParsedFilled ==
    ASSUME NEW t \in Seq(Symbols)
    PROVE  ParseEquipment(t) \subseteq Filled /\ Filled \subseteq EquipmentMaps
<1> DEFINE V == SUBSET EquipmentMaps
           W == SUBSET Filled
           b == {EmptyMap}
           L == Seq(Symbols)
<1>1. Lines(t) \in Seq(L)
  BY LinesFacts DEF LineLists
<1>2. IsStep(WornStep, V, L)
  BY WornStepFacts
<1>3. W \subseteq V
  BY DEF Filled
<1>4. b \in W
  BY EmptyMapFilled
<1>5. \A v \in W, e \in L : WornStep[<<v, e>>] \in W
  <2> SUFFICES ASSUME NEW v \in W, NEW e \in L PROVE WornStep[<<v, e>>] \in W
    OBVIOUS
  <2>1. v \in SUBSET EquipmentMaps /\ v \subseteq Filled /\ e \in Seq(Symbols)
    BY <1>3
  <2>2. WornStep[<<v, e>>] = Worn(v, e)
    BY <2>1, WornStepFacts
  <2>3. Worn(v, e) \subseteq Filled
    BY <2>1, WornFacts
  <2> QED BY <2>2, <2>3
<1> HIDE DEF V, W, b, L
<1>6. Fold(WornStep, b, Lines(t)) \in W
  BY <1>1, <1>2, <1>3, <1>4, <1>5, FoldWithin
<1> QED
  BY <1>6 DEF ParseEquipment, b, W, Filled

\* What merging two maps yields, with mergeSnapshot's precedence.
LEMMA OverFacts ==
    ASSUME NEW a \in EquipmentMaps, NEW b \in EquipmentMaps
    PROVE  /\ Over(b, a) \in EquipmentMaps /\ Over(EmptyMap, a) = a /\ Over(b, EmptyMap) = b
           /\ a \in Filled /\ b \in Filled => Over(b, a) \in Filled
           /\ \A s \in Slots, i \in Seq(Symbols) :
                  Over([b EXCEPT ![s] = <<i>>], a) = [Over(b, a) EXCEPT ![s] = <<i>>]
<1>1. Over(b, a) \in EquipmentMaps
  BY DEF Over, EquipmentMaps
<1>2. Over(EmptyMap, a) = a
  BY EmptyMapFilled DEF Over, EquipmentMaps
<1>3. Over(b, EmptyMap) = b
  <2>1. \A s \in Slots : Over(b, EmptyMap)[s] = b[s]
    BY EmptyMapFilled DEF Over
  <2> QED BY <2>1 DEF Over, EquipmentMaps
<1>4. a \in Filled /\ b \in Filled => Over(b, a) \in Filled
  BY <1>1 DEF Over, Filled
<1>5. ASSUME NEW s \in Slots, NEW i \in Seq(Symbols)
      PROVE  Over([b EXCEPT ![s] = <<i>>], a) = [Over(b, a) EXCEPT ![s] = <<i>>]
  <2> DEFINE v == <<i>>
             c == [b EXCEPT ![s] = v]
             o == Over(b, a)
  <2>1. v # None
    BY OneItem
  <2> HIDE DEF v
  <2>2. \A x \in Slots : c[x] = IF x = s THEN v ELSE b[x]
    BY DEF EquipmentMaps
  <2>3. \A x \in Slots : o[x] = IF b[x] # None THEN b[x] ELSE a[x]
    BY DEF Over
  <2>4. o = [x \in Slots |-> o[x]]
    BY DEF Over
  <2> HIDE DEF c, o
  <2>5. \A x \in Slots : Over(c, a)[x] = [o EXCEPT ![s] = v][x]
    <3> SUFFICES ASSUME NEW x \in Slots PROVE Over(c, a)[x] = [o EXCEPT ![s] = v][x]
      OBVIOUS
    <3>1. Over(c, a)[x] = IF c[x] # None THEN c[x] ELSE a[x]
      BY DEF Over
    <3>2. [o EXCEPT ![s] = v][x] = IF x = s THEN v ELSE o[x]
      BY <2>4
    <3> QED BY <2>1, <2>2, <2>3, <3>1, <3>2
  <2>6. Over(c, a) = [x \in Slots |-> Over(c, a)[x]]
    BY DEF Over
  <2>7. [o EXCEPT ![s] = v] = [x \in Slots |-> [o EXCEPT ![s] = v][x]]
    BY <2>4
  <2>8. Over(c, a) = [o EXCEPT ![s] = v]
    BY <2>5, <2>6, <2>7
  <2> QED BY <2>8 DEF c, o, v
<1> QED
  BY <1>1, <1>2, <1>3, <1>4, <1>5

\* A line does to the merged maps what it does to the maps of its own read.
LEMMA WornOver ==
    ASSUME NEW M \in SUBSET EquipmentMaps, NEW N \in SUBSET EquipmentMaps, NEW a \in EquipmentMaps,
           \A m \in M : Over(m, a) \in N, NEW line \in Seq(Symbols)
    PROVE  \A m \in Worn(M, line) : Over(m, a) \in Worn(N, line)
<1> DEFINE l == Trim(line)
           i == Item(l)
           F == SlotsFilled(l)
<1>1. l \in Seq(Symbols)
  BY TrimType
<1> HIDE DEF l
<1>2. i \in Seq(Symbols) /\ F \subseteq Slots
  BY <1>1, ItemType, SlotsFilledType
<1>3. /\ Worn(M, line) = IF F = {} THEN M ELSE {[m EXCEPT ![s] = <<i>>] : m \in M, s \in F}
      /\ Worn(N, line) = IF F = {} THEN N ELSE {[m EXCEPT ![s] = <<i>>] : m \in N, s \in F}
  BY DEF Worn, l
<1> HIDE DEF i, F
<1>4. CASE F = {}
  BY <1>3, <1>4
<1>5. CASE F # {}
  <2> TAKE x \in Worn(M, line)
  <2>1. PICK m \in M, s \in F : x = [m EXCEPT ![s] = <<i>>]
    BY <1>3, <1>5
  <2>2. m \in EquipmentMaps /\ s \in Slots
    BY <1>2
  <2>3. \A n \in EquipmentMaps, t \in Slots, j \in Seq(Symbols) :
          Over([n EXCEPT ![t] = <<j>>], a) = [Over(n, a) EXCEPT ![t] = <<j>>]
    BY OverFacts
  <2>4. Over(x, a) = [Over(m, a) EXCEPT ![s] = <<i>>]
    BY <1>2, <2>1, <2>2, <2>3
  <2> DEFINE n == Over(m, a)
  <2>5. n \in N /\ s \in F
    OBVIOUS
  <2>6. Over(x, a) = [n EXCEPT ![s] = <<i>>]
    BY <2>4
  <2> HIDE DEF n
  <2>7. [n EXCEPT ![s] = <<i>>] \in Worn(N, line)
    BY <1>3, <1>5, <2>5
  <2> QED BY <2>6, <2>7
<1> QED
  BY <1>4, <1>5

\* So do all the lines of a read.
LEMMA WornFold ==
    ASSUME NEW N \in SUBSET EquipmentMaps, NEW a \in N, NEW ls \in Seq(Seq(Symbols))
    PROVE  \A m \in Fold(WornStep, {EmptyMap}, ls) : Over(m, a) \in Fold(WornStep, N, ls)
<1> DEFINE b == {EmptyMap}
           G(q) == Fold(WornStep, b, q)
           H(q) == Fold(WornStep, N, q)
           L == Seq(Symbols)
           P == {q \in Seq(L) : \A m \in G(q) : Over(m, a) \in H(q)}
<1>0. b \in SUBSET EquipmentMaps /\ IsStep(WornStep, SUBSET EquipmentMaps, L) /\ a \in EquipmentMaps
  BY WornStepFacts
<1>1. <<>> \in P
  <2>1. \A m \in b : Over(m, a) \in N
    BY <1>0, OverFacts
  <2> HIDE DEF b, L
  <2>2. <<>> \in Seq(L) /\ G(<<>>) = b /\ H(<<>>) = N
    BY <1>0, FoldEmpty, EmptySeq
  <2> QED BY <2>1, <2>2
<1>2. ASSUME NEW q \in Seq(L), q \in P, NEW e \in L PROVE Append(q, e) \in P
  <2>1. \A m \in G(q) : Over(m, a) \in H(q)
    BY <1>2
  <2>2. \A ms \in SUBSET EquipmentMaps, l \in L : WornStep[<<ms, l>>] = Worn(ms, l)
    BY WornStepFacts
  <2>3. Append(q, e) \in Seq(L)
    OBVIOUS
  <2>7. e \in Seq(Symbols)
    OBVIOUS
  <2> HIDE DEF b, L
  <2>4. G(Append(q, e)) = WornStep[<<G(q), e>>] /\ H(Append(q, e)) = WornStep[<<H(q), e>>]
        /\ G(q) \in SUBSET EquipmentMaps /\ H(q) \in SUBSET EquipmentMaps
    <3> DEFINE V == SUBSET EquipmentMaps
    <3>1. N \in V /\ b \in V /\ IsStep(WornStep, V, L)
      BY <1>0
    <3> HIDE DEF V
    <3>2. G(Append(q, e)) = WornStep[<<G(q), e>>] /\ G(q) \in V
      BY <3>1, FoldAppend, FoldType
    <3>3. H(Append(q, e)) = WornStep[<<H(q), e>>] /\ H(q) \in V
      BY <3>1, FoldAppend, FoldType
    <3> QED BY <3>2, <3>3 DEF V
  <2> HIDE DEF G, H
  <2>5. G(Append(q, e)) = Worn(G(q), e) /\ H(Append(q, e)) = Worn(H(q), e)
    BY <2>2, <2>4
  <2>6. \A m \in Worn(G(q), e) : Over(m, a) \in Worn(H(q), e)
    BY <1>0, <2>1, <2>4, <2>7, WornOver
  <2> QED BY <2>3, <2>5, <2>6
<1>3. Seq(L) \subseteq P
  <2> HIDE DEF P, L
  <2> QED BY <1>1, <1>2, SeqInduction
<1> QED
  BY <1>3

\* A line with nothing in it does nothing.
LEMMA WornNothing ==
    ASSUME NEW maps
    PROVE  Worn(maps, <<>>) = maps
<1>1. DOMAIN <<>> = {}
  BY EmptySeq
<1>2. Trim(<<>>) = <<>>
  BY <1>1 DEF Trim
<1>3. LabelEnd(<<>>) = 0
  BY <1>1 DEF LabelEnd
<1>4. SlotsFilled(<<>>) = {}
  BY <1>3 DEF SlotsFilled
<1> QED
  BY <1>2, <1>4 DEF Worn

\* What is worn after two reads, the first of which ended at a line's end.
LEMMA EquipmentConcat ==
    ASSUME NEW c \in Seq(Symbols), NEW d \in Seq(Symbols), AtLine(c),
           NEW a \in ParseEquipment(c), NEW b \in ParseEquipment(d)
    PROVE  Over(b, a) \in ParseEquipment(c \o d)
<1> DEFINE L == Seq(Symbols)
           z == {EmptyMap}
           ld == Lines(d)
<1>1. PICK ks \in Seq(L) : Lines(c) = Append(ks, <<>>)
  BY LinesAtLine
<1> DEFINE N == Fold(WornStep, z, ks)
<1>2. ld \in Seq(L)
  BY LinesFacts DEF LineLists
<1>3. Lines(c \o d) = ks \o ld
  <2>1. Lines(c \o d) = Fold(LineStep, OneLine, c \o d) /\ Lines(c) = Fold(LineStep, OneLine, c)
    BY DEF Lines, OneLine
  <2>2. Fold(LineStep, OneLine, c \o d) = Fold(LineStep, Fold(LineStep, OneLine, c), d)
    BY LineStepFacts, FoldConcat
  <2>3. Fold(LineStep, Append(ks, <<>>), d) = ks \o ld
    BY LinesFrom
  <2> HIDE DEF ld
  <2> QED BY <1>1, <2>1, <2>2, <2>3
<1>4. z \in SUBSET EquipmentMaps /\ IsStep(WornStep, SUBSET EquipmentMaps, L) /\ <<>> \in L
  BY WornStepFacts, EmptySeq
<1>5. ParseEquipment(c) = Fold(WornStep, z, Append(ks, <<>>))
      /\ ParseEquipment(d) = Fold(WornStep, z, ld)
      /\ ParseEquipment(c \o d) = Fold(WornStep, z, ks \o ld)
  BY <1>1, <1>3 DEF ParseEquipment
<1>6. \A ms \in SUBSET EquipmentMaps : WornStep[<<ms, <<>> >>] = ms
  BY <1>4, WornStepFacts, WornNothing
<1>7. \A n \in SUBSET EquipmentMaps : \A x \in n : \A m \in Fold(WornStep, z, ld) :
        Over(m, x) \in Fold(WornStep, n, ld)
  BY <1>2, WornFold
<1> HIDE DEF L, z, ld
<1>8. N \in SUBSET EquipmentMaps
  BY <1>4, FoldType
<1>9. Fold(WornStep, z, Append(ks, <<>>)) = N
  <2>1. Fold(WornStep, z, Append(ks, <<>>)) = WornStep[<<N, <<>> >>]
    <3>1. \A e \in L : Fold(WornStep, z, Append(ks, e)) = WornStep[<<N, e>>]
      BY <1>4, FoldAppend
    <3> HIDE DEF N
    <3> QED BY <1>4, <3>1
  <2> HIDE DEF N
  <2> QED BY <1>6, <1>8, <2>1
<1>10. Fold(WornStep, z, ks \o ld) = Fold(WornStep, N, ld)
  BY <1>2, <1>4, FoldConcat
<1> HIDE DEF N
<1> QED
  BY <1>5, <1>7, <1>8, <1>9, <1>10
-----------------------------------------------------------------------------
(***************************************************************************)
(* The text that the parser sees, cut at a line's end.                     *)
(***************************************************************************)
\* The text that Parse looks at.
Clean(d) == Normalize(Decode(d))

\* With no color code pending, what came before changes nothing.
LEMMA StripFrom ==
    ASSUME NEW o \in Seq(Symbols), NEW d \in Seq(Symbols)
    PROVE  Fold(StripStep, [out |-> o, esc |-> FALSE], d)
             = [out |-> o \o Coloring(d).out, esc |-> Coloring(d).esc]
<1> DEFINE base == [out |-> o, esc |-> FALSE]
           G(r) == Fold(StripStep, base, r)
           P == {r \in Seq(Symbols) : G(r) = [out |-> o \o Coloring(r).out, esc |-> Coloring(r).esc]}
<1>0. base \in Colors
  BY DEF Colors
<1>1. <<>> \in P
  <2>1. <<>> \in Seq(Symbols) /\ o \o <<>> = o
    BY EmptySeq
  <2>2. Coloring(<<>>) = Uncolored /\ Uncolored.out = <<>> /\ Uncolored.esc = FALSE
    BY <2>1, ColoringFacts DEF Uncolored
  <2>3. G(<<>>) = base
    <3> HIDE DEF base
    <3> QED BY <1>0, StripStepType, FoldEmpty
  <2>4. base = [out |-> o \o Coloring(<<>>).out, esc |-> Coloring(<<>>).esc]
    BY <2>1, <2>2
  <2> QED BY <2>1, <2>3, <2>4
<1>2. ASSUME NEW r \in Seq(Symbols), r \in P, NEW b \in Symbols PROVE Append(r, b) \in P
  <2> DEFINE c == Coloring(r)
             co == c.out
             ce == c.esc
             g == G(r)
             t == Append(r, b)
  <2>1. g = [out |-> o \o co, esc |-> ce]
    BY <1>2
  <2>2. c \in Colors /\ Coloring(t) = Stripped(c, b) /\ t \in Seq(Symbols)
    BY ColoringFacts
  <2>3. ce => co # <<>>
    BY PendingColor
  <2>4. co \in Seq(Symbols) /\ ce \in BOOLEAN
    BY <2>2 DEF Colors
  <2>5. G(t) = Stripped(g, b)
    <3> HIDE DEF base
    <3>1. G(t) = StripStep[<<g, b>>] /\ g \in Colors
      BY <1>0, StripStepType, FoldAppend, FoldType
    <3> HIDE DEF g, G
    <3> QED BY <3>1, StripStepType
  <2> HIDE DEF t, g, G
  <2>6. Stripped(c, b) = IF ce /\ b = ColorEnd THEN [out |-> Front(co), esc |-> FALSE]
                         ELSE [out |-> Append(co, b), esc |-> b = Esc]
    BY DEF Stripped
  <2>7. Stripped(g, b) = IF ce /\ b = ColorEnd THEN [out |-> Front(o \o co), esc |-> FALSE]
                         ELSE [out |-> Append(o \o co, b), esc |-> b = Esc]
    <3>1. g.out = o \o co /\ g.esc = ce
      BY <2>1
    <3> HIDE DEF co, ce
    <3> QED BY <3>1 DEF Stripped
  <2> HIDE DEF c, co, ce
  <2>8. ce => Front(o \o co) = o \o Front(co)
    BY <2>3, <2>4, ConcatLast
  <2>9. Append(o \o co, b) = o \o Append(co, b)
    <3>1. co \in Seq(Symbols)
      BY <2>4
    <3>2. o \o Append(co, b) = Append(o \o co, b)
      BY <3>1
    <3> QED BY <3>2
  <2>10. Stripped(g, b) = [out |-> o \o Coloring(t).out, esc |-> Coloring(t).esc]
    <3> DEFINE k == Coloring(t)
    <3>1. k = IF ce /\ b = ColorEnd THEN [out |-> Front(co), esc |-> FALSE]
              ELSE [out |-> Append(co, b), esc |-> b = Esc]
      BY <2>2, <2>6
    <3> HIDE DEF k
    <3>2. CASE ce /\ b = ColorEnd
      <4>1. k.out = Front(co) /\ k.esc = FALSE
        BY <3>1, <3>2
      <4> QED BY <2>7, <2>8, <3>2, <4>1 DEF k
    <3>3. CASE ~(ce /\ b = ColorEnd)
      <4>1. k.out = Append(co, b) /\ k.esc = (b = Esc)
        BY <3>1, <3>3
      <4> QED BY <2>7, <2>9, <3>3, <4>1 DEF k
    <3> QED BY <3>2, <3>3
  <2> QED BY <2>2, <2>5, <2>10 DEF t, G
<1>3. Seq(Symbols) \subseteq P
  <2> HIDE DEF P
  <2> QED BY <1>1, <1>2, SeqInduction
<1> QED
  BY <1>3

\* An LF ends a pending color code, so two texts that meet there are stripped
\* one by one.
LEMMA StripAtLine ==
    ASSUME NEW c \in Seq(Symbols), AtLine(c)
    PROVE  /\ ~Coloring(c).esc /\ AtLine(StripColors(c)) /\ StripColors(c) \in Seq(Symbols)
           /\ \A d \in Seq(Symbols) : StripColors(c \o d) = StripColors(c) \o StripColors(d)
<1>1. Coloring(c).esc = FALSE /\ AtLine(Coloring(c).out)
  <2>1. CASE c = <<>>
    <3>1. Coloring(c) = Uncolored
      BY <2>1, ColoringFacts
    <3> QED BY <3>1 DEF Uncolored, AtLine
  <2>2. CASE c # <<>>
    <3> DEFINE q == Front(c)
    <3>1. q \in Seq(Symbols) /\ c = Append(q, LF)
      BY <2>2, Peel DEF AtLine
    <3> HIDE DEF q
    <3> DEFINE k == Coloring(q)
    <3>2. k \in Colors /\ Coloring(c) = Stripped(k, LF)
      BY <3>1, ColoringFacts, TextBytes
    <3>3. LF # ColorEnd /\ LF # Esc
      BY Kinds
    <3> HIDE DEF k
    <3>4. Stripped(k, LF) = [out |-> Append(k.out, LF), esc |-> FALSE]
      BY <3>3 DEF Stripped
    <3>5. Last(Append(k.out, LF)) = LF
      BY <3>2, TextBytes, PeelAppend DEF Colors
    <3> QED BY <3>2, <3>4, <3>5 DEF AtLine
  <2> QED BY <2>1, <2>2
<1>2. StripColors(c) = Coloring(c).out /\ Coloring(c) \in Colors
  BY ColoringFacts
<1>3. ASSUME NEW d \in Seq(Symbols) PROVE StripColors(c \o d) = StripColors(c) \o StripColors(d)
  <2> DEFINE o == StripColors(c)
  <2>1. Coloring(c) = [out |-> o, esc |-> FALSE] /\ o \in Seq(Symbols)
    BY <1>1, <1>2 DEF Colors
  <2> HIDE DEF o
  <2>2. Coloring(c \o d) = Fold(StripStep, Coloring(c), d)
    BY StripStepType, FoldConcat DEF Coloring
  <2>3. Coloring(c \o d).out = o \o Coloring(d).out
    <3>1. Coloring(c \o d) = [out |-> o \o Coloring(d).out, esc |-> Coloring(d).esc]
      BY <2>1, <2>2, StripFrom
    <3> DEFINE k == Coloring(c \o d)
               x == Coloring(d).out
               y == Coloring(d).esc
    <3>2. k = [out |-> o \o x, esc |-> y]
      BY <3>1
    <3> HIDE DEF k, x, y
    <3>3. k.out = o \o x
      BY <3>2
    <3> QED BY <3>3 DEF k, x
  <2>4. c \o d \in Seq(Symbols) /\ StripColors(d) = Coloring(d).out
    BY ConcatProperties, ColoringFacts
  <2>5. StripColors(c \o d) = Coloring(c \o d).out
    BY <2>4, ColoringFacts
  <2> QED BY <2>3, <2>4, <2>5 DEF o
<1> QED
  BY <1>1, <1>2, <1>3 DEF Colors

\* Replacing CR LF keeps a text at a line's end.
LEMMA AtLineJoin ==
    ASSUME NEW c \in Seq(Symbols), AtLine(c)
    PROVE  AtLine(JoinCRLF(c))
BY JoinFacts, JoinEnds DEF AtLine

\* Decode does, too, and no pair that it looks at goes on after an LF.
LEMMA AtLineDecode ==
    ASSUME NEW c \in Seq(Symbols), AtLine(c)
    PROVE  AtLine(Decode(c)) /\ \A d \in Seq(Symbols) : ~Splits(c, d)
<1> DEFINE u == Cp1251(c)
           j == JoinCRLF(u)
<1>1. u \in Seq(Symbols) /\ AtLine(u)
  BY CpType, CpEnds, TextBytes DEF AtLine, Letter
<1> HIDE DEF u
<1>2. j \in Seq(Symbols) /\ AtLine(j)
  BY <1>1, JoinFacts, AtLineJoin
<1> HIDE DEF j
<1>3. AtLine(FixYa(j))
  <2>1. CASE j = <<>>
    BY <2>1, <1>2, YaFacts DEF AtLine
  <2>2. CASE j # <<>>
    <3> DEFINE q == Front(j)
    <3>1. q \in Seq(Symbols) /\ j = Append(q, LF)
      BY <1>2, <2>2, Peel DEF AtLine
    <3> HIDE DEF q
    <3>2. FixYa(j) = YaFixed(FixYa(q), LF) /\ FixYa(q) \in Seq(Symbols)
      BY <3>1, YaFacts, TextBytes
    <3>3. YaFixed(FixYa(q), LF) = Append(FixYa(q), LF)
      BY TextBytes DEF YaFixed
    <3>4. Last(Append(FixYa(q), LF)) = LF
      BY <3>2, TextBytes, PeelAppend
    <3> QED BY <3>2, <3>3, <3>4 DEF AtLine
  <2> QED BY <2>1, <2>2
<1>4. Decode(c) = FixYa(j)
  BY DEF Decode, j, u
<1>5. Decode(<<>>) = <<>>
  BY EmptySeq, CpFacts, JoinFacts, YaFacts DEF Decode
<1>6. Decode(c) = <<>> => c = <<>>
  <2> SUFFICES ASSUME Decode(c) = <<>>, c # <<>> PROVE FALSE
    OBVIOUS
  <2>1. u # <<>>
    BY CpEnds DEF u
  <2>2. j # <<>>
    BY <1>1, <2>1, JoinEnds DEF j
  <2>3. Front(j) \in Seq(Symbols) /\ Last(j) \in Symbols /\ j = Append(Front(j), Last(j))
    BY <1>2, <2>2, Peel
  <2>4. FixYa(j) = YaFixed(FixYa(Front(j)), Last(j)) /\ FixYa(Front(j)) \in Seq(Symbols)
    BY <2>3, YaFacts
  <2>5. \A q \in Seq(Symbols), e \in Symbols : Append(q, e) # <<>>
    BY PeelAppend
  <2> QED BY <1>4, <2>3, <2>4, <2>5, TextBytes DEF YaFixed
<1>7. ASSUME NEW d \in Seq(Symbols) PROVE ~Splits(c, d)
  BY <1>3, <1>4, <1>6, TextBytes DEF Splits, AtLine
<1> QED
  BY <1>3, <1>4, <1>7

\* Two reads that meet at a line's end are cleaned one by one.
LEMMA CleanConcat ==
    ASSUME NEW c \in Seq(Symbols), NEW d \in Seq(Symbols), AtLine(c)
    PROVE  /\ Clean(c) \in Seq(Symbols) /\ Clean(d) \in Seq(Symbols) /\ AtLine(Clean(c))
           /\ Clean(c \o d) = Clean(c) \o Clean(d)
<1> DEFINE u == Decode(c)
           v == Decode(d)
           x == StripColors(u)
           y == StripColors(v)
<1>1. u \in Seq(Symbols) /\ v \in Seq(Symbols) /\ AtLine(u) /\ Decode(c \o d) = u \o v
  BY DecodeType, AtLineDecode, DecodeConcat
<1>2. Clean(c) = JoinCRLF(x) /\ Clean(d) = JoinCRLF(y) /\ Clean(c \o d) = JoinCRLF(StripColors(u \o v))
  BY <1>1 DEF Clean, Normalize
<1> HIDE DEF u, v
<1>3. x \in Seq(Symbols) /\ AtLine(x) /\ StripColors(u \o v) = x \o y
  BY <1>1, StripAtLine
<1>4. y \in Seq(Symbols)
  BY <1>1, ColoringFacts DEF Colors
<1> HIDE DEF x, y
<1>5. JoinCRLF(x) \in Seq(Symbols) /\ JoinCRLF(y) \in Seq(Symbols) /\ AtLine(JoinCRLF(x))
  BY <1>3, <1>4, JoinFacts, AtLineJoin
<1>6. JoinCRLF(x \o y) = JoinCRLF(x) \o JoinCRLF(y)
  BY <1>3, <1>4, JoinConcat, TextBytes DEF AtLine
<1> QED
  BY <1>2, <1>3, <1>5, <1>6

\* No map has an empty item; and as long as every read ended at a line's end, the
\* delta over the stored map is what parsing all bytes at once may give.
EquipmentInv ==
    /\ delta.equipment \in Filled /\ store.equipment \in Filled
    /\ ~midLine => /\ AtLine(passed)
                   /\ Over(delta.equipment, store.equipment) \in ParseEquipment(Clean(passed))

\* What Parse makes of bytes.
LEMMA CleanType ==
    ASSUME NEW d \in Seq(Symbols)
    PROVE  /\ Clean(d) \in Seq(Symbols) /\ ParseEquipment(Clean(d)) \subseteq Filled
           /\ Clean(d) = Normalize(Decode(d))
<1>1. Decode(d) \in Seq(Symbols)
  BY DecodeType
<1>2. StripColors(Decode(d)) \in Seq(Symbols)
  BY <1>1, ColoringFacts DEF Colors
<1>3. Clean(d) \in Seq(Symbols)
  BY <1>2, JoinFacts DEF Clean, Normalize
<1> QED
  BY <1>3, ParsedFilled DEF Clean

\* Nothing is worn at first.
LEMMA EquipmentInvInit == Init => EquipmentInv
<1> SUFFICES ASSUME Init PROVE EquipmentInv
  OBVIOUS
<1>1. passed = <<>> /\ delta.equipment = EmptyMap /\ store.equipment = EmptyMap
  BY DEF Init, EmptyDelta
<1>2. EmptyMap \in Filled /\ EmptyMap \in EquipmentMaps
  BY EmptyMapFilled DEF Filled
<1>3. Over(EmptyMap, EmptyMap) = EmptyMap
  BY <1>2, OverFacts
<1>4. <<>> \in Seq(Symbols) /\ AtLine(<<>>)
  BY EmptySeq DEF AtLine
<1>5. Clean(<<>>) = <<>>
  <2>1. Decode(<<>>) = <<>>
    BY <1>4, CpFacts, JoinFacts, YaFacts DEF Decode
  <2>2. StripColors(<<>>) = <<>>
    <3>1. Coloring(<<>>) = Uncolored /\ StripColors(<<>>) = Coloring(<<>>).out
      BY <1>4, ColoringFacts
    <3>2. Uncolored.out = <<>>
      BY DEF Uncolored
    <3> QED BY <3>1, <3>2
  <2> QED BY <1>4, <2>1, <2>2, JoinFacts DEF Clean, Normalize
<1>6. ParseEquipment(<<>>) = {EmptyMap}
  <2> DEFINE b == {EmptyMap}
             V == SUBSET EquipmentMaps
             L == Seq(Symbols)
             e == <<>>
  <2>1. b \in V /\ IsStep(WornStep, V, L) /\ e \in L
    BY <1>4, WornStepFacts
  <2>2. Lines(<<>>) = OneLine
    BY <1>4, LinesFacts
  <2>3. \A ms \in V, l \in L : WornStep[<<ms, l>>] = Worn(ms, l)
    BY WornStepFacts
  <2>4. OneLine = Append(<<>>, e) /\ <<>> \in Seq(L)
    BY EmptySeq DEF OneLine
  <2>5. Worn(b, e) = b
    BY WornNothing
  <2> HIDE DEF b, V, L, e
  <2>6. Fold(WornStep, b, Append(<<>>, e)) = WornStep[<<b, e>>]
    <3>1. \A z \in Seq(L) : Fold(WornStep, b, Append(z, e)) = WornStep[<<Fold(WornStep, b, z), e>>]
      BY <2>1, FoldAppend
    <3>2. Fold(WornStep, b, <<>>) = b
      BY <2>1, FoldEmpty
    <3> QED BY <2>4, <3>1, <3>2
  <2>7. WornStep[<<b, e>>] = b
    BY <2>1, <2>3, <2>5
  <2> QED BY <2>2, <2>4, <2>6, <2>7 DEF ParseEquipment, b
<1> QED
  BY <1>1, <1>2, <1>3, <1>4, <1>5, <1>6 DEF EquipmentInv

\* Every step keeps EquipmentInv: Parse fills the delta of one read, and
\* mergeSnapshot puts it over the stored map.
LEMMA EquipmentInvStep == FilterInv /\ EquipmentInv /\ [Next]_vars => EquipmentInv'
<1> SUFFICES ASSUME FilterInv, EquipmentInv, [Next]_vars PROVE EquipmentInv'
  OBVIOUS
<1> DEFINE old == store.equipment
           new == delta.equipment
<1>0. /\ old \in Filled /\ new \in Filled /\ old \in EquipmentMaps /\ new \in EquipmentMaps
      /\ EmptyMap \in Filled /\ EmptyMap \in EquipmentMaps
  BY EmptyMapFilled DEF EquipmentInv, Filled
<1>1. ASSUME UNCHANGED <<passed, midLine, delta, store>> PROVE EquipmentInv'
  BY <1>1 DEF EquipmentInv
<1>2. CASE Read
  <2>1. PICK n \in 1..(Len(Bytes(stream)) - pos) :
          LET f == Filter(state, SubSeq(Bytes(stream), pos + 1, pos + n)) IN
          /\ pos' = pos + n /\ state' = f.state /\ passed' = passed \o f.out
          /\ delta' \in Parse(Decode(f.out))
          /\ midLine' = (midLine \/ (passed' # <<>> /\ Last(passed') # LF))
    BY <1>2 DEF Read
  <2>2. stream' = stream /\ new = EmptyMap /\ store' = store
    BY <1>2 DEF Read, EmptyDelta
  <2> DEFINE f == Filter(state, SubSeq(Bytes(stream), pos + 1, pos + n))
             o == f.out
             got == delta'.equipment
  <2>3. o \in Seq(Symbols) /\ passed \in Seq(Symbols)
    BY <2>1, <2>2, ReadFilters, SoFarType
  <2>4. passed' = passed \o o /\ delta' \in Parse(Decode(o))
        /\ midLine' = (midLine \/ (passed' # <<>> /\ Last(passed') # LF))
    BY <2>1
  <2> HIDE DEF o, f
  <2>5. got \in ParseEquipment(Clean(o))
    BY <2>4 DEF Parse, Clean
  <2>6. got \in Filled
    BY <2>3, <2>5, CleanType
  <2>7. ASSUME ~midLine'
        PROVE  AtLine(passed') /\ Over(got, old) \in ParseEquipment(Clean(passed'))
    <3>1. ~midLine /\ AtLine(passed')
      BY <2>4, <2>7 DEF AtLine
    <3>2. AtLine(passed) /\ Over(new, old) \in ParseEquipment(Clean(passed))
      BY <3>1 DEF EquipmentInv
    <3>3. old \in ParseEquipment(Clean(passed))
      BY <1>0, <2>2, <3>2, OverFacts
    <3>4. /\ Clean(passed) \in Seq(Symbols) /\ Clean(o) \in Seq(Symbols) /\ AtLine(Clean(passed))
          /\ Clean(passed \o o) = Clean(passed) \o Clean(o)
      BY <2>3, <3>2, CleanConcat
    <3> HIDE DEF got, old, new
    <3>5. Over(got, old) \in ParseEquipment(Clean(passed) \o Clean(o))
      BY <2>5, <3>3, <3>4, EquipmentConcat
    <3> QED BY <2>4, <3>1, <3>4, <3>5
  <2> QED BY <1>0, <2>2, <2>6, <2>7 DEF EquipmentInv
<1>3. CASE UpsertDelta
  <2> DEFINE m == Over(new, old)
  <2>1. passed' = passed /\ midLine' = midLine /\ delta'.equipment = EmptyMap /\ store'.equipment = m
    BY <1>3 DEF UpsertDelta, streamVars, Merged, EmptyDelta
  <2>2. m \in Filled /\ m \in EquipmentMaps
    BY <1>0, OverFacts
  <2>3. Over(EmptyMap, m) = m
    <3> HIDE DEF m
    <3> QED BY <1>0, <2>2, OverFacts
  <2> QED BY <1>0, <2>1, <2>2, <2>3 DEF EquipmentInv
<1>4. CASE GetLatest
  BY <1>1, <1>4 DEF GetLatest, streamVars
<1>5. CASE Release
  BY <1>1, <1>5 DEF Release, streamVars
<1>6. CASE UNCHANGED vars
  BY <1>1, <1>6 DEF vars, streamVars
<1> QED
  BY <1>2, <1>3, <1>4, <1>5, <1>6 DEF Next

\* Once the delta is stored, the merged map is the stored one.
LEMMA EquipmentInvImplies == FilterInv /\ EquipmentInv => EquipmentIsNewest
<1> SUFFICES ASSUME FilterInv, EquipmentInv, delta = EmptyDelta, ~midLine
             PROVE  store.equipment \in ParseEquipment(Normalize(Decode(passed)))
  BY DEF EquipmentIsNewest
<1>1. passed \in Seq(Symbols) /\ EmptyMap \in EquipmentMaps /\ store.equipment \in EquipmentMaps
  BY SoFarType, EmptyMapFilled DEF EquipmentInv, Filled
<1>2. delta.equipment = EmptyMap
  BY DEF EmptyDelta
<1>3. Over(EmptyMap, store.equipment) = store.equipment
  BY <1>1, OverFacts
<1> QED
  BY <1>1, <1>2, <1>3, CleanType DEF EquipmentInv

\* parser.go, ParseEquipment of each read, and mergeSnapshot: the stored map is
\* one that parsing all that was read at once may give, unless a read ended
\* inside a line.
THEOREM EquipmentOfStream == Spec => []EquipmentIsNewest
<1>1. Init => FilterInv /\ EquipmentInv
  BY FilterInvInit, EquipmentInvInit
<1>2. (FilterInv /\ EquipmentInv) /\ [Next]_vars => (FilterInv /\ EquipmentInv)'
  BY FilterInvStep, EquipmentInvStep
<1> QED
  BY <1>1, <1>2, EquipmentInvImplies, PTL DEF Spec
-----------------------------------------------------------------------------
\* A held snapshot shares the store's map only if it was taken empty.
HeldInv ==
    /\ held = [taken |-> held.taken, shares |-> held.shares,
               was |-> held.was, equipment |-> held.equipment]
    /\ held.taken \in BOOLEAN /\ held.shares \in BOOLEAN
    /\ held.shares => held.was = EmptyMap
    /\ ~held.shares => held.equipment = held.was

\* Nobody holds a snapshot at first.
LEMMA HeldInvInit == Init => HeldInv
BY DEF Init, HeldInv, NoSnapshot

\* Every step keeps HeldInv: UpsertDelta changes only a shared map.
LEMMA HeldInvStep == HeldInv /\ [Next]_vars => HeldInv'
<1> SUFFICES ASSUME HeldInv, [Next]_vars PROVE HeldInv'
  OBVIOUS
<1>1. ASSUME UNCHANGED held PROVE HeldInv'
  BY <1>1 DEF HeldInv
<1>2. CASE Read
  BY <1>1, <1>2 DEF Read
<1>3. CASE UpsertDelta
  BY <1>3 DEF UpsertDelta, HeldInv
<1>4. CASE GetLatest
  BY <1>4 DEF GetLatest, HeldInv
<1>5. CASE Release
  BY <1>5 DEF Release, HeldInv, NoSnapshot
<1>6. CASE UNCHANGED vars
  BY <1>1, <1>6 DEF vars
<1> QED
  BY <1>2, <1>3, <1>4, <1>5, <1>6 DEF Next

\* service.go:103: a snapshot with equipment in it is a copy, and UpsertDelta,
\* which writes to the store's map in place, cannot change it.
THEOREM HeldSnapshots == Spec => []HeldIsStable
<1>1. HeldInv => HeldIsStable
  BY DEF HeldInv, HeldIsStable
<1> QED
  BY <1>1, HeldInvInit, HeldInvStep, PTL DEF Spec
-----------------------------------------------------------------------------
\* The bound of the model and the flags of the histories.
ReadsInv ==
    /\ reads \in 0..MaxReads
    /\ splitPair \in BOOLEAN /\ midPrompt \in BOOLEAN /\ midLine \in BOOLEAN

\* No read at first.
LEMMA ReadsInvInit == Init => ReadsInv
<1> SUFFICES ASSUME Init PROVE ReadsInv
  OBVIOUS
<1>1. reads = 0 /\ splitPair = FALSE /\ midPrompt = FALSE /\ midLine = FALSE
  BY DEF Init
<1>2. 0 \in 0..MaxReads
  BY MaxReadsAssumption
<1> QED
  BY <1>1, <1>2 DEF ReadsInv

\* Every step keeps ReadsInv.
LEMMA ReadsInvStep == ReadsInv /\ [Next]_vars => ReadsInv'
<1> SUFFICES ASSUME ReadsInv, [Next]_vars PROVE ReadsInv'
  OBVIOUS
<1>1. ASSUME UNCHANGED <<reads, splitPair, midPrompt, midLine>> PROVE ReadsInv'
  BY <1>1 DEF ReadsInv
<1>2. CASE Read
  <2>1. reads < MaxReads /\ reads' = reads + 1
    BY <1>2 DEF Read
  <2>2. reads' \in 0..MaxReads
    BY <2>1, MaxReadsAssumption DEF ReadsInv
  <2>3. \E o : /\ splitPair' = (splitPair \/ Splits(passed, o))
               /\ midPrompt' = (midPrompt \/ InPrompt(passed'))
               /\ midLine' = (midLine \/ (passed' # <<>> /\ Last(passed') # LF))
    BY <1>2, Zenon DEF Read
  <2>4. splitPair' \in BOOLEAN /\ midPrompt' \in BOOLEAN /\ midLine' \in BOOLEAN
    BY <2>3
  <2> QED BY <2>2, <2>4 DEF ReadsInv
<1>3. CASE UpsertDelta
  BY <1>1, <1>3 DEF UpsertDelta, streamVars
<1>4. CASE GetLatest
  BY <1>1, <1>4 DEF GetLatest, streamVars
<1>5. CASE Release
  BY <1>1, <1>5 DEF Release, streamVars
<1>6. CASE UNCHANGED vars
  BY <1>1, <1>6 DEF vars, streamVars
<1> QED
  BY <1>2, <1>3, <1>4, <1>5, <1>6 DEF Next

\* Type correctness of the whole path, and parser.go's promise that no slot holds
\* an empty item.
THEOREM UpstreamType == Spec => []TypeOK
<1> DEFINE Inv == FilterInv /\ EquipmentInv /\ HeldInv /\ ReadsInv
<1>1. Init => Inv
  BY FilterInvInit, EquipmentInvInit, HeldInvInit, ReadsInvInit
<1>2. Inv /\ [Next]_vars => Inv'
  BY FilterInvStep, EquipmentInvStep, HeldInvStep, ReadsInvStep
<1>3. Inv => TypeOK
  <2> SUFFICES ASSUME Inv PROVE TypeOK
    OBVIOUS
  <2>1. pos \in 0..Len(Bytes(stream)) /\ state \in States
    BY SoFarType DEF FilterInv
  <2>2. /\ delta.equipment \in EquipmentMaps /\ store.equipment \in EquipmentMaps
        /\ \A s \in Slots : store.equipment[s] # <<NoItem>>
    BY DEF EquipmentInv, Filled
  <2> QED BY <2>1, <2>2 DEF TypeOK, HeldInv, ReadsInv
<1> QED
  BY <1>1, <1>2, <1>3, PTL DEF Spec
=============================================================================
