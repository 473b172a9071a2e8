---------------------------- MODULE MessagesProofs ----------------------------
(***************************************************************************)
(* Proofs about Messages, for any number of messages, addresses, arenas    *)
(* and field values.                                                       *)
(***************************************************************************)
EXTENDS Messages, WellFoundedInduction, SequenceTheorems, FiniteSetTheorems, TLAPS

USE HeapAssumption, DefaultAssumption, SizeAssumption, NoneAssumption

-----------------------------------------------------------------------------
(* Parsing and counting go through a sequence from its beginning.  What they *)
(* compute is shown by induction on how far they have come.                  *)

\* A set of naturals that has 0 and the successor of everything in it has all:
\* the least natural outside it would have its predecessor inside.
LEMMA NatSets ==
    ASSUME NEW T \in SUBSET Nat, 0 \in T, \A n \in T : n + 1 \in T
    PROVE  T = Nat
<1> DEFINE less == OpToRel(<, Nat)
<1>1. \A m, n \in Nat : <<m, n>> \in less <=> m < n
  BY DEF OpToRel
<1>2. IsWellFoundedOn(less, Nat)
  BY NatLessThanWellFounded
<1> HIDE DEF less
<1>3. ASSUME Nat \ T # {} PROVE FALSE
  <2>1. PICK x \in Nat \ T : \A y \in Nat \ T : ~(<<y, x>> \in less)
    BY <1>2, <1>3, WFMin
  <2>2. x \in Nat /\ x # 0
    OBVIOUS
  <2>3. x - 1 \in Nat /\ x - 1 < x
    BY <2>2
  <2>4. <<x - 1, x>> \in less
    BY <1>1, <2>2, <2>3
  <2>5. x - 1 \in T
    BY <2>1, <2>3, <2>4
  <2>6. (x - 1) + 1 = x
    BY <2>2
  <2>7. QED
    BY <2>5, <2>6
<1>4. QED
  BY <1>3

\* f goes through w from s, by step, as far as it stays in S.
Walk(f, step, S, X, s, w) ==
    /\ step \in [S \X X -> S]
    /\ s \in S
    /\ w \in Seq(X)
    /\ f[0] = s
    /\ \A i \in 1 .. Len(w) : f[i - 1] \in S => f[i] = step[<<f[i - 1], w[i]>>]

\* Where it arrives, and where a step from a over x does.
End(f, w)         == f[Len(w)]
StepTo(step, a, x) == step[<<a, x>>]

\* What there is to walk, and the function that does it.
Given(step, S, X, s, w) == step \in [S \X X -> S] /\ s \in S /\ w \in Seq(X)

Steps(f, step, S, s, w) ==
    /\ f \in [0 .. Len(w) -> S]
    /\ f = [i \in 0 .. Len(w) |-> IF i = 0 THEN s ELSE step[<<f[i - 1], w[i]>>]]

\* There is a way through every sequence.
LEMMA WalkExists ==
    ASSUME NEW S, NEW X, NEW step, NEW s, NEW w, Given(step, S, X, s, w)
    PROVE  \E f : Steps(f, step, S, s, w)
<1> USE DEF Given
<1> DEFINE Way(f, n) == f = [i \in 0 .. n |-> IF i = 0 THEN s ELSE step[<<f[i - 1], w[i]>>]]
           T == {n \in Nat : n <= Len(w) => \E f \in [0 .. n -> S] : Way(f, n)}
<1>1. 0 \in T
  <2> DEFINE f == [i \in 0 .. 0 |-> s]
  <2>1. f \in [0 .. 0 -> S] /\ Way(f, 0)
    OBVIOUS
  <2>2. QED
    BY <2>1
<1>2. ASSUME NEW n \in T PROVE n + 1 \in T
  <2>1. SUFFICES ASSUME n + 1 <= Len(w)
                 PROVE  \E g \in [0 .. n + 1 -> S] : Way(g, n + 1)
    BY <1>2
  <2>2. PICK f \in [0 .. n -> S] : Way(f, n)
    BY <1>2, <2>1
  <2>3. n \in Nat /\ w[n + 1] \in X /\ f[n] \in S
    BY <1>2, <2>1
  <2>4. PICK next \in S : next = step[<<f[n], w[n + 1]>>]
    BY <2>3
  <2> DEFINE g == [i \in 0 .. n + 1 |-> IF i = n + 1 THEN next ELSE f[i]]
  <2>5. g \in [0 .. n + 1 -> S]
    BY <2>3
  <2>6. ASSUME NEW i \in 0 .. n + 1
        PROVE  g[i] = IF i = 0 THEN s ELSE step[<<g[i - 1], w[i]>>]
    <3>1. CASE i = n + 1
      <4>1. n \in 0 .. n + 1 /\ g[n] = f[n] /\ g[n + 1] = next /\ (n + 1) - 1 = n /\ n + 1 # 0
        BY <2>3
      <4>2. QED
        BY <2>4, <3>1, <4>1
    <3>2. CASE i \in 0 .. n
      <4>1. i \in Nat /\ g[i] = f[i]
        BY <2>3, <3>2
      <4>2. f[i] = IF i = 0 THEN s ELSE step[<<f[i - 1], w[i]>>]
        BY <2>2, <3>2
      <4>3. CASE i = 0
        BY <4>1, <4>2, <4>3
      <4>4. CASE i # 0
        <5>1. i - 1 \in 0 .. n
          BY <2>3, <3>2, <4>1, <4>4
        <5>2. g[i - 1] = f[i - 1]
          BY <2>3, <5>1
        <5>3. QED
          BY <4>1, <4>2, <4>4, <5>2
      <4>5. QED
        BY <4>3, <4>4
    <3>3. QED
      BY <2>3, <3>1, <3>2
  <2>7. Way(g, n + 1)
    BY <2>5, <2>6
  <2>8. QED
    BY <2>5, <2>7
<1> HIDE DEF T
<1>3. T = Nat
  BY <1>1, <1>2, NatSets DEF T
<1>4. Len(w) \in Nat
  OBVIOUS
<1>5. QED
  BY <1>3, <1>4 DEF T, Steps

\* A way through w stays in S.
LEMMA WalkType ==
    ASSUME NEW S, NEW X, NEW step, NEW s, NEW w, NEW f, Walk(f, step, S, X, s, w)
    PROVE  End(f, w) \in S /\ \A i \in 0 .. Len(w) : f[i] \in S
<1> DEFINE T == {n \in Nat : n <= Len(w) => f[n] \in S}
<1>1. 0 \in T
  BY DEF Walk
<1>2. ASSUME NEW n \in T PROVE n + 1 \in T
  <2>1. SUFFICES ASSUME n + 1 <= Len(w) PROVE f[n + 1] \in S
    BY <1>2
  <2>2. n + 1 \in 1 .. Len(w) /\ (n + 1) - 1 = n /\ f[n] \in S
    BY <1>2, <2>1 DEF Walk
  <2>3. w[n + 1] \in X /\ step \in [S \X X -> S]
    BY <2>2 DEF Walk
  <2>4. f[n + 1] = step[<<f[n], w[n + 1]>>]
    BY <2>2 DEF Walk
  <2>5. QED
    BY <2>2, <2>3, <2>4
<1> HIDE DEF T
<1>3. T = Nat
  BY <1>1, <1>2, NatSets DEF T
<1>4. Len(w) \in Nat
  BY DEF Walk
<1>5. QED
  BY <1>3, <1>4 DEF T, End

\* v is w and one element more.
OneMore(v, w) == Len(v) = Len(w) + 1 /\ \A i \in 1 .. Len(w) : v[i] = w[i]

\* One element more is one step more.
LEMMA WalkExtended ==
    ASSUME NEW S, NEW X, NEW step, NEW s, NEW w, NEW v, NEW f, NEW g,
           Walk(f, step, S, X, s, w), Walk(g, step, S, X, s, v), OneMore(v, w)
    PROVE  End(g, v) = StepTo(step, End(f, w), v[Len(v)])
<1> DEFINE T == {n \in Nat : n <= Len(w) => f[n] = g[n]}
<1>len. /\ Len(w) \in Nat /\ Len(v) = Len(w) + 1
        /\ \A i \in 1 .. Len(w) : v[i] = w[i]
  BY DEF Walk, OneMore
<1>type. \A i \in 0 .. Len(w) : f[i] \in S
  BY WalkType
<1>1. 0 \in T
  BY DEF Walk
<1>2. ASSUME NEW n \in T PROVE n + 1 \in T
  <2>1. SUFFICES ASSUME n + 1 <= Len(w) PROVE f[n + 1] = g[n + 1]
    BY <1>2
  <2>2. n + 1 \in 1 .. Len(w) /\ n + 1 \in 1 .. Len(v) /\ (n + 1) - 1 = n /\ f[n] = g[n]
        /\ n \in 0 .. Len(w)
    BY <1>2, <1>len, <2>1
  <2>3. f[n] \in S
    BY <2>2, <1>type
  <2>4. f[n + 1] = step[<<f[n], w[n + 1]>>] /\ g[n + 1] = step[<<g[n], v[n + 1]>>]
    BY <2>2, <2>3 DEF Walk
  <2>5. QED
    BY <1>len, <2>2, <2>4
<1> HIDE DEF T
<1>3. T = Nat
  BY <1>1, <1>2, NatSets DEF T
<1>4. f[Len(w)] = g[Len(w)] /\ f[Len(w)] \in S
  BY <1>3, <1>len, <1>type DEF T
<1>5. Len(v) \in 1 .. Len(v) /\ Len(v) - 1 = Len(w)
  BY <1>len
<1>6. g[Len(v)] = step[<<g[Len(v) - 1], v[Len(v)]>>]
  BY <1>4, <1>5 DEF Walk
<1>7. QED
  BY <1>4, <1>5, <1>6 DEF End, StepTo

-----------------------------------------------------------------------------
(* What a call makes of one message with the given fields. *)

\* What can stand on the wire for such a message.
Field(fields) == ToSet(fields) \X Values

\* A message whose bits and values agree.
Sound(m, fields) == m \in Message(fields) /\ Bitless(m)

\* Set gives field f the value v and leaves the others alone.
LEMMA SetIs ==
    ASSUME NEW fields, NEW m \in Message(fields), NEW f \in ToSet(fields),
           NEW v \in Values \cup {Default}
    PROVE  /\ Set(m, f, v) \in Message(fields)
           /\ Set(m, f, v).has = m.has \cup {f}
           /\ Set(m, f, v).val[f] = v
           /\ \A g \in ToSet(fields) \ {f} : Set(m, f, v).val[g] = m.val[g]
           /\ Bitless(m) => Bitless(Set(m, f, v))
<1> DEFINE F == ToSet(fields)
<1> HIDE DEF F
<1>1. m = [has |-> m.has, val |-> m.val] /\ m.has \in SUBSET F
      /\ m.val \in [F -> Values \cup {Default}]
  BY DEF Message, F
<1>2. f \in F
  BY DEF F
<1>3. Set(m, f, v) = [has |-> m.has \cup {f}, val |-> [m.val EXCEPT ![f] = v]]
  BY <1>1 DEF Set
<1>4. Set(m, f, v) \in [has : SUBSET F, val : [F -> Values \cup {Default}]]
  BY <1>1, <1>2, <1>3
<1>5. /\ Set(m, f, v).has = m.has \cup {f}
      /\ Set(m, f, v).val = [m.val EXCEPT ![f] = v]
  BY <1>3
<1>6. Bitless(m) => Bitless(Set(m, f, v))
  BY <1>1, <1>2, <1>5 DEF Bitless
<1>7. QED
  BY <1>1, <1>2, <1>4, <1>5, <1>6 DEF Message, F

\* Unset gives it its default.
LEMMA UnsetIs ==
    ASSUME NEW fields, NEW m \in Message(fields), NEW f \in ToSet(fields)
    PROVE  /\ Unset(m, f) \in Message(fields)
           /\ Bitless(m) => Bitless(Unset(m, f))
<1> DEFINE F == ToSet(fields)
<1> HIDE DEF F
<1>1. m = [has |-> m.has, val |-> m.val] /\ m.has \in SUBSET F
      /\ m.val \in [F -> Values \cup {Default}]
  BY DEF Message, F
<1>2. f \in F
  BY DEF F
<1>3. Unset(m, f) = [has |-> m.has \ {f}, val |-> [m.val EXCEPT ![f] = Default]]
  BY <1>1 DEF Unset
<1>4. Unset(m, f) \in [has : SUBSET F, val : [F -> Values \cup {Default}]]
  BY <1>1, <1>2, <1>3
<1>5. /\ Unset(m, f).has = m.has \ {f}
      /\ Unset(m, f).val = [m.val EXCEPT ![f] = Default]
  BY <1>3
<1>6. Bitless(m) => Bitless(Unset(m, f))
  BY <1>1, <1>2, <1>5 DEF Bitless
<1>7. QED
  BY <1>4, <1>6 DEF Message, F

\* Every accessor call keeps a message sound.
LEMMA AccessIsSound ==
    ASSUME NEW fields, NEW m, Sound(m, fields), NEW f \in ToSet(fields),
           NEW n \in Access(m, f)
    PROVE  Sound(n, fields)
<1>1. m \in Message(fields) /\ Bitless(m) /\ m.val[f] \in Values \cup {Default}
  BY DEF Sound, Message
<1>2. CASE n = Unset(m, f)
  BY <1>1, <1>2, UnsetIs DEF Sound
<1>3. ASSUME NEW v \in Values \cup {Default}, n = Set(m, f, v)
      PROVE  Sound(n, fields)
  BY <1>1, <1>3, SetIs DEF Sound
<1>4. QED
  BY <1>1, <1>2, <1>3 DEF Access

\* The default instance is sound, and a sound message that is cleared is it.
LEMMA BlankIsSound ==
    ASSUME NEW fields
    PROVE  /\ Sound(Blank(fields), fields)
           /\ \A m : Sound(m, fields) => Clear(m) = Blank(fields)
<1> DEFINE F == ToSet(fields)
<1> HIDE DEF F
<1>1. Blank(fields) = [has |-> {}, val |-> [f \in F |-> Default]]
  BY DEF Blank, F
<1>2. Blank(fields) \in [has : SUBSET F, val : [F -> Values \cup {Default}]] /\ Bitless(Blank(fields))
  BY <1>1 DEF Bitless
<1>3. Sound(Blank(fields), fields)
  BY <1>2 DEF Sound, Message, F
<1>4. ASSUME NEW m, Sound(m, fields) PROVE Clear(m) = Blank(fields)
  <2>1. m = [has |-> m.has, val |-> m.val] /\ m.has \in SUBSET F
        /\ m.val \in [F -> Values \cup {Default}] /\ Bitless(m)
    BY <1>4 DEF Sound, Message, F
  <2>2. Clear(m) = [has |-> {}, val |-> [f \in F |-> IF f \in m.has \cup Numbers THEN Default ELSE m.val[f]]]
    BY <2>1 DEF Clear
  <2>3. [f \in F |-> IF f \in m.has \cup Numbers THEN Default ELSE m.val[f]] = [f \in F |-> Default]
    BY <2>1 DEF Bitless
  <2>4. QED
    BY <1>1, <2>2, <2>3
<1>5. QED
  BY <1>3, <1>4

\* What MergeImpl makes of a message.
LEMMA MergeIs ==
    ASSUME NEW fields, NEW m \in Message(fields), NEW n \in Message(fields)
    PROVE  /\ MergeImpl(m, n) \in Message(fields)
           /\ MergeImpl(m, n).val
                = [f \in ToSet(fields) |-> IF Written(n, f) THEN n.val[f] ELSE m.val[f]]
           /\ Bitless(m) => Bitless(MergeImpl(m, n))
<1> DEFINE F == ToSet(fields)
<1> HIDE DEF F
<1>1. /\ m = [has |-> m.has, val |-> m.val] /\ m.has \in SUBSET F
      /\ m.val \in [F -> Values \cup {Default}]
      /\ n.has \in SUBSET F /\ n.val \in [F -> Values \cup {Default}]
  BY DEF Message, F
<1> DEFINE merged == [f \in F |-> IF Written(n, f) THEN n.val[f] ELSE m.val[f]]
<1>2. MergeImpl(m, n) = [has |-> m.has \cup n.has, val |-> merged]
  BY <1>1 DEF MergeImpl
<1>3. merged \in [F -> Values \cup {Default}]
  BY <1>1
<1>4. ASSUME Bitless(m) PROVE \A f \in F : f \notin m.has \cup n.has => merged[f] = Default
  BY <1>1, <1>4 DEF Bitless, Written
<1> HIDE DEF merged
<1>5. Bitless(m) => Bitless(MergeImpl(m, n))
  BY <1>2, <1>3, <1>4 DEF Bitless
<1>6. MergeImpl(m, n) \in [has : SUBSET F, val : [F -> Values \cup {Default}]]
  BY <1>1, <1>2, <1>3
<1>7. MergeImpl(m, n).val = merged
  BY <1>2
<1>8. QED
  BY <1>5, <1>6, <1>7 DEF Message, F, merged

-----------------------------------------------------------------------------
(* The wire. *)

\* Parsing takes one field after the other.
ParseStep(fields) == [p \in Message(fields) \X Field(fields) |-> Set(p[1], p[2][1], p[2][2])]

\* It makes a message of a message and a field.
LEMMA ParseStepIs ==
    ASSUME NEW fields
    PROVE  /\ ParseStep(fields) \in [Message(fields) \X Field(fields) -> Message(fields)]
           /\ \A a \in Message(fields), x \in Field(fields) :
                ParseStep(fields)[<<a, x>>] = Set(a, x[1], x[2])
<1> DEFINE M == Message(fields)
           X == Field(fields)
<1>1. ASSUME NEW a \in M, NEW x \in X PROVE Set(a, x[1], x[2]) \in M
  <2>1. x[1] \in ToSet(fields) /\ x[2] \in Values \cup {Default}
    BY DEF Field
  <2>2. QED
    BY <2>1, SetIs
<1> HIDE DEF M, X
<1>2. [p \in M \X X |-> Set(p[1], p[2][1], p[2][2])] \in [M \X X -> M]
  BY <1>1
<1>3. \A a \in M, x \in X : [p \in M \X X |-> Set(p[1], p[2][1], p[2][2])][<<a, x>>] = Set(a, x[1], x[2])
  OBVIOUS
<1>4. QED
  BY <1>2, <1>3 DEF M, X, ParseStep

\* What Parse computes is such a walk.
LEMMA ParseWalks ==
    ASSUME NEW fields, NEW m \in Message(fields), NEW w \in Seq(Field(fields))
    PROVE  \E f : /\ Walk(f, ParseStep(fields), Message(fields), Field(fields), m, w)
                  /\ End(f, w) = Parse(m, w)
<1> DEFINE M == Message(fields)
           X == Field(fields)
           step == ParseStep(fields)
           Eq(g) == g = [i \in 0 .. Len(w) |-> IF i = 0 THEN m ELSE Set(g[i - 1], w[i][1], w[i][2])]
           read == CHOOSE g : Eq(g)
<1>1. Parse(m, w) = read[Len(w)]
  BY DEF Parse
<1>step. step \in [M \X X -> M] /\ \A a \in M, x \in X : step[<<a, x>>] = Set(a, x[1], x[2])
  BY ParseStepIs
<1>m. m \in M /\ w \in Seq(X) /\ Len(w) \in Nat
  OBVIOUS
<1> HIDE DEF M, X, step
<1>given. Given(step, M, X, m, w)
  BY <1>step, <1>m DEF Given
<1>way. PICK f : Steps(f, step, M, m, w)
  BY <1>given, WalkExists
<1>2. /\ f \in [0 .. Len(w) -> M]
      /\ f = [i \in 0 .. Len(w) |-> IF i = 0 THEN m ELSE step[<<f[i - 1], w[i]>>]]
  BY <1>way DEF Steps
<1>3. ASSUME NEW i \in 0 .. Len(w)
      PROVE  f[i] = IF i = 0 THEN m ELSE Set(f[i - 1], w[i][1], w[i][2])
  <2>1. CASE i = 0
    BY <1>2, <2>1
  <2>2. CASE i # 0
    <3>1. i - 1 \in 0 .. Len(w) /\ i \in 1 .. Len(w)
      BY <1>m, <2>2
    <3>2. f[i - 1] \in M
      BY <1>2, <3>1
    <3>5. w[i] \in X
      BY <1>m, <3>1
    <3>3. f[i] = step[<<f[i - 1], w[i]>>]
      BY <1>2, <2>2
    <3>4. QED
      BY <1>step, <2>2, <3>2, <3>3, <3>5
  <2>3. QED
    BY <2>1, <2>2
<1>4. Eq(f)
  <2>1. f = [i \in 0 .. Len(w) |-> f[i]]
    BY <1>2
  <2>2. QED
    BY <1>3, <2>1
<1> HIDE DEF Eq
<1>5. Eq(read)
  BY <1>4
<1> HIDE DEF read
<1>6. read[0] = m
  BY <1>5, <1>m DEF Eq
<1>7. ASSUME NEW i \in 1 .. Len(w), read[i - 1] \in M
      PROVE  read[i] = step[<<read[i - 1], w[i]>>]
  <2>1. i \in 0 .. Len(w) /\ i # 0 /\ w[i] \in X
    BY <1>m
  <2>2. read[i] = Set(read[i - 1], w[i][1], w[i][2])
    BY <1>5, <2>1 DEF Eq
  <2>3. QED
    BY <1>step, <1>7, <2>1, <2>2
<1>8. Walk(read, step, M, X, m, w)
  BY <1>m, <1>step, <1>6, <1>7 DEF Walk
<1>9. QED
  BY <1>1, <1>8 DEF End, M, X, step

-----------------------------------------------------------------------------
\* Nothing on the wire leaves the message as it is, and one field more is one
\* Set more.
LEMMA ParseIs ==
    ASSUME NEW fields, NEW m \in Message(fields), NEW w \in Seq(Field(fields))
    PROVE  /\ Parse(m, w) \in Message(fields)
           /\ w = <<>> => Parse(m, w) = m
           /\ \A x \in Field(fields) :
                Parse(m, Append(w, x)) = Set(Parse(m, w), x[1], x[2])
<1> DEFINE M == Message(fields)
           X == Field(fields)
           step == ParseStep(fields)
<1>m. m \in M /\ w \in Seq(X) /\ Len(w) \in Nat
  OBVIOUS
<1>1. PICK f : Walk(f, step, M, X, m, w) /\ End(f, w) = Parse(m, w)
  BY ParseWalks
<1>step. \A a \in M, x \in X : step[<<a, x>>] = Set(a, x[1], x[2])
  BY ParseStepIs
<1>walks. \A x \in X : \E g : /\ Walk(g, step, M, X, m, Append(w, x))
                              /\ End(g, Append(w, x)) = Parse(m, Append(w, x))
  <2>1. \A x \in X : Append(w, x) \in Seq(X)
    OBVIOUS
  <2>2. QED
    BY <2>1, ParseWalks
<1> HIDE DEF M, X, step
<1>2. Parse(m, w) \in M
  BY <1>1, WalkType
<1>3. ASSUME w = <<>> PROVE Parse(m, w) = m
  <2>1. Len(w) = 0
    BY <1>3
  <2>2. QED
    BY <1>1, <2>1 DEF Walk, End
<1>4. ASSUME NEW x \in X PROVE Parse(m, Append(w, x)) = Set(Parse(m, w), x[1], x[2])
  <2>1. PICK v : v = Append(w, x)
    OBVIOUS
  <2>2. PICK g : Walk(g, step, M, X, m, v) /\ End(g, v) = Parse(m, v)
    BY <1>walks, <2>1
  <2>3. OneMore(v, w) /\ v[Len(v)] = x
    BY <1>m, <2>1 DEF OneMore
  <2>4. End(g, v) = StepTo(step, End(f, w), v[Len(v)])
    BY <1>1, <2>2, <2>3, WalkExtended
  <2>5. QED
    BY <1>1, <1>2, <1>step, <2>1, <2>2, <2>3, <2>4 DEF StepTo
<1>5. QED
  BY <1>2, <1>3, <1>4 DEF M, X

\* n's field f put over m, if it is written.
Put(m, n, f) == IF Written(n, f) THEN Set(m, f, n.val[f]) ELSE m

\* It changes f alone, and leaves bits and values in agreement.
LEMMA PutIs ==
    ASSUME NEW fields, NEW m \in Message(fields), NEW n \in Message(fields),
           NEW f \in ToSet(fields)
    PROVE  /\ Put(m, n, f) \in Message(fields)
           /\ \A g \in ToSet(fields) :
                Put(m, n, f).val[g] = IF g = f /\ Written(n, f) THEN n.val[f] ELSE m.val[g]
           /\ Bitless(m) => Bitless(Put(m, n, f))
<1>1. n.val[f] \in Values \cup {Default}
  BY DEF Message
<1>2. CASE Written(n, f)
  <2>1. Put(m, n, f) = Set(m, f, n.val[f])
    BY <1>2 DEF Put
  <2>2. QED
    BY <1>1, <1>2, <2>1, SetIs
<1>3. CASE ~Written(n, f)
  BY <1>3 DEF Put
<1>4. QED
  BY <1>2, <1>3

\* A field is on the wire, or nothing.
LEMMA OnWireIs ==
    ASSUME NEW fields, NEW n \in Message(fields), NEW f \in ToSet(fields)
    PROVE  /\ OnWire(n, f) \in Seq(Field(fields))
           /\ Written(n, f) => /\ <<f, n.val[f]>> \in Field(fields)
                               /\ OnWire(n, f) = <<<<f, n.val[f]>>>>
           /\ ~Written(n, f) => OnWire(n, f) = <<>>
<1>1. CASE Written(n, f)
  <2>1. n.val[f] \in Values
    BY <1>1 DEF Written, Message
  <2>2. <<f, n.val[f]>> \in Field(fields)
    BY <2>1 DEF Field
  <2>3. QED
    BY <1>1, <2>2 DEF OnWire
<1>2. CASE ~Written(n, f)
  BY <1>2 DEF OnWire
<1>3. QED
  BY <1>1, <1>2

\* Parsing what is written of a field puts it over what was parsed before.
LEMMA ParseField ==
    ASSUME NEW fields, NEW m \in Message(fields), NEW n \in Message(fields),
           NEW f \in ToSet(fields), NEW w \in Seq(Field(fields))
    PROVE  /\ w \o OnWire(n, f) \in Seq(Field(fields))
           /\ Parse(m, w \o OnWire(n, f)) = Put(Parse(m, w), n, f)
<1> DEFINE X == Field(fields)
<1>x. w \in Seq(X)
  OBVIOUS
<1>1. CASE Written(n, f)
  <2>1. PICK x : x = <<f, n.val[f]>>
    OBVIOUS
  <2>2. x \in X /\ OnWire(n, f) = <<x>>
    BY <1>1, <2>1, OnWireIs
  <2>3. Parse(m, Append(w, x)) = Set(Parse(m, w), x[1], x[2])
    BY <2>2, ParseIs
  <2> HIDE DEF X
  <2>4. w \o <<x>> = Append(w, x) /\ Append(w, x) \in Seq(X)
    BY <1>x, <2>2
  <2>5. x[1] = f /\ x[2] = n.val[f]
    BY <2>1
  <2>6. w \o OnWire(n, f) = Append(w, x)
    BY <2>2, <2>4
  <2>7. Parse(m, w \o OnWire(n, f)) = Put(Parse(m, w), n, f)
    BY <1>1, <2>3, <2>5, <2>6 DEF Put
  <2>8. QED
    BY <2>4, <2>6, <2>7 DEF X
<1>2. CASE ~Written(n, f)
  <2>1. OnWire(n, f) = <<>>
    BY <1>2, OnWireIs
  <2> HIDE DEF X
  <2>2. w \o <<>> = w
    BY <1>x
  <2>3. QED
    BY <1>2, <1>x, <2>1, <2>2 DEF Put, X
<1>3. QED
  BY <1>1, <1>2

\* Two fields of different names.
TwoFields(fields) == DOMAIN fields = 1 .. 2 /\ fields[1] # fields[2]

\* A whole message put over another.
PutAll(m, n, fields) == Put(Put(m, n, fields[1]), n, fields[2])

\* It changes what n has written, and leaves bits and values in agreement.
LEMMA PutAllIs ==
    ASSUME NEW fields, TwoFields(fields), NEW m \in Message(fields), NEW n \in Message(fields)
    PROVE  /\ PutAll(m, n, fields) \in Message(fields)
           /\ PutAll(m, n, fields).val
                = [f \in ToSet(fields) |-> IF Written(n, f) THEN n.val[f] ELSE m.val[f]]
           /\ Bitless(m) => Bitless(PutAll(m, n, fields))
<1> DEFINE F == ToSet(fields)
           p == Put(m, n, fields[1])
           q == Put(p, n, fields[2])
<1>1. fields[1] \in F /\ fields[2] \in F /\ fields[1] # fields[2]
      /\ \A f \in F : f = fields[1] \/ f = fields[2]
  BY DEF TwoFields, ToSet
<1>2. /\ p \in Message(fields)
      /\ \A g \in F : p.val[g] = IF g = fields[1] /\ Written(n, fields[1])
                                   THEN n.val[fields[1]] ELSE m.val[g]
      /\ Bitless(m) => Bitless(p)
  BY <1>1, PutIs
<1> HIDE DEF p
<1>3. /\ q \in Message(fields)
      /\ \A g \in F : q.val[g] = IF g = fields[2] /\ Written(n, fields[2])
                                   THEN n.val[fields[2]] ELSE p.val[g]
      /\ Bitless(p) => Bitless(q)
  BY <1>1, <1>2, PutIs
<1> HIDE DEF q
<1>4. q.val \in [F -> Values \cup {Default}]
  BY <1>3 DEF Message
<1> HIDE DEF F
<1>5. \A g \in F : q.val[g] = IF Written(n, g) THEN n.val[g] ELSE m.val[g]
  BY <1>1, <1>2, <1>3
<1>6. q.val = [f \in F |-> IF Written(n, f) THEN n.val[f] ELSE m.val[f]]
  BY <1>4, <1>5
<1>7. q = PutAll(m, n, fields)
  BY DEF PutAll, p, q
<1>8. QED
  BY <1>2, <1>3, <1>6, <1>7 DEF F

\* What is written of a message and parsed is put over what was parsed before.
LEMMA ParseOnto ==
    ASSUME NEW fields, TwoFields(fields), NEW m \in Message(fields), NEW n \in Message(fields),
           NEW w \in Seq(Field(fields))
    PROVE  /\ Serialize(n, fields) \in Seq(Field(fields))
           /\ w \o Serialize(n, fields) \in Seq(Field(fields))
           /\ Parse(m, w \o Serialize(n, fields)) = PutAll(Parse(m, w), n, fields)
<1> DEFINE X == Field(fields)
           a == OnWire(n, fields[1])
           b == OnWire(n, fields[2])
<1>1. fields[1] \in ToSet(fields) /\ fields[2] \in ToSet(fields)
  BY DEF TwoFields, ToSet
<1>2. w \in Seq(X) /\ a \in Seq(X) /\ b \in Seq(X)
  BY <1>1, OnWireIs
<1>3. w \o a \in Seq(X) /\ Parse(m, w \o a) = Put(Parse(m, w), n, fields[1])
  BY <1>1, ParseField
<1>4. (w \o a) \o b \in Seq(X) /\ Parse(m, (w \o a) \o b) = Put(Parse(m, w \o a), n, fields[2])
  <2>1. PICK v : v = w \o a
    OBVIOUS
  <2>2. v \in Seq(X)
    BY <1>3, <2>1
  <2>3. v \o b \in Seq(X) /\ Parse(m, v \o b) = Put(Parse(m, v), n, fields[2])
    BY <1>1, <2>2, ParseField
  <2>4. QED
    BY <2>1, <2>3
<1>5. Serialize(n, fields) = a \o b
  BY DEF Serialize
<1> HIDE DEF X, a, b
<1>6. (w \o a) \o b = w \o (a \o b) /\ a \o b \in Seq(X)
  BY <1>2, ConcatAssociative, ConcatProperties
<1>7. QED
  BY <1>3, <1>4, <1>5, <1>6 DEF PutAll, X

\* A message that is written and parsed into another is put over it; into the
\* default instance, it reads as before.
LEMMA RoundTrip ==
    ASSUME NEW fields, TwoFields(fields), NEW m \in Message(fields), NEW n \in Message(fields)
    PROVE  /\ Parse(m, Serialize(n, fields)) = PutAll(m, n, fields)
           /\ Bitless(n) => PutAll(Blank(fields), n, fields).val = n.val
<1>1. <<>> \in Seq(Field(fields)) /\ Parse(m, <<>>) = m
  <2>1. <<>> \in Seq(Field(fields))
    BY EmptySeq
  <2>2. QED
    BY <2>1, ParseIs
<1>2. /\ Serialize(n, fields) \in Seq(Field(fields))
      /\ Parse(m, <<>> \o Serialize(n, fields)) = PutAll(Parse(m, <<>>), n, fields)
  BY <1>1, ParseOnto
<1>3. Parse(m, Serialize(n, fields)) = PutAll(m, n, fields)
  <2>1. <<>> \o Serialize(n, fields) = Serialize(n, fields)
    BY <1>2
  <2>2. QED
    BY <1>1, <1>2, <2>1
<1>4. ASSUME Bitless(n) PROVE PutAll(Blank(fields), n, fields).val = n.val
  <2> DEFINE F == ToSet(fields)
  <2>1. Blank(fields) \in Message(fields)
    BY BlankIsSound DEF Sound
  <2>2. PutAll(Blank(fields), n, fields).val
          = [f \in F |-> IF Written(n, f) THEN n.val[f] ELSE Blank(fields).val[f]]
    BY <2>1, PutAllIs
  <2>3. Blank(fields).val = [f \in F |-> Default]
    BY DEF Blank
  <2>4. n.val \in [F -> Values \cup {Default}] /\ \A f \in F : f \notin n.has => n.val[f] = Default
    BY <1>4 DEF Message, Bitless
  <2> HIDE DEF F
  <2>5. \A f \in F : (IF Written(n, f) THEN n.val[f] ELSE Blank(fields).val[f]) = n.val[f]
    BY <2>3, <2>4 DEF Written
  <2>6. QED
    BY <2>2, <2>4, <2>5
<1>5. QED
  BY <1>3, <1>4

\* Two messages written one after the other and parsed as one read as the second
\* merged into the first.
LEMMA Concatenation ==
    ASSUME NEW fields, TwoFields(fields), NEW m, NEW n, Sound(m, fields), Sound(n, fields)
    PROVE  /\ PutAll(PutAll(Blank(fields), m, fields), n, fields).val = MergeImpl(m, n).val
           /\ Parse(Blank(fields), Serialize(m, fields) \o Serialize(n, fields)).val
                = MergeImpl(m, n).val
<1>1. m \in Message(fields) /\ n \in Message(fields) /\ Bitless(m)
  BY DEF Sound
<1>2. Blank(fields) \in Message(fields)
  BY BlankIsSound DEF Sound
<1> DEFINE p == PutAll(Blank(fields), m, fields)
<1>3. p \in Message(fields) /\ p.val = m.val /\ Parse(Blank(fields), Serialize(m, fields)) = p
  BY <1>1, <1>2, RoundTrip, PutAllIs
<1>4. PutAll(p, n, fields).val
        = [f \in ToSet(fields) |-> IF Written(n, f) THEN n.val[f] ELSE p.val[f]]
  BY <1>1, <1>3, PutAllIs
<1>5. MergeImpl(m, n).val
        = [f \in ToSet(fields) |-> IF Written(n, f) THEN n.val[f] ELSE m.val[f]]
  BY <1>1, MergeIs
<1>6. Serialize(m, fields) \in Seq(Field(fields))
  <2>1. <<>> \in Seq(Field(fields))
    OBVIOUS
  <2>2. QED
    BY <1>1, <1>2, <2>1, ParseOnto
<1>7. Parse(Blank(fields), Serialize(m, fields) \o Serialize(n, fields)) = PutAll(p, n, fields)
  BY <1>1, <1>2, <1>3, <1>6, ParseOnto
<1>8. QED
  BY <1>3, <1>4, <1>5, <1>7

-----------------------------------------------------------------------------
(* Its bytes. *)

\* Counting takes one field after the other.
BytesStep(fields) == [p \in Nat \X Field(fields) |-> p[1] + 1 + Size[p[2][2]]]

\* It makes a number of a number and a field.
LEMMA BytesStepIs ==
    ASSUME NEW fields
    PROVE  /\ BytesStep(fields) \in [Nat \X Field(fields) -> Nat]
           /\ \A a \in Nat, x \in Field(fields) :
                BytesStep(fields)[<<a, x>>] = a + 1 + Size[x[2]]
<1>1. \A x \in Field(fields) : Size[x[2]] \in Nat
  BY DEF Field
<1>2. \A p \in Nat \X Field(fields) : p[1] + 1 + Size[p[2][2]] \in Nat
  BY <1>1
<1>3. QED
  BY <1>2 DEF BytesStep

\* What Bytes computes is such a walk.
LEMMA BytesWalks ==
    ASSUME NEW fields, NEW w \in Seq(Field(fields))
    PROVE  \E f : /\ Walk(f, BytesStep(fields), Nat, Field(fields), 0, w)
                  /\ End(f, w) = Bytes(w)
<1> DEFINE M == Nat
           X == Field(fields)
           step == BytesStep(fields)
           Eq(g) == g = [i \in 0 .. Len(w) |-> IF i = 0 THEN 0 ELSE g[i - 1] + 1 + Size[w[i][2]]]
           read == CHOOSE g : Eq(g)
<1>1. Bytes(w) = read[Len(w)]
  BY DEF Bytes
<1>step. step \in [M \X X -> M] /\ \A a \in M, x \in X : step[<<a, x>>] = a + 1 + Size[x[2]]
  BY BytesStepIs
<1>m. 0 \in M /\ w \in Seq(X) /\ Len(w) \in Nat
  OBVIOUS
<1> HIDE DEF M, X, step
<1>given. Given(step, M, X, 0, w)
  BY <1>step, <1>m DEF Given
<1>way. PICK f : Steps(f, step, M, 0, w)
  BY <1>given, WalkExists
<1>2. /\ f \in [0 .. Len(w) -> M]
      /\ f = [i \in 0 .. Len(w) |-> IF i = 0 THEN 0 ELSE step[<<f[i - 1], w[i]>>]]
  BY <1>way DEF Steps
<1>3. ASSUME NEW i \in 0 .. Len(w)
      PROVE  f[i] = IF i = 0 THEN 0 ELSE f[i - 1] + 1 + Size[w[i][2]]
  <2>1. CASE i = 0
    BY <1>2, <2>1
  <2>2. CASE i # 0
    <3>1. i - 1 \in 0 .. Len(w) /\ i \in 1 .. Len(w)
      BY <1>m, <2>2
    <3>2. f[i - 1] \in M
      BY <1>2, <3>1
    <3>3. w[i] \in X
      BY <1>m, <3>1
    <3>4. f[i] = step[<<f[i - 1], w[i]>>]
      BY <1>2, <2>2
    <3>5. QED
      BY <1>step, <2>2, <3>2, <3>3, <3>4
  <2>3. QED
    BY <2>1, <2>2
<1>4. Eq(f)
  <2>1. f = [i \in 0 .. Len(w) |-> f[i]]
    BY <1>2
  <2>2. QED
    BY <1>3, <2>1
<1> HIDE DEF Eq
<1>5. Eq(read)
  BY <1>4
<1> HIDE DEF read
<1>6. read[0] = 0
  BY <1>5, <1>m DEF Eq
<1>7. ASSUME NEW i \in 1 .. Len(w), read[i - 1] \in M
      PROVE  read[i] = step[<<read[i - 1], w[i]>>]
  <2>1. i \in 0 .. Len(w) /\ i # 0 /\ w[i] \in X
    BY <1>m
  <2>2. read[i] = read[i - 1] + 1 + Size[w[i][2]]
    BY <1>5, <2>1 DEF Eq
  <2>3. QED
    BY <1>step, <1>7, <2>1, <2>2
<1>8. Walk(read, step, M, X, 0, w)
  BY <1>m, <1>step, <1>6, <1>7 DEF Walk
<1>9. QED
  BY <1>1, <1>8 DEF End, M, X, step

\* Nothing has no bytes, and one field more has its own.
LEMMA BytesIs ==
    ASSUME NEW fields, NEW w \in Seq(Field(fields))
    PROVE  /\ Bytes(w) \in Nat
           /\ w = <<>> => Bytes(w) = 0
           /\ \A x \in Field(fields) :
                Bytes(Append(w, x)) = Bytes(w) + 1 + Size[x[2]]
<1> DEFINE M == Nat
           X == Field(fields)
           step == BytesStep(fields)
<1>m. 0 \in M /\ w \in Seq(X) /\ Len(w) \in Nat
  OBVIOUS
<1>1. PICK f : Walk(f, step, M, X, 0, w) /\ End(f, w) = Bytes(w)
  BY BytesWalks
<1>step. \A a \in M, x \in X : step[<<a, x>>] = a + 1 + Size[x[2]]
  BY BytesStepIs
<1>walks. \A x \in X : \E g : /\ Walk(g, step, M, X, 0, Append(w, x))
                              /\ End(g, Append(w, x)) = Bytes(Append(w, x))
  <2>1. \A x \in X : Append(w, x) \in Seq(X)
    OBVIOUS
  <2>2. QED
    BY <2>1, BytesWalks
<1> HIDE DEF M, X, step
<1>2. Bytes(w) \in M
  BY <1>1, WalkType
<1>3. ASSUME w = <<>> PROVE Bytes(w) = 0
  <2>1. Len(w) = 0
    BY <1>3
  <2>2. QED
    BY <1>1, <2>1 DEF Walk, End
<1>4. ASSUME NEW x \in X PROVE Bytes(Append(w, x)) = Bytes(w) + 1 + Size[x[2]]
  <2>1. PICK v : v = Append(w, x)
    OBVIOUS
  <2>2. PICK g : Walk(g, step, M, X, 0, v) /\ End(g, v) = Bytes(v)
    BY <1>walks, <2>1
  <2>3. OneMore(v, w) /\ v[Len(v)] = x
    BY <1>m, <2>1 DEF OneMore
  <2>4. End(g, v) = StepTo(step, End(f, w), v[Len(v)])
    BY <1>1, <2>2, <2>3, WalkExtended
  <2>5. QED
    BY <1>1, <1>2, <1>step, <2>1, <2>2, <2>3, <2>4 DEF StepTo
<1>5. QED
  BY <1>2, <1>3, <1>4 DEF M, X

\* A field on the wire has the bytes that ByteSizeLong counts for it.
LEMMA FieldBytes ==
    ASSUME NEW fields, NEW n \in Message(fields), NEW f \in ToSet(fields),
           NEW w \in Seq(Field(fields))
    PROVE  /\ w \o OnWire(n, f) \in Seq(Field(fields))
           /\ Bytes(w \o OnWire(n, f)) = Bytes(w) + FieldSize(n, f)
<1> DEFINE X == Field(fields)
<1>x. w \in Seq(X) /\ Bytes(w) \in Nat
  BY BytesIs
<1>1. CASE Written(n, f)
  <2>1. PICK x : x = <<f, n.val[f]>>
    OBVIOUS
  <2>2. x \in X /\ OnWire(n, f) = <<x>>
    BY <1>1, <2>1, OnWireIs
  <2>3. Bytes(Append(w, x)) = Bytes(w) + 1 + Size[x[2]]
    BY <2>2, BytesIs
  <2>size. Size[x[2]] \in Nat
    BY <2>2 DEF Field
  <2> HIDE DEF X
  <2>4. w \o <<x>> = Append(w, x) /\ Append(w, x) \in Seq(X)
    BY <1>x, <2>2
  <2>5. x[2] = n.val[f]
    BY <2>1
  <2>6. FieldSize(n, f) = 1 + Size[x[2]]
    BY <1>1, <2>5 DEF FieldSize
  <2>7. w \o OnWire(n, f) = Append(w, x)
    BY <2>2, <2>4
  <2>8. Bytes(w \o OnWire(n, f)) = Bytes(w) + FieldSize(n, f)
    BY <1>x, <2>3, <2>size, <2>6, <2>7
  <2>9. QED
    BY <2>4, <2>7, <2>8 DEF X
<1>2. CASE ~Written(n, f)
  <2>1. OnWire(n, f) = <<>>
    BY <1>2, OnWireIs
  <2> HIDE DEF X
  <2>2. w \o <<>> = w
    BY <1>x
  <2>3. QED
    BY <1>2, <1>x, <2>1, <2>2 DEF FieldSize, X
<1>3. QED
  BY <1>1, <1>2

\* ByteSizeLong is what is written.
LEMMA SizeIsExact ==
    ASSUME NEW fields, TwoFields(fields), NEW n \in Message(fields)
    PROVE  ByteSizeLong(n, fields) = Bytes(Serialize(n, fields))
<1> DEFINE X == Field(fields)
           a == OnWire(n, fields[1])
           b == OnWire(n, fields[2])
<1>1. fields[1] \in ToSet(fields) /\ fields[2] \in ToSet(fields)
  BY DEF TwoFields, ToSet
<1>2. <<>> \in Seq(X) /\ Bytes(<<>>) = 0
  <2>1. <<>> \in Seq(X)
    BY EmptySeq
  <2>2. QED
    BY <2>1, BytesIs
<1>3. a \in Seq(X) /\ <<>> \o a = a
  <2>1. a \in Seq(X)
    BY <1>1, OnWireIs
  <2>2. QED
    BY <2>1, ConcatEmptySeq
<1>4. Bytes(a) = 0 + FieldSize(n, fields[1]) /\ Bytes(a) \in Nat
  <2>1. PICK e : e = <<>>
    OBVIOUS
  <2>2. e \in Seq(X)
    BY <1>2, <2>1
  <2>3. Bytes(e \o a) = Bytes(e) + FieldSize(n, fields[1])
    BY <1>1, <2>2, FieldBytes
  <2>4. Bytes(a) \in Nat
    BY <1>3, BytesIs
  <2>5. QED
    BY <1>2, <1>3, <2>1, <2>3, <2>4
<1>5. Bytes(a \o b) = Bytes(a) + FieldSize(n, fields[2])
  <2>1. PICK v : v = a
    OBVIOUS
  <2>2. v \in Seq(X)
    BY <1>3, <2>1
  <2>3. Bytes(v \o b) = Bytes(v) + FieldSize(n, fields[2])
    BY <1>1, <2>2, FieldBytes
  <2>4. QED
    BY <2>1, <2>3
<1>6. FieldSize(n, fields[1]) \in Nat
  <2>1. CASE Written(n, fields[1])
    <3>1. n.val[fields[1]] \in Values
      BY <1>1, <2>1 DEF Written, Message
    <3>2. QED
      BY <2>1, <3>1 DEF FieldSize
  <2>2. CASE ~Written(n, fields[1])
    BY <2>2 DEF FieldSize
  <2>3. QED
    BY <2>1, <2>2
<1> HIDE DEF a, b
<1>7. Bytes(a \o b) = FieldSize(n, fields[1]) + FieldSize(n, fields[2])
  BY <1>4, <1>5, <1>6
<1>8. QED
  BY <1>7 DEF ByteSizeLong, Serialize, a, b

-----------------------------------------------------------------------------
(* The wire of a LoginRequest. *)

\* Every occurrence of the User is parsed after the other.
Wire == Seq(Field(User_fields))

UsersStep == [p \in Message(User_fields) \X Wire |-> Parse(p[1], p[2])]

\* It makes a User of a User and an occurrence.
LEMMA UsersStepIs ==
    /\ UsersStep \in [Message(User_fields) \X Wire -> Message(User_fields)]
    /\ \A a \in Message(User_fields), x \in Wire : UsersStep[<<a, x>>] = Parse(a, x)
<1>1. \A p \in Message(User_fields) \X Wire : Parse(p[1], p[2]) \in Message(User_fields)
  BY ParseIs DEF Wire
<1>2. QED
  BY <1>1 DEF UsersStep

\* What ParseUsers computes is such a walk.
LEMMA UsersWalk ==
    ASSUME NEW m \in Message(User_fields), NEW w \in Seq(Wire)
    PROVE  \E f : /\ Walk(f, UsersStep, Message(User_fields), Wire, m, w)
                  /\ End(f, w) = ParseUsers(m, w)
<1> DEFINE M == Message(User_fields)
           X == Wire
           step == UsersStep
           Eq(g) == g = [i \in 0 .. Len(w) |-> IF i = 0 THEN m ELSE Parse(g[i - 1], w[i])]
           read == CHOOSE g : Eq(g)
<1>1. ParseUsers(m, w) = read[Len(w)]
  BY DEF ParseUsers
<1>step. step \in [M \X X -> M] /\ \A a \in M, x \in X : step[<<a, x>>] = Parse(a, x)
  BY UsersStepIs
<1>m. m \in M /\ w \in Seq(X) /\ Len(w) \in Nat
  OBVIOUS
<1> HIDE DEF M, X, step
<1>given. Given(step, M, X, m, w)
  BY <1>step, <1>m DEF Given
<1>way. PICK f : Steps(f, step, M, m, w)
  BY <1>given, WalkExists
<1>2. /\ f \in [0 .. Len(w) -> M]
      /\ f = [i \in 0 .. Len(w) |-> IF i = 0 THEN m ELSE step[<<f[i - 1], w[i]>>]]
  BY <1>way DEF Steps
<1>3. ASSUME NEW i \in 0 .. Len(w)
      PROVE  f[i] = IF i = 0 THEN m ELSE Parse(f[i - 1], w[i])
  <2>1. CASE i = 0
    BY <1>2, <2>1
  <2>2. CASE i # 0
    <3>1. i - 1 \in 0 .. Len(w) /\ i \in 1 .. Len(w)
      BY <1>m, <2>2
    <3>2. f[i - 1] \in M
      BY <1>2, <3>1
    <3>3. w[i] \in X
      BY <1>m, <3>1
    <3>4. f[i] = step[<<f[i - 1], w[i]>>]
      BY <1>2, <2>2
    <3>5. QED
      BY <1>step, <2>2, <3>2, <3>3, <3>4
  <2>3. QED
    BY <2>1, <2>2
<1>4. Eq(f)
  <2>1. f = [i \in 0 .. Len(w) |-> f[i]]
    BY <1>2
  <2>2. QED
    BY <1>3, <2>1
<1> HIDE DEF Eq
<1>5. Eq(read)
  BY <1>4
<1> HIDE DEF read
<1>6. read[0] = m
  BY <1>5, <1>m DEF Eq
<1>7. ASSUME NEW i \in 1 .. Len(w), read[i - 1] \in M
      PROVE  read[i] = step[<<read[i - 1], w[i]>>]
  <2>1. i \in 0 .. Len(w) /\ i # 0 /\ w[i] \in X
    BY <1>m
  <2>2. read[i] = Parse(read[i - 1], w[i])
    BY <1>5, <2>1 DEF Eq
  <2>3. QED
    BY <1>step, <1>7, <2>1, <2>2
<1>8. Walk(read, step, M, X, m, w)
  BY <1>m, <1>step, <1>6, <1>7 DEF Walk
<1>9. QED
  BY <1>1, <1>8 DEF End, M, X, step

\* Without a User the one there is stays, and one occurrence more is parsed into it.
LEMMA UsersIs ==
    ASSUME NEW m \in Message(User_fields), NEW w \in Seq(Wire)
    PROVE  /\ ParseUsers(m, w) \in Message(User_fields)
           /\ w = <<>> => ParseUsers(m, w) = m
           /\ \A x \in Wire :
                ParseUsers(m, Append(w, x)) = Parse(ParseUsers(m, w), x)
<1> DEFINE M == Message(User_fields)
           X == Wire
           step == UsersStep
<1>m. m \in M /\ w \in Seq(X) /\ Len(w) \in Nat
  OBVIOUS
<1>1. PICK f : Walk(f, step, M, X, m, w) /\ End(f, w) = ParseUsers(m, w)
  BY UsersWalk
<1>step. \A a \in M, x \in X : step[<<a, x>>] = Parse(a, x)
  BY UsersStepIs
<1>walks. \A x \in X : \E g : /\ Walk(g, step, M, X, m, Append(w, x))
                              /\ End(g, Append(w, x)) = ParseUsers(m, Append(w, x))
  <2>1. \A x \in X : Append(w, x) \in Seq(X)
    OBVIOUS
  <2>2. QED
    BY <2>1, UsersWalk
<1> HIDE DEF M, X, step
<1>2. ParseUsers(m, w) \in M
  BY <1>1, WalkType
<1>3. ASSUME w = <<>> PROVE ParseUsers(m, w) = m
  <2>1. Len(w) = 0
    BY <1>3
  <2>2. QED
    BY <1>1, <2>1 DEF Walk, End
<1>4. ASSUME NEW x \in X PROVE ParseUsers(m, Append(w, x)) = Parse(ParseUsers(m, w), x)
  <2>1. PICK v : v = Append(w, x)
    OBVIOUS
  <2>2. PICK g : Walk(g, step, M, X, m, v) /\ End(g, v) = ParseUsers(m, v)
    BY <1>walks, <2>1
  <2>3. OneMore(v, w) /\ v[Len(v)] = x
    BY <1>m, <2>1 DEF OneMore
  <2>4. End(g, v) = StepTo(step, End(f, w), v[Len(v)])
    BY <1>1, <2>2, <2>3, WalkExtended
  <2>5. QED
    BY <1>1, <1>2, <1>step, <2>1, <2>2, <2>3, <2>4 DEF StepTo
<1>5. QED
  BY <1>2, <1>3, <1>4 DEF M, X

-----------------------------------------------------------------------------
(* The objects. *)

Types ==
    /\ mem \in [Addresses -> {None} \cup [home : Places, msg : Message(User_fields)]]
    /\ req \in [Requests -> [place : Places, has : BOOLEAN, user : Addresses \cup {None}]]
    /\ app \in [Addresses -> {"none", "owned", "lent"}]

\* A request points to a User that lies where it does and that nobody else
\* claims; without its bit it reads as the default instance.
Holds(r) ==
    /\ req[r].has => req[r].user # None
    /\ req[r].user # None =>
         /\ mem[req[r].user] # None
         /\ app[req[r].user] = "none"
         /\ mem[req[r].user].home = req[r].place
         /\ ~req[r].has => mem[req[r].user].msg = User_default

Apart(r, q) == req[r].user # None => req[r].user # req[q].user

\* A User is sound, and claimed.
Kept(a) ==
    /\ mem[a] # None => Sound(mem[a].msg, User_fields)
    /\ mem[a] # None /\ app[a] = "none" => \E r \in Requests : req[r].user = a
    /\ app[a] # "none" => mem[a] # None
    /\ app[a] = "owned" => mem[a].home = Heap

RequestInv ==
    /\ Types
    /\ \A r \in Requests : Holds(r)
    /\ \A r, q \in Requests : r # q => Apart(r, q)
    /\ \A a \in Addresses : Kept(a)

ResponseInv ==
    /\ rsp \in [Responses -> Message(LoginResponse_fields)]
    /\ \A s \in Responses : Sound(rsp[s], LoginResponse_fields)

IInv == RequestInv /\ ResponseInv

\* What a step may touch: the requests in R, the Users at the addresses in T, each
\* of which one of those requests points to, or nobody uses, or the program owns.
Within(R, T) ==
    /\ \A r \in Requests \ R : req'[r] = req[r]
    /\ \A a \in Addresses \ T : mem'[a] = mem[a] /\ app'[a] = app[a]
    /\ \A r \in R : req[r].user \in T \cup {None} /\ req'[r].user \in T \cup {None}
    /\ \A a \in T : (\E r \in R : req[r].user = a) \/ mem[a] = None \/ app[a] # "none"

\* A step that leaves what it touches in order leaves everything in order.
LEMMA TouchedOnly ==
    ASSUME RequestInv, NEW R \in SUBSET Requests, NEW T \in SUBSET Addresses,
           Within(R, T), Types',
           \A r \in R : Holds(r)',
           \A r, q \in R : r # q => Apart(r, q)',
           \A a \in T : Kept(a)'
    PROVE  RequestInv'
<1>none. None \notin Addresses
  OBVIOUS
<1>1. ASSUME NEW q \in Requests \ R
      PROVE  /\ req'[q] = req[q] /\ req[q].user \notin T
             /\ req[q].user # None => /\ req[q].user \in Addresses
                                      /\ mem'[req[q].user] = mem[req[q].user]
                                      /\ app'[req[q].user] = app[req[q].user]
  <2>1. req'[q] = req[q] /\ req[q].user \in Addresses \cup {None}
    BY DEF Within, RequestInv, Types
  <2>2. req[q].user # None => mem[req[q].user] # None /\ app[req[q].user] = "none"
    BY DEF RequestInv, Holds
  <2>3. \A r \in R : req[q].user # None => req[r].user # req[q].user
    BY DEF RequestInv, Apart
  <2>4. req[q].user \notin T
    BY <1>none, <2>1, <2>2, <2>3 DEF Within
  <2>5. QED
    BY <2>1, <2>4 DEF Within
<1>2. ASSUME NEW r \in Requests PROVE Holds(r)'
  <2>1. CASE r \in Requests \ R
    <3>1. Holds(r)
      BY DEF RequestInv
    <3>2. QED
      BY <1>1, <2>1, <3>1 DEF Holds
  <2>2. QED
    BY <2>1
<1>3. ASSUME NEW r \in Requests, NEW q \in Requests, r # q PROVE Apart(r, q)'
  <2>0. Apart(r, q)
    BY <1>3 DEF RequestInv
  <2>1. CASE r \in Requests \ R /\ q \in Requests \ R
    BY <1>1, <2>0, <2>1 DEF Apart
  <2>2. CASE r \in R /\ q \in Requests \ R
    <3>1. req'[q].user = req[q].user /\ req[q].user \notin T
      BY <1>1, <2>2
    <3>2. req'[r].user \in T \cup {None}
      BY <2>2 DEF Within
    <3>3. QED
      BY <3>1, <3>2 DEF Apart
  <2>3. CASE r \in Requests \ R /\ q \in R
    <3>1. req'[r].user = req[r].user /\ req[r].user \notin T
      BY <1>1, <2>3
    <3>2. req'[q].user \in T \cup {None}
      BY <2>3 DEF Within
    <3>3. QED
      BY <3>1, <3>2 DEF Apart
  <2>4. CASE r \in R /\ q \in R
    BY <1>3, <2>4
  <2>5. QED
    BY <2>1, <2>2, <2>3, <2>4
<1>4. ASSUME NEW a \in Addresses PROVE Kept(a)'
  <2>1. CASE a \in Addresses \ T
    <3>1. mem'[a] = mem[a] /\ app'[a] = app[a]
      BY <2>1 DEF Within
    <3>2. Kept(a)
      BY DEF RequestInv
    <3>3. ASSUME NEW r \in Requests, req[r].user = a PROVE req'[r].user = a
      <4>1. r \notin R
        BY <1>none, <2>1, <3>3 DEF Within
      <4>2. QED
        BY <1>1, <3>3, <4>1
    <3>4. QED
      BY <3>1, <3>2, <3>3 DEF Kept
  <2>2. QED
    BY <2>1
<1>5. QED
  BY <1>2, <1>3, <1>4 DEF RequestInv

\* One request r that has its bit as in h and points to u.
Rewired(r, h, u) ==
    req' = [req EXCEPT ![r] = [place |-> req[r].place, has |-> h, user |-> u]]

\* The other requests stay as they are.
LEMMA RewiredIs ==
    ASSUME NEW r \in Requests, NEW h \in BOOLEAN, NEW u \in Addresses \cup {None},
           Types, Rewired(r, h, u)
    PROVE  /\ req' \in [Requests -> [place : Places, has : BOOLEAN, user : Addresses \cup {None}]]
           /\ req'[r].place = req[r].place /\ req'[r].has = h /\ req'[r].user = u
           /\ \A q \in Requests \ {r} : req'[q] = req[q]
<1> DEFINE Q == [place : Places, has : BOOLEAN, user : Addresses \cup {None}]
           new == [place |-> req[r].place, has |-> h, user |-> u]
<1>1. req \in [Requests -> Q]
  BY DEF Types
<1>2. new \in Q
  BY <1>1
<1>3. new.place = req[r].place /\ new.has = h /\ new.user = u
  OBVIOUS
<1>4. req' = [req EXCEPT ![r] = new]
  BY DEF Rewired
<1> HIDE DEF Q, new
<1>5. req' \in [Requests -> Q] /\ req'[r] = new /\ \A q \in Requests \ {r} : req'[q] = req[q]
  BY <1>1, <1>2, <1>4
<1>6. QED
  BY <1>3, <1>5 DEF Q

\* Setting the bit and the pointer of a request, or the bit alone.
LEMMA RequestUpdates ==
    ASSUME NEW r \in Requests, NEW h, NEW u, Types
    PROVE  /\ req' = [req EXCEPT ![r].has = h, ![r].user = u] => Rewired(r, h, u)
           /\ req' = [req EXCEPT ![r].has = h] => Rewired(r, h, req[r].user)
<1>1. req[r] = [place |-> req[r].place, has |-> req[r].has, user |-> req[r].user]
  BY DEF Types
<1>2. [req[r] EXCEPT !.has = h] = [place |-> req[r].place, has |-> h, user |-> req[r].user]
  BY <1>1
<1>3. ASSUME req' = [req EXCEPT ![r].has = h] PROVE Rewired(r, h, req[r].user)
  BY <1>2, <1>3 DEF Rewired
<1>4. ASSUME req' = [req EXCEPT ![r].has = h, ![r].user = u] PROVE Rewired(r, h, u)
  <2>1. PICK f : f = [req EXCEPT ![r].has = h]
    OBVIOUS
  <2>2. req' = [f EXCEPT ![r].user = u]
    BY <1>4, <2>1, Zenon
  <2>3. f = [req EXCEPT ![r] = [place |-> req[r].place, has |-> h, user |-> req[r].user]]
    BY <1>2, <2>1
  <2>4. DOMAIN f = Requests /\ f[r] = [place |-> req[r].place, has |-> h, user |-> req[r].user]
        /\ \A q \in Requests \ {r} : f[q] = req[q]
    BY <2>3 DEF Types
  <2>5. [f[r] EXCEPT !.user = u] = [place |-> req[r].place, has |-> h, user |-> u]
    BY <2>4
  <2>6. req' = [f EXCEPT ![r] = [place |-> req[r].place, has |-> h, user |-> u]]
    BY <2>2, <2>5
  <2>7. QED
    BY <2>3, <2>6 DEF Rewired, Types
<1>5. QED
  BY <1>3, <1>4

UserType == [home : Places, msg : Message(User_fields)]

\* A User can be told from None.
LEMMA UserIs ==
    ASSUME NEW h \in Places, NEW m \in Message(User_fields)
    PROVE  /\ [home |-> h, msg |-> m] \in UserType
           /\ [home |-> h, msg |-> m] # None
<1>1. [home |-> h, msg |-> m] \in [home : Places, msg : Message(User_fields)]
  OBVIOUS
<1>2. QED
  BY <1>1, NoneIsNoUser DEF UserType

\* What a request reads as is sound, and without its bit the default instance.
LEMMA UserIsSound ==
    ASSUME RequestInv, NEW r \in Requests
    PROVE  /\ Sound(user(r), User_fields)
           /\ ~req[r].has => user(r) = User_default
           /\ Cleared(r) = User_default
<1>1. CASE req[r].user = None
  <2>1. user(r) = User_default /\ ~req[r].has
    BY <1>1 DEF user, RequestInv, Holds
  <2>2. QED
    BY <2>1, BlankIsSound DEF User_default, Cleared
<1>2. CASE req[r].user # None
  <2>1. req[r].user \in Addresses /\ user(r) = mem[req[r].user].msg
    BY <1>2 DEF user, RequestInv, Types
  <2>2. mem[req[r].user] # None /\ (~req[r].has => user(r) = User_default)
    BY <1>2, <2>1 DEF RequestInv, Holds
  <2>3. Sound(user(r), User_fields)
    BY <2>1, <2>2 DEF RequestInv, Kept
  <2>4. Clear(user(r)) = User_default
    BY <2>3, BlankIsSound DEF User_default
  <2>5. QED
    BY <2>2, <2>3, <2>4 DEF Cleared
<1>3. QED
  BY <1>1, <1>2

\* The User at u becomes x.
UserBecomes(u, x) == mem' = [mem EXCEPT ![u] = x]

\* Setting what a User holds or where it lies.
LEMMA UserUpdates ==
    ASSUME Types, NEW u \in Addresses, mem[u] # None, NEW m
    PROVE  /\ mem[u].home \in Places /\ mem[u].msg \in Message(User_fields)
           /\ mem' = [mem EXCEPT ![u].msg = m] => UserBecomes(u, [home |-> mem[u].home, msg |-> m])
           /\ [mem[u] EXCEPT !.msg = m] = [home |-> mem[u].home, msg |-> m]
           /\ \A h : [mem[u] EXCEPT !.home = h] = [home |-> h, msg |-> mem[u].msg]
<1>1. mem[u] \in [home : Places, msg : Message(User_fields)]
  BY DEF Types
<1>2. mem[u] = [home |-> mem[u].home, msg |-> mem[u].msg]
  BY <1>1
<1>3. [mem[u] EXCEPT !.msg = m] = [home |-> mem[u].home, msg |-> m]
  BY <1>2
<1>4. \A h : [mem[u] EXCEPT !.home = h] = [home |-> h, msg |-> mem[u].msg]
  BY <1>2
<1>5. QED
  BY <1>1, <1>3, <1>4 DEF UserBecomes

\* One User and one request change, the request points to the User, and the
\* program had no claim to it unless it gives that up.
LEMMA OneUserKept ==
    ASSUME RequestInv, NEW r \in Requests, NEW a \in Addresses, NEW h, NEW m,
           NEW b \in BOOLEAN,
           Sound(m, User_fields), h = req[r].place,
           UserBecomes(a, [home |-> h, msg |-> m]), Rewired(r, b, a), UNCHANGED app,
           app[a] = "none",
           req[r].user = a \/ (req[r].user = None /\ mem[a] = None),
           b \/ m = User_default
    PROVE  RequestInv'
<1>t. Types
  BY DEF RequestInv
<1>0. h \in Places /\ m \in Message(User_fields)
  BY <1>t DEF Types, Sound
<1>1. PICK x : x = [home |-> h, msg |-> m]
  OBVIOUS
<1>2. x \in UserType /\ x # None /\ x.home = h /\ x.msg = m
  BY <1>0, <1>1, UserIs
<1>3. mem' = [mem EXCEPT ![a] = x]
  BY <1>1 DEF UserBecomes
<1>4. mem \in [Addresses -> {None} \cup UserType]
  BY <1>t DEF Types, UserType
<1>5. mem' \in [Addresses -> {None} \cup UserType] /\ mem'[a] = x
      /\ \A c \in Addresses \ {a} : mem'[c] = mem[c]
  BY <1>2, <1>3, <1>4
<1>6. /\ req' \in [Requests -> [place : Places, has : BOOLEAN, user : Addresses \cup {None}]]
      /\ req'[r].place = req[r].place /\ req'[r].has = b /\ req'[r].user = a
      /\ \A q \in Requests \ {r} : req'[q] = req[q]
  BY <1>t, RewiredIs
<1>7. Types'
  BY <1>5, <1>6, <1>t DEF Types, UserType
<1>8. Within({r}, {a})
  BY <1>5, <1>6 DEF Within
<1>9. Holds(r)'
  BY <1>2, <1>5, <1>6 DEF Holds, User_default
<1>10. Kept(a)'
  <2>1. Sound(mem'[a].msg, User_fields)
    BY <1>2, <1>5
  <2>2. QED
    BY <2>1, <1>2, <1>5, <1>6 DEF Kept
<1>11. QED
  BY <1>7, <1>8, <1>9, <1>10, TouchedOnly

\* A request whose User gets sound contents, or a new User with them.
LEMMA BecomeKeeps ==
    ASSUME RequestInv, NEW r \in Requests, NEW m, Sound(m, User_fields),
           Become(r, m), UNCHANGED app
    PROVE  RequestInv'
<1>t. Types
  BY DEF RequestInv
<1>1. CASE req[r].user = None
  <2>1. PICK a \in Unused : mem' = [mem EXCEPT ![a] = At(r, m)]
                            /\ req' = [req EXCEPT ![r].has = TRUE, ![r].user = a]
    BY <1>1 DEF Become
  <2>2. a \in Addresses /\ mem[a] = None
    BY <2>1 DEF Unused
  <2>3. app[a] = "none"
    BY <2>2, <1>t DEF RequestInv, Kept, Types
  <2>4. UserBecomes(a, [home |-> req[r].place, msg |-> m])
    BY <2>1 DEF UserBecomes, At
  <2>5. Rewired(r, TRUE, a)
    BY <1>t, <2>1, RequestUpdates
  <2>6. QED
    BY <1>1, <2>2, <2>3, <2>4, <2>5, OneUserKept
<1>2. CASE req[r].user # None
  <2>1. PICK a : a = req[r].user
    OBVIOUS
  <2>2. /\ a \in Addresses /\ mem[a] # None /\ app[a] = "none"
        /\ mem[a].home = req[r].place
    BY <1>2, <1>t, <2>1 DEF RequestInv, Holds, Types
  <2>3. UserBecomes(a, [home |-> req[r].place, msg |-> m])
    <3>1. mem' = [mem EXCEPT ![a].msg = m]
      BY <1>2, <2>1 DEF Become
    <3>2. UserBecomes(a, [home |-> mem[a].home, msg |-> m])
      BY <1>t, <2>2, <3>1, UserUpdates
    <3>3. QED
      BY <2>2, <3>2
  <2>4. Rewired(r, TRUE, a)
    BY <1>2, <1>t, <2>1, RequestUpdates DEF Become
  <2>5. QED
    BY <2>1, <2>2, <2>3, <2>4, OneUserKept
<1>3. QED
  BY <1>1, <1>2

\* Nothing but the bit of a request that has no User.
LEMMA BareBitKept ==
    ASSUME RequestInv, NEW r \in Requests, req[r].user = None, Rewired(r, FALSE, None),
           UNCHANGED <<mem, app>>
    PROVE  RequestInv'
<1>t. Types
  BY DEF RequestInv
<1>1. /\ req' \in [Requests -> [place : Places, has : BOOLEAN, user : Addresses \cup {None}]]
      /\ req'[r].place = req[r].place /\ req'[r].has = FALSE /\ req'[r].user = None
      /\ \A q \in Requests \ {r} : req'[q] = req[q]
  BY <1>t, RewiredIs
<1>2. Types'
  BY <1>t, <1>1 DEF Types
<1>3. Within({r}, {})
  BY <1>1 DEF Within
<1>4. Holds(r)'
  BY <1>1 DEF Holds
<1>5. QED
  BY <1>2, <1>3, <1>4, TouchedOnly

\* A request that is cleared keeps its User, as the default instance.
LEMMA ClearKeeps ==
    ASSUME RequestInv, NEW r \in Requests, clear_user(r) \/ ClearRequest(r)
    PROVE  RequestInv'
<1>t. Types /\ req' = [req EXCEPT ![r].has = FALSE] /\ UNCHANGED app
  BY DEF RequestInv, clear_user, ClearRequest
<1>r. Rewired(r, FALSE, req[r].user)
  BY <1>t, RequestUpdates
<1>m. mem \in [Addresses -> {None} \cup UserType]
  BY <1>t DEF Types, UserType
<1>1. CASE req[r].user = None
  <2>1. \A a \in Addresses : a # req[r].user
    BY <1>1
  <2>2. mem' = [a \in Addresses |-> mem[a]]
    BY <2>1 DEF clear_user, ClearRequest
  <2>3. mem' = mem
    BY <1>m, <2>2
  <2>4. QED
    BY <1>1, <1>r, <1>t, <2>3, BareBitKept
<1>2. CASE req[r].user # None
  <2>1. PICK a : a = req[r].user
    OBVIOUS
  <2>2. /\ a \in Addresses /\ mem[a] # None /\ app[a] = "none"
        /\ mem[a].home = req[r].place /\ user(r) = mem[a].msg
    BY <1>2, <1>t, <2>1 DEF RequestInv, Holds, Types, user
  <2>3. Clear(mem[a].msg) = User_default /\ Cleared(r) = User_default
    <3>1. Sound(user(r), User_fields) /\ Cleared(r) = User_default
      BY UserIsSound
    <3>2. QED
      BY <2>2, <3>1, BlankIsSound DEF User_default
  <2>4. PICK x : x = [home |-> mem[a].home, msg |-> User_default]
    OBVIOUS
  <2>5. [mem[a] EXCEPT !.msg = User_default] = x
    BY <1>t, <2>2, <2>4, UserUpdates
  <2>6. mem' = [c \in Addresses |-> IF c = a THEN x ELSE mem[c]]
    <3>1. CASE clear_user(r)
      <4>1. [mem[a] EXCEPT !.msg = Clear(@)] = x
        BY <2>3, <2>5
      <4>2. mem' = [c \in Addresses |-> IF c = a THEN [mem[c] EXCEPT !.msg = Clear(@)] ELSE mem[c]]
        BY <3>1, <2>1 DEF clear_user
      <4>3. QED
        BY <4>1, <4>2
    <3>2. CASE ClearRequest(r)
      <4>1. [mem[a] EXCEPT !.msg = Cleared(r)] = x
        BY <2>3, <2>5
      <4>2. mem' = [c \in Addresses |-> IF c = a THEN [mem[c] EXCEPT !.msg = Cleared(r)] ELSE mem[c]]
        BY <3>2, <2>1 DEF ClearRequest
      <4>3. QED
        BY <4>1, <4>2
    <3>3. QED
      BY <3>1, <3>2
  <2>7. UserBecomes(a, [home |-> mem[a].home, msg |-> User_default])
    <3>1. mem' = [mem EXCEPT ![a] = x]
      BY <1>m, <2>2, <2>6
    <3>2. QED
      BY <2>4, <3>1 DEF UserBecomes
  <2>8. Sound(User_default, User_fields)
    BY BlankIsSound DEF User_default
  <2>9. Rewired(r, FALSE, a)
    BY <1>r, <2>1
  <2>10. QED
    BY <1>t, <2>1, <2>2, <2>7, <2>8, <2>9, OneUserKept
<1>3. QED
  BY <1>1, <1>2

\* The fields of the two kinds of message.
LEMMA FieldNames == TwoFields(User_fields) /\ TwoFields(LoginResponse_fields)
  BY DEF TwoFields, User_fields, LoginResponse_fields

\* Short sequences.
LEMMA ShortSequences ==
    ASSUME NEW S, NEW s \in S, NEW t \in S
    PROVE  /\ <<>> \in Seq(S) /\ <<s>> \in Seq(S)
           /\ Append(<<>>, s) = <<s>>
           /\ Append(<<s>>, t) = <<s, t>>
           /\ <<s>> \o <<t>> = <<s, t>>
<1>1. <<>> \in Seq(S) /\ <<s>> \in Seq(S) /\ <<s, t>> \in Seq(S)
  OBVIOUS
<1>2. Len(<<s>>) = 1 /\ <<s>>[1] = s
  OBVIOUS
<1>3. Append(<<>>, s) = <<s>>
  OBVIOUS
<1>4. PICK v : v = Append(<<s>>, t)
  OBVIOUS
<1>5. v \in Seq(S) /\ Len(v) = 2 /\ v[1] = s /\ v[2] = t
  BY <1>1, <1>2, <1>4, AppendProperties
<1>6. v = <<s, t>>
  BY <1>1, <1>5, SeqEqual
<1>7. <<s>> \o <<t>> = v
  BY <1>1, <1>4, AppendIsConcat
<1>8. QED
  BY <1>1, <1>3, <1>4, <1>6, <1>7

\* One User on the wire is parsed once, and two one after the other.
LEMMA UsersOnWire ==
    ASSUME NEW m \in Message(User_fields), NEW n \in Message(User_fields),
           NEW o \in Message(User_fields)
    PROVE  /\ ParseUsers(m, <<>>) = m
           /\ ParseUsers(m, <<Serialize(n, User_fields)>>) = PutAll(m, n, User_fields)
           /\ ParseUsers(m, <<Serialize(n, User_fields), Serialize(o, User_fields)>>)
                = PutAll(PutAll(m, n, User_fields), o, User_fields)
<1>1. PICK s, t : s = Serialize(n, User_fields) /\ t = Serialize(o, User_fields)
  OBVIOUS
<1>2. s \in Wire /\ t \in Wire
  <2>1. <<>> \in Seq(Field(User_fields))
    BY EmptySeq
  <2>2. QED
    BY <1>1, <2>1, ParseOnto, FieldNames DEF Wire
<1>3. <<>> \in Seq(Wire) /\ <<s>> \in Seq(Wire)
      /\ Append(<<>>, s) = <<s>> /\ Append(<<s>>, t) = <<s, t>>
  BY <1>2, ShortSequences
<1>4. PICK e, w : e = <<>> /\ w = <<s>>
  OBVIOUS
<1>5. ParseUsers(m, e) = m
  BY <1>3, <1>4, UsersIs
<1>6. ParseUsers(m, Append(e, s)) = Parse(ParseUsers(m, e), s)
  <2>1. e \in Seq(Wire)
    BY <1>3, <1>4
  <2>2. \A x \in Wire : ParseUsers(m, Append(e, x)) = Parse(ParseUsers(m, e), x)
    BY <2>1, UsersIs
  <2>3. QED
    BY <1>2, <2>2
<1>7. ParseUsers(m, Append(w, t)) = Parse(ParseUsers(m, w), t)
  <2>1. w \in Seq(Wire)
    BY <1>3, <1>4
  <2>2. \A x \in Wire : ParseUsers(m, Append(w, x)) = Parse(ParseUsers(m, w), x)
    BY <2>1, UsersIs
  <2>3. QED
    BY <1>2, <2>2
<1>8. Parse(m, s) = PutAll(m, n, User_fields)
  BY <1>1, RoundTrip, FieldNames
<1>9. PutAll(m, n, User_fields) \in Message(User_fields)
  BY PutAllIs, FieldNames
<1>10. Parse(PutAll(m, n, User_fields), t) = PutAll(PutAll(m, n, User_fields), o, User_fields)
  BY <1>1, <1>9, RoundTrip, FieldNames
<1>11. ParseUsers(m, <<s>>) = PutAll(m, n, User_fields)
  BY <1>3, <1>4, <1>5, <1>6, <1>8
<1>12. ParseUsers(m, <<s, t>>) = PutAll(PutAll(m, n, User_fields), o, User_fields)
  BY <1>3, <1>4, <1>7, <1>10, <1>11
<1>13. QED
  BY <1>1, <1>4, <1>5, <1>11, <1>12

\* Each call that gives a request's User new contents.
LEMMA WritingKeeps ==
    ASSUME RequestInv, NEW r \in Requests, NEW q \in Requests,
           \/ mutable_user(r)
           \/ CopyConstruct(r, q)
           \/ MergeRequest(r, q)
           \/ CopyFrom(r, q)
           \/ Transfer(r, q)
    PROVE  RequestInv'
<1>1. /\ Sound(user(r), User_fields) /\ Sound(user(q), User_fields)
      /\ Sound(Cleared(r), User_fields)
  BY UserIsSound, BlankIsSound DEF User_default
<1>merge. ASSUME NEW m, Sound(m, User_fields)
          PROVE  Sound(MergeImpl(m, user(q)), User_fields)
  BY <1>1, <1>merge, MergeIs DEF Sound
<1>2. CASE mutable_user(r)
  <2>1. PICK m \in {user(r)} \cup password(user(r)) \cup email(user(r)) : Become(r, m)
    BY <1>2 DEF mutable_user
  <2>2. "password" \in ToSet(User_fields) /\ "email" \in ToSet(User_fields)
    BY DEF ToSet, User_fields
  <2>3. Sound(m, User_fields)
    BY <1>1, <2>2, AccessIsSound DEF password, email
  <2>4. QED
    BY <1>2, <2>1, <2>3, BecomeKeeps DEF mutable_user
<1>3. CASE CopyConstruct(r, q)
  BY <1>1, <1>3, BecomeKeeps DEF CopyConstruct
<1>4. CASE MergeRequest(r, q)
  <2>1. CASE req[q].has
    BY <1>1, <1>4, <1>merge, <2>1, BecomeKeeps DEF MergeRequest
  <2>2. CASE ~req[q].has
    <3>1. UNCHANGED <<mem, req, app>>
      BY <1>4, <2>2 DEF MergeRequest
    <3>2. QED
      BY <3>1 DEF RequestInv, Types, Holds, Apart, Kept
  <2>3. QED
    BY <2>1, <2>2
<1>5. CASE CopyFrom(r, q)
  <2>1. CASE req[q].has
    BY <1>1, <1>5, <1>merge, <2>1, BecomeKeeps DEF CopyFrom
  <2>2. CASE ~req[q].has
    BY <1>5, <2>2, ClearKeeps DEF CopyFrom
  <2>3. QED
    BY <2>1, <2>2
<1>6. CASE Transfer(r, q)
  <2>1. CASE req[q].has
    <3>1. PICK m : m = ParseUsers(Cleared(r), SerializeRequest(q))
      OBVIOUS
    <3>2. SerializeRequest(q) = <<Serialize(user(q), User_fields)>>
      BY <2>1 DEF SerializeRequest
    <3>3. m = PutAll(Cleared(r), user(q), User_fields)
      BY <1>1, <3>1, <3>2, UsersOnWire DEF Sound
    <3>4. Sound(m, User_fields)
      BY <1>1, <3>3, PutAllIs, FieldNames DEF Sound
    <3>5. QED
      BY <1>6, <2>1, <3>1, <3>4, BecomeKeeps DEF Transfer
  <2>2. CASE ~req[q].has
    BY <1>6, <2>2, ClearKeeps DEF Transfer
  <2>3. QED
    BY <2>1, <2>2
<1>7. QED
  BY <1>2, <1>3, <1>4, <1>5, <1>6

\* A User is deleted with its request.
LEMMA ReconstructKeeps ==
    ASSUME RequestInv, NEW r \in Requests, Reconstruct(r)
    PROVE  RequestInv'
<1> DEFINE T == {a \in Addresses : a = req[r].user}
<1>t. Types /\ Rewired(r, FALSE, None) /\ UNCHANGED app
  BY RequestUpdates DEF RequestInv, Reconstruct
<1>1. /\ req' \in [Requests -> [place : Places, has : BOOLEAN, user : Addresses \cup {None}]]
      /\ req'[r].place = req[r].place /\ req'[r].has = FALSE /\ req'[r].user = None
      /\ \A q \in Requests \ {r} : req'[q] = req[q]
  BY <1>t, RewiredIs
<1>m. mem \in [Addresses -> {None} \cup UserType]
  BY <1>t DEF Types, UserType
<1>2. /\ mem' \in [Addresses -> {None} \cup UserType]
      /\ \A a \in T : mem'[a] = None
      /\ \A a \in Addresses \ T : mem'[a] = mem[a]
  BY <1>m DEF Reconstruct
<1>3. Types'
  BY <1>t, <1>1, <1>2 DEF Types, UserType
<1>4. Within({r}, T)
  BY <1>t, <1>1, <1>2 DEF Within, Types
<1>5. Holds(r)'
  BY <1>1 DEF Holds
<1>6. ASSUME NEW a \in T PROVE Kept(a)'
  <2>1. app[a] = "none"
    BY <1>6 DEF RequestInv, Holds
  <2>2. QED
    BY <1>2, <1>t, <1>6, <2>1 DEF Kept
<1>7. QED
  BY <1>3, <1>4, <1>5, <1>6, TouchedOnly

\* Two requests exchange their Users.
LEMMA SwapKeeps ==
    ASSUME RequestInv, NEW r \in Requests, NEW q \in Requests, Swap(r, q)
    PROVE  RequestInv'
<1> DEFINE T == {a \in Addresses : a = req[r].user \/ a = req[q].user}
           Q == [place : Places, has : BOOLEAN, user : Addresses \cup {None}]
<1>1. Types /\ r # q /\ req[r].place = req[q].place /\ UNCHANGED <<mem, app>>
      /\ req' = [req EXCEPT ![r] = req[q], ![q] = req[r]]
  BY DEF RequestInv, Swap, InternalSwap
<1>2. req \in [Requests -> Q]
  BY <1>1 DEF Types
<1> HIDE DEF Q
<1>3. /\ req' \in [Requests -> Q] /\ req'[r] = req[q] /\ req'[q] = req[r]
      /\ \A p \in Requests \ {r, q} : req'[p] = req[p]
  BY <1>1, <1>2
<1>4. Types'
  BY <1>1, <1>3 DEF Types, Q
<1>5. Within({r, q}, T)
  BY <1>1, <1>3 DEF Within, Types
<1>6. Holds(r)' /\ Holds(q)'
  <2>1. Holds(r) /\ Holds(q)
    BY DEF RequestInv
  <2>2. QED
    BY <1>1, <1>3, <2>1 DEF Holds
<1>7. Apart(r, q)' /\ Apart(q, r)'
  <2>1. Apart(r, q) /\ Apart(q, r)
    BY <1>1 DEF RequestInv
  <2>2. QED
    BY <1>3, <2>1 DEF Apart
<1>8. ASSUME NEW a \in T PROVE Kept(a)'
  <2>1. Kept(a)
    BY DEF RequestInv
  <2>2. \E p \in Requests : req'[p].user = a
    BY <1>3
  <2>3. QED
    BY <1>1, <2>1, <2>2 DEF Kept
<1>9. QED
  BY <1>4, <1>5, <1>6, <1>7, <1>8, TouchedOnly

\* A request gives its User away.
LEMMA ReleaseKeeps ==
    ASSUME RequestInv, NEW r \in Requests,
           release_user(r) \/ unsafe_arena_release_user(r)
    PROVE  RequestInv'
<1>t. Types /\ Rewired(r, FALSE, None)
  BY RequestUpdates DEF RequestInv, release_user, unsafe_arena_release_user
<1>1. /\ req' \in [Requests -> [place : Places, has : BOOLEAN, user : Addresses \cup {None}]]
      /\ req'[r].place = req[r].place /\ req'[r].has = FALSE /\ req'[r].user = None
      /\ \A q \in Requests \ {r} : req'[q] = req[q]
  BY <1>t, RewiredIs
<1>m. mem \in [Addresses -> {None} \cup UserType] /\ app \in [Addresses -> {"none", "owned", "lent"}]
  BY <1>t DEF Types, UserType
<1>2. Holds(r)'
  BY <1>1 DEF Holds
<1>3. PICK u : u = req[r].user
  OBVIOUS
<1>4. /\ u \in Addresses /\ mem[u] # None /\ app[u] = "none" /\ mem[u].home = req[r].place
      /\ Sound(mem[u].msg, User_fields) /\ user(r) = mem[u].msg
  <2>1. u # None
    BY <1>3 DEF release_user, unsafe_arena_release_user
  <2>2. /\ u \in Addresses /\ mem[u] # None /\ app[u] = "none" /\ mem[u].home = req[r].place
        /\ user(r) = mem[u].msg
    BY <1>3, <1>t, <2>1 DEF RequestInv, Holds, Types, user
  <2>3. QED
    BY <2>2 DEF RequestInv, Kept
<1>5. ASSUME UNCHANGED mem, NEW c \in {"owned", "lent"}, app' = [app EXCEPT ![u] = c],
             c = "owned" => req[r].place = Heap
      PROVE  RequestInv'
  <2>1. /\ app' \in [Addresses -> {"none", "owned", "lent"}] /\ app'[u] = c
        /\ \A b \in Addresses \ {u} : app'[b] = app[b]
    BY <1>4, <1>5, <1>m
  <2>2. Types'
    BY <1>t, <1>1, <1>5, <2>1 DEF Types
  <2>3. Within({r}, {u})
    BY <1>1, <1>3, <1>4, <1>5, <2>1 DEF Within
  <2>4. Kept(u)'
    BY <1>4, <1>5, <2>1 DEF Kept
  <2>5. QED
    BY <1>2, <1>4, <2>2, <2>3, <2>4, TouchedOnly
<1>6. CASE unsafe_arena_release_user(r)
  <2>1. PICK c : c = IF req[r].place = Heap THEN "owned" ELSE "lent"
    OBVIOUS
  <2>2. c \in {"owned", "lent"} /\ (c = "owned" => req[r].place = Heap)
    BY <2>1
  <2>3. app' = [app EXCEPT ![u] = c] /\ UNCHANGED mem
    BY <1>3, <1>6, <2>1 DEF unsafe_arena_release_user
  <2>4. QED
    BY <1>5, <2>2, <2>3
<1>7. CASE release_user(r) /\ req[r].place = Heap
  <2>1. app' = [app EXCEPT ![u] = "owned"] /\ UNCHANGED mem
    BY <1>3, <1>7 DEF release_user
  <2>2. QED
    BY <1>5, <1>7, <2>1
<1>8. CASE release_user(r) /\ req[r].place # Heap
  <2>1. PICK a \in Unused :
          /\ mem' = [mem EXCEPT ![u] = None, ![a] = [home |-> Heap, msg |-> user(r)]]
          /\ app' = [app EXCEPT ![a] = "owned"]
    BY <1>3, <1>8 DEF release_user
  <2>2. a \in Addresses /\ mem[a] = None /\ a # u
    BY <1>4, <2>1 DEF Unused
  <2>3. PICK x : x = [home |-> Heap, msg |-> user(r)]
    OBVIOUS
  <2>4. x \in UserType /\ x # None /\ x.home = Heap /\ x.msg = mem[u].msg
    <3>1. Heap \in Places /\ user(r) \in Message(User_fields)
      BY <1>4 DEF Places, Sound
    <3>2. QED
      BY <1>4, <2>3, <3>1, UserIs
  <2>5. mem' = [mem EXCEPT ![u] = None, ![a] = x]
    BY <2>1, <2>3
  <2>6. /\ mem' \in [Addresses -> {None} \cup UserType]
        /\ mem'[u] = None /\ mem'[a] = x
        /\ \A b \in Addresses \ {u, a} : mem'[b] = mem[b]
    BY <1>4, <1>m, <2>2, <2>4, <2>5
  <2>7. /\ app' \in [Addresses -> {"none", "owned", "lent"}] /\ app'[a] = "owned"
        /\ \A b \in Addresses \ {a} : app'[b] = app[b]
    BY <1>m, <2>1, <2>2
  <2>8. Types'
    BY <1>t, <1>1, <2>6, <2>7 DEF Types, UserType
  <2>9. Within({r}, {u, a})
    <3>1. \A q \in {r} : req[q].user \in {u, a} \cup {None} /\ req'[q].user \in {u, a} \cup {None}
      BY <1>1, <1>3
    <3>2. \A b \in {u, a} : (\E q \in {r} : req[q].user = b) \/ mem[b] = None \/ app[b] # "none"
      BY <1>3, <2>2
    <3>3. QED
      BY <1>1, <2>6, <2>7, <3>1, <3>2 DEF Within
  <2>10. Kept(u)'
    BY <1>4, <2>2, <2>6, <2>7 DEF Kept
  <2>11. Kept(a)'
    <3>1. Sound(mem'[a].msg, User_fields)
      BY <1>4, <2>4, <2>6
    <3>2. QED
      BY <2>4, <2>6, <2>7, <3>1 DEF Kept
  <2>12. QED
    BY <1>2, <1>4, <2>2, <2>8, <2>9, <2>10, <2>11, TouchedOnly
<1>9. QED
  BY <1>6, <1>7, <1>8

\* A request loses its User, and takes over one that the program had, if any.
LEMMA TakeUserKeeps ==
    ASSUME RequestInv, NEW r \in Requests, NEW a \in Addresses \cup {None},
           a # None => app[a] # "none", TakeUser(r, a)
    PROVE  RequestInv'
<1> DEFINE T == {b \in Addresses : b = req[r].user \/ b = a}
<1>h. PICK h \in BOOLEAN : h = (a # None)
  OBVIOUS
<1>t. Types /\ Rewired(r, h, a)
  <2>1. req' = [req EXCEPT ![r].has = h, ![r].user = a]
    BY <1>h DEF TakeUser
  <2>2. QED
    BY <2>1, RequestUpdates DEF RequestInv
<1>1. /\ req' \in [Requests -> [place : Places, has : BOOLEAN, user : Addresses \cup {None}]]
      /\ req'[r].place = req[r].place /\ req'[r].has = h /\ req'[r].user = a
      /\ \A q \in Requests \ {r} : req'[q] = req[q]
  BY <1>t, RewiredIs
<1>m. mem \in [Addresses -> {None} \cup UserType] /\ app \in [Addresses -> {"none", "owned", "lent"}]
  BY <1>t DEF Types, UserType
<1>old. req[r].user # None => req[r].user \in Addresses /\ app[req[r].user] = "none"
  BY <1>t DEF RequestInv, Holds, Types
<1>2. a # None => /\ a \in Addresses /\ mem[a] # None /\ a # req[r].user
                  /\ Sound(mem[a].msg, User_fields)
  BY <1>old DEF RequestInv, Kept
<1>place. req[r].place \in Places
  BY <1>t DEF Types
<1>x. PICK x : x = [home |-> req[r].place, msg |-> mem[a].msg]
  OBVIOUS
<1>3. a # None => /\ x \in UserType /\ x # None /\ x.home = req[r].place /\ x.msg = mem[a].msg
                  /\ [mem[a] EXCEPT !.home = req[r].place] = x
  <2>1. SUFFICES ASSUME a # None PROVE x \in UserType /\ x # None /\ x.home = req[r].place
                                       /\ x.msg = mem[a].msg
                                       /\ [mem[a] EXCEPT !.home = req[r].place] = x
    OBVIOUS
  <2>2. mem[a].msg \in Message(User_fields)
    BY <1>2, <2>1 DEF Sound
  <2>3. x \in UserType /\ x # None
    BY <1>place, <1>x, <2>2, UserIs
  <2>4. [mem[a] EXCEPT !.home = req[r].place] = [home |-> req[r].place, msg |-> mem[a].msg]
    BY <1>t, <1>2, <2>1, UserUpdates
  <2>5. QED
    BY <1>x, <2>3, <2>4
<1>4. mem' = [b \in Addresses |-> IF b = req[r].user THEN None
                                  ELSE IF b = a THEN x ELSE mem[b]]
  <2>1. ASSUME NEW b \in Addresses
        PROVE  (CASE b = req[r].user -> None
                  [] b = a -> [mem[b] EXCEPT !.home = req[r].place]
                  [] OTHER -> mem[b])
               = IF b = req[r].user THEN None ELSE IF b = a THEN x ELSE mem[b]
    <3>1. CASE b = a
      <4>1. a # None
        BY <3>1
      <4>2. b # req[r].user /\ [mem[b] EXCEPT !.home = req[r].place] = x
        BY <1>2, <1>3, <3>1, <4>1
      <4>3. QED
        BY <3>1, <4>2
    <3>2. CASE b # a
      BY <3>2
    <3>3. QED
      BY <3>1, <3>2
  <2>2. QED
    BY <2>1 DEF TakeUser
<1>5. /\ mem' \in [Addresses -> {None} \cup UserType]
      /\ \A b \in Addresses : b = req[r].user => mem'[b] = None
      /\ a # None => mem'[a] = x
      /\ \A b \in Addresses \ T : mem'[b] = mem[b]
  BY <1>m, <1>2, <1>3, <1>4
<1>6. /\ app' \in [Addresses -> {"none", "owned", "lent"}]
      /\ a # None => app'[a] = "none"
      /\ \A b \in Addresses : b # a => app'[b] = app[b]
  <2>1. app' = [b \in Addresses |-> IF b = a THEN "none" ELSE app[b]]
    BY DEF TakeUser
  <2>2. QED
    BY <1>m, <1>2, <2>1
<1>7. Types'
  BY <1>t, <1>1, <1>5, <1>6 DEF Types, UserType
<1>8. Within({r}, T)
  <2>1. \A b \in T : (\E q \in {r} : req[q].user = b) \/ mem[b] = None \/ app[b] # "none"
    OBVIOUS
  <2>2. req[r].user \in T \cup {None} /\ req'[r].user \in T \cup {None}
    BY <1>old, <1>1, <1>2
  <2>3. QED
    BY <1>1, <1>5, <1>6, <2>1, <2>2 DEF Within
<1>9. Holds(r)'
  BY <1>h, <1>1, <1>3, <1>5, <1>6 DEF Holds
<1>10. ASSUME NEW b \in T PROVE Kept(b)'
  <2>1. CASE b = a
    <3>1. a # None /\ mem'[b] = x /\ app'[b] = "none" /\ req'[r].user = b
      BY <1>1, <1>5, <1>6, <2>1
    <3>2. Sound(x.msg, User_fields)
      BY <1>2, <1>3, <3>1
    <3>3. QED
      BY <3>1, <3>2 DEF Kept
  <2>2. CASE b # a
    <3>1. b = req[r].user
      BY <2>2
    <3>2. mem'[b] = None /\ app'[b] = "none"
      BY <1>old, <1>5, <1>6, <2>2, <3>1
    <3>3. QED
      BY <3>2 DEF Kept
  <2>3. QED
    BY <2>1, <2>2
<1>11. QED
  BY <1>7, <1>8, <1>9, <1>10, TouchedOnly

\* A request loses its User, and gets a copy of one that the program keeps.
LEMMA TakeCopyKeeps ==
    ASSUME RequestInv, NEW r \in Requests, NEW a \in Addresses,
           app[a] # "none", TakeCopy(r, a)
    PROVE  RequestInv'
<1>c. PICK c \in Unused :
        /\ mem' = [b \in Addresses |-> CASE b = req[r].user -> None
                                         [] b = c -> At(r, mem[a].msg)
                                         [] OTHER -> mem[b]]
        /\ req' = [req EXCEPT ![r].has = TRUE, ![r].user = c]
  BY DEF TakeCopy
<1> DEFINE T == {b \in Addresses : b = req[r].user \/ b = c}
<1>2. c \in Addresses /\ c # None /\ mem[c] = None
  BY <1>c DEF Unused
<1>t. Types /\ Rewired(r, TRUE, c)
  BY <1>c, <1>2, RequestUpdates DEF RequestInv
<1>1. /\ req' \in [Requests -> [place : Places, has : BOOLEAN, user : Addresses \cup {None}]]
      /\ req'[r].place = req[r].place /\ req'[r].has = TRUE /\ req'[r].user = c
      /\ \A q \in Requests \ {r} : req'[q] = req[q]
  BY <1>t, <1>2, RewiredIs
<1>m. /\ mem \in [Addresses -> {None} \cup UserType]
      /\ app \in [Addresses -> {"none", "owned", "lent"}] /\ app' = app
  BY <1>t DEF Types, UserType, TakeCopy
<1>old. req[r].user # None => /\ req[r].user \in Addresses /\ app[req[r].user] = "none"
                              /\ mem[req[r].user] # None
  BY <1>t DEF RequestInv, Holds, Types
<1>new. c # req[r].user /\ app[c] = "none"
  <2>1. app[c] # "none" => mem[c] # None
    BY <1>2 DEF RequestInv, Kept
  <2>2. QED
    BY <1>2, <1>old, <2>1
<1>place. req[r].place \in Places
  BY <1>t DEF Types
<1>sound. mem[a] # None /\ Sound(mem[a].msg, User_fields)
  BY DEF RequestInv, Kept
<1>x. PICK x : x = [home |-> req[r].place, msg |-> mem[a].msg]
  OBVIOUS
<1>3. x \in UserType /\ x # None /\ x.home = req[r].place /\ x.msg = mem[a].msg
  <2>1. mem[a].msg \in Message(User_fields)
    BY <1>sound DEF Sound
  <2>2. QED
    BY <1>place, <1>x, <2>1, UserIs
<1>4. mem' = [b \in Addresses |-> IF b = req[r].user THEN None
                                  ELSE IF b = c THEN x ELSE mem[b]]
  <2>1. At(r, mem[a].msg) = x
    BY <1>x DEF At
  <2>2. ASSUME NEW b \in Addresses
        PROVE  (CASE b = req[r].user -> None
                  [] b = c -> At(r, mem[a].msg)
                  [] OTHER -> mem[b])
               = IF b = req[r].user THEN None ELSE IF b = c THEN x ELSE mem[b]
    BY <1>new, <2>1
  <2>3. QED
    BY <1>c, <2>2
<1>5. /\ mem' \in [Addresses -> {None} \cup UserType]
      /\ \A b \in Addresses : b = req[r].user => mem'[b] = None
      /\ mem'[c] = x
      /\ \A b \in Addresses \ T : mem'[b] = mem[b]
  BY <1>m, <1>2, <1>new, <1>3, <1>4
<1>6. Types'
  BY <1>t, <1>1, <1>5, <1>m DEF Types, UserType
<1>7. Within({r}, T)
  <2>1. \A b \in T : (\E q \in {r} : req[q].user = b) \/ mem[b] = None \/ app[b] # "none"
    BY <1>2
  <2>2. req[r].user \in T \cup {None} /\ req'[r].user \in T \cup {None}
    BY <1>old, <1>1, <1>2
  <2>3. QED
    BY <1>1, <1>5, <1>m, <2>1, <2>2 DEF Within
<1>8. Holds(r)'
  BY <1>1, <1>2, <1>3, <1>5, <1>m, <1>new DEF Holds
<1>9. ASSUME NEW b \in T PROVE Kept(b)'
  <2>1. CASE b = c
    <3>1. mem'[b] = x /\ app'[b] = "none" /\ req'[r].user = b
      BY <1>1, <1>5, <1>m, <1>new, <2>1
    <3>2. Sound(x.msg, User_fields)
      BY <1>sound, <1>3
    <3>3. QED
      BY <3>1, <3>2 DEF Kept
  <2>2. CASE b # c
    <3>1. b = req[r].user
      BY <2>2
    <3>2. mem'[b] = None /\ app'[b] = "none"
      BY <1>old, <1>5, <1>m, <3>1
    <3>3. QED
      BY <3>2 DEF Kept
  <2>3. QED
    BY <2>1, <2>2
<1>10. QED
  BY <1>6, <1>7, <1>8, <1>9, TouchedOnly

\* The program gives up a User.
LEMMA DiscardKeeps ==
    ASSUME RequestInv, NEW a \in Addresses, Discard(a)
    PROVE  RequestInv'
<1>t. Types
  BY DEF RequestInv
<1>m. mem \in [Addresses -> {None} \cup UserType] /\ app \in [Addresses -> {"none", "owned", "lent"}]
  BY <1>t DEF Types, UserType
<1>1. /\ mem' \in [Addresses -> {None} \cup UserType] /\ mem'[a] = None
      /\ \A b \in Addresses \ {a} : mem'[b] = mem[b]
  BY <1>m DEF Discard
<1>2. /\ app' \in [Addresses -> {"none", "owned", "lent"}] /\ app'[a] = "none"
      /\ \A b \in Addresses \ {a} : app'[b] = app[b]
  BY <1>m DEF Discard
<1>3. Types'
  BY <1>t, <1>1, <1>2 DEF Types, UserType, Discard
<1>4. Within({}, {a})
  BY <1>1, <1>2 DEF Within, Discard
<1>5. Kept(a)'
  BY <1>1, <1>2 DEF Kept
<1>6. QED
  BY <1>3, <1>4, <1>5, TouchedOnly

\* Every call about a LoginRequest.
LEMMA RequestCallKeeps ==
    ASSUME RequestInv, RequestCall
    PROVE  RequestInv'
<1>1. ASSUME NEW a \in Addresses, Discard(a) PROVE RequestInv'
  BY <1>1, DiscardKeeps
<1>2. ASSUME NEW r \in Requests, NEW a \in Addresses \cup {None},
             set_allocated_user(r, a) \/ unsafe_arena_set_allocated_user(r, a)
      PROVE  RequestInv'
  <2>1. \/ TakeUser(r, a) /\ (a # None => app[a] # "none")
        \/ TakeCopy(r, a) /\ a \in Addresses /\ app[a] # "none"
    BY <1>2 DEF set_allocated_user, unsafe_arena_set_allocated_user
  <2>2. QED
    BY <2>1, TakeUserKeeps, TakeCopyKeeps
<1>3. ASSUME NEW r \in Requests, NEW q \in Requests, Swap(r, q) \/ Move(r, q)
      PROVE  RequestInv'
  <2>1. Swap(r, q) \/ CopyFrom(r, q)
    BY <1>3 DEF Move
  <2>2. QED
    BY <2>1, SwapKeeps, WritingKeeps
<1>4. ASSUME NEW r \in Requests, NEW q \in Requests,
             \/ mutable_user(r) \/ clear_user(r) \/ ClearRequest(r) \/ Reconstruct(r)
             \/ release_user(r) \/ unsafe_arena_release_user(r)
             \/ CopyConstruct(r, q) \/ MergeRequest(r, q) \/ CopyFrom(r, q) \/ Transfer(r, q)
      PROVE  RequestInv'
  BY <1>4, WritingKeeps, ClearKeeps, ReconstructKeeps, ReleaseKeeps
<1>5. QED
  BY <1>1, <1>2, <1>3, <1>4 DEF RequestCall

\* Every call about a LoginResponse.
LEMMA ResponseCallKeeps ==
    ASSUME ResponseInv, ResponseCall
    PROVE  ResponseInv'
<1> DEFINE F == LoginResponse_fields
<1>inv. rsp \in [Responses -> Message(F)] /\ \A s \in Responses : Sound(rsp[s], F)
  BY DEF ResponseInv
<1>1. ASSUME NEW s \in Responses, NEW m, Sound(m, F), rsp' = [rsp EXCEPT ![s] = m]
      PROVE  ResponseInv'
  <2>1. rsp' \in [Responses -> Message(F)]
    BY <1>inv, <1>1 DEF Sound
  <2>2. ASSUME NEW t \in Responses PROVE rsp'[t] = m \/ rsp'[t] = rsp[t]
    BY <1>inv, <1>1
  <2>3. QED
    BY <1>inv, <1>1, <2>1, <2>2 DEF ResponseInv
<1>2. ASSUME NEW s \in Responses, ResponseAccess(s) PROVE ResponseInv'
  <2>1. PICK m \in token(rsp[s]) \cup user_id(rsp[s]) : rsp' = [rsp EXCEPT ![s] = m]
    BY <1>2 DEF ResponseAccess
  <2>2. "token" \in ToSet(F) /\ "user_id" \in ToSet(F)
    BY DEF ToSet, LoginResponse_fields
  <2>3. Sound(m, F)
    BY <1>inv, <2>2, AccessIsSound DEF token, user_id
  <2>4. QED
    BY <1>1, <2>1, <2>3
<1>3. ASSUME NEW s \in Responses
      PROVE  Clear(rsp[s]) = LoginResponse_default /\ Sound(LoginResponse_default, F)
  BY <1>inv, BlankIsSound DEF LoginResponse_default
<1>4. ASSUME NEW s \in Responses, ResponseClear(s) \/ ResponseReconstruct(s)
      PROVE  ResponseInv'
  BY <1>1, <1>3, <1>4 DEF ResponseClear, ResponseReconstruct
<1>5. ASSUME NEW s \in Responses, NEW t \in Responses, ResponseMerge(s, t) \/ ResponseCopy(s, t)
      PROVE  ResponseInv'
  <2>1. PICK m, d : /\ m = MergeImpl(rsp[s], rsp[t])
                    /\ d = MergeImpl(Clear(rsp[s]), rsp[t])
    OBVIOUS
  <2>2. Sound(m, F) /\ Sound(d, F)
    BY <1>inv, <1>3, <2>1, MergeIs DEF Sound
  <2>3. rsp' = [rsp EXCEPT ![s] = m] \/ rsp' = [rsp EXCEPT ![s] = d]
    BY <1>5, <2>1 DEF ResponseMerge, ResponseCopy
  <2>4. QED
    BY <1>1, <2>2, <2>3
<1>6. ASSUME NEW s \in Responses, NEW t \in Responses, ResponseTransfer(s, t)
      PROVE  ResponseInv'
  <2>1. PICK m : m = Parse(Clear(rsp[s]), Serialize(rsp[t], F))
    OBVIOUS
  <2>2. Sound(LoginResponse_default, F) /\ Sound(rsp[t], F) /\ Clear(rsp[s]) = LoginResponse_default
    BY <1>inv, <1>3
  <2>3. m = PutAll(LoginResponse_default, rsp[t], F)
    BY <2>1, <2>2, RoundTrip, FieldNames DEF Sound
  <2>4. Sound(m, F)
    BY <2>2, <2>3, PutAllIs, FieldNames DEF Sound
  <2>5. rsp' = [rsp EXCEPT ![s] = m]
    BY <1>6, <2>1 DEF ResponseTransfer
  <2>6. QED
    BY <1>1, <2>4, <2>5
<1>7. ASSUME NEW s \in Responses, NEW t \in Responses, ResponseSwap(s, t)
      PROVE  ResponseInv'
  <2>1. PICK m, n : m = rsp[s] /\ n = rsp[t]
    OBVIOUS
  <2>2. rsp' = [rsp EXCEPT ![s] = n, ![t] = m]
    BY <1>7, <2>1 DEF ResponseSwap
  <2>3. m \in Message(F) /\ n \in Message(F) /\ Sound(m, F) /\ Sound(n, F)
    BY <1>inv, <2>1
  <2> HIDE DEF F
  <2>4. rsp' \in [Responses -> Message(F)]
    BY <1>inv, <2>2, <2>3
  <2>5. \A o \in Responses : rsp'[o] = rsp[o] \/ rsp'[o] = n \/ rsp'[o] = m
    BY <1>inv, <2>2
  <2>6. QED
    BY <1>inv, <2>3, <2>4, <2>5 DEF ResponseInv, F
<1>8. QED
  BY <1>2, <1>4, <1>5, <1>6, <1>7 DEF ResponseCall

-----------------------------------------------------------------------------
(* Theorems. *)

\* There is nothing but blank objects at first.
LEMMA InitIInv == Init => IInv
<1> SUFFICES ASSUME Init PROVE IInv
  OBVIOUS
<1>1. /\ mem = [a \in Addresses |-> None]
      /\ req \in [Requests -> [place : Places, has : {FALSE}, user : {None}]]
      /\ app = [a \in Addresses |-> "none"]
      /\ rsp = [s \in Responses |-> LoginResponse_default]
  BY DEF Init
<1>2. Types
  BY <1>1 DEF Types
<1>3. ASSUME NEW r \in Requests PROVE req[r].user = None /\ ~req[r].has
  BY <1>1
<1>4. \A r \in Requests : Holds(r)
  BY <1>3 DEF Holds
<1>5. \A r, q \in Requests : r # q => Apart(r, q)
  BY <1>3 DEF Apart
<1>6. \A a \in Addresses : Kept(a)
  BY <1>1 DEF Kept
<1>7. ResponseInv
  BY <1>1, BlankIsSound DEF ResponseInv, LoginResponse_default, Sound
<1>8. QED
  BY <1>2, <1>4, <1>5, <1>6, <1>7 DEF IInv, RequestInv

\* Every call keeps the invariant.
LEMMA NextIInv == IInv /\ [Next]_vars => IInv'
<1> SUFFICES ASSUME IInv, [Next]_vars PROVE IInv'
  OBVIOUS
<1>1. ASSUME UNCHANGED requestVars, RequestInv PROVE RequestInv'
  BY <1>1 DEF requestVars, RequestInv, Types, Holds, Apart, Kept
<1>2. ASSUME UNCHANGED rsp, ResponseInv PROVE ResponseInv'
  BY <1>2 DEF ResponseInv
<1>3. CASE RequestCall
  BY <1>2, <1>3, RequestCallKeeps DEF IInv, RequestCall
<1>4. CASE ResponseCall
  BY <1>1, <1>4, ResponseCallKeeps DEF IInv, ResponseCall
<1>5. CASE UNCHANGED vars
  BY <1>1, <1>2, <1>5 DEF IInv, vars
<1>6. QED
  BY <1>3, <1>4, <1>5 DEF Next

\* The invariant the others follow from: the messages are well formed, and every
\* request and every User is in the order that Holds, Apart and Kept state.
THEOREM Invariance == Spec => []IInv
BY InitIInv, NextIInv, PTL DEF Spec

\* After any sequence of calls, what a message shows for a field whose bit is not
\* set is the default.
THEOREM BitsTellTheTruth == Spec => []HasBitConsistency
<1>1. ASSUME IInv PROVE HasBitConsistency
  <2>1. \A a \in Addresses : mem[a] # None => Bitless(mem[a].msg)
    BY <1>1 DEF IInv, RequestInv, Kept, Sound
  <2>2. \A s \in Responses : Bitless(rsp[s])
    BY <1>1 DEF IInv, ResponseInv, Sound
  <2>3. \A r \in Requests : IF req[r].has THEN req[r].user # None ELSE user(r) = User_default
    BY <1>1, UserIsSound DEF IInv, RequestInv, Holds
  <2>4. QED
    BY <2>1, <2>2, <2>3 DEF HasBitConsistency
<1>2. QED
  BY Invariance, <1>1, PTL

\* A singleton has one element.
LEMMA OneAndNone == Cardinality({}) = 0 /\ \A x : Cardinality({x}) = 1
  BY FS_EmptySet, FS_Singleton

\* Every User has exactly one owner and lies where it does.
THEOREM UsersAreOwned == Spec => []OneOwner
<1>1. ASSUME IInv PROVE OneOwner
  <2> DEFINE Claims(a) == {r \in Requests : req[r].user = a}
             Owns(a)   == {a} \cap {b \in Addresses : app[b] # "none"}
  <2>inv. Types /\ \A a \in Addresses : Kept(a)
    BY <1>1 DEF IInv, RequestInv
  <2>1. ASSUME NEW a \in Addresses
        PROVE  Cardinality(Claims(a)) + Cardinality(Owns(a)) = IF mem[a] = None THEN 0 ELSE 1
    <3>0. PICK C, O : C = Claims(a) /\ O = Owns(a)
      OBVIOUS
    <3>1. ASSUME NEW r \in Requests, req[r].user = a
          PROVE  mem[a] # None /\ app[a] = "none" /\ Claims(a) = {r}
      <4>1. a # None /\ mem[a] # None /\ app[a] = "none"
        BY <1>1, <3>1 DEF IInv, RequestInv, Holds
      <4>2. \A q \in Requests : req[q].user = a => q = r
        BY <1>1, <3>1, <4>1 DEF IInv, RequestInv, Apart
      <4>3. QED
        BY <3>1, <4>1, <4>2
    <3>2. CASE mem[a] = None
      <4>1. Claims(a) = {} /\ Owns(a) = {}
        BY <2>inv, <3>1, <3>2 DEF Kept
      <4>2. QED
        <5>1. Cardinality(C) = 0 /\ Cardinality(O) = 0
          BY <3>0, <4>1, OneAndNone
        <5>2. QED
          BY <3>0, <3>2, <5>1
    <3>3. CASE mem[a] # None /\ app[a] = "none"
      <4>1. PICK r \in Requests : req[r].user = a
        BY <2>inv, <3>3 DEF Kept
      <4>2. Claims(a) = {r} /\ Owns(a) = {}
        BY <3>1, <3>3, <4>1
      <4>3. Cardinality(C) = 1 /\ Cardinality(O) = 0
        BY <3>0, <4>2, OneAndNone
      <4>4. QED
        BY <3>0, <3>3, <4>3
    <3>4. CASE mem[a] # None /\ app[a] # "none"
      <4>1. Claims(a) = {} /\ Owns(a) = {a}
        BY <3>1, <3>4
      <4>2. Cardinality(C) = 0 /\ Cardinality(O) = 1
        BY <3>0, <4>1, OneAndNone
      <4>3. QED
        BY <3>0, <3>4, <4>2
    <3>5. QED
      BY <3>2, <3>3, <3>4
  <2>2. \A r \in Requests : req[r].user # None => mem[req[r].user].home = req[r].place
    BY <1>1 DEF IInv, RequestInv, Holds
  <2>3. \A a \in Addresses : app[a] = "owned" => mem[a].home = Heap
    BY <2>inv DEF Kept
  <2>4. QED
    BY <2>1, <2>2, <2>3 DEF OneOwner
<1>2. QED
  BY Invariance, <1>1, PTL

\* A User as a reader sees it, written by r and by q and parsed as one.
LEMMA UsersConcatenate ==
    ASSUME RequestInv, NEW r \in Requests, NEW q \in Requests
    PROVE  ParseUsers(User_default, SerializeRequest(r) \o SerializeRequest(q)).val
             = (IF req[q].has THEN MergeImpl(user(r), user(q)) ELSE user(r)).val
<1> DEFINE U == User_fields
           sr == Serialize(user(r), U)
           sq == Serialize(user(q), U)
<1>1. /\ Sound(user(r), U) /\ (~req[r].has => user(r) = User_default)
      /\ Sound(user(q), U)
      /\ Sound(User_default, U) /\ User_default = Blank(U)
  BY UserIsSound, BlankIsSound DEF User_default
<1>2. /\ user(r) \in Message(U) /\ user(q) \in Message(U) /\ User_default \in Message(U)
      /\ Bitless(user(r)) /\ Bitless(user(q))
  BY <1>1 DEF Sound
<1>3. /\ ParseUsers(User_default, <<>>) = User_default
      /\ ParseUsers(User_default, <<sr>>) = PutAll(User_default, user(r), U)
      /\ ParseUsers(User_default, <<sq>>) = PutAll(User_default, user(q), U)
      /\ ParseUsers(User_default, <<sr, sq>>) = PutAll(PutAll(User_default, user(r), U), user(q), U)
  BY <1>2, UsersOnWire
<1>4. /\ PutAll(User_default, user(r), U).val = user(r).val
      /\ PutAll(User_default, user(q), U).val = MergeImpl(User_default, user(q)).val
      /\ PutAll(PutAll(User_default, user(r), U), user(q), U).val = MergeImpl(user(r), user(q)).val
  <2>1. PutAll(User_default, user(r), U).val = user(r).val
    BY <1>1, <1>2, RoundTrip, FieldNames
  <2>2. PutAll(User_default, user(q), U).val = MergeImpl(User_default, user(q)).val
    <3>1. PutAll(User_default, user(q), U).val
            = [f \in ToSet(U) |-> IF Written(user(q), f) THEN user(q).val[f] ELSE User_default.val[f]]
      BY <1>2, PutAllIs, FieldNames
    <3>2. MergeImpl(User_default, user(q)).val
            = [f \in ToSet(U) |-> IF Written(user(q), f) THEN user(q).val[f] ELSE User_default.val[f]]
      BY <1>2, MergeIs
    <3>3. QED
      BY <3>1, <3>2
  <2>3. PutAll(PutAll(User_default, user(r), U), user(q), U).val = MergeImpl(user(r), user(q)).val
    BY <1>1, Concatenation, FieldNames
  <2>4. QED
    BY <2>1, <2>2, <2>3
<1>5. /\ SerializeRequest(r) = IF req[r].has THEN <<sr>> ELSE <<>>
      /\ SerializeRequest(q) = IF req[q].has THEN <<sq>> ELSE <<>>
  BY DEF SerializeRequest
<1> HIDE DEF sr, sq, U
<1>6. CASE req[r].has /\ req[q].has
  <2>1. SerializeRequest(r) \o SerializeRequest(q) = <<sr, sq>>
    <3>1. <<sr>> \o <<sq>> = <<sr, sq>>
      <4>1. sr \in {sr, sq} /\ sq \in {sr, sq}
        OBVIOUS
      <4>2. QED
        BY <4>1, ShortSequences
    <3>2. QED
      BY <1>5, <1>6, <3>1
  <2>2. QED
    BY <1>3, <1>4, <1>6, <2>1
<1>7. CASE req[r].has /\ ~req[q].has
  <2>1. SerializeRequest(r) \o SerializeRequest(q) = <<sr>>
    <3>1. <<sr>> \o <<>> = <<sr>>
      OBVIOUS
    <3>2. QED
      BY <1>5, <1>7, <3>1
  <2>2. QED
    BY <1>3, <1>4, <1>7, <2>1
<1>8. CASE ~req[r].has /\ req[q].has
  <2>1. SerializeRequest(r) \o SerializeRequest(q) = <<sq>>
    <3>1. <<>> \o <<sq>> = <<sq>>
      OBVIOUS
    <3>2. QED
      BY <1>5, <1>8, <3>1
  <2>2. QED
    BY <1>1, <1>3, <1>4, <1>8, <2>1
<1>9. CASE ~req[r].has /\ ~req[q].has
  <2>1. SerializeRequest(r) \o SerializeRequest(q) = <<>>
    <3>1. <<>> \o <<>> = <<>>
      OBVIOUS
    <3>2. QED
      BY <1>5, <1>9, <3>1
  <2>2. QED
    BY <1>1, <1>3, <1>9, <2>1
<1>10. QED
  BY <1>6, <1>7, <1>8, <1>9

\* The wire format agrees with MergeFrom and with ByteSizeLong, for every message
\* that any sequence of calls can make.
THEOREM WireAgrees == Spec => []MergeIsConcatenation
<1>1. ASSUME IInv PROVE MergeIsConcatenation
  <2>0. RequestInv /\ ResponseInv
    BY <1>1 DEF IInv
  <2>1. \A r, q \in Requests :
          Seen(ParseUsers(User_default, SerializeRequest(r) \o SerializeRequest(q)))
            = Seen(IF req[q].has THEN MergeImpl(user(r), user(q)) ELSE user(r))
    BY <2>0, UsersConcatenate DEF Seen
  <2>2. ASSUME NEW s \in Responses, NEW t \in Responses
        PROVE  Seen(Parse(LoginResponse_default, Serialize(rsp[s], LoginResponse_fields)
                                                   \o Serialize(rsp[t], LoginResponse_fields)))
                 = Seen(MergeImpl(rsp[s], rsp[t]))
    <3>1. Sound(rsp[s], LoginResponse_fields) /\ Sound(rsp[t], LoginResponse_fields)
      BY <2>0 DEF ResponseInv
    <3>2. QED
      BY <3>1, Concatenation, FieldNames DEF Seen, LoginResponse_default
  <2>3. \A s \in Responses : ByteSizeLong(rsp[s], LoginResponse_fields)
                               = Bytes(Serialize(rsp[s], LoginResponse_fields))
    BY <2>0, SizeIsExact, FieldNames DEF ResponseInv, Sound
  <2>4. \A r \in Requests : ByteSizeLong(user(r), User_fields)
                              = Bytes(Serialize(user(r), User_fields))
    BY <2>0, UserIsSound, SizeIsExact, FieldNames DEF Sound
  <2>5. QED
    BY <2>1, <2>2, <2>3, <2>4 DEF MergeIsConcatenation
<1>2. QED
  BY Invariance, <1>1, PTL
===============================================================================
